------------------------------- MODULE BridgeWifi -------------------------------
(***************************************************************************)
(* The Wi-Fi bridge between cable and radio (wifi-bridge: wifi.c, eth.c,    *)
(* l2fwd.c, creds.c): one task owns the station and takes events from a     *)
(* queue; the Ethernet receive task learns the pod's MAC; the event task    *)
(* sees the link; the control task stores credentials.                      *)
(***************************************************************************)
EXTENDS Naturals, Sequences

CONSTANTS
    Nets,              \* networks; a network stands for its credentials
    Pods, Factory,     \* MACs of pods, and the station's own
    None,
    LeavesIn,          \* when an access point may give the reason of our own leave
    MaxSets,           \* times the credentials change
    MaxPlugs,          \* times the cable is pulled or plugged
    MaxKicks,          \* times an access point ends a join, or an attempt fails
    QMax               \* events waiting (16 in the code, which this is not to reach)

ConstantsOK ==
    /\ LeavesIn \subseteq {"joining", "joined"}
    /\ Factory \notin Pods /\ None \notin Pods \cup Nets /\ {MaxSets, MaxPlugs, MaxKicks, QMax} \subseteq Nat

VARIABLES
    stored, s_creds_gen,       \* the credentials in NVS; how often they changed
    radio, air,                \* the driver: off, idle, joining, joined; the network it is for
    s_started, s_connecting, s_connected, s_conn_gen,
    s_state, s_retry, s_park, s_parked, s_sta_mac,
    loaded,                    \* credentials apply() holds between their load and its use of them
    evq,
    cable, s_link,             \* who is at the other end; the link as the event task knows it
    pod_mac, relearn,          \* l2fwd: None until the pod is known
    going,                     \* the event task, between l2fwd_link_down and wifi_pod_gone
    inflight,                  \* a control frame received before the link dropped
    sets, plugs, kicks

credVars == <<stored, s_creds_gen>>
radioVars == <<radio, air>>
staVars == <<s_started, s_connecting, s_connected, s_conn_gen, s_state, s_retry, s_park, s_parked,
             s_sta_mac, loaded>>
wireVars == <<cable, s_link, pod_mac, relearn, going, inflight>>
wfBudget == <<sets, plugs, kicks>>
wfVars == <<credVars, radioVars, staVars, evq, wireVars, wfBudget>>

\* wifi_start.
Init ==
    /\ stored \in Nets \cup {None} /\ s_creds_gen = 1
    /\ radio = "off" /\ air = None
    /\ s_started = FALSE /\ s_connecting = FALSE /\ s_connected = FALSE /\ s_conn_gen = 0
    /\ s_state = IF stored = None THEN "unconfigured" ELSE "wait-pod"
    /\ s_retry = FALSE /\ s_park = FALSE /\ s_parked = FALSE /\ s_sta_mac = Factory /\ loaded = None
    /\ evq = <<"STA_START">>
    /\ cable = None /\ s_link = FALSE /\ pod_mac = None /\ relearn = FALSE /\ going = FALSE /\ inflight = FALSE
    /\ sets = 0 /\ plugs = 0 /\ kicks = 0

Post(ev) == Len(evq) < QMax /\ evq' = Append(evq, ev)
--------------------------------------------------------------------------------
(* The Wi-Fi task.                                                          *)

\* leave: esp_wifi_disconnect, of which the driver tells later.
Leave(q) ==
    /\ s_connected' = FALSE /\ s_connecting' = FALSE
    /\ IF (s_connected \/ s_connecting) /\ radio \in {"joining", "joined"}
       THEN radio' = "idle" /\ air' = None /\ evq' = Append(q, "LEFT")
       ELSE UNCHANGED radioVars /\ evq' = q

Joining == radio \in {"joining", "joined"}

\* As if the station kept the MAC it has.
AnyMac == TRUE

\* apply: the station MAC can only change while Wi-Fi is stopped.
RightMac == pod_mac = s_sta_mac

\* apply, up to the credentials: none; no pod; the station not started; another MAC than the pod's
\* (a stop, the new MAC, a start); or on to the connect.
Apply(q, started) ==
    \/ /\ stored = None /\ Leave(q) /\ s_state' = "unconfigured"
       /\ s_started' = started /\ UNCHANGED <<s_sta_mac, loaded>>
    \/ /\ stored # None /\ (s_parked \/ pod_mac = None \/ ~started) /\ evq' = q
       /\ s_state' = IF s_parked \/ pod_mac = None THEN "wait-pod" ELSE s_state
       /\ s_started' = started /\ UNCHANGED <<radioVars, s_connecting, s_connected, s_sta_mac, loaded>>
    \/ /\ stored # None /\ ~s_parked /\ pod_mac # None /\ started /\ ~RightMac
       /\ s_sta_mac' = pod_mac /\ s_started' = FALSE /\ s_connected' = FALSE /\ s_connecting' = FALSE
       /\ radio' = "idle" /\ air' = None /\ s_state' = "joining"
       /\ evq' = (IF Joining THEN Append(q, "LEFT") ELSE q) \o <<"STA_START">> /\ UNCHANGED loaded
    \/ /\ stored # None /\ ~s_parked /\ pod_mac # None /\ started /\ RightMac
       /\ loaded' = stored /\ s_started' = TRUE /\ evq' = q
       /\ UNCHANGED <<radioVars, s_connecting, s_connected, s_sta_mac, s_state>>

\* As if a join under way were never given up for other credentials.
AnyNetwork == s_connected \/ s_connecting

\* apply: already on, or joining, the right network.
RightNetwork == (s_connected \/ s_connecting) /\ s_conn_gen = s_creds_gen

\* apply, with the credentials it loaded: leave, configure, connect.  The driver does not connect
\* while it is busy with another join it has not told of.
ApplyConnect ==
    /\ loaded # None /\ loaded' = None
    /\ IF RightNetwork
       THEN UNCHANGED <<radioVars, s_connecting, s_connected, s_conn_gen, s_retry, s_state, evq>>
       ELSE IF radio = "idle" \/ s_connected \/ s_connecting
            THEN /\ radio' = "joining" /\ air' = loaded /\ s_connecting' = TRUE /\ s_connected' = FALSE
                 /\ s_conn_gen' = s_creds_gen /\ s_retry' = FALSE /\ s_state' = "joining"
                 /\ evq' = IF radio = "idle" THEN evq ELSE Append(evq, "LEFT")
            ELSE s_retry' = TRUE /\ UNCHANGED <<radioVars, s_connecting, s_connected, s_conn_gen, s_state, evq>>
    /\ UNCHANGED <<s_started, s_park, s_parked, s_sta_mac>>

\* park: nobody on the cable for 30 s.
Park ==
    /\ s_parked' = TRUE /\ s_park' = FALSE /\ s_retry' = FALSE /\ s_started' = FALSE
    /\ radio' = "off" /\ air' = None /\ s_connected' = FALSE /\ s_connecting' = FALSE
    /\ evq' = IF radio \in {"joining", "joined"} THEN Append(evq, "LEFT") ELSE evq
    /\ s_state' = IF stored = None THEN "unconfigured" ELSE "wait-pod"
    /\ UNCHANGED <<s_conn_gen, s_sta_mac, loaded>>

\* wifi_task, the queue empty: a timer ran out.
Timer ==
    /\ evq = <<>> /\ loaded = None
    /\ \/ s_park /\ Park
       \/ s_retry /\ s_retry' = FALSE /\ Apply(evq, s_started) /\ UNCHANGED <<s_conn_gen, s_park, s_parked>>
    /\ UNCHANGED <<credVars, wireVars, wfBudget>>

\* As if an access point never gave that reason.
NeverRetries == FALSE

\* EV_DISCONNECTED with REASON_ASSOC_LEAVE: our own, and perhaps a newer join is under way.
RetriesLeave == ~s_connecting /\ ~s_retry /\ stored # None

\* wifi_task, an event.
Take ==
    /\ evq # <<>> /\ loaded = None
    /\ LET ev == Head(evq)  q == Tail(evq)
       IN  \/ /\ ev \in {"APPLY", "STA_START"} /\ Apply(q, s_started \/ ev = "STA_START")
              /\ s_retry' = (s_retry /\ stored # None) /\ UNCHANGED <<s_conn_gen, s_park, s_parked>>
           \/ /\ ev = "CONNECTED" /\ s_connecting' = FALSE /\ s_connected' = TRUE /\ s_state' = "connected"
              /\ evq' = q
              /\ UNCHANGED <<radioVars, s_started, s_conn_gen, s_retry, s_park, s_parked, s_sta_mac, loaded>>
           \/ /\ ev \in {"LEFT", "LOST"} /\ s_connected' = FALSE /\ evq' = q
              /\ IF s_parked THEN s_connecting' = FALSE /\ UNCHANGED <<s_state, s_retry>>
                 ELSE IF ev = "LEFT"
                 THEN /\ s_state' = IF RetriesLeave /\ s_state = "connected" THEN "joining" ELSE s_state
                      /\ s_retry' = (s_retry \/ RetriesLeave) /\ UNCHANGED s_connecting
                 ELSE /\ s_connecting' = FALSE /\ s_retry' = (s_retry \/ stored # None)
                      /\ s_state' = IF stored = None THEN s_state ELSE "failed"
              /\ UNCHANGED <<radioVars, s_started, s_conn_gen, s_park, s_parked, s_sta_mac, loaded>>
           \/ /\ ev = "POD_GONE" /\ s_park' = (s_park \/ ~s_parked) /\ evq' = q
              /\ UNCHANGED <<radioVars, s_started, s_connecting, s_connected, s_conn_gen, s_state,
                             s_retry, s_parked, s_sta_mac, loaded>>
           \/ /\ ev = "POD_BACK" /\ s_park' = FALSE /\ s_parked' = FALSE
              /\ evq' = IF s_parked THEN Append(q, "STA_START") ELSE q
              /\ radio' = (IF s_parked THEN "idle" ELSE radio) /\ UNCHANGED air
              /\ UNCHANGED <<s_started, s_connecting, s_connected, s_conn_gen, s_state, s_retry, s_sta_mac, loaded>>
    /\ UNCHANGED <<credVars, wireVars, wfBudget>>

\* do_scan for a SCAN of the pod: a join under way is dropped and taken up after the scan.
DoScan ==
    /\ kicks < MaxKicks /\ kicks' = kicks + 1 /\ UNCHANGED <<sets, plugs>>
    /\ loaded = None /\ s_started
    /\ IF s_connecting /\ ~s_connected THEN Leave(evq) /\ s_retry' = TRUE
       ELSE UNCHANGED <<radioVars, s_connecting, s_connected, s_retry, evq>>
    /\ UNCHANGED <<credVars, s_started, s_conn_gen, s_state, s_park, s_parked, s_sta_mac, loaded, wireVars>>

Task == Timer \/ Take \/ (ApplyConnect /\ UNCHANGED <<credVars, wireVars, wfBudget>>)
--------------------------------------------------------------------------------
(* The other tasks.                                                         *)

\* bridge_set_wifi, bridge_clear_wifi over creds_store, creds_clear and wifi_creds_changed.
SetWifi ==
    /\ sets < MaxSets /\ sets' = sets + 1 /\ UNCHANGED <<plugs, kicks>>
    /\ stored' \in (Nets \cup {None}) \ {stored} /\ s_creds_gen' = s_creds_gen + 1
    /\ s_state' = IF stored' = None THEN s_state ELSE "joining"
    /\ Post("APPLY")
    /\ UNCHANGED <<radioVars, s_started, s_connecting, s_connected, s_conn_gen, s_retry, s_park,
                   s_parked, s_sta_mac, loaded, wireVars>>

\* eth_input over l2fwd_from_eth, a control frame of the pod: learnt when none is known, or after
\* the link was down.
Learn(mac) ==
    /\ IF pod_mac = None \/ relearn
       THEN /\ pod_mac' = mac /\ relearn' = FALSE
            /\ LET back == IF relearn THEN <<"POD_BACK">> ELSE <<>>
                   news == IF pod_mac # mac THEN <<"APPLY">> ELSE <<>>
               IN  evq' = evq \o back \o news
       ELSE UNCHANGED <<pod_mac, relearn, evq>>

EthControl ==
    /\ Len(evq) < QMax
    /\ \/ cable \in Pods /\ s_link /\ (pod_mac = None \/ relearn) /\ Learn(cable) /\ UNCHANGED inflight
       \/ inflight /\ inflight' = FALSE /\ Learn(pod_mac)
    /\ UNCHANGED <<credVars, radioVars, staVars, cable, s_link, going, wfBudget>>

\* eth_event: a link up; a link down, first for l2fwd, then for the Wi-Fi task.
LinkUp ==
    /\ cable # None /\ ~s_link /\ ~going /\ s_link' = TRUE
    /\ UNCHANGED <<credVars, radioVars, staVars, evq, cable, pod_mac, relearn, going, inflight, wfBudget>>

LinkDown ==
    /\ \/ /\ cable = None /\ s_link /\ s_link' = FALSE /\ relearn' = TRUE /\ going' = TRUE
          /\ inflight' \in {FALSE, pod_mac # None} /\ UNCHANGED evq
       \/ /\ going /\ going' = FALSE /\ Post("POD_GONE") /\ UNCHANGED <<s_link, relearn, inflight>>
    /\ UNCHANGED <<credVars, radioVars, staVars, cable, pod_mac, wfBudget>>

\* forget_pairing: another pod may follow on the same cable.
PairPressed ==
    /\ plugs < MaxPlugs /\ plugs' = plugs + 1 /\ UNCHANGED <<sets, kicks>>
    /\ pod_mac # None /\ relearn' = TRUE
    /\ UNCHANGED <<credVars, radioVars, staVars, evq, cable, s_link, pod_mac, going, inflight>>

\* The cable is pulled, or plugged into a pod.
Plug ==
    /\ plugs < MaxPlugs /\ plugs' = plugs + 1 /\ UNCHANGED <<sets, kicks>>
    /\ cable' \in IF cable = None THEN Pods ELSE {None}
    /\ s_link = (cable # None) /\ UNCHANGED <<credVars, radioVars, staVars, evq, s_link, pod_mac,
                                              relearn, going, inflight>>

\* The driver tells how a join ended; or the access point ends it, with any reason.
Driver ==
    /\ \/ /\ radio = "joining" /\ radio' = "joined" /\ UNCHANGED <<air, wfBudget>> /\ Post("CONNECTED")
       \/ /\ Joining /\ radio' = "idle" /\ air' = None
          /\ kicks < MaxKicks /\ kicks' = kicks + 1 /\ UNCHANGED <<sets, plugs>>
          /\ \/ Post("LOST")
             \/ radio \in LeavesIn /\ Post("LEFT")
    /\ UNCHANGED <<credVars, staVars, wireVars>>

Next == Task \/ DoScan \/ SetWifi \/ EthControl \/ LinkUp \/ LinkDown \/ PairPressed \/ Plug \/ Driver

\* Every task runs; the driver ends a join; the pod speaks (its STATUS, every 10 s).
Fairness ==
    /\ WF_wfVars(Task) /\ WF_wfVars(EthControl) /\ WF_wfVars(LinkUp) /\ WF_wfVars(LinkDown)
    /\ WF_wfVars(Driver /\ UNCHANGED wfBudget)

Spec == Init /\ [][Next]_wfVars /\ Fairness
--------------------------------------------------------------------------------
Has(ev) == \E i \in DOMAIN evq : evq[i] = ev

\* The types of the station's and the wire's state.
TypeOK ==
    /\ stored \in Nets \cup {None} /\ {air, loaded} \subseteq Nets \cup {None}
    /\ s_creds_gen \in 1..(MaxSets + 1) /\ s_conn_gen \in 0..s_creds_gen
    /\ radio \in {"off", "idle", "joining", "joined"}
    /\ {s_started, s_connecting, s_connected, s_retry, s_park, s_parked, s_link, relearn, going,
        inflight} \subseteq BOOLEAN
    /\ s_state \in {"unconfigured", "wait-pod", "joining", "connected", "failed"}
    /\ s_sta_mac \in Pods \cup {Factory} /\ cable \in Pods \cup {None} /\ pod_mac \in Pods \cup {None}
    /\ Len(evq) <= QMax + 3

\* wifi.c: with credentials stored, on the air only with the MAC of the pod on the cable ("factory
\* MAC until the pod's is known (scans only)"), unless the change to another pod's is already queued;
\* and never while parked, when the pod may be on a wired network with that MAC.  (Without
\* credentials a join that a late EV_DISCONNECTED made the task forget goes on: leave does nothing.)
OnAirAsPod ==
    /\ Joining => s_sta_mac = pod_mac \/ (s_sta_mac \in Pods /\ (stored = None \/ Has("APPLY")))
    /\ s_parked => radio = "off"

\* wifi_task: whatever failed, with credentials stored and a pod that is there, the station is
\* joined in the end, with what it takes for the newest credentials.
Settled ==
    \/ stored = None \/ cable = None \/ s_parked
    \/ radio = "joined" /\ s_connected /\ s_conn_gen = s_creds_gen /\ s_state = "connected"
StationSettles == <>[]Settled

================================================================================
