------------------------------- MODULE BridgeLink -------------------------------
(***************************************************************************)
(* The pod's control channel to its Wi-Fi bridge: the client in             *)
(* wifi_bridge.c and the bridge's control.c, pairing.c and creds.c, over a  *)
(* cable that loses frames but keeps their order.  Either side may reboot,  *)
(* the PAIR button forgets the key, and the bridge may have been with       *)
(* another pod.                                                             *)
(*                                                                          *)
(* A key is named by the pod it was agreed with and by the bridge's public  *)
(* key of that pairing; the signature of a frame by key, nonce and counter. *)
(***************************************************************************)
EXTENDS Naturals, Sequences

CONSTANTS
    Types,             \* the requests a user makes
    Tries,             \* WB_TRIES
    SeqMax,            \* the last sequence number before the wrap (16 bits in the code)
    CMax,              \* signatures a pod makes under one nonce
    Cable,             \* frames in flight, each way
    MaxFaults,         \* frames lost, late answers, reboots, presses, other pods
    MaxUser            \* requests of users, and STATUS of the pod's own while all is well

ConstantsOK ==
    /\ Types \subseteq {"STATUS", "SCAN", "SET_WIFI", "REBOOT", "FACTORY_RESET"}
    /\ {Tries, SeqMax, CMax, Cable} \subseteq Nat \ {0} /\ {MaxFaults, MaxUser} \subseteq Nat

VARIABLES
    present,                     \* seen, link_up and a HELLO in the last 6 s
    p_nonce, have_nonce,         \* the pod's nonce; a HELLO since the link came up named it
    p_key, counter,
    flag, paired, problem,       \* info: the bridge's PAIRED flag; an answer verified; REJECTED
    req,                         \* the one request, and its answer
    seq, due,                    \* the last sequence number; next_status or next_pair is reached
    heard,                       \* a HELLO (2 s) since the pod's last own request (5 s, 10 s)
    b_nonce, b_key, nvs_key,     \* the bridge's boot; its key, in RAM and stored
    last_counter, pubs,          \* pairing.last_counter; key pairs made
    link, down_up,               \* frames to the bridge; to the pod
    executed, again,             \* requests carried out, by signature; one of them twice
    b_faults, users

podVars == <<present, p_nonce, have_nonce, p_key, counter, flag, paired, problem, req, seq, due, heard>>
brVars == <<b_nonce, b_key, nvs_key, last_counter, pubs, executed, again>>
budget == <<b_faults, users>>
blVars == <<podVars, brVars, link, down_up, budget>>

NoKey == [pod |-> "none", pub |-> 0]
Unsigned == [key |-> NoKey, nonce |-> 0, ctr |-> 0]
Auth(k, n, c) == [key |-> k, nonce |-> n, ctr |-> c]
NoReq == [state |-> "idle", type |-> "STATUS", seq |-> 0, tries |-> 0, signed |-> FALSE,
          resynced |-> FALSE, internal |-> TRUE, ctr |-> 0, result |-> "none"]

\* wb_init, and control_start of a bridge never paired.
Init ==
    /\ present = FALSE /\ p_nonce = 0 /\ have_nonce = FALSE /\ p_key = NoKey /\ counter = 0
    /\ flag = FALSE /\ paired = FALSE /\ problem = FALSE /\ req = NoReq /\ seq = 0 /\ due = FALSE /\ heard = FALSE
    /\ b_nonce = 1 /\ b_key = NoKey /\ nvs_key = NoKey
    /\ last_counter = 0 /\ pubs = 0 /\ executed = {} /\ again = FALSE
    /\ link = <<>> /\ down_up = <<>>
    /\ b_faults = 0 /\ users = 0

Fault == b_faults < MaxFaults /\ b_faults' = b_faults + 1 /\ UNCHANGED users
--------------------------------------------------------------------------------
(* The pod: wifi_bridge.c.                                                  *)

\* finish: the pod's own requests leave nothing behind.
Finished(r, state, result) ==
    IF r.internal THEN NoReq ELSE [r EXCEPT !.state = state, !.result = result]

\* send_req: a signed request is signed again for every send, with a new counter.
SendReq(r, nonce, ctr) ==
    LET c == IF r.signed THEN ctr + 1 ELSE ctr
    IN  /\ req' = [r EXCEPT !.tries = @ + 1, !.ctr = IF r.signed THEN c ELSE @]
        /\ counter' = c /\ Len(link) < Cable
        /\ link' = Append(link, [type |-> r.type, seq |-> r.seq,
                                 auth |-> IF r.signed THEN Auth(p_key, nonce, c) ELSE Unsigned])

\* start_req: signed when the bridge says it is paired.
StartReq(type, internal) ==
    LET s == (seq % SeqMax) + 1
    IN  /\ seq' = s
        /\ SendReq([NoReq EXCEPT !.state = "pending", !.type = type, !.seq = s, !.signed = flag,
                                 !.internal = internal], p_nonce, counter)

OnTheWay ==
    \/ link # <<>>
    \/ \E i \in DOMAIN down_up : down_up[i].kind = "ANSWER" /\ down_up[i].seq = req.seq

\* wb_poll, a request pending: no bridge; or no answer in time, and a resend or the end.  An answer
\* still on its way is late only by a fault.
PollPending ==
    /\ req.state = "pending"
    /\ IF present
       THEN /\ IF OnTheWay THEN Fault ELSE UNCHANGED budget
            /\ IF req.tries < Tries
               THEN SendReq(req, p_nonce, counter)
               ELSE req' = Finished(req, "timeout", "none") /\ UNCHANGED <<counter, link>>
       ELSE req' = Finished(req, "timeout", "none") /\ UNCHANGED <<counter, link, budget>>
    /\ UNCHANGED <<present, p_nonce, have_nonce, p_key, flag, paired, problem, seq, due, heard, brVars, down_up>>

\* wb_poll, idle: pair with an unpaired bridge; ask a paired one for its STATUS when that is due.
PollIdle ==
    /\ req.state = "idle" /\ present /\ have_nonce
    /\ heard' = FALSE /\ due' = FALSE
    /\ \/ ~flag /\ (due \/ heard) /\ StartReq("PAIR", TRUE) /\ UNCHANGED budget
       \/ /\ flag /\ p_key # NoKey /\ StartReq("STATUS", TRUE)
          /\ \/ due /\ UNCHANGED budget
             \/ ~due /\ heard /\ ~paired /\ counter < CMax /\ UNCHANGED budget
             \/ ~due /\ heard /\ paired /\ users < MaxUser /\ users' = users + 1 /\ UNCHANGED b_faults
    /\ UNCHANGED <<present, p_nonce, have_nonce, p_key, flag, paired, problem, brVars, down_up>>

\* request, wb_request_set_wifi: what needs a pairing waits for it, and a signature for the nonce.
MayRequest(type) ==
    /\ present /\ req.state = "idle"
    /\ IF flag THEN p_key # NoKey /\ have_nonce ELSE type \in {"STATUS", "SCAN"}

UserRequest ==
    /\ users < MaxUser /\ users' = users + 1
    /\ \E t \in Types : MayRequest(t) /\ StartReq(t, FALSE)
    /\ UNCHANGED <<present, p_nonce, have_nonce, p_key, flag, paired, problem, due, heard, brVars,
                   down_up, b_faults>>

\* wb_request_release.
Release ==
    /\ req.state \in {"done", "timeout"} /\ req' = NoReq
    /\ UNCHANGED <<present, p_nonce, have_nonce, p_key, counter, flag, paired, problem, seq, due, heard,
                   brVars, link, down_up, budget>>

\* As if the pod kept the key it has when a HELLO shows another pairing.
LearnOnce(pub) == IF p_key # NoKey THEN p_key ELSE [pod |-> "us", pub |-> pub]

\* learn_bridge_pub: our secret with the bridge's public key, whoever it paired with.
Learn(pub) == [pod |-> "us", pub |-> pub]

\* on_hello: a first HELLO starts over; a new nonce starts the counter over; an unpaired bridge has
\* no key, and a paired one names its public key.
OnHello(f) ==
    LET new == f.nonce # p_nonce
    IN  /\ p_nonce' = f.nonce /\ have_nonce' = TRUE /\ present' = TRUE
        /\ counter' = IF new THEN 0 ELSE counter
        /\ due' = (due \/ new \/ ~have_nonce) /\ heard' = TRUE
        /\ flag' = f.flag
        /\ p_key' = IF f.flag THEN Learn(f.pub) ELSE NoKey
        /\ paired' = (paired /\ f.flag)
        /\ UNCHANGED <<req, seq, problem, link>>

\* bwp_verify, with our key and nonce, and the counter of the last send.
Verified(f) == f.auth = Auth(p_key, p_nonce, req.ctr)

\* on_reply, E_AUTH: a nonce we did not know is taken over and the request signed again; a counter
\* too low is raised; else the key is not ours.
OnAuthRefusal(f) ==
    LET new == ~have_nonce \/ f.nonce # p_nonce
        over == Finished(req, "done", "AUTH")
    IN  \/ /\ new /\ p_nonce' = f.nonce /\ have_nonce' = TRUE /\ UNCHANGED <<paired, problem>>
           /\ IF req.tries < Tries \/ ~req.resynced
              THEN SendReq([req EXCEPT !.resynced = req.tries >= Tries], f.nonce, 0)
              ELSE req' = over /\ counter' = 0 /\ UNCHANGED link
        \/ /\ ~new /\ ~req.resynced /\ f.last > 0
           /\ SendReq([req EXCEPT !.resynced = TRUE], p_nonce,
                      IF f.last >= counter THEN f.last ELSE counter)
           /\ UNCHANGED <<p_nonce, have_nonce, paired, problem>>
        \/ /\ ~new /\ (req.resynced \/ f.last = 0)
           /\ paired' = FALSE /\ problem' = TRUE /\ req' = over
           /\ UNCHANGED <<p_nonce, have_nonce, counter, link>>

\* on_reply to a request the bridge carried out: a PAIR brings the bridge's public key.
OnOk(f) ==
    /\ req' = Finished(req, "done", "OK")
    /\ IF req.type = "PAIR"
       THEN /\ p_key' = Learn(f.pub) /\ flag' = TRUE /\ paired' = TRUE /\ problem' = FALSE /\ due' = TRUE
       ELSE /\ paired' = (paired \/ req.signed) /\ problem' = (problem /\ ~req.signed)
            /\ due' = (due \/ req.type = "SET_WIFI") /\ UNCHANGED <<p_key, flag>>

\* on_reply, for a request that was refused or carried out.
OnReply(f) ==
    \/ /\ f.result = "AUTH" /\ OnAuthRefusal(f) /\ UNCHANGED <<p_key, flag, due>>
    \/ /\ f.result = "ALREADY_PAIRED" /\ paired' = FALSE /\ problem' = TRUE
       /\ req' = Finished(req, "done", f.result)
       /\ UNCHANGED <<p_nonce, have_nonce, p_key, counter, flag, due, link>>
    \/ /\ f.result = "NOT_PAIRED" /\ flag' = FALSE /\ paired' = FALSE /\ due' = TRUE
       /\ req' = Finished(req, "done", f.result)
       /\ UNCHANGED <<p_nonce, have_nonce, p_key, counter, problem, link>>
    \/ /\ f.result = "STORAGE" /\ (req.signed => Verified(f)) /\ req' = Finished(req, "done", f.result)
       /\ UNCHANGED <<p_nonce, have_nonce, p_key, counter, flag, paired, problem, due, link>>
    \/ /\ f.result = "OK" /\ (req.signed => Verified(f)) /\ OnOk(f)
       /\ UNCHANGED <<p_nonce, have_nonce, counter, link>>
    \/ /\ f.result \in {"OK", "STORAGE"} /\ req.signed /\ ~Verified(f)   \* not of our bridge: ignored
       /\ UNCHANGED <<p_nonce, have_nonce, p_key, counter, flag, paired, problem, req, due, link>>

\* wb_rx: HELLO; STATUS nobody asked for refreshes the flags; an answer to the request pending.
PodRx ==
    /\ down_up # <<>> /\ down_up' = Tail(down_up)
    /\ LET f == Head(down_up)
       IN  \/ f.kind = "HELLO" /\ OnHello(f)
           \/ /\ f.kind = "NOTIFY" /\ flag' = IF p_nonce # 0 THEN f.flag ELSE flag
              /\ UNCHANGED <<present, p_nonce, have_nonce, p_key, counter, paired, problem, req, seq,
                             due, heard, link>>
           \/ /\ f.kind = "ANSWER" /\ UNCHANGED <<present, seq, heard>>
              /\ IF req.state = "pending" /\ f.seq = req.seq /\ f.type = req.type /\ p_nonce # 0
                 THEN OnReply(f)
                 ELSE UNCHANGED <<p_nonce, have_nonce, p_key, counter, flag, paired, problem, req, due, link>>
    /\ UNCHANGED <<brVars, budget>>
--------------------------------------------------------------------------------
(* The bridge: control.c, pairing.c, creds.c.                               *)

\* As if a counter already used were let through once more.
RepeatedCounter(c) == c < last_counter

\* pairing_check: not above the last counter accepted.
Replay(c) == c <= last_counter

\* pairing_check.
Verdict(f) ==
    CASE b_key = NoKey /\ f.type \notin {"STATUS", "SCAN", "PAIR"} -> "NOT_PAIRED"
      [] b_key # NoKey /\ (f.auth.key # b_key \/ f.auth.nonce # b_nonce) ->
            IF f.type = "PAIR" THEN "ALREADY_PAIRED" ELSE "AUTH"
      [] b_key # NoKey /\ f.auth.key = b_key /\ f.auth.nonce = b_nonce /\ Replay(f.auth.ctr) -> "REPLAY"
      [] OTHER -> "ACCEPT"

Answer(f, result, last, auth, pub) ==
    [kind |-> "ANSWER", type |-> f.type, seq |-> f.seq, result |-> result, nonce |-> b_nonce,
     last |-> last, auth |-> auth, pub |-> pub, flag |-> b_key # NoKey]

\* send_hello.
Hello == [kind |-> "HELLO", type |-> "STATUS", seq |-> 0, result |-> "none", nonce |-> b_nonce, last |-> 0,
          auth |-> Unsigned, pub |-> b_key.pub, flag |-> b_key # NoKey]

\* send_status with sequence number 0.
Notify == [Hello EXCEPT !.kind = "NOTIFY"]

Put(f) == Len(down_up) < Cable /\ down_up' = Append(down_up, f)

\* handle, a refusal: unsigned, with the nonce, and with the counter when only that was wrong.
Refuse(f, v) ==
    /\ v # "ACCEPT"
    /\ Put(Answer(f, IF v = "REPLAY" THEN "AUTH" ELSE v, IF v = "REPLAY" THEN last_counter ELSE 0, Unsigned, 0))
    /\ UNCHANGED brVars

\* pairkey_store and pairing_set_key: a new key pair, stored before it is answered and used.
StorePairing(f, auth) ==
    \/ /\ pubs' = pubs + 1 /\ nvs_key' = [pod |-> "us", pub |-> pubs + 1] /\ b_key' = nvs_key'
       /\ last_counter' = 0
       /\ Put(Answer(f, "OK", 0, auth, pubs + 1)) /\ UNCHANGED <<b_nonce, b_faults>>
    \/ /\ b_faults < MaxFaults /\ b_faults' = b_faults + 1             \* NVS does not take it
       /\ Put(Answer(f, "STORAGE", 0, auth, 0)) /\ last_counter' = auth.ctr
       /\ UNCHANGED <<b_nonce, b_key, nvs_key, pubs>>

\* board_reboot, and a power cycle: control_start draws a nonce and loads the key.
Boot(stored) ==
    /\ b_nonce' = b_nonce + 1 /\ b_key' = stored /\ nvs_key' = stored /\ last_counter' = 0

\* handle, a valid request.  An answer is signed as its request was.
Carry(f) ==
    LET auth == IF b_key # NoKey THEN f.auth ELSE Unsigned
    IN  /\ executed' = executed \cup (IF b_key # NoKey THEN {<<f.auth, f.type>>} ELSE {})
        /\ again' = (again \/ (b_key # NoKey /\ \E e \in executed : e[1] = f.auth))
        /\ IF f.type = "PAIR" THEN StorePairing(f, auth)
           ELSE /\ Put(Answer(f, "OK", 0, auth, 0)) /\ UNCHANGED b_faults
                /\ IF f.type \in {"REBOOT", "FACTORY_RESET"}
                   THEN Boot(IF f.type = "REBOOT" THEN nvs_key ELSE NoKey) /\ UNCHANGED pubs
                   ELSE last_counter' = auth.ctr /\ UNCHANGED <<b_nonce, b_key, nvs_key, pubs>>

\* control_task takes a frame.
BridgeRx ==
    /\ link # <<>> /\ link' = Tail(link)
    /\ LET f == Head(link)  v == Verdict(f)
       IN  \/ Refuse(f, v) /\ UNCHANGED b_faults
           \/ v = "ACCEPT" /\ Carry(f)
    /\ UNCHANGED <<podVars, users>>

\* control_task: HELLO every 2 s, and a STATUS when the Wi-Fi state changed.
BridgeSpeaks ==
    /\ Len(down_up) < Cable - 1
    /\ \/ Put(Hello) /\ UNCHANGED budget
       \/ Put(Notify) /\ Fault
    /\ UNCHANGED <<podVars, brVars, link>>
--------------------------------------------------------------------------------
(* Faults.                                                                  *)

Lose ==
    /\ Fault
    /\ \/ link # <<>> /\ link' = Tail(link) /\ UNCHANGED down_up
       \/ down_up # <<>> /\ down_up' = Tail(down_up) /\ UNCHANGED link
    /\ UNCHANGED <<podVars, brVars>>

\* Three HELLOs missed, or the cable is pulled (wb_set_link: the nonce counts no longer).
Away ==
    /\ Fault /\ present /\ present' = FALSE /\ have_nonce' \in {have_nonce, FALSE}
    /\ link' = <<>> /\ down_up' = <<>>
    /\ UNCHANGED <<p_nonce, p_key, counter, flag, paired, problem, req, seq, due, heard, brVars>>

\* The bridge restarts: seen by the pod as a link that drops, or not at all.  PAIR pressed
\* (forget_pairing), or the bridge was paired with another pod meanwhile.
BridgeReboots ==
    /\ Fault /\ link' = <<>> /\ down_up' = <<>>
    /\ \E k \in {nvs_key, NoKey, [pod |-> "other", pub |-> pubs + 1]} :
          Boot(k) /\ pubs' = IF k.pod = "other" THEN pubs + 1 ELSE pubs
    /\ have_nonce' \in {have_nonce, FALSE}
    /\ UNCHANGED <<executed, again, present, p_nonce, p_key, counter, flag, paired, problem, req, seq, due, heard>>

\* forget_pairing, the PAIR button.
Forget ==
    /\ Fault /\ b_key # NoKey /\ b_key' = NoKey /\ nvs_key' = NoKey
    /\ UNCHANGED <<b_nonce, last_counter, pubs, executed, again, podVars, link, down_up>>

\* wb_init after a reset: the pod counts from 1 again, and numbers its requests from 1.
PodReboots ==
    /\ Fault
    /\ present' = FALSE /\ p_nonce' = 0 /\ have_nonce' = FALSE /\ p_key' = NoKey /\ counter' = 0
    /\ flag' = FALSE /\ paired' = FALSE /\ problem' = FALSE
    /\ req' = NoReq /\ seq' = 0 /\ due' = FALSE /\ heard' = FALSE
    /\ link' = <<>> /\ down_up' = <<>> /\ UNCHANGED brVars

Faults == Lose \/ Away \/ BridgeReboots \/ Forget \/ PodReboots

Next == PollPending \/ PollIdle \/ UserRequest \/ Release \/ PodRx \/ BridgeRx \/ BridgeSpeaks \/ Faults

\* Both tasks go on; a user takes the answer to a request.
Fairness ==
    /\ WF_blVars(PollPending) /\ WF_blVars(PollIdle) /\ WF_blVars(Release)
    /\ WF_blVars(PodRx) /\ WF_blVars(BridgeRx) /\ WF_blVars(BridgeSpeaks /\ UNCHANGED b_faults)

Spec == Init /\ [][Next]_blVars /\ Fairness
--------------------------------------------------------------------------------
Keys == [pod : {"none", "us", "other"}, pub : 0..pubs]

\* The types of both sides' state.
TypeOK ==
    /\ {present, have_nonce, flag, paired, problem, due, heard} \subseteq BOOLEAN
    /\ p_nonce \in 0..b_nonce /\ {p_key, b_key, nvs_key} \subseteq Keys /\ counter \in Nat /\ last_counter \in Nat
    /\ req.state \in {"idle", "pending", "done", "timeout"} /\ req.tries \in 0..(Tries + 1) /\ seq \in 0..SeqMax
    /\ Len(link) <= Cable /\ Len(down_up) <= Cable

\* pairing.c: "COUNTER must be higher than the last one the bridge accepted for this NONCE"
\* (PROTOCOL.md): no signed frame is carried out twice, over reboots of either side, retries and a
\* pairing forgotten and made again.
NoReplay == ~again

\* on_reply: a request the user sees done was carried out by the bridge, under the very signature
\* of its last send.
DoneIsDone ==
    req.state = "done" /\ req.result = "OK" /\ req.signed =>
        \E e \in executed : e[2] = req.type /\ e[1].ctr = req.ctr /\ e[1].key.pod = "us"

\* PROTOCOL.md: the pod "resyncs after either side reboots": whatever was lost and whoever
\* rebooted, pod and bridge are paired in the end, with the same key, unless the bridge is
\* another pod's; and every request ends.
Agreed == b_key.pod = "other" \/ (paired /\ p_key = b_key /\ p_nonce = b_nonce /\ ~problem)
PairedAgain == <>[]Agreed /\ []<>(req.state # "pending")
================================================================================
