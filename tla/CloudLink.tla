------------------------------- MODULE CloudLink -------------------------------
(***************************************************************************)
(* The connection of the pod to its cloud server (cloud_client.c): name     *)
(* lookup, one TLS link for challenge and WebSocket, login, back-off and    *)
(* the reload of the settings.  lwIP's callbacks only set flags; every      *)
(* transition is made by cloud_client_poll on the net task, one action per  *)
(* state.  A server is named by its host; an address is the server found    *)
(* there.  A deadline may pass whenever its state waits: how often          *)
(* something goes wrong is bounded by MaxFaults, so that a behaviour ends   *)
(* in fair weather.                                                         *)
(***************************************************************************)
EXTENDS Naturals

CONSTANTS
    Hosts,          \* the servers a configuration can name
    OldHosts,       \* those of them that know the login v1 only
    Proxy,          \* the proxy, when the configuration asks for one
    None,
    BackoffStart,   \* BACKOFF_START_MS
    BackoffMax,     \* BACKOFF_MAX_MS
    MaxFaults, MaxReloads

ConstantsOK ==
    /\ OldHosts \subseteq Hosts /\ Proxy \notin Hosts /\ None \notin Hosts \cup {Proxy}
    /\ BackoffStart \in Nat \ {0} /\ BackoffMax \in Nat /\ BackoffStart <= BackoffMax
    /\ MaxFaults \in Nat /\ MaxReloads \in Nat

VARIABLES
    cl_state, s_cfg,
    s_dns, s_ip, lookups,      \* the answer, the address it gave, what lwIP still looks up
    s_pcb, pcbs,               \* the address our link leads to; the links lwIP holds for us
    s_link, s_dropped, s_rx,   \* the flags of the callbacks, and what the server said
    s_backoff_ms, s_backoff_reset_pending, s_auth_v1,
    extras_ready, faults, reloads

clVars == <<cl_state, s_cfg, s_dns, s_ip, lookups, s_pcb, pcbs, s_link, s_dropped, s_rx,
            s_backoff_ms, s_backoff_reset_pending, s_auth_v1, extras_ready, faults, reloads>>
linkVars == <<s_pcb, pcbs, s_link, s_dropped, s_rx>>
dnsVars == <<s_dns, s_ip, lookups>>
waitVars == <<s_backoff_ms, s_backoff_reset_pending>>
envVars == <<s_cfg, extras_ready, reloads>>

Configs == [host : Hosts, proxy : BOOLEAN]
Waiting == {"resolve_wait", "chal_connect", "chal_wait", "ws_wait"}

\* The states in which cloud_client.c owns a link.
Linked == {"chal_connect", "chal_wait", "ws_wait", "connected"}

\* Through a proxy only the proxy needs resolving.
Target(c) == IF c.proxy THEN Proxy ELSE c.host

\* Whom our link ends at: the CONNECT to the proxy names the server.
Peer == IF s_cfg.proxy /\ s_pcb = Proxy THEN s_cfg.host ELSE s_pcb

\* A server that is not a proxy does not answer CONNECT.
NoProxyThere == s_cfg.proxy /\ s_pcb # Proxy

Fault == faults < MaxFaults /\ faults' = faults + 1
Fair == UNCHANGED faults
--------------------------------------------------------------------------------
\* cloud_client_init: a usable configuration waits for the network.
FirstState(c) == IF c = None THEN "disabled" ELSE "wait_wifi"

Init ==
    /\ s_cfg \in Configs \cup {None}
    /\ cl_state = FirstState(s_cfg)
    /\ s_dns = "none" /\ s_ip = None /\ lookups = {}
    /\ s_pcb = None /\ pcbs = 0 /\ s_link = "idle" /\ s_dropped = FALSE /\ s_rx = "none"
    /\ s_backoff_ms = BackoffStart /\ s_backoff_reset_pending = FALSE
    /\ s_auth_v1 = FALSE /\ extras_ready = FALSE
    /\ faults = 0 /\ reloads = 0

\* As if a dropped link were forgotten and not closed.
DropLinkKeepsLink ==
    /\ pcbs' = pcbs
    /\ s_pcb' = None /\ s_link' = "idle" /\ s_dropped' = FALSE /\ s_rx' = "none"

\* cl_drop_link: the callbacks are taken off the link before it is closed.
DropLink ==
    /\ pcbs' = IF s_pcb = None THEN pcbs ELSE pcbs - 1
    /\ s_pcb' = None /\ s_link' = "idle" /\ s_dropped' = FALSE /\ s_rx' = "none"

\* cl_backoff (and cl_dns_backoff): drop, wait, and wait twice as long the next time.
Backoff ==
    /\ DropLink
    /\ cl_state' = "backoff"
    /\ s_backoff_ms' = IF 2 * s_backoff_ms > BackoffMax THEN BackoffMax ELSE 2 * s_backoff_ms
    /\ UNCHANGED s_backoff_reset_pending

\* cl_dns_backoff: the same when the name could not be resolved.
DnsBackoff == Backoff

\* cl_set_state
GoTo(st) == cl_state' = st /\ UNCHANGED waitVars
--------------------------------------------------------------------------------
\* CL_WAIT_WIFI: also for the company CA and the proxy settings, up to CL_EXTRAS_WAIT_MS.
PollWaitWifi ==
    /\ cl_state = "wait_wifi"
    /\ extras_ready
    /\ GoTo("resolve")
    /\ UNCHANGED <<dnsVars, linkVars, s_auth_v1, envVars, faults>>

\* CL_RESOLVE: the answer is cached, on its way, or the request is refused.
PollResolve ==
    /\ cl_state = "resolve"
    /\ \/ /\ s_dns' = "ok" /\ s_ip' = Target(s_cfg) /\ UNCHANGED lookups
          /\ GoTo("resolve_wait") /\ Fair /\ UNCHANGED linkVars
       \/ /\ s_dns' = "pending" /\ lookups' = lookups \cup {Target(s_cfg)} /\ UNCHANGED s_ip
          /\ GoTo("resolve_wait") /\ Fair /\ UNCHANGED linkVars
       \/ s_dns' = "pending" /\ UNCHANGED <<s_ip, lookups>> /\ DnsBackoff /\ Fault
    /\ UNCHANGED <<s_auth_v1, envVars>>

\* CL_RESOLVE_WAIT
PollResolveWait ==
    /\ cl_state = "resolve_wait"
    /\ \/ s_dns = "ok" /\ GoTo("chal_open") /\ Fair /\ UNCHANGED linkVars
       \/ s_dns = "fail" /\ DnsBackoff /\ Fair
       \/ s_dns = "pending" /\ DnsBackoff /\ Fault
    /\ UNCHANGED <<dnsVars, s_auth_v1, envVars>>

\* CL_CHAL_OPEN: cl_open builds the layers and connects; a failure frees what it made.
PollOpen ==
    /\ cl_state = "chal_open"
    /\ \/ /\ s_pcb' = s_ip /\ pcbs' = pcbs + 1
          /\ s_link' = "connecting" /\ s_dropped' = FALSE /\ s_rx' = "none"
          /\ GoTo("chal_connect") /\ Fair
       \/ Backoff /\ Fault
    /\ UNCHANGED <<dnsVars, s_auth_v1, envVars>>

\* As if the link were used without looking at the result of the certificate check.
VerifiedAnyway == TRUE

\* cl_tls_verified: chain and host name of the other end's certificate.
Verified == Peer = s_cfg.host

\* cl_send_challenge_post
SendChallenge == GoTo("chal_wait") /\ UNCHANGED linkVars

\* CL_CHAL_CONNECT
PollConnect ==
    /\ cl_state = "chal_connect"
    /\ \/ s_link = "up" /\ Verified /\ SendChallenge /\ Fair
       \/ s_link = "up" /\ ~Verified /\ Backoff /\ Fair
       \/ s_link = "up" /\ Verified /\ Backoff /\ Fault          \* the POST is not sent
       \/ s_link # "up" /\ (s_link = "failed" \/ s_dropped) /\ Backoff /\ Fair
       \/ s_link = "connecting" /\ ~s_dropped /\ Backoff /\ Fault
    /\ UNCHANGED <<dnsVars, s_auth_v1, envVars>>

\* cl_send_ws_upgrade: what the server said is used up.
SendUpgrade ==
    /\ s_rx' = "none" /\ UNCHANGED <<s_pcb, pcbs, s_link, s_dropped>>
    /\ GoTo("ws_wait")

\* CL_CHAL_WAIT: the nonce is signed for the configured host and sent up the same link.
PollChallenge ==
    /\ cl_state = "chal_wait"
    /\ \/ ~s_dropped /\ s_rx = "nonce" /\ SendUpgrade /\ Fair
       \/ (s_dropped \/ s_rx = "refused") /\ Backoff /\ Fair
       \/ ~s_dropped /\ s_rx \in {"none", "nonce"} /\ Backoff /\ Fault
    /\ UNCHANGED <<dnsVars, s_auth_v1, envVars>>

\* As if a refused login were tried again the same way.
AuthAfterRefusalSticks(v1) == v1

\* A login refused in one version is signed in the other the next time.
AuthAfterRefusal(v1) == ~v1

\* CL_WS_WAIT: 101, a refusal, a close or the deadline.
PollUpgrade ==
    /\ cl_state = "ws_wait"
    /\ \/ /\ ~s_dropped /\ s_rx = "101"
          /\ s_rx' = "none" /\ UNCHANGED <<s_pcb, pcbs, s_link, s_dropped>>
          /\ cl_state' = "connected" /\ s_backoff_reset_pending' = TRUE
          /\ UNCHANGED <<s_backoff_ms, s_auth_v1>> /\ Fair
       \/ ~s_dropped /\ s_rx = "401" /\ Backoff /\ Fair /\ s_auth_v1' = AuthAfterRefusal(s_auth_v1)
       \/ (s_dropped \/ s_rx = "refused") /\ Backoff /\ Fair /\ UNCHANGED s_auth_v1
       \/ ~s_dropped /\ s_rx = "none" /\ Backoff /\ Fault /\ UNCHANGED s_auth_v1
    /\ UNCHANGED <<dnsVars, envVars>>

\* CL_CONNECTED: a dropped link, an overrun, silence for the idle budget, a ping or a response
\* that cannot be sent, a bad frame; and the stable link that earns a short back-off again.
PollConnected ==
    /\ cl_state = "connected"
    /\ \/ s_dropped /\ Backoff /\ Fair
       \/ ~s_dropped /\ Backoff /\ Fault
       \/ /\ ~s_dropped /\ s_backoff_reset_pending
          /\ s_backoff_ms' = BackoffStart /\ s_backoff_reset_pending' = FALSE
          /\ UNCHANGED <<cl_state, linkVars>> /\ Fair
    /\ UNCHANGED <<dnsVars, s_auth_v1, envVars>>

\* CL_BACKOFF
PollBackoff ==
    /\ cl_state = "backoff"
    /\ GoTo("resolve")
    /\ UNCHANGED <<dnsVars, linkVars, s_auth_v1, envVars, faults>>

Poll == \/ PollWaitWifi \/ PollResolve \/ PollResolveWait \/ PollOpen \/ PollConnect
        \/ PollChallenge \/ PollUpgrade \/ PollConnected \/ PollBackoff
--------------------------------------------------------------------------------
\* cl_dns_cb: it is given the name and does not look at it.
DnsAnswer(h) ==
    /\ h \in lookups
    /\ lookups' = lookups \ {h}
    /\ \/ s_ip' = h /\ s_dns' = "ok" /\ Fair
       \/ s_dns' = "fail" /\ UNCHANGED s_ip /\ Fault
    /\ UNCHANGED <<cl_state, linkVars, waitVars, s_auth_v1, envVars>>

\* cl_connected_cb: the handshake (and the CONNECT before it) is done.
LinkUp ==
    /\ s_link = "connecting" /\ s_pcb # None
    /\ ~NoProxyThere
    /\ s_link' = "up"
    /\ UNCHANGED <<cl_state, dnsVars, s_pcb, pcbs, s_dropped, s_rx, waitVars, s_auth_v1, envVars, faults>>

\* cl_err_cb: lwIP has already freed the link.
LinkError ==
    /\ s_pcb # None
    /\ \/ Fault
       \/ Fair /\ s_link = "connecting" /\ NoProxyThere
    /\ s_pcb' = None /\ pcbs' = pcbs - 1 /\ s_link' = "failed" /\ s_dropped' = TRUE
    /\ UNCHANGED <<cl_state, dnsVars, s_rx, waitVars, s_auth_v1, envVars>>

\* cl_recv_cb with no data: the server closed its end.
PeerCloses ==
    /\ s_link = "up" /\ ~s_dropped /\ s_pcb # None
    /\ Fault /\ s_dropped' = TRUE
    /\ UNCHANGED <<cl_state, dnsVars, s_pcb, pcbs, s_link, s_rx, waitVars, s_auth_v1, envVars>>

\* cl_recv_cb with a response.  An old server knows v1 only; a new one refuses v1 from a pod that
\* has used v2, and either may refuse for reasons of its own.
ServerAnswers ==
    /\ s_pcb # None /\ s_link = "up" /\ s_rx = "none"
    /\ \/ cl_state = "chal_wait" /\ s_rx' = "nonce" /\ Fair
       \/ cl_state = "chal_wait" /\ s_rx' = "refused" /\ Fault
       \/ /\ cl_state = "ws_wait" /\ Fair
          /\ s_rx' = IF s_auth_v1 = (Peer \in OldHosts) THEN "101" ELSE "401"
       \/ cl_state = "ws_wait" /\ s_rx' \in {"401", "refused"} /\ Fault
    /\ UNCHANGED <<cl_state, dnsVars, s_pcb, pcbs, s_link, s_dropped, waitVars, s_auth_v1, envVars>>

\* cloud_extras_ready, or CL_EXTRAS_WAIT_MS after boot; with it the network came up.
ExtrasReady ==
    /\ ~extras_ready /\ extras_ready' = TRUE
    /\ UNCHANGED <<cl_state, s_cfg, dnsVars, linkVars, waitVars, s_auth_v1, faults, reloads>>

\* cloud_client_reload: other settings, a clean slate.
Reload ==
    /\ reloads < MaxReloads /\ reloads' = reloads + 1
    /\ DropLink
    /\ s_cfg' \in Configs \cup {None}
    /\ cl_state' = FirstState(s_cfg')
    /\ s_dns' = "none" /\ s_backoff_ms' = BackoffStart
    /\ UNCHANGED <<s_ip, lookups, s_backoff_reset_pending, s_auth_v1, extras_ready, faults>>

Env == LinkUp \/ LinkError \/ PeerCloses \/ ServerAnswers \/ ExtrasReady \/ \E h \in lookups : DnsAnswer(h)

Next == Poll \/ Env \/ Reload

\* The net task polls; lwIP reports; a server that is there answers.
Fairness ==
    /\ WF_clVars(Poll) /\ WF_clVars(LinkUp \/ LinkError) /\ WF_clVars(ServerAnswers)
    /\ WF_clVars(ExtrasReady) /\ \A h \in Hosts \cup {Proxy} : WF_clVars(DnsAnswer(h))

Spec == Init /\ [][Next]_clVars /\ Fairness
--------------------------------------------------------------------------------
\* The types of the connection's state.
TypeOK ==
    /\ cl_state \in {"disabled", "wait_wifi", "resolve", "chal_open", "backoff"} \cup Waiting \cup Linked
    /\ s_cfg \in Configs \cup {None}
    /\ s_dns \in {"none", "pending", "ok", "fail"}
    /\ s_ip \in Hosts \cup {Proxy, None} /\ lookups \subseteq Hosts \cup {Proxy}
    /\ s_pcb \in Hosts \cup {Proxy, None} /\ pcbs \in 0..2
    /\ s_link \in {"idle", "connecting", "up", "failed"} /\ s_dropped \in BOOLEAN
    /\ s_rx \in {"none", "nonce", "refused", "101", "401"}
    /\ s_backoff_ms \in BackoffStart..BackoffMax /\ s_backoff_reset_pending \in BOOLEAN
    /\ s_auth_v1 \in BOOLEAN /\ extras_ready \in BOOLEAN
    /\ faults \in 0..MaxFaults /\ reloads \in 0..MaxReloads

\* cloud_client.c, cl_sign_nonce: the host a login is signed for "is the one this connection went
\* to": also when the answer to a lookup asked for under earlier settings gave the address.  And
\* no link is lost: lwIP holds one for us exactly while we own one, and only in the states that
\* use it.
LinkIsOurs ==
    /\ cl_state \in {"ws_wait", "connected"} /\ s_pcb # None => Peer = s_cfg.host
    /\ pcbs = (IF s_pcb = None THEN 0 ELSE 1)
    /\ s_pcb # None => cl_state \in Linked

\* cloud_client.c: whatever failed before, with a server that is there the pod is connected in the
\* end and stays so, whichever login the server knows.
Connected == s_cfg = None \/ cl_state = "connected"
Reconnects == <>[]Connected
================================================================================
