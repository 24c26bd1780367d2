------------------------------- MODULE CloudStack -------------------------------
(***************************************************************************)
(* The layers of the cloud link and who frees them: cloud_client.c over TLS  *)
(* (altcp_tls_mbedtls_bp.c) over the HTTP CONNECT layer (altcp_bp_proxy.c)   *)
(* over lwIP's altcp_tcp, with the TLS configuration built from the built-in *)
(* roots and the company CA (cloud_extras.c). Everything here runs on the    *)
(* net task, one event whole, except the worker's changes of CA and proxy.   *)
(* A layer is allocated, points at the one below (inner_conn) and has its    *)
(* callbacks set on it.                                                      *)
(***************************************************************************)
EXTENDS Naturals, FiniteSets

CONSTANTS MaxOpens, MaxChanges, MaxOom,
          CloseFails        \* where altcp_close may fail for lack of memory: "poll", "recv"

ConstantsOK == {MaxOpens, MaxChanges, MaxOom} \subseteq Nat /\ CloseFails \subseteq {"poll", "recv"}

VARIABLES
    k,              \* the stack: the layers allocated, their inner_conn, the layers whose callbacks are set, s_pcb,
                    \* the callbacks the application was given, and what was done to a freed layer
    link,           \* "none", "tcp", "tunnel", "mute" (the CONNECT request was not sent), "tls", "up"
    s_tls_conf,     \* "none", "roots", "ca"
    rngRef,         \* altcp_tls_entropy_rng->ref
    lanConf,        \* the LAN server's configurations
    caFlash,        \* BLOB_CA: "none", "good", "bad"
    s_ca, s_ca_error, proxySet,
    s_ready,        \* cloud_extras_load is done
    reloadDue, opens, changes, oom

csVars == <<k, link, s_tls_conf, rngRef, lanConf, caFlash, s_ca, s_ca_error, proxySet, s_ready,
            reloadDue, opens, changes,
            oom>>
csCa == <<caFlash, s_ca, s_ca_error, proxySet, s_ready>>
csConf == <<s_tls_conf, rngRef, lanConf>>
csBounds == <<opens, changes, oom>>

Layers == {"tcp", "proxy", "tls"}
NoStack == [live |-> {}, inner |-> {}, cbs |-> {}, app |-> FALSE, proxied |-> FALSE, over |-> FALSE, wrong |-> {}]

TypeOK ==
    /\ {k.live, k.inner, k.cbs} \subseteq SUBSET Layers /\ {k.app, k.proxied, k.over} \subseteq BOOLEAN
    /\ k.wrong \subseteq {"double", "dangling", "touched"}
    /\ link \in {"none", "tcp", "tunnel", "mute", "tls", "up"} /\ s_tls_conf \in {"none", "roots", "ca"}
    /\ rngRef \in 0 .. 4 /\ lanConf \in 0 .. 2 /\ {caFlash, s_ca} \subseteq {"none", "good", "bad"}
    /\ {s_ca_error, proxySet, s_ready, reloadDue} \subseteq BOOLEAN
    /\ opens \in 0 .. MaxOpens /\ changes \in 0 .. MaxChanges /\ oom \in 0 .. MaxOom

Init ==
    /\ k = NoStack /\ link = "none" /\ s_tls_conf = "none" /\ rngRef = 0 /\ lanConf = 0
    /\ caFlash \in {"none", "good"} /\ s_ca = "none" /\ s_ca_error = FALSE /\ proxySet \in BOOLEAN /\ s_ready = FALSE
    /\ reloadDue = FALSE /\ opens = 0 /\ changes = 0 /\ oom = 0
--------------------------------------------------------------------------------
(* The layers. s.over says that TLS is on top of s.proxied or of plain TCP.  *)

Top(s) == IF s.over THEN "tls" ELSE IF s.proxied THEN "proxy" ELSE "tcp"
UnderTls(s) == IF s.proxied THEN "proxy" ELSE "tcp"

\* altcp_free, with the layer's dealloc (its state and, of TLS, the received bytes).
Freed(s, l) == IF l \in s.live THEN [s EXCEPT !.live = @ \ {l}] ELSE [s EXCEPT !.wrong = @ \cup {"double"}]

Touched(s, l) == IF l \in s.live THEN s ELSE [s EXCEPT !.wrong = @ \cup {"dangling"}]

Unset(s, l) == [s EXCEPT !.cbs = @ \ {l}]
Cut(s, l) == [s EXCEPT !.inner = @ \ {l}]

\* cl_err_cb: the pcb is gone, it is not closed again.
AppErr(s) == [s EXCEPT !.app = FALSE]

\* altcp_mbedtls_lower_err.
TlsErr(s) ==
    LET a == Cut(Touched(s, "tls"), "tls") IN Freed(IF "tls" \in s.cbs THEN AppErr(a) ELSE a, "tls")

\* The layer above the proxy is told, if its callbacks are set.
AboveProxyErr(s) == IF "proxy" \notin s.cbs THEN s ELSE IF s.over THEN TlsErr(s) ELSE AppErr(s)

\* altcp_bp_proxy_lower_err.
ProxyErr(s) == Freed(AboveProxyErr(Cut(Touched(s, "proxy"), "proxy")), "proxy")

\* lwIP's altcp_tcp_err, from tcp_abort, a reset or a timeout: the layer above, then itself.
TcpErr(s) ==
    Freed(IF "tcp" \notin s.cbs THEN s
          ELSE IF s.proxied THEN ProxyErr(s) ELSE IF s.over THEN TlsErr(s) ELSE AppErr(s), "tcp")

\* altcp_bp_proxy_close: the TCP layer, then itself.
ProxyClose(s) == Freed(Freed(Cut(s, "proxy"), "tcp"), "proxy")

\* As lwIP's altcp_proxyconnect: only the layers from here down.
FailSelf(s) == ProxyClose(s)

\* altcp_bp_proxy_fail_setup: detached, TCP aborted, the layer above told, then itself.
FailSetup(s) ==
    LET aborted == Cut(TcpErr(Unset(s, "tcp")), "proxy") IN Freed(AboveProxyErr(aborted), "proxy")

\* As lwIP's altcp_proxyconnect_abort: TCP aborted, which frees this layer, and then this layer.
ProxyAbortTwice(s) == Freed(TcpErr(s), "proxy")

\* altcp_bp_proxy_abort.
ProxyAbort(s) == IF "proxy" \in s.inner THEN FailSetup(s) ELSE Freed(s, "proxy")

BaseAbort(s) == IF s.proxied THEN ProxyAbort(s) ELSE TcpErr(s)

\* altcp_abort of the pcb the application holds; TLS hands it down (altcp_mbedtls_abort).
TopAbort(s) == BaseAbort(Touched(s, Top(s)))

\* altcp_mbedtls_close: its callbacks come off the layer below, which is closed first.
TlsClose(s) ==
    LET off == Cut(Unset(Touched(s, "tls"), UnderTls(s)), "tls") IN
    Freed(IF s.proxied THEN ProxyClose(off) ELSE Freed(off, "tcp"), "tls")

TopClose(s) == IF s.over THEN TlsClose(s) ELSE IF s.proxied THEN ProxyClose(s) ELSE Freed(s, "tcp")
--------------------------------------------------------------------------------
(* The company CA and the proxy, by the worker. *)

Change == changes < MaxChanges /\ changes' = changes + 1
Oom == oom < MaxOom /\ oom' = oom + 1

\* load_ca_locked over read_slot and ca_parse_state: a slot that does not read or no memory is no CA; one that does
\* not parse is dropped with a reason, and kept when memory ran out in the parser.
LoadCa(flash) ==
    \/ /\ UNCHANGED oom /\ s_ca' = (IF flash = "good" THEN "good" ELSE "none") /\ s_ca_error' = (flash = "bad")
    \/ /\ Oom /\ flash # "none" /\ s_ca' = "none" /\ s_ca_error' = FALSE
    \/ /\ Oom /\ flash # "none" /\ s_ca' = flash /\ s_ca_error' = FALSE

\* cloud_extras_load at boot; without the flash there is no CA.
ExtrasLoad ==
    /\ ~s_ready /\ s_ready' = TRUE /\ LoadCa(caFlash)
    /\ UNCHANGED <<k, link, csConf, caFlash, proxySet, reloadDue, opens, changes>>

\* A CA installed by an update (cloud_extras_ca_changed; checked before, damaged in the slot later) or cleared.
CaChanged ==
    /\ s_ready /\ Change /\ \E f \in {"none", "good", "bad"} : caFlash' = f /\ LoadCa(f)
    /\ reloadDue' = TRUE /\ UNCHANGED <<k, link, csConf, proxySet, s_ready, opens>>

\* cloud_extras_proxy_set.
ProxyChanged ==
    /\ s_ready /\ Change /\ proxySet' = ~proxySet /\ reloadDue' = TRUE
    /\ UNCHANGED <<k, link, csConf, caFlash, s_ca, s_ca_error, s_ready, opens, oom>>
--------------------------------------------------------------------------------
(* The TLS configurations and the random generator they share. *)

\* As if a configuration that fails after it took the generator kept its count.
UnrefNothing(n) == n

\* altcp_mbedtls_unref_entropy, from altcp_tls_free_config and the failing paths of a create.
Unref(n) == IF n > 0 THEN n - 1 ELSE 0

\* altcp_tls_create_config and the client's CA: no memory before the generator is taken, or after it.
CreateFails == Oom /\ (UNCHANGED rngRef \/ rngRef' = Unref(rngRef + 1))

\* The LAN server's configuration: created with its key and certificate, or freed.
LanCreates ==
    /\ \/ lanConf < 2 /\ lanConf' = lanConf + 1 /\ rngRef' = rngRef + 1 /\ UNCHANGED oom
       \/ CreateFails /\ UNCHANGED lanConf
    /\ UNCHANGED <<k, link, s_tls_conf, csCa, reloadDue, opens, changes>>

LanFrees ==
    /\ lanConf > 0 /\ lanConf' = lanConf - 1 /\ rngRef' = Unref(rngRef)
    /\ UNCHANGED <<k, link, s_tls_conf, csCa, reloadDue, csBounds>>
--------------------------------------------------------------------------------
(* The link, by the net task. *)

\* altcp_bp_proxy_new_tcp or altcp_tcp_new_ip_type.
Base ==
    [NoStack EXCEPT !.proxied = proxySet, !.live = IF proxySet THEN {"tcp", "proxy"} ELSE {"tcp"},
                    !.inner = IF proxySet THEN {"proxy"} ELSE {},
                    !.cbs = IF proxySet THEN {"tcp"} ELSE {}, !.wrong = k.wrong]

\* altcp_tls_wrap, and the application's callbacks.
Wrapped(b) ==
    [b EXCEPT !.over = TRUE, !.live = @ \cup {"tls"}, !.inner = @ \cup {"tls"},
     !.cbs = @ \cup {UnderTls(b), "tls"}, !.app = TRUE]

\* altcp_tls_create_config_client with what cloud_extras_ca_pem gives.
ConfOf == IF s_ca = "good" THEN "ca" ELSE "roots"

\* cl_open: the layers from below; the configuration is made once; each failure aborts the base.
Open ==
    /\ s_ready /\ link = "none" /\ ~k.app /\ k.live = {} /\ opens < MaxOpens /\ opens' = opens + 1
    /\ \/ \* a link, with the configuration it has or a new one
          /\ s_tls_conf # "none" \/ s_ca # "bad"
          /\ k' = Wrapped(Base) /\ link' = "tcp" /\ UNCHANGED <<s_ca, s_ca_error, oom>>
          /\ IF s_tls_conf = "none" THEN s_tls_conf' = ConfOf /\ rngRef' = rngRef + 1
             ELSE UNCHANGED <<s_tls_conf, rngRef>>
       \/ \* a company CA that does not parse after all (cloud_extras_ca_tls_refused)
          /\ s_tls_conf = "none" /\ s_ca = "bad" /\ s_ca' = "none" /\ s_ca_error' = TRUE
          /\ rngRef' = Unref(rngRef + 1) /\ k' = BaseAbort(Base) /\ UNCHANGED <<link, s_tls_conf, oom>>
       \/ \* no memory for the CA or the configuration
          /\ s_tls_conf = "none" /\ CreateFails /\ k' = BaseAbort(Base)
          /\ UNCHANGED <<link, s_tls_conf, s_ca, s_ca_error>>
       \/ \* no memory for the TLS layer
          /\ s_tls_conf # "none" /\ Oom /\ k' = BaseAbort(Base)
          /\ UNCHANGED <<link, s_tls_conf, rngRef, s_ca, s_ca_error>>
    /\ UNCHANGED <<lanConf, caFlash, proxySet, s_ready, reloadDue, changes>>

\* altcp_bp_proxy_send_request: without memory the request is not sent, and lwIP drops the error.
SendRequest == \/ UNCHANGED oom /\ link' = "tunnel"
               \/ Oom /\ link' = "mute"

\* altcp_bp_proxy_lower_connected asks for the tunnel; without a proxy TLS begins.
Connected ==
    /\ link = "tcp" /\ (IF k.proxied THEN SendRequest ELSE link' = "tls" /\ UNCHANGED oom)
    /\ UNCHANGED <<k, csConf, csCa, reloadDue, opens, changes>>

\* altcp_bp_proxy_lower_recv, the end of the reply's headers: 200, and TLS begins.
ProxySays200 ==
    /\ link = "tunnel" /\ link' = "tls" /\ k' = Touched(k, "tls")
    /\ UNCHANGED <<csConf, csCa, reloadDue, csBounds>>

\* Another status, or a FIN before the reply: the whole stack fails, and lwIP is told by ERR_ABRT.
ProxyRefuses ==
    /\ link \in {"tunnel", "mute"} /\ link' = "none" /\ k' = FailSetup(k)
    /\ UNCHANGED <<csConf, csCa, reloadDue, csBounds>>

\* mbedtls_ssl_handshake is done: cl_connected_cb.
HandshakeDone ==
    /\ link = "tls" /\ link' = "up"
    /\ UNCHANGED <<k, csConf, csCa, reloadDue, csBounds>>

\* The handshake fails, or a FIN comes in it: the application is told, then TLS closes itself inside the callback.
\* A close that fails is aborted after a failed handshake, and lwIP still goes on with the pcb; after a FIN it is left.
HandshakeFails ==
    /\ link = "tls" /\ link' = "none"
    /\ LET told == IF "tls" \in k.cbs THEN AppErr(k) ELSE k IN
       \/ k' = TlsClose(told)
       \/ "recv" \in CloseFails /\ k' = [TopAbort(told) EXCEPT !.wrong = @ \cup {"touched"}]
       \/ "recv" \in CloseFails /\ k' = told
    /\ UNCHANGED <<csConf, csCa, reloadDue, csBounds>>

\* A reset, a timeout or an abort from below at any time, also of a stack the application has let go.
TcpFails ==
    /\ "tcp" \in k.live /\ k' = TcpErr(k) /\ link' = "none"
    /\ UNCHANGED <<csConf, csCa, reloadDue, csBounds>>

\* cl_drop_link's pcb: the callbacks are cleared, then a close, or an abort where that fails.
Dropped(s) ==
    LET off == Unset(s, Top(s)) IN
    {[TopClose(off) EXCEPT !.app = FALSE]} \cup
    (IF "poll" \in CloseFails THEN {[TopAbort(off) EXCEPT !.app = FALSE]} ELSE {})

\* The peer's FIN, a timeout or a failed login: the poll drops the link.
DropLink ==
    /\ k.app /\ k' \in Dropped(k) /\ link' = "none"
    /\ UNCHANGED <<csConf, csCa, reloadDue, csBounds>>

\* As if the configuration were freed before the link that uses it.
ReloadConfOnly == s_tls_conf' = "none" /\ UNCHANGED <<k, link>>

\* cloud_client_reload: the link first, then the configuration it used.
ReloadLink == s_tls_conf' = "none" /\ link' = "none" /\ (IF k.app THEN k' \in Dropped(k) ELSE UNCHANGED k)

Reload ==
    /\ reloadDue /\ reloadDue' = FALSE /\ ReloadLink
    /\ rngRef' = (IF s_tls_conf = "none" THEN rngRef ELSE Unref(rngRef))
    /\ UNCHANGED <<lanConf, csCa, csBounds>>

Next == \/ ExtrasLoad \/ CaChanged \/ ProxyChanged \/ LanCreates \/ LanFrees
        \/ Open \/ Connected \/ ProxySays200 \/ ProxyRefuses
        \/ HandshakeDone \/ HandshakeFails \/ TcpFails \/ DropLink \/ Reload
Spec == Init /\ [][Next]_csVars
--------------------------------------------------------------------------------
(* Properties. *)

\* Every layer is freed exactly once, whoever ends the link and in whatever phase: none is freed or used again, no
\* layer is left pointing at a freed one, the application's pcb is alive while it holds it, and nothing is left
\* allocated once it has let go (altcp_bp_proxy_fail_setup, altcp_bp_proxy_abort, altcp_mbedtls_close, cl_err_cb).
FreedOnce ==
    /\ k.wrong = {}
    /\ "tls" \in k.live /\ "tls" \in k.inner => UnderTls(k) \in k.live
    /\ "proxy" \in k.live /\ "proxy" \in k.inner => "tcp" \in k.live
    /\ k.app <=> k.live # {}

\* A TLS session never outlives its configuration (cloud_client_reload drops the link first), and the shared random
\* generator counts the configurations that use it, through every failed creation.
ConfOutlives ==
    /\ "tls" \in k.live => s_tls_conf # "none"
    /\ rngRef = lanConf + IF s_tls_conf = "none" THEN 0 ELSE 1

================================================================================
