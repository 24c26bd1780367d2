--------------------------------- MODULE LanTls ---------------------------------
(***************************************************************************)
(* The certificate of the LAN's TLS server (lan_tls.c) and the objects that *)
(* hold its configuration (net_server.c): the :8443 listener and the open   *)
(* sessions.  All of it runs on the net task, in the order of net_poll:     *)
(* network input, the listener's sync, the collection of unused             *)
(* configurations, a worker's install or regenerate job.  The worker reads  *)
(* the certificate's description, and is preempted while it does.           *)
(***************************************************************************)
EXTENDS Naturals, FiniteSets

CONSTANTS
    RetiredMax,   \* RETIRED_MAX
    MaxSess,      \* LAN_TLS_MAX_SESSIONS
    MaxChanges,   \* certificates installed or generated after the first
    MaxTries      \* rounds of lan_tls_get_info

ConstantsOK == {RetiredMax, MaxSess, MaxChanges, MaxTries} \subseteq Nat \ {0}

VARIABLES
    s_cur, s_retired,        \* the configurations, with their references
    s_gen,                   \* and how many there have been
    s_tls_listen_cfg, s_tls_listen_gen,
    s_conn_tls,              \* the configuration each session holds
    dying,                   \* those of sessions lwIP is about to free
    live,                    \* configurations allocated
    lost,                    \* and those no slot knows any more
    stored,                  \* the certificate in flash, 0: none usable
    phase,                   \* of net_poll
    s_info, s_info_seq,
    r                        \* the worker reading s_info

cfgVars == <<s_cur, s_retired, s_gen, live, lost, stored>>
useVars == <<s_tls_listen_cfg, s_tls_listen_gen, s_conn_tls, dying>>
infoVars == <<s_info, s_info_seq, r>>
ltVars == <<cfgVars, useVars, phase, infoVars>>

Sessions == 1..MaxSess
Slots == 1..RetiredMax
Free == [cfg |-> 0, refs |-> 0]

\* lan_tls_init and server_start: a stored certificate, or one generated on the spot; a pod that
\* cannot even do that starts without TLS.
Init ==
    /\ \/ s_cur = [cfg |-> 1, refs |-> 1] /\ s_gen = 1 /\ live = {1} /\ stored = 1
          /\ s_info = 1 /\ s_tls_listen_cfg = 1
       \/ s_cur = Free /\ s_gen = 0 /\ live = {} /\ stored = 0
          /\ s_info = 0 /\ s_tls_listen_cfg = 0
    /\ s_tls_listen_gen = s_gen
    /\ s_retired = [i \in Slots |-> Free] /\ lost = {}
    /\ s_conn_tls = [s \in Sessions |-> 0] /\ dying = {}
    /\ phase = "input" /\ s_info_seq = 0
    /\ r = [pc |-> "idle", seq |-> 0, a |-> 0, b |-> 0, tries |-> 0]
--------------------------------------------------------------------------------
\* lan_tls_ref and lan_tls_unref, by the number of references to add.
CurRefs(up, down) ==
    [s_cur EXCEPT !.refs = LET n == @ + (IF up = s_cur.cfg /\ up # 0 THEN 1 ELSE 0)
                           IN  IF down = s_cur.cfg /\ down # 0 /\ n > 0 THEN n - 1 ELSE n]
RetiredRefs(up, down) ==
    [i \in Slots |->
        [s_retired[i] EXCEPT !.refs =
            LET n == @ + (IF up = s_retired[i].cfg /\ up # 0 THEN 1 ELSE 0)
            IN  IF down = s_retired[i].cfg /\ down # 0 /\ n > 0 THEN n - 1 ELSE n]]

\* altcp_mbedtls_lower_accept and srv_accept: the session holds the listener's configuration.
AcceptTls(s) ==
    /\ phase = "input" /\ s_tls_listen_cfg # 0 /\ s_conn_tls[s] = 0
    /\ s_conn_tls' = [s_conn_tls EXCEPT ![s] = s_tls_listen_cfg]
    /\ s_cur' = CurRefs(s_tls_listen_cfg, 0) /\ s_retired' = RetiredRefs(s_tls_listen_cfg, 0)
    /\ UNCHANGED <<s_gen, live, lost, stored, s_tls_listen_cfg, s_tls_listen_gen, dying, phase, infoVars>>

\* As if an unused configuration were freed as soon as its last session is detached.
DetachCollects(s) ==
    /\ phase = "input" /\ s_conn_tls[s] # 0
    /\ dying' = dying \cup {s_conn_tls[s]} /\ s_conn_tls' = [s_conn_tls EXCEPT ![s] = 0]
    /\ s_cur' = CurRefs(0, s_conn_tls[s])
    /\ LET ret == RetiredRefs(0, s_conn_tls[s])
       IN  /\ s_retired' = [i \in Slots |-> IF ret[i].refs = 0 THEN Free ELSE ret[i]]
           /\ live' = live \ {ret[i].cfg : i \in {j \in Slots : ret[j].refs = 0}}
    /\ UNCHANGED <<s_gen, lost, stored, s_tls_listen_cfg, s_tls_listen_gen, phase, infoVars>>

\* conn_detach, from srv_err or a close: the reference goes, while lwIP's TLS state still points
\* at the configuration.
Detach(s) ==
    /\ phase = "input" /\ s_conn_tls[s] # 0
    /\ dying' = dying \cup {s_conn_tls[s]} /\ s_conn_tls' = [s_conn_tls EXCEPT ![s] = 0]
    /\ s_cur' = CurRefs(0, s_conn_tls[s]) /\ s_retired' = RetiredRefs(0, s_conn_tls[s])
    /\ UNCHANGED <<s_gen, live, lost, stored, s_tls_listen_cfg, s_tls_listen_gen, phase, infoVars>>

\* lwIP is done: the states of detached sessions are freed.
EndInput ==
    /\ phase = "input" /\ phase' = "sync" /\ dying' = {}
    /\ UNCHANGED <<cfgVars, s_tls_listen_cfg, s_tls_listen_gen, s_conn_tls, infoVars>>

\* As if the listener kept its hold on the certificate it had.
SyncKeepsRef ==
    /\ phase = "sync" /\ phase' = "collect"
    /\ s_tls_listen_gen' = s_gen
    /\ IF s_tls_listen_gen # s_gen /\ s_tls_listen_cfg # s_cur.cfg
       THEN /\ s_tls_listen_cfg' = s_cur.cfg
            /\ s_cur' = CurRefs(s_cur.cfg, 0) /\ s_retired' = RetiredRefs(0, 0)
       ELSE UNCHANGED <<s_tls_listen_cfg, s_cur, s_retired>>
    /\ UNCHANGED <<s_gen, live, lost, stored, s_conn_tls, dying, infoVars>>

\* tls_listener_sync: the listener takes the current configuration; its first start may fail.
Sync ==
    /\ phase = "sync" /\ phase' = "collect"
    /\ s_tls_listen_gen' = s_gen
    /\ IF s_tls_listen_gen # s_gen /\ s_tls_listen_cfg # s_cur.cfg
       THEN \/ /\ s_tls_listen_cfg' = s_cur.cfg
               /\ s_cur' = CurRefs(s_cur.cfg, s_tls_listen_cfg)
               /\ s_retired' = RetiredRefs(s_cur.cfg, s_tls_listen_cfg)
            \/ s_tls_listen_cfg = 0 /\ UNCHANGED <<s_tls_listen_cfg, s_cur, s_retired>>
       ELSE UNCHANGED <<s_tls_listen_cfg, s_cur, s_retired>>
    /\ UNCHANGED <<s_gen, live, lost, stored, s_conn_tls, dying, infoVars>>

\* lan_tls_collect.
Collect ==
    /\ phase = "collect" /\ phase' = "call"
    /\ LET idle == {i \in Slots : s_retired[i].cfg # 0 /\ s_retired[i].refs = 0}
       IN  /\ live' = live \ {s_retired[i].cfg : i \in idle}
           /\ s_retired' = [i \in Slots |-> IF i \in idle THEN Free ELSE s_retired[i]]
    /\ UNCHANGED <<s_cur, s_gen, lost, stored, useVars, infoVars>>

\* cfg_swap: the old configuration retires; with no slot free the first one's is leaked.
Swap(cfg) ==
    /\ s_cur' = [cfg |-> cfg, refs |-> 0] /\ s_gen' = cfg /\ live' = live \cup {cfg}
    /\ IF s_cur.cfg = 0 THEN UNCHANGED <<s_retired, lost>>
       ELSE LET free == {i \in Slots : s_retired[i].cfg = 0}
                i == IF free = {} THEN 1 ELSE CHOOSE j \in free : \A k \in free : j <= k
            IN  /\ s_retired' = [s_retired EXCEPT ![i] = s_cur]
                /\ lost' = IF free = {} THEN lost \cup {s_retired[1].cfg} ELSE lost

\* install_job, regen_job (net_run_pending_call): a certificate that does not check, or cannot be
\* made or stored, changes nothing; one that is stored is used at once (apply_record, info_publish),
\* or at the next boot when there is no memory for it.
Job ==
    /\ phase = "call" /\ phase' = "input"
    /\ \/ UNCHANGED <<cfgVars, infoVars>>
       \/ /\ s_gen <= MaxChanges /\ stored' = s_gen + 1
          /\ UNCHANGED <<s_cur, s_retired, s_gen, live, lost, infoVars>>
       \/ /\ s_gen <= MaxChanges /\ stored' = s_gen + 1
          /\ Swap(s_gen + 1)
          /\ s_info' = s_gen + 1 /\ s_info_seq' = s_info_seq + 2 /\ UNCHANGED r
    /\ UNCHANGED useVars
--------------------------------------------------------------------------------
\* As if the description were taken without another look at its counter.
ReadTorn ==
    /\ \/ r.pc = "idle" /\ r' = [r EXCEPT !.pc = "first", !.seq = s_info_seq, !.tries = @ + 1] /\ r.tries < MaxTries
       \/ r.pc = "first" /\ r' = [r EXCEPT !.pc = "second", !.a = s_info]
       \/ r.pc = "second" /\ r' = [r EXCEPT !.pc = "done", !.b = s_info]
       \/ r.pc = "done" /\ r' = [r EXCEPT !.pc = "idle", !.tries = 0]
    /\ UNCHANGED <<cfgVars, useVars, phase, s_info, s_info_seq>>

\* lan_tls_get_info, on the worker: its counter, the two ends of the copy, the counter again; it
\* gives up after some rounds.
Read ==
    /\ \/ r.pc = "idle" /\ r' = [r EXCEPT !.pc = "first", !.seq = s_info_seq, !.tries = @ + 1]
       \/ r.pc = "first" /\ r' = [r EXCEPT !.pc = "second", !.a = s_info]
       \/ r.pc = "second" /\ r' = [r EXCEPT !.pc = "check", !.b = s_info]
       \/ /\ r.pc = "check"
          /\ r' = IF r.seq = s_info_seq THEN [r EXCEPT !.pc = "done"]
                  ELSE IF r.tries < MaxTries THEN [r EXCEPT !.pc = "idle"]
                  ELSE [r EXCEPT !.pc = "done", !.a = 0, !.b = 0]      \* "busy"
       \/ r.pc = "done" /\ r' = [pc |-> "idle", seq |-> 0, a |-> 0, b |-> 0, tries |-> 0]
    /\ UNCHANGED <<cfgVars, useVars, phase, s_info, s_info_seq>>

Next ==
    \/ \E s \in Sessions : AcceptTls(s) \/ Detach(s)
    \/ EndInput \/ Sync \/ Collect \/ Job \/ Read

Spec == Init /\ [][Next]_ltVars
--------------------------------------------------------------------------------
\* The types of the certificate's state.
TypeOK ==
    /\ s_cur.cfg \in 0..MaxChanges + 1 /\ s_cur.refs \in 0..MaxSess + 1
    /\ \A i \in Slots : s_retired[i].cfg \in 0..MaxChanges + 1 /\ s_retired[i].refs \in 0..MaxSess + 1
    /\ live \subseteq 1..MaxChanges + 1 /\ lost \subseteq live
    /\ phase \in {"input", "sync", "collect", "call"} /\ r.tries \in 0..MaxTries

Users == {s_tls_listen_cfg, s_cur.cfg} \cup {s_conn_tls[s] : s \in Sessions} \cup dying

\* lan_tls.c: a configuration is freed only when nobody can reach it: not the listener, not a
\* session that began with it however long it lasts, not one lwIP is still taking down.
NotFreedInUse == Users \ {0} \subseteq live

\* lan_tls.c: and it is freed when nobody does, the ones given up for want of a slot excepted.
Reclaimed == phase = "call" => live \subseteq (Users \cup lost)

\* lan_tls.c: the worker never sees the description of one certificate mixed with another's.
InfoWhole == r.pc = "done" => r.a = r.b
================================================================================
