------------------------------- MODULE NetReload -------------------------------
(***************************************************************************)
(* net_reload.c: a settings command asks for a reload of the link its reply *)
(* goes out on.  The worker requests and commits, the net task takes; there *)
(* is no lock, and the net task may preempt the worker between any two of   *)
(* its accesses.  (The worker never runs inside net_reload_take.)           *)
(***************************************************************************)
EXTENDS Naturals

CONSTANTS
    Links,       \* what can be reloaded: NET_RELOAD_CLOUD, NET_RELOAD_WIFI
    MaxWait,     \* NET_RELOAD_MAX_WAIT_MS
    Settle,      \* NET_RELOAD_SETTLE_MS
    MaxRequests  \* bound: requests made

ConstantsOK ==
    MaxWait \in Nat /\ Settle \in Nat /\ Settle < MaxWait /\ MaxRequests \in Nat

VARIABLES
    s_bits, s_req_seq, s_commit_seq, s_taken_seq,
    req_age, commit_age,  \* now - s_req_ms, now - s_commit_ms, as far as they are compared
    wpc,      \* where the worker is
    what,     \* the link it asks to reload
    loaded,   \* the worker's copy of s_bits
    seq,      \* the worker's copy of s_req_seq, in net_reload_commit
    owed,     \* links whose settings changed and that were not reloaded since
    replying  \* links whose command has not queued its reply yet

vars == <<s_bits, s_req_seq, s_commit_seq, s_taken_seq, req_age, commit_age, wpc, what, loaded, seq,
          owed, replying>>

reload == <<s_bits, s_req_seq, s_commit_seq, s_taken_seq, req_age, commit_age>>

Init ==
    /\ s_bits = {} /\ s_req_seq = 0 /\ s_commit_seq = 0 /\ s_taken_seq = 0
    /\ req_age = MaxWait /\ commit_age = Settle
    /\ wpc = "idle" /\ what \in Links /\ loaded = {} /\ seq = 0
    /\ owed = {} /\ replying = {}

\* net_reload_request: the handler has stored the change; the first request since the last
\* take starts the clock.
Request(l) ==
    /\ wpc = "idle" /\ s_req_seq < MaxRequests
    /\ req_age' = IF s_req_seq = s_taken_seq THEN 0 ELSE req_age
    /\ what' = l
    /\ wpc' = "load"
    /\ owed' = owed \cup {l}
    /\ replying' = replying \cup {l}
    /\ UNCHANGED <<s_bits, s_req_seq, s_commit_seq, s_taken_seq, commit_age, loaded, seq>>

\* s_bits |= what is a load and a store.
LoadBits ==
    /\ wpc = "load"
    /\ loaded' = s_bits
    /\ wpc' = "store"
    /\ UNCHANGED <<reload, what, seq, owed, replying>>

\* A variant for mutation checks: the bits already there are dropped.
StoreOnly ==
    /\ wpc = "store"
    /\ s_bits' = {what}
    /\ wpc' = "bump"
    /\ UNCHANGED <<s_req_seq, s_commit_seq, s_taken_seq, req_age, commit_age, what, loaded, seq, owed,
                   replying>>

StoreBits ==
    /\ wpc = "store"
    /\ s_bits' = loaded \cup {what}
    /\ wpc' = "bump"
    /\ UNCHANGED <<s_req_seq, s_commit_seq, s_taken_seq, req_age, commit_age, what, loaded, seq, owed,
                   replying>>

\* A variant: the sequence moves by two.
BumpTwice ==
    /\ wpc = "bump"
    /\ s_req_seq' = s_req_seq + 2
    /\ wpc' = "handling"
    /\ UNCHANGED <<s_bits, s_commit_seq, s_taken_seq, req_age, commit_age, what, loaded, seq, owed,
                   replying>>

BumpSeq ==
    /\ wpc = "bump"
    /\ s_req_seq' = s_req_seq + 1
    /\ wpc' = "handling"
    /\ UNCHANGED <<s_bits, s_commit_seq, s_taken_seq, req_age, commit_age, what, loaded, seq, owed,
                   replying>>

\* net_reload_commit after the item, its reply queued: the early returns, or the tick.
Commit ==
    /\ wpc = "handling"
    /\ replying' = {}
    /\ IF s_req_seq \in {s_taken_seq, s_commit_seq}
       THEN wpc' = "idle" /\ UNCHANGED <<commit_age, seq>>
       ELSE wpc' = "commit" /\ commit_age' = 0 /\ seq' = s_req_seq
    /\ UNCHANGED <<s_bits, s_req_seq, s_commit_seq, s_taken_seq, req_age, what, loaded, owed>>

CommitSeq ==
    /\ wpc = "commit"
    /\ s_commit_seq' = seq
    /\ wpc' = "idle"
    /\ UNCHANGED <<s_bits, s_req_seq, s_taken_seq, req_age, commit_age, what, loaded, seq, owed,
                   replying>>

\* A variant: the commit is not waited for.
DueUncommitted(tx_busy) == req_age >= MaxWait \/ (commit_age >= Settle /\ ~tx_busy)

\* A variant: nothing is taken until the link is idle.
DueWhenIdle(tx_busy) == s_commit_seq = s_req_seq /\ commit_age >= Settle /\ ~tx_busy

\* The test net_reload_take makes of the request, the commit and the link.
Due(tx_busy) ==
    \/ req_age >= MaxWait
    \/ s_commit_seq = s_req_seq /\ commit_age >= Settle /\ ~tx_busy

\* net_reload_take, then net_apply_reload reloads the links.
Take(tx_busy) ==
    /\ s_req_seq # s_taken_seq
    /\ Due(tx_busy)
    /\ owed' = owed \ s_bits
    /\ s_bits' = {}
    /\ s_taken_seq' = s_req_seq
    /\ UNCHANGED <<s_req_seq, s_commit_seq, req_age, commit_age, wpc, what, loaded, seq, replying>>

\* net_apply_reload: the net task's poll, with the state of the cloud link as it finds it.
NetApplyReload == \E tx_busy \in BOOLEAN : Take(tx_busy)

Older(a, max) == IF a < max THEN a + 1 ELSE a

Tick ==
    /\ req_age' = Older(req_age, MaxWait)
    /\ commit_age' = Older(commit_age, Settle)
    /\ UNCHANGED <<s_bits, s_req_seq, s_commit_seq, s_taken_seq, wpc, what, loaded, seq, owed, replying>>

Worker ==
    \/ \E l \in Links : Request(l)
    \/ LoadBits \/ StoreBits \/ BumpSeq \/ Commit \/ CommitSeq

Next == Worker \/ NetApplyReload \/ Tick

\* The net task polls every tick whatever the link does (its take may always find the link
\* busy), time passes, and the worker finishes a command it started.
Fairness ==
    /\ WF_vars(Take(TRUE)) /\ WF_vars(Tick)
    /\ WF_vars(LoadBits) /\ WF_vars(StoreBits) /\ WF_vars(BumpSeq)

Spec == Init /\ [][Next]_vars /\ Fairness

\* The types of the state.
TypeOK ==
    /\ s_bits \subseteq Links /\ owed \subseteq Links /\ replying \subseteq Links
    /\ {s_req_seq, s_commit_seq, s_taken_seq} \subseteq 0 .. MaxRequests
    /\ req_age \in 0 .. MaxWait /\ commit_age \in 0 .. Settle
    /\ wpc \in {"idle", "load", "store", "bump", "handling", "commit"}
    /\ what \in Links /\ loaded \subseteq Links /\ seq \in 0 .. MaxRequests

\* "never a lost one" (net_reload.c): between commands, every link that still has to be
\* reloaded is latched and pending.
NeverLost ==
    wpc \in {"idle", "handling", "commit"} /\ owed # {} => owed \subseteq s_bits /\ s_req_seq # s_taken_seq

\* A change of settings takes effect, even on a link that never drains.
ReloadHappens == \A l \in Links : []<>(l \notin owed)

\* net_reload.h: a link is taken once the command that asked has queued its reply, or
\* NET_RELOAD_MAX_WAIT_MS after the first request not taken yet.  (A request is made when
\* net_reload_request has bumped the sequence: a take that is due for an earlier command
\* may come in between and takes the link, its bit stored or not.)
ReplyFirst ==
    [][\A l \in s_bits \ s_bits' :
          l \in replying => req_age >= MaxWait \/ wpc \in {"load", "store", "bump"}]_vars
================================================================================
