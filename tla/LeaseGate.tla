------------------------------- MODULE LeaseGate --------------------------------
(***************************************************************************)
(* The cloud job's lease (lease_gate.c): its writer is the net task, which  *)
(* takes the server's frames and expires it; the worker only reads it.      *)
(***************************************************************************)
EXTENDS Integers

CONSTANTS
    W,           \* the ticks wrap at W (2^32 in the code)
    LeaseMax,    \* LEASE_GATE_MAX_S
    MaxLag       \* ticks between two runs of the net task, at most

ConstantsOK ==
    /\ {W, LeaseMax, MaxLag} \subseteq Nat \ {0}
    /\ W % 2 = 0 /\ LeaseMax < W \div 2 /\ MaxLag < W \div 2

VARIABLES
    now, lag,                        \* HAL_GetTick, ticks since the net task last ran
    s_held, s_deadline_ms,           \* the lease
    term                             \* ghost: the ticks the lease still has

leVars == <<now, lag, s_held, s_deadline_ms, term>>

Init ==
    /\ now \in 0..W - 1 /\ lag = 0
    /\ s_held = FALSE /\ s_deadline_ms = 0 /\ term = 0

\* Signed distance of two ticks, wrap-safe.
Left == LET d == (s_deadline_ms - now) % W IN IF d >= W \div 2 THEN d - W ELSE d

\* lease_gate_active.
LeaseActive == s_held /\ Left > 0

\* lease_gate_clear.
LeaseClear == s_held' = FALSE /\ term' = 0 /\ UNCHANGED s_deadline_ms

\* As if the term the server gives were not capped.
UncappedTerm(s) == s

\* lease_gate_update never trusts a longer lease than the server's maximum.
CappedTerm(s) == IF s > LeaseMax THEN LeaseMax ELSE s

\* cl_handle_lease_state over lease_gate_update; s may be any number the server wrote.
LeaseFrame ==
    /\ \E held \in BOOLEAN, s \in {0, 1, LeaseMax, W \div 2 + 1} :
         IF ~held \/ s = 0 THEN LeaseClear
         ELSE /\ s_held' = TRUE /\ s_deadline_ms' = (now + CappedTerm(s)) % W
              /\ term' = CappedTerm(s)
    /\ UNCHANGED <<now, lag>>

\* cl_drop_link: without the link, the server's lease says nothing any more.
LinkDown == s_held /\ LeaseClear /\ UNCHANGED <<now, lag>>

Tick ==
    /\ lag < MaxLag
    /\ now' = (now + 1) % W /\ lag' = lag + 1
    /\ term' = IF term > 0 THEN term - 1 ELSE 0
    /\ UNCHANGED <<s_held, s_deadline_ms>>

\* As if an expired lease were left for its reader to see.
KeepExpired == lag' = 0 /\ UNCHANGED <<now, s_held, s_deadline_ms, term>>

\* lease_gate_expire, by the task that owns the lease, at every run of it.
Expire ==
    /\ IF s_held /\ Left <= 0 THEN LeaseClear ELSE UNCHANGED <<s_held, s_deadline_ms, term>>
    /\ lag' = 0 /\ UNCHANGED now

Next == LeaseFrame \/ LinkDown \/ Tick \/ Expire

Spec == Init /\ [][Next]_leVars
--------------------------------------------------------------------------------
\* The types of the lease.
TypeOK ==
    /\ now \in 0..W - 1 /\ s_deadline_ms \in 0..W - 1 /\ lag \in 0..MaxLag
    /\ s_held \in BOOLEAN /\ term \in 0..W

\* lease_gate.c: the lease holds for exactly the time it was given, whenever the tick wraps: a LAN
\* client is shut out while a cloud job has the pod, and no longer.
LeaseTrue == LeaseActive <=> term > 0
================================================================================
