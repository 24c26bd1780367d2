--------------------------- MODULE PowerSafeRegister ---------------------------
(***************************************************************************)
(* What config_store.h promises of a record store: a register whose writes  *)
(* take effect at one moment or, when a power loss comes first, not at all. *)
(***************************************************************************)
CONSTANTS Payloads, None, Idle

VARIABLES
    stored,    \* what a load returns: a payload, or None
    pending,   \* what the call in progress writes (None for a clear), or Idle
    result     \* what the last call returned: TRUE for success

vars == <<stored, pending, result>>

Init ==
    /\ stored \in Payloads \cup {None}
    /\ pending = Idle
    /\ result = TRUE

Start(v) ==
    /\ pending = Idle
    /\ pending' = v
    /\ UNCHANGED <<stored, result>>

\* A save of what is stored already returns at once.
SaveStored ==
    /\ pending = Idle /\ stored \in Payloads
    /\ result' = TRUE
    /\ UNCHANGED <<stored, pending>>

\* The commit point of the call in progress.
Commit ==
    /\ pending # Idle
    /\ stored' = pending
    /\ UNCHANGED <<pending, result>>

\* The call returns; success means that its value is what a load returns.
Return(ok) ==
    /\ pending # Idle
    /\ ok => stored' = pending
    /\ stored' \in {stored, pending}
    /\ pending' = Idle
    /\ result' = ok

\* Power is lost during the call: the old value or the new one is there afterwards.
PowerLoss ==
    /\ stored' \in {stored, pending} \ {Idle}
    /\ pending' = Idle
    /\ UNCHANGED result

Next ==
    \/ \E v \in Payloads \cup {None} : Start(v)
    \/ SaveStored
    \/ Commit
    \/ \E ok \in BOOLEAN : Return(ok)
    \/ PowerLoss

Spec == Init /\ [][Next]_vars
================================================================================
