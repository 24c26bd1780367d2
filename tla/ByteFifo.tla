------------------------------- MODULE ByteFifo --------------------------------
(***************************************************************************)
(* What conn_tx.h promises of a connection's ring: a bounded queue of bytes *)
(* that takes a whole write or none of it.                                  *)
(***************************************************************************)
EXTENDS Naturals, Sequences

CONSTANTS Data, Cap

VARIABLES
    q,    \* the bytes queued
    msg,  \* the bytes of the write under way
    got   \* the bytes the consumer took last

vars == <<q, msg, got>>

Init == q = <<>> /\ msg = <<>> /\ got = <<>>

\* A write is admitted only if all of it fits.
Offer(s) ==
    /\ msg = <<>> /\ Len(q) + Len(s) <= Cap
    /\ msg' = s
    /\ UNCHANGED <<q, got>>

\* Its bytes appear at the end of the queue, all at once.
Accept == q' = q \o msg /\ msg' = <<>> /\ UNCHANGED got

Take(n) ==
    /\ n <= Len(q)
    /\ got' = SubSeq(q, 1, n)
    /\ q' = SubSeq(q, n + 1, Len(q))
    /\ UNCHANGED msg

Reset == q' = <<>> /\ UNCHANGED <<msg, got>>

Next ==
    \/ \E n \in 1 .. Cap : \E s \in [1 .. n -> Data] : Offer(s)
    \/ \E n \in 0 .. Cap : Take(n)
    \/ Accept
    \/ Reset

Spec == Init /\ [][Next]_vars
================================================================================
