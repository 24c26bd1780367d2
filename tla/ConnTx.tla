-------------------------------- MODULE ConnTx ---------------------------------
(***************************************************************************)
(* conn_tx.c: one connection's reply ring.  The worker writes, the net task *)
(* peeks, advances and resets; the indices are free-running counters of     *)
(* limited width.  No task priority is assumed: every step of one task may  *)
(* come between two steps of the other.                                     *)
(***************************************************************************)
EXTENDS Integers, Sequences

CONSTANTS
    Size,      \* CONN_TX_RING_SIZE
    IndexMod,  \* 2^16: the indices count modulo it
    Data       \* byte values

ConstantsOK ==
    Size \in Nat /\ Size > 1 /\ IndexMod \in Nat /\ IndexMod % Size = 0 /\ IndexMod >= 2 * Size

VARIABLES
    head, tail, buf,
    msg,   \* the bytes the worker is writing, <<>> outside conn_tx_write
    at,    \* bytes of msg copied
    seen,  \* what the net task peeked: a run of the buffer, [pos |-> 0, len |-> 0] if none
    got    \* the bytes it handed to lwIP or the tunnel last

vars == <<head, tail, buf, msg, at, seen, got>>

Mask == Size - 1
Sub(a, b) == (a + IndexMod - b) % IndexMod   \* (uint16_t)(a - b)
Used == Sub(head, tail)                      \* conn_tx_used
Free == Mask - Used                          \* conn_tx_free
Nothing == [pos |-> 0, len |-> 0]

Init ==
    /\ head \in 0 .. IndexMod - 1 /\ tail = head
    /\ buf \in [0 .. Size - 1 -> Data]
    /\ msg = <<>> /\ at = 0
    /\ seen = Nothing
    /\ got = <<>>

\* conn_tx_write, room checked: all of it or none (a refused write changes nothing).
Write(s) ==
    /\ msg = <<>> /\ s # <<>> /\ Len(s) <= Free
    /\ msg' = s
    /\ at' = 0
    /\ UNCHANGED <<head, tail, buf, seen, got>>

Copy ==
    /\ at < Len(msg)
    /\ buf' = [buf EXCEPT ![(head + at) % Size] = msg[at + 1]]
    /\ at' = at + 1
    /\ UNCHANGED <<head, tail, msg, seen, got>>

\* A variant: head moves before the last byte is copied.
PublishEarly ==
    /\ msg # <<>> /\ at + 1 = Len(msg)
    /\ head' = (head + Len(msg)) % IndexMod
    /\ msg' = <<>> /\ at' = 0
    /\ UNCHANGED <<tail, buf, seen, got>>

\* r->head moves, after the fence.
Publish ==
    /\ msg # <<>> /\ at = Len(msg)
    /\ head' = (head + Len(msg)) % IndexMod
    /\ msg' = <<>> /\ at' = 0
    /\ UNCHANGED <<tail, buf, seen, got>>

\* A variant: the run is not cut at the end of the buffer.
PeekAll ==
    /\ seen = Nothing /\ Used > 0
    /\ seen' = [pos |-> tail % Size, len |-> Used]
    /\ UNCHANGED <<head, tail, buf, msg, at, got>>

\* conn_tx_peek: up to the end of the buffer.
Peek ==
    /\ seen = Nothing /\ Used > 0
    /\ LET toEnd == Size - (tail % Size)
       IN  seen' = [pos |-> tail % Size, len |-> IF Used < toEnd THEN Used ELSE toEnd]
    /\ UNCHANGED <<head, tail, buf, msg, at, got>>

\* The net task passes the first n bytes of the run on and calls conn_tx_advance.
Advance(n) ==
    /\ n <= seen.len /\ seen # Nothing
    /\ got' = [i \in 1 .. n |-> buf[seen.pos + i - 1]]
    /\ tail' = (tail + n) % IndexMod
    /\ seen' = Nothing
    /\ UNCHANGED <<head, buf, msg, at>>

\* conn_tx_reset, on the net task.
Reset ==
    /\ seen = Nothing
    /\ tail' = head
    /\ UNCHANGED <<head, buf, msg, at, seen, got>>

Next ==
    \/ \E s \in UNION {[1 .. n -> Data] : n \in 1 .. Size} : Write(s)
    \/ Copy \/ Publish \/ Peek \/ Reset
    \/ \E n \in 0 .. Size : Advance(n)

Spec == Init /\ [][Next]_vars

\* The bytes queued, oldest first.
Queued == [i \in 1 .. Used |-> buf[(tail + i - 1) % Size]]

\* The types; a peeked run ends inside the buffer.
TypeOK ==
    /\ head \in 0 .. IndexMod - 1 /\ tail \in 0 .. IndexMod - 1
    /\ buf \in [0 .. Size - 1 -> Data]
    /\ Len(msg) <= Mask /\ at \in 0 .. Len(msg)
    /\ seen \in [pos : 0 .. Size - 1, len : 0 .. Size] /\ seen.pos + seen.len <= Size

Fifo == INSTANCE ByteFifo WITH q <- Queued, Cap <- Mask

\* The ring is a bounded FIFO: whole writes, in order, across the wrap of the buffer and of
\* the indices, whenever the other task runs.
RefinesFifo == Fifo!Spec
================================================================================
