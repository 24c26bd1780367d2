---------------------------------- MODULE TlsTx ----------------------------------
(***************************************************************************)
(* The sending side of altcp_tls_mbedtls_bp.c over one TCP pcb: a write is   *)
(* one TLS record, which mbedTLS keeps in its output buffer (out_left) until *)
(* TCP takes it whole; acknowledgements are split into the record's overhead *)
(* and the application's bytes by overhead_bytes_adjust. Everything runs on  *)
(* the net task.                                                             *)
(***************************************************************************)
EXTENDS Integers, Sequences

CONSTANTS SndBuf,           \* the TCP send buffer
          Expansion,        \* header, IV and tag of a record
          Hello,            \* handshake bytes before the first record
          Sizes,            \* the application's writes
          MaxWrites, MaxShort

ConstantsOK == {SndBuf, Expansion} \subseteq Nat \ {0} /\ Hello \in Nat /\ Sizes \subseteq Nat \ {0}
               /\ {MaxWrites, MaxShort} \subseteq Nat

VARIABLES
    hsDone,                 \* ALTCP_MBEDTLS_FLAGS_HANDSHAKE_DONE
    out_left,               \* bytes mbedTLS still holds
    overhead_bytes_adjust,
    queued, acked,          \* bytes TCP took, bytes the peer acknowledged
    taken, sentUp,          \* the application's bytes accepted, and reported by the sent callback
    overheads,              \* ghost: overhead bytes made so far
    writes, short           \* bounds: writes, and refusals of TCP for lack of segments

txVars == <<hsDone, out_left, overhead_bytes_adjust, queued, acked, taken, sentUp, overheads, writes, short>>

TypeOK ==
    /\ hsDone \in BOOLEAN /\ out_left \in Nat /\ overhead_bytes_adjust \in Int
    /\ {queued, acked, taken, sentUp, overheads} \subseteq Nat
    /\ queued - acked \in 0 .. SndBuf /\ writes \in 0 .. MaxWrites /\ short \in 0 .. MaxShort + 1

\* altcp_mbedtls_lower_connected: the counter starts at zero.
Init ==
    /\ hsDone = FALSE /\ out_left = 0 /\ overhead_bytes_adjust = 0 /\ queued = 0 /\ acked = 0
    /\ taken = 0 /\ sentUp = 0 /\ overheads = 0 /\ writes = 0 /\ short = 0

\* altcp_mbedtls_bio_send: TCP takes the n bytes offered after f others, or none; it may also be out of segments.
Fits(f, n) == queued + f - acked + n <= SndBuf
Outcome(f, n) == (IF Fits(f, n) THEN {n} ELSE {}) \cup (IF ~Fits(f, n) \/ short < MaxShort THEN {0} ELSE {})

\* A refusal of what would have fitted.
ShortBy(f, n, m) == IF m = 0 /\ n > 0 /\ Fits(f, n) THEN 1 ELSE 0

\* The handshake: its bytes are overhead to the application.
Handshake ==
    /\ ~hsDone /\ hsDone' = TRUE /\ Hello <= SndBuf
    /\ queued' = queued + Hello /\ overheads' = overheads + Hello
    /\ overhead_bytes_adjust' = overhead_bytes_adjust + Hello
    /\ UNCHANGED <<out_left, acked, taken, sentUp, writes, short>>

\* As if TLS added nothing.
SndbufBelow == IF hsDone THEN SndBuf - (queued - acked) ELSE 0

\* altcp_mbedtls_sndbuf: room for the bytes and what TLS adds.
SndbufFor == IF hsDone /\ SndBuf - (queued - acked) > Expansion THEN SndBuf - (queued - acked) - Expansion ELSE 0

\* As if a record could be added while one is held.
MayWriteAnyway(held) == TRUE

\* altcp_mbedtls_write: refused while a held record does not go out.
MayWrite(held) == held = 0

\* altcp_mbedtls_write: the held record is flushed first; the new one is mbedTLS's in any case once it is taken.
Write ==
    /\ hsDone /\ writes < MaxWrites /\ writes' = writes + 1
    /\ \E n \in Sizes : \E f \in Outcome(0, out_left) :
         LET held == out_left - f IN
         IF MayWrite(held)
         THEN \E g \in Outcome(f, n + Expansion) :
                /\ out_left' = held + n + Expansion - g /\ queued' = queued + f + g
                /\ overhead_bytes_adjust' = overhead_bytes_adjust + f + g - n
                /\ taken' = taken + n /\ overheads' = overheads + Expansion
                /\ short' = short + ShortBy(0, out_left, f) + ShortBy(f, n + Expansion, g)
         ELSE /\ out_left' = held /\ queued' = queued + f /\ overhead_bytes_adjust' = overhead_bytes_adjust + f
              /\ short' = short + ShortBy(0, out_left, f) /\ UNCHANGED <<taken, overheads>>
    /\ UNCHANGED <<hsDone, acked, sentUp>>

\* As if the held bytes were not overhead still to come.
OverheadSeen == overhead_bytes_adjust

\* The overhead not yet acknowledged: the counter and what mbedTLS still holds.
OverheadDue == overhead_bytes_adjust + out_left

\* altcp_mbedtls_lower_sent: overhead is taken off first, held bytes are flushed, the rest is reported.
LowerSent ==
    /\ \E len \in 1 .. queued - acked : \E f \in Outcome(0, out_left) :
         LET over == IF OverheadDue < 0 \/ OverheadDue > len THEN len ELSE OverheadDue
             app == len - over IN
         /\ acked' = acked + len /\ sentUp' = sentUp + app
         /\ out_left' = out_left - f /\ queued' = queued + f /\ short' = short + ShortBy(0, out_left, f)
         /\ overhead_bytes_adjust' = overhead_bytes_adjust - len + f + app
    /\ UNCHANGED <<hsDone, taken, overheads, writes>>

\* altcp_mbedtls_lower_poll, where a layer above asks for polls: held bytes are tried again.
LowerPoll ==
    /\ out_left > 0 /\ \E f \in Outcome(0, out_left) :
         /\ out_left' = out_left - f /\ queued' = queued + f /\ short' = short + ShortBy(0, out_left, f)
         /\ overhead_bytes_adjust' = overhead_bytes_adjust + f
    /\ UNCHANGED <<hsDone, acked, taken, sentUp, overheads, writes>>

Next == Handshake \/ Write \/ LowerSent \/ LowerPoll
Spec == Init /\ [][Next]_txVars
--------------------------------------------------------------------------------
(* Properties. *)

\* The application is told of no byte the peer has not acknowledged, and of every byte once the peer has everything:
\* whatever the order of writes, refusals and acknowledgements (overhead_bytes_adjust).
SentIsTrue ==
    /\ sentUp <= taken /\ sentUp <= acked
    /\ out_left = 0 /\ queued = acked => sentUp = taken

\* Bytes are neither lost nor doubled between the application and TCP, and at most one record waits in mbedTLS.
NothingLost ==
    /\ queued + out_left = taken + overheads
    /\ out_left = 0 \/ \E n \in Sizes : out_left = n + Expansion

\* A write within what altcp_sndbuf said leaves at once, unless TCP is out of segments: callers pace their frames by
\* it (cloud_client_tunnel_avail), and a record kept back waits for the next acknowledgement.
LeavesAtOnce == taken' > taken /\ taken' - taken <= SndbufFor /\ out_left = 0 /\ short' = short => out_left' = 0
SndbufHonest == [][LeavesAtOnce]_txVars
================================================================================
