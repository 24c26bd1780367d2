---------------------------------- MODULE TlsRx ---------------------------------
(***************************************************************************)
(* The receive side of the pod's TLS connections (altcp_tls_mbedtls_bp.c,   *)
(* lwIP's layer with this firmware's changes), on the net task: raw bytes   *)
(* from TCP, records gathered and decrypted by mbedTLS, plaintext offered   *)
(* to an application that may refuse it, and the TCP window opened again    *)
(* along the way.  Bytes are counted; what they say plays no part.          *)
(***************************************************************************)
EXTENDS Naturals, Sequences

CONSTANTS
    Wnd,         \* TCP_WND
    Hello,       \* bytes of the handshake the peer sends
    Plain,       \* the plaintext sizes of the records it sends then, a sequence
    Overhead,    \* what a record adds to its plaintext
    BufSize,     \* PBUF_POOL_BUFSIZE
    Pool,        \* PBUF_POOL_SIZE
    MaxConns

ConstantsOK ==
    /\ {Wnd, BufSize, Pool, Overhead, Hello, MaxConns} \subseteq Nat \ {0}
    /\ Plain \in Seq(Nat) /\ Hello <= Wnd

VARIABLES
    st,          \* "none", "handshake", "open", "closed"
    peer_sent,   \* bytes of the peer's stream that TCP delivered
    fin,         \* the peer's FIN: "no", "queued" (RX_CLOSE_QUEUED), "passed" (RX_CLOSED)
    upper,       \* UPPER_CALLED
    wnd,         \* the window the peer sees
    rx,          \* raw bytes queued, state->rx
    rec, got,    \* the record mbedTLS gathers and its bytes so far
    avail,       \* plaintext of it not read yet (mbedtls_ssl_get_bytes_avail)
    bio_bytes_read, bio_bytes_appl, bp_loaned, bp_debt,
    rx_app,      \* plaintext refused or about to be passed
    pool,        \* free PBUF_POOL buffers
    others,      \* buffers other users of the pool hold
    pc,          \* where handle_rx_appldata is: "idle", "pass", "read"
    room,        \* the application has room
    refused,     \* and owes a kick (s_conn_refused, s_rx_refused)
    taken,       \* plaintext the application took
    short,       \* a read found the pool empty
    conn_no

acct == <<wnd, bio_bytes_read, bio_bytes_appl, bp_loaned, bp_debt>>
tlsVars == <<rx, rec, got, avail, rx_app>>
txVars == <<st, peer_sent, fin, upper, acct, tlsVars, pool, others, pc, room, refused, taken, short, conn_no>>

RecordSize(i) == Plain[i] + Overhead
Stream ==
    LET SumTo[i \in 0..Len(Plain)] == IF i = 0 THEN 0 ELSE RecordSize(i) + SumTo[i - 1]
    IN  Hello + SumTo[Len(Plain)]

Init ==
    /\ st = "none" /\ peer_sent = 0 /\ fin = "no" /\ upper = FALSE
    /\ wnd = Wnd /\ bio_bytes_read = 0 /\ bio_bytes_appl = 0 /\ bp_loaned = 0 /\ bp_debt = 0
    /\ rx = 0 /\ rec = 1 /\ got = 0 /\ avail = 0 /\ rx_app = 0
    /\ pc = "idle" /\ refused = FALSE /\ taken = 0
    /\ pool = Pool /\ others = 0 /\ room = TRUE /\ short = FALSE /\ conn_no = 0

\* altcp_mbedtls_lower_accept, altcp_tls_wrap over altcp_mbedtls_setup: a new connection.
Open ==
    /\ st \in {"none", "closed"} /\ conn_no < MaxConns
    /\ st' = "handshake" /\ conn_no' = conn_no + 1
    /\ peer_sent' = 0 /\ fin' = "no" /\ upper' = FALSE
    /\ wnd' = Wnd /\ bio_bytes_read' = 0 /\ bio_bytes_appl' = 0 /\ bp_loaned' = 0 /\ bp_debt' = 0
    /\ rx' = 0 /\ rec' = 1 /\ got' = 0 /\ avail' = 0 /\ rx_app' = 0
    /\ pc' = "idle" /\ refused' = FALSE /\ taken' = 0
    /\ UNCHANGED <<pool, others, room, short>>

\* altcp_mbedtls_dealloc: the raw bytes are freed with the connection.
Dealloc == st' = "closed" /\ pc' = "idle" /\ rx' = 0
--------------------------------------------------------------------------------
\* altcp_mbedtls_lower_recv with data.
Segment ==
    /\ st \in {"handshake", "open"} /\ pc = "idle" /\ fin = "no"
    /\ \E n \in 1..Wnd :
         /\ n <= wnd /\ n <= Stream - peer_sent
         /\ peer_sent' = peer_sent + n /\ wnd' = wnd - n /\ rx' = rx + n
    /\ pc' = IF st = "handshake" THEN "shake" ELSE IF rx_app > 0 THEN "pass" ELSE "read"
    /\ UNCHANGED <<st, fin, upper, bio_bytes_read, bio_bytes_appl, bp_loaned, bp_debt,
                   rec, got, avail, rx_app, pool, others, room, refused, taken, short, conn_no>>

\* altcp_mbedtls_lower_recv_process before the handshake is done: what mbedTLS read is given back
\* to the window at once; the handshake may fail.
Handshake ==
    /\ pc = "shake"
    /\ LET used == IF rx < Hello - got THEN rx ELSE Hello - got
       IN  \/ /\ wnd' = wnd + used /\ rx' = rx - used
              /\ IF got + used < Hello
                 THEN got' = got + used /\ pc' = "idle" /\ UNCHANGED st
                 ELSE got' = 0 /\ st' = "open" /\ pc' = IF rx > used THEN "read" ELSE "idle"
           \/ Dealloc /\ UNCHANGED <<wnd, got>>
    /\ UNCHANGED <<peer_sent, fin, upper, bio_bytes_read, bio_bytes_appl, bp_loaned, bp_debt,
                   rec, avail, rx_app, pool, others, room, refused, taken, short, conn_no>>

\* As if nothing were lent: the window opens when the application takes the plaintext.
LendNothing(read) == UNCHANGED <<wnd, bp_loaned>>

\* An incomplete record: the window is lent the raw bytes mbedTLS holds for it, or a record larger
\* than the window never arrives.
Lend(read) == wnd' = wnd + (read - bp_loaned) /\ bp_loaned' = read

\* As if a loan larger than the overhead were not charged to the plaintext.
SettleForgets(read, plain) ==
    /\ wnd' = wnd + (IF read - plain >= bp_loaned THEN read - plain - bp_loaned ELSE 0)
    /\ bp_loaned' = 0 /\ UNCHANGED bp_debt

\* The first plaintext of a record: the window gets its overhead, less what was lent; a loan
\* larger than the overhead becomes debt.
Settle(read, plain) ==
    /\ IF read - plain >= bp_loaned
       THEN wnd' = wnd + (read - plain - bp_loaned) /\ UNCHANGED bp_debt
       ELSE bp_debt' = bp_debt + (bp_loaned - (read - plain)) /\ UNCHANGED wnd
    /\ bp_loaned' = 0

\* The plaintext one read returns goes to the application.
GetPlain(n, left, read) ==
    /\ rx_app' = n /\ avail' = left /\ pool' = pool - 1 /\ pc' = "pass"
    /\ IF left = 0 THEN bio_bytes_read' = 0 /\ bio_bytes_appl' = 0
                   ELSE bio_bytes_read' = read /\ bio_bytes_appl' = bio_bytes_appl + n

Least(a, b) == IF a < b THEN a ELSE b

\* One round of altcp_mbedtls_handle_rx_appldata with altcp_mbedtls_bio_recv: no buffer, more of
\* the record in hand, a record completed or not, or (0) the end of a closed stream.
ReadRound ==
    /\ pc = "read" /\ UNCHANGED <<st, peer_sent, upper, others, room, refused, taken, conn_no>>
    /\ \/ /\ pool = 0 /\ pc' = "idle" /\ short' = TRUE
          /\ UNCHANGED <<fin, acct, tlsVars, pool>>
       \/ /\ pool > 0 /\ avail > 0
          /\ LET n == Least(avail, BufSize) IN GetPlain(n, avail - n, bio_bytes_read)
          /\ UNCHANGED <<fin, wnd, bp_loaned, bp_debt, rx, rec, got, short>>
       \/ /\ pool > 0 /\ avail = 0
          /\ LET need == IF rec > Len(Plain) THEN 1 ELSE RecordSize(rec) - got
                 n == Least(rx, need)
                 read == bio_bytes_read + n
                 p == IF rec > Len(Plain) THEN 0 ELSE Plain[rec]
             IN  /\ rx' = rx - n
                 /\ \/ /\ n < need /\ fin # "queued"             \* MBEDTLS_ERR_SSL_WANT_READ
                       /\ Lend(read)
                       /\ bio_bytes_read' = read /\ got' = got + n /\ pc' = "idle"
                       /\ UNCHANGED <<fin, bio_bytes_appl, bp_debt, rec, avail, rx_app, pool>>
                    \/ /\ n < need /\ fin = "queued"             \* 0: the end
                       /\ bio_bytes_read' = read /\ got' = got + n
                       /\ fin' = "passed" /\ pc' = "idle"
                       /\ UNCHANGED <<wnd, bio_bytes_appl, bp_loaned, bp_debt, rec, avail, rx_app, pool>>
                    \/ /\ n = need /\ p = 0                      \* an empty record: the next one
                       /\ bio_bytes_read' = read /\ rec' = rec + 1 /\ got' = 0
                       /\ UNCHANGED <<fin, wnd, bio_bytes_appl, bp_loaned, bp_debt, avail, rx_app, pool, pc>>
                    \/ /\ n = need /\ p > 0
                       /\ LET m == Least(p, BufSize) IN GetPlain(m, p - m, read)
                       /\ Settle(read, p) /\ rec' = rec + 1 /\ got' = 0
                       /\ UNCHANGED fin
          /\ UNCHANGED short

\* altcp_mbedtls_recved, from the application: debt first, then the window.
Recved(n) ==
    LET paid == Least(n, bp_debt)
    IN  bp_debt' = bp_debt - paid /\ wnd' = wnd + (n - paid)

\* altcp_mbedtls_pass_rx_data: the application takes the plaintext (its buffer is freed, and it
\* calls recved), or refuses it and it stays queued; plaintext queued goes before all else.
Pass ==
    /\ pc = "pass" /\ upper' = TRUE
    /\ \/ /\ room /\ taken' = taken + rx_app /\ rx_app' = 0 /\ pool' = pool + 1
          /\ Recved(rx_app) /\ pc' = "read" /\ UNCHANGED refused
       \/ /\ ~room /\ refused' = TRUE /\ pc' = "idle"
          /\ UNCHANGED <<rx_app, pool, taken, wnd, bp_debt>>
    /\ UNCHANGED <<st, peer_sent, fin, bio_bytes_read, bio_bytes_appl, bp_loaned, rx, rec, got, avail,
                   others, room, short, conn_no>>

\* altcp_tls_bp_kick, by net_tx_drain or the cloud client once there is room.
Kick ==
    /\ st = "open" /\ pc = "idle" /\ refused /\ room
    /\ refused' = FALSE /\ pc' = IF rx_app > 0 THEN "pass" ELSE "read"
    /\ UNCHANGED <<st, peer_sent, fin, upper, acct, tlsVars, pool, others, room, taken, short, conn_no>>

\* As if a FIN overtook what is still to be decrypted or taken.
FinAtOnce ==
    /\ st \in {"handshake", "open"} /\ pc = "idle" /\ fin = "no"
    /\ IF st = "open" THEN fin' = "passed" /\ UNCHANGED <<st, pc, rx>>
       ELSE Dealloc /\ UNCHANGED fin
    /\ UNCHANGED <<peer_sent, upper, acct, rec, got, avail, rx_app, pool, others, room, refused, taken,
                   short, conn_no>>

\* altcp_mbedtls_lower_recv with NULL: the peer closes.  With data in hand the FIN is queued behind
\* it; before the application had any data it is an error.
PeerFin ==
    /\ st \in {"handshake", "open"} /\ pc = "idle" /\ fin = "no"
    /\ IF st = "open" /\ upper
       THEN IF rx > 0 \/ rx_app > 0
            THEN fin' = "queued" /\ pc' = (IF rx_app > 0 THEN "pass" ELSE "read") /\ UNCHANGED <<st, rx>>
            ELSE fin' = "passed" /\ UNCHANGED <<st, pc, rx>>
       ELSE Dealloc /\ UNCHANGED fin
    /\ UNCHANGED <<peer_sent, upper, acct, rec, got, avail, rx_app, pool, others, room, refused, taken,
                   short, conn_no>>

\* altcp_mbedtls_close and altcp_mbedtls_lower_err over altcp_mbedtls_dealloc: the application
\* closes (after a FIN, or by policy), or the peer resets.
Close ==
    /\ st \in {"handshake", "open"} /\ pc = "idle" /\ Dealloc
    /\ UNCHANGED <<peer_sent, fin, upper, acct, rec, got, avail, rx_app, pool, others, room, refused,
                   taken, short, conn_no>>

\* The application's room comes and goes (srv_recv: the worker's queue; cl_recv_cb: s_rx).
Room == pc = "idle" /\ room' = ~room /\ UNCHANGED <<st, peer_sent, fin, upper, acct, tlsVars, pool,
                                                    others, pc, refused, taken, short, conn_no>>

\* Another connection takes a buffer of the pool, or gives it back.
Others ==
    /\ \/ pool > 0 /\ pool' = pool - 1 /\ others' = others + 1
       \/ others > 0 /\ pool' = pool + 1 /\ others' = others - 1
    /\ pc = "idle"
    /\ UNCHANGED <<st, peer_sent, fin, upper, acct, tlsVars, pc, room, refused, taken, short, conn_no>>

Next == Open \/ Segment \/ Handshake \/ ReadRound \/ Pass \/ Kick \/ PeerFin \/ Close \/ Room \/ Others

\* The peer sends what the window allows; the net task runs; the application makes room.
Fairness ==
    /\ WF_txVars(Segment) /\ WF_txVars(Handshake) /\ WF_txVars(ReadRound) /\ WF_txVars(Pass)
    /\ SF_txVars(Kick) /\ WF_txVars(~room /\ Room)

Spec == Init /\ [][Next]_txVars /\ Fairness
--------------------------------------------------------------------------------
\* The types of a connection's state.
TypeOK ==
    /\ st \in {"none", "handshake", "open", "closed"} /\ pc \in {"idle", "shake", "read", "pass"}
    /\ peer_sent \in 0..Stream /\ fin \in {"no", "queued", "passed"}
    /\ wnd \in Nat /\ rx \in Nat /\ avail \in Nat /\ rx_app \in 0..BufSize
    /\ pool \in 0..Pool /\ others \in 0..Pool /\ conn_no \in 0..MaxConns

\* altcp_tls_mbedtls_bp.c: the window is neither lost nor opened twice: what it lacks of TCP_WND
\* is in the connection's hands, and the debt of a record ends with its plaintext.
WindowTrue ==
    st \in {"handshake", "open"} =>
        /\ wnd + rx + (IF st = "handshake" THEN 0
                       ELSE IF avail > 0 THEN avail ELSE bio_bytes_read - bp_loaned)
               + rx_app = Wnd + bp_debt
        /\ bp_debt <= avail + rx_app

\* The same: a FIN reaches the application after the data the peer sent before it, but for an
\* incomplete record, while the pool is not short.
FinIsLast == fin = "passed" /\ ~short => rx = 0 /\ avail = 0 /\ rx_app = 0

\* The file's head: a record of any size arrives, in a window smaller than it: a connection that
\* stays open hands on everything its peer sent, while the pool is not short.
AllThere == short \/ fin # "no" \/ st # "open" \/ (peer_sent = Stream /\ rx + avail + rx_app = 0)
AllArrives == []<>AllThere

\* altcp_mbedtls_dealloc: "clean up and free tls state": a connection that is gone holds no buffer
\* of the pool.
NothingLeaks == st = "closed" => pool + others = Pool
================================================================================
