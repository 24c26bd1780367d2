-------------------------------- MODULE MCLinks --------------------------------
(***************************************************************************)
(* What a client reaches the pod through, under TLC: the reply rings, the   *)
(* cloud connection and its traffic, the TLS layers and who may use the     *)
(* pod.  A component names the state of another that it needs and lets it   *)
(* change as the other does, so a behaviour works with one of them and the  *)
(* others keep an initial state.                                            *)
(***************************************************************************)
EXTENDS ConnTx, Integers, FiniteSetTheorems, TLAPS

CONSTANTS
    Hosts, OldHosts, Proxy, None, BackoffStart, BackoffMax, MaxFaults, MaxReloads,  \* cloud
    Reqs, NoReq, RxCap, QDepth, MaxChunks, MaxTunnels, MaxDrops,           \* traffic
    MaxOpens, MaxStackChanges, MaxOom, CloseFails,                         \* layers
    Wnd, Hello, Overhead, BufSize, Pool, MaxConns,                         \* TLS receive
    SndBuf, Expansion, TxHello, Sizes, MaxWrites, MaxShort,                \* TLS transmit
    RetiredMax, MaxSess, MaxCerts, MaxTries,                               \* LAN certificate
    W, LeaseMax, MaxLag,                                                   \* lease
    MaxPolicySets, MaxBoots                                                \* policy

VARIABLES
    which,
    cl_state, s_cfg, s_dns, s_ip, lookups, s_pcb, pcbs, s_link, s_dropped, s_rx, s_backoff_ms,
    s_backoff_reset_pending, s_auth_v1, extras_ready, faults, reloads,
    unsent, opened, chunk, tunnels, tls, s_rx_refused, s_acc, s_tunnel, work, tunnelParked, w,
    s_cloud_pending, s_cloud_ready, s_cloud_req_id, s_cloud_reply, s_pend, full, expected, gap, answers,
    replaced, drops,
    k, stackLink, s_tls_conf, rngRef, lanConf, caFlash, s_ca, s_ca_error, proxySet, s_ready, reloadDue,
    opens, changes, oom,
    st, peer_sent, fin, upper, wnd, rx, rec, rxGot, avail, bio_bytes_read, bio_bytes_appl, bp_loaned, bp_debt,
    rx_app, pool, others, pc, room, refused, taken, poolShort, conn_no,
    hsDone, out_left, overhead_bytes_adjust, queued, acked, txTaken, sentUp, overheads, writes, short,
    s_cur, s_retired, s_gen, s_tls_listen_cfg, s_tls_listen_gen, s_conn_tls, dying, live, lost, certStored,
    phase, s_info, s_info_seq, r,
    now, lag, s_held, s_deadline_ms, term,
    s_rec, flash, setting, s_lan_req, s_https_req, s_lan_up, s_https_only, s_net_setting_next,
    s_net_setting, s_reattach_at, conns, s_close_req, policySets, boots

cloudVars == <<cl_state, s_cfg, s_dns, s_ip, lookups, s_pcb, pcbs, s_link, s_dropped, s_rx,
               s_backoff_ms, s_backoff_reset_pending, s_auth_v1, extras_ready, faults, reloads>>
trafficVars == <<unsent, opened, chunk, tunnels, tls, s_rx_refused, s_acc, s_tunnel, work, tunnelParked,
                 w, s_cloud_pending, s_cloud_ready, s_cloud_req_id, s_cloud_reply, s_pend, full,
                 expected, gap, answers, replaced, drops>>
stackVars == <<k, stackLink, s_tls_conf, rngRef, lanConf, caFlash, s_ca, s_ca_error, proxySet, s_ready,
               reloadDue, opens, changes, oom>>
rxVars == <<st, peer_sent, fin, upper, wnd, rx, rec, rxGot, avail, bio_bytes_read, bio_bytes_appl,
            bp_loaned, bp_debt, rx_app, pool, others, pc, room, refused, taken, poolShort, conn_no>>
txVars == <<hsDone, out_left, overhead_bytes_adjust, queued, acked, txTaken, sentUp, overheads, writes,
            short>>
certVars == <<s_cur, s_retired, s_gen, s_tls_listen_cfg, s_tls_listen_gen, s_conn_tls, dying, live,
              lost, certStored, phase, s_info, s_info_seq, r>>
leaseVars == <<now, lag, s_held, s_deadline_ms, term>>
accessVars == <<s_rec, flash, setting, s_lan_req, s_https_req, s_lan_up, s_https_only,
                s_net_setting_next, s_net_setting, s_reattach_at, conns, s_close_req, policySets,
                boots>>

\* The plaintext of three records: longer than the window, empty, and short.
RecordLens == <<4, 0, 1>>

Cloud == INSTANCE CloudLink
Traffic == INSTANCE CloudTraffic WITH s_parked <- tunnelParked
Stack == INSTANCE CloudStack WITH link <- stackLink, MaxChanges <- MaxStackChanges
Rx == INSTANCE TlsRx WITH short <- poolShort, got <- rxGot, Plain <- RecordLens
Tx == INSTANCE TlsTx WITH taken <- txTaken, Hello <- TxHello
Cert == INSTANCE LanTls WITH stored <- certStored, MaxChanges <- MaxCerts
Lease == INSTANCE LeaseGate
Policy == INSTANCE Access WITH sets <- policySets, MaxSets <- MaxPolicySets

ASSUME Assumptions ==
    /\ ConstantsOK /\ Cloud!ConstantsOK
    /\ Traffic!ConstantsOK /\ Stack!ConstantsOK /\ Rx!ConstantsOK /\ Tx!ConstantsOK
    /\ Cert!ConstantsOK /\ Lease!ConstantsOK /\ Policy!ConstantsOK

MCInit ==
    /\ which \in {"ring", "cloud", "traffic", "stack", "rx", "tx", "cert", "lease", "access"}
    /\ Init
    /\ which = "ring" \/ (head = 0 /\ \A i \in DOMAIN buf : buf[i] = CHOOSE d \in Data : TRUE)
    /\ Cloud!Init /\ (which = "cloud" \/ s_cfg = None)
    /\ Traffic!Init /\ Rx!Init /\ Tx!Init
    /\ Stack!Init /\ (which = "stack" \/ (caFlash = "none" /\ ~proxySet))
    /\ Cert!Init /\ (which = "cert" \/ s_gen = 0)
    /\ Lease!Init /\ (which = "lease" \/ now = 0)
    /\ Policy!Init /\ (which = "access" \/ flash.lan = Policy!Open)

Rest ==
    /\ UNCHANGED which
    /\ which # "ring" => UNCHANGED vars
    /\ which # "cloud" => UNCHANGED cloudVars
    /\ which # "traffic" => UNCHANGED trafficVars
    /\ which # "stack" => UNCHANGED stackVars
    /\ which # "rx" => UNCHANGED rxVars
    /\ which # "tx" => UNCHANGED txVars
    /\ which # "cert" => UNCHANGED certVars
    /\ which # "lease" => UNCHANGED leaseVars
    /\ which # "access" => UNCHANGED accessVars

MCNext ==
    /\ Rest
    /\ \/ which = "cloud" /\ Cloud!Next
       \/ which = "ring" /\ Next
       \/ which = "traffic" /\ Traffic!Next
       \/ which = "stack" /\ Stack!Next
       \/ which = "rx" /\ Rx!Next
       \/ which = "tx" /\ Tx!Next
       \/ which = "cert" /\ Cert!Next
       \/ which = "lease" /\ Lease!Next
       \/ which = "access" /\ Policy!Next

mcVars == <<which, vars, cloudVars, trafficVars, stackVars, rxVars,
            txVars, certVars, leaseVars, accessVars>>

\* The fairness of the part in use.
MCFairness ==
    /\ WF_cloudVars(which = "cloud" /\ Cloud!Poll)
    /\ WF_cloudVars(which = "cloud" /\ (Cloud!LinkUp \/ Cloud!LinkError))
    /\ WF_cloudVars(which = "cloud" /\ Cloud!ServerAnswers)
    /\ WF_cloudVars(which = "cloud" /\ Cloud!ExtrasReady)
    /\ \A h \in Hosts \cup {Proxy} : WF_cloudVars(which = "cloud" /\ Cloud!DnsAnswer(h))
    /\ WF_trafficVars(which = "traffic" /\ Traffic!Kick)
    /\ WF_trafficVars(which = "traffic" /\ Traffic!ProcessFrame)
    /\ WF_trafficVars(which = "traffic" /\ Traffic!FrameReply)
    /\ WF_trafficVars(which = "traffic" /\ Traffic!WorkerTakes)
    /\ WF_trafficVars(which = "traffic" /\ Traffic!WorkerUnparks)
    /\ WF_trafficVars(which = "traffic" /\ Traffic!WorkerReplies)
    /\ WF_trafficVars(which = "traffic" /\ full /\ Traffic!Buffer)
    /\ WF_rxVars(which = "rx" /\ Rx!Segment)
    /\ WF_rxVars(which = "rx" /\ Rx!Handshake)
    /\ WF_rxVars(which = "rx" /\ Rx!ReadRound)
    /\ WF_rxVars(which = "rx" /\ Rx!Pass)
    /\ WF_rxVars(which = "rx" /\ ~room /\ Rx!Room)
    /\ WF_accessVars(which = "access" /\ Policy!NetPoll)
    /\ WF_accessVars(which = "access" /\ Policy!Save)
    /\ WF_accessVars(which = "access" /\ Policy!Hook)
    /\ WF_accessVars(which = "access" /\ Policy!UsbReattach)
    /\ SF_<<trafficVars, rxVars>>(\/ which = "traffic" /\ Traffic!Resend /\ UNCHANGED rxVars
                                  \/ which = "rx" /\ Rx!Kick /\ UNCHANGED trafficVars)

MCSpec == MCInit /\ [][MCNext]_mcVars /\ MCFairness

\* The types of the parts' state.
TypesOK ==
    CASE which = "ring" -> TypeOK
      [] which = "cloud" -> Cloud!TypeOK [] which = "traffic" -> Traffic!TypeOK
      [] which = "stack" -> Stack!TypeOK
      [] which = "rx" -> Rx!TypeOK [] which = "tx" -> Tx!TypeOK [] which = "cert" -> Cert!TypeOK
      [] which = "lease" -> Lease!TypeOK [] which = "access" -> Policy!TypeOK

\* cloud_client.c, hw_worker.c, altcp_tls_mbedtls_bp.c: a request of the cloud is answered once, with
\* its own answer, or is still on its way; a tunnel skips no chunk; the receive window is neither
\* lost nor opened twice, a FIN comes last, and what is reported as sent is.
StreamsIntact ==
    /\ which = "traffic" => Traffic!Accounted /\ Traffic!NoGap
    /\ which = "rx" => Rx!WindowTrue /\ Rx!FinIsLast
    /\ which = "tx" => Tx!SentIsTrue /\ Tx!NothingLost

\* altcp_tls_mbedtls_bp.c, altcp_proxyconnect_bp.c, lan_tls.c: every layer of a connection is freed
\* once, and a configuration only when no session, listener or reader can reach it any more.
StacksSound ==
    /\ which = "stack" => Stack!FreedOnce /\ Stack!ConfOutlives
    /\ which = "cert" => Cert!NotFreedInUse /\ Cert!Reclaimed /\ Cert!InfoWhole

\* lease_gate.c, pod_policy.c, cloud_client.c: a lease shuts the LAN out for its term and no
\* longer, a policy in force survives a reset, and the pod logs in to the host it is connected to.
OnlyAuthorised ==
    /\ which = "lease" => Lease!LeaseTrue
    /\ which = "access" => Policy!PolicyDurable
    /\ which = "cloud" => Cloud!LinkIsOurs

\* pod_policy.h: no plaintext client loosens a policy; altcp_sndbuf: a write within what it said
\* leaves at once.
NeverLoosened == Policy!NeverLoosened /\ Tx!SndbufHonest

\* The pod is connected in the end, a policy is applied, and what TLS or the cloud client kept
\* back for want of room is read.
LinksComeBack ==
    /\ <>[](Cloud!Connected /\ (which = "access" => Policy!Applied))
    /\ []<>(tls = <<>> /\ Rx!AllThere)
--------------------------------------------------------------------------------
(***************************************************************************)
(* Proofs, for every ring, stack, certificate, tick width, host, policy     *)
(* change, send buffer and number of faults.                                *)
(***************************************************************************)
(***************************************************************************)
(* The ring, for every size and every width of its indices. First the       *)
(* arithmetic of remainders that the index calculation rests on.            *)
(***************************************************************************)
\* A number is its quotient times S and its remainder.
LEMMA DivMod ==
    ASSUME NEW S \in Nat \ {0}, NEW a \in Nat
    PROVE  a \div S \in Nat /\ (a % S) \in 0 .. S - 1 /\ a = S * (a \div S) + (a % S)
  OBVIOUS

\* There is only one remainder.
LEMMA ModUnique ==
    ASSUME NEW S \in Nat \ {0}, NEW q \in Nat, NEW u \in 0 .. S - 1
    PROVE  (S * q + u) % S = u
  OBVIOUS

\* (head + at) & mask: adding to a number moves its remainder by as much.
LEMMA ModShift ==
    ASSUME NEW S \in Nat \ {0}, NEW a \in Nat, NEW c \in Nat
    PROVE  ((a + c) % S) = (((a % S) + c) % S)
<1> DEFINE q == a \div S   u == a % S   p == (u + c) \div S   t == (u + c) % S
<1>1. q \in Nat /\ u \in 0 .. S - 1 /\ a = S * q + u  BY DivMod
<1>2. p \in Nat /\ t \in 0 .. S - 1 /\ u + c = S * p + t
  <2>1. u + c \in Nat  BY <1>1
  <2> HIDE DEF u
  <2> QED  BY <2>1, DivMod
<1> HIDE DEF q, u, p, t
<1>3. a + c = S * (q + p) + t /\ q + p \in Nat  BY <1>1, <1>2
<1>4. (S * (q + p) + t) % S = t  BY <1>2, <1>3, ModUnique
<1> QED  BY <1>3, <1>4 DEF t, u

\* Within the buffer, the next places follow one another.
LEMMA ModWithin ==
    ASSUME NEW S \in Nat \ {0}, NEW a \in Nat, NEW i \in Nat, (a % S) + i < S
    PROVE  ((a + i) % S) = (a % S) + i
<1>1. ((a + i) % S) = (((a % S) + i) % S)  BY ModShift
<1>2. (a % S) \in Nat  BY DivMod
<1>3. (((a % S) + i) % S) = (a % S) + i  BY <1>2, ModUnique, S * 0 + ((a % S) + i) = (a % S) + i
<1> QED  BY <1>1, <1>3

\* Less than a whole round away is another place.
LEMMA ModApart ==
    ASSUME NEW S \in Nat \ {0}, NEW a \in Nat, NEW d \in 1 .. S - 1
    PROVE  ((a + d) % S) # (a % S)
<1> DEFINE u == a % S
<1>0. d \in Nat  OBVIOUS
<1>1. (a + d) % S = (u + d) % S  BY <1>0, ModShift
<1>2. u \in 0 .. S - 1  BY DivMod
<1> HIDE DEF u
<1>3. CASE u + d < S
  <2>1. (u + d) % S = u + d  BY <1>2, <1>3, ModUnique, S * 0 + (u + d) = u + d
  <2> QED  BY <1>1, <2>1, <1>2 DEF u
<1>4. CASE u + d >= S
  <2>1. (u + d) % S = u + d - S
    <3>1. S * 1 + (u + d - S) = u + d  BY <1>2
    <3>2. (u + d - S) \in 0 .. S - 1  BY <1>2, <1>4
    <3> QED  BY <3>1, <3>2, ModUnique
  <2> QED  BY <1>1, <2>1, <1>2 DEF u
<1> QED  BY <1>2, <1>3, <1>4

\* The wrap of an index does not move its place: the size of the ring divides the width's range.
LEMMA ModNested ==
    ASSUME NEW S \in Nat \ {0}, NEW M \in Nat \ {0}, M % S = 0, NEW a \in Nat
    PROVE  ((a % M) % S) = (a % S)
<1> DEFINE q == a \div M   u == a % M   e == M \div S   p == u \div S   t == u % S
<1>1. q \in Nat /\ u \in 0 .. M - 1 /\ a = M * q + u  BY DivMod
<1>2. e \in Nat /\ M = S * e  BY DivMod
<1>3. p \in Nat /\ t \in 0 .. S - 1 /\ u = S * p + t
  <2>1. u \in Nat  BY <1>1
  <2> HIDE DEF u
  <2> QED  BY <2>1, DivMod
<1> HIDE DEF q, u, e, p, t
<1>4. a = S * (e * q + p) + t
  <2>1. M * q = S * (e * q)  BY <1>1, <1>2
  <2>2. e * q \in Nat  BY <1>1, <1>2
  <2>3. S * (e * q + p) = S * (e * q) + S * p  BY <2>2, <1>3
  <2> QED  BY <2>1, <2>2, <2>3, <1>1, <1>3
<1>5. e * q + p \in Nat  BY <1>1, <1>2, <1>3
<1>6. a % S = t  BY <1>3, <1>4, <1>5, ModUnique
<1> QED  BY <1>6 DEF u, t

\* The difference of two indices, whichever of them has wrapped.
LEMMA SubIs ==
    ASSUME ConstantsOK, NEW a \in 0 .. IndexMod - 1, NEW b \in 0 .. IndexMod - 1
    PROVE  Sub(a, b) = (IF a >= b THEN a - b ELSE a + IndexMod - b)
<1>0. IndexMod \in Nat \ {0} /\ a \in Nat /\ b \in Nat  BY DEF ConstantsOK
<1>1. CASE a >= b
  <2>1. IndexMod * 1 + (a - b) = a + IndexMod - b /\ a - b \in 0 .. IndexMod - 1  BY <1>0, <1>1
  <2>2. (IndexMod * 1 + (a - b)) % IndexMod = a - b  BY <1>0, <2>1, ModUnique
  <2> QED  BY <2>1, <2>2, <1>1 DEF Sub
<1>2. CASE ~(a >= b)
  <2>1. IndexMod * 0 + (a + IndexMod - b) = a + IndexMod - b
        /\ a + IndexMod - b \in 0 .. IndexMod - 1  BY <1>0, <1>2
  <2>2. (IndexMod * 0 + (a + IndexMod - b)) % IndexMod = a + IndexMod - b
    BY <1>0, <2>1, ModUnique
  <2> QED  BY <2>1, <2>2, <1>2 DEF Sub
<1> QED  BY <1>1, <1>2

\* An index that moves by n, at most a whole round, wraps once or not at all.
LEMMA Moved ==
    ASSUME ConstantsOK, NEW a \in 0 .. IndexMod - 1, NEW n \in 0 .. IndexMod
    PROVE  (a + n) % IndexMod = (IF a + n < IndexMod THEN a + n ELSE a + n - IndexMod)
<1>0. IndexMod \in Nat \ {0}  BY DEF ConstantsOK
<1>1. CASE a + n < IndexMod
  <2>1. IndexMod * 0 + (a + n) = a + n /\ a + n \in 0 .. IndexMod - 1  BY <1>0, <1>1
  <2> QED  BY <1>0, <1>1, <2>1, ModUnique
<1>2. CASE a + n >= IndexMod
  <2>1. IndexMod * 1 + (a + n - IndexMod) = a + n /\ a + n - IndexMod \in 0 .. IndexMod - 1
    BY <1>0, <1>2
  <2> QED  BY <1>0, <1>2, <2>1, ModUnique
<1> QED  BY <1>0, <1>1, <1>2

\* conn_tx_used after the head moved by n, and after the tail did.
LEMMA UsedMoves ==
    ASSUME ConstantsOK, NEW a \in 0 .. IndexMod - 1, NEW b \in 0 .. IndexMod - 1, NEW n \in Nat
    PROVE  /\ Sub(a, b) \in 0 .. IndexMod - 1
           /\ Sub(a, b) + n < IndexMod => /\ (a + n) % IndexMod \in 0 .. IndexMod - 1
                                          /\ Sub((a + n) % IndexMod, b) = Sub(a, b) + n
           /\ n <= Sub(a, b) => /\ (b + n) % IndexMod \in 0 .. IndexMod - 1
                                /\ Sub(a, (b + n) % IndexMod) = Sub(a, b) - n
<1>0. IndexMod \in Nat \ {0}  BY DEF ConstantsOK
<1>1. Sub(a, b) = (IF a >= b THEN a - b ELSE a + IndexMod - b)  BY SubIs
<1>2. Sub(a, b) \in 0 .. IndexMod - 1  BY <1>0, <1>1
<1>3. ASSUME Sub(a, b) + n < IndexMod
      PROVE  /\ (a + n) % IndexMod \in 0 .. IndexMod - 1
             /\ Sub((a + n) % IndexMod, b) = Sub(a, b) + n
  <2>1. n \in 0 .. IndexMod  BY <1>0, <1>2, <1>3
  <2> DEFINE c == (a + n) % IndexMod
  <2>2. c = (IF a + n < IndexMod THEN a + n ELSE a + n - IndexMod)  BY <2>1, Moved
  <2> HIDE DEF c
  <2>3. c \in 0 .. IndexMod - 1  BY <1>0, <2>1, <2>2
  <2>4. Sub(c, b) = (IF c >= b THEN c - b ELSE c + IndexMod - b)  BY <2>3, SubIs
  <2>5. Sub(c, b) = Sub(a, b) + n  BY <1>0, <1>1, <1>3, <2>2, <2>4
  <2> QED  BY <2>3, <2>5 DEF c
<1>4. ASSUME n <= Sub(a, b)
      PROVE  /\ (b + n) % IndexMod \in 0 .. IndexMod - 1
             /\ Sub(a, (b + n) % IndexMod) = Sub(a, b) - n
  <2>1. n \in 0 .. IndexMod  BY <1>0, <1>2, <1>4
  <2> DEFINE c == (b + n) % IndexMod
  <2>2. c = (IF b + n < IndexMod THEN b + n ELSE b + n - IndexMod)  BY <2>1, Moved
  <2> HIDE DEF c
  <2>3. c \in 0 .. IndexMod - 1  BY <1>0, <2>1, <2>2
  <2>4. Sub(a, c) = (IF a >= c THEN a - c ELSE a + IndexMod - c)  BY <2>3, SubIs
  <2>5. Sub(a, c) = Sub(a, b) - n  BY <1>0, <1>1, <1>4, <2>2, <2>4
  <2> QED  BY <2>3, <2>5 DEF c
<1> QED  BY <1>2, <1>3, <1>4

\* The place where the next byte goes is the one after the bytes queued.
LEMMA HeadPlace ==
    ASSUME ConstantsOK, NEW a \in 0 .. IndexMod - 1, NEW b \in 0 .. IndexMod - 1
    PROVE  (b + Sub(a, b)) % Size = a % Size
<1>0. /\ IndexMod \in Nat \ {0} /\ Size \in Nat \ {0}
      /\ IndexMod % Size = 0 /\ a \in Nat /\ b \in Nat
  BY DEF ConstantsOK
<1>1. Sub(a, b) = (IF a >= b THEN a - b ELSE a + IndexMod - b)  BY SubIs
<1>2. CASE a >= b
  <2>1. b + Sub(a, b) = a  BY <1>0, <1>1, <1>2
  <2> QED  BY <2>1
<1>3. CASE ~(a >= b)
  <2>1. b + Sub(a, b) = IndexMod + a  BY <1>0, <1>1, <1>3
  <2>2. (IndexMod + a) % Size = ((IndexMod % Size) + a) % Size  BY <1>0, ModShift
  <2>3. (IndexMod % Size) + a = a  BY <1>0
  <2> QED  BY <2>1, <2>2, <2>3
<1> QED  BY <1>2, <1>3
--------------------------------------------------------------------------------
\* What the two tasks keep between them.  The worker's part: what it writes fits, and the bytes
\* it has copied are in place, beyond what is queued.
WriterInv ==
    /\ msg \in Seq(Data)
    /\ msg # <<>> => Used + Len(msg) <= Mask
    /\ \A j \in 1 .. at : buf[(head + j - 1) % Size] = msg[j]

\* The net task's part: the run it peeked starts at the tail, and is queued.
ReaderInv == seen # Nothing => seen.pos = tail % Size /\ seen.len <= Used

RingInv == TypeOK /\ Used <= Mask /\ WriterInv /\ ReaderInv

\* The ring starts empty.
LEMMA RingInvInit == ASSUME ConstantsOK, Init PROVE RingInv
<1>1. Used = 0  BY SubIs DEF Used, Init, ConstantsOK
<1>2. TypeOK  BY DEF Init, TypeOK, Nothing, ConstantsOK, Mask
<1> QED  BY <1>1, <1>2 DEF Init, RingInv, WriterInv, ReaderInv, Mask, ConstantsOK

\* The facts about a state of the ring that every step below uses.
LEMMA RingFacts ==
    ASSUME ConstantsOK, RingInv
    PROVE  /\ Size \in Nat \ {0} /\ IndexMod \in Nat \ {0} /\ Size <= IndexMod
           /\ head \in 0 .. IndexMod - 1 /\ tail \in 0 .. IndexMod - 1
           /\ head \in Nat /\ tail \in Nat
           /\ Used \in 0 .. Size - 1 /\ Used \in Nat /\ Len(msg) \in Nat /\ at \in Nat
           /\ (tail + Used) % Size = head % Size
<1>1. Used \in 0 .. IndexMod - 1  BY UsedMoves DEF Used, RingInv, TypeOK
<1>2. (tail + Used) % Size = head % Size  BY HeadPlace DEF Used, RingInv, TypeOK
<1>3. Len(msg) \in Nat  BY DEF RingInv, WriterInv
<1> QED  BY <1>1, <1>2, <1>3 DEF Used, RingInv, TypeOK, ConstantsOK, Mask

\* conn_tx_write, one byte copied: its place holds neither a queued byte nor one copied before.
LEMMA CopyIsFree ==
    ASSUME ConstantsOK, RingInv, at < Len(msg)
    PROVE  /\ (head + at) % Size \in 0 .. Size - 1
           /\ \A i \in 1 .. Used : (tail + i - 1) % Size # (head + at) % Size
           /\ \A j \in 1 .. at : (head + j - 1) % Size # (head + at) % Size
<1>0. /\ Size \in Nat \ {0} /\ head \in Nat /\ tail \in Nat /\ at \in Nat
      /\ Used \in 0 .. Size - 1 /\ Used \in Nat /\ Len(msg) \in Nat
      /\ (tail + Used) % Size = head % Size
  BY RingFacts
<1>1. Used + Len(msg) <= Size - 1
  <2>1. msg # <<>>  BY <1>0 
  <2> QED  BY <2>1 DEF RingInv, WriterInv, Mask
<1>2. (head + at) % Size \in 0 .. Size - 1
  <2>1. head + at \in Nat  BY <1>0
  <2> QED  BY <1>0, <2>1, DivMod
<1>3. ASSUME NEW i \in 1 .. Used PROVE (tail + i - 1) % Size # (head + at) % Size
  <2> DEFINE x == tail + Used
  <2>0. x \in Nat /\ x % Size = head % Size  BY <1>0
  <2>1. (tail + Used + at) % Size = (head + at) % Size
    <3> HIDE DEF x
    <3>1. (x + at) % Size = ((x % Size) + at) % Size  BY <1>0, <2>0, ModShift
    <3>2. (head + at) % Size = ((head % Size) + at) % Size  BY <1>0, ModShift
    <3> QED  BY <2>0, <3>1, <3>2 DEF x
  <2>2. Used + at - i + 1 \in 1 .. Size - 1 /\ tail + i - 1 \in Nat  BY <1>0, <1>1
  <2>3. (tail + i - 1) + (Used + at - i + 1) = tail + Used + at  BY <1>0
  <2> QED  BY <1>0, <2>1, <2>2, <2>3, ModApart
<1>4. ASSUME NEW j \in 1 .. at PROVE (head + j - 1) % Size # (head + at) % Size
  <2>1. at - j + 1 \in 1 .. Size - 1 /\ head + j - 1 \in Nat  BY <1>0, <1>1
  <2>2. (head + j - 1) + (at - j + 1) = head + at  BY <1>0
  <2> QED  BY <1>0, <2>1, <2>2, ModApart
<1> QED  BY <1>2, <1>3, <1>4

\* conn_tx_write lets its bytes be seen all at once: the head moves over them.
LEMMA PublishMoves ==
    ASSUME ConstantsOK, RingInv, Publish
    PROVE  /\ head' \in 0 .. IndexMod - 1 /\ tail' = tail /\ buf' = buf
           /\ Used' = Used + Len(msg)
           /\ \A i \in 1 .. Used + Len(msg) :
                 buf[(tail + i - 1) % Size] =
                     IF i <= Used THEN Queued[i] ELSE msg[i - Used]
<1>0. /\ Size \in Nat \ {0} /\ head \in Nat /\ tail \in Nat /\ IndexMod \in Nat
      /\ Size <= IndexMod /\ Used \in 0 .. Size - 1 /\ Used \in Nat /\ Len(msg) \in Nat
      /\ (tail + Used) % Size = head % Size
      /\ head \in 0 .. IndexMod - 1 /\ tail \in 0 .. IndexMod - 1
  BY RingFacts
<1>1. Used + Len(msg) <= Size - 1  BY DEF RingInv, WriterInv, Mask, Publish
<1>2. head' \in 0 .. IndexMod - 1 /\ Sub(head', tail) = Used + Len(msg)
  <2>1. Sub(head, tail) + Len(msg) < IndexMod  BY <1>0, <1>1 DEF Used
  <2>2. /\ (head + Len(msg)) % IndexMod \in 0 .. IndexMod - 1
        /\ Sub((head + Len(msg)) % IndexMod, tail) = Sub(head, tail) + Len(msg)
    BY <1>0, <2>1, UsedMoves
  <2> QED  BY <1>0, <2>2 DEF Publish, Used
<1>3. Used' = Used + Len(msg)  BY <1>2 DEF Used, Publish, Sub
<1>4. ASSUME NEW i \in 1 .. Used + Len(msg), i > Used
      PROVE  buf[(tail + i - 1) % Size] = msg[i - Used]
  <2> DEFINE x == tail + Used
             e == i - Used - 1
  <2>1. at = Len(msg) /\ i \in Nat  BY <1>0 DEF Publish
  <2>2. x \in Nat /\ x % Size = head % Size  BY <1>0
  <2>3. e \in Nat /\ e + 1 \in 1 .. at  BY <1>0, <1>4, <2>1
  <2>4. x + e = tail + i - 1 /\ i - Used = e + 1 /\ head + (e + 1) - 1 = head + e  BY <1>0, <2>1
  <2> HIDE DEF x, e
  <2>5. (x + e) % Size = ((x % Size) + e) % Size  BY <1>0, <2>2, <2>3, ModShift
  <2>6. (head + e) % Size = ((head % Size) + e) % Size  BY <1>0, <2>3, ModShift
  <2>7. buf[(head + (e + 1) - 1) % Size] = msg[e + 1]  BY <2>3 DEF RingInv, WriterInv
  <2> QED  BY <2>2, <2>4, <2>5, <2>6, <2>7
<1>5. ASSUME NEW i \in 1 .. Used PROVE buf[(tail + i - 1) % Size] = Queued[i]
  BY DEF Queued
<1> QED  BY <1>0, <1>2, <1>3, <1>4, <1>5 DEF Publish

\* conn_tx_advance frees the bytes passed on; the ones behind them keep their places.
LEMMA AdvanceMoves ==
    ASSUME ConstantsOK, RingInv, NEW n \in 0 .. Size, Advance(n)
    PROVE  /\ n <= Used
           /\ tail' \in 0 .. IndexMod - 1 /\ head' = head /\ buf' = buf
           /\ Used' = Used - n
           /\ \A i \in 1 .. n : buf[seen.pos + i - 1] = Queued[i]
           /\ \A i \in 1 .. Used - n : buf[(tail' + i - 1) % Size] = Queued[n + i]
<1>0. /\ Size \in Nat \ {0} /\ head \in Nat /\ tail \in Nat /\ IndexMod \in Nat \ {0}
      /\ Size <= IndexMod /\ Used \in 0 .. Size - 1 /\ Used \in Nat /\ IndexMod % Size = 0
      /\ n \in Nat
      /\ head \in 0 .. IndexMod - 1 /\ tail \in 0 .. IndexMod - 1
  BY RingFacts DEF ConstantsOK
<1>1. /\ seen.pos = tail % Size /\ seen.len <= Used /\ seen.pos + seen.len <= Size
      /\ n <= seen.len /\ seen.pos \in Nat /\ seen.len \in Nat
  BY DEF RingInv, ReaderInv, TypeOK, Advance
<1>2. n <= Used  BY <1>0, <1>1
<1>3. tail' \in 0 .. IndexMod - 1 /\ Sub(head, tail') = Used - n
  <2>1. n <= Sub(head, tail)  BY <1>2 DEF Used
  <2>2. /\ (tail + n) % IndexMod \in 0 .. IndexMod - 1
        /\ Sub(head, (tail + n) % IndexMod) = Sub(head, tail) - n
    BY <1>0, <2>1, UsedMoves
  <2> QED  BY <2>2 DEF Advance, Used
<1>4. Used' = Used - n  BY <1>3 DEF Used, Advance, Sub
<1>5. ASSUME NEW i \in 1 .. n PROVE buf[seen.pos + i - 1] = Queued[i]
  <2>1. i - 1 \in Nat /\ (tail % Size) + (i - 1) < Size  BY <1>0, <1>1
  <2>2. (tail + (i - 1)) % Size = (tail % Size) + (i - 1)  BY <1>0, <2>1, ModWithin
  <2>3. Queued[i] = buf[(tail + i - 1) % Size]  BY <1>0, <1>2 DEF Queued
  <2>4. tail + (i - 1) = tail + i - 1 /\ (tail % Size) + (i - 1) = seen.pos + i - 1
    BY <1>0, <1>1
  <2> QED  BY <2>2, <2>3, <2>4
<1>6. ASSUME NEW i \in 1 .. Used - n PROVE buf[(tail' + i - 1) % Size] = Queued[n + i]
  <2> DEFINE x == tail + n
             e == i - 1
  <2>1. x \in Nat /\ e \in Nat /\ tail' \in Nat /\ n + i \in 1 .. Used  BY <1>0, <1>2, <1>3
  <2>2. tail' % Size = x % Size  BY <1>0, <2>1, ModNested DEF Advance
  <2>3. tail' + e = tail' + i - 1 /\ x + e = tail + (n + i) - 1  BY <1>0, <2>1
  <2>4. Queued[n + i] = buf[(tail + (n + i) - 1) % Size]  BY <2>1 DEF Queued
  <2> HIDE DEF x, e
  <2>5. (tail' + e) % Size = ((tail' % Size) + e) % Size  BY <1>0, <2>1, ModShift
  <2>6. (x + e) % Size = ((x % Size) + e) % Size  BY <1>0, <2>1, ModShift
  <2> QED  BY <2>2, <2>3, <2>4, <2>5, <2>6
<1> QED  BY <1>2, <1>3, <1>4, <1>5, <1>6 DEF Advance

\* The invariant survives every step of either task.
LEMMA RingInvStep == ASSUME ConstantsOK, RingInv, [Next]_vars PROVE RingInv'
<1>0. /\ Size \in Nat \ {0} /\ IndexMod \in Nat \ {0} /\ Size <= IndexMod
      /\ head \in 0 .. IndexMod - 1 /\ tail \in 0 .. IndexMod - 1
      /\ head \in Nat /\ tail \in Nat
      /\ Used \in 0 .. Size - 1 /\ Used \in Nat /\ Len(msg) \in Nat /\ at \in Nat
  BY RingFacts
<1>1. ASSUME NEW s \in UNION {[1 .. n -> Data] : n \in 1 .. Size}, Write(s) PROVE RingInv'
  <2>1. s \in Seq(Data) /\ Len(s) \in Nat  OBVIOUS
  <2>2. Used' = Used  BY <1>1 DEF Write, Used, Sub
  <2>3. Used + Len(s) <= Mask /\ Len(s) <= Mask  BY <1>0, <1>1, <2>1 DEF Write, Free, Mask
  <2>4. TypeOK'  BY <1>0, <1>1, <2>1, <2>3 DEF Write, RingInv, TypeOK, Mask
  <2>5. WriterInv'  BY <1>0, <1>1, <2>1, <2>2, <2>3 DEF Write, WriterInv, Mask
  <2>6. ReaderInv'  BY <1>1, <2>2 DEF Write, RingInv, ReaderInv, Nothing
  <2> QED  BY <2>2, <2>4, <2>5, <2>6 DEF RingInv, Mask
<1>2. CASE Copy
  <2>1. /\ (head + at) % Size \in 0 .. Size - 1
        /\ \A j \in 1 .. at : (head + j - 1) % Size # (head + at) % Size
    BY <1>2, CopyIsFree DEF Copy
  <2>2. Used' = Used  BY <1>2 DEF Copy, Used, Sub
  <2>3. msg \in Seq(Data) /\ msg[at + 1] \in Data  BY <1>0, <1>2 DEF Copy, RingInv, WriterInv
  <2>4. TypeOK'  BY <1>0, <1>2, <2>1, <2>3 DEF Copy, RingInv, TypeOK, Mask
  <2>5. ASSUME NEW j \in 1 .. at' PROVE buf'[(head' + j - 1) % Size] = msg'[j]
    <3>1. CASE j = at + 1
      <4>1. (head + j - 1) = head + at  BY <1>0, <3>1
      <4> QED  BY <1>2, <2>1, <3>1, <4>1 DEF Copy, RingInv, TypeOK
    <3>2. CASE j # at + 1
      <4>1. j \in 1 .. at  BY <1>0, <1>2, <3>2 DEF Copy
      <4>2. buf[(head + j - 1) % Size] = msg[j]  BY <4>1 DEF RingInv, WriterInv
      <4>3. (head + j - 1) % Size \in 0 .. Size - 1
        <5>1. head + j - 1 \in Nat  BY <1>0, <4>1
        <5> QED  BY <1>0, <5>1, DivMod
      <4> QED  BY <1>2, <2>1, <4>1, <4>2, <4>3 DEF Copy, RingInv, TypeOK
    <3> QED  BY <3>1, <3>2
  <2>6. WriterInv'  BY <1>2, <2>2, <2>5 DEF Copy, RingInv, WriterInv, Mask
  <2>7. ReaderInv'  BY <1>2, <2>2 DEF Copy, RingInv, ReaderInv, Nothing
  <2> QED  BY <2>2, <2>4, <2>6, <2>7 DEF RingInv, Mask
<1>3. CASE Publish
  <2>1. head' \in 0 .. IndexMod - 1 /\ Used' = Used + Len(msg)  BY <1>3, PublishMoves
  <2>2. Used' <= Mask  BY <1>3, <2>1 DEF Publish, RingInv, WriterInv
  <2>3. TypeOK'  BY <1>0, <1>3, <2>1 DEF Publish, RingInv, TypeOK, Mask
  <2>4. WriterInv'  BY <1>3 DEF Publish, RingInv, WriterInv
  <2>5. ReaderInv'
    <3>1. seen # Nothing => seen.len <= Used + Len(msg)  BY <1>0 DEF RingInv, ReaderInv, TypeOK
    <3> QED  BY <1>3, <2>1, <3>1 DEF Publish, RingInv, ReaderInv, Nothing
  <2> QED  BY <2>2, <2>3, <2>4, <2>5 DEF RingInv, Mask
<1>4. CASE Peek
  <2>1. Used' = Used  BY <1>4 DEF Peek, Used, Sub
  <2>2. tail % Size \in 0 .. Size - 1  BY <1>0, DivMod
  <2>3. seen'.pos = tail % Size /\ seen'.len \in 0 .. Size /\ seen'.len <= Used
        /\ seen'.pos + seen'.len <= Size /\ seen' \in [pos : 0 .. Size - 1, len : 0 .. Size]
    BY <1>0, <1>4, <2>2 DEF Peek
  <2>4. TypeOK'  BY <1>4, <2>3 DEF Peek, RingInv, TypeOK, Mask
  <2>5. WriterInv'  BY <1>4, <2>1 DEF Peek, RingInv, WriterInv, Mask
  <2>6. ReaderInv'  BY <1>4, <2>1, <2>3 DEF Peek, ReaderInv
  <2> QED  BY <2>1, <2>4, <2>5, <2>6 DEF RingInv, Mask
<1>5. CASE Reset
  <2>1. Used' = 0  BY <1>0, <1>5, SubIs DEF Reset, Used
  <2>2. TypeOK'  BY <1>5 DEF Reset, RingInv, TypeOK, Mask
  <2>3. WriterInv'
    <3>1. msg # <<>> => 0 + Len(msg) <= Mask  BY <1>0 DEF RingInv, WriterInv, Mask
    <3> QED  BY <1>5, <2>1, <3>1 DEF Reset, RingInv, WriterInv, Mask
  <2>4. ReaderInv'  BY <1>5 DEF Reset, ReaderInv, Nothing
  <2> QED  BY <1>0, <2>1, <2>2, <2>3, <2>4 DEF RingInv, Mask
<1>6. ASSUME NEW n \in 0 .. Size, Advance(n) PROVE RingInv'
  <2>1. tail' \in 0 .. IndexMod - 1 /\ Used' = Used - n /\ n <= Used  BY <1>6, AdvanceMoves
  <2>2. Used' <= Used  BY <1>0, <2>1
  <2>3. seen' \in [pos : 0 .. Size - 1, len : 0 .. Size] /\ seen'.pos + seen'.len <= Size
    BY <1>0, <1>6 DEF Advance, Nothing
  <2>4. TypeOK'  BY <1>6, <2>1, <2>3 DEF Advance, RingInv, TypeOK, Mask
  <2>5. WriterInv'
    <3>1. msg # <<>> => Used' + Len(msg) <= Mask  BY <1>0, <2>1 DEF RingInv, WriterInv, Mask
    <3> QED  BY <1>6, <3>1 DEF Advance, RingInv, WriterInv, Mask
  <2>6. ReaderInv'  BY <1>6 DEF Advance, ReaderInv, Nothing
  <2> QED  BY <1>0, <2>1, <2>4, <2>5, <2>6 DEF RingInv, Mask
<1>7. CASE UNCHANGED vars
  BY <1>7 DEF vars, RingInv, TypeOK, WriterInv, ReaderInv, Used, Sub, Mask, Nothing
<1> QED  BY <1>1, <1>2, <1>3, <1>4, <1>5, <1>6, <1>7 DEF Next

\* conn_tx.c: in every state of the ring.
LEMMA RingInvariant == MCSpec => []RingInv
<1>1. MCInit => RingInv  BY Assumptions, RingInvInit DEF MCInit
<1>2. RingInv /\ [Next]_vars => RingInv'  BY Assumptions, RingInvStep
<1>3. [MCNext]_mcVars => [Next]_vars  BY DEF MCNext, Rest, mcVars
<1> QED  BY <1>1, <1>2, <1>3, PTL DEF MCSpec

\* What is queued is a sequence of the length conn_tx_used gives.
LEMMA QueuedIsSeq ==
    ASSUME ConstantsOK, RingInv
    PROVE  /\ Queued \in Seq(Data) /\ Len(Queued) = Used /\ DOMAIN Queued = 1 .. Used
           /\ \A i \in 1 .. Used : Queued[i] = buf[(tail + i - 1) % Size]
<1>0. Size \in Nat \ {0} /\ tail \in Nat /\ Used \in Nat  BY RingFacts
<1>1. ASSUME NEW i \in 1 .. Used PROVE buf[(tail + i - 1) % Size] \in Data
  <2>1. tail + i - 1 \in Nat  BY <1>0
  <2>2. (tail + i - 1) % Size \in 0 .. Size - 1  BY <1>0, <2>1, DivMod
  <2> QED  BY <2>2 DEF RingInv, TypeOK
<1>2. Queued \in [1 .. Used -> Data]  BY <1>1 DEF Queued
<1>3. \A i \in 1 .. Used : Queued[i] = buf[(tail + i - 1) % Size]  BY DEF Queued
<1> HIDE DEF Queued
<1>4. Queued \in Seq(Data)  BY <1>0, <1>2
<1>5. DOMAIN Queued = 1 .. Used  BY <1>2
<1>6. Len(Queued) = Used  BY <1>0, <1>4, <1>5
<1> QED  BY <1>3, <1>4, <1>5, <1>6

\* Every step of the ring is a step of the abstract queue, or none.
LEMMA RingSimulates ==
    ASSUME ConstantsOK, RingInv, RingInv', [Next]_vars
    PROVE  [Fifo!Next]_(Fifo!vars)
<1>0. /\ Size \in Nat \ {0} /\ head \in Nat /\ tail \in Nat
      /\ Used \in 0 .. Size - 1 /\ Used \in Nat /\ Len(msg) \in Nat /\ at \in Nat
      /\ msg \in Seq(Data) /\ Mask \in Nat /\ Used <= Mask
  BY RingFacts DEF RingInv, WriterInv, Mask
<1>q. /\ Queued \in Seq(Data) /\ Len(Queued) = Used /\ DOMAIN Queued = 1 .. Used
      /\ \A i \in 1 .. Used : Queued[i] = buf[(tail + i - 1) % Size]
  BY QueuedIsSeq
<1>r. Queued' = [i \in 1 .. Used' |-> buf'[(tail' + i - 1) % Size]]  BY DEF Queued
<1>1. ASSUME NEW s \in UNION {[1 .. n -> Data] : n \in 1 .. Size}, Write(s) PROVE Fifo!Next
  <2>1. s \in Seq(Data) /\ Len(s) \in 1 .. Mask /\ s \in [1 .. Len(s) -> Data]
    BY <1>0, <1>1 DEF Write, Free, Mask
  <2>2. Queued' = Queued  BY <1>1 DEF Write, Queued, Used, Sub
  <2>3. Len(Queued) + Len(s) <= Mask
    <3>1. Len(s) <= Mask - Used  BY <1>1 DEF Write, Free
    <3>2. Len(s) \in Nat  OBVIOUS
    <3>3. Used + Len(s) <= Mask  BY <1>0, <3>1, <3>2
    <3> QED  BY <1>q, <3>3
  <2>4. Fifo!Offer(s)  BY <1>1, <2>2, <2>3 DEF Write, Fifo!Offer
  <2> QED  BY <2>1, <2>4 DEF Fifo!Next
<1>2. CASE Copy
  <2>1. /\ (head + at) % Size \in 0 .. Size - 1
        /\ \A i \in 1 .. Used : (tail + i - 1) % Size # (head + at) % Size
    BY <1>2, CopyIsFree DEF Copy
  <2>2. Used' = Used  BY <1>2 DEF Copy, Used, Sub
  <2>3. ASSUME NEW i \in 1 .. Used PROVE buf'[(tail' + i - 1) % Size] = buf[(tail + i - 1) % Size]
    <3>1. tail + i - 1 \in Nat  BY <1>0
    <3>2. (tail + i - 1) % Size \in 0 .. Size - 1  BY <1>0, <3>1, DivMod
    <3> QED  BY <1>2, <2>1, <3>2 DEF Copy, RingInv, TypeOK
  <2>4. Queued' = Queued  BY <2>2, <2>3 DEF Queued
  <2> QED  BY <1>2, <2>4 DEF Copy, Fifo!vars
<1>3. CASE Publish
  <2>1. /\ tail' = tail /\ buf' = buf /\ Used' = Used + Len(msg)
        /\ \A i \in 1 .. Used + Len(msg) :
              buf[(tail + i - 1) % Size] = IF i <= Used THEN Queued[i] ELSE msg[i - Used]
    BY <1>3, PublishMoves
  <2>2. Queued' = [i \in 1 .. Used + Len(msg) |-> IF i <= Used THEN Queued[i] ELSE msg[i - Used]]
    BY <1>r, <2>1
  <2>3. Queued' = Queued \o msg
    <3>1. /\ Queued \o msg \in Seq(Data) /\ Len(Queued \o msg) = Used + Len(msg)
          /\ \A i \in 1 .. Used + Len(msg) :
                (Queued \o msg)[i] = IF i <= Used THEN Queued[i] ELSE msg[i - Used]
      BY <1>0, <1>q
    <3> DEFINE c == Queued \o msg
    <3> HIDE DEF c
    <3>2. c \in Seq(Data) /\ Len(c) = Used + Len(msg)  BY <3>1 DEF c
    <3>3. c \in [1 .. Used + Len(msg) -> Data]  BY <3>2
    <3>4. c = [i \in 1 .. Used + Len(msg) |-> c[i]]  BY <3>3
    <3>5. c = Queued'  BY <2>2, <3>1, <3>4 DEF c
    <3> QED  BY <3>5 DEF c
  <2>4. Fifo!Accept  BY <1>3, <2>3 DEF Publish, Fifo!Accept
  <2> QED  BY <2>4 DEF Fifo!Next
<1>4. CASE Peek
  <2>1. Queued' = Queued  BY <1>4 DEF Peek, Queued, Used, Sub
  <2> QED  BY <1>4, <2>1 DEF Peek, Fifo!vars
<1>5. CASE Reset
  <2>1. Used' = 0
    <3>1. head \in 0 .. IndexMod - 1 /\ IndexMod \in Nat  BY RingFacts
    <3> QED  BY <1>5, <3>1, SubIs DEF Reset, Used
  <2>2. Queued' = <<>>  BY <1>r, <2>1
  <2>3. Fifo!Reset  BY <1>5, <2>2 DEF Reset, Fifo!Reset
  <2> QED  BY <2>3 DEF Fifo!Next
<1>6. ASSUME NEW n \in 0 .. Size, Advance(n) PROVE Fifo!Next
  <2>1. /\ n <= Used /\ buf' = buf /\ Used' = Used - n
        /\ \A i \in 1 .. n : buf[seen.pos + i - 1] = Queued[i]
        /\ \A i \in 1 .. Used - n : buf[(tail' + i - 1) % Size] = Queued[n + i]
    BY <1>6, AdvanceMoves
  <2>2. got' = [i \in 1 .. n |-> Queued[i]]  BY <1>6, <2>1 DEF Advance
  <2>3. Queued' = [i \in 1 .. Used - n |-> Queued[n + i]]  BY <1>r, <2>1
  <2>4. got' = SubSeq(Queued, 1, n)  BY <1>0, <1>q, <2>1, <2>2
  <2>5. Queued' = SubSeq(Queued, n + 1, Len(Queued))  BY <1>0, <1>q, <2>1, <2>3
  <2>6. Fifo!Take(n)  BY <1>6, <1>q, <2>1, <2>4, <2>5 DEF Advance, Fifo!Take
  <2>7. n \in 0 .. Mask  BY <1>0, <2>1
  <2> QED  BY <2>6, <2>7 DEF Fifo!Next
<1>7. CASE UNCHANGED vars
  <2>1. Queued' = Queued  BY <1>7 DEF vars, Queued, Used, Sub
  <2> QED  BY <1>7, <2>1 DEF vars, Fifo!vars
<1> QED  BY <1>1, <1>2, <1>3, <1>4, <1>5, <1>6, <1>7 DEF Next

\* conn_tx.c is the bounded queue of bytes conn_tx.h promises, for every size of the ring and
\* every width of the indices: whole writes, each byte once and in order, whichever of the
\* buffer and the indices wraps, and wherever one task interrupts the other (RefinesFifo).
THEOREM RingIsFifo == MCSpec => RefinesFifo
<1>1. MCInit => Fifo!Init
  <2> SUFFICES ASSUME MCInit PROVE Fifo!Init
    OBVIOUS
  <2>1. Used = 0  BY Assumptions, SubIs DEF Used, MCInit, Init, ConstantsOK
  <2>2. Queued = <<>>  BY <2>1 DEF Queued
  <2> QED  BY <2>2 DEF MCInit, Init, Fifo!Init
<1>2. RingInv /\ RingInv' /\ [Next]_vars => [Fifo!Next]_(Fifo!vars)
  BY Assumptions, RingSimulates
<1>3. [MCNext]_mcVars => [Next]_vars  BY DEF MCNext, Rest, mcVars
<1> QED  BY <1>1, <1>2, <1>3, RingInvariant, PTL DEF MCSpec, RefinesFifo, Fifo!Spec
--------------------------------------------------------------------------------
\* The lease ends term ticks from now; one that is over is found so by the next run of the net task.
LeaseInv ==
    /\ now \in 0 .. W - 1 /\ s_deadline_ms \in 0 .. W - 1 /\ lag \in 0 .. MaxLag
    /\ s_held \in BOOLEAN /\ term \in 0 .. LeaseMax
    /\ ~s_held => term = 0
    /\ s_held /\ term > 0 => s_deadline_ms = (now + term) % W
    /\ s_held /\ term = 0 => \E over \in 0 .. lag : now = (s_deadline_ms + over) % W

\* There is only one remainder, of a negative number too.
LEMMA RemainderIs ==
    ASSUME NEW S \in Nat \ {0}, NEW q \in Int, NEW x \in 0 .. S - 1
    PROVE  (S * q + x) % S = x
  OBVIOUS

\* The width of the tick, and half of it.
LEMMA TickWidth == /\ W \in Nat \ {0} /\ LeaseMax \in Nat \ {0} /\ MaxLag \in Nat \ {0}
                   /\ W \div 2 \in Nat /\ W = 2 * (W \div 2) /\ LeaseMax < W \div 2 /\ MaxLag < W \div 2
<1>1. /\ W \in Nat \ {0} /\ LeaseMax \in Nat \ {0} /\ MaxLag \in Nat \ {0}
      /\ W % 2 = 0 /\ LeaseMax < W \div 2 /\ MaxLag < W \div 2
  BY Assumptions DEF Lease!ConstantsOK
<1>2. W \div 2 \in Nat /\ W = 2 * (W \div 2) + (W % 2)  BY <1>1, DivMod
<1> QED  BY <1>1, <1>2

\* HAL_GetTick wraps at most once within a lease.
LEMMA TickAfter ==
    ASSUME NEW a \in 0 .. W - 1, NEW n \in 0 .. W
    PROVE  (a + n) % W = (IF a + n < W THEN a + n ELSE a + n - W)
<1>0. W \in Nat \ {0}  BY TickWidth
<1>1. CASE a + n < W
  <2>1. W * 0 + (a + n) = a + n /\ a + n \in 0 .. W - 1  BY <1>0, <1>1
  <2> QED  BY <1>0, <1>1, <2>1, RemainderIs
<1>2. CASE a + n >= W
  <2>1. W * 1 + (a + n - W) = a + n /\ a + n - W \in 0 .. W - 1  BY <1>0, <1>2
  <2> QED  BY <1>0, <1>2, <2>1, RemainderIs
<1> QED  BY <1>0, <1>1, <1>2

\* A time between now and the end of a term that fits half the tick reads back as a distance to it.
LEMMA TickBetween ==
    ASSUME NEW a \in 0 .. W - 1, NEW b \in 0 .. W - 1
    PROVE  (a - b) % W = (IF a >= b THEN a - b ELSE a - b + W)
<1>0. W \in Nat \ {0}  BY TickWidth
<1>1. CASE a >= b
  <2>1. W * 0 + (a - b) = a - b /\ a - b \in 0 .. W - 1  BY <1>0, <1>1
  <2> QED  BY <1>0, <1>1, <2>1, RemainderIs
<1>2. CASE ~(a >= b)
  <2>1. W * (-1) + (a - b + W) = a - b /\ a - b + W \in 0 .. W - 1 /\ -1 \in Int  BY <1>0, <1>2
  <2> QED  BY <1>0, <1>2, <2>1, RemainderIs
<1> QED  BY <1>0, <1>1, <1>2

\* The signed distance is the term, or how long ago the lease ended.
LEMMA LeftIsTerm ==
    ASSUME LeaseInv, s_held
    PROVE  IF term > 0 THEN Lease!Left = term ELSE Lease!Left <= 0
<1> DEFINE H == W \div 2   d == (s_deadline_ms - now) % W
<1>0. /\ W \in Nat /\ H \in Nat /\ W = 2 * H /\ LeaseMax < H /\ MaxLag < H
      /\ LeaseMax \in Nat /\ MaxLag \in Nat
  BY TickWidth
<1>1. now \in 0 .. W - 1 /\ s_deadline_ms \in 0 .. W - 1 /\ lag \in 0 .. MaxLag /\ term \in 0 .. LeaseMax
  BY DEF LeaseInv
<1>2. d = (IF s_deadline_ms >= now THEN s_deadline_ms - now ELSE s_deadline_ms - now + W)
  BY <1>1, TickBetween
<1>3. Lease!Left = (IF d >= H THEN d - W ELSE d)  BY DEF Lease!Left
<1> HIDE DEF H, d
<1>4. CASE term > 0
  <2>1. s_deadline_ms = (now + term) % W  BY <1>4 DEF LeaseInv
  <2>2. term \in 0 .. W  BY <1>0, <1>1
  <2>3. s_deadline_ms = (IF now + term < W THEN now + term ELSE now + term - W)
    BY <1>1, <2>1, <2>2, TickAfter
  <2> QED  BY <1>0, <1>1, <1>2, <1>3, <1>4, <2>3
<1>5. CASE term = 0
  <2>1. PICK over \in 0 .. lag : now = (s_deadline_ms + over) % W  BY <1>5 DEF LeaseInv
  <2>2. over \in 0 .. W /\ over <= MaxLag  BY <1>0, <1>1
  <2>3. now = (IF s_deadline_ms + over < W THEN s_deadline_ms + over ELSE s_deadline_ms + over - W)
    BY <1>1, <2>1, <2>2, TickAfter
  <2> QED  BY <1>0, <1>1, <1>2, <1>3, <1>5, <2>2, <2>3
<1> QED  BY <1>1, <1>4, <1>5

\* lease_gate_clear keeps the invariant.
LEMMA LeaseCleared ==
    ASSUME LeaseInv, s_held' = FALSE, term' = 0, s_deadline_ms' = s_deadline_ms, now' = now,
           lag' = lag \/ lag' = 0
    PROVE  LeaseInv'
<1>1. lag' \in 0 .. MaxLag /\ term' \in 0 .. LeaseMax  BY TickWidth DEF LeaseInv
<1>2. now' \in 0 .. W - 1 /\ s_deadline_ms' \in 0 .. W - 1  BY DEF LeaseInv
<1>3. s_held' \in BOOLEAN /\ ~s_held'  OBVIOUS
<1> QED  BY <1>1, <1>2, <1>3 DEF LeaseInv

\* lease_gate_update: a new term begins now.
LEMMA LeaseGranted ==
    ASSUME LeaseInv, NEW n \in 1 .. LeaseMax, s_held' = TRUE, term' = n, s_deadline_ms' = (now + n) % W,
           now' = now, lag' = lag
    PROVE  LeaseInv'
<1>0. W \in Nat \ {0} /\ LeaseMax \in Nat  BY TickWidth
<1>1. now \in 0 .. W - 1 /\ lag \in 0 .. MaxLag  BY DEF LeaseInv
<1>2. now + n \in Nat  BY <1>0, <1>1
<1>3. (now + n) % W \in 0 .. W - 1  BY <1>0, <1>2, DivMod
<1>4. n \in 0 .. LeaseMax /\ n # 0  BY <1>0
<1>5. s_held' /\ s_held' \in BOOLEAN  OBVIOUS
<1> QED  BY <1>1, <1>3, <1>4, <1>5 DEF LeaseInv

\* lease_gate.c: frames, ticks, the net task's expiry and a dropped link keep the invariant.
LEMMA LeaseInvStep ==
    ASSUME LeaseInv, [Lease!Next]_leaseVars
    PROVE  LeaseInv'
<1>0. /\ W \in Nat \ {0} /\ LeaseMax \in Nat \ {0} /\ MaxLag \in Nat \ {0} /\ W \div 2 \in Nat
      /\ W = 2 * (W \div 2) /\ LeaseMax < W \div 2 /\ MaxLag < W \div 2
  BY TickWidth
<1>1. /\ now \in 0 .. W - 1 /\ s_deadline_ms \in 0 .. W - 1 /\ lag \in 0 .. MaxLag
      /\ s_held \in BOOLEAN /\ term \in 0 .. LeaseMax
  BY DEF LeaseInv
<1>2. CASE Lease!LeaseFrame
  <2>1. PICK held \in BOOLEAN, s \in {0, 1, LeaseMax, W \div 2 + 1} :
          IF ~held \/ s = 0 THEN Lease!LeaseClear
          ELSE /\ s_held' = TRUE /\ s_deadline_ms' = (now + Lease!CappedTerm(s)) % W
               /\ term' = Lease!CappedTerm(s)
    BY <1>2 DEF Lease!LeaseFrame
  <2>2. now' = now /\ lag' = lag  BY <1>2 DEF Lease!LeaseFrame
  <2>3. CASE ~held \/ s = 0
    BY <2>1, <2>2, <2>3, LeaseCleared DEF Lease!LeaseClear
  <2>4. CASE held /\ s # 0
    <3>1. Lease!CappedTerm(s) \in 1 .. LeaseMax  BY <1>0, <2>4 DEF Lease!CappedTerm
    <3>2. ~(~held \/ s = 0)  BY <2>4
    <3>3. s_held' = TRUE  BY <2>1, <3>2
    <3>4. term' = Lease!CappedTerm(s) /\ s_deadline_ms' = (now + Lease!CappedTerm(s)) % W  BY <2>1, <3>2
    <3> HIDE DEF Lease!CappedTerm
    <3> QED  BY <2>2, <3>1, <3>3, <3>4, LeaseGranted
  <2> QED  BY <2>3, <2>4
<1>3. CASE Lease!LinkDown
  BY <1>3, LeaseCleared DEF Lease!LinkDown, Lease!LeaseClear
<1>4. CASE Lease!Tick
  <2>1. /\ lag' = lag + 1 /\ lag < MaxLag /\ now' = (now + 1) % W
        /\ term' = (IF term > 0 THEN term - 1 ELSE 0) /\ s_held' = s_held /\ s_deadline_ms' = s_deadline_ms
    BY <1>4 DEF Lease!Tick
  <2>2. lag' \in 0 .. MaxLag /\ term' \in 0 .. LeaseMax  BY <1>0, <1>1, <2>1
  <2>3. 1 \in 0 .. W  BY <1>0
  <2>4. now' = (IF now + 1 < W THEN now + 1 ELSE now + 1 - W)  BY <1>1, <2>1, <2>3, TickAfter
  <2>5. now' \in 0 .. W - 1  BY <1>0, <1>1, <2>4
  <2>6. ASSUME s_held, term > 1 PROVE s_deadline_ms = (now' + term') % W
    <3>1. term \in 0 .. W /\ term' \in 0 .. W /\ term' = term - 1  BY <1>0, <1>1, <2>1, <2>6
    <3>2. s_deadline_ms = (now + term) % W  BY <2>6, <1>1 DEF LeaseInv
    <3>3. s_deadline_ms = (IF now + term < W THEN now + term ELSE now + term - W)
      BY <1>1, <3>1, <3>2, TickAfter
    <3>4. (now' + term') % W = (IF now' + term' < W THEN now' + term' ELSE now' + term' - W)
      BY <2>5, <3>1, TickAfter
    <3> QED  BY <1>0, <1>1, <2>4, <2>6, <3>1, <3>3, <3>4
  <2>7. ASSUME s_held, term = 1 PROVE now' = (s_deadline_ms + 0) % W
    <3>1. s_deadline_ms = now'  BY <1>1, <2>1, <2>7 DEF LeaseInv
    <3>2. 0 \in 0 .. W  BY <1>0
    <3>3. (s_deadline_ms + 0) % W = (IF s_deadline_ms + 0 < W THEN s_deadline_ms + 0 ELSE s_deadline_ms + 0 - W)
      BY <1>1, <3>2, TickAfter
    <3>4. (s_deadline_ms + 0) % W = s_deadline_ms  BY <1>0, <1>1, <3>3
    <3> QED  BY <3>1, <3>4
  <2>8. ASSUME s_held, term = 0 PROVE \E over \in 0 .. lag' : now' = (s_deadline_ms + over) % W
    <3>1. PICK over \in 0 .. lag : now = (s_deadline_ms + over) % W  BY <2>8 DEF LeaseInv
    <3>2. over \in 0 .. W /\ over + 1 \in 0 .. W /\ over + 1 \in 0 .. lag'  BY <1>0, <1>1, <2>1
    <3>3. now = (IF s_deadline_ms + over < W THEN s_deadline_ms + over ELSE s_deadline_ms + over - W)
      BY <1>1, <3>1, <3>2, TickAfter
    <3>4. (s_deadline_ms + (over + 1)) % W
            = (IF s_deadline_ms + (over + 1) < W THEN s_deadline_ms + (over + 1) ELSE s_deadline_ms + (over + 1) - W)
      BY <1>1, <3>2, TickAfter
    <3>5. now' = (s_deadline_ms + (over + 1)) % W  BY <1>0, <1>1, <2>4, <3>2, <3>3, <3>4
    <3> QED  BY <3>2, <3>5
  <2>9. ASSUME s_held, term' = 0 PROVE \E over \in 0 .. lag' : now' = (s_deadline_ms + over) % W
    <3>1. CASE term = 0  BY <2>8, <2>9, <3>1
    <3>2. CASE term = 1  BY <1>1, <2>1, <2>2, <2>7, <2>9, <3>2
    <3> QED  BY <1>1, <2>1, <2>9, <3>1, <3>2
  <2>10. ASSUME s_held, term' > 0 PROVE s_deadline_ms = (now' + term') % W
    <3>1. term > 1  BY <1>1, <2>1, <2>10
    <3> QED  BY <2>6, <2>10, <3>1
  <2>11. ~s_held => term' = 0  BY <1>1, <2>1 DEF LeaseInv
  <2> QED  BY <1>1, <2>1, <2>2, <2>5, <2>9, <2>10, <2>11 DEF LeaseInv
<1>5. CASE Lease!Expire
  <2>1. CASE s_held /\ Lease!Left <= 0
    BY <1>5, <2>1, LeaseCleared DEF Lease!Expire, Lease!LeaseClear
  <2>2. CASE ~(s_held /\ Lease!Left <= 0)
    <3>1. s_held' = s_held /\ s_deadline_ms' = s_deadline_ms /\ term' = term /\ lag' = 0 /\ now' = now
      BY <1>5, <2>2 DEF Lease!Expire
    <3>2. ~(s_held /\ term = 0)  BY <1>1, <2>2, LeftIsTerm
    <3> QED  BY <1>0, <1>1, <3>1, <3>2 DEF LeaseInv
  <2> QED  BY <2>1, <2>2
<1>6. CASE UNCHANGED leaseVars
  BY <1>6 DEF LeaseInv, leaseVars
<1> QED  BY <1>2, <1>3, <1>4, <1>5, <1>6 DEF Lease!Next, Lease!leVars, leaseVars

\* lease_gate.c, for any width of the tick: a LAN client is shut out for as long as the lease it was
\* given, and no longer.
THEOREM LeaseIsTrue == MCSpec => []Lease!LeaseTrue
<1>1. MCInit => LeaseInv
  <2> SUFFICES ASSUME MCInit PROVE LeaseInv
    OBVIOUS
  <2>1. now \in 0 .. W - 1 /\ lag = 0 /\ s_held = FALSE /\ s_deadline_ms = 0 /\ term = 0
    BY DEF MCInit, Lease!Init
  <2>2. s_deadline_ms \in 0 .. W - 1 /\ lag \in 0 .. MaxLag /\ term \in 0 .. LeaseMax
    BY <2>1, TickWidth
  <2> QED  BY <2>1, <2>2 DEF LeaseInv
<1>2. [MCNext]_mcVars => [Lease!Next]_leaseVars  BY DEF MCNext, Rest, mcVars
<1>3. LeaseInv => Lease!LeaseTrue
  <2> SUFFICES ASSUME LeaseInv PROVE Lease!LeaseTrue
    OBVIOUS
  <2>1. term \in Nat /\ (~s_held => term = 0)  BY TickWidth DEF LeaseInv
  <2>2. CASE s_held
    <3>1. IF term > 0 THEN Lease!Left = term ELSE Lease!Left <= 0  BY <2>2, LeftIsTerm
    <3>2. Lease!Left \in Int
      <4> USE DEF Lease!Left
      <4>1. now \in Int /\ s_deadline_ms \in Int /\ W \in Nat \ {0}  BY TickWidth DEF LeaseInv
      <4>2. (s_deadline_ms - now) % W \in Int  BY <4>1
      <4> QED  BY <4>1, <4>2
    <3> QED  BY <2>1, <2>2, <3>1, <3>2 DEF Lease!LeaseTrue, Lease!LeaseActive
  <2>3. CASE ~s_held
    BY <2>1, <2>3 DEF Lease!LeaseTrue, Lease!LeaseActive
  <2> QED  BY <2>2, <2>3
<1> QED  BY <1>1, <1>2, <1>3, LeaseInvStep, PTL DEF MCSpec
--------------------------------------------------------------------------------
\* What a command may not do with the policy it changes.
Tightens(new, old, src) ==
    /\ \A f \in {"sig", "lan", "usb_net_off", "https_only"} : new[f] < old[f] => src # "lan"
    /\ new.sig < old.sig => src = "console"

\* A record that is stored, or about to be, is the one in force but for what the command may change.
PolicyInv ==
    /\ s_rec \in Policy!Fields /\ Policy!Load(flash) \in Policy!Fields
    /\ setting \in [pc : {"none", "save", "stored", "hook"}, rec : Policy!Fields,
                    field : {"sig", "lan", "usb_net_off", "https_only"}, src : Policy!Sources]
    /\ setting.pc \in {"save", "stored"} => Tightens(setting.rec, s_rec, setting.src)
    /\ setting.pc = "stored" => Policy!Load(flash) = setting.rec
    /\ Policy!PolicyDurable

\* pod_policy_load changes no record this firmware stores.
LEMMA LoadKeeps == \A x \in Policy!Fields : Policy!Load(x) = x
<1> SUFFICES ASSUME NEW x \in Policy!Fields PROVE Policy!Load(x) = x
  OBVIOUS
<1>1. x.sig \in 0 .. 2 /\ x.lan \in 0 .. 2 /\ x.usb_net_off \in 0 .. 1 /\ x.https_only \in 0 .. 1
  BY DEF Policy!Fields
<1>2. /\ (IF x.sig > 2 THEN 2 ELSE x.sig) = x.sig
      /\ (IF x.lan > 2 THEN 1 ELSE x.lan) = x.lan
      /\ (IF x.usb_net_off > 1 THEN 1 ELSE x.usb_net_off) = x.usb_net_off
      /\ (IF x.https_only > 1 THEN 1 ELSE x.https_only) = x.https_only
  BY <1>1
<1>3. Policy!Load(x) = [sig |-> x.sig, lan |-> x.lan, usb_net_off |-> x.usb_net_off, https_only |-> x.https_only]
  BY <1>2 DEF Policy!Load, Policy!Off, Policy!Locked
<1> QED  BY <1>3 DEF Policy!Fields

\* handle_sig_policy and its like: what they let pass loosens nothing for a client of the LAN.
LEMMA CommandTightens ==
    ASSUME s_rec \in Policy!Fields, NEW f \in {"sig", "lan", "usb_net_off", "https_only"}, NEW src \in Policy!Sources,
           NEW v \in IF f \in {"sig", "lan"} THEN 0 .. 2 ELSE 0 .. 1, Policy!May(f, v, src)
    PROVE  [s_rec EXCEPT ![f] = v] \in Policy!Fields /\ Tightens([s_rec EXCEPT ![f] = v], s_rec, src)
<1>1. s_rec.sig \in 0 .. 2 /\ s_rec.lan \in 0 .. 2 /\ s_rec.usb_net_off \in 0 .. 1 /\ s_rec.https_only \in 0 .. 1
  BY DEF Policy!Fields
<1>2. CASE f = "sig"
  <2>1. src \in {"console", "cloud"} /\ ~(src = "cloud" /\ v < s_rec.sig)
    BY <1>2 DEF Policy!May, Policy!IsLan, Policy!Sources, Policy!Kinds
  <2> QED  BY <1>1, <1>2, <2>1 DEF Tightens, Policy!Fields
<1>3. CASE f = "lan"
  <2>1. src \in {"console", "cloud"}
    BY <1>3 DEF Policy!May, Policy!IsLan, Policy!Sources, Policy!Kinds
  <2> QED  BY <1>1, <1>3, <2>1 DEF Tightens, Policy!Fields
<1>4. CASE f = "usb_net_off"
  <2>1. src \in {"console", "usb"}  BY <1>4 DEF Policy!May
  <2> QED  BY <1>1, <1>4, <2>1 DEF Tightens, Policy!Fields
<1>5. CASE f = "https_only"
  <2>1. v = 1 \/ src # "lan"  BY <1>5 DEF Policy!May
  <2> QED  BY <1>1, <1>5, <2>1 DEF Tightens, Policy!Fields
<1> QED  BY <1>2, <1>3, <1>4, <1>5

\* pod_policy.c, command_handler_policy.c: commands, the steps of a save, resets and the other tasks.
LEMMA PolicyInvStep ==
    ASSUME PolicyInv, [Policy!Next]_accessVars
    PROVE  PolicyInv' /\ (Policy!LoosensNothing \/ UNCHANGED accessVars)
<1> DEFINE Names == {"sig", "lan", "usb_net_off", "https_only"}
           Pcs == {"none", "save", "stored", "hook"}
           Settings == [pc : Pcs, rec : Policy!Fields, field : Names, src : Policy!Sources]
           Quiet == s_rec' = s_rec => Policy!LoosensNothing
<1>0. s_rec \in Policy!Fields /\ Policy!Load(flash) \in Policy!Fields /\ setting \in Settings
  BY DEF PolicyInv
<1>1. Quiet
  <2> SUFFICES ASSUME s_rec' = s_rec PROVE Policy!LoosensNothing
    OBVIOUS
  <2>1. \A f \in DOMAIN s_rec : ~(s_rec[f] < s_rec[f])  BY <1>0 DEF Policy!Fields
  <2>2. "sig" \in DOMAIN s_rec  BY <1>0 DEF Policy!Fields
  <2> QED  BY <2>1, <2>2 DEF Policy!LoosensNothing
<1>2. Policy!NoSetting \in Settings /\ Policy!NoSetting.pc = "none"
  BY DEF Policy!NoSetting, Policy!Fields, Policy!Sources, Policy!Kinds
<1> HIDE DEF Settings, Quiet
<1>3. ASSUME UNCHANGED <<s_rec, flash, setting>> PROVE PolicyInv' /\ Policy!LoosensNothing
  BY <1>1, <1>3 DEF Quiet, PolicyInv, Policy!PolicyDurable, Tightens, Policy!Load, Policy!Off, Policy!Locked
<1>4. ASSUME UNCHANGED <<s_rec, flash>>, setting' = Policy!NoSetting, setting.pc # "stored"
      PROVE  PolicyInv' /\ Policy!LoosensNothing
  <2>1. s_rec = Policy!Load(flash)  BY <1>4 DEF PolicyInv, Policy!PolicyDurable
  <2> QED  BY <1>0, <1>1, <1>2, <1>4, <2>1 DEF Quiet, Settings, PolicyInv, Policy!PolicyDurable
<1>5. CASE Policy!NetPoll
  BY <1>3, <1>5 DEF Policy!NetPoll, Policy!polVars
<1>6. CASE Policy!UsbReattach
  BY <1>3, <1>6 DEF Policy!UsbReattach, Policy!polVars
<1>7. CASE Policy!Save
  <2>1. CASE /\ setting.pc = "save" /\ flash' = setting.rec /\ setting' = [setting EXCEPT !.pc = "stored"]
             /\ s_rec' = s_rec
    <3>1. setting.rec \in Policy!Fields /\ setting' \in Settings  BY <1>0, <2>1 DEF Settings
    <3>2. Policy!Load(setting.rec) = setting.rec  BY <3>1, LoadKeeps
    <3>3. setting'.pc = "stored" /\ setting'.rec = setting.rec /\ setting'.src = setting.src
      BY <1>0, <2>1 DEF Settings
    <3>4. Policy!Load(flash)' = setting.rec  BY <2>1, <3>2 DEF Policy!Load, Policy!Off, Policy!Locked
    <3>5. Tightens(setting.rec, s_rec, setting.src)  BY <2>1 DEF PolicyInv
    <3>6. Tightens(setting.rec, s_rec, setting.src)'  BY <2>1, <3>3, <3>5 DEF Tightens
    <3> QED  BY <1>0, <1>1, <2>1, <3>1, <3>3, <3>4, <3>6 DEF Quiet, Settings, PolicyInv, Policy!PolicyDurable
  <2>2. CASE setting.pc = "save" /\ setting' = Policy!NoSetting /\ UNCHANGED <<s_rec, flash>>
    BY <1>4, <2>2
  <2>3. CASE /\ setting.pc = "stored" /\ s_rec' = setting.rec /\ setting' = [setting EXCEPT !.pc = "hook"]
             /\ flash' = flash
    <3>1. setting.rec \in Policy!Fields /\ setting' \in Settings /\ setting'.pc = "hook"  BY <1>0, <2>3 DEF Settings
    <3>2. Policy!Load(flash) = setting.rec /\ Tightens(setting.rec, s_rec, setting.src)  BY <2>3 DEF PolicyInv
    <3>3. DOMAIN s_rec = Names  BY <1>0 DEF Policy!Fields
    <3>4. Policy!LoosensNothing  BY <2>3, <3>2, <3>3 DEF Policy!LoosensNothing, Tightens
    <3>5. Policy!Load(flash)' = setting.rec  BY <2>3, <3>2 DEF Policy!Load, Policy!Off, Policy!Locked
    <3> QED  BY <2>3, <3>1, <3>4, <3>5 DEF Settings, PolicyInv, Policy!PolicyDurable
  <2> QED  BY <1>7, <2>1, <2>2, <2>3 DEF Policy!Save
<1>8. CASE Policy!Hook
  BY <1>4, <1>8 DEF Policy!Hook
<1>9. CASE Policy!Reboot
  <2>1. s_rec' = Policy!Load(flash) /\ setting' = Policy!NoSetting /\ flash' = flash
    BY <1>9 DEF Policy!Reboot, Policy!Boot
  <2>2. Policy!Load(flash)' = Policy!Load(flash)  BY <2>1 DEF Policy!Load, Policy!Off, Policy!Locked
  <2>3. PolicyInv'  BY <1>0, <1>2, <2>1, <2>2 DEF Settings, PolicyInv, Policy!PolicyDurable
  <2>4. CASE s_rec = Policy!Load(flash)
    BY <1>1, <2>1, <2>3, <2>4 DEF Quiet
  <2>5. CASE setting.pc = "stored"
    <3>1. Policy!Load(flash) = setting.rec /\ Tightens(setting.rec, s_rec, setting.src)  BY <2>5 DEF PolicyInv
    <3>2. DOMAIN s_rec = Names  BY <1>0 DEF Policy!Fields
    <3> QED  BY <2>1, <2>3, <3>1, <3>2 DEF Policy!LoosensNothing, Tightens
  <2> QED  BY <2>4, <2>5 DEF PolicyInv, Policy!PolicyDurable
<1>10. ASSUME NEW c \in Policy!Kinds, Policy!Accept(c) \/ Policy!Leave(c)
       PROVE PolicyInv' /\ Policy!LoosensNothing
  BY <1>3, <1>10 DEF Policy!Accept, Policy!Leave, Policy!polVars
<1>11. ASSUME NEW src \in Policy!Sources, NEW f \in Names, NEW v \in IF f \in {"sig", "lan"} THEN 0 .. 2 ELSE 0 .. 1,
              Policy!Command(src, f, v)
       PROVE  PolicyInv' /\ Policy!LoosensNothing
  <2> DEFINE new == [s_rec EXCEPT ![f] = v]
  <2>1. /\ setting.pc = "none" /\ Policy!May(f, v, src) /\ UNCHANGED <<s_rec, flash>>
        /\ setting' = [pc |-> "save", rec |-> new, field |-> f, src |-> src]
    BY <1>11 DEF Policy!Command
  <2>2. new \in Policy!Fields /\ Tightens(new, s_rec, src)  BY <1>0, <2>1, CommandTightens
  <2> HIDE DEF new
  <2>3. setting' \in Settings /\ setting'.pc = "save" /\ setting'.rec = new /\ setting'.src = src
    BY <2>1, <2>2 DEF Settings
  <2>4. Tightens(setting.rec, s_rec, setting.src)'  BY <2>1, <2>2, <2>3 DEF Tightens
  <2>5. Policy!Load(flash)' = Policy!Load(flash)  BY <2>1 DEF Policy!Load, Policy!Off, Policy!Locked
  <2>6. s_rec = Policy!Load(flash)  BY <2>1 DEF PolicyInv, Policy!PolicyDurable
  <2> QED  BY <1>0, <1>1, <2>1, <2>3, <2>4, <2>5, <2>6 DEF Quiet, Settings, PolicyInv, Policy!PolicyDurable
<1>12. CASE UNCHANGED accessVars
  BY <1>3, <1>12 DEF accessVars
<1>13. ASSUME NEW src \in Policy!Sources,
              \/ \E v \in 0..2 : Policy!Command(src, "sig", v) \/ Policy!Command(src, "lan", v)
              \/ \E v \in 0..1 : Policy!Command(src, "usb_net_off", v) \/ Policy!Command(src, "https_only", v)
       PROVE  PolicyInv' /\ Policy!LoosensNothing
  BY <1>11, <1>13
<1> QED
  BY <1>5, <1>6, <1>7, <1>8, <1>9, <1>10, <1>12, <1>13
     DEF Policy!Next, Policy!acVars, Policy!polVars, Policy!reqVars, Policy!netVars, Policy!usbVars, accessVars

\* pod_policy_load at boot, of what this firmware or a newer one stored.
LEMMA PolicyInitially == MCInit => PolicyInv
<1> SUFFICES ASSUME MCInit PROVE PolicyInv
  OBVIOUS
<1>1. Policy!Init  BY DEF MCInit
<1>2. setting = Policy!NoSetting /\ s_rec = Policy!Load(flash)  BY <1>1 DEF Policy!Init
<1>3. PICK l \in {0, 3} : flash = [sig |-> 0, lan |-> l, usb_net_off |-> 0, https_only |-> 0]
  BY <1>1 DEF Policy!Init, Policy!Open, Policy!Off
<1>4. Policy!Load(flash) = [sig |-> 0, lan |-> IF l > 2 THEN 1 ELSE l, usb_net_off |-> 0, https_only |-> 0]
  BY <1>3 DEF Policy!Load, Policy!Off, Policy!Locked
<1>5. Policy!Load(flash) \in Policy!Fields  BY <1>4 DEF Policy!Fields
<1>6. setting.pc = "none" /\ setting \in [pc : {"none", "save", "stored", "hook"}, rec : Policy!Fields,
                    field : {"sig", "lan", "usb_net_off", "https_only"}, src : Policy!Sources]
  BY <1>2 DEF Policy!NoSetting, Policy!Fields, Policy!Sources
<1> QED  BY <1>2, <1>5, <1>6 DEF PolicyInv, Policy!PolicyDurable

\* pod_policy.c: for any number of commands and resets, the policies in force are the stored ones, except
\* between the two steps of a save.
THEOREM PoliciesDurable == MCSpec => []Policy!PolicyDurable
<1>1. [MCNext]_mcVars => [Policy!Next]_accessVars  BY DEF MCNext, Rest, mcVars
<1>2. PolicyInv => Policy!PolicyDurable  BY DEF PolicyInv
<1> QED  BY <1>1, <1>2, PolicyInitially, PolicyInvStep, PTL DEF MCSpec
--------------------------------------------------------------------------------
\* The host that answered the challenge is the configured one, and an address that is waited for has
\* been given.
CloudInv ==
    /\ s_cfg \in Cloud!Configs \cup {None} /\ (cl_state # "disabled" => s_cfg # None)
    /\ s_ip \in Hosts \cup {Proxy, None} /\ s_pcb \in Hosts \cup {Proxy, None} /\ lookups \subseteq Hosts \cup {Proxy}
    /\ s_dns = "ok" \/ cl_state = "chal_open" => s_ip # None
    /\ cl_state = "chal_wait" /\ s_pcb # None => Cloud!Peer = s_cfg.host
    /\ Cloud!LinkIsOurs

\* cloud_client.c: each state's pass, each callback and a reload keep the invariant.
LEMMA CloudInvStep ==
    ASSUME CloudInv, [Cloud!Next]_cloudVars
    PROVE  CloudInv'
<1> USE DEF CloudInv, Cloud!LinkIsOurs, Cloud!Linked, Cloud!dnsVars, Cloud!linkVars, Cloud!waitVars, Cloud!envVars
<1>0. None \notin Hosts \cup {Proxy}  BY Assumptions DEF Cloud!ConstantsOK
<1>a. s_cfg # None => Cloud!Target(s_cfg) \in Hosts \cup {Proxy}
  BY DEF Cloud!Target, Cloud!Configs
<1>1. ASSUME Cloud!DropLink, cl_state' \in {"backoff", "disabled", "wait_wifi"},
             s_cfg' \in Cloud!Configs \cup {None}, cl_state' # "disabled" => s_cfg' # None,
             s_ip' = s_ip, lookups' = lookups, s_dns' # "ok" \/ s_dns' = s_dns
      PROVE  CloudInv'
  BY <1>1 DEF Cloud!DropLink
<1>2. ASSUME Cloud!Backoff, UNCHANGED <<s_dns, s_ip, lookups, s_cfg>>, cl_state # "disabled" PROVE CloudInv'
  BY <1>1, <1>2 DEF Cloud!Backoff
<1>3. CASE Cloud!PollWaitWifi
  BY <1>3 DEF Cloud!PollWaitWifi, Cloud!GoTo, Cloud!Peer
<1>4. CASE Cloud!PollResolve
  BY <1>0, <1>1, <1>4, <1>a DEF Cloud!PollResolve, Cloud!GoTo, Cloud!Peer, Cloud!DnsBackoff, Cloud!Backoff
<1>5. CASE Cloud!PollResolveWait
  BY <1>2, <1>5 DEF Cloud!PollResolveWait, Cloud!GoTo, Cloud!Peer, Cloud!DnsBackoff
<1>6. CASE Cloud!PollOpen
  BY <1>2, <1>6 DEF Cloud!PollOpen, Cloud!GoTo, Cloud!Peer
<1>7. CASE Cloud!PollConnect
  BY <1>2, <1>7 DEF Cloud!PollConnect, Cloud!GoTo, Cloud!Peer, Cloud!SendChallenge, Cloud!Verified
<1>8. CASE Cloud!PollChallenge
  BY <1>2, <1>8 DEF Cloud!PollChallenge, Cloud!GoTo, Cloud!Peer, Cloud!SendUpgrade
<1>9. CASE Cloud!PollUpgrade
  BY <1>2, <1>9 DEF Cloud!PollUpgrade, Cloud!Peer
<1>10. CASE Cloud!PollConnected
  BY <1>2, <1>10 DEF Cloud!PollConnected, Cloud!Peer
<1>11. CASE Cloud!PollBackoff
  BY <1>11 DEF Cloud!PollBackoff, Cloud!GoTo, Cloud!Peer
<1>12. ASSUME NEW h \in lookups, Cloud!DnsAnswer(h) PROVE CloudInv'
  BY <1>0, <1>12 DEF Cloud!DnsAnswer, Cloud!Peer
<1>13. CASE Cloud!LinkUp
  BY <1>13 DEF Cloud!LinkUp, Cloud!Peer
<1>14. CASE Cloud!LinkError
  BY <1>14 DEF Cloud!LinkError, Cloud!Peer
<1>15. CASE Cloud!PeerCloses
  BY <1>15 DEF Cloud!PeerCloses, Cloud!Peer
<1>16. CASE Cloud!ServerAnswers
  BY <1>16 DEF Cloud!ServerAnswers, Cloud!Peer
<1>17. CASE Cloud!ExtrasReady
  BY <1>17 DEF Cloud!ExtrasReady, Cloud!Peer
<1>18. CASE Cloud!Reload
  BY <1>1, <1>18 DEF Cloud!Reload, Cloud!FirstState
<1>19. CASE UNCHANGED cloudVars
  BY <1>19 DEF cloudVars, Cloud!Peer
<1> QED
  BY <1>3, <1>4, <1>5, <1>6, <1>7, <1>8, <1>9, <1>10, <1>11, <1>12, <1>13, <1>14, <1>15, <1>16, <1>17,
     <1>18, <1>19 DEF Cloud!Next, Cloud!Poll, Cloud!Env, Cloud!clVars, cloudVars

\* cloud_client.c, cl_sign_nonce: for any hosts, proxy, faults and reloads, the login is signed for the
\* host the link leads to, and no link is lost.
THEOREM LoginsAreOurs == MCSpec => []Cloud!LinkIsOurs
<1>1. MCInit => CloudInv
  BY DEF MCInit, Cloud!Init, CloudInv, Cloud!LinkIsOurs, Cloud!FirstState, Cloud!Linked
<1>2. [MCNext]_mcVars => [Cloud!Next]_cloudVars  BY DEF MCNext, Rest, mcVars
<1>3. CloudInv => Cloud!LinkIsOurs  BY DEF CloudInv
<1> QED  BY <1>1, <1>2, <1>3, CloudInvStep, PTL DEF MCSpec
--------------------------------------------------------------------------------
\* Where handle_rx_appldata is, what it has in hand.
RxPlace ==
    /\ pc \in {"idle", "shake", "read", "pass"} /\ st \in {"none", "handshake", "open", "closed"}
    /\ pc \in {"read", "pass"} => st = "open"
    /\ pc = "shake" => st = "handshake"
    /\ pc = "read" => rx_app = 0
    /\ pc = "pass" => rx_app > 0
    /\ pc = "idle" /\ rx_app = 0 => avail = 0 \/ poolShort

RxCounts ==
    /\ wnd \in Nat /\ rx \in Nat /\ rxGot \in Nat /\ avail \in Nat /\ rx_app \in Nat
    /\ bio_bytes_read \in Nat /\ bp_loaned \in Nat /\ bp_debt \in Nat /\ rec \in Nat \ {0}
    /\ bp_loaned <= bio_bytes_read /\ (avail > 0 => bp_loaned = 0)

\* Before the handshake is done nothing is lent, owed or decrypted; after it a record is never gathered past its end.
RxPhase ==
    /\ st = "handshake" => /\ avail = 0 /\ rx_app = 0 /\ bio_bytes_read = 0 /\ bp_debt = 0 /\ fin = "no"
                           /\ rxGot <= Hello
    /\ st = "open" /\ rec <= Len(RecordLens) => rxGot < Rx!RecordSize(rec)

RxInv == RxPlace /\ RxCounts /\ RxPhase /\ Rx!WindowTrue /\ Rx!FinIsLast

\* The window, when the connection is open.
RxBalance == /\ wnd + rx + (IF avail > 0 THEN avail ELSE bio_bytes_read - bp_loaned) + rx_app = Wnd + bp_debt
             /\ bp_debt <= avail + rx_app

\* What the proofs use of TCP_WND, the pool's buffers and the records a peer sends.
LEMMA RxConstants ==
    /\ {Wnd, BufSize, Pool, Overhead, Hello, MaxConns} \subseteq Nat \ {0}
    /\ RecordLens \in Seq(Nat) /\ Len(RecordLens) \in Nat
    /\ \A i \in Nat \ {0} : i <= Len(RecordLens) => RecordLens[i] \in Nat /\ Rx!RecordSize(i) = RecordLens[i] + Overhead
<1>1. {Wnd, BufSize, Pool, Overhead, Hello, MaxConns} \subseteq Nat \ {0} /\ RecordLens \in Seq(Nat)
  BY Assumptions DEF Rx!ConstantsOK
<1> HIDE DEF RecordLens
<1>2. Len(RecordLens) \in Nat /\ \A i \in 1 .. Len(RecordLens) : RecordLens[i] \in Nat  BY <1>1
<1> QED  BY <1>1, <1>2 DEF Rx!RecordSize

\* altcp_mbedtls_handle_rx_appldata: a round of it.
LEMMA RxReadRound ==
    ASSUME RxInv, Rx!ReadRound
    PROVE  RxInv'
<1> HIDE DEF RecordLens
<1>0. /\ Wnd \in Nat /\ BufSize \in Nat \ {0} /\ Overhead \in Nat \ {0} /\ Len(RecordLens) \in Nat
      /\ \A i \in Nat \ {0} : i <= Len(RecordLens) => RecordLens[i] \in Nat /\ Rx!RecordSize(i) = RecordLens[i] + Overhead
  BY RxConstants
<1>1. pc = "read" /\ st = "open" /\ st' = "open" /\ rx_app = 0
  BY DEF Rx!ReadRound, RxInv, RxPlace
<1>2. RxCounts /\ RxBalance  BY <1>1 DEF RxInv, Rx!WindowTrue, RxBalance
<1>3. rec <= Len(RecordLens) => rxGot < Rx!RecordSize(rec)  BY <1>1 DEF RxInv, RxPhase
<1>4. ASSUME RxCounts', RxBalance', rec' <= Len(RecordLens) => rxGot' < Rx!RecordSize(rec)',
             Rx!FinIsLast', RxPlace'
      PROVE  RxInv'
  <2>1. Rx!WindowTrue'  BY <1>1, <1>4 DEF Rx!WindowTrue, RxBalance
  <2>2. RxPhase'  BY <1>1, <1>4 DEF RxPhase
  <2> QED  BY <1>4, <2>1, <2>2 DEF RxInv
<1>5. CASE pc' = "idle" /\ poolShort' = TRUE /\ UNCHANGED <<fin, Rx!acct, Rx!tlsVars, pool>>
  <2>1. /\ wnd' = wnd /\ rx' = rx /\ rxGot' = rxGot /\ avail' = avail /\ rx_app' = rx_app /\ rec' = rec
        /\ bio_bytes_read' = bio_bytes_read /\ bp_loaned' = bp_loaned /\ bp_debt' = bp_debt
    BY <1>5 DEF Rx!acct, Rx!tlsVars
  <2>2. RxCounts' /\ RxBalance'  BY <1>2, <2>1 DEF RxCounts, RxBalance
  <2>3. rec' <= Len(RecordLens) => rxGot' < Rx!RecordSize(rec)'  BY <1>3, <2>1 DEF Rx!RecordSize
  <2>4. Rx!FinIsLast'  BY <1>5 DEF Rx!FinIsLast
  <2>5. RxPlace'  BY <1>1, <1>5 DEF RxPlace
  <2> QED  BY <1>4, <2>2, <2>3, <2>4, <2>5
<1>6. ASSUME NEW n \in Nat \ {0}, NEW left \in Nat, NEW read \in Nat, Rx!GetPlain(n, left, read),
             rx' \in Nat, wnd' \in Nat, bp_debt' \in Nat, bp_loaned' = 0, rec' \in Nat \ {0}, rxGot' \in Nat,
             wnd' + rx' + (left + n) = Wnd + bp_debt', bp_debt' <= left + n,
             rec' <= Len(RecordLens) => rxGot' < Rx!RecordSize(rec)',
             fin' = fin, poolShort' = poolShort, fin # "passed" \/ poolShort
      PROVE  RxInv'
  <2>1. rx_app' = n /\ avail' = left /\ pc' = "pass"
        /\ bio_bytes_read' = (IF left = 0 THEN 0 ELSE read)
    BY <1>6 DEF Rx!GetPlain
  <2>2. RxCounts'  BY <1>6, <2>1 DEF RxCounts
  <2>3. RxBalance'
    <3>0. left \in Nat /\ bp_loaned' = 0 /\ bio_bytes_read' = (IF left = 0 THEN 0 ELSE read)  BY <1>6, <2>1
    <3>1. (IF left > 0 THEN left ELSE bio_bytes_read' - bp_loaned') = left
      <4>1. CASE left = 0
        <5>1. bio_bytes_read' = 0  BY <3>0, <4>1
        <5>2. bio_bytes_read' - bp_loaned' = 0  BY <3>0, <5>1
        <5> QED  BY <4>1, <5>2
      <4>2. CASE left > 0  BY <4>2
      <4> QED  BY <3>0, <4>1, <4>2
    <3>2. wnd' + rx' + left + n = Wnd + bp_debt'
      <4>1. wnd' + rx' + (left + n) = Wnd + bp_debt'  BY <1>6
      <4>2. wnd' \in Nat /\ rx' \in Nat  BY <1>6
      <4>3. wnd' + rx' + (left + n) = wnd' + rx' + left + n  BY <4>2
      <4> QED  BY <4>1, <4>3
    <3> QED  BY <1>6, <2>1, <3>1, <3>2 DEF RxBalance
  <2>4. Rx!FinIsLast'  BY <1>6 DEF Rx!FinIsLast
  <2>5. RxPlace'  BY <1>1, <1>6, <2>1 DEF RxPlace
  <2> QED  BY <1>4, <1>6, <2>2, <2>3, <2>4, <2>5
<1>7. CASE /\ pool > 0 /\ avail > 0
           /\ LET n == Rx!Least(avail, BufSize) IN Rx!GetPlain(n, avail - n, bio_bytes_read)
           /\ UNCHANGED <<fin, wnd, bp_loaned, bp_debt, rx, rec, rxGot, poolShort>>
  <2> DEFINE n == Rx!Least(avail, BufSize)
  <2>1. Rx!GetPlain(n, avail - n, bio_bytes_read)  BY <1>7
  <2>2. n \in Nat \ {0} /\ avail - n \in Nat /\ avail - n + n = avail
    BY <1>0, <1>2, <1>7 DEF RxCounts, Rx!Least
  <2> HIDE DEF n
  <2>3. bp_loaned = 0 /\ wnd + rx + avail = Wnd + bp_debt /\ bp_debt <= avail
    BY <1>0, <1>1, <1>2, <1>7 DEF RxCounts, RxBalance
  <2>4. fin # "passed" \/ poolShort  BY <1>2, <1>7 DEF RxInv, Rx!FinIsLast, RxCounts
  <2>5. rec' <= Len(RecordLens) => rxGot' < Rx!RecordSize(rec)'  BY <1>3, <1>7 DEF Rx!RecordSize
  <2>6. /\ wnd' = wnd /\ rx' = rx /\ rec' = rec /\ rxGot' = rxGot /\ bp_loaned' = 0 /\ bp_debt' = bp_debt
        /\ fin' = fin /\ poolShort' = poolShort
    BY <1>7, <2>3
  <2>7. /\ rx' \in Nat /\ wnd' \in Nat /\ bp_debt' \in Nat /\ rec' \in Nat \ {0} /\ rxGot' \in Nat
        /\ bio_bytes_read \in Nat
    BY <1>2, <2>6 DEF RxCounts
  <2>8. wnd' + rx' + ((avail - n) + n) = Wnd + bp_debt' /\ bp_debt' <= (avail - n) + n
    BY <2>2, <2>3, <2>6
  <2> QED  BY <1>6, <2>1, <2>2, <2>4, <2>5, <2>6, <2>7, <2>8
<1> DEFINE need == IF rec > Len(RecordLens) THEN 1 ELSE Rx!RecordSize(rec) - rxGot
           n == Rx!Least(rx, need)
           read == bio_bytes_read + n
           plain == IF rec > Len(RecordLens) THEN 0 ELSE RecordLens[rec]
<1>8. ASSUME avail = 0
      PROVE  /\ need \in Nat \ {0} /\ n \in Nat /\ n <= rx /\ n <= need /\ plain \in Nat /\ read \in Nat
             /\ (n < need => n = rx) /\ bp_debt = 0 /\ bp_loaned <= read
             /\ wnd + rx + (bio_bytes_read - bp_loaned) = Wnd
  <2>1. rec \in Nat \ {0} /\ rxGot \in Nat /\ rx \in Nat /\ bio_bytes_read \in Nat /\ bp_debt \in Nat
        /\ bp_loaned \in Nat /\ bp_loaned <= bio_bytes_read /\ wnd \in Nat
    BY <1>2 DEF RxCounts
  <2>2. need \in Nat \ {0} /\ plain \in Nat  BY <1>0, <1>3, <2>1
  <2> HIDE DEF need, plain
  <2>3. n \in Nat /\ n <= rx /\ n <= need /\ (n < need => n = rx)  BY <2>1, <2>2 DEF Rx!Least
  <2>4. bp_debt = 0 /\ wnd + rx + (bio_bytes_read - bp_loaned) = Wnd
    BY <1>0, <1>1, <1>2, <1>8, <2>1 DEF RxBalance
  <2> QED  BY <2>1, <2>2, <2>3, <2>4
<1>9. CASE /\ avail = 0 /\ rx' = rx - n /\ poolShort' = poolShort /\ pool > 0
           /\ n < need /\ fin # "queued" /\ Rx!Lend(read)
           /\ bio_bytes_read' = read /\ rxGot' = rxGot + n /\ pc' = "idle"
           /\ UNCHANGED <<fin, bio_bytes_appl, bp_debt, rec, avail, rx_app, pool>>
  <2>1. wnd' = wnd + (read - bp_loaned) /\ bp_loaned' = read  BY <1>9 DEF Rx!Lend
  <2>2. rec' <= Len(RecordLens) => rxGot' < Rx!RecordSize(rec)'
    <3>1. rec \in Nat \ {0} /\ rxGot \in Nat  BY <1>2 DEF RxCounts
    <3>2. rec <= Len(RecordLens) => need = Rx!RecordSize(rec) - rxGot /\ Rx!RecordSize(rec) \in Nat  BY <1>0, <3>1
    <3>3. Rx!RecordSize(rec)' = Rx!RecordSize(rec)  BY <1>9 DEF Rx!RecordSize
    <3>4. n \in Nat /\ n < need  BY <1>8, <1>9
    <3> HIDE DEF n, need
    <3> QED  BY <1>9, <3>1, <3>2, <3>3, <3>4
  <2>3. /\ n \in Nat /\ n <= rx /\ n = rx /\ read \in Nat /\ bp_loaned <= read /\ bp_debt = 0
        /\ wnd + rx + (bio_bytes_read - bp_loaned) = Wnd /\ read = bio_bytes_read + n
    BY <1>8, <1>9
  <2> HIDE DEF n, read, need
  <2>4. RxCounts'  BY <1>2, <1>9, <2>1, <2>3 DEF RxCounts
  <2>5. RxBalance'
    <3>1. wnd \in Nat /\ rx \in Nat /\ bp_loaned \in Nat /\ bio_bytes_read \in Nat  BY <1>2 DEF RxCounts
    <3>2. wnd' + rx' + (bio_bytes_read' - bp_loaned') = Wnd  BY <1>0, <1>9, <2>1, <2>3, <3>1
    <3>3. avail' = 0 /\ rx_app' = 0 /\ bp_debt' = 0  BY <1>1, <1>9, <2>3
    <3> QED  BY <1>0, <3>2, <3>3 DEF RxBalance
  <2>6. Rx!FinIsLast'  BY <1>1, <1>9, <2>3 DEF Rx!FinIsLast
  <2>7. RxPlace'  BY <1>1, <1>9 DEF RxPlace
  <2> QED  BY <1>4, <2>2, <2>4, <2>5, <2>6, <2>7
<1>10. CASE /\ avail = 0 /\ rx' = rx - n /\ poolShort' = poolShort /\ pool > 0
            /\ n < need /\ fin = "queued"
            /\ bio_bytes_read' = read /\ rxGot' = rxGot + n
            /\ fin' = "passed" /\ pc' = "idle"
            /\ UNCHANGED <<wnd, bio_bytes_appl, bp_loaned, bp_debt, rec, avail, rx_app, pool>>
  <2>2. rec' <= Len(RecordLens) => rxGot' < Rx!RecordSize(rec)'
    <3>1. rec \in Nat \ {0} /\ rxGot \in Nat  BY <1>2 DEF RxCounts
    <3>2. rec <= Len(RecordLens) => need = Rx!RecordSize(rec) - rxGot /\ Rx!RecordSize(rec) \in Nat  BY <1>0, <3>1
    <3>3. Rx!RecordSize(rec)' = Rx!RecordSize(rec)  BY <1>10 DEF Rx!RecordSize
    <3>4. n \in Nat /\ n < need  BY <1>8, <1>10
    <3> HIDE DEF n, need
    <3> QED  BY <1>10, <3>1, <3>2, <3>3, <3>4
  <2>3. /\ n \in Nat /\ n <= rx /\ n = rx /\ read \in Nat /\ bp_loaned <= read /\ bp_debt = 0
        /\ wnd + rx + (bio_bytes_read - bp_loaned) = Wnd /\ read = bio_bytes_read + n
    BY <1>8, <1>10
  <2> HIDE DEF n, read, need
  <2>4. RxCounts'  BY <1>2, <1>10, <2>3 DEF RxCounts
  <2>5. RxBalance'
    <3>1. wnd \in Nat /\ rx \in Nat /\ bp_loaned \in Nat /\ bio_bytes_read \in Nat  BY <1>2 DEF RxCounts
    <3>2. wnd' + rx' + (bio_bytes_read' - bp_loaned') = Wnd  BY <1>0, <1>10, <2>3, <3>1
    <3>3. avail' = 0 /\ rx_app' = 0 /\ bp_debt' = 0  BY <1>1, <1>10, <2>3
    <3> QED  BY <1>0, <3>2, <3>3 DEF RxBalance
  <2>6. Rx!FinIsLast'
    <3>1. rx' = 0 /\ avail' = 0 /\ rx_app' = 0  BY <1>1, <1>2, <1>10, <2>3 DEF RxCounts
    <3> QED  BY <3>1 DEF Rx!FinIsLast
  <2>7. RxPlace'  BY <1>1, <1>10 DEF RxPlace
  <2> QED  BY <1>4, <2>2, <2>4, <2>5, <2>6, <2>7
<1>11. ASSUME rec' = rec + 1, rxGot' = 0
       PROVE  rec' <= Len(RecordLens) => rxGot' < Rx!RecordSize(rec)'
  <2>1. rec \in Nat \ {0} /\ rec' \in Nat \ {0}  BY <1>2, <1>11 DEF RxCounts
  <2>2. Rx!RecordSize(rec)' = Rx!RecordSize(rec')  BY DEF Rx!RecordSize
  <2> QED  BY <1>0, <1>11, <2>1, <2>2
<1>12. CASE /\ avail = 0 /\ rx' = rx - n /\ poolShort' = poolShort /\ pool > 0
            /\ n = need /\ plain = 0
            /\ bio_bytes_read' = read /\ rec' = rec + 1 /\ rxGot' = 0
            /\ UNCHANGED <<fin, wnd, bio_bytes_appl, bp_loaned, bp_debt, avail, rx_app, pool, pc>>
  <2>1. /\ n \in Nat \ {0} /\ n <= rx /\ read \in Nat /\ bp_loaned <= read /\ bp_debt = 0
        /\ wnd + rx + (bio_bytes_read - bp_loaned) = Wnd /\ read = bio_bytes_read + n
    BY <1>8, <1>12
  <2> HIDE DEF n, read, need, plain
  <2>2. RxCounts'  BY <1>2, <1>12, <2>1 DEF RxCounts
  <2>3. RxBalance'
    <3>1. wnd \in Nat /\ rx \in Nat /\ bp_loaned \in Nat /\ bio_bytes_read \in Nat  BY <1>2 DEF RxCounts
    <3>2. wnd' + rx' + (bio_bytes_read' - bp_loaned') = Wnd  BY <1>0, <1>12, <2>1, <3>1
    <3>3. avail' = 0 /\ rx_app' = 0 /\ bp_debt' = 0  BY <1>1, <1>12, <2>1
    <3> QED  BY <1>0, <3>2, <3>3 DEF RxBalance
  <2>4. fin # "passed" \/ poolShort
    <3>1. rx # 0  BY <2>1
    <3> QED  BY <3>1 DEF RxInv, Rx!FinIsLast
  <2>5. Rx!FinIsLast'  BY <1>12, <2>4 DEF Rx!FinIsLast
  <2>6. RxPlace'  BY <1>1, <1>12 DEF RxPlace
  <2> QED  BY <1>4, <1>11, <1>12, <2>2, <2>3, <2>5, <2>6
<1>13. CASE /\ avail = 0 /\ rx' = rx - n /\ poolShort' = poolShort /\ pool > 0
            /\ n = need /\ plain > 0
            /\ LET m == Rx!Least(plain, BufSize) IN Rx!GetPlain(m, plain - m, read)
            /\ Rx!Settle(read, plain) /\ rec' = rec + 1 /\ rxGot' = 0
            /\ UNCHANGED fin
  <2>1. /\ n \in Nat \ {0} /\ n <= rx /\ read \in Nat /\ bp_loaned <= read /\ bp_debt = 0 /\ plain \in Nat
        /\ wnd + rx + (bio_bytes_read - bp_loaned) = Wnd /\ read = bio_bytes_read + n
    BY <1>8, <1>13
  <2> DEFINE m == Rx!Least(plain, BufSize)
  <2>2. Rx!GetPlain(m, plain - m, read)  BY <1>13
  <2>3. /\ bp_loaned' = 0
        /\ \/ read - plain >= bp_loaned /\ wnd' = wnd + (read - plain - bp_loaned) /\ bp_debt' = bp_debt
           \/ ~(read - plain >= bp_loaned) /\ bp_debt' = bp_debt + (bp_loaned - (read - plain)) /\ wnd' = wnd
    BY <1>13 DEF Rx!Settle
  <2> HIDE DEF n, read, need, plain
  <2>4. m \in Nat \ {0} /\ plain - m \in Nat /\ plain - m + m = plain
    BY <1>0, <1>13, <2>1 DEF Rx!Least
  <2> HIDE DEF m
  <2>5. wnd \in Nat /\ rx \in Nat /\ bp_loaned \in Nat /\ bio_bytes_read \in Nat /\ rec \in Nat \ {0}
    BY <1>2 DEF RxCounts
  <2>6. /\ rx' \in Nat /\ wnd' \in Nat /\ bp_debt' \in Nat /\ rec' \in Nat \ {0} /\ rxGot' \in Nat
        /\ wnd' + rx' + plain = Wnd + bp_debt' /\ bp_debt' <= plain
    <3>1. rx' = rx - n /\ rec' = rec + 1 /\ rxGot' = 0  BY <1>13
    <3>2. rx' \in Nat /\ rec' \in Nat \ {0} /\ rxGot' \in Nat  BY <2>1, <2>5, <3>1
    <3>3. CASE read - plain >= bp_loaned /\ wnd' = wnd + (read - plain - bp_loaned) /\ bp_debt' = bp_debt
      BY <1>0, <2>1, <2>5, <3>1, <3>2, <3>3
    <3>4. CASE ~(read - plain >= bp_loaned) /\ bp_debt' = bp_debt + (bp_loaned - (read - plain)) /\ wnd' = wnd
      <4>1. bp_debt' = bp_loaned - (read - plain) /\ bp_debt' \in Nat /\ bp_debt' <= plain
        BY <2>1, <2>5, <3>4
      <4> QED  BY <1>0, <2>1, <2>5, <3>1, <3>2, <3>4, <4>1
    <3> QED  BY <2>3, <3>3, <3>4
  <2>7. wnd' + rx' + ((plain - m) + m) = Wnd + bp_debt' /\ bp_debt' <= (plain - m) + m
    BY <2>4, <2>6
  <2>8. fin # "passed" \/ poolShort
    <3>1. rx # 0  BY <2>1
    <3> QED  BY <3>1 DEF RxInv, Rx!FinIsLast
  <2>9. rec' <= Len(RecordLens) => rxGot' < Rx!RecordSize(rec)'  BY <1>11, <1>13
  <2>10. fin' = fin /\ poolShort' = poolShort  BY <1>13
  <2> QED  BY <1>6, <2>1, <2>2, <2>3, <2>4, <2>6, <2>7, <2>8, <2>9, <2>10
<1> HIDE DEF need, n, read, plain
<1> QED
  BY <1>5, <1>7, <1>9, <1>10, <1>12, <1>13 DEF Rx!ReadRound, need, n, read, plain

\* altcp_mbedtls_lower_recv, pass_rx_data, recved, kick and the ends of a connection keep the account.
LEMMA RxInvStep ==
    ASSUME RxInv, [Rx!Next]_rxVars
    PROVE  RxInv'
<1> HIDE DEF RecordLens
<1> USE DEF Rx!acct, Rx!tlsVars
<1>0. /\ Wnd \in Nat /\ BufSize \in Nat \ {0} /\ Overhead \in Nat \ {0} /\ Hello \in Nat /\ Len(RecordLens) \in Nat
      /\ \A i \in Nat \ {0} : i <= Len(RecordLens) => RecordLens[i] \in Nat /\ Rx!RecordSize(i) = RecordLens[i] + Overhead
  BY RxConstants
<1>1. RxPlace /\ RxCounts /\ RxPhase /\ Rx!WindowTrue /\ Rx!FinIsLast  BY DEF RxInv
<1>2. CASE Rx!Open
  <2>1. /\ st' = "handshake" /\ fin' = "no" /\ wnd' = Wnd /\ pc' = "idle"
        /\ bio_bytes_read' = 0 /\ bp_loaned' = 0 /\ bp_debt' = 0 /\ rx' = 0 /\ rec' = 1 /\ rxGot' = 0
        /\ avail' = 0 /\ rx_app' = 0
    BY <1>2 DEF Rx!Open
  <2>2. RxPlace' /\ RxPhase' /\ Rx!FinIsLast'  BY <1>0, <2>1 DEF RxPlace, RxPhase, Rx!FinIsLast
  <2>3. RxCounts'  BY <1>0, <2>1 DEF RxCounts
  <2>4. Rx!WindowTrue'  BY <1>0, <2>1 DEF Rx!WindowTrue
  <2> QED  BY <2>2, <2>3, <2>4 DEF RxInv
<1>3. ASSUME UNCHANGED <<st, fin, rxGot, avail, rx_app, bio_bytes_read, bp_loaned, bp_debt, rec, poolShort, wnd, rx>>,
             RxPlace'
      PROVE  RxInv'
  BY <1>1, <1>3 DEF RxInv, RxCounts, RxPhase, Rx!RecordSize, Rx!WindowTrue, Rx!FinIsLast
<1>4. CASE Rx!Segment
  <2>1. PICK n \in 1 .. Wnd : n <= wnd /\ wnd' = wnd - n /\ rx' = rx + n
    BY <1>4 DEF Rx!Segment
  <2>2. /\ st \in {"handshake", "open"} /\ pc = "idle" /\ fin = "no" /\ fin' = fin /\ st' = st
        /\ pc' = (IF st = "handshake" THEN "shake" ELSE IF rx_app > 0 THEN "pass" ELSE "read")
        /\ UNCHANGED <<rxGot, avail, rx_app, bio_bytes_read, bp_loaned, bp_debt, rec>> /\ poolShort' = poolShort
    BY <1>4 DEF Rx!Segment
  <2>3. rx_app \in Nat /\ wnd \in Nat /\ rx \in Nat  BY <1>1 DEF RxCounts
  <2>4. RxPlace'  BY <1>1, <2>2, <2>3 DEF RxPlace
  <2>5. RxCounts'  BY <1>0, <1>1, <2>1, <2>2 DEF RxCounts
  <2>6. RxPhase'  BY <1>1, <2>2 DEF RxPhase, Rx!RecordSize
  <2>7. Rx!FinIsLast'  BY <2>2 DEF Rx!FinIsLast
  <2>8. Rx!WindowTrue'
    <3>1. wnd' + rx' = wnd + rx  BY <2>1, <2>3
    <3> DEFINE mid == IF st = "handshake" THEN 0 ELSE IF avail > 0 THEN avail ELSE bio_bytes_read - bp_loaned
    <3>2. wnd + rx + mid + rx_app = Wnd + bp_debt /\ bp_debt <= avail + rx_app
      BY <1>1, <2>2 DEF Rx!WindowTrue
    <3>3. mid' = mid  BY <2>2
    <3> HIDE DEF mid
    <3>4. wnd' + rx' + mid' + rx_app' = Wnd + bp_debt' /\ bp_debt' <= avail' + rx_app'
      BY <2>2, <3>1, <3>2, <3>3
    <3> QED  BY <3>4 DEF Rx!WindowTrue, mid
  <2> QED  BY <2>4, <2>5, <2>6, <2>7, <2>8 DEF RxInv
<1>5. ASSUME Rx!Dealloc, pc = "idle" \/ pc = "shake",
             UNCHANGED <<fin, rxGot, avail, rx_app, bio_bytes_read, bp_loaned, bp_debt, rec, poolShort>>, wnd' = wnd
      PROVE  RxInv'
  <2>1. st' = "closed" /\ pc' = "idle" /\ rx' = 0  BY <1>5 DEF Rx!Dealloc
  <2>2. pc = "shake" => avail = 0  BY <1>1 DEF RxPlace, RxPhase
  <2>3. RxPlace'  BY <1>1, <1>5, <2>1, <2>2 DEF RxPlace
  <2>4. RxCounts'  BY <1>1, <1>5, <2>1 DEF RxCounts
  <2>5. RxPhase' /\ Rx!WindowTrue'  BY <2>1 DEF RxPhase, Rx!WindowTrue
  <2>6. Rx!FinIsLast'  BY <1>1, <1>5, <2>1 DEF Rx!FinIsLast
  <2> QED  BY <2>3, <2>4, <2>5, <2>6 DEF RxInv
<1>6. CASE Rx!Handshake
  <2> DEFINE used == IF rx < Hello - rxGot THEN rx ELSE Hello - rxGot
  <2>1. pc = "shake" /\ st = "handshake" /\ UNCHANGED <<fin, avail, rx_app, bio_bytes_read, bp_loaned, bp_debt, rec>>
        /\ poolShort' = poolShort
    BY <1>1, <1>6 DEF Rx!Handshake, RxPlace
  <2>2. \/ /\ wnd' = wnd + used /\ rx' = rx - used
           /\ IF rxGot + used < Hello
              THEN rxGot' = rxGot + used /\ pc' = "idle" /\ UNCHANGED st
              ELSE rxGot' = 0 /\ st' = "open" /\ pc' = IF rx > used THEN "read" ELSE "idle"
        \/ Rx!Dealloc /\ UNCHANGED <<wnd, rxGot>>
    BY <1>6 DEF Rx!Handshake
  <2>3. CASE Rx!Dealloc /\ UNCHANGED <<wnd, rxGot>>
    BY <1>5, <2>1, <2>3
  <2>4. CASE /\ wnd' = wnd + used /\ rx' = rx - used
             /\ IF rxGot + used < Hello
                THEN rxGot' = rxGot + used /\ pc' = "idle" /\ UNCHANGED st
                ELSE rxGot' = 0 /\ st' = "open" /\ pc' = IF rx > used THEN "read" ELSE "idle"
    <3>1. /\ avail = 0 /\ rx_app = 0 /\ bio_bytes_read = 0 /\ bp_debt = 0 /\ fin = "no" /\ rxGot <= Hello
      BY <1>1, <2>1 DEF RxPhase
    <3>2. wnd \in Nat /\ rx \in Nat /\ rxGot \in Nat /\ bp_loaned = 0 /\ rec \in Nat \ {0}
      BY <1>1, <3>1 DEF RxCounts
    <3>3. used \in Nat /\ used <= rx /\ used <= Hello - rxGot  BY <1>0, <3>1, <3>2
    <3>4. wnd + rx = Wnd
      <4>1. wnd + rx + 0 + 0 = Wnd + 0  BY <1>1, <2>1, <3>1 DEF Rx!WindowTrue
      <4> QED  BY <1>0, <3>2, <4>1
    <3>5. wnd' + rx' = Wnd /\ wnd' \in Nat /\ rx' \in Nat  BY <2>4, <3>2, <3>3, <3>4
    <3>6. /\ avail' = 0 /\ rx_app' = 0 /\ bio_bytes_read' = 0 /\ bp_debt' = 0 /\ fin' = "no" /\ bp_loaned' = 0
          /\ rec' = rec
      BY <2>1, <3>1, <3>2
    <3>7. wnd' + rx' + 0 + rx_app' = Wnd + bp_debt' /\ bp_debt' <= avail' + rx_app'
      <4>1. avail' = 0 /\ rx_app' = 0 /\ bp_debt' = 0  BY <3>6
      <4>2. wnd' + rx' = Wnd /\ wnd' \in Nat /\ rx' \in Nat  BY <3>5
      <4>3. Wnd \in Nat  BY <1>0
      <4>4. wnd' + rx' + 0 + 0 = wnd' + rx' /\ Wnd + 0 = Wnd  BY <4>2, <4>3
      <4> QED  BY <4>1, <4>2, <4>4
    <3>8. CASE rxGot + used < Hello /\ rxGot' = rxGot + used /\ pc' = "idle" /\ st' = st
      <4>1. rxGot' \in Nat /\ rxGot' <= Hello  BY <1>0, <3>2, <3>3, <3>8
      <4>2. RxPlace' /\ RxPhase' /\ Rx!FinIsLast'
        BY <2>1, <3>6, <3>8, <4>1 DEF RxPlace, RxPhase, Rx!FinIsLast
      <4>3. RxCounts'
        <5>1. bp_loaned' <= bio_bytes_read' /\ avail' \in Nat /\ rx_app' \in Nat /\ bp_debt' \in Nat
              /\ bio_bytes_read' \in Nat /\ bp_loaned' = 0
          BY <3>6
        <5>2. rec' \in Nat \ {0}  BY <3>2, <3>6
        <5>3. wnd' \in Nat /\ rx' \in Nat /\ rxGot' \in Nat  BY <3>5, <4>1
        <5> QED  BY <5>1, <5>2, <5>3 DEF RxCounts
      <4>4. Rx!WindowTrue'
        <5>1. st' = "handshake"  BY <2>1, <3>8
        <5> QED  BY <3>7, <5>1 DEF Rx!WindowTrue
      <4> QED  BY <4>2, <4>3, <4>4 DEF RxInv
    <3>9. CASE rxGot' = 0 /\ st' = "open" /\ pc' = IF rx > used THEN "read" ELSE "idle"
      <4>1. RxPlace' /\ Rx!FinIsLast'  BY <3>6, <3>9 DEF RxPlace, Rx!FinIsLast
      <4>2. RxPhase'
        <5>1. rec' <= Len(RecordLens) => rxGot' < Rx!RecordSize(rec')  BY <1>0, <3>2, <3>6, <3>9
        <5>2. Rx!RecordSize(rec)' = Rx!RecordSize(rec')  BY DEF Rx!RecordSize
        <5> QED  BY <3>9, <5>1, <5>2 DEF RxPhase
      <4>3. RxCounts'  BY <3>2, <3>5, <3>6, <3>9 DEF RxCounts
      <4>4. Rx!WindowTrue'
        <5>1. (IF avail' > 0 THEN avail' ELSE bio_bytes_read' - bp_loaned') = 0  BY <3>6
        <5>2. st' # "handshake"  BY <3>9
        <5> QED  BY <3>7, <5>1, <5>2 DEF Rx!WindowTrue
      <4> QED  BY <4>1, <4>2, <4>3, <4>4 DEF RxInv
    <3> HIDE DEF used
    <3> QED  BY <2>4, <3>8, <3>9
  <2> HIDE DEF used
  <2> QED  BY <2>2, <2>3, <2>4
<1>7. CASE Rx!ReadRound
  BY <1>7, RxReadRound
<1>8. CASE Rx!Pass
  <2>1. pc = "pass" /\ st = "open" /\ rx_app > 0  BY <1>1, <1>8 DEF Rx!Pass, RxPlace
  <2>2. UNCHANGED <<st, fin, bio_bytes_read, bp_loaned, rx, rec, rxGot, avail>> /\ poolShort' = poolShort
    BY <1>8 DEF Rx!Pass
  <2>3. CASE rx_app' = 0 /\ Rx!Recved(rx_app) /\ pc' = "read"
    <3> DEFINE paid == Rx!Least(rx_app, bp_debt)
    <3>1. bp_debt' = bp_debt - paid /\ wnd' = wnd + (rx_app - paid)  BY <2>3 DEF Rx!Recved
    <3>2. wnd \in Nat /\ rx_app \in Nat /\ bp_debt \in Nat /\ avail \in Nat /\ rx \in Nat
          /\ bio_bytes_read \in Nat /\ bp_loaned \in Nat
      BY <1>1 DEF RxCounts
    <3>3. paid \in Nat /\ paid <= rx_app /\ paid <= bp_debt /\ (paid = rx_app \/ paid = bp_debt)
      BY <3>2 DEF Rx!Least
    <3> HIDE DEF paid
    <3> DEFINE mid == IF avail > 0 THEN avail ELSE bio_bytes_read - bp_loaned
    <3>4. wnd + rx + mid + rx_app = Wnd + bp_debt /\ bp_debt <= avail + rx_app
      BY <1>1, <2>1 DEF Rx!WindowTrue
    <3>5. mid \in Int /\ mid' = mid  BY <2>2, <3>2
    <3> HIDE DEF mid
    <3>6. wnd' + rx' + mid' + rx_app' = Wnd + bp_debt' /\ bp_debt' <= avail' + rx_app'
      BY <1>0, <2>2, <2>3, <3>1, <3>2, <3>3, <3>4, <3>5
    <3>7. Rx!WindowTrue'
      <4>1. st' # "handshake"  BY <2>1, <2>2
      <4> QED  BY <3>6, <4>1 DEF Rx!WindowTrue, mid
    <3>8. RxCounts'
      <4>1. wnd' \in Nat /\ bp_debt' \in Nat /\ rx_app' \in Nat  BY <2>3, <3>1, <3>2, <3>3
      <4> QED  BY <1>1, <2>2, <4>1 DEF RxCounts
    <3>9. RxPlace'  BY <1>1, <2>1, <2>2, <2>3 DEF RxPlace
    <3>10. RxPhase'  BY <1>1, <2>1, <2>2 DEF RxPhase, Rx!RecordSize
    <3>11. Rx!FinIsLast'  BY <1>1, <2>2, <2>3 DEF Rx!FinIsLast
    <3> QED  BY <3>7, <3>8, <3>9, <3>10, <3>11 DEF RxInv
  <2>4. CASE pc' = "idle" /\ UNCHANGED <<rx_app, wnd, bp_debt>>
    <3>1. RxPlace'  BY <1>1, <2>1, <2>2, <2>4 DEF RxPlace
    <3> QED  BY <1>3, <2>2, <2>4, <3>1
  <2> QED  BY <1>8, <2>3, <2>4 DEF Rx!Pass
<1>9. CASE Rx!Kick
  <2>1. /\ st = "open" /\ pc = "idle" /\ pc' = (IF rx_app > 0 THEN "pass" ELSE "read")
        /\ UNCHANGED <<st, fin, rxGot, avail, rx_app, bio_bytes_read, bp_loaned, bp_debt, rec, poolShort, wnd, rx>>
    BY <1>9 DEF Rx!Kick
  <2>2. RxPlace'  BY <1>1, <2>1 DEF RxPlace, RxCounts
  <2> QED  BY <1>3, <2>1, <2>2
<1>10. CASE Rx!PeerFin
  <2>1. /\ st \in {"handshake", "open"} /\ pc = "idle" /\ fin = "no"
        /\ UNCHANGED <<rxGot, avail, rx_app, bio_bytes_read, bp_loaned, bp_debt, rec>> /\ wnd' = wnd /\ poolShort' = poolShort
    BY <1>10 DEF Rx!PeerFin
  <2>2. CASE Rx!Dealloc /\ UNCHANGED fin
    BY <1>5, <2>1, <2>2
  <2>3. CASE st = "open" /\ fin' = "queued" /\ pc' = (IF rx_app > 0 THEN "pass" ELSE "read") /\ UNCHANGED <<st, rx>>
    <3>1. RxPlace'  BY <1>1, <2>1, <2>3 DEF RxPlace, RxCounts
    <3>2. RxCounts'  BY <1>1, <2>1, <2>3 DEF RxCounts
    <3>3. RxPhase'  BY <1>1, <2>1, <2>3 DEF RxPhase, Rx!RecordSize
    <3>4. Rx!WindowTrue'  BY <1>1, <2>1, <2>3 DEF Rx!WindowTrue
    <3>5. Rx!FinIsLast'  BY <2>3 DEF Rx!FinIsLast
    <3> QED  BY <3>1, <3>2, <3>3, <3>4, <3>5 DEF RxInv
  <2>4. CASE st = "open" /\ ~(rx > 0 \/ rx_app > 0) /\ fin' = "passed" /\ UNCHANGED <<st, pc, rx>>
    <3>1. RxPlace'  BY <1>1, <2>1, <2>4 DEF RxPlace
    <3>2. RxCounts'  BY <1>1, <2>1, <2>4 DEF RxCounts
    <3>3. RxPhase'  BY <1>1, <2>1, <2>4 DEF RxPhase, Rx!RecordSize
    <3>4. Rx!WindowTrue'  BY <1>1, <2>1, <2>4 DEF Rx!WindowTrue
    <3>5. rx = 0 /\ rx_app = 0  BY <1>1, <2>4 DEF RxCounts
    <3>6. avail = 0 \/ poolShort  BY <1>1, <2>1, <3>5 DEF RxPlace
    <3>7. Rx!FinIsLast'  BY <2>1, <2>4, <3>5, <3>6 DEF Rx!FinIsLast
    <3> QED  BY <3>1, <3>2, <3>3, <3>4, <3>7 DEF RxInv
  <2> QED  BY <1>10, <2>2, <2>3, <2>4 DEF Rx!PeerFin
<1>11. CASE Rx!Close
  BY <1>5, <1>11 DEF Rx!Close
<1>12. CASE Rx!Room
  BY <1>1, <1>3, <1>12 DEF Rx!Room, RxPlace
<1>13. CASE Rx!Others
  BY <1>1, <1>3, <1>13 DEF Rx!Others, RxPlace
<1>14. CASE UNCHANGED rxVars
  BY <1>1, <1>3, <1>14 DEF rxVars, RxPlace
<1> QED
  BY <1>2, <1>4, <1>6, <1>7, <1>8, <1>9, <1>10, <1>11, <1>12, <1>13, <1>14 DEF Rx!Next, Rx!txVars, rxVars

\* altcp_tls_mbedtls_bp.c, for any window, buffer size, pool and order of segments, reads, refusals and kicks:
\* the window is neither lost nor opened twice, and a FIN comes last.
THEOREM ReceivesAreTrue == MCSpec => [](Rx!WindowTrue /\ Rx!FinIsLast)
<1>1. MCInit => RxInv
  <2> SUFFICES ASSUME MCInit PROVE RxInv
    OBVIOUS
  <2> HIDE DEF RecordLens
  <2>1. /\ st = "none" /\ fin = "no" /\ wnd = Wnd /\ pc = "idle"
        /\ bio_bytes_read = 0 /\ bp_loaned = 0 /\ bp_debt = 0 /\ rx = 0 /\ rec = 1 /\ rxGot = 0
        /\ avail = 0 /\ rx_app = 0
    BY DEF MCInit, Rx!Init
  <2>2. RxPlace /\ RxPhase /\ Rx!FinIsLast /\ Rx!WindowTrue  BY <2>1 DEF RxPlace, RxPhase, Rx!FinIsLast, Rx!WindowTrue
  <2>3. RxCounts  BY <2>1, RxConstants DEF RxCounts
  <2> QED  BY <2>2, <2>3 DEF RxInv
<1>2. [MCNext]_mcVars => [Rx!Next]_rxVars  BY DEF MCNext, Rest, mcVars
<1>3. RxInv => Rx!WindowTrue /\ Rx!FinIsLast  BY DEF RxInv
<1> QED  BY <1>1, <1>2, <1>3, RxInvStep, PTL DEF MCSpec
--------------------------------------------------------------------------------
\* Where the bytes are: overhead_bytes_adjust is what TCP holds beyond what the application still waits
\* for, and of the overhead no more has been acknowledged than there was.
TxInv ==
    /\ Tx!TypeOK /\ Tx!NothingLost
    /\ overhead_bytes_adjust = (queued - acked) - (txTaken - sentUp)
    /\ sentUp <= txTaken /\ sentUp <= acked /\ acked - sentUp <= overheads
    /\ ~hsDone => queued = acked /\ out_left = 0

\* altcp_mbedtls_bio_send: what goes out fits, and is all or nothing.
LEMMA TxOutcome ==
    ASSUME Tx!TypeOK, NEW f \in Nat, NEW n \in Nat, NEW m \in Tx!Outcome(f, n)
    PROVE  /\ m = 0 \/ (m = n /\ queued + f - acked + n <= SndBuf)
           /\ Tx!ShortBy(f, n, m) \in {0, 1}
           /\ Tx!ShortBy(f, n, m) = 1 => short < MaxShort
           /\ m = 0 /\ n > 0 /\ queued + f - acked + n <= SndBuf => Tx!ShortBy(f, n, m) = 1
<1>1. m = 0 \/ (m = n /\ Tx!Fits(f, n))  BY DEF Tx!Outcome
<1>2. m = 0 /\ n > 0 /\ Tx!Fits(f, n) => short < MaxShort  BY DEF Tx!Outcome
<1>3. Tx!Fits(f, n) <=> queued + f - acked + n <= SndBuf  BY DEF Tx!Fits
<1> QED  BY <1>1, <1>2, <1>3 DEF Tx!ShortBy

\* altcp_tls_mbedtls_bp.c, the sending side: each action keeps the invariant.
LEMMA TxInvStep ==
    ASSUME TxInv, [Tx!Next]_txVars
    PROVE  TxInv' /\ (Tx!LeavesAtOnce \/ UNCHANGED txVars)
<1>0. /\ {SndBuf, Expansion} \subseteq Nat \ {0} /\ TxHello \in Nat /\ Sizes \subseteq Nat \ {0}
      /\ {MaxWrites, MaxShort} \subseteq Nat
  BY Assumptions DEF Tx!ConstantsOK
<1>1. hsDone \in BOOLEAN /\ (~hsDone => queued = acked /\ out_left = 0)  BY DEF TxInv, Tx!TypeOK
<1>2. /\ out_left \in Nat /\ overhead_bytes_adjust \in Int
      /\ queued \in Nat /\ acked \in Nat /\ txTaken \in Nat /\ sentUp \in Nat /\ overheads \in Nat
      /\ queued - acked \in 0 .. SndBuf /\ writes \in 0 .. MaxWrites /\ short \in 0 .. MaxShort + 1
      /\ queued + out_left = txTaken + overheads
      /\ overhead_bytes_adjust = (queued - acked) - (txTaken - sentUp)
      /\ sentUp <= txTaken /\ sentUp <= acked /\ acked - sentUp <= overheads
  BY DEF TxInv, Tx!TypeOK, Tx!NothingLost
<1>3. out_left = 0 \/ \E n \in Sizes : out_left = n + Expansion  BY DEF TxInv, Tx!NothingLost
<1> DEFINE Numbers ==
      /\ out_left \in Nat /\ overhead_bytes_adjust \in Int
      /\ queued \in Nat /\ acked \in Nat /\ txTaken \in Nat /\ sentUp \in Nat /\ overheads \in Nat
      /\ queued - acked \in 0 .. SndBuf /\ writes \in 0 .. MaxWrites /\ short \in 0 .. MaxShort + 1
      /\ queued + out_left = txTaken + overheads
      /\ overhead_bytes_adjust = (queued - acked) - (txTaken - sentUp)
      /\ sentUp <= txTaken /\ sentUp <= acked /\ acked - sentUp <= overheads
    OneRecord == out_left = 0 \/ \E n \in Sizes : out_left = n + Expansion
<1>4. ASSUME Numbers', OneRecord', hsDone' \in BOOLEAN, ~hsDone' => queued' = acked' /\ out_left' = 0 PROVE TxInv'
  BY <1>4 DEF TxInv, Tx!TypeOK, Tx!NothingLost
<1>5. ASSUME txTaken' = txTaken PROVE Tx!LeavesAtOnce
  BY <1>2, <1>5 DEF Tx!LeavesAtOnce
<1>6. CASE Tx!Handshake
  <2>1. /\ TxHello <= SndBuf /\ queued' = queued + TxHello /\ overheads' = overheads + TxHello
        /\ overhead_bytes_adjust' = overhead_bytes_adjust + TxHello
        /\ UNCHANGED <<out_left, acked, txTaken, sentUp, writes, short>>
    BY <1>6 DEF Tx!Handshake
  <2>2. ~hsDone /\ hsDone' = TRUE  BY <1>6 DEF Tx!Handshake
  <2>3. queued = acked /\ out_left = 0  BY <1>1, <2>2
  <2>4. Numbers'  BY <1>0, <1>2, <2>1, <2>3
  <2>5. OneRecord'  BY <1>3, <2>1
  <2> QED  BY <1>4, <1>5, <2>1, <2>2, <2>4, <2>5
<1>7. CASE Tx!Write
  <2>1. hsDone /\ hsDone' = hsDone /\ writes < MaxWrites /\ writes' = writes + 1 /\ UNCHANGED <<acked, sentUp>>
    BY <1>7 DEF Tx!Write
  <2>2. PICK n \in Sizes, f \in Tx!Outcome(0, out_left) :
          LET held == out_left - f IN
          IF Tx!MayWrite(held)
          THEN \E g \in Tx!Outcome(f, n + Expansion) :
                 /\ out_left' = held + n + Expansion - g /\ queued' = queued + f + g
                 /\ overhead_bytes_adjust' = overhead_bytes_adjust + f + g - n
                 /\ txTaken' = txTaken + n /\ overheads' = overheads + Expansion
                 /\ short' = short + Tx!ShortBy(0, out_left, f) + Tx!ShortBy(f, n + Expansion, g)
          ELSE /\ out_left' = held /\ queued' = queued + f /\ overhead_bytes_adjust' = overhead_bytes_adjust + f
               /\ short' = short + Tx!ShortBy(0, out_left, f) /\ UNCHANGED <<txTaken, overheads>>
    BY <1>7 DEF Tx!Write
  <2>3. n \in Nat \ {0} /\ n + Expansion \in Nat  BY <1>0
  <2>4. /\ f = 0 \/ (f = out_left /\ queued + 0 - acked + out_left <= SndBuf)
        /\ Tx!ShortBy(0, out_left, f) \in {0, 1}
        /\ Tx!ShortBy(0, out_left, f) = 1 => short < MaxShort
    BY <1>2, TxOutcome DEF TxInv
  <2>5. CASE out_left - f = 0
    <3>1. Tx!MayWrite(out_left - f)  BY <2>5 DEF Tx!MayWrite
    <3>2. PICK g \in Tx!Outcome(f, n + Expansion) :
            /\ out_left' = out_left - f + n + Expansion - g /\ queued' = queued + f + g
            /\ overhead_bytes_adjust' = overhead_bytes_adjust + f + g - n
            /\ txTaken' = txTaken + n /\ overheads' = overheads + Expansion
            /\ short' = short + Tx!ShortBy(0, out_left, f) + Tx!ShortBy(f, n + Expansion, g)
      BY <2>2, <3>1
    <3>3. f \in Nat  BY <1>2, <2>4
    <3>4. /\ g = 0 \/ (g = n + Expansion /\ queued + f - acked + (n + Expansion) <= SndBuf)
          /\ Tx!ShortBy(f, n + Expansion, g) \in {0, 1}
          /\ Tx!ShortBy(f, n + Expansion, g) = 1 => short < MaxShort
          /\ g = 0 /\ n + Expansion > 0 /\ queued + f - acked + (n + Expansion) <= SndBuf
               => Tx!ShortBy(f, n + Expansion, g) = 1
      BY <2>3, <3>3, TxOutcome DEF TxInv
    <3> DEFINE a == Tx!ShortBy(0, out_left, f)   b == Tx!ShortBy(f, n + Expansion, g)
    <3>5. /\ a \in {0, 1} /\ b \in {0, 1} /\ (a = 1 => short < MaxShort) /\ (b = 1 => short < MaxShort)
          /\ short' = short + a + b
          /\ g = 0 /\ n + Expansion > 0 /\ queued + f - acked + (n + Expansion) <= SndBuf => b = 1
      BY <2>4, <3>2, <3>4
    <3> HIDE DEF a, b
    <3>6. short' \in 0 .. MaxShort + 1  BY <1>0, <1>2, <3>5
    <3>7. g = 0 \/ (g = n + Expansion /\ queued + f - acked + (n + Expansion) <= SndBuf)  BY <3>4
    <3>8. Numbers'  BY <1>0, <1>2, <2>1, <2>3, <2>4, <2>5, <3>2, <3>3, <3>6, <3>7
    <3>9. OneRecord'
      <4>1. out_left' = 0 \/ out_left' = n + Expansion  BY <1>0, <1>2, <2>3, <2>5, <3>2, <3>3, <3>7
      <4> QED  BY <4>1
    <3>10. Tx!LeavesAtOnce
      <4> SUFFICES ASSUME txTaken' - txTaken <= Tx!SndbufFor, out_left = 0, short' = short PROVE out_left' = 0
        BY DEF Tx!LeavesAtOnce
      <4>1. Tx!SndbufFor = (IF hsDone /\ SndBuf - (queued - acked) > Expansion
                            THEN SndBuf - (queued - acked) - Expansion ELSE 0)
        BY DEF Tx!SndbufFor
      <4>2. n <= Tx!SndbufFor /\ f = 0  BY <1>2, <2>3, <2>4, <3>2
      <4>3. n <= SndBuf - (queued - acked) - Expansion
        <5>1. CASE hsDone /\ SndBuf - (queued - acked) > Expansion  BY <4>1, <4>2, <5>1
        <5>2. CASE ~(hsDone /\ SndBuf - (queued - acked) > Expansion)
          <6>1. Tx!SndbufFor = 0  BY <4>1, <5>2
          <6> QED  BY <2>3, <4>2, <6>1
        <5> QED  BY <5>1, <5>2
      <4>4. b = 0  BY <1>2, <3>5
      <4>5. g # 0  BY <1>0, <1>2, <2>3, <3>5, <4>2, <4>3, <4>4
      <4> QED  BY <1>0, <1>2, <2>3, <2>5, <3>2, <3>7, <4>5
    <3> QED  BY <1>4, <2>1, <3>8, <3>9, <3>10
  <2>6. CASE out_left - f # 0
    <3>1. ~Tx!MayWrite(out_left - f)  BY <2>6 DEF Tx!MayWrite
    <3>2. /\ out_left' = out_left - f /\ queued' = queued + f /\ overhead_bytes_adjust' = overhead_bytes_adjust + f
          /\ short' = short + Tx!ShortBy(0, out_left, f) /\ UNCHANGED <<txTaken, overheads>>
      BY <2>2, <3>1
    <3>3. short' \in 0 .. MaxShort + 1  BY <1>0, <1>2, <2>4, <3>2
    <3>4. f = 0  BY <1>2, <2>4, <2>6
    <3>5. Numbers'  BY <1>0, <1>2, <2>1, <3>2, <3>3, <3>4
    <3>6. OneRecord'  BY <1>2, <1>3, <3>2, <3>4
    <3> QED  BY <1>4, <1>5, <2>1, <3>2, <3>5, <3>6
  <2> QED  BY <2>5, <2>6
<1>8. ASSUME NEW f \in Tx!Outcome(0, out_left), out_left' = out_left - f, short' = short + Tx!ShortBy(0, out_left, f)
      PROVE  /\ f = 0 \/ f = out_left
             /\ queued + f - acked \in 0 .. SndBuf /\ f \in Nat
             /\ out_left' \in Nat /\ short' \in 0 .. MaxShort + 1 /\ OneRecord'
  <2>1. /\ f = 0 \/ (f = out_left /\ queued + 0 - acked + out_left <= SndBuf)
        /\ Tx!ShortBy(0, out_left, f) \in {0, 1}
        /\ Tx!ShortBy(0, out_left, f) = 1 => short < MaxShort
    BY <1>2, TxOutcome DEF TxInv
  <2>2. short' \in 0 .. MaxShort + 1  BY <1>0, <1>2, <1>8, <2>1
  <2>3. queued + f - acked \in 0 .. SndBuf /\ f \in Nat  BY <1>0, <1>2, <2>1
  <2>4. out_left' = 0 \/ out_left' = out_left  BY <1>2, <1>8, <2>1
  <2> QED  BY <1>2, <1>3, <2>1, <2>2, <2>3, <2>4
<1>9. CASE Tx!LowerSent
  <2>1. UNCHANGED <<hsDone, txTaken, overheads, writes>>  BY <1>9 DEF Tx!LowerSent
  <2>2. PICK len \in 1 .. queued - acked, f \in Tx!Outcome(0, out_left) :
          LET over == IF Tx!OverheadDue < 0 \/ Tx!OverheadDue > len THEN len ELSE Tx!OverheadDue
              app == len - over IN
          /\ acked' = acked + len /\ sentUp' = sentUp + app
          /\ out_left' = out_left - f /\ queued' = queued + f /\ short' = short + Tx!ShortBy(0, out_left, f)
          /\ overhead_bytes_adjust' = overhead_bytes_adjust - len + f + app
    BY <1>9 DEF Tx!LowerSent
  <2> DEFINE due == Tx!OverheadDue   over == IF due < 0 \/ due > len THEN len ELSE due
  <2>3. /\ acked' = acked + len /\ sentUp' = sentUp + (len - over)
        /\ out_left' = out_left - f /\ queued' = queued + f /\ short' = short + Tx!ShortBy(0, out_left, f)
        /\ overhead_bytes_adjust' = overhead_bytes_adjust - len + f + (len - over)
    BY <2>2
  <2>4. /\ f = 0 \/ f = out_left
        /\ queued + f - acked \in 0 .. SndBuf /\ f \in Nat
        /\ out_left' \in Nat /\ short' \in 0 .. MaxShort + 1 /\ OneRecord'
    BY <1>8, <2>3
  <2>5. due = overheads - (acked - sentUp)  BY <1>2 DEF Tx!OverheadDue
  <2> HIDE DEF due
  <2>6. due \in Nat /\ over \in 0 .. len /\ over <= due /\ len \in Nat /\ len <= queued - acked
    BY <1>2, <2>5
  <2>7. sentUp + (len - over) <= txTaken  BY <1>2, <2>5, <2>6
  <2> HIDE DEF over
  <2>8. Numbers'
    <3>1. txTaken' = txTaken /\ overheads' = overheads /\ writes' = writes  BY <2>1
    <3>2. out_left' = out_left - f /\ queued' = queued + f /\ acked' = acked + len  BY <2>3
    <3>3. queued' \in Nat /\ acked' \in Nat /\ out_left' \in Nat /\ queued' + out_left' = queued + out_left
      BY <1>2, <2>4, <2>6, <3>2
    <3>4. queued' - acked' \in 0 .. SndBuf  BY <1>0, <1>2, <2>4, <2>6, <3>2
    <3>5. sentUp' \in Nat /\ sentUp' <= txTaken /\ sentUp' <= acked'  BY <1>2, <2>3, <2>6, <2>7
    <3>6. acked' - sentUp' <= overheads  BY <1>2, <2>3, <2>5, <2>6
    <3>7. /\ overhead_bytes_adjust' \in Int
          /\ overhead_bytes_adjust' = (queued' - acked') - (txTaken - sentUp')
      BY <1>2, <2>3, <2>4, <2>6
    <3>8. short' \in 0 .. MaxShort + 1  BY <2>4
    <3> QED  BY <1>2, <3>1, <3>3, <3>4, <3>5, <3>6, <3>7, <3>8
  <2>9. ~hsDone' => queued' = acked' /\ out_left' = 0  BY <1>1, <1>2, <2>1, <2>6
  <2> QED  BY <1>1, <1>4, <1>5, <2>1, <2>4, <2>8, <2>9
<1>10. CASE Tx!LowerPoll
  <2>1. UNCHANGED <<hsDone, acked, txTaken, sentUp, overheads, writes>> /\ out_left > 0  BY <1>10 DEF Tx!LowerPoll
  <2>2. PICK f \in Tx!Outcome(0, out_left) :
          /\ out_left' = out_left - f /\ queued' = queued + f /\ short' = short + Tx!ShortBy(0, out_left, f)
          /\ overhead_bytes_adjust' = overhead_bytes_adjust + f
    BY <1>10 DEF Tx!LowerPoll
  <2>3. /\ f = 0 \/ f = out_left
        /\ queued + f - acked \in 0 .. SndBuf /\ f \in Nat
        /\ out_left' \in Nat /\ short' \in 0 .. MaxShort + 1 /\ OneRecord'
    BY <1>8, <2>2
  <2>4. Numbers'  BY <1>2, <2>1, <2>2, <2>3
  <2>5. hsDone  BY <1>1, <1>2, <2>1
  <2> QED  BY <1>1, <1>4, <1>5, <2>1, <2>3, <2>4, <2>5
<1>11. CASE UNCHANGED txVars
  BY <1>11 DEF TxInv, txVars, Tx!TypeOK, Tx!NothingLost
<1> QED
  BY <1>6, <1>7, <1>9, <1>10, <1>11 DEF Tx!Next, Tx!txVars, txVars

\* It holds from the start, for any order of writes and acknowledgements.
LEMMA TxInvariant == MCSpec => []TxInv
<1>1. MCInit => TxInv
  <2> SUFFICES ASSUME MCInit PROVE TxInv
    OBVIOUS
  <2>1. /\ hsDone = FALSE /\ out_left = 0 /\ overhead_bytes_adjust = 0 /\ queued = 0 /\ acked = 0
        /\ txTaken = 0 /\ sentUp = 0 /\ overheads = 0 /\ writes = 0 /\ short = 0
    BY DEF MCInit, Tx!Init
  <2>2. SndBuf \in Nat /\ MaxWrites \in Nat /\ MaxShort \in Nat
    BY Assumptions DEF Tx!ConstantsOK
  <2>3. Tx!TypeOK
    <3>1. hsDone \in BOOLEAN  BY <2>1
    <3>2. /\ out_left \in Nat /\ overhead_bytes_adjust \in Int
          /\ queued \in Nat /\ acked \in Nat /\ txTaken \in Nat /\ sentUp \in Nat /\ overheads \in Nat
          /\ queued - acked \in 0 .. SndBuf /\ writes \in 0 .. MaxWrites /\ short \in 0 .. MaxShort + 1
      <4>1. /\ out_left = 0 /\ overhead_bytes_adjust = 0 /\ queued = 0 /\ acked = 0
            /\ txTaken = 0 /\ sentUp = 0 /\ overheads = 0 /\ writes = 0 /\ short = 0
        BY <2>1
      <4> QED  BY <2>2, <4>1
    <3> QED  BY <3>1, <3>2 DEF Tx!TypeOK
  <2> QED  BY <2>1, <2>3 DEF TxInv, Tx!NothingLost
<1>2. [MCNext]_mcVars => [Tx!Next]_txVars  BY DEF MCNext, Rest, mcVars
<1> QED  BY <1>1, <1>2, TxInvStep, PTL DEF MCSpec

\* altcp_tls_mbedtls_bp.c: for any send buffer, expansion, writes and order of acknowledgements, the
\* application is told of no byte the peer has not acknowledged, and of each in the end; none is lost.
THEOREM SendsAreTrue == MCSpec => [](Tx!SentIsTrue /\ Tx!NothingLost)
<1>1. TxInv => Tx!SentIsTrue /\ Tx!NothingLost
  <2> SUFFICES ASSUME TxInv PROVE Tx!SentIsTrue /\ Tx!NothingLost
    OBVIOUS
  <2>1. /\ {queued, acked, txTaken, sentUp, overheads} \subseteq Nat
        /\ out_left \in Nat /\ queued + out_left = txTaken + overheads
        /\ sentUp <= txTaken /\ sentUp <= acked /\ acked - sentUp <= overheads
    BY DEF TxInv, Tx!TypeOK, Tx!NothingLost
  <2>2. Tx!SentIsTrue  BY <2>1 DEF Tx!SentIsTrue
  <2> QED  BY <2>2 DEF TxInv
<1> QED  BY <1>1, TxInvariant, PTL
--------------------------------------------------------------------------------
\* What travels between the server and the worker: a frame or an item of the worker's queue.
Items == {f \in [k : {"cmd", "open", "close", "data", "reset", "idle"}, r : Reqs \cup {NoReq}, n : Nat, bad : BOOLEAN] :
             f.k = "cmd" <=> f.r # NoReq}

\* A request is in a queue once.
Distinct(q) == \A i, j \in 1 .. Len(q) : q[i].r = q[j].r /\ q[i].r # NoReq => i = j

\* A frame that joins a queue.
LEMMA ItemAppend ==
    ASSUME NEW q \in Seq(Items), NEW f \in Items
    PROVE  /\ Append(q, f) \in Seq(Items) /\ Append(q, f) # <<>>
           /\ Traffic!Pending(Append(q, f)) = Traffic!Pending(q) \cup ({f.r} \ {NoReq})
           /\ Distinct(q) /\ f.r \notin Traffic!Pending(q) => Distinct(Append(q, f))
<1>1. Append(q, f) \in Seq(Items) /\ Len(Append(q, f)) = Len(q) + 1 /\ Len(q) \in Nat /\ DOMAIN q = 1 .. Len(q)
      /\ DOMAIN Append(q, f) = 1 .. Len(q) + 1
  OBVIOUS
<1>2. /\ \A i \in 1 .. Len(q) : Append(q, f)[i] = q[i]
      /\ Append(q, f)[Len(q) + 1] = f
  OBVIOUS
<1>3. Append(q, f) # <<>>
  <2>1. Len(<<>>) = 0 /\ Len(q) + 1 # 0  BY <1>1
  <2> QED  BY <1>1, <2>1
<1> DEFINE l == Append(q, f)
<1> HIDE DEF l
<1>4. Traffic!Pending(l) = Traffic!Pending(q) \cup ({f.r} \ {NoReq})
  <2>1. \A x : x \in Traffic!Pending(l) <=> x # NoReq /\ \E i \in 1 .. Len(q) + 1 : l[i].r = x
    BY <1>1 DEF Traffic!Pending, l
  <2>2. \A x : x \in Traffic!Pending(q) <=> x # NoReq /\ \E i \in 1 .. Len(q) : q[i].r = x
    BY <1>1 DEF Traffic!Pending
  <2>3. \A x : (\E i \in 1 .. Len(q) + 1 : l[i].r = x) <=> (\E i \in 1 .. Len(q) : q[i].r = x) \/ x = f.r
    <3>1. \A i \in 1 .. Len(q) + 1 : i \in 1 .. Len(q) \/ i = Len(q) + 1  BY <1>1
    <3>2. 1 .. Len(q) \subseteq 1 .. Len(q) + 1 /\ Len(q) + 1 \in 1 .. Len(q) + 1  BY <1>1
    <3> QED  BY <1>2, <3>1, <3>2 DEF l
  <2> QED  BY <2>1, <2>2, <2>3
<1>5. ASSUME Distinct(q), f.r \notin Traffic!Pending(q) PROVE Distinct(l)
  <2>1. \A i \in 1 .. Len(q) : q[i].r # f.r \/ f.r = NoReq  BY <1>1, <1>5 DEF Traffic!Pending
  <2>2. \A i \in 1 .. Len(q) + 1 : i \in 1 .. Len(q) \/ i = Len(q) + 1  BY <1>1
  <2>3. Len(l) = Len(q) + 1 /\ (\A i \in 1 .. Len(q) : l[i] = q[i]) /\ l[Len(q) + 1] = f
    BY <1>1, <1>2 DEF l
  <2> QED  BY <1>5, <2>1, <2>2, <2>3 DEF Distinct
<1> QED  BY <1>1, <1>3, <1>4, <1>5 DEF l

\* A frame that leaves it.
LEMMA ItemTail ==
    ASSUME NEW q \in Seq(Items), q # <<>>, Distinct(q)
    PROVE  /\ Tail(q) \in Seq(Items) /\ Head(q) \in Items /\ Distinct(Tail(q))
           /\ Traffic!Pending(Tail(q)) = Traffic!Pending(q) \ {Head(q).r}
           /\ Head(q).r # NoReq => Head(q).r \in Traffic!Pending(q)
<1>1. Tail(q) \in Seq(Items) /\ Len(Tail(q)) = Len(q) - 1 /\ Len(q) \in Nat \ {0} /\ DOMAIN q = 1 .. Len(q)
      /\ DOMAIN Tail(q) = 1 .. Len(q) - 1 /\ Head(q) = q[1] /\ q[1] \in Items
  OBVIOUS
<1>2. \A i \in 1 .. Len(q) - 1 : Tail(q)[i] = q[i + 1]  OBVIOUS
<1> DEFINE l == Tail(q)
<1>3. Len(l) = Len(q) - 1 /\ \A i \in 1 .. Len(q) - 1 : l[i] = q[i + 1]  BY <1>1, <1>2
<1>4. DOMAIN l = 1 .. Len(q) - 1  BY <1>1
<1> HIDE DEF l
<1>5. Distinct(l)
  <2>1. \A i \in 1 .. Len(q) - 1 : i + 1 \in 1 .. Len(q) /\ i \in Int  BY <1>1
  <2> SUFFICES ASSUME NEW i \in 1 .. Len(l), NEW j \in 1 .. Len(l), l[i].r = l[j].r, l[i].r # NoReq PROVE i = j
    BY DEF Distinct
  <2>2. i + 1 \in 1 .. Len(q) /\ j + 1 \in 1 .. Len(q) /\ i \in Int /\ j \in Int  BY <1>3, <2>1
  <2>3. q[i + 1].r = q[j + 1].r /\ q[i + 1].r # NoReq  BY <1>3
  <2>4. i + 1 = j + 1  BY <2>2, <2>3 DEF Distinct
  <2> QED  BY <2>2, <2>4
<1>6. Traffic!Pending(l) = Traffic!Pending(q) \ {Head(q).r}
  <2>1. \A x : x \in Traffic!Pending(l) <=> x # NoReq /\ \E i \in 1 .. Len(q) - 1 : q[i + 1].r = x
    BY <1>3, <1>4 DEF Traffic!Pending
  <2>2. \A x : x \in Traffic!Pending(q) <=> x # NoReq /\ \E i \in 1 .. Len(q) : q[i].r = x
    BY <1>1 DEF Traffic!Pending
  <2>3. ASSUME NEW x, x # NoReq
        PROVE  (\E i \in 1 .. Len(q) - 1 : q[i + 1].r = x) <=> (\E i \in 1 .. Len(q) : q[i].r = x) /\ x # q[1].r
    <3>1. ASSUME NEW i \in 1 .. Len(q) - 1, q[i + 1].r = x PROVE (\E j \in 1 .. Len(q) : q[j].r = x) /\ x # q[1].r
      <4>1. i + 1 \in 1 .. Len(q) /\ i + 1 # 1 /\ 1 \in 1 .. Len(q)  BY <1>1
      <4> QED  BY <2>3, <3>1, <4>1 DEF Distinct
    <3>2. ASSUME NEW i \in 1 .. Len(q), q[i].r = x, x # q[1].r PROVE \E j \in 1 .. Len(q) - 1 : q[j + 1].r = x
      <4>1. i - 1 \in 1 .. Len(q) - 1 /\ (i - 1) + 1 = i  BY <1>1, <3>2
      <4> QED  BY <3>2, <4>1
    <3> QED  BY <3>1, <3>2
  <2>4. \A x : x \in Traffic!Pending(l) <=> x \in Traffic!Pending(q) /\ x # q[1].r
    BY <2>1, <2>2, <2>3
  <2> QED  BY <1>1, <2>4
<1>7. Head(q).r # NoReq => Head(q).r \in Traffic!Pending(q)
  <2>1. 1 \in 1 .. Len(q)  BY <1>1
  <2> QED  BY <1>1, <2>1 DEF Traffic!Pending
<1> QED  BY <1>1, <1>5, <1>6, <1>7 DEF l

\* An empty queue, and a queue with what one frame at most follows.
LEMMA ItemEnds ==
    /\ Traffic!Pending(<<>>) = {} /\ Distinct(<<>>)
    /\ \A p, q \in Seq(Items) : 
         Len(q) <= 1 => \/ q = <<>> /\ p \o q = p
                        \/ \E f \in Items : q = <<f>> /\ p \o q = Append(p, f)
<1>1. Traffic!Pending(<<>>) = {}  BY DEF Traffic!Pending
<1>2. Distinct(<<>>)  BY DEF Distinct
<1>3. ASSUME NEW p \in Seq(Items), NEW q \in Seq(Items), Len(q) <= 1
      PROVE  \/ q = <<>> /\ p \o q = p
             \/ \E f \in Items : q = <<f>> /\ p \o q = Append(p, f)
  <2>1. CASE Len(q) = 0
    BY <2>1
  <2>2. CASE Len(q) = 1
    <3>1. q[1] \in Items /\ q = <<q[1]>>  BY <2>2
    <3>2. p \o <<q[1]>> = Append(p, q[1])  OBVIOUS
    <3> QED  BY <3>1, <3>2
  <2>3. Len(q) = 0 \/ Len(q) = 1
    <3>1. Len(q) \in Nat  OBVIOUS
    <3> QED  BY <1>3, <3>1
  <2> QED  BY <2>1, <2>2, <2>3
<1> QED  BY <1>1, <1>2, <1>3

\* The frames the server sends, and what the worker is given: nothing garbled.
NetItems == {f \in Items : f.k \in {"cmd", "open", "close", "data"}}
WorkItems == {f \in Items : f.k \in {"cmd", "data", "reset"} /\ (f.k = "data" => ~f.bad)}

\* The types of the queues, of the server's chunks and of what it has not sent.
FramesTyped == s_acc \in Seq(NetItems) /\ tls \in Seq(NetItems) /\ work \in Seq(WorkItems) /\ chunk \in Nat /\ unsent \subseteq Reqs

\* cloud_client.c, hw_worker_submit_tunnel, hw_worker_submit_cloud: what is handed on is what may be.
LEMMA FramesTypedStep ==
    ASSUME FramesTyped, [Traffic!Next]_trafficVars
    PROVE  FramesTyped'
<1> USE DEF Traffic!inVars, Traffic!rxVars, Traffic!workVars, Traffic!slotVars, Traffic!outVars
<1>1. s_acc \in Seq(NetItems) /\ tls \in Seq(NetItems) /\ work \in Seq(WorkItems) /\ chunk \in Nat /\ unsent \subseteq Reqs
  BY DEF FramesTyped
<1>2. /\ \A x \in Reqs, big \in BOOLEAN : Traffic!Cmd(x, big) \in NetItems
      /\ \A i \in Nat, big \in BOOLEAN : Traffic!Chunk(i, big) \in NetItems
      /\ Traffic!Control("open") \in NetItems /\ Traffic!Control("close") \in NetItems /\ Traffic!Reset \in WorkItems
  <2>1. NoReq \notin Reqs  BY Assumptions DEF Traffic!ConstantsOK
  <2> QED  BY <2>1 DEF Traffic!Cmd, Traffic!Chunk, Traffic!Control, Traffic!Reset, Items, NetItems, WorkItems
<1>3. ASSUME NEW f \in NetItems, Traffic!Receive(f) PROVE s_acc' \in Seq(NetItems) /\ tls' \in Seq(NetItems)
  <2>1. Append(s_acc, f) \in Seq(NetItems) /\ Append(tls, f) \in Seq(NetItems)  BY <1>1
  <2> QED  BY <1>1, <1>3, <2>1 DEF Traffic!Receive
<1>4. CASE Traffic!ServerSends
  <2>1. work' = work /\ chunk' \in {0, chunk, chunk + 1} /\ unsent' \subseteq unsent
    BY <1>4 DEF Traffic!ServerSends
  <2>2. \E f \in NetItems : Traffic!Receive(f)  BY <1>1, <1>2, <1>4 DEF Traffic!ServerSends
  <2>3. s_acc' \in Seq(NetItems) /\ tls' \in Seq(NetItems)  BY <1>3, <2>2
  <2> QED  BY <1>1, <2>1, <2>3 DEF FramesTyped
<1>5. CASE Traffic!Kick
  <2>1. s_acc \o tls \in Seq(NetItems)  BY <1>1
  <2> QED  BY <1>1, <1>5, <2>1 DEF Traffic!Kick, FramesTyped
<1>6. Traffic!SubmitReset => work' \in Seq(WorkItems)
  <2>1. Append(work, Traffic!Reset) \in Seq(WorkItems)  BY <1>1, <1>2
  <2> QED  BY <1>1, <2>1 DEF Traffic!SubmitReset
<1>7. CASE Traffic!ProcessFrame
  <2> DEFINE f == Head(s_acc)
  <2>1. /\ s_acc # <<>> /\ UNCHANGED Traffic!inVars
        /\ Traffic!HandleCommand(f) \/ Traffic!HandleTunnel(f) \/ Traffic!HandleData(f)
    BY <1>7 DEF Traffic!ProcessFrame
  <2>2. f \in NetItems /\ Tail(s_acc) \in Seq(NetItems)  BY <1>1, <2>1
  <2> HIDE DEF f
  <2>3. s_acc' = Tail(s_acc) /\ tls' = tls
    BY <2>1 DEF Traffic!HandleCommand, Traffic!HandleTunnel, Traffic!HandleData, Traffic!Consume
  <2>4. ASSUME f.k \in {"cmd", "data"}, f.k = "data" => ~f.bad PROVE Append(work, f) \in Seq(WorkItems)
    <3>1. f \in WorkItems  BY <2>2, <2>4 DEF NetItems, WorkItems
    <3> QED  BY <1>1, <3>1
  <2>5. \/ work' = work \/ Traffic!SubmitReset
        \/ f.k \in {"cmd", "data"} /\ (f.k = "data" => ~f.bad) /\ work' = Append(work, f)
    BY <2>1 DEF Traffic!HandleCommand, Traffic!HandleTunnel, Traffic!HandleData, Traffic!TunnelFail, Traffic!Submit
  <2>6. work' \in Seq(WorkItems)  BY <1>1, <1>6, <2>4, <2>5
  <2> QED  BY <1>1, <2>1, <2>2, <2>3, <2>6 DEF FramesTyped
<1>8. CASE Traffic!LinkLost
  <2>1. s_acc' = <<>> /\ tls' = <<>> /\ (Traffic!SubmitReset \/ work' = work) /\ UNCHANGED <<unsent, chunk>>
    BY <1>8 DEF Traffic!LinkLost
  <2> QED  BY <1>1, <1>6, <2>1 DEF FramesTyped
<1>9. CASE Traffic!WorkerTakes
  <2>1. Tail(work) \in Seq(WorkItems)  BY <1>1, <1>9 DEF Traffic!WorkerTakes
  <2> QED  BY <1>1, <1>9, <2>1 DEF Traffic!WorkerTakes, FramesTyped
<1>10. CASE Traffic!FrameReply \/ Traffic!Resend \/ Traffic!Buffer \/ Traffic!WorkerUnparks \/ Traffic!WorkerReplies
  BY <1>1, <1>10 DEF Traffic!FrameReply, Traffic!Resend, Traffic!Buffer, Traffic!WorkerUnparks, Traffic!WorkerReplies,
                     FramesTyped
<1>11. CASE UNCHANGED trafficVars
  BY <1>1, <1>11 DEF trafficVars, FramesTyped
<1> QED
  BY <1>4, <1>5, <1>7, <1>8, <1>9, <1>10, <1>11 DEF Traffic!Next, Traffic!Net, Traffic!Worker

\* A request is unsent, in the queues of the net task (a), kept by TLS (b), with the worker (c), waits to be
\* sent (p), or was answered; one that nobody replaced is answered once.
Counted(a, b, c, p, u, ans, rep) ==
    /\ a \cup b \cup c \cup u \subseteq Reqs /\ p \in Reqs \cup {NoReq} /\ ans \in [Reqs -> Nat]
    /\ a \cap b = {} /\ a \cap c = {} /\ b \cap c = {} /\ p \notin a \cup b \cup c /\ u \cap (a \cup b \cup c \cup {p}) = {}
    /\ \A x \in a \cup b \cup c \cup ({p} \ {NoReq}) : ans[x] = 0
    /\ \A x \in Reqs \ (u \cup rep) : x \in a \cup b \cup c \cup {p} \/ ans[x] = 1
    /\ \A x \in u : ans[x] = 0

\* The requests that the worker has: queued, in hand, or their replies announced.
WithWorker == Traffic!Pending(work) \cup ({w.r} \ {NoReq}) \cup (IF s_cloud_ready THEN {s_cloud_req_id} ELSE {})

\* The queues' types, and a frame at most that TLS keeps.
TrafficTypes ==
    /\ s_acc \in Seq(Items) /\ tls \in Seq(Items) /\ work \in Seq(Items) /\ w \in Items
    /\ Len(tls) <= 1 /\ Distinct(s_acc) /\ Distinct(work) /\ chunk \in Nat

\* The worker's reply slot: one command at a time is queued, in hand or announced.
OneCommand ==
    /\ s_cloud_ready => s_cloud_pending /\ s_cloud_reply = s_cloud_req_id /\ s_cloud_req_id \in Reqs /\ w.k # "cmd"
    /\ w.k = "cmd" \/ Traffic!Pending(work) # {} => s_cloud_pending /\ ~s_cloud_ready
    /\ w.k = "cmd" => Traffic!Pending(work) = {}
    /\ \A x, y \in Traffic!Pending(work) : x = y

\* The inductive invariant of the account.
AccountInv ==
    /\ TrafficTypes /\ OneCommand
    /\ Counted(Traffic!Pending(s_acc), Traffic!Pending(tls), WithWorker, s_pend, unsent, answers, replaced)

\* cl_send_reply_frame: the request x, taken from a or from c, is answered, or waits instead of the one
\* that waited.
LEMMA CountResponds ==
    ASSUME NEW a, NEW b, NEW c, NEW p, NEW u, NEW ans, NEW rep, Counted(a, b, c, p, u, ans, rep),
           NEW x \in a \cup c, NEW q, NEW ans2, NEW rep2,
           \/ q = x /\ ans2 = ans
           \/ q = NoReq /\ ans2 = [ans EXCEPT ![x] = @ + 1],
           rep2 = rep \cup ({p} \ {NoReq, x})
    PROVE  Counted(a \ {x}, b, c \ {x}, q, u, ans2, rep2)
<1>1. NoReq \notin Reqs  BY Assumptions DEF Traffic!ConstantsOK
<1>2. x \in Reqs /\ ans \in [Reqs -> Nat] /\ ans[x] = 0 /\ x # NoReq /\ x \notin b /\ x # p /\ x \notin u
  BY <1>1 DEF Counted
<1>3. ans2 \in [Reqs -> Nat] /\ (q = x \/ (q = NoReq /\ ans2[x] = 1)) /\ (\A y \in Reqs \ {x} : ans2[y] = ans[y])
      /\ (q = x => ans2 = ans)
  BY <1>2
<1>4. \A y \in Reqs \ (u \cup rep2) : y \in (a \ {x}) \cup b \cup (c \ {x}) \cup {q} \/ ans2[y] = 1
  <2> SUFFICES ASSUME NEW y \in Reqs, y \notin u, y \notin rep2,
                      y \notin (a \ {x}) \cup b \cup (c \ {x}) \cup {q}
               PROVE  ans2[y] = 1
    OBVIOUS
  <2>1. CASE y = x  BY <1>3, <2>1
  <2>2. CASE y # x
    <3>1. y # p /\ y \notin a \cup b \cup c  BY <1>1, <2>2
    <3>2. ans[y] = 1  BY <3>1 DEF Counted
    <3> QED  BY <1>3, <2>2, <3>2
  <2> QED  BY <2>1, <2>2
<1>5. \A y \in (a \ {x}) \cup b \cup (c \ {x}) \cup ({q} \ {NoReq}) : ans2[y] = 0
  BY <1>2, <1>3 DEF Counted
<1>6. \A y \in u : ans2[y] = 0  BY <1>2, <1>3 DEF Counted
<1>7. /\ (a \ {x}) \cup b \cup (c \ {x}) \cup u \subseteq Reqs /\ q \in Reqs \cup {NoReq}
      /\ (a \ {x}) \cap b = {} /\ (a \ {x}) \cap (c \ {x}) = {} /\ b \cap (c \ {x}) = {}
  BY <1>2, <1>3 DEF Counted
<1>8. /\ q \notin (a \ {x}) \cup b \cup (c \ {x})
      /\ u \cap ((a \ {x}) \cup b \cup (c \ {x}) \cup {q}) = {}
  BY <1>1, <1>2, <1>3 DEF Counted
<1> QED  BY <1>3, <1>4, <1>5, <1>6, <1>7, <1>8 DEF Counted

\* A request is sent, moves on, or is sent as the response that waited.
LEMMA CountMoves ==
    ASSUME NEW a, NEW b, NEW c, NEW p, NEW u, NEW ans, NEW rep, Counted(a, b, c, p, u, ans, rep)
    PROVE  /\ \A x \in u : Counted(a \cup {x}, b, c, p, u \ {x}, ans, rep) /\ Counted(a, b \cup {x}, c, p, u \ {x}, ans, rep)
           /\ \A x \in a : Counted(a \ {x}, b, c \cup {x}, p, u, ans, rep)
           /\ Counted(a \cup b, {}, c, p, u, ans, rep)
           /\ p # NoReq => Counted(a, b, c, NoReq, u, [ans EXCEPT ![p] = @ + 1], rep)
<1>1. NoReq \notin Reqs  BY Assumptions DEF Traffic!ConstantsOK
<1>2. ASSUME NEW x \in u PROVE Counted(a \cup {x}, b, c, p, u \ {x}, ans, rep)
  BY <1>1, <1>2 DEF Counted
<1>3. ASSUME NEW x \in u PROVE Counted(a, b \cup {x}, c, p, u \ {x}, ans, rep)
  BY <1>1, <1>3 DEF Counted
<1>4. ASSUME NEW x \in a PROVE Counted(a \ {x}, b, c \cup {x}, p, u, ans, rep)
  BY <1>4 DEF Counted
<1>5. Counted(a \cup b, {}, c, p, u, ans, rep)  BY DEF Counted
<1>6. ASSUME p # NoReq PROVE Counted(a, b, c, NoReq, u, [ans EXCEPT ![p] = @ + 1], rep)
  <2> DEFINE ans2 == [ans EXCEPT ![p] = @ + 1]
  <2>1. p \in Reqs /\ ans \in [Reqs -> Nat] /\ ans[p] = 0 /\ p \notin u  BY <1>6 DEF Counted
  <2>2. ans2 \in [Reqs -> Nat] /\ ans2[p] = 1 /\ (\A y \in Reqs \ {p} : ans2[y] = ans[y])  BY <2>1
  <2> HIDE DEF ans2
  <2>3. Counted(a, b, c, NoReq, u, ans2, rep)  BY <1>1, <2>1, <2>2 DEF Counted
  <2> QED  BY <2>3 DEF ans2
<1> QED  BY <1>2, <1>3, <1>4, <1>5, <1>6

\* cl_drop_link: the requests of the old link are nobody's; the worker keeps what it has, or its reply is dropped.
LEMMA CountDrops ==
    ASSUME NEW a, NEW b, NEW c, NEW p, NEW u, NEW ans, NEW rep, Counted(a, b, c, p, u, ans, rep), NEW c2 \in SUBSET c
    PROVE  Counted({}, {}, c2, NoReq, u, ans, rep \cup {x \in Reqs \ u : ans[x] = 0})
<1>1. NoReq \notin Reqs  BY Assumptions DEF Traffic!ConstantsOK
<1> QED  BY <1>1 DEF Counted

\* Primes of the operators above.
LEMMA QueuesPrimed ==
    /\ Traffic!Pending(work)' = Traffic!Pending(work') /\ Traffic!Pending(s_acc)' = Traffic!Pending(s_acc')
    /\ Traffic!Pending(tls)' = Traffic!Pending(tls') /\ Distinct(s_acc)' = Distinct(s_acc')
    /\ Distinct(work)' = Distinct(work')
<1>1. /\ Traffic!Pending(work)' = Traffic!Pending(work') /\ Traffic!Pending(s_acc)' = Traffic!Pending(s_acc')
      /\ Traffic!Pending(tls)' = Traffic!Pending(tls')
  BY DEF Traffic!Pending
<1>2. Distinct(s_acc)' = Distinct(s_acc') /\ Distinct(work)' = Distinct(work')  BY DEF Distinct
<1> QED  BY <1>1, <1>2

\* What is to be shown of a step.
LEMMA AccountNext ==
    ASSUME s_acc' \in Seq(Items), tls' \in Seq(Items), work' \in Seq(Items), w' \in Items,
           Len(tls') <= 1, Distinct(s_acc'), Distinct(work'), chunk' \in Nat, OneCommand',
           Counted(Traffic!Pending(s_acc'), Traffic!Pending(tls'),
                   Traffic!Pending(work') \cup ({w'.r} \ {NoReq}) \cup (IF s_cloud_ready' THEN {s_cloud_req_id'} ELSE {}),
                   s_pend', unsent', answers', replaced')
    PROVE  AccountInv'
<1>1. WithWorker' = Traffic!Pending(work') \cup ({w'.r} \ {NoReq}) \cup (IF s_cloud_ready' THEN {s_cloud_req_id'} ELSE {})
  BY QueuesPrimed DEF WithWorker
<1>2. TrafficTypes'  BY QueuesPrimed DEF TrafficTypes
<1> DEFINE Now == Counted(Traffic!Pending(s_acc), Traffic!Pending(tls), WithWorker, s_pend, unsent, answers, replaced)
<1>3. Now'  BY <1>1, QueuesPrimed DEF Counted
<1> QED  BY <1>2, <1>3 DEF AccountInv

\* The frames and items of the model.
LEMMA ItemKinds ==
    /\ NoReq \notin Reqs
    /\ \A x \in Reqs, big \in BOOLEAN : Traffic!Cmd(x, big) \in Items /\ Traffic!Cmd(x, big).r = x
    /\ \A i \in Nat, big \in BOOLEAN : Traffic!Chunk(i, big) \in Items /\ Traffic!Chunk(i, big).r = NoReq
    /\ \A kind \in {"open", "close", "reset", "idle"} :
          Traffic!Control(kind) \in Items /\ Traffic!Control(kind).r = NoReq /\ Traffic!Control(kind).k = kind
    /\ \A f \in Items : (f.k = "cmd" => f.r \in Reqs) /\ (f.k # "cmd" => f.r = NoReq)
<1>1. NoReq \notin Reqs  BY Assumptions DEF Traffic!ConstantsOK
<1>2. \A x \in Reqs, big \in BOOLEAN : Traffic!Cmd(x, big) \in Items /\ Traffic!Cmd(x, big).r = x
  BY <1>1 DEF Traffic!Cmd, Items
<1>3. \A i \in Nat, big \in BOOLEAN : Traffic!Chunk(i, big) \in Items /\ Traffic!Chunk(i, big).r = NoReq
  BY DEF Traffic!Chunk, Items
<1>4. \A kind \in {"open", "close", "reset", "idle"} :
          Traffic!Control(kind) \in Items /\ Traffic!Control(kind).r = NoReq /\ Traffic!Control(kind).k = kind
  BY DEF Traffic!Control, Items
<1>5. \A f \in Items : (f.k = "cmd" => f.r \in Reqs) /\ (f.k # "cmd" => f.r = NoReq)
  BY DEF Items
<1> QED  BY <1>1, <1>2, <1>3, <1>4, <1>5

\* cl_recv_cb: the frame is in s_acc, or kept by TLS.
LEMMA ReceiveKeeps ==
    ASSUME TrafficTypes, NEW f \in Items, Traffic!Receive(f), tls = <<>>, f.r \notin Traffic!Pending(s_acc)
    PROVE  /\ s_acc' \in Seq(Items) /\ tls' \in Seq(Items) /\ Len(tls') <= 1 /\ Distinct(s_acc')
           /\ \/ /\ Traffic!Pending(s_acc') = Traffic!Pending(s_acc) \cup ({f.r} \ {NoReq})
                 /\ Traffic!Pending(tls') = Traffic!Pending(tls)
              \/ /\ Traffic!Pending(s_acc') = Traffic!Pending(s_acc)
                 /\ Traffic!Pending(tls') = Traffic!Pending(tls) \cup ({f.r} \ {NoReq})
<1>1. s_acc \in Seq(Items) /\ tls \in Seq(Items) /\ Len(tls) <= 1 /\ Distinct(s_acc)  BY DEF TrafficTypes
<1>2. CASE s_acc' = Append(s_acc, f) /\ tls' = tls
  BY <1>1, <1>2, ItemAppend
<1>3. CASE tls' = Append(tls, f) /\ s_acc' = s_acc
  <2>1. Len(tls') <= 1
    <3>1. Len(Append(tls, f)) = 1  OBVIOUS
    <3> QED  BY <1>3, <3>1
  <2>2. Append(tls, f) \in Seq(Items) /\ Traffic!Pending(Append(tls, f)) = Traffic!Pending(tls) \cup ({f.r} \ {NoReq})
    BY <1>1, ItemAppend
  <2>3. tls' \in Seq(Items) /\ Traffic!Pending(tls') = Traffic!Pending(tls) \cup ({f.r} \ {NoReq})
    BY <1>3, <2>2
  <2> QED  BY <1>1, <1>3, <2>1, <2>3
<1> QED  BY <1>2, <1>3 DEF Traffic!Receive

\* The head of s_acc is taken.
LEMMA ConsumeKeeps ==
    ASSUME TrafficTypes, s_acc # <<>>, Traffic!Consume
    PROVE  /\ s_acc' \in Seq(Items) /\ tls' = tls /\ Distinct(s_acc') /\ Head(s_acc) \in Items
           /\ Traffic!Pending(s_acc') = Traffic!Pending(s_acc) \ {Head(s_acc).r}
           /\ Head(s_acc).r # NoReq => Head(s_acc).r \in Traffic!Pending(s_acc)
<1>1. s_acc \in Seq(Items) /\ Distinct(s_acc)  BY DEF TrafficTypes
<1>2. s_acc' = Tail(s_acc) /\ tls' = tls  BY DEF Traffic!Consume
<1> QED  BY <1>1, <1>2, ItemTail

\* hw_worker_submit_tunnel_reset: no command joins or leaves the queue.
LEMMA ResetKeeps ==
    ASSUME TrafficTypes, Traffic!SubmitReset
    PROVE  work' \in Seq(Items) /\ Distinct(work') /\ Traffic!Pending(work') = Traffic!Pending(work)
<1>1. work \in Seq(Items) /\ Distinct(work)  BY DEF TrafficTypes
<1>2. Traffic!Reset \in Items /\ Traffic!Reset.r = NoReq  BY ItemKinds DEF Traffic!Reset
<1>3. NoReq \notin Traffic!Pending(work)  BY DEF Traffic!Pending
<1>4. work' = Append(work, Traffic!Reset) \/ work' = work  BY DEF Traffic!SubmitReset
<1>5. CASE work' = Append(work, Traffic!Reset)
  <2> DEFINE l == Append(work, Traffic!Reset)
  <2>1. /\ l \in Seq(Items) /\ Traffic!Pending(l) = Traffic!Pending(work) \cup ({Traffic!Reset.r} \ {NoReq})
        /\ Distinct(l)
    BY <1>1, <1>2, <1>3, ItemAppend
  <2> HIDE DEF l
  <2>2. Traffic!Pending(l) = Traffic!Pending(work)  BY <1>2, <2>1
  <2> QED  BY <1>5, <2>1, <2>2 DEF l
<1>6. CASE work' = work
  BY <1>1, <1>6
<1> QED  BY <1>4, <1>5, <1>6

\* cloud_client.c, hw_worker.c: each handler, each step of the worker and a lost link keep the account.
LEMMA AccountInvStep ==
    ASSUME AccountInv, FramesTyped, [Traffic!Next]_trafficVars
    PROVE  AccountInv'
<1> USE DEF Traffic!inVars, Traffic!rxVars, Traffic!workVars, Traffic!slotVars, Traffic!outVars
<1> DEFINE a == Traffic!Pending(s_acc)
           b == Traffic!Pending(tls)
           cNext == Traffic!Pending(work') \cup ({w'.r} \ {NoReq}) \cup (IF s_cloud_ready' THEN {s_cloud_req_id'} ELSE {})
<1>1. /\ s_acc \in Seq(Items) /\ tls \in Seq(Items) /\ work \in Seq(Items) /\ w \in Items
      /\ Len(tls) <= 1 /\ Distinct(s_acc) /\ Distinct(work) /\ chunk \in Nat
      /\ TrafficTypes /\ OneCommand
  BY DEF AccountInv, TrafficTypes
<1>2. Counted(a, b, WithWorker, s_pend, unsent, answers, replaced)  BY DEF AccountInv
<1>3. /\ NoReq \notin Reqs /\ unsent \subseteq Reqs /\ a \subseteq Reqs /\ b \subseteq Reqs /\ WithWorker \subseteq Reqs
      /\ s_pend \in Reqs \cup {NoReq} /\ a \cap b = {} /\ unsent \cap (a \cup b \cup WithWorker) = {} /\ a \cap WithWorker = {}
  BY <1>2, ItemKinds DEF Counted
<1>4. ASSUME UNCHANGED <<work, w, Traffic!slotVars>>
      PROVE  work' \in Seq(Items) /\ w' \in Items /\ Distinct(work') /\ OneCommand' /\ cNext = WithWorker
  <2>1. OneCommand'  BY <1>1, <1>4, QueuesPrimed DEF OneCommand
  <2> QED  BY <1>1, <1>4, <2>1 DEF WithWorker
<1>5. ASSUME UNCHANGED <<s_acc, tls, work, w, s_pend, unsent, answers, replaced, chunk, Traffic!slotVars>>
      PROVE  AccountInv'
  <2>1. work' \in Seq(Items) /\ w' \in Items /\ Distinct(work') /\ OneCommand' /\ cNext = WithWorker  BY <1>4, <1>5
  <2> HIDE DEF cNext
  <2>2. Counted(Traffic!Pending(s_acc'), Traffic!Pending(tls'), cNext, s_pend', unsent', answers', replaced')
    BY <1>2, <1>5, <2>1
  <2> QED  BY <1>1, <1>5, <2>1, <2>2, AccountNext DEF cNext
<1>6. CASE Traffic!ServerSends
  <2>1. PICK f \in Items : /\ Traffic!Receive(f) /\ tls = <<>> /\ chunk' \in Nat
                           /\ \/ f.r \in unsent /\ unsent' = unsent \ {f.r}
                              \/ f.r = NoReq /\ unsent' = unsent
    <3>1. tls = <<>>  BY <1>6 DEF Traffic!ServerSends
    <3>2. ASSUME NEW x \in unsent, NEW big \in BOOLEAN, Traffic!Receive(Traffic!Cmd(x, big)), unsent' = unsent \ {x}, chunk' = chunk
          PROVE  \E f \in Items : /\ Traffic!Receive(f) /\ chunk' \in Nat
                                  /\ \/ f.r \in unsent /\ unsent' = unsent \ {f.r}
                                     \/ f.r = NoReq /\ unsent' = unsent
      <4>1. Traffic!Cmd(x, big) \in Items /\ Traffic!Cmd(x, big).r = x  BY <1>3, ItemKinds
      <4> QED  BY <1>1, <3>2, <4>1
    <3>3. ASSUME NEW kind \in {"open", "close"}, Traffic!Receive(Traffic!Control(kind)), unsent' = unsent, chunk' \in {0, chunk}
          PROVE  \E f \in Items : /\ Traffic!Receive(f) /\ chunk' \in Nat
                                  /\ \/ f.r \in unsent /\ unsent' = unsent \ {f.r}
                                     \/ f.r = NoReq /\ unsent' = unsent
      <4>1. Traffic!Control(kind) \in Items /\ Traffic!Control(kind).r = NoReq  BY ItemKinds
      <4>2. chunk' \in Nat  BY <1>1, <3>3
      <4> QED  BY <3>3, <4>1, <4>2
    <3>4. ASSUME NEW bad \in BOOLEAN, Traffic!Receive(Traffic!Chunk(chunk + 1, bad)), unsent' = unsent, chunk' = chunk + 1
          PROVE  \E f \in Items : /\ Traffic!Receive(f) /\ chunk' \in Nat
                                  /\ \/ f.r \in unsent /\ unsent' = unsent \ {f.r}
                                     \/ f.r = NoReq /\ unsent' = unsent
      <4>1. chunk + 1 \in Nat  BY <1>1
      <4>2. Traffic!Chunk(chunk + 1, bad) \in Items /\ Traffic!Chunk(chunk + 1, bad).r = NoReq  BY <4>1, ItemKinds
      <4> QED  BY <3>4, <4>1, <4>2
    <3> QED  BY <1>6, <3>1, <3>2, <3>3, <3>4 DEF Traffic!ServerSends
  <2>2. f.r \notin a /\ f.r \notin Traffic!Pending(s_acc)
    <3>1. NoReq \notin a  BY DEF Traffic!Pending
    <3> QED  BY <1>3, <2>1, <3>1
  <2>3. UNCHANGED <<work, w, s_pend, answers, replaced, Traffic!slotVars>>  BY <1>6 DEF Traffic!ServerSends
  <2>4. work' \in Seq(Items) /\ w' \in Items /\ Distinct(work') /\ OneCommand' /\ cNext = WithWorker  BY <1>4, <2>3
  <2>5. /\ s_acc' \in Seq(Items) /\ tls' \in Seq(Items) /\ Len(tls') <= 1 /\ Distinct(s_acc')
        /\ \/ Traffic!Pending(s_acc') = a \cup ({f.r} \ {NoReq}) /\ Traffic!Pending(tls') = b
           \/ Traffic!Pending(s_acc') = a /\ Traffic!Pending(tls') = b \cup ({f.r} \ {NoReq})
    BY <1>1, <2>1, <2>2, ReceiveKeeps
  <2> HIDE DEF a, b, cNext
  <2>6. Counted(Traffic!Pending(s_acc'), Traffic!Pending(tls'), WithWorker, s_pend, unsent', answers, replaced)
    <3>1. CASE f.r \in unsent /\ unsent' = unsent \ {f.r}
      <4>1. /\ Counted(a \cup {f.r}, b, WithWorker, s_pend, unsent', answers, replaced)
            /\ Counted(a, b \cup {f.r}, WithWorker, s_pend, unsent', answers, replaced)
        BY <1>2, <3>1, CountMoves
      <4>2. {f.r} \ {NoReq} = {f.r}  BY <1>3, <3>1
      <4> QED  BY <2>5, <4>1, <4>2
    <3>2. CASE f.r = NoReq /\ unsent' = unsent
      <4>1. a \cup ({f.r} \ {NoReq}) = a /\ b \cup ({f.r} \ {NoReq}) = b  BY <3>2
      <4> QED  BY <1>2, <2>5, <3>2, <4>1
    <3> QED  BY <2>1, <3>1, <3>2
  <2>7. Counted(Traffic!Pending(s_acc'), Traffic!Pending(tls'), cNext, s_pend', unsent', answers', replaced')
    BY <2>3, <2>4, <2>6
  <2> QED  BY <2>1, <2>4, <2>5, <2>7, AccountNext DEF cNext
<1>7. CASE Traffic!Kick
  <2>1. s_acc' = s_acc \o tls /\ tls' = <<>> /\ UNCHANGED <<work, w, s_pend, unsent, answers, replaced, chunk, Traffic!slotVars>>
    BY <1>7 DEF Traffic!Kick
  <2>2. work' \in Seq(Items) /\ w' \in Items /\ Distinct(work') /\ OneCommand' /\ cNext = WithWorker  BY <1>4, <2>1
  <2>3. Counted(a \cup b, {}, WithWorker, s_pend, unsent, answers, replaced)  BY <1>2, CountMoves
  <2>4. s_acc' \in Seq(Items) /\ Distinct(s_acc') /\ Traffic!Pending(s_acc') = a \cup b
    <3>1. CASE tls = <<>> /\ s_acc \o tls = s_acc
      <4>1. b = {}  BY <3>1, ItemEnds
      <4> QED  BY <1>1, <2>1, <3>1, <4>1
    <3>2. ASSUME NEW f \in Items, tls = <<f>>, s_acc \o tls = Append(s_acc, f)
          PROVE  s_acc' \in Seq(Items) /\ Distinct(s_acc') /\ Traffic!Pending(s_acc') = a \cup b
      <4>1. Traffic!Pending(<<f>>) = {f.r} \ {NoReq}
        <5>1. <<>> \in Seq(Items) /\ Append(<<>>, f) = <<f>>  OBVIOUS
        <5>2. Traffic!Pending(Append(<<>>, f)) = Traffic!Pending(<<>>) \cup ({f.r} \ {NoReq})  BY <5>1, ItemAppend
        <5> QED  BY <5>1, <5>2, ItemEnds
      <4>2. b = {f.r} \ {NoReq}  BY <3>2, <4>1
      <4>3. f.r \notin a
        <5>1. NoReq \notin a  BY DEF Traffic!Pending
        <5> QED  BY <1>3, <4>2, <5>1
      <4>4. /\ Append(s_acc, f) \in Seq(Items) /\ Distinct(Append(s_acc, f))
            /\ Traffic!Pending(Append(s_acc, f)) = a \cup ({f.r} \ {NoReq})
        BY <1>1, <4>3, ItemAppend
      <4> HIDE DEF a, b
      <4> QED  BY <2>1, <3>2, <4>2, <4>4
    <3> QED  BY <1>1, <3>1, <3>2, ItemEnds
  <2>5. tls' \in Seq(Items) /\ Len(tls') <= 1 /\ Traffic!Pending(tls') = {}  BY <2>1, ItemEnds
  <2> HIDE DEF cNext, a, b
  <2>6. Counted(Traffic!Pending(s_acc'), Traffic!Pending(tls'), cNext, s_pend', unsent', answers', replaced')
    BY <2>1, <2>2, <2>3, <2>4, <2>5
  <2>7. chunk' \in Nat  BY <1>1, <2>1
  <2> QED  BY <2>2, <2>4, <2>5, <2>6, <2>7, AccountNext DEF cNext
<1>8. ASSUME NEW f, Traffic!HandleCommand(f), f = Head(s_acc), s_acc # <<>>, UNCHANGED <<Traffic!inVars, w>>
      PROVE  AccountInv'
  <2>1. /\ f.k = "cmd" /\ Traffic!Consume
        /\ \/ /\ Traffic!OneAtATime /\ Traffic!Submit(f) /\ s_cloud_pending' = TRUE
              /\ UNCHANGED <<s_cloud_ready, s_cloud_req_id, s_cloud_reply, Traffic!outVars>>
           \/ Traffic!Respond(f.r) /\ UNCHANGED <<work, Traffic!slotVars>>
    BY <1>8 DEF Traffic!HandleCommand
  <2>2. /\ s_acc' \in Seq(Items) /\ tls' = tls /\ Distinct(s_acc') /\ f \in Items
        /\ Traffic!Pending(s_acc') = a \ {f.r} /\ (f.r # NoReq => f.r \in a)
    BY <1>1, <1>8, <2>1, ConsumeKeeps
  <2>3. f.r \in Reqs /\ f.r \in a /\ f.r # NoReq  BY <1>3, <2>1, <2>2, ItemKinds
  <2>4. chunk' \in Nat /\ unsent' = unsent /\ w' = w  BY <1>1, <1>8
  <2>5. CASE /\ Traffic!OneAtATime /\ Traffic!Submit(f) /\ s_cloud_pending' = TRUE
             /\ UNCHANGED <<s_cloud_ready, s_cloud_req_id, s_cloud_reply, Traffic!outVars>>
    <3>1. ~s_cloud_pending /\ ~s_cloud_ready  BY <2>5 DEF Traffic!OneAtATime
    <3>2. w.k # "cmd" /\ Traffic!Pending(work) = {}  BY <1>1, <3>1 DEF OneCommand
    <3>3. work' = Append(work, f)  BY <2>5 DEF Traffic!Submit
    <3>4. /\ Append(work, f) \in Seq(Items) /\ Distinct(Append(work, f))
          /\ Traffic!Pending(Append(work, f)) = Traffic!Pending(work) \cup ({f.r} \ {NoReq})
      BY <1>1, <2>2, <3>2, ItemAppend
    <3>5. work' \in Seq(Items) /\ Distinct(work') /\ Traffic!Pending(work') = {f.r}
      <4>1. {f.r} \ {NoReq} = {f.r}  BY <2>3
      <4> QED  BY <3>2, <3>3, <3>4, <4>1
    <3>6. OneCommand'
      <4>1. s_cloud_pending' /\ ~s_cloud_ready' /\ w'.k # "cmd"  BY <2>4, <2>5, <3>1, <3>2
      <4>2. Traffic!Pending(work)' = {f.r}  BY <3>5, QueuesPrimed
      <4> QED  BY <4>1, <4>2 DEF OneCommand
    <3>7. w.r = NoReq  BY <1>1, <3>2, ItemKinds
    <3>8. WithWorker = {} /\ cNext = {f.r}
      <4>1. WithWorker = {}  BY <3>1, <3>2, <3>7 DEF WithWorker
      <4>2. cNext = {f.r}
        <5>1. ~s_cloud_ready' /\ w'.r = NoReq  BY <2>4, <2>5, <3>1, <3>7
        <5> QED  BY <3>5, <5>1
      <4> QED  BY <4>1, <4>2
    <3> HIDE DEF a, b, cNext
    <3>9. Counted(a \ {f.r}, b, WithWorker \cup {f.r}, s_pend, unsent, answers, replaced)
      BY <1>2, <2>3, CountMoves
    <3>10. Counted(Traffic!Pending(s_acc'), Traffic!Pending(tls'), cNext, s_pend', unsent', answers', replaced')
      <4>1. WithWorker \cup {f.r} = cNext  BY <3>8
      <4>2. Traffic!Pending(tls') = b  BY <2>2 DEF b
      <4>3. UNCHANGED <<s_pend, answers, replaced>>  BY <2>5
      <4> QED  BY <2>2, <2>4, <3>9, <4>1, <4>2, <4>3
    <3>11. tls' \in Seq(Items) /\ Len(tls') <= 1 /\ w' \in Items  BY <1>1, <2>2, <2>4
    <3> QED  BY <2>2, <2>4, <3>5, <3>6, <3>10, <3>11, AccountNext DEF cNext
  <2>6. CASE Traffic!Respond(f.r) /\ UNCHANGED <<work, Traffic!slotVars>>
    <3>1. work' \in Seq(Items) /\ w' \in Items /\ Distinct(work') /\ OneCommand' /\ cNext = WithWorker
      BY <1>4, <2>4, <2>6
    <3>2. /\ \/ s_pend' = f.r /\ answers' = answers
             \/ s_pend' = NoReq /\ answers' = [answers EXCEPT ![f.r] = @ + 1]
          /\ replaced' = replaced \cup ({s_pend} \ {NoReq, f.r})
      BY <2>6 DEF Traffic!Respond
    <3>3. f.r \notin WithWorker  BY <1>3, <2>3
    <3> HIDE DEF a, b, cNext
    <3>4. Counted(a \ {f.r}, b, WithWorker \ {f.r}, s_pend', unsent, answers', replaced')
      <4>1. f.r \in a \cup WithWorker  BY <2>3
      <4> QED  BY <1>2, <3>2, <4>1, CountResponds
    <3>5. Counted(Traffic!Pending(s_acc'), Traffic!Pending(tls'), cNext, s_pend', unsent', answers', replaced')
      <4>1. WithWorker \ {f.r} = cNext  BY <3>1, <3>3
      <4>2. Traffic!Pending(tls') = b  BY <2>2 DEF b
      <4> QED  BY <2>2, <2>4, <3>4, <4>1, <4>2
    <3>6. tls' \in Seq(Items) /\ Len(tls') <= 1  BY <1>1, <2>2
    <3> QED  BY <2>2, <2>4, <3>1, <3>5, <3>6, AccountNext DEF cNext
  <2> QED  BY <2>1, <2>5, <2>6
<1>9. ASSUME Traffic!Consume, s_acc # <<>>, Head(s_acc).k # "cmd",
             work' \in Seq(Items), Distinct(work'), Traffic!Pending(work') = Traffic!Pending(work),
             UNCHANGED <<w, unsent, chunk, Traffic!slotVars, Traffic!outVars>>
      PROVE  AccountInv'
  <2>1. /\ s_acc' \in Seq(Items) /\ tls' = tls /\ Distinct(s_acc') /\ Head(s_acc) \in Items
        /\ Traffic!Pending(s_acc') = a \ {Head(s_acc).r}
    BY <1>1, <1>9, ConsumeKeeps
  <2>2. Head(s_acc).r = NoReq  BY <1>9, <2>1, ItemKinds
  <2>3. Traffic!Pending(s_acc') = a
    <3>1. NoReq \notin a  BY <1>3
    <3> QED  BY <2>1, <2>2, <3>1
  <2>4. OneCommand'
    <3>1. Traffic!Pending(work)' = Traffic!Pending(work)  BY <1>9, QueuesPrimed
    <3> QED  BY <1>1, <1>9, <3>1 DEF OneCommand
  <2>5. cNext = WithWorker  BY <1>9 DEF WithWorker
  <2> HIDE DEF cNext, a, b
  <2>6. Counted(Traffic!Pending(s_acc'), Traffic!Pending(tls'), cNext, s_pend', unsent', answers', replaced')
    <3>1. Traffic!Pending(tls') = b  BY <2>1 DEF b
    <3> QED  BY <1>2, <1>9, <2>3, <2>5, <3>1
  <2>7. tls' \in Seq(Items) /\ Len(tls') <= 1 /\ chunk' \in Nat /\ w' \in Items  BY <1>1, <1>9, <2>1
  <2> QED  BY <1>9, <2>1, <2>4, <2>6, <2>7, AccountNext DEF cNext
<1>10. CASE Traffic!ProcessFrame
  <2> DEFINE f == Head(s_acc)
  <2>1. /\ s_acc # <<>> /\ UNCHANGED <<Traffic!inVars, w>>
        /\ Traffic!HandleCommand(f) \/ Traffic!HandleTunnel(f) \/ Traffic!HandleData(f)
    BY <1>10 DEF Traffic!ProcessFrame
  <2>2. f \in Items  BY <1>1, <2>1
  <2> HIDE DEF f
  <2>3. CASE Traffic!HandleCommand(f)
    BY <1>8, <2>1, <2>3 DEF f
  <2>4. CASE Traffic!HandleTunnel(f)
    <3>1. f.k # "cmd" /\ Traffic!Consume /\ (Traffic!SubmitReset \/ work' = work)
          /\ UNCHANGED <<Traffic!slotVars, Traffic!outVars>>
      BY <2>4 DEF Traffic!HandleTunnel
    <3>2. work' \in Seq(Items) /\ Distinct(work') /\ Traffic!Pending(work') = Traffic!Pending(work)
      <4>1. CASE work' = work  BY <1>1, <4>1
      <4> QED  BY <1>1, <3>1, <4>1, ResetKeeps
    <3> QED  BY <1>9, <2>1, <3>1, <3>2 DEF f
  <2>5. CASE Traffic!HandleData(f)
    <3>1. f.k = "data" /\ Traffic!Consume /\ (work' = work \/ Traffic!SubmitReset \/ work' = Append(work, f))
          /\ UNCHANGED <<Traffic!slotVars, Traffic!outVars>>
      BY <2>5 DEF Traffic!HandleData, Traffic!TunnelFail, Traffic!Submit
    <3>2. work' \in Seq(Items) /\ Distinct(work') /\ Traffic!Pending(work') = Traffic!Pending(work)
      <4>1. CASE work' = work  BY <1>1, <4>1
      <4>2. CASE Traffic!SubmitReset  BY <1>1, <4>2, ResetKeeps
      <4>3. CASE work' = Append(work, f)
        <5> DEFINE l == Append(work, f)
        <5>1. f.r = NoReq  BY <2>2, <3>1, ItemKinds
        <5>2. NoReq \notin Traffic!Pending(work)  BY DEF Traffic!Pending
        <5>3. l \in Seq(Items) /\ Distinct(l) /\ Traffic!Pending(l) = Traffic!Pending(work) \cup ({f.r} \ {NoReq})
          BY <1>1, <2>2, <5>1, <5>2, ItemAppend
        <5> HIDE DEF l
        <5>4. Traffic!Pending(l) = Traffic!Pending(work)  BY <5>1, <5>3
        <5> QED  BY <4>3, <5>3, <5>4 DEF l
      <4> QED  BY <3>1, <4>1, <4>2, <4>3
    <3>3. f.k # "cmd"  BY <3>1
    <3> QED  BY <1>9, <2>1, <3>1, <3>2, <3>3 DEF f
  <2> QED  BY <2>1, <2>3, <2>4, <2>5
<1>11. CASE Traffic!FrameReply
  <2>1. /\ s_cloud_ready /\ Traffic!Respond(s_cloud_req_id)
        /\ ~s_cloud_ready' /\ ~s_cloud_pending' /\ UNCHANGED <<s_acc, tls, work, w, unsent, chunk>>
    BY <1>11 DEF Traffic!FrameReply
  <2>2. /\ \/ s_pend' = s_cloud_req_id /\ answers' = answers
           \/ s_pend' = NoReq /\ answers' = [answers EXCEPT ![s_cloud_req_id] = @ + 1]
        /\ replaced' = replaced \cup ({s_pend} \ {NoReq, s_cloud_req_id})
    BY <2>1 DEF Traffic!Respond
  <2>3. w.k # "cmd" /\ Traffic!Pending(work) = {}  BY <1>1, <2>1 DEF OneCommand
  <2>4. w.r = NoReq  BY <1>1, <2>3, ItemKinds
  <2>5. WithWorker = {s_cloud_req_id}  BY <2>1, <2>3, <2>4 DEF WithWorker
  <2>6. cNext = {}
    <3>1. work' = work /\ w' = w /\ ~s_cloud_ready'  BY <2>1
    <3> QED  BY <2>3, <2>4, <3>1
  <2>7. OneCommand'
    <3>1. Traffic!Pending(work)' = {} /\ w'.k # "cmd" /\ ~s_cloud_ready'  BY <2>1, <2>3, QueuesPrimed
    <3> QED  BY <3>1 DEF OneCommand
  <2>8. s_cloud_req_id \notin a  BY <1>3, <2>5
  <2> HIDE DEF cNext, a, b
  <2>9. Counted(a \ {s_cloud_req_id}, b, WithWorker \ {s_cloud_req_id}, s_pend', unsent, answers', replaced')
    BY <1>2, <2>2, <2>5, CountResponds
  <2>10. Counted(Traffic!Pending(s_acc'), Traffic!Pending(tls'), cNext, s_pend', unsent', answers', replaced')
    <3>1. Traffic!Pending(s_acc') = a /\ Traffic!Pending(tls') = b  BY <2>1 DEF a, b
    <3>2. a \ {s_cloud_req_id} = a /\ WithWorker \ {s_cloud_req_id} = cNext  BY <2>5, <2>6, <2>8
    <3> QED  BY <2>1, <2>9, <3>1, <3>2
  <2> QED  BY <1>1, <2>1, <2>7, <2>10, AccountNext DEF cNext
<1>12. CASE Traffic!Resend
  <2>1. /\ s_pend # NoReq /\ s_pend' = NoReq /\ answers' = [answers EXCEPT ![s_pend] = @ + 1]
        /\ UNCHANGED <<s_acc, tls, work, w, unsent, replaced, chunk, Traffic!slotVars>>
    BY <1>12 DEF Traffic!Resend
  <2>2. work' \in Seq(Items) /\ w' \in Items /\ Distinct(work') /\ OneCommand' /\ cNext = WithWorker  BY <1>4, <2>1
  <2> HIDE DEF cNext, a, b
  <2>3. Counted(a, b, WithWorker, s_pend', unsent, answers', replaced)  BY <1>2, <2>1, CountMoves
  <2>4. Counted(Traffic!Pending(s_acc'), Traffic!Pending(tls'), cNext, s_pend', unsent', answers', replaced')
    <3>1. Traffic!Pending(s_acc') = a /\ Traffic!Pending(tls') = b  BY <2>1 DEF a, b
    <3> QED  BY <2>1, <2>2, <2>3, <3>1
  <2> QED  BY <1>1, <2>1, <2>2, <2>4, AccountNext DEF cNext
<1>13. CASE Traffic!Buffer
  BY <1>5, <1>13 DEF Traffic!Buffer
<1>14. CASE Traffic!LinkLost
  <2>1. /\ tls' = <<>> /\ s_acc' = <<>> /\ s_pend' = NoReq /\ (Traffic!SubmitReset \/ work' = work)
        /\ IF s_cloud_ready THEN s_cloud_ready' = FALSE /\ s_cloud_pending' = FALSE
                            ELSE UNCHANGED <<s_cloud_ready, s_cloud_pending>>
        /\ replaced' = replaced \cup {x \in Reqs \ unsent : answers[x] = 0}
        /\ UNCHANGED <<unsent, chunk, w, s_cloud_req_id, s_cloud_reply, answers>>
    BY <1>14 DEF Traffic!LinkLost
  <2>2. work' \in Seq(Items) /\ Distinct(work') /\ Traffic!Pending(work') = Traffic!Pending(work)
    <3>1. CASE work' = work  BY <1>1, <3>1
    <3> QED  BY <1>1, <2>1, <3>1, ResetKeeps
  <2>3. OneCommand'
    <3>1. Traffic!Pending(work)' = Traffic!Pending(work) /\ w' = w  BY <2>1, <2>2, QueuesPrimed
    <3>2. ~s_cloud_ready'  BY <2>1
    <3>3. CASE s_cloud_ready
      <4>1. w.k # "cmd" /\ Traffic!Pending(work) = {}  BY <1>1, <3>3 DEF OneCommand
      <4> QED  BY <3>1, <3>2, <4>1 DEF OneCommand
    <3>4. CASE ~s_cloud_ready
      <4>1. s_cloud_pending' = s_cloud_pending  BY <2>1, <3>4
      <4> QED  BY <1>1, <3>1, <3>2, <4>1 DEF OneCommand
    <3> QED  BY <3>3, <3>4
  <2>4. cNext \in SUBSET WithWorker
    <3>1. cNext = Traffic!Pending(work) \cup ({w.r} \ {NoReq})
      <4>1. ~s_cloud_ready' /\ w' = w  BY <2>1
      <4> QED  BY <2>2, <4>1
    <3> QED  BY <3>1 DEF WithWorker
  <2> HIDE DEF cNext, a, b
  <2>5. Counted({}, {}, cNext, NoReq, unsent, answers, replaced \cup {x \in Reqs \ unsent : answers[x] = 0})
    BY <1>2, <2>4, CountDrops
  <2>6. /\ s_acc' \in Seq(Items) /\ tls' \in Seq(Items) /\ Len(tls') <= 1 /\ Distinct(s_acc')
        /\ Traffic!Pending(s_acc') = {} /\ Traffic!Pending(tls') = {}
    BY <2>1, ItemEnds
  <2>7. Counted(Traffic!Pending(s_acc'), Traffic!Pending(tls'), cNext, s_pend', unsent', answers', replaced')
    BY <2>1, <2>5, <2>6
  <2>8. w' \in Items /\ chunk' \in Nat  BY <1>1, <2>1
  <2> QED  BY <2>2, <2>3, <2>6, <2>7, <2>8, AccountNext DEF cNext
<1>15. ASSUME UNCHANGED <<s_acc, tls, unsent, chunk, s_pend, answers, replaced>>,
              work' \in Seq(Items), w' \in Items, Distinct(work'), OneCommand', cNext = WithWorker
       PROVE  AccountInv'
  <2> HIDE DEF cNext, a, b
  <2>1. Counted(Traffic!Pending(s_acc'), Traffic!Pending(tls'), cNext, s_pend', unsent', answers', replaced')
    <3>1. Traffic!Pending(s_acc') = a /\ Traffic!Pending(tls') = b  BY <1>15 DEF a, b
    <3> QED  BY <1>2, <1>15, <3>1
  <2> QED  BY <1>1, <1>15, <2>1, AccountNext DEF cNext
<1>16. CASE Traffic!WorkerTakes
  <2> DEFINE i == Head(work)
  <2>1. /\ w.k = "idle" /\ work # <<>> /\ work' = Tail(work)
        /\ UNCHANGED <<s_acc, tls, unsent, chunk, s_pend, answers, replaced, Traffic!slotVars>>
    BY <1>16 DEF Traffic!WorkerTakes
  <2>2. i \in WorkItems  BY <2>1 DEF FramesTyped
  <2>3. w' = (IF i.k = "cmd" THEN i ELSE w)
    <3>1. i.k \in {"cmd", "data", "reset"}  BY <2>2 DEF WorkItems
    <3>2. CASE i.k = "cmd"  BY <1>16, <3>2 DEF Traffic!WorkerTakes
    <3>3. CASE i.k = "data"  BY <1>16, <3>3 DEF Traffic!WorkerTakes
    <3>4. CASE i.k = "reset"  BY <1>16, <3>4 DEF Traffic!WorkerTakes
    <3> QED  BY <3>1, <3>2, <3>3, <3>4
  <2>4. /\ Tail(work) \in Seq(Items) /\ Distinct(Tail(work)) /\ i \in Items
        /\ Traffic!Pending(Tail(work)) = Traffic!Pending(work) \ {i.r}
        /\ i.r # NoReq => i.r \in Traffic!Pending(work)
    BY <1>1, <2>1, ItemTail
  <2>5. w.r = NoReq  BY <1>1, <2>1, ItemKinds
  <2>6. UNCHANGED <<s_cloud_pending, s_cloud_ready, s_cloud_req_id, s_cloud_reply>>  BY <2>1
  <2> HIDE DEF i
  <2>7. CASE i.k = "cmd"
    <3>1. i.r \in Reqs /\ i.r # NoReq /\ i.r \in Traffic!Pending(work)  BY <1>3, <2>4, <2>7, ItemKinds
    <3>2. Traffic!Pending(work) = {i.r}  BY <1>1, <3>1 DEF OneCommand
    <3>3. Traffic!Pending(work') = {} /\ w' = i  BY <2>1, <2>3, <2>4, <2>7, <3>2
    <3>4. s_cloud_pending /\ ~s_cloud_ready  BY <1>1, <3>2 DEF OneCommand
    <3>5. OneCommand'
      <4>1. Traffic!Pending(work)' = {}  BY <3>3, QueuesPrimed
      <4>2. s_cloud_pending' /\ ~s_cloud_ready'  BY <2>6, <3>4
      <4> QED  BY <4>1, <4>2 DEF OneCommand
    <3>6. cNext = WithWorker
      <4>1. {w'.r} \ {NoReq} = {i.r} /\ ~s_cloud_ready'  BY <2>6, <3>1, <3>3, <3>4
      <4>2. cNext = {i.r}  BY <3>3, <4>1
      <4>3. WithWorker = {i.r}  BY <2>5, <3>2, <3>4 DEF WithWorker
      <4> QED  BY <4>2, <4>3
    <3> QED  BY <1>15, <2>1, <2>4, <3>3, <3>5, <3>6
  <2>8. CASE i.k # "cmd"
    <3>1. i.r = NoReq  BY <2>4, <2>8, ItemKinds
    <3>2. Traffic!Pending(work') = Traffic!Pending(work) /\ w' = w
      <4>1. NoReq \notin Traffic!Pending(work)  BY DEF Traffic!Pending
      <4> QED  BY <2>1, <2>3, <2>4, <2>8, <3>1, <4>1
    <3>3. OneCommand'
      <4>1. Traffic!Pending(work)' = Traffic!Pending(work)  BY <3>2, QueuesPrimed
      <4> QED  BY <1>1, <2>6, <3>2, <4>1 DEF OneCommand
    <3>4. cNext = WithWorker  BY <2>6, <3>2 DEF WithWorker
    <3> QED  BY <1>1, <1>15, <2>1, <2>4, <3>2, <3>3, <3>4
  <2> QED  BY <2>7, <2>8
<1>17. CASE Traffic!WorkerUnparks
  <2>1. UNCHANGED <<s_acc, tls, work, w, s_pend, unsent, answers, replaced, chunk, Traffic!slotVars>>
    BY <1>17 DEF Traffic!WorkerUnparks
  <2> QED  BY <1>5, <2>1
<1>18. CASE Traffic!WorkerReplies
  <2>1. /\ w.k = "cmd" /\ UNCHANGED <<s_acc, tls, work, unsent, chunk, s_pend, answers, replaced, s_cloud_pending>>
        /\ \/ w' = w /\ s_cloud_ready' = s_cloud_ready
           \/ /\ s_cloud_reply = w.r /\ s_cloud_req_id = w.r /\ s_cloud_ready' /\ w' = Traffic!Control("idle")
              /\ UNCHANGED <<s_cloud_reply, s_cloud_req_id>>
    BY <1>18 DEF Traffic!WorkerReplies
  <2>2. s_cloud_pending /\ ~s_cloud_ready /\ Traffic!Pending(work) = {} /\ Traffic!Pending(work)' = {}
    <3>1. s_cloud_pending /\ ~s_cloud_ready /\ Traffic!Pending(work) = {}  BY <1>1, <2>1 DEF OneCommand
    <3>2. Traffic!Pending(work') = {}  BY <2>1, <3>1
    <3> QED  BY <3>1, <3>2, QueuesPrimed
  <2>3. w.r \in Reqs /\ w.r # NoReq  BY <1>1, <1>3, <2>1, ItemKinds
  <2>4. WithWorker = {w.r}  BY <2>2, <2>3 DEF WithWorker
  <2>5. work' \in Seq(Items) /\ Distinct(work') /\ Traffic!Pending(work') = {}  BY <1>1, <2>1, <2>2
  <2>6. CASE w' = w /\ s_cloud_ready' = s_cloud_ready
    <3>1. OneCommand'  BY <2>1, <2>2, <2>6 DEF OneCommand
    <3>2. cNext = WithWorker
      <4>1. ~s_cloud_ready' /\ w' = w  BY <2>2, <2>6
      <4> QED  BY <2>3, <2>4, <2>5, <4>1
    <3> QED  BY <1>1, <1>15, <2>1, <2>5, <2>6, <3>1, <3>2
  <2>7. CASE /\ s_cloud_reply = w.r /\ s_cloud_req_id = w.r /\ s_cloud_ready' /\ w' = Traffic!Control("idle")
             /\ UNCHANGED <<s_cloud_reply, s_cloud_req_id>>
    <3>1. w' \in Items /\ w'.r = NoReq /\ w'.k = "idle"  BY <2>7, ItemKinds
    <3>2. OneCommand'
      <4>1. s_cloud_pending'  BY <2>1, <2>2
      <4>2. s_cloud_reply' = w.r /\ s_cloud_req_id' = w.r  BY <2>7
      <4>3. w'.k # "cmd"  BY <3>1
      <4> QED  BY <2>2, <2>3, <4>1, <4>2, <4>3 DEF OneCommand
    <3>3. cNext = WithWorker
      <4>1. s_cloud_ready' /\ s_cloud_req_id' = w.r  BY <2>7
      <4> QED  BY <2>4, <2>5, <3>1, <4>1
    <3> QED  BY <1>15, <2>1, <2>5, <3>1, <3>2, <3>3
  <2> QED  BY <2>1, <2>6, <2>7
<1>19. CASE UNCHANGED trafficVars
  BY <1>5, <1>19 DEF trafficVars
<1> QED
  BY <1>6, <1>7, <1>10, <1>11, <1>12, <1>13, <1>14, <1>16, <1>17, <1>18, <1>19
  DEF Traffic!Next, Traffic!Net, Traffic!Worker

\* The account shows what is promised.
LEMMA AccountShows == AccountInv => Traffic!Accounted
<1> SUFFICES ASSUME AccountInv PROVE Traffic!Accounted
  OBVIOUS
<1>1. Counted(Traffic!Pending(s_acc), Traffic!Pending(tls), WithWorker, s_pend, unsent, answers, replaced)
  BY DEF AccountInv
<1>2. Traffic!OnTheWay = Traffic!Pending(s_acc) \cup Traffic!Pending(tls) \cup WithWorker \cup ({s_pend} \ {NoReq})
  BY DEF Traffic!OnTheWay, WithWorker
<1>3. NoReq \notin Reqs  BY ItemKinds
<1>4. s_cloud_ready => s_cloud_reply = s_cloud_req_id  BY DEF AccountInv, OneCommand
<1> DEFINE on == Traffic!OnTheWay
<1>5. \A x \in Reqs \ (unsent \cup replaced) : IF x \in on THEN answers[x] = 0 ELSE answers[x] = 1
  BY <1>1, <1>2, <1>3 DEF Counted
<1> QED  BY <1>4, <1>5 DEF Traffic!Accounted

\* The chunk that is due on a tunnel before a frame and after it (0: no tunnel is bound).
Due(e, f, due) ==
    \/ f.k = "cmd" /\ due = e
    \/ f.k \in {"open", "reset"} /\ due = 1
    \/ f.k = "close" /\ due = 0
    \/ f.k = "data" /\ e = 0 /\ due = 0
    \/ f.k = "data" /\ e # 0 /\ f.n = e /\ due = IF f.bad THEN 0 ELSE e + 1

\* The frames of a queue, in their order, take what is due from one chunk to another.
Chain(q, from, to) ==
    \E e \in [0 .. Len(q) -> Nat] :
       e[0] = from /\ e[Len(q)] = to /\ \A i \in 1 .. Len(q) : Due(e[i - 1], q[i], e[i])

\* From the worker's stream over its queue and the frames not handled yet to the server's next chunk, none is missing.
OrderInv ==
    /\ ~gap /\ expected \in Nat \ {0}
    /\ \E d \in Nat \ {0}, m, t \in Nat :
          /\ Chain(work, expected, d)
          /\ Chain(s_acc, IF s_tunnel THEN IF tunnelParked THEN 1 ELSE d ELSE 0, m)
          /\ Chain(tls, m, t)
          /\ t = 0 \/ (opened /\ t = chunk + 1)

\* A frame joins a chain at its end.
LEMMA ChainAppend ==
    ASSUME NEW S, NEW q \in Seq(S), NEW from \in Nat, NEW to \in Nat, NEW due \in Nat, NEW f \in S,
           Chain(q, from, to), Due(to, f, due)
    PROVE  Chain(Append(q, f), from, due)
<1>1. PICK e \in [0 .. Len(q) -> Nat] : e[0] = from /\ e[Len(q)] = to /\ \A i \in 1 .. Len(q) : Due(e[i - 1], q[i], e[i])
  BY DEF Chain
<1>2. /\ Len(q) \in Nat /\ Len(Append(q, f)) = Len(q) + 1 /\ Append(q, f)[Len(q) + 1] = f
      /\ \A i \in 1 .. Len(q) : Append(q, f)[i] = q[i]
  OBVIOUS
<1> DEFINE g == [i \in 0 .. Len(q) + 1 |-> IF i = Len(q) + 1 THEN due ELSE e[i]]
           l == Append(q, f)
<1>3. g \in [0 .. Len(l) -> Nat]
  <2>1. \A i \in 0 .. Len(q) + 1 : i # Len(q) + 1 => i \in 0 .. Len(q)  BY <1>2
  <2> QED  BY <1>2, <2>1
<1>4. g[0] = from /\ g[Len(l)] = due  BY <1>1, <1>2
<1>5. ASSUME NEW i \in 1 .. Len(l) PROVE Due(g[i - 1], l[i], g[i])
  <2>1. CASE i = Len(q) + 1
    <3>1. g[i - 1] = to /\ l[i] = f /\ g[i] = due  BY <1>1, <1>2, <2>1
    <3> QED  BY <3>1
  <2>2. CASE i # Len(q) + 1
    <3>1. i \in 1 .. Len(q)  BY <1>2, <2>2
    <3>2. g[i - 1] = e[i - 1] /\ l[i] = q[i] /\ g[i] = e[i]  BY <1>2, <3>1
    <3> QED  BY <1>1, <3>1, <3>2
  <2> QED  BY <2>1, <2>2
<1> HIDE DEF g, l
<1>6. Chain(l, from, due)  BY <1>3, <1>4, <1>5 DEF Chain
<1> QED  BY <1>6 DEF l

\* The head of a chain leaves it.
LEMMA ChainTail ==
    ASSUME NEW S, NEW q \in Seq(S), q # <<>>, NEW from, NEW to, Chain(q, from, to)
    PROVE  \E due \in Nat : Due(from, Head(q), due) /\ Chain(Tail(q), due, to)
<1>1. PICK e \in [0 .. Len(q) -> Nat] : e[0] = from /\ e[Len(q)] = to /\ \A i \in 1 .. Len(q) : Due(e[i - 1], q[i], e[i])
  BY DEF Chain
<1>2. /\ Len(q) \in Nat \ {0} /\ Len(Tail(q)) = Len(q) - 1 /\ Head(q) = q[1]
      /\ \A i \in 1 .. Len(q) - 1 : Tail(q)[i] = q[i + 1]
  OBVIOUS
<1> DEFINE g == [i \in 0 .. Len(q) - 1 |-> e[i + 1]]
           l == Tail(q)
<1>3. g \in [0 .. Len(l) -> Nat]
  <2>1. \A i \in 0 .. Len(q) - 1 : i + 1 \in 0 .. Len(q)  BY <1>2
  <2> QED  BY <1>2, <2>1
<1>4. g[0] = e[1] /\ g[Len(l)] = to  BY <1>1, <1>2
<1>5. ASSUME NEW i \in 1 .. Len(l) PROVE Due(g[i - 1], l[i], g[i])
  <2>1. i + 1 \in 1 .. Len(q) /\ (i + 1) - 1 = i /\ i \in Int  BY <1>2
  <2>2. g[i - 1] = e[i] /\ l[i] = q[i + 1] /\ g[i] = e[i + 1]  BY <1>2, <2>1
  <2>3. Due(e[(i + 1) - 1], q[i + 1], e[i + 1])  BY <1>1, <2>1
  <2> QED  BY <2>1, <2>2, <2>3
<1>6. e[1] \in Nat /\ Due(from, q[1], e[1])
  <2>1. 1 \in 1 .. Len(q) /\ 1 - 1 = 0 /\ 1 \in 0 .. Len(q)  BY <1>2
  <2>2. Due(e[1 - 1], q[1], e[1])  BY <1>1, <2>1
  <2> QED  BY <1>1, <2>1, <2>2
<1> HIDE DEF g, l
<1>7. Chain(l, e[1], to)  BY <1>3, <1>4, <1>5 DEF Chain
<1> QED  BY <1>2, <1>6, <1>7 DEF l

\* A chain follows another.
LEMMA ChainJoins ==
    ASSUME NEW S, NEW p \in Seq(S), NEW q \in Seq(S), NEW from, NEW mid, NEW to, Chain(p, from, mid), Chain(q, mid, to)
    PROVE  Chain(p \o q, from, to)
<1>1. PICK e \in [0 .. Len(p) -> Nat] : e[0] = from /\ e[Len(p)] = mid /\ \A i \in 1 .. Len(p) : Due(e[i - 1], p[i], e[i])
  BY DEF Chain
<1>2. PICK h \in [0 .. Len(q) -> Nat] : h[0] = mid /\ h[Len(q)] = to /\ \A i \in 1 .. Len(q) : Due(h[i - 1], q[i], h[i])
  BY DEF Chain
<1>3. /\ Len(p) \in Nat /\ Len(q) \in Nat /\ Len(p \o q) = Len(p) + Len(q)
      /\ \A i \in 1 .. Len(p) + Len(q) : (p \o q)[i] = IF i <= Len(p) THEN p[i] ELSE q[i - Len(p)]
  OBVIOUS
<1> DEFINE g == [i \in 0 .. Len(p) + Len(q) |-> IF i <= Len(p) THEN e[i] ELSE h[i - Len(p)]]
           l == p \o q
<1>4. g \in [0 .. Len(l) -> Nat]
  <2>1. \A i \in 0 .. Len(p) + Len(q) : IF i <= Len(p) THEN i \in 0 .. Len(p) ELSE i - Len(p) \in 0 .. Len(q)  BY <1>3
  <2> QED  BY <1>3, <2>1
<1>5. g[0] = from /\ g[Len(l)] = to
  <2>1. g[0] = from  BY <1>1, <1>3
  <2>2. CASE Len(q) = 0
    <3>1. mid = to  BY <1>2, <2>2
    <3>2. Len(l) = Len(p) /\ Len(p) \in 0 .. Len(p) + Len(q)  BY <1>3, <2>2
    <3>3. g[Len(p)] = e[Len(p)]  BY <1>3, <3>2
    <3> QED  BY <1>1, <2>1, <3>1, <3>2, <3>3
  <2>3. CASE Len(q) # 0
    <3>1. Len(l) \in 0 .. Len(p) + Len(q) /\ ~(Len(l) <= Len(p)) /\ Len(l) - Len(p) = Len(q)  BY <1>3, <2>3
    <3>2. g[Len(l)] = h[Len(l) - Len(p)]  BY <3>1
    <3> QED  BY <1>2, <2>1, <3>1, <3>2
  <2> QED  BY <2>1, <2>2, <2>3
<1>6. ASSUME NEW i \in 1 .. Len(l) PROVE Due(g[i - 1], l[i], g[i])
  <2>1. CASE i <= Len(p)
    <3>1. i \in 1 .. Len(p) /\ g[i - 1] = e[i - 1] /\ l[i] = p[i] /\ g[i] = e[i]  BY <1>3, <2>1
    <3> QED  BY <1>1, <3>1
  <2>2. CASE i = Len(p) + 1
    <3>1. 1 \in 1 .. Len(q) /\ g[i - 1] = h[0] /\ l[i] = q[1] /\ g[i] = h[1] /\ 1 - 1 = 0  BY <1>1, <1>2, <1>3, <2>2
    <3>2. Due(h[1 - 1], q[1], h[1])  BY <1>2, <3>1
    <3> QED  BY <3>1, <3>2
  <2>3. CASE i > Len(p) + 1
    <3> DEFINE j == i - Len(p)
    <3>1. j \in 1 .. Len(q) /\ g[i - 1] = h[j - 1] /\ l[i] = q[j] /\ g[i] = h[j]  BY <1>3, <2>3
    <3> HIDE DEF j
    <3> QED  BY <1>2, <3>1
  <2> QED  BY <1>3, <2>1, <2>2, <2>3
<1> HIDE DEF g, l
<1>7. Chain(l, from, to)  BY <1>4, <1>5, <1>6 DEF Chain
<1> QED  BY <1>7 DEF l

\* A chain of nothing.
LEMMA ChainEmpty ==
    /\ \A from \in Nat : Chain(<<>>, from, from)
    /\ \A from, to : Chain(<<>>, from, to) => from = to
<1>1. ASSUME NEW from \in Nat PROVE Chain(<<>>, from, from)
  <2> DEFINE e == [i \in 0 .. 0 |-> from]
  <2>1. Len(<<>>) = 0 /\ e \in [0 .. 0 -> Nat] /\ e[0] = from  OBVIOUS
  <2>2. \A i \in 1 .. 0 : FALSE  OBVIOUS
  <2> HIDE DEF e
  <2> QED  BY <2>1, <2>2 DEF Chain
<1>2. \A from, to : Chain(<<>>, from, to) => from = to  BY DEF Chain
<1> QED  BY <1>1, <1>2

\* hw_worker_submit_tunnel_reset: the stream starts over behind all that is queued.
LEMMA ResetStarts ==
    ASSUME FramesTyped, Traffic!SubmitReset, expected \in Nat, NEW d \in Nat \ {0}, Chain(work, expected, d)
    PROVE  \E due \in Nat \ {0} : Chain(work', expected, due) /\ (tunnelParked' \/ due = 1)
<1>1. CASE work' = Append(work, Traffic!Reset)
  <2>1. Traffic!Reset \in WorkItems /\ Due(d, Traffic!Reset, 1)
    BY DEF Traffic!Reset, Traffic!Control, WorkItems, Items, Due
  <2>2. Chain(Append(work, Traffic!Reset), expected, 1)  BY <2>1, ChainAppend DEF FramesTyped
  <2> QED  BY <1>1, <2>2
<1>2. CASE tunnelParked' /\ work' = work
  BY <1>2
<1> QED  BY <1>1, <1>2 DEF Traffic!SubmitReset

\* cloud_client.c, hw_worker.c: no handler, refusal, reset, parked reset or lost link leaves a gap in a stream.
LEMMA OrderInvStep ==
    ASSUME OrderInv, FramesTyped, [Traffic!Next]_trafficVars
    PROVE  OrderInv'
<1> USE DEF Traffic!inVars, Traffic!rxVars, Traffic!workVars, Traffic!slotVars, Traffic!outVars
<1> DEFINE From(bound, parked, d) == IF bound THEN IF parked THEN 1 ELSE d ELSE 0
<1>1. PICK d \in Nat \ {0}, m \in Nat, t \in Nat :
          /\ Chain(work, expected, d)
          /\ Chain(s_acc, From(s_tunnel, tunnelParked, d), m)
          /\ Chain(tls, m, t)
          /\ t = 0 \/ (opened /\ t = chunk + 1)
  BY DEF OrderInv
<1>2. /\ ~gap /\ expected \in Nat \ {0} /\ chunk \in Nat
      /\ s_acc \in Seq(NetItems) /\ tls \in Seq(NetItems) /\ work \in Seq(WorkItems)
  BY DEF OrderInv, FramesTyped
<1>3. ASSUME NEW d2 \in Nat \ {0}, NEW m2 \in Nat, NEW t2 \in Nat, ~gap', expected' \in Nat \ {0},
             Chain(work', expected', d2), Chain(s_acc', From(s_tunnel', tunnelParked', d2), m2), Chain(tls', m2, t2),
             t2 = 0 \/ (opened' /\ t2 = chunk' + 1)
      PROVE  OrderInv'
  <2> DEFINE Now == \E d3 \in Nat \ {0}, m3 \in Nat, t3 \in Nat :
                       /\ Chain(work, expected, d3)
                       /\ Chain(s_acc, IF s_tunnel THEN IF tunnelParked THEN 1 ELSE d3 ELSE 0, m3)
                       /\ Chain(tls, m3, t3)
                       /\ t3 = 0 \/ (opened /\ t3 = chunk + 1)
  <2>1. Now'
    <3>1. /\ Chain(work, expected, d2)' = Chain(work', expected', d2)
          /\ Chain(s_acc, IF s_tunnel THEN IF tunnelParked THEN 1 ELSE d2 ELSE 0, m2)' = Chain(s_acc', From(s_tunnel', tunnelParked', d2), m2)
          /\ Chain(tls, m2, t2)' = Chain(tls', m2, t2)
      BY DEF Chain, Due
    <3> QED  BY <1>3, <3>1
  <2> QED  BY <1>3, <2>1 DEF OrderInv
<1>4. ASSUME UNCHANGED <<work, s_acc, tls, s_tunnel, tunnelParked, opened, chunk, expected, gap>> PROVE OrderInv'
  <2>1. ~gap' /\ expected' \in Nat \ {0} /\ Chain(work', expected', d)  BY <1>1, <1>2, <1>4
  <2>2. Chain(s_acc', From(s_tunnel', tunnelParked', d), m) /\ Chain(tls', m, t) /\ (t = 0 \/ (opened' /\ t = chunk' + 1))
    BY <1>1, <1>4
  <2> HIDE DEF From
  <2> QED  BY <1>3, <2>1, <2>2
<1>5. ASSUME NEW f \in NetItems, Traffic!Receive(f), tls = <<>>, NEW due \in Nat, Due(t, f, due),
             due = 0 \/ (opened' /\ due = chunk' + 1),
             UNCHANGED <<work, s_tunnel, tunnelParked, expected, gap>>
      PROVE  OrderInv'
  <2>1. Chain(work', expected', d) /\ From(s_tunnel', tunnelParked', d) = From(s_tunnel, tunnelParked, d) /\ ~gap'
        /\ expected' \in Nat \ {0}
    BY <1>1, <1>2, <1>5
  <2>2. m = t /\ Chain(tls, due, due)  BY <1>1, <1>5, ChainEmpty
  <2> HIDE DEF From
  <2>3. CASE s_acc' = Append(s_acc, f) /\ tls' = tls
    <3>1. From(s_tunnel, tunnelParked, d) \in Nat  BY <1>1 DEF From
    <3>2. Chain(Append(s_acc, f), From(s_tunnel, tunnelParked, d), due)  BY <1>1, <1>2, <1>5, <2>2, <3>1, ChainAppend
    <3> QED  BY <1>3, <1>5, <2>1, <2>2, <2>3, <3>2
  <2>4. CASE tls' = Append(tls, f) /\ s_acc' = s_acc
    <3>1. Chain(Append(tls, f), m, due)  BY <1>1, <1>2, <1>5, ChainAppend
    <3> QED  BY <1>1, <1>3, <1>5, <2>1, <2>4, <3>1
  <2> QED  BY <1>5, <2>3, <2>4 DEF Traffic!Receive
<1>6. CASE Traffic!ServerSends
  <2>1. tls = <<>> /\ UNCHANGED <<work, s_tunnel, tunnelParked, expected, gap>>  BY <1>6 DEF Traffic!ServerSends
  <2>2. NoReq \notin Reqs /\ unsent \subseteq Reqs  BY Assumptions DEF Traffic!ConstantsOK, FramesTyped
  <2>3. ASSUME NEW x \in unsent, NEW big \in BOOLEAN, Traffic!Receive(Traffic!Cmd(x, big)), UNCHANGED <<opened, chunk>>
        PROVE  OrderInv'
    <3>1. Traffic!Cmd(x, big) \in NetItems  BY <2>2 DEF Traffic!Cmd, Items, NetItems
    <3>2. Due(t, Traffic!Cmd(x, big), t)  BY DEF Due, Traffic!Cmd
    <3> QED  BY <1>1, <1>5, <2>1, <2>3, <3>1, <3>2
  <2>4. ASSUME Traffic!Receive(Traffic!Control("open")), opened', chunk' = 0
        PROVE  OrderInv'
    <3>1. Traffic!Control("open") \in NetItems  BY DEF Traffic!Control, Items, NetItems
    <3>2. Due(t, Traffic!Control("open"), 1) /\ 1 = chunk' + 1  BY <2>4 DEF Due, Traffic!Control
    <3> QED  BY <1>5, <2>1, <2>4, <3>1, <3>2
  <2>5. ASSUME Traffic!Receive(Traffic!Control("close"))
        PROVE  OrderInv'
    <3>1. Traffic!Control("close") \in NetItems  BY DEF Traffic!Control, Items, NetItems
    <3>2. Due(t, Traffic!Control("close"), 0)  BY DEF Due, Traffic!Control
    <3> QED  BY <1>5, <2>1, <2>5, <3>1, <3>2
  <2>6. ASSUME NEW bad \in BOOLEAN, Traffic!Receive(Traffic!Chunk(chunk + 1, bad)), opened, chunk' = chunk + 1, opened' = opened
        PROVE  OrderInv'
    <3>1. Traffic!Chunk(chunk + 1, bad) \in NetItems  BY <1>2 DEF Traffic!Chunk, Items, NetItems
    <3> DEFINE due == IF t = 0 \/ bad THEN 0 ELSE chunk + 2
    <3>2. due \in Nat /\ Due(t, Traffic!Chunk(chunk + 1, bad), due)
      BY <1>1, <1>2 DEF Due, Traffic!Chunk
    <3>3. due = 0 \/ (opened' /\ due = chunk' + 1)  BY <1>2, <2>6
    <3> HIDE DEF due
    <3> QED  BY <1>5, <2>1, <2>6, <3>1, <3>2, <3>3
  <2> QED  BY <1>6, <2>3, <2>4, <2>5, <2>6 DEF Traffic!ServerSends
<1>7. CASE Traffic!Kick
  <2>1. s_acc' = s_acc \o tls /\ tls' = <<>> /\ UNCHANGED <<work, s_tunnel, tunnelParked, opened, chunk, expected, gap>>
    BY <1>7 DEF Traffic!Kick
  <2>2. Chain(work', expected', d) /\ From(s_tunnel', tunnelParked', d) = From(s_tunnel, tunnelParked, d) /\ ~gap'
        /\ expected' \in Nat \ {0} /\ (t = 0 \/ (opened' /\ t = chunk' + 1))
    BY <1>1, <1>2, <2>1
  <2> HIDE DEF From
  <2>3. Chain(s_acc \o tls, From(s_tunnel, tunnelParked, d), t)  BY <1>1, <1>2, ChainJoins
  <2>4. Chain(<<>>, t, t)  BY ChainEmpty
  <2> QED  BY <1>3, <2>1, <2>2, <2>3, <2>4
<1>8. CASE Traffic!ProcessFrame
  <2> DEFINE f == Head(s_acc)
             bound == From(s_tunnel, tunnelParked, d)
  <2>1. /\ s_acc # <<>> /\ UNCHANGED <<Traffic!inVars, w, expected, gap>>
        /\ Traffic!HandleCommand(f) \/ Traffic!HandleTunnel(f) \/ Traffic!HandleData(f)
    BY <1>8 DEF Traffic!ProcessFrame
  <2>2. f \in NetItems  BY <1>2, <2>1
  <2>3. s_acc' = Tail(s_acc) /\ tls' = tls
    BY <2>1 DEF Traffic!HandleCommand, Traffic!HandleTunnel, Traffic!HandleData, Traffic!Consume
  <2>4. bound \in Nat  BY <1>1
  <2>5. PICK due \in Nat : Due(bound, f, due) /\ Chain(Tail(s_acc), due, m)
    <3> HIDE DEF bound
    <3>1. Chain(s_acc, bound, m)  BY <1>1 DEF bound
    <3> QED  BY <1>2, <2>1, <2>4, <3>1, ChainTail
  <2>6. ASSUME NEW d2 \in Nat \ {0}, Chain(work', expected, d2), From(s_tunnel', tunnelParked', d2) = due
        PROVE  OrderInv'
    <3>1. ~gap' /\ expected' = expected /\ (t = 0 \/ (opened' /\ t = chunk' + 1)) /\ Chain(tls', m, t)
      BY <1>1, <1>2, <2>1, <2>3
    <3>2. Chain(s_acc', From(s_tunnel', tunnelParked', d2), m)  BY <2>3, <2>5, <2>6
    <3> HIDE DEF From
    <3> QED  BY <1>2, <1>3, <2>6, <3>1, <3>2
  <2>7. ASSUME Traffic!SubmitReset, due = (IF s_tunnel' THEN 1 ELSE 0) PROVE OrderInv'
    <3>1. PICK d2 \in Nat \ {0} : Chain(work', expected, d2) /\ (tunnelParked' \/ d2 = 1)
      BY <1>1, <1>2, <2>7, ResetStarts
    <3>2. From(s_tunnel', tunnelParked', d2) = due  BY <2>7, <3>1
    <3> QED  BY <2>6, <3>1, <3>2
  <2>8. ASSUME work' = work, From(s_tunnel', tunnelParked', d) = due PROVE OrderInv'
    BY <1>1, <2>6, <2>8
  <2> HIDE DEF f
  <2>9. CASE Traffic!HandleCommand(f)
    <3>1. f.k = "cmd" /\ UNCHANGED <<s_tunnel, tunnelParked>> /\ (work' = work \/ work' = Append(work, f))
      BY <2>9 DEF Traffic!HandleCommand, Traffic!Submit
    <3>2. due = bound /\ From(s_tunnel', tunnelParked', d) = due  BY <2>5, <3>1 DEF Due
    <3>3. CASE work' = Append(work, f)
      <4>1. f \in WorkItems /\ Due(d, f, d)  BY <2>2, <3>1 DEF NetItems, WorkItems, Due
      <4>2. Chain(Append(work, f), expected, d)  BY <1>1, <1>2, <4>1, ChainAppend
      <4> HIDE DEF From, bound
      <4> QED  BY <1>1, <2>6, <3>2, <3>3, <4>2
    <3> QED  BY <2>8, <3>1, <3>2, <3>3
  <2>10. CASE Traffic!HandleTunnel(f)
    <3>1. f.k \in {"open", "close"} /\ (s_tunnel' <=> f.k = "open")
          /\ IF f.k = "open" \/ s_tunnel THEN Traffic!SubmitReset ELSE UNCHANGED <<work, tunnelParked>>
      BY <2>10 DEF Traffic!HandleTunnel
    <3>2. due = (IF s_tunnel' THEN 1 ELSE 0)  BY <2>5, <3>1 DEF Due
    <3>3. CASE ~(f.k = "open" \/ s_tunnel)
      <4>1. work' = work /\ ~s_tunnel' /\ due = 0  BY <3>1, <3>2, <3>3
      <4>2. From(s_tunnel', tunnelParked', d) = due  BY <4>1
      <4> QED  BY <2>8, <4>1, <4>2
    <3> QED  BY <2>7, <3>1, <3>2, <3>3
  <2>11. CASE Traffic!HandleData(f)
    <3>1. CASE ~s_tunnel /\ UNCHANGED <<s_tunnel, work, tunnelParked>>
      <4>1. bound = 0 /\ From(s_tunnel', tunnelParked', d) = 0  BY <3>1
      <4>2. due = 0  BY <2>5, <2>11, <4>1 DEF Due, Traffic!HandleData
      <4> QED  BY <2>8, <3>1, <4>1, <4>2
    <3>2. CASE s_tunnel /\ f.bad /\ Traffic!TunnelFail
      <4>1. Traffic!SubmitReset /\ ~s_tunnel'  BY <3>2 DEF Traffic!TunnelFail
      <4>2. due = 0  BY <2>5, <2>11, <3>2 DEF Due, Traffic!HandleData
      <4> QED  BY <2>7, <4>1, <4>2
    <3>3. CASE s_tunnel /\ ~f.bad /\ ~tunnelParked /\ Traffic!Submit(f) /\ UNCHANGED <<s_tunnel, tunnelParked>>
      <4>1. bound = d /\ work' = Append(work, f)  BY <3>3 DEF Traffic!Submit
      <4>2. f.k = "data"  BY <2>11 DEF Traffic!HandleData
      <4>3. f.n = d /\ due = d + 1 /\ Due(d, f, d + 1)  BY <1>1, <2>5, <3>3, <4>1, <4>2 DEF Due
      <4>4. f \in WorkItems  BY <2>2, <3>3, <4>2 DEF NetItems, WorkItems
      <4>5. Chain(Append(work, f), expected, d + 1) /\ d + 1 \in Nat \ {0}
        BY <1>1, <1>2, <4>3, <4>4, ChainAppend
      <4>6. From(s_tunnel', tunnelParked', d + 1) = due  BY <3>3, <4>3
      <4> QED  BY <2>6, <4>1, <4>5, <4>6
    <3> QED  BY <2>11, <3>1, <3>2, <3>3 DEF Traffic!HandleData
  <2> QED  BY <2>1, <2>9, <2>10, <2>11
<1>9. CASE Traffic!LinkLost
  <2>1. /\ s_acc' = <<>> /\ tls' = <<>> /\ ~s_tunnel' /\ UNCHANGED <<expected, gap>>
        /\ IF s_tunnel THEN Traffic!SubmitReset ELSE UNCHANGED <<work, tunnelParked>>
    BY <1>9 DEF Traffic!LinkLost
  <2>2. PICK d2 \in Nat \ {0} : Chain(work', expected, d2)
    <3>1. CASE s_tunnel  BY <1>1, <1>2, <2>1, <3>1, ResetStarts
    <3>2. CASE ~s_tunnel  BY <1>1, <2>1, <3>2
    <3> QED  BY <3>1, <3>2
  <2>3. From(s_tunnel', tunnelParked', d2) = 0  BY <2>1
  <2>4. Chain(<<>>, 0, 0)  BY ChainEmpty
  <2> HIDE DEF From
  <2>5. Chain(s_acc', From(s_tunnel', tunnelParked', d2), 0) /\ Chain(tls', 0, 0)  BY <2>1, <2>3, <2>4
  <2> QED  BY <1>2, <1>3, <2>1, <2>2, <2>5
<1>10. CASE Traffic!WorkerTakes
  <2> DEFINE i == Head(work)
  <2>1. /\ work # <<>> /\ work' = Tail(work) /\ UNCHANGED <<s_acc, tls, s_tunnel, tunnelParked, opened, chunk>>
    BY <1>10 DEF Traffic!WorkerTakes
  <2>2. i \in WorkItems  BY <1>2, <2>1
  <2>3. PICK due \in Nat : Due(expected, i, due) /\ Chain(Tail(work), due, d)
    BY <1>1, <1>2, <2>1, ChainTail
  <2>4. ~gap' /\ expected' = due /\ due # 0
    <3>1. CASE i.k = "cmd"
      <4>1. expected' = expected /\ gap' = gap  BY <1>10, <3>1 DEF Traffic!WorkerTakes
      <4> HIDE DEF i
      <4>2. due = expected  BY <2>3, <3>1 DEF Due
      <4> QED  BY <1>2, <4>1, <4>2
    <3>2. CASE i.k = "data"
      <4>1. expected' = i.n + 1 /\ gap' = (gap \/ i.n # expected)  BY <1>10, <3>2 DEF Traffic!WorkerTakes
      <4> HIDE DEF i
      <4>2. ~i.bad  BY <2>2, <3>2 DEF WorkItems
      <4>3. i.n = expected /\ due = expected + 1  BY <1>2, <2>3, <3>2, <4>2 DEF Due
      <4>4. ~gap'  BY <1>2, <4>1, <4>3
      <4> QED  BY <1>2, <4>1, <4>3, <4>4
    <3>3. CASE i.k = "reset"
      <4>1. expected' = 1 /\ gap' = gap  BY <1>10, <3>3 DEF Traffic!WorkerTakes
      <4> HIDE DEF i
      <4>2. due = 1  BY <2>3, <3>3 DEF Due
      <4> QED  BY <1>2, <4>1, <4>2
    <3>4. i.k \in {"cmd", "data", "reset"}  BY <2>2 DEF WorkItems
    <3> QED  BY <3>1, <3>2, <3>3, <3>4
  <2>5. /\ Chain(work', expected', d) /\ expected' \in Nat \ {0}
        /\ Chain(s_acc', From(s_tunnel', tunnelParked', d), m) /\ Chain(tls', m, t) /\ (t = 0 \/ (opened' /\ t = chunk' + 1))
    BY <1>1, <2>1, <2>3, <2>4
  <2> HIDE DEF From
  <2> QED  BY <1>3, <2>4, <2>5
<1>11. CASE Traffic!WorkerUnparks
  <2>1. /\ work = <<>> /\ tunnelParked /\ ~tunnelParked' /\ expected' = 1
        /\ UNCHANGED <<work, s_acc, tls, s_tunnel, opened, chunk, gap>>
    BY <1>11 DEF Traffic!WorkerUnparks
  <2>2. Chain(work', expected', 1)  BY <2>1, ChainEmpty
  <2>3. From(s_tunnel', tunnelParked', 1) = From(s_tunnel, tunnelParked, d)  BY <2>1
  <2>4. Chain(s_acc', From(s_tunnel', tunnelParked', 1), m) /\ Chain(tls', m, t) /\ (t = 0 \/ (opened' /\ t = chunk' + 1)) /\ ~gap'
    BY <1>1, <1>2, <2>1, <2>3
  <2> HIDE DEF From
  <2> QED  BY <1>3, <2>1, <2>2, <2>4
<1>12. CASE Traffic!FrameReply \/ Traffic!Resend \/ Traffic!Buffer \/ Traffic!WorkerReplies
  BY <1>4, <1>12 DEF Traffic!FrameReply, Traffic!Resend, Traffic!Buffer, Traffic!WorkerReplies
<1>13. CASE UNCHANGED trafficVars
  BY <1>4, <1>13 DEF trafficVars
<1> QED
  BY <1>6, <1>7, <1>8, <1>9, <1>10, <1>11, <1>12, <1>13 DEF Traffic!Next, Traffic!Net, Traffic!Worker

\* cloud_client.c, hw_worker.c: for any requests, queue depth, room in s_rx, tunnels, chunks and lost links, in
\* any order: a request is answered once, with its own answer, or is on its way; no tunnel skips a chunk.
THEOREM TrafficIntact == MCSpec => [](Traffic!Accounted /\ Traffic!NoGap)
<1>1. MCInit => FramesTyped /\ AccountInv /\ OrderInv
  <2> SUFFICES ASSUME MCInit PROVE FramesTyped /\ AccountInv /\ OrderInv
    OBVIOUS
  <2>1. /\ unsent = Reqs /\ chunk = 0 /\ tls = <<>> /\ s_acc = <<>> /\ ~s_tunnel /\ work = <<>>
        /\ w = Traffic!Control("idle") /\ expected = 1 /\ ~gap /\ ~s_cloud_pending /\ ~s_cloud_ready
        /\ s_pend = NoReq /\ answers = [x \in Reqs |-> 0] /\ replaced = {}
    BY DEF MCInit, Traffic!Init
  <2>2. FramesTyped  BY <2>1 DEF FramesTyped
  <2>3. w \in Items /\ w.r = NoReq /\ w.k = "idle"  BY <2>1, ItemKinds
  <2>4. Traffic!Pending(tls) = {} /\ Traffic!Pending(s_acc) = {} /\ Traffic!Pending(work) = {} /\ Distinct(s_acc) /\ Distinct(work)
    BY <2>1, ItemEnds
  <2>5. WithWorker = {}  BY <2>1, <2>3, <2>4 DEF WithWorker
  <2>6. OneCommand  BY <2>1, <2>3, <2>4 DEF OneCommand
  <2>7. Counted({}, {}, {}, s_pend, unsent, answers, replaced)
    <3>1. NoReq \notin Reqs  BY ItemKinds
    <3> QED  BY <2>1, <3>1 DEF Counted
  <2>8. AccountInv
    <3>1. TrafficTypes  BY <2>1, <2>3, <2>4 DEF TrafficTypes
    <3> QED  BY <2>4, <2>5, <2>6, <2>7, <3>1 DEF AccountInv
  <2>9. OrderInv
    <3>1. Chain(work, expected, 1) /\ Chain(s_acc, 0, 0) /\ Chain(tls, 0, 0)  BY <2>1, ChainEmpty
    <3>2. Chain(s_acc, IF s_tunnel THEN IF tunnelParked THEN 1 ELSE 1 ELSE 0, 0)  BY <2>1, <3>1
    <3> QED  BY <2>1, <3>1, <3>2 DEF OrderInv
  <2> QED  BY <2>2, <2>8, <2>9
<1>2. [MCNext]_mcVars => [Traffic!Next]_trafficVars  BY DEF MCNext, Rest, mcVars
<1>3. OrderInv => Traffic!NoGap  BY DEF OrderInv, Traffic!NoGap
<1> QED  BY <1>1, <1>2, <1>3, FramesTypedStep, AccountInvStep, OrderInvStep, AccountShows, PTL DEF MCSpec
--------------------------------------------------------------------------------
\* Who may use the pod, as the run composes it: for any tick width, lease, hosts, policies, faults and
\* resets.
THEOREM AccessIsAuthorised == MCSpec => []OnlyAuthorised
<1>1. Lease!LeaseTrue /\ Policy!PolicyDurable /\ Cloud!LinkIsOurs => OnlyAuthorised
  BY DEF OnlyAuthorised
<1> QED  BY <1>1, LeaseIsTrue, PoliciesDurable, LoginsAreOurs, PTL

\* pod_policy.h and altcp_sndbuf: for any number of commands and resets no plaintext client loosens a
\* policy, and for any send buffer a write within what altcp_sndbuf said leaves at once.
THEOREM NothingLoosens == MCSpec => NeverLoosened
<1>1. [MCNext]_mcVars => [Policy!Next]_accessVars /\ [Tx!Next]_txVars
  BY DEF MCNext, Rest, mcVars
<1>2. UNCHANGED accessVars => UNCHANGED Policy!acVars
  BY DEF accessVars, Policy!acVars, Policy!polVars, Policy!reqVars, Policy!netVars, Policy!usbVars
<1>3. UNCHANGED txVars => UNCHANGED Tx!txVars  BY DEF txVars, Tx!txVars
<1>4. PolicyInv /\ [MCNext]_mcVars => [Policy!LoosensNothing]_(Policy!acVars)
  BY <1>1, <1>2, PolicyInvStep
<1>5. TxInv /\ [MCNext]_mcVars => [Tx!LeavesAtOnce]_(Tx!txVars)  BY <1>1, <1>3, TxInvStep
<1>6. MCSpec => []PolicyInv  BY <1>1, PolicyInitially, PolicyInvStep, PTL DEF MCSpec
<1>7. MCSpec => Policy!NeverLoosened  BY <1>4, <1>6, PTL DEF MCSpec, Policy!NeverLoosened
<1>8. MCSpec => Tx!SndbufHonest  BY <1>5, TxInvariant, PTL DEF MCSpec, Tx!SndbufHonest
<1> QED  BY <1>7, <1>8 DEF NeverLoosened

\* cloud_client.c, hw_worker.c, altcp_tls_mbedtls_bp.c: the streams of the run, its traffic, and both
\* directions of a TLS connection.
THEOREM StreamsAreIntact == MCSpec => []StreamsIntact
<1>1. Traffic!Accounted /\ Traffic!NoGap /\ Rx!WindowTrue /\ Rx!FinIsLast /\ Tx!SentIsTrue /\ Tx!NothingLost
      => StreamsIntact
  BY DEF StreamsIntact
<1> QED  BY <1>1, TrafficIntact, ReceivesAreTrue, SendsAreTrue, PTL
--------------------------------------------------------------------------------
\* A non-empty set of numbers has a least element.
LEMMA Least ==
    ASSUME NEW T, T \subseteq Nat, T # {}
    PROVE  \E j \in T : \A i \in T : j <= i
<1>1. PICK j \in T : \A i \in T : ~ (<<i, j>> \in OpToRel(<, Nat))
  BY WFMin, NatLessThanWellFounded
<1>2. \A i \in T : ~ (i < j)  BY <1>1 DEF OpToRel
<1> QED  BY <1>2
--------------------------------------------------------------------------------
\* The sessions that hold a configuration, and its references: they and the listener's.
Holders(c) == {s \in Cert!Sessions : s_conn_tls[s] = c}
References(c) == Cardinality(Holders(c)) + (IF s_tls_listen_cfg = c THEN 1 ELSE 0)
Entries == [cfg : Nat, refs : Nat]
Phases == {"input", "sync", "collect", "call"}

CertTypes ==
    /\ s_cur \in Entries /\ s_retired \in [Cert!Slots -> Entries]
    /\ s_gen \in 0 .. MaxCerts + 1 /\ phase \in Phases
    /\ s_conn_tls \in [Cert!Sessions -> Nat] /\ s_tls_listen_cfg \in Nat

\* Each configuration a slot knows counts those who refer to it.
RefsCounted ==
    /\ s_cur.refs = IF s_cur.cfg = 0 THEN 0 ELSE References(s_cur.cfg)
    /\ \A i \in Cert!Slots : s_retired[i].refs = IF s_retired[i].cfg = 0 THEN 0 ELSE References(s_retired[i].cfg)

\* The slots know different configurations, and they and the ones given up are those allocated.
SlotsDiffer ==
    /\ s_cur.cfg # 0 => \A i \in Cert!Slots : s_retired[i].cfg # s_cur.cfg
    /\ \A i, j \in Cert!Slots : s_retired[i].cfg = s_retired[j].cfg /\ s_retired[i].cfg # 0 => i = j
    /\ s_cur.cfg \notin lost /\ \A i \in Cert!Slots : s_retired[i].cfg \notin lost

LiveKnown ==
    /\ live = ({s_cur.cfg} \cup {s_retired[i].cfg : i \in Cert!Slots} \cup lost) \ {0}
    /\ live \subseteq 1 .. s_gen /\ lost \subseteq live

\* Who uses one uses a live one; what lwIP is about to free is freed before the collection.
UsesLive ==
    /\ s_tls_listen_cfg \in live \cup {0} /\ \A s \in Cert!Sessions : s_conn_tls[s] \in live \cup {0}
    /\ dying \subseteq live /\ (phase # "input" => dying = {})
    /\ phase = "call" => \A i \in Cert!Slots : s_retired[i].cfg # 0 => s_retired[i].refs > 0

\* A reader whose counter still stands has copied the description that stands.
ReaderTrue ==
    /\ s_info_seq \in Nat /\ s_info \in Nat /\ r.tries \in 0 .. MaxTries
    /\ r \in [pc : {"idle", "first", "second", "check", "done"}, seq : Nat, a : Nat, b : Nat, tries : Nat]
    /\ r.pc = "idle" => r.tries < MaxTries
    /\ r.pc \in {"first", "second", "check"} => r.seq <= s_info_seq
    /\ r.pc \in {"second", "check"} /\ r.seq = s_info_seq => r.a = s_info
    /\ r.pc = "check" /\ r.seq = s_info_seq => r.b = s_info
    /\ Cert!InfoWhole

\* The inductive invariant of the configurations.
CertInv == CertTypes /\ RefsCounted /\ SlotsDiffer /\ LiveKnown /\ UsesLive

\* The bounds of lan_tls.c.
LEMMA CertConstants == {RetiredMax, MaxSess, MaxCerts, MaxTries} \subseteq Nat \ {0}
  BY Assumptions DEF Cert!ConstantsOK

\* The sessions are finitely many.
LEMMA SessionsFinite == IsFiniteSet(1 .. MaxSess) /\ Cardinality(1 .. MaxSess) = MaxSess
<1>1. 1 \in Int /\ MaxSess \in Int /\ ~(1 > MaxSess) /\ MaxSess - 1 + 1 = MaxSess
  BY CertConstants
<1>2. IsFiniteSet(1 .. MaxSess)  BY <1>1, FS_Interval
<1>3. Cardinality(1 .. MaxSess) = IF 1 > MaxSess THEN 0 ELSE MaxSess - 1 + 1
  BY <1>1, FS_Interval, Zenon
<1> QED  BY <1>1, <1>2, <1>3

\* The holders of a configuration are at most the sessions.
LEMMA HoldersFinite ==
    \A c : /\ IsFiniteSet(Holders(c)) /\ Cardinality(Holders(c)) \in 0 .. MaxSess
           /\ Cardinality(Holders(c)) = 0 <=> Holders(c) = {}
<1> SUFFICES ASSUME NEW c
             PROVE  /\ IsFiniteSet(Holders(c)) /\ Cardinality(Holders(c)) \in 0 .. MaxSess
                    /\ Cardinality(Holders(c)) = 0 <=> Holders(c) = {}
  OBVIOUS
<1>1. IsFiniteSet(1 .. MaxSess) /\ Cardinality(1 .. MaxSess) = MaxSess  BY SessionsFinite
<1>2. Holders(c) \in SUBSET (1 .. MaxSess)  BY DEF Holders, Cert!Sessions
<1>3. IsFiniteSet(Holders(c)) /\ Cardinality(Holders(c)) <= MaxSess  BY <1>1, <1>2, FS_Subset
<1>4. Cardinality(Holders(c)) \in Nat /\ (Cardinality(Holders(c)) = 0 <=> Holders(c) = {})
  BY <1>3, FS_CardinalityType, FS_EmptySet
<1> QED  BY <1>3, <1>4, CertConstants

\* After a step too.
LEMMA HoldersPrimed ==
    \A c : /\ IsFiniteSet(Holders(c)') /\ Cardinality(Holders(c)') \in 0 .. MaxSess
           /\ Cardinality(Holders(c)') = 0 <=> Holders(c)' = {}
<1> SUFFICES ASSUME NEW c
             PROVE  /\ IsFiniteSet(Holders(c)') /\ Cardinality(Holders(c)') \in 0 .. MaxSess
                    /\ Cardinality(Holders(c)') = 0 <=> Holders(c)' = {}
  OBVIOUS
<1>1. IsFiniteSet(1 .. MaxSess) /\ Cardinality(1 .. MaxSess) = MaxSess  BY SessionsFinite
<1>2. Holders(c)' \in SUBSET (1 .. MaxSess)  BY DEF Holders, Cert!Sessions
<1>3. IsFiniteSet(Holders(c)') /\ Cardinality(Holders(c)') <= MaxSess  BY <1>1, <1>2, FS_Subset
<1>4. Cardinality(Holders(c)') \in Nat /\ (Cardinality(Holders(c)') = 0 <=> Holders(c)' = {})
  BY <1>3, FS_CardinalityType, FS_EmptySet
<1> QED  BY <1>3, <1>4, CertConstants

\* A session takes or drops its hold: only the holders of that configuration change, by one.
LEMMA HoldersChange ==
    ASSUME CertTypes, NEW s \in Cert!Sessions, NEW c \in Nat, NEW d,
           s_conn_tls' = [s_conn_tls EXCEPT ![s] = d], d # s_conn_tls[s]
    PROVE  Cardinality(Holders(c)') = Cardinality(Holders(c)) + (IF c = d THEN 1 ELSE 0)
                                      - (IF c = s_conn_tls[s] THEN 1 ELSE 0)
<1>1. CASE c = d
  <2>1. Holders(c)' = Holders(c) \cup {s} /\ s \notin Holders(c)  BY <1>1 DEF Holders, CertTypes
  <2>2. Cardinality(Holders(c)') = Cardinality(Holders(c)) + 1
    BY <2>1, HoldersFinite, FS_AddElement
  <2> QED  BY <1>1, <2>2, HoldersFinite
<1>2. CASE c = s_conn_tls[s]
  <2>1. Holders(c)' = Holders(c) \ {s} /\ s \in Holders(c)  BY <1>2 DEF Holders, CertTypes
  <2>2. Cardinality(Holders(c)') = Cardinality(Holders(c)) - 1
    BY <2>1, HoldersFinite, FS_RemoveElement
  <2> QED  BY <1>2, <2>2, HoldersFinite
<1>3. CASE c # d /\ c # s_conn_tls[s]
  <2>1. Holders(c)' = Holders(c)  BY <1>3 DEF Holders, CertTypes
  <2> QED  BY <1>3, <2>1, HoldersFinite
<1> QED  BY <1>1, <1>2, <1>3
--------------------------------------------------------------------------------
\* References after the step.
NewReferences(c) ==
    Cardinality({s \in Cert!Sessions : s_conn_tls'[s] = c}) + (IF s_tls_listen_cfg' = c THEN 1 ELSE 0)

\* lan_tls_ref and lan_tls_unref on one slot.
Recounted(e, up, down) ==
    LET n == e.refs + (IF up = e.cfg /\ up # 0 THEN 1 ELSE 0)
    IN  [e EXCEPT !.refs = IF down = e.cfg /\ down # 0 /\ n > 0 THEN n - 1 ELSE n]

\* CurRefs and RetiredRefs do it to every slot.
LEMMA RecountedIs ==
    ASSUME CertTypes, NEW up, NEW down
    PROVE  /\ Cert!CurRefs(up, down) = Recounted(s_cur, up, down)
           /\ Cert!RetiredRefs(up, down) = [i \in Cert!Slots |-> Recounted(s_retired[i], up, down)]
  BY DEF Cert!CurRefs, Cert!RetiredRefs, Recounted, CertTypes, Entries

\* A slot's count stays true when one reference comes (up) and one goes (down).
LEMMA RecountedIsTrue ==
    ASSUME NEW e \in Entries, NEW up \in Nat, NEW down \in Nat,
           e.refs = IF e.cfg = 0 THEN 0 ELSE References(e.cfg),
           \A c \in Nat \ {0} : NewReferences(c) = References(c) + (IF c = up THEN 1 ELSE 0) - (IF c = down THEN 1 ELSE 0),
           down # 0 => References(down) > 0
    PROVE  LET m == Recounted(e, up, down)
           IN  m \in Entries /\ m.cfg = e.cfg /\ m.refs = IF m.cfg = 0 THEN 0 ELSE NewReferences(m.cfg)
<1> USE DEF Entries
<1>1. e.cfg \in Nat /\ e.refs \in Nat  OBVIOUS
<1>2. Recounted(e, up, down) \in Entries /\ Recounted(e, up, down).cfg = e.cfg
  BY <1>1 DEF Recounted
<1>3. CASE e.cfg = 0
  BY <1>1, <1>2, <1>3 DEF Recounted
<1>4. CASE e.cfg # 0
  <2> DEFINE was == References(e.cfg)
             is == NewReferences(e.cfg)
  <2>1. was = e.refs  BY <1>4
  <2>2. is = e.refs + (IF e.cfg = up THEN 1 ELSE 0) - (IF e.cfg = down THEN 1 ELSE 0)
    BY <1>1, <1>4, <2>1
  <2>3. e.cfg = down => e.refs > 0  BY <1>4, <2>1
  <2> HIDE DEF was, is
  <2>4. Recounted(e, up, down).refs = is  BY <1>1, <1>4, <2>2, <2>3 DEF Recounted
  <2> QED  BY <1>2, <1>4, <2>4 DEF is
<1> QED  BY <1>3, <1>4

\* A reference taken or dropped leaves each slot with its configuration, and every count true.
LEMMA RefsMove ==
    ASSUME CertTypes, RefsCounted, NEW up \in Nat, NEW down \in Nat,
           \A c \in Nat \ {0} : NewReferences(c) = References(c) + (IF c = up THEN 1 ELSE 0) - (IF c = down THEN 1 ELSE 0),
           down # 0 => References(down) > 0,
           s_cur' = Cert!CurRefs(up, down), s_retired' = Cert!RetiredRefs(up, down)
    PROVE  /\ RefsCounted' /\ s_cur' \in Entries /\ s_retired' \in [Cert!Slots -> Entries]
           /\ s_cur'.cfg = s_cur.cfg /\ \A i \in Cert!Slots : s_retired'[i].cfg = s_retired[i].cfg
<1>1. s_cur' = Recounted(s_cur, up, down) /\ s_retired' = [i \in Cert!Slots |-> Recounted(s_retired[i], up, down)]
  BY RecountedIs
<1>2. s_cur \in Entries /\ \A i \in Cert!Slots : s_retired[i] \in Entries  BY DEF CertTypes
<1>3. s_cur' \in Entries /\ s_cur'.cfg = s_cur.cfg
      /\ s_cur'.refs = IF s_cur'.cfg = 0 THEN 0 ELSE NewReferences(s_cur'.cfg)
  BY <1>1, <1>2, RecountedIsTrue DEF RefsCounted
<1>4. ASSUME NEW i \in Cert!Slots
      PROVE  /\ s_retired'[i] \in Entries /\ s_retired'[i].cfg = s_retired[i].cfg
             /\ s_retired'[i].refs = IF s_retired'[i].cfg = 0 THEN 0 ELSE NewReferences(s_retired'[i].cfg)
  <2>1. s_retired'[i] = Recounted(s_retired[i], up, down) /\ s_retired[i] \in Entries
    BY <1>1, <1>2
  <2>2. s_retired[i].refs = IF s_retired[i].cfg = 0 THEN 0 ELSE References(s_retired[i].cfg)
    BY DEF RefsCounted
  <2> QED  BY <2>1, <2>2, RecountedIsTrue
<1>5. s_retired' \in [Cert!Slots -> Entries]  BY <1>1, <1>4
<1>6. (References(s_cur.cfg))' = NewReferences(s_cur'.cfg) /\ \A i \in Cert!Slots : (References(s_retired[i].cfg))' = NewReferences(s_retired'[i].cfg)
  BY DEF References, NewReferences, Holders, Cert!Sessions
<1>7. RefsCounted'  BY <1>3, <1>4, <1>6 DEF RefsCounted
<1> QED  BY <1>3, <1>4, <1>5, <1>7

\* Whoever refers to a configuration counts.
LEMMA HoldersCount ==
    ASSUME CertTypes, NEW c \in Nat
    PROVE  /\ References(c) \in Nat
           /\ References(c) > 0 <=> s_tls_listen_cfg = c \/ \E s \in Cert!Sessions : s_conn_tls[s] = c
<1>1. Holders(c) = {} <=> \A s \in Cert!Sessions : s_conn_tls[s] # c  BY DEF Holders
<1>2. Cardinality(Holders(c)) \in Nat /\ (Cardinality(Holders(c)) = 0 <=> Holders(c) = {})
  BY HoldersFinite, CertConstants
<1> QED  BY <1>1, <1>2 DEF References
--------------------------------------------------------------------------------
\* lan_tls.c: a session accepted or detached, the listener's sync, the collection, and the jobs of the
\* worker keep the counts true and every configuration in use allocated.
LEMMA CertInvStep ==
    ASSUME CertInv, [Cert!Next]_certVars
    PROVE  CertInv'
<1> USE DEF CertInv
<1>c. RetiredMax \in Nat \ {0} /\ MaxSess \in Nat \ {0} /\ MaxCerts \in Nat \ {0}
  BY CertConstants
<1>k. ASSUME s_cur'.cfg = s_cur.cfg, \A i \in Cert!Slots : s_retired'[i].cfg = s_retired[i].cfg,
             UNCHANGED <<live, lost, s_gen>>
      PROVE  SlotsDiffer' /\ LiveKnown'
  <2>1. {s_retired'[i].cfg : i \in Cert!Slots} = {s_retired[i].cfg : i \in Cert!Slots}  BY <1>k
  <2>2. SlotsDiffer'  BY <1>k DEF SlotsDiffer
  <2>3. LiveKnown'  BY <1>k, <2>1 DEF LiveKnown
  <2> QED  BY <2>2, <2>3
<1>u. 0 \notin live /\ live \subseteq Nat  BY <1>c DEF LiveKnown, CertTypes
<1>1. ASSUME NEW s \in Cert!Sessions, Cert!AcceptTls(s)
      PROVE  CertInv'
  <2> DEFINE c0 == s_tls_listen_cfg
  <2>1. /\ phase = "input" /\ c0 # 0 /\ s_conn_tls[s] = 0 /\ s_conn_tls' = [s_conn_tls EXCEPT ![s] = c0]
        /\ s_cur' = Cert!CurRefs(c0, 0) /\ s_retired' = Cert!RetiredRefs(c0, 0)
        /\ UNCHANGED <<s_gen, live, lost, s_tls_listen_cfg, dying, phase>>
    BY <1>1 DEF Cert!AcceptTls
  <2>2. \A c \in Nat \ {0} : NewReferences(c) = References(c) + (IF c = c0 THEN 1 ELSE 0) - (IF c = 0 THEN 1 ELSE 0)
    <3> SUFFICES ASSUME NEW c \in Nat \ {0}
                 PROVE  NewReferences(c) = References(c) + (IF c = c0 THEN 1 ELSE 0) - (IF c = 0 THEN 1 ELSE 0)
      OBVIOUS
    <3>1. Cardinality(Holders(c)') = Cardinality(Holders(c)) + (IF c = c0 THEN 1 ELSE 0) - (IF c = 0 THEN 1 ELSE 0)
      BY <2>1, HoldersChange
    <3>2. NewReferences(c) = Cardinality(Holders(c)') + (IF c0 = c THEN 1 ELSE 0)
      BY <2>1 DEF NewReferences, Holders, Cert!Sessions
    <3>3. Cardinality(Holders(c)) \in Nat /\ References(c) = Cardinality(Holders(c)) + (IF c0 = c THEN 1 ELSE 0)
      BY HoldersFinite, <1>c DEF References
    <3> QED  BY <3>1, <3>2, <3>3
  <2>3. c0 \in Nat  BY DEF CertTypes
  <2>4. RefsCounted' /\ s_cur' \in Entries /\ s_retired' \in [Cert!Slots -> Entries]
        /\ s_cur'.cfg = s_cur.cfg /\ \A i \in Cert!Slots : s_retired'[i].cfg = s_retired[i].cfg
    BY <2>1, <2>2, <2>3, RefsMove
  <2>5. CertTypes'  BY <2>1, <2>3, <2>4 DEF CertTypes
  <2>6. UsesLive'  BY <2>1 DEF UsesLive, CertTypes
  <2> QED  BY <1>k, <2>1, <2>4, <2>5, <2>6
<1>2. ASSUME NEW s \in Cert!Sessions, Cert!Detach(s)
      PROVE  CertInv'
  <2> DEFINE c0 == s_conn_tls[s]
  <2>1. /\ phase = "input" /\ c0 # 0 /\ s_conn_tls' = [s_conn_tls EXCEPT ![s] = 0]
        /\ s_cur' = Cert!CurRefs(0, c0) /\ s_retired' = Cert!RetiredRefs(0, c0) /\ dying' = dying \cup {c0}
        /\ UNCHANGED <<s_gen, live, lost, s_tls_listen_cfg, phase>>
    BY <1>2 DEF Cert!Detach
  <2>2. \A c \in Nat \ {0} : NewReferences(c) = References(c) + (IF c = 0 THEN 1 ELSE 0) - (IF c = c0 THEN 1 ELSE 0)
    <3> SUFFICES ASSUME NEW c \in Nat \ {0}
                 PROVE  NewReferences(c) = References(c) + (IF c = 0 THEN 1 ELSE 0) - (IF c = c0 THEN 1 ELSE 0)
      OBVIOUS
    <3>1. Cardinality(Holders(c)') = Cardinality(Holders(c)) + (IF c = 0 THEN 1 ELSE 0) - (IF c = c0 THEN 1 ELSE 0)
      BY <2>1, HoldersChange
    <3>2. NewReferences(c) = Cardinality(Holders(c)') + (IF s_tls_listen_cfg = c THEN 1 ELSE 0)
      BY <2>1 DEF NewReferences, Holders, Cert!Sessions
    <3>3. Cardinality(Holders(c)) \in Nat
          /\ References(c) = Cardinality(Holders(c)) + (IF s_tls_listen_cfg = c THEN 1 ELSE 0)
      BY HoldersFinite, <1>c DEF References
    <3> QED  BY <3>1, <3>2, <3>3
  <2>3. c0 \in Nat /\ c0 \in live  BY <2>1 DEF CertTypes, UsesLive
  <2>4. References(c0) > 0  BY <2>3, HoldersCount
  <2>5. RefsCounted' /\ s_cur' \in Entries /\ s_retired' \in [Cert!Slots -> Entries]
        /\ s_cur'.cfg = s_cur.cfg /\ \A i \in Cert!Slots : s_retired'[i].cfg = s_retired[i].cfg
    BY <2>1, <2>2, <2>3, <2>4, RefsMove
  <2>6. CertTypes'  BY <2>1, <2>5 DEF CertTypes
  <2>7. UsesLive'  BY <2>1, <2>3 DEF UsesLive, CertTypes
  <2> QED  BY <1>k, <2>1, <2>5, <2>6, <2>7
<1>3. ASSUME UNCHANGED <<s_cur, s_retired, s_gen, live, lost, s_tls_listen_cfg, s_conn_tls>>, phase' \in Phases,
             dying' \subseteq dying, phase' # "input" => dying' = {},
             phase' = "call" => \A i \in Cert!Slots : s_retired[i].cfg # 0 => s_retired[i].refs > 0
      PROVE  CertInv'
  <2>1. CertTypes'  BY <1>3 DEF CertTypes
  <2>2. RefsCounted'  BY <1>3 DEF RefsCounted, References, Holders
  <2>3. UsesLive'  BY <1>3 DEF UsesLive
  <2> QED  BY <1>3, <1>k, <2>1, <2>2, <2>3
<1>4. CASE Cert!EndInput
  BY <1>3, <1>4 DEF Cert!EndInput, Cert!cfgVars, Phases
<1>5. CASE Cert!Sync
  <2>1. phase = "sync" /\ phase' = "collect" /\ UNCHANGED <<s_gen, live, lost, s_conn_tls, dying>>
    BY <1>5 DEF Cert!Sync
  <2>2. CASE UNCHANGED <<s_tls_listen_cfg, s_cur, s_retired>>
    BY <1>3, <2>1, <2>2 DEF Phases, UsesLive
  <2>3. CASE /\ s_tls_listen_cfg # s_cur.cfg /\ s_tls_listen_cfg' = s_cur.cfg
             /\ s_cur' = Cert!CurRefs(s_cur.cfg, s_tls_listen_cfg)
             /\ s_retired' = Cert!RetiredRefs(s_cur.cfg, s_tls_listen_cfg)
    <3> DEFINE c0 == s_cur.cfg
               c1 == s_tls_listen_cfg
    <3>1. c0 \in Nat /\ c1 \in Nat /\ c0 # c1  BY <2>3 DEF CertTypes, Entries
    <3>2. \A c \in Nat \ {0} : NewReferences(c) = References(c) + (IF c = c0 THEN 1 ELSE 0) - (IF c = c1 THEN 1 ELSE 0)
      <4> SUFFICES ASSUME NEW c \in Nat \ {0}
                   PROVE  NewReferences(c) = References(c) + (IF c = c0 THEN 1 ELSE 0) - (IF c = c1 THEN 1 ELSE 0)
        OBVIOUS
      <4>1. NewReferences(c) = Cardinality(Holders(c)) + (IF c0 = c THEN 1 ELSE 0)
        BY <2>1, <2>3 DEF NewReferences, Holders
      <4>2. Cardinality(Holders(c)) \in Nat /\ References(c) = Cardinality(Holders(c)) + (IF c1 = c THEN 1 ELSE 0)
        BY HoldersFinite, <1>c DEF References
      <4> QED  BY <3>1, <4>1, <4>2
    <3>3. References(c1) > 0  BY <3>1, HoldersCount
    <3>4. RefsCounted' /\ s_cur' \in Entries /\ s_retired' \in [Cert!Slots -> Entries]
          /\ s_cur'.cfg = s_cur.cfg /\ \A i \in Cert!Slots : s_retired'[i].cfg = s_retired[i].cfg
      BY <2>3, <3>1, <3>2, <3>3, RefsMove
    <3>5. CertTypes'  BY <2>1, <2>3, <3>1, <3>4 DEF CertTypes, Phases
    <3>6. UsesLive'  BY <2>1, <2>3 DEF UsesLive, LiveKnown
    <3> QED  BY <1>k, <2>1, <3>4, <3>5, <3>6
  <2> QED  BY <1>5, <2>2, <2>3 DEF Cert!Sync
<1>6. CASE Cert!Collect
  <2> DEFINE idle == {i \in Cert!Slots : s_retired[i].cfg # 0 /\ s_retired[i].refs = 0}
  <2>1. /\ phase = "collect" /\ phase' = "call" /\ live' = live \ {s_retired[i].cfg : i \in idle}
        /\ s_retired' = [i \in Cert!Slots |-> IF i \in idle THEN Cert!Free ELSE s_retired[i]]
        /\ UNCHANGED <<s_cur, s_gen, lost, s_tls_listen_cfg, s_conn_tls, dying>>
    BY <1>6 DEF Cert!Collect, Cert!useVars
  <2>2. \A i \in Cert!Slots : s_retired'[i] = IF i \in idle THEN [cfg |-> 0, refs |-> 0] ELSE s_retired[i]
    BY <2>1 DEF Cert!Free
  <2>3. CertTypes'  BY <2>1, <2>2 DEF CertTypes, Phases, Cert!Free, Entries
  <2>4. RefsCounted'
    <3>1. \A c : References(c)' = References(c)  BY <2>1 DEF References, Holders
    <3>2. s_cur'.refs = IF s_cur'.cfg = 0 THEN 0 ELSE (References(s_cur.cfg))'
      BY <2>1 DEF RefsCounted, References, Holders
    <3>3. \A i \in Cert!Slots : s_retired'[i].refs = IF s_retired'[i].cfg = 0 THEN 0 ELSE (References(s_retired[i].cfg))'
      BY <2>1, <2>2 DEF RefsCounted, References, Holders
    <3> QED  BY <3>2, <3>3 DEF RefsCounted
  <2>5. SlotsDiffer'
    <3>1. 0 \notin lost  BY <1>u DEF LiveKnown
    <3> HIDE DEF idle
    <3>2. s_cur'.cfg # 0 => \A i \in Cert!Slots : s_retired'[i].cfg # s_cur'.cfg
      BY <2>1, <2>2 DEF SlotsDiffer
    <3>3. \A i, j \in Cert!Slots : s_retired'[i].cfg = s_retired'[j].cfg /\ s_retired'[i].cfg # 0 => i = j
      BY <2>1, <2>2 DEF SlotsDiffer
    <3>4. s_cur'.cfg \notin lost' /\ \A i \in Cert!Slots : s_retired'[i].cfg \notin lost'
      BY <2>1, <2>2, <3>1 DEF SlotsDiffer
    <3> QED  BY <3>2, <3>3, <3>4 DEF SlotsDiffer
  <2>6. \A i \in idle : s_retired[i].cfg \notin {s_cur.cfg} \cup lost
                        /\ \A j \in Cert!Slots \ idle : s_retired[j].cfg # s_retired[i].cfg
    BY DEF SlotsDiffer
  <2>7. LiveKnown'
    <3>1. {s_retired'[i].cfg : i \in Cert!Slots} \ {0} = ({s_retired[i].cfg : i \in Cert!Slots} \ {0}) \ {s_retired[i].cfg : i \in idle}
      BY <2>2, <2>6
    <3> DEFINE was == {s_retired[i].cfg : i \in Cert!Slots}
               left == {s_retired'[i].cfg : i \in Cert!Slots}
               gone == {s_retired[i].cfg : i \in idle}
    <3>a. live = ({s_cur.cfg} \cup was \cup lost) \ {0} /\ live' = live \ gone
      BY <2>1 DEF LiveKnown
    <3>b. s_cur.cfg \notin gone /\ lost \cap gone = {}  BY <2>6
    <3>c. s_cur' = s_cur /\ lost' = lost  BY <2>1
    <3>2. live' = ({s_cur'.cfg} \cup {s_retired'[i].cfg : i \in Cert!Slots} \cup lost') \ {0}
      <4> HIDE DEF was, left, gone
      <4>1. left \ {0} = (was \ {0}) \ gone  BY <3>1 DEF was, left, gone
      <4>2. live' = ({s_cur'.cfg} \cup left \cup lost') \ {0}  BY <3>a, <3>b, <3>c, <4>1
      <4> QED  BY <4>2 DEF left
    <3>3. lost' \subseteq live' /\ live' \subseteq 1 .. s_gen'  BY <2>1, <2>6 DEF LiveKnown
    <3> QED  BY <3>2, <3>3 DEF LiveKnown
  <2>8. \A i \in idle : /\ s_tls_listen_cfg # s_retired[i].cfg
                        /\ \A s \in Cert!Sessions : s_conn_tls[s] # s_retired[i].cfg
    <3> SUFFICES ASSUME NEW i \in idle
                 PROVE  /\ s_tls_listen_cfg # s_retired[i].cfg
                        /\ \A s \in Cert!Sessions : s_conn_tls[s] # s_retired[i].cfg
      OBVIOUS
    <3>1. s_retired[i].cfg \in Nat /\ References(s_retired[i].cfg) = 0
      BY DEF CertTypes, Entries, RefsCounted
    <3> QED  BY <3>1, HoldersCount
  <2>9. UsesLive'
    <3>1. dying' = {}  BY <2>1 DEF UsesLive
    <3>2. \A i \in Cert!Slots : s_retired'[i].cfg # 0 => s_retired'[i].refs > 0
      BY <2>2 DEF CertTypes, Entries
    <3>3. s_tls_listen_cfg' \in live' \cup {0} /\ \A s \in Cert!Sessions : s_conn_tls'[s] \in live' \cup {0}
      BY <2>1, <2>8 DEF UsesLive
    <3> QED  BY <2>1, <3>1, <3>2, <3>3 DEF UsesLive
  <2> QED  BY <2>3, <2>4, <2>5, <2>7, <2>9
<1>7. CASE Cert!Job
  <2>1. phase = "call" /\ phase' = "input" /\ UNCHANGED <<s_tls_listen_cfg, s_conn_tls, dying>>
    BY <1>7 DEF Cert!Job, Cert!useVars
  <2>2. CASE UNCHANGED <<s_cur, s_retired, s_gen, live, lost>>
    BY <1>3, <2>1, <2>2 DEF Phases, UsesLive
  <2>3. CASE s_gen <= MaxCerts /\ Cert!Swap(s_gen + 1)
    <3> DEFINE g == s_gen + 1
               free == {i \in Cert!Slots : s_retired[i].cfg = 0}
               out == IF free = {} THEN 1 ELSE CHOOSE j \in free : \A i \in free : j <= i
    <3>1. /\ s_cur' = [cfg |-> g, refs |-> 0] /\ s_gen' = g /\ live' = live \cup {g}
          /\ IF s_cur.cfg = 0 THEN UNCHANGED <<s_retired, lost>>
             ELSE /\ s_retired' = [s_retired EXCEPT ![out] = s_cur]
                  /\ lost' = IF free = {} THEN lost \cup {s_retired[1].cfg} ELSE lost
      <4>1. /\ s_cur' = [cfg |-> g, refs |-> 0] /\ s_gen' = g /\ live' = live \cup {g}
            /\ s_cur.cfg = 0 => UNCHANGED <<s_retired, lost>>
        BY <2>3 DEF Cert!Swap
      <4>2. CASE s_cur.cfg # 0
        <5>1. CASE free = {}
          BY <2>3, <4>2, <5>1 DEF Cert!Swap
        <5>2. CASE free # {}
          BY <2>3, <4>2, <5>2 DEF Cert!Swap
        <5>3. IF s_cur.cfg = 0 THEN UNCHANGED <<s_retired, lost>>
              ELSE /\ s_retired' = [s_retired EXCEPT ![out] = s_cur]
                   /\ lost' = IF free = {} THEN lost \cup {s_retired[1].cfg} ELSE lost
          BY <4>2, <5>1, <5>2
        <5> QED  BY <4>1, <5>3
      <4> QED  BY <4>1, <4>2
    <3>2. g \in 1 .. MaxCerts + 1 /\ g \notin live /\ g # 0
      BY <1>c, <2>3 DEF CertTypes, LiveKnown
    <3>3. out \in Cert!Slots /\ (free # {} => out \in free)
      <4>1. CASE free = {}
        BY <1>c, <4>1 DEF Cert!Slots
      <4>2. CASE free # {}
        <5>1. free \subseteq 1 .. RetiredMax /\ free \subseteq Nat  BY <1>c DEF Cert!Slots
        <5> HIDE DEF free
        <5>2. \E j \in free : \A i \in free : j <= i  BY <4>2, <5>1, Least
        <5>3. out \in free  BY <4>2, <5>2
        <5> QED  BY <5>1, <5>3 DEF Cert!Slots
      <4> QED  BY <4>1, <4>2
    <3> HIDE DEF out
    <3>4. s_cur.cfg # g /\ \A i \in Cert!Slots : s_retired[i].cfg # g  BY <3>2 DEF LiveKnown
    <3>5. References(g) = 0 /\ \A c : References(c)' = References(c)
      <4>1. s_tls_listen_cfg # g /\ \A s \in Cert!Sessions : s_conn_tls[s] # g
        BY <3>2 DEF UsesLive
      <4>2. References(g) = 0  BY <3>2, <4>1, HoldersCount
      <4>3. \A c : References(c)' = References(c)  BY <2>1 DEF References, Holders
      <4> QED  BY <4>2, <4>3
    <3>6. CertTypes'  BY <1>c, <2>1, <3>1, <3>2, <3>3 DEF CertTypes, Phases, Entries
    <3>7. \A i \in Cert!Slots : s_retired'[i] = IF s_cur.cfg # 0 /\ i = out THEN s_cur ELSE s_retired[i]
      BY <3>1, <3>3 DEF CertTypes
    <3>8. RefsCounted'
      <4>1. \A c : NewReferences(c) = References(c)
        BY <2>1 DEF References, NewReferences, Holders
      <4>2. s_cur'.refs = IF s_cur'.cfg = 0 THEN 0 ELSE NewReferences(s_cur'.cfg)
        BY <3>1, <3>5, <4>1
      <4>3. \A i \in Cert!Slots : s_retired'[i].refs = IF s_retired'[i].cfg = 0 THEN 0 ELSE NewReferences(s_retired'[i].cfg)
        BY <3>7, <4>1 DEF RefsCounted
      <4>4. (References(s_cur.cfg))' = NewReferences(s_cur'.cfg)
            /\ \A i \in Cert!Slots : (References(s_retired[i].cfg))' = NewReferences(s_retired'[i].cfg)
        BY DEF References, NewReferences, Holders
      <4> QED  BY <4>2, <4>3, <4>4 DEF RefsCounted
    <3>9. SlotsDiffer' /\ LiveKnown'
      <4>1. CASE s_cur.cfg = 0
        <5>1. UNCHANGED <<s_retired, lost>>  BY <3>1, <4>1
        <5>2. SlotsDiffer'  BY <3>1, <3>2, <3>4, <5>1 DEF SlotsDiffer, LiveKnown
        <5>3. LiveKnown'  BY <1>c, <3>1, <3>2, <4>1, <5>1 DEF LiveKnown, CertTypes
        <5> QED  BY <5>2, <5>3
      <4>2. CASE s_cur.cfg # 0 /\ free # {}
        <5>1. lost' = lost /\ s_retired[out].cfg = 0 /\ \A i \in Cert!Slots : s_retired'[i] = IF i = out THEN s_cur ELSE s_retired[i]
          BY <3>1, <3>3, <3>7, <4>2
        <5>2. SlotsDiffer'  BY <3>1, <3>2, <3>4, <4>2, <5>1 DEF SlotsDiffer, LiveKnown
        <5>3. {s_retired'[i].cfg : i \in Cert!Slots} \ {0} = ({s_retired[i].cfg : i \in Cert!Slots} \cup {s_cur.cfg}) \ {0}
          BY <3>3, <4>2, <5>1
        <5>4. LiveKnown'
          <6> HIDE DEF free, g
          <6>1. live' = ({s_cur'.cfg} \cup {s_retired'[i].cfg : i \in Cert!Slots} \cup lost') \ {0}
            BY <3>1, <3>2, <5>1, <5>3 DEF LiveKnown
          <6>2. live' \subseteq 1 .. s_gen'
            <7>1. live \subseteq 1 .. s_gen /\ s_gen \in Nat  BY <1>c DEF LiveKnown, CertTypes
            <7>2. live' = live \cup {s_gen + 1} /\ s_gen' = s_gen + 1  BY <3>1 DEF g
            <7> QED  BY <7>1, <7>2
          <6> QED  BY <3>1, <5>1, <6>1, <6>2 DEF LiveKnown
        <5> QED  BY <5>2, <5>4
      <4>3. CASE s_cur.cfg # 0 /\ free = {}
        <5>1. out = 1 /\ 1 \in Cert!Slots /\ lost' = lost \cup {s_retired[1].cfg}
              /\ \A i \in Cert!Slots : s_retired'[i] = IF i = 1 THEN s_cur ELSE s_retired[i]
          BY <3>1, <3>3, <3>7, <4>3 DEF out
        <5>2. \A i \in Cert!Slots : s_retired[i].cfg # 0  BY <4>3
        <5>3. SlotsDiffer'  BY <3>1, <3>2, <3>4, <4>3, <5>1, <5>2 DEF SlotsDiffer, LiveKnown
        <5>4. {s_retired'[i].cfg : i \in Cert!Slots} \cup {s_retired[1].cfg} = {s_retired[i].cfg : i \in Cert!Slots} \cup {s_cur.cfg}
          BY <5>1
        <5>5. LiveKnown'
          <6> HIDE DEF free, g
          <6>1. live' = ({s_cur'.cfg} \cup {s_retired'[i].cfg : i \in Cert!Slots} \cup lost') \ {0}
            BY <3>1, <3>2, <5>1, <5>4 DEF LiveKnown
          <6>2. live' \subseteq 1 .. s_gen'
            <7>1. live \subseteq 1 .. s_gen /\ s_gen \in Nat  BY <1>c DEF LiveKnown, CertTypes
            <7>2. live' = live \cup {s_gen + 1} /\ s_gen' = s_gen + 1  BY <3>1 DEF g
            <7> QED  BY <7>1, <7>2
          <6>3. lost' \subseteq live'  BY <3>1, <5>1, <5>2 DEF LiveKnown
          <6> QED  BY <6>1, <6>2, <6>3 DEF LiveKnown
        <5> QED  BY <5>3, <5>5
      <4> QED  BY <4>1, <4>2, <4>3
    <3>10. UsesLive'  BY <2>1, <3>1 DEF UsesLive
    <3> QED  BY <3>6, <3>8, <3>9, <3>10
  <2> QED  BY <1>7, <2>2, <2>3 DEF Cert!Job, Cert!cfgVars
<1>8. CASE Cert!Read
  BY <1>3, <1>8 DEF Cert!Read, Cert!cfgVars, Cert!useVars, CertTypes, UsesLive
<1>9. CASE UNCHANGED certVars
  BY <1>3, <1>9 DEF certVars, CertTypes, UsesLive
<1> QED
  BY <1>1, <1>2, <1>4, <1>5, <1>6, <1>7, <1>8, <1>9
     DEF Cert!Next, Cert!ltVars, Cert!cfgVars, Cert!useVars, Cert!infoVars, certVars

\* lan_tls_get_info: publishing moves the counter on, so a copy begun before it is not taken for whole.
LEMMA ReaderTrueStep ==
    ASSUME CertInv, ReaderTrue, [Cert!Next]_certVars
    PROVE  ReaderTrue'
<1> USE DEF ReaderTrue, Cert!InfoWhole
<1>c. MaxTries \in Nat \ {0} /\ s_gen \in Nat  BY CertConstants DEF CertInv, CertTypes
<1>1. CASE UNCHANGED <<s_info, s_info_seq, r>>
  BY <1>1
<1>2. CASE s_info' = s_gen + 1 /\ s_info_seq' = s_info_seq + 2 /\ r' = r
  BY <1>2, <1>c
<1>3. CASE Cert!Read
  <2>1. s_info' = s_info /\ s_info_seq' = s_info_seq  BY <1>3 DEF Cert!Read
  <2>2. CASE r.pc = "idle" /\ r' = [r EXCEPT !.pc = "first", !.seq = s_info_seq, !.tries = @ + 1]
    <3>1. r.tries + 1 \in 0 .. MaxTries /\ r.tries + 1 \in Nat  BY <1>c, <2>2
    <3>2. r' = [r EXCEPT !.pc = "first", !.seq = s_info_seq, !.tries = r.tries + 1]  BY <2>2
    <3>3. /\ r' \in [pc : {"idle", "first", "second", "check", "done"}, seq : Nat, a : Nat, b : Nat, tries : Nat]
          /\ r'.pc = "first" /\ r'.seq = s_info_seq /\ r'.tries = r.tries + 1
      BY <3>1, <3>2
    <3> QED  BY <2>1, <3>1, <3>3
  <2>3. CASE r.pc = "first" /\ r' = [r EXCEPT !.pc = "second", !.a = s_info]
    BY <2>1, <2>3
  <2>4. CASE r.pc = "second" /\ r' = [r EXCEPT !.pc = "check", !.b = s_info]
    BY <2>1, <2>4
  <2>5. CASE r.pc = "check" /\ r.seq = s_info_seq /\ r' = [r EXCEPT !.pc = "done"]
    BY <2>1, <2>5
  <2>6. CASE r.pc = "check" /\ r.tries < MaxTries /\ r' = [r EXCEPT !.pc = "idle"]
    BY <2>1, <2>6
  <2>7. CASE r.pc = "check" /\ r' = [r EXCEPT !.pc = "done", !.a = 0, !.b = 0]
    BY <2>1, <2>7
  <2>8. CASE r.pc = "done" /\ r' = [pc |-> "idle", seq |-> 0, a |-> 0, b |-> 0, tries |-> 0]
    BY <1>c, <2>1, <2>8
  <2> QED  BY <1>3, <2>2, <2>3, <2>4, <2>5, <2>6, <2>7, <2>8 DEF Cert!Read
<1>4. CASE UNCHANGED certVars
  BY <1>1, <1>4 DEF certVars
<1> QED
  BY <1>1, <1>2, <1>3, <1>4 DEF Cert!Next, Cert!AcceptTls, Cert!Detach, Cert!EndInput, Cert!Sync,
     Cert!Collect, Cert!Job, Cert!infoVars, Cert!ltVars, Cert!cfgVars, Cert!useVars, certVars

\* The certificate loaded at boot is referred to by the listener alone.
LEMMA CertInitially == MCInit => CertInv /\ ReaderTrue
<1> SUFFICES ASSUME MCInit PROVE CertInv /\ ReaderTrue
  OBVIOUS
<1>c. RetiredMax \in Nat \ {0} /\ MaxSess \in Nat \ {0} /\ MaxCerts \in Nat \ {0} /\ MaxTries \in Nat \ {0}
  BY CertConstants
<1>1. /\ \/ s_cur = [cfg |-> 1, refs |-> 1] /\ s_gen = 1 /\ live = {1} /\ s_info = 1 /\ s_tls_listen_cfg = 1
         \/ s_cur = [cfg |-> 0, refs |-> 0] /\ s_gen = 0 /\ live = {} /\ s_info = 0 /\ s_tls_listen_cfg = 0
      /\ s_retired = [i \in Cert!Slots |-> [cfg |-> 0, refs |-> 0]] /\ lost = {} /\ dying = {}
      /\ s_conn_tls = [s \in Cert!Sessions |-> 0] /\ phase = "input" /\ s_info_seq = 0
      /\ r = [pc |-> "idle", seq |-> 0, a |-> 0, b |-> 0, tries |-> 0]
  BY DEF MCInit, Cert!Init, Cert!Free
<1>2. CertTypes  BY <1>1, <1>c DEF CertTypes, Entries, Phases
<1>3. RefsCounted
  <2>1. Cardinality(Holders(1)) = 0
    <3>1. Holders(1) = {}  BY <1>1 DEF Holders
    <3> QED  BY <3>1, HoldersFinite
  <2> QED  BY <1>1, <2>1 DEF RefsCounted, References
<1>4. SlotsDiffer  BY <1>1 DEF SlotsDiffer
<1>5. LiveKnown  BY <1>1 DEF LiveKnown
<1>6. UsesLive  BY <1>1 DEF UsesLive
<1>7. ReaderTrue  BY <1>1, <1>c DEF ReaderTrue, Cert!InfoWhole
<1> QED  BY <1>2, <1>3, <1>4, <1>5, <1>6, <1>7 DEF CertInv

\* The types of lan_tls.c's state: a slot's count is bounded by the sessions and the listener.
LEMMA CertTyped == CertInv /\ ReaderTrue => Cert!TypeOK
<1> SUFFICES ASSUME CertInv, ReaderTrue PROVE Cert!TypeOK
  OBVIOUS
<1>c. RetiredMax \in Nat \ {0} /\ MaxSess \in Nat \ {0} /\ MaxCerts \in Nat \ {0} /\ s_gen \in 0 .. MaxCerts + 1
  BY CertConstants DEF CertInv, CertTypes
<1>1. \A c : References(c) \in 0 .. MaxSess + 1  BY <1>c, HoldersFinite DEF References
<1>2. \A c \in live \cup {0} : c \in 0 .. MaxCerts + 1  BY <1>c DEF CertInv, LiveKnown
<1>3. s_cur.cfg \in live \cup {0} /\ \A i \in Cert!Slots : s_retired[i].cfg \in live \cup {0}
  BY DEF CertInv, LiveKnown
<1>4. s_cur.refs \in 0 .. MaxSess + 1 /\ \A i \in Cert!Slots : s_retired[i].refs \in 0 .. MaxSess + 1
  BY <1>c, <1>1 DEF CertInv, RefsCounted
<1>5. live \subseteq 1 .. MaxCerts + 1  BY <1>c DEF CertInv, LiveKnown
<1> QED  BY <1>2, <1>3, <1>4, <1>5 DEF Cert!TypeOK, CertInv, CertTypes, LiveKnown, ReaderTrue, Phases

\* In every state of lan_tls.c.
LEMMA CertInvariant == MCSpec => [](CertInv /\ ReaderTrue)
<1>1. [MCNext]_mcVars => [Cert!Next]_certVars  BY DEF MCNext, Rest, mcVars
<1>2. CertInv /\ ReaderTrue /\ [Cert!Next]_certVars => (CertInv /\ ReaderTrue)'
  BY CertInvStep, ReaderTrueStep
<1> QED  BY <1>1, <1>2, CertInitially, PTL DEF MCSpec

\* lan_tls.c, for any number of slots, sessions and certificates: a configuration is freed when nobody
\* can reach it and not before, and the worker never reads a description half replaced.
THEOREM CertificatesLast == MCSpec => [](Cert!NotFreedInUse /\ Cert!Reclaimed /\ Cert!InfoWhole)
<1>1. CertInv => Cert!NotFreedInUse
  BY DEF CertInv, UsesLive, LiveKnown, Cert!NotFreedInUse, Cert!Users
<1>2. CertInv => Cert!Reclaimed
  <2> SUFFICES ASSUME CertInv, phase = "call", NEW c \in live
               PROVE  c \in Cert!Users \cup lost
    BY DEF Cert!Reclaimed
  <2>1. c = s_cur.cfg \/ c \in lost \/ \E i \in Cert!Slots : c = s_retired[i].cfg
    BY DEF CertInv, LiveKnown
  <2>2. ASSUME NEW i \in Cert!Slots, c = s_retired[i].cfg PROVE c \in Cert!Users
    <3>1. c \in Nat /\ c # 0  BY <2>2 DEF CertInv, LiveKnown, CertTypes, Entries
    <3>2. References(c) > 0  BY <2>2, <3>1 DEF CertInv, UsesLive, RefsCounted
    <3>3. s_tls_listen_cfg = c \/ \E s \in Cert!Sessions : s_conn_tls[s] = c
      BY <3>1, <3>2, HoldersCount DEF CertInv
    <3> QED  BY <3>3 DEF Cert!Users
  <2> QED  BY <2>1, <2>2 DEF Cert!Users
<1>3. ReaderTrue => Cert!InfoWhole  BY DEF ReaderTrue
<1> QED  BY <1>1, <1>2, <1>3, CertInvariant, PTL
--------------------------------------------------------------------------------
\* What a stack can be, whoever ended it; one that stands; and one that has been let go, all of it freed.
Stacks == [live : SUBSET Stack!Layers, inner : SUBSET Stack!Layers, cbs : SUBSET Stack!Layers, app : BOOLEAN,
           proxied : BOOLEAN, over : BOOLEAN, wrong : SUBSET {"double", "dangling", "touched"}]
Standing(s) ==
    /\ s.live = (IF s.proxied THEN Stack!Layers ELSE {"tcp", "tls"}) /\ s.inner = s.live \ {"tcp"} /\ s.cbs = s.live
    /\ s.app /\ s.over /\ s.wrong = {}
Gone(s) == s.live = {} /\ ~s.app /\ s.wrong = {}

\* The types of the layers, and the generator's count of the configurations.
StackTypes ==
    /\ k \in Stacks /\ stackLink \in {"none", "tcp", "tunnel", "mute", "tls", "up"}
    /\ s_tls_conf \in {"none", "roots", "ca"} /\ lanConf \in 0 .. 2
    /\ rngRef = lanConf + (IF s_tls_conf = "none" THEN 0 ELSE 1)
    /\ {caFlash, s_ca} \subseteq {"none", "good", "bad"} /\ {s_ca_error, proxySet, s_ready, reloadDue} \subseteq BOOLEAN
    /\ opens \in 0 .. MaxOpens /\ changes \in 0 .. MaxStackChanges /\ oom \in 0 .. MaxOom

\* Between two events the stack stands or is gone; while it stands it has its configuration.
StackShape ==
    /\ Standing(k) \/ Gone(k)
    /\ stackLink # "none" => k.app
    /\ k.app => s_tls_conf # "none"
    /\ stackLink \in {"tunnel", "mute"} => k.proxied

\* altcp_free of a layer that is allocated.
LEMMA FreedIs ==
    ASSUME NEW s \in Stacks, NEW l \in Stack!Layers
    PROVE  /\ Stack!Freed(s, l) \in Stacks
           /\ l \in s.live => Stack!Freed(s, l) = [s EXCEPT !.live = s.live \ {l}]
  BY DEF Stack!Freed, Stacks

\* The use of a layer that is allocated.
LEMMA TouchedIs ==
    ASSUME NEW s \in Stacks, NEW l \in Stack!Layers
    PROVE  /\ Stack!Touched(s, l) \in Stacks
           /\ l \in s.live => Stack!Touched(s, l) = s
  BY DEF Stack!Touched, Stacks

\* A layer cut from the one below, callbacks taken off, the application told.
LEMMA CutIs ==
    ASSUME NEW s \in Stacks, NEW l \in Stack!Layers
    PROVE  /\ Stack!Cut(s, l) \in Stacks /\ Stack!Cut(s, l) = [s EXCEPT !.inner = s.inner \ {l}]
           /\ Stack!Unset(s, l) \in Stacks /\ Stack!Unset(s, l) = [s EXCEPT !.cbs = s.cbs \ {l}]
           /\ Stack!AppErr(s) \in Stacks /\ Stack!AppErr(s) = [s EXCEPT !.app = FALSE]
  BY DEF Stack!Cut, Stack!Unset, Stack!AppErr, Stacks

\* altcp_mbedtls_lower_err tells the application if its callbacks are set, and frees the layer.
LEMMA TlsErrIs ==
    ASSUME NEW s \in Stacks
    PROVE  /\ Stack!TlsErr(s) \in Stacks
           /\ "tls" \in s.live => /\ Stack!TlsErr(s).live = s.live \ {"tls"} /\ Stack!TlsErr(s).inner = s.inner \ {"tls"}
                                  /\ Stack!TlsErr(s).cbs = s.cbs /\ Stack!TlsErr(s).wrong = s.wrong
                                  /\ Stack!TlsErr(s).app = (s.app /\ "tls" \notin s.cbs)
                                  /\ Stack!TlsErr(s).over = s.over /\ Stack!TlsErr(s).proxied = s.proxied
<1> DEFINE a == Stack!Cut(Stack!Touched(s, "tls"), "tls")
           b == IF "tls" \in s.cbs THEN Stack!AppErr(a) ELSE a
<1>0. "tls" \in Stack!Layers  BY DEF Stack!Layers
<1>1. a \in Stacks /\ ("tls" \in s.live => a = [s EXCEPT !.inner = s.inner \ {"tls"}])
  BY <1>0, TouchedIs, CutIs
<1> HIDE DEF a
<1>2. b \in Stacks /\ (b = a \/ b = [a EXCEPT !.app = FALSE]) /\ ("tls" \in s.cbs => b = [a EXCEPT !.app = FALSE])
      /\ ("tls" \notin s.cbs => b = a)
  BY <1>0, <1>1, CutIs
<1>3. Stack!TlsErr(s) = Stack!Freed(b, "tls")  BY DEF Stack!TlsErr, a, b
<1> HIDE DEF b
<1>4. Stack!Freed(b, "tls") \in Stacks /\ ("tls" \in b.live => Stack!Freed(b, "tls") = [b EXCEPT !.live = b.live \ {"tls"}])
  BY <1>0, <1>2, FreedIs
<1>5. ASSUME "tls" \in s.live
      PROVE  /\ b.live = s.live /\ b.inner = s.inner \ {"tls"} /\ b.cbs = s.cbs /\ b.wrong = s.wrong
             /\ b.app = (s.app /\ "tls" \notin s.cbs) /\ b.over = s.over /\ b.proxied = s.proxied
  BY <1>1, <1>2, <1>5 DEF Stacks
<1> QED  BY <1>2, <1>3, <1>4, <1>5 DEF Stacks

\* The whole stack, with or without the application's callbacks on it; the base alone, as cl_open aborts it.
Built(s) ==
    /\ s.live = (IF s.proxied THEN Stack!Layers ELSE {"tcp", "tls"}) /\ s.live \ {"tls"} \subseteq s.cbs
    /\ s.over /\ s.wrong = {}
Bare(s) ==
    /\ s.live = (IF s.proxied THEN {"tcp", "proxy"} ELSE {"tcp"}) /\ s.cbs = s.live \ {IF s.proxied THEN "proxy" ELSE "tcp"}
    /\ (s.proxied => "proxy" \in s.inner) /\ ~s.over /\ s.wrong = {} /\ ~s.app
Emptied(t, s) == t.live = {} /\ t.wrong = {} /\ t.app = (s.app /\ "tls" \notin s.cbs)

\* The layers' names.
LEMMA ThreeLayers == "tcp" \in Stack!Layers /\ "proxy" \in Stack!Layers /\ "tls" \in Stack!Layers
  BY DEF Stack!Layers

\* altcp_bp_proxy_lower_err tells the layer above, if its callbacks are set.
LEMMA AboveProxyErrIs ==
    ASSUME NEW s \in Stacks
    PROVE  /\ Stack!AboveProxyErr(s) \in Stacks
           /\ "proxy" \notin s.cbs => Stack!AboveProxyErr(s) = s
           /\ "proxy" \in s.cbs /\ s.over => Stack!AboveProxyErr(s) = Stack!TlsErr(s)
  BY TlsErrIs, CutIs, ThreeLayers DEF Stack!AboveProxyErr

\* altcp_bp_proxy_lower_err leaves the TCP layer to its caller.
LEMMA ProxyErrIs ==
    ASSUME NEW s \in Stacks
    PROVE  /\ Stack!ProxyErr(s) \in Stacks
           /\ Built(s) /\ s.proxied =>
                /\ Stack!ProxyErr(s).live = {"tcp"} /\ Stack!ProxyErr(s).wrong = {}
                /\ Stack!ProxyErr(s).app = (s.app /\ "tls" \notin s.cbs)
<1> DEFINE a == Stack!Cut(Stack!Touched(s, "proxy"), "proxy")
           b == Stack!AboveProxyErr(a)
<1>1. a \in Stacks /\ ("proxy" \in s.live => a = [s EXCEPT !.inner = s.inner \ {"proxy"}])
  BY ThreeLayers, TouchedIs, CutIs
<1> HIDE DEF a
<1>2. b \in Stacks /\ ("proxy" \in a.cbs /\ a.over => b = Stack!TlsErr(a))
  BY <1>1, AboveProxyErrIs
<1>3. Stack!ProxyErr(s) = Stack!Freed(b, "proxy")  BY DEF Stack!ProxyErr, a, b
<1> HIDE DEF b
<1>4. Stack!Freed(b, "proxy") \in Stacks
      /\ ("proxy" \in b.live => Stack!Freed(b, "proxy") = [b EXCEPT !.live = b.live \ {"proxy"}])
  BY <1>2, ThreeLayers, FreedIs
<1>5. ASSUME Built(s), s.proxied
      PROVE  /\ b.live = {"tcp", "proxy"} /\ b.wrong = {} /\ b.app = (s.app /\ "tls" \notin s.cbs)
  <2>1. s.live = {"tcp", "proxy", "tls"} /\ "proxy" \in s.cbs /\ s.over /\ s.wrong = {}
    BY <1>5 DEF Built, Stack!Layers
  <2>2. a.live = s.live /\ a.cbs = s.cbs /\ a.over = s.over /\ a.wrong = s.wrong /\ a.app = s.app
    BY <1>1, <2>1 DEF Stacks
  <2>3. b = Stack!TlsErr(a)  BY <1>2, <2>1, <2>2
  <2>4. b.live = a.live \ {"tls"} /\ b.wrong = a.wrong /\ b.app = (a.app /\ "tls" \notin a.cbs)
    BY <1>1, <2>1, <2>2, <2>3, TlsErrIs
  <2>5. b.live = {"tcp", "proxy"}  BY <2>1, <2>2, <2>4
  <2> QED  BY <2>1, <2>2, <2>4, <2>5
<1>6. ASSUME Built(s), s.proxied
      PROVE  /\ Stack!ProxyErr(s).live = {"tcp"} /\ Stack!ProxyErr(s).wrong = {}
             /\ Stack!ProxyErr(s).app = (s.app /\ "tls" \notin s.cbs)
  <2>1. Stack!ProxyErr(s) = [b EXCEPT !.live = {"tcp"}]  BY <1>3, <1>4, <1>5, <1>6
  <2> QED  BY <1>2, <1>5, <1>6, <2>1 DEF Stacks
<1> QED  BY <1>3, <1>4, <1>6

\* altcp_tcp_err empties a stack whose callbacks are set.
LEMMA TcpErrIs ==
    ASSUME NEW s \in Stacks
    PROVE  /\ Stack!TcpErr(s) \in Stacks
           /\ "tcp" \in s.live /\ "tcp" \notin s.cbs => Stack!TcpErr(s) = [s EXCEPT !.live = s.live \ {"tcp"}]
           /\ Built(s) /\ "tcp" \in s.cbs => Emptied(Stack!TcpErr(s), s)
<1> DEFINE b == IF "tcp" \notin s.cbs THEN s
                ELSE IF s.proxied THEN Stack!ProxyErr(s) ELSE IF s.over THEN Stack!TlsErr(s) ELSE Stack!AppErr(s)
<1>1. b \in Stacks  BY ThreeLayers, ProxyErrIs, TlsErrIs, CutIs
<1>2. Stack!TcpErr(s) = Stack!Freed(b, "tcp")  BY DEF Stack!TcpErr
<1>3. "tcp" \notin s.cbs => b = s  OBVIOUS
<1>4. ASSUME Built(s), "tcp" \in s.cbs
      PROVE  b.live = {"tcp"} /\ b.wrong = {} /\ b.app = (s.app /\ "tls" \notin s.cbs)
  <2>1. CASE s.proxied
    BY <1>4, <2>1, ProxyErrIs
  <2>2. CASE ~s.proxied
    <3>1. b = Stack!TlsErr(s) /\ s.live = {"tcp", "tls"} /\ s.wrong = {}
      BY <1>4, <2>2 DEF Built
    <3>2. b.live = s.live \ {"tls"} /\ b.wrong = s.wrong /\ b.app = (s.app /\ "tls" \notin s.cbs)
      BY <3>1, TlsErrIs
    <3> QED  BY <3>1, <3>2
  <2> QED  BY <2>1, <2>2
<1> HIDE DEF b
<1>5. Stack!Freed(b, "tcp") \in Stacks /\ ("tcp" \in b.live => Stack!Freed(b, "tcp") = [b EXCEPT !.live = b.live \ {"tcp"}])
  BY <1>1, ThreeLayers, FreedIs
<1>6. ASSUME Built(s), "tcp" \in s.cbs PROVE Emptied(Stack!TcpErr(s), s)
  <2>1. Stack!TcpErr(s) = [b EXCEPT !.live = {}]  BY <1>2, <1>4, <1>5, <1>6
  <2> QED  BY <1>1, <1>4, <1>6, <2>1 DEF Stacks, Emptied
<1> QED  BY <1>2, <1>3, <1>5, <1>6

\* altcp_bp_proxy_close frees the two lower layers.
LEMMA ProxyCloseIs ==
    ASSUME NEW s \in Stacks
    PROVE  /\ Stack!ProxyClose(s) \in Stacks
           /\ {"tcp", "proxy"} \subseteq s.live =>
                /\ Stack!ProxyClose(s).live = s.live \ {"tcp", "proxy"} /\ Stack!ProxyClose(s).wrong = s.wrong
                /\ Stack!ProxyClose(s).app = s.app
<1> DEFINE a == Stack!Cut(s, "proxy")
           b == Stack!Freed(a, "tcp")
<1>1. a \in Stacks /\ a = [s EXCEPT !.inner = s.inner \ {"proxy"}]  BY ThreeLayers, CutIs
<1> HIDE DEF a
<1>2. b \in Stacks /\ ("tcp" \in a.live => b = [a EXCEPT !.live = a.live \ {"tcp"}])
  BY <1>1, ThreeLayers, FreedIs
<1>3. Stack!ProxyClose(s) = Stack!Freed(b, "proxy")  BY DEF Stack!ProxyClose, a, b
<1> HIDE DEF b
<1>4. Stack!Freed(b, "proxy") \in Stacks
      /\ ("proxy" \in b.live => Stack!Freed(b, "proxy") = [b EXCEPT !.live = b.live \ {"proxy"}])
  BY <1>2, ThreeLayers, FreedIs
<1>5. ASSUME {"tcp", "proxy"} \subseteq s.live
      PROVE  b.live = s.live \ {"tcp"} /\ b.wrong = s.wrong /\ b.app = s.app
  <2>1. a.live = s.live /\ a.wrong = s.wrong /\ a.app = s.app  BY <1>1 DEF Stacks
  <2>2. b = [a EXCEPT !.live = a.live \ {"tcp"}]  BY <1>2, <1>5, <2>1
  <2> QED  BY <1>1, <2>1, <2>2 DEF Stacks
<1>6. ASSUME {"tcp", "proxy"} \subseteq s.live
      PROVE  /\ Stack!ProxyClose(s).live = s.live \ {"tcp", "proxy"} /\ Stack!ProxyClose(s).wrong = s.wrong
             /\ Stack!ProxyClose(s).app = s.app
  <2>1. Stack!ProxyClose(s) = [b EXCEPT !.live = b.live \ {"proxy"}]  BY <1>3, <1>4, <1>5, <1>6
  <2>2. b.live \ {"proxy"} = s.live \ {"tcp", "proxy"}  BY <1>5, <1>6
  <2> QED  BY <1>2, <1>5, <1>6, <2>1, <2>2 DEF Stacks
<1> QED  BY <1>3, <1>4, <1>6

\* altcp_bp_proxy_fail_setup: nothing is left, and nothing is freed twice.
LEMMA FailSetupIs ==
    ASSUME NEW s \in Stacks
    PROVE  /\ Stack!FailSetup(s) \in Stacks
           /\ Built(s) /\ s.proxied => Emptied(Stack!FailSetup(s), s)
           /\ Bare(s) /\ s.proxied => Gone(Stack!FailSetup(s))
<1> DEFINE u == Stack!Unset(s, "tcp")
           t == Stack!TcpErr(u)
           a == Stack!Cut(t, "proxy")
           b == Stack!AboveProxyErr(a)
<1>1. u \in Stacks /\ u = [s EXCEPT !.cbs = s.cbs \ {"tcp"}]  BY ThreeLayers, CutIs
<1> HIDE DEF u
<1>2. t \in Stacks /\ ("tcp" \in u.live /\ "tcp" \notin u.cbs => t = [u EXCEPT !.live = u.live \ {"tcp"}])
  BY <1>1, TcpErrIs
<1> HIDE DEF t
<1>3. a \in Stacks /\ a = [t EXCEPT !.inner = t.inner \ {"proxy"}]  BY <1>2, ThreeLayers, CutIs
<1> HIDE DEF a
<1>4. b \in Stacks /\ ("proxy" \notin a.cbs => b = a) /\ ("proxy" \in a.cbs /\ a.over => b = Stack!TlsErr(a))
  BY <1>3, AboveProxyErrIs
<1>5. Stack!FailSetup(s) = Stack!Freed(b, "proxy")  BY DEF Stack!FailSetup, u, t, a, b
<1> HIDE DEF b
<1>6. Stack!Freed(b, "proxy") \in Stacks
      /\ ("proxy" \in b.live => Stack!Freed(b, "proxy") = [b EXCEPT !.live = b.live \ {"proxy"}])
  BY <1>4, ThreeLayers, FreedIs
<1>7. ASSUME "tcp" \in s.live
      PROVE  /\ a.live = s.live \ {"tcp"} /\ a.cbs = s.cbs \ {"tcp"} /\ a.wrong = s.wrong
             /\ a.app = s.app /\ a.over = s.over
  <2>1. u.live = s.live /\ u.cbs = s.cbs \ {"tcp"} /\ u.wrong = s.wrong /\ u.app = s.app /\ u.over = s.over
    BY <1>1 DEF Stacks
  <2>2. t = [u EXCEPT !.live = u.live \ {"tcp"}]  BY <1>2, <1>7, <2>1
  <2>3. t.live = s.live \ {"tcp"} /\ t.cbs = u.cbs /\ t.wrong = s.wrong /\ t.app = s.app /\ t.over = s.over
    BY <1>1, <2>1, <2>2 DEF Stacks
  <2> QED  BY <1>2, <1>3, <2>1, <2>3 DEF Stacks
<1>8. ASSUME Built(s), s.proxied PROVE Emptied(Stack!FailSetup(s), s)
  <2>1. s.live = {"tcp", "proxy", "tls"} /\ "proxy" \in s.cbs /\ s.over /\ s.wrong = {}
    BY <1>8 DEF Built, Stack!Layers
  <2>2. "tls" \in a.live /\ "proxy" \in a.cbs /\ a.over /\ b = Stack!TlsErr(a)
    BY <1>4, <1>7, <2>1
  <2>3. b.live = a.live \ {"tls"} /\ b.wrong = a.wrong /\ b.app = (a.app /\ "tls" \notin a.cbs)
    BY <1>3, <2>2, TlsErrIs
  <2>4. b.live = {"proxy"} /\ b.wrong = {} /\ b.app = (s.app /\ "tls" \notin s.cbs)
    BY <1>7, <2>1, <2>3
  <2>5. Stack!FailSetup(s) = [b EXCEPT !.live = {}]  BY <1>5, <1>6, <2>4
  <2> QED  BY <1>4, <2>4, <2>5 DEF Stacks, Emptied
<1>9. ASSUME Bare(s), s.proxied PROVE Gone(Stack!FailSetup(s))
  <2>1. s.live = {"tcp", "proxy"} /\ s.cbs = {"tcp"} /\ s.wrong = {} /\ ~s.app  BY <1>9 DEF Bare
  <2>2. b = a /\ b.live = {"proxy"} /\ b.wrong = {} /\ ~b.app  BY <1>4, <1>7, <2>1
  <2>3. Stack!FailSetup(s) = [b EXCEPT !.live = {}]  BY <1>5, <1>6, <2>2
  <2> QED  BY <1>4, <2>2, <2>3 DEF Stacks, Gone
<1> QED  BY <1>5, <1>6, <1>8, <1>9

\* altcp_abort of the base, with TLS on it or alone.
LEMMA BaseAbortIs ==
    ASSUME NEW s \in Stacks
    PROVE  /\ Stack!BaseAbort(s) \in Stacks
           /\ Built(s) /\ (s.proxied => "proxy" \in s.inner) => Emptied(Stack!BaseAbort(s), s)
           /\ Bare(s) => Gone(Stack!BaseAbort(s))
<1>1. Stack!ProxyAbort(s) \in Stacks  BY ThreeLayers, FailSetupIs, FreedIs DEF Stack!ProxyAbort
<1>2. Stack!BaseAbort(s) \in Stacks  BY <1>1, TcpErrIs DEF Stack!BaseAbort
<1>3. ASSUME Built(s), s.proxied => "proxy" \in s.inner PROVE Emptied(Stack!BaseAbort(s), s)
  <2>1. CASE s.proxied
    BY <1>3, <2>1, FailSetupIs DEF Stack!BaseAbort, Stack!ProxyAbort
  <2>2. CASE ~s.proxied
    <3>1. "tcp" \in s.cbs  BY <1>3, <2>2 DEF Built
    <3> QED  BY <1>3, <2>2, <3>1, TcpErrIs DEF Stack!BaseAbort
  <2> QED  BY <2>1, <2>2
<1>4. ASSUME Bare(s) PROVE Gone(Stack!BaseAbort(s))
  <2>1. CASE s.proxied
    BY <1>4, <2>1, FailSetupIs DEF Stack!BaseAbort, Stack!ProxyAbort, Bare
  <2>2. CASE ~s.proxied
    <3>1. s.live = {"tcp"} /\ "tcp" \notin s.cbs /\ s.wrong = {} /\ ~s.app
      BY <1>4, <2>2 DEF Bare
    <3>2. Stack!BaseAbort(s) = [s EXCEPT !.live = {}]
      BY <2>2, <3>1, TcpErrIs DEF Stack!BaseAbort
    <3> QED  BY <3>1, <3>2 DEF Gone, Stacks
  <2> QED  BY <2>1, <2>2
<1> QED  BY <1>2, <1>3, <1>4

\* altcp_mbedtls_close: the layers below first, then itself.
LEMMA TlsCloseIs ==
    ASSUME NEW s \in Stacks
    PROVE  /\ Stack!TlsClose(s) \in Stacks
           /\ Built(s) => Stack!TlsClose(s).live = {} /\ Stack!TlsClose(s).wrong = {} /\ Stack!TlsClose(s).app = s.app
<1> DEFINE o == Stack!Touched(s, "tls")
           u == Stack!Unset(o, Stack!UnderTls(s))
           a == Stack!Cut(u, "tls")
           b == IF s.proxied THEN Stack!ProxyClose(a) ELSE Stack!Freed(a, "tcp")
<1>0. Stack!UnderTls(s) \in Stack!Layers  BY ThreeLayers DEF Stack!UnderTls
<1>1. o \in Stacks /\ ("tls" \in s.live => o = s)  BY ThreeLayers, TouchedIs
<1> HIDE DEF o
<1>2. u \in Stacks /\ u = [o EXCEPT !.cbs = o.cbs \ {Stack!UnderTls(s)}]  BY <1>0, <1>1, CutIs
<1> HIDE DEF u
<1>3. a \in Stacks /\ a = [u EXCEPT !.inner = u.inner \ {"tls"}]  BY <1>2, ThreeLayers, CutIs
<1> HIDE DEF a
<1>4. /\ b \in Stacks
      /\ ~s.proxied /\ "tcp" \in a.live => b = [a EXCEPT !.live = a.live \ {"tcp"}]
      /\ s.proxied /\ {"tcp", "proxy"} \subseteq a.live => b.live = a.live \ {"tcp", "proxy"} /\ b.wrong = a.wrong /\ b.app = a.app
  BY <1>3, ThreeLayers, ProxyCloseIs, FreedIs
<1>5. Stack!TlsClose(s) = Stack!Freed(b, "tls")  BY DEF Stack!TlsClose, o, u, a, b
<1> HIDE DEF b
<1>6. Stack!Freed(b, "tls") \in Stacks /\ ("tls" \in b.live => Stack!Freed(b, "tls") = [b EXCEPT !.live = b.live \ {"tls"}])
  BY <1>4, ThreeLayers, FreedIs
<1>7. ASSUME Built(s)
      PROVE  Stack!TlsClose(s).live = {} /\ Stack!TlsClose(s).wrong = {} /\ Stack!TlsClose(s).app = s.app
  <2>1. s.live = (IF s.proxied THEN {"tcp", "proxy", "tls"} ELSE {"tcp", "tls"}) /\ s.wrong = {}
    BY <1>7 DEF Built, Stack!Layers
  <2>2. o = s  BY <1>1, <2>1
  <2>3. u.live = s.live /\ u.wrong = {} /\ u.app = s.app  BY <1>2, <2>1, <2>2 DEF Stacks
  <2>4. a.live = s.live /\ a.wrong = {} /\ a.app = s.app  BY <1>2, <1>3, <2>3 DEF Stacks
  <2>5. b.live = {"tls"} /\ b.wrong = {} /\ b.app = s.app
    <3>1. CASE s.proxied
      <4>1. s.live = {"tcp", "proxy", "tls"}  BY <2>1, <3>1
      <4>2. {"tcp", "proxy"} \subseteq a.live /\ a.live \ {"tcp", "proxy"} = {"tls"}
        BY <2>4, <4>1
      <4> QED  BY <1>4, <2>4, <3>1, <4>2
    <3>2. CASE ~s.proxied
      <4>1. a.live = {"tcp", "tls"}  BY <2>1, <2>4, <3>2
      <4>2. b = [a EXCEPT !.live = {"tls"}]  BY <1>4, <3>2, <4>1
      <4> QED  BY <1>3, <2>4, <4>2 DEF Stacks
    <3> QED  BY <3>1, <3>2
  <2>6. Stack!TlsClose(s) = [b EXCEPT !.live = {}]  BY <1>5, <1>6, <2>5
  <2> QED  BY <1>4, <2>5, <2>6 DEF Stacks
<1> QED  BY <1>5, <1>6, <1>7

\* altcp_abort of the application's pcb.
LEMMA TopAbortIs ==
    ASSUME NEW s \in Stacks
    PROVE  /\ Stack!TopAbort(s) \in Stacks
           /\ Built(s) /\ (s.proxied => "proxy" \in s.inner) => Emptied(Stack!TopAbort(s), s)
<1> DEFINE o == Stack!Touched(s, Stack!Top(s))
<1>1. Stack!Top(s) \in Stack!Layers /\ (s.over => Stack!Top(s) = "tls")
  BY ThreeLayers DEF Stack!Top
<1>2. o \in Stacks /\ (Built(s) => o = s)
  <2>1. Built(s) => Stack!Top(s) \in s.live  BY <1>1 DEF Built, Stack!Layers
  <2> QED  BY <1>1, <2>1, TouchedIs
<1> HIDE DEF o
<1> QED  BY <1>2, BaseAbortIs DEF Stack!TopAbort, o

\* cl_drop_link: whatever becomes of the close, the stack is gone.
LEMMA DroppedIs ==
    ASSUME NEW s \in Stacks, NEW t \in Stack!Dropped(s)
    PROVE  t \in Stacks /\ (Standing(s) => Gone(t))
<1> DEFINE u == Stack!Unset(s, Stack!Top(s))
<1>1. Stack!Top(s) \in Stack!Layers /\ (s.over => Stack!Top(s) = "tls")
  BY ThreeLayers DEF Stack!Top
<1>2. u \in Stacks /\ u = [s EXCEPT !.cbs = s.cbs \ {Stack!Top(s)}]  BY <1>1, CutIs
<1>3. t = [Stack!TopClose(u) EXCEPT !.app = FALSE] \/ t = [Stack!TopAbort(u) EXCEPT !.app = FALSE]
  BY DEF Stack!Dropped
<1> HIDE DEF u
<1>4. Stack!TopClose(u) \in Stacks /\ (u.over => Stack!TopClose(u) = Stack!TlsClose(u))
  BY <1>2, ThreeLayers, TlsCloseIs, ProxyCloseIs, FreedIs DEF Stack!TopClose
<1>5. Stack!TopAbort(u) \in Stacks  BY <1>2, TopAbortIs
<1>6. t \in Stacks /\ ~t.app  BY <1>3, <1>4, <1>5 DEF Stacks
<1>7. ASSUME Standing(s) PROVE t.live = {} /\ t.wrong = {}
  <2>1. u.live = s.live /\ u.cbs = s.cbs \ {"tls"} /\ u.over /\ u.wrong = {} /\ u.proxied = s.proxied /\ u.inner = s.inner
    BY <1>1, <1>2, <1>7 DEF Standing, Stacks
  <2>2. Built(u)  BY <1>7, <2>1 DEF Standing, Built
  <2>3. u.proxied => "proxy" \in u.inner  BY <1>7, <2>1 DEF Standing, Stack!Layers
  <2>4. Stack!TopClose(u).live = {} /\ Stack!TopClose(u).wrong = {}
    BY <1>2, <1>4, <2>1, <2>2, TlsCloseIs
  <2>5. Stack!TopAbort(u).live = {} /\ Stack!TopAbort(u).wrong = {}
    BY <1>2, <2>2, <2>3, TopAbortIs DEF Emptied
  <2> QED  BY <1>3, <1>4, <1>5, <2>4, <2>5 DEF Stacks
<1> QED  BY <1>6, <1>7 DEF Gone
--------------------------------------------------------------------------------
\* The base, and the TLS layer over it.
LEMMA BaseIs ==
    ASSUME k \in Stacks, proxySet \in BOOLEAN
    PROVE  /\ Stack!Base \in Stacks /\ Stack!Wrapped(Stack!Base) \in Stacks
           /\ k.wrong = {} => Bare(Stack!Base) /\ Standing(Stack!Wrapped(Stack!Base)) /\ Stack!Wrapped(Stack!Base).app
<1> DEFINE b == Stack!Base
<1>0. /\ Stack!NoStack \in Stacks /\ Stack!NoStack.live = {} /\ Stack!NoStack.inner = {} /\ Stack!NoStack.cbs = {}
      /\ Stack!NoStack.app = FALSE /\ Stack!NoStack.over = FALSE
  BY DEF Stack!NoStack, Stacks
<1>1. /\ b \in Stacks /\ b.live = (IF proxySet THEN {"tcp", "proxy"} ELSE {"tcp"})
      /\ b.inner = (IF proxySet THEN {"proxy"} ELSE {}) /\ b.cbs = (IF proxySet THEN {"tcp"} ELSE {})
      /\ b.proxied = proxySet /\ b.wrong = k.wrong /\ b.app = FALSE /\ b.over = FALSE
  <2> DEFINE lv == IF proxySet THEN {"tcp", "proxy"} ELSE {"tcp"}
             inn == IF proxySet THEN {"proxy"} ELSE {}
             cb == IF proxySet THEN {"tcp"} ELSE {}
  <2>1. b = [Stack!NoStack EXCEPT !.proxied = proxySet, !.live = lv, !.inner = inn, !.cbs = cb, !.wrong = k.wrong]
    BY DEF Stack!Base
  <2>2. {lv, inn, cb} \subseteq SUBSET Stack!Layers  BY ThreeLayers
  <2> HIDE DEF lv, inn, cb, b
  <2>3. /\ b \in Stacks /\ b.live = lv /\ b.inner = inn /\ b.cbs = cb /\ b.proxied = proxySet /\ b.wrong = k.wrong
        /\ b.app = FALSE /\ b.over = FALSE
    BY <1>0, <2>1, <2>2 DEF Stacks
  <2> QED  BY <2>3 DEF lv, inn, cb
<1>2. b \in Stacks  BY <1>1
<1>3. k.wrong = {} => Bare(b)  BY <1>1 DEF Bare
<1> HIDE DEF b
<1>4. Stack!Wrapped(b) = [b EXCEPT !.over = TRUE, !.live = b.live \cup {"tls"}, !.inner = b.inner \cup {"tls"},
                                   !.cbs = b.cbs \cup {Stack!UnderTls(b), "tls"}, !.app = TRUE]
  BY DEF Stack!Wrapped
<1>5. Stack!UnderTls(b) = (IF b.proxied THEN "proxy" ELSE "tcp")  BY DEF Stack!UnderTls
<1>6. Stack!Wrapped(b) \in Stacks
  <2>1. /\ b.live \cup {"tls"} \in SUBSET Stack!Layers /\ b.inner \cup {"tls"} \in SUBSET Stack!Layers
        /\ b.cbs \cup {Stack!UnderTls(b), "tls"} \in SUBSET Stack!Layers
    BY <1>2, <1>5, ThreeLayers DEF Stacks
  <2> QED  BY <1>2, <1>4, <2>1 DEF Stacks
<1>7. ASSUME k.wrong = {} PROVE Standing(Stack!Wrapped(b)) /\ Stack!Wrapped(b).app
  <2>1. CASE proxySet
    <3>1. b.live = {"tcp", "proxy"} /\ b.inner = {"proxy"} /\ b.cbs = {"tcp"} /\ b.proxied /\ b.wrong = {}
      BY <1>1, <1>7, <2>1
    <3>2. LET t == Stack!Wrapped(b)
          IN  /\ t.live = {"tcp", "proxy", "tls"} /\ t.inner = {"proxy", "tls"} /\ t.cbs = {"tcp", "proxy", "tls"}
              /\ t.proxied /\ t.over /\ t.app /\ t.wrong = {}
      BY <1>2, <1>4, <1>5, <3>1 DEF Stacks
    <3> QED  BY <3>2 DEF Standing, Stack!Layers
  <2>2. CASE ~proxySet
    <3>1. b.live = {"tcp"} /\ b.inner = {} /\ b.cbs = {} /\ ~b.proxied /\ b.wrong = {}
      BY <1>1, <1>7, <2>2
    <3>2. LET t == Stack!Wrapped(b)
          IN  /\ t.live = {"tcp", "tls"} /\ t.inner = {"tls"} /\ t.cbs = {"tcp", "tls"}
              /\ ~t.proxied /\ t.over /\ t.app /\ t.wrong = {}
      BY <1>2, <1>4, <1>5, <3>1 DEF Stacks
    <3> QED  BY <3>2 DEF Standing
  <2> QED  BY <2>1, <2>2
<1> QED  BY <1>2, <1>3, <1>6, <1>7 DEF b

\* The bounds of the faults.
LEMMA StackConstants == MaxOpens \in Nat /\ MaxStackChanges \in Nat /\ MaxOom \in Nat
  BY Assumptions DEF Stack!ConstantsOK

\* cloud_extras.c, cl_open, cl_drop_link: each event leaves layers of their types, and the generator counts
\* the configurations through every creation that fails.
LEMMA StackTypesStep ==
    ASSUME StackTypes, [Stack!Next]_stackVars
    PROVE  StackTypes'
<1> USE StackConstants DEF StackTypes
<1>n. lanConf \in Nat /\ rngRef \in Nat /\ rngRef + 1 \in Nat  OBVIOUS
<1>u. /\ rngRef > 0 => Stack!Unref(rngRef) = rngRef - 1
      /\ Stack!Unref(rngRef + 1) = rngRef
  BY <1>n DEF Stack!Unref
<1>a. Stack!Oom => oom' \in 0 .. MaxOom  BY DEF Stack!Oom
<1>b. Stack!Change => changes' \in 0 .. MaxStackChanges  BY DEF Stack!Change
<1>f. Stack!CreateFails => rngRef' = rngRef /\ oom' \in 0 .. MaxOom
  BY <1>a, <1>u DEF Stack!CreateFails
<1>k. ASSUME k' \in Stacks, stackLink' \in {"none", "tcp", "tunnel", "mute", "tls", "up"}, oom' \in 0 .. MaxOom,
             UNCHANGED <<s_tls_conf, rngRef, lanConf, caFlash, s_ca, s_ca_error, proxySet, s_ready, reloadDue, opens, changes>>
      PROVE  StackTypes'
  BY <1>k
<1>1. CASE Stack!ExtrasLoad
  BY <1>1, <1>a DEF Stack!ExtrasLoad, Stack!LoadCa, Stack!csConf
<1>2. CASE Stack!CaChanged
  BY <1>2, <1>a, <1>b DEF Stack!CaChanged, Stack!LoadCa, Stack!csConf
<1>3. CASE Stack!ProxyChanged
  BY <1>3, <1>b DEF Stack!ProxyChanged, Stack!csConf
<1>4. CASE Stack!LanCreates
  BY <1>4, <1>f DEF Stack!LanCreates, Stack!csCa
<1>5. CASE Stack!LanFrees
  <2>1. lanConf' = lanConf - 1 /\ rngRef' = rngRef - 1 /\ lanConf > 0
    BY <1>5, <1>n, <1>u DEF Stack!LanFrees
  <2> QED  BY <1>5, <2>1 DEF Stack!LanFrees, Stack!csCa, Stack!csBounds
<1>6. CASE Stack!Open
  <2>1. /\ opens' \in 0 .. MaxOpens /\ k' \in Stacks
        /\ UNCHANGED <<lanConf, caFlash, proxySet, s_ready, reloadDue, changes>>
    BY <1>6, BaseIs, BaseAbortIs DEF Stack!Open
  <2>2. /\ stackLink' \in {stackLink, "tcp"} /\ s_ca' \in {s_ca, "none"} /\ s_ca_error' \in BOOLEAN
        /\ oom' \in 0 .. MaxOom
    BY <1>6, <1>a, <1>f DEF Stack!Open
  <2>3. \/ s_tls_conf = "none" /\ s_tls_conf' \in {"ca", "roots"} /\ rngRef' = rngRef + 1
        \/ UNCHANGED <<s_tls_conf, rngRef>>
    BY <1>6, <1>f, <1>u DEF Stack!Open, Stack!ConfOf
  <2> QED  BY <2>1, <2>2, <2>3
<1>7. CASE Stack!Connected
  BY <1>7, <1>a, <1>k DEF Stack!Connected, Stack!SendRequest, Stack!csConf, Stack!csCa
<1>8. CASE Stack!ProxySays200
  BY <1>8, <1>k, TouchedIs, ThreeLayers DEF Stack!ProxySays200, Stack!csConf, Stack!csCa, Stack!csBounds
<1>9. CASE Stack!ProxyRefuses
  BY <1>9, <1>k, FailSetupIs DEF Stack!ProxyRefuses, Stack!csConf, Stack!csCa, Stack!csBounds
<1>10. CASE Stack!HandshakeDone
  BY <1>10, <1>k DEF Stack!HandshakeDone, Stack!csConf, Stack!csCa, Stack!csBounds
<1>11. CASE Stack!HandshakeFails
  <2> DEFINE told == IF "tls" \in k.cbs THEN Stack!AppErr(k) ELSE k
  <2>1. told \in Stacks  BY CutIs, ThreeLayers
  <2>2. k' \in {Stack!TlsClose(told), [Stack!TopAbort(told) EXCEPT !.wrong = @ \cup {"touched"}], told}
    BY <1>11 DEF Stack!HandshakeFails
  <2> HIDE DEF told
  <2>3. Stack!TlsClose(told) \in Stacks /\ Stack!TopAbort(told) \in Stacks
    BY <2>1, TlsCloseIs, TopAbortIs
  <2>4. [Stack!TopAbort(told) EXCEPT !.wrong = @ \cup {"touched"}] \in Stacks
    BY <2>3 DEF Stacks
  <2>5. k' \in Stacks  BY <2>1, <2>2, <2>3, <2>4
  <2> QED  BY <1>11, <1>k, <2>5 DEF Stack!HandshakeFails, Stack!csConf, Stack!csCa, Stack!csBounds
<1>12. CASE Stack!TcpFails
  BY <1>12, <1>k, TcpErrIs DEF Stack!TcpFails, Stack!csConf, Stack!csCa, Stack!csBounds
<1>13. CASE Stack!DropLink
  BY <1>13, <1>k, DroppedIs DEF Stack!DropLink, Stack!csConf, Stack!csCa, Stack!csBounds
<1>14. CASE Stack!Reload
  <2>1. k' \in Stacks /\ stackLink' = "none" /\ s_tls_conf' = "none"
    BY <1>14, DroppedIs DEF Stack!Reload, Stack!ReloadLink
  <2>2. rngRef' = lanConf
    <3>1. CASE s_tls_conf = "none"
      BY <1>14, <1>n, <3>1 DEF Stack!Reload
    <3>2. CASE s_tls_conf # "none"
      <4>1. rngRef = lanConf + 1 /\ rngRef > 0  BY <1>n, <3>2
      <4> QED  BY <1>14, <1>n, <1>u, <3>2, <4>1 DEF Stack!Reload
    <3> QED  BY <3>1, <3>2
  <2>3. UNCHANGED <<lanConf, caFlash, s_ca, s_ca_error, proxySet, s_ready, opens, changes, oom>> /\ reloadDue' = FALSE
    BY <1>14 DEF Stack!Reload, Stack!csCa, Stack!csBounds
  <2>4. rngRef' = lanConf' + (IF s_tls_conf' = "none" THEN 0 ELSE 1)  BY <1>n, <2>1, <2>2, <2>3
  <2>5. opens' \in 0 .. MaxOpens /\ changes' \in 0 .. MaxStackChanges /\ oom' \in 0 .. MaxOom /\ lanConf' \in 0 .. 2
    BY <2>3
  <2>6. {caFlash', s_ca'} \subseteq {"none", "good", "bad"} /\ {s_ca_error', proxySet', s_ready', reloadDue'} \subseteq BOOLEAN
    BY <2>3
  <2> QED  BY <2>1, <2>4, <2>5, <2>6
<1>15. CASE UNCHANGED stackVars
  BY <1>15 DEF stackVars
<1> QED
  BY <1>1, <1>2, <1>3, <1>4, <1>5, <1>6, <1>7, <1>8, <1>9, <1>10, <1>11, <1>12, <1>13, <1>14, <1>15
     DEF Stack!Next, Stack!csVars, stackVars

\* Whoever ends the link, the layers are let go together: a close that fails in the receive path is left out.
LEMMA StackShapeStep ==
    ASSUME StackTypes, StackShape, [Stack!Next]_stackVars, "recv" \notin CloseFails
    PROVE  StackShape'
<1>t. k \in Stacks /\ proxySet \in BOOLEAN  BY DEF StackTypes
<1>s. ~Gone(k) => Standing(k)  BY DEF StackShape
<1>b. Standing(k) => Built(k) /\ (k.proxied => "proxy" \in k.inner) /\ {"tcp", "tls"} \subseteq k.live /\ k.live = k.cbs /\ k.app
  BY DEF Standing, Built, Stack!Layers
<1>g. ASSUME Gone(k'), stackLink' = "none" PROVE StackShape'
  BY <1>g DEF StackShape, Gone
<1>h. ASSUME UNCHANGED <<k, stackLink, s_tls_conf>> PROVE StackShape'
  BY <1>h DEF StackShape, Gone, Standing
<1>1. CASE Stack!ExtrasLoad \/ Stack!CaChanged \/ Stack!ProxyChanged \/ Stack!LanCreates \/ Stack!LanFrees
  BY <1>1, <1>h DEF Stack!ExtrasLoad, Stack!CaChanged, Stack!ProxyChanged, Stack!LanCreates, Stack!LanFrees, Stack!csConf
<1>2. CASE Stack!Open
  <2>1. stackLink = "none" /\ k.wrong = {}  BY <1>2, <1>s, <1>t DEF Stack!Open, Gone, Standing
  <2>2. CASE k' = Stack!Wrapped(Stack!Base) /\ stackLink' = "tcp" /\ s_tls_conf' # "none"
    <3>1. Standing(k') /\ k'.app  BY <1>t, <2>1, <2>2, BaseIs
    <3> QED  BY <2>2, <3>1 DEF StackShape, Standing
  <2>3. CASE k' = Stack!BaseAbort(Stack!Base) /\ stackLink' = stackLink
    <3>1. Gone(k')  BY <1>t, <2>1, <2>3, BaseIs, BaseAbortIs
    <3> QED  BY <1>g, <2>1, <2>3, <3>1
  <2> QED  BY <1>2, <2>2, <2>3 DEF Stack!Open, Stack!ConfOf
<1>3. CASE Stack!Connected
  <2>1. stackLink = "tcp" /\ k' = k /\ s_tls_conf' = s_tls_conf /\ (stackLink' \in {"tunnel", "mute"} => k.proxied)
    BY <1>3 DEF Stack!Connected, Stack!SendRequest, Stack!csConf
  <2> QED  BY <2>1 DEF StackShape, Standing, Gone
<1>4. CASE Stack!ProxySays200
  <2>1. stackLink = "tunnel" /\ stackLink' = "tls" /\ k' = Stack!Touched(k, "tls") /\ s_tls_conf' = s_tls_conf
    BY <1>4 DEF Stack!ProxySays200, Stack!csConf
  <2>2. Standing(k)  BY <1>s, <2>1 DEF StackShape, Gone
  <2>3. k' = k  BY <1>b, <1>t, <2>1, <2>2, TouchedIs, ThreeLayers
  <2> QED  BY <2>1, <2>3 DEF StackShape, Standing, Gone
<1>5. CASE Stack!ProxyRefuses
  <2>1. stackLink \in {"tunnel", "mute"} /\ stackLink' = "none" /\ k' = Stack!FailSetup(k)
    BY <1>5 DEF Stack!ProxyRefuses
  <2>2. Standing(k) /\ k.proxied  BY <1>s, <2>1 DEF StackShape, Gone
  <2>3. Gone(k')  BY <1>b, <1>t, <2>1, <2>2, FailSetupIs DEF Emptied, Gone
  <2> QED  BY <1>g, <2>1, <2>3
<1>6. CASE Stack!HandshakeDone
  <2>1. stackLink = "tls" /\ stackLink' = "up" /\ k' = k /\ s_tls_conf' = s_tls_conf
    BY <1>6 DEF Stack!HandshakeDone, Stack!csConf
  <2> QED  BY <2>1 DEF StackShape, Standing, Gone
<1>7. CASE Stack!HandshakeFails
  <2> DEFINE told == Stack!AppErr(k)
  <2>1. stackLink = "tls" /\ stackLink' = "none"  BY <1>7 DEF Stack!HandshakeFails
  <2>2. Standing(k)  BY <1>s, <2>1 DEF StackShape, Gone
  <2>3. "tls" \in k.cbs  BY <1>b, <2>2
  <2>4. k' = Stack!TlsClose(told)  BY <1>7, <2>3 DEF Stack!HandshakeFails
  <2>5. told \in Stacks /\ told = [k EXCEPT !.app = FALSE]  BY <1>t, CutIs, ThreeLayers
  <2> HIDE DEF told
  <2>6. Built(told) /\ ~told.app  BY <1>b, <1>t, <2>2, <2>5 DEF Built, Stacks
  <2>7. Gone(k')  BY <2>4, <2>5, <2>6, TlsCloseIs DEF Gone
  <2> QED  BY <1>g, <2>1, <2>7
<1>8. CASE Stack!TcpFails
  <2>1. "tcp" \in k.live /\ k' = Stack!TcpErr(k) /\ stackLink' = "none"
    BY <1>8 DEF Stack!TcpFails
  <2>2. Standing(k)  BY <1>s, <2>1 DEF Gone
  <2>3. Gone(k')  BY <1>b, <1>t, <2>1, <2>2, TcpErrIs DEF Emptied, Gone
  <2> QED  BY <1>g, <2>1, <2>3
<1>9. CASE Stack!DropLink
  <2>1. k.app /\ k' \in Stack!Dropped(k) /\ stackLink' = "none"  BY <1>9 DEF Stack!DropLink
  <2>2. Standing(k)  BY <1>s, <2>1 DEF Gone
  <2> QED  BY <1>g, <1>t, <2>1, <2>2, DroppedIs
<1>10. CASE Stack!Reload
  <2>1. stackLink' = "none" /\ (IF k.app THEN k' \in Stack!Dropped(k) ELSE k' = k)
    BY <1>10 DEF Stack!Reload, Stack!ReloadLink
  <2>2. CASE k.app
    <3>1. Standing(k)  BY <1>s, <2>2 DEF Gone
    <3> QED  BY <1>g, <1>t, <2>1, <2>2, <3>1, DroppedIs
  <2>3. CASE ~k.app
    <3>1. Gone(k')  BY <1>b, <1>s, <2>1, <2>3
    <3> QED  BY <1>g, <2>1, <3>1
  <2> QED  BY <2>2, <2>3
<1>11. CASE UNCHANGED stackVars
  BY <1>11, <1>h DEF stackVars
<1> QED
  BY <1>1, <1>2, <1>3, <1>4, <1>5, <1>6, <1>7, <1>8, <1>9, <1>10, <1>11 DEF Stack!Next, Stack!csVars, stackVars

\* No layer is allocated at boot.
LEMMA StackInitially == MCInit => StackTypes /\ StackShape
<1> SUFFICES ASSUME MCInit PROVE StackTypes /\ StackShape
  OBVIOUS
<1>1. Stack!Init  BY DEF MCInit
<1>2. k \in Stacks /\ Gone(k) /\ ~k.app
  <2>1. k = [live |-> {}, inner |-> {}, cbs |-> {}, app |-> FALSE, proxied |-> FALSE, over |-> FALSE, wrong |-> {}]
    BY <1>1 DEF Stack!Init, Stack!NoStack
  <2> QED  BY <2>1 DEF Stacks, Gone
<1>3. StackTypes
  <2>1. stackLink = "none" /\ s_tls_conf = "none" /\ lanConf \in 0 .. 2 /\ rngRef = lanConf + (IF s_tls_conf = "none" THEN 0 ELSE 1)
    BY <1>1 DEF Stack!Init
  <2>2. {caFlash, s_ca} \subseteq {"none", "good", "bad"} /\ {s_ca_error, proxySet, s_ready, reloadDue} \subseteq BOOLEAN
    BY <1>1 DEF Stack!Init
  <2>3. opens \in 0 .. MaxOpens /\ changes \in 0 .. MaxStackChanges /\ oom \in 0 .. MaxOom
    BY <1>1, StackConstants DEF Stack!Init
  <2> QED  BY <1>2, <2>1, <2>2, <2>3 DEF StackTypes
<1>4. StackShape  BY <1>1, <1>2 DEF Stack!Init, StackShape
<1> QED  BY <1>3, <1>4

\* In every state of the layers.
LEMMA StackTyped == MCSpec => []StackTypes
<1>1. [MCNext]_mcVars => [Stack!Next]_stackVars  BY DEF MCNext, Rest, mcVars
<1> QED  BY <1>1, StackInitially, StackTypesStep, PTL DEF MCSpec

\* cloud_client.c, altcp_tls_mbedtls_bp.c, altcp_bp_proxy.c: for any number of links, changes and failed
\* allocations, where no close in the receive path fails, every layer is freed once, and a configuration
\* outlives the sessions that use it.
THEOREM LayersFreedOnce ==
    ASSUME "recv" \notin CloseFails
    PROVE  MCSpec => [](Stack!FreedOnce /\ Stack!ConfOutlives)
<1>1. [MCNext]_mcVars => [Stack!Next]_stackVars  BY DEF MCNext, Rest, mcVars
<1>2. StackTypes /\ StackShape /\ [Stack!Next]_stackVars => StackShape'  BY StackShapeStep
<1>3. StackTypes /\ StackShape => Stack!FreedOnce /\ Stack!ConfOutlives
  <2> SUFFICES ASSUME StackTypes, StackShape PROVE Stack!FreedOnce /\ Stack!ConfOutlives
    OBVIOUS
  <2>1. CASE Standing(k)
    BY <2>1 DEF StackTypes, StackShape, Standing, Stack!FreedOnce, Stack!ConfOutlives, Stack!UnderTls, Stack!Layers
  <2>2. CASE Gone(k)
    BY <2>2 DEF StackTypes, Gone, Stack!FreedOnce, Stack!ConfOutlives
  <2> QED  BY <2>1, <2>2 DEF StackShape
<1> QED  BY <1>1, <1>2, <1>3, StackInitially, StackTyped, PTL DEF MCSpec
--------------------------------------------------------------------------------
\* The layers of the cloud link and the certificate's configurations, as the run composes them; a close
\* that fails in the receive path leaks (CloseFails = {"recv"}) and is left out.
THEOREM StacksAreSound ==
    ASSUME "recv" \notin CloseFails
    PROVE  MCSpec => []StacksSound
<1>1. /\ Stack!FreedOnce /\ Stack!ConfOutlives
      /\ Cert!NotFreedInUse /\ Cert!Reclaimed /\ Cert!InfoWhole
      => StacksSound
  BY DEF StacksSound
<1> QED  BY <1>1, LayersFreedOnce, CertificatesLast, PTL
================================================================================
