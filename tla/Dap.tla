---------------------------------- MODULE Dap ----------------------------------
(***************************************************************************)
(* dap.c over swd_ll.c: one CMSIS-DAP packet, run twice.  "one" sends each   *)
(* transfer over the wire as its request is read; "bt", the batch, records   *)
(* the transfers, answers OK for each and runs them later through the        *)
(* gateware's queue, writing the values into the response afterwards.  The   *)
(* host must not be able to tell them apart.  A packet with a match value    *)
(* never runs as a batch (has_match_read); match mask and value are left out *)
(* The target's n-th transfer reads as n, so that a value says where it came *)
(* from; a plan says which transfer does not go through, and how.            *)
(***************************************************************************)
EXTENDS Naturals, Sequences, FiniteSets, FiniteSetsExt

CONSTANTS RecMax,                   \* REC_MAX
          QBytes, QReads,           \* SWDQ_BYTES_MAX, SWDQ_READS_MAX
          WaitRetry,                \* the host's wait retries, within DAP_BATCH_WAIT_MAX and DAP_RETRY_BUDGET
          Words,                    \* words a response holds
          MaxReqs                   \* requests of a packet

ConstantsOK == {RecMax, QBytes, QReads, Words, MaxReqs} \subseteq Nat \ {0} /\ WaitRetry \in Nat /\ QBytes >= 5

VARIABLES
    plan,           \* the target: [at, kind, waits]; waits = WAITs in a row before the transfer goes through
    packet,         \* kind, block (a block's request), left (requests unread), post (an AP read's value is due)
    todo,           \* the transfers the request under way needs: [req, keep, ends]
    one,            \* cnt, rp, ack, wire (transfers gone through), out (the response's words)
    bt              \* the same, curCnt, curRp, ops (the list), ran (of it), waits, failed

daVars == <<plan, packet, todo, one, bt>>

Reads == {"apr", "dpr", "rdbuff"}
NoWhere == Words
Blank == [i \in 0 .. Words - 1 |-> 0]

TypeOK ==
    /\ plan \in [at : 0 .. 2 * MaxReqs, kind : {"fault", "noack", "perr", "wait"}, waits : 1 .. WaitRetry + 1]
    /\ packet \in [kind : {"none", "transfer", "block", "ended"}, block : {"apr", "dpr", "w"},
                   left : 0 .. MaxReqs, post : BOOLEAN]
    /\ todo \in Seq([req : Reads \cup {"w"}, keep : BOOLEAN, ends : BOOLEAN])
    /\ {one.rp, bt.rp} \subseteq 0 .. Words /\ {one.cnt, bt.cnt} \subseteq 0 .. MaxReqs
    /\ Len(bt.ops) <= RecMax /\ bt.ran \in 0 .. Len(bt.ops) /\ bt.waits \in 0 .. WaitRetry

Init ==
    /\ plan \in [at : 0 .. 2 * MaxReqs, kind : {"fault", "noack", "perr", "wait"}, waits : 1 .. WaitRetry + 1]
    /\ plan.kind # "wait" => plan.waits = 1
    /\ packet = [kind |-> "none", block |-> "w", left |-> 0, post |-> FALSE] /\ todo = <<>>
    /\ one = [cnt |-> 0, rp |-> 0, ack |-> "ok", wire |-> 0, out |-> Blank]
    /\ bt = [cnt |-> 0, rp |-> 0, ack |-> "ok", wire |-> 0, out |-> Blank, curCnt |-> 0, curRp |-> 0, ops |-> <<>>,
             ran |-> 0, waits |-> 0, failed |-> FALSE]

\* What the target answers to its n-th transfer after w WAITs in a row.
Answer(n, req, w) ==
    IF n # plan.at \/ (plan.kind = "perr" /\ req \notin Reads) THEN "ok"
    ELSE IF plan.kind # "wait" THEN plan.kind ELSE IF w < plan.waits THEN "wait" ELSE "ok"
--------------------------------------------------------------------------------
(* A request: the transfers it takes.  A posted AP read's value comes with the next AP read or by RDBUFF. *)

Op(req, keep, ends) == [req |-> req, keep |-> keep, ends |-> ends]
Settle == IF packet.post THEN <<Op("rdbuff", TRUE, FALSE)>> ELSE <<>>

Transfers(r) ==
    CASE r = "apr" -> <<Op("apr", packet.post, TRUE)>>
      [] r = "dpr" -> Append(Settle, Op("dpr", TRUE, TRUE))
      [] r = "w" -> Append(Settle, Op("w", FALSE, TRUE))

\* A request may add two values, and the posted one follows the last.
NoRoom == bt.rp + 3 > Words

AtRequest == packet.left > 0 /\ todo = <<>>
Stand(e) == [e EXCEPT !.curCnt = e.cnt, !.curRp = e.rp]

\* dap_process: a packet comes in.  A block's first AP read is posted; it reads no more words than the response holds.
Begin(n) == /\ packet.kind = "none" /\ packet' = [packet EXCEPT !.kind = "transfer", !.left = n]
            /\ UNCHANGED <<plan, todo, one, bt>>
BeginBlock(r, n) ==
    /\ packet.kind = "none" /\ (r # "w" => n <= Words)
    /\ packet' = [packet EXCEPT !.kind = "block", !.block = r, !.left = n]
    /\ todo' = IF r = "apr" THEN <<Op("apr", FALSE, FALSE)>> ELSE <<>>
    /\ UNCHANGED <<plan, one, bt>>

\* do_transfer: the next request, or the response has no room for one.
Request(r) ==
    /\ packet.kind = "transfer" /\ AtRequest /\ bt' = Stand(bt)
    /\ IF NoRoom THEN packet' = [packet EXCEPT !.left = 0] /\ UNCHANGED todo
       ELSE packet' = [packet EXCEPT !.left = @ - 1, !.post = (r = "apr")] /\ todo' = Transfers(r)
    /\ UNCHANGED <<plan, one>>

\* do_transfer_block: the next word, the last of an AP read by RDBUFF.
BlockWord ==
    /\ packet.kind = "block" /\ AtRequest /\ bt' = Stand(bt)
    /\ todo' = <<Op(IF packet.block = "apr" /\ packet.left = 1 THEN "rdbuff" ELSE packet.block,
                    packet.block # "w", TRUE)>>
    /\ packet' = [packet EXCEPT !.left = @ - 1] /\ UNCHANGED <<plan, one>>

\* The end of do_transfer: the value still due.
LastPosted ==
    /\ packet.kind = "transfer" /\ packet.left = 0 /\ todo = <<>> /\ packet.post
    /\ todo' = <<Op("rdbuff", TRUE, FALSE)>> /\ packet' = [packet EXCEPT !.post = FALSE] /\ bt' = Stand(bt)
    /\ UNCHANGED <<plan, one>>
--------------------------------------------------------------------------------
(* A transfer. *)

\* xfer, one by one, with its retries on WAIT, and store: nothing more after one that failed.
Transfer(o) ==
    LET n == one.wire + 1
        a == Answer(n, o.req, WaitRetry)
    IN  IF one.ack # "ok" THEN one
        ELSE IF a # "ok" THEN [one EXCEPT !.ack = a]
        ELSE [one EXCEPT !.wire = n, !.cnt = IF o.ends THEN @ + 1 ELSE @, !.rp = IF o.keep THEN @ + 1 ELSE @,
                         !.out = IF o.keep THEN [@ EXCEPT ![one.rp] = n] ELSE @]

\* As if a recorded read's place did not move the place of what follows it.
StoreStays(e, o) == [e EXCEPT !.rp = IF o.keep THEN @ + 1 ELSE @]

\* store while recording: the place is noted with the transfer, the next one starts behind it.
Store(e, o) == IF o.keep THEN [e EXCEPT !.rp = @ + 1, !.curRp = e.rp + 1] ELSE e

\* xfer while recording: a list that stopped takes no more.
Record(o) ==
    IF bt.failed THEN bt
    ELSE LET entry == [req |-> o.req, dst |-> IF o.keep THEN bt.rp ELSE NoWhere, cnt |-> bt.curCnt, rp |-> bt.curRp]
         IN  Store([bt EXCEPT !.ops = Append(@, entry), !.cnt = IF o.ends THEN @ + 1 ELSE @], o)

ListFull == Len(bt.ops) = RecMax /\ ~bt.failed

Issue ==
    /\ todo # <<>> /\ ~ListFull
    /\ one' = Transfer(Head(todo)) /\ bt' = Record(Head(todo)) /\ todo' = Tail(todo) /\ UNCHANGED <<plan, packet>>
--------------------------------------------------------------------------------
(* The gateware's queue. *)

Rest == SubSeq(bt.ops, bt.ran + 1, Len(bt.ops))
\* The bytes of the queue before its j-th transfer: a read's request byte, a write's with its data.
Off(ops, j) ==   Cardinality({i \in 1 .. j - 1 : ops[i].req \in Reads})
               + 5 * Cardinality({i \in 1 .. j - 1 : ops[i].req \notin Reads})
ReadsIn(ops) == Cardinality({i \in 1 .. Len(ops) : ops[i].req \in Reads})

\* What fits into one run of the queue.
Chunk == SubSeq(Rest, 1, Max({c \in 0 .. Len(Rest) :
                                Off(Rest, c + 1) <= QBytes /\ ReadsIn(SubSeq(Rest, 1, c)) <= QReads}))

\* As if the request byte of the transfer that stopped counted as a transfer.
DoneOpsOff(ops, consumed) == Cardinality({j \in 1 .. Len(ops) : Off(ops, j) < consumed})

\* swd_ll_batch: how many transfers the bytes the queue took stand for, when it stopped.
DoneOps(ops, consumed) == Cardinality({j \in 1 .. Len(ops) : Off(ops, j) + 1 < consumed})

\* The queue stops at the first transfer the target does not take, its request byte the last one consumed.
Answers(part) == [j \in 1 .. Len(part) |-> Answer(bt.wire + j, part[j].req, IF j = 1 THEN bt.waits ELSE 0)]
Fetched(part, n) == [p \in DOMAIN bt.out |->
    LET from == {j \in 1 .. n : j <= Len(part) /\ part[j].dst = p}
    IN  IF from = {} THEN bt.out[p] ELSE bt.wire + Min(from)]

\* rec_flush over swd_ll_batch, one run of the queue: a WAIT has the rest queued again; anything else stops the list
\* where the command stood.
RunQueue ==
    /\ ~bt.failed /\ bt.ran < Len(bt.ops) /\ (ListFull \/ packet.kind = "ended")
    /\ LET part == Chunk
           answers == Answers(part)
           bad == {j \in DOMAIN answers : answers[j] # "ok"}
           done == IF bad = {} THEN Len(part) ELSE DoneOps(part, Off(part, Min(bad)) + 1)
           waits == IF done > 0 THEN 0 ELSE bt.waits
           again == bad = {} \/ (answers[Min(bad)] = "wait" /\ waits < WaitRetry)
           at == bt.ran + done + 1
       IN  bt' = [bt EXCEPT !.out = Fetched(part, done), !.wire = @ + done, !.ran = @ + done,
                            !.waits = IF again /\ bad # {} THEN waits + 1 ELSE 0, !.failed = ~again,
                            !.cnt = IF again \/ at > Len(bt.ops) THEN @ ELSE bt.ops[at].cnt,
                            !.rp = IF again \/ at > Len(bt.ops) THEN @ ELSE bt.ops[at].rp,
                            !.ack = IF again THEN @ ELSE answers[Min(bad)]]
    /\ UNCHANGED <<plan, packet, todo, one>>

\* The list ran: it is empty again.
Flushed ==
    /\ ~bt.failed /\ bt.ops # <<>> /\ bt.ran = Len(bt.ops) /\ bt' = [bt EXCEPT !.ops = <<>>, !.ran = 0]
    /\ UNCHANGED <<plan, packet, todo, one>>

\* rec_end: what is left of the list runs, then the response goes out.
End ==
    /\ packet.kind \in {"transfer", "block"} /\ packet.left = 0 /\ todo = <<>> /\ ~packet.post
    /\ packet' = [packet EXCEPT !.kind = "ended"] /\ UNCHANGED <<plan, todo, one, bt>>

Next ==
    \/ \E n \in 1 .. MaxReqs : Begin(n) \/ \E r \in {"apr", "dpr", "w"} : BeginBlock(r, n)
    \/ \E r \in {"apr", "dpr", "w"} : Request(r)
    \/ BlockWord \/ LastPosted \/ Issue \/ RunQueue \/ Flushed \/ End
Spec == Init /\ [][Next]_daVars
--------------------------------------------------------------------------------
(* Properties. *)

\* The response as the host sees it, and what the target took.
Response(e) == [cnt |-> e.cnt, ack |-> e.ack, words |-> [i \in 0 .. e.rp - 1 |-> e.out[i]], sent |-> e.wire]

\* dap.c: "a batch that stops at op k ... yields exactly the response the one-by-one loop gives when it breaks there",
\* and the target took the same transfers: wherever the list was cut, the queue was cut or the target stopped.
BatchAgrees ==
    packet.kind = "ended" /\ (bt.failed \/ bt.ops = <<>>) => Response(bt) = Response(one)
================================================================================
