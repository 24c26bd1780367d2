------------------------------ MODULE PodSessions ------------------------------
(***************************************************************************)
(* Client sessions of the pod: the net task (net_server.c, and the tunnel   *)
(* part of cloud_client.c) hands the bytes of its clients to the hardware   *)
(* worker (hw_worker.c) through one bounded queue; the worker runs them and *)
(* puts the replies into one ring per slot (conn_tx.c), which the net task  *)
(* drains.  A slot is a TCP connection (Conns) or a cloud tunnel (Tunnels); *)
(* slots are reused, so every close has to reach the worker before the next *)
(* client of the slot does.                                                 *)
(*                                                                          *)
(* The net task has the higher FreeRTOS priority: net_poll runs to its end  *)
(* without the worker, except in the retry loop of srv_recv, which sleeps.  *)
(* The worker can be preempted between any two of its steps.                *)
(*                                                                          *)
(* A session number stands for a client and for everything it sends and is  *)
(* sent; 0 is no client.  overtook and twice are history variables: they    *)
(* restrict no action.                                                      *)
(***************************************************************************)
EXTENDS Naturals, Sequences, FiniteSets

CONSTANTS
    Conns,       \* slots of TCP connections (NET_MAX_CONN of them)
    Tunnels,     \* slots of cloud tunnels (CH_CLOUD_TUNNEL_CONN_COUNT of them)
    PendIds,     \* HW_PEND_IDS: slots are numbered below it
    QueueDepth,  \* HW_WORK_QUEUE_DEPTH
    RingCap,     \* replies that fit a slot's ring (CONN_TX_RING_SIZE)
    MaxSession,  \* bound: sessions opened in a behaviour
    MaxSegs,     \* bound: data segments and re-opens of one session
    MaxConsole   \* bound: console lines submitted in a behaviour

Ids == Conns \cup Tunnels

ASSUME SlotAssumption     == /\ PendIds \in Nat /\ Ids \subseteq 0 .. PendIds - 1
                             /\ Conns \cap Tunnels = {}
ASSUME CapacityAssumption == QueueDepth \in Nat \ {0} /\ RingCap \in Nat \ {0}
ASSUME BoundAssumption    == MaxSession \in Nat /\ MaxSegs \in Nat /\ MaxConsole \in Nat

VARIABLES
    pcb,        \* conn_pcb[] / s_tunnels[]: the session on a slot, 0 = free
    sent,       \* frames of that session handled so far (for MaxSegs)
    closeReq,   \* s_close_req[]: slots the worker, or a policy change, wants closed
    netpc,      \* where net_poll is: "idle" (asleep), "events", "requests" or "spin"
    rx,         \* the pbuf srv_recv is retrying: its slot and segments left
    nextG,      \* number of the next session
    queue,      \* s_q
    inflight,   \* s_inflight[]: slots with a teardown the worker has not handled
    parked,     \* s_parked[]: slots whose teardown did not fit the queue
    ring,       \* conn_tx rings, each reply tagged with the session it answers
    wpc,        \* where the worker's loop is
    cur,        \* the work item in its hands
    batch,      \* items taken in this pass of the loop
    scan,       \* apply_parked_teardowns: next slot to look at, PendIds outside it
    held,       \* command_handler's per-connection state: the session it belongs to
    lines,      \* console lines submitted so far (for MaxConsole)
    overtook,   \* history: slots whose parked teardown ran before their queued bytes
    twice       \* history: slots that had two teardowns on their way at once

netVars    == <<pcb, sent, netpc, rx, nextG>>
workerVars == <<wpc, cur, batch, scan, held>>
teardownVars == <<queue, inflight, parked, twice>>
vars == <<pcb, sent, closeReq, netpc, rx, nextG, queue, inflight, parked, ring,
          wpc, cur, batch, scan, held, lines, overtook, twice>>

Sessions == 1 .. MaxSession
Bytes(id, g)  == [kind |-> "bytes", id |-> id, g |-> g]
Teardown(id)  == [kind |-> "teardown", id |-> id, g |-> 0]  \* WK_CLOSED, WK_TUNNEL_RESET
ConsoleLine   == [kind |-> "console", id |-> 0, g |-> 0]
Items == [kind : {"bytes"}, id : Ids, g : Sessions]
            \cup {Teardown(id) : id \in Ids} \cup {ConsoleLine}

(***************************************************************************)
(* The producers of hw_worker.c.                                            *)
(***************************************************************************)
Room == QueueDepth - Len(queue)

\* A teardown of slot id that the worker has not finished.
Outstanding(id) ==
    \/ id \in parked
    \/ \E i \in 1 .. Len(queue) : queue[i] = Teardown(id)
    \/ wpc \in {"item", "done"} /\ cur = Teardown(id)

\* A variant for mutation checks: a teardown is dropped when the queue is full.
SubmitTeardownDropped(id) ==
    /\ inflight' = inflight \cup {id}
    /\ twice' = IF Outstanding(id) THEN twice \cup {id} ELSE twice
    /\ queue' = IF Room > 0 THEN Append(queue, Teardown(id)) ELSE queue
    /\ UNCHANGED parked

\* submit_teardown: queue it, or park it behind one already parked or a full queue.
SubmitTeardown(id) ==
    /\ inflight' = inflight \cup {id}
    /\ twice' = IF Outstanding(id) THEN twice \cup {id} ELSE twice
    /\ IF id \notin parked /\ Room > 0
         THEN queue' = Append(queue, Teardown(id)) /\ UNCHANGED parked
         ELSE parked' = parked \cup {id} /\ UNCHANGED queue

\* A variant for mutation checks: the room in the queue is not checked.
AcceptsUnbounded(id) == id \notin parked

\* A variant for mutation checks: bytes may overtake the slot's parked teardown.
AcceptsAheadOfParked(id) == Room > 0

\* hw_worker_submit_bytes takes a segment of slot id now.
Accepts(id) == id \notin parked /\ Room > 0

(***************************************************************************)
(* The net task.  Events come from lwIP and from the cloud link; every poll *)
(* then drains the rings and applies the close requests.                    *)
(***************************************************************************)
NetAwake == netpc \in {"idle", "events"}

FreeConn(id) == id \in Conns /\ pcb[id] = 0 /\ id \notin inflight

\* A variant for mutation checks: the ring is not reset on accept.
AcceptKeepsRing(id) ==
    /\ NetAwake /\ nextG <= MaxSession
    /\ FreeConn(id) /\ \A j \in Conns : j < id => ~FreeConn(j)
    /\ pcb' = [pcb EXCEPT ![id] = nextG]
    /\ sent' = [sent EXCEPT ![id] = 0]
    /\ nextG' = nextG + 1
    /\ closeReq' = closeReq \ {id}
    /\ netpc' = "events"
    /\ UNCHANGED <<rx, ring, queue, inflight, parked, workerVars, lines, overtook, twice>>

\* srv_accept: the first slot without a connection whose close the worker has handled.
Accept(id) ==
    /\ NetAwake /\ nextG <= MaxSession
    /\ FreeConn(id) /\ \A j \in Conns : j < id => ~FreeConn(j)
    /\ pcb' = [pcb EXCEPT ![id] = nextG]
    /\ sent' = [sent EXCEPT ![id] = 0]
    /\ nextG' = nextG + 1
    /\ ring' = [ring EXCEPT ![id] = <<>>]
    /\ closeReq' = closeReq \ {id}
    /\ netpc' = "events"
    /\ UNCHANGED <<rx, queue, inflight, parked, workerVars, lines, overtook, twice>>

\* srv_recv: a pbuf of n segments is taken whole or left to lwIP; when the first
\* segment is refused because a teardown of the slot is parked, it waits and retries.
Recv(id, n) ==
    /\ NetAwake /\ id \in Conns /\ pcb[id] # 0
    /\ sent[id] + n <= MaxSegs
    /\ Room >= n
    /\ sent' = [sent EXCEPT ![id] = @ + n]
    /\ IF id \in parked
         THEN /\ rx' = [id |-> id, left |-> n]
              /\ netpc' = "spin"
              /\ UNCHANGED queue
         ELSE /\ queue' = queue \o [i \in 1 .. n |-> Bytes(id, pcb[id])]
              /\ netpc' = "events"
              /\ UNCHANGED rx
    /\ UNCHANGED <<pcb, nextG, closeReq, inflight, parked, ring, workerVars,
                   lines, overtook, twice>>

\* The retry loop of srv_recv, each round after a sleep in which the worker runs.
SpinSubmit ==
    /\ netpc = "spin" /\ Accepts(rx.id)
    /\ queue' = Append(queue, Bytes(rx.id, pcb[rx.id]))
    /\ rx' = [rx EXCEPT !.left = @ - 1]
    /\ netpc' = IF rx.left = 1 THEN "events" ELSE "spin"
    /\ UNCHANGED <<pcb, sent, nextG, closeReq, inflight, parked, ring, workerVars,
                   lines, overtook, twice>>

\* The connection ends: srv_recv with no pbuf (FIN), srv_err.
Closed(id) ==
    /\ NetAwake /\ id \in Conns /\ pcb[id] # 0
    /\ SubmitTeardown(id)
    /\ pcb' = [pcb EXCEPT ![id] = 0]
    /\ netpc' = "events"
    /\ UNCHANGED <<sent, rx, nextG, closeReq, ring, workerVars, lines, overtook>>

\* srv_recv gives up after 100 rounds: a part is queued, the rest cannot follow.
SpinAbort ==
    /\ netpc = "spin" /\ ~Accepts(rx.id)
    /\ SubmitTeardown(rx.id)
    /\ pcb' = [pcb EXCEPT ![rx.id] = 0]
    /\ netpc' = "events"
    /\ UNCHANGED <<sent, rx, nextG, closeReq, ring, workerVars, lines, overtook>>

FreeTunnel(id) == id \in Tunnels /\ pcb[id] = 0

\* cl_tunnel_free_slot: the first free slot that is not busy, else the first free one.
TunnelSlot(id) ==
    /\ FreeTunnel(id)
    /\ \/ id \notin inflight /\ \A j \in Tunnels : j < id => ~(FreeTunnel(j) /\ j \notin inflight)
       \/ /\ \A j \in Tunnels : FreeTunnel(j) => j \in inflight
          /\ \A j \in Tunnels : j < id => ~FreeTunnel(j)

\* cl_handle_tunnel_open, a new tunnel id.
TunnelOpen(id) ==
    /\ NetAwake /\ nextG <= MaxSession
    /\ TunnelSlot(id)
    /\ pcb' = [pcb EXCEPT ![id] = nextG]
    /\ sent' = [sent EXCEPT ![id] = 0]
    /\ nextG' = nextG + 1
    /\ ring' = [ring EXCEPT ![id] = <<>>]
    /\ SubmitTeardown(id)
    /\ netpc' = "events"
    /\ UNCHANGED <<rx, closeReq, workerVars, lines, overtook>>

\* cl_handle_tunnel_open, a known tunnel id: it starts over on its slot.
TunnelReopen(id) ==
    /\ NetAwake /\ id \in Tunnels /\ pcb[id] # 0 /\ sent[id] < MaxSegs
    /\ sent' = [sent EXCEPT ![id] = @ + 1]
    /\ ring' = [ring EXCEPT ![id] = <<>>]
    /\ SubmitTeardown(id)
    /\ netpc' = "events"
    /\ UNCHANGED <<pcb, rx, nextG, closeReq, workerVars, lines, overtook>>

\* cl_handle_tunnel_data: refused data stays in s_rx for the next poll.
TunnelData(id) ==
    /\ NetAwake /\ id \in Tunnels /\ pcb[id] # 0
    /\ sent[id] < MaxSegs /\ Accepts(id)
    /\ queue' = Append(queue, Bytes(id, pcb[id]))
    /\ sent' = [sent EXCEPT ![id] = @ + 1]
    /\ netpc' = "events"
    /\ UNCHANGED <<pcb, rx, nextG, closeReq, inflight, parked, ring, workerVars,
                   lines, overtook, twice>>

\* cl_handle_tunnel_close, cl_tunnel_fail, and each tunnel of cl_drop_link.
TunnelClose(id) ==
    /\ NetAwake /\ id \in Tunnels /\ pcb[id] # 0
    /\ pcb' = [pcb EXCEPT ![id] = 0]
    /\ ring' = [ring EXCEPT ![id] = <<>>]
    /\ SubmitTeardown(id)
    /\ netpc' = "events"
    /\ UNCHANGED <<sent, rx, nextG, closeReq, workerVars, lines, overtook>>

\* What net_tx_drain may leave in a slot's ring: a connection gets what its send
\* buffer takes, and nothing while busy; a busy tunnel's output is thrown away, up
\* to the end of the ring's buffer; an idle slot's ring is left alone.
MayRemain(id, r) ==
    LET kept(from) == \E n \in from .. Len(ring[id]) : r = SubSeq(ring[id], n + 1, Len(ring[id]))
    IN  IF id \in Conns
          THEN IF pcb[id] = 0 \/ id \in inflight THEN r = ring[id] ELSE kept(0)
          ELSE IF ring[id] # <<>> /\ id \in inflight THEN kept(1)
               ELSE IF pcb[id] = 0 THEN r = ring[id] ELSE kept(0)

Remains(id) == {SubSeq(ring[id], n + 1, Len(ring[id])) : n \in 0 .. Len(ring[id])}

\* net_tx_drain.
Drain ==
    /\ NetAwake
    /\ \E left \in [Ids -> UNION {Remains(id) : id \in Ids}] :
         /\ \A id \in Ids : MayRemain(id, left[id])
         /\ ring' = left
    /\ netpc' = "requests"
    /\ UNCHANGED <<pcb, sent, rx, nextG, closeReq, workerVars, teardownVars, lines, overtook>>

\* lan_access(false) and https_only_apply(true): live connections are marked.
PolicyClose ==
    /\ netpc = "requests"
    /\ \E off \in SUBSET {id \in Conns : pcb[id] # 0} \ {{}} : closeReq' = closeReq \cup off
    /\ UNCHANGED <<netVars, ring, workerVars, teardownVars, lines, overtook>>

\* net_apply_worker_requests, one marked slot: the close is announced to the worker
\* whether or not the slot still has a connection.
CloseRequest(id) ==
    /\ netpc = "requests" /\ id \in closeReq
    /\ closeReq' = closeReq \ {id}
    /\ pcb' = [pcb EXCEPT ![id] = 0]
    /\ ring' = [ring EXCEPT ![id] = <<>>]
    /\ SubmitTeardown(id)
    /\ UNCHANGED <<sent, netpc, rx, nextG, workerVars, lines, overtook>>

\* The rest of net_poll, then the net task sleeps one tick.
PollEnd ==
    /\ netpc = "requests" /\ closeReq = {}
    /\ netpc' = "idle"
    /\ UNCHANGED <<pcb, sent, rx, nextG, closeReq, ring, workerVars, teardownVars,
                   lines, overtook>>

\* hw_worker_submit_console, from the console task (it gives up when the queue stays full).
ConsoleSubmit ==
    /\ netpc \in {"idle", "spin"}
    /\ lines < MaxConsole /\ Room > 0
    /\ queue' = Append(queue, ConsoleLine)
    /\ lines' = lines + 1
    /\ UNCHANGED <<netVars, closeReq, inflight, parked, ring, workerVars, overtook, twice>>

(***************************************************************************)
(* The hardware worker: worker_task's loop.                                 *)
(***************************************************************************)
WorkerRuns == netpc \in {"idle", "spin"}   \* the net task sleeps

\* xQueueReceive in the bounded batch.
WReceive ==
    /\ WorkerRuns /\ wpc = "loop" /\ batch < QueueDepth /\ queue # <<>>
    /\ cur' = Head(queue)
    /\ queue' = Tail(queue)
    /\ batch' = batch + 1
    /\ wpc' = "item"
    /\ UNCHANGED <<netVars, closeReq, inflight, parked, ring, scan, held, lines, overtook, twice>>

\* WK_CONSOLE: nothing of a session.
WConsole ==
    /\ WorkerRuns /\ wpc = "item" /\ cur.kind = "console"
    /\ wpc' = "loop"
    /\ UNCHANGED <<netVars, closeReq, teardownVars, ring, cur, batch, scan, held, lines, overtook>>

\* WK_BYTES: command_handler_process.  The slot's state is the first sender's until a
\* teardown; a reply that does not fit the ring asks for the connection to be closed
\* (at_close_connection, which does nothing for a tunnel).
WBytes ==
    /\ WorkerRuns /\ wpc = "item" /\ cur.kind = "bytes"
    /\ LET id == cur.id IN
       /\ held' = [held EXCEPT ![id] = IF @ = 0 THEN cur.g ELSE @]
       /\ \/ UNCHANGED <<ring, closeReq>>                              \* no reply yet
          \/ /\ Len(ring[id]) < RingCap
             /\ ring' = [ring EXCEPT ![id] = Append(@, cur.g)]
             /\ UNCHANGED closeReq
          \/ /\ Len(ring[id]) = RingCap
             /\ closeReq' = closeReq \cup ({id} \cap Conns)
             /\ UNCHANGED ring
    /\ wpc' = "loop"
    /\ UNCHANGED <<netVars, teardownVars, cur, batch, scan, lines, overtook>>

\* command_handler_conn_closed / command_handler_tunnel_reset.
WConnClosed ==
    /\ WorkerRuns /\ wpc = "item" /\ cur.kind = "teardown"
    /\ held' = [held EXCEPT ![cur.id] = 0]
    /\ wpc' = "done"
    /\ UNCHANGED <<netVars, closeReq, teardownVars, ring, cur, batch, scan, lines, overtook>>

\* teardown_done: one bit, however many teardowns of the slot are on their way.
WTeardownDone ==
    /\ WorkerRuns /\ wpc = "done"
    /\ inflight' = inflight \ {cur.id}
    /\ IF scan < PendIds
         THEN scan' = scan + 1 /\ wpc' = "scan"
         ELSE wpc' = "loop" /\ UNCHANGED scan
    /\ UNCHANGED <<netVars, closeReq, queue, parked, ring, cur, batch, held, lines, overtook, twice>>

\* The batch is over: queue empty, or QueueDepth items handled.
WBatchEnd ==
    /\ WorkerRuns /\ wpc = "loop" /\ (queue = <<>> \/ batch = QueueDepth)
    /\ wpc' = "apply"
    /\ batch' = 0
    /\ UNCHANGED <<netVars, closeReq, teardownVars, ring, cur, scan, held, lines, overtook>>

\* apply_parked_teardowns: only when nothing is queued ...
WApply ==
    /\ WorkerRuns /\ wpc = "apply"
    /\ IF queue = <<>> THEN wpc' = "scan" /\ scan' = 0 ELSE wpc' = "polls" /\ UNCHANGED scan
    /\ UNCHANGED <<netVars, closeReq, teardownVars, ring, cur, batch, held, lines, overtook>>

\* ... then slot by slot, the queue not looked at again.
WScanTake ==
    /\ WorkerRuns /\ wpc = "scan" /\ scan < PendIds /\ scan \in parked
    /\ parked' = parked \ {scan}
    /\ cur' = Teardown(scan)
    /\ wpc' = "item"
    /\ overtook' = IF \E i \in 1 .. Len(queue) : queue[i].kind = "bytes" /\ queue[i].id = scan
                     THEN overtook \cup {scan} ELSE overtook
    /\ UNCHANGED <<netVars, closeReq, queue, inflight, twice, ring, batch, scan, held, lines>>

WScanSkip ==
    /\ WorkerRuns /\ wpc = "scan" /\ scan < PendIds /\ scan \notin parked
    /\ scan' = scan + 1
    /\ UNCHANGED <<netVars, closeReq, teardownVars, ring, wpc, cur, batch, held, lines, overtook>>

WScanEnd ==
    /\ WorkerRuns /\ wpc = "scan" /\ scan = PendIds
    /\ wpc' = "polls"
    /\ UNCHANGED <<netVars, closeReq, teardownVars, ring, cur, batch, scan, held, lines, overtook>>

\* command_handler_poll: a session's state (a bulk reply, a UART proxy) sends when the
\* ring has room for it ...
WPollSend(id) ==
    /\ WorkerRuns /\ wpc = "polls" /\ held[id] # 0 /\ Len(ring[id]) < RingCap
    /\ ring' = [ring EXCEPT ![id] = Append(@, held[id])]
    /\ UNCHANGED <<netVars, closeReq, teardownVars, workerVars, lines, overtook>>

\* ... or gives up on a peer that stopped reading.
WPollGiveUp(id) ==
    /\ WorkerRuns /\ wpc = "polls" /\ id \in Conns /\ held[id] # 0
    /\ closeReq' = closeReq \cup {id}
    /\ UNCHANGED <<netVars, teardownVars, ring, workerVars, lines, overtook>>

\* The rest of the loop body, then one tick of sleep.
WPollEnd ==
    /\ WorkerRuns /\ wpc = "polls"
    /\ wpc' = "loop"
    /\ UNCHANGED <<netVars, closeReq, teardownVars, ring, cur, batch, scan, held, lines, overtook>>

(***************************************************************************)
(* The specification.                                                       *)
(***************************************************************************)
Init ==
    /\ pcb = [id \in Ids |-> 0]
    /\ sent = [id \in Ids |-> 0]
    /\ closeReq = {}
    /\ netpc = "idle"
    /\ rx = [id |-> 0, left |-> 0]
    /\ nextG = 1
    /\ queue = <<>>
    /\ inflight = {}
    /\ parked = {}
    /\ ring = [id \in Ids |-> <<>>]
    /\ wpc = "loop"
    /\ cur = ConsoleLine
    /\ batch = 0
    /\ scan = PendIds
    /\ held = [id \in Ids |-> 0]
    /\ lines = 0
    /\ overtook = {}
    /\ twice = {}

NetEvent ==
    \/ \E id \in Conns : Accept(id) \/ Closed(id)
    \/ \E id \in Conns, n \in 1 .. 2 : Recv(id, n)
    \/ \E id \in Tunnels : TunnelOpen(id) \/ TunnelReopen(id) \/ TunnelData(id) \/ TunnelClose(id)

\* What net_poll does in every round, and the end of a retry loop.
NetStep ==
    \/ Drain \/ PollEnd \/ SpinSubmit \/ SpinAbort
    \/ \E id \in Conns : CloseRequest(id)

WorkerStep ==
    \/ WReceive \/ WConsole \/ WBytes \/ WConnClosed \/ WTeardownDone
    \/ WBatchEnd \/ WApply \/ WScanTake \/ WScanSkip \/ WScanEnd \/ WPollEnd

WorkerOutput == \E id \in Ids : WPollSend(id) \/ WPollGiveUp(id)

Next == NetEvent \/ NetStep \/ PolicyClose \/ ConsoleSubmit \/ WorkerStep \/ WorkerOutput

Spec == Init /\ [][Next]_vars

\* The net task sleeps a tick after every poll and the worker a tick after every pass
\* (vTaskDelay), so neither keeps the other from running.
FairSpec == Spec /\ SF_vars(WorkerStep) /\ WF_vars(NetStep)

(***************************************************************************)
(* Properties.                                                              *)
(***************************************************************************)
NetTypeOK ==
    /\ pcb \in [Ids -> 0 .. MaxSession]
    /\ sent \in [Ids -> 0 .. MaxSegs]
    /\ netpc \in {"idle", "events", "requests", "spin"}
    /\ rx \in [id : Nat, left : Nat]
    /\ netpc = "spin" => rx.id \in Conns /\ rx.left > 0 /\ pcb[rx.id] # 0
    /\ nextG \in 1 .. MaxSession + 1

QueueTypeOK ==
    /\ queue \in Seq(Items) /\ Len(queue) <= QueueDepth
    /\ inflight \subseteq Ids
    /\ parked \subseteq Ids
    /\ twice \subseteq Ids

ReplyTypeOK ==
    /\ ring \in [Ids -> Seq(Sessions)]
    /\ \A id \in Ids : Len(ring[id]) <= RingCap
    /\ closeReq \subseteq Conns

WorkerTypeOK ==
    /\ wpc \in {"loop", "item", "done", "apply", "scan", "polls"}
    /\ cur \in Items
    /\ wpc = "done" => cur.kind = "teardown"
    /\ batch \in 0 .. QueueDepth
    /\ scan \in 0 .. PendIds
    /\ held \in [Ids -> 0 .. MaxSession]
    /\ lines \in 0 .. MaxConsole
    /\ overtook \subseteq Ids

\* Types, and the limits the code relies on: the queue never holds more than its depth
\* (hw_worker_can_accept), a ring never more than it can, and the retry loop of srv_recv
\* keeps a connected slot.
TypeOK == NetTypeOK /\ QueueTypeOK /\ ReplyTypeOK /\ WorkerTypeOK

\* The worker never runs a client's bytes in the state an earlier client of the slot
\* left behind (upload mode, an armed SWD session, half a line): hw_worker.c's reason
\* for s_inflight and s_parked.  Slots of overtook are the exception (ParkedInOrder).
NoInheritedState ==
    wpc = "item" /\ cur.kind = "bytes" /\ cur.id \notin overtook
        => held[cur.id] \in {0, cur.g}

\* State that belongs to a client that has left is always followed by a teardown still
\* to come, so it is dropped in the end: no close is lost to a full queue.
StaleStateHasTeardown ==
    \A id \in Ids \ overtook : held[id] \notin {0, pcb[id]} => Outstanding(id)

\* What the next net_tx_drain would send on a slot answers the client that is there.
RepliesAreOwn(id) ==
    pcb[id] # 0 /\ id \notin inflight => \A i \in 1 .. Len(ring[id]) : ring[id][i] = pcb[id]

\* No connection is sent a reply to an earlier client of its slot, on slots where no
\* teardown ran ahead of queued bytes and none was submitted while one was on its way.
ReplyIsolation == \A id \in Conns \ (overtook \cup twice) : RepliesAreOwn(id)

\* Every close or reset is handled by the worker once the (bounded) traffic ends.
TeardownCompletes == \A id \in Ids : id \in inflight ~> id \notin inflight

(***************************************************************************)
(* Why NoInheritedState holds: an inductive invariant, checked by TLC and   *)
(* proved in PodSessionsProofs.  Along the worker's item in hand, the queue *)
(* and the parked bits, two sessions of a slot always have a teardown of    *)
(* the slot between them.                                                   *)
(***************************************************************************)
IsBytes(j, id) == queue[j].kind = "bytes" /\ queue[j].id = id
TearBetween(i, j, id) == \E k \in i + 1 .. j - 1 : queue[k] = Teardown(id)
TearFrom(i, id) == id \in parked \/ \E k \in i + 1 .. Len(queue) : queue[k] = Teardown(id)
InHand(kind, id) == wpc = "item" /\ cur.kind = kind /\ cur.id = id

\* Queued bytes of two sessions, or of one that has left the slot.
QueueSeparated(id) ==
    /\ \A i, j \in 1 .. Len(queue) :
         i < j /\ IsBytes(i, id) /\ IsBytes(j, id) /\ queue[i].g # queue[j].g => TearBetween(i, j, id)
    /\ \A i \in 1 .. Len(queue) : IsBytes(i, id) /\ queue[i].g # pcb[id] => TearFrom(i, id)

\* The state the worker holds, against what is queued and who is connected.
HeldSeparated(id) ==
    held[id] # 0 /\ ~InHand("teardown", id) =>
        /\ \A j \in 1 .. Len(queue) :
             IsBytes(j, id) /\ queue[j].g # held[id] => TearBetween(0, j, id)
        /\ held[id] # pcb[id] => TearFrom(0, id)

\* The bytes in the worker's hands, against the same and against the state it holds.
InHandSeparated(id) ==
    InHand("bytes", id) =>
        /\ held[id] \in {0, cur.g}
        /\ \A j \in 1 .. Len(queue) :
             IsBytes(j, id) /\ queue[j].g # cur.g => TearBetween(0, j, id)
        /\ cur.g # pcb[id] => TearFrom(0, id)

\* Sessions of one slot are separated by its teardowns, wherever they are on the way.
SessionsSeparated ==
    \A id \in Ids \ overtook : QueueSeparated(id) /\ HeldSeparated(id) /\ InHandSeparated(id)

(***************************************************************************)
(* What comments and tests say, and the code does not keep.                 *)
(***************************************************************************)
\* test_hw_worker.c: "the worker applies it only after everything queued before it".
ParkedInOrder == overtook = {}

================================================================================
