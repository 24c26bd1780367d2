--------------------------- MODULE PodSessionsProofs ---------------------------
(***************************************************************************)
(* Proofs about PodSessions, for any slots, queue depth and bounds.         *)
(***************************************************************************)
EXTENDS PodSessions, SequenceTheorems, TLAPS

\* A teardown item and a bytes item of a slot are work items.
LEMMA ItemTypes ==
    /\ \A id \in Ids : Teardown(id) \in Items
    /\ \A id \in Ids, g \in Sessions : Bytes(id, g) \in Items
    /\ ConsoleLine \in Items
  BY DEF Items, Teardown, Bytes, ConsoleLine

\* What submit_teardown leaves behind is well typed and within the queue's depth.
LEMMA SubmitTeardownType ==
    ASSUME TypeOK, NEW id \in Ids, SubmitTeardown(id)
    PROVE  QueueTypeOK'
  <1>1. inflight' \subseteq Ids /\ twice' \subseteq Ids
    BY DEF SubmitTeardown, TypeOK, QueueTypeOK
  <1>2. CASE id \notin parked /\ Room > 0
    <2>1. queue' = Append(queue, Teardown(id)) /\ parked' = parked
      BY <1>2 DEF SubmitTeardown
    <2>2. Len(queue) + 1 <= QueueDepth
      BY <1>2, CapacityAssumption, LenProperties DEF Room, TypeOK, QueueTypeOK
    <2> QED BY <1>1, <2>1, <2>2, ItemTypes DEF TypeOK, QueueTypeOK
  <1>3. CASE ~(id \notin parked /\ Room > 0)
    BY <1>1, <1>3 DEF SubmitTeardown, TypeOK, QueueTypeOK
  <1> QED BY <1>2, <1>3

\* A segment of the session on a slot fits the queue.
LEMMA AppendBytesType ==
    ASSUME TypeOK, NEW id \in Ids, pcb[id] # 0, Room > 0
    PROVE  /\ Append(queue, Bytes(id, pcb[id])) \in Seq(Items)
           /\ Len(Append(queue, Bytes(id, pcb[id]))) <= QueueDepth
  <1>1. pcb[id] \in Sessions
    BY BoundAssumption DEF TypeOK, NetTypeOK, Sessions
  <1>2. Bytes(id, pcb[id]) \in Items
    BY <1>1, ItemTypes
  <1>3. Len(queue) + 1 <= QueueDepth
    BY CapacityAssumption, LenProperties DEF Room, TypeOK, QueueTypeOK
  <1> QED BY <1>2, <1>3 DEF TypeOK, QueueTypeOK

\* srv_recv: a pbuf taken at once goes behind what is queued, and fits.
LEMMA RecvQueue ==
    ASSUME TypeOK, NEW id \in Conns, NEW n \in 1 .. 2, Recv(id, n), id \notin parked
    PROVE  /\ queue' \in Seq(Items)
           /\ Len(queue') <= QueueDepth
           /\ Len(queue') = Len(queue) + n
           /\ \A i \in 1 .. Len(queue) : queue'[i] = queue[i]
           /\ \A i \in Len(queue) + 1 .. Len(queue) + n : queue'[i] = Bytes(id, pcb[id])
  <1> DEFINE segs == [i \in 1 .. n |-> Bytes(id, pcb[id])]
  <1>1. id \in Ids /\ pcb[id] \in Sessions
    BY BoundAssumption DEF Ids, Recv, TypeOK, NetTypeOK, Sessions
  <1>2. Bytes(id, pcb[id]) \in Items
    BY <1>1, ItemTypes
  <1>3. segs \in Seq(Items) /\ Len(segs) = n /\ \A i \in 1 .. n : segs[i] = Bytes(id, pcb[id])
    BY <1>2
  <1>4. queue' = queue \o segs /\ Room >= n
    BY DEF Recv
  <1>5. queue \in Seq(Items) /\ Len(queue) \in Nat
    BY LenProperties DEF TypeOK, QueueTypeOK
  <1> HIDE DEF segs
  <1>6. Len(queue) + n <= QueueDepth
    BY <1>4, <1>5, CapacityAssumption DEF Room
  <1>7. /\ queue' \in Seq(Items)
        /\ Len(queue') = Len(queue) + n
        /\ \A i \in 1 .. Len(queue) + n :
             queue'[i] = IF i <= Len(queue) THEN queue[i] ELSE segs[i - Len(queue)]
    BY <1>3, <1>4, <1>5, ConcatProperties
  <1>8. \A i \in Len(queue) + 1 .. Len(queue) + n : i - Len(queue) \in 1 .. n
    BY <1>5
  <1> QED BY <1>3, <1>5, <1>6, <1>7, <1>8

\* What net_tx_drain leaves of the rings is well typed.
LEMMA DrainType ==
    ASSUME TypeOK, Drain
    PROVE  ReplyTypeOK'
  <1>1. PICK left \in [Ids -> UNION {Remains(id) : id \in Ids}] :
            /\ \A id \in Ids : MayRemain(id, left[id])
            /\ ring' = left
    BY DEF Drain
  <1>2. ASSUME NEW id \in Ids
        PROVE  left[id] \in Seq(Sessions) /\ Len(left[id]) <= RingCap
    <2>1. ring[id] \in Seq(Sessions) /\ Len(ring[id]) \in Nat /\ Len(ring[id]) <= RingCap
      BY LenProperties DEF TypeOK, ReplyTypeOK
    <2>2. \A n \in 0 .. Len(ring[id]) :
             /\ SubSeq(ring[id], n + 1, Len(ring[id])) \in Seq(Sessions)
             /\ Len(SubSeq(ring[id], n + 1, Len(ring[id]))) <= RingCap
      <3> TAKE n \in 0 .. Len(ring[id])
      <3>1. \A i \in n + 1 .. Len(ring[id]) : ring[id][i] \in Sessions
        BY <2>1, ElementOfSeq
      <3> QED BY <2>1, <3>1, SubSeqProperties, CapacityAssumption
    <2>3. \/ left[id] = ring[id]
          \/ \E n \in 0 .. Len(ring[id]) : left[id] = SubSeq(ring[id], n + 1, Len(ring[id]))
      <3>1. MayRemain(id, left[id])
        BY <1>1
      <3> QED BY <3>1, <2>1 DEF MayRemain
    <2> QED BY <2>1, <2>2, <2>3
  <1>3. DOMAIN left = Ids /\ left = [id \in Ids |-> left[id]]
    BY <1>1
  <1>4. left \in [Ids -> Seq(Sessions)]
    BY <1>2, <1>3
  <1> QED BY <1>1, <1>2, <1>4 DEF Drain, TypeOK, ReplyTypeOK

\* Every step of the pod keeps the types.
LEMMA TypeStep ==
    ASSUME TypeOK, [Next]_vars
    PROVE  TypeOK'
  <1> USE DEF TypeOK
  <1>0. /\ Conns \subseteq Ids /\ Tunnels \subseteq Ids /\ Ids \subseteq Nat
        /\ QueueDepth \in Nat /\ RingCap \in Nat /\ MaxSession \in Nat /\ MaxSegs \in Nat
        /\ MaxConsole \in Nat /\ PendIds \in Nat
    BY SlotAssumption, CapacityAssumption, BoundAssumption DEF Ids
  <1>1. ASSUME NEW id \in Conns, Accept(id) PROVE TypeOK'
    <2>1. NetTypeOK'
      BY <1>0, <1>1 DEF Accept, NetTypeOK, netVars, NetAwake
    <2>2. QueueTypeOK'
      BY <1>0, <1>1 DEF Accept, QueueTypeOK, teardownVars
    <2>3. ReplyTypeOK'
      BY <1>0, <1>1 DEF Accept, ReplyTypeOK
    <2>4. WorkerTypeOK'
      BY <1>0, <1>1 DEF Accept, WorkerTypeOK, workerVars
    <2> QED BY <2>1, <2>2, <2>3, <2>4
  <1>2. ASSUME NEW id \in Conns, Closed(id) PROVE TypeOK'
    <2>0. id \in Ids /\ SubmitTeardown(id)
      BY <1>0, <1>2 DEF Closed
    <2>1. NetTypeOK'
      BY <1>0, <1>2, <2>0 DEF Closed, NetTypeOK, netVars, NetAwake
    <2>2. QueueTypeOK'
      BY <2>0, SubmitTeardownType
    <2>3. ReplyTypeOK'
      BY <1>0, <1>2, <2>0 DEF Closed, ReplyTypeOK
    <2>4. WorkerTypeOK'
      BY <1>0, <1>2, <2>0 DEF Closed, WorkerTypeOK, workerVars
    <2> QED BY <2>1, <2>2, <2>3, <2>4
  <1>3. ASSUME NEW id \in Conns, NEW n \in 1 .. 2, Recv(id, n) PROVE TypeOK'
    <2>0. id \in Ids /\ pcb[id] # 0 /\ Room >= n
      BY <1>0, <1>3 DEF Recv
    <2>1. NetTypeOK'
      BY <1>0, <1>3 DEF Recv, NetTypeOK
    <2>2. QueueTypeOK'
      <3>1. CASE id \in parked
        BY <1>3, <3>1 DEF Recv, QueueTypeOK
      <3>2. CASE id \notin parked
        <4>2. queue' \in Seq(Items) /\ Len(queue') <= QueueDepth
          BY <1>3, <3>2, RecvQueue
        <4> QED BY <1>3, <4>2 DEF Recv, QueueTypeOK
      <3> QED BY <3>1, <3>2
    <2>3. ReplyTypeOK'
      BY <1>3 DEF Recv, ReplyTypeOK
    <2>4. WorkerTypeOK'
      BY <1>3 DEF Recv, WorkerTypeOK, workerVars
    <2> QED BY <2>1, <2>2, <2>3, <2>4
  <1>4. ASSUME NEW id \in Tunnels, TunnelOpen(id) PROVE TypeOK'
    <2>0. id \in Ids /\ SubmitTeardown(id)
      BY <1>0, <1>4 DEF TunnelOpen
    <2>1. NetTypeOK'
      BY <1>0, <1>4, <2>0 DEF TunnelOpen, NetTypeOK, netVars, NetAwake
    <2>2. QueueTypeOK'
      BY <2>0, SubmitTeardownType
    <2>3. ReplyTypeOK'
      BY <1>0, <1>4, <2>0 DEF TunnelOpen, ReplyTypeOK
    <2>4. WorkerTypeOK'
      BY <1>0, <1>4, <2>0 DEF TunnelOpen, WorkerTypeOK, workerVars
    <2> QED BY <2>1, <2>2, <2>3, <2>4
  <1>5. ASSUME NEW id \in Tunnels, TunnelReopen(id) PROVE TypeOK'
    <2>0. id \in Ids /\ SubmitTeardown(id)
      BY <1>0, <1>5 DEF TunnelReopen
    <2>1. NetTypeOK'
      BY <1>0, <1>5, <2>0 DEF TunnelReopen, NetTypeOK, netVars, NetAwake
    <2>2. QueueTypeOK'
      BY <2>0, SubmitTeardownType
    <2>3. ReplyTypeOK'
      BY <1>0, <1>5, <2>0 DEF TunnelReopen, ReplyTypeOK
    <2>4. WorkerTypeOK'
      BY <1>0, <1>5, <2>0 DEF TunnelReopen, WorkerTypeOK, workerVars
    <2> QED BY <2>1, <2>2, <2>3, <2>4
  <1>6. ASSUME NEW id \in Tunnels, TunnelData(id) PROVE TypeOK'
    <2>1. NetTypeOK'
      BY <1>0, <1>6 DEF TunnelData, NetTypeOK, netVars, NetAwake
    <2>2. QueueTypeOK'
      BY <1>0, <1>6, AppendBytesType DEF TunnelData, Accepts, QueueTypeOK
    <2>3. ReplyTypeOK'
      BY <1>0, <1>6 DEF TunnelData, ReplyTypeOK
    <2>4. WorkerTypeOK'
      BY <1>0, <1>6 DEF TunnelData, WorkerTypeOK, workerVars
    <2> QED BY <2>1, <2>2, <2>3, <2>4
  <1>7. ASSUME NEW id \in Tunnels, TunnelClose(id) PROVE TypeOK'
    <2>0. id \in Ids /\ SubmitTeardown(id)
      BY <1>0, <1>7 DEF TunnelClose
    <2>1. NetTypeOK'
      BY <1>0, <1>7, <2>0 DEF TunnelClose, NetTypeOK, netVars, NetAwake
    <2>2. QueueTypeOK'
      BY <2>0, SubmitTeardownType
    <2>3. ReplyTypeOK'
      BY <1>0, <1>7, <2>0 DEF TunnelClose, ReplyTypeOK
    <2>4. WorkerTypeOK'
      BY <1>0, <1>7, <2>0 DEF TunnelClose, WorkerTypeOK, workerVars
    <2> QED BY <2>1, <2>2, <2>3, <2>4
  <1>8. CASE Drain
    <2>1. NetTypeOK'
      BY <1>0, <1>8 DEF Drain, NetTypeOK, netVars, NetAwake
    <2>2. QueueTypeOK'
      BY <1>0, <1>8 DEF Drain, QueueTypeOK, teardownVars
    <2>3. ReplyTypeOK'
      BY <1>8, DrainType
    <2>4. WorkerTypeOK'
      BY <1>0, <1>8 DEF Drain, WorkerTypeOK, workerVars
    <2> QED BY <2>1, <2>2, <2>3, <2>4
  <1>9. CASE PollEnd
    <2>1. NetTypeOK'
      BY <1>0, <1>9 DEF PollEnd, NetTypeOK, netVars
    <2>2. QueueTypeOK'
      BY <1>0, <1>9 DEF PollEnd, QueueTypeOK, teardownVars
    <2>3. ReplyTypeOK'
      BY <1>0, <1>9 DEF PollEnd, ReplyTypeOK
    <2>4. WorkerTypeOK'
      BY <1>0, <1>9 DEF PollEnd, WorkerTypeOK, workerVars
    <2> QED BY <2>1, <2>2, <2>3, <2>4
  <1>10. CASE SpinSubmit
    <2>0. rx.id \in Ids /\ pcb[rx.id] # 0 /\ rx.left \in Nat \ {0}
      BY <1>0, <1>10 DEF SpinSubmit, NetTypeOK
    <2>1. NetTypeOK'
      <3>1. rx' = [id |-> rx.id, left |-> rx.left - 1]
        BY <1>10 DEF SpinSubmit, NetTypeOK
      <3>2. rx.id \in Nat
        BY <1>0, <2>0
      <3>3. \A n \in Nat \ {0} : n - 1 \in Nat /\ (n # 1 => n - 1 > 0)
        OBVIOUS
      <3>4. rx.id \in Nat /\ rx.left - 1 \in Nat /\ (rx.left # 1 => rx.left - 1 > 0)
        BY <2>0, <3>2, <3>3
      <3>5. rx' \in [id : Nat, left : Nat] /\ rx'.id = rx.id /\ rx'.left = rx.left - 1
        BY <3>1, <3>4
      <3> QED BY <1>10, <2>0, <3>4, <3>5 DEF SpinSubmit, NetTypeOK
    <2>2. QueueTypeOK'
      BY <1>0, <1>10, <2>0, AppendBytesType DEF SpinSubmit, Accepts, QueueTypeOK
    <2>3. ReplyTypeOK'
      BY <1>0, <1>10, <2>0 DEF SpinSubmit, ReplyTypeOK
    <2>4. WorkerTypeOK'
      BY <1>0, <1>10, <2>0 DEF SpinSubmit, WorkerTypeOK, workerVars
    <2> QED BY <2>1, <2>2, <2>3, <2>4
  <1>11. CASE SpinAbort
    <2>0. rx.id \in Ids /\ SubmitTeardown(rx.id)
      BY <1>0, <1>11 DEF SpinAbort, NetTypeOK
    <2>1. NetTypeOK'
      BY <1>0, <1>11, <2>0 DEF SpinAbort, NetTypeOK, netVars
    <2>2. QueueTypeOK'
      BY <2>0, SubmitTeardownType
    <2>3. ReplyTypeOK'
      BY <1>0, <1>11, <2>0 DEF SpinAbort, ReplyTypeOK
    <2>4. WorkerTypeOK'
      BY <1>0, <1>11, <2>0 DEF SpinAbort, WorkerTypeOK, workerVars
    <2> QED BY <2>1, <2>2, <2>3, <2>4
  <1>12. ASSUME NEW id \in Conns, CloseRequest(id) PROVE TypeOK'
    <2>0. id \in Ids /\ SubmitTeardown(id)
      BY <1>0, <1>12 DEF CloseRequest
    <2>1. NetTypeOK'
      BY <1>0, <1>12, <2>0 DEF CloseRequest, NetTypeOK, netVars
    <2>2. QueueTypeOK'
      BY <2>0, SubmitTeardownType
    <2>3. ReplyTypeOK'
      BY <1>0, <1>12, <2>0 DEF CloseRequest, ReplyTypeOK
    <2>4. WorkerTypeOK'
      BY <1>0, <1>12, <2>0 DEF CloseRequest, WorkerTypeOK, workerVars
    <2> QED BY <2>1, <2>2, <2>3, <2>4
  <1>13. CASE PolicyClose
    <2>1. NetTypeOK'
      BY <1>0, <1>13 DEF PolicyClose, NetTypeOK, netVars
    <2>2. QueueTypeOK'
      BY <1>0, <1>13 DEF PolicyClose, QueueTypeOK, teardownVars
    <2>3. ReplyTypeOK'
      BY <1>0, <1>13 DEF PolicyClose, ReplyTypeOK
    <2>4. WorkerTypeOK'
      BY <1>0, <1>13 DEF PolicyClose, WorkerTypeOK, workerVars
    <2> QED BY <2>1, <2>2, <2>3, <2>4
  <1>14. CASE ConsoleSubmit
    <2>1. NetTypeOK'
      BY <1>0, <1>14 DEF ConsoleSubmit, NetTypeOK, netVars
    <2>2. QueueTypeOK'
      BY <1>0, <1>14, ItemTypes, LenProperties DEF ConsoleSubmit, QueueTypeOK, Room
    <2>3. ReplyTypeOK'
      BY <1>0, <1>14 DEF ConsoleSubmit, ReplyTypeOK
    <2>4. WorkerTypeOK'
      BY <1>0, <1>14 DEF ConsoleSubmit, WorkerTypeOK, workerVars
    <2> QED BY <2>1, <2>2, <2>3, <2>4
  <1>15. CASE WReceive
    <2>1. NetTypeOK'
      BY <1>0, <1>15 DEF WReceive, NetTypeOK, netVars
    <2>2. QueueTypeOK'
      BY <1>0, <1>15, HeadTailProperties, LenProperties DEF WReceive, QueueTypeOK
    <2>3. ReplyTypeOK'
      BY <1>0, <1>15 DEF WReceive, ReplyTypeOK
    <2>4. WorkerTypeOK'
      BY <1>0, <1>15, HeadTailProperties DEF WReceive, QueueTypeOK, WorkerTypeOK
    <2> QED BY <2>1, <2>2, <2>3, <2>4
  <1>16. CASE WConsole
    <2>1. NetTypeOK'
      BY <1>0, <1>16 DEF WConsole, NetTypeOK, netVars
    <2>2. QueueTypeOK'
      BY <1>0, <1>16 DEF WConsole, QueueTypeOK, teardownVars
    <2>3. ReplyTypeOK'
      BY <1>0, <1>16 DEF WConsole, ReplyTypeOK
    <2>4. WorkerTypeOK'
      BY <1>0, <1>16 DEF WConsole, WorkerTypeOK, workerVars
    <2> QED BY <2>1, <2>2, <2>3, <2>4
  <1>17. CASE WBytes
    <2>0. cur.id \in Ids /\ cur.g \in Sessions
      BY <1>17 DEF WBytes, WorkerTypeOK, Items, Teardown, ConsoleLine
    <2>1. NetTypeOK'
      BY <1>17 DEF WBytes, NetTypeOK, netVars
    <2>2. QueueTypeOK'
      BY <1>17 DEF WBytes, QueueTypeOK, teardownVars
    <2>3. ReplyTypeOK'
      <3>1. closeReq' \subseteq Conns
        BY <1>17 DEF WBytes, ReplyTypeOK
      <3>2. CASE UNCHANGED ring
        BY <3>1, <3>2 DEF ReplyTypeOK
      <3>3. CASE /\ Len(ring[cur.id]) < RingCap
                 /\ ring' = [ring EXCEPT ![cur.id] = Append(@, cur.g)]
        BY <1>0, <2>0, <3>1, <3>3, AppendProperties, LenProperties DEF ReplyTypeOK
      <3> QED BY <1>17, <3>2, <3>3 DEF WBytes
    <2>4. WorkerTypeOK'
      <3>1. held' \in [Ids -> 0 .. MaxSession]
        BY <1>0, <1>17, <2>0 DEF WBytes, WorkerTypeOK, Sessions
      <3> QED BY <1>17, <3>1 DEF WBytes, WorkerTypeOK
    <2> QED BY <2>1, <2>2, <2>3, <2>4
  <1>18. CASE WConnClosed
    <2>1. NetTypeOK'
      BY <1>0, <1>18 DEF WConnClosed, NetTypeOK, netVars
    <2>2. QueueTypeOK'
      BY <1>0, <1>18 DEF WConnClosed, QueueTypeOK, teardownVars
    <2>3. ReplyTypeOK'
      BY <1>0, <1>18 DEF WConnClosed, ReplyTypeOK
    <2>4. WorkerTypeOK'
      <3>1. cur.id \in Ids
        BY <1>18 DEF WConnClosed, WorkerTypeOK, Items, Teardown, ConsoleLine
      <3>2. held' \in [Ids -> 0 .. MaxSession]
        BY <1>0, <1>18, <3>1 DEF WConnClosed, WorkerTypeOK
      <3> QED BY <1>18, <3>2 DEF WConnClosed, WorkerTypeOK
    <2> QED BY <2>1, <2>2, <2>3, <2>4
  <1>19. CASE WTeardownDone
    <2>1. NetTypeOK'
      BY <1>0, <1>19 DEF WTeardownDone, NetTypeOK, netVars
    <2>2. QueueTypeOK'
      BY <1>0, <1>19 DEF WTeardownDone, QueueTypeOK, teardownVars
    <2>3. ReplyTypeOK'
      BY <1>0, <1>19 DEF WTeardownDone, ReplyTypeOK
    <2>4. WorkerTypeOK'
      BY <1>0, <1>19 DEF WTeardownDone, WorkerTypeOK, workerVars
    <2> QED BY <2>1, <2>2, <2>3, <2>4
  <1>20. CASE WBatchEnd
    <2>1. NetTypeOK'
      BY <1>0, <1>20 DEF WBatchEnd, NetTypeOK, netVars
    <2>2. QueueTypeOK'
      BY <1>0, <1>20 DEF WBatchEnd, QueueTypeOK, teardownVars
    <2>3. ReplyTypeOK'
      BY <1>0, <1>20 DEF WBatchEnd, ReplyTypeOK
    <2>4. WorkerTypeOK'
      BY <1>0, <1>20 DEF WBatchEnd, WorkerTypeOK, workerVars
    <2> QED BY <2>1, <2>2, <2>3, <2>4
  <1>21. CASE WApply
    <2>1. NetTypeOK'
      BY <1>0, <1>21 DEF WApply, NetTypeOK, netVars
    <2>2. QueueTypeOK'
      BY <1>0, <1>21 DEF WApply, QueueTypeOK, teardownVars
    <2>3. ReplyTypeOK'
      BY <1>0, <1>21 DEF WApply, ReplyTypeOK
    <2>4. WorkerTypeOK'
      BY <1>0, <1>21 DEF WApply, WorkerTypeOK, workerVars
    <2> QED BY <2>1, <2>2, <2>3, <2>4
  <1>22. CASE WScanTake
    <2>1. NetTypeOK'
      BY <1>0, <1>22 DEF WScanTake, NetTypeOK, netVars
    <2>2. QueueTypeOK'
      BY <1>0, <1>22 DEF WScanTake, QueueTypeOK, teardownVars
    <2>3. ReplyTypeOK'
      BY <1>0, <1>22 DEF WScanTake, ReplyTypeOK
    <2>4. WorkerTypeOK'
      BY <1>0, <1>22, ItemTypes DEF WScanTake, WorkerTypeOK, QueueTypeOK
    <2> QED BY <2>1, <2>2, <2>3, <2>4
  <1>23. CASE WScanSkip
    <2>1. NetTypeOK'
      BY <1>0, <1>23 DEF WScanSkip, NetTypeOK, netVars
    <2>2. QueueTypeOK'
      BY <1>0, <1>23 DEF WScanSkip, QueueTypeOK, teardownVars
    <2>3. ReplyTypeOK'
      BY <1>0, <1>23 DEF WScanSkip, ReplyTypeOK
    <2>4. WorkerTypeOK'
      BY <1>0, <1>23 DEF WScanSkip, WorkerTypeOK, workerVars
    <2> QED BY <2>1, <2>2, <2>3, <2>4
  <1>24. CASE WScanEnd
    <2>1. NetTypeOK'
      BY <1>0, <1>24 DEF WScanEnd, NetTypeOK, netVars
    <2>2. QueueTypeOK'
      BY <1>0, <1>24 DEF WScanEnd, QueueTypeOK, teardownVars
    <2>3. ReplyTypeOK'
      BY <1>0, <1>24 DEF WScanEnd, ReplyTypeOK
    <2>4. WorkerTypeOK'
      BY <1>0, <1>24 DEF WScanEnd, WorkerTypeOK, workerVars
    <2> QED BY <2>1, <2>2, <2>3, <2>4
  <1>25. CASE WPollEnd
    <2>1. NetTypeOK'
      BY <1>0, <1>25 DEF WPollEnd, NetTypeOK, netVars
    <2>2. QueueTypeOK'
      BY <1>0, <1>25 DEF WPollEnd, QueueTypeOK, teardownVars
    <2>3. ReplyTypeOK'
      BY <1>0, <1>25 DEF WPollEnd, ReplyTypeOK
    <2>4. WorkerTypeOK'
      BY <1>0, <1>25 DEF WPollEnd, WorkerTypeOK, workerVars
    <2> QED BY <2>1, <2>2, <2>3, <2>4
  <1>26. ASSUME NEW id \in Ids, WPollSend(id) PROVE TypeOK'
    <2>1. NetTypeOK'
      BY <1>0, <1>26 DEF WPollSend, NetTypeOK, netVars
    <2>2. QueueTypeOK'
      BY <1>0, <1>26 DEF WPollSend, QueueTypeOK, teardownVars
    <2>3. ReplyTypeOK'
      BY <1>0, <1>26 DEF WPollSend, ReplyTypeOK, WorkerTypeOK, Sessions
    <2>4. WorkerTypeOK'
      BY <1>0, <1>26 DEF WPollSend, WorkerTypeOK, workerVars
    <2> QED BY <2>1, <2>2, <2>3, <2>4
  <1>27. ASSUME NEW id \in Ids, WPollGiveUp(id) PROVE TypeOK'
    <2>1. NetTypeOK'
      BY <1>0, <1>27 DEF WPollGiveUp, NetTypeOK, netVars
    <2>2. QueueTypeOK'
      BY <1>0, <1>27 DEF WPollGiveUp, QueueTypeOK, teardownVars
    <2>3. ReplyTypeOK'
      BY <1>0, <1>27 DEF WPollGiveUp, ReplyTypeOK
    <2>4. WorkerTypeOK'
      BY <1>0, <1>27 DEF WPollGiveUp, WorkerTypeOK, workerVars
    <2> QED BY <2>1, <2>2, <2>3, <2>4
  <1>28. CASE UNCHANGED vars
    <2>1. NetTypeOK'
      BY <1>28 DEF vars, NetTypeOK
    <2>2. QueueTypeOK'
      BY <1>28 DEF vars, QueueTypeOK
    <2>3. ReplyTypeOK'
      BY <1>28 DEF vars, ReplyTypeOK
    <2>4. WorkerTypeOK'
      BY <1>28 DEF vars, WorkerTypeOK
    <2> QED BY <2>1, <2>2, <2>3, <2>4
  <1> QED
    BY <1>1, <1>2, <1>3, <1>4, <1>5, <1>6, <1>7, <1>8, <1>9, <1>10, <1>11, <1>12, <1>13,
       <1>14, <1>15, <1>16, <1>17, <1>18, <1>19, <1>20, <1>21, <1>22, <1>23, <1>24, <1>25, <1>26, <1>27, <1>28
       DEF Next, NetEvent, NetStep, WorkerStep, WorkerOutput

\* The pod starts well typed.
LEMMA TypeInit == Init => TypeOK
  <1> SUFFICES ASSUME Init PROVE TypeOK
    OBVIOUS
  <1>1. NetTypeOK
    BY BoundAssumption DEF Init, NetTypeOK
  <1>2. QueueTypeOK
    BY CapacityAssumption DEF Init, QueueTypeOK
  <1>3. ReplyTypeOK
    BY CapacityAssumption DEF Init, ReplyTypeOK
  <1>4. WorkerTypeOK
    BY SlotAssumption, CapacityAssumption, BoundAssumption, ItemTypes
       DEF Init, WorkerTypeOK, ConsoleLine
  <1> QED BY <1>1, <1>2, <1>3, <1>4 DEF TypeOK

\* TypeOK holds always: the queue and the rings stay within their capacities, whatever
\* the interleaving of the net task, the console and the worker.
THEOREM TypeCorrect == Spec => []TypeOK
  BY TypeInit, TypeStep, PTL DEF Spec

(***************************************************************************)
(* Sessions of a slot are separated by teardowns.                           *)
(***************************************************************************)
Separated(id) == QueueSeparated(id) /\ HeldSeparated(id) /\ InHandSeparated(id)

\* Queueing segments of the session on a slot, with no teardown of the slot parked, keeps
\* the sessions of every slot separated.
LEMMA BytesKeepSeparation ==
    ASSUME TypeOK, NEW id0 \in Ids, id0 \notin parked, pcb[id0] # 0,
           queue' \in Seq(Items), Len(queue) <= Len(queue'),
           \A i \in 1 .. Len(queue) : queue'[i] = queue[i],
           \A i \in Len(queue) + 1 .. Len(queue') : queue'[i] = Bytes(id0, pcb[id0]),
           UNCHANGED <<pcb, parked, held, wpc, cur>>,
           NEW id \in Ids, Separated(id)
    PROVE  Separated(id)'
  <1>0. Len(queue) \in Nat /\ Len(queue') \in Nat
    BY LenProperties DEF TypeOK, QueueTypeOK
  <1>1. ASSUME NEW j \in 1 .. Len(queue'), IsBytes(j, id)'
        PROVE  \/ j \in 1 .. Len(queue) /\ IsBytes(j, id) /\ queue'[j] = queue[j]
               \/ j \in Len(queue) + 1 .. Len(queue') /\ queue'[j].g = pcb[id] /\ id = id0
    <2>1. CASE j <= Len(queue)
      BY <1>0, <1>1, <2>1 DEF IsBytes
    <2>2. CASE j > Len(queue)
      <3>1. queue'[j] = Bytes(id0, pcb[id0])
        BY <1>0, <2>2
      <3> QED BY <1>0, <1>1, <2>2, <3>1 DEF IsBytes, Bytes
    <2> QED BY <1>0, <2>1, <2>2
  <1>2. ASSUME NEW i \in Nat, NEW j \in 1 .. Len(queue), TearBetween(i, j, id)
        PROVE  TearBetween(i, j, id)'
    BY <1>0, <1>2 DEF TearBetween
  <1>3. ASSUME NEW i \in Nat, TearFrom(i, id)
        PROVE  TearFrom(i, id)'
    BY <1>0, <1>3 DEF TearFrom
  <1>4. ASSUME NEW i \in Nat, NEW j \in Len(queue) + 1 .. Len(queue'), TearFrom(i, id), id = id0
        PROVE  TearBetween(i, j, id)'
    BY <1>0, <1>4 DEF TearFrom, TearBetween
  <1>5. QueueSeparated(id)'
    <2>1. ASSUME NEW i \in 1 .. Len(queue'), NEW j \in 1 .. Len(queue'), i < j,
                 IsBytes(i, id)', IsBytes(j, id)', queue'[i].g # queue'[j].g
          PROVE  TearBetween(i, j, id)'
      <3>1. CASE j \in 1 .. Len(queue)
        <4>1. i \in 1 .. Len(queue) /\ IsBytes(i, id) /\ IsBytes(j, id)
              /\ queue[i].g # queue[j].g
          BY <1>0, <1>1, <2>1, <3>1
        <4>2. TearBetween(i, j, id)
          BY <2>1, <3>1, <4>1 DEF Separated, QueueSeparated
        <4>3. i \in Nat
          OBVIOUS
        <4> QED BY <1>2, <3>1, <4>2, <4>3
      <3>2. CASE j \notin 1 .. Len(queue)
        <4>1. j \in Len(queue) + 1 .. Len(queue') /\ queue'[j].g = pcb[id] /\ id = id0
          BY <1>1, <2>1, <3>2
        <4>2. i \in 1 .. Len(queue) /\ IsBytes(i, id) /\ queue[i].g # pcb[id]
          BY <1>1, <2>1, <4>1
        <4>3. TearFrom(i, id)
          BY <4>2 DEF Separated, QueueSeparated
        <4> QED BY <1>4, <4>1, <4>2, <4>3
      <3> QED BY <3>1, <3>2
    <2>2. ASSUME NEW i \in 1 .. Len(queue'), IsBytes(i, id)', queue'[i].g # pcb[id]
          PROVE  TearFrom(i, id)'
      <3>1. i \in 1 .. Len(queue) /\ IsBytes(i, id) /\ queue[i].g # pcb[id]
        BY <1>1, <2>2
      <3> QED BY <1>3, <3>1 DEF Separated, QueueSeparated
    <2> QED BY <2>1, <2>2 DEF QueueSeparated
  <1>6. HeldSeparated(id)'
    <2> SUFFICES ASSUME held[id] # 0, ~InHand("teardown", id)
                 PROVE  /\ \A j \in 1 .. Len(queue') :
                             IsBytes(j, id)' /\ queue'[j].g # held[id] => TearBetween(0, j, id)'
                        /\ held[id] # pcb[id] => TearFrom(0, id)'
      BY DEF HeldSeparated, InHand
    <2>1. held[id] # pcb[id] => TearFrom(0, id)
      BY DEF Separated, HeldSeparated
    <2>2. ASSUME NEW j \in 1 .. Len(queue'), IsBytes(j, id)', queue'[j].g # held[id]
          PROVE  TearBetween(0, j, id)'
      <3>1. CASE j \in 1 .. Len(queue) /\ IsBytes(j, id) /\ queue'[j] = queue[j]
        BY <1>2, <2>2, <3>1 DEF Separated, HeldSeparated
      <3>2. CASE j \in Len(queue) + 1 .. Len(queue') /\ queue'[j].g = pcb[id] /\ id = id0
        BY <1>4, <2>1, <2>2, <3>2
      <3> QED BY <1>1, <2>2, <3>1, <3>2
    <2> QED BY <1>3, <2>1, <2>2
  <1>7. InHandSeparated(id)'
    <2> SUFFICES ASSUME InHand("bytes", id)
                 PROVE  /\ held[id] \in {0, cur.g}
                        /\ \A j \in 1 .. Len(queue') :
                             IsBytes(j, id)' /\ queue'[j].g # cur.g => TearBetween(0, j, id)'
                        /\ cur.g # pcb[id] => TearFrom(0, id)'
      BY DEF InHandSeparated, InHand
    <2>1. held[id] \in {0, cur.g} /\ (cur.g # pcb[id] => TearFrom(0, id))
      BY DEF Separated, InHandSeparated
    <2>2. ASSUME NEW j \in 1 .. Len(queue'), IsBytes(j, id)', queue'[j].g # cur.g
          PROVE  TearBetween(0, j, id)'
      <3>1. CASE j \in 1 .. Len(queue) /\ IsBytes(j, id) /\ queue'[j] = queue[j]
        BY <1>2, <2>2, <3>1 DEF Separated, InHandSeparated
      <3>2. CASE j \in Len(queue) + 1 .. Len(queue') /\ queue'[j].g = pcb[id] /\ id = id0
        BY <1>4, <2>1, <2>2, <3>2
      <3> QED BY <1>1, <2>2, <3>1, <3>2
    <2> QED BY <1>3, <2>1, <2>2
  <1> QED BY <1>5, <1>6, <1>7 DEF Separated

\* Submitting a teardown, queued or parked, keeps the sessions of every slot separated,
\* whoever is on the slot afterwards.
LEMMA TeardownKeepsSeparation ==
    ASSUME TypeOK, NEW id0 \in Ids, SubmitTeardown(id0),
           UNCHANGED <<held, wpc, cur>>,
           NEW id \in Ids, id # id0 => pcb'[id] = pcb[id], Separated(id)
    PROVE  Separated(id)'
  <1>0. queue \in Seq(Items) /\ Len(queue) \in Nat
    BY LenProperties DEF TypeOK, QueueTypeOK
  <1>1. /\ Len(queue') \in Nat /\ Len(queue) <= Len(queue')
        /\ \A j \in 1 .. Len(queue) : queue'[j] = queue[j]
        /\ \A j \in Len(queue) + 1 .. Len(queue') : queue'[j] = Teardown(id0)
        /\ parked \subseteq parked'
        /\ id0 \in parked' \/ Len(queue') = Len(queue) + 1
    <2>1. CASE queue' = queue /\ parked' = parked \cup {id0}
      BY <1>0, <2>1
    <2>2. CASE queue' = Append(queue, Teardown(id0)) /\ parked' = parked
      BY <1>0, <2>2
    <2> QED BY <2>1, <2>2 DEF SubmitTeardown
  <1>2. ASSUME NEW j \in 1 .. Len(queue'), IsBytes(j, id)'
        PROVE  j \in 1 .. Len(queue) /\ IsBytes(j, id) /\ queue'[j] = queue[j]
    <2>1. CASE j <= Len(queue)
      BY <1>0, <1>1, <1>2, <2>1 DEF IsBytes
    <2>2. CASE j > Len(queue)
      <3>1. queue'[j] = Teardown(id0)
        BY <1>0, <1>1, <2>2
      <3> QED BY <1>2, <3>1 DEF IsBytes, Teardown
    <2> QED BY <1>0, <1>1, <2>1, <2>2
  <1>3. ASSUME NEW i \in Nat, NEW j \in 1 .. Len(queue), TearBetween(i, j, id)
        PROVE  TearBetween(i, j, id)'
    BY <1>0, <1>1, <1>3 DEF TearBetween
  <1>4. ASSUME NEW i \in Nat, TearFrom(i, id)
        PROVE  TearFrom(i, id)'
    BY <1>0, <1>1, <1>4 DEF TearFrom
  <1>5. ASSUME NEW i \in 0 .. Len(queue), id = id0
        PROVE  TearFrom(i, id)'
    <2>1. CASE id0 \in parked'
      BY <1>5, <2>1 DEF TearFrom
    <2>2. CASE Len(queue') = Len(queue) + 1
      <3>1. queue'[Len(queue')] = Teardown(id) /\ Len(queue') \in i + 1 .. Len(queue')
        BY <1>0, <1>1, <1>5, <2>2
      <3> QED BY <3>1 DEF TearFrom
    <2> QED BY <1>1, <2>1, <2>2
  <1>6. QueueSeparated(id)'
    <2>1. ASSUME NEW i \in 1 .. Len(queue'), NEW j \in 1 .. Len(queue'), i < j,
                 IsBytes(i, id)', IsBytes(j, id)', queue'[i].g # queue'[j].g
          PROVE  TearBetween(i, j, id)'
      <3>1. /\ i \in 1 .. Len(queue) /\ IsBytes(i, id) /\ j \in 1 .. Len(queue) /\ IsBytes(j, id)
            /\ queue[i].g # queue[j].g
        BY <1>2, <2>1
      <3>2. TearBetween(i, j, id)
        BY <2>1, <3>1 DEF Separated, QueueSeparated
      <3>3. i \in Nat
        OBVIOUS
      <3> QED BY <1>3, <3>1, <3>2, <3>3
    <2>2. ASSUME NEW i \in 1 .. Len(queue'), IsBytes(i, id)', queue'[i].g # pcb'[id]
          PROVE  TearFrom(i, id)'
      <3>1. i \in 1 .. Len(queue) /\ IsBytes(i, id) /\ queue'[i].g = queue[i].g
        BY <1>2, <2>2
      <3>2. CASE id = id0
        BY <1>0, <1>5, <3>1, <3>2
      <3>3. CASE id # id0
        BY <1>4, <2>2, <3>1, <3>3 DEF Separated, QueueSeparated
      <3> QED BY <3>2, <3>3
    <2> QED BY <2>1, <2>2 DEF QueueSeparated
  <1>7. HeldSeparated(id)'
    <2> SUFFICES ASSUME held[id] # 0, ~InHand("teardown", id)
                 PROVE  /\ \A j \in 1 .. Len(queue') :
                             IsBytes(j, id)' /\ queue'[j].g # held[id] => TearBetween(0, j, id)'
                        /\ held[id] # pcb'[id] => TearFrom(0, id)'
      BY DEF HeldSeparated, InHand
    <2>1. ASSUME NEW j \in 1 .. Len(queue'), IsBytes(j, id)', queue'[j].g # held[id]
          PROVE  TearBetween(0, j, id)'
      BY <1>2, <1>3, <2>1 DEF Separated, HeldSeparated
    <2>2. ASSUME held[id] # pcb'[id] PROVE TearFrom(0, id)'
      <3>1. CASE id = id0
        BY <1>0, <1>5, <3>1
      <3>2. CASE id # id0
        BY <1>4, <2>2, <3>2 DEF Separated, HeldSeparated
      <3> QED BY <3>1, <3>2
    <2> QED BY <2>1, <2>2
  <1>8. InHandSeparated(id)'
    <2> SUFFICES ASSUME InHand("bytes", id)
                 PROVE  /\ held[id] \in {0, cur.g}
                        /\ \A j \in 1 .. Len(queue') :
                             IsBytes(j, id)' /\ queue'[j].g # cur.g => TearBetween(0, j, id)'
                        /\ cur.g # pcb'[id] => TearFrom(0, id)'
      BY DEF InHandSeparated, InHand
    <2>1. ASSUME NEW j \in 1 .. Len(queue'), IsBytes(j, id)', queue'[j].g # cur.g
          PROVE  TearBetween(0, j, id)'
      BY <1>2, <1>3, <2>1 DEF Separated, InHandSeparated
    <2>2. ASSUME cur.g # pcb'[id] PROVE TearFrom(0, id)'
      <3>1. CASE id = id0
        BY <1>0, <1>5, <3>1
      <3>2. CASE id # id0
        BY <1>4, <2>2, <3>2 DEF Separated, InHandSeparated
      <3> QED BY <3>1, <3>2
    <2>3. held[id] \in {0, cur.g}
      BY DEF Separated, InHandSeparated
    <2> QED BY <2>1, <2>2, <2>3
  <1> QED BY <1>6, <1>7, <1>8 DEF Separated

\* A step that leaves the queue, the parked teardowns and the worker alone keeps the
\* separation, also when it puts a new session on a free slot.
LEMMA AcceptKeepsSeparation ==
    ASSUME TypeOK, UNCHANGED <<queue, parked, held, wpc, cur>>,
           NEW id \in Ids, pcb[id] \in {0, pcb'[id]}, Separated(id)
    PROVE  Separated(id)'
  <1>1. \A i \in 1 .. Len(queue) : IsBytes(i, id) => queue[i].g # 0
    BY ElementOfSeq DEF TypeOK, QueueTypeOK, IsBytes, Items, Teardown, ConsoleLine, Sessions
  <1>2. InHand("bytes", id) => cur.g # 0
    BY DEF TypeOK, WorkerTypeOK, InHand, Items, Teardown, ConsoleLine, Sessions
  <1>3. QueueSeparated(id)'
    BY <1>1 DEF Separated, QueueSeparated, IsBytes, TearBetween, TearFrom
  <1>4. HeldSeparated(id)'
    BY DEF Separated, HeldSeparated, IsBytes, TearBetween, TearFrom, InHand
  <1>5. InHandSeparated(id)'
    BY <1>2 DEF Separated, InHandSeparated, IsBytes, TearBetween, TearFrom, InHand
  <1> QED BY <1>3, <1>4, <1>5 DEF Separated

\* So does a step of the worker that neither starts nor finishes an item of the slot.
LEMMA IdleKeepsSeparation ==
    ASSUME UNCHANGED <<queue, parked, pcb, held>>,
           NEW id \in Ids, ~InHand("teardown", id), ~InHand("bytes", id)', Separated(id)
    PROVE  Separated(id)'
  <1>1. QueueSeparated(id)'
    BY DEF Separated, QueueSeparated, IsBytes, TearBetween, TearFrom
  <1>2. HeldSeparated(id)'
    BY DEF Separated, HeldSeparated, IsBytes, TearBetween, TearFrom
  <1>3. InHandSeparated(id)'
    BY DEF InHandSeparated
  <1> QED BY <1>1, <1>2, <1>3 DEF Separated

\* Taking the first item of the queue.
LEMMA ReceiveKeepsSeparation ==
    ASSUME TypeOK, WReceive, NEW id \in Ids, Separated(id)
    PROVE  Separated(id)'
  <1>0. /\ queue \in Seq(Items) /\ queue # <<>> /\ Len(queue) \in Nat \ {0}
        /\ queue' = Tail(queue) /\ cur' = Head(queue)
        /\ wpc = "loop" /\ wpc' = "item"
        /\ UNCHANGED <<pcb, parked, held>>
    BY EmptySeq, LenProperties DEF WReceive, TypeOK, QueueTypeOK, netVars
  <1>1. /\ Len(queue') = Len(queue) - 1 /\ cur' = queue[1]
        /\ \A j \in 1 .. Len(queue') : j + 1 \in 2 .. Len(queue) /\ queue'[j] = queue[j + 1]
    BY <1>0, HeadTailProperties
  <1>2. \A j \in 1 .. Len(queue') : IsBytes(j, id)' => IsBytes(j + 1, id)
    BY <1>1 DEF IsBytes
  <1>3. ASSUME NEW i \in Nat, NEW j \in 1 .. Len(queue'), TearBetween(i + 1, j + 1, id)
        PROVE  TearBetween(i, j, id)'
    <2>1. PICK k \in (i + 1) + 1 .. (j + 1) - 1 : queue[k] = Teardown(id)
      BY <1>3 DEF TearBetween
    <2>2. k - 1 \in i + 1 .. j - 1 /\ k - 1 \in 1 .. Len(queue') /\ (k - 1) + 1 = k
      BY <1>0, <1>1
    <2>3. queue'[k - 1] = Teardown(id)
      BY <1>1, <2>1, <2>2
    <2> QED BY <2>2, <2>3 DEF TearBetween
  <1>4. ASSUME NEW i \in Nat, TearFrom(i + 1, id)
        PROVE  TearFrom(i, id)'
    <2>1. CASE id \in parked
      BY <1>0, <2>1 DEF TearFrom
    <2>2. CASE id \notin parked
      <3>1. PICK k \in (i + 1) + 1 .. Len(queue) : queue[k] = Teardown(id)
        BY <1>4, <2>2 DEF TearFrom
      <3>2. k - 1 \in i + 1 .. Len(queue') /\ k - 1 \in 1 .. Len(queue') /\ (k - 1) + 1 = k
        BY <1>0, <1>1
      <3>3. queue'[k - 1] = Teardown(id)
        BY <1>1, <3>1, <3>2
      <3> QED BY <3>2, <3>3 DEF TearFrom
    <2> QED BY <2>1, <2>2
  <1>5. QueueSeparated(id)'
    <2>1. ASSUME NEW i \in 1 .. Len(queue'), NEW j \in 1 .. Len(queue'), i < j,
                 IsBytes(i, id)', IsBytes(j, id)', queue'[i].g # queue'[j].g
          PROVE  TearBetween(i, j, id)'
      <3>1. /\ i + 1 \in 1 .. Len(queue) /\ j + 1 \in 1 .. Len(queue) /\ i + 1 < j + 1
            /\ IsBytes(i + 1, id) /\ IsBytes(j + 1, id) /\ queue[i + 1].g # queue[j + 1].g
        BY <1>0, <1>1, <1>2, <2>1
      <3>2. TearBetween(i + 1, j + 1, id)
        BY <3>1 DEF Separated, QueueSeparated
      <3>3. i \in Nat
        OBVIOUS
      <3> QED BY <1>3, <3>2, <3>3
    <2>2. ASSUME NEW i \in 1 .. Len(queue'), IsBytes(i, id)', queue'[i].g # pcb'[id]
          PROVE  TearFrom(i, id)'
      <3>1. i + 1 \in 1 .. Len(queue) /\ IsBytes(i + 1, id) /\ queue[i + 1].g # pcb[id]
        BY <1>0, <1>1, <1>2, <2>2
      <3>2. TearFrom(i + 1, id)
        BY <3>1 DEF Separated, QueueSeparated
      <3>3. i \in Nat
        OBVIOUS
      <3> QED BY <1>4, <3>2, <3>3
    <2> QED BY <2>1, <2>2 DEF QueueSeparated
  <1>6. HeldSeparated(id)'
    <2> SUFFICES ASSUME held[id] # 0, ~InHand("teardown", id)'
                 PROVE  /\ \A j \in 1 .. Len(queue') :
                             IsBytes(j, id)' /\ queue'[j].g # held[id] => TearBetween(0, j, id)'
                        /\ held[id] # pcb[id] => TearFrom(0, id)'
      BY <1>0 DEF HeldSeparated
    <2>1. queue[1] # Teardown(id)
      BY <1>0, <1>1 DEF InHand, Teardown
    <2>2. ~InHand("teardown", id)
      BY <1>0 DEF InHand
    <2>3. ASSUME NEW j \in 1 .. Len(queue'), IsBytes(j, id)', queue'[j].g # held[id]
          PROVE  TearBetween(0, j, id)'
      <3>1. j + 1 \in 1 .. Len(queue) /\ IsBytes(j + 1, id) /\ queue[j + 1].g # held[id]
        BY <1>0, <1>1, <1>2, <2>3
      <3>2. TearBetween(0, j + 1, id)
        BY <2>2, <3>1 DEF Separated, HeldSeparated
      <3>3. TearBetween(0 + 1, j + 1, id)
        <4>1. PICK k \in 0 + 1 .. (j + 1) - 1 : queue[k] = Teardown(id)
          BY <3>2 DEF TearBetween
        <4>2. k # 1 /\ k \in (0 + 1) + 1 .. (j + 1) - 1
          BY <2>1, <4>1
        <4> QED BY <4>1, <4>2 DEF TearBetween
      <3> QED BY <1>3, <3>3
    <2>4. ASSUME held[id] # pcb[id] PROVE TearFrom(0, id)'
      <3>1. TearFrom(0, id)
        BY <2>2, <2>4 DEF Separated, HeldSeparated
      <3>2. TearFrom(0 + 1, id)
        <4>1. CASE id \in parked
          BY <4>1 DEF TearFrom
        <4>2. CASE id \notin parked
          <5>1. PICK k \in 0 + 1 .. Len(queue) : queue[k] = Teardown(id)
            BY <3>1, <4>2 DEF TearFrom
          <5>2. k # 1 /\ k \in (0 + 1) + 1 .. Len(queue)
            BY <1>0, <2>1, <5>1
          <5> QED BY <5>1, <5>2 DEF TearFrom
        <4> QED BY <4>1, <4>2
      <3> QED BY <1>4, <3>2
    <2> QED BY <2>3, <2>4
  <1>7. InHandSeparated(id)'
    <2> SUFFICES ASSUME InHand("bytes", id)'
                 PROVE  /\ held[id] \in {0, cur'.g}
                        /\ \A j \in 1 .. Len(queue') :
                             IsBytes(j, id)' /\ queue'[j].g # cur'.g => TearBetween(0, j, id)'
                        /\ cur'.g # pcb[id] => TearFrom(0, id)'
      BY <1>0 DEF InHandSeparated
    <2>1. IsBytes(1, id) /\ queue[1] = cur' /\ 1 \in 1 .. Len(queue)
      BY <1>0, <1>1 DEF InHand, IsBytes
    <2>2. ~InHand("teardown", id)
      BY <1>0 DEF InHand
    <2>3. held[id] \in {0, cur'.g}
      <3>1. ~TearBetween(0, 1, id)
        BY DEF TearBetween
      <3> QED BY <2>1, <2>2, <3>1 DEF Separated, HeldSeparated
    <2>4. ASSUME NEW j \in 1 .. Len(queue'), IsBytes(j, id)', queue'[j].g # cur'.g
          PROVE  TearBetween(0, j, id)'
      <3>1. j + 1 \in 1 .. Len(queue) /\ 1 < j + 1 /\ IsBytes(j + 1, id) /\ queue[1].g # queue[j + 1].g
        BY <1>0, <1>1, <1>2, <2>1, <2>4
      <3>2. TearBetween(0 + 1, j + 1, id)
        BY <2>1, <3>1 DEF Separated, QueueSeparated
      <3> QED BY <1>3, <3>2
    <2>5. ASSUME cur'.g # pcb[id] PROVE TearFrom(0, id)'
      <3>1. TearFrom(0 + 1, id)
        BY <2>1, <2>5 DEF Separated, QueueSeparated
      <3> QED BY <1>4, <3>1
    <2> QED BY <2>3, <2>4, <2>5
  <1> QED BY <1>5, <1>6, <1>7 DEF Separated

\* Running bytes: the state becomes the sender's, or stays the sender's.
LEMMA BytesRunKeepsSeparation ==
    ASSUME TypeOK, WBytes, NEW id \in Ids, Separated(id)
    PROVE  Separated(id)'
  <1>0. /\ UNCHANGED <<queue, parked, pcb>> /\ wpc = "item" /\ wpc' = "loop"
        /\ cur.kind = "bytes" /\ cur.id \in Ids
        /\ held' = [held EXCEPT ![cur.id] = IF held[cur.id] = 0 THEN cur.g ELSE held[cur.id]]
        /\ held \in [Ids -> 0 .. MaxSession]
    BY DEF WBytes, netVars, teardownVars, TypeOK, WorkerTypeOK, Items, Teardown, ConsoleLine
  <1>1. QueueSeparated(id)'
    BY <1>0 DEF Separated, QueueSeparated, IsBytes, TearBetween, TearFrom
  <1>2. HeldSeparated(id)'
    <2>1. CASE id = cur.id
      <3>1. InHand("bytes", id)
        BY <1>0, <2>1 DEF InHand
      <3>2. held'[id] = cur.g
        BY <1>0, <2>1, <3>1 DEF Separated, InHandSeparated
      <3> QED BY <1>0, <3>1, <3>2
           DEF Separated, InHandSeparated, HeldSeparated, IsBytes, TearBetween, TearFrom
    <2>2. CASE id # cur.id
      <3>1. held'[id] = held[id] /\ ~InHand("teardown", id)
        BY <1>0, <2>2 DEF InHand
      <3> QED BY <1>0, <3>1 DEF Separated, HeldSeparated, IsBytes, TearBetween, TearFrom
    <2> QED BY <2>1, <2>2
  <1>3. InHandSeparated(id)'
    BY <1>0 DEF InHandSeparated, InHand
  <1> QED BY <1>1, <1>2, <1>3 DEF Separated

\* Running a teardown: the state is gone.
LEMMA ConnClosedKeepsSeparation ==
    ASSUME TypeOK, WConnClosed, NEW id \in Ids, Separated(id)
    PROVE  Separated(id)'
  <1>0. /\ UNCHANGED <<queue, parked, pcb>> /\ wpc' = "done" /\ cur.kind = "teardown"
        /\ held' = [held EXCEPT ![cur.id] = 0] /\ held \in [Ids -> 0 .. MaxSession]
    BY DEF WConnClosed, netVars, teardownVars, TypeOK, WorkerTypeOK
  <1>1. QueueSeparated(id)'
    BY <1>0 DEF Separated, QueueSeparated, IsBytes, TearBetween, TearFrom
  <1>2. HeldSeparated(id)'
    <2>1. CASE id = cur.id
      BY <1>0, <2>1 DEF HeldSeparated
    <2>2. CASE id # cur.id
      <3>1. held'[id] = held[id] /\ ~InHand("teardown", id)
        BY <1>0, <2>2 DEF InHand
      <3> QED BY <1>0, <3>1 DEF Separated, HeldSeparated, IsBytes, TearBetween, TearFrom
    <2> QED BY <2>1, <2>2
  <1>3. InHandSeparated(id)'
    BY <1>0 DEF InHandSeparated, InHand
  <1> QED BY <1>1, <1>2, <1>3 DEF Separated

\* Taking a parked teardown with no bytes of its slot queued.
LEMMA ScanTakeKeepsSeparation ==
    ASSUME TypeOK, WScanTake, NEW id \in Ids, id \notin overtook', Separated(id)
    PROVE  Separated(id)'
  <1>0. /\ UNCHANGED <<queue, pcb, held>> /\ wpc = "scan" /\ wpc' = "item"
        /\ parked' = parked \ {scan} /\ cur' = Teardown(scan)
    BY DEF WScanTake, netVars
  <1>1. ~InHand("bytes", id)' /\ ~InHand("teardown", id)
    BY <1>0 DEF InHand, Teardown
  <1>2. CASE id = scan
    <2>1. \A i \in 1 .. Len(queue) : ~IsBytes(i, id)
      BY <1>2 DEF WScanTake, IsBytes
    <2>2. InHand("teardown", id)'
      BY <1>0, <1>2 DEF InHand, Teardown
    <2> QED BY <1>0, <1>1, <2>1, <2>2
         DEF Separated, QueueSeparated, HeldSeparated, InHandSeparated, IsBytes
  <1>3. CASE id # scan
    <2>1. id \in parked' <=> id \in parked
      BY <1>0, <1>3
    <2>2. QueueSeparated(id)'
      BY <1>0, <2>1 DEF Separated, QueueSeparated, IsBytes, TearBetween, TearFrom
    <2>3. HeldSeparated(id)'
      BY <1>0, <1>1, <2>1 DEF Separated, HeldSeparated, IsBytes, TearBetween, TearFrom
    <2> QED BY <1>1, <2>2, <2>3 DEF Separated, InHandSeparated
  <1> QED BY <1>2, <1>3

\* Every step keeps the sessions of a slot that was not overtaken separated.
LEMMA SeparatedStep ==
    ASSUME TypeOK, SessionsSeparated, [Next]_vars
    PROVE  SessionsSeparated'
  <1> SUFFICES ASSUME NEW id \in Ids, id \notin overtook'
               PROVE  Separated(id)'
    BY DEF SessionsSeparated, Separated
  <1>0. /\ Conns \subseteq Ids /\ Tunnels \subseteq Ids
        /\ pcb \in [Ids -> 0 .. MaxSession]
    BY DEF Ids, TypeOK, NetTypeOK
  <1>0s. id \notin overtook => Separated(id)
    BY DEF SessionsSeparated, Separated
  <1>1. ASSUME NEW id0 \in Conns, Accept(id0) PROVE Separated(id)'
    <2>1. UNCHANGED <<queue, parked, held, wpc, cur>> /\ pcb[id] \in {0, pcb'[id]} /\ Separated(id)
      BY <1>0, <1>0s, <1>1 DEF Accept, FreeConn, netVars, teardownVars, workerVars
    <2> QED BY <2>1, AcceptKeepsSeparation
  <1>2. ASSUME NEW id0 \in Conns, Closed(id0) PROVE Separated(id)'
    <2>1. id0 \in Ids /\ SubmitTeardown(id0) /\ Separated(id)
      BY <1>0, <1>0s, <1>2 DEF Closed
    <2>2. UNCHANGED <<held, wpc, cur>> /\ (id # id0 => pcb'[id] = pcb[id])
      BY <1>0, <1>2 DEF Closed, workerVars
    <2> QED BY <2>1, <2>2, TeardownKeepsSeparation
  <1>3. ASSUME NEW id0 \in Conns, NEW n \in 1 .. 2, Recv(id0, n) PROVE Separated(id)'
    <2>1. /\ id0 \in Ids /\ pcb[id0] # 0 /\ Room >= n /\ Separated(id)
          /\ UNCHANGED <<pcb, parked, held, wpc, cur>>
      BY <1>0, <1>0s, <1>3 DEF Recv, workerVars
    <2>2. CASE id0 \in parked
      <3>1. UNCHANGED queue
        BY <1>3, <2>2 DEF Recv
      <3> QED BY <2>1, <3>1, AcceptKeepsSeparation
    <2>3. CASE id0 \notin parked
      <3>3. /\ queue' \in Seq(Items) /\ Len(queue') = Len(queue) + n
            /\ \A i \in 1 .. Len(queue) : queue'[i] = queue[i]
            /\ \A i \in Len(queue) + 1 .. Len(queue) + n : queue'[i] = Bytes(id0, pcb[id0])
        BY <1>3, <2>3, RecvQueue
      <3>4. Len(queue) \in Nat /\ Len(queue) <= Len(queue')
        BY <3>3, LenProperties DEF TypeOK, QueueTypeOK
      <3> QED BY <2>1, <2>3, <3>3, <3>4, BytesKeepSeparation
    <2> QED BY <2>2, <2>3
  <1>4. ASSUME NEW id0 \in Tunnels, TunnelOpen(id0) PROVE Separated(id)'
    <2>1. id0 \in Ids /\ SubmitTeardown(id0) /\ Separated(id)
      BY <1>0, <1>0s, <1>4 DEF TunnelOpen
    <2>2. UNCHANGED <<held, wpc, cur>> /\ (id # id0 => pcb'[id] = pcb[id])
      BY <1>0, <1>4 DEF TunnelOpen, workerVars
    <2> QED BY <2>1, <2>2, TeardownKeepsSeparation
  <1>5. ASSUME NEW id0 \in Tunnels, TunnelReopen(id0) PROVE Separated(id)'
    <2>1. id0 \in Ids /\ SubmitTeardown(id0) /\ Separated(id)
      BY <1>0, <1>0s, <1>5 DEF TunnelReopen
    <2>2. UNCHANGED <<held, wpc, cur>> /\ (id # id0 => pcb'[id] = pcb[id])
      BY <1>0, <1>5 DEF TunnelReopen, workerVars
    <2> QED BY <2>1, <2>2, TeardownKeepsSeparation
  <1>6. ASSUME NEW id0 \in Tunnels, TunnelData(id0) PROVE Separated(id)'
    <2>1. /\ id0 \in Ids /\ pcb[id0] # 0 /\ Room > 0 /\ id0 \notin parked /\ Separated(id)
          /\ queue' = Append(queue, Bytes(id0, pcb[id0]))
          /\ UNCHANGED <<pcb, parked, held, wpc, cur>>
      BY <1>0, <1>0s, <1>6 DEF TunnelData, Accepts, workerVars
    <2>2. queue \in Seq(Items) /\ Len(queue) \in Nat
      BY LenProperties DEF TypeOK, QueueTypeOK
    <2>3. /\ Len(queue) <= Len(queue')
          /\ \A i \in 1 .. Len(queue) : queue'[i] = queue[i]
          /\ \A i \in Len(queue) + 1 .. Len(queue') : queue'[i] = Bytes(id0, pcb[id0])
      BY <2>1, <2>2
    <2>4. queue' \in Seq(Items)
      BY <2>1, AppendBytesType
    <2> QED BY <2>1, <2>3, <2>4, BytesKeepSeparation
  <1>7. ASSUME NEW id0 \in Tunnels, TunnelClose(id0) PROVE Separated(id)'
    <2>1. id0 \in Ids /\ SubmitTeardown(id0) /\ Separated(id)
      BY <1>0, <1>0s, <1>7 DEF TunnelClose
    <2>2. UNCHANGED <<held, wpc, cur>> /\ (id # id0 => pcb'[id] = pcb[id])
      BY <1>0, <1>7 DEF TunnelClose, workerVars
    <2> QED BY <2>1, <2>2, TeardownKeepsSeparation
  <1>8. CASE Drain
    <2>1. UNCHANGED <<queue, parked, held, wpc, cur>> /\ pcb[id] \in {0, pcb'[id]} /\ Separated(id)
      BY <1>0, <1>0s, <1>8 DEF Drain, netVars, teardownVars, workerVars
    <2> QED BY <2>1, AcceptKeepsSeparation
  <1>9. CASE PollEnd
    <2>1. UNCHANGED <<queue, parked, held, wpc, cur>> /\ pcb[id] \in {0, pcb'[id]} /\ Separated(id)
      BY <1>0, <1>0s, <1>9 DEF PollEnd, netVars, teardownVars, workerVars
    <2> QED BY <2>1, AcceptKeepsSeparation
  <1>10. CASE SpinSubmit
    <2>1. /\ rx.id \in Ids /\ pcb[rx.id] # 0 /\ Room > 0 /\ rx.id \notin parked /\ Separated(id)
          /\ queue' = Append(queue, Bytes(rx.id, pcb[rx.id]))
          /\ UNCHANGED <<pcb, parked, held, wpc, cur>>
      BY <1>0, <1>0s, <1>10 DEF SpinSubmit, TypeOK, NetTypeOK, Accepts, workerVars
    <2>2. queue \in Seq(Items) /\ Len(queue) \in Nat
      BY LenProperties DEF TypeOK, QueueTypeOK
    <2>3. /\ Len(queue) <= Len(queue')
          /\ \A i \in 1 .. Len(queue) : queue'[i] = queue[i]
          /\ \A i \in Len(queue) + 1 .. Len(queue') : queue'[i] = Bytes(rx.id, pcb[rx.id])
      BY <2>1, <2>2
    <2>4. queue' \in Seq(Items)
      BY <2>1, AppendBytesType
    <2> QED BY <2>1, <2>3, <2>4, BytesKeepSeparation
  <1>11. CASE SpinAbort
    <2>1. rx.id \in Ids /\ SubmitTeardown(rx.id) /\ Separated(id)
      BY <1>0, <1>0s, <1>11 DEF SpinAbort, TypeOK, NetTypeOK
    <2>2. UNCHANGED <<held, wpc, cur>> /\ (id # rx.id => pcb'[id] = pcb[id])
      BY <1>0, <1>11 DEF SpinAbort, workerVars
    <2> QED BY <2>1, <2>2, TeardownKeepsSeparation
  <1>12. ASSUME NEW id0 \in Conns, CloseRequest(id0) PROVE Separated(id)'
    <2>1. id0 \in Ids /\ SubmitTeardown(id0) /\ Separated(id)
      BY <1>0, <1>0s, <1>12 DEF CloseRequest
    <2>2. UNCHANGED <<held, wpc, cur>> /\ (id # id0 => pcb'[id] = pcb[id])
      BY <1>0, <1>12 DEF CloseRequest, workerVars
    <2> QED BY <2>1, <2>2, TeardownKeepsSeparation
  <1>13. CASE PolicyClose
    <2>1. UNCHANGED <<queue, parked, held, wpc, cur>> /\ pcb[id] \in {0, pcb'[id]} /\ Separated(id)
      BY <1>0, <1>0s, <1>13 DEF PolicyClose, netVars, teardownVars, workerVars
    <2> QED BY <2>1, AcceptKeepsSeparation
  <1>14. CASE ConsoleSubmit
    <2>1. /\ queue' = Append(queue, ConsoleLine) /\ Separated(id)
          /\ UNCHANGED <<pcb, parked, held, wpc, cur>>
      BY <1>0s, <1>14 DEF ConsoleSubmit, netVars, workerVars
    <2>2. queue \in Seq(Items) /\ Len(queue) \in Nat
      BY LenProperties DEF TypeOK, QueueTypeOK
    <2>3. /\ Len(queue') = Len(queue) + 1
          /\ \A i \in 1 .. Len(queue) : queue'[i] = queue[i]
          /\ queue'[Len(queue) + 1] = ConsoleLine
      BY <2>1, <2>2
    <2>4. ASSUME NEW j \in 1 .. Len(queue'), IsBytes(j, id)'
          PROVE  j \in 1 .. Len(queue) /\ IsBytes(j, id) /\ queue'[j] = queue[j]
      <3>1. j # Len(queue) + 1
        BY <2>3, <2>4 DEF IsBytes, ConsoleLine
      <3>2. j \in 1 .. Len(queue)
        BY <2>2, <2>3, <3>1
      <3> QED BY <2>3, <2>4, <3>2 DEF IsBytes
    <2>5. ASSUME NEW i \in Nat, NEW j \in 1 .. Len(queue), TearBetween(i, j, id)
          PROVE  TearBetween(i, j, id)'
      BY <2>2, <2>3, <2>5 DEF TearBetween
    <2>6. ASSUME NEW i \in Nat, TearFrom(i, id) PROVE TearFrom(i, id)'
      BY <2>1, <2>2, <2>3, <2>6 DEF TearFrom
    <2>7. QueueSeparated(id)'
      <3>1. ASSUME NEW i \in 1 .. Len(queue'), NEW j \in 1 .. Len(queue'), i < j,
                   IsBytes(i, id)', IsBytes(j, id)', queue'[i].g # queue'[j].g
            PROVE  TearBetween(i, j, id)'
        <4>1. TearBetween(i, j, id) /\ j \in 1 .. Len(queue) /\ i \in Nat
          BY <2>1, <2>4, <3>1 DEF Separated, QueueSeparated
        <4> QED BY <2>5, <4>1
      <3>2. ASSUME NEW i \in 1 .. Len(queue'), IsBytes(i, id)', queue'[i].g # pcb'[id]
            PROVE  TearFrom(i, id)'
        <4>1. TearFrom(i, id) /\ i \in Nat
          BY <2>1, <2>4, <3>2 DEF Separated, QueueSeparated
        <4> QED BY <2>6, <4>1
      <3> QED BY <3>1, <3>2 DEF QueueSeparated
    <2>8. HeldSeparated(id)'
      BY <2>1, <2>4, <2>5, <2>6 DEF Separated, HeldSeparated, InHand
    <2>9. InHandSeparated(id)'
      BY <2>1, <2>4, <2>5, <2>6 DEF Separated, InHandSeparated, InHand
    <2> QED BY <2>7, <2>8, <2>9 DEF Separated
  <1>15. CASE WReceive
    BY <1>0s, <1>15, ReceiveKeepsSeparation DEF WReceive
  <1>16. CASE WConsole
    <2>1. UNCHANGED <<queue, parked, pcb, held>> /\ Separated(id)
      BY <1>0s, <1>16 DEF WConsole, netVars, teardownVars
    <2>2. ~InHand("teardown", id) /\ ~InHand("bytes", id)'
      BY <1>16 DEF WConsole, InHand
    <2> QED BY <2>1, <2>2, IdleKeepsSeparation
  <1>17. CASE WBytes
    BY <1>0s, <1>17, BytesRunKeepsSeparation DEF WBytes
  <1>18. CASE WConnClosed
    BY <1>0s, <1>18, ConnClosedKeepsSeparation DEF WConnClosed
  <1>19. CASE WTeardownDone
    <2>1. UNCHANGED <<queue, parked, pcb, held>> /\ Separated(id)
      BY <1>0s, <1>19 DEF WTeardownDone, netVars, teardownVars
    <2>2. ~InHand("teardown", id) /\ ~InHand("bytes", id)'
      BY <1>19 DEF WTeardownDone, InHand
    <2> QED BY <2>1, <2>2, IdleKeepsSeparation
  <1>20. CASE WBatchEnd
    <2>1. UNCHANGED <<queue, parked, pcb, held>> /\ Separated(id)
      BY <1>0s, <1>20 DEF WBatchEnd, netVars, teardownVars
    <2>2. ~InHand("teardown", id) /\ ~InHand("bytes", id)'
      BY <1>20 DEF WBatchEnd, InHand
    <2> QED BY <2>1, <2>2, IdleKeepsSeparation
  <1>21. CASE WApply
    <2>1. UNCHANGED <<queue, parked, pcb, held>> /\ Separated(id)
      BY <1>0s, <1>21 DEF WApply, netVars, teardownVars
    <2>2. ~InHand("teardown", id) /\ ~InHand("bytes", id)'
      BY <1>21 DEF WApply, InHand
    <2> QED BY <2>1, <2>2, IdleKeepsSeparation
  <1>22. CASE WScanTake
    <2>1. Separated(id)
      BY <1>0s, <1>22 DEF WScanTake
    <2> QED BY <1>22, <2>1, ScanTakeKeepsSeparation
  <1>23. CASE WScanSkip
    <2>1. UNCHANGED <<queue, parked, pcb, held>> /\ Separated(id)
      BY <1>0s, <1>23 DEF WScanSkip, netVars, teardownVars
    <2>2. ~InHand("teardown", id) /\ ~InHand("bytes", id)'
      BY <1>23 DEF WScanSkip, InHand
    <2> QED BY <2>1, <2>2, IdleKeepsSeparation
  <1>24. CASE WScanEnd
    <2>1. UNCHANGED <<queue, parked, pcb, held>> /\ Separated(id)
      BY <1>0s, <1>24 DEF WScanEnd, netVars, teardownVars
    <2>2. ~InHand("teardown", id) /\ ~InHand("bytes", id)'
      BY <1>24 DEF WScanEnd, InHand
    <2> QED BY <2>1, <2>2, IdleKeepsSeparation
  <1>25. CASE WPollEnd
    <2>1. UNCHANGED <<queue, parked, pcb, held>> /\ Separated(id)
      BY <1>0s, <1>25 DEF WPollEnd, netVars, teardownVars
    <2>2. ~InHand("teardown", id) /\ ~InHand("bytes", id)'
      BY <1>25 DEF WPollEnd, InHand
    <2> QED BY <2>1, <2>2, IdleKeepsSeparation
  <1>26. ASSUME NEW id0 \in Ids, WPollSend(id0) PROVE Separated(id)'
    <2>1. UNCHANGED <<queue, parked, held, wpc, cur>> /\ pcb[id] \in {0, pcb'[id]} /\ Separated(id)
      BY <1>0, <1>0s, <1>26 DEF WPollSend, netVars, teardownVars, workerVars
    <2> QED BY <2>1, AcceptKeepsSeparation
  <1>27. ASSUME NEW id0 \in Ids, WPollGiveUp(id0) PROVE Separated(id)'
    <2>1. UNCHANGED <<queue, parked, held, wpc, cur>> /\ pcb[id] \in {0, pcb'[id]} /\ Separated(id)
      BY <1>0, <1>0s, <1>27 DEF WPollGiveUp, netVars, teardownVars, workerVars
    <2> QED BY <2>1, AcceptKeepsSeparation
  <1>28. CASE UNCHANGED vars
    <2>1. UNCHANGED <<queue, parked, held, wpc, cur>> /\ pcb[id] \in {0, pcb'[id]} /\ Separated(id)
      BY <1>0, <1>0s, <1>28 DEF vars
    <2> QED BY <2>1, AcceptKeepsSeparation
  <1> QED
    BY <1>1, <1>2, <1>3, <1>4, <1>5, <1>6, <1>7, <1>8, <1>9, <1>10, <1>11, <1>12, <1>13, <1>14,
       <1>15, <1>16, <1>17, <1>18, <1>19, <1>20, <1>21, <1>22, <1>23, <1>24, <1>25, <1>26, <1>27, <1>28
       DEF Next, NetEvent, NetStep, WorkerStep, WorkerOutput

\* Nothing is queued, held or in hand at the start.
LEMMA SeparatedInit == Init => SessionsSeparated
  BY DEF Init, SessionsSeparated, QueueSeparated, HeldSeparated, InHandSeparated, InHand

\* Sessions stay separated in every behaviour.
THEOREM SeparationInvariant == Spec => []SessionsSeparated
  <1>1. TypeOK /\ SessionsSeparated /\ [Next]_vars => (TypeOK /\ SessionsSeparated)'
    BY TypeStep, SeparatedStep
  <1>2. Init => TypeOK /\ SessionsSeparated
    BY TypeInit, SeparatedInit
  <1> QED BY <1>1, <1>2, PTL DEF Spec

\* NoInheritedState for any number of slots and any queue depth: outside the overtaking
\* race, the worker never runs bytes in the state another client left behind.
THEOREM NoInheritance == Spec => []NoInheritedState
  <1>1. TypeOK /\ SessionsSeparated => NoInheritedState
    <2> SUFFICES ASSUME TypeOK, SessionsSeparated, wpc = "item", cur.kind = "bytes",
                        cur.id \notin overtook
                 PROVE  held[cur.id] \in {0, cur.g}
      BY DEF NoInheritedState
    <2>1. cur.id \in Ids
      BY DEF TypeOK, WorkerTypeOK, Items, Teardown, ConsoleLine
    <2> QED BY <2>1 DEF SessionsSeparated, InHandSeparated, InHand
  <1> QED BY <1>1, TypeCorrect, SeparationInvariant, PTL

\* StaleStateHasTeardown for any number of slots and any queue depth: the state of a
\* client that left always has a teardown coming, however full the queue was.
THEOREM NoTeardownLost == Spec => []StaleStateHasTeardown
  <1>1. TypeOK /\ SessionsSeparated => StaleStateHasTeardown
    <2> SUFFICES ASSUME TypeOK, SessionsSeparated, NEW id \in Ids \ overtook,
                        held[id] \notin {0, pcb[id]}
                 PROVE  Outstanding(id)
      BY DEF StaleStateHasTeardown
    <2>1. CASE InHand("teardown", id)
      <3>1. cur = Teardown(id)
        BY <2>1 DEF InHand, TypeOK, WorkerTypeOK, Items, Teardown, ConsoleLine
      <3> QED BY <2>1, <3>1 DEF InHand, Outstanding
    <2>2. CASE ~InHand("teardown", id)
      <3>1. TearFrom(0, id)
        BY <2>2 DEF SessionsSeparated, HeldSeparated
      <3> QED BY <3>1 DEF TearFrom, Outstanding
    <2> QED BY <2>1, <2>2
  <1> QED BY <1>1, TypeCorrect, SeparationInvariant, PTL

(***************************************************************************)
(* Why ReplyIsolation holds.  The one bit per slot that says a teardown is  *)
(* on its way (s_inflight) is right while there is at most one of them; so  *)
(* a slot is given to a new client only when nothing of the last one is     *)
(* left on the way to the worker, or with it.                               *)
(***************************************************************************)
InTeardown(id) == wpc \in {"item", "done"} /\ cur = Teardown(id)

\* At most one teardown of the slot is on its way.
OneTeardown(id) ==
    /\ \A i, j \in 1 .. Len(queue) : queue[i] = Teardown(id) /\ queue[j] = Teardown(id) => i = j
    /\ id \in parked \/ InTeardown(id) => \A i \in 1 .. Len(queue) : queue[i] # Teardown(id)
    /\ ~(id \in parked /\ InTeardown(id))

\* The bit is set for as long as one is.
Covered(id) == id \notin inflight => ~Outstanding(id)

\* Who is connected has no teardown coming, and only its own replies.
OwnReplies(id) ==
    pcb[id] # 0 => id \notin inflight /\ \A i \in 1 .. Len(ring[id]) : ring[id][i] = pcb[id]

ReplyInv ==
    \A id \in Conns \ (overtook \cup twice) : OneTeardown(id) /\ Covered(id) /\ OwnReplies(id)

\* The items of two slots differ, and a teardown differs from the rest.
LEMMA ItemsDiffer ==
    /\ \A id, jd : Teardown(id) = Teardown(jd) => id = jd
    /\ \A id, jd, g : Bytes(jd, g) # Teardown(id)
    /\ \A id : ConsoleLine # Teardown(id)
<1>1. ASSUME NEW id, NEW jd, Teardown(id) = Teardown(jd) PROVE id = jd
  <2>1. Teardown(id).id = Teardown(jd).id  BY <1>1
  <2> QED  BY <2>1 DEF Teardown
<1>2. ASSUME NEW id, NEW jd, NEW g, Bytes(jd, g) = Teardown(id) PROVE FALSE
  <2>1. Bytes(jd, g).kind = Teardown(id).kind  BY <1>2
  <2> QED  BY <2>1 DEF Teardown, Bytes
<1>3. ASSUME NEW id, ConsoleLine = Teardown(id) PROVE FALSE
  <2>1. ConsoleLine.kind = Teardown(id).kind  BY <1>3
  <2> QED  BY <2>1 DEF Teardown, ConsoleLine
<1> QED  BY <1>1, <1>2, <1>3

\* A step that leaves the slot's teardowns where they are.
LEMMA QuietKeepsOne ==
    ASSUME NEW id \in Ids, UNCHANGED <<queue, parked, inflight>>,
           InTeardown(id)' <=> InTeardown(id), OneTeardown(id), Covered(id)
    PROVE  OneTeardown(id)' /\ Covered(id)'
  BY DEF OneTeardown, Covered, Outstanding, InTeardown

\* A producer queues something else.
LEMMA AppendKeepsOne ==
    ASSUME TypeOK, NEW id \in Ids, UNCHANGED <<parked, inflight, wpc, cur>>,
           queue' \in Seq(Items), Len(queue) <= Len(queue'),
           \A i \in 1 .. Len(queue) : queue'[i] = queue[i],
           \A i \in Len(queue) + 1 .. Len(queue') : queue'[i] # Teardown(id),
           OneTeardown(id), Covered(id)
    PROVE  OneTeardown(id)' /\ Covered(id)'
<1>0. Len(queue) \in Nat /\ Len(queue') \in Nat
  BY LenProperties DEF TypeOK, QueueTypeOK
<1>1. \A i \in 1 .. Len(queue') :
         queue'[i] = Teardown(id) => i \in 1 .. Len(queue) /\ queue[i] = Teardown(id)
  BY <1>0
<1> QED  BY <1>1 DEF OneTeardown, Covered, Outstanding, InTeardown

\* submit_teardown: unless the slot had one on its way, there is one now, and the bit is set.
LEMMA SubmitKeepsOne ==
    ASSUME TypeOK, NEW id \in Ids, NEW id0 \in Ids, SubmitTeardown(id0), UNCHANGED <<wpc, cur>>,
           id \notin twice', OneTeardown(id), Covered(id)
    PROVE  OneTeardown(id)' /\ Covered(id)'
<1>0. Len(queue) \in Nat /\ queue \in Seq(Items)
  BY LenProperties DEF TypeOK, QueueTypeOK
<1>1. id = id0 => ~Outstanding(id)
  BY DEF SubmitTeardown
<1>2. inflight' = inflight \cup {id0}
  BY DEF SubmitTeardown
<1>3. CASE id0 \notin parked /\ Room > 0
  <2>1. queue' = Append(queue, Teardown(id0)) /\ parked' = parked
    BY <1>3 DEF SubmitTeardown
  <2>2. /\ Len(queue') = Len(queue) + 1 /\ queue'[Len(queue) + 1] = Teardown(id0)
        /\ \A i \in 1 .. Len(queue) : queue'[i] = queue[i]
    BY <1>0, <2>1, ItemTypes
  <2>3. \A i \in 1 .. Len(queue') :
           queue'[i] = Teardown(id) =>
               \/ i \in 1 .. Len(queue) /\ queue[i] = Teardown(id)
               \/ i = Len(queue) + 1 /\ id = id0
    BY <1>0, <2>2, ItemsDiffer
  <2>4. CASE id = id0
    BY <1>1, <1>2, <2>1, <2>3, <2>4 DEF OneTeardown, Covered, Outstanding, InTeardown
  <2>5. CASE id # id0
    BY <1>2, <2>1, <2>3, <2>5 DEF OneTeardown, Covered, Outstanding, InTeardown
  <2> QED  BY <2>4, <2>5
<1>4. CASE ~(id0 \notin parked /\ Room > 0)
  <2>1. parked' = parked \cup {id0} /\ queue' = queue
    BY <1>4 DEF SubmitTeardown
  <2>2. CASE id = id0
    BY <1>1, <1>2, <2>1, <2>2 DEF OneTeardown, Covered, Outstanding, InTeardown
  <2>3. CASE id # id0
    BY <1>2, <2>1, <2>3 DEF OneTeardown, Covered, Outstanding, InTeardown
  <2> QED  BY <2>2, <2>3
<1> QED  BY <1>3, <1>4

\* The worker takes the first item: a teardown of the slot moves from the queue to its hands.
LEMMA ReceiveKeepsOne ==
    ASSUME TypeOK, NEW id \in Ids, WReceive, OneTeardown(id), Covered(id)
    PROVE  OneTeardown(id)' /\ Covered(id)'
<1>0. /\ Len(queue) \in Nat /\ queue \in Seq(Items) /\ queue # <<>> /\ Len(queue) >= 1
      /\ cur' = queue[1] /\ queue' = Tail(queue) /\ wpc = "loop" /\ wpc' = "item"
      /\ parked' = parked /\ inflight' = inflight
  BY LenProperties, EmptySeq DEF TypeOK, QueueTypeOK, WReceive
<1>1. /\ Len(queue') = Len(queue) - 1
      /\ \A i \in 1 .. Len(queue') : i + 1 \in 1 .. Len(queue) /\ queue'[i] = queue[i + 1]
  BY <1>0, HeadTailProperties
<1>2. ~InTeardown(id)
  BY <1>0 DEF InTeardown
<1>3. InTeardown(id)' => queue[1] = Teardown(id)
  BY <1>0 DEF InTeardown
<1>4. OneTeardown(id)'
  <2>1. ASSUME NEW i \in 1 .. Len(queue'), NEW j \in 1 .. Len(queue'),
               queue'[i] = Teardown(id), queue'[j] = Teardown(id)
        PROVE  i = j
    <3>1. i + 1 = j + 1
      BY <1>1, <2>1 DEF OneTeardown
    <3>2. i \in Nat /\ j \in Nat
      BY <1>0, <1>1
    <3> QED  BY <3>1, <3>2
  <2>2. ASSUME id \in parked' \/ InTeardown(id)', NEW i \in 1 .. Len(queue')
        PROVE  queue'[i] # Teardown(id)
    <3>1. CASE id \in parked
      BY <1>1, <3>1 DEF OneTeardown
    <3>2. CASE InTeardown(id)'
      <4>1. i + 1 # 1 /\ 1 \in 1 .. Len(queue)
        BY <1>0, <1>1
      <4> QED  BY <1>1, <1>3, <3>2, <4>1 DEF OneTeardown
    <3> QED  BY <1>0, <2>2, <3>1, <3>2
  <2>3. ~(id \in parked' /\ InTeardown(id)')
    <3>1. 1 \in 1 .. Len(queue)
      BY <1>0
    <3> QED  BY <1>0, <1>3, <3>1 DEF OneTeardown
  <2> QED  BY <2>1, <2>2, <2>3 DEF OneTeardown
<1>5. Covered(id)'
  <2>1. 1 \in 1 .. Len(queue)
    BY <1>0
  <2>2. Outstanding(id)' => Outstanding(id)
    BY <1>0, <1>1, <1>3, <2>1 DEF Outstanding, InTeardown
  <2> QED  BY <1>0, <2>2 DEF Covered
<1> QED  BY <1>4, <1>5

\* teardown_done clears the bit of the one teardown there was.
LEMMA DoneKeepsOne ==
    ASSUME TypeOK, NEW id \in Ids, WTeardownDone, OneTeardown(id), Covered(id)
    PROVE  OneTeardown(id)' /\ Covered(id)'
<1>1. /\ UNCHANGED <<queue, parked, cur>> /\ wpc = "done" /\ wpc' \in {"scan", "loop"}
      /\ inflight' = inflight \ {cur.id} /\ cur.kind = "teardown" /\ cur \in Items
  BY DEF WTeardownDone, TypeOK, WorkerTypeOK
<1>2. cur = Teardown(cur.id)
  BY <1>1 DEF Items, Teardown, ConsoleLine
<1>3. ~InTeardown(id)'
  BY <1>1 DEF InTeardown
<1>4. OneTeardown(id)'
  BY <1>1, <1>3 DEF OneTeardown
<1>5. CASE cur.id = id
  BY <1>1, <1>2, <1>3, <1>4, <1>5 DEF OneTeardown, Covered, Outstanding, InTeardown
<1>6. CASE cur.id # id
  BY <1>1, <1>3, <1>4, <1>6 DEF Covered, Outstanding, InTeardown
<1> QED  BY <1>4, <1>5, <1>6

\* apply_parked_teardowns takes a parked one into its hands.
LEMMA ScanKeepsOne ==
    ASSUME TypeOK, NEW id \in Ids, WScanTake, OneTeardown(id), Covered(id)
    PROVE  OneTeardown(id)' /\ Covered(id)'
<1>1. /\ UNCHANGED <<queue, inflight>> /\ wpc = "scan" /\ wpc' = "item" /\ scan \in parked
      /\ parked' = parked \ {scan} /\ cur' = Teardown(scan)
  BY DEF WScanTake
<1>2. InTeardown(id)' <=> id = scan
  BY <1>1, ItemsDiffer DEF InTeardown
<1>3. ~InTeardown(id)
  BY <1>1 DEF InTeardown
<1> QED  BY <1>1, <1>2, <1>3 DEF OneTeardown, Covered, Outstanding, InTeardown

\* What the worker has of a connected slot is of the client that is there.
LEMMA WorkerHasOwn ==
    ASSUME TypeOK, SessionsSeparated, NEW id \in Conns, id \notin overtook, pcb[id] # 0,
           Covered(id), OwnReplies(id)
    PROVE  /\ held[id] \in {0, pcb[id]}
           /\ InHand("bytes", id) => cur.g = pcb[id]
<1>0. id \in Ids /\ ~Outstanding(id) /\ QueueSeparated(id) /\ HeldSeparated(id) /\ InHandSeparated(id)
  BY DEF Ids, Covered, OwnReplies, SessionsSeparated
<1>1. ~TearFrom(0, id)
  BY <1>0 DEF TearFrom, Outstanding
<1>2. ~InHand("teardown", id)
  BY <1>0 DEF InHand, Outstanding, TypeOK, WorkerTypeOK, Items, Teardown, ConsoleLine
<1> QED  BY <1>0, <1>1, <1>2 DEF HeldSeparated, InHandSeparated

\* A submitted teardown belongs to a slot without a client, or to another slot.
LEMMA SubmitKeepsOwn ==
    ASSUME NEW id \in Ids, NEW id0 \in Ids, SubmitTeardown(id0), pcb'[id] \in {0, pcb[id]},
           id = id0 => pcb'[id] = 0, id # id0 => ring'[id] = ring[id], OwnReplies(id)
    PROVE  OwnReplies(id)'
  BY DEF OwnReplies, SubmitTeardown

\* net_tx_drain only takes replies away.
LEMMA DrainKeepsOwn ==
    ASSUME TypeOK, Drain, NEW id \in Ids, OwnReplies(id)
    PROVE  OwnReplies(id)'
<1>1. /\ UNCHANGED <<pcb, inflight>>
      /\ MayRemain(id, ring'[id])
  BY DEF Drain, teardownVars
<1>2. ring[id] \in Seq(Sessions) /\ Len(ring[id]) \in Nat
  BY LenProperties DEF TypeOK, ReplyTypeOK
<1>3. \/ ring'[id] = ring[id]
      \/ \E n \in 0 .. Len(ring[id]) : ring'[id] = SubSeq(ring[id], n + 1, Len(ring[id]))
  BY <1>1, <1>2 DEF MayRemain
<1>4. CASE ring'[id] = ring[id]
  BY <1>1, <1>4 DEF OwnReplies
<1>5. ASSUME NEW n \in 0 .. Len(ring[id]), ring'[id] = SubSeq(ring[id], n + 1, Len(ring[id]))
      PROVE  OwnReplies(id)'
  <2>1. \A i \in n + 1 .. Len(ring[id]) : ring[id][i] \in Sessions
    BY <1>2, ElementOfSeq
  <2>2. /\ Len(ring'[id]) = Len(ring[id]) - n
        /\ \A i \in 1 .. Len(ring[id]) - n : ring'[id][i] = ring[id][n + i]
    BY <1>2, <1>5, <2>1, SubSeqProperties
  <2>3. \A i \in 1 .. Len(ring'[id]) : n + i \in 1 .. Len(ring[id]) /\ ring'[id][i] = ring[id][n + i]
    BY <1>2, <2>2
  <2> QED  BY <1>1, <2>3 DEF OwnReplies
<1> QED  BY <1>3, <1>4, <1>5

\* A reply of the client on the slot is put into its ring.
LEMMA AppendKeepsOwn ==
    ASSUME TypeOK, NEW id \in Ids, NEW id0 \in Ids, NEW g \in Sessions, UNCHANGED <<pcb, inflight>>,
           ring' = [ring EXCEPT ![id0] = Append(@, g)], id = id0 /\ pcb[id] # 0 => g = pcb[id],
           OwnReplies(id)
    PROVE  OwnReplies(id)'
<1>1. ring \in [Ids -> Seq(Sessions)] /\ ring[id] \in Seq(Sessions) /\ Len(ring[id]) \in Nat
  BY LenProperties DEF TypeOK, ReplyTypeOK
<1>2. CASE id # id0
  BY <1>1, <1>2 DEF OwnReplies
<1>3. CASE id = id0
  <2>1. ring'[id] = Append(ring[id], g)
    BY <1>1, <1>3
  <2>2. /\ Len(ring'[id]) = Len(ring[id]) + 1 /\ ring'[id][Len(ring[id]) + 1] = g
        /\ \A i \in 1 .. Len(ring[id]) : ring'[id][i] = ring[id][i]
    BY <1>1, <2>1, AppendProperties
  <2>3. \A i \in 1 .. Len(ring'[id]) : i \in 1 .. Len(ring[id]) \/ i = Len(ring[id]) + 1
    BY <1>1, <2>2
  <2> QED  BY <1>3, <2>2, <2>3 DEF OwnReplies
<1> QED  BY <1>2, <1>3

\* The exceptions of a behaviour are never taken back.
LEMMA ExceptionsGrow == [Next]_vars => overtook \subseteq overtook' /\ twice \subseteq twice'
  BY DEF Next, NetEvent, NetStep, WorkerStep, WorkerOutput, Accept, Closed, Recv, TunnelOpen,
         TunnelReopen, TunnelData, TunnelClose, Drain, PollEnd, SpinSubmit, SpinAbort, CloseRequest,
         PolicyClose, ConsoleSubmit, WReceive, WConsole, WBytes, WConnClosed, WTeardownDone, WBatchEnd,
         WApply, WScanTake, WScanSkip, WScanEnd, WPollSend, WPollGiveUp, WPollEnd, SubmitTeardown,
         teardownVars, vars

\* Every step keeps a slot's replies with its client.
LEMMA ReplyStep ==
    ASSUME TypeOK, SessionsSeparated, ReplyInv, [Next]_vars
    PROVE  ReplyInv'
<1> SUFFICES ASSUME NEW id \in Conns, id \notin overtook' \cup twice'
             PROVE  (OneTeardown(id) /\ Covered(id))' /\ OwnReplies(id)'
  BY DEF ReplyInv
<1>0. /\ Conns \subseteq Ids /\ Tunnels \subseteq Ids /\ id \in Ids /\ id \notin Tunnels
      /\ pcb \in [Ids -> 0 .. MaxSession] /\ ring \in [Ids -> Seq(Sessions)]
      /\ queue \in Seq(Items) /\ Len(queue) \in Nat
  BY SlotAssumption, LenProperties DEF Ids, TypeOK, NetTypeOK, ReplyTypeOK, QueueTypeOK
<1>i. id \notin overtook /\ OneTeardown(id) /\ Covered(id) /\ OwnReplies(id)
  BY ExceptionsGrow DEF ReplyInv
<1>q. ASSUME NEW x \in Items, queue' = Append(queue, x), x # Teardown(id),
             UNCHANGED <<parked, inflight, wpc, cur>>
      PROVE  (OneTeardown(id) /\ Covered(id))'
  <2>1. /\ queue' \in Seq(Items) /\ Len(queue') = Len(queue) + 1 /\ queue'[Len(queue) + 1] = x
        /\ \A i \in 1 .. Len(queue) : queue'[i] = queue[i]
    BY <1>0, <1>q, AppendProperties
  <2>2. Len(queue) <= Len(queue') /\ \A i \in Len(queue) + 1 .. Len(queue') : queue'[i] # Teardown(id)
    BY <1>0, <1>q, <2>1
  <2> QED  BY <1>0, <1>i, <1>q, <2>1, <2>2, AppendKeepsOne
<1>1. ASSUME NEW id0 \in Conns, Accept(id0)
      PROVE  (OneTeardown(id) /\ Covered(id))' /\ OwnReplies(id)'
  <2>1. UNCHANGED <<queue, parked, inflight>> /\ (InTeardown(id)' <=> InTeardown(id))
    BY <1>1 DEF Accept, InTeardown, teardownVars, workerVars, Teardown
  <2>2. CASE id = id0
    <3>1. ring'[id] = <<>> /\ id \notin inflight'
      BY <1>0, <1>1, <2>1, <2>2 DEF Accept, FreeConn
    <3> QED  BY <1>0, <1>i, <2>1, <3>1, QuietKeepsOne DEF OwnReplies
  <2>3. CASE id # id0
    <3>1. pcb'[id] = pcb[id] /\ ring'[id] = ring[id]
      BY <1>0, <1>1, <2>3 DEF Accept
    <3> QED  BY <1>0, <1>i, <2>1, <3>1, QuietKeepsOne DEF OwnReplies
  <2>4. OwnReplies(id)'
    BY <2>2, <2>3
  <2> QED  BY <1>0, <1>i, <2>1, <2>4, QuietKeepsOne
<1>2. ASSUME NEW id0 \in Conns, Closed(id0)
      PROVE  (OneTeardown(id) /\ Covered(id))' /\ OwnReplies(id)'
  <2>1. id0 \in Ids /\ SubmitTeardown(id0) /\ UNCHANGED <<wpc, cur>>
    BY <1>0, <1>2 DEF Closed, workerVars
  <2>2. pcb'[id] \in {0, pcb[id]}
        /\ (id = id0 => pcb'[id] = 0) /\ (id # id0 => ring'[id] = ring[id])
    BY <1>0, <1>2 DEF Closed
  <2> QED  BY <1>0, <1>i, <2>1, <2>2, SubmitKeepsOne, SubmitKeepsOwn
<1>3. ASSUME NEW id0 \in Conns, NEW n \in 1 .. 2, Recv(id0, n)
      PROVE  (OneTeardown(id) /\ Covered(id))' /\ OwnReplies(id)'
  <2>1. UNCHANGED <<parked, inflight, wpc, cur, pcb, ring>>
    BY <1>3 DEF Recv, workerVars
  <2>2. OwnReplies(id)'
    BY <1>i, <2>1 DEF OwnReplies
  <2>3. CASE id0 \in parked
    <3>1. queue' = queue
      BY <1>3, <2>3 DEF Recv
    <3>2. InTeardown(id)' <=> InTeardown(id)
      BY <2>1 DEF InTeardown
    <3> QED  BY <1>0, <1>i, <2>1, <2>2, <3>1, <3>2, QuietKeepsOne
  <2>4. CASE id0 \notin parked
    <3>1. /\ queue' \in Seq(Items) /\ Len(queue') = Len(queue) + n
          /\ \A i \in 1 .. Len(queue) : queue'[i] = queue[i]
          /\ \A i \in Len(queue) + 1 .. Len(queue) + n : queue'[i] = Bytes(id0, pcb[id0])
      BY <1>3, <2>4, RecvQueue
    <3>2. Len(queue) <= Len(queue')
      BY <1>0, <3>1
    <3>3. \A i \in Len(queue) + 1 .. Len(queue') : queue'[i] # Teardown(id)
      BY <3>1, ItemsDiffer
    <3> QED  BY <1>0, <1>i, <2>1, <2>2, <3>1, <3>2, <3>3, AppendKeepsOne
  <2> QED  BY <2>3, <2>4
<1>4. ASSUME NEW id0 \in Tunnels, TunnelOpen(id0)
      PROVE  (OneTeardown(id) /\ Covered(id))' /\ OwnReplies(id)'
  <2>1. id0 \in Ids /\ SubmitTeardown(id0) /\ UNCHANGED <<wpc, cur>>
    BY <1>0, <1>4 DEF TunnelOpen, workerVars
  <2>2. pcb'[id] \in {0, pcb[id]}
        /\ (id = id0 => pcb'[id] = 0) /\ (id # id0 => ring'[id] = ring[id])
    BY <1>0, <1>4 DEF TunnelOpen
  <2> QED  BY <1>0, <1>i, <2>1, <2>2, SubmitKeepsOne, SubmitKeepsOwn
<1>5. ASSUME NEW id0 \in Tunnels, TunnelReopen(id0)
      PROVE  (OneTeardown(id) /\ Covered(id))' /\ OwnReplies(id)'
  <2>1. id0 \in Ids /\ SubmitTeardown(id0) /\ UNCHANGED <<wpc, cur>>
    BY <1>0, <1>5 DEF TunnelReopen, workerVars
  <2>2. pcb'[id] \in {0, pcb[id]}
        /\ (id = id0 => pcb'[id] = 0) /\ (id # id0 => ring'[id] = ring[id])
    BY <1>0, <1>5 DEF TunnelReopen
  <2> QED  BY <1>0, <1>i, <2>1, <2>2, SubmitKeepsOne, SubmitKeepsOwn
<1>6. ASSUME NEW id0 \in Tunnels, TunnelData(id0)
      PROVE  (OneTeardown(id) /\ Covered(id))' /\ OwnReplies(id)'
  <2>1. queue' = Append(queue, Bytes(id0, pcb[id0])) /\ UNCHANGED <<parked, inflight, wpc, cur, pcb, ring>>
    BY <1>6 DEF TunnelData, workerVars, netVars
  <2>2. Bytes(id0, pcb[id0]) \in Items /\ Bytes(id0, pcb[id0]) # Teardown(id)
    <3>1. id0 \in Ids /\ pcb[id0] \in Sessions
      BY <1>0, <1>6, BoundAssumption DEF TunnelData, Sessions
    <3> QED  BY <3>1, ItemTypes, ItemsDiffer
  <2>3. OwnReplies(id)'
    BY <1>i, <2>1 DEF OwnReplies
  <2> QED  BY <1>q, <2>1, <2>2, <2>3
<1>7. ASSUME NEW id0 \in Tunnels, TunnelClose(id0)
      PROVE  (OneTeardown(id) /\ Covered(id))' /\ OwnReplies(id)'
  <2>1. id0 \in Ids /\ SubmitTeardown(id0) /\ UNCHANGED <<wpc, cur>>
    BY <1>0, <1>7 DEF TunnelClose, workerVars
  <2>2. pcb'[id] \in {0, pcb[id]}
        /\ (id = id0 => pcb'[id] = 0) /\ (id # id0 => ring'[id] = ring[id])
    BY <1>0, <1>7 DEF TunnelClose
  <2> QED  BY <1>0, <1>i, <2>1, <2>2, SubmitKeepsOne, SubmitKeepsOwn
<1>8. CASE Drain
  <2>1. UNCHANGED <<queue, parked, inflight>> /\ (InTeardown(id)' <=> InTeardown(id))
    BY <1>8 DEF Drain, InTeardown, teardownVars, workerVars, Teardown
  <2>3. OwnReplies(id)'
    BY <1>0, <1>i, <1>8, DrainKeepsOwn
  <2> QED  BY <1>0, <1>i, <2>1, <2>3, QuietKeepsOne
<1>9. CASE PollEnd
  <2>1. UNCHANGED <<queue, parked, inflight>> /\ (InTeardown(id)' <=> InTeardown(id))
    BY <1>9 DEF PollEnd, InTeardown, teardownVars, workerVars, Teardown
  <2>2. pcb' = pcb /\ ring' = ring
    BY <1>9 DEF PollEnd, netVars
  <2>3. OwnReplies(id)'
    BY <1>i, <2>1, <2>2 DEF OwnReplies
  <2> QED  BY <1>0, <1>i, <2>1, <2>3, QuietKeepsOne
<1>10. CASE SpinSubmit
  <2>1. queue' = Append(queue, Bytes(rx.id, pcb[rx.id])) /\ UNCHANGED <<parked, inflight, wpc, cur, pcb, ring>>
    BY <1>10 DEF SpinSubmit, workerVars, netVars
  <2>2. Bytes(rx.id, pcb[rx.id]) \in Items /\ Bytes(rx.id, pcb[rx.id]) # Teardown(id)
    <3>1. rx.id \in Ids /\ pcb[rx.id] \in Sessions
      BY <1>0, <1>10, BoundAssumption DEF SpinSubmit, TypeOK, NetTypeOK, Sessions
    <3> QED  BY <3>1, ItemTypes, ItemsDiffer
  <2>3. OwnReplies(id)'
    BY <1>i, <2>1 DEF OwnReplies
  <2> QED  BY <1>q, <2>1, <2>2, <2>3
<1>11. CASE SpinAbort
  <2>1. rx.id \in Ids /\ SubmitTeardown(rx.id) /\ UNCHANGED <<wpc, cur>>
    BY <1>0, <1>11 DEF SpinAbort, workerVars, TypeOK, NetTypeOK
  <2>2. pcb'[id] \in {0, pcb[id]}
        /\ (id = rx.id => pcb'[id] = 0) /\ (id # rx.id => ring'[id] = ring[id])
    BY <1>0, <1>11 DEF SpinAbort, TypeOK, NetTypeOK
  <2> QED  BY <1>0, <1>i, <2>1, <2>2, SubmitKeepsOne, SubmitKeepsOwn
<1>12. ASSUME NEW id0 \in Conns, CloseRequest(id0)
      PROVE  (OneTeardown(id) /\ Covered(id))' /\ OwnReplies(id)'
  <2>1. id0 \in Ids /\ SubmitTeardown(id0) /\ UNCHANGED <<wpc, cur>>
    BY <1>0, <1>12 DEF CloseRequest, workerVars
  <2>2. pcb'[id] \in {0, pcb[id]}
        /\ (id = id0 => pcb'[id] = 0) /\ (id # id0 => ring'[id] = ring[id])
    BY <1>0, <1>12 DEF CloseRequest
  <2> QED  BY <1>0, <1>i, <2>1, <2>2, SubmitKeepsOne, SubmitKeepsOwn
<1>13. CASE PolicyClose
  <2>1. UNCHANGED <<queue, parked, inflight>> /\ (InTeardown(id)' <=> InTeardown(id))
    BY <1>13 DEF PolicyClose, InTeardown, teardownVars, workerVars, Teardown
  <2>2. pcb' = pcb /\ ring' = ring
    BY <1>13 DEF PolicyClose, netVars
  <2>3. OwnReplies(id)'
    BY <1>i, <2>1, <2>2 DEF OwnReplies
  <2> QED  BY <1>0, <1>i, <2>1, <2>3, QuietKeepsOne
<1>14. CASE ConsoleSubmit
  <2>1. queue' = Append(queue, ConsoleLine) /\ UNCHANGED <<parked, inflight, wpc, cur, pcb, ring>>
    BY <1>14 DEF ConsoleSubmit, workerVars, netVars
  <2>2. ConsoleLine \in Items /\ ConsoleLine # Teardown(id)
    BY ItemTypes, ItemsDiffer
  <2>3. OwnReplies(id)'
    BY <1>i, <2>1 DEF OwnReplies
  <2> QED  BY <1>q, <2>1, <2>2, <2>3
<1>15. CASE WReceive
  <2>1. pcb' = pcb /\ ring' = ring /\ inflight' \subseteq inflight
    BY <1>15 DEF WReceive, netVars
  <2>2. OwnReplies(id)'
    BY <1>i, <2>1 DEF OwnReplies
  <2> QED  BY <1>0, <1>i, <1>15, <2>2, ReceiveKeepsOne
<1>16. CASE WTeardownDone
  <2>1. pcb' = pcb /\ ring' = ring /\ inflight' \subseteq inflight
    BY <1>16 DEF WTeardownDone, netVars
  <2>2. OwnReplies(id)'
    BY <1>i, <2>1 DEF OwnReplies
  <2> QED  BY <1>0, <1>i, <1>16, <2>2, DoneKeepsOne
<1>17. CASE WScanTake
  <2>1. pcb' = pcb /\ ring' = ring /\ inflight' \subseteq inflight
    BY <1>17 DEF WScanTake, netVars
  <2>2. OwnReplies(id)'
    BY <1>i, <2>1 DEF OwnReplies
  <2> QED  BY <1>0, <1>i, <1>17, <2>2, ScanKeepsOne
<1>18. CASE WConsole
  <2>1. UNCHANGED <<queue, parked, inflight>> /\ (InTeardown(id)' <=> InTeardown(id))
    BY <1>18 DEF WConsole, InTeardown, teardownVars, workerVars, Teardown
  <2>2. pcb' = pcb /\ ring' = ring
    BY <1>18 DEF WConsole, netVars
  <2>3. OwnReplies(id)'
    BY <1>i, <2>1, <2>2 DEF OwnReplies
  <2> QED  BY <1>0, <1>i, <2>1, <2>3, QuietKeepsOne
<1>19. CASE WBytes
  <2>1. UNCHANGED <<queue, parked, inflight>> /\ (InTeardown(id)' <=> InTeardown(id))
    BY <1>19 DEF WBytes, InTeardown, teardownVars, workerVars, Teardown
  <2>2. cur.id \in Ids /\ cur.g \in Sessions /\ UNCHANGED <<pcb, inflight>>
    BY <1>19 DEF WBytes, TypeOK, WorkerTypeOK, Items, Teardown, ConsoleLine, netVars, teardownVars
  <2>3. OwnReplies(id)'
    <3>1. CASE UNCHANGED ring
      BY <1>i, <2>2, <3>1 DEF OwnReplies
    <3>2. CASE ring' = [ring EXCEPT ![cur.id] = Append(@, cur.g)]
      <4>1. id = cur.id /\ pcb[id] # 0 => cur.g = pcb[id]
        BY <1>0, <1>i, <1>19, WorkerHasOwn DEF WBytes, InHand
      <4> QED  BY <1>0, <1>i, <2>2, <3>2, <4>1, AppendKeepsOwn
    <3> QED  BY <1>19, <3>1, <3>2 DEF WBytes
  <2> QED  BY <1>0, <1>i, <2>1, <2>3, QuietKeepsOne
<1>20. CASE WConnClosed
  <2>1. UNCHANGED <<queue, parked, inflight>> /\ (InTeardown(id)' <=> InTeardown(id))
    BY <1>20 DEF WConnClosed, InTeardown, teardownVars, workerVars, Teardown
  <2>2. pcb' = pcb /\ ring' = ring
    BY <1>20 DEF WConnClosed, netVars
  <2>3. OwnReplies(id)'
    BY <1>i, <2>1, <2>2 DEF OwnReplies
  <2> QED  BY <1>0, <1>i, <2>1, <2>3, QuietKeepsOne
<1>21. CASE WBatchEnd
  <2>1. UNCHANGED <<queue, parked, inflight>> /\ (InTeardown(id)' <=> InTeardown(id))
    BY <1>21 DEF WBatchEnd, InTeardown, teardownVars, workerVars, Teardown
  <2>2. pcb' = pcb /\ ring' = ring
    BY <1>21 DEF WBatchEnd, netVars
  <2>3. OwnReplies(id)'
    BY <1>i, <2>1, <2>2 DEF OwnReplies
  <2> QED  BY <1>0, <1>i, <2>1, <2>3, QuietKeepsOne
<1>22. CASE WApply
  <2>1. UNCHANGED <<queue, parked, inflight>> /\ (InTeardown(id)' <=> InTeardown(id))
    BY <1>22 DEF WApply, InTeardown, teardownVars, workerVars, Teardown
  <2>2. pcb' = pcb /\ ring' = ring
    BY <1>22 DEF WApply, netVars
  <2>3. OwnReplies(id)'
    BY <1>i, <2>1, <2>2 DEF OwnReplies
  <2> QED  BY <1>0, <1>i, <2>1, <2>3, QuietKeepsOne
<1>23. CASE WScanSkip
  <2>1. UNCHANGED <<queue, parked, inflight>> /\ (InTeardown(id)' <=> InTeardown(id))
    BY <1>23 DEF WScanSkip, InTeardown, teardownVars, workerVars, Teardown
  <2>2. pcb' = pcb /\ ring' = ring
    BY <1>23 DEF WScanSkip, netVars
  <2>3. OwnReplies(id)'
    BY <1>i, <2>1, <2>2 DEF OwnReplies
  <2> QED  BY <1>0, <1>i, <2>1, <2>3, QuietKeepsOne
<1>24. CASE WScanEnd
  <2>1. UNCHANGED <<queue, parked, inflight>> /\ (InTeardown(id)' <=> InTeardown(id))
    BY <1>24 DEF WScanEnd, InTeardown, teardownVars, workerVars, Teardown
  <2>2. pcb' = pcb /\ ring' = ring
    BY <1>24 DEF WScanEnd, netVars
  <2>3. OwnReplies(id)'
    BY <1>i, <2>1, <2>2 DEF OwnReplies
  <2> QED  BY <1>0, <1>i, <2>1, <2>3, QuietKeepsOne
<1>25. CASE WPollEnd
  <2>1. UNCHANGED <<queue, parked, inflight>> /\ (InTeardown(id)' <=> InTeardown(id))
    BY <1>25 DEF WPollEnd, InTeardown, teardownVars, workerVars, Teardown
  <2>2. pcb' = pcb /\ ring' = ring
    BY <1>25 DEF WPollEnd, netVars
  <2>3. OwnReplies(id)'
    BY <1>i, <2>1, <2>2 DEF OwnReplies
  <2> QED  BY <1>0, <1>i, <2>1, <2>3, QuietKeepsOne
<1>26. ASSUME NEW id0 \in Ids, WPollSend(id0)
      PROVE  (OneTeardown(id) /\ Covered(id))' /\ OwnReplies(id)'
  <2>1. UNCHANGED <<queue, parked, inflight>> /\ (InTeardown(id)' <=> InTeardown(id))
    BY <1>26 DEF WPollSend, InTeardown, teardownVars, workerVars, Teardown
  <2>2. held[id0] \in Sessions /\ UNCHANGED <<pcb, inflight>>
    BY <1>26, BoundAssumption DEF WPollSend, TypeOK, WorkerTypeOK, Sessions, netVars, teardownVars
  <2>3. OwnReplies(id)'
    <3>1. ring' = [ring EXCEPT ![id0] = Append(@, held[id0])] /\ held[id0] # 0
      BY <1>26 DEF WPollSend
    <3>2. id = id0 /\ pcb[id] # 0 => held[id0] = pcb[id]
      BY <1>0, <1>i, <3>1, WorkerHasOwn
    <3> QED  BY <1>0, <1>i, <2>2, <3>1, <3>2, AppendKeepsOwn
  <2> QED  BY <1>0, <1>i, <2>1, <2>3, QuietKeepsOne
<1>27. ASSUME NEW id0 \in Ids, WPollGiveUp(id0)
      PROVE  (OneTeardown(id) /\ Covered(id))' /\ OwnReplies(id)'
  <2>1. UNCHANGED <<queue, parked, inflight>> /\ (InTeardown(id)' <=> InTeardown(id))
    BY <1>27 DEF WPollGiveUp, InTeardown, teardownVars, workerVars, Teardown
  <2>2. pcb' = pcb /\ ring' = ring
    BY <1>27 DEF WPollGiveUp, netVars
  <2>3. OwnReplies(id)'
    BY <1>i, <2>1, <2>2 DEF OwnReplies
  <2> QED  BY <1>0, <1>i, <2>1, <2>3, QuietKeepsOne
<1>28. CASE UNCHANGED vars
  <2>1. UNCHANGED <<queue, parked, inflight>> /\ (InTeardown(id)' <=> InTeardown(id))
    BY <1>28 DEF vars, InTeardown, teardownVars, workerVars, Teardown
  <2>2. pcb' = pcb /\ ring' = ring
    BY <1>28 DEF vars, netVars
  <2>3. OwnReplies(id)'
    BY <1>i, <2>1, <2>2 DEF OwnReplies
  <2> QED  BY <1>0, <1>i, <2>1, <2>3, QuietKeepsOne
<1> QED
  BY <1>1, <1>2, <1>3, <1>4, <1>5, <1>6, <1>7, <1>8, <1>9, <1>10, <1>11, <1>12, <1>13, <1>14,
     <1>15, <1>16, <1>17, <1>18, <1>19, <1>20, <1>21, <1>22, <1>23, <1>24, <1>25, <1>26, <1>27, <1>28
     DEF Next, NetEvent, NetStep, WorkerStep, WorkerOutput

\* ReplyIsolation for any number of slots and any depth of queue and rings: outside the two
\* races, what a connection is sent answers its own client.
THEOREM RepliesIsolated == Spec => []ReplyIsolation
<1>1. Init => TypeOK /\ SessionsSeparated /\ ReplyInv
  <2>1. Init => ReplyInv
    BY DEF Init, ReplyInv, OneTeardown, Covered, Outstanding, InTeardown, OwnReplies, Ids
  <2> QED  BY <2>1, TypeInit, SeparatedInit
<1>2. TypeOK /\ SessionsSeparated /\ ReplyInv /\ [Next]_vars
          => (TypeOK /\ SessionsSeparated /\ ReplyInv)'
  BY TypeStep, SeparatedStep, ReplyStep
<1>3. ReplyInv => ReplyIsolation
  BY DEF ReplyInv, OwnReplies, ReplyIsolation, RepliesAreOwn
<1> QED  BY <1>1, <1>2, <1>3, PTL DEF Spec
================================================================================
