--------------------------------- MODULE CanBus ---------------------------------
(***************************************************************************)
(* can_bus.c and command_handler_can.c: the FDCAN core, its interrupt, which *)
(* moves received frames into a ring and answers the ones a rule matches,    *)
(* and the hardware worker, which the interrupt may cut short at any step.   *)
(* A frame either matches the responder's rule or it does not.               *)
(***************************************************************************)
EXTENDS Naturals, Sequences

CONSTANTS RxRing,           \* CAN_RX_RING
          RxFifo, TxFifo,   \* the core's FIFOs
          MaxFrames, MaxSends, MaxBusOffs, MaxConfigs

ConstantsOK == /\ {RxRing, RxFifo, TxFifo} \subseteq Nat \ {0}
               /\ {MaxFrames, MaxSends, MaxBusOffs, MaxConfigs} \subseteq Nat

VARIABLES
    core,                       \* "off", "on", "busoff" (PSR.BO, CCCR.INIT), "rejoining" (PSR.BO, INIT cleared)
    hwRx, tput, tget,           \* RX FIFO 0; frames put into the TX FIFO, frames that left it
    irqOn, boIrq,               \* the interrupt is enabled; bus-off is to be reported
    s_enabled, s_rx_head, s_rx_tail, s_ring, s_rx_overflow, rule,
    wk,                         \* the worker: where it is, the put index it read, the interrupt as it found it
    taken, read,                \* ghosts: the frames the interrupt took since can_configure, those read
    accepted,                   \* ghost: the frames accepted for sending
    unheard,                    \* ghost: bus-off was reported before s_enabled, or not at all
    unanswered,                 \* ghost: a matching frame was taken and no answer tried
    frames, busOffs, configs

cnVars == <<core, hwRx, tput, tget, irqOn, boIrq, s_enabled, s_rx_head, s_rx_tail, s_ring, s_rx_overflow, rule, wk,
            taken, read, accepted, unheard, unanswered, frames, busOffs, configs>>
cnCore == <<core, boIrq, unheard>>
cnRing == <<s_rx_head, s_rx_tail, s_ring, s_rx_overflow, taken, read>>
cnTx == <<tput, tget, accepted>>
cnGhost == <<unanswered, frames, busOffs, configs>>

Idle == [pc |-> "idle", put |-> 0, was |-> FALSE]
Frames == [n : 1 .. MaxFrames, match : BOOLEAN]

TypeOK ==
    /\ core \in {"off", "on", "busoff", "rejoining"} /\ hwRx \in Seq(Frames) /\ Len(hwRx) <= RxFifo
    /\ tput \in 0 .. 2 * MaxSends + MaxFrames /\ tget \in 0 .. tput /\ tput - tget <= TxFifo
    /\ {irqOn, boIrq, s_enabled, rule, unheard, unanswered} \subseteq BOOLEAN
    /\ {s_rx_head, s_rx_tail} \subseteq 0 .. RxRing - 1 /\ s_rx_overflow \in 0 .. 2 * MaxFrames
    /\ wk.pc \in {"idle", "up", "tx", "pop", "adv"}
    /\ frames \in 0 .. MaxFrames /\ busOffs \in 0 .. MaxBusOffs /\ configs \in 0 .. MaxConfigs

\* can_bus_init.
Init ==
    /\ core = "off" /\ hwRx = <<>> /\ tput = 0 /\ tget = 0 /\ irqOn = FALSE /\ boIrq = FALSE /\ s_enabled = FALSE
    /\ s_rx_head = 0 /\ s_rx_tail = 0 /\ s_ring = [i \in 0 .. RxRing - 1 |-> 0] /\ s_rx_overflow = 0
    /\ rule = FALSE /\ wk = Idle /\ taken = <<>> /\ read = <<>> /\ accepted = 0 /\ unheard = FALSE
    /\ unanswered = FALSE /\ frames = 0 /\ busOffs = 0 /\ configs = 0
--------------------------------------------------------------------------------
(* The interrupt: never cut short by the worker, held off while it is masked. *)

Room == tput - tget < TxFifo

\* As if the core were left where it stopped.
RecoverNothing == s_enabled /\ core = "busoff" /\ UNCHANGED core

\* can_busoff_recover_locked over can_busoff_recover_regs: CCCR.INIT is cleared once.
Recover == s_enabled /\ core = "busoff" /\ core' = "rejoining"

\* HAL_FDCAN_ErrorStatusCallback.
BusOffIsr ==
    /\ irqOn /\ boIrq /\ boIrq' = FALSE
    /\ IF s_enabled /\ core = "busoff" THEN Recover ELSE UNCHANGED core
    /\ unheard' = (unheard \/ ~s_enabled)
    /\ UNCHANGED <<hwRx, cnTx, irqOn, s_enabled, cnRing, rule, wk, cnGhost>>

\* As if a full ring were overwritten.
FullNever(head, tail) == FALSE

Full(head, tail) == (head + 1) % RxRing = tail

\* HAL_FDCAN_RxFifo0Callback, one frame: into the ring, then the responder's answer; with the ring full, neither.
RxIsr ==
    /\ irqOn /\ hwRx # <<>> /\ hwRx' = Tail(hwRx)
    /\ LET f == Head(hwRx)
       IN  IF Full(s_rx_head, s_rx_tail)
           THEN /\ s_rx_overflow' = s_rx_overflow + 1 /\ taken' = Append(taken, f.n)
                /\ unanswered' = (unanswered \/ (rule /\ f.match))
                /\ UNCHANGED <<s_ring, s_rx_head, cnTx>>
           ELSE /\ s_ring' = [s_ring EXCEPT ![s_rx_head] = f.n] /\ s_rx_head' = (s_rx_head + 1) % RxRing
                /\ taken' = Append(taken, f.n)
                /\ IF rule /\ f.match /\ Room THEN tput' = tput + 1 /\ accepted' = accepted + 1
                   ELSE UNCHANGED <<tput, accepted>>
                /\ UNCHANGED <<s_rx_overflow, unanswered, tget>>
    /\ UNCHANGED <<cnCore, irqOn, s_enabled, s_rx_tail, read, rule, wk, frames, busOffs, configs>>
--------------------------------------------------------------------------------
(* The hardware worker. *)

At(p) == wk.pc = p
Goto(p) == wk' = [wk EXCEPT !.pc = p]

\* can_disable: nothing interrupts it from its first line on.
Disable ==
    /\ At("idle") /\ s_enabled
    /\ core' = "off" /\ irqOn' = FALSE /\ boIrq' = FALSE /\ s_enabled' = FALSE /\ unheard' = FALSE
    /\ hwRx' = <<>> /\ tget' = tput /\ s_rx_head' = 0 /\ s_rx_tail' = 0 /\ taken' = <<>> /\ read' = <<>>
    /\ UNCHANGED <<tput, accepted, s_ring, s_rx_overflow, rule, wk, cnGhost>>

\* can_configure up to the interrupt: the old instance torn down, a clean core started, or the HAL refuses.
Configure ==
    /\ At("idle") /\ configs < MaxConfigs /\ configs' = configs + 1
    /\ \E ok \in BOOLEAN : /\ core' = IF ok THEN "on" ELSE "off"
                           /\ irqOn' = ok /\ wk' = [wk EXCEPT !.pc = IF ok THEN "up" ELSE "idle"]
    /\ boIrq' = FALSE /\ unheard' = FALSE /\ s_enabled' = FALSE /\ hwRx' = <<>> /\ tget' = tput
    /\ s_rx_head' = 0 /\ s_rx_tail' = 0 /\ taken' = <<>> /\ read' = <<>>
    /\ UNCHANGED <<tput, accepted, s_ring, s_rx_overflow, rule, unanswered, frames, busOffs>>

\* The rest of can_configure: enabled, the ring empty whatever came in meanwhile.
Configured ==
    /\ At("up") /\ Goto("idle") /\ s_enabled' = TRUE
    /\ s_rx_head' = 0 /\ s_rx_tail' = 0 /\ s_rx_overflow' = 0 /\ taken' = <<>> /\ read' = <<>>
    /\ UNCHANGED <<cnCore, hwRx, cnTx, irqOn, s_ring, rule, cnGhost>>

\* can_busoff_poll, with the interrupt masked.
BusOffPoll == IF s_enabled /\ core = "busoff" THEN Recover ELSE UNCHANGED core

\* As if the interrupt were left alone.
MaskNothing == wk' = [pc |-> "tx", put |-> tput, was |-> irqOn] /\ UNCHANGED irqOn

\* can_irq_mask around the free level and the frame.
Mask == wk' = [pc |-> "tx", put |-> tput, was |-> irqOn] /\ irqOn' = FALSE

\* can_tx: refused off the bus, else the level and the put index are read.
SendStart ==
    /\ At("idle") /\ s_enabled /\ tput < MaxSends
    /\ BusOffPoll
    /\ IF core \in {"busoff", "rejoining"} THEN UNCHANGED <<wk, irqOn>> ELSE Mask
    /\ UNCHANGED <<boIrq, unheard, hwRx, cnTx, s_enabled, cnRing, rule, cnGhost>>

\* can_tx_raw, can_irq_restore: the frame at the index read, or the FIFO was full.
SendPut ==
    /\ At("tx") /\ wk' = Idle /\ irqOn' = wk.was
    /\ IF wk.put - tget < TxFifo /\ s_enabled THEN tput' = wk.put + 1 /\ accepted' = accepted + 1
       ELSE UNCHANGED <<tput, accepted>>
    /\ UNCHANGED <<cnCore, hwRx, tget, s_enabled, cnRing, rule, cnGhost>>

\* can_rx_pop: bus-off looked at, then frame by frame the slot and the index.
ReadStart ==
    /\ At("idle") /\ BusOffPoll /\ wk' = [wk EXCEPT !.pc = IF s_rx_tail # s_rx_head THEN "pop" ELSE "idle"]
    /\ UNCHANGED <<boIrq, unheard, hwRx, cnTx, irqOn, s_enabled, cnRing, rule, cnGhost>>

Pop ==
    \/ /\ At("pop") /\ Goto("adv") /\ read' = Append(read, s_ring[s_rx_tail]) /\ UNCHANGED s_rx_tail
    \/ /\ At("adv") /\ s_rx_tail' = (s_rx_tail + 1) % RxRing /\ UNCHANGED read
       /\ wk' = [wk EXCEPT !.pc = IF s_rx_tail' # s_rx_head THEN "pop" ELSE "idle"]

ReadPop == Pop /\ UNCHANGED <<cnCore, hwRx, cnTx, irqOn, s_enabled, s_rx_head, s_ring, s_rx_overflow,
                              taken, rule, cnGhost>>

\* can_get_status: only its look at bus-off changes anything.
Status == /\ At("idle") /\ BusOffPoll
          /\ UNCHANGED <<boIrq, unheard, hwRx, cnTx, irqOn, s_enabled, cnRing, rule, wk, cnGhost>>

\* can_responder_add, can_responder_clear: the rule counts from its last store on.
Respond == At("idle") /\ rule' = ~rule /\ UNCHANGED <<cnCore, hwRx, cnTx, irqOn, s_enabled, cnRing, wk, cnGhost>>
--------------------------------------------------------------------------------
(* The bus. *)

BusFrame(m) ==
    /\ core = "on" /\ Len(hwRx) < RxFifo /\ frames < MaxFrames /\ frames' = frames + 1
    /\ hwRx' = Append(hwRx, [n |-> frames', match |-> m])
    /\ UNCHANGED <<cnCore, cnTx, irqOn, s_enabled, cnRing, rule, wk, unanswered, busOffs, configs>>
BusSends ==
    /\ core = "on" /\ tget < tput /\ tget' = tget + 1
    /\ UNCHANGED <<cnCore, hwRx, tput, accepted, irqOn, s_enabled, cnRing, rule, wk, cnGhost>>
\* Sending failed too often; the interrupt may be missed.
BusOff ==
    /\ core = "on" /\ tget < tput /\ busOffs < MaxBusOffs /\ busOffs' = busOffs + 1 /\ core' = "busoff"
    /\ boIrq' \in BOOLEAN /\ unheard' = ~boIrq'
    /\ UNCHANGED <<hwRx, cnTx, irqOn, s_enabled, cnRing, rule, wk, unanswered, frames, configs>>
Rejoin == /\ core = "rejoining" /\ core' = "on"
          /\ UNCHANGED <<boIrq, unheard, hwRx, cnTx, irqOn, s_enabled, cnRing, rule, wk, cnGhost>>

Next ==
    \/ BusOffIsr \/ RxIsr \/ Disable \/ Configure \/ Configured \/ SendStart \/ SendPut
    \/ ReadStart \/ ReadPop \/ Status
    \/ Respond \/ BusSends \/ BusOff \/ Rejoin \/ \E m \in BOOLEAN : BusFrame(m)

Fairness == /\ WF_cnVars(BusOffIsr) /\ WF_cnVars(RxIsr) /\ WF_cnVars(Rejoin)
            /\ WF_cnVars(Configured) /\ WF_cnVars(SendPut)
            /\ WF_cnVars(ReadPop)
Spec == Init /\ [][Next]_cnVars /\ Fairness
--------------------------------------------------------------------------------
(* Properties. *)

\* The frames read are the ones the bus brought, in order, each once; what is missing is counted as overflow.
RxInOrder ==
    /\ \A i, j \in 1 .. Len(read) : i < j => read[i] < read[j]
    /\ wk.pc \notin {"up", "pop", "adv"} /\ s_enabled =>
           Len(taken) = Len(read) + s_rx_overflow + ((s_rx_head + RxRing - s_rx_tail) % RxRing)

\* The worker and the interrupt's responder both queue frames: no accepted frame takes another's place.
TxBothKept == accepted = tput

\* The core goes back on the bus without a command, when its interrupt was heard.
RejoinsBus == []<>(core # "busoff" \/ unheard)

\* can_bus.h: "The firmware watches every received frame and, when one matches a rule's (match_id, match_ext),
\* immediately transmits `reply`".
EveryMatchAnswered == ~unanswered
================================================================================
