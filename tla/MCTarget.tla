-------------------------------- MODULE MCTarget -------------------------------
(***************************************************************************)
(* What the pod does to the board under test, under TLC.  The engines share  *)
(* no state (the pins they claim are LaPins'), so a behaviour works with one *)
(* of them and the others keep an initial state.                             *)
(***************************************************************************)
EXTENDS Integers, Sequences, FiniteSetTheorems, WellFoundedInduction, TLAPS

CONSTANTS
    Fuses, MaxBusFails, MaxOrders, MaxBoots,
    Conns, Cloud, NoConn, Keeps, FrameSamples, MaxErrors, MaxReadings, MaxProfiles, MaxLeaves,
    RxRing, MaxFrames, MaxSends, MaxBusOffs, MaxConfigs,
    RecMax, QBytes, QReads, WaitRetry, Words, MaxReqs,
    Limit, Page, Sector, Block, Starts, Lens, MaxFaults, MaxSpiCmds,
    Ring, Fifo2, Epoch, ClientRoom, MaxBytes, MaxDut, MaxEpochs, MaxSwaps,
    Models, MaxWrites, MaxSensorCmds, MaxSensorFaults, Codes,
    TxFifo, RxFifo      \* of the CAN core and of the UART in the gateware

VARIABLES
    which,
    latch, driven, flt, enabled_state, last_fault, pending, ready, toldEn, toldFault, busFails,
    orders, boots,
    ps, dec, s_reply, s_oneshot, client, profiles, leaves,
    core, hwRx, tput, tget, irqOn, boIrq, s_enabled, s_rx_head, s_rx_tail, s_ring, s_rx_overflow, rule, wk,
    taken, read, accepted, unheard, unanswered, frames, busOffs, configs,
    plan, packet, todo, one, bt,
    spiGw, spi_armed_local, s_cs_held, chip, frame, sjob, said, busHeld, gateHeld, mixed, spiFaults, spiCmds,
    s_utx, s_utx_head, s_utx_count, utaken, txf, onLine, rxf, rxOvf, s_uart_rx_ovf, dutSent, toClient, rxLost,
    roomLeft, uploading, uart_upload_suspended, rearm, s_stage_off, s_stage_len, txf2, onLine2, epochs, swaps,
    active, values, target, seen_wr_count, rearm_pending, wstep, unloaded, dutWrites, sensorCmds, sensorFaults

powerVars == <<latch, driven, flt, enabled_state, last_fault, pending, ready, toldEn, toldFault,
               busFails, orders, boots>>
profileVars == <<ps, dec, s_reply, s_oneshot, client, profiles, leaves>>
canVars == <<core, hwRx, tput, tget, irqOn, boIrq, s_enabled, s_rx_head, s_rx_tail, s_ring,
             s_rx_overflow, rule, wk, taken, read, accepted, unheard, unanswered, frames, busOffs,
             configs>>
probeVars == <<plan, packet, todo, one, bt>>
spiVars == <<spiGw, spi_armed_local, s_cs_held, chip, frame, sjob, said, busHeld, gateHeld, mixed,
             spiFaults, spiCmds>>
uartVars == <<s_utx, s_utx_head, s_utx_count, utaken, txf, onLine, rxf, rxOvf, s_uart_rx_ovf, dutSent,
              toClient, rxLost, roomLeft, uploading, uart_upload_suspended, rearm, s_stage_off,
              s_stage_len, txf2, onLine2, epochs, swaps>>
sensorVars == <<active, values, target, seen_wr_count, rearm_pending, wstep, unloaded, dutWrites,
                sensorCmds, sensorFaults>>

Power == INSTANCE TargetPower
Profile == INSTANCE PowerProfile
Can == INSTANCE CanBus
Probe == INSTANCE Dap
Spi == INSTANCE SpiMaster
Uart == INSTANCE UartLines WITH taken <- utaken
Sensor == INSTANCE SensorSim WITH EarlyWrites <- FALSE

ASSUME Assumptions ==
    /\ Power!ConstantsOK /\ Profile!ConstantsOK /\ Can!ConstantsOK /\ Probe!ConstantsOK
    /\ Spi!ConstantsOK /\ Uart!ConstantsOK /\ Sensor!ConstantsOK

Engines == {"power", "profile", "can", "probe", "spi", "uart", "sensor"}

MCInit ==
    /\ which \in Engines
    /\ Power!Init /\ Profile!Init /\ Can!Init /\ Sensor!Init
    /\ Probe!Init /\ (which = "probe" \/ (plan.at = 0 /\ plan.kind = "fault"))
    /\ Spi!Init /\ (which = "spi" \/ (~chip.protected /\ chip.mem[0] = 0))
    /\ Uart!Init /\ (which = "uart" \/ s_utx_head = 0)

Rest ==
    /\ UNCHANGED which
    /\ which # "power" => UNCHANGED powerVars
    /\ which # "profile" => UNCHANGED profileVars
    /\ which # "can" => UNCHANGED canVars
    /\ which # "probe" => UNCHANGED probeVars
    /\ which # "spi" => UNCHANGED spiVars
    /\ which # "uart" => UNCHANGED uartVars
    /\ which # "sensor" => UNCHANGED sensorVars

MCNext ==
    /\ Rest
    /\ \/ which = "power" /\ Power!Next
       \/ which = "profile" /\ Profile!Next
       \/ which = "can" /\ Can!Next
       \/ which = "probe" /\ Probe!Next
       \/ which = "spi" /\ Spi!Next
       \/ which = "uart" /\ Uart!Next
       \/ which = "sensor" /\ Sensor!Next

mcVars == <<which, powerVars, profileVars, canVars, probeVars, spiVars, uartVars, sensorVars>>

\* The fairness of the engine in use.
Fairness ==
    /\ \A f \in Fuses : WF_powerVars(which = "power" /\ boots > 0 /\ Power!SampleFault(f))
    /\ WF_profileVars(which = "profile" /\ Profile!Poll("over"))
    /\ WF_profileVars(which = "profile" /\ Profile!ServiceOneshot)
    /\ WF_profileVars(which = "profile" /\ Profile!ReplyPump)
    /\ \A c \in Conns : WF_profileVars(which = "profile" /\ Profile!ConnClosed(c))
    /\ WF_canVars(which = "can" /\ Can!BusOffIsr) /\ WF_canVars(which = "can" /\ Can!RxIsr)
    /\ WF_canVars(which = "can" /\ Can!Rejoin) /\ WF_canVars(which = "can" /\ Can!Configured)
    /\ WF_canVars(which = "can" /\ Can!SendPut) /\ WF_canVars(which = "can" /\ Can!ReadPop)
    /\ WF_uartVars(which = "uart" /\ Uart!TxPoll) /\ WF_uartVars(which = "uart" /\ Uart!LineSends)
    /\ WF_uartVars(which = "uart" /\ Uart!UartRearm)
    /\ WF_sensorVars(which = "sensor" /\ Sensor!ArmEnds) /\ WF_sensorVars(which = "sensor" /\ Sensor!RearmPoll)
    /\ WF_sensorVars(which = "sensor" /\ Sensor!WatchPoll) /\ WF_sensorVars(which = "sensor" /\ Sensor!ReadLive)
    /\ WF_sensorVars(which = "sensor" /\ Sensor!Load)

MCSpec == MCInit /\ [][MCNext]_mcVars /\ Fairness

\* The types of the engines' state.
TypesOK ==
    CASE which = "power" -> Power!TypeOK [] which = "profile" -> Profile!TypeOK [] which = "can" -> Can!TypeOK
      [] which = "probe" -> Probe!TypeOK [] which = "spi" -> Spi!TypeOK [] which = "uart" -> Uart!TypeOK
      [] which = "sensor" -> Sensor!TypeOK

\* target_power.c, power_profile.c, sensor_bmp280.c: an eFuse is as the client was told it is; the
\* bins of a profile hold readings of the same number each, and a reply is that of one profile,
\* whole; the code shown by a sensor is the one whose compensated value is nearest.
ToldIsTrue ==
    /\ which = "power" => Power!RailsAsTold
    /\ which = "profile" => Profile!BinsEven /\ Profile!ReplyWhole
    /\ which = "sensor" => Sensor!CodesNearest

\* can_bus.c, signal_engine.c, gps_sim.c: frames and bytes arrive in the order they came, in the
\* bounds of the rings and of the hardware's FIFOs; what does not fit is told as lost, and an
\* epoch of the simulated GPS goes out whole.
LinesInOrder ==
    /\ which = "can" => Can!RxInOrder /\ Can!TxBothKept
    /\ which = "uart" => Uart!UartInOrder /\ Uart!LossKnown /\ Uart!EpochsWhole

\* dap.c, spi_flash.c, command_handler_spi.c: the packets the batch path answers and the words it
\* leaves on the wire are those of the path that makes one transfer after another; what is
\* reported as erased or programmed is, nothing else of the part changed, and no command of one
\* client ends inside the frame of another.
WireAgrees ==
    /\ which = "probe" => Probe!BatchAgrees
    /\ which = "spi" => Spi!FlashTold /\ Spi!FlashConfined /\ Spi!FramesApart

\* power_profile.c, sensor_sim.c: a finished profile is kept until its client has read it or
\* has left, and a reload of the sensor leaves what the DUT configured.
KeptThrough == Profile!KeptUntilRead /\ Sensor!DutRegistersKept

\* A fault of an eFuse is told, a profile ends, a CAN core that was off the bus is back, what
\* a client sends over the UART goes out, and a sensor's readings follow what was set.
EnginesEnd ==
    /\ Power!FaultTold
    /\ []<>(~s_reply.active /\ (core # "busoff" \/ unheard) /\ (s_utx_count = 0 /\ txf = <<>>) /\ Sensor!Followed)
    /\ []<>Profile!OneshotOver
(***************************************************************************)
(* Proofs.                                                                  *)
(***************************************************************************)
\* target_power.c: an eFuse's record follows its latch once the expander is set up, and before the first boot
\* nothing is driven.
PowerInv == Power!TypeOK /\ Power!RailsAsTold /\ (boots = 0 => ~driven)

\* Every step of target_power.c, whatever fails on the bus.
LEMMA PowerKeeps == PowerInv /\ [Power!Next]_powerVars => PowerInv'
<1> SUFFICES ASSUME PowerInv, [Power!Next]_powerVars PROVE PowerInv'
  OBVIOUS
<1> USE DEF PowerInv, Power!TypeOK, Power!RailsAsTold, Power!Word, Power!tpEvents, Power!tpHw
<1>1. ASSUME NEW ok, Power!Transfers(ok) PROVE busFails' \in 0 .. MaxBusFails
  BY <1>1, Assumptions DEF Power!Transfers, Power!ConstantsOK
<1>2. CASE Power!Boot
  <2>1. PICK preset \in BOOLEAN, config \in BOOLEAN : Power!BringUp(preset, config) /\ Power!Transfers(preset /\ config)
    BY <1>2 DEF Power!Boot
  <2>2. /\ boots < MaxBoots /\ boots' = boots + 1 /\ UNCHANGED <<flt, orders>>
        /\ enabled_state' = [f \in Fuses |-> FALSE] /\ last_fault' = enabled_state' /\ toldFault' = enabled_state'
        /\ pending' = [f \in Fuses |-> Power!NoChange] /\ toldEn' = [f \in Fuses |-> "off"]
    BY <1>2 DEF Power!Boot
  <2>3. /\ latch' = IF preset THEN [f \in Fuses |-> FALSE] ELSE latch
        /\ driven' = (driven \/ (preset /\ config)) /\ ready' = (preset /\ config)
    BY <2>1 DEF Power!BringUp
  <2>4. /\ latch' \in [Fuses -> BOOLEAN] /\ driven' \in BOOLEAN /\ ready' \in BOOLEAN
        /\ pending' \in [Fuses -> [armed : BOOLEAN, on : BOOLEAN, due : BOOLEAN]]
    BY <2>2, <2>3 DEF Power!NoChange
  <2>5. Power!TypeOK'  BY <1>1, <2>1, <2>2, <2>4, Assumptions DEF Power!ConstantsOK
  <2>6. Power!RailsAsTold' /\ (boots' = 0 => ~driven')
    BY <2>2, <2>3, Assumptions DEF Power!ConstantsOK
  <2> QED BY <2>5, <2>6
<1>3. ASSUME NEW f \in Fuses, NEW on \in BOOLEAN, NEW written \in BOOLEAN, NEW seen \in BOOLEAN,
             Power!Enable(f, on, written, seen), UNCHANGED <<driven, flt, last_fault, ready, boots>>,
             busFails' \in 0 .. MaxBusFails, orders' \in 0 .. MaxOrders,
             pending' \in [Fuses -> [armed : BOOLEAN, on : BOOLEAN, due : BOOLEAN]]
      PROVE  PowerInv'
  <2>1. CASE ~written
    BY <1>3, <2>1 DEF Power!Enable
  <2>2. CASE written
    <3>1. /\ latch' = [latch EXCEPT ![f] = on] /\ enabled_state' = [enabled_state EXCEPT ![f] = on]
          /\ toldEn' = [toldEn EXCEPT ![f] = Power!Word(on)]
          /\ toldFault' = [toldFault EXCEPT ![f] = toldFault[f] \/ Power!FaultNow(f, seen)]
      BY <1>3, <2>2 DEF Power!Enable
    <3>2. Power!FaultNow(f, seen) \in BOOLEAN  BY DEF Power!FaultNow
    <3>3. /\ latch' \in [Fuses -> BOOLEAN] /\ enabled_state' \in [Fuses -> BOOLEAN]
          /\ toldEn' \in [Fuses -> {"on", "off"}] /\ toldFault' \in [Fuses -> BOOLEAN]
      BY <3>1, <3>2
    <3>4. Power!TypeOK'  BY <1>3, <3>3
    <3>5. Power!RailsAsTold'  BY <1>3, <3>1
    <3> QED BY <1>3, <3>4, <3>5
  <2> QED BY <2>1, <2>2
<1>4. ASSUME NEW f \in Fuses, NEW on \in BOOLEAN, NEW delayed \in BOOLEAN, Power!Order(f, on, delayed) PROVE PowerInv'
  <2>1. orders' \in 0 .. MaxOrders  BY <1>4, Assumptions DEF Power!Order, Power!ConstantsOK
  <2>2. CASE delayed
    <3>1. /\ pending' = [pending EXCEPT ![f] = [armed |-> TRUE, on |-> on, due |-> FALSE]]
          /\ UNCHANGED <<latch, enabled_state, toldEn, toldFault, busFails, driven, flt, last_fault, ready, boots>>
      BY <1>4, <2>2 DEF Power!Order
    <3>2. pending' \in [Fuses -> [armed : BOOLEAN, on : BOOLEAN, due : BOOLEAN]]  BY <3>1
    <3> QED BY <2>1, <3>1, <3>2
  <2>3. CASE ~delayed
    <3>1. PICK written \in BOOLEAN, seen \in BOOLEAN :
             Power!Enable(f, on, written, seen) /\ Power!Transfers(written /\ seen)
      BY <1>4, <2>3 DEF Power!Order
    <3>2. UNCHANGED <<pending, driven, flt, last_fault, ready, boots>>
      BY <1>4, <2>3 DEF Power!Order
    <3> QED BY <1>1, <1>3, <2>1, <3>1, <3>2
  <2> QED BY <2>2, <2>3
<1>5. ASSUME NEW f \in Fuses, Power!Elapse(f) PROVE PowerInv'
  <2>1. pending' \in [Fuses -> [armed : BOOLEAN, on : BOOLEAN, due : BOOLEAN]]
    BY <1>5 DEF Power!Elapse
  <2> QED BY <1>5, <2>1 DEF Power!Elapse
<1>6. ASSUME NEW f \in Fuses, Power!FireDue(f) PROVE PowerInv'
  <2>1. pending' \in [Fuses -> [armed : BOOLEAN, on : BOOLEAN, due : BOOLEAN]] /\ pending[f].on \in BOOLEAN
    BY <1>6 DEF Power!FireDue, Power!NoChange
  <2>2. PICK written \in BOOLEAN, seen \in BOOLEAN :
           Power!Enable(f, pending[f].on, written, seen) /\ Power!Transfers(written /\ seen)
    BY <1>6 DEF Power!FireDue
  <2>3. UNCHANGED <<driven, flt, last_fault, ready, orders, boots>>  BY <1>6 DEF Power!FireDue
  <2>4. busFails' \in 0 .. MaxBusFails  BY <1>1, <2>2
  <2>5. orders' \in 0 .. MaxOrders  BY <2>3
  <2> HIDE DEF PowerInv, Power!TypeOK, Power!RailsAsTold
  <2> QED BY <1>3, <2>1, <2>2, <2>3, <2>4, <2>5
<1>7. ASSUME NEW f \in Fuses, Power!SampleFault(f) PROVE PowerInv'
  <2>1. PICK ok \in BOOLEAN :
           LET seen == Power!FaultNow(f, ok)
           IN  /\ Power!Sampled(f, seen) /\ Power!Transfers(ok)
               /\ toldEn' = IF seen /\ ~last_fault[f] THEN [toldEn EXCEPT ![f] = Power!Word(enabled_state[f])]
                             ELSE toldEn
    BY <1>7 DEF Power!SampleFault
  <2> DEFINE seen == Power!FaultNow(f, ok)
  <2>2. seen \in BOOLEAN  BY DEF Power!FaultNow
  <2>3. UNCHANGED <<latch, driven, flt, enabled_state, pending, ready, orders, boots>>
    BY <1>7 DEF Power!SampleFault
  <2> HIDE DEF seen
  <2>4. /\ toldFault' = [toldFault EXCEPT ![f] = (toldFault[f] /\ seen) \/ (seen /\ ~last_fault[f])]
        /\ last_fault' = [last_fault EXCEPT ![f] = seen]
        /\ toldEn' = IF seen /\ ~last_fault[f] THEN [toldEn EXCEPT ![f] = Power!Word(enabled_state[f])] ELSE toldEn
    BY <2>1 DEF Power!Sampled, seen
  <2>5. toldFault' \in [Fuses -> BOOLEAN] /\ last_fault' \in [Fuses -> BOOLEAN] /\ toldEn' \in [Fuses -> {"on", "off"}]
    BY <2>2, <2>4
  <2>6. Power!TypeOK'  BY <1>1, <2>1, <2>3, <2>5
  <2>7. Power!RailsAsTold'  BY <2>3, <2>4
  <2> QED BY <2>3, <2>6, <2>7
<1>8. ASSUME NEW f \in Fuses, Power!Trip(f) \/ Power!Recover(f) PROVE PowerInv'
  <2>1. /\ flt' \in [Fuses -> BOOLEAN]
        /\ UNCHANGED <<latch, driven, enabled_state, last_fault, pending, ready, toldEn, toldFault, busFails, orders,
                   boots>>
    BY <1>8 DEF Power!Trip, Power!Recover
  <2> QED BY <2>1
<1>9. CASE UNCHANGED powerVars
  BY <1>9 DEF powerVars
<1> QED BY <1>2, <1>4, <1>5, <1>6, <1>7, <1>8, <1>9 DEF Power!Next

\* Power-up: nothing is driven.
LEMMA PowerStarts == Power!Init => PowerInv
<1>1. Power!NoChange \in [armed : BOOLEAN, on : BOOLEAN, due : BOOLEAN]  BY DEF Power!NoChange
<1> SUFFICES ASSUME Power!Init PROVE PowerInv
  OBVIOUS
<1>2. /\ latch \in [Fuses -> BOOLEAN] /\ flt \in [Fuses -> BOOLEAN] /\ enabled_state \in [Fuses -> BOOLEAN]
      /\ last_fault \in [Fuses -> BOOLEAN] /\ toldFault \in [Fuses -> BOOLEAN]
  BY DEF Power!Init
<1>3. Power!TypeOK
  <2>1. pending \in [Fuses -> [armed : BOOLEAN, on : BOOLEAN, due : BOOLEAN]] /\ toldEn \in [Fuses -> {"on", "off"}]
    BY <1>1 DEF Power!Init
  <2>2. driven \in BOOLEAN /\ ready \in BOOLEAN  BY DEF Power!Init
  <2>3. busFails \in 0 .. MaxBusFails /\ orders \in 0 .. MaxOrders /\ boots \in 0 .. MaxBoots
    BY Assumptions DEF Power!Init, Power!ConstantsOK
  <2> QED BY <1>2, <2>1, <2>2, <2>3 DEF Power!TypeOK
<1>4. Power!RailsAsTold /\ (boots = 0 => ~driven)  BY DEF Power!Init, Power!RailsAsTold
<1> QED BY <1>3, <1>4 DEF PowerInv

--------------------------------------------------------------------------------
\* power_profile.c: the store of a profile as pp_decim_add and pp_decim_finish leave it, n readings taken.
Decimators == [cap : Nat, bin : 1 .. 2 * Profile!BinMax, kept : Seq(Nat \ {0}), acc : Nat]

\* While the sampler runs every kept value weighs a whole bin.
Filling(d, n) ==
    /\ d.acc < d.bin /\ n = d.acc + d.bin * Len(d.kept)
    /\ \A i \in 1 .. Len(d.kept) : d.kept[i] = d.bin

\* Once it is over the last one may weigh less.
Full(d, n) ==
    /\ d.acc = 0 /\ (d.kept = <<>> => n = 0)
    /\ d.kept # <<>> => /\ d.kept[Len(d.kept)] <= d.bin /\ n = d.bin * (Len(d.kept) - 1) + d.kept[Len(d.kept)]
                        /\ \A i \in 1 .. Len(d.kept) - 1 : d.kept[i] = d.bin

StoreRight(d, n, running) ==
    /\ d \in Decimators
    /\ d.cap = 0 => d = Profile!Empty
    /\ d.cap = 1 => d.bin = Profile!BinMax /\ (running => d.kept = <<>>)
    /\ d.cap > 1 => \E h \in Nat \ {0} : d.cap = 2 * h
    /\ d.cap > 0 => Len(d.kept) <= d.cap /\ IF running THEN Filling(d, n) ELSE Full(d, n)

\* The numbers of readings and errors, and what they bound.
LEMMA ProfileNumbers ==
    /\ MaxReadings \in Nat \ {0} /\ MaxErrors \in Nat \ {0} /\ MaxProfiles \in Nat /\ MaxLeaves \in Nat
    /\ FrameSamples \in Nat \ {0} /\ Keeps \subseteq Nat /\ Cloud \notin Conns /\ Profile!BinMax = MaxReadings + 1
  BY Assumptions DEF Profile!ConstantsOK, Profile!BinMax

\* decim_merge: half as many values, each of two bins.
LEMMA MergeHalves ==
    ASSUME NEW d \in Decimators, NEW h \in Nat \ {0}, Len(d.kept) = 2 * h, 2 * d.bin <= 2 * Profile!BinMax,
           \A i \in 1 .. Len(d.kept) : d.kept[i] = d.bin
    PROVE  LET m == Profile!Merge(d) IN
           /\ m \in Decimators /\ m.cap = d.cap /\ m.acc = d.acc /\ m.bin = 2 * d.bin
           /\ Len(m.kept) = h /\ \A i \in 1 .. h : m.kept[i] = 2 * d.bin
<1> DEFINE halves == [i \in 1 .. h |-> d.kept[2 * i - 1] + d.kept[2 * i]]
<1>1. d.bin \in Nat \ {0} /\ d.kept \in Seq(Nat \ {0}) /\ d.cap \in Nat /\ d.acc \in Nat
  BY ProfileNumbers DEF Decimators
<1>2. Len(d.kept) \div 2 = h  BY <1>1
<1>3. Profile!Merge(d) = [d EXCEPT !.kept = halves, !.bin = 2 * d.bin]
  BY <1>2 DEF Profile!Merge
<1>4. ASSUME NEW i \in 1 .. h PROVE halves[i] = 2 * d.bin
  <2>1. 2 * i - 1 \in 1 .. Len(d.kept) /\ 2 * i \in 1 .. Len(d.kept)  OBVIOUS
  <2> QED BY <1>1, <2>1
<1>5. halves \in Seq(Nat \ {0}) /\ Len(halves) = h
  <2>1. 2 * d.bin \in Nat \ {0}  BY <1>1
  <2>2. \A i \in 1 .. h : halves[i] \in Nat \ {0}  BY <1>4, <2>1
  <2> QED BY <2>2
<1> HIDE DEF halves
<1>6. 2 * d.bin \in 1 .. 2 * Profile!BinMax  BY <1>1, ProfileNumbers
<1> QED BY <1>1, <1>3, <1>4, <1>5, <1>6 DEF Decimators

\* decim_push.
LEMMA PushAppends ==
    ASSUME NEW d \in Decimators, d.acc > 0
    PROVE  LET m == Profile!Push(d) IN
           /\ m \in Decimators /\ m.cap = d.cap /\ m.acc = 0 /\ m.bin = d.bin
           /\ Len(m.kept) = Len(d.kept) + 1 /\ m.kept[Len(d.kept) + 1] = d.acc
           /\ \A i \in 1 .. Len(d.kept) : m.kept[i] = d.kept[i]
<1>1. d.kept \in Seq(Nat \ {0}) /\ d.acc \in Nat \ {0}  BY DEF Decimators
<1>2. /\ Append(d.kept, d.acc) \in Seq(Nat \ {0}) /\ Len(Append(d.kept, d.acc)) = Len(d.kept) + 1
      /\ Append(d.kept, d.acc)[Len(d.kept) + 1] = d.acc
      /\ \A i \in 1 .. Len(d.kept) : Append(d.kept, d.acc)[i] = d.kept[i]
  BY <1>1
<1> QED BY <1>1, <1>2 DEF Profile!Push, Decimators

\* Bins of b in k places and one more, in half as many places of two.
LEMMA BinsAdd ==
    ASSUME NEW b \in Nat, NEW k \in Nat
    PROVE  b * k \in Nat /\ b * (k + 1) = b * k + b /\ (2 * b) * k = b * (2 * k)
  OBVIOUS

\* They hold no less than one of them.
LEMMA BinsHold ==
    ASSUME NEW b \in Nat, NEW k \in Nat \ {0}
    PROVE  b * k >= b
  OBVIOUS

\* pp_decim_add: one more reading.
LEMMA AddKeeps ==
    ASSUME NEW d, NEW n \in 0 .. MaxReadings, n < MaxReadings, StoreRight(d, n, TRUE)
    PROVE  StoreRight(Profile!Add(d), n + 1, TRUE)
<1> DEFINE e == [d EXCEPT !.acc = d.acc + 1]
<1> USE ProfileNumbers
<1>1. CASE d.cap = 0
  BY <1>1 DEF StoreRight, Profile!Add
<1>2. CASE d.cap > 0
  <2>1. /\ d \in Decimators /\ d.cap \in Nat /\ d.bin \in 1 .. 2 * Profile!BinMax /\ d.kept \in Seq(Nat \ {0})
        /\ d.acc \in Nat
    BY DEF StoreRight, Decimators
  <2>2. Filling(d, n) /\ Len(d.kept) <= d.cap  BY <1>2 DEF StoreRight
  <2>3. e \in Decimators /\ e.cap = d.cap /\ e.bin = d.bin /\ e.kept = d.kept /\ e.acc = d.acc + 1
    <3>1. d.acc + 1 \in Nat  BY <2>1
    <3>2. e \in Decimators  BY <2>1, <3>1 DEF Decimators
    <3>3. e.cap = d.cap /\ e.bin = d.bin /\ e.kept = d.kept  BY <2>1 DEF Decimators
    <3>4. e.acc = d.acc + 1  BY <2>1 DEF Decimators
    <3> QED BY <3>2, <3>3, <3>4
  <2>4. Profile!Add(d) = IF e.acc < e.bin THEN e
                         ELSE IF Len(e.kept) = e.cap THEN Profile!Merge(e) ELSE Profile!Push(e)
    BY <1>2, <2>1 DEF Profile!Add
  <2> HIDE DEF e
  <2>5. Len(d.kept) \in Nat /\ d.bin \in Nat /\ e.acc \in Nat /\ e.bin \in Nat  BY <2>1, <2>3
  <2>6. PICK w \in Nat : w = d.bin * Len(d.kept)
    BY <2>5, BinsAdd, Zenon
  <2>7. n = d.acc + w /\ d.acc < d.bin /\ \A i \in 1 .. Len(d.kept) : d.kept[i] = d.bin
    BY <2>2, <2>6 DEF Filling
  <2>8. CASE e.acc < e.bin
    <3>1. e.bin * Len(e.kept) = w  BY <2>3, <2>6
    <3>2. Filling(e, n + 1)  BY <2>1, <2>3, <2>7, <2>8, <3>1 DEF Filling
    <3>3. StoreRight(e, n + 1, TRUE)  BY <1>2, <2>2, <2>3, <3>2 DEF StoreRight
    <3> QED BY <2>4, <2>8, <3>3
  <2>9. CASE ~(e.acc < e.bin)
    <3>1. d.acc + 1 = d.bin /\ n + 1 = d.bin + w
      <4>1. e.acc = d.acc + 1 /\ e.bin = d.bin /\ d.acc \in Nat /\ n \in Nat  BY <2>1, <2>3
      <4>2. d.acc + 1 = d.bin  BY <2>5, <2>7, <2>9, <4>1
      <4> QED BY <2>5, <2>7, <4>1, <4>2
    <3>2. d.cap # 1  BY <2>1, <2>6, <3>1 DEF StoreRight
    <3>3. PICK h \in Nat \ {0} : d.cap = 2 * h
      BY <1>2, <2>1, <3>2 DEF StoreRight
    <3>4. CASE Len(d.kept) = d.cap
      <4>1. w >= d.bin
        <5>1. Len(d.kept) \in Nat \ {0}  BY <3>3, <3>4
        <5> QED BY <2>5, <2>6, <5>1, BinsHold, Zenon
      <4>2. 2 * e.bin <= 2 * Profile!BinMax  BY <2>1, <2>3, <3>1, <4>1
      <4>3. Len(e.kept) = 2 * h /\ \A i \in 1 .. Len(e.kept) : e.kept[i] = e.bin
        BY <2>3, <2>7, <3>3, <3>4
      <4> DEFINE m == Profile!Merge(e)
      <4>4. /\ m \in Decimators /\ m.cap = e.cap /\ m.acc = e.acc /\ m.bin = 2 * e.bin
            /\ Len(m.kept) = h /\ \A i \in 1 .. h : m.kept[i] = 2 * e.bin
        BY <2>3, <4>2, <4>3, MergeHalves
      <4>5. Profile!Add(d) = m  BY <2>3, <2>4, <2>9, <3>4
      <4> HIDE DEF m
      <4>6. m.bin * Len(m.kept) = w
        <5>1. (2 * d.bin) * h = d.bin * (2 * h)  BY <2>5, BinsAdd, Zenon
        <5> QED BY <2>3, <2>6, <3>3, <3>4, <4>4, <5>1
      <4>7. Filling(m, n + 1)  BY <2>1, <2>3, <3>1, <4>4, <4>6 DEF Filling
      <4>8. StoreRight(m, n + 1, TRUE)  BY <2>3, <3>2, <3>3, <4>4, <4>7 DEF StoreRight
      <4> QED BY <4>5, <4>8
    <3>5. CASE Len(d.kept) # d.cap
      <4> DEFINE m == Profile!Push(e)
      <4>1. e.acc > 0  BY <2>1, <2>3
      <4>2. /\ m \in Decimators /\ m.cap = e.cap /\ m.acc = 0 /\ m.bin = e.bin
            /\ Len(m.kept) = Len(e.kept) + 1 /\ m.kept[Len(e.kept) + 1] = e.acc
            /\ \A i \in 1 .. Len(e.kept) : m.kept[i] = e.kept[i]
        BY <2>3, <4>1, PushAppends
      <4>3. Profile!Add(d) = m  BY <2>3, <2>4, <2>9, <3>5
      <4> HIDE DEF m
      <4>4. m.bin * Len(m.kept) = w + d.bin
        <5>1. d.bin * (Len(d.kept) + 1) = d.bin * Len(d.kept) + d.bin  BY <2>5, BinsAdd, Zenon
        <5>2. m.bin * Len(m.kept) = d.bin * (Len(d.kept) + 1)  BY <2>3, <4>2, Zenon
        <5> QED BY <2>6, <5>1, <5>2, Zenon
      <4>5. \A i \in 1 .. Len(m.kept) : m.kept[i] = m.bin
        <5>1. m.kept[Len(d.kept) + 1] = d.bin /\ m.bin = d.bin /\ Len(m.kept) = Len(d.kept) + 1
          BY <2>3, <3>1, <4>2, Zenon
        <5>2. \A i \in 1 .. Len(d.kept) : m.kept[i] = d.bin  BY <2>3, <2>7, <4>2, Zenon
        <5>3. \A k \in Nat : \A i \in 1 .. k + 1 : i = k + 1 \/ i \in 1 .. k  OBVIOUS
        <5> QED BY <2>5, <5>1, <5>2, <5>3, Zenon
      <4>6. Filling(m, n + 1)  BY <2>1, <3>1, <4>2, <4>4, <4>5, <2>3 DEF Filling
      <4>7. Len(m.kept) <= m.cap  BY <2>1, <2>2, <2>3, <2>5, <3>5, <4>2
      <4>8. StoreRight(m, n + 1, TRUE)  BY <2>3, <3>2, <3>3, <4>2, <4>6, <4>7 DEF StoreRight
      <4> QED BY <4>3, <4>8
    <3> QED BY <3>4, <3>5
  <2> QED BY <2>8, <2>9
<1> QED BY <1>1, <1>2 DEF StoreRight, Decimators

\* pp_decim_finish: what is under way becomes the last value.
LEMMA FinishKeeps ==
    ASSUME NEW d, NEW n \in 0 .. MaxReadings, StoreRight(d, n, TRUE)
    PROVE  StoreRight(Profile!DecimFinish(d), n, FALSE)
<1> USE ProfileNumbers
<1>0. /\ d \in Decimators /\ d.cap \in Nat /\ d.bin \in 1 .. 2 * Profile!BinMax /\ d.kept \in Seq(Nat \ {0})
      /\ d.acc \in Nat /\ Len(d.kept) \in Nat /\ d.bin \in Nat
  BY DEF StoreRight, Decimators
<1>1. CASE d.cap = 0
  BY <1>1 DEF StoreRight, Profile!DecimFinish
<1>2. CASE d.cap > 0
  <2>1. Filling(d, n) /\ Len(d.kept) <= d.cap  BY <1>2 DEF StoreRight
  <2>2. PICK w \in Nat : w = d.bin * Len(d.kept)
    BY <1>0, BinsAdd, Zenon
  <2>3. n = d.acc + w /\ d.acc < d.bin /\ \A i \in 1 .. Len(d.kept) : d.kept[i] = d.bin
    BY <2>1, <2>2 DEF Filling
  <2>4. CASE d.acc = 0
    <3>1. d.kept = <<>> => n = 0
      <4> SUFFICES ASSUME d.kept = <<>> PROVE w = 0
        BY <2>3, <2>4
      <4> QED BY <1>0, <2>2
    <3>2. ASSUME d.kept # <<>>
          PROVE  /\ d.kept[Len(d.kept)] <= d.bin /\ n = d.bin * (Len(d.kept) - 1) + d.kept[Len(d.kept)]
                 /\ \A i \in 1 .. Len(d.kept) - 1 : d.kept[i] = d.bin
      <4> DEFINE l == Len(d.kept)
      <4>0. l \in Nat /\ l # 0  BY <1>0, <3>2
      <4> HIDE DEF l
      <4>1. PICK k \in Nat : k = l - 1
        BY <4>0
      <4>2. d.bin * (k + 1) = d.bin * k + d.bin  BY <1>0, BinsAdd, Zenon
      <4>3. k + 1 = Len(d.kept) /\ d.kept[Len(d.kept)] = d.bin
        <5>1. k + 1 = l /\ l \in 1 .. l  BY <4>0, <4>1
        <5> QED BY <2>3, <5>1 DEF l
      <4>4. n = d.bin * k + d.bin  BY <2>2, <2>3, <2>4, <4>2, <4>3
      <4>5. Len(d.kept) - 1 = k  BY <4>1 DEF l
      <4>6. \A i \in 1 .. Len(d.kept) - 1 : d.kept[i] = d.bin  BY <1>0, <2>3
      <4>7. n = d.bin * (Len(d.kept) - 1) + d.kept[Len(d.kept)]  BY <4>3, <4>4, <4>5, Zenon
      <4> QED BY <1>0, <4>3, <4>6, <4>7
    <3>3. Full(d, n)  BY <2>4, <3>1, <3>2 DEF Full
    <3> QED BY <1>0, <1>2, <2>1, <2>4, <3>3 DEF StoreRight, Profile!DecimFinish
  <2>5. CASE d.acc # 0 /\ Len(d.kept) = d.cap
    <3>1. d.cap # 1  BY <2>5 DEF StoreRight
    <3>2. PICK h \in Nat \ {0} : d.cap = 2 * h
      BY <1>0, <1>2, <3>1 DEF StoreRight
    <3>3. w >= d.bin
      <4>1. Len(d.kept) \in Nat \ {0}  BY <1>2, <2>5
      <4> QED BY <1>0, <2>2, <4>1, BinsHold, Zenon
    <3>4. 2 * d.bin <= 2 * Profile!BinMax  BY <1>0, <2>3, <3>3
    <3> DEFINE m == Profile!Merge(d)   p == Profile!Push(m)
    <3>5. /\ m \in Decimators /\ m.cap = d.cap /\ m.acc = d.acc /\ m.bin = 2 * d.bin
          /\ Len(m.kept) = h /\ \A i \in 1 .. h : m.kept[i] = 2 * d.bin
      BY <1>0, <2>3, <2>5, <3>2, <3>4, MergeHalves
    <3> HIDE DEF m
    <3>6. /\ p \in Decimators /\ p.cap = m.cap /\ p.acc = 0 /\ p.bin = m.bin
          /\ Len(p.kept) = Len(m.kept) + 1 /\ p.kept[Len(m.kept) + 1] = m.acc
          /\ \A i \in 1 .. Len(m.kept) : p.kept[i] = m.kept[i]
      BY <1>0, <2>5, <3>5, PushAppends
    <3>7. Profile!DecimFinish(d) = p  BY <1>0, <1>2, <2>5 DEF Profile!DecimFinish, m
    <3> HIDE DEF p
    <3>8. p.bin * (Len(p.kept) - 1) = w
      <4>1. (2 * d.bin) * h = d.bin * (2 * h)  BY <1>0, BinsAdd, Zenon
      <4>2. Len(p.kept) - 1 = h  BY <3>5, <3>6
      <4> QED BY <2>2, <2>5, <3>2, <3>5, <3>6, <4>1, <4>2
    <3>9. Full(p, n)
      <4>1. p.kept # <<>> /\ p.kept[Len(p.kept)] = d.acc /\ d.acc <= p.bin /\ p.acc = 0
        BY <1>0, <2>3, <3>5, <3>6
      <4>2. \A i \in 1 .. Len(p.kept) - 1 : p.kept[i] = p.bin
        <5>1. Len(p.kept) - 1 = h  BY <3>5, <3>6
        <5> QED BY <3>5, <3>6, <5>1
      <4>3. n = p.bin * (Len(p.kept) - 1) + p.kept[Len(p.kept)]  BY <1>0, <2>3, <3>8, <4>1
      <4> QED BY <4>1, <4>2, <4>3 DEF Full
    <3>10. Len(p.kept) <= p.cap  BY <3>2, <3>5, <3>6
    <3>11. StoreRight(p, n, FALSE)  BY <3>1, <3>2, <3>5, <3>6, <3>9, <3>10 DEF StoreRight
    <3> QED BY <3>7, <3>11
  <2>6. CASE d.acc # 0 /\ Len(d.kept) # d.cap
    <3> DEFINE p == Profile!Push(d)
    <3>1. /\ p \in Decimators /\ p.cap = d.cap /\ p.acc = 0 /\ p.bin = d.bin
          /\ Len(p.kept) = Len(d.kept) + 1 /\ p.kept[Len(d.kept) + 1] = d.acc
          /\ \A i \in 1 .. Len(d.kept) : p.kept[i] = d.kept[i]
      BY <1>0, <2>6, PushAppends
    <3>2. Profile!DecimFinish(d) = p  BY <1>0, <1>2, <2>6 DEF Profile!DecimFinish
    <3> HIDE DEF p
    <3>3. p.bin * (Len(p.kept) - 1) = w
      <4>1. Len(p.kept) - 1 = Len(d.kept)  BY <1>0, <3>1
      <4> QED BY <2>2, <3>1, <4>1, Zenon
    <3>4. Full(p, n)
      <4>1. p.kept # <<>> /\ p.kept[Len(p.kept)] = d.acc /\ d.acc <= p.bin /\ p.acc = 0
        BY <1>0, <2>3, <3>1
      <4>2. \A i \in 1 .. Len(p.kept) - 1 : p.kept[i] = p.bin  BY <1>0, <2>3, <3>1
      <4>3. n = p.bin * (Len(p.kept) - 1) + p.kept[Len(p.kept)]  BY <1>0, <2>3, <3>3, <4>1
      <4> QED BY <4>1, <4>2, <4>3 DEF Full
    <3>5. Len(p.kept) <= p.cap  BY <1>0, <2>1, <2>6, <3>1
    <3>6. (d.cap = 1 => p.bin = Profile!BinMax) /\ (d.cap > 1 => \E h \in Nat \ {0} : d.cap = 2 * h)
      BY <3>1 DEF StoreRight
    <3>7. StoreRight(p, n, FALSE)  BY <1>2, <3>1, <3>4, <3>5, <3>6 DEF StoreRight
    <3> QED BY <3>2, <3>7
  <2> QED BY <2>4, <2>5, <2>6
<1>3. d.cap = 0 \/ d.cap > 0  BY <1>0
<1> QED BY <1>1, <1>2, <1>3

\* What a client's current reply brought, and the client.
Gots == [prof : Nat, count : Nat, torn : {FALSE}, end : BOOLEAN]
Clients == [up : BOOLEAN, room : BOOLEAN, got : Gots]

\* power_profile.c: the store is right as long as a profile is there, a reply goes on only over a finished one and
\* a one-shot belongs to a stream connection.
ProfileInv ==
    /\ ps \in [any : BOOLEAN, running : BOOLEAN, no : 0 .. MaxProfiles, n : 0 .. MaxReadings, errs : 0 .. MaxErrors]
    /\ s_reply \in [active : BOOLEAN, conn : Conns \cup {Cloud, NoConn}, next : Nat]
    /\ s_oneshot \in [pending : BOOLEAN, conn : Conns \cup {NoConn}, of : 0 .. MaxProfiles]
    /\ client \in [Conns \cup {Cloud} -> Clients]
    /\ profiles \in 0 .. MaxProfiles /\ leaves \in 0 .. MaxLeaves
    /\ ps.running => ps.any /\ ps.errs < MaxErrors
    /\ IF ps.any THEN StoreRight(dec, ps.n, ps.running) ELSE dec = Profile!Empty
    /\ s_reply.active => /\ s_reply.conn \in Conns \cup {Cloud} /\ Profile!HasResult
                         /\ client[s_reply.conn].got.prof = ps.no
    /\ s_oneshot.pending => s_oneshot.conn \in Conns

\* Nothing is in a fresh store, of an even number of places.
LEMMA StoreStarts == ASSUME NEW keep \in Nat PROVE StoreRight(Profile!DecimInit(keep), 0, TRUE)
<1> DEFINE d == Profile!DecimInit(keep)
<1> USE ProfileNumbers
<1>1. d = [cap |-> IF keep >= 2 THEN keep - (keep % 2) ELSE keep, bin |-> IF keep = 1 THEN Profile!BinMax ELSE 1,
           kept |-> <<>>, acc |-> 0]
  BY DEF Profile!DecimInit
<1>2. /\ d.cap = (IF keep >= 2 THEN keep - (keep % 2) ELSE keep) /\ d.kept = <<>> /\ d.acc = 0
      /\ d.bin = (IF keep = 1 THEN Profile!BinMax ELSE 1)
  BY <1>1
<1>3. keep - (keep % 2) = 2 * (keep \div 2) /\ (keep >= 2 => keep \div 2 \in Nat \ {0}) /\ keep % 2 \in 0 .. 1
  OBVIOUS
<1>4. /\ <<>> \in Seq(Nat \ {0}) /\ d.cap \in Nat
      /\ (IF keep = 1 THEN Profile!BinMax ELSE 1) \in 1 .. 2 * Profile!BinMax
  BY <1>2, <1>3
<1>5. d \in Decimators
  <2>1. d.bin \in 1 .. 2 * Profile!BinMax  BY <1>2, <1>4
  <2>2. d = [cap |-> d.cap, bin |-> d.bin, kept |-> d.kept, acc |-> d.acc]  BY <1>1
  <2>3. d.cap \in Nat /\ d.kept \in Seq(Nat \ {0}) /\ d.acc \in Nat  BY <1>2, <1>4
  <2> HIDE DEF d
  <2>4. [cap |-> d.cap, bin |-> d.bin, kept |-> d.kept, acc |-> d.acc] \in Decimators
    BY <2>1, <2>3 DEF Decimators
  <2> QED BY <2>2, <2>4
<1>6. d.cap = 0 => d = Profile!Empty
  <2>1. d.cap = 0 => keep = 0  BY <1>2, <1>3
  <2> QED BY <1>1, <2>1 DEF Profile!Empty
<1> HIDE DEF d
<1>7. Filling(d, 0)  BY <1>2, <1>4 DEF Filling
<1>8. d.cap = 1 => d.bin = Profile!BinMax  BY <1>2, <1>3
<1>9. d.cap > 1 => \E h \in Nat \ {0} : d.cap = 2 * h  BY <1>2, <1>3
<1>10. Len(d.kept) <= d.cap  BY <1>2, <1>4
<1>11. StoreRight(d, 0, TRUE)  BY <1>2, <1>5, <1>6, <1>7, <1>8, <1>9, <1>10 DEF StoreRight
<1> QED BY <1>11 DEF d

\* power_profile.c's stop, whether or not its sampler runs.
LEMMA StopKeeps ==
    ASSUME ProfileInv, Profile!Stop, ps.any
    PROVE  /\ ps' = [ps EXCEPT !.running = FALSE] /\ ps'.any /\ ~ps'.running /\ ps'.no = ps.no
           /\ ps' \in [any : BOOLEAN, running : BOOLEAN, no : 0 .. MaxProfiles, n : 0 .. MaxReadings,
                       errs : 0 .. MaxErrors]
           /\ StoreRight(dec', ps'.n, ps'.running)
<1>1. ps \in [any : BOOLEAN, running : BOOLEAN, no : 0 .. MaxProfiles, n : 0 .. MaxReadings, errs : 0 .. MaxErrors]
  BY DEF ProfileInv
<1>2. StoreRight(dec, ps.n, ps.running)  BY DEF ProfileInv
<1>3. CASE ps.running
  <2>1. ps' = [ps EXCEPT !.running = FALSE] /\ dec' = Profile!DecimFinish(dec)
    BY <1>3 DEF Profile!Stop, Profile!Finish
  <2>2. StoreRight(dec, ps.n, TRUE)  BY <1>1, <1>2, <1>3
  <2>3. ps.n \in 0 .. MaxReadings  BY <1>1
  <2>4. StoreRight(Profile!DecimFinish(dec), ps.n, FALSE)  BY <2>2, <2>3, FinishKeeps
  <2>5. ps'.running = FALSE /\ ps'.n = ps.n  BY <1>1, <2>1
  <2>6. StoreRight(dec', ps'.n, ps'.running)  BY <2>1, <2>4, <2>5
  <2> QED BY <1>1, <2>1, <2>6
<1>4. CASE ~ps.running
  <2>1. ps' = ps /\ dec' = dec  BY <1>4 DEF Profile!Stop
  <2>2. ps = [ps EXCEPT !.running = FALSE]  BY <1>1, <1>4
  <2> QED BY <1>1, <1>2, <1>4, <2>1, <2>2
<1> QED BY <1>3, <1>4

\* reply_begin: a reply of the profile at hand.
LEMMA BeginKeeps ==
    ASSUME ProfileInv, NEW c \in Conns \cup {Cloud}, Profile!ReplyBegin(c)
    PROVE  /\ s_reply' \in [active : BOOLEAN, conn : Conns \cup {Cloud, NoConn}, next : Nat]
           /\ client' \in [Conns \cup {Cloud} -> Clients]
           /\ s_reply'.conn = c /\ client'[c].got.prof = ps.no
<1>1. ps.no \in Nat /\ client \in [Conns \cup {Cloud} -> Clients]
  BY ProfileNumbers DEF ProfileInv
<1>2. s_reply' = [active |-> TRUE, conn |-> c, next |-> 0]  BY DEF Profile!ReplyBegin
<1> DEFINE got == [Profile!NoReply EXCEPT !.prof = ps.no]
<1>3. got \in Gots /\ got.prof = ps.no  BY <1>1 DEF Gots, Profile!NoReply
<1>4. client' = [client EXCEPT ![c].got = got]  BY DEF Profile!ReplyBegin
<1> HIDE DEF got
<1>5. client' \in [Conns \cup {Cloud} -> Clients] /\ client'[c].got = got
  BY <1>1, <1>3, <1>4 DEF Clients
<1> QED BY <1>2, <1>3, <1>5

\* The answer of a one-shot whose profile has just ended.
LEMMA AnswerKeeps ==
    ASSUME ProfileInv, Profile!Answer, ~s_reply.active, Profile!HasResult', ps'.no = ps.no
    PROVE  /\ s_reply' \in [active : BOOLEAN, conn : Conns \cup {Cloud, NoConn}, next : Nat]
           /\ s_oneshot' \in [pending : BOOLEAN, conn : Conns \cup {NoConn}, of : 0 .. MaxProfiles]
           /\ client' \in [Conns \cup {Cloud} -> Clients]
           /\ s_reply'.active => /\ s_reply'.conn \in Conns \cup {Cloud} /\ Profile!HasResult'
                                 /\ client'[s_reply'.conn].got.prof = ps'.no
           /\ s_oneshot'.pending => s_oneshot'.conn \in Conns
<1>1. CASE s_oneshot.pending
  <2>1. s_oneshot' = [s_oneshot EXCEPT !.pending = FALSE] /\ Profile!ReplyBegin(s_oneshot.conn)
    BY <1>1 DEF Profile!Answer
  <2>2. s_oneshot.conn \in Conns \cup {Cloud}  BY <1>1 DEF ProfileInv
  <2>3. /\ s_reply' \in [active : BOOLEAN, conn : Conns \cup {Cloud, NoConn}, next : Nat]
        /\ client' \in [Conns \cup {Cloud} -> Clients]
        /\ s_reply'.conn = s_oneshot.conn /\ client'[s_oneshot.conn].got.prof = ps.no
    BY <2>1, <2>2, BeginKeeps
  <2>4. s_oneshot' \in [pending : BOOLEAN, conn : Conns \cup {NoConn}, of : 0 .. MaxProfiles] /\ ~s_oneshot'.pending
    BY <2>1 DEF ProfileInv
  <2> QED BY <2>2, <2>3, <2>4
<1>2. CASE ~s_oneshot.pending
  BY <1>2 DEF Profile!Answer, ProfileInv
<1> QED BY <1>1, <1>2

\* Every step of power_profile.c and of its commands.
LEMMA ProfileKeeps == ProfileInv /\ [Profile!Next]_profileVars => ProfileInv'
<1> SUFFICES ASSUME ProfileInv, [Profile!Next]_profileVars PROVE ProfileInv'
  OBVIOUS
<1> DEFINE Parties == Conns \cup {Cloud}
           States == [any : BOOLEAN, running : BOOLEAN, no : 0 .. MaxProfiles, n : 0 .. MaxReadings,
                      errs : 0 .. MaxErrors]
<1>0. /\ ps \in States
      /\ s_reply \in [active : BOOLEAN, conn : Conns \cup {Cloud, NoConn}, next : Nat]
      /\ s_oneshot \in [pending : BOOLEAN, conn : Conns \cup {NoConn}, of : 0 .. MaxProfiles]
      /\ client \in [Parties -> Clients] /\ profiles \in 0 .. MaxProfiles /\ leaves \in 0 .. MaxLeaves
      /\ (ps.running => ps.any /\ ps.errs < MaxErrors)
      /\ (ps.any => StoreRight(dec, ps.n, ps.running)) /\ (~ps.any => dec = Profile!Empty)
      /\ (s_oneshot.pending => s_oneshot.conn \in Conns)
  BY DEF ProfileInv
<1>00. s_reply.active => s_reply.conn \in Parties /\ ps.any /\ ~ps.running /\ client[s_reply.conn].got.prof = ps.no
  BY DEF ProfileInv, Profile!HasResult
<1>1. ASSUME NEW what, Profile!Poll(what) PROVE ProfileInv'
  <2>1. ps.running /\ ps.any /\ ~s_reply.active /\ UNCHANGED <<profiles, leaves>> /\ StoreRight(dec, ps.n, TRUE)
        /\ ps.n \in 0 .. MaxReadings
    BY <1>0, <1>00, <1>1 DEF Profile!Poll
  <2>2. ASSUME NEW e \in 0 .. MaxErrors, ps' = [ps EXCEPT !.running = FALSE, !.errs = e],
               dec' = Profile!DecimFinish(dec), Profile!Answer
        PROVE  ProfileInv'
    <3>1. /\ ps' \in States /\ ps'.any /\ ~ps'.running /\ ps'.running = FALSE /\ ps'.no = ps.no /\ ps'.n = ps.n
      BY <1>0, <2>1, <2>2
    <3>2. StoreRight(Profile!DecimFinish(dec), ps.n, FALSE)  BY <2>1, FinishKeeps
    <3>3. StoreRight(dec', ps'.n, ps'.running)  BY <2>2, <3>1, <3>2
    <3>4. Profile!HasResult'  BY <3>1 DEF Profile!HasResult
    <3>5. /\ s_reply' \in [active : BOOLEAN, conn : Conns \cup {Cloud, NoConn}, next : Nat]
          /\ s_oneshot' \in [pending : BOOLEAN, conn : Conns \cup {NoConn}, of : 0 .. MaxProfiles]
          /\ client' \in [Conns \cup {Cloud} -> Clients]
          /\ s_reply'.active => /\ s_reply'.conn \in Conns \cup {Cloud} /\ Profile!HasResult'
                                /\ client'[s_reply'.conn].got.prof = ps'.no
          /\ s_oneshot'.pending => s_oneshot'.conn \in Conns
      BY <2>1, <2>2, <3>1, <3>4, AnswerKeeps
    <3> QED BY <1>0, <2>1, <3>1, <3>3, <3>5 DEF ProfileInv
  <2>3. CASE what = "over" /\ Profile!Finish /\ Profile!Answer
    <3>1. ps' = [ps EXCEPT !.running = FALSE] /\ dec' = Profile!DecimFinish(dec) /\ Profile!Answer
      BY <2>3 DEF Profile!Finish
    <3>2. ps' = [ps EXCEPT !.running = FALSE, !.errs = ps.errs] /\ ps.errs \in 0 .. MaxErrors
      BY <1>0, <3>1
    <3> QED BY <2>2, <3>1, <3>2
  <2>4. CASE what = "reading" /\ ps.n < MaxReadings
    <3>1. /\ ps' = [ps EXCEPT !.n = @ + 1, !.errs = 0] /\ dec' = Profile!Add(dec)
          /\ UNCHANGED <<s_reply, s_oneshot, client>>
      BY <1>1, <2>4 DEF Profile!Poll
    <3>2. /\ ps' \in States /\ ps'.any /\ ps'.running /\ ps'.errs < MaxErrors
          /\ ps'.n = ps.n + 1 /\ ps'.running = TRUE
      <4>1. ps.n + 1 \in 0 .. MaxReadings /\ 0 \in 0 .. MaxErrors /\ 0 < MaxErrors
        BY <2>1, <2>4, ProfileNumbers
      <4>2. ps' \in States  BY <1>0, <3>1, <4>1
      <4>3. ps'.any = ps.any /\ ps'.running = ps.running /\ ps'.errs = 0 /\ ps'.n = ps.n + 1
        BY <1>0, <3>1
      <4> QED BY <1>0, <2>1, <4>1, <4>2, <4>3
    <3>3. StoreRight(Profile!Add(dec), ps.n + 1, TRUE)  BY <2>1, <2>4, AddKeeps
    <3>4. StoreRight(dec', ps'.n, ps'.running)  BY <3>1, <3>2, <3>3
    <3> QED BY <1>0, <2>1, <3>1, <3>2, <3>4 DEF ProfileInv
  <2>5. CASE what = "error"
    <3>1. CASE ps.errs + 1 >= MaxErrors
      <4>1. ps' = [ps EXCEPT !.running = FALSE, !.errs = @ + 1] /\ dec' = Profile!DecimFinish(dec) /\ Profile!Answer
        BY <1>1, <2>5, <3>1 DEF Profile!Poll
      <4>2. ps.errs + 1 \in 0 .. MaxErrors /\ ps' = [ps EXCEPT !.running = FALSE, !.errs = ps.errs + 1]
        BY <1>0, <2>1, <4>1, ProfileNumbers
      <4> QED BY <2>2, <4>1, <4>2
    <3>2. CASE ~(ps.errs + 1 >= MaxErrors)
      <4>1. ps' = [ps EXCEPT !.errs = @ + 1] /\ UNCHANGED <<dec, s_reply, s_oneshot, client>>
        BY <1>1, <2>5, <3>2 DEF Profile!Poll
      <4>2. /\ ps' \in States /\ ps'.any /\ ps'.running /\ ps'.errs < MaxErrors /\ ps'.n = ps.n /\ ps'.running = TRUE
        BY <1>0, <2>1, <3>2, <4>1, ProfileNumbers
      <4> QED BY <1>0, <2>1, <4>1, <4>2 DEF ProfileInv
    <3> QED BY <3>1, <3>2
  <2> QED BY <1>1, <2>3, <2>4, <2>5 DEF Profile!Poll
<1>2. CASE Profile!ReplyPump
  <2> DEFINE c == s_reply.conn
  <2>1. /\ s_reply.active /\ c \in Parties /\ ps.any /\ ~ps.running /\ Profile!HasResult
        /\ client[c].got.prof = ps.no /\ UNCHANGED <<s_oneshot, profiles, leaves>>
    BY <1>00, <1>2 DEF Profile!ReplyPump, Profile!HasResult
  <2>2. Profile!Quiet \in [active : BOOLEAN, conn : Conns \cup {Cloud, NoConn}, next : Nat] /\ ~Profile!Quiet.active
    BY DEF Profile!Quiet
  <2>3. ASSUME Profile!GivesUp, client' \in [Parties -> Clients] PROVE ProfileInv'
    BY <1>0, <2>1, <2>2, <2>3 DEF ProfileInv, Profile!GivesUp
  <2>4. ASSUME NEW k \in Nat, Profile!Frame(c, k) PROVE ProfileInv'
    <3> DEFINE last == s_reply.next + k >= Profile!Kept
    <3>1. client' = [client EXCEPT ![c].got.count = @ + k, ![c].got.end = last,
                                   ![c].got.torn = @ \/ ~Profile!HasResult \/ client[c].got.prof # ps.no]
      BY <2>4 DEF Profile!Frame
    <3>2. last \in BOOLEAN /\ client[c] \in Clients /\ client[c].got \in Gots
      BY <1>0, <2>1 DEF Clients
    <3> DEFINE got == [client[c].got EXCEPT !.count = @ + k, !.end = last, !.torn = FALSE]
    <3>3. client' = [client EXCEPT ![c].got = got]
      <4>1. (client[c].got.torn \/ ~Profile!HasResult \/ client[c].got.prof # ps.no) = FALSE
        BY <2>1, <3>2 DEF Gots
      <4> QED BY <1>0, <2>1, <3>1, <3>2, <4>1, ZenonT(30) DEF Gots, Clients
    <3>4. got \in Gots /\ got.prof = ps.no
      <4>1. client[c].got.count + k \in Nat
        <5>1. client[c].got.count \in Nat  BY <3>2 DEF Gots
        <5> QED BY <5>1, <2>4
      <4> HIDE DEF last
      <4>2. got \in Gots  BY <3>2, <4>1 DEF Gots
      <4>3. got.prof = client[c].got.prof  BY <3>2 DEF Gots
      <4> QED BY <2>1, <4>2, <4>3
    <3> HIDE DEF got
    <3>5. client' \in [Parties -> Clients] /\ client'[c].got = got
      BY <1>0, <2>1, <3>3, <3>4 DEF Clients
    <3>6. CASE last
      <4>1. s_reply' = Profile!Quiet /\ ps' = [ps EXCEPT !.any = FALSE] /\ dec' = Profile!Empty
        BY <2>4, <3>6 DEF Profile!Frame, Profile!Discard
      <4>2. ps' \in States /\ ~ps'.any /\ ~ps'.running  BY <1>0, <2>1, <4>1
      <4> QED BY <1>0, <2>1, <2>2, <3>5, <4>1, <4>2 DEF ProfileInv
    <3>7. CASE ~last
      <4>1. s_reply' = [s_reply EXCEPT !.next = @ + k] /\ UNCHANGED <<ps, dec>>
        BY <2>4, <3>7 DEF Profile!Frame
      <4>2. s_reply' \in [active : BOOLEAN, conn : Conns \cup {Cloud, NoConn}, next : Nat] /\ s_reply'.conn = c
        BY <1>0, <4>1
      <4>3. Profile!HasResult'  BY <2>1, <4>1 DEF Profile!HasResult
      <4> QED BY <1>0, <2>1, <3>4, <3>5, <4>1, <4>2, <4>3 DEF ProfileInv
    <3> QED BY <3>6, <3>7
  <2>5. CASE client[c].up /\ client[c].room
    <3>1. ASSUME NEW k \in IF Profile!Kept - s_reply.next = 0 THEN {0}
                           ELSE 1 .. (IF Profile!Kept - s_reply.next > FrameSamples THEN FrameSamples
                                      ELSE Profile!Kept - s_reply.next)
          PROVE k \in Nat
      OBVIOUS
    <3>2. PICK k \in IF Profile!Kept - s_reply.next = 0 THEN {0}
                           ELSE 1 .. (IF Profile!Kept - s_reply.next > FrameSamples THEN FrameSamples
                                      ELSE Profile!Kept - s_reply.next) : Profile!Frame(c, k)
      BY <1>2, <2>5 DEF Profile!ReplyPump
    <3> QED BY <2>4, <3>1, <3>2
  <2>6. CASE client[c].up /\ ~client[c].room
    <3>1. Profile!GivesUp /\ client' = [client EXCEPT ![c].up = FALSE]
      BY <1>2, <2>6 DEF Profile!ReplyPump
    <3>2. client' \in [Parties -> Clients]  BY <1>0, <2>1, <3>1 DEF Clients
    <3> QED BY <2>3, <3>1, <3>2
  <2>7. CASE ~client[c].up
    <3>1. Profile!GivesUp /\ UNCHANGED client  BY <1>2, <2>7 DEF Profile!ReplyPump
    <3> QED BY <1>0, <2>3, <3>1
  <2> QED BY <2>5, <2>6, <2>7
<1>3. CASE Profile!ServiceOneshot
  <2>1. /\ s_oneshot.pending /\ s_oneshot.conn \in Parties /\ Profile!HasResult
        /\ s_oneshot' = [s_oneshot EXCEPT !.pending = FALSE] /\ Profile!ReplyBegin(s_oneshot.conn)
        /\ UNCHANGED <<ps, dec, profiles, leaves>>
    BY <1>0, <1>3 DEF Profile!ServiceOneshot
  <2>2. /\ s_reply' \in [active : BOOLEAN, conn : Conns \cup {Cloud, NoConn}, next : Nat]
        /\ client' \in [Conns \cup {Cloud} -> Clients]
        /\ s_reply'.conn = s_oneshot.conn /\ client'[s_oneshot.conn].got.prof = ps.no
    BY <2>1, BeginKeeps
  <2>3. s_oneshot' \in [pending : BOOLEAN, conn : Conns \cup {NoConn}, of : 0 .. MaxProfiles] /\ ~s_oneshot'.pending
    BY <1>0, <2>1
  <2>4. Profile!HasResult'  BY <2>1 DEF Profile!HasResult
  <2> QED BY <1>0, <2>1, <2>2, <2>3, <2>4 DEF ProfileInv
<1>4. ASSUME NEW c \in Parties, Profile!CmdStop(c) PROVE ProfileInv'
  <2>1. ~s_reply.active /\ ps.any /\ Profile!Stop /\ UNCHANGED <<profiles, leaves>>
    BY <1>0, <1>4 DEF Profile!CmdStop, Profile!HasResult
  <2>2. /\ ps' \in States /\ ps'.any /\ ~ps'.running /\ ps'.no = ps.no /\ StoreRight(dec', ps'.n, ps'.running)
    BY <2>1, StopKeeps
  <2>3. Profile!HasResult'  BY <2>2 DEF Profile!HasResult
  <2>4. CASE UNCHANGED <<s_reply, s_oneshot, client>>
    BY <1>0, <2>1, <2>2, <2>4 DEF ProfileInv
  <2>5. CASE s_oneshot' = [s_oneshot EXCEPT !.pending = FALSE] /\ Profile!ReplyBegin(c)
    <3>1. /\ s_reply' \in [active : BOOLEAN, conn : Conns \cup {Cloud, NoConn}, next : Nat]
          /\ client' \in [Conns \cup {Cloud} -> Clients]
          /\ s_reply'.conn = c /\ client'[c].got.prof = ps.no
      BY <2>5, BeginKeeps
    <3>2. s_oneshot' \in [pending : BOOLEAN, conn : Conns \cup {NoConn}, of : 0 .. MaxProfiles] /\ ~s_oneshot'.pending
      BY <1>0, <2>5
    <3> QED BY <1>0, <2>1, <2>2, <2>3, <3>1, <3>2 DEF ProfileInv
  <2> QED BY <1>4, <2>4, <2>5 DEF Profile!CmdStop
<1>5. ASSUME NEW c \in Parties, NEW keep \in Keeps, NEW oneshot \in BOOLEAN, Profile!CmdStart(c, keep, oneshot)
      PROVE  ProfileInv'
  <2>1. /\ ~s_reply.active /\ ~ps.running /\ profiles < MaxProfiles /\ profiles' = profiles + 1
        /\ UNCHANGED <<s_reply, client, leaves>> /\ (c = Cloud => ~oneshot)
    BY <1>5 DEF Profile!CmdStart, Profile!MayStart
  <2>2. PICK ok \in BOOLEAN :
           /\ Profile!StartSampler(profiles', keep, ok)
           /\ s_oneshot' = IF ok /\ oneshot THEN [pending |-> TRUE, conn |-> c, of |-> profiles'] ELSE s_oneshot
    BY <1>5 DEF Profile!CmdStart
  <2>3. profiles' \in 0 .. MaxProfiles  BY <1>0, <2>1, ProfileNumbers
  <2>4. /\ s_oneshot' \in [pending : BOOLEAN, conn : Conns \cup {NoConn}, of : 0 .. MaxProfiles]
        /\ (s_oneshot'.pending => s_oneshot'.conn \in Conns)
    BY <1>0, <2>1, <2>2, <2>3
  <2>5. CASE ok
    <3>1. /\ ps' = [any |-> TRUE, running |-> TRUE, no |-> profiles', n |-> 0, errs |-> 0]
          /\ dec' = Profile!DecimInit(keep)
      BY <2>2, <2>5 DEF Profile!StartSampler
    <3>2. ps' \in States /\ ps'.any /\ ps'.running = TRUE /\ ps'.n = 0 /\ ps'.errs < MaxErrors
      BY <2>3, <3>1, ProfileNumbers
    <3>3. keep \in Nat  BY ProfileNumbers
    <3>4. StoreRight(Profile!DecimInit(keep), 0, TRUE)  BY <3>3, StoreStarts
    <3>5. StoreRight(dec', ps'.n, ps'.running)  BY <3>1, <3>2, <3>4
    <3> QED BY <1>0, <2>1, <2>3, <2>4, <3>2, <3>5 DEF ProfileInv
  <2>6. CASE ~ok
    <3>1. ps' = [ps EXCEPT !.any = FALSE] /\ dec' = Profile!Empty
      BY <2>2, <2>6 DEF Profile!StartSampler, Profile!Discard
    <3>2. ps' \in States /\ ~ps'.any /\ ~ps'.running  BY <1>0, <2>1, <3>1
    <3> QED BY <1>0, <2>1, <2>3, <2>4, <3>1, <3>2 DEF ProfileInv
  <2> QED BY <2>5, <2>6
<1>6. ASSUME NEW c \in Parties, Profile!ConnClosed(c) PROVE ProfileInv'
  <2>1. /\ c \in Conns /\ client' = [client EXCEPT ![c] = Profile!Fresh] /\ UNCHANGED <<profiles, leaves>>
        /\ s_reply' = IF s_reply.active /\ s_reply.conn = c THEN Profile!Quiet ELSE s_reply
    BY <1>6 DEF Profile!ConnClosed
  <2>2. Profile!Fresh \in Clients
    BY ProfileNumbers DEF Profile!Fresh, Clients, Gots, Profile!NoReply
  <2>3. client' \in [Parties -> Clients] /\ \A d \in Parties : d # c => client'[d] = client[d]
    BY <1>0, <2>1, <2>2
  <2>4. /\ s_reply' \in [active : BOOLEAN, conn : Conns \cup {Cloud, NoConn}, next : Nat]
        /\ s_reply'.active => s_reply' = s_reply /\ s_reply.conn # c
    BY <1>0, <2>1 DEF Profile!Quiet
  <2>5. CASE s_oneshot.pending /\ s_oneshot.conn = c
    <3>1. s_oneshot' = [s_oneshot EXCEPT !.pending = FALSE] /\ Profile!Stop
      BY <1>6, <2>5 DEF Profile!ConnClosed
    <3>2. s_oneshot' \in [pending : BOOLEAN, conn : Conns \cup {NoConn}, of : 0 .. MaxProfiles] /\ ~s_oneshot'.pending
      BY <1>0, <3>1
    <3>3. CASE ps.any
      <4>1. /\ ps' \in States /\ ps'.any /\ ~ps'.running /\ ps'.no = ps.no /\ StoreRight(dec', ps'.n, ps'.running)
        BY <3>1, <3>3, StopKeeps
      <4>2. Profile!HasResult'  BY <4>1 DEF Profile!HasResult
      <4> QED BY <1>0, <1>00, <2>1, <2>3, <2>4, <3>2, <4>1, <4>2 DEF ProfileInv
    <3>4. CASE ~ps.any
      <4>1. UNCHANGED <<ps, dec>>  BY <1>0, <3>1, <3>4 DEF Profile!Stop
      <4> QED BY <1>0, <1>00, <2>1, <2>3, <2>4, <3>2, <3>4, <4>1 DEF ProfileInv
    <3> QED BY <3>3, <3>4
  <2>6. CASE ~(s_oneshot.pending /\ s_oneshot.conn = c)
    <3>1. UNCHANGED <<s_oneshot, ps, dec>>  BY <1>6, <2>6 DEF Profile!ConnClosed
    <3> QED BY <1>0, <1>00, <2>1, <2>3, <2>4, <3>1 DEF ProfileInv, Profile!HasResult
  <2> QED BY <2>5, <2>6
<1>7. ASSUME NEW c \in Parties, Profile!Leaves(c) \/ Profile!StopsReading(c) PROVE ProfileInv'
  <2>1. /\ UNCHANGED <<ps, dec, s_reply, s_oneshot, profiles>> /\ leaves < MaxLeaves /\ leaves' = leaves + 1
        /\ client' = [client EXCEPT ![c].up = FALSE] \/ client' = [client EXCEPT ![c].room = FALSE]
    BY <1>7 DEF Profile!Leaves, Profile!StopsReading
  <2>2. client' \in [Parties -> Clients] /\ \A d \in Parties : client'[d].got = client[d].got
    <3>1. ASSUME client' = [client EXCEPT ![c].up = FALSE]
          PROVE  client' \in [Parties -> Clients] /\ \A d \in Parties : client'[d].got = client[d].got
      BY <1>0, <3>1 DEF Clients
    <3>2. ASSUME client' = [client EXCEPT ![c].room = FALSE]
          PROVE  client' \in [Parties -> Clients] /\ \A d \in Parties : client'[d].got = client[d].got
      BY <1>0, <3>2 DEF Clients
    <3> QED BY <2>1, <3>1, <3>2
  <2>3. leaves' \in 0 .. MaxLeaves  BY <1>0, <2>1, ProfileNumbers
  <2> QED BY <1>0, <1>00, <2>1, <2>2, <2>3 DEF ProfileInv, Profile!HasResult
<1>8. CASE UNCHANGED profileVars
  BY <1>0, <1>00, <1>8 DEF ProfileInv, Profile!HasResult, profileVars
<1> QED BY <1>1, <1>2, <1>3, <1>4, <1>5, <1>6, <1>7, <1>8 DEF Profile!Next

\* No profile, no reply, no client gone.
LEMMA ProfileStarts == Profile!Init => ProfileInv
<1> SUFFICES ASSUME Profile!Init PROVE ProfileInv
  OBVIOUS
<1>1. Profile!Fresh \in Clients
  BY ProfileNumbers DEF Profile!Fresh, Clients, Gots, Profile!NoReply
<1>2. client \in [Conns \cup {Cloud} -> Clients]  BY <1>1 DEF Profile!Init
<1>3. 0 \in 0 .. MaxProfiles /\ 0 \in 0 .. MaxReadings /\ 0 \in 0 .. MaxErrors /\ 0 \in 0 .. MaxLeaves
  BY ProfileNumbers
<1>4. ps \in [any : BOOLEAN, running : BOOLEAN, no : 0 .. MaxProfiles, n : 0 .. MaxReadings, errs : 0 .. MaxErrors]
      /\ ~ps.any /\ ~ps.running
  BY <1>3 DEF Profile!Init
<1>5. /\ s_reply \in [active : BOOLEAN, conn : Conns \cup {Cloud, NoConn}, next : Nat] /\ ~s_reply.active
      /\ s_oneshot \in [pending : BOOLEAN, conn : Conns \cup {NoConn}, of : 0 .. MaxProfiles] /\ ~s_oneshot.pending
  BY <1>3 DEF Profile!Init, Profile!Quiet, Profile!NoOneshot
<1> QED BY <1>2, <1>3, <1>4, <1>5 DEF ProfileInv, Profile!Init

\* What the invariant says of the properties.
LEMMA ProfileSays == ProfileInv => Profile!TypeOK /\ Profile!BinsEven /\ Profile!ReplyWhole
<1> SUFFICES ASSUME ProfileInv PROVE Profile!TypeOK /\ Profile!BinsEven /\ Profile!ReplyWhole
  OBVIOUS
<1> USE ProfileNumbers
<1>1. /\ ps \in [any : BOOLEAN, running : BOOLEAN, no : 0 .. MaxProfiles, n : 0 .. MaxReadings, errs : 0 .. MaxErrors]
      /\ client \in [Conns \cup {Cloud} -> Clients] /\ ps.n \in 0 .. MaxReadings
      /\ IF ps.any THEN StoreRight(dec, ps.n, ps.running) ELSE dec = Profile!Empty
  BY DEF ProfileInv
<1>2. Profile!ReplyWhole
  <2>1. ASSUME NEW c \in Conns \cup {Cloud} PROVE client[c].got \in Gots
    BY <1>1 DEF Clients
  <2> QED BY <2>1 DEF Profile!ReplyWhole, Gots
<1>3. ASSUME ps.any, dec.cap > 0, ps.running
      PROVE  /\ Len(dec.kept) <= dec.cap /\ dec.acc <= ps.n
             /\ \A i \in 1 .. Len(dec.kept) : dec.kept[i] = dec.bin /\ dec.bin <= ps.n
             /\ ps.n = dec.acc + (IF Len(dec.kept) = 0 THEN 0
                                  ELSE dec.bin * (Len(dec.kept) - 1) + dec.kept[Len(dec.kept)])
  <2>1. StoreRight(dec, ps.n, TRUE) /\ dec \in Decimators  BY <1>1, <1>3 DEF StoreRight
  <2>2. /\ dec.kept \in Seq(Nat \ {0}) /\ dec.acc \in Nat /\ dec.bin \in Nat /\ Len(dec.kept) \in Nat
    BY <2>1 DEF Decimators
  <2>3. Filling(dec, ps.n) /\ Len(dec.kept) <= dec.cap  BY <1>3, <2>1 DEF StoreRight
  <2>4. PICK w \in Nat : w = dec.bin * Len(dec.kept)
    BY <2>2, BinsAdd, Zenon
  <2>5. ps.n = dec.acc + w /\ \A i \in 1 .. Len(dec.kept) : dec.kept[i] = dec.bin
    BY <2>3, <2>4 DEF Filling
  <2>6. dec.acc <= ps.n /\ w <= ps.n  BY <1>1, <2>2, <2>5
  <2>7. CASE Len(dec.kept) = 0
    <3>1. w = 0  BY <2>2, <2>4, <2>7
    <3> QED BY <2>2, <2>3, <2>5, <2>6, <2>7, <3>1
  <2>8. CASE Len(dec.kept) # 0
    <3> DEFINE l == Len(dec.kept)
    <3>1. l \in Nat \ {0} /\ l - 1 \in Nat /\ (l - 1) + 1 = l /\ l \in 1 .. l  BY <2>2, <2>8
    <3>2. w >= dec.bin  BY <2>2, <2>4, <3>1, BinsHold, Zenon
    <3>3. dec.bin * ((l - 1) + 1) = dec.bin * (l - 1) + dec.bin  BY <2>2, <3>1, BinsAdd, Zenon
    <3>4. w = dec.bin * (l - 1) + dec.bin  BY <2>4, <3>1, <3>3, Zenon
    <3>5. dec.kept[l] = dec.bin  BY <2>5, <3>1
    <3>6. ps.n = dec.acc + (dec.bin * (l - 1) + dec.kept[l])  BY <2>5, <3>4, <3>5, Zenon
    <3>7. dec.bin <= ps.n  BY <1>1, <2>2, <2>6, <3>2
    <3> QED BY <2>3, <2>5, <2>6, <2>8, <3>6, <3>7
  <2> QED BY <2>7, <2>8
<1>4. ASSUME ps.any, dec.cap > 0, ~ps.running
      PROVE  /\ Len(dec.kept) <= dec.cap /\ dec.acc <= ps.n
             /\ \A i \in 1 .. Len(dec.kept) : /\ dec.kept[i] = dec.bin \/ (i = Len(dec.kept) /\ dec.kept[i] <= dec.bin)
                                              /\ dec.kept[i] <= ps.n
             /\ ps.n = dec.acc + (IF Len(dec.kept) = 0 THEN 0
                                  ELSE dec.bin * (Len(dec.kept) - 1) + dec.kept[Len(dec.kept)])
  <2>1. dec \in Decimators /\ Full(dec, ps.n) /\ Len(dec.kept) <= dec.cap
    BY <1>1, <1>4 DEF StoreRight
  <2>2. /\ dec.kept \in Seq(Nat \ {0}) /\ dec.acc = 0 /\ dec.bin \in Nat /\ Len(dec.kept) \in Nat
    BY <2>1 DEF Decimators, Full
  <2>3. CASE Len(dec.kept) = 0
    <3>1. dec.kept = <<>>  BY <2>2, <2>3
    <3>2. ps.n = 0  BY <2>1, <3>1 DEF Full
    <3> QED BY <2>1, <2>2, <2>3, <3>2
  <2>4. CASE Len(dec.kept) # 0
    <3> DEFINE l == Len(dec.kept)
    <3>1. l \in Nat \ {0} /\ l - 1 \in Nat /\ l \in 1 .. l /\ dec.kept # <<>>  BY <2>2, <2>4
    <3>2. /\ dec.kept[l] <= dec.bin /\ ps.n = dec.bin * (l - 1) + dec.kept[l]
          /\ \A i \in 1 .. l - 1 : dec.kept[i] = dec.bin
      BY <2>1, <3>1 DEF Full
    <3>3. PICK w \in Nat : w = dec.bin * (l - 1)
      BY <2>2, <3>1, BinsAdd, Zenon
    <3>4. dec.kept[l] \in Nat /\ ps.n = w + dec.kept[l] /\ dec.kept[l] <= ps.n
      BY <2>2, <3>1, <3>2, <3>3
    <3>5. ASSUME NEW i \in 1 .. l, i # l PROVE dec.kept[i] = dec.bin /\ dec.bin <= ps.n
      <4>1. i \in 1 .. l - 1 /\ l - 1 \in Nat \ {0}
        <5> HIDE DEF l
        <5> QED BY <3>1, <3>5
      <4>2. w >= dec.bin  BY <2>2, <3>3, <4>1, BinsHold, Zenon
      <4> QED BY <2>2, <3>2, <3>3, <3>4, <4>1, <4>2, SMTT(30)
    <3>6. ps.n = dec.acc + (dec.bin * (l - 1) + dec.kept[l])  BY <1>1, <2>2, <3>2, <3>3, <3>4
    <3>7. dec.kept[l] <= dec.bin /\ dec.kept[l] <= ps.n  BY <3>2, <3>4
    <3>8. ASSUME NEW i \in 1 .. l
          PROVE  (dec.kept[i] = dec.bin \/ (i = l /\ dec.kept[i] <= dec.bin)) /\ dec.kept[i] <= ps.n
      BY <3>5, <3>7
    <3>9. l <= dec.cap /\ dec.acc <= ps.n  BY <1>1, <2>1, <2>2
    <3>10. ps.n = dec.acc + (IF l = 0 THEN 0 ELSE dec.bin * (l - 1) + dec.kept[l])
      BY <2>4, <3>6, Zenon
    <3> HIDE DEF l
    <3>11. /\ l <= dec.cap /\ dec.acc <= ps.n
           /\ \A i \in 1 .. l : (dec.kept[i] = dec.bin \/ (i = l /\ dec.kept[i] <= dec.bin)) /\ dec.kept[i] <= ps.n
           /\ ps.n = dec.acc + (IF l = 0 THEN 0 ELSE dec.bin * (l - 1) + dec.kept[l])
      BY <3>8, <3>9, <3>10, Zenon
    <3> QED BY <3>11, Zenon DEF l
  <2> QED BY <2>3, <2>4
<1>5. Profile!BinsEven  BY <1>1, <1>3, <1>4 DEF Profile!BinsEven
<1>6. dec \in [cap : Nat, bin : 1 .. 2 * Profile!BinMax, kept : Seq(1 .. MaxReadings), acc : 0 .. MaxReadings]
  <2>1. dec = Profile!Empty => dec \in [cap : Nat, bin : 1 .. 2 * Profile!BinMax, kept : Seq(1 .. MaxReadings),
                                        acc : 0 .. MaxReadings]
    BY DEF Profile!Empty
  <2>2. ASSUME ps.any, dec.cap > 0
        PROVE  dec \in [cap : Nat, bin : 1 .. 2 * Profile!BinMax, kept : Seq(1 .. MaxReadings), acc : 0 .. MaxReadings]
    <3>1. dec \in Decimators /\ dec.kept \in Seq(Nat \ {0}) /\ dec.acc \in Nat
      BY <1>1, <2>2 DEF StoreRight, Decimators
    <3>2. dec.acc \in 0 .. MaxReadings  BY <1>1, <1>3, <1>4, <2>2, <3>1
    <3>3. ASSUME NEW i \in 1 .. Len(dec.kept) PROVE dec.kept[i] \in 1 .. MaxReadings
      <4>1. dec.kept[i] \in Nat \ {0}  BY <3>1
      <4>2. dec.kept[i] <= ps.n  BY <1>3, <1>4, <2>2
      <4> QED BY <1>1, <4>1, <4>2
    <3>4. dec.kept \in Seq(1 .. MaxReadings)  BY <3>1, <3>3
    <3> QED BY <3>1, <3>2, <3>4 DEF Decimators
  <2>3. ps.any => dec.cap > 0 \/ dec = Profile!Empty  BY <1>1 DEF StoreRight, Decimators
  <2> QED BY <1>1, <2>1, <2>2, <2>3
<1>7. \A c \in Conns \cup {Cloud} : client[c].up \in BOOLEAN /\ client[c].room \in BOOLEAN
  BY <1>1 DEF Clients
<1>8. Profile!TypeOK  BY <1>1, <1>6, <1>7 DEF ProfileInv, Profile!TypeOK
<1> QED BY <1>2, <1>5, <1>8

--------------------------------------------------------------------------------
\* A set of naturals that has a member has a least one.
LEMMA LeastNat == ASSUME NEW T, T \subseteq Nat, T # {} PROVE \E x \in T : \A y \in T : x <= y
<1>1. PICK x \in T : \A y \in T : ~ (<<y, x>> \in OpToRel(<, Nat))
  BY NatLessThanWellFounded, WFMin
<1>2. ASSUME NEW y \in T PROVE x <= y
  <2>1. x \in Nat /\ y \in Nat  OBVIOUS
  <2>2. <<y, x>> \in Nat \X Nat /\ <<y, x>>[1] = y /\ <<y, x>>[2] = x  BY <2>1
  <2>3. ~ (y < x)  BY <1>1, <2>2, Zenon DEF OpToRel
  <2> QED BY <2>1, <2>3
<1> QED BY <1>1, <1>2

\* sensor_bmp280.c: one step of find_adc_*: s is the search of every window.
Bisect(f, v, s, w) ==
    LET mid == Sensor!Middle(w)
        b == Sensor!Better(f, v, mid, w.best)
    IN  IF w.lo > w.hi THEN w.best
        ELSE IF f[mid] < v THEN s[[lo |-> mid + 1, hi |-> w.hi, best |-> b]]
        ELSE IF f[mid] > v THEN s[[lo |-> w.lo, hi |-> mid - 1, best |-> b]]
        ELSE mid

\* The number of codes, as bounded in Assumptions.
LEMMA CodesKnown == Codes \in Nat /\ MaxWrites \in Nat /\ MaxSensorCmds \in Nat /\ MaxSensorFaults \in Nat
  BY Assumptions DEF Sensor!ConstantsOK

\* The middle of a window that is not empty, and the windows on both sides of it.
LEMMA HalvesAreWindows ==
    ASSUME NEW w \in Sensor!Windows, w.lo <= w.hi, NEW f, NEW v
    PROVE  LET mid == Sensor!Middle(w)
               b == Sensor!Better(f, v, mid, w.best)
           IN  /\ mid \in 0 .. Codes /\ w.lo <= mid /\ mid <= w.hi /\ b \in {mid, w.best}
               /\ [lo |-> mid + 1, hi |-> w.hi, best |-> b] \in Sensor!Windows
               /\ [lo |-> w.lo, hi |-> mid - 1, best |-> b] \in Sensor!Windows
<1> DEFINE mid == Sensor!Middle(w)
           b == Sensor!Better(f, v, mid, w.best)
<1>1. w.lo \in 0 .. Codes + 1 /\ w.hi \in (-1) .. Codes /\ w.best \in (-1) .. Codes
  BY DEF Sensor!Windows
<1>2. mid \in Int /\ w.lo <= mid /\ mid <= w.hi  BY <1>1, CodesKnown DEF Sensor!Middle
<1>3. b \in {mid, w.best}  BY DEF Sensor!Better
<1> HIDE DEF mid, b
<1>4. mid \in 0 .. Codes /\ mid + 1 \in 0 .. Codes + 1 /\ mid - 1 \in (-1) .. Codes /\ b \in (-1) .. Codes
  BY <1>1, <1>2, <1>3, CodesKnown
<1>5. [lo |-> mid + 1, hi |-> w.hi, best |-> b] \in Sensor!Windows
  BY <1>1, <1>4 DEF Sensor!Windows
<1>6. [lo |-> w.lo, hi |-> mid - 1, best |-> b] \in Sensor!Windows
  BY <1>1, <1>4 DEF Sensor!Windows
<1> QED BY <1>2, <1>3, <1>4, <1>5, <1>6 DEF mid, b

\* A step of the bisection looks only at smaller windows.
LEMMA BisectIsLocal ==
    ASSUME NEW f, NEW v, NEW s, NEW t, NEW w \in Sensor!Windows,
           \A x \in Sensor!Windows : x.hi - x.lo < w.hi - w.lo => s[x] = t[x]
    PROVE  Bisect(f, v, s, w) = Bisect(f, v, t, w)
<1> DEFINE mid == Sensor!Middle(w)
           b == Sensor!Better(f, v, mid, w.best)
           above == [lo |-> mid + 1, hi |-> w.hi, best |-> b]
           below == [lo |-> w.lo, hi |-> mid - 1, best |-> b]
<1>1. w.lo \in Int /\ w.hi \in Int  BY CodesKnown DEF Sensor!Windows
<1>2. CASE w.lo > w.hi
  BY <1>2 DEF Bisect
<1>3. CASE w.lo <= w.hi
  <2>1. mid \in 0 .. Codes /\ w.lo <= mid /\ mid <= w.hi /\ above \in Sensor!Windows /\ below \in Sensor!Windows
    BY <1>3, HalvesAreWindows
  <2>2. above.hi - above.lo < w.hi - w.lo /\ below.hi - below.lo < w.hi - w.lo
    <3> HIDE DEF mid, b
    <3> QED BY <1>1, <2>1
  <2>3. s[above] = t[above] /\ s[below] = t[below]  BY <2>1, <2>2
  <2>4. ~ (w.lo > w.hi)  BY <1>1, <1>3
  <2> QED BY <2>3, <2>4 DEF Bisect
<1> QED BY <1>1, <1>2, <1>3

\* There is such a search: windows of any size are searched by searching smaller ones.
LEMMA SearchExists == ASSUME NEW f, NEW v PROVE \E s : s = [w \in Sensor!Windows |-> Bisect(f, v, s, w)]
<1> DEFINE Upto(s, n) == \A w \in Sensor!Windows : w.hi - w.lo < n => s[w] = Bisect(f, v, s, w)
           T == {n \in Nat : ~ \E s : Upto(s, n)}
<1>1. T = {}
  <2> SUFFICES ASSUME T # {} PROVE FALSE
    OBVIOUS
  <2>1. PICK n \in T : \A m \in T : n <= m
    BY LeastNat
  <2>2. n \in Nat /\ ~ \E s : Upto(s, n)  BY <2>1
  <2>3. CASE n = 0
    <3> DEFINE s == [w \in Sensor!Windows |-> w.best]
    <3>1. ASSUME NEW w \in Sensor!Windows, w.hi - w.lo < 0 PROVE s[w] = Bisect(f, v, s, w)
      <4>1. w.lo > w.hi  BY <3>1, CodesKnown DEF Sensor!Windows
      <4> QED BY <4>1 DEF Bisect
    <3> HIDE DEF s
    <3> QED BY <2>2, <2>3, <3>1
  <2>4. CASE n # 0
    <3>1. n - 1 \in Nat /\ n - 1 \notin T
      <4>1. n - 1 \in Nat /\ ~ (n <= n - 1)  BY <2>2, <2>4
      <4> QED BY <2>1, <4>1
    <3>2. PICK s : Upto(s, n - 1)
      BY <3>1
    <3> DEFINE t == [w \in Sensor!Windows |-> Bisect(f, v, s, w)]
    <3>3. ASSUME NEW w \in Sensor!Windows, w.hi - w.lo < n PROVE t[w] = Bisect(f, v, t, w)
      <4>1. ASSUME NEW x \in Sensor!Windows, x.hi - x.lo < w.hi - w.lo PROVE s[x] = t[x]
        <5>1. x.hi - x.lo < n - 1  BY <2>2, <3>3, <4>1, CodesKnown DEF Sensor!Windows
        <5>2. s[x] = Bisect(f, v, s, x)  BY <3>2, <5>1
        <5> QED BY <5>2
      <4> HIDE DEF t
      <4>2. Bisect(f, v, s, w) = Bisect(f, v, t, w)  BY <4>1, BisectIsLocal
      <4> QED BY <4>2 DEF t
    <3> HIDE DEF t
    <3> QED BY <2>2, <3>3
  <2> QED BY <2>3, <2>4
<1>2. PICK s : Upto(s, Codes + 1)
  <2>1. Codes + 1 \in Nat  BY CodesKnown
  <2> QED BY <1>1, <2>1
<1>3. ASSUME NEW w \in Sensor!Windows PROVE s[w] = Bisect(f, v, s, w)
  <2>1. w.hi - w.lo < Codes + 1  BY CodesKnown DEF Sensor!Windows
  <2> QED BY <1>2, <2>1
<1> DEFINE t == [w \in Sensor!Windows |-> Bisect(f, v, s, w)]
<1>4. ASSUME NEW w \in Sensor!Windows PROVE s[w] = t[w]
  BY <1>3
<1>5. ASSUME NEW w \in Sensor!Windows PROVE Bisect(f, v, s, w) = Bisect(f, v, t, w)
  <2> HIDE DEF t
  <2> QED BY <1>4, BisectIsLocal
<1>6. t = [w \in Sensor!Windows |-> Bisect(f, v, t, w)]
  <2>1. [w \in Sensor!Windows |-> Bisect(f, v, s, w)] = [w \in Sensor!Windows |-> Bisect(f, v, t, w)]
    <3> HIDE DEF t
    <3> QED BY <1>5
  <2> QED BY <2>1
<1> HIDE DEF t
<1> QED BY <1>6

\* No code is nearer.
Near(f, v, c) == \A i \in 0 .. Codes : Sensor!Miss(f, c, v) <= Sensor!Miss(f, i, v)

\* What the bisection has ruled out: the codes below the window are too small, those above it too large, and of
\* both the best one tried is the nearest.
Bounded(f, v, w) ==
    /\ w.lo <= w.hi + 1
    /\ \A i \in 0 .. Codes :
          /\ i < w.lo => f[i] < v /\ w.best >= 0 /\ Sensor!Miss(f, w.best, v) <= Sensor!Miss(f, i, v)
          /\ i > w.hi => f[i] > v /\ w.best >= 0 /\ Sensor!Miss(f, w.best, v) <= Sensor!Miss(f, i, v)

\* The value of a code, and how far it is from the one asked for.
LEMMA MissIs ==
    ASSUME NEW f \in Sensor!Tables, NEW v \in 0 .. Codes, NEW i \in 0 .. Codes
    PROVE  /\ f[i] \in 0 .. Codes /\ Sensor!Miss(f, i, v) \in Nat
           /\ f[i] <= v => Sensor!Miss(f, i, v) = v - f[i]
           /\ f[i] >= v => Sensor!Miss(f, i, v) = f[i] - v
<1>1. f[i] \in 0 .. Codes  BY DEF Sensor!Tables
<1> QED BY <1>1, CodesKnown DEF Sensor!Miss

\* A step to one side keeps what was ruled out.
LEMMA SidesBounded ==
    ASSUME NEW f \in Sensor!Tables, NEW v \in 0 .. Codes, NEW w \in Sensor!Windows, Bounded(f, v, w), w.lo <= w.hi
    PROVE  LET mid == Sensor!Middle(w)
               b == Sensor!Better(f, v, mid, w.best)
           IN  /\ f[mid] < v => Bounded(f, v, [lo |-> mid + 1, hi |-> w.hi, best |-> b])
               /\ f[mid] > v => Bounded(f, v, [lo |-> w.lo, hi |-> mid - 1, best |-> b])
<1> DEFINE mid == Sensor!Middle(w)
           b == Sensor!Better(f, v, mid, w.best)
           M(i) == Sensor!Miss(f, i, v)
<1>1. /\ mid \in 0 .. Codes /\ w.lo <= mid /\ mid <= w.hi /\ b \in {mid, w.best}
      /\ w.lo \in 0 .. Codes + 1 /\ w.hi \in (-1) .. Codes /\ w.best \in (-1) .. Codes
  BY HalvesAreWindows DEF Sensor!Windows
<1>2. b >= 0 /\ M(b) <= M(mid) /\ (w.best >= 0 => M(b) <= M(w.best)) /\ b \in 0 .. Codes
  <2>1. M(mid) \in Nat /\ (w.best >= 0 => M(w.best) \in Nat /\ w.best \in 0 .. Codes)
    BY <1>1, MissIs, CodesKnown
  <2>2. b = IF w.best < 0 \/ M(mid) < M(w.best) THEN mid ELSE w.best  BY DEF Sensor!Better
  <2> HIDE DEF mid, b, M
  <2> QED BY <1>1, <2>1, <2>2, CodesKnown
<1> HIDE DEF mid, b
<1>3. ASSUME NEW i \in 0 .. Codes, w.best >= 0, M(w.best) <= M(i) PROVE M(b) <= M(i)
  <2>1. M(i) \in Nat /\ M(b) \in Nat /\ M(w.best) \in Nat
    BY <1>1, <1>2, <1>3, MissIs, CodesKnown
  <2> HIDE DEF M
  <2> QED BY <1>2, <1>3, <2>1
<1>4. ASSUME f[mid] < v PROVE Bounded(f, v, [lo |-> mid + 1, hi |-> w.hi, best |-> b])
  <2> DEFINE x == [lo |-> mid + 1, hi |-> w.hi, best |-> b]
  <2>1. x.lo = mid + 1 /\ x.hi = w.hi /\ x.best = b  OBVIOUS
  <2> HIDE DEF x
  <2>2. ASSUME NEW i \in 0 .. Codes, i < mid + 1 PROVE f[i] < v /\ M(b) <= M(i)
    <3>1. i <= mid  BY <1>1, <2>2
    <3>2. f[i] <= f[mid]  BY <1>1, <3>1 DEF Sensor!Tables
    <3>3. f[i] \in 0 .. Codes /\ f[mid] \in 0 .. Codes /\ M(b) \in Nat  BY <1>1, <1>2, MissIs
    <3>4. M(i) = v - f[i] /\ M(mid) = v - f[mid]  BY <1>1, <1>4, <3>2, <3>3, MissIs, CodesKnown
    <3> HIDE DEF M
    <3> QED BY <1>2, <1>4, <3>2, <3>3, <3>4, CodesKnown
  <2>3. ASSUME NEW i \in 0 .. Codes, i > w.hi PROVE f[i] > v /\ M(b) <= M(i)
    BY <1>3, <2>3 DEF Bounded
  <2>4. mid + 1 <= w.hi + 1  BY <1>1
  <2> QED BY <1>2, <2>1, <2>2, <2>3, <2>4 DEF Bounded, x
<1>5. ASSUME f[mid] > v PROVE Bounded(f, v, [lo |-> w.lo, hi |-> mid - 1, best |-> b])
  <2> DEFINE x == [lo |-> w.lo, hi |-> mid - 1, best |-> b]
  <2>1. x.lo = w.lo /\ x.hi = mid - 1 /\ x.best = b  OBVIOUS
  <2> HIDE DEF x
  <2>2. ASSUME NEW i \in 0 .. Codes, i > mid - 1 PROVE f[i] > v /\ M(b) <= M(i)
    <3>1. i >= mid  BY <1>1, <2>2
    <3>2. f[i] >= f[mid]  BY <1>1, <3>1 DEF Sensor!Tables
    <3>3. f[i] \in 0 .. Codes /\ f[mid] \in 0 .. Codes /\ M(b) \in Nat  BY <1>1, <1>2, MissIs
    <3>4. M(i) = f[i] - v /\ M(mid) = f[mid] - v  BY <1>1, <1>5, <3>2, <3>3, MissIs, CodesKnown
    <3> HIDE DEF M
    <3> QED BY <1>2, <1>5, <3>2, <3>3, <3>4, CodesKnown
  <2>3. ASSUME NEW i \in 0 .. Codes, i < w.lo PROVE f[i] < v /\ M(b) <= M(i)
    BY <1>3, <2>3 DEF Bounded
  <2>4. w.lo <= (mid - 1) + 1  BY <1>1
  <2> QED BY <1>2, <2>1, <2>2, <2>3, <2>4 DEF Bounded, x
<1> QED BY <1>4, <1>5 DEF mid, b

\* Whatever search satisfies its equation finds a nearest code.
LEMMA SearchFinds ==
    ASSUME NEW f \in Sensor!Tables, NEW v \in 0 .. Codes, NEW s,
           s = [w \in Sensor!Windows |-> Bisect(f, v, s, w)]
    PROVE  Near(f, v, s[[lo |-> 0, hi |-> Codes, best |-> -1]])
<1>0. ASSUME NEW w \in Sensor!Windows PROVE s[w] = Bisect(f, v, s, w)
  BY Zenon
<1> DEFINE Wrong(n, w) == w.hi - w.lo + 1 = n /\ Bounded(f, v, w) /\ ~ Near(f, v, s[w])
           T == {n \in Nat : \E w \in Sensor!Windows : Wrong(n, w)}
<1>1. T = {}
  <2> SUFFICES ASSUME T # {} PROVE FALSE
    OBVIOUS
  <2>1. PICK n \in T : \A m \in T : n <= m
    BY LeastNat
  <2>2. PICK w \in Sensor!Windows : Wrong(n, w)
    BY <2>1
  <2>3. n \in Nat /\ w.hi - w.lo + 1 = n /\ Bounded(f, v, w) /\ ~ Near(f, v, s[w])
        /\ w.lo \in 0 .. Codes + 1 /\ w.hi \in (-1) .. Codes /\ w.best \in (-1) .. Codes
    BY <2>1, <2>2 DEF Sensor!Windows
  <2>4. ASSUME NEW x \in Sensor!Windows, x.hi - x.lo < w.hi - w.lo, Bounded(f, v, x) PROVE Near(f, v, s[x])
    <3> DEFINE m == x.hi - x.lo + 1
    <3>1. m \in Nat /\ ~ (n <= m)  BY <2>3, <2>4, CodesKnown DEF Sensor!Windows, Bounded
    <3>2. m \notin T  BY <2>1, <3>1
    <3> QED BY <2>4, <3>1, <3>2
  <2>5. CASE w.lo > w.hi
    <3>1. s[w] = w.best  BY <1>0, <2>5 DEF Bisect
    <3>2. ASSUME NEW i \in 0 .. Codes PROVE Sensor!Miss(f, w.best, v) <= Sensor!Miss(f, i, v)
      <4>1. i < w.lo \/ i > w.hi  BY <2>3, <2>5, CodesKnown
      <4> QED BY <2>3, <4>1 DEF Bounded
    <3> QED BY <2>3, <3>1, <3>2 DEF Near
  <2>6. CASE w.lo <= w.hi
    <3> DEFINE mid == Sensor!Middle(w)
               b == Sensor!Better(f, v, mid, w.best)
               above == [lo |-> mid + 1, hi |-> w.hi, best |-> b]
               below == [lo |-> w.lo, hi |-> mid - 1, best |-> b]
    <3>1. mid \in 0 .. Codes /\ w.lo <= mid /\ mid <= w.hi /\ above \in Sensor!Windows /\ below \in Sensor!Windows
      BY <2>6, HalvesAreWindows
    <3>2. (f[mid] < v => Bounded(f, v, above)) /\ (f[mid] > v => Bounded(f, v, below))
      BY <2>3, <2>6, SidesBounded
    <3>3. s[w] = IF f[mid] < v THEN s[above] ELSE IF f[mid] > v THEN s[below] ELSE mid
      <4>1. ~ (w.lo > w.hi)  BY <2>3, <2>6, CodesKnown
      <4> QED BY <1>0, <4>1 DEF Bisect
    <3>4. above.hi - above.lo < w.hi - w.lo /\ below.hi - below.lo < w.hi - w.lo
      <4> HIDE DEF mid, b
      <4> QED BY <2>3, <3>1, CodesKnown
    <3> HIDE DEF mid, b, above, below
    <3>5. CASE f[mid] < v
      BY <2>3, <2>4, <3>1, <3>2, <3>3, <3>4, <3>5
    <3>6. CASE f[mid] > v
      <4>1. ~ (f[mid] < v)  BY <3>1, <3>6, MissIs, CodesKnown
      <4> QED BY <2>3, <2>4, <3>1, <3>2, <3>3, <3>4, <3>6, <4>1
    <3>7. CASE ~ (f[mid] < v) /\ ~ (f[mid] > v)
      <4>1. s[w] = mid /\ f[mid] = v  BY <3>1, <3>3, <3>7, MissIs, CodesKnown
      <4>2. Sensor!Miss(f, mid, v) = 0  BY <4>1, CodesKnown DEF Sensor!Miss
      <4>3. Near(f, v, mid)  BY <4>2, MissIs, CodesKnown DEF Near
      <4> QED BY <2>3, <4>1, <4>3
    <3> QED BY <3>5, <3>6, <3>7
  <2> QED BY <2>3, <2>5, <2>6, CodesKnown
<1> DEFINE w == [lo |-> 0, hi |-> Codes, best |-> -1]
<1>2. w \in Sensor!Windows /\ w.lo = 0 /\ w.hi = Codes  BY CodesKnown DEF Sensor!Windows
<1>3. Bounded(f, v, w) /\ w.hi - w.lo + 1 \in Nat
  <2> HIDE DEF w
  <2> QED BY <1>2, CodesKnown DEF Bounded
<1> HIDE DEF w
<1>4. Near(f, v, s[w])
  <2>1. w.hi - w.lo + 1 \notin T  BY <1>1
  <2> QED BY <1>2, <1>3, <2>1
<1> QED BY <1>4 DEF w

\* find_adc_t_for_temp_c and its siblings, for every monotone table and every value.
LEMMA FindAdcNearest ==
    ASSUME NEW f \in Sensor!Tables, NEW v \in 0 .. Codes
    PROVE  Near(f, v, Sensor!FindAdc(f, v))
<1> DEFINE body(s, w) ==
               LET mid == Sensor!Middle(w)
                   b == Sensor!Better(f, v, mid, w.best)
               IN  IF w.lo > w.hi THEN w.best
                   ELSE IF f[mid] < v THEN s[[lo |-> mid + 1, hi |-> w.hi, best |-> b]]
                   ELSE IF f[mid] > v THEN s[[lo |-> w.lo, hi |-> mid - 1, best |-> b]]
                   ELSE mid
           search == CHOOSE s : s = [w \in Sensor!Windows |-> body(s, w)]
<1>1. Sensor!FindAdc(f, v) = search[[lo |-> 0, hi |-> Codes, best |-> -1]]
  BY Zenon DEF Sensor!FindAdc
<1>2. \E s : s = [w \in Sensor!Windows |-> body(s, w)]  BY SearchExists, Zenon DEF Bisect
<1>3. search = [w \in Sensor!Windows |-> body(search, w)]
  <2> HIDE DEF body
  <2> QED BY <1>2, Zenon
<1>4. search = [w \in Sensor!Windows |-> Bisect(f, v, search, w)]
  <2> HIDE DEF search
  <2> QED BY <1>3, Zenon DEF Bisect
<1> HIDE DEF search
<1>5. Near(f, v, search[[lo |-> 0, hi |-> Codes, best |-> -1]])  BY <1>4, SearchFinds
<1> QED BY <1>1, <1>5

\* A register image, and the whole state of a sensor.
Images == [cfg : {0, 1}, pwr : {"sleep", "on", "reset"}, data : [v : 0 .. Codes, cfg : {0, 1}, on : BOOLEAN]]

\* sensor_sim.c: the images in the fabric and in the worker are images of some model.
SensorInv ==
    /\ active \in {"none"} \cup Models /\ values \in 0 .. Codes
    /\ target \in [armed : BOOLEAN, img : Images, wr : Nat]
    /\ rearm_pending \in BOOLEAN /\ unloaded \in BOOLEAN
    /\ wstep \in [at : {"idle", "armed", "set", "poll", "load"}, live : Images]

\* build_regimage, whatever it is built from.
LEMMA ImagesBuilt ==
    ASSUME NEW m, NEW v \in 0 .. Codes
    PROVE  /\ Sensor!PowerOn(m, v) \in Images /\ Sensor!Blank \in Images
           /\ \A live \in Images : Sensor!Rebuilt(m, v, live) \in Images
<1> DEFINE Data == [v : 0 .. Codes, cfg : {0, 1}, on : BOOLEAN]
<1>1. ASSUME NEW cfg \in {0, 1}, NEW pwr PROVE Sensor!Readings(m, v, cfg, pwr) \in Data
  <2>1. /\ Sensor!MpuReadings(v, cfg, pwr) \in Data /\ Sensor!ShtReadings(v) \in Data
        /\ Sensor!BoschReadings(v) \in Data
    BY DEF Sensor!MpuReadings, Sensor!ShtReadings, Sensor!BoschReadings
  <2> HIDE DEF Data
  <2>2. \/ Sensor!Readings(m, v, cfg, pwr) = Sensor!MpuReadings(v, cfg, pwr)
        \/ Sensor!Readings(m, v, cfg, pwr) = Sensor!ShtReadings(v)
        \/ Sensor!Readings(m, v, cfg, pwr) = Sensor!BoschReadings(v)
    BY DEF Sensor!Readings
  <2> QED BY <2>1, <2>2
<1>2. Sensor!PowerOn(m, v) \in Images
  <2>1. Sensor!Readings(m, v, 0, "sleep") \in Data  BY <1>1
  <2> QED BY <2>1 DEF Sensor!PowerOn, Images
<1>3. Sensor!Blank \in Images  BY CodesKnown DEF Sensor!Blank, Images
<1>4. ASSUME NEW live \in Images PROVE Sensor!Rebuilt(m, v, live) \in Images
  <2>1. live.cfg \in {0, 1}  BY DEF Images
  <2>2. Sensor!Readings(m, v, live.cfg, live.pwr) \in Data  BY <1>1, <2>1
  <2> DEFINE data == Sensor!Readings(m, v, live.cfg, live.pwr)
  <2>3. Sensor!Rebuilt(m, v, live) \in {Sensor!PowerOn(m, v), [live EXCEPT !.data = data]}
    BY DEF Sensor!Rebuilt
  <2> HIDE DEF data
  <2>4. ASSUME data \in Data PROVE [live EXCEPT !.data = data] \in Images
    BY <2>4 DEF Images
  <2> QED BY <1>2, <2>2, <2>3, <2>4 DEF data
<1> QED BY <1>2, <1>3, <1>4

\* Every step of the worker and of the DUT.
LEMMA SensorKeeps == SensorInv /\ [Sensor!Next]_sensorVars => SensorInv'
<1> SUFFICES ASSUME SensorInv, [Sensor!Next]_sensorVars PROVE SensorInv'
  OBVIOUS
<1> DEFINE Targets == [armed : BOOLEAN, img : Images, wr : Nat]
           Works == [at : {"idle", "armed", "set", "poll", "load"}, live : Images]
<1>0. /\ active \in {"none"} \cup Models /\ values \in 0 .. Codes /\ target \in Targets /\ wstep \in Works
      /\ rearm_pending \in BOOLEAN /\ unloaded \in BOOLEAN
  BY DEF SensorInv
<1>00. /\ 0 \in 0 .. Codes /\ Sensor!Blank \in Images /\ Sensor!AtIdle \in Works
       /\ \A a \in {"idle", "armed", "set", "poll", "load"} : [Sensor!AtIdle EXCEPT !.at = a] \in Works
  <2>1. 0 \in 0 .. Codes  BY CodesKnown
  <2>2. Sensor!Blank \in Images  BY <2>1, ImagesBuilt
  <2> QED BY <2>1, <2>2 DEF Sensor!AtIdle
<1>1. ASSUME NEW m \in Models, NEW v \in 0 .. Codes
      PROVE  /\ Sensor!PowerOn(m, v) \in Images
             /\ Sensor!Armed(m, v) \in Targets
             /\ [target EXCEPT !.armed = FALSE, !.img = Sensor!PowerOn(m, v)] \in Targets
  <2>1. Sensor!PowerOn(m, v) \in Images  BY ImagesBuilt
  <2> QED BY <1>0, <2>1 DEF Sensor!Armed
<1>2. ASSUME NEW m \in Models, Sensor!SensorStart(m) PROVE SensorInv'
  <2>1. /\ values' = 0 /\ rearm_pending' = FALSE /\ unloaded' = FALSE
        /\ \/ active' = m /\ target' = Sensor!Armed(m, 0) /\ wstep' = [Sensor!AtIdle EXCEPT !.at = "armed"]
           \/ /\ active' = "none" /\ target' = [target EXCEPT !.armed = FALSE, !.img = Sensor!PowerOn(m, 0)]
              /\ wstep' = wstep
    BY <1>2 DEF Sensor!SensorStart, Sensor!ArmBegins
  <2> HIDE DEF Targets, Works
  <2>2. Sensor!Armed(m, 0) \in Targets /\ [target EXCEPT !.armed = FALSE, !.img = Sensor!PowerOn(m, 0)] \in Targets
    BY <1>00, <1>1
  <2>3. [Sensor!AtIdle EXCEPT !.at = "armed"] \in Works  BY <1>00
  <2>4. target' \in Targets /\ wstep' \in Works  BY <1>0, <2>1, <2>2, <2>3
  <2> QED BY <1>00, <2>1, <2>4 DEF SensorInv, Targets, Works
<1>3. CASE Sensor!ArmEnds
  BY <1>0, <1>00, <1>3 DEF SensorInv, Sensor!ArmEnds
<1>4. CASE Sensor!SensorStop
  <2>1. target' \in Targets  BY <1>0, <1>4 DEF Sensor!SensorStop
  <2> QED BY <1>0, <1>4, <2>1 DEF SensorInv, Sensor!SensorStop
<1>5. ASSUME NEW v \in 0 .. Codes, Sensor!SensorSet(v) PROVE SensorInv'
  <2>1. wstep' \in Works  BY <1>00, <1>5 DEF Sensor!SensorSet
  <2> QED BY <1>0, <1>5, <2>1 DEF SensorInv, Sensor!SensorSet
<1>6. CASE Sensor!RearmPoll
  <2>1. active \in Models /\ rearm_pending' = FALSE /\ UNCHANGED values
    BY <1>0, <1>6 DEF Sensor!RearmPoll
  <2>2. \/ /\ target' = Sensor!Armed(active, values) /\ wstep' = [Sensor!AtIdle EXCEPT !.at = "armed"]
           /\ unloaded' = FALSE /\ active' = active
        \/ active' = "none" /\ UNCHANGED <<target, wstep, unloaded>>
    BY <1>6 DEF Sensor!RearmPoll, Sensor!ArmBegins
  <2> HIDE DEF Targets, Works
  <2>3. Sensor!Armed(active, values) \in Targets  BY <1>0, <1>1, <2>1
  <2>4. [Sensor!AtIdle EXCEPT !.at = "armed"] \in Works  BY <1>00
  <2>5. target' \in Targets /\ wstep' \in Works  BY <1>0, <2>2, <2>3, <2>4
  <2> QED BY <1>0, <2>1, <2>2, <2>5 DEF SensorInv, Targets, Works
<1>7. CASE Sensor!WatchPoll
  <2>1. wstep' \in Works  BY <1>00, <1>7 DEF Sensor!WatchPoll
  <2> QED BY <1>0, <1>7, <2>1 DEF SensorInv, Sensor!WatchPoll
<1>8. CASE Sensor!ReadLive
  <2>1. wstep' \in Works  BY <1>0, <1>00, <1>8 DEF Sensor!ReadLive
  <2> QED BY <1>0, <1>8, <2>1 DEF SensorInv, Sensor!ReadLive
<1>9. CASE Sensor!Load
  <2>1. wstep.live \in Images /\ target.img \in Images  BY <1>0
  <2>2. Sensor!Rebuilt(active, values, wstep.live) \in Images  BY <1>0, <2>1, ImagesBuilt
  <2> DEFINE built == Sensor!Rebuilt(active, values, wstep.live)
  <2>3. Sensor!Loaded(target.img, wstep.live) \in {built, [target.img EXCEPT !.data = built.data]}
    BY DEF Sensor!Loaded
  <2> HIDE DEF built
  <2>4. [target.img EXCEPT !.data = built.data] \in Images  BY <2>1, <2>2 DEF Images, built
  <2>5. Sensor!Loaded(target.img, wstep.live) \in Images  BY <2>2, <2>3, <2>4 DEF built
  <2>6. target' \in Targets  BY <1>0, <1>9, <2>5 DEF Sensor!Load
  <2> QED BY <1>0, <1>00, <1>9, <2>6 DEF SensorInv, Sensor!Load
<1>10. CASE Sensor!Reconfigured
  <2>1. target' \in Targets  BY <1>00, <1>10 DEF Sensor!Reconfigured
  <2> QED BY <1>0, <1>10, <2>1 DEF SensorInv, Sensor!Reconfigured
<1>11. CASE Sensor!DutWrites
  <2>1. PICK i \in Sensor!DutImages(target.img) : target' = [target EXCEPT !.img = i, !.wr = @ + 1]
    BY <1>11 DEF Sensor!DutWrites
  <2>2. target.img \in Images /\ target.wr + 1 \in Nat  BY <1>0
  <2>3. i \in Images  BY <2>1, <2>2 DEF Sensor!DutImages, Images
  <2>4. target' \in Targets  BY <1>0, <2>1, <2>2, <2>3
  <2> QED BY <1>0, <1>11, <2>4 DEF SensorInv, Sensor!DutWrites
<1>12. CASE UNCHANGED sensorVars
  BY <1>0, <1>12 DEF SensorInv, sensorVars
<1> QED BY <1>2, <1>3, <1>4, <1>5, <1>6, <1>7, <1>8, <1>9, <1>10, <1>11, <1>12 DEF Sensor!Next

\* No sensor, a blank target.
LEMMA SensorStarts == Sensor!Init => SensorInv
<1> SUFFICES ASSUME Sensor!Init PROVE SensorInv
  OBVIOUS
<1>1. 0 \in 0 .. Codes  BY CodesKnown
<1>2. Sensor!Blank \in Images  BY <1>1, ImagesBuilt
<1>3. target \in [armed : BOOLEAN, img : Images, wr : Nat]
      /\ wstep \in [at : {"idle", "armed", "set", "poll", "load"}, live : Images]
  BY <1>2 DEF Sensor!Init, Sensor!AtIdle
<1> QED BY <1>1, <1>3 DEF SensorInv, Sensor!Init

\* What the invariant says of the properties: a set value is always one the bisection finds the nearest code for.
LEMMA SensorSays == SensorInv => Sensor!TypeOK /\ Sensor!CodesNearest
<1> SUFFICES ASSUME SensorInv PROVE Sensor!TypeOK /\ Sensor!CodesNearest
  OBVIOUS
<1>1. Sensor!TypeOK  BY DEF SensorInv, Sensor!TypeOK, Images
<1>2. ASSUME NEW f \in Sensor!Tables, NEW i \in 0 .. Codes
      PROVE  Sensor!Miss(f, Sensor!FindAdc(f, values), values) <= Sensor!Miss(f, i, values)
  <2>1. values \in 0 .. Codes  BY DEF SensorInv
  <2>2. Near(f, values, Sensor!FindAdc(f, values))  BY <2>1, FindAdcNearest
  <2> QED BY <2>2 DEF Near
<1> QED BY <1>1, <1>2 DEF Sensor!CodesNearest

\* A result goes only when it was sent to its end or another profile is started.
LEMMA ProfileStep == ProfileInv /\ [Profile!Next]_profileVars => Profile!ResultGoes
<1> SUFFICES ASSUME ProfileInv, [Profile!Next]_profileVars, ps.any, ~ps'.any
             PROVE  \/ profiles' # profiles
                    \/ \E c \in Conns \cup {Cloud} : client'[c].got.end /\ client'[c].got.prof = ps.no
  BY DEF Profile!ResultGoes
<1>0. /\ ps \in [any : BOOLEAN, running : BOOLEAN, no : 0 .. MaxProfiles, n : 0 .. MaxReadings, errs : 0 .. MaxErrors]
      /\ client \in [Conns \cup {Cloud} -> Clients] /\ profiles \in Nat
  BY ProfileNumbers DEF ProfileInv
<1>1. ASSUME Profile!ReplyPump
      PROVE  \E c \in Conns \cup {Cloud} : client'[c].got.end /\ client'[c].got.prof = ps.no
  <2> DEFINE c == s_reply.conn
  <2>1. c \in Conns \cup {Cloud} /\ client[c].got.prof = ps.no
    BY <1>1 DEF ProfileInv, Profile!ReplyPump
  <2>2. ~UNCHANGED ps  OBVIOUS
  <2>3. PICK k : Profile!Frame(c, k)
    BY <1>1, <2>2 DEF Profile!ReplyPump, Profile!GivesUp
  <2>4. s_reply.next + k >= Profile!Kept  BY <2>2, <2>3, SMTT(30) DEF Profile!Frame
  <2>5. client' = [client EXCEPT ![c].got.count = @ + k, ![c].got.end = TRUE,
                                 ![c].got.torn = @ \/ ~Profile!HasResult \/ client[c].got.prof # ps.no]
    BY <2>3, <2>4 DEF Profile!Frame
  <2> HIDE DEF c
  <2>6. client'[c].got.end = TRUE /\ client'[c].got.prof = client[c].got.prof
    BY <1>0, <2>1, <2>5 DEF Clients, Gots
  <2> QED BY <2>1, <2>6
<1>2. ASSUME NEW c, NEW keep, NEW oneshot, Profile!CmdStart(c, keep, oneshot) PROVE profiles' # profiles
  BY <1>0, <1>2 DEF Profile!CmdStart
<1>3. ASSUME NEW what, Profile!Poll(what) PROVE FALSE
  BY <1>0, <1>3 DEF Profile!Poll, Profile!Finish
<1>4. ASSUME Profile!Stop PROVE FALSE
  BY <1>0, <1>4 DEF Profile!Stop, Profile!Finish
<1>5. ASSUME NEW c, Profile!CmdStop(c) \/ Profile!ConnClosed(c) PROVE FALSE
  BY <1>4, <1>5 DEF Profile!CmdStop, Profile!ConnClosed
<1>6. ASSUME NEW c, Profile!Leaves(c) \/ Profile!StopsReading(c) PROVE FALSE
  BY <1>6 DEF Profile!Leaves, Profile!StopsReading
<1>7. ASSUME Profile!ServiceOneshot \/ UNCHANGED profileVars PROVE FALSE
  BY <1>7 DEF Profile!ServiceOneshot, profileVars
<1> QED BY <1>1, <1>2, <1>3, <1>5, <1>6, <1>7 DEF Profile!Next

\* A reload writes the data window only.
LEMMA SensorStep == SensorInv /\ [Sensor!Next]_sensorVars => Sensor!LoadSpares
<1> SUFFICES ASSUME SensorInv, [Sensor!Next]_sensorVars, wstep.at = "load", ~Sensor!Resets(active, wstep.live)
             PROVE  \/ target'.wr # target.wr
                    \/ target'.img.cfg = target.img.cfg /\ target'.img.pwr = target.img.pwr
  BY DEF Sensor!LoadSpares
<1>0. target \in [armed : BOOLEAN, img : Images, wr : Nat]  BY DEF SensorInv
<1>1. CASE Sensor!Load
  <2> DEFINE data == Sensor!Rebuilt(active, values, wstep.live).data
  <2>1. target' = [target EXCEPT !.img = [target.img EXCEPT !.data = data]]
    BY <1>1 DEF Sensor!Load, Sensor!Loaded
  <2> HIDE DEF data
  <2> QED BY <1>0, <2>1 DEF Images
<1>2. CASE Sensor!DutWrites
  <2>1. PICK i : target' = [target EXCEPT !.img = i, !.wr = @ + 1]
    BY <1>2 DEF Sensor!DutWrites
  <2>2. target'.wr = target.wr + 1 /\ target.wr \in Nat  BY <1>0, <2>1
  <2> QED BY <2>2
<1>3. CASE UNCHANGED target
  BY <1>3
<1>4. ASSUME NEW m, Sensor!SensorStart(m) PROVE FALSE
  BY <1>4 DEF Sensor!SensorStart, Sensor!Cmd, Sensor!Worker
<1>5. ASSUME Sensor!SensorStop \/ Sensor!RearmPoll \/ Sensor!Reconfigured PROVE FALSE
  BY <1>5 DEF Sensor!SensorStop, Sensor!RearmPoll, Sensor!Reconfigured, Sensor!Cmd, Sensor!Worker
<1>6. ASSUME NEW v, Sensor!SensorSet(v) PROVE UNCHANGED target
  BY <1>6 DEF Sensor!SensorSet
<1>7. ASSUME Sensor!ArmEnds \/ Sensor!WatchPoll \/ Sensor!ReadLive \/ UNCHANGED sensorVars PROVE UNCHANGED target
  BY <1>7 DEF Sensor!ArmEnds, Sensor!WatchPoll, Sensor!ReadLive, sensorVars
<1> QED BY <1>1, <1>2, <1>3, <1>4, <1>5, <1>6, <1>7 DEF Sensor!Next

--------------------------------------------------------------------------------
\* can_bus.c: the frames between two indices of the ring, and the slot of each.
Used(h, t) == IF h >= t THEN h - t ELSE h + RxRing - t
Slot(t, k) == IF t + k < RxRing THEN t + k ELSE t + k - RxRing

\* The bounds of the CAN core and of its ring.
LEMMA CanNumbers ==
    /\ RxRing \in Nat \ {0} /\ RxFifo \in Nat \ {0} /\ TxFifo \in Nat \ {0}
    /\ MaxFrames \in Nat /\ MaxSends \in Nat /\ MaxBusOffs \in Nat /\ MaxConfigs \in Nat
  BY Assumptions DEF Can!ConstantsOK

\* The remainders the code takes of an index.
LEMMA NextSlot ==
    ASSUME NEW i \in 0 .. RxRing - 1
    PROVE  /\ (i + 1) % RxRing = (IF i + 1 = RxRing THEN 0 ELSE i + 1)
           /\ (i + 1) % RxRing \in 0 .. RxRing - 1
<1>1. CASE i + 1 = RxRing
  <2>1. (i + 1) = RxRing * 1 + 0  BY <1>1, CanNumbers
  <2>2. (RxRing * 1 + 0) % RxRing = 0  BY CanNumbers
  <2> QED BY <1>1, <2>1, <2>2, CanNumbers
<1>2. CASE i + 1 < RxRing
  <2>1. (i + 1) % RxRing = i + 1  BY <1>2, CanNumbers
  <2> QED BY <1>2, <2>1, CanNumbers
<1> QED BY <1>1, <1>2, CanNumbers

\* The number of frames, as can_rx_available computes it.
LEMMA UsedIs ==
    ASSUME NEW h \in 0 .. RxRing - 1, NEW t \in 0 .. RxRing - 1
    PROVE  (h + RxRing - t) % RxRing = Used(h, t) /\ Used(h, t) \in 0 .. RxRing - 1
<1>1. CASE h >= t
  <2>1. h + RxRing - t = RxRing * 1 + (h - t) /\ h - t \in 0 .. RxRing - 1  BY <1>1, CanNumbers
  <2>2. (RxRing * 1 + (h - t)) % RxRing = h - t  BY <2>1, CanNumbers
  <2> QED BY <1>1, <2>1, <2>2, CanNumbers DEF Used
<1>2. CASE h < t
  <2>1. h + RxRing - t \in 0 .. RxRing - 1  BY <1>2, CanNumbers
  <2>2. (h + RxRing - t) % RxRing = h + RxRing - t  BY <2>1, CanNumbers
  <2> QED BY <1>2, <2>1, <2>2, CanNumbers DEF Used
<1> QED BY <1>1, <1>2, CanNumbers

\* A frame put into the ring, or taken out of it.
LEMMA RingMoves ==
    ASSUME NEW h \in 0 .. RxRing - 1, NEW t \in 0 .. RxRing - 1
    PROVE  LET n == Used(h, t) IN
           /\ Can!Full(h, t) <=> n = RxRing - 1
           /\ ~Can!Full(h, t) => Used((h + 1) % RxRing, t) = n + 1
           /\ h # t <=> n > 0
           /\ h # t => Used(h, (t + 1) % RxRing) = n - 1
           /\ Slot(t, n) = h
           /\ \A k \in 0 .. n - 1 : Slot(t, k) # h /\ Slot(t, k) \in 0 .. RxRing - 1
           /\ h # t => \A k \in 0 .. n - 2 : Slot((t + 1) % RxRing, k) = Slot(t, k + 1)
<1> DEFINE n == Used(h, t)
           hn == (h + 1) % RxRing
           tn == (t + 1) % RxRing
<1>1. /\ hn = (IF h + 1 = RxRing THEN 0 ELSE h + 1) /\ hn \in 0 .. RxRing - 1
      /\ tn = (IF t + 1 = RxRing THEN 0 ELSE t + 1) /\ tn \in 0 .. RxRing - 1
  BY NextSlot
<1>2. n \in 0 .. RxRing - 1  BY UsedIs
<1>3. Can!Full(h, t) <=> hn = t  BY DEF Can!Full
<1>4. n = IF h >= t THEN h - t ELSE h + RxRing - t  BY DEF Used
<1> HIDE DEF hn, tn, n
<1>5. (hn = t) <=> n = RxRing - 1  BY <1>1, <1>4, CanNumbers
<1>6. hn # t => Used(hn, t) = n + 1  BY <1>1, <1>4, CanNumbers DEF Used
<1>7. h # t <=> n > 0  BY <1>4, CanNumbers
<1>8. h # t => Used(h, tn) = n - 1  BY <1>1, <1>4, CanNumbers DEF Used
<1>9. Slot(t, n) = h  BY <1>4, CanNumbers DEF Slot
<1>10. ASSUME NEW k \in 0 .. n - 1 PROVE Slot(t, k) # h /\ Slot(t, k) \in 0 .. RxRing - 1
  BY <1>2, <1>4, CanNumbers DEF Slot
<1>11. ASSUME h # t, NEW k \in 0 .. n - 2 PROVE Slot(tn, k) = Slot(t, k + 1)
  BY <1>1, <1>2, CanNumbers DEF Slot
<1> QED BY <1>3, <1>5, <1>6, <1>7, <1>8, <1>9, <1>10, <1>11 DEF n, hn, tn

\* can_bus.c: the frames are ascending from the ones read (rd) over the ring's (n of them from t on, the first one
\* already read when off is 1) to the ones in the core (hw), and none is newer than the bus's last (fr).
Ordered(hw, rd, ring, t, n, off, fr) ==
    /\ \A i, j \in 1 .. Len(rd) : i < j => rd[i] < rd[j]
    /\ \A j, k \in 0 .. n - 1 : j < k => ring[Slot(t, j)] < ring[Slot(t, k)]
    /\ \A i, j \in 1 .. Len(hw) : i < j => hw[i].n < hw[j].n
    /\ \A i \in 1 .. Len(rd) : rd[i] <= fr
    /\ \A k \in 0 .. n - 1 : ring[Slot(t, k)] <= fr
    /\ \A i \in 1 .. Len(hw) : hw[i].n <= fr
    /\ \A i \in 1 .. Len(rd), k \in off .. n - 1 : rd[i] < ring[Slot(t, k)]
    /\ \A i \in 1 .. Len(rd), j \in 1 .. Len(hw) : rd[i] < hw[j].n
    /\ \A k \in 0 .. n - 1, j \in 1 .. Len(hw) : ring[Slot(t, k)] < hw[j].n

Held == Used(s_rx_head, s_rx_tail)
Passed == IF wk.pc = "adv" THEN 1 ELSE 0

CanTypes ==
    /\ core \in {"off", "on", "busoff", "rejoining"} /\ hwRx \in Seq(Can!Frames) /\ Len(hwRx) <= RxFifo
    /\ tput \in Nat /\ tget \in 0 .. tput /\ tput - tget <= TxFifo /\ accepted = tput
    /\ irqOn \in BOOLEAN /\ boIrq \in BOOLEAN /\ s_enabled \in BOOLEAN /\ rule \in BOOLEAN
    /\ unheard \in BOOLEAN /\ unanswered \in BOOLEAN
    /\ s_rx_head \in 0 .. RxRing - 1 /\ s_rx_tail \in 0 .. RxRing - 1 /\ s_ring \in [0 .. RxRing - 1 -> Nat]
    /\ s_rx_overflow \in Nat /\ taken \in Seq(Nat) /\ read \in Seq(Nat)
    /\ wk \in [pc : {"idle", "up", "tx", "pop", "adv"}, put : Nat, was : BOOLEAN]
    /\ frames \in 0 .. MaxFrames /\ busOffs \in 0 .. MaxBusOffs /\ configs \in 0 .. MaxConfigs

\* What the counters have in common with the frames the bus brought, and with the worker's place.
CanCounts ==
    /\ tput + Len(hwRx) <= MaxSends + frames /\ s_rx_overflow + Len(hwRx) <= frames
    /\ wk.pc = "tx" => ~irqOn /\ wk.put = tput /\ tput < MaxSends
    /\ wk.pc = "up" => ~s_enabled
    /\ wk.pc \in {"pop", "adv"} => s_rx_head # s_rx_tail
    /\ s_enabled => Len(taken) + Passed = Len(read) + s_rx_overflow + Held

CanInv == CanTypes /\ CanCounts /\ Ordered(hwRx, read, s_ring, s_rx_tail, Held, Passed, frames)

\* The interrupt took a frame, into the ring or not.
LEMMA TakeOrders ==
    ASSUME NEW hw \in Seq(Can!Frames), hw # <<>>, NEW rd \in Seq(Nat), NEW ring \in [0 .. RxRing - 1 -> Nat],
           NEW h \in 0 .. RxRing - 1, NEW t \in 0 .. RxRing - 1, NEW off \in {0, 1}, NEW fr \in Nat,
           Ordered(hw, rd, ring, t, Used(h, t), off, fr)
    PROVE  /\ Ordered(Tail(hw), rd, ring, t, Used(h, t), off, fr)
           /\ ~Can!Full(h, t) => Ordered(Tail(hw), rd, [ring EXCEPT ![h] = Head(hw).n], t,
                                         Used((h + 1) % RxRing, t), off, fr)
<1> DEFINE n == Used(h, t)
           tl == Tail(hw)
<1>1. /\ tl \in Seq(Can!Frames) /\ Len(tl) = Len(hw) - 1 /\ Len(hw) \in Nat \ {0}
      /\ \A i \in 1 .. Len(tl) : tl[i] = hw[i + 1] /\ i + 1 \in 1 .. Len(hw)
      /\ Head(hw) = hw[1] /\ 1 \in 1 .. Len(hw)
  BY DEF Can!Frames
<1>2. n \in 0 .. RxRing - 1  BY UsedIs
<1>3. Ordered(tl, rd, ring, t, n, off, fr)
  <2> HIDE DEF tl, n
  <2>1. \A i, j \in 1 .. Len(tl) : i < j => tl[i].n < tl[j].n
    <3> SUFFICES ASSUME NEW i \in 1 .. Len(tl), NEW j \in 1 .. Len(tl), i < j PROVE tl[i].n < tl[j].n
      OBVIOUS
    <3>1. tl[i] = hw[i + 1] /\ tl[j] = hw[j + 1] /\ i + 1 \in 1 .. Len(hw) /\ j + 1 \in 1 .. Len(hw) /\ i + 1 < j + 1
      BY <1>1
    <3> QED BY <3>1 DEF Ordered, n
  <2> QED BY <1>1, <2>1 DEF Ordered, n
<1>4. ASSUME ~Can!Full(h, t) PROVE Ordered(tl, rd, [ring EXCEPT ![h] = Head(hw).n], t, n + 1, off, fr)
  <2> DEFINE new == [ring EXCEPT ![h] = Head(hw).n]
  <2>1. /\ \A k \in 0 .. n - 1 : Slot(t, k) # h /\ Slot(t, k) \in 0 .. RxRing - 1
        /\ Slot(t, n) = h
    BY RingMoves
  <2>2. hw[1].n \in Nat
    <3>1. hw[1] \in Can!Frames  BY <1>1
    <3> QED BY <3>1, CanNumbers DEF Can!Frames
  <2>3. \A k \in 0 .. n - 1 : new[Slot(t, k)] = ring[Slot(t, k)]  BY <2>1
  <2>4. new[Slot(t, n)] = hw[1].n  BY <1>1, <2>1
  <2>5. \A k \in 0 .. (n + 1) - 1 : k \in 0 .. n - 1 \/ k = n  BY <1>2
  <2> HIDE DEF tl, n, new
  <2>6. \A j, k \in 0 .. (n + 1) - 1 : j < k => new[Slot(t, j)] < new[Slot(t, k)]
    <3> SUFFICES ASSUME NEW j \in 0 .. (n + 1) - 1, NEW k \in 0 .. (n + 1) - 1, j < k
                 PROVE  new[Slot(t, j)] < new[Slot(t, k)]
      OBVIOUS
    <3>1. j \in 0 .. n - 1  BY <1>2
    <3>2. CASE k = n
      BY <1>1, <2>3, <2>4, <3>1, <3>2 DEF Ordered, n
    <3>3. CASE k \in 0 .. n - 1
      BY <2>3, <3>1, <3>3 DEF Ordered, n
    <3> QED BY <2>5, <3>2, <3>3
  <2>7. \A k \in 0 .. (n + 1) - 1 : new[Slot(t, k)] <= fr
    BY <1>1, <2>3, <2>4, <2>5 DEF Ordered, n
  <2>8. \A i \in 1 .. Len(rd), k \in off .. (n + 1) - 1 : rd[i] < new[Slot(t, k)]
    <3> SUFFICES ASSUME NEW i \in 1 .. Len(rd), NEW k \in off .. (n + 1) - 1
                 PROVE  rd[i] < new[Slot(t, k)]
      OBVIOUS
    <3>1. k \in 0 .. (n + 1) - 1  BY <1>2
    <3>2. CASE k = n
      BY <1>1, <2>4, <3>2 DEF Ordered
    <3>3. CASE k \in 0 .. n - 1
      <4>1. k \in off .. n - 1  BY <1>2, <3>3
      <4> QED BY <2>3, <3>3, <4>1 DEF Ordered, n
    <3> QED BY <2>5, <3>1, <3>2, <3>3
  <2>9. \A k \in 0 .. (n + 1) - 1, j \in 1 .. Len(tl) : new[Slot(t, k)] < tl[j].n
    <3> SUFFICES ASSUME NEW k \in 0 .. (n + 1) - 1, NEW j \in 1 .. Len(tl) PROVE new[Slot(t, k)] < tl[j].n
      OBVIOUS
    <3>1. tl[j] = hw[j + 1] /\ j + 1 \in 1 .. Len(hw) /\ 1 < j + 1  BY <1>1
    <3>2. CASE k = n
      BY <1>1, <2>4, <3>1, <3>2 DEF Ordered
    <3>3. CASE k \in 0 .. n - 1
      BY <2>3, <3>1, <3>3 DEF Ordered, n
    <3> QED BY <2>5, <3>2, <3>3
  <2>10. Ordered(tl, rd, new, t, n + 1, off, fr)  BY <1>3, <2>6, <2>7, <2>8, <2>9 DEF Ordered
  <2> QED BY <2>10 DEF new
<1>5. ~Can!Full(h, t) => Used((h + 1) % RxRing, t) = n + 1  BY RingMoves
<1> QED BY <1>3, <1>4, <1>5

\* can_rx_pop: the slot is read, then the index moves on.
LEMMA PopOrders ==
    ASSUME NEW hw \in Seq(Can!Frames), NEW rd \in Seq(Nat), NEW ring \in [0 .. RxRing - 1 -> Nat],
           NEW h \in 0 .. RxRing - 1, NEW t \in 0 .. RxRing - 1, NEW fr \in Nat, h # t
    PROVE  /\ Ordered(hw, rd, ring, t, Used(h, t), 0, fr) =>
                  Ordered(hw, Append(rd, ring[t]), ring, t, Used(h, t), 1, fr)
           /\ Ordered(hw, rd, ring, t, Used(h, t), 1, fr) =>
                  Ordered(hw, rd, ring, (t + 1) % RxRing, Used(h, (t + 1) % RxRing), 0, fr)
<1> DEFINE n == Used(h, t)
           ap == Append(rd, ring[t])
<1>1. n \in 0 .. RxRing - 1 /\ n > 0  BY RingMoves, UsedIs
<1>2. Slot(t, 0) = t  BY CanNumbers DEF Slot
<1>3. /\ ap \in Seq(Nat) /\ Len(ap) = Len(rd) + 1 /\ ap[Len(rd) + 1] = ring[t]
      /\ \A i \in 1 .. Len(rd) : ap[i] = rd[i]
      /\ \A i \in 1 .. Len(ap) : i \in 1 .. Len(rd) \/ i = Len(rd) + 1
  BY CanNumbers
<1> HIDE DEF n, ap
<1>4. ASSUME Ordered(hw, rd, ring, t, n, 0, fr) PROVE Ordered(hw, ap, ring, t, n, 1, fr)
  <2>0. 0 \in 0 .. n - 1 /\ Len(rd) \in Nat  BY <1>1
  <2>1. \A i, j \in 1 .. Len(ap) : i < j => ap[i] < ap[j]
    <3> SUFFICES ASSUME NEW i \in 1 .. Len(ap), NEW j \in 1 .. Len(ap), i < j PROVE ap[i] < ap[j]
      OBVIOUS
    <3>1. i \in 1 .. Len(rd)  BY <1>3, <2>0
    <3>2. CASE j = Len(rd) + 1
      BY <1>2, <1>3, <1>4, <2>0, <3>1, <3>2 DEF Ordered
    <3>3. CASE j \in 1 .. Len(rd)
      BY <1>3, <1>4, <3>1, <3>3 DEF Ordered
    <3> QED BY <1>3, <3>2, <3>3
  <2>2. \A i \in 1 .. Len(ap) : ap[i] <= fr  BY <1>2, <1>3, <1>4, <2>0 DEF Ordered
  <2>3. \A i \in 1 .. Len(ap), k \in 1 .. n - 1 : ap[i] < ring[Slot(t, k)]
    <3> SUFFICES ASSUME NEW i \in 1 .. Len(ap), NEW k \in 1 .. n - 1 PROVE ap[i] < ring[Slot(t, k)]
      OBVIOUS
    <3>1. k \in 0 .. n - 1 /\ 0 < k  OBVIOUS
    <3>2. CASE i = Len(rd) + 1
      BY <1>2, <1>3, <1>4, <2>0, <3>1, <3>2 DEF Ordered
    <3>3. CASE i \in 1 .. Len(rd)
      BY <1>3, <1>4, <3>1, <3>3 DEF Ordered
    <3> QED BY <1>3, <3>2, <3>3
  <2>4. \A i \in 1 .. Len(ap), j \in 1 .. Len(hw) : ap[i] < hw[j].n
    BY <1>2, <1>3, <1>4, <2>0 DEF Ordered
  <2> QED BY <1>4, <2>1, <2>2, <2>3, <2>4 DEF Ordered
<1>5. ASSUME Ordered(hw, rd, ring, t, n, 1, fr) PROVE Ordered(hw, rd, ring, (t + 1) % RxRing, n - 1, 0, fr)
  <2> DEFINE tn == (t + 1) % RxRing
  <2>1. \A k \in 0 .. (n - 1) - 1 : /\ ring[Slot(tn, k)] = ring[Slot(t, k + 1)] /\ k + 1 \in 0 .. n - 1
                                    /\ k + 1 \in 1 .. n - 1
    <3>1. \A k \in 0 .. n - 2 : Slot(tn, k) = Slot(t, k + 1)  BY RingMoves DEF n
    <3>2. \A k \in 0 .. (n - 1) - 1 : k \in 0 .. n - 2 /\ k + 1 \in 0 .. n - 1 /\ k + 1 \in 1 .. n - 1
      BY <1>1
    <3> QED BY <3>1, <3>2
  <2> HIDE DEF tn
  <2>2. \A j, k \in 0 .. (n - 1) - 1 : j < k => ring[Slot(tn, j)] < ring[Slot(tn, k)]
    <3> SUFFICES ASSUME NEW j \in 0 .. (n - 1) - 1, NEW k \in 0 .. (n - 1) - 1, j < k
                 PROVE  ring[Slot(tn, j)] < ring[Slot(tn, k)]
      OBVIOUS
    <3>1. j + 1 \in 0 .. n - 1 /\ k + 1 \in 0 .. n - 1 /\ j + 1 < k + 1  BY <1>1
    <3> QED BY <1>5, <2>1, <3>1 DEF Ordered
  <2>3. \A k \in 0 .. (n - 1) - 1 : ring[Slot(tn, k)] <= fr  BY <1>5, <2>1 DEF Ordered
  <2>4. \A i \in 1 .. Len(rd), k \in 0 .. (n - 1) - 1 : rd[i] < ring[Slot(tn, k)]
    BY <1>5, <2>1 DEF Ordered
  <2>5. \A k \in 0 .. (n - 1) - 1, j \in 1 .. Len(hw) : ring[Slot(tn, k)] < hw[j].n
    BY <1>5, <2>1 DEF Ordered
  <2> QED BY <1>5, <2>2, <2>3, <2>4, <2>5 DEF Ordered, tn
<1>6. Used(h, (t + 1) % RxRing) = n - 1  BY RingMoves DEF n
<1> QED BY <1>4, <1>5, <1>6 DEF n, ap

\* The same of the ring at hand.
LEMMA TakeHere ==
    ASSUME CanTypes, hwRx # <<>>, Ordered(hwRx, read, s_ring, s_rx_tail, Held, Passed, frames)
    PROVE  /\ Ordered(Tail(hwRx), read, s_ring, s_rx_tail, Held, Passed, frames)
           /\ ~Can!Full(s_rx_head, s_rx_tail) =>
                  Ordered(Tail(hwRx), read, [s_ring EXCEPT ![s_rx_head] = Head(hwRx).n], s_rx_tail,
                          Used((s_rx_head + 1) % RxRing, s_rx_tail), Passed, frames)
<1>1. /\ hwRx \in Seq(Can!Frames) /\ read \in Seq(Nat) /\ s_ring \in [0 .. RxRing - 1 -> Nat] /\ frames \in Nat
      /\ s_rx_head \in 0 .. RxRing - 1 /\ s_rx_tail \in 0 .. RxRing - 1 /\ Passed \in {0, 1}
  BY CanNumbers DEF CanTypes, Passed
<1>2. Ordered(hwRx, read, s_ring, s_rx_tail, Used(s_rx_head, s_rx_tail), Passed, frames)
  BY DEF Held
<1>3. Ordered(Tail(hwRx), read, s_ring, s_rx_tail, Used(s_rx_head, s_rx_tail), Passed, frames)
  BY <1>1, <1>2, TakeOrders, Zenon
<1>4. ASSUME ~Can!Full(s_rx_head, s_rx_tail)
      PROVE  Ordered(Tail(hwRx), read, [s_ring EXCEPT ![s_rx_head] = Head(hwRx).n], s_rx_tail,
                     Used((s_rx_head + 1) % RxRing, s_rx_tail), Passed, frames)
  BY <1>1, <1>2, <1>4, TakeOrders, Zenon
<1> QED BY <1>3, <1>4 DEF Held

\* A step that leaves the frames alone.
LEMMA QuietCan ==
    ASSUME CanInv, UNCHANGED <<hwRx, s_rx_head, s_rx_tail, s_ring, s_rx_overflow, taken, read, frames>>,
           CanTypes', wk.pc # "adv", wk'.pc # "adv",
           s_enabled' = s_enabled \/ ~s_enabled',
           tput' + Len(hwRx) <= MaxSends + frames,
           wk'.pc = "tx" => ~irqOn' /\ wk'.put = tput' /\ tput' < MaxSends,
           wk'.pc = "up" => ~s_enabled', wk'.pc = "pop" => s_rx_head # s_rx_tail
    PROVE  CanInv'
<1>1. Held' = Held /\ Passed = 0 /\ Passed' = 0  BY DEF Held, Passed
<1>2. CanCounts'  BY <1>1 DEF CanInv, CanCounts
<1>3. Ordered(hwRx, read, s_ring, s_rx_tail, Held, Passed, frames)'  BY <1>1 DEF CanInv
<1> QED BY <1>2, <1>3 DEF CanInv

\* Every step of the interrupt, of the worker and of the bus.
LEMMA CanKeeps == CanInv /\ [Can!Next]_canVars => CanInv'
<1> SUFFICES ASSUME CanInv, [Can!Next]_canVars PROVE CanInv'
  OBVIOUS
<1> USE CanNumbers
<1> DEFINE Steps == [pc : {"idle", "up", "tx", "pop", "adv"}, put : Nat, was : BOOLEAN]
<1>0. CanTypes /\ CanCounts /\ Ordered(hwRx, read, s_ring, s_rx_tail, Held, Passed, frames)
  BY DEF CanInv
<1>00. wk \in Steps /\ Can!Idle \in Steps /\ Can!Idle.pc = "idle" /\ tput \in Nat /\ Len(hwRx) \in Nat
  BY <1>0 DEF CanTypes, Can!Idle
<1>01. /\ tput \in Nat /\ tget \in 0 .. tput /\ tput - tget <= TxFifo /\ accepted = tput /\ frames \in Nat
       /\ Len(hwRx) \in Nat /\ Len(taken) \in Nat /\ Len(read) \in Nat /\ s_rx_overflow \in Nat
       /\ Held \in Nat /\ Passed \in {0, 1} /\ irqOn \in BOOLEAN
       /\ s_rx_head \in 0 .. RxRing - 1 /\ s_rx_tail \in 0 .. RxRing - 1
  <2>1. Held \in Nat  BY <1>0, UsedIs DEF CanTypes, Held
  <2> QED BY <1>0, <2>1 DEF CanTypes, Passed
<1>02. /\ tput + Len(hwRx) <= MaxSends + frames /\ s_rx_overflow + Len(hwRx) <= frames
       /\ (wk.pc = "tx" => ~irqOn /\ wk.put = tput /\ tput < MaxSends)
       /\ (wk.pc = "up" => ~s_enabled) /\ (wk.pc \in {"pop", "adv"} => s_rx_head # s_rx_tail)
       /\ (s_enabled => Len(taken) + Passed = Len(read) + s_rx_overflow + Held)
  BY <1>0 DEF CanCounts
<1>03. /\ <<>> \in Seq(Can!Frames) /\ <<>> \in Seq(Nat) /\ Len(<<>>) = 0 /\ 0 <= RxFifo /\ 0 \in 0 .. RxRing - 1
       /\ tput \in 0 .. tput /\ tput - tput <= TxFifo
  BY <1>00
<1>1. CASE Can!BusOffIsr
  <2>1. /\ UNCHANGED <<hwRx, tput, tget, accepted, irqOn, s_enabled, s_rx_head, s_rx_tail, s_ring, s_rx_overflow,
                       taken, read, rule, wk, unanswered, frames, busOffs, configs>>
        /\ core' \in {core, "rejoining"} /\ boIrq' = FALSE /\ unheard' \in BOOLEAN
    BY <1>0, <1>1 DEF Can!BusOffIsr, Can!Recover, Can!cnTx, Can!cnRing, Can!cnGhost, CanTypes
  <2>2. CanTypes'  BY <1>0, <2>1, ZenonT(30) DEF CanTypes
  <2>3. Held' = Held /\ Passed' = Passed  BY <2>1 DEF Held, Passed
  <2>4. CanCounts'  BY <1>0, <2>1, <2>3 DEF CanCounts
  <2> QED BY <1>0, <2>1, <2>2, <2>3, <2>4 DEF CanInv
<1>2. CASE Can!RxIsr
  <2>1. /\ irqOn /\ hwRx # <<>> /\ hwRx' = Tail(hwRx) /\ taken' = Append(taken, Head(hwRx).n)
        /\ UNCHANGED <<core, boIrq, unheard, irqOn, s_enabled, s_rx_tail, read, rule, wk, frames, busOffs, configs,
                   tget>>
    BY <1>2 DEF Can!RxIsr, Can!cnCore, Can!cnTx
  <2>2. /\ Tail(hwRx) \in Seq(Can!Frames) /\ Len(Tail(hwRx)) = Len(hwRx) - 1 /\ Len(hwRx) \in Nat \ {0}
        /\ Head(hwRx) = hwRx[1] /\ hwRx[1] \in Can!Frames
    BY <1>0, <2>1 DEF CanTypes
  <2>3. Head(hwRx).n \in Nat /\ Head(hwRx).match \in BOOLEAN  BY <2>2 DEF Can!Frames
  <2>4. taken' \in Seq(Nat) /\ Len(taken') = Len(taken) + 1 /\ Len(taken) \in Nat
    BY <1>0, <2>1, <2>3 DEF CanTypes
  <2>5. wk.pc # "tx" /\ Passed' = Passed /\ Passed \in {0, 1}
    BY <1>0, <2>1 DEF CanCounts, Passed
  <2>6. /\ Ordered(Tail(hwRx), read, s_ring, s_rx_tail, Held, Passed, frames)
        /\ ~Can!Full(s_rx_head, s_rx_tail) =>
               Ordered(Tail(hwRx), read, [s_ring EXCEPT ![s_rx_head] = Head(hwRx).n], s_rx_tail,
                       Used((s_rx_head + 1) % RxRing, s_rx_tail), Passed, frames)
    <3> HIDE DEF CanInv
    <3> QED BY <1>0, <2>1, TakeHere
  <2>7. CASE Can!Full(s_rx_head, s_rx_tail)
    <3>1. /\ s_rx_overflow' = s_rx_overflow + 1 /\ UNCHANGED <<s_ring, s_rx_head, tput, accepted>>
          /\ unanswered' \in BOOLEAN
      BY <1>0, <1>2, <2>7 DEF Can!RxIsr, Can!cnTx, CanTypes
    <3>2. Held' = Held /\ Held \in Nat  BY <1>0, <2>1, <3>1, UsedIs DEF Held, CanTypes
    <3>3. CanTypes'  BY <1>0, <2>1, <2>2, <2>4, <3>1 DEF CanTypes
    <3>4. CanCounts'
      <4>1. tput' + Len(hwRx') <= MaxSends + frames' /\ s_rx_overflow' + Len(hwRx') <= frames'
        BY <1>0, <2>1, <2>2, <3>1, SMTT(30) DEF CanTypes, CanCounts
      <4>2. s_enabled => Len(taken') + Passed = Len(read) + s_rx_overflow' + Held
        BY <1>01, <1>02, <2>4, <3>1
      <4> QED BY <1>0, <2>1, <2>5, <3>1, <3>2, <4>1, <4>2 DEF CanCounts
    <3> QED BY <2>1, <2>5, <2>6, <3>1, <3>2, <3>3, <3>4 DEF CanInv
  <2>8. CASE ~Can!Full(s_rx_head, s_rx_tail)
    <3>1. /\ s_ring' = [s_ring EXCEPT ![s_rx_head] = Head(hwRx).n] /\ s_rx_head' = (s_rx_head + 1) % RxRing
          /\ UNCHANGED <<s_rx_overflow, unanswered>>
          /\ \/ Can!Room /\ tput' = tput + 1 /\ accepted' = accepted + 1
             \/ UNCHANGED <<tput, accepted>>
      BY <1>2, <2>8 DEF Can!RxIsr
    <3>2. Held' = Held + 1 /\ Held \in Nat /\ s_rx_head' \in 0 .. RxRing - 1 /\ s_rx_head' # s_rx_tail
      <4>1. s_rx_head \in 0 .. RxRing - 1 /\ s_rx_tail \in 0 .. RxRing - 1  BY <1>0 DEF CanTypes
      <4>2. Used((s_rx_head + 1) % RxRing, s_rx_tail) = Used(s_rx_head, s_rx_tail) + 1
        BY <2>8, <4>1, RingMoves
      <4>3. (s_rx_head + 1) % RxRing \in 0 .. RxRing - 1 /\ Held \in Nat
        BY <1>01, <4>1, NextSlot
      <4> QED BY <2>1, <2>8, <3>1, <4>2, <4>3 DEF Held, Can!Full
    <3>3. tput' \in Nat /\ tget \in 0 .. tput' /\ tput' - tget <= TxFifo /\ accepted' = tput' /\ tput' <= tput + 1
      <4>1. Can!Room <=> tput - tget < TxFifo  BY DEF Can!Room
      <4> QED BY <1>01, <3>1, <4>1
    <3>4. CanTypes'
      <4>1. s_ring' \in [0 .. RxRing - 1 -> Nat]  BY <1>0, <2>3, <3>1 DEF CanTypes
      <4>2. Len(hwRx') <= RxFifo /\ hwRx' \in Seq(Can!Frames)  BY <1>0, <2>1, <2>2 DEF CanTypes
      <4>3. tget' \in 0 .. tput' /\ tput' - tget' <= TxFifo /\ accepted' = tput' /\ tput' \in Nat
        BY <2>1, <3>3
      <4>4. s_rx_overflow' \in Nat /\ unanswered' \in BOOLEAN  BY <1>0, <3>1 DEF CanTypes
      <4> QED BY <1>0, <2>1, <2>4, <3>2, <4>1, <4>2, <4>3, <4>4 DEF CanTypes
    <3>5. CanCounts'
      <4>1. tput' + Len(hwRx') <= MaxSends + frames' /\ s_rx_overflow' + Len(hwRx') <= frames'
        BY <1>01, <1>02, <2>1, <2>2, <3>1, <3>3
      <4>2. s_enabled => Len(taken') + Passed = Len(read) + s_rx_overflow' + Held'
        BY <1>01, <1>02, <2>4, <3>1, <3>2, SMTT(30)
      <4> QED BY <1>0, <2>1, <2>5, <3>1, <3>2, <4>1, <4>2 DEF CanCounts
    <3>6. Ordered(hwRx', read', s_ring', s_rx_tail', Held', Passed', frames')
      BY <2>1, <2>5, <2>6, <2>8, <3>1 DEF Held
    <3> QED BY <3>4, <3>5, <3>6 DEF CanInv
  <2> QED BY <2>7, <2>8
<1>3. ASSUME hwRx' = <<>>, s_rx_head' = 0, s_rx_tail' = 0, read' = <<>>, taken' = <<>>, CanTypes',
              wk'.pc \in {"idle", "up"},
             ~s_enabled', tput' = tput, frames' = frames, s_rx_overflow' = s_rx_overflow
      PROVE  CanInv'
  <2>1. Held' = 0 /\ Passed' = 0 /\ Len(hwRx') = 0 /\ Len(read') = 0
    BY <1>3 DEF Held, Passed, Used
  <2>2. CanCounts'
    <3>1. tput' + Len(hwRx') <= MaxSends + frames' /\ s_rx_overflow' + Len(hwRx') <= frames'
      BY <1>01, <1>02, <1>3, <2>1
    <3> QED BY <1>3, <2>1, <3>1 DEF CanCounts
  <2>3. Ordered(hwRx', read', s_ring', s_rx_tail', Held', Passed', frames')  BY <2>1 DEF Ordered
  <2> QED BY <1>3, <2>2, <2>3 DEF CanInv
<1>4. CASE Can!Disable
  <2>0. /\ wk.pc = "idle" /\ core' = "off" /\ irqOn' = FALSE /\ boIrq' = FALSE /\ s_enabled' = FALSE
        /\ unheard' = FALSE /\ hwRx' = <<>> /\ tget' = tput /\ s_rx_head' = 0 /\ s_rx_tail' = 0 /\ taken' = <<>>
        /\ read' = <<>>
        /\ UNCHANGED <<tput, accepted, s_ring, s_rx_overflow, rule, wk, unanswered, frames, busOffs, configs>>
    BY <1>4 DEF Can!Disable, Can!At, Can!cnGhost
  <2>1. CanTypes'
    <3>1. hwRx' \in Seq(Can!Frames) /\ Len(hwRx') <= RxFifo /\ taken' \in Seq(Nat) /\ read' \in Seq(Nat)
      BY <1>03, <2>0
    <3>2. tget' \in 0 .. tput' /\ tput' - tget' <= TxFifo /\ accepted' = tput' /\ tput' \in Nat
      BY <1>01, <1>03, <2>0
    <3> QED BY <1>0, <1>03, <2>0, <3>1, <3>2 DEF CanTypes
  <2> QED BY <1>3, <2>0, <2>1
<1>5. CASE Can!Configure
  <2>1. /\ core' \in {"on", "off"} /\ irqOn' \in BOOLEAN /\ wk' \in Steps /\ wk'.pc \in {"idle", "up"}
        /\ configs' \in 0 .. MaxConfigs
    <3>1. PICK ok \in BOOLEAN : /\ core' = IF ok THEN "on" ELSE "off"
                                /\ irqOn' = ok /\ wk' = [wk EXCEPT !.pc = IF ok THEN "up" ELSE "idle"]
      BY <1>5 DEF Can!Configure
    <3>2. configs' \in 0 .. MaxConfigs
      <4>1. configs \in 0 .. MaxConfigs  BY <1>0 DEF CanTypes
      <4>2. configs < MaxConfigs /\ configs' = configs + 1  BY <1>5 DEF Can!Configure
      <4> QED BY <4>1, <4>2
    <3> QED BY <1>00, <3>1, <3>2
  <2>0. /\ boIrq' = FALSE /\ unheard' = FALSE /\ s_enabled' = FALSE /\ hwRx' = <<>> /\ tget' = tput
        /\ s_rx_head' = 0 /\ s_rx_tail' = 0 /\ taken' = <<>> /\ read' = <<>>
        /\ UNCHANGED <<tput, accepted, s_ring, s_rx_overflow, rule, unanswered, frames, busOffs>>
    BY <1>5 DEF Can!Configure
  <2>2. CanTypes'
    <3>1. hwRx' \in Seq(Can!Frames) /\ Len(hwRx') <= RxFifo /\ taken' \in Seq(Nat) /\ read' \in Seq(Nat)
      BY <1>03, <2>0
    <3>2. tget' \in 0 .. tput' /\ tput' - tget' <= TxFifo /\ accepted' = tput' /\ tput' \in Nat
      BY <1>01, <1>03, <2>0
    <3> QED BY <1>0, <1>03, <2>0, <2>1, <3>1, <3>2 DEF CanTypes
  <2> QED BY <1>3, <2>0, <2>1, <2>2
<1>6. CASE Can!Configured
  <2>1. /\ wk' = [wk EXCEPT !.pc = "idle"] /\ s_enabled' = TRUE /\ s_rx_head' = 0 /\ s_rx_tail' = 0
        /\ s_rx_overflow' = 0 /\ taken' = <<>> /\ read' = <<>>
        /\ UNCHANGED <<core, boIrq, unheard, hwRx, tput, tget, accepted, irqOn, s_ring, rule, unanswered, frames,
                       busOffs, configs>>
    BY <1>6 DEF Can!Configured, Can!Goto, Can!cnCore, Can!cnTx, Can!cnGhost
  <2>2. wk' \in Steps /\ wk'.pc = "idle"  BY <1>00, <2>1
  <2>3. CanTypes'
    <3>1. taken' \in Seq(Nat) /\ read' \in Seq(Nat) /\ s_rx_overflow' \in Nat  BY <1>03, <2>1
    <3> QED BY <1>0, <1>03, <2>1, <2>2, <3>1 DEF CanTypes
  <2>4. Held' = 0 /\ Passed' = 0 /\ Len(read') = 0 /\ Len(taken') = 0
    BY <2>1, <2>2 DEF Held, Passed, Used
  <2>5. CanCounts'
    <3>1. tput' + Len(hwRx') <= MaxSends + frames' /\ s_rx_overflow' + Len(hwRx') <= frames'
      <4>1. tput + Len(hwRx) <= MaxSends + frames /\ 0 + Len(hwRx) <= frames  BY <1>01, <1>02
      <4> QED BY <2>1, <4>1
    <3> QED BY <2>1, <2>2, <2>4, <3>1 DEF CanCounts
  <2>6. Ordered(hwRx', read', s_ring', s_rx_tail', Held', Passed', frames')
    BY <1>0, <2>1, <2>4 DEF Ordered
  <2> QED BY <2>3, <2>5, <2>6 DEF CanInv
<1>7. CASE Can!SendStart
  <2>1. /\ wk.pc = "idle" /\ tput < MaxSends /\ core' \in {core, "rejoining"}
        /\ \/ UNCHANGED <<wk, irqOn>>
           \/ wk' = [pc |-> "tx", put |-> tput, was |-> irqOn] /\ irqOn' = FALSE
        /\ UNCHANGED <<boIrq, unheard, hwRx, tput, tget, accepted, s_enabled, s_rx_head, s_rx_tail, s_ring,
                       s_rx_overflow, taken, read, rule, unanswered, frames, busOffs, configs>>
    BY <1>7 DEF Can!SendStart, Can!At, Can!BusOffPoll, Can!Recover, Can!Mask, Can!cnTx, Can!cnRing, Can!cnGhost
  <2>2. wk' \in Steps /\ irqOn' \in BOOLEAN /\ wk'.pc \in {"idle", "tx"} /\ (wk'.pc = "tx" => ~irqOn' /\ wk'.put = tput)
    <3>1. CASE UNCHANGED <<wk, irqOn>>
      BY <1>00, <1>01, <2>1, <3>1
    <3>2. CASE wk' = [pc |-> "tx", put |-> tput, was |-> irqOn] /\ irqOn' = FALSE
      BY <1>00, <1>01, <3>2
    <3> QED BY <2>1, <3>1, <3>2
  <2>3. CanTypes'  BY <1>0, <2>1, <2>2 DEF CanTypes
  <2>4. tput' + Len(hwRx) <= MaxSends + frames  BY <1>0, <2>1 DEF CanCounts
  <2> QED BY <2>1, <2>2, <2>3, <2>4, QuietCan
<1>8. CASE Can!SendPut
  <2>1. /\ wk.pc = "tx" /\ wk' = Can!Idle /\ irqOn' = wk.was
        /\ \/ wk.put - tget < TxFifo /\ tput' = wk.put + 1 /\ accepted' = accepted + 1
           \/ UNCHANGED <<tput, accepted>>
        /\ UNCHANGED <<core, boIrq, unheard, hwRx, tget, s_enabled, s_rx_head, s_rx_tail, s_ring, s_rx_overflow, taken,
                       read, rule, unanswered, frames, busOffs, configs>>
    BY <1>8 DEF Can!SendPut, Can!At, Can!cnCore, Can!cnRing, Can!cnGhost
  <2>2. wk.put = tput /\ tput < MaxSends  BY <1>0, <2>1 DEF CanCounts
  <2>3. /\ tput' \in Nat /\ tget \in 0 .. tput' /\ tput' - tget <= TxFifo /\ accepted' = tput'
        /\ tput' + Len(hwRx) <= MaxSends + frames
    <3>1. CASE UNCHANGED <<tput, accepted>>
      BY <1>01, <1>02, <3>1
    <3>2. CASE wk.put - tget < TxFifo /\ tput' = wk.put + 1 /\ accepted' = accepted + 1
      <4>1. tput' = tput + 1 /\ tput - tget < TxFifo /\ accepted' = tput + 1
        BY <1>01, <2>2, <3>2
      <4>2. tput' + Len(hwRx) <= MaxSends + frames  BY <1>01, <1>02, <2>2, <4>1
      <4> QED BY <1>01, <4>1, <4>2
    <3> QED BY <2>1, <3>1, <3>2
  <2>4. irqOn' \in BOOLEAN /\ wk' \in Steps /\ wk'.pc = "idle"  BY <1>00, <2>1
  <2>5. CanTypes'  BY <1>0, <2>1, <2>3, <2>4 DEF CanTypes
  <2> QED BY <2>1, <2>3, <2>4, <2>5, QuietCan
<1>9. CASE Can!ReadStart
  <2>1. /\ wk.pc = "idle" /\ core' \in {core, "rejoining"}
        /\ wk' = [wk EXCEPT !.pc = IF s_rx_tail # s_rx_head THEN "pop" ELSE "idle"]
        /\ UNCHANGED <<boIrq, unheard, hwRx, tput, tget, accepted, irqOn, s_enabled, s_rx_head, s_rx_tail, s_ring,
                       s_rx_overflow, taken, read, rule, unanswered, frames, busOffs, configs>>
    BY <1>9 DEF Can!ReadStart, Can!At, Can!BusOffPoll, Can!Recover, Can!cnTx, Can!cnRing, Can!cnGhost
  <2>2. wk' \in Steps /\ wk'.pc \in {"pop", "idle"} /\ (wk'.pc = "pop" => s_rx_head # s_rx_tail)
    BY <1>00, <2>1
  <2>3. CanTypes'  BY <1>0, <2>1, <2>2 DEF CanTypes
  <2>4. tput' + Len(hwRx) <= MaxSends + frames  BY <1>0, <2>1 DEF CanCounts
  <2> QED BY <2>1, <2>2, <2>3, <2>4, QuietCan
<1>10. CASE Can!ReadPop
  <2>1. UNCHANGED <<core, boIrq, unheard, hwRx, tput, tget, accepted, irqOn, s_enabled, s_rx_head, s_ring,
                s_rx_overflow,
                    taken, rule, unanswered, frames, busOffs, configs>>
    BY <1>10 DEF Can!ReadPop, Can!cnCore, Can!cnTx, Can!cnGhost
  <2>2. /\ hwRx \in Seq(Can!Frames) /\ read \in Seq(Nat) /\ s_ring \in [0 .. RxRing - 1 -> Nat] /\ frames \in Nat
        /\ s_rx_head \in 0 .. RxRing - 1 /\ s_rx_tail \in 0 .. RxRing - 1 /\ Len(read) \in Nat
    BY <1>0 DEF CanTypes
  <2>3. CASE wk.pc = "pop"
    <3>1. wk' = [wk EXCEPT !.pc = "adv"] /\ read' = Append(read, s_ring[s_rx_tail]) /\ UNCHANGED s_rx_tail
      BY <1>10, <2>3 DEF Can!ReadPop, Can!Pop, Can!At, Can!Goto
    <3>2. wk' \in Steps /\ wk'.pc = "adv" /\ s_rx_head # s_rx_tail
      BY <1>0, <1>00, <2>3, <3>1 DEF CanCounts
    <3>3. read' \in Seq(Nat) /\ Len(read') = Len(read) + 1  BY <2>2, <3>1
    <3>4. CanTypes'  BY <1>0, <2>1, <3>1, <3>2, <3>3 DEF CanTypes
    <3>5. Passed = 0 /\ Passed' = 1 /\ Held' = Held /\ Held \in Nat
      BY <2>1, <2>2, <2>3, <3>1, <3>2, UsedIs, SMTT(30) DEF Passed, Held
    <3>6. CanCounts'
      <4>1. s_enabled => Len(taken') + 1 = Len(read') + s_rx_overflow' + Held
        BY <1>01, <1>02, <2>1, <3>3, <3>5
      <4> QED BY <1>02, <2>1, <3>1, <3>2, <3>5, <4>1 DEF CanCounts
    <3>7. Ordered(hwRx, read, s_ring, s_rx_tail, Used(s_rx_head, s_rx_tail), 0, frames)
      BY <1>0, <3>5 DEF Held
    <3>8. Ordered(hwRx, Append(read, s_ring[s_rx_tail]), s_ring, s_rx_tail, Used(s_rx_head, s_rx_tail), 1, frames)
      BY <2>2, <3>2, <3>7, PopOrders
    <3>9. Ordered(hwRx', read', s_ring', s_rx_tail', Held', Passed', frames')
      BY <2>1, <3>1, <3>5, <3>8 DEF Held
    <3> QED BY <3>4, <3>6, <3>9 DEF CanInv
  <2>4. CASE wk.pc = "adv"
    <3>1. /\ s_rx_tail' = (s_rx_tail + 1) % RxRing /\ UNCHANGED read
          /\ wk' = [wk EXCEPT !.pc = IF s_rx_tail' # s_rx_head THEN "pop" ELSE "idle"]
      BY <1>10, <2>4 DEF Can!ReadPop, Can!Pop, Can!At
    <3>2. /\ wk' \in Steps /\ wk'.pc \in {"pop", "idle"} /\ (wk'.pc = "pop" => s_rx_head # s_rx_tail')
          /\ s_rx_head # s_rx_tail
      BY <1>0, <1>00, <2>4, <3>1 DEF CanCounts
    <3>3. s_rx_tail' \in 0 .. RxRing - 1  BY <2>2, <3>1, NextSlot
    <3>4. CanTypes'  BY <1>0, <2>1, <3>1, <3>2, <3>3 DEF CanTypes
    <3>5. Used(s_rx_head, (s_rx_tail + 1) % RxRing) = Used(s_rx_head, s_rx_tail) - 1
      BY <2>2, <3>2, RingMoves
    <3>6. Passed = 1 /\ Passed' = 0 /\ Held' = Held - 1 /\ Held \in Nat
      BY <2>1, <2>2, <2>4, <3>1, <3>2, <3>5, UsedIs, SMTT(30) DEF Passed, Held
    <3>7. CanCounts'
      <4>1. s_enabled => Len(taken') + 0 = Len(read') + s_rx_overflow' + (Held - 1)
        <5>1. s_enabled => Len(taken) + 0 = Len(read) + s_rx_overflow + (Held - 1)
          <6> HIDE DEF CanInv
          <6>1. s_enabled => Len(taken) + 1 = Len(read) + s_rx_overflow + Held  BY <1>02, <3>6
          <6> QED BY <1>01, <6>1
        <5> QED BY <2>1, <3>1, <5>1
      <4> QED BY <1>02, <2>1, <3>1, <3>2, <3>6, <4>1 DEF CanCounts
    <3>8. Ordered(hwRx, read, s_ring, s_rx_tail, Used(s_rx_head, s_rx_tail), 1, frames)
      BY <1>0, <3>6 DEF Held
    <3>9. Ordered(hwRx, read, s_ring, (s_rx_tail + 1) % RxRing, Used(s_rx_head, (s_rx_tail + 1) % RxRing), 0, frames)
      BY <2>2, <3>2, <3>8, PopOrders
    <3>10. Ordered(hwRx', read', s_ring', s_rx_tail', Held', Passed', frames')
      BY <2>1, <3>1, <3>6, <3>9 DEF Held
    <3> QED BY <3>4, <3>7, <3>10 DEF CanInv
  <2> QED BY <1>10, <2>3, <2>4 DEF Can!ReadPop, Can!Pop, Can!At
<1>11. CASE Can!Status \/ Can!Respond
  <2>1. /\ wk.pc = "idle" /\ core' \in {core, "rejoining"} /\ rule' \in BOOLEAN
        /\ UNCHANGED <<boIrq, unheard, hwRx, tput, tget, accepted, irqOn, s_enabled, s_rx_head, s_rx_tail, s_ring,
                       s_rx_overflow, taken, read, wk, unanswered, frames, busOffs, configs>>
    BY <1>0, <1>11 DEF Can!Status, Can!Respond, Can!At, Can!BusOffPoll, Can!Recover, Can!cnTx, Can!cnRing, Can!cnGhost,
                       Can!cnCore, CanTypes
  <2>2. CanTypes'  BY <1>0, <2>1 DEF CanTypes
  <2>3. tput' + Len(hwRx) <= MaxSends + frames  BY <1>0, <2>1 DEF CanCounts
  <2> QED BY <2>1, <2>2, <2>3, QuietCan
<1>12. CASE Can!BusSends \/ Can!BusOff \/ Can!Rejoin
  <2>1. /\ core' \in {core, "busoff", "on"} /\ busOffs' \in {busOffs, busOffs + 1}
        /\ \/ UNCHANGED <<boIrq, unheard>>
           \/ boIrq' \in BOOLEAN /\ unheard' = ~boIrq'
        /\ tget' = tget \/ (tget < tput /\ tget' = tget + 1)
        /\ busOffs' = busOffs + 1 => busOffs < MaxBusOffs
        /\ UNCHANGED <<hwRx, tput, accepted, irqOn, s_enabled, s_rx_head, s_rx_tail, s_ring, s_rx_overflow, taken, read,
                       rule, wk, unanswered, frames, configs>>
    <3>1. busOffs \in Nat  BY <1>0 DEF CanTypes
    <3> QED BY <1>12, <3>1 DEF Can!BusSends, Can!BusOff, Can!Rejoin, Can!cnTx, Can!cnRing, Can!cnGhost, Can!cnCore
  <2>2. CanTypes'
    <3>1. tget' \in 0 .. tput /\ tput - tget' <= TxFifo  BY <1>01, <2>1
    <3>2. busOffs' \in 0 .. MaxBusOffs
      <4>1. busOffs \in 0 .. MaxBusOffs  BY <1>0 DEF CanTypes
      <4> QED BY <2>1, <4>1
    <3>3. boIrq' \in BOOLEAN /\ unheard' \in BOOLEAN /\ core' \in {"off", "on", "busoff", "rejoining"}
      BY <1>0, <2>1 DEF CanTypes
    <3> QED BY <1>0, <2>1, <3>1, <3>2, <3>3 DEF CanTypes
  <2>3. Held' = Held /\ Passed' = Passed  BY <2>1 DEF Held, Passed
  <2>4. CanCounts'  BY <1>0, <2>1, <2>3 DEF CanCounts
  <2> QED BY <1>0, <2>1, <2>2, <2>3, <2>4 DEF CanInv
<1>13. ASSUME NEW m \in BOOLEAN, Can!BusFrame(m) PROVE CanInv'
  <2>1. /\ Len(hwRx) < RxFifo /\ frames < MaxFrames /\ frames' = frames + 1
        /\ hwRx' = Append(hwRx, [n |-> frames', match |-> m])
        /\ UNCHANGED <<core, boIrq, unheard, tput, tget, accepted, irqOn, s_enabled, s_rx_head, s_rx_tail, s_ring,
                       s_rx_overflow, taken, read, rule, wk, unanswered, busOffs, configs>>
    BY <1>13 DEF Can!BusFrame, Can!cnCore, Can!cnTx, Can!cnRing
  <2> DEFINE f == [n |-> frames', match |-> m]
  <2>2. f \in Can!Frames /\ f.n = frames + 1 /\ frames \in Nat /\ frames' \in 0 .. MaxFrames
    BY <1>0, <2>1 DEF CanTypes, Can!Frames
  <2> HIDE DEF f
  <2>3. hwRx \in Seq(Can!Frames)  BY <1>0 DEF CanTypes
  <2>4. /\ hwRx' \in Seq(Can!Frames) /\ Len(hwRx') = Len(hwRx) + 1 /\ hwRx'[Len(hwRx) + 1] = f
        /\ \A i \in 1 .. Len(hwRx) : hwRx'[i] = hwRx[i]
        /\ \A i \in 1 .. Len(hwRx') : i \in 1 .. Len(hwRx) \/ i = Len(hwRx) + 1
    <3> HIDE DEF CanInv
    <3>1. hwRx' = Append(hwRx, f)  BY <2>1 DEF f
    <3> QED BY <2>2, <2>3, <3>1
  <2>5. CanTypes'  BY <1>0, <2>1, <2>2, <2>4 DEF CanTypes
  <2>6. Held' = Held /\ Passed' = Passed  BY <2>1 DEF Held, Passed
  <2>7. CanCounts'  BY <1>0, <1>00, <2>1, <2>2, <2>4, <2>6, SMTT(30) DEF CanTypes, CanCounts
  <2>8. Ordered(hwRx', read', s_ring', s_rx_tail', Held', Passed', frames')
    <3> DEFINE hw == hwRx'  n == Held
    <3>1. /\ read' = read /\ s_ring' = s_ring /\ s_rx_tail' = s_rx_tail /\ Held' = n /\ Passed' = Passed
          /\ frames' = frames + 1
      BY <2>1, <2>6
    <3>2. read \in Seq(Nat) /\ s_ring \in [0 .. RxRing - 1 -> Nat]
          /\ Ordered(hwRx, read, s_ring, s_rx_tail, n, Passed, frames)
      BY <1>0 DEF CanTypes
    <3>3. \A k \in 0 .. n - 1 : Slot(s_rx_tail, k) \in 0 .. RxRing - 1
      BY <1>0, RingMoves DEF Held, CanTypes
    <3>4. \A i \in 1 .. Len(hwRx) : hwRx[i].n \in Nat /\ hwRx[i].n <= frames
      <4>1. \A i \in 1 .. Len(hwRx) : hwRx[i] \in Can!Frames  BY <2>3
      <4> QED BY <3>2, <4>1 DEF Can!Frames, Ordered
    <3> HIDE DEF hw, n
    <3>5. /\ Len(hw) = Len(hwRx) + 1 /\ hw[Len(hwRx) + 1] = f
          /\ \A i \in 1 .. Len(hwRx) : hw[i] = hwRx[i]
          /\ \A i \in 1 .. Len(hw) : i \in 1 .. Len(hwRx) \/ i = Len(hwRx) + 1
      BY <2>4 DEF hw
    <3>6. \A i, j \in 1 .. Len(hw) : i < j => hw[i].n < hw[j].n
      <4> SUFFICES ASSUME NEW i \in 1 .. Len(hw), NEW j \in 1 .. Len(hw), i < j PROVE hw[i].n < hw[j].n
        OBVIOUS
      <4>1. i \in 1 .. Len(hwRx)  BY <1>00, <3>5
      <4>2. CASE j = Len(hwRx) + 1
        BY <2>2, <3>4, <3>5, <4>1, <4>2
      <4>3. CASE j \in 1 .. Len(hwRx)
        BY <3>2, <3>5, <4>1, <4>3 DEF Ordered
      <4> QED BY <3>5, <4>2, <4>3
    <3>7. /\ \A i \in 1 .. Len(read) : read[i] <= frames + 1
          /\ \A k \in 0 .. n - 1 : s_ring[Slot(s_rx_tail, k)] <= frames + 1
          /\ \A i \in 1 .. Len(hw) : hw[i].n <= frames + 1
      <4>1. \A i \in 1 .. Len(read) : read[i] \in Nat /\ read[i] <= frames  BY <3>2 DEF Ordered
      <4>2. \A k \in 0 .. n - 1 : s_ring[Slot(s_rx_tail, k)] \in Nat /\ s_ring[Slot(s_rx_tail, k)] <= frames
        BY <3>2, <3>3 DEF Ordered
      <4> QED BY <2>2, <3>4, <3>5, <4>1, <4>2, SMTT(30)
    <3>8. \A i \in 1 .. Len(read), j \in 1 .. Len(hw) : read[i] < hw[j].n
      <4>1. \A i \in 1 .. Len(read) : read[i] \in Nat /\ read[i] <= frames  BY <3>2 DEF Ordered
      <4> SUFFICES ASSUME NEW i \in 1 .. Len(read), NEW j \in 1 .. Len(hw) PROVE read[i] < hw[j].n
        OBVIOUS
      <4>2. CASE j = Len(hwRx) + 1
        BY <2>2, <3>5, <4>1, <4>2
      <4>3. CASE j \in 1 .. Len(hwRx)
        BY <3>2, <3>5, <4>3 DEF Ordered
      <4> QED BY <3>5, <4>2, <4>3
    <3>9. \A k \in 0 .. n - 1, j \in 1 .. Len(hw) : s_ring[Slot(s_rx_tail, k)] < hw[j].n
      <4>1. \A k \in 0 .. n - 1 : s_ring[Slot(s_rx_tail, k)] \in Nat /\ s_ring[Slot(s_rx_tail, k)] <= frames
        BY <3>2, <3>3 DEF Ordered
      <4> SUFFICES ASSUME NEW k \in 0 .. n - 1, NEW j \in 1 .. Len(hw) PROVE s_ring[Slot(s_rx_tail, k)] < hw[j].n
        OBVIOUS
      <4>2. CASE j = Len(hwRx) + 1
        BY <2>2, <3>5, <4>1, <4>2
      <4>3. CASE j \in 1 .. Len(hwRx)
        BY <3>2, <3>5, <4>3 DEF Ordered
      <4> QED BY <3>5, <4>2, <4>3
    <3>10. Ordered(hw, read, s_ring, s_rx_tail, n, Passed, frames + 1)
      BY <3>2, <3>6, <3>7, <3>8, <3>9 DEF Ordered
    <3> QED BY <3>1, <3>10 DEF hw
  <2> QED BY <2>5, <2>7, <2>8 DEF CanInv
<1>14. CASE UNCHANGED canVars
  <2>1. CanTypes' /\ Held' = Held /\ Passed' = Passed
    BY <1>0, <1>14 DEF CanTypes, Held, Passed, canVars
  <2>2. CanCounts'  BY <1>0, <1>14, <2>1 DEF CanCounts, canVars
  <2> QED BY <1>0, <1>14, <2>1, <2>2 DEF CanInv, canVars
<1> QED BY <1>1, <1>2, <1>4, <1>5, <1>6, <1>7, <1>8, <1>9, <1>10, <1>11, <1>12, <1>13, <1>14 DEF Can!Next

\* The core off, the ring empty.
LEMMA CanStarts == Can!Init => CanInv
<1> SUFFICES ASSUME Can!Init PROVE CanInv
  OBVIOUS
<1> USE CanNumbers
<1>1. s_ring \in [0 .. RxRing - 1 -> Nat] /\ 0 \in 0 .. RxRing - 1  BY DEF Can!Init
<1>2. wk \in [pc : {"idle", "up", "tx", "pop", "adv"}, put : Nat, was : BOOLEAN] /\ wk.pc = "idle"
  BY DEF Can!Init, Can!Idle
<1>3. CanTypes
  <2>1. <<>> \in Seq(Can!Frames) /\ <<>> \in Seq(Nat) /\ Len(<<>>) = 0 /\ 0 <= RxFifo /\ 0 \in 0 .. 0 /\ 0 - 0 <= TxFifo
    OBVIOUS
  <2>2. hwRx \in Seq(Can!Frames) /\ Len(hwRx) <= RxFifo /\ taken \in Seq(Nat) /\ read \in Seq(Nat)
    BY <2>1 DEF Can!Init
  <2>3. tput \in Nat /\ tget \in 0 .. tput /\ tput - tget <= TxFifo /\ accepted = tput
    BY <2>1 DEF Can!Init
  <2>4. /\ core \in {"off", "on", "busoff", "rejoining"} /\ irqOn \in BOOLEAN /\ boIrq \in BOOLEAN
        /\ s_enabled \in BOOLEAN /\ rule \in BOOLEAN /\ unheard \in BOOLEAN /\ unanswered \in BOOLEAN
    BY DEF Can!Init
  <2>5. /\ s_rx_head \in 0 .. RxRing - 1 /\ s_rx_tail \in 0 .. RxRing - 1 /\ s_rx_overflow \in Nat
        /\ frames \in 0 .. MaxFrames /\ busOffs \in 0 .. MaxBusOffs /\ configs \in 0 .. MaxConfigs
    BY DEF Can!Init
  <2> QED BY <1>1, <1>2, <2>2, <2>3, <2>4, <2>5 DEF CanTypes
<1>4. Held = 0 /\ Passed = 0 /\ Len(hwRx) = 0 /\ Len(read) = 0
  BY <1>2 DEF Can!Init, Held, Passed, Used
<1>5. CanCounts  BY <1>2, <1>4 DEF Can!Init, CanCounts
<1>6. Ordered(hwRx, read, s_ring, s_rx_tail, Held, Passed, frames)  BY <1>4 DEF Ordered
<1> QED BY <1>3, <1>5, <1>6 DEF CanInv

\* What the invariant says of the properties.
LEMMA CanSays == CanInv => Can!TypeOK /\ Can!RxInOrder /\ Can!TxBothKept
<1> SUFFICES ASSUME CanInv PROVE Can!TypeOK /\ Can!RxInOrder /\ Can!TxBothKept
  OBVIOUS
<1> USE CanNumbers
<1>1. CanTypes /\ CanCounts /\ Ordered(hwRx, read, s_ring, s_rx_tail, Held, Passed, frames)
  BY DEF CanInv
<1>2. Len(hwRx) \in Nat /\ tput <= MaxSends + MaxFrames /\ s_rx_overflow <= MaxFrames
  BY <1>1, SMTT(30) DEF CanTypes, CanCounts
<1>3. tput \in 0 .. 2 * MaxSends + MaxFrames /\ s_rx_overflow \in 0 .. 2 * MaxFrames
  BY <1>1, <1>2 DEF CanTypes
<1>4. Can!TypeOK  BY <1>1, <1>3 DEF CanTypes, Can!TypeOK
<1>5. (s_rx_head + RxRing - s_rx_tail) % RxRing = Held  BY <1>1, UsedIs DEF Held, CanTypes
<1>6. ASSUME wk.pc \notin {"up", "pop", "adv"}, s_enabled
      PROVE  Len(taken) = Len(read) + s_rx_overflow + ((s_rx_head + RxRing - s_rx_tail) % RxRing)
  <2>1. Passed = 0  BY <1>6 DEF Passed
  <2> QED BY <1>1, <1>5, <1>6, <2>1, SMTT(30) DEF CanCounts, CanTypes
<1>7. Can!RxInOrder  BY <1>1, <1>6 DEF Can!RxInOrder, Ordered
<1>8. Can!TxBothKept  BY <1>1 DEF Can!TxBothKept, CanTypes
<1> QED BY <1>4, <1>7, <1>8

--------------------------------------------------------------------------------
\* signal_engine.c: an index that passed the end of a ring once.
LEMMA ModOnce ==
    ASSUME NEW S \in Nat \ {0}, NEW x \in 0 .. 2 * S - 1
    PROVE  x % S = (IF x < S THEN x ELSE x - S) /\ x % S \in 0 .. S - 1
<1>1. CASE x < S
  BY <1>1
<1>2. CASE x >= S
  <2>1. x = S * 1 + (x - S) /\ x - S \in 0 .. S - 1  BY <1>2
  <2>2. (S * 1 + (x - S)) % S = x - S  BY <2>1
  <2> QED BY <1>2, <2>1, <2>2
<1> QED BY <1>1, <1>2

\* The bounds of the lines.
LEMMA UartNumbers ==
    /\ Ring \in Nat \ {0} /\ TxFifo \in Nat \ {0} /\ RxFifo \in Nat \ {0} /\ Fifo2 \in Nat \ {0} /\ Epoch \in Nat \ {0}
    /\ ClientRoom \in Nat \ {0} /\ MaxBytes \in Nat /\ MaxDut \in Nat /\ MaxEpochs \in Nat /\ MaxSwaps \in Nat
  BY Assumptions DEF Uart!ConstantsOK

\* The place of the i-th of count bytes in front of head.
Lane(head, count, i) == (head + Ring - count + i - 1) % Ring

\* The bytes on the line, in the FIFO and in the ring are one run.
Run(ring, head, count, tk, f, on) ==
    /\ tk = on + Len(f) + count
    /\ \A i \in 1 .. Len(f) : f[i] = on + i
    /\ \A i \in 1 .. count : ring[Lane(head, count, i)] = on + Len(f) + i

\* Taking k bytes more leaves the others where they are.
LEMMA LanesKept ==
    ASSUME NEW head \in 0 .. Ring - 1, NEW count \in 0 .. Ring, NEW k \in 0 .. Ring - count
    PROVE  LET h == (head + k) % Ring IN
           /\ h \in 0 .. Ring - 1
           /\ \A i \in 1 .. count : /\ Lane(h, count + k, i) = Lane(head, count, i)
                                    /\ Lane(head, count, i) \in 0 .. Ring - 1
                                    /\ ~ ((Lane(head, count, i) + Ring - head) % Ring < k)
           /\ \A i \in count + 1 .. count + k : /\ Lane(h, count + k, i) \in 0 .. Ring - 1
                                                /\ (Lane(h, count + k, i) + Ring - head) % Ring = i - count - 1
<1> USE UartNumbers
<1> DEFINE h == (head + k) % Ring
<1>1. h = (IF head + k < Ring THEN head + k ELSE head + k - Ring) /\ h \in 0 .. Ring - 1
  <2> DEFINE x == head + k
  <2>1. x \in 0 .. 2 * Ring - 1  OBVIOUS
  <2>2. h = x % Ring  OBVIOUS
  <2>3. x = head + k  OBVIOUS
  <2> HIDE DEF x, h
  <2>4. x % Ring = (IF x < Ring THEN x ELSE x - Ring) /\ x % Ring \in 0 .. Ring - 1
    BY <2>1, ModOnce
  <2> QED BY <2>2, <2>3, <2>4
<1> HIDE DEF h
<1>2. ASSUME NEW i \in 1 .. count
      PROVE  /\ Lane(h, count + k, i) = Lane(head, count, i) /\ Lane(head, count, i) \in 0 .. Ring - 1
             /\ ~ ((Lane(head, count, i) + Ring - head) % Ring < k)
  <2> DEFINE x == head + Ring - count + i - 1
             y == h + Ring - (count + k) + i - 1
             p == x % Ring
             z == p + Ring - head
  <2>1. x \in 0 .. 2 * Ring - 1 /\ y \in 0 .. 2 * Ring - 1  BY <1>1
  <2>2. p = (IF x < Ring THEN x ELSE x - Ring) /\ p \in 0 .. Ring - 1  BY <2>1, ModOnce
  <2>3. y % Ring = (IF y < Ring THEN y ELSE y - Ring)  BY <2>1, ModOnce
  <2>4. p = y % Ring
    <3> HIDE DEF p
    <3> QED BY <1>1, <2>1, <2>2, <2>3
  <2> HIDE DEF p
  <2>5. z \in 0 .. 2 * Ring - 1  BY <2>2
  <2>6. z % Ring = (IF z < Ring THEN z ELSE z - Ring)  BY <2>5, ModOnce
  <2>7. ~ (z % Ring < k)  BY <2>1, <2>2, <2>5, <2>6
  <2> QED BY <2>2, <2>4, <2>7 DEF Lane, p
<1>3. ASSUME NEW i \in count + 1 .. count + k
      PROVE  /\ Lane(h, count + k, i) \in 0 .. Ring - 1
             /\ (Lane(h, count + k, i) + Ring - head) % Ring = i - count - 1
  <2> DEFINE y == h + Ring - (count + k) + i - 1
             p == y % Ring
             z == p + Ring - head
  <2>1. y \in 0 .. 2 * Ring - 1  BY <1>1
  <2>2. p = (IF y < Ring THEN y ELSE y - Ring) /\ p \in 0 .. Ring - 1  BY <2>1, ModOnce
  <2> HIDE DEF p
  <2>3. z \in 0 .. 2 * Ring - 1  BY <2>2
  <2>4. z % Ring = (IF z < Ring THEN z ELSE z - Ring)  BY <2>3, ModOnce
  <2>5. z % Ring = i - count - 1  BY <1>1, <2>1, <2>2, <2>3, <2>4
  <2> QED BY <2>2, <2>5 DEF Lane, p
<1> QED BY <1>1, <1>2, <1>3 DEF h

\* fpga_uart_write, into the ring.
LEMMA QueueRuns ==
    ASSUME NEW n \in 1 .. 2, s_utx \in [0 .. Ring - 1 -> 0 .. MaxBytes], s_utx_head \in 0 .. Ring - 1,
           s_utx_count \in 0 .. Ring, utaken \in 0 .. MaxBytes, utaken + n <= MaxBytes
    PROVE  LET k == Uart!Fits(n)
               h == (s_utx_head + k) % Ring
           IN  /\ k \in 0 .. n /\ s_utx_count + k \in 0 .. Ring /\ utaken + k \in 0 .. MaxBytes /\ h \in 0 .. Ring - 1
               /\ Uart!Queued(n) \in [0 .. Ring - 1 -> 0 .. MaxBytes]
               /\ \A f \in Seq(Nat), on \in Nat : Run(s_utx, s_utx_head, s_utx_count, utaken, f, on) =>
                      Run(Uart!Queued(n), h, s_utx_count + k, utaken + k, f, on)
<1> USE UartNumbers
<1> DEFINE k == Uart!Fits(n)
           h == (s_utx_head + k) % Ring
           ring == Uart!Queued(n)
           D(i) == (i + Ring - s_utx_head) % Ring
<1>1. k \in 0 .. n /\ k \in 0 .. Ring - s_utx_count /\ s_utx_count + k \in 0 .. Ring /\ utaken + k \in 0 .. MaxBytes
  BY DEF Uart!Fits, Uart!Least
<1>2. ring = [i \in 0 .. Ring - 1 |-> IF D(i) < k THEN utaken + D(i) + 1 ELSE s_utx[i]]
  BY DEF Uart!Queued
<1> HIDE DEF k, ring
<1>3. /\ h \in 0 .. Ring - 1
      /\ \A i \in 1 .. s_utx_count : /\ Lane(h, s_utx_count + k, i) = Lane(s_utx_head, s_utx_count, i)
                                     /\ Lane(s_utx_head, s_utx_count, i) \in 0 .. Ring - 1
                                     /\ ~ (D(Lane(s_utx_head, s_utx_count, i)) < k)
      /\ \A i \in s_utx_count + 1 .. s_utx_count + k : /\ Lane(h, s_utx_count + k, i) \in 0 .. Ring - 1
                                                       /\ D(Lane(h, s_utx_count + k, i)) = i - s_utx_count - 1
  BY <1>1, LanesKept
<1> HIDE DEF h
<1>4. ring \in [0 .. Ring - 1 -> 0 .. MaxBytes]
  <2>1. ASSUME NEW i \in 0 .. Ring - 1 PROVE D(i) \in 0 .. Ring - 1
    <3>1. i + Ring - s_utx_head \in 0 .. 2 * Ring - 1  OBVIOUS
    <3> QED BY <3>1, ModOnce
  <2> HIDE DEF D
  <2>2. ASSUME NEW i \in 0 .. Ring - 1 PROVE (IF D(i) < k THEN utaken + D(i) + 1 ELSE s_utx[i]) \in 0 .. MaxBytes
    <3>1. D(i) \in Int /\ D(i) >= 0 /\ k \in Int /\ k <= n /\ s_utx[i] \in 0 .. MaxBytes
      BY <1>1, <2>1, SMTT(30)
    <3>2. CASE D(i) < k
      <4>1. utaken + D(i) + 1 >= 0 /\ utaken + D(i) + 1 <= utaken + n  BY <3>1, <3>2
      <4> QED BY <3>1, <3>2, <4>1
    <3> QED BY <3>1, <3>2
  <2> QED BY <1>2, <2>2
<1> HIDE DEF D
<1>5. ASSUME NEW f \in Seq(Nat), NEW on \in Nat, Run(s_utx, s_utx_head, s_utx_count, utaken, f, on)
      PROVE  Run(ring, h, s_utx_count + k, utaken + k, f, on)
  <2>0. Len(f) \in Nat  OBVIOUS
  <2>1. utaken + k = on + Len(f) + (s_utx_count + k)  BY <1>1, <1>5, <2>0 DEF Run
  <2>2. ASSUME NEW i \in 1 .. s_utx_count + k PROVE ring[Lane(h, s_utx_count + k, i)] = on + Len(f) + i
    <3>1. CASE i \in 1 .. s_utx_count
      BY <1>2, <1>3, <1>5, <3>1 DEF Run
    <3>2. CASE i \in s_utx_count + 1 .. s_utx_count + k
      <4>1. D(Lane(h, s_utx_count + k, i)) < k  BY <1>1, <1>3, <3>2
      <4>2. ring[Lane(h, s_utx_count + k, i)] = utaken + (i - s_utx_count - 1) + 1
        BY <1>2, <1>3, <3>2, <4>1
      <4> QED BY <1>1, <1>5, <2>0, <4>2 DEF Run
    <3> QED BY <1>1, <3>1, <3>2
  <2> QED BY <1>5, <2>1, <2>2 DEF Run
<1> QED BY <1>1, <1>3, <1>4, <1>5 DEF k, h, ring

\* fpga_uart_tx_pump: what moves from the ring into an empty FIFO, and what stays.
LEMMA PumpRuns ==
    ASSUME NEW ring \in [0 .. Ring - 1 -> 0 .. MaxBytes], NEW head \in 0 .. Ring - 1, NEW count \in 1 .. Ring
    PROVE  LET p == Uart!Pumped(ring, head, count) IN
           /\ p \in Seq(Nat) /\ Len(p) <= TxFifo /\ Len(p) \in 1 .. count /\ Uart!Into(<<>>, p, TxFifo) = p
           /\ \A tk \in Nat, on \in Nat : Run(ring, head, count, tk, <<>>, on) =>
                  Run(ring, head, count - Len(p), tk, p, on)
<1> USE UartNumbers
<1> DEFINE n == Uart!Least(count, TxFifo)
           tail == (head + Ring - count) % Ring
           p == Uart!Pumped(ring, head, count)
<1>1. n \in 1 .. count /\ n <= TxFifo  BY DEF Uart!Least
<1>2. p = [i \in 1 .. n |-> ring[(tail + i - 1) % Ring]]  BY DEF Uart!Pumped
<1> HIDE DEF n, p
<1>3. tail = (IF head + Ring - count < Ring THEN head + Ring - count ELSE head - count) /\ tail \in 0 .. Ring - 1
  <2> DEFINE x == head + Ring - count
  <2>1. x \in 0 .. 2 * Ring - 1  OBVIOUS
  <2>2. tail = x % Ring  OBVIOUS
  <2>3. x = head + Ring - count  OBVIOUS
  <2> HIDE DEF x, tail
  <2>4. x % Ring = (IF x < Ring THEN x ELSE x - Ring) /\ x % Ring \in 0 .. Ring - 1
    BY <2>1, ModOnce
  <2> QED BY <2>2, <2>3, <2>4
<1> HIDE DEF tail
<1>4. ASSUME NEW i \in 1 .. count
      PROVE (tail + i - 1) % Ring = Lane(head, count, i) /\ Lane(head, count, i) \in 0 .. Ring - 1
  <2> DEFINE x == tail + i - 1  y == head + Ring - count + i - 1
  <2>1. x \in 0 .. 2 * Ring - 1 /\ y \in 0 .. 2 * Ring - 1  BY <1>3
  <2>2. x % Ring = (IF x < Ring THEN x ELSE x - Ring)  BY <2>1, ModOnce
  <2>3. y % Ring = (IF y < Ring THEN y ELSE y - Ring) /\ y % Ring \in 0 .. Ring - 1
    BY <2>1, ModOnce
  <2>4. x % Ring = y % Ring  BY <1>3, <2>1, <2>2, <2>3
  <2> QED BY <2>3, <2>4 DEF Lane
<1>5. ASSUME NEW i \in 1 .. n PROVE i \in 1 .. count
  BY <1>1
<1>6. p \in Seq(Nat) /\ Len(p) = n /\ \A i \in 1 .. n : p[i] = ring[Lane(head, count, i)]
  <2>1. \A i \in 1 .. n : ring[(tail + i - 1) % Ring] = ring[Lane(head, count, i)] /\ ring[Lane(head, count, i)] \in Nat
    BY <1>4, <1>5
  <2>2. p \in [1 .. n -> Nat]  BY <1>2, <2>1
  <2>3. n \in Nat  BY <1>1
  <2> QED BY <1>2, <2>1, <2>2, <2>3
<1>7. Uart!Into(<<>>, p, TxFifo) = p
  <2>1. Len(<<>>) = 0 /\ ~ (0 >= TxFifo) /\ <<>> \o p = p  BY <1>6
  <2>2. Uart!Least(Len(<<>>) + Len(p), TxFifo) = Len(p)  BY <1>1, <1>6, <2>1 DEF Uart!Least
  <2>3. SubSeq(p, 1, Len(p)) = p  BY <1>6
  <2> QED BY <2>1, <2>2, <2>3 DEF Uart!Into
<1>8. ASSUME NEW tk \in Nat, NEW on \in Nat, Run(ring, head, count, tk, <<>>, on)
      PROVE  Run(ring, head, count - n, tk, p, on)
  <2>1. Len(<<>>) = 0  OBVIOUS
  <2>2. tk = on + count /\ \A i \in 1 .. count : ring[Lane(head, count, i)] = on + i
    BY <1>8, <2>1 DEF Run
  <2>3. tk = on + n + (count - n)  BY <1>1, <2>2
  <2>4. \A i \in 1 .. n : p[i] = on + i  BY <1>5, <1>6, <2>2
  <2>5. ASSUME NEW i \in 1 .. count - n PROVE ring[Lane(head, count - n, i)] = on + n + i
    <3>1. n + i \in 1 .. count /\ head + Ring - (count - n) + i - 1 = head + Ring - count + (n + i) - 1
      BY <1>1
    <3>2. Lane(head, count - n, i) = Lane(head, count, n + i)  BY <3>1 DEF Lane
    <3>3. ring[Lane(head, count, n + i)] = on + (n + i)  BY <2>2, <3>1
    <3> QED BY <1>1, <3>2, <3>3
  <2> QED BY <1>6, <2>3, <2>4, <2>5 DEF Run
<1> QED BY <1>1, <1>6, <1>7, <1>8 DEF p

\* The types of the bytes on the way to the DUT, of those on the way back, and of the simulated receiver's.
UpTypes ==
    /\ s_utx \in [0 .. Ring - 1 -> 0 .. MaxBytes] /\ s_utx_head \in 0 .. Ring - 1 /\ s_utx_count \in 0 .. Ring
    /\ utaken \in 0 .. MaxBytes /\ txf \in Seq(Nat) /\ Len(txf) <= TxFifo /\ onLine \in Nat
DownTypes ==
    /\ rxf \in Seq(Nat) /\ Len(rxf) <= RxFifo /\ dutSent \in Nat /\ toClient \in Nat /\ roomLeft \in 0 .. ClientRoom
    /\ rxOvf \in BOOLEAN /\ s_uart_rx_ovf \in BOOLEAN /\ rxLost \in BOOLEAN
    /\ uploading \in BOOLEAN /\ uart_upload_suspended \in BOOLEAN
GpsTypes ==
    /\ s_stage_len \in {0, Epoch} /\ s_stage_off \in 0 .. s_stage_len
    /\ txf2 \in Seq(Nat) /\ Len(txf2) <= Fifo2 /\ onLine2 \in 0 .. Epoch - 1

\* What the client wrote is one run; so is what the DUT sent, unless some of it is known to be lost.
UpRuns == ~rearm.uart => Run(s_utx, s_utx_head, s_utx_count, utaken, txf, onLine)
DownRuns ==
    /\ ~rearm.uart /\ ~rxLost => dutSent = toClient + Len(rxf) /\ \A i \in 1 .. Len(rxf) : rxf[i] = toClient + i
    /\ ~rearm.uart /\ rxLost => rxOvf \/ s_uart_rx_ovf

\* The last byte of the epoch that has been written to UART2.
Written == IF s_stage_off = 0 THEN Epoch ELSE s_stage_off
GpsRuns ==
    /\ rearm.gps => txf2 = <<>>
    /\ ~rearm.gps /\ txf2 = <<>> => onLine2 = (IF s_stage_off = Epoch THEN 0 ELSE s_stage_off)
    /\ txf2 # <<>> => onLine2 + Len(txf2) = Written /\ \A i \in 1 .. Len(txf2) : txf2[i] = onLine2 + i

UartInv ==
    /\ rearm \in [uart : BOOLEAN, gps : BOOLEAN] /\ UpTypes /\ DownTypes /\ GpsTypes
    /\ UpRuns /\ DownRuns /\ GpsRuns

\* fpga_uart_tx_pump.
LEMMA PumpKeeps ==
    ASSUME NEW ring \in [0 .. Ring - 1 -> 0 .. MaxBytes], NEW head \in 0 .. Ring - 1, NEW count \in 0 .. Ring,
           txf \in Seq(Nat), Len(txf) <= TxFifo, Uart!Pump(ring, head, count)
    PROVE  /\ s_utx_count' \in 0 .. Ring /\ txf' \in Seq(Nat) /\ Len(txf)' <= TxFifo
           /\ \A tk \in Nat, on \in Nat : Run(ring, head, count, tk, txf, on) =>
                  Run(ring, head, s_utx_count', tk, txf', on)
           /\ UNCHANGED <<rxOvf, s_uart_rx_ovf>> \/ Uart!StatusLatches
<1> USE UartNumbers
<1>1. CASE count > 0 /\ Uart!MayPump /\ txf' = Uart!Into(txf, Uart!Pumped(ring, head, count), TxFifo)
           /\ s_utx_count' = count - Len(Uart!Pumped(ring, head, count)) /\ Uart!StatusLatches
  <2> DEFINE p == Uart!Pumped(ring, head, count)
  <2>1. txf = <<>> /\ count \in 1 .. Ring  BY <1>1 DEF Uart!MayPump
  <2>2. /\ p \in Seq(Nat) /\ Len(p) <= TxFifo /\ Len(p) \in 1 .. count /\ Uart!Into(<<>>, p, TxFifo) = p
        /\ \A tk \in Nat, on \in Nat : Run(ring, head, count, tk, <<>>, on) =>
               Run(ring, head, count - Len(p), tk, p, on)
    BY <2>1, PumpRuns
  <2>3. txf' = p /\ s_utx_count' = count - Len(p)  BY <1>1, <2>1, <2>2
  <2> HIDE DEF p
  <2>4. s_utx_count' \in 0 .. Ring  BY <2>1, <2>2, <2>3
  <2> QED BY <1>1, <2>1, <2>2, <2>3, <2>4
<1>2. CASE s_utx_count' = count /\ txf' = txf /\ (UNCHANGED <<rxOvf, s_uart_rx_ovf>> \/ Uart!StatusLatches)
  BY <1>2
<1> QED BY <1>1, <1>2 DEF Uart!Pump

\* What is on its way to the DUT.
LEMMA UpKeeps ==
    ASSUME UartInv, [Uart!Next]_uartVars
    PROVE  UpTypes' /\ UpRuns'
<1> USE UartNumbers
<1>0. /\ rearm \in [uart : BOOLEAN, gps : BOOLEAN] /\ UpTypes /\ UpRuns
      /\ s_utx \in [0 .. Ring - 1 -> 0 .. MaxBytes] /\ s_utx_head \in 0 .. Ring - 1 /\ s_utx_count \in 0 .. Ring
      /\ utaken \in 0 .. MaxBytes /\ txf \in Seq(Nat) /\ Len(txf) <= TxFifo /\ onLine \in Nat /\ utaken \in Nat
  BY DEF UartInv, UpTypes
<1>1. ASSUME NEW n \in 1 .. 2, Uart!ClientWrites(n) PROVE UpTypes' /\ UpRuns'
  <2> DEFINE k == Uart!Fits(n)
             h == (s_utx_head + k) % Ring
             ring == Uart!Queued(n)
  <2>1. /\ utaken + n <= MaxBytes /\ s_utx' = ring /\ s_utx_head' = h /\ utaken' = utaken + k
        /\ Uart!Pump(ring, h, s_utx_count + k) /\ UNCHANGED <<onLine, rearm>>
    BY <1>1 DEF Uart!ClientWrites
  <2>2. /\ k \in 0 .. n /\ s_utx_count + k \in 0 .. Ring /\ utaken + k \in 0 .. MaxBytes /\ h \in 0 .. Ring - 1
        /\ ring \in [0 .. Ring - 1 -> 0 .. MaxBytes]
        /\ \A f \in Seq(Nat), on \in Nat : Run(s_utx, s_utx_head, s_utx_count, utaken, f, on) =>
               Run(ring, h, s_utx_count + k, utaken + k, f, on)
    BY <1>0, <2>1, QueueRuns
  <2> DEFINE c == s_utx_count + k  t == utaken + k
  <2>3. c \in 0 .. Ring /\ t \in Nat /\ t \in 0 .. MaxBytes /\ Uart!Pump(ring, h, c)
    BY <2>1, <2>2
  <2>4. ~rearm.uart => Run(ring, h, c, t, txf, onLine)  BY <1>0, <2>2 DEF UpRuns
  <2>5. utaken' = t  BY <2>1
  <2> HIDE DEF k, h, ring, c, t
  <2>6. /\ s_utx_count' \in 0 .. Ring /\ txf' \in Seq(Nat) /\ Len(txf)' <= TxFifo
        /\ \A tk \in Nat, on \in Nat : Run(ring, h, c, tk, txf, on) => Run(ring, h, s_utx_count', tk, txf', on)
    BY <1>0, <2>2, <2>3, PumpKeeps
  <2>7. UpTypes'  BY <1>0, <2>1, <2>2, <2>3, <2>5, <2>6 DEF UpTypes
  <2>8. UpRuns'  BY <1>0, <2>1, <2>3, <2>4, <2>5, <2>6 DEF UpRuns
  <2> QED BY <2>7, <2>8
<1>2. ASSUME Uart!TxPoll PROVE UpTypes' /\ UpRuns'
  <2>1. Uart!Pump(s_utx, s_utx_head, s_utx_count) /\ UNCHANGED <<s_utx, s_utx_head, utaken, onLine, rearm>>
    BY <1>2 DEF Uart!TxPoll
  <2>2. /\ s_utx_count' \in 0 .. Ring /\ txf' \in Seq(Nat) /\ Len(txf)' <= TxFifo
        /\ \A tk \in Nat, on \in Nat : Run(s_utx, s_utx_head, s_utx_count, tk, txf, on) =>
               Run(s_utx, s_utx_head, s_utx_count', tk, txf', on)
    BY <1>0, <2>1, PumpKeeps
  <2> QED BY <1>0, <2>1, <2>2 DEF UpTypes, UpRuns
<1>3. ASSUME Uart!LineSends PROVE UpTypes' /\ UpRuns'
  <2>1. /\ txf # <<>> /\ ~rearm.uart /\ onLine' = Head(txf) /\ txf' = Tail(txf)
        /\ UNCHANGED <<s_utx, s_utx_head, s_utx_count, utaken, rearm>>
    BY <1>3 DEF Uart!LineSends
  <2>2. /\ utaken = onLine + Len(txf) + s_utx_count /\ \A i \in 1 .. Len(txf) : txf[i] = onLine + i
        /\ \A i \in 1 .. s_utx_count : s_utx[Lane(s_utx_head, s_utx_count, i)] = onLine + Len(txf) + i
    BY <1>0, <2>1 DEF UpRuns, Run
  <2>3. Len(txf) \in Nat \ {0} /\ Len(Tail(txf)) = Len(txf) - 1 /\ Tail(txf) \in Seq(Nat) /\ Head(txf) = txf[1]
    BY <1>0, <2>1
  <2>4. \A i \in 1 .. Len(txf) - 1 : Tail(txf)[i] = txf[i + 1]  BY <1>0, <2>1, <2>3
  <2>5. onLine' = onLine + 1 /\ onLine' \in Nat  BY <1>0, <2>1, <2>2, <2>3
  <2>6. \A i \in 1 .. Len(txf) - 1 : Tail(txf)[i] = onLine + 1 + i  BY <1>0, <2>2, <2>3, <2>4
  <2>7. UpTypes'  BY <1>0, <2>1, <2>3, <2>5 DEF UpTypes
  <2>8. /\ utaken = onLine + 1 + (Len(txf) - 1) + s_utx_count
        /\ \A i \in 1 .. s_utx_count : s_utx[Lane(s_utx_head, s_utx_count, i)] = onLine + 1 + (Len(txf) - 1) + i
    BY <1>0, <2>2, <2>3
  <2>9. Run(s_utx, s_utx_head, s_utx_count, utaken, Tail(txf), onLine + 1)
    BY <2>3, <2>6, <2>8 DEF Run
  <2> QED BY <2>1, <2>5, <2>7, <2>9 DEF UpRuns
<1>4. ASSUME Uart!Reconfigured PROVE UpTypes' /\ UpRuns'
  <2>1. txf' = <<>> /\ rearm'.uart = TRUE /\ UNCHANGED <<s_utx, s_utx_head, s_utx_count, utaken, onLine>>
    BY <1>4 DEF Uart!Reconfigured
  <2>2. <<>> \in Seq(Nat) /\ Len(<<>>) = 0  OBVIOUS
  <2> QED BY <1>0, <2>1, <2>2 DEF UpTypes, UpRuns
<1>5. ASSUME Uart!UartRearm PROVE UpTypes' /\ UpRuns'
  <2>1. s_utx_head' = 0 /\ s_utx_count' = 0 /\ utaken' = 0 /\ txf' = <<>> /\ onLine' = 0 /\ s_utx' = s_utx
    BY <1>5 DEF Uart!UartRearm
  <2>2. <<>> \in Seq(Nat) /\ Len(<<>>) = 0 /\ 0 \in 0 .. Ring - 1 /\ 0 \in 0 .. Ring /\ 0 \in 0 .. MaxBytes
    OBVIOUS
  <2>3. UpTypes'  BY <1>0, <2>1, <2>2 DEF UpTypes
  <2>4. Run(s_utx, 0, 0, 0, <<>>, 0)  BY <2>2 DEF Run
  <2> QED BY <2>1, <2>3, <2>4 DEF UpRuns
<1>6. ASSUME UNCHANGED Uart!ulVars, UNCHANGED rearm \/ rearm' = [rearm EXCEPT !.gps = FALSE] PROVE UpTypes' /\ UpRuns'
  <2>1. UNCHANGED <<s_utx, s_utx_head, s_utx_count, utaken, txf, onLine>> /\ rearm'.uart = rearm.uart
    BY <1>0, <1>6 DEF Uart!ulVars
  <2> QED BY <1>0, <2>1 DEF UpTypes, UpRuns
<1>7. ASSUME Uart!DutSends \/ Uart!RxPoll \/ Uart!NetSends \/ Uart!Upload \/ Uart!GpsPoll \/ Uart!Line2Sends
      \/ Uart!GpsRearm
      PROVE  UNCHANGED Uart!ulVars /\ (UNCHANGED rearm \/ rearm' = [rearm EXCEPT !.gps = FALSE])
  BY <1>7 DEF Uart!DutSends, Uart!RxPoll, Uart!NetSends, Uart!Upload, Uart!GpsPoll, Uart!Line2Sends, Uart!GpsRearm
<1>8. ASSUME UNCHANGED uartVars PROVE UNCHANGED Uart!ulVars /\ UNCHANGED rearm
  BY <1>8 DEF uartVars, Uart!ulVars
<1> QED BY <1>1, <1>2, <1>3, <1>4, <1>5, <1>6, <1>7, <1>8 DEF Uart!Next

\* What the DUT sent is on its way to the client.
LEMMA DownKeeps ==
    ASSUME UartInv, [Uart!Next]_uartVars
    PROVE  DownTypes' /\ DownRuns'
<1> USE UartNumbers
<1> DEFINE Same == UNCHANGED <<rxf, dutSent, toClient, rxLost, roomLeft, uploading, uart_upload_suspended>>
           Told == UNCHANGED <<rxOvf, s_uart_rx_ovf>> \/ Uart!StatusLatches
<1>0. /\ rearm \in [uart : BOOLEAN, gps : BOOLEAN] /\ DownTypes /\ DownRuns
      /\ rxf \in Seq(Nat) /\ Len(rxf) \in Nat /\ Len(rxf) <= RxFifo /\ dutSent \in Nat /\ toClient \in Nat
      /\ roomLeft \in 0 .. ClientRoom /\ rxOvf \in BOOLEAN /\ s_uart_rx_ovf \in BOOLEAN /\ rxLost \in BOOLEAN
      /\ uploading \in BOOLEAN /\ uart_upload_suspended \in BOOLEAN
  BY DEF UartInv, DownTypes
<1>1. ASSUME Told
      PROVE  /\ rxOvf' \in BOOLEAN /\ s_uart_rx_ovf' \in BOOLEAN
             /\ rxOvf \/ s_uart_rx_ovf => rxOvf' \/ s_uart_rx_ovf'
  BY <1>0, <1>1 DEF Uart!StatusLatches
<1>2. ASSUME Same, Told, rearm'.uart = rearm.uart PROVE DownTypes' /\ DownRuns'
  <2>1. DownTypes'  BY <1>0, <1>1, <1>2 DEF DownTypes
  <2>2. DownRuns'  BY <1>0, <1>1, <1>2 DEF DownRuns
  <2> QED BY <2>1, <2>2
<1>3. ASSUME Uart!DutSends PROVE DownTypes' /\ DownRuns'
  <2>0. /\ dutSent' = dutSent + 1 /\ dutSent + 1 \in Nat /\ ~rearm.uart
        /\ UNCHANGED <<s_uart_rx_ovf, toClient, roomLeft, uploading, uart_upload_suspended, rearm>>
    BY <1>0, <1>3 DEF Uart!DutSends
  <2>1. CASE Len(rxf) < RxFifo /\ rxf' = Append(rxf, dutSent + 1) /\ UNCHANGED <<rxOvf, rxLost>>
    <3> DEFINE f == Append(rxf, dutSent + 1)
    <3>1. f \in Seq(Nat) /\ Len(f) = Len(rxf) + 1 /\ f[Len(rxf) + 1] = dutSent + 1
          /\ \A i \in 1 .. Len(rxf) : f[i] = rxf[i]
      BY <1>0, <2>0
    <3> HIDE DEF f
    <3>2. rxf' = f  BY <2>1 DEF f
    <3>3. DownTypes'  BY <1>0, <2>0, <2>1, <3>1, <3>2 DEF DownTypes
    <3>4. ASSUME ~rxLost
          PROVE  dutSent + 1 = toClient + Len(f) /\ \A i \in 1 .. Len(f) : f[i] = toClient + i
      <4>1. dutSent = toClient + Len(rxf) /\ \A i \in 1 .. Len(rxf) : rxf[i] = toClient + i
        BY <1>0, <2>0, <3>4 DEF DownRuns
      <4>2. ASSUME NEW i \in 1 .. Len(f) PROVE f[i] = toClient + i
        <5>1. CASE i = Len(rxf) + 1
          BY <1>0, <3>1, <4>1, <5>1
        <5>2. CASE i \in 1 .. Len(rxf)
          BY <1>0, <3>1, <4>1, <5>2
        <5> QED BY <1>0, <3>1, <5>1, <5>2
      <4> QED BY <1>0, <3>1, <4>1, <4>2
    <3>5. DownRuns'  BY <1>0, <2>0, <2>1, <3>2, <3>4 DEF DownRuns
    <3> QED BY <3>3, <3>5
  <2>2. CASE Len(rxf) = RxFifo /\ rxOvf' = TRUE /\ rxLost' = TRUE /\ UNCHANGED rxf
    <3>1. DownTypes'  BY <1>0, <2>0, <2>2 DEF DownTypes
    <3>2. DownRuns'  BY <2>2 DEF DownRuns
    <3> QED BY <3>1, <3>2
  <2> QED BY <1>3, <2>1, <2>2 DEF Uart!DutSends
<1>4. ASSUME Uart!RxPoll PROVE DownTypes' /\ DownRuns'
  <2>0. UNCHANGED <<dutSent, rxLost, uploading, rearm>>  BY <1>4 DEF Uart!RxPoll
  <2>1. CASE uploading /\ uart_upload_suspended' = TRUE /\ UNCHANGED <<rxf, toClient, roomLeft, rxOvf, s_uart_rx_ovf>>
    <3>1. DownTypes'  BY <1>0, <2>0, <2>1 DEF DownTypes
    <3>2. DownRuns'  BY <1>0, <2>0, <2>1 DEF DownRuns
    <3> QED BY <3>1, <3>2
  <2>2. CASE /\ uart_upload_suspended' = FALSE /\ rxf' = <<>> /\ toClient' = dutSent /\ Uart!StatusLatches
             /\ UNCHANGED roomLeft
    <3>0. <<>> \in Seq(Nat) /\ Len(<<>>) = 0  OBVIOUS
    <3>1. DownTypes'
        <4>1. rxf' \in Seq(Nat) /\ Len(rxf') <= RxFifo /\ dutSent' \in Nat /\ toClient' \in Nat
              /\ roomLeft' \in 0 .. ClientRoom
          BY <1>0, <1>1, <2>0, <2>2, <3>0
        <4>2. rxOvf' \in BOOLEAN /\ s_uart_rx_ovf' \in BOOLEAN  BY <1>0, <1>1, <2>0, <2>2, <3>0
        <4>3. rxLost' \in BOOLEAN /\ uploading' \in BOOLEAN /\ uart_upload_suspended' \in BOOLEAN
          BY <1>0, <1>1, <2>0, <2>2, <3>0
        <4> QED BY <4>1, <4>2, <4>3 DEF DownTypes
    <3>2. DownRuns'  BY <1>0, <1>1, <2>0, <2>2, <3>0 DEF DownRuns
    <3> QED BY <3>1, <3>2
  <2>3. ASSUME /\ Uart!StatusLatches /\ UNCHANGED uart_upload_suspended
               /\ rxf' = SubSeq(rxf, Uart!ReadRoom + 1, Len(rxf))
               /\ toClient' = IF Uart!Least(Uart!ReadRoom, roomLeft) > 0 THEN rxf[Uart!Least(Uart!ReadRoom, roomLeft)]
                                                                         ELSE toClient
               /\ roomLeft' = roomLeft - Uart!Least(Uart!ReadRoom, roomLeft)
        PROVE  DownTypes' /\ DownRuns'
    <3> DEFINE n == Uart!ReadRoom
    <3>1. n \in 0 .. Len(rxf) /\ n <= roomLeft /\ Uart!Least(n, roomLeft) = n
      BY <1>0 DEF Uart!ReadRoom, Uart!Least
    <3> HIDE DEF n
    <3>2. /\ rxf' = SubSeq(rxf, n + 1, Len(rxf)) /\ roomLeft' = roomLeft - n
          /\ toClient' = IF n > 0 THEN rxf[n] ELSE toClient
      BY <2>3, <3>1 DEF n
    <3>3. rxf' \in Seq(Nat) /\ Len(rxf') = Len(rxf) - n /\ \A i \in 1 .. Len(rxf) - n : rxf'[i] = rxf[n + i]
      <4>1. n + 1 >= 1 /\ n + 1 <= Len(rxf) + 1  BY <1>0, <3>1
      <4>2. \A i \in n + 1 .. Len(rxf) : rxf[i] \in Nat  BY <1>0, <3>1
      <4> DEFINE f == SubSeq(rxf, n + 1, Len(rxf))
      <4>3. f = [i \in 1 .. Len(rxf) - n |-> rxf[n + i]]  BY <1>0, <3>1, <4>1
      <4>4. Len(rxf) - n \in Nat /\ \A i \in 1 .. Len(rxf) - n : rxf[n + i] \in Nat
        BY <1>0, <3>1, <4>2
      <4> HIDE DEF f
      <4>5. f \in Seq(Nat) /\ Len(f) = Len(rxf) - n  BY <4>3, <4>4
      <4> QED BY <3>2, <4>3, <4>5 DEF f
    <3>4. toClient' \in Nat  BY <1>0, <3>1, <3>2
    <3>5. DownTypes'
      <4>1. rxf' \in Seq(Nat) /\ dutSent' \in Nat /\ toClient' \in Nat
        BY <1>0, <2>0, <3>3, <3>4
      <4>4. Len(rxf') <= RxFifo  BY <1>0, <3>1, <3>3
      <4>5. roomLeft' \in 0 .. ClientRoom  BY <1>0, <3>1, <3>2
      <4>2. rxOvf' \in BOOLEAN /\ s_uart_rx_ovf' \in BOOLEAN
          BY <1>0, <1>1, <2>0, <2>3, <3>1, <3>2, <3>3, <3>4
        <4>3. rxLost' \in BOOLEAN /\ uploading' \in BOOLEAN /\ uart_upload_suspended' \in BOOLEAN
          BY <1>0, <1>1, <2>0, <2>3, <3>1, <3>2, <3>3, <3>4
        <4> QED BY <4>1, <4>2, <4>3, <4>4, <4>5 DEF DownTypes
    <3>6. ASSUME ~rearm.uart, ~rxLost
          PROVE  dutSent = toClient' + Len(rxf') /\ \A i \in 1 .. Len(rxf') : rxf'[i] = toClient' + i
      <4>1. dutSent = toClient + Len(rxf) /\ \A i \in 1 .. Len(rxf) : rxf[i] = toClient + i
        BY <1>0, <3>6 DEF DownRuns
      <4>2. toClient' = toClient + n  BY <1>0, <3>1, <3>2, <4>1
      <4>3. ASSUME NEW i \in 1 .. Len(rxf) - n PROVE rxf'[i] = toClient + n + i
        <5>1. n + i \in 1 .. Len(rxf)  BY <1>0, <3>1
        <5> QED BY <1>0, <3>1, <3>3, <4>1, <5>1
      <4> QED BY <1>0, <3>1, <3>3, <4>1, <4>2, <4>3
    <3>7. ASSUME ~rearm.uart, rxLost PROVE rxOvf' \/ s_uart_rx_ovf'
      BY <1>0, <1>1, <2>3, <3>7 DEF DownRuns
    <3>8. DownRuns'  BY <2>0, <3>6, <3>7 DEF DownRuns
    <3> QED BY <3>5, <3>8
  <2> QED BY <1>4, <2>1, <2>2, <2>3 DEF Uart!RxPoll
<1>5. ASSUME Uart!NetSends \/ Uart!Upload PROVE DownTypes' /\ DownRuns'
  <2>1. /\ UNCHANGED <<rxf, rxOvf, s_uart_rx_ovf, dutSent, toClient, rxLost, uart_upload_suspended, rearm>>
        /\ roomLeft' \in {roomLeft, ClientRoom} /\ uploading' \in {uploading, ~uploading}
    BY <1>5 DEF Uart!NetSends, Uart!Upload
  <2>2. DownTypes'
      <3>1. rxf' \in Seq(Nat) /\ Len(rxf') <= RxFifo /\ dutSent' \in Nat /\ toClient' \in Nat
            /\ roomLeft' \in 0 .. ClientRoom
        BY <1>0, <2>1
      <3>2. rxOvf' \in BOOLEAN /\ s_uart_rx_ovf' \in BOOLEAN  BY <1>0, <2>1
      <3>3. rxLost' \in BOOLEAN /\ uploading' \in BOOLEAN /\ uart_upload_suspended' \in BOOLEAN
        BY <1>0, <2>1
      <3> QED BY <3>1, <3>2, <3>3 DEF DownTypes
  <2>3. DownRuns'  BY <1>0, <2>1 DEF DownRuns
  <2> QED BY <2>2, <2>3
<1>6. ASSUME Uart!Reconfigured PROVE DownTypes' /\ DownRuns'
  <2>1. /\ rxf' = <<>> /\ rxOvf' = FALSE /\ rearm'.uart = TRUE
        /\ UNCHANGED <<s_uart_rx_ovf, dutSent, toClient, rxLost, roomLeft, uploading, uart_upload_suspended>>
    BY <1>6 DEF Uart!Reconfigured
  <2>2. <<>> \in Seq(Nat) /\ Len(<<>>) = 0  OBVIOUS
  <2>3. DownTypes'
      <3>1. rxf' \in Seq(Nat) /\ Len(rxf') <= RxFifo /\ dutSent' \in Nat /\ toClient' \in Nat
            /\ roomLeft' \in 0 .. ClientRoom
        BY <1>0, <2>1, <2>2
      <3>2. rxOvf' \in BOOLEAN /\ s_uart_rx_ovf' \in BOOLEAN  BY <1>0, <2>1, <2>2
      <3>3. rxLost' \in BOOLEAN /\ uploading' \in BOOLEAN /\ uart_upload_suspended' \in BOOLEAN
        BY <1>0, <2>1, <2>2
      <3> QED BY <3>1, <3>2, <3>3 DEF DownTypes
  <2>4. DownRuns'  BY <2>1 DEF DownRuns
  <2> QED BY <2>3, <2>4
<1>7. ASSUME Uart!UartRearm PROVE DownTypes' /\ DownRuns'
  <2>1. /\ rxf' = <<>> /\ rxOvf' = FALSE /\ s_uart_rx_ovf' = FALSE /\ rxLost' = FALSE /\ dutSent' = 0 /\ toClient' = 0
        /\ UNCHANGED <<roomLeft, uploading, uart_upload_suspended>>
    BY <1>7 DEF Uart!UartRearm
  <2>2. <<>> \in Seq(Nat) /\ Len(<<>>) = 0  OBVIOUS
  <2>3. DownTypes'
      <3>1. rxf' \in Seq(Nat) /\ Len(rxf') <= RxFifo /\ dutSent' \in Nat /\ toClient' \in Nat
            /\ roomLeft' \in 0 .. ClientRoom
        BY <1>0, <2>1, <2>2
      <3>2. rxOvf' \in BOOLEAN /\ s_uart_rx_ovf' \in BOOLEAN  BY <1>0, <2>1, <2>2
      <3>3. rxLost' \in BOOLEAN /\ uploading' \in BOOLEAN /\ uart_upload_suspended' \in BOOLEAN
        BY <1>0, <2>1, <2>2
      <3> QED BY <3>1, <3>2, <3>3 DEF DownTypes
  <2>4. DownRuns'  BY <2>1, <2>2 DEF DownRuns
  <2> QED BY <2>3, <2>4
<1>8. ASSUME NEW n \in 1 .. 2, Uart!ClientWrites(n) PROVE Same /\ Told /\ rearm'.uart = rearm.uart
  BY <1>8 DEF Uart!ClientWrites, Uart!Pump, Uart!rxVars
<1>9. ASSUME Uart!TxPoll \/ Uart!LineSends PROVE Same /\ Told /\ rearm'.uart = rearm.uart
  BY <1>9 DEF Uart!TxPoll, Uart!LineSends, Uart!Pump, Uart!rxVars
<1>10. ASSUME Uart!GpsPoll PROVE Same /\ Told /\ rearm'.uart = rearm.uart
  BY <1>10 DEF Uart!GpsPoll, Uart!GpsPump, Uart!rxVars
<1>11. ASSUME Uart!Line2Sends \/ Uart!GpsRearm PROVE Same /\ Told /\ rearm'.uart = rearm.uart
  BY <1>0, <1>11 DEF Uart!Line2Sends, Uart!GpsRearm, Uart!rxVars
<1>12. ASSUME UNCHANGED uartVars PROVE Same /\ Told /\ rearm'.uart = rearm.uart
  BY <1>12 DEF uartVars
<1> HIDE DEF Same, Told
<1> QED BY <1>2, <1>3, <1>4, <1>5, <1>6, <1>7, <1>8, <1>9, <1>10, <1>11, <1>12 DEF Uart!Next

\* The epochs of the simulated receiver.
LEMMA GpsKeeps ==
    ASSUME UartInv, [Uart!Next]_uartVars
    PROVE  GpsTypes' /\ GpsRuns'
<1> USE UartNumbers
<1> DEFINE Same == UNCHANGED <<s_stage_off, s_stage_len, txf2, onLine2>> /\ rearm'.gps = rearm.gps
<1>0. /\ rearm \in [uart : BOOLEAN, gps : BOOLEAN] /\ GpsTypes /\ GpsRuns
      /\ s_stage_len \in {0, Epoch} /\ s_stage_off \in 0 .. s_stage_len /\ s_stage_off \in 0 .. Epoch
      /\ txf2 \in Seq(Nat) /\ Len(txf2) \in Nat /\ Len(txf2) <= Fifo2 /\ onLine2 \in 0 .. Epoch - 1
  BY DEF UartInv, GpsTypes
<1>1. ASSUME Same PROVE GpsTypes' /\ GpsRuns'
  <2>1. GpsTypes'  BY <1>0, <1>1 DEF GpsTypes
  <2>2. GpsRuns'  BY <1>0, <1>1 DEF GpsRuns, Written
  <2> QED BY <2>1, <2>2
<1>2. ASSUME Uart!GpsPoll PROVE GpsTypes' /\ GpsRuns'
  <2>1. ~rearm.gps /\ UNCHANGED <<onLine2, rearm>>  BY <1>2 DEF Uart!GpsPoll
  <2>2. PICK due \in BOOLEAN :
            LET st == IF due THEN Uart!EpochDue ELSE [off |-> s_stage_off, len |-> s_stage_len]
            IN  s_stage_len' = st.len /\ Uart!GpsPump(st)
    BY <1>2 DEF Uart!GpsPoll
  <2> DEFINE st == IF due THEN Uart!EpochDue ELSE [off |-> s_stage_off, len |-> s_stage_len]
  <2>3. s_stage_len' = st.len /\ Uart!GpsPump(st)  BY <2>2
  <2>4. \/ st.off = s_stage_off /\ st.len = s_stage_len
        \/ st.off = 0 /\ st.len = Epoch /\ s_stage_off >= s_stage_len
    BY <1>0 DEF Uart!EpochDue
  <2> HIDE DEF st
  <2>5. st.len \in {0, Epoch} /\ st.off \in 0 .. st.len /\ st.off \in 0 .. Epoch  BY <1>0, <2>4
  <2>6. s_stage_off = st.off \/ (st.off = 0 /\ s_stage_off \in {0, Epoch})  BY <1>0, <2>4
  <2>7. CASE st.off < st.len /\ txf2 = <<>>
    <3> DEFINE n == Uart!Least(st.len - st.off, Fifo2)
               f == Uart!Upto(st.off + 1, st.off + n)
    <3>1. txf2' = f /\ s_stage_off' = st.off + n
      <4>1. ~(st.off >= st.len)  BY <2>5, <2>7
      <4> QED BY <2>3, <2>7, <4>1, Zenon DEF Uart!GpsPump
    <3>2. st.len = Epoch /\ n \in 1 .. Epoch - st.off /\ n <= Fifo2
      BY <2>5, <2>7 DEF Uart!Least
    <3> HIDE DEF n
    <3>3. f = [i \in 1 .. n |-> st.off + i]
      <4>1. (st.off + n) - (st.off + 1) + 1 = n /\ \A i \in 1 .. n : (st.off + 1) + i - 1 = st.off + i
        BY <2>5, <3>2
      <4>2. f = [i \in 1 .. (st.off + n) - (st.off + 1) + 1 |-> (st.off + 1) + i - 1]
        BY DEF Uart!Upto
      <4> HIDE DEF f
      <4> QED BY <4>1, <4>2
    <3> HIDE DEF f
    <3>4. f \in Seq(Nat) /\ Len(f) = n /\ \A i \in 1 .. n : f[i] = st.off + i
      <4>1. n \in Nat /\ \A i \in 1 .. n : st.off + i \in Nat  BY <2>5, <3>2
      <4> QED BY <3>3, <4>1
    <3>5. onLine2 = st.off
      <4>1. onLine2 = (IF s_stage_off = Epoch THEN 0 ELSE s_stage_off)
        BY <1>0, <2>1, <2>7 DEF GpsRuns
      <4> QED BY <1>0, <2>6, <2>7, <3>2, <4>1
    <3>6. s_stage_off' \in 1 .. Epoch /\ s_stage_len' = Epoch  BY <2>3, <2>5, <3>1, <3>2
    <3>7. GpsTypes'  BY <1>0, <2>1, <3>1, <3>2, <3>4, <3>6 DEF GpsTypes
    <3>8. txf2' # <<>> /\ Written' = st.off + n  BY <3>1, <3>2, <3>4, <3>6 DEF Written
    <3>9. GpsRuns'  BY <2>1, <3>1, <3>4, <3>5, <3>8 DEF GpsRuns
    <3> QED BY <3>7, <3>9
  <2>8. CASE s_stage_off' = st.off /\ UNCHANGED txf2 /\ (st.off < st.len => txf2 # <<>>)
    <3>1. s_stage_off' = s_stage_off \/ (s_stage_off' = 0 /\ s_stage_off = Epoch)
      BY <1>0, <2>4, <2>8
    <3>2. GpsTypes'  BY <1>0, <2>1, <2>3, <2>5, <2>8 DEF GpsTypes
    <3>3. s_stage_off' # s_stage_off => txf2 # <<>>
      <4>1. s_stage_off' # s_stage_off => st.off < st.len  BY <1>0, <2>4, <2>8
      <4> QED BY <2>8, <4>1
    <3>4. Written' = Written  BY <1>0, <3>1 DEF Written
    <3>5. GpsRuns'  BY <1>0, <2>1, <2>8, <3>1, <3>3, <3>4 DEF GpsRuns
    <3> QED BY <3>2, <3>5
  <2> QED BY <2>3, <2>5, <2>7, <2>8 DEF Uart!GpsPump
<1>3. ASSUME Uart!Line2Sends PROVE GpsTypes' /\ GpsRuns'
  <2>1. /\ txf2 # <<>> /\ txf2' = Tail(txf2) /\ onLine2' = IF Head(txf2) = Epoch THEN 0 ELSE Head(txf2)
        /\ UNCHANGED <<rearm, s_stage_off, s_stage_len>>
    BY <1>3 DEF Uart!Line2Sends
  <2>2. onLine2 + Len(txf2) = Written /\ \A i \in 1 .. Len(txf2) : txf2[i] = onLine2 + i
    BY <1>0, <2>1 DEF GpsRuns
  <2>3. /\ Len(txf2) >= 1 /\ Len(Tail(txf2)) = Len(txf2) - 1 /\ Tail(txf2) \in Seq(Nat)
        /\ Head(txf2) = txf2[1] /\ \A i \in 1 .. Len(txf2) - 1 : Tail(txf2)[i] = txf2[i + 1]
    BY <1>0, <2>1
  <2>4. Written \in 1 .. Epoch /\ Written' = Written  BY <1>0, <2>1 DEF Written
  <2>5. Head(txf2) = onLine2 + 1  BY <1>0, <2>2, <2>3
  <2>6. onLine2' \in 0 .. Epoch - 1  BY <1>0, <2>1, <2>2, <2>3, <2>4, <2>5
  <2>7. GpsTypes'  BY <1>0, <2>1, <2>3, <2>6 DEF GpsTypes
  <2>8. ~rearm.gps  BY <1>0, <2>1 DEF GpsRuns
  <2>9. ASSUME Len(txf2) = 1 PROVE Tail(txf2) = <<>> /\ onLine2' = (IF s_stage_off = Epoch THEN 0 ELSE s_stage_off)
    <3>1. Tail(txf2) = <<>>
      <4> DEFINE f == Tail(txf2)
      <4>1. f \in Seq(Nat) /\ Len(f) = 0  BY <2>3, <2>9
      <4> HIDE DEF f
      <4>2. f = <<>>  BY <4>1
      <4> QED BY <4>2 DEF f
    <3>2. onLine2 + 1 = Written  BY <2>2, <2>9
    <3>3. onLine2' = IF Written = Epoch THEN 0 ELSE Written  BY <2>1, <2>5, <3>2
    <3> QED BY <1>0, <3>1, <3>3 DEF Written
  <2>10. ASSUME Len(txf2) # 1
         PROVE  /\ Tail(txf2) # <<>> /\ onLine2' + Len(Tail(txf2)) = Written
                /\ \A i \in 1 .. Len(Tail(txf2)) : Tail(txf2)[i] = onLine2' + i
    <3>1. onLine2' = onLine2 + 1  BY <1>0, <2>1, <2>2, <2>3, <2>4, <2>5, <2>10
    <3>2. Tail(txf2) # <<>>
      <4>1. Len(<<>>) = 0 /\ Len(Tail(txf2)) # 0  BY <1>0, <2>3, <2>10
      <4> QED BY <4>1
    <3>3. onLine2' + Len(Tail(txf2)) = Written  BY <1>0, <2>2, <2>3, <3>1
    <3>4. ASSUME NEW i \in 1 .. Len(txf2) - 1 PROVE Tail(txf2)[i] = onLine2' + i
      <4>1. i + 1 \in 1 .. Len(txf2)  BY <1>0
      <4> QED BY <1>0, <2>2, <2>3, <3>1, <4>1
    <3> QED BY <2>3, <3>2, <3>3, <3>4
  <2>11. GpsRuns'  BY <2>1, <2>4, <2>8, <2>9, <2>10 DEF GpsRuns
  <2> QED BY <2>7, <2>11
<1>4. ASSUME Uart!Reconfigured PROVE GpsTypes' /\ GpsRuns'
  <2>1. txf2' = <<>> /\ rearm'.gps = TRUE /\ UNCHANGED <<s_stage_off, s_stage_len, onLine2>>
    BY <1>4 DEF Uart!Reconfigured
  <2>2. <<>> \in Seq(Nat) /\ Len(<<>>) = 0  OBVIOUS
  <2>3. GpsTypes'  BY <1>0, <2>1, <2>2 DEF GpsTypes
  <2>4. GpsRuns'  BY <2>1 DEF GpsRuns
  <2> QED BY <2>3, <2>4
<1>5. ASSUME Uart!GpsRearm PROVE GpsTypes' /\ GpsRuns'
  <2>1. onLine2' = 0 /\ txf2' = <<>> /\ s_stage_len' = 0 /\ s_stage_off' = 0
    BY <1>5 DEF Uart!GpsRearm
  <2>2. <<>> \in Seq(Nat) /\ Len(<<>>) = 0 /\ 0 \in 0 .. Epoch - 1 /\ 0 \in 0 .. 0  OBVIOUS
  <2>3. GpsTypes'  BY <2>1, <2>2 DEF GpsTypes
  <2>4. GpsRuns'  BY <2>1 DEF GpsRuns
  <2> QED BY <2>3, <2>4
<1>6. ASSUME NEW n \in 1 .. 2, Uart!ClientWrites(n) PROVE Same
  BY <1>6 DEF Uart!ClientWrites, Uart!gpsVars
<1>7. ASSUME Uart!TxPoll \/ Uart!LineSends \/ Uart!DutSends PROVE Same
  BY <1>7 DEF Uart!TxPoll, Uart!LineSends, Uart!DutSends, Uart!gpsVars
<1>8. ASSUME Uart!RxPoll \/ Uart!NetSends \/ Uart!Upload PROVE Same
  BY <1>8 DEF Uart!RxPoll, Uart!NetSends, Uart!Upload, Uart!gpsVars
<1>9. ASSUME Uart!UartRearm PROVE Same
  BY <1>0, <1>9 DEF Uart!UartRearm, Uart!gpsVars
<1>10. ASSUME UNCHANGED uartVars PROVE Same
  BY <1>10 DEF uartVars
<1> HIDE DEF Same
<1> QED BY <1>1, <1>2, <1>3, <1>4, <1>5, <1>6, <1>7, <1>8, <1>9, <1>10 DEF Uart!Next

\* Every step of the worker, of the wires and of the fabric.
LEMMA UartKeeps == UartInv /\ [Uart!Next]_uartVars => UartInv'
<1> SUFFICES ASSUME UartInv, [Uart!Next]_uartVars PROVE UartInv'
  OBVIOUS
<1>1. rearm \in [uart : BOOLEAN, gps : BOOLEAN]  BY DEF UartInv
<1>2. rearm' \in [uart : BOOLEAN, gps : BOOLEAN]
  <2>1. CASE UNCHANGED rearm
    BY <1>1, <2>1
  <2>2. CASE Uart!Reconfigured \/ Uart!UartRearm \/ Uart!GpsRearm
    <3>1. \/ rearm' = [uart |-> TRUE, gps |-> TRUE] \/ rearm' = [rearm EXCEPT !.uart = FALSE]
          \/ rearm' = [rearm EXCEPT !.gps = FALSE]
      BY <2>2 DEF Uart!Reconfigured, Uart!UartRearm, Uart!GpsRearm
    <3>2. [uart |-> TRUE, gps |-> TRUE] \in [uart : BOOLEAN, gps : BOOLEAN]  OBVIOUS
    <3>3. [rearm EXCEPT !.uart = FALSE] \in [uart : BOOLEAN, gps : BOOLEAN]  BY <1>1
    <3>4. [rearm EXCEPT !.gps = FALSE] \in [uart : BOOLEAN, gps : BOOLEAN]  BY <1>1
    <3> QED BY <3>1, <3>2, <3>3, <3>4
  <2>3. ASSUME NEW n \in 1 .. 2, Uart!ClientWrites(n) PROVE UNCHANGED rearm
    BY <2>3 DEF Uart!ClientWrites
  <2>4. ASSUME Uart!TxPoll \/ Uart!LineSends \/ Uart!DutSends \/ Uart!RxPoll \/ Uart!NetSends PROVE UNCHANGED rearm
    BY <2>4 DEF Uart!TxPoll, Uart!LineSends, Uart!DutSends, Uart!RxPoll, Uart!NetSends
  <2>5. ASSUME Uart!Upload \/ Uart!GpsPoll \/ Uart!Line2Sends \/ UNCHANGED uartVars PROVE UNCHANGED rearm
    BY <2>5 DEF Uart!Upload, Uart!GpsPoll, Uart!Line2Sends, uartVars
  <2> QED BY <2>1, <2>2, <2>3, <2>4, <2>5 DEF Uart!Next
<1>3. UpTypes' /\ UpRuns' /\ DownTypes' /\ DownRuns' /\ GpsTypes' /\ GpsRuns'
  BY UpKeeps, DownKeeps, GpsKeeps
<1> QED BY <1>2, <1>3 DEF UartInv

\* Both sessions start with nothing queued.
LEMMA UartStarts == Uart!Init => UartInv
<1> SUFFICES ASSUME Uart!Init PROVE UartInv
  OBVIOUS
<1> USE UartNumbers
<1>1. /\ s_utx = [i \in 0 .. Ring - 1 |-> 0] /\ s_utx_head \in {0, Ring - 1} /\ s_utx_count = 0
      /\ utaken = 0 /\ txf = <<>> /\ onLine = 0
  BY DEF Uart!Init
<1>2. /\ rxf = <<>> /\ rxOvf = FALSE /\ s_uart_rx_ovf = FALSE /\ dutSent = 0 /\ toClient = 0 /\ rxLost = FALSE
      /\ roomLeft = ClientRoom /\ uploading = FALSE /\ uart_upload_suspended = FALSE
  BY DEF Uart!Init
<1>3. /\ rearm = [uart |-> FALSE, gps |-> FALSE] /\ s_stage_off = 0 /\ s_stage_len = 0 /\ txf2 = <<>> /\ onLine2 = 0
  BY DEF Uart!Init
<1>4. /\ <<>> \in Seq(Nat) /\ Len(<<>>) = 0 /\ 0 \in 0 .. Ring - 1 /\ Ring - 1 \in 0 .. Ring - 1 /\ 0 \in 0 .. MaxBytes
      /\ 0 \in 0 .. Ring /\ 0 \in 0 .. Epoch - 1 /\ 0 \in 0 .. 0
  OBVIOUS
<1>5. UpTypes  BY <1>1, <1>4 DEF UpTypes
<1>6. DownTypes
  <2>1. rxf \in Seq(Nat) /\ Len(rxf) <= RxFifo /\ dutSent \in Nat /\ toClient \in Nat /\ roomLeft \in 0 .. ClientRoom
    BY <1>2, <1>4
  <2>2. rxOvf \in BOOLEAN /\ s_uart_rx_ovf \in BOOLEAN /\ rxLost \in BOOLEAN  BY <1>2
  <2>3. uploading \in BOOLEAN /\ uart_upload_suspended \in BOOLEAN  BY <1>2
  <2> QED BY <2>1, <2>2, <2>3 DEF DownTypes
<1>7. GpsTypes  BY <1>3, <1>4 DEF GpsTypes
<1>8. UpRuns  BY <1>1, <1>4 DEF UpRuns, Run
<1>9. DownRuns /\ GpsRuns  BY <1>2, <1>3, <1>4 DEF DownRuns, GpsRuns
<1>10. rearm \in [uart : BOOLEAN, gps : BOOLEAN]  BY <1>3
<1> QED BY <1>5, <1>6, <1>7, <1>8, <1>9, <1>10 DEF UartInv

\* A sequence given place by place.
LEMMA RunIsUpto ==
    ASSUME NEW s \in Seq(Nat), NEW a \in Nat, NEW b \in Nat, b = a + Len(s), \A i \in 1 .. Len(s) : s[i] = a + i
    PROVE  s = Uart!Upto(a + 1, b)
<1>1. Len(s) \in Nat /\ b - (a + 1) + 1 = Len(s) /\ \A i \in 1 .. Len(s) : (a + 1) + i - 1 = a + i
  OBVIOUS
<1>2. s = [i \in 1 .. Len(s) |-> s[i]]  OBVIOUS
<1>3. [i \in 1 .. Len(s) |-> s[i]] = [i \in 1 .. b - (a + 1) + 1 |-> (a + 1) + i - 1]  BY <1>1
<1> QED BY <1>2, <1>3 DEF Uart!Upto

\* The properties of the lines.
LEMMA UartSays == UartInv => Uart!TypeOK /\ Uart!UartInOrder /\ Uart!LossKnown /\ Uart!EpochsWhole
<1> SUFFICES ASSUME UartInv PROVE Uart!TypeOK /\ Uart!UartInOrder /\ Uart!LossKnown /\ Uart!EpochsWhole
  OBVIOUS
<1> USE UartNumbers
<1>1. UpTypes /\ DownTypes /\ GpsTypes /\ UpRuns /\ DownRuns /\ GpsRuns  BY DEF UartInv
<1>2. Uart!TypeOK  BY <1>1 DEF UpTypes, DownTypes, GpsTypes, Uart!TypeOK
<1>3. Uart!LossKnown  BY <1>1 DEF DownRuns, Uart!LossKnown
<1>4. ASSUME ~rearm.uart
      PROVE  txf \o [i \in 1 .. s_utx_count |-> s_utx[(s_utx_head + Ring - s_utx_count + i - 1) % Ring]]
                 = Uart!Upto(onLine + 1, utaken)
  <2> DEFINE q == [i \in 1 .. s_utx_count |-> s_utx[(s_utx_head + Ring - s_utx_count + i - 1) % Ring]]
  <2>1. /\ txf \in Seq(Nat) /\ Len(txf) \in Nat /\ s_utx_count \in Nat /\ onLine \in Nat /\ utaken \in Nat
    BY <1>1 DEF UpTypes
  <2>2. /\ utaken = onLine + Len(txf) + s_utx_count /\ \A i \in 1 .. Len(txf) : txf[i] = onLine + i
        /\ \A i \in 1 .. s_utx_count : s_utx[Lane(s_utx_head, s_utx_count, i)] = onLine + Len(txf) + i
    BY <1>1, <1>4 DEF UpRuns, Run
  <2>3. \A i \in 1 .. s_utx_count : q[i] = onLine + Len(txf) + i  BY <2>2 DEF Lane
  <2>4. q = [i \in 1 .. s_utx_count |-> onLine + Len(txf) + i]  BY <2>2 DEF Lane
  <2> HIDE DEF q
  <2>5. q \in Seq(Nat) /\ Len(q) = s_utx_count
    <3>1. \A i \in 1 .. s_utx_count : onLine + Len(txf) + i \in Nat  BY <2>1
    <3> QED BY <2>1, <2>4, <3>1
  <2> DEFINE s == txf \o q
  <2>6. s \in Seq(Nat) /\ Len(s) = Len(txf) + s_utx_count  BY <2>1, <2>5
  <2>7. ASSUME NEW i \in 1 .. Len(txf) + s_utx_count PROVE s[i] = onLine + i
    <3>1. CASE i \in 1 .. Len(txf)
      BY <2>1, <2>2, <2>5, <3>1
    <3>2. CASE i \in Len(txf) + 1 .. Len(txf) + s_utx_count
      <4>1. s[i] = q[i - Len(txf)] /\ i - Len(txf) \in 1 .. s_utx_count  BY <2>1, <2>5, <3>2
      <4>2. q[i - Len(txf)] = onLine + Len(txf) + (i - Len(txf))  BY <2>3, <4>1
      <4> QED BY <2>1, <3>2, <4>1, <4>2
    <3>3. i \in 1 .. Len(txf) \/ i \in Len(txf) + 1 .. Len(txf) + s_utx_count  BY <2>1
    <3> QED BY <3>1, <3>2, <3>3
  <2> HIDE DEF s
  <2>8. utaken = onLine + Len(s) /\ \A i \in 1 .. Len(s) : s[i] = onLine + i
    BY <2>1, <2>2, <2>6, <2>7
  <2>9. s = Uart!Upto(onLine + 1, utaken)  BY <2>1, <2>6, <2>8, RunIsUpto
  <2> QED BY <2>9 DEF s, q
<1>5. ASSUME ~rearm.uart, ~rxLost PROVE rxf = Uart!Upto(toClient + 1, dutSent)
  <2>1. rxf \in Seq(Nat) /\ toClient \in Nat /\ dutSent \in Nat  BY <1>1 DEF DownTypes
  <2>2. dutSent = toClient + Len(rxf) /\ \A i \in 1 .. Len(rxf) : rxf[i] = toClient + i
    BY <1>1, <1>5 DEF DownRuns
  <2> QED BY <2>1, <2>2, RunIsUpto
<1>6. Uart!UartInOrder  BY <1>4, <1>5 DEF Uart!UartInOrder
<1>7. ASSUME ~rearm.gps, txf2 = <<>> PROVE onLine2 = s_stage_off % Epoch
  <2>1. onLine2 = (IF s_stage_off = Epoch THEN 0 ELSE s_stage_off)  BY <1>1, <1>7 DEF GpsRuns
  <2>2. s_stage_off \in 0 .. Epoch /\ s_stage_off \in 0 .. 2 * Epoch - 1  BY <1>1 DEF GpsTypes
  <2>3. s_stage_off % Epoch = (IF s_stage_off < Epoch THEN s_stage_off ELSE s_stage_off - Epoch)
    BY <2>2, ModOnce
  <2> QED BY <2>1, <2>2, <2>3
<1>8. ASSUME txf2 # <<>> PROVE txf2 = Uart!Upto(onLine2 + 1, Written)
  <2>1. txf2 \in Seq(Nat) /\ onLine2 \in Nat /\ Written \in Nat  BY <1>1 DEF GpsTypes, Written
  <2>2. Written = onLine2 + Len(txf2) /\ \A i \in 1 .. Len(txf2) : txf2[i] = onLine2 + i
    BY <1>1, <1>8 DEF GpsRuns
  <2> QED BY <2>1, <2>2, RunIsUpto
<1>9. Uart!EpochsWhole  BY <1>7, <1>8 DEF Uart!EpochsWhole, Written
<1> QED BY <1>2, <1>3, <1>6, <1>9
--------------------------------------------------------------------------------
\* The sizes of the flash.
LEMMA FlashNumbers ==
    /\ Limit \in Nat \ {0} /\ Page \in Nat \ {0} /\ Sector \in Nat \ {0} /\ Block \in Nat \ {0}
    /\ Block % Sector = 0 /\ Starts \subseteq Nat /\ Lens \subseteq Nat /\ MaxFaults \in Nat /\ MaxSpiCmds \in Nat
  BY Assumptions DEF Spi!ConstantsOK

Multiple(a, n) == \E q \in Nat : a = n * q

\* spi_flash.c: an address rounded down.
LEMMA DownIs ==
    ASSUME NEW a \in Nat, NEW n \in Nat \ {0}
    PROVE  /\ Spi!Down(a, n) \in Nat /\ Spi!Down(a, n) <= a /\ a < Spi!Down(a, n) + n
           /\ Multiple(Spi!Down(a, n), n) /\ a - Spi!Down(a, n) = (a % n)
<1> DEFINE q == a \div n
<1>1. q \in Nat /\ a % n \in 0 .. n - 1 /\ a = n * q + (a % n)  OBVIOUS
<1>2. Spi!Down(a, n) = q * n  BY DEF Spi!Down
<1> HIDE DEF q
<1>3. q * n = n * q  BY <1>1
<1>4. PICK w \in Nat : w = n * q
  BY <1>1
<1>5. a = w + (a % n)  BY <1>1, <1>4
<1>6. Spi!Down(a, n) = w  BY <1>2, <1>3, <1>4
<1>7. Multiple(w, n)  BY <1>1, <1>4 DEF Multiple
<1> HIDE DEF Spi!Down
<1> QED BY <1>1, <1>4, <1>5, <1>6, <1>7

\* What is aligned rounds to itself.
LEMMA AlignedStays ==
    ASSUME NEW a \in Nat, NEW n \in Nat \ {0}, a % n = 0
    PROVE  Spi!Down(a, n) = a /\ Multiple(a, n) /\ Spi!Touched(a, n) = a .. a + n - 1
<1>1. Spi!Down(a, n) \in Nat /\ a - Spi!Down(a, n) = 0 /\ Multiple(Spi!Down(a, n), n)  BY DownIs
<1>2. Spi!Down(a, n) = a  BY <1>1
<1> QED BY <1>1, <1>2 DEF Spi!Touched

\* A multiple is aligned.
LEMMA MultipleAligned ==
    ASSUME NEW a \in Nat, NEW n \in Nat \ {0}, Multiple(a, n)
    PROVE  a % n = 0
<1>1. PICK q \in Nat : a = n * q
  BY DEF Multiple
<1>2. (n * q + 0) % n = 0  OBVIOUS
<1> QED BY <1>1, <1>2

\* Two multiples are a whole step apart, and their sum is one.
LEMMA MultiplesApart ==
    ASSUME NEW a \in Nat, NEW b \in Nat, NEW n \in Nat \ {0}, Multiple(a, n), Multiple(b, n)
    PROVE  (a < b => a + n <= b) /\ Multiple(a + b, n) /\ Multiple(a + n, n)
<1>1. PICK p \in Nat : a = n * p
  BY DEF Multiple
<1>2. PICK q \in Nat : b = n * q
  BY DEF Multiple
<1>3. n * (p + q) = n * p + n * q /\ n * (p + 1) = n * p + n  OBVIOUS
<1>4. a < b => a + n <= b
  <2>1. CASE p < q
    <3>1. PICK d \in Nat : q = p + 1 + d
      <4>1. q - p - 1 \in Nat /\ q = p + 1 + (q - p - 1)  BY <2>1
      <4> QED BY <4>1
    <3>2. n * (p + 1 + d) = n * p + n + n * d /\ n * d >= 0  OBVIOUS
    <3> QED BY <1>1, <1>2, <3>1, <3>2
  <2>2. CASE p >= q
    <3>1. PICK d \in Nat : p = q + d
      <4>1. p - q \in Nat /\ p = q + (p - q)  BY <2>2
      <4> QED BY <4>1
    <3>2. n * (q + d) = n * q + n * d /\ n * d >= 0  OBVIOUS
    <3> QED BY <1>1, <1>2, <3>1, <3>2
  <2> QED BY <2>1, <2>2
<1>5. p + q \in Nat /\ p + 1 \in Nat /\ a + b = n * (p + q) /\ a + n = n * (p + 1)
  BY <1>1, <1>2, <1>3
<1> QED BY <1>4, <1>5 DEF Multiple

\* The flash's bytes, and the jobs the worker carries out on it.
Cells == [Spi!Addr -> {0, 1}]
Chips == [wel : BOOLEAN, wip : BOOLEAN, protected : BOOLEAN, mem : Cells]
Moves == [op : {"xfer", "stream"}, hold : BOOLEAN, left : 1 .. 2]
Erases == [op : {"erase", "chip_erase"}, addr : Nat, len : Nat \ {0}, at : Nat, st : {"wren", "check", "cmd", "wait"},
           mem : Cells]
Writes == [op : {"write"}, addr : Nat, len : Nat \ {0}, data : {0, 1}, at : Nat,
           st : {"wren", "check", "cmd", "wait", "verify"}, mem : Cells]

\* The sectors a range touches.
LEMMA EraseSpan ==
    ASSUME NEW addr \in Nat, NEW len \in Nat \ {0}
    PROVE  LET end == Spi!Down(addr + len + Sector - 1, Sector) IN
           /\ end \in Nat /\ Multiple(end, Sector) /\ addr + len <= end
           /\ Spi!Down(addr, Sector) \in Nat /\ Multiple(Spi!Down(addr, Sector), Sector)
           /\ Spi!Down(addr, Sector) <= addr /\ Spi!Down(addr, Sector) < end
<1> USE FlashNumbers
<1> DEFINE x == addr + len + Sector - 1
<1>1. x \in Nat /\ x = addr + len + Sector - 1  OBVIOUS
<1> HIDE DEF x
<1>2. Spi!Down(x, Sector) \in Nat /\ x < Spi!Down(x, Sector) + Sector /\ Multiple(Spi!Down(x, Sector), Sector)
  BY <1>1, DownIs
<1>3. /\ Spi!Down(addr, Sector) \in Nat /\ Spi!Down(addr, Sector) <= addr
      /\ Multiple(Spi!Down(addr, Sector), Sector)
  BY DownIs
<1>4. addr + len <= Spi!Down(x, Sector) /\ Spi!Down(addr, Sector) < Spi!Down(x, Sector)
  BY <1>1, <1>2, <1>3
<1> QED BY <1>2, <1>3, <1>4 DEF x

\* spi_flash_erase: the unit it erases is aligned, and does not pass the end.
LEMMA EraseReach ==
    ASSUME sjob \in Erases, sjob.op = "erase", Multiple(sjob.at, Sector), sjob.at < Spi!EraseEnd
    PROVE  /\ Spi!EraseEnd \in Nat /\ Spi!EraseStep \in Nat \ {0} /\ sjob.at + Spi!EraseStep <= Spi!EraseEnd
           /\ Multiple(sjob.at + Spi!EraseStep, Sector)
           /\ Spi!EraseRange = sjob.at .. sjob.at + Spi!EraseStep - 1
<1> USE FlashNumbers
<1>0. sjob.addr \in Nat /\ sjob.len \in Nat \ {0} /\ sjob.at \in Nat  BY DEF Erases
<1> DEFINE end == Spi!EraseEnd  step == Spi!EraseStep  at == sjob.at
<1>1. end \in Nat /\ Multiple(end, Sector)  BY <1>0, EraseSpan DEF Spi!EraseEnd
<1>2. step = IF at % Block = 0 /\ end - at >= Block THEN Block ELSE Sector  BY DEF Spi!EraseStep
<1> HIDE DEF end, step
<1>3. at + Sector <= end /\ Multiple(at + Sector, Sector)  BY <1>0, <1>1, MultiplesApart DEF end
<1>4. Multiple(Block, Sector)  BY AlignedStays
<1>5. Multiple(at + Block, Sector)  BY <1>0, <1>4, MultiplesApart
<1>6. at % Sector = 0  BY <1>0, MultipleAligned
<1>7. step \in {Sector, Block} /\ at % step = 0 /\ at + step <= end /\ Multiple(at + step, Sector)
  <2>1. CASE at % Block = 0 /\ end - at >= Block
    BY <1>0, <1>1, <1>2, <1>5, <2>1
  <2>2. CASE ~(at % Block = 0 /\ end - at >= Block)
    BY <1>2, <1>3, <1>6, <2>2
  <2> QED BY <2>1, <2>2
<1>8. step \in Nat \ {0}  BY <1>7
<1>9. Spi!Touched(at, step) = at .. at + step - 1  BY <1>0, <1>7, <1>8, AlignedStays
<1> QED BY <1>1, <1>7, <1>8, <1>9 DEF end, step, Spi!EraseRange

\* The whole part is one unit.
LEMMA ChipReach ==
    ASSUME sjob \in Erases, sjob.op = "chip_erase", sjob.at = 0
    PROVE  Spi!EraseStep = Limit /\ Spi!EraseRange = 0 .. Limit - 1
<1>1. Spi!EraseStep = Limit  BY DEF Spi!EraseStep
<1>2. Spi!Touched(0, Limit) = 0 .. 0 + Limit - 1  BY FlashNumbers, AlignedStays
<1> QED BY <1>1, <1>2, FlashNumbers DEF Spi!EraseRange

\* spi_flash_program: what one page program may hit lies in front of the page's end and of the range's.
LEMMA ProgramHits ==
    ASSUME sjob \in Writes, sjob.at \in sjob.addr .. sjob.addr + sjob.len - 1
    PROVE  /\ Spi!ProgramStep \in 1 .. sjob.addr + sjob.len - sjob.at
           /\ \A n \in 1 .. Spi!ProgramStep :
                  {Spi!Down(sjob.at, Page) + ((sjob.at - Spi!Down(sjob.at, Page) + i) % Page) : i \in 0 .. n - 1}
                      \subseteq sjob.addr .. sjob.addr + sjob.len - 1
<1> USE FlashNumbers
<1>0. sjob.addr \in Nat /\ sjob.len \in Nat \ {0} /\ sjob.at \in Nat  BY DEF Writes
<1> DEFINE at == sjob.at  step == Spi!ProgramStep  d == Spi!Down(at, Page)  r == at % Page
<1>1. d \in Nat /\ at - d = r /\ r \in 0 .. Page - 1
  <2>1. d \in Nat /\ at - d = r  BY <1>0, DownIs
  <2>2. r \in 0 .. Page - 1  BY <1>0
  <2> QED BY <2>1, <2>2
<1>2. step = IF Page - r < sjob.addr + sjob.len - at THEN Page - r ELSE sjob.addr + sjob.len - at
  BY DEF Spi!ProgramStep
<1> HIDE DEF step, d, r
<1>3. step \in 1 .. sjob.addr + sjob.len - at /\ step <= Page - r  BY <1>0, <1>1, <1>2
<1>4. ASSUME NEW n \in 1 .. step, NEW i \in 0 .. n - 1
      PROVE  d + ((at - d + i) % Page) \in sjob.addr .. sjob.addr + sjob.len - 1
  <2>1. r + i \in 0 .. Page - 1 /\ at - d + i = r + i  BY <1>0, <1>1, <1>3
  <2> DEFINE x == r + i
  <2>2. x \in 0 .. 2 * Page - 1 /\ x < Page  BY <2>1
  <2> HIDE DEF x
  <2>3. x % Page = x  BY <2>2, ModOnce
  <2>4. (at - d + i) % Page = r + i  BY <2>1, <2>3 DEF x
  <2>5. d + (r + i) = at + i
    <3>1. i \in Int /\ d \in Int /\ r \in Int /\ at \in Int  BY <1>0, <1>1, <1>3
    <3>2. at - d = r  BY <1>1
    <3> HIDE DEF at
    <3> QED BY <3>1, <3>2
  <2> QED BY <1>0, <1>1, <1>3, <2>4, <2>5
<1> QED BY <1>3, <1>4 DEF step, d

\* The job at hand has the fields of its kind, and what its address is.
FlashOps == {"erase", "chip_erase", "write"}
JobOK(j) ==
    /\ j.op \in Spi!Ops /\ (j.op = "idle" => j = Spi!Idle) /\ (j.op \in {"xfer", "stream"} => j \in Moves)
    /\ j.op \in {"erase", "chip_erase"} => j \in Erases
    /\ j.op = "write" => j \in Writes

\* How far an erase has come.
Reached == IF sjob.st = "wait" THEN sjob.at + Spi!EraseStep ELSE sjob.at

SpiTypes ==
    /\ spiGw \in [armed : BOOLEAN, cs : BOOLEAN] /\ chip \in Chips
    /\ spi_armed_local \in BOOLEAN /\ s_cs_held \in BOOLEAN /\ frame \in BOOLEAN
    /\ busHeld \in BOOLEAN /\ gateHeld \in BOOLEAN /\ mixed \in BOOLEAN
    /\ JobOK(sjob) /\ said.op \in Spi!Ops \cup {"none"}
    /\ spiFaults \in 0 .. MaxFaults /\ spiCmds \in 0 .. MaxSpiCmds

\* command_handler_spi.c: chip select and the frame in each kind of job.
SpiFrames ==
    /\ spiGw.armed => spi_armed_local
    /\ s_cs_held => spi_armed_local
    /\ ~mixed
    /\ sjob.op # "stream" => ~busHeld /\ ~gateHeld
    /\ sjob.op = "idle" => (spiGw.armed => s_cs_held = spiGw.cs) /\ (frame => s_cs_held)
    /\ sjob.op \in {"xfer", "stream"} => (spiGw.armed => spiGw.cs)
    /\ sjob.op \in FlashOps => ~frame /\ ~s_cs_held /\ (spiGw.armed => ~spiGw.cs)

\* spi_flash.c: where a job stands, what it has done, and what it left alone.
SpiPlace ==
    /\ sjob.op \in FlashOps => sjob.addr + sjob.len <= Limit /\ (sjob.st = "cmd" => chip.wel /\ ~chip.wip)
    /\ sjob.op = "chip_erase" => sjob.addr = 0 /\ sjob.len = Limit /\ sjob.at = 0
    /\ sjob.op = "write" => sjob.at \in sjob.addr .. sjob.addr + sjob.len - 1
    /\ sjob.op = "erase" => /\ Multiple(sjob.at, Sector) /\ sjob.at < Spi!EraseEnd
                            /\ Spi!Down(sjob.addr, Sector) <= sjob.at
SpiDone ==
    sjob.op \in {"erase", "chip_erase"} =>
        \A a \in Spi!Addr : Spi!Down(sjob.addr, Sector) <= a /\ a < Reached => chip.mem[a] = 1
SpiFlash == SpiPlace /\ SpiDone /\ Spi!FlashConfined /\ Spi!FlashTold

SpiInv == SpiTypes /\ SpiFrames /\ SpiFlash

\* A step of a job, and of the chip, that moves neither the job's address nor what the chip holds.
LEMMA FlashGoesOn ==
    ASSUME SpiFlash, SpiTypes, sjob.op \in FlashOps, NEW s,
           s \in {"wren", "check", "cmd", "wait"} \/ (s = "verify" /\ sjob.op = "write"),
           sjob' = [sjob EXCEPT !.st = s], said' = said, chip' \in Chips, chip'.mem = chip.mem,
           s = "cmd" => chip'.wel /\ ~chip'.wip, (s = "wait") <=> (sjob.st = "wait")
    PROVE  SpiFlash' /\ JobOK(sjob')
<1>1. sjob \in Erases \/ sjob \in Writes  BY DEF SpiTypes, JobOK, FlashOps
<1>2. /\ sjob'.op = sjob.op /\ sjob'.addr = sjob.addr /\ sjob'.len = sjob.len /\ sjob'.at = sjob.at /\ sjob'.st = s
      /\ sjob'.mem = sjob.mem
  BY <1>1 DEF Erases, Writes
<1>3. JobOK(sjob')
  <2>1. CASE sjob \in Erases
    <3>1. s # "verify"  BY <2>1 DEF Erases
    <3>2. sjob' \in Erases  BY <2>1, <3>1 DEF Erases
    <3>3. sjob'.op \in {"erase", "chip_erase"}  BY <1>2, <2>1 DEF Erases
    <3> QED BY <3>2, <3>3 DEF JobOK, Spi!Ops
  <2>2. CASE sjob \in Writes
    <3>1. sjob' \in Writes  BY <2>2 DEF Writes
    <3>2. sjob'.op = "write"  BY <1>2, <2>2 DEF Writes
    <3> QED BY <3>1, <3>2 DEF JobOK, Spi!Ops
  <2> QED BY <1>1, <2>1, <2>2
<1>4. Spi!EraseEnd' = Spi!EraseEnd  BY <1>2 DEF Spi!EraseEnd
<1>5. Spi!EraseStep' = Spi!EraseStep  BY <1>2, <1>4 DEF Spi!EraseStep
<1>6. Reached' = Reached  BY <1>2, <1>5 DEF Reached
<1>7. SpiPlace'  BY <1>2, <1>4 DEF SpiFlash, SpiPlace
<1>8. SpiDone'  BY <1>2, <1>6 DEF SpiFlash, SpiDone
<1>9. Spi!FlashConfined'  BY <1>2, <1>4 DEF SpiFlash, Spi!FlashConfined
<1>10. Spi!FlashTold'  BY DEF SpiFlash, Spi!FlashTold
<1> QED BY <1>3, <1>7, <1>8, <1>9, <1>10 DEF SpiFlash

\* The end of a job, whatever the part is left with.
LEMMA FlashEnds ==
    ASSUME SpiTypes, sjob.op \in FlashOps, NEW ok \in BOOLEAN, Spi!Flashed(ok),
           ok => \A a \in sjob.addr .. sjob.addr + sjob.len - 1 :
                    chip.mem[a] = (IF sjob.op = "write" THEN sjob.data ELSE 1)
    PROVE  SpiFlash' /\ JobOK(sjob') /\ said'.op \in Spi!Ops \cup {"none"} /\ sjob' = Spi!Idle
<1>1. /\ said' = [op |-> sjob.op, ok |-> ok, addr |-> sjob.addr, len |-> sjob.len,
                  data |-> IF sjob.op = "write" THEN sjob.data ELSE 1, mem |-> chip.mem]
      /\ sjob' = Spi!Idle
  BY DEF Spi!Flashed
<1>2. /\ said'.op = sjob.op /\ said'.ok = ok /\ said'.addr = sjob.addr /\ said'.len = sjob.len
      /\ said'.data = (IF sjob.op = "write" THEN sjob.data ELSE 1) /\ said'.mem = chip.mem
  BY <1>1
<1>3. sjob'.op = "idle"  BY <1>1 DEF Spi!Idle
<1>4. JobOK(sjob')  BY <1>1, <1>3 DEF JobOK, Spi!Ops
<1>5. Spi!FlashTold'  BY <1>2 DEF Spi!FlashTold
<1>6. SpiPlace' /\ SpiDone' /\ Spi!FlashConfined'
  BY <1>3 DEF SpiPlace, SpiDone, Spi!FlashConfined, FlashOps
<1> QED BY <1>1, <1>2, <1>4, <1>5, <1>6 DEF SpiFlash, FlashOps, Spi!Ops

\* A write enable leaves the part's bytes.
LEMMA EnableKeeps ==
    ASSUME chip \in Chips
    PROVE  Spi!WriteEnabled \in Chips /\ Spi!WriteEnabled.mem = chip.mem
  BY DEF Chips, Spi!WriteEnabled

\* A page program of n bytes changes bytes of the job's range only.
LEMMA ProgramKeeps ==
    ASSUME chip \in Chips, sjob \in Writes, sjob.at \in sjob.addr .. sjob.addr + sjob.len - 1,
           NEW n \in 1 .. Spi!ProgramStep
    PROVE  LET c == Spi!Programmed(sjob.at, n, sjob.data) IN
           /\ c \in Chips
           /\ \A a \in Spi!Addr \ (sjob.addr .. sjob.addr + sjob.len - 1) : c.mem[a] = chip.mem[a]
<1> DEFINE c == Spi!Programmed(sjob.at, n, sjob.data)
           hit == {Spi!Down(sjob.at, Page) + ((sjob.at - Spi!Down(sjob.at, Page) + i) % Page) : i \in 0 .. n - 1}
           mem == [a \in Spi!Addr |-> IF a \in hit /\ sjob.data = 0 THEN 0 ELSE chip.mem[a]]
<1>1. hit \subseteq sjob.addr .. sjob.addr + sjob.len - 1  BY ProgramHits
<1>2. c = IF Spi!Accepts THEN [chip EXCEPT !.wel = FALSE, !.wip = TRUE, !.mem = mem] ELSE chip
  BY DEF Spi!Programmed
<1> HIDE DEF hit, c
<1>3. mem \in Cells /\ \A a \in Spi!Addr \ (sjob.addr .. sjob.addr + sjob.len - 1) : mem[a] = chip.mem[a]
  BY <1>1 DEF Cells, Chips
<1> HIDE DEF mem
<1>4. c \in Chips /\ (c.mem = mem \/ c.mem = chip.mem)  BY <1>2, <1>3 DEF Chips
<1>5. \A a \in Spi!Addr \ (sjob.addr .. sjob.addr + sjob.len - 1) : c.mem[a] = chip.mem[a]
  BY <1>3, <1>4
<1> QED BY <1>4, <1>5 DEF c

\* An erase the part accepts clears its unit and nothing else.
LEMMA EraseKeeps ==
    ASSUME chip \in Chips, NEW r, Spi!Accepts
    PROVE  /\ Spi!Erased(r) \in Chips
           /\ \A a \in Spi!Addr : Spi!Erased(r).mem[a] = IF a \in r THEN 1 ELSE chip.mem[a]
<1> DEFINE mem == [a \in Spi!Addr |-> IF a \in r THEN 1 ELSE chip.mem[a]]
<1>1. Spi!Erased(r) = [chip EXCEPT !.wel = FALSE, !.wip = TRUE, !.mem = mem]  BY DEF Spi!Erased
<1>2. mem \in Cells  BY DEF Cells, Chips
<1> HIDE DEF mem
<1>3. Spi!Erased(r) \in Chips /\ Spi!Erased(r).mem = mem  BY <1>1, <1>2 DEF Chips
<1> QED BY <1>3 DEF mem

\* The unit of the command at hand is erased.
LEMMA EraseGoesOn ==
    ASSUME SpiFlash, SpiTypes, sjob.op \in {"erase", "chip_erase"}, sjob.st = "cmd",
           sjob' = [sjob EXCEPT !.st = "wait"], said' = said, chip' = Spi!Erased(Spi!EraseRange)
    PROVE  SpiFlash' /\ JobOK(sjob') /\ chip' \in Chips
<1> USE FlashNumbers
<1>0. sjob \in Erases /\ chip \in Chips  BY DEF SpiTypes, JobOK
<1>1. /\ sjob'.op = sjob.op /\ sjob'.addr = sjob.addr /\ sjob'.len = sjob.len /\ sjob'.at = sjob.at /\ sjob'.st = "wait"
      /\ sjob'.mem = sjob.mem /\ sjob' \in Erases
  BY <1>0 DEF Erases
<1>2. JobOK(sjob')  BY <1>1 DEF JobOK, Spi!Ops
<1>3. Spi!EraseEnd' = Spi!EraseEnd  BY <1>1 DEF Spi!EraseEnd
<1>4. Spi!EraseStep' = Spi!EraseStep  BY <1>1, <1>3 DEF Spi!EraseStep
<1>5. Spi!Accepts  BY DEF SpiFlash, SpiPlace, FlashOps, Spi!Accepts
<1>6. chip' \in Chips /\ \A a \in Spi!Addr : chip'.mem[a] = IF a \in Spi!EraseRange THEN 1 ELSE chip.mem[a]
  BY <1>0, <1>5, EraseKeeps
<1>7. SpiPlace'  BY <1>1, <1>3 DEF SpiFlash, SpiPlace
<1>8. Spi!FlashTold'  BY DEF SpiFlash, Spi!FlashTold
<1>9. CASE sjob.op = "erase"
  <2>1. /\ Multiple(sjob.at, Sector) /\ sjob.at < Spi!EraseEnd /\ Spi!Down(sjob.addr, Sector) <= sjob.at
    BY <1>9 DEF SpiFlash, SpiPlace
  <2>2. /\ Spi!EraseEnd \in Nat /\ Spi!EraseStep \in Nat \ {0} /\ sjob.at + Spi!EraseStep <= Spi!EraseEnd
        /\ Spi!EraseRange = sjob.at .. sjob.at + Spi!EraseStep - 1 /\ sjob.at \in Nat
    BY <1>0, <1>9, <2>1, EraseReach DEF Erases
  <2>3. Spi!Down(sjob.addr, Sector) \in Nat  BY <1>0, DownIs DEF Erases
  <2> DEFINE from == Spi!Down(sjob.addr, Sector)  end == Spi!EraseEnd  step == Spi!EraseStep  range == Spi!EraseRange
  <2>4. \A a \in Spi!Addr : from <= a /\ a < sjob.at => chip.mem[a] = 1
    BY <1>9 DEF SpiFlash, SpiDone, Reached
  <2>5. \A a \in Spi!Addr : a \notin from .. end - 1 => chip.mem[a] = sjob.mem[a]
    BY <1>9 DEF SpiFlash, Spi!FlashConfined
  <2>6. Reached' = sjob.at + step  BY <1>1, <1>4 DEF Reached
  <2>7. Spi!Down(sjob.addr, Sector)' = from  BY <1>1
  <2>8. Spi!Addr \subseteq Nat  BY DEF Spi!Addr
  <2> HIDE DEF from, end, step, range
  <2>9. \A a \in Spi!Addr : from <= a /\ a < sjob.at + step => chip'.mem[a] = 1
    <3> SUFFICES ASSUME NEW a \in Spi!Addr, from <= a, a < sjob.at + step PROVE chip'.mem[a] = 1
      OBVIOUS
    <3>1. a \in Nat /\ sjob.at \in Nat /\ step \in Nat /\ range = sjob.at .. sjob.at + step - 1
      BY <2>2, <2>8 DEF step, range
    <3>2. chip'.mem[a] = IF a \in range THEN 1 ELSE chip.mem[a]  BY <1>6 DEF range
    <3>3. CASE a \in range
      BY <3>2, <3>3
    <3>4. CASE a \notin range
      <4>1. a < sjob.at  BY <3>1, <3>4
      <4> QED BY <2>4, <3>2, <3>4, <4>1
    <3> QED BY <3>3, <3>4
  <2>10. \A a \in Spi!Addr : a \notin from .. end - 1 => chip'.mem[a] = sjob.mem[a]
    BY <1>6, <2>1, <2>2, <2>3, <2>5, <2>8, SMTT(30) DEF from, end, step, range
  <2>11. SpiDone'  BY <1>1, <2>6, <2>9 DEF SpiDone, from
  <2>12. Spi!FlashConfined'  BY <1>1, <1>3, <1>9, <2>10 DEF Spi!FlashConfined, from, end
  <2> QED BY <1>2, <1>6, <1>7, <1>8, <2>11, <2>12 DEF SpiFlash
<1>10. CASE sjob.op = "chip_erase"
  <2>1. sjob.addr = 0 /\ sjob.at = 0  BY <1>10 DEF SpiFlash, SpiPlace
  <2>2. Spi!EraseRange = 0 .. Limit - 1  BY <1>0, <1>10, <2>1, ChipReach
  <2>3. \A a \in Spi!Addr : chip'.mem[a] = 1  BY <1>6, <2>2 DEF Spi!Addr
  <2>4. SpiDone'  BY <2>3 DEF SpiDone
  <2>5. Spi!FlashConfined'  BY <1>1, <1>10 DEF Spi!FlashConfined
  <2> QED BY <1>2, <1>6, <1>7, <1>8, <2>4, <2>5 DEF SpiFlash
<1> QED BY <1>9, <1>10

\* The bytes of the command at hand are programmed.
LEMMA ProgramGoesOn ==
    ASSUME SpiFlash, SpiTypes, sjob.op = "write", sjob.st = "cmd",
           sjob' = [sjob EXCEPT !.st = "wait"], said' = said,
           chip' = Spi!Programmed(sjob.at, Spi!ProgramStep, sjob.data)
    PROVE  SpiFlash' /\ JobOK(sjob') /\ chip' \in Chips
<1>0. sjob \in Writes /\ chip \in Chips  BY DEF SpiTypes, JobOK
<1>1. /\ sjob'.op = "write" /\ sjob'.addr = sjob.addr /\ sjob'.len = sjob.len /\ sjob'.at = sjob.at
      /\ sjob'.st = "wait" /\ sjob'.mem = sjob.mem /\ sjob' \in Writes
  BY <1>0 DEF Writes
<1>2. JobOK(sjob')  BY <1>1 DEF JobOK, Spi!Ops
<1>3. sjob.at \in sjob.addr .. sjob.addr + sjob.len - 1 /\ sjob.addr + sjob.len <= Limit
  BY DEF SpiFlash, SpiPlace, FlashOps
<1>4. Spi!ProgramStep \in 1 .. Spi!ProgramStep
  <2>1. sjob.addr \in Nat /\ sjob.len \in Nat /\ sjob.at \in Nat  BY <1>0 DEF Writes
  <2>2. Spi!ProgramStep \in 1 .. sjob.addr + sjob.len - sjob.at  BY <1>0, <1>3, ProgramHits
  <2> QED BY <2>1, <2>2
<1>5. /\ chip' \in Chips
      /\ \A a \in Spi!Addr \ (sjob.addr .. sjob.addr + sjob.len - 1) : chip'.mem[a] = chip.mem[a]
  BY <1>0, <1>3, <1>4, ProgramKeeps
<1>6. SpiPlace'  BY <1>1, <1>3 DEF SpiPlace, FlashOps
<1>7. SpiDone'  BY <1>1 DEF SpiDone
<1>8. \A a \in Spi!Addr \ (sjob.addr .. sjob.addr + sjob.len - 1) : chip.mem[a] = sjob.mem[a]
  BY DEF SpiFlash, Spi!FlashConfined
<1>9. Spi!FlashConfined'  BY <1>1, <1>5, <1>8 DEF Spi!FlashConfined
<1>10. Spi!FlashTold'  BY DEF SpiFlash, Spi!FlashTold
<1> QED BY <1>2, <1>5, <1>6, <1>7, <1>9, <1>10 DEF SpiFlash

\* The next unit or page.
LEMMA FlashMovesOn ==
    ASSUME SpiFlash, SpiTypes, sjob.op \in FlashOps, sjob.st = "wait", Spi!Advanced < Spi!JobEnd,
           sjob' = [sjob EXCEPT !.at = Spi!Advanced, !.st = "wren"], said' = said, chip' = chip
    PROVE  SpiFlash' /\ JobOK(sjob')
<1> USE FlashNumbers
<1> DEFINE on == Spi!Advanced
<1>0. JobOK(sjob) /\ chip \in Chips  BY DEF SpiTypes
<1>1. CASE sjob.op = "write"
  <2>0. sjob \in Writes /\ sjob.addr \in Nat /\ sjob.len \in Nat \ {0} /\ sjob.at \in Nat
    BY <1>0, <1>1 DEF JobOK, Writes
  <2>1. sjob.at \in sjob.addr .. sjob.addr + sjob.len - 1 /\ sjob.addr + sjob.len <= Limit
    BY <1>1 DEF SpiFlash, SpiPlace, FlashOps
  <2>2. Spi!ProgramStep \in 1 .. sjob.addr + sjob.len - sjob.at  BY <2>0, <2>1, ProgramHits
  <2>3. on = sjob.at + Spi!ProgramStep /\ on < sjob.addr + sjob.len
    BY <1>1 DEF Spi!Advanced, Spi!JobEnd
  <2> HIDE DEF on
  <2>4. on \in Nat /\ on \in sjob.addr .. sjob.addr + sjob.len - 1  BY <2>0, <2>1, <2>2, <2>3
  <2>5. /\ sjob'.op = "write" /\ sjob'.addr = sjob.addr /\ sjob'.len = sjob.len /\ sjob'.at = on
        /\ sjob'.st = "wren" /\ sjob'.mem = sjob.mem /\ sjob' \in Writes
    BY <1>1, <2>0, <2>4 DEF Writes, on
  <2>6. JobOK(sjob')  BY <2>5 DEF JobOK, Spi!Ops
  <2>7. SpiPlace'  BY <2>1, <2>4, <2>5 DEF SpiPlace, FlashOps
  <2>8. SpiDone'  BY <2>5 DEF SpiDone
  <2>9. Spi!FlashConfined'  BY <1>1, <2>5 DEF SpiFlash, Spi!FlashConfined
  <2>10. Spi!FlashTold'  BY DEF SpiFlash, Spi!FlashTold
  <2> QED BY <2>6, <2>7, <2>8, <2>9, <2>10 DEF SpiFlash
<1>2. CASE sjob.op = "erase"
  <2>0. sjob \in Erases /\ sjob.at \in Nat  BY <1>0, <1>2 DEF JobOK, Erases
  <2>1. /\ Multiple(sjob.at, Sector) /\ sjob.at < Spi!EraseEnd /\ Spi!Down(sjob.addr, Sector) <= sjob.at
        /\ sjob.addr + sjob.len <= Limit /\ Spi!Down(sjob.addr, Sector) \in Nat
    BY <1>2, <2>0, DownIs DEF SpiFlash, SpiPlace, FlashOps, Erases
  <2>2. /\ Spi!EraseStep \in Nat \ {0} /\ Multiple(sjob.at + Spi!EraseStep, Sector)
    BY <1>2, <2>0, <2>1, EraseReach
  <2>3. on = sjob.at + Spi!EraseStep /\ on < Spi!EraseEnd  BY <1>2 DEF Spi!Advanced, Spi!JobEnd
  <2>4. Reached = on  BY <2>3 DEF Reached
  <2> HIDE DEF on
  <2>5. on \in Nat /\ Multiple(on, Sector) /\ Spi!Down(sjob.addr, Sector) <= on
    BY <2>0, <2>1, <2>2, <2>3
  <2>6. /\ sjob'.op = "erase" /\ sjob'.addr = sjob.addr /\ sjob'.len = sjob.len /\ sjob'.at = on
        /\ sjob'.st = "wren" /\ sjob'.mem = sjob.mem /\ sjob' \in Erases
    BY <1>2, <2>0, <2>5 DEF Erases, on
  <2>7. JobOK(sjob')  BY <2>6 DEF JobOK, Spi!Ops
  <2>8. Spi!EraseEnd' = Spi!EraseEnd  BY <2>6 DEF Spi!EraseEnd
  <2>9. Reached' = on  BY <2>6 DEF Reached
  <2>10. SpiPlace'  BY <2>1, <2>3, <2>5, <2>6, <2>8 DEF SpiPlace, FlashOps
  <2>11. SpiDone'  BY <1>2, <2>4, <2>6, <2>9 DEF SpiFlash, SpiDone
  <2>12. Spi!FlashConfined'  BY <1>2, <2>6, <2>8 DEF SpiFlash, Spi!FlashConfined
  <2>13. Spi!FlashTold'  BY DEF SpiFlash, Spi!FlashTold
  <2> QED BY <2>7, <2>10, <2>11, <2>12, <2>13 DEF SpiFlash
<1>3. CASE sjob.op = "chip_erase"
  <2>1. sjob \in Erases /\ sjob.addr = 0 /\ sjob.at = 0 /\ sjob.len = Limit
    BY <1>0, <1>3 DEF JobOK, SpiFlash, SpiPlace
  <2>2. Spi!EraseStep = Limit  BY <1>3, <2>1, ChipReach
  <2>3. on = 0 + Limit /\ Spi!JobEnd = 0 + Limit
    BY <1>3, <2>1, <2>2 DEF Spi!Advanced, Spi!JobEnd
  <2> QED BY <2>3
<1> QED BY <1>1, <1>2, <1>3 DEF FlashOps

\* An erase that came to its end has erased what it was asked for.
LEMMA EraseIsDone ==
    ASSUME SpiFlash, SpiTypes, sjob.op \in {"erase", "chip_erase"}, sjob.st = "wait", ~(Spi!Advanced < Spi!JobEnd)
    PROVE  \A a \in sjob.addr .. sjob.addr + sjob.len - 1 : chip.mem[a] = 1
<1> USE FlashNumbers
<1>0. sjob \in Erases /\ sjob.addr \in Nat /\ sjob.len \in Nat \ {0} /\ sjob.at \in Nat
  BY DEF SpiTypes, JobOK, Erases
<1>1. sjob.addr + sjob.len <= Limit  BY DEF SpiFlash, SpiPlace, FlashOps
<1> SUFFICES ASSUME NEW a \in sjob.addr .. sjob.addr + sjob.len - 1 PROVE chip.mem[a] = 1
  OBVIOUS
<1>2. a \in Spi!Addr /\ a \in Nat  BY <1>0, <1>1 DEF Spi!Addr
<1>3. Spi!Down(sjob.addr, Sector) <= a
  <2>1. Spi!Down(sjob.addr, Sector) \in Nat /\ Spi!Down(sjob.addr, Sector) <= sjob.addr
    BY <1>0, DownIs
  <2> QED BY <1>0, <2>1
<1>4. a < Reached
  <2>0. Reached = sjob.at + Spi!EraseStep  BY DEF Reached
  <2>1. CASE sjob.op = "erase"
    <3>1. Multiple(sjob.at, Sector) /\ sjob.at < Spi!EraseEnd  BY <2>1 DEF SpiFlash, SpiPlace
    <3>2. Spi!EraseEnd \in Nat /\ Spi!EraseStep \in Nat  BY <1>0, <2>1, <3>1, EraseReach
    <3>3. sjob.addr + sjob.len <= Spi!EraseEnd  BY <1>0, EraseSpan DEF Spi!EraseEnd
    <3>4. ~(sjob.at + Spi!EraseStep < Spi!EraseEnd)  BY <2>1 DEF Spi!Advanced, Spi!JobEnd
    <3> QED BY <1>0, <1>2, <2>0, <3>2, <3>3, <3>4
  <2>2. CASE sjob.op = "chip_erase"
    <3>1. sjob.at = 0  BY <2>2 DEF SpiFlash, SpiPlace
    <3>2. Spi!EraseStep = Limit  BY <1>0, <2>2, <3>1, ChipReach
    <3> QED BY <1>0, <1>1, <1>2, <2>0, <3>1, <3>2
  <2> QED BY <2>1, <2>2
<1> QED BY <1>2, <1>3, <1>4 DEF SpiFlash, SpiDone

\* An address of a job and the end it goes to are numbers.
LEMMA PlacesAreNat ==
    ASSUME SpiFlash, SpiTypes, sjob.op \in FlashOps
    PROVE  Spi!Advanced \in Nat /\ Spi!JobEnd \in Nat
<1> USE FlashNumbers
<1>0. JobOK(sjob)  BY DEF SpiTypes
<1>1. CASE sjob.op = "write"
  <2>0. sjob \in Writes /\ sjob.addr \in Nat /\ sjob.len \in Nat \ {0} /\ sjob.at \in Nat
    BY <1>0, <1>1 DEF JobOK, Writes
  <2>1. sjob.at \in sjob.addr .. sjob.addr + sjob.len - 1  BY <1>1 DEF SpiFlash, SpiPlace
  <2>2. Spi!ProgramStep \in 1 .. sjob.addr + sjob.len - sjob.at  BY <2>0, <2>1, ProgramHits
  <2>3. Spi!Advanced = sjob.at + Spi!ProgramStep /\ Spi!JobEnd = sjob.addr + sjob.len
    BY <1>1 DEF Spi!Advanced, Spi!JobEnd
  <2> QED BY <2>0, <2>2, <2>3
<1>2. CASE sjob.op = "erase"
  <2>0. sjob \in Erases /\ sjob.at \in Nat  BY <1>0, <1>2 DEF JobOK, Erases
  <2>1. Multiple(sjob.at, Sector) /\ sjob.at < Spi!EraseEnd  BY <1>2 DEF SpiFlash, SpiPlace
  <2>2. Spi!EraseStep \in Nat /\ Spi!EraseEnd \in Nat  BY <1>2, <2>0, <2>1, EraseReach
  <2>3. Spi!Advanced = sjob.at + Spi!EraseStep /\ Spi!JobEnd = Spi!EraseEnd
    BY <1>2 DEF Spi!Advanced, Spi!JobEnd
  <2> QED BY <2>0, <2>2, <2>3
<1>3. CASE sjob.op = "chip_erase"
  <2>1. sjob \in Erases /\ sjob.addr = 0 /\ sjob.at = 0 /\ sjob.len = Limit
    BY <1>0, <1>3 DEF JobOK, SpiFlash, SpiPlace
  <2>2. Spi!EraseStep = Limit  BY <1>3, <2>1, ChipReach
  <2>3. Spi!Advanced = 0 + Limit /\ Spi!JobEnd = 0 + Limit
    BY <1>3, <2>1, <2>2 DEF Spi!Advanced, Spi!JobEnd
  <2> QED BY <2>3
<1> QED BY <1>1, <1>2, <1>3 DEF FlashOps

\* What the chip is left with when a command went through, and how the job goes on.
LEMMA WentKeeps ==
    ASSUME SpiFlash, SpiTypes, sjob.op \in FlashOps, Spi!Went, chip' = Spi!Effect
    PROVE  SpiFlash' /\ JobOK(sjob') /\ chip' \in Chips /\ said'.op \in Spi!Ops \cup {"none"}
           /\ (sjob'.op = sjob.op \/ sjob' = Spi!Idle)
<1>0. chip \in Chips /\ JobOK(sjob) /\ said.op \in Spi!Ops \cup {"none"} /\ (sjob \in Erases \/ sjob \in Writes)
  BY DEF SpiTypes, JobOK, FlashOps
<1>1. ASSUME NEW s, sjob' = [sjob EXCEPT !.st = s] PROVE sjob'.op = sjob.op
  BY <1>0, <1>1 DEF Erases, Writes
<1>2. CASE sjob.st = "wren"
  <2>1. sjob' = [sjob EXCEPT !.st = "check"] /\ said' = said  BY <1>2 DEF Spi!Went, Spi!Goto
  <2>2. chip' = Spi!WriteEnabled  BY <1>2 DEF Spi!Effect
  <2>3. chip' \in Chips /\ chip'.mem = chip.mem  BY <1>0, <2>2, EnableKeeps
  <2>4. SpiFlash' /\ JobOK(sjob')  BY <1>2, <2>1, <2>3, FlashGoesOn
  <2> QED BY <1>0, <1>1, <2>1, <2>3, <2>4
<1>3. CASE sjob.st = "check"
  <2>1. chip' = chip  BY <1>3 DEF Spi!Effect
  <2>2. CASE Spi!EnableStuck
    <3>1. sjob' = [sjob EXCEPT !.st = "cmd"] /\ said' = said
      BY <1>3, <2>2 DEF Spi!Went, Spi!Goto
    <3>2. chip'.wel /\ ~chip'.wip  BY <2>1, <2>2 DEF Spi!EnableStuck
    <3>3. SpiFlash' /\ JobOK(sjob')  BY <1>0, <1>3, <2>1, <3>1, <3>2, FlashGoesOn
    <3> QED BY <1>0, <1>1, <2>1, <3>1, <3>3
  <2>3. CASE ~Spi!EnableStuck
    <3>1. Spi!Flashed(FALSE)  BY <1>3, <2>3 DEF Spi!Went
    <3> QED BY <1>0, <2>1, <3>1, FlashEnds
  <2> QED BY <2>2, <2>3
<1>4. CASE sjob.st = "cmd"
  <2>1. sjob' = [sjob EXCEPT !.st = "wait"] /\ said' = said  BY <1>4 DEF Spi!Went, Spi!Goto
  <2>2. CASE sjob.op = "write"
    <3>1. chip' = Spi!Programmed(sjob.at, Spi!ProgramStep, sjob.data)
      BY <1>4, <2>2 DEF Spi!Effect
    <3> QED BY <1>0, <1>1, <1>4, <2>1, <2>2, <3>1, ProgramGoesOn
  <2>3. CASE sjob.op # "write"
    <3>1. chip' = Spi!Erased(Spi!EraseRange)  BY <1>4, <2>3 DEF Spi!Effect
    <3>2. sjob.op \in {"erase", "chip_erase"}  BY <2>3 DEF FlashOps
    <3> QED BY <1>0, <1>1, <1>4, <2>1, <3>1, <3>2, EraseGoesOn
  <2> QED BY <2>2, <2>3
<1>5. CASE sjob.st = "wait"
  <2>1. chip' = chip  BY <1>5 DEF Spi!Effect
  <2>2. CASE Spi!Goto("wait")
    <3>1. sjob' = [sjob EXCEPT !.st = "wait"] /\ said' = said  BY <2>2 DEF Spi!Goto
    <3>2. SpiFlash' /\ JobOK(sjob')  BY <1>0, <1>5, <2>1, <3>1, FlashGoesOn
    <3> QED BY <1>0, <1>1, <2>1, <3>1, <3>2
  <2>3. CASE Spi!Flashed(FALSE)
    BY <1>0, <2>1, <2>3, FlashEnds
  <2>4. CASE Spi!Advanced < Spi!JobEnd /\ sjob' = [sjob EXCEPT !.at = Spi!Advanced, !.st = "wren"] /\ UNCHANGED said
    <3>1. SpiFlash' /\ JobOK(sjob')  BY <1>5, <2>1, <2>4, FlashMovesOn
    <3>2. sjob'.op = sjob.op  BY <1>0, <2>4 DEF Erases, Writes
    <3> QED BY <1>0, <2>1, <2>4, <3>1, <3>2
  <2>5. CASE sjob.op = "write" /\ Spi!Goto("verify")
    <3>1. sjob' = [sjob EXCEPT !.st = "verify"] /\ said' = said  BY <2>5 DEF Spi!Goto
    <3>2. sjob \in Writes  BY <1>0, <2>5 DEF JobOK
    <3>3. /\ sjob'.op = sjob.op /\ sjob'.addr = sjob.addr /\ sjob'.len = sjob.len /\ sjob'.at = sjob.at
          /\ sjob'.st = "verify" /\ sjob'.mem = sjob.mem /\ sjob' \in Writes
      BY <3>1, <3>2 DEF Writes
    <3>4. JobOK(sjob')  BY <2>5, <3>3 DEF JobOK, Spi!Ops
    <3>5. SpiPlace'  BY <2>1, <2>5, <3>3 DEF SpiFlash, SpiPlace, FlashOps
    <3>6. SpiDone'  BY <2>5, <3>3 DEF SpiDone
    <3>7. Spi!FlashConfined'  BY <2>1, <2>5, <3>3 DEF SpiFlash, Spi!FlashConfined
    <3>8. Spi!FlashTold'  BY <3>1 DEF SpiFlash, Spi!FlashTold
    <3> QED BY <1>0, <2>1, <3>1, <3>3, <3>4, <3>5, <3>6, <3>7, <3>8 DEF SpiFlash
  <2>6. CASE ~(Spi!Advanced < Spi!JobEnd) /\ sjob.op # "write" /\ Spi!Flashed(TRUE)
    <3>1. sjob.op \in {"erase", "chip_erase"}  BY <2>6 DEF FlashOps
    <3>2. \A a \in sjob.addr .. sjob.addr + sjob.len - 1 : chip.mem[a] = 1
      BY <1>5, <2>6, <3>1, EraseIsDone
    <3> QED BY <1>0, <2>1, <2>6, <3>2, FlashEnds
  <2>7. \/ Spi!Goto("wait") \/ Spi!Flashed(FALSE)
        \/ Spi!Advanced < Spi!JobEnd /\ sjob' = [sjob EXCEPT !.at = Spi!Advanced, !.st = "wren"] /\ UNCHANGED said
        \/ sjob.op = "write" /\ Spi!Goto("verify")
        \/ Spi!Advanced >= Spi!JobEnd /\ sjob.op # "write" /\ Spi!Flashed(TRUE)
    BY <1>5 DEF Spi!Went
  <2>8. Spi!Advanced >= Spi!JobEnd => ~(Spi!Advanced < Spi!JobEnd)  BY <1>5, PlacesAreNat
  <2> QED BY <2>2, <2>3, <2>4, <2>5, <2>6, <2>7, <2>8
<1>6. CASE sjob.st = "verify"
  <2>1. chip' = chip  BY <1>6 DEF Spi!Effect
  <2>2. Spi!Flashed(Spi!Matches)  BY <1>6 DEF Spi!Went
  <2>3. sjob.op = "write"  BY <1>0, <1>6 DEF Erases, Writes
  <2>4. Spi!Matches \in BOOLEAN  BY DEF Spi!Matches
  <2>5. Spi!Matches =>
           \A a \in sjob.addr .. sjob.addr + sjob.len - 1 : chip.mem[a] = (IF sjob.op = "write" THEN sjob.data ELSE 1)
    BY <2>3 DEF Spi!Matches
  <2> DEFINE ok == Spi!Matches
  <2> HIDE DEF ok
  <2>6. ok \in BOOLEAN /\ Spi!Flashed(ok)  BY <2>2, <2>4 DEF ok
  <2> QED BY <1>0, <2>1, <2>5, <2>6, FlashEnds DEF ok
<1>7. sjob.st \in {"wren", "check", "cmd", "wait", "verify"}  BY <1>0 DEF Erases, Writes
<1> QED BY <1>2, <1>3, <1>4, <1>5, <1>6, <1>7

\* Nothing is done to the flash, and no job on it goes on.
LEMMA FlashRests ==
    ASSUME SpiFlash, said' = said \/ ~said'.ok,
           \/ sjob' = sjob /\ chip'.mem = chip.mem /\ chip'.wel = chip.wel /\ (chip'.wip => chip.wip)
           \/ sjob'.op \notin FlashOps
    PROVE  SpiFlash'
<1>1. Spi!FlashTold'  BY DEF SpiFlash, Spi!FlashTold
<1>2. CASE sjob'.op \notin FlashOps
  <2>1. SpiPlace' /\ SpiDone' /\ Spi!FlashConfined'
    BY <1>2 DEF SpiPlace, SpiDone, Spi!FlashConfined, FlashOps
  <2> QED BY <1>1, <2>1 DEF SpiFlash
<1>3. CASE sjob' = sjob /\ chip'.mem = chip.mem /\ chip'.wel = chip.wel /\ (chip'.wip => chip.wip)
  <2>1. Spi!EraseEnd' = Spi!EraseEnd /\ Spi!EraseStep' = Spi!EraseStep /\ Reached' = Reached
    BY <1>3 DEF Spi!EraseEnd, Spi!EraseStep, Reached
  <2>2. SpiPlace'  BY <1>3, <2>1 DEF SpiFlash, SpiPlace
  <2>3. SpiDone'  BY <1>3, <2>1 DEF SpiFlash, SpiDone
  <2>4. Spi!FlashConfined'  BY <1>3, <2>1 DEF SpiFlash, Spi!FlashConfined
  <2> QED BY <1>1, <2>2, <2>3, <2>4 DEF SpiFlash
<1> QED BY <1>2, <1>3

\* What a job on the flash starts with.
Fresh(job) ==
    /\ job.op \in FlashOps /\ JobOK(job) /\ job.st = "wren" /\ job.mem = chip.mem
    /\ job.op = "erase" => job.at = Spi!Down(job.addr, Sector)
    /\ job.op = "chip_erase" => job.addr = 0 /\ job.len = Limit /\ job.at = 0
    /\ job.op = "write" => job.at = job.addr

\* A job that is in range is taken up.
LEMMA FlashStarts ==
    ASSUME SpiFlash, SpiTypes, NEW job, Fresh(job), Spi!RangeOK(job.addr, job.len),
           sjob' = job, said' = said, chip' = chip
    PROVE  SpiFlash'
<1> USE FlashNumbers
<1>1. job \in Erases \/ job \in Writes  BY DEF Fresh, JobOK, FlashOps
<1>2. /\ job.addr \in Nat /\ job.len \in Nat \ {0} /\ job.addr + job.len <= Limit
  BY <1>1 DEF Erases, Writes, Spi!RangeOK
<1>3. Spi!EraseEnd' = Spi!Down(job.addr + job.len + Sector - 1, Sector)  BY DEF Spi!EraseEnd
<1>4. /\ Multiple(Spi!Down(job.addr, Sector), Sector) /\ Spi!Down(job.addr, Sector) \in Nat
      /\ Spi!Down(job.addr, Sector) < Spi!EraseEnd'
  BY <1>2, <1>3, EraseSpan
<1>5. Reached' = job.at  BY DEF Reached, Fresh
<1>6. SpiPlace'
  <2>1. job.op = "write" => job.at \in job.addr .. job.addr + job.len - 1  BY <1>2 DEF Fresh
  <2>2. job.op = "erase" => /\ Multiple(job.at, Sector) /\ job.at < Spi!EraseEnd'
                            /\ Spi!Down(job.addr, Sector) <= job.at
    BY <1>4 DEF Fresh
  <2>3. job.op = "chip_erase" => job.addr = 0 /\ job.len = Limit /\ job.at = 0  BY DEF Fresh
  <2>4. job.st # "cmd"  BY DEF Fresh
  <2> QED BY <1>2, <2>1, <2>2, <2>3, <2>4 DEF SpiPlace
<1>7. SpiDone'
  <2>1. ASSUME job.op \in {"erase", "chip_erase"}, NEW a \in Spi!Addr, Spi!Down(job.addr, Sector) <= a, a < job.at
        PROVE  FALSE
    <3>1. a \in Nat  BY DEF Spi!Addr
    <3>2. job.op = "erase" => job.at = Spi!Down(job.addr, Sector)  BY DEF Fresh
    <3>3. job.op = "chip_erase" => job.at = 0  BY DEF Fresh
    <3> QED BY <1>4, <2>1, <3>1, <3>2, <3>3
  <2> QED BY <1>5, <2>1 DEF SpiDone
<1>8. Spi!FlashConfined'  BY DEF Spi!FlashConfined, Fresh
<1>9. Spi!FlashTold'  BY DEF SpiFlash, Spi!FlashTold
<1> QED BY <1>6, <1>7, <1>8, <1>9 DEF SpiFlash

\* A transfer that was cut short has changed the part within the job's range, or not at all.
LEMMA CutKeeps ==
    ASSUME SpiFlash, SpiTypes, sjob.op \in FlashOps, chip' \in Spi!CutShort
    PROVE  chip' \in Chips
<1>0. chip \in Chips /\ JobOK(sjob)  BY DEF SpiTypes
<1>1. CASE chip' = chip
  BY <1>0, <1>1
<1>2. CASE sjob.op = "write" /\ \E n \in 1 .. Spi!ProgramStep : chip' = Spi!Programmed(sjob.at, n, sjob.data)
  <2>1. PICK n \in 1 .. Spi!ProgramStep : chip' = Spi!Programmed(sjob.at, n, sjob.data)
    BY <1>2
  <2>2. sjob \in Writes /\ sjob.at \in sjob.addr .. sjob.addr + sjob.len - 1
    BY <1>0, <1>2 DEF JobOK, SpiFlash, SpiPlace
  <2> QED BY <1>0, <2>1, <2>2, ProgramKeeps
<1> QED BY <1>1, <1>2 DEF Spi!CutShort

\* A command on the flash begins.
LEMMA FlashBegins ==
    ASSUME SpiInv, NEW job, job.op \in FlashOps, Spi!RangeOK(job.addr, job.len) => Fresh(job), Spi!FlashBegin(job)
    PROVE  SpiInv'
<1> USE FlashNumbers
<1>0. SpiTypes /\ SpiFrames /\ SpiFlash  BY DEF SpiInv
<1>1. /\ sjob = Spi!Idle /\ spiCmds < MaxSpiCmds /\ spiCmds' = spiCmds + 1 /\ spi_armed_local
      /\ spi_armed_local' = spi_armed_local /\ chip' = chip /\ busHeld' = busHeld /\ gateHeld' = gateHeld
      /\ mixed' = mixed /\ spiFaults' = spiFaults
  BY DEF Spi!FlashBegin, Spi!Command
<1>2. sjob.op = "idle"  BY <1>1 DEF Spi!Idle
<1>3. /\ spiGw' \in [armed : BOOLEAN, cs : BOOLEAN] /\ frame' = FALSE /\ s_cs_held' = FALSE
      /\ spiGw'.armed = spiGw.armed /\ (spiGw'.armed => ~spiGw'.cs)
  <2>1. CASE s_cs_held
    <3>1. /\ spiGw' = IF spi_armed_local /\ spiGw.armed THEN [spiGw EXCEPT !.cs = FALSE] ELSE spiGw
          /\ frame' = (frame /\ FALSE) /\ s_cs_held' = FALSE
      BY <2>1 DEF Spi!FlashBegin, Spi!ClosesFrame, Spi!Cs
    <3>2. spiGw \in [armed : BOOLEAN, cs : BOOLEAN]  BY <1>0 DEF SpiTypes
    <3> QED BY <1>1, <3>1, <3>2
  <2>2. CASE ~s_cs_held
    <3>1. spiGw' = spiGw /\ frame' = frame /\ s_cs_held' = s_cs_held
      BY <2>2 DEF Spi!FlashBegin, Spi!ClosesFrame
    <3>2. ~frame /\ (spiGw.armed => ~spiGw.cs)  BY <1>0, <1>2, <2>2 DEF SpiFrames, SpiTypes
    <3>3. frame \in BOOLEAN /\ s_cs_held \in BOOLEAN /\ spiGw \in [armed : BOOLEAN, cs : BOOLEAN]
      BY <1>0 DEF SpiTypes
    <3> QED BY <2>2, <3>1, <3>2, <3>3
  <2> QED BY <2>1, <2>2
<1>4. \/ Spi!RangeOK(job.addr, job.len) /\ sjob' = job /\ said' = said
      \/ sjob' = sjob /\ said' = [op |-> job.op, ok |-> FALSE]
  BY DEF Spi!FlashBegin
<1>5. JobOK(sjob')  BY <1>0, <1>4 DEF SpiTypes, Fresh
<1>6. said'.op \in Spi!Ops \cup {"none"}  BY <1>0, <1>4 DEF SpiTypes, FlashOps, Spi!Ops
<1>7. spiCmds' \in 0 .. MaxSpiCmds /\ spiFaults' \in 0 .. MaxFaults  BY <1>0, <1>1 DEF SpiTypes
<1>8. SpiTypes'  BY <1>0, <1>1, <1>3, <1>5, <1>6, <1>7 DEF SpiTypes
<1>9. SpiFrames'
  <2>1. sjob'.op \in FlashOps \cup {"idle"}  BY <1>2, <1>4
  <2>2. sjob'.op \notin {"xfer", "stream"}  BY <2>1 DEF FlashOps
  <2>3. spiGw'.armed => spi_armed_local'  BY <1>1
  <2>4. ~mixed' /\ ~busHeld' /\ ~gateHeld'  BY <1>0, <1>1, <1>2 DEF SpiFrames
  <2> QED BY <1>3, <2>2, <2>3, <2>4 DEF SpiFrames
<1>10. SpiFlash'
  <2>1. CASE Spi!RangeOK(job.addr, job.len) /\ sjob' = job /\ said' = said
    BY <1>0, <1>1, <2>1, FlashStarts
  <2>2. CASE sjob' = sjob /\ said' = [op |-> job.op, ok |-> FALSE]
    <3>1. ~said'.ok  BY <2>2
    <3> QED BY <1>0, <1>1, <2>2, <3>1, FlashRests
  <2> QED BY <1>4, <2>1, <2>2
<1> QED BY <1>8, <1>9, <1>10 DEF SpiInv

\* The jobs a client of the flash asks for.
LEMMA FlashAsked ==
    ASSUME SpiTypes, NEW a \in Nat, NEW n \in Nat, n > 0
    PROVE  /\ Fresh([op |-> "erase", addr |-> a, len |-> n, at |-> Spi!Down(a, Sector), st |-> "wren",
                     mem |-> chip.mem])
           /\ \A d \in {0, 1} : Fresh([op |-> "write", addr |-> a, len |-> n, data |-> d, at |-> a, st |-> "wren",
                                       mem |-> chip.mem])
           /\ Fresh([op |-> "chip_erase", addr |-> 0, len |-> Limit, at |-> 0, st |-> "wren", mem |-> chip.mem])
<1> USE FlashNumbers
<1>1. chip.mem \in Cells /\ n \in Nat \ {0} /\ Spi!Down(a, Sector) \in Nat
  BY DownIs DEF SpiTypes, Chips
<1>2. Fresh([op |-> "erase", addr |-> a, len |-> n, at |-> Spi!Down(a, Sector), st |-> "wren", mem |-> chip.mem])
  <2> DEFINE j == [op |-> "erase", addr |-> a, len |-> n, at |-> Spi!Down(a, Sector), st |-> "wren", mem |-> chip.mem]
  <2>1. j \in Erases  BY <1>1 DEF Erases
  <2>2. j.op = "erase" /\ j.st = "wren" /\ j.mem = chip.mem /\ j.at = Spi!Down(j.addr, Sector)
    OBVIOUS
  <2> HIDE DEF j
  <2>3. Fresh(j)  BY <2>1, <2>2 DEF Fresh, JobOK, FlashOps, Spi!Ops
  <2> QED BY <2>3 DEF j
<1>3. Fresh([op |-> "chip_erase", addr |-> 0, len |-> Limit, at |-> 0, st |-> "wren", mem |-> chip.mem])
  <2> DEFINE j == [op |-> "chip_erase", addr |-> 0, len |-> Limit, at |-> 0, st |-> "wren", mem |-> chip.mem]
  <2>1. j \in Erases  BY <1>1 DEF Erases
  <2>2. j.op = "chip_erase" /\ j.st = "wren" /\ j.mem = chip.mem /\ j.at = 0 /\ j.addr = 0 /\ j.len = Limit
    OBVIOUS
  <2> HIDE DEF j
  <2>3. Fresh(j)  BY <2>1, <2>2 DEF Fresh, JobOK, FlashOps, Spi!Ops
  <2> QED BY <2>3 DEF j
<1>4. ASSUME NEW d \in {0, 1}
      PROVE  Fresh([op |-> "write", addr |-> a, len |-> n, data |-> d, at |-> a, st |-> "wren", mem |-> chip.mem])
  <2> DEFINE j == [op |-> "write", addr |-> a, len |-> n, data |-> d, at |-> a, st |-> "wren", mem |-> chip.mem]
  <2>1. j \in Writes  BY <1>1 DEF Writes
  <2>2. j.op = "write" /\ j.st = "wren" /\ j.mem = chip.mem /\ j.at = j.addr  OBVIOUS
  <2> HIDE DEF j
  <2>3. Fresh(j)  BY <2>1, <2>2 DEF Fresh, JobOK, FlashOps, Spi!Ops
  <2> QED BY <2>3 DEF j
<1> QED BY <1>2, <1>3, <1>4

\* A session starts or ends, a transfer is asked for, the fabric loses its engine, the part is ready.
LEMMA SpiSteps ==
    ASSUME SpiInv, \/ Spi!Start \/ Spi!Stop \/ Spi!EngineResets \/ Spi!ChipReady
                   \/ \E h \in BOOLEAN, n \in 1 .. 2 : Spi!XferBegin(h, n) \/ Spi!StreamBegin(h, n)
    PROVE  SpiInv'
<1> USE FlashNumbers
<1>0. /\ SpiTypes /\ SpiFrames /\ SpiFlash /\ spiGw \in [armed : BOOLEAN, cs : BOOLEAN] /\ chip \in Chips
      /\ JobOK(sjob) /\ spiCmds \in 0 .. MaxSpiCmds /\ spiFaults \in 0 .. MaxFaults
  BY DEF SpiInv, SpiTypes
<1>1. ASSUME sjob = Spi!Idle PROVE sjob.op = "idle" /\ sjob.op \notin FlashOps
  BY <1>1 DEF Spi!Idle, FlashOps
<1>2. spiCmds < MaxSpiCmds => spiCmds + 1 \in 0 .. MaxSpiCmds  BY <1>0
<1>3. spiFaults < MaxFaults => spiFaults + 1 \in 0 .. MaxFaults  BY <1>0
<1>4. [armed |-> FALSE, cs |-> FALSE] \in [armed : BOOLEAN, cs : BOOLEAN]
      /\ [armed |-> TRUE, cs |-> FALSE] \in [armed : BOOLEAN, cs : BOOLEAN]
  OBVIOUS
<1>5. CASE Spi!Start
  <2>1. /\ sjob = Spi!Idle /\ spiCmds < MaxSpiCmds /\ spiCmds' = spiCmds + 1 /\ ~spi_armed_local
        /\ spiGw' = [armed |-> TRUE, cs |-> FALSE] /\ spi_armed_local' = TRUE /\ s_cs_held' = FALSE
        /\ UNCHANGED <<chip, frame, sjob, said, busHeld, gateHeld, mixed, spiFaults>>
    BY <1>5 DEF Spi!Start, Spi!Command
  <2>2. SpiTypes'  BY <1>0, <1>2, <1>4, <2>1 DEF SpiTypes
  <2>3. spiGw'.armed /\ ~spiGw'.cs  BY <2>1
  <2>4. frame' = FALSE  BY <1>0, <1>1, <2>1 DEF SpiFrames, SpiTypes
  <2>5. SpiFrames'  BY <1>0, <1>1, <2>1, <2>3, <2>4 DEF SpiFrames
  <2>6. SpiFlash'  BY <1>0, <2>1, FlashRests
  <2> QED BY <2>2, <2>5, <2>6 DEF SpiInv
<1>6. CASE Spi!Stop
  <2>1. /\ sjob = Spi!Idle /\ spiCmds < MaxSpiCmds /\ spiCmds' = spiCmds + 1
        /\ spiGw' = [armed |-> FALSE, cs |-> FALSE] /\ spi_armed_local' = FALSE /\ s_cs_held' = FALSE /\ frame' = FALSE
        /\ UNCHANGED <<chip, sjob, said, busHeld, gateHeld, mixed, spiFaults>>
    BY <1>6 DEF Spi!Stop, Spi!Command, Spi!SessionEnded
  <2>2. SpiTypes'  BY <1>0, <1>2, <1>4, <2>1 DEF SpiTypes
  <2>3. ~spiGw'.armed  BY <2>1
  <2>4. SpiFrames'  BY <1>0, <1>1, <2>1, <2>3 DEF SpiFrames
  <2>5. SpiFlash'  BY <1>0, <2>1, FlashRests
  <2> QED BY <2>2, <2>4, <2>5 DEF SpiInv
<1>7. CASE Spi!EngineResets
  <2>1. /\ spiFaults < MaxFaults /\ spiGw' = [armed |-> FALSE, cs |-> FALSE] /\ frame' = FALSE
        /\ spiFaults' = spiFaults + 1
        /\ UNCHANGED <<spi_armed_local, s_cs_held, chip, sjob, said, busHeld, gateHeld, mixed, spiCmds>>
    BY <1>7 DEF Spi!EngineResets
  <2>2. SpiTypes'  BY <1>0, <1>3, <1>4, <2>1 DEF SpiTypes
  <2>3. ~spiGw'.armed  BY <2>1
  <2>4. SpiFrames'  BY <1>0, <2>1, <2>3 DEF SpiFrames
  <2>5. SpiFlash'  BY <1>0, <2>1, FlashRests
  <2> QED BY <2>2, <2>4, <2>5 DEF SpiInv
<1>8. CASE Spi!ChipReady
  <2>1. /\ chip.wip /\ chip' = [chip EXCEPT !.wip = FALSE]
        /\ UNCHANGED <<spiGw, spi_armed_local, s_cs_held, frame, sjob, said, busHeld, gateHeld, mixed, spiFaults,
                       spiCmds>>
    BY <1>8 DEF Spi!ChipReady
  <2>2. chip' \in Chips /\ chip'.mem = chip.mem /\ chip'.wel = chip.wel /\ chip'.wip = FALSE
    BY <1>0, <2>1 DEF Chips
  <2>3. SpiTypes'  BY <1>0, <2>1, <2>2 DEF SpiTypes
  <2>4. SpiFrames'  BY <1>0, <2>1 DEF SpiFrames
  <2>5. SpiFlash'  BY <1>0, <2>1, <2>2, FlashRests
  <2> QED BY <2>3, <2>4, <2>5 DEF SpiInv
<1>9. ASSUME NEW h \in BOOLEAN, NEW n \in 1 .. 2, NEW op \in {"xfer", "stream"},
             sjob' = [op |-> op, hold |-> h, left |-> n]
      PROVE  sjob'.op = op /\ JobOK(sjob') /\ sjob'.op \notin FlashOps /\ sjob'.op # "idle"
  <2>1. sjob' \in Moves /\ sjob'.op = op  BY <1>9 DEF Moves
  <2> QED BY <2>1 DEF JobOK, FlashOps, Spi!Ops
<1>10. ASSUME NEW h \in BOOLEAN, NEW n \in 1 .. 2, Spi!XferBegin(h, n) PROVE SpiInv'
  <2>1. /\ sjob = Spi!Idle /\ spiCmds < MaxSpiCmds /\ spiCmds' = spiCmds + 1 /\ spi_armed_local
        /\ sjob' = [op |-> "xfer", hold |-> h, left |-> n]
        /\ UNCHANGED <<spi_armed_local, s_cs_held, chip, said, busHeld, gateHeld, mixed, spiFaults>>
        /\ IF s_cs_held THEN UNCHANGED <<spiGw, frame>>
           ELSE /\ spiGw' = IF spi_armed_local /\ spiGw.armed THEN [spiGw EXCEPT !.cs = TRUE] ELSE spiGw
                /\ frame' = (frame /\ TRUE)
    BY <1>10 DEF Spi!XferBegin, Spi!Command, Spi!Cs
  <2>2. sjob'.op = "xfer" /\ JobOK(sjob') /\ sjob'.op \notin FlashOps  BY <1>9, <2>1
  <2>3. /\ spiGw' \in [armed : BOOLEAN, cs : BOOLEAN] /\ frame' \in BOOLEAN
        /\ spiGw'.armed = spiGw.armed /\ (spiGw'.armed => spiGw'.cs)
    <3>1. CASE s_cs_held
      <4>1. spiGw.armed => spiGw.cs  BY <1>0, <1>1, <2>1, <3>1 DEF SpiFrames
      <4>2. spiGw' = spiGw /\ frame' = frame /\ frame \in BOOLEAN
        BY <1>0, <2>1, <3>1 DEF SpiTypes
      <4> QED BY <1>0, <4>1, <4>2
    <3>2. CASE ~s_cs_held
      BY <1>0, <2>1, <3>2 DEF SpiTypes
    <3> QED BY <3>1, <3>2
  <2>4. SpiTypes'  BY <1>0, <1>2, <2>1, <2>2, <2>3 DEF SpiTypes
  <2>5. SpiFrames'
    <3>1. ~mixed' /\ ~busHeld' /\ ~gateHeld' /\ spi_armed_local'
      BY <1>0, <1>1, <2>1 DEF SpiFrames
    <3> QED BY <2>2, <2>3, <3>1 DEF SpiFrames
  <2>6. SpiFlash'  BY <1>0, <2>1, <2>2, FlashRests
  <2> QED BY <2>4, <2>5, <2>6 DEF SpiInv
<1>11. ASSUME NEW h \in BOOLEAN, NEW n \in 1 .. 2, Spi!StreamBegin(h, n) PROVE SpiInv'
  <2>1. /\ sjob = Spi!Idle /\ spiCmds < MaxSpiCmds /\ spiCmds' = spiCmds + 1 /\ spi_armed_local
        /\ sjob' = [op |-> "stream", hold |-> h, left |-> n] /\ gateHeld' = TRUE /\ busHeld' = TRUE
        /\ spiGw' = IF spi_armed_local /\ spiGw.armed THEN [spiGw EXCEPT !.cs = TRUE] ELSE spiGw
        /\ frame' = (frame /\ ~s_cs_held) /\ s_cs_held' = FALSE /\ mixed' = (mixed \/ frame')
        /\ UNCHANGED <<spi_armed_local, chip, said, spiFaults>>
    BY <1>11 DEF Spi!StreamBegin, Spi!Command, Spi!ClosesHeld
  <2>2. sjob'.op = "stream" /\ JobOK(sjob') /\ sjob'.op \notin FlashOps  BY <1>9, <2>1
  <2>3. /\ spiGw' \in [armed : BOOLEAN, cs : BOOLEAN] /\ spiGw'.armed = spiGw.armed /\ (spiGw'.armed => spiGw'.cs)
    BY <1>0, <2>1
  <2>4. frame' = FALSE /\ mixed' = FALSE
    <3>1. ~mixed /\ (frame => s_cs_held)  BY <1>0, <1>1, <2>1 DEF SpiFrames
    <3> QED BY <2>1, <3>1
  <2>5. SpiTypes'  BY <1>0, <1>2, <2>1, <2>2, <2>3, <2>4 DEF SpiTypes
  <2>6. SpiFrames'
    <3>1. ~mixed' /\ spi_armed_local'  BY <2>1, <2>4
    <3> QED BY <2>2, <2>3, <3>1 DEF SpiFrames
  <2>7. SpiFlash'  BY <1>0, <2>1, <2>2, FlashRests
  <2> QED BY <2>5, <2>6, <2>7 DEF SpiInv
<1> QED BY <1>5, <1>6, <1>7, <1>8, <1>10, <1>11

\* spi_xfer and spi_stream end, or go on with their next chunk.
LEMMA MovesEnd ==
    ASSUME SpiInv, Spi!XferChunk \/ Spi!StreamChunk
    PROVE  SpiInv'
<1> USE FlashNumbers
<1>0. /\ SpiTypes /\ SpiFrames /\ SpiFlash /\ spiGw \in [armed : BOOLEAN, cs : BOOLEAN] /\ chip \in Chips
      /\ JobOK(sjob) /\ spiCmds \in 0 .. MaxSpiCmds /\ spiFaults \in 0 .. MaxFaults
  BY DEF SpiInv, SpiTypes
<1>1. /\ sjob.op \in {"xfer", "stream"} /\ UNCHANGED <<chip, mixed, spiCmds>>
      /\ sjob.op # "stream" => UNCHANGED <<busHeld, gateHeld>>
  BY DEF Spi!XferChunk, Spi!StreamChunk
<1>2. PICK rc \in Spi!XferResults :
         /\ Spi!Counted(rc)
         /\ IF rc = "ok" /\ sjob.left > 1
            THEN sjob' = [sjob EXCEPT !.left = @ - 1] /\ frame' = TRUE
                 /\ UNCHANGED <<spiGw, spi_armed_local, s_cs_held, said, busHeld, gateHeld>>
            ELSE /\ Spi!Reply(rc = "ok")
                 /\ \/ /\ rc = "ok" /\ sjob.hold /\ s_cs_held' = TRUE /\ frame' = TRUE
                       /\ UNCHANGED <<spiGw, spi_armed_local>>
                    \/ rc = "reset" /\ Spi!SessionEnded
                    \/ /\ rc # "reset" /\ ~(rc = "ok" /\ sjob.hold)
                       /\ Spi!Cs(FALSE) /\ s_cs_held' = FALSE /\ UNCHANGED spi_armed_local
                 /\ (busHeld' = FALSE /\ gateHeld' = FALSE) \/ (sjob.op # "stream" /\ UNCHANGED <<busHeld, gateHeld>>)
  <2>1. CASE Spi!XferChunk
    <3>1. PICK rc \in Spi!XferResults :
             /\ Spi!Counted(rc)
             /\ IF rc = "ok" /\ sjob.left > 1
                THEN sjob' = [sjob EXCEPT !.left = @ - 1] /\ frame' = TRUE
                     /\ UNCHANGED <<spiGw, spi_armed_local, s_cs_held, said>>
                ELSE Spi!XferEnds(rc)
      BY <2>1 DEF Spi!XferChunk
    <3>2. sjob.op # "stream" /\ UNCHANGED <<busHeld, gateHeld>>  BY <2>1 DEF Spi!XferChunk
    <3>3. CASE rc = "ok" /\ sjob.left > 1
      BY <3>1, <3>2, <3>3
    <3>4. CASE ~(rc = "ok" /\ sjob.left > 1)
      <4>1. Spi!XferEnds(rc)  BY <3>1, <3>4
      <4> QED BY <3>1, <3>2, <3>4, <4>1 DEF Spi!XferEnds
    <3> QED BY <3>3, <3>4
  <2>2. CASE Spi!StreamChunk
    <3>1. PICK rc \in Spi!XferResults :
             /\ Spi!Counted(rc)
             /\ IF rc = "ok" /\ sjob.left > 1
                THEN /\ sjob' = [sjob EXCEPT !.left = @ - 1] /\ frame' = TRUE
                     /\ UNCHANGED <<spiGw, spi_armed_local, s_cs_held, said, busHeld, gateHeld>>
                ELSE Spi!StreamEnds(rc)
      BY <2>2 DEF Spi!StreamChunk
    <3>3. CASE rc = "ok" /\ sjob.left > 1
      BY <3>1, <3>3
    <3>4. CASE ~(rc = "ok" /\ sjob.left > 1)
      <4>1. Spi!StreamEnds(rc)  BY <3>1, <3>4
      <4> QED BY <3>1, <3>4, <4>1 DEF Spi!StreamEnds
    <3> QED BY <3>3, <3>4
  <2> QED BY <2>1, <2>2
<1>3. spiFaults' \in 0 .. MaxFaults  BY <1>0, <1>2 DEF Spi!Counted, Spi!XferResults
<1>4. /\ rc = "ok" => spi_armed_local /\ spiGw.armed
      /\ rc = "args" => ~spi_armed_local
  BY <1>2 DEF Spi!XferResults
<1>5. sjob \in Moves /\ sjob.op \notin FlashOps  BY <1>0, <1>1 DEF JobOK, FlashOps
<1>6. busHeld \in BOOLEAN /\ gateHeld \in BOOLEAN /\ mixed = FALSE /\ (spiGw.armed => spi_armed_local)
      /\ (spiGw.armed => spiGw.cs) /\ (s_cs_held => spi_armed_local) /\ spi_armed_local \in BOOLEAN
      /\ s_cs_held \in BOOLEAN /\ (sjob.op # "stream" => ~busHeld /\ ~gateHeld) /\ frame \in BOOLEAN
  BY <1>0, <1>1 DEF SpiTypes, SpiFrames
<1>7. CASE rc = "ok" /\ sjob.left > 1
  <2>1. /\ sjob' = [sjob EXCEPT !.left = @ - 1] /\ frame' = TRUE
        /\ UNCHANGED <<spiGw, spi_armed_local, s_cs_held, said, busHeld, gateHeld>>
    BY <1>2, <1>7
  <2>2. sjob' \in Moves /\ sjob'.op = sjob.op  BY <1>5, <1>7, <2>1 DEF Moves
  <2>3. JobOK(sjob') /\ sjob'.op \notin FlashOps  BY <1>1, <2>2 DEF JobOK, Spi!Ops, FlashOps
  <2>4. SpiTypes'  BY <1>0, <1>1, <1>3, <2>1, <2>3 DEF SpiTypes
  <2>5. SpiFrames'  BY <1>1, <1>6, <2>1, <2>2, <2>3 DEF SpiFrames
  <2>6. SpiFlash'  BY <1>0, <2>1, <2>3, FlashRests
  <2> QED BY <2>4, <2>5, <2>6 DEF SpiInv
<1>8. CASE ~(rc = "ok" /\ sjob.left > 1)
  <2>1. said' = [op |-> sjob.op, ok |-> rc = "ok"] /\ sjob' = Spi!Idle
    BY <1>2, <1>8 DEF Spi!Reply
  <2>2. sjob'.op = "idle" /\ sjob'.op \notin FlashOps /\ JobOK(sjob')
    BY <2>1 DEF Spi!Idle, FlashOps, JobOK, Spi!Ops
  <2>3. said'.op = sjob.op /\ said'.op \in Spi!Ops \cup {"none"} /\ said'.op \notin FlashOps
    BY <1>1, <2>1 DEF Spi!Ops, FlashOps
  <2>4. busHeld' = FALSE /\ gateHeld' = FALSE  BY <1>2, <1>6, <1>8
  <2>5. /\ spiGw' \in [armed : BOOLEAN, cs : BOOLEAN] /\ spi_armed_local' \in BOOLEAN /\ s_cs_held' \in BOOLEAN
        /\ frame' \in BOOLEAN /\ (spiGw'.armed => spi_armed_local') /\ (s_cs_held' => spi_armed_local')
        /\ (spiGw'.armed => s_cs_held' = spiGw'.cs) /\ (frame' => s_cs_held')
    <3>1. CASE rc = "ok" /\ sjob.hold /\ s_cs_held' = TRUE /\ frame' = TRUE /\ UNCHANGED <<spiGw, spi_armed_local>>
      BY <1>0, <1>4, <1>6, <3>1
    <3>2. CASE rc = "reset" /\ Spi!SessionEnded
      <4>1. /\ spiGw' = [armed |-> FALSE, cs |-> FALSE] /\ spi_armed_local' = FALSE /\ s_cs_held' = FALSE
            /\ frame' = FALSE
        BY <3>2 DEF Spi!SessionEnded
      <4>2. [armed |-> FALSE, cs |-> FALSE] \in [armed : BOOLEAN, cs : BOOLEAN]
            /\ [armed |-> FALSE, cs |-> FALSE].armed = FALSE
        OBVIOUS
      <4>3. spiGw' \in [armed : BOOLEAN, cs : BOOLEAN] /\ ~spiGw'.armed  BY <4>1, <4>2
      <4> QED BY <4>1, <4>3
    <3>3. CASE Spi!Cs(FALSE) /\ s_cs_held' = FALSE /\ UNCHANGED spi_armed_local
      <4>1. /\ spiGw' = IF spi_armed_local /\ spiGw.armed THEN [spiGw EXCEPT !.cs = FALSE] ELSE spiGw
            /\ frame' = FALSE
        BY <3>3 DEF Spi!Cs
      <4>2. spiGw' \in [armed : BOOLEAN, cs : BOOLEAN] /\ spiGw'.armed = spiGw.armed /\ (spiGw'.armed => ~spiGw'.cs)
        BY <1>0, <1>6, <4>1
      <4>3. (spiGw'.armed => FALSE = spiGw'.cs)  BY <4>2
      <4> QED BY <1>6, <3>3, <4>1, <4>2, <4>3
    <3> QED BY <1>2, <1>8, <3>1, <3>2, <3>3
  <2>6. SpiTypes'
    <3>1. busHeld' \in BOOLEAN /\ gateHeld' \in BOOLEAN /\ mixed' \in BOOLEAN
      BY <1>1, <1>6, <2>4
    <3>2. chip' \in Chips /\ spiCmds' \in 0 .. MaxSpiCmds  BY <1>0, <1>1
    <3> QED BY <1>3, <2>2, <2>3, <2>5, <3>1, <3>2 DEF SpiTypes
  <2>7. SpiFrames'
    <3>1. ~mixed'  BY <1>1, <1>6
    <3> QED BY <2>2, <2>4, <2>5, <3>1 DEF SpiFrames
  <2>8. SpiFlash'
    <3>1. Spi!FlashTold'  BY <2>3 DEF Spi!FlashTold, FlashOps
    <3>2. SpiPlace' /\ SpiDone' /\ Spi!FlashConfined'
      BY <2>2 DEF SpiPlace, SpiDone, Spi!FlashConfined, FlashOps
    <3> QED BY <3>1, <3>2 DEF SpiFlash
  <2> QED BY <2>6, <2>7, <2>8 DEF SpiInv
<1> QED BY <1>7, <1>8

\* One command on the flash.
LEMMA FlashSteps ==
    ASSUME SpiInv, Spi!FlashStep
    PROVE  SpiInv'
<1> USE FlashNumbers
<1>0. /\ SpiTypes /\ SpiFrames /\ SpiFlash /\ spiGw \in [armed : BOOLEAN, cs : BOOLEAN] /\ chip \in Chips
      /\ JobOK(sjob) /\ spiCmds \in 0 .. MaxSpiCmds /\ spiFaults \in 0 .. MaxFaults
  BY DEF SpiInv, SpiTypes
<1>1. sjob.op \in FlashOps /\ UNCHANGED <<busHeld, gateHeld, spiCmds>>
  BY DEF Spi!FlashStep, FlashOps
<1>2. PICK rc \in Spi!XferResults :
         /\ Spi!Counted(rc) /\ mixed' = (mixed \/ frame)
         /\ \/ rc = "ok" /\ Spi!Went /\ chip' = Spi!Effect /\ UNCHANGED <<spiGw, frame, spi_armed_local, s_cs_held>>
            \/ /\ rc = "dead" /\ Spi!Flashed(FALSE) /\ chip' \in Spi!CutShort
               /\ UNCHANGED <<spiGw, frame, spi_armed_local, s_cs_held>>
            \/ rc = "reset" /\ Spi!Flashed(FALSE) /\ Spi!SessionEnded /\ UNCHANGED chip
  BY DEF Spi!FlashStep
<1>3. spiFaults' \in 0 .. MaxFaults  BY <1>0, <1>2 DEF Spi!Counted, Spi!XferResults
<1>4. /\ spi_armed_local \in BOOLEAN /\ busHeld = FALSE /\ gateHeld = FALSE /\ mixed = FALSE /\ frame = FALSE
      /\ s_cs_held = FALSE /\ (spiGw.armed => ~spiGw.cs) /\ (spiGw.armed => spi_armed_local)
  <2>1. sjob.op # "stream"  BY <1>1 DEF FlashOps
  <2> QED BY <1>0, <1>1, <2>1 DEF SpiTypes, SpiFrames
<1>5. mixed' = FALSE  BY <1>2, <1>4
<1>6. /\ SpiFlash' /\ JobOK(sjob') /\ chip' \in Chips /\ said'.op \in Spi!Ops \cup {"none"}
      /\ (sjob'.op = sjob.op \/ sjob' = Spi!Idle)
  <2>1. CASE rc = "ok" /\ Spi!Went /\ chip' = Spi!Effect
    BY <1>0, <1>1, <2>1, WentKeeps
  <2>2. CASE Spi!Flashed(FALSE) /\ chip' \in Spi!CutShort
    <3>1. chip' \in Chips  BY <1>0, <1>1, <2>2, CutKeeps
    <3> QED BY <1>0, <1>1, <2>2, <3>1, FlashEnds
  <2>3. CASE Spi!Flashed(FALSE) /\ UNCHANGED chip
    BY <1>0, <1>1, <2>3, FlashEnds
  <2> QED BY <1>2, <2>1, <2>2, <2>3
<1>7. /\ spiGw' \in [armed : BOOLEAN, cs : BOOLEAN] /\ spi_armed_local' \in BOOLEAN /\ s_cs_held' = FALSE
      /\ frame' = FALSE /\ (spiGw'.armed => spi_armed_local') /\ (spiGw'.armed => ~spiGw'.cs)
  <2>1. CASE UNCHANGED <<spiGw, frame, spi_armed_local, s_cs_held>>
    BY <1>0, <1>4, <2>1
  <2>2. CASE Spi!SessionEnded
    <3>1. /\ spiGw' = [armed |-> FALSE, cs |-> FALSE] /\ spi_armed_local' = FALSE /\ s_cs_held' = FALSE
          /\ frame' = FALSE
      BY <2>2 DEF Spi!SessionEnded
    <3>2. spiGw' \in [armed : BOOLEAN, cs : BOOLEAN] /\ ~spiGw'.armed  BY <3>1
    <3> QED BY <3>1, <3>2
  <2> QED BY <1>2, <2>1, <2>2
<1>8. SpiTypes'
  <2>1. /\ busHeld' \in BOOLEAN /\ gateHeld' \in BOOLEAN /\ mixed' \in BOOLEAN /\ s_cs_held' \in BOOLEAN
        /\ frame' \in BOOLEAN
    BY <1>1, <1>4, <1>5, <1>7
  <2>2. spiCmds' \in 0 .. MaxSpiCmds  BY <1>0, <1>1
  <2> QED BY <1>3, <1>6, <1>7, <2>1, <2>2 DEF SpiTypes
<1>9. SpiFrames'
  <2>1. sjob'.op \in FlashOps \cup {"idle"}  BY <1>1, <1>6 DEF Spi!Idle
  <2>2. sjob'.op \notin {"xfer", "stream"}  BY <2>1 DEF FlashOps
  <2>3. ~mixed' /\ ~busHeld' /\ ~gateHeld'  BY <1>1, <1>4, <1>5
  <2>4. (spiGw'.armed => s_cs_held' = spiGw'.cs) /\ (frame' => s_cs_held')  BY <1>7
  <2> QED BY <1>7, <2>2, <2>3, <2>4 DEF SpiFrames
<1> QED BY <1>6, <1>8, <1>9 DEF SpiInv

\* Every step of the worker, of the fabric and of the part.
LEMMA SpiKeeps == SpiInv /\ [Spi!Next]_spiVars => SpiInv'
<1> SUFFICES ASSUME SpiInv, [Spi!Next]_spiVars PROVE SpiInv'
  OBVIOUS
<1> USE FlashNumbers
<1>1. ASSUME NEW a \in Starts, NEW n \in Lens, Spi!Erase(a, n) PROVE SpiInv'
  <2> DEFINE j == [op |-> "erase", addr |-> a, len |-> n, at |-> Spi!Down(a, Sector), st |-> "wren", mem |-> chip.mem]
  <2>1. Spi!FlashBegin(j)  BY <1>1 DEF Spi!Erase
  <2>2. j.op \in FlashOps /\ j.len = n  BY DEF FlashOps
  <2>3. a \in Nat /\ n \in Nat /\ (n > 0 => Fresh(j))  BY FlashAsked DEF SpiInv
  <2> HIDE DEF j
  <2>4. Spi!RangeOK(j.addr, j.len) => Fresh(j)  BY <2>2, <2>3 DEF Spi!RangeOK
  <2> QED BY <2>1, <2>2, <2>4, FlashBegins
<1>2. ASSUME NEW a \in Starts, NEW n \in Lens, NEW d \in {0, 1}, Spi!Write(a, n, d) PROVE SpiInv'
  <2> DEFINE j == [op |-> "write", addr |-> a, len |-> n, data |-> d, at |-> a, st |-> "wren", mem |-> chip.mem]
  <2>1. Spi!FlashBegin(j)  BY <1>2 DEF Spi!Write
  <2>2. j.op \in FlashOps /\ j.len = n  BY DEF FlashOps
  <2>3. a \in Nat /\ n \in Nat /\ (n > 0 => Fresh(j))  BY FlashAsked DEF SpiInv
  <2> HIDE DEF j
  <2>4. Spi!RangeOK(j.addr, j.len) => Fresh(j)  BY <2>2, <2>3 DEF Spi!RangeOK
  <2> QED BY <2>1, <2>2, <2>4, FlashBegins
<1>3. ASSUME Spi!ChipErase PROVE SpiInv'
  <2> DEFINE j == [op |-> "chip_erase", addr |-> 0, len |-> Limit, at |-> 0, st |-> "wren", mem |-> chip.mem]
  <2>1. Spi!FlashBegin(j)  BY <1>3 DEF Spi!ChipErase
  <2>2. j.op \in FlashOps  BY DEF FlashOps
  <2>3. Fresh(j)
    <3>1. 0 \in Nat /\ 1 \in Nat /\ 1 > 0 /\ SpiTypes  BY DEF SpiInv
    <3> QED BY <3>1, FlashAsked
  <2> HIDE DEF j
  <2> QED BY <2>1, <2>2, <2>3, FlashBegins
<1>4. ASSUME NEW h \in BOOLEAN, NEW n \in 1 .. 2, Spi!XferBegin(h, n) \/ Spi!StreamBegin(h, n) PROVE SpiInv'
  BY <1>4, SpiSteps
<1>5. CASE Spi!Start \/ Spi!Stop \/ Spi!EngineResets \/ Spi!ChipReady
  BY <1>5, SpiSteps
<1>6. CASE Spi!XferChunk \/ Spi!StreamChunk
  BY <1>6, MovesEnd
<1>7. CASE Spi!FlashStep
  BY <1>7, FlashSteps
<1>8. CASE UNCHANGED spiVars
  <2>1. UNCHANGED <<spiGw, spi_armed_local, s_cs_held, chip, frame, sjob, said, busHeld, gateHeld, mixed, spiFaults,
                    spiCmds>>
    BY <1>8 DEF spiVars
  <2>2. SpiTypes' /\ SpiFrames'  BY <2>1 DEF SpiInv, SpiTypes, SpiFrames
  <2>3. SpiFlash'  BY <2>1, FlashRests DEF SpiInv
  <2> QED BY <2>2, <2>3 DEF SpiInv
<1> QED BY <1>1, <1>2, <1>3, <1>4, <1>5, <1>6, <1>7, <1>8 DEF Spi!Next

\* No session, no job, and a part of one content.
LEMMA SpiStarts == Spi!Init => SpiInv
<1> SUFFICES ASSUME Spi!Init PROVE SpiInv
  OBVIOUS
<1> USE FlashNumbers
<1>1. /\ spiGw = [armed |-> FALSE, cs |-> FALSE] /\ spi_armed_local = FALSE /\ s_cs_held = FALSE /\ frame = FALSE
      /\ busHeld = FALSE /\ gateHeld = FALSE /\ mixed = FALSE /\ spiFaults = 0 /\ spiCmds = 0
  BY DEF Spi!Init
<1>2. sjob = [op |-> "idle"] /\ said = [op |-> "none", ok |-> FALSE]
  BY DEF Spi!Init, Spi!Idle, Spi!NoReply
<1>3. sjob.op = "idle" /\ said.op = "none" /\ said.ok = FALSE /\ sjob.op \notin FlashOps
  BY <1>2 DEF FlashOps
<1>4. chip \in Chips
  <2>1. PICK v \in {0, 1} : chip \in [wel : {FALSE}, wip : {FALSE}, protected : BOOLEAN, mem : {[a \in Spi!Addr |-> v]}]
    BY DEF Spi!Init
  <2>2. [a \in Spi!Addr |-> v] \in Cells  BY DEF Cells
  <2> QED BY <2>1, <2>2 DEF Chips
<1>5. JobOK(sjob)  BY <1>2, <1>3 DEF JobOK, Spi!Ops, Spi!Idle
<1>6. SpiTypes
  <2>1. spiGw \in [armed : BOOLEAN, cs : BOOLEAN]  BY <1>1
  <2>2. said.op \in Spi!Ops \cup {"none"} /\ 0 \in 0 .. MaxFaults /\ 0 \in 0 .. MaxSpiCmds
    BY <1>3
  <2> QED BY <1>1, <1>4, <1>5, <2>1, <2>2 DEF SpiTypes
<1>7. SpiFrames
  <2>1. ~spiGw.armed  BY <1>1
  <2> QED BY <1>1, <1>3, <2>1 DEF SpiFrames
<1>8. SpiFlash
  BY <1>3 DEF SpiFlash, SpiPlace, SpiDone, Spi!FlashConfined, Spi!FlashTold, FlashOps
<1> QED BY <1>6, <1>7, <1>8 DEF SpiInv

\* The properties of the SPI master.
LEMMA SpiSays == SpiInv => Spi!TypeOK /\ Spi!FlashTold /\ Spi!FlashConfined /\ Spi!FramesApart
<1> SUFFICES ASSUME SpiInv PROVE Spi!TypeOK /\ Spi!FlashTold /\ Spi!FlashConfined /\ Spi!FramesApart
  OBVIOUS
<1>1. SpiTypes /\ SpiFrames /\ SpiFlash  BY DEF SpiInv
<1>2. Spi!TypeOK
  <2>1. chip.mem \in [Spi!Addr -> {0, 1}] /\ {chip.wel, chip.wip, chip.protected} \subseteq BOOLEAN
    BY <1>1 DEF SpiTypes, Chips, Cells
  <2>2. {spi_armed_local, s_cs_held, frame, busHeld, gateHeld, mixed} \subseteq BOOLEAN
    BY <1>1 DEF SpiTypes
  <2> QED BY <1>1, <2>1, <2>2 DEF SpiTypes, JobOK, Spi!TypeOK
<1>3. Spi!FramesApart
  <2>1. sjob = Spi!Idle => sjob.op = "idle"  BY DEF Spi!Idle
  <2> QED BY <1>1, <2>1 DEF SpiFrames, Spi!FramesApart
<1> QED BY <1>1, <1>2, <1>3 DEF SpiFlash

\* dap.c: an entry of the list, a transfer the request under way still needs, and what is answered.
Entries == [req : {"apr", "dpr", "rdbuff", "w"}, dst : 0 .. Words, cnt : 0 .. MaxReqs, rp : 0 .. Words]
Needs == [req : {"apr", "dpr", "rdbuff", "w"}, keep : BOOLEAN, ends : BOOLEAN]
Acks == {"ok", "fault", "noack", "perr", "wait"}
Outs == [0 .. Words - 1 -> Nat]
Loops == [cnt : 0 .. MaxReqs, rp : 0 .. Words, ack : Acks, wire : Nat, out : Outs]
Batches == [cnt : 0 .. MaxReqs, rp : 0 .. Words, ack : Acks, wire : Nat, out : Outs, curCnt : 0 .. MaxReqs,
            curRp : 0 .. Words, ops : Seq(Entries), ran : Nat, waits : 0 .. WaitRetry, failed : BOOLEAN]

\* The values the transfers still needed will add, and whether the last of them completes a request.
Adds(q) == (IF Len(q) >= 1 /\ q[1].keep THEN 1 ELSE 0) + (IF Len(q) = 2 /\ q[2].keep THEN 1 ELSE 0)
Ends(q) == IF Len(q) >= 1 /\ q[Len(q)].ends THEN 1 ELSE 0
Due == IF packet.post THEN 1 ELSE 0
Coming == IF packet.kind = "block" /\ packet.block # "w" THEN packet.left ELSE 0

DapTypes ==
    /\ plan \in [at : 0 .. 2 * MaxReqs, kind : {"fault", "noack", "perr", "wait"}, waits : 1 .. WaitRetry + 1]
    /\ packet \in [kind : {"none", "transfer", "block", "ended"}, block : {"apr", "dpr", "w"},
                   left : 0 .. MaxReqs, post : BOOLEAN]
    /\ todo \in Seq(Needs) /\ Len(todo) <= 2 /\ (Len(todo) = 2 => ~todo[1].ends)
    /\ one \in Loops /\ bt \in Batches
    /\ Len(bt.ops) <= RecMax /\ bt.ran <= Len(bt.ops)

\* The response has room for what is read, and the request under way is where the command stood.
DapRoom ==
    /\ packet.kind # "transfer" => ~packet.post
    /\ packet.kind = "none" => /\ packet.left = 0 /\ todo = <<>> /\ bt.ops = <<>> /\ bt.cnt = 0 /\ bt.rp = 0
                               /\ bt.curCnt = 0 /\ bt.curRp = 0
    /\ ~bt.failed => /\ bt.cnt + packet.left + Ends(todo) <= MaxReqs
                     /\ bt.rp + Adds(todo) + Due + Coming <= Words
                     /\ todo # <<>> => bt.curCnt = bt.cnt /\ bt.curRp = bt.rp

\* What a target of plan pl answers, and whether its n-th transfer will not go through however often it is tried.
Says(pl, n, req, w) ==
    IF n # pl.at \/ (pl.kind = "perr" /\ req \notin Probe!Reads) THEN "ok"
    ELSE IF pl.kind # "wait" THEN pl.kind ELSE IF w < pl.waits THEN "wait" ELSE "ok"
Lost(pl, n, req) == Says(pl, n, req, WaitRetry) # "ok"

\* dap.c: the one-by-one loop is k transfers ahead of the queue (o: the loop; b: the batch).  All of those go through;
\* the one behind them is not recorded yet or is lost, and the loop stopped there with what its entry says.
Ahead(pl, o, b, k) ==
    /\ o.wire = b.wire + k /\ \A j \in 1 .. k : ~Lost(pl, b.wire + j, b.ops[b.ran + j].req)
    /\ b.ran + k = Len(b.ops) => o.ack = "ok" /\ o.cnt = b.cnt /\ o.rp = b.rp
    /\ b.ran + k # Len(b.ops) => LET e == b.ops[b.ran + k + 1]
                                 IN  /\ Lost(pl, o.wire + 1, e.req) /\ o.ack = Says(pl, o.wire + 1, e.req, WaitRetry)
                                     /\ o.cnt = e.cnt /\ o.rp = e.rp
    /\ \A j \in 1 .. k : b.ops[b.ran + j].dst # Words => o.out[b.ops[b.ran + j].dst] = b.wire + j
    /\ \A p \in 0 .. Words - 1 : (\A j \in 1 .. k : b.ops[b.ran + j].dst # p) => o.out[p] = b.out[p]

\* The recorded reads go to places of their own, behind one another.
Apart(b) ==
    /\ \A i \in 1 .. Len(b.ops) : b.ops[i].dst = Words \/ b.ops[i].dst < b.rp
    /\ \A i, j \in 1 .. Len(b.ops) : i < j /\ b.ops[i].dst = b.ops[j].dst => b.ops[i].dst = Words

DapMatch ==
    IF bt.failed THEN /\ one.ack # "ok" /\ one.ack = bt.ack /\ one.cnt = bt.cnt /\ one.rp = bt.rp
                      /\ one.wire = bt.wire /\ one.out = bt.out
    ELSE /\ bt.ack = "ok" /\ Apart(bt) /\ \E k \in 0 .. Len(bt.ops) - bt.ran : Ahead(plan, one, bt, k)

DapInv == DapTypes /\ DapRoom /\ DapMatch

\* The target's answer.
LEMMA AnswerIs == \A n, req, w : Probe!Answer(n, req, w) = Says(plan, n, req, w)
  BY DEF Probe!Answer, Says

\* The numbers of the probe's lists.
LEMMA ProbeNumbers ==
    /\ RecMax \in Nat \ {0} /\ QBytes \in Nat \ {0} /\ QReads \in Nat \ {0} /\ Words \in Nat \ {0}
    /\ MaxReqs \in Nat \ {0} /\ WaitRetry \in Nat
  BY Assumptions DEF Probe!ConstantsOK

\* The counting of the module the probe is an instance of.
LEMMA ProbeCounts == \A S : Probe!Cardinality(S) = Cardinality(S)
  BY DEF Cardinality, Probe!Cardinality

\* The least of a set of numbers, and the greatest of a bounded one.
LEMMA LeastIs ==
    ASSUME NEW T, T \subseteq Nat, T # {}
    PROVE  Probe!Min(T) \in T /\ \A x \in T : Probe!Min(T) <= x
<1>1. \E x \in T : \A y \in T : x <= y  BY LeastNat
<1> QED BY <1>1, Zenon DEF Probe!Min

\* Likewise upwards.
LEMMA GreatestIs ==
    ASSUME NEW n \in Nat, NEW T, T \subseteq 0 .. n, T # {}
    PROVE  Probe!Max(T) \in T
<1> DEFINE D == {n - x : x \in T}
<1>1. D \subseteq Nat /\ D # {}
  <2>1. \A x \in T : n - x \in Nat  OBVIOUS
  <2> QED BY <2>1
<1>2. PICK d \in D : \A e \in D : d <= e
  BY <1>1, LeastNat
<1>3. PICK x \in T : d = n - x
  BY <1>2
<1>4. \A y \in T : x >= y
  <2> TAKE y \in T
  <2>1. n - y \in D /\ x \in 0 .. n /\ y \in 0 .. n  OBVIOUS
  <2>2. d <= n - y  BY <1>2, <2>1
  <2> QED BY <1>3, <2>1, <2>2
<1> QED BY <1>3, <1>4, Zenon DEF Probe!Max

\* The reads, and the writes, before a place.
LEMMA PartsGrow ==
    ASSUME NEW ops, NEW j \in Nat \ {0}, NEW m \in Nat, j < m
    PROVE  /\ Probe!Off(ops, j) \in Nat /\ Probe!Off(ops, m) \in Nat /\ Probe!Off(ops, j) < Probe!Off(ops, m)
<1> DEFINE R(n) == {i \in 1 .. n - 1 : ops[i].req \in Probe!Reads}
           W(n) == {i \in 1 .. n - 1 : ops[i].req \notin Probe!Reads}
<1>1. ASSUME NEW n \in Nat
      PROVE  /\ IsFiniteSet(R(n)) /\ IsFiniteSet(W(n)) /\ Cardinality(R(n)) \in Nat /\ Cardinality(W(n)) \in Nat
  <2>1. IsFiniteSet(1 .. n - 1) /\ R(n) \subseteq 1 .. n - 1 /\ W(n) \subseteq 1 .. n - 1
    BY FS_Interval
  <2>2. IsFiniteSet(R(n)) /\ IsFiniteSet(W(n))  BY <2>1, FS_Subset
  <2> QED BY <2>2, FS_CardinalityType
<1>2. /\ R(j) \subseteq R(m) /\ W(j) \subseteq W(m)  OBVIOUS
<1>3. j \in 1 .. m - 1 /\ j \notin 1 .. j - 1  OBVIOUS
<1> HIDE DEF R, W
<1>4. Cardinality(R(j)) <= Cardinality(R(m)) /\ Cardinality(W(j)) <= Cardinality(W(m))
  BY <1>1, <1>2, FS_Subset
<1>5. Cardinality(R(j)) < Cardinality(R(m)) \/ Cardinality(W(j)) < Cardinality(W(m))
  <2>1. CASE ops[j].req \in Probe!Reads
    <3>1. R(j) \cup {j} \subseteq R(m) /\ j \notin R(j)  BY <1>2, <1>3, <2>1 DEF R
    <3>2. IsFiniteSet(R(j) \cup {j}) /\ Cardinality(R(j) \cup {j}) = Cardinality(R(j)) + 1
      BY <1>1, <3>1, FS_AddElement
    <3>3. Cardinality(R(j) \cup {j}) <= Cardinality(R(m))  BY <1>1, <3>1, FS_Subset
    <3> QED BY <1>1, <3>2, <3>3
  <2>2. CASE ops[j].req \notin Probe!Reads
    <3>1. W(j) \cup {j} \subseteq W(m) /\ j \notin W(j)  BY <1>2, <1>3, <2>2 DEF W
    <3>2. IsFiniteSet(W(j) \cup {j}) /\ Cardinality(W(j) \cup {j}) = Cardinality(W(j)) + 1
      BY <1>1, <3>1, FS_AddElement
    <3>3. Cardinality(W(j) \cup {j}) <= Cardinality(W(m))  BY <1>1, <3>1, FS_Subset
    <3> QED BY <1>1, <3>2, <3>3
  <2> QED BY <2>1, <2>2
<1>6. Probe!Off(ops, j) = Cardinality(R(j)) + 5 * Cardinality(W(j))
  BY ProbeCounts DEF Probe!Off, R, W
<1>7. Probe!Off(ops, m) = Cardinality(R(m)) + 5 * Cardinality(W(m))
  BY ProbeCounts DEF Probe!Off, R, W
<1>8. /\ Cardinality(R(j)) \in Nat /\ Cardinality(W(j)) \in Nat /\ Cardinality(R(m)) \in Nat
      /\ Cardinality(W(m)) \in Nat
  BY <1>1
<1> QED BY <1>4, <1>5, <1>6, <1>7, <1>8

\* swd_ll_batch: nothing comes before the first transfer.
LEMMA NothingBefore ==
    ASSUME NEW ops
    PROVE  Probe!Off(ops, 1) = 0
<1>1. {i \in 1 .. 1 - 1 : ops[i].req \in Probe!Reads} = {} /\ {i \in 1 .. 1 - 1 : ops[i].req \notin Probe!Reads} = {}
  OBVIOUS
<1> QED BY <1>1, ProbeCounts, FS_EmptySet DEF Probe!Off

\* swd_ll_batch: from the bytes the queue took, the transfers before the one that stopped it.
LEMMA DoneIsBefore ==
    ASSUME NEW ops \in Seq(Entries), NEW m \in 1 .. Len(ops)
    PROVE  Probe!DoneOps(ops, Probe!Off(ops, m) + 1) = m - 1
<1> DEFINE S == {j \in 1 .. Len(ops) : Probe!Off(ops, j) + 1 < Probe!Off(ops, m) + 1}
<1>1. m \in Nat /\ Len(ops) \in Nat  OBVIOUS
<1>2. ASSUME NEW j \in 1 .. Len(ops) PROVE j \in S <=> j < m
  <2>1. j \in Nat \ {0} /\ m \in Nat \ {0}  OBVIOUS
  <2>2. CASE j < m
    <3>1. /\ Probe!Off(ops, j) \in Nat /\ Probe!Off(ops, m) \in Nat /\ Probe!Off(ops, j) < Probe!Off(ops, m)
      BY <2>1, <2>2, PartsGrow
    <3> QED BY <2>2, <3>1
  <2>3. CASE m < j
    <3>1. /\ Probe!Off(ops, j) \in Nat /\ Probe!Off(ops, m) \in Nat /\ Probe!Off(ops, m) < Probe!Off(ops, j)
      BY <2>1, <2>3, PartsGrow
    <3> QED BY <2>1, <2>3, <3>1
  <2>4. CASE j = m
    <3>1. Probe!Off(ops, m) \in Nat
      <4>1. m < m + 1 /\ m + 1 \in Nat  BY <2>1
      <4> QED BY <2>1, <4>1, PartsGrow
    <3> QED BY <2>1, <2>4, <3>1
  <2> QED BY <2>1, <2>2, <2>3, <2>4
<1>3. S = 1 .. m - 1
  <2>1. S \subseteq 1 .. Len(ops)  OBVIOUS
  <2> HIDE DEF S
  <2>2. \A j \in S : j \in 1 .. m - 1  BY <1>1, <1>2, <2>1
  <2>3. \A j \in 1 .. m - 1 : j \in S  BY <1>1, <1>2
  <2> QED BY <2>2, <2>3
<1>4. Probe!DoneOps(ops, Probe!Off(ops, m) + 1) = Cardinality(S)
  BY ProbeCounts DEF Probe!DoneOps
<1> HIDE DEF S
<1>5. Cardinality(1 .. m - 1) = m - 1
  <2>1. 1 \in Int /\ m - 1 \in Int  BY <1>1
  <2>2. Cardinality(1 .. m - 1) = IF 1 > m - 1 THEN 0 ELSE m - 1 - 1 + 1  BY <2>1, FS_Interval
  <2> QED BY <1>1, <2>2
<1> QED BY <1>3, <1>4, <1>5

\* rec_flush: one run of the queue takes a first part of what is left, perhaps none.
LEMMA ChunkIs ==
    ASSUME bt.ops \in Seq(Entries), bt.ran \in Nat, bt.ran <= Len(bt.ops)
    PROVE  \E c \in 0 .. Len(bt.ops) - bt.ran :
              /\ Probe!Chunk \in Seq(Entries) /\ Len(Probe!Chunk) = c
              /\ \A j \in 1 .. c : Probe!Chunk[j] = bt.ops[bt.ran + j]
<1> USE ProbeNumbers
<1> DEFINE rest == Probe!Rest
           T == {c \in 0 .. Len(rest) : /\ Probe!Off(rest, c + 1) <= QBytes
                                        /\ Probe!ReadsIn(SubSeq(rest, 1, c)) <= QReads}
           c == Probe!Max(T)
<1>0. Len(bt.ops) \in Nat  OBVIOUS
<1>1. /\ rest \in Seq(Entries) /\ Len(rest) = Len(bt.ops) - bt.ran
      /\ \A j \in 1 .. Len(bt.ops) - bt.ran : rest[j] = bt.ops[bt.ran + j]
  <2>1. rest = SubSeq(bt.ops, bt.ran + 1, Len(bt.ops))  BY DEF Probe!Rest
  <2> DEFINE ops == bt.ops
             r == bt.ran
  <2>2. ops \in Seq(Entries) /\ r \in Nat /\ r <= Len(ops) /\ Len(ops) \in Nat  BY <1>0
  <2> HIDE DEF ops, r, rest
  <2>3. /\ SubSeq(ops, r + 1, Len(ops)) \in Seq(Entries) /\ Len(SubSeq(ops, r + 1, Len(ops))) = Len(ops) - r
        /\ \A j \in 1 .. Len(ops) - r : SubSeq(ops, r + 1, Len(ops))[j] = ops[r + j]
    <3>1. \A i \in r + 1 .. Len(ops) : ops[i] \in Entries  BY <2>2
    <3>2. SubSeq(ops, r + 1, Len(ops)) = [i \in 1 .. Len(ops) - r |-> ops[i + r]]  BY <2>2
    <3> QED BY <2>2, <3>1, <3>2
  <2> QED BY <2>1, <2>3 DEF ops, r
<1>2. Probe!Chunk = SubSeq(rest, 1, c)  BY DEF Probe!Chunk
<1> HIDE DEF rest, c
<1>3. 0 \in T
  <2>1. Probe!Off(rest, 0 + 1) = 0  BY NothingBefore
  <2>2. SubSeq(rest, 1, 0) = <<>>  BY <1>1
  <2>3. Probe!ReadsIn(<<>>) = 0
    <3>1. {i \in 1 .. Len(<<>>) : <<>>[i].req \in Probe!Reads} = {}  OBVIOUS
    <3> QED BY <3>1, ProbeCounts, FS_EmptySet DEF Probe!ReadsIn
  <2>4. 0 \in 0 .. Len(rest)  BY <1>0, <1>1
  <2>5. 0 <= QBytes /\ 0 <= QReads  OBVIOUS
  <2>6. Probe!ReadsIn(SubSeq(rest, 1, 0)) = 0  BY <2>2, <2>3, Zenon
  <2>7. Probe!Off(rest, 0 + 1) <= QBytes /\ Probe!ReadsIn(SubSeq(rest, 1, 0)) <= QReads
    BY <2>1, <2>5, <2>6, Zenon
  <2> QED BY <2>4, <2>7
<1>4. T \subseteq 0 .. Len(rest) /\ Len(rest) \in Nat  BY <1>0, <1>1
<1>5. c \in T
  <2> HIDE DEF T
  <2>1. T # {}  BY <1>3
  <2> QED BY <1>4, <2>1, GreatestIs DEF c
<1>6. c \in 0 .. Len(bt.ops) - bt.ran  BY <1>1, <1>4, <1>5
<1>7. /\ SubSeq(rest, 1, c) \in Seq(Entries) /\ Len(SubSeq(rest, 1, c)) = c
      /\ \A j \in 1 .. c : SubSeq(rest, 1, c)[j] = rest[j]
  BY <1>0, <1>1, <1>6
<1>8. \A j \in 1 .. c : rest[j] = bt.ops[bt.ran + j]  BY <1>0, <1>1, <1>6
<1> QED BY <1>2, <1>6, <1>7, <1>8

\* The first of the transfers a request needs, and the others.
LEMMA NeedsShrink ==
    ASSUME NEW q \in Seq(Needs), Len(q) <= 2, q # <<>>, Len(q) = 2 => ~q[1].ends
    PROVE  /\ Head(q) \in Needs /\ Tail(q) \in Seq(Needs) /\ Len(Tail(q)) <= 1
           /\ Adds(q) = (IF Head(q).keep THEN 1 ELSE 0) + Adds(Tail(q))
           /\ Ends(q) = (IF Head(q).ends THEN 1 ELSE 0) + Ends(Tail(q))
           /\ Tail(q) # <<>> => ~Head(q).ends
           /\ Adds(Tail(q)) \in Nat /\ Ends(Tail(q)) \in Nat
<1>0. Len(q) \in Nat /\ Len(q) # 0
  <2>1. Len(q) = 0 => q = <<>>  OBVIOUS
  <2> QED BY <2>1
<1>1. Len(q) \in {1, 2} /\ Head(q) = q[1] /\ q[1] \in Needs
  <2>1. Len(q) \in {1, 2}
    <3>1. \A n \in Nat : n # 0 /\ n <= 2 => n \in {1, 2}  OBVIOUS
    <3> QED BY <1>0, <3>1, Zenon
  <2>2. 1 \in 1 .. Len(q)  BY <1>0
  <2> QED BY <2>1, <2>2
<1>2. Tail(q) \in Seq(Needs) /\ Len(Tail(q)) = Len(q) - 1 /\ \A i \in 1 .. Len(q) - 1 : Tail(q)[i] = q[i + 1]
  BY <1>0
<1> DEFINE h == q[1]
           t == Tail(q)
<1>3. CASE Len(q) = 1
  <2>1. t \in Seq(Needs) /\ Len(t) = 0  BY <1>2, <1>3
  <2> HIDE DEF t, h
  <2>2. t = <<>>  BY <2>1
  <2>3. Adds(t) = 0 /\ Ends(t) = 0  BY <2>1 DEF Adds, Ends
  <2>4. Adds(q) = (IF h.keep THEN 1 ELSE 0)  BY <1>3 DEF Adds, h
  <2>5. Ends(q) = (IF h.ends THEN 1 ELSE 0)  BY <1>3 DEF Ends, h
  <2>6. h \in Needs /\ Head(q) = h /\ Tail(q) = t  BY <1>1 DEF h, t
  <2>7. /\ Adds(q) = (IF h.keep THEN 1 ELSE 0) + Adds(t) /\ Ends(q) = (IF h.ends THEN 1 ELSE 0) + Ends(t)
        /\ (t # <<>> => ~h.ends) /\ Adds(t) \in Nat /\ Ends(t) \in Nat /\ Len(t) <= 1
    BY <2>1, <2>2, <2>3, <2>4, <2>5
  <2> QED BY <2>1, <2>6, <2>7, Zenon
<1>4. CASE Len(q) = 2
  <2> DEFINE g == q[2]
  <2>1. Len(t) = 1 /\ t[1] = q[2] /\ q[2] \in Needs
    <3>1. 1 \in 1 .. Len(q) - 1 /\ 2 \in 1 .. Len(q) /\ 1 + 1 = 2  BY <1>4
    <3>2. Len(t) = 1  BY <1>2, <1>4
    <3>3. t[1] = q[2]  BY <1>2, <3>1
    <3>4. q[2] \in Needs  BY <3>1
    <3> QED BY <3>2, <3>3, <3>4
  <2>2. ~h.ends  BY <1>4
  <2> HIDE DEF t, h
  <2>3. Adds(t) = (IF g.keep THEN 1 ELSE 0)  BY <2>1 DEF Adds
  <2>4. Ends(t) = (IF g.ends THEN 1 ELSE 0)  BY <2>1 DEF Ends
  <2>5. Adds(q) = (IF h.keep THEN 1 ELSE 0) + (IF g.keep THEN 1 ELSE 0)  BY <1>4 DEF Adds, h
  <2>6. Ends(q) = (IF g.ends THEN 1 ELSE 0)  BY <1>4 DEF Ends
  <2>7. h \in Needs /\ Head(q) = h /\ Tail(q) = t /\ t \in Seq(Needs)  BY <1>1, <1>2 DEF h, t
  <2> HIDE DEF g
  <2>8. /\ Adds(q) = (IF h.keep THEN 1 ELSE 0) + Adds(t) /\ Ends(q) = (IF h.ends THEN 1 ELSE 0) + Ends(t)
        /\ (t # <<>> => ~h.ends) /\ Adds(t) \in Nat /\ Ends(t) \in Nat /\ Len(t) <= 1
    BY <2>1, <2>2, <2>3, <2>4, <2>5, <2>6
  <2> QED BY <2>7, <2>8, Zenon
<1> QED BY <1>1, <1>3, <1>4

\* xfer while recording, field by field.
LEMMA RecordIs ==
    ASSUME bt \in Batches, ~bt.failed, NEW o \in Needs, bt' = Probe!Record(o)
    PROVE  LET e == [req |-> o.req, dst |-> IF o.keep THEN bt.rp ELSE Words, cnt |-> bt.curCnt, rp |-> bt.curRp]
           IN  /\ bt'.ops = Append(bt.ops, e) /\ bt'.cnt = (IF o.ends THEN bt.cnt + 1 ELSE bt.cnt)
               /\ bt'.rp = (IF o.keep THEN bt.rp + 1 ELSE bt.rp) /\ bt'.curRp = (IF o.keep THEN bt.rp + 1 ELSE bt.curRp)
               /\ bt'.curCnt = bt.curCnt /\ bt'.ack = bt.ack /\ bt'.wire = bt.wire /\ bt'.out = bt.out
               /\ bt'.ran = bt.ran /\ bt'.waits = bt.waits /\ bt'.failed = FALSE
               /\ bt' = [cnt |-> bt'.cnt, rp |-> bt'.rp, ack |-> bt'.ack, wire |-> bt'.wire, out |-> bt'.out,
                         curCnt |-> bt'.curCnt, curRp |-> bt'.curRp, ops |-> bt'.ops, ran |-> bt'.ran,
                         waits |-> bt'.waits, failed |-> bt'.failed]
<1> DEFINE e == [req |-> o.req, dst |-> IF o.keep THEN bt.rp ELSE Words, cnt |-> bt.curCnt, rp |-> bt.curRp]
           c == IF o.ends THEN bt.cnt + 1 ELSE bt.cnt
           b == [bt EXCEPT !.ops = Append(@, e), !.cnt = c]
<1>1. bt' = Probe!Store(b, o)
  <2>1. b = [bt EXCEPT !.ops = Append(@, e), !.cnt = IF o.ends THEN @ + 1 ELSE @]
    BY DEF Batches
  <2> QED BY <2>1 DEF Probe!Record, Probe!NoWhere
<1> HIDE DEF e, c
<1>2. /\ b.ops = Append(bt.ops, e) /\ b.cnt = c /\ b.rp = bt.rp /\ b.curRp = bt.curRp /\ b.curCnt = bt.curCnt
      /\ b.ack = bt.ack /\ b.wire = bt.wire /\ b.out = bt.out /\ b.ran = bt.ran /\ b.waits = bt.waits
      /\ b.failed = bt.failed
      /\ b = [cnt |-> b.cnt, rp |-> b.rp, ack |-> b.ack, wire |-> b.wire, out |-> b.out, curCnt |-> b.curCnt,
              curRp |-> b.curRp, ops |-> b.ops, ran |-> b.ran, waits |-> b.waits, failed |-> b.failed]
  <2> DEFINE es == Append(bt.ops, e)
  <2>1. b = [bt EXCEPT !.ops = es, !.cnt = c]  OBVIOUS
  <2>2. bt = [cnt |-> bt.cnt, rp |-> bt.rp, ack |-> bt.ack, wire |-> bt.wire, out |-> bt.out, curCnt |-> bt.curCnt,
              curRp |-> bt.curRp, ops |-> bt.ops, ran |-> bt.ran, waits |-> bt.waits, failed |-> bt.failed]
    BY DEF Batches
  <2> HIDE DEF es, b
  <2>3. b = [cnt |-> c, rp |-> bt.rp, ack |-> bt.ack, wire |-> bt.wire, out |-> bt.out, curCnt |-> bt.curCnt,
             curRp |-> bt.curRp, ops |-> es, ran |-> bt.ran, waits |-> bt.waits, failed |-> bt.failed]
    BY <2>1, <2>2
  <2> QED BY <2>3 DEF es
<1>3. bt.failed = FALSE  BY DEF Batches
<1> HIDE DEF b
<1>4. CASE o.keep
  <2>1. bt' = [b EXCEPT !.rp = @ + 1, !.curRp = b.rp + 1]  BY <1>1, <1>4 DEF Probe!Store
  <2>2. /\ bt'.ops = b.ops /\ bt'.cnt = b.cnt /\ bt'.rp = b.rp + 1 /\ bt'.curRp = b.rp + 1 /\ bt'.curCnt = b.curCnt
        /\ bt'.ack = b.ack /\ bt'.wire = b.wire /\ bt'.out = b.out /\ bt'.ran = b.ran /\ bt'.waits = b.waits
        /\ bt'.failed = b.failed
        /\ bt' = [cnt |-> bt'.cnt, rp |-> bt'.rp, ack |-> bt'.ack, wire |-> bt'.wire, out |-> bt'.out,
                  curCnt |-> bt'.curCnt, curRp |-> bt'.curRp, ops |-> bt'.ops, ran |-> bt'.ran,
                  waits |-> bt'.waits, failed |-> bt'.failed]
    BY <1>2, <2>1
  <2> QED BY <1>2, <1>3, <1>4, <2>2 DEF e, c
<1>5. CASE ~o.keep
  <2>1. bt' = b  BY <1>1, <1>5 DEF Probe!Store
  <2> QED BY <1>2, <1>3, <1>5, <2>1 DEF e, c
<1> QED BY <1>4, <1>5

\* xfer one by one, field by field.
LEMMA TransferIs ==
    ASSUME plan.kind \in Acks, one \in Loops, NEW o \in Needs, one' = Probe!Transfer(o), o.keep => one.rp < Words,
           o.ends => one.cnt < MaxReqs
    PROVE  /\ one' \in Loops
           /\ one.ack # "ok" => one' = one
           /\ one.ack = "ok" /\ Lost(plan, one.wire + 1, o.req) =>
                 /\ one'.ack = Says(plan, one.wire + 1, o.req, WaitRetry) /\ one'.cnt = one.cnt /\ one'.rp = one.rp
                 /\ one'.wire = one.wire /\ one'.out = one.out
           /\ one.ack = "ok" /\ ~Lost(plan, one.wire + 1, o.req) =>
                 /\ one'.ack = "ok" /\ one'.cnt = (IF o.ends THEN one.cnt + 1 ELSE one.cnt)
                 /\ one'.rp = (IF o.keep THEN one.rp + 1 ELSE one.rp) /\ one'.wire = one.wire + 1
                 /\ \A p \in 0 .. Words - 1 :
                       one'.out[p] = IF o.keep /\ p = one.rp THEN one.wire + 1 ELSE one.out[p]
<1> USE ProbeNumbers
<1> DEFINE n == one.wire + 1
           a == Says(plan, n, o.req, WaitRetry)
<1>1. CASE one.ack # "ok"
  <2>1. one' = one  BY <1>1 DEF Probe!Transfer
  <2> QED BY <1>1, <2>1
<1>2. CASE one.ack = "ok" /\ Lost(plan, n, o.req)
  <2>1. one' = [one EXCEPT !.ack = a]  BY <1>2, AnswerIs DEF Probe!Transfer, Lost
  <2>2. a \in Acks
    <3>1. a \in {"ok", "wait", plan.kind}  BY DEF Says
    <3> QED BY <3>1 DEF Acks
  <2> HIDE DEF a, n
  <2>3. /\ one'.ack = a /\ one'.cnt = one.cnt /\ one'.rp = one.rp /\ one'.wire = one.wire /\ one'.out = one.out
        /\ one' \in Loops
    BY <2>1, <2>2 DEF Loops
  <2> QED BY <1>2, <2>3 DEF a, n
<1>3. CASE one.ack = "ok" /\ ~Lost(plan, n, o.req)
  <2> DEFINE c == IF o.ends THEN one.cnt + 1 ELSE one.cnt
             r == IF o.keep THEN one.rp + 1 ELSE one.rp
             t == IF o.keep THEN [one.out EXCEPT ![one.rp] = n] ELSE one.out
  <2>1. one' = [one EXCEPT !.wire = n, !.cnt = c, !.rp = r, !.out = t]
    <3>1. one' = [one EXCEPT !.wire = n, !.cnt = IF o.ends THEN @ + 1 ELSE @, !.rp = IF o.keep THEN @ + 1 ELSE @,
                         !.out = IF o.keep THEN [@ EXCEPT ![one.rp] = n] ELSE @]
      BY <1>3, AnswerIs DEF Probe!Transfer, Lost
    <3> QED BY <3>1 DEF Loops
  <2>2. n \in Nat /\ c \in 0 .. MaxReqs /\ r \in 0 .. Words /\ one.out \in Outs  BY DEF Loops
  <2>3. /\ t \in Outs
        /\ \A p \in 0 .. Words - 1 : t[p] = IF o.keep /\ p = one.rp THEN n ELSE one.out[p]
    <3>1. o.keep => one.rp \in 0 .. Words - 1  BY DEF Loops
    <3> HIDE DEF n
    <3> QED BY <2>2, <3>1 DEF Outs
  <2> HIDE DEF c, r, t, n
  <2>4. /\ one'.ack = one.ack /\ one'.cnt = c /\ one'.rp = r /\ one'.wire = n /\ one'.out = t /\ one' \in Loops
    BY <2>1, <2>2, <2>3 DEF Loops
  <2> QED BY <1>3, <2>3, <2>4 DEF c, r, n
<1> QED BY <1>1, <1>2, <1>3

\* A transfer is made by the one, recorded by the other.
LEMMA IssueKeeps ==
    ASSUME DapInv, Probe!Issue
    PROVE  DapInv'
<1> USE ProbeNumbers
<1> DEFINE o == Head(todo)
<1>0. DapTypes /\ DapRoom /\ DapMatch  BY DEF DapInv
<1>1. /\ todo # <<>> /\ ~(Len(bt.ops) = RecMax /\ ~bt.failed) /\ one' = Probe!Transfer(o) /\ bt' = Probe!Record(o)
      /\ todo' = Tail(todo) /\ UNCHANGED <<plan, packet>>
  BY DEF Probe!Issue, Probe!ListFull
<1>2. /\ o \in Needs /\ Tail(todo) \in Seq(Needs) /\ Len(Tail(todo)) <= 1
      /\ Adds(todo) = (IF o.keep THEN 1 ELSE 0) + Adds(Tail(todo))
      /\ Ends(todo) = (IF o.ends THEN 1 ELSE 0) + Ends(Tail(todo))
      /\ (Tail(todo) # <<>> => ~o.ends) /\ Adds(Tail(todo)) \in Nat /\ Ends(Tail(todo)) \in Nat
  BY <1>0, <1>1, NeedsShrink DEF DapTypes
<1>3. one \in Loops /\ bt \in Batches /\ plan.kind \in Acks  BY <1>0 DEF DapTypes, Acks
<1>4. packet.kind # "none"  BY <1>0, <1>1 DEF DapRoom
<1> HIDE DEF o
<1>5. /\ todo' \in Seq(Needs) /\ Len(todo') <= 2 /\ (Len(todo') = 2 => ~todo'[1].ends)
  <2>1. Len(todo') \in Nat /\ Len(todo') <= 1  BY <1>1, <1>2
  <2>2. Len(todo') # 2  BY <2>1
  <2> QED BY <1>1, <1>2, <2>1, <2>2
<1>6. CASE bt.failed
  <2>1. bt' = bt  BY <1>1, <1>6 DEF Probe!Record
  <2>2. one.ack # "ok"  BY <1>0, <1>6 DEF DapMatch
  <2>3. one' = one  BY <1>1, <2>2 DEF Probe!Transfer
  <2>4. DapTypes'  BY <1>0, <1>1, <1>5, <2>1, <2>3 DEF DapTypes
  <2>5. DapRoom'  BY <1>0, <1>1, <1>4, <1>6, <2>1 DEF DapRoom
  <2>6. DapMatch'  BY <1>0, <1>6, <2>1, <2>3 DEF DapMatch
  <2> QED BY <2>4, <2>5, <2>6 DEF DapInv
<1>7. CASE ~bt.failed
  <2> DEFINE e == [req |-> o.req, dst |-> IF o.keep THEN bt.rp ELSE Words, cnt |-> bt.curCnt, rp |-> bt.curRp]
             n == Len(bt.ops)
             r == bt.ran
  <2>1. /\ bt'.ops = Append(bt.ops, e) /\ bt'.cnt = (IF o.ends THEN bt.cnt + 1 ELSE bt.cnt)
        /\ bt'.rp = (IF o.keep THEN bt.rp + 1 ELSE bt.rp) /\ bt'.curRp = (IF o.keep THEN bt.rp + 1 ELSE bt.curRp)
        /\ bt'.curCnt = bt.curCnt /\ bt'.ack = bt.ack /\ bt'.wire = bt.wire /\ bt'.out = bt.out
        /\ bt'.ran = bt.ran /\ bt'.waits = bt.waits /\ bt'.failed = FALSE
        /\ bt' = [cnt |-> bt'.cnt, rp |-> bt'.rp, ack |-> bt'.ack, wire |-> bt'.wire, out |-> bt'.out,
                  curCnt |-> bt'.curCnt, curRp |-> bt'.curRp, ops |-> bt'.ops, ran |-> bt'.ran,
                  waits |-> bt'.waits, failed |-> bt'.failed]
    BY <1>1, <1>2, <1>3, <1>7, RecordIs
  <2>2. /\ bt.cnt \in 0 .. MaxReqs /\ bt.rp \in 0 .. Words /\ bt.curCnt = bt.cnt /\ bt.curRp = bt.rp
        /\ bt.wire \in Nat /\ bt.ops \in Seq(Entries) /\ n \in Nat /\ n <= RecMax /\ r \in Nat /\ r <= n /\ n < RecMax
    <3>1. bt.curCnt = bt.cnt /\ bt.curRp = bt.rp  BY <1>0, <1>1, <1>7 DEF DapRoom
    <3>2. n \in Nat /\ n <= RecMax /\ n # RecMax /\ r <= n
      BY <1>0, <1>1, <1>3, <1>7 DEF DapTypes, Batches
    <3> QED BY <1>3, <3>1, <3>2 DEF Batches
  <2>3. /\ bt.cnt + packet.left + Ends(todo) <= MaxReqs /\ bt.rp + Adds(todo) + Due + Coming <= Words
        /\ packet.left \in Nat /\ Due \in Nat /\ Coming \in Nat
    BY <1>0, <1>7 DEF DapRoom, DapTypes, Due, Coming
  <2> DEFINE ka == IF o.keep THEN 1 ELSE 0
             ea == IF o.ends THEN 1 ELSE 0
             rest == Adds(Tail(todo))
             close == Ends(Tail(todo))
  <2>30. ka \in {0, 1} /\ ea \in {0, 1} /\ rest \in Nat /\ close \in Nat /\ (o.keep => ka = 1) /\ (o.ends => ea = 1)
    BY <1>2
  <2>31. /\ bt'.cnt = bt.cnt + ea /\ bt'.rp = bt.rp + ka /\ bt.cnt + packet.left + (ea + close) <= MaxReqs
         /\ bt.rp + (ka + rest) + Due + Coming <= Words
    <3>1. bt'.cnt = bt.cnt + ea /\ bt'.rp = bt.rp + ka  BY <2>1, <2>2
    <3>2. bt.cnt + packet.left + (ea + close) <= MaxReqs  BY <1>2, <2>3, Zenon
    <3>3. bt.rp + (ka + rest) + Due + Coming <= Words  BY <1>2, <2>3, Zenon
    <3> QED BY <3>1, <3>2, <3>3
  <2> HIDE DEF ka, ea, rest, close
  <2>32. /\ bt.cnt \in Nat /\ bt.rp \in Nat /\ bt.cnt + ea <= MaxReqs /\ bt.rp + ka <= Words
         /\ (bt.cnt + ea) + packet.left + close <= MaxReqs /\ (bt.rp + ka) + rest + Due + Coming <= Words
    <3>1. bt.cnt \in Nat /\ bt.rp \in Nat /\ ea \in Nat /\ ka \in Nat  BY <2>2, <2>30
    <3>2. \A a, b, c, d \in Nat, m \in Nat : a + b + (c + d) <= m => a + c <= m /\ (a + c) + b + d <= m
      OBVIOUS
    <3>3. \A a, b, c, d, f \in Nat, m \in Nat :
              a + (b + c) + d + f <= m => a + b <= m /\ (a + b) + c + d + f <= m
      OBVIOUS
    <3>4. MaxReqs \in Nat /\ Words \in Nat  OBVIOUS
    <3>5. bt.cnt + ea <= MaxReqs /\ (bt.cnt + ea) + packet.left + close <= MaxReqs
      BY <2>3, <2>30, <2>31, <3>1, <3>2, <3>4, Zenon
    <3>6. bt.rp + ka <= Words /\ (bt.rp + ka) + rest + Due + Coming <= Words
      BY <2>3, <2>30, <2>31, <3>1, <3>3, <3>4, Zenon
    <3> QED BY <3>1, <3>5, <3>6
  <2>4. (o.keep => bt.rp < Words) /\ (o.ends => bt.cnt < MaxReqs)  BY <2>30, <2>32
  <2>5. e \in Entries /\ e.req = o.req /\ e.dst = (IF o.keep THEN bt.rp ELSE Words) /\ e.cnt = bt.cnt /\ e.rp = bt.rp
    BY <1>2, <2>2 DEF Entries, Needs
  <2> HIDE DEF e, n, r
  <2>6. /\ bt'.ops \in Seq(Entries) /\ Len(bt'.ops) = n + 1 /\ bt'.ops[n + 1] = e
        /\ \A i \in 1 .. n : bt'.ops[i] = bt.ops[i]
    BY <2>1, <2>2, <2>5 DEF n
  <2>7. bt' \in Batches
    <3>1. bt'.cnt \in 0 .. MaxReqs /\ bt'.rp \in 0 .. Words /\ bt'.curRp \in 0 .. Words /\ bt'.curCnt \in 0 .. MaxReqs
      <4>1. bt'.cnt \in 0 .. MaxReqs /\ bt'.rp \in 0 .. Words  BY <2>30, <2>31, <2>32
      <4>2. bt'.curRp \in 0 .. Words /\ bt'.curCnt \in 0 .. MaxReqs
        <5>1. bt'.curRp \in {bt'.rp, bt.curRp} /\ bt'.curCnt = bt.curCnt  BY <2>1
        <5> QED BY <2>2, <4>1, <5>1
      <4> QED BY <4>1, <4>2
    <3>2. bt'.ack \in Acks /\ bt'.wire \in Nat /\ bt'.out \in Outs /\ bt'.ran \in Nat /\ bt'.waits \in 0 .. WaitRetry
          /\ bt'.failed \in BOOLEAN
      BY <1>3, <2>1 DEF Batches
    <3> QED BY <2>1, <2>6, <3>1, <3>2 DEF Batches
  <2>8. Apart(bt) /\ bt.ack = "ok" /\ \E k \in 0 .. n - r : Ahead(plan, one, bt, k)
    BY <1>0, <1>7 DEF DapMatch, n, r
  <2>9. PICK k \in 0 .. n - r : Ahead(plan, one, bt, k)
    BY <2>8
  <2>10. /\ k \in Nat /\ r + k <= n /\ one.wire = bt.wire + k
         /\ r + k = n => one.ack = "ok" /\ one.cnt = bt.cnt /\ one.rp = bt.rp
         /\ \A j \in 1 .. k : ~Lost(plan, bt.wire + j, bt.ops[r + j].req)
         /\ \A j \in 1 .. k : bt.ops[r + j].dst # Words => one.out[bt.ops[r + j].dst] = bt.wire + j
         /\ \A p \in 0 .. Words - 1 : (\A j \in 1 .. k : bt.ops[r + j].dst # p) => one.out[p] = bt.out[p]
    <3>1. k \in Nat /\ r + k <= n  BY <2>2
    <3> QED BY <2>9, <3>1, Zenon DEF Ahead, n, r
  <2>11. ASSUME r + k # n
         PROVE  LET x == bt.ops[r + k + 1]
                IN  /\ Lost(plan, one.wire + 1, x.req) /\ one.ack = Says(plan, one.wire + 1, x.req, WaitRetry)
                    /\ one.cnt = x.cnt /\ one.rp = x.rp
    BY <2>9, <2>11 DEF Ahead, n, r
  <2>12. r + k # n => one' = one
    <3>1. r + k # n => one.ack # "ok"  BY <2>11 DEF Lost
    <3> QED BY <1>1, <3>1 DEF Probe!Transfer
  <2>13. r + k = n => /\ one' \in Loops
                      /\ Lost(plan, one.wire + 1, o.req) =>
                            /\ one'.ack = Says(plan, one.wire + 1, o.req, WaitRetry) /\ one'.cnt = one.cnt
                            /\ one'.rp = one.rp /\ one'.wire = one.wire /\ one'.out = one.out
                      /\ ~Lost(plan, one.wire + 1, o.req) =>
                            /\ one'.ack = "ok" /\ one'.cnt = (IF o.ends THEN one.cnt + 1 ELSE one.cnt)
                            /\ one'.rp = (IF o.keep THEN one.rp + 1 ELSE one.rp) /\ one'.wire = one.wire + 1
                            /\ \A p \in 0 .. Words - 1 :
                                  one'.out[p] = IF o.keep /\ p = one.rp THEN one.wire + 1 ELSE one.out[p]
    <3> SUFFICES ASSUME r + k = n
                 PROVE  /\ one' \in Loops
                        /\ Lost(plan, one.wire + 1, o.req) =>
                              /\ one'.ack = Says(plan, one.wire + 1, o.req, WaitRetry) /\ one'.cnt = one.cnt
                              /\ one'.rp = one.rp /\ one'.wire = one.wire /\ one'.out = one.out
                        /\ ~Lost(plan, one.wire + 1, o.req) =>
                              /\ one'.ack = "ok" /\ one'.cnt = (IF o.ends THEN one.cnt + 1 ELSE one.cnt)
                              /\ one'.rp = (IF o.keep THEN one.rp + 1 ELSE one.rp) /\ one'.wire = one.wire + 1
                              /\ \A p \in 0 .. Words - 1 :
                                    one'.out[p] = IF o.keep /\ p = one.rp THEN one.wire + 1 ELSE one.out[p]
      OBVIOUS
    <3>1. one.ack = "ok" /\ (o.keep => one.rp < Words) /\ (o.ends => one.cnt < MaxReqs)
      BY <2>4, <2>10
    <3> QED BY <1>1, <1>2, <1>3, <3>1, TransferIs
  <2>14. one' \in Loops  BY <1>3, <2>12, <2>13
  <2>15. DapTypes'
    <3>1. bt'.ran = r  BY <2>1 DEF r
    <3>2. Len(bt'.ops) <= RecMax /\ bt'.ran <= Len(bt'.ops)
      <4>1. Len(bt'.ops) = n + 1  BY <2>6
      <4>2. n \in Nat /\ r \in Nat /\ r <= n /\ n < RecMax /\ RecMax \in Nat  BY <2>2, ProbeNumbers
      <4> QED BY ONLY <3>1, <4>1, <4>2
    <3> QED BY <1>0, <1>1, <1>5, <2>7, <2>14, <3>2 DEF DapTypes
  <2>16. DapRoom'
    <3>1. packet' = packet /\ todo' = Tail(todo) /\ Due' = Due /\ Coming' = Coming
      BY <1>1 DEF Due, Coming
    <3>2. bt'.cnt + packet'.left + Ends(todo') <= MaxReqs
      BY <1>1, <2>31, <2>32, Zenon DEF close
    <3>3. bt'.rp + Adds(todo') + Due' + Coming' <= Words  BY <2>31, <2>32, <3>1, Zenon DEF rest
    <3>4. todo' # <<>> => bt'.curCnt = bt'.cnt /\ bt'.curRp = bt'.rp  BY <1>2, <2>1, <2>2, <3>1
    <3>5. packet'.kind # "none" /\ (packet'.kind # "transfer" => ~packet'.post)
      BY <1>0, <1>4, <3>1 DEF DapRoom
    <3> QED BY <3>2, <3>3, <3>4, <3>5 DEF DapRoom
  <2>17. Apart(bt')
    <3>1. \A i \in 1 .. n : bt.ops[i].dst = Words \/ bt.ops[i].dst < bt.rp  BY <2>8 DEF Apart, n
    <3>2. \A i, j \in 1 .. n : i < j /\ bt.ops[i].dst = bt.ops[j].dst => bt.ops[i].dst = Words
      BY <2>8 DEF Apart, n
    <3>3. \A i \in 1 .. n : bt.ops[i].dst \in Nat
      <4> TAKE i \in 1 .. n
      <4>1. bt.ops[i] \in Entries  BY <2>2 DEF n
      <4> QED BY <4>1 DEF Entries
    <3>4. \A i \in 1 .. n + 1 : bt'.ops[i].dst = Words \/ bt'.ops[i].dst < bt'.rp
      <4> TAKE i \in 1 .. n + 1
      <4>1. CASE i = n + 1
        <5>1. bt'.ops[i].dst = (IF o.keep THEN bt.rp ELSE Words)  BY <2>5, <2>6, <4>1
        <5>2. o.keep => bt'.rp = bt.rp + 1  BY <2>1
        <5> QED BY <2>32, <5>1, <5>2
      <4>2. CASE i \in 1 .. n
        <5>1. bt'.ops[i] = bt.ops[i] /\ bt.ops[i].dst \in Nat  BY <2>6, <3>3, <4>2
        <5>2. bt.ops[i].dst = Words \/ bt.ops[i].dst < bt.rp  BY <3>1, <4>2
        <5>3. \A x, y \in Nat, z \in {0, 1} : x < y => x < y + z  OBVIOUS
        <5>4. bt.ops[i].dst < bt.rp => bt.ops[i].dst < bt.rp + ka  BY <2>30, <2>32, <5>1, <5>3
        <5> QED BY <2>31, <5>1, <5>2, <5>4, Zenon
      <4> QED BY <2>2, <4>1, <4>2
    <3>5. ASSUME NEW i \in 1 .. n + 1, NEW j \in 1 .. n + 1, i < j, bt'.ops[i].dst = bt'.ops[j].dst
          PROVE  bt'.ops[i].dst = Words
      <4>1. i \in 1 .. n /\ bt'.ops[i] = bt.ops[i]  BY <2>2, <2>6, <3>5
      <4>2. CASE j = n + 1
        <5>1. bt'.ops[j].dst = bt.rp \/ bt'.ops[j].dst = Words  BY <2>5, <2>6, <4>2
        <5> QED BY <2>2, <3>1, <3>3, <3>5, <4>1, <5>1
      <4>3. CASE j \in 1 .. n
        <5>1. bt'.ops[j] = bt.ops[j]  BY <2>6, <4>3
        <5> QED BY <3>2, <3>5, <4>1, <4>3, <5>1
      <4> QED BY <2>2, <4>2, <4>3
    <3> QED BY <2>6, <3>4, <3>5 DEF Apart
  <2>18. \A j \in 1 .. k : r + j \in 1 .. n /\ bt'.ops[r + j] = bt.ops[r + j]
    BY <2>2, <2>6, <2>10
  <2>19. /\ \A j \in 1 .. k : ~Lost(plan, bt'.wire + j, bt'.ops[r + j].req)
         /\ \A j \in 1 .. k : bt'.ops[r + j].dst # Words => one.out[bt'.ops[r + j].dst] = bt'.wire + j
         /\ \A p \in 0 .. Words - 1 : (\A j \in 1 .. k : bt'.ops[r + j].dst # p) => one.out[p] = bt'.out[p]
    BY <2>1, <2>10, <2>18
  <2>20. ASSUME r + k # n PROVE Ahead(plan, one', bt', k)
    <3>1. one' = one  BY <2>12, <2>20
    <3>2. bt'.ops[r + k + 1] = bt.ops[r + k + 1]
      <4>1. r + k + 1 \in 1 .. n
        <5>1. \A x, y \in Nat : y + x <= n /\ y + x # n => y + x + 1 \in 1 .. n  BY <2>2
        <5> QED BY <2>2, <2>10, <2>20, <5>1
      <4> QED BY <2>6, <4>1
    <3>3. r + k # n + 1  BY <2>2, <2>10
    <3>4. bt'.ran = r /\ Len(bt'.ops) = n + 1 /\ bt'.wire = bt.wire  BY <2>1, <2>6 DEF r
    <3>5. /\ Lost(plan, one.wire + 1, bt'.ops[r + k + 1].req)
          /\ one.ack = Says(plan, one.wire + 1, bt'.ops[r + k + 1].req, WaitRetry)
          /\ one.cnt = bt'.ops[r + k + 1].cnt /\ one.rp = bt'.ops[r + k + 1].rp
      BY <2>11, <2>20, <3>2, Zenon
    <3>6. one.wire = bt'.wire + k  BY <2>10, <3>4, Zenon
    <3>7. Ahead(plan, one, bt', k)  BY <2>19, <3>3, <3>4, <3>5, <3>6, Zenon DEF Ahead
    <3> QED BY <3>1, <3>7
  <2>21. ASSUME r + k = n, Lost(plan, one.wire + 1, o.req) PROVE Ahead(plan, one', bt', k)
    <3>1. /\ one'.ack = Says(plan, one.wire + 1, o.req, WaitRetry) /\ one'.cnt = bt.cnt /\ one'.rp = bt.rp
          /\ one'.wire = one.wire /\ one'.out = one.out
      BY <2>10, <2>13, <2>21
    <3>2. bt'.ops[r + k + 1] = e /\ r + k # n + 1  BY <2>2, <2>6, <2>21
    <3>3. bt'.ran = r /\ Len(bt'.ops) = n + 1 /\ bt'.wire = bt.wire  BY <2>1, <2>6 DEF r
    <3>4. /\ Lost(plan, one'.wire + 1, bt'.ops[r + k + 1].req)
          /\ one'.ack = Says(plan, one'.wire + 1, bt'.ops[r + k + 1].req, WaitRetry)
          /\ one'.cnt = bt'.ops[r + k + 1].cnt /\ one'.rp = bt'.ops[r + k + 1].rp
      <4>1. bt'.ops[r + k + 1].req = o.req /\ bt'.ops[r + k + 1].cnt = bt.cnt /\ bt'.ops[r + k + 1].rp = bt.rp
        BY <2>5, <3>2, Zenon
      <4> QED BY <2>21, <3>1, <4>1
    <3>5. one'.wire = bt'.wire + k  BY <2>10, <3>1, <3>3, Zenon
    <3>6. /\ \A j \in 1 .. k : bt'.ops[r + j].dst # Words => one'.out[bt'.ops[r + j].dst] = bt'.wire + j
          /\ \A p \in 0 .. Words - 1 : (\A j \in 1 .. k : bt'.ops[r + j].dst # p) => one'.out[p] = bt'.out[p]
      BY <2>19, <3>1, Zenon
    <3>7. r + k # n + 1  BY <3>2
    <3> QED BY <2>19, <3>3, <3>4, <3>5, <3>6, <3>7, Zenon DEF Ahead
  <2>22. ASSUME r + k = n, ~Lost(plan, one.wire + 1, o.req) PROVE Ahead(plan, one', bt', k + 1)
    <3>1. /\ one'.ack = "ok" /\ one'.cnt = bt'.cnt /\ one'.rp = bt'.rp /\ one'.wire = bt.wire + (k + 1)
          /\ \A p \in 0 .. Words - 1 : one'.out[p] = IF o.keep /\ p = bt.rp THEN bt.wire + (k + 1) ELSE one.out[p]
      <4>1. one.wire + 1 = bt.wire + (k + 1)
        <5>1. one.wire = bt.wire + k /\ bt.wire \in Nat /\ k \in Nat  BY <2>2, <2>10, Zenon
        <5> QED BY <5>1
      <4>2. one.ack = "ok" /\ one.cnt = bt.cnt /\ one.rp = bt.rp  BY <2>10, <2>22, Zenon
      <4>3. /\ one'.ack = "ok" /\ one'.cnt = (IF o.ends THEN one.cnt + 1 ELSE one.cnt)
            /\ one'.rp = (IF o.keep THEN one.rp + 1 ELSE one.rp) /\ one'.wire = one.wire + 1
            /\ \A p \in 0 .. Words - 1 : one'.out[p] = IF o.keep /\ p = one.rp THEN one.wire + 1 ELSE one.out[p]
        BY <2>13, <2>22, Zenon
      <4>4. one'.cnt = bt'.cnt /\ one'.rp = bt'.rp  BY <2>1, <4>2, <4>3, Zenon
      <4>5. \A p \in 0 .. Words - 1 : one'.out[p] = IF o.keep /\ p = bt.rp THEN bt.wire + (k + 1) ELSE one.out[p]
        BY <4>1, <4>2, <4>3, Zenon
      <4> QED BY <4>1, <4>3, <4>4, <4>5, Zenon
    <3>2. bt'.ops[r + (k + 1)] = e /\ r + (k + 1) = n + 1 /\ k + 1 \in Nat
      BY <2>2, <2>6, <2>10, <2>22
    <3>3. \A j \in 1 .. k + 1 : j = k + 1 \/ j \in 1 .. k  BY <2>10
    <3>4. \A j \in 1 .. k + 1 : ~Lost(plan, bt'.wire + j, bt'.ops[r + j].req)
      <4>1. ~Lost(plan, bt'.wire + (k + 1), bt'.ops[r + (k + 1)].req)
        <5>1. one.wire + 1 = bt'.wire + (k + 1)
          <6>1. one.wire = bt.wire + k /\ bt.wire \in Nat /\ k \in Nat /\ bt'.wire = bt.wire
            BY <2>1, <2>2, <2>10, Zenon
          <6> QED BY <6>1
        <5> QED BY <2>5, <2>22, <3>2, <5>1
      <4> QED BY <2>19, <3>3, <4>1
    <3>5. \A j \in 1 .. k + 1 : bt'.ops[r + j].dst # Words => one'.out[bt'.ops[r + j].dst] = bt'.wire + j
      <4> SUFFICES ASSUME NEW j \in 1 .. k + 1, bt'.ops[r + j].dst # Words
                   PROVE  one'.out[bt'.ops[r + j].dst] = bt'.wire + j
        OBVIOUS
      <4>1. CASE j = k + 1
        <5>1. o.keep /\ bt'.ops[r + j].dst = bt.rp  BY <2>5, <3>2, <4>1
        <5>2. bt.rp \in 0 .. Words - 1  BY <2>2, <2>4, <5>1
        <5> QED BY <2>1, <3>1, <4>1, <5>1, <5>2
      <4>2. CASE j \in 1 .. k
        <5> DEFINE d == bt.ops[r + j].dst
        <5>1. bt'.ops[r + j].dst = d /\ d # Words /\ r + j \in 1 .. n  BY <2>18, <4>2
        <5>2. d \in 0 .. Words - 1 /\ d < bt.rp
          <6>1. bt.ops[r + j] \in Entries  BY <2>2, <5>1 DEF n
          <6>2. d \in 0 .. Words  BY <6>1 DEF Entries
          <6>3. d < bt.rp  BY <2>8, <5>1 DEF Apart, n
          <6> QED BY <2>2, <6>2, <6>3
        <5>3. one.out[d] = bt.wire + j  BY <2>10, <4>2, <5>1
        <5> HIDE DEF d
        <5>4. d # bt.rp  BY <2>2, <5>2
        <5> QED BY <2>1, <3>1, <5>1, <5>2, <5>3, <5>4
      <4> QED BY <3>3, <4>1, <4>2
    <3>6. \A p \in 0 .. Words - 1 : (\A j \in 1 .. k + 1 : bt'.ops[r + j].dst # p) => one'.out[p] = bt'.out[p]
      <4> SUFFICES ASSUME NEW p \in 0 .. Words - 1, \A j \in 1 .. k + 1 : bt'.ops[r + j].dst # p
                   PROVE  one'.out[p] = bt'.out[p]
        OBVIOUS
      <4>1. k + 1 \in 1 .. k + 1 /\ \A j \in 1 .. k : j \in 1 .. k + 1  BY <2>10
      <4>2. ~(o.keep /\ p = bt.rp)  BY <2>5, <3>2, <4>1
      <4>3. one.out[p] = bt'.out[p]  BY <2>19, <4>1
      <4> QED BY <3>1, <4>2, <4>3
    <3>7. Ahead(plan, one', bt', k + 1)
      <4>1. bt'.ran + (k + 1) = Len(bt'.ops) /\ bt'.ran = r /\ bt'.wire = bt.wire
        BY <2>1, <2>6, <3>2 DEF r
      <4>2. one'.wire = bt'.wire + (k + 1)  BY <3>1, <4>1
      <4> QED BY <3>1, <3>4, <3>5, <3>6, <4>1, <4>2 DEF Ahead
    <3> QED BY <3>7
  <2>23. \E x \in 0 .. Len(bt'.ops) - bt'.ran : Ahead(plan, one', bt', x)
    <3>1. (n + 1) - r = Len(bt'.ops) - bt'.ran  BY <2>1, <2>6 DEF r
    <3>2. k \in 0 .. (n + 1) - r /\ k + 1 \in 0 .. (n + 1) - r  BY <2>2, <2>10
    <3>3. \E x \in 0 .. (n + 1) - r : Ahead(plan, one', bt', x)
      BY <2>20, <2>21, <2>22, <3>2, Zenon
    <3> QED BY <3>1, <3>3
  <2>24. DapMatch'
    <3>1. bt'.ack = "ok" /\ ~bt'.failed /\ plan' = plan  BY <1>1, <2>1, <2>8
    <3> QED BY <2>17, <2>23, <3>1 DEF DapMatch
  <2> QED BY <2>15, <2>16, <2>24 DEF DapInv
<1> QED BY <1>6, <1>7

\* What the target answers no longer changes with more tries.
LEMMA SaysOn ==
    ASSUME NEW pl, pl.waits \in Nat, NEW n, NEW req, NEW w \in 0 .. WaitRetry
    PROVE  /\ Says(pl, n, req, w) = "ok" => ~Lost(pl, n, req)
           /\ Says(pl, n, req, w) # "ok" /\ (Says(pl, n, req, w) = "wait" => w = WaitRetry) =>
                 Says(pl, n, req, WaitRetry) = Says(pl, n, req, w)
<1> USE ProbeNumbers
<1>1. CASE n # pl.at \/ (pl.kind = "perr" /\ req \notin Probe!Reads)
  BY <1>1 DEF Says, Lost
<1>2. CASE ~(n # pl.at \/ (pl.kind = "perr" /\ req \notin Probe!Reads)) /\ pl.kind # "wait"
  BY <1>2 DEF Says, Lost
<1>3. CASE ~(n # pl.at \/ (pl.kind = "perr" /\ req \notin Probe!Reads)) /\ pl.kind = "wait"
  <2>1. \A x \in {w, WaitRetry} : Says(pl, n, req, x) = IF x < pl.waits THEN "wait" ELSE "ok"
    BY <1>3 DEF Says
  <2>2. w < pl.waits \/ ~(WaitRetry < pl.waits)  OBVIOUS
  <2> QED BY <2>1, <2>2 DEF Lost
<1> QED BY <1>1, <1>2, <1>3

\* rec_flush: the values of the transfers that went through are stored at their places, nothing else is touched.
LEMMA FetchedIs ==
    ASSUME bt \in Batches, bt.ran <= Len(bt.ops), Apart(bt), NEW part, NEW c \in 0 .. Len(bt.ops) - bt.ran,
           Len(part) = c, \A j \in 1 .. c : part[j] = bt.ops[bt.ran + j], NEW d \in 0 .. c
    PROVE  /\ Probe!Fetched(part, d) \in Outs
           /\ \A j \in 1 .. d : bt.ops[bt.ran + j].dst # Words =>
                 Probe!Fetched(part, d)[bt.ops[bt.ran + j].dst] = bt.wire + j
           /\ \A p \in 0 .. Words - 1 : (\A j \in 1 .. d : bt.ops[bt.ran + j].dst # p) =>
                 Probe!Fetched(part, d)[p] = bt.out[p]
<1> USE ProbeNumbers
<1> DEFINE From(p) == {j \in 1 .. d : j <= Len(part) /\ part[j].dst = p}
           out == Probe!Fetched(part, d)
           n == Len(bt.ops)
           r == bt.ran
<1>1. bt.out \in Outs /\ bt.wire \in Nat /\ bt.ops \in Seq(Entries) /\ n \in Nat /\ r \in Nat
  BY DEF Batches
<1>2. out = [p \in 0 .. Words - 1 |-> IF From(p) = {} THEN bt.out[p] ELSE bt.wire + Probe!Min(From(p))]
  BY <1>1 DEF Probe!Fetched, Outs
<1>3. \A p : From(p) = {j \in 1 .. d : bt.ops[r + j].dst = p}  OBVIOUS
<1>4. \A j \in 1 .. d : r + j \in 1 .. n  BY <1>1
<1> HIDE DEF From, out, n, r
<1>5. \A p : From(p) \subseteq 1 .. d  BY <1>3
<1>6. \A p : From(p) # {} => Probe!Min(From(p)) \in From(p)
  <2> TAKE p
  <2>1. From(p) \subseteq Nat  BY <1>5
  <2> QED BY <2>1, LeastIs
<1>7. out \in Outs
  <2>1. \A p \in 0 .. Words - 1 : (IF From(p) = {} THEN bt.out[p] ELSE bt.wire + Probe!Min(From(p))) \in Nat
    <3> TAKE p \in 0 .. Words - 1
    <3>1. bt.out[p] \in Nat  BY <1>1 DEF Outs
    <3>2. From(p) # {} => Probe!Min(From(p)) \in Nat  BY <1>5, <1>6
    <3> QED BY <1>1, <3>1, <3>2
  <2> QED BY <1>2, <2>1 DEF Outs
<1>8. ASSUME NEW j \in 1 .. d, bt.ops[r + j].dst # Words
      PROVE  out[bt.ops[r + j].dst] = bt.wire + j
  <2> DEFINE p == bt.ops[r + j].dst
  <2>1. p \in 0 .. Words - 1
    <3>1. bt.ops[r + j] \in Entries
      <4>1. r + j \in 1 .. Len(bt.ops)  BY <1>4 DEF n
      <4> QED BY <1>1, <4>1
    <3>2. p \in 0 .. Words  BY <3>1 DEF Entries
    <3> QED BY <1>8, <3>2
  <2>2. j \in From(p)  BY <1>3
  <2>3. ASSUME NEW i \in From(p) PROVE i = j
    <3>1. i \in 1 .. d /\ bt.ops[r + i].dst = bt.ops[r + j].dst  BY <1>3, <2>3
    <3>2. r + i \in 1 .. n /\ r + j \in 1 .. n  BY <1>4, <3>1
    <3>3. ~(r + i < r + j) /\ ~(r + j < r + i)  BY <1>8, <3>1, <3>2, Zenon DEF Apart, n
    <3> QED BY <1>1, <3>1, <3>3
  <2> HIDE DEF p
  <2>4. Probe!Min(From(p)) = j  BY <1>6, <2>2, <2>3
  <2>5. out[p] = bt.wire + j  BY <1>2, <2>1, <2>2, <2>4
  <2> QED BY <2>5 DEF p
<1>9. ASSUME NEW p \in 0 .. Words - 1, \A j \in 1 .. d : bt.ops[r + j].dst # p
      PROVE  out[p] = bt.out[p]
  <2>1. From(p) = {}  BY <1>3, <1>9
  <2> QED BY <1>2, <2>1
<1> QED BY <1>7, <1>8, <1>9 DEF out, r

\* The queue ran once: d transfers went through, and the one behind them is tried again or is lost.
LEMMA RunIs ==
    ASSUME DapInv, Probe!RunQueue
    PROVE  \E d \in 0 .. Len(bt.ops) - bt.ran :
              /\ \A j \in 1 .. d : ~Lost(plan, bt.wire + j, bt.ops[bt.ran + j].req)
              /\ bt'.wire = bt.wire + d /\ bt'.ran = bt.ran + d /\ bt'.ops = bt.ops
              /\ bt'.curCnt = bt.curCnt /\ bt'.curRp = bt.curRp /\ bt' \in Batches
              /\ \A j \in 1 .. d : bt.ops[bt.ran + j].dst # Words =>
                    bt'.out[bt.ops[bt.ran + j].dst] = bt.wire + j
              /\ \A p \in 0 .. Words - 1 : (\A j \in 1 .. d : bt.ops[bt.ran + j].dst # p) => bt'.out[p] = bt.out[p]
              /\ \/ ~bt'.failed /\ bt'.cnt = bt.cnt /\ bt'.rp = bt.rp /\ bt'.ack = bt.ack
                 \/ /\ bt'.failed /\ bt.ran + d < Len(bt.ops)
                    /\ Lost(plan, bt.wire + (d + 1), bt.ops[bt.ran + (d + 1)].req)
                    /\ bt'.ack = Says(plan, bt.wire + (d + 1), bt.ops[bt.ran + (d + 1)].req, WaitRetry)
                    /\ bt'.cnt = bt.ops[bt.ran + (d + 1)].cnt /\ bt'.rp = bt.ops[bt.ran + (d + 1)].rp
<1> USE ProbeNumbers
<1> DEFINE n == Len(bt.ops)
           r == bt.ran
           part == Probe!Chunk
           answers == Probe!Answers(part)
           bad == {j \in DOMAIN answers : answers[j] # "ok"}
           m == Probe!Min(bad)
           done == IF bad = {} THEN Len(part) ELSE Probe!DoneOps(part, Probe!Off(part, m) + 1)
           waits == IF done > 0 THEN 0 ELSE bt.waits
           again == bad = {} \/ (answers[m] = "wait" /\ waits < WaitRetry)
           at == r + done + 1
           out == Probe!Fetched(part, done)
           tries == IF again /\ bad # {} THEN waits + 1 ELSE 0
           cnt == IF again \/ at > n THEN bt.cnt ELSE bt.ops[at].cnt
           rp == IF again \/ at > n THEN bt.rp ELSE bt.ops[at].rp
           ack == IF again THEN bt.ack ELSE answers[m]
<1>1. ~bt.failed /\ r < n  BY DEF Probe!RunQueue
<1>2. bt' = [bt EXCEPT !.out = out, !.wire = bt.wire + done, !.ran = r + done, !.waits = tries, !.failed = ~again,
                       !.cnt = cnt, !.rp = rp, !.ack = ack]
  <2>1. bt \in Batches  BY DEF DapInv, DapTypes
  <2>2. bt' = [bt EXCEPT !.out = out, !.wire = @ + done, !.ran = @ + done, !.waits = tries, !.failed = ~again,
                         !.cnt = IF again \/ at > n THEN @ ELSE bt.ops[at].cnt,
                         !.rp = IF again \/ at > n THEN @ ELSE bt.ops[at].rp,
                         !.ack = IF again THEN @ ELSE answers[m]]
    BY Zenon DEF Probe!RunQueue
  <2> HIDE DEF out, done, again, tries, answers, m, at, n
  <2> QED BY <2>1, <2>2 DEF Batches
<1>3. /\ bt \in Batches /\ bt.ops \in Seq(Entries) /\ n \in Nat /\ r \in Nat /\ bt.wire \in Nat /\ r <= n
      /\ bt.waits \in 0 .. WaitRetry /\ plan.waits \in Nat
  <2>1. bt \in Batches /\ bt.ran <= Len(bt.ops) /\ plan.waits \in 1 .. WaitRetry + 1
    BY DEF DapInv, DapTypes
  <2>2. plan.waits \in Nat  BY <2>1
  <2> QED BY <2>1, <2>2 DEF Batches
<1>4. Apart(bt) /\ bt.ack = "ok"  BY <1>1 DEF DapInv, DapMatch
<1>5. PICK c \in 0 .. n - r : /\ part \in Seq(Entries) /\ Len(part) = c
                              /\ \A j \in 1 .. c : part[j] = bt.ops[r + j]
  BY <1>3, ChunkIs
<1> DEFINE w0(j) == IF j = 1 THEN bt.waits ELSE 0
<1>6. /\ DOMAIN answers = 1 .. c
      /\ \A j \in 1 .. c : answers[j] = Says(plan, bt.wire + j, bt.ops[r + j].req, w0(j))
  BY <1>5, AnswerIs DEF Probe!Answers
<1>7. c \in Nat /\ r + c <= n /\ bad \subseteq 1 .. c /\ \A j \in 1 .. c : w0(j) \in 0 .. WaitRetry
  BY <1>3, <1>6
<1>8. bad # {} => m \in bad /\ m \in 1 .. c /\ \A x \in bad : m <= x
  <2> HIDE DEF bad
  <2>1. bad \subseteq Nat  BY <1>7
  <2> QED BY <1>7, <2>1, LeastIs
<1>9. bad # {} => done = m - 1
  <2> SUFFICES ASSUME bad # {} PROVE Probe!DoneOps(part, Probe!Off(part, m) + 1) = m - 1
    BY Zenon
  <2>1. m \in 1 .. Len(part)  BY <1>5, <1>8
  <2> HIDE DEF part, m
  <2> QED BY <1>5, <2>1, DoneIsBefore
<1>10. bad = {} => done = c  BY <1>5
<1>11. \A j \in 1 .. c : j \in bad <=> answers[j] # "ok"  BY <1>6
<1> HIDE DEF answers, bad, m, done, part, w0, n, r
<1>12. done \in 0 .. c /\ \A j \in 1 .. done : j \in 1 .. c /\ answers[j] = "ok"
  <2>1. CASE bad = {}
    BY <1>7, <1>10, <1>11, <2>1
  <2>2. CASE bad # {}
    <3>1. \A j \in 1 .. m - 1 : j \in 1 .. c /\ ~(m <= j)  BY <1>7, <1>8, <2>2
    <3> QED BY <1>7, <1>8, <1>9, <1>11, <2>2, <3>1
  <2> QED BY <2>1, <2>2
<1>13. \A j \in 1 .. done : ~Lost(plan, bt.wire + j, bt.ops[r + j].req)
  <2> TAKE j \in 1 .. done
  <2>1. j \in 1 .. c /\ answers[j] = "ok"  BY <1>12
  <2>2. Says(plan, bt.wire + j, bt.ops[r + j].req, w0(j)) = "ok" /\ w0(j) \in 0 .. WaitRetry
    BY <1>6, <1>7, <2>1
  <2> QED BY <1>3, <2>2, SaysOn
<1>14. /\ out \in Outs
       /\ \A j \in 1 .. done : bt.ops[r + j].dst # Words => out[bt.ops[r + j].dst] = bt.wire + j
       /\ \A p \in 0 .. Words - 1 : (\A j \in 1 .. done : bt.ops[r + j].dst # p) => out[p] = bt.out[p]
  BY <1>3, <1>4, <1>5, <1>12, FetchedIs, ZenonT(30) DEF n, r
<1>15. ASSUME ~again
       PROVE  /\ r + done < n /\ Lost(plan, bt.wire + (done + 1), bt.ops[r + (done + 1)].req)
              /\ ack = Says(plan, bt.wire + (done + 1), bt.ops[r + (done + 1)].req, WaitRetry)
              /\ cnt = bt.ops[r + (done + 1)].cnt /\ rp = bt.ops[r + (done + 1)].rp
  <2>1. bad # {} /\ (answers[m] = "wait" => ~(waits < WaitRetry))  BY <1>15
  <2>2. m \in 1 .. c /\ done + 1 = m /\ answers[m] # "ok"  BY <1>7, <1>8, <1>9, <1>11, <2>1
  <2>3. waits = w0(m)  BY <2>2, <1>12 DEF w0
  <2>4. w0(m) \in 0 .. WaitRetry /\ answers[m] = Says(plan, bt.wire + m, bt.ops[r + m].req, w0(m))
    BY <1>6, <1>7, <2>2
  <2>5. answers[m] = "wait" => w0(m) = WaitRetry  BY <2>1, <2>3, <2>4
  <2>6. Says(plan, bt.wire + m, bt.ops[r + m].req, WaitRetry) = answers[m]
    BY <1>3, <2>2, <2>4, <2>5, SaysOn
  <2>7. r + done < n /\ r + m <= n /\ at = r + m  BY <1>3, <1>7, <1>12, <2>2
  <2>8. cnt = bt.ops[r + m].cnt /\ rp = bt.ops[r + m].rp /\ ack = answers[m]
    <3>1. ~(at > n)  BY <1>3, <1>7, <2>2, <2>7
    <3> HIDE DEF at, again
    <3> QED BY <1>15, <2>7, <3>1
  <2> QED BY <2>2, <2>6, <2>7, <2>8 DEF Lost
<1>16. tries \in 0 .. WaitRetry
  <2>1. CASE again /\ bad # {}
    <3>1. waits < WaitRetry /\ waits \in Nat  BY <1>3, <2>1
    <3> HIDE DEF waits
    <3> QED BY <2>1, <3>1
  <2>2. CASE ~(again /\ bad # {})
    BY <2>2
  <2> QED BY <2>1, <2>2
<1>17. cnt \in 0 .. MaxReqs /\ rp \in 0 .. Words /\ ack \in Acks
  <2>1. CASE again
    BY <1>3, <2>1 DEF Batches
  <2>2. CASE ~again
    <3>1. r + (done + 1) \in 1 .. n  BY <1>3, <1>12, <1>15, <2>2, SMTT(30)
    <3>2. bt.ops[r + (done + 1)] \in Entries  BY <1>3, <3>1 DEF n
    <3>3. plan.kind \in Acks  BY DEF DapInv, DapTypes, Acks
    <3>4. ack \in Acks
      <4>1. ack \in {"ok", "wait", plan.kind}  BY <1>15, <2>2 DEF Says
      <4> QED BY <3>3, <4>1 DEF Acks
    <3> QED BY <1>15, <2>2, <3>2, <3>4 DEF Entries
  <2> QED BY <2>1, <2>2
<1> DEFINE fails == ~again
<1>18. fails \in BOOLEAN /\ bt.wire + done \in Nat /\ r + done \in Nat  BY <1>3, <1>12
<1> HIDE DEF out, cnt, rp, ack, tries
<1>19. /\ bt'.out = out /\ bt'.wire = bt.wire + done /\ bt'.ran = r + done /\ bt'.waits = tries /\ bt'.cnt = cnt
       /\ bt'.rp = rp /\ bt'.ack = ack /\ bt'.ops = bt.ops /\ bt'.curCnt = bt.curCnt /\ bt'.curRp = bt.curRp
       /\ (bt'.failed = fails) /\ bt' \in Batches
  <2>1. bt' = [bt EXCEPT !.out = out, !.wire = bt.wire + done, !.ran = r + done, !.waits = tries, !.failed = fails,
                         !.cnt = cnt, !.rp = rp, !.ack = ack]
    BY <1>2
  <2> HIDE DEF fails
  <2> QED BY <1>3, <1>14, <1>16, <1>17, <1>18, <2>1 DEF Batches
<1>20. bt'.failed => fails  BY <1>18, <1>19
<1>21. ~bt'.failed => again  BY <1>18, <1>19
<1> HIDE DEF fails
<1>22. \/ ~bt'.failed /\ bt'.cnt = bt.cnt /\ bt'.rp = bt.rp /\ bt'.ack = bt.ack
       \/ /\ bt'.failed /\ r + done < n /\ Lost(plan, bt.wire + (done + 1), bt.ops[r + (done + 1)].req)
          /\ bt'.ack = Says(plan, bt.wire + (done + 1), bt.ops[r + (done + 1)].req, WaitRetry)
          /\ bt'.cnt = bt.ops[r + (done + 1)].cnt /\ bt'.rp = bt.ops[r + (done + 1)].rp
  <2>1. CASE ~bt'.failed
    <3>1. cnt = bt.cnt /\ rp = bt.rp /\ ack = bt.ack
      <4>1. again  BY <1>21, <2>1
      <4> HIDE DEF again
      <4> QED BY <4>1 DEF cnt, rp, ack
    <3> QED BY <1>19, <2>1, <3>1
  <2>2. CASE bt'.failed
    <3>1. ~again  BY <1>20, <2>2 DEF fails
    <3> HIDE DEF again
    <3> QED BY <1>15, <1>19, <2>2, <3>1
  <2> QED BY <2>1, <2>2
<1>23. done \in 0 .. n - r  BY <1>3, <1>7, <1>12
<1> HIDE DEF again
<1>24. /\ \A j \in 1 .. done : bt.ops[r + j].dst # Words => bt'.out[bt.ops[r + j].dst] = bt.wire + j
       /\ \A p \in 0 .. Words - 1 : (\A j \in 1 .. done : bt.ops[r + j].dst # p) => bt'.out[p] = bt.out[p]
  BY <1>14, <1>19, Zenon
<1>25. /\ done \in 0 .. Len(bt.ops) - bt.ran
       /\ \A j \in 1 .. done : ~Lost(plan, bt.wire + j, bt.ops[bt.ran + j].req)
       /\ bt'.wire = bt.wire + done /\ bt'.ran = bt.ran + done /\ bt'.ops = bt.ops
       /\ bt'.curCnt = bt.curCnt /\ bt'.curRp = bt.curRp /\ bt' \in Batches
  BY <1>13, <1>19, <1>23, Zenon DEF n, r
<1> QED BY <1>22, <1>24, <1>25, Zenon DEF n, r

\* rec_flush: where the batch and the one-by-one loop stand after a run of the queue.
LEMMA RunKeeps ==
    ASSUME DapInv, Probe!RunQueue
    PROVE  DapInv'
<1> USE ProbeNumbers
<1> DEFINE n == Len(bt.ops)
           r == bt.ran
<1>1. ~bt.failed /\ r < n /\ (n = RecMax \/ packet.kind = "ended") /\ UNCHANGED <<plan, packet, todo, one>>
  BY DEF Probe!RunQueue, Probe!ListFull
<1>2. DapTypes /\ DapRoom /\ DapMatch  BY DEF DapInv
<1>3. /\ bt \in Batches /\ bt.ops \in Seq(Entries) /\ n \in Nat /\ r \in Nat /\ bt.wire \in Nat /\ r <= n /\ n <= RecMax
  BY <1>2 DEF DapTypes, Batches
<1>4. packet.kind # "none"
  <2>1. packet.kind = "none" => bt.ops = <<>>  BY <1>2 DEF DapRoom
  <2>2. bt.ops = <<>> => n = 0  OBVIOUS
  <2> QED BY <1>1, <1>3, <2>1, <2>2
<1>5. Apart(bt) /\ bt.ack = "ok"  BY <1>1, <1>2 DEF DapMatch
<1>6. PICK k \in 0 .. n - r : Ahead(plan, one, bt, k)
  BY <1>1, <1>2 DEF DapMatch
<1>7. PICK d \in 0 .. n - r :
         /\ \A j \in 1 .. d : ~Lost(plan, bt.wire + j, bt.ops[r + j].req)
         /\ bt'.wire = bt.wire + d /\ bt'.ran = r + d /\ bt'.ops = bt.ops
         /\ bt'.curCnt = bt.curCnt /\ bt'.curRp = bt.curRp /\ bt' \in Batches
         /\ \A j \in 1 .. d : bt.ops[r + j].dst # Words => bt'.out[bt.ops[r + j].dst] = bt.wire + j
         /\ \A p \in 0 .. Words - 1 : (\A j \in 1 .. d : bt.ops[r + j].dst # p) => bt'.out[p] = bt.out[p]
         /\ \/ ~bt'.failed /\ bt'.cnt = bt.cnt /\ bt'.rp = bt.rp /\ bt'.ack = bt.ack
            \/ /\ bt'.failed /\ r + d < n
               /\ Lost(plan, bt.wire + (d + 1), bt.ops[r + (d + 1)].req)
               /\ bt'.ack = Says(plan, bt.wire + (d + 1), bt.ops[r + (d + 1)].req, WaitRetry)
               /\ bt'.cnt = bt.ops[r + (d + 1)].cnt /\ bt'.rp = bt.ops[r + (d + 1)].rp
  BY RunIs
<1>8. k \in Nat /\ d \in Nat /\ r + k <= n /\ r + d <= n  BY <1>3
<1>9. /\ one.wire = bt.wire + k
      /\ \A j \in 1 .. k : ~Lost(plan, bt.wire + j, bt.ops[r + j].req)
      /\ \A j \in 1 .. k : bt.ops[r + j].dst # Words => one.out[bt.ops[r + j].dst] = bt.wire + j
      /\ \A p \in 0 .. Words - 1 : (\A j \in 1 .. k : bt.ops[r + j].dst # p) => one.out[p] = bt.out[p]
      /\ r + k = n => one.ack = "ok" /\ one.cnt = bt.cnt /\ one.rp = bt.rp
  BY <1>6, Zenon DEF Ahead
<1>10. r + k # n => /\ Lost(plan, one.wire + 1, bt.ops[r + k + 1].req)
                    /\ one.ack = Says(plan, one.wire + 1, bt.ops[r + k + 1].req, WaitRetry)
                    /\ one.cnt = bt.ops[r + k + 1].cnt /\ one.rp = bt.ops[r + k + 1].rp
  BY <1>6, Zenon DEF Ahead
<1>11. one.wire + 1 = bt.wire + (k + 1) /\ r + k + 1 = r + (k + 1)
  <2>1. one.wire = bt.wire + k  BY <1>9
  <2> QED BY <1>3, <1>8, <2>1
<1>12. d <= k
  <2> SUFFICES ASSUME ~(d <= k) PROVE FALSE
    OBVIOUS
  <2>1. k + 1 \in 1 .. d /\ r + k # n  BY <1>3, <1>8
  <2>2. Lost(plan, bt.wire + (k + 1), bt.ops[r + (k + 1)].req)  BY <1>10, <1>11, <2>1
  <2> QED BY <1>7, <2>1, <2>2
<1>13. one \in Loops /\ one.out \in Outs /\ bt'.out \in Outs
  BY <1>2, <1>7 DEF DapTypes, Loops, Batches
<1> HIDE DEF n, r
<1>14. ASSUME NEW p \in 0 .. Words - 1, \A j \in 1 .. k : j > d => bt.ops[r + j].dst # p
       PROVE  one.out[p] = bt'.out[p]
  <2>1. CASE \E j \in 1 .. d : bt.ops[r + j].dst = p
    <3>1. PICK j \in 1 .. d : bt.ops[r + j].dst = p
      BY <2>1
    <3>2. j \in 1 .. k /\ p # Words  BY <1>8, <1>12
    <3>3. one.out[p] = bt.wire + j  BY <1>9, <3>1, <3>2
    <3>4. bt'.out[p] = bt.wire + j  BY <1>7, <3>1, <3>2
    <3> QED BY <3>3, <3>4
  <2>2. CASE ~\E j \in 1 .. d : bt.ops[r + j].dst = p
    <3>1. \A j \in 1 .. k : j \in 1 .. d \/ j > d  BY <1>8
    <3>2. \A j \in 1 .. k : bt.ops[r + j].dst # p  BY <1>14, <2>2, <3>1
    <3>3. one.out[p] = bt.out[p]  BY <1>9, <3>2
    <3>4. bt'.out[p] = bt.out[p]  BY <1>7, <2>2
    <3> QED BY <3>3, <3>4
  <2> QED BY <2>1, <2>2
<1>15. DapTypes'
  <2>1. Len(bt'.ops) <= RecMax /\ bt'.ran <= Len(bt'.ops)  BY <1>3, <1>7, <1>8 DEF n
  <2> QED BY <1>1, <1>2, <1>7, <2>1 DEF DapTypes
<1>16. DapRoom'
  <2>1. /\ packet'.kind # "none" /\ (packet'.kind # "transfer" => ~packet'.post) /\ todo' = todo /\ packet' = packet
        /\ Due' = Due /\ Coming' = Coming
    BY <1>1, <1>2, <1>4 DEF DapRoom, Due, Coming
  <2>2. ASSUME ~bt'.failed
        PROVE  /\ bt'.cnt + packet'.left + Ends(todo') <= MaxReqs
               /\ bt'.rp + Adds(todo') + Due' + Coming' <= Words
               /\ todo' # <<>> => bt'.curCnt = bt'.cnt /\ bt'.curRp = bt'.rp
    <3>1. bt'.cnt = bt.cnt /\ bt'.rp = bt.rp /\ bt'.curCnt = bt.curCnt /\ bt'.curRp = bt.curRp
      BY <1>7, <2>2
    <3>2. /\ bt.cnt + packet.left + Ends(todo) <= MaxReqs /\ bt.rp + Adds(todo) + Due + Coming <= Words
          /\ todo # <<>> => bt.curCnt = bt.cnt /\ bt.curRp = bt.rp
      BY <1>1, <1>2 DEF DapRoom
    <3> QED BY <2>1, <3>1, <3>2
  <2> QED BY <2>1, <2>2 DEF DapRoom
<1>17. DapMatch'
  <2>1. CASE bt'.failed
    <3>1. /\ r + d < n /\ Lost(plan, bt.wire + (d + 1), bt.ops[r + (d + 1)].req)
          /\ bt'.ack = Says(plan, bt.wire + (d + 1), bt.ops[r + (d + 1)].req, WaitRetry)
          /\ bt'.cnt = bt.ops[r + (d + 1)].cnt /\ bt'.rp = bt.ops[r + (d + 1)].rp
      BY <1>7, <2>1
    <3>2. d = k /\ r + k # n
      <4>1. ~(d + 1 \in 1 .. k)  BY <1>9, <3>1
      <4> QED BY <1>3, <1>8, <1>12, <3>1, <4>1
    <3>3. /\ Lost(plan, bt.wire + (k + 1), bt.ops[r + (k + 1)].req)
          /\ one.ack = Says(plan, bt.wire + (k + 1), bt.ops[r + (k + 1)].req, WaitRetry)
          /\ one.cnt = bt.ops[r + (k + 1)].cnt /\ one.rp = bt.ops[r + (k + 1)].rp
      BY <1>10, <1>11, <3>2
    <3>4. \A p \in 0 .. Words - 1 : one.out[p] = bt'.out[p]
      <4> TAKE p \in 0 .. Words - 1
      <4>1. \A j \in 1 .. k : j > d => bt.ops[r + j].dst # p  BY <3>2
      <4> QED BY <1>14, <4>1
    <3>5. one.out = bt'.out  BY <1>13, <3>4, SMTT(30) DEF Outs
    <3>6. one.ack # "ok" /\ one.ack = bt'.ack /\ one.cnt = bt'.cnt /\ one.rp = bt'.rp
      BY <3>1, <3>2, <3>3 DEF Lost
    <3>7. one.wire = bt'.wire  BY <1>7, <1>9, <3>2, Zenon
    <3> QED BY <1>1, <2>1, <3>5, <3>6, <3>7 DEF DapMatch
  <2>2. CASE ~bt'.failed
    <3>1. bt'.cnt = bt.cnt /\ bt'.rp = bt.rp /\ bt'.ack = bt.ack  BY <1>7, <2>2
    <3>2. Apart(bt')  BY <1>5, <1>7, <3>1 DEF Apart
    <3> DEFINE x == k - d
               q == r + d
    <3>3. x \in Nat /\ q \in Nat /\ q + x = r + k /\ q + x + 1 = r + k + 1 /\ x \in 0 .. n - q
      BY <1>3, <1>8, <1>12
    <3>4. /\ \A j \in 1 .. x : d + j \in 1 .. k /\ d + j > d /\ q + j = r + (d + j)
          /\ \A j \in 1 .. x : (bt.wire + d) + j = bt.wire + (d + j)
          /\ \A j \in 1 .. k : j > d => j - d \in 1 .. x /\ r + j = q + (j - d)
      BY <1>3, <1>8, <1>12
    <3>5. bt'.wire = bt.wire + d /\ bt'.ran = q /\ bt'.ops = bt.ops  BY <1>7
    <3>6. one.wire = bt'.wire + x
      <4>1. one.wire = bt.wire + k  BY <1>9
      <4> QED BY <1>3, <1>8, <1>12, <3>5, <4>1
    <3> HIDE DEF x, q
    <3>7. \A j \in 1 .. x : ~Lost(plan, bt'.wire + j, bt'.ops[q + j].req)  BY <1>9, <3>4, <3>5
    <3>8. \A j \in 1 .. x : bt'.ops[q + j].dst # Words => one.out[bt'.ops[q + j].dst] = bt'.wire + j
      BY <1>9, <3>4, <3>5
    <3>9. ASSUME NEW p \in 0 .. Words - 1, \A j \in 1 .. x : bt'.ops[q + j].dst # p
          PROVE  one.out[p] = bt'.out[p]
      <4>1. \A j \in 1 .. k : j > d => bt.ops[r + j].dst # p  BY <3>4, <3>5, <3>9
      <4> QED BY <1>14, <4>1
    <3>10. /\ q + x = Len(bt'.ops) => one.ack = "ok" /\ one.cnt = bt'.cnt /\ one.rp = bt'.rp
           /\ q + x # Len(bt'.ops) => /\ Lost(plan, one.wire + 1, bt'.ops[q + x + 1].req)
                                      /\ one.ack = Says(plan, one.wire + 1, bt'.ops[q + x + 1].req, WaitRetry)
                                      /\ one.cnt = bt'.ops[q + x + 1].cnt /\ one.rp = bt'.ops[q + x + 1].rp
      <4>1. Len(bt'.ops) = n  BY <3>5 DEF n
      <4>2. q + x = n => one.ack = "ok" /\ one.cnt = bt'.cnt /\ one.rp = bt'.rp
        BY <1>9, <3>1, <3>3
      <4>3. q + x # n => /\ Lost(plan, one.wire + 1, bt'.ops[q + x + 1].req)
                         /\ one.ack = Says(plan, one.wire + 1, bt'.ops[q + x + 1].req, WaitRetry)
                         /\ one.cnt = bt'.ops[q + x + 1].cnt /\ one.rp = bt'.ops[q + x + 1].rp
        BY <1>10, <3>3, <3>5
      <4> QED BY <4>1, <4>2, <4>3
    <3>11. Ahead(plan, one, bt', x)  BY <3>5, <3>6, <3>7, <3>8, <3>9, <3>10, Zenon DEF Ahead
    <3>12. \E y \in 0 .. Len(bt'.ops) - bt'.ran : Ahead(plan, one, bt', y)
      <4>1. Len(bt'.ops) = n  BY <3>5 DEF n
      <4>2. x \in 0 .. Len(bt'.ops) - bt'.ran  BY <3>3, <3>5, <4>1
      <4> QED BY <3>11, <4>2
    <3>13. plan' = plan /\ one' = one /\ bt'.ack = "ok"  BY <1>1, <1>5, <3>1
    <3> QED BY <2>2, <3>2, <3>12, <3>13 DEF DapMatch
  <2> QED BY <2>1, <2>2
<1> QED BY <1>15, <1>16, <1>17 DEF DapInv

\* What a request starts is no matter of the transfers before it.
LEMMA MatchStays ==
    ASSUME DapMatch, UNCHANGED <<plan, one>>, bt'.failed = bt.failed, bt'.ack = bt.ack, bt'.cnt = bt.cnt,
           bt'.rp = bt.rp, bt'.wire = bt.wire, bt'.out = bt.out, bt'.ops = bt.ops, bt'.ran = bt.ran
    PROVE  DapMatch'
<1>1. CASE bt.failed
  BY <1>1 DEF DapMatch
<1>2. CASE ~bt.failed
  <2>1. Apart(bt') /\ bt'.ack = "ok"  BY <1>2 DEF DapMatch, Apart
  <2>2. PICK k \in 0 .. Len(bt.ops) - bt.ran : Ahead(plan, one, bt, k)
    BY <1>2 DEF DapMatch
  <2>3. Ahead(plan, one, bt', k)  BY <2>2, Zenon DEF Ahead
  <2>4. k \in 0 .. Len(bt'.ops) - bt'.ran  BY <2>2, Zenon
  <2>5. ~bt'.failed  BY <1>2
  <2> QED BY <2>1, <2>3, <2>4, <2>5 DEF DapMatch
<1> QED BY <1>1, <1>2

\* do_transfer: where the command stands.
LEMMA StandIs ==
    ASSUME bt \in Batches, bt' = Probe!Stand(bt)
    PROVE  /\ bt' \in Batches /\ bt'.curCnt = bt.cnt /\ bt'.curRp = bt.rp
           /\ bt'.failed = bt.failed /\ bt'.ack = bt.ack /\ bt'.cnt = bt.cnt
           /\ bt'.rp = bt.rp /\ bt'.wire = bt.wire /\ bt'.out = bt.out /\ bt'.ops = bt.ops /\ bt'.ran = bt.ran
<1>1. bt' = [bt EXCEPT !.curCnt = bt.cnt, !.curRp = bt.rp]  BY DEF Probe!Stand
<1> QED BY <1>1 DEF Batches

\* The transfers one request may need.
LEMMA NeedsOfOne ==
    ASSUME NEW x \in Needs
    PROVE  /\ <<x>> \in Seq(Needs) /\ Len(<<x>>) = 1 /\ Adds(<<x>>) = (IF x.keep THEN 1 ELSE 0)
           /\ Ends(<<x>>) = (IF x.ends THEN 1 ELSE 0)
<1> DEFINE s == <<x>>
<1>1. s \in Seq(Needs) /\ Len(s) = 1 /\ s[1] = x  OBVIOUS
<1> HIDE DEF s
<1>2. Adds(s) = (IF x.keep THEN 1 ELSE 0) /\ Ends(s) = (IF x.ends THEN 1 ELSE 0)
  BY <1>1 DEF Adds, Ends
<1> QED BY <1>1, <1>2 DEF s

\* None at all.
LEMMA NeedsOfNone == <<>> \in Seq(Needs) /\ Len(<<>>) = 0 /\ Adds(<<>>) = 0 /\ Ends(<<>>) = 0
<1> DEFINE s == <<>>
<1>1. s \in Seq(Needs) /\ Len(s) = 0  OBVIOUS
<1> HIDE DEF s
<1>2. Adds(s) = 0 /\ Ends(s) = 0  BY <1>1 DEF Adds, Ends
<1> QED BY <1>1, <1>2 DEF s

\* do_transfer: a request of a packet needs at most two transfers, the last of which completes it.
LEMMA NeedsOfRequest ==
    ASSUME NEW r \in {"apr", "dpr", "w"}, packet.post \in BOOLEAN
    PROVE  LET q == Probe!Transfers(r)
           IN  /\ q \in Seq(Needs) /\ Len(q) <= 2 /\ (Len(q) = 2 => ~q[1].ends) /\ Adds(q) \in 0 .. 2 /\ Ends(q) = 1
<1> DEFINE a == [req |-> "apr", keep |-> packet.post, ends |-> TRUE]
           b == [req |-> "rdbuff", keep |-> TRUE, ends |-> FALSE]
           c == [req |-> r, keep |-> r = "dpr", ends |-> TRUE]
           q == Probe!Transfers(r)
<1>0. \A x, y \in Needs : Append(<<>>, x) = <<x>> /\ Append(<<y>>, x) = <<y, x>>
  <2> SUFFICES ASSUME NEW x \in Needs, NEW y \in Needs
               PROVE  Append(<<>>, x) = <<x>> /\ Append(<<y>>, x) = <<y, x>>
    OBVIOUS
  <2>1. Append(<<>>, x) = <<x>>
    <3> DEFINE s == <<>>
               u == <<x>>
    <3>1. s \in Seq(Needs) /\ Len(s) = 0 /\ u \in Seq(Needs) /\ Len(u) = 1 /\ u[1] = x  OBVIOUS
    <3> HIDE DEF s, u
    <3>2. Append(s, x) \in Seq(Needs) /\ Len(Append(s, x)) = 1 /\ Append(s, x)[1] = x  BY <3>1
    <3>3. Append(s, x) = u  BY <3>1, <3>2
    <3> QED BY <3>3 DEF s, u
  <2>2. Append(<<y>>, x) = <<y, x>>
    <3> DEFINE s == <<y>>
               u == <<y, x>>
    <3>1. s \in Seq(Needs) /\ Len(s) = 1 /\ s[1] = y /\ u \in Seq(Needs) /\ Len(u) = 2 /\ u[1] = y /\ u[2] = x
      OBVIOUS
    <3> HIDE DEF s, u
    <3>2. Append(s, x) \in Seq(Needs) /\ Len(Append(s, x)) = 2 /\ Append(s, x)[1] = y /\ Append(s, x)[2] = x
      BY <3>1, SMTT(30)
    <3>3. Append(s, x) = u  BY <3>1, <3>2
    <3> QED BY <3>3 DEF s, u
  <2> QED BY <2>1, <2>2
<1>00. b \in Needs /\ c \in Needs  BY DEF Needs
<1>1. CASE r = "apr"
  <2>1. q = <<a>>  BY <1>1 DEF Probe!Transfers, Probe!Op
  <2>2. a \in Needs  BY DEF Needs
  <2>3. a.ends /\ (IF a.keep THEN 1 ELSE 0) \in 0 .. 2  OBVIOUS
  <2> HIDE DEF a, q
  <2> QED BY <2>1, <2>2, <2>3, NeedsOfOne DEF q
<1>2. CASE r # "apr" /\ ~packet.post
  <2>1. q = <<c>>
    <3>1. Probe!Settle = <<>>  BY <1>2 DEF Probe!Settle
    <3>2. CASE r = "dpr"
      <4>1. q = Append(<<>>, Probe!Op("dpr", TRUE, TRUE))  BY <3>1, <3>2 DEF Probe!Transfers
      <4>2. Probe!Op("dpr", TRUE, TRUE) = c  BY <3>2 DEF Probe!Op
      <4> HIDE DEF c, q
      <4> QED BY <1>0, <1>00, <4>1, <4>2, Zenon
    <3>3. CASE r = "w"
      <4>1. q = Append(<<>>, Probe!Op("w", FALSE, TRUE))  BY <3>1, <3>3 DEF Probe!Transfers
      <4>2. Probe!Op("w", FALSE, TRUE) = c  BY <3>3 DEF Probe!Op
      <4> HIDE DEF c, q
      <4> QED BY <1>0, <1>00, <4>1, <4>2, Zenon
    <3> QED BY <1>2, <3>2, <3>3
  <2>2. c \in Needs  BY DEF Needs
  <2>3. c.ends /\ (IF c.keep THEN 1 ELSE 0) \in 0 .. 2  OBVIOUS
  <2> HIDE DEF c, q
  <2> QED BY <2>1, <2>2, <2>3, NeedsOfOne DEF q
<1>3. CASE r # "apr" /\ packet.post
  <2>1. q = <<b, c>>
    <3>1. Probe!Settle = <<b>>  BY <1>3 DEF Probe!Settle, Probe!Op
    <3>2. CASE r = "dpr"
      <4>1. q = Append(<<b>>, Probe!Op("dpr", TRUE, TRUE))  BY <3>1, <3>2 DEF Probe!Transfers
      <4>2. Probe!Op("dpr", TRUE, TRUE) = c  BY <3>2 DEF Probe!Op
      <4> HIDE DEF b, c, q
      <4> QED BY <1>0, <1>00, <4>1, <4>2, Zenon
    <3>3. CASE r = "w"
      <4>1. q = Append(<<b>>, Probe!Op("w", FALSE, TRUE))  BY <3>1, <3>3 DEF Probe!Transfers
      <4>2. Probe!Op("w", FALSE, TRUE) = c  BY <3>3 DEF Probe!Op
      <4> HIDE DEF b, c, q
      <4> QED BY <1>0, <1>00, <4>1, <4>2, Zenon
    <3> QED BY <1>3, <3>2, <3>3
  <2>2. b \in Needs /\ c \in Needs  BY DEF Needs
  <2>3. ~b.ends /\ b.keep /\ c.ends  OBVIOUS
  <2> HIDE DEF b, c, q
  <2>4. q \in Seq(Needs) /\ Len(q) = 2 /\ q[1] = b /\ q[2] = c  BY <2>1, <2>2
  <2>5. Adds(q) = 1 + (IF c.keep THEN 1 ELSE 0) /\ Ends(q) = 1  BY <2>3, <2>4 DEF Adds, Ends
  <2>6. Adds(q) \in 0 .. 2  BY <2>5
  <2> QED BY <2>3, <2>4, <2>5, <2>6 DEF q
<1> QED BY <1>1, <1>2, <1>3

\* The numbers of the room, whatever the packet does next.
LEMMA RoomIs ==
    ASSUME DapInv
    PROVE  /\ packet.left \in 0 .. MaxReqs /\ packet.post \in BOOLEAN /\ bt \in Batches
           /\ bt.cnt \in Nat /\ bt.rp \in Nat /\ packet.left \in Nat
           /\ ~bt.failed /\ todo = <<>> => /\ bt.cnt + packet.left <= MaxReqs /\ bt.rp + Due + Coming <= Words
                                           /\ Due \in Nat /\ Coming \in Nat
<1> USE ProbeNumbers
<1>1. packet.left \in 0 .. MaxReqs /\ packet.post \in BOOLEAN /\ bt \in Batches
  BY DEF DapInv, DapTypes
<1>2. bt.cnt \in Nat /\ bt.rp \in Nat /\ packet.left \in Nat  BY <1>1 DEF Batches
<1>3. ASSUME ~bt.failed, todo = <<>>
      PROVE  /\ bt.cnt + packet.left <= MaxReqs /\ bt.rp + Due + Coming <= Words /\ Due \in Nat /\ Coming \in Nat
  <2>1. bt.cnt + packet.left + 0 <= MaxReqs /\ bt.rp + 0 + Due + Coming <= Words
    BY <1>3, NeedsOfNone DEF DapInv, DapRoom
  <2>2. Due \in Nat /\ Coming \in Nat  BY <1>2 DEF Due, Coming
  <2> HIDE DEF Due, Coming
  <2> QED BY <1>2, <2>1, <2>2
<1> QED BY <1>1, <1>2, <1>3

\* dap_process: a packet comes in.
LEMMA PacketKeeps ==
    ASSUME DapInv, NEW n \in 1 .. MaxReqs, Probe!Begin(n)
    PROVE  DapInv'
<1> USE ProbeNumbers
<1>1. /\ packet.kind = "none" /\ packet' = [packet EXCEPT !.kind = "transfer", !.left = n]
      /\ UNCHANGED <<plan, todo, one, bt>>
  BY DEF Probe!Begin
<1>2. DapTypes /\ DapRoom /\ DapMatch  BY DEF DapInv
<1>3. /\ packet' \in [kind : {"none", "transfer", "block", "ended"}, block : {"apr", "dpr", "w"},
                      left : 0 .. MaxReqs, post : BOOLEAN]
      /\ packet'.kind = "transfer" /\ packet'.left = n /\ packet'.post = packet.post /\ packet.post = FALSE
  <2> DEFINE Packets == [kind : {"none", "transfer", "block", "ended"}, block : {"apr", "dpr", "w"},
                         left : 0 .. MaxReqs, post : BOOLEAN]
  <2>1. packet \in Packets /\ n \in 0 .. MaxReqs  BY <1>2 DEF DapTypes
  <2>2. ~packet.post  BY <1>1, <1>2 DEF DapRoom
  <2>3. packet' \in Packets  BY <1>1, <2>1
  <2>4. packet'.kind = "transfer" /\ packet'.left = n  BY <1>1, <2>1
  <2>5. packet'.post = packet.post  BY <1>1, <2>1
  <2>6. packet.post = FALSE  BY <2>1, <2>2
  <2> QED BY <2>3, <2>4, <2>5, <2>6
<1>4. todo = <<>> /\ bt.cnt = 0 /\ bt.rp = 0 /\ bt.curCnt = 0 /\ bt.curRp = 0
  BY <1>1, <1>2 DEF DapRoom
<1>5. DapTypes'  BY <1>1, <1>2, <1>3 DEF DapTypes
<1>6. DapRoom'
  <2>1. Due' = 0 /\ Coming' = 0 /\ Ends(todo') = 0 /\ Adds(todo') = 0
    BY <1>1, <1>3, <1>4, NeedsOfNone DEF Due, Coming
  <2>2. bt'.cnt + packet'.left + Ends(todo') <= MaxReqs /\ bt'.rp + Adds(todo') + Due' + Coming' <= Words
    BY <1>1, <1>3, <1>4, <2>1
  <2> QED BY <1>1, <1>3, <1>4, <2>2 DEF DapRoom
<1>7. DapMatch'  BY <1>1, <1>2, MatchStays
<1> QED BY <1>5, <1>6, <1>7 DEF DapInv

\* A block: its length is within the response.
LEMMA BlockKeeps ==
    ASSUME DapInv, NEW r \in {"apr", "dpr", "w"}, NEW n \in 1 .. MaxReqs, Probe!BeginBlock(r, n)
    PROVE  DapInv'
<1> USE ProbeNumbers
<1> DEFINE x == [req |-> "apr", keep |-> FALSE, ends |-> FALSE]
<1>1. /\ packet.kind = "none" /\ (r # "w" => n <= Words)
      /\ packet' = [packet EXCEPT !.kind = "block", !.block = r, !.left = n] /\ UNCHANGED <<plan, one, bt>>
      /\ todo' = IF r = "apr" THEN <<x>> ELSE <<>>
  BY DEF Probe!BeginBlock, Probe!Op
<1>2. DapTypes /\ DapRoom /\ DapMatch  BY DEF DapInv
<1>3. /\ packet' \in [kind : {"none", "transfer", "block", "ended"}, block : {"apr", "dpr", "w"},
                      left : 0 .. MaxReqs, post : BOOLEAN]
      /\ packet'.kind = "block" /\ packet'.block = r /\ packet'.left = n /\ packet'.post = packet.post
      /\ packet.post = FALSE
  <2> DEFINE Packets == [kind : {"none", "transfer", "block", "ended"}, block : {"apr", "dpr", "w"},
                         left : 0 .. MaxReqs, post : BOOLEAN]
  <2>1. packet \in Packets /\ n \in 0 .. MaxReqs  BY <1>2 DEF DapTypes
  <2>2. ~packet.post  BY <1>1, <1>2 DEF DapRoom
  <2>3. packet' \in Packets  BY <1>1, <2>1
  <2>4. packet'.kind = "block" /\ packet'.left = n /\ packet'.block = r  BY <1>1, <2>1
  <2>5. packet'.post = packet.post  BY <1>1, <2>1
  <2>6. packet.post = FALSE  BY <2>1, <2>2
  <2> QED BY <2>3, <2>4, <2>5, <2>6
<1>4. bt.cnt = 0 /\ bt.rp = 0 /\ bt.curCnt = 0 /\ bt.curRp = 0  BY <1>1, <1>2 DEF DapRoom
<1>5. todo' \in Seq(Needs) /\ Len(todo') <= 1 /\ Ends(todo') = 0 /\ Adds(todo') = 0
  <2>1. x \in Needs /\ ~x.keep /\ ~x.ends  BY DEF Needs
  <2> HIDE DEF x
  <2>2. <<x>> \in Seq(Needs) /\ Len(<<x>>) <= 1 /\ Ends(<<x>>) = 0 /\ Adds(<<x>>) = 0
    <3>1. Len(<<x>>) = 1  BY <2>1, NeedsOfOne
    <3> QED BY <2>1, <3>1, NeedsOfOne
  <2>3. <<>> \in Seq(Needs) /\ Len(<<>>) <= 1 /\ Ends(<<>>) = 0 /\ Adds(<<>>) = 0
    <3>1. Len(<<>>) = 0  OBVIOUS
    <3> QED BY <3>1, NeedsOfNone
  <2>4. todo' = <<x>> \/ todo' = <<>>  BY <1>1
  <2> QED BY <2>2, <2>3, <2>4, Zenon
<1>6. DapTypes'
  <2>1. Len(todo') <= 2 /\ Len(todo') # 2  BY <1>5
  <2> QED BY <1>1, <1>2, <1>3, <1>5, <2>1 DEF DapTypes
<1>7. DapRoom'
  <2>1. Due' = 0 /\ Coming' \in 0 .. Words  BY <1>1, <1>3 DEF Due, Coming
  <2>2. bt'.cnt = 0 /\ bt'.rp = 0 /\ bt'.curCnt = 0 /\ bt'.curRp = 0  BY <1>1, <1>4
  <2>3. bt'.cnt + packet'.left + Ends(todo') <= MaxReqs  BY <1>3, <1>5, <2>2
  <2>4. bt'.rp + Adds(todo') + Due' + Coming' <= Words
    <3> DEFINE c == Coming'
    <3>1. c \in 0 .. Words  BY <2>1
    <3> HIDE DEF c
    <3>2. 0 + 0 + 0 + c <= Words  BY <3>1
    <3> QED BY <1>5, <2>1, <2>2, <3>2, Zenon DEF c
  <2> QED BY <1>3, <2>2, <2>3, <2>4 DEF DapRoom
<1>8. DapMatch'  BY <1>1, <1>2, MatchStays
<1> QED BY <1>6, <1>7, <1>8 DEF DapInv

\* do_transfer: the next request, if the response has room.
LEMMA RequestKeeps ==
    ASSUME DapInv, NEW r \in {"apr", "dpr", "w"}, Probe!Request(r)
    PROVE  DapInv'
<1> USE ProbeNumbers
<1>1. /\ packet.kind = "transfer" /\ packet.left > 0 /\ todo = <<>> /\ bt' = Probe!Stand(bt) /\ UNCHANGED <<plan, one>>
      /\ \/ packet' = [packet EXCEPT !.left = 0] /\ todo' = todo
         \/ /\ bt.rp + 3 <= Words /\ packet' = [packet EXCEPT !.left = @ - 1, !.post = (r = "apr")]
            /\ todo' = Probe!Transfers(r)
  <2>1. CASE Probe!NoRoom
    BY <2>1 DEF Probe!Request, Probe!AtRequest
  <2>2. CASE ~Probe!NoRoom
    <3>1. bt.rp + 3 <= Words  BY <2>2, RoomIs DEF Probe!NoRoom
    <3> QED BY <2>2, <3>1 DEF Probe!Request, Probe!AtRequest
  <2> QED BY <2>1, <2>2
<1>2. DapTypes /\ DapRoom /\ DapMatch  BY DEF DapInv
<1>3. /\ bt' \in Batches /\ bt'.curCnt = bt.cnt /\ bt'.curRp = bt.rp
      /\ bt'.failed = bt.failed /\ bt'.ack = bt.ack /\ bt'.cnt = bt.cnt
      /\ bt'.rp = bt.rp /\ bt'.wire = bt.wire /\ bt'.out = bt.out /\ bt'.ops = bt.ops /\ bt'.ran = bt.ran
  BY <1>1, RoomIs, StandIs
<1>4. DapMatch'  BY <1>1, <1>2, <1>3, MatchStays
<1>5. /\ packet.left \in 0 .. MaxReqs /\ packet.post \in BOOLEAN /\ bt.cnt \in Nat /\ bt.rp \in Nat
      /\ packet.left \in Nat
      /\ ~bt.failed => bt.cnt + packet.left <= MaxReqs /\ bt.rp + Due + Coming <= Words
      /\ Due \in Nat /\ Coming = 0
  BY <1>1, RoomIs DEF Due, Coming
<1>6. CASE packet' = [packet EXCEPT !.left = 0] /\ todo' = todo
  <2>1. /\ packet' \in [kind : {"none", "transfer", "block", "ended"}, block : {"apr", "dpr", "w"},
                        left : 0 .. MaxReqs, post : BOOLEAN]
        /\ packet'.kind = "transfer" /\ packet'.left = 0 /\ packet'.post = packet.post
    <3> DEFINE Packets == [kind : {"none", "transfer", "block", "ended"}, block : {"apr", "dpr", "w"},
                           left : 0 .. MaxReqs, post : BOOLEAN]
    <3>1. packet \in Packets /\ 0 \in 0 .. MaxReqs  BY <1>2 DEF DapTypes
    <3>2. packet' \in Packets  BY <1>6, <3>1
    <3>3. packet'.kind = "transfer" /\ packet'.left = 0  BY <1>1, <1>6, <3>1
    <3>4. packet'.post = packet.post  BY <1>6, <3>1
    <3> QED BY <3>2, <3>3, <3>4
  <2>2. DapTypes'  BY <1>1, <1>2, <1>3, <1>6, <2>1 DEF DapTypes
  <2>3. Due' = Due /\ Coming' = 0 /\ Ends(todo') = 0 /\ Adds(todo') = 0
    BY <1>1, <1>6, <2>1, NeedsOfNone DEF Due, Coming
  <2>4. ~bt.failed => bt.cnt + 0 + 0 <= MaxReqs /\ bt.rp + 0 + Due + 0 <= Words
    <3> HIDE DEF Due
    <3> QED BY <1>5
  <2>5. DapRoom'  BY <1>3, <2>1, <2>3, <2>4 DEF DapRoom
  <2> QED BY <1>4, <2>2, <2>5 DEF DapInv
<1>7. CASE /\ bt.rp + 3 <= Words /\ packet' = [packet EXCEPT !.left = @ - 1, !.post = (r = "apr")]
           /\ todo' = Probe!Transfers(r)
  <2>1. /\ packet' \in [kind : {"none", "transfer", "block", "ended"}, block : {"apr", "dpr", "w"},
                        left : 0 .. MaxReqs, post : BOOLEAN]
        /\ packet'.kind = "transfer" /\ packet'.left = packet.left - 1
    <3> DEFINE l == packet.left - 1
               b == (r = "apr")
    <3>1. packet' = [packet EXCEPT !.left = l, !.post = b]  BY <1>2, <1>7 DEF DapTypes
    <3>2. l \in 0 .. MaxReqs /\ b \in BOOLEAN  BY <1>1, <1>5, SMTT(30)
    <3> HIDE DEF l, b
    <3>3. /\ packet' \in [kind : {"none", "transfer", "block", "ended"}, block : {"apr", "dpr", "w"},
                          left : 0 .. MaxReqs, post : BOOLEAN]
          /\ packet'.kind = "transfer" /\ packet'.left = l
      BY <1>1, <1>2, <3>1, <3>2 DEF DapTypes
    <3> QED BY <3>3 DEF l
  <2>2. /\ todo' \in Seq(Needs) /\ Len(todo') <= 2 /\ (Len(todo') = 2 => ~todo'[1].ends) /\ Adds(todo') \in 0 .. 2
        /\ Ends(todo') = 1
    BY <1>5, <1>7, NeedsOfRequest
  <2>3. DapTypes'
    <3>1. bt.ran <= Len(bt.ops) /\ Len(bt.ops) <= RecMax  BY <1>2 DEF DapTypes
    <3>2. bt'.ran <= Len(bt'.ops) /\ Len(bt'.ops) <= RecMax  BY <1>3, <3>1
    <3>3. plan' = plan /\ one' = one  BY <1>1
    <3> QED BY <1>2, <1>3, <2>1, <2>2, <3>2, <3>3 DEF DapTypes
  <2>4. Due' \in 0 .. 1 /\ Coming' = 0  BY <2>1 DEF Due, Coming
  <2>5. ~bt.failed => bt'.cnt + packet'.left + Ends(todo') <= MaxReqs
    <3>1. ~bt.failed => bt.cnt + (packet.left - 1) + 1 <= MaxReqs  BY <1>5
    <3> QED BY <1>3, <2>1, <2>2, <3>1
  <2>6. bt'.rp + Adds(todo') + Due' + Coming' <= Words
    <3> DEFINE a == Adds(todo')
               u == Due'
    <3>1. a \in 0 .. 2 /\ u \in 0 .. 1  BY <2>2, <2>4
    <3> HIDE DEF a, u
    <3>2. bt.rp + a + u + 0 <= Words  BY <1>5, <1>7, <3>1
    <3> QED BY <1>3, <2>4, <3>2, Zenon DEF a, u
  <2>7. DapRoom'  BY <1>3, <2>1, <2>5, <2>6 DEF DapRoom
  <2> QED BY <1>4, <2>3, <2>7 DEF DapInv
<1> QED BY <1>1, <1>6, <1>7

\* do_transfer_block, and the end of do_transfer: one transfer more.
LEMMA OneMoreKeeps ==
    ASSUME DapInv, Probe!BlockWord \/ Probe!LastPosted
    PROVE  DapInv'
<1> USE ProbeNumbers
<1> DEFINE Packets == [kind : {"none", "transfer", "block", "ended"}, block : {"apr", "dpr", "w"},
                       left : 0 .. MaxReqs, post : BOOLEAN]
<1>1. DapTypes /\ DapRoom /\ DapMatch /\ packet \in Packets  BY DEF DapInv, DapTypes
<1>2. ASSUME NEW x \in Needs, todo' = <<x>>, todo = <<>>, bt' = Probe!Stand(bt), UNCHANGED <<plan, one>>,
             packet' \in Packets, packet'.kind # "none", packet'.kind # "transfer" => ~packet'.post,
             NEW e \in {0, 1}, NEW k \in {0, 1}, x.ends => e = 1, ~x.ends => e = 0, x.keep => k = 1, ~x.keep => k = 0,
             packet'.left + e = packet.left, Due' + Coming' + k = Due + Coming
      PROVE  DapInv'
  <2>1. /\ bt' \in Batches /\ bt'.curCnt = bt.cnt /\ bt'.curRp = bt.rp
        /\ bt'.failed = bt.failed /\ bt'.ack = bt.ack /\ bt'.cnt = bt.cnt
        /\ bt'.rp = bt.rp /\ bt'.wire = bt.wire /\ bt'.out = bt.out /\ bt'.ops = bt.ops /\ bt'.ran = bt.ran
    BY <1>2, RoomIs, StandIs
  <2>2. DapMatch'  BY <1>1, <1>2, <2>1, MatchStays
  <2>3. todo' \in Seq(Needs) /\ Len(todo') = 1 /\ Adds(todo') = k /\ Ends(todo') = e
    <3>1. /\ <<x>> \in Seq(Needs) /\ Len(<<x>>) = 1 /\ Adds(<<x>>) = (IF x.keep THEN 1 ELSE 0)
          /\ Ends(<<x>>) = (IF x.ends THEN 1 ELSE 0)
      BY NeedsOfOne
    <3>2. (IF x.keep THEN 1 ELSE 0) = k /\ (IF x.ends THEN 1 ELSE 0) = e  BY <1>2
    <3> QED BY <1>2, <3>1, <3>2, Zenon
  <2>4. DapTypes'
    <3>1. bt.ran <= Len(bt.ops) /\ Len(bt.ops) <= RecMax /\ Len(todo') <= 2 /\ Len(todo') # 2
      BY <1>1, <2>3 DEF DapTypes
    <3>2. bt'.ran <= Len(bt'.ops) /\ Len(bt'.ops) <= RecMax  BY <2>1, <3>1
    <3>3. plan' = plan /\ one' = one  BY <1>2
    <3> QED BY <1>1, <1>2, <2>1, <2>3, <3>1, <3>2, <3>3 DEF DapTypes
  <2>5. /\ bt.cnt \in Nat /\ bt.rp \in Nat /\ packet.left \in Nat /\ packet'.left \in Nat
        /\ ~bt.failed => /\ bt.cnt + packet.left <= MaxReqs /\ bt.rp + Due + Coming <= Words
                         /\ Due \in Nat /\ Coming \in Nat
    BY <1>2, RoomIs
  <2>6. ~bt.failed => bt'.cnt + packet'.left + Ends(todo') <= MaxReqs
    <3>1. ~bt.failed => bt.cnt + packet'.left + e <= MaxReqs  BY <1>2, <2>5
    <3> QED BY <2>1, <2>3, <3>1
  <2>7. ~bt.failed => bt'.rp + Adds(todo') + Due' + Coming' <= Words
    <3> DEFINE u == Due'
               c == Coming'
               v == Due
               d == Coming
    <3>1. u \in Nat /\ c \in Nat  BY <1>2, <2>5 DEF Due, Coming
    <3>2. u + c + k = v + d  BY <1>2
    <3>3. ~bt.failed => bt.rp + v + d <= Words /\ v \in Nat /\ d \in Nat  BY <2>5
    <3> HIDE DEF u, c, v, d
    <3>4. ~bt.failed => bt.rp + k + u + c <= Words
      <4>1. \A r, w, a, b, f, g \in Nat, j \in {0, 1} : a + b + j = f + g /\ r + f + g <= w => r + j + a + b <= w
        OBVIOUS
      <4>2. bt.rp \in Nat /\ Words \in Nat  BY <2>5
      <4> QED BY <3>1, <3>2, <3>3, <4>1, <4>2
    <3> QED BY <2>1, <2>3, <3>4, Zenon DEF u, c
  <2>8. DapRoom'  BY <1>2, <2>1, <2>6, <2>7 DEF DapRoom
  <2> QED BY <2>2, <2>4, <2>8 DEF DapInv
<1>3. CASE Probe!BlockWord
  <2> DEFINE x == [req |-> IF packet.block = "apr" /\ packet.left = 1 THEN "rdbuff" ELSE packet.block,
                   keep |-> packet.block # "w", ends |-> TRUE]
             k == IF packet.block # "w" THEN 1 ELSE 0
  <2>1. /\ packet.kind = "block" /\ packet.left > 0 /\ todo = <<>> /\ bt' = Probe!Stand(bt) /\ todo' = <<x>>
        /\ packet' = [packet EXCEPT !.left = @ - 1] /\ UNCHANGED <<plan, one>>
    BY <1>3 DEF Probe!BlockWord, Probe!AtRequest, Probe!Op
  <2>2. x \in Needs /\ x.ends /\ (x.keep <=> packet.block # "w")  BY <1>1 DEF Needs
  <2> HIDE DEF x
  <2>3. ~packet.post /\ packet.left \in 1 .. MaxReqs  BY <1>1, <2>1 DEF DapRoom
  <2>4. packet' \in Packets  BY <1>1, <2>1, <2>3
  <2>5. packet'.kind = "block" /\ packet'.left = packet.left - 1 /\ packet'.block = packet.block
    BY <1>1, <2>1
  <2>6. packet'.post = packet.post  BY <1>1, <2>1
  <2>7. Due' = 0 /\ Due = 0  BY <2>3, <2>6 DEF Due
  <2>8. Due' + Coming' + k = Due + Coming
    <3>1. Coming' + k = Coming
      <4>1. CASE packet.block = "w"
        BY <2>5, <4>1 DEF Coming
      <4>2. CASE packet.block # "w"
        <5>1. Coming' = packet.left - 1 /\ Coming = packet.left /\ k = 1
          BY <2>1, <2>5, <4>2 DEF Coming
        <5> QED BY <2>3, <5>1
      <4> QED BY <4>1, <4>2
    <3>2. Coming \in Nat /\ Coming' \in Nat  BY <2>3, <2>5 DEF Coming
    <3> DEFINE c == Coming'
               d == Coming
    <3>3. c \in Nat /\ d \in Nat /\ c + k = d /\ k \in {0, 1}  BY <3>1, <3>2
    <3> HIDE DEF c, d, k
    <3>4. 0 + c + k = 0 + d  BY <3>3
    <3> QED BY <2>7, <3>4, Zenon DEF c, d
  <2>9. k \in {0, 1} /\ (x.keep => k = 1) /\ (~x.keep => k = 0) /\ packet'.left + 1 = packet.left
    BY <2>2, <2>3, <2>5
  <2>10. ~packet'.post  BY <2>3, <2>6
  <2> HIDE DEF k
  <2> QED BY <1>2, <2>1, <2>2, <2>4, <2>5, <2>8, <2>9, <2>10
<1>4. CASE Probe!LastPosted
  <2> DEFINE x == [req |-> "rdbuff", keep |-> TRUE, ends |-> FALSE]
  <2>1. /\ packet.kind = "transfer" /\ packet.left = 0 /\ todo = <<>> /\ packet.post /\ bt' = Probe!Stand(bt)
        /\ todo' = <<x>> /\ packet' = [packet EXCEPT !.post = FALSE] /\ UNCHANGED <<plan, one>>
    BY <1>4 DEF Probe!LastPosted, Probe!Op
  <2>2. x \in Needs /\ ~x.ends /\ x.keep  BY DEF Needs
  <2> HIDE DEF x
  <2>3. packet' \in Packets  BY <1>1, <2>1
  <2>4. packet'.kind = "transfer" /\ packet'.left = 0 /\ ~packet'.post  BY <1>1, <2>1
  <2>5. Due' = 0 /\ Coming' = 0 /\ Due = 1 /\ Coming = 0  BY <2>1, <2>4 DEF Due, Coming
  <2>6. Due' + Coming' + 1 = Due + Coming /\ packet'.left + 0 = packet.left  BY <2>1, <2>4, <2>5
  <2> QED BY <1>2, <2>1, <2>2, <2>3, <2>4, <2>6
<1> QED BY <1>3, <1>4

\* rec_flush: the list ran to its end.
LEMMA FlushedKeeps ==
    ASSUME DapInv, Probe!Flushed
    PROVE  DapInv'
<1> USE ProbeNumbers
<1>1. /\ ~bt.failed /\ bt.ops # <<>> /\ bt.ran = Len(bt.ops) /\ bt' = [bt EXCEPT !.ops = <<>>, !.ran = 0]
      /\ UNCHANGED <<plan, packet, todo, one>>
  BY DEF Probe!Flushed
<1>2. DapTypes /\ DapRoom /\ DapMatch /\ bt \in Batches  BY DEF DapInv, DapTypes
<1> DEFINE none == <<>>
<1>3. none \in Seq(Entries) /\ Len(none) = 0 /\ bt' = [bt EXCEPT !.ops = none, !.ran = 0]
  BY <1>1
<1> HIDE DEF none
<1>4. /\ bt' \in Batches /\ bt'.ops = none /\ bt'.ran = 0 /\ bt'.cnt = bt.cnt /\ bt'.rp = bt.rp /\ bt'.ack = bt.ack
      /\ bt'.wire = bt.wire /\ bt'.out = bt.out /\ bt'.curCnt = bt.curCnt /\ bt'.curRp = bt.curRp
      /\ bt'.failed = bt.failed
  BY <1>2, <1>3 DEF Batches
<1>5. DapTypes'
  <2>1. bt'.ran <= Len(bt'.ops) /\ Len(bt'.ops) <= RecMax  BY <1>3, <1>4
  <2> QED BY <1>1, <1>2, <1>4, <2>1 DEF DapTypes
<1>6. DapRoom'
  <2>1. packet.kind # "none"  BY <1>1, <1>2 DEF DapRoom
  <2>2. packet' = packet /\ todo' = todo /\ Due' = Due /\ Coming' = Coming
    BY <1>1 DEF Due, Coming
  <2>3. /\ bt.cnt + packet.left + Ends(todo) <= MaxReqs /\ bt.rp + Adds(todo) + Due + Coming <= Words
        /\ todo # <<>> => bt.curCnt = bt.cnt /\ bt.curRp = bt.rp
        /\ packet.kind # "transfer" => ~packet.post
    BY <1>1, <1>2 DEF DapRoom
  <2>4. /\ bt'.cnt + packet'.left + Ends(todo') <= MaxReqs /\ bt'.rp + Adds(todo') + Due' + Coming' <= Words
        /\ todo' # <<>> => bt'.curCnt = bt'.cnt /\ bt'.curRp = bt'.rp
    BY <1>4, <2>2, <2>3
  <2> QED BY <2>1, <2>2, <2>3, <2>4 DEF DapRoom
<1>7. DapMatch'
  <2>1. PICK k \in 0 .. Len(bt.ops) - bt.ran : Ahead(plan, one, bt, k)
    BY <1>1, <1>2 DEF DapMatch
  <2>2. k = 0 /\ bt.ran + k = Len(bt.ops) /\ Len(bt.ops) \in Nat
    <3>1. Len(bt.ops) \in Nat  BY <1>2 DEF Batches
    <3> QED BY <1>1, <2>1, <3>1
  <2>3. one.wire = bt.wire + k /\ one.ack = "ok" /\ one.cnt = bt.cnt /\ one.rp = bt.rp
    BY <2>1, <2>2, Zenon DEF Ahead
  <2>4. \A p \in 0 .. Words - 1 : one.out[p] = bt.out[p]
    <3>1. \A p \in 0 .. Words - 1 : (\A j \in 1 .. k : bt.ops[bt.ran + j].dst # p) => one.out[p] = bt.out[p]
      BY <2>1, Zenon DEF Ahead
    <3>2. 1 .. k = {}  BY <2>2
    <3> QED BY <3>1, <3>2
  <2>5. 1 .. 0 = {} /\ bt'.ran + 0 = Len(bt'.ops) /\ bt'.wire + 0 = bt.wire
    <3>1. bt.wire \in Nat  BY <1>2 DEF Batches
    <3> QED BY <1>3, <1>4, <3>1
  <2>6. one.wire = bt.wire
    <3>1. bt.wire \in Nat  BY <1>2 DEF Batches
    <3> QED BY <2>2, <2>3, <3>1
  <2>7. Ahead(plan, one, bt', 0)
    <3>1. /\ one.wire = bt'.wire + 0
          /\ \A j \in 1 .. 0 : ~Lost(plan, bt'.wire + j, bt'.ops[bt'.ran + j].req)
          /\ \A j \in 1 .. 0 : bt'.ops[bt'.ran + j].dst # Words => one.out[bt'.ops[bt'.ran + j].dst] = bt'.wire + j
      BY <2>5, <2>6
    <3>2. one.ack = "ok" /\ one.cnt = bt'.cnt /\ one.rp = bt'.rp  BY <1>4, <2>3
    <3>3. \A p \in 0 .. Words - 1 : one.out[p] = bt'.out[p]  BY <1>4, <2>4
    <3> QED BY <2>5, <3>1, <3>2, <3>3, Zenon DEF Ahead
  <2>8. Apart(bt')  BY <1>3, <1>4 DEF Apart
  <2>9. 0 \in 0 .. Len(bt'.ops) - bt'.ran  BY <1>3, <1>4
  <2>10. ~bt'.failed /\ bt'.ack = "ok" /\ plan' = plan /\ one' = one
    BY <1>1, <1>2, <1>4 DEF DapMatch
  <2> QED BY <2>7, <2>8, <2>9, <2>10 DEF DapMatch
<1> QED BY <1>5, <1>6, <1>7 DEF DapInv

\* The response goes out.
LEMMA EndKeeps ==
    ASSUME DapInv, Probe!End
    PROVE  DapInv'
<1> USE ProbeNumbers
<1> DEFINE Packets == [kind : {"none", "transfer", "block", "ended"}, block : {"apr", "dpr", "w"},
                       left : 0 .. MaxReqs, post : BOOLEAN]
<1>1. DapTypes /\ DapRoom /\ DapMatch /\ packet \in Packets  BY DEF DapInv, DapTypes
<1>2. /\ packet.kind \in {"transfer", "block"} /\ packet.left = 0 /\ todo = <<>> /\ ~packet.post
      /\ packet' = [packet EXCEPT !.kind = "ended"] /\ UNCHANGED <<plan, todo, one, bt>>
  BY DEF Probe!End
<1>3. packet' \in Packets  BY <1>1, <1>2
<1>4. packet'.kind = "ended" /\ packet'.left = 0  BY <1>1, <1>2
<1>5. packet'.post = packet.post  BY <1>1, <1>2
<1>6. DapTypes'  BY <1>1, <1>2, <1>3 DEF DapTypes
<1>7. DapRoom'
  <2>1. Due' = Due /\ Coming' = 0 /\ Coming = 0 /\ ~packet'.post
    BY <1>2, <1>4, <1>5 DEF Due, Coming
  <2>2. ~bt.failed => /\ bt.cnt + packet.left + Ends(todo) <= MaxReqs /\ bt.rp + Adds(todo) + Due + Coming <= Words
                      /\ (todo # <<>> => bt.curCnt = bt.cnt /\ bt.curRp = bt.rp)
    BY <1>1 DEF DapRoom
  <2>3. bt' = bt /\ todo' = todo /\ packet'.left = packet.left  BY <1>2, <1>4
  <2> HIDE DEF Packets
  <2>4. ~bt'.failed => /\ bt'.cnt + packet'.left + Ends(todo') <= MaxReqs
                       /\ bt'.rp + Adds(todo') + Due' + Coming' <= Words
                       /\ (todo' # <<>> => bt'.curCnt = bt'.cnt /\ bt'.curRp = bt'.rp)
    BY <2>1, <2>2, <2>3, Zenon
  <2> QED BY <1>4, <2>1, <2>4 DEF DapRoom
<1>8. DapMatch'  BY <1>1, <1>2, MatchStays
<1> QED BY <1>6, <1>7, <1>8 DEF DapInv

\* Every step of a packet, whatever the target answers.
LEMMA DapKeeps == DapInv /\ [Probe!Next]_probeVars => DapInv'
<1> SUFFICES ASSUME DapInv, [Probe!Next]_probeVars PROVE DapInv'
  OBVIOUS
<1>1. CASE UNCHANGED probeVars
  <2>1. UNCHANGED <<plan, packet, todo, one, bt>>  BY <1>1 DEF probeVars
  <2>2. DapTypes' /\ DapRoom'  BY <2>1 DEF DapInv, DapTypes, DapRoom, Due, Coming
  <2>3. DapMatch'  BY <2>1, MatchStays DEF DapInv
  <2> QED BY <2>2, <2>3 DEF DapInv
<1>2. CASE \E n \in 1 .. MaxReqs : Probe!Begin(n) \/ \E r \in {"apr", "dpr", "w"} : Probe!BeginBlock(r, n)
  BY <1>2, PacketKeeps, BlockKeeps, Zenon
<1>3. CASE \E r \in {"apr", "dpr", "w"} : Probe!Request(r)
  BY <1>3, RequestKeeps, Zenon
<1>4. CASE Probe!BlockWord \/ Probe!LastPosted
  BY <1>4, OneMoreKeeps, Zenon
<1>5. CASE Probe!Issue \/ Probe!RunQueue \/ Probe!Flushed \/ Probe!End
  BY <1>5, IssueKeeps, RunKeeps, FlushedKeeps, EndKeeps, Zenon
<1> QED BY <1>1, <1>2, <1>3, <1>4, <1>5, Zenon DEF Probe!Next

\* No packet: both wait.
LEMMA DapStarts == Probe!Init => DapInv
<1> SUFFICES ASSUME Probe!Init PROVE DapInv
  OBVIOUS
<1> USE ProbeNumbers
<1>1. /\ packet = [kind |-> "none", block |-> "w", left |-> 0, post |-> FALSE] /\ todo = <<>>
      /\ one = [cnt |-> 0, rp |-> 0, ack |-> "ok", wire |-> 0, out |-> Probe!Blank]
      /\ bt = [cnt |-> 0, rp |-> 0, ack |-> "ok", wire |-> 0, out |-> Probe!Blank, curCnt |-> 0, curRp |-> 0,
               ops |-> <<>>, ran |-> 0, waits |-> 0, failed |-> FALSE]
      /\ plan \in [at : 0 .. 2 * MaxReqs, kind : {"fault", "noack", "perr", "wait"}, waits : 1 .. WaitRetry + 1]
  BY DEF Probe!Init
<1>2. Probe!Blank \in Outs  BY DEF Probe!Blank, Outs
<1> DEFINE none == <<>>
<1>3. none \in Seq(Entries) /\ Len(none) = 0 /\ none = <<>> /\ none \in Seq(Needs)  OBVIOUS
<1>4. todo = none /\ bt.ops = none /\ Adds(none) = 0 /\ Ends(none) = 0  BY <1>1, NeedsOfNone
<1> HIDE DEF none
<1>5. DapTypes
  <2>1. one \in Loops  BY <1>1, <1>2 DEF Loops, Acks
  <2>2. bt \in Batches
    <3>1. bt = [cnt |-> 0, rp |-> 0, ack |-> "ok", wire |-> 0, out |-> Probe!Blank, curCnt |-> 0, curRp |-> 0,
                ops |-> none, ran |-> 0, waits |-> 0, failed |-> FALSE]
      BY <1>1, <1>3
    <3> QED BY <1>2, <1>3, <3>1 DEF Batches, Acks
  <2>3. packet \in [kind : {"none", "transfer", "block", "ended"}, block : {"apr", "dpr", "w"},
                    left : 0 .. MaxReqs, post : BOOLEAN]
    BY <1>1
  <2>4. Len(todo) = 0 /\ todo \in Seq(Needs) /\ Len(bt.ops) = 0 /\ bt.ran = 0
    BY <1>1, <1>3, <1>4
  <2>5. Len(todo) <= 2 /\ Len(todo) # 2 /\ Len(bt.ops) <= RecMax /\ bt.ran <= Len(bt.ops)
    BY <2>4
  <2> QED BY <1>1, <2>1, <2>2, <2>3, <2>4, <2>5 DEF DapTypes
<1>6. DapRoom
  <2>1. bt.cnt = 0 /\ bt.rp = 0 /\ bt.curCnt = 0 /\ bt.curRp = 0 /\ packet.left = 0 /\ ~packet.post
        /\ packet.kind = "none"
    BY <1>1
  <2>2. Due = 0 /\ Coming = 0 /\ Adds(todo) = 0 /\ Ends(todo) = 0  BY <1>4, <2>1 DEF Due, Coming
  <2> QED BY <1>1, <2>1, <2>2 DEF DapRoom
<1>7. DapMatch
  <2>1. ~bt.failed /\ bt.ack = "ok" /\ bt.ran = 0 /\ bt.wire = 0 /\ one.wire = 0 /\ one.out = bt.out /\ one.ack = "ok"
        /\ one.cnt = bt.cnt /\ one.rp = bt.rp
    BY <1>1
  <2>2. Apart(bt)  BY <1>3, <1>4 DEF Apart
  <2>3. 1 .. 0 = {} /\ bt.ran + 0 = Len(bt.ops) /\ one.wire = bt.wire + 0 /\ 0 \in 0 .. Len(bt.ops) - bt.ran
    BY <1>3, <1>4, <2>1
  <2>4. Ahead(plan, one, bt, 0)
    <3>1. /\ \A j \in 1 .. 0 : ~Lost(plan, bt.wire + j, bt.ops[bt.ran + j].req)
          /\ \A j \in 1 .. 0 : bt.ops[bt.ran + j].dst # Words => one.out[bt.ops[bt.ran + j].dst] = bt.wire + j
      BY <2>3
    <3> QED BY <2>1, <2>3, <3>1, Zenon DEF Ahead
  <2> QED BY <2>1, <2>2, <2>3, <2>4 DEF DapMatch
<1> QED BY <1>5, <1>6, <1>7 DEF DapInv

\* What the host sees of a packet.
LEMMA DapSays == DapInv => Probe!TypeOK /\ Probe!BatchAgrees
<1> SUFFICES ASSUME DapInv PROVE Probe!TypeOK /\ Probe!BatchAgrees
  OBVIOUS
<1> USE ProbeNumbers
<1>1. DapTypes /\ DapMatch  BY DEF DapInv
<1>2. one \in Loops /\ bt \in Batches  BY <1>1 DEF DapTypes
<1>3. Probe!TypeOK
  <2>1. todo \in Seq([req : Probe!Reads \cup {"w"}, keep : BOOLEAN, ends : BOOLEAN])
    <3>1. Probe!Reads \cup {"w"} = {"apr", "dpr", "rdbuff", "w"}  BY DEF Probe!Reads
    <3>2. Needs = [req : Probe!Reads \cup {"w"}, keep : BOOLEAN, ends : BOOLEAN]
      BY <3>1, Zenon DEF Needs
    <3> QED BY <1>1, <3>2 DEF DapTypes
  <2>2. {one.rp, bt.rp} \subseteq 0 .. Words /\ {one.cnt, bt.cnt} \subseteq 0 .. MaxReqs
    BY <1>2 DEF Loops, Batches
  <2>3. Len(bt.ops) <= RecMax /\ bt.ran \in 0 .. Len(bt.ops) /\ bt.waits \in 0 .. WaitRetry
    <3>1. Len(bt.ops) <= RecMax /\ bt.ran <= Len(bt.ops) /\ bt.ran \in Nat /\ Len(bt.ops) \in Nat
          /\ bt.waits \in 0 .. WaitRetry
      BY <1>1, <1>2 DEF DapTypes, Batches
    <3> QED BY <3>1
  <2> QED BY <1>1, <2>1, <2>2, <2>3 DEF DapTypes, Probe!TypeOK
<1>4. Probe!BatchAgrees
  <2> SUFFICES ASSUME bt.failed \/ bt.ops = <<>> PROVE Probe!Response(bt) = Probe!Response(one)
    BY DEF Probe!BatchAgrees
  <2>1. one.ack = bt.ack /\ one.cnt = bt.cnt /\ one.rp = bt.rp /\ one.wire = bt.wire
        /\ \A p \in 0 .. Words - 1 : one.out[p] = bt.out[p]
    <3>1. CASE bt.failed
      BY <1>1, <3>1 DEF DapMatch
    <3>2. CASE ~bt.failed
      <4>1. PICK k \in 0 .. Len(bt.ops) - bt.ran : Ahead(plan, one, bt, k)
        BY <1>1, <3>2 DEF DapMatch
      <4>2. Len(bt.ops) = 0  BY <3>2
      <4>3. k = 0 /\ bt.ran + k = Len(bt.ops) /\ bt.wire \in Nat
        <5>1. bt.ran \in Nat /\ bt.wire \in Nat  BY <1>2 DEF Batches
        <5> QED BY <4>1, <4>2, <5>1
      <4>4. one.wire = bt.wire + k /\ one.ack = "ok" /\ one.cnt = bt.cnt /\ one.rp = bt.rp
        BY <4>1, <4>3, Zenon DEF Ahead
      <4>5. \A p \in 0 .. Words - 1 : (\A j \in 1 .. k : bt.ops[bt.ran + j].dst # p) => one.out[p] = bt.out[p]
        BY <4>1, Zenon DEF Ahead
      <4>6. \A p \in 0 .. Words - 1 : one.out[p] = bt.out[p]
        <5>1. 1 .. k = {}  BY <4>3
        <5> QED BY <4>5, <5>1
      <4>7. one.wire = bt.wire /\ bt.ack = "ok"  BY <1>1, <3>2, <4>3, <4>4 DEF DapMatch
      <4> QED BY <4>4, <4>6, <4>7
    <3> QED BY <3>1, <3>2
  <2>2. [i \in 0 .. bt.rp - 1 |-> bt.out[i]] = [i \in 0 .. one.rp - 1 |-> one.out[i]]
    <3>1. bt.rp \in 0 .. Words  BY <1>2 DEF Batches
    <3>2. \A i \in 0 .. bt.rp - 1 : i \in 0 .. Words - 1  BY <3>1
    <3> QED BY <2>1, <3>2
  <2> QED BY <2>1, <2>2, Zenon DEF Probe!Response
<1> QED BY <1>3, <1>4

--------------------------------------------------------------------------------
\* The engines, whichever of them is in use.
EnginesInv ==
    PowerInv /\ ProfileInv /\ CanInv /\ UartInv /\ SensorInv /\ SpiInv /\ DapInv /\ which \in Engines

\* A step is one engine's; the others stay.
LEMMA EngineSteps ==
    [MCNext]_mcVars => /\ [Power!Next]_powerVars /\ [Profile!Next]_profileVars /\ [Can!Next]_canVars
                       /\ [Uart!Next]_uartVars /\ [Sensor!Next]_sensorVars /\ [Spi!Next]_spiVars
                       /\ [Probe!Next]_probeVars /\ which' = which
  BY DEF MCNext, Rest, mcVars

\* The invariants of the engines hold in every behaviour.
LEMMA EnginesHold == MCSpec => []EnginesInv
<1>1. MCInit => EnginesInv
  BY PowerStarts, ProfileStarts, CanStarts, UartStarts, SensorStarts, SpiStarts, DapStarts DEF MCInit, EnginesInv
<1>2. EnginesInv /\ [MCNext]_mcVars => EnginesInv'
  BY EngineSteps, PowerKeeps, ProfileKeeps, CanKeeps, UartKeeps, SensorKeeps, SpiKeeps, DapKeeps DEF EnginesInv
<1> QED BY <1>1, <1>2, PTL DEF MCSpec

\* target_power.c, power_profile.c, sensor_bmp280.c: for any eFuses, failures on the bus, profiles, readings, stores,
\* clients and tables, an eFuse is as its client was told, the bins of a profile stand for every reading, a reply is
\* of one profile, whole, and the bisection finds the nearest code.
THEOREM ReportsAreTrue == MCSpec => []ToldIsTrue
<1>1. EnginesInv => ToldIsTrue  BY ProfileSays, SensorSays DEF EnginesInv, PowerInv, ToldIsTrue
<1> QED BY <1>1, EnginesHold, PTL

\* can_bus.c, signal_engine.c, gps_sim.c: for any rings, FIFOs, frames, bytes, epochs and image swaps, frames and bytes
\* arrive in order, what was lost is known to be, and epochs go out whole.
THEOREM LinesAreInOrder == MCSpec => []LinesInOrder
<1>1. EnginesInv => LinesInOrder  BY CanSays, UartSays DEF EnginesInv, LinesInOrder
<1> QED BY <1>1, EnginesHold, PTL

\* dap.c, spi_flash.c, command_handler_spi.c: for any packet, list, queue and target, and any part, fault and order of
\* commands, the batch answers as the one-by-one loop, what is reported as erased or programmed is, and a client's
\* commands stay out of the frame of another.
THEOREM WireIsRight == MCSpec => []WireAgrees
<1>1. EnginesInv => WireAgrees  BY DapSays, SpiSays DEF EnginesInv, WireAgrees
<1> QED BY <1>1, EnginesHold, PTL

\* The engines' state is well formed, for any of the constants.
THEOREM EngineTypes == MCSpec => []TypesOK
<1>1. EnginesInv => TypesOK
  <2>1. EnginesInv => /\ Power!TypeOK /\ Profile!TypeOK /\ Can!TypeOK /\ Probe!TypeOK /\ Spi!TypeOK /\ Uart!TypeOK
                      /\ Sensor!TypeOK /\ which \in Engines
    BY ProfileSays, CanSays, DapSays, SpiSays, UartSays, SensorSays DEF EnginesInv, PowerInv
  <2> QED BY <2>1 DEF TypesOK, Engines
<1> QED BY <1>1, EnginesHold, PTL

\* power_profile.c, sensor_sim.c: for any clients and any writes of the DUT, a result goes only when it was read to its
\* end or another profile is started, and a reload leaves what the DUT configured.
THEOREM ResultsAreKept == MCSpec => KeptThrough
<1>1. UNCHANGED profileVars <=> UNCHANGED Profile!ppVars  BY DEF profileVars, Profile!ppVars
<1>2. UNCHANGED sensorVars <=> UNCHANGED Sensor!ssVars  BY DEF sensorVars, Sensor!ssVars
<1>3. EnginesInv /\ [MCNext]_mcVars => [Profile!ResultGoes]_(Profile!ppVars)
  BY EngineSteps, ProfileStep, <1>1 DEF EnginesInv
<1>4. EnginesInv /\ [MCNext]_mcVars => [Sensor!LoadSpares]_(Sensor!ssVars)
  BY EngineSteps, SensorStep, <1>2 DEF EnginesInv
<1>5. MCSpec => Profile!KeptUntilRead
  BY <1>3, EnginesHold, PTL DEF MCSpec, Profile!KeptUntilRead
<1>6. MCSpec => Sensor!DutRegistersKept
  BY <1>4, EnginesHold, PTL DEF MCSpec, Sensor!DutRegistersKept
<1> QED BY <1>5, <1>6, PTL DEF KeptThrough
================================================================================
