-------------------------------- MODULE MCBench --------------------------------
(***************************************************************************)
(* The pod's own instruments under TLC: captures and the gate they share,   *)
(* the pins, the analog outputs and the ADC's range, traces, the gateware   *)
(* and the SCPI server.  A component names the state of another that it     *)
(* needs and lets it change as the other does, so a behaviour works with    *)
(* one of them and the others keep an initial state.                        *)
(***************************************************************************)
EXTENDS Integers, Sequences, FiniteSetTheorems, TLAPS

CONSTANTS
    Conns, NoConn, MaxOps,
    Triggers, Off, MaxChunks,                                        \* captures
    LaSet, UpPins, DownPins, SpiWidth, NoPin, MaxCmds, MaxEvents,    \* pins
    MaxFaults,                                                       \* analog outputs, gateware
    MaxStores, MaxFails,                                             \* range
    MaxTraces,                                                       \* traces
    Old, New, MaxImageOps, MaxResets,                                \* gateware
    Cells, RespBuf, Ring, MinChunk, Stall, ErrQueue, MaxLines, MaxJson  \* SCPI

VARIABLES
    which,
    heavy_owner, caps, trigwait, trig_reply, chgscan, bulk, last_cap, track, stale, data, adc_base, bus,
    fabric, fabric_trig, dac, load, raw, loaded_hold, ota, ops, met,
    s_pin, latch, fab, uart2_gw, swd_armed_local, spi_armed_local, uart_armed_local, sensor, sensor_rearm,
    gps, gps_rearm, s_step, conn_proto, closing, uart_proxy_conn, uart_pins, uart_rearm_conn,
    uart_plus_pending, uart_rx_pu_ch, uart_rx_pu_prev, pulls, s_la_vccio_mv, i2c_failed, p_cmds, p_events,
    quad, a, stored, settled, image, loopReg, s_loop_src, asked, aFaults,
    lowhw, rpath, relays, rlow, rec, cjob, stores, cmds, fails, resend, told, refused,
    gate, dcap, pool, held, top, based, replay_len, replay_in_psram, upload, hold, play, dac_pend,
    s_cotrig_pending, s_cotrig_in_capture, s_dac_ps_active, dac_timed, traces, tOps, loadGhost,
    stage, job, flash, slots, gw, sick, fabBase, s_adc_cap_base, s_fpga_version, s_spi_div,
    s_psram_selftest_rc, fcap, mem, capno, result, psmode, reader, toldGw, resendCaps, wear, fFaults, fOps,
    resets,
    src, output_on, scpi_trace_gen, scpi_replay_bytes, s_gen, cells, json, dacOn, playing, gateBy, board,
    limits, errs, reply, ring, open, lines, jsons

captureVars == <<heavy_owner, caps, trigwait, trig_reply, chgscan, bulk, last_cap, track, stale, data,
                 adc_base, bus, fabric, fabric_trig, dac, load, raw, loaded_hold, ota, ops, met>>
pinsVars == <<s_pin, latch, fab, uart2_gw, swd_armed_local, spi_armed_local, uart_armed_local, sensor,
              sensor_rearm, gps, gps_rearm, s_step, conn_proto, closing, uart_proxy_conn, uart_pins,
              uart_rearm_conn, uart_plus_pending, uart_rx_pu_ch, uart_rx_pu_prev, pulls, s_la_vccio_mv,
              i2c_failed, p_cmds, p_events>>
analogVars == <<quad, a, stored, settled, image, loopReg, s_loop_src, asked, aFaults>>
rangeVars == <<lowhw, rpath, relays, rlow, rec, cjob, stores, cmds, fails, resend, told, refused>>
traceVars == <<gate, dcap, pool, held, top, based, replay_len, replay_in_psram, upload, hold, play,
               dac_pend, s_cotrig_pending, s_cotrig_in_capture, s_dac_ps_active, dac_timed, traces,
               tOps, loadGhost>>
fabricVars == <<stage, job, flash, slots, gw, sick, fabBase, s_adc_cap_base, s_fpga_version, s_spi_div,
                s_psram_selftest_rc, fcap, mem, capno, result, psmode, reader, toldGw, resendCaps, wear,
                fFaults, fOps, resets>>
scpiVars == <<src, output_on, scpi_trace_gen, scpi_replay_bytes, s_gen, cells, json, dacOn, playing,
              gateBy, board, limits, errs, reply, ring, open, lines, jsons>>

\* The requests differ in what the code tells apart: shallow or deep, triggered or not, samples
\* or changes, where the ADC region lies, and whether the capture ends a waveform.
Request(cmd, trig, adc, la, chg) ==
    [cmd |-> cmd, trig |-> trig, adc |-> adc, la |-> la, chg |-> chg]

MCRequests ==
    {Request("capture", t, TRUE, FALSE, FALSE) : t \in Triggers}
    \cup {Request("la_capture", t, FALSE, TRUE, TRUE) : t \in Triggers}
    \cup {Request("capture_dual", t, TRUE, TRUE, TRUE) : t \in Triggers}
    \cup {Request("stream", Off, TRUE, FALSE, FALSE),
          Request("measure", Off, TRUE, FALSE, FALSE),
          Request("la_capture", Off, FALSE, TRUE, FALSE),
          Request("capture_dual", Off, TRUE, TRUE, FALSE),
          Request("capture_dual", Off, TRUE, FALSE, FALSE)}

Capture == INSTANCE Captures WITH Requests <- MCRequests
Pins == INSTANCE LaPins
Analog == INSTANCE AnalogOut
Ranges == INSTANCE AdcRange
Trace == INSTANCE DacTrace
Image == INSTANCE Fabric WITH MaxOps <- MaxImageOps
Lines == INSTANCE Scpi

ASSUME Assumptions ==
    /\ Capture!ConstantsOK /\ Pins!ConstantsOK /\ Analog!ConstantsOK /\ Ranges!ConstantsOK
    /\ Trace!ConstantsOK /\ Image!ConstantsOK /\ Lines!ConstantsOK

MCInit ==
    /\ which \in {"capture", "pins", "analog", "range", "trace", "fabric", "scpi"}
    /\ Capture!Init /\ Pins!Init /\ Trace!Init
    /\ Analog!Init /\ (which = "analog" \/ quad)
    /\ Ranges!Init /\ (which = "range" \/ lowhw)
    /\ Image!Init /\ (which = "fabric" \/ (flash = Image!None /\ slots = [n \in {0, 1} |-> New]))
    /\ Lines!Init /\ (which = "scpi" \/ board = "full")

Rest ==
    /\ UNCHANGED which
    /\ which # "capture" => UNCHANGED captureVars
    /\ which # "pins" => UNCHANGED pinsVars
    /\ which # "analog" => UNCHANGED analogVars
    /\ which # "range" => UNCHANGED rangeVars
    /\ which # "trace" => UNCHANGED traceVars
    /\ which # "fabric" => UNCHANGED fabricVars
    /\ which # "scpi" => UNCHANGED scpiVars

MCNext ==
    /\ Rest
    /\ \/ which = "capture" /\ Capture!Next
       \/ which = "pins" /\ Pins!Next
       \/ which = "analog" /\ Analog!Next
       \/ which = "range" /\ Ranges!Next
       \/ which = "trace" /\ Trace!Next
       \/ which = "fabric" /\ Image!Next
       \/ which = "scpi" /\ Lines!Next

mcVars == <<which, captureVars, pinsVars, analogVars, rangeVars, traceVars, fabricVars, scpiVars>>

\* The fairness of the part in use: of the worker's polls and of its timeouts.
Fairness ==
    /\ WF_captureVars(which = "capture" /\ Capture!CapturePoll)
    /\ WF_captureVars(which = "capture" /\ Capture!TriggerTimeout)
    /\ WF_captureVars(which = "capture" /\ (Capture!ScanEnds \/ Capture!ScanFails))
    /\ WF_captureVars(which = "capture" /\ Capture!BulkPoll)
    /\ WF_captureVars(which = "capture" /\ Capture!LoadStall)
    /\ WF_captureVars(which = "capture" /\ Capture!HoldExpires)
    /\ WF_scpiVars(which = "scpi" /\ Lines!Pacing)

MCSpec == MCInit /\ [][MCNext]_mcVars /\ Fairness

\* The types of the instruments' state.
TypesOK ==
    CASE which = "capture" -> Capture!TypeOK [] which = "pins" -> Pins!TypeOK
      [] which = "analog" -> Analog!TypeOK [] which = "range" -> Ranges!TypeOK
      [] which = "trace" -> Trace!TypeOK [] which = "fabric" -> Image!TypeOK [] which = "scpi" -> Lines!TypeOK

\* command_handler.c, heavy gate: one job at a time, its connection holds the gate and the bus
\* for exactly as long as it runs, and no producer of the gateware runs or waits unwatched.
GateSafe ==
    which = "capture" =>
        /\ Capture!GateOwnsJob /\ Capture!NoLeak /\ Capture!BusPaired
        /\ Capture!NoOrphan /\ Capture!ParkedIsWatched

\* command_handler_capture.c, signal_engine.c, scpi_server.c: a read-back sends the data and the
\* trigger outcome of its own capture, and a capture reported done was written by the gateware
\* meanwhile; no capture, upload or SCPI line spoils the trace another client replays, a start
\* staged in the gateware is known, and an SCPI reply leaves whole.
DataIntact ==
    /\ which = "capture" => Capture!ReadsOwnData /\ Capture!ReplyHasItsTrigger
    /\ which = "fabric" => Image!CaptureIsNew
    /\ which = "trace" => Trace!PlayedTraceIntact /\ Trace!CotrigKnown
    /\ which = "scpi" => Lines!JsonTraceOwn /\ Lines!ReplyWhole

\* la_pins.c, dac_limits.c, dac_quad.c, command_handler_dac.c, adc_cal.c: a pin has one function,
\* the table agrees with what drives it, and no pull fights it; an output with limits stays inside
\* them, +-14 V comes on after the channels are parked, a control loop runs on what it was armed
\* with, and the server knows the scale of the ADC.
PinsSafe ==
    /\ which = "pins" => Pins!OneFunction /\ Pins!PullsFit
    /\ which = "analog" => Analog!WindowKept /\ Analog!QuadSafe /\ Analog!LoopAsAsked
    /\ which = "range" => Ranges!AnnouncedFit

\* signal_engine.c, ice40_flash.c: the firmware's picture of the gateware is the gateware that
\* runs, boots do not wear the config flash, a write never takes the bus from a reader, and a pod
\* with a good image in slot 0 comes up configured.
FabricKnown ==
    which = "fabric" =>
        /\ Image!MirrorsAgree /\ Image!KnowsGateware /\ Image!BootSparesFlash
        /\ Image!BusTakenIdle /\ Image!ComesConfigured

\* command_handler.c, signal_engine.c: the bank's voltage changes under no session and a session's
\* end puts the RX pull back; a start asked to wait for a capture drives nothing before it.
StartsInOrder == Pins!BankSteady /\ Trace!DeferredStart

\* command_handler.c, scpi_server.c: the gate is free again in the end and the worker comes back
\* from a reply nobody reads.
BusyEnds == []<>(Capture!GateFree /\ ~Lines!Busy)
--------------------------------------------------------------------------------
(***************************************************************************)
(* Proofs: the heavy gate, for every number of connections, commands,       *)
(* trigger conditions and chunks of a read-back.                            *)
(***************************************************************************)
AtMostOne(S) == \A x, y \in S : x = y

\* The lists of jobs have one entry at most.  Of captures, scans and read-backs there is one in all, and
\* none while an update runs; each hold on the bus was counted as a command.
SingleJob ==
    /\ AtMostOne(caps) /\ AtMostOne(chgscan) /\ AtMostOne(bulk) /\ AtMostOne(load) /\ AtMostOne(trigwait)
    /\ caps # {} => chgscan = {} /\ bulk = {}
    /\ chgscan # {} => bulk = {}
    /\ ota => caps \cup chgscan \cup bulk = {} /\ load = {} /\ heavy_owner = NoConn
    /\ bus + (IF caps = {} THEN 0 ELSE 1) <= ops

\* A trigger timeout runs for a capture of its connection, and for whatever condition the gateware has.
TriggersFollow ==
    /\ \A t \in trigwait : \E j \in caps : j.conn = t.conn
    /\ fabric_trig # Off => trigwait # {}

\* A connection with an upload is in PROTO_LOAD; and until a hold expires under an upload, the job there is
\* owns the gate, nobody else is in PROTO_LOAD and only it holds the bus.
JobsOwned ==
    /\ \A j \in load : j.conn \in raw
    /\ "upload" \notin met =>
        /\ load = {} \/ caps \cup chgscan \cup bulk = {}
        /\ \A j \in caps \cup chgscan \cup bulk \cup load : j.conn = heavy_owner
        /\ \A c \in raw : \E j \in load : j.conn = c
        /\ bus = IF \E j \in chgscan \cup bulk \cup load : j.psram THEN 1 ELSE 0

\* The inductive invariant: GateSafe does not say that a trigger timeout and the bytes of an upload belong
\* to the job there is.
GateInv ==
    /\ Capture!TypeOK /\ SingleJob /\ TriggersFollow /\ JobsOwned
    /\ Capture!NoLeak /\ Capture!NoOrphan /\ Capture!ParkedIsWatched

\* What the proofs use of the requests and bounds.
LEMMA CaptureConstants ==
    /\ \A q \in MCRequests : /\ q \in Capture!RequestType
                             /\ q.cmd \in {"stream", "measure"} => q.trig = Off
                             /\ q.chg => q.la
    /\ MaxOps \in Nat /\ MaxChunks \in Nat \ {0} /\ NoConn \notin Conns /\ Off \notin Triggers
  BY Assumptions DEF Capture!ConstantsOK

\* Cardinality, as Captures.tla extends it.
LEMMA CardinalityIs == \A S : Capture!Cardinality(S) = Cardinality(S)
  BY DEF Cardinality, Capture!Cardinality

\* The holds of a list with one entry at most.
LEMMA HoldsCount ==
    ASSUME NEW S, AtMostOne(S)
    PROVE  Capture!Holds(S) = IF \E j \in S : j.psram THEN 1 ELSE 0
<1>1. CASE \E j \in S : j.psram
  <2>1. PICK j \in S : j.psram
    BY <1>1
  <2>2. {i \in S : i.psram} = {j}  BY <2>1 DEF AtMostOne
  <2>3. Capture!Cardinality({j}) = 1  BY FS_Singleton, CardinalityIs
  <2>4. Capture!Holds(S) = 1  BY <2>2, <2>3 DEF Capture!Holds
  <2> QED BY <2>4, <1>1
<1>2. CASE ~ \E j \in S : j.psram
  <2>1. {i \in S : i.psram} = {}  BY <1>2
  <2>2. Capture!Cardinality({}) = 0  BY FS_EmptySet, CardinalityIs
  <2>3. Capture!Holds(S) = 0  BY <2>1, <2>2 DEF Capture!Holds
  <2> QED BY <2>3, <1>2
<1> QED BY <1>1, <1>2

\* The types of the jobs, of the gate and the gateware, and of the PSRAM's regions.
ReadBacks == [conn : Conns, psram : BOOLEAN, adc : BOOLEAN, la : BOOLEAN, trig : 0 .. MaxOps, own : 0 .. MaxOps,
              left : 1 .. MaxChunks, narrow : BOOLEAN, room : Capture!Rooms]

JobTypes ==
    /\ caps \subseteq [conn : Conns, id : 1 .. MaxOps, req : MCRequests]
    /\ trigwait \subseteq [conn : Conns, id : 1 .. MaxOps]
    /\ chgscan \subseteq [conn : Conns, id : 1 .. MaxOps, req : MCRequests, psram : {TRUE}]
    /\ bulk \subseteq ReadBacks
    /\ load \subseteq [conn : Conns, psram : BOOLEAN] /\ raw \subseteq Conns

GateTypes ==
    /\ heavy_owner \in Conns \cup {NoConn} /\ loaded_hold \in Conns \cup {NoConn}
    /\ trig_reply \in 0 .. MaxOps /\ bus \in 0 .. MaxOps /\ ops \in 0 .. MaxOps
    /\ fabric \in {"idle", "parked", "running", "done"} /\ fabric_trig \in Triggers \cup {Off}
    /\ dac \in BOOLEAN /\ ota \in BOOLEAN

RegionTypes ==
    /\ last_cap \in [valid : BOOLEAN, adc : BOOLEAN, la : BOOLEAN]
    /\ track \subseteq Capture!PsramCells /\ data \subseteq Capture!PsramCells
    /\ adc_base \in Capture!PsramCells /\ stale \in BOOLEAN
    /\ met \subseteq {"upload", "leak", "moved", "reply"}

\* Together they are TypeOK.
LEMMA TypeParts == /\ Capture!TypeOK <=> JobTypes /\ GateTypes /\ RegionTypes
                   /\ Capture!TypeOK' <=> JobTypes' /\ GateTypes' /\ RegionTypes'
  BY DEF Capture!TypeOK, ReadBacks, JobTypes, GateTypes, RegionTypes

\* A capture's regions are cells of the PSRAM.
LEMMA CellsTyped ==
    ASSUME RegionTypes, NEW q \in MCRequests
    PROVE  Capture!BaseFor(q) \in Capture!PsramCells /\ Capture!CellsFor(q) \subseteq Capture!PsramCells
<1>1. Capture!BaseFor(q) \in Capture!PsramCells
  BY DEF RegionTypes, Capture!BaseFor, Capture!PsramCells
<1> QED BY <1>1 DEF Capture!CellsFor, Capture!PsramCells

\* handle_capture and the others: the gate refuses, or the arm fails behind it.
LEMMA NoArmKeeps ==
    ASSUME GateInv, NEW c \in Conns, NEW q \in MCRequests, Capture!ArmRefused(c, q) \/ Capture!ArmFails(c, q)
    PROVE  GateInv'
<1> USE DEF GateInv
<1>1. CASE Capture!ArmRefused(c, q)
  <2> USE <1>1, CaptureConstants DEF Capture!ArmRefused, Capture!Command
  <2>1. JobTypes'  BY TypeParts DEF JobTypes, Capture!regions, Capture!upload
  <2>8. GateTypes'  BY TypeParts DEF GateTypes, Capture!upload
  <2>9. RegionTypes'  BY TypeParts DEF RegionTypes, Capture!regions
  <2>2. SingleJob' /\ TriggersFollow' /\ JobsOwned'
    BY DEF Capture!TypeOK, SingleJob, TriggersFollow, JobsOwned, AtMostOne, Capture!regions, Capture!upload
  <2>3. Capture!NoLeak' /\ Capture!NoOrphan' /\ Capture!ParkedIsWatched'
    BY DEF Capture!NoLeak, Capture!Jobs, Capture!NoOrphan, Capture!ParkedIsWatched, Capture!upload
  <2> QED BY <2>1, <2>2, <2>3, <2>8, <2>9, TypeParts
<1>2. CASE Capture!ArmFails(c, q)
  <2> USE <1>2, CaptureConstants DEF Capture!ArmFails, Capture!Command, Capture!Begin, Capture!HeavyInFlight, Capture!Busy, Capture!MayClaim
  <2>1. JobTypes'  BY TypeParts DEF JobTypes, Capture!regions, Capture!upload
  <2>8. GateTypes'  BY TypeParts DEF GateTypes, Capture!upload, Capture!Forgotten
  <2>9. RegionTypes'
    <3>1. adc_base' \in Capture!PsramCells /\ stale' \in BOOLEAN
      BY TypeParts, CellsTyped DEF RegionTypes
    <3> QED BY <3>1, TypeParts DEF RegionTypes
  <2>2. SingleJob' /\ TriggersFollow' /\ JobsOwned'
    BY DEF Capture!TypeOK, SingleJob, TriggersFollow, JobsOwned, AtMostOne, Capture!regions, Capture!upload
  <2>3. Capture!NoLeak' /\ Capture!NoOrphan' /\ Capture!ParkedIsWatched'
    BY DEF Capture!NoLeak, Capture!Jobs, Capture!NoOrphan, Capture!ParkedIsWatched, Capture!upload
  <2> QED BY <2>1, <2>2, <2>3, <2>8, <2>9, TypeParts
<1> QED BY <1>1, <1>2

\* Arm: behind the gate there is no job, so no trigger timeout and no condition in the gateware either.
LEMMA ArmKeeps ==
    ASSUME GateInv, NEW c \in Conns, NEW q \in MCRequests, Capture!Arm(c, q)
    PROVE  GateInv'
<1> USE CaptureConstants DEF GateInv, Capture!Arm, Capture!Command, Capture!Begin, Capture!HeavyInFlight, Capture!Busy, Capture!MayClaim
<1> DEFINE new == [conn |-> c, id |-> ops', req |-> q]
<1>1. /\ caps = {} /\ chgscan = {} /\ bulk = {} /\ ~ota /\ caps' = {new} /\ new.conn = c
      /\ ops \in Nat /\ ops' = ops + 1 /\ ops' \in 1 .. MaxOps
  BY DEF Capture!TypeOK
<1>2. trigwait = {} /\ fabric_trig = Off  BY <1>1 DEF TriggersFollow
<1>3. JobTypes'  BY <1>1, <1>2, TypeParts DEF JobTypes, Capture!upload
<1>11. GateTypes'
  BY <1>1, <1>2, TypeParts DEF GateTypes, Capture!upload, Capture!Forgotten, Capture!Handover, Capture!RequestType
<1>9. RegionTypes'
  <2>1. adc_base' \in Capture!PsramCells /\ data' \subseteq Capture!PsramCells /\ stale' \in BOOLEAN
    BY TypeParts, CellsTyped DEF RegionTypes
  <2> QED BY <2>1, TypeParts DEF RegionTypes
<1>4. SingleJob'  BY <1>1, <1>2 DEF SingleJob, AtMostOne, Capture!upload, Capture!Handover
<1>12. \A t \in trigwait' : t.conn = c  BY <1>2
<1>5. TriggersFollow'  BY <1>1, <1>2, <1>12 DEF TriggersFollow
<1>10. Capture!ParkedIsWatched'  BY <1>1, <1>2 DEF Capture!ParkedIsWatched
<1>6. "upload" \notin met => load = {}  BY DEF JobsOwned, Capture!TypeOK
<1>7. JobsOwned'  BY <1>1, <1>6 DEF JobsOwned, Capture!upload, Capture!Handover
<1>8. Capture!NoLeak' /\ Capture!NoOrphan'
  BY <1>1 DEF Capture!NoLeak, Capture!Jobs, Capture!NoOrphan, Capture!upload
<1> QED BY <1>3, <1>4, <1>5, <1>7, <1>8, <1>9, <1>10, <1>11, TypeParts

\* bulk_begin: one read-back, of the connection, with the bus or without.
LEMMA StartsOne ==
    ASSUME NEW conn \in Conns, NEW psram \in BOOLEAN, NEW adc \in BOOLEAN, NEW la \in BOOLEAN,
           NEW trig \in 0 .. MaxOps, NEW own \in 0 .. MaxOps, Capture!Starts(conn, psram, adc, la, trig, own)
    PROVE  \E b \in ReadBacks : bulk' = {b} /\ b.conn = conn /\ b.psram = psram /\ b.trig = trig /\ b.own = own
<1>1. PICK n \in 1 .. MaxChunks, narrow \in BOOLEAN, room \in Capture!Rooms :
         bulk' = {[conn |-> conn, psram |-> psram, adc |-> adc, la |-> la, trig |-> trig,
                   own |-> own, left |-> n, narrow |-> narrow, room |-> room]}
  BY DEF Capture!Starts
<1> DEFINE b == [conn |-> conn, psram |-> psram, adc |-> adc, la |-> la, trig |-> trig,
                  own |-> own, left |-> n, narrow |-> narrow, room |-> room]
<1>2. b \in ReadBacks  BY DEF ReadBacks
<1>3. bulk' = {b} /\ b.conn = conn /\ b.psram = psram /\ b.trig = trig /\ b.own = own  BY <1>1
<1> QED BY <1>2, <1>3

\* The same for a capture or a scan.
LEMMA StartsForOne ==
    ASSUME NEW j, j.conn \in Conns, j.id \in 1 .. MaxOps, j.req \in MCRequests, NEW psram \in BOOLEAN,
           NEW outcome \in 0 .. MaxOps, Capture!StartsFor(j, psram, outcome)
    PROVE  \E b \in ReadBacks : bulk' = {b} /\ b.conn = j.conn /\ b.psram = psram
<1>1. j.req.adc \in BOOLEAN /\ j.req.la \in BOOLEAN /\ (IF j.req.trig # Off THEN j.id ELSE 0) \in 0 .. MaxOps
  BY CaptureConstants DEF Capture!RequestType
<1> QED BY <1>1, StartsOne DEF Capture!StartsFor

\* capture_trigger_done: the outcome is that of a command.
LEMMA OutcomeTyped == ASSUME GateInv PROVE Capture!Outcome \in 0 .. MaxOps
<1>1. CASE trigwait # {}
  <2>1. (CHOOSE t \in trigwait : TRUE) \in trigwait  BY <1>1
  <2> QED BY <1>1, <2>1, TypeParts DEF GateInv, JobTypes, Capture!Outcome
<1>2. CASE trigwait = {}
  BY <1>2, TypeParts DEF GateInv, GateTypes, Capture!Outcome
<1> QED BY <1>1, <1>2

\* The gateware goes on with what it has.
LEMMA GatewareKeeps == ASSUME GateInv, Capture!Fire \/ Capture!Complete PROVE GateInv'
<1> USE DEF GateInv
<1>1. /\ UNCHANGED <<heavy_owner, caps, trigwait, trig_reply, chgscan, bulk, last_cap, track, stale, data, adc_base,
                     bus, fabric_trig, dac, load, raw, loaded_hold, ota, ops, met>>
      /\ fabric' \in {"running", "done"} /\ fabric \in {"parked", "running"}
  BY DEF Capture!Fire, Capture!Complete, Capture!regions, Capture!upload, Capture!trigger
<1>2. JobTypes'  BY <1>1, TypeParts DEF JobTypes
<1>3. GateTypes'  BY <1>1, TypeParts DEF GateTypes
<1>4. RegionTypes'  BY <1>1, TypeParts DEF RegionTypes
<1>5. SingleJob' /\ TriggersFollow' /\ JobsOwned'
  BY <1>1 DEF SingleJob, TriggersFollow, JobsOwned, AtMostOne
<1>6. Capture!NoLeak' /\ Capture!NoOrphan' /\ Capture!ParkedIsWatched'
  BY <1>1 DEF Capture!NoLeak, Capture!Jobs, Capture!NoOrphan, Capture!ParkedIsWatched
<1> QED BY <1>2, <1>3, <1>4, <1>5, <1>6, TypeParts

\* capture_poll: the one capture there is becomes the one read-back.
LEMMA ReadKeeps ==
    ASSUME GateInv, NEW j \in caps, Capture!CaptureDone(j) \/ Capture!DeepDone(j)
    PROVE  GateInv'
<1> USE DEF GateInv
<1>1. /\ caps = {j} /\ chgscan = {} /\ bulk = {} /\ ~ota
      /\ j.conn \in Conns /\ j.id \in 1 .. MaxOps /\ j.req \in MCRequests
      /\ bus \in Nat /\ ops \in 0 .. MaxOps /\ bus + 1 <= ops
  BY TypeParts DEF JobTypes, GateTypes, SingleJob, AtMostOne
<1>2. /\ caps' = {} /\ trigwait' = {} /\ fabric_trig' = Off /\ fabric' = "idle" /\ trig_reply' = 0
      /\ UNCHANGED <<heavy_owner, chgscan, load, raw, loaded_hold, ota, ops, met>>
  BY <1>1 DEF Capture!CaptureDone, Capture!DeepDone, Capture!TriggerDone, Capture!Take, Capture!upload, TriggersFollow
<1>3. PICK b \in ReadBacks : bulk' = {b} /\ b.conn = j.conn /\ bus' = (IF b.psram THEN bus + 1 ELSE bus)
  <2>1. CASE Capture!DeepDone(j)
    <3>1. Capture!StartsFor(j, TRUE, Capture!Outcome) /\ bus' = bus + 1
      BY <2>1 DEF Capture!DeepDone, Capture!Acquire
    <3> QED BY <3>1, <1>1, OutcomeTyped, StartsForOne
  <2>2. CASE Capture!CaptureDone(j)
    <3>1. Capture!StartsFor(j, FALSE, Capture!Outcome) /\ bus' = bus
      BY <2>2 DEF Capture!CaptureDone
    <3> QED BY <3>1, <1>1, OutcomeTyped, StartsForOne
  <2> QED BY <2>1, <2>2
<1>4. b.psram \in BOOLEAN  BY DEF ReadBacks
<1>5. JobTypes'  BY <1>1, <1>2, <1>3, TypeParts DEF JobTypes
<1>6. GateTypes'
  <2>1. dac' \in BOOLEAN
    BY <1>1, TypeParts DEF GateTypes, Capture!CaptureDone, Capture!DeepDone, Capture!DacAfter
  <2>2. bus' \in 0 .. MaxOps  BY <1>1, <1>3, CaptureConstants
  <2> QED BY <1>1, <1>2, <2>1, <2>2, TypeParts, CaptureConstants DEF GateTypes
<1>7. RegionTypes'
  <2>1. UNCHANGED <<data, adc_base, met>>
    BY DEF Capture!CaptureDone, Capture!DeepDone, Capture!regions
  <2>2. last_cap' \in [valid : BOOLEAN, adc : BOOLEAN, la : BOOLEAN]
    <3>1. j.req.adc \in BOOLEAN /\ j.req.la \in BOOLEAN
      BY <1>1, CaptureConstants DEF Capture!RequestType
    <3>2. CASE Capture!CaptureDone(j)
      BY <3>2, TypeParts DEF RegionTypes, Capture!CaptureDone, Capture!regions
    <3>3. CASE Capture!DeepDone(j)
      BY <3>1, <3>3 DEF Capture!DeepDone
    <3> QED BY <3>2, <3>3
  <2>3. track' \subseteq Capture!PsramCells /\ stale' \in BOOLEAN
    BY <1>1, TypeParts, CellsTyped DEF RegionTypes, Capture!CaptureDone, Capture!DeepDone, Capture!regions
  <2> QED BY <2>1, <2>2, <2>3, TypeParts DEF RegionTypes
<1>8. SingleJob' /\ TriggersFollow'
  BY <1>1, <1>2, <1>3, <1>4 DEF SingleJob, TriggersFollow, AtMostOne
<1>9. JobsOwned'  BY <1>1, <1>2, <1>3, <1>4 DEF JobsOwned
<1>10. Capture!NoLeak' /\ Capture!NoOrphan' /\ Capture!ParkedIsWatched'
  BY <1>1, <1>2, <1>3 DEF JobsOwned, Capture!NoLeak, Capture!Jobs, Capture!NoOrphan, Capture!ParkedIsWatched
<1> QED BY <1>5, <1>6, <1>7, <1>8, <1>9, <1>10, TypeParts

\* capture_poll: the one capture there is becomes the one scan, with its own hold.
LEMMA ChangesKeeps == ASSUME GateInv, NEW j \in caps, Capture!ChangesDone(j) PROVE GateInv'
<1> USE DEF GateInv
<1> DEFINE s == [conn |-> j.conn, id |-> j.id, req |-> j.req, psram |-> TRUE]
<1>1. /\ caps = {j} /\ chgscan = {} /\ bulk = {} /\ ~ota
      /\ j.conn \in Conns /\ j.id \in 1 .. MaxOps /\ j.req \in MCRequests
      /\ bus \in Nat /\ ops \in 0 .. MaxOps /\ bus + 1 <= ops
  BY TypeParts DEF JobTypes, GateTypes, SingleJob, AtMostOne
<1>2. /\ caps' = {} /\ trigwait' = {} /\ fabric_trig' = Off /\ fabric' = "idle" /\ trig_reply' \in 0 .. MaxOps
      /\ chgscan' = {s} /\ s.conn = j.conn /\ s.psram = TRUE /\ bus' = bus + 1
      /\ last_cap' \in [valid : BOOLEAN, adc : BOOLEAN, la : BOOLEAN]
      /\ UNCHANGED <<heavy_owner, bulk, track, stale, data, adc_base, dac, load, raw, loaded_hold, ota, ops, met>>
  BY <1>1, OutcomeTyped, TypeParts
  DEF RegionTypes, Capture!ChangesDone, Capture!TriggerDone, Capture!Acquire, Capture!upload, TriggersFollow
<1> HIDE DEF s
<1>3. s \in [conn : Conns, id : 1 .. MaxOps, req : MCRequests, psram : {TRUE}]  BY <1>1 DEF s
<1>4. JobTypes' /\ GateTypes' /\ RegionTypes'
  <2>1. JobTypes'  BY <1>1, <1>2, <1>3, TypeParts DEF JobTypes
  <2>2. GateTypes'  BY <1>1, <1>2, CaptureConstants, TypeParts DEF GateTypes
  <2>3. RegionTypes'  BY <1>2, TypeParts DEF RegionTypes
  <2> QED BY <2>1, <2>2, <2>3
<1>5. SingleJob' /\ TriggersFollow'  BY <1>1, <1>2 DEF SingleJob, TriggersFollow, AtMostOne
<1>6. JobsOwned'  BY <1>1, <1>2 DEF JobsOwned
<1>7. Capture!NoLeak' /\ Capture!NoOrphan' /\ Capture!ParkedIsWatched'
  BY <1>1, <1>2 DEF JobsOwned, Capture!NoLeak, Capture!Jobs, Capture!NoOrphan, Capture!ParkedIsWatched
<1> QED BY <1>4, <1>5, <1>6, <1>7, TypeParts

\* capture_poll: the one capture there is ends, by itself or by its trigger's timeout, and frees the gate.
LEMMA CaptureEndKeeps ==
    ASSUME GateInv, (\E j \in caps : Capture!CaptureFails(j)) \/ Capture!TriggerTimeout
    PROVE  GateInv'
<1> USE DEF GateInv
<1>1. PICK j \in caps : heavy_owner' = Capture!Released(j.conn) /\ caps' = {}
  <2>1. CASE \E j \in caps : Capture!CaptureFails(j)
    <3>1. PICK j \in caps : Capture!CaptureFails(j)
      BY <2>1
    <3>2. caps \ {j} = {}  BY DEF SingleJob, AtMostOne
    <3> QED BY <3>1, <3>2 DEF Capture!CaptureFails
  <2>2. CASE Capture!TriggerTimeout
    <3>1. PICK t \in trigwait : /\ caps' = {j \in caps : j.conn # t.conn}
                                /\ heavy_owner' = Capture!Released(t.conn)
      BY <2>2 DEF Capture!TriggerTimeout
    <3>2. PICK j \in caps : j.conn = t.conn
      BY DEF TriggersFollow
    <3>3. caps' = {}  BY <3>1, <3>2 DEF SingleJob, AtMostOne
    <3> QED BY <3>1, <3>2, <3>3
  <2> QED BY <2>1, <2>2
<1>2. /\ trigwait' = {} /\ fabric_trig' = Off /\ fabric' = "idle" /\ trig_reply' \in 0 .. MaxOps
      /\ dac' \in BOOLEAN
      /\ UNCHANGED <<chgscan, bulk, last_cap, track, stale, data, adc_base, bus, load, raw, loaded_hold, ota, ops, met>>
  <2>1. trig_reply \in 0 .. MaxOps /\ 0 \in 0 .. MaxOps /\ dac \in BOOLEAN
    BY CaptureConstants, TypeParts DEF GateTypes
  <2>2. ASSUME NEW i \in caps, Capture!CaptureFails(i)
        PROVE  trig_reply' = 0 /\ dac' \in BOOLEAN
    BY <2>1, <2>2 DEF Capture!CaptureFails, Capture!DacAfter
  <2> QED BY <2>1, <2>2 DEF Capture!CaptureFails, Capture!TriggerTimeout, Capture!regions, Capture!upload
<1>3. /\ chgscan = {} /\ bulk = {} /\ ~ota /\ heavy_owner' \in {heavy_owner, NoConn}
      /\ "upload" \notin met => load = {} /\ heavy_owner' = NoConn
  BY <1>1 DEF SingleJob, JobsOwned, Capture!Released
<1>4. JobTypes' /\ GateTypes' /\ RegionTypes'
  <2>1. JobTypes'  BY <1>1, <1>2, TypeParts DEF JobTypes
  <2>2. GateTypes'  BY <1>2, <1>3, TypeParts DEF GateTypes
  <2>3. RegionTypes'  BY <1>2, TypeParts DEF RegionTypes
  <2> QED BY <2>1, <2>2, <2>3
<1>5. SingleJob' /\ TriggersFollow'
  BY <1>1, <1>2, <1>3, TypeParts DEF GateTypes, SingleJob, TriggersFollow, AtMostOne
<1>6. JobsOwned'  BY <1>1, <1>2, <1>3 DEF JobsOwned
<1>7. Capture!NoLeak' /\ Capture!NoOrphan' /\ Capture!ParkedIsWatched'
  BY <1>1, <1>2, <1>3 DEF Capture!NoLeak, Capture!NoOrphan, Capture!ParkedIsWatched
<1> QED BY <1>4, <1>5, <1>6, <1>7, TypeParts

\* chgscan_step: the one scan there is becomes the one read-back and hands it its hold.
LEMMA ScanKeeps == ASSUME GateInv, Capture!ScanEnds PROVE GateInv'
<1> USE DEF GateInv
<1>1. PICK s \in chgscan : /\ chgscan' = {} /\ Capture!StartsFor(s, TRUE, trig_reply) /\ trig_reply' = 0
                           /\ UNCHANGED <<heavy_owner, caps, trigwait, last_cap, track, stale, data, adc_base, bus, fabric,
                                          fabric_trig, dac, load, raw, loaded_hold, ota, ops, met>>
  BY DEF Capture!ScanEnds, Capture!Take, Capture!regions, Capture!gateware, Capture!upload
<1>2. /\ caps = {} /\ bulk = {} /\ chgscan = {s} /\ ~ota /\ s.conn \in Conns /\ s.id \in 1 .. MaxOps /\ s.req \in MCRequests
      /\ s.psram = TRUE
  BY TypeParts DEF JobTypes, SingleJob, AtMostOne
<1>3. PICK b \in ReadBacks : bulk' = {b} /\ b.conn = s.conn /\ b.psram = TRUE
  <2>1. trig_reply \in 0 .. MaxOps  BY TypeParts DEF GateTypes
  <2> QED BY <1>1, <1>2, <2>1, StartsForOne
<1>4. JobTypes' /\ GateTypes' /\ RegionTypes'
  <2>1. JobTypes'  BY <1>1, <1>3, TypeParts DEF JobTypes
  <2>2. GateTypes'  BY <1>1, CaptureConstants, TypeParts DEF GateTypes
  <2>3. RegionTypes'  BY <1>1, TypeParts DEF RegionTypes
  <2> QED BY <2>1, <2>2, <2>3
<1>5. SingleJob' /\ TriggersFollow'
  BY <1>1, <1>2, <1>3 DEF SingleJob, TriggersFollow, AtMostOne
<1>6. JobsOwned'  BY <1>1, <1>2, <1>3 DEF JobsOwned
<1>7. Capture!NoLeak' /\ Capture!NoOrphan' /\ Capture!ParkedIsWatched'
  BY <1>1, <1>2, <1>3 DEF JobsOwned, Capture!NoLeak, Capture!Jobs, Capture!NoOrphan, Capture!ParkedIsWatched
<1> QED BY <1>4, <1>5, <1>6, <1>7, TypeParts

\* chgscan_fail, and the end of a read-back by itself or by its stall timer: the one job there is gives its hold
\* and the gate back.
LEMMA JobEndKeeps ==
    ASSUME GateInv, Capture!ScanFails \/ \E b \in bulk : Capture!BulkOver(b)
    PROVE  GateInv'
<1> USE DEF GateInv
<1>1. \E j \in chgscan \cup bulk :
         /\ chgscan \cup bulk = {j}
         /\ chgscan' = {} /\ bulk' = {} /\ heavy_owner' = Capture!Released(j.conn) /\ trig_reply' \in 0 .. MaxOps
         /\ Capture!Release({j})
         /\ UNCHANGED <<caps, trigwait, last_cap, track, stale, data, adc_base, fabric,
                        fabric_trig, dac, load, raw, loaded_hold, ota, ops, met>>
  <2>1. CASE Capture!ScanFails
    <3>1. PICK s \in chgscan : Capture!ScanFails /\ heavy_owner' = Capture!Released(s.conn)
      BY <2>1 DEF Capture!ScanFails
    <3>2. chgscan = {s} /\ bulk = {}  BY DEF SingleJob, AtMostOne
    <3> QED BY <3>1, <3>2, CaptureConstants DEF Capture!ScanFails, Capture!regions, Capture!gateware, Capture!upload
  <2>2. CASE \E b \in bulk : Capture!BulkOver(b)
    <3>1. PICK b \in bulk : Capture!BulkOver(b)
      BY <2>2
    <3>2. bulk = {b} /\ chgscan = {}  BY DEF SingleJob, AtMostOne
    <3>3. trig_reply \in 0 .. MaxOps  BY TypeParts DEF GateTypes
    <3> QED BY <3>1, <3>2, <3>3 DEF Capture!BulkOver, Capture!regions, Capture!gateware, Capture!upload, Capture!trigger
  <2> QED BY <2>1, <2>2
<1>2. PICK j \in chgscan \cup bulk :
         /\ chgscan \cup bulk = {j}
         /\ chgscan' = {} /\ bulk' = {} /\ heavy_owner' = Capture!Released(j.conn) /\ trig_reply' \in 0 .. MaxOps
         /\ Capture!Release({j})
         /\ UNCHANGED <<caps, trigwait, last_cap, track, stale, data, adc_base, fabric,
                        fabric_trig, dac, load, raw, loaded_hold, ota, ops, met>>
  BY <1>1
<1>3. bus \in 0 .. MaxOps /\ bus' = (IF j.psram THEN IF bus >= 1 THEN bus - 1 ELSE 0 ELSE bus)
  <2>1. Capture!Holds({j}) = IF j.psram THEN 1 ELSE 0  BY HoldsCount DEF AtMostOne
  <2>2. bus \in 0 .. MaxOps  BY TypeParts DEF GateTypes
  <2> QED BY <1>2, <2>1, <2>2, CaptureConstants DEF Capture!Release
<1>4. /\ caps = {} /\ ~ota /\ heavy_owner' \in {heavy_owner, NoConn}
      /\ "upload" \notin met => load = {} /\ heavy_owner' = NoConn
  BY <1>2 DEF SingleJob, JobsOwned, Capture!Released
<1>5. JobTypes' /\ GateTypes' /\ RegionTypes'
  <2>1. JobTypes'  BY <1>2, TypeParts DEF JobTypes
  <2>2. bus' \in 0 .. MaxOps  BY <1>3, CaptureConstants
  <2>3. GateTypes'  BY <1>2, <1>4, <2>2, TypeParts DEF GateTypes
  <2>4. RegionTypes'  BY <1>2, TypeParts DEF RegionTypes
  <2> QED BY <2>1, <2>3, <2>4
<1>6. bus' <= bus /\ ops \in Nat  BY <1>3, CaptureConstants, TypeParts DEF GateTypes
<1>7. SingleJob' /\ TriggersFollow'
  BY <1>2, <1>3, <1>4, <1>6 DEF SingleJob, TriggersFollow, AtMostOne
<1>8. JobsOwned'  BY <1>2, <1>3, <1>4 DEF JobsOwned
<1>9. Capture!NoLeak' /\ Capture!NoOrphan' /\ Capture!ParkedIsWatched'
  BY <1>2, <1>4 DEF Capture!NoLeak, Capture!NoOrphan, Capture!ParkedIsWatched
<1> QED BY <1>5, <1>7, <1>8, <1>9, TypeParts

\* bulk_pump sends a frame, or the client reads: the read-back is still the same one.
LEMMA PumpKeeps ==
    ASSUME GateInv, NEW b \in bulk, Capture!BulkSend(b) \/ Capture!Drain(b)
    PROVE  GateInv'
<1> USE DEF GateInv
<1>1. bulk = {b} /\ caps = {} /\ chgscan = {} /\ ~ota /\ b \in ReadBacks
  BY TypeParts DEF JobTypes, SingleJob, AtMostOne
<1>2. /\ UNCHANGED <<heavy_owner, caps, trigwait, trig_reply, chgscan, last_cap, track, stale, data, adc_base,
                     bus, fabric, fabric_trig, dac, load, raw, loaded_hold, ota, ops, met>>
      /\ \E x \in ReadBacks : bulk' = {x} /\ x.conn = b.conn /\ x.psram = b.psram
  <2>1. CASE Capture!BulkSend(b)
    <3>1. PICK room \in Capture!Rooms : bulk' = {[b EXCEPT !.left = b.left - 1, !.room = room]}
      BY <2>1 DEF Capture!BulkSend
    <3>2. b.left - 1 \in 1 .. MaxChunks
      <4>1. b.left \in 1 .. MaxChunks  BY <1>1 DEF ReadBacks
      <4>2. b.left > 1  BY <2>1 DEF Capture!BulkSend, Capture!More
      <4> QED BY <4>1, <4>2, CaptureConstants
    <3> DEFINE x == [b EXCEPT !.left = b.left - 1, !.room = room]
    <3>3. x \in ReadBacks /\ x.conn = b.conn /\ x.psram = b.psram  BY <1>1, <3>2 DEF ReadBacks
    <3> QED BY <2>1, <3>1, <3>3 DEF Capture!BulkSend, Capture!regions, Capture!gateware, Capture!upload, Capture!trigger
  <2>2. CASE Capture!Drain(b)
    <3>1. PICK room \in Capture!Rooms : bulk' = {[b EXCEPT !.room = room]}
      BY <2>2 DEF Capture!Drain
    <3> DEFINE x == [b EXCEPT !.room = room]
    <3>2. x \in ReadBacks /\ x.conn = b.conn /\ x.psram = b.psram  BY <1>1 DEF ReadBacks
    <3> QED BY <2>2, <3>1, <3>2 DEF Capture!Drain, Capture!regions, Capture!gateware, Capture!upload, Capture!trigger
  <2> QED BY <2>1, <2>2
<1>3. PICK x \in ReadBacks : bulk' = {x} /\ x.conn = b.conn /\ x.psram = b.psram
  BY <1>2
<1>4. JobTypes' /\ GateTypes' /\ RegionTypes'
  <2>1. JobTypes'  BY <1>2, <1>3, TypeParts DEF JobTypes
  <2>2. GateTypes'  BY <1>2, TypeParts DEF GateTypes
  <2>3. RegionTypes'  BY <1>2, TypeParts DEF RegionTypes
  <2> QED BY <2>1, <2>2, <2>3
<1>5. SingleJob' /\ TriggersFollow'
  BY <1>1, <1>2, <1>3 DEF SingleJob, TriggersFollow, AtMostOne
<1>6. JobsOwned'  BY <1>1, <1>2, <1>3 DEF JobsOwned
<1>7. Capture!NoLeak' /\ Capture!NoOrphan' /\ Capture!ParkedIsWatched'
  BY <1>1, <1>2, <1>3 DEF JobsOwned, Capture!NoLeak, Capture!Jobs, Capture!NoOrphan, Capture!ParkedIsWatched
<1> QED BY <1>4, <1>5, <1>6, <1>7, TypeParts

\* Where the gate is won there is no job, so no trigger timeout, no condition in the gateware and no producer
\* that runs, and no upload unless a hold has expired under one.
LEMMA GateWon ==
    ASSUME GateInv, NEW c \in Conns, Capture!Command(c), Capture!Begin(c)
    PROVE  /\ caps = {} /\ chgscan = {} /\ bulk = {} /\ ~ota /\ heavy_owner \in {NoConn, c} /\ c \notin raw
           /\ ops' = ops + 1 /\ ops' \in 1 .. MaxOps /\ ops \in 0 .. MaxOps
           /\ trigwait = {} /\ fabric_trig = Off /\ fabric \notin {"parked", "running"}
           /\ "upload" \notin met => load = {}
<1> USE DEF GateInv, Capture!Command, Capture!Begin, Capture!HeavyInFlight, Capture!Busy, Capture!MayClaim
<1>1. /\ caps = {} /\ chgscan = {} /\ bulk = {} /\ ~ota /\ heavy_owner \in {NoConn, c} /\ c \notin raw
  OBVIOUS
<1>2. ops' = ops + 1 /\ ops' \in 1 .. MaxOps /\ ops \in 0 .. MaxOps
  BY CaptureConstants, TypeParts DEF GateTypes
<1>3. trigwait = {} /\ fabric_trig = Off /\ fabric \notin {"parked", "running"}
  BY <1>1 DEF TriggersFollow, Capture!NoOrphan
<1>4. "upload" \notin met => load = {}
  BY <1>1, CaptureConstants, TypeParts DEF JobTypes, JobsOwned
<1> QED BY <1>1, <1>2, <1>3, <1>4

\* handle_test and the like: a reply from RAM is the one job there is.
LEMMA RamReadKeeps == ASSUME GateInv, NEW c \in Conns, Capture!RamRead(c) PROVE GateInv'
<1> USE DEF GateInv
<1>1. /\ Capture!Command(c) /\ Capture!Begin(c) /\ heavy_owner' = c /\ trig_reply' = 0
      /\ UNCHANGED <<caps, trigwait, chgscan, last_cap, track, stale, data, adc_base, bus, fabric, fabric_trig,
                     dac, load, raw, loaded_hold, ota, met>>
      /\ Capture!Starts(c, FALSE, FALSE, FALSE, trig_reply, 0)
  BY DEF Capture!RamRead, Capture!Take, Capture!regions, Capture!gateware, Capture!upload
<1>3. /\ caps = {} /\ chgscan = {} /\ bulk = {} /\ ~ota /\ heavy_owner \in {NoConn, c}
      /\ ops' = ops + 1 /\ ops' \in 1 .. MaxOps /\ ops \in 0 .. MaxOps
      /\ "upload" \notin met => load = {}
  BY <1>1, GateWon
<1>2. PICK b \in ReadBacks : bulk' = {b} /\ b.conn = c /\ b.psram = FALSE
  <2>1. trig_reply \in 0 .. MaxOps /\ 0 \in 0 .. MaxOps
    BY CaptureConstants, TypeParts DEF GateTypes
  <2>2. PICK n \in 1 .. MaxChunks, narrow \in BOOLEAN, room \in Capture!Rooms :
           bulk' = {[conn |-> c, psram |-> FALSE, adc |-> FALSE, la |-> FALSE, trig |-> trig_reply,
                     own |-> 0, left |-> n, narrow |-> narrow, room |-> room]}
    BY <1>1 DEF Capture!Starts
  <2> DEFINE b == [conn |-> c, psram |-> FALSE, adc |-> FALSE, la |-> FALSE, trig |-> trig_reply,
                   own |-> 0, left |-> n, narrow |-> narrow, room |-> room]
  <2>3. b \in ReadBacks /\ b.conn = c /\ b.psram = FALSE  BY <2>1 DEF ReadBacks
  <2> QED BY <2>2, <2>3
<1>4. JobTypes' /\ GateTypes' /\ RegionTypes'
  <2>1. JobTypes'  BY <1>1, <1>2, TypeParts DEF JobTypes
  <2>2. GateTypes'  BY <1>1, <1>3, CaptureConstants, TypeParts DEF GateTypes
  <2>3. RegionTypes'  BY <1>1, TypeParts DEF RegionTypes
  <2> QED BY <2>1, <2>2, <2>3
<1>5. SingleJob' /\ TriggersFollow'
  BY <1>1, <1>2, <1>3, TypeParts DEF GateTypes, SingleJob, TriggersFollow, AtMostOne
<1>6. JobsOwned'  BY <1>1, <1>2, <1>3 DEF JobsOwned
<1>7. Capture!NoLeak' /\ Capture!NoOrphan' /\ Capture!ParkedIsWatched'
  BY <1>1, <1>2 DEF Capture!NoLeak, Capture!Jobs, Capture!NoOrphan, Capture!ParkedIsWatched
<1> QED BY <1>4, <1>5, <1>6, <1>7, TypeParts

\* handle_capture_read: a read-back from the PSRAM is the one job there is, with its hold.
LEMMA CaptureReadKeeps == ASSUME GateInv, NEW c \in Conns, Capture!CaptureRead(c) PROVE GateInv'
<1> USE DEF GateInv
<1>1. /\ Capture!Command(c) /\ Capture!Begin(c) /\ heavy_owner' = c /\ bus' = bus + 1
      /\ UNCHANGED <<caps, trigwait, trig_reply, chgscan, last_cap, track, stale, data, adc_base, fabric, fabric_trig,
                     dac, load, raw, loaded_hold, ota, met>>
      /\ Capture!Starts(c, TRUE, last_cap.adc, last_cap.la, 0, 0)
  BY DEF Capture!CaptureRead, Capture!Acquire, Capture!trigger, Capture!regions, Capture!gateware, Capture!upload
<1>3. /\ caps = {} /\ chgscan = {} /\ bulk = {} /\ ~ota /\ heavy_owner \in {NoConn, c}
      /\ ops' = ops + 1 /\ ops' \in 1 .. MaxOps /\ ops \in 0 .. MaxOps
      /\ "upload" \notin met => load = {}
  BY <1>1, GateWon
<1>2. PICK b \in ReadBacks : bulk' = {b} /\ b.conn = c /\ b.psram = TRUE
  <2>1. 0 \in 0 .. MaxOps /\ last_cap.adc \in BOOLEAN /\ last_cap.la \in BOOLEAN
    BY CaptureConstants, TypeParts DEF RegionTypes
  <2>2. PICK n \in 1 .. MaxChunks, narrow \in BOOLEAN, room \in Capture!Rooms :
           bulk' = {[conn |-> c, psram |-> TRUE, adc |-> last_cap.adc, la |-> last_cap.la, trig |-> 0,
                     own |-> 0, left |-> n, narrow |-> narrow, room |-> room]}
    BY <1>1 DEF Capture!Starts
  <2> DEFINE b == [conn |-> c, psram |-> TRUE, adc |-> last_cap.adc, la |-> last_cap.la, trig |-> 0,
                   own |-> 0, left |-> n, narrow |-> narrow, room |-> room]
  <2>3. b \in ReadBacks /\ b.conn = c /\ b.psram = TRUE  BY <2>1 DEF ReadBacks
  <2> QED BY <2>2, <2>3
<1>4. bus \in Nat /\ bus + 1 <= ops'
  BY <1>3, CaptureConstants, TypeParts DEF GateTypes, SingleJob
<1>5. JobTypes' /\ GateTypes' /\ RegionTypes'
  <2>1. JobTypes'  BY <1>1, <1>2, TypeParts DEF JobTypes
  <2>2. GateTypes'  BY <1>1, <1>3, <1>4, CaptureConstants, TypeParts DEF GateTypes
  <2>3. RegionTypes'  BY <1>1, TypeParts DEF RegionTypes
  <2> QED BY <2>1, <2>2, <2>3
<1>6. SingleJob' /\ TriggersFollow'
  BY <1>1, <1>2, <1>3, <1>4 DEF SingleJob, TriggersFollow, AtMostOne
<1>7. JobsOwned'  BY <1>1, <1>2, <1>3 DEF JobsOwned
<1>8. Capture!NoLeak' /\ Capture!NoOrphan' /\ Capture!ParkedIsWatched'
  BY <1>1, <1>2 DEF Capture!NoLeak, Capture!Jobs, Capture!NoOrphan, Capture!ParkedIsWatched
<1> QED BY <1>5, <1>6, <1>7, <1>8, TypeParts

\* A handler that claims and frees the gate in one go - a short capture, an image switch, a replay - leaves no
\* job, no hold and no claim.
LEMMA BriefKeeps ==
    ASSUME GateInv, NEW c \in Conns,
           (\E where \in {{}, {adc_base}, {0}} : Capture!Brief(c, where)) \/ Capture!GatewareReload(c) \/ Capture!Replay(c)
    PROVE  GateInv'
<1> USE DEF GateInv
<1>1. /\ Capture!Command(c) /\ Capture!Begin(c) /\ heavy_owner' = NoConn /\ bus' = 0
      /\ UNCHANGED <<caps, chgscan, bulk, last_cap, track, load, raw, ota, met>>
  BY DEF Capture!Brief, Capture!GatewareReload, Capture!Replay,
      Capture!Handover, Capture!trigger, Capture!regions, Capture!gateware, Capture!upload
<1>2. /\ caps = {} /\ chgscan = {} /\ bulk = {} /\ ~ota /\ heavy_owner \in {NoConn, c}
      /\ ops' = ops + 1 /\ ops' \in 1 .. MaxOps /\ ops \in 0 .. MaxOps
      /\ trigwait = {} /\ fabric_trig = Off /\ fabric \notin {"parked", "running"}
      /\ "upload" \notin met => load = {}
  BY <1>1, GateWon
<1>3. /\ trigwait' = {} /\ fabric_trig' = Off /\ fabric' \in {fabric, "idle"} /\ trig_reply' \in {0, trig_reply}
      /\ dac' \in {dac, FALSE} /\ loaded_hold' \in {loaded_hold, NoConn}
  BY <1>2 DEF Capture!Brief, Capture!GatewareReload, Capture!Replay, Capture!trigger, Capture!gateware, Capture!upload
<1>4. data' \subseteq data /\ adc_base' \in {adc_base, 1} /\ (stale' = stale \/ stale' \in BOOLEAN)
  <2>1. ASSUME NEW where, Capture!Brief(c, where) PROVE data' \subseteq data /\ adc_base' = adc_base /\ stale' \in BOOLEAN
    BY <2>1, TypeParts DEF RegionTypes, Capture!Brief, Capture!Written
  <2>2. CASE Capture!GatewareReload(c)
    BY <2>2, TypeParts DEF RegionTypes, Capture!GatewareReload
  <2>3. CASE Capture!Replay(c)
    BY <2>3 DEF Capture!Replay, Capture!regions
  <2> QED BY <2>1, <2>2, <2>3
<1>6. JobTypes' /\ GateTypes' /\ RegionTypes'
  <2>1. JobTypes'  BY <1>1, <1>3, TypeParts DEF JobTypes
  <2>4. GateTypes  BY TypeParts
  <2>5. trig_reply' \in 0 .. MaxOps /\ bus' \in 0 .. MaxOps /\ ops' \in 0 .. MaxOps
    BY <1>1, <1>2, <1>3, <2>4, CaptureConstants DEF GateTypes
  <2>6. fabric' \in {"idle", "parked", "running", "done"} /\ dac' \in BOOLEAN
    BY <1>3, <2>4 DEF GateTypes
  <2>2. GateTypes'  BY <1>1, <1>3, <2>4, <2>5, <2>6 DEF GateTypes
  <2>3. RegionTypes'  BY <1>1, <1>4, TypeParts DEF RegionTypes, Capture!PsramCells
  <2> QED BY <2>1, <2>2, <2>3
<1>7. SingleJob' /\ TriggersFollow'
  BY <1>1, <1>2, <1>3 DEF SingleJob, TriggersFollow, AtMostOne
<1>8. JobsOwned'  BY <1>1, <1>2 DEF JobsOwned
<1>9. Capture!NoLeak' /\ Capture!NoOrphan' /\ Capture!ParkedIsWatched'
  BY <1>1, <1>2, <1>3 DEF Capture!NoLeak, Capture!NoOrphan, Capture!ParkedIsWatched
<1> QED BY <1>6, <1>7, <1>8, <1>9, TypeParts

\* handle_load: a chunk takes or keeps the gate; only one that is refused after that leaves it without a hold.
LEMMA LoadKeeps ==
    ASSUME GateInv, NEW c \in Conns, NEW first \in BOOLEAN, NEW good \in BOOLEAN, Capture!Load(c, first, good)
    PROVE  GateInv'
<1> USE DEF GateInv
<1>1. /\ caps = {} /\ chgscan = {} /\ bulk = {} /\ ~ota /\ c \notin raw /\ heavy_owner \in {NoConn, c} /\ heavy_owner' = c
      /\ loaded_hold' \in {loaded_hold, c} /\ (loaded_hold' # c => "leak" \in met') /\ met' \in {met, met \cup {"leak"}}
      /\ UNCHANGED <<caps, trigwait, trig_reply, chgscan, bulk, last_cap, track, stale, data, adc_base,
                     bus, fabric, fabric_trig, dac, load, raw, ota>>
  BY DEF Capture!Load, Capture!Command, Capture!HeavyInFlight, Capture!Busy, Capture!MayClaim, Capture!trigger,
         Capture!regions, Capture!gateware
<1>2. ops' = ops + 1 /\ ops' \in 0 .. MaxOps /\ ops \in 0 .. MaxOps
  BY CaptureConstants, TypeParts DEF GateTypes, Capture!Load, Capture!Command
<1>3. "upload" \notin met => load = {}
  BY <1>1, CaptureConstants, TypeParts DEF JobTypes, JobsOwned
<1>4. JobTypes' /\ GateTypes' /\ RegionTypes'
  <2>1. JobTypes'  BY <1>1, TypeParts DEF JobTypes
  <2>2. GateTypes'  BY <1>1, <1>2, TypeParts DEF GateTypes
  <2>3. RegionTypes'  BY <1>1, TypeParts DEF RegionTypes
  <2> QED BY <2>1, <2>2, <2>3
<1>5. SingleJob' /\ TriggersFollow'
  BY <1>1, <1>2, TypeParts DEF GateTypes, SingleJob, TriggersFollow, AtMostOne
<1>6. JobsOwned'  BY <1>1, <1>3 DEF JobsOwned
<1>7. Capture!NoLeak' /\ Capture!NoOrphan' /\ Capture!ParkedIsWatched'
  BY <1>1 DEF Capture!NoLeak, Capture!NoOrphan, Capture!ParkedIsWatched
<1> QED BY <1>4, <1>5, <1>6, <1>7, TypeParts

\* handle_load_bin: an upload is the one job there is, with its hold if it goes to the PSRAM.
LEMMA LoadBinKeeps ==
    ASSUME GateInv, NEW c \in Conns, NEW psram \in BOOLEAN, Capture!LoadBin(c, psram)
    PROVE  GateInv'
<1> USE DEF GateInv
<1> DEFINE l == [conn |-> c, psram |-> psram]
<1>1. /\ Capture!Command(c) /\ Capture!Begin(c) /\ heavy_owner' = c /\ load' = {l} /\ raw' = raw \cup {c}
      /\ bus' = (IF l.psram THEN bus + 1 ELSE bus) /\ l.conn = c
      /\ UNCHANGED <<caps, trigwait, trig_reply, chgscan, bulk, last_cap, track, adc_base,
                     fabric, fabric_trig, dac, loaded_hold, ota, met>>
  BY DEF Capture!LoadBin, Capture!Acquire, Capture!Written, Capture!trigger, Capture!gateware
<1>2. data' \subseteq data /\ (stale' \in BOOLEAN)
  BY TypeParts DEF RegionTypes, Capture!LoadBin, Capture!Written
<1>3. l \in [conn : Conns, psram : BOOLEAN]  OBVIOUS
<1> HIDE DEF l
<1>4. /\ caps = {} /\ chgscan = {} /\ bulk = {} /\ ~ota /\ heavy_owner \in {NoConn, c}
      /\ ops' = ops + 1 /\ ops' \in 1 .. MaxOps /\ ops \in 0 .. MaxOps
      /\ "upload" \notin met => load = {}
  BY <1>1, GateWon
<1>5. bus \in Nat /\ bus + 1 <= ops'
  BY <1>4, CaptureConstants, TypeParts DEF GateTypes, SingleJob
<1>6. JobTypes' /\ GateTypes' /\ RegionTypes'
  <2>1. JobTypes'  BY <1>1, <1>3, TypeParts DEF JobTypes
  <2>2. bus' \in 0 .. MaxOps  BY <1>1, <1>4, <1>5, CaptureConstants
  <2>3. GateTypes'  BY <1>1, <1>4, <2>2, TypeParts DEF GateTypes
  <2>4. RegionTypes'  BY <1>1, <1>2, TypeParts DEF RegionTypes
  <2> QED BY <2>1, <2>3, <2>4
<1>7. SingleJob' /\ TriggersFollow'
  BY <1>1, <1>4, <1>5 DEF SingleJob, TriggersFollow, AtMostOne
<1>8. JobsOwned'  BY <1>1, <1>4 DEF JobsOwned
<1>9. Capture!NoLeak' /\ Capture!NoOrphan' /\ Capture!ParkedIsWatched'
  BY <1>1, <1>4 DEF Capture!NoLeak, Capture!Jobs, Capture!NoOrphan, Capture!ParkedIsWatched
<1> QED BY <1>6, <1>7, <1>8, <1>9, TypeParts

\* load_bin_receive and ota_data write to the PSRAM and change nothing else.
LEMMA WriteKeeps ==
    ASSUME GateInv, (\E c \in Conns : Capture!LoadBytes(c)) \/ Capture!OtaData
    PROVE  GateInv'
<1> USE DEF GateInv
<1>1. /\ UNCHANGED <<heavy_owner, caps, trigwait, trig_reply, chgscan, bulk, last_cap, track, adc_base, bus, fabric,
                     fabric_trig, dac, load, raw, loaded_hold, ota, ops, met>>
      /\ data' \subseteq data /\ stale' \in BOOLEAN
  BY TypeParts DEF RegionTypes, Capture!LoadBytes, Capture!OtaData, Capture!Written, Capture!trigger, Capture!gateware,
     Capture!upload
<1>2. JobTypes' /\ GateTypes' /\ RegionTypes'
  <2>1. JobTypes'  BY <1>1, TypeParts DEF JobTypes
  <2>2. GateTypes'  BY <1>1, TypeParts DEF GateTypes
  <2>3. RegionTypes'  BY <1>1, TypeParts DEF RegionTypes
  <2> QED BY <2>1, <2>2, <2>3
<1>3. SingleJob' /\ TriggersFollow' /\ JobsOwned'
  BY <1>1 DEF SingleJob, TriggersFollow, JobsOwned, AtMostOne
<1>4. Capture!NoLeak' /\ Capture!NoOrphan' /\ Capture!ParkedIsWatched'
  BY <1>1 DEF Capture!NoLeak, Capture!Jobs, Capture!NoOrphan, Capture!ParkedIsWatched
<1> QED BY <1>2, <1>3, <1>4, TypeParts

\* What the end of an upload gives back.
LEMMA UploadHold ==
    ASSUME GateInv, Capture!Release(load)
    PROVE  /\ bus \in Nat /\ bus' \in 0 .. MaxOps /\ bus' <= bus
           /\ bus' = IF \E j \in load : j.psram THEN IF bus >= 1 THEN bus - 1 ELSE 0 ELSE bus
<1>1. Capture!Holds(load) = IF \E j \in load : j.psram THEN 1 ELSE 0
  BY HoldsCount DEF GateInv, SingleJob
<1>2. bus \in 0 .. MaxOps  BY TypeParts DEF GateInv, GateTypes
<1> QED BY <1>1, <1>2, CaptureConstants DEF Capture!Release

\* load_bin_receive at the end: the hold of the waveform takes over from the upload.
LEMMA LoadEndsKeeps == ASSUME GateInv, NEW c \in Conns, Capture!LoadEnds(c) PROVE GateInv'
<1> USE DEF GateInv
<1>1. /\ c \in raw /\ raw' = raw \ {c} /\ loaded_hold' = c /\ load' = {} /\ Capture!Release(load)
      /\ UNCHANGED <<heavy_owner, caps, trigwait, trig_reply, chgscan, bulk, last_cap, track, stale, data, adc_base,
                     fabric, fabric_trig, dac, ota, ops, met>>
  BY DEF Capture!LoadEnds, Capture!trigger, Capture!regions, Capture!gateware
<1>2. /\ bus \in Nat /\ bus' \in 0 .. MaxOps /\ bus' <= bus
      /\ bus' = IF \E j \in load : j.psram THEN IF bus >= 1 THEN bus - 1 ELSE 0 ELSE bus
  BY <1>1, UploadHold
<1>3. "upload" \notin met => /\ heavy_owner = c /\ raw' = {} /\ caps \cup chgscan \cup bulk = {} /\ bus' = 0
  BY <1>1, <1>2 DEF JobsOwned
<1>4. JobTypes' /\ GateTypes' /\ RegionTypes'
  <2>1. JobTypes'  BY <1>1, TypeParts DEF JobTypes
  <2>2. GateTypes'  BY <1>1, <1>2, TypeParts DEF GateTypes
  <2>3. RegionTypes'  BY <1>1, TypeParts DEF RegionTypes
  <2> QED BY <2>1, <2>2, <2>3
<1>5. SingleJob' /\ TriggersFollow'
  BY <1>1, <1>2, CaptureConstants, TypeParts DEF GateTypes, SingleJob, TriggersFollow, AtMostOne
<1>6. JobsOwned'  BY <1>1, <1>3 DEF JobsOwned
<1>7. Capture!NoLeak' /\ Capture!NoOrphan' /\ Capture!ParkedIsWatched'
  BY <1>1, <1>3 DEF Capture!NoLeak, Capture!NoOrphan, Capture!ParkedIsWatched
<1> QED BY <1>4, <1>5, <1>6, <1>7, TypeParts

\* dac_poll: an upload that got no more bytes gives its hold and the gate back.
LEMMA LoadStallKeeps == ASSUME GateInv, Capture!LoadStall PROVE GateInv'
<1> USE DEF GateInv
<1>1. PICK l \in load :
         /\ heavy_owner' = Capture!Released(l.conn) /\ raw' = raw \ {l.conn} /\ load' = {} /\ Capture!Release(load)
         /\ UNCHANGED <<caps, trigwait, trig_reply, chgscan, bulk, last_cap, track, stale, data, adc_base,
                        fabric, fabric_trig, dac, loaded_hold, ota, ops, met>>
  BY DEF Capture!LoadStall, Capture!trigger, Capture!regions, Capture!gateware
<1>2. /\ bus \in Nat /\ bus' \in 0 .. MaxOps /\ bus' <= bus
      /\ bus' = IF \E j \in load : j.psram THEN IF bus >= 1 THEN bus - 1 ELSE 0 ELSE bus
  BY <1>1, UploadHold
<1>3. /\ heavy_owner' \in {heavy_owner, NoConn} /\ load = {l}
      /\ "upload" \notin met => heavy_owner' = NoConn /\ raw' = {} /\ caps \cup chgscan \cup bulk = {} /\ bus' = 0
  BY <1>1, <1>2 DEF JobsOwned, SingleJob, AtMostOne, Capture!Released
<1>4. JobTypes' /\ GateTypes' /\ RegionTypes'
  <2>1. JobTypes'  BY <1>1, TypeParts DEF JobTypes
  <2>2. GateTypes'  BY <1>1, <1>2, <1>3, TypeParts DEF GateTypes
  <2>3. RegionTypes'  BY <1>1, TypeParts DEF RegionTypes
  <2> QED BY <2>1, <2>2, <2>3
<1>5. SingleJob' /\ TriggersFollow'
  BY <1>1, <1>2, <1>3, CaptureConstants, TypeParts DEF GateTypes, SingleJob, TriggersFollow, AtMostOne
<1>6. JobsOwned'  BY <1>1, <1>3 DEF JobsOwned
<1>7. Capture!NoLeak' /\ Capture!NoOrphan' /\ Capture!ParkedIsWatched'
  BY <1>1, <1>3 DEF Capture!NoLeak, Capture!NoOrphan, Capture!ParkedIsWatched
<1> QED BY <1>4, <1>5, <1>6, <1>7, TypeParts

\* dac_poll: the hold of a waveform ends.  It frees the gate of its connection, unless something is in flight; an
\* upload does not count as that, which is what met records.
LEMMA HoldKeeps == ASSUME GateInv, Capture!HoldExpires PROVE GateInv'
<1> USE DEF GateInv
<1>1. /\ loaded_hold # NoConn /\ loaded_hold' = NoConn
      /\ heavy_owner' = Capture!HoldFreed
      /\ met' = met \cup (IF heavy_owner' # heavy_owner /\ load # {} THEN {"upload"} ELSE {})
      /\ UNCHANGED <<caps, trigwait, trig_reply, chgscan, bulk, last_cap, track, stale, data, adc_base, bus,
                     fabric, fabric_trig, dac, load, raw, ota, ops>>
  BY DEF Capture!HoldExpires, Capture!trigger, Capture!regions, Capture!gateware
<1>2. heavy_owner' \in {heavy_owner, NoConn} /\ (ota => heavy_owner' = NoConn)
  BY <1>1 DEF Capture!HoldFreed, Capture!Released, SingleJob
<1>3. heavy_owner' # heavy_owner => caps \cup chgscan \cup bulk = {} /\ (load = {} \/ "upload" \in met')
  BY <1>1 DEF Capture!HoldFreed, Capture!HeavyInFlight, Capture!Busy
<1>4. heavy_owner' = heavy_owner => heavy_owner # loaded_hold \/ caps \cup chgscan \cup bulk # {} \/ heavy_owner = NoConn
  BY <1>1 DEF Capture!HoldFreed, Capture!HeavyInFlight, Capture!Busy, Capture!Released, SingleJob
<1>5. JobTypes' /\ GateTypes' /\ RegionTypes'
  <2>1. JobTypes'  BY <1>1, TypeParts DEF JobTypes
  <2>2. GateTypes'  BY <1>1, <1>2, TypeParts DEF GateTypes
  <2>3. met' \subseteq {"upload", "leak", "moved", "reply"}  BY <1>1, TypeParts DEF RegionTypes
  <2>4. RegionTypes'  BY <1>1, <2>3, TypeParts DEF RegionTypes
  <2> QED BY <2>1, <2>2, <2>4
<1>6. SingleJob' /\ TriggersFollow'  BY <1>1, <1>2 DEF SingleJob, TriggersFollow, AtMostOne
<1>7. JobsOwned'  BY <1>1, <1>2, <1>3 DEF JobsOwned
<1>8. Capture!NoLeak'  BY <1>1, <1>2, <1>3, <1>4 DEF JobsOwned, Capture!NoLeak, Capture!Jobs
<1>9. Capture!NoOrphan' /\ Capture!ParkedIsWatched'
  BY <1>1 DEF Capture!NoOrphan, Capture!ParkedIsWatched
<1> QED BY <1>5, <1>6, <1>7, <1>8, <1>9, TypeParts

\* An update starts where there is no job and no claim, and ends.
LEMMA OtaKeeps ==
    ASSUME GateInv, (\E c \in Conns : Capture!OtaBegin(c)) \/ Capture!OtaEnd
    PROVE  GateInv'
<1> USE DEF GateInv
<1>1. /\ UNCHANGED <<heavy_owner, caps, trigwait, trig_reply, chgscan, bulk, last_cap, track, stale, data, adc_base,
                     bus, fabric, fabric_trig, dac, load, raw, loaded_hold, met>>
      /\ ota' \in BOOLEAN
      /\ ota' => caps \cup chgscan \cup bulk = {} /\ load = {} /\ heavy_owner = NoConn
  BY DEF Capture!OtaBegin, Capture!OtaEnd, Capture!Busy, Capture!trigger, Capture!regions, Capture!gateware, Capture!upload
<1>2. ops \in 0 .. MaxOps /\ ops' \in 0 .. MaxOps /\ ops' >= ops
  BY CaptureConstants, TypeParts DEF GateTypes, Capture!OtaBegin, Capture!OtaEnd, Capture!Command
<1>3. JobTypes' /\ GateTypes' /\ RegionTypes'
  <2>1. JobTypes'  BY <1>1, TypeParts DEF JobTypes
  <2>2. GateTypes'  BY <1>1, <1>2, TypeParts DEF GateTypes
  <2>3. RegionTypes'  BY <1>1, TypeParts DEF RegionTypes
  <2> QED BY <2>1, <2>2, <2>3
<1>4. SingleJob' /\ TriggersFollow' /\ JobsOwned'
  BY <1>1, <1>2, TypeParts DEF GateTypes, SingleJob, TriggersFollow, JobsOwned, AtMostOne
<1>5. Capture!NoLeak' /\ Capture!NoOrphan' /\ Capture!ParkedIsWatched'
  BY <1>1 DEF Capture!NoLeak, Capture!Jobs, Capture!NoOrphan, Capture!ParkedIsWatched
<1> QED BY <1>3, <1>4, <1>5, TypeParts

\* A list with one entry at most is finite, and its holds are a number.
LEMMA HoldsNatural ==
    ASSUME NEW S, NEW T, NEW U, AtMostOne(S), AtMostOne(T), AtMostOne(U), NEW V \in SUBSET ((S \cup T) \cup U)
    PROVE  Capture!Holds(V) \in Nat
<1>1. ASSUME NEW R, AtMostOne(R) PROVE IsFiniteSet(R)
  <2>1. R = {} \/ \E x : R = {x}  BY <1>1 DEF AtMostOne
  <2> QED BY <2>1, FS_EmptySet, FS_Singleton
<1>2. IsFiniteSet((S \cup T) \cup U)  BY <1>1, FS_Union
<1>3. IsFiniteSet({j \in V : j.psram})
  <2>1. {j \in V : j.psram} \subseteq (S \cup T) \cup U  OBVIOUS
  <2> QED BY <1>2, <2>1, FS_Subset
<1>4. Capture!Cardinality({j \in V : j.psram}) \in Nat
  BY <1>3, FS_CardinalityType, CardinalityIs
<1> QED BY <1>4 DEF Capture!Holds

\* command_handler_conn_closed: what is the connection's goes, with its hold and the gate; what another has stays.
LEMMA ClosedKeeps == ASSUME GateInv, NEW c \in Conns, Capture!ConnClosed(c) PROVE GateInv'
<1> USE DEF GateInv
<1> DEFINE closing_caps == {j \in caps : j.conn = c}
           closing_trig == {t \in trigwait : t.conn = c}
<1>1. /\ caps' = caps \ closing_caps /\ trigwait' = trigwait \ closing_trig
      /\ chgscan' = {j \in chgscan : j.conn # c} /\ bulk' = {j \in bulk : j.conn # c}
      /\ load' = (IF c \in raw THEN {} ELSE {j \in load : j.conn # c}) /\ raw' = raw \ {c}
      /\ heavy_owner' = Capture!Released(c)
      /\ fabric' = (IF closing_caps \cup closing_trig # {} THEN "idle" ELSE fabric)
      /\ fabric_trig' = (IF closing_caps \cup closing_trig # {} THEN Off ELSE fabric_trig)
      /\ UNCHANGED <<trig_reply, last_cap, track, stale, data, adc_base, loaded_hold, ota, ops>>
  BY DEF Capture!ConnClosed, Capture!AbortOf, Capture!Of, Capture!regions
<1>2. met' \in {met, met \cup {"reply"}} /\ dac' \in BOOLEAN
  BY TypeParts DEF GateTypes, Capture!ConnClosed, Capture!DacAfter
<1>4. heavy_owner' = (IF heavy_owner = c THEN NoConn ELSE heavy_owner)
  BY <1>1 DEF Capture!Released
<1> DEFINE given == Capture!ClosedHolds(c)
<1>5. given = ({j \in chgscan : j.conn = c} \cup {j \in bulk : j.conn = c})
              \cup (IF c \in raw THEN load ELSE {j \in load : j.conn = c})
  BY DEF Capture!ClosedHolds, Capture!Of
<1>6. Capture!Release(given)  BY DEF Capture!ConnClosed
<1> HIDE DEF given
<1>7. bus \in 0 .. MaxOps /\ bus' \in 0 .. MaxOps /\ bus' <= bus
  <2>1. given \in SUBSET ((chgscan \cup bulk) \cup load)  BY <1>5
  <2>2. Capture!Holds(given) \in Nat  BY <2>1, HoldsNatural DEF SingleJob
  <2>3. bus \in 0 .. MaxOps  BY TypeParts DEF GateTypes
  <2> QED BY <1>6, <2>2, <2>3, CaptureConstants DEF Capture!Release
\* One connection owns all the jobs there are.
<1>8. ASSUME "upload" \notin met, heavy_owner = c
      PROVE  /\ caps' = {} /\ chgscan' = {} /\ bulk' = {} /\ load' = {} /\ raw' = {} /\ heavy_owner' = NoConn
             /\ bus' = 0
  <2>1. caps' = {} /\ chgscan' = {} /\ bulk' = {} /\ load' = {} /\ raw' = {} /\ heavy_owner' = NoConn
    BY <1>1, <1>4, <1>8 DEF JobsOwned
  <2>2. given = (chgscan \cup bulk) \cup load  BY <1>5, <1>8 DEF JobsOwned
  <2>3. AtMostOne(given)  BY <1>8, <2>2 DEF AtMostOne, SingleJob, JobsOwned
  <2>4. Capture!Holds(given) = IF \E j \in given : j.psram THEN 1 ELSE 0  BY <2>3, HoldsCount
  <2>5. bus' = 0  BY <1>6, <1>7, <1>8, <2>2, <2>4 DEF JobsOwned, Capture!Release
  <2> QED BY <2>1, <2>5
<1>9. ASSUME "upload" \notin met, heavy_owner # c
      PROVE  UNCHANGED <<caps, chgscan, bulk, load, raw, heavy_owner, bus>>
  <2>1. c \notin raw  BY <1>9 DEF JobsOwned
  <2>2. UNCHANGED <<caps, chgscan, bulk, load, raw, heavy_owner>>
    BY <1>1, <1>4, <1>9, <2>1 DEF JobsOwned
  <2>3. given = {}  BY <1>5, <1>9, <2>1 DEF JobsOwned
  <2>4. Capture!Holds(given) = 0  BY <2>3, HoldsCount DEF AtMostOne
  <2> QED BY <1>6, <1>7, <2>2, <2>4 DEF Capture!Release
<1>10. JobTypes' /\ GateTypes' /\ RegionTypes'
  <2>1. JobTypes'  BY <1>1, TypeParts DEF JobTypes
  <2>2. GateTypes'  BY <1>1, <1>2, <1>4, <1>7, TypeParts DEF GateTypes
  <2>3. met' \subseteq {"upload", "leak", "moved", "reply"}  BY <1>2, TypeParts DEF RegionTypes
  <2>4. RegionTypes'  BY <1>1, <2>3, TypeParts DEF RegionTypes
  <2> QED BY <2>1, <2>2, <2>4
<1>11. SingleJob'
  <2>1. /\ AtMostOne(caps') /\ AtMostOne(chgscan') /\ AtMostOne(bulk') /\ AtMostOne(load') /\ AtMostOne(trigwait')
    BY <1>1 DEF SingleJob, AtMostOne
  <2>2. caps' \subseteq caps /\ chgscan' \subseteq chgscan /\ bulk' \subseteq bulk /\ load' \subseteq load
    BY <1>1
  <2>3. ops \in Nat  BY CaptureConstants, TypeParts DEF GateTypes
  <2>4. ota' => ((caps' \cup chgscan') \cup bulk' = {} /\ load' = {} /\ heavy_owner' = NoConn)
    BY <1>1, <1>4, <2>2 DEF SingleJob
  <2>5. bus' + (IF caps' = {} THEN 0 ELSE 1) <= ops'
    <3>1. bus \in Nat /\ bus' \in Nat /\ bus' <= bus /\ ops' = ops
      BY <1>1, <1>7, CaptureConstants
    <3> DEFINE m == IF caps = {} THEN 0 ELSE 1
               n == IF caps' = {} THEN 0 ELSE 1
    <3>2. bus + m <= ops  BY DEF SingleJob
    <3>3. m \in Nat /\ n \in Nat /\ n <= m  BY <2>2
    <3> HIDE DEF m, n
    <3>4. \A x, y, o \in Nat : x <= y /\ y + m <= o => x + n <= o  BY <3>3
    <3>5. bus' + n <= ops'  BY <2>3, <3>1, <3>2, <3>4
    <3> QED BY <3>5 DEF n
  <2> QED BY <2>1, <2>2, <2>4, <2>5 DEF SingleJob
<1>12. TriggersFollow'  BY <1>1 DEF TriggersFollow
<1>13. JobsOwned'
  <2>1. \A j \in load' : j.conn \in raw'  BY <1>1 DEF JobsOwned
  <2>2. "upload" \notin met' => "upload" \notin met  BY <1>2
  <2> QED BY <1>8, <1>9, <2>1, <2>2 DEF JobsOwned
<1>14. Capture!NoLeak'
  <2>1. met' \cap {"leak", "upload"} = {} => met \cap {"leak", "upload"} = {} /\ "upload" \notin met
    BY <1>2
  <2> QED BY <1>1, <1>8, <1>9, <2>1 DEF Capture!NoLeak, Capture!Jobs
<1>15. Capture!NoOrphan' /\ Capture!ParkedIsWatched'
  BY <1>1 DEF Capture!NoOrphan, Capture!ParkedIsWatched
<1> QED BY <1>10, <1>11, <1>12, <1>13, <1>14, <1>15, TypeParts

\* Every handler, every part of command_handler_poll, the gateware and the client keep the invariant.
LEMMA GateInvStep == ASSUME GateInv, [Capture!Next]_captureVars PROVE GateInv'
<1>1. ASSUME NEW j \in caps, Capture!CaptureDone(j) \/ Capture!DeepDone(j) \/ Capture!ChangesDone(j) \/ Capture!CaptureFails(j)
      PROVE  GateInv'
  BY <1>1, ReadKeeps, ChangesKeeps, CaptureEndKeeps
<1>2. ASSUME NEW b \in bulk, Capture!BulkSend(b) \/ Capture!BulkEnds(b) \/ Capture!BulkStall(b) \/ Capture!Drain(b)
      PROVE  GateInv'
  <2>1. Capture!BulkOver(b) => GateInv'  BY JobEndKeeps
  <2> QED BY <1>2, <2>1, PumpKeeps DEF Capture!BulkEnds, Capture!BulkStall
<1>3. CASE UNCHANGED captureVars
  <2>1. UNCHANGED <<heavy_owner, caps, trigwait, trig_reply, chgscan, bulk, last_cap, track, stale, data, adc_base, bus,
                    fabric, fabric_trig, dac, load, raw, loaded_hold, ota, ops, met>>
    BY <1>3 DEF captureVars
  <2>2. JobTypes' /\ GateTypes' /\ RegionTypes'
    BY <2>1, TypeParts DEF GateInv, JobTypes, GateTypes, RegionTypes
  <2>3. SingleJob' /\ TriggersFollow' /\ JobsOwned'
    BY <2>1 DEF GateInv, SingleJob, TriggersFollow, JobsOwned, AtMostOne
  <2>4. Capture!NoLeak' /\ Capture!NoOrphan' /\ Capture!ParkedIsWatched'
    BY <2>1 DEF GateInv, Capture!NoLeak, Capture!Jobs, Capture!NoOrphan, Capture!ParkedIsWatched
  <2> QED BY <2>2, <2>3, <2>4, TypeParts DEF GateInv
<1>4. CASE Capture!Next
  <2>1. ASSUME NEW c \in Conns, NEW q \in MCRequests, Capture!ArmRefused(c, q) \/ Capture!ArmFails(c, q) \/ Capture!Arm(c, q)
        PROVE  GateInv'
    BY <2>1, NoArmKeeps, ArmKeeps
  <2>2. ASSUME NEW c \in Conns, NEW where \in {{}, {adc_base}, {0}}, Capture!Brief(c, where)
        PROVE  GateInv'
    BY <2>2, BriefKeeps
  <2>3. ASSUME NEW c \in Conns, \/ Capture!RamRead(c) \/ Capture!CaptureRead(c) \/ Capture!GatewareReload(c)
                                \/ Capture!LoadBytes(c) \/ Capture!LoadEnds(c) \/ Capture!Replay(c)
                                \/ Capture!OtaBegin(c) \/ Capture!ConnClosed(c)
        PROVE  GateInv'
    BY <2>3, RamReadKeeps, CaptureReadKeeps, BriefKeeps, WriteKeeps, LoadEndsKeeps, OtaKeeps, ClosedKeeps
  <2>4. ASSUME NEW c \in Conns, NEW first \in BOOLEAN, NEW good \in BOOLEAN, Capture!Load(c, first, good)
        PROVE  GateInv'
    BY <2>4, LoadKeeps
  <2>5. ASSUME NEW c \in Conns, NEW psram \in BOOLEAN, Capture!LoadBin(c, psram)
        PROVE  GateInv'
    BY <2>5, LoadBinKeeps
  <2>6. ASSUME \/ Capture!Fire \/ Capture!Complete \/ Capture!TriggerTimeout \/ Capture!ScanEnds \/ Capture!ScanFails
               \/ Capture!LoadStall \/ Capture!HoldExpires \/ Capture!OtaData \/ Capture!OtaEnd
        PROVE  GateInv'
    BY <2>6, GatewareKeeps, CaptureEndKeeps, ScanKeeps, JobEndKeeps, LoadStallKeeps, HoldKeeps, WriteKeeps, OtaKeeps
  <2> QED BY <1>1, <1>2, <1>4, <2>1, <2>2, <2>3, <2>4, <2>5, <2>6 DEF Capture!Next, Capture!CapturePoll, Capture!BulkPoll
<1> QED BY <1>3, <1>4

\* At the start there is no job.
LEMMA GateInitially == Capture!Init => GateInv
<1> SUFFICES ASSUME Capture!Init PROVE GateInv
  OBVIOUS
<1> USE DEF Capture!Init
<1>1. JobTypes /\ GateTypes /\ RegionTypes
  <2>1. JobTypes  BY DEF JobTypes
  <2>2. GateTypes
    <3>1. trig_reply \in 0 .. MaxOps /\ bus \in 0 .. MaxOps /\ ops \in 0 .. MaxOps
      BY CaptureConstants
    <3> QED BY <3>1 DEF GateTypes
  <2>3. RegionTypes
    <3>1. last_cap \in [valid : BOOLEAN, adc : BOOLEAN, la : BOOLEAN]  OBVIOUS
    <3>2. track = {} /\ data = {} /\ met = {} /\ stale = FALSE  OBVIOUS
    <3>3. adc_base \in Capture!PsramCells  BY DEF Capture!PsramCells
    <3> QED BY <3>1, <3>2, <3>3 DEF RegionTypes
  <2> QED BY <2>1, <2>2, <2>3
<1>2. SingleJob /\ TriggersFollow /\ JobsOwned
  BY DEF SingleJob, TriggersFollow, JobsOwned, AtMostOne
<1>3. Capture!NoLeak /\ Capture!NoOrphan /\ Capture!ParkedIsWatched
  BY DEF Capture!NoLeak, Capture!NoOrphan, Capture!ParkedIsWatched
<1> QED BY <1>1, <1>2, <1>3, TypeParts DEF GateInv

\* So it holds of every behaviour of the run.
LEMMA GateInvariant == MCSpec => []GateInv
<1>1. MCInit => GateInv  BY GateInitially DEF MCInit
<1>2. [MCNext]_mcVars => [Capture!Next]_captureVars  BY DEF MCNext, Rest, mcVars
<1>3. GateInv /\ [Capture!Next]_captureVars => GateInv'  BY GateInvStep
<1> QED BY <1>1, <1>2, <1>3, PTL DEF MCSpec

\* What the invariant says of the jobs and of the bus.
LEMMA GateOwned == GateInv => Capture!GateOwnsJob /\ Capture!BusPaired
<1> SUFFICES ASSUME GateInv, "upload" \notin met PROVE Capture!GateOwnsJob /\ Capture!BusPaired
  BY DEF Capture!GateOwnsJob, Capture!BusPaired
<1> USE DEF GateInv
<1>1. AtMostOne(Capture!Jobs) /\ AtMostOne((chgscan \cup bulk) \cup load)
  BY DEF AtMostOne, SingleJob, JobsOwned, Capture!Jobs
<1>2. Capture!Cardinality(Capture!Jobs) <= 1
  <2>1. Capture!Jobs = {} \/ \E x : Capture!Jobs = {x}  BY <1>1 DEF AtMostOne
  <2>2. Capture!Jobs = {} => Capture!Cardinality(Capture!Jobs) = 0
    BY FS_EmptySet, CardinalityIs
  <2>3. ASSUME NEW x, Capture!Jobs = {x} PROVE Capture!Cardinality(Capture!Jobs) = 1
    BY <2>3, FS_Singleton, CardinalityIs
  <2> QED BY <2>1, <2>2, <2>3
<1>3. (\A j \in Capture!Jobs : j.conn = heavy_owner) /\ (ota => Capture!Jobs = {})
  BY DEF SingleJob, JobsOwned, Capture!Jobs
<1>4. Capture!BusPaired  BY <1>1, HoldsCount DEF JobsOwned, Capture!BusPaired
<1> QED BY <1>2, <1>3, <1>4 DEF Capture!GateOwnsJob

\* command_handler.c, heavy gate: for any number of clients, one job at a time, and its connection holds the gate
\* and the bus for exactly as long as it runs; no producer of the gateware runs or waits unwatched.
THEOREM GateIsSafe == MCSpec => []GateSafe
<1>1. GateInv => GateSafe  BY GateOwned DEF GateInv, GateSafe
<1> QED BY <1>1, GateInvariant, PTL
--------------------------------------------------------------------------------
(***************************************************************************)
(* Proofs: pins, outputs and the ADC's scale, for every set of pins and     *)
(* connections and any number of commands and faults.                       *)
(***************************************************************************)
\* A record that is being stored differs from the one it replaces in what the fit is made of only if the server
\* is told afterwards; a saved record is the old one or the new one.
StoredSoFar ==
    cjob.pc \in {"checked", "saving"} =>
        /\ rec = IF cjob.pc = "checked" THEN cjob.new ELSE cjob.was
        /\ ~cjob.tell => /\ \A low \in BOOLEAN : Ranges!Fit(low, cjob.new) = Ranges!Fit(low, cjob.was)
                         /\ told = <<rlow, Ranges!Fit(rlow, rec)>> \/ resend \/ refused

\* The inductive invariant of the announcements.
RangeInv ==
    /\ Ranges!TypeOK /\ StoredSoFar /\ Ranges!AnnouncedFit
    /\ cjob \in [pc : {"idle", "checked", "saving", "asks"}, new : [Ranges!Parts -> 0 .. MaxStores],
                 was : [Ranges!Parts -> 0 .. MaxStores], tell : BOOLEAN]
    /\ stores \in 0 .. MaxStores

\* The analog section's record.
Section ==
    [mux : {"off", "5v", "12v", "12adc"}, ana14 : BOOLEAN, level : [Analog!Chans -> Analog!Codes],
     ch : {"none", "B", "C", "D"}, live : SUBSET {"B", "C"}, out : {"idle", "wave", "hold", "loop"}, on : BOOLEAN,
     lim : Analog!Limits \cup {Analog!NoLimits}]

\* Of the two voltage outputs of the quad at most one is off its park level; +-14 V is on only behind a parked
\* +-12 V channel.
Levels(s) ==
    quad => /\ s.ana14 => s.level["C"] # "reset"
            /\ s.level["B"] # "wild" \/ s.level["C"] # "wild"

\* A channel off its park level is live, and when one is selected no other is.
Wired(s) ==
    /\ Levels(s)
    /\ quad => /\ \A c \in {"B", "C"} : s.level[c] = "wild" => c \in s.live
               /\ s.ch \in {"B", "C"} => s.live \subseteq {s.ch}

\* The limited output is inside its window, and an inverted stage on the single DAC connected to it.
Held(s) ==
    /\ s.lim # Analog!NoLimits
    /\ IF quad THEN s.level[Analog!ChanOf(s.lim.path)] = "in"
       ELSE s.lim.inv => s.mux = s.lim.path /\ s.level["X"] = "in"

\* The inductive invariant of the outputs.
OutputInv ==
    /\ a \in Section /\ Analog!TypeOK
    /\ Wired(a) /\ (settled => Held(a)) /\ Analog!LoopAsAsked
    /\ loopReg \in [src : Analog!Sources, map : BOOLEAN] /\ asked \in [src : Analog!Sources, map : BOOLEAN]

\* What a pin's latch holds; only the direction line of a train is driven by the train.
LatchFits == \A p \in LaSet : s_pin[p] # "step_dir" => latch[p] = Pins!Drive(s_pin[p])

\* The pins of the UART session are those the table gives the UART; the engine runs on them or waits, and a session
\* that is not waiting to be armed again has it running.
UartFits ==
    /\ uart_armed_local <=> uart_proxy_conn # NoConn
    /\ uart_proxy_conn = NoConn => fab["uart"] = {} /\ \A p \in LaSet : s_pin[p] # "uart"
    /\ uart_proxy_conn # NoConn => /\ \A p \in LaSet : s_pin[p] = "uart" <=> p \in uart_pins
                                   /\ fab["uart"] \subseteq uart_pins /\ uart_pins # {} /\ uart_pins \subseteq LaSet
    /\ uart_proxy_conn # NoConn /\ uart_rearm_conn # uart_proxy_conn => fab["uart"] = uart_pins

\* The debug probe and the SPI master run on exactly the pins of their session.
ProbeFits ==
    /\ \A p \in LaSet : s_pin[p] \in {"swd_clk", "swd_dio"} <=> p \in fab["swd"]
    /\ \A p \in LaSet : s_pin[p] = "spi" <=> p \in fab["spi"]
    /\ fab["swd"] # {} => swd_armed_local
    /\ fab["spi"] # {} => spi_armed_local

\* The sensor's and the receiver's engines run on the pins their session remembers.
SimsFit ==
    /\ fab["i2c"] \subseteq sensor /\ \A p \in sensor : s_pin[p] = "i2c"
    /\ \A p \in LaSet : s_pin[p] = "gps" <=> p = gps
    /\ fab["gps"] \subseteq {gps} \ {NoPin} /\ (gps_rearm => gps # NoPin /\ fab["gps"] = {})
    /\ gps # NoPin /\ ~gps_rearm => gps \in fab["gps"]

\* The RX pull that a UART session closed, and what keeps the bank at 3.3 V under it.
PullHeld ==
    /\ uart_rx_pu_ch \in UpPins \cup {NoPin} /\ uart_rx_pu_prev \in BOOLEAN
    /\ uart_rx_pu_ch # NoPin => uart_proxy_conn # NoConn /\ s_la_vccio_mv = "3v3"

\* The inductive invariant of the pins.
PinsInv == Pins!TypeOK /\ LatchFits /\ UartFits /\ ProbeFits /\ SimsFit /\ PullHeld /\ Pins!PullsFit

\* The bounds, as the modules state them.
LEMMA RangeConstants == MaxStores \in Nat /\ MaxCmds \in Nat /\ MaxFails \in Nat
  BY Assumptions DEF Ranges!ConstantsOK

\* A part that is stored leaves the rest of the record; what the fit is not made of leaves the fit.
LEMMA StoredRecord ==
    ASSUME RangeInv, stores < MaxStores, NEW p \in Ranges!Parts
    PROVE  /\ Ranges!Stored(p) \in [Ranges!Parts -> 0 .. MaxStores]
           /\ p \in {"dac5", "dac12", "comp"} => \A low \in BOOLEAN : Ranges!Fit(low, Ranges!Stored(p)) = Ranges!Fit(low, rec)
  BY RangeConstants DEF RangeInv, Ranges!TypeOK, Ranges!Stored, Ranges!Fit, Ranges!Parts

\* The commands that move relays: a change of the low range asks for an announcement.
LEMMA RelaysKeepRange ==
    ASSUME RangeInv, cjob.pc = "idle", Ranges!Shadow(rlow') \/ resend' = TRUE, rlow' \in BOOLEAN, resend' \in BOOLEAN,
           rpath' \in Ranges!Routes, relays' \in Ranges!Routes, UNCHANGED <<lowhw, rec, cjob, stores, told, refused>>
    PROVE  RangeInv'
  BY DEF RangeInv, Ranges!TypeOK, StoredSoFar, Ranges!AnnouncedFit, Ranges!Shadow, Ranges!Fit

\* apply's check of a record: refused, or in use until it is put back, with a fit that differs only if the server is
\* told.
LEMMA CheckKeepsRange ==
    ASSUME RangeInv, cjob.pc = "idle", NEW new \in [Ranges!Parts -> 0 .. MaxStores], NEW tell \in BOOLEAN,
           Ranges!Check(new, tell), tell \/ \A low \in BOOLEAN : Ranges!Fit(low, new) = Ranges!Fit(low, rec),
           Ranges!Shadow(rlow') \/ resend' = TRUE, rlow' \in BOOLEAN, resend' \in BOOLEAN,
           rpath' \in Ranges!Routes, relays' \in Ranges!Routes, UNCHANGED <<lowhw, told>>
    PROVE  RangeInv'
<1> USE RangeConstants DEF RangeInv, Ranges!Check
<1>1. /\ cjob' \in [pc : {"idle", "checked", "saving", "asks"}, new : [Ranges!Parts -> 0 .. MaxStores],
                    was : [Ranges!Parts -> 0 .. MaxStores], tell : BOOLEAN]
      /\ stores' \in 0 .. MaxStores /\ rec' \in [Ranges!Parts -> 0 .. MaxStores]
  BY DEF Ranges!TypeOK
<1>2. Ranges!TypeOK'  BY <1>1 DEF Ranges!TypeOK
<1>3. StoredSoFar'  BY DEF Ranges!TypeOK, StoredSoFar, Ranges!AnnouncedFit, Ranges!Shadow
<1>4. Ranges!AnnouncedFit'  BY DEF Ranges!AnnouncedFit
<1> QED BY <1>1, <1>2, <1>3, <1>4

\* handle_calibrate: every form of it keeps the invariant.
LEMMA CalibrateKeepsRange == ASSUME RangeInv, Ranges!Idle, Ranges!Calibrate, UNCHANGED <<lowhw, told>> PROVE RangeInv'
<1>0. cjob.pc = "idle" /\ rlow \in BOOLEAN /\ resend \in BOOLEAN /\ rpath \in Ranges!Routes /\ relays \in Ranges!Routes
  BY DEF RangeInv, Ranges!TypeOK, Ranges!Idle
<1>1. CASE Ranges!DacStore
  <2>1. PICK p \in {"dac5", "dac12"} : Ranges!Check(Ranges!Stored(p), FALSE)
    BY <1>1 DEF Ranges!DacStore
  <2>2. stores < MaxStores /\ p \in Ranges!Parts  BY <2>1 DEF Ranges!Check, Ranges!Parts
  <2> QED BY <1>0, <1>1, <2>1, <2>2, StoredRecord, CheckKeepsRange DEF Ranges!DacStore, Ranges!Shadow
<1>2. CASE Ranges!ZeroStore
  <2>1. stores < MaxStores /\ "zero" \in Ranges!Parts
    BY <1>2 DEF Ranges!ZeroStore, Ranges!Check, Ranges!Parts
  <2>2. Ranges!Stored("zero") \in [Ranges!Parts -> 0 .. MaxStores]  BY <2>1, StoredRecord
  <2>3. Ranges!Check(Ranges!Stored("zero"), TRUE)  BY <1>2 DEF Ranges!ZeroStore
  <2>4. Ranges!Shadow(rlow') /\ rlow' \in BOOLEAN /\ resend' \in BOOLEAN /\ rpath' \in Ranges!Routes /\ relays' \in Ranges!Routes
    BY <1>0, <1>2 DEF Ranges!ZeroStore, Ranges!PathSet, Ranges!Shadow, Ranges!KeepsLow, Ranges!Routes
  <2> QED BY <1>0, <2>2, <2>3, <2>4, CheckKeepsRange
<1>3. CASE Ranges!GainStore \/ Ranges!LowGainStore
  <2>1. PICK p \in {"cal1", "cal2", "ext", "low"} : Ranges!Check(Ranges!Stored(p), TRUE)
    BY <1>3 DEF Ranges!GainStore, Ranges!LowGainStore
  <2>2. stores < MaxStores /\ p \in Ranges!Parts  BY <2>1 DEF Ranges!Check, Ranges!Parts
  <2>3. Ranges!Stored(p) \in [Ranges!Parts -> 0 .. MaxStores]  BY <2>2, StoredRecord
  <2>4. /\ Ranges!Shadow(rlow') \/ resend' = TRUE
        /\ rlow' \in BOOLEAN /\ resend' \in BOOLEAN /\ rpath' \in Ranges!Routes /\ relays' \in Ranges!Routes
    BY <1>0, <1>3 DEF Ranges!GainStore, Ranges!LowGainStore, Ranges!MeasureGain, Ranges!Shadow, Ranges!Routes
  <2> QED BY <1>0, <2>1, <2>3, <2>4, CheckKeepsRange
<1>4. CASE Ranges!CompStore
  <2>1. stores < MaxStores /\ "comp" \in Ranges!Parts
    BY <1>4 DEF Ranges!CompStore, Ranges!Parts
  <2>2. /\ Ranges!Stored("comp") \in [Ranges!Parts -> 0 .. MaxStores]
        /\ \A low \in BOOLEAN : Ranges!Fit(low, Ranges!Stored("comp")) = Ranges!Fit(low, rec)
    BY <2>1, StoredRecord
  <2>3. StoredSoFar'
    BY <1>0, <1>4, <2>2 DEF Ranges!CompStore, StoredSoFar, RangeInv, Ranges!AnnouncedFit
  <2>4. stores' \in 0 .. MaxStores  BY <1>4, RangeConstants DEF Ranges!CompStore, RangeInv
  <2> QED BY <1>4, <2>2, <2>3, <2>4 DEF Ranges!CompStore, RangeInv, Ranges!TypeOK, Ranges!AnnouncedFit
<1>5. CASE Ranges!ClearAll
  <2>1. rec' \in [Ranges!Parts -> 0 .. MaxStores]
    BY <1>5, RangeConstants DEF Ranges!ClearAll, Ranges!Nothing
  <2>2. Ranges!Nothing \in [Ranges!Parts -> 0 .. MaxStores]
    BY RangeConstants DEF Ranges!Nothing
  <2>3. CASE cjob' = [pc |-> "asks", new |-> Ranges!Nothing, was |-> Ranges!Nothing, tell |-> FALSE]
    <3>1. /\ cjob' \in [pc : {"idle", "checked", "saving", "asks"}, new : [Ranges!Parts -> 0 .. MaxStores],
                       was : [Ranges!Parts -> 0 .. MaxStores], tell : BOOLEAN]
          /\ cjob'.pc = "asks"
      BY <2>2, <2>3
    <3> QED BY <1>5, <2>1, <3>1 DEF Ranges!ClearAll, RangeInv, Ranges!TypeOK, StoredSoFar, Ranges!AnnouncedFit
  <2>4. CASE cjob' = cjob /\ refused' = TRUE
    BY <1>0, <1>5, <2>1, <2>4 DEF Ranges!ClearAll, RangeInv, Ranges!TypeOK, StoredSoFar, Ranges!AnnouncedFit
  <2> QED BY <1>5, <2>3, <2>4 DEF Ranges!ClearAll, Ranges!NoJob
<1>6. CASE Ranges!ClearPart
  <2>1. PICK ps \in SUBSET Ranges!Parts :
          cjob' = [pc |-> "saving", new |-> [p \in Ranges!Parts |-> IF p \in ps THEN 0 ELSE rec[p]], was |-> rec, tell |-> TRUE]
    BY <1>6 DEF Ranges!ClearPart, Ranges!Parts
  <2>2. [p \in Ranges!Parts |-> IF p \in ps THEN 0 ELSE rec[p]] \in [Ranges!Parts -> 0 .. MaxStores]
    BY RangeConstants DEF RangeInv, Ranges!TypeOK
  <2> QED BY <1>6, <2>1, <2>2 DEF Ranges!ClearPart, RangeInv, Ranges!TypeOK, StoredSoFar, Ranges!AnnouncedFit
<1> QED BY <1>1, <1>2, <1>3, <1>4, <1>5, <1>6 DEF Ranges!Calibrate

\* Every step of the ADC's side keeps it.
LEMMA RangeInvStep == RangeInv /\ [Ranges!Next]_rangeVars => RangeInv'
<1> SUFFICES ASSUME RangeInv, [Ranges!Next]_rangeVars PROVE RangeInv'
  OBVIOUS
<1>1. CASE Ranges!Idle /\ (Ranges!AnalogPath \/ Ranges!CalSwitch \/ Ranges!AdcRangeCmd \/ Ranges!SelfTest \/ Ranges!SwitchInit)
           /\ UNCHANGED <<lowhw, rec, cjob, stores, fails, told, refused>>
  <2>1. /\ Ranges!Shadow(rlow') \/ resend' = TRUE
        /\ rlow' \in BOOLEAN /\ resend' \in BOOLEAN /\ rpath' \in Ranges!Routes /\ relays' \in Ranges!Routes
    <3> USE DEF RangeInv, Ranges!TypeOK, Ranges!Shadow, Ranges!Routes
    <3>1. CASE Ranges!AnalogPath
      <4>1. PICK p \in Ranges!Routes, r \in {"none", "normal", "low"} :
              IF r = "none" THEN Ranges!PathSet(p)
              ELSE /\ Ranges!Shadow(r = "low")
                   /\ relays' = IF p = "current_out" THEN relays ELSE p
                   /\ rpath' = IF p = "current_out" THEN rpath ELSE p
        BY <3>1 DEF Ranges!AnalogPath
      <4>2. CASE r = "none"
        BY <4>1, <4>2 DEF Ranges!PathSet, Ranges!KeepsLow
      <4>3. CASE r # "none"
        BY <4>1, <4>3
      <4> QED BY <4>2, <4>3
    <3>2. CASE Ranges!CalSwitch \/ Ranges!AdcRangeCmd
      BY <3>2 DEF Ranges!CalSwitch, Ranges!AdcRangeCmd, Ranges!RangeSet
    <3>3. CASE Ranges!SelfTest \/ Ranges!SwitchInit
      BY <3>3 DEF Ranges!SelfTest, Ranges!SwitchInit
    <3> QED BY <1>1, <3>1, <3>2, <3>3
  <2> QED BY <1>1, <2>1, RelaysKeepRange DEF Ranges!Idle
<1>2. CASE Ranges!Idle /\ Ranges!Calibrate /\ UNCHANGED <<lowhw, told>>
  BY <1>2, CalibrateKeepsRange
<1>3. CASE (Ranges!BackToOld \/ Ranges!Commit \/ Ranges!Announce) /\ UNCHANGED <<lowhw, rpath, relays, rlow, stores, cmds, told>>
  <2>1. cjob' \in [pc : {"idle", "checked", "saving", "asks"}, new : [Ranges!Parts -> 0 .. MaxStores],
                   was : [Ranges!Parts -> 0 .. MaxStores], tell : BOOLEAN]
    <3>1. Ranges!NoJob \in [pc : {"idle"}, new : [Ranges!Parts -> 0 .. MaxStores],
                            was : [Ranges!Parts -> 0 .. MaxStores], tell : BOOLEAN]
      BY RangeConstants DEF Ranges!NoJob, Ranges!Nothing
    <3> QED BY <1>3, <3>1 DEF RangeInv, Ranges!BackToOld, Ranges!Commit, Ranges!Announce
  <2>2. Ranges!TypeOK'
    BY <1>3, <2>1 DEF RangeInv, Ranges!TypeOK, Ranges!BackToOld, Ranges!Commit, Ranges!Announce
  <2>3. StoredSoFar'
    <3>1. CASE Ranges!BackToOld
      BY <1>3, <3>1 DEF RangeInv, Ranges!TypeOK, StoredSoFar, Ranges!BackToOld
    <3>2. CASE Ranges!Commit \/ Ranges!Announce
      BY <1>3, <3>2 DEF RangeInv, StoredSoFar, Ranges!Commit, Ranges!Announce, Ranges!NoJob
    <3> QED BY <1>3, <3>1, <3>2
  <2>4. Ranges!AnnouncedFit'
    BY <1>3, <2>1 DEF RangeInv, Ranges!TypeOK, StoredSoFar, Ranges!AnnouncedFit, Ranges!BackToOld, Ranges!Commit, Ranges!Announce, Ranges!NoJob
  <2> QED BY <1>3, <2>1, <2>2, <2>3, <2>4 DEF RangeInv
<1>4. CASE Ranges!SendCaps \/ Ranges!ConnectCaps
  BY <1>4 DEF RangeInv, Ranges!TypeOK, StoredSoFar, Ranges!AnnouncedFit, Ranges!SendCaps, Ranges!ConnectCaps
<1>5. CASE UNCHANGED rangeVars
  BY <1>5 DEF rangeVars, RangeInv, Ranges!TypeOK, StoredSoFar, Ranges!AnnouncedFit
<1> QED BY <1>1, <1>2, <1>3, <1>4, <1>5 DEF Ranges!Next

\* At power-up nothing is stored and the server knows it.
LEMMA RangeInitially == Ranges!Init => RangeInv
<1> SUFFICES ASSUME Ranges!Init PROVE RangeInv
  OBVIOUS
<1>1. Ranges!Nothing \in [Ranges!Parts -> 0 .. MaxStores]  BY RangeConstants DEF Ranges!Nothing
<1>2. cjob \in [pc : {"idle", "checked", "saving", "asks"}, new : [Ranges!Parts -> 0 .. MaxStores],
                was : [Ranges!Parts -> 0 .. MaxStores], tell : BOOLEAN]
  BY <1>1 DEF Ranges!Init, Ranges!NoJob
<1>3. Ranges!TypeOK  BY <1>1, <1>2 DEF Ranges!Init, Ranges!TypeOK, Ranges!NoJob, Ranges!Routes
<1>4. StoredSoFar /\ Ranges!AnnouncedFit
  BY DEF Ranges!Init, Ranges!NoJob, StoredSoFar, Ranges!AnnouncedFit
<1> QED BY <1>2, <1>3, <1>4, RangeConstants DEF Ranges!Init, RangeInv

\* A level a channel is parked at: the limited channel's inside its window.
LEMMA ParkCodes ==
    ASSUME NEW s \in Section, NEW c \in Analog!Chans
    PROVE  /\ Analog!ParkCode(s, c) \in {"zero", "in"}
           /\ s.lim # Analog!NoLimits /\ Analog!ChanOf(s.lim.path) = c => Analog!ParkCode(s, c) = "in"
  BY DEF Analog!ParkCode

\* The path of set limits, and the channels of the quad.
LEMMA LimitPaths ==
    /\ \A s \in Section : s.lim # Analog!NoLimits => s.lim.path \in Analog!Volt /\ s.lim.inv \in BOOLEAN
    /\ \A p \in Analog!Volt : Analog!ChanOf(p) \in {"B", "C"}
    /\ \A p \in Analog!Paths : Analog!ChanOf(p) \in {"none", "keep", "B", "C", "D"} /\ (Analog!ChanOf(p) = "none" <=> p = "off")
  BY DEF Section, Analog!Limits, Analog!Volt, Analog!NoLimits, Analog!ChanOf, Analog!Paths

\* dac_stop, fpga_stop_dac.
LEMMA StopKeeps ==
    ASSUME NEW s \in Section, Wired(s)
    PROVE  LET t == Analog!Stop(s) IN
           /\ t \in Section /\ Wired(t) /\ (Held(s) => Held(t)) /\ t.out = "idle"
           /\ t.lim = s.lim /\ t.ch = s.ch /\ t.mux = s.mux /\ t.level = s.level /\ t.live = s.live /\ t.ana14 = s.ana14
  BY DEF Section, Analog!Stop, Wired, Levels, Held

\* dac_quad_route: whatever it selects, the others are parked.
LEMMA QuadRouteKeeps ==
    ASSUME NEW s \in Section, Wired(s), quad, NEW p \in Analog!Paths
    PROVE  LET t == Analog!QuadRoute(s, p) IN
           /\ t \in Section /\ Wired(t) /\ (Held(s) => Held(t)) /\ t.lim = s.lim /\ t.out \in {s.out, "idle"}
           /\ p \in Analog!Volt => t.ch = Analog!ChanOf(p)
           /\ p = "off" => t.live = {} /\ \A c \in s.live : t.level[c] = Analog!ParkCode(s, c)
<1> DEFINE c == Analog!ChanOf(p)
           off == p = "off"
           stops == s.ch # "none" /\ IF off THEN s.ch # "D" ELSE s.ch # c
           parks == IF off THEN s.live ELSE IF c = "D" THEN {} ELSE s.live \ {c}
           u == IF stops THEN Analog!Stop(s) ELSE s
           t == Analog!QuadRoute(s, p)
<1>1. CASE c = "keep"
  BY <1>1, LimitPaths DEF Analog!QuadRoute
<1>2. CASE c # "keep"
  <2>1. /\ u \in Section /\ u.lim = s.lim /\ u.level = s.level /\ u.live = s.live /\ u.ana14 = s.ana14 /\ u.ch = s.ch
        /\ u.out \in {s.out, "idle"}
    BY StopKeeps
  <2>2. t = [u EXCEPT !.level = [d \in Analog!Chans |-> IF d \in parks THEN Analog!ParkCode(s, d) ELSE @[d]],
                      !.live = @ \ parks, !.ch = IF ~off THEN c ELSE IF s.ch = "D" THEN "D" ELSE "none"]
    BY <1>2 DEF Analog!QuadRoute
  <2> HIDE DEF u, t
  <2>3. \A d \in Analog!Chans : Analog!ParkCode(s, d) \in Analog!Codes
    BY ParkCodes DEF Analog!Codes
  <2>4. parks \subseteq {"B", "C"} /\ c \in {"none", "B", "C", "D"}
    BY <1>2, LimitPaths DEF Section
  <2>5. t \in Section  BY <2>1, <2>2, <2>3, <2>4 DEF Section
  <2>6. /\ t.lim = s.lim /\ t.ana14 = s.ana14 /\ t.out \in {s.out, "idle"} /\ t.live = s.live \ parks
        /\ t.ch = IF ~off THEN c ELSE IF s.ch = "D" THEN "D" ELSE "none"
        /\ \A d \in Analog!Chans : t.level[d] = IF d \in parks THEN Analog!ParkCode(s, d) ELSE s.level[d]
    BY <2>1, <2>2 DEF Section
  <2>7. Wired(t)
    BY <2>4, <2>5, <2>6, ParkCodes, LimitPaths DEF Wired, Levels, Section, Analog!Chans
  <2>8. Held(s) => Held(t)  BY <2>6, ParkCodes, LimitPaths DEF Held, Analog!Chans
  <2>9. off => t.live = {} /\ \A d \in s.live : t.level[d] = Analog!ParkCode(s, d)
    BY <2>6 DEF Section, Analog!Chans
  <2>10. p \in Analog!Volt => t.ch = c  BY <2>6 DEF Analog!Volt
  <2> QED BY <2>5, <2>6, <2>7, <2>8, <2>9, <2>10 DEF t
<1> QED BY <1>1, <1>2

\* analog_path_set: a route that the limits allow.
LEMMA RouteKeeps ==
    ASSUME NEW s \in Section, Wired(s), NEW p \in Analog!Paths
    PROVE  LET t == Analog!Route(s, p) IN
           /\ t \in Section /\ Wired(t) /\ t.lim = s.lim /\ t.out \in {s.out, "idle"}
           /\ ~quad => t.level = s.level /\ (p \in Analog!Volt => t.mux = p)
           /\ quad /\ p \in Analog!Volt => t.ch = Analog!ChanOf(p)
           /\ s.lim = a.lim /\ Analog!RouteOK(p) /\ Held(s) => Held(t)
<1>1. CASE quad
  BY <1>1, QuadRouteKeeps DEF Analog!Route, Analog!Mux
<1>2. CASE ~quad
  <2>1. CASE p \in {"ext", "current_in"}
    BY <1>2, <2>1 DEF Analog!Route, Analog!Mux, Analog!Volt
  <2>2. CASE p \notin {"ext", "current_in"}
    <3> DEFINE m == CASE p \in {"off", "current_out"} -> "off" [] p \in {"5v", "cal1"} -> "5v"
                      [] p = "12v" -> "12v" [] p = "cal2" -> "12adc"
    <3>1. Analog!Route(s, p) = [s EXCEPT !.mux = m]  BY <1>2, <2>2 DEF Analog!Route, Analog!Mux
    <3>2. /\ m \in {"off", "5v", "12v", "12adc"} /\ (p \in Analog!Volt => m = p)
          /\ s.lim = a.lim /\ Analog!RouteOK(p) /\ s.lim # Analog!NoLimits /\ s.lim.inv => m = s.lim.path
      BY <2>2, LimitPaths DEF Analog!Paths, Analog!Volt, Analog!RouteOK
    <3> HIDE DEF m
    <3> QED BY <1>2, <3>1, <3>2 DEF Section, Wired, Levels, Held
  <2> QED BY <2>1, <2>2
<1> QED BY <1>1, <1>2

\* fpga_start_dac and its siblings: the stream plays to the selected output.
LEMMA StartKeeps ==
    ASSUME NEW s \in Section, Wired(s), NEW what \in {"wave", "hold", "loop"}, NEW code \in Analog!Codes \ {"reset"}
    PROVE  LET t == Analog!Start(s, what, code) IN
           /\ t \in Section /\ Wired(t) /\ t.lim = s.lim /\ t.out = what /\ t.mux = s.mux
           /\ ~quad => t.level["X"] = code
           /\ Held(s) /\ code = "in" => Held(t)
<1>1. CASE ~quad
  BY <1>1 DEF Analog!Start, Section, Wired, Levels, Held, Analog!Chans
<1>2. CASE quad
  <2>1. CASE s.ch \in {"none", "D"}
    BY <1>2, <2>1 DEF Analog!Start, Section, Wired, Levels, Held
  <2>2. CASE s.ch = "B"
    <3> DEFINE t == Analog!Start(s, what, code)
    <3>1. t = [s EXCEPT !.out = what, !.level["B"] = code, !.live = s.live \cup {"B"}]
      BY <1>2, <2>2 DEF Analog!Start
    <3> HIDE DEF t
    <3>2. t \in Section  BY <3>1 DEF Section, Analog!Chans, Analog!Codes
    <3>3. /\ t.lim = s.lim /\ t.out = what /\ t.mux = s.mux /\ t.ch = s.ch /\ t.ana14 = s.ana14
          /\ t.live = s.live \cup {"B"} /\ t.level = [s.level EXCEPT !["B"] = code]
      BY <3>1 DEF Section
    <3>4. Levels(t) /\ Wired(t)
      BY <1>2, <2>2, <3>3 DEF Section, Wired, Levels, Analog!Chans, Analog!Codes
    <3>5. Held(s) /\ code = "in" => Held(t)
      BY <1>2, <3>3, LimitPaths DEF Section, Held, Analog!Chans, Analog!Codes
    <3> QED BY <1>2, <3>2, <3>3, <3>4, <3>5 DEF t
  <2>3. CASE s.ch = "C"
    <3> DEFINE t == Analog!Start(s, what, code)
    <3>1. t = [s EXCEPT !.out = what, !.level["C"] = code, !.live = s.live \cup {"C"}]
      BY <1>2, <2>3 DEF Analog!Start
    <3> HIDE DEF t
    <3>2. t \in Section  BY <3>1 DEF Section, Analog!Chans, Analog!Codes
    <3>3. /\ t.lim = s.lim /\ t.out = what /\ t.mux = s.mux /\ t.ch = s.ch /\ t.ana14 = s.ana14
          /\ t.live = s.live \cup {"C"} /\ t.level = [s.level EXCEPT !["C"] = code]
      BY <3>1 DEF Section
    <3>4. Levels(t) /\ Wired(t)
      BY <1>2, <2>3, <3>3 DEF Section, Wired, Levels, Analog!Chans, Analog!Codes
    <3>5. Held(s) /\ code = "in" => Held(t)
      BY <1>2, <3>3, LimitPaths DEF Section, Held, Analog!Chans, Analog!Codes
    <3> QED BY <1>2, <3>2, <3>3, <3>4, <3>5 DEF t
  <2> QED BY <2>1, <2>2, <2>3 DEF Section
<1> QED BY <1>1, <1>2

\* dac_set_constant and its 16-bit form, dac_quad_hold: the selected output moves to a level.
LEMMA LevelKeeps ==
    ASSUME NEW s \in Section, Wired(s), NEW code \in Analog!Codes \ {"reset"}
    PROVE  LET t == Analog!Hold(s, code) IN
           /\ t \in Section /\ Wired(t) /\ t.lim = s.lim /\ t.out # "loop" /\ t.mux = s.mux
           /\ ~quad => t.level["X"] = code
           /\ quad /\ s.ch \in {"B", "C"} => t.level[s.ch] = code
           /\ Held(s) /\ (code = "in" \/ (quad /\ s.ch \in {"B", "C"} /\ s.ch # Analog!ChanOf(s.lim.path))) => Held(t)
<1>1. CASE ~quad
  BY <1>1, StartKeeps DEF Analog!Hold
<1>2. CASE quad
  <2> DEFINE u == Analog!Stop(s)
  <2>1. /\ u \in Section /\ Wired(u) /\ (Held(s) => Held(u)) /\ u.out = "idle"
        /\ u.lim = s.lim /\ u.ch = s.ch /\ u.mux = s.mux /\ u.level = s.level /\ u.live = s.live
    BY StopKeeps
  <2> HIDE DEF u
  <2>2. CASE s.ch \in {"none", "D"}
    BY <1>2, <2>1, <2>2 DEF Analog!Hold, Analog!Write, u
  <2>3. CASE s.ch \in {"B", "C"}
    <3>1. Analog!Hold(s, code) =
            [u EXCEPT !.level[s.ch] = code,
                      !.live = IF code = Analog!ParkCode(u, s.ch) THEN @ \ {s.ch} ELSE @ \cup {s.ch}]
      BY <1>2, <2>3 DEF Analog!Hold, Analog!Write, u
    <3>2. code = Analog!ParkCode(u, s.ch) => code # "wild"
      BY <2>1, <2>3, ParkCodes DEF Analog!Chans
    <3> DEFINE t == Analog!Hold(s, code)
    <3> HIDE DEF t
    <3>3. t \in Section
      <4>1. u.live \in SUBSET {"B", "C"} /\ u.level \in [Analog!Chans -> Analog!Codes]
        BY <2>1 DEF Section
      <4>2. [u.level EXCEPT ![s.ch] = code] \in [Analog!Chans -> Analog!Codes]  BY <4>1
      <4>3. (IF code = Analog!ParkCode(u, s.ch) THEN u.live \ {s.ch} ELSE u.live \cup {s.ch}) \in SUBSET {"B", "C"}
        BY <2>3, <4>1
      <4> DEFINE l == [u.level EXCEPT ![s.ch] = code]
                 w == IF code = Analog!ParkCode(u, s.ch) THEN u.live \ {s.ch} ELSE u.live \cup {s.ch}
      <4>4. t = [u EXCEPT !.level = l, !.live = w]  BY <2>1, <3>1 DEF t, Section
      <4> HIDE DEF l, w
      <4> QED BY <2>1, <4>2, <4>3, <4>4 DEF l, w, Section
    <3>4. /\ t.lim = s.lim /\ t.out = "idle" /\ t.mux = s.mux /\ t.ch = s.ch /\ t.ana14 = u.ana14
          /\ t.live = IF code = Analog!ParkCode(u, s.ch) THEN s.live \ {s.ch} ELSE s.live \cup {s.ch}
          /\ \A d \in Analog!Chans : t.level[d] = IF d = s.ch THEN code ELSE s.level[d]
      BY <2>1, <2>3, <3>1 DEF t, Section, Analog!Chans
    <3>5. Wired(t)  BY <1>2, <2>1, <2>3, <3>2, <3>4 DEF Wired, Levels, Section, Analog!Chans
    <3>6. Held(s) /\ (code = "in" \/ s.ch # Analog!ChanOf(s.lim.path)) => Held(t)
      BY <1>2, <3>4, LimitPaths DEF Held, Analog!Chans
    <3> QED BY <1>2, <2>3, <3>3, <3>4, <3>5, <3>6 DEF t, Analog!Chans
  <2> QED BY <2>2, <2>3 DEF Section
<1> QED BY <1>1, <1>2

\* dac_limits_park_now: the limited output is inside its window after it.
LEMMA ParkHolds ==
    ASSUME NEW s \in Section, Wired(s)
    PROVE  LET t == Analog!Park(s) IN
           /\ t \in Section /\ Wired(t) /\ t.lim = s.lim /\ (s.out = "idle" => t.out # "loop")
           /\ s.lim # Analog!NoLimits => Held(t)
<1>1. CASE s.lim = Analog!NoLimits
  BY <1>1 DEF Analog!Park
<1>2. CASE s.lim # Analog!NoLimits
  <2>1. s.lim.path \in Analog!Volt /\ s.lim.path \in Analog!Paths /\ "in" \in Analog!Codes \ {"reset"}
    BY <1>2, LimitPaths DEF Analog!Paths, Analog!Codes
  <2>2. CASE quad
    <3> DEFINE u == Analog!Route(s, s.lim.path)
    <3>1. u \in Section /\ Wired(u) /\ u.lim = s.lim /\ u.ch = Analog!ChanOf(s.lim.path)
      BY <2>1, <2>2, RouteKeeps
    <3>2. Analog!Park(s) = Analog!Hold(u, "in")  BY <1>2, <2>2 DEF Analog!Park
    <3> HIDE DEF u
    <3> QED BY <1>2, <2>1, <2>2, <3>1, <3>2, LevelKeeps, LimitPaths DEF Held
  <2>3. CASE ~quad
    <3> DEFINE u == Analog!Hold(s, "in")
    <3>1. u \in Section /\ Wired(u) /\ u.lim = s.lim /\ u.out # "loop" /\ u.level["X"] = "in"
      BY <2>1, <2>3, LevelKeeps
    <3>2. Analog!Park(s) = Analog!Route(u, s.lim.path)  BY <1>2, <2>3 DEF Analog!Park
    <3> HIDE DEF u
    <3> QED BY <1>2, <2>1, <2>3, <3>1, <3>2, RouteKeeps DEF Held
  <2> QED BY <2>2, <2>3
<1> QED BY <1>1, <1>2

\* dac_quad_boot: +-14 V comes on behind parked channels only.
LEMMA QuadBootSafe ==
    ASSUME NEW s \in Section, Levels(s), NEW ok \in BOOLEAN, s.out = "idle"
    PROVE  LET t == Analog!QuadBoot(s, ok) IN
           /\ t \in Section /\ Wired(t) /\ t.lim = s.lim /\ t.out = "idle"
           /\ ok /\ quad /\ s.lim # Analog!NoLimits => Held(t)
<1>1. CASE ~quad
  BY <1>1 DEF Analog!QuadBoot, Wired, Levels
<1>2. CASE quad
  <2> DEFINE u == [s EXCEPT !.ch = "none", !.live = {"B", "C"}]
             v == Analog!QuadRoute(u, "off")
  <2>1. u \in Section /\ Wired(u) /\ u.lim = s.lim /\ u.out = "idle" /\ u.live = {"B", "C"}
    BY DEF Section, Wired, Levels
  <2>2. CASE ok
    <3>1. Analog!QuadBoot(s, ok) = [v EXCEPT !.ana14 = TRUE]  BY <1>2, <2>2 DEF Analog!QuadBoot
    <3> HIDE DEF u
    <3>2. /\ v \in Section /\ Wired(v) /\ v.lim = s.lim /\ v.out = "idle"
          /\ \A c \in {"B", "C"} : v.level[c] = Analog!ParkCode(u, c)
      BY <1>2, <2>1, QuadRouteKeeps DEF Analog!Paths
    <3>3. v.level["C"] # "reset"  BY <2>1, <3>2, ParkCodes DEF Analog!Chans
    <3>4. s.lim # Analog!NoLimits => v.level[Analog!ChanOf(s.lim.path)] = "in"
      BY <2>1, <3>2, ParkCodes, LimitPaths DEF Analog!Chans
    <3> HIDE DEF v
    <3> QED BY <1>2, <3>1, <3>2, <3>3, <3>4 DEF Section, Wired, Levels, Held
  <2>3. CASE ~ok
    BY <1>2, <2>1, <2>3 DEF Analog!QuadBoot
  <2> QED BY <2>2, <2>3
<1> QED BY <1>1, <1>2

\* A command under the limits: it changes the section only, which stays in its invariant and does not start a loop.
LEMMA CommandKeeps ==
    ASSUME OutputInv, a' \in Section, Wired(a)', settled => Held(a)', a'.out # "loop" \/ a'.out = a.out, Analog!Keep
    PROVE  OutputInv'
<1> USE DEF OutputInv, Analog!Keep
<1>1. Analog!TypeOK'  BY DEF Analog!TypeOK, Section
<1>2. (settled => Held(a))'  OBVIOUS
<1>3. Analog!LoopAsAsked'  BY DEF Analog!LoopAsAsked
<1> QED BY <1>1, <1>2, <1>3

\* Raw codes, calibrated waveforms and constants: refused under limits.
LEMMA RawKeeps ==
    ASSUME OutputInv, Analog!Generate \/ Analog!Generate16 \/ Analog!DacSet \/ Analog!DacMux \/ Analog!StopOnly
    PROVE  OutputInv'
<1>0. a \in Section /\ Wired(a) /\ (settled => Held(a)) /\ (Analog!RawOK => ~settled)
      /\ {"wild", "zero", "in"} \subseteq Analog!Codes \ {"reset"}
  BY DEF OutputInv, Analog!RawOK, Held, Analog!Codes
<1>1. CASE Analog!Generate
  <2>1. a' = Analog!Start(a, "wave", "wild")  BY <1>1 DEF Analog!Generate
  <2>2. a' \in Section /\ Wired(a') /\ a'.out = "wave"  BY <1>0, <2>1, StartKeeps
  <2>3. Analog!Keep /\ Wired(a)' /\ ~settled
    BY <1>0, <1>1, <2>2 DEF Analog!Generate, Analog!Keep, Wired, Levels
  <2> QED BY <2>2, <2>3, CommandKeeps
<1>2. CASE Analog!Generate16
  <2>1. PICK p \in Analog!Volt \cup {"current_out"}, route \in BOOLEAN :
          a' = Analog!Start(IF route THEN Analog!Route(a, p) ELSE a, "wave", "wild")
    BY <1>2 DEF Analog!Generate16
  <2> DEFINE u == IF route THEN Analog!Route(a, p) ELSE a
  <2>2. u \in Section /\ Wired(u)  BY <1>0, RouteKeeps DEF Analog!Volt, Analog!Paths
  <2>3. a' = Analog!Start(u, "wave", "wild")  BY <2>1
  <2> HIDE DEF u
  <2>4. a' \in Section /\ Wired(a') /\ a'.out = "wave"  BY <1>0, <2>2, <2>3, StartKeeps
  <2>5. Analog!Keep /\ Wired(a)' /\ ~settled
    BY <1>0, <1>2, <2>4 DEF Analog!Generate16, Analog!Keep, Wired, Levels
  <2> QED BY <2>4, <2>5, CommandKeeps
<1>3. CASE Analog!DacSet
  <2>1. PICK code \in Analog!Codes \ {"reset"} : a' = Analog!Hold(a, code)
    BY <1>3 DEF Analog!DacSet
  <2>2. a' \in Section /\ Wired(a') /\ a'.out # "loop"  BY <1>0, <2>1, LevelKeeps
  <2>3. Analog!Keep /\ Wired(a)' /\ ~settled
    BY <1>0, <1>3, <2>2 DEF Analog!DacSet, Analog!Keep, Wired, Levels
  <2> QED BY <2>2, <2>3, CommandKeeps
<1>4. CASE Analog!DacMux
  <2>1. PICK m \in {"off", "5v", "12v", "12adc"} : a' = [a EXCEPT !.mux = m]
    BY <1>4 DEF Analog!DacMux
  <2>2. a' \in Section /\ a'.out = a.out  BY <1>0, <2>1 DEF Section
  <2>3. Analog!Keep /\ Wired(a)' /\ ~settled
    BY <1>0, <1>4 DEF Analog!DacMux, Analog!Keep, Wired, Levels
  <2> QED BY <2>2, <2>3, CommandKeeps
<1>5. CASE Analog!StopOnly
  <2>1. a' \in Section /\ Wired(a') /\ (Held(a) => Held(a')) /\ a'.out = "idle" /\ Analog!Keep
    BY <1>0, <1>5, StopKeeps DEF Analog!StopOnly
  <2>2. Wired(a)' /\ (settled => Held(a)')  BY <1>0, <2>1 DEF Analog!Keep, Wired, Levels, Held
  <2> QED BY <2>1, <2>2, CommandKeeps
<1> QED BY <1>1, <1>2, <1>3, <1>4, <1>5

\* dac_out, current_out and the routes: allowed by the limits' checks.
LEMMA CheckedKeeps ==
    ASSUME OutputInv, Analog!DacOut \/ Analog!CurrentOut \/ Analog!AnalogPath
    PROVE  OutputInv'
<1>0. a \in Section /\ Wired(a) /\ (settled => Held(a)) /\ "wild" \in Analog!Codes \ {"reset"}
  BY DEF OutputInv, Analog!Codes
<1>1. CASE Analog!DacOut
  <2>1. PICK p \in Analog!Volt \cup {"off"} :
          /\ Analog!RouteOK(p)
          /\ \/ a' = Analog!Route(a, p)
             \/ \E code \in Analog!Codes \ {"reset"} :
                  p # "off" /\ Analog!VoltsOK(p, code) /\ a' = Analog!Hold(Analog!Route(a, p), code)
    BY <1>1 DEF Analog!DacOut
  <2> DEFINE u == Analog!Route(a, p)
  <2>2. /\ u \in Section /\ Wired(u) /\ u.lim = a.lim /\ u.out \in {a.out, "idle"} /\ (Held(a) => Held(u))
        /\ quad /\ p # "off" => u.ch = Analog!ChanOf(p)
        /\ ~quad /\ p # "off" => u.mux = p
    BY <1>0, <2>1, RouteKeeps DEF Analog!Volt, Analog!Paths
  <2> HIDE DEF u
  <2>3. CASE a' = u
    <3>1. Analog!Keep /\ Wired(a)' /\ (settled => Held(a)')
      BY <1>0, <1>1, <2>2, <2>3 DEF Analog!DacOut, Analog!Keep, Wired, Levels, Held
    <3> QED BY <2>2, <2>3, <3>1, CommandKeeps DEF Section
  <2>4. CASE \E code \in Analog!Codes \ {"reset"} : p # "off" /\ Analog!VoltsOK(p, code) /\ a' = Analog!Hold(u, code)
    <3>1. PICK code \in Analog!Codes \ {"reset"} : p # "off" /\ Analog!VoltsOK(p, code) /\ a' = Analog!Hold(u, code)
      BY <2>4
    <3>2. a' \in Section /\ Wired(a') /\ a'.out # "loop"  BY <2>2, <3>1, LevelKeeps
    <3>3. settled => \/ p = a.lim.path
                     \/ quad /\ Analog!ChanOf(p) # Analog!ChanOf(a.lim.path)
                     \/ ~quad /\ ~a.lim.inv
      <4>1. settled => a.lim # Analog!NoLimits /\ a.lim.path \in {"5v", "12v"} /\ a.lim.inv \in BOOLEAN
        BY <1>0, LimitPaths DEF Held, Analog!Volt
      <4>2. p \in {"5v", "12v"}  BY <2>1, <3>1 DEF Analog!Volt
      <4>3. settled /\ p # a.lim.path => Analog!ChanOf(p) # Analog!ChanOf(a.lim.path) /\ ~a.lim.inv
        BY <2>1, <4>1, <4>2 DEF Analog!RouteOK, Analog!ChanOf
      <4> QED BY <4>3
    <3>4. ASSUME Held(u), code = "in" \/ (quad /\ Analog!ChanOf(p) # Analog!ChanOf(a.lim.path)) PROVE Held(a')
      <4>1. quad => u.ch = Analog!ChanOf(p) /\ u.ch \in {"B", "C"}
        BY <2>1, <2>2, <3>1, LimitPaths
      <4> QED BY <2>2, <3>1, <3>4, <4>1, LevelKeeps
    <3>5. settled /\ ~quad /\ ~a.lim.inv => Held(a')  BY <1>0, <2>2, <3>1, LevelKeeps DEF Held
    <3>6. settled => Held(a')  BY <1>0, <2>2, <3>1, <3>3, <3>4, <3>5 DEF Analog!VoltsOK
    <3>7. Analog!Keep /\ Wired(a)' /\ (settled => Held(a)')
      BY <1>1, <3>2, <3>6 DEF Analog!DacOut, Analog!Keep, Wired, Levels, Held
    <3> QED BY <3>2, <3>7, CommandKeeps
  <2> QED BY <2>1, <2>3, <2>4 DEF u
<1>2. CASE Analog!CurrentOut
  <2>1. CASE quad
    <3> DEFINE u == IF a.ch = "D" THEN Analog!Stop(a) ELSE a
    <3>1. u \in Section /\ Wired(u) /\ (Held(a) => Held(u)) /\ u.out \in {a.out, "idle"}
      BY <1>0, StopKeeps
    <3>2. a' = u  BY <1>2, <2>1 DEF Analog!CurrentOut, Analog!Write
    <3> HIDE DEF u
    <3>3. Analog!Keep /\ Wired(a)' /\ (settled => Held(a)')
      BY <1>0, <1>2, <3>1, <3>2 DEF Analog!CurrentOut, Analog!Keep, Wired, Levels, Held
    <3> QED BY <3>1, <3>2, <3>3, CommandKeeps
  <2>2. CASE ~quad
    <3>1. a' = Analog!Hold(Analog!Route(a, "current_out"), "wild") /\ a.lim = Analog!NoLimits
      BY <1>2, <2>2 DEF Analog!CurrentOut, Analog!CurrentOK
    <3>2. Analog!Route(a, "current_out") \in Section /\ Wired(Analog!Route(a, "current_out"))
      BY <1>0, RouteKeeps DEF Analog!Paths
    <3>3. a' \in Section /\ Wired(a') /\ a'.out # "loop"  BY <1>0, <3>1, <3>2, LevelKeeps
    <3>4. Analog!Keep /\ Wired(a)' /\ ~settled
      BY <1>0, <1>2, <3>1, <3>3 DEF Analog!CurrentOut, Analog!Keep, Wired, Levels, Held
    <3> QED BY <3>3, <3>4, CommandKeeps
  <2> QED BY <2>1, <2>2
<1>3. CASE Analog!AnalogPath
  <2>1. PICK p \in Analog!Paths : Analog!RouteOK(p) /\ a' = Analog!Route(a, p)
    BY <1>3 DEF Analog!AnalogPath
  <2>2. a' \in Section /\ Wired(a') /\ a'.out \in {a.out, "idle"} /\ (Held(a) => Held(a'))
    BY <1>0, <2>1, RouteKeeps
  <2>3. Analog!Keep /\ Wired(a)' /\ (settled => Held(a)')
    BY <1>0, <1>3, <2>2 DEF Analog!AnalogPath, Analog!Keep, Wired, Levels, Held
  <2> QED BY <2>2, <2>3, CommandKeeps
<1> QED BY <1>1, <1>2, <1>3

\* The control loop: the arm moves the output inside the window and runs on what it was asked for.
LEMMA LoopKeeps == ASSUME OutputInv, Analog!ControlLoop \/ Analog!LoopInput PROVE OutputInv'
<1>0. a \in Section /\ Wired(a) /\ (settled => Held(a))  BY DEF OutputInv
<1>1. CASE Analog!ControlLoop
  <2>1. PICK sr \in Analog!Sources, map \in BOOLEAN, code \in {"in", "wild"} :
          /\ Analog!LoopOK(code) /\ loopReg' = Analog!LoopRegs(sr, map)
          /\ asked' = [src |-> sr, map |-> map] /\ s_loop_src' = sr /\ a' = Analog!ArmLoop(a, code)
    BY <1>1 DEF Analog!ControlLoop
  <2>2. a' \in Section /\ Wired(a') /\ (settled => Held(a'))
    BY <1>0, <2>1, StartKeeps DEF Analog!ArmLoop, Analog!Codes, Analog!LoopOK, Held
  <2>3. Wired(a)' /\ (settled => Held(a))' /\ Analog!TypeOK' /\ Analog!LoopAsAsked'
    BY <1>1, <2>1, <2>2 DEF Analog!ControlLoop, OutputInv, Wired, Levels, Held, Analog!TypeOK, Section, Analog!LoopAsAsked, Analog!LoopRegs
  <2> QED BY <2>1, <2>2, <2>3 DEF OutputInv, Analog!LoopRegs
<1>2. CASE Analog!LoopInput
  <2>1. loopReg' \in [src : Analog!Sources, map : BOOLEAN] /\ asked' \in [src : Analog!Sources, map : BOOLEAN]
    BY <1>2 DEF OutputInv, Analog!LoopInput
  <2> QED BY <1>0, <1>2, <2>1 DEF OutputInv, Analog!LoopInput, Wired, Levels, Held, Analog!TypeOK, Analog!LoopAsAsked
<1> QED BY <1>1, <1>2

\* The record of limits changes and nothing moves; what was settled under the old ones no longer counts.
LEMMA LimitsKeep == ASSUME OutputInv, Analog!LimitsSet \/ Analog!LimitsClear PROVE OutputInv'
<1>1. PICK l \in Analog!Limits \cup {Analog!NoLimits} : a' = [a EXCEPT !.lim = l]
  BY DEF Analog!LimitsSet, Analog!SetLimits, Analog!LimitsClear
<1>2. stored' \in Analog!Limits \cup {Analog!NoLimits} /\ settled' = FALSE /\ UNCHANGED <<quad, image, loopReg, s_loop_src, asked>>
  BY DEF OutputInv, Analog!TypeOK, Analog!LimitsSet, Analog!SetLimits, Analog!LimitsClear
<1>3. aFaults' \in 0 .. MaxFaults
  BY Assumptions DEF Analog!ConstantsOK, OutputInv, Analog!TypeOK, Analog!LimitsSet, Analog!SetLimits, Analog!LimitsClear
<1>4. a' \in Section /\ Wired(a)' /\ a'.out = a.out
  BY <1>1, <1>2 DEF OutputInv, Section, Wired, Levels
<1>5. Analog!TypeOK' /\ Analog!LoopAsAsked'
  BY <1>2, <1>3, <1>4 DEF OutputInv, Analog!TypeOK, Section, Analog!LoopAsAsked
<1> QED BY <1>2, <1>4, <1>5 DEF OutputInv

\* The section a boot starts from: only the levels of a warm one survive.
BootSection(l, cold) == [Analog!PoweredUp EXCEPT !.lim = l, !.level = IF cold THEN @ ELSE a.level]

\* What a power-up and a reconfiguration leave.
LEMMA ResetSections ==
    ASSUME OutputInv
    PROVE  /\ Analog!Reconfigured(a) \in Section /\ Wired(Analog!Reconfigured(a))
           /\ Analog!Reconfigured(a).out = "idle" /\ Analog!Reconfigured(a).lim = a.lim
           /\ \A l \in Analog!Limits \cup {Analog!NoLimits}, cold \in BOOLEAN :
                LET s == BootSection(l, cold) IN s \in Section /\ Levels(s) /\ s.out = "idle" /\ s.lim = l
<1>1. a \in Section /\ Wired(a) /\ Analog!Stop(a) \in Section /\ Wired(Analog!Stop(a)) /\ Analog!Stop(a).out = "idle"
      /\ Analog!Stop(a).lim = a.lim
  BY StopKeeps DEF OutputInv
<1>2. /\ Analog!Reconfigured(a) \in Section /\ Wired(Analog!Reconfigured(a))
      /\ Analog!Reconfigured(a).out = "idle" /\ Analog!Reconfigured(a).lim = a.lim
  <2> DEFINE u == Analog!Stop(a)
  <2>1. Analog!Reconfigured(a) = [u EXCEPT !.level["X"] = "reset"]  BY DEF Analog!Reconfigured
  <2>2. u \in Section /\ Wired(u) /\ u.out = "idle" /\ u.lim = a.lim  BY <1>1
  <2> HIDE DEF u
  <2> QED BY <2>1, <2>2 DEF Section, Wired, Levels, Analog!Chans, Analog!Codes
<1>3. ASSUME NEW l \in Analog!Limits \cup {Analog!NoLimits}, NEW cold \in BOOLEAN
      PROVE  LET s == BootSection(l, cold) IN s \in Section /\ Levels(s) /\ s.out = "idle" /\ s.lim = l
  <2> DEFINE v == IF cold THEN [c \in Analog!Chans |-> "reset"] ELSE a.level
             s == BootSection(l, cold)
  <2>1. v \in [Analog!Chans -> Analog!Codes] /\ (quad => v["B"] # "wild" \/ v["C"] # "wild")
    <3>1. CASE cold
      BY <3>1 DEF Analog!Chans, Analog!Codes
    <3>2. CASE ~cold
      BY <3>2 DEF OutputInv, Section, Wired, Levels
    <3> QED BY <3>1, <3>2
  <2>2. s = [mux |-> "off", ana14 |-> FALSE, level |-> v, ch |-> "none", live |-> {}, out |-> "idle", on |-> TRUE, lim |-> l]
    <3>1. s = [Analog!PoweredUp EXCEPT !.lim = l, !.level = v]
      <4>1. CASE cold
        BY <4>1 DEF BootSection, Analog!PoweredUp
      <4>2. CASE ~cold
        BY <4>2 DEF BootSection, Analog!PoweredUp
      <4> QED BY <4>1, <4>2
    <3> HIDE DEF s, v
    <3> QED BY <3>1 DEF Analog!PoweredUp
  <2> HIDE DEF v, s
  <2> QED BY <2>1, <2>2 DEF s, Section, Levels
<1> QED BY <1>1, <1>2, <1>3

\* dac_limits_park_now after a reconfiguration, and the set-up of a boot.
LEMMA ResetKeeps ==
    ASSUME OutputInv, Analog!DacStop \/ Analog!ImageSwap \/ Analog!IdleReload \/ Analog!ModulePower \/ Analog!Boot
    PROVE  OutputInv'
<1> DEFINE AllFields == /\ stored' \in Analog!Limits \cup {Analog!NoLimits} /\ settled' \in BOOLEAN
                        /\ image' \in {"loop", "deep"} /\ aFaults' \in 0 .. MaxFaults /\ s_loop_src' \in Analog!Sources
                        /\ loopReg' \in [src : Analog!Sources, map : BOOLEAN] /\ UNCHANGED <<asked, quad>>
<1>0. a \in Section /\ Wired(a) /\ MaxFaults \in Nat /\ quad \in BOOLEAN
  BY Assumptions DEF OutputInv, Analog!ConstantsOK, Analog!TypeOK
<1>1. ASSUME AllFields, a' \in Section, Wired(a'), a'.out # "loop", settled' => Held(a') PROVE OutputInv'
  <2>1. Wired(a)' /\ (settled => Held(a))'  BY <1>1 DEF Wired, Levels, Held
  <2>2. Analog!TypeOK'  BY <1>0, <1>1 DEF Analog!TypeOK, Section
  <2> QED BY <1>1, <2>1, <2>2 DEF OutputInv, Analog!LoopAsAsked
<1>2. CASE Analog!DacStop
  <2>1. a' \in Section /\ Wired(a') /\ a'.out # "loop" /\ a'.lim = a.lim /\ (a.lim # Analog!NoLimits => Held(a'))
    BY <1>0, <1>2, StopKeeps, ParkHolds DEF Analog!DacStop
  <2>2. AllFields /\ (settled' => a.lim # Analog!NoLimits)
    BY <1>2 DEF OutputInv, Analog!TypeOK, Analog!DacStop
  <2> QED BY <1>1, <2>1, <2>2
<1>3. CASE Analog!ImageSwap
  <2>1. PICK img \in {"loop", "deep"}, ok \in BOOLEAN :
          /\ ~ok => aFaults < MaxFaults
          /\ aFaults' = IF ok THEN aFaults ELSE aFaults + 1
          /\ Analog!Warmboot(img, ok)
          /\ a' = IF ok THEN Analog!Park(Analog!Reconfigured(a)) ELSE Analog!Reconfigured(a)
          /\ settled' = (ok /\ a.lim # Analog!NoLimits) /\ UNCHANGED <<quad, stored, asked>>
    BY <1>3 DEF Analog!ImageSwap
  <2>2. a' \in Section /\ Wired(a') /\ a'.out # "loop" /\ (settled' => Held(a'))
    BY <2>1, ResetSections, ParkHolds
  <2>3. AllFields
    BY <1>0, <2>1 DEF OutputInv, Analog!TypeOK, Analog!Warmboot, Analog!NoLoop, Analog!Sources
  <2> QED BY <1>1, <2>2, <2>3
<1>4. CASE Analog!IdleReload
  <2> DEFINE u == Analog!QuadBoot(Analog!Reconfigured(a), TRUE)
  <2>1. u \in Section /\ Wired(u) /\ u.lim = a.lim /\ u.out = "idle"
    BY ResetSections, QuadBootSafe DEF Wired
  <2> HIDE DEF u
  <2>2. a' \in Section /\ Wired(a') /\ a'.out # "loop" /\ (settled' => Held(a'))
    BY <1>4, <2>1, ParkHolds DEF Analog!IdleReload, u
  <2>3. AllFields
    BY <1>0, <1>4 DEF OutputInv, Analog!TypeOK, Analog!IdleReload, Analog!NoLoop, Analog!Sources
  <2> QED BY <1>1, <2>2, <2>3
<1>5. CASE Analog!ModulePower
  <2>1. AllFields  BY <1>5 DEF OutputInv, Analog!TypeOK, Analog!ModulePower
  <2>2. CASE a.on
    <3> DEFINE u == Analog!Stop(a)
    <3>1. u \in Section /\ u.out = "idle"  BY <1>0, StopKeeps
    <3> HIDE DEF u
    <3>2. a' = [u EXCEPT !.ana14 = FALSE, !.on = FALSE, !.level = [c \in Analog!Chans |-> "reset"]] /\ settled' = FALSE
          /\ u.live = a.live /\ u.ch = a.ch
      BY <1>0, <1>5, <2>2, StopKeeps DEF Analog!ModulePower, u
    <3>3. a' \in Section /\ Wired(a') /\ a'.out = "idle"
      BY <1>0, <3>1, <3>2 DEF Section, Wired, Levels, Analog!Chans, Analog!Codes
    <3> QED BY <1>1, <2>1, <3>2, <3>3
  <2>3. CASE ~a.on
    <3> DEFINE s == [Analog!PoweredUp EXCEPT !.lim = a.lim]
    <3>1. s = BootSection(a.lim, TRUE)  BY DEF BootSection, Analog!PoweredUp
    <3>2. a.lim \in Analog!Limits \cup {Analog!NoLimits}  BY <1>0 DEF Section
    <3>3. s \in Section /\ Levels(s) /\ s.out = "idle" /\ s.lim = a.lim
      BY <3>1, <3>2, ResetSections
    <3>4. a' = Analog!QuadBoot(s, TRUE) /\ quad /\ (settled' => a.lim # Analog!NoLimits)
      BY <1>5, <2>3 DEF Analog!ModulePower
    <3> HIDE DEF s
    <3>5. a' \in Section /\ Wired(a') /\ a'.out # "loop" /\ (settled' => Held(a'))
      BY <3>3, <3>4, QuadBootSafe
    <3> QED BY <1>1, <2>1, <3>5
  <2> QED BY <2>2, <2>3
<1>6. CASE Analog!Boot
  <2>1. PICK cold \in BOOLEAN, ok \in BOOLEAN :
          /\ aFaults < MaxFaults /\ aFaults' = aFaults + 1
          /\ LET s == Analog!QuadBoot([Analog!PoweredUp EXCEPT !.lim = stored, !.level = IF cold THEN @ ELSE a.level], ok)
             IN a' = IF ok THEN Analog!Park(s) ELSE s
          /\ settled' = (ok /\ stored # Analog!NoLimits)
          /\ loopReg' = IF cold THEN Analog!NoLoop ELSE loopReg
          /\ s_loop_src' = "adc" /\ UNCHANGED <<quad, stored, image, asked>>
    BY <1>6 DEF Analog!Boot
  <2> DEFINE v == BootSection(stored, cold)
             u == Analog!QuadBoot(v, ok)
  <2>2. v \in Section /\ Levels(v) /\ v.out = "idle" /\ v.lim = stored
    <3>1. stored \in Analog!Limits \cup {Analog!NoLimits}  BY DEF OutputInv, Analog!TypeOK
    <3> QED BY <3>1, ResetSections
  <2>3. a' = IF ok THEN Analog!Park(u) ELSE u  BY <2>1 DEF BootSection
  <2> HIDE DEF v
  <2>4. u \in Section /\ Wired(u) /\ u.out = "idle" /\ u.lim = stored  BY <2>2, QuadBootSafe
  <2> HIDE DEF u
  <2>5. a' \in Section /\ Wired(a') /\ a'.out # "loop" /\ (settled' => Held(a'))
    BY <2>1, <2>3, <2>4, ParkHolds
  <2>6. AllFields  BY <1>0, <2>1 DEF OutputInv, Analog!TypeOK, Analog!NoLoop, Analog!Sources
  <2> QED BY <1>1, <2>5, <2>6
<1> QED BY <1>2, <1>3, <1>4, <1>5, <1>6

\* Every step of the outputs keeps the invariant.
LEMMA OutputInvStep == OutputInv /\ [Analog!Next]_analogVars => OutputInv'
<1> SUFFICES ASSUME OutputInv, [Analog!Next]_analogVars PROVE OutputInv'
  OBVIOUS
<1>1. CASE UNCHANGED analogVars
  BY <1>1 DEF analogVars, OutputInv, Wired, Levels, Held, Analog!TypeOK, Analog!LoopAsAsked
<1> QED BY <1>1, RawKeeps, CheckedKeeps, LoopKeeps, LimitsKeep, ResetKeeps DEF Analog!Next

\* Power-up.
LEMMA OutputInitially == Analog!Init => OutputInv
<1> SUFFICES ASSUME Analog!Init PROVE OutputInv
  OBVIOUS
<1>1. a \in Section /\ Wired(a) /\ a.out = "idle"
  <2>1. CASE quad
    BY <2>1 DEF Analog!Init, Analog!PoweredUp, Section, Wired, Levels, Analog!Chans, Analog!Codes
  <2>2. CASE ~quad
    BY <2>2 DEF Analog!Init, Analog!PoweredUp, Section, Wired, Levels, Analog!Chans, Analog!Codes
  <2> QED BY <2>1, <2>2
<1>2. Analog!TypeOK
  <2>1. MaxFaults \in Nat  BY Assumptions DEF Analog!ConstantsOK
  <2>2. aFaults \in 0 .. MaxFaults  BY <2>1 DEF Analog!Init
  <2> QED BY <1>1, <2>2 DEF Analog!Init, Analog!TypeOK, Section, Analog!Sources
<1> QED BY <1>1, <1>2 DEF Analog!Init, OutputInv, Analog!LoopAsAsked, Analog!NoLoop, Analog!Sources

\* What it says of the outputs.
LEMMA OutputsSafe == OutputInv => Analog!WindowKept /\ Analog!QuadSafe /\ Analog!LoopAsAsked
<1> SUFFICES ASSUME OutputInv PROVE Analog!WindowKept /\ Analog!QuadSafe
  BY DEF OutputInv
<1>1. Analog!WindowKept
  BY LimitPaths DEF OutputInv, Held, Analog!WindowKept, Analog!Dangerous, Analog!Seen
<1>2. Analog!QuadSafe
  <2> SUFFICES ASSUME quad PROVE Analog!QuadSafe
    BY DEF Analog!QuadSafe
  <2> DEFINE W == {c \in {"B", "C"} : a.level[c] = "wild"}
  <2>1. W = {} \/ W = {"B"} \/ W = {"C"}  BY DEF OutputInv, Wired, Levels
  <2>2. Analog!Cardinality(W) <= 1
    <3>1. \A S : Analog!Cardinality(S) = Cardinality(S)  BY DEF Cardinality, Analog!Cardinality
    <3> HIDE DEF W
    <3>2. ASSUME NEW c \in {"B", "C"}, W = {c} PROVE Analog!Cardinality(W) = 1
      BY <3>1, <3>2, FS_Singleton
    <3>3. ASSUME W = {} PROVE Analog!Cardinality(W) = 0
      BY <3>1, <3>3, FS_EmptySet
    <3> QED BY <2>1, <3>2, <3>3
  <2> QED BY <2>2 DEF OutputInv, Wired, Levels, Analog!QuadSafe
<1> QED BY <1>1, <1>2

\* The pins and the connections, as the module states them.
LEMMA PinConstants ==
    UpPins \subseteq LaSet /\ DownPins \subseteq LaSet /\ UpPins \cap DownPins = {} /\ NoPin \notin LaSet /\ NoConn \notin Conns
  BY Assumptions DEF Pins!ConstantsOK

\* A request names pins and either a level alone or a mode.
LEMMA GpioRequestIs ==
    \A r \in Pins!GpioRequests : r.las \subseteq LaSet /\ ("level" \notin DOMAIN r => r.fn \in Pins!Gpio \cup {"none"})
  BY DEF Pins!GpioRequests

\* la_pins_gpio_apply with la_pins_drive_mask: gpios and free pins stay among themselves.
LEMMA GpioKeeps == ASSUME PinsInv, NEW c \in Conns, Pins!GpioSet(c) PROVE PinsInv'
<1> USE DEF PinsInv
<1>1. PICK r \in Pins!GpioRequests :
        Pins!GpioApply(r) /\ latch' = [p \in LaSet |-> IF p \in r.las THEN Pins!Drive(s_pin'[p]) ELSE latch[p]]
  BY DEF Pins!GpioSet
<1>2. /\ s_pin' \in [LaSet -> Pins!Fns]
      /\ \A p \in LaSet : IF p \in r.las THEN /\ s_pin[p] \in Pins!Gpio \cup {"none"} /\ s_pin'[p] \in Pins!Gpio \cup {"none"}
                                              /\ Pins!IdlesHigh(s_pin'[p]) => Pins!IdlesHigh(s_pin[p]) \/ p \notin DownPins \cap pulls
                          ELSE s_pin'[p] = s_pin[p]
  <2>1. CASE "level" \in DOMAIN r
    BY <1>1, <2>1, GpioRequestIs DEF Pins!GpioApply, Pins!Levelled, Pins!IdlesHigh, Pins!Gpio, Pins!Fns, Pins!TypeOK
  <2>2. CASE "level" \notin DOMAIN r
    BY <1>1, <2>2, GpioRequestIs DEF Pins!GpioApply, Pins!CheckClaim, Pins!Claim, Pins!IdlesHigh, Pins!Gpio, Pins!Fns, Pins!TypeOK
  <2> QED BY <2>1, <2>2
<1>3. UNCHANGED <<fab, uart2_gw, swd_armed_local, spi_armed_local, sensor, sensor_rearm, gps, gps_rearm, s_step, uart_armed_local,
                  uart_proxy_conn, uart_pins, uart_rearm_conn, uart_plus_pending, uart_rx_pu_ch, uart_rx_pu_prev,
                  conn_proto, closing, pulls, s_la_vccio_mv, i2c_failed>>
  BY DEF Pins!GpioSet, Pins!fabVars, Pins!swdVars, Pins!simVars, Pins!uartVars, Pins!connVars, Pins!bankVars
<1>4. Pins!TypeOK'  BY <1>1, <1>2, <1>3 DEF Pins!TypeOK, Pins!Drive
<1>5. LatchFits'  BY <1>1, <1>2, <1>3, GpioRequestIs DEF LatchFits, Pins!TypeOK, Pins!Gpio
<1>6. UartFits'  BY <1>2, <1>3 DEF UartFits, Pins!Gpio
<1>7. ProbeFits'  BY <1>2, <1>3 DEF ProbeFits, Pins!Gpio
<1>8. SimsFit'  BY <1>2, <1>3 DEF SimsFit, Pins!Gpio, Pins!TypeOK
<1>9. PullHeld' /\ Pins!PullsFit'  BY <1>2, <1>3, PinConstants DEF PullHeld, Pins!PullsFit
<1> QED BY <1>4, <1>5, <1>6, <1>7, <1>8, <1>9

\* What a step of a train does to the table and the wires.
TrainStep ==
    /\ s_pin' \in [LaSet -> Pins!Fns] /\ latch' \in [LaSet -> 0 .. 2] /\ fab' \in [Pins!Engines -> SUBSET LaSet]
    /\ \A e \in Pins!Engines \ {"step"} : fab'[e] = fab[e]
    /\ \A q \in LaSet :
         \/ s_pin'[q] = s_pin[q] /\ latch'[q] = latch[q]
         \/ /\ s_pin[q] \in {"none", "out0", "out1", "step", "step_dir"}
            /\ s_pin'[q] \in {"none", "out0", "out1", "step", "step_dir"}
            /\ s_pin'[q] # "step_dir" => latch'[q] = Pins!Drive(s_pin'[q])

\* la_step_begin, the end of the train in the fabric and la_step_poll: pins of no session.
LEMMA TrainKeeps == ASSUME PinsInv, (\E c \in Conns : Pins!StepBegin(c)) \/ Pins!TrainEnds \/ Pins!StepPoll PROVE PinsInv'
<1>1. UNCHANGED <<uart2_gw, swd_armed_local, spi_armed_local, sensor, sensor_rearm, gps, gps_rearm, uart_armed_local, uart_proxy_conn,
                  uart_pins, uart_rearm_conn, uart_plus_pending, uart_rx_pu_ch, uart_rx_pu_prev, conn_proto, closing, pulls,
                  s_la_vccio_mv, i2c_failed>>
  BY DEF Pins!StepBegin, Pins!TrainEnds, Pins!StepPoll, Pins!swdVars, Pins!simVars, Pins!uartVars, Pins!connVars,
         Pins!bankVars, Pins!fabVars
<1>2. TrainStep
  <2>1. ASSUME NEW c \in Conns, Pins!StepBegin(c) PROVE TrainStep
    <3>1. PICK p \in LaSet, d \in LaSet \cup {NoPin}, v \in {0, 1} :
            /\ p # d /\ Pins!StepPin(p) /\ (d # NoPin => Pins!StepPin(d))
            /\ fab' = [fab EXCEPT !["step"] = {p}]
            /\ s_pin' = [q \in LaSet |->
                  CASE q = p /\ s_pin[p] = "none" -> "step"
                    [] q = d -> (CASE s_pin[d] = "none" -> "step_dir" [] v = 1 -> "out1" [] OTHER -> "out0")
                    [] OTHER -> s_pin[q]]
            /\ latch' = IF d = NoPin THEN latch ELSE [latch EXCEPT ![d] = v]
      BY <2>1 DEF Pins!StepBegin
    <3> USE DEF PinsInv, TrainStep, Pins!TypeOK, Pins!Fns, Pins!Gpio, Pins!Engines, LatchFits, Pins!Drive
    <3>2. fab' \in [Pins!Engines -> SUBSET LaSet] /\ \A e \in Pins!Engines \ {"step"} : fab'[e] = fab[e]
      BY <3>1
    <3>3. s_pin' \in [LaSet -> Pins!Fns] /\ latch' \in [LaSet -> 0 .. 2]
      BY <3>1, PinConstants DEF Pins!StepPin
    <3>4. ASSUME NEW q \in LaSet
          PROVE  \/ s_pin'[q] = s_pin[q] /\ latch'[q] = latch[q]
                 \/ /\ s_pin[q] \in {"none", "out0", "out1", "step", "step_dir"}
                    /\ s_pin'[q] \in {"none", "out0", "out1", "step", "step_dir"}
                    /\ s_pin'[q] # "step_dir" => latch'[q] = Pins!Drive(s_pin'[q])
      <4>1. CASE q = d
        BY <3>1, <4>1, PinConstants DEF Pins!StepPin
      <4>2. CASE q # d
        BY <3>1, <4>2, PinConstants DEF Pins!StepPin
      <4> QED BY <4>1, <4>2
    <3> QED BY <3>2, <3>3, <3>4
  <2> USE DEF PinsInv, TrainStep, Pins!TypeOK, Pins!Fns, Pins!Gpio, Pins!Engines, LatchFits, Pins!Drive
  <2>2. CASE Pins!TrainEnds
    BY <2>2 DEF Pins!TrainEnds, Pins!tableVars
  <2>3. CASE Pins!StepPoll
    BY <2>3 DEF Pins!StepPoll, Pins!Finished, Pins!fabVars
  <2> QED BY <2>1, <2>2, <2>3
<1> USE DEF PinsInv, TrainStep
<1>3. {"uart", "swd", "spi", "i2c", "gps"} \subseteq Pins!Engines \ {"step"}
  BY DEF Pins!Engines
<1>4. Pins!TypeOK' /\ LatchFits'  BY <1>1, <1>2 DEF Pins!TypeOK, LatchFits
<1>5. UartFits' /\ ProbeFits'  BY <1>1, <1>2, <1>3 DEF UartFits, ProbeFits
<1>6. SimsFit'  BY <1>1, <1>2, <1>3 DEF SimsFit, Pins!TypeOK
<1>7. PullHeld' /\ Pins!PullsFit'
  BY <1>1, <1>2, PinConstants DEF PullHeld, Pins!PullsFit, Pins!IdlesHigh
<1> QED BY <1>4, <1>5, <1>6, <1>7

\* handle_la with "pullup", and the bank's voltage: a session's pull is held only at 3.3 V.
LEMMA BankKeeps == ASSUME PinsInv, NEW c \in Conns, Pins!PullCmd(c) \/ Pins!VoltageCmd(c) PROVE PinsInv'
<1> USE DEF PinsInv
<1>1. UNCHANGED <<s_pin, latch, fab, uart2_gw, swd_armed_local, spi_armed_local, sensor, sensor_rearm, gps, gps_rearm,
                  uart_armed_local, uart_proxy_conn, uart_pins, uart_rearm_conn, uart_plus_pending, uart_rx_pu_ch,
                  uart_rx_pu_prev, conn_proto, closing>>
  BY DEF Pins!PullCmd, Pins!VoltageCmd, Pins!tableVars, Pins!swdVars, Pins!simVars, Pins!uartVars, Pins!connVars, Pins!fabVars
<1>2. LatchFits' /\ UartFits' /\ ProbeFits' /\ SimsFit'
  BY <1>1 DEF LatchFits, UartFits, ProbeFits, SimsFit
<1>3. CASE Pins!PullCmd(c)
  BY <1>1, <1>2, <1>3, PinConstants DEF Pins!PullCmd, Pins!SetPull, Pins!CheckPull, Pins!TypeOK, PullHeld, Pins!PullsFit
<1>4. CASE Pins!VoltageCmd(c)
  <2>1. PICK mv \in {"1v8", "3v3"} : Pins!MayChangeVoltage(mv) /\ Pins!SetMv(mv)
    BY <1>4 DEF Pins!VoltageCmd
  <2>2. uart_proxy_conn # NoConn => mv = s_la_vccio_mv
    BY <2>1 DEF Pins!MayChangeVoltage, UartFits
  <2>3. /\ s_la_vccio_mv' = mv /\ pulls' \subseteq pulls
        /\ mv = "1v8" => i2c_failed' = (i2c_failed \/ pulls' # {})
    BY <2>1 DEF Pins!SetMv, Pins!PullupsAllOff
  <2>4. mv # "1v8" => i2c_failed' = i2c_failed  BY <2>1 DEF Pins!SetMv
  <2> QED BY <1>1, <1>2, <2>2, <2>3, <2>4 DEF Pins!TypeOK, PullHeld, Pins!PullsFit
<1> QED BY <1>3, <1>4

\* The table after a session of one function ends.
LEMMA ReleaseIs ==
    ASSUME PinsInv, NEW free \in SUBSET Pins!Fns
    PROVE  LET t == Pins!ReleaseFn(s_pin, free) IN
           /\ t \in [LaSet -> Pins!Fns]
           /\ \A p \in LaSet : t[p] = IF s_pin[p] \in free THEN "none" ELSE s_pin[p]
  BY DEF PinsInv, Pins!TypeOK, Pins!ReleaseFn, Pins!Fns

\* The functions a pin can be given, and the engines.
LEMMA FnNames ==
    /\ \A fn \in {"uart", "swd_clk", "swd_dio", "spi", "i2c", "gps"} :
         /\ fn \in Pins!Fns \ (Pins!Gpio \cup {"none", "step", "step_dir"})
         /\ {fn} \in SUBSET Pins!Fns
    /\ {"uart", "swd", "spi", "i2c", "gps", "step"} = Pins!Engines
    /\ \A fn \in {"uart", "swd_clk", "swd_dio", "spi", "i2c", "gps", "none"} : Pins!Drive(fn) = 2
    /\ Pins!IdlesHigh("uart") /\ Pins!IdlesHigh("gps") /\ Pins!IdlesHigh("i2c") /\ Pins!IdlesHigh("swd_dio")
    /\ ~Pins!IdlesHigh("swd_clk") /\ ~Pins!IdlesHigh("spi") /\ ~Pins!IdlesHigh("none")
  BY DEF Pins!Fns, Pins!Gpio, Pins!Engines, Pins!Drive, Pins!IdlesHigh

\* The latch of a pin that is given a session's function, or that loses it, is the high-Z one.
LEMMA LatchKept ==
    ASSUME PinsInv, UNCHANGED latch, s_pin' \in [LaSet -> Pins!Fns],
           \A p \in LaSet : \/ s_pin'[p] = s_pin[p]
                            \/ {s_pin[p], s_pin'[p]} \subseteq {"uart", "swd_clk", "swd_dio", "spi", "i2c", "gps", "none"}
    PROVE  LatchFits'
  BY FnNames DEF PinsInv, LatchFits

\* handle_sensor_start: the pins of the sensor before are replaced, or the start fails and they stay claimed.
LEMMA SensorKeeps == ASSUME PinsInv, NEW c \in Conns, Pins!SensorStart(c) \/ Pins!SensorStop(c) PROVE PinsInv'
<1>1. UNCHANGED <<latch, uart2_gw, swd_armed_local, spi_armed_local, gps, gps_rearm, s_step, uart_armed_local, uart_proxy_conn,
                  uart_pins, uart_rearm_conn, uart_plus_pending, uart_rx_pu_ch, uart_rx_pu_prev, conn_proto, closing, pulls,
                  s_la_vccio_mv, i2c_failed>>
  BY DEF Pins!SensorStart, Pins!SensorStop, Pins!swdVars, Pins!uartVars, Pins!connVars, Pins!bankVars
<1>2. /\ s_pin' \in [LaSet -> Pins!Fns] /\ sensor' \subseteq LaSet
      /\ \A p \in LaSet : \/ s_pin'[p] = s_pin[p]
                          \/ {s_pin[p], s_pin'[p]} \subseteq {"i2c", "none"}
      /\ \A p \in sensor' : s_pin'[p] = "i2c"
      /\ \A p \in DownPins \cap pulls : s_pin'[p] = "i2c" => s_pin[p] = "i2c"
      /\ fab' = [fab EXCEPT !["i2c"] = sensor']
  <2>1. CASE Pins!SensorStart(c)
    <3>1. PICK sda \in LaSet, scl \in LaSet :
            /\ Pins!CheckClaim("i2c", {sda, scl}, {"i2c"}) /\ Pins!SensorSimStart(sda, scl)
            /\ s_pin' = IF Pins!SensorConfigOK(sda, scl)
                        THEN Pins!Claim(Pins!ReleaseFn(s_pin, {"i2c"}), "i2c", {sda, scl}) ELSE s_pin
      BY <2>1 DEF Pins!SensorStart
    <3>2. CASE Pins!SensorConfigOK(sda, scl)
      <4>1. sensor' = {sda, scl} /\ fab' = [fab EXCEPT !["i2c"] = sensor']
        BY <3>1, <3>2 DEF Pins!SensorSimStart
      <4>2. {sda, scl} \in SUBSET LaSet /\ "i2c" \in Pins!Fns /\ {"i2c"} \in SUBSET Pins!Fns
        BY FnNames
      <4>3. /\ s_pin' \in [LaSet -> Pins!Fns]
            /\ \A p \in LaSet : s_pin'[p] = IF p \in {sda, scl} THEN "i2c" ELSE IF s_pin[p] \in {"i2c"} THEN "none" ELSE s_pin[p]
            /\ \A p \in {sda, scl} : s_pin[p] \in {"i2c"} \cup {"none"}
            /\ {sda, scl} \cap DownPins \cap pulls = {}
        <5>1. Pins!CheckClaim("i2c", {sda, scl}, {"i2c"}) /\ s_pin' = Pins!Claim(Pins!ReleaseFn(s_pin, {"i2c"}), "i2c", {sda, scl})
          BY <3>1, <3>2
        <5>2. /\ s_pin' \in [LaSet -> Pins!Fns]
              /\ \A p \in LaSet : s_pin'[p] = IF p \in {sda, scl} THEN "i2c" ELSE IF s_pin[p] \in {"i2c"} THEN "none" ELSE s_pin[p]
          BY <5>1, <4>2, FnNames DEF PinsInv, Pins!TypeOK, Pins!Claim, Pins!ReleaseFn, Pins!Fns
        <5>3. \A p \in {sda, scl} : s_pin[p] \in {"i2c"} \cup {"none"}
          BY <5>1 DEF Pins!CheckClaim
        <5>4. {sda, scl} \cap DownPins \cap pulls = {}  BY <5>1, FnNames DEF Pins!CheckClaim
        <5> QED BY <5>2, <5>3, <5>4
      <4> QED BY <4>1, <4>3, PinConstants
    <3>3. CASE ~Pins!SensorConfigOK(sda, scl)
      <4>1. sensor' = {} /\ fab' = [fab EXCEPT !["i2c"] = sensor'] /\ s_pin' = s_pin
        BY <3>1, <3>3 DEF Pins!SensorSimStart
      <4> QED BY <4>1 DEF PinsInv, Pins!TypeOK
    <3> QED BY <3>2, <3>3
  <2>2. CASE Pins!SensorStop(c)
    <3>1. fab["i2c"] \subseteq sensor /\ fab \in [Pins!Engines -> SUBSET LaSet]
      BY DEF PinsInv, SimsFit, Pins!TypeOK
    <3>2. sensor' = {} /\ s_pin' = Pins!ReleaseFn(s_pin, {"i2c"}) /\ fab' = [fab EXCEPT !["i2c"] = {}]
      BY <2>2, <3>1 DEF Pins!SensorStop
    <3>3. /\ s_pin' \in [LaSet -> Pins!Fns]
          /\ \A p \in LaSet : s_pin'[p] = IF s_pin[p] = "i2c" THEN "none" ELSE s_pin[p]
      BY <3>2, ReleaseIs, FnNames
    <3> QED BY <3>2, <3>3, PinConstants
  <2> QED BY <2>1, <2>2
<1>3. fab' \in [Pins!Engines -> SUBSET LaSet] /\ fab'["i2c"] = sensor' /\ \A e \in Pins!Engines \ {"i2c"} : fab'[e] = fab[e]
  BY <1>2, FnNames DEF PinsInv, Pins!TypeOK
<1>4. Pins!TypeOK'  BY <1>1, <1>2, <1>3 DEF PinsInv, Pins!TypeOK
<1>5. LatchFits'  BY <1>1, <1>2, LatchKept
<1>6. UartFits' /\ ProbeFits'  BY <1>1, <1>2, <1>3, FnNames DEF PinsInv, UartFits, ProbeFits
<1>7. SimsFit'  BY <1>1, <1>2, <1>3, FnNames DEF PinsInv, SimsFit
<1>8. PullHeld' /\ Pins!PullsFit'
  BY <1>1, <1>2, PinConstants, FnNames DEF PinsInv, PullHeld, Pins!PullsFit
<1> QED BY <1>4, <1>5, <1>6, <1>7, <1>8 DEF PinsInv

\* handle_gps_start, handle_gps_stop.
LEMMA GpsKeeps == ASSUME PinsInv, NEW c \in Conns, Pins!GpsStart(c) \/ Pins!GpsStop(c) PROVE PinsInv'
<1>1. UNCHANGED <<latch, uart2_gw, swd_armed_local, spi_armed_local, sensor, sensor_rearm, s_step, uart_armed_local, uart_proxy_conn,
                  uart_pins, uart_rearm_conn, uart_plus_pending, uart_rx_pu_ch, uart_rx_pu_prev, conn_proto, closing, pulls,
                  s_la_vccio_mv, i2c_failed>>
  BY DEF Pins!GpsStart, Pins!GpsStop, Pins!swdVars, Pins!uartVars, Pins!connVars, Pins!bankVars
<1>2. /\ s_pin' \in [LaSet -> Pins!Fns] /\ gps' \in LaSet \cup {NoPin} /\ gps_rearm' = FALSE
      /\ \A p \in LaSet : \/ s_pin'[p] = s_pin[p]
                          \/ {s_pin[p], s_pin'[p]} \subseteq {"gps", "none"}
      /\ \A p \in LaSet : s_pin'[p] = "gps" <=> p = gps'
      /\ \A p \in DownPins \cap pulls : s_pin'[p] # "gps"
      /\ fab' = [fab EXCEPT !["gps"] = {gps'} \ {NoPin}]
  <2>1. CASE Pins!GpsStart(c)
    <3>1. PICK p \in LaSet :
            /\ Pins!CheckClaim("gps", {p}, {"gps"}) /\ Pins!GpsSimStart(p)
            /\ s_pin' = Pins!Claim(Pins!ReleaseFn(s_pin, {"gps"}), "gps", {p})
      BY <2>1 DEF Pins!GpsStart
    <3>2. gps' = p /\ gps_rearm' = FALSE /\ fab' = [fab EXCEPT !["gps"] = {gps'} \ {NoPin}]
      BY <3>1, PinConstants DEF Pins!GpsSimStart
    <3>3. /\ s_pin' \in [LaSet -> Pins!Fns] /\ {p} \cap DownPins \cap pulls = {} /\ s_pin[p] \in {"gps", "none"}
          /\ \A q \in LaSet : s_pin'[q] = IF q = p THEN "gps" ELSE IF s_pin[q] = "gps" THEN "none" ELSE s_pin[q]
      <4>1. {p} \in SUBSET LaSet /\ "gps" \in Pins!Fns /\ {"gps"} \in SUBSET Pins!Fns
        BY FnNames
      <4>2. /\ s_pin' \in [LaSet -> Pins!Fns]
            /\ \A q \in LaSet : s_pin'[q] = IF q \in {p} THEN "gps" ELSE IF s_pin[q] \in {"gps"} THEN "none" ELSE s_pin[q]
        BY <3>1, <4>1, FnNames DEF PinsInv, Pins!TypeOK, Pins!Claim, Pins!ReleaseFn, Pins!Fns
      <4>3. {p} \cap DownPins \cap pulls = {}  BY <3>1, FnNames DEF Pins!CheckClaim
      <4>4. s_pin[p] \in {"gps", "none"}  BY <3>1 DEF Pins!CheckClaim
      <4> QED BY <4>2, <4>3, <4>4
    <3> QED BY <3>2, <3>3, FnNames, PinConstants
  <2>2. CASE Pins!GpsStop(c)
    <3>1. gps' = NoPin /\ gps_rearm' = FALSE /\ s_pin' = Pins!ReleaseFn(s_pin, {"gps"}) /\ fab' = [fab EXCEPT !["gps"] = {}]
      BY <2>2 DEF Pins!GpsStop
    <3>2. /\ s_pin' \in [LaSet -> Pins!Fns]
          /\ \A p \in LaSet : s_pin'[p] = IF s_pin[p] = "gps" THEN "none" ELSE s_pin[p]
      BY <3>1, ReleaseIs, FnNames
    <3> QED BY <3>1, <3>2, PinConstants
  <2> QED BY <2>1, <2>2
<1>3. /\ fab' \in [Pins!Engines -> SUBSET LaSet] /\ fab'["gps"] = {gps'} \ {NoPin}
      /\ \A e \in Pins!Engines \ {"gps"} : fab'[e] = fab[e]
  BY <1>2, FnNames DEF PinsInv, Pins!TypeOK
<1>4. Pins!TypeOK'  BY <1>1, <1>2, <1>3 DEF PinsInv, Pins!TypeOK
<1>5. LatchFits'  BY <1>1, <1>2, LatchKept
<1>6. UartFits' /\ ProbeFits'  BY <1>1, <1>2, <1>3, FnNames DEF PinsInv, UartFits, ProbeFits
<1>7. SimsFit'  BY <1>1, <1>2, <1>3, FnNames DEF PinsInv, Pins!TypeOK, SimsFit
<1>8. PullHeld' /\ Pins!PullsFit'
  BY <1>1, <1>2, PinConstants, FnNames DEF PinsInv, PullHeld, Pins!PullsFit
<1> QED BY <1>4, <1>5, <1>6, <1>7, <1>8 DEF PinsInv

\* sensor_poll and gps_poll after a reload.
LEMMA RearmKeeps == ASSUME PinsInv, Pins!RearmPoll PROVE PinsInv'
<1>1. UNCHANGED <<latch, uart2_gw, swd_armed_local, spi_armed_local, sensor, s_step, uart_armed_local, uart_proxy_conn,
                  uart_pins, uart_rearm_conn, uart_plus_pending, uart_rx_pu_ch, uart_rx_pu_prev, conn_proto, closing, pulls,
                  s_la_vccio_mv, i2c_failed>>
  BY DEF Pins!RearmPoll, Pins!swdVars, Pins!uartVars, Pins!connVars, Pins!bankVars
<1> DEFINE lost == gps_rearm /\ ~uart2_gw
<1>2. /\ gps_rearm' = FALSE /\ gps' = (IF lost THEN NoPin ELSE gps)
      /\ s_pin' = IF lost THEN Pins!ReleaseFn(s_pin, {"gps"}) ELSE s_pin
      /\ fab' = [fab EXCEPT !["i2c"] = IF sensor_rearm THEN sensor ELSE @,
                            !["gps"] = IF gps_rearm /\ ~lost THEN {gps} ELSE @]
  BY DEF Pins!RearmPoll
<1>3. /\ s_pin' \in [LaSet -> Pins!Fns]
      /\ \A p \in LaSet : s_pin'[p] = IF lost /\ s_pin[p] = "gps" THEN "none" ELSE s_pin[p]
  <2>1. CASE lost
    BY <1>2, <2>1, ReleaseIs, FnNames
  <2>2. CASE ~lost
    BY <1>2, <2>2 DEF PinsInv, Pins!TypeOK
  <2> QED BY <2>1, <2>2
<1>4. /\ fab' \in [Pins!Engines -> SUBSET LaSet] /\ fab'["i2c"] \in {sensor, fab["i2c"]}
      /\ fab'["gps"] = IF gps_rearm /\ ~lost THEN {gps} ELSE fab["gps"]
      /\ \A e \in Pins!Engines \ {"i2c", "gps"} : fab'[e] = fab[e]
  BY <1>2, FnNames DEF PinsInv, Pins!TypeOK, SimsFit
<1> HIDE DEF lost
<1>5. Pins!TypeOK'  BY <1>1, <1>2, <1>3, <1>4 DEF PinsInv, Pins!TypeOK
<1>6. LatchFits'  BY <1>1, <1>3, LatchKept
<1>7. UartFits' /\ ProbeFits'  BY <1>1, <1>3, <1>4, FnNames DEF PinsInv, UartFits, ProbeFits
<1>8. SimsFit'
  BY <1>1, <1>2, <1>3, <1>4, FnNames, PinConstants DEF PinsInv, Pins!TypeOK, SimsFit, lost
<1>9. PullHeld' /\ Pins!PullsFit'
  BY <1>1, <1>3, PinConstants, FnNames DEF PinsInv, PullHeld, Pins!PullsFit
<1> QED BY <1>5, <1>6, <1>7, <1>8, <1>9 DEF PinsInv

\* uart_proxy_end: the engine, the claims, the pull and the session go together.
LEMMA UartEndKeeps ==
    ASSUME PinsInv, Pins!UartEnd, closing' \subseteq Conns, conn_proto' \in [Conns -> {"json", "uart", "dap"}],
           UNCHANGED <<latch, uart2_gw, swd_armed_local, spi_armed_local, sensor, sensor_rearm, gps, gps_rearm, uart_pins,
                       uart_rx_pu_prev, s_la_vccio_mv, i2c_failed>>
    PROVE  PinsInv'
<1>1. /\ s_pin' \in [LaSet -> Pins!Fns] /\ \A p \in LaSet : s_pin'[p] = IF s_pin[p] = "uart" THEN "none" ELSE s_pin[p]
      /\ fab' \in [Pins!Engines -> SUBSET LaSet] /\ fab'["uart"] = {} /\ \A e \in Pins!Engines \ {"uart"} : fab'[e] = fab[e]
      /\ uart_armed_local' = FALSE /\ uart_rx_pu_ch' = NoPin /\ uart_proxy_conn' = NoConn
  BY ReleaseIs, FnNames DEF PinsInv, Pins!TypeOK, Pins!UartEnd
<1>2. /\ pulls' \subseteq UpPins \cup DownPins /\ DownPins \cap pulls' \subseteq pulls
      /\ s_la_vccio_mv = "1v8" => pulls' = pulls
  BY PinConstants DEF PinsInv, Pins!TypeOK, Pins!UartEnd, Pins!SetPull, PullHeld
<1>3. Pins!TypeOK'  BY <1>1, <1>2 DEF PinsInv, Pins!TypeOK
<1>4. LatchFits'  BY <1>1, LatchKept
<1>5. UartFits'  BY <1>1 DEF UartFits
<1>6. ProbeFits' /\ SimsFit'  BY <1>1, FnNames DEF PinsInv, ProbeFits, SimsFit, Pins!TypeOK
<1>7. PullHeld' /\ Pins!PullsFit'
  BY <1>1, <1>2, PinConstants, FnNames DEF PinsInv, PullHeld, Pins!PullsFit
<1> QED BY <1>3, <1>4, <1>5, <1>6, <1>7 DEF PinsInv

\* handle_uart_proxy_start.
LEMMA UartStartKeeps == ASSUME PinsInv, NEW c \in Conns, Pins!UartStart(c) PROVE PinsInv'
<1>1. UNCHANGED <<latch, uart2_gw, swd_armed_local, spi_armed_local, sensor, sensor_rearm, gps, gps_rearm, s_step, uart_rearm_conn,
                  closing, s_la_vccio_mv, i2c_failed>>
  BY DEF Pins!UartStart, Pins!swdVars, Pins!simVars
<1>2. PICK rx \in LaSet, tx \in LaSet :
        /\ Pins!CheckClaim("uart", {rx, tx}, {}) /\ Pins!UartConfig(rx, tx)
        /\ LET pulled == rx \in UpPins /\ s_la_vccio_mv = "3v3"
           IN  /\ uart_rx_pu_ch' = IF pulled THEN rx ELSE NoPin
               /\ uart_rx_pu_prev' = (pulled /\ rx \in pulls)
               /\ pulls' = IF pulled THEN pulls \cup {rx} ELSE pulls
        /\ s_pin' = Pins!Claim(s_pin, "uart", {rx, tx})
        /\ uart_proxy_conn' = c /\ uart_pins' = {rx, tx}
  BY DEF Pins!UartStart
<1>3. conn_proto' \in [Conns -> {"json", "uart", "dap"}]
  BY DEF PinsInv, Pins!TypeOK, Pins!UartStart
<1>4. /\ s_pin' \in [LaSet -> Pins!Fns]
      /\ \A p \in LaSet : s_pin'[p] = IF p \in uart_pins' THEN "uart" ELSE s_pin[p]
      /\ \A p \in uart_pins' : s_pin[p] = "none"
      /\ uart_pins' \cap DownPins \cap pulls = {}
  BY <1>2, FnNames DEF PinsInv, Pins!TypeOK, Pins!Claim, Pins!CheckClaim
<1>5. ~uart_armed_local /\ uart_armed_local' = TRUE /\ fab' = [fab EXCEPT !["uart"] = uart_pins']
  BY <1>2 DEF Pins!UartConfig
<1>6. /\ fab' \in [Pins!Engines -> SUBSET LaSet] /\ fab'["uart"] = uart_pins' /\ uart_pins' # {} /\ uart_pins' \subseteq LaSet
      /\ \A e \in Pins!Engines \ {"uart"} : fab'[e] = fab[e]
  BY <1>2, <1>5, FnNames DEF PinsInv, Pins!TypeOK
<1>7. /\ uart_rx_pu_ch' \in UpPins \cup {NoPin} /\ uart_rx_pu_prev' \in BOOLEAN
      /\ uart_rx_pu_ch' # NoPin => s_la_vccio_mv = "3v3"
      /\ pulls' \subseteq UpPins \cup DownPins /\ DownPins \cap pulls' \subseteq pulls
      /\ s_la_vccio_mv = "1v8" => pulls' = pulls
  BY <1>2, PinConstants DEF PinsInv, Pins!TypeOK
<1>8. ~ (\E p \in LaSet : s_pin[p] = "uart") /\ uart_proxy_conn' \in Conns /\ uart_proxy_conn' # NoConn
  BY <1>2, <1>5, PinConstants DEF PinsInv, UartFits
<1> HIDE <1>2
<1>9. Pins!TypeOK'  BY <1>1, <1>3, <1>4, <1>6, <1>7, <1>8 DEF PinsInv, Pins!TypeOK
<1>10. LatchFits'  BY <1>1, <1>4, LatchKept
<1>11. UartFits'  BY <1>4, <1>5, <1>6, <1>8 DEF UartFits
<1>12. ProbeFits' /\ SimsFit'
  BY <1>1, <1>4, <1>6, FnNames DEF PinsInv, ProbeFits, SimsFit, Pins!TypeOK
<1>13. PullHeld' /\ Pins!PullsFit'
  BY <1>1, <1>4, <1>7, <1>8, PinConstants, FnNames DEF PinsInv, PullHeld, Pins!PullsFit
<1> QED BY <1>9, <1>10, <1>11, <1>12, <1>13 DEF PinsInv

\* The session's bytes, its end and its new arm after a reload.
LEMMA UartKeeps ==
    ASSUME PinsInv, (\E c \in Conns : Pins!UartReceive(c)) \/ Pins!UartPoll \/ Pins!UartRearm
    PROVE  PinsInv'
<1> USE DEF Pins!tableVars, Pins!fabVars, Pins!swdVars, Pins!simVars, Pins!connVars, Pins!bankVars
<1>1. CASE \E c \in Conns : Pins!UartReceive(c)
  BY <1>1 DEF Pins!UartReceive, PinsInv, Pins!TypeOK, LatchFits, UartFits, ProbeFits, SimsFit, PullHeld, Pins!PullsFit
<1>2. CASE Pins!UartPoll
  <2>1. closing' \subseteq Conns /\ conn_proto' \in [Conns -> {"json", "uart", "dap"}]
    BY <1>2 DEF Pins!UartPoll, PinsInv, Pins!TypeOK
  <2> QED BY <1>2, <2>1, UartEndKeeps DEF Pins!UartPoll
<1>3. CASE Pins!UartRearm
  <2>1. CASE Pins!UartEnd /\ closing' = closing \cup {uart_rearm_conn} /\ uart_proxy_conn = uart_rearm_conn
    <3>1. closing' \subseteq Conns /\ conn_proto' \in [Conns -> {"json", "uart", "dap"}]
      BY <1>3, <2>1 DEF Pins!UartRearm, PinsInv, Pins!TypeOK
    <3> QED BY <1>3, <2>1, <3>1, UartEndKeeps DEF Pins!UartRearm
  <2>2. CASE uart_proxy_conn # uart_rearm_conn /\ UNCHANGED <<s_pin, fab, uart_armed_local, uart_proxy_conn, uart_rx_pu_ch, pulls, closing>>
    BY <1>3, <2>2 DEF Pins!UartRearm, PinsInv, Pins!TypeOK, LatchFits, UartFits, ProbeFits, SimsFit, PullHeld, Pins!PullsFit
  <2>3. CASE /\ uart_proxy_conn = uart_rearm_conn /\ uart_armed_local' = TRUE /\ fab' = [fab EXCEPT !["uart"] = uart_pins]
             /\ UNCHANGED <<s_pin, uart_proxy_conn, uart_rx_pu_ch, pulls, closing>>
    <3>1. uart_proxy_conn # NoConn /\ uart_pins \subseteq LaSet
      BY <1>3, <2>3 DEF Pins!UartRearm, PinsInv, UartFits
    <3>2. /\ fab' \in [Pins!Engines -> SUBSET LaSet] /\ fab'["uart"] = uart_pins
          /\ \A e \in Pins!Engines \ {"uart"} : fab'[e] = fab[e]
      BY <2>3, <3>1, FnNames DEF PinsInv, Pins!TypeOK
    <3>3. UNCHANGED <<latch, uart2_gw, swd_armed_local, spi_armed_local, sensor, sensor_rearm, gps, gps_rearm, s_step, uart_pins,
                      uart_rx_pu_prev, conn_proto, s_la_vccio_mv, i2c_failed>>
      BY <1>3 DEF Pins!UartRearm
    <3>4. Pins!TypeOK' /\ LatchFits' /\ PullHeld' /\ Pins!PullsFit'
      BY <2>3, <3>2, <3>3 DEF PinsInv, Pins!TypeOK, LatchFits, PullHeld, Pins!PullsFit
    <3>5. UartFits'  BY <2>3, <3>1, <3>2, <3>3 DEF PinsInv, UartFits
    <3>6. ProbeFits' /\ SimsFit'  BY <2>3, <3>2, <3>3, FnNames DEF PinsInv, ProbeFits, SimsFit
    <3> QED BY <3>4, <3>5, <3>6 DEF PinsInv
  <2> QED BY <1>3, <2>1, <2>2, <2>3 DEF Pins!UartRearm
<1> QED BY <1>1, <1>2, <1>3

\* swd_disarm_and_release: the engine and both pins.
LEMMA SwdEndKeeps ==
    ASSUME PinsInv, Pins!SwdEnd, closing' \subseteq Conns, conn_proto' \in [Conns -> {"json", "uart", "dap"}],
           UNCHANGED <<latch, uart2_gw, spi_armed_local, sensor, sensor_rearm, gps, gps_rearm, uart_armed_local, uart_proxy_conn,
                       uart_pins, uart_rearm_conn, uart_rx_pu_ch, uart_rx_pu_prev, pulls, s_la_vccio_mv, i2c_failed>>
    PROVE  PinsInv'
<1>1. fab["swd"] # {} => swd_armed_local  BY DEF PinsInv, ProbeFits
<1>2. /\ s_pin' \in [LaSet -> Pins!Fns]
      /\ \A p \in LaSet : s_pin'[p] = IF s_pin[p] \in {"swd_clk", "swd_dio"} THEN "none" ELSE s_pin[p]
  BY ReleaseIs, FnNames DEF Pins!SwdEnd
<1>3. /\ fab' \in [Pins!Engines -> SUBSET LaSet] /\ fab'["swd"] = {} /\ \A e \in Pins!Engines \ {"swd"} : fab'[e] = fab[e]
  BY <1>1, FnNames DEF PinsInv, Pins!TypeOK, Pins!SwdEnd
<1>4. Pins!TypeOK'  BY <1>2, <1>3 DEF PinsInv, Pins!TypeOK
<1>5. LatchFits'  BY <1>2, LatchKept
<1>6. UartFits' /\ ProbeFits' /\ SimsFit'
  BY <1>2, <1>3, FnNames DEF PinsInv, UartFits, ProbeFits, SimsFit, Pins!TypeOK
<1>7. PullHeld' /\ Pins!PullsFit'
  BY <1>2, PinConstants, FnNames DEF PinsInv, PullHeld, Pins!PullsFit
<1> QED BY <1>4, <1>5, <1>6, <1>7 DEF PinsInv

\* handle_dap_start, handle_spi_start: one engine for both, on free pins.
LEMMA ProbeStartKeeps == ASSUME PinsInv, NEW c \in Conns, Pins!DapStart(c) \/ Pins!SpiStart(c) PROVE PinsInv'
<1> USE DEF Pins!simVars, Pins!uartVars, Pins!connVars, Pins!bankVars
<1>0. ~swd_armed_local /\ ~spi_armed_local /\ fab["swd"] = {} /\ fab["spi"] = {}
  BY DEF Pins!DapStart, Pins!SpiStart, Pins!EngineFree, PinsInv, ProbeFits
<1>1. CASE Pins!DapStart(c)
  <2>1. PICK clk \in LaSet, dio \in LaSet :
          /\ clk # dio /\ Pins!CheckClaim("swd_clk", {clk}, {}) /\ Pins!CheckClaim("swd_dio", {dio}, {})
          /\ fab' = [fab EXCEPT !["swd"] = {clk, dio}]
          /\ s_pin' = Pins!Claim(Pins!Claim(s_pin, "swd_clk", {clk}), "swd_dio", {dio})
    BY <1>1 DEF Pins!DapStart
  <2>2. /\ s_pin' \in [LaSet -> Pins!Fns] /\ s_pin[clk] = "none" /\ s_pin[dio] = "none" /\ dio \notin DownPins \cap pulls
        /\ \A p \in LaSet : s_pin'[p] = IF p = dio THEN "swd_dio" ELSE IF p = clk THEN "swd_clk" ELSE s_pin[p]
    BY <2>1, FnNames DEF PinsInv, Pins!TypeOK, Pins!Claim, Pins!CheckClaim
  <2>3. /\ fab' \in [Pins!Engines -> SUBSET LaSet] /\ fab'["swd"] = {clk, dio}
        /\ \A e \in Pins!Engines \ {"swd"} : fab'[e] = fab[e]
    BY <2>1, FnNames DEF PinsInv, Pins!TypeOK
  <2> HIDE <2>1
  <2>4. /\ conn_proto' \in [Conns -> {"json", "uart", "dap"}] /\ swd_armed_local' = TRUE
        /\ UNCHANGED <<latch, uart2_gw, spi_armed_local, sensor, sensor_rearm, gps, gps_rearm, uart_armed_local, uart_proxy_conn,
                       uart_pins, uart_rearm_conn, uart_rx_pu_ch, uart_rx_pu_prev, closing, pulls, s_la_vccio_mv, i2c_failed>>
    BY <1>1 DEF Pins!DapStart, PinsInv, Pins!TypeOK
  <2>5. Pins!TypeOK'  BY <2>2, <2>3, <2>4 DEF PinsInv, Pins!TypeOK
  <2>6. LatchFits'  BY <2>2, <2>4, LatchKept
  <2>7. UartFits' /\ SimsFit'
    BY <2>2, <2>3, <2>4, FnNames DEF PinsInv, UartFits, SimsFit, Pins!TypeOK
  <2>8. ProbeFits'  BY <1>0, <2>2, <2>3, <2>4, FnNames DEF PinsInv, ProbeFits
  <2>9. PullHeld' /\ Pins!PullsFit'
    BY <2>2, <2>4, PinConstants, FnNames DEF PinsInv, PullHeld, Pins!PullsFit
  <2> QED BY <2>5, <2>6, <2>7, <2>8, <2>9 DEF PinsInv
<1>2. CASE Pins!SpiStart(c)
  <2>1. PICK ps \in SUBSET LaSet :
          /\ Pins!CheckClaim("spi", ps, {}) /\ fab' = [fab EXCEPT !["spi"] = ps] /\ s_pin' = Pins!Claim(s_pin, "spi", ps)
    BY <1>2 DEF Pins!SpiStart
  <2>2. /\ s_pin' \in [LaSet -> Pins!Fns] /\ \A p \in ps : s_pin[p] = "none"
        /\ \A p \in LaSet : s_pin'[p] = IF p \in ps THEN "spi" ELSE s_pin[p]
    BY <2>1, FnNames DEF PinsInv, Pins!TypeOK, Pins!Claim, Pins!CheckClaim
  <2>3. /\ fab' \in [Pins!Engines -> SUBSET LaSet] /\ fab'["spi"] = ps /\ \A e \in Pins!Engines \ {"spi"} : fab'[e] = fab[e]
    BY <2>1, FnNames DEF PinsInv, Pins!TypeOK
  <2> HIDE <2>1
  <2>4. /\ spi_armed_local' = TRUE
        /\ UNCHANGED <<latch, uart2_gw, swd_armed_local, sensor, sensor_rearm, gps, gps_rearm, uart_armed_local, uart_proxy_conn,
                       uart_pins, uart_rearm_conn, uart_rx_pu_ch, uart_rx_pu_prev, conn_proto, closing, pulls, s_la_vccio_mv,
                       i2c_failed>>
    BY <1>2 DEF Pins!SpiStart
  <2>5. Pins!TypeOK'  BY <2>2, <2>3, <2>4 DEF PinsInv, Pins!TypeOK
  <2>6. LatchFits'  BY <2>2, <2>4, LatchKept
  <2>7. UartFits' /\ SimsFit'
    BY <2>2, <2>3, <2>4, FnNames DEF PinsInv, UartFits, SimsFit, Pins!TypeOK
  <2>8. ProbeFits'  BY <1>0, <2>2, <2>3, <2>4, FnNames DEF PinsInv, ProbeFits
  <2>9. PullHeld' /\ Pins!PullsFit'
    BY <2>2, <2>4, PinConstants, FnNames DEF PinsInv, PullHeld, Pins!PullsFit
  <2> QED BY <2>5, <2>6, <2>7, <2>8, <2>9 DEF PinsInv
<1> QED BY <1>1, <1>2

\* A frame of the probe, its idle end, and handle_spi_stop.
LEMMA ProbeKeeps ==
    ASSUME PinsInv, (\E c \in Conns : Pins!DapFrame(c) \/ Pins!SpiStop(c)) \/ Pins!DapIdle
    PROVE  PinsInv'
<1> USE DEF Pins!simVars, Pins!uartVars, Pins!connVars, Pins!bankVars
<1>1. ASSUME NEW c \in Conns, Pins!DapFrame(c) PROVE PinsInv'
  <2>1. closing' \subseteq Conns /\ conn_proto' \in [Conns -> {"json", "uart", "dap"}]
    BY <1>1 DEF Pins!DapFrame, PinsInv, Pins!TypeOK
  <2>2. CASE Pins!SwdEnd
    BY <1>1, <2>1, <2>2, SwdEndKeeps DEF Pins!DapFrame
  <2>3. CASE UNCHANGED <<s_pin, fab, swd_armed_local, conn_proto>>
    BY <1>1, <2>1, <2>3 DEF Pins!DapFrame, PinsInv, Pins!TypeOK, LatchFits, UartFits, ProbeFits, SimsFit, PullHeld, Pins!PullsFit
  <2> QED BY <1>1, <2>2, <2>3 DEF Pins!DapFrame
<1>2. CASE Pins!DapIdle
  <2>1. closing' \subseteq Conns /\ conn_proto' \in [Conns -> {"json", "uart", "dap"}]
    BY <1>2 DEF Pins!DapIdle, PinsInv, Pins!TypeOK
  <2> QED BY <1>2, <2>1, SwdEndKeeps DEF Pins!DapIdle
<1>3. ASSUME NEW c \in Conns, Pins!SpiStop(c) PROVE PinsInv'
  <2>1. s_pin' = Pins!ReleaseFn(s_pin, {"spi"}) /\ fab' = [fab EXCEPT !["spi"] = {}]
    BY <1>3 DEF Pins!SpiStop
  <2>2. s_pin' \in [LaSet -> Pins!Fns] /\ \A p \in LaSet : s_pin'[p] = IF s_pin[p] = "spi" THEN "none" ELSE s_pin[p]
    BY <2>1, ReleaseIs, FnNames
  <2>3. /\ fab' \in [Pins!Engines -> SUBSET LaSet] /\ fab'["spi"] = {} /\ \A e \in Pins!Engines \ {"spi"} : fab'[e] = fab[e]
    BY <2>1, FnNames DEF PinsInv, Pins!TypeOK
  <2>4. UNCHANGED <<latch, uart2_gw, swd_armed_local, sensor, sensor_rearm, gps, gps_rearm, uart_armed_local, uart_proxy_conn,
                    uart_pins, uart_rearm_conn, uart_rx_pu_ch, uart_rx_pu_prev, conn_proto, closing, pulls, s_la_vccio_mv,
                    i2c_failed>>
    BY <1>3 DEF Pins!SpiStop
  <2>5. Pins!TypeOK'  BY <2>2, <2>3, <2>4 DEF PinsInv, Pins!TypeOK
  <2>6. LatchFits'  BY <2>2, <2>4, LatchKept
  <2>7. UartFits' /\ ProbeFits' /\ SimsFit'
    BY <2>2, <2>3, <2>4, FnNames DEF PinsInv, UartFits, ProbeFits, SimsFit, Pins!TypeOK
  <2>8. PullHeld' /\ Pins!PullsFit'
    BY <2>2, <2>4, PinConstants, FnNames DEF PinsInv, PullHeld, Pins!PullsFit
  <2> QED BY <2>5, <2>6, <2>7, <2>8 DEF PinsInv
<1> QED BY <1>1, <1>2, <1>3

\* command_handler_on_gateware_reconfigured: what does not survive is released, the rest waits for the next poll.
LEMMA ReloadKeeps == ASSUME PinsInv, Pins!Reconfigured PROVE PinsInv'
<1>1. /\ UNCHANGED <<sensor, gps, uart_armed_local, uart_proxy_conn, uart_pins, uart_rx_pu_ch, uart_rx_pu_prev, conn_proto,
                     closing, pulls, s_la_vccio_mv, i2c_failed>>
      /\ gps_rearm' = (gps # NoPin) /\ uart_rearm_conn' = uart_proxy_conn
  BY DEF Pins!Reconfigured, Pins!connVars, Pins!bankVars
<1>2. /\ s_pin' \in [LaSet -> Pins!Fns]
      /\ \A p \in LaSet : s_pin'[p] = IF s_pin[p] \in {"swd_clk", "swd_dio", "spi", "step", "step_dir"} THEN "none" ELSE s_pin[p]
  <2>1. {"swd_clk", "swd_dio", "spi", "step", "step_dir"} \in SUBSET Pins!Fns  BY DEF Pins!Fns
  <2> QED BY <2>1, ReleaseIs DEF Pins!Reconfigured, Pins!ReleasedByReload
<1>3. fab' \in [Pins!Engines -> SUBSET LaSet] /\ \A e \in {"uart", "swd", "spi", "i2c", "gps"} : fab'[e] = {}
  BY FnNames DEF Pins!Reconfigured
<1>4. /\ latch' \in [LaSet -> 0 .. 2]
      /\ \A p \in LaSet : latch'[p] = IF s_pin[p] \in Pins!Gpio THEN Pins!Drive(s_pin[p]) ELSE 2
  BY DEF Pins!Reconfigured, Pins!Drive
<1>5. Pins!TypeOK'  BY <1>1, <1>2, <1>3, <1>4 DEF PinsInv, Pins!TypeOK
<1>6. LatchFits'
  BY <1>2, <1>4 DEF PinsInv, Pins!TypeOK, LatchFits, Pins!Fns, Pins!Gpio, Pins!Drive
<1>7. UartFits'  BY <1>1, <1>2, <1>3 DEF PinsInv, UartFits
<1>8. ProbeFits' /\ SimsFit'
  <2>1. ProbeFits'  BY <1>2, <1>3 DEF ProbeFits
  <2>2. \A p \in sensor' : s_pin'[p] = "i2c"  BY <1>1, <1>2 DEF PinsInv, Pins!TypeOK, SimsFit
  <2>3. \A p \in LaSet : s_pin'[p] = "gps" <=> p = gps'  BY <1>1, <1>2 DEF PinsInv, SimsFit
  <2> QED BY <1>1, <1>3, <2>1, <2>2, <2>3 DEF SimsFit
<1>9. PullHeld' /\ Pins!PullsFit'
  BY <1>1, <1>2, PinConstants, FnNames DEF PinsInv, PullHeld, Pins!PullsFit
<1> QED BY <1>5, <1>6, <1>7, <1>8, <1>9 DEF PinsInv

\* A connection closes, and its teardown ends its session.
LEMMA CloseKeeps == ASSUME PinsInv, NEW c \in Conns, Pins!Closes(c) \/ Pins!ConnClosed(c) PROVE PinsInv'
<1> USE DEF Pins!tableVars, Pins!fabVars, Pins!swdVars, Pins!simVars, Pins!uartVars, Pins!bankVars
<1>1. CASE Pins!Closes(c)
  BY <1>1 DEF Pins!Closes, PinsInv, Pins!TypeOK, LatchFits, UartFits, ProbeFits, SimsFit, PullHeld, Pins!PullsFit
<1>2. CASE Pins!ConnClosed(c)
  <2>1. closing' \subseteq Conns /\ conn_proto' \in [Conns -> {"json", "uart", "dap"}]
    BY <1>2 DEF Pins!ConnClosed, PinsInv, Pins!TypeOK
  <2>2. CASE Pins!UartEnd /\ UNCHANGED swd_armed_local
    BY <1>2, <2>1, <2>2, UartEndKeeps DEF Pins!ConnClosed
  <2>3. CASE Pins!SwdEnd /\ UNCHANGED <<uart_armed_local, uart_proxy_conn, uart_plus_pending, uart_rx_pu_ch, pulls>>
    BY <1>2, <2>1, <2>3, SwdEndKeeps DEF Pins!ConnClosed
  <2>4. CASE UNCHANGED <<s_pin, fab, swd_armed_local, uart_armed_local, uart_proxy_conn, uart_plus_pending, uart_rx_pu_ch, pulls>>
    BY <1>2, <2>1, <2>4 DEF Pins!ConnClosed, PinsInv, Pins!TypeOK, LatchFits, UartFits, ProbeFits, SimsFit, PullHeld, Pins!PullsFit
  <2> QED BY <1>2, <2>2, <2>3, <2>4 DEF Pins!ConnClosed
<1> QED BY <1>1, <1>2

\* Every step of the pins keeps the invariant.
LEMMA PinsInvStep == PinsInv /\ [Pins!Next]_pinsVars => PinsInv'
<1> SUFFICES ASSUME PinsInv, [Pins!Next]_pinsVars PROVE PinsInv'
  OBVIOUS
<1>1. CASE UNCHANGED pinsVars
  BY <1>1 DEF pinsVars, PinsInv, Pins!TypeOK, LatchFits, UartFits, ProbeFits, SimsFit, PullHeld, Pins!PullsFit
<1>2. ASSUME NEW c \in Conns,
             Pins!GpioSet(c) \/ Pins!LaCommand(c) \/ Pins!VoltageCmd(c) \/ Pins!SensorStart(c) \/ Pins!SensorStop(c)
             \/ Pins!GpsStart(c) \/ Pins!GpsStop(c) \/ Pins!UartStart(c) \/ Pins!UartReceive(c) \/ Pins!DapStart(c)
             \/ Pins!DapFrame(c) \/ Pins!SpiStart(c) \/ Pins!SpiStop(c) \/ Pins!Closes(c) \/ Pins!ConnClosed(c)
      PROVE  PinsInv'
  BY <1>2, GpioKeeps, TrainKeeps, BankKeeps, SensorKeeps, GpsKeeps, UartStartKeeps, UartKeeps, ProbeStartKeeps, ProbeKeeps,
     CloseKeeps DEF Pins!LaCommand
<1>3. CASE Pins!TrainEnds \/ Pins!StepPoll \/ Pins!RearmPoll \/ Pins!UartPoll \/ Pins!UartRearm \/ Pins!DapIdle \/ Pins!Reconfigured
  BY <1>3, TrainKeeps, RearmKeeps, UartKeeps, ProbeKeeps, ReloadKeeps
<1> QED BY <1>1, <1>2, <1>3 DEF Pins!Next

\* Power-up: every pin is free.
LEMMA PinsInitially == Pins!Init => PinsInv
<1> SUFFICES ASSUME Pins!Init PROVE PinsInv
  OBVIOUS
<1> USE DEF Pins!Init
<1>1. \A e \in {"uart", "swd", "spi", "i2c", "gps"} : fab[e] = {}  BY FnNames
<1>2. \A p \in LaSet : s_pin[p] = "none" /\ latch[p] = 2  OBVIOUS
<1>3. Pins!TypeOK  BY DEF Pins!TypeOK, Pins!Fns
<1>4. LatchFits /\ UartFits  BY <1>1, <1>2, FnNames DEF LatchFits, UartFits
<1>5. ProbeFits /\ SimsFit /\ PullHeld /\ Pins!PullsFit
  BY <1>1, <1>2, PinConstants DEF ProbeFits, SimsFit, PullHeld, Pins!PullsFit
<1> QED BY <1>3, <1>4, <1>5 DEF PinsInv

\* What it says of the engines' pins.
LEMMA PinsOneFunction == PinsInv => Pins!OneFunction
<1> SUFFICES ASSUME PinsInv PROVE Pins!OneFunction
  OBVIOUS
<1>0. DOMAIN Pins!OwnFns = {"uart", "swd", "spi", "i2c", "gps"}  BY DEF Pins!OwnFns
<1>1. /\ Pins!OwnFns["uart"] = {"uart"} /\ Pins!OwnFns["swd"] = {"swd_clk", "swd_dio"} /\ Pins!OwnFns["spi"] = {"spi"}
      /\ Pins!OwnFns["i2c"] = {"i2c"} /\ Pins!OwnFns["gps"] = {"gps"}
  BY DEF Pins!OwnFns
<1>2. Pins!Coming("uart") <=> uart_rearm_conn # NoConn  BY DEF Pins!Coming
<1>3. Pins!Coming("gps") <=> gps_rearm  BY DEF Pins!Coming
<1>4. fab \in [Pins!Engines -> SUBSET LaSet]  BY DEF PinsInv, Pins!TypeOK
<1>5. ASSUME NEW e \in DOMAIN Pins!OwnFns, NEW p \in fab[e] PROVE s_pin[p] \in Pins!OwnFns[e]
  <2>1. p \in LaSet  BY <1>0, <1>4, FnNames
  <2> QED BY <1>0, <1>1, <2>1 DEF PinsInv, UartFits, ProbeFits, SimsFit
<1>6. ASSUME NEW e \in DOMAIN Pins!OwnFns \ {"i2c"}, NEW p \in LaSet, s_pin[p] \in Pins!OwnFns[e]
      PROVE  p \in fab[e] \/ Pins!Coming(e)
  <2>1. CASE e = "uart"
    BY <1>1, <1>2, <1>6, <2>1 DEF PinsInv, UartFits
  <2>2. CASE e = "gps"
    BY <1>1, <1>3, <1>6, <2>2, PinConstants DEF PinsInv, SimsFit
  <2>3. CASE e \in {"swd", "spi"}
    BY <1>1, <1>6, <2>3 DEF PinsInv, ProbeFits
  <2> QED BY <1>0, <2>1, <2>2, <2>3
<1>7. \A p \in LaSet : s_pin[p] \in Pins!Gpio \cup {"none"} => latch[p] = Pins!Drive(s_pin[p])
  BY DEF PinsInv, LatchFits, Pins!Gpio
<1> QED BY <1>5, <1>6, <1>7 DEF Pins!OneFunction

\* So the three hold of every behaviour of the run.
LEMMA InstrumentsInvariant ==
    MCSpec => []((which = "pins" => PinsInv) /\ (which = "analog" => OutputInv) /\ (which = "range" => RangeInv))
<1> DEFINE Inv == (which = "pins" => PinsInv) /\ (which = "analog" => OutputInv) /\ (which = "range" => RangeInv)
<1>1. MCInit => Inv  BY PinsInitially, OutputInitially, RangeInitially DEF MCInit
<1>2. Inv /\ [MCNext]_mcVars => Inv'
  <2>1. [MCNext]_mcVars => [Pins!Next]_pinsVars /\ [Analog!Next]_analogVars /\ [Ranges!Next]_rangeVars /\ UNCHANGED which
    BY DEF MCNext, Rest, mcVars
  <2> QED BY <2>1, PinsInvStep, OutputInvStep, RangeInvStep
<1> QED BY <1>1, <1>2, PTL DEF MCSpec

\* la_pins.c, dac_limits.c, dac_quad.c, adc_cal.c: for every set of pins and connections, and however commands, ends,
\* reloads, restarts and faults interleave, a pin has one function and its engine and wire agree with the table, no
\* pull fights it, a limited output stays inside its window, and the server knows the scale of the ADC.
THEOREM PinsAreSafe == MCSpec => []PinsSafe
<1>1. (which = "pins" => PinsInv) /\ (which = "analog" => OutputInv) /\ (which = "range" => RangeInv) => PinsSafe
  BY PinsOneFunction, OutputsSafe DEF PinsSafe, PinsInv, RangeInv
<1> QED BY <1>1, InstrumentsInvariant, PTL
--------------------------------------------------------------------------------
(***************************************************************************)
(* Proofs: traces and how they are played, for any number of traces,        *)
(* connections and commands.                                                *)
(***************************************************************************)
\* The types of the traces' state, of what the DAC plays and of the upload under way.
TraceTypes ==
    /\ gate \in Conns \cup {NoConn} /\ hold \in Conns \cup {NoConn} /\ dcap \in {"idle", "armed", "runs"}
    /\ upload \in [conn : Conns \cup {NoConn}, deep : BOOLEAN]
    /\ pool \in 0 .. MaxTraces /\ top \in 0 .. MaxTraces /\ replay_len \in 0 .. MaxTraces /\ traces \in 0 .. MaxTraces
    /\ held \in BOOLEAN /\ based \in BOOLEAN /\ replay_in_psram \in BOOLEAN /\ loadGhost \in BOOLEAN

EngineTypes ==
    /\ play \in [src : {"none", "pool", "top", "wave"}, id : 0 .. MaxTraces, staged : BOOLEAN, asked : BOOLEAN]
    /\ dac_pend \in BOOLEAN /\ s_cotrig_pending \in BOOLEAN /\ s_cotrig_in_capture \in BOOLEAN
    /\ s_dac_ps_active \in BOOLEAN /\ dac_timed \in BOOLEAN

\* A trace that plays from the region at the top marks it as occupied, and an upload into the region is known
\* to write over what plays; an upload has been counted.
RegionMarked ==
    /\ play.src = "top" => s_dac_ps_active
    /\ upload.deep => loadGhost
    /\ upload # Trace!NoUpload => traces < MaxTraces

\* The inductive invariant of the traces.
TraceInv == TraceTypes /\ EngineTypes /\ RegionMarked /\ Trace!PlayedTraceIntact /\ Trace!CotrigKnown

\* What a module states of its bounds.
LEMMA TraceConstants == MaxTraces \in Nat /\ 0 \in 0 .. MaxTraces
  BY Assumptions DEF Trace!ConstantsOK

\* Nothing plays, typed.
LEMMA SilentTyped ==
    /\ Trace!Silent \in [src : {"none", "pool", "top", "wave"}, id : 0 .. MaxTraces, staged : BOOLEAN, asked : BOOLEAN]
    /\ Trace!Silent.src = "none" /\ ~Trace!Silent.asked
  BY TraceConstants DEF Trace!Silent

\* A step that leaves the traces alone, and the engine but for what stops it.
LEMMA StoppedOrSame ==
    ASSUME TraceInv, TraceTypes', UNCHANGED top, loadGhost => loadGhost', upload' \in {upload, Trace!NoUpload},
           upload' = Trace!NoUpload \/ UNCHANGED traces,
           \/ UNCHANGED <<play, dac_pend, s_cotrig_pending, s_cotrig_in_capture, s_dac_ps_active, dac_timed>> /\ dcap' = dcap
           \/ /\ play' = Trace!Silent /\ dac_pend' = FALSE /\ s_cotrig_pending' = FALSE /\ s_cotrig_in_capture' = FALSE
              /\ s_dac_ps_active' \in BOOLEAN /\ dac_timed' \in BOOLEAN
    PROVE  TraceInv'
<1>1. EngineTypes'  BY SilentTyped DEF TraceInv, EngineTypes
<1>2. RegionMarked'
  <2>1. ~Trace!NoUpload.deep  BY DEF Trace!NoUpload
  <2> QED BY <2>1, SilentTyped DEF TraceInv, RegionMarked
<1>3. Trace!PlayedTraceIntact' /\ Trace!CotrigKnown'
  BY SilentTyped DEF TraceInv, Trace!PlayedTraceIntact, Trace!CotrigKnown
<1> QED BY <1>1, <1>2, <1>3 DEF TraceInv

\* What stopping and staging leave of the DAC's engine: either it is as it was, or all of it is off but for a
\* co-trigger that is staged again.
LEMMA EngineSteps ==
    ASSUME TraceInv, NEW on_capture \in BOOLEAN, NEW force \in BOOLEAN, NEW e, NEW q,
           e = IF on_capture THEN Trace!ArmOnCapture(Trace!Engine) ELSE Trace!Engine, q = Trace!Quiesce(e, force)
    PROVE  /\ e.play = play /\ e.pend \in BOOLEAN /\ e.spend \in BOOLEAN /\ e.incap = s_cotrig_in_capture
           /\ e.pend => e.spend \/ (e.incap /\ dcap = "armed")
           /\ q.pend \in BOOLEAN /\ q.spend \in BOOLEAN /\ q.incap \in BOOLEAN
           /\ q.pend => q.spend \/ (q.incap /\ dcap = "armed")
           /\ on_capture => q.pend
           /\ DOMAIN q = {"play", "pend", "spend", "incap"}
<1>1. e = [play |-> play, pend |-> (on_capture \/ dac_pend), spend |-> (on_capture \/ s_cotrig_pending),
           incap |-> s_cotrig_in_capture]
  BY DEF Trace!ArmOnCapture, Trace!Engine, TraceInv, EngineTypes
<1>2. /\ e.play = play /\ e.pend = (on_capture \/ dac_pend) /\ e.spend = (on_capture \/ s_cotrig_pending)
      /\ e.incap = s_cotrig_in_capture /\ DOMAIN e = {"play", "pend", "spend", "incap"}
  BY <1>1
<1>3. \/ q = e
      \/ e.spend /\ q = [play |-> Trace!Silent, pend |-> TRUE, spend |-> TRUE, incap |-> FALSE]
      \/ ~e.spend /\ q = [play |-> Trace!Silent, pend |-> FALSE, spend |-> FALSE, incap |-> FALSE]
  BY <1>2 DEF Trace!Quiesce, Trace!StopDac, Trace!ArmOnCapture
<1>4. CASE q = e
  BY <1>2, <1>4 DEF TraceInv, EngineTypes, Trace!CotrigKnown
<1>5. CASE e.spend /\ q = [play |-> Trace!Silent, pend |-> TRUE, spend |-> TRUE, incap |-> FALSE]
  <2>1. q.pend = TRUE /\ q.spend = TRUE /\ q.incap = FALSE /\ DOMAIN q = {"play", "pend", "spend", "incap"}
    BY <1>5
  <2> QED BY <1>2, <2>1 DEF TraceInv, EngineTypes, Trace!CotrigKnown
<1>6. CASE ~e.spend /\ q = [play |-> Trace!Silent, pend |-> FALSE, spend |-> FALSE, incap |-> FALSE]
  <2>1. q.pend = FALSE /\ q.spend = FALSE /\ q.incap = FALSE /\ DOMAIN q = {"play", "pend", "spend", "incap"}
    BY <1>6
  <2> QED BY <1>2, <1>6, <2>1 DEF TraceInv, EngineTypes, Trace!CotrigKnown
<1> QED BY <1>3, <1>4, <1>5, <1>6

\* A start: what plays is what it names, staged if a co-trigger is, and asked for as it says.
LEMMA StartIs ==
    ASSUME NEW q, DOMAIN q = {"play", "pend", "spend", "incap"}, NEW s, NEW id, NEW want, NEW r, r = Trace!Start(q, s, id, want)
    PROVE  /\ r.play = [src |-> s, id |-> id, staged |-> q.pend, asked |-> want]
           /\ r.pend = q.pend /\ r.spend = q.spend /\ r.incap = q.incap
  BY DEF Trace!Start

\* Captures leave what plays alone, and a deep one keeps off a region that is played.
LEMMA CapturesKeepTrace ==
    ASSUME TraceInv, Trace!CaptureArm \/ Trace!T0 \/ Trace!CaptureDone \/ Trace!CaptureAbort
    PROVE  TraceInv'
<1> USE TraceConstants DEF Trace!trace, Trace!dacEngine, Trace!Apply
<1>1. CASE Trace!CaptureArm
  <2>1. PICK c \in Conns, deep \in BOOLEAN :
          /\ Trace!MayBegin(c)
          /\ gate' = c /\ dcap' = "armed"
          /\ Trace!Apply(Trace!Consume(Trace!Engine))
          /\ IF deep THEN /\ top' = IF Trace!ReachesTop(deep) THEN 0 ELSE top
                          /\ UNCHANGED <<pool, held, based, replay_len, replay_in_psram, traces>>
             ELSE Trace!NoteCapture
          /\ UNCHANGED <<upload, hold, s_dac_ps_active, dac_timed, loadGhost>>
    BY <1>1 DEF Trace!CaptureArm
  <2>2. play' = play /\ dac_pend' = dac_pend /\ s_cotrig_pending' = FALSE /\ s_cotrig_in_capture' = s_cotrig_pending
    BY <2>1 DEF Trace!Consume, Trace!Engine
  <2>3. dcap = "idle" /\ upload = Trace!NoUpload /\ (top' = top \/ ~s_dac_ps_active) /\ top' \in {0, top}
    BY <2>1 DEF Trace!MayBegin, Trace!ReachesTop, Trace!NoteCapture
  <2>4. TraceTypes'
    <3>1. /\ pool' \in 0 .. MaxTraces /\ replay_len' \in 0 .. MaxTraces /\ traces' \in 0 .. MaxTraces /\ held' \in BOOLEAN
          /\ UNCHANGED <<based, replay_in_psram>>
      <4>1. CASE deep
        BY <2>1, <4>1 DEF TraceInv, TraceTypes
      <4>2. CASE ~deep
        BY <2>1, <4>2 DEF Trace!NoteCapture, TraceInv, TraceTypes
      <4> QED BY <4>1, <4>2
    <3>2. gate' = c /\ dcap' = "armed" /\ UNCHANGED <<upload, hold, loadGhost>>  BY <2>1
    <3>3. TraceTypes  BY DEF TraceInv
    <3> QED BY <2>3, <3>1, <3>2, <3>3 DEF TraceTypes
  <2>5. EngineTypes'  BY <2>1, <2>2 DEF TraceInv, EngineTypes
  <2>6. RegionMarked' /\ Trace!PlayedTraceIntact' /\ Trace!CotrigKnown'
    BY <2>1, <2>2, <2>3 DEF TraceInv, RegionMarked, Trace!PlayedTraceIntact, Trace!CotrigKnown
  <2> QED BY <2>4, <2>5, <2>6 DEF TraceInv
<1>2. CASE Trace!T0
  <2>1. /\ play' \in [src : {"none", "pool", "top", "wave"}, id : 0 .. MaxTraces, staged : BOOLEAN, asked : BOOLEAN]
        /\ play'.src = play.src /\ play'.id = play.id
    BY <1>2 DEF Trace!T0, TraceInv, EngineTypes
  <2>2. TraceTypes'  BY <1>2 DEF Trace!T0, TraceInv, TraceTypes
  <2>4. EngineTypes'  BY <1>2, <2>1 DEF Trace!T0, TraceInv, EngineTypes
  <2>3. RegionMarked' /\ Trace!PlayedTraceIntact' /\ Trace!CotrigKnown'
    BY <1>2, <2>1 DEF Trace!T0, TraceInv, RegionMarked, Trace!PlayedTraceIntact, Trace!CotrigKnown
  <2> QED BY <2>2, <2>3, <2>4 DEF TraceInv
<1>3. CASE Trace!CaptureDone
  <2>1. TraceTypes' /\ EngineTypes'
    BY <1>3 DEF Trace!CaptureDone, TraceInv, TraceTypes, EngineTypes
  <2>2. RegionMarked' /\ Trace!PlayedTraceIntact' /\ Trace!CotrigKnown'
    BY <1>3 DEF Trace!CaptureDone, TraceInv, RegionMarked, Trace!PlayedTraceIntact, Trace!CotrigKnown
  <2> QED BY <2>1, <2>2 DEF TraceInv
<1>4. CASE Trace!CaptureAbort
  <2>1. TraceTypes'  BY <1>4 DEF Trace!CaptureAbort, TraceInv, TraceTypes
  <2>2. CASE s_cotrig_in_capture
    BY <1>4, <2>1, <2>2, StoppedOrSame DEF Trace!CaptureAbort, Trace!StopDac
  <2>3. CASE ~s_cotrig_in_capture
    <3>1. EngineTypes'  BY <1>4, <2>3 DEF Trace!CaptureAbort, TraceInv, EngineTypes
    <3>2. RegionMarked' /\ Trace!PlayedTraceIntact' /\ Trace!CotrigKnown'
      BY <1>4, <2>3 DEF Trace!CaptureAbort, TraceInv, RegionMarked, Trace!PlayedTraceIntact, Trace!CotrigKnown
    <3> QED BY <2>1, <3>1, <3>2 DEF TraceInv
  <2> QED BY <2>2, <2>3
<1> QED BY <1>1, <1>2, <1>3, <1>4

\* An upload into the region is known, until a replay takes what it left.
LEMMA UploadsKeepTrace ==
    ASSUME TraceInv, Trace!Load \/ Trace!LoadBin \/ Trace!Uploaded \/ Trace!UploadStalls \/ Trace!HoldExpires
                     \/ Trace!ScpiTakesPool \/ Trace!Close
    PROVE  TraceInv'
<1> USE TraceConstants DEF Trace!trace, Trace!dacEngine
<1>1. CASE Trace!Load
  <2>1. PICK c \in Conns : Trace!MayBegin(c) /\ gate' = c /\ hold' = c
    BY <1>1 DEF Trace!Load
  <2>2. TraceTypes'  BY <1>1, <2>1 DEF Trace!Load, TraceInv, TraceTypes
  <2> QED BY <1>1, <2>1, <2>2, StoppedOrSame DEF Trace!Load, Trace!MayBegin
<1>2. CASE Trace!LoadBin
  <2>1. PICK c \in Conns, deep \in BOOLEAN :
          /\ gate' = c /\ upload' = [conn |-> c, deep |-> deep]
          /\ IF deep THEN based' = TRUE /\ top' = 0 /\ loadGhost' = TRUE /\ UNCHANGED <<pool, held>>
                     ELSE pool' = 0 /\ held' = TRUE /\ UNCHANGED <<top, based, loadGhost>>
    BY <1>2 DEF Trace!LoadBin
  <2>2. upload' \in [conn : Conns \cup {NoConn}, deep : BOOLEAN] /\ (upload'.deep => loadGhost')
    BY <2>1
  <2>3. /\ replay_len' = 0 /\ replay_in_psram' = FALSE /\ traces < MaxTraces
        /\ UNCHANGED <<dcap, hold, play, dac_pend, s_cotrig_pending, s_cotrig_in_capture, s_dac_ps_active, dac_timed, traces>>
    BY <1>2 DEF Trace!LoadBin
  <2>4. TraceTypes'
    <3>1. /\ gate' \in Conns \cup {NoConn} /\ pool' \in 0 .. MaxTraces /\ top' \in 0 .. MaxTraces
          /\ held' \in BOOLEAN /\ based' \in BOOLEAN /\ loadGhost' \in BOOLEAN
      <4>1. CASE deep
        BY <2>1, <4>1 DEF TraceInv, TraceTypes
      <4>2. CASE ~deep
        BY <2>1, <4>2 DEF TraceInv, TraceTypes
      <4> QED BY <4>1, <4>2
    <3> QED BY <2>2, <2>3, <3>1 DEF TraceInv, TraceTypes
  <2>5. EngineTypes'  BY <2>3 DEF TraceInv, EngineTypes
  <2>6. RegionMarked' /\ Trace!PlayedTraceIntact' /\ Trace!CotrigKnown'
    BY <2>1, <2>2, <2>3 DEF TraceInv, TraceTypes, RegionMarked, Trace!PlayedTraceIntact, Trace!CotrigKnown
  <2> QED BY <2>4, <2>5, <2>6 DEF TraceInv
<1>3. CASE Trace!Uploaded
  <2>1. traces + 1 \in 0 .. MaxTraces
    BY <1>3 DEF Trace!Uploaded, TraceInv, TraceTypes, RegionMarked
  <2>2. TraceTypes'  BY <1>3, <2>1 DEF Trace!Uploaded, Trace!NoUpload, TraceInv, TraceTypes
  <2>3. EngineTypes'  BY <1>3 DEF Trace!Uploaded, TraceInv, EngineTypes
  <2>4. /\ upload' = Trace!NoUpload /\ ~upload'.deep
        /\ UNCHANGED <<play, dac_pend, s_cotrig_pending, s_cotrig_in_capture, s_dac_ps_active, loadGhost, dcap>>
        /\ ~upload.deep => UNCHANGED top
    BY <1>3 DEF Trace!Uploaded, Trace!NoUpload
  <2>5. RegionMarked' /\ Trace!PlayedTraceIntact' /\ Trace!CotrigKnown'
    BY <2>4 DEF TraceInv, RegionMarked, Trace!PlayedTraceIntact, Trace!CotrigKnown
  <2> QED BY <2>2, <2>3, <2>5 DEF TraceInv
<1>4. CASE Trace!UploadStalls
  <2>1. TraceTypes'  BY <1>4 DEF Trace!UploadStalls, Trace!NoUpload, TraceInv, TraceTypes
  <2> QED BY <1>4, <2>1, StoppedOrSame DEF Trace!UploadStalls
<1>5. CASE Trace!HoldExpires
  <2>1. TraceTypes'  BY <1>5 DEF Trace!HoldExpires, TraceInv, TraceTypes
  <2> QED BY <1>5, <2>1, StoppedOrSame DEF Trace!HoldExpires
<1>6. CASE Trace!ScpiTakesPool
  <2>1. TraceTypes'  BY <1>6 DEF Trace!ScpiTakesPool, TraceInv, TraceTypes
  <2> QED BY <1>6, <2>1, StoppedOrSame DEF Trace!ScpiTakesPool
<1>7. CASE Trace!Close
  <2>1. TraceTypes'  BY <1>7 DEF Trace!Close, TraceInv, TraceTypes
  <2> QED BY <1>7, <2>1, StoppedOrSame DEF Trace!Close
<1> QED BY <1>1, <1>2, <1>3, <1>4, <1>5, <1>6, <1>7

\* A replay or a generated waveform: the trace that plays from the region is the one that is there.
LEMMA PlaysKeepTrace == ASSUME TraceInv, Trace!Replay \/ Trace!Generate PROVE TraceInv' /\ (play' # play /\ play'.asked => play'.staged)
<1> USE TraceConstants DEF Trace!trace, Trace!dacEngine
<1>1. CASE Trace!Replay
  <2>1. PICK c \in Conns, on_capture \in BOOLEAN :
          LET gone == ~replay_in_psram /\ ~held
              e == IF on_capture THEN Trace!ArmOnCapture(Trace!Engine) ELSE Trace!Engine
          IN  /\ IF gone THEN replay_len' = 0 /\ UNCHANGED <<gate, hold, Trace!dacEngine>>
                 ELSE IF ~Trace!MayBegin(c) THEN Trace!Apply(e) /\ UNCHANGED <<replay_len, gate, hold, s_dac_ps_active,
                                                                               dac_timed, loadGhost>>
                 ELSE /\ Trace!Apply(IF replay_in_psram THEN Trace!PlayTop(e, on_capture) ELSE Trace!PlayPool(e, on_capture))
                      /\ s_dac_ps_active' = Trace!Active(replay_in_psram)
                      /\ loadGhost' = FALSE
                      /\ dac_timed' = FALSE /\ gate' = NoConn
                      /\ hold' = IF hold = c THEN NoConn ELSE hold
                      /\ UNCHANGED replay_len
              /\ UNCHANGED <<dcap, pool, held, top, based, replay_in_psram, traces, upload>>
    BY <1>1 DEF Trace!Replay
  <2> DEFINE e == IF on_capture THEN Trace!ArmOnCapture(Trace!Engine) ELSE Trace!Engine
  <2>2. TraceTypes'
    <3>1. /\ replay_len' \in {0, replay_len} /\ gate' \in {gate, NoConn} /\ hold' \in {hold, NoConn} /\ loadGhost' \in {FALSE, loadGhost}
      BY <2>1 DEF Trace!dacEngine
    <3>2. UNCHANGED <<dcap, pool, held, top, based, replay_in_psram, traces, upload>>  BY <2>1
    <3> QED BY <3>1, <3>2 DEF TraceInv, TraceTypes
  <2>3. CASE ~replay_in_psram /\ ~held
    BY <2>1, <2>2, <2>3, StoppedOrSame
  <2>4. CASE ~(~replay_in_psram /\ ~held) /\ ~Trace!MayBegin(c)
    <3>1. play' = e.play /\ dac_pend' = e.pend /\ s_cotrig_pending' = e.spend /\ s_cotrig_in_capture' = e.incap
      BY <2>1, <2>4 DEF Trace!Apply
    <3>2. UNCHANGED <<s_dac_ps_active, dac_timed, loadGhost, dcap, top, traces, upload>>
      BY <2>1, <2>4
    <3> DEFINE q == Trace!Quiesce(e, TRUE)
    <3>3. /\ e.play = play /\ e.pend \in BOOLEAN /\ e.spend \in BOOLEAN /\ e.incap = s_cotrig_in_capture
          /\ e.pend => e.spend \/ (e.incap /\ dcap = "armed")
      BY EngineSteps
    <3> HIDE DEF e
    <3>4. play' = play /\ EngineTypes'  BY <3>1, <3>2, <3>3 DEF TraceInv, EngineTypes
    <3>5. RegionMarked' /\ Trace!PlayedTraceIntact' /\ Trace!CotrigKnown'
      BY <3>1, <3>2, <3>3, <3>4 DEF TraceInv, RegionMarked, Trace!PlayedTraceIntact, Trace!CotrigKnown
    <3> QED BY <2>2, <3>4, <3>5 DEF TraceInv
  <2>5. CASE ~(~replay_in_psram /\ ~held) /\ Trace!MayBegin(c)
    <3> DEFINE q == Trace!Quiesce(e, replay_in_psram)
    <3> DEFINE s == IF replay_in_psram THEN "top" ELSE "pool"
    <3> DEFINE id == IF replay_in_psram THEN top ELSE pool
    <3>1. Trace!Apply(Trace!Start(q, s, id, on_capture))
      BY <2>1, <2>5 DEF TraceInv, TraceTypes, Trace!PlayTop, Trace!PlayPool, Trace!LoadWave
    <3>2. /\ s_dac_ps_active' = (replay_in_psram \/ s_dac_ps_active) /\ loadGhost' = FALSE /\ dac_timed' = FALSE
          /\ UNCHANGED <<dcap, top, traces, upload>> /\ upload = Trace!NoUpload
      BY <2>1, <2>5 DEF Trace!Active, Trace!MayBegin
    <3>10. /\ e = IF on_capture THEN Trace!ArmOnCapture(Trace!Engine) ELSE Trace!Engine
           /\ q = Trace!Quiesce(e, replay_in_psram) /\ replay_in_psram \in BOOLEAN
      BY DEF TraceInv, TraceTypes
    <3> HIDE DEF e, q
    <3>3. /\ q.pend \in BOOLEAN /\ q.spend \in BOOLEAN /\ q.incap \in BOOLEAN
          /\ q.pend => q.spend \/ (q.incap /\ dcap = "armed")
          /\ on_capture => q.pend
          /\ DOMAIN q = {"play", "pend", "spend", "incap"}
      BY <3>10, EngineSteps
    <3>4. /\ play' = [src |-> s, id |-> id, staged |-> q.pend, asked |-> on_capture]
          /\ dac_pend' = q.pend /\ s_cotrig_pending' = q.spend /\ s_cotrig_in_capture' = q.incap
      BY <3>1, <3>3, StartIs DEF Trace!Apply
    <3>5. s \in {"none", "pool", "top", "wave"} /\ id \in 0 .. MaxTraces /\ (s = "top" => replay_in_psram /\ id = top)
      BY DEF TraceInv, TraceTypes
    <3> HIDE DEF s, id
    <3>6. play'.src = s /\ play'.id = id /\ play'.asked = on_capture /\ play'.staged = q.pend
      BY <3>4
    <3>7. EngineTypes'  BY <3>2, <3>3, <3>4, <3>5 DEF TraceInv, TraceTypes, EngineTypes
    <3>8. RegionMarked' /\ Trace!PlayedTraceIntact' /\ Trace!CotrigKnown'
      BY <3>2, <3>3, <3>4, <3>5, <3>6 DEF TraceInv, RegionMarked, Trace!PlayedTraceIntact, Trace!CotrigKnown, Trace!NoUpload
    <3>9. play'.asked => play'.staged  BY <3>3, <3>6
    <3> QED BY <2>2, <3>7, <3>8, <3>9 DEF TraceInv
  <2> QED BY <2>3, <2>4, <2>5
<1>2. CASE Trace!Generate
  <2>1. PICK on_capture \in BOOLEAN, known \in BOOLEAN, timed \in BOOLEAN :
          LET e == IF on_capture THEN Trace!ArmOnCapture(Trace!Engine) ELSE Trace!Engine
          IN  /\ IF known THEN Trace!Apply(Trace!Start(Trace!LoadWave(e), "wave", 0, on_capture)) /\ dac_timed' = timed
                 ELSE Trace!Apply(e) /\ UNCHANGED dac_timed
              /\ UNCHANGED <<gate, dcap, Trace!trace, upload, hold, s_dac_ps_active, loadGhost>>
    BY <1>2 DEF Trace!Generate
  <2> DEFINE e == IF on_capture THEN Trace!ArmOnCapture(Trace!Engine) ELSE Trace!Engine
  <2> DEFINE q == Trace!Quiesce(e, FALSE)
  <2>2. TraceTypes'  BY <2>1 DEF TraceInv, TraceTypes
  <2>7. /\ e = IF on_capture THEN Trace!ArmOnCapture(Trace!Engine) ELSE Trace!Engine
        /\ q = Trace!Quiesce(e, FALSE) /\ FALSE \in BOOLEAN
    OBVIOUS
  <2>8. /\ known => Trace!Apply(Trace!Start(q, "wave", 0, on_capture)) /\ dac_timed' \in BOOLEAN
        /\ ~known => Trace!Apply(e) /\ UNCHANGED dac_timed
    BY <2>1 DEF Trace!LoadWave
  <2> HIDE DEF e, q
  <2>3. /\ e.play = play /\ e.pend \in BOOLEAN /\ e.spend \in BOOLEAN /\ e.incap = s_cotrig_in_capture
        /\ e.pend => e.spend \/ (e.incap /\ dcap = "armed")
        /\ q.pend \in BOOLEAN /\ q.spend \in BOOLEAN /\ q.incap \in BOOLEAN
        /\ q.pend => q.spend \/ (q.incap /\ dcap = "armed")
        /\ on_capture => q.pend
        /\ DOMAIN q = {"play", "pend", "spend", "incap"}
    BY <2>7, EngineSteps
  <2>4. UNCHANGED <<dcap, top, traces, upload, s_dac_ps_active, loadGhost>>  BY <2>1
  <2>5. CASE known
    <3>1. Trace!Apply(Trace!Start(q, "wave", 0, on_capture)) /\ dac_timed' \in BOOLEAN
      BY <2>5, <2>8
    <3>2. /\ play' = [src |-> "wave", id |-> 0, staged |-> q.pend, asked |-> on_capture]
          /\ dac_pend' = q.pend /\ s_cotrig_pending' = q.spend /\ s_cotrig_in_capture' = q.incap
      BY <2>3, <3>1, StartIs DEF Trace!Apply
    <3>3. play'.src = "wave" /\ play'.asked = on_capture /\ play'.staged = q.pend  BY <3>2
    <3>4. EngineTypes'  BY <2>3, <2>4, <3>1, <3>2 DEF TraceInv, EngineTypes
    <3>5. RegionMarked' /\ Trace!PlayedTraceIntact' /\ Trace!CotrigKnown'
      BY <2>3, <2>4, <3>2, <3>3 DEF TraceInv, RegionMarked, Trace!PlayedTraceIntact, Trace!CotrigKnown
    <3> QED BY <2>2, <2>3, <3>3, <3>4, <3>5 DEF TraceInv
  <2>6. CASE ~known
    <3>1. play' = e.play /\ dac_pend' = e.pend /\ s_cotrig_pending' = e.spend /\ s_cotrig_in_capture' = e.incap /\ UNCHANGED dac_timed
      BY <2>6, <2>8 DEF Trace!Apply
    <3>2. play' = play /\ EngineTypes'  BY <2>3, <2>4, <3>1 DEF TraceInv, EngineTypes
    <3>3. RegionMarked' /\ Trace!PlayedTraceIntact' /\ Trace!CotrigKnown'
      BY <2>3, <2>4, <3>1, <3>2 DEF TraceInv, RegionMarked, Trace!PlayedTraceIntact, Trace!CotrigKnown
    <3> QED BY <2>2, <3>2, <3>3 DEF TraceInv
  <2> QED BY <2>5, <2>6
<1> QED BY <1>1, <1>2

\* Stops and a reload of the gateware leave nothing staged.
LEMMA StopsKeepTrace ==
    ASSUME TraceInv, Trace!DacStop \/ Trace!TimedEnd \/ Trace!Reconfigured
    PROVE  TraceInv' /\ ~play'.asked
<1> USE DEF Trace!trace, Trace!Apply, Trace!StopDac, Trace!DacStop, Trace!TimedEnd, Trace!Reconfigured
<1>1. TraceTypes'  BY DEF TraceInv, TraceTypes
<1>2. /\ play' = Trace!Silent /\ dac_pend' = FALSE /\ s_cotrig_pending' = FALSE /\ s_cotrig_in_capture' = FALSE
      /\ s_dac_ps_active' \in BOOLEAN /\ dac_timed' \in BOOLEAN
      /\ UNCHANGED <<top, loadGhost, upload, traces>>
  BY DEF TraceInv, EngineTypes
<1> QED BY <1>1, <1>2, StoppedOrSame, SilentTyped

\* Every step of the traces keeps the invariant, and what it starts as asked for waits for the capture.
LEMMA TraceInvStep ==
    TraceInv /\ [Trace!Next]_traceVars => TraceInv' /\ Trace!StartWaits
<1> SUFFICES ASSUME TraceInv, [Trace!Next]_traceVars
             PROVE  TraceInv' /\ Trace!StartWaits
  OBVIOUS
<1> USE DEF Trace!StartWaits
<1>1. CASE UNCHANGED traceVars
  <2>1. TraceTypes' /\ EngineTypes'  BY <1>1 DEF traceVars, TraceInv, TraceTypes, EngineTypes
  <2> QED BY <1>1, <2>1 DEF traceVars, TraceInv, RegionMarked, Trace!PlayedTraceIntact, Trace!CotrigKnown
<1>2. CASE Trace!CaptureArm \/ Trace!T0 \/ Trace!CaptureDone \/ Trace!CaptureAbort
  <2>1. play' # play => dcap' # dcap
    BY <1>2 DEF Trace!CaptureArm, Trace!MayBegin, Trace!T0, Trace!CaptureDone, Trace!CaptureAbort
  <2> QED BY <1>2, <2>1, CapturesKeepTrace
<1>3. CASE Trace!Load \/ Trace!LoadBin \/ Trace!Uploaded \/ Trace!UploadStalls \/ Trace!HoldExpires \/ Trace!ScpiTakesPool \/ Trace!Close
  <2>1. play' = play
    BY <1>3 DEF Trace!Load, Trace!LoadBin, Trace!Uploaded, Trace!UploadStalls, Trace!HoldExpires, Trace!ScpiTakesPool,
                Trace!Close, Trace!dacEngine
  <2> QED BY <1>3, <2>1, UploadsKeepTrace
<1>4. CASE Trace!Replay \/ Trace!Generate
  BY <1>4, PlaysKeepTrace
<1>5. CASE Trace!DacStop \/ Trace!TimedEnd \/ Trace!Reconfigured
  BY <1>5, StopsKeepTrace
<1> QED BY <1>1, <1>2, <1>3, <1>4, <1>5 DEF Trace!Next

\* Nothing is loaded and nothing plays.
LEMMA TraceInitially == Trace!Init => TraceInv
<1> SUFFICES ASSUME Trace!Init PROVE TraceInv
  OBVIOUS
<1> USE TraceConstants DEF Trace!Init
<1>1. TraceTypes  BY DEF Trace!NoUpload, TraceTypes
<1>2. EngineTypes  BY SilentTyped DEF EngineTypes
<1>3. RegionMarked /\ Trace!PlayedTraceIntact /\ Trace!CotrigKnown
  BY SilentTyped DEF Trace!NoUpload, RegionMarked, Trace!PlayedTraceIntact, Trace!CotrigKnown
<1> QED BY <1>1, <1>2, <1>3 DEF TraceInv

\* The types, as the module states them.
LEMMA TraceTypeOK == TraceInv => Trace!TypeOK
  BY DEF TraceInv, TraceTypes, EngineTypes, Trace!TypeOK

\* A pin's function is that of its engine, so with every pin free no engine runs.
LEMMA FreePinsFreeEngines ==
    ASSUME PinsInv, \A p \in LaSet : s_pin[p] = "none", NEW e \in DOMAIN Pins!OwnFns
    PROVE  fab[e] = {}
<1>1. e \in {"uart", "swd", "spi", "i2c", "gps"} /\ fab[e] \in SUBSET LaSet
  BY FnNames DEF Pins!OwnFns, PinsInv, Pins!TypeOK
<1>2. CASE e = "uart"
  BY <1>2 DEF PinsInv, UartFits
<1>3. CASE e \in {"swd", "spi"}
  BY <1>1, <1>3 DEF PinsInv, ProbeFits
<1>4. CASE e \in {"i2c", "gps"}
  BY <1>1, <1>4, PinConstants DEF PinsInv, SimsFit, Pins!TypeOK
<1> QED BY <1>1, <1>2, <1>3, <1>4

\* uart_proxy_end: the pull the session closed is as it was before it.
LEMMA UartEndRestores == ASSUME PinsInv, Pins!UartEnd, UNCHANGED s_la_vccio_mv PROVE Pins!BankChanges
  BY DEF PinsInv, PullHeld, Pins!UartEnd, Pins!SetPull, Pins!BankChanges

\* Every step of the pins: the voltage changes with all pins free, and a pull is put back by the session's end.
LEMMA BankStep == PinsInv /\ [Pins!Next]_pinsVars => Pins!BankChanges
<1> SUFFICES ASSUME PinsInv, [Pins!Next]_pinsVars PROVE Pins!BankChanges
  OBVIOUS
<1>1. ASSUME UNCHANGED <<s_la_vccio_mv, uart_rx_pu_ch>> PROVE Pins!BankChanges
  BY <1>1 DEF Pins!BankChanges
<1>2. ASSUME NEW c \in Conns, Pins!VoltageCmd(c) PROVE Pins!BankChanges
  <2>1. PICK mv \in {"1v8", "3v3"} : Pins!MayChangeVoltage(mv) /\ Pins!SetMv(mv)
    BY <1>2 DEF Pins!VoltageCmd
  <2>2. s_la_vccio_mv' # s_la_vccio_mv => \A p \in LaSet : s_pin[p] = "none"
    BY <2>1 DEF Pins!MayChangeVoltage, Pins!SetMv
  <2>3. UNCHANGED uart_rx_pu_ch  BY <1>2 DEF Pins!VoltageCmd, Pins!uartVars
  <2> QED BY <2>2, <2>3, FreePinsFreeEngines DEF Pins!BankChanges
<1>3. ASSUME NEW c \in Conns, Pins!UartStart(c) PROVE Pins!BankChanges
  <2>1. ~uart_armed_local /\ UNCHANGED s_la_vccio_mv
    BY <1>3 DEF Pins!UartStart, Pins!UartConfig
  <2>2. uart_rx_pu_ch = NoPin  BY <2>1 DEF PinsInv, UartFits, PullHeld
  <2> QED BY <2>1, <2>2 DEF Pins!BankChanges
<1>4. CASE Pins!UartPoll
  BY <1>4, UartEndRestores DEF Pins!UartPoll
<1>5. CASE Pins!UartRearm
  <2>1. UNCHANGED s_la_vccio_mv /\ (Pins!UartEnd \/ UNCHANGED uart_rx_pu_ch)
    BY <1>5 DEF Pins!UartRearm
  <2> QED BY <1>1, <2>1, UartEndRestores
<1>6. ASSUME NEW c \in Conns, Pins!ConnClosed(c) PROVE Pins!BankChanges
  <2>1. UNCHANGED s_la_vccio_mv /\ (Pins!UartEnd \/ UNCHANGED uart_rx_pu_ch)
    BY <1>6 DEF Pins!ConnClosed
  <2> QED BY <1>1, <2>1, UartEndRestores
<1>7. ASSUME NEW c \in Conns,
             Pins!GpioSet(c) \/ Pins!LaCommand(c) \/ Pins!SensorStart(c) \/ Pins!SensorStop(c) \/ Pins!GpsStart(c)
             \/ Pins!GpsStop(c) \/ Pins!UartReceive(c) \/ Pins!DapStart(c) \/ Pins!DapFrame(c) \/ Pins!SpiStart(c)
             \/ Pins!SpiStop(c) \/ Pins!Closes(c)
      PROVE  UNCHANGED <<s_la_vccio_mv, uart_rx_pu_ch>>
  BY <1>7 DEF Pins!GpioSet, Pins!LaCommand, Pins!StepBegin, Pins!PullCmd, Pins!SensorStart, Pins!SensorStop, Pins!GpsStart,
     Pins!GpsStop, Pins!UartReceive, Pins!DapStart, Pins!DapFrame, Pins!SpiStart, Pins!SpiStop, Pins!Closes, Pins!uartVars, Pins!bankVars
<1>8. CASE Pins!TrainEnds \/ Pins!StepPoll \/ Pins!RearmPoll \/ Pins!DapIdle \/ Pins!Reconfigured \/ UNCHANGED pinsVars
  <2>1. UNCHANGED <<s_la_vccio_mv, uart_rx_pu_ch>>
    BY <1>8 DEF Pins!TrainEnds, Pins!StepPoll, Pins!RearmPoll, Pins!DapIdle, Pins!Reconfigured, pinsVars, Pins!uartVars, Pins!bankVars
  <2> QED BY <1>1, <2>1
<1> QED BY <1>1, <1>2, <1>3, <1>4, <1>5, <1>6, <1>7, <1>8 DEF Pins!Next

\* command_handler.c, signal_engine.c: for any pins, connections, traces and commands, the bank's voltage changes under
\* no session, a session's end puts the RX pull back, and a start asked to wait for a capture drives nothing before it.
THEOREM StartsAreInOrder == MCSpec => StartsInOrder
<1> DEFINE Inv == (which = "pins" => PinsInv) /\ (which = "trace" => TraceInv)
<1>1. [MCNext]_mcVars => /\ UNCHANGED which /\ [Pins!Next]_pinsVars /\ [Trace!Next]_traceVars
                         /\ (which = "pins" \/ UNCHANGED pinsVars) /\ (which = "trace" \/ UNCHANGED traceVars)
  BY DEF MCNext, Rest, mcVars
<1>2. UNCHANGED pinsVars => UNCHANGED Pins!lpVars
  BY DEF pinsVars, Pins!lpVars, Pins!tableVars, Pins!fabVars, Pins!swdVars, Pins!simVars, Pins!uartVars, Pins!connVars,
         Pins!bankVars
<1>3. UNCHANGED traceVars => UNCHANGED Trace!dtVars  BY DEF traceVars, Trace!dtVars
<1>4. MCInit => Inv  BY PinsInitially, TraceInitially DEF MCInit
<1>5. Inv /\ [MCNext]_mcVars => Inv'  BY <1>1, PinsInvStep, TraceInvStep
<1>6. Inv /\ [MCNext]_mcVars => [Pins!BankChanges]_(Pins!lpVars)  BY <1>1, <1>2, BankStep
<1>7. Inv /\ [MCNext]_mcVars => [Trace!StartWaits]_(Trace!dtVars)  BY <1>1, <1>3, TraceInvStep
<1>8. MCSpec => []Inv  BY <1>4, <1>5, PTL DEF MCSpec
<1>9. MCSpec => Pins!BankSteady  BY <1>6, <1>8, PTL DEF MCSpec, Pins!BankSteady
<1>10. MCSpec => Trace!DeferredStart  BY <1>7, <1>8, PTL DEF MCSpec, Trace!DeferredStart
<1> QED BY <1>9, <1>10 DEF StartsInOrder
--------------------------------------------------------------------------------
(***************************************************************************)
(* Proofs: the SCPI server, for any pool, buffer and ring.                  *)
(***************************************************************************)
\* The types of the reply and of its connection.
ReplyTypes ==
    /\ reply \in [left : 0 .. Cells + 1, buf : 0 .. RespBuf, sent : Nat, whole : Nat, waited : 0 .. Stall, torn : BOOLEAN]
    /\ ring \in 0 .. Ring /\ open \in BOOLEAN /\ errs \in 0 .. ErrQueue

\* Of what is kept in the pool; a line or a JSON command takes one generation at most.
PoolTypes ==
    /\ s_gen \in 0 .. lines + jsons /\ scpi_trace_gen \in 0 .. s_gen
    /\ json \in [gen : 0 .. s_gen, len : 0 .. Cells] /\ scpi_replay_bytes \in 0 .. Cells
    /\ cells \in [Lines!Pool -> {"none", "scpi", "json"}] /\ lines \in 0 .. MaxLines /\ jsons \in 0 .. MaxJson

\* Of the outputs and the board.
OutTypes ==
    /\ src \in [shape : {"wave", "user"}, fresh : BOOLEAN] /\ output_on \in BOOLEAN
    /\ dacOn \in {"off", "wave", "user", "json"} /\ playing \in SUBSET {"none", "scpi", "json"}
    /\ gateBy \in {"free", "json"} /\ board \in {"full", "safe", "digital"} /\ limits \in BOOLEAN

\* The generation of the SCPI trace is never that of the JSON trace, and the pool still holds a JSON trace whose
\* generation is the pool's.
JsonKept ==
    /\ scpi_trace_gen = json.gen => scpi_trace_gen = 0
    /\ json.gen = s_gen /\ s_gen # 0 => \A c \in 1 .. json.len : cells[c] = "json"

\* Of a reply on an open connection each part is yet to be written, in the buffer, or sent.
ReplyCounted == open => reply.left + reply.buf + reply.sent = reply.whole

\* The inductive invariant of the SCPI server.
ScpiInv == ReplyTypes /\ PoolTypes /\ OutTypes /\ JsonKept /\ ReplyCounted /\ Lines!JsonTraceOwn

\* What the module states of its bounds.
LEMMA ScpiConstants ==
    /\ Cells \in Nat \ {0} /\ RespBuf \in Nat \ {0} /\ Ring \in Nat \ {0} /\ MinChunk \in Nat \ {0} /\ Stall \in Nat \ {0}
    /\ ErrQueue \in Nat \ {0} /\ MaxLines \in Nat /\ MaxJson \in Nat
    /\ 0 \in 0 .. Cells + 1 /\ 0 \in 0 .. RespBuf /\ 0 \in 0 .. Stall
    /\ \A n \in 0 .. Cells + 1 : n \in Nat /\ n + 0 + 0 = n
    /\ \A n \in 0 .. ErrQueue : n # ErrQueue => n + 1 \in 0 .. ErrQueue
  BY Assumptions DEF Lines!ConstantsOK

\* The reply a line begins with: all of it is yet to be written.
LEMMA LineReplies ==
    ASSUME ScpiInv, UNCHANGED <<ring, open>>,
           \/ \E n \in 0 .. Cells + 1 : reply' = [Lines!NoReply EXCEPT !.left = n, !.whole = n] /\ errs' \in 0 .. ErrQueue
           \/ Lines!ErrorPush \/ Lines!Silent
    PROVE  ReplyTypes' /\ ReplyCounted'
<1>1. PICK n \in 0 .. Cells + 1 :
         reply' = [left |-> n, buf |-> 0, sent |-> 0, whole |-> n, waited |-> 0, torn |-> FALSE]
  <2>1. CASE \E n \in 0 .. Cells + 1 : reply' = [Lines!NoReply EXCEPT !.left = n, !.whole = n]
    BY <2>1 DEF Lines!NoReply
  <2>2. CASE reply' = Lines!NoReply
    BY <2>2, ScpiConstants DEF Lines!NoReply
  <2> QED BY <2>1, <2>2 DEF Lines!ErrorPush, Lines!Silent
<1>2. n \in Nat /\ 0 \in 0 .. RespBuf /\ 0 \in 0 .. Stall /\ n + 0 + 0 = n  BY ScpiConstants
<1>3. errs' \in 0 .. ErrQueue
  <2>1. errs \in 0 .. ErrQueue  BY DEF ScpiInv, ReplyTypes
  <2>2. errs # ErrQueue => errs + 1 \in 0 .. ErrQueue  BY <2>1, ScpiConstants
  <2> QED BY <2>1, <2>2 DEF Lines!ErrorPush, Lines!Silent
<1>5. reply'.left = n /\ reply'.buf = 0 /\ reply'.sent = 0 /\ reply'.whole = n  BY <1>1
<1>6. reply' \in [left : 0 .. Cells + 1, buf : 0 .. RespBuf, sent : Nat, whole : Nat, waited : 0 .. Stall, torn : BOOLEAN]
  BY <1>1, <1>2
<1>4. ReplyTypes'  BY <1>3, <1>6 DEF ScpiInv, ReplyTypes
<1>7. ReplyCounted'  BY <1>2, <1>5 DEF ReplyCounted
<1> QED BY <1>4, <1>7

\* What a step that takes no generation leaves of the pool.
LEMMA PoolKept ==
    ASSUME ScpiInv, lines' \in lines .. MaxLines, jsons' \in jsons .. MaxJson, UNCHANGED <<s_gen, json, cells>>,
           scpi_trace_gen' \in {0, scpi_trace_gen}, scpi_replay_bytes' \in 0 .. Cells
    PROVE  PoolTypes' /\ JsonKept'
<1>1. s_gen' \in 0 .. lines' + jsons'
  <2>1. /\ s_gen \in Nat /\ s_gen <= lines + jsons /\ lines \in Nat /\ jsons \in Nat /\ lines' \in Nat /\ jsons' \in Nat
        /\ lines <= lines' /\ jsons <= jsons'
    BY ScpiConstants DEF ScpiInv, PoolTypes
  <2>2. \A m, n, k, g \in Nat : m <= k /\ n <= g /\ s_gen <= m + n => s_gen \in 0 .. k + g
    BY <2>1
  <2>3. s_gen \in 0 .. lines' + jsons'  BY <2>1, <2>2
  <2> QED BY <2>3
<1>2. scpi_trace_gen' \in 0 .. s_gen' /\ json' \in [gen : 0 .. s_gen', len : 0 .. Cells]
  BY DEF ScpiInv, PoolTypes
<1>3. lines' \in 0 .. MaxLines /\ jsons' \in 0 .. MaxJson
  BY ScpiConstants DEF ScpiInv, PoolTypes
<1>4. PoolTypes'  BY <1>1, <1>2, <1>3 DEF ScpiInv, PoolTypes
<1>5. JsonKept'  BY DEF ScpiInv, JsonKept
<1> QED BY <1>4, <1>5

\* A run of cells that is written.
LEMMA WrittenIs ==
    ASSUME ScpiInv, NEW m \in Nat, NEW n \in Nat, NEW who \in {"none", "scpi", "json"}
    PROVE  /\ Lines!Written(m, n, who) \in [Lines!Pool -> {"none", "scpi", "json"}]
           /\ \A c \in Lines!Pool : c \in m .. n => Lines!Written(m, n, who)[c] = who
  BY DEF ScpiInv, PoolTypes, Lines!Written

\* A line of SCPI takes the pool: the JSON trace is of an older generation from here on.
LEMMA PoolTaken ==
    ASSUME ScpiInv, lines < MaxLines, lines' = lines + 1, UNCHANGED <<json, jsons>>, Lines!Take,
           cells' \in [Lines!Pool -> {"none", "scpi", "json"}], scpi_replay_bytes' \in 0 .. Cells
    PROVE  PoolTypes' /\ JsonKept'
<1> USE ScpiConstants
<1>1. s_gen' = s_gen + 1 /\ scpi_trace_gen' = s_gen + 1 /\ s_gen \in Nat /\ s_gen <= lines + jsons /\ lines \in Nat /\ jsons \in Nat
  BY DEF ScpiInv, PoolTypes, Lines!Take
<1>2. s_gen' \in 0 .. lines' + jsons' /\ scpi_trace_gen' \in 0 .. s_gen' /\ lines' \in 0 .. MaxLines
  BY <1>1
<1>3. json.gen \in 0 .. s_gen /\ json.len \in 0 .. Cells /\ json = [gen |-> json.gen, len |-> json.len]
  BY DEF ScpiInv, PoolTypes
<1>4. json.gen \in 0 .. s_gen' /\ json.gen # s_gen'  BY <1>1, <1>3
<1>5. json' \in [gen : 0 .. s_gen', len : 0 .. Cells]  BY <1>3, <1>4
<1>6. PoolTypes'  BY <1>2, <1>5 DEF ScpiInv, PoolTypes
<1>7. JsonKept'  BY <1>1, <1>4 DEF JsonKept
<1> QED BY <1>6, <1>7

\* A line that begins; what it may leave as it is.
LEMMA LineIs ==
    ASSUME ScpiInv, Lines!Line
    PROVE  /\ lines < MaxLines /\ lines' = lines + 1 /\ lines' \in lines .. MaxLines
           /\ jsons \in jsons .. MaxJson /\ scpi_replay_bytes \in 0 .. Cells /\ 1 \in 0 .. Cells + 1 /\ 2 \in 0 .. Cells + 1
           /\ Cells \in 0 .. Cells + 1
  BY ScpiConstants DEF ScpiInv, PoolTypes, Lines!Line

\* Lines that neither fill the pool nor play: what is answered is the whole of the reply.
LEMMA PlainLinesKeep ==
    ASSUME ScpiInv,
           Lines!Query \/ Lines!Identity \/ Lines!ErrorNext \/ Lines!SrcFunction \/ Lines!SrcSetting \/ Lines!SenseSetting
           \/ Lines!Pattern \/ Lines!DiagCapture \/ Lines!Digital \/ Lines!Power
    PROVE  ScpiInv'
<1> USE ScpiConstants DEF Lines!scTrace, Lines!scDac, Lines!scWorld, Lines!scConn
<1>1. Lines!Line /\ UNCHANGED <<output_on, Lines!scTrace, Lines!scDac, Lines!scWorld, Lines!scConn>>
  BY DEF Lines!Query, Lines!Identity, Lines!ErrorNext, Lines!SrcFunction, Lines!SrcSetting, Lines!SenseSetting,
         Lines!Pattern, Lines!DiagCapture, Lines!Digital, Lines!Power
<1>2. src' \in [shape : {"wave", "user"}, fresh : BOOLEAN]
  BY DEF ScpiInv, OutTypes, Lines!Query, Lines!Identity, Lines!ErrorNext, Lines!SrcFunction, Lines!SrcSetting, Lines!SenseSetting,
         Lines!Pattern, Lines!DiagCapture, Lines!Digital, Lines!Power
<1>3. \/ \E n \in 0 .. Cells + 1 : reply' = [Lines!NoReply EXCEPT !.left = n, !.whole = n] /\ errs' \in 0 .. ErrQueue
      \/ Lines!ErrorPush \/ Lines!Silent
  <2>1. errs \in 0 .. ErrQueue  BY DEF ScpiInv, ReplyTypes
  <2>2. CASE Lines!ErrorNext
    <3>1. errs' \in 0 .. ErrQueue  BY <2>1, <2>2 DEF Lines!ErrorNext
    <3>2. reply' = [Lines!NoReply EXCEPT !.left = 1, !.whole = 1]  BY <2>2 DEF Lines!ErrorNext
    <3> QED BY <1>1, <3>1, <3>2, LineIs
  <2>3. CASE Lines!Query \/ Lines!Identity
    BY <1>1, <2>1, <2>3, LineIs DEF Lines!Query, Lines!Identity, Lines!Answer
  <2>4. CASE Lines!Pattern \/ Lines!DiagCapture
    BY <1>1, <2>1, <2>4, LineIs DEF Lines!Pattern, Lines!DiagCapture, Lines!Answer
  <2>5. CASE Lines!SrcFunction \/ Lines!SrcSetting \/ Lines!SenseSetting \/ Lines!Digital \/ Lines!Power
    BY <2>5 DEF Lines!SrcFunction, Lines!SrcSetting, Lines!SenseSetting, Lines!Digital, Lines!Power
  <2> QED BY <2>2, <2>3, <2>4, <2>5
<1>4. ReplyTypes' /\ ReplyCounted'  BY <1>1, <1>3, LineReplies
<1>5. PoolTypes' /\ JsonKept'  BY <1>1, LineIs, PoolKept
<1>6. OutTypes' /\ Lines!JsonTraceOwn'  BY <1>1, <1>2 DEF ScpiInv, OutTypes, Lines!JsonTraceOwn
<1> QED BY <1>4, <1>5, <1>6 DEF ScpiInv

\* *RST and OUTPut.
LEMMA OutputLinesKeep == ASSUME ScpiInv, Lines!Rst \/ Lines!OutputOn \/ Lines!OutputOff PROVE ScpiInv'
<1> USE ScpiConstants DEF Lines!scTrace, Lines!scDac, Lines!scWorld, Lines!scConn
<1>1. /\ Lines!Line /\ UNCHANGED <<s_gen, cells, json, gateBy, board, limits, jsons, ring, open>>
      /\ scpi_trace_gen' \in {0, scpi_trace_gen} /\ scpi_replay_bytes' \in {0, scpi_replay_bytes}
      /\ Lines!ErrorPush \/ Lines!Silent
  BY DEF Lines!Rst, Lines!OutputOn, Lines!OutputOff
<1>2. ReplyTypes' /\ ReplyCounted'  BY <1>1, LineReplies
<1>3. PoolTypes' /\ JsonKept'  BY <1>1, LineIs, PoolKept
<1>4. \A n \in 0 .. Cells : {cells[c] : c \in 1 .. n} \in SUBSET {"none", "scpi", "json"}
  BY DEF ScpiInv, PoolTypes, Lines!Pool
<1>5. /\ src' \in [shape : {"wave", "user"}, fresh : BOOLEAN] /\ output_on' \in BOOLEAN
      /\ dacOn' \in {"off", "wave", "user", "json"} /\ playing' \in SUBSET {"none", "scpi", "json"}
      /\ dacOn' = "json" => dacOn = "json" /\ playing' = playing
  <2>1. CASE Lines!Rst
    BY <2>1 DEF Lines!Rst
  <2>2. CASE Lines!OutputOn
    BY <1>4, <2>2 DEF Lines!OutputOn, Lines!OutputStart, ScpiInv, OutTypes, PoolTypes
  <2>3. CASE Lines!OutputOff
    BY <2>3 DEF Lines!OutputOff, ScpiInv, OutTypes
  <2> QED BY <2>1, <2>2, <2>3
<1>6. OutTypes' /\ Lines!JsonTraceOwn'  BY <1>1, <1>5 DEF ScpiInv, OutTypes, Lines!JsonTraceOwn
<1> QED BY <1>2, <1>3, <1>6 DEF ScpiInv

\* READ?, MEASure? and TRACe:DATA fill the pool.
LEMMA FillLinesKeep == ASSUME ScpiInv, Lines!Read \/ Lines!Measure \/ Lines!TraceData PROVE ScpiInv'
<1> USE ScpiConstants DEF Lines!scTrace, Lines!scDac, Lines!scWorld, Lines!scConn
<1>1. Lines!Line /\ UNCHANGED <<src, json, gateBy, board, limits, jsons, ring, open>>
  BY DEF Lines!Read, Lines!Measure, Lines!TraceData
<1>2. \/ \E n \in 0 .. Cells + 1 : reply' = [Lines!NoReply EXCEPT !.left = n, !.whole = n] /\ errs' \in 0 .. ErrQueue
      \/ Lines!ErrorPush \/ Lines!Silent
  <2>1. errs \in 0 .. ErrQueue  BY DEF ScpiInv, ReplyTypes
  <2>2. \A n \in Lines!Pool : n \in 0 .. Cells + 1  BY DEF Lines!Pool
  <2>3. (\E n \in Lines!Pool : Lines!Answer(n)) \/ Lines!ErrorPush \/ Lines!Silent
    BY DEF Lines!Read, Lines!Measure, Lines!TraceData
  <2> QED BY <2>1, <2>2, <2>3 DEF Lines!Answer
<1>3. ReplyTypes' /\ ReplyCounted'  BY <1>1, <1>2, LineReplies
<1>4. \/ Lines!Take /\ cells' \in [Lines!Pool -> {"none", "scpi", "json"}] /\ scpi_replay_bytes' \in 0 .. Cells
      \/ UNCHANGED <<scpi_trace_gen, scpi_replay_bytes, s_gen, cells>>
      \/ /\ Lines!Holds(scpi_trace_gen) /\ UNCHANGED <<scpi_trace_gen, s_gen>>
         /\ cells' \in [Lines!Pool -> {"none", "scpi", "json"}] /\ scpi_replay_bytes' \in 0 .. Cells
  <2>1. \A n \in Lines!Pool : n \in Nat /\ n \in 0 .. Cells  BY DEF Lines!Pool
  <2>2. CASE Lines!Read \/ Lines!Measure
    <3>1. \/ UNCHANGED <<scpi_trace_gen, scpi_replay_bytes, s_gen, cells>>
          \/ Lines!Take /\ \E n \in Lines!Pool : cells' = Lines!Written(1, n, "scpi") /\ scpi_replay_bytes' \in {0, n}
      BY <2>2 DEF Lines!Read, Lines!Measure
    <3> QED BY <2>1, <3>1, WrittenIs
  <2>3. CASE Lines!TraceData
    <3>1. \/ UNCHANGED <<scpi_trace_gen, scpi_replay_bytes, s_gen, cells>>
          \/ /\ IF Lines!Holds(scpi_trace_gen) THEN UNCHANGED <<scpi_trace_gen, s_gen>> ELSE Lines!Take
             /\ \E at \in 0 .. Cells - 1 : cells' = Lines!Written(at + 1, at + 1, "scpi") /\ scpi_replay_bytes' \in {at + 1, scpi_replay_bytes}
      BY <2>3 DEF Lines!TraceData
    <3>2. \A at \in 0 .. Cells - 1 : at + 1 \in Nat /\ at + 1 \in 0 .. Cells  OBVIOUS
    <3>3. scpi_replay_bytes \in 0 .. Cells  BY DEF ScpiInv, PoolTypes
    <3> QED BY <3>1, <3>2, <3>3, WrittenIs
  <2> QED BY <2>2, <2>3
<1>5. PoolTypes' /\ JsonKept'
  <2>1. CASE Lines!Take /\ cells' \in [Lines!Pool -> {"none", "scpi", "json"}] /\ scpi_replay_bytes' \in 0 .. Cells
    BY <1>1, <2>1, LineIs, PoolTaken
  <2>2. CASE UNCHANGED <<scpi_trace_gen, scpi_replay_bytes, s_gen, cells>>
    BY <1>1, <2>2, LineIs, PoolKept
  <2>3. CASE /\ Lines!Holds(scpi_trace_gen) /\ UNCHANGED <<scpi_trace_gen, s_gen>>
             /\ cells' \in [Lines!Pool -> {"none", "scpi", "json"}] /\ scpi_replay_bytes' \in 0 .. Cells
    <3>1. json.gen # s_gen  BY <2>3 DEF Lines!Holds, ScpiInv, JsonKept
    <3>2. JsonKept'  BY <1>1, <2>3, <3>1 DEF ScpiInv, JsonKept
    <3>3. lines' \in 0 .. MaxLines /\ s_gen' \in 0 .. lines' + jsons'
      BY <1>1, <2>3, LineIs DEF ScpiInv, PoolTypes
    <3>4. PoolTypes'  BY <1>1, <2>3, <3>3 DEF ScpiInv, PoolTypes
    <3> QED BY <3>2, <3>4
  <2> QED BY <1>4, <2>1, <2>2, <2>3
<1>6. OutTypes' /\ Lines!JsonTraceOwn'
  <2>1. \/ UNCHANGED <<dacOn, playing>> \/ (dacOn' = "off" /\ playing' = {})
    BY DEF Lines!Read, Lines!Measure, Lines!TraceData
  <2>2. output_on' \in BOOLEAN
    BY DEF Lines!Read, Lines!Measure, Lines!TraceData, ScpiInv, OutTypes
  <2> QED BY <1>1, <2>1, <2>2 DEF ScpiInv, OutTypes, Lines!JsonTraceOwn
<1> QED BY <1>3, <1>5, <1>6 DEF ScpiInv

\* cb_write and send_paced: what is batched and sent is taken from what is left.
LEMMA PacingKeeps == ASSUME ScpiInv, Lines!Pacing PROVE ScpiInv'
<1> USE ScpiConstants DEF Lines!scTrace, Lines!scDac, Lines!scWorld
<1>1. UNCHANGED <<src, output_on, scpi_trace_gen, scpi_replay_bytes, s_gen, cells, json, dacOn, playing, gateBy, board,
                  limits, errs, lines, jsons>>
  BY DEF Lines!Pacing, Lines!Batch, Lines!SendSome, Lines!Wait, Lines!SendStalls
<1>2. PoolTypes' /\ JsonKept' /\ OutTypes' /\ Lines!JsonTraceOwn'
  <2>1. PoolTypes'  BY <1>1 DEF ScpiInv, PoolTypes
  <2> QED BY <1>1, <2>1 DEF ScpiInv, OutTypes, JsonKept, Lines!JsonTraceOwn
<1>3. /\ reply.left \in 0 .. Cells + 1 /\ reply.buf \in 0 .. RespBuf /\ reply.sent \in Nat /\ reply.whole \in Nat
      /\ reply.waited \in 0 .. Stall /\ reply.torn \in BOOLEAN
      /\ reply = [left |-> reply.left, buf |-> reply.buf, sent |-> reply.sent, whole |-> reply.whole, waited |-> reply.waited,
                  torn |-> reply.torn]
      /\ ring \in 0 .. Ring /\ open \in BOOLEAN /\ errs' \in 0 .. ErrQueue
  BY <1>1 DEF ScpiInv, ReplyTypes
<1>4. CASE Lines!Batch
  <2>1. PICK n \in 1 .. RespBuf : /\ n <= reply.left /\ n <= RespBuf - reply.buf
                                  /\ reply' = [reply EXCEPT !.left = @ - n, !.buf = @ + n, !.waited = 0]
    BY <1>4 DEF Lines!Batch
  <2>2. reply' = [left |-> reply.left - n, buf |-> reply.buf + n, sent |-> reply.sent, whole |-> reply.whole, waited |-> 0,
                  torn |-> reply.torn]
    BY <1>3, <2>1
  <2>3. reply.left - n \in 0 .. Cells + 1 /\ reply.buf + n \in 0 .. RespBuf  BY <1>3, <2>1
  <2>4. ReplyTypes'  BY <1>3, <1>4, <2>2, <2>3 DEF ReplyTypes, Lines!Batch
  <2>5. reply'.left + reply'.buf + reply'.sent = reply.left + reply.buf + reply.sent /\ reply'.whole = reply.whole /\ open' = open
    BY <1>3, <1>4, <2>1, <2>2 DEF Lines!Batch
  <2> QED BY <1>2, <2>4, <2>5 DEF ScpiInv, ReplyCounted
<1>5. CASE Lines!SendSome
  <2> DEFINE n == Lines!Lesser(reply.buf, Lines!Avail)
  <2>1. /\ n \in 0 .. reply.buf /\ ring + n \in 0 .. Ring
    BY <1>3, <1>5 DEF Lines!SendSome, Lines!Lesser, Lines!Avail
  <2>2. ring' = ring + n /\ reply' = [reply EXCEPT !.buf = @ - n, !.sent = @ + n, !.waited = 0] /\ open' = open
    BY <1>5 DEF Lines!SendSome
  <2> HIDE DEF n
  <2>3. reply' = [left |-> reply.left, buf |-> reply.buf - n, sent |-> reply.sent + n, whole |-> reply.whole, waited |-> 0,
                  torn |-> reply.torn]
    BY <1>3, <2>2
  <2>4. reply.buf - n \in 0 .. RespBuf /\ reply.sent + n \in Nat  BY <1>3, <2>1
  <2>5. ReplyTypes'  BY <1>3, <2>1, <2>2, <2>3, <2>4 DEF ReplyTypes
  <2>6. reply'.left + reply'.buf + reply'.sent = reply.left + reply.buf + reply.sent /\ reply'.whole = reply.whole
    BY <1>3, <2>1, <2>3
  <2> QED BY <1>2, <2>2, <2>5, <2>6 DEF ScpiInv, ReplyCounted
<1>6. CASE Lines!Wait
  <2>1. reply.waited + 1 \in 0 .. Stall /\ reply' = [reply EXCEPT !.waited = @ + 1] /\ UNCHANGED <<ring, open>>
    BY <1>3, <1>6 DEF Lines!Wait, Lines!WaitMs
  <2>2. reply' = [left |-> reply.left, buf |-> reply.buf, sent |-> reply.sent, whole |-> reply.whole, waited |-> reply.waited + 1,
                  torn |-> reply.torn]
    BY <1>3, <2>1
  <2>3. ReplyTypes'  BY <1>3, <2>1, <2>2 DEF ReplyTypes
  <2>4. reply'.left = reply.left /\ reply'.buf = reply.buf /\ reply'.sent = reply.sent /\ reply'.whole = reply.whole
    BY <2>2
  <2> QED BY <1>2, <2>1, <2>3, <2>4 DEF ScpiInv, ReplyCounted
<1>7. CASE Lines!SendStalls
  <2>1. open' = FALSE /\ reply' = Lines!NoReply /\ UNCHANGED ring
    BY <1>7 DEF Lines!SendStalls, Lines!Abort
  <2>2. Lines!NoReply \in [left : 0 .. Cells + 1, buf : 0 .. RespBuf, sent : Nat, whole : Nat, waited : 0 .. Stall, torn : BOOLEAN]
    BY DEF Lines!NoReply
  <2>3. ReplyTypes'  BY <1>3, <2>1, <2>2 DEF ReplyTypes
  <2> QED BY <1>2, <2>1, <2>3 DEF ScpiInv, ReplyCounted
<1> QED BY <1>4, <1>5, <1>6, <1>7 DEF Lines!Pacing

\* The net task and the peer: a connection that is new has no reply.
LEMMA PeerKeeps == ASSUME ScpiInv, Lines!NetDrains \/ Lines!PeerGone \/ Lines!PeerConnects PROVE ScpiInv'
<1> USE ScpiConstants DEF Lines!scTrace, Lines!scDac, Lines!scWorld
<1>1. UNCHANGED <<src, output_on, scpi_trace_gen, scpi_replay_bytes, s_gen, cells, json, dacOn, playing, gateBy, board,
                  limits, errs, lines, jsons>>
  BY DEF Lines!NetDrains, Lines!PeerGone, Lines!PeerConnects
<1>2. PoolTypes' /\ JsonKept' /\ OutTypes' /\ Lines!JsonTraceOwn'
  <2>1. PoolTypes'  BY <1>1 DEF ScpiInv, PoolTypes
  <2> QED BY <1>1, <2>1 DEF ScpiInv, OutTypes, JsonKept, Lines!JsonTraceOwn
<1>3. ring' \in 0 .. Ring /\ open' \in BOOLEAN
  <2>1. \A n \in 0 .. ring - 1 : n \in 0 .. Ring  BY DEF ScpiInv, ReplyTypes
  <2>2. open \in BOOLEAN /\ ring \in 0 .. Ring /\ 0 \in 0 .. Ring  BY DEF ScpiInv, ReplyTypes
  <2>3. ring' \in 0 .. Ring
    BY <2>1, <2>2 DEF Lines!NetDrains, Lines!PeerGone, Lines!PeerConnects
  <2>4. open' \in BOOLEAN  BY <2>2 DEF Lines!NetDrains, Lines!PeerGone, Lines!PeerConnects
  <2> QED BY <2>3, <2>4
<1>4. reply' = Lines!NoReply \/ (reply' = reply /\ (open' => open))
  BY DEF Lines!NetDrains, Lines!PeerGone, Lines!PeerConnects
<1>5. CASE reply' = Lines!NoReply
  <2>3. Lines!NoReply \in [left : 0 .. Cells + 1, buf : 0 .. RespBuf, sent : Nat, whole : Nat, waited : 0 .. Stall, torn : BOOLEAN]
    BY DEF Lines!NoReply
  <2>1. ReplyTypes'  BY <1>1, <1>3, <1>5, <2>3 DEF ScpiInv, ReplyTypes
  <2>2. reply'.left = 0 /\ reply'.buf = 0 /\ reply'.sent = 0 /\ reply'.whole = 0
    BY <1>5 DEF Lines!NoReply
  <2> QED BY <1>2, <2>1, <2>2 DEF ScpiInv, ReplyCounted
<1>6. CASE reply' = reply /\ (open' => open)
  BY <1>1, <1>2, <1>3, <1>6 DEF ScpiInv, ReplyTypes, ReplyCounted
<1> QED BY <1>4, <1>5, <1>6

\* JSON commands between two lines: what one fills is its own until the next generation is taken.
LEMMA JsonKeeps ==
    ASSUME ScpiInv, Lines!JsonFills \/ Lines!JsonJobEnds \/ Lines!JsonReplay \/ Lines!JsonLimits
    PROVE  ScpiInv'
<1> USE ScpiConstants DEF Lines!scTrace, Lines!scDac, Lines!scWorld, Lines!scConn
<1>1. UNCHANGED <<src, output_on, errs, reply, ring, open, lines>>
  BY DEF Lines!JsonFills, Lines!JsonJobEnds, Lines!JsonReplay, Lines!JsonLimits
<1>2. ReplyTypes' /\ ReplyCounted'  BY <1>1 DEF ScpiInv, ReplyTypes, ReplyCounted
<1>3. CASE Lines!JsonFills
  <2>1. PICK n \in Lines!Pool : cells' = Lines!Written(1, n, "json") /\ json' = [gen |-> s_gen + 1, len |-> n]
    BY <1>3 DEF Lines!JsonFills
  <2>2. /\ s_gen' = s_gen + 1 /\ jsons < MaxJson /\ jsons' = jsons + 1 /\ gateBy' \in {"free", "json"}
        /\ UNCHANGED <<scpi_trace_gen, scpi_replay_bytes, dacOn, playing, board, limits>>
    BY <1>3 DEF Lines!JsonFills, Lines!Json
  <2>3. n \in Nat /\ n \in 0 .. Cells /\ s_gen \in Nat /\ scpi_trace_gen \in 0 .. s_gen
    BY DEF Lines!Pool, ScpiInv, PoolTypes
  <2>4. cells' \in [Lines!Pool -> {"none", "scpi", "json"}] /\ \A c \in Lines!Pool : c \in 1 .. n => cells'[c] = "json"
    BY <2>1, <2>3, WrittenIs
  <2>5. s_gen' \in 0 .. lines' + jsons' /\ jsons' \in 0 .. MaxJson
    BY <1>1, <2>2 DEF ScpiInv, PoolTypes
  <2>6. json'.gen = s_gen' /\ json'.len = n /\ scpi_trace_gen # s_gen' /\ scpi_trace_gen \in 0 .. s_gen'
    BY <2>1, <2>2, <2>3
  <2>7. json' \in [gen : 0 .. s_gen', len : 0 .. Cells]  BY <2>1, <2>2, <2>3
  <2>8. PoolTypes'  BY <1>1, <2>2, <2>4, <2>5, <2>6, <2>7 DEF ScpiInv, PoolTypes
  <2>9. JsonKept'
    <3>1. \A c \in 1 .. n : c \in Lines!Pool  BY <2>3 DEF Lines!Pool
    <3> QED BY <2>2, <2>4, <2>6, <3>1 DEF JsonKept
  <2>10. OutTypes' /\ Lines!JsonTraceOwn'
    BY <1>1, <2>2 DEF ScpiInv, OutTypes, Lines!JsonTraceOwn
  <2> QED BY <1>2, <2>8, <2>9, <2>10 DEF ScpiInv
<1>4. CASE Lines!JsonJobEnds \/ Lines!JsonReplay \/ Lines!JsonLimits
  <2>1. /\ UNCHANGED <<s_gen, json, cells, scpi_trace_gen, scpi_replay_bytes, board>>
        /\ jsons' \in jsons .. MaxJson /\ lines' \in lines .. MaxLines
        /\ gateBy' \in {gateBy, "free"} /\ limits' \in {limits, ~limits}
    BY <1>1, <1>4 DEF Lines!JsonJobEnds, Lines!JsonReplay, Lines!JsonLimits, Lines!Json, ScpiInv, PoolTypes
  <2>2. scpi_replay_bytes' \in 0 .. Cells  BY <2>1 DEF ScpiInv, PoolTypes
  <2>3. PoolTypes' /\ JsonKept'  BY <2>1, <2>2, PoolKept
  <2>4. \/ UNCHANGED <<dacOn, playing>> \/ (dacOn' = "off" /\ playing' = {})
        \/ dacOn' = "json" /\ playing' = {"json"}
    <3>1. CASE Lines!JsonReplay
      <4>1. json.gen = s_gen /\ s_gen # 0 /\ json.len > 0 /\ dacOn' = "json" /\ playing' = {cells[c] : c \in 1 .. json.len}
        BY <3>1 DEF Lines!JsonReplay, Lines!Holds
      <4>2. json.len \in Nat /\ 1 \in 1 .. json.len  BY <4>1 DEF ScpiInv, PoolTypes
      <4>3. json.gen = s_gen /\ s_gen # 0  BY <4>1
      <4>4. \A c \in 1 .. json.len : cells[c] = "json"  BY <4>3 DEF ScpiInv, JsonKept
      <4>5. "json" \in {cells[c] : c \in 1 .. json.len}  BY <4>2, <4>4
      <4>6. \A w \in {cells[c] : c \in 1 .. json.len} : w = "json"  BY <4>4
      <4>7. {cells[c] : c \in 1 .. json.len} = {"json"}  BY <4>5, <4>6
      <4> QED BY <4>1, <4>7
    <3> QED BY <1>4, <3>1 DEF Lines!JsonJobEnds, Lines!JsonLimits
  <2>5. OutTypes' /\ Lines!JsonTraceOwn'
    BY <1>1, <2>1, <2>4 DEF ScpiInv, OutTypes, Lines!JsonTraceOwn
  <2> QED BY <1>2, <2>3, <2>5 DEF ScpiInv
<1> QED BY <1>3, <1>4

\* Every step of the SCPI server keeps the invariant.
LEMMA ScpiInvStep == ScpiInv /\ [Lines!Next]_scpiVars => ScpiInv'
<1>1. ASSUME ScpiInv, UNCHANGED scpiVars PROVE ScpiInv'
  <2>1. ReplyTypes' /\ PoolTypes' /\ OutTypes'
    BY <1>1 DEF scpiVars, ScpiInv, ReplyTypes, PoolTypes, OutTypes
  <2> QED BY <1>1, <2>1 DEF scpiVars, ScpiInv, JsonKept, ReplyCounted, Lines!JsonTraceOwn
<1> QED BY <1>1, PlainLinesKeep, OutputLinesKeep, FillLinesKeep, PacingKeeps, PeerKeeps, JsonKeeps DEF Lines!Next, Lines!ScpiLine

\* The first line finds the pool empty.
LEMMA ScpiInitially == Lines!Init => ScpiInv
<1> SUFFICES ASSUME Lines!Init PROVE ScpiInv
  OBVIOUS
<1> USE ScpiConstants DEF Lines!Init
<1>1. ReplyTypes  BY DEF ReplyTypes, Lines!NoReply
<1>2. PoolTypes  BY DEF PoolTypes
<1>3. OutTypes  BY DEF OutTypes
<1>4. JsonKept /\ ReplyCounted /\ Lines!JsonTraceOwn
  BY DEF JsonKept, ReplyCounted, Lines!JsonTraceOwn, Lines!NoReply
<1> QED BY <1>1, <1>2, <1>3, <1>4 DEF ScpiInv

\* A reply that is done on an open connection was sent whole.
LEMMA ScpiReplyWhole == ScpiInv => Lines!ReplyWhole
<1> SUFFICES ASSUME ScpiInv, ~Lines!Busy, open PROVE reply.sent = reply.whole
  BY DEF Lines!ReplyWhole
<1>1. reply.left \in Nat /\ reply.buf \in Nat /\ reply.sent \in Nat /\ reply.whole \in Nat
  BY DEF ScpiInv, ReplyTypes
<1> QED BY <1>1 DEF ScpiInv, ReplyCounted, Lines!Busy

\* The types, as the module states them.
LEMMA ScpiTypeOK == ScpiInv => Lines!TypeOK
<1> SUFFICES ASSUME ScpiInv PROVE Lines!TypeOK
  OBVIOUS
<1>1. scpi_trace_gen \in 0 .. MaxLines + MaxJson /\ s_gen \in 0 .. MaxLines + MaxJson /\ json.gen \in 0 .. MaxLines + MaxJson
  BY ScpiConstants DEF ScpiInv, PoolTypes
<1>2. json.len \in 0 .. Cells  BY DEF ScpiInv, PoolTypes
<1> QED BY <1>1, <1>2 DEF ScpiInv, ReplyTypes, PoolTypes, OutTypes, Lines!TypeOK
--------------------------------------------------------------------------------
(***************************************************************************)
(* Proofs: the gateware and its loading, for any number of faults, resets   *)
(* and operations.                                                          *)
(***************************************************************************)
\* The types of what runs and of what it is loaded from.
ImageTypes ==
    /\ stage \in {"off", "test", "reload", "rewrite", "update", "load", "idle", "writing",
                  "retrying", "restoring", "rewedged"}
    /\ job \in [why : Image!BootJobs \cup Image!SwapJobs \cup {"none", "console"}, img : {0, 1}]
    /\ flash \in Image!Gateware \cup {Image!None} /\ gw \in Image!Gateware \cup {Image!None}
    /\ slots \in [{0, 1} -> Image!SlotStates] /\ sick \in {"ok", "hung", "broken"}
    /\ wear \in Nat /\ fFaults \in 0 .. MaxFaults /\ fOps \in 0 .. MaxImageOps /\ resets \in 0 .. MaxResets

\* Of what the firmware knows of it, and of captures.
KnownTypes ==
    /\ fabBase \in Image!Bases /\ s_adc_cap_base \in Image!Bases /\ psmode \in {"spi", "qpi"}
    /\ s_fpga_version \in {0, Old, New} /\ s_spi_div \in {64, 128}
    /\ s_psram_selftest_rc \in {"not run", "ok", "stm32", "write", "reach"}
    /\ fcap \in {"idle", "armed", "done", "la"} /\ mem \in [Image!Bases -> Nat] /\ capno \in Nat /\ result \in Nat
    /\ reader \in BOOLEAN /\ toldGw \in Image!Gateware \cup {Image!None} /\ resendCaps \in BOOLEAN

\* After the boot's first test, and its reload, the mirror of the base is the fabric's; a write alone leaves the PSRAM
\* in SPI.
BasesInv ==
    /\ stage \notin {"off", "test", "reload"} => s_adc_cap_base = fabBase
    /\ stage \in {"off", "test"} => s_adc_cap_base = "fixed" /\ (gw = Image!None => fabBase = "fixed")
    /\ stage \notin {"off", "writing"} => psmode = "qpi"

\* An unconfigured fabric neither captures nor reads, and none does while the worker boots or writes; a region that is
\* being captured into holds the mark or this capture, and so does what was read back.
RegionsInv ==
    /\ gw = Image!None \/ stage \notin {"off", "idle"} => fcap = "idle" /\ ~reader
    /\ stage = "idle" /\ fcap \in {"armed", "done"} => mem[s_adc_cap_base] \in {0, capno}
    /\ result \in {0, capno}

\* What is written is a good slot for a job that is named; a swap tries again, and an idle pod with a good slot 0 is
\* unconfigured, only after a fault.
WritesInv ==
    /\ stage \in {"writing", "retrying"} => Image!SlotGood(job.img)
    /\ stage = "writing" => job.why # "none"
    /\ stage \in {"test", "reload", "rewrite", "update", "load"} => job.why \in {"boot", "install"}
    /\ stage = "rewedged" => Image!SlotGood(0)
    /\ stage \in {"retrying", "restoring"} => fFaults # 0
    /\ stage = "reload" => gw # Image!None
    /\ stage \in {"reload", "rewrite"} => s_psram_selftest_rc = "write"
    /\ stage = "idle" /\ slots[0] = New /\ fFaults = 0 => gw # Image!None

\* Since a boot wrote the flash it has held a slot's image, no other runs or was heard of, and the boot it is in needs
\* no reload for that image to run.
WearInv ==
    wear = 0 \/ /\ wear = 1 /\ gw \in {Image!None, flash} /\ s_fpga_version \in {0, flash.ver}
                /\ \E n \in {0, 1} : flash = Image!Image(n) /\ Image!SlotGood(n)
                /\ stage \in {"off", "test", "reload", "rewrite", "update", "load", "idle"}
                /\ stage \in {"off", "test", "reload", "update", "load"} => gw # Image!None

\* The fabric runs what the flash holds, or the flash lost it; the rate follows the version, and one fault does not part
\* the version from what runs, nor from what a boot's reload brings up.
VersionInv ==
    /\ gw # Image!None => flash \in {Image!None, gw}
    /\ stage = "off" => s_fpga_version = 0
    /\ s_spi_div = 64 => s_fpga_version = New
    /\ fFaults = 0 /\ gw = Image!None => flash = Image!None
    /\ fFaults < 2 /\ gw # Image!None /\ s_fpga_version # 0 => s_fpga_version = gw.ver
    /\ fFaults < 2 /\ stage = "rewrite" /\ flash # Image!None /\ s_fpga_version # 0 => s_fpga_version = flash.ver

\* The inductive invariant of the gateware and its loading.
ImageInv == ImageTypes /\ KnownTypes /\ BasesInv /\ RegionsInv /\ WritesInv /\ WearInv /\ VersionInv

\* What the module states of its bounds.
LEMMA ImageConstants ==
    /\ Old \in Nat /\ Old # 0 /\ New \in Nat /\ New # 0 /\ Old < New /\ Old # New
    /\ MaxFaults \in Nat /\ MaxImageOps \in Nat /\ MaxResets \in Nat
    /\ 0 \in 0 .. MaxFaults /\ 0 \in 0 .. MaxImageOps /\ 0 \in 0 .. MaxResets
  BY Assumptions DEF Image!ConstantsOK

\* An image has one of the versions; none has neither.
LEMMA Images ==
    /\ Image!None.ver = 0 /\ Image!None.img = 0
    /\ \A g \in Image!Gateware : g # Image!None /\ g.ver \in {Old, New} /\ g.ver # 0 /\ g.img \in {0, 1}
    /\ \A n \in {0, 1} : Image!SlotGood(n) =>
          /\ Image!Image(n) \in Image!Gateware /\ Image!Image(n).img = n /\ Image!Image(n).ver = slots[n]
          /\ slots[n] # Image!Empty
  BY ImageConstants DEF Image!None, Image!Gateware, Image!SlotGood, Image!Image, Image!Empty

\* The self-test: on a PSRAM in QPI it finds a fault that a reload may clear, no fabric, or bases that agree.
LEMMA Tested ==
    ASSUME NEW g, NEW s, NEW fb, NEW mb, NEW pm
    PROVE  LET r == Image!SelfTest(g, s, fb, mb, pm)
           IN  /\ r \in {"ok", "stm32", "write", "reach"}
               /\ r = "write" => g # Image!None
               /\ pm = "qpi" => r = "write" \/ g = Image!None \/ fb = mb
  BY DEF Image!SelfTest, Image!RampReturns, Image!Reaches

\* A ping of the fabric: an answer gives its version and the rate of that version.
LEMMA Pinged ==
    ASSUME ImageInv, NEW g \in Image!Gateware \cup {Image!None}, Image!Ping(g)
    PROVE  /\ s_fpga_version' \in {0, Old, New} /\ s_spi_div' \in {64, 128}
           /\ s_spi_div' = 64 => s_fpga_version' = New
           /\ g # Image!None => s_fpga_version' = g.ver
           /\ g = Image!None => s_fpga_version' = s_fpga_version
<1>1. g # Image!None => g.ver \in {Old, New}  BY Images
<1>2. s_fpga_version \in {0, Old, New}  BY DEF ImageInv, KnownTypes
<1> QED BY <1>1, <1>2 DEF Image!Ping, Image!DivFor

\* A reload brings up what the flash holds, or is a fault.
LEMMA Booted ==
    ASSUME ImageInv, NEW rc \in BOOLEAN, Image!FlashBoot(rc)
    PROVE  /\ gw' \in {flash, Image!None} /\ sick' \in {"ok", "hung", "broken"}
           /\ fabBase' = "fixed" /\ fcap' = "idle" /\ UNCHANGED <<mem, capno, result>>
           /\ fFaults' \in 0 .. MaxFaults
           /\ rc => gw' = flash /\ flash # Image!None
           /\ \/ fFaults' = fFaults /\ gw' = flash /\ rc = (flash # Image!None)
              \/ fFaults' = fFaults + 1 /\ ~rc
<1>1. sick \in {"ok", "hung", "broken"} /\ fFaults \in 0 .. MaxFaults /\ fFaults \in Nat
  BY ImageConstants DEF ImageInv, ImageTypes
<1>2. CASE rc = (flash # Image!None) /\ Image!Boots(flash, TRUE) /\ UNCHANGED fFaults
  BY <1>1, <1>2 DEF Image!Boots
<1>3. CASE ~rc /\ Image!Fault /\ \E up \in BOOLEAN : Image!Boots(flash, up)
  <2>1. fFaults' = fFaults + 1 /\ fFaults' \in 0 .. MaxFaults
    BY <1>1, <1>3, ImageConstants DEF Image!Fault
  <2> QED BY <1>1, <1>3, <2>1 DEF Image!Boots, Image!HeldOff
<1> QED BY <1>2, <1>3 DEF Image!FlashBoot

\* A write begins: the flash and the fabric hold nothing until it ends.
LEMMA WriteStarts ==
    ASSUME ImageInv, NEW j \in [why : Image!BootJobs \cup Image!SwapJobs \cup {"console"}, img : {0, 1}],
           Image!StartWrite(j), Image!SlotGood(j.img), j.why \in Image!BootJobs => wear = 0, reader' = FALSE,
           UNCHANGED <<slots, s_fpga_version, s_spi_div, s_psram_selftest_rc, toldGw, resendCaps, fFaults, resets>>,
           fOps' \in 0 .. MaxImageOps, stage \notin {"off", "test", "reload"}
    PROVE  ImageInv'
<1> USE ImageConstants
<1>1. /\ psmode' = "spi" /\ stage' = "writing" /\ job' = j /\ flash' = Image!None /\ gw' = Image!None /\ fcap' = "idle"
      /\ wear' = 0 /\ UNCHANGED <<mem, capno, result, sick, fabBase, s_adc_cap_base>>
  BY DEF Image!StartWrite, Image!PsramToSpi
<1>2. slots'[job'.img] \in {Old, New} /\ job'.why # "none"
  BY <1>1 DEF Image!SlotGood, Image!BootJobs, Image!SwapJobs
<1>3. ImageTypes'  BY <1>1 DEF ImageInv, ImageTypes
<1>4. KnownTypes'  BY <1>1 DEF ImageInv, KnownTypes
<1>5. BasesInv'  BY <1>1 DEF ImageInv, BasesInv
<1>6. RegionsInv' /\ WearInv'  BY <1>1 DEF ImageInv, RegionsInv, WearInv
<1>8. WritesInv'  BY <1>1, <1>2 DEF WritesInv, Image!SlotGood
<1>7. VersionInv'  BY <1>1 DEF ImageInv, VersionInv
<1> QED BY <1>3, <1>4, <1>5, <1>6, <1>7, <1>8 DEF ImageInv

\* A reset: a fabric that was held boots from the flash, the firmware knows nothing of it.
LEMMA FabricResetKeeps == ASSUME ImageInv, Image!Reset PROVE ImageInv'
<1> USE ImageConstants
<1>1. /\ stage' = "off" /\ job' = Image!NoJob /\ gw' = (IF gw = Image!None THEN flash ELSE gw)
      /\ s_adc_cap_base' = "fixed" /\ s_fpga_version' = 0 /\ s_spi_div' = 128 /\ s_psram_selftest_rc' = "not run"
      /\ result' = 0 /\ fabBase' = (IF gw = Image!None THEN "fixed" ELSE fabBase)
      /\ toldGw' = Image!None /\ resendCaps' = FALSE
      /\ UNCHANGED <<psmode, flash, slots, sick, fcap, mem, capno, reader, wear, fFaults, fOps>>
  BY DEF Image!Reset
<1>2. resets' \in 0 .. MaxResets
  <2>1. resets \in 0 .. MaxResets  BY DEF ImageInv, ImageTypes
  <2>2. resets < MaxResets /\ resets' = resets + 1  BY DEF Image!Reset
  <2> QED BY <2>1, <2>2
<1>3. ImageTypes'  BY <1>1, <1>2 DEF ImageInv, ImageTypes, Image!NoJob
<1>4. KnownTypes'  BY <1>1 DEF ImageInv, KnownTypes, Image!Bases
<1>5. BasesInv' /\ RegionsInv'  BY <1>1 DEF ImageInv, BasesInv, RegionsInv
<1>6. WritesInv'  BY <1>1 DEF WritesInv
<1>7. WearInv'
  <2>1. CASE wear = 0
    BY <1>1, <2>1 DEF WearInv
  <2>2. CASE wear # 0
    <3>1. PICK n \in {0, 1} : flash = Image!Image(n) /\ Image!SlotGood(n)
      BY <2>2 DEF ImageInv, WearInv
    <3>2. flash # Image!None  BY <3>1, Images
    <3>3. Image!Image(n)' = Image!Image(n) /\ Image!SlotGood(n)' = Image!SlotGood(n)
      BY <1>1 DEF Image!Image, Image!SlotGood
    <3> QED BY <1>1, <2>2, <3>1, <3>2, <3>3 DEF ImageInv, WearInv
  <2> QED BY <2>1, <2>2
<1>8. VersionInv'
  <2>1. gw' # Image!None => flash' \in {Image!None, gw'}  BY <1>1 DEF ImageInv, VersionInv
  <2>2. gw' = Image!None => flash' = Image!None  BY <1>1 DEF ImageInv, VersionInv
  <2>3. stage' = "off" /\ s_fpga_version' = 0 /\ s_spi_div' = 128  BY <1>1
  <2>4. stage' # "rewrite" /\ s_spi_div' # 64  BY <2>3
  <2> QED BY <2>1, <2>2, <2>3, <2>4 DEF VersionInv
<1> QED BY <1>3, <1>4, <1>5, <1>6, <1>7, <1>8 DEF ImageInv

\* What the flash was written for: the slots, and with them the image, stay.
LEMMA WearKept ==
    ASSUME ImageInv, UNCHANGED <<wear, flash, slots>>,
           wear # 0 => /\ gw' \in {Image!None, flash} /\ s_fpga_version' \in {0, flash.ver}
                       /\ stage' \in {"off", "test", "reload", "rewrite", "update", "load", "idle"}
                       /\ stage' \in {"off", "test", "reload", "update", "load"} => gw' # Image!None
    PROVE  WearInv'
<1>1. \A n \in {0, 1} : Image!Image(n)' = Image!Image(n) /\ Image!SlotGood(n)' = Image!SlotGood(n)
  BY DEF Image!Image, Image!SlotGood
<1> QED BY <1>1 DEF ImageInv, WearInv

\* The boot's first look at the fabric: what a session left running stops.
LEMMA LookKeeps == ASSUME ImageInv, Image!SignalEngineInit PROVE ImageInv'
<1> USE ImageConstants
<1>1. /\ stage = "off" /\ stage' = "test" /\ job' = [why |-> "boot", img |-> 0] /\ Image!Ping(gw) /\ psmode' = "qpi"
      /\ IF gw = Image!None THEN UNCHANGED <<fcap, reader>> ELSE fcap' = "idle" /\ reader' = FALSE
      /\ UNCHANGED <<flash, slots, gw, sick, fabBase, s_adc_cap_base, s_psram_selftest_rc, mem, capno, result,
                     toldGw, resendCaps, wear, fFaults, fOps, resets>>
  BY DEF Image!SignalEngineInit, Image!FabricToIdle, Image!PsramInit
<1>2. gw \in Image!Gateware \cup {Image!None} /\ s_fpga_version = 0
  BY <1>1 DEF ImageInv, ImageTypes, VersionInv
<1>3. /\ s_fpga_version' \in {0, Old, New} /\ s_spi_div' \in {64, 128} /\ (s_spi_div' = 64 => s_fpga_version' = New)
      /\ (gw # Image!None => s_fpga_version' = gw.ver) /\ (gw = Image!None => s_fpga_version' = 0)
  BY <1>1, <1>2, Pinged
<1>4. fcap' = "idle" /\ ~reader'  BY <1>1 DEF ImageInv, RegionsInv
<1>5. ImageTypes'  BY <1>1 DEF ImageInv, ImageTypes, Image!BootJobs, Image!SwapJobs
<1>6. KnownTypes'  BY <1>1, <1>3, <1>4 DEF ImageInv, KnownTypes
<1>7. BasesInv' /\ RegionsInv'  BY <1>1, <1>4 DEF ImageInv, BasesInv, RegionsInv
<1>8. WritesInv'  BY <1>1 DEF WritesInv
<1>9. WearInv'
  <2>1. wear # 0 => gw \in {Image!None, flash} /\ gw # Image!None  BY <1>1 DEF ImageInv, WearInv
  <2> QED BY <1>1, <1>3, <2>1, WearKept
<1>10. VersionInv'  BY <1>1, <1>3 DEF ImageInv, VersionInv
<1> QED BY <1>5, <1>6, <1>7, <1>8, <1>9, <1>10 DEF ImageInv

\* The boot's first test.
LEMMA TestKeeps == ASSUME ImageInv, Image!BootTest PROVE ImageInv'
<1> USE ImageConstants
<1>1. /\ stage = "test" /\ s_psram_selftest_rc' = Image!SelfTest(gw, sick, fabBase, s_adc_cap_base, psmode)
      /\ stage' = (IF s_psram_selftest_rc' = "write" THEN "reload" ELSE "update")
      /\ UNCHANGED <<psmode, job, flash, slots, gw, sick, fabBase, s_adc_cap_base, s_fpga_version, s_spi_div, fcap, mem,
                     capno, result, reader, toldGw, resendCaps, wear, fFaults, fOps, resets>>
  BY DEF Image!BootTest
<1>2. psmode = "qpi" /\ s_adc_cap_base = "fixed" /\ (gw = Image!None => fabBase = "fixed")
  BY <1>1 DEF ImageInv, BasesInv
<1>3. /\ s_psram_selftest_rc' \in {"ok", "stm32", "write", "reach"}
      /\ s_psram_selftest_rc' = "write" => gw # Image!None
      /\ s_psram_selftest_rc' = "write" \/ gw = Image!None \/ fabBase = s_adc_cap_base
  BY <1>1, <1>2, Tested
<1>4. ImageTypes'  BY <1>1 DEF ImageInv, ImageTypes
<1>5. KnownTypes'  BY <1>1, <1>3 DEF ImageInv, KnownTypes
<1>6. BasesInv' /\ RegionsInv'  BY <1>1, <1>2, <1>3 DEF ImageInv, BasesInv, RegionsInv
<1>7. WritesInv'  BY <1>1, <1>3 DEF ImageInv, WritesInv
<1>8. WearInv'  BY <1>1, WearKept DEF ImageInv, WearInv
<1>9. VersionInv'  BY <1>1 DEF ImageInv, VersionInv
<1> QED BY <1>4, <1>5, <1>6, <1>7, <1>8, <1>9 DEF ImageInv

\* ... its reload of a fabric that cannot write.
LEMMA BootReloadKeeps == ASSUME ImageInv, Image!BootReload PROVE ImageInv'
<1> USE ImageConstants
<1>1. PICK rc \in BOOLEAN :
         /\ Image!Reload(rc)
         /\ IF rc THEN /\ Image!Refresh(gw')
                       /\ s_psram_selftest_rc' = Image!SelfTest(gw', sick', fabBase', s_adc_cap_base', psmode')
                  ELSE UNCHANGED <<s_fpga_version, s_spi_div, s_psram_selftest_rc>>
  BY DEF Image!BootReload
<1>2. /\ stage = "reload" /\ stage' = (IF s_psram_selftest_rc' = "write" THEN "rewrite" ELSE "update")
      /\ UNCHANGED <<job, flash, slots, reader, toldGw, resendCaps, wear, fOps, resets>>
  BY DEF Image!BootReload
<1>3. Image!FlashBoot(rc) /\ psmode' = "qpi" /\ s_adc_cap_base' = "fixed"
  BY <1>1 DEF Image!Reload, Image!PsramInit, Image!Resync
<1>4. /\ gw' \in {flash, Image!None} /\ sick' \in {"ok", "hung", "broken"}
      /\ fabBase' = "fixed" /\ fcap' = "idle" /\ UNCHANGED <<mem, capno, result>>
      /\ fFaults' \in 0 .. MaxFaults
      /\ rc => gw' = flash /\ flash # Image!None
      /\ \/ fFaults' = fFaults /\ gw' = flash /\ rc = (flash # Image!None)
         \/ fFaults' = fFaults + 1 /\ ~rc
  BY <1>3, Booted
<1>5. gw' \in Image!Gateware \cup {Image!None} /\ fFaults \in Nat
  BY <1>4 DEF ImageInv, ImageTypes
<1>6. gw # Image!None /\ s_psram_selftest_rc = "write" /\ ~reader /\ job.why \in {"boot", "install"}
  BY <1>2 DEF ImageInv, WritesInv, RegionsInv
<1>7. /\ s_fpga_version' \in {0, Old, New} /\ s_spi_div' \in {64, 128} /\ (s_spi_div' = 64 => s_fpga_version' = New)
      /\ rc => s_fpga_version' = flash.ver
      /\ ~rc => s_fpga_version' = s_fpga_version
  <2>1. CASE rc
    BY <1>1, <1>4, <1>5, <2>1, Pinged DEF Image!Refresh
  <2>2. CASE ~rc
    BY <1>1, <2>2 DEF ImageInv, KnownTypes, VersionInv
  <2> QED BY <2>1, <2>2
<1>8. /\ s_psram_selftest_rc' \in {"ok", "stm32", "write", "reach"}
      /\ s_psram_selftest_rc' # "write" => rc
  <2>1. CASE rc
    BY <1>1, <2>1, Tested
  <2> QED BY <1>1, <1>6, <2>1
<1>9. ImageTypes'  BY <1>2, <1>4, <1>5 DEF ImageInv, ImageTypes
<1>10. KnownTypes'  BY <1>2, <1>3, <1>4, <1>7, <1>8 DEF ImageInv, KnownTypes, Image!Bases
<1>11. BasesInv' /\ RegionsInv'  BY <1>2, <1>3, <1>4, <1>6 DEF ImageInv, BasesInv, RegionsInv
<1>12. WritesInv'  BY <1>2, <1>6 DEF WritesInv
<1>13. WearInv'  BY <1>2, <1>4, <1>7, <1>8, WearKept DEF ImageInv, WearInv
<1>14. VersionInv'
  <2>1. ~rc /\ fFaults' < 2 /\ flash # Image!None /\ s_fpga_version # 0 => s_fpga_version = flash.ver
    BY <1>4, <1>5, <1>6 DEF ImageInv, VersionInv
  <2>2. stage' # "off" /\ (gw' # Image!None => gw' = flash)  BY <1>2, <1>4
  <2>3. fFaults' = 0 /\ gw' = Image!None => flash = Image!None  BY <1>4, <1>5
  <2> QED BY <1>2, <1>7, <2>1, <2>2, <2>3 DEF VersionInv
<1> QED BY <1>9, <1>10, <1>11, <1>12, <1>13, <1>14 DEF ImageInv

\* ... its last resort, which comparing leaves with a reloaded fabric when there is no write.
LEMMA RewriteKeeps == ASSUME ImageInv, Image!BootRewrite PROVE ImageInv'
<1> USE ImageConstants
<1>1. /\ stage = "rewrite"
      /\ UNCHANGED <<slots, s_fpga_version, s_spi_div, s_psram_selftest_rc, reader, toldGw, resendCaps, fOps, resets>>
  BY DEF Image!BootRewrite
<1>2. job.why \in {"boot", "install"} /\ ~reader /\ fcap = "idle" /\ psmode = "qpi" /\ s_adc_cap_base = fabBase
      /\ reader \in BOOLEAN
  BY <1>1 DEF ImageInv, WritesInv, RegionsInv, BasesInv, KnownTypes
<1>3. CASE Image!Damaged /\ Image!SlotGood(0)
  <2>1. Image!StartWrite([why |-> "rewrite", img |-> 0]) /\ UNCHANGED fFaults
    BY <1>3 DEF Image!BootRewrite
  <2>2. wear = 0
    <3>1. SUFFICES ASSUME wear # 0 PROVE FALSE
      OBVIOUS
    <3>2. PICK n \in {0, 1} : flash = Image!Image(n) /\ Image!SlotGood(n)
      BY <3>1 DEF ImageInv, WearInv
    <3> QED BY <1>3, <3>2, Images DEF Image!Damaged, Image!Matches
  <2>3. fOps' \in 0 .. MaxImageOps  BY <1>1 DEF ImageInv, ImageTypes
  <2>4. [why |-> "rewrite", img |-> 0] \in [why : Image!BootJobs \cup Image!SwapJobs \cup {"console"}, img : {0, 1}]
    BY DEF Image!BootJobs
  <2> QED BY <1>1, <1>2, <1>3, <2>1, <2>2, <2>3, <2>4, WriteStarts
<1>4. CASE ~(Image!Damaged /\ Image!SlotGood(0))
  <2>1. /\ stage' = "update" /\ UNCHANGED <<job, flash, wear, fFaults>>
        /\ IF \A n \in {0, 1} : slots[n] = Image!Empty
           THEN UNCHANGED <<psmode, gw, sick, fabBase, s_adc_cap_base, fcap, mem, capno, result>>
           ELSE Image!PsramInit /\ Image!Resync /\ Image!Boots(flash, TRUE)
    BY <1>4 DEF Image!BootRewrite, Image!capture
  <2>2. /\ psmode' = "qpi" /\ s_adc_cap_base' = fabBase' /\ fabBase' \in Image!Bases /\ fcap' = "idle"
        /\ sick' \in {"ok", "hung", "broken"} /\ UNCHANGED <<mem, capno, result>>
        /\ gw' \in {gw, flash} /\ (gw' = gw \/ gw' = flash)
    BY <1>2, <2>1 DEF Image!PsramInit, Image!Resync, Image!Boots, Image!Bases, ImageInv, ImageTypes, KnownTypes
  <2>3. ImageTypes'  BY <1>1, <2>1, <2>2 DEF ImageInv, ImageTypes
  <2>4. KnownTypes'  BY <1>1, <2>2 DEF ImageInv, KnownTypes
  <2>5. BasesInv' /\ RegionsInv'  BY <1>1, <1>2, <2>1, <2>2 DEF ImageInv, BasesInv, RegionsInv
  <2>6. WritesInv'  BY <1>1, <1>2, <2>1 DEF WritesInv
  <2>7. WearInv'
    <3>1. ASSUME wear # 0 PROVE gw' = flash /\ flash # Image!None
      <4>1. PICK n \in {0, 1} : flash = Image!Image(n) /\ Image!SlotGood(n)
        BY <3>1 DEF ImageInv, WearInv
      <4> QED BY <2>1, <4>1, Images DEF Image!Boots
    <3> QED BY <1>1, <2>1, <3>1, WearKept DEF ImageInv, WearInv
  <2>8. VersionInv'
    <3>1. gw' # Image!None => flash \in {Image!None, gw'}  BY <2>2 DEF ImageInv, VersionInv
    <3>2. fFaults = 0 /\ gw' = Image!None => flash = Image!None
      BY <2>2 DEF ImageInv, VersionInv
    <3>3. fFaults < 2 /\ gw' # Image!None /\ s_fpga_version # 0 => s_fpga_version = gw'.ver
      BY <1>1, <2>2 DEF ImageInv, VersionInv
    <3> QED BY <1>1, <2>1, <3>1, <3>2, <3>3 DEF ImageInv, VersionInv
  <2> QED BY <2>3, <2>4, <2>5, <2>6, <2>7, <2>8 DEF ImageInv
<1> QED BY <1>3, <1>4

\* The update's reload of an unconfigured fabric.
LEMMA UpdateReloadKeeps == ASSUME ImageInv, Image!UpdateReload PROVE ImageInv'
<1> USE ImageConstants
<1>1. /\ stage = "update" /\ stage' = "load"
      /\ UNCHANGED <<job, flash, slots, toldGw, resendCaps, reader, wear, fOps, resets>>
  BY DEF Image!UpdateReload
<1>2. job.why \in {"boot", "install"} /\ ~reader /\ fcap = "idle" /\ psmode = "qpi" /\ s_adc_cap_base = fabBase
  BY <1>1 DEF ImageInv, WritesInv, RegionsInv, BasesInv
<1>3. CASE gw # Image!None
  <2>1. UNCHANGED <<psmode, gw, sick, fabBase, s_adc_cap_base, fcap, mem, capno, result, fFaults, s_fpga_version,
                    s_spi_div, s_psram_selftest_rc>>
    BY <1>3 DEF Image!UpdateReload, Image!capture, Image!NoRetest
  <2>2. ImageTypes'  BY <1>1, <2>1 DEF ImageInv, ImageTypes
  <2>3. KnownTypes'  BY <1>1, <2>1 DEF ImageInv, KnownTypes
  <2>4. BasesInv' /\ RegionsInv' /\ WritesInv'
    BY <1>1, <1>2, <2>1 DEF ImageInv, BasesInv, RegionsInv, WritesInv
  <2>5. WearInv'  BY <1>1, <1>3, <2>1, WearKept DEF ImageInv, WearInv
  <2>6. VersionInv'  BY <1>1, <2>1 DEF ImageInv, VersionInv
  <2> QED BY <2>2, <2>3, <2>4, <2>5, <2>6 DEF ImageInv
<1>4. CASE gw = Image!None
  <2>1. PICK rc \in BOOLEAN : Image!Reload(rc) /\ IF rc THEN Image!Retest ELSE Image!NoRetest
    BY <1>4 DEF Image!UpdateReload
  <2>2. Image!FlashBoot(rc) /\ psmode' = "qpi" /\ s_adc_cap_base' = "fixed"
    BY <2>1 DEF Image!Reload, Image!PsramInit, Image!Resync
  <2>3. /\ gw' \in {flash, Image!None} /\ sick' \in {"ok", "hung", "broken"}
        /\ fabBase' = "fixed" /\ fcap' = "idle" /\ UNCHANGED <<mem, capno, result>>
        /\ fFaults' \in 0 .. MaxFaults
        /\ rc => gw' = flash /\ flash # Image!None
        /\ \/ fFaults' = fFaults /\ gw' = flash /\ rc = (flash # Image!None)
           \/ fFaults' = fFaults + 1 /\ ~rc
    BY <2>2, Booted
  <2>4. gw' \in Image!Gateware \cup {Image!None} /\ fFaults \in Nat
    BY <2>3 DEF ImageInv, ImageTypes
  <2>5. /\ s_fpga_version' \in {0, Old, New} /\ s_spi_div' \in {64, 128} /\ (s_spi_div' = 64 => s_fpga_version' = New)
        /\ s_psram_selftest_rc' \in {"not run", "ok", "stm32", "write", "reach"}
        /\ rc => s_fpga_version' = flash.ver
        /\ ~rc => s_fpga_version' = s_fpga_version
    <3>1. CASE rc
      <4>1. s_psram_selftest_rc' \in {"ok", "stm32", "write", "reach"}
        BY <2>1, <3>1, Tested DEF Image!Retest
      <4> QED BY <2>1, <2>3, <2>4, <3>1, <4>1, Pinged DEF Image!Retest, Image!Refresh
    <3>2. CASE ~rc
      BY <2>1, <3>2 DEF Image!NoRetest, ImageInv, KnownTypes, VersionInv
    <3> QED BY <3>1, <3>2
  <2>6. ImageTypes'  BY <1>1, <2>3, <2>4 DEF ImageInv, ImageTypes
  <2>7. KnownTypes'  BY <1>1, <2>2, <2>3, <2>5 DEF ImageInv, KnownTypes, Image!Bases
  <2>8. BasesInv' /\ RegionsInv'  BY <1>1, <1>2, <2>2, <2>3 DEF ImageInv, BasesInv, RegionsInv
  <2>9. WritesInv'  BY <1>1, <1>2 DEF WritesInv
  <2>10. WearInv'  BY <1>1, <1>4, WearKept DEF ImageInv, WearInv
  <2>11. VersionInv'
    <3>1. ~rc /\ fFaults' < 2 => flash = Image!None
      BY <1>4, <2>3, <2>4 DEF ImageInv, VersionInv
    <3>2. gw' # Image!None => gw' = flash  BY <2>3
    <3>3. fFaults' = 0 /\ gw' = Image!None => flash = Image!None  BY <2>3, <2>4
    <3> QED BY <1>1, <2>5, <3>1, <3>2, <3>3 DEF VersionInv
  <2> QED BY <2>6, <2>7, <2>8, <2>9, <2>10, <2>11 DEF ImageInv
<1> QED BY <1>3, <1>4

\* ... and its write: no boot writes a second time what it wrote before.
LEMMA UpdateWriteKeeps == ASSUME ImageInv, Image!UpdateWrite PROVE ImageInv'
<1> USE ImageConstants
<1> DEFINE n == Image!ImageFor(s_fpga_version)
<1>1. /\ stage = "load"
      /\ UNCHANGED <<slots, toldGw, reader, fFaults, fOps, resets, s_fpga_version, s_spi_div, s_psram_selftest_rc>>
  BY DEF Image!UpdateWrite, Image!NoRetest
<1>2. job.why \in {"boot", "install"} /\ ~reader /\ fcap = "idle" /\ psmode = "qpi" /\ s_adc_cap_base = fabBase
      /\ reader \in BOOLEAN
  BY <1>1 DEF ImageInv, WritesInv, RegionsInv, BasesInv, KnownTypes
<1>3. n \in {0, 1, 2} /\ (gw = Image!None => n = 0) /\ (gw # Image!None /\ n # 2 => n = gw.img /\ s_fpga_version \notin {0, New})
  BY Images DEF ImageInv, ImageTypes, Image!ImageFor
<1>4. CASE n # 2 /\ slots[n] = New
  <2>1. Image!StartWrite([why |-> job.why, img |-> n]) /\ UNCHANGED resendCaps
    BY <1>4 DEF Image!UpdateWrite
  <2>2. wear = 0
    <3>1. SUFFICES ASSUME wear # 0 PROVE FALSE
      OBVIOUS
    <3>2. PICK m \in {0, 1} : flash = Image!Image(m) /\ Image!SlotGood(m)
      BY <3>1 DEF ImageInv, WearInv
    <3>3. gw = flash /\ gw # Image!None /\ s_fpga_version \in {0, flash.ver}
      BY <1>1, <3>1 DEF ImageInv, WearInv
    <3> QED BY <1>3, <1>4, <3>2, <3>3, Images
  <2>3. fOps' \in 0 .. MaxImageOps /\ Image!SlotGood(n)
    BY <1>1, <1>4 DEF ImageInv, ImageTypes, Image!SlotGood
  <2>4. [why |-> job.why, img |-> n] \in [why : Image!BootJobs \cup Image!SwapJobs \cup {"console"}, img : {0, 1}]
    BY <1>2, <1>3, <1>4 DEF Image!BootJobs
  <2> QED BY <1>1, <1>2, <2>1, <2>2, <2>3, <2>4, WriteStarts
<1>5. CASE ~(n # 2 /\ slots[n] = New)
  <2>1. /\ stage' = "idle" /\ job' = Image!NoJob /\ resendCaps' \in BOOLEAN
        /\ UNCHANGED <<flash, psmode, gw, sick, fabBase, s_adc_cap_base, fcap, mem, capno, result, wear>>
    BY <1>2, <1>5 DEF Image!UpdateWrite, Image!Done, Image!capture, ImageInv, KnownTypes
  <2>2. ImageTypes'  BY <1>1, <2>1 DEF ImageInv, ImageTypes, Image!NoJob
  <2>3. KnownTypes'  BY <1>1, <2>1 DEF ImageInv, KnownTypes
  <2>4. BasesInv' /\ RegionsInv'  BY <1>1, <1>2, <2>1 DEF ImageInv, BasesInv, RegionsInv
  <2>5. WritesInv'  BY <1>1, <1>3, <1>5, <2>1 DEF WritesInv
  <2>6. WearInv'  BY <1>1, <2>1, WearKept DEF ImageInv, WearInv
  <2>7. VersionInv'  BY <1>1, <2>1 DEF ImageInv, VersionInv
  <2> QED BY <2>2, <2>3, <2>4, <2>5, <2>6, <2>7 DEF ImageInv
<1> QED BY <1>4, <1>5

\* A write ends: well, with the slot's image in the flash and running, or as a fault, with the fabric held.
LEMMA WriteEnds ==
    ASSUME ImageInv, stage = "writing", NEW ok \in BOOLEAN, Image!FinishWrite(ok)
    PROVE  /\ psmode' = "qpi" /\ s_adc_cap_base' = "fixed" /\ fabBase' = "fixed" /\ fcap' = "idle"
           /\ sick' \in {"ok", "hung", "broken"} /\ UNCHANGED <<mem, capno, result>>
           /\ fFaults' \in 0 .. MaxFaults /\ flash' \in Image!Gateware \cup {Image!None}
           /\ ok => fFaults' = fFaults /\ flash' = Image!Image(job.img) /\ gw' = flash' /\ flash' # Image!None
           /\ ~ok => fFaults' = fFaults + 1 /\ gw' = Image!None /\ fFaults' # 0
<1> USE ImageConstants
<1>1. /\ sick \in {"ok", "hung", "broken"} /\ fFaults \in 0 .. MaxFaults /\ fFaults \in Nat
      /\ job.img \in {0, 1} /\ Image!SlotGood(job.img)
  BY DEF ImageInv, ImageTypes, WritesInv
<1>2. Image!Image(job.img) \in Image!Gateware /\ Image!Image(job.img) # Image!None
  BY <1>1, Images
<1>3. psmode' = "qpi" /\ s_adc_cap_base' = "fixed"
  BY DEF Image!FinishWrite, Image!PsramInit, Image!Resync
<1>4. CASE ok
  BY <1>1, <1>2, <1>3, <1>4 DEF Image!FinishWrite, Image!Boots
<1>5. CASE ~ok
  <2>1. /\ fFaults' = fFaults + 1 /\ fFaults' \in 0 .. MaxFaults /\ fFaults' # 0
    BY <1>1, <1>5 DEF Image!FinishWrite, Image!Fault
  <2>2. flash' \in {Image!None, Image!Image(job.img)}  BY <1>5 DEF Image!FinishWrite
  <2> QED BY <1>1, <1>2, <1>3, <1>5, <2>1, <2>2 DEF Image!FinishWrite, Image!Boots, Image!HeldOff
<1> QED BY <1>4, <1>5

\* A write that ended well, whatever it was for.
LEMMA WrittenKeeps == ASSUME ImageInv, Image!Written PROVE ImageInv'
<1> USE ImageConstants
<1>1. stage = "writing" /\ Image!FinishWrite(TRUE) /\ UNCHANGED <<slots, toldGw, reader, fOps, resets>>
      /\ wear' = (IF job.why \in Image!BootJobs THEN wear + 1 ELSE wear)
  BY DEF Image!Written
<1>2. /\ psmode' = "qpi" /\ s_adc_cap_base' = "fixed" /\ fabBase' = "fixed" /\ fcap' = "idle"
      /\ sick' \in {"ok", "hung", "broken"} /\ UNCHANGED <<mem, capno, result>>
      /\ fFaults' \in 0 .. MaxFaults /\ flash' \in Image!Gateware \cup {Image!None}
      /\ fFaults' = fFaults /\ flash' = Image!Image(job.img) /\ gw' = flash' /\ flash' # Image!None
  BY <1>1, WriteEnds
<1>3. /\ job \in [why : Image!BootJobs \cup Image!SwapJobs \cup {"none", "console"}, img : {0, 1}]
      /\ job.why # "none" /\ Image!SlotGood(job.img) /\ ~reader /\ wear = 0 /\ resendCaps \in BOOLEAN
      /\ s_psram_selftest_rc \in {"not run", "ok", "stm32", "write", "reach"}
  BY <1>1 DEF ImageInv, ImageTypes, KnownTypes, WritesInv, RegionsInv, WearInv
<1>4. \/ job.why = "rewrite" \/ job.why \in {"boot", "install"} \/ job.why = "console" \/ job.why = "restore"
      \/ job.why = "recover" \/ job.why \in {"swap", "retry"}
  BY <1>3 DEF Image!BootJobs, Image!SwapJobs
<1>5. Image!SelfTest(gw', sick', fabBase', s_adc_cap_base', psmode') \in {"ok", "stm32", "write", "reach"}
  BY Tested
<1>6. /\ Image!Ping(gw')
      /\ s_psram_selftest_rc' \in {"not run", "ok", "stm32", "write", "reach"} /\ resendCaps' \in BOOLEAN
      /\ \/ stage' = "update" /\ job' = [why |-> "boot", img |-> 0]
         \/ stage' = "idle" /\ job' = Image!NoJob
         \/ stage' = "rewedged" /\ job' = job /\ Image!SlotGood(0) /\ job.why \in {"swap", "retry"}
  <2>1. CASE job.why = "rewrite"
    BY <1>3, <1>5, <2>1 DEF Image!Written, Image!Retest, Image!Refresh
  <2>2. CASE job.why \in {"boot", "install"}
    BY <1>3, <1>5, <2>2 DEF Image!Written, Image!Retest, Image!Refresh, Image!Done
  <2>3. CASE job.why = "console"
    BY <1>3, <2>3 DEF Image!Written, Image!Refresh, Image!Done
  <2>4. CASE job.why = "restore"
    BY <1>3, <2>4 DEF Image!Written, Image!Done
  <2>5. CASE job.why = "recover"
    BY <1>3, <2>5 DEF Image!Written, Image!Done, Image!ReportWedge
  <2>6. CASE job.why \in {"swap", "retry"}
    BY <1>3, <2>6 DEF Image!Written, Image!Done, Image!ReportWedge
  <2> QED BY <1>4, <2>1, <2>2, <2>3, <2>4, <2>5, <2>6
<1>7. /\ s_fpga_version' \in {0, Old, New} /\ s_spi_div' \in {64, 128} /\ (s_spi_div' = 64 => s_fpga_version' = New)
      /\ s_fpga_version' = gw'.ver
  BY <1>2, <1>6, Pinged
<1>8. wear' \in {0, 1} /\ (stage' = "rewedged" => wear' = 0)
  <2>1. wear = 0  BY <1>3
  <2>2. wear' = (IF job.why \in Image!BootJobs THEN wear + 1 ELSE wear)  BY <1>1
  <2>3. stage' = "rewedged" => job.why \notin Image!BootJobs  BY <1>6 DEF Image!BootJobs
  <2> QED BY <2>1, <2>2, <2>3
<1>15. job' \in [why : Image!BootJobs \cup Image!SwapJobs \cup {"none", "console"}, img : {0, 1}]
  <2>1. CASE job' = job
    BY <1>3, <2>1
  <2>2. CASE job' = [why |-> "boot", img |-> 0]
    BY <2>2 DEF Image!BootJobs
  <2>3. CASE job' = Image!NoJob
    BY <2>3 DEF Image!NoJob
  <2> QED BY <1>6, <2>1, <2>2, <2>3
<1>9. ImageTypes'
  <2>1. stage' = "update" \/ stage' = "idle" \/ stage' = "rewedged"  BY <1>6
  <2>2. wear' \in Nat  BY <1>8
  <2> QED BY <1>1, <1>2, <1>15, <2>1, <2>2 DEF ImageInv, ImageTypes
<1>10. KnownTypes'  BY <1>1, <1>2, <1>6, <1>7 DEF ImageInv, KnownTypes, Image!Bases
<1>11. BasesInv' /\ RegionsInv'  BY <1>1, <1>2, <1>3, <1>6 DEF ImageInv, BasesInv, RegionsInv
<1>12. WritesInv'
  <2>1. stage' = "update" => job'.why = "boot"
    <3>1. stage' = "update" => job' = [why |-> "boot", img |-> 0]  BY <1>6
    <3> QED BY <3>1
  <2>2. stage' = "rewedged" => slots'[0] \in {Old, New}  BY <1>1, <1>6 DEF Image!SlotGood
  <2>3. stage' \in {"update", "idle", "rewedged"} /\ gw' # Image!None  BY <1>2, <1>6
  <2> QED BY <2>1, <2>2, <2>3 DEF WritesInv, Image!SlotGood
<1>13. WearInv'
  <2>1. \E n \in {0, 1} : flash' = Image!Image(n)' /\ Image!SlotGood(n)'
    BY <1>1, <1>2, <1>3 DEF Image!Image, Image!SlotGood
  <2> QED BY <1>2, <1>6, <1>7, <1>8, <2>1 DEF WearInv
<1>14. VersionInv'  BY <1>2, <1>6, <1>7 DEF VersionInv
<1> QED BY <1>9, <1>10, <1>11, <1>12, <1>13, <1>14 DEF ImageInv

\* A write that failed, whatever it was for: that was a fault.
LEMMA WriteFailedKeeps == ASSUME ImageInv, Image!WriteFailed PROVE ImageInv'
<1> USE ImageConstants
<1>1. stage = "writing" /\ Image!FinishWrite(FALSE) /\ UNCHANGED <<slots, toldGw, reader, wear, fOps, resets>>
  BY DEF Image!WriteFailed
<1>2. /\ psmode' = "qpi" /\ s_adc_cap_base' = "fixed" /\ fabBase' = "fixed" /\ fcap' = "idle"
      /\ sick' \in {"ok", "hung", "broken"} /\ UNCHANGED <<mem, capno, result>>
      /\ fFaults' \in 0 .. MaxFaults /\ flash' \in Image!Gateware \cup {Image!None}
      /\ gw' = Image!None /\ fFaults' # 0
  BY <1>1, WriteEnds
<1>3. /\ job \in [why : Image!BootJobs \cup Image!SwapJobs \cup {"none", "console"}, img : {0, 1}]
      /\ Image!SlotGood(job.img) /\ ~reader /\ wear = 0 /\ resendCaps \in BOOLEAN
      /\ s_psram_selftest_rc \in {"not run", "ok", "stm32", "write", "reach"}
  BY <1>1 DEF ImageInv, ImageTypes, KnownTypes, WritesInv, RegionsInv, WearInv
<1>4. /\ s_psram_selftest_rc' \in {"not run", "ok", "stm32", "write", "reach"} /\ resendCaps' \in BOOLEAN
      /\ UNCHANGED <<s_fpga_version, s_spi_div>> \/ (s_fpga_version' = 0 /\ s_spi_div' = 128)
      /\ \/ stage' = "update" /\ job' = [why |-> "boot", img |-> 0]
         \/ stage' = "idle" /\ job' = Image!NoJob
         \/ stage' \in {"retrying", "restoring"} /\ job' = job
  BY <1>3 DEF Image!WriteFailed, Image!Done, Image!NoRetest, Image!ReportWedge
<1>5. /\ s_fpga_version' \in {0, Old, New} /\ s_spi_div' \in {64, 128} /\ (s_spi_div' = 64 => s_fpga_version' = New)
  <2>1. s_fpga_version \in {0, Old, New} /\ s_spi_div \in {64, 128} /\ (s_spi_div = 64 => s_fpga_version = New)
    BY DEF ImageInv, KnownTypes, VersionInv
  <2>2. UNCHANGED <<s_fpga_version, s_spi_div>> \/ (s_fpga_version' = 0 /\ s_spi_div' = 128)
    BY <1>4
  <2> QED BY <2>1, <2>2
<1>12. job' \in [why : Image!BootJobs \cup Image!SwapJobs \cup {"none", "console"}, img : {0, 1}]
  <2>1. CASE job' = job
    BY <1>3, <2>1
  <2>2. CASE job' = [why |-> "boot", img |-> 0]
    BY <2>2 DEF Image!BootJobs
  <2>3. CASE job' = Image!NoJob
    BY <2>3 DEF Image!NoJob
  <2> QED BY <1>4, <2>1, <2>2, <2>3
<1>6. ImageTypes'
  <2>1. stage' \in {"update", "idle", "retrying", "restoring"}  BY <1>4
  <2> QED BY <1>1, <1>2, <1>12, <2>1 DEF ImageInv, ImageTypes
<1>7. KnownTypes'  BY <1>1, <1>2, <1>4, <1>5 DEF ImageInv, KnownTypes, Image!Bases
<1>8. BasesInv' /\ RegionsInv'  BY <1>1, <1>2, <1>3, <1>4 DEF ImageInv, BasesInv, RegionsInv
<1>9. WritesInv'
  <2>1. stage' = "update" => job'.why = "boot"
    <3>1. stage' = "update" => job' = [why |-> "boot", img |-> 0]  BY <1>4
    <3> QED BY <3>1
  <2>2. stage' = "retrying" => slots'[job'.img] \in {Old, New}
    BY <1>1, <1>3, <1>4 DEF Image!SlotGood
  <2>3. stage' \in {"update", "idle", "retrying", "restoring"} /\ fFaults' # 0  BY <1>2, <1>4
  <2> QED BY <2>1, <2>2, <2>3 DEF WritesInv, Image!SlotGood
<1>10. WearInv'  BY <1>1, <1>3 DEF WearInv
<1>11. VersionInv'  BY <1>2, <1>4, <1>5 DEF VersionInv
<1> QED BY <1>6, <1>7, <1>8, <1>9, <1>10, <1>11 DEF ImageInv

\* What follows a failed swap: the loop image again, or no more.
LEMMA SwapFailsKeeps ==
    ASSUME ImageInv, NEW img \in {0, 1}, Image!SwapFails(img), stage \in {"idle", "restoring"}, fcap = "idle",
           reader' = FALSE, UNCHANGED <<slots, s_psram_selftest_rc, toldGw, fFaults, resets>>, fOps' \in 0 .. MaxImageOps
    PROVE  ImageInv'
<1> USE ImageConstants
<1>1. CASE img # 0 /\ Image!SlotGood(0)
  <2>1. Image!StartWrite([why |-> "restore", img |-> 0]) /\ UNCHANGED <<resendCaps, s_fpga_version, s_spi_div>>
    BY <1>1 DEF Image!SwapFails
  <2>2. /\ [why |-> "restore", img |-> 0] \in [why : Image!BootJobs \cup Image!SwapJobs \cup {"console"}, img : {0, 1}]
        /\ "restore" \notin Image!BootJobs
    BY DEF Image!BootJobs, Image!SwapJobs
  <2> QED BY <1>1, <2>1, <2>2, WriteStarts
<1>2. CASE ~(img # 0 /\ Image!SlotGood(0))
  <2>1. /\ stage' = "idle" /\ job' = Image!NoJob /\ resendCaps' \in BOOLEAN
        /\ UNCHANGED <<flash, psmode, gw, sick, fabBase, s_adc_cap_base, fcap, mem, capno, result, wear>>
        /\ s_fpga_version' = gw.ver /\ s_spi_div' = (IF gw = Image!None THEN 128 ELSE Image!DivFor(gw.ver))
    BY <1>2 DEF Image!SwapFails, Image!Done, Image!capture, ImageInv, KnownTypes
  <2>2. gw \in Image!Gateware \cup {Image!None} /\ (gw = Image!None => gw.ver = 0) /\ (gw # Image!None => gw.ver \in {Old, New})
    BY Images DEF ImageInv, ImageTypes
  <2>3. s_fpga_version' \in {0, Old, New} /\ s_spi_div' \in {64, 128} /\ (s_spi_div' = 64 => s_fpga_version' = New)
    BY <2>1, <2>2 DEF Image!DivFor
  <2>4. ImageTypes'  BY <2>1 DEF ImageInv, ImageTypes, Image!NoJob
  <2>5. KnownTypes'  BY <2>1, <2>3 DEF ImageInv, KnownTypes
  <2>6. BasesInv' /\ RegionsInv'  BY <2>1 DEF ImageInv, BasesInv, RegionsInv
  <2>7. WritesInv'
    <3>1. slots[0] = New /\ fFaults = 0 => gw # Image!None  BY DEF ImageInv, WritesInv
    <3> QED BY <2>1, <3>1 DEF WritesInv
  <2>8. WearInv'  BY <2>1, <2>2, WearKept DEF ImageInv, WearInv
  <2>9. VersionInv'  BY <2>1, <2>3 DEF ImageInv, VersionInv
  <2> QED BY <2>4, <2>5, <2>6, <2>7, <2>8, <2>9 DEF ImageInv
<1> QED BY <1>1, <1>2

\* A client's swap, the console's write and the next attempts of a swap: quiesced first, and of a good slot.
LEMMA SwapKeeps ==
    ASSUME ImageInv, (\E n \in {0, 1} : Image!FpgaImage(n)) \/ Image!FlashIce40 \/ Image!SwapAgain \/ Image!SwapWedged
    PROVE  ImageInv'
<1> USE ImageConstants
<1>1. /\ "swap" \notin Image!BootJobs /\ "console" \notin Image!BootJobs /\ "retry" \notin Image!BootJobs
      /\ "recover" \notin Image!BootJobs
      /\ \A w \in {"swap", "console", "retry", "recover"}, n \in {0, 1} :
            [why |-> w, img |-> n] \in [why : Image!BootJobs \cup Image!SwapJobs \cup {"console"}, img : {0, 1}]
  BY DEF Image!BootJobs, Image!SwapJobs
<1>2. fOps \in 0 .. MaxImageOps /\ (Image!Op => fOps' \in 0 .. MaxImageOps) /\ job.img \in {0, 1} /\ reader \in BOOLEAN
  <2>1. fOps \in 0 .. MaxImageOps /\ job.img \in {0, 1} /\ reader \in BOOLEAN
    BY DEF ImageInv, ImageTypes, KnownTypes
  <2> QED BY <2>1 DEF Image!Op
<1>3. ASSUME NEW n \in {0, 1}, Image!FpgaImage(n) PROVE ImageInv'
  <2>1. /\ stage = "idle" /\ fcap = "idle" /\ fOps' \in 0 .. MaxImageOps /\ reader' = FALSE
        /\ UNCHANGED <<slots, s_psram_selftest_rc, toldGw, fFaults, resets>>
    BY <1>2, <1>3 DEF Image!FpgaImage, Image!Idle, Image!Quiesce
  <2>2. CASE Image!SlotGood(n)
    <3>1. Image!StartWrite([why |-> "swap", img |-> n]) /\ UNCHANGED <<resendCaps, s_fpga_version, s_spi_div>>
      BY <1>3, <2>2 DEF Image!FpgaImage
    <3> QED BY <1>1, <2>1, <2>2, <3>1, WriteStarts
  <2>3. CASE ~Image!SlotGood(n)
    BY <1>3, <2>1, <2>3, SwapFailsKeeps DEF Image!FpgaImage
  <2> QED BY <2>2, <2>3
<1>4. CASE Image!FlashIce40
  <2>1. /\ stage = "idle" /\ fOps' \in 0 .. MaxImageOps /\ reader' = FALSE /\ Image!SlotGood(0)
        /\ Image!StartWrite([why |-> "console", img |-> 0])
        /\ UNCHANGED <<slots, s_fpga_version, s_spi_div, s_psram_selftest_rc, toldGw, resendCaps, fFaults, resets>>
    BY <1>2, <1>4 DEF Image!FlashIce40, Image!Idle, Image!Quiesce, Image!NoRetest
  <2> QED BY <1>1, <2>1, WriteStarts
<1>5. CASE Image!SwapAgain
  <2>1. UNCHANGED <<slots, s_psram_selftest_rc, toldGw, reader, fFaults, fOps, resets>>
    BY <1>5 DEF Image!SwapAgain
  <2>2. CASE stage = "retrying" /\ Image!StartWrite([why |-> "retry", img |-> job.img])
             /\ UNCHANGED <<resendCaps, s_fpga_version, s_spi_div>>
    <3>1. Image!SlotGood(job.img) /\ ~reader  BY <2>2 DEF ImageInv, WritesInv, RegionsInv
    <3> QED BY <1>1, <1>2, <2>1, <2>2, <3>1, WriteStarts
  <2>3. CASE stage = "restoring" /\ Image!SwapFails(job.img)
    <3>1. fcap = "idle" /\ ~reader  BY <2>3 DEF ImageInv, RegionsInv
    <3> QED BY <1>2, <2>1, <2>3, <3>1, SwapFailsKeeps
  <2> QED BY <1>5, <2>2, <2>3 DEF Image!SwapAgain
<1>6. CASE Image!SwapWedged
  <2>1. /\ stage = "rewedged" /\ Image!StartWrite([why |-> "recover", img |-> 0])
        /\ UNCHANGED <<slots, s_fpga_version, s_spi_div, s_psram_selftest_rc, toldGw, resendCaps, reader, fFaults, fOps,
                       resets>>
    BY <1>6 DEF Image!SwapWedged, Image!NoRetest
  <2>2. Image!SlotGood(0) /\ ~reader  BY <2>1 DEF ImageInv, WritesInv, RegionsInv
  <2> QED BY <1>1, <1>2, <2>1, <2>2, WriteStarts
<1> QED BY <1>3, <1>4, <1>5, <1>6

\* What a step that neither loads the fabric nor pings it leaves as it was.
LEMMA Calm ==
    ASSUME ImageInv, UNCHANGED <<stage, job, flash, slots, gw, sick, s_fpga_version, s_spi_div, wear, resets>>,
           fFaults' \in {fFaults, fFaults + 1}, fFaults' \in 0 .. MaxFaults, fOps' \in 0 .. MaxImageOps,
           s_psram_selftest_rc' = s_psram_selftest_rc \/ stage = "idle"
    PROVE  ImageTypes' /\ WritesInv' /\ WearInv' /\ VersionInv'
<1> USE ImageConstants
<1>1. fFaults \in Nat /\ (fFaults' < 2 => fFaults < 2) /\ (fFaults' = 0 => fFaults = 0) /\ (fFaults # 0 => fFaults' # 0)
  BY DEF ImageInv, ImageTypes
<1>2. ImageTypes'  BY DEF ImageInv, ImageTypes
<1>3. WritesInv'  BY <1>1 DEF ImageInv, WritesInv, Image!SlotGood
<1>4. WearInv'  BY WearKept DEF ImageInv, WearInv
<1>5. VersionInv'  BY <1>1 DEF ImageInv, VersionInv
<1> QED BY <1>2, <1>3, <1>4, <1>5

\* A deep replay, an announcement, a self-test from the console.
LEMMA UsesKeep == ASSUME ImageInv, Image!DeepReplay \/ Image!Announce \/ Image!SelfTestAgain PROVE ImageInv'
<1> USE ImageConstants
<1>1. /\ UNCHANGED <<psmode, stage, job, flash, slots, gw, sick, fabBase, s_adc_cap_base, s_fpga_version, s_spi_div, fcap,
                     mem, capno, result, wear, fFaults, resets>>
      /\ stage = "idle"
  BY DEF Image!DeepReplay, Image!Announce, Image!SelfTestAgain, Image!capture, Image!Idle
<1>2. fOps' \in 0 .. MaxImageOps /\ fFaults \in 0 .. MaxFaults
  <2>1. fOps \in 0 .. MaxImageOps /\ fFaults \in 0 .. MaxFaults  BY DEF ImageInv, ImageTypes
  <2> QED BY <2>1 DEF Image!DeepReplay, Image!Announce, Image!SelfTestAgain, Image!Op
<1>3. ImageTypes' /\ WritesInv' /\ WearInv' /\ VersionInv'  BY <1>1, <1>2, Calm
<1>4. /\ s_psram_selftest_rc' \in {"not run", "ok", "stm32", "write", "reach"}
      /\ reader' \in BOOLEAN /\ (reader' => reader \/ gw # Image!None)
      /\ toldGw' \in Image!Gateware \cup {Image!None} /\ resendCaps' \in BOOLEAN
  <2>1. /\ s_psram_selftest_rc \in {"not run", "ok", "stm32", "write", "reach"} /\ reader \in BOOLEAN
        /\ toldGw \in Image!Gateware \cup {Image!None} /\ gw \in Image!Gateware \cup {Image!None} /\ resendCaps \in BOOLEAN
    BY DEF ImageInv, ImageTypes, KnownTypes
  <2>2. CASE Image!SelfTestAgain
    <3>1. Image!SelfTest(gw, sick, fabBase, s_adc_cap_base, psmode) \in {"ok", "stm32", "write", "reach"}
      BY Tested
    <3> QED BY <2>1, <2>2, <3>1 DEF Image!SelfTestAgain
  <2>3. CASE Image!DeepReplay
    BY <2>1, <2>3 DEF Image!DeepReplay
  <2>4. CASE Image!Announce
    BY <2>1, <2>4 DEF Image!Announce
  <2> QED BY <2>2, <2>3, <2>4
<1>5. KnownTypes'  BY <1>1, <1>4 DEF ImageInv, KnownTypes
<1>6. BasesInv' /\ RegionsInv'  BY <1>1, <1>4 DEF ImageInv, BasesInv, RegionsInv
<1> QED BY <1>3, <1>5, <1>6 DEF ImageInv

\* A gateware blob was installed: the update follows, and the next boot may write.
LEMMA InstallKeeps ==
    ASSUME ImageInv, NEW n \in {0, 1}, NEW v \in {Image!Bad, New}, Image!Install(n, v) PROVE ImageInv'
<1> USE ImageConstants
<1>1. /\ stage = "idle" /\ fcap = "idle" /\ slots' = [slots EXCEPT ![n] = v] /\ reader' = FALSE /\ wear' = 0
      /\ stage' = "update" /\ job' = [why |-> "install", img |-> 0] /\ Image!Op
      /\ UNCHANGED <<psmode, flash, gw, sick, fabBase, s_adc_cap_base, fcap, mem, capno, result, toldGw, resendCaps,
                     fFaults, resets, s_fpga_version, s_spi_div, s_psram_selftest_rc>>
  BY DEF Image!Install, Image!Idle, Image!Quiesce, Image!NoRetest, Image!capture
<1>2. fOps' \in 0 .. MaxImageOps
  <2>1. fOps \in 0 .. MaxImageOps  BY DEF ImageInv, ImageTypes
  <2> QED BY <1>1, <2>1 DEF Image!Op
<1>3. slots' \in [{0, 1} -> Image!SlotStates]
  BY <1>1 DEF ImageInv, ImageTypes, Image!SlotStates
<1>4. job' \in [why : Image!BootJobs \cup Image!SwapJobs \cup {"none", "console"}, img : {0, 1}] /\ job'.why = "install"
  BY <1>1 DEF Image!BootJobs
<1>5. ImageTypes'  BY <1>1, <1>2, <1>3, <1>4 DEF ImageInv, ImageTypes
<1>6. KnownTypes'  BY <1>1 DEF ImageInv, KnownTypes
<1>7. BasesInv' /\ RegionsInv'  BY <1>1 DEF ImageInv, BasesInv, RegionsInv
<1>8. WritesInv' /\ WearInv'  BY <1>1, <1>4 DEF WritesInv, WearInv
<1>9. VersionInv'  BY <1>1 DEF ImageInv, VersionInv
<1> QED BY <1>5, <1>6, <1>7, <1>8, <1>9 DEF ImageInv

\* An ESD hit.
LEMMA EsdKeeps == ASSUME ImageInv, Image!Esd PROVE ImageInv'
<1> USE ImageConstants
<1>1. /\ stage = "idle" /\ Image!Fault
      /\ UNCHANGED <<psmode, stage, job, slots, fabBase, s_adc_cap_base, s_fpga_version, s_spi_div, s_psram_selftest_rc,
                     mem, capno, result, toldGw, resendCaps, fOps, resets>>
  BY DEF Image!Esd
<1>2. /\ (gw' = Image!None /\ fcap' = "idle" /\ reader' = FALSE) \/ UNCHANGED <<gw, fcap, reader>>
      /\ sick' \in {"ok", "hung", "broken"} /\ ((flash' = Image!None /\ wear' = 0) \/ UNCHANGED <<flash, wear>>)
  <2>1. sick \in {"ok", "hung", "broken"}  BY DEF ImageInv, ImageTypes
  <2> QED BY <2>1 DEF Image!Esd
<1>3. fFaults' \in 0 .. MaxFaults /\ fFaults' = fFaults + 1 /\ fFaults \in Nat
  <2>1. fFaults \in 0 .. MaxFaults  BY DEF ImageInv, ImageTypes
  <2> QED BY <1>1, <2>1 DEF Image!Fault
<1>4. ImageTypes'  BY <1>1, <1>2, <1>3 DEF ImageInv, ImageTypes
<1>5. KnownTypes'  BY <1>1, <1>2 DEF ImageInv, KnownTypes
<1>6. BasesInv' /\ RegionsInv'  BY <1>1, <1>2 DEF ImageInv, BasesInv, RegionsInv
<1>7. WritesInv'  BY <1>1, <1>3 DEF WritesInv
<1>8. WearInv'
  <2>1. CASE flash' = Image!None /\ wear' = 0
    BY <2>1 DEF WearInv
  <2>2. CASE UNCHANGED <<flash, wear>>
    BY <1>1, <1>2, <2>2, WearKept DEF ImageInv, WearInv
  <2> QED BY <1>2, <2>1, <2>2
<1>9. VersionInv'  BY <1>1, <1>2, <1>3 DEF ImageInv, VersionInv
<1> QED BY <1>4, <1>5, <1>6, <1>7, <1>8, <1>9 DEF ImageInv

\* The idle check: a ping of the fabric that runs, a reload of one that stopped answering.
LEMMA CheckKeeps == ASSUME ImageInv, Image!IdleCheck PROVE ImageInv'
<1> USE ImageConstants
<1>1. /\ stage = "idle" /\ fcap = "idle"
      /\ UNCHANGED <<stage, job, flash, slots, s_psram_selftest_rc, toldGw, resendCaps, reader, wear, fOps, resets>>
  BY DEF Image!IdleCheck, Image!Idle
<1>2. gw \in Image!Gateware \cup {Image!None} /\ flash \in Image!Gateware \cup {Image!None} /\ fFaults \in Nat
      /\ Image!None \in Image!Gateware \cup {Image!None}
  BY DEF ImageInv, ImageTypes
<1>3. CASE gw # Image!None
  <2>1. UNCHANGED <<psmode, gw, sick, fabBase, s_adc_cap_base, fcap, mem, capno, result, fFaults>> /\ Image!Ping(gw)
    BY <1>3 DEF Image!IdleCheck, Image!Refresh, Image!capture
  <2>2. /\ s_fpga_version' \in {0, Old, New} /\ s_spi_div' \in {64, 128} /\ (s_spi_div' = 64 => s_fpga_version' = New)
        /\ s_fpga_version' = gw.ver
    BY <1>2, <1>3, <2>1, Pinged
  <2>3. ImageTypes'  BY <1>1, <2>1 DEF ImageInv, ImageTypes
  <2>4. KnownTypes'  BY <1>1, <2>1, <2>2 DEF ImageInv, KnownTypes
  <2>5. BasesInv' /\ RegionsInv' /\ WritesInv'
    BY <1>1, <2>1 DEF ImageInv, BasesInv, RegionsInv, WritesInv
  <2>6. WearInv'  BY <1>1, <1>3, <2>1, <2>2, WearKept DEF ImageInv, WearInv
  <2>7. VersionInv'  BY <1>1, <1>3, <2>1, <2>2 DEF ImageInv, VersionInv
  <2> QED BY <2>3, <2>4, <2>5, <2>6, <2>7 DEF ImageInv
<1>4. CASE gw = Image!None
  <2>1. PICK rc \in BOOLEAN : Image!Reload(rc) /\ Image!Ping(IF rc THEN gw' ELSE Image!None)
    BY <1>4 DEF Image!IdleCheck, Image!Refresh
  <2>2. Image!FlashBoot(rc) /\ psmode' = "qpi" /\ s_adc_cap_base' = "fixed" /\ flash # Image!None /\ ~reader
    BY <1>4, <2>1 DEF Image!Reload, Image!PsramInit, Image!Resync, Image!IdleCheck, ImageInv, RegionsInv
  <2>3. /\ gw' \in {flash, Image!None} /\ sick' \in {"ok", "hung", "broken"}
        /\ fabBase' = "fixed" /\ fcap' = "idle" /\ UNCHANGED <<mem, capno, result>>
        /\ fFaults' \in 0 .. MaxFaults
        /\ rc => gw' = flash /\ flash # Image!None
        /\ \/ fFaults' = fFaults /\ gw' = flash /\ rc = (flash # Image!None)
           \/ fFaults' = fFaults + 1 /\ ~rc
    BY <2>2, Booted
  <2>4. /\ s_fpga_version' \in {0, Old, New} /\ s_spi_div' \in {64, 128} /\ (s_spi_div' = 64 => s_fpga_version' = New)
        /\ rc => s_fpga_version' = flash.ver
        /\ ~rc => s_fpga_version' = s_fpga_version
    BY <1>2, <2>1, <2>3, Pinged
  <2>5. ImageTypes'  BY <1>1, <1>2, <2>3 DEF ImageInv, ImageTypes
  <2>6. KnownTypes'  BY <1>1, <2>2, <2>3, <2>4 DEF ImageInv, KnownTypes, Image!Bases
  <2>7. BasesInv' /\ RegionsInv'  BY <1>1, <2>2, <2>3 DEF ImageInv, BasesInv, RegionsInv
  <2>8. fFaults' # 0  BY <1>2, <1>4, <2>2, <2>3 DEF ImageInv, VersionInv
  <2>9. WritesInv'  BY <1>1, <2>8 DEF WritesInv
  <2>10. WearInv'  BY <1>1, <2>3, <2>4, WearKept DEF ImageInv, WearInv
  <2>11. VersionInv'
    <3>1. ~rc => ~(fFaults' < 2)  BY <1>2, <1>4, <2>2, <2>3 DEF ImageInv, VersionInv
    <3>2. gw' # Image!None => gw' = flash  BY <2>3
    <3> QED BY <1>1, <2>4, <2>8, <3>1, <3>2 DEF VersionInv
  <2> QED BY <2>5, <2>6, <2>7, <2>9, <2>10, <2>11 DEF ImageInv
<1> QED BY <1>3, <1>4

\* Captures, from the arm to the read-back, and what sets the bases for them.
LEMMA CapturesKeep ==
    ASSUME ImageInv,
           Image!CaptureStart \/ (\E b \in Image!Bases : Image!DualStart(b)) \/ Image!LaChangeStart \/ Image!LaWait
           \/ Image!FabricCaptures \/ Image!CapturePoll
    PROVE  ImageInv'
<1> USE ImageConstants
<1>1. UNCHANGED <<psmode, stage, job, flash, slots, gw, sick, s_fpga_version, s_spi_div, s_psram_selftest_rc, toldGw,
                  resendCaps, reader, wear, resets>>
  BY DEF Image!CaptureStart, Image!DualStart, Image!LaChangeStart, Image!LaWait, Image!FabricCaptures, Image!CapturePoll
<1>2. /\ fFaults \in 0 .. MaxFaults /\ fOps \in 0 .. MaxImageOps /\ mem \in [Image!Bases -> Nat] /\ capno \in Nat
      /\ result \in Nat /\ result \in {0, capno} /\ fabBase \in Image!Bases /\ s_adc_cap_base \in Image!Bases
      /\ fcap \in {"idle", "armed", "done", "la"} /\ "packed" \in Image!Bases
      /\ (Image!Op => fOps' \in 0 .. MaxImageOps)
      /\ (Image!Fault => fFaults' = fFaults + 1 /\ fFaults' \in 0 .. MaxFaults)
  <2>1. /\ fFaults \in 0 .. MaxFaults /\ fOps \in 0 .. MaxImageOps  BY DEF ImageInv, ImageTypes
  <2>2. /\ mem \in [Image!Bases -> Nat] /\ capno \in Nat /\ result \in Nat /\ result \in {0, capno}
        /\ fabBase \in Image!Bases /\ s_adc_cap_base \in Image!Bases /\ fcap \in {"idle", "armed", "done", "la"}
    BY DEF ImageInv, KnownTypes, RegionsInv
  <2>3. Image!Op => fOps' \in 0 .. MaxImageOps  BY <2>1 DEF Image!Op
  <2>4. Image!Fault => fFaults' = fFaults + 1 /\ fFaults' \in 0 .. MaxFaults
    BY <2>1 DEF Image!Fault
  <2>5. "packed" \in Image!Bases  BY DEF Image!Bases
  <2> QED BY <2>1, <2>2, <2>3, <2>4, <2>5
<1>3. /\ fFaults' \in {fFaults, fFaults + 1} /\ fFaults' \in 0 .. MaxFaults /\ fOps' \in 0 .. MaxImageOps
  BY <1>2 DEF Image!CaptureStart, Image!DualStart, Image!LaChangeStart, Image!LaWait, Image!FabricCaptures,
              Image!CapturePoll
<1>4. ImageTypes' /\ WritesInv' /\ WearInv' /\ VersionInv'  BY <1>1, <1>3, Calm
<1>5. SUFFICES /\ fabBase' \in Image!Bases /\ s_adc_cap_base' \in Image!Bases /\ fcap' \in {"idle", "armed", "done", "la"}
               /\ mem' \in [Image!Bases -> Nat] /\ capno' \in Nat /\ result' \in Nat /\ result' \in {0, capno'}
               /\ UNCHANGED <<fabBase, s_adc_cap_base>> \/ (stage = "idle" /\ (s_adc_cap_base = fabBase => s_adc_cap_base' = fabBase'))
               /\ fcap' = "idle" \/ fcap # "idle" \/ (stage = "idle" /\ gw # Image!None)
               /\ stage = "idle" /\ fcap' \in {"armed", "done"} => mem'[s_adc_cap_base'] \in {0, capno'}
  <2>1. KnownTypes'  BY <1>1, <1>5 DEF ImageInv, KnownTypes
  <2>2. BasesInv'  BY <1>1, <1>5 DEF ImageInv, BasesInv
  <2>3. RegionsInv'  BY <1>1, <1>5 DEF ImageInv, RegionsInv
  <2> QED BY <1>4, <2>1, <2>2, <2>3 DEF ImageInv
<1>6. stage = "idle" => s_adc_cap_base = fabBase  BY DEF ImageInv, BasesInv
<1>7. \A b \in Image!Bases : Image!Stamp(mem, b) \in [Image!Bases -> Nat] /\ Image!Stamp(mem, b)[b] = 0
  BY <1>2 DEF Image!Stamp, Image!Sentinel
<1>8. capno + 1 \in Nat  BY <1>2
<1>9. CASE Image!CaptureStart
  <2>1. /\ stage = "idle" /\ gw # Image!None /\ UNCHANGED <<fabBase, s_adc_cap_base>>
        /\ mem' = Image!Stamp(mem, s_adc_cap_base) /\ fcap' = "armed" /\ capno' = capno + 1 /\ result' = 0
    BY <1>9 DEF Image!CaptureStart, Image!Idle, Image!Armed
  <2> QED BY <1>2, <1>7, <1>8, <2>1
<1>10. ASSUME NEW b \in Image!Bases, NEW ok \in BOOLEAN, Image!SetBases(b, ok)
       PROVE  /\ fabBase' \in Image!Bases /\ s_adc_cap_base' \in Image!Bases
              /\ s_adc_cap_base = fabBase => s_adc_cap_base' = fabBase'
  BY <1>2, <1>10 DEF Image!SetBases
<1>11. ASSUME NEW b \in Image!Bases, Image!DualStart(b)
       PROVE  /\ fabBase' \in Image!Bases /\ s_adc_cap_base' \in Image!Bases /\ fcap' \in {"idle", "armed", "done", "la"}
              /\ mem' \in [Image!Bases -> Nat] /\ capno' \in Nat /\ result' \in Nat /\ result' \in {0, capno'}
              /\ stage = "idle" /\ gw # Image!None /\ (s_adc_cap_base = fabBase => s_adc_cap_base' = fabBase')
              /\ mem'[s_adc_cap_base'] \in {0, capno'}
  <2>1. /\ stage = "idle" /\ gw # Image!None /\ (Image!SetBases(b, TRUE) \/ Image!SetBases(b, FALSE))
        /\ mem' = Image!Stamp(mem, s_adc_cap_base') /\ fcap' = "armed" /\ capno' = capno + 1 /\ result' = 0
    BY <1>11 DEF Image!DualStart, Image!Idle, Image!Armed
  <2>2. /\ fabBase' \in Image!Bases /\ s_adc_cap_base' \in Image!Bases
        /\ s_adc_cap_base = fabBase => s_adc_cap_base' = fabBase'
    BY <1>10, <2>1
  <2> QED BY <1>7, <1>8, <2>1, <2>2
<1>12. CASE Image!LaChangeStart
  <2>1. /\ stage = "idle" /\ gw # Image!None /\ fcap' \in {"la", "idle"} /\ UNCHANGED <<mem, capno, result>>
        /\ UNCHANGED <<fabBase, s_adc_cap_base>> \/ \E ok \in BOOLEAN : Image!SetBases("packed", ok)
    BY <1>12 DEF Image!LaChangeStart, Image!Idle
  <2>2. /\ fabBase' \in Image!Bases /\ s_adc_cap_base' \in Image!Bases
        /\ s_adc_cap_base = fabBase => s_adc_cap_base' = fabBase'
    BY <1>2, <1>10, <2>1
  <2> QED BY <1>2, <2>1, <2>2
<1>13. CASE Image!LaWait
  BY <1>2, <1>13 DEF Image!LaWait
<1>14. CASE Image!FabricCaptures
  <2>1. /\ fcap = "armed" /\ fcap' = "done" /\ UNCHANGED <<fabBase, s_adc_cap_base, capno, result>>
        /\ mem' = mem \/ mem' = [mem EXCEPT ![fabBase] = capno]
    BY <1>14 DEF Image!FabricCaptures
  <2>2. stage = "idle" => mem[s_adc_cap_base] \in {0, capno}  BY <2>1 DEF ImageInv, RegionsInv
  <2>3. mem' \in [Image!Bases -> Nat] /\ (mem' = mem \/ mem'[fabBase] = capno)  BY <1>2, <2>1
  <2> QED BY <1>2, <1>6, <2>1, <2>2, <2>3
<1>15. CASE Image!CapturePoll
  <2>1. /\ stage = "idle" /\ fcap = "done" /\ fcap' = "idle" /\ result' = mem[s_adc_cap_base]
        /\ UNCHANGED <<fabBase, s_adc_cap_base, mem, capno>>
    BY <1>15 DEF Image!CapturePoll
  <2>2. mem[s_adc_cap_base] \in {0, capno} /\ mem[s_adc_cap_base] \in Nat
    BY <1>2, <2>1 DEF ImageInv, RegionsInv
  <2> QED BY <1>2, <2>1, <2>2
<1> QED BY <1>9, <1>11, <1>12, <1>13, <1>14, <1>15

\* Every step of the gateware and its loading keeps the invariant.
LEMMA ImageInvStep == ImageInv /\ [Image!Next]_fabricVars => ImageInv'
<1>1. ASSUME ImageInv, UNCHANGED fabricVars PROVE ImageInv'
  <2>1. UNCHANGED <<stage, job, flash, slots, gw, sick, wear, fFaults, fOps, resets, fabBase, s_adc_cap_base, psmode,
                    s_fpga_version, s_spi_div, s_psram_selftest_rc, fcap, mem, capno, result, reader, toldGw, resendCaps>>
    BY <1>1 DEF fabricVars
  <2>2. fOps' \in 0 .. MaxImageOps /\ fFaults' \in 0 .. MaxFaults
    BY <1>1, <2>1 DEF ImageInv, ImageTypes
  <2>3. ImageTypes' /\ WritesInv' /\ WearInv' /\ VersionInv'  BY <1>1, <2>1, <2>2, Calm
  <2>4. KnownTypes'  BY <1>1, <2>1 DEF ImageInv, KnownTypes
  <2>5. BasesInv' /\ RegionsInv'  BY <1>1, <2>1 DEF ImageInv, BasesInv, RegionsInv
  <2> QED BY <2>3, <2>4, <2>5 DEF ImageInv
<1>2. ASSUME ImageInv, Image!Next PROVE ImageInv'
  BY <1>2, FabricResetKeeps, LookKeeps, TestKeeps, BootReloadKeeps, RewriteKeeps, UpdateReloadKeeps, UpdateWriteKeeps, WrittenKeeps,
     WriteFailedKeeps, SwapKeeps, UsesKeep, InstallKeeps, EsdKeeps, CheckKeeps, CapturesKeep
  DEF Image!Next, Image!Boot, Image!Swap
<1> QED BY <1>1, <1>2

\* The pod starts in it, whatever its flash and its slots hold.
LEMMA ImageInitially == Image!Init => ImageInv
<1> SUFFICES ASSUME Image!Init PROVE ImageInv
  OBVIOUS
<1> USE ImageConstants
<1>1. ImageTypes  BY DEF Image!Init, ImageTypes, Image!NoJob
<1>2. KnownTypes  BY DEF Image!Init, KnownTypes, Image!Bases, Image!Sentinel
<1>3. BasesInv /\ RegionsInv /\ WritesInv /\ WearInv
  BY DEF Image!Init, BasesInv, RegionsInv, WritesInv, WearInv
<1>4. VersionInv
  <2>1. gw = flash /\ s_fpga_version = 0 /\ s_spi_div = 128 /\ stage = "off"  BY DEF Image!Init
  <2>2. s_spi_div # 64  BY <2>1
  <2> QED BY <2>1, <2>2 DEF VersionInv
<1> QED BY <1>1, <1>2, <1>3, <1>4 DEF ImageInv

\* What the invariant says of the properties.
LEMMA ImageKnown ==
    ASSUME ImageInv
    PROVE  /\ Image!TypeOK /\ Image!CaptureIsNew /\ Image!MirrorsAgree /\ Image!KnowsGateware
           /\ Image!BootSparesFlash /\ Image!BusTakenIdle /\ Image!ComesConfigured
<1> USE ImageConstants
<1>1. Image!TypeOK  BY DEF ImageInv, ImageTypes, KnownTypes, Image!TypeOK
<1>2. Image!CaptureIsNew /\ Image!MirrorsAgree /\ Image!BusTakenIdle
  BY DEF ImageInv, RegionsInv, BasesInv, KnownTypes, Image!CaptureIsNew, Image!MirrorsAgree, Image!BusTakenIdle,
         Image!Sentinel
<1>3. Image!KnowsGateware
  <2>1. ASSUME stage = "idle", gw # Image!None, s_fpga_version # 0, fFaults < 2
        PROVE  s_fpga_version = gw.ver /\ (s_spi_div = 64 => gw.ver = New)
    BY <2>1 DEF ImageInv, VersionInv
  <2> QED BY <2>1 DEF Image!KnowsGateware
<1>4. Image!BootSparesFlash  BY DEF ImageInv, WearInv, Image!BootSparesFlash
<1>5. Image!ComesConfigured  BY DEF ImageInv, WritesInv, Image!ComesConfigured
<1> QED BY <1>1, <1>2, <1>3, <1>4, <1>5

\* signal_engine.c, ice40_flash.c: for any number of faults, resets and operations, the firmware reads captures where the
\* fabric writes them and, until a second fault, knows which gateware runs; boots write the flash once for each change of
\* it, no write takes the bus from a reader, and a pod with a good slot 0 comes up configured.
THEOREM FabricIsKnown == MCSpec => []FabricKnown
<1> DEFINE Inv == which = "fabric" => ImageInv
<1>1. [MCNext]_mcVars => UNCHANGED which /\ [Image!Next]_fabricVars /\ (which = "fabric" \/ UNCHANGED fabricVars)
  BY DEF MCNext, Rest, mcVars
<1>2. MCInit => Inv  BY ImageInitially DEF MCInit
<1>3. Inv /\ [MCNext]_mcVars => Inv'  BY <1>1, ImageInvStep
<1>4. Inv => FabricKnown  BY ImageKnown DEF FabricKnown
<1> QED BY <1>2, <1>3, <1>4, PTL DEF MCSpec
--------------------------------------------------------------------------------
(***************************************************************************)
(* Proofs: what is read back, and that all types hold.                      *)
(***************************************************************************)
\* Until an upload's hold ends under another job, the regions of the capture under way hold what it writes; what capture_read
\* may resume is there, and marked, unless the base was moved.
DataKept ==
    /\ "upload" \notin met =>
        /\ \A j \in caps : /\ Capture!CellsFor(j.req) \subseteq data
                           /\ j.req.adc => adc_base \in Capture!CellsFor(j.req)
                           /\ j.req.la => 0 \in Capture!CellsFor(j.req)
        /\ \A s \in chgscan : Capture!PsramCells \subseteq data
    /\ last_cap.valid /\ ~stale /\ met \cap {"moved", "upload"} = {} =>
        /\ last_cap.adc => adc_base \in data /\ adc_base \in track
        /\ last_cap.la => 0 \in data /\ 0 \in track
    /\ Capture!ReadsOwnData

\* The trigger of a capture is the one that is watched; an outcome waits for a reply only while the changes of its capture
\* are scanned.
TriggerKept ==
    /\ \A j \in caps : trigwait = IF j.req.trig # Off THEN {[conn |-> j.conn, id |-> j.id]} ELSE {}
    /\ "reply" \notin met =>
        /\ chgscan = {} => trig_reply = 0
        /\ \A s \in chgscan : trig_reply = IF s.req.trig # Off THEN s.id ELSE 0
    /\ Capture!ReplyHasItsTrigger

\* The inductive invariant of what is read back, beside that of the gate.
ReadInv == DataKept /\ TriggerKept

\* bulk_begin, with all that the read-back is of.
LEMMA StartsAll ==
    ASSUME NEW conn, NEW psram, NEW adc, NEW la, NEW trig, NEW own, Capture!Starts(conn, psram, adc, la, trig, own)
    PROVE  \A b \in bulk' : b.psram = psram /\ b.adc = adc /\ b.la = la /\ b.trig = trig /\ b.own = own
  BY DEF Capture!Starts

\* The same of a job's own read-back.
LEMMA StartsForAll ==
    ASSUME NEW j, NEW psram, NEW outcome, Capture!StartsFor(j, psram, outcome)
    PROVE  \A b \in bulk' : /\ b.psram = psram /\ b.adc = j.req.adc /\ b.la = j.req.la
                            /\ b.trig = outcome /\ b.own = IF j.req.trig # Off THEN j.id ELSE 0
  BY StartsAll DEF Capture!StartsFor

\* A step that leaves the jobs, their triggers and the regions alone.
LEMMA ReadSame ==
    ASSUME ReadInv, UNCHANGED <<caps, chgscan, bulk, trigwait, trig_reply, last_cap, track, stale, data, adc_base>>,
           met \subseteq met'
    PROVE  ReadInv'
<1>1. \A q : Capture!CellsFor(q)' = Capture!CellsFor(q)
  BY DEF Capture!CellsFor, Capture!BaseFor
<1>2. DataKept'  BY <1>1 DEF ReadInv, DataKept, Capture!ReadsOwnData
<1>3. TriggerKept'  BY DEF ReadInv, TriggerKept, Capture!ReplyHasItsTrigger
<1> QED BY <1>2, <1>3 DEF ReadInv

\* A write of the PSRAM, while no capture, scan or read-back is under way or an upload lost its gate.
LEMMA ReadWritten ==
    ASSUME ReadInv, UNCHANGED <<caps, chgscan, bulk, trigwait, trig_reply, last_cap, track, adc_base, met>>,
           NEW where, Capture!Written(where), "upload" \notin met => caps = {} /\ chgscan = {} /\ bulk = {}
    PROVE  ReadInv'
<1>1. data' = data \ where /\ stale' = (stale \/ where \cap track # {})  BY DEF Capture!Written
<1>2. DataKept'
  <2>1. last_cap'.valid /\ ~stale' /\ met' \cap {"moved", "upload"} = {} =>
           /\ last_cap'.adc => adc_base' \in data' /\ adc_base' \in track'
           /\ last_cap'.la => 0 \in data' /\ 0 \in track'
    BY <1>1 DEF ReadInv, DataKept
  <2>2. Capture!ReadsOwnData'  BY DEF ReadInv, DataKept, Capture!ReadsOwnData
  <2> QED BY <2>1, <2>2 DEF DataKept
<1>3. TriggerKept'  BY DEF ReadInv, TriggerKept, Capture!ReplyHasItsTrigger
<1> QED BY <1>2, <1>3 DEF ReadInv

\* Behind the gate there is nothing under way, so no outcome waits either.
LEMMA NothingWaits ==
    ASSUME GateInv, ReadInv, NEW c \in Conns, Capture!Command(c), Capture!Begin(c), "reply" \notin met
    PROVE  trig_reply = 0
  BY GateWon DEF ReadInv, TriggerKept

\* The arm, refused by the gate or failed behind it, or done.
LEMMA ArmReads ==
    ASSUME GateInv, ReadInv, NEW c \in Conns, NEW q \in MCRequests,
           Capture!ArmRefused(c, q) \/ Capture!ArmFails(c, q) \/ Capture!Arm(c, q)
    PROVE  ReadInv'
<1>1. CASE Capture!ArmRefused(c, q)
  <2>1. /\ UNCHANGED <<caps, chgscan, bulk, trigwait, last_cap, track, stale, data, adc_base>> /\ trig_reply' = 0
        /\ met' = met \cup (IF trig_reply # 0 THEN {"reply"} ELSE {})
    BY <1>1 DEF Capture!ArmRefused, Capture!regions
  <2>2. \A r : Capture!CellsFor(r)' = Capture!CellsFor(r)
    BY <2>1 DEF Capture!CellsFor, Capture!BaseFor
  <2>3. /\ "upload" \notin met' => "upload" \notin met
        /\ met' \cap {"moved", "upload"} = {} => met \cap {"moved", "upload"} = {}
    BY <2>1
  <2>4. "reply" \notin met' => "reply" \notin met /\ trig_reply = 0  BY <2>1
  <2>5. DataKept'  BY <2>1, <2>2, <2>3 DEF ReadInv, DataKept, Capture!ReadsOwnData
  <2>6. TriggerKept'  BY <2>1, <2>4 DEF ReadInv, TriggerKept, Capture!ReplyHasItsTrigger
  <2> QED BY <2>5, <2>6 DEF ReadInv
<1>2. CASE Capture!ArmFails(c, q)
  <2>1. /\ caps = {} /\ chgscan = {} /\ bulk = {} /\ trigwait = {} /\ UNCHANGED <<caps, chgscan, bulk, trigwait>>
    BY <1>2, GateWon DEF Capture!ArmFails
  <2>2. /\ trig_reply' \in {0, trig_reply} /\ UNCHANGED <<last_cap, track, data>> /\ stale' \in {stale, stale \/ Capture!CellsFor(q) \cap track # {}}
        /\ met' = met \cup (IF last_cap.valid /\ adc_base' # adc_base THEN {"moved"} ELSE {})
    BY <1>2 DEF Capture!ArmFails, Capture!Forgotten
  <2>3. DataKept'
    <3>1. ~stale' => ~stale  BY <2>2
    <3>2. last_cap.valid /\ met' \cap {"moved", "upload"} = {} => adc_base' = adc_base /\ met \cap {"moved", "upload"} = {}
      BY <2>2
    <3> QED BY <2>1, <2>2, <3>1, <3>2 DEF ReadInv, DataKept, Capture!ReadsOwnData
  <2>4. "reply" \notin met' => trig_reply' = 0  BY <1>2, <2>2, NothingWaits DEF Capture!ArmFails
  <2> QED BY <2>1, <2>3, <2>4 DEF ReadInv, TriggerKept, Capture!ReplyHasItsTrigger
<1>3. CASE Capture!Arm(c, q)
  <2> DEFINE new == [conn |-> c, id |-> ops', req |-> q]
  <2>1. /\ caps = {} /\ chgscan = {} /\ bulk = {} /\ trigwait = {} /\ chgscan' = {} /\ bulk' = {} /\ caps' = {new}
    BY <1>3, GateWon DEF Capture!Arm
  <2>2. /\ trigwait' = (IF q.trig # Off THEN {[conn |-> c, id |-> ops']} ELSE {})
        /\ adc_base' = Capture!BaseFor(q) /\ data' = Capture!CellsFor(q) /\ ~last_cap'.valid /\ met' = met
        /\ trig_reply' = Capture!Forgotten(q)
    <3>1. last_cap' = [last_cap EXCEPT !.valid = FALSE] /\ last_cap \in [valid : BOOLEAN, adc : BOOLEAN, la : BOOLEAN]
      BY <1>3, TypeParts DEF Capture!Arm, GateInv, RegionTypes
    <3>2. ~last_cap'.valid  BY <3>1
    <3> QED BY <1>3, <2>1, <3>2 DEF Capture!Arm
  <2>3. Capture!BaseFor(q)' = Capture!BaseFor(q) /\ Capture!CellsFor(q)' = Capture!CellsFor(q)
    BY <2>2 DEF Capture!BaseFor, Capture!CellsFor
  <2>4. (q.adc => adc_base' \in Capture!CellsFor(q)') /\ (q.la => 0 \in Capture!CellsFor(q)')
    <3>1. adc_base' \in Capture!PsramCells  BY <2>2, CellsTyped, TypeParts DEF GateInv
    <3> QED BY <2>2, <2>3, <3>1 DEF Capture!CellsFor, Capture!PsramCells
  <2>5. DataKept'
    <3>1. \A j \in caps' : j.req = q  BY <2>1
    <3> QED BY <2>1, <2>2, <2>3, <2>4, <3>1 DEF DataKept, Capture!ReadsOwnData
  <2>6. TriggerKept'
    <3>1. \A j \in caps' : j.req = q /\ j.conn = c /\ j.id = ops'  BY <2>1
    <3>2. "reply" \notin met' => trig_reply' = 0
      BY <1>3, <2>2, NothingWaits DEF Capture!Arm, Capture!Forgotten
    <3> QED BY <2>1, <2>2, <3>1, <3>2 DEF TriggerKept, Capture!ReplyHasItsTrigger
  <2> QED BY <2>5, <2>6 DEF ReadInv
<1> QED BY <1>1, <1>2, <1>3

\* The gate goes with the last job: a step after which there is none, nor a resumable capture that was not there.
LEMMA ReadNone ==
    ASSUME ReadInv, caps' = {}, chgscan' = {}, bulk' = {}, UNCHANGED <<last_cap, track, stale, data, adc_base>>,
           met \subseteq met', "reply" \notin met' => trig_reply' = 0
    PROVE  ReadInv'
<1>1. DataKept'  BY DEF ReadInv, DataKept, Capture!ReadsOwnData
<1>2. TriggerKept'  BY DEF TriggerKept, Capture!ReplyHasItsTrigger
<1> QED BY <1>1, <1>2 DEF ReadInv

\* The outcome of a capture that ends is that of its own trigger.
LEMMA OwnOutcome ==
    ASSUME GateInv, ReadInv, NEW j \in caps
    PROVE  /\ chgscan = {} /\ bulk = {} /\ caps \ {j} = {}
           /\ "reply" \notin met => Capture!Outcome = (IF j.req.trig # Off THEN j.id ELSE 0)
<1>1. chgscan = {} /\ bulk = {} /\ caps \ {j} = {}  BY DEF GateInv, SingleJob, AtMostOne
<1>2. CASE j.req.trig # Off
  <2>1. trigwait = {[conn |-> j.conn, id |-> j.id]}  BY <1>2 DEF ReadInv, TriggerKept
  <2>2. (CHOOSE t \in trigwait : TRUE) = [conn |-> j.conn, id |-> j.id]  BY <2>1
  <2> QED BY <1>1, <1>2, <2>1, <2>2 DEF Capture!Outcome
<1>3. CASE j.req.trig = Off
  BY <1>1, <1>3 DEF ReadInv, TriggerKept, Capture!Outcome
<1> QED BY <1>1, <1>2, <1>3

\* capture_poll: a capture ends well, in RAM, in the PSRAM, or with a stream that is scanned first.
LEMMA EndReads ==
    ASSUME GateInv, ReadInv, NEW j \in caps, Capture!CaptureDone(j) \/ Capture!DeepDone(j) \/ Capture!ChangesDone(j)
    PROVE  ReadInv'
<1> DEFINE own == IF j.req.trig # Off THEN j.id ELSE 0
<1>1. chgscan = {} /\ bulk = {} /\ caps \ {j} = {} /\ ("reply" \notin met => Capture!Outcome = own)
  BY OwnOutcome
<1>2. "upload" \notin met => /\ Capture!CellsFor(j.req) \subseteq data
                             /\ j.req.adc => adc_base \in Capture!CellsFor(j.req)
                             /\ j.req.la => 0 \in Capture!CellsFor(j.req)
  BY DEF ReadInv, DataKept
<1>3. CASE Capture!CaptureDone(j) \/ Capture!DeepDone(j)
  <2>1. /\ caps' = {} /\ chgscan' = {} /\ trig_reply' = 0 /\ met' = met
    BY <1>1, <1>3 DEF Capture!CaptureDone, Capture!DeepDone, Capture!Take
  <2>2. \A b \in bulk' : b.trig = Capture!Outcome /\ b.own = own
    <3>1. \E psram \in BOOLEAN : Capture!StartsFor(j, psram, Capture!Outcome)
      BY <1>3 DEF Capture!CaptureDone, Capture!DeepDone
    <3> QED BY <3>1, StartsForAll
  <2>3. TriggerKept'  BY <1>1, <2>1, <2>2 DEF TriggerKept, Capture!ReplyHasItsTrigger
  <2>4. CASE Capture!CaptureDone(j)
    <3>0. Capture!StartsFor(j, FALSE, Capture!Outcome) /\ UNCHANGED <<last_cap, track, stale, data, adc_base>>
      BY <2>4 DEF Capture!CaptureDone, Capture!regions
    <3>1. \A b \in bulk' : b.psram = FALSE  BY <3>0, StartsForAll
    <3>2. DataKept'  BY <2>1, <3>0, <3>1 DEF ReadInv, DataKept, Capture!ReadsOwnData
    <3> QED BY <2>3, <3>2 DEF ReadInv
  <2>5. CASE Capture!DeepDone(j)
    <3>1. /\ last_cap' = [valid |-> TRUE, adc |-> j.req.adc, la |-> j.req.la] /\ track' = Capture!CellsFor(j.req)
          /\ UNCHANGED <<data, adc_base>> /\ \A b \in bulk' : b.adc = j.req.adc /\ b.la = j.req.la
      <4>1. Capture!StartsFor(j, TRUE, Capture!Outcome)  BY <2>5 DEF Capture!DeepDone
      <4>2. \A b \in bulk' : b.adc = j.req.adc /\ b.la = j.req.la  BY <4>1, StartsForAll
      <4> QED BY <2>5, <4>2 DEF Capture!DeepDone
    <3>2. last_cap'.adc = j.req.adc /\ last_cap'.la = j.req.la  BY <3>1
    <3>3. met' \cap {"moved", "upload"} = {} => "upload" \notin met  BY <2>1
    <3>4. Capture!ReadsOwnData'  BY <1>2, <3>1, <3>3 DEF Capture!ReadsOwnData
    <3>5. DataKept'  BY <1>2, <2>1, <3>1, <3>2, <3>3, <3>4 DEF DataKept
    <3> QED BY <2>3, <3>5 DEF ReadInv
  <2> QED BY <1>3, <2>4, <2>5
<1>4. CASE Capture!ChangesDone(j)
  <2> DEFINE scan == [conn |-> j.conn, id |-> j.id, req |-> j.req, psram |-> TRUE]
  <2>1. /\ caps' = {} /\ chgscan' = {scan} /\ bulk' = {} /\ trig_reply' = Capture!Outcome /\ met' = met /\ j.req.chg
        /\ UNCHANGED <<data, adc_base>> /\ last_cap' = [last_cap EXCEPT !.valid = FALSE]
    BY <1>1, <1>4 DEF Capture!ChangesDone
  <2>2. ~last_cap'.valid
    <3>1. last_cap \in [valid : BOOLEAN, adc : BOOLEAN, la : BOOLEAN]
      BY TypeParts DEF GateInv, RegionTypes
    <3> QED BY <2>1, <3>1
  <2>3. Capture!CellsFor(j.req) = Capture!PsramCells  BY <2>1 DEF Capture!CellsFor
  <2>4. DataKept'  BY <1>2, <2>1, <2>2, <2>3 DEF DataKept, Capture!ReadsOwnData
  <2>5. TriggerKept'
    <3>1. \A s \in chgscan' : s.req = j.req /\ s.id = j.id  BY <2>1
    <3> QED BY <1>1, <2>1, <3>1 DEF TriggerKept, Capture!ReplyHasItsTrigger
  <2> QED BY <2>4, <2>5 DEF ReadInv
<1> QED BY <1>3, <1>4

\* A capture that fails or is given up, a scan that fails, a reload behind the gate.
LEMMA FailReads ==
    ASSUME GateInv, ReadInv,
           (\E j \in caps : Capture!CaptureFails(j)) \/ Capture!TriggerTimeout \/ Capture!ScanFails
    PROVE  ReadInv'
<1>1. caps' = {} /\ chgscan' = {} /\ bulk' = {}
  <2>1. ASSUME NEW j \in caps, Capture!CaptureFails(j) PROVE caps' = {} /\ chgscan' = {} /\ bulk' = {}
    BY <2>1, OwnOutcome DEF Capture!CaptureFails
  <2>2. CASE Capture!TriggerTimeout
    <3>1. PICK t \in trigwait : caps' = {j \in caps : j.conn # t.conn} /\ UNCHANGED <<chgscan, bulk>>
      BY <2>2 DEF Capture!TriggerTimeout
    <3>2. PICK j \in caps : j.conn = t.conn
      BY DEF GateInv, TriggersFollow
    <3>3. caps' = {} /\ chgscan = {} /\ bulk = {}
      BY <3>1, <3>2 DEF GateInv, SingleJob, AtMostOne
    <3> QED BY <3>1, <3>3
  <2>3. CASE Capture!ScanFails
    <3>1. chgscan # {} /\ chgscan' = {} /\ UNCHANGED <<caps, bulk>>
      BY <2>3 DEF Capture!ScanFails
    <3> QED BY <3>1 DEF GateInv, SingleJob
  <2> QED BY <2>1, <2>2, <2>3
<1>2. UNCHANGED <<last_cap, track, stale, data, adc_base, met>>
  BY DEF Capture!CaptureFails, Capture!TriggerTimeout, Capture!ScanFails, Capture!regions
<1>3. "reply" \notin met => trig_reply' = 0
  <2>1. trigwait # {} /\ "reply" \notin met => trig_reply = 0
    BY DEF GateInv, SingleJob, TriggersFollow, ReadInv, TriggerKept
  <2> QED BY <2>1 DEF Capture!CaptureFails, Capture!TriggerTimeout, Capture!ScanFails
<1> QED BY <1>1, <1>2, <1>3, ReadNone

\* A scan ends and its read-back begins.
LEMMA ScanReads == ASSUME GateInv, ReadInv, Capture!ScanEnds PROVE ReadInv'
<1>1. PICK s \in chgscan : /\ chgscan' = {} /\ Capture!StartsFor(s, TRUE, trig_reply) /\ Capture!Take(trig_reply)
                           /\ UNCHANGED <<caps, last_cap, track, stale, data, adc_base, met>>
  BY DEF Capture!ScanEnds, Capture!regions
<1>2. caps = {} /\ trig_reply' = 0  BY <1>1 DEF GateInv, SingleJob, Capture!Take
<1>3. \A b \in bulk' : b.trig = trig_reply /\ b.own = (IF s.req.trig # Off THEN s.id ELSE 0)
  BY <1>1 DEF Capture!StartsFor, Capture!Starts
<1>4. "upload" \notin met => Capture!PsramCells \subseteq data  BY DEF ReadInv, DataKept
<1>5. adc_base \in Capture!PsramCells /\ 0 \in Capture!PsramCells
  BY TypeParts DEF GateInv, RegionTypes, Capture!PsramCells
<1>6. DataKept'  BY <1>1, <1>2, <1>4, <1>5 DEF ReadInv, DataKept, Capture!ReadsOwnData
<1>7. TriggerKept'  BY <1>1, <1>2, <1>3 DEF ReadInv, TriggerKept, Capture!ReplyHasItsTrigger
<1> QED BY <1>6, <1>7 DEF ReadInv

\* bulk_pump: a frame is queued, the client reads, or the read-back ends.
LEMMA PumpReads ==
    ASSUME GateInv, ReadInv, NEW b \in bulk, Capture!BulkSend(b) \/ Capture!BulkOver(b) \/ Capture!Drain(b)
    PROVE  ReadInv'
<1>1. UNCHANGED <<caps, trigwait, trig_reply, chgscan, last_cap, track, stale, data, adc_base, met>>
  BY DEF Capture!BulkSend, Capture!BulkOver, Capture!Drain, Capture!trigger, Capture!regions
<1>2. \A n \in bulk' : n.psram = b.psram /\ n.adc = b.adc /\ n.la = b.la /\ n.trig = b.trig /\ n.own = b.own
  <2>1. b \in ReadBacks  BY TypeParts DEF GateInv, JobTypes
  <2>2. \/ bulk' = {}
        \/ \E room : bulk' = {[b EXCEPT !.left = b.left - 1, !.room = room]}
        \/ \E room : bulk' = {[b EXCEPT !.room = room]}
    BY DEF Capture!BulkSend, Capture!BulkOver, Capture!Drain
  <2> QED BY <2>1, <2>2 DEF ReadBacks
<1>3. \A q : Capture!CellsFor(q)' = Capture!CellsFor(q)
  BY <1>1 DEF Capture!CellsFor, Capture!BaseFor
<1>4. DataKept'  BY <1>1, <1>2, <1>3 DEF ReadInv, DataKept, Capture!ReadsOwnData
<1>5. TriggerKept'  BY <1>1, <1>2 DEF ReadInv, TriggerKept, Capture!ReplyHasItsTrigger
<1> QED BY <1>4, <1>5 DEF ReadInv

\* A read-back that starts without a capture: of RAM, or of the capture that can be resumed.
LEMMA OtherReads ==
    ASSUME GateInv, ReadInv, NEW c \in Conns, Capture!RamRead(c) \/ Capture!CaptureRead(c)
    PROVE  ReadInv'
<1>1. /\ caps = {} /\ chgscan = {} /\ trigwait = {}
      /\ UNCHANGED <<caps, trigwait, chgscan, last_cap, track, stale, data, adc_base, met>>
  BY GateWon DEF Capture!RamRead, Capture!CaptureRead, Capture!trigger, Capture!regions
<1>2. CASE Capture!RamRead(c)
  <2>1. "reply" \notin met => trig_reply = 0  BY <1>2, NothingWaits DEF Capture!RamRead
  <2>2. trig_reply' = 0 /\ Capture!Starts(c, FALSE, FALSE, FALSE, trig_reply, 0)
    BY <1>2 DEF Capture!RamRead, Capture!Take
  <2>3. \A b \in bulk' : b.psram = FALSE /\ b.trig = trig_reply /\ b.own = 0
    BY <2>2 DEF Capture!Starts
  <2>4. DataKept'  BY <1>1, <2>3 DEF ReadInv, DataKept, Capture!ReadsOwnData
  <2>5. TriggerKept'
    BY <1>1, <2>1, <2>2, <2>3 DEF ReadInv, TriggerKept, Capture!ReplyHasItsTrigger
  <2> QED BY <2>4, <2>5 DEF ReadInv
<1>3. CASE Capture!CaptureRead(c)
  <2>1. /\ Capture!Starts(c, TRUE, last_cap.adc, last_cap.la, 0, 0) /\ UNCHANGED trig_reply
        /\ last_cap.valid /\ ~stale
    BY <1>3 DEF Capture!CaptureRead, Capture!trigger
  <2>2. \A b \in bulk' : b.adc = last_cap.adc /\ b.la = last_cap.la /\ b.trig = 0 /\ b.own = 0
    BY <2>1 DEF Capture!Starts
  <2>3. DataKept'  BY <1>1, <2>1, <2>2 DEF ReadInv, DataKept, Capture!ReadsOwnData
  <2>4. TriggerKept'  BY <1>1, <2>1, <2>2 DEF ReadInv, TriggerKept, Capture!ReplyHasItsTrigger
  <2> QED BY <2>3, <2>4 DEF ReadInv
<1> QED BY <1>2, <1>3

\* The gateware is loaded anew: nothing in the PSRAM is anyone's, and what was marked is stale.
LEMMA ReloadReads == ASSUME GateInv, ReadInv, NEW c \in Conns, Capture!GatewareReload(c) PROVE ReadInv'
<1>1. caps' = {} /\ chgscan' = {} /\ bulk' = {} /\ trigwait' = {} /\ trig_reply' = 0
  BY GateWon DEF Capture!GatewareReload
<1>2. /\ UNCHANGED <<last_cap, track, met>> /\ stale' = (stale \/ track # {})
  BY DEF Capture!GatewareReload
<1>3. ~stale' /\ last_cap'.valid /\ met' \cap {"moved", "upload"} = {} => ~last_cap.adc /\ ~last_cap.la
  BY <1>2 DEF ReadInv, DataKept
<1>4. DataKept'  BY <1>1, <1>2, <1>3 DEF DataKept, Capture!ReadsOwnData
<1>5. TriggerKept'  BY <1>1 DEF TriggerKept, Capture!ReplyHasItsTrigger
<1> QED BY <1>4, <1>5 DEF ReadInv

\* The handlers and bytes that write the PSRAM: SCPI and console captures, waveform uploads, the chunks of an update.
LEMMA WriteReads ==
    ASSUME GateInv, ReadInv,
           \/ \E c \in Conns, where \in {{}, {adc_base}, {0}} : Capture!Brief(c, where)
           \/ \E c \in Conns, psram \in BOOLEAN : Capture!LoadBin(c, psram)
           \/ \E c \in Conns : Capture!LoadBytes(c)
           \/ Capture!OtaData
    PROVE  ReadInv'
<1>1. UNCHANGED <<caps, chgscan, bulk, trigwait, trig_reply, last_cap, track, adc_base, met>>
  BY DEF Capture!Brief, Capture!LoadBin, Capture!LoadBytes, Capture!OtaData, Capture!trigger
<1>2. "upload" \notin met => caps = {} /\ chgscan = {} /\ bulk = {}
  <2>1. ASSUME NEW c \in Conns, Capture!Command(c), Capture!Begin(c) PROVE caps = {} /\ chgscan = {} /\ bulk = {}
    BY <2>1, GateWon
  <2>2. load # {} /\ "upload" \notin met => caps = {} /\ chgscan = {} /\ bulk = {}
    BY DEF GateInv, JobsOwned
  <2>3. ota => caps = {} /\ chgscan = {} /\ bulk = {}  BY DEF GateInv, SingleJob
  <2> QED BY <2>1, <2>2, <2>3 DEF Capture!Brief, Capture!LoadBin, Capture!LoadBytes, Capture!OtaData
<1>3. (\E where : Capture!Written(where)) \/ UNCHANGED <<data, stale>>
  BY DEF Capture!Brief, Capture!LoadBin, Capture!LoadBytes, Capture!OtaData
<1>4. CASE UNCHANGED <<data, stale>>
  BY <1>1, <1>4, ReadSame
<1> QED BY <1>1, <1>2, <1>3, <1>4, ReadWritten

\* The gateware, uploads and updates without a write, and a hold that ends.
LEMMA AsideReads ==
    ASSUME ReadInv,
           \/ UNCHANGED captureVars
           \/ Capture!Fire \/ Capture!Complete \/ Capture!LoadStall \/ Capture!HoldExpires \/ Capture!OtaEnd
           \/ \E c \in Conns : Capture!LoadEnds(c) \/ Capture!Replay(c) \/ Capture!OtaBegin(c)
           \/ \E c \in Conns, first \in BOOLEAN, good \in BOOLEAN : Capture!Load(c, first, good)
    PROVE  ReadInv'
<1>1. UNCHANGED <<caps, chgscan, bulk, trigwait, trig_reply, last_cap, track, stale, data, adc_base>>
  BY DEF captureVars, Capture!Fire, Capture!Complete, Capture!LoadStall, Capture!HoldExpires, Capture!OtaEnd,
         Capture!LoadEnds, Capture!Replay, Capture!OtaBegin, Capture!Load, Capture!trigger, Capture!regions
<1>2. met \subseteq met'
  BY DEF captureVars, Capture!Fire, Capture!Complete, Capture!LoadStall, Capture!HoldExpires, Capture!OtaEnd,
         Capture!LoadEnds, Capture!Replay, Capture!OtaBegin, Capture!Load
<1> QED BY <1>1, <1>2, ReadSame

\* command_handler_conn_closed: the jobs of the connection go, the others stay as they are.
LEMMA ClosedReads == ASSUME GateInv, ReadInv, NEW c \in Conns, Capture!ConnClosed(c) PROVE ReadInv'
<1>1. /\ caps' \subseteq caps /\ chgscan' \subseteq chgscan /\ bulk' \subseteq bulk
      /\ UNCHANGED <<trig_reply, last_cap, track, stale, data, adc_base>> /\ met \subseteq met'
  BY DEF Capture!ConnClosed, Capture!Of, Capture!regions
<1>2. \A q : Capture!CellsFor(q)' = Capture!CellsFor(q)
  BY <1>1 DEF Capture!CellsFor, Capture!BaseFor
<1>3. DataKept'  BY <1>1, <1>2 DEF ReadInv, DataKept, Capture!ReadsOwnData
<1>4. \A j \in caps' : trigwait' = IF j.req.trig # Off THEN {[conn |-> j.conn, id |-> j.id]} ELSE {}
  <2>1. ASSUME NEW j \in caps' PROVE trigwait' = IF j.req.trig # Off THEN {[conn |-> j.conn, id |-> j.id]} ELSE {}
    <3>1. j \in caps /\ j.conn # c  BY DEF Capture!ConnClosed, Capture!Of
    <3>2. \A t \in trigwait : t.conn = j.conn  BY <3>1 DEF ReadInv, TriggerKept
    <3>3. trigwait' = trigwait  BY <3>1, <3>2 DEF Capture!ConnClosed, Capture!Of
    <3> QED BY <3>1, <3>3 DEF ReadInv, TriggerKept
  <2> QED BY <2>1
<1>5. "reply" \notin met' /\ chgscan' = {} => trig_reply' = 0
  <2>1. CASE chgscan = {}
    BY <1>1, <2>1 DEF ReadInv, TriggerKept
  <2>2. CASE chgscan # {}
    BY <2>2 DEF Capture!ConnClosed, Capture!Of
  <2> QED BY <2>1, <2>2
<1>6. TriggerKept'  BY <1>1, <1>4, <1>5 DEF ReadInv, TriggerKept, Capture!ReplyHasItsTrigger
<1> QED BY <1>3, <1>6 DEF ReadInv

\* So every step of the captures keeps what is read back.
LEMMA ReadInvStep == ASSUME GateInv, ReadInv, [Capture!Next]_captureVars PROVE ReadInv'
<1>1. ASSUME NEW j \in caps, Capture!CaptureDone(j) \/ Capture!DeepDone(j) \/ Capture!ChangesDone(j) \/ Capture!CaptureFails(j)
      PROVE  ReadInv'
  BY <1>1, EndReads, FailReads
<1>2. ASSUME NEW b \in bulk, Capture!BulkSend(b) \/ Capture!BulkEnds(b) \/ Capture!BulkStall(b) \/ Capture!Drain(b)
      PROVE  ReadInv'
  BY <1>2, PumpReads DEF Capture!BulkEnds, Capture!BulkStall
<1>3. CASE UNCHANGED captureVars
  BY <1>3, AsideReads
<1>4. CASE Capture!Next
  <2>1. ASSUME NEW c \in Conns, NEW q \in MCRequests, Capture!ArmRefused(c, q) \/ Capture!ArmFails(c, q) \/ Capture!Arm(c, q)
        PROVE  ReadInv'
    BY <2>1, ArmReads
  <2>2. ASSUME NEW c \in Conns, NEW where \in {{}, {adc_base}, {0}}, Capture!Brief(c, where)
        PROVE  ReadInv'
    BY <2>2, WriteReads
  <2>3. ASSUME NEW c \in Conns, \/ Capture!RamRead(c) \/ Capture!CaptureRead(c) \/ Capture!GatewareReload(c)
                                \/ Capture!LoadBytes(c) \/ Capture!LoadEnds(c) \/ Capture!Replay(c)
                                \/ Capture!OtaBegin(c) \/ Capture!ConnClosed(c)
        PROVE  ReadInv'
    BY <2>3, OtherReads, ReloadReads, WriteReads, AsideReads, ClosedReads
  <2>4. ASSUME NEW c \in Conns, NEW first \in BOOLEAN, NEW good \in BOOLEAN, Capture!Load(c, first, good)
        PROVE  ReadInv'
    BY <2>4, AsideReads
  <2>5. ASSUME NEW c \in Conns, NEW psram \in BOOLEAN, Capture!LoadBin(c, psram)
        PROVE  ReadInv'
    BY <2>5, WriteReads
  <2>6. ASSUME \/ Capture!Fire \/ Capture!Complete \/ Capture!TriggerTimeout \/ Capture!ScanEnds \/ Capture!ScanFails
               \/ Capture!LoadStall \/ Capture!HoldExpires \/ Capture!OtaData \/ Capture!OtaEnd
        PROVE  ReadInv'
    BY <2>6, AsideReads, FailReads, ScanReads, WriteReads
  <2> QED BY <1>1, <1>2, <1>4, <2>1, <2>2, <2>3, <2>4, <2>5, <2>6 DEF Capture!Next, Capture!CapturePoll, Capture!BulkPoll
<1> QED BY <1>3, <1>4

\* At the start nothing was captured.
LEMMA ReadInitially == Capture!Init => ReadInv
<1> SUFFICES ASSUME Capture!Init PROVE ReadInv
  OBVIOUS
<1>1. caps = {} /\ chgscan = {} /\ bulk = {} /\ trig_reply = 0 /\ last_cap.valid = FALSE
  BY DEF Capture!Init
<1> QED BY <1>1 DEF ReadInv, DataKept, TriggerKept, Capture!ReadsOwnData, Capture!ReplyHasItsTrigger

\* The invariants of the parts together; each part's is kept by its steps whichever part is in use, or while it is.
BenchInv ==
    /\ GateInv /\ ReadInv
    /\ which = "trace" => TraceInv
    /\ which = "scpi" => ScpiInv
    /\ which = "fabric" => ImageInv

\* It holds of every behaviour of the run.
LEMMA BenchInvariant == MCSpec => []BenchInv
<1>1. [MCNext]_mcVars => /\ UNCHANGED which /\ [Capture!Next]_captureVars /\ [Trace!Next]_traceVars
                         /\ [Lines!Next]_scpiVars /\ [Image!Next]_fabricVars
  BY DEF MCNext, Rest, mcVars
<1>2. MCInit => BenchInv
  BY GateInitially, ReadInitially, TraceInitially, ScpiInitially, ImageInitially DEF MCInit, BenchInv
<1>3. BenchInv /\ [MCNext]_mcVars => BenchInv'
  BY <1>1, GateInvStep, ReadInvStep, TraceInvStep, ScpiInvStep, ImageInvStep DEF BenchInv
<1> QED BY <1>2, <1>3, PTL DEF MCSpec

\* command_handler_capture.c, signal_engine.c, scpi_server.c: for any number of clients, commands, faults, traces, SCPI
\* lines and JSON replies, a read-back sends the data and the trigger outcome of its own capture, what is reported done
\* was written meanwhile, a replayed trace is the one uploaded, and an SCPI reply leaves whole.
THEOREM DataIsIntact == MCSpec => []DataIntact
<1>1. BenchInv => DataIntact
  <2>1. ReadInv => Capture!ReadsOwnData /\ Capture!ReplyHasItsTrigger
    BY DEF ReadInv, DataKept, TriggerKept
  <2>2. TraceInv => Trace!PlayedTraceIntact /\ Trace!CotrigKnown  BY DEF TraceInv
  <2>3. ScpiInv => Lines!JsonTraceOwn /\ Lines!ReplyWhole  BY ScpiReplyWhole DEF ScpiInv
  <2> QED BY <2>1, <2>2, <2>3, ImageKnown DEF BenchInv, DataIntact
<1> QED BY <1>1, BenchInvariant, PTL

\* The type invariant of the instruments: captures, pins, analog outputs, ranges, traces, gateware and SCPI.
THEOREM BenchTypes == MCSpec => []TypesOK
<1> DEFINE Inv == (which = "pins" => PinsInv) /\ (which = "analog" => OutputInv) /\ (which = "range" => RangeInv)
<1>1. BenchInv => /\ Capture!TypeOK
                  /\ which = "trace" => Trace!TypeOK
                  /\ which = "scpi" => Lines!TypeOK
                  /\ which = "fabric" => Image!TypeOK
  BY TraceTypeOK, ScpiTypeOK, ImageKnown DEF BenchInv, GateInv
<1>2. Inv => /\ which = "pins" => Pins!TypeOK
             /\ which = "analog" => Analog!TypeOK
             /\ which = "range" => Ranges!TypeOK
  BY DEF PinsInv, OutputInv, RangeInv
<1>3. MCSpec => [](which \in {"capture", "pins", "analog", "range", "trace", "fabric", "scpi"})
  <2>1. MCInit => which \in {"capture", "pins", "analog", "range", "trace", "fabric", "scpi"}
    BY DEF MCInit
  <2>2. [MCNext]_mcVars => UNCHANGED which  BY DEF MCNext, Rest, mcVars
  <2>3. which \in {"capture", "pins", "analog", "range", "trace", "fabric", "scpi"} /\ [MCNext]_mcVars
          => (which \in {"capture", "pins", "analog", "range", "trace", "fabric", "scpi"})'
    BY <2>2
  <2> QED BY <2>1, <2>3, PTL DEF MCSpec
<1>4. which \in {"capture", "pins", "analog", "range", "trace", "fabric", "scpi"} /\ BenchInv /\ Inv => TypesOK
  <2> SUFFICES ASSUME which \in {"capture", "pins", "analog", "range", "trace", "fabric", "scpi"}, BenchInv, Inv
               PROVE  TypesOK
    OBVIOUS
  <2>1. CASE which = "capture"
    BY <1>1, <2>1 DEF TypesOK
  <2>2. CASE which = "pins"
    BY <1>2, <2>2 DEF TypesOK
  <2>3. CASE which = "analog"
    BY <1>2, <2>3 DEF TypesOK
  <2>4. CASE which = "range"
    BY <1>2, <2>4 DEF TypesOK
  <2>5. CASE which = "trace"
    BY <1>1, <2>5 DEF TypesOK
  <2>6. CASE which = "fabric"
    BY <1>1, <2>6 DEF TypesOK
  <2>7. CASE which = "scpi"
    BY <1>1, <2>7 DEF TypesOK
  <2> QED BY <2>1, <2>2, <2>3, <2>4, <2>5, <2>6, <2>7
<1>5. MCSpec => []Inv  BY InstrumentsInvariant
<1> QED BY <1>3, <1>4, <1>5, BenchInvariant, PTL
================================================================================
