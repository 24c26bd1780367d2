---------------------------------- MODULE Scpi ----------------------------------
(***************************************************************************)
(* scpi_server.c on the hardware worker: one line is parsed and executed     *)
(* whole, its reply is batched into resp_buf and paced into the ring of its  *)
(* connection while the worker waits. The captured or uploaded trace lives   *)
(* in adc_pool, which the JSON commands fill too; a generation tells whose   *)
(* data the pool holds. Values, units and CSV are left out; a cell of the    *)
(* pool is a run of samples, and a reply is counted in ring writes.          *)
(***************************************************************************)
EXTENDS Naturals

CONSTANTS Cells,            \* the pool's trace region
          RespBuf,          \* RESP_BUF_SIZE
          Ring, MinChunk,   \* the ring of the connection, SCPI_SEND_MIN_CHUNK
          Stall,            \* SCPI_SEND_STALL_MS, in 1 ms waits
          ErrQueue,         \* SCPI_ERROR_QUEUE_SIZE
          MaxLines, MaxJson

ConstantsOK == {Cells, RespBuf, Ring, MinChunk, Stall, ErrQueue} \subseteq Nat \ {0} /\ MinChunk <= Ring
               /\ {MaxLines, MaxJson} \subseteq Nat

VARIABLES
    src,            \* src, sense_points and sense_srate_hz: the shape, whether the rest is as *RST leaves it
    output_on,
    scpi_trace_gen, scpi_replay_bytes,
    s_gen, cells,   \* adc_pool: its generation, and who wrote each cell
    json,           \* json_trace_gen and replay_len
    dacOn,          \* what the DAC plays: "off", "wave", "user", "json"
    playing,        \* the cells it was given
    gateBy,         \* the heavy gate is free, or a JSON job runs
    board, limits,  \* safe mode or a digital board, fixed at boot; dac_limits are set
    errs,           \* entries of the error queue
    reply,          \* the line's reply: left to write, in resp_buf, into the ring; waited since progress
    ring, open,     \* the connection: bytes in its ring, up or not
    lines, jsons

scVars == <<src, output_on, scpi_trace_gen, scpi_replay_bytes, s_gen, cells, json, dacOn, playing,
            gateBy, board, limits,
            errs, reply, ring, open, lines, jsons>>
scTrace == <<scpi_trace_gen, scpi_replay_bytes, s_gen, cells>>
scWorld == <<json, gateBy, board, limits, jsons>>
scConn == <<ring, open>>
scDac == <<dacOn, playing>>

NoReply == [left |-> 0, buf |-> 0, sent |-> 0, whole |-> 0, waited |-> 0, torn |-> FALSE]
Pool == 1 .. Cells

TypeOK ==
    /\ src \in [shape : {"wave", "user"}, fresh : BOOLEAN] /\ output_on \in BOOLEAN
    /\ {scpi_trace_gen, s_gen, json.gen} \subseteq 0 .. MaxLines + MaxJson
    /\ scpi_replay_bytes \in 0 .. Cells /\ json.len \in 0 .. Cells
    /\ cells \in [Pool -> {"none", "scpi", "json"}]
    /\ dacOn \in {"off", "wave", "user", "json"} /\ playing \in SUBSET {"none", "scpi", "json"}
    /\ gateBy \in {"free", "json"} /\ board \in {"full", "safe", "digital"} /\ limits \in BOOLEAN
    /\ errs \in 0 .. ErrQueue /\ ring \in 0 .. Ring /\ open \in BOOLEAN
    /\ reply.left \in 0 .. Cells + 1 /\ reply.buf \in 0 .. RespBuf /\ reply.waited \in 0 .. Stall

\* scpi_reset_state at the first line; the pool is empty.
Init ==
    /\ src = [shape |-> "wave", fresh |-> TRUE] /\ output_on = FALSE /\ scpi_trace_gen = 0 /\ scpi_replay_bytes = 0
    /\ s_gen = 0 /\ cells = [c \in Pool |-> "none"] /\ json = [gen |-> 0, len |-> 0]
    /\ dacOn = "off" /\ playing = {} /\ gateBy = "free"
    /\ board \in {"full", "safe", "digital"} /\ limits = FALSE
    /\ errs = 0 /\ reply = NoReply /\ ring = 0 /\ open = TRUE /\ lines = 0 /\ jsons = 0
--------------------------------------------------------------------------------
(* The pool's generations. *)

\* adc_pool_holds; 0 means nothing kept.
Holds(gen) == gen # 0 /\ gen = s_gen

\* scpi_trace_held.
TraceHeld == scpi_replay_bytes > 0 /\ Holds(scpi_trace_gen)
--------------------------------------------------------------------------------
(* A line: the worker is free, so nothing of an earlier reply is left (scpi_dispatch_line). *)

Busy == reply.left + reply.buf > 0

Line == ~Busy /\ open /\ lines < MaxLines /\ lines' = lines + 1

\* SCPI_ErrorPush: a full queue keeps its entries.
ErrorPush == errs' = (IF errs = ErrQueue THEN errs ELSE errs + 1) /\ reply' = NoReply

Answer(n) == reply' = [NoReply EXCEPT !.left = n, !.whole = n] /\ UNCHANGED errs

Silent == reply' = NoReply /\ UNCHANGED errs

\* scpi_refused_by_gate: the refusals of the JSON verb a command stands for.
RefusedByGate(verb) == board = "safe" \/ (board = "digital" /\ verb \in {"generate", "capture", "measure", "load"})

\* command_handler_acquire_adc; every holder on the worker releases it before its line ends.
AcquireAdc == gateBy = "free"

\* A query without state: ping, the Wi-Fi state, the address, the settings, OUTPut?, TRACe:POINts?, the power rails.
Query ==
    /\ Line /\ (Answer(1) \/ ErrorPush)
    /\ UNCHANGED <<src, output_on, scTrace, scDac, scWorld, scConn>>

\* SYSTem:IDENtity:POP?: a nonce that does not decode is refused, and so is a device without a key.
Identity ==
    /\ Line /\ (Answer(1) \/ ErrorPush)
    /\ UNCHANGED <<src, output_on, scTrace, scDac, scWorld, scConn>>

\* SYSTem:ERRor?: takes the oldest entry.
ErrorNext ==
    /\ Line /\ errs' = (IF errs = 0 THEN 0 ELSE errs - 1) /\ reply' = [NoReply EXCEPT !.left = 1, !.whole = 1]
    /\ UNCHANGED <<src, output_on, scTrace, scDac, scWorld, scConn>>

\* [SOURce]:FUNCtion.
SrcFunction ==
    /\ Line /\ \E s \in {"wave", "user"} : src' = [src EXCEPT !.shape = s]
    /\ Silent /\ UNCHANGED <<output_on, scTrace, scDac, scWorld, scConn>>

\* [SOURce]:FREQuency, VOLTage, OFFSet, SRATe and DURation: a value out of range is an error and changes nothing.
SrcSetting ==
    /\ Line
    /\ \/ ErrorPush /\ UNCHANGED src
       \/ Silent /\ src' = [src EXCEPT !.fresh = FALSE]
    /\ UNCHANGED <<output_on, scTrace, scDac, scWorld, scConn>>

\* SENSe:SWEep:POINts and SENSe:SRATe.
SenseSetting ==
    /\ Line
    /\ \/ ErrorPush /\ UNCHANGED src
       \/ Silent /\ src' = [src EXCEPT !.fresh = FALSE]
    /\ UNCHANGED <<output_on, scTrace, scDac, scWorld, scConn>>

\* *RST: dac_stop and scpi_reset_state.
Rst ==
    /\ Line /\ Silent
    /\ dacOn' = "off" /\ playing' = {}
    /\ src' = [shape |-> "wave", fresh |-> TRUE] /\ output_on' = FALSE
    /\ scpi_trace_gen' = 0 /\ scpi_replay_bytes' = 0
    /\ UNCHANGED <<s_gen, cells, scWorld, scConn>>

\* output_start: USER plays the kept trace, and is refused without one.
OutputStart ==
    IF src.shape = "user"
    THEN /\ TraceHeld /\ dacOn' = "user" /\ playing' = {cells[c] : c \in 1 .. scpi_replay_bytes}
    ELSE dacOn' = "wave" /\ playing' = {}

\* OUTPut ON: refused by the gate, the limits or the engine, or played.
OutputOn ==
    /\ Line
    /\ \/ ErrorPush /\ UNCHANGED <<output_on, scDac>>
       \/ ~RefusedByGate("generate") /\ ~limits /\ OutputStart /\ output_on' = TRUE /\ Silent
    /\ UNCHANGED <<src, scTrace, scWorld, scConn>>

\* OUTPut OFF.
OutputOff ==
    /\ Line
    /\ \/ RefusedByGate("dac_stop") /\ ErrorPush /\ UNCHANGED <<output_on, scDac>>
       \/ ~RefusedByGate("dac_stop") /\ Silent /\ output_on' = FALSE /\ dacOn' = "off" /\ playing' = {}
    /\ UNCHANGED <<src, scTrace, scWorld, scConn>>

--------------------------------------------------------------------------------
(* The lines that fill the pool or drive the pins. *)

\* As if a capture were read back into the pool under the generation it had.
TakeNothing == scpi_trace_gen' = scpi_trace_gen /\ UNCHANGED s_gen

\* adc_pool_take.
Take == s_gen' = s_gen + 1 /\ scpi_trace_gen' = s_gen + 1

Written(from, to, who) == [c \in Pool |-> IF c \in from .. to THEN who ELSE cells[c]]

\* scpi_readQ, its capture good or failed; a failed one leaves part of a capture.
Read ==
    /\ Line
    /\ IF RefusedByGate("capture") \/ ~AcquireAdc THEN ErrorPush /\ UNCHANGED scTrace
       ELSE /\ Take
            /\ \E n \in Pool :
                 /\ cells' = Written(1, n, "scpi")
                 /\ \/ scpi_replay_bytes' = n /\ Answer(n)
                    \/ scpi_replay_bytes' = 0 /\ ErrorPush
    /\ UNCHANGED <<src, output_on, scDac, scWorld, scConn>>

\* scpi_measureQ: as READ?, and it plays the waveform and stops the DAC.
Measure ==
    /\ Line
    /\ IF RefusedByGate("measure") \/ limits \/ ~AcquireAdc
       THEN ErrorPush /\ UNCHANGED <<scTrace, scDac, output_on>>
       ELSE /\ Take /\ output_on' = FALSE /\ dacOn' = "off" /\ playing' = {}
            /\ \E n \in Pool :
                 /\ cells' = Written(1, n, "scpi")
                 /\ \/ scpi_replay_bytes' = n /\ Answer(n)
                    \/ scpi_replay_bytes' = 0 /\ ErrorPush
    /\ UNCHANGED <<src, scWorld, scConn>>

\* DIAGnostic:PATTern?: the scratch region, under the gate and without hardware.
Pattern ==
    /\ Line /\ IF AcquireAdc THEN Answer(Cells) \/ ErrorPush ELSE ErrorPush
    /\ UNCHANGED <<src, output_on, scTrace, scDac, scWorld, scConn>>

\* DIAGnostic:CAPture?: ADC and LA samples into the scratch region; an LA-only one runs on a digital board.
DiagCapture ==
    /\ Line
    /\ \E adc \in BOOLEAN :
         IF RefusedByGate(IF adc THEN "capture" ELSE "la") \/ ~AcquireAdc THEN ErrorPush ELSE Answer(2) \/ ErrorPush
    /\ UNCHANGED <<src, output_on, scTrace, scDac, scWorld, scConn>>

\* scpi_trace_data: a chunk of one cell at an offset. The pool is taken over when somebody else filled it; text
\* that does not decode is refused after that, and may have written part of the chunk.
TraceData ==
    /\ Line
    /\ IF RefusedByGate("load") \/ ~AcquireAdc THEN ErrorPush /\ UNCHANGED scTrace
       ELSE /\ IF Holds(scpi_trace_gen) THEN UNCHANGED <<scpi_trace_gen, s_gen>> ELSE Take
            /\ \E at \in 0 .. Cells - 1 :
                 /\ cells' = Written(at + 1, at + 1, "scpi")
                 /\ \/ scpi_replay_bytes' = at + 1 /\ Silent
                    \/ UNCHANGED scpi_replay_bytes /\ ErrorPush
    /\ UNCHANGED <<src, output_on, scDac, scWorld, scConn>>

\* DIGital:OUTPut and DIGital:STEP through the pin table, which refuses a pin it has given away.
Digital ==
    /\ Line /\ (ErrorPush \/ (~RefusedByGate("la") /\ Silent))
    /\ UNCHANGED <<src, output_on, scTrace, scDac, scWorld, scConn>>

\* OUTPut:POWer<n>.
Power ==
    /\ Line /\ (ErrorPush \/ Silent)
    /\ UNCHANGED <<src, output_on, scTrace, scDac, scWorld, scConn>>
--------------------------------------------------------------------------------
(* The reply: cb_write batches into resp_buf, cb_flush and a full buffer send it paced. *)

\* The bytes of the reply that fit resp_buf; libscpi goes on writing while a line is left.
Batch ==
    /\ reply.left > 0 /\ reply.buf < RespBuf
    /\ \E n \in 1 .. RespBuf : /\ n <= reply.left /\ n <= RespBuf - reply.buf
                               /\ reply' = [reply EXCEPT !.left = @ - n, !.buf = @ + n, !.waited = 0]
    /\ UNCHANGED <<src, output_on, scTrace, scDac, scWorld, errs, ring, open, lines>>

Avail == IF open THEN Ring - ring ELSE 0
Lesser(a, b) == IF a < b THEN a ELSE b
Need == Lesser(reply.buf, MinChunk)

\* The buffer is full, or the line is written: it is sent.
Sending == reply.buf > 0 /\ (reply.buf = RespBuf \/ reply.left = 0)

\* send_paced: a write the ring takes whole.
SendSome ==
    /\ Sending /\ Avail >= Need
    /\ LET n == Lesser(reply.buf, Avail) IN
       /\ ring' = ring + n
       /\ reply' = [reply EXCEPT !.buf = @ - n, !.sent = @ + n, !.waited = 0]
    /\ UNCHANGED <<src, output_on, scTrace, scDac, scWorld, errs, open, lines>>

\* As if the wait had no end.
WaitOn == Sending /\ Avail < Need /\ reply.waited < Stall /\ UNCHANGED reply

\* No room: 1 ms, with the worker's heartbeat.
WaitMs == Sending /\ Avail < Need /\ reply.waited < Stall /\ reply' = [reply EXCEPT !.waited = @ + 1]

Wait == WaitMs /\ UNCHANGED <<src, output_on, scTrace, scDac, scWorld, errs, ring, open, lines>>

\* As if only the part at hand were given up.
AbortGoesOn == open' = open /\ reply' = [reply EXCEPT !.buf = 0, !.waited = 0]

\* resp_abort: the connection is closed and the rest of the line's reply is dropped.
Abort == open' = FALSE /\ reply' = NoReply

SendStalls ==
    /\ Sending /\ Avail < Need /\ reply.waited = Stall
    /\ Abort /\ UNCHANGED <<src, output_on, scTrace, scDac, scWorld, errs, ring, lines>>
--------------------------------------------------------------------------------
(* The world: the net task, the peer, and the JSON commands on the same worker between two lines. *)

NetDrains ==
    /\ ring > 0 /\ open /\ \E n \in 0 .. ring - 1 : ring' = n
    /\ UNCHANGED <<src, output_on, scTrace, scDac, scWorld, errs, reply, open, lines>>

PeerGone ==
    /\ open /\ open' = FALSE /\ ring' = 0
    /\ UNCHANGED <<src, output_on, scTrace, scDac, scWorld, errs, reply, lines>>

\* A new connection; the SCPI state is the device's.
PeerConnects ==
    /\ ~open /\ ~Busy /\ open' = TRUE /\ ring' = 0 /\ reply' = NoReply
    /\ UNCHANGED <<src, output_on, scTrace, scDac, scWorld, errs, lines>>

Json == ~Busy /\ jsons < MaxJson /\ jsons' = jsons + 1

\* A JSON capture or upload begins and takes the pool (dac_trace_note_capture, handle_load, handle_load_bin).
JsonFills ==
    /\ Json /\ gateBy = "free" /\ board = "full"
    /\ s_gen' = s_gen + 1
    /\ \E n \in Pool : cells' = Written(1, n, "json") /\ json' = [gen |-> s_gen + 1, len |-> n]
    /\ gateBy' \in {"free", "json"}
    /\ UNCHANGED <<src, output_on, scpi_trace_gen, scpi_replay_bytes, scDac, board, limits, errs, reply,
                   scConn, lines>>

JsonJobEnds ==
    /\ ~Busy /\ gateBy = "json" /\ gateBy' = "free"
    /\ UNCHANGED <<src, output_on, scTrace, scDac, json, board, limits, jsons, errs, reply, scConn, lines>>

\* handle_replay from RAM.
JsonReplay ==
    /\ Json /\ Holds(json.gen) /\ json.len > 0 /\ board = "full"
    /\ dacOn' = "json" /\ playing' = {cells[c] : c \in 1 .. json.len}
    /\ UNCHANGED <<src, output_on, scTrace, json, gateBy, board, limits, errs, reply, scConn, lines>>

\* dac_limits set or cleared; setting them stops raw output.
JsonLimits ==
    /\ Json /\ limits' = ~limits /\ dacOn' = "off" /\ playing' = {}
    /\ UNCHANGED <<src, output_on, scTrace, json, gateBy, board, errs, reply, scConn, lines>>

ScpiLine == \/ Query \/ Identity \/ ErrorNext \/ SrcFunction \/ SrcSetting \/ SenseSetting \/ Rst \/ OutputOn
            \/ OutputOff \/ Read \/ Measure \/ Pattern \/ DiagCapture \/ TraceData \/ Digital \/ Power
Pacing == Batch \/ SendSome \/ Wait \/ SendStalls
Next == \/ ScpiLine \/ Pacing \/ NetDrains \/ PeerGone \/ PeerConnects
        \/ JsonFills \/ JsonJobEnds \/ JsonReplay \/ JsonLimits

\* The worker runs: its wait is a delay of 1 ms. The peer need not read.
Fairness == WF_scVars(Pacing)
Spec == Init /\ [][Next]_scVars /\ Fairness
--------------------------------------------------------------------------------
(* Properties. *)

\* A RAM trace a JSON client kept is replayed as it was captured or uploaded, whatever SCPI lines ran in between:
\* each of them that fills the pool takes a generation of its own (adc_pool.h, handle_replay).
JsonTraceOwn == dacOn = "json" => playing = {"json"}

\* A reply leaves whole, or its connection is closed: between lines nothing of a reply on an open connection is
\* missing, however slowly the ring drained (send_paced, cb_write, resp_abort).
ReplyWhole == ~Busy /\ open => reply.sent = reply.whole

\* The worker comes back from a reply nobody reads: other clients wait on it.
WorkerFreed == []<>~Busy

================================================================================
