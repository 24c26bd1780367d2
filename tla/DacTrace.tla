------------------------------- MODULE DacTrace ---------------------------------
(***************************************************************************)
(* Traces and how they are played out of the DAC (command_handler_dac.c,    *)
(* signal_engine.c): a capture or an upload leaves a trace in the RAM pool  *)
(* or in the DAC's region at the top of the PSRAM, `replay` plays it, the   *)
(* co-trigger defers a start to the t0 of the next capture.  Commands run   *)
(* on the hardware worker; the fabric triggers on its own.  A trace is a    *)
(* number, the order in which it was put there.                             *)
(***************************************************************************)
EXTENDS Naturals

CONSTANTS Conns, NoConn, MaxTraces, MaxOps

ConstantsOK == NoConn \notin Conns /\ MaxTraces \in Nat /\ MaxOps \in Nat

VARIABLES
    gate,                \* the connection that holds the heavy gate
    dcap,                \* the capture under way: "idle", "armed" (waits for its t0) or "runs"
    pool, held,          \* the trace in the RAM pool; adc_pool_holds(json_trace_gen)
    top, based,          \* the trace in the DAC's PSRAM region (0: overwritten); s_dac_ps_base points at it
    replay_len, replay_in_psram,   \* a trace to replay (its number stands for its length)
    upload,              \* load_bin: the connection, where to, how much arrived
    hold,                \* loaded_hold_conn
    play,                \* what the fabric's DAC plays or has staged, and whether that was asked for
    dac_pend,            \* the gateware's latch: the next start waits for t0
    s_cotrig_pending, s_cotrig_in_capture, s_dac_ps_active, dac_timed,
    traces, tOps,
    loadGhost            \* ghost: an upload writes over what plays

dtVars == <<gate, dcap, pool, held, top, based, replay_len, replay_in_psram, upload, hold, play, dac_pend,
            s_cotrig_pending, s_cotrig_in_capture, s_dac_ps_active, dac_timed, traces, tOps, loadGhost>>
trace == <<pool, held, top, based, replay_len, replay_in_psram, traces>>
dacEngine == <<play, dac_pend, s_cotrig_pending, s_cotrig_in_capture, s_dac_ps_active, dac_timed, loadGhost>>

NoUpload == [conn |-> NoConn, deep |-> FALSE]
Silent == [src |-> "none", id |-> 0, staged |-> FALSE, asked |-> FALSE]

\* heavy_begin: the gate is free, or this connection has it and nothing is in flight.
MayBegin(c) == gate \in {NoConn, c} /\ dcap = "idle" /\ upload = NoUpload

--------------------------------------------------------------------------------
(* The DAC engine, as functions of [play, pend, spend, incap]. *)

Engine == [play |-> play, pend |-> dac_pend, spend |-> s_cotrig_pending, incap |-> s_cotrig_in_capture]
Apply(e) == /\ play' = e.play /\ dac_pend' = e.pend
            /\ s_cotrig_pending' = e.spend /\ s_cotrig_in_capture' = e.incap

\* fpga_dac_arm_on_capture.
ArmOnCapture(e) == [e EXCEPT !.pend = TRUE, !.spend = TRUE]

\* fpga_stop_dac: STOP_DAC cancels a staged start too.
StopDac(e) == [play |-> Silent, pend |-> FALSE, spend |-> FALSE, incap |-> FALSE]

\* As if a stop before a start lost the co-trigger that was staged for it.
QuiesceForgets(e, force) == IF force \/ (e.play.src # "none" /\ ~e.play.staged) THEN StopDac(e) ELSE e

\* dac_rearm_quiesce: stop a running DAC (a staged one only when forced), then stage the co-trigger again.
Quiesce(e, force) ==
    IF force \/ (e.play.src # "none" /\ ~e.play.staged)
    THEN (IF e.spend THEN ArmOnCapture(StopDac(e)) ELSE StopDac(e)) ELSE e

\* The start opcodes: with dac_pend the fabric waits for the capture.
Start(e, src, id, asked) == [e EXCEPT !.play = [src |-> src, id |-> id, staged |-> e.pend, asked |-> asked]]

\* As if a capture arm forgot the co-trigger it took.
ConsumeForgets(e) == [e EXCEPT !.incap = FALSE, !.spend = FALSE]

\* cotrig_consume, at every capture arm.
Consume(e) == [e EXCEPT !.incap = e.spend, !.spend = FALSE]

--------------------------------------------------------------------------------
(* Captures. *)

\* capture, stream, measure: the read-back lands in the pool and is the trace from here on.
NoteCapture ==
    /\ traces < MaxTraces
    /\ traces' = traces + 1
    /\ pool' = traces + 1 /\ held' = TRUE /\ replay_len' = traces + 1
    /\ UNCHANGED <<top, based, replay_in_psram>>

\* As if a capture could always use all of the PSRAM.
ReachesAlways(deep) == deep

\* signal_engine_la_max_samples, signal_engine_adc_max_samples: a deep capture reaches into the DAC's
\* region unless a deep replay occupies it.
ReachesTop(deep) == deep /\ ~s_dac_ps_active

\* A capture is armed: a deep one reads back elsewhere and leaves the pool alone.
CaptureArm ==
    \E c \in Conns, deep \in BOOLEAN :
        /\ MayBegin(c) /\ hold # c
        /\ gate' = c /\ dcap' = "armed"
        /\ Apply(Consume(Engine))
        /\ IF deep THEN /\ top' = IF ReachesTop(deep) THEN 0 ELSE top
                        /\ UNCHANGED <<pool, held, based, replay_len, replay_in_psram, traces>>
           ELSE NoteCapture
        /\ UNCHANGED <<upload, hold, s_dac_ps_active, dac_timed, loadGhost>>

\* The fabric's t0 starts a staged DAC.
T0 ==
    /\ dcap = "armed" /\ dcap' = "runs"
    /\ play' = IF dac_pend THEN [play EXCEPT !.staged = FALSE] ELSE play
    /\ dac_pend' = FALSE
    /\ UNCHANGED <<gate, trace, upload, hold, s_cotrig_pending, s_cotrig_in_capture, s_dac_ps_active,
                   dac_timed, tOps, loadGhost>>

\* The capture is read out and its gate released.
CaptureDone ==
    /\ dcap = "runs" /\ dcap' = "idle" /\ gate' = NoConn
    /\ UNCHANGED <<trace, upload, hold, dacEngine, tOps>>

\* fpga_capture_abort (trigger timeout, close): an untriggered co-trigger is cancelled with it.
CaptureAbort ==
    /\ dcap # "idle" /\ dcap' = "idle" /\ gate' = NoConn
    /\ IF s_cotrig_in_capture
       THEN Apply(StopDac(Engine)) /\ s_dac_ps_active' = FALSE /\ dac_timed' = FALSE
       ELSE UNCHANGED <<play, dac_pend, s_cotrig_pending, s_cotrig_in_capture, s_dac_ps_active, dac_timed>>
    /\ UNCHANGED <<trace, upload, hold, tOps, loadGhost>>

--------------------------------------------------------------------------------
(* Uploads. *)

\* handle_load: a chunk of a RAM upload; the gate waits for its replay.
Load ==
    \E c \in Conns :
        /\ MayBegin(c) /\ traces < MaxTraces
        /\ gate' = c /\ hold' = c
        /\ traces' = traces + 1 /\ pool' = traces + 1 /\ held' = TRUE /\ replay_len' = traces + 1
        /\ UNCHANGED <<dcap, top, based, replay_in_psram, upload, dacEngine>>

\* handle_load_bin: the region or the pool is this upload's from here on.
LoadBin ==
    \E c \in Conns, deep \in BOOLEAN :
        /\ MayBegin(c) /\ traces < MaxTraces
        /\ gate' = c /\ upload' = [conn |-> c, deep |-> deep]
        /\ IF deep THEN based' = TRUE /\ top' = 0 /\ loadGhost' = TRUE /\ UNCHANGED <<pool, held>>
                   ELSE pool' = 0 /\ held' = TRUE /\ UNCHANGED <<top, based, loadGhost>>
        /\ replay_len' = 0 /\ replay_in_psram' = FALSE
        /\ UNCHANGED <<dcap, hold, play, dac_pend, s_cotrig_pending, s_cotrig_in_capture,
                       s_dac_ps_active, dac_timed, traces>>

\* load_bin_receive with the last bytes; load_bin_clear gives the bus back.
Uploaded ==
    /\ upload # NoUpload /\ upload' = NoUpload /\ hold' = upload.conn
    /\ traces' = traces + 1 /\ replay_len' = traces + 1
    /\ replay_in_psram' = upload.deep
    /\ IF upload.deep THEN top' = traces + 1 /\ UNCHANGED pool ELSE pool' = traces + 1 /\ UNCHANGED top
    /\ UNCHANGED <<gate, dcap, held, based, dacEngine, tOps>>

\* dac_poll: the stall guard; dac_conn_closed does the same.
UploadStalls ==
    /\ upload # NoUpload /\ upload' = NoUpload /\ gate' = NoConn
    /\ UNCHANGED <<dcap, trace, hold, dacEngine, tOps>>

\* dac_poll: LOADED_HOLD_MS after the upload; only a RAM upload is dropped.
HoldExpires ==
    /\ hold # NoConn /\ hold' = NoConn
    /\ IF gate = hold /\ dcap = "idle" /\ upload = NoUpload
       THEN gate' = NoConn /\ replay_len' = IF replay_in_psram THEN replay_len ELSE 0
       ELSE UNCHANGED <<gate, replay_len>>
    /\ UNCHANGED <<dcap, pool, held, top, based, replay_in_psram, traces, upload, dacEngine, tOps>>

\* scpi_server.c READ? and TRACe:DATA take the pool.
ScpiTakesPool ==
    /\ \E c \in Conns : MayBegin(c)
    /\ pool' = 0 /\ held' = FALSE
    /\ UNCHANGED <<gate, dcap, top, based, replay_len, replay_in_psram, traces, upload, hold, dacEngine>>

--------------------------------------------------------------------------------
(* Replay and the generators. *)

\* fpga_load_wave: a running DAC is stopped before its table is written.
LoadWave(e) == Quiesce(e, FALSE)

\* dac_replay_psram and dac_generate_arbitrary_rate.
PlayTop(e, asked) == Start(Quiesce(e, TRUE), "top", top, asked)
PlayPool(e, asked) == Start(LoadWave(e), "pool", pool, asked)

\* As if the region a deep replay plays from were not marked as occupied.
ActiveNever(deep) == s_dac_ps_active

\* dac_replay_psram marks the region occupied.
Active(deep) == deep \/ s_dac_ps_active

\* handle_replay: the pool may be gone; the co-trigger is staged before the gate is asked for.
Replay ==
    \E c \in Conns, on_capture \in BOOLEAN :
        LET gone == ~replay_in_psram /\ ~held
            e == IF on_capture THEN ArmOnCapture(Engine) ELSE Engine
        IN /\ replay_len # 0
           /\ IF gone THEN replay_len' = 0 /\ UNCHANGED <<gate, hold, dacEngine>>
              ELSE IF ~MayBegin(c) THEN Apply(e) /\ UNCHANGED <<replay_len, gate, hold, s_dac_ps_active,
                                                                dac_timed, loadGhost>>
              ELSE /\ Apply(IF replay_in_psram THEN PlayTop(e, on_capture) ELSE PlayPool(e, on_capture))
                   /\ s_dac_ps_active' = Active(replay_in_psram)
                   /\ loadGhost' = FALSE
                   /\ dac_timed' = FALSE /\ gate' = NoConn
                   /\ hold' = IF hold = c THEN NoConn ELSE hold
                   /\ UNCHANGED replay_len
           /\ UNCHANGED <<dcap, pool, held, top, based, replay_in_psram, traces, upload>>

\* handle_generate: no gate; the co-trigger is staged before the waveform's name is looked at.
Generate ==
    \E on_capture \in BOOLEAN, known \in BOOLEAN, timed \in BOOLEAN :
        LET e == IF on_capture THEN ArmOnCapture(Engine) ELSE Engine
        IN /\ IF known THEN Apply(Start(LoadWave(e), "wave", 0, on_capture)) /\ dac_timed' = timed
              ELSE Apply(e) /\ UNCHANGED dac_timed
           /\ UNCHANGED <<gate, dcap, trace, upload, hold, s_dac_ps_active, loadGhost>>

\* dac_stop.
DacStop ==
    /\ Apply(StopDac(Engine)) /\ s_dac_ps_active' = FALSE /\ dac_timed' = FALSE
    /\ UNCHANGED <<gate, dcap, trace, upload, hold, loadGhost>>

\* signal_engine_poll: a timed waveform is over.
TimedEnd ==
    /\ dac_timed /\ dac_timed' = FALSE /\ Apply(StopDac(Engine))
    /\ UNCHANGED <<gate, dcap, trace, upload, hold, s_dac_ps_active, tOps, loadGhost>>

\* signal_engine_on_gateware_reconfigured: the fabric's registers and their mirrors start over.
Reconfigured ==
    /\ dcap = "idle" /\ upload = NoUpload
    /\ play' = Silent /\ dac_pend' = FALSE /\ s_cotrig_pending' = FALSE /\ s_cotrig_in_capture' = FALSE
    /\ s_dac_ps_active' = FALSE /\ based' = FALSE /\ dac_timed' = FALSE
    /\ UNCHANGED <<gate, dcap, pool, held, top, replay_len, replay_in_psram, traces, upload, hold, loadGhost>>

\* The connection that holds the gate closes (command_handler_conn_closed).
Close ==
    /\ gate # NoConn /\ dcap = "idle" /\ upload = NoUpload
    /\ gate' = NoConn /\ hold' = IF hold = gate THEN NoConn ELSE hold
    /\ UNCHANGED <<dcap, trace, upload, dacEngine, tOps>>

Init ==
    /\ gate = NoConn /\ dcap = "idle" /\ pool = 0 /\ held = FALSE /\ top = 0 /\ based = FALSE
    /\ replay_len = 0 /\ replay_in_psram = FALSE /\ upload = NoUpload /\ hold = NoConn
    /\ play = Silent /\ dac_pend = FALSE /\ s_cotrig_pending = FALSE /\ s_cotrig_in_capture = FALSE
    /\ s_dac_ps_active = FALSE /\ dac_timed = FALSE /\ traces = 0 /\ tOps = 0 /\ loadGhost = FALSE

Command == tOps < MaxOps /\ tOps' = tOps + 1

Next ==
    \/ Command /\ (CaptureArm \/ Load \/ LoadBin \/ ScpiTakesPool \/ Replay \/ Generate \/ DacStop \/ Reconfigured)
    \/ T0 \/ CaptureDone \/ CaptureAbort \/ Uploaded \/ UploadStalls \/ HoldExpires \/ TimedEnd \/ Close

Spec == Init /\ [][Next]_dtVars
--------------------------------------------------------------------------------
\* The types of the traces' state.
TypeOK ==
    /\ {gate, hold, upload.conn} \subseteq Conns \cup {NoConn}
    /\ {pool, top, replay_len, traces} \subseteq 0..MaxTraces
    /\ play.src \in {"none", "pool", "top", "wave"} /\ dcap \in {"idle", "armed", "runs"}
    /\ {held, based, replay_in_psram, dac_pend, s_cotrig_pending, s_cotrig_in_capture, s_dac_ps_active,
        dac_timed} \subseteq BOOLEAN

\* signal_engine.c, region bookkeeping: no capture overwrites the trace a deep replay plays, however
\* captures, stops and timed waveforms interleave; only a new upload takes its place.
PlayedTraceIntact == play.src = "top" /\ play.id # 0 /\ ~loadGhost => top = play.id

\* signal_engine.c, cotrig mirrors: a start staged in the fabric is known to the firmware, so an abort
\* of the capture that took it, or a stop, cancels it before it drives the output.
CotrigKnown == dac_pend => s_cotrig_pending \/ (s_cotrig_in_capture /\ dcap = "armed")

\* API.md, on_capture: a start that was asked to wait for a capture drives nothing before a t0, also
\* when the DAC had to be stopped first.
StartWaits == play' # play /\ play'.asked /\ dcap' = dcap => play'.staged
DeferredStart == [][StartWaits]_dtVars

================================================================================
