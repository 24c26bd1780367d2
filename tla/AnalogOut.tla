------------------------------- MODULE AnalogOut --------------------------------
(***************************************************************************)
(* The analog outputs: the DAC commands (command_handler_dac.c,             *)
(* command_handler_analog.c), the switches that route the DAC (i2c_bus.c,   *)
(* analog_path.c), the four-channel DAC of later boards (dac_quad.c), the   *)
(* limits for an output stage on the bench (dac_limits.c) and the control   *)
(* loop.  Every command runs on the hardware worker, one after the other.   *)
(* A DAC code is told apart only by what it gives on the limited output:    *)
(* 0 V, a level inside the window, any other level ("wild"), or the code 0  *)
(* a power-up or a reconfiguration leaves ("reset").                        *)
(***************************************************************************)
EXTENDS Integers, FiniteSets

CONSTANTS MaxFaults      \* reconfigurations and DAC writes that fail, and restarts

ConstantsOK == MaxFaults \in Nat

Volt == {"5v", "12v"}                       \* the voltage outputs (3v3 behaves as 5v)
Paths == Volt \cup {"off", "ext", "cal1", "cal2", "current_in", "current_out"}
Chans == {"X", "B", "C"}                    \* the one DAC, or the voltage channels of the quad
Codes == {"reset", "zero", "in", "wild"}
NoLimits == [path |-> "none", inv |-> FALSE]
Limits == [path : Volt, inv : BOOLEAN]

VARIABLES
    quad,                \* dac_quad_present: which board this is
    a,                   \* the analog section, see Init
    stored,              \* the limits' record in flash; a.lim is the active copy
    settled,             \* ghost: parked since the limits were set or the FPGA reconfigured
    image,               \* the gateware image: it has the control loop or the deep replay
    loopReg, s_loop_src, \* the loop's source register and its mirror
    asked,               \* ghost: the source and map of the last armed loop
    aFaults

anVars == <<quad, a, stored, settled, image, loopReg, s_loop_src, asked, aFaults>>

Sources == {"adc", "fixed"}                 \* a sweep differs from fixed only in what it gives
NoLoop == [src |-> "adc", map |-> FALSE]

\* The switches and the DAC after power-up; level is what each DAC channel holds, ch and live are
\* s_quad_ch and s_quad_live, out what the fabric's DAC engine does.
PoweredUp ==
    [mux |-> "off", ana14 |-> FALSE, level |-> [c \in Chans |-> "reset"], ch |-> "none", live |-> {},
     out |-> "idle", on |-> TRUE,
     lim |-> NoLimits]

--------------------------------------------------------------------------------
(* The DAC engine and the four-channel DAC. *)

ChanOf(p) == CASE p \in {"5v", "cal1"} -> "B" [] p \in {"12v", "cal2"} -> "C"
               [] p = "current_out" -> "D" [] p = "off" -> "none" [] OTHER -> "keep"

\* As if a channel were always parked at 0 V.
ParkAtZero(s, c) == "zero"

\* dac_quad_park_code: the limited channel parks inside its window.
ParkCode(s, c) == IF s.lim # NoLimits /\ ChanOf(s.lim.path) = c THEN "in" ELSE "zero"

\* dac_stop, fpga_stop_dac: the engine stops, the DAC keeps its last sample.
Stop(s) == [s EXCEPT !.out = "idle"]

\* dac_quad_write: one frame; a voltage channel off its park level is live.
Write(s, c, code) ==
    IF c = "D" THEN s
    ELSE [s EXCEPT !.level[c] = code, !.live = IF code = ParkCode(s, c) THEN @ \ {c} ELSE @ \cup {c}]

\* dac_quad_route over dac_quad_plan: one voltage output at a time, the others are parked.
QuadRoute(s, p) ==
    LET c == ChanOf(p)
        off == p = "off"
        stops == s.ch # "none" /\ IF off THEN s.ch # "D" ELSE s.ch # c
        parks == IF off THEN s.live ELSE IF c = "D" THEN {} ELSE s.live \ {c}
        t == IF stops THEN Stop(s) ELSE s
    IN IF c = "keep" THEN s
       ELSE [t EXCEPT !.level = [d \in Chans |-> IF d \in parks THEN ParkCode(s, d) ELSE @[d]],
                      !.live = @ \ parks,
                      !.ch = IF ~off THEN c ELSE IF s.ch = "D" THEN "D" ELSE "none"]

\* fpga_start_dac and its siblings (quad_stream_ctrl first): the stream plays to the selected channel.
Start(s, what, code) ==
    IF ~quad THEN [s EXCEPT !.out = what, !.level["X"] = code]
    ELSE IF s.ch \in {"none", "D"} THEN [s EXCEPT !.out = what]
    ELSE [s EXCEPT !.out = what, !.level[s.ch] = code, !.live = @ \cup {s.ch}]

\* dac_set_constant, dac_set_constant16; dac_quad_hold on the quad.
Hold(s, code) ==
    IF ~quad THEN Start(s, "hold", code)
    ELSE IF s.ch = "none" THEN Stop(s) ELSE Write(Stop(s), s.ch, code)

--------------------------------------------------------------------------------
(* The switches. *)

\* dacmux_set_ctrl1/2 with the states of analog_path_switches; no mux on the quad.
Mux(s, p) ==
    IF quad \/ p \in {"ext", "current_in"} THEN s
    ELSE [s EXCEPT !.mux = CASE p \in {"off", "current_out"} -> "off" [] p \in {"5v", "cal1"} -> "5v"
                             [] p = "12v" -> "12v" [] p = "cal2" -> "12adc"]

\* analog_path_set; the relays of the ADC's side are the module AdcRange's.
Route(s, p) == Mux(IF quad THEN QuadRoute(s, p) ELSE s, p)

\* dac_limits_park_now: level first, then the route; on the quad the route picks the channel.
Park(s) ==
    IF s.lim = NoLimits THEN s
    ELSE IF quad THEN Hold(Route(s, s.lim.path), "in") ELSE Route(Hold(s, "in"), s.lim.path)

\* As if +-14 V came on although the DAC could not be parked.
QuadBootAnyway(s, ok) ==
    IF ~quad THEN s
    ELSE [(IF ok THEN QuadRoute([s EXCEPT !.ch = "none", !.live = {"B", "C"}], "off")
           ELSE [s EXCEPT !.ch = "none", !.live = {"B", "C"}]) EXCEPT !.ana14 = TRUE]

\* dac_quad_boot: park every voltage channel, only then switch +-14 V on.
QuadBoot(s, ok) ==
    IF ~quad THEN s
    ELSE IF ~ok THEN [s EXCEPT !.ch = "none", !.live = {"B", "C"}]
    ELSE [QuadRoute([s EXCEPT !.ch = "none", !.live = {"B", "C"}], "off") EXCEPT !.ana14 = TRUE]

--------------------------------------------------------------------------------
(* The limits' checks (dac_limits_check_command). *)

\* dac_limits_check_raw: raw codes and the mux by hand are refused.
RawOK == a.lim = NoLimits

\* As if no route were refused.
AnyRoute(p) == TRUE

\* dac_limits_check_route: an inverted stage is never disconnected.
RouteOK(p) ==
    \/ ~a.lim.inv
    \/ p \in {a.lim.path, "ext", "current_in"}
    \/ p = "cal1" /\ a.lim.path = "5v"

\* dac_limits_check_volts: on the limited path only levels inside the window.
VoltsOK(p, code) == p = a.lim.path => code = "in"

\* check_loop: the clamp stays inside, and an inverted stage may not trip to vmin.
LoopOK(code) == a.lim # NoLimits => code = "in"

\* dac_limits_check_current_out: on the single DAC a current moves the limited output.
CurrentOK == a.lim = NoLimits \/ quad

--------------------------------------------------------------------------------
Keep == UNCHANGED <<quad, stored, settled, image, loopReg, s_loop_src, asked, aFaults>>

\* handle_generate: raw codes into the table, then the start; a replay from the table does the same.
Generate == RawOK /\ a' = Start(a, "wave", "wild") /\ Keep

\* handle_generate16: calibrated, routed first unless "route" is false.
Generate16 ==
    /\ RawOK
    /\ \E p \in Volt \cup {"current_out"}, route \in BOOLEAN :
         a' = Start(IF route THEN Route(a, p) ELSE a, "wave", "wild")
    /\ Keep

\* handle_dac_set.
DacSet == RawOK /\ (\E code \in Codes \ {"reset"} : a' = Hold(a, code)) /\ Keep

\* handle_dac_out: route, then hold the voltage; without volts it only routes.
DacOut ==
    /\ \E p \in Volt \cup {"off"} :
         /\ RouteOK(p)
         /\ \/ a' = Route(a, p)
            \/ \E code \in Codes \ {"reset"} :
                 p # "off" /\ VoltsOK(p, code) /\ a' = Hold(Route(a, p), code)
    /\ Keep

\* handle_current_out; the quad has a channel for it, and stops a current waveform first.
CurrentOut ==
    /\ CurrentOK
    /\ a' = IF quad THEN Write(IF a.ch = "D" THEN Stop(a) ELSE a, "D", "wild")
            ELSE Hold(Route(a, "current_out"), "wild")
    /\ Keep

\* handle_analog_path; handle_adc_read routes its source the same way.
AnalogPath == (\E p \in Paths : RouteOK(p) /\ a' = Route(a, p)) /\ Keep

\* handle_dac_mux.
DacMux == ~quad /\ RawOK /\ (\E m \in {"off", "5v", "12v", "12adc"} : a' = [a EXCEPT !.mux = m]) /\ Keep

\* handle_dac_stop: with limits set the stop parks.
DacStop ==
    /\ a' = Park(Stop(a)) /\ settled' = (a.lim # NoLimits)
    /\ UNCHANGED <<quad, stored, image, loopReg, s_loop_src, asked, aFaults>>

\* signal_engine_poll ends a timed waveform; SCPI's OUTPut OFF stops as well.
StopOnly == a.out # "idle" /\ a' = Stop(a) /\ Keep

--------------------------------------------------------------------------------
(* handle_dac_limits. *)

\* dac_limits_set: the record first, then the active copy; nothing moves.
SetLimits(l) == a' = [a EXCEPT !.lim = l] /\ stored' = l

\* handle_dac_limits with a window to set.
LimitsSet ==
    /\ \E l \in Limits : SetLimits(l)
    /\ settled' = FALSE /\ UNCHANGED <<quad, image, loopReg, s_loop_src, asked, aFaults>>

\* dac_limits_clear: the active copy first; the erase may fail.
LimitsClear ==
    /\ a.lim # NoLimits /\ a' = [a EXCEPT !.lim = NoLimits] /\ settled' = FALSE
    /\ \/ stored' = NoLimits /\ UNCHANGED aFaults
       \/ aFaults < MaxFaults /\ aFaults' = aFaults + 1 /\ UNCHANGED stored
    /\ UNCHANGED <<quad, image, loopReg, s_loop_src, asked>>

--------------------------------------------------------------------------------
(* The control loop. *)

\* As if an arm without a map left the registers of the last one (the bug of before 3.4.0).
KeepsOldMap(src, map) == [src |-> src, map |-> map \/ loopReg.map]

\* dac_loop_set_source and dac_loop_set_inmap: an arm without a map switches the map off.
LoopRegs(src, map) == [src |-> src, map |-> map]

\* dac_control_loop_start: the clamp's levels are where the loop moves the output.
ArmLoop(s, code) == Start(s, "loop", code)

\* handle_dac_control_loop: source and map first, then the arm; only the loop image has a loop.
ControlLoop ==
    /\ image = "loop"
    /\ \E src \in Sources, map \in BOOLEAN, code \in {"in", "wild"} :
         /\ LoopOK(code)
         /\ loopReg' = LoopRegs(src, map)
         /\ asked' = [src |-> src, map |-> map] /\ s_loop_src' = src
         /\ a' = ArmLoop(a, code)
    /\ UNCHANGED <<quad, stored, settled, image, aFaults>>

\* handle_dac_loop_input: the source changes under a running loop, with no new arm.
LoopInput ==
    /\ image = "loop"
    /\ \E src \in Sources :
         /\ loopReg' = [loopReg EXCEPT !.src = src] /\ s_loop_src' = src
         /\ asked' = [asked EXCEPT !.src = src]
    /\ UNCHANGED <<quad, a, stored, settled, image, aFaults>>

--------------------------------------------------------------------------------
(* Reconfigurations, power and boot. *)

\* A reconfiguration: the fabric's registers reset, the one DAC goes to code 0, and
\* dac_on_gateware_reconfigured resets the mirrors.
Reconfigured(s) == [Stop(s) EXCEPT !.level["X"] = "reset"]

\* fpga_warmboot: the fabric reconfigures; a swap that fails goes back to image 0.
Warmboot(img, ok) ==
    /\ image' = IF ok THEN img ELSE "loop"
    /\ loopReg' = NoLoop /\ s_loop_src' = "adc"

\* handle_fpga_image: the swap parks again, a failed one returns before that.
ImageSwap ==
    \E img \in {"loop", "deep"}, ok \in BOOLEAN :
        /\ ~ok => aFaults < MaxFaults
        /\ aFaults' = IF ok THEN aFaults ELSE aFaults + 1
        /\ Warmboot(img, ok)
        /\ a' = IF ok THEN Park(Reconfigured(a)) ELSE Reconfigured(a)
        /\ settled' = (ok /\ a.lim # NoLimits)
        /\ UNCHANGED <<quad, stored, asked>>

\* The worker's idle check reloads an FPGA that lost its image, then sets the outputs up as a boot.
IdleReload ==
    /\ aFaults < MaxFaults /\ aFaults' = aFaults + 1
    /\ a' = Park(QuadBoot(Reconfigured(a), TRUE))
    /\ settled' = (a.lim # NoLimits)
    /\ loopReg' = NoLoop /\ s_loop_src' = "adc"
    /\ UNCHANGED <<quad, stored, image, asked>>

\* module_power_set: off stops the DAC first; on sets the switches up as at boot.
ModulePower ==
    /\ quad
    /\ a' = IF a.on THEN [Stop(a) EXCEPT !.ana14 = FALSE, !.on = FALSE,
                                         !.level = [c \in Chans |-> "reset"]]
            ELSE QuadBoot([PoweredUp EXCEPT !.lim = a.lim], TRUE)
    /\ settled' = (~a.on /\ a.lim # NoLimits)
    /\ UNCHANGED <<quad, stored, image, loopReg, s_loop_src, asked, aFaults>>

\* boot_deferred_hw_init: the firmware restarts (cold = the power was gone too, which the FPGA's
\* registers do not survive), the fabric goes idle, the channels and the limited output are parked.
Boot ==
    \E cold \in BOOLEAN, ok \in BOOLEAN :
        /\ aFaults < MaxFaults /\ aFaults' = aFaults + 1
        /\ LET s == QuadBoot([PoweredUp EXCEPT !.lim = stored,
                                !.level = IF cold THEN @ ELSE a.level], ok)
           IN a' = IF ok THEN Park(s) ELSE s
        /\ settled' = (ok /\ stored # NoLimits)
        /\ loopReg' = IF cold THEN NoLoop ELSE loopReg
        /\ s_loop_src' = "adc"
        /\ UNCHANGED <<quad, stored, image, asked>>

Init ==
    /\ quad \in BOOLEAN
    /\ a = IF quad THEN [PoweredUp EXCEPT !.level = [c \in Chans |-> IF c \in {"B", "C"} THEN "zero" ELSE "reset"],
                                          !.ana14 = TRUE]
           ELSE PoweredUp
    /\ stored = NoLimits /\ settled = FALSE
    /\ image = "loop" /\ loopReg = NoLoop /\ s_loop_src = "adc" /\ asked = NoLoop
    /\ aFaults = 0

\* A module without power answers nothing, and starts over when it is powered.
Next ==
    \/ /\ a.on
       /\ \/ Generate \/ Generate16 \/ DacSet \/ DacOut \/ CurrentOut \/ AnalogPath \/ DacMux
          \/ DacStop \/ StopOnly \/ ControlLoop \/ LoopInput \/ ImageSwap \/ IdleReload
    \/ LimitsSet \/ LimitsClear \/ ModulePower \/ Boot

Spec == Init /\ [][Next]_anVars
--------------------------------------------------------------------------------
\* The types of the analog section's state.
TypeOK ==
    /\ quad \in BOOLEAN /\ settled \in BOOLEAN /\ image \in {"loop", "deep"}
    /\ stored \in Limits \cup {NoLimits}
    /\ a \in [mux : {"off", "5v", "12v", "12adc"}, ana14 : BOOLEAN, level : [Chans -> Codes],
              ch : {"none", "B", "C", "D"}, live : SUBSET {"B", "C"},
              out : {"idle", "wave", "hold", "loop"}, on : BOOLEAN, lim : Limits \cup {NoLimits}]
    /\ s_loop_src \in Sources /\ aFaults \in 0..MaxFaults

\* What the output stage on the limited output sees.
Seen ==
    IF quad THEN a.level[ChanOf(a.lim.path)] ELSE IF a.mux = a.lim.path THEN a.level["X"] ELSE "zero"

\* Levels the limits exist for: a normal stage is low at 0 V, an inverted one gives full output there.
Dangerous(v) == v = "wild" \/ (a.lim.inv /\ v \in {"zero", "reset"})

\* dac_limits.h: once parked, the limited output stays on the safe side of its window through any
\* sequence of commands, until a reconfiguration of the FPGA fails.  Stated for inverted stages,
\* where 0 V is full output, and for boards with a channel per output.
WindowKept == settled /\ (quad \/ a.lim.inv) => ~Dangerous(Seen)

\* dac_quad.c: the +-14 V supply is on only after the +-12 V channel left its power-up code (-12 V),
\* and at most one voltage output is off its park level, a channel the firmware keeps as live.
QuadSafe ==
    quad => /\ a.ana14 => a.level["C"] # "reset"
            /\ {c \in {"B", "C"} : a.level[c] = "wild"} \subseteq a.live
            /\ Cardinality({c \in {"B", "C"} : a.level[c] = "wild"}) <= 1

\* handle_dac_control_loop: a running loop indexes its curve with the source and the map it was
\* armed with, whatever an earlier arm or a reconfiguration left, and the mirror names that source.
LoopAsAsked == a.out = "loop" => loopReg = asked /\ s_loop_src = loopReg.src
================================================================================
