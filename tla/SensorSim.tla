------------------------------- MODULE SensorSim -------------------------------
(* The emulated I2C sensors: sensor_sim.c, the models sensor_*.c and the         *)
(* fpga_i2c_* wrappers of signal_engine.c.  The fabric holds the register image  *)
(* that a DUT reads and writes by itself; the worker fills it and, for a model   *)
(* that watches the DUT's writes, rebuilds the data window when the write        *)
(* counter moved.  An image is [cfg, pwr, data]: the register that scales the    *)
(* readings, the power register, and what the data window was computed for.      *)
EXTENDS Integers

CONSTANTS Models,       \* the models in use, of {"mpu6050", "sht4x", "bmp280"}
          MaxWrites,    \* register writes of the DUT
          MaxSensorCmds, MaxSensorFaults,
          EarlyWrites,  \* TRUE: the DUT may write between the CONFIG and the STATUS command of arm()
          Codes         \* the codes of a converter are 0..Codes

ConstantsOK ==
    /\ Models \subseteq {"mpu6050", "sht4x", "bmp280"}
    /\ {MaxWrites, MaxSensorCmds, MaxSensorFaults, Codes} \subseteq Nat
    /\ EarlyWrites \in BOOLEAN

VARIABLES
    active, values,         \* the model and its parameters
    target,                 \* [armed, img, wr]: the I2C target in the fabric
    seen_wr_count,
    rearm_pending,
    wstep,                  \* the worker inside a reload: [at, live], or inside arm
    unloaded,               \* history: a reload failed and has not been repeated yet
    dutWrites, sensorCmds, sensorFaults

ssVars == <<active, values, target, seen_wr_count, rearm_pending, wstep, unloaded, dutWrites, sensorCmds,
            sensorFaults>>

Blank == [cfg |-> 0, pwr |-> "sleep", data |-> [v |-> 0, cfg |-> 0, on |-> FALSE]]
AtIdle == [at |-> "idle", live |-> Blank]

Init ==
    /\ active = "none" /\ values = 0
    /\ target = [armed |-> FALSE, img |-> Blank, wr |-> 0]
    /\ seen_wr_count = 0 /\ rearm_pending = FALSE /\ wstep = AtIdle /\ unloaded = FALSE
    /\ dutWrites = 0 /\ sensorCmds = 0 /\ sensorFaults = 0

--------------------------------------------------------------------------------
(* The Bosch models invert the datasheet's compensation: the code whose value is nearest to the one asked
   for, by bisection over a function that rises with the code (find_adc_t_for_temp_c, find_adc_h_for_hum;
   find_adc_p_for_pressure_pa is the same over one that falls). *)
Tables == {f \in [0..Codes -> 0..Codes] : \A i, j \in 0..Codes : i <= j => f[i] <= f[j]}
Miss(f, i, v) == IF f[i] >= v THEN f[i] - v ELSE v - f[i]
(* broken: the last code tried is taken *)
BetterLast(f, v, mid, best) == mid
Better(f, v, mid, best) == IF best < 0 \/ Miss(f, mid, v) < Miss(f, best, v) THEN mid ELSE best
Windows == [lo : 0..(Codes + 1), hi : (-1)..Codes, best : (-1)..Codes]
Middle(w) == w.lo + ((w.hi - w.lo) \div 2)
FindAdc(f, v) ==
    LET search[w \in Windows] ==
            LET mid == Middle(w)
                b == Better(f, v, mid, w.best)
            IN  IF w.lo > w.hi THEN w.best
                ELSE IF f[mid] < v THEN search[[lo |-> mid + 1, hi |-> w.hi, best |-> b]]
                ELSE IF f[mid] > v THEN search[[lo |-> w.lo, hi |-> mid - 1, best |-> b]]
                ELSE mid
    IN  search[[lo |-> 0, hi |-> Codes, best |-> -1]]

(* build_regimage.  The MPU-6050 keeps what the DUT configured, computes its readings for that scale and shows
   zeros while asleep; a reset puts every register back.  The other models have readings only. *)
Resets(m, live) == m = "mpu6050" /\ live.pwr = "reset"
MpuReadings(v, cfg, pwr) == [v |-> v, cfg |-> cfg, on |-> pwr = "on"]
ShtReadings(v) == [v |-> v, cfg |-> 0, on |-> TRUE]
BoschReadings(v) == [v |-> v, cfg |-> 0, on |-> TRUE]
Readings(m, v, cfg, pwr) ==
    CASE m = "mpu6050" -> MpuReadings(v, cfg, pwr)
      [] m = "sht4x" -> ShtReadings(v)
      [] OTHER -> BoschReadings(v)
PowerOn(m, v) == [cfg |-> 0, pwr |-> "sleep", data |-> Readings(m, v, 0, "sleep")]
Rebuilt(m, v, live) ==
    IF m # "mpu6050" \/ Resets(m, live) THEN PowerOn(m, v)
    ELSE [live EXCEPT !.data = Readings(m, v, live.cfg, live.pwr)]

(* broken: the whole image goes back *)
LoadedWhole(img, live) == Rebuilt(active, values, live)
(* reload_data loads the data window only, unless the whole part was reset; the SHT4x has its answers all over
   the image and nothing a DUT configures *)
Loaded(img, live) ==
    LET built == Rebuilt(active, values, live) IN
    IF Resets(active, live) THEN built ELSE [img EXCEPT !.data = built.data]
--------------------------------------------------------------------------------
Faulty == sensorFaults < MaxSensorFaults
Worker == wstep.at = "idle"
Cmd == Worker /\ sensorCmds < MaxSensorCmds /\ sensorCmds' = sensorCmds + 1

(* arm(): load the power-on image, configure the target, read the write counter as the one already seen *)
Armed(m, v) == [target EXCEPT !.armed = TRUE, !.img = PowerOn(m, v)]
ArmBegins(m, v) == target' = Armed(m, v) /\ wstep' = [AtIdle EXCEPT !.at = "armed"]

(* sensor_sim_start stops the sensor that runs; two pins the gateware cannot take leave none running *)
SensorStart(m) ==
    /\ Cmd
    /\ values' = 0 /\ rearm_pending' = FALSE /\ unloaded' = FALSE
    /\ \/ active' = m /\ ArmBegins(m, 0)
       \/ active' = "none" /\ target' = [target EXCEPT !.armed = FALSE, !.img = PowerOn(m, 0)] /\ UNCHANGED wstep
    /\ UNCHANGED <<seen_wr_count, dutWrites, sensorFaults>>

(* the STATUS read that ends arm() *)
ArmEnds ==
    /\ wstep.at = "armed" /\ wstep' = AtIdle
    /\ seen_wr_count' = target.wr
    /\ UNCHANGED <<active, values, target, rearm_pending, unloaded, dutWrites, sensorCmds, sensorFaults>>

SensorStop ==
    /\ Cmd /\ active # "none" /\ active' = "none" /\ rearm_pending' = FALSE
    /\ target' = [target EXCEPT !.armed = FALSE]
    /\ UNCHANGED <<values, seen_wr_count, wstep, unloaded, dutWrites, sensorFaults>>

(* handle_sensor_set: a value out of range changes nothing; an accepted one is reloaded at once, or by the
   re-arm that is due *)
SensorSet(v) ==
    /\ Cmd /\ active # "none" /\ v \in 0..Codes
    /\ values' = v
    /\ wstep' = IF rearm_pending THEN AtIdle ELSE [AtIdle EXCEPT !.at = "set"]
    /\ UNCHANGED <<active, target, seen_wr_count, rearm_pending, unloaded, dutWrites, sensorFaults>>

(* sensor_sim_poll: a due re-arm, else the write counter of a model that watches it *)
RearmPoll ==
    /\ Worker /\ active # "none" /\ rearm_pending /\ rearm_pending' = FALSE
    /\ \/ ArmBegins(active, values) /\ unloaded' = FALSE /\ UNCHANGED <<active, sensorFaults>>
       \/ Faulty /\ sensorFaults' = sensorFaults + 1 /\ active' = "none" /\ UNCHANGED <<target, wstep, unloaded>>
    /\ UNCHANGED <<values, seen_wr_count, dutWrites, sensorCmds>>

WatchWrites(m) == m = "mpu6050"

(* broken: one write is expected between two polls *)
MovedByOne == target.wr = seen_wr_count + 1
Moved == target.wr # seen_wr_count

WatchPoll ==
    /\ Worker /\ active # "none" /\ ~rearm_pending /\ WatchWrites(active) /\ Moved
    /\ seen_wr_count' = target.wr /\ wstep' = [AtIdle EXCEPT !.at = "poll"]
    /\ UNCHANGED <<active, values, target, rearm_pending, unloaded, dutWrites, sensorCmds, sensorFaults>>

(* reload_data: read the live image, build, load; the DUT goes on between the two.  A failed read
   of sensor_set is answered as an error; one of the poll is not repeated before the next write or set. *)
ReadLive ==
    /\ wstep.at \in {"set", "poll"}
    /\ \/ wstep' = [at |-> "load", live |-> target.img] /\ UNCHANGED <<unloaded, sensorFaults>>
       \/ Faulty /\ sensorFaults' = sensorFaults + 1 /\ wstep' = AtIdle /\ unloaded' = TRUE
    /\ UNCHANGED <<active, values, target, seen_wr_count, rearm_pending, dutWrites, sensorCmds>>

Load ==
    /\ wstep.at = "load" /\ wstep' = AtIdle /\ unloaded' = FALSE
    /\ target' = [target EXCEPT !.img = Loaded(target.img, wstep.live)]
    /\ UNCHANGED <<active, values, seen_wr_count, rearm_pending, dutWrites, sensorCmds, sensorFaults>>

(* an image swap, which the worker runs between commands, takes the target and its registers *)
Reconfigured ==
    /\ Cmd /\ target' = [armed |-> FALSE, img |-> Blank, wr |-> 0]
    /\ rearm_pending' = (active # "none")
    /\ UNCHANGED <<active, values, seen_wr_count, wstep, unloaded, dutWrites, sensorFaults>>

(* The DUT writes a register of an armed target. *)
DutImages(img) == {[img EXCEPT !.cfg = 1 - @]} \cup {[img EXCEPT !.pwr = p] : p \in {"on", "sleep", "reset"}}
DutWrites ==
    /\ target.armed /\ active = "mpu6050" /\ dutWrites < MaxWrites /\ dutWrites' = dutWrites + 1
    /\ EarlyWrites \/ wstep.at # "armed"
    /\ \E i \in DutImages(target.img) \ {target.img} : target' = [target EXCEPT !.img = i, !.wr = @ + 1]
    /\ UNCHANGED <<active, values, seen_wr_count, rearm_pending, wstep, unloaded, sensorCmds, sensorFaults>>

Next ==
    \/ \E m \in Models : SensorStart(m)
    \/ SensorStop \/ ArmEnds
    \/ \E v \in 0..Codes : SensorSet(v)
    \/ RearmPoll \/ WatchPoll \/ ReadLive \/ Load
    \/ Reconfigured \/ DutWrites

(* The worker finishes a command it began and polls on every pass. *)
Fairness == /\ WF_ssVars(ArmEnds) /\ WF_ssVars(RearmPoll) /\ WF_ssVars(WatchPoll)
            /\ WF_ssVars(ReadLive) /\ WF_ssVars(Load)

Spec == Init /\ [][Next]_ssVars /\ Fairness

--------------------------------------------------------------------------------
TypeOK ==
    /\ active \in {"none"} \cup Models /\ values \in 0..Codes
    /\ target.armed \in BOOLEAN /\ target.img.cfg \in {0, 1} /\ target.img.pwr \in {"sleep", "on", "reset"}
    /\ {rearm_pending, unloaded} \subseteq BOOLEAN /\ wstep.at \in {"idle", "armed", "set", "poll", "load"}

Fresh == target.img.data = Readings(active, values, target.img.cfg, target.img.pwr) /\ target.img.pwr # "reset"

(* What the DUT reads follows what the client set and what the DUT configured: an armed sensor comes back to
   readings computed for its present values, scale and power state, however writes of the DUT fall between the
   poll, the read of the live image and the load, and after an image swap. *)
Followed == active = "none" \/ unloaded \/ Fresh
ReadingsFollow == []<>Followed

(* A reload leaves the registers the DUT configured as they are, unless the DUT itself asked for a reset: a
   write that lands between the read of the live image and the load is not undone. *)
LoadSpares ==
    wstep.at = "load" /\ ~Resets(active, wstep.live) =>
        \/ target'.wr # target.wr
        \/ target'.img.cfg = target.img.cfg /\ target'.img.pwr = target.img.pwr
DutRegistersKept == [][LoadSpares]_ssVars

(* The code a Bosch model shows is the one whose compensated value is nearest to the value that was set. *)
CodesNearest == active = "bmp280" =>
    \A f \in Tables : \A i \in 0..Codes : Miss(f, FindAdc(f, values), values) <= Miss(f, i, values)
================================================================================
