------------------------------- MODULE AdcRange ---------------------------------
(***************************************************************************)
(* The ADC's side of the analog board: the relays that route its input     *)
(* (U58, i2c_bus.c), the low range (relay K5), the calibration commands     *)
(* (command_handler_analog.c, adc_cal.c, adc_cal_hw.c) and the announcement *)
(* of the fit captures are scaled with, which the net task sends when asked.*)
(* The commands run on the hardware worker; the net task outranks it and    *)
(* may send between any two of its steps.  A calibration part is told apart *)
(* only by when it was stored (0: not set).                                 *)
(***************************************************************************)
EXTENDS Naturals

CONSTANTS MaxStores,     \* calibrations stored
          MaxCmds,       \* commands that move relays
          MaxFails       \* flash and relay failures

ConstantsOK == MaxStores \in Nat /\ MaxCmds \in Nat /\ MaxFails \in Nat

VARIABLES
    lowhw,               \* s_low_hw: the module has K5
    rpath, relays,       \* s_path, and what the relays connect
    rlow,                \* s_low: K5 is on
    rec,                 \* s_rec and what derive made of it: the calibration in use
    cjob,                \* the calibration being stored and how far apply() is
    stores, cmds, fails,
    resend, told,        \* s_resend_caps, and the fit the server was told last
    refused              \* ghost: a calibration ended with an error since the last announcement

arVars == <<lowhw, rpath, relays, rlow, rec, cjob, stores, cmds, fails, resend, told, refused>>

Parts == {"zero", "dac5", "dac12", "cal1", "cal2", "ext", "low", "comp"}
Nothing == [p \in Parts |-> 0]
NoJob == [pc |-> "idle", new |-> Nothing, was |-> Nothing, tell |-> FALSE]
Routes == {"off", "ext", "cal1", "cal2", "current_in", "current_out"}   \* the DAC routes leave the relays as "off" does

\* The fit of the ext input in the capabilities (adc_cal_range_fit): the low range's gain is
\* relative to cal1's.
Fit(low, r) == IF low THEN <<r["zero"], r["ext"], r["cal1"], r["low"]>> ELSE <<r["zero"], r["ext"]>>

--------------------------------------------------------------------------------
(* The relays and K5. *)

KeepsLow(p) == p \notin {"off", "cal2"}

\* As if a range change were never announced.
ShadowSilent(low) == rlow' = low /\ UNCHANGED resend

\* low_range_shadow: K5 changes, and the capabilities are due.
Shadow(low) == rlow' = low /\ resend' = (resend \/ rlow # low)

\* analog_path_set: off and cal2 put the range back; current_out moves no relay.
PathSet(p) ==
    /\ Shadow(rlow /\ KeepsLow(p))
    /\ relays' = IF p = "current_out" THEN relays ELSE p
    /\ rpath' = IF p = "current_out" THEN rpath ELSE p

\* range_arg: what a "range" argument may ask of a path.
RangeArgOK(p, r) == r = "low" => lowhw /\ KeepsLow(p)

\* handle_analog_path and handle_adc_read: the route, then the range when one was given.
AnalogPath ==
    \E p \in Routes, r \in {"none", "normal", "low"} :
        /\ RangeArgOK(p, r)
        /\ IF r = "none" THEN PathSet(p)
           ELSE /\ Shadow(r = "low")
                /\ relays' = IF p = "current_out" THEN relays ELSE p
                /\ rpath' = IF p = "current_out" THEN rpath ELSE p

\* handle_cal_switch over calsw_set: the relays by hand, s_path stays.
CalSwitch ==
    \E p \in {"off", "ext", "cal1", "cal2", "current_in"} :
        /\ relays' = p /\ UNCHANGED rpath
        /\ Shadow(rlow /\ p # "cal2")

\* adc_range_set: refused without K5 and on the path cal2.
RangeSet(low) == (low => lowhw /\ rpath # "cal2") /\ Shadow(low) /\ UNCHANGED <<rpath, relays>>

\* handle_adc_range with a range.
AdcRangeCmd == \E low \in BOOLEAN : RangeSet(low)

\* adc_range_selftest: the cal1 loopback in both ranges, then off.  Any point may fail.
SelfTest ==
    /\ lowhw
    /\ rlow' = FALSE /\ resend' = TRUE /\ rpath' = "off" /\ relays' = "off"

\* analog_switch_init when a module's power returns.
SwitchInit == rpath' = "off" /\ relays' = "off" /\ Shadow(FALSE)

--------------------------------------------------------------------------------
(* Calibration.  apply() derives the new record to check it, goes back to the old one, saves, and
   derives the new one again. *)

\* adc_cal_gain_ready: the offset and the output it is measured against come first.
GainReady(src) == rec["zero"] # 0 /\ rec[IF src = "cal1" THEN "dac5" ELSE "dac12"] # 0

\* derive, as apply's check: out of range refuses, and nothing changed.
Check(new, tell) ==
    /\ stores < MaxStores /\ stores' = stores + 1
    /\ \/ rec' = new /\ cjob' = [pc |-> "checked", new |-> new, was |-> rec, tell |-> tell] /\ UNCHANGED refused
       \/ UNCHANGED <<rec, cjob>> /\ refused' = TRUE

Stored(p) == [rec EXCEPT ![p] = stores + 1]

\* adc_cal_dac_store, adc_cal_current_in_store, adc_cal_gain_store, adc_cal_low_gain_store: the
\* measurement has been made, the relays are where it left them.
DacStore == (\E p \in {"dac5", "dac12"} : Check(Stored(p), FALSE)) /\ UNCHANGED <<rpath, relays, rlow, resend>>
ZeroStore == Check(Stored("zero"), TRUE) /\ PathSet("current_in")
\* adc_cal_measure_gain ends on off, in the normal range, a failed measurement too.
MeasureGain == rlow' = FALSE /\ resend' = (resend \/ rlow) /\ rpath' = "off" /\ relays' = "off"
GainStore == (\E src \in {"cal1", "cal2", "ext"} : GainReady(src) /\ Check(Stored(src), TRUE)) /\ MeasureGain
\* The low range is switched on for the measurement and off after it.
LowGainStore == /\ lowhw /\ GainReady("cal1") /\ Check(Stored("low"), TRUE)
                /\ rlow' = FALSE /\ resend' = TRUE /\ rpath' = "off" /\ relays' = "off"

\* apply puts the old record back until the new one is saved.
BackToOld == cjob.pc = "checked" /\ rec' = cjob.was /\ cjob' = [cjob EXCEPT !.pc = "saving"]
             /\ UNCHANGED <<fails, refused, resend>>

\* commit: both saves, then the new record is in use; a save that fails leaves the old one.
Commit ==
    /\ cjob.pc = "saving"
    /\ \/ /\ rec' = cjob.new
          /\ cjob' = (IF cjob.tell THEN [cjob EXCEPT !.pc = "asks"] ELSE NoJob)
          /\ UNCHANGED <<fails, refused>>
       \/ /\ fails < MaxFails /\ fails' = fails + 1
          /\ cjob' = NoJob /\ refused' = TRUE /\ UNCHANGED rec
    /\ UNCHANGED resend

\* As if handle_calibrate asked for no new announcement.
AnnounceNever == cjob.pc = "asks" /\ cjob' = NoJob /\ UNCHANGED <<rec, fails, refused, resend>>

\* handle_calibrate asks for the announcement once the part is stored; DAC lines are not in it.
Announce == cjob.pc = "asks" /\ cjob' = NoJob /\ resend' = TRUE /\ UNCHANGED <<rec, fails, refused>>

\* adc_cal_comp_store: recorded, not applied.
CompStore ==
    /\ stores < MaxStores /\ stores' = stores + 1
    /\ cjob' = [pc |-> "saving", new |-> Stored("comp"), was |-> rec, tell |-> FALSE]
    /\ UNCHANGED <<refused, rec, rpath, relays, rlow, resend>>

\* adc_cal_clear: out of use first; when the erase fails the command ends with an error.
ClearAll ==
    /\ rec' = Nothing
    /\ \/ cjob' = [NoJob EXCEPT !.pc = "asks"] /\ UNCHANGED <<fails, refused>>
       \/ fails < MaxFails /\ fails' = fails + 1 /\ refused' = TRUE /\ UNCHANGED cjob
    /\ UNCHANGED <<rpath, relays, rlow, resend, stores>>

\* adc_cal_clear_part: less than before, saved as it is.
ClearPart ==
    /\ \E ps \in {{"zero"}, {"dac5", "dac12"}, {"cal1", "cal2", "ext", "low", "comp"}} :
         cjob' = [pc |-> "saving", new |-> [p \in Parts |-> IF p \in ps THEN 0 ELSE rec[p]], was |-> rec,
                  tell |-> TRUE]
    /\ UNCHANGED <<refused, rec, rpath, relays, rlow, resend, stores, fails>>

\* handle_calibrate: one of its forms.
Calibrate ==
    \/ (DacStore \/ ZeroStore \/ GainStore \/ LowGainStore \/ CompStore) /\ UNCHANGED fails
    \/ ClearAll \/ ClearPart

--------------------------------------------------------------------------------
\* cl_send_capabilities on the net task: at a connect, or when asked for.
SendCaps ==
    /\ told' = <<rlow, Fit(rlow, rec)>>
    /\ resend' = FALSE /\ refused' = (refused /\ cjob.pc = "checked")
    /\ UNCHANGED <<lowhw, rpath, relays, rlow, rec, cjob, stores, cmds, fails>>

\* A connect does not take the request back.
ConnectCaps ==
    /\ told' = <<rlow, Fit(rlow, rec)>> /\ refused' = (refused /\ cjob.pc = "checked")
    /\ UNCHANGED <<lowhw, rpath, relays, rlow, rec, cjob, stores, cmds, fails, resend>>

Init ==
    /\ lowhw \in BOOLEAN
    /\ rpath = "off" /\ relays = "off" /\ rlow = FALSE
    /\ rec = Nothing /\ cjob = NoJob
    /\ stores = 0 /\ cmds = 0 /\ fails = 0
    /\ resend = FALSE /\ told = <<FALSE, Fit(FALSE, Nothing)>> /\ refused = FALSE

Idle == cjob.pc = "idle" /\ cmds < MaxCmds /\ cmds' = cmds + 1

Next ==
    \/ /\ Idle /\ (AnalogPath \/ CalSwitch \/ AdcRangeCmd \/ SelfTest \/ SwitchInit)
       /\ UNCHANGED <<lowhw, rec, cjob, stores, fails, told, refused>>
    \/ Idle /\ Calibrate /\ UNCHANGED <<lowhw, told>>
    \/ (BackToOld \/ Commit \/ Announce) /\ UNCHANGED <<lowhw, rpath, relays, rlow, stores, cmds, told>>
    \/ resend /\ SendCaps
    \/ ConnectCaps

Spec == Init /\ [][Next]_arVars
--------------------------------------------------------------------------------
\* The types of the ADC side's state.
TypeOK ==
    /\ lowhw \in BOOLEAN /\ rlow \in BOOLEAN /\ resend \in BOOLEAN /\ refused \in BOOLEAN
    /\ rpath \in Routes /\ relays \in Routes
    /\ rec \in [Parts -> 0..MaxStores]
    /\ cjob.pc \in {"idle", "checked", "saving", "asks"}

\* API.md, capabilities: the server scales a capture with the range and the fit it was taken with.
\* Between commands the last announcement is the fit in use, or another one is due, unless a
\* calibration ended with an error since.  An announcement sent while apply() tries a record is corrected.
AnnouncedFit == cjob.pc = "idle" => \/ told = <<rlow, Fit(rlow, rec)>> \/ resend \/ refused

================================================================================
