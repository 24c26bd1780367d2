-------------------------------- MODULE AdcCal ---------------------------------
(***************************************************************************)
(* adc_cal.c: the pod's calibration, kept in an A/B store as a pair.  Every *)
(* commit saves the whole record (version 2) and then, for firmware 3.4.0   *)
(* to 3.9.3, a copy with the offset only (version 1).  At boot the version  *)
(* 2 record is taken when it is the newest or the pair of the newest copy.  *)
(*                                                                          *)
(* A record is the measured zero (0: not set) and the rest (fit, 0: nothing *)
(* set): DAC lines, gains, compensation.  The offset a copy holds converts  *)
(* back to the zero it was made from, since adc_cal1_v1 equals adc_cal1 on  *)
(* every board.                                                             *)
(***************************************************************************)
EXTENDS AbStore

CONSTANTS Zeros, Fits, MaxReboots   \* MaxReboots bounds firmware changes and resets

VARIABLES
    rec,      \* s_rec: the calibration in use
    job,      \* the commit in progress: "none", "save2", "save1" or "clear"
    new,      \* the record it commits
    old,      \* the pod runs firmware 3.4.0 .. 3.9.3
    reboots,  \* resets so far
    wrote,    \* history: the offset older firmware saved since the last commit, or 0
    mixed     \* history: it saved one over a version 2 record whose copy is missing

calVars == <<rec, job, new, old, reboots, wrote, mixed>>

Records == [zero : Zeros \cup {0}, fit : Fits \cup {0}]
Empty == [zero |-> 0, fit |-> 0]

\* v1_copy
V1Copy(r) == [r EXCEPT !.fit = 0]

\* ab_store_load_version: the slot it takes for a version, 2 when there is none.
SlotOf(ver) ==
    LET fit(i) == Valid(i) /\ hdr[i].ver = ver /\ hdr[i].val # Tombstone
    IN  IF Newest = 2 THEN 2
        ELSE IF hdr[Newest].val = Tombstone THEN 2
        ELSE IF fit(Newest) THEN Newest
        ELSE IF fit(1 - Newest) THEN 1 - Newest ELSE 2

\* *behind: how many saves older than the newest record.
Behind(i) == SeqDiff(hdr[Newest].seq, hdr[i].seq)

\* A variant for mutation checks: version 1 records are ignored.
PickV2Only == IF SlotOf(2) # 2 THEN body[SlotOf(2)] ELSE Empty

\* A variant for mutation checks: only the newest record is looked at.
PickNewestOnly == IF Newest = 2 THEN Empty ELSE
                  IF hdr[Newest].val = Tombstone THEN Empty ELSE body[Newest]

\* pick_record, adc_cal_load.
Pick ==
    LET two == SlotOf(2)
        one == SlotOf(1)
    IN  IF two # 2 /\ (Behind(two) = 0 \/ (one # 2 /\ Behind(one) = 0 /\ Behind(two) = 1))
          THEN body[two]
        ELSE IF one # 2 /\ Behind(one) = 0 THEN body[one]
        ELSE Empty

(***************************************************************************)
(* This firmware.                                                           *)
(***************************************************************************)
\* commit: a record with nothing set clears the store.  (The newest record
\* can equal r only after a copy could not be programmed, which does not happen here.)
Commit(r) ==
    /\ ~old /\ job = "none" /\ r # rec
    /\ IF r = Empty THEN Clear /\ job' = "clear" ELSE Save(2, r) /\ job' = "save2"
    /\ new' = r
    /\ wrote' = 0
    /\ UNCHANGED <<rec, old, reboots, mixed>>

\* One flash operation of the call under way; a call that returns ends the commit or
\* starts the second save, and derive() follows only the last one.
CommitStep ==
    /\ ~old /\ call.pc # "idle"
    /\ WriteStep
    /\ IF call'.pc # "idle" \/ (job = "save2" /\ result')
         THEN UNCHANGED <<rec, job>>
         ELSE /\ rec' = IF result' THEN new ELSE rec
              /\ job' = "none"
    /\ UNCHANGED <<new, old, reboots, wrote, mixed>>

SaveCopy ==
    /\ ~old /\ job = "save2" /\ call.pc = "idle"
    /\ Save(1, V1Copy(new))
    /\ job' = "save1"
    /\ UNCHANGED <<rec, new, old, reboots, wrote, mixed>>

(***************************************************************************)
(* Firmware 3.4.0 .. 3.9.3 on the same store, and resets.                   *)
(***************************************************************************)
\* Its save runs to the end: only this firmware's power losses are of interest here.
OldSave(z) ==
    /\ old /\ call.pc = "idle" /\ wrote = 0
    /\ ~Unchanged(1, [zero |-> z, fit |-> 0])
    /\ hdr' = [hdr EXCEPT ![Target] = [seq |-> NextSeq, ver |-> 1, val |-> [zero |-> z, fit |-> 0]]]
    /\ body' = [body EXCEPT ![Target] = [zero |-> z, fit |-> 0]]
    /\ wrote' = z
    /\ mixed' = (mixed \/ (Newest # 2 /\ hdr[Newest].ver = 2 /\ hdr[Newest].val # Tombstone))
    /\ UNCHANGED <<legacy, call, result, rec, job, new, old, reboots>>

Boot ==
    /\ reboots < MaxReboots
    /\ reboots' = reboots + 1
    /\ old' \in BOOLEAN
    /\ rec' = Pick'
    /\ job' = "none"
    /\ new' = Pick'
    /\ UNCHANGED <<wrote, mixed>>

\* A reset between two commits, an update or a downgrade included.
Reboot ==
    /\ call.pc = "idle" /\ job = "none"
    /\ UNCHANGED <<hdr, body, legacy, call, result>>
    /\ Boot

\* A power loss during a commit, between its two saves included.
PowerLossInCommit ==
    /\ job # "none"
    /\ \/ PowerLoss
       \/ call.pc = "idle" /\ UNCHANGED <<hdr, body, legacy, call, result>>
    /\ Boot

CalInit ==
    /\ hdr \in [Slots -> {Blank}] /\ body = hdr
    /\ legacy = Blank
    /\ call = NoCall
    /\ result = TRUE
    /\ rec = Empty
    /\ job = "none"
    /\ new = Empty
    /\ old = FALSE
    /\ reboots = 0
    /\ wrote = 0
    /\ mixed = FALSE

CalNext ==
    \/ \E r \in Records : Commit(r)
    \/ CommitStep \/ SaveCopy
    \/ \E z \in Zeros : OldSave(z)
    \/ Reboot \/ PowerLossInCommit

CalSpec == CalInit /\ [][CalNext]_<<vars, calVars>>

(***************************************************************************)
(* Properties.                                                              *)
(***************************************************************************)
\* Whenever power is lost, the zero (ADC offset) loaded at the next boot is the one in
\* use or the one being saved: the version 1 copy stands in while the version 2 record
\* is being rewritten.
ZeroSurvives == ~old /\ wrote = 0 /\ ~mixed => Pick.zero \in {rec.zero, new.zero}

\* Between commits a boot loads the calibration in use, however the commits before it
\* ended, and never a part of one.
LoadsWhole == ~old /\ wrote = 0 /\ ~mixed /\ job = "none" => Pick \in {rec, new}

\* adc_cal.h: the calibration is "Stored in its own power-loss-safe A/B store", and
\* config_store.h: "a power loss at any point leaves the previous config readable".
CalibrationSurvives == ~old /\ wrote = 0 /\ ~mixed => Pick \in {rec, new}

\* adc_cal.h: "a version-1 record that older firmware wrote after a downgrade (or its
\* clear) is newer than that and wins."  (Not after a power loss between the two saves of a
\* commit: older firmware's record then takes the place of the missing copy, see mixed.)
OldFirmwareWins == wrote # 0 /\ ~mixed => Pick = [zero |-> wrote, fit |-> 0]
================================================================================
