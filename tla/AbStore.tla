-------------------------------- MODULE AbStore --------------------------------
(***************************************************************************)
(* config_store.c: the A/B record store.  A record is a header quad-word    *)
(* (magic, sequence number, version and length, CRC) and a payload; a save  *)
(* erases the slot that does not hold the newest record, programs the       *)
(* payload, then the header, and reads the record back.  The store keeps no *)
(* state in RAM, so after a power loss only the flash counts.               *)
(*                                                                          *)
(* A header carries the value it is the header of: the CRC matches exactly  *)
(* the payload it was made for.  A quad-word cut short by a power loss, or  *)
(* programmed over data, is Torn (an ECC error: flash_read_checked).        *)
(***************************************************************************)
EXTENDS Integers, TLAPS

CONSTANTS
    Payloads,   \* values a client saves
    Versions,   \* schema versions a record can have
    Version,    \* s->version
    HalfSeq,    \* 2^31: sequence numbers are counted modulo 2 * HalfSeq
    HasLegacy,  \* the pod may still hold a record of the single-sector layout
    Faulty,     \* programming the flash may fail (flash_range_program ignores the HAL's status)
    None, Idle, Blank, Torn, Tombstone

VARIABLES
    hdr,     \* the header quad-word of each slot
    body,    \* the payload of each slot
    legacy,  \* the sector of the single-sector layout
    call,    \* the call in progress
    result   \* what the last call returned

vars == <<hdr, body, legacy, call, result>>

Slots == {0, 1}
SeqMod == 2 * HalfSeq
Seqs == 0 .. SeqMod - 1
Contents == Payloads \cup {Tombstone}
Headers == [seq : Seqs, ver : Versions, val : Contents]

ConstantsOK ==
    /\ HalfSeq \in Nat /\ HalfSeq >= 2
    /\ Version \in Versions /\ Versions \subseteq Nat
    /\ HasLegacy \in BOOLEAN /\ Faulty \in BOOLEAN
    /\ {None, Idle, Blank, Torn, Tombstone} \cap Payloads = {}
    /\ None # Idle /\ Blank # Torn /\ Blank # Tombstone /\ Torn # Tombstone
    /\ {Blank, Torn} \cap Headers = {}

\* A variant for mutation checks: the sequence number does not wrap.
SuccSeqNoWrap(s) == s + 1

\* Unsigned 32-bit arithmetic on sequence numbers.
SuccSeq(s) == IF s = SeqMod - 1 THEN 0 ELSE s + 1
SeqDiff(a, b) == IF a >= b THEN a - b ELSE a - b + SeqMod

(***************************************************************************)
(* Reading.                                                                 *)
(***************************************************************************)
\* A variant for mutation checks: the CRC over the payload is not checked.
ValidNoCrc(i) == hdr[i] \in Headers

\* slot_read: header readable, magic right, CRC over sequence number and payload right.
Valid(i) == hdr[i] \in Headers /\ hdr[i].val \in {Tombstone, body[i]}

\* A variant for mutation checks: sequence numbers are compared as unsigned.
NewestUnsigned ==
    IF Valid(0) /\ Valid(1) THEN IF hdr[1].seq > hdr[0].seq THEN 1 ELSE 0
    ELSE IF Valid(0) THEN 0 ELSE IF Valid(1) THEN 1 ELSE 2

\* newest_slot: (int32_t)(h[1].seq - h[0].seq) > 0; 2 stands for -1, no valid slot.
Newest ==
    IF Valid(0) /\ Valid(1)
      THEN IF SeqDiff(hdr[1].seq, hdr[0].seq) \in 1 .. HalfSeq - 1 THEN 1 ELSE 0
      ELSE IF Valid(0) THEN 0 ELSE IF Valid(1) THEN 1 ELSE 2

\* ab_store_load, ab_store_load_var: the newest record, unless it is a tombstone or of
\* another version; the old layout only when neither slot holds a record.
Load ==
    IF Newest = 2 THEN IF legacy \in Payloads THEN legacy ELSE None
    ELSE IF hdr[Newest].val = Tombstone \/ hdr[Newest].ver # Version THEN None
    ELSE body[Newest]

(***************************************************************************)
(* Writing, one flash operation at a time.                                  *)
(***************************************************************************)
NoCall == [op |-> "none", pc |-> "idle", target |-> 0, seq |-> 0, ver |-> Version,
           val |-> Tombstone, ok |-> TRUE]

NewHeader == [seq |-> call.seq, ver |-> call.ver, val |-> call.val]

\* A variant for mutation checks: a save overwrites the newest record.
TargetNewest == IF Newest = 2 THEN 0 ELSE Newest

\* The slot that does not hold the newest record.
Target == IF Newest = 2 THEN 0 ELSE 1 - Newest

NextSeq == IF Newest = 2 THEN 1 ELSE SuccSeq(hdr[Newest].seq)

Begin(op, ver, val) ==
    /\ call.pc = "idle"
    /\ call' = [op |-> op, pc |-> "erase", target |-> Target, seq |-> NextSeq,
                ver |-> ver, val |-> val, ok |-> TRUE]
    /\ UNCHANGED <<hdr, body, legacy, result>>

\* ab_store_save finds the newest record equal to the data.
Unchanged(ver, val) ==
    Newest # 2 /\ hdr[Newest].ver = ver /\ hdr[Newest].val # Tombstone /\ body[Newest] = val

Save(ver, val) == ~Unchanged(ver, val) /\ Begin("save", ver, val)

SaveUnchanged(ver, val) ==
    /\ call.pc = "idle" /\ Unchanged(ver, val)
    /\ result' = TRUE
    /\ UNCHANGED <<hdr, body, legacy, call>>

Clear == Begin("clear", Version, Tombstone)

\* What programming new can leave in a quad-word that held old.
Programmed(old, new) ==
    (IF old = Blank THEN {new} ELSE {Torn}) \cup IF Faulty THEN {old, Torn} ELSE {}

\* write_record: flash_range_erase.
Erase ==
    /\ call.pc = "erase"
    /\ hdr' = [hdr EXCEPT ![call.target] = Blank]
    /\ body' = [body EXCEPT ![call.target] = Blank]
    /\ call' = [call EXCEPT !.pc = IF call.val = Tombstone THEN "header" ELSE "body"]
    /\ UNCHANGED <<legacy, result>>

\* write_record: the payload, in one or several pages.
ProgramBody ==
    /\ call.pc = "body"
    /\ \E b \in Programmed(body[call.target], call.val) :
         body' = [body EXCEPT ![call.target] = b]
    /\ call' = [call EXCEPT !.pc = "header"]
    /\ UNCHANGED <<hdr, legacy, result>>

\* write_record: the header, the commit point.
ProgramHeader ==
    /\ call.pc = "header"
    /\ \E h \in Programmed(hdr[call.target], NewHeader) :
         hdr' = [hdr EXCEPT ![call.target] = h]
    /\ call' = [call EXCEPT !.pc = "verify"]
    /\ UNCHANGED <<body, legacy, result>>

Written ==
    /\ Valid(call.target) /\ hdr[call.target] = NewHeader
    /\ call.val \in {Tombstone, body[call.target]}

\* write_record reads the record back: a save returns, a clear goes on to the erases.
Verify ==
    /\ call.pc = "verify"
    /\ IF call.op = "save"
         THEN call' = NoCall /\ result' = Written
         ELSE /\ call' = [call EXCEPT !.ok = Written,
                                      !.pc = IF Written THEN "erase_other" ELSE "erase_target"]
              /\ UNCHANGED result
    /\ UNCHANGED <<hdr, body, legacy>>

\* ab_store_clear: erase_sector of a slot.
EraseSlot(i, pc, next) ==
    /\ call.pc = pc
    /\ hdr' = [hdr EXCEPT ![i] = Blank]
    /\ body' = [body EXCEPT ![i] = Blank]
    /\ call' = [call EXCEPT !.pc = next]
    /\ UNCHANGED <<legacy, result>>

EraseTarget == EraseSlot(call.target, "erase_target", "erase_other")
EraseOther  == EraseSlot(1 - call.target, "erase_other", "erase_legacy")

EraseLegacy ==
    /\ call.pc = "erase_legacy"
    /\ legacy' = Blank
    /\ result' = call.ok
    /\ call' = NoCall
    /\ UNCHANGED <<hdr, body>>

\* A quad-word whose erase or program the power loss cuts short.
CutErase(old)        == {old, Torn, Blank}
CutProgram(old, new) == {old, Torn} \cup Programmed(old, new)

\* Power is lost; the flash operation under way may have done nothing, all or part.
PowerLoss ==
    /\ call.pc # "idle"
    /\ call' = NoCall
    /\ LET i == IF call.pc = "erase_other" THEN 1 - call.target ELSE call.target
           erasing == call.pc \in {"erase", "erase_target", "erase_other"}
       IN  /\ \E h \in IF erasing THEN CutErase(hdr[i])
                        ELSE IF call.pc = "header" THEN CutProgram(hdr[i], NewHeader) ELSE {hdr[i]} :
                hdr' = [hdr EXCEPT ![i] = h]
           /\ \E b \in IF erasing THEN CutErase(body[i])
                        ELSE IF call.pc = "body" THEN CutProgram(body[i], call.val) ELSE {body[i]} :
                body' = [body EXCEPT ![i] = b]
    /\ legacy' \in IF call.pc = "erase_legacy" /\ HasLegacy THEN CutErase(legacy) ELSE {legacy}
    /\ UNCHANGED result

(***************************************************************************)
(* The specification.                                                       *)
(***************************************************************************)
\* A pod with blank slots or one record, of any sequence number, and perhaps one of the
\* old layout.
Init ==
    /\ hdr \in [Slots -> Headers \cup {Blank}] /\ hdr[1] = Blank
    /\ body = [i \in Slots |-> IF hdr[i] \in Headers /\ hdr[i].val # Tombstone
                                 THEN hdr[i].val ELSE Blank]
    /\ legacy \in {Blank} \cup IF HasLegacy THEN Payloads ELSE {}
    /\ call = NoCall
    /\ result = TRUE

WriteStep ==
    \/ Erase \/ ProgramBody \/ ProgramHeader \/ Verify
    \/ EraseTarget \/ EraseOther \/ EraseLegacy

Next ==
    \/ \E v \in Payloads : Save(Version, v) \/ SaveUnchanged(Version, v)
    \/ Clear
    \/ WriteStep
    \/ PowerLoss

Spec == Init /\ [][Next]_vars

(***************************************************************************)
(* Properties.                                                              *)
(***************************************************************************)
TypeOK ==
    /\ hdr \in [Slots -> Headers \cup {Blank, Torn}]
    /\ body \in [Slots -> Payloads \cup {Blank, Torn}]
    /\ legacy \in Payloads \cup {Blank, Torn}
    /\ call \in [op : {"none", "save", "clear"},
                 pc : {"idle", "erase", "body", "header", "verify",
                       "erase_target", "erase_other", "erase_legacy"},
                 target : Slots, seq : Seqs, ver : Versions, val : Contents, ok : BOOLEAN]
    /\ result \in BOOLEAN

\* While a save has not programmed its header, a load returns what it returned before.
\* config_store.h: "until the save verifies, the other slot (lower seq) is still the
\* newest, so a power loss at any point leaves the previous config readable."
OldKeptUntilCommit ==
    [][call.op = "save" /\ call.pc \in {"erase", "body"} => Load' = Load]_vars

\* The store is a register written at one moment.
pending == IF call.pc = "idle" THEN Idle ELSE IF call.val = Tombstone THEN None ELSE call.val
Register == INSTANCE PowerSafeRegister WITH stored <- Load

\* config_store.h: saves and clears are atomic with respect to power loss, and "power loss
\* mid-clear can never resurrect an old config": a load returns the value before the call
\* or the one it writes, and after a successful return the latter.
Atomic == Register!Spec

(***************************************************************************)
(* Proofs.                                                                  *)
(***************************************************************************)
\* What the record of a slot, and that of the old layout, loads as.
RecordValue(i) == IF hdr[i].val = Tombstone \/ hdr[i].ver # Version THEN None ELSE body[i]
LegacyValue == IF legacy \in Payloads THEN legacy ELSE None

\* Slot i holds the record saved right after that of the other slot.
Follows(i) == hdr[i].seq = SuccSeq(hdr[1 - i].seq)

\* Between calls, two records have adjacent sequence numbers.
Adjacent == Valid(0) /\ Valid(1) => Follows(0) \/ Follows(1)

\* What a call knows of the slot it writes and of the other one, at each of its steps.
CallInv ==
    LET t == call.target
        o == 1 - call.target
    IN  /\ call.op \in {"save", "clear"} /\ call.ver = Version
        /\ call.op = "clear" <=> call.val = Tombstone
        /\ Valid(o) => call.seq = SuccSeq(hdr[o].seq)
        /\ call.pc = "erase" /\ Valid(t) => Valid(o) /\ Follows(o)
        /\ call.pc \in {"body", "header"} => hdr[t] = Blank
        /\ call.pc = "body" => call.op = "save"
        /\ call.pc = "verify" =>
             hdr[t] = NewHeader \/ (Faulty /\ hdr[t] \in {Blank, Torn})
        /\ call.pc = "erase_target" => Faulty /\ ~call.ok /\ hdr[t] \in {Blank, Torn}
        /\ call.pc \in {"erase_other", "erase_legacy"} =>
             IF call.ok THEN hdr[t] = NewHeader ELSE Faulty /\ hdr[t] = Blank
        /\ call.pc \in {"erase_target", "erase_other", "erase_legacy"} => call.op = "clear"
        /\ call.pc = "erase_legacy" => hdr[o] = Blank

StoreInv ==
    /\ TypeOK
    /\ HasLegacy \/ legacy = Blank
    /\ call.pc = "idle" => call = NoCall /\ Adjacent
    /\ call.pc # "idle" => CallInv

\* Which record a load takes: the one valid record, or of two the one saved after the other.
LoadFacts ==
    /\ Load \in Payloads \cup {None}
    /\ \A t \in Slots : ~Valid(t) => Load = IF Valid(1 - t) THEN RecordValue(1 - t) ELSE LegacyValue
    /\ \A t \in Slots : Valid(t) /\ (Valid(1 - t) => Follows(t)) => Load = RecordValue(t)

\* SuccSeq and SeqDiff: the successor is a sequence number, one ahead; the way back is longer than
\* half the circle.
LEMMA SeqFacts ==
    ASSUME ConstantsOK, NEW s \in Seqs
    PROVE  /\ SuccSeq(s) \in Seqs
           /\ SeqDiff(SuccSeq(s), s) \in 1 .. HalfSeq - 1
           /\ SeqDiff(s, SuccSeq(s)) \notin 1 .. HalfSeq - 1
  BY DEF ConstantsOK, SuccSeq, SeqDiff, Seqs, SeqMod

\* newest_slot, ab_store_load: a load reads the record LoadFacts says.
LEMMA LoadOf ==
    ASSUME ConstantsOK
    PROVE  TypeOK => LoadFacts
<1> SUFFICES ASSUME TypeOK PROVE LoadFacts
  OBVIOUS
<1>1. \A i \in Slots : Valid(i) => /\ hdr[i].seq \in Seqs /\ RecordValue(i) \in Payloads \cup {None}
  BY DEF TypeOK, Valid, Headers, Contents, RecordValue, ConstantsOK
<1>2. LegacyValue \in Payloads \cup {None}
  BY DEF LegacyValue
<1>3. Newest \in {0, 1, 2} /\ (Newest = 2 <=> ~Valid(0) /\ ~Valid(1))
  BY DEF Newest
<1>4. Newest # 2 => Newest \in Slots /\ Valid(Newest) /\ Load = RecordValue(Newest)
  BY DEF Newest, Load, RecordValue, Slots
<1>5. Newest = 2 => Load = LegacyValue
  BY DEF Load, LegacyValue
<1>6. Load \in Payloads \cup {None}
  BY <1>1, <1>2, <1>3, <1>4, <1>5
<1>7. ASSUME NEW t \in Slots, ~Valid(t)
      PROVE  Load = IF Valid(1 - t) THEN RecordValue(1 - t) ELSE LegacyValue
  BY <1>7, <1>3, <1>4, <1>5 DEF Slots
<1>8. ASSUME NEW t \in Slots, Valid(t), Valid(1 - t) => Follows(t)
      PROVE  Newest = t
  <2>1. CASE t = 0
    <3>1. CASE Valid(1)
      <4>1. hdr[1].seq \in Seqs /\ hdr[0].seq = SuccSeq(hdr[1].seq)
        BY <1>1, <1>8, <2>1, <3>1 DEF Follows, Slots
      <4>2. SeqDiff(hdr[1].seq, hdr[0].seq) \notin 1 .. HalfSeq - 1
        BY <4>1, SeqFacts
      <4> QED BY <1>8, <2>1, <4>2 DEF Newest
    <3> QED BY <3>1, <1>8, <2>1 DEF Newest
  <2>2. CASE t = 1
    <3>1. CASE Valid(0)
      <4>1. hdr[0].seq \in Seqs /\ hdr[1].seq = SuccSeq(hdr[0].seq)
        BY <1>1, <1>8, <2>2, <3>1 DEF Follows, Slots
      <4>2. SeqDiff(hdr[1].seq, hdr[0].seq) \in 1 .. HalfSeq - 1
        BY <4>1, SeqFacts
      <4> QED BY <1>8, <2>2, <3>1, <4>2 DEF Newest
    <3> QED BY <3>1, <1>8, <2>2 DEF Newest
  <2> QED BY <2>1, <2>2 DEF Slots
<1>9. \A t \in Slots : Valid(t) /\ (Valid(1 - t) => Follows(t)) => Load = RecordValue(t)
  BY <1>8, <1>4 DEF Slots
<1> QED BY <1>6, <1>7, <1>9 DEF LoadFacts

\* write_record: the slot and the sequence number a new call takes.
LEMMA TargetOf ==
    ASSUME ConstantsOK, TypeOK, Adjacent
    PROVE  /\ Target \in Slots /\ NextSeq \in Seqs
           /\ Valid(1 - Target) => NextSeq = SuccSeq(hdr[1 - Target].seq)
           /\ Valid(Target) => Valid(1 - Target) /\ Follows(1 - Target)
<1>1. \A i \in Slots : Valid(i) => hdr[i].seq \in Seqs
  BY DEF TypeOK, Valid, Headers
<1>2. Newest \in {0, 1, 2} /\ (Newest = 2 <=> ~Valid(0) /\ ~Valid(1))
  BY DEF Newest
<1>3. Newest # 2 => Valid(Newest)
  BY DEF Newest
<1>4. ASSUME Valid(0), Valid(1) PROVE Follows(Newest)
  <2>1. hdr[0].seq \in Seqs /\ hdr[1].seq \in Seqs
    BY <1>1, <1>4 DEF Slots
  <2>2. CASE Follows(1)
    <3>1. SeqDiff(hdr[1].seq, hdr[0].seq) \in 1 .. HalfSeq - 1
      BY <2>1, <2>2, SeqFacts DEF Follows
    <3> QED BY <1>4, <2>2, <3>1 DEF Newest
  <2>3. CASE Follows(0)
    <3>1. SeqDiff(hdr[1].seq, hdr[0].seq) \notin 1 .. HalfSeq - 1
      BY <2>1, <2>3, SeqFacts DEF Follows
    <3> QED BY <1>4, <2>3, <3>1 DEF Newest
  <2> QED BY <1>4, <2>2, <2>3 DEF Adjacent
<1>5. CASE Newest = 2
  <2>1. Target = 0 /\ NextSeq = 1
    BY <1>5 DEF Target, NextSeq
  <2> QED BY <2>1, <1>2, <1>5 DEF Slots, Seqs, SeqMod, ConstantsOK
<1>6. CASE Newest # 2
  <2>1. Target = 1 - Newest /\ NextSeq = SuccSeq(hdr[Newest].seq) /\ Newest \in Slots
    BY <1>6, <1>2 DEF Target, NextSeq, Slots
  <2>2. Target \in Slots /\ 1 - Target = Newest /\ (Target = 0 => Newest = 1) /\ (Target = 1 => Newest = 0)
    BY <2>1 DEF Slots
  <2>3. NextSeq \in Seqs
    BY <2>1, <1>1, <1>3, <1>6, SeqFacts
  <2>4. Valid(Target) => Valid(0) /\ Valid(1)
    BY <2>2, <1>3, <1>6 DEF Slots
  <2> QED BY <2>1, <2>2, <2>3, <2>4, <1>3, <1>4, <1>6
<1> QED BY <1>5, <1>6

\* What programming or cutting short an operation can leave is of the type of a quad-word.
LEMMA CutTypes ==
    ASSUME ConstantsOK, NEW S, NEW a \in S \cup {Blank, Torn}, NEW b \in S \cup {Blank, Torn}
    PROVE  /\ Programmed(a, b) \subseteq S \cup {Blank, Torn}
           /\ CutProgram(a, b) \subseteq S \cup {Blank, Torn}
           /\ CutErase(a) \subseteq S \cup {Blank, Torn}
  BY DEF Programmed, CutProgram, CutErase

\* The state has its types after every step.
LEMMA StoreTypesStep ==
    ASSUME ConstantsOK, StoreInv, [Next]_vars
    PROVE  TypeOK'
<1> USE DEF TypeOK
<1>1. TypeOK /\ (call.pc = "idle" => Adjacent) /\ (call.pc # "idle" => CallInv)
  BY DEF StoreInv
<1>2. NoCall \in [op : {"none", "save", "clear"},
                  pc : {"idle", "erase", "body", "header", "verify",
                        "erase_target", "erase_other", "erase_legacy"},
                  target : Slots, seq : Seqs, ver : Versions, val : Contents, ok : BOOLEAN]
  BY DEF NoCall, Slots, Seqs, SeqMod, ConstantsOK, Contents
<1>3. NewHeader \in Headers
  BY <1>1 DEF NewHeader, Headers
<1>4. call.target \in Slots /\ 1 - call.target \in Slots
  BY <1>1 DEF Slots
<1>5. call.pc # "idle" /\ call.op = "save" => call.val \in Payloads
  BY <1>1 DEF CallInv, Contents
<1>6. ASSUME NEW op \in {"save", "clear"}, NEW val \in Contents, Begin(op, Version, val) PROVE TypeOK'
  <2>1. Target \in Slots /\ NextSeq \in Seqs
    BY <1>1, <1>6, TargetOf DEF Begin
  <2>2. call' \in [op : {"none", "save", "clear"},
                  pc : {"idle", "erase", "body", "header", "verify",
                        "erase_target", "erase_other", "erase_legacy"},
                  target : Slots, seq : Seqs, ver : Versions, val : Contents, ok : BOOLEAN]
    BY <1>6, <2>1 DEF Begin, ConstantsOK
  <2> QED BY <1>1, <1>6, <2>2 DEF Begin
<1>7. ASSUME NEW v \in Payloads, SaveUnchanged(Version, v) PROVE TypeOK'
  BY <1>1, <1>7 DEF SaveUnchanged
<1>8. CASE Erase
  BY <1>1, <1>4, <1>8 DEF Erase
<1>9. CASE ProgramBody
  <2>1. call.val \in Payloads
    BY <1>1, <1>9 DEF ProgramBody, CallInv, Contents, ConstantsOK, TypeOK
  <2>2. body[call.target] \in Payloads \cup {Blank, Torn}
    BY <1>1, <1>4
  <2>3. Programmed(body[call.target], call.val) \subseteq Payloads \cup {Blank, Torn}
    BY <2>1, <2>2, CutTypes
  <2> QED BY <1>1, <1>4, <1>9, <2>3 DEF ProgramBody
<1>10. CASE ProgramHeader
  <2>1. hdr[call.target] \in Headers \cup {Blank, Torn}
    BY <1>1, <1>4
  <2>2. Programmed(hdr[call.target], NewHeader) \subseteq Headers \cup {Blank, Torn}
    BY <1>3, <2>1, CutTypes
  <2> QED BY <1>1, <1>4, <1>10, <2>2 DEF ProgramHeader
<1>11. CASE Verify
  <2>1. Written \in BOOLEAN
    BY DEF Written
  <2>2. result' \in BOOLEAN
    BY <1>1, <1>11, <2>1 DEF Verify
  <2>3. call' \in [op : {"none", "save", "clear"},
                  pc : {"idle", "erase", "body", "header", "verify",
                        "erase_target", "erase_other", "erase_legacy"},
                  target : Slots, seq : Seqs, ver : Versions, val : Contents, ok : BOOLEAN]
    BY <1>1, <1>2, <1>11, <2>1 DEF Verify
  <2> QED BY <1>1, <1>11, <2>2, <2>3 DEF Verify
<1>12. CASE EraseTarget \/ EraseOther
  BY <1>1, <1>4, <1>12 DEF EraseTarget, EraseOther, EraseSlot
<1>13. CASE EraseLegacy
  BY <1>1, <1>2, <1>13 DEF EraseLegacy
<1>14. CASE PowerLoss
  <2>1. call' = NoCall /\ UNCHANGED result
    BY <1>14 DEF PowerLoss
  <2>2. legacy' \in Payloads \cup {Blank, Torn}
    <3>1. CutErase(legacy) \subseteq Payloads \cup {Blank, Torn}
      BY <1>1, CutTypes
    <3> QED BY <1>1, <1>14, <3>1 DEF PowerLoss
  <2>3. PICK i \in Slots : /\ i = IF call.pc = "erase_other" THEN 1 - call.target ELSE call.target
    BY <1>4
  <2>4. hdr' \in [Slots -> Headers \cup {Blank, Torn}]
    <3>1. hdr[i] \in Headers \cup {Blank, Torn}
      BY <1>1, <2>3
    <3>2. CutErase(hdr[i]) \cup CutProgram(hdr[i], NewHeader) \subseteq Headers \cup {Blank, Torn}
      BY <1>3, <3>1, CutTypes
    <3> QED BY <1>1, <1>14, <2>3, <3>1, <3>2 DEF PowerLoss
  <2>5. body' \in [Slots -> Payloads \cup {Blank, Torn}]
    <3>1. body[i] \in Payloads \cup {Blank, Torn}
      BY <1>1, <2>3
    <3>2. CutErase(body[i]) \subseteq Payloads \cup {Blank, Torn}
      BY <3>1, CutTypes
    <3>3. call.pc = "body" => CutProgram(body[i], call.val) \subseteq Payloads \cup {Blank, Torn}
      <4>1. call.pc = "body" => call.val \in Payloads
        BY <1>1 DEF CallInv, Contents
      <4> QED BY <3>1, <4>1, CutTypes
    <3> QED BY <1>1, <1>14, <2>3, <3>1, <3>2, <3>3 DEF PowerLoss
  <2> QED BY <1>1, <1>2, <2>1, <2>2, <2>4, <2>5
<1>15. CASE UNCHANGED vars
  BY <1>1, <1>15 DEF vars
<1> QED
  BY <1>6, <1>7, <1>8, <1>9, <1>10, <1>11, <1>12, <1>13, <1>14, <1>15
  DEF Next, WriteStep, Save, Clear, Contents

\* A slot whose erase was cut short holds its record as before, or none.
LEMMA CutKeeps ==
    ASSUME ConstantsOK, TypeOK, NEW i \in Slots,
           hdr'[i] \in CutErase(hdr[i]), body'[i] \in CutErase(body[i]), Valid(i)'
    PROVE  Valid(i) /\ hdr'[i] = hdr[i] /\ RecordValue(i)' = RecordValue(i)
<1>1. hdr'[i] = hdr[i] /\ hdr[i] \in Headers
  BY DEF CutErase, Valid, ConstantsOK
<1>2. hdr[i].val = Tombstone \/ body'[i] = body[i]
  BY <1>1 DEF CutErase, Valid, ConstantsOK, Headers, Contents
<1> QED BY <1>1, <1>2 DEF Valid, RecordValue

\* write_record, ab_store_clear: the call takes another step and leaves the other slot alone.
LEMMA SlotsStep ==
    ASSUME ConstantsOK, StoreInv, NEW t \in Slots, NEW o \in Slots, t = call.target, o = 1 - t,
           call.pc # "idle",
           hdr'[o] = hdr[o], body'[o] = body[o]
    PROVE  /\ (Valid(o)' <=> Valid(o)) /\ RecordValue(o)' = RecordValue(o)
           /\ Valid(o)' => call.seq = SuccSeq(hdr'[o].seq)
  BY DEF StoreInv, CallInv, Valid, RecordValue

\* The invariant holds after every step.
LEMMA StoreInvStep ==
    ASSUME ConstantsOK, StoreInv, [Next]_vars
    PROVE  StoreInv'
<1>1. TypeOK /\ (HasLegacy \/ legacy = Blank)
  BY DEF StoreInv
<1>2. TypeOK'
  BY StoreTypesStep
<1>3. PICK t \in Slots : t = call.target
  BY <1>1 DEF TypeOK
<1>4. PICK o \in Slots : o = 1 - t
  BY <1>3 DEF Slots
<1>5. t = 1 - o /\ t # o /\ Slots = {t, o}
  BY <1>4 DEF Slots
<1>6. hdr \in [Slots -> Headers \cup {Blank, Torn}] /\ body \in [Slots -> Payloads \cup {Blank, Torn}]
  BY <1>1 DEF TypeOK
<1>7. Blank \notin Headers /\ Torn \notin Headers
  BY DEF ConstantsOK
<1>8. HasLegacy \/ legacy' = Blank
  BY <1>1 DEF Next, Save, SaveUnchanged, Clear, Begin, WriteStep, Erase, ProgramBody, ProgramHeader,
     Verify, EraseTarget, EraseOther, EraseSlot, EraseLegacy, PowerLoss, vars
<1>9. ASSUME NEW op \in {"save", "clear"}, NEW val, op = "clear" <=> val = Tombstone,
             Begin(op, Version, val)
      PROVE  call'.pc = "erase" /\ CallInv'
  <2>1. Adjacent
    BY <1>9 DEF StoreInv, Begin
  <2>2. UNCHANGED <<hdr, body>>
        /\ call' = [op |-> op, pc |-> "erase", target |-> Target, seq |-> NextSeq,
                    ver |-> Version, val |-> val, ok |-> TRUE]
    BY <1>9 DEF Begin
  <2>3. /\ Valid(1 - Target) => NextSeq = SuccSeq(hdr[1 - Target].seq)
        /\ Valid(Target) => Valid(1 - Target) /\ Follows(1 - Target)
    BY <1>1, <2>1, TargetOf
  <2> QED BY <1>9, <2>2, <2>3 DEF CallInv, Valid, Follows
<1>10. ASSUME call.pc = "idle", UNCHANGED <<hdr, body, legacy, call>> PROVE StoreInv'
  BY <1>2, <1>8, <1>10 DEF StoreInv, Adjacent, Valid, Follows, NoCall
<1>11. ASSUME call.pc # "idle" PROVE CallInv
  BY <1>11 DEF StoreInv
<1>12. ASSUME UNCHANGED <<hdr, body, legacy, call>>, call.pc # "idle" PROVE CallInv'
  BY <1>11, <1>12 DEF CallInv, Valid, Follows, NewHeader
<1>13. CASE Erase
  <2>1. call.pc = "erase" /\ CallInv
    BY <1>11, <1>13 DEF Erase
  <2>2. hdr' = [hdr EXCEPT ![t] = Blank] /\ body' = [body EXCEPT ![t] = Blank]
    BY <1>3, <1>13 DEF Erase
  <2>3. call' = [call EXCEPT !.pc = IF call.val = Tombstone THEN "header" ELSE "body"]
    BY <1>13 DEF Erase
  <2>4. hdr'[t] = Blank /\ hdr'[o] = hdr[o] /\ body'[o] = body[o]
    BY <2>2, <1>5, <1>6
  <2>5. Valid(o)' => call.seq = SuccSeq(hdr'[o].seq)
    BY <2>1, <2>4, <1>3, <1>4, SlotsStep
  <2>6. /\ call'.pc \in {"header", "body"} /\ (call'.pc = "body" => call.val # Tombstone)
        /\ call'.op = call.op /\ call'.ver = call.ver /\ call'.val = call.val /\ call'.seq = call.seq
        /\ call'.target = t
    BY <2>3, <1>1, <1>3 DEF TypeOK
  <2>7. CallInv'
    BY <2>1, <2>4, <2>5, <2>6, <1>4 DEF CallInv
  <2> QED BY <1>2, <1>8, <2>6, <2>7 DEF StoreInv
<1>14. CASE ProgramBody
  <2>1. call.pc = "body" /\ CallInv
    BY <1>11, <1>14 DEF ProgramBody
  <2>2. PICK b : body' = [body EXCEPT ![t] = b]
    BY <1>3, <1>14 DEF ProgramBody
  <2>3. call' = [call EXCEPT !.pc = "header"] /\ hdr' = hdr
    BY <1>14 DEF ProgramBody
  <2>4. hdr'[o] = hdr[o] /\ body'[o] = body[o] /\ hdr'[t] = Blank
    BY <2>1, <2>2, <2>3, <1>3, <1>5, <1>6 DEF CallInv
  <2>5. Valid(o)' => call.seq = SuccSeq(hdr'[o].seq)
    BY <2>1, <2>4, <1>3, <1>4, SlotsStep
  <2>6. /\ call'.pc = "header"
        /\ call'.op = call.op /\ call'.ver = call.ver /\ call'.val = call.val /\ call'.seq = call.seq
        /\ call'.target = t
    BY <2>3, <1>1, <1>3 DEF TypeOK
  <2>7. CallInv'
    BY <2>1, <2>4, <2>5, <2>6, <1>4 DEF CallInv
  <2> QED BY <1>2, <1>8, <2>6, <2>7 DEF StoreInv
<1>15. CASE ProgramHeader
  <2>1. call.pc = "header" /\ CallInv
    BY <1>11, <1>15 DEF ProgramHeader
  <2>2. PICK h \in Programmed(hdr[t], NewHeader) : hdr' = [hdr EXCEPT ![t] = h]
    BY <1>3, <1>15 DEF ProgramHeader
  <2>3. call' = [call EXCEPT !.pc = "verify"] /\ body' = body
    BY <1>15 DEF ProgramHeader
  <2>4. hdr'[o] = hdr[o] /\ body'[o] = body[o] /\ hdr'[t] = h
    BY <2>2, <2>3, <1>5, <1>6
  <2>5. Valid(o)' => call.seq = SuccSeq(hdr'[o].seq)
    BY <2>1, <2>4, <1>3, <1>4, SlotsStep
  <2>6. /\ call'.pc = "verify"
        /\ call'.op = call.op /\ call'.ver = call.ver /\ call'.val = call.val /\ call'.seq = call.seq
        /\ call'.target = t
    BY <2>3, <1>1, <1>3 DEF TypeOK
  <2>7. NewHeader' = NewHeader
    BY <2>6 DEF NewHeader
  <2>8. hdr[t] = Blank
    BY <2>1, <1>3 DEF CallInv
  <2>9. h = NewHeader \/ (Faulty /\ h \in {Blank, Torn})
    BY <2>2, <2>8 DEF Programmed
  <2>10. CallInv'
    BY <2>1, <2>4, <2>5, <2>6, <2>7, <2>9, <1>4 DEF CallInv
  <2> QED BY <1>2, <1>8, <2>6, <2>10 DEF StoreInv
<1>16. CASE Verify
  <2>1. call.pc = "verify" /\ CallInv /\ UNCHANGED <<hdr, body, legacy>>
    BY <1>11, <1>16 DEF Verify
  <2>2. Valid(o)' => call.seq = SuccSeq(hdr'[o].seq)
    BY <2>1, <1>3, <1>4, SlotsStep
  <2>3. CASE call.op = "save"
    <3>1. call' = NoCall
      BY <1>16, <2>3 DEF Verify
    <3>2. Valid(t) /\ Valid(o) => hdr[t].seq = SuccSeq(hdr[o].seq)
      BY <2>1, <1>3, <1>4, <1>7 DEF CallInv, NewHeader, Valid
    <3>3. Adjacent'
      BY <3>2, <2>1, <1>3, <1>4 DEF Adjacent, Follows, Valid, Slots
    <3> QED BY <1>2, <1>8, <3>1, <3>3 DEF StoreInv, NoCall
  <2>4. CASE call.op # "save"
    <3>1. call' = [call EXCEPT !.ok = Written,
                               !.pc = IF Written THEN "erase_other" ELSE "erase_target"]
      BY <1>16, <2>4 DEF Verify
    <3>2. /\ call'.pc = IF Written THEN "erase_other" ELSE "erase_target"
          /\ (call'.ok <=> Written)
          /\ call'.op = call.op /\ call'.ver = call.ver /\ call'.val = call.val /\ call'.seq = call.seq
          /\ call'.target = t
      BY <3>1, <1>1, <1>3 DEF TypeOK
    <3>3. call.op = "clear" /\ call.val = Tombstone
      BY <2>1, <2>4 DEF CallInv
    <3>4. hdr[t] = NewHeader => Written
      <4>1. NewHeader \in Headers /\ NewHeader.val = Tombstone
        BY <1>1, <3>3 DEF NewHeader, TypeOK, Headers
      <4> QED BY <4>1, <3>3, <1>3 DEF Written, Valid
    <3>5. Written => hdr[t] = NewHeader
      BY <1>3 DEF Written
    <3>6. NewHeader' = NewHeader
      BY <3>2 DEF NewHeader
    <3>7. hdr[t] = NewHeader \/ (Faulty /\ hdr[t] \in {Blank, Torn})
      BY <2>1, <1>3 DEF CallInv
    <3>8. CallInv'
      <4>1. CASE Written
        BY <4>1, <2>1, <2>2, <3>2, <3>3, <3>5, <3>6, <1>4 DEF CallInv
      <4>2. CASE ~Written
        BY <4>2, <2>1, <2>2, <3>2, <3>3, <3>4, <3>7, <1>4 DEF CallInv
      <4> QED BY <4>1, <4>2
    <3>9. call'.pc # "idle"
      BY <3>2
    <3> QED BY <1>2, <1>8, <3>8, <3>9 DEF StoreInv
  <2> QED BY <2>3, <2>4
<1>17. CASE EraseTarget
  <2>1. call.pc = "erase_target" /\ CallInv
    BY <1>11, <1>17 DEF EraseTarget, EraseSlot
  <2>2. hdr' = [hdr EXCEPT ![t] = Blank] /\ body' = [body EXCEPT ![t] = Blank]
        /\ call' = [call EXCEPT !.pc = "erase_other"]
    BY <1>3, <1>17 DEF EraseTarget, EraseSlot
  <2>3. hdr'[t] = Blank /\ hdr'[o] = hdr[o] /\ body'[o] = body[o]
    BY <2>2, <1>5, <1>6
  <2>4. Valid(o)' => call.seq = SuccSeq(hdr'[o].seq)
    BY <2>1, <2>3, <1>3, <1>4, SlotsStep
  <2>5. /\ call'.pc = "erase_other" /\ (call'.ok <=> call.ok)
        /\ call'.op = call.op /\ call'.ver = call.ver /\ call'.val = call.val /\ call'.seq = call.seq
        /\ call'.target = t
    BY <2>2, <1>1, <1>3 DEF TypeOK
  <2>6. CallInv'
    BY <2>1, <2>3, <2>4, <2>5, <1>4 DEF CallInv
  <2> QED BY <1>2, <1>8, <2>5, <2>6 DEF StoreInv
<1>18. CASE EraseOther
  <2>1. call.pc = "erase_other" /\ CallInv
    BY <1>11, <1>18 DEF EraseOther, EraseSlot
  <2>2. hdr' = [hdr EXCEPT ![o] = Blank] /\ body' = [body EXCEPT ![o] = Blank]
        /\ call' = [call EXCEPT !.pc = "erase_legacy"]
    BY <1>3, <1>4, <1>18 DEF EraseOther, EraseSlot
  <2>3. hdr'[o] = Blank /\ hdr'[t] = hdr[t] /\ body'[t] = body[t]
    BY <2>2, <1>5, <1>6
  <2>4. ~Valid(o)'
    BY <2>3, <1>7 DEF Valid
  <2>5. /\ call'.pc = "erase_legacy" /\ (call'.ok <=> call.ok)
        /\ call'.op = call.op /\ call'.ver = call.ver /\ call'.val = call.val /\ call'.seq = call.seq
        /\ call'.target = t
    BY <2>2, <1>1, <1>3 DEF TypeOK
  <2>6. NewHeader' = NewHeader
    BY <2>5 DEF NewHeader
  <2>7. CallInv'
    BY <2>1, <2>3, <2>4, <2>5, <2>6, <1>3, <1>4 DEF CallInv
  <2> QED BY <1>2, <1>8, <2>5, <2>7 DEF StoreInv
<1>19. CASE EraseLegacy
  <2>1. call.pc = "erase_legacy" /\ CallInv /\ UNCHANGED <<hdr, body>> /\ call' = NoCall
    BY <1>11, <1>19 DEF EraseLegacy
  <2>2. ~Valid(o)'
    BY <2>1, <1>3, <1>4, <1>7 DEF CallInv, Valid
  <2>3. Adjacent'
    BY <2>2, <1>4, <1>3 DEF Adjacent, Slots
  <2> QED BY <1>2, <1>8, <2>1, <2>3 DEF StoreInv, NoCall
<1>20. CASE PowerLoss
  <2>1. call.pc # "idle" /\ CallInv /\ call' = NoCall
    BY <1>11, <1>20 DEF PowerLoss
  <2>2. ASSUME Valid(t)', Valid(o)' PROVE Follows(t)' \/ Follows(o)'
    <3>1. CASE call.pc = "erase"
      <4>1. hdr'[t] \in CutErase(hdr[t]) /\ body'[t] \in CutErase(body[t])
            /\ hdr'[o] = hdr[o] /\ body'[o] = body[o]
        BY <3>1, <1>3, <1>5, <1>6, <1>20 DEF PowerLoss
      <4>2. Valid(t) /\ hdr'[t] = hdr[t]
        BY <1>1, <2>2, <4>1, CutKeeps
      <4> QED BY <2>1, <3>1, <4>1, <4>2, <1>3, <1>4, <1>5 DEF CallInv, Follows
    <3>2. CASE call.pc = "body"
      BY <2>1, <2>2, <3>2, <1>3, <1>6, <1>7, <1>20 DEF PowerLoss, CallInv, Valid
    <3>3. CASE call.pc = "header"
      <4>1. PICK h \in CutProgram(hdr[t], NewHeader) : hdr' = [hdr EXCEPT ![t] = h]
        BY <3>3, <1>3, <1>20 DEF PowerLoss
      <4>2. hdr[t] = Blank
        BY <2>1, <3>3, <1>3 DEF CallInv
      <4>3. hdr'[t] = NewHeader /\ hdr'[o] = hdr[o]
        BY <2>2, <4>1, <4>2, <1>5, <1>6, <1>7 DEF Valid, CutProgram, Programmed
      <4>4. body'[o] = body[o]
        BY <3>3, <1>3, <1>5, <1>6, <1>20 DEF PowerLoss
      <4>5. call.seq = SuccSeq(hdr'[o].seq)
        BY <2>1, <2>2, <4>3, <4>4, <1>3, <1>4, SlotsStep
      <4> QED BY <4>3, <4>5, <1>4 DEF Follows, NewHeader
    <3>4. CASE call.pc = "verify"
      <4>1. hdr' = hdr /\ body' = body
        BY <3>4, <1>3, <1>6, <1>20 DEF PowerLoss
      <4>2. hdr'[t] = NewHeader
        BY <2>1, <2>2, <3>4, <4>1, <1>3, <1>7 DEF CallInv, Valid
      <4>3. call.seq = SuccSeq(hdr'[o].seq)
        BY <2>1, <2>2, <4>1, <1>3, <1>4, SlotsStep
      <4> QED BY <4>2, <4>3, <1>4 DEF Follows, NewHeader
    <3>5. CASE call.pc = "erase_target"
      <4>1. hdr'[t] \in CutErase(hdr[t])
        BY <3>5, <1>3, <1>6, <1>20 DEF PowerLoss
      <4>2. hdr[t] \in {Blank, Torn}
        BY <2>1, <3>5, <1>3 DEF CallInv
      <4> QED BY <2>2, <4>1, <4>2, <1>7 DEF CutErase, Valid
    <3>6. CASE call.pc = "erase_other"
      <4>1. hdr'[o] \in CutErase(hdr[o]) /\ body'[o] \in CutErase(body[o])
            /\ hdr'[t] = hdr[t] /\ body'[t] = body[t]
        BY <3>6, <1>3, <1>4, <1>5, <1>6, <1>20 DEF PowerLoss
      <4>2. Valid(o) /\ hdr'[o] = hdr[o]
        BY <1>1, <2>2, <4>1, CutKeeps
      <4>3. hdr'[t] = NewHeader
        BY <2>1, <2>2, <3>6, <4>1, <1>3, <1>7 DEF CallInv, Valid
      <4>4. call.seq = SuccSeq(hdr'[o].seq)
        BY <2>1, <4>2, <1>3, <1>4 DEF CallInv
      <4> QED BY <4>3, <4>4, <1>4 DEF Follows, NewHeader
    <3>7. CASE call.pc = "erase_legacy"
      <4>1. hdr' = hdr
        BY <3>7, <1>3, <1>6, <1>20 DEF PowerLoss
      <4>2. hdr[o] = Blank
        BY <2>1, <3>7, <1>3, <1>4 DEF CallInv
      <4> QED BY <2>2, <4>1, <4>2, <1>7 DEF Valid
    <3> QED BY <2>1, <3>1, <3>2, <3>3, <3>4, <3>5, <3>6, <3>7, <1>1 DEF TypeOK
  <2>3. Adjacent'
    BY <2>2, <1>4 DEF Adjacent, Slots
  <2> QED BY <1>2, <1>8, <2>1, <2>3 DEF StoreInv, NoCall
<1>21. CASE UNCHANGED vars
  BY <1>21, <1>2, <1>8, <1>10, <1>12 DEF vars, StoreInv
<1>22. ASSUME NEW v \in Payloads, Save(Version, v) \/ SaveUnchanged(Version, v) PROVE StoreInv'
  <2>1. CASE Save(Version, v)
    <3>1. v # Tombstone
      BY DEF ConstantsOK
    <3>2. Begin("save", Version, v)
      BY <2>1 DEF Save
    <3>3. call'.pc = "erase" /\ CallInv'
      BY <3>1, <3>2, <1>9
    <3> QED BY <3>3, <1>2, <1>8 DEF StoreInv
  <2>2. CASE SaveUnchanged(Version, v)
    BY <2>2, <1>10 DEF SaveUnchanged
  <2> QED BY <1>22, <2>1, <2>2
<1>23. CASE Clear
  <2>1. call'.pc = "erase" /\ CallInv'
    BY <1>23, <1>9 DEF Clear
  <2> QED BY <2>1, <1>2, <1>8 DEF StoreInv
<1> QED
  BY <1>13, <1>14, <1>15, <1>16, <1>17, <1>18, <1>19, <1>20, <1>21, <1>22, <1>23 DEF Next, WriteStep

\* The initial records satisfy the invariant.
LEMMA StoreInvInit ==
    ASSUME ConstantsOK
    PROVE  Init => StoreInv
<1> SUFFICES ASSUME Init PROVE StoreInv
  OBVIOUS
<1>1. body \in [Slots -> Payloads \cup {Blank, Torn}]
  BY DEF Init, Headers, Contents
<1>2. NoCall \in [op : {"none", "save", "clear"},
                  pc : {"idle", "erase", "body", "header", "verify",
                        "erase_target", "erase_other", "erase_legacy"},
                  target : Slots, seq : Seqs, ver : Versions, val : Contents, ok : BOOLEAN]
  BY DEF NoCall, Slots, Seqs, SeqMod, ConstantsOK, Contents
<1>3. TypeOK
  BY <1>1, <1>2 DEF TypeOK, Init
<1>4. Adjacent
  BY DEF Init, Adjacent, Valid, ConstantsOK
<1> QED BY <1>3, <1>4 DEF StoreInv, Init, NoCall

\* The invariant holds throughout.
LEMMA StoreInvariant ==
    ASSUME ConstantsOK
    PROVE  Spec => []StoreInv
<1>1. Init => StoreInv
  BY StoreInvInit
<1>2. StoreInv /\ [Next]_vars => StoreInv'
  BY StoreInvStep
<1> QED BY <1>1, <1>2, PTL DEF Spec

\* config_store.c: the flash and the call in progress keep their types.
THEOREM StoreTypes ==
    ASSUME ConstantsOK
    PROVE  Spec => []TypeOK
<1>1. StoreInv => TypeOK
  BY DEF StoreInv
<1> QED BY <1>1, StoreInvariant, PTL

\* What a load returned when the call began.
Before == IF Valid(1 - call.target) THEN RecordValue(1 - call.target) ELSE LegacyValue

\* What a load returns during a call: the old value until the slot it writes holds a record, the
\* new one from then on.
CallFacts ==
    call.pc # "idle" =>
      /\ pending \in Payloads \cup {None}
      /\ call.pc = "erase" => Load = Before
      /\ ~Valid(call.target) => Load = Before
      /\ call.pc # "erase" /\ Valid(call.target) => Load = pending /\ hdr[call.target] = NewHeader

\* write_record, ab_store_load: a load during a call.
LEMMA CallLoads ==
    ASSUME ConstantsOK
    PROVE  StoreInv => CallFacts
<1> SUFFICES ASSUME StoreInv, call.pc # "idle" PROVE CallFacts
  BY DEF CallFacts
<1>1. TypeOK /\ CallInv
  BY DEF StoreInv
<1>2. LoadFacts
  BY <1>1, LoadOf
<1>3. PICK t \in Slots : t = call.target
  BY <1>1 DEF TypeOK
<1>4. PICK o \in Slots : o = 1 - t
  BY <1>3 DEF Slots
<1>5. t = 1 - o /\ Before = IF Valid(o) THEN RecordValue(o) ELSE LegacyValue
  BY <1>3, <1>4 DEF Before, Slots
<1>6. pending \in Payloads \cup {None}
  BY <1>1 DEF pending, TypeOK, Contents
<1>7. ~Valid(t) => Load = Before
  BY <1>2, <1>4, <1>5 DEF LoadFacts
<1>8. call.pc = "erase" => Load = Before
  <2>1. ASSUME call.pc = "erase", Valid(t) PROVE Valid(o) /\ Follows(o)
    BY <2>1, <1>1, <1>3, <1>4 DEF CallInv
  <2> QED BY <2>1, <1>2, <1>5, <1>7 DEF LoadFacts
<1>9. ASSUME call.pc # "erase", Valid(t) PROVE hdr[t] = NewHeader
  <2>1. hdr[t] \notin {Blank, Torn}
    BY <1>9 DEF Valid, ConstantsOK
  <2> QED BY <2>1, <1>1, <1>3, <1>9 DEF CallInv, TypeOK
<1>10. ASSUME call.pc # "erase", Valid(t) PROVE Load = pending
  <2>1. hdr[t].seq = call.seq /\ hdr[t].ver = Version /\ hdr[t].val = call.val
    BY <1>1, <1>9, <1>10 DEF NewHeader, CallInv
  <2>2. Valid(o) => Follows(t)
    BY <2>1, <1>1, <1>3, <1>4 DEF CallInv, Follows
  <2>3. Load = RecordValue(t)
    BY <2>2, <1>2, <1>4, <1>10 DEF LoadFacts
  <2>4. RecordValue(t) = pending
    BY <2>1, <1>10 DEF RecordValue, pending, Valid
  <2> QED BY <2>3, <2>4
<1> QED BY <1>3, <1>6, <1>7, <1>8, <1>9, <1>10 DEF CallFacts

\* What a load returns depends on the flash alone.
LEMMA LoadKept ==
    ASSUME UNCHANGED <<hdr, body, legacy>>
    PROVE  Load' = Load
<1>1. Valid(0)' = Valid(0) /\ Valid(1)' = Valid(1)
  BY DEF Valid
<1>2. Newest' = Newest
  BY <1>1 DEF Newest
<1> QED BY <1>2 DEF Load

\* write_record: erasing the slot that is not the newest and programming its payload change nothing
\* that a load returns, power loss included.
LEMMA LoadBeforeHeader ==
    ASSUME ConstantsOK, StoreInv, StoreInv', call.pc \in {"erase", "body"},
           Erase \/ ProgramBody \/ PowerLoss
    PROVE  Load' = Load
<1>1. TypeOK /\ CallInv /\ call.pc # "idle"
  BY DEF StoreInv
<1>2. CallFacts /\ LoadFacts
  BY <1>1, CallLoads, LoadOf
<1>3. TypeOK' => LoadFacts'
  BY LoadOf, PTL
<1>4. LoadFacts'
  BY <1>3 DEF StoreInv
<1>5. PICK t \in Slots : t = call.target
  BY <1>1 DEF TypeOK
<1>6. PICK o \in Slots : o = 1 - t
  BY <1>5 DEF Slots
<1>7. t = 1 - o /\ t # o
  BY <1>6 DEF Slots
<1>8. hdr \in [Slots -> Headers \cup {Blank, Torn}] /\ body \in [Slots -> Payloads \cup {Blank, Torn}]
  BY <1>1 DEF TypeOK
<1>9. /\ hdr'[o] = hdr[o] /\ body'[o] = body[o] /\ legacy' = legacy
      /\ hdr'[t] = hdr[t] \/ hdr'[t] = Blank \/ hdr'[t] \in CutErase(hdr[t])
  BY <1>5, <1>7, <1>8 DEF Erase, ProgramBody, PowerLoss
<1>10. (Valid(o)' <=> Valid(o)) /\ RecordValue(o)' = RecordValue(o) /\ LegacyValue' = LegacyValue
  BY <1>9, <1>1, <1>5, <1>6, SlotsStep DEF LegacyValue
<1>11. Load = IF Valid(o) THEN RecordValue(o) ELSE LegacyValue
  <2>1. Load = Before
    <3>1. call.pc = "body" => ~Valid(t)
      BY <1>1, <1>5 DEF CallInv, Valid, ConstantsOK
    <3> QED BY <3>1, <1>1, <1>2, <1>5 DEF CallFacts
  <2> QED BY <2>1, <1>5, <1>6 DEF Before
<1>12. CASE ~Valid(t)'
  BY <1>12, <1>4, <1>6, <1>10, <1>11 DEF LoadFacts
<1>13. CASE Valid(t)'
  <2>1. hdr'[t] \in Headers
    BY <1>13 DEF Valid
  <2>2. hdr[t] # Blank /\ hdr'[t] = hdr[t]
    BY <2>1, <1>9 DEF ConstantsOK, CutErase
  <2>3. call.pc = "erase" /\ PowerLoss
    <3>1. call.pc = "erase"
      BY <2>2, <1>1, <1>5 DEF CallInv
    <3>2. ~Erase
      BY <2>1, <1>5, <1>8 DEF Erase, ConstantsOK
    <3> QED BY <3>1, <3>2 DEF ProgramBody
  <2>4. hdr'[t] \in CutErase(hdr[t]) /\ body'[t] \in CutErase(body[t])
    BY <2>3, <1>5, <1>8 DEF PowerLoss
  <2>5. Valid(t)
    BY <2>4, <1>1, <1>13, CutKeeps
  <2>6. Valid(o) /\ Follows(o)
    BY <2>3, <2>5, <1>1, <1>5, <1>6 DEF CallInv
  <2>7. Valid(o)' /\ Follows(o)'
    BY <2>2, <2>6, <1>7, <1>9, <1>10 DEF Follows
  <2>8. Load' = RecordValue(o)'
    BY <2>7, <1>4 DEF LoadFacts
  <2> QED BY <2>6, <2>8, <1>10, <1>11
<1> QED BY <1>12, <1>13

\* config_store.h, "a power loss at any point leaves the previous config readable": whatever happens
\* before a save programs its header, a load returns what it returned before the save.
THEOREM OldKept ==
    ASSUME ConstantsOK
    PROVE  Spec => OldKeptUntilCommit
<1>1. StoreInv /\ StoreInv' /\ [Next]_vars =>
        [call.op = "save" /\ call.pc \in {"erase", "body"} => Load' = Load]_vars
  <2> SUFFICES ASSUME StoreInv, StoreInv', Next, call.op = "save", call.pc \in {"erase", "body"}
               PROVE  Load' = Load
    OBVIOUS
  <2>1. Erase \/ ProgramBody \/ PowerLoss
    BY DEF Next, Save, SaveUnchanged, Clear, Begin, WriteStep, ProgramHeader, Verify, EraseTarget,
       EraseOther, EraseSlot, EraseLegacy
  <2> QED BY <2>1, LoadBeforeHeader
<1> QED BY <1>1, StoreInvariant, PTL DEF Spec, OldKeptUntilCommit

\* A clear that has written its tombstone, or that lost it on a pod without a legacy record, has
\* nothing left to load once the other slot holds no record.
LEMMA ClearedLoads ==
    ASSUME ConstantsOK, ~(HasLegacy /\ Faulty), StoreInv,
           call.pc \in {"erase_other", "erase_legacy"}
    PROVE  /\ pending = None
           /\ call.ok => Valid(call.target) /\ Load = None
           /\ ~call.ok => ~Valid(call.target) /\ LegacyValue = None
           /\ ~Valid(1 - call.target) => Load = None
<1>1. TypeOK /\ CallInv /\ (HasLegacy \/ legacy = Blank)
  BY DEF StoreInv
<1>2. CallFacts
  BY CallLoads
<1>3. call.val = Tombstone /\ pending = None
  BY <1>1 DEF CallInv, pending
<1>4. call.ok => Valid(call.target)
  <2>1. NewHeader \in Headers /\ NewHeader.val = Tombstone
    BY <1>1, <1>3 DEF NewHeader, TypeOK, Headers
  <2> QED BY <2>1, <1>1 DEF CallInv, Valid
<1>5. ~call.ok => ~Valid(call.target) /\ LegacyValue = None
  BY <1>1 DEF CallInv, Valid, LegacyValue, ConstantsOK
<1> QED BY <1>2, <1>3, <1>4, <1>5 DEF CallFacts, Before

\* Every step of the store is a step of the register, or leaves it as it is.
LEMMA StoreSimulates ==
    ASSUME ConstantsOK, ~(HasLegacy /\ Faulty), StoreInv, StoreInv', [Next]_vars
    PROVE  [Register!Next]_(Register!vars)
<1> USE DEF Register!Next, Register!vars
<1>1. TypeOK /\ (call.pc = "idle" => call = NoCall) /\ (call.pc # "idle" => CallInv)
  BY DEF StoreInv
<1>2. CallFacts /\ LoadFacts
  BY <1>1, CallLoads, LoadOf
<1>3. LoadFacts' /\ CallFacts'
  <2>1. TypeOK' => LoadFacts'
    BY LoadOf, PTL
  <2>2. StoreInv' => CallFacts'
    BY CallLoads, PTL
  <2> QED BY <2>1, <2>2 DEF StoreInv
<1>4. Idle # None /\ Idle \notin Payloads /\ Load \in Payloads \cup {None}
  BY <1>2 DEF ConstantsOK, LoadFacts
<1>5. PICK t \in Slots : t = call.target
  BY <1>1 DEF TypeOK
<1>6. PICK o \in Slots : o = 1 - t
  BY <1>5 DEF Slots
<1>7. t = 1 - o /\ t # o
  BY <1>6 DEF Slots
<1>8. hdr \in [Slots -> Headers \cup {Blank, Torn}] /\ body \in [Slots -> Payloads \cup {Blank, Torn}]
  BY <1>1 DEF TypeOK
<1>9. call.pc # "idle" => pending # Idle /\ pending \in Payloads \cup {None}
  BY <1>2, <1>4 DEF CallFacts
<1>10. ASSUME NEW op, NEW val \in Contents, Begin(op, Version, val) PROVE Register!Next
  <2>1. pending = Idle
    BY <1>10 DEF Begin, pending
  <2>2. pending' = IF val = Tombstone THEN None ELSE val
    BY <1>10 DEF Begin, pending
  <2>3. pending' \in Payloads \cup {None}
    BY <2>2 DEF Contents
  <2>4. Load' = Load /\ result' = result
    BY <1>10, LoadKept DEF Begin
  <2>5. Register!Start(pending')
    BY <2>1, <2>4 DEF Register!Start
  <2> QED BY <2>3, <2>5
<1>11. ASSUME NEW v \in Payloads, SaveUnchanged(Version, v) PROVE Register!SaveStored
  <2>1. Load = v
    BY <1>11 DEF SaveUnchanged, Unchanged, Load
  <2>2. pending = Idle /\ pending' = pending
    BY <1>11 DEF SaveUnchanged, pending
  <2>3. Load' = Load /\ result' = TRUE
    BY <1>11, LoadKept DEF SaveUnchanged
  <2> QED BY <2>1, <2>2, <2>3 DEF Register!SaveStored
<1>12. CASE Erase \/ ProgramBody
  <2>1. Load' = Load
    BY <1>12, LoadBeforeHeader DEF Erase, ProgramBody
  <2>2. pending' = pending
    BY <1>1, <1>12 DEF Erase, ProgramBody, pending, TypeOK
  <2>3. result' = result
    BY <1>12 DEF Erase, ProgramBody
  <2> QED BY <2>1, <2>2, <2>3
<1>13. CASE ProgramHeader
  <2>1. call.pc = "header" /\ CallInv /\ body' = body /\ legacy' = legacy /\ result' = result
    BY <1>1, <1>13 DEF ProgramHeader
  <2>2. /\ call'.pc = "verify" /\ call'.target = t /\ call'.val = call.val
    BY <1>1, <1>5, <1>13 DEF ProgramHeader, TypeOK
  <2>3. pending' = pending
    BY <2>1, <2>2 DEF pending
  <2>4. hdr'[o] = hdr[o]
    BY <1>13, <1>5, <1>7, <1>8 DEF ProgramHeader
  <2>5. Before' = Before
    <3>1. (Valid(o)' <=> Valid(o)) /\ RecordValue(o)' = RecordValue(o)
      BY <2>1, <2>4, <1>5, <1>6, SlotsStep
    <3>2. LegacyValue' = LegacyValue
      BY <2>1 DEF LegacyValue
    <3>3. Before = IF Valid(o) THEN RecordValue(o) ELSE LegacyValue
      BY <1>5, <1>6 DEF Before
    <3>4. Before' = IF Valid(o)' THEN RecordValue(o)' ELSE LegacyValue'
      BY <2>2, <1>6 DEF Before
    <3> QED BY <3>1, <3>2, <3>3, <3>4
  <2>6. Load = Before
    BY <2>1, <1>2, <1>5 DEF CallFacts, CallInv, Valid, ConstantsOK
  <2>7. Load' \in {Before', pending'}
    BY <1>3, <2>2 DEF CallFacts
  <2>8. CASE Load' = Load
    BY <2>1, <2>3, <2>8
  <2>9. CASE Load' = pending
    <3>1. pending # Idle
      BY <1>9, <2>1
    <3>2. Register!Commit
      BY <3>1, <2>1, <2>3, <2>9 DEF Register!Commit
    <3> QED BY <3>2
  <2> QED BY <2>3, <2>5, <2>6, <2>7, <2>8, <2>9
<1>14. CASE Verify
  <2>1. call.pc = "verify" /\ CallInv /\ Load' = Load
    BY <1>1, <1>14, LoadKept DEF Verify
  <2>2. CASE call.op = "save"
    <3>1. pending' = Idle /\ result' = Written
      BY <1>14, <2>2 DEF Verify, pending, NoCall
    <3>2. Written => Load = pending
      BY <1>2, <2>1 DEF Written, CallFacts
    <3>3. Written \in BOOLEAN
      BY DEF Written
    <3>4. Register!Return(Written)
      BY <3>1, <3>2, <2>1, <1>9 DEF Register!Return
    <3> QED BY <3>3, <3>4
  <2>3. CASE call.op # "save"
    <3>1. result' = result
      BY <1>14, <2>3 DEF Verify
    <3>2. call'.pc # "idle" /\ call'.val = call.val
      BY <1>1, <1>14, <2>3 DEF Verify, TypeOK
    <3>3. pending' = pending
      BY <2>1, <3>2 DEF pending
    <3> QED BY <2>1, <3>1, <3>3
  <2> QED BY <2>2, <2>3
<1>15. CASE EraseTarget
  <2>1. call.pc = "erase_target" /\ CallInv /\ legacy' = legacy /\ result' = result
    BY <1>1, <1>15 DEF EraseTarget, EraseSlot
  <2>2. call'.pc = "erase_other" /\ call'.val = call.val
    BY <1>1, <1>15 DEF EraseTarget, EraseSlot, TypeOK
  <2>3. pending' = pending
    BY <2>1, <2>2 DEF pending
  <2>4. hdr'[o] = hdr[o] /\ body'[o] = body[o] /\ hdr'[t] = Blank
    BY <1>15, <1>5, <1>7, <1>8 DEF EraseTarget, EraseSlot
  <2>5. ~Valid(t) /\ ~Valid(t)'
    BY <2>1, <2>4, <1>5 DEF CallInv, Valid, ConstantsOK
  <2>6. (Valid(o)' <=> Valid(o)) /\ RecordValue(o)' = RecordValue(o) /\ LegacyValue' = LegacyValue
    BY <2>1, <2>4, <1>5, <1>6, SlotsStep DEF LegacyValue
  <2>7. Load' = Load
    BY <2>5, <2>6, <1>2, <1>3, <1>6 DEF LoadFacts
  <2> QED BY <2>1, <2>3, <2>7
<1>16. CASE EraseOther
  <2>1. call.pc = "erase_other" /\ legacy' = legacy /\ result' = result
    BY <1>16 DEF EraseOther, EraseSlot
  <2>2. pending = None /\ pending # Idle
    BY <2>1, <1>9, ClearedLoads
  <2>3. call'.pc = "erase_legacy" /\ call'.target = t /\ call'.val = call.val
        /\ (call'.ok <=> call.ok)
    BY <1>1, <1>5, <1>16 DEF EraseOther, EraseSlot, TypeOK
  <2>4. pending' = pending
    BY <2>1, <2>3 DEF pending
  <2>5. hdr'[o] = Blank
    BY <1>16, <1>5, <1>6, <1>8 DEF EraseOther, EraseSlot
  <2>6. ~Valid(o)'
    BY <2>5 DEF Valid, ConstantsOK
  <2>7. Load' = None
    <3>1. hdr'[t] = hdr[t] /\ body'[t] = body[t]
      BY <1>16, <1>5, <1>6, <1>7, <1>8 DEF EraseOther, EraseSlot
    <3>2. CASE call.ok
      <4>1. Valid(t)
        BY <3>2, <2>1, <1>5, ClearedLoads
      <4>2. Valid(t)'
        BY <4>1, <3>1 DEF Valid
      <4> QED BY <4>2, <2>2, <2>3, <2>4, <1>3 DEF CallFacts
    <3>3. CASE ~call.ok
      <4>1. ~Valid(t) /\ LegacyValue = None
        BY <3>3, <2>1, <1>5, ClearedLoads
      <4>2. ~Valid(t)' /\ LegacyValue' = None
        BY <4>1, <3>1, <2>1 DEF Valid, LegacyValue
      <4> QED BY <4>2, <2>6, <1>3, <1>6 DEF LoadFacts
    <3> QED BY <3>2, <3>3
  <2>8. Register!Commit
    BY <2>1, <2>2, <2>4, <2>7 DEF Register!Commit
  <2> QED BY <2>8
<1>17. CASE EraseLegacy
  <2>1. call.pc = "erase_legacy" /\ CallInv /\ UNCHANGED <<hdr, body>> /\ call' = NoCall
        /\ legacy' = Blank /\ result' = call.ok
    BY <1>1, <1>17 DEF EraseLegacy
  <2>2. pending = None /\ pending # Idle /\ pending' = Idle
    BY <2>1, <1>9, ClearedLoads DEF pending, NoCall
  <2>3. ~Valid(o) /\ ~Valid(o)'
    BY <2>1, <1>5, <1>6 DEF CallInv, Valid, ConstantsOK
  <2>4. Load' = IF Valid(t)' THEN RecordValue(t)' ELSE LegacyValue'
    BY <2>3, <1>3, <1>7 DEF LoadFacts
  <2>5. Load = IF Valid(t) THEN RecordValue(t) ELSE LegacyValue
    BY <2>3, <1>2, <1>7 DEF LoadFacts
  <2>6. Load = None
    BY <2>1, <2>3, <1>5, <1>6, ClearedLoads
  <2>7. (Valid(t)' <=> Valid(t)) /\ RecordValue(t)' = RecordValue(t) /\ LegacyValue' = None
    BY <2>1 DEF Valid, RecordValue, LegacyValue, ConstantsOK
  <2>8. Load' = None
    BY <2>4, <2>5, <2>6, <2>7
  <2>9. call.ok \in BOOLEAN
    BY <1>1 DEF TypeOK
  <2>10. Register!Return(call.ok)
    BY <2>1, <2>2, <2>8 DEF Register!Return
  <2> QED BY <2>9, <2>10
<1>18. CASE PowerLoss
  <2>1. call.pc # "idle" /\ CallInv /\ call' = NoCall /\ result' = result
    BY <1>1, <1>18 DEF PowerLoss
  <2>2. pending # Idle /\ pending' = Idle
    BY <2>1, <1>9 DEF pending, NoCall
  <2>3. legacy' = legacy \/ call.pc = "erase_legacy"
    BY <1>18 DEF PowerLoss
  <2>4. Load' \in {Load, pending}
    <3>1. CASE call.pc \in {"erase", "body"}
      BY <3>1, <1>18, LoadBeforeHeader
    <3>2. CASE call.pc = "header"
      <4>1. PICK h \in CutProgram(hdr[t], NewHeader) : hdr' = [hdr EXCEPT ![t] = h]
        BY <3>2, <1>5, <1>18 DEF PowerLoss
      <4>2. hdr[t] = Blank /\ ~Valid(t)
        BY <2>1, <3>2, <1>5 DEF CallInv, Valid, ConstantsOK
      <4>3. body' = body /\ legacy' = legacy /\ hdr'[o] = hdr[o] /\ hdr'[t] = h
        <5>1. hdr'[o] = hdr[o] /\ hdr'[t] = h
          BY <4>1, <1>7, <1>8
        <5>2. body' = body /\ legacy' = legacy
          BY <3>2, <1>5, <1>8, <1>18 DEF PowerLoss
        <5> QED BY <5>1, <5>2
      <4>4. (Valid(o)' <=> Valid(o)) /\ RecordValue(o)' = RecordValue(o) /\ LegacyValue' = LegacyValue
            /\ (Valid(o)' => call.seq = SuccSeq(hdr'[o].seq))
        BY <2>1, <4>3, <1>5, <1>6, SlotsStep DEF LegacyValue
      <4>5. CASE ~Valid(t)'
        BY <4>2, <4>4, <4>5, <1>2, <1>3, <1>6 DEF LoadFacts
      <4>6. CASE Valid(t)'
        <5>1. h = NewHeader
          BY <4>1, <4>2, <4>3, <4>6 DEF CutProgram, Programmed, Valid, ConstantsOK
        <5>2. hdr'[t].seq = call.seq /\ hdr'[t].ver = Version /\ hdr'[t].val = call.val
          BY <5>1, <4>3, <2>1 DEF NewHeader, CallInv
        <5>3. Valid(o)' => Follows(t)'
          BY <5>2, <4>4, <1>6 DEF Follows
        <5>4. Load' = RecordValue(t)'
          BY <5>3, <4>6, <1>3, <1>6 DEF LoadFacts
        <5>5. RecordValue(t)' = pending
          BY <5>2, <4>6, <2>1 DEF RecordValue, pending, Valid
        <5> QED BY <5>4, <5>5
      <4> QED BY <4>5, <4>6
    <3>3. CASE call.pc = "verify"
      <4>1. hdr' = hdr /\ body' = body /\ legacy' = legacy
        BY <3>3, <1>5, <1>8, <1>18 DEF PowerLoss
      <4> QED BY <4>1, LoadKept
    <3>4. CASE call.pc = "erase_target"
      <4>1. hdr'[t] \in CutErase(hdr[t]) /\ hdr'[o] = hdr[o] /\ body'[o] = body[o]
        BY <3>4, <1>5, <1>7, <1>8, <1>18 DEF PowerLoss
      <4>2. hdr[t] \in {Blank, Torn}
        BY <2>1, <3>4, <1>5 DEF CallInv
      <4>3. ~Valid(t) /\ ~Valid(t)'
        BY <4>1, <4>2 DEF CutErase, Valid, ConstantsOK
      <4>4. (Valid(o)' <=> Valid(o)) /\ RecordValue(o)' = RecordValue(o) /\ LegacyValue' = LegacyValue
        BY <2>1, <2>3, <3>4, <4>1, <1>5, <1>6, SlotsStep DEF LegacyValue
      <4> QED BY <4>3, <4>4, <1>2, <1>3, <1>6 DEF LoadFacts
    <3>5. CASE call.pc = "erase_other"
      <4>1. hdr'[o] \in CutErase(hdr[o]) /\ body'[o] \in CutErase(body[o])
            /\ hdr'[t] = hdr[t] /\ body'[t] = body[t]
        BY <3>5, <1>5, <1>6, <1>7, <1>8, <1>18 DEF PowerLoss
      <4>2. (Valid(t)' <=> Valid(t)) /\ RecordValue(t)' = RecordValue(t) /\ LegacyValue' = LegacyValue
        BY <2>3, <3>5, <4>1 DEF Valid, RecordValue, LegacyValue
      <4>3. ASSUME Valid(o)' PROVE Valid(o) /\ hdr'[o] = hdr[o] /\ RecordValue(o)' = RecordValue(o)
        BY <4>1, <4>3, <1>1, CutKeeps
      <4>4. CASE call.ok
        <5>1. Valid(t) /\ Load = None
          BY <3>5, <4>4, <1>5, ClearedLoads
        <5>2. hdr[t] = NewHeader
          BY <2>1, <3>5, <4>4, <1>5 DEF CallInv
        <5>3. Valid(o) => Follows(t)
          BY <5>2, <2>1, <1>5, <1>6 DEF CallInv, Follows, NewHeader
        <5>4. Valid(o)' => Follows(t)'
          BY <5>3, <4>1, <4>3, <1>6 DEF Follows
        <5>5. Load = RecordValue(t)
          BY <5>1, <5>3, <1>2, <1>6 DEF LoadFacts
        <5>6. Load' = RecordValue(t)'
          BY <5>1, <5>4, <4>2, <1>3, <1>6 DEF LoadFacts
        <5> QED BY <5>5, <5>6, <4>2
      <4>5. CASE ~call.ok
        <5>1. ~Valid(t) /\ LegacyValue = None /\ pending = None
          BY <3>5, <4>5, <1>5, ClearedLoads
        <5> QED BY <5>1, <4>2, <4>3, <1>2, <1>3, <1>6 DEF LoadFacts
      <4> QED BY <4>4, <4>5
    <3>6. CASE call.pc = "erase_legacy"
      <4>1. hdr' = hdr /\ body' = body
        BY <3>6, <1>5, <1>8, <1>18 DEF PowerLoss
      <4>2. ~Valid(o) /\ ~Valid(o)'
        BY <4>1, <2>1, <3>6, <1>5, <1>6 DEF CallInv, Valid, ConstantsOK
      <4>3. (Valid(t)' <=> Valid(t)) /\ RecordValue(t)' = RecordValue(t)
        BY <4>1 DEF Valid, RecordValue
      <4>4. CASE call.ok
        <5>1. Valid(t)
          BY <3>6, <4>4, <1>5, ClearedLoads
        <5> QED BY <5>1, <4>2, <4>3, <1>2, <1>3, <1>7 DEF LoadFacts
      <4>5. CASE ~call.ok
        <5>1. legacy = Blank
          BY <4>5, <3>6, <2>1 DEF StoreInv, CallInv
        <5>2. LegacyValue' = LegacyValue
          BY <5>1, <1>18 DEF LegacyValue, PowerLoss, CutErase, ConstantsOK
        <5> QED BY <5>2, <4>2, <4>3, <1>2, <1>3, <1>7 DEF LoadFacts
      <4> QED BY <4>4, <4>5
    <3> QED BY <2>1, <3>1, <3>2, <3>3, <3>4, <3>5, <3>6, <1>1 DEF TypeOK
  <2>5. Register!PowerLoss
    BY <2>1, <2>2, <2>4, <1>4 DEF Register!PowerLoss
  <2> QED BY <2>5
<1>19. CASE UNCHANGED vars
  <2>1. Load' = Load
    BY <1>19, LoadKept DEF vars
  <2>2. pending' = pending /\ result' = result
    BY <1>19 DEF vars, pending
  <2> QED BY <2>1, <2>2
<1>20. ASSUME NEW v \in Payloads, Save(Version, v) PROVE Register!Next
  BY <1>10, <1>20 DEF Save, Contents
<1>21. CASE Clear
  BY <1>10, <1>21 DEF Clear, Contents
<1> QED
  BY <1>11, <1>12, <1>13, <1>14, <1>15, <1>16, <1>17, <1>18, <1>19, <1>20, <1>21 DEF Next, WriteStep

\* config_store.h: "power loss mid-clear can never resurrect an old config": on every pod without a
\* legacy record, and on every pod whose flash programs what it is told, the store is the register
\* of PowerSafeRegister, whatever the payloads, the sequence numbers and the moments of power loss.
THEOREM StoreIsAtomic ==
    ASSUME ConstantsOK, ~(HasLegacy /\ Faulty)
    PROVE  Spec => Atomic
<1>1. Init => Register!Init
  <2> SUFFICES ASSUME Init PROVE Register!Init
    OBVIOUS
  <2>1. LoadFacts
    BY StoreInvInit, LoadOf DEF StoreInv
  <2> QED BY <2>1 DEF Init, Register!Init, pending, NoCall, LoadFacts
<1>2. StoreInv /\ StoreInv' /\ [Next]_vars => [Register!Next]_(Register!vars)
  BY StoreSimulates
<1> QED BY <1>1, <1>2, StoreInvariant, PTL DEF Spec, Atomic, Register!Spec
================================================================================
