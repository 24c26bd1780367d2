------------------------------- MODULE MCStorage -------------------------------
(***************************************************************************)
(* What the pod keeps and how it is renewed, under TLC: the A/B stores, the *)
(* blob slots, the LAN certificate, the writers of updates (their staging   *)
(* is Ota) and the boots that follow.  A component names the state of       *)
(* another that it needs and lets it change as the other does, so a         *)
(* behaviour works with one of them and the others keep an initial state:   *)
(* "config" an A/B store with a legacy record, "flaky" one whose flash      *)
(* fails to program, "cal" the calibration, "blob" a slot of the W25Q.      *)
(***************************************************************************)
EXTENDS Integers, Sequences, TLAPS

CONSTANTS
    Configs, Versions, HalfSeq, Zeros, Fits, MaxReboots, None, Idle, Blank, Torn, Tombstone,  \* A/B
    Blobs, Pages, Long,                                                     \* blob slots
    MaxCertFaults, MaxCertCmds,                                             \* certificate
    Sectors, ReadTries, SectorTries,                                        \* firmware writer
    Blocks, SyncAttempts, DataAttempts, Md5Attempts,                        \* ESP32 loader
    Chunks, OtaTries, MaxForced, MaxTrouble,                          \* bridge
    SafeAfter, MaxEvents                                                    \* boots

VARIABLES
    which,
    hdr, body, legacy, call, result, rec, job, new, old, reboots, wrote, mixed,
    chdr, cbody, clegacy, ccall, cresult,
    header, commit, data, s_info, up, pc, blob, page,
    lcUp, lcStore, lcCur, lcInfo, lcStaged, lcOta, lcSaid, lcBoot, lcFaults, lcCmds,
    cpc, at, staging, app, copy, crcs, bufc, tries, busHeld, irqOff, planned, trouble, powerCut,
    ejob, toRom, fromRom, rom, romUp, romTrouble,
    o_state, o_off, o_resend, o_tries, o_failed, seen_new, o_forced, o_status, s_quiesced, o_req, o_ans,
    slot, running, boot, img, s_pending, otaseq, hears, hello, good, bridgeTrouble, forcings,
    failed, started, done, off, crash, fresh, guardUp, s_safe, s_off, s_prior_failed, s_hw_ready, broken,
    healthy, row, events

calVars == <<hdr, body, legacy, call, result, rec, job, new, old, reboots, wrote, mixed>>
configVars == <<chdr, cbody, clegacy, ccall, cresult>>
blobVars == <<header, commit, data, s_info, up, pc, blob, page>>
certVars == <<lcUp, lcStore, lcCur, lcInfo, lcStaged, lcOta, lcSaid, lcBoot, lcFaults, lcCmds>>
commitVars == <<cpc, at, staging, app, copy, crcs, bufc, tries, busHeld, irqOff, planned, trouble,
                powerCut>>
romVars == <<ejob, toRom, fromRom, rom, romUp, romTrouble>>
bridgeVars == <<o_state, o_off, o_resend, o_tries, o_failed, seen_new, o_forced, o_status, s_quiesced,
                o_req, o_ans, slot, running, boot, img, s_pending, otaseq, hears, hello, good,
                bridgeTrouble, forcings>>
bootVars == <<failed, started, done, off, crash, fresh, guardUp, s_safe, s_off, s_prior_failed,
              s_hw_ready, broken, healthy, row, events>>

CalRecords == [zero : Zeros \cup {0}, fit : Fits \cup {0}]

Cal == INSTANCE AdcCal WITH Payloads <- CalRecords, Version <- 2, HasLegacy <- FALSE, Faulty <- FALSE
Plain == INSTANCE AbStore WITH Payloads <- Configs, Version <- 1, HasLegacy <- TRUE, Faulty <- FALSE,
             hdr <- chdr, body <- cbody, legacy <- clegacy, call <- ccall, result <- cresult
Flaky == INSTANCE AbStore WITH Payloads <- Configs, Version <- 1, HasLegacy <- FALSE, Faulty <- TRUE,
             hdr <- chdr, body <- cbody, legacy <- clegacy, call <- ccall, result <- cresult
Blob == INSTANCE BlobStore
Cert == INSTANCE LanCert WITH s_cur <- lcCur, s_info <- lcInfo
Writer == INSTANCE OtaCommit
Rom == INSTANCE EspRom
Bridge == INSTANCE BridgeOta WITH trouble <- bridgeTrouble
Guard == INSTANCE BootGuard WITH up <- guardUp, good <- healthy

ASSUME Assumptions ==
    /\ Cal!ConstantsOK /\ Plain!ConstantsOK /\ Flaky!ConstantsOK /\ Blob!ConstantsOK /\ Cert!ConstantsOK
    /\ Writer!ConstantsOK /\ Rom!ConstantsOK /\ Bridge!ConstantsOK /\ Guard!ConstantsOK

MCInit ==
    /\ which \in {"config", "flaky", "cal", "blob", "cert", "commit", "rom", "bridge", "boot"}
    /\ Cal!CalInit /\ Writer!Init
    /\ Blob!Init /\ (which = "blob" \/ blob = CHOOSE b \in Blobs : TRUE)
    /\ IF which = "config" THEN Plain!Init
       ELSE Flaky!Init /\ (which = "flaky" \/ chdr[0] = Blank)
    /\ Cert!Init /\ (which = "cert" \/ lcStore = Cert!NoCert)
    /\ Rom!Init /\ (which = "rom" \/ romUp)
    /\ Bridge!Init /\ (which = "bridge" \/ good)
    /\ Guard!Init /\ (which = "boot" \/ broken = {})

Rest ==
    /\ UNCHANGED which
    /\ which # "cal" => UNCHANGED calVars
    /\ which \notin {"config", "flaky"} => UNCHANGED configVars
    /\ which # "blob" => UNCHANGED blobVars
    /\ which # "cert" => UNCHANGED certVars
    /\ which # "commit" => UNCHANGED commitVars
    /\ which # "rom" => UNCHANGED romVars
    /\ which # "bridge" => UNCHANGED bridgeVars
    /\ which # "boot" => UNCHANGED bootVars

MCNext ==
    /\ Rest
    /\ \/ which = "config" /\ Plain!Next
       \/ which = "flaky" /\ Flaky!Next
       \/ which = "cal" /\ Cal!CalNext
       \/ which = "blob" /\ Blob!Next
       \/ which = "cert" /\ Cert!Next
       \/ which = "commit" /\ Writer!Next
       \/ which = "rom" /\ Rom!Next
       \/ which = "bridge" /\ Bridge!Next
       \/ which = "boot" /\ Guard!Next

mcVars == <<which, calVars, configVars, blobVars, certVars, commitVars, romVars, bridgeVars, bootVars>>

\* The fairness of the part in use.
Fairness ==
    /\ WF_romVars(which = "rom" /\ Rom!Reply)
    /\ WF_romVars(which = "rom" /\ Rom!Timeout)
    /\ WF_romVars(which = "rom" /\ Rom!RomServes)
    /\ WF_romVars(which = "rom" /\ ~romUp /\ Rom!LoseCommand)
    /\ WF_bridgeVars(which = "bridge" /\ Bridge!Relay)
    /\ WF_bridgeVars(which = "bridge" /\ Bridge!BridgeHandles)
    /\ WF_bridgeVars(which = "bridge" /\ Bridge!SayHello)
    /\ WF_bridgeVars(which = "bridge" /\ Bridge!PodStatus)
    /\ WF_bridgeVars(which = "bridge" /\ Bridge!AbortIdle)
    /\ WF_bridgeVars(which = "bridge" /\ Bridge!Restart /\ UNCHANGED bridgeTrouble)
    /\ WF_bridgeVars(which = "bridge" /\ Bridge!Lost /\ UNCHANGED bridgeTrouble)
    /\ WF_bootVars(which = "boot" /\ Guard!Begin)
    /\ \A sub \in Guard!Subs :
         /\ WF_bootVars(which = "boot" /\ Guard!SubStart(sub))
         /\ WF_bootVars(which = "boot" /\ Guard!SubDone(sub))
         /\ WF_bootVars(which = "boot" /\ Guard!BringUpFails(sub))

MCSpec == MCInit /\ [][MCNext]_mcVars /\ Fairness

\* The types of the parts' state.
TypesOK ==
    /\ which \in {"config", "flaky"} => Plain!TypeOK
    /\ which = "cal" => Cal!TypeOK /\ {rec, new} \subseteq CalRecords
    /\ which = "blob" => Blob!TypeOK
    /\ which = "cert" => Cert!TypeOK
    /\ which = "commit" => Writer!TypeOK
    /\ which = "rom" => Rom!TypeOK
    /\ which = "bridge" => Bridge!TypeOK
    /\ which = "boot" => Guard!TypeOK

\* adc_cal.c, blob_store.c, lan_tls.c: whenever the power fails, the offset loaded next is the one
\* in use or being saved, the calibration between commits is whole, and older firmware's record
\* wins; a blob that counts as present is whole and is what a reboot finds; a certificate has its
\* own key, and there is one.
StoresWhole ==
    /\ which = "cal" => Cal!ZeroSurvives /\ Cal!LoadsWhole /\ Cal!OldFirmwareWins
    /\ which = "blob" => Blob!PresentIsWhole /\ Blob!CacheAgrees
    /\ which = "cert" => Cert!ServesPairs /\ Cert!AlwaysTls

\* ota_commit.c, esp_rom_job.c, wifi_bridge_ota.c, boot_guard.c: a refused commit has erased nothing,
\* retries cover the trouble they are for, what was hashed is what is read; an ESP32 reported
\* verified holds the image; the bridge boots whole images and one reported updated keeps the new
\* version; failed boots in a row end in safe mode.
UpdatesTrue ==
    /\ which = "commit" => Writer!RefusedUntouched /\ Writer!RetriesCover /\ Writer!HashedIsRead
    /\ which = "rom" => Rom!VerifiedIsWhole
    /\ which = "bridge" => Bridge!BootsWhole /\ Bridge!UpdatedIsTrue
    /\ which = "boot" => Guard!LoopEndsSafe

\* config_store.c: the store is an atomic register, with and without a legacy record, when
\* programming fails and when power is lost; the record before a save stays readable until the
\* header is written.
ConfigAtomic == Plain!Atomic /\ Plain!OldKeptUntilCommit

\* A flash of the ESP32 and an update of the bridge come to an end, with a bridge that works; a part
\* of the pod that never comes up is in the end left out, and the pod stays up.
UpdatesEnd ==
    /\ []<>Rom!Ended
    /\ <>[](Bridge!Settled /\ (which = "boot" => Guard!Back))

(***************************************************************************)
(* Proofs.                                                                  *)
(***************************************************************************)
\* config_store.c: in every behaviour of the pod the config store is an atomic register and keeps the
\* previous record readable, by the theorems of AbStore: a behaviour of the whole is one of the plain
\* store, or one of the store that fails to program.
THEOREM ConfigIsAtomic == MCSpec => ConfigAtomic
<1>1. Plain!Spec => ConfigAtomic
  BY Plain!StoreIsAtomic, Plain!OldKept, Assumptions DEF ConfigAtomic
<1>2. Flaky!Spec => ConfigAtomic
  <2>1. Flaky!Spec => Flaky!Atomic /\ Flaky!OldKeptUntilCommit
    BY Flaky!StoreIsAtomic, Flaky!OldKept, Assumptions
  <2>2. Flaky!Load = Plain!Load /\ Flaky!pending = Plain!pending
    BY DEF Flaky!Load, Plain!Load, Flaky!pending, Plain!pending, Flaky!Newest, Plain!Newest,
       Flaky!Valid, Plain!Valid, Flaky!SeqDiff, Plain!SeqDiff, Flaky!Headers, Plain!Headers,
       Flaky!Seqs, Plain!Seqs, Flaky!SeqMod, Plain!SeqMod, Flaky!Contents, Plain!Contents
  <2>3. (Flaky!Load = Plain!Load /\ Flaky!pending = Plain!pending)'  BY <2>2, PTL
  <2>4. Flaky!Register!Init => Plain!Register!Init
    BY <2>2 DEF Flaky!Register!Init, Plain!Register!Init
  <2>5. [Flaky!Register!Next]_(Flaky!Register!vars) => [Plain!Register!Next]_(Plain!Register!vars)
    BY <2>2, <2>3
    DEF Flaky!Register!Next, Plain!Register!Next, Flaky!Register!vars, Plain!Register!vars,
        Flaky!Register!Start, Plain!Register!Start, Flaky!Register!SaveStored, Plain!Register!SaveStored,
        Flaky!Register!Commit, Plain!Register!Commit, Flaky!Register!Return, Plain!Register!Return,
        Flaky!Register!PowerLoss, Plain!Register!PowerLoss
  <2>6. [ccall.op = "save" /\ ccall.pc \in {"erase", "body"} => Flaky!Load' = Flaky!Load]_(Flaky!vars)
          => [ccall.op = "save" /\ ccall.pc \in {"erase", "body"} => Plain!Load' = Plain!Load]_(Plain!vars)
    BY <2>2, <2>3 DEF Flaky!vars, Plain!vars
  <2> QED
    BY <2>1, <2>4, <2>5, <2>6, PTL
    DEF ConfigAtomic, Flaky!Atomic, Plain!Atomic, Flaky!OldKeptUntilCommit, Plain!OldKeptUntilCommit,
        Flaky!Register!Spec, Plain!Register!Spec
<1>3. ASSUME [MCNext]_mcVars
      PROVE  /\ which' = which
             /\ which = "config" => [Plain!Next]_(Plain!vars)
             /\ which # "config" => [Flaky!Next]_(Flaky!vars)
  <2>1. CASE MCNext
    <3>1. UNCHANGED which /\ (which \notin {"config", "flaky"} => UNCHANGED configVars)
      BY <2>1 DEF MCNext, Rest
    <3>2. (which = "config" => Plain!Next) /\ (which = "flaky" => Flaky!Next)
      BY <2>1 DEF MCNext
    <3> QED BY <3>1, <3>2 DEF configVars, Plain!vars, Flaky!vars
  <2>2. CASE UNCHANGED mcVars
    BY <2>2 DEF mcVars, configVars, Plain!vars, Flaky!vars
  <2> QED BY <1>3, <2>1, <2>2
<1>4. MCSpec => Plain!Spec \/ Flaky!Spec
  <2>1. MCInit => (which = "config" => Plain!Init) /\ (~(which = "config") => Flaky!Init)
    BY DEF MCInit
  <2>2. which = "config" /\ [MCNext]_mcVars => (which = "config")' /\ [Plain!Next]_(Plain!vars)
    BY <1>3
  <2>3. ~(which = "config") /\ [MCNext]_mcVars => (~(which = "config"))' /\ [Flaky!Next]_(Flaky!vars)
    BY <1>3
  <2> QED BY <2>1, <2>2, <2>3, PTL DEF MCSpec, Plain!Spec, Flaky!Spec
<1> QED BY <1>1, <1>2, <1>4

(***************************************************************************)
(* The boots.  A boot's count of failed ones before it is at least the row   *)
(* of them, and what the record holds for the next one is that count plus    *)
(* this boot, until it is healthy.                                           *)
(***************************************************************************)
GuardTypes ==
    /\ failed \in 0 .. Guard!Cap /\ s_prior_failed \in 0 .. Guard!Cap /\ row \in 0 .. Guard!Cap
    /\ started \in SUBSET Guard!Subs /\ done \in SUBSET Guard!Subs /\ off \in SUBSET Guard!Subs
    /\ s_off \in SUBSET Guard!Subs /\ broken \in SUBSET Guard!Subs
    /\ crash \in Guard!Subs \cup {Guard!NoTask}
    /\ fresh \in BOOLEAN /\ guardUp \in BOOLEAN /\ s_safe \in BOOLEAN /\ s_hw_ready \in BOOLEAN
    /\ healthy \in BOOLEAN
    /\ events \in 0 .. MaxEvents

GuardInv ==
    /\ GuardTypes
    /\ s_safe = (s_prior_failed >= SafeAfter)
    /\ guardUp /\ ~healthy => row <= s_prior_failed /\ failed = Guard!Plus1(s_prior_failed)
    /\ guardUp /\ healthy => ~s_safe /\ row = 0
    /\ ~guardUp /\ ~fresh => row <= failed

\* boot_guard.c: from any state in which the counts are right, every event of a boot keeps them so.
LEMMA GuardStep == ASSUME GuardInv, [Guard!Next]_(Guard!vars) PROVE GuardInv'
<1> USE DEF GuardInv, GuardTypes
<1>0. SafeAfter \in Nat \ {0} /\ MaxEvents \in Nat  BY Assumptions DEF Guard!ConstantsOK
<1>c. Guard!Cap = SafeAfter + 1  BY DEF Guard!Cap
<1>p. ASSUME NEW n \in 0 .. Guard!Cap
      PROVE  /\ Guard!Plus1(n) \in 0 .. Guard!Cap /\ n <= Guard!Plus1(n)
             /\ \A m \in 0 .. Guard!Cap : m <= n => Guard!Plus1(m) <= Guard!Plus1(n)
  BY <1>0, <1>c DEF Guard!Plus1
<1>d. ASSUME NEW task \in Guard!Subs \cup {Guard!NoTask}, Guard!Die(task), events' \in 0 .. MaxEvents
      PROVE  GuardInv'
  <2>1. row' \in 0 .. Guard!Cap /\ row' <= failed'
    <3>1. CASE healthy
      BY <1>d, <1>0, <1>c, <3>1 DEF Guard!Die, Guard!record
    <3>2. CASE ~healthy
      BY <1>d, <1>0, <1>c, <1>p, <3>2 DEF Guard!Die, Guard!record
    <3> QED BY <3>1, <3>2
  <2> QED BY <1>d, <2>1 DEF Guard!Die, Guard!record, Guard!ram
<1>1. CASE Guard!Begin
  <2> DEFINE n == IF fresh THEN 0 ELSE failed
  <2>1. n \in 0 .. Guard!Cap /\ s_prior_failed' = n /\ failed' = Guard!Plus1(n) /\ s_safe' = (n >= SafeAfter)
        /\ row' \in 0 .. Guard!Cap /\ row' <= n
    <3>1. s_prior_failed' = n /\ failed' = Guard!Plus1(n) /\ s_safe' = (n >= SafeAfter)
      BY <1>1 DEF Guard!Begin
    <3>2. row' = (IF fresh THEN 0 ELSE row) /\ ~guardUp  BY <1>1 DEF Guard!Begin
    <3>3. row' \in 0 .. Guard!Cap /\ row' <= n /\ n \in 0 .. Guard!Cap  BY <3>2, <1>0, <1>c
    <3> QED BY <3>1, <3>3
  <2>2. failed' \in 0 .. Guard!Cap  BY <2>1, <1>p
  <2>3. s_off' \in SUBSET Guard!Subs /\ off' = s_off'
    BY <1>1 DEF Guard!Begin, Guard!OffFor, Guard!Culprit
  <2>4. /\ started' = {} /\ done' = {} /\ crash' = Guard!NoTask /\ guardUp' = TRUE /\ s_hw_ready' = FALSE
        /\ healthy' = FALSE /\ UNCHANGED <<fresh, broken, events>>
    BY <1>1 DEF Guard!Begin, Guard!FaultBootInit
  <2>5. s_safe' \in BOOLEAN  BY <1>1 DEF Guard!Begin
  <2> HIDE DEF n
  <2> QED BY <2>1, <2>2, <2>3, <2>4, <2>5
<1>2. CASE Guard!NetTask \/ Guard!DeferredHwInit
  <2>1. ASSUME NEW sub \in Guard!Subs, Guard!SubStart(sub) \/ Guard!SubDone(sub) PROVE GuardInv'
    <3>1. UNCHANGED <<failed, off, crash, fresh, guardUp, s_safe, s_off, s_prior_failed, broken, healthy,
                      row, events>>
      BY <2>1 DEF Guard!SubStart, Guard!SubDone, Guard!ram
    <3>2. started' \in SUBSET Guard!Subs /\ done' \in SUBSET Guard!Subs /\ s_hw_ready' \in BOOLEAN
      BY <2>1 DEF Guard!SubStart, Guard!SubDone, Guard!ram
    <3> QED BY <3>1, <3>2
  <2>2. CASE Guard!Healthy
    BY <2>2, <1>0, <1>c DEF Guard!Healthy, Guard!ram
  <2> QED BY <1>2, <2>1, <2>2 DEF Guard!NetTask, Guard!DeferredHwInit, Guard!Subs
<1>3. CASE \E sub \in Guard!Subs : Guard!BringUpFails(sub)
  BY <1>3, <1>d DEF Guard!BringUpFails
<1>4. CASE Guard!ChanceCrash
  <2>1. events' \in 0 .. MaxEvents  BY <1>4, <1>0 DEF Guard!ChanceCrash
  <2> QED BY <1>4, <2>1, <1>d DEF Guard!ChanceCrash
<1>5. CASE Guard!PlannedReset
  <2>1. events' \in 0 .. MaxEvents  BY <1>5, <1>0 DEF Guard!PlannedReset
  <2>2. failed' \in 0 .. Guard!Cap /\ row' \in 0 .. Guard!Cap /\ row' <= failed'
    <3>1. CASE s_safe
      BY <1>5, <1>p, <3>1 DEF Guard!PlannedReset
    <3>2. CASE ~s_safe
      BY <1>5, <1>0, <1>c, <3>2 DEF Guard!PlannedReset
    <3> QED BY <3>1, <3>2
  <2> QED BY <1>5, <2>1, <2>2 DEF Guard!PlannedReset, Guard!ram
<1>6. CASE Guard!CommitRefused
  <2>1. events' \in 0 .. MaxEvents  BY <1>6, <1>0 DEF Guard!CommitRefused
  <2>2. failed' \in 0 .. Guard!Cap /\ (~healthy => failed' = Guard!Plus1(s_prior_failed))
    BY <1>6, <1>p DEF Guard!CommitRefused
  <2> QED BY <1>6, <2>1, <2>2 DEF Guard!CommitRefused, Guard!ram
<1>7. CASE Guard!PowerOn
  <2>1. events' \in 0 .. MaxEvents  BY <1>7, <1>0 DEF Guard!PowerOn
  <2> QED BY <1>7, <2>1 DEF Guard!PowerOn, Guard!ram, Guard!record
<1>8. CASE UNCHANGED Guard!vars
  BY <1>8 DEF Guard!vars, Guard!record, Guard!ram
<1> QED BY <1>1, <1>2, <1>3, <1>4, <1>5, <1>6, <1>7, <1>8 DEF Guard!Next

\* boot_guard.c, boot_policy.c: the counts of failed boots are right and a boot loop ends in safe mode,
\* for every
\* SafeAfter and however many resets, crashes and refused commits there are.
LEMMA GuardHolds == MCSpec => []GuardInv
<1>1. MCInit => GuardInv
  <2> SUFFICES ASSUME MCInit PROVE GuardInv
    OBVIOUS
  <2>1. Guard!Init  BY DEF MCInit
  <2>2. SafeAfter \in Nat \ {0} /\ MaxEvents \in Nat  BY Assumptions DEF Guard!ConstantsOK
  <2>3. failed = 0 /\ s_prior_failed = 0 /\ row = 0 /\ events = 0  BY <2>1 DEF Guard!Init
  <2>4. failed \in 0 .. Guard!Cap /\ events \in 0 .. MaxEvents  BY <2>2, <2>3 DEF Guard!Cap
  <2>5. (s_prior_failed >= SafeAfter) = FALSE  BY <2>2, <2>3
  <2>6. s_safe = (s_prior_failed >= SafeAfter) /\ ~guardUp /\ fresh
    BY <2>1, <2>5 DEF Guard!Init
  <2>7. GuardTypes  BY <2>1, <2>3, <2>4 DEF GuardTypes, Guard!Init
  <2> QED BY <2>6, <2>7 DEF GuardInv
<1>2. GuardInv /\ [MCNext]_mcVars => GuardInv'
  <2>1. ASSUME [MCNext]_mcVars PROVE [Guard!Next]_(Guard!vars)
    BY <2>1 DEF MCNext, Rest, mcVars, bootVars, Guard!vars, Guard!record, Guard!ram
  <2> QED BY <2>1, GuardStep
<1> QED BY <1>1, <1>2, PTL DEF MCSpec

\* The row of failed boots is 0 in a healthy one, and in another no longer than the count that makes it a
\* safe one.
LEMMA LoopsEnd == ASSUME GuardInv PROVE Guard!TypeOK /\ Guard!LoopEndsSafe
<1>1. Guard!TypeOK  BY DEF GuardInv, GuardTypes, Guard!TypeOK
<1>2. Guard!LoopEndsSafe
  <2> SUFFICES ASSUME guardUp, row >= SafeAfter PROVE s_safe
    BY DEF Guard!LoopEndsSafe
  <2>1. SafeAfter \in Nat \ {0} /\ row \in Nat /\ s_prior_failed \in Nat
    BY Assumptions DEF GuardInv, GuardTypes, Guard!ConstantsOK, Guard!Cap
  <2>2. ~healthy  BY <2>1 DEF GuardInv
  <2>3. s_prior_failed >= SafeAfter
    <3>1. row <= s_prior_failed  BY <2>2 DEF GuardInv
    <3> QED BY <2>1, <3>1
  <2>4. s_safe = (s_prior_failed >= SafeAfter)  BY DEF GuardInv
  <2> QED BY <2>3, <2>4
<1> QED BY <1>1, <1>2

(***************************************************************************)
(* The blob slots.  From its first erase to its commit word a write leaves   *)
(* the slot without one, and it gets one only over data that was hashed.     *)
(***************************************************************************)
BlobInv ==
    /\ Blob!TypeOK
    /\ s_info \in {None, Blob!Loaded}
    /\ Blob!Loaded \in Blobs => Blob!DataIs(Blob!Loaded)
    /\ pc # "idle" => up /\ s_info = None
    /\ pc = "erase" /\ page > 0 => ~commit
    /\ pc \in {"program", "header", "commit"} => ~commit
    /\ pc \in {"erase", "program"} => page <= Blob!Length(blob)
    /\ pc \in {"header", "commit"} => Blob!DataIs(blob)
    /\ pc = "commit" => header = blob

\* A slot without a commit word counts as empty.
LEMMA Uncommitted == ~commit => Blob!Loaded = None
BY DEF Blob!Loaded

\* blob_store.c: an erase of the write under way, whole or cut short, leaves no commit word.
LEMMA EraseUncommits ==
    ASSUME BlobInv, pc = "erase", NEW value \in {Blank, Torn}, Blob!EraseTo(page, value)
    PROVE  /\ commit' = FALSE /\ header' \in Blobs \cup {Blank, Torn}
           /\ data' \in [Blob!PageNos -> Blobs \cup {Blank, Torn}]
<1>1. page \in Nat  BY DEF BlobInv, Blob!TypeOK
<1>2. commit' = (commit /\ page # 0)  BY DEF Blob!EraseTo
<1>3. commit' = FALSE
  <2>1. CASE page = 0
    BY <1>2, <2>1
  <2>2. CASE page > 0
    <3>1. ~commit  BY <2>2 DEF BlobInv
    <3> QED BY <1>2, <3>1
  <2>3. page = 0 \/ page > 0  BY <1>1
  <2> QED BY <2>1, <2>2, <2>3
<1> QED BY <1>3 DEF BlobInv, Blob!TypeOK, Blob!EraseTo

\* blob_store.c: every flash operation, cut short or not, keeps what a slot that counts as present holds.
LEMMA BlobStep == ASSUME BlobInv, [Blob!Next]_(Blob!vars) PROVE BlobInv'
<1>e. ASSUME pc = "erase", NEW value \in {Blank, Torn}, Blob!EraseTo(page, value)
      PROVE  /\ commit' = FALSE /\ header' \in Blobs \cup {Blank, Torn}
             /\ data' \in [Blob!PageNos -> Blobs \cup {Blank, Torn}]
  BY <1>e, EraseUncommits
<1> USE DEF BlobInv, Blob!TypeOK
<1>0. Pages \in Nat \ {0} /\ Long \subseteq Blobs /\ {Blank, Torn, None} \cap Blobs = {}
  BY Assumptions DEF Blob!ConstantsOK
<1>l. \A b : Blob!Length(b) \in 1 .. Pages  BY <1>0 DEF Blob!Length
<1>n. (~commit)' => Blob!Loaded' = None /\ Blob!Loaded' \notin Blobs  BY <1>0 DEF Blob!Loaded
<1>u. ASSUME UNCHANGED <<header, commit, data>>
      PROVE  Blob!Loaded' = Blob!Loaded /\ \A b : Blob!DataIs(b)' = Blob!DataIs(b)
  BY <1>u DEF Blob!Loaded, Blob!DataIs, Blob!Length
<1>i. ASSUME Blob!Interrupted, pc # "idle"
      PROVE  /\ header' \in Blobs \cup {Blank, Torn} /\ commit' \in BOOLEAN
             /\ data' \in [Blob!PageNos -> Blobs \cup {Blank, Torn}]
             /\ Blob!Loaded' \in Blobs => Blob!DataIs(Blob!Loaded)'
  <2>1. CASE UNCHANGED Blob!flashed
    BY <2>1, <1>u DEF Blob!flashed
  <2>2. CASE pc = "erase" /\ Blob!EraseTo(page, Torn)
    <3>1. commit' = FALSE /\ header' \in Blobs \cup {Blank, Torn}
          /\ data' \in [Blob!PageNos -> Blobs \cup {Blank, Torn}]
      BY <2>2, <1>e
    <3> QED BY <3>1, <1>n
  <2>3. CASE pc = "program" /\ page < Blob!Length(blob) /\ data' = [data EXCEPT ![page + 1] = Torn]
             /\ UNCHANGED <<header, commit>>
    BY <2>3, <1>n
  <2>4. CASE pc = "header" /\ header' = Torn /\ UNCHANGED <<commit, data>>
    BY <2>4, <1>n
  <2> QED BY <1>i, <2>1, <2>2, <2>3, <2>4 DEF Blob!Interrupted
<1>1. ASSUME NEW b \in Blobs, Blob!Write(b) PROVE BlobInv'
  <2>1. UNCHANGED <<header, commit, data>> /\ blob' = b /\ page' = 0 /\ pc' = "erase" /\ s_info' = None
        /\ up /\ up' = up
    BY <1>1 DEF Blob!Write, Blob!flashed
  <2>2. 0 <= Blob!Length(b) /\ 0 \in 0 .. Pages /\ Blob!Length(blob)' = Blob!Length(b)
    BY <1>l, <1>0, <2>1 DEF Blob!Length
  <2> QED BY <2>1, <2>2, <1>u
<1>2. ASSUME NEW b \in Blobs, Blob!Program(b) PROVE BlobInv'
  <2>1. /\ pc = "program" /\ page < Blob!Length(blob) /\ page' = page + 1
           /\ data' = [data EXCEPT ![page + 1] = b]
        /\ UNCHANGED <<header, commit, s_info, up, pc, blob>>
    BY <1>2 DEF Blob!Program
  <2>2. page + 1 \in 0 .. Pages /\ page + 1 <= Blob!Length(blob) /\ Blob!Length(blob)' = Blob!Length(blob)
    BY <2>1, <1>l, <1>0 DEF Blob!Length
  <2>3. ~commit' /\ data' \in [Blob!PageNos -> Blobs \cup {Blank, Torn}]  BY <2>1
  <2>4. Blob!Loaded' = Blob!Loaded  BY <2>1 DEF Blob!Loaded
  <2> QED BY <2>1, <2>2, <2>3, <2>4, <1>n
<1>3. CASE Blob!Erase
  <2>1. /\ up /\ pc = "erase" /\ Blob!EraseTo(page, Blank) /\ UNCHANGED <<s_info, up, blob>>
        /\ (page = Blob!Length(blob) /\ pc' = "program" /\ page' = 0)
           \/ (page # Blob!Length(blob) /\ page' = page + 1 /\ pc' = pc)
    BY <1>3 DEF Blob!Erase
  <2>2. page' \in 0 .. Pages /\ page' <= Blob!Length(blob) /\ Blob!Length(blob)' = Blob!Length(blob)
    BY <2>1, <1>l, <1>0 DEF Blob!Length
  <2>3. commit' = FALSE /\ header' \in Blobs \cup {Blank, Torn}
        /\ data' \in [Blob!PageNos -> Blobs \cup {Blank, Torn}]
    BY <2>1, <1>e
  <2>4. pc' \in {"erase", "program"} /\ blob' \in Blobs /\ up' /\ s_info' = None  BY <2>1
  <2> QED BY <2>2, <2>3, <2>4, <1>n
<1>4. CASE Blob!Hash
  <2>1. /\ pc = "program" /\ pc' = (IF Blob!DataIs(blob) THEN "header" ELSE "idle")
        /\ UNCHANGED <<header, commit, data, s_info, up, blob, page>>
    BY <1>4 DEF Blob!Hash, Blob!flashed
  <2>2. Blob!DataIs(blob)' = Blob!DataIs(blob)  BY <2>1 DEF Blob!DataIs, Blob!Length
  <2> QED BY <2>1, <2>2, <1>u
<1>5. CASE Blob!ProgramHeader
  <2>1. pc = "header" /\ header' = blob /\ pc' = "commit" /\ UNCHANGED <<commit, data, s_info, up, blob, page>>
    BY <1>5 DEF Blob!ProgramHeader
  <2>2. Blob!DataIs(blob)'  BY <2>1 DEF Blob!DataIs, Blob!Length
  <2>3. s_info' = None /\ ~commit'  BY <2>1
  <2> QED BY <2>1, <2>2, <2>3, <1>n
<1>6. CASE Blob!ProgramCommit
  <2>1. pc = "commit" /\ commit' = TRUE /\ UNCHANGED <<header, data, up, blob, page>> /\ s_info' = Blob!Loaded'
        /\ pc' = "idle"
    BY <1>6 DEF Blob!ProgramCommit
  <2>2. Blob!Loaded' = blob  BY <2>1 DEF Blob!Loaded
  <2>3. Blob!DataIs(blob)'  BY <2>1 DEF Blob!DataIs, Blob!Length
  <2>4. Blob!DataIs(Blob!Loaded)'  BY <2>2, <2>3, <2>1 DEF Blob!DataIs, Blob!Length
  <2> QED BY <2>1, <2>2, <2>4
<1>7. CASE Blob!GiveUp
  BY <1>7, <1>i DEF Blob!GiveUp
<1>8. CASE Blob!Clear
  <2>1. pc = "idle" /\ s_info' = None /\ UNCHANGED <<up, pc, blob, page>>
    BY <1>8 DEF Blob!Clear
  <2>2. CASE header' = Blank /\ commit' = FALSE /\ UNCHANGED data
    BY <2>1, <2>2, <1>n
  <2>3. CASE UNCHANGED <<header, commit, data>>
    BY <2>1, <2>3, <1>u
  <2> QED BY <1>8, <2>2, <2>3 DEF Blob!Clear, Blob!flashed
<1>9. CASE Blob!PowerCut
  <2>1. up' = FALSE /\ s_info' = None /\ pc' = "idle" /\ UNCHANGED <<blob, page>>
    BY <1>9 DEF Blob!PowerCut
  <2>2. CASE pc = "idle" /\ header' = Torn /\ commit' = FALSE /\ UNCHANGED data
    BY <2>1, <2>2, <1>n
  <2>3. CASE Blob!Interrupted /\ pc # "idle"
    BY <2>1, <2>3, <1>i
  <2>4. CASE Blob!Interrupted /\ pc = "idle"
    BY <2>1, <2>4, <1>u DEF Blob!Interrupted, Blob!flashed
  <2> QED BY <1>9, <2>2, <2>3, <2>4 DEF Blob!PowerCut
<1>10. CASE Blob!Load
  <2>1. ~up /\ up' = TRUE /\ s_info' = Blob!Loaded /\ UNCHANGED <<header, commit, data, pc, blob, page>>
    BY <1>10 DEF Blob!Load, Blob!flashed
  <2>2. Blob!Loaded \in Blobs \cup {None}  BY DEF Blob!Loaded
  <2> QED BY <2>1, <2>2, <1>u
<1>11. CASE UNCHANGED Blob!vars
  BY <1>11, <1>u DEF Blob!vars, Blob!Length
<1> QED BY <1>1, <1>2, <1>3, <1>4, <1>5, <1>6, <1>7, <1>8, <1>9, <1>10, <1>11 DEF Blob!Next

\* blob_store.c: in every behaviour a slot that counts as present holds the blob its header names, and what RAM
\* offers is what a reboot finds, for every set of blobs and every number of pages.
LEMMA BlobHolds == MCSpec => []BlobInv
<1>1. MCInit => BlobInv
  <2> SUFFICES ASSUME MCInit PROVE BlobInv
    OBVIOUS
  <2>1. Blob!Init  BY DEF MCInit
  <2>2. Pages \in Nat \ {0} /\ {Blank, Torn, None} \cap Blobs = {}
    BY Assumptions DEF Blob!ConstantsOK
  <2>3. Blob!Loaded = None /\ None \notin Blobs  BY <2>1, <2>2 DEF Blob!Init, Blob!Loaded
  <2>4. /\ header = Blank /\ commit = FALSE /\ data = [p \in Blob!PageNos |-> Blank] /\ s_info = None
           /\ up = TRUE
        /\ pc = "idle" /\ blob \in Blobs /\ page = 0
    BY <2>1 DEF Blob!Init
  <2>5. page \in 0 .. Pages  BY <2>2, <2>4
  <2> QED BY <2>3, <2>4, <2>5 DEF BlobInv, Blob!TypeOK
<1>2. BlobInv /\ [MCNext]_mcVars => BlobInv'
  <2>1. ASSUME [MCNext]_mcVars PROVE [Blob!Next]_(Blob!vars)
    BY <2>1 DEF MCNext, Rest, mcVars, blobVars, Blob!vars
  <2> QED BY <2>1, BlobStep
<1> QED BY <1>1, <1>2, PTL DEF MCSpec

\* blob_store.c: a slot that counts as present is whole, and is what RAM offers.
LEMMA BlobsWhole == ASSUME BlobInv PROVE Blob!PresentIsWhole /\ Blob!CacheAgrees
<1>1. None \notin Blobs  BY Assumptions DEF Blob!ConstantsOK
<1> QED BY <1>1 DEF BlobInv, Blob!PresentIsWhole, Blob!CacheAgrees

(***************************************************************************)
(* The certificate.                                                         *)
(***************************************************************************)
PairInv ==
    /\ Cert!TypeOK /\ lcCmds \in Nat /\ lcStaged.cert \in Cert!Certs
    /\ Cert!ServesPairs
    /\ Cert!AlwaysTls

\* lan_tls.c: what a job stores is a new certificate of the pod's or an upload that checked, and what it
\* takes over applied.
LEMMA PairStep == ASSUME PairInv, [Cert!Next]_(Cert!lcVars) PROVE PairInv'
<1>0. MaxCertFaults \in Nat /\ MaxCertCmds \in Nat  BY Assumptions DEF Cert!ConstantsOK
<1>t. /\ lcUp \in BOOLEAN /\ lcStore \in Cert!Certs /\ lcCur \in Cert!Certs /\ lcInfo.cert \in Cert!Certs
      /\ lcInfo.ready \in BOOLEAN /\ lcOta \in {"idle", "verified", "installed"}
         /\ lcFaults \in 0 .. MaxCertFaults
      /\ lcCmds \in Nat /\ lcStaged.cert \in Cert!Certs
  BY DEF PairInv, Cert!TypeOK
<1>p. /\ Cert!Real(lcStore) => lcStore.pair
      /\ Cert!Real(lcCur) => lcCur.pair
      /\ lcInfo.ready = Cert!Real(lcCur) /\ (lcInfo.ready => lcInfo.cert = lcCur)
      /\ lcUp /\ lcBoot = "none" => Cert!Real(lcCur)
  BY DEF PairInv, Cert!ServesPairs, Cert!AlwaysTls
<1> DEFINE Fine(c) == c \in Cert!Certs /\ (Cert!Real(c) => c.pair)
           Served(c, i) == Fine(c) /\ i.cert \in Cert!Certs /\ i.ready \in BOOLEAN /\ i.ready = Cert!Real(c)
                           /\ (i.ready => i.cert = c)
<1>a. ASSUME lcUp' \in BOOLEAN, Fine(lcStore'), Served(lcCur', lcInfo'),
             lcOta' \in {"idle", "verified", "installed"}, lcFaults' \in 0 .. MaxCertFaults, lcCmds' \in Nat,
             lcStaged'.cert \in Cert!Certs, lcUp' /\ lcBoot' = "none" => Cert!Real(lcCur')
      PROVE  PairInv'
  BY <1>a DEF PairInv, Cert!TypeOK, Cert!ServesPairs, Cert!AlwaysTls, Cert!Real
<1>b. Fine(lcStore) /\ Served(lcCur, lcInfo)  BY <1>t, <1>p
<1>c. Cert!NoCert \in Cert!Certs /\ Cert!Real(Cert!NoCert) = FALSE
  BY DEF Cert!NoCert, Cert!Cert, Cert!Certs, Cert!Real
<1>d. Served(Cert!NoCert, [ready |-> FALSE, cert |-> Cert!NoCert])  BY <1>c
<1>e. ASSUME NEW c \in Cert!Certs, NEW f, Cert!Applies(c, f), Cert!Used(c)
      PROVE  Served(lcCur', lcInfo') /\ Cert!Real(lcCur')
  BY <1>e DEF Cert!Applies, Cert!Used, Cert!PairOK, Cert!Real, Cert!Certs
<1>f. ASSUME NEW f \in Cert!Faults, Cert!Count(f) PROVE lcFaults' \in 0 .. MaxCertFaults
  <2>1. f = "none" \/ lcFaults < MaxCertFaults  BY DEF Cert!Faults
  <2> QED BY <1>f, <2>1, <1>0, <1>t DEF Cert!Count
<1>g. /\ Cert!NewCert(lcCmds + 1) \in Cert!Certs /\ Fine(Cert!NewCert(lcCmds + 1))
      /\ Cert!Real(Cert!NewCert(lcCmds + 1)) /\ Cert!NewCert(lcCmds + 1).pair
  <2>1. lcCmds + 1 \in Nat  BY <1>t
  <2> QED BY <2>1 DEF Cert!NewCert, Cert!Cert, Cert!Certs, Cert!Real
<1>h. lcCmds + 1 \in Nat  BY <1>t
<1> HIDE DEF Fine, Served
<1>1. CASE Cert!Boot
  <2>1. PICK t \in Cert!BootTries :
          /\ Cert!Count(IF t[1] = "none" THEN t[2] ELSE t[1]) /\ lcBoot' = t[2]
          /\ \/ Cert!LoadsStored(t[1]) /\ Cert!Used(lcStore) /\ UNCHANGED lcStore
             \/ ~Cert!LoadsStored(t[1]) /\ Cert!Regenerates(t[1], t[2])
    BY <1>1 DEF Cert!Boot
  <2>2. lcUp' = TRUE /\ lcCmds' = lcCmds + 1 /\ UNCHANGED <<lcStaged, lcOta, lcSaid>>
    BY <1>1 DEF Cert!Boot
  <2>3. lcFaults' \in 0 .. MaxCertFaults  BY <2>1, <1>f DEF Cert!BootTries
  <2>4. Fine(lcStore') /\ Served(lcCur', lcInfo') /\ (lcBoot' = "none" => Cert!Real(lcCur'))
    <3>1. CASE Cert!LoadsStored(t[1]) /\ Cert!Used(lcStore) /\ UNCHANGED lcStore
      BY <3>1, <1>e, <1>t, <1>b DEF Cert!LoadsStored
    <3>2. CASE Cert!Regenerates(t[1], t[2])
      <4>1. lcStore' \in {lcStore, Cert!NewCert(lcCmds + 1)}  BY <3>2 DEF Cert!Regenerates
      <4>2. CASE Cert!Generates(t[2]) /\ Cert!Saves(t[2]) /\ Cert!Applies(Cert!NewCert(lcCmds + 1), t[2])
        BY <3>2, <4>1, <4>2, <1>b, <1>e, <1>g DEF Cert!Regenerates
      <4>3. CASE ~(Cert!Generates(t[2]) /\ Cert!Saves(t[2]) /\ Cert!Applies(Cert!NewCert(lcCmds + 1), t[2]))
        <5>1. t[2] # "none"
          BY <4>3, <1>g DEF Cert!Generates, Cert!Saves, Cert!Applies, Cert!PairOK
        <5>2. lcCur' = Cert!NoCert /\ lcInfo' = [ready |-> FALSE, cert |-> Cert!NoCert]
          BY <3>2, <4>3 DEF Cert!Regenerates
        <5> QED BY <2>1, <4>1, <5>1, <5>2, <1>b, <1>d, <1>g
      <4> QED BY <4>2, <4>3
    <3> QED BY <2>1, <3>1, <3>2
  <2> QED BY <2>2, <2>3, <2>4, <1>a, <1>t, <1>h
<1>2. CASE Cert!Reset
  <2>1. /\ lcUp' = FALSE /\ lcCur' = Cert!NoCert /\ lcInfo' = [ready |-> FALSE, cert |-> Cert!NoCert]
        /\ lcStaged'.cert = Cert!NoCert /\ lcOta' = "idle" /\ UNCHANGED <<lcStore, lcFaults, lcCmds>>
    BY <1>2 DEF Cert!Reset
  <2> QED BY <2>1, <1>a, <1>b, <1>c, <1>d, <1>t
<1>3. CASE Cert!Regenerate
  <2>1. /\ lcUp' = lcUp /\ lcBoot' = lcBoot /\ lcCmds' = lcCmds + 1 /\ UNCHANGED <<lcStaged, lcOta>>
    BY <1>3 DEF Cert!Regenerate, Cert!Job
  <2> DEFINE c == Cert!NewCert(lcCmds + 1)
  <2>2. PICK f \in Cert!Faults :
          /\ Cert!Count(f) /\ lcStore' \in {c, lcStore}
          /\ (Cert!Applies(c, f) /\ Cert!Used(c)) \/ Cert!Unused
    BY <1>3 DEF Cert!Regenerate, Cert!Store
  <2>3. Fine(lcStore') /\ Served(lcCur', lcInfo') /\ (lcUp' /\ lcBoot' = "none" => Cert!Real(lcCur'))
    <3>1. CASE Cert!Applies(c, f) /\ Cert!Used(c)
      BY <2>2, <3>1, <1>b, <1>e, <1>g
    <3>2. CASE Cert!Unused
      BY <2>1, <2>2, <3>2, <1>b, <1>g, <1>p DEF Cert!Unused
    <3> QED BY <2>2, <3>1, <3>2
  <2> QED BY <2>1, <2>2, <2>3, <1>a, <1>f, <1>h, <1>t
<1>4. CASE Cert!Upload
  <2>1. /\ lcUp' = lcUp /\ lcBoot' = lcBoot /\ lcCmds' = lcCmds + 1 /\ UNCHANGED <<lcStore, lcCur, lcInfo>>
    BY <1>4 DEF Cert!Upload, Cert!Job, Cert!Unused
  <2>2. PICK u \in Cert!Uploads, f \in Cert!Faults :
          lcStaged' = u /\ Cert!Count(f) /\ lcOta' \in {"verified", "idle"}
    BY <1>4 DEF Cert!Upload
  <2>3. u.cert \in Cert!Certs  BY <1>h DEF Cert!Uploads, Cert!Cert, Cert!Certs
  <2> QED BY <2>1, <2>2, <2>3, <1>a, <1>b, <1>f, <1>h, <1>p, <1>t
<1>5. CASE Cert!Overwritten
  <2>1. /\ lcFaults < MaxCertFaults /\ lcFaults' = lcFaults + 1
        /\ UNCHANGED <<lcUp, lcBoot, lcStore, lcCur, lcInfo, lcOta, lcCmds>>
    BY <1>5 DEF Cert!Overwritten, Cert!Unused
  <2>2. PICK u \in Cert!Uploads : lcStaged' = u
    BY <1>5 DEF Cert!Overwritten
  <2>3. u.cert \in Cert!Certs  BY <1>h DEF Cert!Uploads, Cert!Cert, Cert!Certs
  <2>4. lcFaults' \in 0 .. MaxCertFaults  BY <2>1, <1>0, <1>t
  <2> QED BY <2>1, <2>2, <2>3, <2>4, <1>a, <1>b, <1>p, <1>t
<1>6. CASE Cert!Install
  <2>1. /\ lcUp' = lcUp /\ lcBoot' = lcBoot /\ lcCmds' = lcCmds + 1 /\ lcStaged' = lcStaged
    BY <1>6 DEF Cert!Install, Cert!Job
  <2> DEFINE c == lcStaged.cert
  <2>2. PICK f \in Cert!Faults :
          /\ Cert!Count(f) /\ lcOta' \in {lcOta, "installed"}
          /\ lcStore' = lcStore \/ (lcStore' = c /\ Cert!PairOK(c, f))
          /\ (Cert!Applies(c, f) /\ Cert!Used(c)) \/ Cert!Unused
    BY <1>6 DEF Cert!Install, Cert!Store, Cert!ChecksAgain, Cert!Checks
  <2>3. Fine(lcStore')  BY <2>2, <1>b, <1>t DEF Cert!PairOK, Fine
  <2>4. Served(lcCur', lcInfo') /\ (lcUp' /\ lcBoot' = "none" => Cert!Real(lcCur'))
    <3>1. CASE Cert!Applies(c, f) /\ Cert!Used(c)
      BY <3>1, <1>e, <1>t
    <3>2. CASE Cert!Unused
      BY <2>1, <3>2, <1>b, <1>p DEF Cert!Unused
    <3> QED BY <2>2, <3>1, <3>2
  <2> QED BY <2>1, <2>2, <2>3, <2>4, <1>a, <1>f, <1>h, <1>t
<1>7. CASE UNCHANGED Cert!lcVars
  BY <1>7, <1>a, <1>b, <1>p, <1>t DEF Cert!lcVars
<1> QED BY <1>1, <1>2, <1>3, <1>4, <1>5, <1>6, <1>7 DEF Cert!Next

\* lan_tls.c: in every behaviour what is stored, served or reported is a certificate with its own key, and a pod
\* whose boot met no fault in its last attempt has one.
LEMMA PairHolds == MCSpec => []PairInv
<1>1. MCInit => PairInv
  <2> SUFFICES ASSUME MCInit PROVE PairInv
    OBVIOUS
  <2>1. Cert!Init  BY DEF MCInit
  <2>2. MaxCertFaults \in Nat  BY Assumptions DEF Cert!ConstantsOK
  <2>3. 0 \in 0 .. MaxCertFaults /\ 0 \in Nat  BY <2>2
  <2>4. /\ lcUp = FALSE /\ lcCur = Cert!NoCert /\ lcInfo = [ready |-> FALSE, cert |-> Cert!NoCert]
        /\ lcStore \in {Cert!NoCert, Cert!Cert("damaged", 0, FALSE), Cert!Cert("user", 0, TRUE)}
        /\ lcStaged.cert = Cert!NoCert /\ lcOta = "idle" /\ lcFaults = 0 /\ lcCmds = 0
    BY <2>1 DEF Cert!Init
  <2>5. Cert!NoCert \in Cert!Certs /\ Cert!Real(Cert!NoCert) = FALSE
    BY DEF Cert!NoCert, Cert!Cert, Cert!Certs, Cert!Real
  <2>6. lcStore \in Cert!Certs /\ (Cert!Real(lcStore) => lcStore.pair)
    <3>1. CASE lcStore = Cert!NoCert
      BY <2>5, <3>1
    <3>2. CASE lcStore = [by |-> "damaged", n |-> 0, pair |-> FALSE]
      BY <2>3, <3>2 DEF Cert!Certs, Cert!Real
    <3>3. CASE lcStore = [by |-> "user", n |-> 0, pair |-> TRUE]
      BY <2>3, <3>3 DEF Cert!Certs, Cert!Real
    <3> QED BY <2>4, <3>1, <3>2, <3>3 DEF Cert!Cert
  <2>7. Cert!TypeOK /\ lcCmds \in Nat /\ lcStaged.cert \in Cert!Certs
    BY <2>3, <2>4, <2>5, <2>6 DEF Cert!TypeOK
  <2>8. Cert!ServesPairs /\ Cert!AlwaysTls
    BY <2>4, <2>5, <2>6 DEF Cert!ServesPairs, Cert!AlwaysTls
  <2> QED BY <2>7, <2>8 DEF PairInv
<1>2. PairInv /\ [MCNext]_mcVars => PairInv'
  <2>1. ASSUME [MCNext]_mcVars PROVE [Cert!Next]_(Cert!lcVars)
    BY <2>1 DEF MCNext, Rest, mcVars, certVars, Cert!lcVars
  <2> QED BY <2>1, PairStep
<1> QED BY <1>1, <1>2, PTL DEF MCSpec

(***************************************************************************)
(* The commit of an update.  Nothing is erased before the pre-pass is        *)
(* through, and behind the sector at hand every sector is new, or the        *)
(* trouble has outlasted a sector's retries.                                *)
(***************************************************************************)
Outlasted == trouble >= IF ReadTries < SectorTries THEN ReadTries ELSE SectorTries

CommitInv ==
    /\ Writer!TypeOK
    /\ cpc \in {"idle", "grab"} => ~busHeld /\ ~irqOff /\ ~planned
    /\ cpc = "idle" => Writer!Whole(app, "old") \/ Writer!Whole(app, "new")
    /\ cpc \in {"hash", "crc", "pre", "read", "write", "reset"} => busHeld
    /\ cpc \in {"grab", "hash", "crc", "pre"} => Writer!Whole(app, "old")
    /\ cpc \in {"crc", "pre", "read", "write"} => Writer!Whole(staging, "new")
    /\ cpc \in {"pre", "read", "write"} => at \in Writer!Idx /\ crcs = staging
    /\ cpc \in {"pre", "read"} => tries \in 1 .. ReadTries
    /\ cpc = "read" => trouble + tries >= ReadTries
    /\ cpc = "write" => /\ tries \in 1 .. SectorTries /\ trouble + tries >= SectorTries
                        /\ bufc = "new" \/ (bufc = "junk" /\ trouble >= ReadTries)
    /\ cpc \in {"read", "write"} => \A s \in 1 .. at - 1 : app[s] = "new" \/ Outlasted
    /\ cpc = "reset" => \A s \in Writer!Idx : app[s] = "new" \/ Outlasted
    /\ cpc = "dead" /\ ~powerCut => Outlasted

\* ota_commit.c: no step of a commit erases before the pre-pass is through, and none leaves an unfinished sector
\* behind while retries are left.
LEMMA CommitStep == ASSUME CommitInv, [Writer!Next]_(Writer!ocVars) PROVE CommitInv'
<1> USE DEF CommitInv, Writer!TypeOK
<1>0. Sectors \in Nat \ {0} /\ ReadTries \in Nat \ {0} /\ SectorTries \in Nat \ {0} /\ MaxTrouble \in Nat
  BY Assumptions DEF Writer!ConstantsOK
<1>m. \A k \in (1 .. ReadTries) \cup (1 .. SectorTries) :
        k \in 0 .. (IF ReadTries > SectorTries THEN ReadTries ELSE SectorTries)
  BY <1>0
<1>y. ReadTries \in 1 .. ReadTries /\ \A k \in 0 .. MaxTrouble : k + ReadTries >= ReadTries
  BY <1>0
<1>t. trouble \in Nat /\ trouble <= MaxTrouble  BY <1>0
<1>o. ASSUME trouble' \in Nat, trouble <= trouble', Outlasted PROVE Outlasted'
  BY <1>o, <1>0, <1>t DEF Outlasted
<1>w. Writer!Part = {"new", "junk"} /\ Writer!Idx = 1 .. Sectors  BY DEF Writer!Part, Writer!Idx
<1>n. ASSUME Writer!Trouble PROVE trouble' = trouble + 1 /\ trouble' \in 0 .. MaxTrouble /\ trouble <= trouble'
  BY <1>n, <1>0, <1>t DEF Writer!Trouble
<1>r. ASSUME Writer!Refused, cpc \in {"hash", "crc", "pre"}, UNCHANGED <<staging, app, copy, powerCut>>,
             trouble' \in 0 .. MaxTrouble, crcs' \in [Writer!Idx -> Writer!Part \cup {"none"}]
      PROVE  CommitInv'
  <2>1. Writer!Whole(app, "old")'  BY <1>r DEF Writer!Whole, Writer!Idx
  <2>2. /\ cpc' = "idle" /\ at' = 1 /\ bufc' = "none" /\ tries' = 0
        /\ busHeld' = FALSE /\ irqOff' = FALSE /\ planned' = FALSE
    BY <1>r DEF Writer!Refused
  <2>3. at' \in 1 .. Sectors + 1 /\ tries' \in 0 .. (IF ReadTries > SectorTries THEN ReadTries ELSE SectorTries)
    BY <2>2, <1>0
  <2> QED BY <1>r, <2>1, <2>2, <2>3 DEF Writer!Idx, Writer!Part
<1>1. ASSUME NEW s \in Writer!Idx, Writer!Scribble(s) PROVE CommitInv'
  <2>1. /\ ~busHeld /\ staging' = [staging EXCEPT ![s] = "junk"]
        /\ UNCHANGED <<cpc, at, app, copy, crcs, bufc, tries, busHeld, irqOff, planned, powerCut>>
    BY <1>1 DEF Writer!Scribble, Writer!held
  <2>2. trouble' \in 0 .. MaxTrouble /\ (Outlasted => Outlasted')
    BY <1>1, <1>n, <1>o DEF Writer!Scribble
  <2>3. cpc \in {"idle", "grab", "dead"}  BY <2>1
  <2>4. staging' \in [Writer!Idx -> Writer!Part]  BY <2>1, <1>w
  <2> QED BY <2>1, <2>2, <2>3, <2>4 DEF Writer!Whole, Writer!Idx, Writer!Part
<1>2. CASE Writer!StoreCopy
  <2>1. /\ cpc = "idle" /\ Writer!Whole(app, "old") /\ cpc' = "grab" /\ copy' \in {"none", "whole"}
        /\ UNCHANGED <<at, staging, app, crcs, bufc, tries, busHeld, irqOff, planned, trouble, powerCut>>
    BY <1>2 DEF Writer!StoreCopy, Writer!held
  <2> QED BY <2>1 DEF Writer!Whole, Writer!Idx, Writer!Part
<1>3. CASE Writer!Grab
  BY <1>3 DEF Writer!Grab, Writer!Whole, Writer!Idx, Writer!Part
<1>4. CASE Writer!Reverify
  <2>1. UNCHANGED <<staging, app, copy, crcs, trouble, powerCut>> /\ cpc = "hash"
    BY <1>4 DEF Writer!Reverify
  <2>2. CASE Writer!Whole(staging, "new") /\ cpc' = "crc" /\ UNCHANGED <<at, bufc, tries, Writer!held>>
    BY <2>1, <2>2 DEF Writer!held, Writer!Whole, Writer!Idx, Writer!Part
  <2>3. CASE Writer!Refused
    BY <2>1, <2>3, <1>r
  <2> QED BY <1>4, <2>2, <2>3 DEF Writer!Reverify
<1>5. CASE Writer!TakeCrcs
  <2>1. UNCHANGED <<staging, app, copy, powerCut>> /\ cpc = "crc"  BY <1>5 DEF Writer!TakeCrcs
  <2>2. CASE /\ crcs' = staging /\ planned' = TRUE /\ irqOff' = TRUE
             /\ cpc' = "pre" /\ at' = 1 /\ tries' = ReadTries /\ UNCHANGED <<bufc, busHeld, trouble>>
    <3>1. at' \in 1 .. Sectors + 1 /\ at' \in Writer!Idx /\ tries' \in 1 .. ReadTries
          /\ tries' \in 0 .. (IF ReadTries > SectorTries THEN ReadTries ELSE SectorTries)
      BY <2>2, <1>0, <1>w
    <3> QED BY <2>1, <2>2, <3>1 DEF Writer!Whole, Writer!Idx, Writer!Part
  <2>3. CASE Writer!Trouble /\ Writer!Refused /\ UNCHANGED crcs
    BY <2>1, <2>3, <1>n, <1>r
  <2> QED BY <1>5, <2>2, <2>3 DEF Writer!TakeCrcs
<1>x. ASSUME NEW x \in Writer!Part, cpc \in {"pre", "read"}, Writer!RawRead(at, x), Writer!Cost(at, x)
      PROVE  /\ trouble' \in 0 .. MaxTrouble /\ trouble <= trouble'
             /\ Writer!Checked(x) <=> x = "new"
             /\ x # "new" => x = "junk" /\ trouble' = trouble + 1
             /\ x = "new" => trouble' = trouble
  <2>1. staging[at] = "new" /\ crcs[at] = "new"  BY <1>x DEF Writer!Whole
  <2>2. Writer!Checked(x) <=> x = "new"  BY <2>1 DEF Writer!Checked
  <2>3. x # "new" => x = "junk" /\ trouble < MaxTrouble  BY <1>x, <2>1, <1>w DEF Writer!RawRead
  <2>4. trouble' = IF x = "new" THEN trouble ELSE trouble + 1  BY <1>x, <2>1 DEF Writer!Cost
  <2> QED BY <2>2, <2>3, <2>4, <1>0, <1>t
<1>6. CASE Writer!PrePass
  <2>1. PICK x \in Writer!Part :
          /\ Writer!RawRead(at, x) /\ Writer!Cost(at, x)
          /\ \/ /\ Writer!Checked(x) /\ bufc' = x /\ tries' = ReadTries
                /\ IF at < Sectors THEN at' = at + 1 /\ cpc' = "pre" ELSE at' = 1 /\ cpc' = "read"
                /\ UNCHANGED Writer!held
             \/ /\ ~Writer!Checked(x) /\ tries > 1 /\ bufc' = x /\ tries' = tries - 1
                /\ UNCHANGED <<at, cpc, Writer!held>>
             \/ ~Writer!Checked(x) /\ tries = 1 /\ Writer!Refused
    BY <1>6 DEF Writer!PrePass
  <2>2. UNCHANGED <<staging, app, copy, crcs, powerCut>> /\ cpc = "pre"
    BY <1>6 DEF Writer!PrePass
  <2>3. trouble' \in 0 .. MaxTrouble  BY <2>1, <2>2, <1>x
  <2>4. CASE Writer!Refused
    BY <2>2, <2>3, <2>4, <1>r
  <2>5. CASE ~Writer!Refused
    <3>1. /\ at' \in 1 .. Sectors + 1 /\ at' \in Writer!Idx /\ tries' \in 1 .. ReadTries
          /\ tries' \in 0 .. (IF ReadTries > SectorTries THEN ReadTries ELSE SectorTries)
          /\ cpc' \in {"pre", "read"}
          /\ cpc' = "read" => at' = 1 /\ trouble' + tries' >= ReadTries
      <4>1. \/ tries' = ReadTries /\ at < Sectors /\ at' = at + 1 /\ cpc' = "pre"
            \/ tries' = ReadTries /\ at' = 1 /\ cpc' = "read"
            \/ tries > 1 /\ tries' = tries - 1 /\ at' = at /\ cpc' = "pre"
        BY <2>1, <2>2, <2>5
      <4>2. at \in 1 .. Sectors /\ tries \in 1 .. ReadTries  BY <2>2, <1>w
      <4> QED BY <4>1, <4>2, <2>3, <1>0, <1>w
    <3>2. bufc' = x /\ UNCHANGED <<busHeld, irqOff, planned>>  BY <2>1, <2>5 DEF Writer!held
    <3>3. cpc' = "read" => \A s \in 1 .. at' - 1 : FALSE  BY <3>1
    <3> QED BY <2>2, <2>3, <3>1, <3>2, <3>3 DEF Writer!Whole, Writer!Idx, Writer!Part
  <2> QED BY <2>4, <2>5
<1>7. CASE Writer!ReadAgain
  <2>1. PICK x \in Writer!Part :
          /\ Writer!RawRead(at, x) /\ Writer!Cost(at, x) /\ bufc' = x
          /\ IF ~Writer!Checked(x) /\ tries > 1 THEN tries' = tries - 1 /\ UNCHANGED cpc
                                                ELSE tries' = SectorTries /\ cpc' = "write"
    BY <1>7 DEF Writer!ReadAgain
  <2>2. UNCHANGED <<at, staging, app, copy, crcs, busHeld, irqOff, planned, powerCut>> /\ cpc = "read"
    BY <1>7 DEF Writer!ReadAgain, Writer!held
  <2>3. /\ trouble' \in 0 .. MaxTrouble /\ trouble <= trouble'
        /\ Writer!Checked(x) <=> x = "new"
        /\ x # "new" => x = "junk" /\ trouble' = trouble + 1
        /\ x = "new" => trouble' = trouble
    BY <2>1, <2>2, <1>x
  <2>4. Outlasted => Outlasted'  BY <2>3, <1>o
  <2>5. CASE x = "junk" /\ tries > 1 /\ tries' = tries - 1 /\ cpc' = "read"
    <3>0. tries \in 1 .. ReadTries /\ trouble + tries >= ReadTries  BY <2>2
    <3>1. tries' \in 1 .. ReadTries /\ trouble' + tries' >= ReadTries
      BY <2>3, <2>5, <3>0, <1>0, <1>t
    <3>2. tries' \in 0 .. (IF ReadTries > SectorTries THEN ReadTries ELSE SectorTries)
      BY <3>1, <1>m
    <3> QED BY <2>1, <2>2, <2>3, <2>4, <2>5, <3>1, <3>2 DEF Writer!Whole, Writer!Idx, Writer!Part
  <2>6. CASE tries' = SectorTries /\ cpc' = "write" /\ (x = "new" \/ (x = "junk" /\ tries = 1))
    <3>1. tries' \in 1 .. SectorTries /\ trouble' + tries' >= SectorTries
          /\ tries' \in 0 .. (IF ReadTries > SectorTries THEN ReadTries ELSE SectorTries)
      BY <2>3, <2>6, <1>0
    <3>2. x = "new" \/ (x = "junk" /\ trouble' >= ReadTries)  BY <2>2, <2>3, <2>6, <1>0, <1>t
    <3> QED BY <2>1, <2>2, <2>3, <2>4, <2>6, <3>1, <3>2 DEF Writer!Whole, Writer!Idx, Writer!Part
  <2>7. tries \in 1 .. ReadTries  BY <2>2
  <2> QED BY <2>1, <2>2, <2>3, <2>5, <2>6, <2>7
<1>8. CASE Writer!WriteSector
  <2>1. PICK ok \in BOOLEAN :
          /\ IF ok THEN UNCHANGED trouble ELSE Writer!Trouble
          /\ app' = [app EXCEPT ![at] = IF ok THEN bufc ELSE "erased"]
          /\ IF Writer!SectorHolds(ok) \/ tries = 1
             THEN /\ tries' = ReadTries
                  /\ IF at < Sectors THEN at' = at + 1 /\ cpc' = "read" ELSE cpc' = "reset" /\ UNCHANGED at
             ELSE tries' = tries - 1 /\ UNCHANGED <<cpc, at>>
    BY <1>8 DEF Writer!WriteSector
  <2>2. UNCHANGED <<staging, copy, crcs, bufc, busHeld, irqOff, planned, powerCut>> /\ cpc = "write"
    BY <1>8 DEF Writer!WriteSector, Writer!held
  <2>3. trouble' \in 0 .. MaxTrouble /\ trouble <= trouble' /\ (ok \/ trouble' = trouble + 1)
    BY <2>1, <1>n, <1>t, <1>0
  <2>4. Outlasted => Outlasted'  BY <2>3, <1>o
  <2>5. at \in 1 .. Sectors /\ tries \in 1 .. SectorTries /\ trouble + tries >= SectorTries
    BY <2>2, <1>w
  <2>6. app' \in [Writer!Idx -> {"old", "erased"} \cup Writer!Part]  BY <2>1, <2>2, <1>w
  <2>7. \A s \in 1 .. at - 1 : app'[s] = "new" \/ Outlasted'  BY <2>1, <2>2, <2>4, <2>5, <1>w
  <2>8. CASE tries' = ReadTries /\ (ok \/ tries = 1)
    <3>1. app'[at] = "new" \/ Outlasted'
      <4>1. CASE ok
        <5>1. app'[at] = bufc  BY <2>1, <2>5, <4>1, <1>w
        <5>2. bufc = "new" \/ trouble >= ReadTries  BY <2>2
        <5> QED BY <2>3, <5>1, <5>2, <1>0, <1>t DEF Outlasted
      <4>2. CASE ~ok /\ tries = 1
        BY <2>3, <2>5, <4>2, <1>0, <1>t DEF Outlasted
      <4> QED BY <2>8, <4>1, <4>2
    <3>2. \A s \in 1 .. at : app'[s] = "new" \/ Outlasted'
      <4> SUFFICES ASSUME NEW s \in 1 .. at PROVE app'[s] = "new" \/ Outlasted'
        OBVIOUS
      <4>1. s = at \/ s \in 1 .. at - 1  BY <2>5
      <4> QED BY <4>1, <3>1, <2>7
    <3>3. tries' \in 1 .. ReadTries /\ trouble' + tries' >= ReadTries
      <4>1. tries' = ReadTries /\ trouble' \in 0 .. MaxTrouble  BY <2>3, <2>8
      <4> QED BY <4>1, <1>y
    <3>7. tries' \in 0 .. (IF ReadTries > SectorTries THEN ReadTries ELSE SectorTries)
      BY <3>3, <1>m
    <3>4. CASE at < Sectors /\ at' = at + 1 /\ cpc' = "read"
      <4>1. at' \in 1 .. Sectors + 1 /\ at' \in Writer!Idx /\ 1 .. at' - 1 = 1 .. at
        BY <2>5, <3>4, <1>0, <1>w
      <4> QED BY <2>2, <2>3, <2>6, <3>2, <3>3, <3>4, <3>7, <4>1 DEF Writer!Whole, Writer!Idx, Writer!Part
    <3>5. CASE at = Sectors /\ cpc' = "reset" /\ at' = at
      BY <2>2, <2>3, <2>6, <3>2, <3>3, <3>5, <3>7, <1>w DEF Writer!Idx, Writer!Part
    <3>6. at < Sectors \/ at = Sectors  BY <2>5, <1>0
    <3> QED BY <2>1, <2>8, <3>4, <3>5, <3>6 DEF Writer!SectorHolds
  <2>9. CASE ~ok /\ tries > 1 /\ tries' = tries - 1 /\ UNCHANGED <<cpc, at>>
    <3>1. tries' \in 1 .. SectorTries /\ trouble' + tries' >= SectorTries
          /\ tries' \in 0 .. (IF ReadTries > SectorTries THEN ReadTries ELSE SectorTries)
      BY <2>3, <2>5, <2>9, <1>0, <1>t
    <3>2. bufc = "new" \/ (bufc = "junk" /\ trouble' >= ReadTries)  BY <2>2, <2>3, <1>0, <1>t
    <3> QED BY <2>2, <2>3, <2>6, <2>7, <2>9, <3>1, <3>2 DEF Writer!Whole, Writer!Idx, Writer!Part
  <2>10. tries = 1 \/ tries > 1  BY <2>5
  <2> QED BY <2>1, <2>8, <2>9, <2>10 DEF Writer!SectorHolds
<1>a. ASSUME Writer!AfterReset, powerCut' \in BOOLEAN, staging' \in [Writer!Idx -> Writer!Part],
             ~powerCut' => cpc = "reset"
      PROVE  CommitInv'
  <2>1. /\ cpc' = Writer!Boots /\ at' = 1 /\ bufc' = "none" /\ tries' = 0
           /\ crcs' = [s \in Writer!Idx |-> "none"]
        /\ busHeld' = FALSE /\ irqOff' = FALSE /\ planned' = FALSE /\ UNCHANGED <<app, copy, trouble>>
    BY <1>a DEF Writer!AfterReset
  <2>2. at' \in 1 .. Sectors + 1 /\ tries' \in 0 .. (IF ReadTries > SectorTries THEN ReadTries ELSE SectorTries)
    BY <2>1, <1>0
  <2>3. CASE cpc' = "idle" /\ (Writer!Whole(app, "old") \/ Writer!Whole(app, "new"))
    <3>1. Writer!Whole(app, "old")' \/ Writer!Whole(app, "new")'
      BY <2>1, <2>3 DEF Writer!Whole, Writer!Idx
    <3> QED BY <1>a, <2>1, <2>2, <2>3, <3>1 DEF Writer!Idx, Writer!Part
  <2>4. CASE cpc' = "dead" /\ ~Writer!Whole(app, "new")
    <3>1. ~powerCut' => Outlasted'  BY <1>a, <2>1, <2>4 DEF Writer!Whole, Outlasted
    <3> QED BY <1>a, <2>1, <2>2, <2>4, <3>1 DEF Writer!Idx, Writer!Part
  <2> QED BY <2>1, <2>3, <2>4 DEF Writer!Boots
<1>9. CASE Writer!ResetNow
  BY <1>9, <1>a DEF Writer!ResetNow, Writer!Idx, Writer!Part
<1>10. CASE Writer!PowerCut
  <2>1. staging' \in [Writer!Idx -> Writer!Part]  BY <1>10, <1>w DEF Writer!PowerCut
  <2> QED BY <1>10, <1>a, <2>1 DEF Writer!PowerCut
<1>11. CASE Writer!SelfTest
  <2>1. staging' \in [Writer!Idx -> Writer!Part]  BY <1>11, <1>w DEF Writer!SelfTest
  <2>2. /\ cpc = "idle"
        /\ UNCHANGED <<cpc, at, app, copy, crcs, bufc, tries, busHeld, irqOff, planned, trouble, powerCut>>
    BY <1>11 DEF Writer!SelfTest, Writer!held
  <2> QED BY <2>1, <2>2 DEF Writer!Whole, Writer!Idx, Writer!Part
<1>12. CASE UNCHANGED Writer!ocVars
  BY <1>12 DEF Writer!ocVars, Writer!Whole, Writer!Idx, Writer!Part, Outlasted
<1> QED BY <1>1, <1>2, <1>3, <1>4, <1>5, <1>6, <1>7, <1>8, <1>9, <1>10, <1>11, <1>12 DEF Writer!Next

\* ota_commit.c: in every behaviour, for any number of sectors and tries, a refused commit has erased nothing.
LEMMA CommitHolds == MCSpec => []CommitInv
<1>1. MCInit => CommitInv
  <2> SUFFICES ASSUME MCInit PROVE CommitInv
    OBVIOUS
  <2>1. /\ cpc = "idle" /\ at = 1
        /\ staging = [s \in Writer!Idx |-> "new"] /\ app = [s \in Writer!Idx |-> "old"] /\ copy = "none"
        /\ crcs = [s \in Writer!Idx |-> "none"] /\ bufc = "none" /\ tries = 0
        /\ busHeld = FALSE /\ irqOff = FALSE /\ planned = FALSE /\ trouble = 0 /\ powerCut = FALSE
    BY DEF MCInit, Writer!Init
  <2>2. Sectors \in Nat \ {0} /\ ReadTries \in Nat \ {0} /\ SectorTries \in Nat \ {0} /\ MaxTrouble \in Nat
    BY Assumptions DEF Writer!ConstantsOK
  <2>3. at \in 1 .. Sectors + 1 /\ tries \in 0 .. (IF ReadTries > SectorTries THEN ReadTries ELSE SectorTries)
        /\ trouble \in 0 .. MaxTrouble
    BY <2>1, <2>2
  <2>4. Writer!TypeOK  BY <2>1, <2>3 DEF Writer!TypeOK, Writer!Part
  <2>5. Writer!Whole(app, "old")  BY <2>1 DEF Writer!Whole
  <2> QED BY <2>1, <2>4, <2>5 DEF CommitInv
<1>2. CommitInv /\ [MCNext]_mcVars => CommitInv'
  <2>1. ASSUME [MCNext]_mcVars PROVE [Writer!Next]_(Writer!ocVars)
    BY <2>1 DEF MCNext, Rest, mcVars, commitVars, Writer!ocVars
  <2> QED BY <2>1, CommitStep
<1> QED BY <1>1, <1>2, PTL DEF MCSpec

\* ota_commit.c: a refused commit has erased nothing, and an unfinished one had more trouble than retries.
LEMMA CommitsTrue ==
    ASSUME CommitInv
    PROVE  Writer!RefusedUntouched /\ Writer!RetriesCover /\ Writer!HashedIsRead
BY DEF CommitInv, Outlasted, Writer!RefusedUntouched, Writer!RetriesCover, Writer!HashedIsRead

(***************************************************************************)
(* The flashing of an ESP32.  Commands keep their order, so when an answer   *)
(* to the MD5 is there, what is still on its way to the loader writes        *)
(* nothing; and nothing follows the one that was taken for the result.       *)
(***************************************************************************)
LateOps == {"md5", "end"}
Commands == [op : Rom!Phases, seq : 0 .. Blocks]
Answers == [op : Rom!Phases, ok : BOOLEAN, same : BOOLEAN]

AllLate == \A i \in 1 .. Len(toRom) : toRom[i].op \in LateOps
NoneLate ==
    /\ \A i \in 1 .. Len(toRom) : toRom[i].op \notin LateOps
    /\ \A i \in 1 .. Len(fromRom) : fromRom[i].op \notin LateOps
LateAfterLate == \A i, j \in 1 .. Len(toRom) : i < j /\ toRom[i].op \in LateOps => toRom[j].op \in LateOps
LateAnswers ==
    \A i \in 1 .. Len(fromRom) : fromRom[i].op \in LateOps => AllLate /\ (fromRom[i].same => Rom!Whole)
RomOld == \A b \in Rom!Idx : rom[b] = "old"

RomInv ==
    /\ Rom!TypeOK
    /\ ejob.phase = "idle" => toRom = <<>> /\ fromRom = <<>> /\ RomOld /\ ~ejob.syncOnly
    /\ LateAfterLate
    /\ ejob.phase \in (Rom!Phases \ LateOps) \cup {"idle"} =>
         NoneLate /\ ejob.pending # "verified" /\ ejob.result # "verified"
    /\ LateAnswers
    /\ ejob.pending = "verified" \/ (ejob.result = "verified" /\ ~ejob.syncOnly) => Rom!Whole /\ AllLate
    /\ ejob.syncOnly => /\ RomOld /\ ejob.phase \in {"sync", "magic", "done"}
                        /\ \A i \in 1 .. Len(toRom) : toRom[i].op \in {"sync", "magic"}

\* esp_rom_job.c: how one step of the job can end: it is over, it sends a command, or it sends the last one.
Ends(r) ==
    /\ ejob' = [ejob EXCEPT !.phase = "done", !.result = r] /\ UNCHANGED toRom
    /\ r \in Rom!Results /\ (r = "verified" => ejob.syncOnly \/ ejob.pending = "verified")
Sends(p, n, s) ==
    /\ ejob' = [ejob EXCEPT !.phase = p, !.attempt = n, !.seq = s]
    /\ toRom' = Append(toRom, [op |-> p, seq |-> s])
    /\ p \in Rom!Phases /\ n \in 0 .. SyncAttempts + DataAttempts + Md5Attempts /\ s \in 0 .. Blocks
    /\ ejob.phase \in Rom!Phases
    /\ p \notin LateOps => ejob.phase \notin LateOps
    /\ ejob.syncOnly => p \in {"sync", "magic"}
SendsEnd(r, ok) ==
    /\ ejob' = [ejob EXCEPT !.phase = "end", !.pending = r]
    /\ toRom' = Append(toRom, [op |-> "end", seq |-> ejob.seq])
    /\ ejob.phase = "md5" /\ r \in Rom!Results /\ (r = "verified" => ok)

\* esp_rom_job.c: the types of a flash and of its frames, and of what the loader holds.
LEMMA RomTypes ==
    RomInv => /\ toRom \in Seq(Commands) /\ fromRom \in Seq(Answers)
              /\ ejob \in [phase : Rom!Phases \cup {"idle", "done"},
                           attempt : 0 .. SyncAttempts + DataAttempts + Md5Attempts,
                           seq : 0 .. Blocks, result : Rom!Results, pending : Rom!Results, syncOnly : BOOLEAN]
              /\ rom \in [Rom!Idx -> {"old", "blank", "new"}] /\ romUp \in BOOLEAN
                 /\ romTrouble \in 0 .. MaxTrouble
BY DEF RomInv, Rom!TypeOK, Commands, Answers

\* esp_rom_job.c: a step of the job ends in one of these ways.
LEMMA JobOutcomes ==
    ASSUME RomInv, NEW r, NEW a, NEW readable, Rom!JobStep(r, a, readable), ejob.phase \in Rom!Phases
    PROVE  \/ \E res : Ends(res)
           \/ \E p, n, s : Sends(p, n, s)
           \/ \E res : SendsEnd(res, r = "ok" /\ a.same)
<1>0. /\ Blocks \in Nat \ {0} /\ SyncAttempts \in Nat \ {0} /\ DataAttempts \in Nat \ {0}
         /\ Md5Attempts \in Nat \ {0}
  BY Assumptions DEF Rom!ConstantsOK
<1>t. /\ ejob \in [phase : Rom!Phases \cup {"idle", "done"},
                   attempt : 0 .. SyncAttempts + DataAttempts + Md5Attempts,
                   seq : 0 .. Blocks, result : Rom!Results, pending : Rom!Results, syncOnly : BOOLEAN]
      /\ ejob.attempt \in 0 .. SyncAttempts + DataAttempts + Md5Attempts /\ ejob.seq \in 0 .. Blocks
  BY RomTypes
<1>s. ejob.syncOnly => ejob.phase \in {"sync", "magic"}  BY DEF RomInv, Rom!Phases
<1>f. ASSUME NEW res \in Rom!Results \ {"verified"}, Rom!Finish(res) PROVE Ends(res)
  BY <1>f DEF Rom!Finish, Ends
<1>g. ASSUME NEW p \in Rom!Phases, NEW n \in 0 .. SyncAttempts + DataAttempts + Md5Attempts,
                    NEW s \in 0 .. Blocks,
             Rom!Goto(p, n, s), p \notin LateOps => ejob.phase \notin LateOps,
             ejob.syncOnly => p \in {"sync", "magic"}
      PROVE  Sends(p, n, s)
  <2> DEFINE j == [ejob EXCEPT !.phase = p, !.attempt = n, !.seq = s]
  <2>1. ejob' = j /\ toRom' = Append(toRom, [op |-> j.phase, seq |-> j.seq])
    BY <1>g DEF Rom!Goto, Rom!SendCmd
  <2>2. j.phase = p /\ j.seq = s  BY <1>t
  <2> QED BY <1>g, <2>1, <2>2 DEF Sends
<1>e. ASSUME NEW res \in Rom!Results, Rom!SendEnd(res), ejob.phase = "md5",
                    res = "verified" => r = "ok" /\ a.same
      PROVE  SendsEnd(res, r = "ok" /\ a.same)
  <2> DEFINE j == [ejob EXCEPT !.phase = "end", !.pending = res]
  <2>1. ejob' = j /\ toRom' = Append(toRom, [op |-> j.phase, seq |-> j.seq])
    BY <1>e DEF Rom!SendEnd, Rom!SendCmd
  <2>2. j.phase = "end" /\ j.seq = ejob.seq  BY <1>t
  <2> QED BY <1>e, <2>1, <2>2 DEF SendsEnd
<1>r. {"no_sync", "no_begin", "no_read", "no_ack", "mismatch"} \subseteq Rom!Results \ {"verified"}
  BY DEF Rom!Results
<1>n. /\ \A n \in {SyncAttempts, DataAttempts, Md5Attempts} :
            Rom!Retries(n) => Rom!NextAttempt \in 0 .. SyncAttempts + DataAttempts + Md5Attempts
      /\ 1 \in 0 .. SyncAttempts + DataAttempts + Md5Attempts
  BY <1>0, <1>t DEF Rom!Retries, Rom!NextAttempt
<1>z. 0 \in 0 .. Blocks /\ Blocks \in 0 .. Blocks /\ (ejob.seq + 1 < Blocks => ejob.seq + 1 \in 0 .. Blocks)
  BY <1>0, <1>t
<1>1. CASE ejob.phase = "sync" /\ Rom!SyncStep(r)
  BY <1>1, <1>f, <1>g, <1>r, <1>n, <1>z, <1>t DEF Rom!SyncStep, Rom!Phases, LateOps
<1>2. CASE ejob.phase = "magic" /\ Rom!MagicStep
  <2>1. CASE ejob.syncOnly
    BY <1>2, <2>1 DEF Rom!MagicStep, Rom!Finish, Ends, Rom!Results
  <2>2. CASE ~ejob.syncOnly
    BY <1>2, <2>2, <1>g, <1>z, <1>t DEF Rom!MagicStep, Rom!Phases, LateOps
  <2> QED BY <2>1, <2>2
<1>3. CASE ejob.phase = "attach" /\ Rom!AttachStep
  BY <1>3, <1>g, <1>s, <1>z, <1>t DEF Rom!AttachStep, Rom!Phases, LateOps
<1>b. ASSUME NEW s \in 0 .. Blocks, Rom!SendBlock(s, readable), ejob.phase \in {"begin", "data"}
      PROVE  (\E res : Ends(res)) \/ \E p, n, q : Sends(p, n, q)
  BY <1>b, <1>f, <1>g, <1>n, <1>r, <1>s DEF Rom!SendBlock, Rom!Phases, LateOps
<1>4. CASE ejob.phase = "begin" /\ Rom!BeginStep(r, readable)
  BY <1>4, <1>b, <1>f, <1>r, <1>z DEF Rom!BeginStep
<1>5. CASE ejob.phase = "data" /\ Rom!DataStep(r, readable)
  <2>1. CASE r = "ok" /\ ejob.seq + 1 < Blocks
    BY <1>5, <2>1, <1>b, <1>z DEF Rom!DataStep
  <2>2. CASE r = "ok" /\ ~(ejob.seq + 1 < Blocks)
    BY <1>5, <2>2, <1>g, <1>n, <1>s, <1>z DEF Rom!DataStep, Rom!Phases, LateOps
  <2>3. CASE r # "ok"
    BY <1>5, <2>3, <1>f, <1>g, <1>n, <1>r, <1>s, <1>t DEF Rom!DataStep, Rom!Phases, LateOps
  <2> QED BY <2>1, <2>2, <2>3
<1>6. CASE ejob.phase = "md5" /\ Rom!Md5Step(r, a)
  <2>1. CASE r = "ok"
    BY <1>6, <2>1, <1>e, <1>f, <1>r DEF Rom!Md5Step, Rom!SumsAgree, Rom!Results
  <2>2. CASE r # "ok"
    BY <1>6, <2>2, <1>e, <1>g, <1>n, <1>s, <1>z DEF Rom!Md5Step, Rom!Phases, Rom!Results, LateOps
  <2> QED BY <2>1, <2>2
<1>7. CASE ejob.phase = "end" /\ Rom!Finish(ejob.pending)
  <2>1. Ends(ejob.pending)  BY <1>7, <1>t DEF Rom!Finish, Ends
  <2> QED BY <2>1
<1> QED BY <1>1, <1>2, <1>3, <1>4, <1>5, <1>6, <1>7 DEF Rom!JobStep

\* What is left of a queue of frames once its first one is gone, or with one more.
LEMMA TailFacts ==
    ASSUME NEW S, NEW q \in Seq(S), q # <<>>
    PROVE  /\ Tail(q) \in Seq(S) /\ Len(Tail(q)) = Len(q) - 1 /\ Len(q) \in Nat \ {0}
           /\ \A i \in 1 .. Len(Tail(q)) : i + 1 \in 1 .. Len(q) /\ Tail(q)[i] = q[i + 1]
           /\ Head(q) = q[1] /\ 1 \in 1 .. Len(q) /\ q[1] \in S
OBVIOUS

\* A queue of frames with one more.
LEMMA AppendFacts ==
    ASSUME NEW S, NEW q \in Seq(S), NEW e \in S
    PROVE  /\ Append(q, e) \in Seq(S) /\ Len(Append(q, e)) = Len(q) + 1 /\ Len(q) \in Nat
           /\ \A i \in 1 .. Len(q) : Append(q, e)[i] = q[i]
           /\ Append(q, e)[Len(q) + 1] = e
OBVIOUS

\* A command that is sent goes behind those on their way: an MD5 or the end after anything, another before them.
LEMMA SendKeepsOrder ==
    ASSUME RomInv, NEW c \in Commands, toRom' = Append(toRom, c),
           c.op \in LateOps \/ ~\E i \in 1 .. Len(toRom) : toRom[i].op \in LateOps
    PROVE  /\ toRom' \in Seq(Commands) /\ LateAfterLate'
           /\ AllLate /\ c.op \in LateOps => AllLate'
           /\ \A i \in 1 .. Len(toRom') : toRom'[i] = c \/ \E k \in 1 .. Len(toRom) : toRom'[i] = toRom[k]
<1>1. toRom \in Seq(Commands)  BY RomTypes
<1> DEFINE n == Len(toRom)
<1>2. /\ toRom' \in Seq(Commands) /\ Len(toRom') = n + 1 /\ n \in Nat
      /\ \A i \in 1 .. n : toRom'[i] = toRom[i]
      /\ toRom'[n + 1] = c
  BY <1>1, AppendFacts
<1> HIDE DEF n
<1>3. \A i \in 1 .. Len(toRom') : i \in 1 .. n \/ i = n + 1  BY <1>2
<1>4. \A i \in 1 .. Len(toRom') : toRom'[i] = c \/ \E k \in 1 .. n : toRom'[i] = toRom[k]
  BY <1>2, <1>3
<1>5. AllLate /\ c.op \in LateOps => AllLate'  BY <1>2, <1>3 DEF AllLate, n
<1>6. LateAfterLate'
  <2> SUFFICES ASSUME NEW i \in 1 .. Len(toRom'), NEW j \in 1 .. Len(toRom'), i < j, toRom'[i].op \in LateOps
               PROVE  toRom'[j].op \in LateOps
    BY DEF LateAfterLate
  <2>1. i \in 1 .. n  BY <1>2
  <2>2. toRom[i].op \in LateOps  BY <1>2, <2>1
  <2>3. CASE j = n + 1
    BY <1>2, <2>1, <2>2, <2>3 DEF n
  <2>4. CASE j \in 1 .. n
    BY <1>2, <2>1, <2>2, <2>4 DEF RomInv, LateAfterLate, n
  <2> QED BY <1>3, <2>3, <2>4
<1> QED BY <1>2, <1>4, <1>5, <1>6 DEF n

\* What came in was sent before.
Received ==
    /\ fromRom' \in Seq(Answers)
    /\ \A j \in 1 .. Len(fromRom') : \E i \in 1 .. Len(fromRom) : fromRom'[j] = fromRom[i]

\* What is on its way was sent before.
SentBefore == \A j \in 1 .. Len(toRom') : \E i \in 1 .. Len(toRom) : toRom'[j] = toRom[i]

\* An answer that was there before keeps its meaning.
LEMMA ReceivedKeeps ==
    ASSUME RomInv, Received, UNCHANGED rom, AllLate => AllLate' PROVE LateAnswers' /\ Rom!Whole' = Rom!Whole
<1>1. Rom!Whole' = Rom!Whole  BY DEF Rom!Whole
<1>2. LateAnswers'
  <2> SUFFICES ASSUME NEW j \in 1 .. Len(fromRom'), fromRom'[j].op \in LateOps
               PROVE  AllLate' /\ (fromRom'[j].same => Rom!Whole')
    BY DEF LateAnswers
  <2>1. PICK i \in 1 .. Len(fromRom) : fromRom'[j] = fromRom[i]
    BY DEF Received
  <2> QED BY <1>1, <2>1 DEF RomInv, LateAnswers
<1> QED BY <1>1, <1>2

\* esp_rom_job.c: each outcome of a step, with an answer taken from the UART or without one.
LEMMA JobKeeps ==
    ASSUME RomInv, Received, UNCHANGED <<rom, romUp>>, romTrouble' \in 0 .. MaxTrouble, NEW ok,
           ok => AllLate /\ Rom!Whole,
           ejob.phase \in Rom!Phases,
           (\E r : Ends(r)) \/ (\E p, n, s : Sends(p, n, s)) \/ (\E r : SendsEnd(r, ok))
    PROVE  RomInv'
<1>t. /\ toRom \in Seq(Commands) /\ fromRom \in Seq(Answers)
      /\ ejob \in [phase : Rom!Phases \cup {"idle", "done"},
                   attempt : 0 .. SyncAttempts + DataAttempts + Md5Attempts,
                   seq : 0 .. Blocks, result : Rom!Results, pending : Rom!Results, syncOnly : BOOLEAN]
      /\ rom \in [Rom!Idx -> {"old", "blank", "new"}] /\ romUp \in BOOLEAN
  BY RomTypes
<1>y. ASSUME ejob' \in [phase : Rom!Phases \cup {"idle", "done"},
                        attempt : 0 .. SyncAttempts + DataAttempts + Md5Attempts,
                        seq : 0 .. Blocks, result : Rom!Results, pending : Rom!Results, syncOnly : BOOLEAN],
             toRom' \in Seq(Commands)
      PROVE  Rom!TypeOK'
  BY <1>y, <1>t DEF Rom!TypeOK, Received, Commands, Answers, Rom!Idx
<1>v. ejob.pending = "verified" \/ (ejob.result = "verified" /\ ~ejob.syncOnly) => Rom!Whole /\ AllLate
  BY DEF RomInv
<1>w. RomOld' = RomOld  BY DEF RomOld
<1>o. ejob.syncOnly => RomOld /\ ejob.phase \in {"sync", "magic", "done"}
                       /\ \A i \in 1 .. Len(toRom) : toRom[i].op \in {"sync", "magic"}
  BY DEF RomInv
<1>p. {"md5", "end"} \subseteq Rom!Phases /\ "idle" \notin Rom!Phases /\ "done" \notin Rom!Phases
      /\ LateOps = {"md5", "end"}
  BY DEF Rom!Phases, LateOps
<1>e. ejob.phase \in Rom!Phases \ LateOps => NoneLate /\ ejob.pending # "verified" /\ ejob.result # "verified"
  BY DEF RomInv
<1>1. ASSUME NEW r, Ends(r) PROVE RomInv'
  <2>1. /\ ejob'.phase = "done" /\ ejob'.result = r /\ ejob'.pending = ejob.pending
           /\ ejob'.syncOnly = ejob.syncOnly
        /\ toRom' = toRom /\ (r = "verified" => ejob.syncOnly \/ ejob.pending = "verified")
        /\ ejob' \in [phase : Rom!Phases \cup {"idle", "done"},
                      attempt : 0 .. SyncAttempts + DataAttempts + Md5Attempts,
                      seq : 0 .. Blocks, result : Rom!Results, pending : Rom!Results, syncOnly : BOOLEAN]
    BY <1>1, <1>t DEF Ends
  <2>2. AllLate' = AllLate /\ LateAfterLate'  BY <2>1 DEF AllLate, LateAfterLate, RomInv
  <2>3. LateAnswers' /\ Rom!Whole' = Rom!Whole  BY <2>2, ReceivedKeeps
  <2>4. Rom!TypeOK'  BY <2>1, <1>t, <1>y
  <2>5. ejob'.pending = "verified" \/ (ejob'.result = "verified" /\ ~ejob'.syncOnly) => Rom!Whole /\ AllLate
    BY <2>1, <1>v
  <2> QED BY <2>1, <2>2, <2>3, <2>4, <2>5, <1>o, <1>p, <1>w DEF RomInv
<1>2. ASSUME NEW p, NEW n, NEW s, Sends(p, n, s) PROVE RomInv'
  <2>1. /\ ejob'.phase = p /\ ejob'.result = ejob.result /\ ejob'.pending = ejob.pending
        /\ ejob'.syncOnly = ejob.syncOnly /\ p \in Rom!Phases
        /\ ejob' \in [phase : Rom!Phases \cup {"idle", "done"},
                      attempt : 0 .. SyncAttempts + DataAttempts + Md5Attempts,
                      seq : 0 .. Blocks, result : Rom!Results, pending : Rom!Results, syncOnly : BOOLEAN]
    BY <1>2, <1>t DEF Sends
  <2> DEFINE c == [op |-> p, seq |-> s]
  <2>2. c \in Commands /\ c.op = p /\ toRom' = Append(toRom, c)  BY <1>2 DEF Sends, Commands
  <2>3. p \notin LateOps => ejob.phase \in Rom!Phases \ LateOps  BY <1>2 DEF Sends
  <2> HIDE DEF c
  <2>4. p \in LateOps \/ ~\E i \in 1 .. Len(toRom) : toRom[i].op \in LateOps
    BY <2>3, <1>e DEF NoneLate
  <2>5. /\ toRom' \in Seq(Commands) /\ LateAfterLate'
        /\ AllLate /\ p \in LateOps => AllLate'
        /\ \A i \in 1 .. Len(toRom') : toRom'[i] = c \/ \E k \in 1 .. Len(toRom) : toRom'[i] = toRom[k]
    BY <2>2, <2>4, SendKeepsOrder
  <2>6. CASE p \in LateOps
    <3>1. LateAnswers' /\ Rom!Whole' = Rom!Whole  BY <2>5, <2>6, ReceivedKeeps
    <3>2. ~ejob.syncOnly  BY <1>2, <1>p, <2>6 DEF Sends
    <3> QED BY <2>1, <2>5, <2>6, <3>1, <3>2, <1>p, <1>v, <1>y DEF RomInv
  <2>7. CASE p \notin LateOps
    <3>1. NoneLate /\ ejob.pending # "verified" /\ ejob.result # "verified"  BY <2>3, <2>7, <1>e
    <3>2. NoneLate'
      <4>1. \A i \in 1 .. Len(toRom') : toRom'[i].op \notin LateOps
        BY <2>2, <2>5, <2>7, <3>1 DEF NoneLate
      <4>2. \A i \in 1 .. Len(fromRom') : fromRom'[i].op \notin LateOps
        BY <3>1 DEF NoneLate, Received
      <4> QED BY <4>1, <4>2 DEF NoneLate
    <3>3. LateAnswers'  BY <3>2 DEF NoneLate, LateAnswers
    <3>4. ejob.syncOnly => RomOld' /\ p \in {"sync", "magic"}
                           /\ \A i \in 1 .. Len(toRom') : toRom'[i].op \in {"sync", "magic"}
      <4>1. ejob.syncOnly => p \in {"sync", "magic"}  BY <1>2 DEF Sends
      <4> QED BY <2>2, <2>5, <4>1, <1>o, <1>w
    <3> QED BY <2>1, <2>5, <2>7, <3>1, <3>2, <3>3, <3>4, <1>p, <1>y DEF RomInv
  <2> QED BY <2>6, <2>7
<1>3. ASSUME NEW r, SendsEnd(r, ok) PROVE RomInv'
  <2>1. /\ ejob'.phase = "end" /\ ejob'.result = ejob.result /\ ejob'.pending = r
        /\ ejob'.syncOnly = ejob.syncOnly /\ ejob.phase = "md5" /\ (r = "verified" => ok)
        /\ ejob' \in [phase : Rom!Phases \cup {"idle", "done"},
                      attempt : 0 .. SyncAttempts + DataAttempts + Md5Attempts,
                      seq : 0 .. Blocks, result : Rom!Results, pending : Rom!Results, syncOnly : BOOLEAN]
    BY <1>3, <1>t, <1>p DEF SendsEnd
  <2> DEFINE c == [op |-> "end", seq |-> ejob.seq]
  <2>2. c \in Commands /\ c.op \in LateOps /\ toRom' = Append(toRom, c)
    BY <1>3, <1>p, <1>t DEF SendsEnd, Commands
  <2> HIDE DEF c
  <2>3. toRom' \in Seq(Commands) /\ LateAfterLate' /\ (AllLate => AllLate')
    BY <2>2, SendKeepsOrder
  <2>4. LateAnswers' /\ Rom!Whole' = Rom!Whole  BY <2>3, ReceivedKeeps
  <2>5. ejob'.pending = "verified" \/ (ejob'.result = "verified" /\ ~ejob'.syncOnly) => Rom!Whole /\ AllLate
    BY <2>1, <1>v
  <2>6. ~ejob.syncOnly  BY <1>o, <2>1
  <2> QED BY <2>1, <2>3, <2>4, <2>5, <2>6, <1>p, <1>y DEF RomInv
<1> QED BY <1>1, <1>2, <1>3

\* esp_rom_job.c and the loader: every step of the job, of the C3 and of the UART.
LEMMA RomStep == ASSUME RomInv, [Rom!Next]_(Rom!erVars) PROVE RomInv'
<1>0. MaxTrouble \in Nat /\ Blocks \in Nat \ {0} /\ SyncAttempts \in Nat \ {0} /\ DataAttempts \in Nat \ {0}
      /\ Md5Attempts \in Nat \ {0}
  BY Assumptions DEF Rom!ConstantsOK
<1>t. /\ toRom \in Seq(Commands) /\ fromRom \in Seq(Answers)
      /\ ejob \in [phase : Rom!Phases \cup {"idle", "done"},
                   attempt : 0 .. SyncAttempts + DataAttempts + Md5Attempts,
                   seq : 0 .. Blocks, result : Rom!Results, pending : Rom!Results, syncOnly : BOOLEAN]
      /\ rom \in [Rom!Idx -> {"old", "blank", "new"}] /\ romUp \in BOOLEAN /\ romTrouble \in 0 .. MaxTrouble
  BY RomTypes
<1>n. Rom!Trouble => romTrouble' \in 0 .. MaxTrouble  BY <1>0, <1>t DEF Rom!Trouble
<1>p. {"sync", "magic", "begin", "data", "md5", "end"} \subseteq Rom!Phases /\ "idle" \notin Rom!Phases
      /\ "done" \notin Rom!Phases /\ LateOps = {"md5", "end"}
  BY DEF Rom!Phases, LateOps
\* What a step of the loader or the UART keeps of the job's part.
<1>q. ASSUME UNCHANGED ejob, toRom' \in Seq(Commands), Received \/ LateAnswers', ejob.phase # "idle",
             fromRom' \in Seq(Answers),
             rom' \in [Rom!Idx -> {"old", "blank", "new"}], romUp' \in BOOLEAN, romTrouble' \in 0 .. MaxTrouble,
             SentBefore,
             LateAfterLate', LateAnswers', NoneLate => NoneLate',
             AllLate /\ Rom!Whole => Rom!Whole',
             RomOld /\ ejob.syncOnly => RomOld'
      PROVE  RomInv'
  <2>1. Rom!TypeOK'  BY <1>q, <1>t DEF Rom!TypeOK, Commands, Answers, Rom!Idx
  <2>2. AllLate => AllLate'  BY <1>q DEF AllLate, SentBefore
  <2>3. ejob.syncOnly => RomOld /\ ejob.phase \in {"sync", "magic", "done"}
                         /\ \A i \in 1 .. Len(toRom) : toRom[i].op \in {"sync", "magic"}
    BY DEF RomInv
  <2>4. ejob.syncOnly => \A j \in 1 .. Len(toRom') : toRom'[j].op \in {"sync", "magic"}
    BY <1>q, <2>3 DEF SentBefore
  <2>5. ejob.phase \in (Rom!Phases \ LateOps) \cup {"idle"} =>
          NoneLate /\ ejob.pending # "verified" /\ ejob.result # "verified"
    BY DEF RomInv
  <2>6. ejob.pending = "verified" \/ (ejob.result = "verified" /\ ~ejob.syncOnly) => Rom!Whole /\ AllLate
    BY DEF RomInv
  <2> QED BY <1>q, <2>1, <2>2, <2>3, <2>4, <2>5, <2>6 DEF RomInv
<1>i. ejob.phase = "idle" => toRom = <<>> /\ fromRom = <<>>  BY DEF RomInv
\* The first command is gone.
<1>h. ASSUME toRom # <<>>, toRom' = Tail(toRom)
      PROVE  /\ toRom' \in Seq(Commands) /\ toRom[1] \in Commands /\ Head(toRom) = toRom[1]
                /\ 1 \in 1 .. Len(toRom)
             /\ SentBefore
             /\ LateAfterLate' /\ (AllLate => AllLate')
             /\ toRom[1].op \in LateOps => AllLate
             /\ ejob.phase # "idle"
  <2>1. /\ toRom' \in Seq(Commands) /\ Len(toRom') = Len(toRom) - 1 /\ Len(toRom) \in Nat \ {0}
        /\ \A i \in 1 .. Len(toRom') : i + 1 \in 1 .. Len(toRom) /\ toRom'[i] = toRom[i + 1]
        /\ Head(toRom) = toRom[1] /\ 1 \in 1 .. Len(toRom) /\ toRom[1] \in Commands
    BY <1>h, <1>t, TailFacts
  <2>2. LateAfterLate  BY DEF RomInv
  <2>3. LateAfterLate'
    <3> SUFFICES ASSUME NEW i \in 1 .. Len(toRom'), NEW j \in 1 .. Len(toRom'), i < j, toRom'[i].op \in LateOps
                 PROVE  toRom'[j].op \in LateOps
      BY DEF LateAfterLate
    <3>1. i + 1 \in 1 .. Len(toRom) /\ j + 1 \in 1 .. Len(toRom) /\ i + 1 < j + 1  BY <2>1
    <3> QED BY <2>1, <2>2, <3>1 DEF LateAfterLate
  <2>4. toRom[1].op \in LateOps => AllLate
    <3> SUFFICES ASSUME toRom[1].op \in LateOps, NEW i \in 1 .. Len(toRom) PROVE toRom[i].op \in LateOps
      BY DEF AllLate
    <3>1. i = 1 \/ 1 < i  BY <2>1
    <3> QED BY <2>1, <2>2, <3>1 DEF LateAfterLate
  <2>5. AllLate => AllLate'  BY <2>1 DEF AllLate
  <2>6. SentBefore  BY <2>1 DEF SentBefore
  <2> QED BY <1>h, <1>i, <2>1, <2>3, <2>4, <2>5, <2>6
\* The first answer is gone.
<1>a. ASSUME fromRom # <<>>, fromRom' = Tail(fromRom)
      PROVE  Received /\ Head(fromRom) = fromRom[1] /\ 1 \in 1 .. Len(fromRom) /\ ejob.phase # "idle"
  <2>1. /\ fromRom' \in Seq(Answers) /\ Len(fromRom') = Len(fromRom) - 1 /\ Len(fromRom) \in Nat \ {0}
        /\ \A i \in 1 .. Len(fromRom') : i + 1 \in 1 .. Len(fromRom) /\ fromRom'[i] = fromRom[i + 1]
        /\ Head(fromRom) = fromRom[1] /\ 1 \in 1 .. Len(fromRom)
    BY <1>a, <1>t, TailFacts
  <2> QED BY <1>a, <1>i, <2>1 DEF Received
<1>e. ASSUME UNCHANGED fromRom PROVE Received
  BY <1>e, <1>t DEF Received
<1>1. ASSUME NEW s \in BOOLEAN, Rom!Start(s) PROVE RomInv'
  <2> DEFINE c == [op |-> "sync", seq |-> 0]
             j == [phase |-> "sync", attempt |-> 1, seq |-> 0, result |-> "none", pending |-> "none",
                    syncOnly |-> s]
  <2>1. ejob.phase = "idle" /\ ejob' = j /\ toRom' = <<c>> /\ fromRom' = <<>> /\ UNCHANGED <<rom, romUp,
                                                                                             romTrouble>>
    BY <1>1 DEF Rom!Start
  <2>2. 1 \in 0 .. SyncAttempts + DataAttempts + Md5Attempts /\ 0 \in 0 .. Blocks  BY <1>0
  <2>3. j \in [phase : Rom!Phases \cup {"idle", "done"},
               attempt : 0 .. SyncAttempts + DataAttempts + Md5Attempts,
               seq : 0 .. Blocks, result : Rom!Results, pending : Rom!Results, syncOnly : BOOLEAN]
    BY <2>2, <1>p DEF Rom!Results
  <2>4. c \in Commands /\ c.op = "sync"  BY <2>2, <1>p DEF Commands
  <2>5. /\ j.phase = "sync" /\ j.pending = "none" /\ j.result = "none"  OBVIOUS
  <2> HIDE DEF c, j
  <2>6. toRom' \in Seq(Commands) /\ Len(toRom') = 1 /\ toRom'[1] = c /\ fromRom' \in Seq(Answers)
        /\ Len(fromRom') = 0
    BY <2>1, <2>4
  <2>7. \A i \in 1 .. Len(toRom') : toRom'[i] = c  BY <2>6
  <2>8. \A i \in 1 .. Len(fromRom') : FALSE  BY <2>6
  <2>9. Rom!TypeOK'  BY <2>1, <2>3, <2>6, <1>t DEF Rom!TypeOK, Commands, Answers, Rom!Idx
  <2>10. RomOld'  BY <2>1 DEF RomInv, RomOld
  <2>11. LateAfterLate' /\ NoneLate' /\ LateAnswers'
    BY <2>4, <2>7, <2>8, <1>p DEF LateAfterLate, NoneLate, LateAnswers
  <2> QED BY <2>1, <2>4, <2>5, <2>7, <2>9, <2>10, <2>11, <1>p DEF RomInv
<1>2. CASE Rom!Reply
  <2> DEFINE a == Head(fromRom)
  <2>1. ejob.phase \in Rom!Phases /\ fromRom # <<>> /\ fromRom' = Tail(fromRom) /\ UNCHANGED <<rom, romUp>>
    BY <1>2 DEF Rom!Reply
  <2>2. Received /\ a = fromRom[1] /\ 1 \in 1 .. Len(fromRom)  BY <2>1, <1>a
  <2>3. CASE /\ Rom!Answers(a)
             /\ \E readable \in BOOLEAN :
                   /\ Rom!JobStep(IF a.ok THEN "ok" ELSE "refused", a, readable)
                   /\ IF readable THEN UNCHANGED romTrouble ELSE Rom!Trouble
    <3>1. PICK readable \in BOOLEAN :
            /\ Rom!JobStep(IF a.ok THEN "ok" ELSE "refused", a, readable)
            /\ IF readable THEN UNCHANGED romTrouble ELSE Rom!Trouble
      BY <2>3
    <3> DEFINE r == IF a.ok THEN "ok" ELSE "refused"
               ok == r = "ok" /\ a.same /\ ejob.phase = "md5"
    <3>2. (\E res : Ends(res)) \/ (\E p, n, s : Sends(p, n, s)) \/ (\E res : SendsEnd(res, r = "ok" /\ a.same))
      BY <2>1, <3>1, JobOutcomes
    <3>3. \A res : SendsEnd(res, r = "ok" /\ a.same) => SendsEnd(res, ok)  BY DEF SendsEnd
    <3>4. ok => AllLate /\ Rom!Whole  BY <2>2, <2>3, <1>p DEF RomInv, LateAnswers, Rom!Answers
    <3>5. romTrouble' \in 0 .. MaxTrouble  BY <3>1, <1>n, <1>t
    <3> HIDE DEF r, ok, a
    <3> QED BY <2>1, <2>2, <3>2, <3>3, <3>4, <3>5, JobKeeps
  <2>4. CASE ~Rom!Answers(a) /\ UNCHANGED <<ejob, toRom, romTrouble>>
    <3>1. LateAnswers' /\ Rom!Whole' = Rom!Whole  BY <2>1, <2>2, <2>4, ReceivedKeeps DEF AllLate
    <3>2. NoneLate => NoneLate'  BY <2>2, <2>4 DEF NoneLate, Received
    <3>3. ejob.phase # "idle"  BY <2>1, <1>p
    <3>4. LateAfterLate'  BY <2>4 DEF RomInv, LateAfterLate
    <3> QED BY <2>1, <2>2, <2>4, <3>1, <3>2, <3>3, <3>4, <1>q, <1>t DEF Received, RomOld, SentBefore
  <2> QED BY <1>2, <2>3, <2>4 DEF Rom!Reply
<1>3. CASE Rom!Timeout
  <2> DEFINE a == [same |-> FALSE]
  <2>1. /\ ejob.phase \in Rom!Phases /\ Rom!JobStep("late", a, TRUE) /\ UNCHANGED <<fromRom, rom, romUp>>
        /\ IF toRom = <<>> /\ fromRom = <<>> THEN UNCHANGED romTrouble ELSE Rom!Trouble
    BY <1>3 DEF Rom!Timeout
  <2>2. (\E res : Ends(res)) \/ (\E p, n, s : Sends(p, n, s)) \/ (\E res : SendsEnd(res, "late" = "ok"
        /\ a.same))
    BY <2>1, JobOutcomes
  <2>3. romTrouble' \in 0 .. MaxTrouble  BY <2>1, <1>n, <1>t
  <2>4. \A res : SendsEnd(res, "late" = "ok" /\ a.same) => SendsEnd(res, FALSE)  BY DEF SendsEnd
  <2> HIDE DEF a
  <2> QED BY <2>1, <2>2, <2>3, <2>4, <1>e, JobKeeps
<1>4. CASE Rom!RomServes
  <2> DEFINE c == Head(toRom)
             e(ok) == [op |-> c.op, ok |-> ok, same |-> Rom!Whole]
  <2>1. toRom # <<>> /\ toRom' = Tail(toRom) /\ UNCHANGED <<ejob, romUp>>
    BY <1>4 DEF Rom!RomServes
  <2>2. PICK ok \in BOOLEAN :
          /\ fromRom' = Append(fromRom, e(ok)) /\ romTrouble' \in 0 .. MaxTrouble
          /\ \/ ok /\ rom' = CASE c.op = "begin" -> [b \in Rom!Idx |-> "blank"]
                               [] c.op = "data" -> [rom EXCEPT ![c.seq] = "new"]
                               [] OTHER -> rom
             \/ rom' = rom
    <3>1. \/ fromRom' = Append(fromRom, e(TRUE)) /\ UNCHANGED romTrouble
             /\ rom' = CASE c.op = "begin" -> [b \in Rom!Idx |-> "blank"]
                         [] c.op = "data" -> [rom EXCEPT ![c.seq] = "new"]
                         [] OTHER -> rom
          \/ Rom!Trouble /\ fromRom' = Append(fromRom, e(FALSE)) /\ rom' = rom
      BY <1>4 DEF Rom!RomServes
    <3> QED BY <3>1, <1>n, <1>t
  <2>3. c = toRom[1] /\ c \in Commands /\ 1 \in 1 .. Len(toRom) /\ LateAfterLate' /\ (AllLate => AllLate')
        /\ (c.op \in LateOps => AllLate) /\ ejob.phase # "idle" /\ toRom' \in Seq(Commands)
        /\ SentBefore
    BY <2>1, <1>h
  <2>4. e(ok) \in Answers /\ e(ok).op = c.op /\ e(ok).same = Rom!Whole
    BY <2>3 DEF Commands, Answers, Rom!Whole
  <2>5. rom' \in [Rom!Idx -> {"old", "blank", "new"}]  BY <2>2, <1>t
  <2>6. c.op \notin {"begin", "data"} => rom' = rom  BY <2>2
  <2> DEFINE n == Len(fromRom)
  <2> HIDE DEF c, e
  <2>7. /\ fromRom' \in Seq(Answers) /\ Len(fromRom') = n + 1 /\ n \in Nat
        /\ \A i \in 1 .. n : fromRom'[i] = fromRom[i]
        /\ fromRom'[n + 1] = e(ok)
    BY <2>2, <2>4, <1>t, AppendFacts
  <2>8. \A i \in 1 .. Len(fromRom') : i \in 1 .. n \/ i = n + 1  BY <2>7
  <2>9. AllLate => c.op \in LateOps  BY <2>3 DEF AllLate
  <2>10. AllLate => rom' = rom /\ Rom!Whole' = Rom!Whole  BY <2>6, <2>9, <1>p DEF Rom!Whole
  <2>11. LateAnswers'
    <3> SUFFICES ASSUME NEW i \in 1 .. Len(fromRom'), fromRom'[i].op \in LateOps
                 PROVE  AllLate' /\ (fromRom'[i].same => Rom!Whole')
      BY DEF LateAnswers
    <3>1. CASE i \in 1 .. n
      BY <2>3, <2>7, <2>10, <3>1 DEF RomInv, LateAnswers, n
    <3>2. CASE i = n + 1
      BY <2>3, <2>4, <2>7, <2>10, <3>2
    <3> QED BY <2>8, <3>1, <3>2
  <2>12. NoneLate => NoneLate'
    <3> SUFFICES ASSUME NoneLate PROVE NoneLate'
      OBVIOUS
    <3>1. \A i \in 1 .. Len(toRom') : toRom'[i].op \notin LateOps
      BY <2>3 DEF NoneLate, SentBefore
    <3>2. c.op \notin LateOps  BY <2>3 DEF NoneLate
    <3>3. \A i \in 1 .. Len(fromRom') : fromRom'[i].op \notin LateOps
      BY <2>4, <2>7, <2>8, <3>2 DEF NoneLate, n
    <3> QED BY <3>1, <3>3 DEF NoneLate
  <2>13. RomOld /\ ejob.syncOnly => RomOld'
    <3> SUFFICES ASSUME RomOld, ejob.syncOnly PROVE RomOld'
      OBVIOUS
    <3>1. c.op \in {"sync", "magic"}  BY <2>3 DEF RomInv
    <3>2. rom' = rom  BY <2>6, <3>1
    <3> QED BY <3>2 DEF RomOld
  <2> QED BY <2>1, <2>2, <2>3, <2>5, <2>7, <2>10, <2>11, <2>12, <2>13, <1>q, <1>t
<1>5. CASE Rom!LoseCommand
  <2>1. toRom # <<>> /\ toRom' = Tail(toRom) /\ UNCHANGED <<ejob, fromRom, rom, romUp>>
        /\ romTrouble' \in 0 .. MaxTrouble
    BY <1>5, <1>n, <1>t DEF Rom!LoseCommand
  <2>2. /\ toRom' \in Seq(Commands) /\ LateAfterLate' /\ (AllLate => AllLate') /\ ejob.phase # "idle"
        /\ SentBefore
    BY <2>1, <1>h
  <2>3. LateAnswers' /\ Rom!Whole' = Rom!Whole  BY <2>1, <2>2, <1>e, ReceivedKeeps
  <2>4. NoneLate => NoneLate'  BY <2>1, <2>2 DEF NoneLate, SentBefore
  <2> QED BY <2>1, <2>2, <2>3, <2>4, <1>q, <1>t DEF RomOld
<1>6. CASE Rom!LoseAnswer
  <2>1. fromRom # <<>> /\ fromRom' = Tail(fromRom) /\ UNCHANGED <<ejob, toRom, rom, romUp>>
        /\ romTrouble' \in 0 .. MaxTrouble
    BY <1>6, <1>n DEF Rom!LoseAnswer
  <2>2. Received /\ ejob.phase # "idle"  BY <2>1, <1>a
  <2>3. LateAnswers' /\ Rom!Whole' = Rom!Whole  BY <2>1, <2>2, ReceivedKeeps DEF AllLate
  <2>4. NoneLate => NoneLate'  BY <2>1, <2>2 DEF NoneLate, Received
  <2>5. LateAfterLate'  BY <2>1 DEF RomInv, LateAfterLate
  <2> QED BY <2>1, <2>2, <2>3, <2>4, <2>5, <1>q, <1>t DEF Received, RomOld, SentBefore
<1>7. CASE Rom!LoaderGone
  <2>1. fromRom' = <<>> /\ UNCHANGED <<ejob, toRom, rom>> /\ romTrouble' \in 0 .. MaxTrouble /\ romUp' = FALSE
    BY <1>7, <1>n DEF Rom!LoaderGone
  <2>2. fromRom' \in Seq(Answers) /\ \A i \in 1 .. Len(fromRom') : FALSE  BY <2>1
  <2>3. LateAnswers' /\ (NoneLate => NoneLate')  BY <2>1, <2>2 DEF LateAnswers, NoneLate
  <2>4. LateAfterLate'  BY <2>1 DEF RomInv, LateAfterLate
  <2>5. Rom!Whole' = Rom!Whole /\ RomOld' = RomOld  BY <2>1 DEF Rom!Whole, RomOld
  <2>6. CASE ejob.phase # "idle"
    BY <2>1, <2>2, <2>3, <2>4, <2>5, <2>6, <1>q, <1>t DEF SentBefore
  <2>7. CASE ejob.phase = "idle"
    <3>1. Rom!TypeOK'  BY <2>1, <2>2, <1>t DEF Rom!TypeOK, Commands, Answers, Rom!Idx
    <3> QED BY <2>1, <2>3, <2>4, <2>5, <2>7, <3>1 DEF RomInv
  <2> QED BY <2>6, <2>7
<1>8. CASE UNCHANGED Rom!erVars
  BY <1>8 DEF Rom!erVars, RomInv, Rom!TypeOK, RomOld, LateAfterLate, NoneLate, LateAnswers, AllLate,
     Rom!Whole, Rom!Idx
<1> QED BY <1>1, <1>2, <1>3, <1>4, <1>5, <1>6, <1>7, <1>8 DEF Rom!Next, Rom!StartFlash, Rom!StartSync

\* esp_rom_job.c: in every behaviour an ESP32 that is reported verified holds the image, whatever was
\* lost, damaged or
\* late, for any number of blocks and attempts.
LEMMA RomHolds == MCSpec => []RomInv
<1>1. MCInit => RomInv
  <2> SUFFICES ASSUME MCInit PROVE RomInv
    OBVIOUS
  <2>1. /\ ejob = [phase |-> "idle", attempt |-> 0, seq |-> 0, result |-> "none", pending |-> "none",
                    syncOnly |-> FALSE]
        /\ toRom = <<>> /\ fromRom = <<>> /\ rom = [b \in Rom!Idx |-> "old"] /\ romUp \in BOOLEAN
           /\ romTrouble = 0
    BY DEF MCInit, Rom!Init
  <2>2. MaxTrouble \in Nat /\ Blocks \in Nat \ {0} /\ SyncAttempts \in Nat \ {0} /\ DataAttempts \in Nat \ {0}
        /\ Md5Attempts \in Nat \ {0}
    BY Assumptions DEF Rom!ConstantsOK
  <2>3. 0 \in 0 .. SyncAttempts + DataAttempts + Md5Attempts /\ 0 \in 0 .. Blocks
        /\ romTrouble \in 0 .. MaxTrouble
    BY <2>1, <2>2
  <2>4. Rom!TypeOK  BY <2>1, <2>3 DEF Rom!TypeOK, Rom!Results
  <2>5. RomOld /\ LateAfterLate /\ NoneLate /\ LateAnswers
    BY <2>1 DEF RomOld, LateAfterLate, NoneLate, LateAnswers
  <2> QED BY <2>1, <2>4, <2>5 DEF RomInv
<1>2. RomInv /\ [MCNext]_mcVars => RomInv'
  <2>1. ASSUME [MCNext]_mcVars PROVE [Rom!Next]_(Rom!erVars)
    BY <2>1 DEF MCNext, Rest, mcVars, romVars, Rom!erVars
  <2> QED BY <2>1, RomStep
<1> QED BY <1>1, <1>2, PTL DEF MCSpec

\* esp_rom_job.c: an ESP32 that is reported verified holds the image.
LEMMA VerifiedTrue == RomInv => Rom!VerifiedIsWhole
BY DEF RomInv, Rom!VerifiedIsWhole, RomOld

(***************************************************************************)
(* The update of the bridge.  What may still be booted is whole: the slot    *)
(* that an update fills is neither the one that runs nor one to go back to.  *)
(***************************************************************************)
SlotNames == {"A", "B"}
BootTypes ==
    /\ slot \in [SlotNames -> Seq(Nat)] /\ running \in SlotNames /\ boot \in SlotNames
    /\ img \in {"valid", "trial"} /\ s_pending \in BOOLEAN
    /\ otaseq \in [active : BOOLEAN, next : 0 .. Chunks, last : 0 .. Chunks + 1]
SlotsWhole ==
    /\ BootTypes
    /\ slot[running] \in {Bridge!Old, Bridge!Whole}
    /\ boot # running => slot[boot] = Bridge!Whole
    /\ s_pending => boot = running /\ slot[Bridge!Other(running)] \in {Bridge!Old, Bridge!Whole}
    /\ img = "trial" <=> s_pending
    /\ otaseq.active => boot = running /\ ~s_pending

\* The new version runs, and what a restart may go back to is that version too.
Kept ==
    /\ Bridge!Runs(running) = 2
    /\ img = "trial" => Bridge!Runs(Bridge!Other(running)) = 2

BridgeInv ==
    /\ SlotsWhole
    /\ o_state \in {"idle", "begin", "data", "end", "reboot", "wait"} /\ o_off \in 0 .. Chunks
    /\ o_tries \in 0 .. OtaTries /\ o_status \in {"idle", "failed", "retry", "waiting", "updated"}
    /\ o_resend \in BOOLEAN /\ o_failed \in BOOLEAN /\ seen_new \in BOOLEAN /\ o_forced \in BOOLEAN
    /\ s_quiesced \in BOOLEAN /\ hears \in BOOLEAN /\ good \in BOOLEAN
    /\ o_req \in {"none", "BEGIN", "DATA", "END", "REBOOT"}
    /\ o_ans \in {"none", "timeout", "OK", "NOT_STARTED", "BAD_OFFSET", "VERIFY"}
    /\ o_req = "DATA" => o_state = "data"
    /\ o_state = "data" => o_off < Chunks
    /\ o_state = "begin" => o_off = 0
    /\ o_state \in {"idle", "wait"} => o_req = "none"
    /\ o_state = "idle" /\ o_tries >= OtaTries => o_failed
    /\ o_status = "updated" \/ (hello.v = 2 /\ ~hello.trial) => Kept

\* The bridge has two slots, and an image in part is not a whole one.
LEMMA BridgeConstants ==
    /\ Chunks \in Nat \ {0} /\ OtaTries \in Nat \ {0}
    /\ Bridge!Old = <<>> /\ Bridge!Whole # Bridge!Old
    /\ \A s \in SlotNames : Bridge!Other(s) \in SlotNames /\ Bridge!Other(s) # s
       /\ Bridge!Other(Bridge!Other(s)) = s
    /\ \A s, q \in SlotNames : s # q => q = Bridge!Other(s)
<1>1. Chunks \in Nat \ {0} /\ OtaTries \in Nat \ {0}  BY Assumptions DEF Bridge!ConstantsOK
<1>2. Bridge!Whole # <<>>
  <2>1. 1 \in DOMAIN Bridge!Whole  BY <1>1 DEF Bridge!Whole
  <2>2. DOMAIN <<>> = {}  OBVIOUS
  <2> QED BY <2>1, <2>2
<1> QED BY <1>1, <1>2 DEF Bridge!Old, Bridge!Other, SlotNames

\* main/ota.c of the bridge: a request that is carried out writes only the slot that neither runs nor is
\* gone back to.
LEMMA HandlingKeeps ==
    ASSUME SlotsWhole, Bridge!Confirm,
           \/ Bridge!OtaBegin
           \/ \E n \in 0 .. Chunks - 1 : Bridge!OtaData(n)
           \/ Bridge!OtaEnd
           \/ UNCHANGED <<slot, running, boot, otaseq>>
    PROVE  SlotsWhole' /\ (Kept => Kept')
<1>0. /\ Chunks \in Nat \ {0}
      /\ Bridge!Old = <<>> /\ Bridge!Whole # Bridge!Old
      /\ \A s \in SlotNames : Bridge!Other(s) \in SlotNames /\ Bridge!Other(s) # s
      /\ \A s, q \in SlotNames : s # q => q = Bridge!Other(s)
  BY BridgeConstants
<1>t. BootTypes  BY DEF SlotsWhole
<1> DEFINE other == Bridge!Other(running)
<1>1. s_pending' = FALSE /\ img' = "valid"  BY <1>t DEF Bridge!Confirm, SlotsWhole, BootTypes
<1>2. other \in SlotNames /\ other # running  BY <1>0, <1>t DEF BootTypes
<1>k. running' = running /\ slot'[running] = slot[running] => (Kept => Kept')
  BY <1>1 DEF Kept, Bridge!Runs
<1> HIDE DEF other
\* The slot filled is the other one, and it does not boot.
<1>3. ASSUME NEW image \in Seq(Nat), slot' = [slot EXCEPT ![other] = image], running' = running,
                    boot' = running,
             otaseq' \in [active : BOOLEAN, next : 0 .. Chunks, last : 0 .. Chunks + 1]
      PROVE  SlotsWhole' /\ (Kept => Kept')
  <2>1. slot' \in [SlotNames -> Seq(Nat)] /\ slot'[running] = slot[running]
    BY <1>2, <1>3, <1>t DEF BootTypes
  <2> QED BY <1>1, <1>3, <1>k, <1>t, <2>1 DEF SlotsWhole, BootTypes
<1>4. CASE Bridge!OtaBegin
  <2>1. /\ slot' = [slot EXCEPT ![other] = <<0>>] /\ boot' = running /\ running' = running
        /\ otaseq' = [active |-> TRUE, next |-> 0, last |-> Chunks + 1]
    BY <1>4 DEF Bridge!OtaBegin, other
  <2>2. otaseq' \in [active : BOOLEAN, next : 0 .. Chunks, last : 0 .. Chunks + 1]
    BY <2>1, <1>0
  <2>3. <<0>> \in Seq(Nat)  OBVIOUS
  <2> QED BY <2>1, <2>2, <2>3, <1>3
<1>u. ASSUME UNCHANGED <<slot, running>>, boot' = boot \/ (boot' = other /\ slot[other] = Bridge!Whole),
             otaseq' \in [active : BOOLEAN, next : 0 .. Chunks, last : 0 .. Chunks + 1],
             otaseq'.active => otaseq.active /\ boot' = boot
      PROVE  SlotsWhole' /\ (Kept => Kept')
  BY <1>u, <1>1, <1>2, <1>k, <1>t DEF SlotsWhole, BootTypes
<1>5. ASSUME NEW n \in 0 .. Chunks - 1, Bridge!OtaData(n) PROVE SlotsWhole' /\ (Kept => Kept')
  <2>1. UNCHANGED <<running, boot>>  BY <1>5 DEF Bridge!OtaData
  <2>2. CASE UNCHANGED <<slot, otaseq>>
    BY <2>1, <2>2, <1>t, <1>u DEF BootTypes
  <2>3. CASE /\ otaseq.active /\ otaseq' = [active |-> TRUE, next |-> n + 1, last |-> n]
             /\ \E c \in {n + 1, 0} : slot' = [slot EXCEPT ![other] = Append(IF n = 0 THEN <<>> ELSE @, c)]
    <3>1. PICK c \in {n + 1, 0} : slot' = [slot EXCEPT ![other] = Append(IF n = 0 THEN <<>> ELSE @, c)]
      BY <2>3
    <3> DEFINE image == Append(IF n = 0 THEN <<>> ELSE slot[other], c)
    <3>2. slot' = [slot EXCEPT ![other] = image]  BY <3>1
    <3>3. image \in Seq(Nat)
      <4>1. slot[other] \in Seq(Nat) /\ <<>> \in Seq(Nat) /\ c \in Nat
        BY <1>2, <1>t, <1>0 DEF BootTypes
      <4> QED BY <4>1
    <3>4. otaseq' \in [active : BOOLEAN, next : 0 .. Chunks, last : 0 .. Chunks + 1]
      BY <2>3, <1>0
    <3>5. boot = running  BY <2>3 DEF SlotsWhole
    <3> HIDE DEF image
    <3> QED BY <2>1, <3>2, <3>3, <3>4, <3>5, <1>3
  <2> QED BY <1>5, <2>2, <2>3 DEF Bridge!OtaData, other
<1>6. CASE Bridge!OtaEnd
  <2>1. UNCHANGED <<slot, running>>  BY <1>6 DEF Bridge!OtaEnd
  <2>2. CASE UNCHANGED <<boot, otaseq>>
    BY <2>1, <2>2, <1>t, <1>u DEF BootTypes
  <2>3. CASE otaseq' = Bridge!NoSeq /\ (boot' = boot \/ (boot' = other /\ slot[other] = Bridge!Whole))
    <3>1. otaseq' \in [active : BOOLEAN, next : 0 .. Chunks, last : 0 .. Chunks + 1] /\ ~otaseq'.active
      BY <2>3, <1>0 DEF Bridge!NoSeq
    <3> QED BY <2>1, <2>3, <3>1, <1>u
  <2> QED BY <1>6, <2>2, <2>3 DEF Bridge!OtaEnd, Bridge!HashMatches, other
<1>7. CASE UNCHANGED <<slot, running, boot, otaseq>>
  BY <1>7, <1>t, <1>u DEF BootTypes
<1> QED BY <1>4, <1>5, <1>6, <1>7

\* A restart boots a whole image, and after it there is one to go back to.
LEMMA RebootKeeps == ASSUME SlotsWhole, Bridge!Reboot PROVE SlotsWhole' /\ (Kept => Kept')
<1>0. /\ Chunks \in Nat \ {0}
      /\ Bridge!Old = <<>> /\ Bridge!Whole # Bridge!Old
      /\ \A s \in SlotNames : Bridge!Other(s) \in SlotNames /\ Bridge!Other(s) # s
         /\ Bridge!Other(Bridge!Other(s)) = s
      /\ \A s, q \in SlotNames : s # q => q = Bridge!Other(s)
  BY BridgeConstants
<1>1. /\ running' = (IF boot = running /\ img = "trial" THEN Bridge!Other(running) ELSE boot)
         /\ boot' = running'
      /\ img' = (IF boot # running THEN "trial" ELSE "valid") /\ s_pending' = (boot # running)
      /\ otaseq' = Bridge!NoSeq /\ slot' = slot
  BY DEF Bridge!Reboot
<1>2. otaseq' \in [active : BOOLEAN, next : 0 .. Chunks, last : 0 .. Chunks + 1] /\ ~otaseq'.active
  BY <1>0, <1>1 DEF Bridge!NoSeq
<1>3. BootTypes  BY DEF SlotsWhole
<1>4. BootTypes'  BY <1>0, <1>1, <1>2, <1>3 DEF BootTypes
<1>5. CASE boot # running
  <2>1. running' = boot /\ Bridge!Other(boot) = running  BY <1>0, <1>1, <1>3, <1>5 DEF BootTypes
  <2>2. SlotsWhole'  BY <1>1, <1>2, <1>4, <1>5, <2>1 DEF SlotsWhole
  <2>3. Kept => Kept'  BY <1>0, <1>1, <1>5, <2>1 DEF SlotsWhole, Kept, Bridge!Runs
  <2> QED BY <2>2, <2>3
<1>6. CASE boot = running
  <2>1. SlotsWhole'  BY <1>1, <1>2, <1>4, <1>6 DEF SlotsWhole
  <2>2. Kept => Kept'  BY <1>1, <1>6 DEF Kept, Bridge!Runs, SlotsWhole, BootTypes
  <2> QED BY <2>1, <2>2
<1> QED BY <1>5, <1>6

\* The relay's part of the invariant.
RelayTypes ==
    /\ o_state \in {"idle", "begin", "data", "end", "reboot", "wait"} /\ o_off \in 0 .. Chunks
    /\ o_tries \in 0 .. OtaTries /\ o_status \in {"idle", "failed", "retry", "waiting", "updated"}
    /\ o_resend \in BOOLEAN /\ o_failed \in BOOLEAN /\ seen_new \in BOOLEAN /\ o_forced \in BOOLEAN
    /\ s_quiesced \in BOOLEAN
    /\ o_req \in {"none", "BEGIN", "DATA", "END", "REBOOT"}
    /\ o_ans \in {"none", "timeout", "OK", "NOT_STARTED", "BAD_OFFSET", "VERIFY"}
    /\ o_req = "DATA" => o_state = "data"
    /\ o_state = "data" => o_off < Chunks
    /\ o_state = "begin" => o_off = 0
    /\ o_state \in {"idle", "wait"} => o_req = "none"
    /\ o_state = "idle" /\ o_tries >= OtaTries => o_failed

\* wifi_bridge_ota.c: the invariant by the state of the bridge and that of the relay.
LEMMA RelayInBridge ==
    BridgeInv <=> /\ SlotsWhole /\ RelayTypes /\ hears \in BOOLEAN /\ good \in BOOLEAN
                  /\ o_status = "updated" \/ (hello.v = 2 /\ ~hello.trial) => Kept
BY DEF BridgeInv, RelayTypes

\* wifi_bridge_ota.c: the relay changes nothing in the bridge, and says "updated" only when a HELLO did.
LEMMA RelayStep ==
    ASSUME BridgeInv, Bridge!Relay \/ Bridge!Force PROVE BridgeInv'
<1>0. Chunks \in Nat \ {0} /\ OtaTries \in Nat \ {0}  BY BridgeConstants
<1>t. /\ o_state \in {"idle", "begin", "data", "end", "reboot", "wait"} /\ o_off \in 0 .. Chunks
      /\ o_tries \in 0 .. OtaTries /\ o_status \in {"idle", "failed", "retry", "waiting", "updated"}
      /\ o_resend \in BOOLEAN /\ o_failed \in BOOLEAN /\ seen_new \in BOOLEAN /\ o_forced \in BOOLEAN
      /\ s_quiesced \in BOOLEAN
      /\ o_req \in {"none", "BEGIN", "DATA", "END", "REBOOT"}
      /\ o_ans \in {"none", "timeout", "OK", "NOT_STARTED", "BAD_OFFSET", "VERIFY"}
  BY DEF BridgeInv
<1>c. /\ o_req = "DATA" => o_state = "data"
      /\ o_state = "data" => o_off < Chunks
      /\ o_state = "begin" => o_off = 0
      /\ o_state \in {"idle", "wait"} => o_req = "none"
      /\ o_state = "idle" /\ o_tries >= OtaTries => o_failed
  BY DEF BridgeInv
<1>n. otaseq.next \in 0 .. Chunks  BY DEF BridgeInv, SlotsWhole, BootTypes
<1>r. ASSUME UNCHANGED <<slot, running, boot, img, s_pending, otaseq, hears, hello, good>>,
             o_status' = "updated" => Kept, RelayTypes'
      PROVE  BridgeInv'
  <2>1. SlotsWhole' /\ Kept' = Kept
    BY <1>r DEF BridgeInv, SlotsWhole, BootTypes, Kept, Bridge!Runs
  <2> QED BY <1>r, <2>1 DEF BridgeInv, RelayTypes
<1>k. o_status = "updated" => Kept  BY DEF BridgeInv
<1>s. ASSUME NEW type, NEW state, Bridge!Send(type, state),
             <<type, state>> \in {<<"DATA", "data">>, <<"END", "end">>, <<"REBOOT", "reboot">>},
             o_tries' = o_tries, seen_new' = seen_new, o_off' \in 0 .. Chunks, type = "DATA" => o_off' < Chunks
      PROVE  RelayTypes' /\ (o_status' = "updated" => o_status = "updated")
  <2>1. type \in {"DATA", "END", "REBOOT"} /\ state \in {"data", "end", "reboot"}
        /\ (type = "DATA" <=> state = "data")
    BY <1>s
  <2>2. CASE /\ o_req' = type /\ o_ans' = "none" /\ o_resend' = FALSE /\ o_state' = state
             /\ s_quiesced' = (s_quiesced \/ type = "DATA") /\ UNCHANGED <<o_failed, o_forced, o_status>>
    BY <1>s, <1>t, <2>1, <2>2 DEF RelayTypes
  <2>3. CASE /\ o_req' = "none" /\ o_ans' = "none" /\ o_resend' = TRUE /\ o_state' = state
             /\ UNCHANGED <<o_failed, o_forced, o_status, s_quiesced>>
    BY <1>s, <1>t, <2>1, <2>3 DEF RelayTypes
  <2>4. CASE o_req' = "none" /\ o_ans' = "none" /\ UNCHANGED o_resend /\ Bridge!Fail
    BY <1>s, <1>t, <2>1, <2>4 DEF RelayTypes, Bridge!Fail, Bridge!Stop
  <2> QED BY <1>s, <2>2, <2>3, <2>4 DEF Bridge!Send
<1>f. ASSUME Bridge!FailTransient \/ Bridge!Fail, o_req' = "none", o_ans' \in {"none", "timeout", "OK",
                    "NOT_STARTED", "BAD_OFFSET", "VERIFY"},
             o_tries' = o_tries, seen_new' = seen_new, o_off' = o_off, o_resend' \in BOOLEAN
      PROVE  RelayTypes' /\ o_status' # "updated"
  <2>1. CASE Bridge!Fail
    BY <1>f, <1>t, <2>1 DEF RelayTypes, Bridge!Fail, Bridge!Stop
  <2>2. CASE Bridge!FailTransient /\ ~(o_tries >= OtaTries)
    BY <1>f, <1>t, <2>2 DEF RelayTypes, Bridge!FailTransient, Bridge!Stop
  <2>3. CASE Bridge!FailTransient /\ o_tries >= OtaTries
    BY <2>1, <2>3 DEF Bridge!FailTransient
  <2> QED BY <1>f, <2>1, <2>2, <2>3
<1>1. CASE Bridge!TryStart
  <2>1. /\ o_state = "idle" /\ o_state' = "begin" /\ o_req' = "BEGIN" /\ o_ans' = "none" /\ o_resend' = FALSE
        /\ seen_new' = FALSE /\ o_off' = 0 /\ o_tries' = (IF o_forced THEN 1 ELSE o_tries + 1)
        /\ o_forced \/ ~o_failed
        /\ UNCHANGED <<o_failed, o_forced, o_status, s_quiesced>>
        /\ UNCHANGED <<slot, running, boot, img, s_pending, otaseq, hears, hello, good>>
    BY <1>1 DEF Bridge!TryStart, Bridge!Wanted, Bridge!flashVars, Bridge!ramVars
  <2>2. o_tries' \in 0 .. OtaTries
    <3>1. CASE o_forced
      BY <2>1, <3>1, <1>0
    <3>2. CASE ~o_forced
      <4>1. ~(o_tries >= OtaTries)  BY <2>1, <3>2, <1>c
      <4> QED BY <2>1, <3>2, <4>1, <1>0, <1>t
    <3> QED BY <3>1, <3>2
  <2>3. o_off' \in 0 .. Chunks  BY <2>1, <1>0
  <2> QED BY <2>1, <2>2, <2>3, <1>k, <1>r, <1>t DEF RelayTypes
<1>2. CASE Bridge!Resend
  <2>1. /\ o_state \in {"data", "end", "reboot"}
        /\ Bridge!Send(CASE o_state = "data" -> "DATA" [] o_state = "end" -> "END"
                         [] o_state = "reboot" -> "REBOOT", o_state)
        /\ UNCHANGED <<o_off, o_tries, seen_new>>
        /\ UNCHANGED <<slot, running, boot, img, s_pending, otaseq, hears, hello, good>>
    BY <1>2 DEF Bridge!Resend, Bridge!flashVars, Bridge!ramVars
  <2>2. PICK type : type = (CASE o_state = "data" -> "DATA" [] o_state = "end" -> "END"
                              [] o_state = "reboot" -> "REBOOT")
    OBVIOUS
  <2>3. <<type, o_state>> \in {<<"DATA", "data">>, <<"END", "end">>, <<"REBOOT", "reboot">>}
    BY <2>1, <2>2
  <2>4. type = "DATA" => o_off' < Chunks  BY <2>1, <2>3, <1>c
  <2>5. RelayTypes' /\ (o_status' = "updated" => o_status = "updated")
    BY <2>1, <2>2, <2>3, <2>4, <1>s, <1>t
  <2> QED BY <2>1, <2>5, <1>k, <1>r
<1>3. CASE Bridge!Answered
  <2>1. /\ UNCHANGED <<o_tries, seen_new>>
        /\ UNCHANGED <<slot, running, boot, img, s_pending, otaseq, hears, hello, good>>
    BY <1>3 DEF Bridge!Answered, Bridge!flashVars, Bridge!ramVars
  <2>2. CASE o_state = "begin" /\ Bridge!Send("DATA", "data") /\ UNCHANGED o_off
    <3>1. o_off' \in 0 .. Chunks /\ o_off' < Chunks  BY <2>2, <1>0, <1>c
    <3> QED BY <2>1, <2>2, <3>1, <1>k, <1>r, <1>s
  <2>3. CASE /\ o_state = "data" /\ o_off' = otaseq.next
             /\ IF otaseq.next = Chunks THEN Bridge!Send("END", "end") ELSE Bridge!Send("DATA", "data")
    <3>1. otaseq.next = Chunks \/ otaseq.next < Chunks  BY <1>0, <1>n
    <3> QED BY <2>1, <2>3, <3>1, <1>k, <1>n, <1>r, <1>s
  <2>4. CASE o_state = "end" /\ Bridge!Send("REBOOT", "reboot") /\ UNCHANGED o_off
    BY <2>1, <2>4, <1>k, <1>r, <1>s, <1>t
  <2>5. CASE Bridge!Fail /\ o_req' = "none" /\ o_ans' = "none" /\ UNCHANGED <<o_off, o_resend>>
    BY <2>1, <2>5, <1>f, <1>k, <1>r, <1>t
  <2> QED BY <1>3, <2>2, <2>3, <2>4, <2>5 DEF Bridge!Answered
<1>4. CASE Bridge!NotAnswered
  <2>1. /\ Bridge!FailTransient /\ o_req' = "none" /\ o_ans' = "none"
        /\ UNCHANGED <<o_off, o_resend, o_tries, seen_new>>
        /\ UNCHANGED <<slot, running, boot, img, s_pending, otaseq, hears, hello, good>>
    BY <1>4 DEF Bridge!NotAnswered, Bridge!flashVars, Bridge!ramVars
  <2> QED BY <2>1, <1>f, <1>k, <1>r, <1>t
<1>5. CASE Bridge!Restarted
  <2>1. /\ o_state' = "wait" /\ o_status' = "waiting" /\ o_forced' = FALSE /\ s_quiesced' = FALSE
        /\ o_req' = "none" /\ o_ans' = "none"
        /\ UNCHANGED <<o_off, o_resend, o_tries, o_failed, seen_new>>
        /\ UNCHANGED <<slot, running, boot, img, s_pending, otaseq, hears, hello, good>>
    BY <1>5 DEF Bridge!Restarted, Bridge!Stop, Bridge!flashVars, Bridge!ramVars
  <2> QED BY <2>1, <1>r, <1>t DEF RelayTypes
<1>6. CASE Bridge!WaitBack
  <2>1. /\ o_state = "wait" /\ o_req' = o_req /\ o_ans' = o_ans /\ UNCHANGED <<o_off, o_resend>>
        /\ UNCHANGED <<slot, running, boot, img, s_pending, otaseq, hears, hello, good>>
    BY <1>6 DEF Bridge!WaitBack, Bridge!chanVars, Bridge!flashVars, Bridge!ramVars
  <2>2. o_req' = "none"  BY <2>1, <1>c
  <2>3. CASE Bridge!Confirmed /\ Bridge!Stop("idle", "updated") /\ o_failed' = FALSE /\ o_tries' = 0
             /\ UNCHANGED seen_new
    <3>1. Kept  BY <2>3 DEF BridgeInv, Bridge!Confirmed
    <3>2. o_tries' \in 0 .. OtaTries /\ ~(o_tries' >= OtaTries)  BY <2>3, <1>0
    <3> QED BY <2>1, <2>2, <2>3, <3>1, <3>2, <1>r, <1>t DEF RelayTypes, Bridge!Stop
  <2>4. CASE seen_new' = TRUE /\ UNCHANGED <<o_state, o_status, o_forced, s_quiesced, o_failed, o_tries>>
    BY <2>1, <2>2, <2>4, <1>k, <1>r, <1>t DEF RelayTypes
  <2>5. CASE (Bridge!Fail \/ Bridge!FailTransient) /\ UNCHANGED <<o_tries, seen_new>>
    BY <2>1, <2>2, <2>5, <1>f, <1>r, <1>t
  <2> QED BY <1>6, <2>3, <2>4, <2>5 DEF Bridge!WaitBack
<1>7. CASE Bridge!Force
  <2>1. /\ o_forced' = TRUE
        /\ UNCHANGED <<o_state, o_off, o_resend, o_tries, o_failed, seen_new, o_status, s_quiesced,
                       o_req, o_ans>>
        /\ UNCHANGED <<slot, running, boot, img, s_pending, otaseq, hears, hello, good>>
    BY <1>7 DEF Bridge!Force, Bridge!chanVars, Bridge!flashVars, Bridge!ramVars
  <2> QED BY <2>1, <1>c, <1>k, <1>r, <1>t DEF RelayTypes
<1> QED BY <1>1, <1>2, <1>3, <1>4, <1>5, <1>6, <1>7 DEF Bridge!Relay

\* The bridge's own steps, and answers that are lost.
LEMMA BridgeStep == ASSUME BridgeInv, [Bridge!Next]_(Bridge!boVars) PROVE BridgeInv'
<1>r. /\ RelayTypes /\ SlotsWhole /\ hears \in BOOLEAN /\ good \in BOOLEAN
      /\ o_status = "updated" \/ (hello.v = 2 /\ ~hello.trial) => Kept
  BY RelayInBridge
<1>q. ASSUME SlotsWhole', Kept => Kept', hears' \in BOOLEAN, good' = good,
             UNCHANGED <<o_state, o_off, o_resend, o_tries, o_failed, seen_new, o_forced, o_status,
                         s_quiesced, o_req>>,
             o_ans' \in {"none", "timeout", "OK", "NOT_STARTED", "BAD_OFFSET", "VERIFY"},
             hello'.v = 2 /\ ~hello'.trial => Kept'
      PROVE  BridgeInv'
  <2>1. RelayTypes'  BY <1>q, <1>r DEF RelayTypes
  <2>2. o_status' = "updated" => Kept'  BY <1>q, <1>r
  <2> QED BY <1>q, <1>r, <2>1, <2>2 DEF BridgeInv, RelayTypes
<1>a. o_ans \in {"none", "timeout", "OK", "NOT_STARTED", "BAD_OFFSET", "VERIFY"}
  BY <1>r DEF RelayTypes
<1>u. ASSUME UNCHANGED <<slot, running, boot, img, s_pending, otaseq>> PROVE SlotsWhole' /\ (Kept => Kept')
  BY <1>r, <1>u DEF SlotsWhole, BootTypes, Kept, Bridge!Runs
<1>b. ASSUME Bridge!Reboot PROVE SlotsWhole' /\ (Kept => Kept') /\ hears' \in BOOLEAN
  <2>1. hears' = (Bridge!Runs(running') = 1 \/ good)  BY <1>b DEF Bridge!Reboot
  <2>2. hears' \in BOOLEAN  BY <2>1, <1>r
  <2> QED BY <1>b, <1>r, <2>2, RebootKeeps
<1>1. CASE Bridge!Relay \/ Bridge!Force
  BY <1>1, RelayStep
<1>2. CASE Bridge!BridgeHandles
  <2>1. /\ UNCHANGED <<o_state, o_off, o_resend, o_tries, o_failed, seen_new, o_forced, o_status,
                       s_quiesced, o_req>>
        /\ UNCHANGED <<hello, good>> /\ o_req # "none"
    BY <1>2 DEF Bridge!BridgeHandles, Bridge!relayVars
  <2>2. SlotsWhole' /\ (Kept => Kept') /\ hears' \in BOOLEAN
        /\ o_ans' \in {"OK", "NOT_STARTED", "BAD_OFFSET", "VERIFY"}
    <3>1. CASE Bridge!OtaBegin /\ Bridge!Confirm /\ UNCHANGED hears
      <4>1. o_ans' = "OK"  BY <3>1 DEF Bridge!OtaBegin
      <4> QED BY <3>1, <4>1, <1>r, HandlingKeeps
    <3>2. CASE o_req = "DATA" /\ Bridge!OtaData(o_off) /\ Bridge!Confirm /\ UNCHANGED hears
      <4>1. o_ans' \in {"NOT_STARTED", "OK", "BAD_OFFSET"}  BY <3>2 DEF Bridge!OtaData
      <4>2. o_off \in 0 .. Chunks - 1  BY <3>2, <1>r, BridgeConstants DEF RelayTypes
      <4> QED BY <3>2, <4>1, <4>2, <1>r, HandlingKeeps
    <3>3. CASE Bridge!OtaEnd /\ Bridge!Confirm /\ UNCHANGED hears
      <4>1. o_ans' \in {"NOT_STARTED", "OK", "BAD_OFFSET", "VERIFY"}  BY <3>3 DEF Bridge!OtaEnd
      <4> QED BY <3>3, <4>1, <1>r, HandlingKeeps
    <3>4. CASE Bridge!Reboot /\ o_ans' = "OK"
      BY <3>4, <1>b
    <3> QED BY <1>2, <3>1, <3>2, <3>3, <3>4 DEF Bridge!BridgeHandles
  <2> QED BY <2>1, <2>2, <1>q, <1>r
<1>3. CASE Bridge!SayHello
  <2>1. /\ UNCHANGED <<o_state, o_off, o_resend, o_tries, o_failed, seen_new, o_forced, o_status,
                       s_quiesced, o_req, o_ans>>
        /\ UNCHANGED <<slot, running, boot, img, s_pending, otaseq, hears, good>>
        /\ hello' = [v |-> Bridge!Runs(running), trial |-> s_pending]
    BY <1>3 DEF Bridge!SayHello, Bridge!relayVars, Bridge!chanVars, Bridge!flashVars, Bridge!ramVars
  <2>2. hello'.v = 2 /\ ~hello'.trial => Kept  BY <2>1, <1>r DEF Kept, SlotsWhole
  <2> QED BY <2>1, <2>2, <1>a, <1>q, <1>r, <1>u
<1>4. CASE Bridge!PodStatus
  <2>1. /\ UNCHANGED <<o_state, o_off, o_resend, o_tries, o_failed, seen_new, o_forced, o_status,
                       s_quiesced, o_req, o_ans>>
        /\ UNCHANGED <<slot, running, boot, otaseq, hears, hello, good>> /\ Bridge!Confirm
    BY <1>4 DEF Bridge!PodStatus, Bridge!relayVars, Bridge!chanVars
  <2>2. SlotsWhole' /\ (Kept => Kept')  BY <2>1, <1>r, HandlingKeeps
  <2> QED BY <2>1, <2>2, <1>a, <1>q, <1>r
<1>5. CASE Bridge!AbortIdle
  <2>1. /\ UNCHANGED <<o_state, o_off, o_resend, o_tries, o_failed, seen_new, o_forced, o_status,
                       s_quiesced, o_req, o_ans>>
        /\ UNCHANGED <<slot, running, boot, img, s_pending, hears, hello, good>> /\ otaseq' = Bridge!NoSeq
    BY <1>5 DEF Bridge!AbortIdle, Bridge!relayVars, Bridge!chanVars, Bridge!flashVars
  <2>2. otaseq' \in [active : BOOLEAN, next : 0 .. Chunks, last : 0 .. Chunks + 1] /\ ~otaseq'.active
    BY <2>1, BridgeConstants DEF Bridge!NoSeq
  <2>3. SlotsWhole' /\ (Kept => Kept')
    BY <2>1, <2>2, <1>r DEF SlotsWhole, BootTypes, Kept, Bridge!Runs
  <2> QED BY <2>1, <2>3, <1>a, <1>q, <1>r
<1>6. CASE Bridge!Restart
  <2>1. /\ UNCHANGED <<o_state, o_off, o_resend, o_tries, o_failed, seen_new, o_forced, o_status,
                       s_quiesced, o_req, o_ans>>
        /\ good' = good /\ Bridge!Reboot /\ hello' \in {hello, Bridge!NoHello}
    BY <1>6 DEF Bridge!Restart, Bridge!relayVars, Bridge!chanVars
  <2>2. hello'.v = 2 /\ ~hello'.trial => Kept  BY <2>1, <1>r DEF Bridge!NoHello
  <2> QED BY <2>1, <2>2, <1>a, <1>b, <1>q, <1>r
<1>7. CASE Bridge!Lost
  <2>1. /\ UNCHANGED <<o_state, o_off, o_resend, o_tries, o_failed, seen_new, o_forced, o_status,
                       s_quiesced, o_req>>
        /\ UNCHANGED <<slot, running, boot, img, s_pending, otaseq, hears, hello, good>>
           /\ o_ans' \in {"none", "timeout"}
    BY <1>7 DEF Bridge!Lost, Bridge!relayVars, Bridge!flashVars, Bridge!ramVars
  <2> QED BY <2>1, <1>q, <1>r, <1>u
<1>8. CASE UNCHANGED Bridge!boVars
  <2>1. /\ UNCHANGED <<o_state, o_off, o_resend, o_tries, o_failed, seen_new, o_forced, o_status,
                       s_quiesced, o_req, o_ans>>
        /\ UNCHANGED <<slot, running, boot, img, s_pending, otaseq, hears, hello, good>>
    BY <1>8 DEF Bridge!boVars, Bridge!relayVars, Bridge!chanVars, Bridge!flashVars, Bridge!ramVars
  <2> QED BY <2>1, <1>a, <1>q, <1>r, <1>u
<1> QED BY <1>1, <1>2, <1>3, <1>4, <1>5, <1>6, <1>7, <1>8 DEF Bridge!Next, Bridge!Bridge

\* wifi_bridge_ota.c and the bridge: in every behaviour the bridge boots whole images only and one
\* reported updated
\* keeps the new version, whatever was lost, sent again or misread, for any number of chunks and tries.
LEMMA BridgeHolds == MCSpec => []BridgeInv
<1>1. MCInit => BridgeInv
  <2> SUFFICES ASSUME MCInit PROVE BridgeInv
    OBVIOUS
  <2>1. Bridge!Init  BY DEF MCInit
  <2>2. Chunks \in Nat \ {0} /\ OtaTries \in Nat \ {0} /\ Bridge!Old = <<>>  BY BridgeConstants
  <2>3. /\ 0 \in 0 .. Chunks /\ Chunks + 1 \in 0 .. Chunks + 1 /\ 0 \in 0 .. OtaTries /\ ~(0 >= OtaTries)
        /\ <<>> \in Seq(Nat)
    BY <2>2
  <2>4. SlotsWhole
    <3>1. /\ slot = [A |-> <<>>, B |-> <<>>] /\ running = "A" /\ boot = "A" /\ img = "valid"
             /\ s_pending = FALSE
          /\ otaseq = [active |-> FALSE, next |-> 0, last |-> Chunks + 1]
      BY <2>1, <2>2 DEF Bridge!Init, Bridge!NoSeq
    <3>2. slot \in [SlotNames -> Seq(Nat)] /\ slot["A"] = <<>>
      <4>1. slot = [s \in SlotNames |-> IF s = "A" THEN <<>> ELSE <<>>]  BY <3>1 DEF SlotNames
      <4> QED BY <2>3, <4>1 DEF SlotNames
    <3>3. otaseq \in [active : BOOLEAN, next : 0 .. Chunks, last : 0 .. Chunks + 1] /\ ~otaseq.active
      BY <2>3, <3>1
    <3> QED BY <2>2, <3>1, <3>2, <3>3 DEF SlotsWhole, BootTypes, SlotNames
  <2>5. RelayTypes  BY <2>1, <2>3 DEF Bridge!Init, RelayTypes
  <2>6. hears \in BOOLEAN /\ good \in BOOLEAN /\ o_status # "updated" /\ hello.v # 2
    BY <2>1 DEF Bridge!Init, Bridge!NoHello
  <2> QED BY <2>4, <2>5, <2>6, RelayInBridge
<1>2. BridgeInv /\ [MCNext]_mcVars => BridgeInv'
  <2>1. ASSUME [MCNext]_mcVars PROVE [Bridge!Next]_(Bridge!boVars)
    BY <2>1 DEF MCNext, Rest, mcVars, bridgeVars, Bridge!boVars, Bridge!relayVars, Bridge!chanVars,
       Bridge!flashVars,
                Bridge!ramVars
  <2> QED BY <2>1, BridgeStep
<1> QED BY <1>1, <1>2, PTL DEF MCSpec

\* wifi_bridge_ota.c: the bridge boots whole images, and one reported updated keeps the new version.
LEMMA BridgeTrue == ASSUME BridgeInv PROVE Bridge!TypeOK /\ Bridge!BootsWhole /\ Bridge!UpdatedIsTrue
<1>1. Bridge!TypeOK  BY DEF BridgeInv, SlotsWhole, BootTypes, SlotNames, Bridge!TypeOK
<1>2. Bridge!BootsWhole  BY DEF BridgeInv, SlotsWhole, Bridge!BootsWhole
<1>3. Bridge!UpdatedIsTrue  BY DEF BridgeInv, SlotsWhole, BootTypes, Kept, Bridge!UpdatedIsTrue
<1> QED BY <1>1, <1>2, <1>3

(***************************************************************************)
(* The calibration.  Until its header is there a commit leaves the offset in *)
(* use to be loaded, from then on the record it commits; when it is over the *)
(* record loaded is the one in use.                                         *)
(***************************************************************************)
Single(i) == IF Cal!Valid(i) /\ hdr[i].val # Tombstone THEN body[i] ELSE Cal!Empty
KnownVersions == \A i \in Cal!Slots : hdr[i] \in Cal!Headers => hdr[i].ver \in {1, 2}

\* Slot t holds the newest record, and what a boot takes is n: the record itself, nothing, or the pair of
\* its copy.
Holds(t, n) ==
    /\ Cal!Valid(t) /\ (Cal!Valid(1 - t) => Cal!Follows(t))
    /\ \/ hdr[t].ver = 2 /\ hdr[t].val = n
       \/ hdr[t].val = Tombstone /\ n = Cal!Empty
       \/ /\ hdr[t].ver = 1 /\ hdr[t].val = Cal!V1Copy(n)
          /\ Cal!Valid(1 - t) /\ hdr[1 - t].ver = 2 /\ hdr[1 - t].val = n

PickFacts ==
    /\ Cal!Pick \in CalRecords
    /\ Cal!Newest \in {0, 1, 2} /\ (Cal!Newest # 2 => Cal!Valid(Cal!Newest))
    /\ \A t \in Cal!Slots : ~Cal!Valid(t) =>
         /\ Cal!Pick = Single(1 - t) /\ Cal!Adjacent
         /\ Cal!Newest = IF Cal!Valid(1 - t) THEN 1 - t ELSE 2
    /\ \A t \in Cal!Slots : Cal!Valid(t) /\ Cal!Valid(1 - t) /\ Cal!Follows(t) =>
         /\ Cal!Newest = t /\ Cal!Adjacent
         /\ Cal!Pick = IF \/ hdr[t].val = Tombstone \/ hdr[t].ver = 2
                          \/ hdr[1 - t].val = Tombstone \/ hdr[1 - t].ver # 2
                         THEN Single(t) ELSE Single(1 - t)
    /\ \A t \in Cal!Slots, n \in CalRecords : Holds(t, n) =>
         Cal!Newest = t /\ Cal!Pick = n /\ Single(t).zero = n.zero /\ Cal!Adjacent

\* adc_cal.c: a record is not a mark of the flash, and a copy keeps the zero.
LEMMA CalConstants ==
    /\ Cal!ConstantsOK /\ HalfSeq \in Nat /\ HalfSeq >= 2 /\ {1, 2} \subseteq Versions
    /\ Blank \notin Cal!Headers /\ Torn \notin Cal!Headers /\ Blank # Torn
    /\ Blank \notin CalRecords /\ Torn \notin CalRecords /\ Tombstone \notin CalRecords
    /\ Tombstone # Blank /\ Tombstone # Torn
    /\ Cal!Empty \in CalRecords /\ Cal!Empty.zero = 0
    /\ \A r \in CalRecords : Cal!V1Copy(r) \in CalRecords /\ Cal!V1Copy(r).zero = r.zero
<1>1. Cal!ConstantsOK /\ Plain!ConstantsOK  BY Assumptions
<1>2. Cal!Empty \in CalRecords /\ Cal!Empty.zero = 0  BY DEF Cal!Empty, CalRecords
<1>3. \A r \in CalRecords : Cal!V1Copy(r) \in CalRecords /\ Cal!V1Copy(r).zero = r.zero
  BY DEF Cal!V1Copy, CalRecords
<1> QED BY <1>1, <1>2, <1>3 DEF Cal!ConstantsOK, Plain!ConstantsOK

\* A sequence number is one behind its successor.
LEMMA BehindOne ==
    ASSUME NEW s \in Cal!Seqs
    PROVE  Cal!SeqDiff(Cal!SuccSeq(s), s) = 1 /\ Cal!SeqDiff(s, s) = 0
BY CalConstants DEF Cal!Seqs, Cal!SeqMod, Cal!SeqDiff, Cal!SuccSeq

\* adc_cal.c, pick_record: which record a boot takes.
LEMMA PickOf == Cal!TypeOK /\ KnownVersions => PickFacts
<1> SUFFICES ASSUME Cal!TypeOK, KnownVersions PROVE PickFacts
  OBVIOUS
<1>v. ASSUME NEW i \in Cal!Slots, Cal!Valid(i)
      PROVE  /\ hdr[i] \in Cal!Headers /\ hdr[i].seq \in Cal!Seqs /\ hdr[i].ver \in {1, 2}
             /\ hdr[i].val # Tombstone => hdr[i].val = body[i] /\ body[i] \in CalRecords
  <2>1. hdr[i] \in Cal!Headers /\ hdr[i].val \in {Tombstone, body[i]}  BY <1>v DEF Cal!Valid
  <2> QED BY <2>1 DEF KnownVersions, Cal!Headers, Cal!Contents
<1>s. \A t \in Cal!Slots : 1 - t \in Cal!Slots /\ 1 - (1 - t) = t /\ 1 - t # t /\ t # 2
      /\ Cal!Slots = {t, 1 - t}
  BY DEF Cal!Slots
<1>1. Cal!Newest \in {0, 1, 2} /\ (Cal!Newest # 2 => Cal!Valid(Cal!Newest))  BY DEF Cal!Newest
\* One valid record.
<1>2. ASSUME NEW t \in Cal!Slots, ~Cal!Valid(t)
      PROVE  Cal!Newest = (IF Cal!Valid(1 - t) THEN 1 - t ELSE 2) /\ Cal!Adjacent
  BY <1>2 DEF Cal!Newest, Cal!Adjacent, Cal!Slots
\* Two, the one saved after the other.
<1>3. ASSUME NEW t \in Cal!Slots, Cal!Valid(t), Cal!Valid(1 - t), Cal!Follows(t)
      PROVE  Cal!Newest = t /\ Cal!Adjacent
  <2>1. hdr[1 - t].seq \in Cal!Seqs /\ hdr[t].seq = Cal!SuccSeq(hdr[1 - t].seq)
    BY <1>3, <1>s, <1>v DEF Cal!Follows
  <2>2. /\ Cal!SeqDiff(hdr[t].seq, hdr[1 - t].seq) \in 1 .. HalfSeq - 1
        /\ Cal!SeqDiff(hdr[1 - t].seq, hdr[t].seq) \notin 1 .. HalfSeq - 1
    BY <2>1, CalConstants, Cal!SeqFacts
  <2>3. CASE t = 0
    BY <1>3, <2>2, <2>3 DEF Cal!Newest, Cal!Adjacent
  <2>4. CASE t = 1
    BY <1>3, <2>2, <2>4 DEF Cal!Newest, Cal!Adjacent
  <2> QED BY <2>3, <2>4 DEF Cal!Slots
<1> DEFINE Fit(i, v) == Cal!Valid(i) /\ hdr[i].ver = v /\ hdr[i].val # Tombstone
\* What the pick comes to, by the newest record and the other one.
<1>4. ASSUME NEW t \in Cal!Slots, Cal!Newest = t, Cal!Valid(t), Cal!Valid(1 - t) => Cal!Follows(t)
      PROVE  Cal!Pick = IF \/ hdr[t].val = Tombstone \/ hdr[t].ver = 2 \/ ~Fit(1 - t, 2)
                          THEN Single(t) ELSE Single(1 - t)
  <2>1. \A v : Cal!SlotOf(v) = IF hdr[t].val = Tombstone THEN 2
                               ELSE IF Fit(t, v) THEN t ELSE IF Fit(1 - t, v) THEN 1 - t ELSE 2
    BY <1>4, <1>s DEF Cal!SlotOf
  <2>2. Cal!Behind(t) = 0 /\ (Cal!Valid(1 - t) => Cal!Behind(1 - t) = 1)
    <3>1. hdr[t].seq \in Cal!Seqs  BY <1>4, <1>v
    <3>2. Cal!Behind(t) = 0  BY <1>4, <3>1, BehindOne DEF Cal!Behind
    <3>3. ASSUME Cal!Valid(1 - t) PROVE Cal!Behind(1 - t) = 1
      <4>1. hdr[1 - t].seq \in Cal!Seqs /\ hdr[t].seq = Cal!SuccSeq(hdr[1 - t].seq)
        BY <1>4, <1>s, <1>v, <3>3 DEF Cal!Follows
      <4> QED BY <1>4, <4>1, BehindOne DEF Cal!Behind
    <3> QED BY <3>2, <3>3
  <2>3. CASE hdr[t].val = Tombstone
    <3>1. Cal!SlotOf(2) = 2 /\ Cal!SlotOf(1) = 2  BY <2>1, <2>3
    <3> QED BY <2>3, <3>1 DEF Cal!Pick, Single
  <2>4. CASE hdr[t].val # Tombstone /\ hdr[t].ver = 2
    <3>1. Cal!SlotOf(2) = t  BY <1>4, <2>1, <2>4
    <3> QED BY <1>4, <1>s, <2>2, <2>4, <3>1 DEF Cal!Pick, Single
  <2>5. CASE hdr[t].val # Tombstone /\ hdr[t].ver = 1
    <3>1. Cal!SlotOf(1) = t  BY <1>4, <2>1, <2>5
    <3>2. CASE Fit(1 - t, 2)
      <4>1. Cal!SlotOf(2) = 1 - t  BY <2>1, <2>5, <3>2
      <4> QED BY <1>4, <1>s, <2>2, <2>5, <3>1, <3>2, <4>1 DEF Cal!Pick, Single
    <3>3. CASE ~Fit(1 - t, 2)
      <4>1. Cal!SlotOf(2) = 2  BY <2>1, <2>5, <3>3
      <4> QED BY <1>4, <1>s, <2>2, <2>5, <3>1, <3>3, <4>1 DEF Cal!Pick, Single
    <3> QED BY <3>2, <3>3
  <2> QED BY <1>4, <1>v, <2>3, <2>4, <2>5
<1>5. ASSUME NEW t \in Cal!Slots, ~Cal!Valid(t) PROVE Cal!Pick = Single(1 - t)
  <2>1. CASE Cal!Valid(1 - t)
    BY <1>2, <1>4, <1>5, <1>s, <2>1
  <2>2. CASE ~Cal!Valid(1 - t)
    <3>1. Cal!SlotOf(2) = 2 /\ Cal!SlotOf(1) = 2  BY <1>2, <1>5, <2>2 DEF Cal!SlotOf
    <3> QED BY <2>2, <3>1 DEF Cal!Pick, Single
  <2> QED BY <2>1, <2>2
<1>6. ASSUME NEW t \in Cal!Slots, Cal!Valid(t), Cal!Valid(1 - t), Cal!Follows(t)
      PROVE  Cal!Pick = IF \/ hdr[t].val = Tombstone \/ hdr[t].ver = 2
                           \/ hdr[1 - t].val = Tombstone \/ hdr[1 - t].ver # 2
                          THEN Single(t) ELSE Single(1 - t)
  BY <1>3, <1>4, <1>6
<1>7. ASSUME NEW t \in Cal!Slots, NEW n \in CalRecords, Holds(t, n)
      PROVE  Cal!Newest = t /\ Cal!Pick = n /\ Single(t).zero = n.zero /\ Cal!Adjacent
  <2>1. Cal!Valid(t) /\ (Cal!Valid(1 - t) => Cal!Follows(t))  BY <1>7 DEF Holds
  <2>2. Cal!Newest = t /\ Cal!Adjacent  BY <1>2, <1>3, <1>s, <2>1
  <2>3. n # Tombstone /\ Cal!V1Copy(n) # Tombstone /\ Cal!V1Copy(n).zero = n.zero
    BY CalConstants
  <2>4. CASE hdr[t].ver = 2 /\ hdr[t].val = n
    BY <1>4, <1>v, <2>1, <2>2, <2>3, <2>4 DEF Single
  <2>5. CASE hdr[t].val = Tombstone /\ n = Cal!Empty
    BY <1>4, <2>1, <2>2, <2>5 DEF Single
  <2>6. CASE /\ hdr[t].ver = 1 /\ hdr[t].val = Cal!V1Copy(n)
             /\ Cal!Valid(1 - t) /\ hdr[1 - t].ver = 2 /\ hdr[1 - t].val = n
    <3>1. Cal!Pick = Single(1 - t)  BY <1>4, <2>1, <2>2, <2>3, <2>6
    <3>2. Single(1 - t) = n /\ Single(t) = Cal!V1Copy(n)
      BY <1>s, <1>v, <2>1, <2>3, <2>6 DEF Single
    <3> QED BY <2>2, <2>3, <3>1, <3>2
  <2> QED BY <1>7, <2>4, <2>5, <2>6 DEF Holds
<1>8. Cal!Pick \in CalRecords
  <2>1. \A i \in Cal!Slots : Single(i) \in CalRecords  BY <1>v, CalConstants DEF Single
  <2>2. CASE Cal!Newest = 2
    <3>1. Cal!SlotOf(2) = 2 /\ Cal!SlotOf(1) = 2  BY <2>2 DEF Cal!SlotOf
    <3> QED BY <3>1, CalConstants DEF Cal!Pick
  <2>3. CASE Cal!Newest # 2
    <3>1. \A v : Cal!SlotOf(v) = 2 \/ (Cal!SlotOf(v) \in Cal!Slots /\ Fit(Cal!SlotOf(v), v))
      BY <1>1, <2>3 DEF Cal!SlotOf, Cal!Slots
    <3>2. \A i, v : i \in Cal!Slots /\ Fit(i, v) => body[i] \in CalRecords  BY <1>v
    <3>3. Cal!Pick \in {Cal!Empty} \cup {body[i] : i \in {Cal!SlotOf(1), Cal!SlotOf(2)} \ {2}}
      BY DEF Cal!Pick
    <3> QED BY <3>1, <3>2, <3>3, CalConstants
  <2> QED BY <2>2, <2>3
<1> QED BY <1>1, <1>2, <1>3, <1>5, <1>6, <1>7, <1>8 DEF PickFacts

CalTypes ==
    /\ Cal!TypeOK /\ KnownVersions /\ legacy = Blank
    /\ rec \in CalRecords /\ new \in CalRecords
    /\ job \in {"none", "save2", "save1", "clear"}
    /\ old \in BOOLEAN /\ mixed \in BOOLEAN /\ wrote \in Zeros \cup {0}

\* Between calls the newest record holds the zero of the one a boot takes.
AtRest == Cal!Adjacent /\ (~mixed /\ Cal!Newest # 2 => Single(Cal!Newest).zero = Cal!Pick.zero)

\* What each call of a commit writes.
Writes ==
    \/ job = "clear" /\ call.op = "clear" /\ call.ver = 2 /\ call.val = Tombstone /\ new = Cal!Empty
    \/ job = "save2" /\ call.op = "save" /\ call.ver = 2 /\ call.val = new
    \/ job = "save1" /\ call.op = "save" /\ call.ver = 1 /\ call.val = Cal!V1Copy(new)

\* The slot a commit writes and the other one, at each of its flash operations.
CalCall ==
    LET t == call.target
        o == 1 - call.target
    IN  /\ ~old /\ wrote = 0 /\ call.ok = TRUE /\ Writes /\ call.pc # "erase_target"
        /\ Cal!Valid(o) => call.seq = Cal!SuccSeq(hdr[o].seq)
        /\ call.pc = "erase" /\ Cal!Valid(t) => Cal!Valid(o) /\ Cal!Follows(o)
        /\ call.pc \in {"body", "header"} => hdr[t] = Blank
        /\ call.pc = "body" => body[t] = Blank /\ call.op = "save"
        /\ call.pc = "header" /\ call.op = "save" => body[t] = call.val
        /\ call.pc \in {"verify", "erase_other", "erase_legacy"} =>
             hdr[t] = Cal!NewHeader /\ (call.op = "save" => body[t] = call.val)
        /\ call.pc \in {"erase_other", "erase_legacy"} => job = "clear"
        /\ job = "save1" => Cal!Valid(o) /\ hdr[o].ver = 2 /\ hdr[o].val = new
        /\ job # "save1" /\ call.pc \in {"erase", "body", "header"} /\ ~mixed =>
             Single(o).zero = rec.zero /\ (Cal!Valid(t) => Cal!Pick = rec)

CalInv ==
    /\ CalTypes
    /\ call.pc # "idle" => CalCall
    /\ call.pc = "idle" => call = Cal!NoCall /\ AtRest /\ job \in {"none", "save2"}
    /\ call.pc = "idle" /\ job = "save2" =>
         /\ ~old /\ wrote = 0 /\ Cal!Newest # 2
         /\ hdr[Cal!Newest].ver = 2 /\ hdr[Cal!Newest].val = new
    /\ job = "none" => call.pc = "idle" /\ (~old => Cal!Pick = rec)
    /\ old \/ wrote # 0 => job = "none"
    /\ wrote # 0 /\ ~mixed => Cal!Pick = [zero |-> wrote, fit |-> 0]

\* A step that leaves the flash alone leaves what is read from it.
LEMMA CalSame ==
    ASSUME UNCHANGED <<hdr, body>>
    PROVE  /\ Cal!Pick' = Cal!Pick /\ Cal!Newest' = Cal!Newest /\ Cal!Adjacent' = Cal!Adjacent
           /\ KnownVersions' = KnownVersions
           /\ \A i \in Cal!Slots : /\ Cal!Valid(i)' = Cal!Valid(i) /\ Single(i)' = Single(i)
                                   /\ Cal!Follows(i)' = Cal!Follows(i)
<1>1. \A i \in Cal!Slots : /\ Cal!Valid(i)' = Cal!Valid(i) /\ Single(i)' = Single(i)
                           /\ Cal!Follows(i)' = Cal!Follows(i)
  BY DEF Cal!Valid, Single, Cal!Follows
<1>2. Cal!Newest' = Cal!Newest  BY DEF Cal!Newest, Cal!Valid
<1>3. \A v : Cal!SlotOf(v)' = Cal!SlotOf(v)  BY <1>2 DEF Cal!SlotOf, Cal!Valid
<1>4. \A i : Cal!Behind(i)' = Cal!Behind(i)  BY <1>2 DEF Cal!Behind
<1>5. Cal!SlotOf(1)' = Cal!SlotOf(1) /\ Cal!SlotOf(2)' = Cal!SlotOf(2)  BY <1>3
<1>6. Cal!Behind(Cal!SlotOf(1))' = Cal!Behind(Cal!SlotOf(1))
      /\ Cal!Behind(Cal!SlotOf(2))' = Cal!Behind(Cal!SlotOf(2))
  BY <1>2, <1>5 DEF Cal!Behind
<1>7. Cal!Pick' = Cal!Pick  BY <1>5, <1>6 DEF Cal!Pick
<1>8. Cal!Adjacent' = Cal!Adjacent /\ KnownVersions' = KnownVersions
  BY DEF Cal!Adjacent, Cal!Valid, Cal!Follows, KnownVersions
<1> QED BY <1>1, <1>2, <1>7, <1>8

\* An erase cut short leaves the record or none.
LEMMA CutShort ==
    ASSUME NEW i \in Cal!Slots, hdr'[i] \in Cal!CutErase(hdr[i]), body'[i] \in Cal!CutErase(body[i]),
           Cal!TypeOK, Cal!Valid(i)'
    PROVE  Cal!Valid(i) /\ hdr'[i] = hdr[i] /\ Single(i)' = Single(i)
<1>1. hdr'[i] \in Cal!Headers /\ hdr'[i].val \in {Tombstone, body'[i]}  BY DEF Cal!Valid
<1>2. hdr'[i] = hdr[i]  BY <1>1, CalConstants DEF Cal!CutErase
<1>3. CASE hdr[i].val = Tombstone
  BY <1>1, <1>2, <1>3 DEF Cal!Valid, Single
<1>4. CASE hdr[i].val # Tombstone
  <2>1. hdr[i].val \in CalRecords /\ body'[i] = hdr[i].val
    BY <1>1, <1>2, <1>4 DEF Cal!Headers, Cal!Contents
  <2>2. body'[i] = body[i]  BY <2>1, CalConstants DEF Cal!CutErase
  <2> QED BY <1>1, <1>2, <1>4, <2>1, <2>2 DEF Cal!Valid, Single
<1> QED BY <1>3, <1>4

\* When the store is at rest.
RestFacts ==
    /\ \A t \in Cal!Slots : ~Cal!Valid(t) => AtRest
    /\ \A t \in Cal!Slots, n \in CalRecords : Holds(t, n) => AtRest
    /\ \A t \in Cal!Slots :
         /\ Cal!Valid(t) /\ Cal!Valid(1 - t) /\ Cal!Follows(1 - t)
         /\ mixed \/ Single(1 - t).zero = Cal!Pick.zero
         => AtRest

\* With one valid record, or with two of which the other one is the newest and the record picked
\* has its zero, the store is at rest.
LEMMA RestsAt == PickFacts => RestFacts
<1> SUFFICES ASSUME PickFacts PROVE RestFacts
  OBVIOUS
<1>1. ASSUME NEW t \in Cal!Slots, ~Cal!Valid(t) PROVE AtRest
  BY <1>1 DEF PickFacts, AtRest
<1>2. ASSUME NEW t \in Cal!Slots, NEW n \in CalRecords, Holds(t, n) PROVE AtRest
  BY <1>2 DEF PickFacts, AtRest
<1>3. ASSUME NEW t \in Cal!Slots, Cal!Valid(t), Cal!Valid(1 - t), Cal!Follows(1 - t),
             mixed \/ Single(1 - t).zero = Cal!Pick.zero
      PROVE  AtRest
  <2>1. 1 - t \in Cal!Slots /\ 1 - (1 - t) = t  BY DEF Cal!Slots
  <2>2. Cal!Newest = 1 - t /\ Cal!Adjacent  BY <1>3, <2>1 DEF PickFacts
  <2> QED BY <1>3, <2>2 DEF AtRest
<1> QED BY <1>1, <1>2, <1>3 DEF RestFacts

CalCalls == [op : {"none", "save", "clear"},
             pc : {"idle", "erase", "body", "header", "verify",
                   "erase_target", "erase_other", "erase_legacy"},
             target : Cal!Slots, seq : Cal!Seqs, ver : Versions, val : Cal!Contents, ok : BOOLEAN]

\* The state has its types after every flash operation, every call and every save by older firmware.
LEMMA CalStoreTypes ==
    ASSUME CalInv, Cal!CalNext
    PROVE  Cal!TypeOK' /\ KnownVersions' /\ legacy' = Blank
<1> USE DEF Cal!TypeOK, CalCalls
<1>1. /\ Cal!TypeOK /\ KnownVersions /\ legacy = Blank /\ new \in CalRecords /\ old \in BOOLEAN
      /\ call.pc # "idle" => CalCall
      /\ call.pc = "idle" => Cal!Adjacent /\ call = Cal!NoCall
  BY DEF CalInv, CalTypes, AtRest
<1>2. Cal!NoCall \in CalCalls
  <2>1. 0 \in Cal!Slots /\ 0 \in Cal!Seqs /\ 2 \in Versions /\ Tombstone \in Cal!Contents
    BY CalConstants DEF Cal!Slots, Cal!Seqs, Cal!SeqMod, Cal!Contents
  <2> QED BY <2>1 DEF Cal!NoCall
<1>3. Cal!NewHeader \in Cal!Headers /\ Cal!NewHeader.ver = call.ver
  BY <1>1 DEF Cal!NewHeader, Cal!Headers
<1>4. call.target \in Cal!Slots /\ 1 - call.target \in Cal!Slots  BY <1>1 DEF Cal!Slots
<1>5. call.pc # "idle" => call.ver \in {1, 2} /\ (call.op = "save" => call.val \in CalRecords)
  BY <1>1, CalConstants DEF CalCall, Writes
<1>6. \A r \in CalRecords : r \in Cal!Contents /\ Tombstone \in Cal!Contents /\ {1, 2} \subseteq Versions
  BY CalConstants DEF Cal!Contents
<1>k. ASSUME NEW i \in Cal!Slots, NEW h, h \in Cal!Headers => h.ver \in {1, 2}, hdr' = [hdr EXCEPT ![i] = h]
      PROVE  KnownVersions'
  BY <1>k, <1>1 DEF KnownVersions
<1>u. hdr' = hdr => KnownVersions'  BY <1>1 DEF KnownVersions
<1>v. \A i \in Cal!Slots : \A h : hdr' = [hdr EXCEPT ![i] = h] /\ h \in {hdr[i], Blank, Torn}
          => KnownVersions'
  BY <1>1, CalConstants DEF KnownVersions
<1>7. ASSUME NEW op \in {"save", "clear"}, NEW ver \in {1, 2}, NEW val \in Cal!Contents,
             Cal!Begin(op, ver, val)
      PROVE  Cal!TypeOK' /\ KnownVersions' /\ legacy' = Blank
  <2>1. Cal!Target \in Cal!Slots /\ Cal!NextSeq \in Cal!Seqs
    BY <1>1, <1>7, CalConstants, Cal!TargetOf DEF Cal!Begin
  <2>2. call' \in CalCalls  BY <1>7, <2>1, CalConstants DEF Cal!Begin
  <2> QED BY <1>1, <1>7, <1>u, <2>2 DEF Cal!Begin
<1>8. ASSUME Cal!Erase PROVE Cal!TypeOK' /\ KnownVersions' /\ legacy' = Blank
  BY <1>1, <1>4, <1>v, <1>8 DEF Cal!Erase
<1>9. ASSUME Cal!ProgramBody PROVE Cal!TypeOK' /\ KnownVersions' /\ legacy' = Blank
  <2>1. call.val \in CalRecords  BY <1>1, <1>5, <1>9 DEF Cal!ProgramBody, CalCall
  <2>2. Cal!Programmed(body[call.target], call.val) \subseteq CalRecords \cup {Blank, Torn}
    BY <2>1, <1>1, <1>4, CalConstants, Cal!CutTypes
  <2> QED BY <1>1, <1>4, <1>u, <1>9, <2>2 DEF Cal!ProgramBody
<1>10. ASSUME Cal!ProgramHeader PROVE Cal!TypeOK' /\ KnownVersions' /\ legacy' = Blank
  <2>1. Cal!Programmed(hdr[call.target], Cal!NewHeader) \subseteq {Cal!NewHeader, Torn}
    BY DEF Cal!Programmed
  <2>2. call.ver \in {1, 2}  BY <1>5, <1>10 DEF Cal!ProgramHeader
  <2>3. PICK h \in {Cal!NewHeader, Torn} : hdr' = [hdr EXCEPT ![call.target] = h]
    BY <1>10, <2>1 DEF Cal!ProgramHeader
  <2>4. h \in Cal!Headers \cup {Torn} /\ (h \in Cal!Headers => h.ver \in {1, 2})
    BY <1>3, <2>2, <2>3, CalConstants
  <2>5. KnownVersions'  BY <1>4, <1>k, <2>3, <2>4
  <2> QED BY <1>1, <1>4, <1>10, <2>3, <2>4, <2>5 DEF Cal!ProgramHeader
<1>11. ASSUME Cal!Verify PROVE Cal!TypeOK' /\ KnownVersions' /\ legacy' = Blank
  <2>1. Cal!Written \in BOOLEAN  BY DEF Cal!Written, Cal!Valid
  <2> QED BY <1>1, <1>2, <1>u, <1>11, <2>1 DEF Cal!Verify
<1>12. ASSUME NEW i \in Cal!Slots, NEW stage, NEW next \in {"erase_other", "erase_legacy"},
              Cal!EraseSlot(i, stage, next)
       PROVE  Cal!TypeOK' /\ KnownVersions' /\ legacy' = Blank
  BY <1>1, <1>v, <1>12 DEF Cal!EraseSlot
<1>13. ASSUME Cal!EraseLegacy PROVE Cal!TypeOK' /\ KnownVersions' /\ legacy' = Blank
  BY <1>1, <1>2, <1>u, <1>13 DEF Cal!EraseLegacy
<1>14. ASSUME Cal!PowerLoss PROVE Cal!TypeOK' /\ KnownVersions' /\ legacy' = Blank
  <2> DEFINE i == IF call.pc = "erase_other" THEN 1 - call.target ELSE call.target
  <2>1. i \in Cal!Slots /\ hdr[i] \in Cal!Headers \cup {Blank, Torn}
        /\ body[i] \in CalRecords \cup {Blank, Torn}
    BY <1>1, <1>4
  <2>2. call.pc = "body" => call.val \in CalRecords
    BY <1>1, <1>5, <1>14 DEF Cal!PowerLoss, CalCall
  <2>3. PICK h, b : /\ hdr' = [hdr EXCEPT ![i] = h] /\ body' = [body EXCEPT ![i] = b]
                    /\ h \in {hdr[i], Blank, Torn} \/ (call.pc = "header" /\ h = Cal!NewHeader)
                    /\ b \in {body[i], Blank, Torn} \/ (call.pc = "body" /\ b = call.val)
    BY <1>14 DEF Cal!PowerLoss, Cal!CutErase, Cal!CutProgram, Cal!Programmed
  <2>4. h \in Cal!Headers \cup {Blank, Torn} /\ b \in CalRecords \cup {Blank, Torn}
    BY <1>3, <2>1, <2>2, <2>3
  <2>5. KnownVersions'
    <3>1. CASE h \in {hdr[i], Blank, Torn}
      BY <1>v, <2>1, <2>3, <3>1
    <3>2. CASE call.pc = "header" /\ h = Cal!NewHeader
      <4>1. h.ver \in {1, 2}  BY <1>3, <1>5, <3>2
      <4> QED BY <1>k, <2>1, <2>3, <4>1
    <3> QED BY <2>3, <3>1, <3>2
  <2>6. legacy' = Blank /\ call' = Cal!NoCall /\ result' = result
    BY <1>1, <1>14 DEF Cal!PowerLoss
  <2> HIDE DEF i
  <2> QED BY <1>1, <1>2, <2>1, <2>3, <2>4, <2>5, <2>6
<1>15. ASSUME NEW z \in Zeros, Cal!OldSave(z) PROVE Cal!TypeOK' /\ KnownVersions' /\ legacy' = Blank
  <2> DEFINE v == [zero |-> z, fit |-> 0]
             h == [seq |-> Cal!NextSeq, ver |-> 1, val |-> v]
  <2>1. Cal!Target \in Cal!Slots /\ Cal!NextSeq \in Cal!Seqs
    BY <1>1, <1>15, CalConstants, Cal!TargetOf DEF Cal!OldSave
  <2>2. v \in CalRecords  BY DEF CalRecords
  <2>3. h \in Cal!Headers /\ h.ver = 1
    BY <2>1, <2>2, CalConstants DEF Cal!Headers, Cal!Contents
  <2>4. hdr' = [hdr EXCEPT ![Cal!Target] = h] /\ body' = [body EXCEPT ![Cal!Target] = v]
        /\ legacy' = legacy /\ call' = call /\ result' = result
    BY <1>15 DEF Cal!OldSave
  <2> HIDE DEF v, h
  <2>5. KnownVersions'  BY <1>k, <2>1, <2>3, <2>4
  <2> QED BY <1>1, <2>1, <2>2, <2>3, <2>4, <2>5
<1>16. ASSUME UNCHANGED <<hdr, body, legacy, call, result>> PROVE Cal!TypeOK' /\ KnownVersions'
       /\ legacy' = Blank
  BY <1>1, <1>u, <1>16
<1>17. ASSUME NEW r \in Cal!Records, Cal!Commit(r) PROVE Cal!TypeOK' /\ KnownVersions' /\ legacy' = Blank
  <2>1. r \in CalRecords /\ Tombstone \in Cal!Contents
    BY CalConstants DEF Cal!Records, CalRecords, Cal!Contents
  <2> QED BY <1>6, <1>7, <1>17, <2>1 DEF Cal!Commit, Cal!Save, Cal!Clear
<1>18. ASSUME Cal!SaveCopy PROVE Cal!TypeOK' /\ KnownVersions' /\ legacy' = Blank
  <2>1. Cal!V1Copy(new) \in Cal!Contents  BY <1>1, <1>6, CalConstants
  <2> QED BY <1>7, <1>18, <2>1 DEF Cal!SaveCopy, Cal!Save
<1>19. ASSUME Cal!CommitStep PROVE Cal!TypeOK' /\ KnownVersions' /\ legacy' = Blank
  BY <1>4, <1>8, <1>9, <1>10, <1>11, <1>12, <1>13, <1>19
     DEF Cal!CommitStep, Cal!WriteStep, Cal!EraseTarget, Cal!EraseOther
<1>20. CASE Cal!Reboot
  BY <1>16, <1>20 DEF Cal!Reboot
<1>21. CASE Cal!PowerLossInCommit
  BY <1>14, <1>16, <1>21 DEF Cal!PowerLossInCommit
<1> QED BY <1>15, <1>17, <1>18, <1>19, <1>20, <1>21 DEF Cal!CalNext

\* Where a commit stands: its call has written its record, or the other slot is as before.
LEMMA CallStands ==
    ASSUME CalTypes, CalCall, PickFacts, call.pc # "idle", NEW t \in Cal!Slots, t = call.target
    PROVE  /\ call.pc \in {"verify", "erase_other", "erase_legacy"} => Holds(t, new)
           /\ call.pc \in {"erase", "body", "header"} /\ job = "save1" => Cal!Pick = new /\ Single(1 - t) = new
           /\ call.pc \in {"erase", "body", "header"} /\ job # "save1" /\ ~mixed =>
                Cal!Pick.zero = rec.zero /\ Single(1 - t).zero = rec.zero
<1>1. 1 - t \in Cal!Slots /\ 1 - (1 - t) = t /\ t # 1 - t  BY DEF Cal!Slots
<1>2. new \in CalRecords /\ new # Tombstone /\ Tombstone \notin CalRecords
  BY CalConstants DEF CalTypes
<1>3. call.seq \in Cal!Seqs /\ call.ver \in {1, 2} /\ call.ver \in Versions /\ call.val \in Cal!Contents
  BY DEF CalTypes, Cal!TypeOK, CalCall, Writes
<1>4. ASSUME call.pc \in {"verify", "erase_other", "erase_legacy"} PROVE Holds(t, new)
  <2>1. hdr[t] = Cal!NewHeader /\ (call.op = "save" => body[t] = call.val)  BY <1>4 DEF CalCall
  <2>2. hdr[t] \in Cal!Headers /\ hdr[t].seq = call.seq /\ hdr[t].ver = call.ver /\ hdr[t].val = call.val
    BY <2>1, <1>3 DEF Cal!NewHeader, Cal!Headers
  <2>3. Cal!Valid(t)  BY <2>1, <2>2 DEF Cal!Valid, CalCall, Writes
  <2>4. Cal!Valid(1 - t) => Cal!Follows(t)  BY <2>2 DEF CalCall, Cal!Follows
  <2>5. job = "save1" => Cal!Valid(1 - t) /\ hdr[1 - t].ver = 2 /\ hdr[1 - t].val = new
    BY DEF CalCall
  <2> QED BY <2>2, <2>3, <2>4, <2>5 DEF Holds, CalCall, Writes
<1>5. ASSUME call.pc \in {"erase", "body", "header"} PROVE Cal!Valid(t) => Cal!Valid(1 - t)
      /\ Cal!Follows(1 - t)
  <2>1. call.pc # "erase" => hdr[t] = Blank  BY <1>5 DEF CalCall
  <2>2. call.pc # "erase" => ~Cal!Valid(t)  BY <2>1, CalConstants DEF Cal!Valid
  <2> QED BY <2>2 DEF CalCall
<1>6. ASSUME call.pc \in {"erase", "body", "header"}, job = "save1"
      PROVE  Cal!Pick = new /\ Single(1 - t) = new
  <2>1. Cal!Valid(1 - t) /\ hdr[1 - t].ver = 2 /\ hdr[1 - t].val = new  BY <1>6 DEF CalCall
  <2>2. Single(1 - t) = new  BY <2>1, <1>2 DEF Single, Cal!Valid
  <2>3. CASE Cal!Valid(t)
    <3>1. Cal!Valid(1 - (1 - t)) /\ Cal!Follows(1 - t)  BY <1>1, <1>5, <1>6, <2>3
    <3> QED BY <1>1, <2>1, <2>2, <3>1 DEF PickFacts
  <2>4. CASE ~Cal!Valid(t)
    BY <2>2, <2>4 DEF PickFacts
  <2> QED BY <2>2, <2>3, <2>4
<1>7. ASSUME call.pc \in {"erase", "body", "header"}, job # "save1", ~mixed
      PROVE  Cal!Pick.zero = rec.zero /\ Single(1 - t).zero = rec.zero
  <2>1. Single(1 - t).zero = rec.zero /\ (Cal!Valid(t) => Cal!Pick = rec)  BY <1>7 DEF CalCall
  <2>2. ~Cal!Valid(t) => Cal!Pick = Single(1 - t)  BY DEF PickFacts
  <2> QED BY <2>1, <2>2
<1> QED BY <1>4, <1>6, <1>7

\* adc_cal.c: what a boot would load, at each moment.
LEMMA CalTrue ==
    CalInv => /\ Cal!ZeroSurvives /\ Cal!LoadsWhole /\ Cal!OldFirmwareWins
              /\ Cal!TypeOK /\ {rec, new} \subseteq CalRecords
<1> SUFFICES ASSUME CalInv
             PROVE  /\ Cal!ZeroSurvives /\ Cal!LoadsWhole /\ Cal!OldFirmwareWins
                    /\ Cal!TypeOK /\ {rec, new} \subseteq CalRecords
  OBVIOUS
<1>1. CalTypes /\ PickFacts  BY PickOf DEF CalInv, CalTypes
<1>2. Cal!LoadsWhole /\ Cal!OldFirmwareWins  BY DEF CalInv, Cal!LoadsWhole, Cal!OldFirmwareWins
<1>3. ASSUME ~old, wrote = 0, ~mixed PROVE Cal!Pick.zero \in {rec.zero, new.zero}
  <2>1. CASE job = "none"
    BY <1>3, <2>1 DEF CalInv
  <2>2. CASE job # "none" /\ call.pc = "idle"
    <3>1. job = "save2" /\ Cal!Newest # 2 /\ hdr[Cal!Newest].ver = 2 /\ hdr[Cal!Newest].val = new /\ AtRest
      BY <2>2 DEF CalInv
    <3>2. Cal!Valid(Cal!Newest)  BY <1>1, <3>1 DEF PickFacts
    <3>3. Single(Cal!Newest) = new
      BY <1>1, <3>1, <3>2, CalConstants DEF Single, Cal!Valid, CalTypes
    <3> QED BY <1>3, <3>1, <3>3 DEF AtRest
  <2>3. CASE call.pc # "idle"
    <3>1. CalCall /\ call.target \in Cal!Slots /\ call.pc # "erase_target" /\
          call.pc \in {"idle", "erase", "body", "header", "verify", "erase_target", "erase_other",
                    "erase_legacy"}
      BY <1>1, <2>3 DEF CalInv, CalCall, CalTypes, Cal!TypeOK
    <3>2. CASE call.pc \in {"verify", "erase_other", "erase_legacy"}
      <4>1. Holds(call.target, new)  BY <1>1, <2>3, <3>1, <3>2, CallStands
      <4> QED BY <1>1, <3>1, <4>1 DEF PickFacts, CalTypes
    <3>3. CASE call.pc \in {"erase", "body", "header"}
      BY <1>1, <1>3, <2>3, <3>1, <3>3, CallStands
    <3> QED BY <2>3, <3>1, <3>2, <3>3
  <2> QED BY <2>1, <2>2, <2>3
<1>4. Cal!ZeroSurvives  BY <1>3 DEF Cal!ZeroSurvives
<1> QED BY <1>1, <1>2, <1>4 DEF CalTypes

\* ab_store_save_version, ab_store_clear: a call starts, on the slot that does not hold the newest record.
LEMMA CalBegins ==
    ASSUME CalInv, ~old, NEW op \in {"save", "clear"}, NEW ver \in {1, 2}, NEW val,
           Cal!Begin(op, ver, val), UNCHANGED <<rec, old, mixed>>, wrote' = 0, Writes',
           \/ job = "none" /\ job' \in {"save2", "clear"}
           \/ job = "save2" /\ job' = "save1" /\ new' = new,
           CalTypes'
    PROVE  CalInv'
<1>1. /\ CalTypes /\ PickFacts /\ Cal!Adjacent
      /\ ~mixed /\ Cal!Newest # 2 => Single(Cal!Newest).zero = Cal!Pick.zero
  BY PickOf DEF CalInv, CalTypes, AtRest, Cal!Begin
<1>2. PICK t \in Cal!Slots : /\ t = Cal!Target
                             /\ Cal!Valid(1 - t) => Cal!NextSeq = Cal!SuccSeq(hdr[1 - t].seq)
                             /\ Cal!Valid(t) => Cal!Valid(1 - t) /\ Cal!Follows(1 - t)
  BY <1>1, CalConstants, Cal!TargetOf DEF CalTypes
<1>3. /\ hdr' = hdr /\ body' = body
      /\ call' = [op |-> op, pc |-> "erase", target |-> t, seq |-> Cal!NextSeq,
                  ver |-> ver, val |-> val, ok |-> TRUE]
  BY <1>2 DEF Cal!Begin
<1>4. Cal!Newest # 2 => 1 - t = Cal!Newest  BY <1>1, <1>2 DEF Cal!Target, PickFacts
<1>5. Cal!Newest = 2 => ~Cal!Valid(t)  BY <1>2 DEF Cal!Newest, Cal!Slots
<1>6. 1 - t \in Cal!Slots  BY <1>2 DEF Cal!Slots
<1>7. /\ Cal!Pick' = Cal!Pick
      /\ \A i \in Cal!Slots : /\ Cal!Valid(i)' = Cal!Valid(i) /\ Single(i)' = Single(i)
                              /\ Cal!Follows(i)' = Cal!Follows(i)
  BY <1>3, CalSame
<1>8. call'.target = t /\ call'.op = op /\ call'.pc = "erase" /\ call'.seq = Cal!NextSeq /\ call'.ok = TRUE
  BY <1>3
<1>9. ASSUME job' # "save1", ~mixed PROVE Single(1 - t).zero = rec.zero /\ Cal!Pick = rec
  <2>1. Cal!Pick = rec  BY <1>9 DEF CalInv
  <2>2. CASE Cal!Newest = 2
    BY <1>1, <1>2, <1>5, <2>1, <2>2 DEF PickFacts
  <2>3. CASE Cal!Newest # 2
    BY <1>1, <1>4, <1>9, <2>1, <2>3
  <2> QED BY <2>1, <2>2, <2>3
<1>10. ASSUME job' = "save1" PROVE Cal!Valid(1 - t) /\ hdr[1 - t].ver = 2 /\ hdr[1 - t].val = new'
  <2>1. Cal!Newest # 2 /\ hdr[Cal!Newest].ver = 2 /\ hdr[Cal!Newest].val = new /\ new' = new
    BY <1>10 DEF CalInv, Cal!Begin
  <2> QED BY <1>1, <1>4, <2>1 DEF PickFacts
<1>11. /\ ~old' /\ wrote' = 0 /\ call'.ok = TRUE /\ Writes' /\ call'.pc # "erase_target"
       /\ Cal!Valid(1 - t)' => call'.seq = Cal!SuccSeq(hdr'[1 - t].seq)
       /\ Cal!Valid(t)' => Cal!Valid(1 - t)' /\ Cal!Follows(1 - t)'
       /\ job' = "save1" => Cal!Valid(1 - t)' /\ hdr'[1 - t].ver = 2 /\ hdr'[1 - t].val = new'
       /\ job' # "save1" /\ ~mixed' => Single(1 - t)'.zero = rec'.zero /\ Cal!Pick' = rec'
  BY <1>2, <1>3, <1>6, <1>7, <1>8, <1>9, <1>10
<1>12. CalCall'  BY <1>8, <1>11 DEF CalCall
<1> QED BY <1>8, <1>12 DEF CalInv

\* A flash operation of a call on its slot, the other slot being left alone.
LEMMA CalOther ==
    ASSUME NEW o \in Cal!Slots, hdr'[o] = hdr[o], body'[o] = body[o]
    PROVE  Cal!Valid(o)' = Cal!Valid(o) /\ Single(o)' = Single(o)
BY DEF Cal!Valid, Single

\* A call that goes on: the operations before its header, and a clear's erases.
LEMMA CalGoesOn ==
    ASSUME CalInv, call.pc # "idle", Cal!WriteStep, call'.pc # "idle",
           UNCHANGED <<rec, job, new, old, wrote, mixed>>, CalTypes'
    PROVE  CalInv'
<1>1. CalTypes /\ CalCall  BY DEF CalInv
<1>c. PICK t \in Cal!Slots, o \in Cal!Slots : call.target = t /\ 1 - t = o
  BY <1>1 DEF CalTypes, Cal!TypeOK, Cal!Slots
<1>2. t # o /\ 1 - o = t  BY <1>c DEF Cal!Slots
<1>3. /\ ~old /\ wrote = 0 /\ call.ok = TRUE /\ Writes /\ call.pc # "erase_target"
      /\ Cal!Valid(o) => call.seq = Cal!SuccSeq(hdr[o].seq)
      /\ call.pc = "erase" /\ Cal!Valid(t) => Cal!Valid(o) /\ Cal!Follows(o)
      /\ call.pc \in {"body", "header"} => hdr[t] = Blank
      /\ call.pc = "body" => body[t] = Blank /\ call.op = "save"
      /\ call.pc = "header" /\ call.op = "save" => body[t] = call.val
      /\ call.pc \in {"verify", "erase_other", "erase_legacy"} =>
           hdr[t] = Cal!NewHeader /\ (call.op = "save" => body[t] = call.val)
      /\ call.pc \in {"erase_other", "erase_legacy"} => job = "clear"
      /\ job = "save1" => Cal!Valid(o) /\ hdr[o].ver = 2 /\ hdr[o].val = new
      /\ job # "save1" /\ call.pc \in {"erase", "body", "header"} /\ ~mixed =>
           Single(o).zero = rec.zero /\ (Cal!Valid(t) => Cal!Pick = rec)
  BY <1>1, <1>c DEF CalCall
<1>4. /\ hdr \in [Cal!Slots -> Cal!Headers \cup {Blank, Torn}]
      /\ body \in [Cal!Slots -> CalRecords \cup {Blank, Torn}]
      /\ call.val \in CalRecords => call.val # Tombstone
      /\ job = "clear" <=> call.val = Tombstone
      /\ job = "clear" <=> call.op = "clear"
  BY <1>1, <1>3, CalConstants DEF CalTypes, Cal!TypeOK, Writes
<1>5. ~Cal!EraseTarget  BY <1>3 DEF Cal!EraseTarget, Cal!EraseSlot
\* Enough for the new state of the call and of its slot.
<1>6. ASSUME NEW stage, call' = [call EXCEPT !.pc = stage], stage \in {"body", "header", "verify"},
             hdr'[o] = hdr[o], body'[o] = body[o],
             call.pc \in {"erase", "body", "header"},
             stage \in {"body", "header"} => hdr'[t] = Blank,
             stage = "body" => body'[t] = Blank /\ call.op = "save",
             stage = "header" /\ call.op = "save" => body'[t] = call.val,
             stage = "verify" => hdr'[t] = Cal!NewHeader /\ (call.op = "save" => body'[t] = call.val)
      PROVE  CalCall'
  <2>1. /\ call'.pc = stage /\ call'.target = t /\ call'.op = call.op /\ call'.ver = call.ver
        /\ call'.val = call.val /\ call'.seq = call.seq /\ call'.ok = call.ok
    BY <1>6, <1>1, <1>c DEF CalTypes, Cal!TypeOK
  <2>2. Cal!Valid(o)' = Cal!Valid(o) /\ Single(o)' = Single(o)  BY <1>2, <1>6, CalOther
  <2>3. stage \in {"body", "header"} => ~Cal!Valid(t)'  BY <1>6, CalConstants DEF Cal!Valid
  <2>4. Cal!NewHeader' = Cal!NewHeader  BY <2>1 DEF Cal!NewHeader
  <2>5. Writes'  BY <1>3, <2>1 DEF Writes
  <2>6. stage \notin {"idle", "erase", "erase_target", "erase_other", "erase_legacy"}  BY <1>6
  <2>7. /\ ~old' /\ wrote' = 0 /\ call'.ok = TRUE /\ Writes' /\ stage # "erase_target"
        /\ Cal!Valid(o)' => call'.seq = Cal!SuccSeq(hdr'[o].seq)
        /\ stage \in {"body", "header"} => hdr'[t] = Blank
        /\ stage = "body" => body'[t] = Blank /\ call'.op = "save"
        /\ stage = "header" /\ call'.op = "save" => body'[t] = call'.val
        /\ stage = "verify" => hdr'[t] = Cal!NewHeader' /\ (call'.op = "save" => body'[t] = call'.val)
    BY <1>3, <1>6, <2>1, <2>2, <2>4, <2>5, <2>6
  <2>8. /\ job' = "save1" => Cal!Valid(o)' /\ hdr'[o].ver = 2 /\ hdr'[o].val = new'
        /\ job' # "save1" /\ stage \in {"body", "header"} /\ ~mixed' =>
             Single(o)'.zero = rec'.zero /\ (Cal!Valid(t)' => Cal!Pick' = rec')
    BY <1>3, <1>6, <2>2, <2>3
  <2> QED BY <1>c, <2>1, <2>6, <2>7, <2>8 DEF CalCall
<1>7. ASSUME NEW stage \in {"erase_other", "erase_legacy"}, call' = [call EXCEPT !.pc = stage, !.ok = TRUE],
             hdr'[t] = hdr[t], body'[t] = body[t], hdr[t] = Cal!NewHeader, job = "clear",
             Cal!Valid(o)' => call.seq = Cal!SuccSeq(hdr'[o].seq),
             stage = "erase_legacy" => hdr'[o] = Blank
      PROVE  CalCall'
  <2>1. /\ call'.pc = stage /\ call'.target = t /\ call'.op = call.op /\ call'.ver = call.ver
        /\ call'.val = call.val /\ call'.seq = call.seq /\ call'.ok = TRUE
    BY <1>7, <1>1, <1>c DEF CalTypes, Cal!TypeOK
  <2>2. Cal!NewHeader' = Cal!NewHeader  BY <2>1 DEF Cal!NewHeader
  <2>3. Writes'  BY <1>3, <2>1 DEF Writes
  <2>4. stage \notin {"idle", "erase", "body", "header", "verify", "erase_target"}  BY <1>7
  <2> QED BY <1>c, <1>3, <1>4, <1>7, <2>1, <2>2, <2>3, <2>4 DEF CalCall
<1>8. ASSUME Cal!Erase PROVE CalCall'
  <2>1. call.pc = "erase" /\ hdr'[t] = Blank /\ hdr'[o] = hdr[o] /\ body'[t] = Blank /\ body'[o] = body[o]
    BY <1>2, <1>4, <1>8, <1>c DEF Cal!Erase
  <2>2. CASE call.val = Tombstone
    BY <1>4, <1>6, <1>8, <2>1, <2>2 DEF Cal!Erase
  <2>3. CASE call.val # Tombstone
    BY <1>3, <1>4, <1>6, <1>8, <2>1, <2>3 DEF Cal!Erase, Writes
  <2> QED BY <2>2, <2>3
<1>9. ASSUME Cal!ProgramBody PROVE CalCall'
  <2>1. call.pc = "body" /\ hdr' = hdr /\ body'[t] = call.val /\ body'[o] = body[o]
    BY <1>2, <1>3, <1>4, <1>9, <1>c DEF Cal!ProgramBody, Cal!Programmed
  <2> QED BY <1>3, <1>6, <1>9, <2>1 DEF Cal!ProgramBody
<1>10. ASSUME Cal!ProgramHeader PROVE CalCall'
  <2>1. call.pc = "header" /\ body' = body /\ hdr'[t] = Cal!NewHeader /\ hdr'[o] = hdr[o]
    BY <1>2, <1>3, <1>4, <1>10, <1>c DEF Cal!ProgramHeader, Cal!Programmed
  <2> QED BY <1>3, <1>6, <1>10, <2>1 DEF Cal!ProgramHeader
<1>11. ASSUME Cal!Verify PROVE CalCall'
  <2>1. call.pc = "verify" /\ hdr' = hdr /\ body' = body /\ call.op # "save"
    BY <1>11 DEF Cal!Verify, Cal!NoCall
  <2>2. job = "clear" /\ call.val = Tombstone /\ hdr[t] = Cal!NewHeader
    BY <1>3, <2>1 DEF Writes
  <2>3. hdr[t] \in Cal!Headers /\ hdr[t].val = Tombstone
    BY <1>2, <1>4, <2>2, <1>1, CalConstants DEF Cal!NewHeader, Cal!Headers, CalTypes, Cal!TypeOK
  <2>4. Cal!Written  BY <1>c, <2>2, <2>3 DEF Cal!Written, Cal!Valid
  <2>5. call' = [call EXCEPT !.pc = "erase_other", !.ok = TRUE]
    BY <1>11, <2>1, <2>4 DEF Cal!Verify
  <2>6. Cal!Valid(o)' = Cal!Valid(o)  BY <1>2, <2>1, CalOther
  <2> QED BY <1>3, <1>7, <2>1, <2>2, <2>5, <2>6
<1>12. ASSUME Cal!EraseOther PROVE CalCall'
  <2>1. call.pc = "erase_other" /\ hdr'[o] = Blank /\ hdr'[t] = hdr[t] /\ body'[t] = body[t]
        /\ call' = [call EXCEPT !.pc = "erase_legacy"]
    BY <1>2, <1>4, <1>12, <1>c DEF Cal!EraseOther, Cal!EraseSlot
  <2>2. call' = [call EXCEPT !.pc = "erase_legacy", !.ok = TRUE]
    BY <1>1, <1>3, <2>1 DEF CalTypes, Cal!TypeOK
  <2>3. ~Cal!Valid(o)'  BY <2>1, CalConstants DEF Cal!Valid
  <2> QED BY <1>3, <1>7, <2>1, <2>2, <2>3
<1>13. ASSUME Cal!EraseLegacy PROVE CalCall'
  BY <1>13 DEF Cal!EraseLegacy, Cal!NoCall
<1>14. CalCall'  BY <1>5, <1>8, <1>9, <1>10, <1>11, <1>12, <1>13 DEF Cal!WriteStep
<1> QED BY <1>1, <1>3, <1>14 DEF CalInv, Writes

\* A call that returns, and what it leaves: the record it wrote.
LEMMA CalReturns ==
    ASSUME CalInv, Cal!CommitStep, call'.pc = "idle", CalTypes', PickFacts'
    PROVE  CalInv'
<1>1. CalTypes /\ CalCall /\ call.pc # "idle" /\ ~old /\ wrote = 0 /\ PickFacts /\ Writes
  BY PickOf DEF CalInv, CalTypes, Cal!CommitStep, CalCall
<1>2. PICK t \in Cal!Slots : t = call.target
  BY <1>1 DEF CalTypes, Cal!TypeOK
<1>3. ASSUME Cal!Verify PROVE call.op = "save" /\ job # "clear"
  BY <1>1, <1>3 DEF Cal!CommitStep, Cal!Verify, CalTypes, Cal!TypeOK, Writes
<1>4. call.pc \in {"verify", "erase_legacy"} /\ UNCHANGED <<hdr, body>>
  <2>1. \A i, stage, next : next # "idle" => ~Cal!EraseSlot(i, stage, next)
    BY <1>1 DEF Cal!EraseSlot, CalTypes, Cal!TypeOK, Cal!CommitStep
  <2>2. ~Cal!Erase /\ ~Cal!ProgramBody /\ ~Cal!ProgramHeader
    BY <1>1 DEF Cal!Erase, Cal!ProgramBody, Cal!ProgramHeader, CalTypes, Cal!TypeOK
  <2>3. Cal!Verify \/ Cal!EraseLegacy
    BY <2>1, <2>2 DEF Cal!CommitStep, Cal!WriteStep, Cal!EraseTarget, Cal!EraseOther
  <2> QED BY <2>3 DEF Cal!Verify, Cal!EraseLegacy
<1>5. Holds(t, new)  BY <1>1, <1>2, <1>4, CallStands
<1>6. result' = TRUE /\ call' = Cal!NoCall /\ (Cal!EraseLegacy => job = "clear")
  <2>1. Cal!Verify \/ Cal!EraseLegacy
    BY <1>1, <1>4 DEF Cal!CommitStep, Cal!WriteStep, Cal!Erase, Cal!ProgramBody, Cal!ProgramHeader,
       Cal!EraseTarget, Cal!EraseOther, Cal!EraseSlot
  <2>2. ASSUME Cal!EraseLegacy PROVE result' = TRUE /\ call' = Cal!NoCall /\ job = "clear"
    BY <1>1, <2>2 DEF Cal!EraseLegacy, CalCall
  <2>3. ASSUME Cal!Verify PROVE result' = TRUE /\ call' = Cal!NoCall
    <3>1. hdr[t] = Cal!NewHeader /\ body[t] = call.val /\ Cal!Valid(t)
      BY <1>1, <1>2, <1>3, <1>4, <1>5, <2>3 DEF CalCall, Holds, Cal!Verify
    <3>2. Cal!Written  BY <1>2, <3>1 DEF Cal!Written
    <3> QED BY <1>3, <2>3, <3>2 DEF Cal!Verify
  <2>4. Cal!EraseLegacy => ~Cal!Verify  BY DEF Cal!Verify, Cal!EraseLegacy
  <2> QED BY <2>1, <2>2, <2>3, <2>4
<1>7. /\ Cal!Newest' = t /\ Cal!Pick' = new /\ AtRest'
  <2>1. Holds(t, new) => Cal!Newest = t /\ Cal!Pick = new /\ AtRest
    BY <1>1, RestsAt DEF RestFacts, PickFacts, CalTypes
  <2>2. mixed' = mixed  BY DEF Cal!CommitStep
  <2>3. t \in {0, 1}  BY DEF Cal!Slots
  <2>4. \A i \in Cal!Slots : Single(i)' = Single(i)  BY <1>4, CalSame
  <2>5. /\ Cal!Newest' = Cal!Newest /\ Cal!Pick' = Cal!Pick /\ Cal!Adjacent' = Cal!Adjacent
    BY <1>4, CalSame
  <2>6. Single(Cal!Newest)' = Single(Cal!Newest)  BY <1>5, <2>1, <2>4, <2>5
  <2> QED BY <1>5, <2>1, <2>2, <2>3, <2>5, <2>6 DEF AtRest
<1>8. CASE job = "save2"
  <2>1. job' = "save2" /\ new' = new /\ old' = old /\ wrote' = wrote
    BY <1>6, <1>8 DEF Cal!CommitStep
  <2>2. hdr[t].ver = 2 /\ hdr[t].val = new
    <3>1. call.pc = "verify"  BY <1>1, <1>4, <1>8 DEF CalCall
    <3>2. hdr[t] = Cal!NewHeader  BY <1>1, <1>2, <3>1 DEF CalCall
    <3> QED BY <1>1, <1>8, <3>2 DEF Cal!NewHeader, Writes
  <2>3. t # 2  BY DEF Cal!Slots
  <2>4. hdr' = hdr /\ call'.pc = "idle" /\ ~old' /\ wrote' = 0  BY <1>1, <1>4, <2>1
  <2> QED BY <1>6, <1>7, <2>1, <2>2, <2>3, <2>4 DEF CalInv
<1>9. CASE job # "save2"
  <2>1. job' = "none" /\ rec' = new /\ old' = old /\ wrote' = wrote
    BY <1>6, <1>9 DEF Cal!CommitStep
  <2> QED BY <1>1, <1>6, <1>7, <2>1 DEF CalInv
<1> QED BY <1>8, <1>9

\* A power loss in a call leaves a store at rest.
LEMMA CalCut ==
    ASSUME CalInv, Cal!PowerLoss, CalTypes', PickFacts', mixed' = mixed
    PROVE  AtRest'
<1>1. CalTypes /\ CalCall /\ call.pc # "idle" /\ PickFacts /\ Cal!TypeOK /\ new \in CalRecords
  BY PickOf DEF CalInv, CalTypes, Cal!PowerLoss
<1>2. PICK t \in Cal!Slots, o \in Cal!Slots : t = call.target /\ o = 1 - t /\ t # o /\ 1 - o = t
  BY <1>1 DEF CalTypes, Cal!TypeOK, Cal!Slots
<1>3. /\ hdr \in [Cal!Slots -> Cal!Headers \cup {Blank, Torn}]
      /\ body \in [Cal!Slots -> CalRecords \cup {Blank, Torn}]
      /\ call.pc \in {"erase", "body", "header", "verify", "erase_other", "erase_legacy"}
  BY <1>1 DEF CalTypes, Cal!TypeOK, CalCall
<1>4. /\ call.pc # "erase_other" => hdr'[o] = hdr[o] /\ body'[o] = body[o]
      /\ call.pc # "erase" => body'[t] = body[t] \/ call.pc = "body"
      /\ call.pc \notin {"erase", "header"} => hdr'[t] = hdr[t]
      /\ call.pc = "erase" => hdr'[t] \in Cal!CutErase(hdr[t]) /\ body'[t] \in Cal!CutErase(body[t])
      /\ call.pc = "erase_other" => hdr'[o] \in Cal!CutErase(hdr[o]) /\ body'[o] \in Cal!CutErase(body[o])
      /\ call.pc = "header" => hdr'[t] \in Cal!CutProgram(hdr[t], Cal!NewHeader)
  BY <1>2, <1>3 DEF Cal!PowerLoss
<1>5. RestFacts'
  <2>1. (PickFacts => RestFacts)'  BY RestsAt, PTL
  <2> QED BY <2>1
<1>6. ASSUME ~Cal!Valid(t)' PROVE AtRest'
  BY <1>5, <1>6 DEF RestFacts
<1>7. PICK n \in CalRecords : n = new /\ n # Tombstone
  BY <1>1, CalConstants
<1>8. ASSUME Holds(t, n)' PROVE AtRest'
  BY <1>5, <1>8 DEF RestFacts
<1>9. call.pc # "erase_other" => Cal!Valid(o)' = Cal!Valid(o) /\ Single(o)' = Single(o)
  BY <1>4, CalOther
<1>10. ASSUME call.pc = "erase", Cal!Valid(t)' PROVE AtRest'
  <2>1. Cal!Valid(t) /\ hdr'[t] = hdr[t] /\ Single(t)' = Single(t)
    BY <1>1, <1>4, <1>10, CutShort
  <2>2. Cal!Valid(o) /\ Cal!Follows(o)  BY <1>1, <1>2, <1>10, <2>1 DEF CalCall
  <2>3. Cal!Valid(o)' /\ Single(o)' = Single(o) /\ Cal!Follows(o)' /\ hdr'[o] = hdr[o]
    BY <1>2, <1>4, <1>9, <1>10, <2>1, <2>2 DEF Cal!Follows
  <2>4. Cal!Pick = IF \/ hdr[o].val = Tombstone \/ hdr[o].ver = 2
                      \/ hdr[t].val = Tombstone \/ hdr[t].ver # 2 THEN Single(o) ELSE Single(t)
    BY <1>1, <1>2, <2>1, <2>2 DEF PickFacts
  <2>5. Cal!Pick' = IF \/ hdr'[o].val = Tombstone \/ hdr'[o].ver = 2
                       \/ hdr'[t].val = Tombstone \/ hdr'[t].ver # 2 THEN Single(o)' ELSE Single(t)'
    BY <1>2, <1>10, <2>3 DEF PickFacts
  <2>6. mixed \/ Single(o).zero = Cal!Pick.zero  BY <1>1, <1>2, <1>10, CallStands
  <2>7. mixed' \/ Single(o)'.zero = Cal!Pick'.zero  BY <2>1, <2>3, <2>4, <2>5, <2>6
  <2> QED BY <1>2, <1>5, <1>10, <2>3, <2>7 DEF RestFacts
<1>11. ASSUME call.pc = "body" PROVE AtRest'
  <2>1. hdr'[t] = Blank  BY <1>1, <1>2, <1>4, <1>11 DEF CalCall
  <2> QED BY <1>6, <2>1, CalConstants DEF Cal!Valid
<1>12. ASSUME call.pc = "header" PROVE AtRest'
  <2>1. hdr[t] = Blank /\ body'[t] = body[t] /\ Writes /\ (call.op = "save" => body[t] = call.val)
        /\ (job = "save1" => Cal!Valid(o) /\ hdr[o].ver = 2 /\ hdr[o].val = new)
        /\ (Cal!Valid(o) => call.seq = Cal!SuccSeq(hdr[o].seq))
    BY <1>1, <1>2, <1>4, <1>12 DEF CalCall
  <2>2. hdr'[t] \in {Blank, Torn, Cal!NewHeader}
    BY <1>4, <1>12, <2>1 DEF Cal!CutProgram, Cal!Programmed
  <2>3. CASE hdr'[t] \in {Blank, Torn}
    BY <1>6, <2>3, CalConstants DEF Cal!Valid
  <2>4. CASE hdr'[t] = Cal!NewHeader
    <3>1. /\ hdr'[t] \in Cal!Headers /\ hdr'[t].seq = call.seq /\ hdr'[t].ver = call.ver
          /\ hdr'[t].val = call.val
      BY <1>1, <2>4 DEF Cal!NewHeader, Cal!Headers, Cal!TypeOK
    <3>2. Cal!Valid(t)'  BY <2>1, <3>1 DEF Cal!Valid, Writes
    <3>3. Cal!Valid(o)' = Cal!Valid(o) /\ hdr'[o] = hdr[o]  BY <1>4, <1>9, <1>12
    <3>4. Cal!Valid(o)' => Cal!Follows(t)'  BY <1>2, <2>1, <3>1, <3>3 DEF Cal!Follows
    <3>5. \/ hdr'[t].ver = 2 /\ hdr'[t].val = n
          \/ hdr'[t].val = Tombstone /\ n = Cal!Empty
          \/ /\ hdr'[t].ver = 1 /\ hdr'[t].val = Cal!V1Copy(n)
             /\ Cal!Valid(o)' /\ hdr'[o].ver = 2 /\ hdr'[o].val = n
      BY <1>7, <2>1, <3>1, <3>3 DEF Writes
    <3>6. Holds(t, n)'  BY <1>2, <3>2, <3>4, <3>5 DEF Holds, Cal!V1Copy, Cal!Empty
    <3> QED BY <1>8, <3>6
  <2> QED BY <2>2, <2>3, <2>4
<1>13. ASSUME call.pc \in {"verify", "erase_other", "erase_legacy"} PROVE AtRest'
  <2>1. Holds(t, n)  BY <1>1, <1>2, <1>7, <1>13, CallStands
  <2>2. hdr'[t] = hdr[t] /\ body'[t] = body[t]  BY <1>4, <1>13
  <2>3. Cal!Valid(t)'  BY <2>1, <2>2 DEF Holds, Cal!Valid
  <2>4. Cal!Valid(o)' => Cal!Valid(o) /\ hdr'[o] = hdr[o]
    <3>1. CASE call.pc = "erase_other"
      BY <1>1, <1>4, <3>1, CutShort
    <3>2. CASE call.pc # "erase_other"
      BY <1>4, <1>9, <3>2
    <3> QED BY <3>1, <3>2
  <2>5. Cal!Valid(o)' => Cal!Follows(t)'  BY <1>2, <2>1, <2>2, <2>4 DEF Holds, Cal!Follows
  <2>6. call.pc = "erase_other" => hdr[t].val = Tombstone /\ n = Cal!Empty
    BY <1>1, <1>2, <1>7 DEF CalCall, Writes, Cal!NewHeader
  <2>7. \/ hdr'[t].ver = 2 /\ hdr'[t].val = n
        \/ hdr'[t].val = Tombstone /\ n = Cal!Empty
        \/ /\ hdr'[t].ver = 1 /\ hdr'[t].val = Cal!V1Copy(n)
           /\ Cal!Valid(o)' /\ hdr'[o].ver = 2 /\ hdr'[o].val = n
    BY <1>2, <1>4, <1>9, <2>1, <2>2, <2>6 DEF Holds
  <2>8. Holds(t, n)'  BY <1>2, <2>3, <2>5, <2>7 DEF Holds, Cal!V1Copy, Cal!Empty
  <2> QED BY <1>8, <2>8
<1> QED BY <1>3, <1>6, <1>10, <1>11, <1>12, <1>13

\* Firmware 3.4.0 to 3.9.3 saves an offset: what a boot takes is its record, unless it stands in for
\* a missing copy (mixed).
LEMMA CalOlder ==
    ASSUME CalInv, NEW z \in Zeros, Cal!OldSave(z), CalTypes', PickFacts'
    PROVE  CalInv'
<1>1. CalTypes /\ PickFacts /\ Cal!Adjacent /\ call = Cal!NoCall /\ job = "none" /\ old /\ call.pc = "idle"
  BY PickOf DEF CalInv, CalTypes, AtRest, Cal!OldSave
<1>2. PICK t \in Cal!Slots : /\ t = Cal!Target /\ Cal!NextSeq \in Cal!Seqs
                             /\ Cal!Valid(1 - t) => Cal!NextSeq = Cal!SuccSeq(hdr[1 - t].seq)
  BY <1>1, CalConstants, Cal!TargetOf DEF CalTypes
<1>3. PICK o \in Cal!Slots : o = 1 - t /\ t # o /\ 1 - o = t
  BY DEF Cal!Slots
<1>4. PICK n \in CalRecords : n = [zero |-> z, fit |-> 0] /\ n # Tombstone /\ n.zero = z
  <2>1. [zero |-> z, fit |-> 0] \in CalRecords  BY DEF CalRecords
  <2> QED BY <2>1, CalConstants
<1>5. PICK h : h = [seq |-> Cal!NextSeq, ver |-> 1, val |-> n]
  OBVIOUS
<1>6. h \in Cal!Headers /\ h.ver = 1 /\ h.val = n /\ h.seq = Cal!NextSeq
  BY <1>2, <1>5, CalConstants DEF Cal!Headers, Cal!Contents
<1>7. /\ hdr' = [hdr EXCEPT ![t] = h] /\ body' = [body EXCEPT ![t] = n]
      /\ wrote' = z /\ call' = call /\ job' = job /\ old' = old /\ rec' = rec
      /\ mixed' = (mixed \/ (Cal!Newest # 2 /\ hdr[Cal!Newest].ver = 2 /\ hdr[Cal!Newest].val # Tombstone))
  BY <1>2, <1>4, <1>5 DEF Cal!OldSave
<1>8. hdr'[t] = h /\ body'[t] = n /\ hdr'[o] = hdr[o] /\ body'[o] = body[o]
  BY <1>1, <1>3, <1>7 DEF CalTypes, Cal!TypeOK
<1>9. Cal!Valid(t)' /\ Cal!Valid(o)' = Cal!Valid(o) /\ (Cal!Valid(o)' => Cal!Follows(t)') /\ Single(t)' = n
  BY <1>2, <1>3, <1>4, <1>6, <1>8 DEF Cal!Valid, Cal!Follows, Single
<1>10. Cal!Valid(o) => o = Cal!Newest
  <2>1. Cal!Newest = 2 => ~Cal!Valid(o)  BY DEF Cal!Newest, Cal!Slots
  <2> QED BY <1>1, <1>2, <1>3, <2>1 DEF PickFacts, Cal!Target
<1>11. Cal!Newest' = t /\ Cal!Adjacent'
  <2>1. CASE Cal!Valid(o)'
    BY <1>3, <1>9, <2>1 DEF PickFacts
  <2>2. CASE ~Cal!Valid(o)'
    BY <1>3, <1>9, <2>2 DEF PickFacts
  <2> QED BY <2>1, <2>2
<1>12. ASSUME ~mixed' PROVE Cal!Pick' = n
  <2>1. CASE Cal!Valid(o)'
    <3>1. hdr[o].val = Tombstone \/ hdr[o].ver # 2
      <4>1. ~(Cal!Newest # 2 /\ hdr[Cal!Newest].ver = 2 /\ hdr[Cal!Newest].val # Tombstone)
        BY <1>7, <1>12
      <4>2. o = Cal!Newest /\ o # 2  BY <1>9, <1>10, <2>1 DEF Cal!Slots
      <4> QED BY <4>1, <4>2
    <3>2. Cal!Pick' = Single(t)'  BY <1>3, <1>8, <1>9, <2>1, <3>1 DEF PickFacts
    <3> QED BY <1>9, <3>2
  <2>2. CASE ~Cal!Valid(o)'
    BY <1>3, <1>9, <2>2 DEF PickFacts
  <2> QED BY <2>1, <2>2
<1>13. AtRest'
  <2>1. Single(Cal!Newest)' = n  BY <1>9, <1>11
  <2> QED BY <1>11, <1>12, <2>1 DEF AtRest
<1>14. wrote' # 0 /\ ~mixed' => Cal!Pick' = [zero |-> wrote', fit |-> 0]  BY <1>4, <1>7, <1>12
<1> QED BY <1>1, <1>7, <1>13, <1>14 DEF CalInv

\* The state has its types after every step.
LEMMA CalTypesStep ==
    ASSUME CalInv, Cal!CalNext
    PROVE  CalTypes' /\ PickFacts'
<1>1. CalTypes  BY DEF CalInv
<1>2. Cal!TypeOK' /\ KnownVersions' /\ legacy' = Blank  BY CalStoreTypes
<1>3. PickFacts'
  <2>1. (Cal!TypeOK /\ KnownVersions => PickFacts)'  BY PickOf, PTL
  <2> QED BY <1>2, <2>1
<1>4. Cal!Pick' \in CalRecords  BY <1>3 DEF PickFacts
<1>5. CASE \E r \in Cal!Records : Cal!Commit(r)
  BY <1>1, <1>2, <1>3, <1>5 DEF CalTypes, Cal!Commit, Cal!Records, CalRecords
<1>6. CASE Cal!CommitStep
  BY <1>1, <1>2, <1>3, <1>6 DEF CalTypes, Cal!CommitStep
<1>7. CASE Cal!SaveCopy
  BY <1>1, <1>2, <1>3, <1>7 DEF CalTypes, Cal!SaveCopy
<1>8. CASE \E z \in Zeros : Cal!OldSave(z)
  <2>1. PICK z \in Zeros : Cal!OldSave(z)
    BY <1>8
  <2>2. mixed' \in BOOLEAN  BY <1>1, <2>1 DEF CalTypes, Cal!OldSave
  <2>3. /\ wrote' \in Zeros \cup {0} /\ rec' = rec /\ new' = new /\ job' = job /\ old' = old
    BY <2>1 DEF Cal!OldSave
  <2> QED BY <1>1, <1>2, <1>3, <2>2, <2>3 DEF CalTypes
<1>9. ASSUME Cal!Boot PROVE CalTypes'
  BY <1>1, <1>2, <1>4, <1>9 DEF CalTypes, Cal!Boot
<1> QED BY <1>3, <1>5, <1>6, <1>7, <1>8, <1>9 DEF Cal!CalNext, Cal!Reboot, Cal!PowerLossInCommit

\* adc_cal.c: commits, resets and older firmware keep the invariant.
LEMMA CalStep ==
    CalInv /\ [Cal!CalNext]_calVars => CalInv'
<1> SUFFICES ASSUME CalInv, [Cal!CalNext]_calVars PROVE CalInv'
  OBVIOUS
<1>1. CASE UNCHANGED calVars
  <2>1. /\ Cal!Pick' = Cal!Pick /\ Cal!Newest' = Cal!Newest /\ Cal!Adjacent' = Cal!Adjacent
        /\ KnownVersions' = KnownVersions
        /\ \A i \in Cal!Slots : /\ Cal!Valid(i)' = Cal!Valid(i) /\ Single(i)' = Single(i)
                                /\ Cal!Follows(i)' = Cal!Follows(i)
    BY <1>1, CalSame DEF calVars
  <2>2. CalTypes' = CalTypes  BY <1>1, <2>1 DEF CalTypes, calVars, Cal!TypeOK
  <2>3. PickFacts  BY PickOf DEF CalInv, CalTypes
  <2>4. CalCall /\ call.pc # "idle" => CalCall'
    <3>1. SUFFICES ASSUME CalCall PROVE CalCall'
      OBVIOUS
    <3>2. PICK t \in Cal!Slots, o \in Cal!Slots : t = call.target /\ o = 1 - call.target
      BY DEF CalInv, CalTypes, Cal!TypeOK, Cal!Slots
    <3>3. /\ Cal!Valid(t)' = Cal!Valid(t) /\ Cal!Valid(o)' = Cal!Valid(o) /\ Single(o)' = Single(o)
          /\ Cal!Follows(o)' = Cal!Follows(o) /\ Cal!NewHeader' = Cal!NewHeader /\ Writes' = Writes
      BY <1>1, <2>1 DEF calVars, Cal!NewHeader, Writes
    <3> QED BY <1>1, <2>1, <3>1, <3>2, <3>3 DEF calVars, CalCall
  <2>5. AtRest => AtRest'
    <3>1. Cal!Newest # 2 => Cal!Newest \in Cal!Slots  BY <2>3 DEF PickFacts, Cal!Slots
    <3>2. Cal!Newest # 2 => Single(Cal!Newest)' = Single(Cal!Newest)
      BY <1>1, <2>1, <3>1 DEF Single, Cal!Valid, calVars
    <3> QED BY <1>1, <2>1, <3>2 DEF AtRest, calVars
  <2> QED BY <1>1, <2>1, <2>2, <2>4, <2>5 DEF CalInv, calVars
<1>2. CASE Cal!CalNext
  <2>1. CalTypes /\ PickFacts /\ CalTypes' /\ PickFacts'
    BY <1>2, CalTypesStep, PickOf DEF CalInv, CalTypes
  <2>2. ASSUME NEW r \in Cal!Records, Cal!Commit(r) PROVE CalInv'
    <3>1. ~old /\ job = "none" /\ UNCHANGED <<rec, old, mixed>> /\ wrote' = 0 /\ new' = r
      BY <2>2 DEF Cal!Commit
    <3>2. CASE r = Cal!Empty
      <4>1. Cal!Begin("clear", 2, Tombstone) /\ job' = "clear"
        BY <2>2, <3>2 DEF Cal!Commit, Cal!Clear
      <4>2. Writes'  BY <3>1, <3>2, <4>1 DEF Writes, Cal!Begin
      <4> QED BY <2>1, <3>1, <4>1, <4>2, CalBegins
    <3>3. CASE r # Cal!Empty
      <4>1. Cal!Begin("save", 2, r) /\ job' = "save2"  BY <2>2, <3>3 DEF Cal!Commit, Cal!Save
      <4>2. Writes'  BY <3>1, <4>1 DEF Writes, Cal!Begin
      <4> QED BY <2>1, <3>1, <4>1, <4>2, CalBegins
    <3> QED BY <3>2, <3>3
  <2>3. ASSUME Cal!SaveCopy PROVE CalInv'
    <3>1. /\ ~old /\ job = "save2" /\ job' = "save1" /\ UNCHANGED <<rec, new, old, mixed>> /\ call.pc = "idle"
          /\ wrote' = wrote /\ Cal!Begin("save", 1, Cal!V1Copy(new))
      BY <2>3 DEF Cal!SaveCopy, Cal!Save
    <3>2. wrote = 0  BY <3>1 DEF CalInv
    <3>3. Writes'  BY <3>1 DEF Writes, Cal!Begin, Cal!V1Copy
    <3> QED BY <2>1, <3>1, <3>2, <3>3, CalBegins
  <2>4. ASSUME Cal!CommitStep PROVE CalInv'
    <3>1. CASE call'.pc = "idle"
      BY <2>1, <2>4, <3>1, CalReturns
    <3>2. CASE call'.pc # "idle"
      BY <2>1, <2>4, <3>2, CalGoesOn DEF Cal!CommitStep
    <3> QED BY <3>1, <3>2
  <2>5. ASSUME NEW z \in Zeros, Cal!OldSave(z) PROVE CalInv'
    BY <2>1, <2>5, CalOlder
  <2>6. ASSUME Cal!Boot, AtRest', call' = Cal!NoCall, wrote # 0 /\ ~mixed => Cal!Pick' = Cal!Pick
        PROVE  CalInv'
    <3>1. /\ rec' = Cal!Pick' /\ job' = "none" /\ wrote' = wrote /\ mixed' = mixed /\ call'.pc = "idle"
      BY <2>6 DEF Cal!Boot, Cal!NoCall
    <3>2. wrote' # 0 /\ ~mixed' => Cal!Pick' = [zero |-> wrote', fit |-> 0]
      BY <2>6, <3>1 DEF CalInv
    <3> QED BY <2>1, <2>6, <3>1, <3>2 DEF CalInv
  <2>7. ASSUME Cal!Boot, call.pc = "idle", UNCHANGED <<hdr, body, legacy, call, result>> PROVE CalInv'
    <3>1. /\ Cal!Pick' = Cal!Pick /\ Cal!Newest' = Cal!Newest /\ Cal!Adjacent' = Cal!Adjacent
          /\ \A i \in Cal!Slots : Single(i)' = Single(i)
      BY <2>7, CalSame
    <3>2. Cal!Newest # 2 => Single(Cal!Newest)' = Single(Cal!Newest)
      <4>1. Cal!Newest # 2 => Cal!Newest \in Cal!Slots  BY <2>1 DEF PickFacts, Cal!Slots
      <4> QED BY <2>7, <3>1, <4>1 DEF Single, Cal!Valid
    <3>3. AtRest /\ call = Cal!NoCall /\ mixed' = mixed  BY <2>7 DEF CalInv, Cal!Boot
    <3>4. AtRest'  BY <3>1, <3>2, <3>3 DEF AtRest
    <3> QED BY <2>6, <2>7, <3>1, <3>3, <3>4
  <2>8. ASSUME Cal!Boot, Cal!PowerLoss, job # "none" PROVE CalInv'
    <3>1. AtRest'  BY <2>1, <2>8, CalCut DEF Cal!Boot
    <3>2. wrote = 0 /\ call' = Cal!NoCall  BY <2>8 DEF CalInv, Cal!PowerLoss
    <3> QED BY <2>6, <2>8, <3>1, <3>2
  <2>9. CASE Cal!Reboot
    BY <2>7, <2>9 DEF Cal!Reboot
  <2>10. CASE Cal!PowerLossInCommit
    BY <2>7, <2>8, <2>10 DEF Cal!PowerLossInCommit
  <2> QED BY <1>2, <2>2, <2>3, <2>4, <2>5, <2>9, <2>10 DEF Cal!CalNext
<1> QED BY <1>1, <1>2

\* adc_cal.c: the invariant holds in every state.
LEMMA CalHolds == MCSpec => []CalInv
<1>1. MCInit => CalInv
  <2> SUFFICES ASSUME MCInit PROVE CalInv
    OBVIOUS
  <2>1. /\ hdr = [i \in Cal!Slots |-> Blank] /\ body = hdr /\ legacy = Blank /\ call = Cal!NoCall
           /\ result = TRUE
        /\ rec = Cal!Empty /\ job = "none" /\ new = Cal!Empty /\ old = FALSE /\ wrote = 0 /\ mixed = FALSE
    BY DEF MCInit, Cal!CalInit
  <2>2. \A i \in Cal!Slots : hdr[i] = Blank /\ ~Cal!Valid(i)
    BY <2>1, CalConstants DEF Cal!Valid
  <2>3. 0 \in Cal!Slots /\ 1 \in Cal!Slots /\ 0 \in Cal!Seqs /\ 2 \in Versions /\ Tombstone \in Cal!Contents
    BY CalConstants DEF Cal!Slots, Cal!Seqs, Cal!SeqMod, Cal!Contents
  <2>4. Cal!TypeOK /\ KnownVersions
    BY <2>1, <2>2, <2>3, CalConstants DEF Cal!TypeOK, KnownVersions, Cal!NoCall
  <2>5. CalTypes  BY <2>1, <2>4, CalConstants DEF CalTypes
  <2>6. PickFacts  BY <2>4, PickOf
  <2>7. Cal!Pick = Cal!Empty /\ AtRest
    <3>1. Cal!Pick = Single(1) /\ AtRest  BY <2>2, <2>3, <2>6, RestsAt DEF PickFacts, RestFacts
    <3> QED BY <2>2, <2>3, <3>1 DEF Single
  <2>8. call.pc = "idle"  BY <2>1 DEF Cal!NoCall
  <2> QED BY <2>1, <2>5, <2>7, <2>8 DEF CalInv
<1>2. [MCNext]_mcVars => [Cal!CalNext]_calVars  BY DEF MCNext, Rest, mcVars
<1> QED BY <1>1, <1>2, CalStep, PTL DEF MCSpec

(***************************************************************************)
(* The whole.                                                               *)
(***************************************************************************)
\* The config store's invariant, for the plain store and for the one that fails to program.
ConfigInv ==
    /\ which = "config" => Plain!StoreInv
    /\ which # "config" => Flaky!StoreInv

\* config_store.c: the invariant of AbStore holds in every state of the pod.
LEMMA ConfigHolds == MCSpec => []ConfigInv
<1>1. MCInit => ConfigInv
  <2>1. Plain!Init => Plain!StoreInv  BY Assumptions, Plain!StoreInvInit
  <2>2. Flaky!Init => Flaky!StoreInv  BY Assumptions, Flaky!StoreInvInit
  <2> QED BY <2>1, <2>2 DEF MCInit, ConfigInv
<1>2. ConfigInv /\ [MCNext]_mcVars => ConfigInv'
  <2> SUFFICES ASSUME ConfigInv, [MCNext]_mcVars PROVE ConfigInv'
    OBVIOUS
  <2>1. /\ which' = which
        /\ which = "config" => [Plain!Next]_(Plain!vars)
        /\ which # "config" => [Flaky!Next]_(Flaky!vars)
    <3>1. CASE MCNext
      <4>1. UNCHANGED which /\ (which \notin {"config", "flaky"} => UNCHANGED configVars)
        BY <3>1 DEF MCNext, Rest
      <4>2. (which = "config" => Plain!Next) /\ (which = "flaky" => Flaky!Next)
        BY <3>1 DEF MCNext
      <4> QED BY <4>1, <4>2 DEF configVars, Plain!vars, Flaky!vars
    <3>2. CASE UNCHANGED mcVars
      BY <3>2 DEF mcVars, configVars, Plain!vars, Flaky!vars
    <3> QED BY <3>1, <3>2
  <2>2. CASE which = "config"
    <3>1. Plain!StoreInv'  BY <2>1, <2>2, Assumptions, Plain!StoreInvStep DEF ConfigInv
    <3> QED BY <2>1, <2>2, <3>1 DEF ConfigInv
  <2>3. CASE which # "config"
    <3>1. Flaky!StoreInv'  BY <2>1, <2>3, Assumptions, Flaky!StoreInvStep DEF ConfigInv
    <3> QED BY <2>1, <2>3, <3>1 DEF ConfigInv
  <2> QED BY <2>2, <2>3
<1> QED BY <1>1, <1>2, PTL DEF MCSpec

\* The types of the parts' state, in every behaviour and for every value of the constants.
THEOREM StorageTypes == MCSpec => []TypesOK
<1>1. ConfigInv => Plain!TypeOK
  <2>1. Flaky!TypeOK => Plain!TypeOK
    BY DEF Flaky!TypeOK, Plain!TypeOK, Flaky!Slots, Plain!Slots, Flaky!Seqs, Plain!Seqs,
       Flaky!SeqMod, Plain!SeqMod, Flaky!Contents, Plain!Contents, Flaky!Headers, Plain!Headers
  <2> QED BY <2>1 DEF ConfigInv, Plain!StoreInv, Flaky!StoreInv
<1>2. CalInv => Cal!TypeOK /\ {rec, new} \subseteq CalRecords  BY CalTrue
<1>3. BlobInv => Blob!TypeOK  BY DEF BlobInv
<1>4. PairInv => Cert!TypeOK  BY DEF PairInv
<1>5. CommitInv => Writer!TypeOK  BY DEF CommitInv
<1>6. RomInv => Rom!TypeOK  BY DEF RomInv
<1>7. BridgeInv => Bridge!TypeOK  BY BridgeTrue
<1>8. GuardInv => Guard!TypeOK  BY LoopsEnd
<1>9. ConfigInv /\ CalInv /\ BlobInv /\ PairInv /\ CommitInv /\ RomInv /\ BridgeInv /\ GuardInv => TypesOK
  BY <1>1, <1>2, <1>3, <1>4, <1>5, <1>6, <1>7, <1>8 DEF TypesOK
<1> QED
  BY <1>9, ConfigHolds, CalHolds, BlobHolds, PairHolds, CommitHolds, RomHolds, BridgeHolds, GuardHolds, PTL

\* adc_cal.c, blob_store.c, lan_tls.c: whenever power fails, and however often, the offset loaded next is
\* the one in use or being saved and the calibration between commits is whole; a blob that counts as
\* present is whole; a certificate has its own key.  For every set of records, blobs and pages, every
\* width of the sequence number, and any number of resets.
THEOREM StoresAreWhole == MCSpec => []StoresWhole
<1>1. CalInv => Cal!ZeroSurvives /\ Cal!LoadsWhole /\ Cal!OldFirmwareWins  BY CalTrue
<1>2. BlobInv => Blob!PresentIsWhole /\ Blob!CacheAgrees  BY BlobsWhole
<1>3. PairInv => Cert!ServesPairs /\ Cert!AlwaysTls  BY DEF PairInv
<1>4. CalInv /\ BlobInv /\ PairInv => StoresWhole  BY <1>1, <1>2, <1>3 DEF StoresWhole
<1> QED BY <1>4, CalHolds, BlobHolds, PairHolds, PTL

\* ota_commit.c, esp_rom_job.c, wifi_bridge_ota.c, boot_guard.c: a refused commit has erased nothing and
\* retries cover the trouble they are for; an ESP32 reported verified holds the image; the bridge boots
\* whole images and one reported updated keeps the new version; failed boots in a row end in safe mode.
\* For every number of sectors, blocks, chunks, tries and failed boots.
THEOREM UpdatesAreTrue == MCSpec => []UpdatesTrue
<1>1. CommitInv => Writer!RefusedUntouched /\ Writer!RetriesCover /\ Writer!HashedIsRead
  BY CommitsTrue
<1>2. RomInv => Rom!VerifiedIsWhole  BY VerifiedTrue
<1>3. BridgeInv => Bridge!BootsWhole /\ Bridge!UpdatedIsTrue  BY BridgeTrue
<1>4. GuardInv => Guard!LoopEndsSafe  BY LoopsEnd
<1>5. CommitInv /\ RomInv /\ BridgeInv /\ GuardInv => UpdatesTrue
  BY <1>1, <1>2, <1>3, <1>4 DEF UpdatesTrue
<1> QED BY <1>5, CommitHolds, RomHolds, BridgeHolds, GuardHolds, PTL
================================================================================
