------------------------------- MODULE OtaCommit --------------------------------
(***************************************************************************)
(* ota_commit.c: the verified image goes from the PSRAM into the flash the  *)
(* firmware runs from, in place, by code that runs from RAM with interrupts *)
(* off.  Per sector: a CRC taken through the HAL, a pre-pass over the raw   *)
(* read path before anything is erased, then read, erase, program, check    *)
(* and retry; the chip resets at the end.  Power may fail, a master may     *)
(* write into the staging area, a raw read and a flash operation may fail.  *)
(***************************************************************************)
EXTENDS Naturals

CONSTANTS Sectors,      \* the number of sectors of the image
          ReadTries,    \* OTA_READ_TRIES
          SectorTries,  \* OTA_SECTOR_TRIES
          MaxTrouble    \* bad raw reads, failed flash operations and foreign writes

ConstantsOK == {Sectors, ReadTries, SectorTries} \subseteq Nat \ {0} /\ MaxTrouble \in Nat

VARIABLES
    cpc, at,            \* where the commit is, the sector it works on
    staging, app, copy, \* the staged image, the flash the firmware runs from, the W25Q copy
    crcs,               \* s_sector_crc: the content a sector's CRC was taken of
    bufc, tries,        \* the sector buffer (s_sector), tries left
    busHeld, irqOff, planned,      \* the PSRAM bus, the interrupts, boot_guard_planned_reset
    trouble, powerCut

ocVars == <<cpc, at, staging, app, copy, crcs, bufc, tries, busHeld, irqOff, planned, trouble, powerCut>>

Idx == 1 .. Sectors
Part == {"new", "junk"}
Whole(f, x) == \A s \in Idx : f[s] = x

TypeOK ==
    /\ cpc \in {"idle", "grab", "hash", "crc", "pre", "read", "write", "reset", "dead"}
    /\ at \in 1 .. Sectors + 1
    /\ staging \in [Idx -> Part] /\ app \in [Idx -> {"old", "erased"} \cup Part]
    /\ copy \in {"none", "whole"} /\ crcs \in [Idx -> Part \cup {"none"}]
    /\ bufc \in Part \cup {"none"} /\ tries \in 0 .. (IF ReadTries > SectorTries THEN ReadTries ELSE SectorTries)
    /\ {busHeld, irqOff, planned, powerCut} \subseteq BOOLEAN /\ trouble \in 0 .. MaxTrouble

Init ==
    /\ cpc = "idle" /\ at = 1
    /\ staging = [s \in Idx |-> "new"] /\ app = [s \in Idx |-> "old"] /\ copy = "none"
    /\ crcs = [s \in Idx |-> "none"] /\ bufc = "none" /\ tries = 0
    /\ busHeld = FALSE /\ irqOff = FALSE /\ planned = FALSE
    /\ trouble = 0 /\ powerCut = FALSE

Trouble == trouble < MaxTrouble /\ trouble' = trouble + 1
held == <<busHeld, irqOff, planned>>

\* A PSRAM master that writes the staging area; nobody can while the STM32 has the bus.
Scribble(s) ==
    /\ ~busHeld /\ Trouble
    /\ staging[s] = "new" /\ staging' = [staging EXCEPT ![s] = "junk"]
    /\ UNCHANGED <<cpc, at, app, copy, crcs, bufc, tries, held, powerCut>>

\* ota_store_fw_copy: into the W25Q, hashed there against the verified digest; a failure does not stop the install.
StoreCopy ==
    /\ cpc = "idle" /\ Whole(app, "old")
    /\ copy' \in {"none", IF Whole(staging, "new") THEN "whole" ELSE "none"}
    /\ cpc' = "grab"
    /\ UNCHANGED <<at, staging, app, crcs, bufc, tries, held, trouble, powerCut>>

\* As if the bus were taken only once the image was checked.
GrabLater == cpc = "grab" /\ cpc' = "hash" /\ UNCHANGED <<at, staging, app, copy, crcs, bufc, tries,
                                                          held, trouble, powerCut>>

\* signal_engine_quiesce_psram_masters, psram_bus_acquire.
Grab ==
    /\ cpc = "grab" /\ cpc' = "hash" /\ busHeld' = TRUE
    /\ UNCHANGED <<at, staging, app, copy, crcs, bufc, tries, irqOff, planned, trouble, powerCut>>

\* As if the refusal left the next reset marked as planned.
RefusedStaysPlanned ==
    /\ cpc' = "idle" /\ at' = 1 /\ bufc' = "none" /\ tries' = 0
    /\ busHeld' = FALSE /\ irqOff' = FALSE /\ UNCHANGED planned

\* The refusals: interrupts on, boot_guard_planned_reset(false), psram_bus_release.
Refused ==
    /\ cpc' = "idle" /\ at' = 1 /\ bufc' = "none" /\ tries' = 0
    /\ busHeld' = FALSE /\ irqOff' = FALSE /\ planned' = FALSE

\* ota_reverify_held: the hash again, with the bus held.
Reverify ==
    /\ cpc = "hash"
    /\ IF Whole(staging, "new") THEN cpc' = "crc" /\ UNCHANGED <<at, bufc, tries, held>> ELSE Refused
    /\ UNCHANGED <<staging, app, copy, crcs, trouble, powerCut>>

\* ota_commit: a CRC of every sector through the HAL; a read that fails refuses the commit.
TakeCrcs ==
    /\ cpc = "crc"
    /\ \/ /\ crcs' = staging /\ planned' = TRUE /\ irqOff' = TRUE
          /\ cpc' = "pre" /\ at' = 1 /\ tries' = ReadTries /\ UNCHANGED <<bufc, busHeld, trouble>>
       \/ Trouble /\ Refused /\ UNCHANGED crcs
    /\ UNCHANGED <<staging, app, copy, powerCut>>

--------------------------------------------------------------------------------
(* From RAM, interrupts off. *)

\* ram_psram_read_burst: the raw read brings the sector, or something else.
RawRead(s, x) == x = staging[s] \/ (x = "junk" /\ trouble < MaxTrouble)
Cost(s, x) == trouble' = IF x = staging[s] THEN trouble ELSE trouble + 1

\* As if a sector that reads wrong in the pre-pass were left to the second read.
PrePassLax(x) == TRUE

\* ram_read_checked.
Checked(x) == x = crcs[at]

\* ram_commit_all, its first loop: every sector is read through the raw path and compared before the first erase.
PrePass ==
    /\ cpc = "pre"
    /\ \E x \in Part :
          /\ RawRead(at, x) /\ Cost(at, x)
          /\ \/ /\ Checked(x) /\ bufc' = x /\ tries' = ReadTries
                /\ IF at < Sectors THEN at' = at + 1 /\ cpc' = "pre" ELSE at' = 1 /\ cpc' = "read"
                /\ UNCHANGED held
             \/ /\ ~Checked(x) /\ tries > 1 /\ bufc' = x /\ tries' = tries - 1 /\ UNCHANGED <<at, cpc, held>>
             \/ ~Checked(x) /\ tries = 1 /\ Refused
    /\ UNCHANGED <<staging, app, copy, crcs, powerCut>>

\* ... its second loop: read again; the result is not looked at, the buffer holds what the last try read.
ReadAgain ==
    /\ cpc = "read"
    /\ \E x \in Part :
          /\ RawRead(at, x) /\ Cost(at, x) /\ bufc' = x
          /\ IF ~Checked(x) /\ tries > 1 THEN tries' = tries - 1 /\ UNCHANGED cpc
                                         ELSE tries' = SectorTries /\ cpc' = "write"
    /\ UNCHANGED <<at, staging, app, copy, crcs, held, powerCut>>

\* As if a sector were never read back.
FlashHolds(ok) == TRUE

\* ram_flash_sector: the error flags and the read-back.
SectorHolds(ok) == ok

\* ram_flash_erase, ram_flash_program: the sector, or a failed operation's leavings.
WriteSector ==
    /\ cpc = "write"
    /\ \E ok \in BOOLEAN :
          /\ IF ok THEN UNCHANGED trouble ELSE Trouble
          /\ app' = [app EXCEPT ![at] = IF ok THEN bufc ELSE "erased"]
          /\ IF SectorHolds(ok) \/ tries = 1
             THEN /\ tries' = ReadTries
                  /\ IF at < Sectors THEN at' = at + 1 /\ cpc' = "read" ELSE cpc' = "reset" /\ UNCHANGED at
             ELSE tries' = tries - 1 /\ UNCHANGED <<cpc, at>>
    /\ UNCHANGED <<staging, copy, crcs, bufc, held, powerCut>>

\* SYSRESETREQ, or power lost at any step: what the flash holds is what runs, or nothing does.
Boots == IF Whole(app, "old") \/ Whole(app, "new") THEN "idle" ELSE "dead"
AfterReset ==
    /\ cpc' = Boots /\ at' = 1 /\ bufc' = "none" /\ tries' = 0 /\ crcs' = [s \in Idx |-> "none"]
    /\ busHeld' = FALSE /\ irqOff' = FALSE /\ planned' = FALSE
    /\ UNCHANGED <<app, copy, trouble>>
ResetNow == cpc = "reset" /\ AfterReset /\ UNCHANGED <<staging, powerCut>>
PowerCut ==
    /\ ~powerCut /\ powerCut' = TRUE /\ cpc # "dead" /\ AfterReset
    /\ staging' = [s \in Idx |-> "junk"]

\* ota_commit_selftest: the same routines on a scratch sector; the app is not touched, the bus is given back.
SelfTest ==
    /\ cpc = "idle" /\ staging' = [staging EXCEPT ![1] = "junk"] /\ staging' # staging
    /\ UNCHANGED <<cpc, at, app, copy, crcs, bufc, tries, held, trouble, powerCut>>

Next ==
    \/ (\E s \in Idx : Scribble(s)) \/ StoreCopy \/ Grab \/ Reverify \/ TakeCrcs
    \/ PrePass \/ ReadAgain \/ WriteSector \/ ResetNow \/ PowerCut \/ SelfTest

Spec == Init /\ [][Next]_ocVars
--------------------------------------------------------------------------------
(* Properties. *)

\* A commit that is refused has erased nothing: whatever went wrong before the second pass, the pod still has the
\* whole firmware it runs, gives the bus and the interrupts back and does not leave its next reset marked as planned.
RefusedUntouched ==
    cpc = "idle" => /\ Whole(app, "old") \/ Whole(app, "new")
                    /\ ~busHeld /\ ~irqOff /\ ~planned

\* Without a power cut a pod is left without a whole firmware only when the trouble outlasted the retries: one more bad
\* read or failed flash operation of the same sector than are retried.
RetriesCover ==
    cpc = "dead" /\ ~powerCut => trouble >= (IF ReadTries < SectorTries THEN ReadTries ELSE SectorTries)

\* The staging area is not written between the hash and the end of the commit.
HashedIsRead == cpc \in {"crc", "pre", "read", "write"} => Whole(staging, "new")

================================================================================
