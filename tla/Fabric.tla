-------------------------------- MODULE Fabric ----------------------------------
(***************************************************************************)
(* The iCE40 and what the firmware knows of it (signal_engine.c,            *)
(* console.c's reflash and reload, ice40_flash.c, hw_worker.c's idle        *)
(* check, blob_hooks.c): the config flash it boots from, the gateware slots *)
(* in the W25Q, the boot's self-test and recovery, the image swap, the      *)
(* gateware update, and the mirrors the firmware keeps of fabric registers. *)
(* All of it runs on the hardware worker; a reset can hit between any two   *)
(* steps and does not reset the iCE40.  A gateware is its image (0 loop,    *)
(* 1 deep replay) and version.                                              *)
(***************************************************************************)
EXTENDS Naturals, FiniteSets

CONSTANTS Old, New,        \* gateware versions: New is the one this firmware was built with, and has the fast link
          MaxFaults, MaxOps, MaxResets

ConstantsOK == /\ Old \in Nat \ {0} /\ New \in Nat \ {0} /\ Old < New
               /\ MaxFaults \in Nat /\ MaxOps \in Nat /\ MaxResets \in Nat

VARIABLES
    stage,               \* where the worker is: boot stages, "idle", or "writing" the config flash
    job,                 \* what the write is for
    flash, slots,        \* the config flash's image; the gateware slots
    gw,                  \* the gateware that runs, None when not configured
    sick,                \* its PSRAM datapath: "ok", "hung" (a reload clears it), "broken"
    fabBase, s_adc_cap_base,       \* the capture base in the fabric, and the firmware's mirror
    s_fpga_version, s_spi_div, s_psram_selftest_rc,
    fcap, mem, capno, result,      \* a capture: its state, the regions, its number, what the last read back (0: none)
    psmode,              \* the PSRAM's mode: the firmware and the gateware use it in QPI
    reader,              \* a deep replay reads the PSRAM
    toldGw, resendCaps,  \* the capabilities the cloud holds; asked to announce again
    wear,                \* ghost: boot writes of the config flash since it or a slot changed otherwise
    fFaults, fOps, resets

fbVars == <<stage, job, flash, slots, gw, sick, fabBase, s_adc_cap_base, s_fpga_version, s_spi_div,
            s_psram_selftest_rc, fcap, mem, capno, result, psmode, reader, toldGw, resendCaps, wear,
            fFaults, fOps, resets>>

None == [img |-> 0, ver |-> 0]             \* no gateware; in the flash: no whole image
Gateware == [img : {0, 1}, ver : {Old, New}]
Bases == {"fixed", "packed"}
Empty == 0                                 \* slots: nothing, a checksum that does not match, or a version
Bad == New + 1
SlotStates == {Empty, Bad, Old, New}
Image(n) == [img |-> n, ver |-> slots[n]]
Sentinel == 0

BootJobs == {"rewrite", "boot", "install"}
SwapJobs == {"swap", "retry", "restore", "recover"}

TypeOK ==
    /\ stage \in {"off", "test", "reload", "rewrite", "update", "load", "idle", "writing",
                  "retrying", "restoring", "rewedged"}
    /\ job \in [why : BootJobs \cup SwapJobs \cup {"none", "console"}, img : {0, 1}]
    /\ flash \in Gateware \cup {None} /\ gw \in Gateware \cup {None}
    /\ slots \in [{0, 1} -> SlotStates]
    /\ sick \in {"ok", "hung", "broken"}
    /\ fabBase \in Bases /\ s_adc_cap_base \in Bases
    /\ s_fpga_version \in {0, Old, New} /\ s_spi_div \in {64, 128}
    /\ s_psram_selftest_rc \in {"not run", "ok", "stm32", "write", "reach"}
    /\ fcap \in {"idle", "armed", "done", "la"} /\ mem \in [Bases -> Nat] /\ capno \in Nat
    /\ result \in Nat
    /\ reader \in BOOLEAN /\ psmode \in {"spi", "qpi"}
    /\ toldGw \in Gateware \cup {None} /\ resendCaps \in BOOLEAN
    /\ wear \in Nat /\ fFaults \in 0..MaxFaults /\ fOps \in 0..MaxOps /\ resets \in 0..MaxResets

NoJob == [why |-> "none", img |-> 0]
capture == <<fcap, mem, capno, result>>
counts == <<fFaults, fOps, resets>>

--------------------------------------------------------------------------------
(* The link to the fabric. *)

\* As if the link's rate followed the firmware's build and not the gateware that answers.
DivForBuild(v) == 64

\* spi_link_for_version.
DivFor(v) == IF v = New THEN 64 ELSE 128

\* fpga_ping: asked at /128, which every gateware answers; then the version picks the rate.
Ping(g) ==
    IF g # None THEN s_fpga_version' = g.ver /\ s_spi_div' = DivFor(g.ver)
                ELSE UNCHANGED s_fpga_version /\ s_spi_div' = 128

\* signal_engine_refresh_version: the same, asked once.
Refresh(g) == Ping(g)

\* As if the mirrors survived a reconfiguration, as they once did.
MirrorsKept == UNCHANGED s_adc_cap_base

\* signal_engine_on_gateware_reconfigured, after every reconfiguration.
Resync == s_adc_cap_base' = "fixed"

\* signal_engine_capture_selftest: a ramp captured into the fabric's region and read from the firmware's.
RampReturns(g, s, fb, mb) == g # None /\ s = "ok" /\ fb = mb

\* signal_engine_psram_bus_reach: the fabric drives the bus lines when asked.
Reaches(g) == g # None

\* psram_boot_selftest on gateware g with datapath s, the fabric's base fb and the firmware's base mb;
\* pm is the PSRAM's mode.
SelfTest(g, s, fb, mb, pm) ==
    CASE pm # "qpi" -> "stm32"
      [] RampReturns(g, s, fb, mb) -> "ok"
      [] Reaches(g) -> "write"
      [] OTHER -> "reach"

--------------------------------------------------------------------------------
(* Reloading and writing the config flash. *)

\* psram_reset_to_spi: the config flash shares the PSRAM's lines, so the PSRAM listens in SPI meanwhile.
PsramToSpi == psmode' = "spi"

\* psram_init: back to QPI, from whatever mode it was in.
PsramInit == psmode' = "qpi"

\* ice40_hold_off_bus: held in reset, every pin of it off the bus.
HeldOff == gw' = None

\* release_and_wait_cdone: the fabric boots from the flash f, or is held in reset; its registers are fresh.
Boots(f, ok) ==
    /\ IF ok THEN gw' = f ELSE HeldOff
    /\ sick' = IF sick = "hung" THEN "ok" ELSE sick
    /\ fabBase' = "fixed" /\ fcap' = "idle" /\ UNCHANGED <<mem, capno, result>>

\* A flash that does not answer, a configuration that fails: what a fault can do to a reload.
Fault == fFaults < MaxFaults /\ fFaults' = fFaults + 1

\* ice40_flash_boot, with its result.
FlashBoot(rc) ==
    \/ rc = (flash # None) /\ Boots(flash, TRUE) /\ UNCHANGED fFaults
    \/ ~rc /\ Fault /\ \E up \in BOOLEAN : Boots(flash, up)

\* ice40_reload: the PSRAM in SPI while the fabric reads its flash, then in QPI again; the mirrors follow.
Reload(rc) == FlashBoot(rc) /\ PsramInit /\ Resync

\* As if a slot were copied without checking it first.
SlotGoodAnyway(n) == slots[n] # Empty

\* ice40_reflash_image, before it touches the flash: the slot is there and matches its checksum.
SlotGood(n) == slots[n] \in {Old, New}

\* ice40_reflash_image: the PSRAM in SPI, the fabric in reset; from the first erase on the flash holds no whole image.
StartWrite(j) ==
    /\ PsramToSpi
    /\ stage' = "writing" /\ job' = j
    /\ flash' = None /\ gw' = None
    /\ fcap' = "idle" /\ UNCHANGED <<mem, capno, result>>
    /\ wear' = IF j.why \in BootJobs THEN wear ELSE 0
    /\ UNCHANGED <<sick, fabBase, s_adc_cap_base>>

\* ice40_flash_program_src: every page programmed and read back, then CDONE; or a failure, the fabric held in reset.
\* Either way the PSRAM goes back to QPI and the mirrors are set.
FinishWrite(ok) ==
    /\ PsramInit /\ Resync
    /\ IF ok THEN /\ flash' = (IF SlotGood(job.img) THEN Image(job.img) ELSE None)
                  /\ Boots(flash', TRUE) /\ UNCHANGED fFaults
             ELSE /\ Fault /\ \E f \in {None, Image(job.img)} :
                        flash' = (IF f.ver \in {Old, New} THEN f ELSE None)
                  /\ Boots(None, FALSE)

--------------------------------------------------------------------------------
(* Boot. *)

Init ==
    /\ stage = "off" /\ job = NoJob
    /\ flash \in Gateware \cup {None} /\ slots \in [{0, 1} -> SlotStates]
    /\ gw = flash
    /\ sick = "ok" /\ fabBase = "fixed" /\ s_adc_cap_base = "fixed"
    /\ s_fpga_version = 0 /\ s_spi_div = 128 /\ s_psram_selftest_rc = "not run"
    /\ fcap = "idle" /\ mem = [b \in Bases |-> Sentinel] /\ capno = 0 /\ result = 0
    /\ toldGw = None /\ resendCaps = FALSE /\ reader = FALSE /\ psmode = "spi"
    /\ wear = 0 /\ fFaults = 0 /\ fOps = 0 /\ resets = 0

\* A watchdog, `reboot`, an update: the firmware's RAM is fresh, the fabric goes on unless it was held in reset.
Reset ==
    /\ stage # "off" /\ resets < MaxResets /\ resets' = resets + 1
    /\ stage' = "off" /\ job' = NoJob
    /\ gw' = IF gw = None THEN flash ELSE gw
    /\ s_adc_cap_base' = "fixed" /\ s_fpga_version' = 0 /\ s_spi_div' = 128
    /\ s_psram_selftest_rc' = "not run" /\ result' = 0
    /\ fabBase' = IF gw = None THEN "fixed" ELSE fabBase
    /\ toldGw' = None /\ resendCaps' = FALSE
    /\ UNCHANGED <<psmode, flash, slots, sick, fcap, mem, capno, reader, wear, fFaults, fOps>>

\* signal_engine_fabric_to_idle: whatever the last session left running is stopped.
FabricToIdle == fcap' = "idle" /\ reader' = FALSE

\* signal_engine_init, then psram_init; boot_deferred_hw_init holds an unconfigured iCE40 in reset first.
SignalEngineInit ==
    /\ stage = "off"
    /\ stage' = "test" /\ job' = [why |-> "boot", img |-> 0]
    /\ Ping(gw)
    /\ IF gw = None THEN UNCHANGED <<fcap, reader>> ELSE FabricToIdle
    /\ PsramInit
    /\ UNCHANGED <<flash, slots, gw, sick, fabBase, s_adc_cap_base, s_psram_selftest_rc, mem, capno, result,
                   toldGw, resendCaps, wear, fFaults, fOps, resets>>

\* psram_boot_selftest_with_recovery: the first test; a configured fabric that cannot write is reloaded.
BootTest ==
    /\ stage = "test"
    /\ s_psram_selftest_rc' = SelfTest(gw, sick, fabBase, s_adc_cap_base, psmode)
    /\ stage' = IF s_psram_selftest_rc' = "write" THEN "reload" ELSE "update"
    /\ UNCHANGED <<psmode, job, flash, slots, gw, sick, fabBase, s_adc_cap_base, s_fpga_version,
                   s_spi_div, fcap, mem, capno,
                   result, reader, toldGw, resendCaps, wear, fFaults, fOps, resets>>

BootReload ==
    /\ stage = "reload"
    /\ \E rc \in BOOLEAN :
          /\ Reload(rc)
          /\ IF rc THEN /\ Refresh(gw')
                        /\ s_psram_selftest_rc' = SelfTest(gw', sick', fabBase', s_adc_cap_base', psmode')
                   ELSE UNCHANGED <<s_fpga_version, s_spi_div, s_psram_selftest_rc>>
    /\ stage' = IF s_psram_selftest_rc' = "write" THEN "rewrite" ELSE "update"
    /\ UNCHANGED <<job, flash, slots, reader, toldGw, resendCaps, wear, fOps, resets>>

\* As if a failing self-test were enough to write the flash.
DamagedAnyway == TRUE

\* ice40_flash_matches_src; ice40_boot_image_intact: the flash equals one of the slots that hold anything;
\* none holds anything: unknown.
Matches(n) == flash = Image(n)
Damaged == /\ \E n \in {0, 1} : slots[n] # Empty
           /\ \A n \in {0, 1} : slots[n] # Empty => ~Matches(n)

\* ... and its last resort: image 0 into a flash whose image is damaged.  Comparing reloads the fabric too.
BootRewrite ==
    /\ stage = "rewrite"
    /\ IF Damaged /\ SlotGood(0)
       THEN StartWrite([why |-> "rewrite", img |-> 0]) /\ UNCHANGED fFaults
       ELSE /\ stage' = "update" /\ UNCHANGED <<job, flash, wear>>
            /\ IF \A n \in {0, 1} : slots[n] = Empty
               THEN UNCHANGED <<psmode, gw, sick, fabBase, s_adc_cap_base, capture, fFaults>>
               ELSE PsramInit /\ Resync /\ Boots(flash, TRUE) /\ UNCHANGED fFaults
    /\ UNCHANGED <<slots, s_fpga_version, s_spi_div, s_psram_selftest_rc, reader, toldGw, resendCaps, fOps, resets>>

--------------------------------------------------------------------------------
(* The gateware update. *)

\* As if a fabric whose version is ours were written again.
ImageForAny(running) == IF gw = None THEN 0 ELSE IF running = 0 THEN 2 ELSE gw.img

\* boot_policy_gateware_image: image 0 into an unconfigured fabric, the running kind when its version is not ours
\* (2: nothing to write).
ImageFor(running) == IF gw = None THEN 0 ELSE IF running \in {0, New} THEN 2 ELSE gw.img

\* After a reload or a write that succeeded.
Retest == /\ Refresh(gw')
          /\ s_psram_selftest_rc' = SelfTest(gw', sick', fabBase', s_adc_cap_base', psmode')
NoRetest == UNCHANGED <<s_fpga_version, s_spi_div, s_psram_selftest_rc>>

\* signal_engine_gateware_update, at boot and when a gateware blob was installed: first an unconfigured fabric is
\* reloaded from its flash.
UpdateReload ==
    /\ stage = "update" /\ stage' = "load"
    /\ IF gw = None
       THEN \E rc \in BOOLEAN : Reload(rc) /\ IF rc THEN Retest ELSE NoRetest
       ELSE UNCHANGED <<psmode, gw, sick, fabBase, s_adc_cap_base, capture, fFaults>> /\ NoRetest
    /\ UNCHANGED <<job, flash, slots, toldGw, resendCaps, reader, wear, fOps, resets>>

\* The worker is done; the end of boot_deferred_hw_init has the capabilities announced again.
Done(announce) ==
    /\ stage' = "idle" /\ job' = NoJob
    /\ resendCaps' = (resendCaps \/ announce)

\* ... then the image this firmware was built with is written, if the slot holds exactly that.
UpdateWrite ==
    /\ stage = "load"
    /\ LET n == ImageFor(s_fpga_version)
       IN IF n # 2 /\ slots[n] = New
          THEN StartWrite([why |-> job.why, img |-> n]) /\ UNCHANGED resendCaps
          ELSE /\ Done(job.why = "boot")
               /\ UNCHANGED <<flash, psmode, gw, sick, fabBase, s_adc_cap_base, capture, wear>>
    /\ NoRetest
    /\ UNCHANGED <<slots, toldGw, reader, fFaults, fOps, resets>>

--------------------------------------------------------------------------------
(* At run time. *)

Op == fOps < MaxOps /\ fOps' = fOps + 1
Idle == stage = "idle" /\ fcap = "idle"

\* As if a swap took the bus from whatever was playing.
QuiesceNothing == UNCHANGED reader

\* signal_engine_quiesce_psram_masters: the DAC is stopped and the masters have come to rest.
Quiesce == reader' = FALSE

\* A deep replay: the fabric reads the PSRAM on its own until it is stopped.
DeepReplay ==
    /\ Idle /\ Op /\ gw # None /\ gw.img = 1 /\ ~reader /\ reader' = TRUE
    /\ UNCHANGED <<psmode, stage, job, flash, slots, gw, sick, fabBase, s_adc_cap_base, s_fpga_version, s_spi_div,
                   s_psram_selftest_rc, capture, toldGw, resendCaps, wear, fFaults, resets>>

\* The next attempt of an image swap, when its slot is good; else what follows a failed one.
\* fpga_warmboot: retry once, then put the loop image back; a wedge after the swap also ends in the loop image.
SwapFails(img) ==
    IF img # 0 /\ SlotGood(0)
    THEN StartWrite([why |-> "restore", img |-> 0]) /\ UNCHANGED <<resendCaps, s_fpga_version, s_spi_div>>
    ELSE /\ Done(FALSE) /\ UNCHANGED <<flash, psmode, gw, sick, fabBase, s_adc_cap_base, capture, wear>>
         /\ s_fpga_version' = gw.ver
         /\ s_spi_div' = IF gw = None THEN 128 ELSE DivFor(gw.ver)

\* handle_fpga_image: rc -3 and -5 return before the capabilities are announced.
FpgaImage(img) ==
    /\ Idle /\ Op /\ Quiesce
    /\ IF SlotGood(img)
       THEN StartWrite([why |-> "swap", img |-> img]) /\ UNCHANGED <<resendCaps, s_fpga_version, s_spi_div>>
       ELSE SwapFails(img)
    /\ UNCHANGED <<slots, s_psram_selftest_rc, toldGw, fFaults, resets>>

\* `flash-ice40` on the console.
FlashIce40 ==
    /\ Idle /\ Op /\ SlotGood(0) /\ Quiesce
    /\ StartWrite([why |-> "console", img |-> 0])
    /\ NoRetest /\ UNCHANGED <<slots, toldGw, resendCaps, fFaults, resets>>

\* ota_begin quiesced and the session keeps the gate; blob_store_on_installed runs the update.
Install(n, v) ==
    /\ Idle /\ Op /\ slots[n] # v /\ slots' = [slots EXCEPT ![n] = v]
    /\ Quiesce /\ wear' = 0
    /\ stage' = "update" /\ job' = [why |-> "install", img |-> 0]
    /\ NoRetest
    /\ UNCHANGED <<psmode, flash, gw, sick, fabBase, s_adc_cap_base, capture, toldGw, resendCaps, fFaults, resets>>

\* signal_engine_psram_report_wedge.
ReportWedge ==
    s_psram_selftest_rc' = IF s_psram_selftest_rc \in {"ok", "not run"} THEN "write" ELSE s_psram_selftest_rc

\* A write that succeeded, with the new image running.
Written ==
    /\ stage = "writing" /\ FinishWrite(TRUE)
    /\ CASE job.why = "rewrite" ->
              Retest /\ stage' = "update" /\ job' = [why |-> "boot", img |-> 0] /\ UNCHANGED resendCaps
         [] job.why \in {"boot", "install"} -> Retest /\ Done(job.why = "boot")
         [] job.why = "console" -> Refresh(gw') /\ Done(TRUE) /\ UNCHANGED s_psram_selftest_rc
         [] job.why = "restore" -> Ping(gw') /\ Done(FALSE) /\ UNCHANGED s_psram_selftest_rc
         [] job.why = "recover" -> Ping(gw') /\ Done(FALSE) /\ ReportWedge
         [] job.why \in {"swap", "retry"} ->
              /\ Ping(gw')
              /\ IF psmode' = "qpi" /\ RampReturns(gw', sick', fabBase', s_adc_cap_base')
                 THEN Done(TRUE) /\ UNCHANGED s_psram_selftest_rc
                 ELSE IF job.img # 0 /\ SlotGood(0)
                 THEN stage' = "rewedged" /\ UNCHANGED <<job, resendCaps, s_psram_selftest_rc>>
                 ELSE Done(FALSE) /\ ReportWedge
    /\ wear' = IF job.why \in BootJobs THEN wear + 1 ELSE wear
    /\ UNCHANGED <<slots, toldGw, reader, fOps, resets>>

\* ... the swapped-to image cannot write the PSRAM: image 0 again.
SwapWedged ==
    /\ stage = "rewedged" /\ StartWrite([why |-> "recover", img |-> 0])
    /\ NoRetest /\ UNCHANGED <<slots, toldGw, resendCaps, reader, fFaults, fOps, resets>>

\* A write that failed.
WriteFailed ==
    /\ stage = "writing" /\ FinishWrite(FALSE)
    /\ \/ /\ job.why = "rewrite" /\ stage' = "update" /\ job' = [why |-> "boot", img |-> 0]
          /\ NoRetest /\ UNCHANGED resendCaps
       \/ /\ job.why \in {"boot", "install", "console"} /\ Done(job.why = "boot") /\ NoRetest
       \/ /\ job.why = "swap" /\ stage' = "retrying" /\ NoRetest /\ UNCHANGED <<job, resendCaps>>
       \/ /\ job.why = "retry" /\ stage' = "restoring" /\ NoRetest /\ UNCHANGED <<job, resendCaps>>
       \/ /\ job.why = "restore" /\ Done(FALSE)
          /\ s_fpga_version' = 0 /\ s_spi_div' = 128 /\ UNCHANGED s_psram_selftest_rc
       \/ /\ job.why = "recover" /\ Done(FALSE) /\ ReportWedge /\ UNCHANGED <<s_fpga_version, s_spi_div>>
    /\ UNCHANGED <<slots, toldGw, reader, wear, fOps, resets>>

SwapAgain ==
    /\ \/ /\ stage = "retrying" /\ StartWrite([why |-> "retry", img |-> job.img])
          /\ UNCHANGED <<resendCaps, s_fpga_version, s_spi_div>>
       \/ stage = "restoring" /\ SwapFails(job.img)
    /\ UNCHANGED <<slots, s_psram_selftest_rc, toldGw, reader, fFaults, fOps, resets>>

\* An ESD hit: the fabric loses its configuration, or its PSRAM datapath hangs or breaks, or the flash a bit.
Esd ==
    /\ stage = "idle" /\ Fault
    /\ \/ gw' = None /\ fcap' = "idle" /\ reader' = FALSE /\ UNCHANGED <<sick, flash, wear>>
       \/ gw # None /\ sick' \in {"hung", "broken"} \ {sick} /\ UNCHANGED <<gw, fcap, reader, flash, wear>>
       \/ flash # None /\ flash' = None /\ wear' = 0 /\ UNCHANGED <<gw, fcap, reader, sick>>
    /\ UNCHANGED <<psmode, stage, job, slots, fabBase, s_adc_cap_base, s_fpga_version, s_spi_div,
                   s_psram_selftest_rc, mem,
                   capno, result, toldGw, resendCaps, fOps, resets>>

\* ice40_idle_check: the ping that fills in the version; recovery_poll has a fabric that stopped answering reloaded,
\* never written.  A reload that failed is not pinged.
IdleCheck ==
    /\ Idle
    /\ \/ gw # None /\ Refresh(gw) /\ UNCHANGED <<psmode, gw, sick, fabBase, s_adc_cap_base, capture, fFaults>>
       \/ /\ gw = None /\ s_fpga_version # 0 /\ flash # None
          /\ \E rc \in BOOLEAN : Reload(rc) /\ Refresh(IF rc THEN gw' ELSE None)
    /\ UNCHANGED <<stage, job, flash, slots, s_psram_selftest_rc, toldGw, resendCaps, reader, wear, fOps, resets>>

\* announce_capabilities, on a new cloud session or when asked.
Announce ==
    /\ stage = "idle" /\ (resendCaps \/ toldGw = None)
    /\ toldGw' = gw /\ toldGw' # toldGw /\ resendCaps' = FALSE
    /\ UNCHANGED <<psmode, stage, job, flash, slots, gw, sick, fabBase, s_adc_cap_base, s_fpga_version, s_spi_div,
                   s_psram_selftest_rc, capture, reader, wear, fFaults, fOps, resets>>

--------------------------------------------------------------------------------
(* Captures. *)

\* As if the region were not marked before the capture.
StampNothing(m, b) == m

\* adc_capture_psram_start: the no-write sentinel into the region the firmware will read.
Stamp(m, b) == [m EXCEPT ![b] = Sentinel]

\* As if the mirror were set before the fabric took the new base.
SetBasesEarly(b, ok) == s_adc_cap_base' = b /\ fabBase' = IF ok THEN b ELSE fabBase

\* fpga_set_capture_bases: the mirror follows only a write that went out.
SetBases(b, ok) == IF ok THEN s_adc_cap_base' = b /\ fabBase' = b ELSE UNCHANGED <<s_adc_cap_base, fabBase>>

\* The arm: the region the firmware will read is marked, the fabric starts on its own base.
Armed(b) == mem' = Stamp(mem, b) /\ fcap' = "armed" /\ capno' = capno + 1 /\ result' = 0

\* adc_capture_psram_start: `capture`, at the base that is set.
CaptureStart ==
    /\ Idle /\ Op /\ gw # None /\ Armed(s_adc_cap_base)
    /\ UNCHANGED <<psmode, fabBase, s_adc_cap_base, fFaults, stage, job, flash, slots, gw, sick,
                   s_fpga_version, s_spi_div, s_psram_selftest_rc, toldGw,
                   resendCaps, reader, wear, resets>>

\* capture_dual, fpga_dual_capture_start: it packs the ADC region behind the LA's; the result of setting the bases
\* is not looked at.
DualStart(b) ==
    /\ Idle /\ Op /\ gw # None
    /\ \/ SetBases(b, TRUE) /\ UNCHANGED fFaults
       \/ SetBases(b, FALSE) /\ Fault
    /\ Armed(s_adc_cap_base')
    /\ UNCHANGED <<psmode, stage, job, flash, slots, gw, sick, s_fpga_version, s_spi_div,
                   s_psram_selftest_rc, toldGw,
                   resendCaps, reader, wear, resets>>

\* fpga_la_change_start: the ADC base marks the end of the stream for the arm only; the map is restored even when
\* the arm failed, and a failure to restore it aborts the capture.
LaChangeStart ==
    /\ Idle /\ Op /\ gw # None
    /\ \/ fcap' = "la" /\ UNCHANGED <<s_adc_cap_base, fabBase, fFaults>>
       \/ fcap' = "idle" /\ Fault /\ \E ok \in BOOLEAN : SetBases("packed", ok)
    /\ UNCHANGED <<psmode, mem, capno, result, stage, job, flash, slots, gw, sick, s_fpga_version,
                   s_spi_div, s_psram_selftest_rc, toldGw,
                   resendCaps, reader, wear, resets>>

\* fpga_la_change_wait, fpga_la_capture_psram_wait: done, or the deadline passed.
LaWait ==
    /\ stage = "idle" /\ fcap = "la" /\ fcap' = "idle"
    /\ UNCHANGED <<psmode, fabBase, s_adc_cap_base, mem, capno, result, fFaults, fOps, stage, job, flash,
                   slots, gw, sick, s_fpga_version, s_spi_div, s_psram_selftest_rc, toldGw,
                   resendCaps, reader, wear, resets>>

\* The gateware: it writes its region, or cannot, and reports the end either way.
FabricCaptures ==
    /\ fcap = "armed" /\ fcap' = "done"
    /\ mem' = IF sick = "ok" THEN [mem EXCEPT ![fabBase] = capno] ELSE mem
    /\ UNCHANGED <<psmode, stage, job, flash, slots, gw, sick, fabBase, s_adc_cap_base, s_fpga_version, s_spi_div,
                   s_psram_selftest_rc, capno, result, toldGw, resendCaps, reader, wear, fFaults, fOps, resets>>

\* adc_capture_psram_poll: what is in the region, a failure when that is still the sentinel.
CapturePoll ==
    /\ stage = "idle" /\ fcap = "done" /\ fcap' = "idle"
    /\ result' = mem[s_adc_cap_base]
    /\ UNCHANGED <<psmode, stage, job, flash, slots, gw, sick, fabBase, s_adc_cap_base, s_fpga_version, s_spi_div,
                   s_psram_selftest_rc, mem, capno, toldGw, resendCaps, reader, wear, fFaults, fOps, resets>>

\* psram_boot_selftest from the console.
SelfTestAgain ==
    /\ Idle /\ s_psram_selftest_rc' = SelfTest(gw, sick, fabBase, s_adc_cap_base, psmode)
    /\ s_psram_selftest_rc' # s_psram_selftest_rc
    /\ UNCHANGED <<psmode, stage, job, flash, slots, gw, sick, fabBase, s_adc_cap_base, s_fpga_version,
                   s_spi_div, capture,
                   toldGw, resendCaps, reader, wear, fFaults, fOps, resets>>

Boot == SignalEngineInit \/ BootTest \/ BootReload \/ BootRewrite \/ UpdateReload \/ UpdateWrite
Swap == SwapAgain \/ SwapWedged
Next ==
    \/ Reset \/ Boot \/ Written \/ WriteFailed \/ Swap
    \/ \E n \in {0, 1} : FpgaImage(n)
    \/ FlashIce40 \/ DeepReplay \/ Esd \/ IdleCheck \/ Announce
    \/ \E n \in {0, 1}, v \in {Bad, New} : Install(n, v)
    \/ CaptureStart \/ (\E b \in Bases : DualStart(b)) \/ LaChangeStart \/ LaWait
    \/ FabricCaptures \/ CapturePoll \/ SelfTestAgain

Spec == Init /\ [][Next]_fbVars
--------------------------------------------------------------------------------
(* Properties. *)

\* The firmware reads captures from where the fabric writes them, over a PSRAM in the mode both use: an idle firmware's
\* mirror is the fabric's base, whatever was swapped, reloaded, hit or reset.
MirrorsAgree == stage = "idle" /\ gw # None => s_adc_cap_base = fabBase /\ psmode = "qpi"

\* A capture reported done was written by the fabric during that capture, not left over from an earlier one.
CaptureIsNew == result \in {Sentinel, capno}

\* The firmware talks to the gateware that runs at a rate it answers, and knows its version.  It takes two faults to
\* part them: a write that fails after its last page leaves another version in the flash, then a reload that fails but
\* configures is not pinged; the next idle check puts that right.
KnowsGateware ==
    stage = "idle" /\ gw # None /\ s_fpga_version # 0 /\ fFaults < 2 =>
        s_fpga_version = gw.ver /\ (s_spi_div = 64 => gw.ver = New)

\* "A reset never wears the config flash": however often the pod boots, it completes one write for each time a slot or
\* the flash itself changed.
BootSparesFlash == wear <= 1

\* The shared bus is never taken for a write while a deep replay is reading from it.
BusTakenIdle == stage = "writing" => ~reader

\* A pod whose slot 0 holds this firmware's gateware ends up with a configured fabric, whatever a write it was reset in
\* left in the config flash.
ComesConfigured == stage = "idle" /\ slots[0] = New /\ fFaults = 0 => gw # None

================================================================================
