------------------------------- MODULE SpiMaster -------------------------------
(* The SPI master on the LA pins: command_handler_spi.c over fpga_spi_* of       *)
(* signal_engine.c, spi_flash.c and spi_stream.c.  The iCE40 holds the engine    *)
(* (armed, chip select), the firmware its mirror (spi_armed_local, s_cs_held)    *)
(* and the command it is carrying out; on the other side of the pins is a        *)
(* 25-series NOR flash, which acts on a command when chip select rises and       *)
(* ignores all but a status read while it is busy.  One command() of             *)
(* spi_flash.c, one chunk of spi_xfer and one chunk of spi_stream is one step:   *)
(* between two of them the chip may finish and the iCE40 may reset on its own.   *)
EXTENDS Naturals, FiniteSets

CONSTANTS Limit,      \* SPI_FLASH_ADDR_LIMIT
          Page, Sector, Block,
          Starts, Lens,  \* what the clients ask for
          MaxFaults,  \* transfers that fail and engines that reset
          MaxSpiCmds

ConstantsOK ==
    /\ {Limit, Page, Sector, Block} \subseteq Nat \ {0}
    /\ Page < Sector /\ Sector < Block
    /\ Sector % Page = 0 /\ Block % Sector = 0 /\ Limit % Block = 0
    /\ Starts \subseteq Nat /\ Lens \subseteq Nat
    /\ {MaxFaults, MaxSpiCmds} \subseteq Nat

VARIABLES
    spiGw,          \* [armed, cs]: the engine in the fabric
    spi_armed_local,
    s_cs_held,
    chip,           \* [wel, wip, mem, protected]: the flash on the pins
    frame,          \* TRUE when raw bytes were clocked since chip select fell
    sjob,           \* the command the worker carries out
    said,           \* its reply
    busHeld, gateHeld,  \* the PSRAM bus and the heavy-operation gate
    mixed,          \* history: a flash command went into a frame already open
    spiFaults, spiCmds

smVars == <<spiGw, spi_armed_local, s_cs_held, chip, frame, sjob, said, busHeld, gateHeld, mixed,
            spiFaults, spiCmds>>

Addr == 0..(Limit - 1)
Idle == [op |-> "idle"]
NoReply == [op |-> "none", ok |-> FALSE]
Ops == {"idle", "xfer", "stream", "erase", "chip_erase", "write"}

Init ==
    /\ spiGw = [armed |-> FALSE, cs |-> FALSE]
    /\ spi_armed_local = FALSE /\ s_cs_held = FALSE
    /\ chip \in [wel : {FALSE}, wip : {FALSE}, protected : BOOLEAN, mem : {[a \in Addr |-> v] : v \in {0, 1}}]
    /\ frame = FALSE /\ sjob = Idle /\ said = NoReply
    /\ busHeld = FALSE /\ gateHeld = FALSE /\ mixed = FALSE /\ spiFaults = 0 /\ spiCmds = 0

--------------------------------------------------------------------------------
(* The session. *)

Command == sjob = Idle /\ spiCmds < MaxSpiCmds /\ spiCmds' = spiCmds + 1

(* fpga_spi_cs: nothing without an armed session; the fabric ignores it when its engine is not armed. *)
Cs(on) == /\ spiGw' = IF spi_armed_local /\ spiGw.armed THEN [spiGw EXCEPT !.cs = on] ELSE spiGw
          /\ frame' = (frame /\ on)

Start ==
    /\ Command /\ ~spi_armed_local
    /\ spiGw' = [armed |-> TRUE, cs |-> FALSE] /\ spi_armed_local' = TRUE /\ s_cs_held' = FALSE
    /\ UNCHANGED <<chip, frame, sjob, said, busHeld, gateHeld, mixed, spiFaults>>

(* spi_session_end: SWD_DISARM drops the engine and its pins. *)
SessionEnded == /\ spiGw' = [armed |-> FALSE, cs |-> FALSE]
                /\ spi_armed_local' = FALSE /\ s_cs_held' = FALSE /\ frame' = FALSE

(* spi_stop, and an image swap (spi_on_gateware_reconfigured), which the worker runs between commands *)
Stop ==
    /\ Command /\ SessionEnded
    /\ UNCHANGED <<chip, sjob, said, busHeld, gateHeld, mixed, spiFaults>>

(* what one fpga_spi_xfer returns: an engine that is no longer armed answers so (-3); otherwise the bytes
   went out, or the engine did not drain or did not answer (-2) *)
XferResults == IF ~spi_armed_local THEN {"args"} ELSE IF ~spiGw.armed THEN {"reset"}
               ELSE IF spiFaults < MaxFaults THEN {"ok", "dead"} ELSE {"ok"}
Counted(rc) == spiFaults' = spiFaults + (IF rc = "dead" THEN 1 ELSE 0)
Reply(ok) == /\ said' = [op |-> sjob.op, ok |-> ok] /\ sjob' = Idle

--------------------------------------------------------------------------------
(* spi_xfer: up to two chunks of SPI_XFER_MAX in one frame, which "hold" leaves open. *)

XferBegin(hold, chunks) ==
    /\ Command /\ spi_armed_local
    /\ IF s_cs_held THEN UNCHANGED <<spiGw, frame>> ELSE Cs(TRUE)
    /\ sjob' = [op |-> "xfer", hold |-> hold, left |-> chunks]
    /\ UNCHANGED <<spi_armed_local, s_cs_held, chip, said, busHeld, gateHeld, mixed, spiFaults>>

XferEnds(rc) ==
    /\ Reply(rc = "ok")
    /\ \/ rc = "ok" /\ sjob.hold /\ s_cs_held' = TRUE /\ frame' = TRUE /\ UNCHANGED <<spiGw, spi_armed_local>>
       \/ rc = "reset" /\ SessionEnded
       \/ /\ rc # "reset" /\ ~(rc = "ok" /\ sjob.hold)
          /\ Cs(FALSE) /\ s_cs_held' = FALSE /\ UNCHANGED spi_armed_local

XferChunk ==
    /\ sjob.op = "xfer"
    /\ \E rc \in XferResults :
        /\ Counted(rc)
        /\ IF rc = "ok" /\ sjob.left > 1
           THEN sjob' = [sjob EXCEPT !.left = @ - 1] /\ frame' = TRUE
                 /\ UNCHANGED <<spiGw, spi_armed_local, s_cs_held, said>>
           ELSE XferEnds(rc)
    /\ UNCHANGED <<chip, busHeld, gateHeld, mixed, spiCmds>>

--------------------------------------------------------------------------------
(* spi_stream: the staged PSRAM bytes in a frame of their own, under the heavy gate and with the bus held. *)

(* a held frame is released first, then chip select is asserted for the stream's own *)
ClosesHeld == /\ spiGw' = IF spi_armed_local /\ spiGw.armed THEN [spiGw EXCEPT !.cs = TRUE] ELSE spiGw
              /\ frame' = (frame /\ ~s_cs_held)

StreamBegin(hold, chunks) ==
    /\ Command /\ spi_armed_local
    /\ gateHeld' = TRUE /\ busHeld' = TRUE
    /\ ClosesHeld /\ s_cs_held' = FALSE
    /\ mixed' = (mixed \/ frame')
    /\ sjob' = [op |-> "stream", hold |-> hold, left |-> chunks]
    /\ UNCHANGED <<spi_armed_local, chip, said, spiFaults>>

(* A source read that fails ends the run as a failed transfer does ("dead").
   handle_spi_stream after spi_stream_run: the bus and the gate go back whatever happened *)
StreamEnds(rc) ==
    /\ Reply(rc = "ok") /\ busHeld' = FALSE /\ gateHeld' = FALSE
    /\ \/ rc = "reset" /\ SessionEnded
       \/ rc = "ok" /\ sjob.hold /\ s_cs_held' = TRUE /\ frame' = TRUE /\ UNCHANGED <<spiGw, spi_armed_local>>
       \/ rc # "reset" /\ ~(rc = "ok" /\ sjob.hold) /\ Cs(FALSE) /\ s_cs_held' = FALSE /\ UNCHANGED spi_armed_local

StreamChunk ==
    /\ sjob.op = "stream"
    /\ \E rc \in XferResults :
        /\ Counted(rc)
        /\ IF rc = "ok" /\ sjob.left > 1
           THEN /\ sjob' = [sjob EXCEPT !.left = @ - 1] /\ frame' = TRUE
                /\ UNCHANGED <<spiGw, spi_armed_local, s_cs_held, said, busHeld, gateHeld>>
           ELSE StreamEnds(rc)
    /\ UNCHANGED <<chip, mixed, spiCmds>>

--------------------------------------------------------------------------------
(* The flash: what a framed command does to it. *)

Down(a, n) == (a \div n) * n
Touched(a, n) == Down(a, n)..(Down(a, n) + n - 1)
Accepts == ~chip.wip /\ chip.wel
Erased(r) == IF Accepts THEN [chip EXCEPT !.wel = FALSE, !.wip = TRUE,
                              !.mem = [a \in Addr |-> IF a \in r THEN 1 ELSE @[a]]] ELSE chip
(* page program: bytes only clear, and past the page's end they wrap to its start *)
Programmed(at, n, d) ==
    LET hit == {Down(at, Page) + ((at - Down(at, Page) + i) % Page) : i \in 0..(n - 1)}
    IN  IF Accepts THEN [chip EXCEPT !.wel = FALSE, !.wip = TRUE,
                         !.mem = [a \in Addr |-> IF a \in hit /\ d = 0 THEN 0 ELSE @[a]]] ELSE chip
WriteEnabled == [chip EXCEPT !.wel = ~chip.protected /\ ~chip.wip]

(* range_ok *)
RangeOK(addr, len) == len > 0 /\ addr < Limit /\ len <= Limit - addr

(* broken: the raw frame is left open *)
KeepsFrame == UNCHANGED <<spiGw, frame, s_cs_held>>

(* handle_spi_flash: a raw frame left open is closed before the first command *)
ClosesFrame == IF s_cs_held THEN Cs(FALSE) /\ s_cs_held' = FALSE ELSE UNCHANGED <<spiGw, frame, s_cs_held>>

FlashBegin(job) ==
    /\ Command /\ spi_armed_local
    /\ ClosesFrame
    /\ \/ RangeOK(job.addr, job.len) /\ sjob' = job /\ UNCHANGED said
       \/ ~RangeOK(job.addr, job.len) /\ said' = [op |-> job.op, ok |-> FALSE] /\ UNCHANGED sjob
    /\ UNCHANGED <<spi_armed_local, chip, busHeld, gateHeld, mixed, spiFaults>>

Erase(a, n) == FlashBegin([op |-> "erase", addr |-> a, len |-> n, at |-> Down(a, Sector), st |-> "wren",
                           mem |-> chip.mem])
ChipErase == FlashBegin([op |-> "chip_erase", addr |-> 0, len |-> Limit, at |-> 0, st |-> "wren", mem |-> chip.mem])
Write(a, n, d) == FlashBegin([op |-> "write", addr |-> a, len |-> n, data |-> d, at |-> a, st |-> "wren",
                              mem |-> chip.mem])

(* spi_flash_erase: a block where a whole aligned one is left, else a sector *)
EraseEnd == Down(sjob.addr + sjob.len + Sector - 1, Sector)
(* broken: a block erase from an address that is not a block's start *)
EraseStepUnaligned == IF sjob.op = "chip_erase" THEN Limit
                      ELSE IF EraseEnd - sjob.at >= Block THEN Block ELSE Sector
EraseStep == IF sjob.op = "chip_erase" THEN Limit
             ELSE IF sjob.at % Block = 0 /\ EraseEnd - sjob.at >= Block THEN Block ELSE Sector
(* a chip told to erase at an address erases the unit around it *)
EraseRange == Touched(sjob.at, EraseStep)
(* spi_flash_program: to the page's end *)
(* broken: one page program for all of it *)
ProgramStepLong == sjob.addr + sjob.len - sjob.at
ProgramStep == LET left == Page - (sjob.at % Page)
                   rest == sjob.addr + sjob.len - sjob.at
               IN  IF left < rest THEN left ELSE rest

(* what the command of this step makes of the chip when it arrives whole *)
Effect == CASE sjob.st = "wren" -> WriteEnabled
            [] sjob.st = "cmd" /\ sjob.op = "write" -> Programmed(sjob.at, ProgramStep, sjob.data)
            [] sjob.st = "cmd" /\ sjob.op # "write" -> Erased(EraseRange)
            [] OTHER -> chip
(* cut short it is a shorter page program, or nothing *)
CutShort == {chip} \cup (IF sjob.st = "cmd" /\ sjob.op = "write"
                         THEN {Programmed(sjob.at, n, sjob.data) : n \in 1..ProgramStep} ELSE {})

Advanced == sjob.at + (IF sjob.op = "write" THEN ProgramStep ELSE EraseStep)
JobEnd == IF sjob.op = "erase" THEN EraseEnd ELSE sjob.addr + sjob.len
Goto(s) == sjob' = [sjob EXCEPT !.st = s] /\ UNCHANGED said
(* broken: the status is not looked at *)
EnableUnchecked == TRUE
(* write_enable: the status must show WEL and not WIP *)
EnableStuck == chip.wel /\ ~chip.wip
Flashed(ok) == /\ said' = [op |-> sjob.op, ok |-> ok, addr |-> sjob.addr, len |-> sjob.len,
                           data |-> IF sjob.op = "write" THEN sjob.data ELSE 1, mem |-> chip.mem]
               /\ sjob' = Idle
Matches == \A a \in sjob.addr..(sjob.addr + sjob.len - 1) : chip.mem[a] = sjob.data

(* the reply to the command the step sent, once it went through: st names the step *)
Went ==
    CASE sjob.st = "wren" -> Goto("check")
      [] sjob.st = "check" -> IF EnableStuck THEN Goto("cmd") ELSE Flashed(FALSE)
      [] sjob.st = "cmd" -> Goto("wait")
      [] sjob.st = "wait" ->
            \/ chip.wip /\ Goto("wait")
            \/ chip.wip /\ Flashed(FALSE)           \* the deadline passed: SPI_FLASH_E_TIMEOUT
            \/ /\ ~chip.wip
               /\ \/ Advanced < JobEnd /\ sjob' = [sjob EXCEPT !.at = Advanced, !.st = "wren"] /\ UNCHANGED said
                  \/ Advanced >= JobEnd /\ sjob.op = "write" /\ Goto("verify")
                  \/ Advanced >= JobEnd /\ sjob.op # "write" /\ Flashed(TRUE)
      [] sjob.st = "verify" -> Flashed(Matches)     \* a busy chip would not answer, but wait_idle came first

(* one command() of spi_flash.c: chip select, the bytes, chip select; flash_error on a failure *)
FlashStep ==
    /\ sjob.op \in {"erase", "chip_erase", "write"}
    /\ \E rc \in XferResults :
        /\ Counted(rc)
        /\ mixed' = (mixed \/ frame)
        /\ \/ rc = "ok" /\ Went /\ chip' = Effect /\ UNCHANGED <<spiGw, frame, spi_armed_local, s_cs_held>>
           \/ /\ rc = "dead" /\ Flashed(FALSE) /\ chip' \in CutShort
              /\ UNCHANGED <<spiGw, frame, spi_armed_local, s_cs_held>>
           \/ rc = "reset" /\ Flashed(FALSE) /\ SessionEnded /\ UNCHANGED chip
    /\ UNCHANGED <<busHeld, gateHeld, spiCmds>>

--------------------------------------------------------------------------------
(* The iCE40 reset on its own: its pins float, the chip drops a frame in progress. *)
EngineResets ==
    /\ spiGw.armed /\ spiFaults < MaxFaults
    /\ spiGw' = [armed |-> FALSE, cs |-> FALSE] /\ frame' = FALSE /\ spiFaults' = spiFaults + 1
    /\ UNCHANGED <<spi_armed_local, s_cs_held, chip, sjob, said, busHeld, gateHeld, mixed, spiCmds>>

ChipReady ==
    /\ chip.wip /\ chip' = [chip EXCEPT !.wip = FALSE]
    /\ UNCHANGED <<spiGw, spi_armed_local, s_cs_held, frame, sjob, said, busHeld, gateHeld, mixed,
                   spiFaults, spiCmds>>

Next ==
    \/ Start \/ Stop
    \/ \E h \in BOOLEAN, n \in 1..2 : XferBegin(h, n) \/ StreamBegin(h, n)
    \/ XferChunk \/ StreamChunk
    \/ \E a \in Starts, n \in Lens : Erase(a, n) \/ \E d \in {0, 1} : Write(a, n, d)
    \/ ChipErase
    \/ FlashStep \/ EngineResets \/ ChipReady

Spec == Init /\ [][Next]_smVars

--------------------------------------------------------------------------------
TypeOK ==
    /\ spiGw \in [armed : BOOLEAN, cs : BOOLEAN]
    /\ {spi_armed_local, s_cs_held, frame, busHeld, gateHeld, mixed} \subseteq BOOLEAN
    /\ chip.mem \in [Addr -> {0, 1}] /\ {chip.wel, chip.wip, chip.protected} \subseteq BOOLEAN
    /\ sjob.op \in Ops /\ said.op \in Ops \cup {"none"}
    /\ spiFaults \in 0..MaxFaults /\ spiCmds \in 0..MaxSpiCmds

(* What the replies of spi_flash say is so: an erase answered ok left every byte of the range it was asked
   for erased, a verified write answered ok left its data there.  A chip whose write enable does not stick,
   or that is still busy with an operation that timed out, must not be reported as done. *)
FlashTold ==
    said.op \in {"erase", "chip_erase", "write"} /\ said.ok =>
        \A a \in said.addr..(said.addr + said.len - 1) : said.mem[a] = said.data

(* A flash operation changes only what it was asked to: a write the bytes of its range (a page program that
   ran past its page would wrap to the page's start), an erase the 4 KB sectors its range touches. *)
FlashConfined ==
    sjob.op \in {"erase", "write"} =>
        LET mine == IF sjob.op = "write" THEN sjob.addr..(sjob.addr + sjob.len - 1)
                    ELSE Down(sjob.addr, Sector)..(EraseEnd - 1)
        IN  \A a \in Addr \ mine : chip.mem[a] = sjob.mem[a]

(* Chip select is where the pod says it is between commands, a held frame is never continued by a flash
   command or a stream, and the PSRAM bus and the heavy gate are the pod's again after every stream. *)
FramesApart ==
    /\ ~mixed
    /\ sjob = Idle => /\ spiGw.armed => s_cs_held = spiGw.cs
                      /\ frame => s_cs_held
                      /\ ~busHeld /\ ~gateHeld

================================================================================
