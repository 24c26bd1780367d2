--------------------------------- MODULE EspRom ---------------------------------
(***************************************************************************)
(* esp_rom_job.c over esp_rom_flash.c: an image, or an erase, written into   *)
(* the ESP32-C3 through its ROM loader's UART, one step at a time on the     *)
(* hardware worker.  Frames in both directions keep their order; one may be  *)
(* lost or damaged, and an answer may come after the time its command was    *)
(* given.  An answer is matched to its command by the operation alone.       *)
(***************************************************************************)
EXTENDS Naturals, Sequences

CONSTANTS Blocks,                                   \* blocks of the image
          SyncAttempts, DataAttempts, Md5Attempts,  \* ESP_ROM_*_ATTEMPTS
          MaxTrouble                                \* lost or damaged frames, late answers, failed reads

ConstantsOK == {Blocks, SyncAttempts, DataAttempts, Md5Attempts} \subseteq Nat \ {0} /\ MaxTrouble \in Nat

VARIABLES
    ejob,           \* phase, attempt, seq, result, pending (s_pending_result), syncOnly, erase
    toRom, fromRom, \* the UART: commands [op, seq], answers [op, ok, same]
    rom,            \* the C3's flash, by block
    romUp,          \* the loader runs; not when the C3 is missing or its EN was pulled
    romTrouble

erVars == <<ejob, toRom, fromRom, rom, romUp, romTrouble>>

Idx == 0 .. Blocks - 1
Phases == {"sync", "magic", "attach", "begin", "data", "md5", "end"}
Results == {"none", "verified", "unverified", "no_sync", "no_begin", "no_read", "no_ack", "mismatch"}

TypeOK ==
    /\ ejob \in [phase : Phases \cup {"idle", "done"}, attempt : 0 .. SyncAttempts + DataAttempts + Md5Attempts,
                 seq : 0 .. Blocks, result : Results, pending : Results, syncOnly : BOOLEAN]
    /\ toRom \in Seq([op : Phases, seq : 0 .. Blocks])
    /\ fromRom \in Seq([op : Phases, ok : BOOLEAN, same : BOOLEAN])
    /\ rom \in [Idx -> {"old", "blank", "new"}] /\ romUp \in BOOLEAN /\ romTrouble \in 0 .. MaxTrouble

Init ==
    /\ ejob = [phase |-> "idle", attempt |-> 0, seq |-> 0, result |-> "none", pending |-> "none",
               syncOnly |-> FALSE]
    /\ toRom = <<>> /\ fromRom = <<>> /\ rom = [b \in Idx |-> "old"] /\ romUp \in BOOLEAN /\ romTrouble = 0

Trouble == romTrouble < MaxTrouble /\ romTrouble' = romTrouble + 1
Whole == \A b \in Idx : rom[b] = "new"

\* send_cmd: the frame goes out; what came in before it is not thrown away.
SendCmd(j) == toRom' = Append(toRom, [op |-> j.phase, seq |-> j.seq])

\* rom_enter, then the job: the C3 resets into its loader, the UART is empty.
Start(s) ==
    /\ ejob.phase = "idle"
    /\ ejob' = [phase |-> "sync", attempt |-> 1, seq |-> 0, result |-> "none", pending |-> "none", syncOnly |-> s]
    /\ toRom' = <<[op |-> "sync", seq |-> 0]>> /\ fromRom' = <<>>
    /\ UNCHANGED <<rom, romUp, romTrouble>>

\* esp_rom_job_start; esp_rom_flash_sync with esp_rom_job_start_sync: a wiring test.
StartFlash == Start(FALSE)
StartSync == Start(TRUE)

Finish(r) == ejob' = [ejob EXCEPT !.phase = "done", !.result = r] /\ UNCHANGED toRom
Goto(p, a, s) == LET j == [ejob EXCEPT !.phase = p, !.attempt = a, !.seq = s]
                 IN  ejob' = j /\ SendCmd(j)

\* send_block: the block is read from the slot once, or the reading fails.
SendBlock(s, readable) == IF readable THEN Goto("data", 1, s) ELSE Finish("no_read")

\* send_end: the result is reported when the loader answered, or did not.
SendEnd(r) == LET j == [ejob EXCEPT !.phase = "end", !.pending = r] IN ejob' = j /\ SendCmd(j)

\* The attempts a phase has.
Retries(n) == ejob.attempt < n

\* As if the attempts were not counted.
UncountedAttempt == ejob.attempt

NextAttempt == ejob.attempt + 1

\* ESP_ROM_SYNC.
SyncStep(r) ==
    IF r = "ok" THEN Goto("magic", ejob.attempt, 0)
    ELSE IF Retries(SyncAttempts) THEN Goto("sync", NextAttempt, 0) ELSE Finish("no_sync")

\* ESP_ROM_MAGIC, ESP_ROM_ATTACH: whatever the answer; a wiring test ends here.
MagicStep == IF ejob.syncOnly THEN Finish("verified") ELSE Goto("attach", ejob.attempt, 0)
AttachStep == Goto("begin", ejob.attempt, 0)

\* ESP_ROM_BEGIN.
BeginStep(r, readable) == IF r = "ok" THEN SendBlock(0, readable) ELSE Finish("no_begin")

\* ESP_ROM_DATA: the next block, the MD5 after the last; a block not acknowledged is sent again.
DataStep(r, readable) ==
    IF r = "ok" THEN (IF ejob.seq + 1 < Blocks THEN SendBlock(ejob.seq + 1, readable) ELSE Goto("md5", 1, Blocks))
    ELSE IF Retries(DataAttempts) THEN Goto("data", NextAttempt, ejob.seq) ELSE Finish("no_ack")

\* As if the sums were not compared.
SumsAgreeAlways(a) == TRUE

\* The loader's MD5 against the one of the blocks sent.
SumsAgree(a) == a.same

\* ESP_ROM_MD5: a sum that never comes back leaves the write unverified.
Md5Step(r, a) ==
    IF r = "ok" THEN (IF SumsAgree(a) THEN SendEnd("verified") ELSE Finish("mismatch"))
    ELSE IF Retries(Md5Attempts) THEN Goto("md5", NextAttempt, Blocks) ELSE SendEnd("unverified")

\* esp_rom_job_step with an answer, or without one.
JobStep(r, a, readable) ==
    \/ ejob.phase = "sync" /\ SyncStep(r)
    \/ ejob.phase = "magic" /\ MagicStep
    \/ ejob.phase = "attach" /\ AttachStep
    \/ ejob.phase = "begin" /\ BeginStep(r, readable)
    \/ ejob.phase = "data" /\ DataStep(r, readable)
    \/ ejob.phase = "md5" /\ Md5Step(r, a)
    \/ ejob.phase = "end" /\ Finish(ejob.pending)

\* eval_frame: an answer counts when it names the operation in flight.
Answers(a) == a.op = ejob.phase

\* poll_reply: what arrived, in order.
Reply ==
    /\ ejob.phase \in Phases /\ fromRom # <<>>
    /\ LET a == Head(fromRom)
       IN  \/ /\ Answers(a)
              /\ \E readable \in BOOLEAN :
                    /\ JobStep(IF a.ok THEN "ok" ELSE "refused", a, readable)
                    /\ IF readable THEN UNCHANGED romTrouble ELSE Trouble
           \/ ~Answers(a) /\ UNCHANGED <<ejob, toRom, romTrouble>>
    /\ fromRom' = Tail(fromRom) /\ UNCHANGED <<rom, romUp>>

\* The deadline: nothing is on its way, or it is only late.
Timeout ==
    /\ ejob.phase \in Phases /\ JobStep("late", [same |-> FALSE], TRUE)
    /\ IF toRom = <<>> /\ fromRom = <<>> THEN UNCHANGED romTrouble ELSE Trouble
    /\ UNCHANGED <<fromRom, rom, romUp>>

\* The loader: takes a command, does it, answers; a damaged block is refused.
RomServes ==
    /\ romUp /\ toRom # <<>>
    /\ LET c == Head(toRom)
           answer(ok) == fromRom' = Append(fromRom, [op |-> c.op, ok |-> ok, same |-> Whole])
       IN  \/ /\ answer(TRUE) /\ UNCHANGED romTrouble
              /\ rom' = CASE c.op = "begin" -> [b \in Idx |-> "blank"]
                          [] c.op = "data" -> [rom EXCEPT ![c.seq] = "new"]
                          [] OTHER -> rom
           \/ Trouble /\ answer(FALSE) /\ UNCHANGED rom
    /\ toRom' = Tail(toRom) /\ UNCHANGED <<ejob, romUp>>

\* A frame the loader never sees; an answer the UART's ring had no room for (USART1_IRQHandler).
LoseCommand ==
    /\ toRom # <<>> /\ toRom' = Tail(toRom)
    /\ IF romUp THEN Trouble ELSE UNCHANGED romTrouble
    /\ UNCHANGED <<ejob, fromRom, rom, romUp>>
LoseAnswer == Trouble /\ fromRom # <<>> /\ fromRom' = Tail(fromRom) /\ UNCHANGED <<ejob, toRom, rom, romUp>>
LoaderGone == romUp /\ Trouble /\ romUp' = FALSE /\ fromRom' = <<>> /\ UNCHANGED <<ejob, toRom, rom>>

Next == StartFlash \/ StartSync \/ Reply \/ Timeout \/ RomServes \/ LoseCommand \/ LoseAnswer \/ LoaderGone

Fairness == WF_erVars(Reply) /\ WF_erVars(Timeout) /\ WF_erVars(RomServes) /\ WF_erVars(~romUp /\ LoseCommand)
Spec == Init /\ [][Next]_erVars /\ Fairness
--------------------------------------------------------------------------------
(* Properties. *)

\* A flash reported as verified left the C3 with the whole image, also when acknowledgements came late and were taken
\* for those of later blocks; a wiring test writes nothing.
VerifiedIsWhole ==
    /\ ejob.result = "verified" /\ ~ejob.syncOnly => Whole
    /\ ejob.syncOnly => \A b \in Idx : rom[b] = "old"

\* A flash that was started ends, verified or with its reason.
Ended == ejob.phase \in {"idle", "done"}
FlashEnds == []<>Ended

================================================================================
