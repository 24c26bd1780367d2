-------------------------------- MODULE BridgeOta --------------------------------
(***************************************************************************)
(* An update of the Wi-Fi bridge: the pod's relay (wifi_bridge_ota.c,       *)
(* wifi_bridge_net.c) sends the image of slot "bridge" through the request  *)
(* slot of the control channel, and the bridge (wifi-bridge: ota.c,         *)
(* bridge_util.c) writes it to its other slot, boots it on trial, and       *)
(* confirms it or rolls back.                                               *)
(*                                                                          *)
(* A request is carried out once for every send that arrives; the relay     *)
(* sees the answer to the last one, or none.                                *)
(***************************************************************************)
EXTENDS Naturals, Sequences

CONSTANTS
    Chunks,            \* chunks of the image
    OtaTries,          \* WBO_TRIES
    MaxTrouble,        \* answers lost, requests lost, power cuts, misreads, busy slots
    MaxForced          \* `bridge update`

ConstantsOK == {Chunks, OtaTries} \subseteq Nat \ {0} /\ {MaxTrouble, MaxForced} \subseteq Nat

VARIABLES
    o_state, o_off, o_resend, o_tries, o_failed, seen_new, o_forced, o_status,  \* the relay
    s_quiesced,                    \* the gateware's PSRAM masters were stopped for it
    o_req, o_ans,                  \* the request out, and its answer
    slot, running, boot, img,      \* contents of A and B; the slot that runs, that boots; its otadata state
    s_pending,                     \* ota.c: the running image is on trial
    otaseq,                        \* bu_ota_seq_t
    hears,                         \* the bridge's application works (its new image may not)
    hello,                         \* the pod's last HELLO: version and the trial flag; or none
    good,                          \* the image the pod holds works
    trouble, forcings

relayVars == <<o_state, o_off, o_resend, o_tries, o_failed, seen_new, o_forced, o_status, s_quiesced>>
chanVars == <<o_req, o_ans>>
flashVars == <<slot, running, boot, img>>
ramVars == <<s_pending, otaseq, hears>>
boVars == <<relayVars, chanVars, flashVars, ramVars, hello, good, trouble, forcings>>

\* An image is its chunks, 0 where a chunk was misread; the old one counts as whole.
Whole == [i \in 1..Chunks |-> i]
Old == <<>>
Other(s) == IF s = "A" THEN "B" ELSE "A"
Runs(s) == IF slot[s] = Old THEN 1 ELSE 2
NoSeq == [active |-> FALSE, next |-> 0, last |-> Chunks + 1]
NoHello == [v |-> 0, trial |-> FALSE]

Init ==
    /\ o_state = "idle" /\ o_off = 0 /\ o_resend = FALSE /\ o_tries = 0 /\ o_failed = FALSE
    /\ seen_new = FALSE /\ o_forced = FALSE /\ o_status = "idle" /\ s_quiesced = FALSE
    /\ o_req = "none" /\ o_ans = "none"
    /\ slot = [A |-> Old, B |-> Old] /\ running = "A" /\ boot = "A" /\ img = "valid"
    /\ s_pending = FALSE /\ otaseq = NoSeq /\ hears = TRUE /\ hello = NoHello
    /\ good \in BOOLEAN /\ trouble = 0 /\ forcings = 0

Trouble == trouble < MaxTrouble /\ trouble' = trouble + 1 /\ UNCHANGED forcings
--------------------------------------------------------------------------------
(* The relay, on the hardware worker.                                       *)

\* stop; the masters may run again with the next poll that is not busy (wifi_bridge_ota_poll).
Stop(state, status) ==
    /\ o_state' = state /\ o_status' = status /\ o_forced' = FALSE /\ s_quiesced' = FALSE

\* fail: not again until the pod restarts or `bridge update`.
Fail == Stop("idle", "failed") /\ o_failed' = TRUE

\* As if a failure on the way were tried for ever.
RetryForever == Stop("idle", "retry") /\ UNCHANGED o_failed

\* fail_transient.
FailTransient ==
    IF o_tries >= OtaTries THEN Fail ELSE Stop("idle", "retry") /\ UNCHANGED o_failed

\* send_simple, send_chunk, over ro_start and ro_read: sent, or the slot is busy with a STATUS of
\* the pod's own, or the bridge is gone.
Send(type, state) ==
    \/ /\ o_req' = type /\ o_ans' = "none" /\ o_resend' = FALSE /\ o_state' = state
       /\ s_quiesced' = (s_quiesced \/ type = "DATA")
       /\ UNCHANGED <<o_failed, o_forced, o_status, trouble, forcings>>
    \/ /\ Trouble /\ o_req' = "none" /\ o_ans' = "none" /\ o_resend' = TRUE /\ o_state' = state
       /\ UNCHANGED <<o_failed, o_forced, o_status, s_quiesced>>
    \/ /\ Trouble /\ o_req' = "none" /\ o_ans' = "none" /\ UNCHANGED o_resend /\ Fail

\* try_start, on a check: the bridge is there and idle, its version older and not one that failed,
\* unless asked for.
Wanted == o_forced \/ (hello.v < 2 /\ ~o_failed)

TryStart ==
    /\ o_state = "idle" /\ o_req = "none" /\ hello # NoHello
    /\ ~hello.trial /\ ~otaseq.active /\ Wanted
    /\ o_tries' = IF o_forced THEN 1 ELSE o_tries + 1
    /\ seen_new' = FALSE /\ o_off' = 0
    /\ o_state' = "begin" /\ o_req' = "BEGIN" /\ o_ans' = "none" /\ o_resend' = FALSE
    /\ UNCHANGED <<o_failed, o_forced, o_status, s_quiesced, flashVars, ramVars, hello, good, trouble, forcings>>

\* wbo_poll, the slot was busy: send again.
Resend ==
    /\ o_state \in {"data", "end", "reboot"} /\ o_resend
    /\ Send(CASE o_state = "data" -> "DATA" [] o_state = "end" -> "END" [] o_state = "reboot" -> "REBOOT", o_state)
    /\ UNCHANGED <<o_off, o_tries, seen_new, flashVars, ramVars, hello, good>>

\* wbo_poll, an answer (or none): the next step of the update.
Answered ==
    /\ o_state \in {"begin", "data", "end"} /\ ~o_resend /\ o_ans \notin {"none", "timeout"}
    /\ \/ /\ o_state = "begin" /\ o_ans = "OK" /\ Send("DATA", "data") /\ UNCHANGED o_off
       \/ /\ o_state = "data" /\ o_ans \in {"OK", "BAD_OFFSET"} /\ o_off' = otaseq.next
          /\ IF otaseq.next = Chunks THEN Send("END", "end") ELSE Send("DATA", "data")
       \/ /\ o_state = "end" /\ o_ans = "OK" /\ Send("REBOOT", "reboot") /\ UNCHANGED o_off
       \/ /\ o_ans # "OK" /\ ~(o_state = "data" /\ o_ans = "BAD_OFFSET") /\ Fail
          /\ o_req' = "none" /\ o_ans' = "none" /\ UNCHANGED <<o_off, o_resend, trouble, forcings>>
    /\ UNCHANGED <<o_tries, seen_new, flashVars, ramVars, hello, good>>

NotAnswered ==
    /\ o_state \in {"begin", "data", "end"} /\ o_ans = "timeout"
    /\ FailTransient /\ o_req' = "none" /\ o_ans' = "none"
    /\ UNCHANGED <<o_off, o_resend, o_tries, seen_new, flashVars, ramVars, hello, good, trouble, forcings>>

\* wbo_poll, REBOOT answered or not: the bridge restarts.
Restarted ==
    /\ o_state = "reboot" /\ ~o_resend /\ o_ans # "none"
    /\ Stop("wait", "waiting") /\ o_req' = "none" /\ o_ans' = "none"
    /\ UNCHANGED <<o_off, o_resend, o_tries, o_failed, seen_new, flashVars, ramVars, hello, good,
                   trouble, forcings>>

\* As if a bridge on trial counted as updated.
ConfirmedSoon == hello.v = 2

\* wbo_poll, WBO_WAIT_BACK: the HELLO's version and flags, not those of a STATUS.
Confirmed == hello.v = 2 /\ ~hello.trial

WaitBack ==
    /\ o_state = "wait"
    /\ \/ /\ Confirmed /\ Stop("idle", "updated") /\ o_failed' = FALSE /\ o_tries' = 0 /\ UNCHANGED seen_new
       \/ /\ ~Confirmed /\ hello.v = 2 /\ ~seen_new /\ seen_new' = TRUE
          /\ UNCHANGED <<o_state, o_status, o_forced, s_quiesced, o_failed, o_tries>>
       \/ /\ hello.v = 1 /\ seen_new /\ Fail /\ UNCHANGED <<o_tries, seen_new>>
       \/ /\ hello.v = 1 /\ ~seen_new /\ Runs(running) = 1 /\ Fail /\ UNCHANGED <<o_tries, seen_new>>   \* the deadline
       \/ /\ hello = NoHello /\ FailTransient /\ UNCHANGED <<o_tries, seen_new>>
    /\ UNCHANGED <<o_off, o_resend, chanVars, flashVars, ramVars, hello, good, trouble, forcings>>

\* wifi_bridge_ota_force.
Force ==
    /\ forcings < MaxForced /\ forcings' = forcings + 1 /\ ~o_forced /\ o_forced' = TRUE
    /\ UNCHANGED <<o_state, o_off, o_resend, o_tries, o_failed, seen_new, o_status, s_quiesced, chanVars,
                   flashVars, ramVars, hello, good, trouble>>

Relay == TryStart \/ Resend \/ Answered \/ NotAnswered \/ Restarted \/ WaitBack
--------------------------------------------------------------------------------
(* The bridge.                                                              *)

\* As if a request did not prove that a new image works.
ConfirmLater == UNCHANGED <<s_pending, img>>

\* ota_confirm: a valid request proves a new image works, before it is carried out.
Confirm == s_pending' = FALSE /\ img' = (IF s_pending THEN "valid" ELSE img)

\* ota_begin: an image on its way is dropped, the other slot erased.
OtaBegin ==
    /\ slot' = [slot EXCEPT ![Other(running)] = <<0>>]
    /\ boot' = running        \* an erased slot does not boot
    /\ otaseq' = [active |-> TRUE, next |-> 0, last |-> Chunks + 1] /\ o_ans' = "OK"
    /\ UNCHANGED running

\* bu_ota_check: the last chunk once more.
Duplicate(off) == otaseq.last = off

\* ota_data over bu_ota_check and bu_ota_advance: a misread chunk is written as it came.
OtaData(off) ==
    /\ UNCHANGED <<running, boot>>
    /\ \/ ~otaseq.active /\ o_ans' = "NOT_STARTED" /\ UNCHANGED <<slot, otaseq, trouble, forcings>>
       \/ /\ otaseq.active /\ Duplicate(off) /\ o_ans' = "OK" /\ UNCHANGED <<slot, otaseq, trouble, forcings>>
       \/ /\ otaseq.active /\ ~Duplicate(off) /\ off # otaseq.next /\ o_ans' = "BAD_OFFSET"
          /\ UNCHANGED <<slot, otaseq, trouble, forcings>>
       \/ /\ otaseq.active /\ ~Duplicate(off) /\ off = otaseq.next /\ o_ans' = "OK"
          /\ otaseq' = [active |-> TRUE, next |-> off + 1, last |-> off]
          /\ \E c \in {off + 1, 0} :
                /\ slot' = [slot EXCEPT ![Other(running)] =
                              Append(IF off = 0 THEN <<>> ELSE @, c)]
                /\ IF c = 0 THEN Trouble ELSE UNCHANGED <<trouble, forcings>>

\* As if what was received were not compared with the manifest.
AnyHash == TRUE

\* ota_end: the SHA-256 of what was written is the manifest's.
HashMatches == slot[Other(running)] = Whole

OtaEnd ==
    /\ UNCHANGED <<slot, running>>
    /\ \/ ~otaseq.active /\ o_ans' = "NOT_STARTED" /\ UNCHANGED <<boot, otaseq>>
       \/ otaseq.active /\ otaseq.next # Chunks /\ o_ans' = "BAD_OFFSET" /\ UNCHANGED <<boot, otaseq>>
       \/ /\ otaseq.active /\ otaseq.next = Chunks /\ otaseq' = NoSeq
          /\ IF HashMatches THEN boot' = Other(running) /\ o_ans' = "OK"
             ELSE UNCHANGED boot /\ o_ans' = "VERIFY"

\* board_reboot, and power: the bootloader starts the slot chosen, once on trial; a second start
\* without a confirmation goes back (external).  ota_check_pending.
Reboot ==
    /\ running' = IF boot = running /\ img = "trial" THEN Other(running) ELSE boot
    /\ boot' = running'
    /\ img' = IF boot # running THEN "trial" ELSE "valid"
    /\ s_pending' = (boot # running)
    /\ otaseq' = NoSeq /\ hears' = (Runs(running') = 1 \/ good) /\ UNCHANGED slot

\* handle: a request arrives.
BridgeHandles ==
    /\ o_req # "none" /\ hears /\ o_ans = "none"
    /\ \/ o_req = "BEGIN" /\ OtaBegin /\ Confirm /\ UNCHANGED <<hears, trouble, forcings>>
       \/ o_req = "DATA" /\ OtaData(o_off) /\ Confirm /\ UNCHANGED hears
       \/ o_req = "END" /\ OtaEnd /\ Confirm /\ UNCHANGED <<hears, trouble, forcings>>
       \/ o_req = "REBOOT" /\ Reboot /\ o_ans' = "OK" /\ UNCHANGED <<trouble, forcings>>
    /\ UNCHANGED <<relayVars, o_req, hello, good>>

\* The answer is lost, and the request sent again; or no answer comes for good.
Lost ==
    /\ o_req # "none" /\ UNCHANGED <<relayVars, o_req, flashVars, ramVars, hello, good>>
    /\ \/ Trouble /\ o_ans \notin {"none", "timeout"} /\ o_ans' = "none"
       \/ Trouble /\ o_ans # "timeout" /\ o_ans' = "timeout"
       \/ ~hears /\ o_ans = "none" /\ o_ans' = "timeout" /\ UNCHANGED <<trouble, forcings>>

\* HELLO, every 2 s; the pod's STATUS follows, and confirms.
SayHello ==
    /\ hears /\ hello' = [v |-> Runs(running), trial |-> s_pending] /\ hello' # hello
    /\ UNCHANGED <<relayVars, chanVars, flashVars, ramVars, good, trouble, forcings>>

PodStatus ==
    /\ hears /\ s_pending /\ hello = [v |-> Runs(running), trial |-> TRUE] /\ Confirm
    /\ UNCHANGED <<relayVars, chanVars, slot, running, boot, otaseq, hears, hello, good, trouble, forcings>>

\* The bridge restarts: its power, or confirm_timeout on a trial nobody confirmed.  The pod misses
\* three HELLOs, or not.
Restart ==
    /\ \/ Trouble
       \/ s_pending /\ ~hears /\ UNCHANGED <<trouble, forcings>>
    /\ Reboot /\ hello' \in {hello, NoHello}
    /\ UNCHANGED <<relayVars, chanVars, good>>

\* ota_poll: nothing for 60 s.
AbortIdle ==
    /\ otaseq.active /\ o_req = "none" /\ o_state = "idle" /\ otaseq' = NoSeq
    /\ UNCHANGED <<relayVars, chanVars, flashVars, s_pending, hears, hello, good, trouble, forcings>>

Bridge == BridgeHandles \/ SayHello \/ PodStatus \/ AbortIdle \/ Restart

Next == Relay \/ Force \/ Bridge \/ Lost

\* The worker polls; a bridge that works says HELLO and is asked; a trial times out; time passes.
Fairness ==
    /\ WF_boVars(Relay) /\ WF_boVars(BridgeHandles) /\ WF_boVars(SayHello) /\ WF_boVars(PodStatus)
    /\ WF_boVars(AbortIdle) /\ WF_boVars(Restart /\ UNCHANGED trouble) /\ WF_boVars(Lost /\ UNCHANGED trouble)

Spec == Init /\ [][Next]_boVars /\ Fairness
--------------------------------------------------------------------------------
\* The types of the relay's and the bridge's state.
TypeOK ==
    /\ o_state \in {"idle", "begin", "data", "end", "reboot", "wait"} /\ o_off \in 0..Chunks
    /\ o_tries \in 0..OtaTries /\ o_status \in {"idle", "failed", "retry", "waiting", "updated"}
    /\ {o_resend, o_failed, seen_new, o_forced, s_quiesced, s_pending, hears, good} \subseteq BOOLEAN
    /\ o_req \in {"none", "BEGIN", "DATA", "END", "REBOOT"}
    /\ o_ans \in {"none", "timeout", "OK", "NOT_STARTED", "BAD_OFFSET", "VERIFY"}
    /\ {running, boot} \subseteq {"A", "B"} /\ img \in {"valid", "trial"}

\* ota.c: "OTA_END compares the SHA-256 with the manifest before the image is marked bootable":
\* whatever was lost, sent again or misread, and wherever the power went, the bridge boots whole
\* images only; and a trial has a whole image to go back to.
BootsWhole ==
    /\ \A s \in {running, boot} : slot[s] \in {Old, Whole}
    /\ s_pending => slot[Other(running)] \in {Old, Whole}

\* wifi_bridge_ota.c: "updated" means that the bridge keeps the new version: it runs, confirmed, or
\* on trial where the image to go back to is that version too (asked for twice).
UpdatedIsTrue ==
    o_status = "updated" /\ o_state = "idle" =>
        Runs(running) = 2 /\ (img = "valid" \/ Runs(Other(running)) = 2)

\* ota.c, rollback: an image that does not work does not stay; and the relay comes to an end with
\* the masters it stopped free again.
Settled == hears /\ ~s_pending /\ o_state = "idle" /\ ~s_quiesced
Comes == <>[]Settled

================================================================================
