------------------------------- MODULE BootGuard -------------------------------
(***************************************************************************)
(* boot_guard.c and boot_policy.c with the boots main.c makes of them: a    *)
(* record in .noinit RAM counts the boots that never became healthy, and    *)
(* after BOOT_GUARD_SAFE_AFTER of them in a row the next boot leaves out    *)
(* what failed.                                                             *)
(***************************************************************************)
EXTENDS Naturals

CONSTANTS
    SafeAfter,   \* BOOT_GUARD_SAFE_AFTER
    MaxEvents    \* bound: resets and chance crashes from outside

ConstantsOK == SafeAfter \in Nat \ {0} /\ MaxEvents \in Nat

Subs == {"net", "hw"}   \* BOOT_SUB_NET, BOOT_SUB_HW; also the names of their tasks
NoTask == ""

VARIABLES
    failed, started, done, off,   \* s_rec, in .noinit RAM
    crash,                        \* the task the fault record names, NoTask if none or another
    fresh,                        \* the last reset was a power-on or the reset button
    up,                           \* a boot is under way
    s_safe, s_off, s_prior_failed, s_hw_ready,
    broken,   \* subsystems whose bring-up always fails
    good,     \* this boot became healthy
    row,      \* boots in a row that ended unasked before they were healthy
    events

record == <<failed, started, done, off>>
ram == <<s_safe, s_off, s_prior_failed, s_hw_ready>>
vars == <<record, crash, fresh, up, ram, broken, good, row, events>>

Cap == SafeAfter + 1   \* the counters are only compared with SafeAfter
Plus1(n) == IF n < Cap THEN n + 1 ELSE n

Init ==
    /\ failed = 0 /\ started = {} /\ done = {} /\ off = {}
    /\ crash = NoTask /\ fresh = TRUE /\ up = FALSE
    /\ s_safe = FALSE /\ s_off = {} /\ s_prior_failed = 0 /\ s_hw_ready = FALSE
    /\ broken \in SUBSET Subs
    /\ good = FALSE /\ row = 0 /\ events = 0

\* A variant for mutation checks: only a crash names a culprit, a hang does not.
CulpritCrash(st, dn, task) == IF task \in Subs THEN {task} ELSE {}

\* boot_policy_culprit
Culprit(st, dn, task) == IF task \in Subs THEN {task} ELSE st \ dn

\* boot_policy_off
OffFor(prev_off, culprit) ==
    IF culprit # {} THEN prev_off \cup culprit
    ELSE IF prev_off # {} THEN prev_off ELSE Subs

\* fault_boot_init clears the magic of the record whose task it read.
FaultBootInit == crash' = NoTask

\* boot_guard_begin
Begin ==
    /\ ~up
    /\ LET n        == IF fresh THEN 0 ELSE failed
           prev_off == IF fresh THEN {} ELSE off
           culprit  == Culprit(IF fresh THEN {} ELSE started, IF fresh THEN {} ELSE done, crash)
       IN  /\ s_safe' = (n >= SafeAfter)
           /\ s_off' = IF n >= SafeAfter THEN OffFor(prev_off, culprit) ELSE {}
           /\ off' = s_off'
           /\ s_prior_failed' = n
           /\ failed' = Plus1(n)
    /\ started' = {} /\ done' = {}
    /\ s_hw_ready' = FALSE
    /\ up' = TRUE
    /\ FaultBootInit
    /\ good' = FALSE
    /\ row' = IF fresh THEN 0 ELSE row
    /\ UNCHANGED <<fresh, broken, events>>

\* boot_guard_sub_start, in net_task or boot_deferred_hw_init, unless safe mode skips it.
SubStart(sub) ==
    /\ up /\ sub \notin s_off \cup started
    /\ started' = started \cup {sub}
    /\ UNCHANGED <<failed, done, off, crash, fresh, up, ram, broken, good, row, events>>

\* boot_guard_sub_done; the hardware's also sets boot_hw_ready.
SubDone(sub) ==
    /\ up /\ sub \in started \ (done \cup broken)
    /\ done' = done \cup {sub}
    /\ s_hw_ready' = (s_hw_ready \/ sub = "hw")
    /\ UNCHANGED <<failed, started, off, crash, fresh, up, s_safe, s_off, s_prior_failed, broken, good,
                   row, events>>

\* boot_guard_healthy: the net task calls it from its loop, 15 s into a boot whose hardware
\* came up.
Healthy ==
    /\ up /\ s_hw_ready /\ "net" \in done \cup s_off /\ ~good
    /\ ~s_safe
    /\ failed' = 0
    /\ good' = TRUE
    /\ row' = 0
    /\ UNCHANGED <<started, done, off, crash, fresh, up, ram, broken, events>>

\* The boot ends unasked: fault_panic, a fault handler, or the watchdog.
Die(task) ==
    /\ up
    /\ up' = FALSE
    /\ crash' = task
    /\ fresh' = FALSE
    /\ row' = IF good THEN 0 ELSE Plus1(row)
    /\ UNCHANGED <<record, ram, broken, good>>

\* A broken bring-up faults in its task, or hangs until the IWDG resets the pod (with or
\* without an early warning that names the task).
BringUpFails(sub) ==
    /\ sub \in broken \cap (started \ done)
    /\ \E task \in {sub, NoTask} : Die(task)
    /\ UNCHANGED events

\* Any other crash or hang.
ChanceCrash ==
    /\ events < MaxEvents /\ events' = events + 1
    /\ \E task \in Subs \cup {NoTask} : Die(task)

\* A variant: a planned reset forgives the crashes before it.
PlannedResetForgives ==
    /\ up /\ events < MaxEvents /\ events' = events + 1
    /\ failed' = IF s_safe THEN failed ELSE 0
    /\ up' = FALSE /\ fresh' = FALSE
    /\ row' = IF s_safe THEN Plus1(row) ELSE row
    /\ UNCHANGED <<started, done, off, crash, ram, broken, good>>

\* boot_guard_planned_reset(true), then the reset: reboot, dfu, an OTA commit, psram_recover.
PlannedReset ==
    /\ up /\ events < MaxEvents /\ events' = events + 1
    /\ failed' = IF s_safe THEN failed ELSE s_prior_failed
    /\ up' = FALSE /\ fresh' = FALSE
    /\ row' = IF s_safe THEN Plus1(row) ELSE row
    /\ UNCHANGED <<started, done, off, crash, ram, broken, good>>

\* ota_commit announces its reset, ram_commit_all refuses, and the announcement is undone.
CommitRefused ==
    /\ up /\ events < MaxEvents /\ events' = events + 1
    /\ failed' = IF s_safe THEN failed ELSE Plus1(s_prior_failed)
    /\ UNCHANGED <<started, done, off, crash, fresh, up, ram, broken, good, row>>

\* Power-on or the reset button.
PowerOn ==
    /\ events < MaxEvents /\ events' = events + 1
    /\ up' = FALSE /\ fresh' = TRUE /\ crash' = NoTask
    /\ UNCHANGED <<record, ram, broken, good, row>>

\* The two tasks that bring subsystems up.
NetTask == SubStart("net") \/ SubDone("net") \/ Healthy
DeferredHwInit == SubStart("hw") \/ SubDone("hw")

Next ==
    \/ Begin \/ NetTask \/ DeferredHwInit
    \/ \E sub \in Subs : BringUpFails(sub)
    \/ ChanceCrash \/ PlannedReset \/ CommitRefused \/ PowerOn

\* The pod boots after a reset; its tasks reach their bring-up and finish it or fail in it.
Fairness ==
    /\ WF_vars(Begin)
    /\ \A sub \in Subs : WF_vars(SubStart(sub)) /\ WF_vars(SubDone(sub)) /\ WF_vars(BringUpFails(sub))

Spec == Init /\ [][Next]_vars /\ Fairness

\* The types of the state.
TypeOK ==
    /\ {failed, s_prior_failed, row} \subseteq 0 .. Cap
    /\ {started, done, off, s_off, broken} \subseteq SUBSET Subs
    /\ crash \in Subs \cup {NoTask}
    /\ {fresh, up, s_safe, s_hw_ready, good} \subseteq BOOLEAN
    /\ events \in 0 .. MaxEvents

\* A boot loop is cut: after SafeAfter failed boots in a row every boot is a safe one, whatever
\* planned resets and refused commits came between, until a power-on.
LoopEndsSafe == up /\ row >= SafeAfter => s_safe

\* A subsystem that never comes up is in the end left out, for good, and the pod stays up.
Back == up /\ broken \subseteq s_off
ComesBack == <>[]Back

================================================================================
