-------------------------------- MODULE NetCall --------------------------------
(***************************************************************************)
(* net_server.c, net_call_sync: the worker hands a function to the net task *)
(* and waits.  The argument usually lies on the worker's stack, so what the *)
(* net task may run, and until when, is what this hand-over is about.       *)
(***************************************************************************)
EXTENDS Naturals

CONSTANTS
    MaxCalls   \* bound: calls made

ConstantsOK == MaxCalls \in Nat \ {0}

VARIABLES
    s_net_task,      \* FALSE: NULL, as in safe mode with networking off
    s_net_call,      \* a call is pending
    s_net_call_id,
    s_net_call_done,
    s_net_call_seq,
    waiting,         \* id the worker waits for, 0 outside net_call_sync
    late,            \* timeout_ms have passed
    taken,           \* id the net task runs, 0 if none
    ran,             \* ids whose function has run
    ret              \* what net_call_sync returned, by id

vars == <<s_net_task, s_net_call, s_net_call_id, s_net_call_done, s_net_call_seq, waiting, late, taken, ran, ret>>

Ids == 1 .. MaxCalls
Results == {"none", "true", "false"}

Init ==
    /\ s_net_task \in BOOLEAN
    /\ s_net_call = FALSE /\ s_net_call_id = 0 /\ s_net_call_done = 0 /\ s_net_call_seq = 0
    /\ waiting = 0 /\ late = FALSE
    /\ taken = 0
    /\ ran = {}
    /\ ret = [i \in Ids |-> "none"]

\* The entry of net_call_sync: the critical section that posts the call.
Post ==
    /\ s_net_task /\ waiting = 0 /\ s_net_call_seq < MaxCalls
    /\ s_net_call_seq' = s_net_call_seq + 1
    /\ s_net_call_id' = s_net_call_seq + 1
    /\ s_net_call' = TRUE
    /\ waiting' = s_net_call_seq + 1
    /\ late' = FALSE
    /\ UNCHANGED <<s_net_task, s_net_call_done, taken, ran, ret>>

\* With no net task the caller runs the function itself.  (The ids are then not used; the
\* sequence counts the calls for the bound.)
RunInline ==
    /\ ~s_net_task /\ s_net_call_seq < MaxCalls
    /\ s_net_call_seq' = s_net_call_seq + 1
    /\ ran' = ran \cup {s_net_call_seq + 1}
    /\ ret' = [ret EXCEPT ![s_net_call_seq + 1] = "true"]
    /\ UNCHANGED <<s_net_task, s_net_call, s_net_call_id, s_net_call_done, waiting, late, taken>>

\* HAL_GetTick() - t0 passes timeout_ms.
Expire ==
    /\ waiting # 0 /\ ~late
    /\ late' = TRUE
    /\ UNCHANGED <<s_net_task, s_net_call, s_net_call_id, s_net_call_done, s_net_call_seq, waiting,
                   taken, ran, ret>>

\* The loop condition: the call is done.
SeeDone ==
    /\ waiting # 0 /\ s_net_call_done = waiting
    /\ ret' = [ret EXCEPT ![waiting] = "true"]
    /\ waiting' = 0
    /\ UNCHANGED <<s_net_task, s_net_call, s_net_call_id, s_net_call_done, s_net_call_seq, late, taken, ran>>

\* A variant: it gives up on a call that has started.
WithdrawAlways ==
    /\ waiting # 0 /\ late
    /\ s_net_call' = FALSE
    /\ ret' = [ret EXCEPT ![waiting] = "false"]
    /\ waiting' = 0
    /\ UNCHANGED <<s_net_task, s_net_call_id, s_net_call_done, s_net_call_seq, late, taken, ran>>

\* The critical section of the timeout: only a call not taken yet is withdrawn.  The loop
\* condition was read before it and may be stale by now.
Withdraw ==
    /\ waiting # 0 /\ late
    /\ s_net_call /\ s_net_call_id = waiting
    /\ s_net_call' = FALSE
    /\ ret' = [ret EXCEPT ![waiting] = "false"]
    /\ waiting' = 0
    /\ UNCHANGED <<s_net_task, s_net_call_id, s_net_call_done, s_net_call_seq, late, taken, ran>>

\* net_run_pending_call, its critical section.
Take ==
    /\ taken = 0 /\ s_net_call
    /\ taken' = s_net_call_id
    /\ s_net_call' = FALSE
    /\ UNCHANGED <<s_net_task, s_net_call_id, s_net_call_done, s_net_call_seq, waiting, late, ran, ret>>

\* fn(arg).
Run ==
    /\ taken # 0 /\ taken \notin ran
    /\ ran' = ran \cup {taken}
    /\ UNCHANGED <<s_net_task, s_net_call, s_net_call_id, s_net_call_done, s_net_call_seq, waiting, late,
                   taken, ret>>

\* A variant: the id is read from the slot, which is empty by then.
FinishLatest ==
    /\ taken # 0 /\ taken \in ran
    /\ s_net_call_done' = IF s_net_call THEN s_net_call_id ELSE s_net_call_done
    /\ taken' = 0
    /\ UNCHANGED <<s_net_task, s_net_call, s_net_call_id, s_net_call_seq, waiting, late, ran, ret>>

\* s_net_call_done = id.
Finish ==
    /\ taken # 0 /\ taken \in ran
    /\ s_net_call_done' = taken
    /\ taken' = 0
    /\ UNCHANGED <<s_net_task, s_net_call, s_net_call_id, s_net_call_seq, waiting, late, ran, ret>>

Caller == Post \/ RunInline \/ Expire \/ SeeDone \/ Withdraw
Net == Take \/ Run \/ Finish
Next == Caller \/ Net

\* The worker keeps polling and its clock runs; the net task finishes what it started.
\* That it ever takes a call is not assumed.
Fairness ==
    /\ WF_vars(Expire) /\ WF_vars(SeeDone) /\ WF_vars(Withdraw)
    /\ WF_vars(Run) /\ WF_vars(Finish)

Spec == Init /\ [][Next]_vars /\ Fairness

\* The types of the state.
TypeOK ==
    /\ s_net_task \in BOOLEAN /\ s_net_call \in BOOLEAN /\ late \in BOOLEAN
    /\ s_net_call_id \in 0 .. MaxCalls /\ s_net_call_done \in 0 .. MaxCalls
    /\ s_net_call_seq \in 0 .. MaxCalls /\ waiting \in 0 .. MaxCalls /\ taken \in 0 .. MaxCalls
    /\ ran \subseteq Ids
    /\ ret \in [Ids -> Results]

\* The net task runs a function only while its caller waits for it: the argument on the
\* caller's stack is alive.
CallerWaits == taken # 0 => waiting = taken

\* "the net task did not run the call" (false) is true for good: it has not run and will not;
\* and a call that returned true has run.
AnswerIsTrue ==
    \A i \in Ids :
        /\ ret[i] = "true" => i \in ran
        /\ ret[i] = "false" => i \notin ran /\ taken # i /\ ~(s_net_call /\ s_net_call_id = i)

\* Both: what net_call_sync promises its caller.
CallSound == CallerWaits /\ AnswerIsTrue

\* The worker never hangs in net_call_sync, even if the net task takes no call.
CallReturns == []<>(waiting = 0)
================================================================================
