------------------------------ MODULE TargetPower ------------------------------
(***************************************************************************)
(* target_power.c over tca9554.c: the two eFuses that feed the device under  *)
(* test, switched through an I2C expander whose registers outlive a reset of *)
(* the MCU.  Everything runs on the hardware worker.  A transfer that fails  *)
(* leaves the expander as it was.                                            *)
(***************************************************************************)
EXTENDS Naturals

CONSTANTS Fuses, MaxBusFails, MaxOrders, MaxBoots

ConstantsOK == Fuses # {} /\ {MaxBusFails, MaxOrders, MaxBoots} \subseteq Nat

VARIABLES
    latch, driven,              \* expander: output register's EN bits; EN pins configured as outputs
    flt,                        \* the eFuse reports a fault
    enabled_state, last_fault, pending,
    ready,                      \* target_power_init ran to its end
    toldEn, toldFault,          \* the last state told through event_cb; a fault told since it was last seen cleared
    busFails, orders, boots

tpVars == <<latch, driven, flt, enabled_state, last_fault, pending, ready, toldEn, toldFault, busFails,
            orders, boots>>
tpHw == <<latch, driven, flt>>
tpEvents == <<toldEn, toldFault>>

NoChange == [armed |-> FALSE, on |-> FALSE, due |-> FALSE]

TypeOK ==
    /\ {latch, flt, enabled_state, last_fault, toldFault} \subseteq [Fuses -> BOOLEAN]
    /\ {driven, ready} \subseteq BOOLEAN
    /\ pending \in [Fuses -> [armed : BOOLEAN, on : BOOLEAN, due : BOOLEAN]]
    /\ toldEn \in [Fuses -> {"on", "off"}]
    /\ busFails \in 0 .. MaxBusFails /\ orders \in 0 .. MaxOrders /\ boots \in 0 .. MaxBoots

Word(on) == IF on THEN "on" ELSE "off"

\* The outcome of n transfers of which one failed, or none.
Transfers(ok) == IF ok THEN UNCHANGED busFails ELSE busFails < MaxBusFails /\ busFails' = busFails + 1

\* Power-up: the pins are inputs, the latch reads all ones, firmware has not run.
Init ==
    /\ latch = [f \in Fuses |-> TRUE] /\ driven = FALSE /\ flt = [f \in Fuses |-> FALSE]
    /\ enabled_state = [f \in Fuses |-> FALSE] /\ last_fault = enabled_state /\ pending = [f \in Fuses |-> NoChange]
    /\ ready = FALSE /\ toldEn = [f \in Fuses |-> "off"] /\ toldFault = last_fault
    /\ busFails = 0 /\ orders = 0 /\ boots = 0

\* As if the pins were made outputs first.
ConfigFirst(preset, config) ==
    /\ driven' = (driven \/ config) /\ latch' = IF config /\ preset THEN [f \in Fuses |-> FALSE] ELSE latch
    /\ ready' = (preset /\ config)

\* target_power_init's two writes: the latch low, then the pins outputs; the second not after a failed first.
BringUp(preset, config) ==
    /\ latch' = IF preset THEN [f \in Fuses |-> FALSE] ELSE latch
    /\ driven' = (driven \/ (preset /\ config))
    /\ ready' = (preset /\ config)

\* A boot, from power-up or after a reset: the expander has what it had.
Boot ==
    /\ boots < MaxBoots /\ boots' = boots + 1
    /\ \E preset, config \in BOOLEAN : BringUp(preset, config) /\ Transfers(preset /\ config)
    /\ enabled_state' = [f \in Fuses |-> FALSE] /\ last_fault' = enabled_state'
    /\ pending' = [f \in Fuses |-> NoChange]
    /\ toldEn' = [f \in Fuses |-> "off"] /\ toldFault' = enabled_state'
    /\ UNCHANGED <<flt, orders>>

\* efuse_fault_now over tca9554_read_pin: a failed read is no fault.
FaultNow(f, ok) == ok /\ flt[f]

\* As if the state were noted whatever the write did.
EnableAssumed(f, on, written, seen) ==
    /\ latch' = IF written THEN [latch EXCEPT ![f] = on] ELSE latch
    /\ enabled_state' = [enabled_state EXCEPT ![f] = on]
    /\ toldEn' = [toldEn EXCEPT ![f] = Word(on)] /\ toldFault' = [toldFault EXCEPT ![f] = @ \/ FaultNow(f, seen)]

\* target_power_enable over tca9554_write_pin: state and event only after the write.
Enable(f, on, written, seen) ==
    IF written
    THEN /\ latch' = [latch EXCEPT ![f] = on] /\ enabled_state' = [enabled_state EXCEPT ![f] = on]
         /\ toldEn' = [toldEn EXCEPT ![f] = Word(on)] /\ toldFault' = [toldFault EXCEPT ![f] = @ \/ FaultNow(f, seen)]
    ELSE UNCHANGED <<latch, enabled_state, tpEvents>>

\* target_power, the SCPI switch: taken at once or scheduled.
Order(f, on, delayed) ==
    /\ orders < MaxOrders /\ orders' = orders + 1
    /\ IF delayed
       THEN /\ pending' = [pending EXCEPT ![f] = [armed |-> TRUE, on |-> on, due |-> FALSE]]
            /\ UNCHANGED <<latch, enabled_state, tpEvents, busFails>>
       ELSE \E written, seen \in BOOLEAN :
               /\ Enable(f, on, written, seen) /\ Transfers(written /\ seen)
               /\ UNCHANGED pending
    /\ UNCHANGED <<driven, flt, last_fault, ready, boots>>

Elapse(f) ==
    /\ pending[f].armed /\ ~pending[f].due /\ pending' = [pending EXCEPT ![f].due = TRUE]
    /\ UNCHANGED <<tpHw, enabled_state, last_fault, ready, tpEvents, busFails, orders, boots>>

\* target_power_poll, a due change: it is disarmed whether the write goes through or not.
FireDue(f) ==
    /\ pending[f].armed /\ pending[f].due /\ pending' = [pending EXCEPT ![f] = NoChange]
    /\ \E written, seen \in BOOLEAN : Enable(f, pending[f].on, written, seen) /\ Transfers(written /\ seen)
    /\ UNCHANGED <<driven, flt, last_fault, ready, orders, boots>>

\* As if a fault were remembered and never forgotten.
SampledOnce(f, seen) ==
    /\ toldFault' = [toldFault EXCEPT ![f] = (@ /\ seen) \/ (seen /\ ~last_fault[f])]
    /\ last_fault' = [last_fault EXCEPT ![f] = @ \/ seen]

\* target_power_poll, the FLT sample: an event on a rising edge, with the tracked state.
Sampled(f, seen) ==
    /\ toldFault' = [toldFault EXCEPT ![f] = (@ /\ seen) \/ (seen /\ ~last_fault[f])]
    /\ last_fault' = [last_fault EXCEPT ![f] = seen]

SampleFault(f) ==
    /\ \E ok \in BOOLEAN :
          LET seen == FaultNow(f, ok)
          IN  /\ Sampled(f, seen) /\ Transfers(ok)
              /\ toldEn' = IF seen /\ ~last_fault[f] THEN [toldEn EXCEPT ![f] = Word(enabled_state[f])] ELSE toldEn
    /\ UNCHANGED <<tpHw, enabled_state, pending, ready, orders, boots>>

\* The eFuse trips, and recovers; while it is tripped it keeps FLT longer than the sampling period.
Trip(f) == /\ latch[f] /\ driven /\ ~flt[f] /\ ~last_fault[f] /\ flt' = [flt EXCEPT ![f] = TRUE]
           /\ UNCHANGED <<latch, driven, enabled_state, last_fault, pending, ready, tpEvents, busFails,
                          orders, boots>>
Recover(f) == /\ flt[f] /\ last_fault[f] /\ flt' = [flt EXCEPT ![f] = FALSE]
              /\ UNCHANGED <<latch, driven, enabled_state, last_fault, pending, ready, tpEvents,
                             busFails, orders, boots>>

Next ==
    \/ Boot
    \/ boots > 0 /\ \E f \in Fuses :
          \/ \E on, delayed \in BOOLEAN : Order(f, on, delayed)
          \/ Elapse(f) \/ FireDue(f) \/ SampleFault(f) \/ Trip(f) \/ Recover(f)

Fairness == \A f \in Fuses : WF_tpVars(boots > 0 /\ SampleFault(f))

Spec == Init /\ [][Next]_tpVars /\ Fairness
--------------------------------------------------------------------------------
(* Properties. *)

\* Whatever failed on the bus, the state the pod keeps and tells is the one the rails have, once the expander was set
\* up; and until then no rail is driven that was not before.
RailsAsTold ==
    /\ ready => driven /\ enabled_state = latch /\ \A f \in Fuses : toldEn[f] = Word(enabled_state[f])
    /\ boots <= 1 /\ ~ready => ~driven

\* A fault is told: no failed read, no event that carries another eFuse's state swallows its edge.
FaultTold == \A f \in Fuses : []<>(flt[f] => toldFault[f])

================================================================================
