--------------------------- MODULE CircuitBreaker ---------------------------
(***************************************************************************)
(* The breaker in front of the upstream model: app/llm_gateway/circuit.py. *)
(* Its state is one record guarded by a module lock, so each function is   *)
(* one step.  opened_at and the monotonic clock appear as `wait`, the      *)
(* ticks of cooldown left; consecutive failures are counted up to          *)
(* Threshold, beyond which the code only prints them.                      *)
(***************************************************************************)
EXTENDS Naturals

CONSTANTS
    Threshold,   \* llm_circuit_failure_threshold, 0 switches the breaker off
    Cooldown     \* llm_circuit_cooldown_seconds, in ticks

ASSUME BreakerAssumption == Threshold \in Nat /\ Cooldown \in Nat

Breaker == [failures : 0..Threshold, open : BOOLEAN, wait : 0..Cooldown, probe : BOOLEAN]

(* _BreakerState()                                                         *)
FreshBreaker == [failures |-> 0, open |-> FALSE, wait |-> 0, probe |-> FALSE]

(* guard_llm_circuit lets the call through: the breaker is off or closed,  *)
(* or this call is the probe after the cooldown.                           *)
AdmitsCall(b) == Threshold = 0 \/ ~b.open

AdmitsProbe(b) == Threshold > 0 /\ b.open /\ b.wait = 0 /\ ~b.probe

Rejects(b) == ~AdmitsCall(b) /\ ~AdmitsProbe(b)

ProbeStarted(b) == [b EXCEPT !.probe = TRUE]

Bug_RecordSuccess(b) == [b EXCEPT !.failures = 0, !.open = FALSE]

(* record_llm_success                                                      *)
RecordSuccess(b) == FreshBreaker

Bug_RecordFailure(b) ==
    IF Threshold = 0 THEN b
    ELSE IF b.failures + 1 >= Threshold
         THEN [b EXCEPT !.failures = Threshold, !.open = TRUE, !.wait = Cooldown]
         ELSE [b EXCEPT !.failures = @ + 1]

(* record_llm_failure: whoever failed, no probe is in flight any more; at  *)
(* the threshold the breaker opens, or its cooldown starts again.          *)
RecordFailure(b) ==
    IF Threshold = 0 THEN [b EXCEPT !.probe = FALSE]
    ELSE IF b.failures + 1 >= Threshold
         THEN [failures |-> Threshold, open |-> TRUE, wait |-> Cooldown, probe |-> FALSE]
         ELSE [b EXCEPT !.failures = @ + 1, !.probe = FALSE]

Cooled(b) == [b EXCEPT !.wait = IF @ > 0 THEN @ - 1 ELSE 0]
=============================================================================
