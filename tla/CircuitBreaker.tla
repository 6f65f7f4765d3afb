--------------------------- MODULE CircuitBreaker ---------------------------
(***************************************************************************)
(* The circuit breaker of an LLM provider (kernel/src/inference/types/     *)
(* circuit_breaker.rs) as functions on its state.  The wall clock is left  *)
(* out: last says whether reset_timeout_ms have passed since the last      *)
(* failure.  total_successes and total_failures only feed stats().         *)
(***************************************************************************)
EXTENDS Naturals

CONSTANTS
    FailureThreshold,   \* config.failure_threshold
    HalfOpenMaxCalls    \* config.half_open_max_calls

ASSUME ConfigAssumption == FailureThreshold \in Nat /\ HalfOpenMaxCalls \in Nat

Breaker == [state     : {"Closed", "Open", "HalfOpen"},
            failures  : Nat,
            remaining : Nat,
            last      : {"never", "recent", "elapsed"}]

NewBreaker == [state |-> "Closed", failures |-> 0, remaining |-> 0, last |-> "never"]

ToOpen(b) == [b EXCEPT !.state = "Open", !.remaining = 0]

\* Variant: the count of failures is kept.
ToHalfOpenKeepsCount(b) ==
    [b EXCEPT !.state = "HalfOpen", !.remaining = HalfOpenMaxCalls]

ToHalfOpen(b) ==
    [b EXCEPT !.state = "HalfOpen", !.remaining = HalfOpenMaxCalls, !.failures = 0]

ToClosed(b) == [b EXCEPT !.state = "Closed", !.remaining = 0, !.failures = 0]

\* Variant: a half-open circuit lets every call through.
MayProceedUnlimited(b) == b.state = "Open" => b.last = "elapsed"

\* try_acquire: whether the call may proceed, and the breaker afterwards.
MayProceed(b) ==
    \/ b.state = "Closed"
    \/ b.state = "Open" /\ b.last = "elapsed"
    \/ b.state = "HalfOpen" /\ b.remaining > 0

Acquired(b) ==
    CASE b.state = "Closed"   -> b
      [] b.state = "Open"     -> ToHalfOpen(b)
      [] b.state = "HalfOpen" -> [b EXCEPT !.remaining = @ - 1]

\* Variant: any success closes the circuit.
RecordSuccessAlwaysCloses(b) == ToClosed(b)

RecordSuccess(b) ==
    IF b.state = "HalfOpen" THEN ToClosed(b) ELSE [b EXCEPT !.failures = 0]

\* Variant: in half-open state, too, the threshold decides.
RecordFailureByThreshold(b) ==
    LET counted == [b EXCEPT !.failures = @ + 1, !.last = "recent"]
    IN  IF counted.failures >= FailureThreshold THEN ToOpen(counted) ELSE counted

RecordFailure(b) ==
    LET counted == [b EXCEPT !.failures = @ + 1, !.last = "recent"]
        opens   == \/ b.state = "Closed" /\ counted.failures >= FailureThreshold
                   \/ b.state = "HalfOpen"
    IN  IF opens THEN ToOpen(counted) ELSE counted
=============================================================================
