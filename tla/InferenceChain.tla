--------------------------- MODULE InferenceChain ---------------------------
(***************************************************************************)
(* Concurrent chat calls through a FallbackProviderChain whose providers   *)
(* (OpenAIProvider, AnthropicProvider) each keep a circuit breaker.        *)
(* The breaker's lock is taken for try_acquire and again for the record of *)
(* the outcome; the request, its retries and their backoff run without it, *)
(* so an outcome may be recorded in a state other than the one that let    *)
(* the call through.                                                       *)
(***************************************************************************)
EXTENDS CircuitBreaker, FiniteSets

CONSTANTS
    Callers,        \* concurrent calls
    NumProviders,   \* length of the chain
    MaxRetries,     \* retry_config.max_retries
    Answers         \* what a request may come back with

\* transient: 429, 500, 502, 503, 504 or no connection, retried on the spot;
\* late: other 50x and 52x, not retried but good for a fallback;
\* permanent: everything else that is not a success.
ASSUME AnswersAssumption == Answers \subseteq {"ok", "transient", "late", "permanent"}

ASSUME ChainAssumption ==
    /\ NumProviders \in Nat \ {0}
    /\ MaxRetries \in Nat

Providers == 1..NumProviders

VARIABLES
    breaker,        \* the providers' breakers
    pc, at,         \* per call: where it is, and at which provider
    attempt,        \* retries so far at this provider
    error,          \* the answer last_error stands for
    granted,        \* history: calls let through since the breaker is half open
    probes,         \* history: those of them that have not ended yet
    lost            \* history: whether one of them was dropped by its caller

calls == <<pc, at, attempt, error>>
history == <<granted, probes, lost>>
vars == <<breaker, calls, history>>

TypeOK ==
    /\ breaker \in [Providers -> Breaker]
    /\ pc \in [Callers -> {"idle", "acquire", "request", "backoff", "succeed", "fail"}]
    /\ at \in [Callers -> Providers]
    /\ attempt \in [Callers -> 0..MaxRetries]
    /\ error \in [Callers -> Answers \cup {"none"}]
    /\ granted \in [Providers -> Nat]
    /\ probes \in [Providers -> SUBSET Callers]
    /\ lost \in [Providers -> BOOLEAN]

Init ==
    /\ breaker = [p \in Providers |-> NewBreaker]
    /\ pc = [c \in Callers |-> "idle"]
    /\ at = [c \in Callers |-> 1]
    /\ attempt = [c \in Callers |-> 0]
    /\ error = [c \in Callers |-> "none"]
    /\ granted = [p \in Providers |-> 0]
    /\ probes = [p \in Providers |-> {}]
    /\ lost = [p \in Providers |-> FALSE]

HalfOpen(p) == breaker[p].state = "HalfOpen"

\* Breaker p becomes b; the history of a half-open period ends with it.
SetBreaker(p, b, grants, probing) ==
    /\ breaker' = [breaker EXCEPT ![p] = b]
    /\ granted' = [granted EXCEPT ![p] = IF b.state = "HalfOpen" THEN grants ELSE 0]
    /\ probes' = [probes EXCEPT ![p] = IF b.state = "HalfOpen" THEN probing ELSE {}]
    /\ lost' = [lost EXCEPT ![p] = @ /\ b.state = "HalfOpen"]

\* The call returns.
Return(c) ==
    /\ pc' = [pc EXCEPT ![c] = "idle"]
    /\ at' = [at EXCEPT ![c] = 1]
    /\ attempt' = [attempt EXCEPT ![c] = 0]
    /\ error' = [error EXCEPT ![c] = "none"]

\* The chain goes on to its next provider, or gives up: AllProvidersFailed.
NextProvider(c) ==
    IF at[c] = NumProviders
    THEN Return(c)
    ELSE /\ pc' = [pc EXCEPT ![c] = "acquire"]
         /\ at' = [at EXCEPT ![c] = @ + 1]
         /\ attempt' = [attempt EXCEPT ![c] = 0]
         /\ error' = [error EXCEPT ![c] = "none"]

Chat(c) ==
    /\ pc[c] = "idle"
    /\ pc' = [pc EXCEPT ![c] = "acquire"]
    /\ UNCHANGED <<breaker, at, attempt, error, history>>

Acquire(c) ==
    /\ pc[c] = "acquire"
    /\ MayProceed(breaker[at[c]])
    /\ SetBreaker(at[c], Acquired(breaker[at[c]]),
                  granted[at[c]] + 1, probes[at[c]] \cup {c})
    /\ pc' = [pc EXCEPT ![c] = "request"]
    /\ UNCHANGED <<at, attempt, error>>

\* CircuitBreakerOpen, at which the chain falls back.
Refused(c) ==
    /\ pc[c] = "acquire"
    /\ ~MayProceed(breaker[at[c]])
    /\ NextProvider(c)
    /\ UNCHANGED <<breaker, history>>

Answered(c) ==
    /\ pc[c] = "request"
    /\ "ok" \in Answers
    /\ pc' = [pc EXCEPT ![c] = "succeed"]
    /\ UNCHANGED <<breaker, at, attempt, error, history>>

\* What map_api_response says of an answer: whether the provider tries again.
Retried(e) == e = "transient"

\* is_retryable, for the chain: it looks for "HTTP 50" and "HTTP 52" in the text.
FallsBack(e) == Retried(e) \/ e = "late"

Retry(c) ==
    /\ pc[c] = "request"
    /\ \E e \in Answers : Retried(e)
    /\ attempt[c] < MaxRetries
    /\ pc' = [pc EXCEPT ![c] = "backoff"]
    /\ UNCHANGED <<breaker, at, attempt, error, history>>

\* Variant: the retries are not counted.
BackedOffUncounted(c) ==
    /\ pc[c] = "backoff"
    /\ pc' = [pc EXCEPT ![c] = "request"]
    /\ UNCHANGED <<breaker, at, attempt, error, history>>

BackedOff(c) ==
    /\ pc[c] = "backoff"
    /\ pc' = [pc EXCEPT ![c] = "request"]
    /\ attempt' = [attempt EXCEPT ![c] = @ + 1]
    /\ UNCHANGED <<breaker, at, error, history>>

\* An error that is not retried, or not any more.
GiveUp(c, e) ==
    /\ pc[c] = "request"
    /\ Retried(e) => attempt[c] = MaxRetries
    /\ pc' = [pc EXCEPT ![c] = "fail"]
    /\ error' = [error EXCEPT ![c] = e]
    /\ UNCHANGED <<breaker, at, attempt, history>>

Succeed(c) ==
    /\ pc[c] = "succeed"
    /\ SetBreaker(at[c], RecordSuccess(breaker[at[c]]),
                  granted[at[c]], probes[at[c]] \ {c})
    /\ Return(c)

\* Whatever the error, it counts; only one that is_retryable falls back.
Fail(c) ==
    /\ pc[c] = "fail"
    /\ SetBreaker(at[c], RecordFailure(breaker[at[c]]),
                  granted[at[c]], probes[at[c]] \ {c})
    /\ IF FallsBack(error[c])
       THEN NextProvider(c)
       ELSE Return(c)

\* The caller drops the future: nothing is recorded.
Drop(c) ==
    /\ pc[c] # "idle"
    /\ Return(c)
    /\ probes' = [probes EXCEPT ![at[c]] = @ \ {c}]
    /\ lost' = [lost EXCEPT ![at[c]] = @ \/ c \in probes[at[c]]]
    /\ UNCHANGED <<breaker, granted>>

\* reset_timeout_ms after the last failure.
Elapse(p) ==
    /\ breaker[p].last = "recent"
    /\ breaker' = [breaker EXCEPT ![p].last = "elapsed"]
    /\ UNCHANGED <<calls, history>>

ForceState(p) ==
    /\ \E b \in {ToOpen(breaker[p]), ToClosed(breaker[p])} :
          SetBreaker(p, b, granted[p], probes[p])
    /\ UNCHANGED calls

Step(c) ==
    \/ Acquire(c) \/ Refused(c)
    \/ Answered(c) \/ Retry(c) \/ BackedOff(c) \/ (\E e \in Answers \ {"ok"} : GiveUp(c, e))
    \/ Succeed(c) \/ Fail(c)

Next ==
    \/ \E c \in Callers : Chat(c) \/ Step(c) \/ Drop(c)
    \/ \E p \in Providers : Elapse(p) \/ ForceState(p)

Spec == Init /\ [][Next]_vars

\* The runtime keeps polling a call, and a request comes back.
FairSpec == Spec /\ \A c \in Callers : WF_vars(Step(c))

-----------------------------------------------------------------------------
(* Properties *)

\* A half-open circuit has a call on its way that will decide it, or a caller
\* has dropped one (chat records the outcome of every call that is awaited).
ProbeInFlight ==
    \A p \in Providers : HalfOpen(p) =>
        \/ lost[p]
        \/ \E c \in probes[p] :
              at[c] = p /\ pc[c] \in {"request", "backoff", "succeed", "fail"}

\* Calls let through before the circuit opened may still add to its count, but
\* no more of them than there are callers (record_failure, u32).
FailuresBounded ==
    \A p \in Providers :
        /\ breaker[p].failures < FailureThreshold + Cardinality(Callers)
        /\ breaker[p].state = "Closed" => breaker[p].failures < FailureThreshold

\* An open circuit stays open until the timeout has passed since the last
\* failure, however late a success is recorded (record_success), unless it is
\* forced.
OpenUntilTimeout ==
    [][\A p \in Providers :
          breaker[p].state = "Open" /\ breaker'[p].state # "Open"
             => breaker[p].last = "elapsed" \/ ForceState(p)]_vars

\* Every call returns: the retries and the chain end (chat).
CallsReturn == \A c \in Callers : pc[c] # "idle" ~> pc[c] = "idle"

\* A half-open circuit is eventually closed or opened again, unless a caller
\* drops one of its test calls: it may then be half open for good (chat).
HalfOpenEnds == \A p \in Providers : HalfOpen(p) ~> ~HalfOpen(p) \/ lost[p]
=============================================================================
