------------------------ MODULE InferenceChainProofs ------------------------
(***************************************************************************)
(* Proofs about InferenceChain, for any number of callers, providers,      *)
(* retries and any configuration of the breakers.                          *)
(***************************************************************************)
EXTENDS InferenceChain, FiniteSetTheorems, TLAPS

Busy == {"request", "backoff", "succeed", "fail"}

\* Calls let through while half open and calls left add up: one goes through
\* uncounted, the one that makes the circuit half open (try_acquire).
ProbesBounded ==
    \A p \in Providers : HalfOpen(p) =>
        granted[p] + breaker[p].remaining = HalfOpenMaxCalls + 1

\* The recorded probes are calls on their way at that provider; a half-open
\* circuit has one unless a caller dropped one; only a half-open circuit has any.
ProbesOnTheirWay ==
    \A p \in Providers :
        /\ \A c \in probes[p] : at[c] = p /\ pc[c] \in Busy
        /\ HalfOpen(p) => lost[p] \/ probes[p] # {}
        /\ ~HalfOpen(p) => granted[p] = 0 /\ probes[p] = {} /\ ~lost[p]

IInv == TypeOK /\ ProbesBounded /\ ProbesOnTheirWay

\* A call backs off only when it has a retry left.
RetriesLeft == \A c \in Callers : pc[c] = "backoff" => attempt[c] < MaxRetries

-----------------------------------------------------------------------------
(* The breaker's operations *)

\* What a breaker function makes of a breaker is a breaker.
LEMMA BreakerType ==
    ASSUME NEW b \in Breaker
    PROVE  /\ NewBreaker \in Breaker
           /\ ToOpen(b) \in Breaker /\ ToClosed(b) \in Breaker
           /\ MayProceed(b) => Acquired(b) \in Breaker
           /\ RecordSuccess(b) \in Breaker /\ RecordFailure(b) \in Breaker
<1>1. NewBreaker \in Breaker
  BY DEF NewBreaker, Breaker
<1>2. ToOpen(b) \in Breaker /\ ToClosed(b) \in Breaker /\ ToHalfOpen(b) \in Breaker
  BY ConfigAssumption DEF Breaker, ToOpen, ToClosed, ToHalfOpen
<1>3. ASSUME MayProceed(b) PROVE Acquired(b) \in Breaker
  <2>1. CASE b.state = "Closed"
    BY <2>1 DEF Acquired
  <2>2. CASE b.state = "Open"
    BY <1>2, <2>2 DEF Acquired
  <2>3. CASE b.state = "HalfOpen"
    <3>1. b.remaining \in Nat /\ b.remaining > 0
      BY <1>3, <2>3 DEF MayProceed, Breaker
    <3>2. b.remaining - 1 \in Nat
      BY <3>1
    <3>3. Acquired(b) = [b EXCEPT !.remaining = @ - 1]
      BY <2>3 DEF Acquired
    <3>4. QED
      BY <3>2, <3>3 DEF Breaker
  <2>4. QED
    BY <2>1, <2>2, <2>3 DEF Breaker
<1>4. RecordSuccess(b) \in Breaker
  BY <1>2 DEF RecordSuccess, Breaker
<1>5. RecordFailure(b) \in Breaker
  <2> DEFINE counted == [b EXCEPT !.failures = @ + 1, !.last = "recent"]
  <2>1. counted \in Breaker
    <3>1. b.failures + 1 \in Nat
      BY DEF Breaker
    <3>2. [b EXCEPT !.failures = b.failures + 1] \in Breaker
      BY <3>1 DEF Breaker
    <3>3. QED
      BY <3>2 DEF Breaker
  <2>2. ToOpen(counted) \in Breaker
    BY <2>1 DEF Breaker, ToOpen
  <2>3. QED
    BY <2>1, <2>2 DEF RecordFailure
<1>6. QED
  BY <1>1, <1>2, <1>3, <1>4, <1>5

\* A call that is let through leaves the circuit closed or uses up one of the
\* test calls; an outcome never leaves a circuit half open.
LEMMA BreakerMoves ==
    ASSUME NEW b \in Breaker
    PROVE  /\ MayProceed(b) /\ b.state = "Closed" => Acquired(b) = b
           /\ MayProceed(b) /\ b.state = "Open" =>
                 /\ Acquired(b).state = "HalfOpen"
                 /\ Acquired(b).remaining = HalfOpenMaxCalls
           /\ MayProceed(b) /\ b.state = "HalfOpen" =>
                 /\ Acquired(b).state = "HalfOpen"
                 /\ Acquired(b).remaining = b.remaining - 1
           /\ RecordSuccess(b).state # "HalfOpen"
           /\ RecordFailure(b).state # "HalfOpen"
           /\ b.state = "Open" => RecordSuccess(b).state = "Open"
           /\ b.state = "Open" => RecordFailure(b).state = "Open"
           /\ b.state = "Open" /\ MayProceed(b) => b.last = "elapsed"
BY DEF Breaker, ToOpen, ToClosed, ToHalfOpen, MayProceed, Acquired,
       RecordSuccess, RecordFailure

\* A call is at a provider with a breaker.
LEMMA BusyCalls ==
    ASSUME TypeOK, NEW c \in Callers
    PROVE  /\ at[c] \in Providers
           /\ breaker[at[c]] \in Breaker
           /\ granted[at[c]] \in Nat
           /\ probes[at[c]] \subseteq Callers
BY DEF TypeOK

-----------------------------------------------------------------------------
(* Type correctness *)

\* A call that returns leaves the others where they are.
LEMMA ReturnType ==
    ASSUME TypeOK, NEW c \in Callers, Return(c)
    PROVE  /\ pc' = [pc EXCEPT ![c] = "idle"]
           /\ at' \in [Callers -> Providers]
           /\ attempt' \in [Callers -> 0..MaxRetries]
           /\ error' \in [Callers -> Answers \cup {"none"}]
           /\ \A d \in Callers : d # c => at'[d] = at[d]
BY ChainAssumption DEF Return, TypeOK, Providers

\* The chain goes on to the next provider or gives up.
LEMMA NextProviderType ==
    ASSUME TypeOK, NEW c \in Callers, NextProvider(c)
    PROVE  /\ pc' \in [Callers -> {"idle", "acquire", "request", "backoff", "succeed", "fail"}]
           /\ at' \in [Callers -> Providers]
           /\ attempt' \in [Callers -> 0..MaxRetries]
           /\ error' \in [Callers -> Answers \cup {"none"}]
           /\ \A d \in Callers : d # c => at'[d] = at[d] /\ pc'[d] = pc[d]
           /\ pc'[c] \notin Busy
<1>1. CASE at[c] = NumProviders
  BY <1>1, ReturnType DEF NextProvider, TypeOK, Busy
<1>2. CASE at[c] # NumProviders
  <2>1. at[c] + 1 \in Providers
    BY <1>2, ChainAssumption DEF TypeOK, Providers
  <2>2. QED
    BY <1>2, <2>1, ChainAssumption DEF NextProvider, TypeOK, Busy
<1>3. QED
  BY <1>1, <1>2

\* The circuit at provider q and its history stay as they are.
Same(q) == /\ breaker'[q] = breaker[q] /\ granted'[q] = granted[q]
           /\ probes'[q] = probes[q] /\ lost'[q] = lost[q]

\* The test calls are counted in half-open state only.
LEMMA SetBreakerType ==
    ASSUME TypeOK, NEW p \in Providers, NEW b \in Breaker, NEW g \in Nat,
           NEW P \in SUBSET Callers, SetBreaker(p, b, g, P)
    PROVE  /\ breaker' \in [Providers -> Breaker]
           /\ granted' \in [Providers -> Nat]
           /\ probes' \in [Providers -> SUBSET Callers]
           /\ lost' \in [Providers -> BOOLEAN]
           /\ breaker'[p] = b
           /\ granted'[p] = IF b.state = "HalfOpen" THEN g ELSE 0
           /\ probes'[p] = IF b.state = "HalfOpen" THEN P ELSE {}
           /\ lost'[p] = (lost[p] /\ b.state = "HalfOpen")
           /\ \A q \in Providers : q # p => Same(q)
BY DEF SetBreaker, TypeOK, Same

\* Initially every circuit is closed and nobody calls.
LEMMA IInvInit == Init => IInv
<1>1. NewBreaker \in Breaker /\ NewBreaker.state = "Closed"
  BY DEF NewBreaker, Breaker
<1>2. QED
  BY <1>1, ChainAssumption
     DEF Init, IInv, TypeOK, ProbesBounded, ProbesOnTheirWay, HalfOpen, Providers

\* A step that leaves the breakers and their history alone, and the place of
\* every call that is on its way.
LEMMA CallsOnly ==
    ASSUME IInv, TypeOK', UNCHANGED <<breaker, history>>,
           \A c \in Callers : pc[c] \in Busy => at'[c] = at[c] /\ pc'[c] \in Busy
    PROVE  IInv'
BY DEF IInv, TypeOK, ProbesBounded, ProbesOnTheirWay, HalfOpen, history

\* A step that decides circuit p, or leaves it closed or open.
LEMMA CircuitDecided ==
    ASSUME IInv, TypeOK', NEW p \in Providers,
           breaker'[p].state # "HalfOpen", granted'[p] = 0, probes'[p] = {}, ~lost'[p],
           \A q \in Providers : q # p => Same(q),
           \A c \in Callers : (at[c] # p /\ pc[c] \in Busy) =>
              at'[c] = at[c] /\ pc'[c] \in Busy
    PROVE  IInv'
<1>1. ProbesBounded /\ ProbesOnTheirWay
  BY DEF IInv
<1>2. ProbesBounded'
  BY <1>1 DEF ProbesBounded, HalfOpen, Same
<1>3. ASSUME NEW q \in Providers, q # p, NEW c \in probes'[q]
      PROVE  at'[c] = q /\ pc'[c] \in Busy
  <2>1. c \in Callers /\ at[c] = q /\ pc[c] \in Busy
    BY <1>1, <1>3 DEF ProbesOnTheirWay, IInv, TypeOK, Same
  <2>2. QED
    BY <1>3, <2>1
<1>4. ASSUME NEW q \in Providers
      PROVE  /\ \A c \in probes'[q] : at'[c] = q /\ pc'[c] \in Busy
             /\ HalfOpen(q)' => lost'[q] \/ probes'[q] # {}
             /\ ~HalfOpen(q)' => granted'[q] = 0 /\ probes'[q] = {} /\ ~lost'[q]
  <2>1. CASE q = p
    BY <2>1 DEF HalfOpen
  <2>2. CASE q # p
    BY <1>1, <1>3, <2>2 DEF ProbesOnTheirWay, HalfOpen, Same
  <2>3. QED
    BY <2>1, <2>2
<1>5. ProbesOnTheirWay'
  BY <1>4 DEF ProbesOnTheirWay, HalfOpen
<1>6. QED
  BY <1>2, <1>5 DEF IInv

\* try_acquire counts a test call it admits.
LEMMA AcquireStep ==
    ASSUME IInv, NEW c \in Callers, Acquire(c)
    PROVE  IInv'
<1> DEFINE p == at[c]
           b == Acquired(breaker[p])
<1>1. /\ p \in Providers /\ breaker[p] \in Breaker /\ b \in Breaker
      /\ granted[p] \in Nat /\ probes[p] \subseteq Callers
  BY BusyCalls, BreakerType DEF IInv, Acquire
<1>2. /\ breaker' \in [Providers -> Breaker]
      /\ granted' \in [Providers -> Nat]
      /\ probes' \in [Providers -> SUBSET Callers]
      /\ lost' \in [Providers -> BOOLEAN]
      /\ breaker'[p] = b
      /\ granted'[p] = IF b.state = "HalfOpen" THEN granted[p] + 1 ELSE 0
      /\ probes'[p] = IF b.state = "HalfOpen" THEN probes[p] \cup {c} ELSE {}
      /\ lost'[p] = (lost[p] /\ b.state = "HalfOpen")
      /\ \A q \in Providers : q # p => Same(q)
  BY <1>1, SetBreakerType DEF IInv, Acquire
<1>3. TypeOK'
  BY <1>2 DEF IInv, TypeOK, Acquire
<1>4. at' = at /\ pc'[c] = "request" /\ \A d \in Callers : d # c => pc'[d] = pc[d]
  BY DEF IInv, TypeOK, Acquire
<1>5. ProbesOnTheirWay'
  <2> SUFFICES ASSUME NEW q \in Providers
               PROVE  /\ \A d \in probes'[q] : at'[d] = q /\ pc'[d] \in Busy
                      /\ HalfOpen(q)' => lost'[q] \/ probes'[q] # {}
                      /\ ~HalfOpen(q)' => granted'[q] = 0 /\ probes'[q] = {} /\ ~lost'[q]
    BY DEF ProbesOnTheirWay
  <2>1. probes[q] \subseteq Callers
    BY DEF IInv, TypeOK
  <2>2. CASE q # p
    BY <1>2, <1>4, <2>1, <2>2 DEF IInv, ProbesOnTheirWay, HalfOpen, Busy, Same
  <2>3. CASE q = p
    BY <1>2, <1>4, <2>1, <2>3 DEF IInv, ProbesOnTheirWay, HalfOpen, Busy
  <2>4. QED
    BY <2>2, <2>3
<1>6. ProbesBounded'
  <2>1. \A q \in Providers : q # p =>
          (HalfOpen(q)' => granted'[q] + breaker'[q].remaining = HalfOpenMaxCalls + 1)
    BY <1>2 DEF IInv, ProbesBounded, HalfOpen, Same
  <2>2. CASE breaker[p].state = "Closed"
    BY <1>1, <1>2, <2>1, <2>2, BreakerMoves DEF Acquire, ProbesBounded, HalfOpen
  <2>3. CASE breaker[p].state = "Open"
    <3>1. b.state = "HalfOpen" /\ b.remaining = HalfOpenMaxCalls
      BY <1>1, <2>3, BreakerMoves DEF Acquire
    <3>2. granted[p] = 0
      BY <1>1, <2>3 DEF IInv, ProbesOnTheirWay, HalfOpen
    <3>3. QED
      BY <1>2, <2>1, <3>1, <3>2, ConfigAssumption DEF ProbesBounded, HalfOpen
  <2>4. CASE breaker[p].state = "HalfOpen"
    <3>1. b.state = "HalfOpen" /\ b.remaining = breaker[p].remaining - 1
      BY <1>1, <2>4, BreakerMoves DEF Acquire
    <3>2. granted[p] + breaker[p].remaining = HalfOpenMaxCalls + 1
      BY <1>1, <2>4 DEF IInv, ProbesBounded, HalfOpen
    <3>3. breaker[p].remaining \in Nat
      BY <1>1 DEF Breaker
    <3>4. granted'[p] + breaker'[p].remaining = HalfOpenMaxCalls + 1
      BY <1>1, <1>2, <3>1, <3>2, <3>3, ConfigAssumption
    <3>5. QED
      BY <2>1, <3>4 DEF ProbesBounded
  <2>5. QED
    BY <1>1, <2>2, <2>3, <2>4 DEF Breaker
<1>7. QED
  BY <1>3, <1>5, <1>6 DEF IInv

\* The outcome of a call decides its circuit, or leaves it as it was not half
\* open; the call goes on to another provider or returns.
LEMMA OutcomeStep ==
    ASSUME IInv, NEW c \in Callers, NEW b \in Breaker, b.state # "HalfOpen",
           SetBreaker(at[c], b, granted[at[c]], probes[at[c]] \ {c}),
           Return(c) \/ NextProvider(c)
    PROVE  IInv'
<1> DEFINE p == at[c]
<1>1. /\ p \in Providers /\ granted[p] \in Nat
      /\ probes[p] \ {c} \in SUBSET Callers
  BY BusyCalls DEF IInv
<1>2. /\ breaker' \in [Providers -> Breaker]
      /\ granted' \in [Providers -> Nat]
      /\ probes' \in [Providers -> SUBSET Callers]
      /\ lost' \in [Providers -> BOOLEAN]
      /\ breaker'[p] = b /\ granted'[p] = 0 /\ probes'[p] = {} /\ ~lost'[p]
      /\ \A q \in Providers : q # p => Same(q)
  BY <1>1, SetBreakerType DEF IInv
<1>3. /\ pc' \in [Callers -> {"idle", "acquire", "request", "backoff", "succeed", "fail"}]
      /\ at' \in [Callers -> Providers]
      /\ attempt' \in [Callers -> 0..MaxRetries]
      /\ error' \in [Callers -> Answers \cup {"none"}]
      /\ \A d \in Callers : d # c => at'[d] = at[d] /\ pc'[d] = pc[d]
  BY ReturnType, NextProviderType DEF IInv, TypeOK
<1>4. TypeOK'
  BY <1>2, <1>3 DEF TypeOK
<1>5. QED
  BY <1>1, <1>2, <1>3, <1>4, CircuitDecided

\* Forcing a state begins its count anew.
LEMMA ForceStep ==
    ASSUME IInv, NEW p \in Providers, ForceState(p)
    PROVE  IInv'
<1>1. PICK b \in {ToOpen(breaker[p]), ToClosed(breaker[p])} :
         SetBreaker(p, b, granted[p], probes[p])
  BY DEF ForceState
<1>2. breaker[p] \in Breaker /\ granted[p] \in Nat /\ probes[p] \in SUBSET Callers
  BY DEF IInv, TypeOK
<1>3. b \in Breaker /\ b.state # "HalfOpen"
  <2>1. ToOpen(breaker[p]) \in Breaker /\ ToClosed(breaker[p]) \in Breaker
    BY <1>2, BreakerType
  <2>2. ToOpen(breaker[p]).state = "Open" /\ ToClosed(breaker[p]).state = "Closed"
    BY <1>2 DEF ToOpen, ToClosed, Breaker
  <2>3. CASE b = ToOpen(breaker[p])
    BY <2>1, <2>2, <2>3
  <2>4. CASE b = ToClosed(breaker[p])
    BY <2>1, <2>2, <2>4
  <2>5. QED
    BY <2>3, <2>4
<1>4. /\ breaker' \in [Providers -> Breaker]
      /\ granted' \in [Providers -> Nat]
      /\ probes' \in [Providers -> SUBSET Callers]
      /\ lost' \in [Providers -> BOOLEAN]
      /\ breaker'[p] = b /\ granted'[p] = 0 /\ probes'[p] = {} /\ ~lost'[p]
      /\ \A q \in Providers : q # p => Same(q)
  BY <1>1, <1>2, <1>3, SetBreakerType DEF IInv
<1>5. TypeOK'
  BY <1>4 DEF IInv, TypeOK, ForceState, calls
<1>6. QED
  BY <1>3, <1>4, <1>5, CircuitDecided DEF ForceState, calls

\* A call that is dropped keeps its place in the count, and is noted as lost.
LEMMA DropStep ==
    ASSUME IInv, NEW c \in Callers, Drop(c)
    PROVE  IInv'
<1> USE DEF IInv
<1>1. at[c] \in Providers /\ \A q \in Providers : probes[q] \subseteq Callers
  BY DEF TypeOK
<1>2. TypeOK'
  BY <1>1, ReturnType DEF TypeOK, Drop
<1>3. /\ \A d \in Callers : d # c => at'[d] = at[d] /\ pc'[d] = pc[d]
      /\ \A q \in Providers : probes'[q] = probes[q] \ {c}
      /\ \A q \in Providers : lost'[q] = (lost[q] \/ c \in probes[q])
  BY <1>1, ReturnType DEF TypeOK, Drop, ProbesOnTheirWay
<1>4. ProbesOnTheirWay'
  <2> SUFFICES ASSUME NEW q \in Providers
               PROVE  /\ \A d \in probes'[q] : at'[d] = q /\ pc'[d] \in Busy
                      /\ HalfOpen(q)' => lost'[q] \/ probes'[q] # {}
                      /\ ~HalfOpen(q)' => granted'[q] = 0 /\ probes'[q] = {} /\ ~lost'[q]
    BY DEF ProbesOnTheirWay
  <2>1. /\ \A d \in probes[q] : at[d] = q /\ pc[d] \in Busy
        /\ HalfOpen(q) => lost[q] \/ probes[q] # {}
        /\ ~HalfOpen(q) => granted[q] = 0 /\ probes[q] = {} /\ ~lost[q]
    BY DEF ProbesOnTheirWay
  <2>2. (HalfOpen(q)' <=> HalfOpen(q)) /\ granted' = granted
    BY DEF HalfOpen, Drop
  <2>3. probes'[q] = probes[q] \ {c} /\ lost'[q] = (lost[q] \/ c \in probes[q])
    BY <1>3
  <2>4. ASSUME NEW d \in probes'[q] PROVE at'[d] = q /\ pc'[d] \in Busy
    <3>1. d \in probes[q] /\ d # c /\ d \in Callers
      BY <1>1, <2>3, <2>4
    <3>2. QED
      BY <1>3, <2>1, <3>1
  <2>5. HalfOpen(q)' => lost'[q] \/ probes'[q] # {}
    BY <2>1, <2>2, <2>3, Zenon
  <2>6. ~HalfOpen(q)' => granted'[q] = 0 /\ probes'[q] = {} /\ ~lost'[q]
    BY <2>1, <2>2, <2>3
  <2>7. QED
    BY <2>4, <2>5, <2>6
<1>5. QED
  BY <1>2, <1>4 DEF ProbesBounded, HalfOpen, Drop

\* The timeout of a circuit passes.
LEMMA ElapseStep ==
    ASSUME IInv, NEW p \in Providers, Elapse(p)
    PROVE  IInv'
<1> USE DEF IInv
<1>1. breaker[p] \in Breaker
  BY DEF TypeOK
<1>2. [breaker[p] EXCEPT !.last = "elapsed"] \in Breaker
  BY <1>1 DEF Breaker
<1>3. breaker' \in [Providers -> Breaker]
  BY <1>2 DEF Elapse, TypeOK
<1>4. \A q \in Providers : /\ breaker'[q].state = breaker[q].state
                          /\ breaker'[q].remaining = breaker[q].remaining
  BY <1>1 DEF Elapse, TypeOK, Breaker
<1>5. TypeOK'
  BY <1>3 DEF TypeOK, Elapse, calls, history
<1>6. QED
  BY <1>4, <1>5 DEF ProbesBounded, ProbesOnTheirWay, HalfOpen, Elapse, calls, history

\* A call is retried while attempts are left only.
LEMMA RetriesLeftStep == TypeOK /\ RetriesLeft /\ [Next]_vars => RetriesLeft'
<1> SUFFICES ASSUME TypeOK, RetriesLeft, [Next]_vars,
                    NEW d \in Callers, pc'[d] = "backoff"
             PROVE  attempt'[d] < MaxRetries
  BY DEF RetriesLeft
<1> USE DEF TypeOK, RetriesLeft, calls, history
<1>1. CASE \E c \in Callers : Chat(c) \/ Acquire(c) \/ Answered(c) \/ Retry(c) \/ BackedOff(c)
  BY <1>1 DEF Chat, Acquire, Answered, Retry, BackedOff
<1>2. CASE \E c \in Callers : \E e \in Answers \ {"ok"} : GiveUp(c, e)
  BY <1>2 DEF GiveUp
<1>3. ASSUME NEW c \in Callers, Return(c) \/ NextProvider(c)
      PROVE  attempt'[d] < MaxRetries
  BY <1>3 DEF Return, NextProvider
<1>4. CASE \E c \in Callers : Refused(c) \/ Succeed(c) \/ Fail(c) \/ Drop(c)
  BY <1>3, <1>4 DEF Refused, Succeed, Fail, Drop
<1>5. CASE UNCHANGED calls
  BY <1>5
<1>6. QED
  BY <1>1, <1>2, <1>4, <1>5 DEF Next, Step, Elapse, ForceState, vars

\* Every step keeps the invariant.
LEMMA IInvStep == IInv /\ RetriesLeft /\ [Next]_vars => IInv'
<1> SUFFICES ASSUME IInv, RetriesLeft, [Next]_vars PROVE IInv'
  OBVIOUS
<1>1. ASSUME NEW c \in Callers, Chat(c) PROVE IInv'
  <2>1. TypeOK'
    BY <1>1 DEF IInv, TypeOK, Chat, history
  <2>2. QED
    BY <1>1, <2>1, CallsOnly DEF IInv, TypeOK, Chat, history, Busy
<1>2. ASSUME NEW c \in Callers, Acquire(c) PROVE IInv'
  BY <1>2, AcquireStep
<1>3. ASSUME NEW c \in Callers, Refused(c) PROVE IInv'
  <2>1. TypeOK'
    BY <1>3, NextProviderType DEF IInv, TypeOK, Refused, history
  <2>2. pc[c] \notin Busy
    BY <1>3 DEF Refused, Busy
  <2>3. QED
    BY <1>3, <2>1, <2>2, NextProviderType, CallsOnly DEF IInv, Refused, history
<1>4. ASSUME NEW c \in Callers, Answered(c) PROVE IInv'
  <2>1. TypeOK'
    BY <1>4 DEF IInv, TypeOK, Answered, history
  <2>2. QED
    BY <1>4, <2>1, CallsOnly DEF IInv, TypeOK, Answered, history, Busy
<1>5. ASSUME NEW c \in Callers, Retry(c) PROVE IInv'
  <2>1. TypeOK'
    BY <1>5 DEF IInv, TypeOK, Retry, history
  <2>2. QED
    BY <1>5, <2>1, CallsOnly DEF IInv, TypeOK, Retry, history, Busy
<1>6. ASSUME NEW c \in Callers, BackedOff(c) PROVE IInv'
  <2>1. attempt[c] + 1 \in 0..MaxRetries
    BY <1>6, ChainAssumption DEF IInv, TypeOK, RetriesLeft, BackedOff
  <2>2. TypeOK'
    BY <1>6, <2>1 DEF IInv, TypeOK, BackedOff, history
  <2>3. QED
    BY <1>6, <2>2, CallsOnly DEF IInv, TypeOK, BackedOff, history, Busy
<1>7. ASSUME NEW c \in Callers, NEW e \in Answers \ {"ok"}, GiveUp(c, e) PROVE IInv'
  <2>1. TypeOK'
    BY <1>7 DEF IInv, TypeOK, GiveUp, history
  <2>2. QED
    BY <1>7, <2>1, CallsOnly DEF IInv, TypeOK, GiveUp, history, Busy
<1>8. ASSUME NEW c \in Callers, Succeed(c) PROVE IInv'
  <2>1. breaker[at[c]] \in Breaker
    BY BusyCalls DEF IInv
  <2>2. /\ RecordSuccess(breaker[at[c]]) \in Breaker
        /\ RecordSuccess(breaker[at[c]]).state # "HalfOpen"
    BY <2>1, BreakerType, BreakerMoves
  <2>3. QED
    BY <1>8, <2>2, OutcomeStep DEF Succeed
<1>9. ASSUME NEW c \in Callers, Fail(c) PROVE IInv'
  <2>1. breaker[at[c]] \in Breaker /\ at[c] \in Providers
    BY BusyCalls DEF IInv
  <2>2. /\ RecordFailure(breaker[at[c]]) \in Breaker
        /\ RecordFailure(breaker[at[c]]).state # "HalfOpen"
    BY <2>1, BreakerType, BreakerMoves
  <2>3. Return(c) \/ NextProvider(c)
    BY <1>9, <2>1 DEF IInv, TypeOK, Fail
  <2>4. QED
    BY <1>9, <2>2, <2>3, OutcomeStep DEF Fail
<1>10. CASE UNCHANGED vars
  BY <1>10 DEF IInv, TypeOK, ProbesBounded, ProbesOnTheirWay, HalfOpen, vars, calls, history
<1>11. QED
  BY <1>1, <1>2, <1>3, <1>4, <1>5, <1>6, <1>7, <1>8, <1>9, <1>10,
     DropStep, ElapseStep, ForceStep DEF Next, Step

\* The invariant of the calls and the breakers.
LEMMA IInvAlways == Spec => [](IInv /\ RetriesLeft)
<1>1. Init => RetriesLeft
  BY DEF Init, RetriesLeft
<1>2. IInv => TypeOK
  BY DEF IInv
<1>3. QED
  BY <1>1, <1>2, IInvInit, IInvStep, RetriesLeftStep, PTL DEF Spec

\* The breakers and the calls always have their types; in particular the number
\* of test calls left never goes below zero (try_acquire, a u32).
THEOREM TypeCorrect == Spec => []TypeOK
<1>1. IInv => TypeOK
  BY DEF IInv
<1>2. QED
  BY <1>1, IInvAlways, PTL

\* A half-open circuit with no call left to let through.
Exhausted(p) == HalfOpen(p) /\ breaker[p].remaining = 0

\* The code does not keep to "Maximum number of test calls in half-open state",
\* what the config says of half_open_max_calls: try_acquire counts the calls of
\* a circuit that is half open already, so a circuit that refuses the next call
\* has let through one more than that, however calls interleave or are dropped.
THEOREM OneTestCallMore ==
    Spec => [](\A p \in Providers : Exhausted(p) => granted[p] = HalfOpenMaxCalls + 1)
<1> DEFINE More == \A p \in Providers : Exhausted(p) => granted[p] = HalfOpenMaxCalls + 1
<1>1. IInv => More
  BY DEF IInv, TypeOK, ProbesBounded, Exhausted
<1>2. QED
  BY <1>1, IInvAlways, PTL

\* A half-open circuit always has a call on its way that will close or open it,
\* unless a caller has dropped one (chat, record_success, record_failure).
THEOREM ProbeAlwaysInFlight == Spec => []ProbeInFlight
<1>1. IInv => ProbeInFlight
  BY DEF IInv, TypeOK, ProbesOnTheirWay, ProbeInFlight, Busy
<1>2. QED
  BY <1>1, IInvAlways, PTL

\* Unless forced, an open circuit lets nobody through before the timeout has
\* passed since the last failure, whatever outcomes are recorded meanwhile.
THEOREM OpenHolds == Spec => OpenUntilTimeout
<1> DEFINE Holds == \A p \in Providers :
          breaker[p].state = "Open" /\ breaker'[p].state # "Open"
             => breaker[p].last = "elapsed" \/ ForceState(p)
<1>1. IInv /\ [Next]_vars => Holds
  <2> SUFFICES ASSUME IInv, [Next]_vars, NEW p \in Providers,
                      breaker[p].state = "Open", breaker'[p].state # "Open"
               PROVE  breaker[p].last = "elapsed" \/ ForceState(p)
    OBVIOUS
  <2>1. breaker[p] \in Breaker /\ breaker \in [Providers -> Breaker]
    BY DEF IInv, TypeOK
  <2>2. ~ UNCHANGED breaker
    OBVIOUS
  <2>3. ASSUME NEW c \in Callers, Acquire(c) PROVE breaker[p].last = "elapsed"
    BY <2>1, <2>3, BreakerMoves DEF Acquire, SetBreaker
  <2>4. ASSUME NEW c \in Callers, Succeed(c) \/ Fail(c) PROVE FALSE
    BY <2>1, <2>4, BreakerMoves DEF Succeed, Fail, SetBreaker
  <2>5. ASSUME NEW q \in Providers, Elapse(q) PROVE FALSE
    BY <2>1, <2>5 DEF Elapse, Breaker
  <2>6. ASSUME NEW q \in Providers, ForceState(q), q # p PROVE FALSE
    BY <2>1, <2>6 DEF ForceState, SetBreaker
  <2>7. QED
    BY <2>2, <2>3, <2>4, <2>5, <2>6
       DEF Next, Step, Chat, Refused, Answered, Retry, BackedOff, GiveUp, Drop, vars
<1>2. QED
  BY <1>1, IInvAlways, PTL DEF Spec, OpenUntilTimeout

-----------------------------------------------------------------------------
(* The count of failures *)

\* The calls at provider p that were let through and have not ended.
OnTheirWay(p) == {c \in Callers : at[c] = p /\ pc[c] \in Busy}

\* Breaker b while n calls are on their way: a closed circuit is below the
\* threshold, a half-open one counts afresh, and an open one stays below the
\* bound when every call on its way fails as well.
Counted(b, n) ==
    /\ b.state = "Closed" => b.failures < FailureThreshold
    /\ b.state = "HalfOpen" => b.failures = 0
    /\ b.state = "Open" => b.failures + n < FailureThreshold + Cardinality(Callers)

FailuresCounted == \A p \in Providers : Counted(breaker[p], Cardinality(OnTheirWay(p)))

\* The number of some of the callers.
LEMMA CallsCounted ==
    ASSUME IsFiniteSet(Callers), NEW S \in SUBSET Callers, NEW U \in SUBSET S
    PROVE  /\ Cardinality(S) \in Nat /\ Cardinality(S) <= Cardinality(Callers)
           /\ Cardinality(U) \in Nat /\ Cardinality(U) <= Cardinality(S)
           /\ \A c \in S : c \notin U => Cardinality(U) < Cardinality(S)
<1>1. IsFiniteSet(S) /\ Cardinality(S) <= Cardinality(Callers)
  BY FS_Subset
<1>2. IsFiniteSet(U) /\ Cardinality(U) <= Cardinality(S)
  BY <1>1, FS_Subset
<1>3. ASSUME NEW c \in S, c \notin U PROVE Cardinality(U) # Cardinality(S)
  BY <1>1, <1>3, FS_Subset
<1>4. Cardinality(S) \in Nat /\ Cardinality(U) \in Nat
  BY <1>1, <1>2, FS_CardinalityType
<1>5. QED
  BY <1>1, <1>2, <1>3, <1>4

\* What each operation of the breaker makes of the count, m being the calls that
\* are on their way afterwards.
LEMMA CountMoves ==
    ASSUME NEW b \in Breaker, NEW n \in Nat, NEW m \in Nat,
           FailureThreshold > 0, Cardinality(Callers) \in Nat,
           n <= Cardinality(Callers), Counted(b, n)
    PROVE  /\ MayProceed(b) => Counted(Acquired(b), m)
           /\ m <= n => /\ Counted(b, m)
                        /\ Counted(ToOpen(b), m) /\ Counted(ToClosed(b), m)
                        /\ Counted(RecordSuccess(b), m)
           /\ m < n => Counted(RecordFailure(b), m)
<1> DEFINE N == Cardinality(Callers)
<1>1. N \in Nat /\ n <= N
  OBVIOUS
<1>2. /\ b.state \in {"Closed", "Open", "HalfOpen"} /\ b.failures \in Nat
      /\ b.state = "Closed" => b.failures < FailureThreshold
      /\ b.state = "HalfOpen" => b.failures = 0
      /\ b.state = "Open" => b.failures + n < FailureThreshold + N
  BY DEF Counted, Breaker
<1>3. ASSUME NEW d \in Breaker, NEW k
      PROVE  Counted(d, k) <=> /\ d.state = "Closed" => d.failures < FailureThreshold
                               /\ d.state = "HalfOpen" => d.failures = 0
                               /\ d.state = "Open" => d.failures + k < FailureThreshold + N
  BY DEF Counted
<1> HIDE DEF N
<1>4. ASSUME MayProceed(b) PROVE Counted(Acquired(b), m)
  <2>1. /\ Acquired(b) \in Breaker /\ Acquired(b).state # "Open"
        /\ Acquired(b).state = "Closed" => b.state = "Closed" /\ Acquired(b).failures = b.failures
        /\ Acquired(b).state = "HalfOpen" => Acquired(b).failures = 0
    BY <1>2, <1>4, BreakerType
       DEF Breaker, MayProceed, Acquired, ToHalfOpen
  <2>2. QED
    BY <1>2, <1>3, <2>1
<1>5. ASSUME m <= n
      PROVE  Counted(b, m) /\ Counted(ToOpen(b), m) /\ Counted(ToClosed(b), m)
  <2>1. /\ ToOpen(b) \in Breaker /\ ToClosed(b) \in Breaker
        /\ ToOpen(b).state = "Open" /\ ToOpen(b).failures = b.failures
        /\ ToClosed(b).state = "Closed" /\ ToClosed(b).failures = 0
    BY BreakerType DEF Breaker, ToOpen, ToClosed
  <2>2. b.failures + m < FailureThreshold + N
    BY <1>1, <1>2, <1>5, ConfigAssumption
  <2>3. QED
    BY <1>2, <1>3, <2>1, <2>2, ConfigAssumption
<1>6. ASSUME m <= n PROVE Counted(RecordSuccess(b), m)
  <2>1. CASE b.state = "HalfOpen"
    BY <1>5, <1>6, <2>1 DEF RecordSuccess
  <2>2. CASE b.state # "HalfOpen"
    <3>1. /\ RecordSuccess(b) \in Breaker
          /\ RecordSuccess(b).state = b.state /\ RecordSuccess(b).failures = 0
      BY <2>2, BreakerType DEF RecordSuccess, Breaker
    <3>2. 0 + m < FailureThreshold + N
      BY <1>1, <1>6, ConfigAssumption
    <3>3. QED
      BY <1>3, <2>2, <3>1, <3>2
  <2>3. QED
    BY <2>1, <2>2
<1>7. ASSUME m < n PROVE Counted(RecordFailure(b), m)
  <2> DEFINE r == RecordFailure(b)
  <2>1. /\ r \in Breaker /\ r.failures = b.failures + 1 /\ r.state # "HalfOpen"
        /\ r.state = "Closed" => b.failures + 1 < FailureThreshold
    <3>1. r \in Breaker
      BY BreakerType
    <3>2. b.failures + 1 >= FailureThreshold \/ b.failures + 1 < FailureThreshold
      BY <1>2, ConfigAssumption
    <3>3. QED
      BY <1>2, <3>1, <3>2 DEF RecordFailure, ToOpen, Breaker
  <2> HIDE DEF r
  <2>2. b.failures + 1 + m < FailureThreshold + N
    BY <1>1, <1>2, <1>7, ConfigAssumption
  <2>3. QED
    BY <1>3, <2>1, <2>2 DEF r
<1>8. QED
  BY <1>4, <1>5, <1>6, <1>7

\* A step of call c that only its circuit takes note of.
LEMMA CountStep ==
    ASSUME IsFiniteSet(Callers), FailureThreshold > 0, TypeOK, FailuresCounted,
           NEW p \in Providers, NEW m \in Nat, m = Cardinality(OnTheirWay(p)'),
           Counted(breaker'[p], m),
           \A q \in Providers : q # p =>
              breaker'[q] = breaker[q] /\ OnTheirWay(q)' \subseteq OnTheirWay(q)
    PROVE  FailuresCounted'
<1> SUFFICES ASSUME NEW q \in Providers
             PROVE  Counted(breaker[q], Cardinality(OnTheirWay(q)))'
  BY DEF FailuresCounted
<1>1. CASE q = p
  BY <1>1 DEF Counted
<1>2. CASE q # p
  <2> DEFINE S == OnTheirWay(q)
             U == OnTheirWay(q)'
  <2>1. U \subseteq S /\ S \subseteq Callers /\ breaker'[q] = breaker[q]
    BY <1>2 DEF OnTheirWay
  <2> HIDE DEF S, U
  <2>2. /\ Cardinality(S) \in Nat /\ Cardinality(S) <= Cardinality(Callers)
        /\ Cardinality(U) \in Nat /\ Cardinality(U) <= Cardinality(S)
    BY <2>1, CallsCounted
  <2>3. breaker[q] \in Breaker /\ Counted(breaker[q], Cardinality(S))
    BY DEF TypeOK, FailuresCounted, S
  <2>4. Cardinality(Callers) \in Nat
    BY FS_CardinalityType
  <2>5. Counted(breaker[q], Cardinality(U))
    BY <2>2, <2>3, <2>4, CountMoves
  <2>6. QED
    BY <2>1, <2>5 DEF Counted, U
<1>3. QED
  BY <1>1, <1>2

\* The step changes circuit p alone, to b, and no call sets out elsewhere: what
\* CountMoves says of b carries over.
LEMMA CircuitCounted ==
    ASSUME IsFiniteSet(Callers), FailureThreshold > 0, TypeOK, FailuresCounted,
           NEW p \in Providers, NEW b \in Breaker, breaker' = [breaker EXCEPT ![p] = b],
           \A q \in Providers : q # p => OnTheirWay(q)' \subseteq OnTheirWay(q),
           \/ b = Acquired(breaker[p]) /\ MayProceed(breaker[p])
           \/ /\ b \in {breaker[p], ToOpen(breaker[p]), ToClosed(breaker[p]),
                        RecordSuccess(breaker[p])}
              /\ OnTheirWay(p)' \subseteq OnTheirWay(p)
           \/ /\ b = RecordFailure(breaker[p])
              /\ \E c \in OnTheirWay(p) : OnTheirWay(p)' \subseteq OnTheirWay(p) \ {c}
    PROVE  FailuresCounted'
<1> DEFINE S == OnTheirWay(p)
           U == OnTheirWay(p)'
           n == Cardinality(S)
           m == Cardinality(U)
<1>1. S \subseteq Callers /\ U \subseteq Callers
  BY DEF OnTheirWay
<1>2. /\ breaker[p] \in Breaker /\ breaker'[p] = b
      /\ \A q \in Providers : q # p => breaker'[q] = breaker[q]
      /\ Counted(breaker[p], n)
  BY DEF TypeOK, FailuresCounted
<1> HIDE DEF S, U
<1>3. /\ n \in Nat /\ n <= Cardinality(Callers) /\ m \in Nat
      /\ Cardinality(Callers) \in Nat
      /\ U \subseteq S => m <= n
      /\ \A c \in S : U \subseteq S \ {c} => m < n
  <2>1. n \in Nat /\ n <= Cardinality(Callers) /\ Cardinality(Callers) \in Nat
    BY <1>1, CallsCounted, FS_CardinalityType
  <2>2. m \in Nat
    BY <1>1, CallsCounted
  <2>3. ASSUME U \subseteq S PROVE m <= n /\ \A c \in S : c \notin U => m < n
    BY <1>1, <2>3, CallsCounted
  <2>4. QED
    BY <2>1, <2>2, <2>3
<1> HIDE DEF n, m
<1>4. /\ MayProceed(breaker[p]) => Counted(Acquired(breaker[p]), m)
      /\ m <= n => /\ Counted(breaker[p], m)
                   /\ Counted(ToOpen(breaker[p]), m) /\ Counted(ToClosed(breaker[p]), m)
                   /\ Counted(RecordSuccess(breaker[p]), m)
      /\ m < n => Counted(RecordFailure(breaker[p]), m)
  BY <1>2, <1>3, CountMoves
<1>5. Counted(b, m)
  BY <1>3, <1>4 DEF S, U
<1>6. m = Cardinality(OnTheirWay(p)')
  BY DEF m, U
<1>7. QED
  BY <1>2, <1>3, <1>5, <1>6, CountStep

\* A failure on its way is counted once it arrives, and not before.
LEMMA FailuresCountedStep ==
    ASSUME IsFiniteSet(Callers), FailureThreshold > 0
    PROVE  TypeOK /\ FailuresCounted /\ [Next]_vars => FailuresCounted'
<1> SUFFICES ASSUME TypeOK, FailuresCounted, [Next]_vars PROVE FailuresCounted'
  OBVIOUS
<1>1. ASSUME NEW p \in Providers, NEW b \in Breaker, breaker' = [breaker EXCEPT ![p] = b],
             b \in {breaker[p], ToOpen(breaker[p]), ToClosed(breaker[p]),
                    RecordSuccess(breaker[p])},
             \A q \in Providers : OnTheirWay(q)' \subseteq OnTheirWay(q)
      PROVE  FailuresCounted'
  BY <1>1, CircuitCounted
<1>2. ASSUME UNCHANGED breaker,
             \A q \in Providers : OnTheirWay(q)' \subseteq OnTheirWay(q)
      PROVE  FailuresCounted'
  <2>1. 1 \in Providers
    BY ChainAssumption DEF Providers
  <2>2. breaker[1] \in Breaker /\ breaker' = [breaker EXCEPT ![1] = breaker[1]]
    BY <1>2, <2>1 DEF TypeOK
  <2>3. QED
    BY <1>1, <1>2, <2>1, <2>2
<1>3. ASSUME NEW c \in Callers,
             \/ Chat(c) \/ Refused(c) \/ Answered(c) \/ Retry(c) \/ BackedOff(c) \/ Drop(c)
             \/ \E e \in Answers \ {"ok"} : GiveUp(c, e)
      PROVE  FailuresCounted'
  <2>1. UNCHANGED breaker
    BY <1>3 DEF Chat, Refused, Answered, Retry, BackedOff, Drop, GiveUp
  <2>2. /\ \A d \in Callers : d # c => at'[d] = at[d] /\ pc'[d] = pc[d]
        /\ pc'[c] \in Busy => at'[c] = at[c] /\ pc[c] \in Busy
    <3>1. CASE Refused(c)
      BY <3>1, NextProviderType DEF Refused
    <3>2. CASE Drop(c)
      BY <3>2, ReturnType DEF Drop, TypeOK, Busy
    <3>3. CASE Chat(c) \/ Answered(c) \/ Retry(c) \/ BackedOff(c)
               \/ \E e \in Answers \ {"ok"} : GiveUp(c, e)
      BY <3>3 DEF Chat, Answered, Retry, BackedOff, GiveUp, TypeOK, Busy
    <3>4. QED
      BY <1>3, <3>1, <3>2, <3>3
  <2>3. QED
    BY <1>2, <2>1, <2>2 DEF OnTheirWay
<1>4. ASSUME NEW c \in Callers, Acquire(c) PROVE FailuresCounted'
  <2>1. /\ at[c] \in Providers /\ breaker[at[c]] \in Breaker
        /\ Acquired(breaker[at[c]]) \in Breaker
    BY <1>4, BusyCalls, BreakerType DEF Acquire
  <2>2. \A q \in Providers : q # at[c] => OnTheirWay(q)' \subseteq OnTheirWay(q)
    BY <1>4 DEF Acquire, TypeOK, OnTheirWay
  <2>3. QED
    BY <1>4, <2>1, <2>2, CircuitCounted DEF Acquire, SetBreaker
<1>5. ASSUME NEW c \in Callers, Return(c) \/ NextProvider(c)
      PROVE  \A q \in Providers : OnTheirWay(q)' \subseteq OnTheirWay(q) \ {c}
  <2>1. /\ \A d \in Callers : d # c => at'[d] = at[d] /\ pc'[d] = pc[d]
        /\ pc'[c] \notin Busy
    <3>1. CASE Return(c)
      BY <3>1, ReturnType DEF TypeOK, Busy
    <3>2. CASE NextProvider(c)
      BY <3>2, NextProviderType
    <3>3. QED
      BY <1>5, <3>1, <3>2
  <2>2. QED
    BY <2>1 DEF OnTheirWay
<1>6. ASSUME NEW c \in Callers, Succeed(c) PROVE FailuresCounted'
  <2>1. at[c] \in Providers /\ RecordSuccess(breaker[at[c]]) \in Breaker
    BY BusyCalls, BreakerType
  <2>2. \A q \in Providers : OnTheirWay(q)' \subseteq OnTheirWay(q)
    BY <1>5, <1>6 DEF Succeed
  <2>3. QED
    BY <1>1, <1>6, <2>1, <2>2 DEF Succeed, SetBreaker
<1>7. ASSUME NEW c \in Callers, Fail(c) PROVE FailuresCounted'
  <2>1. at[c] \in Providers /\ RecordFailure(breaker[at[c]]) \in Breaker
    BY BusyCalls, BreakerType
  <2>2. \A q \in Providers : OnTheirWay(q)' \subseteq OnTheirWay(q) \ {c}
    BY <1>5, <1>7 DEF Fail
  <2>3. c \in OnTheirWay(at[c])
    BY <1>7 DEF Fail, OnTheirWay, Busy
  <2>4. QED
    BY <1>7, <2>1, <2>2, <2>3, CircuitCounted DEF Fail, SetBreaker
<1>8. ASSUME NEW p \in Providers, Elapse(p) PROVE FailuresCounted'
  <2>1. /\ breaker[p] \in Breaker
        /\ \A q \in Providers : /\ breaker'[q].state = breaker[q].state
                               /\ breaker'[q].failures = breaker[q].failures
    BY <1>8 DEF Elapse, TypeOK, Breaker
  <2>2. \A q \in Providers : OnTheirWay(q)' = OnTheirWay(q)
    BY <1>8 DEF Elapse, calls, OnTheirWay
  <2>3. QED
    BY <2>1, <2>2 DEF FailuresCounted, Counted
<1>9. ASSUME NEW p \in Providers, ForceState(p) PROVE FailuresCounted'
  <2>1. breaker[p] \in Breaker
    BY DEF TypeOK
  <2>2. ToOpen(breaker[p]) \in Breaker /\ ToClosed(breaker[p]) \in Breaker
    BY <2>1, BreakerType
  <2>3. \A q \in Providers : OnTheirWay(q)' \subseteq OnTheirWay(q)
    BY <1>9 DEF ForceState, calls, OnTheirWay
  <2>4. QED
    <3>1. PICK b \in {ToOpen(breaker[p]), ToClosed(breaker[p])} :
             breaker' = [breaker EXCEPT ![p] = b]
      BY <1>9 DEF ForceState, SetBreaker
    <3>2. QED
      BY <1>1, <2>2, <2>3, <3>1
<1>10. CASE UNCHANGED vars
  <2>1. \A q \in Providers : OnTheirWay(q)' \subseteq OnTheirWay(q)
    BY <1>10 DEF vars, calls, OnTheirWay
  <2>2. QED
    BY <1>2, <1>10, <2>1 DEF vars
<1>11. QED
  BY <1>3, <1>4, <1>6, <1>7, <1>8, <1>9, <1>10 DEF Next, Step

\* Initially no failure is counted.
LEMMA FailuresCountedInit ==
    ASSUME IsFiniteSet(Callers), FailureThreshold > 0
    PROVE  Init => FailuresCounted
BY DEF Init, FailuresCounted, Counted, NewBreaker

\* However calls interleave, are retried, dropped or a circuit is forced, a
\* circuit's count of failures never passes the threshold by more than the calls
\* that were let through before it opened (record_failure, u32).
THEOREM FailuresAreBounded ==
    ASSUME IsFiniteSet(Callers), FailureThreshold > 0
    PROVE  Spec => []FailuresBounded
<1>1. TypeOK /\ FailuresCounted => FailuresBounded
  <2> SUFFICES ASSUME TypeOK, FailuresCounted, NEW p \in Providers
               PROVE  /\ breaker[p].failures < FailureThreshold + Cardinality(Callers)
                      /\ breaker[p].state = "Closed" => breaker[p].failures < FailureThreshold
    BY DEF FailuresBounded
  <2>1. OnTheirWay(p) \subseteq Callers
    BY DEF OnTheirWay
  <2>2. Cardinality(OnTheirWay(p)) \in Nat /\ Cardinality(Callers) \in Nat
    BY <2>1, CallsCounted, FS_CardinalityType
  <2>3. breaker[p] \in Breaker /\ Counted(breaker[p], Cardinality(OnTheirWay(p)))
    BY DEF TypeOK, FailuresCounted
  <2> DEFINE N == Cardinality(Callers)
             n == Cardinality(OnTheirWay(p))
  <2>4. /\ N \in Nat /\ n \in Nat /\ breaker[p].failures \in Nat
        /\ breaker[p].state \in {"Closed", "Open", "HalfOpen"}
        /\ breaker[p].state = "Closed" => breaker[p].failures < FailureThreshold
        /\ breaker[p].state = "HalfOpen" => breaker[p].failures = 0
        /\ breaker[p].state = "Open" => breaker[p].failures + n < FailureThreshold + N
    BY <2>2, <2>3 DEF Counted, Breaker
  <2> HIDE DEF N, n
  <2>5. breaker[p].failures < FailureThreshold + N
    BY <2>4, ConfigAssumption
  <2>6. QED
    BY <2>4, <2>5 DEF N
<1>2. Spec => [](TypeOK /\ FailuresCounted)
  <2>1. IInv => TypeOK
    BY DEF IInv
  <2>2. QED
    BY <2>1, IInvAlways, FailuresCountedInit, FailuresCountedStep, PTL DEF Spec
<1>3. QED
  BY <1>1, <1>2, PTL
=============================================================================
