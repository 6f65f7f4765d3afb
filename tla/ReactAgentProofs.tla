-------------------------- MODULE ReactAgentProofs --------------------------
(***************************************************************************)
(* Proofs about ReactAgent, for any number of agents with any tools, any   *)
(* answers of the model, files and providers: agents do what the answers   *)
(* say.                                                                    *)
(***************************************************************************)
EXTENDS ReactAgent, WellFoundedInduction, TLAPS

-----------------------------------------------------------------------------
(* The order of the tags *)

Place == Nat \ {0}

\* The least of a set of numbers is one of them.
LEMMA LeastOf ==
    ASSUME NEW S \in SUBSET Nat, S # {}
    PROVE  \E i \in S : \A j \in S : i <= j
<1> DEFINE R == OpToRel(<, Nat)
<1>1. IsWellFoundedOn(R, Nat)
  BY NatLessThanWellFounded
<1>2. \A i, j \in Nat : i < j => <<i, j>> \in R
  BY DEF OpToRel
<1> HIDE DEF R
<1>3. PICK i \in S : \A j \in S : <<j, i>> \notin R
  BY <1>1, WFMin
<1>4. ASSUME NEW j \in S PROVE i <= j
  <2>1. i \in Nat /\ j \in Nat /\ ~(j < i)
    BY <1>2, <1>3
  <2>2. QED
    BY <2>1
<1>5. QED
  BY <1>4

\* Of any tags one comes first.
LEMMA FirstIs ==
    ASSUME NEW S \in SUBSET Place, S # {}
    PROVE  First(S) \in S /\ \A q \in S \ {First(S)} : First(S) < q
<1>1. PICK p \in S : \A q \in S : p <= q
  BY LeastOf DEF Place
<1>2. First(S) \in S /\ \A q \in S : First(S) <= q
  BY <1>1 DEF First
<1>3. \A q \in S : q \in Nat
  BY DEF Place
<1>4. QED
  BY <1>2, <1>3

\* The tags that are executed are tags of the text.
LEMMA PlacesAre ==
    ASSUME NEW text \in Answers \cup {<<>>}, NEW tools
    PROVE  /\ Invocations(tools, text) \subseteq 1..Len(text)
           /\ Invocations(tools, text) \subseteq Place
<1>1. Len(text) \in Nat
  <2>1. CASE text \in Answers
    BY <2>1, AnswersAssumption
  <2>2. CASE text = <<>>
    BY <2>2
  <2>3. QED
    BY <2>1, <2>2
<1>2. Invocations(tools, text) \subseteq 1..Len(text)
  BY DEF Invocations, Parse
<1>3. QED
  BY <1>1, <1>2 DEF Place

-----------------------------------------------------------------------------
(* What holds of an agent: e is its engine, h what it has executed *)

Pcs == {"configure", "prompt", "loading", "loop", "naming", "finding", "asking", "executing",
        "reading", "writing", "running", "ended"}
Outcomes == {None, "error", "timeout", "iterations", "completed"}
Lines == Contents \cup {Absent, Empty, None} \cup {t.path : t \in Tags} \cup SUBSET Paths
Shown == [path : Paths, line : Lines]
Result == [tool : {t.tool : t \in Tags}, path : {t.path : t \in Tags}, line : Lines]
Message == [role : {"system"}, tools : {Tools[a] : a \in Agents}, results : Seq(Shown)]
           \cup [role : {"user"}] \cup [role : {"assistant"}, text : Answers]
           \cup [role : {"tool"}, results : Seq(Result)]
EngineType == [pc : Pcs, iteration : Nat, provider : Providers \cup {None},
               text : Answers \cup {<<>>}, todo : SUBSET Place, changes : SUBSET Allowed, output : Seq(Result),
               context : Seq(Shown), history : Seq(Message), outcome : Outcomes]

Typed(a, e, h) ==
    /\ e \in EngineType /\ e.iteration <= MaxIterations[a]
    /\ h \in [0..MaxIterations[a] -> Seq(Place)]

Working == {"executing", "reading", "writing", "running"}
Asking == {"naming", "finding", "asking"}

\* How far a run has come by where it is: with every answer it is told of come
\* two messages.
Paced(a, e) ==
    /\ e.pc \in {"configure", "prompt", "loading"} => e.iteration = 0 /\ Len(e.history) = 0
    /\ e.pc = "loading" => Len(e.context) < Len(InputFiles[a])
    /\ e.pc = "loop" => Len(e.history) = 2 * e.iteration + 2
    /\ e.pc \in Asking \cup Working => e.iteration >= 1 /\ Len(e.history) = 2 * e.iteration
    /\ e.pc \in Working => e.text \in Answers
    /\ e.pc # "ended" => e.outcome # "completed"

\* Nothing has been executed of answers that are still to come.
NotYet(e, h) ==
    \A i \in DOMAIN h : i = 0 \/ i > e.iteration \/ (e.pc \in Asking /\ i = e.iteration) => h[i] = <<>>

SortedTags(s) == \A k \in 1..Len(s) - 1 : s[k] < s[k + 1]
Sorted(h) == \A i \in DOMAIN h : SortedTags(h[i])

\* Of the last answer the tags up to some place have been executed, none of
\* them a done tag.
UpTo(a, text, did) ==
    /\ \A at \in Range(did) : \A q \in Invocations(Tools[a], text) : q < at => q \in Range(did)
    /\ DoneTags(a, text) \cap Range(did) = {}

\* While an agent works the others are what it has still to do, and its feedback
\* has what it has done.
Splits(a, text, did, todo) ==
    /\ Range(did) \cup todo = Invocations(Tools[a], text)
    /\ \A p \in Range(did), q \in todo : p < q
Reports(text, did, results) ==
    /\ Len(results) = Len(did)
    /\ \A k \in 1..Len(did) : results[k].tool = text[did[k]].tool
WorksOn(a, e, h) ==
    e.pc \in Working => /\ Splits(a, e.text, h[e.iteration], e.todo)
                        /\ Reports(e.text, h[e.iteration], e.output)

\* What the model has been told of an answer is what was done of it: everything.
TellsAll(a, text, did, feedback) ==
    /\ Range(did) = Invocations(Tools[a], text) /\ DoneTags(a, text) = {}
    /\ IF feedback.role = "user" THEN Invocations(Tools[a], text) = {}
       ELSE [k \in DOMAIN feedback.results |-> feedback.results[k].tool] =
              [k \in DOMAIN did |-> text[did[k]].tool]
Told(a, e, h) ==
    \A i \in 1..e.iteration : 2 * i + 2 <= Len(e.history) =>
        TellsAll(a, e.history[2 * i + 1].text, h[i], e.history[2 * i + 2])

Completes(a, text, did) ==
    \E at \in DoneTags(a, text) :
        Range(did) = {q \in Invocations(Tools[a], text) : q < at}
Completed(a, e, h) == e.outcome = "completed" => Completes(a, e.text, h[e.iteration])

\* What is shown of a file is there, or was.
True(r) == r.line = None \/ r.line \in Held(r.path) \ {Absent}
ShowsTrue(e) ==
    /\ \A r \in Range(e.context) : True(r)
    /\ \A r \in Range(e.output) : r.tool = "read_file" => True(r)

Sound(a, e, h) ==
    /\ Typed(a, e, h) /\ Paced(a, e) /\ NotYet(e, h) /\ Sorted(h)
    /\ UpTo(a, e.text, h[e.iteration]) /\ WorksOn(a, e, h)
    /\ Told(a, e, h) /\ Completed(a, e, h) /\ ShowsTrue(e)

-----------------------------------------------------------------------------
(* What the steps of an agent do to its engine *)

\* What a sequence is after one more element.
LEMMA SeqFacts ==
    ASSUME NEW S, NEW s \in Seq(S), NEW x \in S
    PROVE  /\ Append(s, x) \in Seq(S) /\ Len(Append(s, x)) = Len(s) + 1
           /\ Append(s, x)[Len(s) + 1] = x
           /\ \A i \in 1..Len(s) : Append(s, x)[i] = s[i]
           /\ Range(s) \subseteq S /\ Range(Append(s, x)) = Range(s) \cup {x}
           /\ \A i \in 1..Len(s) : s[i] \in Range(s)
<1>1. /\ Append(s, x) \in Seq(S) /\ Len(Append(s, x)) = Len(s) + 1 /\ Len(s) \in Nat
      /\ Append(s, x)[Len(s) + 1] = x
      /\ \A i \in 1..Len(s) : Append(s, x)[i] = s[i] /\ s[i] \in S
      /\ DOMAIN s = 1..Len(s) /\ DOMAIN Append(s, x) = 1..(Len(s) + 1)
  OBVIOUS
<1>2. Range(s) \subseteq S /\ \A i \in 1..Len(s) : s[i] \in Range(s)
  BY <1>1 DEF Range
<1>3. Range(Append(s, x)) = Range(s) \cup {x}
  BY <1>1 DEF Range
<1>4. QED
  BY <1>1, <1>2, <1>3

\* The empty sequence.
LEMMA EmptyFacts ==
    /\ \A S : <<>> \in Seq(S)
    /\ Len(<<>>) = 0 /\ Range(<<>>) = {} /\ SortedTags(<<>>)
BY DEF Range, SortedTags

Ended(e, outcome) ==
    [Engine EXCEPT !.pc = "ended", !.outcome = outcome, !.text = e.text,
                   !.iteration = e.iteration, !.history = e.history]

\* A run that ends leaves what it has done as it is.
LEMMA EndsSound ==
    ASSUME NEW a \in Agents, NEW e, NEW h, Sound(a, e, h),
           NEW outcome \in Outcomes, outcome = "completed" => Completes(a, e.text, h[e.iteration])
    PROVE  Sound(a, Ended(e, outcome), h)
<1> DEFINE f == Ended(e, outcome)
<1>1. /\ e.iteration \in Nat /\ e.text \in Answers \cup {<<>>} /\ e.history \in Seq(Message)
  BY DEF Sound, Typed, EngineType
<1>2. Engine \in EngineType
  BY EmptyFacts DEF Engine, EngineType, Pcs, Outcomes
<1>3. /\ f \in EngineType /\ f.pc = "ended" /\ f.iteration = e.iteration /\ f.text = e.text
      /\ f.history = e.history /\ f.outcome = outcome
      /\ f.context = Engine.context /\ f.output = Engine.output
  BY <1>1, <1>2 DEF Ended, EngineType, Pcs
<1> HIDE DEF f
<1>4. Typed(a, f, h)
  BY <1>3 DEF Sound, Typed
<1>5. Paced(a, f) /\ WorksOn(a, f, h)
  BY <1>3 DEF Paced, WorksOn, Asking, Working
<1>6. NotYet(f, h)
  BY <1>3 DEF Sound, NotYet, Asking
<1>7. Told(a, f, h) /\ Completed(a, f, h) /\ UpTo(a, f.text, h[f.iteration])
  BY <1>3 DEF Sound, Told, Completed
<1>8. ShowsTrue(f)
  BY <1>3, EmptyFacts DEF ShowsTrue, Engine
<1>9. QED
  BY <1>4, <1>5, <1>6, <1>7, <1>8 DEF Sound, f

\* A step to another place of the same turn.
LEMMA GoesSound ==
    ASSUME NEW a \in Agents, NEW e, NEW h, Sound(a, e, h),
           NEW pc \in Pcs, NEW provider \in Providers \cup {None}, NEW changes \in SUBSET Allowed,
           \/ e.pc = "configure" /\ pc = "prompt"
           \/ e.pc = "prompt" /\ pc = "loading" /\ Len(e.context) < Len(InputFiles[a])
           \/ e.pc \in Asking /\ pc \in Asking
           \/ e.pc \in Working /\ pc \in Working
    PROVE  Sound(a, [e EXCEPT !.pc = pc, !.provider = provider, !.changes = changes], h)
<1> DEFINE f == [e EXCEPT !.pc = pc, !.provider = provider, !.changes = changes]
<1>1. e \in EngineType
  BY DEF Sound, Typed
<1>2. /\ f \in EngineType /\ f.pc = pc /\ f.iteration = e.iteration /\ f.text = e.text
      /\ f.todo = e.todo /\ f.output = e.output /\ f.context = e.context
      /\ f.history = e.history /\ f.outcome = e.outcome
  BY <1>1 DEF EngineType
<1> HIDE DEF f
<1>3. Typed(a, f, h)
  BY <1>2 DEF Sound, Typed
<1>4. Paced(a, f)
  BY <1>2 DEF Sound, Paced, Asking, Working
<1>5. NotYet(f, h) /\ WorksOn(a, f, h)
  BY <1>2 DEF Sound, NotYet, WorksOn, Asking, Working
<1>6. Told(a, f, h) /\ Completed(a, f, h) /\ ShowsTrue(f)
  BY <1>2 DEF Sound, Told, Completed, ShowsTrue
<1>7. QED
  BY <1>2, <1>3, <1>4, <1>5, <1>6 DEF Sound, f

\* A file of the task has been looked at.
LEMMA LoadsSound ==
    ASSUME NEW a \in Agents, NEW e, NEW h, Sound(a, e, h), e.pc \in {"prompt", "loading"},
           NEW r \in Shown, True(r)
    PROVE  Sound(a, [e EXCEPT !.pc = "prompt", !.context = Append(@, r)], h)
<1> DEFINE f == [e EXCEPT !.pc = "prompt", !.context = Append(@, r)]
<1>1. e \in EngineType /\ e.context \in Seq(Shown)
  BY DEF Sound, Typed, EngineType
<1>2. Append(e.context, r) \in Seq(Shown) /\ Range(Append(e.context, r)) = Range(e.context) \cup {r}
  BY <1>1, SeqFacts
<1>3. /\ f \in EngineType /\ f.pc = "prompt" /\ f.iteration = e.iteration /\ f.text = e.text
      /\ f.todo = e.todo /\ f.output = e.output /\ f.context = Append(e.context, r)
      /\ f.history = e.history /\ f.outcome = e.outcome
  BY <1>1, <1>2 DEF EngineType, Pcs
<1> HIDE DEF f
<1>4. Typed(a, f, h)
  BY <1>3 DEF Sound, Typed
<1>5. Paced(a, f)
  BY <1>3 DEF Sound, Paced, Asking, Working
<1>6. NotYet(f, h) /\ WorksOn(a, f, h)
  BY <1>3 DEF Sound, NotYet, WorksOn, Asking, Working
<1>7. ShowsTrue(f)
  BY <1>2, <1>3 DEF Sound, ShowsTrue
<1>8. Told(a, f, h) /\ Completed(a, f, h)
  BY <1>3 DEF Sound, Told, Completed
<1>9. QED
  BY <1>3, <1>4, <1>5, <1>6, <1>7, <1>8 DEF Sound, f

\* The prompt has been built.
LEMMA PromptSound ==
    ASSUME NEW a \in Agents, NEW e, NEW h, Sound(a, e, h), e.pc = "prompt"
    PROVE  Sound(a, [e EXCEPT !.pc = "loop", !.context = <<>>,
                        !.history = <<[role |-> "system", tools |-> Tools[a], results |-> e.context],
                                      [role |-> "user"]>>], h)
<1> DEFINE history == <<[role |-> "system", tools |-> Tools[a], results |-> e.context],
                        [role |-> "user"]>>
           f == [e EXCEPT !.pc = "loop", !.context = <<>>, !.history = history]
<1>1. e \in EngineType /\ e.context \in Seq(Shown) /\ e.iteration = 0
  BY DEF Sound, Typed, EngineType, Paced
<1>2. history \in Seq(Message) /\ Len(history) = 2
  BY <1>1 DEF Message
<1> HIDE DEF history
<1>3. /\ f \in EngineType /\ f.pc = "loop" /\ f.iteration = 0 /\ f.text = e.text
      /\ f.todo = e.todo /\ f.output = e.output /\ f.context = <<>>
      /\ f.history = history /\ f.outcome = e.outcome
  BY <1>1, <1>2, EmptyFacts DEF EngineType, Pcs
<1> HIDE DEF f
<1>4. Typed(a, f, h)
  BY <1>1, <1>3 DEF Sound, Typed
<1>5. Paced(a, f)
  BY <1>2, <1>3 DEF Sound, Paced, Asking, Working
<1>6. NotYet(f, h) /\ WorksOn(a, f, h)
  BY <1>1, <1>3 DEF Sound, NotYet, WorksOn, Asking, Working
<1>7. ShowsTrue(f)
  BY <1>3, EmptyFacts DEF Sound, ShowsTrue
<1>8. Told(a, f, h) /\ Completed(a, f, h)
  BY <1>1, <1>3 DEF Sound, Told, Completed
<1>9. QED
  BY <1>1, <1>3, <1>4, <1>5, <1>6, <1>7, <1>8 DEF Sound, f, history

\* Another turn begins.
LEMMA TurnSound ==
    ASSUME NEW a \in Agents, NEW e, NEW h, Sound(a, e, h), e.pc = "loop",
           e.iteration < MaxIterations[a]
    PROVE  Sound(a, [e EXCEPT !.pc = "naming", !.iteration = @ + 1], h)
<1> DEFINE f == [e EXCEPT !.pc = "naming", !.iteration = @ + 1]
           now == e.iteration + 1
<1>1. e \in EngineType /\ e.iteration \in Nat /\ MaxIterations[a] \in Nat
  BY ReactAgentAssumption DEF Sound, Typed, EngineType
<1>2. now \in Nat /\ now <= MaxIterations[a] /\ now >= 1 /\ now > e.iteration
  BY <1>1
<1>3. /\ f \in EngineType /\ f.pc = "naming" /\ f.iteration = now /\ f.text = e.text
      /\ f.todo = e.todo /\ f.output = e.output /\ f.context = e.context
      /\ f.history = e.history /\ f.outcome = e.outcome
  BY <1>1, <1>2 DEF EngineType, Pcs
<1>4. Len(e.history) = 2 * now
  BY <1>1 DEF Sound, Paced
<1>5. now \in DOMAIN h /\ h[now] = <<>> /\ \A i \in DOMAIN h : i \in Nat /\ (i = 0 \/ i >= now => h[i] = <<>>)
  BY <1>1, <1>2 DEF Sound, Typed, NotYet
<1>6. \A i \in 1..now : 2 * i + 2 <= 2 * now => i \in 1..e.iteration
  BY <1>1
<1> HIDE DEF f, now
<1>7. Typed(a, f, h)
  BY <1>2, <1>3 DEF Sound, Typed
<1>8. Paced(a, f)
  BY <1>2, <1>3, <1>4 DEF Sound, Paced, Asking, Working
<1>9. NotYet(f, h) /\ WorksOn(a, f, h)
  BY <1>2, <1>3, <1>5 DEF NotYet, WorksOn, Asking, Working
<1>10. UpTo(a, f.text, h[f.iteration])
  BY <1>3, <1>5, EmptyFacts DEF UpTo
<1>11. Told(a, f, h) /\ Completed(a, f, h) /\ ShowsTrue(f)
  BY <1>3, <1>4, <1>6 DEF Sound, Told, Completed, ShowsTrue, Paced
<1>12. QED
  BY <1>7, <1>8, <1>9, <1>10, <1>11 DEF Sound, f

\* The model has answered.
LEMMA AnswersSound ==
    ASSUME NEW a \in Agents, NEW e, NEW h, Sound(a, e, h), e.pc = "asking", NEW text \in Answers
    PROVE  Sound(a, [e EXCEPT !.pc = "executing", !.text = text, !.output = <<>>,
                              !.todo = Invocations(Tools[a], text)], h)
<1> DEFINE f == [e EXCEPT !.pc = "executing", !.text = text, !.output = <<>>,
                          !.todo = Invocations(Tools[a], text)]
<1>1. e \in EngineType /\ e.iteration \in Nat /\ e.iteration <= MaxIterations[a] /\ MaxIterations[a] \in Nat
  BY ReactAgentAssumption DEF Sound, Typed, EngineType
<1>2. Invocations(Tools[a], text) \in SUBSET Place
  BY PlacesAre
<1>3. /\ f \in EngineType /\ f.pc = "executing" /\ f.iteration = e.iteration /\ f.text = text
      /\ f.todo = Invocations(Tools[a], text) /\ f.output = <<>> /\ f.context = e.context
      /\ f.history = e.history /\ f.outcome = e.outcome
  BY <1>1, <1>2, EmptyFacts DEF EngineType, Pcs
<1>4. h[e.iteration] = <<>>
  BY <1>1 DEF Sound, Typed, NotYet, Asking
<1> HIDE DEF f
<1>5. Typed(a, f, h)
  BY <1>3 DEF Sound, Typed
<1>6. Paced(a, f)
  BY <1>3 DEF Sound, Paced, Asking, Working
<1>7. NotYet(f, h)
  BY <1>3 DEF Sound, NotYet, Asking
<1>8. UpTo(a, text, h[e.iteration]) /\ WorksOn(a, f, h)
  BY <1>3, <1>4, EmptyFacts DEF UpTo, WorksOn, Splits, Reports
<1>9. Told(a, f, h) /\ Completed(a, f, h)
  BY <1>3 DEF Sound, Told, Completed, Paced
<1>10. ShowsTrue(f)
  BY <1>3, EmptyFacts DEF Sound, ShowsTrue
<1>11. QED
  BY <1>3, <1>5, <1>6, <1>7, <1>8, <1>9, <1>10 DEF Sound, f

\* The first of the tags still to be executed has been.
LEMMA SucceedsSound ==
    ASSUME NEW a \in Agents, NEW e, NEW h, Sound(a, e, h), e.pc \in Working, e.todo # {},
           e.text[First(e.todo)].tool # "done",
           NEW r \in Result, r.tool = e.text[First(e.todo)].tool,
           r.tool = "read_file" => True(r)
    PROVE  Sound(a, [e EXCEPT !.pc = "executing", !.todo = @ \ {First(@)}, !.changes = {}, !.output = Append(@, r)],
                 [h EXCEPT ![e.iteration] = Append(@, First(e.todo))])
<1> DEFINE at == First(e.todo)
           now == e.iteration
           did == h[now]
           after == Append(did, at)
           f == [e EXCEPT !.pc = "executing", !.todo = @ \ {First(@)}, !.changes = {}, !.output = Append(@, r)]
           g == [h EXCEPT ![now] = after]
           found == Invocations(Tools[a], e.text)
<1>1. /\ e \in EngineType /\ now \in Nat /\ now <= MaxIterations[a] /\ MaxIterations[a] \in Nat
      /\ now >= 1 /\ e.output \in Seq(Result) /\ e.todo \in SUBSET Place
      /\ Len(e.history) = 2 * now /\ e.text \in Answers /\ e.outcome # "completed"
  BY ReactAgentAssumption DEF Sound, Typed, EngineType, Paced, Working
<1>2. now \in DOMAIN h /\ did \in Seq(Place) /\ h \in [0..MaxIterations[a] -> Seq(Place)]
  BY <1>1 DEF Sound, Typed
<1>3. at \in e.todo /\ at \in Place /\ \A q \in e.todo \ {at} : at < q
  BY <1>1, FirstIs
<1>4. /\ after \in Seq(Place) /\ Len(after) = Len(did) + 1 /\ after[Len(did) + 1] = at
      /\ Len(did) \in Nat /\ \A k \in 1..Len(did) : after[k] = did[k] /\ did[k] \in Range(did)
      /\ Range(after) = Range(did) \cup {at} /\ Range(did) \subseteq Place
  BY <1>2, <1>3, SeqFacts
<1>5. /\ Append(e.output, r) \in Seq(Result) /\ Len(Append(e.output, r)) = Len(e.output) + 1
      /\ Append(e.output, r)[Len(e.output) + 1] = r
      /\ \A k \in 1..Len(e.output) : Append(e.output, r)[k] = e.output[k]
      /\ Range(Append(e.output, r)) = Range(e.output) \cup {r}
  BY <1>1, SeqFacts
<1>6. Splits(a, e.text, did, e.todo) /\ Reports(e.text, did, e.output)
  BY DEF Sound, WorksOn
<1>7. found \subseteq Place
  BY <1>1, PlacesAre
<1>8. /\ f \in EngineType /\ f.pc = "executing" /\ f.iteration = now /\ f.text = e.text
      /\ f.todo = e.todo \ {at} /\ f.output = Append(e.output, r) /\ f.context = e.context
      /\ f.history = e.history /\ f.outcome = e.outcome
  BY <1>1, <1>5 DEF EngineType, Pcs
<1>9. g \in [0..MaxIterations[a] -> Seq(Place)] /\ g[now] = after /\ \A i \in DOMAIN h : i # now => g[i] = h[i]
  BY <1>2, <1>4
<1> HIDE DEF at, after, f, g, found
<1>10. Splits(a, e.text, after, e.todo \ {at})
  <2>1. Range(did) \cup e.todo = found /\ \A p \in Range(did), q \in e.todo : p < q
    BY <1>6 DEF Splits, found
  <2> HIDE DEF did
  <2>2. Range(after) \cup (e.todo \ {at}) = found
    BY <1>3, <1>4, <2>1
  <2>3. \A p \in Range(after), q \in e.todo \ {at} : p < q
    BY <1>3, <1>4, <2>1
  <2>4. QED
    BY <2>2, <2>3 DEF Splits, found
<1>11. UpTo(a, e.text, after)
  <2>1. /\ \A p \in Range(did) : \A q \in found : q < p => q \in Range(did)
        /\ DoneTags(a, e.text) \cap Range(did) = {}
    BY DEF Sound, UpTo, found
  <2>2. found = Range(did) \cup e.todo
    BY <1>6 DEF Splits, found
  <2> HIDE DEF did
  <2>3. ASSUME NEW q \in found, q < at PROVE q \in Range(after)
    <3>1. q \in Place
      BY <1>7
    <3>2. ~(at < q) /\ q # at
      BY <1>3, <2>3, <3>1 DEF Place
    <3>3. q \in Range(did)
      BY <1>3, <2>2, <2>3, <3>2
    <3>4. QED
      BY <1>4, <3>3
  <2>4. \A p \in Range(after) : \A q \in found : q < p => q \in Range(after)
    BY <1>4, <2>1, <2>3
  <2>5. DoneTags(a, e.text) \cap Range(after) = {}
    BY <1>4, <2>1 DEF DoneTags, at
  <2>6. QED
    BY <2>4, <2>5 DEF UpTo, found
<1>12. Reports(e.text, after, f.output)
  <2>1. Len(e.output) = Len(did) /\ \A k \in 1..Len(did) : e.output[k].tool = e.text[did[k]].tool
    BY <1>6 DEF Reports
  <2>2. r.tool = e.text[at].tool
    BY DEF at
  <2> HIDE DEF did
  <2>3. ASSUME NEW k \in 1..Len(after) PROVE f.output[k].tool = e.text[after[k]].tool
    <3>1. CASE k \in 1..Len(did)
      BY <1>4, <1>5, <1>8, <2>1, <3>1
    <3>2. CASE k = Len(did) + 1
      BY <1>4, <1>5, <1>8, <2>1, <2>2, <3>2
    <3>3. QED
      BY <1>4, <3>1, <3>2
  <2>4. QED
    BY <1>4, <1>5, <1>8, <2>1, <2>3 DEF Reports
<1>13. SortedTags(after)
  <2>1. SortedTags(did)
    BY <1>2 DEF Sound, Sorted
  <2>2. \A p \in Range(did) : p < at
    BY <1>3, <1>6 DEF Splits
  <2> HIDE DEF did
  <2>3. ASSUME NEW k \in 1..Len(after) - 1 PROVE after[k] < after[k + 1]
    <3>1. CASE k \in 1..Len(did) - 1
      BY <1>4, <2>1, <3>1 DEF SortedTags
    <3>2. CASE k = Len(did) /\ k >= 1
      BY <1>4, <2>2, <3>2
    <3>3. QED
      BY <1>4, <3>1, <3>2
  <2>4. QED
    BY <2>3 DEF SortedTags
<1>14. Sorted(g)
  BY <1>2, <1>9, <1>13 DEF Sound, Sorted
<1>15. Typed(a, f, g) /\ Paced(a, f) /\ NotYet(f, g)
  <2>1. Typed(a, f, g)
    BY <1>1, <1>8, <1>9 DEF Typed
  <2>2. Paced(a, f)
    BY <1>1, <1>8 DEF Paced, Asking, Working
  <2>3. \A i \in DOMAIN g : i = 0 \/ i > now => i # now /\ i \in DOMAIN h /\ h[i] = <<>>
    BY <1>1, <1>2, <1>9 DEF Sound, NotYet
  <2>4. NotYet(f, g)
    BY <1>8, <1>9, <2>3 DEF NotYet, Asking
  <2>5. QED
    BY <2>1, <2>2, <2>4
<1>16. Told(a, f, g) /\ Completed(a, f, g)
  <2>1. \A i \in 1..now : 2 * i + 2 <= 2 * now => i # now /\ i \in DOMAIN h
    BY <1>1, <1>2
  <2>2. QED
    BY <1>1, <1>8, <1>9, <2>1 DEF Sound, Told, Completed
<1>17. ShowsTrue(f)
  BY <1>5, <1>8 DEF Sound, ShowsTrue
<1>18. WorksOn(a, f, g)
  BY <1>8, <1>9, <1>10, <1>12 DEF WorksOn
<1>19. QED
  <2>1. Sound(a, f, g)
    BY <1>8, <1>9, <1>11, <1>14, <1>15, <1>16, <1>17, <1>18 DEF Sound
  <2>2. QED
    BY <2>1 DEF f, g, after, at, did, now

\* What a sequence is after two more elements.
LEMMA TwoMore ==
    ASSUME NEW S, NEW s \in Seq(S), NEW x \in S, NEW y \in S
    PROVE  /\ s \o <<x, y>> \in Seq(S) /\ Len(s \o <<x, y>>) = Len(s) + 2
           /\ (s \o <<x, y>>)[Len(s) + 1] = x /\ (s \o <<x, y>>)[Len(s) + 2] = y
           /\ \A i \in 1..Len(s) : (s \o <<x, y>>)[i] = s[i]
<1>1. <<x, y>> \in Seq(S) /\ Len(<<x, y>>) = 2 /\ Len(s) \in Nat
  OBVIOUS
<1>2. QED
  BY <1>1

\* All tags have been executed, and the model is told.
LEMMA TellsSound ==
    ASSUME NEW a \in Agents, NEW e, NEW h, Sound(a, e, h), e.pc = "executing", e.todo = {}
    PROVE  LET feedback == IF e.output = <<>> THEN [role |-> "user"]
                           ELSE [role |-> "tool", results |-> e.output]
           IN  Sound(a, [e EXCEPT !.pc = "loop", !.provider = None,
                            !.history = @ \o <<[role |-> "assistant", text |-> e.text], feedback>>], h)
<1> DEFINE feedback == IF e.output = <<>> THEN [role |-> "user"]
                       ELSE [role |-> "tool", results |-> e.output]
           said == [role |-> "assistant", text |-> e.text]
           history == e.history \o <<said, feedback>>
           f == [e EXCEPT !.pc = "loop", !.provider = None, !.history = history]
           now == e.iteration
           did == h[now]
<1>1. /\ e \in EngineType /\ now \in Nat /\ now <= MaxIterations[a] /\ MaxIterations[a] \in Nat
      /\ now >= 1 /\ e.output \in Seq(Result) /\ e.history \in Seq(Message)
      /\ Len(e.history) = 2 * now /\ e.text \in Answers /\ e.outcome # "completed"
  BY ReactAgentAssumption DEF Sound, Typed, EngineType, Paced, Working
<1>2. said \in Message /\ feedback \in Message
  BY <1>1 DEF Message
<1>3. said.text = e.text
  OBVIOUS
<1>4. did \in Seq(Place)
  BY <1>1 DEF Sound, Typed
<1>5. /\ Splits(a, e.text, did, {}) /\ Reports(e.text, did, e.output)
      /\ UpTo(a, e.text, did)
  BY DEF Sound, WorksOn, Working
<1> HIDE DEF said
<1>6. TellsAll(a, e.text, did, feedback)
  <2> HIDE DEF did
  <2>1. Range(did) = Invocations(Tools[a], e.text)
    BY <1>5 DEF Splits
  <2>2. DoneTags(a, e.text) = {}
    BY <1>5, <2>1 DEF UpTo, DoneTags
  <2>3. CASE e.output = <<>>
    <3>1. Len(did) = 0
      BY <1>5, <2>3, EmptyFacts DEF Reports
    <3>2. Range(did) = {}
      BY <1>4, <3>1 DEF Range
    <3>3. feedback.role = "user"
      BY <2>3
    <3>4. QED
      BY <2>1, <2>2, <3>2, <3>3 DEF TellsAll
  <2>4. CASE e.output # <<>>
    <3>1. feedback.role = "tool" /\ feedback.results = e.output
      BY <2>4
    <3>2. DOMAIN e.output = DOMAIN did /\ DOMAIN did = 1..Len(did)
      BY <1>1, <1>4, <1>5 DEF Reports
    <3>3. [k \in DOMAIN e.output |-> e.output[k].tool] = [k \in DOMAIN did |-> e.text[did[k]].tool]
      BY <1>5, <3>2 DEF Reports
    <3>4. QED
      BY <2>1, <2>2, <3>1, <3>3 DEF TellsAll
  <2>5. QED
    BY <2>3, <2>4
<1> HIDE DEF feedback
<1>7. /\ history \in Seq(Message) /\ Len(history) = 2 * now + 2
      /\ history[2 * now + 1] = said /\ history[2 * now + 2] = feedback
      /\ \A i \in 1..(2 * now) : history[i] = e.history[i]
  <2> DEFINE old == e.history
  <2>3. old \in Seq(Message) /\ history = old \o <<said, feedback>>
    BY <1>1
  <2> HIDE DEF history, old
  <2>4. /\ old \o <<said, feedback>> \in Seq(Message)
        /\ Len(old \o <<said, feedback>>) = Len(old) + 2
        /\ (old \o <<said, feedback>>)[Len(old) + 1] = said
        /\ (old \o <<said, feedback>>)[Len(old) + 2] = feedback
        /\ \A i \in 1..Len(old) : (old \o <<said, feedback>>)[i] = old[i]
    BY <1>2, <2>3, TwoMore
  <2>1. /\ history \in Seq(Message) /\ Len(history) = Len(e.history) + 2
        /\ history[Len(e.history) + 1] = said /\ history[Len(e.history) + 2] = feedback
        /\ \A i \in 1..Len(e.history) : history[i] = e.history[i]
    BY <2>3, <2>4 DEF old
  <2>2. QED
    BY <1>1, <2>1
<1> HIDE DEF history
<1>8. /\ f \in EngineType /\ f.pc = "loop" /\ f.iteration = now /\ f.text = e.text
      /\ f.todo = e.todo /\ f.output = e.output /\ f.context = e.context
      /\ f.history = history /\ f.outcome = e.outcome
  BY <1>1, <1>7 DEF EngineType, Pcs
<1> HIDE DEF f
<1>9. Typed(a, f, h)
  BY <1>8 DEF Sound, Typed
<1>10. Paced(a, f)
  BY <1>1, <1>7, <1>8 DEF Paced, Asking, Working
<1>11. NotYet(f, h) /\ WorksOn(a, f, h)
  BY <1>8 DEF Sound, NotYet, WorksOn, Asking, Working
<1>12. ASSUME NEW i \in 1..now
       PROVE  TellsAll(a, f.history[2 * i + 1].text, h[i], f.history[2 * i + 2])
  <2>1. CASE i = now
    BY <1>3, <1>6, <1>7, <1>8, <2>1
  <2>2. CASE i # now
    <3>1. i \in Nat /\ 2 * i + 2 <= 2 * now /\ 2 * i + 1 \in 1..(2 * now) /\ 2 * i + 2 \in 1..(2 * now)
      BY <1>1, <2>2
    <3>2. f.history[2 * i + 1] = e.history[2 * i + 1] /\ f.history[2 * i + 2] = e.history[2 * i + 2]
      BY <1>7, <1>8, <3>1
    <3>3. TellsAll(a, e.history[2 * i + 1].text, h[i], e.history[2 * i + 2])
      BY <1>1, <3>1 DEF Sound, Told
    <3>4. QED
      BY <3>2, <3>3
  <2>3. QED
    BY <2>1, <2>2
<1>13. Told(a, f, h) /\ Completed(a, f, h) /\ ShowsTrue(f)
  BY <1>1, <1>8, <1>12 DEF Sound, Told, Completed, ShowsTrue
<1>14. QED
  <2>1. Sound(a, f, h)
    BY <1>8, <1>9, <1>10, <1>11, <1>13 DEF Sound
  <2>2. QED
    BY <2>1 DEF f, history, said, feedback

-----------------------------------------------------------------------------
(* The agents with the files *)

\* What commands do are changes to files.
LEMMA AllowedAre == Allowed \subseteq Change
BY EffectsAssumption DEF Allowed, ValidCommand

FilesSound ==
    /\ opened \subseteq Agents
    /\ files \in [Paths -> Contents \cup {Absent, Empty}]
    /\ \A p \in Paths : files[p] \in Held(p)

AgentsInv ==
    /\ FilesSound
    /\ providers \subseteq Providers /\ default \in Providers \cup {None}
    /\ run \in [Agents -> EngineType] /\ ran = [a \in Agents |-> ran[a]]
    /\ \A a \in Agents : Sound(a, run[a], ran[a])

\* A step of one agent.
Moved(a) ==
    /\ Sound(a, run'[a], ran'[a])
    /\ run' = [run EXCEPT ![a] = run'[a]] /\ ran' = [ran EXCEPT ![a] = ran'[a]]

\* An agent whose engine changes leaves the others alone.
LEMMA SetMoves ==
    ASSUME AgentsInv, NEW a \in Agents, NEW e, Set(a, e), Sound(a, e, ran[a]), UNCHANGED ran
    PROVE  Moved(a) /\ run'[a] = e
<1>1. run' = [run EXCEPT ![a] = e] /\ run \in [Agents -> EngineType]
  BY DEF Set, AgentsInv
<1>2. run'[a] = e
  BY <1>1
<1>3. ran' = [ran EXCEPT ![a] = ran'[a]]
  BY DEF AgentsInv
<1>4. QED
  BY <1>1, <1>2, <1>3 DEF Moved

\* A run that ends, completed by a done tag only.
LEMMA EndsMoves ==
    ASSUME AgentsInv, NEW a \in Agents, UNCHANGED ran,
           NEW outcome \in Outcomes, Ends(a, outcome),
           outcome = "completed" => Completes(a, run[a].text, ran[a][run[a].iteration])
    PROVE  Moved(a) /\ run'[a].pc = "ended"
<1>1. Sound(a, Ended(run[a], outcome), ran[a])
  BY EndsSound DEF AgentsInv
<1>2. Set(a, Ended(run[a], outcome))
  BY DEF Ends, Ended
<1>3. Moved(a) /\ run'[a] = Ended(run[a], outcome)
  BY <1>1, <1>2, SetMoves
<1>4. Ended(run[a], outcome).pc = "ended"
  BY DEF Ended, Engine
<1>5. QED
  BY <1>3, <1>4

\* An agent goes on between places that rely on the same.
LEMMA GotoMoves ==
    ASSUME AgentsInv, NEW a \in Agents, UNCHANGED ran, NEW pc \in Pcs, Goto(a, pc),
           \/ run[a].pc = "configure" /\ pc = "prompt"
           \/ run[a].pc = "prompt" /\ pc = "loading" /\ Len(run[a].context) < Len(InputFiles[a])
           \/ run[a].pc \in Asking /\ pc \in Asking
           \/ run[a].pc \in Working /\ pc \in Working
    PROVE  Moved(a) /\ run'[a] = [run[a] EXCEPT !.pc = pc] /\ run'[a].pc = pc
<1> DEFINE e == run[a]
<1>1. e \in EngineType /\ Sound(a, e, ran[a])
  BY DEF AgentsInv
<1> DEFINE f == [e EXCEPT !.pc = pc, !.provider = e.provider, !.changes = e.changes]
<1>2. [e EXCEPT !.pc = pc] = f
  BY <1>1 DEF EngineType
<1>3. e.provider \in Providers \cup {None} /\ e.changes \in SUBSET Allowed /\ f.pc = pc
  BY <1>1 DEF EngineType
<1> HIDE DEF e
<1>4. Sound(a, f, ran[a])
  BY <1>1, <1>3, GoesSound DEF e
<1> HIDE DEF f
<1>5. QED
  BY <1>2, <1>3, <1>4, SetMoves DEF Goto, e

\* A command starts or goes on.
LEMMA RunsMoves ==
    ASSUME AgentsInv, NEW a \in Agents, UNCHANGED ran, NEW changes \in SUBSET Allowed,
           run[a].pc \in Working, Set(a, [run[a] EXCEPT !.pc = "running", !.changes = changes])
    PROVE  Moved(a)
<1> DEFINE e == run[a]
           f == [e EXCEPT !.pc = "running", !.provider = e.provider, !.changes = changes]
<1>1. e \in EngineType /\ Sound(a, e, ran[a])
  BY DEF AgentsInv
<1>2. [e EXCEPT !.pc = "running", !.changes = changes] = f /\ e.provider \in Providers \cup {None}
  BY <1>1 DEF EngineType
<1>3. "running" \in Pcs /\ "running" \in Working
  BY DEF Pcs, Working
<1> HIDE DEF e
<1>4. Sound(a, f, ran[a])
  BY <1>1, <1>2, <1>3, GoesSound DEF e
<1> HIDE DEF f
<1>5. QED
  BY <1>2, <1>4, SetMoves DEF e

\* A tool succeeds, and a file that is read is one there was.
LEMMA SucceedsMoves ==
    ASSUME AgentsInv, NEW a \in Agents, NEW pc \in Working,
           NEW tools, At(a, pc, tools), "done" \notin tools,
           NEW line \in Lines, Succeeds(a, line),
           Current(a).tool = "read_file" => line \in Held(Current(a).path) \ {Absent}
    PROVE  Moved(a) /\ run'[a].pc = "executing"
<1> DEFINE e == run[a]
           h == ran[a]
           tag == e.text[First(e.todo)]
           r == [tool |-> tag.tool, path |-> tag.path, line |-> line]
           f == [e EXCEPT !.pc = "executing", !.todo = @ \ {First(@)}, !.changes = {}, !.output = Append(@, r)]
           g == [h EXCEPT ![e.iteration] = Append(@, First(e.todo))]
<1>1. /\ e \in EngineType /\ Sound(a, e, h) /\ e.pc \in Working /\ e.todo # {}
      /\ e.todo \subseteq Place /\ Current(a) = tag /\ tag.tool # "done"
  BY DEF AgentsInv, At, Current, EngineType
<1>2. First(e.todo) \in e.todo
  BY <1>1, FirstIs
<1>3. e.text \in Answers /\ First(e.todo) \in Invocations(Tools[a], e.text)
  BY <1>1, <1>2 DEF Sound, WorksOn, Splits, Paced
<1>4. tag \in Tags
  BY <1>3 DEF Tags
<1>5. r \in Result
  BY <1>4 DEF Result
<1>6. r.tool = tag.tool /\ r.path = tag.path /\ r.line = line
  OBVIOUS
<1>7. run' = [run EXCEPT ![a] = f]
  BY DEF Succeeds, Set, Current
<1>8. ran' = [ran EXCEPT ![a] = g]
  BY DEF Succeeds, AgentsInv
<1>9. f.pc = "executing"
  BY <1>1 DEF EngineType
<1> HIDE DEF r
<1>10. r.tool = "read_file" => True(r)
  BY <1>1, <1>6 DEF True
<1>11. Sound(a, f, g)
  <2>1. r.tool = e.text[First(e.todo)].tool /\ e.text[First(e.todo)].tool # "done"
    BY <1>1, <1>6
  <2> HIDE DEF e, h, tag
  <2>2. QED
    BY <1>1, <1>5, <1>10, <2>1, SucceedsSound
<1> HIDE DEF f, g
<1>12. run'[a] = f /\ ran'[a] = g
  BY <1>7, <1>8 DEF AgentsInv
<1>13. QED
  BY <1>7, <1>8, <1>9, <1>11, <1>12 DEF Moved

\* What an agent executes is a tag of an answer.
LEMMA CurrentIs ==
    ASSUME AgentsInv, NEW a \in Agents, NEW pc \in Working, NEW tools, At(a, pc, tools)
    PROVE  /\ Current(a) \in Tags
           /\ Current(a).tool \in {"read_file", "write_file"} => Current(a).path \in Paths
           /\ Current(a).tool = "write_file" => Current(a).content \in Contents
<1> DEFINE e == run[a]
<1>1. /\ Sound(a, e, ran[a]) /\ e.pc \in Working /\ e.todo # {} /\ e.todo \subseteq Place
  BY DEF AgentsInv, At, EngineType
<1>2. First(e.todo) \in e.todo
  BY <1>1, FirstIs
<1>3. e.text \in Answers /\ First(e.todo) \in Invocations(Tools[a], e.text)
  BY <1>1, <1>2 DEF Sound, WorksOn, Splits, Paced
<1>4. First(e.todo) \in 1..Len(e.text)
  BY <1>3, PlacesAre
<1>5. QED
  BY <1>3, <1>4, AnswersAssumption DEF Tags, Current

\* Most steps leave the files alone.
LEMMA SameFiles ==
    ASSUME AgentsInv, UNCHANGED disk
    PROVE  FilesSound'
BY DEF FilesSound, AgentsInv, Held, disk

\* The steps before the first question.
LEMMA PreparesMoves ==
    ASSUME AgentsInv, NEW a \in Agents,
           \/ Misconfigured(a) \/ Configure(a) \/ CheckContext(a) \/ LoadContext(a) \/ BuildPrompt(a)
    PROVE  Moved(a) /\ FilesSound'
<1>1. /\ run[a] \in EngineType /\ Sound(a, run[a], ran[a]) /\ files \in [Paths -> Contents \cup {Absent, Empty}]
      /\ \A p \in Paths : files[p] \in Held(p)
  BY DEF AgentsInv, FilesSound
<1>2. CASE Misconfigured(a)
  <2>1. Moved(a) /\ run'[a].pc = "ended"
    BY <1>2, EndsMoves DEF Misconfigured, Outcomes
  <2>2. QED
    BY <1>2, <2>1, SameFiles DEF Misconfigured
<1>3. CASE Configure(a)
  <2>1. Moved(a) /\ run'[a].pc = "prompt"
    BY <1>3, GotoMoves DEF Configure, Pcs
  <2>2. QED
    BY <1>3, <2>1, SameFiles DEF Configure
<1>4. ASSUME NEW line \in Lines, Loaded(a, line), UNCHANGED <<disk, ran>>,
             run[a].pc \in {"prompt", "loading"}, Len(run[a].context) < Len(InputFiles[a]),
             line = None \/ line \in Held(NextFile(a)) \ {Absent}
      PROVE  Moved(a) /\ FilesSound'
  <2> DEFINE r == [path |-> NextFile(a), line |-> line]
  <2>1. NextFile(a) \in Paths
    <3>1. Len(run[a].context) \in Nat /\ InputFiles[a] \in Seq(Paths)
      BY <1>1, ReactAgentAssumption DEF EngineType
    <3>2. QED
      BY <1>4, <3>1 DEF NextFile
  <2>2. r \in Shown /\ True(r)
    BY <1>4, <2>1 DEF Shown, True
  <2> HIDE DEF r
  <2> DEFINE f == [run[a] EXCEPT !.pc = "prompt", !.context = Append(@, r)]
  <2>3. Sound(a, f, ran[a])
    BY <1>1, <1>4, <2>2, LoadsSound
  <2>4. f.pc = "prompt"
    BY <1>1 DEF EngineType
  <2>5. Set(a, f)
    BY <1>4 DEF Loaded, r
  <2> HIDE DEF f
  <2>6. Moved(a) /\ run'[a] = f
    BY <1>4, <2>3, <2>5, SetMoves
  <2>7. QED
    BY <1>4, <2>4, <2>6, SameFiles
<1>5. CASE CheckContext(a)
  <2>1. CASE Loaded(a, None)
    BY <1>4, <1>5, <2>1 DEF CheckContext, Lines
  <2>2. CASE Goto(a, "loading") /\ ~(~ValidPath(NextFile(a)) \/ TooLargeOrAbsent(NextFile(a)))
    BY <1>5, <2>2, GotoMoves, SameFiles DEF CheckContext, Pcs
  <2>3. QED
    BY <1>5, <2>1, <2>2 DEF CheckContext
<1>6. CASE LoadContext(a)
  <2>1. Len(run[a].context) < Len(InputFiles[a])
    BY <1>1, <1>6 DEF LoadContext, Sound, Paced
  <2>2. CASE Loaded(a, None)
    BY <1>4, <1>6, <2>1, <2>2 DEF LoadContext, Lines
  <2>3. CASE files[NextFile(a)] # Absent /\ Loaded(a, files[NextFile(a)])
    <3>1. NextFile(a) \in Paths
      <4>1. Len(run[a].context) \in Nat /\ InputFiles[a] \in Seq(Paths)
        BY <1>1, ReactAgentAssumption DEF EngineType
      <4>2. QED
        BY <2>1, <4>1 DEF NextFile
    <3>2. files[NextFile(a)] \in Held(NextFile(a)) \ {Absent} /\ files[NextFile(a)] \in Lines
      BY <1>1, <2>3, <3>1 DEF Lines
    <3>3. QED
      BY <1>4, <1>6, <2>1, <2>3, <3>2 DEF LoadContext
  <2>4. QED
    BY <1>6, <2>2, <2>3 DEF LoadContext
<1>7. CASE BuildPrompt(a)
  <2> DEFINE f == [run[a] EXCEPT !.pc = "loop", !.context = <<>>,
                      !.history = <<[role |-> "system", tools |-> Tools[a], results |-> run[a].context],
                                    [role |-> "user"]>>]
  <2>1. Sound(a, f, ran[a])
    BY <1>1, <1>7, PromptSound DEF BuildPrompt
  <2>2. f.pc = "loop"
    BY <1>1 DEF EngineType
  <2>3. Set(a, f)
    BY <1>7 DEF BuildPrompt
  <2> HIDE DEF f
  <2>4. Moved(a) /\ run'[a] = f
    BY <1>7, <2>1, <2>3, SetMoves DEF BuildPrompt
  <2>5. QED
    BY <1>7, <2>2, <2>4, SameFiles DEF BuildPrompt
<1>8. QED
  BY <1>2, <1>3, <1>5, <1>6, <1>7

\* The steps between the executions of two answers.
LEMMA LoopMoves ==
    ASSUME AgentsInv, NEW a \in Agents,
           CheckLimits(a) \/ DefaultName(a) \/ FindProvider(a) \/ Answer(a) \/ UpdateState(a)
    PROVE  Moved(a) /\ FilesSound'
<1>1. run[a] \in EngineType /\ Sound(a, run[a], ran[a]) /\ default \in Providers \cup {None}
  BY DEF AgentsInv
<1>2. ASSUME NEW outcome \in {"error", "timeout", "iterations"}, Ends(a, outcome), UNCHANGED <<disk, ran>>
      PROVE  Moved(a) /\ FilesSound'
  <2>1. Moved(a) /\ run'[a].pc = "ended"
    BY <1>2, EndsMoves DEF Outcomes
  <2>2. QED
    BY <1>2, <2>1, SameFiles
<1>3. ASSUME NEW pc \in Asking, Goto(a, pc), run[a].pc \in Asking, UNCHANGED <<disk, ran>>
      PROVE  Moved(a) /\ FilesSound'
  <2>1. Moved(a) /\ run'[a].pc = pc
    BY <1>3, GotoMoves DEF Pcs, Asking
  <2>2. QED
    BY <1>3, <2>1, SameFiles DEF Asking
<1>4. CASE CheckLimits(a)
  <2>1. CASE run[a].iteration < MaxIterations[a] /\ Set(a, [run[a] EXCEPT !.pc = "naming", !.iteration = @ + 1])
    <3> DEFINE f == [run[a] EXCEPT !.pc = "naming", !.iteration = @ + 1]
    <3>1. Sound(a, f, ran[a])
      BY <1>1, <1>4, <2>1, TurnSound DEF CheckLimits
    <3>2. f.pc = "naming"
      BY <1>1 DEF EngineType
    <3>3. Set(a, f)
      BY <2>1
    <3> HIDE DEF f
    <3>4. Moved(a) /\ run'[a] = f
      BY <1>4, <3>1, <3>3, SetMoves DEF CheckLimits
    <3>5. QED
      BY <1>4, <3>2, <3>4, SameFiles DEF CheckLimits
  <2>2. CASE \E outcome \in {"timeout", "iterations"} : Ends(a, outcome)
    BY <1>2, <1>4, <2>2 DEF CheckLimits
  <2>3. QED
    BY <1>4, <2>1, <2>2 DEF CheckLimits
<1>5. CASE DefaultName(a)
  <2>1. CASE default # None /\ Set(a, [run[a] EXCEPT !.pc = "finding", !.provider = default])
    <3> DEFINE f == [run[a] EXCEPT !.pc = "finding", !.provider = default]
    <3> DEFINE e == run[a]
               g == [e EXCEPT !.pc = "finding", !.provider = default, !.changes = e.changes]
    <3>1. Sound(a, f, ran[a])
      <4>1. f = g /\ e.changes \in SUBSET Allowed
        BY <1>1 DEF EngineType
      <4>2. /\ e.pc \in Asking /\ "finding" \in Asking /\ "finding" \in Pcs
            /\ default \in Providers \cup {None} /\ Sound(a, e, ran[a])
        BY <1>1, <1>5 DEF DefaultName, Asking, Pcs
      <4> HIDE DEF e, f
      <4>3. QED
        BY <4>1, <4>2, GoesSound
    <3>2. f.pc = "finding"
      BY <1>1 DEF EngineType
    <3>3. Set(a, f)
      BY <2>1
    <3> HIDE DEF f
    <3>4. Moved(a) /\ run'[a] = f
      BY <1>5, <3>1, <3>3, SetMoves DEF DefaultName
    <3>5. QED
      BY <1>5, <3>2, <3>4, SameFiles DEF DefaultName
  <2>2. CASE Goto(a, "asking")
    BY <1>3, <1>5, <2>2 DEF DefaultName, Asking
  <2>3. CASE Ends(a, "error")
    BY <1>2, <1>5, <2>3 DEF DefaultName
  <2>4. QED
    BY <1>5, <2>1, <2>2, <2>3 DEF DefaultName
<1>6. CASE FindProvider(a)
  <2>1. CASE Goto(a, "asking")
    BY <1>3, <1>6, <2>1 DEF FindProvider, Asking
  <2>2. CASE Ends(a, "error")
    BY <1>2, <1>6, <2>2 DEF FindProvider
  <2>3. QED
    BY <1>6, <2>1, <2>2 DEF FindProvider
<1>7. CASE Answer(a)
  <2>1. CASE Answered(a)
    <3>1. PICK text \in Answers :
             Set(a, [run[a] EXCEPT !.pc = "executing", !.text = text, !.output = <<>>,
                                   !.todo = Invocations(Tools[a], text)])
      BY <2>1 DEF Answered
    <3> DEFINE f == [run[a] EXCEPT !.pc = "executing", !.text = text, !.output = <<>>,
                                   !.todo = Invocations(Tools[a], text)]
    <3>2. Sound(a, f, ran[a])
      BY <1>1, <1>7, AnswersSound DEF Answer
    <3>3. f.pc = "executing"
      BY <1>1 DEF EngineType
    <3>4. Set(a, f)
      BY <3>1
    <3> HIDE DEF f
    <3>5. Moved(a) /\ run'[a] = f
      BY <1>7, <3>2, <3>4, SetMoves DEF Answer
    <3>6. QED
      BY <1>7, <3>3, <3>5, SameFiles DEF Answer
  <2>2. CASE Ends(a, "error")
    BY <1>2, <1>7, <2>2 DEF Answer
  <2>3. QED
    BY <1>7, <2>1, <2>2 DEF Answer
<1>8. CASE UpdateState(a)
  <2> DEFINE feedback == IF run[a].output = <<>> THEN [role |-> "user"]
                         ELSE [role |-> "tool", results |-> run[a].output]
             f == [run[a] EXCEPT !.pc = "loop", !.provider = None,
                      !.history = @ \o <<[role |-> "assistant", text |-> run[a].text], feedback>>]
  <2>1. Sound(a, f, ran[a])
    BY <1>1, <1>8, TellsSound DEF UpdateState
  <2>2. f.pc = "loop"
    BY <1>1 DEF EngineType
  <2>3. Set(a, f)
    BY <1>8 DEF UpdateState
  <2> HIDE DEF f
  <2>4. Moved(a) /\ run'[a] = f
    BY <1>8, <2>1, <2>3, SetMoves DEF UpdateState
  <2>5. QED
    BY <1>8, <2>2, <2>4, SameFiles DEF UpdateState
<1>9. QED
  BY <1>4, <1>5, <1>6, <1>7, <1>8

\* The steps of the tools.
LEMMA ToolMoves ==
    ASSUME AgentsInv, NEW a \in Agents,
           \/ CheckSize(a) \/ ReadFile(a) \/ ListDirectory(a) \/ Truncate(a) \/ WriteFile(a)
           \/ Shell(a) \/ CommandChanges(a) \/ CommandEnds(a) \/ Grep(a) \/ Done(a)
    PROVE  Moved(a) /\ FilesSound'
<1>1. /\ run[a] \in EngineType /\ Sound(a, run[a], ran[a])
      /\ files \in [Paths -> Contents \cup {Absent, Empty}] /\ \A p \in Paths : files[p] \in Held(p)
  BY DEF AgentsInv, FilesSound
<1>2. ASSUME Ends(a, "error"), UNCHANGED ran
      PROVE  Moved(a)
  BY <1>2, EndsMoves DEF Outcomes
<1>3. ASSUME NEW pc \in Working, NEW tool \in {"ls", "shell", "grep"}, At(a, pc, {tool}),
             UNCHANGED disk,
             NEW line \in Lines, Succeeds(a, line) \/ Fails(a)
      PROVE  Moved(a) /\ FilesSound'
  <2>1. CASE Succeeds(a, line)
    <3>1. Moved(a) /\ run'[a].pc = "executing"
      BY <1>3, <2>1, SucceedsMoves DEF At
    <3>2. QED
      BY <1>3, <3>1, SameFiles
  <2>2. CASE Fails(a)
    BY <1>2, <1>3, <2>2, SameFiles DEF Fails
  <2>3. QED
    BY <1>3, <2>1, <2>2
<1>4. CASE CheckSize(a)
  <2>1. CASE Ends(a, "error")
    BY <1>2, <1>4, <2>1, SameFiles DEF CheckSize
  <2>2. CASE Goto(a, "reading")
    BY <1>4, <2>2, GotoMoves, SameFiles DEF CheckSize, At, Working, Pcs
  <2>3. QED
    BY <1>4, <2>1, <2>2 DEF CheckSize
<1>5. CASE ReadFile(a)
  <2>1. CASE Fails(a)
    BY <1>2, <1>5, <2>1, SameFiles DEF ReadFile, Fails
  <2>2. CASE files[Current(a).path] # Absent /\ Succeeds(a, files[Current(a).path])
    <3>1. At(a, "reading", {"read_file"}) /\ "reading" \in Working
      BY <1>5 DEF ReadFile, Working
    <3>2. Current(a).path \in Paths
      BY <3>1, CurrentIs DEF At
    <3>3. files[Current(a).path] \in Held(Current(a).path) \ {Absent} /\ files[Current(a).path] \in Lines
      BY <1>1, <2>2, <3>2 DEF Lines
    <3>4. QED
      BY <1>5, <2>2, <3>1, <3>3, SucceedsMoves, SameFiles DEF ReadFile
  <2>3. QED
    BY <1>5, <2>1, <2>2 DEF ReadFile
<1>6. CASE ListDirectory(a)
  <2>1. {p \in Paths \ Outside : files[p] # Absent} \in Lines
    BY DEF Lines
  <2>2. QED
    BY <1>3, <1>6, <2>1 DEF ListDirectory, Working
<1>7. CASE Truncate(a)
  <2>1. CASE Ends(a, "error") /\ UNCHANGED disk
    BY <1>2, <1>7, <2>1, SameFiles DEF Truncate
  <2>2. CASE /\ Goto(a, "writing") /\ files' = [files EXCEPT ![Current(a).path] = Empty]
             /\ opened' = opened \cup {a}
    <3>1. Moved(a)
      BY <1>7, <2>2, GotoMoves DEF Truncate, At, Working, Pcs
    <3>2. FilesSound'
      <4>1. opened' \subseteq Agents /\ Empty \in Contents \cup {Absent, Empty}
        BY <2>2 DEF AgentsInv, FilesSound
      <4>2. \A p \in Paths : Empty \in Held(p)
        BY DEF Held
      <4>3. /\ files' \in [Paths -> Contents \cup {Absent, Empty}]
            /\ \A q \in Paths : files'[q] \in Held(q)
        BY <1>1, <2>2, <4>1, <4>2
      <4>4. QED
        BY <4>1, <4>3 DEF FilesSound, Held
    <3>3. QED
      BY <3>1, <3>2
  <2>3. QED
    BY <1>7, <2>1, <2>2 DEF Truncate
<1>8. CASE WriteFile(a)
  <2>1. /\ At(a, "writing", {"write_file"}) /\ "writing" \in Working
        /\ opened \subseteq Agents /\ opened' = opened \ {a}
    BY <1>8 DEF WriteFile, Working, AgentsInv, FilesSound
  <2>2. /\ Current(a) \in Tags /\ Current(a).tool = "write_file"
        /\ Current(a).path \in Paths /\ Current(a).content \in Contents
    BY <2>1, CurrentIs DEF At
  <2>3. Moved(a)
    <3>1. CASE Fails(a)
      BY <1>2, <3>1 DEF Fails
    <3>2. CASE Succeeds(a, Current(a).path)
      BY <2>1, <2>2, <3>2, SucceedsMoves DEF Lines
    <3>3. QED
      BY <1>8, <3>1, <3>2 DEF WriteFile
  <2>4. CASE UNCHANGED files
    <3>1. FilesSound'
      BY <1>1, <2>1, <2>4 DEF FilesSound, Held
    <3>2. QED
      BY <2>3, <3>1
  <2>5. CASE files' = [files EXCEPT ![Current(a).path] = Over(Current(a).content, @)]
    <3> DEFINE p == Current(a).path
               old == files[p]
               new == Over(Current(a).content, old)
    <3>1. Current(a).content \in Written(p)
      BY <2>2 DEF Written
    <3>2. new \in Contents /\ new \in Held(p)
      <4>1. CASE old \in Contents
        <5>1. new = Overlaid[<<Current(a).content, old>>]
          BY <4>1 DEF Over
        <5>2. new \in Contents
          BY <2>2, <4>1, <5>1, ReactAgentAssumption
        <5>3. new \in {Over(content, was) : content \in Written(p), was \in Contents \cup {Empty}}
          BY <3>1, <4>1
        <5>4. QED
          BY <5>2, <5>3 DEF Held
      <4>2. CASE old \notin Contents
        <5>1. Empty \notin Contents
          BY ReactAgentAssumption
        <5>2. new = Over(Current(a).content, Empty) /\ new = Current(a).content
          BY <4>2, <5>1 DEF Over
        <5> HIDE DEF new
        <5>3. new \in {Over(content, was) : content \in Written(p), was \in Contents \cup {Empty}}
          <6> DEFINE c == Current(a).content
          <6>1. c \in Written(p) /\ Empty \in Contents \cup {Empty} /\ new = Over(c, Empty)
            BY <3>1, <5>2
          <6> HIDE DEF c
          <6>2. QED
            BY <6>1
        <5>4. QED
          BY <2>2, <5>2, <5>3 DEF Held
      <4>3. QED
        BY <4>1, <4>2
    <3>3. files' = [files EXCEPT ![p] = new]
      BY <1>1, <2>2, <2>5
    <3> HIDE DEF new, p, old
    <3>4. /\ files' \in [Paths -> Contents \cup {Absent, Empty}]
          /\ \A q \in Paths : files'[q] \in Held(q)
      BY <1>1, <3>2, <3>3
    <3>5. QED
      BY <2>1, <2>3, <3>4 DEF FilesSound, Held
  <2>6. QED
    BY <1>8, <2>3, <2>4, <2>5 DEF WriteFile
<1>9. CASE Shell(a) \/ CommandChanges(a) \/ CommandEnds(a)
  <2>1. CASE Shell(a)
    <3>1. run[a].pc \in Working
      BY <2>1 DEF Shell, At, Working
    <3>2. CASE Ends(a, "error")
      BY <1>2, <2>1, <3>2, SameFiles DEF Shell
    <3>3. CASE /\ ValidCommand(Current(a).content)
               /\ Set(a, [run[a] EXCEPT !.pc = "running", !.changes = Effects[Current(a).content]])
      <4>1. Current(a) \in Tags /\ Current(a).tool = "shell"
        BY <2>1, <3>1, CurrentIs DEF Shell, At
      <4>2. Effects[Current(a).content] \in SUBSET Allowed
        BY <3>3, <4>1 DEF Allowed
      <4>3. QED
        BY <2>1, <3>1, <3>3, <4>2, RunsMoves, SameFiles DEF Shell
    <3>4. QED
      BY <2>1, <3>2, <3>3 DEF Shell
  <2>2. CASE CommandChanges(a)
    <3>1. PICK change \in run[a].changes :
             /\ Set(a, [run[a] EXCEPT !.changes = @ \ {change}])
             /\ files' = [files EXCEPT ![change.path] = change.content]
      BY <2>2 DEF CommandChanges
    <3>2. /\ run[a].pc = "running" /\ run[a].changes \subseteq Allowed
          /\ UNCHANGED ran /\ opened' \subseteq Agents
      BY <1>1, <2>2 DEF CommandChanges, At, EngineType, AgentsInv, FilesSound
    <3>3. Set(a, [run[a] EXCEPT !.pc = "running", !.changes = run[a].changes \ {change}])
      BY <1>1, <3>1, <3>2 DEF EngineType, Set
    <3>4. Moved(a)
      BY <3>2, <3>3, RunsMoves DEF Working
    <3>5. change \in Allowed /\ change \in Change
      BY <3>1, <3>2, AllowedAre
    <3>6. /\ change.path \in Paths /\ change.content \in Contents \cup {Absent, Empty}
          /\ change.content \in Held(change.path)
      BY <3>5 DEF Change, Held
    <3>7. /\ files' \in [Paths -> Contents \cup {Absent, Empty}]
          /\ \A q \in Paths : files'[q] \in Held(q)
      BY <1>1, <3>1, <3>6
    <3>8. QED
      BY <3>2, <3>4, <3>7 DEF FilesSound, Held
  <2>3. CASE CommandEnds(a)
    BY <1>3, <2>3 DEF CommandEnds, At, Working, Lines
  <2>4. QED
    BY <1>9, <2>1, <2>2, <2>3
<1>10. CASE Grep(a)
  BY <1>3, <1>10 DEF Grep, Working, Lines
<1>11. CASE Done(a)
  <2> DEFINE e == run[a]
             did == ran[a][e.iteration]
             at == First(e.todo)
             found == Invocations(Tools[a], e.text)
  <2>1. /\ e.pc = "executing" /\ e.todo # {} /\ e.todo \subseteq Place
        /\ e.text[at].tool = "done"
    BY <1>1, <1>11 DEF Done, At, Current, EngineType
  <2>2. at \in e.todo /\ at \in Place /\ \A q \in e.todo \ {at} : at < q
    BY <2>1, FirstIs
  <2>3. Range(did) \cup e.todo = found /\ \A p \in Range(did), q \in e.todo : p < q
    BY <1>1, <2>1 DEF Sound, WorksOn, Splits, Working
  <2>4. found \subseteq Place
    BY <1>1, PlacesAre DEF EngineType
  <2>5. Completes(a, e.text, did)
    <3> HIDE DEF e, did, at, found
    <3>1. at \in DoneTags(a, e.text)
      BY <2>1, <2>2, <2>3 DEF DoneTags, found
    <3>2. \A q \in e.todo : ~(q < at)
      BY <2>1, <2>2 DEF Place
    <3>3. Range(did) = {q \in found : q < at}
      BY <2>2, <2>3, <3>2
    <3>4. QED
      BY <3>1, <3>3 DEF Completes, found
  <2>6. Moved(a) /\ run'[a].pc = "ended"
    BY <1>11, <2>5, EndsMoves DEF Done, Outcomes
  <2>7. QED
    BY <1>11, <2>6, SameFiles DEF Done
<1>12. QED
  BY <1>4, <1>5, <1>6, <1>7, <1>8, <1>9, <1>10, <1>11

-----------------------------------------------------------------------------
(* All agents *)

\* A step of one agent leaves what the others are about as it was.
LEMMA OneMoves ==
    ASSUME AgentsInv, NEW a \in Agents, Moved(a), FilesSound', UNCHANGED registry
    PROVE  AgentsInv'
<1>1. run \in [Agents -> EngineType] /\ ran = [b \in Agents |-> ran[b]]
  BY DEF AgentsInv
<1>2. run' = [run EXCEPT ![a] = run'[a]] /\ ran' = [ran EXCEPT ![a] = ran'[a]] /\ run'[a] \in EngineType
  BY DEF Moved, Sound, Typed
<1>3. run' \in [Agents -> EngineType] /\ ran' = [b \in Agents |-> ran'[b]]
  <2>1. DOMAIN ran = Agents
    BY <1>1
  <2>2. QED
    BY <1>1, <1>2, <2>1
<1>4. \A b \in Agents \ {a} : run'[b] = run[b] /\ ran'[b] = ran[b]
  BY <1>1, <1>2
<1>5. \A b \in Agents : Sound(b, run'[b], ran'[b])
  BY <1>4 DEF Moved, AgentsInv
<1>6. QED
  BY <1>3, <1>5 DEF AgentsInv, registry

\* Every step keeps the invariant.
LEMMA AgentsInvStep ==
    ASSUME AgentsInv, [Next]_vars
    PROVE  AgentsInv'
<1>1. ASSUME NEW a \in Agents, Step(a) PROVE AgentsInv'
  <2>1. UNCHANGED registry
    BY <1>1 DEF Step, Misconfigured, Configure, CheckContext, LoadContext, BuildPrompt, CheckLimits,
       DefaultName, FindProvider, Answer, CheckSize, ReadFile, ListDirectory, Truncate, WriteFile,
       Shell, CommandChanges, CommandEnds, Grep, Done, UpdateState
  <2>2. Moved(a) /\ FilesSound'
    BY <1>1, PreparesMoves, LoopMoves, ToolMoves DEF Step
  <2>3. QED
    BY <2>1, <2>2, OneMoves
<1>2. ASSUME NEW p \in Providers, Register(p) \/ SetDefault(p) \/ RemoveProvider(p)
      PROVE  AgentsInv'
  <2>1. UNCHANGED <<disk, run, ran>>
    BY <1>2 DEF Register, SetDefault, RemoveProvider
  <2>2. providers' \subseteq Providers /\ default' \in Providers \cup {None}
    BY <1>2 DEF AgentsInv, Register, SetDefault, RemoveProvider
  <2>3. (\A a \in Agents : Sound(a, run[a], ran[a]))'
    BY <2>1 DEF AgentsInv
  <2>4. QED
    BY <2>1, <2>2, <2>3, SameFiles DEF AgentsInv
<1>3. CASE UNCHANGED vars
  <2>1. (\A a \in Agents : Sound(a, run[a], ran[a]))'
    BY <1>3 DEF AgentsInv, vars
  <2>2. QED
    BY <1>3, <2>1, SameFiles DEF AgentsInv, registry, vars
<1>4. QED
  BY <1>1, <1>2, <1>3 DEF Next

\* Initially no agent has begun.
LEMMA AgentsInvInit == Init => AgentsInv
<1> SUFFICES ASSUME Init PROVE AgentsInv
  OBVIOUS
<1>1. FilesSound
  BY ReactAgentAssumption DEF Init, FilesSound, Held
<1>2. Engine \in EngineType
  BY EmptyFacts DEF Engine, EngineType, Pcs, Outcomes
<1>3. ASSUME NEW a \in Agents PROVE Sound(a, run[a], ran[a])
  <2> DEFINE h == [i \in 0..MaxIterations[a] |-> <<>>]
  <2>1. run[a] = Engine /\ ran[a] = h
    BY <1>3 DEF Init
  <2>2. /\ Engine.pc = "configure" /\ Engine.iteration = 0 /\ Engine.history = <<>>
        /\ Engine.output = <<>> /\ Engine.context = <<>> /\ Engine.outcome = None
    BY DEF Engine
  <2>3. h \in [0..MaxIterations[a] -> Seq(Place)] /\ \A i \in DOMAIN h : h[i] = <<>>
    BY EmptyFacts
  <2>4. 0 \in DOMAIN h /\ h[0] = <<>> /\ 0 <= MaxIterations[a]
    BY ReactAgentAssumption
  <2> HIDE DEF h
  <2>5. Typed(a, Engine, h)
    BY <1>2, <2>2, <2>3, <2>4 DEF Typed
  <2>6. Paced(a, Engine) /\ NotYet(Engine, h) /\ WorksOn(a, Engine, h) /\ Completed(a, Engine, h)
    BY <2>2, <2>3, EmptyFacts, ReactAgentAssumption DEF Paced, NotYet, WorksOn, Completed, Asking, Working
  <2>7. Sorted(h) /\ UpTo(a, Engine.text, h[Engine.iteration]) /\ ShowsTrue(Engine)
    BY <2>2, <2>3, <2>4, EmptyFacts DEF Sorted, UpTo, ShowsTrue
  <2>8. Told(a, Engine, h)
    BY <2>2 DEF Told
  <2>9. Sound(a, Engine, h)
    BY <2>5, <2>6, <2>7, <2>8 DEF Sound
  <2>10. QED
    BY <2>1, <2>9
<1>4. run \in [Agents -> EngineType] /\ ran = [a \in Agents |-> ran[a]]
  BY <1>2 DEF Init
<1>5. QED
  BY <1>1, <1>3, <1>4 DEF AgentsInv, Init

\* The invariant of the agents.
LEMMA AgentsInvAlways == Spec => []AgentsInv
<1>1. AgentsInv /\ [Next]_vars => AgentsInv'
  BY AgentsInvStep
<1>2. QED
  BY <1>1, AgentsInvInit, PTL DEF Spec

\* Any number of agents with any tools, on the same files and with providers
\* that come and go, do what the answers of the model say: each tag once, in
\* the order of the text, up to the first done tag or failure, and they tell
\* the model of all of it; a file holds what such tags put there, a command of
\* the allow list among them, and the model is shown nothing else of it
\* (execute_all, run, update_state, ReadFileTool, WriteFileTool, ShellTool).
THEOREM AgentsFollowAlways == Spec => []AgentsFollow
<1>1. AgentsInv => TypeOK
  BY ReactAgentAssumption DEF AgentsInv, FilesSound, TypeOK, EngineType, Outcomes, Sound, Typed
<1>2. AgentsInv => FollowsAnswers
  <2> SUFFICES ASSUME AgentsInv, NEW a \in Agents
               PROVE  LET now == run[a].iteration
                          done == Range(ran[a][now])
                          found == Invocations(Tools[a], run[a].text)
                      IN  /\ \A i \in 1..now : SortedTags(ran[a][i])
                          /\ UpTo(a, run[a].text, ran[a][now])
                          /\ Completed(a, run[a], ran[a])
                          /\ Told(a, run[a], ran[a])
    BY DEF FollowsAnswers, SortedTags, UpTo, Completed, Completes, Told, TellsAll
  <2>1. Sound(a, run[a], ran[a]) /\ run[a].iteration \in Nat /\ MaxIterations[a] \in Nat
    BY ReactAgentAssumption DEF AgentsInv, EngineType
  <2>2. \A i \in 1..run[a].iteration : i \in DOMAIN ran[a]
    BY <2>1 DEF Sound, Typed
  <2>3. QED
    BY <2>1, <2>2 DEF Sound, Sorted
<1>3. AgentsInv => WrittenByTags
  <2> SUFFICES ASSUME AgentsInv, NEW p \in Paths
               PROVE  /\ files[p] \in Held(p)
                      /\ \A a \in Agents :
                            /\ ShownOf(p, Range(run[a].context)) \subseteq Held(p) \ {Absent}
                            /\ ShownOf(p, {r \in Range(run[a].output) : r.tool = "read_file"})
                                  \subseteq Held(p) \ {Absent}
    BY DEF WrittenByTags
  <2>1. \A a \in Agents : ShowsTrue(run[a])
    BY DEF AgentsInv, Sound
  <2>2. QED
    BY <2>1 DEF AgentsInv, FilesSound, ShowsTrue, ShownOf, True
<1>4. QED
  BY <1>1, <1>2, <1>3, AgentsInvAlways, PTL DEF AgentsFollow
=============================================================================
