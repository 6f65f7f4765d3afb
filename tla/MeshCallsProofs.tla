-------------------------- MODULE MeshCallsProofs --------------------------
(***************************************************************************)
(* Proofs about MeshCalls, for any number of nodes, components and calls   *)
(* and channels of any size.                                               *)
(***************************************************************************)
EXTENDS MeshCalls, TLAPS

-----------------------------------------------------------------------------
(* The inductive invariant *)

\* What a call has found so far, by where it is
RowSound(row) ==
    /\ row.pc \in {"sending", "waiting"} => row.to \in Instances
    /\ row.pc \notin {"idle", "done"} => row.node \in Nodes /\ IsTarget(row.target)
    /\ row.pc \in {"connecting", "requesting", "remote"} => Len(row.target) > 1

CallsSound == \A k \in Calls : RowSound(call[k])

\* The channel of a component holds calls that wait for it, each once.
WaitsFor(row, i) == row.pc = "waiting" /\ row.to = i
CompSound(i) ==
    /\ IsInjective(comp[i].queue) /\ comp[i].doing \notin Range(comp[i].queue)
    /\ \A k \in Calls : k \in Held(i) => WaitsFor(call[k], i)
    /\ Held(i) # {} => comp[i].alive
Found == \A k \in Calls, i \in Instances : WaitsFor(call[k], i) => k \in Held(i)

IInv == TypeOK /\ CallsSound /\ Found /\ \A i \in Instances : CompSound(i)

CompRow == [alive : BOOLEAN, queue : Seq(Calls), doing : Calls \cup {None}]

\* The types of routes, channels and calls.
LEMMA Types ==
    ASSUME TypeOK
    PROVE  /\ router \in [Nodes -> [Names -> Instances \cup {None}]]
           /\ known \in [Nodes -> [Nodes -> Addresses \cup {None}]]
           /\ clients \in [Nodes -> [Nodes -> Addresses \cup {None}]]
           /\ listens \in [Nodes -> Addresses]
           /\ comp \in [Instances -> CompRow]
           /\ call \in [Calls -> Row]
BY DEF TypeOK, CompRow

\* Instances hold calls.
LEMMA HeldCalls == ASSUME TypeOK, NEW i \in Instances PROVE Held(i) \subseteq Calls
<1>1. comp[i].queue \in Seq(Calls) /\ comp[i].doing \in Calls \cup {None}
  BY Types DEF CompRow
<1>2. Range(comp[i].queue) \subseteq Calls
  BY <1>1 DEF Range
<1>3. QED
  BY <1>1, <1>2 DEF Held

\* The invariant says where a waiting caller's message is.
LEMMA WaitersAreHeld == IInv => WaitersHeld
<1> SUFFICES ASSUME IInv PROVE WaitersHeld
  OBVIOUS
<1>1. TypeOK /\ CallsSound /\ Found /\ \A i \in Instances : CompSound(i)
  BY DEF IInv
<1>2. ASSUME NEW k \in Calls, call[k].pc = "waiting" PROVE \E i \in Instances : k \in Held(i)
  <2>1. call[k].to \in Instances
    BY <1>1, <1>2 DEF CallsSound, RowSound
  <2>2. k \in Held(call[k].to)
    BY <1>1, <1>2, <2>1 DEF Found, WaitsFor
  <2>3. QED
    BY <2>1, <2>2
<1>3. ASSUME NEW k \in Calls, NEW i \in Instances, k \in Held(i)
      PROVE  call[k].pc = "waiting" /\ call[k].to = i /\ comp[i].alive
  BY <1>1, <1>3 DEF CompSound, WaitsFor
<1>4. \A i \in Instances : IsInjective(comp[i].queue) /\ comp[i].doing \notin Range(comp[i].queue)
  BY <1>1 DEF CompSound
<1>5. QED
  BY <1>1, <1>2, <1>3, <1>4 DEF WaitersHeld

-----------------------------------------------------------------------------
(* Channels *)

\* A message is put into a channel that does not have it.
LEMMA PutLast ==
    ASSUME NEW S, NEW q \in Seq(S), NEW k \in S, IsInjective(q), k \notin Range(q)
    PROVE  /\ Append(q, k) \in Seq(S)
           /\ Range(Append(q, k)) = Range(q) \cup {k}
           /\ IsInjective(Append(q, k))
<1> DEFINE r == Append(q, k)
           n == Len(q)
<1>1. n \in Nat /\ DOMAIN q = 1..n
  OBVIOUS
<1>2. /\ r \in Seq(S) /\ DOMAIN r = 1..(n + 1) /\ r[n + 1] = k
      /\ \A j \in 1..n : r[j] = q[j]
  OBVIOUS
<1> HIDE DEF r, n
<1>3. Range(r) = Range(q) \cup {k}
  <2>1. ASSUME NEW x \in Range(r) PROVE x \in Range(q) \cup {k}
    <3>1. PICK j \in 1..(n + 1) : x = r[j]
      BY <1>2 DEF Range
    <3>2. j \in 1..n \/ j = n + 1
      BY <1>1
    <3>3. QED
      BY <1>1, <1>2, <3>1, <3>2 DEF Range
  <2>2. ASSUME NEW x \in Range(q) PROVE x \in Range(r)
    <3>1. PICK j \in 1..n : x = q[j]
      BY <1>1 DEF Range
    <3>2. j \in 1..(n + 1)
      BY <1>1
    <3>3. QED
      BY <1>2, <3>1, <3>2 DEF Range
  <2>3. k \in Range(r)
    <3>1. n + 1 \in 1..(n + 1)
      BY <1>1
    <3>2. QED
      BY <1>2, <3>1 DEF Range
  <2>4. QED
    BY <2>1, <2>2, <2>3
<1>4. ASSUME NEW x \in 1..(n + 1), NEW y \in 1..(n + 1), r[x] = r[y] PROVE x = y
  <2>1. (x \in 1..n \/ x = n + 1) /\ (y \in 1..n \/ y = n + 1)
    BY <1>1
  <2>2. \A j \in 1..n : q[j] # k
    BY <1>1 DEF Range
  <2>3. QED
    BY <1>1, <1>2, <1>4, <2>1, <2>2 DEF IsInjective
<1>5. IsInjective(r)
  BY <1>2, <1>4 DEF IsInjective
<1>6. QED
  BY <1>2, <1>3, <1>5 DEF r

\* The first message of a channel is taken out of it.
LEMMA TakeFirst ==
    ASSUME NEW S, NEW q \in Seq(S), q # <<>>, IsInjective(q)
    PROVE  /\ Head(q) \in S /\ Tail(q) \in Seq(S)
           /\ Range(q) = Range(Tail(q)) \cup {Head(q)} /\ Head(q) \notin Range(Tail(q))
           /\ IsInjective(Tail(q))
<1> DEFINE r == Tail(q)
           n == Len(q)
<1>1. n \in Nat /\ n > 0 /\ DOMAIN q = 1..n /\ Head(q) = q[1] /\ Head(q) \in S
  OBVIOUS
<1>2. r \in Seq(S) /\ DOMAIN r = 1..(n - 1) /\ \A j \in 1..(n - 1) : r[j] = q[j + 1]
  OBVIOUS
<1> HIDE DEF r, n
<1>3. \A j \in 1..(n - 1) : j + 1 \in 1..n /\ j + 1 # 1
  BY <1>1
<1>4. ASSUME NEW x \in Range(q) PROVE x \in Range(r) \cup {Head(q)}
  <2>1. PICK j \in 1..n : x = q[j]
    BY <1>1 DEF Range
  <2>2. j = 1 \/ (j - 1 \in 1..(n - 1) /\ (j - 1) + 1 = j)
    BY <1>1
  <2>3. QED
    BY <1>1, <1>2, <2>1, <2>2 DEF Range
<1>5. ASSUME NEW x \in Range(r) PROVE x \in Range(q) /\ x # Head(q)
  <2>1. PICK j \in 1..(n - 1) : x = r[j]
    BY <1>2 DEF Range
  <2>2. x = q[j + 1] /\ j + 1 \in 1..n /\ j + 1 # 1 /\ 1 \in 1..n
    BY <1>1, <1>2, <1>3, <2>1
  <2>3. QED
    BY <1>1, <2>2 DEF Range, IsInjective
<1>6. Head(q) \in Range(q)
  <2>1. 1 \in 1..n
    BY <1>1
  <2>2. QED
    BY <1>1, <2>1 DEF Range
<1>7. ASSUME NEW x \in 1..(n - 1), NEW y \in 1..(n - 1), r[x] = r[y] PROVE x = y
  <2>1. x + 1 = y + 1
    BY <1>1, <1>2, <1>3, <1>7 DEF IsInjective
  <2>2. QED
    BY <1>1, <2>1
<1>8. IsInjective(r)
  BY <1>2, <1>7 DEF IsInjective
<1>9. QED
  BY <1>1, <1>2, <1>4, <1>5, <1>6, <1>8 DEF r

-----------------------------------------------------------------------------
(* Steps *)

NetworkOK ==
    /\ router \in [Nodes -> [Names -> Instances \cup {None}]]
    /\ known \in [Nodes -> [Nodes -> Addresses \cup {None}]]
    /\ clients \in [Nodes -> [Nodes -> Addresses \cup {None}]]
    /\ listens \in [Nodes -> Addresses]

\* The types of the network apart from those of instances and calls.
LEMMA TypeParts == TypeOK <=> NetworkOK /\ comp \in [Instances -> CompRow] /\ call \in [Calls -> Row]
BY DEF TypeOK, NetworkOK, CompRow

\* Where no route changes, the network's types stay.
LEMMA SameNetwork == ASSUME IInv, UNCHANGED network PROVE NetworkOK'
BY TypeParts DEF IInv, NetworkOK, network

\* A step in which no call starts or ends to wait
LEMMA QuietSound ==
    ASSUME IInv, NetworkOK', comp' = comp, call' \in [Calls -> Row],
           \A k \in Calls : RowSound(call'[k]),
           \A k \in Calls : \/ call'[k] = call[k]
                            \/ call'[k].pc # "waiting" /\ call[k].pc # "waiting"
    PROVE  IInv'
<1>1. TypeOK'
  BY TypeParts DEF IInv, TypeOK, NetworkOK, CompRow
<1>2. CallsSound'
  BY DEF CallsSound
<1>3. ASSUME NEW i \in Instances PROVE Held(i)' = Held(i)
  BY DEF Held
<1>4. ASSUME NEW k \in Calls, NEW i \in Instances, WaitsFor(call'[k], i) PROVE k \in Held(i)'
  <2>1. call'[k] = call[k]
    BY <1>4 DEF WaitsFor
  <2>2. k \in Held(i)
    BY <1>4, <2>1 DEF IInv, Found
  <2>3. QED
    BY <1>3, <2>2
<1>5. Found'
  BY <1>4 DEF Found
<1>6. ASSUME NEW i \in Instances PROVE CompSound(i)'
  <2>1. CompSound(i)
    BY DEF IInv
  <2>2. ASSUME NEW k \in Calls, k \in Held(i) PROVE WaitsFor(call'[k], i)
    <3>1. call[k].pc = "waiting" /\ call[k].to = i
      BY <2>1, <2>2 DEF CompSound, WaitsFor
    <3>2. call'[k] = call[k]
      BY <3>1
    <3>3. QED
      BY <3>1, <3>2 DEF WaitsFor
  <2>3. QED
    BY <1>3, <2>1, <2>2 DEF CompSound
<1>7. QED
  BY <1>1, <1>2, <1>5, <1>6 DEF IInv

\* ... because it is about one call, which is not waiting
LEMMA OneCall ==
    ASSUME IInv, NEW k \in Calls, NEW row \in Row, RowSound(row),
           call[k].pc # "waiting", row.pc # "waiting",
           Set(k, row), comp' = comp, NetworkOK'
    PROVE  IInv'
<1>1. call \in [Calls -> Row] /\ \A j \in Calls : RowSound(call[j])
  BY TypeParts DEF IInv, CallsSound
<1>2. /\ call' \in [Calls -> Row] /\ call'[k] = row
      /\ \A j \in Calls : j # k => call'[j] = call[j]
  BY <1>1 DEF Set
<1>3. \A j \in Calls : RowSound(call'[j])
  BY <1>1, <1>2
<1>4. QED
  BY <1>2, <1>3, QuietSound

\* A call that was not made is idle.
LEMMA UnusedRow == Unused \in Row /\ Unused.pc = "idle" /\ RowSound(Unused)
<1>1. <<>> \in Seq(Nodes \cup Names)
  OBVIOUS
<1>2. QED
  BY <1>1 DEF Unused, Row, RowSound

\* A call that has returned is done.
LEMMA DoneRow ==
    ASSUME NEW parent \in Calls \cup {None}
    PROVE  /\ Done(parent) \in Row /\ RowSound(Done(parent)) /\ Done(parent).pc = "done"
<1>1. Unused \in Row /\ Unused.target = <<>> /\ Unused.node = None
  <2>1. <<>> \in Seq(Nodes \cup Names)
    OBVIOUS
  <2>2. QED
    BY <2>1 DEF Unused, Row
<1>2. Done(parent) \in Row /\ Done(parent).pc = "done"
  <2>1. Done(parent) = [Unused EXCEPT !.pc = "done", !.parent = parent]
    BY DEF Done
  <2>2. QED
    BY <1>1, <2>1 DEF Row
<1>3. RowSound(Done(parent))
  BY <1>2 DEF RowSound
<1>4. QED
  BY <1>2, <1>3

\* What a call has found by where it is.
LEMMA RowOf ==
    ASSUME IInv, NEW k \in Calls
    PROVE  /\ call[k] \in Row /\ RowSound(call[k])
           /\ call[k].parent \in Calls \cup {None}
BY TypeParts DEF IInv, CallsSound, Row

\* A call that nobody holds returns.
LEMMA ReturnSound ==
    ASSUME IInv, NEW k \in Calls, call[k].pc # "waiting", Returns(k), comp' = comp, NetworkOK'
    PROVE  IInv'
<1> DEFINE row == Done(call[k].parent)
<1>1. row \in Row /\ RowSound(row) /\ row.pc # "waiting"
  BY RowOf, DoneRow
<1>2. Set(k, row)
  BY DEF Returns
<1> HIDE DEF row
<1>3. QED
  BY <1>1, <1>2, OneCall

\* A call goes on to its next place.
Moved(row, pc, to) == [row EXCEPT !.pc = pc, !.to = to]

\* A call goes on to what it has found.
LEMMA MovedRow ==
    ASSUME IInv, NEW k \in Calls, NEW to \in Instances \cup Addresses \cup {None},
           NEW pc \in {"sending", "waiting", "connecting", "requesting", "remote", "plugin"},
           call[k].pc \notin {"idle", "done"},
           pc \in {"sending", "waiting"} => to \in Instances,
           pc \in {"connecting", "requesting", "remote"} => Len(call[k].target) > 1
    PROVE  /\ Moved(call[k], pc, to) \in Row /\ RowSound(Moved(call[k], pc, to))
           /\ Moved(call[k], pc, to).pc = pc /\ Moved(call[k], pc, to).to = to
<1> DEFINE row == Moved(call[k], pc, to)
<1>1. call[k] \in Row /\ call[k].node \in Nodes /\ IsTarget(call[k].target)
  BY RowOf DEF RowSound
<1>2. /\ row \in Row /\ row.pc = pc /\ row.to = to
      /\ row.node = call[k].node /\ row.target = call[k].target
  BY <1>1 DEF Row, Moved
<1> HIDE DEF row
<1>3. RowSound(row)
  BY <1>1, <1>2 DEF RowSound
<1>4. QED
  BY <1>2, <1>3 DEF row

\* A call that does not wait goes on elsewhere; no instance holds it.
LEMMA GotoSound ==
    ASSUME IInv, NEW k \in Calls, NEW to \in Instances \cup Addresses \cup {None},
           NEW pc \in {"sending", "connecting", "requesting", "remote", "plugin"},
           call[k].pc \notin {"idle", "done", "waiting"},
           pc = "sending" => to \in Instances,
           pc \in {"connecting", "requesting", "remote"} => Len(call[k].target) > 1,
           Goto(k, pc, to), comp' = comp, NetworkOK'
    PROVE  IInv'
<1> DEFINE row == Moved(call[k], pc, to)
<1>1. row \in Row /\ RowSound(row) /\ row.pc = pc
  BY MovedRow
<1>2. Set(k, row)
  BY DEF Goto, Moved
<1> HIDE DEF row
<1>3. QED
  BY <1>1, <1>2, OneCall

\* A call is begun, in the first row that is free.
LEMMA BeginSound ==
    ASSUME IInv, NEW k \in Calls, NEW node \in Nodes, NEW target, IsTarget(target),
           NEW parent \in Calls \cup {None}, NEW may \in BOOLEAN,
           Begin(k, node, target, parent, may), UNCHANGED <<network, comp>>
    PROVE  IInv'
<1> DEFINE row == [pc |-> "routing", node |-> node, target |-> target,
                   parent |-> parent, may |-> may, to |-> None]
<1>1. row \in Row /\ RowSound(row) /\ row.pc = "routing"
  BY DEF Row, RowSound, IsTarget
<1>2. Set(k, row) /\ call[k].pc = "idle"
  BY DEF Begin, New
<1> HIDE DEF row
<1>3. QED
  BY <1>1, <1>2, OneCall, SameNetwork

\* mesh_call looks its target up: an instance, a plugin or another node.
LEMMA RouteSound == ASSUME IInv, NEW k \in Calls, Route(k) PROVE IInv'
<1> DEFINE local == Local(call[k].node, call[k].target)
<1>1. /\ call[k].pc = "routing" /\ comp' = comp /\ NetworkOK'
  BY SameNetwork DEF Route
<1>2. local \in Instances \cup {None}
  <2>1. call[k].node \in Nodes /\ IsTarget(call[k].target)
    BY <1>1, RowOf DEF RowSound
  <2>2. router \in [Nodes -> [Names -> Instances \cup {None}]]
    BY TypeParts DEF IInv, NetworkOK
  <2>3. QED
    BY <2>1, <2>2 DEF Local
<1>3. \/ local # None /\ Goto(k, "sending", local)
      \/ Len(call[k].target) > 1 /\ Goto(k, "connecting", None)
      \/ Goto(k, "plugin", None)
      \/ Returns(k)
  BY DEF Route
<1> HIDE DEF local
<1>4. QED
  BY <1>1, <1>2, <1>3, GotoSound, ReturnSound

\* A node's row of another node
LEMMA PutAddress ==
    ASSUME NEW table \in [Nodes -> [Nodes -> Addresses \cup {None}]], NEW n \in Nodes, NEW m \in Nodes,
           NEW a \in Addresses \cup {None}, NEW new, new = [table EXCEPT ![n][m] = a]
    PROVE  new \in [Nodes -> [Nodes -> Addresses \cup {None}]]
<1>1. PICK row : row = [table[n] EXCEPT ![m] = a]
  OBVIOUS
<1>2. row \in [Nodes -> Addresses \cup {None}]
  BY <1>1
<1>3. new = [table EXCEPT ![n] = row]
  BY <1>1
<1>4. QED
  BY <1>2, <1>3

\* connect_or_get takes the client it has, or connects.
LEMMA ConnectSound == ASSUME IInv, NEW k \in Calls, ConnectOrGet(k) PROVE IInv'
<1> DEFINE n == call[k].node
           m == call[k].target[1]
<1>1. call[k].pc = "connecting" /\ comp' = comp /\ UNCHANGED <<router, known, listens>>
  BY DEF ConnectOrGet
<1>2. n \in Nodes /\ Len(call[k].target) > 1 /\ m \in Nodes
  BY <1>1, RowOf DEF RowSound, IsTarget
<1>3. NetworkOK /\ clients[n][m] \in Addresses \cup {None} /\ known[n][m] \in Addresses \cup {None}
  BY <1>2, TypeParts DEF IInv, NetworkOK
<1>4. NetworkOK'
  <2>1. clients' = clients \/ clients' = [clients EXCEPT ![n][m] = known[n][m]]
    BY DEF ConnectOrGet
  <2>2. clients' \in [Nodes -> [Nodes -> Addresses \cup {None}]]
    <3> HIDE DEF n, m
    <3>1. CASE clients' = clients
      BY <1>3, <3>1 DEF NetworkOK
    <3>2. CASE clients' = [clients EXCEPT ![n][m] = known[n][m]]
      BY <1>2, <1>3, <3>2, PutAddress DEF NetworkOK
    <3>3. QED
      BY <2>1, <3>1, <3>2
  <2>3. QED
    BY <1>1, <1>3, <2>2 DEF NetworkOK
<1>5. \/ clients[n][m] # None /\ Goto(k, "requesting", clients[n][m])
      \/ known[n][m] # None /\ Goto(k, "requesting", known[n][m])
      \/ Returns(k)
  BY DEF ConnectOrGet
<1>6. QED
  BY <1>1, <1>2, <1>3, <1>4, <1>5, GotoSound, ReturnSound

\* A step that is about instance i and the calls it holds: every other one
\* waits where it waited.
LEMMA CompStep ==
    ASSUME IInv, NetworkOK', NEW i \in Instances, NEW row \in CompRow,
           comp' = [comp EXCEPT ![i] = row],
           call' \in [Calls -> Row], \A k \in Calls : RowSound(call'[k]),
           IsInjective(row.queue), row.doing \notin Range(row.queue),
           NEW H, H = Range(row.queue) \cup ({row.doing} \ {None}), H # {} => row.alive,
           \A k \in Calls : k \in H => WaitsFor(call'[k], i),
           \A k \in Calls : \/ call'[k] = call[k] /\ (k \in Held(i) => k \in H)
                            \/ call'[k].pc # "waiting" /\ (call[k].pc # "waiting" \/ k \in Held(i))
                            \/ k \in H /\ call[k].pc # "waiting"
    PROVE  IInv'
<1>1. comp \in [Instances -> CompRow]
  BY TypeParts DEF IInv
<1>2. /\ comp' \in [Instances -> CompRow] /\ comp'[i] = row
      /\ \A j \in Instances : j # i => comp'[j] = comp[j]
  BY <1>1
<1>3. TypeOK'
  BY <1>2 DEF TypeOK, NetworkOK, CompRow
<1>4. CallsSound'
  BY DEF CallsSound
<1>5. Held(i)' = H /\ \A j \in Instances : j # i => Held(j)' = Held(j)
  BY <1>2 DEF Held
<1>6. ASSUME NEW k \in Calls, NEW j \in Instances, WaitsFor(call'[k], j) PROVE k \in Held(j)'
  <2>1. CASE call'[k] = call[k] /\ (k \in Held(i) => k \in H)
    <3>1. k \in Held(j)
      BY <1>6, <2>1 DEF IInv, Found
    <3>2. QED
      BY <1>5, <2>1, <3>1
  <2>2. CASE k \in H /\ call[k].pc # "waiting"
    <3>1. i = j
      BY <1>6, <2>2 DEF WaitsFor
    <3>2. QED
      BY <1>5, <2>2, <3>1
  <2>3. call'[k].pc = "waiting"
    BY <1>6 DEF WaitsFor
  <2>4. QED
    BY <2>1, <2>2, <2>3
<1>7. Found'
  BY <1>6 DEF Found
<1>8. CompSound(i)'
  BY <1>2, <1>5 DEF CompSound
<1>9. ASSUME NEW j \in Instances, j # i PROVE CompSound(j)'
  <2>1. CompSound(j)
    BY DEF IInv
  <2>2. ASSUME NEW k \in Calls, k \in Held(j) PROVE WaitsFor(call'[k], j)
    <3>1. WaitsFor(call[k], j)
      BY <2>1, <2>2 DEF CompSound
    <3>2. k \notin Held(i)
      BY <1>9, <3>1 DEF IInv, CompSound, WaitsFor
    <3>3. call[k].pc = "waiting"
      BY <3>1 DEF WaitsFor
    <3>4. call'[k] = call[k]
      BY <3>2, <3>3
    <3>5. QED
      BY <3>1, <3>4
  <2>3. QED
    BY <1>2, <1>5, <1>9, <2>1, <2>2 DEF CompSound
<1>10. QED
  BY <1>3, <1>4, <1>7, <1>8, <1>9 DEF IInv

\* What an instance holds.
LEMMA CompOf ==
    ASSUME IInv, NEW i \in Instances
    PROVE  /\ comp \in [Instances -> CompRow] /\ comp[i] \in CompRow
           /\ comp[i].queue \in Seq(Calls) /\ comp[i].doing \in Calls \cup {None}
           /\ comp[i].alive \in BOOLEAN
           /\ IsInjective(comp[i].queue) /\ comp[i].doing \notin Range(comp[i].queue)
           /\ Held(i) = Range(comp[i].queue) \cup ({comp[i].doing} \ {None})
           /\ Held(i) \subseteq Calls /\ (Held(i) # {} => comp[i].alive)
           /\ \A k \in Held(i) : WaitsFor(call[k], i)
<1>1. comp \in [Instances -> CompRow] /\ comp[i] \in CompRow
  BY TypeParts DEF IInv
<1>2. Held(i) \subseteq Calls
  BY HeldCalls DEF IInv
<1>3. CompSound(i)
  BY DEF IInv
<1>4. QED
  BY <1>1, <1>2, <1>3 DEF CompSound, Held, CompRow

\* With the rows of others as they were, one of which is Done perhaps
LEMMA CallsAfter ==
    ASSUME IInv, NEW k \in Calls, NEW row \in Row, RowSound(row), call' = [call EXCEPT ![k] = row]
    PROVE  /\ call' \in [Calls -> Row] /\ call'[k] = row
           /\ \A j \in Calls : RowSound(call'[j]) /\ (j # k => call'[j] = call[j])
<1>1. call \in [Calls -> Row] /\ \A j \in Calls : RowSound(call[j])
  BY TypeParts DEF IInv, CallsSound
<1>2. QED
  BY <1>1

\* A message is sent to an instance that is alive, or the call fails.
LEMMA SendSound == ASSUME IInv, NEW k \in Calls, Send(k) PROVE IInv'
<1> DEFINE i == call[k].to
<1>1. call[k].pc = "sending" /\ i \in Instances /\ NetworkOK'
  BY RowOf, SameNetwork DEF Send, RowSound
<1>2. CASE Returns(k) /\ comp' = comp
  BY <1>1, <1>2, ReturnSound
<1>3. CASE /\ comp[i].alive /\ comp' = [comp EXCEPT ![i].queue = Append(@, k)]
           /\ Goto(k, "waiting", i)
  <2> DEFINE queue == Append(comp[i].queue, k)
             row == [comp[i] EXCEPT !.queue = queue]
             new == Moved(call[k], "waiting", i)
  <2>1. k \notin Held(i)
    BY <1>1, CompOf DEF WaitsFor
  <2>2. /\ queue \in Seq(Calls) /\ IsInjective(queue)
        /\ Range(queue) = Range(comp[i].queue) \cup {k}
    BY <1>1, <2>1, CompOf, PutLast
  <2>3. /\ comp' = [comp EXCEPT ![i] = row] /\ call' = [call EXCEPT ![k] = new]
    BY <1>3 DEF Goto, Set, Moved
  <2>4. new \in Row /\ RowSound(new) /\ WaitsFor(new, i)
    <3>1. new \in Row /\ RowSound(new) /\ new.pc = "waiting" /\ new.to = i
      BY <1>1, MovedRow
    <3>2. QED
      BY <3>1 DEF WaitsFor
  <2> HIDE DEF queue, new, i
  <2>5. /\ row \in CompRow /\ row.queue = queue /\ row.doing = comp[i].doing
        /\ row.alive
    BY <1>1, <1>3, <2>2, CompOf DEF CompRow
  <2> HIDE DEF row
  <2>6. /\ call' \in [Calls -> Row] /\ call'[k] = new
        /\ \A j \in Calls : RowSound(call'[j]) /\ (j # k => call'[j] = call[j])
    BY <2>3, <2>4, CallsAfter
  <2>7. Range(row.queue) \cup ({row.doing} \ {None}) = Held(i) \cup {k}
    BY <1>1, <2>2, <2>5, CompOf
  <2>8. row.doing \notin Range(row.queue)
    BY <1>1, <2>1, <2>2, <2>5, CompOf, MeshAssumption
  <2>9. \A j \in Calls : j \in Held(i) \cup {k} => WaitsFor(call'[j], i)
    BY <1>1, <2>1, <2>4, <2>6, CompOf
  <2>10. QED
    BY <1>1, <2>2, <2>3, <2>5, <2>6, <2>7, <2>8, <2>9, CompStep
<1>4. QED
  BY <1>2, <1>3 DEF Send

\* The rows of all calls when none of them changes
LEMMA SameCalls ==
    ASSUME IInv, call' = call
    PROVE  call' \in [Calls -> Row] /\ \A k \in Calls : RowSound(call'[k])
BY TypeParts DEF IInv, CallsSound

\* An instance takes the first message of its channel.
LEMMA TakesSound == ASSUME IInv, NEW i \in Instances, Takes(i) PROVE IInv'
<1> DEFINE k == Head(comp[i].queue)
           queue == Tail(comp[i].queue)
           row == [comp[i] EXCEPT !.doing = k, !.queue = queue]
<1>1. /\ comp[i].alive /\ comp[i].doing = None /\ comp[i].queue # <<>>
      /\ call' = call /\ NetworkOK'
  BY SameNetwork DEF Takes
<1>2. comp' = [comp EXCEPT ![i] = row]
  BY DEF Takes
<1>3. /\ k \in Calls /\ queue \in Seq(Calls) /\ IsInjective(queue)
      /\ Range(comp[i].queue) = Range(queue) \cup {k} /\ k \notin Range(queue)
  BY <1>1, CompOf, TakeFirst
<1> HIDE DEF k, queue
<1>4. row \in CompRow /\ row.queue = queue /\ row.doing = k /\ row.alive
  BY <1>1, <1>3, CompOf DEF CompRow
<1> HIDE DEF row
<1>5. Range(row.queue) \cup ({row.doing} \ {None}) = Held(i)
  BY <1>1, <1>3, <1>4, CompOf, MeshAssumption
<1>6. row.doing \notin Range(row.queue)
  BY <1>3, <1>4
<1>7. \A j \in Calls : j \in Held(i) => WaitsFor(call'[j], i)
  BY <1>1, CompOf
<1>8. QED
  BY <1>1, <1>2, <1>3, <1>4, <1>5, <1>6, <1>7, SameCalls, CompStep

\* An instance replies to the caller whose message it has.
LEMMA RepliesSound == ASSUME IInv, NEW i \in Instances, Replies(i) PROVE IInv'
<1> DEFINE k == comp[i].doing
           row == [comp[i] EXCEPT !.doing = None]
           new == Done(call[k].parent)
<1>1. /\ k \in Calls /\ k \notin Range(comp[i].queue) /\ NetworkOK'
      /\ comp' = [comp EXCEPT ![i] = row] /\ call' = [call EXCEPT ![k] = new]
  BY CompOf, SameNetwork DEF Replies, Returns, Set
<1>2. new \in Row /\ RowSound(new) /\ new.pc = "done"
  BY <1>1, RowOf, DoneRow
<1>3. k \in Held(i) /\ comp[i].alive
  <2>1. k # None
    BY DEF Replies
  <2>2. k \in Held(i)
    BY <2>1, CompOf
  <2>3. QED
    BY <2>2, CompOf
<1> HIDE DEF new
<1>4. /\ call' \in [Calls -> Row] /\ call'[k] = new
      /\ \A j \in Calls : RowSound(call'[j]) /\ (j # k => call'[j] = call[j])
  BY <1>1, <1>2, CallsAfter
<1>5. row \in CompRow /\ row.queue = comp[i].queue /\ row.doing = None /\ row.alive
  BY <1>3, CompOf DEF CompRow
<1> HIDE DEF row
<1>6. Range(row.queue) \cup ({row.doing} \ {None}) = Held(i) \ {k}
  BY <1>1, <1>5, CompOf
<1>7. row.doing \notin Range(row.queue) /\ IsInjective(row.queue)
  <2>1. Range(comp[i].queue) \subseteq Calls
    BY CompOf
  <2>2. QED
    BY <1>5, <2>1, CompOf, MeshAssumption
<1>8. \A j \in Calls : j \in Held(i) \ {k} => WaitsFor(call'[j], i)
  BY <1>4, CompOf
<1>9. \A j \in Calls : \/ call'[j] = call[j] /\ (j \in Held(i) => j \in Held(i) \ {k})
                       \/ call'[j].pc # "waiting" /\ (call[j].pc # "waiting" \/ j \in Held(i))
  BY <1>2, <1>3, <1>4
<1>10. QED
  BY <1>1, <1>4, <1>5, <1>6, <1>7, <1>8, <1>9, CompStep

\* An instance ends, and those who wait for it get an error.
LEMMA DiesSound == ASSUME IInv, NEW i \in Instances, Dies(i) PROVE IInv'
<1> DEFINE row == [alive |-> FALSE, queue |-> <<>>, doing |-> None]
<1>1. /\ comp' = [comp EXCEPT ![i] = row] /\ NetworkOK'
      /\ call' = [k \in Calls |-> IF k \in Held(i) THEN Done(call[k].parent) ELSE call[k]]
  BY SameNetwork DEF Dies
<1>2. /\ row \in CompRow /\ IsInjective(row.queue) /\ Range(row.queue) = {} /\ row.doing = None
  BY DEF CompRow, IsInjective, Range
<1> HIDE DEF row
<1>3. ASSUME NEW k \in Calls
      PROVE  /\ call'[k] \in Row /\ RowSound(call'[k])
             /\ k \in Held(i) => call'[k].pc = "done"
             /\ k \notin Held(i) => call'[k] = call[k]
  <2>1. CASE k \in Held(i)
    <3>1. call'[k] = Done(call[k].parent)
      BY <1>1, <2>1
    <3>2. QED
      BY <2>1, <3>1, RowOf, DoneRow
  <2>2. CASE k \notin Held(i)
    <3>1. call'[k] = call[k]
      BY <1>1, <2>2
    <3>2. QED
      BY <2>2, <3>1, RowOf
  <2>3. QED
    BY <2>1, <2>2
<1>4. call' \in [Calls -> Row]
  BY <1>1, <1>3
<1>5. PICK H : H = {}
  OBVIOUS
<1>6. H = Range(row.queue) \cup ({row.doing} \ {None}) /\ row.doing \notin Range(row.queue)
  BY <1>2, <1>5
<1>7. \A k \in Calls : \/ call'[k] = call[k] /\ (k \in Held(i) => k \in H)
                       \/ call'[k].pc # "waiting" /\ (call[k].pc # "waiting" \/ k \in Held(i))
  BY <1>3
<1>8. \A k \in Calls : RowSound(call'[k]) /\ (k \in H => WaitsFor(call'[k], i))
  BY <1>3, <1>5
<1>9. \A k \in Calls : \/ call'[k] = call[k] /\ (k \in Held(i) => k \in H)
                       \/ call'[k].pc # "waiting" /\ (call[k].pc # "waiting" \/ k \in Held(i))
                       \/ k \in H /\ call[k].pc # "waiting"
  BY <1>7
<1>10. H # {} => row.alive
  BY <1>5
<1>11. row \in CompRow /\ IsInjective(row.queue)
  BY <1>2
<1> HIDE <1>2, <1>3, <1>5, <1>7
<1>12. QED
  BY <1>1, <1>4, <1>6, <1>8, <1>9, <1>10, <1>11, CompStep

\* register_component: the name leads to the new instance.
LEMMA RegisterSound == ASSUME IInv, NEW i \in Instances, Register(i) PROVE IInv'
<1> DEFINE row == [comp[i] EXCEPT !.alive = TRUE]
<1>1. comp' = [comp EXCEPT ![i] = row] /\ call' = call
  BY DEF Register
<1>2. NetworkOK'
  <2> DEFINE n == Serves[i][1]
             x == Serves[i][2]
  <2>1. n \in Nodes /\ x \in Names
    BY MeshAssumption DEF Names
  <2>2. /\ router' = [router EXCEPT ![n][x] = i]
        /\ UNCHANGED <<known, clients, listens>>
    BY DEF Register
  <2> HIDE DEF n, x
  <2>3. NetworkOK
    BY TypeParts DEF IInv
  <2>4. router[n] \in [Names -> Instances \cup {None}]
    BY <2>1, <2>3 DEF NetworkOK
  <2>5. [router[n] EXCEPT ![x] = i] \in [Names -> Instances \cup {None}]
    BY <2>4
  <2>6. router' \in [Nodes -> [Names -> Instances \cup {None}]]
    BY <2>2, <2>3, <2>5 DEF NetworkOK
  <2>7. QED
    BY <2>2, <2>3, <2>6 DEF NetworkOK
<1>3. row \in CompRow /\ row.queue = comp[i].queue /\ row.doing = comp[i].doing /\ row.alive
  BY CompOf DEF CompRow
<1> HIDE DEF row
<1>4. Range(row.queue) \cup ({row.doing} \ {None}) = Held(i)
  BY <1>3, CompOf
<1>5. row.doing \notin Range(row.queue) /\ IsInjective(row.queue)
  BY <1>3, CompOf
<1>6. \A j \in Calls : j \in Held(i) => WaitsFor(call'[j], i)
  BY <1>1, CompOf
<1>7. QED
  BY <1>1, <1>2, <1>3, <1>4, <1>5, <1>6, SameCalls, CompStep

\* A request over the network becomes a call at the other node.
LEMMA RequestSound ==
    ASSUME IInv, NEW k \in Calls, NEW child \in Calls, Request(k, child)
    PROVE  IInv'
<1> DEFINE parent == [call[k] EXCEPT !.pc = "remote", !.to = None]
           row == [Unused EXCEPT !.pc = "routing", !.node = call[k].target[1],
                                 !.target = Tail(call[k].target), !.parent = k]
<1>1. /\ call[k].pc = "requesting" /\ call[child].pc = "idle" /\ k # child
      /\ comp' = comp /\ NetworkOK'
  BY SameNetwork DEF Request, New
<1>2. /\ call' = [call EXCEPT ![k].pc = "remote", ![k].to = None, ![child] = row]
      /\ call \in [Calls -> Row]
  BY TypeParts DEF Request, IInv
<1>3. /\ call' \in [Calls -> Row] \/ ~(row \in Row /\ parent \in Row)
      /\ call'[k] = parent /\ call'[child] = row
      /\ \A j \in Calls \ {k, child} : call'[j] = call[j]
  <2> HIDE DEF row
  <2>1. call' = [[call EXCEPT ![k] = parent] EXCEPT ![child] = row]
    BY <1>2
  <2> HIDE DEF parent
  <2>2. QED
    BY <1>1, <1>2, <2>1
<1>4. parent \in Row /\ RowSound(parent) /\ parent.pc = "remote"
  <2>1. parent = Moved(call[k], "remote", None)
    BY DEF Moved
  <2>2. Len(call[k].target) > 1
    BY <1>1, RowOf DEF RowSound
  <2> HIDE DEF parent
  <2>3. QED
    BY <1>1, <2>1, <2>2, MovedRow
<1>5. row \in Row /\ RowSound(row) /\ row.pc = "routing"
  <2>1. IsTarget(call[k].target) /\ Len(call[k].target) > 1
    BY <1>1, RowOf DEF RowSound
  <2>2. call[k].target[1] \in Nodes /\ IsTarget(Tail(call[k].target))
    <3> DEFINE t == call[k].target
    <3>1. t \in Seq(Nodes \cup Names) /\ Len(t) > 1 /\ \A j \in 1..(Len(t) - 1) : t[j] \in Nodes
      BY <2>1 DEF IsTarget
    <3> HIDE DEF t
    <3>2. t[1] \in Nodes
      BY <3>1
    <3>3. /\ Tail(t) \in Seq(Nodes \cup Names) /\ Len(Tail(t)) = Len(t) - 1
          /\ \A j \in 1..(Len(t) - 1) : Tail(t)[j] = t[j + 1]
      BY <3>1
    <3>4. \A j \in 1..(Len(Tail(t)) - 1) : Tail(t)[j] \in Nodes
      BY <3>1, <3>3
    <3>5. Tail(t) # <<>>
      <4>1. Len(t) \in Nat /\ Len(Tail(t)) # 0
        BY <3>1, <3>3
      <4>2. Len(<<>>) = 0
        OBVIOUS
      <4>3. QED
        BY <4>1, <4>2
    <3>6. QED
      BY <3>2, <3>3, <3>4, <3>5 DEF IsTarget, t
  <2>3. PICK node \in Nodes : node = call[k].target[1]
    BY <2>2
  <2>4. PICK target : target = Tail(call[k].target) /\ IsTarget(target)
    BY <2>2
  <2>5. row = [[Unused EXCEPT !.pc = "routing", !.node = node] EXCEPT !.target = target, !.parent = k]
    BY <2>3, <2>4
  <2>6. /\ row.pc = "routing" /\ row.node = node /\ row.target = target
        /\ row \in Row
    <3>1. Unused \in Row
      BY UnusedRow
    <3>2. target \in Seq(Nodes \cup Names)
      BY <2>4 DEF IsTarget
    <3> HIDE DEF row
    <3>3. QED
      BY <2>5, <3>1, <3>2 DEF Row
  <2> HIDE DEF row
  <2>7. QED
    BY <2>4, <2>6 DEF RowSound
<1> HIDE DEF row, parent
<1>6. call' \in [Calls -> Row]
  BY <1>3, <1>4, <1>5
<1>7. \A j \in Calls : RowSound(call'[j])
  BY <1>3, <1>4, <1>5, RowOf
<1>8. \A j \in Calls : \/ call'[j] = call[j]
                       \/ call'[j].pc # "waiting" /\ call[j].pc # "waiting"
  BY <1>1, <1>3, <1>4, <1>5
<1>9. QED
  BY <1>1, <1>6, <1>7, <1>8, QuietSound

\* A component or a plugin at work on a call makes another.
LEMMA HostCallSound ==
    ASSUME IInv, NEW k \in Calls, NEW parent \in Calls, NEW target \in Targets, HostCall(k, parent, target)
    PROVE  IInv'
<1>1. IsTarget(target)
  BY MeshAssumption DEF Targets
<1>2. UNCHANGED <<network, comp>>
  BY DEF HostCall
<1>3. PICK node \in Nodes : Begin(k, node, target, parent, TRUE)
  <2>1. ASSUME NEW i \in Instances PROVE Serves[i][1] \in Nodes
    BY MeshAssumption
  <2>2. call[parent].pc = "plugin" => call[parent].node \in Nodes
    BY RowOf DEF RowSound
  <2>3. QED
    BY <2>1, <2>2 DEF HostCall
<1>4. QED
  BY <1>1, <1>2, <1>3, BeginSound

\* A step of the network leaves instances and calls alone.
LEMMA NetworkStep ==
    ASSUME IInv, NetworkOK', UNCHANGED <<comp, call>>
    PROVE  IInv'
BY SameCalls, QuietSound

\* A node is registered at another.
LEMMA RegisterNodeSound ==
    ASSUME IInv, NEW n \in Nodes, NEW m \in Nodes, RegisterNode(n, m)
    PROVE  IInv'
<1>1. NetworkOK
  BY TypeParts DEF IInv
<1>2. known' \in [Nodes -> [Nodes -> Addresses \cup {None}]]
  <2>1. known' = [known EXCEPT ![n][m] = listens[m]]
    BY DEF RegisterNode
  <2>2. listens[m] \in Addresses \cup {None}
    BY <1>1 DEF NetworkOK
  <2>3. known \in [Nodes -> [Nodes -> Addresses \cup {None}]]
    BY <1>1 DEF NetworkOK
  <2>4. QED
    BY <2>1, <2>2, <2>3, PutAddress
<1>3. NetworkOK'
  BY <1>1, <1>2 DEF RegisterNode, NetworkOK
<1>4. QED
  BY <1>3, NetworkStep DEF RegisterNode

\* A node moves to another address.
LEMMA MovesSound == ASSUME IInv, NEW m \in Nodes, NEW a \in Addresses, Moves(m, a) PROVE IInv'
<1>1. NetworkOK'
  BY TypeParts DEF IInv, Moves, NetworkOK
<1>2. QED
  BY <1>1, NetworkStep DEF Moves

\* Every step of a call keeps the invariant.
LEMMA CallStepSound == ASSUME IInv, NEW k \in Calls, CallStep(k) \/ RequestFails(k) PROVE IInv'
<1>1. CASE RequestFails(k)
  BY <1>1, ReturnSound, SameNetwork DEF RequestFails
<1>2. CASE PluginEnds(k)
  BY <1>2, ReturnSound, SameNetwork DEF PluginEnds
<1>3. ASSUME NEW child \in Calls, Response(k, child) PROVE IInv'
  BY <1>3, ReturnSound, SameNetwork DEF Response
<1>4. QED
  BY <1>1, <1>2, <1>3, RouteSound, SendSound, ConnectSound, RequestSound DEF CallStep

\* Nothing happens.
LEMMA Stutter == ASSUME IInv, UNCHANGED vars PROVE IInv'
BY SameNetwork, NetworkStep DEF vars, network

\* Every step keeps the invariant.
LEMMA Step == ASSUME IInv, Next PROVE IInv'
<1>1. ASSUME NEW k \in Calls, StartCall(k) PROVE IInv'
  <2>1. PICK start \in Starts : Begin(k, start.node, start.target, None, start.may)
    BY <1>1 DEF StartCall
  <2>2. start.node \in Nodes /\ IsTarget(start.target) /\ start.may \in BOOLEAN
    BY MeshAssumption
  <2>3. UNCHANGED <<network, comp>>
    BY <1>1 DEF StartCall
  <2>4. QED
    BY <2>1, <2>2, <2>3, BeginSound
<1>2. ASSUME NEW i \in Mortal, Dies(i) PROVE IInv'
  BY <1>2, DiesSound, MeshAssumption
<1>3. ASSUME NEW link \in Links, NEW a \in Addresses,
             RegisterNode(link[1], link[2]) \/ Moves(link[2], a)
      PROVE  IInv'
  <2>1. link[1] \in Nodes /\ link[2] \in Nodes
    BY MeshAssumption
  <2>2. QED
    BY <1>3, <2>1, RegisterNodeSound, MovesSound
<1>4. ASSUME NEW link \in Links, RegisterNode(link[1], link[2]) PROVE IInv'
  BY <1>3, <1>4, MeshAssumption
<1>5. QED
  BY <1>1, <1>2, <1>3, <1>4, CallStepSound, HostCallSound, TakesSound, RepliesSound, RegisterSound
     DEF Next

\* Initially nobody calls.
LEMMA Initially == Init => IInv
<1> SUFFICES ASSUME Init PROVE IInv
  OBVIOUS
<1>1. First \in Addresses
  BY MeshAssumption DEF First
<1>2. NetworkOK
  <2>1. router \in [Nodes -> [Names -> Instances \cup {None}]]
    <3>1. ASSUME NEW n \in Nodes, NEW x \in Names
          PROVE  (IF \E i \in Started : Serves[i] = <<n, x>>
                  THEN CHOOSE i \in Started : Serves[i] = <<n, x>> ELSE None) \in Instances \cup {None}
      BY MeshAssumption
    <3>2. QED
      BY <3>1 DEF Init
  <2>2. QED
    BY <1>1, <2>1 DEF Init, NetworkOK
<1>3. ASSUME NEW i \in Instances
      PROVE  comp[i] \in CompRow /\ comp[i].queue = <<>> /\ comp[i].doing = None
  BY <1>3 DEF Init, CompRow
<1>4. comp \in [Instances -> CompRow]
  BY <1>3 DEF Init
<1>5. ASSUME NEW k \in Calls
      PROVE  call[k] \in Row /\ RowSound(call[k]) /\ call[k].pc = "idle"
  BY UnusedRow DEF Init
<1>6. call \in [Calls -> Row]
  BY <1>5 DEF Init
<1>7. ASSUME NEW i \in Instances PROVE CompSound(i)
  <2>1. Range(<<>>) = {} /\ IsInjective(<<>>)
    BY DEF Range, IsInjective
  <2>2. Held(i) = {}
    BY <1>3, <2>1 DEF Held
  <2>3. QED
    BY <1>3, <2>1, <2>2 DEF CompSound
<1>8. Found
  BY <1>5 DEF Found, WaitsFor
<1>9. QED
  BY <1>2, <1>4, <1>5, <1>6, <1>7, <1>8, TypeParts DEF IInv, CallsSound

-----------------------------------------------------------------------------
\* The invariant of the mesh.
LEMMA Inductive == Spec => []IInv
<1>1. IInv /\ [Next]_vars => IInv'
  BY Step, Stutter
<1>2. QED
  BY Initially, <1>1, PTL DEF Spec

\* Rows, routes and channels keep their types, whatever is called and ends.
THEOREM TypeCorrect == Spec => []TypeOK
<1>1. IInv => TypeOK
  BY DEF IInv
<1>2. QED
  BY Inductive, <1>1, PTL

\* A caller that waits for a reply has its message in one place, once, at the
\* instance it found, which is there: nobody waits for a channel that is gone
\* (mesh_call), over every component that ends or is registered anew.
THEOREM WaitersAlwaysHeld == Spec => []WaitersHeld
BY Inductive, WaitersAreHeld, PTL
=============================================================================
