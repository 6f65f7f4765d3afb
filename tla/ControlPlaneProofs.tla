------------------------- MODULE ControlPlaneProofs -------------------------
(***************************************************************************)
(* Proofs about ControlPlane, for any number of handlers, branches,        *)
(* connections, broadcasts and sessions, and channels of any size.         *)
(***************************************************************************)
EXTENDS ControlPlane, FiniteSetTheorems, TLAPS

-----------------------------------------------------------------------------
(* The branches of the kernel *)

CallRow == {Idle} \cup [op : {"create"}, id : BranchIds, name : Names]
              \cup [op : {"delete"}, id : BranchIds]
              \cup [op : {"request"}, id : BranchIds, request : RequestIds]

\* A branch to be inserted is not there yet and nobody else inserts it, one to
\* be removed has been there; the states that no handler assigns are not met.
BranchesInv ==
    /\ BranchesTypeOK /\ EndedOnce
    /\ call \in [Handlers -> CallRow]
    /\ \A b \in BranchIds : branches[b].status \notin {"Running", "Failed", "Merging"}
    /\ \A h \in Handlers :
          /\ call[h].op = "create" => branches[call[h].id].status = "absent"
          /\ call[h].op = "delete" => branches[call[h].id].status # "absent"
    /\ \A h, g \in Handlers :
          h # g /\ call[h].op = "create" /\ call[g].op = "create" => call[h].id # call[g].id

\* What a handler in between holds.
LEMMA CallRows ==
    ASSUME NEW row \in CallRow
    PROVE  /\ row.op \in {"idle", "create", "delete", "request"}
           /\ row.op = "create" => row.id \in BranchIds /\ row.name \in Names
           /\ row.op = "delete" => row.id \in BranchIds
           /\ row.op = "request" => row.id \in BranchIds /\ row.request \in RequestIds
BY DEF CallRow, Idle

\* Initially there are no branches.
LEMMA BranchesInitially == BranchesInit => BranchesInv
BY CallRows DEF BranchesInit, BranchesInv, BranchesTypeOK, BranchRow, RequestRow, EndedOnce, CallRow, Idle

\* The types of the branch manager's state.
LEMMA BranchesTypes ==
    ASSUME BranchesInv
    PROVE  /\ branches \in [BranchIds -> BranchRow] /\ requests \in [RequestIds -> RequestRow]
           /\ outcomes \in [BranchIds -> Nat] /\ call \in [Handlers -> CallRow]
BY DEF BranchesInv, BranchesTypeOK

\* A handler goes on to its second lock.
LEMMA GoesSound ==
    ASSUME BranchesInv, NEW h \in Handlers, NEW next \in CallRow, Goes(h, next),
           next.op = "create" => NewBranchId(next.id),
           next.op = "delete" => Stored(next.id)
    PROVE  BranchesInv'
<1>1. /\ branches' = branches /\ requests' = requests /\ outcomes' = outcomes
      /\ call' \in [Handlers -> CallRow] /\ call'[h] = next
      /\ \A g \in Handlers : g # h => call'[g] = call[g]
  BY BranchesTypes DEF Goes
<1>2. /\ BranchesTypeOK' /\ EndedOnce'
  BY <1>1, CallRows DEF BranchesInv, BranchesTypeOK, EndedOnce
<1>3. next.op = "create" => /\ branches[next.id].status = "absent"
                            /\ \A g \in Handlers : call[g].op = "create" => call[g].id # next.id
  BY DEF NewBranchId
<1>4. next.op = "delete" => branches[next.id].status # "absent"
  BY DEF Stored
<1>5. QED
  BY <1>1, <1>2, <1>3, <1>4 DEF BranchesInv

\* A handler is done: the row of b is changed, or nothing.
LEMMA IdleSound ==
    ASSUME BranchesInv, NEW h \in Handlers, call' = [call EXCEPT ![h] = Idle],
           BranchesTypeOK', EndedOnce',
           \A b \in BranchIds : branches'[b].status \notin {"Running", "Failed", "Merging"},
           \A g \in Handlers \ {h} :
              /\ call[g].op = "create" => branches'[call[g].id].status = "absent"
              /\ call[g].op = "delete" => branches'[call[g].id].status # "absent"
    PROVE  BranchesInv'
<1>1. /\ call' \in [Handlers -> CallRow] /\ call'[h].op = "idle"
      /\ \A g \in Handlers : g # h => call'[g] = call[g]
  BY BranchesTypes DEF CallRow, Idle
<1>2. QED
  BY <1>1 DEF BranchesInv

\* create_branch inserts what it has checked.
LEMMA InsertBranchSound ==
    ASSUME BranchesInv, NEW h \in Handlers, InsertBranch(h) PROVE BranchesInv'
<1> DEFINE b == call[h].id
           row == [name |-> call[h].name, status |-> "Pending"]
<1>1. /\ call[h].op = "create" /\ call[h] \in CallRow /\ b \in BranchIds /\ call[h].name \in Names
      /\ branches' = [branches EXCEPT ![b] = row]
      /\ requests' = requests /\ outcomes' = outcomes
  BY BranchesTypes, CallRows DEF InsertBranch
<1>2. row \in BranchRow
  BY <1>1 DEF BranchRow
<1>3. /\ branches' \in [BranchIds -> BranchRow] /\ branches'[b].status = "Pending"
      /\ \A x \in BranchIds : x # b => branches'[x] = branches[x]
  BY <1>1, <1>2, BranchesTypes
<1>4. branches[b].status = "absent" /\ outcomes[b] = 0
  BY <1>1 DEF BranchesInv, EndedOnce
<1>5. call' = [call EXCEPT ![h] = Idle]
  BY DEF InsertBranch
<1>6. \A g \in Handlers : call'[g].op \in {"idle", "create", "delete", "request"}
  BY <1>5, BranchesTypes, CallRows DEF CallRow, Idle
<1>7. BranchesTypeOK' /\ EndedOnce'
  BY <1>1, <1>3, <1>4, <1>6 DEF BranchesInv, BranchesTypeOK, EndedOnce
<1>8. \A g \in Handlers \ {h} : call[g].op = "create" =>
         call[g].id \in BranchIds /\ call[g].id # b /\ branches[call[g].id].status = "absent"
  BY <1>1, BranchesTypes, CallRows DEF BranchesInv
<1>9. \A x \in BranchIds : branches'[x].status \notin {"Running", "Failed", "Merging"}
  BY <1>3 DEF BranchesInv
<1>10. \A g \in Handlers \ {h} :
          /\ call[g].op = "create" => branches'[call[g].id].status = "absent"
          /\ call[g].op = "delete" => branches'[call[g].id].status # "absent"
  <2>1. \A g \in Handlers : call[g].op = "delete" =>
           call[g].id \in BranchIds /\ branches[call[g].id].status # "absent"
    BY BranchesTypes, CallRows DEF BranchesInv
  <2>2. QED
    BY <1>3, <1>8, <2>1
<1>11. QED
  BY <1>5, <1>7, <1>9, <1>10, IdleSound

\* delete_branch removes what it has checked.
LEMMA RemoveBranchSound ==
    ASSUME BranchesInv, NEW h \in Handlers, RemoveBranch(h) PROVE BranchesInv'
<1> DEFINE b == call[h].id
<1>1. /\ call[h].op = "delete" /\ call[h] \in CallRow /\ b \in BranchIds
      /\ branches' = [branches EXCEPT ![b].status = "deleted"]
      /\ requests' = requests /\ outcomes' = outcomes /\ call' = [call EXCEPT ![h] = Idle]
  BY BranchesTypes, CallRows DEF RemoveBranch
<1>2. /\ branches' \in [BranchIds -> BranchRow] /\ branches'[b].status = "deleted"
      /\ \A x \in BranchIds : x # b => branches'[x] = branches[x]
  BY <1>1, BranchesTypes DEF BranchRow
<1>3. \A g \in Handlers : call'[g].op \in {"idle", "create", "delete", "request"}
  BY <1>1, BranchesTypes, CallRows DEF CallRow, Idle
<1>4. BranchesTypeOK' /\ EndedOnce'
  BY <1>1, <1>2, <1>3 DEF BranchesInv, BranchesTypeOK, EndedOnce
<1>5. \A x \in BranchIds : branches'[x].status \notin {"Running", "Failed", "Merging"}
  BY <1>2 DEF BranchesInv
<1>6. \A g \in Handlers \ {h} :
          /\ call[g].op = "create" => branches'[call[g].id].status = "absent"
          /\ call[g].op = "delete" => branches'[call[g].id].status # "absent"
  <2>1. \A g \in Handlers :
          /\ call[g].op = "create" =>
                call[g].id \in BranchIds /\ branches[call[g].id].status = "absent"
          /\ call[g].op = "delete" =>
                call[g].id \in BranchIds /\ branches[call[g].id].status # "absent"
    BY BranchesTypes, CallRows DEF BranchesInv
  <2>2. branches[b].status # "absent"
    BY <1>1 DEF BranchesInv
  <2>3. QED
    BY <1>2, <2>1, <2>2
<1>7. QED
  BY <1>1, <1>4, <1>5, <1>6, IdleSound

\* request_merge inserts the request of a branch it has checked.
LEMMA InsertRequestSound ==
    ASSUME BranchesInv, NEW h \in Handlers, InsertRequest(h) PROVE BranchesInv'
<1>1. /\ call[h].op = "request" /\ call[h] \in CallRow /\ call[h].request \in RequestIds
      /\ requests' = [requests EXCEPT ![call[h].request].status = "Pending"]
      /\ branches' = branches /\ outcomes' = outcomes /\ call' = [call EXCEPT ![h] = Idle]
  BY BranchesTypes, CallRows DEF InsertRequest
<1>2. requests' \in [RequestIds -> RequestRow]
  BY <1>1, BranchesTypes DEF RequestRow
<1>3. \A g \in Handlers : call'[g].op \in {"idle", "create", "delete", "request"}
  BY <1>1, BranchesTypes, CallRows DEF CallRow, Idle
<1>4. BranchesTypeOK' /\ EndedOnce'
  BY <1>1, <1>2, <1>3 DEF BranchesInv, BranchesTypeOK, EndedOnce
<1>5. \A b \in BranchIds : branches'[b].status \notin {"Running", "Failed", "Merging"}
  BY <1>1 DEF BranchesInv
<1>6. \A g \in Handlers \ {h} :
          /\ call[g].op = "create" => branches'[call[g].id].status = "absent"
          /\ call[g].op = "delete" => branches'[call[g].id].status # "absent"
  BY <1>1 DEF BranchesInv
<1>7. QED
  BY <1>1, <1>4, <1>5, <1>6, IdleSound

\* Both calls that end a branch find it as nobody has ended it.
LEMMA EndsSound ==
    ASSUME BranchesInv, NEW h \in Handlers, NEW b \in BranchIds,
           branches[b].status = "Pending",
           NEW status \in {"Completed", "Aborted"}, Ends(h, b, status)
    PROVE  BranchesInv'
<1>1. /\ branches' = [branches EXCEPT ![b].status = status]
      /\ outcomes' = [outcomes EXCEPT ![b] = @ + 1] /\ requests' = requests /\ call' = call
  BY DEF Ends
<1>2. /\ branches' \in [BranchIds -> BranchRow] /\ branches'[b].status = status
      /\ \A x \in BranchIds : x # b => branches'[x] = branches[x]
  BY <1>1, BranchesTypes DEF BranchRow
<1>3. outcomes[b] = 0
  BY DEF BranchesInv, EndedOnce
<1>4. /\ outcomes' \in [BranchIds -> Nat] /\ outcomes'[b] = 1
      /\ \A x \in BranchIds : x # b => outcomes'[x] = outcomes[x]
  BY <1>1, <1>3, BranchesTypes
<1>5. BranchesTypeOK' /\ EndedOnce'
  BY <1>1, <1>2, <1>4 DEF BranchesInv, BranchesTypeOK, EndedOnce
<1>6. \A g \in Handlers : /\ call[g].op = "create" => call[g].id \in BranchIds
                          /\ call[g].op = "delete" => call[g].id \in BranchIds
  BY BranchesTypes, CallRows
<1>7. \A g \in Handlers : /\ call[g].op = "create" => branches'[call[g].id].status = "absent"
                          /\ call[g].op = "delete" => branches'[call[g].id].status # "absent"
  BY <1>2, <1>6 DEF BranchesInv
<1>8. \A x \in BranchIds : branches'[x].status \notin {"Running", "Failed", "Merging"}
  BY <1>2 DEF BranchesInv
<1>9. QED
  BY <1>1, <1>5, <1>7, <1>8 DEF BranchesInv

\* A request is approved or rejected once.
LEMMA JudgeSound ==
    ASSUME BranchesInv, NEW h \in Handlers, NEW r \in RequestIds,
           NEW status \in {"Approved", "Rejected"}, Judge(h, r, status)
    PROVE  BranchesInv'
<1>1. /\ requests' \in [RequestIds -> RequestRow]
      /\ branches' = branches /\ outcomes' = outcomes /\ call' = call
  BY BranchesTypes DEF Judge, RequestRow
<1>2. QED
  BY <1>1 DEF BranchesInv, BranchesTypeOK, EndedOnce

\* A step elsewhere leaves the branches alone.
LEMMA BranchesStutter == ASSUME BranchesInv, UNCHANGED branchVars PROVE BranchesInv'
BY DEF branchVars, BranchesInv, BranchesTypeOK, EndedOnce

\* Every step of the branch manager keeps its invariant.
LEMMA BranchesStep == ASSUME BranchesInv, BranchesNext PROVE BranchesInv'
<1>1. PICK h \in Handlers :
        \/ \E b \in BranchIds, n \in Names : CheckName(h, b, n)
        \/ \E b \in BranchIds : CheckStored(h, b) \/ ExecuteBranch(h, b) \/ AbortBranch(h, b)
        \/ \E b \in BranchIds, r \in RequestIds : CheckBranch(h, b, r)
        \/ \E r \in RequestIds, s \in {"Approved", "Rejected"} : Judge(h, r, s)
        \/ InsertBranch(h) \/ RemoveBranch(h) \/ InsertRequest(h) \/ Refuse(h)
  BY DEF BranchesNext
<1>2. ASSUME NEW b \in BranchIds, NEW n \in Names, CheckName(h, b, n) PROVE BranchesInv'
  <2> DEFINE next == [op |-> "create", id |-> b, name |-> n]
  <2>1. next \in CallRow /\ next.op = "create" /\ next.id = b
    BY DEF CallRow
  <2>2. Goes(h, next) /\ NewBranchId(b)
    BY <1>2 DEF CheckName
  <2> HIDE DEF next
  <2>3. QED
    BY <2>1, <2>2, GoesSound
<1>3. ASSUME NEW b \in BranchIds, CheckStored(h, b) PROVE BranchesInv'
  <2> DEFINE next == [op |-> "delete", id |-> b]
  <2>1. next \in CallRow /\ next.op = "delete" /\ next.id = b
    BY DEF CallRow
  <2>2. Goes(h, next) /\ Stored(b)
    BY <1>3 DEF CheckStored
  <2> HIDE DEF next
  <2>3. QED
    BY <2>1, <2>2, GoesSound
<1>4. ASSUME NEW b \in BranchIds, NEW r \in RequestIds, CheckBranch(h, b, r) PROVE BranchesInv'
  <2> DEFINE next == [op |-> "request", id |-> b, request |-> r]
  <2>1. next \in CallRow /\ next.op = "request"
    BY DEF CallRow
  <2>2. Goes(h, next)
    BY <1>4 DEF CheckBranch
  <2> HIDE DEF next
  <2>3. QED
    BY <2>1, <2>2, GoesSound
<1>5. ASSUME NEW b \in BranchIds, ExecuteBranch(h, b) \/ AbortBranch(h, b) PROVE BranchesInv'
  <2>1. branches[b].status = "Pending"
    BY <1>5 DEF ExecuteBranch, AbortBranch, BranchesInv
  <2>2. Ends(h, b, "Completed") \/ Ends(h, b, "Aborted")
    BY <1>5 DEF ExecuteBranch, AbortBranch
  <2>3. QED
    BY <2>1, <2>2, EndsSound
<1>6. QED
  BY <1>1, <1>2, <1>3, <1>4, <1>5, JudgeSound, InsertBranchSound, RemoveBranchSound,
     InsertRequestSound, BranchesStutter DEF Refuse

-----------------------------------------------------------------------------
(* The connections *)

\* A client that has not connected has received nothing, and none is ahead of
\* what was sent.
SocketsInv ==
    /\ SocketsTypeOK /\ SettledOnce /\ ReceivedInOrder
    /\ \A c \in Clients : /\ conn[c].next <= sent
                          /\ conn[c].at = "none" => conn[c].got = <<>>

\* The types of the connections.
LEMMA SocketsTypes ==
    ASSUME SocketsInv
    PROVE  /\ sent \in 0..MaxSent /\ conn \in [Clients -> ConnRow]
           /\ session \in [SessionIds -> {"none", "open", "gone"}]
           /\ settled \in [SessionIds -> Nat]
           /\ IsFiniteSet(Receivers) /\ count = Cardinality(Receivers)
<1>1. IsFiniteSet(Receivers)
  BY SocketsAssumption, FS_Subset DEF Receivers
<1>2. QED
  BY <1>1 DEF SocketsInv, SocketsTypeOK

\* Initially nobody is connected.
LEMMA SocketsInitially == SocketsInit => SocketsInv
<1> SUFFICES ASSUME SocketsInit PROVE SocketsInv
  OBVIOUS
<1>1. Receivers = {}
  BY DEF SocketsInit, Receivers
<1>2. count = Cardinality(Receivers)
  BY <1>1, FS_EmptySet DEF SocketsInit
<1>3. QED
  BY <1>2, SocketsAssumption
     DEF SocketsInit, SocketsInv, SocketsTypeOK, ConnRow, SettledOnce, ReceivedInOrder

\* A connection that changes leaves the others as they are.
LEMMA OneRow ==
    ASSUME SocketsInv, NEW c \in Clients, NEW row \in ConnRow, conn' = [conn EXCEPT ![c] = row]
    PROVE  /\ conn' \in [Clients -> ConnRow] /\ conn'[c] = row
           /\ \A d \in Clients : d # c => conn'[d] = conn[d]
<1>1. conn \in [Clients -> ConnRow]
  BY SocketsTypes
<1>2. QED
  BY <1>1

\* The receivers when the row of c is another
LEMMA CountFollows ==
    ASSUME SocketsInv, NEW c \in Clients, NEW row \in ConnRow, conn' = [conn EXCEPT ![c] = row],
           \/ /\ c \in Receivers /\ row.at \notin {"select", "handling", "closing"} /\ count' = count - 1
           \/ /\ c \notin Receivers /\ row.at \in {"select", "handling", "closing"} /\ count' = count + 1
           \/ /\ c \in Receivers <=> row.at \in {"select", "handling", "closing"}
              /\ count' = count
    PROVE  conn' \in [Clients -> ConnRow] /\ count' = Cardinality(Receivers')
<1>1. /\ conn' \in [Clients -> ConnRow] /\ conn'[c] = row
      /\ \A d \in Clients : d # c => conn'[d] = conn[d]
  BY OneRow
<1>2. CASE c \in Receivers /\ row.at \notin {"select", "handling", "closing"} /\ count' = count - 1
  <2>1. Receivers' = Receivers \ {c}
    BY <1>1, <1>2 DEF Receivers
  <2>2. QED
    BY <1>1, <1>2, <2>1, SocketsTypes, FS_RemoveElement
<1>3. CASE c \notin Receivers /\ row.at \in {"select", "handling", "closing"} /\ count' = count + 1
  <2>1. Receivers' = Receivers \cup {c}
    BY <1>1, <1>3 DEF Receivers
  <2>2. QED
    BY <1>1, <1>3, <2>1, SocketsTypes, FS_AddElement
<1>4. CASE (c \in Receivers <=> row.at \in {"select", "handling", "closing"}) /\ count' = count
  <2>1. Receivers' = Receivers
    BY <1>1, <1>4 DEF Receivers
  <2>2. QED
    BY <1>1, <1>4, <2>1, SocketsTypes
<1>5. QED
  BY <1>2, <1>3, <1>4

InOrder(row) == /\ row.got = [i \in 1..Len(row.got) |-> row.since + i]
                /\ row.next = row.since + Len(row.got)

\* A step of one connection, whose row stays in order.
LEMMA ConnSound ==
    ASSUME SocketsInv, NEW c \in Clients, NEW row \in ConnRow, conn' = [conn EXCEPT ![c] = row],
           conn' \in [Clients -> ConnRow] /\ count' = Cardinality(Receivers'),
           sent' = sent, session' \in [SessionIds -> {"none", "open", "gone"}],
           settled' \in [SessionIds -> Nat], SettledOnce',
           row.next <= sent, row.at # "none", InOrder(row)
    PROVE  SocketsInv'
<1>1. /\ conn'[c] = row /\ \A d \in Clients : d # c => conn'[d] = conn[d]
  BY OneRow
<1>2. SocketsTypeOK'
  BY SocketsTypes DEF SocketsTypeOK
<1>3. ASSUME NEW d \in Clients PROVE InOrder(conn'[d])
  <2>1. CASE d = c
    BY <1>1, <2>1
  <2>2. CASE d # c
    <3>1. InOrder(conn[d])
      BY DEF SocketsInv, ReceivedInOrder, InOrder
    <3>2. conn'[d] = conn[d]
      BY <1>1, <2>2
    <3>3. QED
      BY <3>1, <3>2
  <2>3. QED
    BY <2>1, <2>2
<1>4. ReceivedInOrder'
  BY <1>3 DEF ReceivedInOrder, InOrder
<1>5. QED
  BY <1>1, <1>2, <1>4 DEF SocketsInv

\* Sessions are settled under the mutex.
LEMMA SessionSound ==
    ASSUME SocketsInv, SessionAction \/ Query
    PROVE  /\ session' \in [SessionIds -> {"none", "open", "gone"}]
           /\ settled' \in [SessionIds -> Nat] /\ SettledOnce'
<1>1. CASE Query
  BY <1>1, SocketsTypes DEF Query, SocketsInv, SettledOnce
<1>2. CASE SessionAction
  <2>1. PICK s \in SessionIds : BeginSession(s) \/ Settle(s)
    BY <1>2 DEF SessionAction
  <2>2. CASE BeginSession(s)
    <3>1. /\ session' = [session EXCEPT ![s] = "open"] /\ session[s] = "none" /\ settled' = settled
      BY <2>2 DEF BeginSession
    <3>2. QED
      BY <3>1, SocketsTypes DEF SocketsInv, SettledOnce
  <2>3. CASE Settle(s)
    <3>1. /\ session' = [session EXCEPT ![s] = "gone"] /\ session[s] = "open"
          /\ settled' = settled \/ settled' = [settled EXCEPT ![s] = @ + 1]
      BY <2>3 DEF Settle
    <3>2. settled[s] = 0
      BY <3>1, SocketsTypes DEF SocketsInv, SettledOnce
    <3>3. QED
      BY <3>1, <3>2, SocketsTypes DEF SocketsInv, SettledOnce
  <2>4. QED
    BY <2>1, <2>2, <2>3
<1>3. QED
  BY <1>1, <1>2

\* Where no session changes, each is settled once at most.
LEMMA SameSession ==
    ASSUME SocketsInv, UNCHANGED <<session, settled>>
    PROVE  /\ session' \in [SessionIds -> {"none", "open", "gone"}]
           /\ settled' \in [SessionIds -> Nat] /\ SettledOnce'
BY SessionSound DEF Query

\* The numbers of a connection, and what it has received
LEMMA RowNumbers ==
    ASSUME SocketsInv, NEW c \in Clients
    PROVE  /\ MaxSent \in Nat /\ sent \in Nat /\ sent <= MaxSent
           /\ conn[c].since \in Nat /\ conn[c].next \in Nat /\ Len(conn[c].got) \in Nat
           /\ conn[c].next = conn[c].since + Len(conn[c].got)
           /\ conn[c].next <= sent
<1>1. conn[c] \in ConnRow /\ sent \in 0..MaxSent /\ MaxSent \in Nat
  BY SocketsTypes, SocketsAssumption
<1>2. sent \in Nat /\ sent <= MaxSent
  BY <1>1
<1>3. /\ conn[c].since \in 0..MaxSent /\ conn[c].next \in 0..MaxSent
      /\ conn[c].got \in Seq(1..MaxSent)
  BY <1>1 DEF ConnRow
<1>4. Len(conn[c].got) \in Nat
  BY <1>3
<1>5. conn[c].since \in Nat /\ conn[c].next \in Nat
  BY <1>1, <1>3
<1>6. conn[c].next = conn[c].since + Len(conn[c].got) /\ conn[c].next <= sent
  BY DEF SocketsInv, ReceivedInOrder
<1>7. QED
  BY <1>1, <1>2, <1>4, <1>5, <1>6

\* What a connection has received is what was sent since it was made.
LEMMA RowOf ==
    ASSUME SocketsInv, NEW c \in Clients
    PROVE  /\ conn[c] \in ConnRow /\ conn[c].got \in Seq(1..MaxSent)
           /\ conn[c].got = [i \in 1..Len(conn[c].got) |-> conn[c].since + i]
           /\ conn[c].next = conn[c].since + Len(conn[c].got)
           /\ conn[c].next <= sent
BY SocketsTypes DEF SocketsInv, ReceivedInOrder, ConnRow

\* A connection goes on to another place of its loop.
LEMMA MovesSound ==
    ASSUME SocketsInv, NEW c \in Clients, NEW at \in {"select", "handling", "closing"},
           Goto(c, at), c \in Receivers, sent' = sent, count' = count,
           session' \in [SessionIds -> {"none", "open", "gone"}],
           settled' \in [SessionIds -> Nat], SettledOnce'
    PROVE  SocketsInv'
<1> DEFINE row == [conn[c] EXCEPT !.at = at]
<1>1. conn' = [conn EXCEPT ![c] = row]
  BY DEF Goto
<1>2. /\ row \in ConnRow /\ row.at = at /\ row.next = conn[c].next
      /\ row.since = conn[c].since /\ row.got = conn[c].got
  BY RowOf DEF ConnRow
<1> HIDE DEF row
<1>3. conn' \in [Clients -> ConnRow] /\ count' = Cardinality(Receivers')
  BY <1>1, <1>2, CountFollows
<1>4. QED
  BY <1>1, <1>2, <1>3, RowOf, ConnSound DEF InOrder

\* A connection that ends gives its receiver back.
LEMMA GoneSound == ASSUME SocketsInv, NEW c \in Clients, c \in Receivers, Gone(c) PROVE SocketsInv'
<1> DEFINE row == [conn[c] EXCEPT !.at = "closed"]
<1>1. /\ conn' = [conn EXCEPT ![c] = row] /\ count' = count - 1 /\ sent' = sent
      /\ UNCHANGED <<session, settled>>
  BY DEF Gone, Goto
<1>2. /\ row \in ConnRow /\ row.at = "closed" /\ row.next = conn[c].next
      /\ row.since = conn[c].since /\ row.got = conn[c].got
  BY RowOf DEF ConnRow
<1> HIDE DEF row
<1>3. conn' \in [Clients -> ConnRow] /\ count' = Cardinality(Receivers')
  BY <1>1, <1>2, CountFollows
<1>4. QED
  BY <1>1, <1>2, <1>3, RowOf, ConnSound, SameSession DEF InOrder

\* A connection that is made receives what is sent from then on.
LEMMA ConnectSound == ASSUME SocketsInv, NEW c \in Clients, Connect(c) PROVE SocketsInv'
<1> DEFINE row == [conn[c] EXCEPT !.at = "select", !.since = sent, !.next = sent]
<1>1. /\ conn[c].at = "none" /\ conn' = [conn EXCEPT ![c] = row] /\ count' = count + 1
      /\ sent' = sent /\ UNCHANGED <<session, settled>>
  BY DEF Connect
<1>2. /\ row \in ConnRow /\ row.at = "select" /\ row.next = sent
      /\ row.since = sent /\ row.got = conn[c].got
  BY RowOf, SocketsTypes DEF ConnRow
<1>3. conn[c].got = <<>>
  BY <1>1 DEF SocketsInv
<1>4. c \notin Receivers
  BY <1>1 DEF Receivers
<1> HIDE DEF row
<1>5. conn' \in [Clients -> ConnRow] /\ count' = Cardinality(Receivers')
  BY <1>1, <1>2, <1>4, CountFollows
<1>6. /\ row.got = [i \in 1..Len(row.got) |-> row.since + i]
      /\ row.next = row.since + Len(row.got)
  <2>1. row.got = <<>> /\ row.since = sent /\ row.next = sent /\ sent \in Nat
    BY <1>2, <1>3, RowNumbers
  <2>2. QED
    BY <2>1
<1>7. row.next <= sent /\ row.at # "none"
  BY <1>2, RowNumbers
<1>8. QED
  BY <1>1, <1>2, <1>5, <1>6, <1>7, ConnSound, SameSession DEF InOrder

\* What counts on from m still does with the next number.
LEMMA CountsOn ==
    ASSUME NEW s \in Seq(Nat), NEW m \in Nat, s = [i \in 1..Len(s) |-> m + i]
    PROVE  Append(s, m + Len(s) + 1) = [i \in 1..(Len(s) + 1) |-> m + i]
<1> DEFINE n == Len(s)
           t == Append(s, m + n + 1)
<1>1. n \in Nat /\ t \in Seq(Nat) /\ Len(t) = n + 1
  OBVIOUS
<1>2. (\A i \in 1..n : t[i] = s[i]) /\ t[n + 1] = m + n + 1
  OBVIOUS
<1>3. \A i \in 1..n : s[i] = m + i
  OBVIOUS
<1> HIDE DEF n, t
<1>4. ASSUME NEW i \in 1..(n + 1) PROVE t[i] = m + i
  <2>1. CASE i = n + 1
    BY <1>1, <1>2, <2>1
  <2>2. CASE i # n + 1
    <3>1. i \in 1..n
      BY <1>1, <2>2
    <3>2. QED
      BY <1>2, <1>3, <3>1
  <2>3. QED
    BY <2>1, <2>2
<1>5. t = [i \in 1..(n + 1) |-> t[i]]
  BY <1>1
<1>6. QED
  BY <1>4, <1>5 DEF n, t

\* The next message of the ring is the one after those received.
LEMMA ReceiveSound == ASSUME SocketsInv, NEW c \in Clients, Receive(c) PROVE SocketsInv'
<1>1. conn[c].at = "select" /\ c \in Receivers /\ conn[c].next < sent
  BY DEF Receive, Receivers
<1>2. CASE Lagged(c)
  BY <1>1, <1>2, MovesSound, SameSession DEF Lagged
<1>3. CASE ~(sent - conn[c].next > Capacity)
  <2> DEFINE n == conn[c].next
             row == [conn[c] EXCEPT !.next = n + 1, !.got = Append(conn[c].got, n + 1)]
  <2>1. /\ conn' = [conn EXCEPT ![c] = row] /\ sent' = sent /\ count' = count
        /\ UNCHANGED <<session, settled>>
    BY <1>3 DEF Receive
  <2>2. n + 1 \in 1..MaxSent /\ n + 1 \in 0..MaxSent /\ n + 1 <= sent
    BY <1>1, RowNumbers
  <2>3. Append(conn[c].got, n + 1) \in Seq(1..MaxSent)
    <3>1. conn[c].got \in Seq(1..MaxSent)
      BY RowOf
    <3>2. QED
      BY <2>2, <3>1
  <2>4. /\ row \in ConnRow /\ row.at = "select" /\ row.next = n + 1
        /\ row.since = conn[c].since /\ row.got = Append(conn[c].got, n + 1)
    BY <1>1, <2>2, <2>3, RowOf DEF ConnRow
  <2> HIDE DEF row
  <2>5. conn' \in [Clients -> ConnRow] /\ count' = Cardinality(Receivers')
    BY <1>1, <2>1, <2>4, CountFollows
  <2>6. Len(row.got) = Len(conn[c].got) + 1
    BY <2>4, RowOf
  <2>7. row.next = row.since + Len(row.got)
    BY <2>4, <2>6, RowNumbers
  <2>8. row.got = [i \in 1..Len(row.got) |-> row.since + i]
    <3> DEFINE got == conn[c].got
    <3>1. got \in Seq(1..MaxSent) /\ Len(got) \in Nat
      <4>1. got \in Seq(1..MaxSent)
        BY RowOf
      <4>2. Len(got) \in Nat
        BY RowNumbers
      <4>3. QED
        BY <4>1, <4>2
    <3>2. n + 1 = conn[c].since + Len(got) + 1 /\ conn[c].since \in Nat
      BY RowNumbers
    <3>3. got \in Seq(Nat)
      BY <3>1, RowNumbers
    <3>4. got = [i \in 1..Len(got) |-> conn[c].since + i]
      BY RowOf
    <3>5. Append(got, n + 1) = [i \in 1..(Len(got) + 1) |-> conn[c].since + i]
      <4> HIDE DEF got
      <4>1. Append(got, conn[c].since + Len(got) + 1) = [i \in 1..(Len(got) + 1) |-> conn[c].since + i]
        BY <3>2, <3>3, <3>4, CountsOn
      <4>2. QED
        BY <3>2, <4>1
    <3>6. QED
      BY <2>4, <2>6, <3>5
  <2>9. QED
    BY <2>1, <2>2, <2>4, <2>5, <2>7, <2>8, ConnSound, SameSession DEF InOrder
<1>4. QED
  BY <1>2, <1>3 DEF Receive

\* A text message may settle a session, and is answered.
LEMMA TextSound == ASSUME SocketsInv, NEW c \in Clients, Text(c) PROVE SocketsInv'
<1> DEFINE row == [conn[c] EXCEPT !.at = "handling", !.texts = conn[c].texts + 1]
<1>1. /\ conn[c].at = "select" /\ c \in Receivers /\ conn[c].texts < MaxTexts
      /\ conn' = [conn EXCEPT ![c] = row] /\ sent' = sent /\ count' = count
      /\ UNCHANGED <<session, settled>>
  BY DEF Text, Receivers
<1>2. conn[c].texts + 1 \in 0..MaxTexts
  <2>1. conn[c].texts \in 0..MaxTexts
    BY RowOf DEF ConnRow
  <2>2. QED
    BY <1>1, <2>1, SocketsAssumption
<1>3. /\ row \in ConnRow /\ row.at = "handling" /\ row.next = conn[c].next
      /\ row.since = conn[c].since /\ row.got = conn[c].got
  BY <1>2, RowOf DEF ConnRow
<1> HIDE DEF row
<1>4. conn' \in [Clients -> ConnRow] /\ count' = Cardinality(Receivers')
  BY <1>1, <1>3, CountFollows
<1>5. row.next <= sent /\ row.at # "none" /\ InOrder(row)
  BY <1>3, RowOf DEF InOrder
<1>6. /\ session' \in [SessionIds -> {"none", "open", "gone"}]
      /\ settled' \in [SessionIds -> Nat] /\ SettledOnce'
  BY <1>1, SameSession
<1>7. QED
  BY <1>1, <1>3, <1>4, <1>5, <1>6, ConnSound

\* A broadcast, and a session over HTTP, leave the connections alone.
LEMMA NoConnSound ==
    ASSUME SocketsInv, UNCHANGED <<conn, count>>,
           session' \in [SessionIds -> {"none", "open", "gone"}],
           settled' \in [SessionIds -> Nat], SettledOnce',
           sent' \in 0..MaxSent, sent <= sent'
    PROVE  SocketsInv'
<1>1. Receivers' = Receivers
  BY DEF Receivers
<1>2. SocketsTypeOK' /\ ReceivedInOrder'
  BY <1>1 DEF SocketsInv, SocketsTypeOK, ReceivedInOrder
<1>3. \A c \in Clients : conn'[c].next <= sent'
  BY RowNumbers, SocketsAssumption
<1>4. QED
  BY <1>2, <1>3 DEF SocketsInv

\* A step elsewhere leaves the connections alone.
LEMMA SocketsStutter == ASSUME SocketsInv, UNCHANGED socketVars PROVE SocketsInv'
BY NoConnSound, SameSession, SocketsTypes, SocketsAssumption DEF socketVars

\* Every step of the connections keeps their invariant.
LEMMA SocketsStep == ASSUME SocketsInv, SocketsNext PROVE SocketsInv'
<1>1. CASE Broadcast
  BY <1>1, NoConnSound, SameSession, SocketsTypes, SocketsAssumption DEF Broadcast
<1>2. CASE HttpSession
  BY <1>2, NoConnSound, SessionSound, SocketsTypes, SocketsAssumption DEF HttpSession
<1>3. ASSUME NEW c \in Clients, Reply(c) PROVE SocketsInv'
  <2>1. c \in Receivers /\ Goto(c, "select") /\ sent' = sent /\ count' = count
    BY <1>3 DEF Reply, Receivers
  <2>2. QED
    BY <1>3, <2>1, MovesSound, SessionSound DEF Reply
<1>4. ASSUME NEW c \in Clients, Leave(c) PROVE SocketsInv'
  <2>1. c \in Receivers /\ Goto(c, "closing") /\ sent' = sent /\ count' = count
    BY <1>4 DEF Leave, Receivers
  <2>2. QED
    BY <1>4, <2>1, MovesSound, SameSession DEF Leave
<1>5. ASSUME NEW c \in Clients, Close(c) \/ SendFails(c) PROVE SocketsInv'
  <2>1. c \in Receivers /\ Gone(c)
    BY <1>5 DEF Close, SendFails, Receivers
  <2>2. QED
    BY <2>1, GoneSound
<1>6. QED
  BY <1>1, <1>2, <1>3, <1>4, <1>5, ConnectSound, ReceiveSound, TextSound, SocketsStutter
     DEF SocketsNext, Chatter

-----------------------------------------------------------------------------
(* The terminal client *)

EventRow == [kind : {"none", "established", "error", "closed"}, last : BOOLEAN]
            \cup [kind : {"text"}, last : BOOLEAN, text : Nat]

UiRow == [at : {"poll", "sending", "draining", "gone"}, shown : Seq(Nat),
          status : {"Connecting", "Connected", "Error", "Disconnected"}]
NetRow == [at : {"connecting", "select", "report", "over"}, event : EventRow]

TuiInv ==
    /\ ui \in UiRow /\ net \in NetRow
    /\ typed \in Nat /\ read \in Nat
    /\ events \in Seq(EventRow) /\ outgoing \in Seq(Nat)
    /\ Len(events) <= ChannelSize /\ Len(outgoing) <= ChannelSize

\* The invariant of the terminal has its types.
LEMMA TuiTyped == TuiInv => TuiTypeOK
BY DEF TuiInv, TuiTypeOK, UiRow, NetRow

\* The terminal starts with empty channels.
LEMMA TuiInitially == TuiInit => TuiInv
BY ChannelAssumption DEF TuiInit, TuiInv, NewUi, NewNet, Nothing, UiRow, NetRow, EventRow

\* A step elsewhere leaves the terminal alone.
LEMMA TuiStutter == ASSUME TuiInv, UNCHANGED tuiVars PROVE TuiInv'
BY DEF TuiInv, tuiVars

\* A channel holds no more than there is room for.
LEMMA PutWithRoom ==
    ASSUME NEW S, NEW q \in Seq(S), NEW e \in S, Len(q) < ChannelSize
    PROVE  Append(q, e) \in Seq(S) /\ Len(Append(q, e)) <= ChannelSize
BY ChannelAssumption

\* Taking from a channel leaves it within its size.
LEMMA TakeFirst ==
    ASSUME NEW S, NEW q \in Seq(S), q # <<>>, Len(q) <= ChannelSize
    PROVE  Tail(q) \in Seq(S) /\ Len(Tail(q)) <= ChannelSize /\ Head(q) \in S
BY ChannelAssumption

\* The terminal goes on to another place of its loop.
LEMMA UiMoves ==
    ASSUME TuiInv, NEW at \in {"poll", "sending", "draining", "gone"}, UiAt(at)
    PROVE  ui' \in UiRow
BY DEF UiAt, TuiInv, UiRow

\* The events of the network task.
LEMMA EventRows ==
    /\ \A kind \in {"established", "error", "closed"}, last \in BOOLEAN : Event(kind, last) \in EventRow
    /\ \A n \in Nat : [kind |-> "text", last |-> FALSE, text |-> n] \in EventRow
BY DEF Event, EventRow

\* The network task has an event to put into its channel.
LEMMA ReportSound == ASSUME NEW event \in EventRow, Reports(event) PROVE net' \in NetRow
BY DEF Reports, NetRow

\* Every step of the terminal keeps its invariant.
LEMMA TuiStep == ASSUME TuiInv, TuiNext PROVE TuiInv'
<1>1. CASE Enter \/ NoKey \/ Drained
  <2>1. ui' \in UiRow
    BY <1>1, UiMoves DEF Enter, NoKey, Drained
  <2>2. typed' \in Nat /\ UNCHANGED <<net, read, events, outgoing, written>>
    BY <1>1 DEF Enter, NoKey, Drained, TuiInv
  <2>3. QED
    BY <2>1, <2>2 DEF TuiInv
<1>2. CASE Enqueue
  <2>1. ui' \in UiRow
    BY <1>2, UiMoves DEF Enqueue
  <2>2. outgoing' \in Seq(Nat) /\ Len(outgoing') <= ChannelSize
    BY <1>2, PutWithRoom DEF Enqueue, TuiInv
  <2>3. QED
    BY <1>2, <2>1, <2>2 DEF Enqueue, TuiInv
<1>3. CASE HandleEvent
  <2>1. /\ events' \in Seq(EventRow) /\ Len(events') <= ChannelSize
        /\ Head(events) \in EventRow
    BY <1>3, TakeFirst DEF HandleEvent, TuiInv
  <2>2. StatusAfter(Head(events).kind) \in {"Connecting", "Connected", "Error", "Disconnected"}
    BY DEF StatusAfter, TuiInv, UiRow
  <2>3. (IF Head(events).kind = "text" THEN Append(ui.shown, Head(events).text) ELSE ui.shown)
           \in Seq(Nat)
    BY <2>1 DEF TuiInv, UiRow, EventRow
  <2>4. ui' \in UiRow
    BY <1>3, <2>2, <2>3 DEF HandleEvent, TuiInv, UiRow
  <2>5. QED
    BY <1>3, <2>1, <2>4 DEF HandleEvent, TuiInv
<1>4. CASE Quit \/ Kill
  <2>1. Leaves
    BY <1>4 DEF Quit, Kill
  <2>2. ui' \in UiRow
    BY <2>1, UiMoves DEF Leaves
  <2>3. net' \in NetRow
    BY <2>1 DEF Leaves, NetRow, EventRow, Nothing
  <2>4. QED
    BY <2>1, <2>2, <2>3 DEF Leaves, TuiInv
<1>5. CASE StartAgain
  <2>1. TuiInit'
    BY <1>5 DEF StartAgain, TuiInit
  <2>2. QED
    BY <2>1, ChannelAssumption
       DEF TuiInit, TuiInv, NewUi, NewNet, Nothing, UiRow, NetRow, EventRow
<1>6. CASE ConnectAsync \/ ReadText \/ ReadEnds
  <2>1. ASSUME ConnectAsync PROVE net' \in NetRow
    BY <2>1, EventRows, ReportSound DEF ConnectAsync
  <2>2. ASSUME ReadText PROVE net' \in NetRow
    <3>1. read + 1 \in Nat
      BY DEF TuiInv
    <3>2. QED
      BY <2>2, <3>1, EventRows, ReportSound DEF ReadText
  <2>3. ASSUME ReadEnds PROVE net' \in NetRow
    BY <2>3, EventRows, ReportSound DEF ReadEnds
  <2>4. net' \in NetRow
    BY <1>6, <2>1, <2>2, <2>3
  <2>5. read' \in {read, read + 1}
    BY <1>6 DEF ConnectAsync, ReadText, ReadEnds
  <2>6. UNCHANGED <<ui, typed, events, outgoing, written>>
    BY <1>6 DEF ConnectAsync, ReadText, ReadEnds
  <2>7. read' \in Nat
    BY <2>5 DEF TuiInv
  <2>8. QED
    BY <2>4, <2>6, <2>7 DEF TuiInv
<1>7. CASE WriteLine
  <2>1. outgoing' \in Seq(Nat) /\ Len(outgoing') <= ChannelSize
    BY <1>7, TakeFirst DEF WriteLine, TuiInv
  <2>2. net' \in NetRow
    BY <1>7, EventRows, ReportSound DEF WriteLine, TuiInv
  <2>3. QED
    BY <1>7, <2>1, <2>2 DEF WriteLine, TuiInv
<1>8. CASE Report
  <2>1. events' \in Seq(EventRow) /\ Len(events') <= ChannelSize
    BY <1>8, PutWithRoom DEF Report, TuiInv, NetRow
  <2>2. net' \in NetRow
    BY <1>8 DEF Report, NetRow, EventRow, Nothing
  <2>3. outgoing' \in Seq(Nat) /\ Len(outgoing') <= ChannelSize
    BY <1>8, ChannelAssumption DEF Report, TuiInv
  <2>4. QED
    BY <1>8, <2>1, <2>2, <2>3 DEF Report, TuiInv
<1>9. QED
  BY <1>1, <1>2, <1>3, <1>4, <1>5, <1>6, <1>7, <1>8 DEF TuiNext

\* The events on their way: a greeting at first, then messages, and one event
\* that ends the connection at last.
Greeting == Pending # <<>> /\ Pending[1].kind = "established"
Ending == Pending # <<>> /\ Pending[Len(Pending)].last
First == IF Greeting THEN 2 ELSE 1
Final == IF Ending THEN Len(Pending) - 1 ELSE Len(Pending)

EventsInOrder ==
    \A i \in 1..Len(Pending) :
        \/ Pending[i].kind = "established" /\ ~Pending[i].last /\ i = 1 /\ ui.shown = <<>>
        \/ Pending[i].kind = "text" /\ ~Pending[i].last
           /\ Pending[i].text = Len(ui.shown) + i - First + 1
        \/ Pending[i].kind \in {"error", "closed"} /\ Pending[i].last /\ i = Len(Pending)

\* What is shown and what is on its way add up to what was read.
ReadAddsUp ==
    /\ ui.shown = UpTo(Len(ui.shown))
    /\ read = Len(ui.shown) + Final - First + 1

\* The status is behind the connection by the greeting and the last event.
StatusFollows ==
    /\ net.at = "connecting" => Pending = <<>> /\ ui.shown = <<>> /\ ui.status = "Connecting"
    /\ net.at = "select" => ~Ending /\ (Greeting \/ ui.status = "Connected")
    /\ net.at = "report" /\ ~net.event.last => Greeting \/ ui.status = "Connected"
    /\ net.at = "over" => Ending \/ (Pending = <<>> /\ ui.status # "Connected")

\* Lines typed are written, in the channel, or about to be sent.
LinesInOrder ==
    /\ written \in Seq(Nat)
    /\ \A i \in 1..Len(written) : written[i] = i
    /\ net.at \in {"connecting", "select"} \/ (net.at = "report" /\ ~net.event.last) =>
          /\ \A i \in 1..Len(outgoing) : outgoing[i] = Len(written) + i
          /\ typed = Len(written) + Len(outgoing) + IF ui.at = "sending" THEN 1 ELSE 0

ScreenInv == ui.at # "gone" => EventsInOrder /\ ReadAddsUp /\ StatusFollows /\ LinesInOrder

Screen == EventsInOrder /\ ReadAddsUp /\ StatusFollows

\* The events on their way, one by one.
LEMMA PendingRows ==
    ASSUME TuiInv
    PROVE  /\ Pending \in Seq(EventRow)
           /\ net.at # "report" => Pending = events
           /\ net.at = "report" => /\ Len(Pending) = Len(events) + 1
                                   /\ Pending[Len(Pending)] = net.event
                                   /\ \A i \in 1..Len(events) : Pending[i] = events[i]
<1>1. events \in Seq(EventRow) /\ net.event \in EventRow
  BY DEF TuiInv, NetRow
<1>2. events \o <<>> = events
  BY <1>1
<1>3. QED
  BY <1>1, <1>2 DEF Pending

\* The same after a step.
LEMMA PendingRowsNext ==
    ASSUME TuiInv'
    PROVE  /\ Pending' \in Seq(EventRow)
           /\ net'.at # "report" => Pending' = events'
           /\ net'.at = "report" => /\ Len(Pending') = Len(events') + 1
                                    /\ Pending'[Len(Pending')] = net'.event
                                    /\ \A i \in 1..Len(events') : Pending'[i] = events'[i]
<1>1. events' \in Seq(EventRow) /\ net'.event \in EventRow
  BY DEF TuiInv, NetRow
<1>2. events' \o <<>> = events'
  BY <1>1
<1>3. QED
  BY <1>1, <1>2 DEF Pending

\* The first event is handled.
LEMMA ScreenHandles ==
    ASSUME TuiInv, TuiInv', Screen, HandleEvent
    PROVE  Screen'
<1>1. /\ events # <<>> /\ events' = Tail(events) /\ net' = net /\ read' = read
      /\ ui'.status = StatusAfter(events[1].kind)
      /\ ui'.shown = IF events[1].kind = "text" THEN Append(ui.shown, events[1].text) ELSE ui.shown
      /\ ui.shown \in Seq(Nat) /\ read \in Nat /\ events \in Seq(EventRow)
  BY DEF HandleEvent, TuiInv, UiRow
<1>2. /\ Pending \in Seq(EventRow) /\ Pending' \in Seq(EventRow)
      /\ Len(Pending) \in Nat /\ Len(Pending) >= 1 /\ Len(Pending') = Len(Pending) - 1
      /\ Pending[1] = events[1]
      /\ \A i \in 1..Len(Pending') : Pending'[i] = Pending[i + 1]
  <2>1. /\ Tail(events) \in Seq(EventRow) /\ Len(Tail(events)) = Len(events) - 1 /\ Len(events) >= 1
        /\ \A i \in 1..Len(Tail(events)) : Tail(events)[i] = events[i + 1]
    BY <1>1
  <2>2. Pending \in Seq(EventRow) /\ Pending' \in Seq(EventRow) /\ Len(Pending) \in Nat
    BY PendingRows, PendingRowsNext
  <2>3. CASE net.at # "report"
    BY <1>1, <2>1, <2>2, <2>3, PendingRows, PendingRowsNext
  <2>4. CASE net.at = "report"
    <3>1. /\ Len(Pending) = Len(events) + 1 /\ Len(Pending') = Len(events')  + 1
          /\ Pending[Len(Pending)] = net.event /\ Pending'[Len(Pending')] = net.event
          /\ \A i \in 1..Len(events) : Pending[i] = events[i]
          /\ \A i \in 1..Len(events') : Pending'[i] = events'[i]
      BY <1>1, <2>4, PendingRows, PendingRowsNext
    <3>2. Len(Pending') = Len(Pending) - 1 /\ Len(Pending) >= 1 /\ Pending[1] = events[1]
      BY <1>1, <2>1, <3>1
    <3>3. ASSUME NEW i \in 1..Len(Pending')
          PROVE  Pending'[i] = Pending[i + 1]
      <4>1. CASE i \in 1..Len(events')
        <5>1. i + 1 \in 1..Len(events) /\ events'[i] = events[i + 1]
          BY <1>1, <2>1, <4>1
        <5>2. QED
          BY <3>1, <4>1, <5>1
      <4>2. CASE i = Len(Pending')
        BY <3>1, <3>2, <2>2, <4>2
      <4>3. Len(events') \in Nat /\ Len(Pending') = Len(events') + 1
        BY <1>1, <2>1, <3>1
      <4>4. QED
        BY <4>1, <4>2, <4>3
    <3>4. QED
      BY <2>2, <3>2, <3>3
  <2>5. QED
    BY <2>3, <2>4
<1>3. net.at = "report" => Len(Pending') >= 1 /\ net.event = Pending[Len(Pending)]
  BY <1>1, <1>2, PendingRows
<1>4. Ending' <=> Ending /\ Len(Pending) >= 2
  BY <1>2 DEF Ending
<1>5. ~Greeting'
  BY <1>2 DEF Greeting, Screen, EventsInOrder
<1>6. CASE Pending[1].kind = "established"
  <2>1. Greeting /\ ~Pending[1].last /\ ui.shown = <<>> /\ ui'.shown = <<>> /\ ui'.status = "Connected"
    <3>1. Pending # <<>> /\ 1 \in 1..Len(Pending)
      BY <1>2
    <3>2. Greeting
      BY <1>6, <3>1 DEF Greeting
    <3>3. ~Pending[1].last /\ ui.shown = <<>>
      <4>1. EventsInOrder
        BY DEF Screen
      <4>2. \/ Pending[1].kind = "established" /\ ~Pending[1].last /\ ui.shown = <<>>
            \/ Pending[1].kind = "text"
            \/ Pending[1].kind \in {"error", "closed"}
        BY <3>1, <4>1 DEF EventsInOrder
      <4>3. QED
        BY <1>6, <4>2
    <3>4. events[1].kind = "established"
      BY <1>2, <1>6
    <3>5. ui'.shown = ui.shown /\ ui'.status = "Connected"
      BY <1>1, <3>4 DEF StatusAfter
    <3>6. QED
      BY <3>2, <3>3, <3>5
  <2>2. First = 2 /\ First' = 1 /\ Final' = Final - 1
    BY <1>2, <1>4, <1>5, <2>1 DEF First, Final, Ending
  <2>3. EventsInOrder'
    <3>1. ASSUME NEW i \in 1..Len(Pending')
          PROVE  \/ Pending'[i].kind = "text" /\ ~Pending'[i].last
                    /\ Pending'[i].text = Len(ui'.shown) + i - First' + 1
                 \/ Pending'[i].kind \in {"error", "closed"} /\ Pending'[i].last /\ i = Len(Pending')
      <4>1. i + 1 \in 1..Len(Pending) /\ i + 1 # 1
        BY <1>2
      <4>2. QED
        BY <1>2, <2>1, <2>2, <4>1 DEF Screen, EventsInOrder
    <3>2. QED
      BY <3>1 DEF EventsInOrder
  <2>4. ReadAddsUp'
    <3>1. Final \in Int
      BY <1>2 DEF Final
    <3>2. ui'.shown = UpTo(Len(ui'.shown))
      BY <2>1 DEF Screen, ReadAddsUp
    <3>3. read' = Len(ui'.shown) + Final' - First' + 1
      <4>1. Len(ui'.shown) = Len(ui.shown) /\ Len(ui.shown) = 0
        BY <2>1
      <4>2. read = 0 + Final - 2 + 1
        BY <2>2, <4>1 DEF Screen, ReadAddsUp
      <4>3. read' = read
        BY <1>1
      <4>4. QED
        BY <2>2, <3>1, <4>1, <4>2, <4>3
    <3>4. QED
      BY <3>2, <3>3 DEF ReadAddsUp
  <2>5. StatusFollows'
    BY <1>1, <1>2, <1>3, <1>4, <1>5, <2>1 DEF Screen, StatusFollows, Ending
  <2>6. QED
    BY <2>3, <2>4, <2>5 DEF Screen
<1>7. CASE Pending[1].kind = "text"
  <2>0. ~Greeting /\ First = 1 /\ Len(ui.shown) \in Nat
    BY <1>1, <1>7 DEF Greeting, First
  <2>a. ~Pending[1].last /\ Pending[1].text = Len(ui.shown) + 1
    BY <1>2, <1>7, <2>0 DEF Screen, EventsInOrder
  <2>b. ui'.status = ui.status
    BY <1>1, <1>2, <1>7 DEF StatusAfter
  <2>1. ~Greeting /\ First = 1 /\ ~Pending[1].last /\ Pending[1].text = Len(ui.shown) + 1
        /\ ui'.shown = Append(ui.shown, Len(ui.shown) + 1) /\ ui'.status = ui.status
    BY <1>1, <1>2, <1>7, <2>0, <2>a, <2>b
  <2>2. First' = 1 /\ Final' = Final - 1 /\ Len(ui'.shown) = Len(ui.shown) + 1
    BY <1>1, <1>2, <1>4, <1>5, <2>1 DEF First, Final, Ending
  <2>3. EventsInOrder'
    <3>1. ASSUME NEW i \in 1..Len(Pending')
          PROVE  \/ Pending'[i].kind = "text" /\ ~Pending'[i].last
                    /\ Pending'[i].text = Len(ui'.shown) + i - First' + 1
                 \/ Pending'[i].kind \in {"error", "closed"} /\ Pending'[i].last /\ i = Len(Pending')
      <4>1. i + 1 \in 1..Len(Pending) /\ i + 1 # 1
        BY <1>2
      <4>2. Len(ui.shown) \in Nat /\ i \in Nat /\ Len(Pending) \in Nat
        BY <1>1, <1>2
      <4>3. \/ Pending[i + 1].kind = "text" /\ ~Pending[i + 1].last
               /\ Pending[i + 1].text = Len(ui.shown) + (i + 1) - First + 1
            \/ Pending[i + 1].kind \in {"error", "closed"} /\ Pending[i + 1].last
               /\ i + 1 = Len(Pending)
        BY <4>1 DEF Screen, EventsInOrder
      <4>4. QED
        BY <1>2, <2>1, <2>2, <4>2, <4>3
    <3>2. QED
      BY <3>1 DEF EventsInOrder
  <2>4. ReadAddsUp'
    <3>1. ui'.shown = UpTo(Len(ui'.shown))
      <4>1. ui.shown = [i \in 1..Len(ui.shown) |-> 0 + i]
        BY DEF Screen, ReadAddsUp, UpTo
      <4>2. Append(ui.shown, 0 + Len(ui.shown) + 1) = [i \in 1..(Len(ui.shown) + 1) |-> 0 + i]
        BY <1>1, <4>1, CountsOn
      <4>3. [i \in 1..(Len(ui.shown) + 1) |-> 0 + i] = UpTo(Len(ui.shown) + 1)
        BY DEF UpTo
      <4>4. Append(ui.shown, 0 + Len(ui.shown) + 1) = ui'.shown
        BY <2>0, <2>1
      <4>5. QED
        BY <2>2, <4>2, <4>3, <4>4
    <3>2. read' = Len(ui'.shown) + Final' - First' + 1
      <4>1. Final \in Int /\ Len(ui.shown) \in Nat
        BY <1>1, <1>2 DEF Final
      <4>2. QED
        BY <1>1, <2>1, <2>2, <4>1 DEF Screen, ReadAddsUp
    <3>3. QED
      BY <3>1, <3>2 DEF ReadAddsUp
  <2>5. StatusFollows'
    BY <1>1, <1>2, <1>3, <1>4, <1>5, <2>1 DEF Screen, StatusFollows, Ending
  <2>6. QED
    BY <2>3, <2>4, <2>5 DEF Screen
<1>8. CASE Pending[1].kind \in {"error", "closed"}
  <2>1. /\ Pending[1].last /\ Len(Pending) = 1 /\ Ending /\ ~Greeting
        /\ ui'.shown = ui.shown /\ ui'.status \in {"Error", "Disconnected"}
    <3>1. Pending # <<>> /\ 1 \in 1..Len(Pending)
      BY <1>2
    <3>2. Pending[1].last /\ 1 = Len(Pending)
      <4>1. EventsInOrder
        BY DEF Screen
      <4>2. \/ Pending[1].kind \in {"established", "text"}
            \/ Pending[1].last /\ 1 = Len(Pending)
        BY <3>1, <4>1 DEF EventsInOrder
      <4>3. QED
        BY <1>8, <4>2
    <3>3. Ending
      BY <3>1, <3>2 DEF Ending
    <3>4. ~Greeting
      BY <1>8 DEF Greeting
    <3>5. events[1].kind \in {"error", "closed"}
      BY <1>2, <1>8
    <3>6. ui'.shown = ui.shown /\ ui'.status \in {"Error", "Disconnected"}
      BY <1>1, <3>5 DEF StatusAfter
    <3>7. QED
      BY <3>2, <3>3, <3>4, <3>6
  <2>2. Pending' = <<>> /\ net.at = "over"
    <3>1. Pending' = <<>> /\ Pending # <<>>
      BY <1>2, <2>1
    <3>2. net.at \notin {"connecting", "select", "report"}
      BY <1>2, <1>3, <2>1, <3>1 DEF Screen, StatusFollows
    <3>3. QED
      BY <3>1, <3>2 DEF TuiInv, NetRow
  <2>3. First = 1 /\ First' = 1 /\ Final = 0 /\ Final' = 0
    BY <1>2, <1>4, <1>5, <2>1, <2>2 DEF First, Final
  <2>4. QED
    BY <1>1, <1>2, <2>1, <2>2, <2>3 DEF Screen, EventsInOrder, ReadAddsUp, StatusFollows, Ending
<1>9. QED
  BY <1>2, <1>6, <1>7, <1>8 DEF Screen, EventsInOrder

\* One more message, read and to be reported.
LEMMA OneMore ==
    ASSUME read \in Int, Len(ui.shown) \in Nat, Len(Pending) \in Nat, First \in Int,
           read = Len(ui.shown) + Len(Pending) - First + 1
    PROVE  read + 1 = Len(ui.shown) + (Len(Pending) + 1) - First + 1
<1> DEFINE shown == Len(ui.shown)
<1>1. read = shown + Len(Pending) - First + 1 /\ shown \in Nat
  OBVIOUS
<1> HIDE DEF shown
<1>2. read + 1 = shown + (Len(Pending) + 1) - First + 1
  BY <1>1
<1>3. QED
  BY <1>2 DEF shown

\* What the task may have to report.
Reads(event) ==
    \/ /\ net.at = "connecting" /\ read' = read
       /\ event \in {Event("established", FALSE), Event("error", TRUE)}
    \/ /\ net.at = "select" /\ read' = read
       /\ event \in {Event("closed", TRUE), Event("error", TRUE)}
    \/ /\ net.at = "select" /\ read' = read + 1
       /\ event = [kind |-> "text", last |-> FALSE, text |-> read + 1]

\* The task has an event to report.
LEMMA ScreenReports ==
    ASSUME TuiInv, TuiInv', Screen, NEW event \in EventRow, Reports(event),
           ui' = ui, events' = events, Reads(event)
    PROVE  Screen'
<1>r. /\ net.at = "connecting" =>
            read' = read /\ event \in {Event("established", FALSE), Event("error", TRUE)}
      /\ net.at = "select" =>
            \/ read' = read /\ event \in {Event("closed", TRUE), Event("error", TRUE)}
            \/ read' = read + 1 /\ event = [kind |-> "text", last |-> FALSE, text |-> read + 1]
      /\ net.at \in {"connecting", "select"}
  BY DEF Reads
<1>1. /\ net'.at = "report" /\ net'.event = event /\ ui' = ui /\ events' = events
      /\ ui.shown \in Seq(Nat) /\ read \in Nat /\ events \in Seq(EventRow)
  BY DEF Reports, TuiInv, UiRow
<1>2. /\ Pending = events /\ Pending' \in Seq(EventRow) /\ Len(Pending') = Len(Pending) + 1
      /\ Len(Pending) \in Nat /\ Pending'[Len(Pending')] = event
      /\ \A i \in 1..Len(Pending) : Pending'[i] = Pending[i]
  <2>1. Pending = events
    BY <1>r, PendingRows
  <2>2. /\ Pending' \in Seq(EventRow) /\ Len(Pending') = Len(events) + 1
        /\ Pending'[Len(Pending')] = event
        /\ \A i \in 1..Len(events) : Pending'[i] = events[i]
    BY <1>1, PendingRowsNext
  <2>3. QED
    BY <1>1, <2>1, <2>2
<1>3. (Ending' <=> event.last) /\ ~Ending
  <2>1. Ending' <=> event.last
    BY <1>2 DEF Ending
  <2>2. net.at = "connecting" => Pending = <<>>
    BY DEF Screen, StatusFollows
  <2>3. ~Ending
    BY <1>r, <2>2 DEF Ending, Screen, StatusFollows
  <2>4. QED
    BY <2>1, <2>3
<1>4. CASE net.at = "connecting"
  <2>1. Pending = <<>> /\ ui.shown = <<>> /\ Len(Pending') = 1 /\ Pending'[1] = event /\ read = 0
    BY <1>1, <1>2, <1>3, <1>4 DEF Screen, StatusFollows, ReadAddsUp, First, Final, Greeting
  <2>2. CASE event = Event("established", FALSE)
    <3>1. Greeting' /\ ~Ending' /\ First' = 2 /\ Final' = 1
      <4>1. event.kind = "established" /\ ~event.last
        BY <2>2 DEF Event
      <4>2. QED
        <5>1. Pending' # <<>> /\ Pending'[1].kind = "established"
          BY <2>1, <4>1
        <5>2. Greeting' /\ ~Ending'
          BY <1>3, <4>1, <5>1 DEF Greeting
        <5>3. QED
          BY <2>1, <5>2 DEF First, Final
    <3>2. QED
      BY <1>1, <1>4, <1>r, <2>1, <2>2, <3>1
         DEF Event, Screen, EventsInOrder, ReadAddsUp, StatusFollows, UpTo
  <2>3. CASE event = Event("error", TRUE)
    <3>1. ~Greeting' /\ Ending' /\ First' = 1 /\ Final' = 0
      BY <1>3, <2>1, <2>3 DEF Event, Greeting, First, Final
    <3>2. QED
      BY <1>1, <1>4, <1>r, <2>1, <2>3, <3>1
         DEF Event, Screen, EventsInOrder, ReadAddsUp, StatusFollows, UpTo
  <2>4. QED
    BY <1>4, <1>r, <2>2, <2>3
<1>5. CASE net.at = "select"
  <2>1. event.kind \in {"text", "closed", "error"} /\ event.kind # "established"
    BY <1>5, <1>r DEF Event
  <2>2. Greeting' <=> Greeting
    BY <1>2, <2>1 DEF Greeting
  <2>3. First' = First /\ First \in {1, 2} /\ Final = Len(Pending)
    BY <1>3, <2>2 DEF First, Final
  <2>4. Final' = IF event.last THEN Len(Pending) ELSE Len(Pending) + 1
    BY <1>2, <1>3 DEF Final
  <2>5. read = Len(ui.shown) + Len(Pending) - First + 1
    BY <2>3 DEF Screen, ReadAddsUp
  <2>6. ReadAddsUp'
    <3>1. Len(ui.shown) \in Nat /\ (event.last <=> read' = read)
      BY <1>1, <1>5, <1>r DEF Event
    <3>2. read' = Len(ui'.shown) + Final' - First' + 1
      <4>1. Len(ui'.shown) = Len(ui.shown) /\ First \in Int /\ First' = First
        BY <1>1, <2>3
      <4>2. CASE event.last
        BY <1>1, <1>2, <2>4, <2>5, <3>1, <4>1, <4>2
      <4>3. CASE ~event.last
        <5>1. read' = read + 1 /\ Final' = Len(Pending) + 1
          BY <1>5, <1>r, <2>4, <3>1, <4>3
        <5>2. QED
          <6>1. read \in Int /\ Len(Pending) \in Nat
            BY <1>1, <1>2
          <6>2. read + 1 = Len(ui.shown) + (Len(Pending) + 1) - First + 1
            BY <2>5, <3>1, <4>1, <6>1, OneMore
          <6>3. QED
            BY <4>1, <5>1, <6>2
      <4>4. QED
        BY <4>2, <4>3
    <3>3. QED
      BY <1>1, <3>2 DEF Screen, ReadAddsUp
  <2>7. EventsInOrder'
    <3>1. ASSUME NEW i \in 1..Len(Pending)
          PROVE  \/ Pending'[i].kind = "established" /\ ~Pending'[i].last /\ i = 1 /\ ui'.shown = <<>>
                 \/ Pending'[i].kind = "text" /\ ~Pending'[i].last
                    /\ Pending'[i].text = Len(ui'.shown) + i - First' + 1
      <4>1. ~(Pending[i].last /\ i = Len(Pending))
        BY <1>2, <1>3 DEF Ending
      <4>2. QED
        BY <1>1, <1>2, <2>3, <4>1 DEF Screen, EventsInOrder
    <3>2. \/ event.kind = "text" /\ ~event.last
             /\ event.text = Len(ui'.shown) + Len(Pending') - First' + 1
          \/ event.kind \in {"error", "closed"} /\ event.last
      <4>1. Len(ui.shown) \in Nat
        BY <1>1
      <4>2. CASE event = [kind |-> "text", last |-> FALSE, text |-> read + 1]
        <5>1. event.text = read + 1 /\ event.kind = "text" /\ ~event.last
          BY <4>2
        <5>2. read + 1 = Len(ui'.shown) + Len(Pending') - First' + 1
          <6>1. Len(ui'.shown) = Len(ui.shown) /\ First \in Int /\ First' = First
            BY <1>1, <2>3
          <6>2. Len(Pending') = Len(Pending) + 1 /\ Len(Pending) \in Nat
            BY <1>2
          <6>3. QED
            <7>1. read \in Int /\ Len(Pending) \in Nat
              BY <1>1, <1>2
            <7>2. read + 1 = Len(ui.shown) + (Len(Pending) + 1) - First + 1
              BY <2>5, <4>1, <6>1, <7>1, OneMore
            <7>3. QED
              BY <6>1, <6>2, <7>2
        <5>3. QED
          BY <5>1, <5>2
      <4>3. CASE event \in {Event("closed", TRUE), Event("error", TRUE)}
        BY <4>3 DEF Event
      <4>4. QED
        BY <1>5, <1>r, <4>2, <4>3
    <3>3. QED
      BY <1>2, <3>1, <3>2 DEF EventsInOrder
  <2>8. StatusFollows'
    BY <1>1, <1>2, <1>3, <1>5, <2>2 DEF Screen, StatusFollows
  <2>9. QED
    BY <2>6, <2>7, <2>8 DEF Screen
<1>6. QED
  BY <1>4, <1>5, <1>r

\* The event is in the channel.
LEMMA ScreenSends ==
    ASSUME TuiInv, TuiInv', Screen, Report
    PROVE  Screen'
<1>1. /\ net.at = "report" /\ events' = Append(events, net.event) /\ ui' = ui /\ read' = read
      /\ net'.at = IF net.event.last THEN "over" ELSE "select"
      /\ events \in Seq(EventRow) /\ net.event \in EventRow
  BY DEF Report, TuiInv, NetRow
<1>2. Pending = Append(events, net.event)
  BY <1>1 DEF Pending
<1>3. Pending' = Pending
  BY <1>1, <1>2, PendingRowsNext
<1>4. (Greeting' <=> Greeting) /\ (Ending' <=> Ending) /\ First' = First /\ Final' = Final
  BY <1>3 DEF Greeting, Ending, First, Final
<1>5. Ending <=> net.event.last
  BY <1>1, <1>2 DEF Ending
<1>6. EventsInOrder' /\ ReadAddsUp'
  BY <1>1, <1>3, <1>4 DEF Screen, EventsInOrder, ReadAddsUp
<1>7. StatusFollows'
  BY <1>1, <1>3, <1>4, <1>5 DEF Screen, StatusFollows
<1>8. QED
  BY <1>6, <1>7 DEF Screen

\* The screen does not change.
LEMMA ScreenSame ==
    ASSUME Screen, ui'.shown = ui.shown, ui'.status = ui.status, UNCHANGED <<net, read, events>>
    PROVE  Screen'
<1>1. Pending' = Pending
  BY DEF Pending
<1>2. (Greeting' <=> Greeting) /\ (Ending' <=> Ending) /\ First' = First /\ Final' = Final
  BY <1>1 DEF Greeting, Ending, First, Final
<1>3. QED
  BY <1>1, <1>2 DEF Screen, EventsInOrder, ReadAddsUp, StatusFollows

\* A client that starts has nothing to show.
LEMMA ScreenFirst == TuiInit => Screen /\ LinesInOrder
<1> SUFFICES ASSUME TuiInit PROVE Screen /\ LinesInOrder
  OBVIOUS
<1>1. Pending = <<>> /\ ui.shown = <<>> /\ ui.status = "Connecting" /\ net.at = "connecting"
      /\ read = 0 /\ written = <<>> /\ outgoing = <<>> /\ typed = 0 /\ ui.at = "poll"
  BY DEF TuiInit, NewUi, NewNet, Nothing, Pending
<1>2. ~Greeting /\ ~Ending /\ First = 1 /\ Final = 0
  BY <1>1 DEF Greeting, Ending, First, Final
<1>3. EventsInOrder /\ ReadAddsUp /\ StatusFollows
  BY <1>1, <1>2 DEF EventsInOrder, ReadAddsUp, StatusFollows, UpTo
<1>4. QED
  BY <1>1, <1>3 DEF Screen, LinesInOrder

\* Nothing typed: the lines stay, and are not needed once the task is to end.
LEMMA LinesSame ==
    ASSUME LinesInOrder, UNCHANGED <<written, outgoing, typed>>,
           ui'.at = "sending" <=> ui.at = "sending",
           net'.at \in {"connecting", "select"} \/ (net'.at = "report" /\ ~net'.event.last)
           => net.at \in {"connecting", "select"} \/ (net.at = "report" /\ ~net.event.last)
    PROVE  LinesInOrder'
BY DEF LinesInOrder

\* Every step of a client that runs keeps its screen and its lines in order.
LEMMA ScreenStep ==
    ASSUME TuiInv, TuiInv', ScreenInv, TuiNext
    PROVE  ScreenInv'
<1> SUFFICES ASSUME ui'.at # "gone" PROVE Screen' /\ LinesInOrder'
  BY DEF ScreenInv, Screen
<1>0. /\ ui \in UiRow /\ net \in NetRow /\ typed \in Nat /\ read \in Nat
      /\ events \in Seq(EventRow) /\ outgoing \in Seq(Nat)
  BY DEF TuiInv
<1>a. ASSUME NEW at \in {"poll", "sending", "draining", "gone"}, UiAt(at)
      PROVE  ui'.at = at /\ ui'.shown = ui.shown /\ ui'.status = ui.status
  BY <1>a, <1>0 DEF UiAt, UiRow
<1>s. ui.at # "gone" => Screen /\ LinesInOrder
  BY DEF ScreenInv, Screen
<1>1. CASE Enter
  <2>1. ui'.at = "sending" /\ ui.at = "poll" /\ ui'.shown = ui.shown /\ ui'.status = ui.status
        /\ typed' = typed + 1 /\ UNCHANGED <<net, read, events, outgoing, written>>
    BY <1>1, <1>a DEF Enter
  <2>2. LinesInOrder'
    BY <1>0, <1>s, <2>1 DEF LinesInOrder
  <2>3. QED
    BY <1>s, <2>1, <2>2, ScreenSame
<1>2. CASE NoKey \/ Drained
  <2>1. ui'.at \in {"poll", "draining"} /\ ui.at \in {"poll", "draining"}
        /\ ui'.shown = ui.shown /\ ui'.status = ui.status
        /\ UNCHANGED <<typed, net, read, events, outgoing, written>>
    BY <1>2, <1>a DEF NoKey, Drained
  <2>2. QED
    BY <1>s, <2>1, ScreenSame, LinesSame
<1>3. CASE Enqueue
  <2>1. ui'.at = "draining" /\ ui.at = "sending" /\ ui'.shown = ui.shown /\ ui'.status = ui.status
        /\ UNCHANGED <<typed, net, read, events, written>>
        /\ (net.at # "over" => outgoing' = Append(outgoing, typed))
    BY <1>3, <1>a DEF Enqueue
  <2>2. LinesInOrder'
    <3>1. CASE net.at = "over"
      BY <1>s, <2>1, <3>1 DEF LinesInOrder
    <3>2. CASE net.at # "over"
      <4>1. outgoing' = Append(outgoing, typed) /\ Len(outgoing') = Len(outgoing) + 1
        BY <1>0, <2>1, <3>2
      <4>2. CASE net.at = "report" /\ net.event.last
        BY <1>s, <2>1, <4>2 DEF LinesInOrder
      <4>3. CASE ~(net.at = "report" /\ net.event.last)
        <5>1. /\ written \in Seq(Nat) /\ \A i \in 1..Len(written) : written[i] = i
              /\ \A i \in 1..Len(outgoing) : outgoing[i] = Len(written) + i
              /\ typed = Len(written) + Len(outgoing) + 1
          BY <1>0, <1>s, <2>1, <3>2, <4>3 DEF LinesInOrder, NetRow
        <5>2. \A i \in 1..Len(outgoing') : outgoing'[i] = Len(written) + i
          <6>1. Len(written) \in Nat /\ Len(outgoing) \in Nat
            BY <1>0, <5>1
          <6>2. outgoing'[Len(outgoing) + 1] = Len(written) + (Len(outgoing) + 1)
            BY <1>0, <4>1, <5>1, <6>1
          <6>3. \A i \in 1..Len(outgoing) : outgoing'[i] = outgoing[i]
            BY <1>0, <4>1
          <6>4. \A i \in 1..Len(outgoing') : i \in 1..Len(outgoing) \/ i = Len(outgoing) + 1
            BY <4>1, <6>1
          <6>5. QED
            BY <5>1, <6>2, <6>3, <6>4
        <5>3. typed = Len(written) + Len(outgoing') + 0
          <6>1. Len(written) \in Nat /\ Len(outgoing) \in Nat
            BY <1>0, <5>1
          <6>2. QED
            BY <4>1, <5>1, <6>1
        <5>4. QED
          BY <2>1, <5>1, <5>2, <5>3 DEF LinesInOrder
      <4>4. QED
        BY <4>2, <4>3
    <3>3. QED
      BY <3>1, <3>2
  <2>3. QED
    BY <1>s, <2>1, <2>2, ScreenSame
<1>4. CASE HandleEvent
  <2>1. ui.at = "draining" /\ ui'.at = "draining" /\ UNCHANGED <<typed, net, outgoing, written>>
    BY <1>0, <1>4 DEF HandleEvent, UiRow
  <2>2. QED
    BY <1>s, <1>4, <2>1, ScreenHandles, LinesSame
<1>5. CASE Quit \/ Kill
  BY <1>5, <1>a DEF Quit, Kill, Leaves
<1>6. CASE StartAgain
  <2>1. TuiInit'
    BY <1>6 DEF StartAgain, TuiInit
  <2>2. TuiInit' => Screen' /\ LinesInOrder'
    BY ScreenFirst, PTL
  <2>3. QED
    BY <2>1, <2>2
<1>7. CASE ConnectAsync \/ ReadText \/ ReadEnds
  <2>0. ui' = ui /\ UNCHANGED <<typed, events, outgoing, written>>
        /\ net.at \in {"connecting", "select"}
    BY <1>7 DEF ConnectAsync, ReadText, ReadEnds
  <2>1. ui' = ui /\ UNCHANGED <<typed, events, outgoing, written>> /\ ui.at # "gone"
        /\ net.at \in {"connecting", "select"}
    BY <2>0
  <2>a. TuiInv /\ TuiInv' /\ Screen
    BY <2>1, <1>s
  <2>b. LinesInOrder'
    BY <1>s, <2>1, LinesSame
  <2>2. CASE ConnectAsync
    <3>1. PICK event \in {Event("established", FALSE), Event("error", TRUE)} :
             net.at = "connecting" /\ Reports(event) /\ UNCHANGED <<ui, events, read>>
      BY <2>2 DEF ConnectAsync
    <3>2. event \in EventRow
      BY EventRows
    <3>3. Reads(event)
      BY <3>1 DEF Reads
    <3>4. QED
      BY <2>a, <2>b, <3>1, <3>2, <3>3, ScreenReports
  <2>3. CASE ReadText
    <3>1. [kind |-> "text", last |-> FALSE, text |-> read + 1] \in EventRow
      BY <1>0, EventRows
    <3>2. Reads([kind |-> "text", last |-> FALSE, text |-> read + 1])
      BY <2>3 DEF ReadText, Reads
    <3>3. Reports([kind |-> "text", last |-> FALSE, text |-> read + 1]) /\ UNCHANGED <<ui, events>>
      BY <2>3 DEF ReadText
    <3>4. QED
      BY <2>a, <2>b, <3>1, <3>2, <3>3, ScreenReports
  <2>4. CASE ReadEnds
    <3>1. PICK event \in {Event("closed", TRUE), Event("error", TRUE)} :
             net.at = "select" /\ Reports(event) /\ UNCHANGED <<ui, events, read>>
      BY <2>4 DEF ReadEnds
    <3>2. event \in EventRow
      BY EventRows
    <3>3. Reads(event)
      BY <3>1 DEF Reads
    <3>4. QED
      BY <2>a, <2>b, <3>1, <3>2, <3>3, ScreenReports
  <2>5. QED
    BY <1>7, <2>2, <2>3, <2>4
<1>8. CASE WriteLine
  <2>1. /\ net.at = "select" /\ outgoing # <<>> /\ outgoing' = Tail(outgoing)
        /\ UNCHANGED <<ui, typed, read, events>> /\ ui.at # "gone"
    BY <1>8 DEF WriteLine
  <2>2. /\ written \in Seq(Nat) /\ \A i \in 1..Len(written) : written[i] = i
        /\ \A i \in 1..Len(outgoing) : outgoing[i] = Len(written) + i
        /\ typed = Len(written) + Len(outgoing) + IF ui.at = "sending" THEN 1 ELSE 0
    BY <1>s, <2>1 DEF LinesInOrder
  <2>3. CASE written' = Append(written, Head(outgoing)) /\ UNCHANGED net
    <3>1. /\ Head(outgoing) = Len(written) + 1 /\ Len(outgoing') = Len(outgoing) - 1
          /\ Len(written') = Len(written) + 1 /\ written' \in Seq(Nat)
      BY <1>0, <2>1, <2>2, <2>3
    <3>2. \A i \in 1..Len(written') : written'[i] = i
      BY <2>2, <2>3, <3>1
    <3>3. \A i \in 1..Len(outgoing') : outgoing'[i] = Len(written') + i
      BY <1>0, <2>1, <2>2, <3>1
    <3>4. typed' = Len(written') + Len(outgoing') + IF ui'.at = "sending" THEN 1 ELSE 0
      BY <1>0, <2>1, <2>2, <3>1
    <3>5. LinesInOrder'
      BY <3>1, <3>2, <3>3, <3>4 DEF LinesInOrder
    <3>6. QED
      BY <1>s, <2>1, <2>3, <3>5, ScreenSame
  <2>4. CASE Reports(Event("error", TRUE)) /\ UNCHANGED written
    <3>0. Event("error", TRUE) \in EventRow /\ Reads(Event("error", TRUE)) /\ Screen
      BY <1>s, <2>1, EventRows DEF Reads
    <3>1. Screen'
      BY <2>1, <2>4, <3>0, ScreenReports
    <3>2. net'.at = "report" /\ net'.event.last
      BY <2>4 DEF Reports, Event
    <3>3. QED
      BY <2>2, <2>4, <3>1, <3>2 DEF LinesInOrder
  <2>5. QED
    BY <1>8, <2>3, <2>4 DEF WriteLine
<1>9. CASE Report
  <2>1. ui' = ui /\ UNCHANGED <<typed, written>> /\ net.at = "report"
        /\ net'.at = (IF net.event.last THEN "over" ELSE "select")
        /\ outgoing' = (IF net.event.last THEN <<>> ELSE outgoing)
    BY <1>9 DEF Report
  <2>2. LinesInOrder'
    BY <1>s, <2>1 DEF LinesInOrder
  <2>3. QED
    BY <1>s, <1>9, <2>1, <2>2, ScreenSends
<1>10. QED
  BY <1>1, <1>2, <1>3, <1>4, <1>5, <1>6, <1>7, <1>8, <1>9 DEF TuiNext

\* The numbers of messages that stand together are those of a piece of the
\* events.
LEMMA TextsOf ==
    ASSUME NEW es \in Seq(EventRow), NEW lo \in Int, NEW hi \in Int, lo >= 1, hi <= Len(es), hi >= lo - 1,
           \A i \in 1..Len(es) : es[i].kind = "text" <=> i \in lo..hi
    PROVE  Texts(es) = [k \in 1..(hi - lo + 1) |-> es[lo + k - 1].text]
<1> DEFINE at == {i \in 1..Len(es) : es[i].kind = "text"}
           Nth(k) == CHOOSE i \in at : Cardinality({j \in at : j <= i}) = k
<1>1. at = lo..hi
  <2>1. Len(es) \in Nat
    OBVIOUS
  <2>2. QED
    BY <2>1
<1>2. Cardinality(at) = hi - lo + 1
  <2>1. Cardinality(lo..hi) = IF lo > hi THEN 0 ELSE hi - lo + 1
    BY FS_Interval
  <2>2. lo > hi => hi - lo + 1 = 0
    OBVIOUS
  <2>3. Cardinality(at) = Cardinality(lo..hi)
    BY <1>1
  <2>4. QED
    BY <2>1, <2>2, <2>3
<1> HIDE DEF at
<1>3. ASSUME NEW i \in lo..hi
      PROVE  Cardinality({j \in at : j <= i}) = i - lo + 1
  <2>1. {j \in at : j <= i} = lo..i
    BY <1>1
  <2>2. Cardinality(lo..i) = IF lo > i THEN 0 ELSE i - lo + 1
    BY FS_Interval
  <2>3. Cardinality({j \in at : j <= i}) = Cardinality(lo..i)
    BY <2>1
  <2>4. QED
    BY <2>2, <2>3
<1>4. ASSUME NEW k \in 1..(hi - lo + 1)
      PROVE  Nth(k) = lo + k - 1
  <2>1. lo + k - 1 \in lo..hi
    OBVIOUS
  <2>2. \A i \in lo..hi : Cardinality({j \in at : j <= i}) = k <=> i = lo + k - 1
    BY <1>3
  <2>3. QED
    BY <1>1, <2>1, <2>2
<1>5. Texts(es) = [k \in 1..Cardinality(at) |-> es[Nth(k)].text]
  BY DEF Texts, at
<1> HIDE DEF Nth
<1>6. QED
  BY <1>2, <1>4, <1>5

\* The elements of two sequences, one after the other.
LEMMA Pieces ==
    ASSUME NEW S, NEW s \in Seq(S), NEW t \in Seq(S)
    PROVE  /\ s \o t \in Seq(S) /\ Len(s \o t) = Len(s) + Len(t)
           /\ \A i \in 1..Len(s) : (s \o t)[i] = s[i]
           /\ \A i \in 1..Len(t) : (s \o t)[Len(s) + i] = t[i]
OBVIOUS

\* Two pieces of the numbers up to one make them all.
LEMMA Joined ==
    ASSUME NEW m \in Nat, NEW k \in Nat, NEW t, t = [i \in 1..k |-> m + i]
    PROVE  UpTo(m) \o t = UpTo(m + k)
<1>1. UpTo(m) \in Seq(Nat) /\ Len(UpTo(m)) = m /\ t \in Seq(Nat) /\ Len(t) = k
      /\ (\A i \in 1..m : UpTo(m)[i] = i) /\ \A i \in 1..k : t[i] = m + i
  BY DEF UpTo
<1>2. /\ UpTo(m) \o t \in Seq(Nat) /\ Len(UpTo(m) \o t) = m + k
      /\ \A i \in 1..m : (UpTo(m) \o t)[i] = i
      /\ \A i \in 1..k : (UpTo(m) \o t)[m + i] = m + i
  <2> DEFINE u == UpTo(m)
  <2>1. u \in Seq(Nat) /\ Len(u) = m /\ \A i \in 1..m : u[i] = i
    BY <1>1
  <2> HIDE DEF u
  <2>2. /\ u \o t \in Seq(Nat) /\ Len(u \o t) = Len(u) + Len(t)
        /\ \A i \in 1..Len(u) : (u \o t)[i] = u[i]
        /\ \A i \in 1..Len(t) : (u \o t)[Len(u) + i] = t[i]
    <3>1. u \in Seq(Nat) /\ t \in Seq(Nat)
      BY <1>1, <2>1
    <3>2. QED
      BY <3>1, Pieces
  <2>3. /\ u \o t \in Seq(Nat) /\ Len(u \o t) = m + k
        /\ \A i \in 1..m : (u \o t)[i] = i
        /\ \A i \in 1..k : (u \o t)[m + i] = m + i
    BY <1>1, <2>1, <2>2
  <2>4. QED
    BY <2>3 DEF u
<1>3. ASSUME NEW i \in 1..(m + k)
      PROVE  (UpTo(m) \o t)[i] = i
  <2>1. i <= m \/ (i - m \in 1..k /\ i = m + (i - m))
    OBVIOUS
  <2>2. CASE i <= m
    BY <1>2, <2>2
  <2>3. CASE i - m \in 1..k
    <3>1. (UpTo(m) \o t)[m + (i - m)] = m + (i - m)
      BY <1>2, <2>3
    <3>2. m + (i - m) = i
      OBVIOUS
    <3>3. QED
      BY <3>1, <3>2
  <2>4. QED
    BY <2>1, <2>2, <2>3
<1>4. QED
  BY <1>2, <1>3 DEF UpTo

\* What is shown is in order, since what is on its way is.
LEMMA ScreenShows == TuiInv /\ ScreenInv => ShownInOrder
<1> SUFFICES ASSUME TuiInv, ScreenInv, ui.at # "gone" PROVE ShownInOrder
  BY DEF ShownInOrder
<1>0. /\ ui \in UiRow /\ net \in NetRow /\ typed \in Nat /\ read \in Nat
      /\ outgoing \in Seq(Nat) /\ written \in Seq(Nat) /\ ui.shown \in Seq(Nat)
      /\ Pending \in Seq(EventRow) /\ Len(Pending) \in Nat
      /\ EventsInOrder /\ ReadAddsUp /\ StatusFollows /\ LinesInOrder
  BY PendingRows DEF TuiInv, UiRow, ScreenInv, LinesInOrder
<1>1. ui.shown \o Texts(Pending) = UpTo(read)
  <2>1. First \in {1, 2} /\ Final \in Int /\ Final <= Len(Pending) /\ Final >= First - 1
    <3>1. Greeting \/ Ending => Len(Pending) >= 1
      BY <1>0 DEF Greeting, Ending
    <3>2. Greeting /\ Ending => Len(Pending) >= 2
      <4>1. ASSUME Greeting PROVE ~Pending[1].last
        <5>1. 1 \in 1..Len(Pending)
          BY <1>0, <3>1, <4>1
        <5>2. \/ Pending[1].kind = "established" /\ ~Pending[1].last
              \/ Pending[1].kind = "text" /\ ~Pending[1].last
              \/ Pending[1].kind \in {"error", "closed"}
          <6>1. EventsInOrder
            BY <1>0
          <6> QED BY <5>1, <6>1 DEF EventsInOrder
        <5>3. Pending[1].kind = "established"
          BY <4>1 DEF Greeting
        <5> QED BY <5>2, <5>3
      <4>2. QED
        BY <1>0, <3>1, <4>1 DEF Ending
    <3>3. QED
      BY <1>0, <3>1, <3>2 DEF First, Final
  <2>2. ASSUME NEW i \in 1..Len(Pending)
        PROVE  Pending[i].kind = "text" <=> i \in First..Final
    <3>1. Greeting => Pending[1].kind = "established"
      BY DEF Greeting
    <3>2. i = 1 /\ Pending[i].kind = "established" => Greeting
      BY <1>0 DEF Greeting
    <3>3. Ending <=> Pending[Len(Pending)].last
      BY <1>0 DEF Ending
    <3>4. \/ Pending[i].kind = "established" /\ ~Pending[i].last /\ i = 1
          \/ Pending[i].kind = "text" /\ ~Pending[i].last
          \/ Pending[i].kind \in {"error", "closed"} /\ Pending[i].last /\ i = Len(Pending)
      BY <1>0 DEF EventsInOrder
    <3>5. i \in First..Final <=> ~(Greeting /\ i = 1) /\ ~(Ending /\ i = Len(Pending))
      BY <1>0 DEF First, Final
    <3>6. QED
      BY <3>1, <3>2, <3>3, <3>4, <3>5
  <2>3. Texts(Pending) = [k \in 1..(Final - First + 1) |-> Pending[First + k - 1].text]
    <3> DEFINE lo == First
               hi == Final
    <3>1. /\ lo \in Int /\ hi \in Int /\ lo >= 1 /\ hi <= Len(Pending) /\ hi >= lo - 1
          /\ \A i \in 1..Len(Pending) : Pending[i].kind = "text" <=> i \in lo..hi
      BY <2>1, <2>2
    <3> HIDE DEF lo, hi
    <3>2. Texts(Pending) = [k \in 1..(hi - lo + 1) |-> Pending[lo + k - 1].text]
      BY <1>0, <3>1, TextsOf
    <3>3. QED
      BY <3>2 DEF lo, hi
  <2>4. ASSUME NEW k \in 1..(Final - First + 1)
        PROVE  Pending[First + k - 1].text = Len(ui.shown) + k
    <3>1. First + k - 1 \in 1..Len(Pending) /\ First + k - 1 \in First..Final
      BY <1>0, <2>1
    <3>2. Pending[First + k - 1].kind = "text"
      BY <2>2, <3>1
    <3>3. Pending[First + k - 1].text = Len(ui.shown) + (First + k - 1) - First + 1
      BY <1>0, <3>1, <3>2 DEF EventsInOrder
    <3>4. QED
      <4> DEFINE m == Len(ui.shown)
      <4>1. m \in Nat /\ Pending[First + k - 1].text = m + (First + k - 1) - First + 1
        BY <1>0, <3>3
      <4> HIDE DEF m
      <4>2. Pending[First + k - 1].text = m + k
        BY <2>1, <4>1
      <4>3. QED
        BY <4>2 DEF m
  <2>5. Texts(Pending) = [k \in 1..(Final - First + 1) |-> Len(ui.shown) + k]
    BY <2>3, <2>4
  <2>6. Final - First + 1 \in Nat /\ Len(ui.shown) \in Nat
    BY <1>0, <2>1
  <2>7. UpTo(Len(ui.shown)) \o Texts(Pending) = UpTo(Len(ui.shown) + (Final - First + 1))
    BY <2>5, <2>6, Joined
  <2>8. read = Len(ui.shown) + (Final - First + 1)
    <3> DEFINE m == Len(ui.shown)
    <3>1. m \in Nat /\ read = m + Final - First + 1
      BY <1>0 DEF ReadAddsUp
    <3> HIDE DEF m
    <3>2. read = m + (Final - First + 1)
      BY <2>1, <3>1
    <3>3. QED
      BY <3>2 DEF m
  <2>9. ui.shown = UpTo(Len(ui.shown))
    BY <1>0 DEF ReadAddsUp
  <2>10. QED
    BY <2>7, <2>8, <2>9
<1>2. written = UpTo(Len(written))
  BY <1>0 DEF LinesInOrder, UpTo
<1>3. ASSUME net.at \in {"connecting", "select"}
      PROVE  written \o outgoing \o (IF ui.at = "sending" THEN <<typed>> ELSE <<>>) = UpTo(typed)
  <2>1. /\ \A i \in 1..Len(outgoing) : outgoing[i] = Len(written) + i
        /\ typed = Len(written) + Len(outgoing) + IF ui.at = "sending" THEN 1 ELSE 0
        /\ Len(written) \in Nat /\ Len(outgoing) \in Nat
    BY <1>0, <1>3 DEF LinesInOrder
  <2>2. outgoing = [i \in 1..Len(outgoing) |-> Len(written) + i]
    BY <1>0, <2>1
  <2>3. written \o outgoing = UpTo(Len(written) + Len(outgoing))
    BY <1>2, <2>1, <2>2, Joined
  <2>4. CASE ui.at = "sending"
    <3>1. <<typed>> = [i \in 1..1 |-> (Len(written) + Len(outgoing)) + i]
      BY <2>1, <2>4
    <3>2. Len(written) + Len(outgoing) \in Nat
      BY <2>1
    <3>3. UpTo(Len(written) + Len(outgoing)) \o <<typed>> = UpTo((Len(written) + Len(outgoing)) + 1)
      BY <3>1, <3>2, Joined
    <3>4. QED
      BY <2>1, <2>3, <2>4, <3>3
  <2>5. CASE ui.at # "sending"
    <3>1. UpTo(typed) \o <<>> = UpTo(typed)
      BY <1>0 DEF UpTo
    <3>2. typed = Len(written) + Len(outgoing)
      BY <2>1, <2>5
    <3>3. QED
      BY <2>3, <2>5, <3>1, <3>2
  <2>6. QED
    BY <2>4, <2>5
<1>4. Pending = <<>> => (ui.status = "Connected" <=> net.at = "select")
  <2>1. net.at = "report" => Pending # <<>>
    BY <1>0, PendingRows DEF TuiInv
  <2>2. ASSUME Pending = <<>>
        PROVE  ~Greeting /\ ~Ending
    BY <2>2 DEF Greeting, Ending
  <2>3. QED
    BY <1>0, <2>1, <2>2 DEF StatusFollows, NetRow
<1>5. QED
  BY <1>1, <1>2, <1>3, <1>4 DEF ShownInOrder

\* A step elsewhere leaves the screen alone.
LEMMA ScreenStutter == ASSUME ScreenInv, UNCHANGED tuiVars PROVE ScreenInv'
<1>1. ui' = ui /\ UNCHANGED <<typed, net, read, events, outgoing, written>>
  BY DEF tuiVars
<1>2. Screen /\ LinesInOrder => Screen' /\ LinesInOrder'
  BY <1>1, ScreenSame, LinesSame
<1>3. QED
  BY <1>1, <1>2 DEF ScreenInv, Screen

-----------------------------------------------------------------------------
(* The interfaces together *)

ControlInv == BranchesInv /\ SocketsInv /\ TuiInv /\ ScreenInv

\* Each part keeps its own conjunct, and stutters in the steps of the others.
LEMMA ControlInvariant == Spec => []ControlInv
<1>1. Init => ControlInv
  BY BranchesInitially, SocketsInitially, TuiInitially, ScreenFirst
     DEF Init, ControlInv, ScreenInv, Screen
<1>2. ControlInv /\ [Next]_vars => ControlInv'
  <2>1. SUFFICES ASSUME ControlInv, [Next]_vars PROVE ControlInv'
    OBVIOUS
  <2>2. BranchesInv'
    BY <2>1, BranchesStep, BranchesStutter DEF ControlInv, Next, vars
  <2>3. SocketsInv'
    BY <2>1, SocketsStep, SocketsStutter DEF ControlInv, Next, vars
  <2>4. TuiInv'
    BY <2>1, TuiStep, TuiStutter DEF ControlInv, Next, vars
  <2>5. ScreenInv'
    BY <2>1, <2>4, ScreenStep, ScreenStutter DEF ControlInv, Next, vars
  <2>6. QED
    BY <2>2, <2>3, <2>4, <2>5 DEF ControlInv
<1>3. QED
  BY <1>1, <1>2, PTL DEF Spec

\* However many clients ask at the same time, a branch is executed or aborted
\* once and a session committed or rolled back once, and no channel of the
\* terminal holds more than its size (the locks of BranchStorage and of the
\* session manager; the bounded channels of run_app).
THEOREM OneOutcomeAlways == Spec => []OneOutcome
<1>1. ControlInv => OneOutcome
  BY TuiTyped DEF ControlInv, BranchesInv, SocketsInv, OneOutcome
<1>2. QED
  BY <1>1, ControlInvariant, PTL

\* A WebSocket client receives the broadcasts sent since it connected in order
\* and with none missing, however small the ring and whoever lags behind
\* (BroadcastReceiver::recv, run).
THEOREM ReceivedInOrderAlways == Spec => []ReceivedInOrder
<1>1. ControlInv => ReceivedInOrder
  BY DEF ControlInv, SocketsInv
<1>2. QED
  BY <1>1, ControlInvariant, PTL

\* Whatever either side waits for, a client gets the broadcasts since it
\* connected in order and with none missing, and the terminal shows what it
\* read, writes what was typed, in order, and ends at the status of its
\* connection, with channels of any size (Network::connect, run_app).
THEOREM NoGapsAlways == Spec => []NoGaps
<1>1. ControlInv => NoGaps
  BY ScreenShows DEF ControlInv, SocketsInv, NoGaps
<1>2. QED
  BY <1>1, ControlInvariant, PTL
=============================================================================
