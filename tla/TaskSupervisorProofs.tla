------------------------ MODULE TaskSupervisorProofs ------------------------
(***************************************************************************)
(* Proofs about TaskSupervisor, for any tasks, plans, answers and faults.  *)
(* What holds for one poll at a time is proved from OnePoller.             *)
(***************************************************************************)
EXTENDS TaskSupervisor, TLAPS

OnePoller == \A p, q \in Pollers : p = q

\* What a poll has fetched and not handled yet is as it was fetched, and the
\* task it is at is not finished; only a task in planning gets subtasks.
Fresh ==
    \A p \in Pollers :
        /\ pc[p] = "idle" => snap[p] = {}
        /\ pc[p] \in Busy => task[job[p].task].status \in Active
        /\ pc[p] = "create" => /\ task[job[p].task].status = "Planning"
                              /\ job[p].goal = "Coordinating"
        /\ \A s \in snap[p] : /\ task[s.id].status = s.status
                              /\ pc[p] \in Busy => s.id # job[p].task
                              /\ \A r \in snap[p] : r.id = s.id => r = s

ChildrenDone(t) ==
    /\ Children(t) # {}
    /\ \A u \in Children(t) : task[u].status = "Completed"

\* What a status, and a status about to be written, says of the subtasks.
Earned ==
    /\ CompletedIsDone
    /\ \A t \in Tasks :
          /\ task[t].status = "Verifying" => ChildrenDone(t)
          /\ task[t].status = "Coordinating" => Children(t) # {}
    /\ \A p \in Pollers : pc[p] = "write" =>
          LET t == job[p].task
          IN  /\ job[p].goal = "Completed" => t \in answered \/ ChildrenDone(t)
              /\ job[p].goal = "Verifying" => ChildrenDone(t)
              /\ job[p].goal = "Coordinating" => Children(t) # {}

-----------------------------------------------------------------------------
(* Type correctness *)

\* A poll turns to a task it has fetched.
LEMMA TurnType ==
    ASSUME TypeOK, NEW p \in Pollers, NEW s \in snap[p], NEW status, Turn(p, s, status)
    PROVE  /\ s \in Fetched /\ s.id \in Tasks
           /\ snap' \in [Pollers -> SUBSET Fetched]
           /\ snap'[p] = snap[p] \ {s}
           /\ s.status = status /\ pc[p] = "loop"
<1>1. s \in Fetched /\ s.id \in Tasks
  BY DEF TypeOK, Fetched
<1>2. QED
  BY <1>1 DEF TypeOK, Turn

\* A poll goes on with the task it is at.
LEMMA ThenType ==
    ASSUME TypeOK, NEW p \in Pollers, NEW next \in Busy, NEW t \in Tasks,
           NEW goal \in Active \cup Terminal, NEW left \in Nat,
           next = "create" => left > 0,
           Then(p, next, t, goal, left)
    PROVE  /\ pc' \in [Pollers -> {"idle", "loop"} \cup Busy]
           /\ job' \in [Pollers -> Job]
           /\ \A q \in Pollers : pc'[q] \in Busy => job'[q].task \in Tasks
           /\ \A q \in Pollers : pc'[q] = "create" => job'[q].left > 0
<1>1. [task |-> t, goal |-> goal, left |-> left] \in Job
  BY DEF Job
<1>2. /\ pc' \in [Pollers -> {"idle", "loop"} \cup Busy]
      /\ job' \in [Pollers -> Job]
      /\ pc'[p] = next /\ job'[p].task = t /\ job'[p].left = left
      /\ \A q \in Pollers : q # p => pc'[q] = pc[q] /\ job'[q] = job[q]
  BY <1>1 DEF TypeOK, Then
<1>3. QED
  BY <1>2 DEF TypeOK

\* A poll goes on to its next task.
LEMMA NextTaskType ==
    ASSUME TypeOK, NEW p \in Pollers, NextTask(p)
    PROVE  /\ pc' \in [Pollers -> {"idle", "loop"} \cup Busy]
           /\ job' \in [Pollers -> Job]
           /\ \A q \in Pollers : pc'[q] \in Busy => job'[q].task \in Tasks
           /\ \A q \in Pollers : pc'[q] = "create" => job'[q].left > 0
<1>1. NoJob \in Job
  BY DEF NoJob, Job, Active
<1>2. /\ pc' \in [Pollers -> {"idle", "loop"} \cup Busy]
      /\ job' \in [Pollers -> Job]
      /\ pc'[p] = "loop"
      /\ \A q \in Pollers : q # p => pc'[q] = pc[q] /\ job'[q] = job[q]
  BY <1>1 DEF TypeOK, NextTask
<1>3. QED
  BY <1>2 DEF TypeOK, Busy

\* A task's row.
LEMMA RowType ==
    ASSUME TypeOK, NEW t \in Tasks
    PROVE  task[t] \in Row /\ task[t].status \in Active \cup Terminal \cup {"absent"}
BY DEF TypeOK, Row

\* A task that is inserted has a row.
LEMMA InsertType ==
    ASSUME TypeOK, NEW t \in Tasks, NEW parent \in Tasks \cup {NoTask}, Insert(t, parent)
    PROVE  task' \in [Tasks -> Row]
<1>1. [status |-> "Pending", parent |-> parent, assigned |-> FALSE] \in Row
  BY DEF Row, Active
<1>2. QED
  BY <1>1 DEF TypeOK, Insert

\* A task whose status is written has a row.
LEMMA StatusType ==
    ASSUME TypeOK, NEW t \in Tasks, NEW status \in Active \cup Terminal,
           task' = [task EXCEPT ![t].status = status]
    PROVE  task' \in [Tasks -> Row]
<1>1. [task[t] EXCEPT !.status = status] \in Row
  BY RowType DEF Row
<1>2. QED
  BY <1>1 DEF TypeOK

\* The types hold initially.
LEMMA TypeInit == Init => TypeOK
<1>1. NoJob \in Job
  BY DEF NoJob, Job, Active
<1>2. [status |-> "absent", parent |-> NoTask, assigned |-> FALSE] \in Row
  BY DEF Row
<1>3. QED
  BY <1>1, <1>2 DEF Init, TypeOK, Busy

\* Every handler of a state keeps the types.
LEMMA HandlerType ==
    ASSUME TypeOK, NEW p \in Pollers, NEW s \in snap[p], Handler(p, s)
    PROVE  TypeOK'
<1> USE DEF Active, Terminal, Busy
<1>1. CASE PendingHandler(p, s)
  BY <1>1, TurnType, ThenType DEF PendingHandler, TypeOK, history
<1>2. CASE PlanningHandler(p, s)
  <2>1. s.id \in Tasks /\ snap' \in [Pollers -> SUBSET Fetched]
    BY <1>2, TurnType DEF PlanningHandler
  <2>2. CASE Then(p, "write", s.id, "Executing", 0)
    BY <1>2, <2>1, <2>2, ThenType DEF PlanningHandler, TypeOK, history
  <2>3. CASE \E n \in 1..MaxSubs : Then(p, "create", s.id, "Coordinating", n)
    <3>1. PICK n \in 1..MaxSubs : Then(p, "create", s.id, "Coordinating", n)
      BY <2>3
    <3>2. n \in Nat /\ n > 0
      BY EnvironmentAssumption
    <3>3. QED
      BY <1>2, <2>1, <3>1, <3>2, ThenType DEF PlanningHandler, TypeOK, history
  <2>4. CASE Then(p, "fail", s.id, "Failed", 0)
    BY <1>2, <2>1, <2>4, ThenType DEF PlanningHandler, TypeOK, history
  <2>5. QED
    BY <1>2, <2>2, <2>3, <2>4 DEF PlanningHandler
<1>3. CASE ExecutingAssigned(p, s)
  BY <1>3, TurnType, NextTaskType DEF ExecutingAssigned, TypeOK, history
<1>4. CASE Dispatch(p, s)
  <2>1. s.id \in Tasks /\ snap' \in [Pollers -> SUBSET Fetched] /\ UNCHANGED task
    BY <1>4, TurnType DEF Dispatch
  <2>2. answered' \subseteq Tasks /\ again' \subseteq Tasks
    BY <1>4, <2>1 DEF Dispatch, Ask, TypeOK
  <2>3. \/ Then(p, "write", s.id, "Completed", 0) \/ Then(p, "assign", s.id, "Executing", 0)
        \/ Then(p, "fail", s.id, "Failed", 0) \/ NextTask(p)
    BY <1>4 DEF Dispatch, Ask
  <2>4. /\ pc' \in [Pollers -> {"idle", "loop"} \cup Busy]
        /\ job' \in [Pollers -> Job]
        /\ \A q \in Pollers : pc'[q] \in Busy => job'[q].task \in Tasks
        /\ \A q \in Pollers : pc'[q] = "create" => job'[q].left > 0
    BY <2>1, <2>3, ThenType, NextTaskType
  <2>5. QED
    BY <2>1, <2>2, <2>4 DEF TypeOK
<1>5. CASE CoordinatingHandler(p, s)
  <2>1. s.id \in Tasks /\ snap' \in [Pollers -> SUBSET Fetched]
        /\ UNCHANGED <<task, answered, again>>
    BY <1>5, TurnType DEF CoordinatingHandler, history
  <2>2. \/ Then(p, "write", s.id, "Failed", 0) \/ Then(p, "write", s.id, "Verifying", 0)
        \/ NextTask(p)
    BY <1>5 DEF CoordinatingHandler
  <2>3. QED
    BY <2>1, <2>2, ThenType, NextTaskType DEF TypeOK
<1>6. CASE VerifyingHandler(p, s)
  BY <1>6, TurnType, ThenType DEF VerifyingHandler, TypeOK, history
<1>7. QED
  BY <1>1, <1>2, <1>3, <1>4, <1>5, <1>6 DEF Handler

\* Every step keeps the types.
LEMMA TypeStep == TypeOK /\ [Next]_vars => TypeOK'
<1> SUFFICES ASSUME TypeOK, [Next]_vars PROVE TypeOK'
  OBVIOUS
<1> USE DEF Active, Terminal, Busy
<1>1. ASSUME NEW t \in Roots, Submit(t) PROVE TypeOK'
  BY <1>1, InsertType DEF Submit, TypeOK, poll, history, Tasks
<1>2. ASSUME NEW p \in Pollers, Poll(p) PROVE TypeOK'
  <2>1. \A t \in Tasks : task[t].status \in Active =>
          [id |-> t, status |-> task[t].status, assigned |-> task[t].assigned] \in Fetched
    BY DEF TypeOK, Row, Fetched
  <2>2. snap' \in [Pollers -> SUBSET Fetched]
    BY <1>2, <2>1 DEF Poll, TypeOK
  <2>3. QED
    BY <1>2, <2>2 DEF Poll, TypeOK, history
<1>3. ASSUME NEW p \in Pollers, PollDone(p) PROVE TypeOK'
  BY <1>3 DEF PollDone, TypeOK, history
<1>4. ASSUME NEW p \in Pollers, NEW u \in Subs, CreateTask(p, u) PROVE TypeOK'
  <2>1. /\ job[p].task \in Tasks /\ u \in Tasks /\ job[p].goal \in Active \cup Terminal
        /\ job[p].left \in Nat /\ job[p].left > 0
    BY <1>4 DEF CreateTask, TypeOK, Job, Tasks
  <2>2. task' \in [Tasks -> Row]
    BY <1>4, <2>1, InsertType DEF CreateTask
  <2> DEFINE next == IF job[p].left = 1 THEN "write" ELSE "create"
  <2>3. job[p].left - 1 \in Nat /\ (next = "create" => job[p].left - 1 > 0) /\ next \in Busy
    BY <2>1
  <2>4. Then(p, next, job[p].task, job[p].goal, job[p].left - 1)
    BY <1>4 DEF CreateTask
  <2> HIDE DEF next
  <2>5. QED
    BY <1>4, <2>1, <2>2, <2>3, <2>4, ThenType DEF CreateTask, TypeOK, history
<1>5. ASSUME NEW p \in Pollers, AssignAgent(p) PROVE TypeOK'
  <2>1. job[p].task \in Tasks
    BY <1>5 DEF AssignAgent, TypeOK
  <2>2. [task[job[p].task] EXCEPT !.assigned = TRUE] \in Row
    BY <2>1, RowType DEF Row
  <2>3. task' \in [Tasks -> Row]
    BY <1>5, <2>1, <2>2 DEF AssignAgent, TypeOK
  <2>4. QED
    BY <1>5, <2>3, NextTaskType DEF AssignAgent, TypeOK, history
<1>6. ASSUME NEW p \in Pollers, WriteStatus(p) PROVE TypeOK'
  <2>1. job[p].task \in Tasks /\ job[p].goal \in Active \cup Terminal
    BY <1>6 DEF WriteStatus, TypeOK, Job
  <2>2. task' \in [Tasks -> Row]
    BY <1>6, <2>1, StatusType DEF WriteStatus
  <2>3. QED
    BY <1>6, <2>2, NextTaskType DEF WriteStatus, TypeOK, history
<1>7. ASSUME NEW p \in Pollers, StatementFails(p) PROVE TypeOK'
  <2>1. CASE /\ pc[p] \in Busy \ {"fail"} /\ UNCHANGED snap
             /\ Then(p, "fail", job[p].task, "Failed", 0)
    <3>1. job[p].task \in Tasks
      BY <2>1 DEF TypeOK
    <3>2. QED
      BY <1>7, <2>1, <3>1, ThenType DEF StatementFails, TypeOK, history
  <2>2. ASSUME NEW s \in snap[p], Turn(p, s, "Coordinating"),
               Then(p, "fail", s.id, "Failed", 0)
        PROVE  TypeOK'
    BY <1>7, <2>2, TurnType, ThenType DEF StatementFails, TypeOK, history
  <2>3. QED
    BY <1>7, <2>1, <2>2 DEF StatementFails
<1>8. ASSUME NEW p \in Pollers, HandleFailure(p) PROVE TypeOK'
  <2>1. job[p].task \in Tasks
    BY <1>8 DEF HandleFailure, TypeOK
  <2>2. task' \in [Tasks -> Row]
    BY <1>8, <2>1, StatusType DEF HandleFailure, TypeOK
  <2>3. QED
    BY <1>8, <2>2, NextTaskType DEF HandleFailure, TypeOK, history
<1>9. ASSUME NEW p \in Pollers, Crash(p) PROVE TypeOK'
  <2>1. NoJob \in Job
    BY DEF NoJob, Job
  <2>2. QED
    BY <1>9, <2>1 DEF Crash, TypeOK, history
<1>10. CASE UNCHANGED vars
  BY <1>10 DEF TypeOK, vars, poll, history
<1>11. QED
  BY <1>1, <1>2, <1>3, <1>4, <1>5, <1>6, <1>7, <1>8, <1>9, <1>10, HandlerType DEF Next, Run

\* The table and the polls always have their types, however many polls run; a
\* poll never creates more subtasks than its plan has steps (PlanningHandler).
THEOREM TypeCorrect == Spec => []TypeOK
BY TypeInit, TypeStep, PTL DEF Spec

-----------------------------------------------------------------------------
(* One poll at a time works on fresh rows *)

\* A poll has fetched active tasks.
LEMMA SnapType ==
    ASSUME TypeOK, NEW p \in Pollers, NEW s \in snap[p]
    PROVE  s.id \in Tasks /\ s.status \in Active
BY DEF TypeOK, Fetched

\* The poll turns to a task: it has it, and nothing else in its snapshot.
LEMMA TurnFresh ==
    ASSUME TypeOK, Fresh, OnePoller, UNCHANGED task,
           NEW p \in Pollers, NEW s \in snap[p], NEW status, Turn(p, s, status),
           NEW next \in Busy, NEW goal, NEW left,
           next = "create" => status = "Planning" /\ goal = "Coordinating",
           Then(p, next, s.id, goal, left) \/ NextTask(p)
    PROVE  Fresh'
<1>1. /\ snap'[p] = snap[p] \ {s} /\ s.id \in Tasks /\ s.status = status
      /\ s.status \in Active
  BY TurnType, SnapType
<1>2. /\ task[s.id].status = status
      /\ \A r \in snap'[p] : task[r.id].status = r.status /\ r.id # s.id
      /\ \A r, q \in snap'[p] : r.id = q.id => r = q
  BY <1>1 DEF Fresh
<1>3. \/ pc'[p] = "loop"
      \/ pc'[p] = next /\ job'[p].task = s.id /\ job'[p].goal = goal
  BY DEF Then, NextTask, TypeOK
<1>4. SUFFICES ASSUME NEW q \in Pollers, q = p
               PROVE  /\ pc'[q] = "idle" => snap'[q] = {}
                      /\ pc'[q] \in Busy => task'[job'[q].task].status \in Active
                      /\ pc'[q] = "create" => /\ task'[job'[q].task].status = "Planning"
                                             /\ job'[q].goal = "Coordinating"
                      /\ \A r \in snap'[q] :
                            /\ task'[r.id].status = r.status
                            /\ pc'[q] \in Busy => r.id # job'[q].task
                            /\ \A x \in snap'[q] : x.id = r.id => x = r
  BY DEF Fresh, OnePoller
<1>5. QED
  BY <1>1, <1>2, <1>3, <1>4 DEF Busy

\* The poll writes the row of the task it is at and goes on.
LEMMA WriteFresh ==
    ASSUME TypeOK, Fresh, OnePoller, UNCHANGED snap,
           NEW p \in Pollers, pc[p] \in Busy, NextTask(p),
           \A t \in Tasks : t # job[p].task => task'[t] = task[t]
    PROVE  Fresh'
<1>1. \A s \in snap[p] : s.id \in Tasks /\ s.id # job[p].task
  BY SnapType DEF Fresh
<1>2. pc'[p] = "loop"
  BY DEF NextTask, TypeOK
<1>3. QED
  BY <1>1, <1>2 DEF Fresh, OnePoller, Busy

\* A row is inserted.
LEMMA InsertFresh ==
    ASSUME TypeOK, Fresh, NEW t \in Tasks, NEW parent, Absent(t), Insert(t, parent)
    PROVE  /\ \A p \in Pollers : \A s \in snap[p] : task'[s.id] = task[s.id]
           /\ \A p \in Pollers : pc[p] \in Busy => task'[job[p].task] = task[job[p].task]
<1>1. \A u \in Tasks : task[u].status \in Active => task'[u] = task[u]
  BY DEF Insert, Absent, Active, TypeOK
<1>2. \A p \in Pollers : \A s \in snap[p] : s.id \in Tasks /\ task[s.id].status \in Active
  BY SnapType DEF Fresh
<1>3. QED
  BY <1>1, <1>2 DEF Fresh, TypeOK

\* With one poll what it has fetched stays as it is in the table.
LEMMA FreshStep ==
    ASSUME TypeOK, Fresh, OnePoller, [Next]_vars
    PROVE  Fresh'
<1>1. ASSUME NEW t \in Roots, Submit(t) PROVE Fresh'
  <2>1. t \in Tasks /\ Absent(t) /\ Insert(t, NoTask) /\ UNCHANGED <<pc, snap, job>>
    BY <1>1 DEF Submit, Tasks, poll
  <2>2. /\ \A p \in Pollers : \A s \in snap[p] : task'[s.id] = task[s.id]
        /\ \A p \in Pollers : pc[p] \in Busy => task'[job[p].task] = task[job[p].task]
    BY <2>1, InsertFresh
  <2>3. QED
    BY <2>1, <2>2 DEF Fresh, Busy
<1>2. ASSUME NEW p \in Pollers, Poll(p) PROVE Fresh'
  <2>1. /\ pc'[p] = "loop"
        /\ snap'[p] = {[id |-> t, status |-> task[t].status, assigned |-> task[t].assigned] :
                          t \in {u \in Tasks : task[u].status \in Active}}
    BY <1>2 DEF Poll, TypeOK
  <2>2. /\ \A s \in snap'[p] : task[s.id].status = s.status
        /\ \A s, r \in snap'[p] : r.id = s.id => r = s
    BY <2>1
  <2>3. QED
    BY <1>2, <2>1, <2>2 DEF Poll, Fresh, OnePoller, Busy
<1>3. ASSUME NEW p \in Pollers, PollDone(p) PROVE Fresh'
  <2>1. pc'[p] = "idle" /\ snap'[p] = {}
    BY <1>3 DEF PollDone, TypeOK
  <2>2. QED
    BY <1>3, <2>1 DEF PollDone, Fresh, OnePoller, Busy
<1>4. ASSUME NEW p \in Pollers, NEW s \in snap[p], Handler(p, s) PROVE Fresh'
  <2> USE DEF Busy
  <2>1. CASE PendingHandler(p, s)
    BY <2>1, TurnFresh DEF PendingHandler
  <2>2. CASE PlanningHandler(p, s)
    <3>1. PICK next \in Busy, goal \in Active \cup Terminal, left \in Nat :
             /\ Then(p, next, s.id, goal, left)
             /\ next = "create" => goal = "Coordinating"
      <4>1. \A n \in 1..MaxSubs : n \in Nat
        BY EnvironmentAssumption
      <4>2. QED
        BY <2>2, <4>1 DEF PlanningHandler, Active, Terminal
    <3>2. QED
      BY <2>2, <3>1, TurnFresh DEF PlanningHandler
  <2>3. CASE ExecutingAssigned(p, s)
    <3>1. "write" \in Busy
      OBVIOUS
    <3>2. QED
      BY <2>3, <3>1, TurnFresh DEF ExecutingAssigned
  <2>4. CASE Dispatch(p, s)
    <3>1. PICK next \in {"write", "assign", "fail"}, goal \in Active \cup Terminal :
             Then(p, next, s.id, goal, 0) \/ NextTask(p)
      BY <2>4 DEF Dispatch, Ask, Active, Terminal
    <3>2. QED
      BY <2>4, <3>1, TurnFresh DEF Dispatch
  <2>5. CASE CoordinatingHandler(p, s)
    <3>1. PICK goal : Then(p, "write", s.id, goal, 0) \/ NextTask(p)
      BY <2>5 DEF CoordinatingHandler
    <3>2. QED
      BY <2>5, <3>1, TurnFresh DEF CoordinatingHandler
  <2>6. CASE VerifyingHandler(p, s)
    BY <2>6, TurnFresh DEF VerifyingHandler
  <2>7. QED
    BY <1>4, <2>1, <2>2, <2>3, <2>4, <2>5, <2>6 DEF Handler
<1>5. ASSUME NEW p \in Pollers, NEW u \in Subs, CreateTask(p, u) PROVE Fresh'
  <2>1. /\ task'[job[p].task] = task[job[p].task]
        /\ \A s \in snap[p] : task'[s.id] = task[s.id]
    BY <1>5, InsertFresh DEF CreateTask, Tasks, Busy
  <2>2. /\ pc'[p] \in {"write", "create"} /\ snap' = snap
        /\ job'[p].task = job[p].task /\ job'[p].goal = job[p].goal
    BY <1>5 DEF CreateTask, Then, TypeOK
  <2>3. QED
    BY <1>5, <2>1, <2>2 DEF CreateTask, Fresh, OnePoller, Busy
<1>6. ASSUME NEW p \in Pollers, AssignAgent(p) \/ WriteStatus(p) \/ HandleFailure(p)
      PROVE  Fresh'
  <2>1. /\ \A t \in Tasks : t # job[p].task => task'[t] = task[t]
        /\ pc[p] \in Busy /\ NextTask(p) /\ UNCHANGED snap
    BY <1>6 DEF AssignAgent, WriteStatus, HandleFailure, TypeOK, Busy
  <2>2. QED
    BY <2>1, WriteFresh
<1>7. ASSUME NEW p \in Pollers, StatementFails(p) PROVE Fresh'
  <2>1. CASE /\ pc[p] \in Busy \ {"fail"} /\ UNCHANGED snap
             /\ Then(p, "fail", job[p].task, "Failed", 0)
    <3>1. pc'[p] = "fail" /\ job'[p].task = job[p].task
      BY <2>1 DEF Then, TypeOK
    <3>2. QED
      BY <1>7, <2>1, <3>1 DEF StatementFails, Fresh, OnePoller, Busy
  <2>2. ASSUME NEW s \in snap[p], Turn(p, s, "Coordinating"),
               Then(p, "fail", s.id, "Failed", 0)
        PROVE  Fresh'
    BY <1>7, <2>2, TurnFresh DEF StatementFails, Busy
  <2>3. QED
    BY <1>7, <2>1, <2>2 DEF StatementFails
<1>8. ASSUME NEW p \in Pollers, Crash(p) PROVE Fresh'
  <2>1. pc'[p] = "idle" /\ snap'[p] = {}
    BY <1>8 DEF Crash, TypeOK
  <2>2. QED
    BY <1>8, <2>1 DEF Crash, Fresh, OnePoller, Busy
<1>9. CASE UNCHANGED vars
  BY <1>9 DEF vars, poll, Fresh
<1>10. QED
  BY <1>1, <1>2, <1>3, <1>4, <1>5, <1>6, <1>7, <1>8, <1>9 DEF Next, Run

\* With one poll what it has fetched is always as it is in the table.
LEMMA FreshAlways ==
    ASSUME OnePoller
    PROVE  Spec => [](TypeOK /\ Fresh)
<1>1. Init => Fresh
  BY DEF Init, Fresh, Busy
<1>2. TypeOK /\ Fresh /\ [Next]_vars => Fresh'
  BY FreshStep
<1>3. QED
  BY <1>1, <1>2, TypeInit, TypeStep, PTL DEF Spec

\* What a step may do to a row: insert it, or write that of the task a poll is
\* at, which is not finished.
LEMMA FinishedStays ==
    ASSUME TypeOK, Fresh, [Next]_vars, NEW t \in Tasks, task[t].status \in Terminal
    PROVE  task'[t] = task[t]
<1>1. \A p \in Pollers : pc[p] \in Busy => job[p].task \in Tasks /\ job[p].task # t
  BY DEF TypeOK, Fresh, Active, Terminal
<1>2. ASSUME NEW u \in Tasks, NEW parent, Absent(u), Insert(u, parent)
      PROVE  task'[t] = task[t]
  BY <1>2 DEF Absent, Insert, Terminal, TypeOK
<1>3. ASSUME NEW p \in Pollers, AssignAgent(p) \/ WriteStatus(p) \/ HandleFailure(p)
      PROVE  task'[t] = task[t]
  BY <1>1, <1>3 DEF AssignAgent, WriteStatus, HandleFailure, TypeOK, Busy
<1>4. ASSUME NEW p \in Pollers, NEW s \in snap[p], Handler(p, s)
      PROVE  task' = task
  BY <1>4 DEF Handler, PendingHandler, PlanningHandler, ExecutingAssigned, Dispatch,
              CoordinatingHandler, VerifyingHandler
<1>5. QED
  BY <1>2, <1>3, <1>4
     DEF Next, Run, Submit, Poll, PollDone, CreateTask, StatementFails, Crash, vars, Tasks

\* With one poll at a time a task that has completed or failed stays so, whatever
\* fails and whenever the instance crashes: each write goes to a row fetched as
\* active and not written since. No failed task is retried.
THEOREM OnePollTerminalStays ==
    ASSUME OnePoller
    PROVE  Spec => TerminalStays
<1> DEFINE Stays == \A t \in Tasks :
          task[t].status \in Terminal => task'[t].status = task[t].status
<1>1. TypeOK /\ Fresh /\ [Next]_vars => Stays
  BY FinishedStays
<1>2. QED
  BY <1>1, FreshAlways, PTL DEF Spec, TerminalStays

-----------------------------------------------------------------------------
(* What is completed is done *)

\* A row keeps its parent, and a child is made by the poll at its parent only.
LEMMA RowStep ==
    ASSUME TypeOK, Fresh, [Next]_vars, NEW u \in Tasks
    PROVE  /\ ~Absent(u) => ~Absent(u)' /\ task'[u].parent = task[u].parent
           /\ Absent(u) => \/ task'[u] = task[u]
                           \/ task'[u].parent = NoTask
                           \/ \E p \in Pollers : /\ pc[p] = "create"
                                                 /\ task'[u].parent = job[p].task
<1>1. ASSUME NEW t \in Tasks, NEW parent, Absent(t), Insert(t, parent)
      PROVE  /\ ~Absent(u) => task'[u] = task[u]
             /\ task'[u] = task[u] \/ task'[u].parent = parent
  BY <1>1 DEF Absent, Insert, TypeOK
<1>2. ASSUME NEW t \in Roots, Submit(t)
      PROVE  /\ ~Absent(u) => task'[u] = task[u]
             /\ task'[u] = task[u] \/ task'[u].parent = NoTask
  BY <1>1, <1>2 DEF Submit, Tasks
<1>3. ASSUME NEW p \in Pollers, NEW t \in Subs, CreateTask(p, t)
      PROVE  /\ ~Absent(u) => task'[u] = task[u]
             /\ task'[u] = task[u] \/ task'[u].parent = job[p].task
             /\ pc[p] = "create"
  BY <1>1, <1>3 DEF CreateTask, Tasks
<1>4. ASSUME NEW p \in Pollers, AssignAgent(p) \/ WriteStatus(p) \/ HandleFailure(p)
      PROVE  /\ ~Absent(u) => ~Absent(u)' /\ task'[u].parent = task[u].parent
             /\ Absent(u) => task'[u] = task[u]
  <2>1. /\ job[p].task \in Tasks /\ job[p].goal \in Active \cup Terminal
        /\ task[job[p].task].status \in Active
    BY <1>4 DEF AssignAgent, WriteStatus, HandleFailure, TypeOK, Busy, Job, Fresh
  <2>2. CASE u # job[p].task
    BY <1>4, <2>1, <2>2 DEF AssignAgent, WriteStatus, HandleFailure, TypeOK, Absent
  <2>3. CASE u = job[p].task
    <3>1. task[u] \in Row /\ ~Absent(u)
      BY <2>1, <2>3, RowType DEF Active, Absent
    <3>2. \/ task'[u] = [task[u] EXCEPT !.assigned = TRUE]
          \/ task'[u] = [task[u] EXCEPT !.status = job[p].goal]
          \/ task'[u] = [task[u] EXCEPT !.status = "Failed"]
          \/ task'[u] = task[u]
      BY <1>4, <2>1, <2>3 DEF AssignAgent, WriteStatus, HandleFailure, TypeOK
    <3>3. QED
      BY <2>1, <3>1, <3>2 DEF Row, Absent, Active, Terminal
  <2>4. QED
    BY <2>2, <2>3
<1>5. ASSUME NEW p \in Pollers, NEW s \in snap[p], Handler(p, s)
      PROVE  task' = task
  BY <1>5 DEF Handler, PendingHandler, PlanningHandler, ExecutingAssigned, Dispatch,
              CoordinatingHandler, VerifyingHandler
<1>6. QED
  BY <1>2, <1>3, <1>4, <1>5
     DEF Next, Run, Poll, PollDone, StatementFails, Crash, vars, Absent

\* A task keeps its subtasks; it gets new ones only in planning.
LEMMA ChildrenKept ==
    ASSUME TypeOK, Fresh, [Next]_vars, NEW t \in Tasks
    PROVE  /\ Children(t) \subseteq Children(t)'
           /\ task[t].status # "Planning" => Children(t)' = Children(t)
<1>1. Children(t) \subseteq Children(t)'
  BY RowStep DEF Children
<1>2. ASSUME task[t].status # "Planning", NEW u \in Children(t)'
      PROVE  u \in Children(t)
  <2>1. u \in Tasks /\ ~Absent(u)' /\ task'[u].parent = t
    BY <1>2 DEF Children
  <2>2. NoTask # t
    BY TasksAssumption DEF Tasks
  <2>3. \A p \in Pollers : pc[p] = "create" => job[p].task # t
    BY <1>2 DEF Fresh
  <2>4. ~Absent(u)
    BY <2>1, <2>2, <2>3, RowStep DEF Absent
  <2>5. QED
    BY <2>1, <2>4, RowStep DEF Children
<1>3. QED
  BY <1>1, <1>2

\* The children of a task that is not planning stay completed.
LEMMA ChildrenStayDone ==
    ASSUME TypeOK, Fresh, [Next]_vars, NEW t \in Tasks, ChildrenDone(t),
           task[t].status # "Planning"
    PROVE  ChildrenDone(t)'
<1>1. Children(t)' = Children(t) /\ Children(t) # {} /\ Children(t) \subseteq Tasks
  BY ChildrenKept DEF ChildrenDone, Children
<1>2. \A u \in Children(t) : task[u].status = "Completed" /\ task'[u] = task[u]
  BY <1>1, FinishedStays DEF ChildrenDone, Terminal
<1>3. QED
  BY <1>1, <1>2 DEF ChildrenDone

\* What agents have answered is not forgotten.
LEMMA AnsweredGrows == [Next]_vars => answered \subseteq answered'
<1> SUFFICES ASSUME [Next]_vars PROVE answered \subseteq answered'
  OBVIOUS
<1>1. ASSUME NEW p \in Pollers, NEW s \in snap[p], Handler(p, s)
      PROVE  answered \subseteq answered'
  <2>1. CASE Dispatch(p, s)
    BY <2>1 DEF Dispatch, Ask
  <2>2. CASE PlanningHandler(p, s)
    BY <2>2 DEF PlanningHandler, history
  <2>3. CASE \/ PendingHandler(p, s) \/ ExecutingAssigned(p, s)
             \/ CoordinatingHandler(p, s) \/ VerifyingHandler(p, s)
    BY <2>3 DEF PendingHandler, ExecutingAssigned, CoordinatingHandler, VerifyingHandler, history
  <2>4. QED
    BY <1>1, <2>1, <2>2, <2>3 DEF Handler
<1>2. ASSUME NEW p \in Pollers, Run(p) PROVE answered \subseteq answered'
  <2>1. CASE Poll(p) \/ PollDone(p) \/ \E u \in Subs : CreateTask(p, u)
    BY <2>1 DEF Poll, PollDone, CreateTask, history
  <2>2. CASE AssignAgent(p) \/ WriteStatus(p) \/ StatementFails(p) \/ HandleFailure(p)
    BY <2>2 DEF AssignAgent, WriteStatus, StatementFails, HandleFailure, history
  <2>3. QED
    BY <1>1, <1>2, <2>1, <2>2 DEF Run
<1>3. ASSUME NEW p \in Pollers, Crash(p) PROVE answered \subseteq answered'
  BY <1>3 DEF Crash, history
<1>4. ASSUME NEW t \in Roots, Submit(t) PROVE answered \subseteq answered'
  BY <1>4 DEF Submit, history
<1>5. QED
  BY <1>2, <1>3, <1>4 DEF Next, vars, history

\* A status that changes is set by an insertion, by WriteStatus or by a failure.
LEMMA StatusStep ==
    ASSUME TypeOK, [Next]_vars, NEW t \in Tasks, task'[t].status # task[t].status
    PROVE  \/ task'[t].status \in {"Pending", "Failed"}
           \/ \E p \in Pollers : /\ WriteStatus(p) /\ pc[p] = "write" /\ t = job[p].task
                                 /\ task'[t].status = job[p].goal
<1>1. ASSUME NEW u \in Tasks, NEW parent, Insert(u, parent)
      PROVE  task'[t].status = "Pending"
  BY <1>1 DEF Insert, TypeOK
<1>2. ASSUME NEW p \in Pollers, AssignAgent(p)
      PROVE  FALSE
  BY <1>2 DEF AssignAgent, TypeOK, Busy, Row
<1>3. ASSUME NEW p \in Pollers, WriteStatus(p)
      PROVE  pc[p] = "write" /\ t = job[p].task /\ task'[t].status = job[p].goal
  BY <1>3 DEF WriteStatus, TypeOK, Busy, Row
<1>4. ASSUME NEW p \in Pollers, HandleFailure(p)
      PROVE  task'[t].status = "Failed"
  BY <1>4 DEF HandleFailure, TypeOK, Busy, Row
<1>5. ASSUME NEW p \in Pollers, NEW s \in snap[p], Handler(p, s)
      PROVE  task' = task
  BY <1>5 DEF Handler, PendingHandler, PlanningHandler, ExecutingAssigned, Dispatch,
              CoordinatingHandler, VerifyingHandler
<1>6. QED
  BY <1>1, <1>2, <1>3, <1>4, <1>5
     DEF Next, Run, Submit, Poll, PollDone, CreateTask, StatementFails, Crash, vars, Tasks

\* The statuses keep their meaning.
LEMMA StatusEarned ==
    ASSUME TypeOK, Fresh, Earned, [Next]_vars, NEW t \in Tasks
    PROVE  /\ task'[t].status = "Completed" => t \in answered' \/ ChildrenDone(t)'
           /\ task'[t].status = "Verifying" => ChildrenDone(t)'
           /\ task'[t].status = "Coordinating" => Children(t)' # {}
<1>1. answered \subseteq answered' /\ Children(t) \subseteq Children(t)'
  BY AnsweredGrows, ChildrenKept
<1>2. CASE task'[t].status = task[t].status
  <2>1. /\ task[t].status = "Completed" => t \in answered \/ ChildrenDone(t)
        /\ task[t].status = "Verifying" => ChildrenDone(t)
        /\ task[t].status = "Coordinating" => Children(t) # {}
    BY DEF Earned, CompletedIsDone, ChildrenDone
  <2>2. QED
    BY <1>1, <1>2, <2>1, ChildrenStayDone
<1>3. CASE task'[t].status # task[t].status /\ task'[t].status \in {"Pending", "Failed"}
  BY <1>3
<1>4. ASSUME NEW p \in Pollers, WriteStatus(p), pc[p] = "write", t = job[p].task,
             task'[t].status = job[p].goal
      PROVE  /\ task'[t].status = "Completed" => t \in answered' \/ ChildrenDone(t)'
             /\ task'[t].status = "Verifying" => ChildrenDone(t)'
             /\ task'[t].status = "Coordinating" => Children(t)' # {}
  <2>1. /\ job[p].goal = "Completed" => t \in answered \/ ChildrenDone(t)
        /\ job[p].goal = "Verifying" => ChildrenDone(t)
        /\ job[p].goal = "Coordinating" => Children(t) # {}
    BY <1>4 DEF Earned
  <2>2. ASSUME ChildrenDone(t) PROVE ChildrenDone(t)'
    <3>1. task[job[p].task].status \in Active
      BY <1>4 DEF Fresh, Busy
    <3>2. \A u \in Tasks : Absent(u) => task'[u] = task[u]
      BY <1>4, <3>1 DEF WriteStatus, TypeOK, Active, Absent
    <3>3. Children(t)' = Children(t)
      BY <3>2, RowStep DEF Children, Absent
    <3>4. \A u \in Children(t) : task[u].status = "Completed" /\ task'[u] = task[u]
      BY <2>2, FinishedStays DEF ChildrenDone, Children, Terminal
    <3>5. QED
      BY <2>2, <3>3, <3>4 DEF ChildrenDone
  <2>3. QED
    BY <1>1, <1>4, <2>1, <2>2
<1>5. QED
  BY <1>2, <1>3, <1>4, StatusStep

GoalEarned(p) ==
    LET t == job[p].task
    IN  /\ job[p].goal = "Completed" => t \in answered \/ ChildrenDone(t)
        /\ job[p].goal = "Verifying" => ChildrenDone(t)
        /\ job[p].goal = "Coordinating" => Children(t) # {}

\* A handler decides on a status the subtasks have earned.
LEMMA HandlerEarned ==
    ASSUME TypeOK, Fresh, Earned, NEW p \in Pollers, NEW s \in snap[p], Handler(p, s),
           pc'[p] = "write"
    PROVE  GoalEarned(p)'
<1>1. /\ s.id \in Tasks /\ task[s.id].status = s.status
      /\ task[s.id].status = "Verifying" => ChildrenDone(s.id)
      /\ task[s.id].status = "Coordinating" => Children(s.id) # {}
  BY SnapType DEF Fresh, Earned
<1>2. /\ task' = task /\ answered \subseteq answered'
      /\ Children(s.id)' = Children(s.id) /\ ChildrenDone(s.id)' = ChildrenDone(s.id)
  <2>1. task' = task /\ answered \subseteq answered'
    BY DEF Handler, PendingHandler, PlanningHandler, ExecutingAssigned, Dispatch, Ask,
           CoordinatingHandler, VerifyingHandler, history
  <2>2. QED
    BY <2>1 DEF Children, ChildrenDone, Absent
<1>3. ASSUME NEW next, NEW goal, NEW left, Then(p, next, s.id, goal, left)
      PROVE  pc'[p] = next /\ job'[p].task = s.id /\ job'[p].goal = goal
  BY <1>3 DEF Then, TypeOK
<1>4. ASSUME NextTask(p) PROVE FALSE
  BY <1>4 DEF NextTask, TypeOK
<1>5. CASE PendingHandler(p, s)
  BY <1>3, <1>5 DEF PendingHandler, GoalEarned
<1>6. CASE PlanningHandler(p, s)
  <2>1. ASSUME NEW n \in 1..MaxSubs, Then(p, "create", s.id, "Coordinating", n)
        PROVE  FALSE
    BY <1>3, <2>1
  <2>2. ~ Then(p, "fail", s.id, "Failed", 0)
    BY <1>3
  <2>3. Then(p, "write", s.id, "Executing", 0)
    BY <1>6, <2>1, <2>2 DEF PlanningHandler
  <2>4. QED
    BY <1>3, <2>3 DEF GoalEarned
<1>7. CASE Dispatch(p, s)
  <2>1. Then(p, "write", s.id, "Completed", 0) /\ s.id \in answered'
    BY <1>3, <1>4, <1>7 DEF Dispatch, Ask
  <2>2. QED
    BY <1>3, <2>1 DEF GoalEarned
<1>8. CASE CoordinatingHandler(p, s)
  <2>1. s.status = "Coordinating"
    BY <1>8 DEF CoordinatingHandler, Turn
  <2>2. CASE Then(p, "write", s.id, "Failed", 0)
    BY <1>3, <2>2 DEF GoalEarned
  <2>3. CASE /\ Then(p, "write", s.id, "Verifying", 0)
             /\ {task[u].status : u \in Children(s.id)} \subseteq {"Completed"}
    <3>1. ChildrenDone(s.id)
      BY <1>1, <2>1, <2>3 DEF ChildrenDone
    <3>2. job'[p].task = s.id /\ job'[p].goal = "Verifying"
      BY <1>3, <2>3
    <3>3. ChildrenDone(s.id)'
      BY <1>2, <3>1
    <3>4. QED
      BY <3>2, <3>3 DEF GoalEarned
  <2>4. QED
    BY <1>4, <1>8, <2>2, <2>3 DEF CoordinatingHandler
<1>9. CASE VerifyingHandler(p, s)
  BY <1>1, <1>2, <1>3, <1>9 DEF VerifyingHandler, Turn, GoalEarned
<1>10. CASE ExecutingAssigned(p, s)
  BY <1>4, <1>10 DEF ExecutingAssigned
<1>11. QED
  BY <1>5, <1>6, <1>7, <1>8, <1>9, <1>10 DEF Handler

\* Once its last subtask is there, a planned task has subtasks.
LEMMA CreateEarned ==
    ASSUME TypeOK, Fresh, NEW p \in Pollers, NEW u \in Subs, CreateTask(p, u)
    PROVE  GoalEarned(p)'
<1>1. /\ job'[p].task = job[p].task /\ job'[p].goal = "Coordinating"
  BY DEF CreateTask, Then, TypeOK, Fresh
<1>2. u \in Tasks /\ task'[u] = [status |-> "Pending", parent |-> job[p].task, assigned |-> FALSE]
  BY DEF CreateTask, Insert, TypeOK, Tasks
<1>3. u \in Children(job[p].task)'
  BY <1>1, <1>2 DEF Children, Absent
<1>4. QED
  BY <1>1, <1>3 DEF GoalEarned

\* With one poll a completed task has earned it.
LEMMA EarnedStep ==
    ASSUME TypeOK, Fresh, Earned, OnePoller, [Next]_vars
    PROVE  Earned'
<1>1. /\ CompletedIsDone'
      /\ \A t \in Tasks : /\ task'[t].status = "Verifying" => ChildrenDone(t)'
                          /\ task'[t].status = "Coordinating" => Children(t)' # {}
  BY StatusEarned DEF CompletedIsDone, ChildrenDone
<1>2. ASSUME NEW q \in Pollers, pc'[q] = "write" PROVE GoalEarned(q)'
  <2>1. ASSUME NEW t \in Roots, Submit(t) PROVE GoalEarned(q)'
    <3>1. /\ pc[q] = "write" /\ job' = job /\ answered' = answered
          /\ job[q].task \in Tasks
      BY <1>2, <2>1 DEF Submit, poll, history, TypeOK, Busy
    <3>2. Children(job[q].task)' = Children(job[q].task)
      BY <2>1, <3>1, TasksAssumption DEF Submit, Insert, Children, Absent, TypeOK, Tasks
    <3>3. ChildrenDone(job[q].task) => ChildrenDone(job[q].task)'
      BY <3>2, FinishedStays DEF ChildrenDone, Children, Terminal
    <3>4. QED
      BY <3>1, <3>2, <3>3 DEF GoalEarned, Earned
  <2>2. ASSUME NEW s \in snap[q], Handler(q, s) PROVE GoalEarned(q)'
    BY <1>2, <2>2, HandlerEarned
  <2>3. ASSUME NEW u \in Subs, CreateTask(q, u) PROVE GoalEarned(q)'
    BY <2>3, CreateEarned
  <2>4. CASE \/ Poll(q) \/ PollDone(q) \/ Crash(q) \/ StatementFails(q)
             \/ AssignAgent(q) \/ WriteStatus(q) \/ HandleFailure(q)
    BY <1>2, <2>4 DEF Poll, PollDone, Crash, StatementFails, AssignAgent, WriteStatus,
                      HandleFailure, Then, NextTask, TypeOK
  <2>5. CASE UNCHANGED vars
    BY <1>2, <2>5 DEF vars, poll, history, Earned, GoalEarned, ChildrenDone, Children, Absent
  <2>6. QED
    BY <1>2, <2>1, <2>2, <2>3, <2>4, <2>5 DEF Next, Run, OnePoller
<1>3. QED
  BY <1>1, <1>2 DEF Earned, GoalEarned

\* With one poll at a time a task is completed only when an agent answered it or
\* when all the subtasks it was split into are completed, even if its plan was
\* cut short by a failure or a crash and made again.
THEOREM OnePollCompletedIsDone ==
    ASSUME OnePoller
    PROVE  Spec => []CompletedIsDone
<1>1. Init => Earned
  BY DEF Init, Earned, CompletedIsDone
<1>2. TypeOK /\ Fresh /\ Earned /\ [Next]_vars => Earned'
  BY EarnedStep
<1>3. Earned => CompletedIsDone
  BY DEF Earned
<1>4. QED
  BY <1>1, <1>2, <1>3, FreshAlways, PTL DEF Spec

-----------------------------------------------------------------------------
(* A task goes to one agent *)

\* A task an agent has taken on is finished, or recorded as the agent's, or in
\* the hands of the poll that asked; what the poll has fetched says whether a
\* task is an agent's.
Taken ==
    /\ AskedOnce
    /\ \A p \in Pollers :
          /\ \A s \in snap[p] : s.assigned = task[s.id].assigned
          /\ pc[p] = "write" /\ job[p].task \in answered => job[p].goal = "Completed"
    /\ \A t \in answered :
          \/ task[t].status \in Terminal
          \/ /\ task[t].status = "Executing"
             /\ task[t].assigned \/ \E p \in Pollers : /\ pc[p] \in {"write", "assign", "fail"}
                                                       /\ job[p].task = t

\* No poll has a task in hand while the only one turns to its next.
LEMMA NothingInHand ==
    ASSUME OnePoller, NEW p \in Pollers, pc[p] = "loop" \/ pc[p] = "idle", Taken,
           NEW t \in answered
    PROVE  \/ task[t].status \in Terminal
           \/ task[t].status = "Executing" /\ task[t].assigned
BY DEF OnePoller, Taken

\* The poll turns to a task that no agent has, or leaves it alone.
LEMMA TurnTaken ==
    ASSUME TypeOK, Fresh, OnePoller, Taken, UNCHANGED <<task, answered, again>>,
           NEW p \in Pollers, NEW s \in snap[p], NEW status, Turn(p, s, status),
           \/ NextTask(p)
           \/ /\ status # "Executing"
              /\ \E next \in Busy : \E goal, left : Then(p, next, s.id, goal, left)
    PROVE  Taken'
<1>1. /\ snap'[p] = snap[p] \ {s} /\ s.id \in Tasks /\ s.status = status
      /\ s.status \in Active /\ task[s.id].status = status /\ pc[p] = "loop"
  BY TurnType, SnapType DEF Fresh
<1>2. \A t \in answered : \/ task[t].status \in Terminal
                          \/ task[t].status = "Executing" /\ task[t].assigned
  BY <1>1, NothingInHand
<1>3. status # "Executing" => s.id \notin answered
  BY <1>1, <1>2 DEF Active, Terminal
<1>4. pc'[p] = "loop" \/ job'[p].task \notin answered
  BY <1>3 DEF Then, NextTask, TypeOK
<1>5. QED
  BY <1>1, <1>2, <1>4 DEF Taken, AskedOnce, OnePoller

\* A row is inserted, and the poll stays at its task.
LEMMA InsertTaken ==
    ASSUME TypeOK, Fresh, OnePoller, Taken, UNCHANGED <<snap, answered, again>>,
           NEW t \in Tasks, NEW parent, Absent(t), Insert(t, parent),
           UNCHANGED <<pc, job>> \/ \E p \in Pollers, u \in Subs : CreateTask(p, u)
    PROVE  Taken'
<1>1. \A u \in Tasks : ~Absent(u) => task'[u] = task[u]
  BY DEF Insert, Absent, TypeOK
<1>2. \A u \in answered : u \in Tasks /\ task'[u] = task[u]
  BY <1>1 DEF Taken, TypeOK, Absent, Terminal
<1>3. \A p \in Pollers : \A s \in snap[p] : task'[s.id] = task[s.id]
  BY InsertFresh
<1>4. CASE UNCHANGED <<pc, job>>
  BY <1>2, <1>3, <1>4 DEF Taken, AskedOnce
<1>5. ASSUME NEW p \in Pollers, NEW u \in Subs, CreateTask(p, u) PROVE Taken'
  <2>1. /\ pc[p] = "create" /\ job'[p].task = job[p].task
        /\ task[job[p].task].status = "Planning"
    BY <1>5 DEF CreateTask, Then, TypeOK, Fresh
  <2>2. job'[p].task \notin answered
    BY <2>1 DEF Taken, Terminal
  <2>3. \A v \in answered : \/ task[v].status \in Terminal
                            \/ task[v].status = "Executing" /\ task[v].assigned
    BY <2>1 DEF Taken, OnePoller
  <2>4. QED
    BY <1>2, <1>3, <2>2, <2>3 DEF Taken, AskedOnce, OnePoller
<1>6. QED
  BY <1>4, <1>5

\* The poll writes the row of the task it has in hand and goes on.
LEMMA WriteTaken ==
    ASSUME TypeOK, Fresh, OnePoller, Taken, UNCHANGED <<snap, answered, again>>,
           NEW p \in Pollers, pc[p] \in Busy, NextTask(p),
           \A t \in Tasks : t # job[p].task => task'[t] = task[t],
           job[p].task \in answered =>
              \/ task'[job[p].task].status \in Terminal
              \/ /\ task'[job[p].task].status = task[job[p].task].status
                 /\ task'[job[p].task].assigned
    PROVE  Taken'
<1>1. pc'[p] = "loop"
  BY DEF NextTask, TypeOK
<1>2. job[p].task \in Tasks /\ task[job[p].task].status \in Active
  BY DEF TypeOK, Fresh
<1>3. \A s \in snap[p] : s.id \in Tasks /\ s.id # job[p].task
  BY SnapType DEF Fresh
<1>4. ASSUME NEW t \in answered
      PROVE  \/ task'[t].status \in Terminal
             \/ task'[t].status = "Executing" /\ task'[t].assigned
  <2>1. CASE t = job[p].task
    BY <1>2, <2>1 DEF Taken, Active, Terminal
  <2>2. CASE t # job[p].task
    BY <2>2 DEF Taken, OnePoller, TypeOK
  <2>3. QED
    BY <2>1, <2>2
<1>5. QED
  BY <1>1, <1>3, <1>4 DEF Taken, AskedOnce, OnePoller

\* A task that is handed out and answered is recorded as taken.
LEMMA DispatchTaken ==
    ASSUME TypeOK, Fresh, OnePoller, Taken, NEW p \in Pollers, NEW s \in snap[p],
           Dispatch(p, s)
    PROVE  Taken'
<1>1. /\ snap'[p] = snap[p] \ {s} /\ s.id \in Tasks /\ s.status = "Executing"
      /\ task[s.id].status = "Executing" /\ pc[p] = "loop" /\ UNCHANGED task
  BY TurnType, SnapType DEF Fresh, Dispatch
<1>2. \A t \in answered : \/ task[t].status \in Terminal
                          \/ task[t].status = "Executing" /\ task[t].assigned
  BY <1>1, NothingInHand
<1>3. s.id \notin answered
  BY <1>1, <1>2 DEF Dispatch, Taken, Terminal
<1>4. again' = {}
  BY <1>3 DEF Dispatch, Ask, Taken, AskedOnce
<1>5. ASSUME NEW next \in Busy, NEW goal, NEW left, Then(p, next, s.id, goal, left)
      PROVE  pc'[p] = next /\ job'[p].task = s.id /\ job'[p].goal = goal
  BY <1>5 DEF Then, TypeOK
<1>6. CASE UNCHANGED answered
  <2>1. job'[p].task \notin answered \/ pc'[p] = "loop"
    BY <1>3, <1>5, <1>6 DEF Dispatch, Ask, NextTask, Then, TypeOK
  <2>2. QED
    BY <1>1, <1>2, <1>4, <1>6, <2>1 DEF Taken, AskedOnce, OnePoller
<1>7. CASE /\ answered' = answered \cup {s.id}
           /\ \/ Then(p, "write", s.id, "Completed", 0)
              \/ Then(p, "assign", s.id, "Executing", 0)
  <2>1. /\ pc'[p] \in {"write", "assign"} /\ job'[p].task = s.id
        /\ pc'[p] = "write" => job'[p].goal = "Completed"
    BY <1>5, <1>7 DEF Busy
  <2>2. QED
    BY <1>1, <1>2, <1>4, <1>7, <2>1 DEF Taken, AskedOnce, OnePoller
<1>8. QED
  BY <1>6, <1>7 DEF Dispatch, Ask

\* With one poll and every failure recorded a task taken stays taken.
LEMMA TakenStep ==
    ASSUME TypeOK, Fresh, OnePoller, Taken, [Next]_vars, Faults \cap {"dbfail", "crash"} = {}
    PROVE  Taken'
<1>1. ASSUME NEW t \in Roots, Submit(t) PROVE Taken'
  BY <1>1, InsertTaken DEF Submit, poll, history, Tasks
<1>2. ASSUME NEW p \in Pollers, Poll(p) PROVE Taken'
  <2>1. /\ pc[p] = "idle" /\ pc'[p] = "loop" /\ UNCHANGED <<task, answered, again>>
        /\ \A s \in snap'[p] : s.assigned = task[s.id].assigned
    BY <1>2 DEF Poll, TypeOK, history
  <2>2. QED
    BY <2>1, NothingInHand DEF Taken, AskedOnce, OnePoller
<1>3. ASSUME NEW p \in Pollers, PollDone(p) PROVE Taken'
  <2>1. /\ pc[p] = "loop" /\ pc'[p] = "idle" /\ UNCHANGED <<task, snap, answered, again>>
    BY <1>3 DEF PollDone, TypeOK, history
  <2>2. QED
    BY <2>1, NothingInHand DEF Taken, AskedOnce, OnePoller
<1>4. ASSUME NEW p \in Pollers, NEW s \in snap[p], Handler(p, s) PROVE Taken'
  <2> USE DEF Busy, history
  <2>1. CASE PendingHandler(p, s)
    BY <2>1, TurnTaken DEF PendingHandler
  <2>2. CASE PlanningHandler(p, s)
    BY <2>2, TurnTaken DEF PlanningHandler
  <2>3. CASE ExecutingAssigned(p, s)
    BY <2>3, TurnTaken DEF ExecutingAssigned
  <2>4. CASE Dispatch(p, s)
    BY <2>4, DispatchTaken
  <2>5. CASE CoordinatingHandler(p, s)
    BY <2>5, TurnTaken DEF CoordinatingHandler
  <2>6. CASE VerifyingHandler(p, s)
    BY <2>6, TurnTaken DEF VerifyingHandler
  <2>7. QED
    BY <1>4, <2>1, <2>2, <2>3, <2>4, <2>5, <2>6 DEF Handler
<1>5. ASSUME NEW p \in Pollers, NEW u \in Subs, CreateTask(p, u) PROVE Taken'
  BY <1>5, InsertTaken DEF CreateTask, history, Tasks
<1>6. ASSUME NEW p \in Pollers, AssignAgent(p) PROVE Taken'
  <2>1. job[p].task \in Tasks
    BY <1>6 DEF AssignAgent, TypeOK, Busy
  <2>2. task'[job[p].task] = [task[job[p].task] EXCEPT !.assigned = TRUE]
    BY <1>6, <2>1 DEF AssignAgent, TypeOK
  <2>3. /\ task'[job[p].task].status = task[job[p].task].status
        /\ task'[job[p].task].assigned
    BY <2>1, <2>2, RowType DEF Row
  <2>4. QED
    BY <1>6, <2>1, <2>3, WriteTaken DEF AssignAgent, Busy, TypeOK, history
<1>7. ASSUME NEW p \in Pollers, WriteStatus(p) PROVE Taken'
  <2>1. job[p].task \in Tasks
    BY <1>7 DEF WriteStatus, TypeOK, Busy
  <2>2. task'[job[p].task] = [task[job[p].task] EXCEPT !.status = job[p].goal]
    BY <1>7, <2>1 DEF WriteStatus, TypeOK
  <2>3. task'[job[p].task].status = job[p].goal
    BY <2>1, <2>2, RowType DEF Row
  <2>4. job[p].task \in answered => job[p].goal \in Terminal
    BY <1>7 DEF WriteStatus, Taken, Terminal
  <2>5. QED
    BY <1>7, <2>1, <2>3, <2>4, WriteTaken DEF WriteStatus, Busy, TypeOK, history
<1>8. ASSUME NEW p \in Pollers, HandleFailure(p) PROVE Taken'
  <2>1. job[p].task \in Tasks
    BY <1>8 DEF HandleFailure, TypeOK, Busy
  <2>2. task' = [task EXCEPT ![job[p].task].status = "Failed"]
    BY <1>8 DEF HandleFailure
  <2>3. task'[job[p].task] = [task[job[p].task] EXCEPT !.status = "Failed"]
    BY <2>1, <2>2 DEF TypeOK
  <2>4. task'[job[p].task].status \in Terminal
    BY <2>1, <2>3, RowType DEF Row, Terminal
  <2>5. QED
    BY <1>8, <2>1, <2>2, <2>4, WriteTaken DEF HandleFailure, Busy, TypeOK, history
<1>9. ASSUME NEW p \in Pollers, StatementFails(p) PROVE Taken'
  <2>1. CASE /\ pc[p] \in Busy \ {"fail"} /\ UNCHANGED snap
             /\ Then(p, "fail", job[p].task, "Failed", 0)
    <3>1. pc'[p] = "fail" /\ job'[p].task = job[p].task
      BY <2>1 DEF Then, TypeOK
    <3>2. UNCHANGED <<task, answered, again>>
      BY <1>9 DEF StatementFails, history
    <3>3. QED
      BY <2>1, <3>1, <3>2 DEF Taken, AskedOnce, OnePoller
  <2>2. ASSUME NEW s \in snap[p], Turn(p, s, "Coordinating"),
               Then(p, "fail", s.id, "Failed", 0)
        PROVE  Taken'
    BY <1>9, <2>2, TurnTaken DEF StatementFails, history, Busy
  <2>3. QED
    BY <1>9, <2>1, <2>2 DEF StatementFails
<1>10. ASSUME NEW p \in Pollers, Crash(p) PROVE FALSE
  BY <1>10 DEF Crash
<1>11. CASE UNCHANGED vars
  BY <1>11 DEF vars, poll, history, Taken, AskedOnce
<1>12. QED
  BY <1>1, <1>2, <1>3, <1>4, <1>5, <1>6, <1>7, <1>8, <1>9, <1>10, <1>11 DEF Next, Run

\* With one poll at a time, and while neither the instance crashes nor a failure
\* goes unrecorded, no agent gets a task that one has taken on (ExecutingHandler).
THEOREM OnePollAskedOnce ==
    ASSUME OnePoller, Faults \cap {"dbfail", "crash"} = {}
    PROVE  Spec => []AskedOnce
<1>1. Init => Taken
  BY DEF Init, Taken, AskedOnce
<1>2. TypeOK /\ Fresh /\ Taken /\ [Next]_vars => Taken'
  BY TakenStep
<1>3. Taken => AskedOnce
  BY DEF Taken
<1>4. QED
  BY <1>1, <1>2, <1>3, FreshAlways, PTL DEF Spec
=============================================================================
