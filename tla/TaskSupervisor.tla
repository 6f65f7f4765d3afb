--------------------------- MODULE TaskSupervisor ---------------------------
(***************************************************************************)
(* The supervisor's poll cycle (components/supervisor/src/orchestrator.rs) *)
(* and its task handlers.  A poll reads the active tasks once and handles  *)
(* them one by one from that snapshot; every SQL statement is a step of    *)
(* its own, with no transaction around them.  The planner and the agents   *)
(* are mesh calls with any outcome.                                        *)
(*                                                                         *)
(* Task contents are left out (a planner's steps are taken to be non-empty,*)
(* as Task::new wants them), and with them the agent selector.  No handler *)
(* that poll_tasks runs writes the statuses Assigned or AnalyzingForBranch,*)
(* and the other branching ones cannot be stored (as_str is None).         *)
(***************************************************************************)
EXTENDS Naturals, FiniteSets

CONSTANTS
    Pollers,    \* run() calls that may be in progress at once
    Roots,      \* tasks clients submit, with priority 10
    Subs,       \* tasks planning creates, with priority 128
    NoTask,     \* parent_id NULL
    MaxSubs,    \* bound: steps of a plan
    Outcomes,   \* what an agent may answer
    Faults      \* what may fail

ASSUME TasksAssumption == Roots \cap Subs = {} /\ NoTask \notin Roots \cup Subs

\* The WIT dispatcher knows "completed" only; the trait knows all three.
\* "plan", "dispatch": the mesh call fails; "db": a statement of a handler does;
\* "dbfail": the statement of mark_failed does; "crash": the instance traps.
ASSUME EnvironmentAssumption ==
    /\ MaxSubs \in Nat
    /\ Outcomes \subseteq {"accepted", "completed", "busy"}
    /\ Faults \subseteq {"plan", "dispatch", "db", "dbfail", "crash"}

Tasks == Roots \cup Subs

Active == {"Pending", "Planning", "Executing", "Coordinating", "Verifying"}
Terminal == {"Completed", "Failed"}

VARIABLES
    task,       \* the tasks table; a row not inserted yet is "absent"
    pc,         \* per poll: where it is
    snap,       \* the fetched tasks it has not handled yet
    job,        \* the task it handles, the status to write, subtasks to create
    answered,   \* history: tasks an agent has accepted or completed
    again       \* history: tasks an agent was given after that

poll == <<pc, snap, job>>
history == <<answered, again>>
vars == <<task, poll, history>>

Row == [status : Active \cup Terminal \cup {"absent"},
        parent : Tasks \cup {NoTask}, assigned : BOOLEAN]
Fetched == [id : Tasks, status : Active, assigned : BOOLEAN]
Job == [task : Tasks \cup {NoTask}, goal : Active \cup Terminal, left : Nat]

\* where a poll is when it has turned to a task
Busy == {"create", "write", "assign", "fail"}

NoJob == [task |-> NoTask, goal |-> "Pending", left |-> 0]

TypeOK ==
    /\ task \in [Tasks -> Row]
    /\ pc \in [Pollers -> {"idle", "loop"} \cup Busy]
    /\ snap \in [Pollers -> SUBSET Fetched]
    /\ job \in [Pollers -> Job]
    /\ \A p \in Pollers : pc[p] \in Busy => job[p].task \in Tasks
    /\ \A p \in Pollers : pc[p] = "create" => job[p].left > 0
    /\ answered \subseteq Tasks /\ again \subseteq Tasks

Init ==
    /\ task = [t \in Tasks |-> [status |-> "absent", parent |-> NoTask, assigned |-> FALSE]]
    /\ pc = [p \in Pollers |-> "idle"]
    /\ snap = [p \in Pollers |-> {}]
    /\ job = [p \in Pollers |-> NoJob]
    /\ answered = {} /\ again = {}

Absent(t) == task[t].status = "absent"
Children(t) == {u \in Tasks : ~Absent(u) /\ task[u].parent = t}

\* INSERT INTO tasks ... 'pending'
Insert(t, parent) ==
    task' = [task EXCEPT ![t] = [status |-> "Pending", parent |-> parent, assigned |-> FALSE]]

Submit(t) ==
    /\ Absent(t)
    /\ Insert(t, NoTask)
    /\ UNCHANGED <<poll, history>>

\* fetch_active_tasks; when it fails the poll ends and nothing has changed.
Poll(p) ==
    /\ pc[p] = "idle"
    /\ snap' = [snap EXCEPT ![p] =
          {[id |-> t, status |-> task[t].status, assigned |-> task[t].assigned] :
              t \in {u \in Tasks : task[u].status \in Active}}]
    /\ pc' = [pc EXCEPT ![p] = "loop"]
    /\ UNCHANGED <<task, job, history>>

PollDone(p) ==
    /\ pc[p] = "loop" /\ snap[p] = {}
    /\ pc' = [pc EXCEPT ![p] = "idle"]
    /\ UNCHANGED <<task, snap, job, history>>

\* The poll turns to s, a fetched task of the highest priority left.
Turn(p, s, status) ==
    /\ pc[p] = "loop"
    /\ s \in snap[p] /\ s.status = status
    /\ s.id \in Roots => \A r \in snap[p] : r.id \in Roots
    /\ snap' = [snap EXCEPT ![p] = @ \ {s}]

\* What the handler does next with task t.
Then(p, next, t, goal, left) ==
    /\ pc' = [pc EXCEPT ![p] = next]
    /\ job' = [job EXCEPT ![p] = [task |-> t, goal |-> goal, left |-> left]]

NextTask(p) ==
    /\ pc' = [pc EXCEPT ![p] = "loop"]
    /\ job' = [job EXCEPT ![p] = NoJob]

PendingHandler(p, s) ==
    /\ Turn(p, s, "Pending")
    /\ Then(p, "write", s.id, "Planning", 0)
    /\ UNCHANGED <<task, history>>

\* The planner finds no subtasks, or n of them, or fails.
PlanningHandler(p, s) ==
    /\ Turn(p, s, "Planning")
    /\ \/ Then(p, "write", s.id, "Executing", 0)
       \/ \E n \in 1..MaxSubs :
             /\ n <= Cardinality({u \in Subs : Absent(u)})
             /\ Then(p, "create", s.id, "Coordinating", n)
       \/ "plan" \in Faults /\ Then(p, "fail", s.id, "Failed", 0)
    /\ UNCHANGED <<task, history>>

\* Variant: one subtask too many is created.
CreateTaskOneMore(p, u) ==
    /\ pc[p] = "create" /\ Absent(u)
    /\ Insert(u, job[p].task)
    /\ Then(p, IF job[p].left = 0 THEN "write" ELSE "create",
            job[p].task, job[p].goal, job[p].left - 1)
    /\ UNCHANGED <<snap, history>>

CreateTask(p, u) ==
    /\ pc[p] = "create" /\ Absent(u)
    /\ Insert(u, job[p].task)
    /\ Then(p, IF job[p].left = 1 THEN "write" ELSE "create",
            job[p].task, job[p].goal, job[p].left - 1)
    /\ UNCHANGED <<snap, history>>

ExecutingAssigned(p, s) ==
    /\ Turn(p, s, "Executing") /\ s.assigned
    /\ NextTask(p)
    /\ UNCHANGED <<task, history>>

\* What agents may answer to task s: it is theirs, or the poll goes on.
Ask(p, s) ==
    /\ again' = again \cup (answered \cap {s.id})
    /\ \/ /\ \/ "completed" \in Outcomes /\ Then(p, "write", s.id, "Completed", 0)
             \/ "accepted" \in Outcomes /\ Then(p, "assign", s.id, "Executing", 0)
          /\ answered' = answered \cup {s.id}
       \/ /\ \/ "busy" \in Outcomes /\ NextTask(p)
             \/ "dispatch" \in Faults /\ Then(p, "fail", s.id, "Failed", 0)
          /\ UNCHANGED answered

\* Variant: the assignment is not looked at.
DispatchAlways(p, s) ==
    /\ Turn(p, s, "Executing")
    /\ Ask(p, s)
    /\ UNCHANGED task

Dispatch(p, s) ==
    /\ Turn(p, s, "Executing") /\ ~s.assigned
    /\ Ask(p, s)
    /\ UNCHANGED task

\* assign_agent leaves the status alone.
AssignAgent(p) ==
    /\ pc[p] = "assign"
    /\ task' = [task EXCEPT ![job[p].task].assigned = TRUE]
    /\ NextTask(p)
    /\ UNCHANGED <<snap, history>>

\* Variant: a subtask that is not running any more is good enough.
CoordinatingHandlerAnyEnd(p, s) ==
    LET statuses == {task[u].status : u \in Children(s.id)}
    IN  /\ Turn(p, s, "Coordinating")
        /\ IF statuses \subseteq Terminal
           THEN Then(p, "write", s.id, "Verifying", 0)
           ELSE NextTask(p)
        /\ UNCHANGED <<task, history>>

\* Variant: the failure of a subtask is not looked at.
CoordinatingHandlerNoFailure(p, s) ==
    LET statuses == {task[u].status : u \in Children(s.id)}
    IN  /\ Turn(p, s, "Coordinating")
        /\ IF statuses \subseteq {"Completed"}
           THEN Then(p, "write", s.id, "Verifying", 0)
           ELSE NextTask(p)
        /\ UNCHANGED <<task, history>>

CoordinatingHandler(p, s) ==
    LET statuses == {task[u].status : u \in Children(s.id)}
    IN  /\ Turn(p, s, "Coordinating")
        /\ IF "Failed" \in statuses THEN Then(p, "write", s.id, "Failed", 0)
           ELSE IF statuses \subseteq {"Completed"}
           THEN Then(p, "write", s.id, "Verifying", 0)
           ELSE NextTask(p)
        /\ UNCHANGED <<task, history>>

VerifyingHandler(p, s) ==
    /\ Turn(p, s, "Verifying")
    /\ Then(p, "write", s.id, "Completed", 0)
    /\ UNCHANGED <<task, history>>

\* update_status, mark_completed, or mark_failed for a failed subtask
WriteStatus(p) ==
    /\ pc[p] = "write"
    /\ task' = [task EXCEPT ![job[p].task].status = job[p].goal]
    /\ NextTask(p)
    /\ UNCHANGED <<snap, history>>

\* A statement of a handler fails, a fetch_subtasks of the next one included.
StatementFails(p) ==
    /\ "db" \in Faults
    /\ \/ /\ pc[p] \in Busy \ {"fail"}
          /\ Then(p, "fail", job[p].task, "Failed", 0)
          /\ UNCHANGED snap
       \/ \E s \in snap[p] : /\ Turn(p, s, "Coordinating")
                              /\ Then(p, "fail", s.id, "Failed", 0)
    /\ UNCHANGED <<task, history>>

\* Variant: the parent fails with its subtask.
HandleFailureWithParent(p) ==
    /\ pc[p] = "fail"
    /\ task' = [t \in Tasks |-> IF t \in {job[p].task, task[job[p].task].parent}
                                THEN [task[t] EXCEPT !.status = "Failed"] ELSE task[t]]
    /\ NextTask(p)
    /\ UNCHANGED <<snap, history>>

\* handle_failure: a best-effort mark_failed
HandleFailure(p) ==
    /\ pc[p] = "fail"
    /\ \/ task' = [task EXCEPT ![job[p].task].status = "Failed"]
       \/ "dbfail" \in Faults /\ UNCHANGED task
    /\ NextTask(p)
    /\ UNCHANGED <<snap, history>>

\* The instance is gone; the table stays.
Crash(p) ==
    /\ "crash" \in Faults /\ pc[p] # "idle"
    /\ pc' = [pc EXCEPT ![p] = "idle"]
    /\ snap' = [snap EXCEPT ![p] = {}]
    /\ job' = [job EXCEPT ![p] = NoJob]
    /\ UNCHANGED <<task, history>>

Handler(p, s) ==
    \/ PendingHandler(p, s) \/ PlanningHandler(p, s)
    \/ ExecutingAssigned(p, s) \/ Dispatch(p, s)
    \/ CoordinatingHandler(p, s) \/ VerifyingHandler(p, s)

Run(p) ==
    \/ Poll(p) \/ PollDone(p)
    \/ \E s \in snap[p] : Handler(p, s)
    \/ \E u \in Subs : CreateTask(p, u)
    \/ AssignAgent(p) \/ WriteStatus(p) \/ StatementFails(p) \/ HandleFailure(p)

Next ==
    \/ \E t \in Roots : Submit(t)
    \/ \E p \in Pollers : Run(p) \/ Crash(p)

Spec == Init /\ [][Next]_vars

\* The host calls run() again and again, and mesh calls return.
FairSpec == Spec /\ \A p \in Pollers : WF_vars(Run(p))

-----------------------------------------------------------------------------
(* Properties *)

\* A task that has completed or failed stays so: every handler writes a status
\* without looking at the row's, and nothing here retries a failed task, though
\* supervisor.md:91 and :106 draw "Failed --> Pending: Retry".
TerminalStays ==
    [][\A t \in Tasks :
          task[t].status \in Terminal => task'[t].status = task[t].status]_vars

\* A completed task was answered by an agent, or has subtasks and they are all
\* completed - whatever plan was cut short and repeated (CoordinatingHandler).
CompletedIsDone ==
    \A t \in Tasks : task[t].status = "Completed" =>
        \/ t \in answered
        \/ /\ Children(t) # {}
           /\ \A u \in Children(t) : task[u].status = "Completed"

\* Unless a failure cannot be recorded, no agent gets a task that one has taken
\* on already (ExecutingHandler).
AskedOnce == again = {}

\* An agent has accepted t or a task below it, and is to report on it.
Held(t) ==
    \A S \in SUBSET Tasks :
        t \in S /\ (\A u \in S : Children(u) \subseteq S) => \E u \in S : task[u].assigned

\* Every task submitted or planned is completed or failed in the end, unless it
\* waits for an agent that has accepted it or a task below it.
TasksFinish ==
    \A t \in Tasks : ~Absent(t) ~> task[t].status \in Terminal \/ Held(t)

\* A parent does not outlive the failure of a subtask (CoordinatingHandler).
FailurePropagates ==
    \A t \in Tasks : \A u \in Subs :
        task[u].status = "Failed" /\ task[u].parent = t ~> task[t].status = "Failed"
=============================================================================
