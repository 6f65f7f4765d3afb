---------------------------- MODULE BranchWorkflow ----------------------------
(***************************************************************************)
(* The supervisor's branch manager (components/supervisor/src/branch): the *)
(* life of a branch and of its merge requests, over a table of branches, a *)
(* merge queue and the kernel's workspace sessions.  Each SQL statement    *)
(* that writes, and each session operation, is a step of its own; reads    *)
(* that nothing another caller does can set apart are one step.            *)
(*                                                                         *)
(* A caller is an instance of the supervisor, or an operation one instance *)
(* runs concurrently with others: then, mode "one", it is held up by them  *)
(* except where execute_merge awaits, and create_branch (&mut self) has    *)
(* the manager to itself.                                                  *)
(***************************************************************************)
EXTENDS Naturals, FiniteSets

CONSTANTS
    Callers,
    Branches,     \* branch ids
    Requests,     \* merge request ids
    Sessions,     \* workspace session ids
    Base,         \* the base workspace
    None,
    MaxBranches,  \* max_branches of the manager
    Faults,       \* what may fail
    MaxFaults,    \* bound: failures in a behaviour
    ReadsBack     \* the repository gives back the configuration it was given

ASSUME BranchesAssumption ==
    /\ MaxBranches \in Nat \ {0} /\ MaxFaults \in Nat
    /\ ReadsBack \in BOOLEAN
    /\ Base \notin Sessions /\ None \notin Branches \cup Requests \cup Sessions

\* "sql": a statement; "session": a session operation; "read": the scan of a
\* branch; "crash": an instance traps; "restart": the kernel, with its sessions.
ASSUME FaultsAssumption == Faults \subseteq {"sql", "session", "read", "crash", "restart"}

Open == {"Pending", "Active"}
Listed == Open \cup {"Merging"}  \* is_active of a record
Statuses == Listed \cup {"Completed", "Merged", "Failed"}

VARIABLES
    branch,    \* the branches table; a row not inserted yet is "absent"
    request,   \* the merge queue, likewise
    session,   \* the sessions of the kernel, each with the directory it is of
    stale,     \* open sessions whose base has changed since they began
    pc,        \* per caller: where it is
    job,       \* per caller: what it works on
    mode,      \* "one" instance so far, or "many"
    faults,    \* what has failed so far
    commits    \* history: how often a merge of the branch was committed

tables == <<branch, request>>
sessions == <<session, stale>>
callers == <<pc, job>>
env == <<mode, faults>>
vars == <<tables, sessions, callers, env, commits>>

BranchRow == [status : Statuses \cup {"absent"}, parent : Branches \cup {None},
              session : Sessions \cup {None}]
RequestRow == [status : {"absent", "Pending", "Approved", "ReadyToCommit", "Committed"},
               branch : Branches \cup {None}, staging : Sessions \cup {None}]
SessionState == [state : {"free", "open", "closed"}, base : Sessions \cup {Base}]

\* goal is the status to write, then what follows, todo what is left to recover.
Job == [branch : Branches \cup {None}, parent : Branches \cup {None},
        request : Requests \cup {None}, session : Sessions \cup {None}, goal : Statuses,
        then : {"idle", "finish", "recover"},
        todo : SUBSET [id : Branches, status : Listed]]
NoJob == [branch |-> None, parent |-> None, request |-> None, session |-> None,
          goal |-> "Pending", then |-> "idle", todo |-> {}]

Places == {"idle", "new", "begin", "insert", "read", "write", "auto", "collect",
           "save", "commit", "finish", "recover"}

\* The rows, with what the later statements take from them: the directory of a
\* branch, the staging session of a request that may be committed.
TypeOK ==
    /\ branch \in [Branches -> BranchRow]
    /\ \A b \in Branches : branch[b].status # "absent" => branch[b].session \in Sessions
    /\ request \in [Requests -> RequestRow]
    /\ \A r \in Requests :
          /\ request[r].status # "absent" => request[r].branch \in Branches
          /\ request[r].status \in {"ReadyToCommit", "Committed"} => request[r].staging \in Sessions
    /\ session \in [Sessions -> SessionState]
    /\ stale \subseteq Sessions
    /\ pc \in [Callers -> Places]
    /\ job \in [Callers -> Job]
    /\ mode \in {"one", "many"}
    /\ faults \subseteq Faults
    /\ commits \in [Branches -> Nat]

Init ==
    /\ branch = [b \in Branches |-> [status |-> "absent", parent |-> None, session |-> None]]
    /\ request = [r \in Requests |-> [status |-> "absent", branch |-> None, staging |-> None]]
    /\ session = [s \in Sessions |-> [state |-> "free", base |-> Base]]
    /\ stale = {}
    /\ pc = [c \in Callers |-> "idle"]
    /\ job = [c \in Callers |-> NoJob]
    /\ mode \in {"one", "many"}
    /\ faults = {}
    /\ commits = [b \in Branches |-> 0]

-----------------------------------------------------------------------------
(* Sessions, as the kernel's VfsSession has them *)

IsOpen(s) == s \in {x \in Sessions : session[x].state = "open"}
DirExists(d) == d \in {Base} \cup {x \in Sessions : IsOpen(x)}

\* begin_session on directory d; its copy is of the tree d has now.
Begin(s, d) ==
    /\ session[s].state = "free" /\ DirExists(d)
    /\ session' = [session EXCEPT ![s] = [state |-> "open", base |-> d]]
    /\ UNCHANGED stale

\* rollback_session, whose error is reported or ignored
Close(s) ==
    /\ session' = IF IsOpen(s) THEN [session EXCEPT ![s].state = "closed"] ELSE session
    /\ stale' = stale \ {s}

\* A commit finds its base there and as it was.
Committable(s) == IsOpen(s) /\ DirExists(session[s].base) /\ s \notin stale

-----------------------------------------------------------------------------
(* The repository: a statement each *)

Known(b) == b # None /\ branch[b].status # "absent"

\* A stored row becomes a branch only if its configuration reads back, which
\* one that WitBranchRepository stored does not: it is encoded twice.
Readable(b) == Known(b) /\ ReadsBack

\* The status of a request as its row gives it back.  An update stores that of
\* one that is ready to commit as "readytocommit", which no read takes.
StatusRead(r) ==
    IF ReadsBack \/ request[r].status # "ReadyToCommit" THEN request[r].status ELSE "absent"

PutBranch(b, parent, s) ==
    branch' = [branch EXCEPT ![b] = [status |-> "Pending", parent |-> parent, session |-> s]]
PutStatus(b, status) == branch' = [branch EXCEPT ![b].status = status]
PutRequest(r, status, b, staging) ==
    request' = [request EXCEPT ![r] = [status |-> status, branch |-> b, staging |-> staging]]

ListActive == {b \in Branches : branch[b].status \in Listed}

-----------------------------------------------------------------------------
(* Callers, and what fails under them *)

Fault(f) ==
    /\ f \in Faults /\ Cardinality(faults) < MaxFaults
    /\ faults' = faults \cup {f}
    /\ mode' = IF f = "crash" THEN "many" ELSE mode

\* In mode "one" c runs when every other operation is over or awaits.
MayRun(c) == mode = "one" => \A d \in Callers \ {c} : pc[d] \in {"idle", "new", "collect"}

Goto(c, place, new) ==
    /\ pc' = [pc EXCEPT ![c] = place]
    /\ job' = [job EXCEPT ![c] = IF place = "idle" THEN NoJob ELSE new]

Start(c) == pc[c] \in {"idle", "new"} /\ MayRun(c)
At(c, place) == pc[c] = place /\ MayRun(c)
Return(c) == Goto(c, "idle", NoJob)

-----------------------------------------------------------------------------
(* create_branch *)

ActiveCount == Cardinality(ListActive)
Unused(b) == ~Known(b) /\ \A c \in Callers : job[c].branch # b

StartCreate(c, b, parent) ==
    /\ Start(c) /\ (mode = "one" => \A d \in Callers : pc[d] # "collect")
    /\ Unused(b) /\ (parent # None => Known(parent))
    /\ Goto(c, "begin", [NoJob EXCEPT !.branch = b, !.parent = parent])
    /\ UNCHANGED <<tables, sessions, env, commits>>

\* Variant: one branch more than the limit.
CreateBranchOneMore(c, b, parent) ==
    /\ ActiveCount <= MaxBranches
    /\ StartCreate(c, b, parent)

\* check_branch_limit
CreateBranch(c, b, parent) ==
    /\ ActiveCount < MaxBranches
    /\ StartCreate(c, b, parent)

\* The session is begun in the base or in the directory of the parent.
SourceDir(parent) == IF parent = None THEN Base ELSE branch[parent].session

BeginSession(c, s) ==
    /\ At(c, "begin")
    /\ Begin(s, SourceDir(job[c].parent))
    /\ Goto(c, "insert", [job[c] EXCEPT !.session = s])
    /\ UNCHANGED <<tables, env, commits>>

BeginFailed(c) ==
    /\ At(c, "begin")
    /\ \/ Fault("session")
       \/ /\ job[c].parent # None /\ ~DirExists(SourceDir(job[c].parent))
          /\ UNCHANGED env
    /\ Return(c)
    /\ UNCHANGED <<tables, sessions, commits>>

InsertBranch(c) ==
    /\ At(c, "insert")
    /\ PutBranch(job[c].branch, job[c].parent, job[c].session)
    /\ Return(c)
    /\ UNCHANGED <<request, sessions, env, commits>>

-----------------------------------------------------------------------------
(* update_status: read and validate, then write *)

\* Variant: a branch that is being merged cannot fail.
ValidTransitionNoMergeFailure(from, to) ==
    \/ from = "Pending" /\ to \in {"Active", "Failed"}
    \/ from = "Active" /\ to \in {"Completed", "Merging", "Failed"}
    \/ from = "Completed" /\ to = "Merging"
    \/ from = "Merging" /\ to = "Merged"

\* Variant: a status that is not final may be written again.
ValidTransitionOrSame(from, to) ==
    \/ from = to
    \/ from = "Pending" /\ to \in {"Active", "Failed"}
    \/ from = "Active" /\ to \in {"Completed", "Merging", "Failed"}
    \/ from = "Completed" /\ to = "Merging"
    \/ from = "Merging" /\ to \in {"Merged", "Failed"}

ValidTransition(from, to) ==
    \/ from = "Pending" /\ to \in {"Active", "Failed"}
    \/ from = "Active" /\ to \in {"Completed", "Merging", "Failed"}
    \/ from = "Completed" /\ to = "Merging"
    \/ from = "Merging" /\ to \in {"Merged", "Failed"}

\* mark_executing, complete_branch; one that is refused changes nothing.
SetStatus(c, b, goal) ==
    /\ Start(c) /\ goal \in {"Active", "Completed"}
    /\ ValidTransition(branch[b].status, goal)
    /\ Goto(c, "write", [NoJob EXCEPT !.branch = b, !.goal = goal])
    /\ UNCHANGED <<tables, sessions, env, commits>>

ReadStatus(c) ==
    /\ At(c, "read")
    /\ ValidTransition(branch[job[c].branch].status, job[c].goal)
    /\ Goto(c, "write", job[c])
    /\ UNCHANGED <<tables, sessions, env, commits>>

WriteStatus(c) ==
    /\ At(c, "write")
    /\ PutStatus(job[c].branch, job[c].goal)
    /\ Goto(c, job[c].then, job[c])
    /\ UNCHANGED <<request, sessions, env, commits>>

\* execute_merge rolls its staging session back, recovery goes on, the other
\* operations return the error.
StatusFailed(c) ==
    IF job[c].goal = "Merging"
    THEN Close(job[c].session) /\ Return(c)
    ELSE /\ UNCHANGED sessions
         /\ IF job[c].then = "recover" THEN Goto(c, "recover", job[c]) ELSE Return(c)

InvalidStatus(c) ==
    /\ At(c, "read")
    /\ ~ValidTransition(branch[job[c].branch].status, job[c].goal)
    /\ StatusFailed(c)
    /\ UNCHANGED <<tables, env, commits>>

-----------------------------------------------------------------------------
(* abort_branch *)

\* Variant: a rollback that fails does not end the operation.
AbortBranchAnyway(c, b) ==
    /\ Start(c) /\ Known(b)
    /\ \/ Close(branch[b].session) /\ UNCHANGED env
       \/ Fault("session") /\ UNCHANGED sessions
    /\ Goto(c, "read", [NoJob EXCEPT !.branch = b, !.goal = "Failed"])
    /\ UNCHANGED <<tables, commits>>

AbortBranch(c, b) ==
    /\ Start(c) /\ Known(b)
    /\ IsOpen(branch[b].session) /\ Close(branch[b].session)
    /\ Goto(c, "read", [NoJob EXCEPT !.branch = b, !.goal = "Failed"])
    /\ UNCHANGED <<tables, env, commits>>

\* The session is out of the kernel's map before its directory is removed.
AbortFailed(c, b) ==
    /\ Start(c) /\ Known(b) /\ IsOpen(branch[b].session)
    /\ Fault("session")
    /\ Close(branch[b].session)
    /\ UNCHANGED <<tables, callers, commits>>

-----------------------------------------------------------------------------
(* Merge requests *)

RequestMerge(c, b, r, auto) ==
    /\ Start(c) /\ branch[b].status = "Completed" /\ request[r].status = "absent"
    /\ PutRequest(r, "Pending", b, None)
    /\ Goto(c, IF auto THEN "auto" ELSE "idle", [NoJob EXCEPT !.branch = b, !.request = r])
    /\ UNCHANGED <<branch, sessions, env, commits>>

\* Variant: whatever the status is.
ApproveAgain(r) ==
    request' = IF request[r].status # "absent"
               THEN [request EXCEPT ![r].status = "Approved"] ELSE request

\* UPDATE merge_queue ... WHERE status = 'pending'
Approve(r) ==
    request' = IF request[r].status = "Pending"
               THEN [request EXCEPT ![r].status = "Approved"] ELSE request

AutoApprove(c) ==
    /\ At(c, "auto")
    /\ Approve(job[c].request)
    /\ Return(c)
    /\ UNCHANGED <<branch, sessions, env, commits>>

ApproveMerge(c, r) ==
    /\ Start(c)
    /\ Approve(r)
    /\ UNCHANGED <<branch, sessions, callers, env, commits>>

\* The request and the branch are read and a staging session is begun in the
\* directory of the parent; a branch of the base cannot be merged.
ExecuteMerge(c, r, s) ==
    LET b == request[r].branch
        parent == branch[b].parent
    IN  /\ Start(c)
        /\ StatusRead(r) = "Approved"
        /\ branch[b].status = "Completed" /\ Readable(b)
        /\ parent # None /\ Begin(s, branch[parent].session)
        /\ Goto(c, "collect", [NoJob EXCEPT !.branch = b, !.request = r, !.session = s,
                                            !.goal = "Merging"])
        /\ UNCHANGED <<tables, env, commits>>

\* collect_branch_changes, with "read" for a directory that cannot be read; and
\* apply_changes_to_staging, which leaves the staging session as it is.
Scan(b, found) ==
    IF found THEN IsOpen(branch[b].session) /\ UNCHANGED env
    ELSE \/ Fault("read")
         \/ ~IsOpen(branch[b].session) /\ UNCHANGED env

\* The changes are collected and merged, and the await ends.  The one branch
\* that takes part is in no conflict.
CollectChanges(c) ==
    /\ At(c, "collect")
    /\ \/ Scan(job[c].branch, TRUE) /\ Goto(c, "save", job[c]) /\ UNCHANGED sessions
       \/ Scan(job[c].branch, FALSE) /\ Close(job[c].session) /\ Return(c)
    /\ UNCHANGED <<tables, commits>>

\* update_merge_request of the request as it was read, with another status
UpdateRequest(c, status) ==
    PutRequest(job[c].request, status, job[c].branch, job[c].session)

\* Variant: the staging session is forgotten.
SaveStagedUnset(c) ==
    /\ At(c, "save")
    /\ PutRequest(job[c].request, "ReadyToCommit", job[c].branch, None)
    /\ Goto(c, "read", job[c])
    /\ UNCHANGED <<branch, sessions, env, commits>>

SaveStaged(c) ==
    /\ At(c, "save")
    /\ UpdateRequest(c, "ReadyToCommit")
    /\ Goto(c, "read", job[c])
    /\ UNCHANGED <<branch, sessions, env, commits>>

CommitMerge(c, r) ==
    /\ Start(c) /\ StatusRead(r) = "ReadyToCommit"
    /\ Goto(c, "commit", [NoJob EXCEPT !.branch = request[r].branch, !.request = r,
                          !.session = request[r].staging, !.goal = "Merged", !.then = "finish"])
    /\ UNCHANGED <<tables, sessions, env, commits>>

CommitStaging(c) ==
    /\ At(c, "commit") /\ Committable(job[c].session)
    /\ Close(job[c].session)
    /\ commits' = [commits EXCEPT ![job[c].branch] = @ + 1]
    /\ Goto(c, "read", job[c])
    /\ UNCHANGED <<tables, env>>

\* Variant: the status is written first, or whatever the commit returns.
CommitFailedGoesOn(c) ==
    /\ At(c, "commit") /\ ~Committable(job[c].session)
    /\ Goto(c, "read", job[c])
    /\ UNCHANGED <<tables, sessions, env, commits>>

\* A commit that failed has changed nothing, or everything but for the
\* directory of the staging session.
CommitFailed(c) ==
    /\ At(c, "commit")
    /\ \/ /\ ~Committable(job[c].session)
          /\ UNCHANGED <<sessions, commits, env>>
       \/ Fault("session") /\ UNCHANGED <<sessions, commits>>
       \/ /\ Committable(job[c].session) /\ Fault("session")
          /\ Close(job[c].session)
          /\ commits' = [commits EXCEPT ![job[c].branch] = @ + 1]
    /\ Return(c)
    /\ UNCHANGED tables

\* mark_committed
FinishRequest(c) ==
    /\ At(c, "finish")
    /\ UpdateRequest(c, "Committed")
    /\ Return(c)
    /\ UNCHANGED <<branch, sessions, env, commits>>

-----------------------------------------------------------------------------
(* recover_branches *)

\* "After a restart": before anything else.
Recover(c) ==
    /\ At(c, "new")
    /\ Goto(c, "recover", [NoJob EXCEPT !.then = "recover",
           !.todo = {[id |-> b, status |-> branch[b].status] :
                        b \in ListActive}])
    /\ UNCHANGED <<tables, sessions, env, commits>>

\* A branch with its session goes on, an active one from the start.
RecoverBranch(c, row) ==
    LET lost == ~IsOpen(branch[row.id].session)
        rest == [job[c] EXCEPT !.todo = @ \ {row}, !.branch = row.id]
    IN  /\ At(c, "recover") /\ row \in job[c].todo
        /\ CASE lost -> Goto(c, "read", [rest EXCEPT !.goal = "Failed"])
             [] ~lost /\ row.status = "Active" -> Goto(c, "write", [rest EXCEPT !.goal = "Pending"])
             [] OTHER -> Goto(c, "recover", rest)
        /\ UNCHANGED <<tables, sessions, env, commits>>

RecoverDone(c) ==
    /\ At(c, "recover") /\ job[c].todo = {}
    /\ Return(c)
    /\ UNCHANGED <<tables, sessions, env, commits>>

-----------------------------------------------------------------------------
(* Faults, and the agents at work *)

\* A statement that reads or writes fails; what was done before stays done.
StatementFails(c) ==
    /\ Fault("sql")
    /\ \/ At(c, "insert") /\ Return(c) /\ UNCHANGED sessions
       \/ At(c, "read") /\ StatusFailed(c)
       \/ At(c, "write") /\ StatusFailed(c)
       \/ (At(c, "auto") \/ At(c, "finish")) /\ Return(c) /\ UNCHANGED sessions
       \/ At(c, "save") /\ Close(job[c].session) /\ Return(c)
    /\ UNCHANGED <<tables, commits>>

\* An agent writes in the directory of its branch.
AgentWork(b) ==
    /\ branch[b].status = "Active" /\ IsOpen(branch[b].session)
    /\ stale' = stale \cup {s \in Sessions : IsOpen(s) /\ session[s].base = branch[b].session}
    /\ UNCHANGED <<tables, session, callers, env, commits>>

\* An instance traps: the tables and the sessions stay, for the next one.
Crash(c) ==
    /\ pc[c] \notin {"idle", "new"} /\ Fault("crash")
    /\ Goto(c, "new", NoJob)
    /\ UNCHANGED <<tables, sessions, commits>>

\* The kernel starts anew: no session is known, no instance runs.
Restart ==
    /\ Fault("restart")
    /\ pc' = [c \in Callers |-> "new"] /\ job' = [c \in Callers |-> NoJob]
    /\ session' = [s \in Sessions |-> IF IsOpen(s) THEN [session[s] EXCEPT !.state = "closed"]
                                      ELSE session[s]]
    /\ stale' = {}
    /\ UNCHANGED <<tables, commits>>

-----------------------------------------------------------------------------
Lifecycle(c) ==
    \/ \E b \in Branches, parent \in Branches \cup {None} : CreateBranch(c, b, parent)
    \/ \E s \in Sessions : BeginSession(c, s)
    \/ BeginFailed(c) \/ InsertBranch(c)
    \/ \E b \in Branches : AbortBranch(c, b) \/ AbortFailed(c, b)
    \/ \E b \in Branches, goal \in Statuses : SetStatus(c, b, goal)
    \/ ReadStatus(c) \/ WriteStatus(c) \/ InvalidStatus(c)
    \/ Recover(c) \/ RecoverDone(c)
    \/ \E row \in job[c].todo : RecoverBranch(c, row)

Merging(c) ==
    \/ \E b \in Branches, r \in Requests, auto \in BOOLEAN : RequestMerge(c, b, r, auto)
    \/ AutoApprove(c)
    \/ \E r \in Requests : ApproveMerge(c, r) \/ CommitMerge(c, r)
    \/ \E r \in Requests, s \in Sessions : ExecuteMerge(c, r, s)
    \/ CollectChanges(c) \/ SaveStaged(c)
    \/ CommitStaging(c) \/ CommitFailed(c) \/ FinishRequest(c)

Next ==
    \/ \E c \in Callers : Lifecycle(c) \/ Merging(c) \/ StatementFails(c) \/ Crash(c)
    \/ \E b \in Branches : AgentWork(b)
    \/ Restart

Spec == Init /\ [][Next]_vars

-----------------------------------------------------------------------------
(* Properties *)

\* A failed branch leaves no session behind (abort_branch, recover_branches):
\* its status is written after the session is gone, and a session never
\* comes back.
FailedHasNoSession ==
    \A b \in Branches : branch[b].status = "Failed" => ~IsOpen(branch[b].session)

\* A branch says it is merged only after a staging session of it was committed
\* (commit_merge), over every error, crash and second caller.
MergedWasCommitted ==
    \A b \in Branches : branch[b].status = "Merged" => commits[b] > 0

\* One instance never commits two merges of a branch, with two requests for
\* it, or one executed twice while the other awaits (execute_merge).
OneMergeCommitted ==
    mode = "one" => \A b \in Branches : commits[b] <= 1

\* One instance keeps the branches that are to be worked on within the limit
\* (check_branch_limit); branches that are being merged come on top.
OpenWithinLimit ==
    mode = "one" => Cardinality({b \in Branches : branch[b].status \in Open}) <= MaxBranches

\* With one instance a branch that is being merged has a request whose status is
\* ReadyToCommit (execute_merge writes the request first, approve_merge leaves it
\* alone). This is what commit_merge asks for first; it does not say that the
\* staging session of the request can still be committed: of two execute_merge
\* that overlap, one may have rolled back the session the request names.
MergingIsStaged ==
    mode = "one" => \A b \in Branches : branch[b].status = "Merging" =>
        \E r \in Requests : request[r].branch = b /\ request[r].status = "ReadyToCommit"

\* The end of a recovery by one instance, when statements do not fail, finds
\* no branch active, and no branch listed that has lost its session
\* (recover_branches and the transitions update_status lets through).
RecoverySettles ==
    [][mode = "one" /\ "sql" \notin faults =>
          \A c \in Callers : RecoverDone(c) =>
              \A b \in Branches : /\ branch[b].status # "Active"
                                  /\ branch[b].status \in Listed => IsOpen(branch[b].session)]_vars
=============================================================================
