----------------------------- MODULE BranchTasks -----------------------------
(***************************************************************************)
(* The supervisor's handlers of the branching statuses of a task           *)
(* (components/supervisor/src/handlers/branching) over the interface they  *)
(* call, trait BranchManager, with branches whose changes are merged by    *)
(* the merge strategies.  The interface is called and the task's row is    *)
(* written in steps of their own.                                          *)
(*                                                                         *)
(* The crate implements the interface by a no-op only, and poll_tasks runs *)
(* the handlers without one; the manager here is what the handlers take it *)
(* to be.  An agent works in a directory of its branch; a file is a        *)
(* sequence of lines, or NoFile.                                           *)
(***************************************************************************)
EXTENDS MergeStrategies, LineDiff

CONSTANTS
    Branches,   \* branch ids
    Files,
    LineValues, \* what a line may be
    NoFile,
    NoRequest,
    MaxLines,   \* bound: lines of a file of the base
    MaxEdits,   \* bound: edits of all agents
    Faults,     \* what may fail: "manager", "db" and, in mark_failed, "dbfail"
    MaxFaults   \* bound: failures in a behaviour

ASSUME BranchTasksAssumption ==
    /\ MaxLines \in Nat /\ MaxEdits \in Nat /\ MaxFaults \in Nat
    /\ Faults \subseteq {"manager", "db", "dbfail"}

\* The handlers make three branches at most, no strategy refuses as many.
ASSUME BranchCountAssumption == ~TooMany(SetToSeq(Branches))

Texts == UNION {[1..n -> LineValues] : n \in 0..MaxLines}

VARIABLES
    task,      \* the task's row
    pc, job,   \* the handler: where it is, and what it is to write
    base,      \* the files the branches are made of
    branch,    \* per branch: its status and files
    request,   \* the merge requests made so far, the last one first
    edits, faults

handler == <<pc, job>>
manager == <<base, branch, request, edits>>
vars == <<task, handler, manager, faults>>

\* should_use_branching and create_branches_for_strategy
BranchCount == [MultipleReviewers |-> 3, AlternativeImplementations |-> 2, NestedBranches |-> 1]

Status(name, branches, completed, req) ==
    [name |-> name, branches |-> branches, completed |-> completed, request |-> req]
Plain(name) == Status(name, <<>>, 0, NoRequest)

Init ==
    /\ task = Plain("AnalyzingForBranch")
    /\ pc = "idle" /\ job = Plain("Executing")
    /\ base \in [Files -> Texts \cup {NoFile}]
    /\ branch = [b \in Branches |-> [status |-> "absent", files |-> base]]
    /\ request = <<>>
    /\ edits = 0 /\ faults = 0

-----------------------------------------------------------------------------
(* The changes of branches, and their merge *)

Changes(b) ==
    {[path |-> f, kind |-> CASE base[f] = NoFile -> "Added"
                             [] base[f] # NoFile /\ branch[b].files[f] = NoFile -> "Deleted"
                             [] OTHER -> "Modified"] :
        f \in {g \in Files : branch[b].files[g] # base[g]}}

Results(branches) == [i \in DOMAIN branches |-> [branch |-> branches[i],
                                                 changes |-> Changes(branches[i])]]

\* read_file: a file that is not there is an empty text.
Text(file) == IF file = NoFile THEN <<>> ELSE file
FilesClash(f, b, c) == LinesClash(Text(base[f]), Text(branch[b].files[f]), Text(branch[c].files[f]))
Clashing == {t \in Files \X Branches \X Branches : FilesClash(t[1], t[2], t[3])}

\* The handlers ask for the strategy "union".
Merged(r) == Merge("union", Results(request[r].branches), Clashing)

-----------------------------------------------------------------------------
(* What the manager does: trait BranchManager, agents and approvers *)

OneEdit(text) ==
    IF text = NoFile THEN {<<>>}
    ELSE {RemoveAt(text, i) : i \in DOMAIN text} \cup {NoFile}
         \cup {InsertAt(text, i, line) : i \in 1..(Len(text) + 1), line \in LineValues}

AgentEdits(b, f) ==
    /\ branch[b].status = "Active" /\ edits < MaxEdits
    /\ \E text \in OneEdit(branch[b].files[f]) :
          branch' = [branch EXCEPT ![b].files[f] = text]
    /\ edits' = edits + 1
    /\ UNCHANGED <<task, handler, base, request, faults>>

AgentEnds(b) ==
    /\ branch[b].status = "Active"
    /\ \E end \in {"Completed", "Failed"} : branch' = [branch EXCEPT ![b].status = end]
    /\ UNCHANGED <<task, handler, base, request, edits, faults>>

\* approve_merge, or a rejection, from outside
Decide(r) ==
    /\ request[r].status = "Pending"
    /\ \E d \in {"Approved", "Rejected"} : request' = [request EXCEPT ![r].status = d]
    /\ UNCHANGED <<task, handler, base, branch, edits, faults>>

\* execute_merge
Execute(r) ==
    request' = [request EXCEPT ![r].status =
                   IF Merged(r).conflicts = {} THEN "Merged" ELSE "Conflict"]

\* "approved and executed externally"
MergeExternally(r) ==
    /\ request[r].status = "Approved"
    /\ Execute(r)
    /\ UNCHANGED <<task, handler, base, branch, edits, faults>>

-----------------------------------------------------------------------------
(* The handlers *)

Goto(place, new) == pc' = place /\ job' = new
Turn(name) == pc = "idle" /\ task.name = name
Leave(new) == Goto("write", new)

AnalyzingForBranch ==
    /\ Turn("AnalyzingForBranch")
    /\ \/ Leave(Plain("Executing"))
       \/ \E s \in DOMAIN BranchCount : Goto("create", Status("Branching", <<>>, BranchCount[s], NoRequest))
    /\ UNCHANGED <<task, manager, faults>>

\* Until then job.completed counts the branches that are still to be created.
CreateBranch(b) ==
    /\ pc = "create" /\ branch[b].status = "absent"
    /\ branch' = [branch EXCEPT ![b].status = "Pending"]
    /\ Goto(IF job.completed = 1 THEN "write" ELSE "create",
            [job EXCEPT !.branches = Append(@, b), !.completed = @ - 1])
    /\ UNCHANGED <<task, base, request, edits, faults>>

\* execute_branches, after the status is written
ExecuteBranches ==
    /\ pc = "execute"
    /\ branch' = [b \in Branches |-> IF b \in Range(job.branches)
                                     THEN [branch[b] EXCEPT !.status = "Active"] ELSE branch[b]]
    /\ Goto("idle", Plain("Executing"))
    /\ UNCHANGED <<task, base, request, edits, faults>>

\* The branches of the task by their statuses
With(status) == {b \in Range(task.branches) : branch[b].status = status}
AllCompleted == Len(task.branches) = Cardinality(With("Completed"))

\* Variant: one completed branch is enough.
BranchingFirstDone ==
    /\ Turn("Branching")
    /\ CASE With("Failed") # {} -> Leave(Plain("Failed"))
         [] With("Failed") = {} /\ With("Completed") # {} -> Goto("request", task)
         [] OTHER -> UNCHANGED handler
    /\ UNCHANGED <<task, manager, faults>>

Branching ==
    LET completed == Cardinality(With("Completed"))
    IN  /\ Turn("Branching")
        /\ CASE With("Failed") # {} -> Leave(Plain("Failed"))
             [] With("Failed") = {} /\ AllCompleted -> Goto("request", task)
             [] With("Failed") = {} /\ ~AllCompleted /\ completed > task.completed ->
                    Leave([task EXCEPT !.completed = completed])
             [] OTHER -> UNCHANGED handler
        /\ UNCHANGED <<task, manager, faults>>

\* create_merge_request; more than two branches need approval.
RequestMerge ==
    LET approval == Len(task.branches) > 2
    IN  /\ pc = "request"
        /\ request' = Append(request, [status |-> IF approval THEN "Pending" ELSE "Approved",
                                       branches |-> task.branches])
        /\ Goto(IF approval THEN "conflicts" ELSE "write",
                Status(IF approval THEN "MergePendingApproval" ELSE "Merging",
                       task.branches, 0, Len(request) + 1))
        /\ UNCHANGED <<task, base, branch, edits, faults>>

\* get_merge_conflicts
GetConflicts ==
    /\ pc = "conflicts"
    /\ Leave(job)
    /\ UNCHANGED <<task, manager, faults>>

Becomes(name) == [task EXCEPT !.name = name]

Merging ==
    LET status == request[task.request].status
    IN  /\ Turn("Merging")
        /\ CASE status = "Merged"   -> Leave(Becomes("Completed"))
             [] status = "Conflict" -> Goto("conflicts", Becomes("MergePendingApproval"))
             [] status = "Rejected" -> Leave(Becomes("Failed"))
             [] OTHER -> UNCHANGED handler
        /\ UNCHANGED <<task, manager, faults>>

MergePendingApproval ==
    LET status == request[task.request].status
    IN  /\ Turn("MergePendingApproval")
        /\ CASE status = "Approved" -> Goto("merge", Becomes("Merging"))
             [] status = "Rejected" -> Leave(Becomes("Failed"))
             [] status = "Merged"   -> Leave(Becomes("Completed"))
             [] OTHER -> UNCHANGED handler
        /\ UNCHANGED <<task, manager, faults>>

ExecuteMerge ==
    /\ pc = "merge"
    /\ Execute(task.request)
    /\ Leave(job)
    /\ UNCHANGED <<task, base, branch, edits, faults>>

\* update_status, mark_completed, mark_failed; new branches are executed next.
WriteStatus ==
    /\ pc = "write"
    /\ task' = job
    /\ IF task.name = "AnalyzingForBranch" /\ job.name = "Branching"
       THEN Goto("execute", job) ELSE Goto("idle", Plain("Executing"))
    /\ UNCHANGED <<manager, faults>>

\* A call or a statement returns an error.
CallFails ==
    /\ faults < MaxFaults /\ faults' = faults + 1
    /\ \/ "manager" \in Faults /\ pc \in {"create", "execute", "request", "conflicts", "merge"}
       \/ "manager" \in Faults /\ pc = "idle"
             /\ task.name \in {"Branching", "Merging", "MergePendingApproval"}
       \/ "db" \in Faults /\ pc = "write"
    /\ Goto("fail", Plain("Failed"))
    /\ UNCHANGED <<task, manager>>

\* handle_failure: a best-effort mark_failed
HandleFailure ==
    /\ pc = "fail"
    /\ \/ task' = Becomes("Failed") /\ UNCHANGED faults
       \/ /\ "dbfail" \in Faults /\ faults < MaxFaults
          /\ faults' = faults + 1 /\ UNCHANGED task
    /\ Goto("idle", Plain("Executing"))
    /\ UNCHANGED manager

Next ==
    \/ AnalyzingForBranch \/ ExecuteBranches \/ Branching
    \/ RequestMerge \/ GetConflicts \/ Merging \/ MergePendingApproval \/ ExecuteMerge
    \/ WriteStatus \/ CallFails \/ HandleFailure
    \/ \E b \in Branches : CreateBranch(b) \/ AgentEnds(b) \/ \E f \in Files : AgentEdits(b, f)
    \/ \E r \in DOMAIN request : Decide(r) \/ MergeExternally(r)

Spec == Init /\ [][Next]_vars

-----------------------------------------------------------------------------
(* Properties *)

\* When a task completes by merging its branches, each change an agent made in
\* one of them is among the merged ones (BranchingHandler waits for all of
\* them, UnionStrategy drops none without a conflict).
CompletedKeepsAll ==
    task.name = "Completed" =>
        \A b \in Range(task.branches) : Changes(b) \subseteq Merged(task.request).merged

\* Of branches of one base, union reports what detect_conflicts does, in
\* whatever order they come, and three-way reports nothing that union does not
\* and merges all that it does.
MergesAgree ==
    pc = "request" =>
        LET results == Results(task.branches)
            merge(name, of) == Merge(name, of, Clashing)
        IN  /\ merge("union", results) = merge("union", Reverse(results))
            /\ merge("union", results).conflicts = DetectConflicts(results)
            /\ merge("three-way", results).conflicts \subseteq merge("union", results).conflicts
            /\ merge("union", results).merged \subseteq merge("three-way", results).merged

\* P of every file of two branches that are to be merged
OfTexts(P(_, _, _)) ==
    pc = "request" =>
        \A b, c \in Range(task.branches), f \in Files : b # c =>
            P(Text(base[f]), Text(branch[b].files[f]), Text(branch[c].files[f]))

Lies(line, range) == range # <<>> /\ range[1] <= line /\ line < range[2]

\* The ranges are in order, and every line is in one of them.
Covers(ranges, n) ==
    /\ \A i \in DOMAIN ranges : ranges[i] # <<>> =>
          0 <= ranges[i][1] /\ ranges[i][1] < ranges[i][2] /\ ranges[i][2] <= n
    /\ \A i, j \in DOMAIN ranges : i < j /\ ranges[i] # <<>> /\ ranges[j] # <<>> =>
          ranges[i][2] <= ranges[j][1]
    /\ \A line \in 0..(n - 1) : \E i \in DOMAIN ranges : Lies(line, ranges[i])

Olds(ops) == [i \in DOMAIN ops |-> ops[i].old]
News(ops) == [i \in DOMAIN ops |-> ops[i].new]

Count(script, edit) == Cardinality({i \in DOMAIN script : script[i] = edit})

Agree(old, a, ops, hunks, script) ==
    LET lines(of(_)) ==
            Len(FlattenSeq([i \in DOMAIN ops |-> IF i \in DOMAIN hunks THEN of(hunks[i]) ELSE <<>>]))
        kept == Len(ApplyDiff(old, ops))
        removed == lines(LAMBDA hunk : hunk.removed)
        added == lines(LAMBDA hunk : hunk.added)
    IN  /\ Covers(Olds(ops), Len(old))
        /\ Covers(News(ops), Len(a))
        /\ kept + removed = Len(old)
        /\ kept + added = Len(a)
        /\ Count(script, "Delete") = removed
        /\ Count(script, "Insert") = added
AgreeFor(old, a, ops) == Agree(old, a, ops, UnifiedDiff(old, a, ops), ToEditScript(old, a, ops))

\* The operations of a diff name every line of both files once, in order, and
\* what is made of them agrees: the lines kept and those removed are the base,
\* the lines kept and those added are as many as the target has, and an edit
\* script has all the deletions and insertions (MyersDiff: what
\* three_way_merge, apply_diff, to_edit_script and format_unified_diff slice
\* the files by).
DiffCovers == OfTexts(LAMBDA old, a, b : AgreeFor(old, a, MyersDiff(old, a)))

Changed(ops, line) == \E i \in ExtractChanges(ops) : Lies(line, ops[i].old)
BothChanged(opsA, opsB, line) == Changed(opsA, line) /\ Changed(opsB, line)
Inserts(ops) == \E i \in DOMAIN ops : ops[i].kind = "Insert"

AreOverlaps(n, opsA, opsB, conflicts) ==
    /\ \A i \in DOMAIN conflicts : conflicts[i][1] <= conflicts[i][2] /\ conflicts[i][2] <= n
    /\ ~Inserts(opsA) /\ ~Inserts(opsB) =>
          /\ \A i, j \in DOMAIN conflicts : i < j => conflicts[i][2] <= conflicts[j][1]
          /\ conflicts = <<>> => \A line \in 0..(n - 1) : ~BothChanged(opsA, opsB, line)
          /\ \A i \in DOMAIN conflicts :
                \E line \in conflicts[i][1]..(conflicts[i][2] - 1) : BothChanged(opsA, opsB, line)

\* The conflicts of a three-way merge are lines of the base (perform_merge: it
\* slices the base by them).  Unless a branch only adds lines somewhere, they
\* are in order, do not overlap, each has a line that both branches changed, and
\* there is one if there is such a line.
ConflictsAreOverlaps ==
    OfTexts(LAMBDA old, a, b :
        AreOverlaps(Len(old), MyersDiff(old, a), MyersDiff(old, b),
                    MergeTexts(old, a, b).conflicts))

\* "A vector of `DiffOp` operations that transform `base` into `target`" (the
\* trait DiffAlgorithm of MyersDiff).
DiffTransforms ==
    OfTexts(LAMBDA old, a, b :
        LET lines(op) == IF op.kind = "Equal" THEN Lines(old, op.old)
                         ELSE IF op.new = <<>> THEN <<>> ELSE Lines(a, op.new)
            ops == MyersDiff(old, a)
        IN  FlattenSeq([i \in DOMAIN ops |-> lines(ops[i])]) = a)
=============================================================================
