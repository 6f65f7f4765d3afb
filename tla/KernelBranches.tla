--------------------------- MODULE KernelBranches ---------------------------
(***************************************************************************)
(* The branch manager of the kernel (branch_manager/) behind its HTTP      *)
(* handlers (api/branches/handlers.rs).  Its two maps have a lock each,    *)
(* and a handler may take one twice: what it checks under the first lock   *)
(* is acted on under the second.  Agents, strategies and times are left    *)
(* out, and so are the read-only handlers.                                 *)
(***************************************************************************)
EXTENDS Integers, FiniteSets

CONSTANTS
    Handlers,       \* handlers at work at the same time
    BranchIds,      \* the ids new_v4 may draw, for branches ...
    Names,
    RequestIds,     \* ... and for merge requests
    NoName

VARIABLES
    branches,   \* the map of branches; "absent" and "deleted" are not in it
    requests,   \* the map of merge requests
    call,       \* a handler between its two locks, or idle
    outcomes    \* history: how often execute or abort of a branch said Ok

branchVars == <<branches, requests, call, outcomes>>

Idle == [op |-> "idle"]
BranchRow == [name : Names \cup {NoName},
              status : {"absent", "Pending", "Running", "Completed", "Failed", "Aborted",
                        "Merging", "deleted"}]
RequestRow == [status : {"absent", "Pending", "Approved", "Rejected"}]

Stored(b) == branches[b].status \notin {"absent", "deleted"}
NameExists(n) == \E b \in BranchIds : Stored(b) /\ branches[b].name = n

\* An id that nobody has drawn
NewBranchId(b) == /\ branches[b].status = "absent"
                  /\ \A h \in Handlers : call[h].op = "create" => call[h].id # b
NewRequestId(r) == /\ requests[r].status = "absent"
                   /\ \A h \in Handlers : call[h].op = "request" => call[h].request # r

BranchesInit ==
    /\ branches = [b \in BranchIds |-> [name |-> NoName, status |-> "absent"]]
    /\ requests = [r \in RequestIds |-> [status |-> "absent"]]
    /\ call = [h \in Handlers |-> Idle]
    /\ outcomes = [b \in BranchIds |-> 0]

\* The handler has what it looked for and goes on to take the second lock.
Goes(h, next) == /\ call[h] = Idle
                 /\ call' = [call EXCEPT ![h] = next]
                 /\ UNCHANGED <<branches, requests, outcomes>>

\* create_branch: the name is looked up, then the branch inserted.
CheckName(h, b, n) ==
    NewBranchId(b) /\ ~NameExists(n) /\ Goes(h, [op |-> "create", id |-> b, name |-> n])
InsertBranch(h) ==
    /\ call[h].op = "create"
    /\ branches' = [branches EXCEPT ![call[h].id] = [name |-> call[h].name, status |-> "Pending"]]
    /\ call' = [call EXCEPT ![h] = Idle]
    /\ UNCHANGED <<requests, outcomes>>

\* delete_branch: in whatever state the branch is, its requests stay.
CheckStored(h, b) == Stored(b) /\ Goes(h, [op |-> "delete", id |-> b])
RemoveBranch(h) ==
    /\ call[h].op = "delete"
    /\ branches' = [branches EXCEPT ![call[h].id].status = "deleted"]
    /\ call' = [call EXCEPT ![h] = Idle]
    /\ UNCHANGED <<requests, outcomes>>

\* request_merge: of a branch in any state
CheckBranch(h, b, r) ==
    NewRequestId(r) /\ Stored(b) /\ Goes(h, [op |-> "request", id |-> b, request |-> r])
InsertRequest(h) ==
    /\ call[h].op = "request"
    /\ requests' = [requests EXCEPT ![call[h].request].status = "Pending"]
    /\ call' = [call EXCEPT ![h] = Idle]
    /\ UNCHANGED <<branches, outcomes>>

\* execute_branch and abort_branch hold the lock from the check to the change;
\* Running and Completed are assigned under one lock, so nobody sees Running.
Ends(h, b, status) ==
    /\ call[h] = Idle
    /\ branches' = [branches EXCEPT ![b].status = status]
    /\ outcomes' = [outcomes EXCEPT ![b] = @ + 1]
    /\ UNCHANGED <<requests, call>>

\* Variant: a branch that has been executed is executed again.
ExecuteBranchAgain(h, b) == Stored(b) /\ Ends(h, b, "Completed")

ExecuteBranch(h, b) == branches[b].status \in {"Pending", "Failed"} /\ Ends(h, b, "Completed")
AbortBranch(h, b) == branches[b].status \in {"Running", "Pending"} /\ Ends(h, b, "Aborted")

\* approve_merge and reject_merge: in any order, as often as they are called
Judge(h, r, status) ==
    /\ call[h] = Idle
    /\ requests[r].status # "absent"
    /\ requests' = [requests EXCEPT ![r].status = status]
    /\ UNCHANGED <<branches, call, outcomes>>

\* Any of them on an id that is not in the map, or a transition that is not
\* allowed: an error response
Refuse(h) ==
    /\ call[h] = Idle
    /\ \E b \in BranchIds : branches[b].status # "Pending"
    /\ UNCHANGED branchVars

BranchesNext ==
    \E h \in Handlers :
        \/ \E b \in BranchIds, n \in Names : CheckName(h, b, n)
        \/ \E b \in BranchIds : CheckStored(h, b) \/ ExecuteBranch(h, b) \/ AbortBranch(h, b)
        \/ \E b \in BranchIds, r \in RequestIds : CheckBranch(h, b, r)
        \/ \E r \in RequestIds, s \in {"Approved", "Rejected"} : Judge(h, r, s)
        \/ InsertBranch(h) \/ RemoveBranch(h) \/ InsertRequest(h) \/ Refuse(h)

BranchesTypeOK ==
    /\ branches \in [BranchIds -> BranchRow]
    /\ requests \in [RequestIds -> RequestRow]
    /\ outcomes \in [BranchIds -> Nat]
    /\ \A h \in Handlers : call[h].op \in {"idle", "create", "delete", "request"}

\* Of all the calls of execute and abort on a branch, one at most says that it
\* succeeded, and the branch is in the state that one gave it until it is
\* deleted (execute_branch, abort_branch check and change under one lock).
EndedOnce ==
    \A b \in BranchIds :
        /\ outcomes[b] <= 1
        /\ branches[b].status \in {"Completed", "Aborted"} => outcomes[b] = 1
        /\ branches[b].status \in {"absent", "Pending"} => outcomes[b] = 0
=============================================================================
