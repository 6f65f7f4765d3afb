------------------------ MODULE BranchWorkflowProofs ------------------------
(***************************************************************************)
(* Proofs about BranchWorkflow, for any number of callers, branches,       *)
(* requests and sessions, whatever fails: first what holds of many         *)
(* instances, then what one instance keeps besides.                        *)
(***************************************************************************)
EXTENDS BranchWorkflow, FiniteSetTheorems, TLAPS

Creating == {"begin", "insert"}
Working == {"read", "write", "collect", "save", "commit", "finish"}

\* What a caller at a place may rely on, given the tables br, the sessions se
\* and the commits co: a branch that is created has no row yet, any other has;
\* a status is earned before it is written.
Sound(place, j, br, se, co) ==
    /\ place \in Creating => j.branch \in Branches /\ br[j.branch].status = "absent"
    /\ place \in Working => j.branch \in Branches /\ br[j.branch].status # "absent"
    /\ place = "insert" => j.session \in Sessions /\ se[j.session].state # "free"
    /\ place \in {"collect", "save"} =>
          j.request \in Requests /\ j.session \in Sessions /\ j.goal = "Merging"
    /\ place = "commit" => j.goal = "Merged" /\ j.then = "finish"
    /\ place = "finish" => j.then = "finish"
    /\ place \in {"read", "write"} =>
          /\ j.goal = "Failed" => se[br[j.branch].session].state = "closed"
          /\ j.goal = "Merged" => co[j.branch] > 0
    /\ place = "read" /\ j.goal = "Merging" => j.session \in Sessions
    /\ j.then = "finish" => j.request \in Requests /\ j.session \in Sessions
    /\ \A row \in j.todo : br[row.id].status # "absent"

CallersSound == \A c \in Callers : Sound(pc[c], job[c], branch, session, commits)

\* No two callers create one branch.
CreatorsApart ==
    \A c, d \in Callers :
        c # d /\ pc[c] \in Creating /\ pc[d] \in Creating => job[c].branch # job[d].branch

\* The session of a branch was begun, that of a failed one is over, a merged
\* branch was committed, a request is for a branch there is.
RowsSound ==
    /\ \A b \in Branches :
          /\ branch[b].status # "absent" => session[branch[b].session].state # "free"
          /\ branch[b].status = "Failed" => session[branch[b].session].state = "closed"
          /\ branch[b].status = "Merged" => commits[b] > 0
    /\ \A r \in Requests :
          request[r].status # "absent" => branch[request[r].branch].status # "absent"

IInv == TypeOK /\ RowsSound /\ CreatorsApart /\ CallersSound

-----------------------------------------------------------------------------
(* What a step may do to the tables and the sessions *)

\* Sessions begin once and end once.
SessionsGrow ==
    /\ session' \in [Sessions -> SessionState]
    /\ stale' \subseteq Sessions
    /\ \A s \in Sessions :
          /\ session[s].state # "free" => session'[s].state # "free"
          /\ session[s].state = "closed" => session'[s].state = "closed"

EnvMoves == faults' \subseteq Faults /\ mode' \in {"one", "many"}

Counted ==
    /\ commits' \in [Branches -> Nat]
    /\ \A b \in Branches : commits[b] > 0 => commits'[b] > 0

\* Rows stay, with their directories.
RowsStay ==
    \A b \in Branches : branch[b].status # "absent" =>
        branch'[b].status # "absent" /\ branch'[b].session = branch[b].session

\* A row that appears is of a branch no caller in D is creating.
NewRowsOutside(D) ==
    \A d \in D : pc[d] \in Creating => branch[job[d].branch].status = branch'[job[d].branch].status

Row(b) == branch[b].status # "absent" => branch[b].session \in Sessions

\* A session that begins is open, and no other loses its place.
LEMMA BeginGrows ==
    ASSUME TypeOK, NEW s \in Sessions, NEW d, Begin(s, d)
    PROVE  SessionsGrow /\ session'[s].state = "open"
<1>1. d \in Sessions \cup {Base}
  BY DEF Begin, DirExists
<1>2. stale' \subseteq Sessions
  BY DEF Begin, TypeOK
<1>3. [state |-> "open", base |-> d] \in SessionState
  BY <1>1 DEF SessionState
<1>4. QED
  BY <1>1, <1>2, <1>3 DEF Begin, TypeOK, SessionsGrow

\* A session that is closed stays closed.
LEMMA CloseGrows ==
    ASSUME TypeOK, NEW s, Close(s)
    PROVE  /\ SessionsGrow
           /\ s \in Sessions /\ session[s].state # "free" => session'[s].state = "closed"
<1>1. stale' \subseteq Sessions
  BY DEF Close, TypeOK
<1>2. CASE IsOpen(s)
  <2>1. s \in Sessions /\ session[s].state = "open"
    BY <1>2 DEF IsOpen
  <2>2. session' = [session EXCEPT ![s].state = "closed"]
    BY <1>2 DEF Close
  <2>3. session' \in [Sessions -> SessionState]
    BY <2>1, <2>2 DEF TypeOK, SessionState
  <2>4. QED
    BY <1>1, <2>1, <2>2, <2>3 DEF SessionsGrow, TypeOK, SessionState
<1>3. CASE ~IsOpen(s)
  <2>1. session' = session
    BY <1>3 DEF Close
  <2>2. s \in Sessions => session[s].state # "open"
    BY <1>3 DEF IsOpen
  <2>3. \A x \in Sessions : session[x].state \in {"free", "open", "closed"}
    BY DEF TypeOK, SessionState
  <2>4. QED
    BY <1>1, <2>1, <2>2, <2>3 DEF SessionsGrow, TypeOK
<1>4. QED
  BY <1>2, <1>3

\* Where no session changes, none is lost.
LEMMA SameSessions ==
    ASSUME TypeOK, UNCHANGED sessions PROVE SessionsGrow
BY DEF TypeOK, sessions, SessionsGrow

\* Where no statement fails and nothing restarts, the faults stay as they are.
LEMMA SameEnv ==
    ASSUME TypeOK, UNCHANGED env PROVE EnvMoves
BY DEF TypeOK, env, EnvMoves

\* A failing statement uses up one of the faults.
LEMMA FaultMoves ==
    ASSUME TypeOK, NEW f, Fault(f) PROVE EnvMoves
BY DEF TypeOK, Fault, EnvMoves

\* Where nothing is committed, commits are not counted down.
LEMMA SameCommits ==
    ASSUME TypeOK, UNCHANGED commits PROVE Counted
BY DEF TypeOK, Counted

\* A caller that does nothing has an empty job.
LEMMA NoJobType == NoJob \in Job
BY DEF NoJob, Job, Statuses, Listed, Open

-----------------------------------------------------------------------------
(* A caller stays sound while others move, and a step preserves IInv when  *)
(* the caller that takes it goes where it may.                             *)

\* What another caller relies on is still so after the step.
LEMMA OthersStaySound ==
    ASSUME IInv, SessionsGrow, Counted, RowsStay, NEW d \in Callers, NewRowsOutside({d})
    PROVE  Sound(pc[d], job[d], branch', session', commits')
<1> DEFINE j == job[d]
<1>1. Sound(pc[d], j, branch, session, commits)
  BY DEF IInv, CallersSound
<1>2. /\ \A b \in Branches : branch[b].status # "absent" => branch[b].session \in Sessions
      /\ \A row \in j.todo : row.id \in Branches
  BY DEF IInv, TypeOK, Job
<1>3. pc[d] \in Creating => branch'[j.branch].status = "absent"
  BY <1>1 DEF Sound, NewRowsOutside
<1>4. pc[d] \in Working => branch'[j.branch].status # "absent"
  BY <1>1 DEF Sound, RowsStay
<1>5. pc[d] = "insert" => session'[j.session].state # "free"
  BY <1>1 DEF Sound, SessionsGrow
<1>6. ASSUME pc[d] \in {"read", "write"}
      PROVE  /\ j.goal = "Failed" => session'[branch'[j.branch].session].state = "closed"
             /\ j.goal = "Merged" => commits'[j.branch] > 0
  <2>1. j.branch \in Branches /\ branch[j.branch].status # "absent"
    BY <1>1, <1>6 DEF Sound, Working
  <2>2. branch'[j.branch].session = branch[j.branch].session /\ branch[j.branch].session \in Sessions
    BY <1>2, <2>1 DEF RowsStay
  <2>3. QED
    BY <1>1, <1>6, <2>1, <2>2 DEF Sound, SessionsGrow, Counted
<1>7. \A row \in j.todo : branch'[row.id].status # "absent"
  BY <1>1, <1>2 DEF Sound, RowsStay
<1>8. QED
  BY <1>1, <1>3, <1>4, <1>5, <1>6, <1>7 DEF Sound

\* A step of one caller keeps the invariant if it is sound where it goes.
LEMMA CallerStep ==
    ASSUME IInv, NEW c \in Callers, NEW place \in Places, NEW new \in Job,
           Goto(c, place, new), SessionsGrow, EnvMoves, Counted, RowsStay,
           NewRowsOutside(Callers \ {c}),
           branch' \in [Branches -> BranchRow],
           \A b \in Branches : branch'[b].status # "absent" => branch'[b].session \in Sessions,
           request' \in [Requests -> RequestRow],
           \A r \in Requests :
              /\ request'[r].status # "absent" => request'[r].branch \in Branches
              /\ request'[r].status \in {"ReadyToCommit", "Committed"} => request'[r].staging \in Sessions,
           RowsSound',
           place # "idle" => Sound(place, new, branch', session', commits'),
           place \in Creating =>
              \A d \in Callers \ {c} : pc[d] \in Creating => job[d].branch # new.branch
    PROVE  IInv'
<1> DEFINE to == IF place = "idle" THEN NoJob ELSE new
<1>1. /\ pc' = [pc EXCEPT ![c] = place]
      /\ job' = [job EXCEPT ![c] = to]
  BY DEF Goto
<1>2. to \in Job
  BY NoJobType
<1>3. pc \in [Callers -> Places] /\ job \in [Callers -> Job]
  BY DEF IInv, TypeOK
<1> HIDE DEF to
<1>4. /\ pc' \in [Callers -> Places] /\ job' \in [Callers -> Job]
      /\ pc'[c] = place /\ job'[c] = to
      /\ \A d \in Callers \ {c} : pc'[d] = pc[d] /\ job'[d] = job[d]
  BY <1>1, <1>2, <1>3
<1>5. TypeOK'
  BY <1>4 DEF TypeOK, SessionsGrow, EnvMoves, Counted
<1>6. CallersSound'
  <2> SUFFICES ASSUME NEW d \in Callers
               PROVE  Sound(pc'[d], job'[d], branch', session', commits')
    BY DEF CallersSound
  <2>1. CASE d # c
    <3>1. NewRowsOutside({d})
      BY <2>1 DEF NewRowsOutside
    <3>2. Sound(pc[d], job[d], branch', session', commits')
      BY <3>1, OthersStaySound
    <3>3. QED
      BY <1>4, <2>1, <3>2
  <2>2. CASE d = c /\ place # "idle"
    BY <1>4, <2>2 DEF to
  <2>3. CASE d = c /\ place = "idle"
    <3>1. Sound("idle", NoJob, branch', session', commits')
      BY DEF Sound, Creating, Working, NoJob
    <3>2. QED
      BY <1>4, <2>3, <3>1 DEF to
  <2>4. QED
    BY <2>1, <2>2, <2>3
<1>7. CreatorsApart'
  <2>1. place \in Creating => to = new
    BY DEF to, Creating
  <2>2. QED
    BY <1>4, <2>1 DEF CreatorsApart, IInv
<1>8. QED
  BY <1>5, <1>6, <1>7 DEF IInv

\* Most steps leave the tables alone.
LEMMA SoundStays ==
    ASSUME IInv, UNCHANGED tables, SessionsGrow, Counted
    PROVE  /\ RowsStay /\ RowsSound'
           /\ NewRowsOutside(Callers)
           /\ branch' \in [Branches -> BranchRow]
           /\ \A b \in Branches : branch'[b].status # "absent" => branch'[b].session \in Sessions
           /\ request' \in [Requests -> RequestRow]
           /\ \A r \in Requests :
                /\ request'[r].status # "absent" => request'[r].branch \in Branches
                /\ request'[r].status \in {"ReadyToCommit", "Committed"} => request'[r].staging \in Sessions
<1>1. branch' = branch /\ request' = request
  BY DEF tables
<1>2. RowsSound'
  <2>1. RowsSound /\ \A b \in Branches : branch[b].status # "absent" => branch[b].session \in Sessions
    BY DEF IInv, TypeOK
  <2>2. ASSUME NEW b \in Branches
        PROVE  /\ branch'[b].status # "absent" => session'[branch'[b].session].state # "free"
               /\ branch'[b].status = "Failed" => session'[branch'[b].session].state = "closed"
               /\ branch'[b].status = "Merged" => commits'[b] > 0
    BY <1>1, <2>1 DEF RowsSound, SessionsGrow, Counted
  <2>3. QED
    BY <1>1, <2>1, <2>2 DEF RowsSound
<1>3. QED
  BY <1>1, <1>2 DEF RowsStay, NewRowsOutside, IInv, TypeOK

\* The same of a step that writes no row.
LEMMA QuietStep ==
    ASSUME IInv, NEW c \in Callers, NEW place \in Places, NEW new \in Job,
           Goto(c, place, new), UNCHANGED tables, SessionsGrow, EnvMoves, Counted,
           place # "idle" => Sound(place, new, branch, session', commits'),
           place \in Creating =>
              \A d \in Callers \ {c} : pc[d] \in Creating => job[d].branch # new.branch
    PROVE  IInv'
<1>1. branch' = branch
  BY DEF tables
<1>2. NewRowsOutside(Callers \ {c})
  BY SoundStays DEF NewRowsOutside
<1>3. place # "idle" => Sound(place, new, branch', session', commits')
  BY <1>1
<1>4. QED
  BY <1>2, <1>3, SoundStays, CallerStep

\* A step that ends an operation, whatever it did to the sessions.
LEMMA QuietReturn ==
    ASSUME IInv, NEW c \in Callers, Return(c), UNCHANGED tables,
           SessionsGrow, EnvMoves, Counted
    PROVE  IInv'
BY QuietStep, NoJobType DEF Return, Places, Creating

-----------------------------------------------------------------------------
(* The steps, one by one *)

\* Initially no caller relies on anything.
LEMMA IInvInit == Init => IInv
<1> SUFFICES ASSUME Init PROVE IInv
  OBVIOUS
<1>1. TypeOK
  BY NoJobType, BranchesAssumption DEF Init, TypeOK, BranchRow, RequestRow, SessionState, Places
<1>2. QED
  BY <1>1 DEF Init, IInv, RowsSound, CreatorsApart, CallersSound, Sound, Creating, Working, NoJob

\* What IInv says of the caller that takes a step.
LEMMA Mine ==
    ASSUME IInv, NEW c \in Callers
    PROVE  /\ pc[c] \in Places /\ job[c] \in Job
           /\ Sound(pc[c], job[c], branch, session, commits)
           /\ \A row \in job[c].todo : row.id \in Branches
BY DEF IInv, TypeOK, CallersSound, Job

\* A branch of the table has a row with a session.
LEMMA KnownRow ==
    ASSUME TypeOK, NEW b, Known(b), b \in Branches \cup {None}
    PROVE  b \in Branches /\ branch[b].status # "absent" /\ branch[b].session \in Sessions
BY DEF TypeOK, Known

\* create_branch checks its arguments and the limit.
LEMMA CreateBranchSound ==
    ASSUME IInv, NEW c \in Callers, NEW b \in Branches, NEW parent \in Branches \cup {None},
           CreateBranch(c, b, parent)
    PROVE  IInv'
<1> DEFINE new == [NoJob EXCEPT !.branch = b, !.parent = parent]
<1>1. /\ Goto(c, "begin", new) /\ UNCHANGED <<tables, sessions, env, commits>>
      /\ ~Known(b) /\ \A d \in Callers : job[d].branch # b
  BY DEF CreateBranch, StartCreate, Unused
<1>2. new \in Job /\ new.branch = b /\ new.then = "idle" /\ new.todo = {}
  BY NoJobType DEF Job, NoJob
<1>3. branch[b].status = "absent"
  BY <1>1, BranchesAssumption DEF Known
<1> HIDE DEF new
<1>4. Sound("begin", new, branch, session', commits')
  BY <1>2, <1>3 DEF Sound, Creating, Working
<1>5. QED
  BY <1>1, <1>2, <1>4, QuietStep, SameSessions, SameEnv, SameCommits DEF IInv, Places

\* begin_session makes the session of the branch to be inserted.
LEMMA BeginSessionSound ==
    ASSUME IInv, NEW c \in Callers, NEW s \in Sessions, BeginSession(c, s)
    PROVE  IInv'
<1> DEFINE new == [job[c] EXCEPT !.session = s]
<1>1. /\ pc[c] = "begin" /\ Begin(s, SourceDir(job[c].parent))
      /\ Goto(c, "insert", new) /\ UNCHANGED <<tables, env, commits>>
  BY DEF BeginSession, At
<1>2. SessionsGrow /\ session'[s].state = "open"
  BY <1>1, BeginGrows DEF IInv
<1>3. /\ new \in Job /\ new.branch = job[c].branch /\ new.session = s
      /\ new.request = job[c].request /\ new.then = job[c].then /\ new.todo = job[c].todo
  BY Mine DEF Job
<1> HIDE DEF new
<1>4. Sound("insert", new, branch, session', commits')
  BY <1>1, <1>2, <1>3, Mine DEF Sound, Creating, Working
<1>5. \A d \in Callers \ {c} : pc[d] \in Creating => job[d].branch # new.branch
  BY <1>1, <1>3 DEF IInv, CreatorsApart, Creating
<1>6. QED
  BY <1>1, <1>2, <1>3, <1>4, <1>5, QuietStep, SameEnv, SameCommits DEF IInv, Places

\* begin_session fails: nothing is inserted.
LEMMA BeginFailedSound ==
    ASSUME IInv, NEW c \in Callers, BeginFailed(c) PROVE IInv'
BY QuietReturn, SameSessions, SameEnv, FaultMoves, SameCommits DEF BeginFailed, IInv

\* The new row is of a branch no other caller is creating.
LEMMA InsertBranchSound ==
    ASSUME IInv, NEW c \in Callers, InsertBranch(c) PROVE IInv'
<1> DEFINE j == job[c]
           row == [status |-> "Pending", parent |-> j.parent, session |-> j.session]
<1>1. /\ pc[c] = "insert" /\ branch' = [branch EXCEPT ![j.branch] = row]
      /\ Return(c) /\ UNCHANGED <<request, sessions, env, commits>>
  BY DEF InsertBranch, At, PutBranch
<1>2. /\ j \in Job /\ j.branch \in Branches /\ branch[j.branch].status = "absent"
      /\ j.session \in Sessions /\ session[j.session].state # "free"
  BY <1>1, Mine DEF Sound, Creating
<1>3. row \in BranchRow
  BY <1>2 DEF Job, BranchRow, Statuses, Listed, Open
<1>4. branch \in [Branches -> BranchRow]
  BY DEF IInv, TypeOK
<1>5. /\ branch' \in [Branches -> BranchRow]
      /\ branch'[j.branch] = row
      /\ \A b \in Branches : b # j.branch => branch'[b] = branch[b]
  BY <1>1, <1>2, <1>3, <1>4
<1>6. row.status = "Pending" /\ row.session = j.session
  OBVIOUS
<1>7. RowsStay
  BY <1>2, <1>5 DEF RowsStay
<1>8. NewRowsOutside(Callers \ {c})
  <2>1. ASSUME NEW d \in Callers, d # c, pc[d] \in Creating
        PROVE  job[d].branch # j.branch /\ job[d].branch \in Branches
    <3>1. job[d].branch # j.branch
      BY <1>1, <2>1 DEF IInv, CreatorsApart, Creating
    <3>2. job[d].branch \in Branches
      BY <2>1, Mine DEF Sound
    <3>3. QED
      BY <3>1, <3>2
  <2>2. QED
    BY <1>5, <2>1 DEF NewRowsOutside
<1>9. session' = session /\ commits' = commits /\ request' = request
  BY <1>1 DEF sessions
<1> HIDE DEF row
<1>10. RowsSound'
  BY <1>2, <1>5, <1>6, <1>9 DEF RowsSound, IInv, TypeOK
<1>11. \A b \in Branches : branch'[b].status # "absent" => branch'[b].session \in Sessions
  BY <1>2, <1>5, <1>6 DEF IInv, TypeOK
<1>12. SessionsGrow /\ EnvMoves /\ Counted
  BY <1>1, SameSessions, SameEnv, SameCommits DEF IInv
<1>13. /\ request' \in [Requests -> RequestRow]
       /\ \A r \in Requests :
            /\ request'[r].status # "absent" => request'[r].branch \in Branches
            /\ request'[r].status \in {"ReadyToCommit", "Committed"} => request'[r].staging \in Sessions
  BY <1>9 DEF IInv, TypeOK
<1>14. QED
  BY <1>1, <1>5, <1>7, <1>8, <1>10, <1>11, <1>12, <1>13, CallerStep, NoJobType
     DEF Return, Places, Creating

\* mark_executing and complete_branch check the status before they write.
LEMMA SetStatusSound ==
    ASSUME IInv, NEW c \in Callers, NEW b \in Branches, NEW goal \in Statuses, SetStatus(c, b, goal)
    PROVE  IInv'
<1> DEFINE new == [NoJob EXCEPT !.branch = b, !.goal = goal]
<1>1. /\ goal \in {"Active", "Completed"} /\ Goto(c, "write", new)
      /\ branch[b].status # "absent"
      /\ UNCHANGED <<tables, sessions, env, commits>>
  BY DEF SetStatus, ValidTransition
<1>2. new \in Job /\ new.branch = b /\ new.goal = goal /\ new.then = "idle" /\ new.todo = {}
  BY NoJobType DEF Job, NoJob
<1> HIDE DEF new
<1>3. Sound("write", new, branch, session', commits')
  BY <1>1, <1>2 DEF Sound, Creating, Working
<1>4. QED
  BY <1>1, <1>2, <1>3, QuietStep, SameSessions, SameEnv, SameCommits DEF IInv, Places, Creating

\* The status that is read is checked before anything is written.
LEMMA ReadStatusSound ==
    ASSUME IInv, NEW c \in Callers, ReadStatus(c) PROVE IInv'
<1>1. /\ pc[c] = "read" /\ Goto(c, "write", job[c])
      /\ UNCHANGED <<tables, sessions, env, commits>>
  BY DEF ReadStatus, At
<1>2. session' = session /\ commits' = commits
  BY <1>1 DEF sessions
<1>3. Sound("write", job[c], branch, session', commits')
  BY <1>1, <1>2, Mine DEF Sound, Creating, Working
<1>4. QED
  BY <1>1, <1>3, Mine, QuietStep, SameSessions, SameEnv, SameCommits DEF IInv, Places, Creating

\* A status is written that was earned, in a row that stays where it is.
LEMMA WriteStatusSound ==
    ASSUME IInv, NEW c \in Callers, WriteStatus(c) PROVE IInv'
<1> DEFINE j == job[c]
<1>1. /\ pc[c] = "write" /\ branch' = [branch EXCEPT ![j.branch].status = j.goal]
      /\ Goto(c, j.then, j) /\ UNCHANGED <<request, sessions, env, commits>>
  BY DEF WriteStatus, At, PutStatus
<1>2. Sound("write", j, branch, session, commits)
  BY <1>1, Mine
<1>3. /\ j \in Job /\ j.branch \in Branches /\ branch[j.branch].status # "absent"
      /\ j.goal \in Statuses /\ j.then \in {"idle", "finish", "recover"}
  BY <1>2, Mine DEF Sound, Working, Job
<1>4. "absent" \notin Statuses
  BY DEF Statuses, Listed, Open
<1>5. branch \in [Branches -> BranchRow]
  BY DEF IInv, TypeOK
<1>6. /\ branch' \in [Branches -> BranchRow]
      /\ branch'[j.branch].status = j.goal
      /\ branch'[j.branch].session = branch[j.branch].session
      /\ \A b \in Branches : b # j.branch => branch'[b] = branch[b]
  BY <1>1, <1>3, <1>5 DEF BranchRow
<1>7. RowsStay
  BY <1>3, <1>4, <1>6 DEF RowsStay
<1>8. NewRowsOutside(Callers \ {c})
  BY <1>3, <1>6, Mine DEF NewRowsOutside, Sound
<1>9. session' = session /\ commits' = commits /\ request' = request
  BY <1>1 DEF sessions
<1>10. RowsSound'
  <2>1. ASSUME NEW b \in Branches
        PROVE  /\ branch'[b].status # "absent" => session'[branch'[b].session].state # "free"
               /\ branch'[b].status = "Failed" => session'[branch'[b].session].state = "closed"
               /\ branch'[b].status = "Merged" => commits'[b] > 0
    BY <1>2, <1>3, <1>6, <1>9 DEF Sound, RowsSound, IInv
  <2>2. \A r \in Requests : request'[r].status # "absent" => branch'[request'[r].branch].status # "absent"
    BY <1>7, <1>9 DEF RowsSound, RowsStay, IInv, TypeOK
  <2>3. QED
    BY <2>1, <2>2 DEF RowsSound
<1>11. \A b \in Branches : branch'[b].status # "absent" => branch'[b].session \in Sessions
  BY <1>3, <1>6 DEF IInv, TypeOK
<1>12. SessionsGrow /\ EnvMoves /\ Counted
  BY <1>1, SameSessions, SameEnv, SameCommits DEF IInv
<1>13. /\ request' \in [Requests -> RequestRow]
       /\ \A r \in Requests :
            /\ request'[r].status # "absent" => request'[r].branch \in Branches
            /\ request'[r].status \in {"ReadyToCommit", "Committed"} => request'[r].staging \in Sessions
  BY <1>9 DEF IInv, TypeOK
<1>14. j.then # "idle" => Sound(j.then, j, branch', session', commits')
  <2>1. \A row \in j.todo : branch'[row.id].status # "absent"
    BY <1>2, <1>7, Mine DEF Sound, RowsStay
  <2>2. branch'[j.branch].status # "absent"
    BY <1>3, <1>7 DEF RowsStay
  <2>3. QED
    BY <1>2, <1>3, <2>1, <2>2 DEF Sound, Creating, Working
<1>15. j.then \in Places /\ j.then \notin Creating
  BY <1>3 DEF Places, Creating
<1>16. QED
  BY <1>1, <1>3, <1>6, <1>7, <1>8, <1>10, <1>11, <1>12, <1>13, <1>14, <1>15, CallerStep

\* After a status that was not written a staging session is rolled back, a
\* recovery goes on, any other operation ends.
LEMMA StatusFailedSound ==
    ASSUME IInv, NEW c \in Callers, pc[c] \in {"read", "write"}, StatusFailed(c),
           UNCHANGED <<tables, commits>>, EnvMoves
    PROVE  IInv'
<1>1. CASE job[c].goal = "Merging"
  BY <1>1, CloseGrows, SameCommits, QuietReturn DEF StatusFailed, IInv
<1>2. CASE job[c].goal # "Merging"
  <2>1. SessionsGrow /\ Counted
    BY <1>2, SameSessions, SameCommits DEF StatusFailed, IInv
  <2>2. CASE job[c].then = "recover"
    <3>1. Goto(c, "recover", job[c])
      BY <1>2, <2>2 DEF StatusFailed
    <3>2. session' = session /\ commits' = commits
      BY <1>2 DEF StatusFailed, sessions
    <3>3. Sound("recover", job[c], branch, session', commits')
      BY <2>2, <3>2, Mine DEF Sound, Creating, Working
    <3>4. QED
      BY <2>1, <3>1, <3>3, Mine, QuietStep DEF Places, Creating
  <2>3. CASE job[c].then # "recover"
    BY <1>2, <2>1, <2>3, QuietReturn DEF StatusFailed
  <2>4. QED
    BY <2>2, <2>3
<1>3. QED
  BY <1>1, <1>2

\* A transition that is not allowed writes nothing.
LEMMA InvalidStatusSound ==
    ASSUME IInv, NEW c \in Callers, InvalidStatus(c) PROVE IInv'
BY StatusFailedSound, SameEnv DEF InvalidStatus, At, IInv

\* The session of a branch is over before the branch is said to have failed.
LEMMA AbortBranchSound ==
    ASSUME IInv, NEW c \in Callers, NEW b \in Branches, AbortBranch(c, b) PROVE IInv'
<1> DEFINE new == [NoJob EXCEPT !.branch = b, !.goal = "Failed"]
<1>1. /\ Known(b) /\ Close(branch[b].session) /\ Goto(c, "read", new)
      /\ UNCHANGED <<tables, env, commits>>
  BY DEF AbortBranch
<1>2. branch[b].status # "absent" /\ branch[b].session \in Sessions
  BY <1>1, KnownRow DEF IInv
<1>3. session[branch[b].session].state # "free"
  BY <1>2 DEF IInv, RowsSound
<1>4. SessionsGrow /\ session'[branch[b].session].state = "closed"
  BY <1>1, <1>2, <1>3, CloseGrows DEF IInv
<1>5. new \in Job /\ new.branch = b /\ new.goal = "Failed" /\ new.then = "idle" /\ new.todo = {}
  BY NoJobType DEF Job, NoJob, Statuses
<1> HIDE DEF new
<1>6. Sound("read", new, branch, session', commits')
  BY <1>2, <1>4, <1>5 DEF Sound, Creating, Working
<1>7. QED
  BY <1>1, <1>4, <1>5, <1>6, QuietStep, SameEnv, SameCommits DEF IInv, Places, Creating

\* Steps that no caller's place or job changes with
LEMMA NobodyMoves ==
    ASSUME IInv, UNCHANGED <<tables, callers>>, SessionsGrow, EnvMoves, Counted
    PROVE  IInv'
<1>1. /\ branch' = branch /\ request' = request /\ pc' = pc /\ job' = job
  BY DEF tables, callers
<1>2. /\ RowsStay /\ RowsSound' /\ NewRowsOutside(Callers)
  BY SoundStays
<1>3. TypeOK'
  BY <1>1 DEF IInv, TypeOK, SessionsGrow, EnvMoves, Counted
<1>4. CallersSound'
  <2> SUFFICES ASSUME NEW d \in Callers
               PROVE  Sound(pc'[d], job'[d], branch', session', commits')
    BY DEF CallersSound
  <2>1. NewRowsOutside({d})
    BY <1>2 DEF NewRowsOutside
  <2>2. QED
    BY <1>1, <1>2, <2>1, OthersStaySound
<1>5. CreatorsApart'
  BY <1>1 DEF IInv, CreatorsApart
<1>6. QED
  BY <1>2, <1>3, <1>4, <1>5 DEF IInv

\* A rollback that fails in abort_branch: the session is gone, the row stays.
LEMMA AbortFailedSound ==
    ASSUME IInv, NEW c \in Callers, NEW b \in Branches, AbortFailed(c, b) PROVE IInv'
<1>1. SessionsGrow
  BY CloseGrows DEF AbortFailed, IInv
<1>2. EnvMoves /\ Counted
  BY FaultMoves, SameCommits DEF AbortFailed, IInv
<1>3. QED
  BY <1>1, <1>2, NobodyMoves DEF AbortFailed

\* An agent at work in a branch changes no table.
LEMMA AgentWorkSound ==
    ASSUME IInv, NEW b \in Branches, AgentWork(b) PROVE IInv'
<1>1. session' = session /\ stale' \subseteq Sessions
  BY DEF AgentWork, IInv, TypeOK
<1>2. SessionsGrow
  BY <1>1 DEF SessionsGrow, IInv, TypeOK
<1>3. EnvMoves /\ Counted
  BY SameEnv, SameCommits DEF AgentWork, IInv
<1>4. QED
  BY <1>2, <1>3, NobodyMoves DEF AgentWork

\* Nothing happens.
LEMMA StutterSound == ASSUME IInv, UNCHANGED vars PROVE IInv'
BY NobodyMoves, SameSessions, SameEnv, SameCommits DEF vars, IInv

-----------------------------------------------------------------------------
(* Merge requests *)

\* A step that writes the merge queue only
LEMMA RequestStep ==
    ASSUME IInv, NEW c \in Callers, NEW place \in Places, NEW new \in Job,
           Goto(c, place, new), UNCHANGED <<branch, sessions, env, commits>>,
           NEW r \in Requests, NEW row \in RequestRow,
           request' = [request EXCEPT ![r] = row],
           row.branch \in Branches /\ branch[row.branch].status # "absent",
           row.status \in {"ReadyToCommit", "Committed"} => row.staging \in Sessions,
           place \notin Creating,
           place # "idle" => Sound(place, new, branch, session, commits)
    PROVE  IInv'
<1>1. branch' = branch /\ session' = session /\ commits' = commits
  BY DEF sessions
<1>2. SessionsGrow /\ EnvMoves /\ Counted /\ RowsStay /\ NewRowsOutside(Callers \ {c})
  BY <1>1, SameSessions, SameEnv, SameCommits DEF IInv, RowsStay, NewRowsOutside
<1>3. request \in [Requests -> RequestRow]
  BY DEF IInv, TypeOK
<1>4. /\ request' \in [Requests -> RequestRow] /\ request'[r] = row
      /\ \A q \in Requests : q # r => request'[q] = request[q]
  BY <1>3
<1>5. \A q \in Requests :
        /\ request'[q].status # "absent" => request'[q].branch \in Branches
        /\ request'[q].status \in {"ReadyToCommit", "Committed"} => request'[q].staging \in Sessions
  BY <1>4 DEF IInv, TypeOK
<1>6. RowsSound'
  BY <1>1, <1>4 DEF IInv, RowsSound
<1>7. /\ branch' \in [Branches -> BranchRow]
      /\ \A b \in Branches : branch'[b].status # "absent" => branch'[b].session \in Sessions
  BY <1>1 DEF IInv, TypeOK
<1>8. QED
  BY <1>1, <1>2, <1>4, <1>5, <1>6, <1>7, CallerStep

\* request_merge enqueues a request of a completed branch.
LEMMA RequestMergeSound ==
    ASSUME IInv, NEW c \in Callers, NEW b \in Branches, NEW r \in Requests, NEW auto \in BOOLEAN,
           RequestMerge(c, b, r, auto)
    PROVE  IInv'
<1> DEFINE row == [status |-> "Pending", branch |-> b, staging |-> None]
           new == [NoJob EXCEPT !.branch = b, !.request = r]
           place == IF auto THEN "auto" ELSE "idle"
<1>1. /\ request' = [request EXCEPT ![r] = row] /\ Goto(c, place, new)
      /\ branch[b].status = "Completed" /\ UNCHANGED <<branch, sessions, env, commits>>
  BY DEF RequestMerge, PutRequest
<1>2. new \in Job /\ new.then = "idle" /\ new.todo = {}
  BY NoJobType DEF Job, NoJob
<1>3. row \in RequestRow /\ row.branch = b /\ row.status = "Pending"
  BY DEF RequestRow
<1>4. place \in {"auto", "idle"} /\ place \in Places /\ place \notin Creating
  BY DEF Places, Creating
<1> HIDE DEF row, new, place
<1>5. place # "idle" => Sound(place, new, branch, session, commits)
  BY <1>2, <1>4 DEF Sound, Creating, Working
<1>6. QED
  BY <1>1, <1>2, <1>3, <1>4, <1>5, RequestStep

\* An approval changes the status of a pending request and nothing else.
LEMMA ApproveKeeps ==
    ASSUME IInv, NEW r \in Requests \cup {None}, Approve(r), UNCHANGED <<branch, sessions, commits>>
    PROVE  /\ request' \in [Requests -> RequestRow]
           /\ \A q \in Requests :
                /\ request'[q].status # "absent" => request'[q].branch \in Branches
                /\ request'[q].status \in {"ReadyToCommit", "Committed"} => request'[q].staging \in Sessions
           /\ RowsSound'
<1>1. branch' = branch /\ session' = session /\ commits' = commits
  BY DEF sessions
<1>2. request \in [Requests -> RequestRow]
  BY DEF IInv, TypeOK
<1>3. CASE request' = request
  BY <1>1, <1>3 DEF IInv, TypeOK, RowsSound
<1>4. CASE r \in Requests /\ request[r].status = "Pending"
  <2>1. request' = [request EXCEPT ![r].status = "Approved"]
    BY <1>4 DEF Approve
  <2>2. /\ request' \in [Requests -> RequestRow]
        /\ request'[r].status = "Approved" /\ request'[r].branch = request[r].branch
        /\ \A q \in Requests : q # r => request'[q] = request[q]
    BY <1>2, <1>4, <2>1 DEF RequestRow
  <2>3. QED
    BY <1>1, <1>4, <2>2 DEF IInv, TypeOK, RowsSound
<1>5. CASE r \notin Requests
  <2>1. request' = request
    BY <1>2, <1>5 DEF Approve
  <2>2. QED
    BY <1>3, <2>1
<1>6. QED
  BY <1>3, <1>4, <1>5 DEF Approve

\* A request that needs no approval is approved where it is made.
LEMMA AutoApproveSound ==
    ASSUME IInv, NEW c \in Callers, AutoApprove(c) PROVE IInv'
<1>1. /\ job[c].request \in Requests \cup {None} /\ Approve(job[c].request)
      /\ Return(c) /\ UNCHANGED <<branch, sessions, env, commits>>
  BY Mine DEF AutoApprove, Job
<1>2. branch' = branch
  BY <1>1
<1>3. /\ SessionsGrow /\ EnvMoves /\ Counted /\ RowsStay /\ NewRowsOutside(Callers \ {c})
      /\ branch' \in [Branches -> BranchRow]
      /\ \A b \in Branches : branch'[b].status # "absent" => branch'[b].session \in Sessions
  BY <1>1, <1>2, SameSessions, SameEnv, SameCommits DEF IInv, TypeOK, RowsStay, NewRowsOutside
<1>4. QED
  BY <1>1, <1>3, ApproveKeeps, CallerStep, NoJobType DEF Return, Places, Creating

\* approve_merge by somebody else.
LEMMA ApproveMergeSound ==
    ASSUME IInv, NEW c \in Callers, NEW r \in Requests, ApproveMerge(c, r) PROVE IInv'
<1>1. /\ Approve(r) /\ UNCHANGED <<branch, sessions, callers, env, commits>>
  BY DEF ApproveMerge
<1>2. /\ branch' = branch /\ session' = session /\ stale' = stale /\ pc' = pc /\ job' = job
      /\ mode' = mode /\ faults' = faults /\ commits' = commits
  BY <1>1 DEF sessions, callers, env
<1>3. QED
  BY <1>1, <1>2, ApproveKeeps DEF IInv, TypeOK, CallersSound, CreatorsApart

\* execute_merge opens a staging session.
LEMMA ExecuteMergeSound ==
    ASSUME IInv, NEW c \in Callers, NEW r \in Requests, NEW s \in Sessions, ExecuteMerge(c, r, s)
    PROVE  IInv'
<1> DEFINE b == request[r].branch
           new == [NoJob EXCEPT !.branch = b, !.request = r, !.session = s, !.goal = "Merging"]
<1>1. /\ StatusRead(r) = "Approved" /\ Begin(s, branch[branch[b].parent].session)
      /\ Goto(c, "collect", new) /\ UNCHANGED <<tables, env, commits>>
  BY DEF ExecuteMerge
<1>2. b \in Branches /\ branch[b].status # "absent"
  BY <1>1 DEF StatusRead, IInv, TypeOK, RowsSound
<1>3. SessionsGrow
  BY <1>1, BeginGrows DEF IInv
<1>4. /\ new \in Job /\ new.branch = b /\ new.request = r /\ new.session = s
      /\ new.goal = "Merging" /\ new.then = "idle" /\ new.todo = {}
  BY <1>2, NoJobType DEF Job, NoJob, Statuses, Listed
<1> HIDE DEF new, b
<1>5. Sound("collect", new, branch, session', commits')
  BY <1>2, <1>4 DEF Sound, Creating, Working
<1>6. QED
  BY <1>1, <1>3, <1>4, <1>5, QuietStep, SameEnv, SameCommits DEF IInv, Places, Creating

\* Reading the files of a branch changes no session.
LEMMA ScanMoves ==
    ASSUME TypeOK, NEW b, NEW found, Scan(b, found) PROVE EnvMoves
BY SameEnv, FaultMoves DEF Scan

\* collect_branch_changes may fail, and then closes the staging session.
LEMMA CollectChangesSound ==
    ASSUME IInv, NEW c \in Callers, CollectChanges(c) PROVE IInv'
<1>1. UNCHANGED <<tables, commits>> /\ EnvMoves /\ Counted
  BY ScanMoves, SameCommits DEF CollectChanges, IInv
<1>2. CASE Goto(c, "save", job[c]) /\ UNCHANGED sessions
  <2>1. session' = session /\ commits' = commits
    BY <1>1, <1>2 DEF sessions
  <2>2. Sound("save", job[c], branch, session', commits')
    BY <2>1, Mine DEF CollectChanges, At, Sound, Creating, Working
  <2>3. QED
    BY <1>1, <1>2, <2>2, Mine, QuietStep, SameSessions DEF IInv, Places, Creating
<1>3. CASE Close(job[c].session) /\ Return(c)
  BY <1>1, <1>3, CloseGrows, QuietReturn DEF IInv
<1>4. QED
  BY <1>2, <1>3 DEF CollectChanges

\* The staging session is saved with the request.
LEMMA SaveStagedSound ==
    ASSUME IInv, NEW c \in Callers, SaveStaged(c) PROVE IInv'
<1> DEFINE j == job[c]
           row == [status |-> "ReadyToCommit", branch |-> j.branch, staging |-> j.session]
<1>1. /\ pc[c] = "save" /\ request' = [request EXCEPT ![j.request] = row]
      /\ Goto(c, "read", j) /\ UNCHANGED <<branch, sessions, env, commits>>
  BY DEF SaveStaged, At, UpdateRequest, PutRequest
<1>2. Sound("save", j, branch, session, commits) /\ j \in Job
  BY <1>1, Mine
<1>3. /\ j.request \in Requests /\ j.branch \in Branches /\ j.session \in Sessions
      /\ branch[j.branch].status # "absent" /\ j.goal = "Merging"
  BY <1>2 DEF Sound, Working
<1>4. row \in RequestRow /\ row.branch = j.branch /\ row.staging = j.session
  BY <1>3 DEF RequestRow
<1>5. Sound("read", j, branch, session, commits)
  BY <1>2, <1>3 DEF Sound, Creating, Working
<1>6. row.status \in {"ReadyToCommit", "Committed"} => row.staging \in Sessions
  BY <1>3
<1> HIDE DEF row
<1>7. "read" \in Places /\ "read" \notin Creating
  BY DEF Places, Creating
<1>8. row.branch \in Branches /\ branch[row.branch].status # "absent"
  BY <1>3, <1>4
<1>9. QED
  BY <1>1, <1>2, <1>3, <1>4, <1>5, <1>6, <1>7, <1>8, RequestStep

\* commit_merge finds the request ready.
LEMMA CommitMergeSound ==
    ASSUME IInv, NEW c \in Callers, NEW r \in Requests, CommitMerge(c, r) PROVE IInv'
<1> DEFINE new == [NoJob EXCEPT !.branch = request[r].branch, !.request = r,
                                !.session = request[r].staging, !.goal = "Merged", !.then = "finish"]
<1>1. /\ StatusRead(r) = "ReadyToCommit" /\ Goto(c, "commit", new)
      /\ UNCHANGED <<tables, sessions, env, commits>>
  BY DEF CommitMerge
<1>2. /\ request[r].branch \in Branches /\ branch[request[r].branch].status # "absent"
      /\ request[r].staging \in Sessions
  BY <1>1 DEF StatusRead, IInv, TypeOK, RowsSound
<1>3. /\ new \in Job /\ new.branch = request[r].branch /\ new.request = r /\ new.todo = {}
      /\ new.session = request[r].staging /\ new.goal = "Merged" /\ new.then = "finish"
  BY <1>2, NoJobType DEF Job, NoJob, Statuses
<1> HIDE DEF new
<1>4. Sound("commit", new, branch, session', commits')
  BY <1>2, <1>3 DEF Sound, Creating, Working
<1>5. QED
  BY <1>1, <1>3, <1>4, QuietStep, SameSessions, SameEnv, SameCommits DEF IInv, Places, Creating

\* A commit counts for its branch.
LEMMA OneMoreCommit ==
    ASSUME TypeOK, NEW b \in Branches, commits' = [commits EXCEPT ![b] = @ + 1]
    PROVE  Counted /\ commits'[b] > 0
<1>1. commits \in [Branches -> Nat]
  BY DEF TypeOK
<1>2. commits[b] + 1 \in Nat /\ commits[b] + 1 > 0
  BY <1>1
<1>3. commits' \in [Branches -> Nat] /\ commits'[b] = commits[b] + 1
  BY <1>1, <1>2
<1>4. \A x \in Branches : commits[x] > 0 => commits'[x] > 0
  BY <1>1, <1>2
<1>5. QED
  BY <1>2, <1>3, <1>4 DEF Counted

\* The merge is counted before its branch is said to be merged.
LEMMA CommitStagingSound ==
    ASSUME IInv, NEW c \in Callers, CommitStaging(c) PROVE IInv'
<1> DEFINE j == job[c]
<1>1. /\ pc[c] = "commit" /\ Close(j.session) /\ commits' = [commits EXCEPT ![j.branch] = @ + 1]
      /\ Goto(c, "read", j) /\ UNCHANGED <<tables, env>>
  BY DEF CommitStaging, At
<1>2. Sound("commit", j, branch, session, commits) /\ j \in Job
  BY <1>1, Mine
<1>3. j.branch \in Branches
  BY <1>2 DEF Sound, Working
<1>4. SessionsGrow /\ EnvMoves /\ Counted /\ commits'[j.branch] > 0
  BY <1>1, <1>3, CloseGrows, SameEnv, OneMoreCommit DEF IInv
<1>5. Sound("read", j, branch, session', commits')
  BY <1>2, <1>4 DEF Sound, Creating, Working
<1>6. QED
  BY <1>1, <1>2, <1>4, <1>5, QuietStep DEF Places, Creating

\* A commit that fails has changed nothing, or all but a directory; no row is
\* written either way.
LEMMA CommitFailedSound ==
    ASSUME IInv, NEW c \in Callers, CommitFailed(c) PROVE IInv'
<1> DEFINE j == job[c]
<1>1. /\ pc[c] = "commit" /\ Return(c) /\ UNCHANGED tables
  BY DEF CommitFailed, At
<1>2. EnvMoves
  BY SameEnv, FaultMoves DEF CommitFailed, IInv
<1>3. CASE UNCHANGED <<sessions, commits>>
  BY <1>1, <1>2, <1>3, QuietReturn, SameSessions, SameCommits DEF IInv
<1>4. CASE Close(j.session) /\ commits' = [commits EXCEPT ![j.branch] = @ + 1]
  <2>1. j.branch \in Branches
    BY <1>1, Mine DEF Sound, Working
  <2>2. QED
    BY <1>1, <1>2, <1>4, <2>1, QuietReturn, CloseGrows, OneMoreCommit DEF IInv
<1>5. QED
  BY <1>3, <1>4 DEF CommitFailed

\* The request of a merge that was committed is marked so (mark_committed).
LEMMA FinishRequestSound ==
    ASSUME IInv, NEW c \in Callers, FinishRequest(c) PROVE IInv'
<1> DEFINE j == job[c]
           row == [status |-> "Committed", branch |-> j.branch, staging |-> j.session]
<1>1. /\ pc[c] = "finish" /\ request' = [request EXCEPT ![j.request] = row]
      /\ Goto(c, "idle", NoJob) /\ UNCHANGED <<branch, sessions, env, commits>>
  BY DEF FinishRequest, At, UpdateRequest, PutRequest, Return
<1>2. /\ j.request \in Requests /\ j.branch \in Branches /\ j.session \in Sessions
      /\ branch[j.branch].status # "absent"
  BY <1>1, Mine DEF Sound, Working
<1>3. row \in RequestRow /\ row.branch = j.branch /\ row.staging = j.session
  BY <1>2 DEF RequestRow
<1> HIDE DEF row
<1>4. QED
  BY <1>1, <1>2, <1>3, RequestStep, NoJobType DEF Places, Creating

-----------------------------------------------------------------------------
(* Recovery, faults *)

\* A recovery lists the active branches.
LEMMA RecoverSound ==
    ASSUME IInv, NEW c \in Callers, Recover(c) PROVE IInv'
<1> DEFINE rows == {[id |-> b, status |-> branch[b].status] : b \in ListActive}
           new == [NoJob EXCEPT !.then = "recover", !.todo = rows]
<1>1. Goto(c, "recover", new) /\ UNCHANGED <<tables, sessions, env, commits>>
  BY DEF Recover
<1>2. \A row \in rows : row \in [id : Branches, status : Listed] /\ branch[row.id].status # "absent"
  BY DEF ListActive, Listed, Open
<1> HIDE DEF rows
<1>3. new \in Job /\ new.then = "recover" /\ new.todo = rows
  BY <1>2, NoJobType DEF Job, NoJob
<1> HIDE DEF new
<1>4. Sound("recover", new, branch, session', commits')
  BY <1>2, <1>3 DEF Sound, Creating, Working
<1>5. QED
  BY <1>1, <1>3, <1>4, QuietStep, SameSessions, SameEnv, SameCommits DEF IInv, Places, Creating

\* A branch is failed by recovery only when its session is over.
LEMMA RecoverBranchSound ==
    ASSUME IInv, NEW c \in Callers, NEW row \in job[c].todo, RecoverBranch(c, row) PROVE IInv'
<1> DEFINE j == job[c]
           rest == [j EXCEPT !.todo = @ \ {row}, !.branch = row.id]
           failed == [rest EXCEPT !.goal = "Failed"]
           pending == [rest EXCEPT !.goal = "Pending"]
<1>1. pc[c] = "recover" /\ UNCHANGED <<tables, sessions, env, commits>>
  BY DEF RecoverBranch, At
<1>2. SessionsGrow /\ EnvMoves /\ Counted /\ session' = session /\ commits' = commits
  BY <1>1, SameSessions, SameEnv, SameCommits DEF IInv, sessions
<1>3. Sound("recover", j, branch, session, commits) /\ j \in Job /\ row.id \in Branches
  BY <1>1, Mine
<1>4. branch[row.id].status # "absent" /\ \A x \in j.todo : branch[x.id].status # "absent"
  BY <1>3 DEF Sound
<1>5. branch[row.id].session \in Sessions /\ session[branch[row.id].session].state # "free"
  BY <1>3, <1>4 DEF IInv, TypeOK, RowsSound
<1>6. /\ rest \in Job /\ rest.branch = row.id /\ rest.request = j.request /\ rest.session = j.session
      /\ rest.then = j.then /\ rest.todo \subseteq j.todo
  BY <1>3 DEF Job
<1>7. /\ failed \in Job /\ failed.branch = row.id /\ failed.request = j.request
      /\ failed.session = j.session /\ failed.then = j.then /\ failed.todo = rest.todo
      /\ failed.goal = "Failed"
  BY <1>3, <1>6 DEF Job, Statuses
<1>8. /\ pending \in Job /\ pending.branch = row.id /\ pending.request = j.request
      /\ pending.session = j.session /\ pending.then = j.then /\ pending.todo = rest.todo
      /\ pending.goal = "Pending"
  BY <1>3, <1>6 DEF Job, Statuses, Listed, Open
<1>9. CASE ~IsOpen(branch[row.id].session)
  <2>1. Goto(c, "read", failed)
    BY <1>9 DEF RecoverBranch
  <2>2. session[branch[row.id].session].state = "closed"
    BY <1>5, <1>9 DEF IsOpen, IInv, TypeOK, SessionState
  <2> HIDE DEF rest, failed, pending
  <2>3. Sound("read", failed, branch, session', commits')
    BY <1>2, <1>3, <1>4, <1>6, <1>7, <2>2 DEF Sound, Creating, Working
  <2>4. QED
    BY <1>1, <1>2, <1>7, <2>1, <2>3, QuietStep DEF Places, Creating
<1>10. CASE IsOpen(branch[row.id].session) /\ row.status = "Active"
  <2>1. Goto(c, "write", pending)
    BY <1>10 DEF RecoverBranch
  <2> HIDE DEF rest, failed, pending
  <2>2. Sound("write", pending, branch, session', commits')
    BY <1>2, <1>3, <1>4, <1>6, <1>8 DEF Sound, Creating, Working
  <2>3. QED
    BY <1>1, <1>2, <1>8, <2>1, <2>2, QuietStep DEF Places, Creating
<1>11. CASE IsOpen(branch[row.id].session) /\ row.status # "Active"
  <2>1. Goto(c, "recover", rest)
    BY <1>11 DEF RecoverBranch
  <2> HIDE DEF rest, failed, pending
  <2>2. Sound("recover", rest, branch, session', commits')
    BY <1>2, <1>3, <1>4, <1>6 DEF Sound, Creating, Working
  <2>3. QED
    BY <1>1, <1>2, <1>6, <2>1, <2>2, QuietStep DEF Places, Creating
<1>12. QED
  BY <1>9, <1>10, <1>11

\* A recovery ends.
LEMMA RecoverDoneSound ==
    ASSUME IInv, NEW c \in Callers, RecoverDone(c) PROVE IInv'
BY QuietReturn, SameSessions, SameEnv, SameCommits DEF RecoverDone, IInv

\* A statement fails: what was done before it stays.
LEMMA StatementFailsSound ==
    ASSUME IInv, NEW c \in Callers, StatementFails(c) PROVE IInv'
<1>1. EnvMoves /\ Counted /\ UNCHANGED <<tables, commits>>
  BY FaultMoves, SameCommits DEF StatementFails, IInv
<1>2. CASE Return(c) /\ UNCHANGED sessions
  BY <1>1, <1>2, QuietReturn, SameSessions DEF IInv
<1>3. CASE pc[c] \in {"read", "write"} /\ StatusFailed(c)
  BY <1>1, <1>3, StatusFailedSound
<1>4. CASE Close(job[c].session) /\ Return(c)
  BY <1>1, <1>4, QuietReturn, CloseGrows DEF IInv
<1>5. QED
  BY <1>2, <1>3, <1>4 DEF StatementFails, At

\* An instance traps: the tables and the sessions stay for the next one.
LEMMA CrashSound ==
    ASSUME IInv, NEW c \in Callers, Crash(c) PROVE IInv'
<1>1. Goto(c, "new", NoJob) /\ UNCHANGED <<tables, sessions, commits>>
  BY DEF Crash
<1>2. SessionsGrow /\ EnvMoves /\ Counted
  BY <1>1, SameSessions, FaultMoves, SameCommits DEF Crash, IInv
<1>3. Sound("new", NoJob, branch, session', commits')
  BY DEF Sound, Creating, Working, NoJob
<1>4. QED
  BY <1>1, <1>2, <1>3, NoJobType, QuietStep DEF Places, Creating

\* Every session is over, every caller anew.
LEMMA RestartSound ==
    ASSUME IInv, Restart PROVE IInv'
<1>1. /\ pc' = [c \in Callers |-> "new"] /\ job' = [c \in Callers |-> NoJob]
      /\ stale' = {} /\ UNCHANGED <<tables, commits>>
  BY DEF Restart
<1>2. SessionsGrow
  <2>1. session' = [s \in Sessions |-> IF IsOpen(s) THEN [session[s] EXCEPT !.state = "closed"]
                                       ELSE session[s]]
    BY DEF Restart
  <2>2. \A s \in Sessions : session[s] \in SessionState
    BY DEF IInv, TypeOK
  <2>3. ASSUME NEW s \in Sessions
        PROVE  /\ session'[s] \in SessionState
               /\ session[s].state # "free" => session'[s].state # "free"
               /\ session[s].state = "closed" => session'[s].state = "closed"
    BY <2>1, <2>2 DEF SessionState
  <2>4. QED
    BY <1>1, <2>1, <2>3 DEF SessionsGrow
<1>3. EnvMoves /\ Counted
  BY <1>1, FaultMoves, SameCommits DEF Restart, IInv
<1>4. RowsSound' /\ branch' = branch /\ request' = request
  BY <1>1, <1>2, <1>3, SoundStays DEF tables
<1>5. TypeOK'
  BY <1>1, <1>2, <1>3, <1>4, NoJobType DEF IInv, TypeOK, SessionsGrow, EnvMoves, Counted, Places
<1>6. CallersSound' /\ CreatorsApart'
  BY <1>1 DEF CallersSound, CreatorsApart, Sound, Creating, Working, NoJob
<1>7. QED
  BY <1>4, <1>5, <1>6 DEF IInv

-----------------------------------------------------------------------------
(* The theorems *)

\* Every step keeps the invariant.
LEMMA IInvNext == ASSUME IInv, [Next]_vars PROVE IInv'
<1>1. ASSUME NEW c \in Callers, Lifecycle(c) PROVE IInv'
  BY <1>1, CreateBranchSound, BeginSessionSound, BeginFailedSound, InsertBranchSound,
     AbortBranchSound, AbortFailedSound, SetStatusSound, ReadStatusSound, WriteStatusSound,
     InvalidStatusSound, RecoverSound, RecoverDoneSound, RecoverBranchSound DEF Lifecycle
<1>2. ASSUME NEW c \in Callers, Merging(c) PROVE IInv'
  BY <1>2, RequestMergeSound, AutoApproveSound, ApproveMergeSound, CommitMergeSound,
     ExecuteMergeSound, CollectChangesSound, SaveStagedSound, CommitStagingSound,
     CommitFailedSound, FinishRequestSound DEF Merging
<1>3. QED
  BY <1>1, <1>2, StatementFailsSound, CrashSound, AgentWorkSound, RestartSound, StutterSound DEF Next

\* The invariant of any number of instances.
LEMMA IInvAlways == Spec => []IInv
<1>1. IInv /\ [Next]_vars => IInv'
  BY IInvNext
<1>2. QED
  BY IInvInit, <1>1, PTL DEF Spec

\* Rows, queue, sessions and callers keep their types over every error, crash
\* and restart, and the directory of a branch and the staging session of a
\* request that may be committed are always there to read.
THEOREM TypeCorrect == Spec => []TypeOK
<1>1. IInv => TypeOK
  BY DEF IInv
<1>2. QED
  BY IInvAlways, <1>1, PTL

\* A failed branch has no live session (abort_branch, recover_branches).
THEOREM FailedBranchesAreOver == Spec => []FailedHasNoSession
<1>1. IInv => FailedHasNoSession
  BY DEF IInv, RowsSound, FailedHasNoSession, IsOpen
<1>2. QED
  BY IInvAlways, <1>1, PTL

\* Of a branch that says it is merged a staging session was committed
\* (commit_merge), however many instances work on it.
THEOREM MergedBranchesWereCommitted == Spec => []MergedWasCommitted
<1>1. IInv => MergedWasCommitted
  BY DEF IInv, RowsSound, MergedWasCommitted
<1>2. QED
  BY IInvAlways, <1>1, PTL

-----------------------------------------------------------------------------
(* One instance.  Its operations take turns but where execute_merge        *)
(* awaits, so what an operation has read holds until it is over.           *)

Busy == Places \ {"idle", "new", "collect"}

OneAtATime == \A c, d \in Callers : pc[c] \in Busy /\ pc[d] \in Busy => c = d

\* A merge is being staged until its branch says it is merging, and is of a
\* request that can be committed once that is saved.
Staging(place, j) == place \in {"collect", "save"} \/ (place \in {"read", "write"} /\ j.goal = "Merging")
Saved(place, j) == place = "commit" \/ (place \in {"read", "write"} /\ j.goal = "Merging")
OfRequest(place, j) ==
    Staging(place, j) \/ place \in {"commit", "finish"} \/ (place \in {"read", "write"} /\ j.then = "finish")

\* What a caller has read, of branches br, requests re and sessions se
Reads(place, j, br, re, se) ==
    /\ Staging(place, j) =>
          j.session \in Sessions /\ se[j.session].state # "free" /\ j.then = "idle"
    /\ OfRequest(place, j) =>
          j.request \in Requests /\ re[j.request].status # "absent" /\ re[j.request].branch = j.branch
    /\ Saved(place, j) => re[j.request].status = "ReadyToCommit" /\ re[j.request].staging = j.session
    /\ place = "write" => \/ ValidTransition(br[j.branch].status, j.goal)
                          \/ br[j.branch].status = "Active" /\ j.goal = "Pending"
    /\ place = "finish" => br[j.branch].status = "Merged"
    /\ place \in {"read", "write"} /\ j.then = "finish" => j.goal = "Merged"

ReadsHold == \A c \in Callers : Reads(pc[c], job[c], branch, request, session)

\* Room for the branch that is being created
OpenBranches == {b \in Branches : branch[b].status \in Open}
Room ==
    /\ IsFiniteSet(ListActive)
    /\ Cardinality(OpenBranches) <= MaxBranches
    /\ \A c \in Callers : pc[c] \in Creating => ActiveCount < MaxBranches

\* An open staging session is of one request and one caller.
Staged(r) == request[r].status = "ReadyToCommit" /\ IsOpen(request[r].staging)
Held(s) == \E c \in Callers : Staging(pc[c], job[c]) /\ job[c].session = s
StagesApart ==
    /\ \A r \in Requests :
          request[r].status = "ReadyToCommit" => session[request[r].staging].state # "free"
    /\ \A q, r \in Requests :
          Staged(q) /\ Staged(r) /\ request[q].staging = request[r].staging => q = r
    /\ \A c, d \in Callers :
          /\ Staging(pc[c], job[c]) /\ Staging(pc[d], job[d])
          /\ job[c].session = job[d].session
          => c = d
    /\ \A c \in Callers, r \in Requests :
          Staging(pc[c], job[c]) /\ Staged(r) /\ request[r].staging = job[c].session
          => Saved(pc[c], job[c]) /\ job[c].request = r

\* A branch has one merge that is ready at most, and none once it has been
\* committed: it has left the statuses from which a merge is executed.
Over == {"Merging", "Merged", "Failed"}
Ready(r) == Staged(r) /\ ~Held(request[r].staging)
MergesOnce ==
    /\ \A q, r \in Requests : Ready(q) /\ Ready(r) /\ request[q].branch = request[r].branch => q = r
    /\ \A r \in Requests : Ready(r) =>
          commits[request[r].branch] = 0 /\ branch[request[r].branch].status \in Over
    /\ \A b \in Branches : commits[b] <= 1 /\ (commits[b] > 0 => branch[b].status \in Over)

MergesSaved ==
    \A b \in Branches : branch[b].status = "Merging" =>
        \E r \in Requests : request[r].branch = b /\ request[r].status = "ReadyToCommit"

\* Recovery: what it has left to do is as it was listed, and every branch it
\* has to settle is on its list or in its hands.
Unsettled(b, br, se) ==
    \/ br[b].status = "Active"
    \/ br[b].status \in Listed /\ se[br[b].session].state # "open"

Rescues(place, j, br, se) ==
    /\ place = "recover" => j.then = "recover"
    /\ j.then = "recover" =>
          /\ place \in {"recover", "read", "write"}
          /\ \A row \in j.todo : br[row.id].status = row.status
          /\ place \in {"read", "write"} =>
                /\ br[j.branch].status \in Listed
                /\ \A row \in j.todo : row.id # j.branch
                /\ j.goal \in {"Failed", "Pending"}
                /\ j.goal = "Pending" => place = "write" /\ se[br[j.branch].session].state = "open"

Covers(place, j, br, se) ==
    j.then = "recover" =>
       \A b \in Branches : Unsettled(b, br, se) =>
           (\E row \in j.todo : row.id = b) \/ (place \in {"read", "write"} /\ b = j.branch)

Rescued ==
    \A c \in Callers :
       /\ Rescues(pc[c], job[c], branch, session)
       /\ "sql" \notin faults => Covers(pc[c], job[c], branch, session)

Alone == /\ OneAtATime /\ ReadsHold /\ Rescued /\ Room
         /\ StagesApart /\ MergesOnce /\ MergesSaved
OneInv == mode = "one" => Alone

-----------------------------------------------------------------------------
(* What a step of one caller, while the others are idle, new or awaiting,  *)
(* may do                                                                  *)

\* Only c moves.
Moves(c) == \A d \in Callers \ {c} : pc'[d] = pc[d] /\ job'[d] = job[d]

RequestsStay ==
    \A r \in Requests : request[r].status # "absent" =>
        request'[r].status # "absent" /\ request'[r].branch = request[r].branch

\* A caller that goes on leaves the others where they are, and is idle with no job.
LEMMA GotoMoves ==
    ASSUME IInv, NEW c \in Callers, NEW place, NEW new, Goto(c, place, new)
    PROVE  /\ Moves(c) /\ pc'[c] = place
           /\ job'[c] = IF place = "idle" THEN NoJob ELSE new
BY DEF Goto, Moves, IInv, TypeOK

\* A caller that does nothing has read nothing.
LEMMA IdleReads ==
    ASSUME NEW br, NEW re, NEW se, NEW place \in {"idle", "new"}, NEW j
    PROVE  Reads(place, j, br, re, se) /\ ~Staging(place, j) /\ place \notin Creating
BY DEF Reads, Staging, Saved, OfRequest, Creating

\* While one caller runs, the others await, and have read what is still so.
LEMMA Awaits ==
    ASSUME IInv, Alone, mode = "one", NEW c \in Callers, MayRun(c), NEW d \in Callers \ {c}
    PROVE  /\ pc[d] \in {"idle", "new", "collect"} /\ pc[d] \notin Creating
           /\ job[d].then # "recover"
           /\ Reads(pc[d], job[d], branch, request, session)
           /\ pc[d] = "collect" => job[d].request \in Requests /\ job[d].session \in Sessions
<1>1. pc[d] \in {"idle", "new", "collect"}
  BY DEF MayRun
<1>2. Rescues(pc[d], job[d], branch, session) /\ Reads(pc[d], job[d], branch, request, session)
  BY DEF Alone, Rescued, ReadsHold
<1>3. Sound(pc[d], job[d], branch, session, commits)
  BY Mine
<1>4. QED
  BY <1>1, <1>2, <1>3 DEF Rescues, Sound, Creating

\* A step of the caller that runs keeps what the others have read.
LEMMA TakesTurns ==
    ASSUME IInv, Alone, mode = "one", NEW c \in Callers, MayRun(c), Moves(c),
           SessionsGrow, RequestsStay,
           Reads(pc'[c], job'[c], branch', request', session'),
           Rescues(pc'[c], job'[c], branch', session'),
           "sql" \notin faults' => Covers(pc'[c], job'[c], branch', session')
    PROVE  (OneAtATime /\ ReadsHold /\ Rescued)'
<1>1. ASSUME NEW d \in Callers \ {c}
      PROVE  /\ pc'[d] \notin Busy
             /\ Reads(pc'[d], job'[d], branch', request', session')
             /\ Rescues(pc'[d], job'[d], branch', session')
             /\ Covers(pc'[d], job'[d], branch', session')
  <2>1. pc'[d] = pc[d] /\ job'[d] = job[d]
    BY DEF Moves
  <2>2. pc[d] \in {"idle", "new", "collect"} /\ job[d].then # "recover"
    BY Awaits
  <2>3. pc[d] \notin Busy
    BY <2>2 DEF Busy
  <2>4. Reads(pc[d], job[d], branch', request', session')
    <3>1. CASE pc[d] # "collect"
      BY <2>2, <3>1, IdleReads
    <3>2. CASE pc[d] = "collect"
      <4>1. /\ Reads("collect", job[d], branch, request, session)
            /\ job[d].request \in Requests /\ job[d].session \in Sessions
        BY <3>2, Awaits
      <4>2. QED
        BY <3>2, <4>1 DEF Reads, Staging, Saved, OfRequest, SessionsGrow, RequestsStay
    <3>3. QED
      BY <3>1, <3>2
  <2>5. QED
    BY <2>1, <2>2, <2>3, <2>4 DEF Rescues, Covers
<1>2. OneAtATime'
  BY <1>1 DEF OneAtATime
<1>3. ReadsHold'
  BY <1>1 DEF ReadsHold
<1>4. Rescued'
  BY <1>1 DEF Rescued
<1>5. QED
  BY <1>2, <1>3, <1>4

\* A step that opens no session but a free one, and lets go of a staging
\* session only when that is over
Stages(c) ==
    /\ \A r \in Requests : request'[r].status = "ReadyToCommit" => request'[r] = request[r]
    /\ \A s \in Sessions : session'[s].state = "open" => session[s].state \in {"open", "free"}
    /\ Staging(pc'[c], job'[c]) =>
          \/ session[job'[c].session].state = "free" /\ ~Staging(pc[c], job[c])
          \/ /\ Staging(pc[c], job[c])
             /\ job'[c].session = job[c].session /\ job'[c].request = job[c].request
             /\ Saved(pc[c], job[c]) => Saved(pc'[c], job'[c])
    /\ Staging(pc[c], job[c]) /\ ~Staging(pc'[c], job'[c]) =>
          session'[job[c].session].state # "open"

\* A step that opens no session but a free one, and makes no request ready, keeps
\* staging sessions apart.
LEMMA StagesLess ==
    ASSUME IInv, Alone, NEW c \in Callers, Moves(c), SessionsGrow, Stages(c)
    PROVE  /\ StagesApart'
           /\ \A r \in Requests : Ready(r)' => Ready(r) /\ request'[r] = request[r]
<1>1. ASSUME NEW r \in Requests, Staged(r)'
      PROVE  Staged(r) /\ request'[r] = request[r]
  BY <1>1 DEF Staged, Stages, IsOpen, Alone, StagesApart
<1>2. ASSUME NEW d \in Callers, Staging(pc'[d], job'[d])
      PROVE  \/ /\ d = c /\ ~Staging(pc[c], job[c])
                /\ session[job'[c].session].state = "free"
             \/ /\ Staging(pc[d], job[d])
                /\ job'[d].session = job[d].session /\ job'[d].request = job[d].request
                /\ Saved(pc[d], job[d]) => Saved(pc'[d], job'[d])
  BY <1>2 DEF Stages, Moves
<1>3. \A d \in Callers : Staging(pc[d], job[d]) => session[job[d].session].state # "free"
  BY DEF Alone, ReadsHold, Reads
<1>4. \A r \in Requests : Staged(r) => session[request[r].staging].state = "open"
  BY DEF Staged, IsOpen
<1>5. \A r \in Requests :
        request'[r].status = "ReadyToCommit" => session'[request'[r].staging].state # "free"
  BY DEF Stages, Alone, StagesApart, SessionsGrow, IInv, TypeOK
<1>6. \A q, r \in Requests :
        Staged(q)' /\ Staged(r)' /\ request'[q].staging = request'[r].staging => q = r
  BY <1>1 DEF Alone, StagesApart
<1>7. \A d, e \in Callers :
        /\ Staging(pc'[d], job'[d]) /\ Staging(pc'[e], job'[e])
        /\ job'[d].session = job'[e].session
        => d = e
  BY <1>2, <1>3 DEF Alone, StagesApart
<1>8. \A d \in Callers, r \in Requests :
        Staging(pc'[d], job'[d]) /\ Staged(r)' /\ request'[r].staging = job'[d].session
        => Saved(pc'[d], job'[d]) /\ job'[d].request = r
  BY <1>1, <1>2, <1>4 DEF Alone, StagesApart
<1>9. StagesApart'
  BY <1>5, <1>6, <1>7, <1>8 DEF StagesApart
<1>10. ASSUME NEW r \in Requests, Ready(r)' PROVE Ready(r) /\ request'[r] = request[r]
  <2>1. Staged(r) /\ request'[r] = request[r] /\ session'[request[r].staging].state = "open"
    BY <1>1, <1>10 DEF Ready, Staged, IsOpen
  <2>2. ASSUME NEW d \in Callers, Staging(pc[d], job[d]), job[d].session = request[r].staging
        PROVE  FALSE
    <3>1. ~Staging(pc'[d], job'[d]) \/ job'[d].session # request[r].staging
      BY <1>10, <2>1 DEF Ready, Held
    <3>2. CASE d # c
      BY <2>2, <3>1, <3>2 DEF Moves
    <3>3. CASE d = c
      BY <2>1, <2>2, <3>1, <3>3 DEF Stages
    <3>4. QED
      BY <3>2, <3>3
  <2>3. QED
    BY <2>1, <2>2 DEF Ready, Held
<1>11. QED
  BY <1>9, <1>10

\* No new merge that is ready: a branch has one at most.
LEMMA MergesLess ==
    ASSUME IInv, Alone, NEW c \in Callers, Moves(c), SessionsGrow, Stages(c), UNCHANGED commits,
           \A b \in Branches : branch[b].status \in Over => branch'[b].status \in Over
    PROVE  (StagesApart /\ MergesOnce)'
<1>1. StagesApart' /\ \A r \in Requests : Ready(r)' => Ready(r) /\ request'[r] = request[r]
  BY StagesLess
<1>2. \A r \in Requests : Ready(r) => request[r].branch \in Branches
  BY DEF Ready, Staged, IInv, TypeOK
<1>3. MergesOnce'
  BY <1>1, <1>2 DEF MergesOnce, Alone
<1>4. QED
  BY <1>1, <1>3

\* No branch begins to merge: those that do have their request.
LEMMA MergesStaySaved ==
    ASSUME IInv, Alone,
           \A b \in Branches : branch'[b].status = "Merging" => branch[b].status = "Merging",
           \A r \in Requests : request[r].status = "ReadyToCommit" =>
              request'[r].status = "ReadyToCommit" /\ request'[r].branch = request[r].branch
    PROVE  MergesSaved'
BY DEF Alone, MergesSaved

\* No branch is opened: those to be worked on stay within the limit.
LEMMA RoomStays ==
    ASSUME IInv, Alone, mode = "one", NEW c \in Callers, MayRun(c), Moves(c),
           IsFiniteSet(ListActive)',
           \A b \in Branches : branch'[b].status \in Open => branch[b].status \in Open,
           pc'[c] \in Creating => branch' = branch /\ ActiveCount < MaxBranches
    PROVE  Room'
<1>1. OpenBranches \subseteq ListActive
  BY DEF OpenBranches, ListActive, Listed
<1>2. IsFiniteSet(OpenBranches) /\ OpenBranches' \subseteq OpenBranches
  BY <1>1, FS_Subset DEF Alone, Room, OpenBranches
<1>3. IsFiniteSet(OpenBranches') /\ Cardinality(OpenBranches') <= Cardinality(OpenBranches)
  BY <1>2, FS_Subset
<1>4. Cardinality(OpenBranches) \in Nat /\ Cardinality(OpenBranches') \in Nat /\ MaxBranches \in Nat
  BY <1>2, <1>3, FS_CardinalityType, BranchesAssumption
<1>5. Cardinality(OpenBranches)' <= MaxBranches
  BY <1>3, <1>4 DEF Alone, Room
<1>6. \A d \in Callers : pc'[d] \in Creating => ActiveCount' < MaxBranches
  <2>1. \A d \in Callers \ {c} : pc'[d] \notin Creating
    BY Awaits DEF Moves
  <2>2. pc'[c] \in Creating => ActiveCount' = ActiveCount
    BY DEF ActiveCount, ListActive
  <2>3. QED
    BY <2>1, <2>2
<1>7. QED
  BY <1>5, <1>6 DEF Room

\* The steps that leave the tables and the commits alone
LEMMA TablesStay ==
    ASSUME IInv, Alone, mode = "one", NEW c \in Callers, MayRun(c), Moves(c),
           UNCHANGED <<tables, commits>>, SessionsGrow, Stages(c),
           Reads(pc'[c], job'[c], branch, request, session'),
           Rescues(pc'[c], job'[c], branch, session'),
           "sql" \notin faults' => Covers(pc'[c], job'[c], branch, session'),
           pc'[c] \in Creating => ActiveCount < MaxBranches
    PROVE  Alone'
<1>1. branch' = branch /\ request' = request /\ commits' = commits
  BY DEF tables
<1>2. RequestsStay
  BY <1>1 DEF RequestsStay
<1>3. (OneAtATime /\ ReadsHold /\ Rescued)'
  BY <1>1, <1>2, TakesTurns
<1>4. (StagesApart /\ MergesOnce)'
  BY <1>1, MergesLess
<1>5. IsFiniteSet(ListActive)'
  BY <1>1 DEF Alone, Room, ListActive
<1>6. Room'
  BY <1>1, <1>5, RoomStays
<1>7. MergesSaved'
  BY <1>1, MergesStaySaved
<1>8. QED
  BY <1>3, <1>4, <1>6, <1>7 DEF Alone

-----------------------------------------------------------------------------
(* The steps of one instance, one by one *)

\* Sessions that nobody begins
Shut == \A s \in Sessions : session'[s].state = "open" => session[s].state = "open"

\* Closing opens no session.
LEMMA CloseShuts ==
    ASSUME TypeOK, NEW s, Close(s) \/ UNCHANGED sessions PROVE Shut
BY DEF Close, Shut, IsOpen, TypeOK, SessionState, sessions

\* The staging session of a caller that closes it is closed.
LEMMA StagingCloses ==
    ASSUME IInv, Alone, NEW c \in Callers, Staging(pc[c], job[c]), Close(job[c].session)
    PROVE  session'[job[c].session].state = "closed"
BY CloseGrows DEF IInv, Alone, ReadsHold, Reads

\* c returns, or was not staging a merge and does not begin to.
LEMMA StagesQuietly ==
    ASSUME IInv, Alone, NEW c \in Callers, Shut, UNCHANGED tables,
           ~Staging(pc'[c], job'[c]),
           Staging(pc[c], job[c]) => session'[job[c].session].state # "open"
    PROVE  Stages(c)
BY DEF Stages, Shut, tables

\* An operation that ends leaves the next one alone with the tables.
LEMMA Returns ==
    ASSUME IInv, Alone, mode = "one", NEW c \in Callers, MayRun(c), Return(c),
           UNCHANGED <<tables, commits>>, SessionsGrow, Shut,
           Staging(pc[c], job[c]) => session'[job[c].session].state # "open"
    PROVE  Alone'
<1>1. Moves(c) /\ pc'[c] = "idle" /\ job'[c] = NoJob /\ NoJob.then = "idle"
  BY GotoMoves DEF Return, NoJob
<1>2. ~Staging(pc'[c], job'[c]) /\ pc'[c] \notin Creating
  BY <1>1, IdleReads
<1>3. Stages(c)
  BY <1>2, StagesQuietly
<1>4. Reads(pc'[c], job'[c], branch, request, session')
  BY <1>1, IdleReads
<1>5. Rescues(pc'[c], job'[c], branch, session') /\ Covers(pc'[c], job'[c], branch, session')
  BY <1>1 DEF Rescues, Covers
<1>6. QED
  BY <1>1, <1>2, <1>3, <1>4, <1>5, TablesStay

\* c goes on with an operation other than a recovery, the sessions untouched.
LEMMA GoesOn ==
    ASSUME IInv, Alone, mode = "one", NEW c \in Callers, MayRun(c),
           NEW place \in Places \ {"idle", "recover"}, NEW new, Goto(c, place, new),
           UNCHANGED <<tables, sessions, commits>>,
           ~Staging(pc[c], job[c]), ~Staging(place, new), new.then # "recover",
           Reads(place, new, branch, request, session),
           place \in Creating => ActiveCount < MaxBranches
    PROVE  Alone'
<1>1. Moves(c) /\ pc'[c] = place /\ job'[c] = new
  BY GotoMoves
<1>2. session' = session /\ SessionsGrow /\ Shut
  BY SameSessions DEF sessions, Shut, IInv
<1>3. Stages(c)
  BY <1>1, <1>2, StagesQuietly
<1>4. Rescues(place, new, branch, session') /\ Covers(place, new, branch, session')
  BY DEF Rescues, Covers
<1>5. QED
  BY <1>1, <1>2, <1>3, <1>4, TablesStay

\* No staging session is in use where an operation starts or is elsewhere.
LEMMA StartsIdle ==
    ASSUME IInv, Alone, NEW c \in Callers, Start(c) \/ pc[c] \in {"begin", "insert", "auto", "commit", "finish", "recover"}
    PROVE  ~Staging(pc[c], job[c])
BY DEF Start, Staging

\* create_branch finds room below the limit, and nobody else is creating.
LEMMA CreateBranchAlone ==
    ASSUME IInv, Alone, mode = "one", NEW c \in Callers, NEW b \in Branches,
           NEW parent \in Branches \cup {None}, CreateBranch(c, b, parent)
    PROVE  Alone'
<1> DEFINE new == [NoJob EXCEPT !.branch = b, !.parent = parent]
<1>1. /\ Start(c) /\ MayRun(c) /\ Goto(c, "begin", new) /\ UNCHANGED <<tables, sessions, commits>>
      /\ ActiveCount < MaxBranches
  BY DEF CreateBranch, StartCreate, Start
<1>2. new.then = "idle"
  BY DEF NoJob
<1> HIDE DEF new
<1>3. ~Staging("begin", new) /\ Reads("begin", new, branch, request, session)
  BY DEF Reads, Staging, Saved, OfRequest
<1>4. QED
  BY <1>1, <1>2, <1>3, StartsIdle, GoesOn DEF Places

\* The session that begins is no staging session.
LEMMA BeginSessionAlone ==
    ASSUME IInv, Alone, mode = "one", NEW c \in Callers, NEW s \in Sessions, BeginSession(c, s)
    PROVE  Alone'
<1> DEFINE new == [job[c] EXCEPT !.session = s]
<1>1. /\ pc[c] = "begin" /\ MayRun(c) /\ Begin(s, SourceDir(job[c].parent))
      /\ Goto(c, "insert", new) /\ UNCHANGED <<tables, commits>>
  BY DEF BeginSession, At
<1>2. new.then = job[c].then /\ Moves(c) /\ pc'[c] = "insert" /\ job'[c] = new
  BY <1>1, Mine, GotoMoves DEF Job
<1>3. SessionsGrow /\ \A x \in Sessions : session'[x].state = "open" => session[x].state \in {"open", "free"}
  BY <1>1, BeginGrows DEF Begin, IInv, TypeOK
<1> HIDE DEF new
<1>4. job[c].then # "recover" /\ ActiveCount < MaxBranches
  BY <1>1 DEF Alone, Rescued, Rescues, Room, Creating
<1>5. ~Staging("insert", new) /\ Reads("insert", new, branch, request, session')
  BY DEF Reads, Staging, Saved, OfRequest
<1>6. Stages(c)
  BY <1>1, <1>2, <1>3, <1>5, StartsIdle DEF Stages, tables
<1>7. Rescues("insert", new, branch, session') /\ Covers("insert", new, branch, session')
  BY <1>2, <1>4 DEF Rescues, Covers
<1>8. QED
  BY <1>1, <1>2, <1>3, <1>4, <1>5, <1>6, <1>7, TablesStay

\* begin_session fails: the room is free again.
LEMMA BeginFailedAlone ==
    ASSUME IInv, Alone, mode = "one", NEW c \in Callers, BeginFailed(c) PROVE Alone'
<1>1. /\ pc[c] = "begin" /\ MayRun(c) /\ Return(c) /\ UNCHANGED <<tables, sessions, commits>>
  BY DEF BeginFailed, At
<1>2. QED
  BY <1>1, Returns, SameSessions, CloseShuts, StartsIdle DEF IInv

\* There was room for one more when the creation began.
LEMMA InsertBranchAlone ==
    ASSUME IInv, Alone, mode = "one", NEW c \in Callers, InsertBranch(c) PROVE Alone'
<1> DEFINE j == job[c]
           row == [status |-> "Pending", parent |-> j.parent, session |-> j.session]
<1>1. /\ pc[c] = "insert" /\ MayRun(c) /\ branch' = [branch EXCEPT ![j.branch] = row]
      /\ Return(c) /\ UNCHANGED <<request, sessions, env, commits>>
  BY DEF InsertBranch, At, PutBranch
<1>2. j.branch \in Branches /\ branch[j.branch].status = "absent"
  BY <1>1, Mine DEF Sound, Creating
<1>3. Moves(c) /\ pc'[c] = "idle" /\ job'[c] = NoJob /\ NoJob.then = "idle"
  BY <1>1, GotoMoves DEF Return, NoJob
<1>4. /\ branch'[j.branch].status = "Pending"
      /\ \A b \in Branches : b # j.branch => branch'[b] = branch[b]
  BY <1>1, <1>2 DEF IInv, TypeOK
<1>5. /\ request' = request /\ session' = session /\ stale' = stale /\ commits' = commits
      /\ SessionsGrow /\ RequestsStay
  BY <1>1, SameSessions DEF sessions, IInv, RequestsStay
<1>6. ~Staging(pc'[c], job'[c]) /\ Reads(pc'[c], job'[c], branch', request', session')
  BY <1>3, IdleReads
<1>7. Rescues(pc'[c], job'[c], branch', session') /\ Covers(pc'[c], job'[c], branch', session')
  BY <1>3 DEF Rescues, Covers
<1>8. (OneAtATime /\ ReadsHold /\ Rescued)'
  BY <1>1, <1>3, <1>5, <1>6, <1>7, TakesTurns
<1>9. (StagesApart /\ MergesOnce)'
  <2>1. Stages(c)
    BY <1>1, <1>5, <1>6, StartsIdle DEF Stages
  <2>2. \A b \in Branches : branch[b].status \in Over => branch'[b].status \in Over
    BY <1>2, <1>4 DEF Over
  <2>3. QED
    BY <1>3, <1>5, <2>1, <2>2, MergesLess
<1>10. Room'
  <2>1. IsFiniteSet(ListActive) /\ ActiveCount < MaxBranches
    BY <1>1 DEF Alone, Room, Creating
  <2>2. ListActive' = ListActive \cup {j.branch}
    BY <1>2, <1>4 DEF ListActive, Listed, Open
  <2>3. IsFiniteSet(ListActive')
    BY <2>1, <2>2, FS_AddElement
  <2>4. OpenBranches' \subseteq OpenBranches \cup {j.branch} /\ OpenBranches \subseteq ListActive
    BY <1>2, <1>4 DEF OpenBranches, ListActive, Listed
  <2>5. IsFiniteSet(OpenBranches) /\ Cardinality(OpenBranches) <= ActiveCount
    BY <2>1, <2>4, FS_Subset DEF ActiveCount
  <2>6. /\ IsFiniteSet(OpenBranches \cup {j.branch})
        /\ Cardinality(OpenBranches \cup {j.branch}) <= Cardinality(OpenBranches) + 1
    <3>1. /\ IsFiniteSet(OpenBranches \cup {j.branch})
          /\ \/ Cardinality(OpenBranches \cup {j.branch}) = Cardinality(OpenBranches)
             \/ Cardinality(OpenBranches \cup {j.branch}) = Cardinality(OpenBranches) + 1
      BY <2>5, FS_AddElement
    <3>2. Cardinality(OpenBranches) \in Nat
      BY <2>5, FS_CardinalityType
    <3>3. QED
      BY <3>1, <3>2
  <2>7. /\ IsFiniteSet(OpenBranches')
        /\ Cardinality(OpenBranches') <= Cardinality(OpenBranches \cup {j.branch})
    BY <2>4, <2>6, FS_Subset
  <2>8. /\ Cardinality(OpenBranches') \in Nat /\ Cardinality(OpenBranches) \in Nat
        /\ Cardinality(OpenBranches \cup {j.branch}) \in Nat /\ ActiveCount \in Nat
        /\ MaxBranches \in Nat
    BY <2>1, <2>5, <2>6, <2>7, FS_CardinalityType, BranchesAssumption DEF ActiveCount
  <2>9. Cardinality(OpenBranches') <= MaxBranches
    BY <2>1, <2>5, <2>6, <2>7, <2>8
  <2>10. \A d \in Callers : pc'[d] \notin Creating
    BY <1>1, <1>3, Awaits DEF Moves, Creating
  <2>11. QED
    BY <2>3, <2>9, <2>10 DEF Room
<1>11. MergesSaved'
  <2>1. \A b \in Branches : branch'[b].status = "Merging" => branch[b].status = "Merging"
    BY <1>4
  <2>2. QED
    BY <1>5, <2>1, MergesStaySaved
<1>12. QED
  BY <1>8, <1>9, <1>10, <1>11 DEF Alone

-----------------------------------------------------------------------------
(* Statuses *)

\* mark_executing and complete_branch write over the status they checked.
LEMMA SetStatusAlone ==
    ASSUME IInv, Alone, mode = "one", NEW c \in Callers, NEW b \in Branches, NEW goal \in Statuses,
           SetStatus(c, b, goal)
    PROVE  Alone'
<1> DEFINE new == [NoJob EXCEPT !.branch = b, !.goal = goal]
<1>1. /\ Start(c) /\ MayRun(c) /\ goal \in {"Active", "Completed"}
      /\ ValidTransition(branch[b].status, goal)
      /\ Goto(c, "write", new) /\ UNCHANGED <<tables, sessions, commits>>
  BY DEF SetStatus, Start
<1>2. new.then = "idle" /\ new.goal = goal /\ new.branch = b
  BY DEF NoJob
<1> HIDE DEF new
<1>3. ~Staging("write", new) /\ Reads("write", new, branch, request, session)
  BY <1>1, <1>2 DEF Reads, Staging, Saved, OfRequest
<1>4. QED
  BY <1>1, <1>2, <1>3, StartsIdle, GoesOn DEF Places, Creating

\* The status that was read is that of the row.
LEMMA ReadStatusAlone ==
    ASSUME IInv, Alone, mode = "one", NEW c \in Callers, ReadStatus(c) PROVE Alone'
<1>1. /\ pc[c] = "read" /\ MayRun(c) /\ ValidTransition(branch[job[c].branch].status, job[c].goal)
      /\ Goto(c, "write", job[c]) /\ UNCHANGED <<tables, sessions, env, commits>>
  BY DEF ReadStatus, At
<1>2. Moves(c) /\ pc'[c] = "write" /\ job'[c] = job[c]
  BY <1>1, GotoMoves
<1>3. /\ branch' = branch /\ request' = request /\ session' = session /\ faults' = faults
      /\ SessionsGrow
  BY <1>1, SameSessions DEF sessions, tables, env, IInv
<1>4. /\ Reads("read", job[c], branch, request, session)
      /\ Rescues("read", job[c], branch, session)
      /\ "sql" \notin faults => Covers("read", job[c], branch, session)
  BY <1>1 DEF Alone, ReadsHold, Rescued
<1>5. Stages(c)
  BY <1>1, <1>2, <1>3 DEF Stages, Staging, Saved
<1>6. Reads("write", job[c], branch, request, session)
  BY <1>1, <1>4 DEF Reads, Staging, Saved, OfRequest
<1>7. Rescues("write", job[c], branch, session)
  BY <1>4 DEF Rescues
<1>8. "sql" \notin faults => Covers("write", job[c], branch, session)
  BY <1>4 DEF Covers
<1>9. QED
  BY <1>1, <1>2, <1>3, <1>5, <1>6, <1>7, <1>8, TablesStay DEF Creating

\* A merge whose branch says it is merging: no other was ready, and none was
\* committed, as the branch was still active or completed.
LEMMA MergeStarts ==
    ASSUME IInv, Alone, NEW c \in Callers, WriteStatus(c), job[c].goal = "Merging",
           Moves(c), pc'[c] = "idle"
    PROVE  (StagesApart /\ MergesOnce /\ MergesSaved)'
<1> DEFINE j == job[c]
<1>1. /\ pc[c] = "write" /\ branch' = [branch EXCEPT ![j.branch].status = j.goal]
      /\ UNCHANGED <<request, sessions, env, commits>>
  BY DEF WriteStatus, At, PutStatus
<1>2. Reads("write", j, branch, request, session) /\ j.branch \in Branches
  BY <1>1, Mine DEF Alone, ReadsHold, Sound, Working
<1>3. /\ Staging(pc[c], j) /\ Saved(pc[c], j) /\ j.request \in Requests
      /\ request[j.request].branch = j.branch /\ request[j.request].status = "ReadyToCommit"
      /\ branch[j.branch].status \notin Over
  BY <1>1, <1>2 DEF Reads, Staging, Saved, OfRequest, ValidTransition, Over
<1>4. /\ branch'[j.branch].status = "Merging"
      /\ \A b \in Branches : b # j.branch => branch'[b] = branch[b]
  BY <1>1, <1>2 DEF IInv, TypeOK
<1>5. request' = request /\ session' = session /\ commits' = commits
  BY <1>1 DEF sessions
<1>6. \A d \in Callers : Staging(pc'[d], job'[d]) =>
          Staging(pc[d], job[d]) /\ pc'[d] = pc[d] /\ job'[d] = job[d]
  BY DEF Moves, Staging
<1>7. \A r \in Requests : Staged(r)' <=> Staged(r)
  BY <1>5 DEF Staged, IsOpen
<1>8. StagesApart'
  BY <1>5, <1>6, <1>7 DEF Alone, StagesApart
<1>9. ASSUME NEW r \in Requests, Ready(r)' PROVE Ready(r) \/ r = j.request
  <2>1. Staged(r)
    BY <1>7, <1>9 DEF Ready
  <2>2. \A d \in Callers \ {c} : ~(Staging(pc[d], job[d]) /\ job[d].session = request[r].staging)
    BY <1>5, <1>9 DEF Ready, Held, Moves
  <2>3. QED
    BY <1>3, <2>1, <2>2 DEF Ready, Held, Alone, StagesApart
<1>10. \A r \in Requests : Ready(r) => request[r].branch # j.branch /\ request[r].branch \in Branches
  BY <1>3 DEF Alone, MergesOnce, Ready, Staged, IInv, TypeOK
<1>11. commits[j.branch] = 0
  BY <1>2, <1>3 DEF Alone, MergesOnce, IInv, TypeOK
<1>12. MergesOnce'
  <2>1. \A q, r \in Requests : Ready(q)' /\ Ready(r)' /\ request'[q].branch = request'[r].branch => q = r
    BY <1>3, <1>5, <1>9, <1>10 DEF Alone, MergesOnce
  <2>2. ASSUME NEW r \in Requests, Ready(r)'
        PROVE  commits'[request'[r].branch] = 0 /\ branch'[request'[r].branch].status \in Over
    <3>1. CASE r = j.request
      BY <1>3, <1>4, <1>5, <1>11, <3>1 DEF Over
    <3>2. CASE Ready(r)
      BY <1>4, <1>5, <1>10, <3>2 DEF Alone, MergesOnce
    <3>3. QED
      BY <1>9, <2>2, <3>1, <3>2
  <2>3. \A b \in Branches : commits'[b] <= 1 /\ (commits'[b] > 0 => branch'[b].status \in Over)
    BY <1>4, <1>5 DEF Alone, MergesOnce, Over
  <2>4. QED
    BY <2>1, <2>2, <2>3 DEF MergesOnce
<1>13. MergesSaved'
  BY <1>3, <1>4, <1>5 DEF Alone, MergesSaved
<1>14. QED
  BY <1>8, <1>12, <1>13

\* The status is written over the one that was read.
LEMMA WriteStatusAlone ==
    ASSUME IInv, Alone, mode = "one", NEW c \in Callers, WriteStatus(c) PROVE Alone'
<1> DEFINE j == job[c]
<1>1. /\ pc[c] = "write" /\ MayRun(c) /\ branch' = [branch EXCEPT ![j.branch].status = j.goal]
      /\ Goto(c, j.then, j) /\ UNCHANGED <<request, sessions, env, commits>>
  BY DEF WriteStatus, At, PutStatus
<1>2. /\ Moves(c) /\ pc'[c] = j.then /\ job'[c] = IF j.then = "idle" THEN NoJob ELSE j
      /\ j.then \in {"idle", "finish", "recover"} /\ j.branch \in Branches
      /\ \A row \in j.todo : row.id \in Branches
  BY <1>1, Mine, GotoMoves DEF Job, Sound, Working
<1>3. /\ Reads("write", j, branch, request, session)
      /\ Rescues("write", j, branch, session)
      /\ "sql" \notin faults => Covers("write", j, branch, session)
      /\ j.goal = "Failed" => session[branch[j.branch].session].state = "closed"
  BY <1>1, Mine DEF Alone, ReadsHold, Rescued, Sound
<1>4. /\ branch'[j.branch].status = j.goal /\ branch'[j.branch].session = branch[j.branch].session
      /\ \A b \in Branches : b # j.branch => branch'[b] = branch[b]
  BY <1>1, <1>2 DEF IInv, TypeOK, BranchRow
<1>5. /\ request' = request /\ session' = session /\ commits' = commits /\ faults' = faults
      /\ SessionsGrow /\ RequestsStay
  BY <1>1, SameSessions DEF sessions, env, IInv, RequestsStay
<1>6. \/ ValidTransition(branch[j.branch].status, j.goal)
      \/ branch[j.branch].status = "Active" /\ j.goal = "Pending"
  BY <1>3 DEF Reads
<1>7. (OneAtATime /\ ReadsHold /\ Rescued)'
  <2>1. CASE j.then = "idle"
    <3>1. pc'[c] = "idle" /\ job'[c] = NoJob /\ NoJob.then = "idle"
      BY <1>2, <2>1 DEF NoJob
    <3>2. /\ Reads(pc'[c], job'[c], branch', request', session')
          /\ Rescues(pc'[c], job'[c], branch', session') /\ Covers(pc'[c], job'[c], branch', session')
      BY <3>1, IdleReads DEF Rescues, Covers
    <3>3. QED
      BY <1>1, <1>2, <1>5, <3>2, TakesTurns
  <2>2. CASE j.then = "finish"
    <3>1. Reads("finish", j, branch', request', session')
      BY <1>3, <1>4, <1>5, <2>2 DEF Reads, Staging, Saved, OfRequest
    <3>2. Rescues("finish", j, branch', session') /\ Covers("finish", j, branch', session')
      BY <2>2 DEF Rescues, Covers
    <3>3. QED
      BY <1>1, <1>2, <1>5, <2>2, <3>1, <3>2, TakesTurns
  <2>3. CASE j.then = "recover"
    <3>1. Reads("recover", j, branch', request', session')
      BY DEF Reads, Staging, Saved, OfRequest
    <3>2. Rescues("recover", j, branch', session')
      BY <1>2, <1>3, <1>4, <2>3 DEF Rescues
    <3>3. ASSUME "sql" \notin faults, NEW b \in Branches, Unsettled(b, branch', session')
          PROVE  \E row \in j.todo : row.id = b
      <4>1. b # j.branch
        BY <1>2, <1>3, <1>4, <1>5, <2>3, <3>3 DEF Rescues, Unsettled, Listed, Open
      <4>2. Unsettled(b, branch, session)
        BY <1>4, <1>5, <3>3, <4>1 DEF Unsettled
      <4>3. QED
        BY <1>3, <2>3, <3>3, <4>1, <4>2 DEF Covers
    <3>4. "sql" \notin faults' => Covers("recover", j, branch', session')
      BY <1>5, <3>3 DEF Covers
    <3>5. QED
      BY <1>1, <1>2, <1>5, <2>3, <3>1, <3>2, <3>4, TakesTurns
  <2>4. QED
    BY <1>2, <2>1, <2>2, <2>3
<1>8. (StagesApart /\ MergesOnce /\ MergesSaved)'
  <2>1. CASE j.goal = "Merging"
    <3>1. pc'[c] = "idle"
      BY <1>2, <1>3, <2>1 DEF Reads, Rescues
    <3>2. QED
      BY <1>2, <2>1, <3>1, MergeStarts
  <2>2. CASE j.goal # "Merging"
    <3>1. ~Staging(pc[c], job[c]) /\ ~Staging(pc'[c], job'[c])
      BY <1>1, <1>2, <2>2 DEF Staging
    <3>2. Stages(c)
      BY <1>5, <3>1 DEF Stages
    <3>3. \A b \in Branches : branch[b].status \in Over => branch'[b].status \in Over
      BY <1>4, <1>6 DEF Over, ValidTransition
    <3>4. (StagesApart /\ MergesOnce)'
      BY <1>2, <1>5, <3>2, <3>3, MergesLess
    <3>5. \A b \in Branches : branch'[b].status = "Merging" => branch[b].status = "Merging"
      BY <1>4, <2>2
    <3>6. MergesSaved'
      BY <1>5, <3>5, MergesStaySaved
    <3>7. QED
      BY <3>4, <3>6
  <2>3. QED
    BY <2>1, <2>2
<1>9. Room'
  <2>1. IsFiniteSet(ListActive) /\ ListActive' \subseteq ListActive \cup {j.branch}
    BY <1>4 DEF Alone, Room, ListActive
  <2>2. IsFiniteSet(ListActive')
    BY <2>1, FS_AddElement, FS_Subset
  <2>3. \A b \in Branches : branch'[b].status \in Open => branch[b].status \in Open
    BY <1>4, <1>6 DEF ValidTransition, Open
  <2>4. pc'[c] \notin Creating
    BY <1>2 DEF Creating
  <2>5. QED
    BY <1>1, <1>2, <2>2, <2>3, <2>4, RoomStays
<1>10. QED
  BY <1>7, <1>8, <1>9 DEF Alone

\* A recovery goes on after an error only if a statement has failed.
LEMMA StatusFailedAlone ==
    ASSUME IInv, Alone, mode = "one", NEW c \in Callers, MayRun(c), pc[c] \in {"read", "write"},
           StatusFailed(c), UNCHANGED <<tables, commits>>,
           job[c].then = "recover" => "sql" \in faults'
    PROVE  Alone'
<1>1. CASE job[c].goal = "Merging"
  <2>1. Close(job[c].session) /\ Return(c) /\ Staging(pc[c], job[c])
    BY <1>1 DEF StatusFailed, Staging
  <2>2. session'[job[c].session].state # "open"
    BY <2>1, StagingCloses
  <2>3. QED
    BY <2>1, <2>2, CloseGrows, CloseShuts, Returns DEF IInv
<1>2. CASE job[c].goal # "Merging" /\ job[c].then # "recover"
  <2>1. UNCHANGED sessions /\ Return(c) /\ ~Staging(pc[c], job[c])
    BY <1>2 DEF StatusFailed, Staging
  <2>2. QED
    BY <2>1, SameSessions, CloseShuts, Returns DEF IInv
<1>3. CASE job[c].goal # "Merging" /\ job[c].then = "recover"
  <2>1. UNCHANGED sessions /\ Goto(c, "recover", job[c]) /\ ~Staging(pc[c], job[c])
    BY <1>3 DEF StatusFailed, Staging
  <2>2. Moves(c) /\ pc'[c] = "recover" /\ job'[c] = job[c]
    BY <2>1, GotoMoves
  <2>3. session' = session /\ SessionsGrow /\ Shut
    BY <2>1, SameSessions, CloseShuts DEF sessions, IInv
  <2>4. ~Staging("recover", job[c]) /\ Reads("recover", job[c], branch, request, session')
    BY DEF Reads, Staging, Saved, OfRequest
  <2>5. Rescues("recover", job[c], branch, session')
    BY <1>3, <2>3 DEF Alone, Rescued, Rescues
  <2>6. Stages(c)
    BY <2>1, <2>2, <2>3, <2>4, StagesQuietly
  <2>7. QED
    BY <1>3, <2>2, <2>3, <2>4, <2>5, <2>6, TablesStay DEF Creating
<1>4. QED
  BY <1>1, <1>2, <1>3

\* A transition that is not allowed writes nothing.
LEMMA InvalidStatusAlone ==
    ASSUME IInv, Alone, mode = "one", NEW c \in Callers, InvalidStatus(c) PROVE Alone'
<1>1. /\ pc[c] = "read" /\ MayRun(c) /\ StatusFailed(c) /\ UNCHANGED <<tables, commits>>
      /\ ~ValidTransition(branch[job[c].branch].status, job[c].goal)
  BY DEF InvalidStatus, At
<1>2. job[c].then # "recover"
  BY <1>1 DEF Alone, Rescued, Rescues, ValidTransition, Listed, Open
<1>3. QED
  BY <1>1, <1>2, StatusFailedAlone

\* abort_branch closes the session first.
LEMMA AbortBranchAlone ==
    ASSUME IInv, Alone, mode = "one", NEW c \in Callers, NEW b \in Branches, AbortBranch(c, b)
    PROVE  Alone'
<1> DEFINE new == [NoJob EXCEPT !.branch = b, !.goal = "Failed"]
<1>1. /\ Start(c) /\ MayRun(c) /\ Close(branch[b].session) /\ Goto(c, "read", new)
      /\ UNCHANGED <<tables, commits>>
  BY DEF AbortBranch, Start
<1>2. SessionsGrow /\ Shut
  BY <1>1, CloseGrows, CloseShuts DEF IInv
<1>3. Moves(c) /\ pc'[c] = "read" /\ job'[c] = new /\ new.goal = "Failed" /\ new.then = "idle"
  BY <1>1, GotoMoves DEF NoJob
<1> HIDE DEF new
<1>4. ~Staging("read", new) /\ Reads("read", new, branch, request, session')
  BY <1>3 DEF Reads, Staging, Saved, OfRequest
<1>5. Stages(c)
  BY <1>1, <1>2, <1>3, <1>4, StartsIdle, StagesQuietly
<1>6. Rescues("read", new, branch, session') /\ Covers("read", new, branch, session')
  BY <1>3 DEF Rescues, Covers
<1>7. QED
  BY <1>1, <1>2, <1>3, <1>4, <1>5, <1>6, TablesStay DEF Creating

\* A rollback that fails in abort_branch: the session is gone, the row stays.
LEMMA AbortFailedAlone ==
    ASSUME IInv, Alone, mode = "one", NEW c \in Callers, NEW b \in Branches, AbortFailed(c, b)
    PROVE  Alone'
<1>1. /\ Start(c) /\ MayRun(c) /\ pc[c] \in {"idle", "new"} /\ Close(branch[b].session)
      /\ UNCHANGED <<tables, callers, commits>>
  BY DEF AbortFailed, Start
<1>2. SessionsGrow /\ Shut
  BY <1>1, CloseGrows, CloseShuts DEF IInv
<1>3. Moves(c) /\ pc' = pc /\ job' = job
  BY <1>1 DEF Moves, callers
<1>4. job[c].then # "recover"
  BY <1>1 DEF Alone, Rescued, Rescues
<1>5. /\ ~Staging(pc[c], job[c]) /\ Reads(pc[c], job[c], branch, request, session')
      /\ pc[c] \notin Creating
  BY <1>1, IdleReads
<1>6. Stages(c)
  BY <1>1, <1>2, <1>3, <1>5, StagesQuietly
<1>7. Rescues(pc[c], job[c], branch, session') /\ Covers(pc[c], job[c], branch, session')
  BY <1>1, <1>4 DEF Rescues, Covers
<1>8. QED
  BY <1>1, <1>2, <1>3, <1>5, <1>6, <1>7, TablesStay

\* Nothing Alone speaks of changes.
LEMMA NothingAlone ==
    ASSUME Alone, UNCHANGED <<tables, session, callers, env, commits>> PROVE Alone'
<1>1. /\ branch' = branch /\ request' = request /\ session' = session /\ pc' = pc /\ job' = job
      /\ faults' = faults /\ commits' = commits
  BY DEF tables, callers, env
<1>2. (OneAtATime /\ ReadsHold /\ Rescued)'
  BY <1>1 DEF Alone, OneAtATime, ReadsHold, Rescued
<1>3. Room'
  BY <1>1 DEF Alone, Room, ListActive, OpenBranches, ActiveCount
<1>4. (StagesApart /\ MergesOnce /\ MergesSaved)'
  BY <1>1 DEF Alone, StagesApart, MergesOnce, MergesSaved, Ready, Held, Staged, IsOpen
<1>5. QED
  BY <1>2, <1>3, <1>4 DEF Alone

-----------------------------------------------------------------------------
(* Merge requests *)

\* A request of which nothing is ready appears or is approved.
LEMMA RequestsMove ==
    ASSUME IInv, Alone, mode = "one", NEW c \in Callers, MayRun(c), Moves(c),
           UNCHANGED <<branch, sessions, env, commits>>, RequestsStay,
           \A r \in Requests :
              /\ request'[r].status = "ReadyToCommit" => request'[r] = request[r]
              /\ request[r].status = "ReadyToCommit" =>
                    request'[r].status = "ReadyToCommit" \/ branch[request[r].branch].status # "Merging",
           ~Staging(pc[c], job[c]), ~Staging(pc'[c], job'[c]), pc'[c] \notin Creating,
           Reads(pc'[c], job'[c], branch, request', session),
           job'[c].then # "recover", pc'[c] # "recover"
    PROVE  Alone'
<1>1. /\ branch' = branch /\ session' = session /\ commits' = commits /\ faults' = faults
      /\ SessionsGrow
  BY SameSessions DEF sessions, env, IInv
<1>2. (OneAtATime /\ ReadsHold /\ Rescued)'
  <2>1. Rescues(pc'[c], job'[c], branch', session') /\ Covers(pc'[c], job'[c], branch', session')
    BY DEF Rescues, Covers
  <2>2. QED
    BY <1>1, <2>1, TakesTurns
<1>3. Stages(c)
  BY <1>1 DEF Stages
<1>4. (StagesApart /\ MergesOnce)'
  BY <1>1, <1>3, MergesLess
<1>5. Room'
  BY <1>1, RoomStays DEF Alone, Room, ListActive
<1>6. MergesSaved'
  BY <1>1 DEF Alone, MergesSaved, RequestsStay
<1>7. QED
  BY <1>2, <1>4, <1>5, <1>6 DEF Alone

\* request_merge adds a request that is not ready to commit.
LEMMA RequestMergeAlone ==
    ASSUME IInv, Alone, mode = "one", NEW c \in Callers, NEW b \in Branches, NEW r \in Requests,
           NEW auto \in BOOLEAN, RequestMerge(c, b, r, auto)
    PROVE  Alone'
<1> DEFINE row == [status |-> "Pending", branch |-> b, staging |-> None]
           new == [NoJob EXCEPT !.branch = b, !.request = r]
           place == IF auto THEN "auto" ELSE "idle"
<1>1. /\ request' = [request EXCEPT ![r] = row] /\ Goto(c, place, new)
      /\ request[r].status = "absent" /\ Start(c) /\ MayRun(c)
      /\ UNCHANGED <<branch, sessions, env, commits>>
  BY DEF RequestMerge, PutRequest, Start
<1>2. row.status = "Pending" /\ place \in {"auto", "idle"} /\ new.then = "idle" /\ NoJob.then = "idle"
  BY DEF NoJob
<1>3. Moves(c) /\ pc'[c] \in {"auto", "idle"} /\ job'[c].then = "idle"
  BY <1>1, <1>2, GotoMoves
<1> HIDE DEF row, new, place
<1>4. request'[r] = row /\ \A q \in Requests : q # r => request'[q] = request[q]
  BY <1>1 DEF IInv, TypeOK
<1>5. RequestsStay
  BY <1>1, <1>4 DEF RequestsStay
<1>6. /\ ~Staging(pc'[c], job'[c]) /\ pc'[c] \notin Creating
      /\ Reads(pc'[c], job'[c], branch, request', session)
  BY <1>3 DEF Reads, Staging, Saved, OfRequest, Creating
<1>7. QED
  BY <1>1, <1>2, <1>3, <1>4, <1>5, <1>6, StartsIdle, RequestsMove

\* Approving makes no request ready, and leaves those that are.
LEMMA ApproveMoves ==
    ASSUME IInv, NEW r \in Requests \cup {None}, Approve(r)
    PROVE  /\ RequestsStay
           /\ \A q \in Requests :
                /\ request'[q].status = "ReadyToCommit" => request'[q] = request[q]
                /\ request[q].status = "ReadyToCommit" => request'[q].status = "ReadyToCommit"
<1>1. request \in [Requests -> RequestRow]
  BY DEF IInv, TypeOK
<1>2. CASE r \in Requests
  BY <1>1, <1>2 DEF Approve, RequestsStay, RequestRow
<1>3. CASE r \notin Requests
  <2>1. request' = request
    BY <1>1, <1>3 DEF Approve
  <2>2. QED
    BY <2>1 DEF RequestsStay
<1>4. QED
  BY <1>2, <1>3

\* A request that is approved at once is not ready to commit.
LEMMA AutoApproveAlone ==
    ASSUME IInv, Alone, mode = "one", NEW c \in Callers, AutoApprove(c) PROVE Alone'
<1>1. /\ pc[c] = "auto" /\ MayRun(c) /\ Approve(job[c].request) /\ Return(c)
      /\ UNCHANGED <<branch, sessions, env, commits>>
      /\ job[c].request \in Requests \cup {None}
  BY Mine DEF AutoApprove, At, Job
<1>2. Moves(c) /\ pc'[c] = "idle" /\ job'[c].then = "idle"
  BY <1>1, GotoMoves DEF Return, NoJob
<1>3. /\ ~Staging(pc'[c], job'[c]) /\ pc'[c] \notin Creating
      /\ Reads(pc'[c], job'[c], branch, request', session)
  BY <1>2, IdleReads
<1>4. QED
  BY <1>1, <1>2, <1>3, ApproveMoves, StartsIdle, RequestsMove

\* approve_merge makes no request ready to commit.
LEMMA ApproveMergeAlone ==
    ASSUME IInv, Alone, mode = "one", NEW c \in Callers, NEW r \in Requests, ApproveMerge(c, r)
    PROVE  Alone'
<1>1. /\ Start(c) /\ MayRun(c) /\ Approve(r) /\ UNCHANGED <<branch, sessions, callers, env, commits>>
      /\ pc[c] \in {"idle", "new"}
  BY DEF ApproveMerge, Start
<1>2. Moves(c) /\ pc' = pc /\ job' = job /\ job[c].then # "recover"
  BY <1>1 DEF Moves, callers, Alone, Rescued, Rescues
<1>3. /\ ~Staging(pc[c], job[c]) /\ pc[c] \notin Creating
      /\ Reads(pc[c], job[c], branch, request', session)
  BY <1>1, IdleReads
<1>4. QED
  BY <1>1, <1>2, <1>3, ApproveMoves, RequestsMove

\* The staging session is a new one.
LEMMA ExecuteMergeAlone ==
    ASSUME IInv, Alone, mode = "one", NEW c \in Callers, NEW r \in Requests, NEW s \in Sessions,
           ExecuteMerge(c, r, s)
    PROVE  Alone'
<1> DEFINE b == request[r].branch
           new == [NoJob EXCEPT !.branch = b, !.request = r, !.session = s, !.goal = "Merging"]
<1>1. /\ Start(c) /\ MayRun(c) /\ StatusRead(r) = "Approved"
      /\ Begin(s, branch[branch[b].parent].session)
      /\ Goto(c, "collect", new) /\ UNCHANGED <<tables, env, commits>>
  BY DEF ExecuteMerge, Start
<1>2. /\ new.branch = b /\ new.request = r /\ new.session = s /\ new.goal = "Merging"
      /\ new.then = "idle"
  BY DEF NoJob
<1>3. Moves(c) /\ pc'[c] = "collect" /\ job'[c] = new
  BY <1>1, GotoMoves
<1> HIDE DEF new
<1>4. /\ SessionsGrow /\ session[s].state = "free" /\ session'[s].state = "open"
      /\ \A x \in Sessions : session'[x].state = "open" => session[x].state \in {"open", "free"}
  BY <1>1, BeginGrows DEF Begin, IInv, TypeOK
<1>5. request[r].status # "absent"
  BY <1>1 DEF StatusRead
<1>6. Reads("collect", new, branch, request, session')
  BY <1>2, <1>4, <1>5 DEF Reads, Staging, Saved, OfRequest
<1>7. Stages(c)
  BY <1>1, <1>2, <1>3, <1>4, StartsIdle DEF Stages, tables
<1>8. Rescues("collect", new, branch, session') /\ Covers("collect", new, branch, session')
  BY <1>2 DEF Rescues, Covers
<1>9. QED
  BY <1>1, <1>3, <1>4, <1>6, <1>7, <1>8, TablesStay DEF Creating

\* The scan fails and the caller's own staging session is closed, or it goes on.
LEMMA CollectChangesAlone ==
    ASSUME IInv, Alone, mode = "one", NEW c \in Callers, CollectChanges(c) PROVE Alone'
<1>1. pc[c] = "collect" /\ MayRun(c) /\ UNCHANGED <<tables, commits>> /\ Staging(pc[c], job[c])
  BY DEF CollectChanges, At, Staging
<1>2. CASE Goto(c, "save", job[c]) /\ UNCHANGED sessions
  <2>1. Moves(c) /\ pc'[c] = "save" /\ job'[c] = job[c]
    BY <1>2, GotoMoves
  <2>2. session' = session /\ SessionsGrow /\ request' = request
    BY <1>1, <1>2, SameSessions DEF sessions, tables, IInv
  <2>3. Reads("collect", job[c], branch, request, session) /\ Rescues("collect", job[c], branch, session)
    BY <1>1 DEF Alone, ReadsHold, Rescued
  <2>4. Reads("save", job[c], branch, request, session)
    BY <2>3 DEF Reads, Staging, Saved, OfRequest
  <2>5. Rescues("save", job[c], branch, session) /\ Covers("save", job[c], branch, session)
    BY <2>3 DEF Rescues, Covers
  <2>6. Stages(c)
    BY <1>1, <2>1, <2>2 DEF Stages, Staging, Saved
  <2>7. QED
    BY <1>1, <2>1, <2>2, <2>4, <2>5, <2>6, TablesStay DEF Creating
<1>3. CASE Close(job[c].session) /\ Return(c)
  <2>1. session'[job[c].session].state # "open"
    BY <1>1, <1>3, StagingCloses
  <2>2. QED
    BY <1>1, <1>3, <2>1, CloseGrows, CloseShuts, Returns DEF IInv
<1>4. QED
  BY <1>2, <1>3 DEF CollectChanges

\* The request is saved with a staging session only c has.
LEMMA SaveStagedAlone ==
    ASSUME IInv, Alone, mode = "one", NEW c \in Callers, SaveStaged(c) PROVE Alone'
<1> DEFINE j == job[c]
           row == [status |-> "ReadyToCommit", branch |-> j.branch, staging |-> j.session]
<1>1. /\ pc[c] = "save" /\ MayRun(c) /\ request' = [request EXCEPT ![j.request] = row]
      /\ Goto(c, "read", j) /\ UNCHANGED <<branch, sessions, env, commits>>
  BY DEF SaveStaged, At, UpdateRequest, PutRequest
<1>2. Moves(c) /\ pc'[c] = "read" /\ job'[c] = j
  BY <1>1, GotoMoves
<1>3. /\ Reads("save", j, branch, request, session) /\ Rescues("save", j, branch, session)
      /\ j.goal = "Merging"
  BY <1>1, Mine DEF Alone, ReadsHold, Rescued, Sound
<1>4. /\ j.request \in Requests /\ request[j.request].branch = j.branch
      /\ request[j.request].status # "absent"
      /\ j.session \in Sessions /\ session[j.session].state # "free"
  BY <1>3 DEF Reads, Staging, OfRequest
<1>5. row.status = "ReadyToCommit" /\ row.branch = j.branch /\ row.staging = j.session
  OBVIOUS
<1> HIDE DEF row
<1>6. request'[j.request] = row /\ \A q \in Requests : q # j.request => request'[q] = request[q]
  BY <1>1, <1>4 DEF IInv, TypeOK
<1>7. /\ branch' = branch /\ session' = session /\ commits' = commits /\ faults' = faults
      /\ SessionsGrow /\ RequestsStay
  BY <1>1, <1>4, <1>5, <1>6, SameSessions DEF sessions, env, IInv, RequestsStay
<1>8. (OneAtATime /\ ReadsHold /\ Rescued)'
  <2>1. Reads("read", j, branch', request', session')
    BY <1>3, <1>4, <1>5, <1>6, <1>7 DEF Reads, Staging, Saved, OfRequest, Rescues
  <2>2. Rescues("read", j, branch', session') /\ Covers("read", j, branch', session')
    BY <1>3 DEF Rescues, Covers
  <2>3. QED
    BY <1>1, <1>2, <1>7, <2>1, <2>2, TakesTurns
<1>9. Room'
  BY <1>1, <1>2, <1>7, RoomStays DEF Alone, Room, ListActive, Creating
<1>10. MergesSaved'
  BY <1>4, <1>5, <1>6, <1>7 DEF Alone, MergesSaved
<1>11. /\ Staging(pc[c], j) /\ ~Saved(pc[c], j) /\ Staging(pc'[c], j) /\ Saved(pc'[c], j)
  BY <1>1, <1>2, <1>3 DEF Staging, Saved
<1>12. \A d \in Callers : /\ Staging(pc'[d], job'[d]) <=> Staging(pc[d], job[d])
                          /\ job'[d] = job[d]
                          /\ d # c => pc'[d] = pc[d]
  BY <1>2, <1>11 DEF Moves
<1>13. \A r \in Requests : Staged(r) => request[r].staging # j.session
  BY <1>11 DEF Alone, StagesApart
<1>14. \A r \in Requests : r # j.request => (Staged(r)' <=> Staged(r)) /\ request'[r] = request[r]
  BY <1>6, <1>7 DEF Staged, IsOpen
<1>15. StagesApart'
  <2>1. \A r \in Requests :
          request'[r].status = "ReadyToCommit" => session'[request'[r].staging].state # "free"
    BY <1>4, <1>5, <1>6, <1>7 DEF Alone, StagesApart
  <2>2. \A q, r \in Requests :
          Staged(q)' /\ Staged(r)' /\ request'[q].staging = request'[r].staging => q = r
    BY <1>5, <1>6, <1>13, <1>14 DEF Alone, StagesApart
  <2>3. \A d, e \in Callers :
          /\ Staging(pc'[d], job'[d]) /\ Staging(pc'[e], job'[e])
          /\ job'[d].session = job'[e].session
          => d = e
    BY <1>12 DEF Alone, StagesApart
  <2>4. ASSUME NEW d \in Callers, NEW r \in Requests,
               Staging(pc'[d], job'[d]), Staged(r)', request'[r].staging = job'[d].session
        PROVE  Saved(pc'[d], job'[d]) /\ job'[d].request = r
    <3>1. CASE r = j.request
      BY <1>2, <1>5, <1>6, <1>11, <1>12, <2>4, <3>1 DEF Alone, StagesApart
    <3>2. CASE r # j.request
      BY <1>11, <1>12, <1>14, <2>4, <3>2 DEF Alone, StagesApart
    <3>3. QED
      BY <3>1, <3>2
  <2>5. QED
    BY <2>1, <2>2, <2>3, <2>4 DEF StagesApart
<1>16. \A r \in Requests : Ready(r)' => Ready(r) /\ r # j.request /\ request'[r] = request[r]
  <2>1. ASSUME NEW r \in Requests, Ready(r)' PROVE r # j.request
    BY <1>2, <1>5, <1>6, <1>11, <2>1 DEF Ready, Held
  <2>2. \A s : Held(s)' <=> Held(s)
    BY <1>12 DEF Held
  <2>3. QED
    BY <1>14, <2>1, <2>2 DEF Ready
<1>17. MergesOnce'
  BY <1>7, <1>16 DEF Alone, MergesOnce
<1>18. QED
  BY <1>8, <1>9, <1>10, <1>15, <1>17 DEF Alone

\* commit_merge has a request that is ready, and no other of its branch is.
LEMMA CommitMergeAlone ==
    ASSUME IInv, Alone, mode = "one", NEW c \in Callers, NEW r \in Requests, CommitMerge(c, r)
    PROVE  Alone'
<1> DEFINE new == [NoJob EXCEPT !.branch = request[r].branch, !.request = r,
                                !.session = request[r].staging, !.goal = "Merged", !.then = "finish"]
<1>1. /\ Start(c) /\ MayRun(c) /\ StatusRead(r) = "ReadyToCommit" /\ Goto(c, "commit", new)
      /\ UNCHANGED <<tables, sessions, commits>>
  BY DEF CommitMerge, Start
<1>2. /\ new.branch = request[r].branch /\ new.request = r /\ new.session = request[r].staging
      /\ new.then = "finish"
  BY DEF NoJob
<1>3. request[r].status = "ReadyToCommit"
  BY <1>1 DEF StatusRead
<1> HIDE DEF new
<1>4. ~Staging("commit", new) /\ Reads("commit", new, branch, request, session)
  BY <1>2, <1>3 DEF Reads, Staging, Saved, OfRequest
<1>5. QED
  BY <1>1, <1>2, <1>4, StartsIdle, GoesOn DEF Places, Creating

\* The one merge of the branch that is ready is committed.
LEMMA CommitCounts ==
    ASSUME IInv, Alone, mode = "one", NEW c \in Callers, MayRun(c), pc[c] = "commit",
           IsOpen(job[c].session), Close(job[c].session), UNCHANGED tables,
           commits' = [commits EXCEPT ![job[c].branch] = @ + 1],
           Moves(c), ~Staging(pc'[c], job'[c])
    PROVE  (StagesApart /\ MergesOnce)'
<1> DEFINE j == job[c]
<1>1. Reads("commit", j, branch, request, session) /\ j.branch \in Branches
  BY Mine DEF Alone, ReadsHold, Sound, Working
<1>2. /\ j.request \in Requests /\ request[j.request].branch = j.branch
      /\ request[j.request].staging = j.session /\ Staged(j.request) /\ j.session \in Sessions
  BY <1>1 DEF Reads, OfRequest, Saved, Staged, IsOpen
<1>3. ASSUME NEW d \in Callers, Staging(pc[d], job[d]), job[d].session = j.session PROVE FALSE
  <2>1. Saved(pc[d], job[d])
    BY <1>2, <1>3 DEF Alone, StagesApart
  <2>2. d # c
    BY <1>3 DEF Staging
  <2>3. pc[d] \in {"idle", "new", "collect"}
    BY <2>2, Awaits
  <2>4. QED
    BY <2>1, <2>3 DEF Saved
<1>4. Ready(j.request)
  BY <1>2, <1>3 DEF Ready, Held
<1>5. commits[j.branch] = 0 /\ branch[j.branch].status \in Over
  BY <1>2, <1>4 DEF Alone, MergesOnce
<1>6. SessionsGrow /\ Shut /\ session'[j.session].state = "closed"
  BY <1>2, CloseGrows, CloseShuts DEF IInv, IsOpen
<1>7. ~Staging(pc[c], job[c])
  BY DEF Staging
<1>8. Stages(c)
  BY <1>6, <1>7, StagesQuietly
<1>9. StagesApart' /\ \A r \in Requests : Ready(r)' => Ready(r) /\ request'[r] = request[r]
  BY <1>6, <1>8, StagesLess
<1>10. branch' = branch /\ request' = request
  BY DEF tables
<1>11. \A r \in Requests : Ready(r)' => request[r].branch # j.branch /\ request[r].branch \in Branches
  <2>1. ASSUME NEW r \in Requests, Ready(r)' PROVE r # j.request
    BY <1>2, <1>6, <1>10, <2>1 DEF Ready, Staged, IsOpen
  <2>2. QED
    BY <1>2, <1>4, <1>9, <2>1 DEF Alone, MergesOnce, Ready, Staged, IInv, TypeOK
<1>12. commits'[j.branch] = 1 /\ \A b \in Branches : b # j.branch => commits'[b] = commits[b]
  BY <1>1, <1>5 DEF IInv, TypeOK
<1>13. MergesOnce'
  <2>1. \A q, r \in Requests : Ready(q)' /\ Ready(r)' /\ request'[q].branch = request'[r].branch => q = r
    BY <1>9 DEF Alone, MergesOnce
  <2>2. \A r \in Requests : Ready(r)' =>
          commits'[request'[r].branch] = 0 /\ branch'[request'[r].branch].status \in Over
    BY <1>9, <1>10, <1>11, <1>12 DEF Alone, MergesOnce
  <2>3. \A b \in Branches : commits'[b] <= 1 /\ (commits'[b] > 0 => branch'[b].status \in Over)
    BY <1>5, <1>10, <1>12 DEF Alone, MergesOnce
  <2>4. QED
    BY <2>1, <2>2, <2>3 DEF MergesOnce
<1>14. QED
  BY <1>9, <1>13

\* The commit closes the staging session, and no merge of the branch is ready.
LEMMA CommitStagingAlone ==
    ASSUME IInv, Alone, mode = "one", NEW c \in Callers, CommitStaging(c) PROVE Alone'
<1> DEFINE j == job[c]
<1>1. /\ pc[c] = "commit" /\ MayRun(c) /\ IsOpen(j.session) /\ Close(j.session)
      /\ commits' = [commits EXCEPT ![j.branch] = @ + 1]
      /\ Goto(c, "read", j) /\ UNCHANGED <<tables, env>>
  BY DEF CommitStaging, At, Committable
<1>2. Moves(c) /\ pc'[c] = "read" /\ job'[c] = j
  BY <1>1, GotoMoves
<1>3. /\ Reads("commit", j, branch, request, session) /\ Rescues("commit", j, branch, session)
      /\ j.goal = "Merged" /\ j.then = "finish"
  BY <1>1, Mine DEF Alone, ReadsHold, Rescued, Sound
<1>4. branch' = branch /\ request' = request /\ SessionsGrow /\ RequestsStay
  BY <1>1, CloseGrows DEF tables, IInv, RequestsStay
<1>5. ~Staging("read", j) /\ Reads("read", j, branch, request, session')
  BY <1>3 DEF Reads, Staging, Saved, OfRequest
<1>6. Rescues("read", j, branch, session') /\ Covers("read", j, branch, session')
  BY <1>3 DEF Rescues, Covers
<1>7. (OneAtATime /\ ReadsHold /\ Rescued)'
  BY <1>1, <1>2, <1>4, <1>5, <1>6, TakesTurns
<1>8. (StagesApart /\ MergesOnce)'
  BY <1>1, <1>2, <1>5, CommitCounts
<1>9. Room'
  BY <1>1, <1>2, <1>4, RoomStays DEF Alone, Room, ListActive, Creating
<1>10. MergesSaved'
  BY <1>4, MergesStaySaved
<1>11. QED
  BY <1>7, <1>8, <1>9, <1>10 DEF Alone

\* A commit that fails leaves the staging session as it was, or closed.
LEMMA CommitFailedAlone ==
    ASSUME IInv, Alone, mode = "one", NEW c \in Callers, CommitFailed(c) PROVE Alone'
<1> DEFINE j == job[c]
<1>1. pc[c] = "commit" /\ MayRun(c) /\ Return(c) /\ UNCHANGED tables
  BY DEF CommitFailed, At
<1>2. CASE UNCHANGED <<sessions, commits>>
  BY <1>1, <1>2, Returns, SameSessions, CloseShuts, StartsIdle DEF IInv
<1>3. CASE IsOpen(j.session) /\ Close(j.session) /\ commits' = [commits EXCEPT ![j.branch] = @ + 1]
  <2>1. Moves(c) /\ pc'[c] = "idle" /\ job'[c] = NoJob /\ NoJob.then = "idle"
    BY <1>1, GotoMoves DEF Return, NoJob
  <2>2. branch' = branch /\ request' = request /\ SessionsGrow /\ RequestsStay
    BY <1>1, <1>3, CloseGrows DEF tables, IInv, RequestsStay
  <2>3. ~Staging(pc'[c], job'[c]) /\ Reads(pc'[c], job'[c], branch', request', session')
    BY <2>1, IdleReads
  <2>4. Rescues(pc'[c], job'[c], branch', session') /\ Covers(pc'[c], job'[c], branch', session')
    BY <2>1 DEF Rescues, Covers
  <2>5. (OneAtATime /\ ReadsHold /\ Rescued)'
    BY <1>1, <2>1, <2>2, <2>3, <2>4, TakesTurns
  <2>6. (StagesApart /\ MergesOnce)'
    BY <1>1, <1>3, <2>1, <2>3, CommitCounts
  <2>7. Room'
    BY <1>1, <2>1, <2>2, RoomStays DEF Alone, Room, ListActive, Creating
  <2>8. MergesSaved'
    BY <2>2, MergesStaySaved
  <2>9. QED
    BY <2>5, <2>6, <2>7, <2>8 DEF Alone
<1>4. QED
  BY <1>2, <1>3 DEF CommitFailed, Committable

\* The branch of the request is merged by then.
LEMMA FinishRequestAlone ==
    ASSUME IInv, Alone, mode = "one", NEW c \in Callers, FinishRequest(c) PROVE Alone'
<1> DEFINE j == job[c]
           row == [status |-> "Committed", branch |-> j.branch, staging |-> j.session]
<1>1. /\ pc[c] = "finish" /\ MayRun(c) /\ request' = [request EXCEPT ![j.request] = row]
      /\ Return(c) /\ UNCHANGED <<branch, sessions, env, commits>>
  BY DEF FinishRequest, At, UpdateRequest, PutRequest
<1>2. Moves(c) /\ pc'[c] = "idle" /\ job'[c].then = "idle"
  BY <1>1, GotoMoves DEF Return, NoJob
<1>3. /\ j.request \in Requests /\ request[j.request].branch = j.branch
      /\ branch[j.branch].status = "Merged"
  BY <1>1 DEF Alone, ReadsHold, Reads, OfRequest
<1>4. row.status = "Committed" /\ row.branch = j.branch
  OBVIOUS
<1> HIDE DEF row
<1>5. request'[j.request] = row /\ \A q \in Requests : q # j.request => request'[q] = request[q]
  BY <1>1, <1>3 DEF IInv, TypeOK
<1>6. RequestsStay
  BY <1>3, <1>4, <1>5 DEF RequestsStay
<1>7. /\ ~Staging(pc'[c], job'[c]) /\ pc'[c] \notin Creating
      /\ Reads(pc'[c], job'[c], branch, request', session)
  BY <1>2, IdleReads
<1>8. QED
  BY <1>1, <1>2, <1>3, <1>4, <1>5, <1>6, <1>7, StartsIdle, RequestsMove

-----------------------------------------------------------------------------
(* Recovery, faults *)

\* A recovery lists every branch it has to settle.
LEMMA RecoverAlone ==
    ASSUME IInv, Alone, mode = "one", NEW c \in Callers, Recover(c) PROVE Alone'
<1> DEFINE rows == {[id |-> b, status |-> branch[b].status] : b \in ListActive}
           new == [NoJob EXCEPT !.then = "recover", !.todo = rows]
<1>1. /\ pc[c] = "new" /\ MayRun(c) /\ Goto(c, "recover", new)
      /\ UNCHANGED <<tables, sessions, commits>>
  BY DEF Recover, At
<1>2. Moves(c) /\ pc'[c] = "recover" /\ job'[c] = new /\ new.then = "recover" /\ new.todo = rows
  BY <1>1, GotoMoves DEF NoJob
<1>3. \A row \in rows : branch[row.id].status = row.status
  OBVIOUS
<1>4. ASSUME NEW b \in Branches, Unsettled(b, branch, session) PROVE \E row \in rows : row.id = b
  <2>1. b \in ListActive
    BY <1>4 DEF Unsettled, ListActive, Listed, Open
  <2>2. [id |-> b, status |-> branch[b].status] \in rows
    BY <2>1
  <2>3. QED
    BY <2>2
<1> HIDE DEF rows, new
<1>5. session' = session /\ SessionsGrow /\ Shut
  BY <1>1, SameSessions, CloseShuts DEF sessions, IInv
<1>6. ~Staging("recover", new) /\ Reads("recover", new, branch, request, session')
  BY DEF Reads, Staging, Saved, OfRequest
<1>7. Stages(c)
  BY <1>1, <1>2, <1>5, <1>6, IdleReads, StagesQuietly
<1>8. Rescues("recover", new, branch, session') /\ Covers("recover", new, branch, session')
  BY <1>2, <1>3, <1>4, <1>5 DEF Rescues, Covers
<1>9. QED
  BY <1>1, <1>2, <1>5, <1>6, <1>7, <1>8, TablesStay DEF Creating

\* A branch leaves the list settled, or into the hands of the caller.
LEMMA RecoverBranchAlone ==
    ASSUME IInv, Alone, mode = "one", NEW c \in Callers, NEW row \in job[c].todo,
           RecoverBranch(c, row)
    PROVE  Alone'
<1> DEFINE j == job[c]
           rest == [j EXCEPT !.todo = @ \ {row}, !.branch = row.id]
           failed == [rest EXCEPT !.goal = "Failed"]
           pending == [rest EXCEPT !.goal = "Pending"]
<1>1. /\ pc[c] = "recover" /\ MayRun(c) /\ UNCHANGED <<tables, sessions, env, commits>>
  BY DEF RecoverBranch, At
<1>2. /\ Rescues("recover", j, branch, session)
      /\ "sql" \notin faults => Covers("recover", j, branch, session)
      /\ j \in Job /\ row.id \in Branches
  BY <1>1, Mine DEF Alone, Rescued
<1>3. /\ j.then = "recover" /\ branch[row.id].status = row.status /\ row.status \in Listed
      /\ \A x \in j.todo : branch[x.id].status = x.status
  BY <1>2 DEF Rescues, Job
<1>4. \A x \in j.todo : x.id = row.id => x = row
  BY <1>2, <1>3 DEF Job
<1>5. /\ session' = session /\ SessionsGrow /\ Shut /\ faults' = faults
  BY <1>1, SameSessions, CloseShuts DEF sessions, env, IInv
<1>6. /\ rest.branch = row.id /\ rest.then = "recover" /\ rest.todo = j.todo \ {row}
  BY <1>2, <1>3 DEF Job
<1>7. /\ failed.branch = row.id /\ failed.then = "recover" /\ failed.todo = j.todo \ {row}
      /\ failed.goal = "Failed"
  BY <1>2, <1>3 DEF Job
<1>8. /\ pending.branch = row.id /\ pending.then = "recover" /\ pending.todo = j.todo \ {row}
      /\ pending.goal = "Pending"
  BY <1>2, <1>3 DEF Job
<1>9. ASSUME NEW place \in {"recover", "read", "write"}, NEW new,
             Goto(c, place, new), new.branch = row.id, new.then = "recover",
             new.todo = j.todo \ {row},
             place = "read" => new.goal = "Failed",
             place = "write" =>
                /\ new.goal = "Pending" /\ branch[row.id].status = "Active"
                /\ session[branch[row.id].session].state = "open",
             place = "recover" => ~Unsettled(row.id, branch, session)
      PROVE  Alone'
  <2>1. Moves(c) /\ pc'[c] = place /\ job'[c] = new
    BY <1>9, GotoMoves
  <2>2. ~Staging(place, new) /\ Reads(place, new, branch, request, session)
    BY <1>9 DEF Reads, Staging, Saved, OfRequest
  <2>3. Stages(c)
    BY <1>1, <1>5, <2>1, <2>2, StartsIdle, StagesQuietly
  <2>4. Rescues(place, new, branch, session)
    BY <1>3, <1>4, <1>9 DEF Rescues
  <2>5. "sql" \notin faults => Covers(place, new, branch, session)
    BY <1>2, <1>3, <1>9 DEF Covers
  <2>6. QED
    BY <1>1, <1>5, <2>1, <2>2, <2>3, <2>4, <2>5, TablesStay DEF Creating
<1>10. CASE ~IsOpen(branch[row.id].session)
  <2>1. Goto(c, "read", failed)
    BY <1>10 DEF RecoverBranch
  <2> HIDE DEF rest, failed, pending
  <2>2. QED
    BY <1>7, <1>9, <2>1
<1>11. CASE IsOpen(branch[row.id].session) /\ row.status = "Active"
  <2>1. Goto(c, "write", pending)
    BY <1>11 DEF RecoverBranch
  <2> HIDE DEF rest, failed, pending
  <2>2. session[branch[row.id].session].state = "open"
    BY <1>11 DEF IsOpen
  <2>3. QED
    BY <1>3, <1>8, <1>9, <1>11, <2>1, <2>2
<1>12. CASE IsOpen(branch[row.id].session) /\ row.status # "Active"
  <2>1. Goto(c, "recover", rest)
    BY <1>12 DEF RecoverBranch
  <2> HIDE DEF rest, failed, pending
  <2>2. ~Unsettled(row.id, branch, session)
    BY <1>3, <1>12 DEF Unsettled, IsOpen
  <2>3. QED
    BY <1>6, <1>9, <2>1, <2>2
<1>13. QED
  BY <1>10, <1>11, <1>12

\* A recovery ends when its list is empty.
LEMMA RecoverDoneAlone ==
    ASSUME IInv, Alone, mode = "one", NEW c \in Callers, RecoverDone(c) PROVE Alone'
<1>1. /\ pc[c] = "recover" /\ MayRun(c) /\ Return(c) /\ UNCHANGED <<tables, sessions, commits>>
  BY DEF RecoverDone, At
<1>2. QED
  BY <1>1, Returns, SameSessions, CloseShuts, StartsIdle DEF IInv

\* A statement that fails ends the operation, and a recovery skips its branch.
LEMMA StatementFailsAlone ==
    ASSUME IInv, Alone, mode = "one", NEW c \in Callers, StatementFails(c) PROVE Alone'
<1>1. UNCHANGED <<tables, commits>> /\ "sql" \in faults'
  BY DEF StatementFails, Fault
<1>2. CASE At(c, "insert") /\ Return(c) /\ UNCHANGED sessions
  BY <1>1, <1>2, Returns, SameSessions, CloseShuts, StartsIdle DEF At, IInv
<1>3. CASE (At(c, "read") \/ At(c, "write")) /\ StatusFailed(c)
  BY <1>1, <1>3, StatusFailedAlone DEF At
<1>4. CASE (At(c, "auto") \/ At(c, "finish")) /\ Return(c) /\ UNCHANGED sessions
  BY <1>1, <1>4, Returns, SameSessions, CloseShuts, StartsIdle DEF At, IInv
<1>5. CASE At(c, "save") /\ Close(job[c].session) /\ Return(c)
  <2>1. session'[job[c].session].state # "open"
    BY <1>5, StagingCloses DEF At, Staging
  <2>2. QED
    BY <1>1, <1>5, <2>1, CloseGrows, CloseShuts, Returns DEF At, IInv
<1>6. QED
  BY <1>2, <1>3, <1>4, <1>5 DEF StatementFails

\* No session is open, so no merge is ready.
LEMMA RestartAlone ==
    ASSUME IInv, Alone, mode = "one", Restart PROVE Alone'
<1>1. /\ pc' = [c \in Callers |-> "new"] /\ job' = [c \in Callers |-> NoJob]
      /\ branch' = branch /\ request' = request /\ commits' = commits
      /\ session' = [s \in Sessions |-> IF IsOpen(s) THEN [session[s] EXCEPT !.state = "closed"]
                                        ELSE session[s]]
  BY DEF Restart, tables
<1>2. \A c \in Callers : /\ pc'[c] = "new" /\ job'[c] = NoJob
                         /\ ~Staging(pc'[c], job'[c]) /\ pc'[c] \notin Busy /\ pc'[c] \notin Creating
  BY <1>1, IdleReads DEF Busy
<1>3. ASSUME NEW s \in Sessions
      PROVE  session'[s].state # "open" /\ (session[s].state # "free" => session'[s].state # "free")
  BY <1>1 DEF IsOpen, IInv, TypeOK, SessionState
<1>4. \A r \in Requests : ~Staged(r)'
  BY <1>3 DEF Staged, IsOpen
<1>5. OneAtATime'
  BY <1>2 DEF OneAtATime
<1>6. ReadsHold'
  BY <1>2, IdleReads DEF ReadsHold
<1>7. Rescued'
  BY <1>2 DEF Rescued, Rescues, Covers, NoJob
<1>8. Room'
  BY <1>1, <1>2 DEF Alone, Room, ListActive, OpenBranches
<1>9. StagesApart'
  BY <1>1, <1>2, <1>3, <1>4 DEF Alone, StagesApart, IInv, TypeOK
<1>10. MergesOnce'
  BY <1>1, <1>4 DEF Alone, MergesOnce, Ready
<1>11. MergesSaved'
  BY <1>1 DEF Alone, MergesSaved
<1>12. QED
  BY <1>5, <1>6, <1>7, <1>8, <1>9, <1>10, <1>11 DEF Alone

\* Initially nothing is staged, and there is room.
LEMMA OneInvInit == Init => OneInv
<1> SUFFICES ASSUME Init PROVE Alone
  BY DEF OneInv
<1>1. /\ \A c \in Callers : pc[c] = "idle" /\ job[c] = NoJob /\ ~Staging(pc[c], job[c])
                            /\ pc[c] \notin Busy /\ pc[c] \notin Creating
      /\ \A b \in Branches : branch[b].status = "absent" /\ commits[b] = 0
      /\ \A r \in Requests : request[r].status = "absent"
  BY IdleReads DEF Init, Busy
<1>2. OneAtATime /\ ReadsHold /\ Rescued
  BY <1>1, IdleReads DEF OneAtATime, ReadsHold, Rescued, Rescues, Covers, NoJob
<1>3. Room
  <2>1. ListActive = {} /\ OpenBranches = {}
    BY <1>1 DEF ListActive, OpenBranches, Listed, Open
  <2>2. IsFiniteSet({}) /\ Cardinality({}) = 0
    BY FS_EmptySet
  <2>3. QED
    BY <1>1, <2>1, <2>2, BranchesAssumption DEF Room
<1>4. StagesApart /\ MergesOnce /\ MergesSaved
  BY <1>1 DEF StagesApart, MergesOnce, MergesSaved, Ready, Staged
<1>5. QED
  BY <1>2, <1>3, <1>4 DEF Alone

\* One instance stays one until it crashes.
LEMMA StaysOne == ASSUME [Next]_vars, mode' = "one" PROVE mode = "one"
<1>1. ASSUME NEW f, Fault(f) PROVE mode = "one"
  BY <1>1 DEF Fault
<1>2. CASE UNCHANGED env
  BY <1>2 DEF env
<1>3. ASSUME NEW c \in Callers, Lifecycle(c) PROVE mode = "one"
  BY <1>1, <1>2, <1>3
     DEF Lifecycle, CreateBranch, StartCreate, BeginSession, BeginFailed, InsertBranch, AbortBranch,
         AbortFailed, SetStatus, ReadStatus, WriteStatus, InvalidStatus, Recover, RecoverDone, RecoverBranch
<1>4. ASSUME NEW c \in Callers, Merging(c) PROVE mode = "one"
  BY <1>1, <1>2, <1>4
     DEF Merging, RequestMerge, AutoApprove, ApproveMerge, CommitMerge, ExecuteMerge, CollectChanges,
         Scan, SaveStaged, CommitStaging, CommitFailed, FinishRequest
<1>5. QED
  BY <1>1, <1>2, <1>3, <1>4 DEF Next, StatementFails, Crash, AgentWork, Restart, vars

\* Every step keeps the invariant of one instance.
LEMMA OneInvNext == ASSUME IInv, OneInv, [Next]_vars PROVE OneInv'
<1> SUFFICES ASSUME mode' = "one" PROVE Alone'
  BY DEF OneInv
<1>1. mode = "one" /\ Alone
  BY StaysOne DEF OneInv
<1>2. ASSUME NEW c \in Callers, Lifecycle(c) PROVE Alone'
  BY <1>1, <1>2, CreateBranchAlone, BeginSessionAlone, BeginFailedAlone, InsertBranchAlone,
     AbortBranchAlone, AbortFailedAlone, SetStatusAlone, ReadStatusAlone, WriteStatusAlone,
     InvalidStatusAlone, RecoverAlone, RecoverDoneAlone, RecoverBranchAlone DEF Lifecycle
<1>3. ASSUME NEW c \in Callers, Merging(c) PROVE Alone'
  BY <1>1, <1>3, RequestMergeAlone, AutoApproveAlone, ApproveMergeAlone, CommitMergeAlone,
     ExecuteMergeAlone, CollectChangesAlone, SaveStagedAlone, CommitStagingAlone,
     CommitFailedAlone, FinishRequestAlone DEF Merging
<1>4. ASSUME NEW c \in Callers, Crash(c) PROVE Alone'
  BY <1>4 DEF Crash, Fault
<1>5. CASE UNCHANGED vars \/ \E b \in Branches : AgentWork(b)
  BY <1>1, <1>5, NothingAlone DEF vars, sessions, AgentWork
<1>6. QED
  BY <1>1, <1>2, <1>3, <1>4, <1>5, StatementFailsAlone, RestartAlone DEF Next

\* The invariant of one instance.
LEMMA OneInvAlways == Spec => [](IInv /\ OneInv)
<1>1. Init => IInv /\ OneInv
  BY IInvInit, OneInvInit
<1>2. IInv /\ OneInv /\ [Next]_vars => IInv' /\ OneInv'
  BY IInvNext, OneInvNext
<1>3. QED
  BY <1>1, <1>2, PTL DEF Spec

\* One instance commits at most one merge of a branch (execute_merge,
\* commit_merge), however its merges overlap while they collect.
THEOREM OneCommitPerBranch == Spec => []OneMergeCommitted
<1>1. OneInv => OneMergeCommitted
  BY DEF OneInv, Alone, MergesOnce, OneMergeCommitted
<1>2. QED
  BY OneInvAlways, <1>1, PTL

\* One instance keeps the branches to be worked on within the limit, over
\* recoveries and restarts (check_branch_limit, recover_branches).
THEOREM BranchLimitHolds == Spec => []OpenWithinLimit
<1>1. OneInv => OpenWithinLimit
  BY DEF OneInv, Alone, Room, OpenBranches, OpenWithinLimit
<1>2. QED
  BY OneInvAlways, <1>1, PTL

\* With one instance a branch that is being merged has a request whose status is
\* ReadyToCommit (execute_merge, approve_merge, commit_merge).
THEOREM MergingBranchesAreStaged == Spec => []MergingIsStaged
<1>1. OneInv => MergingIsStaged
  BY DEF OneInv, Alone, MergesSaved, MergingIsStaged
<1>2. QED
  BY OneInvAlways, <1>1, PTL

\* When one instance has recovered and no statement has failed, no branch is
\* active and none is listed without its session (recover_branches).
THEOREM RecoverySettlesAll == Spec => RecoverySettles
<1> DEFINE Settled == mode = "one" /\ "sql" \notin faults =>
              \A c \in Callers : RecoverDone(c) =>
                  \A b \in Branches : /\ branch[b].status # "Active"
                                      /\ branch[b].status \in Listed => IsOpen(branch[b].session)
<1>1. ASSUME IInv, OneInv PROVE Settled
  <2> SUFFICES ASSUME mode = "one", "sql" \notin faults, NEW c \in Callers, RecoverDone(c),
                      NEW b \in Branches
               PROVE  /\ branch[b].status # "Active"
                      /\ branch[b].status \in Listed => IsOpen(branch[b].session)
    OBVIOUS
  <2>1. pc[c] = "recover" /\ job[c].todo = {}
    BY DEF RecoverDone, At
  <2>2. Rescues("recover", job[c], branch, session) /\ Covers("recover", job[c], branch, session)
    BY <1>1, <2>1 DEF OneInv, Alone, Rescued
  <2>3. ~Unsettled(b, branch, session)
    BY <2>1, <2>2 DEF Rescues, Covers
  <2>4. branch[b].status \in Listed => branch[b].session \in Sessions
    BY <1>1 DEF IInv, TypeOK, Listed, Open
  <2>5. QED
    BY <2>3, <2>4 DEF Unsettled, IsOpen
<1>2. IInv /\ OneInv => (Settled \/ UNCHANGED vars)
  BY <1>1
<1>3. (IInv /\ OneInv) /\ [Next]_vars => [Settled]_vars
  BY <1>1
<1>4. QED
  BY OneInvAlways, <1>3, PTL DEF Spec, RecoverySettles
=============================================================================
