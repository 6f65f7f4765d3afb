----------------------------- MODULE VfsSession -----------------------------
(***************************************************************************)
(* The kernel's copy-on-write workspace sessions                           *)
(* (brio-core/kernel/src/vfs).  SessionManager copies a base directory to  *)
(* a session directory, lets an agent edit the copy, and either commits    *)
(* the difference back to the base or rolls it back.                       *)
(*                                                                         *)
(* BrioHostState keeps the manager behind one mutex, held for the whole of *)
(* begin, commit, rollback and clean-up, so at most one operation is in    *)
(* flight: pc, cur, base, hash, put, del and stage are its locals.  What  *)
(* the mutex does not cover is the file system.  An operation is therefore *)
(* a sequence of steps, one per file-system call that others can observe,  *)
(* and agents, other processes, I/O errors and crashes come in between.    *)
(***************************************************************************)
CONSTANTS
    Roots,      \* user directories that sessions are begun on
    Sids,       \* session identifiers (UUID v4: each is used at most once)
    Paths,      \* relative paths of the users' files
    Contents,   \* contents a file may have
    Absent,     \* "no such file" in a tree
    Junk,       \* what a left-over staging directory holds
    None,       \* no directory / not tracked / local not in use
    Nested,     \* whether a session may be begun on another's directory
    Races,      \* who may write to a directory an operation is working on
    Faults      \* which failures may happen

ASSUME NestedAssumption == Nested \in BOOLEAN

ASSUME DirsAssumption == Roots \cap Sids = {} /\ None \notin Roots \cup Sids

ASSUME PathsAssumption == Paths \cap Sids = {}

ASSUME ContentsAssumption == Absent \notin Contents \cup {Junk}

VARIABLES
    fs,         \* the directories on disk, as trees
    tracked,    \* SessionManager.sessions
    used,       \* identifiers drawn so far
    written,    \* history: what was written to a session after it was begun
    pc, cur, base, hash, put, del, stage

locals == <<pc, cur, base, hash, put, del, stage>>
vars == <<fs, tracked, used, written, locals>>

Dirs == Roots \cup Sids

\* The name s of a tree stands for the files of a staging directory
\* .commit_<uuid> that a commit of s left behind.
Names == Paths \cup Sids
Trees == [Names -> Contents \cup {Junk, Absent}]
SessionInfo == [base : Dirs, hash : Trees]

EmptyTree == [n \in Names |-> Absent]

\* None stands for an absent Option: it is no value of the optional type.
ASSUME NoneAssumption == None \notin Trees /\ None \notin SessionInfo

Phases == {"idle", "copy", "diff", "stage", "apply", "clean"}

TypeOK ==
    /\ fs \in [Dirs -> Trees \cup {None}]
    /\ tracked \in [Sids -> SessionInfo \cup {None}]
    /\ used \subseteq Sids
    /\ written \in [Sids -> SUBSET Names]
    /\ pc \in Phases
    /\ cur \in Sids \cup {None}
    /\ base \in Dirs \cup {None}
    /\ hash \in Trees \cup {None}
    /\ put \subseteq Names
    /\ del \subseteq Names
    /\ stage \in Trees

Init ==
    /\ \E tree \in [Roots -> [Paths -> Contents \cup {Absent}]] :
          fs = [d \in Dirs |->
                  IF d \in Roots
                  THEN [n \in Names |-> IF n \in Paths THEN tree[d][n] ELSE Absent]
                  ELSE None]
    /\ tracked = [s \in Sids |-> None]
    /\ used = {}
    /\ written = [s \in Sids |-> {}]
    /\ pc = "idle"
    /\ cur = None /\ base = None /\ hash = None
    /\ put = {} /\ del = {} /\ stage = EmptyTree

\* The operation returns and the mutex is released.
Return ==
    /\ pc' = "idle"
    /\ cur' = None /\ base' = None /\ hash' = None
    /\ put' = {} /\ del' = {} /\ stage' = EmptyTree

Tracked(s) == tracked[s] # None
Untrack(s) == tracked' = [tracked EXCEPT ![s] = None]

\* File n of directory d becomes v.
SetFile(d, n, v) ==
    /\ fs' = [fs EXCEPT ![d] = [@ EXCEPT ![n] = v]]
    /\ written' = [s \in Sids |->
                     IF s = d THEN written[s] \cup {n} ELSE written[s]]

-----------------------------------------------------------------------------
(* begin_session *)

\* canonicalize and validate_path pass, then the base is hashed.  The hash is
\* a function of names and contents: the tree itself stands for it.
BeginSession(s, b) ==
    /\ pc = "idle"
    /\ s \notin used
    /\ b \in Roots \/ Nested
    /\ fs[b] # None
    /\ pc' = "copy" /\ cur' = s /\ base' = b /\ hash' = fs[b] /\ put' = Names
    /\ used' = used \cup {s}
    /\ fs' = [fs EXCEPT ![s] = EmptyTree]
    /\ UNCHANGED <<tracked, written, del, stage>>

\* One file of the directory walk is cloned.
CopyFile(n) ==
    /\ pc = "copy"
    /\ n \in put
    /\ fs[base][n] # Absent
    /\ fs' = [fs EXCEPT ![cur] = [@ EXCEPT ![n] = fs[base][n]]]
    /\ put' = put \ {n}
    /\ UNCHANGED <<tracked, used, written, pc, cur, base, hash, del, stage>>

\* Variant: a failed copy is registered all the same.
CopyFailedTracked ==
    /\ pc = "copy"
    /\ "copy" \in Faults
    /\ tracked' = [tracked EXCEPT ![cur] = [base |-> base, hash |-> hash]]
    /\ Return
    /\ UNCHANGED <<fs, used, written>>

\* The error leaves the partial copy on disk, tracked by nobody.
CopyFailed ==
    /\ pc = "copy"
    /\ "copy" \in Faults
    /\ Return
    /\ UNCHANGED <<fs, tracked, used, written>>

\* Variant: the session is registered before the copy is complete.
SessionBegunEarly ==
    /\ pc = "copy"
    /\ tracked' = [tracked EXCEPT ![cur] = [base |-> base, hash |-> hash]]
    /\ Return
    /\ UNCHANGED <<fs, used, written>>

SessionBegun ==
    /\ pc = "copy"
    /\ \A n \in put : fs[base][n] = Absent
    /\ tracked' = [tracked EXCEPT ![cur] = [base |-> base, hash |-> hash]]
    /\ Return
    /\ UNCHANGED <<fs, used, written>>

-----------------------------------------------------------------------------
(* commit_session *)

\* SessionDirectoryLost
CommitLost(s) ==
    /\ pc = "idle"
    /\ Tracked(s)
    /\ fs[s] = None
    /\ Untrack(s)
    /\ UNCHANGED <<fs, used, written, locals>>

\* Variant: no conflict detection.
CommitSessionUnchecked(s) ==
    /\ pc = "idle"
    /\ Tracked(s)
    /\ fs[s] # None
    /\ fs[tracked[s].base] # None
    /\ pc' = "diff" /\ cur' = s
    /\ base' = tracked[s].base /\ hash' = tracked[s].hash
    /\ UNCHANGED <<fs, tracked, used, written, put, del, stage>>

\* Conflict detection: the base is hashed again.  With another hash
\* (Conflict), or with no base to hash (DiffFailed), commit returns an error
\* and changes nothing.
CommitSession(s) ==
    /\ pc = "idle"
    /\ Tracked(s)
    /\ fs[s] # None
    /\ fs[tracked[s].base] = tracked[s].hash
    /\ pc' = "diff" /\ cur' = s
    /\ base' = tracked[s].base /\ hash' = tracked[s].hash
    /\ UNCHANGED <<fs, tracked, used, written, put, del, stage>>

\* Names whose files differ between the session and the base as it is now.
Changes == {n \in Names : fs[cur][n] # fs[base][n]}

\* A file of either directory cannot be read.
DiffFailed ==
    /\ pc = "diff"
    /\ "diff" \in Faults
    /\ Return
    /\ UNCHANGED <<fs, tracked, used, written>>

NothingToCommit ==
    /\ pc = "diff"
    /\ Changes = {}
    /\ Untrack(cur)
    /\ pc' = "clean"
    /\ UNCHANGED <<fs, used, written, cur, base, hash, put, del, stage>>

\* Variant: deletions are not carried over.
ComputeDiffAddsOnly ==
    /\ pc = "diff"
    /\ Changes # {}
    /\ pc' = "stage"
    /\ put' = {n \in Changes : fs[cur][n] # Absent}
    /\ del' = {}
    /\ UNCHANGED <<fs, tracked, used, written, cur, base, hash, stage>>

ComputeDiff ==
    /\ pc = "diff"
    /\ Changes # {}
    /\ pc' = "stage"
    /\ put' = {n \in Changes : fs[cur][n] # Absent}     \* Added, Modified
    /\ del' = {n \in Changes : fs[cur][n] = Absent}     \* Deleted
    /\ UNCHANGED <<fs, tracked, used, written, cur, base, hash, stage>>

\* apply_changes, phase 1: the new contents go to a directory inside the base.
StageFile(n) ==
    /\ pc = "stage"
    /\ n \in put
    /\ stage[n] = Absent
    /\ fs[cur][n] # Absent
    /\ stage' = [stage EXCEPT ![n] = fs[cur][n]]
    /\ UNCHANGED <<fs, tracked, used, written, pc, cur, base, hash, put, del>>

\* The staging directory stays where it is; the copy that was cut short may
\* have left a file there too.
LeaveStaging ==
    \/ /\ stage = EmptyTree
       /\ UNCHANGED <<fs, written>>
    \/ /\ stage # EmptyTree \/ (pc = "stage" /\ put # {})
       /\ SetFile(base, cur, Junk)

\* A failed copy returns at once: no clean-up, the session stays tracked.
StageFailed ==
    /\ pc = "stage"
    /\ "stage" \in Faults \/ \E n \in put : stage[n] = Absent /\ fs[cur][n] = Absent
    /\ LeaveStaging
    /\ Return
    /\ UNCHANGED <<tracked, used>>

AllStaged ==
    /\ pc = "stage"
    /\ \A n \in put : stage[n] # Absent
    /\ pc' = "apply"
    /\ UNCHANGED <<fs, tracked, used, written, cur, base, hash, put, del, stage>>

\* Phase 2: deletions first, then moves, in the order of a hash map's keys.
DeleteFile(n) ==
    /\ pc = "apply"
    /\ n \in del
    /\ SetFile(base, n, Absent)
    /\ del' = del \ {n}
    /\ UNCHANGED <<tracked, used, pc, cur, base, hash, put, stage>>

\* Variant: the change is not ticked off.
MoveFileAgain(n) ==
    /\ pc = "apply"
    /\ del = {}
    /\ n \in put
    /\ SetFile(base, n, stage[n])
    /\ UNCHANGED <<tracked, used, pc, cur, base, hash, put, del, stage>>

MoveFile(n) ==
    /\ pc = "apply"
    /\ del = {}
    /\ n \in put
    /\ SetFile(base, n, stage[n])
    /\ put' = put \ {n}
    /\ stage' = [stage EXCEPT ![n] = Absent]
    /\ UNCHANGED <<tracked, used, pc, cur, base, hash, del>>

\* A failed removal or rename ends phase 2.  The staging directory is removed
\* (an error of that is ignored); what was applied stays.
ApplyFailed ==
    /\ pc = "apply"
    /\ "apply" \in Faults
    /\ put \cup del # {}
    /\ \/ UNCHANGED <<fs, written>>
       \/ "cleanup" \in Faults /\ LeaveStaging
    /\ Return
    /\ UNCHANGED <<tracked, used>>

CommitApplied ==
    /\ pc = "apply"
    /\ put = {} /\ del = {}
    /\ Untrack(cur)
    /\ pc' = "clean"
    /\ UNCHANGED <<fs, used, written, cur, base, hash, put, del, stage>>

-----------------------------------------------------------------------------
(* rollback_session, cleanup_session_dir, cleanup_orphaned_sessions *)

\* Variant: the map keeps the session.
RollbackSessionStillTracked(s) ==
    /\ pc = "idle"
    /\ Tracked(s)
    /\ pc' = "clean" /\ cur' = s
    /\ UNCHANGED <<fs, tracked, used, written, base, hash, put, del, stage>>

RollbackSession(s) ==
    /\ pc = "idle"
    /\ Tracked(s)
    /\ Untrack(s)
    /\ pc' = "clean" /\ cur' = s
    /\ UNCHANGED <<fs, used, written, base, hash, put, del, stage>>

RemoveSessionDir ==
    /\ pc = "clean"
    /\ fs' = [fs EXCEPT ![cur] = None]
    /\ Return
    /\ UNCHANGED <<tracked, used, written>>

\* CleanupFailed, reported although the commit or the rollback took effect.
RemoveSessionDirFailed ==
    /\ pc = "clean"
    /\ "cleanup" \in Faults
    /\ fs[cur] # None
    /\ \E gone \in SUBSET Paths :
          fs' = [fs EXCEPT ![cur] =
                    [n \in Names |-> IF n \in gone THEN Absent ELSE fs[cur][n]]]
    /\ Return
    /\ UNCHANGED <<tracked, used, written>>

\* Variant: the sweep does not consult the map.
AllSessionDirs == {s \in Sids : fs[s] # None}

Orphans == {s \in Sids : fs[s] # None /\ ~Tracked(s)}

\* The sweep stops at the first directory it cannot remove.
CleanupOrphaned ==
    /\ pc = "idle"
    /\ \E gone \in SUBSET Orphans :
          /\ gone = Orphans \/ "cleanup" \in Faults
          /\ fs' = [d \in Dirs |-> IF d \in gone THEN None ELSE fs[d]]
    /\ UNCHANGED <<tracked, used, written, locals>>

-----------------------------------------------------------------------------
(* Everything the mutex does not order *)

MayWrite(actor, d) == d \in {cur, base} => actor \in Races

\* The agent edits its copy.
AgentWrite(s, p, v) ==
    /\ Tracked(s)
    /\ fs[s] # None
    /\ MayWrite("agent", s)
    /\ SetFile(s, p, v)
    /\ UNCHANGED <<tracked, used, locals>>

\* A user or another program edits the base directory.
ExternalWrite(b, p, v) ==
    /\ MayWrite("external", b)
    /\ SetFile(b, p, v)
    /\ UNCHANGED <<tracked, used, locals>>

\* A user removes a left-over staging directory.
ExternalTidy(b, s) ==
    /\ b # base
    /\ SetFile(b, s, Absent)
    /\ UNCHANGED <<tracked, used, locals>>

\* A cleaner of the temporary directory removes a session directory.
LoseSessionDir(s) ==
    /\ "lose" \in Faults
    /\ s \notin {cur, base}
    /\ fs' = [fs EXCEPT ![s] = None]
    /\ UNCHANGED <<tracked, used, written, locals>>

\* The kernel process dies: the map is lost, the directories stay.
Crash ==
    /\ "crash" \in Faults
    /\ pc = "apply" => "apply" \in Faults
    /\ LeaveStaging
    /\ tracked' = [s \in Sids |-> None]
    /\ Return
    /\ UNCHANGED used

-----------------------------------------------------------------------------

BeginNext == \/ \E s \in Sids, b \in Dirs : BeginSession(s, b)
             \/ \E n \in Names : CopyFile(n)
             \/ CopyFailed
             \/ SessionBegun

CommitNext == \/ \E s \in Sids : CommitLost(s) \/ CommitSession(s)
              \/ DiffFailed
              \/ NothingToCommit
              \/ ComputeDiff
              \/ \E n \in Names : StageFile(n)
              \/ StageFailed
              \/ AllStaged
              \/ \E n \in Names : DeleteFile(n) \/ MoveFile(n)
              \/ ApplyFailed
              \/ CommitApplied

CleanNext == \/ \E s \in Sids : RollbackSession(s)
             \/ RemoveSessionDir
             \/ RemoveSessionDirFailed
             \/ CleanupOrphaned

EnvNext == \/ \E p \in Paths, v \in Contents \cup {Absent} :
                 \/ \E s \in Sids : AgentWrite(s, p, v)
                 \/ \E b \in Roots : ExternalWrite(b, p, v)
           \/ \E b \in Roots, s \in Sids : ExternalTidy(b, s)
           \/ \E s \in Sids : LoseSessionDir(s)
           \/ Crash

Next == BeginNext \/ CommitNext \/ CleanNext \/ EnvNext

Spec == Init /\ [][Next]_vars

\* The thread that holds the mutex keeps running until it releases it.
Working == pc # "idle" /\ (BeginNext \/ CommitNext \/ CleanNext)

FairSpec == Spec /\ WF_vars(Working)

-----------------------------------------------------------------------------
(* What every step keeps, whoever writes meanwhile *)

RootsExist == \A b \in Roots : fs[b] # None

UnusedIsClean ==
    \A s \in Sids : s \notin used =>
        fs[s] = None /\ ~Tracked(s) /\ written[s] = {}

TrackedBase == \A s \in Sids : Tracked(s) => tracked[s].base # s

\* The two directories an operation works on stay where they are.
TwoDirs ==
    /\ cur \in Sids /\ base \in Dirs /\ cur # base
    /\ fs[cur] # None /\ fs[base] # None
    /\ hash \in Trees

CopyShape == pc = "copy" =>
    /\ TwoDirs
    /\ cur \in used /\ ~Tracked(cur) /\ written[cur] = {}

CommitShape == pc \in {"diff", "stage", "apply"} =>
    /\ TwoDirs
    /\ tracked[cur] = [base |-> base, hash |-> hash]

StageShape == \A n \in Names :
    stage[n] # Absent => n \in put /\ pc \in {"stage", "apply"}

CleanShape == pc = "clean" => cur \in Sids /\ ~Tracked(cur)

Shape ==
    /\ TypeOK
    /\ RootsExist
    /\ UnusedIsClean
    /\ TrackedBase
    /\ CopyShape
    /\ CommitShape
    /\ StageShape
    /\ CleanShape

-----------------------------------------------------------------------------
(* What every step keeps if nobody writes to a directory in use *)

\* A file that was not written since the session began is as it was hashed.
UnwrittenIsSnapshot ==
    \A s \in Sids : Tracked(s) /\ fs[s] # None =>
        \A n \in Names \ written[s] : fs[s][n] = tracked[s].hash[n]

CopyMatchesHash == pc = "copy" =>
    /\ fs[base] = hash
    /\ \A n \in Names : fs[cur][n] = IF n \in put THEN Absent ELSE hash[n]

\* Until phase 2 the base is as it was when the commit checked it.
DiffMatchesHash == pc \in {"diff", "stage"} => fs[base] = hash

\* Files still to be installed are untouched in the base, all others already
\* agree with the session.
InstallsRemaining == pc \in {"stage", "apply"} =>
    /\ put \cup del \subseteq written[cur] /\ put \cap del = {}
    /\ \A n \in put \cup del : fs[base][n] = hash[n]
    /\ \A n \in Names \ (put \cup del) : fs[base][n] = fs[cur][n]
    /\ \A n \in put : stage[n] \in {Absent, fs[cur][n]}
    /\ \A n \in del : fs[cur][n] = Absent
    /\ pc = "apply" => \A n \in put : stage[n] = fs[cur][n]

Inv ==
    /\ Shape
    /\ UnwrittenIsSnapshot
    /\ CopyMatchesHash
    /\ DiffMatchesHash
    /\ InstallsRemaining

-----------------------------------------------------------------------------
(* Properties *)

\* A step of phase 2 that changes file n of the base.
Installs(n) ==
    /\ pc = "apply" /\ pc' = "apply"
    /\ <<put, del>>' # <<put, del>>
    /\ fs'[base][n] # fs[base][n]

\* Commit overwrites or deletes a file only if the file is still what it was
\* when the session began (commit_with_conflict_detection, apply_changes).
NoLostUpdate == [][\A n \in Names : Installs(n) => fs[base][n] = hash[n]]_vars

\* Commit changes only files that were written in the session, by its agent or
\* by the commit of a session nested in it: a stale or torn copy of the base
\* (copy_dir_reflink) never flows back.
OnlySessionWrites == [][\A n \in Names : Installs(n) => n \in written[cur]]_vars

\* When commit succeeds the base equals the session directory, staging
\* leftovers included.
CommitInstallsSession ==
    [][(pc \in {"diff", "apply"} /\ pc' = "clean") => fs[base] = fs[cur]]_vars

\* A commit that returns an error leaves every user file as it found it
\* ("All-or-nothing commits prevent partial updates").  It does not hold:
\* apply_changes returns the first error of phase 2 with the files it has
\* deleted and moved by then.
FailedCommitKeepsFiles ==
    [][(pc \in {"diff", "stage", "apply"} /\ pc' = "idle" /\ tracked'[cur] # None)
          => \A p \in Paths : fs'[base][p] = hash[p]]_vars

\* The directory of a live session is never removed by the manager: not by the
\* sweep of orphans, nor by the end of another session.
LiveSessionsKeepDirs ==
    \A s \in Sids : Tracked(s) => fs[s] # None

\* Every operation returns and releases the mutex.
LockReleased == pc # "idle" ~> pc = "idle"
=============================================================================
