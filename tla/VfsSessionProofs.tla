-------------------------- MODULE VfsSessionProofs --------------------------
(***************************************************************************)
(* Proofs about VfsSession, for all sets of directories, sessions, files   *)
(* and faults.                                                             *)
(***************************************************************************)
EXTENDS VfsRefinement, TLAPS

\* The empty tree has no file.
LEMMA EmptyTreeType == EmptyTree \in Trees /\ \A n \in Names : EmptyTree[n] = Absent
BY DEF EmptyTree, Trees

\* SetFile keeps the types and every other directory.
LEMMA SetFileType ==
    ASSUME TypeOK, NEW d \in Dirs, NEW n \in Names,
           NEW v \in Contents \cup {Junk, Absent},
           fs[d] # None, SetFile(d, n, v)
    PROVE  /\ fs' \in [Dirs -> Trees \cup {None}]
           /\ written' \in [Sids -> SUBSET Names]
           /\ fs'[d] \in Trees
           /\ fs'[d][n] = v
           /\ \A m \in Names : m # n => fs'[d][m] = fs[d][m]
           /\ \A e \in Dirs : e # d => fs'[e] = fs[e]
           /\ \A e \in Dirs : fs'[e] = None <=> fs[e] = None
           /\ \A s \in Sids : s # d => written'[s] = written[s]
           /\ \A s \in Sids : written[s] \subseteq written'[s]
           /\ d \in Sids => n \in written'[d]
<1>1. fs[d] \in Trees /\ fs \in [Dirs -> Trees \cup {None}]
  BY DEF TypeOK
<1>2. fs' = [fs EXCEPT ![d] = [fs[d] EXCEPT ![n] = v]]
  BY DEF SetFile
<1>3. [fs[d] EXCEPT ![n] = v] \in Trees
  BY <1>1 DEF Trees
<1>4. /\ fs' \in [Dirs -> Trees \cup {None}]
      /\ fs'[d] = [fs[d] EXCEPT ![n] = v]
      /\ \A e \in Dirs : e # d => fs'[e] = fs[e]
  BY <1>1, <1>2, <1>3
<1>5. fs'[d][n] = v /\ \A m \in Names : m # n => fs'[d][m] = fs[d][m]
  BY <1>1, <1>4 DEF Trees
<1>6. \A e \in Dirs : fs'[e] = None <=> fs[e] = None
  BY <1>3, <1>4, NoneAssumption
<1>7. /\ written' \in [Sids -> SUBSET Names]
      /\ \A s \in Sids : s # d => written'[s] = written[s]
      /\ \A s \in Sids : written[s] \subseteq written'[s]
      /\ d \in Sids => n \in written'[d]
  BY DEF SetFile, TypeOK
<1>q. QED
  BY <1>3, <1>4, <1>5, <1>6, <1>7

\* An operation that ends leaves nothing of its locals.
LEMMA ReturnType ==
    ASSUME Return
    PROVE  /\ pc' = "idle" /\ pc' \in Phases
           /\ cur' \in Sids \cup {None} /\ base' \in Dirs \cup {None}
           /\ hash' \in Trees \cup {None}
           /\ put' \subseteq Names /\ del' \subseteq Names /\ stage' \in Trees
BY EmptyTreeType DEF Return, Phases

\* Once an operation has returned, only the directories, the map and the
\* drawn identifiers matter.
LEMMA ShapeAtRest ==
    ASSUME Return,
           fs' \in [Dirs -> Trees \cup {None}],
           tracked' \in [Sids -> SessionInfo \cup {None}],
           used' \subseteq Sids,
           written' \in [Sids -> SUBSET Names],
           RootsExist', UnusedIsClean', TrackedBase'
    PROVE  Shape'
BY ReturnType, EmptyTreeType
   DEF Return, Shape, TypeOK, CopyShape, CommitShape, StageShape, CleanShape

\* Initially there is no session.
LEMMA ShapeInit == Init => Shape
<1> SUFFICES ASSUME Init PROVE Shape
  OBVIOUS
<1>1. PICK tree \in [Roots -> [Paths -> Contents \cup {Absent}]] :
          fs = [d \in Dirs |->
                  IF d \in Roots
                  THEN [n \in Names |-> IF n \in Paths THEN tree[d][n] ELSE Absent]
                  ELSE None]
  BY DEF Init
<1>2. \A d \in Roots : [n \in Names |-> IF n \in Paths THEN tree[d][n] ELSE Absent]
                           \in Trees
  BY DEF Trees
<1>3. /\ fs \in [Dirs -> Trees \cup {None}]
      /\ \A d \in Roots : fs[d] # None
      /\ \A s \in Sids : fs[s] = None
  BY <1>1, <1>2, DirsAssumption, NoneAssumption DEF Dirs
<1>4. TypeOK
  BY <1>3, EmptyTreeType DEF Init, TypeOK, Phases
<1>5. QED
  BY <1>3, <1>4, EmptyTreeType
     DEF Init, Shape, RootsExist, UnusedIsClean, TrackedBase, Tracked,
         CopyShape, CommitShape, StageShape, CleanShape

\* begin_session keeps Shape.
LEMMA ShapeBegin == Shape /\ BeginNext => Shape'
<1> SUFFICES ASSUME Shape, BeginNext PROVE Shape'
  OBVIOUS
<1> USE DEF Shape, TypeOK, RootsExist, UnusedIsClean, TrackedBase, Tracked
<1>1. ASSUME NEW s \in Sids, NEW b \in Dirs, BeginSession(s, b)
      PROVE  Shape'
  <2>1. s # b /\ s \notin Roots /\ fs[s] = None /\ tracked[s] = None
    BY <1>1, DirsAssumption DEF BeginSession
  <2>2. fs' \in [Dirs -> Trees \cup {None}] /\ fs'[s] = EmptyTree /\ fs'[b] = fs[b]
        /\ \A e \in Dirs : e # s => fs'[e] = fs[e]
    BY <1>1, <2>1, EmptyTreeType DEF BeginSession, Dirs
  <2>3. TypeOK'
    BY <1>1, <2>2 DEF BeginSession, Phases
  <2>4. RootsExist' /\ UnusedIsClean' /\ TrackedBase'
    BY <1>1, <2>1, <2>2 DEF BeginSession, Dirs
  <2>5. TwoDirs'
    BY <1>1, <2>1, <2>2, EmptyTreeType, NoneAssumption DEF BeginSession, TwoDirs
  <2>6. CopyShape' /\ CommitShape' /\ StageShape' /\ CleanShape'
    BY <1>1, <2>1, <2>5
       DEF BeginSession, CopyShape, CommitShape, StageShape, CleanShape
  <2>7. QED
    BY <2>3, <2>4, <2>6
<1>2. ASSUME NEW n \in Names, CopyFile(n)
      PROVE  Shape'
  <2>1. TwoDirs /\ cur \in used /\ ~Tracked(cur) /\ written[cur] = {}
    BY <1>2 DEF CopyFile, CopyShape
  <2>2. cur \in Dirs /\ fs[cur] \in Trees /\ fs[base] \in Trees
    BY <2>1 DEF TwoDirs, Dirs
  <2>3. [fs[cur] EXCEPT ![n] = fs[base][n]] \in Trees
    BY <2>2 DEF Trees
  <2>4. /\ fs' \in [Dirs -> Trees \cup {None}]
        /\ fs'[cur] # None
        /\ \A e \in Dirs : e # cur => fs'[e] = fs[e]
    BY <1>2, <2>2, <2>3, NoneAssumption DEF CopyFile
  <2>5. TypeOK'
    BY <1>2, <2>4 DEF CopyFile
  <2>6. RootsExist' /\ UnusedIsClean' /\ TrackedBase'
    BY <1>2, <2>1, <2>4 DEF CopyFile, Dirs
  <2>7. CopyShape' /\ CommitShape' /\ StageShape' /\ CleanShape'
    BY <1>2, <2>1, <2>4
       DEF CopyFile, TwoDirs, CopyShape, CommitShape, StageShape, CleanShape
  <2>8. QED
    BY <2>5, <2>6, <2>7
<1>3. CopyFailed => Shape'
  BY ShapeAtRest DEF CopyFailed
<1>4. ASSUME SessionBegun
      PROVE  Shape'
  <2>1. TwoDirs /\ cur \in used
    BY <1>4 DEF SessionBegun, CopyShape
  <2>2. [base |-> base, hash |-> hash] \in SessionInfo
    BY <2>1 DEF TwoDirs, SessionInfo
  <2>3. tracked' \in [Sids -> SessionInfo \cup {None}]
    BY <1>4, <2>2 DEF SessionBegun
  <2>4. RootsExist' /\ UnusedIsClean' /\ TrackedBase'
    BY <1>4, <2>1 DEF SessionBegun, TwoDirs
  <2>5. QED
    BY <1>4, <2>3, <2>4, ShapeAtRest DEF SessionBegun
<1>5. QED
  BY <1>1, <1>2, <1>3, <1>4 DEF BeginNext

\* An action that leaves directories, map and history alone and stays within
\* one commit keeps Shape.
LEMMA ShapeWithinCommit ==
    ASSUME Shape, pc \in {"diff", "stage", "apply"}, pc' \in {"stage", "apply"},
           UNCHANGED <<fs, tracked, used, written, cur, base, hash>>,
           put' \subseteq Names, del' \subseteq Names, stage' \in Trees,
           StageShape'
    PROVE  Shape'
BY DEF Shape, TypeOK, RootsExist, UnusedIsClean, TrackedBase, Tracked,
       CopyShape, CommitShape, CleanShape, TwoDirs, Phases

\* So does one that writes a file of a directory that exists and changes
\* nothing but the locals put, del and stage besides.
LEMMA ShapeAfterWrite ==
    ASSUME Shape, NEW d \in Dirs, NEW n \in Names,
           NEW v \in Contents \cup {Junk, Absent},
           fs[d] # None, SetFile(d, n, v),
           pc = "copy" => d # cur,
           UNCHANGED <<tracked, used, pc, cur, base, hash>>,
           put' \subseteq Names, del' \subseteq Names, stage' \in Trees,
           StageShape'
    PROVE  Shape'
<1>1. /\ fs' \in [Dirs -> Trees \cup {None}]
      /\ written' \in [Sids -> SUBSET Names]
      /\ \A e \in Dirs : fs'[e] = None <=> fs[e] = None
      /\ \A s \in Sids : s # d => written'[s] = written[s]
  BY SetFileType DEF Shape
<1>2. TypeOK'
  BY <1>1 DEF Shape, TypeOK
<1>3. RootsExist' /\ UnusedIsClean' /\ TrackedBase'
  BY <1>1 DEF Shape, RootsExist, UnusedIsClean, TrackedBase, Tracked, Dirs
<1>4. TwoDirs => TwoDirs'
  BY <1>1 DEF TwoDirs, Dirs
<1>5. CopyShape' /\ CommitShape' /\ CleanShape'
  BY <1>1, <1>4 DEF Shape, CopyShape, CommitShape, CleanShape, Tracked, TwoDirs
<1>6. QED
  BY <1>2, <1>3, <1>5 DEF Shape

\* A failed commit and a crash leave the staging directory at most.
LEMMA LeaveStagingType ==
    ASSUME Shape, LeaveStaging,
           pc \in {"stage", "apply"} => TwoDirs
    PROVE  /\ fs' \in [Dirs -> Trees \cup {None}]
           /\ written' \in [Sids -> SUBSET Names]
           /\ \A e \in Dirs : fs'[e] = None <=> fs[e] = None
           /\ \A s \in Sids : fs[s] = None => written'[s] = written[s]
           /\ \A e \in Dirs : fs[e] # None => \A p \in Paths : fs'[e][p] = fs[e][p]
           /\ \A s \in Sids : written[s] \subseteq written'[s]
           /\ \A s \in Sids : \A n \in Names \ written'[s] : fs'[s][n] = fs[s][n]
<1>1. CASE UNCHANGED <<fs, written>>
  BY <1>1 DEF Shape, TypeOK
<1>2. CASE SetFile(base, cur, Junk) /\ (stage # EmptyTree \/ pc = "stage")
  <2>0. TwoDirs
    BY <1>2 DEF Shape, StageShape, TypeOK, Trees, EmptyTree
  <2>1. SetFile(base, cur, Junk) /\ base \in Dirs /\ cur \in Names /\ fs[base] # None
    BY <1>2, <2>0 DEF TwoDirs, Names
  <2>2. /\ fs' \in [Dirs -> Trees \cup {None}]
        /\ written' \in [Sids -> SUBSET Names]
        /\ \A m \in Names : m # cur => fs'[base][m] = fs[base][m]
        /\ \A e \in Dirs : e # base => fs'[e] = fs[e]
        /\ \A e \in Dirs : fs'[e] = None <=> fs[e] = None
        /\ \A s \in Sids : s # base => written'[s] = written[s]
        /\ \A s \in Sids : written[s] \subseteq written'[s]
        /\ base \in Sids => cur \in written'[base]
    BY <2>1, SetFileType DEF Shape
  <2>3. cur \notin Paths /\ Paths \subseteq Names
    BY <2>0, PathsAssumption DEF TwoDirs, Names
  <2>4. QED
    BY <2>1, <2>2, <2>3 DEF Dirs
<1>3. QED
  BY <1>1, <1>2 DEF LeaveStaging

\* commit_session keeps Shape.
LEMMA ShapeCommit == Shape /\ CommitNext => Shape'
<1> SUFFICES ASSUME Shape, CommitNext PROVE Shape'
  OBVIOUS
<1>a. TypeOK /\ RootsExist /\ UnusedIsClean /\ TrackedBase /\ CopyShape
      /\ CommitShape /\ StageShape /\ CleanShape
  BY DEF Shape
<1>1. ASSUME NEW s \in Sids, CommitLost(s)
      PROVE  Shape'
  BY <1>1, <1>a DEF CommitLost, Untrack, locals, Shape, TypeOK, RootsExist,
     UnusedIsClean, TrackedBase, Tracked, CopyShape, CommitShape, StageShape, CleanShape
<1>2. ASSUME NEW s \in Sids, CommitSession(s)
      PROVE  Shape'
  <2>1. /\ tracked[s] \in SessionInfo
        /\ tracked[s].base \in Dirs /\ tracked[s].hash \in Trees
        /\ tracked[s] = [base |-> tracked[s].base, hash |-> tracked[s].hash]
        /\ tracked[s].base # s
    BY <1>2, <1>a DEF CommitSession, Tracked, TypeOK, SessionInfo, TrackedBase
  <2>2. fs[tracked[s].base] # None
    BY <1>2, <2>1, NoneAssumption DEF CommitSession
  <2>3. TypeOK'
    BY <1>2, <1>a, <2>1 DEF CommitSession, TypeOK, Phases
  <2>4. CommitShape'
    BY <1>2, <2>1, <2>2 DEF CommitSession, CommitShape, TwoDirs
  <2>5. QED
    BY <1>2, <1>a, <2>3, <2>4 DEF CommitSession, Shape, RootsExist, UnusedIsClean,
       TrackedBase, Tracked, CopyShape, StageShape, CleanShape
<1>3. ASSUME NothingToCommit \/ CommitApplied
      PROVE  Shape'
  <2>1. cur \in Sids /\ tracked' = [tracked EXCEPT ![cur] = None] /\ pc' = "clean"
        /\ UNCHANGED <<fs, used, written, cur, base, hash, put, del, stage>>
    BY <1>3, <1>a DEF NothingToCommit, CommitApplied, Untrack, CommitShape, TwoDirs
  <2>2. TypeOK'
    BY <2>1, <1>a DEF TypeOK, Phases
  <2>3. QED
    BY <1>3, <2>1, <2>2, <1>a DEF Shape, RootsExist, UnusedIsClean, TrackedBase,
       TypeOK, Tracked, CopyShape, CommitShape, StageShape, CleanShape, CommitApplied,
       NothingToCommit
<1>4. ComputeDiff => Shape'
  BY <1>a, ShapeWithinCommit DEF ComputeDiff, Changes, TypeOK, StageShape
<1>5. ASSUME NEW n \in Names, StageFile(n)
      PROVE  Shape'
  <2>1. fs[cur] \in Trees
    BY <1>5, <1>a DEF StageFile, CommitShape, TwoDirs, Dirs, TypeOK
  <2>2. stage' \in Trees
    BY <1>5, <1>a, <2>1 DEF StageFile, TypeOK, Trees
  <2>3. QED
    BY <1>5, <1>a, <2>2, ShapeWithinCommit DEF StageFile, TypeOK, StageShape, Trees
<1>6. AllStaged => Shape'
  BY <1>a, ShapeWithinCommit DEF AllStaged, TypeOK, StageShape
<1>7. ASSUME NEW n \in Names, DeleteFile(n)
      PROVE  Shape'
  BY <1>7, <1>a, ShapeAfterWrite
     DEF DeleteFile, CommitShape, StageShape, TwoDirs, TypeOK
<1>8. ASSUME NEW n \in Names, MoveFile(n)
      PROVE  Shape'
  <2>1. stage[n] \in Contents \cup {Junk, Absent} /\ stage' \in Trees
    BY <1>8, <1>a DEF MoveFile, TypeOK, Trees
  <2>2. StageShape'
    BY <1>8, <1>a DEF MoveFile, StageShape, TypeOK, Trees
  <2>3. QED
    BY <1>8, <1>a, <2>1, <2>2, ShapeAfterWrite DEF MoveFile, CommitShape, TwoDirs, TypeOK
<1>9. ASSUME DiffFailed \/ StageFailed \/ ApplyFailed
      PROVE  Shape'
  <2>1. Return /\ UNCHANGED <<tracked, used>> /\ TwoDirs
        /\ (LeaveStaging \/ UNCHANGED <<fs, written>>)
    BY <1>9, <1>a DEF DiffFailed, StageFailed, ApplyFailed, CommitShape
  <2>2. CASE LeaveStaging
    <3>1. /\ fs' \in [Dirs -> Trees \cup {None}]
          /\ written' \in [Sids -> SUBSET Names]
          /\ \A e \in Dirs : fs'[e] = None <=> fs[e] = None
          /\ \A s \in Sids : fs[s] = None => written'[s] = written[s]
      BY <2>1, <2>2, LeaveStagingType
    <3>2. RootsExist' /\ UnusedIsClean' /\ TrackedBase'
      BY <2>1, <3>1, <1>a DEF RootsExist, UnusedIsClean, TrackedBase, Tracked, Dirs
    <3>3. QED
      BY <2>1, <3>1, <3>2, <1>a, ShapeAtRest DEF TypeOK
  <2>3. CASE UNCHANGED <<fs, written>>
    <3>1. RootsExist' /\ UnusedIsClean' /\ TrackedBase'
      BY <2>1, <2>3, <1>a DEF RootsExist, UnusedIsClean, TrackedBase, Tracked
    <3>2. QED
      BY <2>1, <2>3, <3>1, <1>a, ShapeAtRest DEF TypeOK
  <2>4. QED
    BY <2>1, <2>2, <2>3
<1>10. QED
  BY <1>1, <1>2, <1>3, <1>4, <1>5, <1>6, <1>7, <1>8, <1>9 DEF CommitNext

\* rollback_session, the clean-up of a session and the sweep keep Shape.
LEMMA ShapeClean == Shape /\ CleanNext => Shape'
<1> SUFFICES ASSUME Shape, CleanNext PROVE Shape'
  OBVIOUS
<1>a. TypeOK /\ RootsExist /\ UnusedIsClean /\ TrackedBase /\ CopyShape
      /\ CommitShape /\ StageShape /\ CleanShape
  BY DEF Shape
<1>1. ASSUME NEW s \in Sids, RollbackSession(s)
      PROVE  Shape'
  <2>1. TypeOK'
    BY <1>1, <1>a DEF RollbackSession, Untrack, TypeOK, Phases
  <2>2. QED
    BY <1>1, <2>1, <1>a DEF RollbackSession, Untrack, Shape, RootsExist, UnusedIsClean,
       TrackedBase, Tracked, TypeOK, CopyShape, CommitShape, StageShape, CleanShape
<1>2. ASSUME RemoveSessionDir
      PROVE  Shape'
  <2>1. /\ fs' \in [Dirs -> Trees \cup {None}]
        /\ \A e \in Dirs : e # cur => fs'[e] = fs[e]
        /\ cur \in Sids /\ fs'[cur] = None
    BY <1>2, <1>a DEF RemoveSessionDir, TypeOK, CleanShape, Dirs
  <2>2. RootsExist' /\ UnusedIsClean' /\ TrackedBase'
    BY <1>2, <2>1, <1>a, DirsAssumption
       DEF RemoveSessionDir, RootsExist, UnusedIsClean, TrackedBase, Tracked, Dirs
  <2>3. QED
    BY <1>2, <2>1, <2>2, <1>a, ShapeAtRest DEF RemoveSessionDir, TypeOK
<1>3. ASSUME RemoveSessionDirFailed
      PROVE  Shape'
  <2>1. PICK gone \in SUBSET Paths :
          fs' = [fs EXCEPT ![cur] = [n \in Names |-> IF n \in gone THEN Absent ELSE fs[cur][n]]]
    BY <1>3 DEF RemoveSessionDirFailed
  <2>2. cur \in Sids /\ cur \in Dirs /\ fs[cur] \in Trees
    BY <1>3, <1>a DEF RemoveSessionDirFailed, TypeOK, CleanShape, Dirs
  <2>3. [n \in Names |-> IF n \in gone THEN Absent ELSE fs[cur][n]] \in Trees
    BY <2>2 DEF Trees
  <2>4. /\ fs' \in [Dirs -> Trees \cup {None}]
        /\ \A e \in Dirs : e # cur => fs'[e] = fs[e]
    BY <2>1, <2>2, <2>3, <1>a DEF TypeOK
  <2>5. RootsExist' /\ UnusedIsClean' /\ TrackedBase'
    BY <1>3, <2>2, <2>4, <1>a, DirsAssumption
       DEF RemoveSessionDirFailed, RootsExist, UnusedIsClean, TrackedBase, Tracked, Dirs
  <2>6. QED
    BY <1>3, <2>4, <2>5, <1>a, ShapeAtRest DEF RemoveSessionDirFailed, TypeOK
<1>4. ASSUME CleanupOrphaned
      PROVE  Shape'
  <2>1. /\ fs' \in [Dirs -> Trees \cup {None}]
        /\ \A e \in Dirs : fs'[e] = fs[e] \/ (e \in Sids /\ ~Tracked(e) /\ fs'[e] = None)
    BY <1>4, <1>a DEF CleanupOrphaned, Orphans, TypeOK
  <2>2. RootsExist' /\ UnusedIsClean' /\ TrackedBase'
    BY <1>4, <2>1, <1>a, DirsAssumption DEF CleanupOrphaned, RootsExist, UnusedIsClean,
       TrackedBase, Tracked, Dirs
  <2>3. QED
    BY <1>4, <2>1, <2>2, <1>a DEF CleanupOrphaned, locals, Shape, TypeOK, CopyShape,
       CommitShape, StageShape, CleanShape
<1>5. QED
  BY <1>1, <1>2, <1>3, <1>4 DEF CleanNext

\* Whatever agents, users and crashes do in between keeps Shape.
LEMMA ShapeEnv == Shape /\ EnvNext => Shape'
<1> SUFFICES ASSUME Shape, EnvNext PROVE Shape'
  OBVIOUS
<1>a. TypeOK /\ RootsExist /\ UnusedIsClean /\ TrackedBase /\ CopyShape
      /\ CommitShape /\ StageShape /\ CleanShape
  BY DEF Shape
<1>w. ASSUME NEW d \in Dirs, NEW n \in Names, NEW v \in Contents \cup {Junk, Absent},
             fs[d] # None, SetFile(d, n, v), UNCHANGED <<tracked, used, locals>>,
             pc = "copy" => d # cur
      PROVE  Shape'
  BY <1>w, <1>a, ShapeAfterWrite DEF locals, TypeOK, StageShape
<1>1. ASSUME NEW p \in Paths, NEW v \in Contents \cup {Absent}, NEW s \in Sids,
             AgentWrite(s, p, v)
      PROVE  Shape'
  BY <1>1, <1>a, <1>w DEF AgentWrite, CopyShape, Dirs, Names
<1>2. ASSUME NEW p \in Paths, NEW v \in Contents \cup {Absent}, NEW b \in Roots,
             ExternalWrite(b, p, v)
      PROVE  Shape'
  BY <1>2, <1>a, <1>w, DirsAssumption
     DEF ExternalWrite, RootsExist, CopyShape, TwoDirs, Dirs, Names
<1>3. ASSUME NEW b \in Roots, NEW s \in Sids, ExternalTidy(b, s)
      PROVE  Shape'
  BY <1>3, <1>a, <1>w, DirsAssumption
     DEF ExternalTidy, RootsExist, CopyShape, TwoDirs, Dirs, Names
<1>4. ASSUME NEW s \in Sids, LoseSessionDir(s)
      PROVE  Shape'
  <2>1. /\ fs' \in [Dirs -> Trees \cup {None}]
        /\ \A e \in Dirs : e # s => fs'[e] = fs[e]
        /\ fs'[s] = None
    BY <1>4, <1>a DEF LoseSessionDir, TypeOK, Dirs
  <2>2. TwoDirs => TwoDirs'
    BY <1>4, <2>1 DEF LoseSessionDir, TwoDirs, locals, Dirs
  <2>3. QED
    BY <1>4, <2>1, <2>2, <1>a, DirsAssumption
       DEF LoseSessionDir, locals, Shape, TypeOK, RootsExist, UnusedIsClean,
           TrackedBase, Tracked, CopyShape, CommitShape, StageShape, CleanShape, Dirs
<1>5. ASSUME Crash
      PROVE  Shape'
  <2>1. /\ fs' \in [Dirs -> Trees \cup {None}]
        /\ written' \in [Sids -> SUBSET Names]
        /\ \A e \in Dirs : fs'[e] = None <=> fs[e] = None
        /\ \A s \in Sids : fs[s] = None => written'[s] = written[s]
    BY <1>5, <1>a, LeaveStagingType DEF Crash, CommitShape
  <2>2. RootsExist' /\ UnusedIsClean' /\ TrackedBase'
    BY <1>5, <2>1, <1>a DEF Crash, RootsExist, UnusedIsClean, TrackedBase, Tracked, Dirs
  <2>3. QED
    BY <1>5, <2>1, <2>2, <1>a, ShapeAtRest DEF Crash, TypeOK
<1>6. QED
  BY <1>1, <1>2, <1>3, <1>4, <1>5 DEF EnvNext

\* Types and the relation between the map, the disk and the operation in
\* flight hold whatever the races and faults.
THEOREM ShapeAlways == Spec => []Shape
<1>1. Shape /\ [Next]_vars => Shape'
  <2> SUFFICES ASSUME Shape, [Next]_vars PROVE Shape'
    OBVIOUS
  <2>1. CASE Next
    BY <2>1, ShapeBegin, ShapeCommit, ShapeClean, ShapeEnv DEF Next
  <2>2. CASE UNCHANGED vars
    BY <2>2 DEF vars, locals, Shape, TypeOK, RootsExist, UnusedIsClean, TrackedBase,
       Tracked, CopyShape, CommitShape, StageShape, CleanShape, TwoDirs
  <2>3. QED
    BY <2>1, <2>2
<1>2. QED
  BY ShapeInit, <1>1, PTL DEF Spec

\* Every variable keeps its type.
THEOREM TypeCorrect == Spec => []TypeOK
<1>1. Shape => TypeOK
  BY DEF Shape
<1>2. QED
  BY <1>1, ShapeAlways, PTL

-----------------------------------------------------------------------------
(* From here on nobody writes to a directory an operation is working on.   *)

\* The environment leaves the directories in use alone, or the kernel dies.
LEMMA EnvLeavesDirsInUse ==
    ASSUME Races = {}, Shape, EnvNext
    PROVE  \/ pc' = "idle"
           \/ /\ UNCHANGED <<tracked, used, locals>>
              /\ \A e \in Dirs : e \in {cur, base} => fs'[e] = fs[e]
              /\ \A s \in Sids : s = cur => written'[s] = written[s]
<1>w. ASSUME NEW d \in Dirs, NEW n \in Names, NEW v \in Contents \cup {Junk, Absent},
             fs[d] # None, SetFile(d, n, v), d \notin {cur, base}
      PROVE  /\ \A e \in Dirs : e \in {cur, base} => fs'[e] = fs[e]
             /\ \A s \in Sids : s = cur => written'[s] = written[s]
  BY <1>w, SetFileType DEF Shape
<1>1. ASSUME NEW p \in Paths, NEW v \in Contents \cup {Absent}, NEW s \in Sids,
             AgentWrite(s, p, v)
      PROVE  /\ UNCHANGED <<tracked, used, locals>>
             /\ \A e \in Dirs : e \in {cur, base} => fs'[e] = fs[e]
             /\ \A t \in Sids : t = cur => written'[t] = written[t]
  BY <1>1, <1>w DEF AgentWrite, MayWrite, Dirs, Names
<1>2. ASSUME NEW p \in Paths, NEW v \in Contents \cup {Absent}, NEW b \in Roots,
             ExternalWrite(b, p, v)
      PROVE  /\ UNCHANGED <<tracked, used, locals>>
             /\ \A e \in Dirs : e \in {cur, base} => fs'[e] = fs[e]
             /\ \A t \in Sids : t = cur => written'[t] = written[t]
  BY <1>2, <1>w DEF ExternalWrite, MayWrite, Shape, RootsExist, Dirs, Names
<1>3. ASSUME NEW b \in Roots, NEW s \in Sids, ExternalTidy(b, s)
      PROVE  /\ UNCHANGED <<tracked, used, locals>>
             /\ \A e \in Dirs : e \in {cur, base} => fs'[e] = fs[e]
             /\ \A t \in Sids : t = cur => written'[t] = written[t]
  <2>1. b # cur
    BY DirsAssumption DEF Shape, TypeOK
  <2>2. QED
    BY <1>3, <2>1, <1>w DEF ExternalTidy, Shape, RootsExist, Dirs, Names
<1>4. ASSUME NEW s \in Sids, LoseSessionDir(s)
      PROVE  /\ UNCHANGED <<tracked, used, locals>>
             /\ \A e \in Dirs : e \in {cur, base} => fs'[e] = fs[e]
             /\ \A t \in Sids : t = cur => written'[t] = written[t]
  BY <1>4 DEF LoseSessionDir, Shape, TypeOK
<1>5. Crash => pc' = "idle"
  BY DEF Crash, Return
<1>6. QED
  BY <1>1, <1>2, <1>3, <1>4, <1>5 DEF EnvNext

\* A copy agrees with the hash file by file, so the session starts as the base
\* was hashed.
LEMMA CopyStep ==
    ASSUME Races = {}, Inv, Next
    PROVE  CopyMatchesHash'
<1> SUFFICES ASSUME pc' = "copy" PROVE CopyMatchesHash'
  BY DEF CopyMatchesHash
<1>1. ASSUME NEW s \in Sids, NEW b \in Dirs, BeginSession(s, b)
      PROVE  CopyMatchesHash'
  <2>1. s # b /\ s \in Dirs /\ fs[b] \in Trees
    BY <1>1 DEF BeginSession, Inv, Shape, TypeOK, UnusedIsClean, Dirs
  <2>2. fs'[s] = EmptyTree /\ fs'[b] = fs[b]
    BY <1>1, <2>1 DEF BeginSession, Inv, Shape, TypeOK
  <2>3. QED
    BY <1>1, <2>1, <2>2, EmptyTreeType DEF BeginSession, CopyMatchesHash
<1>2. ASSUME NEW n \in Names, CopyFile(n)
      PROVE  CopyMatchesHash'
  <2>1. /\ cur \in Dirs /\ base \in Dirs /\ cur # base
        /\ fs[cur] \in Trees /\ fs[base] = hash
        /\ \A m \in Names : fs[cur][m] = IF m \in put THEN Absent ELSE hash[m]
    BY <1>2 DEF CopyFile, Inv, Shape, TypeOK, CopyShape, TwoDirs, CopyMatchesHash, Dirs
  <2>2. fs'[cur] = [fs[cur] EXCEPT ![n] = hash[n]] /\ fs'[base] = hash
    BY <1>2, <2>1 DEF CopyFile, Inv, Shape, TypeOK
  <2>3. \A m \in Names : fs'[cur][m] = IF m = n THEN hash[n] ELSE fs[cur][m]
    BY <2>1, <2>2 DEF Trees
  <2>4. QED
    BY <1>2, <2>1, <2>2, <2>3 DEF CopyFile, CopyMatchesHash
<1>3. CASE EnvNext
  <2>1. /\ UNCHANGED <<tracked, used, locals>>
        /\ \A e \in Dirs : e \in {cur, base} => fs'[e] = fs[e]
    BY <1>3, EnvLeavesDirsInUse DEF Inv
  <2>2. QED
    BY <2>1 DEF locals, CopyMatchesHash, Inv, Shape, CopyShape, TwoDirs, Dirs
<1>4. ~CommitNext
  BY DEF CommitNext, CommitLost, CommitSession, DiffFailed, NothingToCommit, ComputeDiff, StageFile,
         StageFailed, AllStaged, DeleteFile, MoveFile, ApplyFailed, CommitApplied, Return,
         locals
<1>5. ~CleanNext
  BY DEF CleanNext, RollbackSession, RemoveSessionDir, RemoveSessionDirFailed,
         CleanupOrphaned, Return, locals
<1>6. ~(CopyFailed \/ SessionBegun)
  BY DEF CopyFailed, SessionBegun, Return
<1>7. QED
  BY <1>1, <1>2, <1>3, <1>4, <1>5, <1>6 DEF Next, BeginNext

\* Between the check of the hash and phase 2 the base does not move.
LEMMA DiffStep ==
    ASSUME Races = {}, Inv, Next
    PROVE  DiffMatchesHash'
<1> SUFFICES ASSUME pc' \in {"diff", "stage"} PROVE DiffMatchesHash'
  BY DEF DiffMatchesHash
<1>1. ASSUME NEW s \in Sids, CommitSession(s)
      PROVE  DiffMatchesHash'
  BY <1>1 DEF CommitSession, DiffMatchesHash
<1>2. CASE EnvNext
  <2>1. /\ UNCHANGED <<tracked, used, locals>>
        /\ \A e \in Dirs : e \in {cur, base} => fs'[e] = fs[e]
    BY <1>2, EnvLeavesDirsInUse DEF Inv
  <2>2. QED
    BY <2>1 DEF locals, DiffMatchesHash, Inv, Shape, CommitShape, TwoDirs, Dirs
<1>3. ASSUME ComputeDiff \/ \E n \in Names : StageFile(n)
      PROVE  DiffMatchesHash'
  BY <1>3 DEF ComputeDiff, StageFile, DiffMatchesHash, Inv
<1>4. ~BeginNext
  BY DEF BeginNext, BeginSession, CopyFile, CopyFailed, SessionBegun, Return
<1>5. ~CleanNext
  BY DEF CleanNext, RollbackSession, RemoveSessionDir, RemoveSessionDirFailed,
         CleanupOrphaned, Return, locals
<1>6. ~(DiffFailed \/ NothingToCommit \/ StageFailed \/ AllStaged \/ ApplyFailed \/ CommitApplied
         \/ (\E s \in Sids : CommitLost(s)) \/ \E n \in Names : DeleteFile(n) \/ MoveFile(n))
  BY DEF CommitLost, DiffFailed, NothingToCommit, StageFailed, AllStaged, DeleteFile, MoveFile,
         ApplyFailed, CommitApplied, Return, locals
<1>7. QED
  BY <1>1, <1>2, <1>3, <1>4, <1>5, <1>6 DEF Next, CommitNext

\* The map and the directories of other sessions while a commit installs.
LEMMA InstallWrites ==
    ASSUME Inv, pc = "apply", NEW n \in Names, NEW v \in Contents \cup {Junk, Absent},
           SetFile(base, n, v)
    PROVE  /\ base \in Dirs /\ cur \in Dirs /\ fs[base] # None
           /\ fs'[cur] = fs[cur] /\ written'[cur] = written[cur]
           /\ fs'[base][n] = v
           /\ \A m \in Names : m # n => fs'[base][m] = fs[base][m]
<1>1. TwoDirs /\ base \in Dirs /\ cur \in Dirs /\ TypeOK
  BY DEF Inv, Shape, CommitShape, TwoDirs, Dirs
<1>2. QED
  BY <1>1, SetFileType DEF TwoDirs

\* Phase 2 installs a file only while the base still holds what was hashed,
\* and what it installed agrees with the session.
LEMMA ApplyStep ==
    ASSUME Races = {}, Inv, Next
    PROVE  InstallsRemaining'
<1> SUFFICES ASSUME pc' \in {"stage", "apply"} PROVE InstallsRemaining'
  BY DEF InstallsRemaining
<1>1. CASE ComputeDiff
  <2>1. /\ fs[base] = hash /\ cur \in Sids /\ Tracked(cur) /\ fs[cur] # None
        /\ tracked[cur].hash = hash
    BY <1>1, NoneAssumption
       DEF ComputeDiff, Inv, DiffMatchesHash, Shape, TypeOK, CommitShape, TwoDirs,
           Tracked, SessionInfo
  <2>2. \A n \in Names \ written[cur] : fs[cur][n] = hash[n]
    BY <2>1 DEF Inv, UnwrittenIsSnapshot
  <2>3. put' \cup del' = {n \in Names : fs[cur][n] # fs[base][n]}
    BY <1>1 DEF ComputeDiff, Changes
  <2>4. \A n \in Names : stage[n] = Absent
    BY <1>1 DEF ComputeDiff, Inv, Shape, StageShape
  <2>5. QED
    BY <1>1, <2>1, <2>2, <2>3, <2>4 DEF ComputeDiff, Changes, InstallsRemaining
<1>2. ASSUME NEW n \in Names, StageFile(n)
      PROVE  InstallsRemaining'
  BY <1>2 DEF StageFile, Inv, Shape, TypeOK, Trees, InstallsRemaining
<1>3. CASE AllStaged
  BY <1>3 DEF AllStaged, Inv, Shape, TypeOK, InstallsRemaining
<1>4. ASSUME NEW n \in Names, DeleteFile(n)
      PROVE  InstallsRemaining'
  <2>1. /\ fs'[cur] = fs[cur] /\ written'[cur] = written[cur]
        /\ fs'[base][n] = Absent /\ fs[cur][n] = Absent
        /\ \A m \in Names : m # n => fs'[base][m] = fs[base][m]
    BY <1>4, InstallWrites DEF DeleteFile, Inv, InstallsRemaining
  <2>2. put \cup del \subseteq Names
    BY DEF Inv, Shape, TypeOK
  <2>3. QED
    BY <1>4, <2>1, <2>2 DEF DeleteFile, Inv, InstallsRemaining
<1>5. ASSUME NEW n \in Names, MoveFile(n)
      PROVE  InstallsRemaining'
  <2>1. stage[n] \in Contents \cup {Junk, Absent} /\ stage[n] = fs[cur][n]
    BY <1>5 DEF MoveFile, Inv, Shape, TypeOK, Trees, InstallsRemaining
  <2>2. /\ fs'[cur] = fs[cur] /\ written'[cur] = written[cur]
        /\ fs'[base][n] = fs[cur][n]
        /\ \A m \in Names : m # n => fs'[base][m] = fs[base][m]
    BY <1>5, <2>1, InstallWrites DEF MoveFile
  <2>3. \A m \in Names : m # n => stage'[m] = stage[m]
    BY <1>5 DEF MoveFile, Inv, Shape, TypeOK, Trees
  <2>4. QED
    BY <1>5, <2>1, <2>2, <2>3 DEF MoveFile, Inv, Shape, TypeOK, InstallsRemaining
<1>6. CASE EnvNext
  <2>1. /\ UNCHANGED <<tracked, used, locals>>
        /\ \A e \in Dirs : e \in {cur, base} => fs'[e] = fs[e]
        /\ \A s \in Sids : s = cur => written'[s] = written[s]
    BY <1>6, EnvLeavesDirsInUse DEF Inv
  <2>2. cur \in Sids /\ cur \in Dirs /\ base \in Dirs
    BY <2>1 DEF locals, Inv, Shape, CommitShape, TwoDirs, Dirs
  <2>3. QED
    BY <2>1, <2>2 DEF locals, Inv, InstallsRemaining
<1>7. ~BeginNext
  BY DEF BeginNext, BeginSession, CopyFile, CopyFailed, SessionBegun, Return
<1>8. ~CleanNext
  BY DEF CleanNext, RollbackSession, RemoveSessionDir, RemoveSessionDirFailed,
         CleanupOrphaned, Return, locals
<1>9. ~(DiffFailed \/ StageFailed \/ ApplyFailed \/ NothingToCommit \/ CommitApplied
         \/ \E s \in Sids : CommitLost(s) \/ CommitSession(s))
  BY DEF DiffFailed, StageFailed, ApplyFailed, NothingToCommit, CommitApplied, CommitLost,
         CommitSession, Return, locals
<1>10. QED
  BY <1>1, <1>2, <1>3, <1>4, <1>5, <1>6, <1>7, <1>8, <1>9 DEF Next, CommitNext

\* A step that keeps the map and changes session directories only by recorded
\* writes or by removing them keeps what was not written.
LEMMA UnwrittenKept ==
    ASSUME Inv,
           \A s \in Sids : Tracked(s)' =>
              /\ Tracked(s) /\ tracked'[s] = tracked[s]
              /\ written[s] \subseteq written'[s]
              /\ fs'[s] # None => fs[s] # None
              /\ fs'[s] # None =>
                    \A n \in Names \ written'[s] : fs'[s][n] = fs[s][n]
    PROVE  UnwrittenIsSnapshot'
BY DEF Inv, UnwrittenIsSnapshot, Tracked

\* A file nobody writes in a session stays as it was hashed.
LEMMA SnapshotStep ==
    ASSUME Inv, Next
    PROVE  UnwrittenIsSnapshot'
<1>a. Shape /\ TypeOK
  BY DEF Inv, Shape
<1>w. ASSUME NEW d \in Dirs, NEW n \in Names, NEW v \in Contents \cup {Junk, Absent},
             fs[d] # None, SetFile(d, n, v), UNCHANGED tracked
      PROVE  UnwrittenIsSnapshot'
  <2>1. /\ \A m \in Names : m # n => fs'[d][m] = fs[d][m]
        /\ \A e \in Dirs : e # d => fs'[e] = fs[e]
        /\ \A e \in Dirs : fs'[e] = None <=> fs[e] = None
        /\ \A s \in Sids : written[s] \subseteq written'[s]
        /\ d \in Sids => n \in written'[d]
    BY <1>a, <1>w, SetFileType
  <2>2. QED
    BY <1>w, <2>1, UnwrittenKept DEF Tracked, Dirs
<1>l. ASSUME LeaveStaging, pc \in {"stage", "apply"} => TwoDirs,
             \A s \in Sids : Tracked(s)' => tracked'[s] = tracked[s]
      PROVE  UnwrittenIsSnapshot'
  <2>1. /\ \A e \in Dirs : fs'[e] = None <=> fs[e] = None
        /\ \A s \in Sids : written[s] \subseteq written'[s]
        /\ \A s \in Sids : \A n \in Names \ written'[s] : fs'[s][n] = fs[s][n]
    BY <1>a, <1>l, LeaveStagingType
  <2>2. QED
    BY <1>l, <2>1, UnwrittenKept DEF Tracked, Dirs
<1>u. ASSUME UNCHANGED <<fs, written>>,
             \A s \in Sids : Tracked(s)' => tracked'[s] = tracked[s]
      PROVE  UnwrittenIsSnapshot'
  BY <1>u, UnwrittenKept DEF Tracked
<1>1. CASE BeginNext
  <2>1. ASSUME NEW s \in Sids, NEW b \in Dirs, BeginSession(s, b)
        PROVE  UnwrittenIsSnapshot'
    BY <2>1, <1>a, UnwrittenKept DEF BeginSession, Shape, TypeOK, UnusedIsClean, Tracked, Dirs
  <2>2. ASSUME NEW n \in Names, CopyFile(n)
        PROVE  UnwrittenIsSnapshot'
    BY <2>2, <1>a, UnwrittenKept DEF CopyFile, Shape, TypeOK, CopyShape, TwoDirs, Tracked, Dirs
  <2>3. CopyFailed => UnwrittenIsSnapshot'
    BY <1>u DEF CopyFailed
  <2>4. ASSUME SessionBegun
        PROVE  UnwrittenIsSnapshot'
    <3>1. cur \in Sids /\ tracked'[cur] = [base |-> base, hash |-> hash]
          /\ \A s \in Sids : s # cur => tracked'[s] = tracked[s]
      BY <2>4, <1>a DEF SessionBegun, Shape, TypeOK, CopyShape, TwoDirs
    <3>2. \A n \in Names : fs[cur][n] = hash[n]
      BY <2>4 DEF SessionBegun, Inv, CopyMatchesHash
    <3>3. QED
      BY <2>4, <3>1, <3>2 DEF SessionBegun, Inv, UnwrittenIsSnapshot, Tracked
  <2>5. QED
    BY <1>1, <2>1, <2>2, <2>3, <2>4 DEF BeginNext
<1>2. CASE CommitNext
  <2>1. ASSUME NEW s \in Sids, CommitLost(s)
        PROVE  UnwrittenIsSnapshot'
    BY <2>1, <1>a, <1>u DEF CommitLost, Untrack, Tracked, TypeOK
  <2>2. ASSUME NEW n \in Names, DeleteFile(n)
        PROVE  UnwrittenIsSnapshot'
    BY <2>2, <1>a, <1>w DEF DeleteFile, Shape, CommitShape, TwoDirs
  <2>3. ASSUME NEW n \in Names, MoveFile(n)
        PROVE  UnwrittenIsSnapshot'
    BY <2>3, <1>a, <1>w DEF MoveFile, Shape, CommitShape, TwoDirs, TypeOK, Trees
  <2>4. DiffFailed \/ StageFailed \/ ApplyFailed => UnwrittenIsSnapshot'
    BY <1>a, <1>l, <1>u DEF DiffFailed, StageFailed, ApplyFailed, Shape, CommitShape, Tracked
  <2>5. NothingToCommit \/ CommitApplied => UnwrittenIsSnapshot'
    BY <1>a, <1>u DEF NothingToCommit, CommitApplied, Untrack, Tracked, TypeOK, Shape,
                      CommitShape, TwoDirs
  <2>6. (\E s \in Sids : CommitSession(s)) \/ ComputeDiff \/ AllStaged
           \/ (\E n \in Names : StageFile(n)) => UnwrittenIsSnapshot'
    BY <1>u DEF CommitSession, ComputeDiff, AllStaged, StageFile
  <2>7. QED
    BY <1>2, <2>1, <2>2, <2>3, <2>4, <2>5, <2>6 DEF CommitNext
<1>3. CASE CleanNext
  <2>1. ASSUME NEW s \in Sids, RollbackSession(s)
        PROVE  UnwrittenIsSnapshot'
    BY <2>1, <1>a, <1>u DEF RollbackSession, Untrack, Tracked, TypeOK
  <2>2. RemoveSessionDir \/ RemoveSessionDirFailed => UnwrittenIsSnapshot'
    BY <1>a, UnwrittenKept DEF RemoveSessionDir, RemoveSessionDirFailed, Shape, TypeOK,
                               CleanShape, Tracked, Dirs
  <2>3. CleanupOrphaned => UnwrittenIsSnapshot'
    BY <1>a, UnwrittenKept DEF CleanupOrphaned, Orphans, Tracked, Dirs
  <2>4. QED
    BY <1>3, <2>1, <2>2, <2>3 DEF CleanNext
<1>4. CASE EnvNext
  <2>1. ASSUME NEW p \in Paths, NEW v \in Contents \cup {Absent}, NEW s \in Sids,
               AgentWrite(s, p, v)
        PROVE  UnwrittenIsSnapshot'
    BY <2>1, <1>w DEF AgentWrite, Dirs, Names
  <2>2. ASSUME NEW p \in Paths, NEW v \in Contents \cup {Absent}, NEW b \in Roots,
               ExternalWrite(b, p, v)
        PROVE  UnwrittenIsSnapshot'
    BY <2>2, <1>a, <1>w DEF ExternalWrite, Shape, RootsExist, Dirs, Names
  <2>3. ASSUME NEW b \in Roots, NEW s \in Sids, ExternalTidy(b, s)
        PROVE  UnwrittenIsSnapshot'
    BY <2>3, <1>a, <1>w DEF ExternalTidy, Shape, RootsExist, Dirs, Names
  <2>4. ASSUME NEW s \in Sids, LoseSessionDir(s)
        PROVE  UnwrittenIsSnapshot'
    BY <2>4, <1>a, UnwrittenKept DEF LoseSessionDir, TypeOK, Tracked, Dirs
  <2>5. Crash => UnwrittenIsSnapshot'
    BY <1>a, <1>l DEF Crash, Shape, CommitShape, Tracked
  <2>6. QED
    BY <1>4, <2>1, <2>2, <2>3, <2>4, <2>5 DEF EnvNext
<1>5. QED
  BY <1>1, <1>2, <1>3, <1>4 DEF Next

\* Initially nothing is being copied or installed.
LEMMA InvInit == Init => Inv
<1> SUFFICES ASSUME Init PROVE Inv
  OBVIOUS
<1>1. QED
  BY ShapeInit DEF Init, Inv, UnwrittenIsSnapshot, CopyMatchesHash, DiffMatchesHash,
                   InstallsRemaining, Tracked

\* Every step keeps the invariant if nobody writes in between.
LEMMA InvStep == Races = {} /\ Inv /\ [Next]_vars => Inv'
<1> SUFFICES ASSUME Races = {}, Inv, [Next]_vars PROVE Inv'
  OBVIOUS
<1>1. CASE Next
  <2>1. Shape'
    BY <1>1, ShapeBegin, ShapeCommit, ShapeClean, ShapeEnv DEF Next, Inv
  <2>2. QED
    BY <1>1, <2>1, SnapshotStep, CopyStep, DiffStep, ApplyStep DEF Inv
<1>2. CASE UNCHANGED vars
  BY <1>2 DEF vars, locals, Inv, Shape, TypeOK, RootsExist, UnusedIsClean, TrackedBase,
       Tracked, CopyShape, CommitShape, StageShape, CleanShape, TwoDirs,
       UnwrittenIsSnapshot, CopyMatchesHash, DiffMatchesHash, InstallsRemaining
<1>3. QED
  BY <1>1, <1>2

\* Phase 2 changes the base only at the files still to be installed.
LEMMA InstallsOnlyRemaining ==
    ASSUME Inv, [Next]_vars, NEW n \in Names, Installs(n)
    PROVE  n \in put \cup del
<1>1. TypeOK /\ TwoDirs
  BY DEF Inv, Shape, CommitShape, Installs
<1>2. pc = "apply" /\ pc' = "apply" /\ <<put, del>>' # <<put, del>>
      /\ fs'[base][n] # fs[base][n]
  BY DEF Installs
<1>3. ~(BeginNext \/ CleanNext \/ EnvNext \/ UNCHANGED vars)
  BY <1>2 DEF BeginNext, BeginSession, CopyFile, CopyFailed, SessionBegun, Return,
     CleanNext, RollbackSession, RemoveSessionDir, RemoveSessionDirFailed,
     CleanupOrphaned, EnvNext, AgentWrite, ExternalWrite, ExternalTidy, LoseSessionDir,
     Crash, locals, vars
<1>4. PICK m \in Names : DeleteFile(m) \/ MoveFile(m)
  BY <1>2, <1>3 DEF Next, CommitNext, CommitLost, CommitSession, DiffFailed, NothingToCommit,
     ComputeDiff, StageFile, StageFailed, AllStaged, ApplyFailed, CommitApplied, Return
<1>5. PICK v \in Contents \cup {Junk, Absent} : SetFile(base, m, v)
  BY <1>1, <1>4 DEF DeleteFile, MoveFile, TypeOK, Trees
<1>6. m = n
  BY <1>2, <1>5, InstallWrites
<1>7. QED
  BY <1>4, <1>6 DEF DeleteFile, MoveFile

\* The inductive invariant of the commit protocol.
THEOREM InvAlways == ASSUME Races = {} PROVE Spec => []Inv
<1>1. Inv /\ [Next]_vars => Inv'
  BY InvStep
<1>2. QED
  BY InvInit, <1>1, PTL DEF Spec

\* commit_session never overwrites or deletes a file that changed in the base
\* after the session began.
THEOREM LostUpdateFree == ASSUME Races = {} PROVE Spec => NoLostUpdate
<1>1. Inv /\ [Next]_vars => \A n \in Names : Installs(n) => fs[base][n] = hash[n]
  BY InstallsOnlyRemaining DEF Inv, InstallsRemaining, Installs
<1>2. QED
  BY InvAlways, <1>1, PTL DEF Spec, NoLostUpdate

\* commit_session changes only files that were written in the session.
THEOREM CommitsOnlySessionWrites ==
    ASSUME Races = {} PROVE Spec => OnlySessionWrites
<1>1. Inv /\ [Next]_vars => \A n \in Names : Installs(n) => n \in written[cur]
  BY InstallsOnlyRemaining DEF Inv, InstallsRemaining, Installs
<1>2. QED
  BY InvAlways, <1>1, PTL DEF Spec, OnlySessionWrites

\* A commit that succeeds makes the base equal to the session directory.
THEOREM CommitIsComplete ==
    ASSUME Races = {} PROVE Spec => CommitInstallsSession
<1>1. Inv /\ [Next]_vars =>
        (pc \in {"diff", "apply"} /\ pc' = "clean" => fs[base] = fs[cur])
  <2> SUFFICES ASSUME Inv, [Next]_vars, pc \in {"diff", "apply"}, pc' = "clean"
               PROVE  fs[base] = fs[cur]
    OBVIOUS
  <2>1. fs[base] \in Trees /\ fs[cur] \in Trees
    BY DEF Inv, Shape, TypeOK, CommitShape, TwoDirs, Dirs
  <2>2. NothingToCommit \/ CommitApplied
    BY DEF vars, locals, Next, BeginNext, BeginSession, CopyFile, CopyFailed,
       SessionBegun, Return, CommitNext, CommitLost, CommitSession, DiffFailed, ComputeDiff,
       StageFile, StageFailed, AllStaged, DeleteFile, MoveFile, ApplyFailed, CleanNext,
       RollbackSession, RemoveSessionDir, RemoveSessionDirFailed, CleanupOrphaned,
       EnvNext, AgentWrite, ExternalWrite, ExternalTidy, LoseSessionDir, Crash
  <2>3. \A n \in Names : fs[base][n] = fs[cur][n]
    BY <2>2 DEF NothingToCommit, Changes, CommitApplied, Inv, InstallsRemaining
  <2>4. QED
    BY <2>1, <2>3 DEF Trees
<1>2. QED
  BY InvAlways, <1>1, PTL DEF Spec, CommitInstallsSession

-----------------------------------------------------------------------------
(* The directories of live sessions.                                       *)

\* Writing a file leaves a directory where it is.
LEMMA WriteKeepsDirs ==
    ASSUME TypeOK, NEW d \in Dirs, NEW n \in Names,
           NEW v \in Contents \cup {Junk, Absent},
           fs[d] # None, SetFile(d, n, v)
    PROVE  \A s \in Sids : fs'[s] = None <=> fs[s] = None
BY SetFileType DEF Dirs

\* A step either leaves the directories of live sessions alone or ends them.
LEMMA LiveDirsStep ==
    ASSUME "lose" \notin Faults, Shape, LiveSessionsKeepDirs, Next
    PROVE  LiveSessionsKeepDirs'
<1>a. TypeOK /\ RootsExist /\ UnusedIsClean /\ TrackedBase /\ CopyShape
      /\ CommitShape /\ StageShape /\ CleanShape
  BY DEF Shape
<1>k. ASSUME \A s \in Sids : Tracked(s)' => Tracked(s) /\ (fs[s] # None => fs'[s] # None)
      PROVE  LiveSessionsKeepDirs'
  BY <1>k DEF LiveSessionsKeepDirs, Tracked
<1>l. ASSUME LeaveStaging, pc \in {"stage", "apply"} => TwoDirs, UNCHANGED tracked
      PROVE  LiveSessionsKeepDirs'
  <2>1. \A e \in Dirs : fs'[e] = None <=> fs[e] = None
    BY <1>l, LeaveStagingType
  <2>2. QED
    BY <2>1, <1>l, <1>k DEF Tracked, Dirs
<1>1. CASE BeginNext
  <2>1. ASSUME NEW s \in Sids, NEW b \in Dirs, BeginSession(s, b)
        PROVE  LiveSessionsKeepDirs'
    <3>1. ~Tracked(s) /\ UNCHANGED tracked /\ \A t \in Sids : t # s => fs'[t] = fs[t]
      BY <2>1, <1>a DEF BeginSession, UnusedIsClean, TypeOK, Dirs
    <3>2. QED
      BY <3>1, <1>k DEF Tracked
  <2>2. ASSUME NEW n \in Names, CopyFile(n)
        PROVE  LiveSessionsKeepDirs'
    <3>1. ~Tracked(cur) /\ UNCHANGED tracked /\ \A t \in Sids : t # cur => fs'[t] = fs[t]
      BY <2>2, <1>a DEF CopyFile, CopyShape, TypeOK, Dirs
    <3>2. QED
      BY <3>1, <1>k DEF Tracked
  <2>3. CopyFailed => LiveSessionsKeepDirs'
    BY <1>k DEF CopyFailed, Tracked
  <2>4. ASSUME SessionBegun
        PROVE  LiveSessionsKeepDirs'
    BY <2>4, <1>a DEF SessionBegun, CopyShape, TwoDirs, TypeOK, LiveSessionsKeepDirs, Tracked
  <2>5. QED
    BY <1>1, <2>1, <2>2, <2>3, <2>4 DEF BeginNext
<1>2. CASE CommitNext
  <2>1. (\E s \in Sids : CommitLost(s) \/ CommitSession(s)) \/ NothingToCommit
           \/ ComputeDiff \/ (\E n \in Names : StageFile(n)) \/ AllStaged \/ CommitApplied
        => LiveSessionsKeepDirs'
    <3>1. ASSUME UNCHANGED fs, \A s \in Sids : Tracked(s)' => Tracked(s)
          PROVE  LiveSessionsKeepDirs'
      BY <3>1, <1>k
    <3>2. QED
      BY <3>1, <1>a DEF CommitLost, CommitSession, NothingToCommit, ComputeDiff, StageFile,
         AllStaged, CommitApplied, Untrack, Tracked, TypeOK
  <2>2. DiffFailed \/ StageFailed \/ ApplyFailed => LiveSessionsKeepDirs'
    <3>1. UNCHANGED <<fs, tracked>> => LiveSessionsKeepDirs'
      BY <1>k DEF Tracked
    <3>2. QED
      BY <1>a, <1>l, <3>1 DEF DiffFailed, StageFailed, ApplyFailed, CommitShape
  <2>3. ASSUME NEW n \in Names, DeleteFile(n) \/ MoveFile(n)
        PROVE  LiveSessionsKeepDirs'
    <3>1. PICK v \in Contents \cup {Junk, Absent} : SetFile(base, n, v)
      BY <2>3, <1>a DEF DeleteFile, MoveFile, TypeOK, Trees
    <3>2. base \in Dirs /\ fs[base] # None /\ UNCHANGED tracked
      BY <2>3, <1>a DEF DeleteFile, MoveFile, CommitShape, TwoDirs
    <3>3. QED
      BY <1>a, <3>1, <3>2, WriteKeepsDirs, <1>k DEF Tracked
  <2>4. QED
    BY <1>2, <2>1, <2>2, <2>3 DEF CommitNext
<1>3. CASE CleanNext
  <2>1. ASSUME NEW s \in Sids, RollbackSession(s)
        PROVE  LiveSessionsKeepDirs'
    BY <2>1, <1>a, <1>k DEF RollbackSession, Untrack, Tracked, TypeOK
  <2>2. ASSUME RemoveSessionDir \/ RemoveSessionDirFailed
        PROVE  LiveSessionsKeepDirs'
    <3>1. ~Tracked(cur) /\ UNCHANGED tracked /\ \A t \in Sids : t # cur => fs'[t] = fs[t]
      BY <2>2, <1>a DEF RemoveSessionDir, RemoveSessionDirFailed, CleanShape, TypeOK, Dirs
    <3>2. QED
      BY <3>1, <1>k DEF Tracked
  <2>3. ASSUME CleanupOrphaned
        PROVE  LiveSessionsKeepDirs'
    <3>1. UNCHANGED tracked /\ \A t \in Sids : Tracked(t) => fs'[t] = fs[t]
      BY <2>3 DEF CleanupOrphaned, Orphans, Dirs
    <3>2. QED
      BY <3>1, <1>k DEF Tracked
  <2>4. QED
    BY <1>3, <2>1, <2>2, <2>3 DEF CleanNext
<1>4. CASE EnvNext
  <2>w. ASSUME NEW d \in Dirs, NEW p \in Paths, NEW v \in Contents \cup {Absent},
               fs[d] # None, SetFile(d, p, v), UNCHANGED tracked
        PROVE  LiveSessionsKeepDirs'
    BY <1>a, <2>w, WriteKeepsDirs, <1>k DEF Tracked, Names
  <2>1. ASSUME NEW p \in Paths, NEW v \in Contents \cup {Absent}, NEW s \in Sids,
               AgentWrite(s, p, v)
        PROVE  LiveSessionsKeepDirs'
    BY <2>1, <2>w DEF AgentWrite, Dirs
  <2>2. ASSUME NEW p \in Paths, NEW v \in Contents \cup {Absent}, NEW b \in Roots,
               ExternalWrite(b, p, v)
        PROVE  LiveSessionsKeepDirs'
    BY <2>2, <1>a, <2>w DEF ExternalWrite, RootsExist, Dirs
  <2>3. ASSUME NEW b \in Roots, NEW s \in Sids, ExternalTidy(b, s)
        PROVE  LiveSessionsKeepDirs'
    BY <2>3, <1>a, WriteKeepsDirs, <1>k DEF ExternalTidy, RootsExist, Tracked, Dirs, Names
  <2>4. ASSUME Crash
        PROVE  LiveSessionsKeepDirs'
    BY <2>4 DEF Crash, LiveSessionsKeepDirs, Tracked
  <2>5. QED
    BY <1>4, <2>1, <2>2, <2>3, <2>4 DEF EnvNext, LoseSessionDir
<1>5. QED
  BY <1>1, <1>2, <1>3, <1>4 DEF Next

\* As long as nothing outside the kernel removes session directories, the
\* manager never removes the one of a live session, whoever writes meanwhile.
THEOREM LiveDirsKept ==
    ASSUME "lose" \notin Faults PROVE Spec => []LiveSessionsKeepDirs
<1>1. Init => LiveSessionsKeepDirs
  BY DEF Init, LiveSessionsKeepDirs, Tracked
<1>2. Shape /\ LiveSessionsKeepDirs /\ [Next]_vars => LiveSessionsKeepDirs'
  <2>1. UNCHANGED vars /\ LiveSessionsKeepDirs => LiveSessionsKeepDirs'
    BY DEF vars, LiveSessionsKeepDirs, Tracked
  <2>2. QED
    BY <2>1, LiveDirsStep
<1>3. QED
  BY ShapeAlways, <1>1, <1>2, PTL DEF Spec

-----------------------------------------------------------------------------
(* Sessions are atomic: the refinement of AtomicSessions.                  *)

\* The files of the users hold what users can write; only the name of a
\* staging directory stands for anything else.
PlainFiles == \A d \in Dirs : fs[d] # None =>
    \A p \in Paths : fs[d][p] \in Contents \cup {Absent}

\* A step that keeps the files of each directory it does not remove, or fills
\* them from plain ones, keeps PlainFiles.
LEMMA PlainKept ==
    ASSUME PlainFiles,
           \A d \in Dirs : fs'[d] # None =>
              \A p \in Paths : \/ fs'[d][p] \in Contents \cup {Absent}
                               \/ fs[d] # None /\ fs'[d][p] = fs[d][p]
    PROVE  PlainFiles'
BY DEF PlainFiles

\* Only the names of staging directories hold anything but users' contents.
LEMMA PlainStep ==
    ASSUME Inv, PlainFiles, [Next]_vars
    PROVE  PlainFiles'
<1>a. TypeOK /\ RootsExist /\ CopyShape /\ CommitShape /\ CleanShape /\ StageShape /\ Shape
  BY DEF Inv, Shape
<1>b. Paths \subseteq Names
  BY DEF Names
<1>u. ASSUME UNCHANGED fs
      PROVE  PlainFiles'
  BY <1>u DEF PlainFiles
<1>w. ASSUME NEW d \in Dirs, NEW n \in Names, NEW v \in Contents \cup {Junk, Absent},
             fs[d] # None, SetFile(d, n, v),
             n \in Paths => v \in Contents \cup {Absent}
      PROVE  PlainFiles'
  <2>1. /\ fs'[d][n] = v
        /\ \A m \in Names : m # n => fs'[d][m] = fs[d][m]
        /\ \A e \in Dirs : e # d => fs'[e] = fs[e]
    BY <1>a, <1>w, SetFileType
  <2>2. QED
    BY <1>b, <1>w, <2>1, PlainKept
<1>l. ASSUME LeaveStaging, pc \in {"stage", "apply"} => TwoDirs
      PROVE  PlainFiles'
  BY <1>a, <1>l, LeaveStagingType, PlainKept
<1>1. CASE BeginNext
  <2>1. ASSUME NEW s \in Sids, NEW b \in Dirs, BeginSession(s, b)
        PROVE  PlainFiles'
    <3>1. \A e \in Dirs : fs'[e] = IF e = s THEN EmptyTree ELSE fs[e]
      BY <2>1, <1>a DEF BeginSession, TypeOK
    <3>2. QED
      BY <1>b, <3>1, EmptyTreeType, PlainKept
  <2>2. ASSUME NEW n \in Names, CopyFile(n)
        PROVE  PlainFiles'
    <3>1. /\ cur \in Dirs /\ base \in Dirs /\ fs[cur] \in Trees /\ fs[cur] # None
          /\ fs[base] # None
      BY <2>2, <1>a DEF CopyFile, CopyShape, TwoDirs, TypeOK, Dirs
    <3>2. /\ \A m \in Names : fs'[cur][m] = IF m = n THEN fs[base][n] ELSE fs[cur][m]
          /\ \A e \in Dirs : e # cur => fs'[e] = fs[e]
      BY <2>2, <1>a, <3>1 DEF CopyFile, TypeOK, Trees
    <3>3. n \in Paths => fs[base][n] \in Contents \cup {Absent}
      BY <3>1 DEF PlainFiles
    <3>4. QED
      BY <1>b, <3>1, <3>2, <3>3, PlainKept
  <2>3. QED
    BY <1>1, <1>u, <2>1, <2>2 DEF BeginNext, CopyFailed, SessionBegun
<1>2. CASE CommitNext
  <2>1. ASSUME NEW n \in Names, DeleteFile(n)
        PROVE  PlainFiles'
    BY <2>1, <1>a, <1>w DEF DeleteFile, CommitShape, TwoDirs
  <2>2. ASSUME NEW n \in Names, MoveFile(n)
        PROVE  PlainFiles'
    <3>1. /\ base \in Dirs /\ fs[base] # None /\ cur \in Dirs /\ fs[cur] # None
          /\ SetFile(base, n, stage[n]) /\ stage[n] = fs[cur][n]
          /\ stage[n] \in Contents \cup {Junk, Absent}
      BY <2>2, <1>a DEF MoveFile, Inv, InstallsRemaining, CommitShape, TwoDirs, TypeOK, Trees, Dirs
    <3>2. n \in Paths => stage[n] \in Contents \cup {Absent}
      BY <3>1 DEF PlainFiles
    <3>3. QED
      BY <3>1, <3>2, <1>w
  <2>3. DiffFailed \/ StageFailed \/ ApplyFailed => PlainFiles'
    BY <1>a, <1>l, <1>u DEF DiffFailed, StageFailed, ApplyFailed, CommitShape
  <2>4. (\E s \in Sids : CommitLost(s) \/ CommitSession(s)) \/ NothingToCommit
           \/ ComputeDiff \/ (\E n \in Names : StageFile(n)) \/ AllStaged \/ CommitApplied
        => UNCHANGED fs
    BY DEF CommitLost, CommitSession, NothingToCommit, ComputeDiff, StageFile, AllStaged,
       CommitApplied
  <2>5. QED
    BY <1>2, <1>u, <2>1, <2>2, <2>3, <2>4 DEF CommitNext
<1>3. CASE CleanNext
  <2>1. ASSUME RemoveSessionDirFailed
        PROVE  PlainFiles'
    <3>1. PICK gone \in SUBSET Paths :
            fs' = [fs EXCEPT ![cur] = [n \in Names |-> IF n \in gone THEN Absent ELSE fs[cur][n]]]
      BY <2>1 DEF RemoveSessionDirFailed
    <3>2. cur \in Dirs /\ fs[cur] # None
      BY <2>1, <1>a DEF RemoveSessionDirFailed, CleanShape, Dirs
    <3>3. /\ \A m \in Names : fs'[cur][m] = IF m \in gone THEN Absent ELSE fs[cur][m]
          /\ \A e \in Dirs : e # cur => fs'[e] = fs[e]
      BY <1>a, <3>1, <3>2 DEF TypeOK
    <3>4. QED
      BY <1>b, <3>2, <3>3, PlainKept
  <2>2. ASSUME RemoveSessionDir
        PROVE  PlainFiles'
    <3>1. \A e \in Dirs : fs'[e] = None \/ fs'[e] = fs[e]
      BY <2>2, <1>a DEF RemoveSessionDir, TypeOK
    <3>2. QED
      BY <3>1 DEF PlainFiles
  <2>3. CleanupOrphaned => PlainFiles'
    BY DEF CleanupOrphaned, PlainFiles
  <2>4. QED
    BY <1>3, <1>u, <2>1, <2>2, <2>3 DEF CleanNext, RollbackSession
<1>4. CASE EnvNext
  <2>1. ASSUME NEW p \in Paths, NEW v \in Contents \cup {Absent}, NEW s \in Sids,
               AgentWrite(s, p, v)
        PROVE  PlainFiles'
    BY <2>1, <1>b, <1>w DEF AgentWrite, Dirs
  <2>2. ASSUME NEW p \in Paths, NEW v \in Contents \cup {Absent}, NEW b \in Roots,
               ExternalWrite(b, p, v)
        PROVE  PlainFiles'
    BY <2>2, <1>a, <1>b, <1>w DEF ExternalWrite, RootsExist, Dirs
  <2>3. ASSUME NEW b \in Roots, NEW s \in Sids, ExternalTidy(b, s)
        PROVE  PlainFiles'
    BY <2>3, <1>a, <1>w DEF ExternalTidy, RootsExist, Dirs, Names
  <2>4. ASSUME NEW s \in Sids, LoseSessionDir(s)
        PROVE  PlainFiles'
    <3>1. \A e \in Dirs : fs'[e] = None \/ fs'[e] = fs[e]
      BY <2>4, <1>a DEF LoseSessionDir, TypeOK
    <3>2. QED
      BY <3>1 DEF PlainFiles
  <2>5. Crash => PlainFiles'
    BY <1>a, <1>l DEF Crash, CommitShape
  <2>6. QED
    BY <1>4, <2>1, <2>2, <2>3, <2>4, <2>5 DEF EnvNext
<1>5. QED
  BY <1>1, <1>2, <1>3, <1>4, <1>u DEF Next, vars

\* What a session was begun from is plain as well.
PlainSnapshots == \A s \in Sids : Tracked(s) =>
    \A p \in Paths : tracked[s].hash[p] \in Contents \cup {Absent}

\* So do the snapshots.
LEMMA PlainSnapshotsStep ==
    ASSUME Inv, PlainFiles, PlainSnapshots, [Next]_vars
    PROVE  PlainSnapshots'
<1>a. TypeOK /\ CopyShape /\ CommitShape
  BY DEF Inv, Shape
<1>k. ASSUME \A s \in Sids : tracked'[s] = tracked[s] \/ tracked'[s] = None
      PROVE  PlainSnapshots'
  BY <1>k DEF PlainSnapshots, Tracked
<1>1. ASSUME SessionBegun
      PROVE  PlainSnapshots'
  <2>1. /\ cur \in Sids /\ base \in Dirs /\ fs[base] = hash /\ fs[base] # None
        /\ tracked'[cur] = [base |-> base, hash |-> hash]
        /\ \A s \in Sids : s # cur => tracked'[s] = tracked[s]
    BY <1>1, <1>a DEF SessionBegun, CopyShape, TwoDirs, TypeOK, Inv, CopyMatchesHash
  <2>2. \A p \in Paths : hash[p] \in Contents \cup {Absent}
    BY <2>1 DEF PlainFiles
  <2>3. QED
    BY <2>1, <2>2 DEF PlainSnapshots, Tracked
<1>2. ASSUME ~SessionBegun
      PROVE  PlainSnapshots'
  <2>1. BeginNext => UNCHANGED tracked
    BY <1>2 DEF BeginNext, BeginSession, CopyFile, CopyFailed
  <2>2. CommitNext => UNCHANGED tracked \/ \E s \in Sids : Untrack(s)
    BY <1>a DEF CommitNext, CommitLost, CommitSession, DiffFailed, NothingToCommit, ComputeDiff,
       StageFile, StageFailed, AllStaged, DeleteFile, MoveFile, ApplyFailed, CommitApplied,
       CommitShape, TwoDirs
  <2>3. CleanNext => UNCHANGED tracked \/ \E s \in Sids : Untrack(s)
    BY DEF CleanNext, RollbackSession, RemoveSessionDir, RemoveSessionDirFailed, CleanupOrphaned
  <2>4. EnvNext => UNCHANGED tracked \/ tracked' = [s \in Sids |-> None]
    BY DEF EnvNext, AgentWrite, ExternalWrite, ExternalTidy, LoseSessionDir, Crash
  <2>5. (\E s \in Sids : Untrack(s)) => \A s \in Sids : tracked'[s] = tracked[s] \/ tracked'[s] = None
    BY <1>a DEF Untrack, TypeOK
  <2>6. QED
    BY <1>k, <2>1, <2>2, <2>3, <2>4, <2>5 DEF Next, vars
<1>3. QED
  BY <1>1, <1>2

\* Initially there are users' contents only.
LEMMA PlainInit == Init => PlainFiles /\ PlainSnapshots
<1> SUFFICES ASSUME Init PROVE PlainFiles /\ PlainSnapshots
  OBVIOUS
<1>1. PICK tree \in [Roots -> [Paths -> Contents \cup {Absent}]] :
          fs = [d \in Dirs |->
                  IF d \in Roots
                  THEN [n \in Names |-> IF n \in Paths THEN tree[d][n] ELSE Absent]
                  ELSE None]
  BY DEF Init
<1>2. \A d \in Roots : \A p \in Paths : fs[d][p] = tree[d][p]
  BY <1>1 DEF Dirs, Names
<1>3. \A d \in Sids : fs[d] = None
  BY <1>1, DirsAssumption DEF Dirs
<1>4. PlainFiles
  BY <1>2, <1>3 DEF PlainFiles, Dirs
<1>5. PlainSnapshots
  BY DEF Init, PlainSnapshots, Tracked
<1>6. QED
  BY <1>4, <1>5

\* The abstract directory of one that is not being installed to.
LEMMA AbstractDirIs ==
    ASSUME NEW d \in Dirs, PlainFiles, ~(pc = "apply" /\ base = d)
    PROVE  /\ fs[d] = None => AbstractDir[d] = None
           /\ fs[d] # None => /\ AbstractDir[d] = FilesOf(fs[d])
                              /\ AbstractDir[d] \in Atomic!Files
                              /\ AbstractDir[d] # None
<1>1. ASSUME fs[d] # None
      PROVE  AbstractDir[d] = FilesOf(fs[d])
  BY <1>1 DEF AbstractDir
<1>2. ASSUME fs[d] # None
      PROVE  FilesOf(fs[d]) \in Atomic!Files
  BY <1>2 DEF PlainFiles, FilesOf, Atomic!Files
<1>3. None \notin Atomic!Files
  BY AtomicNoneAssumption DEF Atomic!Files
<1>4. QED
  BY <1>1, <1>2, <1>3 DEF AbstractDir

\* The same after a step.
LEMMA AbstractDirNext ==
    ASSUME NEW d \in Dirs, PlainFiles', ~(pc' = "apply" /\ base' = d)
    PROVE  /\ fs'[d] = None => AbstractDir'[d] = None
           /\ fs'[d] # None => /\ AbstractDir'[d] = FilesOf(fs'[d])
                               /\ AbstractDir'[d] \in Atomic!Files
                               /\ AbstractDir'[d] # None
<1>1. ASSUME fs'[d] # None
      PROVE  AbstractDir'[d] = FilesOf(fs'[d])
  BY <1>1 DEF AbstractDir, FilesOf
<1>2. ASSUME fs'[d] # None
      PROVE  FilesOf(fs'[d]) \in Atomic!Files
  BY <1>2 DEF PlainFiles, FilesOf, Atomic!Files
<1>3. None \notin Atomic!Files
  BY AtomicNoneAssumption DEF Atomic!Files
<1>4. QED
  BY <1>1, <1>2, <1>3 DEF AbstractDir

\* A directory stays, seen from AtomicSessions, if its users' files do.
LEMMA AbstractDirKept ==
    ASSUME NEW d \in Dirs,
           fs'[d] = None <=> fs[d] = None,
           fs[d] # None => \A p \in Paths : fs'[d][p] = fs[d][p],
           ~(pc = "apply" /\ base = d), ~(pc' = "apply" /\ base' = d)
    PROVE  AbstractDir'[d] = AbstractDir[d]
BY DEF AbstractDir, FilesOf

\* Both abstract variables are functions.
LEMMA AbstractFunctions ==
    /\ AbstractDir = [d \in Dirs |-> AbstractDir[d]]
    /\ AbstractDir' = [d \in Dirs |-> AbstractDir'[d]]
    /\ AbstractSnapshot = [s \in Sids |-> AbstractSnapshot[s]]
    /\ AbstractSnapshot' = [s \in Sids |-> AbstractSnapshot'[s]]
BY DEF AbstractDir, AbstractSnapshot

\* A step that tracks no other session keeps the atomic snapshots.
LEMMA AbstractSnapshotKept ==
    ASSUME UNCHANGED tracked
    PROVE  AbstractSnapshot' = AbstractSnapshot
BY DEF AbstractSnapshot, Tracked, FilesOf

\* A step that keeps the map and the users' files is invisible.
LEMMA Invisible ==
    ASSUME UNCHANGED tracked, \A d \in Dirs : AbstractDir'[d] = AbstractDir[d]
    PROVE  UNCHANGED Atomic!vars
BY AbstractFunctions, AbstractSnapshotKept DEF Atomic!vars

\* Directories in the place of sessions that are not live may do anything.
LEMMA ImplementsLeave ==
    ASSUME NEW S \in SUBSET Sids, \A s \in S : ~Tracked(s), UNCHANGED tracked,
           \A d \in Dirs \ S : AbstractDir'[d] = AbstractDir[d],
           \A s \in S : AbstractDir'[s] \in Atomic!Files \cup {None}
    PROVE  Atomic!Next
<1> DEFINE left == [s \in S |-> AbstractDir'[s]]
<1>1. left \in [S -> Atomic!Files \cup {None}]
  OBVIOUS
<1>2. \A d \in Dirs : AbstractDir'[d] = IF d \in S THEN left[d] ELSE AbstractDir[d]
  OBVIOUS
<1>3. AbstractDir' = [d \in Dirs |-> IF d \in S THEN left[d] ELSE AbstractDir[d]]
  BY <1>2, AbstractFunctions
<1>4. \A s \in S : ~Atomic!Live(s)
  BY DEF Atomic!Live, AbstractSnapshot
<1>5. Atomic!Leave(S)
  BY <1>1, <1>3, <1>4, AbstractSnapshotKept DEF Atomic!Leave, Atomic!Dirs, Dirs
<1>6. QED
  BY <1>5 DEF Atomic!Next

\* Sessions may end, one or all at once.
LEMMA ImplementsEnd ==
    ASSUME NEW S \in SUBSET Sids,
           \A s \in Sids : tracked'[s] = IF s \in S THEN None ELSE tracked[s],
           \A d \in Dirs : AbstractDir'[d] = AbstractDir[d]
    PROVE  Atomic!Next
<1>1. \A s \in Sids : AbstractSnapshot'[s] = IF s \in S THEN None ELSE AbstractSnapshot[s]
  BY DEF AbstractSnapshot, Tracked, FilesOf
<1>2. Atomic!End(S)
  BY <1>1, AbstractFunctions DEF Atomic!End
<1>3. QED
  BY <1>2 DEF Atomic!Next

\* A file of a directory nobody installs to is written.
LEMMA ImplementsEdit ==
    ASSUME TypeOK, PlainFiles, PlainFiles', NEW d \in Dirs, NEW p \in Paths, NEW v \in Contents \cup {Absent},
           fs[d] # None, SetFile(d, p, v), UNCHANGED <<tracked, locals>>, d # base
    PROVE  Atomic!Next
<1>1. /\ fs'[d] # None /\ fs'[d][p] = v
      /\ \A m \in Paths : m # p => fs'[d][m] = fs[d][m]
      /\ \A e \in Dirs : e # d => fs'[e] = fs[e]
  BY SetFileType DEF Names
<1>2. AbstractDir[d] = FilesOf(fs[d]) /\ AbstractDir[d] # None /\ AbstractDir[d] \in Atomic!Files
  BY AbstractDirIs
<1>3. AbstractDir'[d] = FilesOf(fs'[d])
  BY <1>1, AbstractDirNext DEF locals
<1>4. FilesOf(fs'[d]) = [FilesOf(fs[d]) EXCEPT ![p] = v]
  BY <1>1 DEF FilesOf
<1>5. \A e \in Dirs : e # d => AbstractDir'[e] = AbstractDir[e]
  BY <1>1 DEF AbstractDir, FilesOf, locals
<1>6. AbstractDir' = [AbstractDir EXCEPT ![d][p] = v]
  <2>1. \A e \in Dirs : AbstractDir'[e] = IF e = d THEN [AbstractDir[d] EXCEPT ![p] = v] ELSE AbstractDir[e]
    BY <1>2, <1>3, <1>4, <1>5
  <2>2. [AbstractDir EXCEPT ![d][p] = v]
        = [e \in Dirs |-> IF e = d THEN [AbstractDir[d] EXCEPT ![p] = v] ELSE AbstractDir[e]]
    BY AbstractFunctions
  <2>3. QED
    BY <2>1, <2>2, AbstractFunctions
<1>7. Atomic!Edit(d, p, v)
  BY <1>2, <1>6, AbstractSnapshotKept DEF Atomic!Edit
<1>8. QED
  BY <1>7 DEF Atomic!Next, Atomic!Dirs, Dirs

\* begin_session: a directory fills up, then the session is live at once.
LEMMA RefineBegin ==
    ASSUME Inv, PlainFiles, PlainFiles', BeginNext
    PROVE  [Atomic!Next]_Atomic!vars
<1>a. TypeOK /\ UnusedIsClean /\ CopyShape /\ Shape
  BY DEF Inv, Shape
<1>p. pc # "apply" /\ pc' # "apply"
  BY DEF BeginNext, BeginSession, CopyFile, CopyFailed, SessionBegun, Return
<1>t. \A d \in Dirs : AbstractDir'[d] \in Atomic!Files \cup {None}
  BY <1>p, AbstractDirNext
<1>k. ASSUME NEW d \in Dirs, fs'[d] = fs[d]
      PROVE  AbstractDir'[d] = AbstractDir[d]
  BY <1>p, <1>k, AbstractDirKept
<1>1. ASSUME NEW s \in Sids, NEW b \in Dirs, BeginSession(s, b)
      PROVE  Atomic!Next
  <2>1. ~Tracked(s) /\ UNCHANGED tracked /\ \A d \in Dirs \ {s} : fs'[d] = fs[d]
    BY <1>1, <1>a DEF BeginSession, UnusedIsClean, TypeOK
  <2>2. \A d \in Dirs \ {s} : AbstractDir'[d] = AbstractDir[d]
    BY <2>1, <1>k
  <2>3. {s} \in SUBSET Sids
    OBVIOUS
  <2>4. QED
    BY <1>t, <2>1, <2>2, <2>3, ImplementsLeave DEF Dirs
<1>2. ASSUME NEW n \in Names, CopyFile(n)
      PROVE  Atomic!Next
  <2>1. cur \in Sids /\ ~Tracked(cur) /\ UNCHANGED tracked
        /\ \A d \in Dirs \ {cur} : fs'[d] = fs[d]
    BY <1>2, <1>a DEF CopyFile, CopyShape, TwoDirs, TypeOK
  <2>2. \A d \in Dirs \ {cur} : AbstractDir'[d] = AbstractDir[d]
    BY <2>1, <1>k
  <2>3. {cur} \in SUBSET Sids
    BY <2>1
  <2>4. QED
    BY <1>t, <2>1, <2>2, <2>3, ImplementsLeave DEF Dirs
<1>3. CopyFailed => UNCHANGED Atomic!vars
  BY <1>k, Invisible DEF CopyFailed
<1>4. ASSUME SessionBegun
      PROVE  Atomic!Next
  <2>1. /\ cur \in Sids /\ cur \in Dirs /\ base \in Dirs /\ ~Tracked(cur) /\ hash \in Trees
        /\ fs[base] = hash /\ fs[base] # None /\ fs[cur] # None /\ UNCHANGED fs
        /\ tracked' = [tracked EXCEPT ![cur] = [base |-> base, hash |-> hash]]
    BY <1>4, <1>a DEF SessionBegun, CopyShape, TwoDirs, Inv, CopyMatchesHash, Dirs
  <2>2. \A n \in Names : fs[cur][n] = hash[n]
    BY <1>4, <2>1 DEF SessionBegun, Inv, CopyMatchesHash
  <2>3. AbstractDir[base] = FilesOf(hash) /\ AbstractDir[base] # None
    BY <1>p, <2>1, AbstractDirIs
  <2>4. AbstractDir'[cur] = FilesOf(hash)
    BY <1>p, <2>1, <2>2, AbstractDirNext DEF FilesOf, Names
  <2>5. \A d \in Dirs : AbstractDir'[d] = IF d = cur THEN AbstractDir[base] ELSE AbstractDir[d]
    BY <1>k, <2>1, <2>3, <2>4
  <2>6. AbstractDir' = [AbstractDir EXCEPT ![cur] = AbstractDir[base]]
    BY <2>5, AbstractFunctions
  <2>7. [base |-> base, hash |-> hash] # None
    BY <2>1, NoneAssumption DEF SessionInfo
  <2>8. /\ AbstractSnapshot'[cur] = [base |-> base, files |-> FilesOf(hash)]
        /\ \A s \in Sids : s # cur => AbstractSnapshot'[s] = AbstractSnapshot[s]
    <3>1. /\ tracked'[cur] = [base |-> base, hash |-> hash]
          /\ \A s \in Sids : s # cur => tracked'[s] = tracked[s]
      BY <1>a, <2>1 DEF TypeOK
    <3>2. QED
      BY <2>1, <2>7, <3>1 DEF AbstractSnapshot, Tracked, FilesOf
  <2>9. AbstractSnapshot' = [AbstractSnapshot EXCEPT ![cur] = [base |-> base, files |-> AbstractDir[base]]]
    BY <2>3, <2>8, AbstractFunctions
  <2>10. ~Atomic!Live(cur)
    BY <2>1 DEF Atomic!Live, AbstractSnapshot
  <2>11. Atomic!Begin(cur, base)
    BY <2>3, <2>6, <2>9, <2>10 DEF Atomic!Begin
  <2>12. QED
    BY <2>1, <2>11 DEF Atomic!Next, Atomic!Dirs, Dirs
<1>5. QED
  BY <1>1, <1>2, <1>3, <1>4 DEF BeginNext

\* While a commit is under way its session is live, with the base as it was hashed.
LEMMA CommitIsLive ==
    ASSUME Inv, PlainFiles, PlainSnapshots, pc \in {"diff", "apply"},
           pc = "diff" => fs[base] = hash
    PROVE  /\ TypeOK /\ cur \in Sids /\ cur \in Dirs /\ base \in Dirs /\ cur # base
           /\ fs[cur] # None /\ fs[base] # None
           /\ AbstractSnapshot[cur] = [base |-> base, files |-> FilesOf(hash)]
           /\ Atomic!Live(cur)
           /\ AbstractDir[cur] = FilesOf(fs[cur]) /\ AbstractDir[cur] # None
           /\ AbstractDir[base] = FilesOf(hash)
<1>1. /\ TypeOK /\ cur \in Sids /\ cur \in Dirs /\ base \in Dirs /\ cur # base
      /\ fs[cur] # None /\ fs[base] # None /\ hash \in Trees
      /\ tracked[cur] = [base |-> base, hash |-> hash]
  BY DEF Inv, Shape, CommitShape, TwoDirs, Dirs
<1>2. Tracked(cur)
  BY <1>1, NoneAssumption DEF Tracked, SessionInfo
<1>3. AbstractSnapshot[cur] = [base |-> base, files |-> FilesOf(hash)]
  BY <1>1, <1>2 DEF AbstractSnapshot
<1>4. AbstractSnapshot[cur] # None
  <2>1. FilesOf(hash) \in Atomic!Files
    BY <1>1, <1>2 DEF PlainSnapshots, FilesOf, Atomic!Files
  <2>2. [base |-> base, files |-> FilesOf(hash)] \in [base : Dirs, files : Atomic!Files]
    BY <1>1, <2>1
  <2>3. None \notin [base : Dirs, files : Atomic!Files]
    BY AtomicNoneAssumption DEF Atomic!Files
  <2>4. QED
    BY <1>3, <2>2, <2>3
<1>5. AbstractDir[cur] = FilesOf(fs[cur]) /\ AbstractDir[cur] # None
  BY <1>1, AbstractDirIs
<1>6. AbstractDir[base] = FilesOf(hash)
  BY <1>1 DEF AbstractDir
<1>7. QED
  BY <1>1, <1>3, <1>4, <1>5, <1>6 DEF Atomic!Live

\* commit_session takes effect in one step: the base becomes the session.
LEMMA ImplementsCommit ==
    ASSUME Inv, PlainFiles, PlainFiles', PlainSnapshots,
           pc \in {"diff", "apply"}, pc' = "clean", UNCHANGED <<fs, base>>, Untrack(cur),
           pc = "diff" => fs[base] = hash,
           \A n \in Names : fs[base][n] = fs[cur][n]
    PROVE  Atomic!Next
<1>1. /\ TypeOK /\ cur \in Sids /\ base \in Dirs /\ cur # base /\ fs[base] # None
      /\ AbstractSnapshot[cur] = [base |-> base, files |-> FilesOf(hash)]
      /\ Atomic!Live(cur)
      /\ AbstractDir[cur] = FilesOf(fs[cur]) /\ AbstractDir[cur] # None
      /\ AbstractDir[base] = FilesOf(hash)
  BY CommitIsLive
<1>2. AbstractDir'[base] = FilesOf(fs[cur])
  <2>1. AbstractDir'[base] = FilesOf(fs[base])
    BY <1>1, AbstractDirNext
  <2>2. QED
    BY <2>1 DEF FilesOf, Names
<1>3. \A d \in Dirs : d # base => AbstractDir'[d] = AbstractDir[d]
  BY AbstractDirKept
<1>4. AbstractDir' = [AbstractDir EXCEPT ![AbstractSnapshot[cur].base] = AbstractDir[cur]]
  BY <1>1, <1>2, <1>3, AbstractFunctions
<1>5. AbstractSnapshot' = [AbstractSnapshot EXCEPT ![cur] = None]
  <2>1. \A s \in Sids : tracked'[s] = IF s = cur THEN None ELSE tracked[s]
    BY <1>1 DEF Untrack, TypeOK
  <2>2. \A s \in Sids : AbstractSnapshot'[s] = IF s = cur THEN None ELSE AbstractSnapshot[s]
    BY <2>1 DEF AbstractSnapshot, Tracked, FilesOf
  <2>3. QED
    BY <2>2, AbstractFunctions
<1>6. Atomic!Commit(cur)
  BY <1>1, <1>4, <1>5 DEF Atomic!Commit
<1>7. QED
  BY <1>1, <1>6 DEF Atomic!Next

\* Phase 2 ends half way: what is not installed yet is as it was hashed.
LEMMA ImplementsBreakOff ==
    ASSUME Inv, PlainFiles, PlainFiles', PlainSnapshots, pc = "apply", pc' = "idle",
           \A e \in Dirs : fs'[e] = None <=> fs[e] = None,
           \A e \in Dirs : fs[e] # None => \A p \in Paths : fs'[e][p] = fs[e][p],
           UNCHANGED tracked \/ tracked' = [s \in Sids |-> None]
    PROVE  Atomic!Next
<1> DEFINE done == {p \in Paths : fs[base][p] = fs[cur][p]}
<1>1. /\ TypeOK /\ cur \in Sids /\ base \in Dirs /\ cur # base /\ fs[base] # None
      /\ AbstractSnapshot[cur] = [base |-> base, files |-> FilesOf(hash)]
      /\ Atomic!Live(cur)
      /\ AbstractDir[cur] = FilesOf(fs[cur]) /\ AbstractDir[cur] # None
      /\ AbstractDir[base] = FilesOf(hash)
  BY CommitIsLive
<1>2. \A p \in Paths : p \notin done => fs[base][p] = hash[p]
  BY DEF Inv, InstallsRemaining, Names
<1>3. AbstractDir'[base] = Atomic!Mixed(base, cur, done)
  <2>1. AbstractDir'[base] = FilesOf(fs'[base])
    BY <1>1, AbstractDirNext
  <2>2. \A p \in Paths : fs'[base][p] = IF p \in done THEN fs[cur][p] ELSE hash[p]
    BY <1>1, <1>2
  <2>3. QED
    BY <1>1, <2>1, <2>2 DEF FilesOf, Atomic!Mixed
<1>4. \A d \in Dirs : d # base => AbstractDir'[d] = AbstractDir[d]
  BY AbstractDirKept
<1>5. done \in SUBSET Paths
  OBVIOUS
<1> HIDE DEF done
<1>6. AbstractDir' = [AbstractDir EXCEPT ![base] = Atomic!Mixed(base, cur, done)]
  BY <1>1, <1>3, <1>4, AbstractFunctions
<1>7. AbstractSnapshot' \in {AbstractSnapshot, [s \in Sids |-> None]}
  BY AbstractSnapshotKept DEF AbstractSnapshot, Tracked
<1>8. Atomic!BreakOff(cur)
  <2>1. AbstractSnapshot[cur].base = base /\ AbstractSnapshot[cur].files = FilesOf(hash)
    BY <1>1
  <2>2. QED
    BY <1>1, <1>5, <1>6, <1>7, <2>1 DEF Atomic!BreakOff
<1>9. QED
  BY <1>1, <1>8 DEF Atomic!Next

\* commit_session: nothing shows before phase 2 has run to its end or breaks off.
LEMMA RefineCommit ==
    ASSUME Inv, PlainFiles, PlainFiles', PlainSnapshots, CommitNext
    PROVE  [Atomic!Next]_Atomic!vars
<1>a. TypeOK /\ CommitShape /\ Shape
  BY DEF Inv, Shape
<1>k. ASSUME UNCHANGED fs, pc # "apply", pc' # "apply"
      PROVE  \A d \in Dirs : AbstractDir'[d] = AbstractDir[d]
  BY <1>k, AbstractDirKept
<1>1. ASSUME NEW s \in Sids, CommitLost(s)
      PROVE  Atomic!Next
  <2>1. \A t \in Sids : tracked'[t] = IF t \in {s} THEN None ELSE tracked[t]
    BY <1>1, <1>a DEF CommitLost, Untrack, TypeOK
  <2>2. \A d \in Dirs : AbstractDir'[d] = AbstractDir[d]
    BY <1>1, <1>k DEF CommitLost, locals
  <2>3. {s} \in SUBSET Sids
    OBVIOUS
  <2>4. QED
    BY <2>1, <2>2, <2>3, ImplementsEnd
<1>2. (\E s \in Sids : CommitSession(s)) \/ DiffFailed \/ ComputeDiff
         \/ (\E n \in Names : StageFile(n)) => UNCHANGED Atomic!vars
  BY <1>k, Invisible DEF CommitSession, DiffFailed, ComputeDiff, StageFile, Return
<1>3. ASSUME StageFailed
      PROVE  UNCHANGED Atomic!vars
  <2>1. /\ \A e \in Dirs : fs'[e] = None <=> fs[e] = None
        /\ \A e \in Dirs : fs[e] # None => \A p \in Paths : fs'[e][p] = fs[e][p]
    BY <1>3, <1>a, LeaveStagingType DEF StageFailed, CommitShape
  <2>2. pc # "apply" /\ pc' # "apply" /\ UNCHANGED tracked
    BY <1>3 DEF StageFailed, Return
  <2>3. \A d \in Dirs : AbstractDir'[d] = AbstractDir[d]
    BY <2>1, <2>2, AbstractDirKept
  <2>4. QED
    BY <2>2, <2>3, Invisible
<1>4. ASSUME AllStaged
      PROVE  UNCHANGED Atomic!vars
  <2>1. fs[base] = hash /\ pc = "stage" /\ pc' = "apply" /\ UNCHANGED <<fs, tracked, base, hash>>
    BY <1>4 DEF AllStaged, Inv, DiffMatchesHash
  <2>2. \A d \in Dirs : AbstractDir'[d] = AbstractDir[d]
    BY <2>1 DEF AbstractDir, FilesOf
  <2>3. QED
    BY <2>1, <2>2, Invisible
<1>5. ASSUME NEW n \in Names, DeleteFile(n) \/ MoveFile(n)
      PROVE  UNCHANGED Atomic!vars
  <2>1. PICK v \in Contents \cup {Junk, Absent} : SetFile(base, n, v)
    BY <1>5, <1>a DEF DeleteFile, MoveFile, TypeOK, Trees
  <2>2. base \in Dirs /\ fs[base] # None /\ pc = "apply" /\ UNCHANGED <<tracked, pc, base, hash>>
    BY <1>5, <1>a DEF DeleteFile, MoveFile, CommitShape, TwoDirs
  <2>3. fs'[base] # None /\ \A d \in Dirs : d # base => fs'[d] = fs[d]
    BY <1>a, <2>1, <2>2, SetFileType
  <2>4. \A d \in Dirs : AbstractDir'[d] = AbstractDir[d]
    BY <2>2, <2>3 DEF AbstractDir, FilesOf
  <2>5. QED
    BY <2>2, <2>4, Invisible
<1>6. ASSUME NothingToCommit \/ CommitApplied
      PROVE  Atomic!Next
  <2>1. \A n \in Names : fs[base][n] = fs[cur][n]
    BY <1>6 DEF NothingToCommit, CommitApplied, Changes, Inv, InstallsRemaining
  <2>2. pc = "diff" => fs[base] = hash
    BY DEF Inv, DiffMatchesHash
  <2>3. QED
    BY <1>6, <2>1, <2>2, ImplementsCommit DEF NothingToCommit, CommitApplied
<1>7. ASSUME ApplyFailed
      PROVE  Atomic!Next
  <2>1. /\ \A e \in Dirs : fs'[e] = None <=> fs[e] = None
        /\ \A e \in Dirs : fs[e] # None => \A p \in Paths : fs'[e][p] = fs[e][p]
    <3>1. CASE UNCHANGED <<fs, written>>
      BY <3>1
    <3>2. CASE LeaveStaging
      BY <1>7, <1>a, <3>2, LeaveStagingType DEF ApplyFailed, CommitShape
    <3>3. QED
      BY <1>7, <3>1, <3>2 DEF ApplyFailed
  <2>2. QED
    BY <1>7, <2>1, ImplementsBreakOff DEF ApplyFailed, Return
<1>8. QED
  BY <1>1, <1>2, <1>3, <1>4, <1>5, <1>6, <1>7 DEF CommitNext

\* Rollback ends a session; what happens to its directory afterwards, and to
\* orphans, is nobody's business.
LEMMA RefineClean ==
    ASSUME Inv, PlainFiles, PlainFiles', CleanNext
    PROVE  [Atomic!Next]_Atomic!vars
<1>a. TypeOK /\ CleanShape
  BY DEF Inv, Shape
<1>p. pc # "apply" /\ pc' # "apply"
  BY DEF CleanNext, RollbackSession, RemoveSessionDir, RemoveSessionDirFailed, CleanupOrphaned,
         Return, locals
<1>t. \A d \in Dirs : AbstractDir'[d] \in Atomic!Files \cup {None}
  BY <1>p, AbstractDirNext
<1>k. ASSUME NEW d \in Dirs, fs'[d] = fs[d]
      PROVE  AbstractDir'[d] = AbstractDir[d]
  BY <1>p, <1>k, AbstractDirKept
<1>1. ASSUME NEW s \in Sids, RollbackSession(s)
      PROVE  Atomic!Next
  <2>1. \A t \in Sids : tracked'[t] = IF t \in {s} THEN None ELSE tracked[t]
    BY <1>1, <1>a DEF RollbackSession, Untrack, TypeOK
  <2>2. \A d \in Dirs : AbstractDir'[d] = AbstractDir[d]
    BY <1>1, <1>k DEF RollbackSession
  <2>3. {s} \in SUBSET Sids
    OBVIOUS
  <2>4. QED
    BY <2>1, <2>2, <2>3, ImplementsEnd
<1>2. ASSUME RemoveSessionDir \/ RemoveSessionDirFailed
      PROVE  Atomic!Next
  <2>1. cur \in Sids /\ ~Tracked(cur) /\ UNCHANGED tracked
        /\ \A d \in Dirs \ {cur} : fs'[d] = fs[d]
    BY <1>2, <1>a DEF RemoveSessionDir, RemoveSessionDirFailed, CleanShape, TypeOK
  <2>2. \A d \in Dirs \ {cur} : AbstractDir'[d] = AbstractDir[d]
    BY <2>1, <1>k
  <2>3. {cur} \in SUBSET Sids
    BY <2>1
  <2>4. QED
    BY <1>t, <2>1, <2>2, <2>3, ImplementsLeave DEF Dirs
<1>3. ASSUME CleanupOrphaned
      PROVE  Atomic!Next
  <2>1. PICK gone \in SUBSET Orphans : fs' = [d \in Dirs |-> IF d \in gone THEN None ELSE fs[d]]
    BY <1>3 DEF CleanupOrphaned
  <2>2. gone \in SUBSET Sids /\ (\A s \in gone : ~Tracked(s)) /\ UNCHANGED tracked
    BY <1>3 DEF CleanupOrphaned, Orphans
  <2>3. \A d \in Dirs \ gone : AbstractDir'[d] = AbstractDir[d]
    BY <2>1, <1>k
  <2>4. QED
    BY <1>t, <2>2, <2>3, ImplementsLeave DEF Dirs
<1>4. QED
  BY <1>1, <1>2, <1>3 DEF CleanNext

\* Agents and users edit files, directories are lost, and a crash ends every
\* session.
LEMMA RefineEnv ==
    ASSUME Races = {}, Inv, PlainFiles, PlainFiles', PlainSnapshots, EnvNext
    PROVE  [Atomic!Next]_Atomic!vars
<1>a. TypeOK /\ RootsExist /\ CommitShape /\ Shape
  BY DEF Inv, Shape
<1>1. ASSUME NEW p \in Paths, NEW v \in Contents \cup {Absent}, NEW s \in Sids,
             AgentWrite(s, p, v)
      PROVE  Atomic!Next
  BY <1>1, <1>a, ImplementsEdit DEF AgentWrite, MayWrite, Dirs
<1>2. ASSUME NEW p \in Paths, NEW v \in Contents \cup {Absent}, NEW b \in Roots,
             ExternalWrite(b, p, v)
      PROVE  Atomic!Next
  BY <1>2, <1>a, ImplementsEdit DEF ExternalWrite, MayWrite, RootsExist, Dirs
<1>3. ASSUME NEW b \in Roots, NEW s \in Sids, ExternalTidy(b, s)
      PROVE  UNCHANGED Atomic!vars
  <2>1. /\ b \in Dirs /\ fs[b] # None /\ s \in Names /\ s \notin Paths /\ SetFile(b, s, Absent)
        /\ UNCHANGED <<tracked, locals>> /\ b # base
    BY <1>3, <1>a, PathsAssumption DEF ExternalTidy, RootsExist, Dirs, Names
  <2>2. /\ fs'[b] # None /\ \A m \in Paths : fs'[b][m] = fs[b][m]
        /\ \A e \in Dirs : e # b => fs'[e] = fs[e]
    BY <1>a, <2>1, SetFileType DEF Names
  <2>3. \A d \in Dirs : AbstractDir'[d] = AbstractDir[d]
    BY <2>1, <2>2 DEF AbstractDir, FilesOf, locals
  <2>4. QED
    BY <2>1, <2>3, Invisible
<1>4. ASSUME NEW s \in Sids, LoseSessionDir(s)
      PROVE  Atomic!Next
  <2>1. \A d \in Dirs : fs'[d] = IF d = s THEN None ELSE fs[d]
    BY <1>4, <1>a DEF LoseSessionDir, TypeOK
  <2>2. UNCHANGED <<tracked, locals>> /\ s # base
    BY <1>4 DEF LoseSessionDir
  <2>3. \A d \in Dirs : AbstractDir'[d] = IF d = s THEN None ELSE AbstractDir[d]
    BY <2>1, <2>2 DEF AbstractDir, FilesOf, locals
  <2>4. AbstractDir' = [AbstractDir EXCEPT ![s] = None]
    BY <2>3, AbstractFunctions
  <2>5. Atomic!Lose(s)
    BY <2>2, <2>4, AbstractSnapshotKept DEF Atomic!Lose
  <2>6. QED
    BY <2>5 DEF Atomic!Next
<1>5. ASSUME Crash
      PROVE  Atomic!Next
  <2>1. /\ \A e \in Dirs : fs'[e] = None <=> fs[e] = None
        /\ \A e \in Dirs : fs[e] # None => \A p \in Paths : fs'[e][p] = fs[e][p]
    BY <1>5, <1>a, LeaveStagingType DEF Crash, CommitShape
  <2>2. CASE pc = "apply"
    BY <1>5, <2>1, <2>2, ImplementsBreakOff DEF Crash, Return
  <2>3. CASE pc # "apply"
    <3>1. pc # "apply" /\ pc' # "apply"
      BY <1>5, <2>3 DEF Crash, Return
    <3>2. \A d \in Dirs : AbstractDir'[d] = AbstractDir[d]
      BY <2>1, <3>1, AbstractDirKept
    <3>3. \A s \in Sids : tracked'[s] = IF s \in Sids THEN None ELSE tracked[s]
      BY <1>5 DEF Crash
    <3>4. QED
      BY <3>2, <3>3, ImplementsEnd
  <2>4. QED
    BY <2>2, <2>3
<1>6. QED
  BY <1>1, <1>2, <1>3, <1>4, <1>5 DEF EnvNext

\* The initial states are those of the atomic sessions.
LEMMA RefineInit == Init => Atomic!Init
<1> SUFFICES ASSUME Init PROVE Atomic!Init
  OBVIOUS
<1>1. Shape /\ PlainFiles /\ pc = "idle"
  BY ShapeInit, PlainInit DEF Init
<1>2. \A d \in Dirs : fs[d] = None <=> d \in Sids
  BY <1>1 DEF Init, Shape, RootsExist, UnusedIsClean, Dirs
<1>3. \A d \in Dirs : /\ AbstractDir[d] \in Atomic!Files \cup {None}
                      /\ AbstractDir[d] = None <=> d \in Sids
  BY <1>1, <1>2, AbstractDirIs
<1>4. AbstractSnapshot = [s \in Sids |-> None]
  BY DEF Init, AbstractSnapshot, Tracked
<1>5. QED
  BY <1>3, <1>4, AbstractFunctions DEF Atomic!Init, Atomic!Dirs, Dirs

\* Sessions are atomic: the stepwise begin, commit and rollback implement the
\* one-step ones as long as nobody writes to a directory in use, whatever fails
\* and whenever the process ends; a commit that fails in phase 2 breaks off.
THEOREM SessionsAreAtomic ==
    ASSUME Races = {}
    PROVE  Spec => SessionsAtomic
<1>1. Init => Atomic!Init /\ PlainFiles /\ PlainSnapshots
  BY RefineInit, PlainInit
<1>2. Inv /\ PlainFiles /\ PlainSnapshots /\ [Next]_vars => PlainFiles' /\ PlainSnapshots'
  BY PlainStep, PlainSnapshotsStep
<1>3. Inv /\ PlainFiles /\ PlainFiles' /\ PlainSnapshots /\ [Next]_vars
        => [Atomic!Next]_Atomic!vars
  <2> SUFFICES ASSUME Inv, PlainFiles, PlainFiles', PlainSnapshots, [Next]_vars
               PROVE  [Atomic!Next]_Atomic!vars
    OBVIOUS
  <2>1. CASE Next
    BY <2>1, RefineBegin, RefineCommit, RefineClean, RefineEnv DEF Next
  <2>2. CASE UNCHANGED vars
    BY <2>2 DEF vars, locals, Atomic!vars, AbstractDir, AbstractSnapshot, Tracked, FilesOf
  <2>3. QED
    BY <2>1, <2>2
<1>4. QED
  BY InvAlways, <1>1, <1>2, <1>3, PTL DEF Spec, SessionsAtomic, Atomic!Spec
=============================================================================
