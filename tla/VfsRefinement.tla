---------------------------- MODULE VfsRefinement ----------------------------
(***************************************************************************)
(* The stepwise sessions of VfsSession implement the atomic ones of        *)
(* AtomicSessions as long as nobody writes to a directory in the middle of *)
(* an operation on it.                                                     *)
(***************************************************************************)
EXTENDS VfsSession

\* None is no value of the abstract optional types either.
ASSUME AtomicNoneAssumption ==
    LET Files == [Paths -> Contents \cup {Absent}]
    IN  None \notin Files /\ None \notin [base : Dirs, files : Files]

\* The files of a tree, left-over staging directories aside.
FilesOf(tree) == [p \in Paths |-> tree[p]]

\* Phase 2 takes effect when it ends or breaks off: until then the base is what
\* the commit found there.
AbstractDir ==
    [d \in Dirs |-> IF fs[d] = None THEN None
                    ELSE FilesOf(IF pc = "apply" /\ base = d THEN hash ELSE fs[d])]

AbstractSnapshot ==
    [s \in Sids |-> IF Tracked(s)
                    THEN [base |-> tracked[s].base, files |-> FilesOf(tracked[s].hash)]
                    ELSE None]

Atomic == INSTANCE AtomicSessions
             WITH dir <- AbstractDir, snapshot <- AbstractSnapshot

\* Sessions are atomic (session.rs, isolation.rs, apply.rs), but for commits that
\* break off: every step is a step of AtomicSessions or invisible.
SessionsAtomic == Atomic!Spec
=============================================================================
