--------------------------- MODULE AtomicSessions ---------------------------
(***************************************************************************)
(* What the workspace sessions keep to: a session works on a private copy  *)
(* of its base, commit replaces the base by the copy in one step and only  *)
(* if the base still is what it was when the session began, and a session  *)
(* that ends in any other way leaves the base alone.  One step is not      *)
(* all-or-nothing: an installation that breaks off leaves some of the      *)
(* changes in the base.                                                    *)
(***************************************************************************)
CONSTANTS Roots, Sids, Paths, Contents, Absent, None

Files == [Paths -> Contents \cup {Absent}]

Dirs == Roots \cup Sids

VARIABLES
    dir,        \* contents of each directory, None when there is none
    snapshot    \* live sessions: the base, and its contents at the start

vars == <<dir, snapshot>>

Live(d) == d \in {s \in Sids : snapshot[s] # None}

Init ==
    /\ dir \in [Dirs -> Files \cup {None}]
    /\ \A d \in Dirs : dir[d] = None <=> d \in Sids
    /\ snapshot = [s \in Sids |-> None]

\* A session may be begun on the directory of another one.
Begin(s, b) ==
    /\ ~Live(s) /\ dir[b] # None
    /\ snapshot' = [snapshot EXCEPT ![s] = [base |-> b, files |-> dir[b]]]
    /\ dir' = [dir EXCEPT ![s] = dir[b]]

Edit(d, p, v) ==
    /\ dir[d] # None
    /\ dir' = [dir EXCEPT ![d][p] = v]
    /\ UNCHANGED snapshot

Commit(s) ==
    /\ Live(s)
    /\ dir[s] # None
    /\ dir[snapshot[s].base] = snapshot[s].files
    /\ dir' = [dir EXCEPT ![snapshot[s].base] = dir[s]]
    /\ snapshot' = [snapshot EXCEPT ![s] = None]

\* Directory b with some of its files replaced by those of s.
Mixed(b, s, done) == [p \in Paths |-> IF p \in done THEN dir[s][p] ELSE dir[b][p]]

\* An installation ends with an error, or with the process: some files of the
\* base are the session's, the others what they were.
BreakOff(s) ==
    /\ Live(s)
    /\ dir[s] # None
    /\ dir[snapshot[s].base] = snapshot[s].files
    /\ \E done \in SUBSET Paths :
          dir' = [dir EXCEPT ![snapshot[s].base] = Mixed(snapshot[s].base, s, done)]
    /\ snapshot' \in {snapshot, [t \in Sids |-> None]}

\* Rollback, or a crash.
End(S) ==
    /\ snapshot' = [s \in Sids |-> IF s \in S THEN None ELSE snapshot[s]]
    /\ UNCHANGED dir

\* A session's directory may be lost.
Lose(s) ==
    /\ dir' = [dir EXCEPT ![s] = None]
    /\ UNCHANGED snapshot

\* Nothing is promised of directories in the place of sessions that are not
\* begun yet, or over.
Leave(S) ==
    /\ \A s \in S : ~Live(s)
    /\ \E left \in [S -> Files \cup {None}] :
          dir' = [d \in Dirs |-> IF d \in S THEN left[d] ELSE dir[d]]
    /\ UNCHANGED snapshot

Next ==
    \/ \E s \in Sids, b \in Dirs : Begin(s, b)
    \/ \E d \in Dirs, p \in Paths, v \in Contents \cup {Absent} : Edit(d, p, v)
    \/ \E s \in Sids : Commit(s) \/ BreakOff(s) \/ Lose(s)
    \/ \E S \in SUBSET Sids : End(S) \/ Leave(S)

Spec == Init /\ [][Next]_vars
=============================================================================
