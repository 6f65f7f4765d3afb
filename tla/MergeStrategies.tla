--------------------------- MODULE MergeStrategies ---------------------------
(***************************************************************************)
(* The merge strategies of components/supervisor/src/merge: each takes the *)
(* results of several branches and says which changes are merged and which *)
(* paths are in conflict.  A change is a path and a kind; a branch result  *)
(* is a branch with the set of its changes, at most one for a path, which  *)
(* is what a scan of a directory returns.  The contents of files matter to *)
(* the three-way strategy only: clashing has <<path, branch, branch>> where *)
(* two branches changed the same lines of a file.                          *)
(***************************************************************************)
EXTENDS Naturals, Sequences, FiniteSetsExt

CONSTANT MaxMerge   \* MAX_BRANCHES: the most branches one merge takes

ASSUME MaxMergeAssumption == MaxMerge \in Nat \ {0}

Kinds == {"Added", "Modified", "Deleted"}

\* Variant: a deletion is in conflict with nothing else.
ChangesConflictSameKind(c, d) == c.path = d.path /\ c.kind = d.kind

\* Two changes of one path conflict unless one is an addition and the other
\* a modification.
ChangesConflict(c, d) ==
    /\ c.path = d.path
    /\ \/ c.kind = d.kind
       \/ "Deleted" \in {c.kind, d.kind}

Paths(results) == UNION {{c.path : c \in results[i].changes} : i \in DOMAIN results}

\* The results that change path p, by their places in the list, and the change
\* that one of them makes.
Touching(results, p) == {i \in DOMAIN results : \E c \in results[i].changes : c.path = p}
ChangeOf(results, i, p) == CHOOSE c \in results[i].changes : c.path = p
Clash(results, i, j, p) == ChangesConflict(ChangeOf(results, i, p), ChangeOf(results, j, p))

FirstAt(results, p) == Min(Touching(results, p))
LastAt(results, p) == Max(Touching(results, p))
Later(results, p) == Touching(results, p) \ {FirstAt(results, p)}

(***************************************************************************)
(* An outcome: the merged changes, and for each conflict its path and the  *)
(* branches it names.                                                      *)
(***************************************************************************)
Outcome(merged, conflicts) == [merged |-> merged, conflicts |-> conflicts]
Naming(results, touching, p) ==
    [path |-> p, branches |-> {results[i].branch : i \in touching}]
NamingAll(results, paths) == {Naming(results, Touching(results, p), p) : p \in paths}

\* All changes of a path are compared with each other (detect_conflicts).
DetectConflicts(results) ==
    NamingAll(results, {p \in Paths(results) :
        \E i, j \in Touching(results, p) : i < j /\ Clash(results, i, j, p)})

\* union: the later changes of a path are compared with the first one only;
\* a path in conflict is not merged.
UnionMerge(results) ==
    LET first(p) == FirstAt(results, p)
        bad == {p \in Paths(results) : \E i \in Later(results, p) : Clash(results, first(p), i, p)}
    IN  Outcome({ChangeOf(results, first(p), p) : p \in Paths(results) \ bad},
                NamingAll(results, bad))

\* three-way: one result is merged as it is; two modifications of a path are
\* compared line by line, the first is taken when no lines clash; anything
\* else that two branches touch is a conflict.
ThreeWayMerge(results, clashing) ==
    LET first(p) == FirstAt(results, p)
        last(p) == LastAt(results, p)
        modified(i, p) == ChangeOf(results, i, p).kind = "Modified"
        clash(p) ==
            /\ first(p) # last(p)
            /\ \/ Cardinality(Touching(results, p)) > 2
               \/ ~modified(first(p), p) \/ ~modified(last(p), p)
               \/ <<p, results[first(p)].branch, results[last(p)].branch>> \in clashing
        bad == {p \in Paths(results) : Len(results) > 1 /\ clash(p)}
    IN  Outcome({ChangeOf(results, first(p), p) : p \in Paths(results) \ bad},
                NamingAll(results, bad))

\* ours: the first change of a path stays; every later one that conflicts
\* with it is reported with its own branch.
OursMerge(results) ==
    LET first(p) == FirstAt(results, p)
    IN  Outcome({ChangeOf(results, first(p), p) : p \in Paths(results)},
                UNION {{Naming(results, {i}, p) :
                           i \in {j \in Later(results, p) : Clash(results, first(p), j, p)}} :
                       p \in Paths(results)})

\* theirs: the last change of a path stays; every change that conflicts with
\* the one before it is reported with its own branch.
TheirsMerge(results) ==
    LET before(i, p) == Max({j \in Touching(results, p) : j < i})
    IN  Outcome({ChangeOf(results, LastAt(results, p), p) : p \in Paths(results)},
                UNION {{Naming(results, {i}, p) :
                           i \in {j \in Later(results, p) : Clash(results, before(j, p), j, p)}} :
                       p \in Paths(results)})

TooMany(results) == Len(results) > MaxMerge

\* MergeStrategyRegistry::get and MergeStrategy::merge.
Merge(name, results, clashing) ==
    CASE name = "union"     -> UnionMerge(results)
      [] name = "three-way" -> ThreeWayMerge(results, clashing)
      [] name = "ours"      -> OursMerge(results)
      [] name = "theirs"    -> TheirsMerge(results)
=============================================================================
