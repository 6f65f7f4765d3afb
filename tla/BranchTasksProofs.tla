------------------------- MODULE BranchTasksProofs -------------------------
(***************************************************************************)
(* Proofs about BranchTasks, for any branches, files, edits and failures:  *)
(* what is merged of branches that were made of one base, that a task      *)
(* completes with every change of them, and, for any texts, that a line    *)
(* diff covers both texts and a merge marks lines both branches changed.   *)
(***************************************************************************)
EXTENDS BranchTasks, FiniteSetTheorems, TLAPS

-----------------------------------------------------------------------------
(* The changes of branches of one base *)

\* The least of a set of numbers is one of them.
LEMMA MinIs ==
    ASSUME NEW S \in SUBSET Nat, S # {}
    PROVE  Min(S) \in S /\ \A i \in S : Min(S) <= i
<1> DEFINE R == OpToRel(<, Nat)
<1>1. IsWellFoundedOn(R, Nat)
  BY NatLessThanWellFounded
<1>2. \A i, j \in Nat : i < j => <<i, j>> \in R
  BY DEF OpToRel
<1> HIDE DEF R
<1>3. PICK i \in S : \A j \in S : <<j, i>> \notin R
  BY <1>1, WFMin
<1>4. ASSUME NEW j \in S PROVE i <= j
  <2>1. i \in Nat /\ j \in Nat /\ ~(j < i)
    BY <1>2, <1>3
  <2>2. QED
    BY <2>1
<1>5. QED
  BY <1>4 DEF Min

\* A branch has one change of a path at most, whose kind the base decides up to
\* a deletion.
LEMMA ChangeIs ==
    ASSUME NEW b, NEW c \in Changes(b)
    PROVE  /\ c.path \in Files
           /\ c.kind \in Kinds
           /\ base[c.path] = NoFile => c.kind = "Added"
           /\ base[c.path] # NoFile => c.kind \in {"Modified", "Deleted"}
           /\ \A d \in Changes(b) : d.path = c.path => d = c
<1> DEFINE kind(f) == CASE base[f] = NoFile -> "Added"
                         [] base[f] # NoFile /\ branch[b].files[f] = NoFile -> "Deleted"
                         [] OTHER -> "Modified"
<1>1. \A d \in Changes(b) : \E f \in Files : d = [path |-> f, kind |-> kind(f)]
  BY DEF Changes
<1>2. \A f : /\ base[f] = NoFile => kind(f) = "Added"
             /\ base[f] # NoFile => kind(f) \in {"Modified", "Deleted"}
  OBVIOUS
<1> HIDE DEF kind
<1>3. QED
  BY <1>1, <1>2 DEF Kinds

\* Any two changes of a path conflict.
LEMMA SameBaseConflict ==
    ASSUME NEW b, NEW c \in Changes(b), NEW e, NEW d \in Changes(e), c.path = d.path
    PROVE  ChangesConflict(c, d)
BY ChangeIs DEF ChangesConflict

\* The places of a path in a list of branches are those of its changes.
LEMMA TouchingIs ==
    ASSUME NEW bs \in Seq(Branches), NEW p
    PROVE  LET T == Touching(Results(bs), p)
           IN  /\ T \subseteq 1..Len(bs)
               /\ \A i \in 1..Len(bs) : i \in T <=> \E c \in Changes(bs[i]) : c.path = p
               /\ \A i \in T : /\ ChangeOf(Results(bs), i, p) \in Changes(bs[i])
                               /\ ChangeOf(Results(bs), i, p).path = p
                               /\ \A c \in Changes(bs[i]) :
                                     c.path = p => c = ChangeOf(Results(bs), i, p)
               /\ \A i, j \in T : Clash(Results(bs), i, j, p)
               /\ T # {} => /\ FirstAt(Results(bs), p) \in T
                            /\ \A i \in T : FirstAt(Results(bs), p) <= i
               /\ p \in Paths(Results(bs)) <=> T # {}
<1> DEFINE R == Results(bs)
           T == Touching(R, p)
<1>1. /\ DOMAIN R = 1..Len(bs)
      /\ \A i \in 1..Len(bs) : R[i].changes = Changes(bs[i]) /\ R[i].branch = bs[i]
  BY DEF Results
<1> HIDE DEF R
<1>2. /\ T \subseteq 1..Len(bs)
      /\ \A i \in 1..Len(bs) : i \in T <=> \E c \in Changes(bs[i]) : c.path = p
  BY <1>1 DEF Touching
<1>3. ASSUME NEW i \in T
      PROVE  /\ ChangeOf(R, i, p) \in Changes(bs[i])
             /\ ChangeOf(R, i, p).path = p
             /\ \A c \in Changes(bs[i]) : c.path = p => c = ChangeOf(R, i, p)
  <2>1. ChangeOf(R, i, p) = CHOOSE c \in Changes(bs[i]) : c.path = p
    BY <1>1, <1>2 DEF ChangeOf
  <2>2. ChangeOf(R, i, p) \in Changes(bs[i]) /\ ChangeOf(R, i, p).path = p
    BY <1>2, <2>1
  <2>3. QED
    BY <2>2, ChangeIs
<1>4. \A i, j \in T : Clash(R, i, j, p)
  BY <1>3, SameBaseConflict DEF Clash
<1>5. T # {} => FirstAt(R, p) \in T /\ \A i \in T : FirstAt(R, p) <= i
  BY <1>2, MinIs DEF FirstAt
<1>6. p \in Paths(R) <=> T # {}
  BY <1>1, <1>2 DEF Paths, Touching
<1>7. QED
  BY <1>2, <1>3, <1>4, <1>5, <1>6 DEF R

\* union keeps every change of branches of one base when it reports no conflict.
LEMMA UnionKeeps ==
    ASSUME NEW bs \in Seq(Branches), UnionMerge(Results(bs)).conflicts = {},
           NEW i \in 1..Len(bs)
    PROVE  Changes(bs[i]) \subseteq UnionMerge(Results(bs)).merged
<1> DEFINE R == Results(bs)
           first(p) == FirstAt(R, p)
           bad == {p \in Paths(R) : \E j \in Later(R, p) : Clash(R, first(p), j, p)}
<1>1. /\ UnionMerge(R).merged = {ChangeOf(R, first(p), p) : p \in Paths(R) \ bad}
      /\ UnionMerge(R).conflicts = NamingAll(R, bad)
  BY DEF UnionMerge, Outcome
<1>2. bad = {}
  BY <1>1 DEF NamingAll
<1> SUFFICES ASSUME NEW c \in Changes(bs[i]) PROVE c \in UnionMerge(R).merged
  BY DEF R
<1> DEFINE T == Touching(R, c.path)
<1>3. i \in T /\ c = ChangeOf(R, i, c.path) /\ c.path \in Paths(R)
  BY TouchingIs
<1>4. first(c.path) \in T /\ Clash(R, first(c.path), i, c.path)
  BY <1>3, TouchingIs
<1>5. first(c.path) = i
  BY <1>2, <1>3, <1>4 DEF Later
<1>6. QED
  BY <1>1, <1>2, <1>3, <1>5

-----------------------------------------------------------------------------
(* The order of the branches *)

\* rs has the branches of bs in the reverse order.
Mirror(bs, rs) ==
    /\ bs \in Seq(Branches) /\ rs \in Seq(Branches) /\ Len(rs) = Len(bs)
    /\ \A i \in 1..Len(bs) : rs[i] = bs[Len(bs) + 1 - i]

\* The reverse order has the first as its reverse.
LEMMA MirrorBack ==
    ASSUME NEW bs, NEW rs, Mirror(bs, rs)
    PROVE  Mirror(rs, bs)
<1> DEFINE n == Len(bs)
<1>1. n \in Nat /\ Len(rs) = n /\ \A i \in 1..n : rs[i] = bs[n + 1 - i]
  BY DEF Mirror
<1> HIDE DEF n
<1>2. ASSUME NEW i \in 1..n PROVE bs[i] = rs[n + 1 - i]
  <2>1. n + 1 - i \in 1..n /\ n + 1 - (n + 1 - i) = i
    BY <1>1
  <2>2. rs[n + 1 - i] = bs[n + 1 - (n + 1 - i)]
    BY <1>1, <2>1
  <2>3. QED
    BY <2>1, <2>2
<1>3. QED
  BY <1>1, <1>2 DEF Mirror, n

\* The results of the branches in reverse order are the results reversed.
LEMMA ReverseMirrors ==
    ASSUME NEW bs \in Seq(Branches)
    PROVE  Mirror(bs, Reverse(bs)) /\ Reverse(Results(bs)) = Results(Reverse(bs))
<1> DEFINE n == Len(bs)
           rs == Reverse(bs)
<1>1. n \in Nat /\ bs \in [1..n -> Branches] /\ DOMAIN bs = 1..n
  OBVIOUS
<1>2. rs = [i \in 1..n |-> bs[n - i + 1]]
  BY DEF Reverse
<1>3. Results(bs) = [i \in 1..n |-> [branch |-> bs[i], changes |-> Changes(bs[i])]]
  BY DEF Results
<1> HIDE DEF n, rs
<1>4. \A i \in 1..n : n - i + 1 \in 1..n /\ n + 1 - i = n - i + 1
  BY <1>1
<1>5. rs \in [1..n -> Branches] /\ \A i \in 1..n : rs[i] = bs[n + 1 - i]
  BY <1>1, <1>2, <1>4
<1>6. rs \in Seq(Branches) /\ Len(rs) = n /\ DOMAIN rs = 1..n
  BY <1>1, <1>5
<1>7. Mirror(bs, rs)
  BY <1>5, <1>6 DEF Mirror, n
<1>8. Len(Results(bs)) = n /\ DOMAIN Results(bs) = 1..n
  BY <1>1, <1>3
<1>9. Reverse(Results(bs)) = [i \in 1..n |-> Results(bs)[n - i + 1]]
  BY <1>8 DEF Reverse
<1>10. \A i \in 1..n : Results(bs)[n - i + 1] =
                          [branch |-> rs[i], changes |-> Changes(rs[i])]
  BY <1>3, <1>4, <1>5
<1>11. Results(rs) = [i \in 1..n |-> [branch |-> rs[i], changes |-> Changes(rs[i])]]
  BY <1>6 DEF Results
<1>12. QED
  BY <1>7, <1>9, <1>10, <1>11 DEF rs

\* A path is touched at the mirrored places, by the same changes; the last one
\* becomes the first.
LEMMA TouchingMirrors ==
    ASSUME NEW bs, NEW rs, Mirror(bs, rs), NEW p
    PROVE  LET n == Len(bs)
               T == Touching(Results(bs), p)
               U == Touching(Results(rs), p)
           IN  /\ \A i \in 1..n : i \in T <=> n + 1 - i \in U
               /\ \A i \in T : ChangeOf(Results(bs), i, p) = ChangeOf(Results(rs), n + 1 - i, p)
               /\ T # {} => /\ U # {}
                            /\ LastAt(Results(bs), p) = n + 1 - FirstAt(Results(rs), p)
                            /\ LastAt(Results(bs), p) \in T
                            /\ \A i \in T : i <= LastAt(Results(bs), p)
<1> DEFINE n == Len(bs)
           T == Touching(Results(bs), p)
           U == Touching(Results(rs), p)
           first == FirstAt(Results(rs), p)
<1>1. /\ bs \in Seq(Branches) /\ rs \in Seq(Branches) /\ n \in Nat /\ Len(rs) = n
      /\ \A i \in 1..n : rs[i] = bs[n + 1 - i]
      /\ \A i \in 1..n : bs[i] = rs[n + 1 - i]
  <2>1. Mirror(rs, bs)
    BY MirrorBack
  <2>2. Len(rs) = Len(bs)
    BY DEF Mirror
  <2>3. \A i \in 1..n : bs[i] = rs[n + 1 - i]
    BY <2>1, <2>2 DEF Mirror
  <2>4. QED
    BY <2>3 DEF Mirror
<1>2. /\ T \subseteq 1..n /\ U \subseteq 1..n
      /\ \A i \in 1..n : i \in T <=> \E c \in Changes(bs[i]) : c.path = p
      /\ \A i \in 1..n : i \in U <=> \E c \in Changes(rs[i]) : c.path = p
      /\ U # {} => first \in U /\ \A i \in U : first <= i
  BY <1>1, TouchingIs
<1>3. \A i \in T : /\ ChangeOf(Results(bs), i, p) \in Changes(bs[i])
                   /\ ChangeOf(Results(bs), i, p).path = p
  BY <1>1, TouchingIs
<1>4. \A i \in U : \A c \in Changes(rs[i]) : c.path = p => c = ChangeOf(Results(rs), i, p)
  BY <1>1, TouchingIs
<1> HIDE DEF n, T, U, first
<1>5. \A i \in 1..n : n + 1 - i \in 1..n /\ n + 1 - (n + 1 - i) = i
  BY <1>1
<1>6. \A i \in 1..n : i \in T <=> n + 1 - i \in U
  BY <1>1, <1>2, <1>5
<1>7. \A i \in T : ChangeOf(Results(bs), i, p) = ChangeOf(Results(rs), n + 1 - i, p)
  BY <1>1, <1>2, <1>3, <1>4, <1>6
<1>8. ASSUME T # {}
      PROVE  /\ U # {} /\ LastAt(Results(bs), p) = n + 1 - first
             /\ LastAt(Results(bs), p) \in T
             /\ \A i \in T : i <= LastAt(Results(bs), p)
  <2>1. U # {} /\ first \in U /\ first \in 1..n
    BY <1>2, <1>6, <1>8
  <2> DEFINE last == n + 1 - first
  <2>2. last \in T
    BY <1>5, <1>6, <2>1
  <2>3. ASSUME NEW i \in T PROVE i <= last
    <3>1. n + 1 - i \in U /\ i \in 1..n
      BY <1>2, <1>6
    <3>2. first <= n + 1 - i
      BY <1>2, <2>1, <3>1
    <3>3. QED
      BY <1>1, <2>1, <3>1, <3>2
  <2>4. \A i \in T : (\A j \in T : i >= j) => i = last
    <3>1. \A i \in T : i \in Int
      BY <1>2
    <3>2. last \in Int
      BY <2>2, <3>1
    <3> HIDE DEF last
    <3>3. QED
      BY <2>2, <2>3, <3>1, <3>2
  <2>5. Max(T) = last
    <3>1. \A j \in T : last >= j
      <4>1. \A i \in T : i \in Int
        BY <1>2
      <4> HIDE DEF last
      <4>2. QED
        BY <2>2, <2>3, <4>1
    <3> HIDE DEF last
    <3>2. QED
      BY <2>2, <2>4, <3>1 DEF Max
  <2>6. QED
    BY <2>1, <2>2, <2>3, <2>5 DEF LastAt, T
<1>9. QED
  BY <1>6, <1>7, <1>8 DEF n, T, U, first

-----------------------------------------------------------------------------
(* What the strategies make of branches of one base *)

\* The paths that two branches change, and the change of a path no other has.
Shared(bs) ==
    {p \in Paths(Results(bs)) : \E i, j \in Touching(Results(bs), p) : i # j}
Firsts(bs, paths) == {ChangeOf(Results(bs), FirstAt(Results(bs), p), p) : p \in paths}

\* union reports every path that two branches change, and merges the others.
LEMMA UnionIs ==
    ASSUME NEW bs \in Seq(Branches)
    PROVE  UnionMerge(Results(bs)) =
              Outcome(Firsts(bs, Paths(Results(bs)) \ Shared(bs)),
                      NamingAll(Results(bs), Shared(bs)))
<1> DEFINE R == Results(bs)
           bad == {p \in Paths(R) : \E i \in Later(R, p) : Clash(R, FirstAt(R, p), i, p)}
<1>1. ASSUME NEW p \in Paths(R)
      PROVE  p \in bad <=> \E i, j \in Touching(R, p) : i # j
  <2>1. /\ FirstAt(R, p) \in Touching(R, p)
        /\ \A i, j \in Touching(R, p) : Clash(R, i, j, p)
    BY TouchingIs
  <2>2. QED
    BY <2>1 DEF Later
<1>2. bad = Shared(bs)
  BY <1>1 DEF Shared
<1>3. UnionMerge(R) = Outcome({ChangeOf(R, FirstAt(R, p), p) : p \in Paths(R) \ bad},
                              NamingAll(R, bad))
  BY DEF UnionMerge
<1>4. QED
  BY <1>2, <1>3 DEF Firsts

\* So does a comparison of all changes with each other.
LEMMA DetectIs ==
    ASSUME NEW bs \in Seq(Branches)
    PROVE  DetectConflicts(Results(bs)) = NamingAll(Results(bs), Shared(bs))
<1> DEFINE R == Results(bs)
           pairs == {p \in Paths(R) : \E i, j \in Touching(R, p) : i < j /\ Clash(R, i, j, p)}
<1>1. ASSUME NEW p \in Paths(R)
      PROVE  p \in pairs <=> \E i, j \in Touching(R, p) : i # j
  <2>1. /\ Touching(R, p) \subseteq 1..Len(bs) /\ Len(bs) \in Nat
        /\ \A i, j \in Touching(R, p) : Clash(R, i, j, p)
    BY TouchingIs
  <2>2. \A i, j \in 1..Len(bs) : i # j => i < j \/ j < i
    OBVIOUS
  <2>3. \A i, j \in 1..Len(bs) : i < j => i # j
    OBVIOUS
  <2>4. QED
    BY <2>1, <2>2, <2>3
<1>2. pairs = Shared(bs)
  BY <1>1 DEF Shared
<1>3. QED
  BY <1>2 DEF DetectConflicts

\* The same paths are changed, and shared, in the reverse order, and the first
\* branch that changes one is the last one.
LEMMA Reversed ==
    ASSUME NEW bs, NEW rs, Mirror(bs, rs)
    PROVE  /\ Paths(Results(rs)) = Paths(Results(bs))
           /\ Shared(rs) = Shared(bs)
           /\ \A p \in Paths(Results(bs)) :
                 /\ Naming(Results(rs), Touching(Results(rs), p), p) =
                       Naming(Results(bs), Touching(Results(bs), p), p)
                 /\ ChangeOf(Results(bs), LastAt(Results(bs), p), p) =
                       ChangeOf(Results(rs), FirstAt(Results(rs), p), p)
<1> DEFINE n == Len(bs)
           T(p) == Touching(Results(bs), p)
           U(p) == Touching(Results(rs), p)
<1>1. bs \in Seq(Branches) /\ rs \in Seq(Branches) /\ Len(rs) = n /\ n \in Nat
  BY DEF Mirror
<1>2. \A i \in 1..n : rs[i] = bs[n + 1 - i] /\ n + 1 - i \in 1..n /\ n + 1 - (n + 1 - i) = i
  BY <1>1 DEF Mirror
<1>3. \A p : /\ T(p) \subseteq 1..n /\ U(p) \subseteq 1..n
             /\ p \in Paths(Results(bs)) <=> T(p) # {}
             /\ p \in Paths(Results(rs)) <=> U(p) # {}
  BY <1>1, TouchingIs
<1>4. \A p : \A i \in 1..n : i \in T(p) <=> n + 1 - i \in U(p)
  BY TouchingMirrors
<1>5. \A p : T(p) # {} => /\ LastAt(Results(bs), p) \in T(p)
                          /\ LastAt(Results(bs), p) = n + 1 - FirstAt(Results(rs), p)
                          /\ FirstAt(Results(rs), p) \in U(p)
  BY <1>1, TouchingMirrors, TouchingIs
<1>6. \A p : \A i \in T(p) :
         ChangeOf(Results(bs), i, p) = ChangeOf(Results(rs), n + 1 - i, p)
  BY TouchingMirrors
<1>7. /\ \A i \in 1..n : Results(bs)[i].branch = bs[i]
      /\ \A i \in 1..n : Results(rs)[i].branch = rs[i]
  BY <1>1 DEF Results
<1> HIDE DEF n, T, U
<1>8. Paths(Results(rs)) = Paths(Results(bs))
  <2>1. \A p : T(p) # {} <=> U(p) # {}
    BY <1>2, <1>3, <1>4
  <2>2. QED
    BY <1>3, <2>1 DEF Paths
<1>9. Shared(rs) = Shared(bs)
  <2>1. ASSUME NEW p
        PROVE  (\E i, j \in T(p) : i # j) <=> (\E i, j \in U(p) : i # j)
    <3>1. ASSUME NEW i \in T(p), NEW j \in T(p), i # j
          PROVE  \E k, l \in U(p) : k # l
      <4>1. n + 1 - i \in U(p) /\ n + 1 - j \in U(p) /\ n + 1 - i # n + 1 - j
        BY <1>2, <1>3, <1>4, <3>1
      <4>2. QED
        BY <4>1
    <3>2. ASSUME NEW i \in U(p), NEW j \in U(p), i # j
          PROVE  \E k, l \in T(p) : k # l
      <4>1. n + 1 - i \in T(p) /\ n + 1 - j \in T(p) /\ n + 1 - i # n + 1 - j
        BY <1>2, <1>3, <1>4, <3>2
      <4>2. QED
        BY <4>1
    <3>3. QED
      BY <3>1, <3>2
  <2>2. QED
    BY <1>8, <2>1 DEF Shared, T, U
<1>10. ASSUME NEW p \in Paths(Results(bs))
       PROVE  Naming(Results(rs), U(p), p) = Naming(Results(bs), T(p), p)
  <2>1. \A i \in T(p) : Results(bs)[i].branch = Results(rs)[n + 1 - i].branch /\ n + 1 - i \in U(p)
    BY <1>2, <1>3, <1>4, <1>7
  <2>2. \A i \in U(p) : Results(rs)[i].branch = Results(bs)[n + 1 - i].branch /\ n + 1 - i \in T(p)
    BY <1>2, <1>3, <1>4, <1>7
  <2>3. {Results(rs)[i].branch : i \in U(p)} = {Results(bs)[i].branch : i \in T(p)}
    BY <2>1, <2>2
  <2>4. QED
    BY <2>3 DEF Naming
<1>11. ASSUME NEW p \in Paths(Results(bs))
       PROVE  ChangeOf(Results(bs), LastAt(Results(bs), p), p) =
                 ChangeOf(Results(rs), FirstAt(Results(rs), p), p)
  <2>1. PICK last \in T(p) : last = LastAt(Results(bs), p)
    BY <1>3, <1>5
  <2>2. FirstAt(Results(rs), p) = n + 1 - last
    BY <1>1, <1>3, <1>5, <2>1
  <2>3. QED
    BY <1>6, <2>1, <2>2
<1>12. QED
  BY <1>8, <1>9, <1>10, <1>11 DEF T, U

\* When one branch alone changes a path, its change is the first and the last.
LEMMA UnionReversed ==
    ASSUME NEW bs, NEW rs, Mirror(bs, rs)
    PROVE  UnionMerge(Results(rs)) = UnionMerge(Results(bs))
<1> DEFINE alone == Paths(Results(bs)) \ Shared(bs)
<1>1. bs \in Seq(Branches) /\ rs \in Seq(Branches)
  BY DEF Mirror
<1>2. Firsts(rs, alone) = Firsts(bs, alone)
  <2>1. ASSUME NEW p \in alone
        PROVE  ChangeOf(Results(rs), FirstAt(Results(rs), p), p) =
                  ChangeOf(Results(bs), FirstAt(Results(bs), p), p)
    <3>1. Touching(Results(bs), p) # {} /\ FirstAt(Results(bs), p) \in Touching(Results(bs), p)
      BY <1>1, TouchingIs
    <3>2. LastAt(Results(bs), p) \in Touching(Results(bs), p)
      BY <3>1, TouchingMirrors
    <3>3. FirstAt(Results(bs), p) = LastAt(Results(bs), p)
      BY <3>1, <3>2 DEF Shared
    <3>4. QED
      BY <3>3, Reversed
  <2>2. QED
    BY <2>1 DEF Firsts
<1>3. NamingAll(Results(rs), Shared(bs)) = NamingAll(Results(bs), Shared(bs))
  <2>1. \A p \in Shared(bs) : Naming(Results(rs), Touching(Results(rs), p), p) =
                                 Naming(Results(bs), Touching(Results(bs), p), p)
    BY Reversed DEF Shared
  <2>2. QED
    BY <2>1 DEF NamingAll
<1>4. Paths(Results(rs)) = Paths(Results(bs)) /\ Shared(rs) = Shared(bs)
  BY Reversed
<1>5. QED
  BY <1>1, <1>2, <1>3, <1>4, UnionIs

\* What three-way reports are paths that two branches change.
LEMMA ThreeWayIsNoStricter ==
    ASSUME NEW bs \in Seq(Branches), NEW clashing
    PROVE  LET three == ThreeWayMerge(Results(bs), clashing)
               union == UnionMerge(Results(bs))
           IN  three.conflicts \subseteq union.conflicts /\ union.merged \subseteq three.merged
<1> DEFINE R == Results(bs)
           modified(i, p) == ChangeOf(R, i, p).kind = "Modified"
           clash(p) == /\ FirstAt(R, p) # LastAt(R, p)
                       /\ \/ Cardinality(Touching(R, p)) > 2
                          \/ ~modified(FirstAt(R, p), p) \/ ~modified(LastAt(R, p), p)
                          \/ <<p, R[FirstAt(R, p)].branch, R[LastAt(R, p)].branch>> \in clashing
           bad == {p \in Paths(R) : Len(R) > 1 /\ clash(p)}
<1>1. ThreeWayMerge(R, clashing) =
         Outcome(Firsts(bs, Paths(R) \ bad), NamingAll(R, bad))
  BY DEF ThreeWayMerge, Firsts
<1>2. bad \subseteq Shared(bs)
  <2>1. ASSUME NEW p \in bad PROVE p \in Shared(bs)
    <3>1. Touching(R, p) # {} /\ FirstAt(R, p) \in Touching(R, p)
      BY TouchingIs
    <3>2. LastAt(R, p) \in Touching(R, p)
      BY <3>1, ReverseMirrors, TouchingMirrors
    <3>3. FirstAt(R, p) # LastAt(R, p)
      OBVIOUS
    <3> HIDE DEF clash
    <3>4. QED
      BY <3>1, <3>2, <3>3 DEF Shared
  <2>2. QED
    BY <2>1
<1> HIDE DEF bad
<1>3. UnionMerge(R) = Outcome(Firsts(bs, Paths(R) \ Shared(bs)), NamingAll(R, Shared(bs)))
  BY UnionIs
<1>4. QED
  BY <1>1, <1>2, <1>3 DEF Outcome, Firsts, NamingAll

-----------------------------------------------------------------------------
(* What the rows, the branches and the requests say of each other *)

Names == {"AnalyzingForBranch", "Executing", "Branching", "MergePendingApproval", "Merging",
          "Completed", "Failed"}
Row == [name : Names, branches : Seq(Branches), completed : Int, request : Nat \cup {NoRequest}]
Request == [status   : {"Pending", "Approved", "Rejected", "Merged", "Conflict"},
            branches : Seq(Branches)]
Branch == [status : {"absent", "Pending", "Active", "Completed", "Failed"},
           files  : [Files -> Seq(LineValues) \cup {NoFile}]]
Places == {"idle", "create", "execute", "request", "conflicts", "merge", "write", "fail"}

Typed ==
    /\ task \in Row /\ job \in Row /\ pc \in Places
    /\ request \in Seq(Request)
    /\ branch \in [Branches -> Branch]

\* While there are branches to make or to start, no merge has been asked for;
\* the handlers never write the first status.
NoneAsked ==
    /\ task.name = "AnalyzingForBranch" \/ pc \in {"create", "execute"} => request = <<>>
    /\ job.name # "AnalyzingForBranch"
    /\ pc = "create" => job.name = "Branching"

\* A merge is asked for when all its branches have completed, and executed for
\* a task that waits for it.
Ready(bs) == \A b \in Range(bs) : branch[b].status = "Completed"
AllReady ==
    /\ \A r \in DOMAIN request : Ready(request[r].branches)
    /\ pc = "request" => task.name = "Branching" /\ Ready(task.branches)
    /\ pc = "merge" => task.name = "MergePendingApproval"

\* What is merged had no conflicts.
MergedClean ==
    \A r \in DOMAIN request :
        request[r].status = "Merged" => UnionMerge(Results(request[r].branches)).conflicts = {}

\* A row of a merge names a request for the row's own branches; that of a
\* completed task has been merged.
RefersTo(row) ==
    row.name \in {"MergePendingApproval", "Merging", "Completed"} =>
        /\ row.request \in DOMAIN request
        /\ row.branches = request[row.request].branches
        /\ row.name = "Completed" => request[row.request].status = "Merged"

TasksInv ==
    Typed /\ NoneAsked /\ AllReady /\ MergedClean /\ RefersTo(task) /\ RefersTo(job)

\* The rows that the handlers write are rows.
LEMMA PlainType ==
    /\ \A name \in Names : Plain(name) \in Row /\ Plain(name).name = name
    /\ \A row \in Row, name \in Names : [row EXCEPT !.name = name] \in Row
    /\ \A row \in Row, n \in Int : [row EXCEPT !.completed = n] \in Row
BY DEF Plain, Status, Row

\* A list names finitely many branches, no more than it is long.
LEMMA ElementsFinite ==
    ASSUME NEW s \in Seq(Branches)
    PROVE  /\ Range(s) \subseteq Branches /\ IsFiniteSet(Range(s))
           /\ Cardinality(Range(s)) <= Len(s)
<1>1. s \in [1..Len(s) -> Range(s)] /\ \A b \in Range(s) : \E i \in 1..Len(s) : s[i] = b
  BY DEF Range
<1>2. s \in Surjection(1..Len(s), Range(s))
  BY <1>1 DEF Surjection
<1>3. IsFiniteSet(1..Len(s)) /\ Cardinality(1..Len(s)) = Len(s)
  <2>1. Len(s) \in Nat
    OBVIOUS
  <2>2. QED
    BY <2>1, FS_Interval
<1>4. IsFiniteSet(Range(s)) /\ Cardinality(Range(s)) <= Cardinality(1..Len(s))
  BY <1>2, <1>3, FS_Surjection
<1>5. Range(s) \subseteq Branches
  BY DEF Range
<1>6. QED
  BY <1>3, <1>4, <1>5

\* The branches of a task with a status are some of its branches; if as many
\* have completed as it has, all have.
LEMMA WithSome ==
    ASSUME Typed, NEW status
    PROVE  /\ With(status) \subseteq Range(task.branches)
           /\ Cardinality(With(status)) \in Nat
           /\ status = "Completed" /\ AllCompleted => Ready(task.branches)
<1>1. task.branches \in Seq(Branches)
  BY DEF Typed, Row
<1>2. /\ IsFiniteSet(Range(task.branches))
      /\ Cardinality(Range(task.branches)) <= Len(task.branches)
      /\ Cardinality(Range(task.branches)) \in Nat
      /\ Len(task.branches) \in Nat
  BY <1>1, ElementsFinite, FS_CardinalityType
<1>3. With(status) \subseteq Range(task.branches)
  BY DEF With
<1>4. /\ IsFiniteSet(With(status))
      /\ Cardinality(With(status)) <= Cardinality(Range(task.branches))
      /\ Cardinality(Range(task.branches)) = Cardinality(With(status)) =>
            Range(task.branches) = With(status)
  BY <1>2, <1>3, FS_Subset
<1>5. Cardinality(With(status)) \in Nat
  BY <1>4, FS_CardinalityType
<1>6. ASSUME status = "Completed", AllCompleted PROVE Ready(task.branches)
  <2>1. Range(task.branches) = With("Completed")
    BY <1>2, <1>4, <1>5, <1>6 DEF AllCompleted
  <2>2. QED
    BY <2>1 DEF Ready, With
<1>7. QED
  BY <1>3, <1>5, <1>6

\* A request names its branches.
LEMMA RequestTypes ==
    ASSUME Typed, NEW r \in DOMAIN request
    PROVE  request[r] \in Request /\ request[r].branches \in Seq(Branches)
<1>1. request \in Seq(Request)
  BY DEF Typed
<1>2. request[r] \in Request
  BY <1>1
<1>3. QED
  BY <1>2 DEF Request

\* Request r has got status s.
Updated(new, r, s) ==
    /\ new \in Seq(Request) /\ DOMAIN new = DOMAIN request
    /\ new[r].status = s
    /\ \A q \in DOMAIN request : /\ new[q].branches = request[q].branches
                                 /\ q # r => new[q] = request[q]

\* A request whose status changes names the same branches.
LEMMA RequestUpdate ==
    ASSUME Typed, NEW r \in DOMAIN request,
           NEW s \in {"Approved", "Rejected", "Merged", "Conflict"},
           request' = [request EXCEPT ![r].status = s]
    PROVE  Updated(request', r, s)
<1> DEFINE n == Len(request)
           row == [request[r] EXCEPT !.status = s]
<1>1. n \in Nat /\ request \in [1..n -> Request] /\ DOMAIN request = 1..n
  BY DEF Typed
<1>2. row \in Request /\ row.status = s /\ row.branches = request[r].branches
  BY RequestTypes DEF Request
<1>3. request' = [request EXCEPT ![r] = row]
  OBVIOUS
<1> HIDE DEF n, row
<1>4. request' \in [1..n -> Request]
  BY <1>1, <1>2, <1>3
<1>5. request' \in Seq(Request)
  BY <1>1, <1>4
<1>6. QED
  BY <1>1, <1>2, <1>3, <1>4, <1>5 DEF Updated

\* execute_merge is union on the branches of the request.
LEMMA ExecuteIs ==
    ASSUME Typed, NEW r \in DOMAIN request, Execute(r)
    PROVE  \E s \in {"Merged", "Conflict"} :
              /\ request' = [request EXCEPT ![r].status = s]
              /\ s = "Merged" <=> UnionMerge(Results(request[r].branches)).conflicts = {}
<1>1. Merged(r) = UnionMerge(Results(request[r].branches))
  BY DEF Merged, Merge
<1>2. QED
  BY <1>1 DEF Execute

\* A request keeps its branches, and stays merged; it is merged without
\* conflicts only.
LEMMA RequestStep ==
    ASSUME TasksInv, [Next]_vars
    PROVE  /\ request' \in Seq(Request)
           /\ \A r \in DOMAIN request :
                 /\ r \in DOMAIN request'
                 /\ request'[r].branches = request[r].branches
                 /\ request[r].status = "Merged" => request'[r].status = "Merged"
                 /\ request'[r].status = "Merged" =>
                       UnionMerge(Results(request[r].branches)).conflicts = {}
           /\ \A r \in DOMAIN request' : r \notin DOMAIN request =>
                 /\ pc = "request" /\ request'[r].branches = task.branches
                 /\ request'[r].status # "Merged"
<1> DEFINE Clean(r) == UnionMerge(Results(request[r].branches)).conflicts = {}
           Good == /\ request' \in Seq(Request)
                   /\ \A r \in DOMAIN request :
                         /\ r \in DOMAIN request'
                         /\ request'[r].branches = request[r].branches
                         /\ request[r].status = "Merged" => request'[r].status = "Merged"
                         /\ request'[r].status = "Merged" => Clean(r)
                   /\ \A r \in DOMAIN request' : r \notin DOMAIN request =>
                         /\ pc = "request" /\ request'[r].branches = task.branches
                         /\ request'[r].status # "Merged"
<1>1. Typed /\ \A r \in DOMAIN request : request[r].status = "Merged" => Clean(r)
  BY DEF TasksInv, MergedClean
<1> SUFFICES Good
  OBVIOUS
<1>2. ASSUME NEW r \in DOMAIN request, Execute(r) PROVE Good
  <2>1. PICK s \in {"Merged", "Conflict"} :
           /\ request' = [request EXCEPT ![r].status = s]
           /\ s = "Merged" <=> Clean(r)
    BY <1>1, <1>2, ExecuteIs
  <2> HIDE DEF Clean, Good
  <2>2. Updated(request', r, s)
    BY <1>1, <2>1, RequestUpdate
  <2>3. QED
    BY <1>1, <2>1, <2>2 DEF Good, Updated
<1>3. ASSUME NEW r \in DOMAIN request, Decide(r) PROVE Good
  <2>1. PICK s \in {"Approved", "Rejected"} : request' = [request EXCEPT ![r].status = s]
    BY <1>3 DEF Decide
  <2> HIDE DEF Clean, Good
  <2>2. Updated(request', r, s)
    BY <1>1, <2>1, RequestUpdate
  <2>3. QED
    BY <1>1, <1>3, <2>1, <2>2 DEF Decide, Good, Updated
<1>4. CASE ExecuteMerge
  <2>1. task.request \in DOMAIN request /\ Execute(task.request)
    BY <1>4 DEF ExecuteMerge, TasksInv, AllReady, RefersTo
  <2>2. QED
    BY <1>2, <2>1
<1>5. CASE RequestMerge
  <2>1. PICK s \in {"Pending", "Approved"} :
           /\ request' = Append(request, [status |-> s, branches |-> task.branches])
           /\ pc = "request"
    BY <1>5 DEF RequestMerge
  <2>2. task.branches \in Seq(Branches) /\ request \in Seq(Request)
    BY <1>1 DEF Typed, Row
  <2>3. [status |-> s, branches |-> task.branches] \in Request
    BY <2>2 DEF Request
  <2> HIDE DEF Clean, Good
  <2>4. /\ request' \in Seq(Request)
        /\ \A r \in DOMAIN request : r \in DOMAIN request' /\ request'[r] = request[r]
        /\ \A r \in DOMAIN request' : r \notin DOMAIN request =>
              request'[r] = [status |-> s, branches |-> task.branches]
    BY <2>1, <2>2, <2>3
  <2>5. QED
    BY <1>1, <2>1, <2>4 DEF Good
<1>6. CASE UNCHANGED request
  BY <1>1, <1>6 DEF Typed
<1>7. QED
  BY <1>2, <1>3, <1>4, <1>5, <1>6
     DEF Next, vars, manager, handler, AnalyzingForBranch, ExecuteBranches, Branching, GetConflicts,
         Merging, MergePendingApproval, WriteStatus, CallFails, HandleFailure, CreateBranch,
         AgentEnds, AgentEdits, MergeExternally, ExecuteMerge

\* A branch that has completed stays as it is while none is started.
LEMMA CompletedStays ==
    ASSUME Typed, [Next]_vars, pc # "execute"
    PROVE  /\ base' = base
           /\ \A b \in Branches : branch[b].status = "Completed" => branch'[b] = branch[b]
<1>1. ASSUME NEW b \in Branches, NEW f \in Files, AgentEdits(b, f)
      PROVE  branch[b].status # "Completed" /\ \A c \in Branches : c # b => branch'[c] = branch[c]
  BY <1>1 DEF AgentEdits, Typed
<1>2. ASSUME NEW b \in Branches, AgentEnds(b) \/ CreateBranch(b)
      PROVE  branch[b].status # "Completed" /\ \A c \in Branches : c # b => branch'[c] = branch[c]
  BY <1>2 DEF AgentEnds, CreateBranch, Typed
<1>3. base' = base
  BY DEF Next, vars, manager, handler, AnalyzingForBranch, ExecuteBranches, Branching, GetConflicts,
         Merging, MergePendingApproval, WriteStatus, CallFails, HandleFailure, CreateBranch,
         AgentEnds, AgentEdits, MergeExternally, ExecuteMerge, RequestMerge, Decide
<1>4. \/ UNCHANGED branch
      \/ \E b \in Branches : \/ AgentEnds(b) \/ CreateBranch(b)
                             \/ \E f \in Files : AgentEdits(b, f)
  BY DEF Next, vars, manager, handler, AnalyzingForBranch, ExecuteBranches, Branching, GetConflicts,
         Merging, MergePendingApproval, WriteStatus, CallFails, HandleFailure,
         MergeExternally, ExecuteMerge, RequestMerge, Decide
<1>5. QED
  BY <1>1, <1>2, <1>3, <1>4

\* What is to be merged of branches that have completed does not change.
LEMMA ReadyStays ==
    ASSUME Typed, [Next]_vars, pc # "execute", NEW bs \in Seq(Branches), Ready(bs)
    PROVE  /\ Ready(bs)' /\ Results(bs)' = Results(bs)
           /\ \A b \in Range(bs) : Changes(b)' = Changes(b)
<1>1. Range(bs) \subseteq Branches /\ \A i \in DOMAIN bs : bs[i] \in Range(bs)
  BY DEF Range
<1>2. /\ base' = base
      /\ \A b \in Range(bs) : branch[b].status = "Completed" /\ branch'[b] = branch[b]
  BY <1>1, CompletedStays DEF Ready
<1>3. \A b \in Range(bs) : Changes(b)' = Changes(b)
  BY <1>2 DEF Changes
<1>4. Results(bs)' = Results(bs)
  BY <1>1, <1>3 DEF Results
<1>5. QED
  BY <1>2, <1>3, <1>4 DEF Ready

\* A row of a merge stays right while the requests go on.
LEMMA RefersStays ==
    ASSUME TasksInv, [Next]_vars, NEW row, RefersTo(row)
    PROVE  RefersTo(row)'
BY RequestStep DEF RefersTo

\* What the handler is about to write
LEMMA JobStep ==
    ASSUME TasksInv, [Next]_vars
    PROVE  job' \in Row /\ job'.name # "AnalyzingForBranch" /\ RefersTo(job)'
<1> DEFINE Good == job' \in Row /\ job'.name # "AnalyzingForBranch" /\ RefersTo(job)'
<1> SUFFICES Good
  OBVIOUS
<1>1. /\ Typed /\ NoneAsked /\ AllReady /\ RefersTo(task) /\ RefersTo(job)
      /\ task \in Row /\ job \in Row
  BY DEF TasksInv, Typed
<1>2. ASSUME NEW name \in Names, name # "AnalyzingForBranch",
             name \notin {"MergePendingApproval", "Merging", "Completed"}, job'.name = name,
             job' \in Row
      PROVE  Good
  BY <1>2 DEF RefersTo
<1>3. ASSUME NEW name \in {"Executing", "Failed"}, job' = Plain(name) PROVE Good
  BY <1>2, <1>3, PlainType DEF Names
<1>4. CASE UNCHANGED job
  BY <1>1, <1>4, RefersStays DEF NoneAsked, RefersTo
<1>5. ASSUME NEW name \in {"MergePendingApproval", "Merging", "Completed"},
             task.name \in {"MergePendingApproval", "Merging"},
             name = "Completed" => request[task.request].status = "Merged",
             job' = Becomes(name)
      PROVE  Good
  <2> PICK row : row = [task EXCEPT !.name = name]
    OBVIOUS
  <2>1. row \in Row /\ row.name = name /\ row.branches = task.branches /\ row.request = task.request
    BY <1>1 DEF Row, Names
  <2>2. RefersTo(row)
    BY <1>1, <1>5, <2>1 DEF RefersTo
  <2>3. job' = row
    BY <1>5 DEF Becomes
  <2>4. RefersTo(row)'
    BY <2>2, RefersStays
  <2>5. QED
    BY <2>1, <2>3, <2>4 DEF RefersTo
<1>6. CASE AnalyzingForBranch
  <2>1. CASE Leave(Plain("Executing"))
    BY <1>3, <2>1 DEF Leave, Goto
  <2>2. ASSUME NEW s \in DOMAIN BranchCount,
               Goto("create", Status("Branching", <<>>, BranchCount[s], NoRequest))
        PROVE  Good
    <3>1. BranchCount[s] \in Int
      BY DEF BranchCount
    <3>2. <<>> \in Seq(Branches)
      OBVIOUS
    <3>3. job' = [name |-> "Branching", branches |-> <<>>, completed |-> BranchCount[s],
                  request |-> NoRequest]
      BY <2>2 DEF Goto, Status
    <3>4. job' \in Row /\ job'.name = "Branching"
      BY <3>1, <3>2, <3>3 DEF Row, Names
    <3>5. QED
      BY <1>2, <3>4 DEF Names
  <2>3. QED
    BY <1>6, <2>1, <2>2 DEF AnalyzingForBranch
<1>7. ASSUME NEW b \in Branches, CreateBranch(b) PROVE Good
  <2>1. Append(job.branches, b) \in Seq(Branches) /\ job.completed - 1 \in Int
    BY <1>1 DEF Row
  <2>2. job' = [job EXCEPT !.branches = Append(job.branches, b), !.completed = job.completed - 1]
    BY <1>7 DEF CreateBranch, Goto
  <2>3. job' \in Row /\ job'.name = job.name
    BY <1>1, <2>1, <2>2 DEF Row
  <2>4. job.name = "Branching"
    BY <1>1, <1>7 DEF CreateBranch, NoneAsked
  <2>5. QED
    BY <1>2, <2>3, <2>4 DEF Names
<1>8. CASE Branching
  <2>1. task.name = "Branching"
    BY <1>8 DEF Branching, Turn
  <2>2. \/ job' = Plain("Failed") \/ UNCHANGED job \/ job' = task
        \/ job' = [task EXCEPT !.completed = Cardinality(With("Completed"))]
    BY <1>8 DEF Branching, Leave, Goto, handler
  <2>3. Cardinality(With("Completed")) \in Int
    BY <1>1, WithSome
  <2>4. ASSUME job' = [task EXCEPT !.completed = Cardinality(With("Completed"))] PROVE Good
    <3>1. job' \in Row /\ job'.name = "Branching"
      BY <1>1, <2>1, <2>3, <2>4 DEF Row
    <3>2. QED
      BY <1>2, <3>1 DEF Names
  <2>5. ASSUME job' = task PROVE Good
    BY <1>1, <1>2, <2>1, <2>5 DEF Names
  <2>6. QED
    BY <1>3, <1>4, <2>2, <2>4, <2>5
<1>9. CASE RequestMerge
  <2> DEFINE r == Len(request) + 1
  <2>1. PICK s \in {"Pending", "Approved"}, name \in {"MergePendingApproval", "Merging"} :
           /\ request' = Append(request, [status |-> s, branches |-> task.branches])
           /\ job' = Status(name, task.branches, 0, r)
    BY <1>9 DEF RequestMerge, Goto
  <2>2. task.branches \in Seq(Branches) /\ request \in Seq(Request)
    BY <1>1 DEF Typed, Row
  <2>3. r \in Nat /\ r \in DOMAIN request'
        /\ request'[r] = [status |-> s, branches |-> task.branches]
    BY <2>1, <2>2
  <2> HIDE DEF r
  <2>4. job' \in Row /\ job'.name = name /\ job'.branches = task.branches /\ job'.request = r
    BY <2>1, <2>2, <2>3 DEF Status, Row, Names
  <2>5. QED
    BY <2>3, <2>4 DEF RefersTo
<1>10. CASE Merging
  <2>1. task.name = "Merging"
    BY <1>10 DEF Merging, Turn
  <2>2. \/ job' = Becomes("Completed") /\ request[task.request].status = "Merged"
        \/ job' = Becomes("MergePendingApproval") \/ job' = Becomes("Failed") \/ UNCHANGED job
    BY <1>10 DEF Merging, Leave, Goto, handler
  <2>3. ASSUME job' = Becomes("Failed") PROVE Good
    BY <1>1, <1>2, <2>3, PlainType DEF Becomes, Names, Row
  <2>4. QED
    BY <1>4, <1>5, <2>1, <2>2, <2>3
<1>11. CASE MergePendingApproval
  <2>1. task.name = "MergePendingApproval"
    BY <1>11 DEF MergePendingApproval, Turn
  <2>2. \/ job' = Becomes("Completed") /\ request[task.request].status = "Merged"
        \/ job' = Becomes("Merging") \/ job' = Becomes("Failed") \/ UNCHANGED job
    BY <1>11 DEF MergePendingApproval, Leave, Goto, handler
  <2>3. ASSUME job' = Becomes("Failed") PROVE Good
    BY <1>1, <1>2, <2>3, PlainType DEF Becomes, Names, Row
  <2>4. QED
    BY <1>4, <1>5, <2>1, <2>2, <2>3
<1>12. CASE WriteStatus \/ CallFails \/ HandleFailure \/ ExecuteBranches
  <2>1. job' = job \/ \E name \in {"Executing", "Failed"} : job' = Plain(name)
    BY <1>12 DEF WriteStatus, CallFails, HandleFailure, ExecuteBranches, Goto
  <2>2. QED
    BY <1>3, <1>4, <2>1
<1>13. CASE GetConflicts \/ ExecuteMerge
  BY <1>4, <1>13 DEF GetConflicts, ExecuteMerge, Leave, Goto
<1>14. QED
  BY <1>4, <1>6, <1>7, <1>8, <1>9, <1>10, <1>11, <1>12, <1>13
     DEF Next, vars, handler, AgentEnds, AgentEdits, Decide, MergeExternally

\* The task's row stays, is the handler's copy, or becomes Failed.
LEMMA TaskStep ==
    ASSUME TasksInv, [Next]_vars
    PROVE  /\ task' \in Row /\ RefersTo(task)'
           /\ \/ task' = task
              \/ pc = "write" /\ task' = job /\ pc' \in {"idle", "execute"}
                    /\ (pc' = "execute" => task.name = "AnalyzingForBranch")
              \/ pc = "fail" /\ pc' = "idle" /\ task'.name = "Failed"
<1>1. /\ task \in Row /\ job \in Row /\ RefersTo(task) /\ RefersTo(job)
  BY DEF TasksInv, Typed
<1>2. \/ task' = task
      \/ pc = "write" /\ task' = job /\ pc' \in {"idle", "execute"}
            /\ (pc' = "execute" => task.name = "AnalyzingForBranch")
      \/ pc = "fail" /\ pc' = "idle" /\ task' = Becomes("Failed")
  BY DEF Next, vars, handler, AnalyzingForBranch, ExecuteBranches, Branching, GetConflicts,
         Merging, MergePendingApproval, WriteStatus, CallFails, HandleFailure, CreateBranch,
         AgentEnds, AgentEdits, MergeExternally, ExecuteMerge, RequestMerge, Decide, Goto
<1>3. Becomes("Failed") \in Row /\ Becomes("Failed").name = "Failed"
  BY <1>1, PlainType DEF Becomes, Names, Row
<1>4. CASE task' = task
  BY <1>1, <1>4, RefersStays DEF RefersTo
<1>5. CASE task' = job
  BY <1>1, <1>2, <1>3, <1>5, RefersStays DEF RefersTo
<1>6. CASE task' = Becomes("Failed")
  BY <1>2, <1>3, <1>6 DEF RefersTo
<1>7. QED
  BY <1>2, <1>3, <1>4, <1>5, <1>6

\* Where the handler goes, by where it was
LEMMA PlaceStep ==
    ASSUME TasksInv, [Next]_vars
    PROVE  /\ pc' \in Places
           /\ pc' = "create" => /\ task' = task
                                /\ \/ task.name = "AnalyzingForBranch" /\ job'.name = "Branching"
                                   \/ pc = "create" /\ job'.name = job.name
           /\ pc' = "execute" => pc = "execute" \/ task.name = "AnalyzingForBranch"
           /\ pc' = "request" => /\ task' = task
                                 /\ \/ pc = "request"
                                    \/ pc = "idle" /\ task.name = "Branching" /\ AllCompleted
           /\ pc' = "merge" => /\ task' = task
                               /\ pc = "merge" \/ task.name = "MergePendingApproval"
<1> USE DEF Goto, Leave, handler, manager, Places
<1>1. pc \in Places /\ job \in Row
  BY DEF TasksInv, Typed
<1>2. CASE AnalyzingForBranch
  BY <1>2 DEF AnalyzingForBranch, Turn, Status
<1>3. ASSUME NEW b \in Branches, CreateBranch(b)
      PROVE  /\ pc' \in {"create", "write"} /\ pc = "create" /\ job'.name = job.name
             /\ task' = task
  BY <1>1, <1>3 DEF CreateBranch, Row
<1>4. CASE Branching
  BY <1>1, <1>4 DEF Branching, Turn
<1>5. CASE RequestMerge \/ GetConflicts \/ ExecuteBranches \/ ExecuteMerge
  BY <1>5 DEF RequestMerge, GetConflicts, ExecuteBranches, ExecuteMerge
<1>6. CASE Merging \/ MergePendingApproval
  BY <1>1, <1>6 DEF Merging, MergePendingApproval, Turn
<1>7. CASE WriteStatus \/ CallFails \/ HandleFailure
  BY <1>7 DEF WriteStatus, CallFails, HandleFailure
<1>8. CASE UNCHANGED <<task, pc, job>>
  BY <1>1, <1>8
<1>9. QED
  BY <1>2, <1>3, <1>4, <1>5, <1>6, <1>7, <1>8
     DEF Next, vars, AgentEnds, AgentEdits, Decide, MergeExternally

\* An edit makes a file of lines, or none.
LEMMA EditType ==
    ASSUME NEW text \in Seq(LineValues) \cup {NoFile}, NEW new \in OneEdit(text)
    PROVE  new \in Seq(LineValues) \cup {NoFile}
<1>1. CASE text = NoFile
  BY <1>1 DEF OneEdit
<1>2. CASE text # NoFile
  <2>1. text \in Seq(LineValues) /\ Len(text) \in Nat
    BY <1>2
  <2>2. ASSUME NEW i \in 1..Len(text) PROVE RemoveAt(text, i) \in Seq(LineValues)
    BY <2>1 DEF RemoveAt
  <2>3. ASSUME NEW i \in 1..(Len(text) + 1), NEW line \in LineValues
        PROVE  InsertAt(text, i, line) \in Seq(LineValues)
    BY <2>1 DEF InsertAt
  <2>4. QED
    BY <1>2, <2>1, <2>2, <2>3 DEF OneEdit
<1>3. QED
  BY <1>1, <1>2

\* Every step keeps the types.
LEMMA TypedStep ==
    ASSUME TasksInv, [Next]_vars
    PROVE  Typed'
<1>1. branch \in [Branches -> Branch]
  BY DEF TasksInv, Typed
<1>2. ASSUME NEW b \in Branches, NEW f \in Files, AgentEdits(b, f)
      PROVE  branch' \in [Branches -> Branch]
  <2>1. PICK text \in OneEdit(branch[b].files[f]) :
           branch' = [branch EXCEPT ![b].files[f] = text]
    BY <1>2 DEF AgentEdits
  <2>2. /\ branch[b].files \in [Files -> Seq(LineValues) \cup {NoFile}]
        /\ branch[b].files[f] \in Seq(LineValues) \cup {NoFile}
    BY <1>1 DEF Branch
  <2>3. text \in Seq(LineValues) \cup {NoFile}
    BY <2>1, <2>2, EditType
  <2> DEFINE files == [branch[b].files EXCEPT ![f] = text]
             made == [branch[b] EXCEPT !.files = files]
  <2>4. files \in [Files -> Seq(LineValues) \cup {NoFile}]
    BY <2>2, <2>3
  <2>5. branch' = [branch EXCEPT ![b] = made]
    BY <2>1
  <2> HIDE DEF files
  <2>6. made \in Branch
    BY <1>1, <2>4 DEF Branch
  <2> HIDE DEF made
  <2>7. QED
    BY <1>1, <2>5, <2>6
<1>3. ASSUME NEW b \in Branches, NEW s \in {"Pending", "Completed", "Failed"},
             branch' = [branch EXCEPT ![b].status = s]
      PROVE  branch' \in [Branches -> Branch]
  <2>1. [branch[b] EXCEPT !.status = s] \in Branch
    BY <1>1 DEF Branch
  <2>2. QED
    BY <1>1, <1>3, <2>1
<1>4. ASSUME ExecuteBranches PROVE branch' \in [Branches -> Branch]
  <2> DEFINE next(b) == IF b \in Range(job.branches)
                        THEN [branch[b] EXCEPT !.status = "Active"] ELSE branch[b]
  <2>1. \A b \in Branches : next(b) \in Branch
    BY <1>1 DEF Branch
  <2>2. branch' = [b \in Branches |-> next(b)]
    BY <1>4 DEF ExecuteBranches
  <2> HIDE DEF next
  <2>3. QED
    BY <2>1, <2>2
<1>5. branch' \in [Branches -> Branch]
  <2>1. ASSUME NEW b \in Branches, AgentEnds(b) \/ CreateBranch(b)
        PROVE  branch' \in [Branches -> Branch]
    BY <1>3, <2>1 DEF AgentEnds, CreateBranch
  <2>2. CASE UNCHANGED branch
    BY <1>1, <2>2
  <2>3. QED
    BY <1>2, <1>4, <2>1, <2>2
     DEF Next, vars, manager, AnalyzingForBranch, Branching, GetConflicts, Merging,
         MergePendingApproval, WriteStatus, CallFails, HandleFailure,
         MergeExternally, ExecuteMerge, RequestMerge, Decide
<1>6. QED
  BY <1>5, TaskStep, JobStep, RequestStep, PlaceStep DEF Typed

\* Every step keeps the invariant.
LEMMA TasksInvStep ==
    ASSUME TasksInv, [Next]_vars
    PROVE  TasksInv'
<1>1. Typed /\ NoneAsked /\ AllReady /\ MergedClean
  BY DEF TasksInv
<1>2. Typed' /\ RefersTo(task)' /\ RefersTo(job)'
  BY TypedStep, TaskStep, JobStep
<1>3. ASSUME request = <<>>, pc # "request" PROVE request' = <<>>
  <2>1. request' \in Seq(Request) /\ \A r \in DOMAIN request' : r \in DOMAIN request
    BY <1>3, RequestStep
  <2>2. Len(request') \in Nat /\ DOMAIN request' = 1..Len(request') /\ DOMAIN request = {}
    BY <1>3, <2>1
  <2>3. 1 \notin DOMAIN request' /\ Len(request') = 0
    BY <2>1, <2>2
  <2>4. QED
    BY <2>1, <2>3
<1>4. NoneAsked'
  <2>1. job'.name # "AnalyzingForBranch"
    BY JobStep
  <2>2. pc' = "create" => job'.name = "Branching"
    BY <1>1, PlaceStep DEF NoneAsked
  <2>3. ASSUME task'.name = "AnalyzingForBranch" PROVE request = <<>> /\ pc # "request"
    BY <1>1, <2>3, TaskStep DEF NoneAsked, AllReady
  <2>4. ASSUME pc' \in {"create", "execute"} PROVE request = <<>> /\ pc # "request"
    BY <1>1, <2>4, PlaceStep DEF NoneAsked, AllReady
  <2>5. QED
    BY <1>3, <2>1, <2>2, <2>3, <2>4 DEF NoneAsked
<1>5. CASE pc = "execute"
  <2>1. request' = <<>>
    BY <1>1, <1>3, <1>5 DEF NoneAsked
  <2>2. pc' # "request" /\ (pc' = "merge" => task'.name = "MergePendingApproval")
    BY <1>5, PlaceStep
  <2>3. QED
    BY <1>2, <1>4, <2>1, <2>2 DEF TasksInv, AllReady, MergedClean

<1>6. CASE pc # "execute"
  <2>1. ASSUME NEW bs \in Seq(Branches), Ready(bs)
        PROVE  Ready(bs)' /\ Results(bs)' = Results(bs)
    BY <1>1, <1>6, <2>1, ReadyStays
  <2>2. task.branches \in Seq(Branches)
    BY <1>1 DEF Typed, Row
  <2>3. ASSUME NEW r \in DOMAIN request'
        PROVE  /\ Ready(request[r].branches)'
               /\ request'[r].status = "Merged" =>
                     (UnionMerge(Results(request[r].branches)).conflicts = {})'
    <3>1. CASE r \in DOMAIN request
      <4>1. PICK bs : bs = request[r].branches
        OBVIOUS
      <4>2. /\ bs \in Seq(Branches) /\ Ready(bs) /\ request'[r].branches = bs
            /\ request'[r].status = "Merged" => UnionMerge(Results(bs)).conflicts = {}
        BY <1>1, <3>1, <4>1, RequestTypes, RequestStep DEF AllReady
      <4>3. Ready(bs)' /\ Results(bs)' = Results(bs)
        BY <2>1, <4>2
      <4>4. Ready(request[r].branches)'
        BY <4>2, <4>3 DEF Ready
      <4>5. ASSUME request'[r].status = "Merged"
            PROVE  (UnionMerge(Results(request[r].branches)).conflicts = {})'
        <5>1. UnionMerge(Results(bs)).conflicts = {}
          BY <4>2, <4>5
        <5>2. Results(request[r].branches)' = Results(bs)'
          BY <4>2
        <5>3. Results(request[r].branches)' = Results(bs)
          BY <4>3, <5>2
        <5>4. QED
          BY <5>1, <5>3 DEF UnionMerge
      <4>6. QED
        BY <4>4, <4>5
    <3>2. CASE r \notin DOMAIN request
      <4>1. PICK bs : bs = task.branches
        OBVIOUS
      <4>2. /\ Ready(bs) /\ request'[r].branches = bs /\ request'[r].status # "Merged"
        BY <1>1, <3>2, <4>1, RequestStep DEF AllReady
      <4>3. Ready(bs)'
        BY <2>1, <2>2, <4>1, <4>2
      <4>4. QED
        BY <4>2, <4>3 DEF Ready
    <3>3. QED
      BY <3>1, <3>2
  <2>4. ASSUME pc' = "request" PROVE task'.name = "Branching" /\ Ready(task.branches)'
    <3>1. PICK bs : bs = task.branches
      OBVIOUS
    <3>2. Ready(bs) /\ task' = task /\ task.name = "Branching"
      BY <1>1, <2>4, <3>1, PlaceStep, WithSome DEF AllReady
    <3>3. Ready(bs)'
      BY <2>1, <2>2, <3>1, <3>2
    <3>4. QED
      BY <3>1, <3>2, <3>3 DEF Ready
  <2>5. pc' = "merge" => task'.name = "MergePendingApproval"
    BY <1>1, PlaceStep DEF AllReady
  <2>6. AllReady' /\ MergedClean'
    BY <2>3, <2>4, <2>5 DEF AllReady, MergedClean
  <2>7. QED
    BY <1>2, <1>4, <2>6 DEF TasksInv
<1>7. QED
  BY <1>5, <1>6

\* Initially nothing is asked for.
LEMMA TasksInvInit == Init => TasksInv
<1> SUFFICES ASSUME Init PROVE TasksInv
  OBVIOUS
<1>1. /\ task \in Row /\ task.name = "AnalyzingForBranch"
      /\ job \in Row /\ job.name = "Executing"
  BY PlainType DEF Init, Names
<1>2. Texts \subseteq Seq(LineValues)
  <2>1. \A n \in 0..MaxLines : n \in Nat
    OBVIOUS
  <2>2. QED
    BY <2>1 DEF Texts
<1>3. branch \in [Branches -> Branch]
  BY <1>2 DEF Init, Branch
<1>4. request = <<>> /\ pc = "idle"
  BY DEF Init
<1>5. QED
  BY <1>1, <1>3, <1>4
     DEF TasksInv, Typed, NoneAsked, AllReady, MergedClean, RefersTo, Places

\* The invariant of branching tasks.
LEMMA TasksInvAlways == Spec => []TasksInv
<1>1. TasksInv /\ UNCHANGED vars => TasksInv'
  BY TasksInvStep
<1>2. QED
  BY <1>1, TasksInvInit, TasksInvStep, PTL DEF Spec

\* However agents edit their branches, whoever approves or executes the merge
\* and whatever fails in between, a task that completes by merging its branches
\* has every change of each of them among the merged ones (BranchingHandler,
\* MergingHandler, UnionStrategy).
THEOREM CompletedTasksKeepAll == Spec => []CompletedKeepsAll
<1>1. TasksInv => CompletedKeepsAll
  <2> SUFFICES ASSUME TasksInv, task.name = "Completed", NEW b \in Range(task.branches)
               PROVE  Changes(b) \subseteq Merged(task.request).merged
    BY DEF CompletedKeepsAll
  <2> DEFINE bs == request[task.request].branches
  <2>1. /\ task.request \in DOMAIN request /\ task.branches = bs
        /\ UnionMerge(Results(bs)).conflicts = {}
    BY DEF TasksInv, RefersTo, MergedClean
  <2>2. bs \in Seq(Branches)
    BY <2>1, RequestTypes DEF TasksInv
  <2>3. PICK i \in 1..Len(bs) : b = bs[i]
    BY <2>1, <2>2 DEF Range
  <2>4. Merged(task.request) = UnionMerge(Results(bs))
    BY DEF Merged, Merge
  <2> HIDE DEF bs
  <2>5. Changes(bs[i]) \subseteq UnionMerge(Results(bs)).merged
    BY <2>1, <2>2, UnionKeeps
  <2>6. QED
    BY <2>3, <2>4, <2>5
<1>2. QED
  BY <1>1, TasksInvAlways, PTL

\* While a merge is asked for, the branches of the task have been made of the
\* one base: union reports of them what detect_conflicts does, in whatever order
\* they come, and three-way is no stricter.
THEOREM StrategiesAgree == Spec => []MergesAgree
<1>1. TasksInv => MergesAgree
  <2> SUFFICES ASSUME TasksInv, pc = "request" PROVE MergesAgree
    BY DEF MergesAgree
  <2> DEFINE bs == task.branches
  <2>1. bs \in Seq(Branches)
    BY DEF TasksInv, Typed, Row
  <2>2. Mirror(bs, Reverse(bs)) /\ Reverse(Results(bs)) = Results(Reverse(bs))
    BY <2>1, ReverseMirrors
  <2>3. \A R : /\ Merge("union", R, Clashing) = UnionMerge(R)
               /\ Merge("three-way", R, Clashing) = ThreeWayMerge(R, Clashing)
    BY DEF Merge
  <2>4. UnionMerge(Results(bs)) = UnionMerge(Results(Reverse(bs)))
    BY <2>2, UnionReversed
  <2>5. UnionMerge(Results(bs)).conflicts = DetectConflicts(Results(bs))
    <3>1. \A merged, conflicts : Outcome(merged, conflicts).conflicts = conflicts
      BY DEF Outcome
    <3>2. UnionMerge(Results(bs)) =
            Outcome(Firsts(bs, Paths(Results(bs)) \ Shared(bs)), NamingAll(Results(bs), Shared(bs)))
      BY <2>1, UnionIs
    <3>3. DetectConflicts(Results(bs)) = NamingAll(Results(bs), Shared(bs))
      BY <2>1, DetectIs
    <3>4. QED
      BY <3>1, <3>2, <3>3
  <2>6. LET three == ThreeWayMerge(Results(bs), Clashing)
            union == UnionMerge(Results(bs))
        IN  three.conflicts \subseteq union.conflicts /\ union.merged \subseteq three.merged
    BY <2>1, ThreeWayIsNoStricter
  <2>7. QED
    BY <2>2, <2>3, <2>4, <2>5, <2>6 DEF MergesAgree
<1>2. QED
  BY <1>1, TasksInvAlways, PTL

-----------------------------------------------------------------------------
(* Induction over a range, and loops *)

\* Induction over 0..N.
LEMMA Counted ==
    ASSUME NEW N \in Nat, NEW P, 0 \in P,
           \A i \in 1..N : i - 1 \in P => i \in P
    PROVE  \A i \in 0..N : i \in P
<1> DEFINE R == OpToRel(<, Nat)
<1>1. IsWellFoundedOn(R, Nat)
  BY NatLessThanWellFounded
<1>2. \A i, j \in Nat : i < j => <<i, j>> \in R
  BY DEF OpToRel
<1> HIDE DEF R
<1> DEFINE Bad == {i \in 0..N : i \notin P}
<1>3. SUFFICES ASSUME Bad # {} PROVE FALSE
  OBVIOUS
<1>4. Bad \subseteq Nat
  OBVIOUS
<1>5. PICK i \in Bad : \A j \in Bad : <<j, i>> \notin R
  <2> HIDE DEF Bad
  <2> QED BY <1>1, <1>3, <1>4, WFMin
<1>6. i # 0
  BY <1>5
<1>7. i - 1 \notin Bad
  <2>1. i \in Nat /\ i - 1 \in Nat /\ i - 1 < i
    BY <1>6
  <2>2. <<i - 1, i>> \in R
    BY <1>2, <2>1
  <2>3. QED
    BY <1>5, <2>2
<1>8. QED
  BY <1>5, <1>6, <1>7

\* The states that n steps lead through.
Iterates(f, n, first, step, S) ==
    f \in [0..n -> S] /\ f[0] = first /\ \A i \in 1..n : f[i] = step[i][f[i - 1]]

\* Steps that stay in a set can be iterated.
LEMMA Iterated ==
    ASSUME NEW N \in Nat, NEW S, NEW first \in S, NEW step \in [1..N -> [S -> S]]
    PROVE  \E f : Iterates(f, N, first, step, S)
<1> DEFINE Is(f, n) == f[0] = first /\ \A i \in 1..n : f[i] = step[i][f[i - 1]]
           P == {n \in 0..N : \E f \in [0..n -> S] : Is(f, n)}
<1>1. 0 \in P
  <2> DEFINE f == [i \in 0..0 |-> first]
  <2>1. f \in [0..0 -> S] /\ f[0] = first
    OBVIOUS
  <2>2. \A i \in 1..0 : f[i] = step[i][f[i - 1]]
    OBVIOUS
  <2> HIDE DEF f
  <2>3. \E g \in [0..0 -> S] : Is(g, 0)
    BY <2>1, <2>2
  <2> HIDE DEF Is
  <2>4. QED BY <2>3
<1>2. ASSUME NEW n \in 1..N, n - 1 \in P PROVE n \in P
  <2>1. PICK f \in [0..(n - 1) -> S] : Is(f, n - 1)
    BY <1>2
  <2>2. n - 1 \in 0..(n - 1) /\ f[n - 1] \in S
    OBVIOUS
  <2> DEFINE next == step[n][f[n - 1]]
             g == [i \in 0..n |-> IF i = n THEN next ELSE f[i]]
  <2>3. next \in S
    <3>1. step[n] \in [S -> S]
      OBVIOUS
    <3>2. QED BY <2>2, <3>1
  <2>4. \A i \in 0..(n - 1) : g[i] = f[i] /\ f[i] \in S
    <3> HIDE DEF next
    <3> QED OBVIOUS
  <2>5. g[n] = next /\ g \in [0..n -> S]
    <3> HIDE DEF next
    <3> QED BY <2>3
  <2>6. g[0] = first
    BY <2>1, <2>4
  <2>7. \A i \in 1..n : g[i] = step[i][g[i - 1]]
    <3>1. ASSUME NEW i \in 1..n PROVE g[i] = step[i][g[i - 1]]
      <4> HIDE DEF g
      <4>1. CASE i = n
        BY <2>2, <2>4, <2>5, <4>1
      <4>2. CASE i # n
        <5>1. i \in 1..(n - 1) /\ i - 1 \in 0..(n - 1) /\ i \in 0..(n - 1)
          BY <4>2
        <5>2. g[i] = f[i] /\ g[i - 1] = f[i - 1]
          BY <2>4, <5>1
        <5>3. QED BY <2>1, <5>1, <5>2
      <4>3. QED BY <4>1, <4>2
    <3>2. QED BY <3>1
  <2>8. \E h \in [0..n -> S] : Is(h, n)
    <3> HIDE DEF g
    <3> QED BY <2>5, <2>6, <2>7
  <2> HIDE DEF Is
  <2>9. QED BY <2>8
<1>3. N \in P
  <2> HIDE DEF P
  <2>1. \A i \in 0..N : i \in P
    BY <1>1, <1>2, Counted
  <2>2. QED BY <2>1
<1>4. QED BY <1>3 DEF Iterates

\* The states of a loop whose steps are right while it is in S.
Follows(f, n, first, step, S) ==
    f[0] = first /\ \A i \in 1..n : f[i - 1] \in S => f[i] = step[i][f[i - 1]]

\* So do all the states of a loop.
LEMMA Looped ==
    ASSUME NEW N \in Nat, NEW S, NEW first \in S, NEW step \in [1..N -> [S -> S]],
           NEW f, Follows(f, N, first, step, S)
    PROVE  \A i \in 0..N : f[i] \in S
<1> DEFINE P == {i \in 0..N : f[i] \in S}
<1>1. 0 \in P
  BY DEF Follows
<1>2. ASSUME NEW i \in 1..N, i - 1 \in P PROVE i \in P
  <2>1. f[i - 1] \in S /\ f[i] = step[i][f[i - 1]]
    BY <1>2 DEF Follows
  <2>2. step[i] \in [S -> S]
    OBVIOUS
  <2>3. f[i] \in S
    BY <2>1, <2>2
  <2>4. QED BY <2>3
<1>3. \A i \in 0..N : i \in P
  <2> HIDE DEF P
  <2>1. QED BY <1>1, <1>2, Counted
<1>4. QED BY <1>3

\* The greatest of a bounded set of numbers is one of them.
LEMMA MaxIs ==
    ASSUME NEW S \in SUBSET Nat, S # {}, NEW n \in Nat, \A i \in S : i <= n
    PROVE  Max(S) \in S /\ \A i \in S : i <= Max(S)
<1> DEFINE T == {n - i : i \in S}
<1>1. T \subseteq Nat /\ T # {}
  <2>1. \A i \in S : i \in Nat /\ n - i \in Nat /\ n - i \in T
    OBVIOUS
  <2>2. PICK i \in S : TRUE
    OBVIOUS
  <2>3. QED BY <2>1, <2>2
<1>2. PICK i \in S : \A j \in S : n - i <= n - j
  <2>1. Min(T) \in T /\ \A j \in T : Min(T) <= j
    BY <1>1, MinIs
  <2>2. PICK i \in S : Min(T) = n - i
    BY <2>1
  <2>3. \A j \in S : n - j \in T
    OBVIOUS
  <2>4. QED BY <2>1, <2>2, <2>3
<1>3. \A j \in S : i >= j
  <2>1. \A j \in S : j \in Nat
    OBVIOUS
  <2>2. QED BY <1>2, <2>1
<1>4. Max(S) \in S /\ \A j \in S : Max(S) >= j
  BY <1>3 DEF Max
<1>5. \A j \in S : j \in Nat
  OBVIOUS
<1>6. QED BY <1>4, <1>5

-----------------------------------------------------------------------------
(* The trace of two texts ends (compute_ses) *)

\* Sliding along equal lines (compute_ses) does not lead back.
LEMMA SlideIs ==
    ASSUME NEW old \in Seq(LineValues), NEW new, NEW x \in Nat, NEW k \in Int
    PROVE  Slide(old, new, x, k) \in Nat /\ Slide(old, new, x, k) >= x
<1> DEFINE equalTo(z) == \A i \in x..(z - 1) :
                          /\ i < Len(old) /\ i - k < Len(new)
                          /\ old[i + 1] = new[i - k + 1]
           reach == {x + j : j \in 0..Len(old)}
           Z == {z \in reach : equalTo(z)}
<1>1. Len(old) \in Nat
  OBVIOUS
<1>2. x \in Z
  <2>1. x \in reach
    <3>1. 0 \in 0..Len(old) /\ x = x + 0
      BY <1>1
    <3>2. QED BY <3>1
  <2>2. equalTo(x)
    OBVIOUS
  <2>3. QED BY <2>1, <2>2
<1>3. \A z \in reach : z \in Nat /\ z <= x + Len(old) /\ x <= z
  BY <1>1
<1>4. Max(Z) \in Z
  <2>1. Z \in SUBSET Nat /\ Z # {} /\ x + Len(old) \in Nat /\ \A z \in Z : z <= x + Len(old)
    <3>1. \A z \in Z : z \in reach
      OBVIOUS
    <3> HIDE DEF Z, reach
    <3>2. Z \in SUBSET Nat /\ \A z \in Z : z <= x + Len(old)
      BY <1>3, <3>1
    <3>3. QED BY <1>1, <1>2, <3>2
  <2> HIDE DEF Z
  <2>2. QED BY <2>1, MaxIs
<1>5. Slide(old, new, x, k) = Max(Z)
  BY DEF Slide
<1>6. QED
  <2> HIDE DEF equalTo
  <2> QED BY <1>3, <1>4, <1>5

\* How far each diagonal reaches.
Vectors(total) == [-total..total -> Nat]

\* In round d each diagonal goes on from where a neighbour was.
Advances(v, w, d) ==
    \A k \in -d..d : (k - d) % 2 = 0 =>
        \E x \in Nat : /\ w[k] >= x
                       /\ \/ (k # d \/ d = 0) /\ x = v[k + 1]
                          \/ k # -d /\ x = v[k - 1] + 1

\* A round keeps the diagonals in range.
LEMMA RoundIs ==
    ASSUME NEW old \in Seq(LineValues), NEW new \in Seq(LineValues), NEW total \in Nat \ {0},
           NEW v \in Vectors(total), NEW d \in 0..total
    PROVE  /\ Round(old, new, v, d) \in Vectors(total)
           /\ Advances(v, Round(old, new, v, d), d)
<1> USE DEF Vectors, Advances
<1> DEFINE at(k) == IF Down(v, d, k) THEN v[k + 1] ELSE v[k - 1] + 1
<1>1. ASSUME NEW k \in -d..d
      PROVE  /\ at(k) \in Nat
             /\ \/ k # d /\ at(k) = v[k + 1]
                \/ d = 0 /\ at(k) = v[k + 1]
                \/ k # -d /\ at(k) = v[k - 1] + 1
  <2>1. CASE Down(v, d, k)
    <3>1. k + 1 \in -total..total /\ (k # d \/ d = 0)
      BY <2>1 DEF Down
    <3>2. v[k + 1] \in Nat
      BY <3>1
    <3>3. QED BY <2>1, <3>1, <3>2
  <2>2. CASE ~Down(v, d, k)
    <3>1. k - 1 \in -total..total /\ k # -d
      BY <2>2 DEF Down
    <3>2. v[k - 1] \in Nat
      BY <3>1
    <3>3. QED BY <2>2, <3>1, <3>2
  <2>3. QED BY <2>1, <2>2
<1>2. \A k \in -d..d : Slide(old, new, at(k), k) \in Nat /\ Slide(old, new, at(k), k) >= at(k)
  <2> HIDE DEF at
  <2>1. \A k \in -d..d : k \in Int /\ at(k) \in Nat
    BY <1>1
  <2>2. QED BY <2>1, SlideIs
<1>3. Round(old, new, v, d) = [k \in -total..total |->
           IF k \in -d..d /\ (k - d) % 2 = 0 THEN Slide(old, new, at(k), k) ELSE v[k]]
  BY DEF Round
<1> HIDE DEF at
<1>4. Round(old, new, v, d) \in [-total..total -> Nat]
  BY <1>2, <1>3
<1>5. \A k \in -d..d : k \in -total..total
  OBVIOUS
<1>6. \A k \in -d..d : (k - d) % 2 = 0 => Round(old, new, v, d)[k] = Slide(old, new, at(k), k)
  BY <1>3, <1>5
<1>7. QED
  BY <1>1, <1>2, <1>4, <1>6

\* The neighbours of a diagonal of a round are of the round before it, and the
\* diagonal d of round d is of its own round.
LEMMA Parity ==
    ASSUME NEW k \in Int, NEW d \in Int
    PROVE  /\ (k - d) % 2 = 0 => (k + 1 - (d - 1)) % 2 = 0 /\ (k - 1 - (d - 1)) % 2 = 0
           /\ (k - d - (k + d)) % 2 = 0
  OBVIOUS

\* The trace of two texts ends: after round d a diagonal k is at a place whose
\* x and y add up to d at least.
LEMMA TraceIs ==
    ASSUME NEW old \in Seq(LineValues), NEW new \in Seq(LineValues), old # <<>> \/ new # <<>>
    PROVE  \E r \in Nat : Trace(old, new) \in
              [0..r -> Vectors(Len(old) + Len(new))]
<1> DEFINE total == Len(old) + Len(new)
           S == Vectors(total)
           zero == [k \in -total..total |-> 0]
           step == [d \in 1..(total + 1) |-> [v \in S |-> Round(old, new, v, d - 1)]]
           IsV(v) == v = [d \in 0..(total + 1) |->
                             IF d = 0 THEN zero ELSE Round(old, new, v[d - 1], d - 1)]
           V == CHOOSE v : IsV(v)
           ended(d) == \E k \in -d..d : /\ (k - d) % 2 = 0
                                        /\ V[d + 1][k] >= Len(old)
                                        /\ V[d + 1][k] - k >= Len(new)
           E == {e \in 0..total : ended(e)}
<1>1. total \in Nat \ {0} /\ Len(old) \in Nat /\ Len(new) \in Nat
  OBVIOUS
<1>2. Trace(old, new) = [d \in 0..Min(E) |-> V[d]]
  BY DEF Trace
<1> HIDE DEF total
<1>3. \A v \in S, d \in 1..(total + 1) : Round(old, new, v, d - 1) \in S
  <2>1. \A d \in 1..(total + 1) : d - 1 \in 0..total
    BY <1>1
  <2>2. QED BY <1>1, <2>1, RoundIs
<1>4. \E v : IsV(v)
  <2>1. zero \in S /\ total + 1 \in Nat
    BY <1>1 DEF Vectors
  <2>2. step \in [1..(total + 1) -> [S -> S]]
    <3> HIDE DEF S
    <3> QED BY <1>3
  <2>3. PICK v : Iterates(v, total + 1, zero, step, S)
    <3> HIDE DEF S, zero, step
    <3> QED BY <2>1, <2>2, Iterated
  <2>4. v \in [0..(total + 1) -> S] /\ v[0] = zero
        /\ \A d \in 1..(total + 1) : v[d] = step[d][v[d - 1]]
    BY <2>3 DEF Iterates
  <2>5. \A d \in 1..(total + 1) : v[d] = Round(old, new, v[d - 1], d - 1)
    <3> HIDE DEF S
    <3>1. \A d \in 1..(total + 1) : v[d - 1] \in S
      BY <1>1, <2>4
    <3>2. \A d \in 1..(total + 1), u \in S : step[d][u] = Round(old, new, u, d - 1)
      OBVIOUS
    <3> HIDE DEF step
    <3>3. QED BY <2>4, <3>1, <3>2
  <2>6. IsV(v)
    <3> HIDE DEF S, step, zero
    <3>1. v = [d \in 0..(total + 1) |-> v[d]]
      BY <2>4
    <3>2. \A d \in 0..(total + 1) :
             v[d] = IF d = 0 THEN zero ELSE Round(old, new, v[d - 1], d - 1)
      BY <1>1, <2>4, <2>5
    <3>3. QED BY <3>1, <3>2
  <2>7. QED BY <2>6
<1>5. IsV(V)
  BY <1>4
<1> HIDE DEF V
<1>6. V[0] = zero /\ \A d \in 0..total : V[d + 1] = Round(old, new, V[d], d)
  <2> HIDE DEF zero
  <2>1. \A d \in 0..(total + 1) :
           V[d] = IF d = 0 THEN zero ELSE Round(old, new, V[d - 1], d - 1)
    BY <1>5
  <2>2. \A d \in 0..total : d + 1 \in 0..(total + 1) /\ d + 1 - 1 = d /\ d + 1 # 0
    BY <1>1
  <2>3. V[0] = zero
    BY <1>1, <2>1
  <2>4. \A d \in 0..total : V[d + 1] = Round(old, new, V[d + 1 - 1], d + 1 - 1)
    BY <2>1, <2>2
  <2>5. QED BY <2>2, <2>3, <2>4
<1>7. \A d \in 0..(total + 1) : V[d] \in S
  <2> DEFINE P == {d \in 0..(total + 1) : V[d] \in S}
  <2>1. 0 \in P
    BY <1>1, <1>6 DEF Vectors
  <2>2. ASSUME NEW d \in 1..(total + 1), d - 1 \in P PROVE d \in P
    <3>1. d - 1 \in 0..total /\ V[d] = Round(old, new, V[d - 1], d - 1)
      <4>1. d - 1 \in 0..total /\ d - 1 + 1 = d
        BY <1>1
      <4>2. QED BY <1>6, <4>1
    <3> HIDE DEF S
    <3>2. V[d] \in S
      BY <1>3, <2>2, <3>1
    <3>3. QED BY <3>2
  <2>3. total + 1 \in Nat
    BY <1>1
  <2> HIDE DEF P
  <2>4. \A d \in 0..(total + 1) : d \in P
    BY <2>1, <2>2, <2>3, Counted
  <2>5. QED BY <2>4 DEF P
<1>8. \A d \in 0..total : \A k \in -d..d : (k - d) % 2 = 0 => 2 * V[d + 1][k] - k >= d
  <2> DEFINE Far(d) == \A k \in -d..d : (k - d) % 2 = 0 => 2 * V[d + 1][k] - k >= d
             P == {d \in 0..total : Far(d)}
  <2>1. ASSUME NEW d \in 0..total, d # 0 => Far(d - 1) PROVE Far(d)
    <3>1. ASSUME NEW k \in -d..d, (k - d) % 2 = 0 PROVE 2 * V[d + 1][k] - k >= d
      <4>1. PICK x \in Nat : /\ V[d + 1][k] >= x
                             /\ \/ k # d /\ x = V[d][k + 1]
                                \/ d = 0 /\ x = V[d][k + 1]
                                \/ k # -d /\ x = V[d][k - 1] + 1
        <5>1. V[d] \in Vectors(total) /\ V[d + 1] = Round(old, new, V[d], d)
          BY <1>1, <1>6, <1>7
        <5>2. Advances(V[d], V[d + 1], d)
          <6>1. total \in Nat \ {0} /\ d \in 0..total
            BY <1>1
          <6>2. QED BY <5>1, <6>1, RoundIs
        <5>3. QED BY <3>1, <5>2 DEF Advances
      <4>2. V[d + 1][k] \in Nat /\ k \in Int /\ d \in Nat /\ k >= -d /\ k <= d
        <5>1. d \in Nat /\ d <= total /\ total \in Nat
          BY <1>1
        <5>2. d + 1 \in 0..(total + 1) /\ k \in -total..total /\ k \in Int /\ k >= -d /\ k <= d
          BY <3>1, <5>1
        <5>3. V[d + 1] \in [-total..total -> Nat]
          BY <1>7, <5>2 DEF Vectors
        <5>4. QED BY <5>1, <5>2, <5>3
      <4>3. CASE d = 0
        BY <4>2, <4>3
      <4>4. CASE d # 0
        <5>1. \A j \in -(d - 1)..(d - 1) : (j - (d - 1)) % 2 = 0 =>
                 2 * V[d][j] - j >= d - 1 /\ V[d][j] \in Nat
          <6>1. \A j \in -(d - 1)..(d - 1) : j \in -total..total
            BY <1>1, <4>2
          <6>2. d - 1 + 1 = d /\ d \in 0..(total + 1)
            BY <1>1, <4>2
          <6>3. \A j \in -(d - 1)..(d - 1) : V[d][j] \in Nat
            BY <1>7, <6>1, <6>2 DEF Vectors
          <6>4. QED BY <2>1, <4>4, <6>2, <6>3
        <5>2. (k + 1 - (d - 1)) % 2 = 0 /\ (k - 1 - (d - 1)) % 2 = 0
          BY <3>1, <4>2, Parity
        <5>3. CASE k # d /\ x = V[d][k + 1]
          <6>1. k + 1 \in -(d - 1)..(d - 1)
            BY <4>2, <5>2, <5>3
          <6>2. 2 * V[d][k + 1] - (k + 1) >= d - 1 /\ V[d][k + 1] \in Nat
            BY <5>1, <5>2, <6>1
          <6> DEFINE w == V[d][k + 1]
                     z == V[d + 1][k]
          <6>3. w \in Nat /\ z \in Nat /\ z >= w /\ 2 * w - (k + 1) >= d - 1
            BY <4>1, <4>2, <5>3, <6>2
          <6> HIDE DEF w, z
          <6>4. 2 * z - k >= d
            BY <4>2, <6>3
          <6>5. QED BY <6>4 DEF z
        <5>4. CASE k # -d /\ x = V[d][k - 1] + 1
          <6>1. k - 1 \in -(d - 1)..(d - 1)
            BY <4>2, <5>2, <5>4
          <6>2. 2 * V[d][k - 1] - (k - 1) >= d - 1 /\ V[d][k - 1] \in Nat
            BY <5>1, <5>2, <6>1
          <6> DEFINE w == V[d][k - 1]
                     z == V[d + 1][k]
          <6>3. w \in Nat /\ z \in Nat /\ z >= w + 1 /\ 2 * w - (k - 1) >= d - 1
            BY <4>1, <4>2, <5>4, <6>2
          <6> HIDE DEF w, z
          <6>4. 2 * z - k >= d
            BY <4>2, <6>3
          <6>5. QED BY <6>4 DEF z
        <5>5. QED BY <4>1, <4>4, <5>3, <5>4
      <4>5. QED BY <4>3, <4>4
    <3>2. QED BY <3>1
  <2> HIDE DEF Far
  <2>2. 0 \in P
    BY <1>1, <2>1
  <2>3. \A d \in 1..total : d - 1 \in P => d \in P
    BY <1>1, <2>1
  <2>4. total \in Nat
    BY <1>1
  <2> HIDE DEF P
  <2>5. \A d \in 0..total : d \in P
    BY <2>2, <2>3, <2>4, Counted
  <2>6. QED BY <2>5 DEF P, Far
<1>9. ended(total)
  <2> DEFINE k == Len(old) - Len(new)
  <2>1. k \in -total..total /\ (k - total) % 2 = 0
    BY <1>1, Parity DEF total
  <2>2. V[total + 1][k] \in Nat
    <3>1. total + 1 \in 0..(total + 1)
      BY <1>1
    <3>2. QED BY <1>7, <2>1, <3>1 DEF Vectors
  <2>3. 2 * V[total + 1][k] - k >= total
    BY <1>1, <1>8, <2>1
  <2>4. V[total + 1][k] >= Len(old) /\ V[total + 1][k] - k >= Len(new)
    BY <1>1, <2>2, <2>3 DEF total
  <2> HIDE DEF k
  <2>5. QED BY <2>1, <2>4
<1>10. Min(E) \in 0..total
  <2>1. E \in SUBSET Nat /\ E # {}
    <3> HIDE DEF ended
    <3> QED BY <1>1, <1>9
  <2>2. Min(E) \in E
    <3> HIDE DEF E
    <3> QED BY <2>1, MinIs
  <2>3. QED
    <3> HIDE DEF ended
    <3> QED BY <2>2
<1>11. Trace(old, new) \in [0..Min(E) -> S]
  <2> HIDE DEF E, S
  <2>1. \A d \in 0..Min(E) : d \in 0..(total + 1)
    BY <1>1, <1>10
  <2>2. QED BY <1>2, <1>7, <2>1
<1>12. QED
  <2> HIDE DEF E
  <2>1. Min(E) \in Nat
    BY <1>10
  <2>2. QED BY <1>11, <2>1 DEF total

-----------------------------------------------------------------------------
(* The edits lead from the first lines of both texts to the last (backtrack) *)

\* The edits of a script, and the ranges of an operation
EditKinds == {"Keep", "Delete", "Insert"}

\* The edits lead from base line x and target line y to the lines n and m.
Leads(script, x, y, n, m) ==
    \E b, t \in [0..Len(script) -> Nat] :
        /\ b[0] = x /\ t[0] = y /\ b[Len(script)] = n /\ t[Len(script)] = m
        /\ \A i \in 1..Len(script) :
              /\ b[i] = b[i - 1] + (IF script[i] = "Insert" THEN 0 ELSE 1)
              /\ t[i] = t[i - 1] + (IF script[i] = "Delete" THEN 0 ELSE 1)

\* One edit n times before a script.
LEMMA RepeatIs ==
    ASSUME NEW op \in EditKinds, NEW n \in Nat, NEW s \in Seq(EditKinds)
    PROVE  /\ Repeat(op, n) \o s \in Seq(EditKinds) /\ Len(Repeat(op, n) \o s) = n + Len(s)
           /\ \A i \in 1..(n + Len(s)) :
                 (Repeat(op, n) \o s)[i] = IF i <= n THEN op ELSE s[i - n]
BY DEF Repeat

\* A script that leads from a place leads, after k equal edits, from k lines
\* before it.
LEMMA LeadsFrom ==
    ASSUME NEW s \in Seq(EditKinds), NEW x \in Nat, NEW y \in Nat, NEW n, NEW m,
           Leads(s, x, y, n, m),
           NEW op \in EditKinds, NEW k \in Nat, NEW x0 \in Nat, NEW y0 \in Nat,
           x = IF op = "Insert" THEN x0 ELSE x0 + k,
           y = IF op = "Delete" THEN y0 ELSE y0 + k
    PROVE  /\ Repeat(op, k) \o s \in Seq(EditKinds)
           /\ Leads(Repeat(op, k) \o s, x0, y0, n, m)
<1>1. PICK b, t \in [0..Len(s) -> Nat] :
        /\ b[0] = x /\ t[0] = y /\ b[Len(s)] = n /\ t[Len(s)] = m
        /\ \A i \in 1..Len(s) : /\ b[i] = b[i - 1] + (IF s[i] = "Insert" THEN 0 ELSE 1)
                                /\ t[i] = t[i - 1] + (IF s[i] = "Delete" THEN 0 ELSE 1)
  BY DEF Leads
<1> DEFINE r == Repeat(op, k) \o s
           c == [i \in 0..Len(r) |-> IF i > k THEN b[i - k] ELSE IF op = "Insert" THEN x0 ELSE x0 + i]
           u == [i \in 0..Len(r) |-> IF i > k THEN t[i - k] ELSE IF op = "Delete" THEN y0 ELSE y0 + i]
<1>2. /\ r \in Seq(EditKinds) /\ Len(r) = k + Len(s) /\ Len(s) \in Nat
      /\ \A i \in 1..Len(r) : r[i] = IF i <= k THEN op ELSE s[i - k]
  <2>1. /\ r \in Seq(EditKinds) /\ Len(r) = k + Len(s)
        /\ \A i \in 1..(k + Len(s)) : r[i] = IF i <= k THEN op ELSE s[i - k]
    BY RepeatIs
  <2> HIDE DEF r
  <2>2. QED BY <2>1
<1> HIDE DEF r
<1>3. \A i \in 0..Len(r) : i > k => i - k \in 1..Len(s)
  BY <1>2
<1>4. c \in [0..Len(r) -> Nat] /\ u \in [0..Len(r) -> Nat]
  <2>1. ASSUME NEW i \in 0..Len(r), i > k PROVE b[i - k] \in Nat /\ t[i - k] \in Nat
    <3>1. i - k \in 0..Len(s)
      BY <1>2, <1>3, <2>1
    <3>2. QED BY <3>1
  <2>2. c \in [0..Len(r) -> Nat]
    BY <2>1
  <2>3. u \in [0..Len(r) -> Nat]
    BY <2>1
  <2>4. QED BY <2>2, <2>3
<1>5. c[0] = x0 /\ u[0] = y0
  BY <1>2
<1>6. c[k] = x /\ u[k] = y
  BY <1>2
<1>7. \A i \in 0..Len(s) : c[i + k] = b[i] /\ u[i + k] = t[i]
  <2>1. ASSUME NEW i \in 0..Len(s) PROVE c[i + k] = b[i] /\ u[i + k] = t[i]
    <3>1. CASE i = 0
      BY <1>1, <1>6, <3>1
    <3>2. CASE i # 0
      <4>1. i + k \in 0..Len(r) /\ i + k > k /\ i + k - k = i
        BY <1>2, <3>2
      <4>2. QED BY <4>1
    <3>3. QED BY <3>1, <3>2
  <2>2. QED BY <2>1
<1>8. c[Len(r)] = n /\ u[Len(r)] = m
  BY <1>1, <1>2, <1>7
<1>9. ASSUME NEW i \in 1..Len(r)
      PROVE  /\ c[i] = c[i - 1] + (IF r[i] = "Insert" THEN 0 ELSE 1)
             /\ u[i] = u[i - 1] + (IF r[i] = "Delete" THEN 0 ELSE 1)
  <2>1. CASE i <= k
    <3>1. i \in 0..Len(r) /\ i - 1 \in 0..Len(r) /\ r[i] = op /\ ~(i > k) /\ ~(i - 1 > k)
      BY <1>2, <2>1
    <3>2. /\ c[i] = (IF op = "Insert" THEN x0 ELSE x0 + i)
          /\ c[i - 1] = (IF op = "Insert" THEN x0 ELSE x0 + (i - 1))
          /\ u[i] = (IF op = "Delete" THEN y0 ELSE y0 + i)
          /\ u[i - 1] = (IF op = "Delete" THEN y0 ELSE y0 + (i - 1))
      BY <3>1
    <3> HIDE DEF c, u
    <3>3. QED BY <1>2, <3>1, <3>2
  <2>2. CASE i > k
    <3>1. i - k \in 1..Len(s) /\ i - k - 1 \in 0..Len(s) /\ i - k + k = i /\ i - k - 1 + k = i - 1
          /\ i - k \in 0..Len(s)
      BY <1>2, <2>2
    <3>2. r[i] = s[i - k]
      BY <1>2, <2>2
    <3> HIDE DEF c, u
    <3>3. c[i] = b[i - k] /\ c[i - 1] = b[i - k - 1] /\ u[i] = t[i - k] /\ u[i - 1] = t[i - k - 1]
      BY <1>7, <3>1
    <3>4. QED BY <1>1, <3>1, <3>2, <3>3
  <2>3. QED BY <1>2, <2>1, <2>2
<1> HIDE DEF c, u
<1>10. Leads(r, x0, y0, n, m)
  BY <1>4, <1>5, <1>8, <1>9 DEF Leads
<1>11. QED BY <1>2, <1>10 DEF r

\* Where backtrack may be, with the edits it has found.
BackStates(n, m) ==
    {at \in [x : 0..n, y : 0..m, edits : Seq(EditKinds)] : Leads(at.edits, at.x, at.y, n, m)}

\* One edit before a script is that edit once.
LEMMA PrependOne ==
    ASSUME NEW op \in EditKinds, NEW s \in Seq(EditKinds)
    PROVE  <<op>> \o s = Repeat(op, 1) \o s
BY DEF Repeat

\* backtrack keeps the equal lines between where it is and the point before it.
LEMMA KeepIs ==
    ASSUME NEW n \in Nat, NEW m \in Nat, NEW at \in BackStates(n, m),
           NEW prevX \in Nat, NEW prevY \in Int
    PROVE  Keep(at, prevX, prevY) \in BackStates(n, m)
<1> DEFINE kept == IF at.x > prevX /\ prevY >= 0 /\ at.y > prevY
                   THEN MinOf(at.x - prevX, at.y - prevY) ELSE 0
           s == Repeat("Keep", kept) \o at.edits
<1>1. at.x \in 0..n /\ at.y \in 0..m /\ at.edits \in Seq(EditKinds) /\ Leads(at.edits, at.x, at.y, n, m)
  BY DEF BackStates
<1>2. kept \in Nat /\ at.x - kept \in 0..n /\ at.y - kept \in 0..m
  <2>1. at.x \in Nat /\ at.y \in Nat /\ at.x <= n /\ at.y <= m
    BY <1>1
  <2>2. kept \in Nat /\ kept <= at.x /\ kept <= at.y
    BY <2>1 DEF MinOf
  <2> HIDE DEF kept
  <2>3. QED BY <2>1, <2>2
<1> HIDE DEF kept
<1>3. s \in Seq(EditKinds) /\ Leads(s, at.x - kept, at.y - kept, n, m)
  <2>1. at.x \in Nat /\ at.y \in Nat /\ at.x - kept \in Nat /\ at.y - kept \in Nat
        /\ at.x = at.x - kept + kept /\ at.y = at.y - kept + kept /\ "Keep" \in EditKinds
    BY <1>1, <1>2 DEF EditKinds
  <2>2. QED BY <1>1, <1>2, <2>1, LeadsFrom
<1>4. Keep(at, prevX, prevY) = [x |-> at.x - kept, y |-> at.y - kept, edits |-> s]
  BY DEF Keep, kept
<1> HIDE DEF s
<1>5. QED BY <1>2, <1>3, <1>4 DEF BackStates

\* backtrack takes one deletion or insertion back, or none.
LEMMA StepToIs ==
    ASSUME NEW n \in Nat, NEW m \in Nat, NEW at \in BackStates(n, m),
           NEW prevX \in Nat, NEW prevY \in Int
    PROVE  StepTo(at, prevX, prevY) \in BackStates(n, m)
<1>1. /\ at \in [x : 0..n, y : 0..m, edits : Seq(EditKinds)]
      /\ Leads(at.edits, at.x, at.y, n, m)
  BY DEF BackStates
<1>2. CASE at.x > prevX
  <2> DEFINE s == <<"Delete">> \o at.edits
  <2>0. ~(at.x <= prevX)
    BY <1>1, <1>2
  <2>1. at.x \in Nat /\ at.y \in Nat /\ at.x - 1 \in Nat /\ at.x = at.x - 1 + 1
        /\ "Delete" \in EditKinds /\ at.edits \in Seq(EditKinds)
    BY <1>1, <1>2 DEF EditKinds
  <2>2. s \in Seq(EditKinds) /\ Leads(s, at.x - 1, at.y, n, m)
    <3>1. s = Repeat("Delete", 1) \o at.edits
      BY <2>1, PrependOne
    <3>2. QED BY <1>1, <2>1, <3>1, LeadsFrom
  <2>3. StepTo(at, prevX, prevY) = [at EXCEPT !.x = at.x - 1, !.edits = s]
    BY <1>2, <2>0 DEF StepTo
  <2> HIDE DEF s
  <2>4. StepTo(at, prevX, prevY) = [x |-> at.x - 1, y |-> at.y, edits |-> s]
    BY <1>1, <2>3
  <2>5. at.x - 1 \in 0..n /\ at.y \in 0..m
    BY <1>1, <1>2
  <2>6. QED BY <2>2, <2>4, <2>5 DEF BackStates
<1>3. CASE at.x <= prevX /\ prevY >= 0 /\ at.y > prevY
  <2> DEFINE s == <<"Insert">> \o at.edits
  <2>1. at.x \in Nat /\ at.y \in Nat /\ at.y - 1 \in Nat /\ at.y = at.y - 1 + 1
        /\ "Insert" \in EditKinds /\ at.edits \in Seq(EditKinds) /\ ~(at.x > prevX)
    BY <1>1, <1>3 DEF EditKinds
  <2>2. s \in Seq(EditKinds) /\ Leads(s, at.x, at.y - 1, n, m)
    <3>1. s = Repeat("Insert", 1) \o at.edits
      BY <2>1, PrependOne
    <3>2. QED BY <1>1, <2>1, <3>1, LeadsFrom
  <2>3. StepTo(at, prevX, prevY) = [at EXCEPT !.y = at.y - 1, !.edits = s]
    BY <1>3, <2>1 DEF StepTo
  <2> HIDE DEF s
  <2>4. StepTo(at, prevX, prevY) = [x |-> at.x, y |-> at.y - 1, edits |-> s]
    BY <1>1, <2>3
  <2>5. at.x \in 0..n /\ at.y - 1 \in 0..m
    BY <1>1, <1>3
  <2>6. QED BY <2>2, <2>4, <2>5 DEF BackStates
<1>4. CASE ~(at.x > prevX) /\ ~(at.x <= prevX /\ prevY >= 0 /\ at.y > prevY)
  BY <1>4 DEF StepTo
<1>5. QED BY <1>2, <1>3, <1>4

\* So a round of backtrack leads to where the later edits begin.
LEMMA BackStepIs ==
    ASSUME NEW n \in Nat \ {0}, NEW m \in Nat \ {0}, NEW v \in Vectors(n + m), NEW d \in Nat,
           NEW at \in BackStates(n, m)
    PROVE  BackStep(v, d, at) \in BackStates(n, m)
<1> DEFINE k == at.x - at.y
           prevK == IF Down(v, d, k) THEN k + 1 ELSE k - 1
           prevX == v[prevK]
<1>1. prevK \in -(n + m)..(n + m) /\ prevK \in Int
  <2>1. at.x \in 0..n /\ at.y \in 0..m
    BY DEF BackStates
  <2>2. QED BY <2>1
<1>2. BackStep(v, d, at) = StepTo(Keep(at, prevX, prevX - prevK), prevX, prevX - prevK)
  BY DEF BackStep
<1> HIDE DEF prevK
<1>3. prevX \in Nat /\ prevX - prevK \in Int
  BY <1>1 DEF Vectors
<1> HIDE DEF prevX
<1>4. n \in Nat /\ m \in Nat
  OBVIOUS
<1>5. Keep(at, prevX, prevX - prevK) \in BackStates(n, m)
  BY <1>3, <1>4, KeepIs
<1>6. QED BY <1>2, <1>3, <1>4, <1>5, StepToIs

\* What is left when backtrack ends leads from the first lines of both texts.
LEMMA StartIs ==
    ASSUME NEW n \in Nat, NEW m \in Nat, NEW at \in BackStates(n, m)
    PROVE  Start(at) \in Seq(EditKinds) /\ Leads(Start(at), 0, 0, n, m)
<1> DEFINE kept == MinOf(at.x, at.y)
           s1 == Repeat("Keep", kept) \o at.edits
           s2 == Repeat("Insert", at.y - kept) \o s1
           s3 == Repeat("Delete", at.x - kept) \o s2
<1>1. /\ at.x \in Nat /\ at.y \in Nat /\ at.edits \in Seq(EditKinds)
      /\ Leads(at.edits, at.x, at.y, n, m)
  BY DEF BackStates
<1>2. kept \in Nat /\ at.x - kept \in Nat /\ at.y - kept \in Nat
  BY <1>1 DEF MinOf
<1>3. {"Keep", "Insert", "Delete"} \subseteq EditKinds
  BY DEF EditKinds
<1> HIDE DEF kept
<1>4. s1 \in Seq(EditKinds) /\ Leads(s1, at.x - kept, at.y - kept, n, m)
  <2>1. at.x = at.x - kept + kept /\ at.y = at.y - kept + kept
    BY <1>1, <1>2
  <2>2. QED BY <1>1, <1>2, <1>3, <2>1, LeadsFrom
<1> HIDE DEF s1
<1>5. s2 \in Seq(EditKinds) /\ Leads(s2, at.x - kept, 0, n, m)
  <2>1. at.y - kept = 0 + (at.y - kept) /\ 0 \in Nat
    BY <1>1, <1>2
  <2>2. QED BY <1>2, <1>3, <1>4, <2>1, LeadsFrom
<1> HIDE DEF s2
<1>6. s3 \in Seq(EditKinds) /\ Leads(s3, 0, 0, n, m)
  <2>1. at.x - kept = 0 + (at.x - kept) /\ 0 \in Nat
    BY <1>1, <1>2
  <2>2. QED BY <1>2, <1>3, <1>5, <2>1, LeadsFrom
<1>7. Start(at) = s3
  BY DEF Start, kept, s1, s2
<1> HIDE DEF s3
<1>8. QED BY <1>6, <1>7

-----------------------------------------------------------------------------
(* The operations cover both texts (convert_ses_to_diff_ops) *)

\* No range, or one of lines.
Ranges == {<<>>} \cup (Nat \X Nat)

\* The last range of what is covered is extended by line n, or a range of line n
\* is appended.
LEMMA CoverGrows ==
    ASSUME NEW rs \in Seq(Ranges), NEW qs \in Seq(Ranges), NEW n \in Nat, Covers(rs, n),
           Len(qs) = Len(rs) \/ Len(qs) = Len(rs) + 1, Len(qs) > 0,
           \A i \in 1..(Len(qs) - 1) : qs[i] = rs[i],
           \/ qs[Len(qs)] = <<n, n + 1>> /\ (Len(qs) = Len(rs) => rs[Len(rs)] = <<>>)
           \/ Len(qs) = Len(rs) /\ rs[Len(rs)] # <<>> /\ qs[Len(qs)] = <<rs[Len(rs)][1], n + 1>>
    PROVE  Covers(qs, n + 1)
<1> DEFINE N == Len(qs)
           M == Len(rs)
<1>1. N \in Nat /\ N > 0 /\ M \in Nat /\ (N = M \/ N = M + 1) /\ DOMAIN qs = 1..N /\ DOMAIN rs = 1..M
  OBVIOUS
<1>2. \A i \in 1..M : rs[i] # <<>> => /\ rs[i][1] \in Nat /\ rs[i][2] \in Nat
                                      /\ rs[i][1] < rs[i][2] /\ rs[i][2] <= n
  <2>1. \A i \in 1..M : rs[i] \in Ranges
    OBVIOUS
  <2> HIDE DEF M
  <2>2. QED BY <1>1, <2>1 DEF Covers, Ranges
<1>3. /\ \A i \in 1..(N - 1) : qs[i] = rs[i]
      /\ \/ qs[N] = <<n, n + 1>> /\ (N = M => rs[N] = <<>>)
         \/ N = M /\ rs[N] # <<>> /\ qs[N] = <<rs[N][1], n + 1>>
  BY <1>1
<1> HIDE DEF N, M
<1>4. \A i \in 1..(N - 1) : i \in 1..M /\ i \in 1..N /\ qs[i] = rs[i]
  BY <1>1, <1>3
<1>10. /\ qs[N] # <<>> /\ qs[N][2] = n + 1 /\ qs[N][1] \in Nat /\ qs[N][1] <= n /\ N \in 1..N
       /\ \/ qs[N][1] = n /\ (N = M => rs[N] = <<>>)
          \/ N = M /\ rs[N] # <<>> /\ qs[N][1] = rs[N][1]
  <2>1. CASE qs[N] = <<n, n + 1>> /\ (N = M => rs[N] = <<>>)
    BY <1>1, <2>1
  <2>2. CASE N = M /\ rs[N] # <<>> /\ qs[N] = <<rs[N][1], n + 1>>
    <3>1. N \in 1..M
      BY <1>1, <2>2
    <3>2. rs[N][1] \in Nat /\ rs[N][1] <= n
      BY <1>2, <2>2, <3>1
    <3>3. QED BY <1>1, <2>2, <3>2
  <2>3. QED BY <1>3, <2>1, <2>2
<1>11. \A i \in 1..N : i = N \/ i \in 1..(N - 1)
  BY <1>1
<1>5. ASSUME NEW i \in 1..N, qs[i] # <<>>
      PROVE  0 <= qs[i][1] /\ qs[i][1] < qs[i][2] /\ qs[i][2] <= n + 1
  <2>1. CASE i = N
    BY <1>10, <2>1
  <2>2. CASE i \in 1..(N - 1)
    BY <1>2, <1>4, <1>5, <2>2
  <2>3. QED BY <1>11, <2>1, <2>2
<1>6. ASSUME NEW i \in 1..N, NEW j \in 1..N, i < j, qs[i] # <<>>, qs[j] # <<>>
      PROVE  qs[i][2] <= qs[j][1]
  <2>1. i \in 1..(N - 1)
    BY <1>1, <1>6
  <2>2. i \in 1..M /\ qs[i] = rs[i] /\ rs[i] # <<>>
    BY <1>4, <1>6, <2>1
  <2>3. CASE j = N
    <3>1. CASE qs[N][1] = n
      BY <1>2, <2>2, <2>3, <3>1
    <3>2. CASE N = M /\ rs[N] # <<>> /\ qs[N][1] = rs[N][1]
      <4>1. N \in 1..M
        BY <1>10, <3>2
      <4>2. rs[i][2] <= rs[N][1]
        BY <1>1, <1>6, <2>2, <2>3, <3>2, <4>1 DEF Covers
      <4>3. QED BY <2>2, <2>3, <3>2, <4>2
    <3>3. QED BY <1>10, <3>1, <3>2
  <2>4. CASE j \in 1..(N - 1)
    <3>1. j \in 1..M /\ qs[j] = rs[j]
      BY <1>4, <2>4
    <3>2. QED BY <1>1, <1>6, <2>2, <3>1 DEF Covers
  <2>5. QED BY <1>11, <2>3, <2>4
<1>7. ASSUME NEW line \in 0..n PROVE \E i \in 1..N : Lies(line, qs[i])
  <2>1. CASE line = n
    <3>1. Lies(line, qs[N])
      BY <1>10, <2>1 DEF Lies
    <3>2. QED BY <1>10, <3>1
  <2>2. CASE line # n
    <3>1. line \in 0..(n - 1)
      BY <2>2
    <3>2. PICK i \in 1..M : Lies(line, rs[i])
      BY <1>1, <3>1 DEF Covers
    <3>3. CASE i \in 1..(N - 1)
      BY <1>4, <3>2, <3>3
    <3>4. CASE i = N
      <4>1. rs[N] # <<>> /\ N = M
        BY <1>1, <3>2, <3>4 DEF Lies
      <4>2. qs[N][1] = rs[N][1] /\ rs[N][2] <= n /\ rs[N][2] \in Nat
        BY <1>2, <1>10, <3>4, <4>1
      <4>3. rs[N][1] <= line
        BY <3>2, <3>4 DEF Lies
      <4>4. Lies(line, qs[N])
        BY <1>10, <3>1, <4>2, <4>3 DEF Lies
      <4>5. QED BY <1>10, <4>4
    <3>5. i \in 1..(N - 1) \/ i = N
      BY <1>1, <3>2
    <3>6. QED BY <3>3, <3>4, <3>5
  <2>3. QED BY <2>1, <2>2
<1>8. 0..(n + 1 - 1) = 0..n
  OBVIOUS
<1>9. \A i, j \in DOMAIN qs : i < j /\ qs[i] # <<>> /\ qs[j] # <<>> => qs[i][2] <= qs[j][1]
  BY <1>1, <1>6
<1>12. \A line \in 0..(n + 1 - 1) : \E i \in DOMAIN qs : Lies(line, qs[i])
  BY <1>1, <1>7, <1>8
<1>13. \A i \in DOMAIN qs : qs[i] # <<>> =>
          0 <= qs[i][1] /\ qs[i][1] < qs[i][2] /\ qs[i][2] <= n + 1
  BY <1>1, <1>5
<1>14. QED BY <1>9, <1>12, <1>13 DEF Covers

\* A range is appended that names no line.
LEMMA CoverStays ==
    ASSUME NEW rs \in Seq(Ranges), NEW n \in Nat, Covers(rs, n)
    PROVE  Covers(Append(rs, <<>>), n)
<1> DEFINE qs == Append(rs, <<>>)
<1>1. DOMAIN rs = 1..Len(rs) /\ DOMAIN qs = 1..(Len(rs) + 1) /\ Len(rs) \in Nat
      /\ \A i \in 1..Len(rs) : qs[i] = rs[i]
      /\ qs[Len(rs) + 1] = <<>>
  OBVIOUS
<1>2. \A i \in DOMAIN qs : qs[i] # <<>> => i \in DOMAIN rs
  BY <1>1
<1>3. \A i \in DOMAIN rs : i \in DOMAIN qs /\ qs[i] = rs[i]
  BY <1>1
<1> HIDE DEF qs
<1>4. \A i \in DOMAIN qs : qs[i] # <<>> => i \in DOMAIN rs /\ qs[i] = rs[i]
  BY <1>2, <1>3
<1>5. \A line \in 0..(n - 1) : \E i \in DOMAIN qs : Lies(line, qs[i])
  BY <1>3 DEF Covers
<1>6. /\ \A i \in DOMAIN rs : rs[i] # <<>> =>
            0 <= rs[i][1] /\ rs[i][1] < rs[i][2] /\ rs[i][2] <= n
      /\ \A i, j \in DOMAIN rs : i < j /\ rs[i] # <<>> /\ rs[j] # <<>> => rs[i][2] <= rs[j][1]
  BY DEF Covers
<1>7. \A i \in DOMAIN qs : qs[i] # <<>> =>
          0 <= qs[i][1] /\ qs[i][1] < qs[i][2] /\ qs[i][2] <= n
  BY <1>4, <1>6
<1>8. \A i, j \in DOMAIN qs : i < j /\ qs[i] # <<>> /\ qs[j] # <<>> => qs[i][2] <= qs[j][1]
  BY <1>4, <1>6
<1>9. QED BY <1>5, <1>7, <1>8 DEF Covers

\* A range of the next line is appended.
LEMMA CoverAdded ==
    ASSUME NEW rs \in Seq(Ranges), NEW n \in Nat, Covers(rs, n)
    PROVE  Covers(Append(rs, <<n, n + 1>>), n + 1)
<1> DEFINE qs == Append(rs, <<n, n + 1>>)
<1>1. <<n, n + 1>> \in Ranges
  BY DEF Ranges
<1>2. /\ qs \in Seq(Ranges) /\ Len(qs) = Len(rs) + 1 /\ Len(rs) \in Nat
      /\ qs[Len(qs)] = <<n, n + 1>> /\ \A i \in 1..Len(rs) : qs[i] = rs[i]
  BY <1>1
<1> HIDE DEF qs
<1>3. Len(qs) > 0 /\ Len(qs) - 1 = Len(rs) /\ Len(qs) # Len(rs)
  BY <1>2
<1>4. \A i \in 1..(Len(qs) - 1) : qs[i] = rs[i]
  BY <1>2, <1>3
<1>5. Covers(qs, n + 1)
  BY <1>2, <1>3, <1>4, CoverGrows
<1>6. QED BY <1>5 DEF qs

\* The last range there is ends where all end.
LEMMA CoverEnds ==
    ASSUME NEW rs \in Seq(Ranges), NEW n \in Nat, Covers(rs, n),
           Len(rs) > 0, rs[Len(rs)] # <<>>
    PROVE  rs[Len(rs)][2] = n
<1> DEFINE N == Len(rs)
<1>1. N \in Nat /\ N \in 1..N /\ DOMAIN rs = 1..N /\ \A i \in 1..N : rs[i] \in Ranges
  OBVIOUS
<1> HIDE DEF N
<1>2. \A i \in 1..N : rs[i] # <<>> => rs[i][1] \in Nat /\ rs[i][2] \in Nat
  BY <1>1 DEF Ranges
<1>3. 0 <= rs[N][1] /\ rs[N][1] < rs[N][2] /\ rs[N][2] <= n /\ rs[N] # <<>>
  BY <1>1 DEF Covers, N
<1>4. n - 1 \in 0..(n - 1)
  BY <1>1, <1>2, <1>3
<1>5. PICK i \in 1..N : Lies(n - 1, rs[i])
  BY <1>1, <1>4 DEF Covers
<1>6. CASE i = N
  BY <1>1, <1>2, <1>3, <1>5, <1>6 DEF Lies, N
<1>7. CASE i < N
  <2>1. rs[i][2] <= rs[N][1]
    BY <1>1, <1>3, <1>5, <1>7 DEF Covers, Lies
  <2>2. QED BY <1>1, <1>2, <1>3, <1>5, <2>1 DEF Lies, N
<1>8. QED BY <1>1, <1>5, <1>6, <1>7

\* An operation without lines of the base is an insertion, one without lines of
\* the target a deletion; equal lines are as many in both.
DiffOps == {op \in [kind : {"Equal", "Delete", "Insert", "Replace"}, old : Ranges, new : Ranges] :
               /\ op.old = <<>> <=> op.kind = "Insert"
               /\ op.new = <<>> <=> op.kind = "Delete"
               /\ op.kind = "Equal" => op.old[2] - op.old[1] = op.new[2] - op.new[1]}

\* What the edits so far have made: operations of all lines up to b and t.
OpsStates == {st \in [ops : Seq(DiffOps), b : Nat, t : Nat] :
                 Covers(Olds(st.ops), st.b) /\ Covers(News(st.ops), st.t)}

\* The ranges of the operations in the base and in the target.
LEMMA SidesAre ==
    ASSUME NEW ops \in Seq(DiffOps)
    PROVE  /\ Olds(ops) \in Seq(Ranges) /\ News(ops) \in Seq(Ranges)
           /\ Len(Olds(ops)) = Len(ops) /\ Len(News(ops)) = Len(ops)
           /\ \A i \in 1..Len(ops) : /\ Olds(ops)[i] = ops[i].old /\ News(ops)[i] = ops[i].new
                                     /\ ops[i] \in DiffOps
<1>1. \A i \in 1..Len(ops) : ops[i] \in DiffOps /\ ops[i].old \in Ranges /\ ops[i].new \in Ranges
  <2>1. \A i \in 1..Len(ops) : ops[i] \in DiffOps
    OBVIOUS
  <2>2. QED BY <2>1 DEF DiffOps
<1>2. DOMAIN ops = 1..Len(ops) /\ Len(ops) \in Nat
  OBVIOUS
<1>3. QED BY <1>1, <1>2 DEF Olds, News

\* A new operation covers the lines of its edit (convert_ses_to_diff_ops).
LEMMA FreshIs ==
    ASSUME NEW edit \in EditKinds, NEW b \in Nat, NEW t \in Nat
    PROVE  /\ Fresh(edit, b, t) \in DiffOps
           /\ Fresh(edit, b, t).old = IF edit = "Insert" THEN <<>> ELSE <<b, b + 1>>
           /\ Fresh(edit, b, t).new = IF edit = "Delete" THEN <<>> ELSE <<t, t + 1>>
<1>1. <<b, b + 1>> \in Ranges /\ <<t, t + 1>> \in Ranges /\ <<>> \in Ranges
      /\ <<b, b + 1>> # <<>> /\ <<t, t + 1>> # <<>>
      /\ <<b, b + 1>>[2] - <<b, b + 1>>[1] = <<t, t + 1>>[2] - <<t, t + 1>>[1]
  BY DEF Ranges
<1>2. CASE edit = "Keep"
  BY <1>1, <1>2 DEF Fresh, Op, DiffOps
<1>3. CASE edit = "Delete"
  BY <1>1, <1>3 DEF Fresh, Op, DiffOps
<1>4. CASE edit = "Insert"
  BY <1>1, <1>4 DEF Fresh, Op, DiffOps
<1>5. QED BY <1>2, <1>3, <1>4 DEF EditKinds

\* An operation that takes in an edit: the lines of it are added where it has some.
LEMMA ExtendIs ==
    ASSUME NEW op \in DiffOps, NEW edit \in EditKinds, NEW b \in Nat, NEW t \in Nat,
           Extend(op, edit, b, t) # op, op.kind = "Equal" => op.old[2] = b /\ op.new[2] = t
    PROVE  /\ Extend(op, edit, b, t) \in DiffOps
           /\ Extend(op, edit, b, t).old =
                 IF edit = "Insert" THEN op.old ELSE <<op.old[1], b + 1>>
           /\ edit # "Insert" => op.old # <<>>
           /\ Extend(op, edit, b, t).new =
                 IF edit = "Delete" THEN op.new
                 ELSE IF op.new = <<>> THEN <<t, t + 1>> ELSE <<op.new[1], t + 1>>
<1>1. /\ op \in [kind : {"Equal", "Delete", "Insert", "Replace"}, old : Ranges, new : Ranges]
      /\ op.old = <<>> <=> op.kind = "Insert"
      /\ op.new = <<>> <=> op.kind = "Delete"
      /\ op.kind = "Equal" => op.old[2] - op.old[1] = op.new[2] - op.new[1]
  BY DEF DiffOps
<1>2. /\ op.old # <<>> => <<op.old[1], b + 1>> \in Ranges
      /\ op.new # <<>> => <<op.new[1], t + 1>> \in Ranges
      /\ <<t, t + 1>> \in Ranges
  BY <1>1 DEF Ranges
<1>3. \A i, j : <<i, j>> # <<>>
  OBVIOUS
<1> DEFINE o == <<op.old[1], b + 1>>
           u == <<op.new[1], t + 1>>
           w == <<t, t + 1>>
<1>10. /\ op.old # <<>> => o \in Ranges /\ o # <<>>
       /\ op.new # <<>> => u \in Ranges /\ u # <<>>
       /\ w \in Ranges /\ w # <<>>
       /\ op.old \in Ranges /\ op.new \in Ranges
  BY <1>1, <1>2, <1>3
<1>4. CASE edit = "Keep" /\ op.kind = "Equal"
  <2>1. Extend(op, edit, b, t) = [kind |-> "Equal", old |-> o, new |-> u]
    BY <1>4 DEF Extend, Op
  <2>2. op.old # <<>> /\ op.new # <<>>
    BY <1>1, <1>4
  <2>5. o[2] - o[1] = u[2] - u[1]
    <3>1. op.old[1] \in Nat /\ op.new[1] \in Nat /\ op.old[2] = b /\ op.new[2] = t
      BY <1>4, <1>10, <2>2 DEF Ranges
    <3>2. b - op.old[1] = t - op.new[1]
      BY <1>1, <1>4, <3>1
    <3>3. /\ o[1] = op.old[1] /\ o[2] = b + 1
          /\ u[1] = op.new[1] /\ u[2] = t + 1
      OBVIOUS
    <3> HIDE DEF o, u
    <3>4. QED BY <3>1, <3>2, <3>3
  <2> HIDE DEF o, u
  <2>3. Extend(op, edit, b, t) \in DiffOps
    BY <1>10, <2>1, <2>2, <2>5 DEF DiffOps
  <2>4. QED BY <1>4, <2>1, <2>2, <2>3 DEF o, u
<1>5. CASE edit = "Delete" /\ op.kind \in {"Delete", "Replace"}
  <2>1. Extend(op, edit, b, t) = [op EXCEPT !.old = o]
    BY <1>5 DEF Extend
  <2> HIDE DEF o
  <2>2. Extend(op, edit, b, t) = [kind |-> op.kind, old |-> o, new |-> op.new]
    BY <1>1, <2>1
  <2>3. op.old # <<>>
    BY <1>1, <1>5
  <2>4. Extend(op, edit, b, t) \in DiffOps
    BY <1>1, <1>5, <1>10, <2>2, <2>3 DEF DiffOps
  <2>5. QED BY <1>5, <2>2, <2>3, <2>4 DEF o
<1>6. CASE edit = "Insert" /\ op.kind = "Delete"
  <2>1. Extend(op, edit, b, t) = [kind |-> "Replace", old |-> op.old, new |-> w]
    BY <1>6 DEF Extend, Op
  <2> HIDE DEF w
  <2>2. Extend(op, edit, b, t) \in DiffOps
    BY <1>1, <1>6, <1>10, <2>1 DEF DiffOps
  <2>3. QED BY <1>1, <1>6, <2>1, <2>2 DEF w
<1>7. CASE edit = "Insert" /\ op.kind \in {"Insert", "Replace"}
  <2>1. Extend(op, edit, b, t) = [op EXCEPT !.new = u]
    BY <1>7 DEF Extend
  <2> HIDE DEF u
  <2>2. Extend(op, edit, b, t) = [kind |-> op.kind, old |-> op.old, new |-> u]
    BY <1>1, <2>1
  <2>3. op.new # <<>>
    BY <1>1, <1>7
  <2>4. Extend(op, edit, b, t) \in DiffOps
    BY <1>1, <1>7, <1>10, <2>2, <2>3 DEF DiffOps
  <2>5. QED BY <1>7, <2>2, <2>3, <2>4 DEF u
<1>8. \/ edit = "Keep" /\ op.kind = "Equal"
      \/ edit = "Delete" /\ op.kind \in {"Delete", "Replace"}
      \/ edit = "Insert" /\ op.kind = "Delete"
      \/ edit = "Insert" /\ op.kind \in {"Insert", "Replace"}
  BY DEF Extend
<1>9. QED BY <1>4, <1>5, <1>6, <1>7, <1>8

\* An edit is taken in by the last operation or by a new one, and the operations
\* cover the lines so far (convert_ses_to_diff_ops).
LEMMA AddEditIs ==
    ASSUME NEW st \in OpsStates, NEW edit \in EditKinds
    PROVE  AddEdit(st, edit) \in OpsStates
<1> DEFINE N == Len(st.ops)
           joined == IF st.ops = <<>> THEN Fresh(edit, 0, 0)
                     ELSE Extend(Last(st.ops), edit, st.b, st.t)
           joins == st.ops # <<>> /\ joined # Last(st.ops)
           ops == IF joins THEN [st.ops EXCEPT ![Len(st.ops)] = joined]
                  ELSE Append(st.ops, Fresh(edit, st.b, st.t))
           b == st.b + (IF edit = "Insert" THEN 0 ELSE 1)
           t == st.t + (IF edit = "Delete" THEN 0 ELSE 1)
<1>1. /\ st.ops \in Seq(DiffOps) /\ st.b \in Nat /\ st.t \in Nat /\ N \in Nat
      /\ Covers(Olds(st.ops), st.b) /\ Covers(News(st.ops), st.t)
  BY DEF OpsStates
<1>2. AddEdit(st, edit) = [ops |-> ops, b |-> b, t |-> t]
  BY DEF AddEdit
<1>3. b \in Nat /\ t \in Nat
  BY <1>1
<1>4. /\ Olds(st.ops) \in Seq(Ranges) /\ News(st.ops) \in Seq(Ranges)
      /\ Len(Olds(st.ops)) = N /\ Len(News(st.ops)) = N
      /\ \A i \in 1..N : /\ Olds(st.ops)[i] = st.ops[i].old /\ News(st.ops)[i] = st.ops[i].new
                         /\ st.ops[i] \in DiffOps
  BY <1>1, SidesAre
<1>5. CASE joins
  <2> DEFINE last == st.ops[N]
             op == Extend(last, edit, st.b, st.t)
  <2>1. N > 0 /\ N \in 1..N /\ last \in DiffOps /\ Last(st.ops) = last
    BY <1>1, <1>4, <1>5 DEF Last
  <2>2. /\ op \in DiffOps
        /\ op.old = IF edit = "Insert" THEN last.old ELSE <<last.old[1], st.b + 1>>
        /\ edit # "Insert" => last.old # <<>>
        /\ op.new = IF edit = "Delete" THEN last.new
                    ELSE IF last.new = <<>> THEN <<st.t, st.t + 1>> ELSE <<last.new[1], st.t + 1>>
    <3>1. op # last
      BY <1>5, <2>1
    <3>2. last.kind = "Equal" => last.old[2] = st.b /\ last.new[2] = st.t
      <4>1. /\ Olds(st.ops)[Len(Olds(st.ops))] = last.old
            /\ News(st.ops)[Len(News(st.ops))] = last.new
        BY <1>4, <2>1
      <4>2. last.old # <<>> => last.old[2] = st.b
        BY <1>1, <1>4, <2>1, <4>1, CoverEnds
      <4>3. last.new # <<>> => last.new[2] = st.t
        BY <1>1, <1>4, <2>1, <4>1, CoverEnds
      <4>4. last.kind = "Equal" => last.old # <<>> /\ last.new # <<>>
        BY <2>1 DEF DiffOps
      <4>5. QED BY <4>2, <4>3, <4>4
    <3> HIDE DEF last
    <3>3. QED BY <1>1, <2>1, <3>1, <3>2, ExtendIs
  <2> HIDE DEF op
  <2>3. ops = [st.ops EXCEPT ![N] = op]
    BY <1>5, <2>1 DEF op
  <2>4. /\ ops \in Seq(DiffOps) /\ Len(ops) = N /\ ops[N] = op
        /\ \A i \in 1..(N - 1) : ops[i] = st.ops[i]
    BY <1>1, <2>1, <2>2, <2>3
  <2> HIDE DEF ops
  <2>5. /\ Olds(ops) \in Seq(Ranges) /\ News(ops) \in Seq(Ranges)
        /\ Len(Olds(ops)) = N /\ Len(News(ops)) = N
        /\ \A i \in 1..N : Olds(ops)[i] = ops[i].old /\ News(ops)[i] = ops[i].new
    BY <2>4, SidesAre
  <2> HIDE DEF N
  <2>6. /\ \A i \in 1..(N - 1) : Olds(ops)[i] = Olds(st.ops)[i] /\ News(ops)[i] = News(st.ops)[i]
        /\ Olds(ops)[N] = op.old /\ News(ops)[N] = op.new
        /\ Olds(st.ops)[N] = last.old /\ News(st.ops)[N] = last.new
    <3>1. \A i \in 1..(N - 1) : i \in 1..N /\ ops[i] = st.ops[i]
      BY <1>1, <2>4
    <3>2. \A i \in 1..(N - 1) : Olds(ops)[i] = Olds(st.ops)[i] /\ News(ops)[i] = News(st.ops)[i]
      BY <1>4, <2>5, <3>1
    <3>3. QED BY <1>4, <2>1, <2>4, <2>5, <3>2
  <2> HIDE DEF last
  <2>7. Covers(Olds(ops), b)
    <3>1. CASE edit = "Insert"
      <4>1. Olds(ops) = Olds(st.ops)
        <5>1. \A i \in 1..N : Olds(ops)[i] = Olds(st.ops)[i]
          <6>1. \A i \in 1..N : i = N \/ i \in 1..(N - 1)
            BY <1>1
          <6>2. QED BY <2>2, <2>6, <3>1, <6>1
        <5>2. QED BY <1>4, <2>5, <5>1
      <4>2. QED BY <1>1, <3>1, <4>1
    <3>2. CASE edit # "Insert"
      <4>1. Covers(Olds(ops), st.b + 1)
        <5> DEFINE qs == Olds(ops)
                   rs == Olds(st.ops)
        <5>1. /\ qs \in Seq(Ranges) /\ rs \in Seq(Ranges) /\ st.b \in Nat /\ Covers(rs, st.b)
              /\ Len(qs) = N /\ Len(rs) = N /\ N > 0
          BY <1>1, <1>4, <2>1, <2>5
        <5>2. \A i \in 1..(N - 1) : qs[i] = rs[i]
          BY <2>6
        <5>3. \/ qs[N] = <<st.b, st.b + 1>> /\ rs[N] = <<>>
              \/ rs[N] # <<>> /\ qs[N] = <<rs[N][1], st.b + 1>>
          BY <2>2, <2>6, <3>2
        <5> HIDE DEF qs, rs
        <5>4. Covers(qs, st.b + 1)
          BY <5>1, <5>2, <5>3, CoverGrows
        <5>5. QED BY <5>4 DEF qs
      <4>2. QED BY <1>1, <3>2, <4>1
    <3>3. QED BY <3>1, <3>2
  <2>8. Covers(News(ops), t)
    <3>1. CASE edit = "Delete"
      <4>1. News(ops) = News(st.ops)
        <5>1. \A i \in 1..N : News(ops)[i] = News(st.ops)[i]
          <6>1. \A i \in 1..N : i = N \/ i \in 1..(N - 1)
            BY <1>1
          <6>2. QED BY <2>2, <2>6, <3>1, <6>1
        <5>2. QED BY <1>4, <2>5, <5>1
      <4>2. QED BY <1>1, <3>1, <4>1
    <3>2. CASE edit # "Delete"
      <4>1. Covers(News(ops), st.t + 1)
        <5> DEFINE qs == News(ops)
                   rs == News(st.ops)
        <5>1. /\ qs \in Seq(Ranges) /\ rs \in Seq(Ranges) /\ st.t \in Nat /\ Covers(rs, st.t)
              /\ Len(qs) = N /\ Len(rs) = N /\ N > 0
          BY <1>1, <1>4, <2>1, <2>5
        <5>2. \A i \in 1..(N - 1) : qs[i] = rs[i]
          BY <2>6
        <5>3. \/ qs[N] = <<st.t, st.t + 1>> /\ rs[N] = <<>>
              \/ rs[N] # <<>> /\ qs[N] = <<rs[N][1], st.t + 1>>
          BY <2>2, <2>6, <3>2
        <5> HIDE DEF qs, rs
        <5>4. Covers(qs, st.t + 1)
          BY <5>1, <5>2, <5>3, CoverGrows
        <5>5. QED BY <5>4 DEF qs
      <4>2. QED BY <1>1, <3>2, <4>1
    <3>3. QED BY <3>1, <3>2
  <2>9. QED BY <1>2, <1>3, <2>4, <2>7, <2>8 DEF OpsStates
<1>6. CASE ~joins
  <2> DEFINE op == Fresh(edit, st.b, st.t)
  <2>1. /\ op \in DiffOps
        /\ op.old = IF edit = "Insert" THEN <<>> ELSE <<st.b, st.b + 1>>
        /\ op.new = IF edit = "Delete" THEN <<>> ELSE <<st.t, st.t + 1>>
    BY <1>1, FreshIs
  <2>2. ops = Append(st.ops, op)
    BY <1>6
  <2> HIDE DEF op, ops
  <2>3. /\ ops \in Seq(DiffOps) /\ Len(ops) = N + 1 /\ ops[N + 1] = op
        /\ \A i \in 1..N : ops[i] = st.ops[i]
    BY <1>1, <2>1, <2>2
  <2>4. /\ Olds(ops) \in Seq(Ranges) /\ News(ops) \in Seq(Ranges)
        /\ Len(Olds(ops)) = N + 1 /\ Len(News(ops)) = N + 1
        /\ \A i \in 1..(N + 1) : Olds(ops)[i] = ops[i].old /\ News(ops)[i] = ops[i].new
    BY <2>3, SidesAre
  <2> HIDE DEF N
  <2>5. /\ \A i \in 1..N : Olds(ops)[i] = Olds(st.ops)[i] /\ News(ops)[i] = News(st.ops)[i]
        /\ Olds(ops)[N + 1] = op.old /\ News(ops)[N + 1] = op.new
    <3>1. \A i \in 1..N : i \in 1..(N + 1) /\ ops[i] = st.ops[i]
      BY <1>1, <2>3
    <3>2. N + 1 \in 1..(N + 1)
      BY <1>1
    <3>3. QED BY <1>4, <2>3, <2>4, <3>1, <3>2
  <2>9. Olds(ops) = Append(Olds(st.ops), op.old) /\ News(ops) = Append(News(st.ops), op.new)
    BY <1>1, <1>4, <2>4, <2>5
  <2>6. Covers(Olds(ops), b)
    <3>1. CASE edit = "Insert"
      BY <1>1, <1>4, <2>1, <2>9, <3>1, CoverStays
    <3>2. CASE edit # "Insert"
      BY <1>1, <1>4, <2>1, <2>9, <3>2, CoverAdded
    <3>3. QED BY <3>1, <3>2
  <2>7. Covers(News(ops), t)
    <3>1. CASE edit = "Delete"
      BY <1>1, <1>4, <2>1, <2>9, <3>1, CoverStays
    <3>2. CASE edit # "Delete"
      BY <1>1, <1>4, <2>1, <2>9, <3>2, CoverAdded
    <3>3. QED BY <3>1, <3>2
  <2>8. QED BY <1>2, <1>3, <2>3, <2>6, <2>7 DEF OpsStates
<1>7. QED BY <1>5, <1>6

\* backtrack leads from the first to the last lines of both texts, whatever the
\* rounds it goes back through have found.
LEMMA BacktrackIs ==
    ASSUME NEW old \in Seq(LineValues), NEW new \in Seq(LineValues), old # <<>>, new # <<>>,
           NEW r \in Nat, NEW trace \in [0..r -> Vectors(Len(old) + Len(new))]
    PROVE  /\ Backtrack(old, new, trace) \in Seq(EditKinds)
           /\ Leads(Backtrack(old, new, trace), 0, 0, Len(old), Len(new))
<1> DEFINE n == Len(old)
           m == Len(new)
           end == [x |-> n, y |-> m, edits |-> <<>>]
           back(at, i) == BackStep(trace[r - i], r - i, at)
           S == BackStates(n, m)
           step == [i \in 1..r |-> [at \in S |-> back(at, i)]]
           Is(f) == f = [i \in 0..r |-> IF i = 0 THEN end ELSE back(f[i - 1], i)]
           B == CHOOSE f : Is(f)
<1>1. n \in Nat \ {0} /\ m \in Nat \ {0}
  OBVIOUS
<1>2. Max(DOMAIN trace) = r
  <2>1. DOMAIN trace = 0..r /\ 0..r \in SUBSET Nat /\ r \in 0..r /\ \A i \in 0..r : i <= r
    OBVIOUS
  <2>2. Max(0..r) \in 0..r /\ r <= Max(0..r)
    BY <2>1, MaxIs
  <2>3. QED BY <2>1, <2>2
<1>3. Backtrack(old, new, trace) = Start(B[r])
  BY <1>2 DEF Backtrack, Loop
<1> HIDE DEF n, m
<1>4. end \in S
  <2>1. Leads(<<>>, n, m, n, m)
    <3>1. /\ [i \in 0..0 |-> n] \in [0..0 -> Nat] /\ [i \in 0..0 |-> m] \in [0..0 -> Nat]
          /\ [i \in 0..0 |-> n][0] = n /\ [i \in 0..0 |-> m][0] = m
      BY <1>1
    <3>2. Len(<<>>) = 0 /\ 1..0 = {}
      OBVIOUS
    <3>3. QED BY <3>1, <3>2 DEF Leads
  <2>2. QED BY <1>1, <2>1 DEF BackStates
<1>5. \A i \in 1..r, at \in S : back(at, i) \in S
  <2>1. \A i \in 1..r : r - i \in Nat /\ trace[r - i] \in Vectors(n + m)
    BY DEF n, m
  <2>2. QED BY <1>1, <2>1, BackStepIs
<1>6. step \in [1..r -> [S -> S]]
  <2> HIDE DEF S, back
  <2> QED BY <1>5
<1>7. \A i \in 1..r, at \in S : step[i][at] = back(at, i)
  OBVIOUS
<1> HIDE DEF S, end, step, back
<1>8. \E f : Is(f)
  <2>1. PICK f : Iterates(f, r, end, step, S)
    BY <1>4, <1>6, Iterated
  <2>2. f \in [0..r -> S] /\ f[0] = end /\ \A i \in 1..r : f[i] = step[i][f[i - 1]]
    BY <2>1 DEF Iterates
  <2>3. \A i \in 1..r : i - 1 \in 0..r
    OBVIOUS
  <2>4. \A i \in 1..r : f[i] = back(f[i - 1], i)
    BY <1>7, <2>2, <2>3
  <2>5. Is(f)
    BY <2>2, <2>4
  <2>6. QED BY <2>5
<1>9. Is(B)
  BY <1>8
<1> HIDE DEF B
<1>10. B[0] = end /\ \A i \in 1..r : B[i] = back(B[i - 1], i)
  <2>1. \A i \in 0..r : B[i] = IF i = 0 THEN end ELSE back(B[i - 1], i)
    BY <1>9
  <2>2. QED BY <2>1
<1>11. B[r] \in S
  <2>1. Follows(B, r, end, step, S)
    BY <1>7, <1>10 DEF Follows
  <2>2. \A i \in 0..r : B[i] \in S
    BY <1>4, <1>6, <2>1, Looped
  <2>3. QED BY <2>2
<1>12. Start(B[r]) \in Seq(EditKinds) /\ Leads(Start(B[r]), 0, 0, n, m)
  BY <1>1, <1>11, StartIs DEF S
<1>13. QED BY <1>3, <1>12 DEF n, m

\* So does the edit script of two texts (compute_ses and backtrack).
LEMMA EditScriptIs ==
    ASSUME NEW old \in Seq(LineValues), NEW new \in Seq(LineValues), old # <<>>, new # <<>>
    PROVE  /\ EditScript(old, new) \in Seq(EditKinds)
           /\ Leads(EditScript(old, new), 0, 0, Len(old), Len(new))
<1>1. PICK r \in Nat : Trace(old, new) \in [0..r -> Vectors(Len(old) + Len(new))]
  BY TraceIs
<1>2. QED BY <1>1, BacktrackIs DEF EditScript

\* The operations made of an edit script name all lines of both texts.
LEMMA ToDiffOpsIs ==
    ASSUME NEW script \in Seq(EditKinds), NEW n \in Nat, NEW m \in Nat, Leads(script, 0, 0, n, m)
    PROVE  /\ ToDiffOps(script) \in Seq(DiffOps)
           /\ Covers(Olds(ToDiffOps(script)), n) /\ Covers(News(ToDiffOps(script)), m)
<1> DEFINE N == Len(script)
           none == [ops |-> <<>>, b |-> 0, t |-> 0]
           add(st, i) == AddEdit(st, script[i])
           S == OpsStates
           step == [i \in 1..N |-> [st \in S |-> add(st, i)]]
           Is(f) == f = [i \in 0..N |-> IF i = 0 THEN none ELSE add(f[i - 1], i)]
           F == CHOOSE f : Is(f)
<1>1. N \in Nat /\ \A i \in 1..N : script[i] \in EditKinds
  OBVIOUS
<1>2. ToDiffOps(script) = F[N].ops
  BY DEF ToDiffOps, Loop
<1> HIDE DEF N
<1>3. none \in S
  <2>1. <<>> \in Seq(DiffOps) /\ Olds(<<>>) = <<>> /\ News(<<>>) = <<>> /\ DOMAIN <<>> = {}
    BY DEF Olds, News
  <2>2. Covers(<<>>, 0)
    BY <2>1 DEF Covers
  <2>3. QED BY <2>1, <2>2 DEF OpsStates
<1>4. \A i \in 1..N, st \in S : add(st, i) \in S
  BY <1>1, AddEditIs
<1>5. step \in [1..N -> [S -> S]]
  <2> HIDE DEF S, add
  <2> QED BY <1>4
<1>6. \A i \in 1..N, st \in S : step[i][st] = add(st, i)
  OBVIOUS
<1> HIDE DEF step, add, S, none
<1>7. \E f : Is(f)
  <2>1. PICK f : Iterates(f, N, none, step, S)
    BY <1>1, <1>3, <1>5, Iterated
  <2>2. f \in [0..N -> S] /\ f[0] = none /\ \A i \in 1..N : f[i] = step[i][f[i - 1]]
    BY <2>1 DEF Iterates
  <2>3. \A i \in 1..N : i - 1 \in 0..N
    BY <1>1
  <2>4. \A i \in 1..N : f[i] = add(f[i - 1], i)
    BY <1>6, <2>2, <2>3
  <2>5. Is(f)
    BY <1>1, <2>2, <2>4
  <2>6. QED BY <2>5
<1>8. Is(F)
  BY <1>7
<1> HIDE DEF F
<1>9. F[0] = none /\ \A i \in 1..N : F[i] = add(F[i - 1], i)
  <2>1. \A i \in 0..N : F[i] = IF i = 0 THEN none ELSE add(F[i - 1], i)
    BY <1>8
  <2>2. QED BY <1>1, <2>1
<1>10. \A i \in 0..N : F[i] \in S
  <2>1. Follows(F, N, none, step, S)
    BY <1>6, <1>9 DEF Follows
  <2>2. QED BY <1>1, <1>3, <1>5, <2>1, Looped
<1>11. PICK b, t \in [0..N -> Nat] :
          /\ b[0] = 0 /\ t[0] = 0 /\ b[N] = n /\ t[N] = m
          /\ \A i \in 1..N : /\ b[i] = b[i - 1] + (IF script[i] = "Insert" THEN 0 ELSE 1)
                             /\ t[i] = t[i - 1] + (IF script[i] = "Delete" THEN 0 ELSE 1)
  BY DEF Leads, N
<1>12. F[N].b = n /\ F[N].t = m
  <2> DEFINE P == {i \in 0..N : F[i].b = b[i] /\ F[i].t = t[i]}
  <2>1. 0 \in P
    BY <1>1, <1>9, <1>11 DEF none
  <2>2. ASSUME NEW i \in 1..N, i - 1 \in P PROVE i \in P
    <3>1. F[i - 1].b = b[i - 1] /\ F[i - 1].t = t[i - 1] /\ i \in 0..N
      BY <1>1, <2>2
    <3>2. /\ F[i].b = F[i - 1].b + (IF script[i] = "Insert" THEN 0 ELSE 1)
          /\ F[i].t = F[i - 1].t + (IF script[i] = "Delete" THEN 0 ELSE 1)
      <4>1. F[i] = AddEdit(F[i - 1], script[i])
        BY <1>9 DEF add
      <4>2. QED BY <4>1 DEF AddEdit
    <3>3. F[i].b = b[i] /\ F[i].t = t[i]
      BY <1>11, <3>1, <3>2
    <3>4. QED BY <3>1, <3>3
  <2> HIDE DEF P
  <2>3. \A i \in 0..N : i \in P
    BY <1>1, <2>1, <2>2, Counted
  <2>4. N \in P
    BY <1>1, <2>3
  <2>5. QED BY <1>11, <2>4 DEF P
<1>13. F[N] \in OpsStates
  BY <1>1, <1>10 DEF S
<1>14. QED BY <1>2, <1>12, <1>13 DEF OpsStates

\* So do the operations of a diff.
LEMMA MyersDiffIs ==
    ASSUME NEW old \in Seq(LineValues), NEW new \in Seq(LineValues)
    PROVE  /\ MyersDiff(old, new) \in Seq(DiffOps)
           /\ Covers(Olds(MyersDiff(old, new)), Len(old))
           /\ Covers(News(MyersDiff(old, new)), Len(new))
<1> DEFINE ops == MyersDiff(old, new)
<1>1. CASE old = <<>> /\ new = <<>>
  <2>1. ops = <<>> /\ Len(old) = 0 /\ Len(new) = 0
    BY <1>1 DEF MyersDiff
  <2>2. <<>> \in Seq(DiffOps) /\ Olds(<<>>) = <<>> /\ News(<<>>) = <<>> /\ DOMAIN <<>> = {}
    BY DEF Olds, News
  <2>3. Covers(<<>>, 0)
    BY <2>2 DEF Covers
  <2>4. QED BY <2>1, <2>2, <2>3
<1>2. CASE old = <<>> /\ new # <<>>
  <2> DEFINE r == <<0, Len(new)>>
  <2>1. r # <<>> /\ r \in Ranges /\ <<>> \in Ranges /\ Len(new) \in Nat \ {0} /\ Len(old) = 0
        /\ r[1] = 0 /\ r[2] = Len(new)
    BY <1>2 DEF Ranges
  <2>2. ops = <<[kind |-> "Insert", old |-> <<>>, new |-> r]>>
    BY <1>2 DEF MyersDiff, Op
  <2> HIDE DEF r
  <2>3. [kind |-> "Insert", old |-> <<>>, new |-> r] \in DiffOps
    BY <2>1 DEF DiffOps
  <2>4. Olds(ops) = << <<>> >> /\ News(ops) = <<r>>
    BY <2>2 DEF Olds, News
  <2>5. Covers(<< <<>> >>, 0) /\ Covers(<<r>>, Len(new))
    BY <2>1 DEF Covers, Lies
  <2>6. QED BY <2>1, <2>2, <2>3, <2>4, <2>5
<1>3. CASE old # <<>> /\ new = <<>>
  <2> DEFINE r == <<0, Len(old)>>
  <2>1. r # <<>> /\ r \in Ranges /\ <<>> \in Ranges /\ Len(old) \in Nat \ {0} /\ Len(new) = 0
        /\ r[1] = 0 /\ r[2] = Len(old)
    BY <1>3 DEF Ranges
  <2>2. ops = <<[kind |-> "Delete", old |-> r, new |-> <<>>]>>
    BY <1>3 DEF MyersDiff, Op
  <2> HIDE DEF r
  <2>3. [kind |-> "Delete", old |-> r, new |-> <<>>] \in DiffOps
    BY <2>1 DEF DiffOps
  <2>4. Olds(ops) = <<r>> /\ News(ops) = << <<>> >>
    BY <2>2 DEF Olds, News
  <2>5. Covers(<< <<>> >>, 0) /\ Covers(<<r>>, Len(old))
    BY <2>1 DEF Covers, Lies
  <2>6. QED BY <2>1, <2>2, <2>3, <2>4, <2>5
<1>4. CASE old # <<>> /\ new # <<>>
  <2>1. ops = ToDiffOps(EditScript(old, new))
    BY <1>4 DEF MyersDiff
  <2>2. EditScript(old, new) \in Seq(EditKinds)
        /\ Leads(EditScript(old, new), 0, 0, Len(old), Len(new))
    BY <1>4, EditScriptIs
  <2>3. Len(old) \in Nat /\ Len(new) \in Nat
    OBVIOUS
  <2>4. QED BY <2>1, <2>2, <2>3, ToDiffOpsIs
<1>5. QED BY <1>1, <1>2, <1>3, <1>4

-----------------------------------------------------------------------------
(* What is made of a diff agrees (apply_diff, format_unified_diff, to_edit_script) *)

\* The sums of the first numbers.
AreSums(L, size, n) ==
    L \in [0..n -> Nat] /\ L[0] = 0 /\ \A i \in 1..n : L[i] = L[i - 1] + size[i]

\* Numbers have sums.
LEMMA SumsExist ==
    ASSUME NEW n \in Nat, NEW size \in [1..n -> Nat]
    PROVE  \E L : AreSums(L, size, n)
<1> DEFINE step == [i \in 1..n |-> [s \in Nat |-> s + size[i]]]
<1>1. step \in [1..n -> [Nat -> Nat]]
  OBVIOUS
<1>2. \A i \in 1..n, s \in Nat : step[i][s] = s + size[i]
  OBVIOUS
<1> HIDE DEF step
<1>3. PICK f : Iterates(f, n, 0, step, Nat)
  BY <1>1, Iterated
<1>4. f \in [0..n -> Nat] /\ f[0] = 0 /\ \A i \in 1..n : f[i] = step[i][f[i - 1]]
  BY <1>3 DEF Iterates
<1>5. \A i \in 1..n : f[i - 1] \in Nat
  BY <1>4
<1>6. \A i \in 1..n : f[i] = f[i - 1] + size[i]
  BY <1>2, <1>4, <1>5
<1>7. AreSums(f, size, n)
  BY <1>4, <1>6 DEF AreSums
<1>8. QED BY <1>7

\* The sums of numbers that are sums of two.
LEMMA SumsAdd ==
    ASSUME NEW n \in Nat, NEW s, NEW t, NEW u, NEW S, NEW T, NEW U,
           AreSums(S, s, n), AreSums(T, t, n), AreSums(U, u, n),
           \A i \in 1..n : s[i] \in Nat /\ t[i] \in Nat /\ u[i] = s[i] + t[i]
    PROVE  U[n] = S[n] + T[n]
<1> DEFINE P == {i \in 0..n : U[i] = S[i] + T[i]}
<1>1. 0 \in P
  BY DEF AreSums
<1>2. ASSUME NEW i \in 1..n, i - 1 \in P PROVE i \in P
  <2>1. S[i - 1] \in Nat /\ T[i - 1] \in Nat /\ i \in 0..n
    BY DEF AreSums
  <2>2. U[i - 1] = S[i - 1] + T[i - 1]
    BY <1>2
  <2>3. S[i] = S[i - 1] + s[i] /\ T[i] = T[i - 1] + t[i] /\ U[i] = U[i - 1] + u[i]
    BY DEF AreSums
  <2>4. U[i] = S[i] + T[i]
    BY <2>1, <2>2, <2>3
  <2>5. QED BY <2>1, <2>4
<1> HIDE DEF P
<1>3. \A i \in 0..n : i \in P
  BY <1>1, <1>2, Counted
<1>4. QED BY <1>3 DEF P

\* Texts put together have the lines of all.
LEMMA FlattenIs ==
    ASSUME NEW X, NEW parts \in Seq(Seq(X)), NEW L, NEW size,
           \A i \in 1..Len(parts) : size[i] = Len(parts[i]),
           AreSums(L, size, Len(parts))
    PROVE  FlattenSeq(parts) \in Seq(X) /\ Len(FlattenSeq(parts)) = L[Len(parts)]
<1> DEFINE n == Len(parts)
           Is(f) == f = [i \in 1..n |-> IF i = 1 THEN parts[i] ELSE f[i - 1] \o parts[i]]
           F == CHOOSE f : Is(f)
           step == [i \in 1..n |-> [s \in Seq(X) |-> s \o parts[i]]]
<1>1. n \in Nat /\ \A i \in 1..n : parts[i] \in Seq(X) /\ size[i] = Len(parts[i])
  OBVIOUS
<1>2. CASE n = 0
  <2>1. FlattenSeq(parts) = parts /\ parts = <<>>
    BY <1>2 DEF FlattenSeq
  <2>2. L[n] = 0
    BY <1>2 DEF AreSums
  <2>3. QED BY <1>2, <2>1, <2>2
<1>3. CASE n # 0
  <2>1. FlattenSeq(parts) = F[n]
    BY <1>3 DEF FlattenSeq
  <2>2. AreSums(L, size, n)
    OBVIOUS
  <2> HIDE DEF n
  <2>3. step \in [1..n -> [Seq(X) -> Seq(X)]]
    BY <1>1
  <2>4. \A i \in 1..n, s \in Seq(X) : step[i][s] = s \o parts[i]
    OBVIOUS
  <2>5. <<>> \in Seq(X) /\ \A s \in Seq(X) : <<>> \o s = s
    OBVIOUS
  <2> HIDE DEF step
  <2>6. \E f : Is(f)
    <3>1. PICK g : Iterates(g, n, <<>>, step, Seq(X))
      BY <1>1, <2>3, <2>5, Iterated
    <3>2. g \in [0..n -> Seq(X)] /\ g[0] = <<>> /\ \A i \in 1..n : g[i] = step[i][g[i - 1]]
      BY <3>1 DEF Iterates
    <3>3. \A i \in 1..n : i - 1 \in 0..n /\ g[i - 1] \in Seq(X)
      BY <1>1, <3>2
    <3>4. \A i \in 1..n : g[i] = g[i - 1] \o parts[i]
      BY <2>4, <3>2, <3>3
    <3>5. \A i \in 1..n : g[i] = IF i = 1 THEN parts[i] ELSE g[i - 1] \o parts[i]
      <4>1. \A i \in 1..n : i = 1 => g[i - 1] = <<>>
        BY <3>2
      <4>2. \A i \in 1..n : i = 1 => g[i] = parts[i]
        BY <1>1, <2>5, <3>4, <4>1
      <4>3. QED BY <3>4, <4>2
    <3> DEFINE f == [i \in 1..n |-> g[i]]
    <3>6. \A i \in 1..n : f[i] = g[i] /\ (i # 1 => f[i - 1] = g[i - 1])
      BY <1>1
    <3>7. f = [i \in 1..n |-> f[i]]
      OBVIOUS
    <3> HIDE DEF f
    <3>9. \A i \in 1..n : f[i] = IF i = 1 THEN parts[i] ELSE f[i - 1] \o parts[i]
      BY <3>5, <3>6
    <3>10. Is(f)
      BY <3>7, <3>9
    <3>8. QED BY <3>10
  <2>7. Is(F)
    BY <2>6
  <2> HIDE DEF F
  <2>8. F[1] = parts[1] /\ \A i \in 1..n : i # 1 => F[i] = F[i - 1] \o parts[i]
    <3>1. \A i \in 1..n : F[i] = IF i = 1 THEN parts[i] ELSE F[i - 1] \o parts[i]
      BY <2>7
    <3>2. 1 \in 1..n
      BY <1>1, <1>3
    <3>3. QED BY <3>1, <3>2
  <2> DEFINE P == {i \in 0..n : i # 0 => F[i] \in Seq(X) /\ Len(F[i]) = L[i]}
  <2>9. 0 \in P
    BY <1>1
  <2>10. ASSUME NEW i \in 1..n, i - 1 \in P PROVE i \in P
    <3>1. i \in 0..n /\ parts[i] \in Seq(X) /\ L[i - 1] \in Nat /\ L[i] = L[i - 1] + Len(parts[i])
      BY <1>1, <2>2 DEF AreSums
    <3>2. CASE i = 1
      <4>1. L[i - 1] = 0 /\ F[i] = parts[i]
        BY <2>2, <2>8, <3>2 DEF AreSums
      <4>2. F[i] \in Seq(X) /\ Len(F[i]) = L[i]
        <5>1. L[i] = 0 + Len(parts[i]) /\ Len(parts[i]) \in Nat
          BY <3>1, <4>1
        <5>2. L[i] = Len(parts[i])
          BY <5>1
        <5>3. QED BY <3>1, <4>1, <5>2
      <4>3. QED BY <3>1, <4>2
    <3>3. CASE i # 1
      <4>1. F[i - 1] \in Seq(X) /\ Len(F[i - 1]) = L[i - 1]
        BY <2>10, <3>3
      <4>2. F[i] = F[i - 1] \o parts[i]
        BY <2>8, <3>3
      <4>3. F[i] \in Seq(X) /\ Len(F[i]) = L[i]
        <5>1. \A s, t \in Seq(X) : s \o t \in Seq(X) /\ Len(s \o t) = Len(s) + Len(t)
          OBVIOUS
        <5>2. /\ F[i - 1] \o parts[i] \in Seq(X)
              /\ Len(F[i - 1] \o parts[i]) = Len(F[i - 1]) + Len(parts[i])
          BY <3>1, <4>1, <5>1
        <5>3. QED BY <3>1, <4>1, <4>2, <5>2
      <4>4. QED BY <3>1, <4>3
    <3>4. QED BY <3>2, <3>3
  <2> HIDE DEF P
  <2>11. \A i \in 0..n : i \in P
    BY <1>1, <2>9, <2>10, Counted
  <2>12. F[n] \in Seq(X) /\ Len(F[n]) = L[n]
    BY <1>1, <1>3, <2>11 DEF P
  <2>13. QED BY <2>1, <2>12 DEF n
<1>4. QED BY <1>2, <1>3

\* How many lines a range names.
Size(range) == IF range = <<>> THEN 0 ELSE range[2] - range[1]

\* Ranges that cover lines have as many.
LEMMA CoverSize ==
    ASSUME NEW rs \in Seq(Ranges), NEW n \in Nat, Covers(rs, n), NEW L, NEW size,
           \A i \in 1..Len(rs) : size[i] = Size(rs[i]),
           AreSums(L, size, Len(rs))
    PROVE  L[Len(rs)] = n
<1> DEFINE N == Len(rs)
           To(i) == /\ L[i] <= n
                    /\ \A line \in 0..(n - 1) : (\E j \in 1..i : Lies(line, rs[j])) <=> line < L[i]
           P == {i \in 0..N : To(i)}
<1>1. N \in Nat /\ DOMAIN rs = 1..N /\ \A i \in 1..N : size[i] = Size(rs[i])
  OBVIOUS
<1>2. L \in [0..N -> Nat] /\ L[0] = 0 /\ \A i \in 1..N : L[i] = L[i - 1] + size[i]
  BY DEF AreSums
<1>3. \A i \in 1..N : rs[i] # <<>> => /\ rs[i][1] \in Nat /\ rs[i][2] \in Nat
                                      /\ rs[i][1] < rs[i][2] /\ rs[i][2] <= n
  <2>1. \A i \in 1..N : rs[i] \in Ranges
    OBVIOUS
  <2> HIDE DEF N
  <2>2. QED BY <1>1, <2>1 DEF Covers, Ranges
<1>4. /\ \A i, j \in 1..N : i < j /\ rs[i] # <<>> /\ rs[j] # <<>> => rs[i][2] <= rs[j][1]
      /\ \A line \in 0..(n - 1) : \E i \in 1..N : Lies(line, rs[i])
  BY <1>1 DEF Covers
<1> HIDE DEF N
<1>5. 0 \in P
  <2>1. ASSUME NEW line \in 0..(n - 1)
        PROVE  (\E j \in 1..0 : Lies(line, rs[j])) <=> line < L[0]
    BY <1>2
  <2>2. QED BY <1>1, <1>2, <2>1
<1>6. ASSUME NEW i \in 1..N, To(i - 1) PROVE To(i)
  <2>1. i - 1 \in 0..N /\ L[i - 1] \in Nat /\ L[i] \in Nat /\ L[i] = L[i - 1] + size[i] /\ L[i - 1] <= n
    BY <1>1, <1>2, <1>6
  <2>2. \A j \in 1..i : j = i \/ j \in 1..(i - 1)
    BY <1>1
  <2>3. \A j \in 1..(i - 1) : j \in 1..i /\ j \in 1..N /\ j < i
    BY <1>1
  <2>4. CASE rs[i] = <<>>
    <3>1. L[i] = L[i - 1]
      BY <1>1, <2>1, <2>4 DEF Size
    <3>2. ASSUME NEW line \in 0..(n - 1)
          PROVE  (\E j \in 1..i : Lies(line, rs[j])) <=> line < L[i]
      <4>1. (\E j \in 1..i : Lies(line, rs[j])) <=> (\E j \in 1..(i - 1) : Lies(line, rs[j]))
        BY <2>2, <2>3, <2>4 DEF Lies
      <4>2. QED BY <1>6, <3>1, <4>1
    <3>3. QED BY <2>1, <3>1, <3>2
  <2>5. CASE rs[i] # <<>>
    <3> DEFINE a == rs[i][1]
               b == rs[i][2]
    <3>1. a \in Nat /\ b \in Nat /\ a < b /\ b <= n /\ L[i] = L[i - 1] + (b - a)
      BY <1>1, <1>3, <2>1, <2>5 DEF Size
    <3>2. ~(L[i - 1] < a)
      <4>1. SUFFICES ASSUME L[i - 1] < a PROVE FALSE
        OBVIOUS
      <4>2. L[i - 1] \in 0..(n - 1) /\ ~(L[i - 1] < L[i - 1])
        BY <2>1, <3>1, <4>1
      <4>3. PICK j \in 1..N : Lies(L[i - 1], rs[j])
        BY <1>4, <4>2
      <4>4. j \notin 1..(i - 1)
        BY <1>6, <4>2, <4>3
      <4>5. j # i
        BY <2>1, <3>1, <4>1, <4>3 DEF Lies
      <4>6. i < j
        BY <4>4, <4>5
      <4>7. b <= rs[j][1] /\ rs[j][1] \in Nat /\ rs[j][1] <= L[i - 1]
        BY <1>3, <1>4, <2>5, <4>3, <4>6 DEF Lies
      <4>9. a \in Nat /\ b \in Nat /\ a < b /\ L[i - 1] \in Nat
        BY <3>1, <4>2
      <4>8. QED BY <4>1, <4>7, <4>9
    <3>3. ~(a < L[i - 1])
      <4>1. SUFFICES ASSUME a < L[i - 1] PROVE FALSE
        OBVIOUS
      <4>2. a \in 0..(n - 1)
        BY <3>1
      <4>3. PICK j \in 1..(i - 1) : Lies(a, rs[j])
        BY <1>6, <4>1, <4>2
      <4>4. a < rs[j][2] /\ rs[j][2] <= a /\ rs[j][2] \in Nat
        BY <1>3, <1>4, <2>3, <2>5, <4>3 DEF Lies
      <4>5. QED BY <3>1, <4>4
    <3>4. L[i - 1] = a /\ L[i] = b
      BY <2>1, <3>1, <3>2, <3>3
    <3>5. ASSUME NEW line \in 0..(n - 1)
          PROVE  (\E j \in 1..i : Lies(line, rs[j])) <=> line < L[i]
      <4>1. Lies(line, rs[i]) <=> a <= line /\ line < b
        BY <2>5 DEF Lies
      <4>2. (\E j \in 1..(i - 1) : Lies(line, rs[j])) <=> line < a
        BY <1>6, <3>4
      <4>3. i \in 1..i
        BY <1>1
      <4>4. (\E j \in 1..i : Lies(line, rs[j])) <=> (a <= line /\ line < b) \/ line < a
        <5> HIDE DEF a, b
        <5> QED BY <2>2, <2>3, <4>1, <4>2, <4>3
      <4>5. QED BY <3>1, <3>4, <4>4
    <3>6. QED BY <3>1, <3>4, <3>5
  <2>6. QED BY <2>4, <2>5
<1>7. \A i \in 0..N : i \in P
  <2>1. \A i \in 1..N : i - 1 \in P => i \in P
    <3> HIDE DEF To
    <3>1. \A i \in 1..N : i \in 0..N /\ i - 1 \in 0..N
      BY <1>1
    <3>2. QED BY <1>6, <3>1
  <2> HIDE DEF P
  <2>2. QED BY <1>1, <1>5, <2>1, Counted
<1>8. To(N)
  BY <1>1, <1>7
<1>9. L[N] \in Nat /\ L[N] <= n
  BY <1>1, <1>2, <1>8
<1>10. ~(L[N] < n)
  <2>1. SUFFICES ASSUME L[N] < n PROVE FALSE
    OBVIOUS
  <2>2. L[N] \in 0..(n - 1) /\ ~(L[N] < L[N])
    BY <1>9, <2>1
  <2>3. \E j \in 1..N : Lies(L[N], rs[j])
    BY <1>4, <2>2
  <2>4. QED BY <1>8, <2>2, <2>3
<1>11. QED BY <1>9, <1>10 DEF N

\* The lines of a range that lies in a text.
LEMMA LinesIs ==
    ASSUME NEW X, NEW text \in Seq(X), NEW r \in Nat \X Nat, r[1] <= r[2], r[2] <= Len(text)
    PROVE  Lines(text, r) \in Seq(X) /\ Len(Lines(text, r)) = r[2] - r[1]
<1>1. MinOf(r[2], Len(text)) = r[2]
  BY DEF MinOf
<1>2. Lines(text, r) = SubSeq(text, r[1] + 1, r[2])
  BY <1>1 DEF Lines
<1>3. r[1] \in Nat /\ r[2] \in Nat
  OBVIOUS
<1>4. \A i, j \in Nat : i <= j /\ j <= Len(text) =>
         SubSeq(text, i + 1, j) \in Seq(X) /\ Len(SubSeq(text, i + 1, j)) = j - i
  OBVIOUS
<1>5. QED BY <1>2, <1>3, <1>4

\* How often an edit is in a script after it is added k times.
LEMMA CountRepeat ==
    ASSUME NEW s \in Seq(EditKinds), NEW op \in EditKinds, NEW k \in Int, NEW edit \in EditKinds
    PROVE  /\ s \o Repeat(op, k) \in Seq(EditKinds)
           /\ IsFiniteSet({i \in DOMAIN s : s[i] = edit}) /\ Count(s, edit) \in Nat
           /\ Count(s \o Repeat(op, k), edit) =
                 Count(s, edit) + (IF op = edit /\ k >= 0 THEN k ELSE 0)
<1> DEFINE n == Len(s)
           m == IF k >= 0 THEN k ELSE 0
           r == s \o Repeat(op, k)
           A == {i \in DOMAIN s : s[i] = edit}
           B == IF op = edit THEN (n + 1)..(n + m) ELSE {}
           C == {i \in DOMAIN r : r[i] = edit}
<1>1. n \in Nat /\ m \in Nat /\ DOMAIN s = 1..n
  OBVIOUS
<1>2. Repeat(op, k) \in Seq(EditKinds) /\ Len(Repeat(op, k)) = m
      /\ \A i \in 1..m : Repeat(op, k)[i] = op
  <2>1. 1..k = 1..m
    OBVIOUS
  <2>2. Repeat(op, k) = [i \in 1..m |-> op]
    BY <2>1 DEF Repeat
  <2> HIDE DEF m
  <2>3. QED BY <1>1, <2>2
<1> HIDE DEF m
<1>3. /\ r \in Seq(EditKinds) /\ DOMAIN r = 1..(n + m)
      /\ \A i \in 1..n : r[i] = s[i]
      /\ \A i \in (n + 1)..(n + m) : r[i] = op
  <2>1. \A p, q \in Seq(EditKinds) :
           /\ p \o q \in Seq(EditKinds) /\ DOMAIN (p \o q) = 1..(Len(p) + Len(q))
           /\ \A i \in 1..Len(p) : (p \o q)[i] = p[i]
           /\ \A i \in (Len(p) + 1)..(Len(p) + Len(q)) : (p \o q)[i] = q[i - Len(p)]
    OBVIOUS
  <2>2. \A i \in (n + 1)..(n + m) : i - n \in 1..m
    BY <1>1
  <2>3. \A i \in (n + 1)..(n + m) : r[i] = Repeat(op, k)[i - n]
    BY <1>2, <2>1
  <2>4. QED BY <1>2, <2>1, <2>2, <2>3
<1> HIDE DEF n, r
<1>4. C = A \cup B
  <2>1. \A i : i \in 1..(n + m) <=> i \in 1..n \/ i \in (n + 1)..(n + m)
    BY <1>1
  <2>2. \A i \in C : i \in A \cup B
    BY <1>1, <1>3, <2>1
  <2>3. \A i \in A : i \in C
    BY <1>1, <1>3, <2>1
  <2>4. \A i \in B : i \in C
    BY <1>1, <1>3, <2>1
  <2> HIDE DEF A, B, C
  <2>5. QED BY <2>2, <2>3, <2>4
<1>5. A \cap B = {}
  <2>1. \A i \in 1..n : i \notin (n + 1)..(n + m)
    BY <1>1
  <2>2. \A i \in A : i \notin B
    BY <1>1, <2>1
  <2>3. QED BY <2>2
<1>6. IsFiniteSet(B) /\ Cardinality(B) = IF op = edit THEN m ELSE 0
  <2>1. n + 1 \in Int /\ n + m \in Int
    BY <1>1
  <2>2. IsFiniteSet((n + 1)..(n + m)) /\ Cardinality((n + 1)..(n + m)) = m
    <3> DEFINE p == n + 1
               q == n + m
    <3>1. p \in Int /\ q \in Int
      BY <2>1
    <3>2. (IF p > q THEN 0 ELSE q - p + 1) = m
      BY <1>1
    <3> HIDE DEF p, q
    <3>3. IsFiniteSet(p..q) /\ Cardinality(p..q) = IF p > q THEN 0 ELSE q - p + 1
      BY <3>1, FS_Interval
    <3>4. QED BY <3>2, <3>3 DEF p, q
  <2>3. IsFiniteSet({}) /\ Cardinality({}) = 0
    BY FS_EmptySet
  <2>4. CASE op = edit
    BY <2>2, <2>4
  <2>5. CASE op # edit
    BY <2>3, <2>5
  <2>6. QED BY <2>4, <2>5
<1>7. IsFiniteSet(A) /\ Cardinality(A) \in Nat
  <2>1. A \subseteq 1..n
    BY <1>1
  <2>2. IsFiniteSet(1..n)
    BY <1>1, FS_Interval
  <2>3. IsFiniteSet(A)
    BY <2>1, <2>2, FS_Subset
  <2>4. QED BY <2>3, FS_CardinalityType
<1>8. Cardinality(C) = Cardinality(A) + Cardinality(B)
  <2>1. Cardinality(A \cup B) = Cardinality(A) + Cardinality(B) - Cardinality(A \cap B)
    BY <1>6, <1>7, FS_Union
  <2>2. Cardinality({}) = 0
    BY FS_EmptySet
  <2> HIDE DEF A, B, C
  <2>3. Cardinality(B) \in Nat
    BY <1>6, FS_CardinalityType
  <2>4. Cardinality(A \cup B) = Cardinality(C) /\ Cardinality(A \cap B) = 0
    BY <1>4, <1>5, <2>2
  <2>5. Cardinality(C) = Cardinality(A) + Cardinality(B) - 0
    BY <2>1, <2>4
  <2>6. \A i, j \in Nat : i + j - 0 = i + j
    OBVIOUS
  <2>7. QED BY <1>7, <2>3, <2>5, <2>6
<1>9. Count(s, edit) = Cardinality(A) /\ Count(r, edit) = Cardinality(C)
  BY DEF Count
<1> HIDE DEF A, B, C
<1>10. QED
  <2>1. m = IF k >= 0 THEN k ELSE 0
    BY DEF m
  <2>2. (IF op = edit THEN m ELSE 0) = (IF op = edit /\ k >= 0 THEN k ELSE 0)
    BY <2>1
  <2>3. Count(r, edit) = Count(s, edit) + (IF op = edit /\ k >= 0 THEN k ELSE 0)
    BY <1>6, <1>8, <1>9, <2>2
  <2>4. QED BY <1>3, <1>7, <1>9, <2>3 DEF A, r

\* The lines of an operation of a covering diff.
LEMMA OpLines ==
    ASSUME NEW X, NEW old \in Seq(X), NEW new \in Seq(X), NEW ops \in Seq(DiffOps),
           Covers(Olds(ops), Len(old)), Covers(News(ops), Len(new)), NEW i \in 1..Len(ops)
    PROVE  /\ Old(ops[i], old) \in Seq(X) /\ Len(Old(ops[i], old)) = Size(ops[i].old)
           /\ New(ops[i], new) \in Seq(X) /\ Len(New(ops[i], new)) = Size(ops[i].new)
           /\ Size(ops[i].old) \in Nat /\ Size(ops[i].new) \in Nat
           /\ ops[i].kind = "Equal" => Size(ops[i].old) = Size(ops[i].new)
           /\ ops[i].kind \in {"Equal", "Delete", "Insert", "Replace"}
<1>1. /\ Olds(ops)[i] = ops[i].old /\ News(ops)[i] = ops[i].new /\ ops[i] \in DiffOps
      /\ i \in DOMAIN Olds(ops) /\ i \in DOMAIN News(ops)
  <2>1. DOMAIN ops = 1..Len(ops)
    OBVIOUS
  <2>2. QED BY <2>1, SidesAre DEF Olds, News
<1>2. /\ ops[i].old \in Ranges /\ ops[i].new \in Ranges
      /\ ops[i].old # <<>> => /\ ops[i].old[1] < ops[i].old[2] /\ ops[i].old[2] <= Len(old)
      /\ ops[i].new # <<>> => /\ ops[i].new[1] < ops[i].new[2] /\ ops[i].new[2] <= Len(new)
  BY <1>1 DEF Covers, DiffOps
<1>3. <<>> \in Seq(X) /\ Len(<<>>) = 0
  OBVIOUS
<1>4. Old(ops[i], old) \in Seq(X) /\ Len(Old(ops[i], old)) = Size(ops[i].old)
      /\ Size(ops[i].old) \in Nat
  <2>1. CASE ops[i].old = <<>>
    BY <1>3, <2>1 DEF Old, Size
  <2>2. CASE ops[i].old # <<>>
    <3> DEFINE r == ops[i].old
    <3>1. r \in Nat \X Nat /\ r[1] \in Nat /\ r[2] \in Nat /\ r[1] < r[2] /\ r[2] <= Len(old)
      BY <1>2, <2>2 DEF Ranges
    <3>2. Old(ops[i], old) = Lines(old, r) /\ Size(r) = r[2] - r[1]
      BY <2>2 DEF Old, Size
    <3> HIDE DEF r
    <3>3. Lines(old, r) \in Seq(X) /\ Len(Lines(old, r)) = r[2] - r[1]
      BY <3>1, LinesIs
    <3>4. r[2] - r[1] \in Nat
      BY <3>1
    <3>5. QED BY <3>2, <3>3, <3>4 DEF r
  <2>3. QED BY <2>1, <2>2
<1>5. New(ops[i], new) \in Seq(X) /\ Len(New(ops[i], new)) = Size(ops[i].new)
      /\ Size(ops[i].new) \in Nat
  <2>1. CASE ops[i].new = <<>>
    BY <1>3, <2>1 DEF New, Size
  <2>2. CASE ops[i].new # <<>>
    <3> DEFINE r == ops[i].new
    <3>1. r \in Nat \X Nat /\ r[1] \in Nat /\ r[2] \in Nat /\ r[1] < r[2] /\ r[2] <= Len(new)
      BY <1>2, <2>2 DEF Ranges
    <3>2. New(ops[i], new) = Lines(new, r) /\ Size(r) = r[2] - r[1]
      BY <2>2 DEF New, Size
    <3> HIDE DEF r
    <3>3. Lines(new, r) \in Seq(X) /\ Len(Lines(new, r)) = r[2] - r[1]
      BY <3>1, LinesIs
    <3>4. r[2] - r[1] \in Nat
      BY <3>1
    <3>5. QED BY <3>2, <3>3, <3>4 DEF r
  <2>3. QED BY <2>1, <2>2
<1>6. ops[i].kind = "Equal" => Size(ops[i].old) = Size(ops[i].new)
  BY <1>1 DEF DiffOps, Size
<1>7. QED BY <1>1, <1>4, <1>5, <1>6 DEF DiffOps

\* An edit script has a deletion for each removed line and an insertion for each
\* added one.
LEMMA EditsCounted ==
    ASSUME NEW X, NEW old \in Seq(X), NEW new \in Seq(X), NEW ops \in Seq(DiffOps),
           Covers(Olds(ops), Len(old)), Covers(News(ops), Len(new)),
           NEW r, NEW a, NEW R, NEW A, AreSums(R, r, Len(ops)), AreSums(A, a, Len(ops)),
           \A i \in 1..Len(ops) : /\ r[i] = IF ops[i].kind = "Equal" THEN 0 ELSE Size(ops[i].old)
                                  /\ a[i] = IF ops[i].kind = "Equal" THEN 0 ELSE Size(ops[i].new)
    PROVE  /\ Count(ToEditScript(old, new, ops), "Delete") = R[Len(ops)]
           /\ Count(ToEditScript(old, new, ops), "Insert") = A[Len(ops)]
<1> DEFINE N == Len(ops)
           add(made, i) ==
             IF ops[i].kind = "Equal"
             THEN made \o Repeat("Keep", MinOf(ops[i].old[2] - ops[i].old[1],
                                                Len(old) - Len(made)))
             ELSE made \o Repeat("Delete", Len(Old(ops[i], old)))
                        \o Repeat("Insert", Len(New(ops[i], new)))
           S == Seq(EditKinds)
           step == [i \in 1..N |-> [s \in S |-> add(s, i)]]
           Is(f) == f = [i \in 0..N |-> IF i = 0 THEN <<>> ELSE add(f[i - 1], i)]
           F == CHOOSE f : Is(f)
<1>1. N \in Nat
  OBVIOUS
<1>2. ToEditScript(old, new, ops) = F[N]
  BY DEF ToEditScript, Loop
<1>3. \A i \in 1..N : /\ Len(Old(ops[i], old)) = Size(ops[i].old)
                      /\ Len(New(ops[i], new)) = Size(ops[i].new)
                      /\ Size(ops[i].old) \in Nat /\ Size(ops[i].new) \in Nat
  BY OpLines
<1>4. /\ R[0] = 0 /\ A[0] = 0
      /\ \A i \in 1..N :
            /\ R[i] = R[i - 1] + (IF ops[i].kind = "Equal" THEN 0 ELSE Size(ops[i].old))
            /\ A[i] = A[i - 1] + (IF ops[i].kind = "Equal" THEN 0 ELSE Size(ops[i].new))
  BY DEF AreSums
<1>5. \A i \in 1..N : ops[i].kind = "Equal" => ops[i].old[2] - ops[i].old[1] \in Int
  <2>1. \A i \in 1..N : ops[i] \in DiffOps
    OBVIOUS
  <2>2. QED BY <2>1 DEF DiffOps, Ranges
<1> HIDE DEF N
<1>6. ASSUME NEW i \in 1..N, NEW s \in S
      PROVE  /\ add(s, i) \in S
             /\ Count(add(s, i), "Delete") =
                   Count(s, "Delete") + (IF ops[i].kind = "Equal" THEN 0 ELSE Size(ops[i].old))
             /\ Count(add(s, i), "Insert") =
                   Count(s, "Insert") + (IF ops[i].kind = "Equal" THEN 0 ELSE Size(ops[i].new))
  <2>1. {"Keep", "Delete", "Insert"} \subseteq EditKinds
    BY DEF EditKinds
  <2>2. CASE ops[i].kind = "Equal"
    <3> DEFINE k == MinOf(ops[i].old[2] - ops[i].old[1], Len(old) - Len(s))
    <3>1. k \in Int
      BY <1>5, <2>2 DEF MinOf
    <3>2. add(s, i) = s \o Repeat("Keep", k)
      BY <2>2
    <3> HIDE DEF k
    <3>3. /\ s \o Repeat("Keep", k) \in S
          /\ \A edit \in EditKinds :
                /\ Count(s, edit) \in Nat
                /\ Count(s \o Repeat("Keep", k), edit) =
                      Count(s, edit) + (IF "Keep" = edit /\ k >= 0 THEN k ELSE 0)
      BY <2>1, <3>1, CountRepeat
    <3> HIDE DEF add, S
    <3>4. /\ Count(s \o Repeat("Keep", k), "Delete") = Count(s, "Delete") + 0
          /\ Count(s \o Repeat("Keep", k), "Insert") = Count(s, "Insert") + 0
      BY <2>1, <3>3
    <3>5. QED BY <2>2, <3>2, <3>3, <3>4
  <2>3. CASE ops[i].kind # "Equal"
    <3> DEFINE k == Size(ops[i].old)
               l == Size(ops[i].new)
               t == s \o Repeat("Delete", k)
    <3>1. k \in Nat /\ l \in Nat /\ k \in Int /\ l \in Int /\ k >= 0 /\ l >= 0
      BY <1>3
    <3>2. add(s, i) = t \o Repeat("Insert", l)
      BY <1>3, <2>3
    <3> HIDE DEF k, l
    <3>9. "Delete" \in EditKinds /\ "Insert" \in EditKinds /\ s \in Seq(EditKinds)
      BY <2>1
    <3>3. /\ t \in S
          /\ \A edit \in EditKinds :
                /\ Count(s, edit) \in Nat
                /\ Count(t, edit) =
                      Count(s, edit) + (IF "Delete" = edit /\ k >= 0 THEN k ELSE 0)
      BY <3>1, <3>9, CountRepeat
    <3> HIDE DEF t
    <3>4. /\ t \o Repeat("Insert", l) \in S
          /\ \A edit \in EditKinds :
                /\ Count(t \o Repeat("Insert", l), edit) =
                      Count(t, edit) + (IF "Insert" = edit /\ l >= 0 THEN l ELSE 0)
      <4>1. t \in Seq(EditKinds)
        BY <3>3
      <4>2. t \o Repeat("Insert", l) \in S
        BY <3>1, <3>9, <4>1, CountRepeat
      <4>3. ASSUME NEW edit \in EditKinds
            PROVE  Count(t \o Repeat("Insert", l), edit) =
                      Count(t, edit) + (IF "Insert" = edit /\ l >= 0 THEN l ELSE 0)
        <5>1. l \in Int /\ "Insert" \in EditKinds
          BY <3>1, <3>9
        <5>2. QED BY <4>1, <5>1, CountRepeat
      <4>4. QED BY <4>2, <4>3
    <3> HIDE DEF add, S
    <3>5. /\ Count(t, "Delete") = Count(s, "Delete") + k
          /\ Count(t, "Insert") = Count(s, "Insert") + 0
          /\ Count(s, "Insert") \in Nat /\ Count(s, "Delete") \in Nat
      BY <2>1, <3>1, <3>3
    <3>6. /\ Count(t \o Repeat("Insert", l), "Delete") = Count(t, "Delete") + 0
          /\ Count(t \o Repeat("Insert", l), "Insert") = Count(t, "Insert") + l
      BY <2>1, <3>1, <3>4
    <3>7. /\ Count(t \o Repeat("Insert", l), "Delete") = Count(s, "Delete") + k
          /\ Count(t \o Repeat("Insert", l), "Insert") = Count(s, "Insert") + l
      BY <3>1, <3>5, <3>6
    <3>8. QED BY <2>3, <3>2, <3>4, <3>7 DEF k, l
  <2>4. QED BY <2>2, <2>3
<1>7. step \in [1..N -> [S -> S]]
  <2> HIDE DEF S, add
  <2> QED BY <1>6
<1>8. \A i \in 1..N, s \in S : step[i][s] = add(s, i)
  OBVIOUS
<1>9. <<>> \in S
  OBVIOUS
<1>15. Count(<<>>, "Delete") = 0 /\ Count(<<>>, "Insert") = 0
  <2>1. \A edit : {i \in DOMAIN <<>> : <<>>[i] = edit} = {}
    OBVIOUS
  <2>2. Cardinality({}) = 0
    BY FS_EmptySet
  <2>3. QED BY <2>1, <2>2 DEF Count
<1> HIDE DEF step, add, S
<1>10. \E f : Is(f)
  <2>1. PICK f : Iterates(f, N, <<>>, step, S)
    BY <1>1, <1>7, <1>9, Iterated
  <2>2. f \in [0..N -> S] /\ f[0] = <<>> /\ \A i \in 1..N : f[i] = step[i][f[i - 1]]
    BY <2>1 DEF Iterates
  <2>3. \A i \in 1..N : i - 1 \in 0..N
    BY <1>1
  <2>4. \A i \in 1..N : f[i] = add(f[i - 1], i)
    BY <1>8, <2>2, <2>3
  <2>5. Is(f)
    BY <1>1, <2>2, <2>4
  <2>6. QED BY <2>5
<1>11. Is(F)
  BY <1>10
<1> HIDE DEF F
<1>12. F[0] = <<>> /\ \A i \in 1..N : F[i] = add(F[i - 1], i)
  <2>1. \A i \in 0..N : F[i] = IF i = 0 THEN <<>> ELSE add(F[i - 1], i)
    BY <1>11
  <2>2. QED BY <1>1, <2>1
<1>13. \A i \in 0..N : F[i] \in S
  <2>1. Follows(F, N, <<>>, step, S)
    BY <1>8, <1>12 DEF Follows
  <2>2. QED BY <1>1, <1>7, <1>9, <2>1, Looped
<1> DEFINE P == {i \in 0..N : Count(F[i], "Delete") = R[i] /\ Count(F[i], "Insert") = A[i]}
<1>14. \A i \in 0..N : i \in P
  <2>1. 0 \in P
    BY <1>1, <1>4, <1>12, <1>15
  <2>2. ASSUME NEW i \in 1..N, i - 1 \in P PROVE i \in P
    <3>1. F[i - 1] \in S /\ F[i] = add(F[i - 1], i) /\ i \in 0..N
      BY <1>1, <1>12, <1>13
    <3>2. Count(F[i], "Delete") = R[i] /\ Count(F[i], "Insert") = A[i]
      BY <1>4, <1>6, <2>2, <3>1
    <3>3. QED BY <3>1, <3>2
  <2> HIDE DEF P
  <2>3. QED BY <1>1, <2>1, <2>2, Counted
<1>16. QED BY <1>1, <1>2, <1>14 DEF N

\* What is made of operations that name all lines of both texts agrees.
LEMMA AgreeIs ==
    ASSUME NEW X, NEW old \in Seq(X), NEW new \in Seq(X), NEW ops \in Seq(DiffOps),
           Covers(Olds(ops), Len(old)), Covers(News(ops), Len(new))
    PROVE  AgreeFor(old, new, ops)
<1> DEFINE N == Len(ops)
           equal(i) == ops[i].kind = "Equal"
           o == [i \in 1..N |-> Size(ops[i].old)]
           t == [i \in 1..N |-> Size(ops[i].new)]
           k == [i \in 1..N |-> IF equal(i) THEN Size(ops[i].old) ELSE 0]
           r == [i \in 1..N |-> IF equal(i) THEN 0 ELSE Size(ops[i].old)]
           a == [i \in 1..N |-> IF equal(i) THEN 0 ELSE Size(ops[i].new)]
           keeps == [i \in 1..N |-> IF equal(i) THEN Old(ops[i], old) ELSE <<>>]
           removes == [i \in 1..N |-> IF equal(i) THEN <<>> ELSE Old(ops[i], old)]
           adds == [i \in 1..N |-> IF equal(i) THEN <<>> ELSE New(ops[i], new)]
           hunks == UnifiedDiff(old, new, ops)
           script == ToEditScript(old, new, ops)
<1>1. N \in Nat /\ DOMAIN ops = 1..N
  OBVIOUS
<1>2. \A i \in 1..N :
         /\ Old(ops[i], old) \in Seq(X) /\ Len(Old(ops[i], old)) = Size(ops[i].old)
         /\ New(ops[i], new) \in Seq(X) /\ Len(New(ops[i], new)) = Size(ops[i].new)
         /\ Size(ops[i].old) \in Nat /\ Size(ops[i].new) \in Nat
         /\ equal(i) => Size(ops[i].old) = Size(ops[i].new)
  BY OpLines
<1>3. /\ Olds(ops) \in Seq(Ranges) /\ News(ops) \in Seq(Ranges)
      /\ Len(Olds(ops)) = N /\ Len(News(ops)) = N
      /\ \A i \in 1..N : Olds(ops)[i] = ops[i].old /\ News(ops)[i] = ops[i].new
  BY SidesAre
<1>4. <<>> \in Seq(X) /\ Len(<<>>) = 0
  OBVIOUS
<1>5. ApplyDiff(old, ops) = FlattenSeq(keeps)
  BY <1>1 DEF ApplyDiff
<1>6. /\ \A i \in 1..N : i \in DOMAIN hunks <=> ~equal(i)
      /\ \A i \in 1..N : ~equal(i) => /\ hunks[i].removed = Old(ops[i], old)
                                      /\ hunks[i].added = New(ops[i], new)
  BY <1>1 DEF UnifiedDiff, ExtractChanges
<1> HIDE DEF N, hunks, equal
<1>7. /\ o \in [1..N -> Nat] /\ t \in [1..N -> Nat] /\ k \in [1..N -> Nat]
      /\ r \in [1..N -> Nat] /\ a \in [1..N -> Nat]
  BY <1>2
<1>8. /\ keeps \in Seq(Seq(X)) /\ removes \in Seq(Seq(X)) /\ adds \in Seq(Seq(X))
      /\ Len(keeps) = N /\ Len(removes) = N /\ Len(adds) = N
  BY <1>1, <1>2, <1>4
<1>9. \A i \in 1..N : k[i] = Len(keeps[i]) /\ r[i] = Len(removes[i]) /\ a[i] = Len(adds[i])
  BY <1>2, <1>4
<1>10. \A i \in 1..N : /\ o[i] = k[i] + r[i] /\ t[i] = k[i] + a[i]
                       /\ o[i] = Size(ops[i].old) /\ t[i] = Size(ops[i].new)
                       /\ r[i] = IF equal(i) THEN 0 ELSE Size(ops[i].old)
                       /\ a[i] = IF equal(i) THEN 0 ELSE Size(ops[i].new)
  BY <1>2
<1>11. /\ [i \in 1..N |-> IF i \in DOMAIN hunks THEN hunks[i].removed ELSE <<>>] = removes
       /\ [i \in 1..N |-> IF i \in DOMAIN hunks THEN hunks[i].added ELSE <<>>] = adds
  BY <1>6
<1> HIDE DEF o, t, k, r, a, keeps, removes, adds
<1>12. PICK O : AreSums(O, o, N)
  BY <1>1, <1>7, SumsExist
<1>13. PICK T : AreSums(T, t, N)
  BY <1>1, <1>7, SumsExist
<1>14. PICK K : AreSums(K, k, N)
  BY <1>1, <1>7, SumsExist
<1>15. PICK R : AreSums(R, r, N)
  BY <1>1, <1>7, SumsExist
<1>16. PICK A : AreSums(A, a, N)
  BY <1>1, <1>7, SumsExist
<1>17. \A i \in 1..N : k[i] \in Nat /\ r[i] \in Nat /\ a[i] \in Nat
  BY <1>7
<1>18. O[N] = K[N] + R[N] /\ T[N] = K[N] + A[N]
  <2>1. O[N] = K[N] + R[N]
    BY <1>1, <1>10, <1>12, <1>14, <1>15, <1>17, SumsAdd
  <2>2. T[N] = K[N] + A[N]
    BY <1>1, <1>10, <1>13, <1>14, <1>16, <1>17, SumsAdd
  <2>3. QED BY <2>1, <2>2
<1>19. O[N] = Len(old) /\ T[N] = Len(new)
  <2>1. Len(old) \in Nat /\ Len(new) \in Nat
    OBVIOUS
  <2>2. O[N] = Len(old)
    <3>1. \A i \in 1..Len(Olds(ops)) : o[i] = Size(Olds(ops)[i])
      BY <1>3, <1>10
    <3>2. AreSums(O, o, Len(Olds(ops)))
      BY <1>3, <1>12
    <3>3. QED BY <1>3, <2>1, <3>1, <3>2, CoverSize
  <2>3. T[N] = Len(new)
    <3>1. \A i \in 1..Len(News(ops)) : t[i] = Size(News(ops)[i])
      BY <1>3, <1>10
    <3>2. AreSums(T, t, Len(News(ops)))
      BY <1>3, <1>13
    <3>3. QED BY <1>3, <2>1, <3>1, <3>2, CoverSize
  <2>4. QED BY <2>2, <2>3
<1>20. Len(FlattenSeq(keeps)) = K[N]
  <2>1. \A i \in 1..Len(keeps) : k[i] = Len(keeps[i])
    BY <1>8, <1>9
  <2>2. keeps \in Seq(Seq(X)) /\ AreSums(K, k, Len(keeps)) /\ Len(keeps) = N
    BY <1>8, <1>14
  <2>3. Len(FlattenSeq(keeps)) = K[Len(keeps)]
    BY <2>1, <2>2, FlattenIs
  <2>4. QED BY <2>2, <2>3
<1>21. Len(FlattenSeq(removes)) = R[N]
  <2>1. \A i \in 1..Len(removes) : r[i] = Len(removes[i])
    BY <1>8, <1>9
  <2>2. removes \in Seq(Seq(X)) /\ AreSums(R, r, Len(removes)) /\ Len(removes) = N
    BY <1>8, <1>15
  <2>3. Len(FlattenSeq(removes)) = R[Len(removes)]
    BY <2>1, <2>2, FlattenIs
  <2>4. QED BY <2>2, <2>3
<1>22. Len(FlattenSeq(adds)) = A[N]
  <2>1. \A i \in 1..Len(adds) : a[i] = Len(adds[i])
    BY <1>8, <1>9
  <2>2. adds \in Seq(Seq(X)) /\ AreSums(A, a, Len(adds)) /\ Len(adds) = N
    BY <1>8, <1>16
  <2>3. Len(FlattenSeq(adds)) = A[Len(adds)]
    BY <2>1, <2>2, FlattenIs
  <2>4. QED BY <2>2, <2>3
<1>23. Count(script, "Delete") = R[N] /\ Count(script, "Insert") = A[N]
  <2>1. \A i \in 1..Len(ops) :
           /\ r[i] = IF ops[i].kind = "Equal" THEN 0 ELSE Size(ops[i].old)
           /\ a[i] = IF ops[i].kind = "Equal" THEN 0 ELSE Size(ops[i].new)
    BY <1>10 DEF N, equal
  <2>2. AreSums(R, r, Len(ops)) /\ AreSums(A, a, Len(ops))
    BY <1>15, <1>16 DEF N
  <2>3. QED BY <2>1, <2>2, EditsCounted DEF N
<1> HIDE DEF script
<1>24. Agree(old, new, ops, hunks, script)
  <2>1. /\ Len(FlattenSeq([i \in DOMAIN ops |->
                  IF i \in DOMAIN hunks THEN hunks[i].removed ELSE <<>>])) = R[N]
        /\ Len(FlattenSeq([i \in DOMAIN ops |->
                  IF i \in DOMAIN hunks THEN hunks[i].added ELSE <<>>])) = A[N]
    BY <1>1, <1>11, <1>21, <1>22
  <2>2. Len(ApplyDiff(old, ops)) = K[N]
    BY <1>5, <1>20
  <2>3. QED BY <1>18, <1>19, <1>23, <2>1, <2>2 DEF Agree
<1>25. QED BY <1>24 DEF AgreeFor, hunks, script

\* The files of the base are texts, or not there; no handler, agent or approver
\* changes them.
LEMMA BaseTyped == Spec => [](base \in [Files -> Seq(LineValues) \cup {NoFile}])
<1> DEFINE Inv == base \in [Files -> Seq(LineValues) \cup {NoFile}]
<1>1. Init => Inv
  BY DEF Init, Texts
<1>2. Inv /\ [Next]_vars => Inv'
  BY DEF Next, vars, manager, AnalyzingForBranch, ExecuteBranches, Branching, RequestMerge,
         GetConflicts, Merging, MergePendingApproval, ExecuteMerge, WriteStatus, CallFails,
         HandleFailure, CreateBranch, AgentEnds, AgentEdits, Decide, MergeExternally
<1>3. QED BY <1>1, <1>2, PTL DEF Spec

\* A file of the base or of a branch is read as a text (read_file).
LEMMA TextIs ==
    ASSUME TasksInv, base \in [Files -> Seq(LineValues) \cup {NoFile}],
           NEW b \in Range(task.branches), NEW f \in Files
    PROVE  Text(base[f]) \in Seq(LineValues) /\ Text(branch[b].files[f]) \in Seq(LineValues)
<1>1. b \in Branches
  BY DEF TasksInv, Typed, Row, Range
<1>2. branch[b].files[f] \in Seq(LineValues) \cup {NoFile}
  BY <1>1 DEF TasksInv, Typed, Branch
<1>3. <<>> \in Seq(LineValues)
  OBVIOUS
<1>4. QED BY <1>2, <1>3 DEF Text

\* Whatever agents made of the files of two branches that are to be merged, the
\* operations of their diff with the base name every line of both files once and
\* in order, the lines kept, removed and added are as many as the files have, and
\* an edit script has all the deletions and insertions (MyersDiff::diff,
\* apply_diff, format_unified_diff, to_edit_script).
THEOREM DiffsCover == Spec => []DiffCovers
<1>1. ASSUME TasksInv, base \in [Files -> Seq(LineValues) \cup {NoFile}]
      PROVE  DiffCovers
  <2>1. ASSUME NEW b \in Range(task.branches), NEW f \in Files
        PROVE  LET old == Text(base[f])
                   new == Text(branch[b].files[f])
               IN  AgreeFor(old, new, MyersDiff(old, new))
    <3> DEFINE old == Text(base[f])
               new == Text(branch[b].files[f])
    <3>1. old \in Seq(LineValues) /\ new \in Seq(LineValues)
      BY <1>1, TextIs
    <3> HIDE DEF old, new
    <3>2. AgreeFor(old, new, MyersDiff(old, new))
      BY <3>1, MyersDiffIs, AgreeIs
    <3>3. QED BY <3>2 DEF old, new
  <2>2. QED BY <2>1 DEF DiffCovers, OfTexts
<1>2. QED BY <1>1, BaseTyped, TasksInvAlways, PTL

-----------------------------------------------------------------------------
(* The changes of two diffs in the order of a merge (three_way_merge) *)

\* Places in the order of what is at them; of equal ones, the earlier first.
Sorted(s, pos) ==
    \A p, q \in 1..Len(s) : p < q =>
        pos[s[p]] < pos[s[q]] \/ (pos[s[p]] = pos[s[q]] /\ s[p] < s[q])

\* The items of two sequences one after the other.
LEMMA Joined ==
    ASSUME NEW X, NEW s \in Seq(X), NEW t \in Seq(X)
    PROVE  /\ s \o t \in Seq(X) /\ Len(s \o t) = Len(s) + Len(t)
           /\ \A p \in 1..Len(s) : (s \o t)[p] = s[p]
           /\ \A p \in (Len(s) + 1)..(Len(s) + Len(t)) : (s \o t)[p] = t[p - Len(s)]
           /\ Len(t) = 1 => (s \o t)[Len(s) + 1] = t[1]
OBVIOUS

\* The items of a sequence with one more at k.
LEMMA InsertAtIs ==
    ASSUME NEW X, NEW s \in Seq(X), NEW e \in X, NEW k \in 1..(Len(s) + 1)
    PROVE  /\ InsertAt(s, k, e) \in Seq(X) /\ Len(InsertAt(s, k, e)) = Len(s) + 1
           /\ \A p \in 1..(Len(s) + 1) :
                 InsertAt(s, k, e)[p] = IF p < k THEN s[p] ELSE IF p = k THEN e ELSE s[p - 1]
<1> DEFINE u == SubSeq(s, 1, k - 1)
           w == SubSeq(s, k, Len(s))
<1>1. /\ u \in Seq(X) /\ Len(u) = k - 1 /\ \A p \in 1..(k - 1) : u[p] = s[p]
      /\ w \in Seq(X) /\ Len(w) = Len(s) + 1 - k /\ \A p \in 1..(Len(s) + 1 - k) : w[p] = s[p + k - 1]
      /\ Len(s) \in Nat
  OBVIOUS
<1>2. InsertAt(s, k, e) = u \o <<e>> \o w
  BY DEF InsertAt
<1> HIDE DEF u, w
<1>3. /\ u \o <<e>> \in Seq(X) /\ Len(u \o <<e>>) = k
      /\ \A p \in 1..(k - 1) : (u \o <<e>>)[p] = s[p]
      /\ (u \o <<e>>)[k] = e
  <2>1. <<e>> \in Seq(X) /\ Len(<<e>>) = 1 /\ <<e>>[1] = e
    OBVIOUS
  <2>2. /\ u \o <<e>> \in Seq(X) /\ Len(u \o <<e>>) = Len(u) + 1
        /\ \A p \in 1..Len(u) : (u \o <<e>>)[p] = u[p]
        /\ (u \o <<e>>)[Len(u) + 1] = e
    BY <1>1, <2>1, Joined
  <2>3. Len(u) + 1 = k
    BY <1>1
  <2>4. QED BY <1>1, <2>2, <2>3
<1> DEFINE v == u \o <<e>>
           r == v \o w
<1> HIDE DEF v
<1>4. /\ r \in Seq(X) /\ Len(r) = Len(s) + 1
      /\ \A p \in 1..k : r[p] = v[p]
      /\ \A p \in (k + 1)..(Len(s) + 1) : r[p] = w[p - k]
  <2>1. v \in Seq(X) /\ Len(v) = k /\ Len(v) + Len(w) = Len(s) + 1
    <3>1. Len(v) = k /\ v \in Seq(X)
      BY <1>3 DEF v
    <3>2. Len(s) \in Nat /\ k + (Len(s) + 1 - k) = Len(s) + 1
      BY <1>1
    <3>3. QED BY <1>1, <3>1, <3>2
  <2>2. /\ r \in Seq(X) /\ Len(r) = Len(v) + Len(w)
        /\ \A p \in 1..Len(v) : r[p] = v[p]
        /\ \A p \in (Len(v) + 1)..(Len(v) + Len(w)) : r[p] = w[p - Len(v)]
    BY <1>1, <2>1, Joined
  <2>3. QED BY <2>1, <2>2
<1>5. \A p \in (k + 1)..(Len(s) + 1) : p - k \in 1..(Len(s) + 1 - k) /\ p - k + k - 1 = p - 1
  BY <1>1
<1>6. \A p \in (k + 1)..(Len(s) + 1) : r[p] = s[p - 1]
  BY <1>1, <1>4, <1>5
<1> HIDE DEF r
<1>7. ASSUME NEW p \in 1..(Len(s) + 1)
      PROVE  r[p] = IF p < k THEN s[p] ELSE IF p = k THEN e ELSE s[p - 1]
  <2>1. CASE p < k
    <3>1. p \in 1..k /\ p \in 1..(k - 1)
      BY <2>1
    <3>2. QED BY <1>3, <1>4, <2>1, <3>1 DEF v
  <2>2. CASE p = k
    BY <1>3, <1>4, <2>2 DEF v
  <2>3. CASE p > k
    <3>1. p \in (k + 1)..(Len(s) + 1)
      BY <1>1, <2>3
    <3>2. QED BY <1>6, <2>3, <3>1
  <2>4. QED BY <2>1, <2>2, <2>3
<1>8. InsertAt(s, k, e) = r
  BY <1>2 DEF r, v
<1>9. QED BY <1>4, <1>7, <1>8

\* A place behind all others goes before the first that is to come after it.
GoesAt(s, pos, e, k) ==
    /\ k \in 1..(Len(s) + 1)
    /\ \A p \in 1..Len(s) : s[p] < e /\ (p < k => pos[s[p]] <= pos[e])
    /\ k <= Len(s) => pos[s[k]] > pos[e]

\* Places below M, each at its line.
PlacesOf(s, e, M, pos) ==
    M \in Nat /\ pos \in [1..M -> Nat] /\ s \in Seq(1..M) /\ e \in 1..M

\* A sequence with one more place.
WithPlace(r, s, e, M) ==
    /\ r \in Seq(1..M)
    /\ \A x : (\E p \in 1..Len(r) : r[p] = x) <=> x = e \/ \E p \in 1..Len(s) : s[p] = x

\* A place inserted where it goes (the stable sort_by_key of the changes) leaves
\* the places in order.
LEMMA InsertSorted ==
    ASSUME NEW M, NEW pos, NEW s, NEW e, PlacesOf(s, e, M, pos),
           Sorted(s, pos), NEW k, GoesAt(s, pos, e, k)
    PROVE  Sorted(InsertAt(s, k, e), pos) /\ WithPlace(InsertAt(s, k, e), s, e, M)
<1> DEFINE N == Len(s)
           r == InsertAt(s, k, e)
<1>22. M \in Nat /\ pos \in [1..M -> Nat] /\ s \in Seq(1..M) /\ e \in 1..M
  BY DEF PlacesOf
<1>1. N \in Nat /\ DOMAIN s = 1..N /\ \A p \in 1..N : s[p] \in 1..M
  BY <1>22
<1>3. k \in 1..(N + 1) /\ (k <= N => pos[s[k]] > pos[e])
  BY DEF GoesAt
<1>10. \A p \in 1..N : s[p] < e /\ (p < k => pos[s[p]] <= pos[e])
  BY DEF GoesAt
<1>20. InsertAt(s, k, e) = r
  OBVIOUS
<1> HIDE DEF N
<1>5. /\ r \in Seq(1..M) /\ Len(r) = N + 1
      /\ \A p \in 1..(N + 1) : r[p] = IF p < k THEN s[p] ELSE IF p = k THEN e ELSE s[p - 1]
  <2>1. k \in 1..(Len(s) + 1)
    BY <1>3 DEF N
  <2>2. /\ InsertAt(s, k, e) \in Seq(1..M) /\ Len(InsertAt(s, k, e)) = Len(s) + 1
        /\ \A p \in 1..(Len(s) + 1) :
              InsertAt(s, k, e)[p] = IF p < k THEN s[p] ELSE IF p = k THEN e ELSE s[p - 1]
    <3> DEFINE P == 1..M
    <3>1. s \in Seq(P) /\ e \in P
      BY <1>22
    <3>4. k \in 1..(Len(s) + 1)
      BY <2>1
    <3> HIDE DEF P
    <3>2. /\ InsertAt(s, k, e) \in Seq(P) /\ Len(InsertAt(s, k, e)) = Len(s) + 1
          /\ \A p \in 1..(Len(s) + 1) :
                InsertAt(s, k, e)[p] = IF p < k THEN s[p] ELSE IF p = k THEN e ELSE s[p - 1]
      BY <3>1, <3>4, InsertAtIs
    <3>3. QED BY <3>2 DEF P
  <2>3. QED BY <2>2 DEF N
<1> HIDE DEF r
<1>21. \A p \in 1..(N + 1) :
          /\ p < k => p \in 1..N /\ r[p] = s[p]
          /\ p = k => r[p] = e
          /\ p > k => p - 1 \in 1..N /\ p - 1 >= k /\ r[p] = s[p - 1]
  <2>1. ASSUME NEW p \in 1..(N + 1)
        PROVE  /\ p < k => p \in 1..N /\ r[p] = s[p]
               /\ p = k => r[p] = e
               /\ p > k => p - 1 \in 1..N /\ p - 1 >= k /\ r[p] = s[p - 1]
    <3>1. r[p] = IF p < k THEN s[p] ELSE IF p = k THEN e ELSE s[p - 1]
      BY <1>5
    <3>2. /\ p < k => p \in 1..N
          /\ p > k => p - 1 \in 1..N /\ p - 1 >= k /\ ~(p < k) /\ p # k
          /\ p = k => ~(p < k)
      BY <1>1, <1>3
    <3>3. QED BY <3>1, <3>2
  <2>2. QED BY <2>1
<1>6. \A p \in 1..M : pos[p] \in Nat
  BY <1>22
<1>7. \A p \in 1..N : pos[s[p]] \in Nat /\ s[p] \in Nat
  BY <1>1, <1>6
<1>8. pos[e] \in Nat /\ e \in Nat
  BY <1>6, <1>22
<1>9. \A p, q \in 1..N : p < q => pos[s[p]] < pos[s[q]] \/ (pos[s[p]] = pos[s[q]] /\ s[p] < s[q])
  BY DEF Sorted, N
<1>11. \A p \in 1..N : p >= k => pos[s[p]] > pos[e]
  <2>1. ASSUME NEW p \in 1..N, p >= k PROVE pos[s[p]] > pos[e]
    <3>1. CASE p = k
      BY <1>1, <1>3, <2>1, <3>1
    <3>2. CASE p # k
      <4>1. k \in 1..N /\ k < p /\ pos[s[k]] > pos[e]
        BY <1>1, <1>3, <2>1, <3>2
      <4>3. pos[s[k]] \in Nat /\ pos[s[p]] \in Nat
        BY <1>7, <4>1
      <4>4. pos[s[k]] < pos[s[p]] \/ pos[s[k]] = pos[s[p]]
        BY <1>9, <4>1
      <4>2. pos[s[k]] <= pos[s[p]] /\ pos[s[k]] \in Nat /\ pos[s[p]] \in Nat
        BY <4>3, <4>4
      <4>5. QED BY <1>8, <4>1, <4>2
    <3>3. QED BY <3>1, <3>2
  <2>2. QED BY <2>1
<1>12. ASSUME NEW p \in 1..(N + 1), NEW q \in 1..(N + 1), p < q
       PROVE  pos[r[p]] < pos[r[q]] \/ (pos[r[p]] = pos[r[q]] /\ r[p] < r[q])
  <2>1. CASE q < k
    <3>1. p < k
      BY <1>3, <1>12, <2>1
    <3>2. r[p] = s[p] /\ r[q] = s[q] /\ p \in 1..N /\ q \in 1..N
      BY <1>21, <2>1, <3>1
    <3>3. pos[s[p]] < pos[s[q]] \/ (pos[s[p]] = pos[s[q]] /\ s[p] < s[q])
      BY <1>9, <1>12, <3>2
    <3>4. QED BY <3>2, <3>3
  <2>2. CASE q = k
    <3>1. p < k
      BY <1>12, <2>2
    <3>2. r[p] = s[p] /\ r[q] = e /\ p \in 1..N
      BY <1>21, <2>2, <3>1
    <3>3. pos[s[p]] <= pos[e] /\ s[p] < e /\ pos[s[p]] \in Nat
      BY <1>7, <1>10, <3>1, <3>2
    <3>4. pos[s[p]] < pos[e] \/ pos[s[p]] = pos[e]
      BY <1>8, <3>3
    <3>5. QED BY <3>2, <3>3, <3>4
  <2>3. CASE p < k /\ q > k
    <3>1. r[p] = s[p] /\ r[q] = s[q - 1] /\ p \in 1..N /\ q - 1 \in 1..N /\ q - 1 >= k
      BY <1>21, <2>3
    <3>2. p < q - 1
      BY <1>3, <2>3, <3>1
    <3>3. pos[s[p]] < pos[s[q - 1]] \/ (pos[s[p]] = pos[s[q - 1]] /\ s[p] < s[q - 1])
      BY <1>9, <3>1, <3>2
    <3>4. QED BY <3>1, <3>3
  <2>4. CASE p = k
    <3>1. q > k
      BY <1>12, <2>4
    <3>2. r[p] = e /\ r[q] = s[q - 1] /\ q - 1 \in 1..N /\ q - 1 >= k
      BY <1>21, <2>4, <3>1
    <3>3. pos[s[q - 1]] > pos[e]
      BY <1>11, <3>2
    <3>4. pos[e] < pos[s[q - 1]]
      BY <1>7, <1>8, <3>2, <3>3
    <3>5. QED BY <3>2, <3>4
  <2>5. CASE p > k
    <3>1. q > k
      BY <1>3, <1>12, <2>5
    <3>2. r[p] = s[p - 1] /\ r[q] = s[q - 1] /\ p - 1 \in 1..N /\ q - 1 \in 1..N
      BY <1>21, <2>5, <3>1
    <3>3. p - 1 < q - 1
      BY <1>12
    <3>4. pos[s[p - 1]] < pos[s[q - 1]] \/ (pos[s[p - 1]] = pos[s[q - 1]] /\ s[p - 1] < s[q - 1])
      BY <1>9, <3>2, <3>3
    <3>5. QED BY <3>2, <3>4
  <2>6. q < k \/ q = k \/ (p < k /\ q > k) \/ p = k \/ p > k
    BY <1>3
  <2>7. QED BY <2>1, <2>2, <2>3, <2>4, <2>5, <2>6
<1>13. ASSUME NEW x
       PROVE  (\E p \in 1..(N + 1) : r[p] = x) <=> x = e \/ \E p \in 1..N : s[p] = x
  <2>1. ASSUME NEW p \in 1..(N + 1), r[p] = x PROVE x = e \/ \E q \in 1..N : s[q] = x
    <3>1. CASE p < k
      <4>1. p \in 1..N
        BY <1>1, <1>3, <3>1
      <4>2. QED BY <1>5, <2>1, <3>1, <4>1
    <3>2. CASE p = k
      BY <1>5, <2>1, <3>2
    <3>3. CASE p > k
      <4>1. p - 1 \in 1..N /\ r[p] = s[p - 1]
        BY <1>1, <1>3, <1>5, <3>3
      <4>2. QED BY <2>1, <4>1
    <3>4. QED BY <1>3, <3>1, <3>2, <3>3
  <2>2. ASSUME x = e PROVE \E p \in 1..(N + 1) : r[p] = x
    BY <1>3, <1>5, <2>2
  <2>3. ASSUME NEW q \in 1..N, s[q] = x PROVE \E p \in 1..(N + 1) : r[p] = x
    <3>1. CASE q < k
      <4>1. q \in 1..(N + 1) /\ r[q] = s[q]
        BY <1>1, <1>5, <3>1
      <4>2. QED BY <2>3, <4>1
    <3>2. CASE q >= k
      <4>1. q + 1 \in 1..(N + 1) /\ ~(q + 1 < k) /\ q + 1 # k /\ q + 1 - 1 = q
        BY <1>1, <1>3, <3>2
      <4>2. r[q + 1] = s[q]
        BY <1>5, <4>1
      <4>3. QED BY <2>3, <4>1, <4>2
    <3>3. QED BY <1>3, <3>1, <3>2
  <2>4. QED BY <2>1, <2>2, <2>3
<1>14. Sorted(r, pos)
  BY <1>5, <1>12 DEF Sorted
<1>23. WithPlace(r, s, e, M)
  BY <1>5, <1>13 DEF WithPlace, N
<1>15. QED BY <1>14, <1>23 DEF r

\* The changes that a merge goes through, and where they reach.
LineChanges == [branch : {"a", "b"}, op : {op \in DiffOps : op.kind # "Equal"}]
Lo(c) == Reach(c.op)[1]
Hi(c) == Reach(c.op)[2]
Pos(c) == Position(c.op)
Adds(c) == c.op.old = <<>>

\* Where a change reaches: an insertion is at base line 0 and has target lines,
\* any other change has base lines.
LEMMA ReachIs ==
    ASSUME NEW c \in LineChanges
    PROVE  /\ Lo(c) \in Nat /\ Hi(c) \in Nat /\ Pos(c) \in Nat /\ c.branch \in {"a", "b"}
           /\ Adds(c) => Pos(c) = 0 /\ Lo(c) = c.op.new[1] /\ Hi(c) = c.op.new[2] /\ c.op.new # <<>>
           /\ ~Adds(c) => Pos(c) = Lo(c) /\ Lo(c) = c.op.old[1] /\ Hi(c) = c.op.old[2]
           /\ Adds(c) <=> c.op.kind = "Insert"
           /\ Adds(c) \in BOOLEAN
<1>1. /\ c.op.old \in Ranges /\ c.op.new \in Ranges /\ c.branch \in {"a", "b"}
      /\ c.op.old = <<>> <=> c.op.kind = "Insert"
      /\ c.op.new = <<>> <=> c.op.kind = "Delete"
  BY DEF LineChanges, DiffOps
<1>2. CASE c.op.old = <<>>
  <2>1. c.op.new # <<>> /\ c.op.new[1] \in Nat /\ c.op.new[2] \in Nat
    BY <1>1, <1>2 DEF Ranges
  <2>2. Reach(c.op) = c.op.new /\ Position(c.op) = 0
    BY <1>2 DEF Reach, Position
  <2>3. QED BY <1>1, <1>2, <2>1, <2>2 DEF Lo, Hi, Pos, Adds
<1>3. CASE c.op.old # <<>>
  <2>1. c.op.old[1] \in Nat /\ c.op.old[2] \in Nat
    BY <1>1, <1>3 DEF Ranges
  <2>2. Reach(c.op) = c.op.old /\ Position(c.op) = c.op.old[1]
    BY <1>3 DEF Reach, Position
  <2>3. QED BY <1>1, <1>3, <2>1, <2>2 DEF Lo, Hi, Pos, Adds
<1>4. QED BY <1>2, <1>3

\* The changes of a merge in their order: those of one branch that are of one
\* sort follow one another, and those at line 0 are a's before b's.
Ordered(all, n) ==
    /\ all \in Seq(LineChanges)
    /\ \A i \in 1..Len(all) : Lo(all[i]) < Hi(all[i]) /\ (~Adds(all[i]) => Hi(all[i]) <= n)
    /\ \A i, j \in 1..Len(all) : i < j =>
          /\ Pos(all[i]) <= Pos(all[j])
          /\ all[i].branch = all[j].branch /\ (Adds(all[i]) <=> Adds(all[j])) => Hi(all[i]) <= Lo(all[j])
    /\ \A i, j, k \in 1..Len(all) :
          i < k /\ k < j /\ Pos(all[j]) = 0 /\ all[i].branch = all[j].branch =>
             all[k].branch = all[i].branch

\* They are the changes of both branches.
MadeOf(all, opsA, opsB) ==
    /\ \A i \in 1..Len(all) :
          \/ all[i].branch = "a" /\ \E j \in ExtractChanges(opsA) : all[i].op = opsA[j]
          \/ all[i].branch = "b" /\ \E j \in ExtractChanges(opsB) : all[i].op = opsB[j]
    /\ \A j \in ExtractChanges(opsA) : \E i \in 1..Len(all) : all[i].branch = "a" /\ all[i].op = opsA[j]
    /\ \A j \in ExtractChanges(opsB) : \E i \in 1..Len(all) : all[i].branch = "b" /\ all[i].op = opsB[j]

\* Changes of one sort reach no further than the next one of the branch begins.
LEMMA InOrder ==
    ASSUME NEW ops \in Seq(DiffOps), NEW n \in Nat, NEW m \in Nat, NEW side \in {"a", "b"},
           Covers(Olds(ops), n), Covers(News(ops), m), NEW i \in ExtractChanges(ops)
    PROVE  LET c(k) == [branch |-> side, op |-> ops[k]]
           IN  /\ c(i) \in LineChanges /\ Lo(c(i)) < Hi(c(i)) /\ (~Adds(c(i)) => Hi(c(i)) <= n)
               /\ \A j \in ExtractChanges(ops) :
                     i < j /\ (Adds(c(i)) <=> Adds(c(j))) => Hi(c(i)) <= Lo(c(j))
<1> DEFINE c(k) == [branch |-> side, op |-> ops[k]]
<1>1. DOMAIN ops = 1..Len(ops) /\ DOMAIN Olds(ops) = DOMAIN ops /\ DOMAIN News(ops) = DOMAIN ops
  BY DEF Olds, News
<1>2. \A k \in ExtractChanges(ops) : /\ k \in DOMAIN ops /\ c(k) \in LineChanges
                                     /\ Olds(ops)[k] = c(k).op.old /\ News(ops)[k] = c(k).op.new
  <2>1. \A k \in ExtractChanges(ops) : k \in 1..Len(ops) /\ ops[k].kind # "Equal"
    BY <1>1 DEF ExtractChanges
  <2>2. \A k \in 1..Len(ops) : /\ ops[k] \in DiffOps
                               /\ Olds(ops)[k] = ops[k].old /\ News(ops)[k] = ops[k].new
    BY SidesAre
  <2>3. QED BY <1>1, <2>1, <2>2 DEF LineChanges
<1> HIDE DEF c
<1>3. Lo(c(i)) < Hi(c(i)) /\ (~Adds(c(i)) => Hi(c(i)) <= n)
  <2>1. CASE Adds(c(i))
    BY <1>1, <1>2, <2>1, ReachIs DEF Covers
  <2>2. CASE ~Adds(c(i))
    BY <1>1, <1>2, <2>2, ReachIs DEF Covers, Adds
  <2>3. QED BY <2>1, <2>2
<1>4. ASSUME NEW j \in ExtractChanges(ops), i < j, Adds(c(i)) <=> Adds(c(j))
      PROVE  Hi(c(i)) <= Lo(c(j))
  <2>1. CASE Adds(c(i))
    <3>1. /\ Hi(c(i)) = News(ops)[i][2] /\ Lo(c(j)) = News(ops)[j][1]
          /\ News(ops)[i] # <<>> /\ News(ops)[j] # <<>>
      BY <1>2, <1>4, <2>1, ReachIs
    <3>2. i \in DOMAIN News(ops) /\ j \in DOMAIN News(ops)
      BY <1>1, <1>2
    <3>3. News(ops)[i][2] <= News(ops)[j][1]
      BY <1>4, <3>1, <3>2 DEF Covers
    <3>4. QED BY <3>1, <3>3
  <2>2. CASE ~Adds(c(i))
    <3>1. /\ Hi(c(i)) = Olds(ops)[i][2] /\ Lo(c(j)) = Olds(ops)[j][1]
          /\ Olds(ops)[i] # <<>> /\ Olds(ops)[j] # <<>>
      <4>1. ~Adds(c(j))
        BY <1>4, <2>2
      <4>2. QED BY <1>2, <2>2, <4>1, ReachIs DEF Adds
    <3>2. i \in DOMAIN Olds(ops) /\ j \in DOMAIN Olds(ops)
      BY <1>1, <1>2
    <3>3. Olds(ops)[i][2] <= Olds(ops)[j][1]
      BY <1>4, <3>1, <3>2 DEF Covers
    <3>4. QED BY <3>1, <3>3
  <2>3. QED BY <2>1, <2>2
<1>5. QED BY <1>2, <1>3, <1>4 DEF c

\* All changes of two diffs of one base, in the order a merge goes through them.
LEMMA AllChangesIs ==
    ASSUME NEW opsA \in Seq(DiffOps), NEW opsB \in Seq(DiffOps), NEW n \in Nat,
           NEW nA \in Nat, NEW nB \in Nat,
           Covers(Olds(opsA), n), Covers(News(opsA), nA),
           Covers(Olds(opsB), n), Covers(News(opsB), nB)
    PROVE  /\ Ordered(AllChanges(opsA, opsB), n)
           /\ MadeOf(AllChanges(opsA, opsB), opsA, opsB)
<1> DEFINE NA == Len(opsA)
           NB == Len(opsB)
           M == NA + NB
           change(i) == IF i <= NA THEN [branch |-> "a", op |-> opsA[i]]
                        ELSE [branch |-> "b", op |-> opsB[i - NA]]
           behind(sorted, i) == {k \in DOMAIN sorted :
                                    Position(change(sorted[k]).op) > Position(change(i).op)}
           insert(sorted, i) ==
               InsertAt(sorted, Min(behind(sorted, i) \cup {Len(sorted) + 1}), i)
           sort(sorted, i) == IF change(i).op.kind = "Equal" THEN sorted ELSE insert(sorted, i)
           Is(f) == f = [i \in 0..M |-> IF i = 0 THEN <<>> ELSE sort(f[i - 1], i)]
           F == CHOOSE f : Is(f)
           all == [k \in DOMAIN F[M] |-> change(F[M][k])]
           pos == [i \in 1..M |-> Position(change(i).op)]
           S == Seq(1..M)
           step == [i \in 1..M |-> [s \in S |-> sort(s, i)]]
           changed(i) == change(i).op.kind # "Equal"
<1>1. NA \in Nat /\ NB \in Nat /\ M \in Nat
  OBVIOUS
<1>2. AllChanges(opsA, opsB) = all
  BY DEF AllChanges, Loop
<1>3. /\ \A i \in 1..M : i <= NA => i \in DOMAIN opsA
      /\ \A i \in 1..M : ~(i <= NA) => i - NA \in DOMAIN opsB
      /\ DOMAIN opsA = 1..NA /\ DOMAIN opsB = 1..NB
      /\ \A i \in 1..NA : i \in 1..M
      /\ \A i \in 1..NB : i + NA \in 1..M /\ ~(i + NA <= NA) /\ i + NA - NA = i
  BY <1>1
<1>4. \A i \in 1..M : /\ i <= NA => change(i) = [branch |-> "a", op |-> opsA[i]]
                      /\ ~(i <= NA) => change(i) = [branch |-> "b", op |-> opsB[i - NA]]
  OBVIOUS
<1> HIDE DEF NA, NB
<1>5. \A i \in 1..M : change(i).op \in DiffOps /\ pos[i] \in Nat /\ pos[i] = Position(change(i).op)
  <2>1. \A op \in DiffOps : Position(op) \in Nat
    BY DEF DiffOps, Ranges, Position
  <2>2. /\ \A i \in DOMAIN opsA : opsA[i] \in DiffOps
        /\ \A i \in DOMAIN opsB : opsB[i] \in DiffOps
    OBVIOUS
  <2>3. \A i \in 1..M : change(i).op \in DiffOps
    BY <1>3, <1>4, <2>2
  <2> HIDE DEF change
  <2>4. QED BY <2>1, <2>3
<1>6. pos \in [1..M -> Nat]
  <2> HIDE DEF change
  <2> QED BY <1>5
<1> HIDE DEF M
<1>7. ASSUME NEW s \in S, NEW i \in 1..M, Sorted(s, pos), \A k \in 1..Len(s) : s[k] < i
      PROVE  /\ insert(s, i) \in S /\ Sorted(insert(s, i), pos)
             /\ \A x : (\E k \in 1..Len(insert(s, i)) : insert(s, i)[k] = x)
                          <=> x = i \/ \E k \in 1..Len(s) : s[k] = x
  <2> DEFINE T == behind(s, i) \cup {Len(s) + 1}
             at == Min(T)
  <2>1. DOMAIN s = 1..Len(s) /\ Len(s) \in Nat /\ \A k \in 1..Len(s) : s[k] \in 1..M
    <3> DEFINE X == 1..M
    <3>1. s \in Seq(X)
      OBVIOUS
    <3> HIDE DEF X, pos, insert
    <3>2. DOMAIN s = 1..Len(s) /\ Len(s) \in Nat /\ \A k \in 1..Len(s) : s[k] \in X
      BY <3>1
    <3>3. QED BY <3>2 DEF X
  <2>2. \A k : k \in behind(s, i) <=> k \in 1..Len(s) /\ pos[s[k]] > pos[i]
    <3> HIDE DEF change
    <3> QED BY <1>5, <2>1
  <2>3. at \in T /\ \A k \in T : at <= k
    <3>1. T \in SUBSET Nat /\ T # {}
      BY <2>1, <2>2
    <3> HIDE DEF T
    <3>2. QED BY <3>1, MinIs
  <2>4. insert(s, i) = InsertAt(s, at, i)
    OBVIOUS
  <2> HIDE DEF at, insert, behind
  <2>5. GoesAt(s, pos, i, at)
    <3>4. \A k : k \in T <=> (k \in 1..Len(s) /\ pos[s[k]] > pos[i]) \/ k = Len(s) + 1
      BY <2>2
    <3>1. at \in 1..(Len(s) + 1) /\ (at <= Len(s) => pos[s[at]] > pos[i])
      <4> HIDE DEF T, pos
      <4>1. (at \in 1..Len(s) /\ pos[s[at]] > pos[i]) \/ at = Len(s) + 1
        BY <2>3, <3>4
      <4>2. QED BY <2>1, <4>1
    <3>2. ASSUME NEW k \in 1..Len(s), k < at PROVE pos[s[k]] <= pos[i]
      <4>1. k \notin T
        BY <2>3, <3>1, <3>2
      <4>2. ~(pos[s[k]] > pos[i])
        BY <2>2, <4>1
      <4>3. pos[s[k]] \in Nat /\ pos[i] \in Nat
        BY <1>5, <2>1
      <4>4. QED BY <4>2, <4>3
    <3> HIDE DEF T, pos
    <3>3. QED BY <1>7, <3>1, <3>2 DEF GoesAt
  <2> HIDE DEF pos, T
  <2>7. PlacesOf(s, i, M, pos) /\ Sorted(s, pos)
    BY <1>1, <1>6, <1>7 DEF PlacesOf
  <2>8. Sorted(insert(s, i), pos) /\ WithPlace(insert(s, i), s, i, M)
    BY <2>4, <2>5, <2>7, InsertSorted
  <2>6. QED BY <2>8 DEF WithPlace
<1>8. ASSUME NEW s \in S, NEW i \in 1..M PROVE insert(s, i) \in S
  <2> DEFINE T == behind(s, i) \cup {Len(s) + 1}
             X == 1..M
  <2>1. T \in SUBSET Nat /\ T # {} /\ \A k \in T : k \in 1..(Len(s) + 1)
    <3> HIDE DEF change
    <3> QED OBVIOUS
  <2>2. Min(T) \in 1..(Len(s) + 1)
    <3>1. Min(T) \in T
      <4> HIDE DEF T
      <4> QED BY <2>1, MinIs
    <3> HIDE DEF T
    <3>2. QED BY <2>1, <3>1
  <2>3. insert(s, i) = InsertAt(s, Min(T), i)
    OBVIOUS
  <2>4. s \in Seq(X) /\ i \in X
    OBVIOUS
  <2> HIDE DEF T, X, insert
  <2>5. InsertAt(s, Min(T), i) \in Seq(X)
    BY <2>2, <2>4, InsertAtIs
  <2>6. QED BY <2>3, <2>5 DEF X
<1>9. step \in [1..M -> [S -> S]] /\ \A i \in 1..M, s \in S : step[i][s] = sort(s, i)
  <2> HIDE DEF insert, change
  <2>1. \A i \in 1..M, s \in S : sort(s, i) \in S
    BY <1>8
  <2> HIDE DEF sort, S
  <2>2. QED BY <2>1
<1>10. <<>> \in S
  OBVIOUS
<1>11. \A s, i : sort(s, i) = IF changed(i) THEN insert(s, i) ELSE s
  <2> HIDE DEF insert, change
  <2> QED OBVIOUS
<1> HIDE DEF step, sort, S, insert
<1>12. \E f : Is(f)
  <2>1. PICK f : Iterates(f, M, <<>>, step, S)
    BY <1>1, <1>9, <1>10, Iterated
  <2>2. f \in [0..M -> S] /\ f[0] = <<>> /\ \A i \in 1..M : f[i] = step[i][f[i - 1]]
    BY <2>1 DEF Iterates
  <2>3. \A i \in 1..M : i - 1 \in 0..M
    BY <1>1
  <2>4. \A i \in 1..M : f[i] = sort(f[i - 1], i)
    BY <1>9, <2>2, <2>3
  <2>5. Is(f)
    BY <1>1, <2>2, <2>4
  <2>6. QED BY <2>5
<1>13. Is(F)
  BY <1>12
<1> HIDE DEF F
<1>14. F[0] = <<>> /\ \A i \in 1..M : F[i] = sort(F[i - 1], i)
  <2>1. \A i \in 0..M : F[i] = IF i = 0 THEN <<>> ELSE sort(F[i - 1], i)
    BY <1>13
  <2>2. QED BY <1>1, <2>1
<1>15. \A i \in 0..M : F[i] \in S
  <2>1. Follows(F, M, <<>>, step, S)
    BY <1>9, <1>14 DEF Follows
  <2>2. QED BY <1>1, <1>9, <1>10, <2>1, Looped
<1> HIDE DEF pos
<1> DEFINE Good(i) == /\ Sorted(F[i], pos)
                      /\ \A x : (\E k \in 1..Len(F[i]) : F[i][k] = x) <=> x \in 1..i /\ changed(x)
           P == {i \in 0..M : Good(i)}
<1>16. \A i \in 0..M : i \in P
  <2>1. 0 \in P
    <3>1. Len(<<>>) = 0 /\ 1..0 = {}
      OBVIOUS
    <3> HIDE DEF changed
    <3>2. Good(0)
      BY <1>14, <3>1 DEF Sorted
    <3> HIDE DEF Good
    <3>3. QED BY <1>1, <3>2
  <2>2. ASSUME NEW i \in 1..M, i - 1 \in P PROVE i \in P
    <3> DEFINE s == F[i - 1]
    <3>1. s \in S /\ i \in 0..M /\ Good(i - 1) /\ F[i] = sort(s, i)
      BY <1>1, <1>14, <1>15, <2>2
    <3>2. \A x : x \in 1..i <=> x \in 1..(i - 1) \/ x = i
      BY <1>1
    <3> HIDE DEF s, changed
    <3>3. CASE ~changed(i)
      <4>1. F[i] = s
        BY <1>11, <3>1, <3>3
      <4>2. Good(i)
        BY <3>1, <3>2, <3>3, <4>1 DEF s
      <4>3. QED BY <3>1, <4>2
    <3>4. CASE changed(i)
      <4>1. F[i] = insert(s, i)
        BY <1>11, <3>1, <3>4
      <4>2. Sorted(s, pos) /\ \A x : (\E k \in 1..Len(s) : s[k] = x) <=> x \in 1..(i - 1) /\ changed(x)
        BY <3>1 DEF s
      <4>3. \A k \in 1..Len(s) : s[k] < i
        <5>1. \A k \in 1..Len(s) : s[k] \in 1..(i - 1)
          BY <4>2
        <5>2. QED BY <5>1
      <4>4. /\ Sorted(insert(s, i), pos)
            /\ \A x : (\E k \in 1..Len(insert(s, i)) : insert(s, i)[k] = x)
                         <=> x = i \/ \E k \in 1..Len(s) : s[k] = x
        BY <1>7, <3>1, <4>2, <4>3
      <4>5. Good(i)
        BY <3>2, <3>4, <4>1, <4>2, <4>4
      <4>6. QED BY <3>1, <4>5
    <3>5. QED BY <3>3, <3>4
  <2> HIDE DEF P
  <2>3. QED BY <1>1, <2>1, <2>2, Counted
<1> DEFINE s == F[M]
<1>17. /\ s \in Seq(1..M) /\ Sorted(s, pos) /\ DOMAIN s = 1..Len(s) /\ Len(s) \in Nat
       /\ \A x : (\E k \in 1..Len(s) : s[k] = x) <=> x \in 1..M /\ changed(x)
  <2>1. Good(M) /\ s \in Seq(1..M)
    BY <1>1, <1>15, <1>16 DEF S
  <2>2. Sorted(s, pos) /\ \A x : (\E k \in 1..Len(s) : s[k] = x) <=> x \in 1..M /\ changed(x)
    BY <2>1
  <2> HIDE DEF s, changed
  <2>3. DOMAIN s = 1..Len(s) /\ Len(s) \in Nat
    BY <2>1
  <2>4. QED BY <2>1, <2>2, <2>3
<1> HIDE DEF s, P
<1>18. \A k \in 1..Len(s) : s[k] \in 1..M /\ changed(s[k])
  <2> HIDE DEF changed
  <2> QED BY <1>17
<1>19. \A i \in 1..M : changed(i) => /\ i <= NA => i \in ExtractChanges(opsA)
                                     /\ ~(i <= NA) => i - NA \in ExtractChanges(opsB)
  BY <1>3, <1>4 DEF ExtractChanges
<1>20. \A k \in 1..Len(s) : all[k] = change(s[k])
  <2> HIDE DEF change
  <2> QED BY <1>17 DEF s
<1>21. DOMAIN all = 1..Len(s)
  BY <1>17 DEF s
<1>22. \A i \in 1..M : changed(i) =>
         /\ change(i) \in LineChanges /\ Lo(change(i)) < Hi(change(i))
         /\ ~Adds(change(i)) => Hi(change(i)) <= n
         /\ change(i).branch = "a" <=> i <= NA
  <2>1. ASSUME NEW i \in 1..M, changed(i), i <= NA
        PROVE  /\ change(i) \in LineChanges /\ Lo(change(i)) < Hi(change(i))
               /\ ~Adds(change(i)) => Hi(change(i)) <= n
               /\ change(i).branch = "a"
    <3>1. change(i) = [branch |-> "a", op |-> opsA[i]] /\ i \in ExtractChanges(opsA)
      BY <1>4, <1>19, <2>1
    <3> HIDE DEF change
    <3>2. QED BY <3>1, InOrder
  <2>2. ASSUME NEW i \in 1..M, changed(i), ~(i <= NA)
        PROVE  /\ change(i) \in LineChanges /\ Lo(change(i)) < Hi(change(i))
               /\ ~Adds(change(i)) => Hi(change(i)) <= n
               /\ change(i).branch = "b"
    <3>1. change(i) = [branch |-> "b", op |-> opsB[i - NA]] /\ i - NA \in ExtractChanges(opsB)
      BY <1>4, <1>19, <2>2
    <3> DEFINE k == i - NA
    <3> HIDE DEF change, k
    <3>2. k \in ExtractChanges(opsB) /\ change(i) = [branch |-> "b", op |-> opsB[k]]
      BY <3>1 DEF k
    <3>3. change(i).branch = "b"
      BY <3>2
    <3>4. QED BY <3>2, <3>3, InOrder
  <2> HIDE DEF change, changed
  <2>3. QED BY <2>1, <2>2
<1>23. ASSUME NEW x \in 1..M, NEW y \in 1..M, x < y, changed(x), changed(y),
              change(x).branch = change(y).branch, Adds(change(x)) <=> Adds(change(y))
       PROVE  Hi(change(x)) <= Lo(change(y))
  <2>1. CASE x <= NA
    <3>1. y <= NA
      BY <1>22, <1>23, <2>1
    <3>2. /\ change(x) = [branch |-> "a", op |-> opsA[x]] /\ x \in ExtractChanges(opsA)
          /\ change(y) = [branch |-> "a", op |-> opsA[y]] /\ y \in ExtractChanges(opsA)
      BY <1>4, <1>19, <1>23, <2>1, <3>1
    <3> HIDE DEF change
    <3>3. QED BY <1>23, <3>2, InOrder
  <2>2. CASE ~(x <= NA)
    <3>1. ~(y <= NA) /\ x - NA < y - NA
      BY <1>1, <1>23, <2>2
    <3>2. /\ change(x) = [branch |-> "b", op |-> opsB[x - NA]] /\ x - NA \in ExtractChanges(opsB)
          /\ change(y) = [branch |-> "b", op |-> opsB[y - NA]] /\ y - NA \in ExtractChanges(opsB)
      BY <1>4, <1>19, <1>23, <2>2, <3>1
    <3> HIDE DEF change
    <3>3. QED BY <1>23, <3>1, <3>2, InOrder
  <2>3. QED BY <2>1, <2>2
<1>24. \A i \in 1..M : Pos(change(i)) = pos[i] /\ pos[i] \in Nat
  BY <1>5 DEF Pos
<1>25. \A i, j \in 1..Len(s) : i < j =>
          pos[s[i]] < pos[s[j]] \/ (pos[s[i]] = pos[s[j]] /\ s[i] < s[j])
  BY <1>17 DEF Sorted
<1>26. all \in Seq(LineChanges) /\ Len(all) = Len(s)
  <2>1. \A k \in 1..Len(s) : all[k] \in LineChanges
    <3> HIDE DEF all, change, changed
    <3> QED BY <1>18, <1>20, <1>22
  <2>2. all = [k \in 1..Len(s) |-> all[k]]
    BY <1>21
  <2> HIDE DEF all
  <2>3. QED BY <1>17, <2>1, <2>2
<1>27. MadeOf(all, opsA, opsB)
  <2>1. ASSUME NEW i \in 1..Len(all)
        PROVE  \/ all[i].branch = "a" /\ \E j \in ExtractChanges(opsA) : all[i].op = opsA[j]
               \/ all[i].branch = "b" /\ \E j \in ExtractChanges(opsB) : all[i].op = opsB[j]
    <3>1. all[i] = change(s[i]) /\ s[i] \in 1..M /\ changed(s[i])
      BY <1>18, <1>20, <1>26, <2>1
    <3> HIDE DEF all, changed
    <3>2. QED BY <1>4, <1>19, <3>1
  <2>2. ASSUME NEW j \in ExtractChanges(opsA)
        PROVE  \E i \in 1..Len(all) : all[i].branch = "a" /\ all[i].op = opsA[j]
    <3>1. j \in 1..M /\ j <= NA /\ opsA[j].kind # "Equal"
      BY <1>3 DEF ExtractChanges
    <3>2. change(j) = [branch |-> "a", op |-> opsA[j]]
      BY <1>4, <3>1
    <3>3. changed(j)
      BY <3>1, <3>2
    <3> HIDE DEF change, changed
    <3>4. PICK k \in 1..Len(s) : s[k] = j
      BY <1>17, <3>1, <3>3
    <3> HIDE DEF all
    <3>5. all[k] = change(j) /\ k \in 1..Len(all)
      BY <1>20, <1>26, <3>4
    <3>6. QED BY <3>2, <3>5
  <2>3. ASSUME NEW j \in ExtractChanges(opsB)
        PROVE  \E i \in 1..Len(all) : all[i].branch = "b" /\ all[i].op = opsB[j]
    <3>7. \E k \in 1..M : ~(k <= NA) /\ k - NA = j
      <4>1. j \in 1..NB
        BY <1>3 DEF ExtractChanges
      <4>2. QED BY <1>1, <1>3, <4>1
    <3>8. opsB[j].kind # "Equal"
      BY DEF ExtractChanges
    <3>9. PICK k \in 1..M : ~(k <= NA) /\ k - NA = j
      BY <3>7
    <3>2. change(k) = [branch |-> "b", op |-> opsB[j]]
      BY <1>4, <3>9
    <3>3. changed(k)
      <4>1. change(k).op = opsB[j]
        <5> HIDE DEF change
        <5> QED BY <3>2
      <4>2. QED BY <3>8, <4>1
    <3> HIDE DEF change, changed
    <3>4. PICK x \in 1..Len(s) : s[x] = k
      BY <1>17, <3>3
    <3> HIDE DEF all
    <3>5. all[x] = change(k) /\ x \in 1..Len(all)
      BY <1>20, <1>26, <3>4
    <3>6. QED BY <3>2, <3>5
  <2> HIDE DEF all, change, changed
  <2>4. QED BY <2>1, <2>2, <2>3 DEF MadeOf
<1> HIDE DEF all, change, changed
<1>28. \A i \in 1..Len(s) : /\ all[i] = change(s[i]) /\ s[i] \in 1..M /\ changed(s[i])
                            /\ Pos(all[i]) = pos[s[i]] /\ pos[s[i]] \in Nat
                            /\ s[i] \in Nat
                            /\ Lo(all[i]) < Hi(all[i]) /\ (~Adds(all[i]) => Hi(all[i]) <= n)
                            /\ Lo(all[i]) \in Nat /\ Hi(all[i]) \in Nat
                            /\ Adds(all[i]) => Pos(all[i]) = 0
                            /\ ~Adds(all[i]) => Pos(all[i]) = Lo(all[i])
                            /\ all[i].branch = "a" <=> s[i] <= NA
                            /\ all[i].branch \in {"a", "b"}
  <2>1. ASSUME NEW i \in 1..Len(s)
        PROVE  /\ all[i] = change(s[i]) /\ s[i] \in 1..M /\ changed(s[i])
               /\ Pos(all[i]) = pos[s[i]] /\ pos[s[i]] \in Nat /\ s[i] \in Nat
               /\ all[i] \in LineChanges
               /\ Lo(all[i]) < Hi(all[i]) /\ (~Adds(all[i]) => Hi(all[i]) <= n)
               /\ all[i].branch = "a" <=> s[i] <= NA
    <3>1. all[i] = change(s[i]) /\ s[i] \in 1..M /\ changed(s[i])
      BY <1>18, <1>20
    <3>2. s[i] \in Nat /\ Pos(all[i]) = pos[s[i]] /\ pos[s[i]] \in Nat
      BY <1>24, <3>1
    <3>3. QED BY <1>22, <3>1, <3>2
  <2>2. QED BY <2>1, ReachIs
<1>29. ASSUME NEW i \in 1..Len(s), NEW j \in 1..Len(s), i < j,
              all[i].branch = all[j].branch, Adds(all[i]) <=> Adds(all[j])
       PROVE  Hi(all[i]) <= Lo(all[j])
  <2>1. CASE s[i] < s[j]
    <3>1. /\ s[i] \in 1..M /\ s[j] \in 1..M /\ changed(s[i]) /\ changed(s[j])
          /\ all[i] = change(s[i]) /\ all[j] = change(s[j])
      BY <1>28, <1>29
    <3>2. /\ change(s[i]).branch = change(s[j]).branch
          /\ Adds(change(s[i])) <=> Adds(change(s[j]))
      BY <1>29, <3>1
    <3>3. Hi(change(s[i])) <= Lo(change(s[j]))
      BY <1>23, <2>1, <3>1, <3>2
    <3>4. QED BY <3>1, <3>3
  <2>2. CASE ~(s[i] < s[j])
    <3>1. pos[s[i]] < pos[s[j]]
      BY <1>25, <1>29, <2>2
    <3>2. s[j] < s[i]
      <4>1. s[i] # s[j]
        BY <1>28, <3>1
      <4>2. QED BY <1>28, <2>2, <4>1
    <3>3. Hi(all[j]) <= Lo(all[i])
      BY <1>23, <1>28, <1>29, <3>2
    <3>4. Pos(all[i]) = Lo(all[i]) /\ Pos(all[j]) = Lo(all[j])
      <4>1. Pos(all[j]) = pos[s[j]] /\ pos[s[i]] \in Nat /\ pos[s[j]] \in Nat
        BY <1>28
      <4>2. Pos(all[j]) # 0
        BY <3>1, <4>1
      <4>3. ~Adds(all[j]) /\ ~Adds(all[i])
        BY <1>28, <1>29, <4>2
      <4>4. QED BY <1>28, <4>3
    <3>5. QED BY <1>28, <3>1, <3>3, <3>4
  <2>3. QED BY <2>1, <2>2
<1>30. ASSUME NEW i \in 1..Len(s), NEW j \in 1..Len(s), i < j PROVE Pos(all[i]) <= Pos(all[j])
  <2>1. /\ Pos(all[i]) = pos[s[i]] /\ Pos(all[j]) = pos[s[j]]
        /\ pos[s[i]] \in Nat /\ pos[s[j]] \in Nat
    BY <1>28
  <2>2. pos[s[i]] < pos[s[j]] \/ pos[s[i]] = pos[s[j]]
    BY <1>25, <1>30
  <2>3. QED BY <2>1, <2>2
<1>31. ASSUME NEW i \in 1..Len(s), NEW j \in 1..Len(s), NEW k \in 1..Len(s), i < k, k < j,
              Pos(all[j]) = 0, all[i].branch = all[j].branch
       PROVE  all[k].branch = all[i].branch
  <2>1. i < j
    BY <1>31
  <2>2. Pos(all[k]) <= 0 /\ Pos(all[i]) <= 0
    BY <1>30, <1>31, <2>1
  <2>3. pos[s[i]] = 0 /\ pos[s[k]] = 0 /\ pos[s[j]] = 0
    <3>1. /\ Pos(all[i]) = pos[s[i]] /\ Pos(all[j]) = pos[s[j]] /\ Pos(all[k]) = pos[s[k]]
          /\ pos[s[i]] \in Nat /\ pos[s[k]] \in Nat
      BY <1>28
    <3>2. QED BY <1>31, <2>2, <3>1
  <2>4. s[i] < s[k] /\ s[k] < s[j]
    BY <1>25, <1>31, <2>3
  <2>8. s[i] \in Nat /\ s[j] \in Nat /\ s[k] \in Nat
    BY <1>28
  <2>5. CASE all[i].branch = "a"
    <3>1. s[j] <= NA
      BY <1>28, <1>31, <2>5
    <3>2. s[k] <= NA
      BY <1>1, <2>4, <2>8, <3>1
    <3>3. QED BY <1>28, <2>5, <3>2
  <2>6. CASE all[i].branch # "a"
    <3>1. ~(s[i] <= NA)
      BY <1>28, <2>6
    <3>2. ~(s[k] <= NA)
      BY <1>1, <2>4, <2>8, <3>1
    <3>3. all[k].branch = "b" /\ all[i].branch = "b"
      BY <1>28, <2>6, <3>2
    <3>4. QED BY <3>3
  <2>7. QED BY <2>5, <2>6
<1>32. Ordered(all, n)
  <2>1. \A i \in 1..Len(s) : Lo(all[i]) < Hi(all[i]) /\ (~Adds(all[i]) => Hi(all[i]) <= n)
    BY <1>28
  <2>2. \A i, j \in 1..Len(s) : i < j =>
          /\ Pos(all[i]) <= Pos(all[j])
          /\ all[i].branch = all[j].branch /\ (Adds(all[i]) <=> Adds(all[j])) => Hi(all[i]) <= Lo(all[j])
    BY <1>29, <1>30
  <2>3. \A i, j, k \in 1..Len(s) :
          i < k /\ k < j /\ Pos(all[j]) = 0 /\ all[i].branch = all[j].branch =>
             all[k].branch = all[i].branch
    BY <1>31
  <2>4. QED BY <1>26, <2>1, <2>2, <2>3 DEF Ordered
<1>33. QED BY <1>2, <1>27, <1>32

-----------------------------------------------------------------------------
(* The groups of changes that touch (group_overlapping_changes) *)

\* Two changes that touch a line.
Meets(c, d) == Lo(c) < Hi(d) /\ Lo(d) < Hi(c)

\* Changes overlap (changes_overlap) when they touch a line.
LEMMA MeetsIs == \A c, d : ChangesOverlap(c.op, d.op) <=> Meets(c, d)
BY DEF ChangesOverlap, Meets, Lo, Hi

\* The items of a sequence with one more at its end.
LEMMA Appended ==
    ASSUME NEW X, NEW s \in Seq(X), NEW e \in X
    PROVE  /\ Append(s, e) \in Seq(X) /\ Len(Append(s, e)) = Len(s) + 1
           /\ Append(s, e)[Len(s) + 1] = e
           /\ \A k \in 1..Len(s) : Append(s, e)[k] = s[k]
OBVIOUS

\* Lists of one and of two members.
LEMMA MembersAre ==
    \A x, y : /\ Range(<<x>>) = {x} /\ Range(<<x, y>>) = {x, y}
              /\ Append(<<x>>, y) = <<x, y>> /\ Len(<<x>>) = 1 /\ Len(<<x, y>>) = 2
<1>1. ASSUME NEW x, NEW y PROVE Range(<<x>>) = {x} /\ Range(<<x, y>>) = {x, y}
  <2>1. DOMAIN <<x>> = {1} /\ DOMAIN <<x, y>> = {1, 2} /\ <<x>>[1] = x /\ <<x, y>>[1] = x /\ <<x, y>>[2] = y
    OBVIOUS
  <2>2. QED BY <2>1 DEF Range
<1>2. ASSUME NEW x, NEW y
      PROVE  Append(<<x>>, y) = <<x, y>> /\ Len(<<x>>) = 1 /\ Len(<<x, y>>) = 2
  <2>1. Len(<<x>>) = 1 /\ Len(<<x, y>>) = 2
    OBVIOUS
  <2> DEFINE X == {x, y}
             s == <<x>>
             t == <<x, y>>
             u == Append(s, y)
  <2>8. s \in Seq(X) /\ y \in X
    OBVIOUS
  <2>2. /\ Len(s) = 1 /\ s[1] = x
        /\ t \in Seq(X) /\ Len(t) = 2 /\ t[1] = x /\ t[2] = y
    OBVIOUS
  <2> HIDE DEF X, s, t
  <2>3. u \in Seq(X) /\ Len(u) = 2 /\ u[1] = x /\ u[2] = y
    <3>1. /\ u \in Seq(X) /\ Len(u) = Len(s) + 1 /\ u[Len(s) + 1] = y
          /\ \A k \in 1..Len(s) : u[k] = s[k]
      BY <2>8, Appended
    <3> HIDE DEF u
    <3>2. 1 \in 1..Len(s) /\ Len(s) + 1 = 2
      BY <2>2
    <3>3. QED BY <2>2, <3>1, <3>2
  <2> HIDE DEF u
  <2>4. t = [k \in 1..2 |-> t[k]] /\ u = [k \in 1..2 |-> u[k]]
    BY <2>2, <2>3
  <2>5. \A k \in 1..2 : t[k] = u[k]
    <3>1. \A k \in 1..2 : k = 1 \/ k = 2
      OBVIOUS
    <3>2. QED BY <2>2, <2>3, <3>1
  <2>6. t = u
    BY <2>4, <2>5
  <2>7. QED BY <2>1, <2>6 DEF s, t, u
<1>3. QED BY <1>1, <1>2

\* The changes from the first to the last are of one branch, all touch the first.
Run(all, first, last) ==
    \A j \in (first + 1)..last : all[j].branch = all[first].branch /\ Meets(all[first], all[j])

\* A group is a run, or a run and the first change of the other branch after it.
Alone(all, i, g) == g.members = <<all[i]>> /\ Run(all, i, g.next - 1)
Paired(all, i, g, s) ==
    /\ s \in (i + 1)..(g.next - 1)
    /\ g.members = <<all[i], all[s]>> /\ Run(all, i, s - 1)
    /\ all[s].branch # all[i].branch /\ Meets(all[i], all[s])
IsGroup(all, i, g) == Alone(all, i, g) \/ \E s \in 1..Len(all) : Paired(all, i, g, s)
Ends(all, g) == \A m \in Range(g.members) : ~Meets(m, all[g.next])

\* A change that touches a group makes a group with it.
LEMMA Grows ==
    ASSUME NEW all \in Seq(LineChanges), NEW i \in 1..Len(all), NEW g, IsGroup(all, i, g),
           NEW e \in 1..Len(all), i < e, g.next = e,
           \E m \in Range(g.members) : Meets(m, all[e]), NEW new, new.next = e + 1,
           new.members = IF \E m \in Range(g.members) : m.branch = all[e].branch
                         THEN g.members ELSE Append(g.members, all[e])
    PROVE  IsGroup(all, i, new)
<1>1. e \in Nat /\ i \in Nat /\ Len(all) \in Nat /\ \A j \in 1..Len(all) : all[j] \in LineChanges
  OBVIOUS
<1>2. \A j \in 1..Len(all) : all[j].branch \in {"a", "b"}
  BY <1>1, ReachIs
<1>3. ASSUME Alone(all, i, g) PROVE IsGroup(all, i, new)
  <2>1. g.members = <<all[i]>> /\ Range(g.members) = {all[i]} /\ Run(all, i, e - 1)
    BY <1>3, MembersAre DEF Alone
  <2>2. Meets(all[i], all[e])
    BY <2>1
  <2>3. CASE all[e].branch = all[i].branch
    <3>1. new.members = <<all[i]>>
      BY <2>1, <2>3
    <3>2. \A j \in (i + 1)..e : j \in (i + 1)..(e - 1) \/ j = e
      BY <1>1
    <3>3. Run(all, i, e)
      BY <2>1, <2>2, <2>3, <3>2 DEF Run
    <3>4. new.next - 1 = e
      BY <1>1
    <3>5. QED BY <3>1, <3>3, <3>4 DEF IsGroup, Alone
  <2>4. CASE all[e].branch # all[i].branch
    <3>1. new.members = Append(g.members, all[e])
      BY <2>1, <2>4
    <3>2. new.members = <<all[i], all[e]>>
      BY <2>1, <3>1, MembersAre
    <3>3. e \in (i + 1)..(new.next - 1)
      BY <1>1
    <3>4. Paired(all, i, new, e)
      BY <2>1, <2>2, <2>4, <3>2, <3>3 DEF Paired
    <3>5. QED BY <3>4 DEF IsGroup
  <2>5. QED BY <2>3, <2>4
<1>4. ASSUME NEW s \in 1..Len(all), Paired(all, i, g, s) PROVE IsGroup(all, i, new)
  <2>1. /\ g.members = <<all[i], all[s]>> /\ Range(g.members) = {all[i], all[s]}
        /\ all[s].branch # all[i].branch /\ s \in (i + 1)..(e - 1)
    BY <1>4, MembersAre DEF Paired
  <2>2. all[e].branch = all[i].branch \/ all[e].branch = all[s].branch
    BY <1>2, <2>1
  <2>3. new.members = <<all[i], all[s]>>
    BY <2>1, <2>2
  <2>4. s \in (i + 1)..(new.next - 1)
    BY <1>1, <2>1
  <2>5. Paired(all, i, new, s)
    BY <1>4, <2>3, <2>4 DEF Paired
  <2>6. QED BY <2>5 DEF IsGroup
<1>5. QED BY <1>3, <1>4 DEF IsGroup

\* The group of a change ends at one that touches none of its members
\* (group_overlapping_changes).
LEMMA GroupIs ==
    ASSUME NEW all \in Seq(LineChanges), NEW i \in 1..Len(all)
    PROVE  LET g == Group(all, i)
           IN  /\ IsGroup(all, i, g) /\ g.next \in (i + 1)..(Len(all) + 1)
               /\ g.next <= Len(all) => Ends(all, g)
<1> DEFINE n == Len(all) - i
           g0 == [members |-> <<all[i]>>, next |-> i + 1]
           touched(g, j) == \E m \in Range(g.members) : ChangesOverlap(m.op, all[i + j].op)
           known(g, j) == \E m \in Range(g.members) : m.branch = all[i + j].branch
           grow(g, j) ==
               IF g.next # i + j \/ ~touched(g, j) THEN g
               ELSE [members |-> IF known(g, j) THEN g.members ELSE Append(g.members, all[i + j]),
                     next |-> i + j + 1]
           S == [members : Seq(LineChanges), next : Nat]
           step == [j \in 1..n |-> [g \in S |-> grow(g, j)]]
           Is(f) == f = [j \in 0..n |-> IF j = 0 THEN g0 ELSE grow(f[j - 1], j)]
           F == CHOOSE f : Is(f)
<1>1. n \in Nat /\ i \in Nat /\ Len(all) \in Nat /\ i + n = Len(all)
  OBVIOUS
<1>2. Group(all, i) = F[n]
  BY DEF Group, Loop
<1>3. \A j \in 1..n : i + j \in 1..Len(all) /\ all[i + j] \in LineChanges /\ i < i + j /\ i + j + 1 \in Nat
  OBVIOUS
<1> HIDE DEF n
<1>4. g0 \in S
  <2>1. all[i] \in LineChanges
    OBVIOUS
  <2>2. QED BY <1>1, <2>1
<1>5. ASSUME NEW g \in S, NEW j \in 1..n PROVE grow(g, j) \in S
  <2>1. CASE g.next # i + j \/ ~touched(g, j)
    <3> HIDE DEF S, touched, known
    <3> QED BY <2>1
  <2>2. CASE ~(g.next # i + j \/ ~touched(g, j)) /\ known(g, j)
    <3>1. grow(g, j) = [members |-> g.members, next |-> i + j + 1]
      <4> HIDE DEF S, touched, known
      <4> QED BY <2>2
    <3> HIDE DEF grow, touched, known
    <3>2. QED BY <1>3, <3>1
  <2>3. CASE ~(g.next # i + j \/ ~touched(g, j)) /\ ~known(g, j)
    <3>1. grow(g, j) = [members |-> Append(g.members, all[i + j]), next |-> i + j + 1]
      <4> HIDE DEF S, touched, known
      <4> QED BY <2>3
    <3> HIDE DEF grow, touched, known
    <3> DEFINE e == all[i + j]
    <3>2. e \in LineChanges /\ g.members \in Seq(LineChanges)
      BY <1>3
    <3> HIDE DEF e
    <3>3. Append(g.members, e) \in Seq(LineChanges)
      BY <3>2
    <3>4. QED BY <1>3, <3>1, <3>3 DEF e
  <2>4. QED BY <2>1, <2>2, <2>3
<1>6. step \in [1..n -> [S -> S]] /\ \A j \in 1..n, g \in S : step[j][g] = grow(g, j)
  <2> HIDE DEF S, grow
  <2>1. \A j \in 1..n, g \in S : grow(g, j) \in S
    BY <1>5
  <2>2. QED BY <2>1
<1>7. \A g, j : /\ g.next # i + j \/ ~touched(g, j) => grow(g, j) = g
                /\ g.next = i + j /\ touched(g, j) =>
                      /\ grow(g, j).next = i + j + 1
                      /\ grow(g, j).members = IF known(g, j) THEN g.members
                                              ELSE Append(g.members, all[i + j])
  <2> HIDE DEF touched, known
  <2> QED OBVIOUS
<1>19. g0.next = i + 1 /\ g0.members = <<all[i]>>
  OBVIOUS
<1> HIDE DEF step, grow, S, g0
<1>8. \E f : Is(f)
  <2>1. PICK f : Iterates(f, n, g0, step, S)
    BY <1>1, <1>4, <1>6, Iterated
  <2>2. f \in [0..n -> S] /\ f[0] = g0 /\ \A j \in 1..n : f[j] = step[j][f[j - 1]]
    BY <2>1 DEF Iterates
  <2>3. \A j \in 1..n : j - 1 \in 0..n
    BY <1>1
  <2>4. \A j \in 1..n : f[j] = grow(f[j - 1], j)
    BY <1>6, <2>2, <2>3
  <2>5. Is(f)
    BY <1>1, <2>2, <2>4
  <2>6. QED BY <2>5
<1>9. Is(F)
  BY <1>8
<1> HIDE DEF F
<1>10. F[0] = g0 /\ \A j \in 1..n : F[j] = grow(F[j - 1], j)
  <2>1. \A j \in 0..n : F[j] = IF j = 0 THEN g0 ELSE grow(F[j - 1], j)
    BY <1>9
  <2>2. QED BY <1>1, <2>1
<1> DEFINE Good(j) == /\ IsGroup(all, i, F[j]) /\ F[j].next \in (i + 1)..(i + j + 1)
                      /\ F[j].next <= i + j => Ends(all, F[j])
           P == {j \in 0..n : Good(j)}
<1>11. 0 \in P
  <2>1. Run(all, i, i + 1 - 1)
    BY <1>1 DEF Run
  <2>2. IsGroup(all, i, F[0])
    BY <1>10, <1>19, <2>1 DEF IsGroup, Alone
  <2>3. F[0].next = i + 1
    BY <1>10, <1>19
  <2>4. QED BY <1>1, <2>2, <2>3
<1>12. ASSUME NEW j \in 1..n, j - 1 \in P PROVE j \in P
  <2> DEFINE g == F[j - 1]
  <2>1. /\ IsGroup(all, i, g) /\ g.next \in (i + 1)..(i + j) /\ F[j] = grow(g, j)
        /\ g.next <= i + j - 1 => Ends(all, g)
    <3>1. i + (j - 1) + 1 = i + j /\ i + (j - 1) = i + j - 1
      BY <1>1
    <3>2. QED BY <1>10, <1>12, <3>1
  <2> HIDE DEF g
  <2>2. CASE g.next # i + j
    <3>1. F[j] = g
      BY <1>7, <2>1, <2>2
    <3>2. g.next <= i + j - 1 /\ g.next \in (i + 1)..(i + j + 1)
      BY <1>1, <2>1, <2>2
    <3>3. Good(j)
      BY <2>1, <3>1, <3>2
    <3> HIDE DEF Good
    <3>4. QED BY <1>1, <3>3
  <2>3. CASE g.next = i + j /\ ~touched(g, j)
    <3>1. F[j] = g
      BY <1>7, <2>1, <2>3
    <3>2. Ends(all, g)
      BY <2>3, MeetsIs DEF Ends
    <3>3. g.next \in (i + 1)..(i + j + 1)
      BY <1>1, <2>1
    <3>4. Good(j)
      BY <2>1, <3>1, <3>2, <3>3
    <3> HIDE DEF Good
    <3>5. QED BY <1>1, <3>4
  <2>4. CASE g.next = i + j /\ touched(g, j)
    <3>1. /\ F[j].next = i + j + 1
          /\ F[j].members = IF known(g, j) THEN g.members ELSE Append(g.members, all[i + j])
      BY <1>7, <2>1, <2>4
    <3>2. \E m \in Range(g.members) : Meets(m, all[i + j])
      BY <2>4, MeetsIs
    <3>3. i + j \in 1..Len(all) /\ i < i + j
      BY <1>3
    <3>4. IsGroup(all, i, F[j])
      <4> DEFINE e == i + j
                 new == F[j]
      <4>1. /\ e \in 1..Len(all) /\ i < e /\ g.next = e /\ new.next = e + 1
            /\ \E m \in Range(g.members) : Meets(m, all[e])
            /\ new.members = IF \E m \in Range(g.members) : m.branch = all[e].branch
                             THEN g.members ELSE Append(g.members, all[e])
        BY <2>4, <3>1, <3>2, <3>3
      <4> HIDE DEF e, new
      <4>2. IsGroup(all, i, new)
        BY <2>1, <4>1, Grows
      <4>3. QED BY <4>2 DEF new
    <3>5. F[j].next \in (i + 1)..(i + j + 1) /\ ~(F[j].next <= i + j)
      BY <1>1, <3>1
    <3>6. Good(j)
      BY <3>4, <3>5
    <3> HIDE DEF Good
    <3>7. QED BY <1>1, <3>6
  <2>5. QED BY <2>2, <2>3, <2>4
<1>13. n \in P
  <2> HIDE DEF P
  <2>1. \A j \in 0..n : j \in P
    BY <1>1, <1>11, <1>12, Counted
  <2>2. QED BY <1>1, <2>1
<1>14. QED BY <1>1, <1>2, <1>13

-----------------------------------------------------------------------------
(* A group is merged *)

\* The greater of two numbers.
LEMMA MaxOfTwo == \A i, j \in Nat : Max({i, j}) \in {i, j} /\ i <= Max({i, j}) /\ j <= Max({i, j})
<1>1. ASSUME NEW i \in Nat, NEW j \in Nat
      PROVE  Max({i, j}) \in {i, j} /\ i <= Max({i, j}) /\ j <= Max({i, j})
  <2> DEFINE T == {i, j}
  <2>1. T \in SUBSET Nat /\ T # {} /\ i + j \in Nat /\ \A k \in T : k <= i + j
    OBVIOUS
  <2>2. i \in T /\ j \in T
    OBVIOUS
  <2> HIDE DEF T
  <2>3. Max(T) \in T /\ \A k \in T : k <= Max(T)
    BY <2>1, MaxIs
  <2>4. QED BY <2>2, <2>3 DEF T
<1>2. QED BY <1>1

\* Lines of a text, in a range or of an operation, are lines.
LEMMA SlicesAre ==
    ASSUME NEW X, NEW text \in Seq(X)
    PROVE  /\ \A first, last \in Nat : Lines(text, <<first, last>>) \in Seq(X)
           /\ \A op \in DiffOps : New(op, text) \in Seq(X)
<1>1. ASSUME NEW r, r[1] \in Nat, r[2] \in Nat PROVE Lines(text, r) \in Seq(X)
  <2> DEFINE first == r[1] + 1
             last == MinOf(r[2], Len(text))
  <2>1. first \in Nat \ {0} /\ last \in Nat /\ last <= Len(text)
    BY <1>1 DEF MinOf
  <2>2. Lines(text, r) = SubSeq(text, first, last)
    BY DEF Lines
  <2> HIDE DEF first, last
  <2>3. SubSeq(text, first, last) \in Seq(X)
    BY <2>1
  <2>4. QED BY <2>2, <2>3
<1>2. \A first, last \in Nat : Lines(text, <<first, last>>) \in Seq(X)
  BY <1>1
<1>3. ASSUME NEW op \in DiffOps PROVE New(op, text) \in Seq(X)
  <2>1. CASE op.new = <<>>
    BY <2>1 DEF New
  <2>2. CASE op.new # <<>>
    <3>1. op.new[1] \in Nat /\ op.new[2] \in Nat
      BY <2>2 DEF DiffOps, Ranges
    <3>2. QED BY <1>1, <2>2, <3>1 DEF New
  <2>3. QED BY <2>1, <2>2
<1>4. QED BY <1>2, <1>3

\* A conflict ends where the changes of base lines in it end.
EndOf(c, d, start, end) ==
    /\ ~Adds(c) => Hi(c) <= end
    /\ ~Adds(d) => Hi(d) <= end
    /\ \/ Adds(c) /\ Adds(d) /\ end = start
       \/ ~Adds(c) /\ end = Hi(c)
       \/ ~Adds(d) /\ end = Hi(d)

\* A conflict of two changes ends there (the last base line of its changes, or
\* where it starts).
LEMMA EndIs ==
    ASSUME NEW c \in LineChanges, NEW d \in LineChanges, NEW start \in Nat
    PROVE  LET ends == BaseEnds(<<c, d>>)
               end == IF ends = {} THEN start ELSE Max(ends)
           IN  end \in Nat /\ EndOf(c, d, start, end)
<1> DEFINE ends == BaseEnds(<<c, d>>)
<1>1. ends = {m.op.old[2] : m \in {m \in {c, d} : m.op.old # <<>>}}
  BY MembersAre DEF BaseEnds
<1>2. \A k : k \in ends <=> (~Adds(c) /\ k = Hi(c)) \/ (~Adds(d) /\ k = Hi(d))
  <2>1. \A m \in {c, d} : m.op.old # <<>> => ~Adds(m) /\ m.op.old[2] = Hi(m)
    BY ReachIs DEF Adds
  <2>2. \A m \in {c, d} : ~Adds(m) => m.op.old # <<>> /\ m.op.old[2] = Hi(m)
    BY ReachIs DEF Adds
  <2>3. QED BY <1>1, <2>1, <2>2
<1>3. Hi(c) \in Nat /\ Hi(d) \in Nat
  BY ReachIs
<1> HIDE DEF ends
<1>4. CASE ends = {}
  BY <1>2, <1>4 DEF EndOf, ends
<1>5. CASE ends # {}
  <2>1. ends \in SUBSET Nat /\ Hi(c) + Hi(d) \in Nat /\ \A k \in ends : k <= Hi(c) + Hi(d)
    BY <1>2, <1>3
  <2>2. Max(ends) \in ends /\ \A k \in ends : k <= Max(ends)
    BY <1>5, <2>1, MaxIs
  <2> DEFINE end == Max(ends)
  <2> HIDE DEF end
  <2>3. end \in ends /\ \A k \in ends : k <= end
    BY <2>2 DEF end
  <2>4. end \in Nat /\ EndOf(c, d, start, end)
    BY <1>2, <1>3, <2>3 DEF EndOf
  <2>5. QED BY <1>5, <2>4 DEF ends, end
<1>6. QED BY <1>4, <1>5

\* The states of a merge, and where its next change begins.
States(X) == [base : Nat, merged : Seq(X), next : Nat \ {0}, conflicts : Seq(Nat \X Nat)]
From(all, st) == Max({st.base, Pos(all[st.next])})

\* A change is merged, or two that clash are a conflict.
PassesOver(all, st, new) ==
    /\ new.next = st.next + 1 /\ new.conflicts = st.conflicts
    /\ new.base = IF Adds(all[st.next]) THEN From(all, st) ELSE Hi(all[st.next])
    /\ \E c \in (st.next + 1)..(Len(all) + 1) :
          Run(all, st.next, c - 1) /\ (c <= Len(all) => ~Meets(all[st.next], all[c]))

ClashAt(all, st, new, s) ==
    /\ s \in (st.next + 1)..(new.next - 1) /\ new.next <= Len(all) + 1
    /\ Run(all, st.next, s - 1)
    /\ all[s].branch # all[st.next].branch /\ Meets(all[st.next], all[s])
    /\ new.next <= Len(all) => ~Meets(all[st.next], all[new.next]) /\ ~Meets(all[s], all[new.next])
    /\ new.conflicts = Append(st.conflicts, <<From(all, st), new.base>>)
    /\ EndOf(all[st.next], all[s], From(all, st), new.base)

\* So a group is merged (three_way_merge): its first change alone, or all of it
\* as a conflict.
LEMMA MergeGroupIs ==
    ASSUME NEW X, NEW old \in Seq(X), NEW a \in Seq(X), NEW b \in Seq(X),
           NEW all \in Seq(LineChanges), NEW st \in States(X), st.next <= Len(all)
    PROVE  LET new == MergeGroup(old, a, b, all, st)
           IN  /\ new \in States(X)
               /\ PassesOver(all, st, new) \/ \E s \in 1..Len(all) : ClashAt(all, st, new, s)
<1> DEFINE i == st.next
           g == Group(all, i)
           start == From(all, st)
           merged == st.merged \o Lines(old, <<st.base, start>>)
           new == MergeGroup(old, a, b, all, st)
<1>1. /\ st.base \in Nat /\ st.merged \in Seq(X) /\ i \in 1..Len(all)
      /\ st.conflicts \in Seq(Nat \X Nat) /\ Len(all) \in Nat
  BY DEF States
<1>2. \A j \in 1..Len(all) : all[j] \in LineChanges /\ Pos(all[j]) \in Nat
  <2>1. \A j \in 1..Len(all) : all[j] \in LineChanges
    OBVIOUS
  <2>2. QED BY <2>1, ReachIs
<1>3. start \in Nat
  BY <1>1, <1>2, MaxOfTwo DEF From
<1>4. new = IF Len(g.members) > 1 THEN MergeClash(st, g, merged, start)
            ELSE MergeChange(a, b, st, all[i], merged, start)
  BY DEF MergeGroup, From, Pos
<1>5. /\ IsGroup(all, i, g) /\ g.next \in (i + 1)..(Len(all) + 1)
      /\ g.next <= Len(all) => Ends(all, g)
  BY <1>1, GroupIs
<1> HIDE DEF start, g, new
<1>6. merged \in Seq(X)
  <2>1. Lines(old, <<st.base, start>>) \in Seq(X)
    BY <1>1, <1>3, SlicesAre
  <2> DEFINE t == Lines(old, <<st.base, start>>)
  <2> HIDE DEF t
  <2>2. t \in Seq(X)
    BY <2>1 DEF t
  <2>3. st.merged \o t \in Seq(X)
    BY <1>1, <2>2
  <2>4. QED BY <2>3 DEF t
<1> HIDE DEF merged, i
<1>7. ASSUME Alone(all, i, g)
      PROVE  new \in States(X) /\ PassesOver(all, st, new)
  <2> DEFINE op == all[i].op
             source == IF all[i].branch = "a" \/ op.kind = "Insert" THEN a ELSE b
             end == IF op.old = <<>> THEN start ELSE op.old[2]
  <2>1. g.members = <<all[i]>> /\ Run(all, i, g.next - 1) /\ Range(g.members) = {all[i]}
        /\ ~(Len(g.members) > 1)
    BY <1>7, MembersAre DEF Alone
  <2>2. new = [base |-> end, merged |-> merged \o New(op, source), next |-> i + 1,
               conflicts |-> st.conflicts]
    BY <1>4, <2>1 DEF MergeChange, i
  <2>3. all[i] \in LineChanges /\ op \in DiffOps
    BY <1>1, <1>2 DEF LineChanges
  <2>4. New(op, source) \in Seq(X)
    <3>1. source \in Seq(X)
      OBVIOUS
    <3> HIDE DEF op, source
    <3>2. QED BY <2>3, <3>1, SlicesAre
  <2>5. end = IF Adds(all[i]) THEN start ELSE Hi(all[i])
    BY <2>3, ReachIs DEF Adds
  <2>6. Hi(all[i]) \in Nat
    BY <2>3, ReachIs
  <2>7. end \in Nat
    BY <1>3, <2>5, <2>6
  <2> HIDE DEF op, source, end
  <2>8. merged \o New(op, source) \in Seq(X)
    BY <1>6, <2>4
  <2>9. new \in States(X)
    BY <1>1, <2>2, <2>7, <2>8 DEF States
  <2>10. new.next = i + 1 /\ new.conflicts = st.conflicts /\ new.base = end
    BY <2>2
  <2>11. g.next <= Len(all) => ~Meets(all[i], all[g.next])
    BY <1>5, <2>1 DEF Ends
  <2>12. PassesOver(all, st, new)
    BY <1>5, <2>1, <2>5, <2>10, <2>11 DEF PassesOver, i, start
  <2>13. QED BY <2>9, <2>12
<1>8. ASSUME NEW s \in 1..Len(all), Paired(all, i, g, s)
      PROVE  new \in States(X) /\ ClashAt(all, st, new, s)
  <2> DEFINE ends == BaseEnds(<<all[i], all[s]>>)
             end == IF ends = {} THEN start ELSE Max(ends)
  <2>1. /\ g.members = <<all[i], all[s]>> /\ Range(g.members) = {all[i], all[s]}
        /\ Len(g.members) > 1
    BY <1>8, MembersAre DEF Paired
  <2>2. new = [base |-> end, merged |-> merged, next |-> g.next,
               conflicts |-> Append(st.conflicts, <<start, end>>)]
    BY <1>4, <2>1 DEF MergeClash
  <2>3. end \in Nat /\ EndOf(all[i], all[s], start, end)
    BY <1>1, <1>2, <1>3, EndIs
  <2> HIDE DEF end
  <2>4. Append(st.conflicts, <<start, end>>) \in Seq(Nat \X Nat)
    <3> DEFINE N2 == Nat \X Nat
               x == <<start, end>>
    <3>1. x \in N2 /\ st.conflicts \in Seq(N2)
      BY <1>1, <1>3, <2>3
    <3> HIDE DEF N2, x
    <3>2. Append(st.conflicts, x) \in Seq(N2)
      BY <3>1
    <3>3. QED BY <3>2 DEF N2, x
  <2>5. new \in States(X)
    <3>1. g.next \in Nat \ {0}
      BY <1>1, <1>5
    <3>2. QED BY <1>6, <2>2, <2>3, <2>4, <3>1 DEF States
  <2>6. /\ new.next = g.next /\ new.base = end
        /\ new.conflicts = Append(st.conflicts, <<start, end>>)
    BY <2>2
  <2>7. g.next <= Len(all) => ~Meets(all[i], all[g.next]) /\ ~Meets(all[s], all[g.next])
    BY <1>5, <2>1 DEF Ends
  <2>8. g.next <= Len(all) + 1
    BY <1>1, <1>5
  <2>9. ClashAt(all, st, new, s)
    BY <1>8, <2>3, <2>6, <2>7, <2>8 DEF ClashAt, Paired, i, start
  <2>10. QED BY <2>5, <2>9
<1>9. QED BY <1>5, <1>7, <1>8 DEF IsGroup, new

-----------------------------------------------------------------------------
(* The conflicts of a merge *)

\* What the changes of a merge in order are.
LEMMA OrderedIs ==
    ASSUME NEW all, NEW n \in Nat, Ordered(all, n)
    PROVE  /\ all \in Seq(LineChanges) /\ Len(all) \in Nat
           /\ \A i \in 1..Len(all) :
                 /\ Lo(all[i]) \in Nat /\ Hi(all[i]) \in Nat /\ Pos(all[i]) \in Nat
                 /\ Lo(all[i]) < Hi(all[i]) /\ (~Adds(all[i]) => Hi(all[i]) <= n)
                 /\ Adds(all[i]) => Pos(all[i]) = 0
                 /\ ~Adds(all[i]) => Pos(all[i]) = Lo(all[i])
                 /\ all[i].branch \in {"a", "b"}
<1>1. all \in Seq(LineChanges)
  BY DEF Ordered
<1>2. Len(all) \in Nat /\ \A i \in 1..Len(all) : all[i] \in LineChanges
  BY <1>1
<1>3. ASSUME NEW i \in 1..Len(all)
      PROVE  /\ Lo(all[i]) \in Nat /\ Hi(all[i]) \in Nat /\ Pos(all[i]) \in Nat
             /\ Lo(all[i]) < Hi(all[i]) /\ (~Adds(all[i]) => Hi(all[i]) <= n)
             /\ Adds(all[i]) => Pos(all[i]) = 0
             /\ ~Adds(all[i]) => Pos(all[i]) = Lo(all[i])
             /\ all[i].branch \in {"a", "b"}
  <2>1. Lo(all[i]) < Hi(all[i]) /\ (~Adds(all[i]) => Hi(all[i]) <= n)
    BY DEF Ordered
  <2>2. all[i] \in LineChanges
    BY <1>2
  <2>3. QED BY <2>1, <2>2, ReachIs
<1>4. QED BY <1>1, <1>2, <1>3

\* The next base line is the first one, or follows a change of the lines before
\* it; the changes after that are of its branch up to one that does not touch it.
Past(all, st, p, c) ==
    /\ p < st.next /\ p < c
    /\ ~Adds(all[p]) /\ st.base = Hi(all[p])
    /\ \A j \in st.next..(c - 1) : all[j].branch = all[p].branch
    /\ c <= Len(all) => ~Meets(all[p], all[c])

\* Ranges of the base.
InBase(n, conflicts) ==
    \A i \in 1..Len(conflicts) : conflicts[i][1] <= conflicts[i][2] /\ conflicts[i][2] <= n

\* What holds of any merge on its way.
Within(all, n, st) ==
    /\ st.next <= Len(all) + 1 /\ st.base <= n
    /\ InBase(n, st.conflicts)
    /\ st.base = 0 \/ \E p \in 1..Len(all), c \in 1..(Len(all) + 1) : Past(all, st, p, c)

\* An insertion of the last change's branch, and one of base lines of the
\* other: if they clash, the conflict does not end before that change.
LEMMA Beyond ==
    ASSUME NEW all, NEW n \in Nat, Ordered(all, n),
           NEW p \in 1..Len(all), NEW i \in 1..Len(all), NEW s \in 1..Len(all),
           NEW c \in 1..(Len(all) + 1), p < i, i < s, p < c,
           ~Adds(all[p]), Adds(all[i]), ~Adds(all[s]),
           all[i].branch = all[p].branch, all[s].branch # all[p].branch,
           Meets(all[i], all[s]), Run(all, i, s - 1),
           \A j \in i..(c - 1) : all[j].branch = all[p].branch,
           c <= Len(all) => ~Meets(all[p], all[c])
    PROVE  Hi(all[p]) <= Hi(all[s])
<1> DEFINE N == Len(all)
<1>1. /\ N \in Nat
      /\ \A j \in 1..N : /\ Lo(all[j]) \in Nat /\ Hi(all[j]) \in Nat /\ Pos(all[j]) \in Nat
                         /\ Lo(all[j]) < Hi(all[j])
                         /\ Adds(all[j]) => Pos(all[j]) = 0
                         /\ ~Adds(all[j]) => Pos(all[j]) = Lo(all[j])
  BY OrderedIs
<1>2. \A j, k \in 1..N : j < k => Pos(all[j]) <= Pos(all[k])
  BY DEF Ordered
<1>3. \A j, k \in 1..N : j < k /\ all[j].branch = all[k].branch /\ Adds(all[j]) /\ Adds(all[k])
                            => Hi(all[j]) <= Lo(all[k])
  BY DEF Ordered
<1>4. \A j \in 1..N : p < j /\ j < i => all[j].branch = all[p].branch
  <2>1. Pos(all[i]) = 0
    BY <1>1
  <2>2. QED BY <2>1 DEF Ordered
<1>5. Lo(all[i]) < Hi(all[s])
  BY DEF Meets
<1>6. \A j \in (i + 1)..(s - 1) : all[j].branch = all[i].branch /\ Meets(all[i], all[j])
  BY DEF Run
<1>7. SUFFICES ASSUME Hi(all[s]) < Hi(all[p]) PROVE FALSE
  BY <1>1
<1>8. Lo(all[p]) = 0
  <2>1. Pos(all[p]) <= Pos(all[i]) /\ Pos(all[i]) = 0
    BY <1>1, <1>2
  <2>2. QED BY <1>1, <2>1
<1> HIDE DEF N
<1>9. Meets(all[p], all[s])
  BY <1>1, <1>7, <1>8 DEF N, Meets
<1>10. c <= s
  <2>1. ~(s \in i..(c - 1))
    OBVIOUS
  <2>2. QED BY <1>1, <2>1 DEF N
<1>11. c \in 1..N /\ c < s /\ ~Meets(all[p], all[c])
  <2>1. c <= Len(all)
    BY <1>1, <1>10 DEF N
  <2>2. c # s
    BY <1>9, <2>1
  <2>3. QED BY <1>1, <1>10, <2>1, <2>2 DEF N
<1>12. Pos(all[c]) <= Pos(all[s]) /\ Pos(all[s]) = Lo(all[s])
  BY <1>1, <1>2, <1>11 DEF N
<1>13. Hi(all[p]) <= Lo(all[c])
  <2>1. Lo(all[p]) < Hi(all[c])
    BY <1>1, <1>8, <1>11
  <2>2. ~(Lo(all[c]) < Hi(all[p]))
    BY <1>11, <2>1 DEF Meets
  <2>3. QED BY <1>1, <1>11, <2>2 DEF N
<1>14. Adds(all[c])
  <2>1. Lo(all[s]) < Hi(all[s])
    BY <1>1 DEF N
  <2>2. Lo(all[s]) \in Nat /\ Hi(all[s]) \in Nat /\ Hi(all[p]) \in Nat /\ Lo(all[c]) \in Nat
        /\ Pos(all[c]) \in Nat
    BY <1>1, <1>11 DEF N
  <2>3. Pos(all[c]) # Lo(all[c])
    BY <1>7, <1>12, <1>13, <2>1, <2>2
  <2>4. QED BY <1>1, <1>11, <2>3
<1>15. /\ Lo(all[i]) \in Nat /\ Hi(all[i]) \in Nat /\ Hi(all[p]) \in Nat /\ Hi(all[s]) \in Nat
       /\ Lo(all[c]) \in Nat /\ Hi(all[c]) \in Nat /\ Lo(all[c]) < Hi(all[c])
  BY <1>1, <1>11 DEF N
<1>16. CASE c = i
  BY <1>5, <1>7, <1>13, <1>15, <1>16
<1>17. CASE c < i
  <2>1. all[c].branch = all[i].branch
    BY <1>4, <1>11, <1>17
  <2>2. Hi(all[c]) <= Lo(all[i])
    <3>1. c \in 1..N /\ i \in 1..N
      BY <1>11 DEF N
    <3>2. QED BY <1>3, <1>14, <1>17, <2>1, <3>1
  <2>3. QED BY <1>5, <1>7, <1>13, <1>15, <2>2
<1>18. CASE i < c
  <2>1. c \in (i + 1)..(s - 1)
    BY <1>11, <1>18
  <2>2. all[c].branch = all[i].branch /\ Meets(all[i], all[c])
    BY <1>6, <2>1
  <2>3. Hi(all[i]) <= Lo(all[c])
    <3>1. c \in 1..N /\ i \in 1..N
      BY <1>11 DEF N
    <3>2. QED BY <1>3, <1>14, <1>18, <2>2, <3>1
  <2>4. Lo(all[c]) < Hi(all[i])
    BY <2>2 DEF Meets
  <2>5. QED BY <1>15, <2>3, <2>4
<1>19. c < i \/ c = i \/ i < c
  BY <1>11
<1>20. QED BY <1>16, <1>17, <1>18, <1>19

\* A conflict begins before it ends, both in the base.
LEMMA ClashIs ==
    ASSUME NEW X, NEW all, NEW n \in Nat, Ordered(all, n),
           NEW st \in States(X), Within(all, n, st), st.next <= Len(all),
           NEW new \in States(X), NEW s \in 1..Len(all), ClashAt(all, st, new, s)
    PROVE  From(all, st) <= new.base /\ new.base <= n
<1> DEFINE i == st.next
           start == From(all, st)
           end == new.base
           N == Len(all)
<1>1. /\ N \in Nat
      /\ \A j \in 1..N : /\ Lo(all[j]) \in Nat /\ Hi(all[j]) \in Nat /\ Pos(all[j]) \in Nat
                         /\ Lo(all[j]) < Hi(all[j]) /\ (~Adds(all[j]) => Hi(all[j]) <= n)
                         /\ Adds(all[j]) => Pos(all[j]) = 0
                         /\ ~Adds(all[j]) => Pos(all[j]) = Lo(all[j])
                         /\ all[j].branch \in {"a", "b"}
  BY OrderedIs
<1>2. st.base \in Nat /\ i \in 1..N /\ end \in Nat /\ new.next \in Nat
  BY DEF States
<1>3. /\ s \in 1..N /\ i < s /\ Run(all, i, s - 1)
      /\ all[s].branch # all[i].branch /\ Meets(all[i], all[s])
      /\ EndOf(all[i], all[s], start, end)
  BY <1>2 DEF ClashAt
<1>4. start \in Nat /\ start \in {st.base, Pos(all[i])}
  BY <1>1, <1>2, MaxOfTwo DEF From
<1>5. start <= n
  <2>1. st.base <= n
    BY DEF Within
  <2>2. Pos(all[i]) <= n
    <3>1. CASE Adds(all[i])
      BY <1>1, <1>2, <3>1
    <3>2. CASE ~Adds(all[i])
      <4>1. Pos(all[i]) < Hi(all[i]) /\ Hi(all[i]) <= n
        BY <1>1, <1>2, <3>2
      <4>2. Pos(all[i]) \in Nat /\ Hi(all[i]) \in Nat
        BY <1>1, <1>2
      <4>3. QED BY <4>1, <4>2
    <3>3. QED BY <3>1, <3>2
  <2>3. QED BY <1>4, <2>1, <2>2
<1> HIDE DEF i, start, end, N
<1>6. end <= n
  BY <1>1, <1>2, <1>3, <1>5 DEF EndOf
<1>7. /\ ~Adds(all[i]) => Hi(all[i]) <= end
      /\ ~Adds(all[s]) => Hi(all[s]) <= end
      /\ Adds(all[i]) /\ Adds(all[s]) => end = start
  BY <1>3 DEF EndOf
<1>12. SUFFICES start <= end
  BY <1>6 DEF start, end
<1>13. /\ Pos(all[i]) \in Nat /\ Hi(all[i]) \in Nat /\ Lo(all[i]) < Hi(all[i])
       /\ Lo(all[i]) \in Nat /\ Hi(all[s]) \in Nat
  BY <1>1, <1>2, <1>3
<1>8. CASE start = Pos(all[i])
  <2>1. CASE Adds(all[i])
    <3>1. Pos(all[i]) = 0
      BY <1>1, <1>2, <2>1
    <3>2. QED BY <1>2, <1>8, <3>1
  <2>2. CASE ~Adds(all[i])
    <3>1. Pos(all[i]) = Lo(all[i]) /\ Hi(all[i]) <= end
      BY <1>1, <1>2, <1>7, <2>2
    <3>2. QED BY <1>2, <1>8, <1>13, <3>1
  <2>3. QED BY <2>1, <2>2
<1>9. CASE start = st.base /\ st.base = 0
  BY <1>2, <1>9
<1>10. CASE start = st.base /\ st.base # 0
  <2>1. PICK p \in 1..N, c \in 1..(N + 1) : Past(all, st, p, c)
    BY <1>10 DEF Within, N
  <2>2. /\ p < i /\ p < c /\ ~Adds(all[p]) /\ st.base = Hi(all[p])
        /\ \A j \in i..(c - 1) : all[j].branch = all[p].branch
        /\ c <= N => ~Meets(all[p], all[c])
    BY <2>1 DEF Past, i, N
  <2>3. \A j \in 1..N : p < j /\ all[j].branch = all[p].branch /\ ~Adds(all[j])
                           => Hi(all[p]) <= Lo(all[j])
    BY <2>2 DEF Ordered, N
  <2>4. SUFFICES Hi(all[p]) <= end
    BY <1>10, <2>2
  <2>5. CASE Adds(all[i]) /\ Adds(all[s])
    BY <1>2, <1>7, <1>10, <2>2, <2>5
  <2>6. CASE ~Adds(all[i]) /\ all[i].branch = all[p].branch
    <3>1. Hi(all[p]) <= Lo(all[i])
      BY <1>2, <2>2, <2>3, <2>6
    <3>2. QED BY <1>1, <1>2, <1>7, <2>6, <3>1
  <2>7. CASE ~Adds(all[s]) /\ all[s].branch = all[p].branch
    <3>1. p < s
      BY <1>2, <1>3, <2>2
    <3>2. Hi(all[p]) <= Lo(all[s])
      BY <1>3, <2>3, <2>7, <3>1
    <3>3. QED BY <1>1, <1>2, <1>3, <1>7, <2>7, <3>2
  <2>8. CASE ~Adds(all[i]) /\ Adds(all[s]) /\ all[i].branch # all[p].branch
    <3>1. all[p].branch = all[s].branch
      BY <1>1, <1>2, <1>3, <2>8
    <3>2. Pos(all[s]) = 0
      BY <1>1, <1>3, <2>8
    <3>3. all[i].branch = all[p].branch
      BY <1>2, <1>3, <2>2, <3>1, <3>2 DEF Ordered, N
    <3>4. QED BY <2>8, <3>3
  <2>9. CASE Adds(all[i]) /\ ~Adds(all[s]) /\ all[s].branch # all[p].branch
    <3>1. all[i].branch = all[p].branch
      BY <1>1, <1>2, <1>3, <2>9
    <3>2. Hi(all[p]) <= Hi(all[s])
      <4>1. /\ p \in 1..Len(all) /\ i \in 1..Len(all) /\ s \in 1..Len(all) /\ c \in 1..(Len(all) + 1)
            /\ c <= Len(all) => ~Meets(all[p], all[c])
        BY <1>2, <2>2 DEF N
      <4>2. QED BY <1>3, <2>2, <2>9, <3>1, <4>1, Beyond
    <3>3. Hi(all[s]) <= end
      BY <1>7, <2>9
    <3>4. Hi(all[p]) \in Nat
      BY <1>1
    <3>5. QED BY <1>2, <1>13, <3>2, <3>3, <3>4
  <2>10. all[i].branch = all[p].branch \/ all[s].branch = all[p].branch
    BY <1>1, <1>2, <1>3
  <2>11. QED BY <2>5, <2>6, <2>7, <2>8, <2>9, <2>10
<1>11. QED BY <1>4, <1>8, <1>9, <1>10

\* A merge stays in the base.
LEMMA StaysWithin ==
    ASSUME NEW X, NEW all, NEW n \in Nat, Ordered(all, n),
           NEW st \in States(X), Within(all, n, st), st.next <= Len(all),
           NEW new \in States(X),
           PassesOver(all, st, new) \/ \E s \in 1..Len(all) : ClashAt(all, st, new, s)
    PROVE  Within(all, n, new) /\ st.next < new.next
<1> DEFINE i == st.next
           N == Len(all)
<1>1. /\ N \in Nat
      /\ \A j \in 1..N : /\ Hi(all[j]) \in Nat /\ Pos(all[j]) \in Nat
                         /\ (~Adds(all[j]) => Hi(all[j]) <= n)
                         /\ Adds(all[j]) => Pos(all[j]) = 0
  BY OrderedIs
<1>2. st.base \in Nat /\ i \in 1..N /\ new.base \in Nat /\ new.next \in Nat
      /\ st.conflicts \in Seq(Nat \X Nat)
  BY DEF States
<1>3. st.base <= n /\ InBase(n, st.conflicts)
  BY DEF Within
<1>4. Adds(all[i]) => From(all, st) = st.base
  <2>1. Adds(all[i]) => Pos(all[i]) = 0
    BY <1>1, <1>2
  <2>2. Adds(all[i]) => From(all, st) \in {st.base, 0} /\ st.base <= From(all, st)
    BY <1>2, <2>1, MaxOfTwo DEF From
  <2>3. QED BY <1>2, <2>2
<1>5. ASSUME new.base = st.base, i < new.next
      PROVE  new.base = 0 \/ \E p \in 1..N, c \in 1..(N + 1) : Past(all, new, p, c)
  <2>1. CASE st.base = 0
    BY <1>5, <2>1
  <2>2. CASE st.base # 0
    <3>1. PICK p \in 1..N, c \in 1..(N + 1) : Past(all, st, p, c)
      BY <2>2 DEF Within
    <3>2. p < new.next /\ \A j \in new.next..(c - 1) : j \in st.next..(c - 1)
      BY <1>2, <1>5, <3>1 DEF Past
    <3>3. Past(all, new, p, c)
      BY <1>5, <3>1, <3>2 DEF Past
    <3>4. QED BY <3>3
  <2>3. QED BY <2>1, <2>2
<1>6. ASSUME PassesOver(all, st, new) PROVE Within(all, n, new) /\ i < new.next
  <2>1. /\ new.next = i + 1 /\ new.conflicts = st.conflicts
        /\ new.base = IF Adds(all[i]) THEN From(all, st) ELSE Hi(all[i])
    BY <1>6 DEF PassesOver
  <2>2. PICK c \in (i + 1)..(N + 1) : Run(all, i, c - 1) /\ (c <= N => ~Meets(all[i], all[c]))
    BY <1>6 DEF PassesOver
  <2> HIDE DEF i, N
  <2>3. new.base <= n
    BY <1>1, <1>2, <1>3, <1>4, <2>1
  <2>4. new.base = 0 \/ \E q \in 1..N, d \in 1..(N + 1) : Past(all, new, q, d)
    <3>1. CASE Adds(all[i])
      BY <1>2, <1>4, <1>5, <2>1, <3>1
    <3>2. CASE ~Adds(all[i])
      <4>1. i < new.next /\ i < c /\ c \in 1..(N + 1)
        BY <1>2, <2>1
      <4>2. \A j \in new.next..(c - 1) : all[j].branch = all[i].branch
        BY <2>1, <2>2 DEF Run
      <4>3. Past(all, new, i, c)
        BY <2>1, <2>2, <3>2, <4>1, <4>2 DEF Past, N
      <4>4. QED BY <1>2, <4>1, <4>3
    <3>3. QED BY <3>1, <3>2
  <2>5. new.next <= N + 1 /\ i < new.next
    BY <1>1, <1>2, <2>1
  <2>6. QED BY <1>3, <2>1, <2>3, <2>4, <2>5 DEF Within, N
<1>7. ASSUME NEW s \in 1..N, ClashAt(all, st, new, s) PROVE Within(all, n, new) /\ i < new.next
  <2>1. /\ s \in (i + 1)..(new.next - 1) /\ new.next <= N + 1
        /\ new.next <= N => ~Meets(all[i], all[new.next]) /\ ~Meets(all[s], all[new.next])
        /\ new.conflicts = Append(st.conflicts, <<From(all, st), new.base>>)
        /\ EndOf(all[i], all[s], From(all, st), new.base)
    BY <1>7 DEF ClashAt
  <2>2. From(all, st) <= new.base /\ new.base <= n
    BY <1>7, ClashIs
  <2>3. From(all, st) \in Nat
    BY <1>1, <1>2, MaxOfTwo DEF From
  <2> HIDE DEF i, N
  <2>4. InBase(n, new.conflicts)
    <3> DEFINE X2 == Nat \X Nat
               x == <<From(all, st), new.base>>
               old == st.conflicts
    <3>1. old \in Seq(X2) /\ x \in X2 /\ x[1] <= x[2] /\ x[2] <= n
      BY <1>2, <2>2, <2>3
    <3>5. InBase(n, old) /\ new.conflicts = Append(old, x)
      BY <1>3, <2>1
    <3> HIDE DEF X2, x, old
    <3>2. /\ Len(Append(old, x)) = Len(old) + 1 /\ Append(old, x)[Len(old) + 1] = x
          /\ \A k \in 1..Len(old) : Append(old, x)[k] = old[k]
      BY <3>1, Appended
    <3>6. Len(old) \in Nat
      BY <3>1
    <3>3. \A k \in 1..(Len(old) + 1) : k \in 1..Len(old) \/ k = Len(old) + 1
      BY <3>6
    <3>4. QED BY <3>1, <3>2, <3>3, <3>5 DEF InBase
  <2>5. new.base = 0 \/ \E q \in 1..N, d \in 1..(N + 1) : Past(all, new, q, d)
    <3>1. i < new.next /\ s < new.next /\ new.next \in 1..(N + 1)
      <4>1. N \in Nat /\ i \in Nat /\ new.next \in Nat /\ 1 <= i
        BY <1>1, <1>2
      <4>2. s \in (i + 1)..(new.next - 1) /\ new.next <= N + 1
        BY <2>1
      <4>3. QED BY <4>1, <4>2
    <3>2. \A q \in 1..N : \A j \in new.next..(new.next - 1) : all[j].branch = all[q].branch
      BY <1>2
    <3>3. CASE Adds(all[i]) /\ Adds(all[s]) /\ new.base = From(all, st)
      BY <1>4, <1>5, <3>1, <3>3
    <3>4. CASE ~Adds(all[i]) /\ new.base = Hi(all[i])
      <4>1. Past(all, new, i, new.next)
        BY <1>2, <2>1, <3>1, <3>2, <3>4 DEF Past, N
      <4>2. QED BY <1>2, <3>1, <4>1
    <3>5. CASE ~Adds(all[s]) /\ new.base = Hi(all[s])
      <4>1. Past(all, new, s, new.next)
        BY <2>1, <3>1, <3>2, <3>5 DEF Past, N
      <4>2. QED BY <3>1, <4>1
    <3>6. QED BY <2>1, <3>3, <3>4, <3>5 DEF EndOf
  <2>6. i < new.next
    BY <1>2, <2>1
  <2>7. QED BY <2>1, <2>2, <2>4, <2>5, <2>6 DEF Within, N
<1>8. QED BY <1>6, <1>7

\* Where no branch only adds lines, what comes next is behind what is merged,
\* the conflicts so far are in order, each with a line that both branches
\* change, and if there is none, no change so far touches another.
BothTouch(all, conflict) ==
    \E p, q \in 1..Len(all), line \in conflict[1]..(conflict[2] - 1) :
        /\ all[p].branch = "a" /\ Lies(line, all[p].op.old)
        /\ all[q].branch = "b" /\ Lies(line, all[q].op.old)

\* What holds of a merge without insertions on its way.
Clear(all, st) ==
    /\ \A j \in 1..Len(all) : st.next <= j => st.base <= Lo(all[j])
    /\ \A k \in 1..Len(st.conflicts) : st.conflicts[k][2] <= st.base /\ BothTouch(all, st.conflicts[k])
    /\ \A k, l \in 1..Len(st.conflicts) : k < l => st.conflicts[k][2] <= st.conflicts[l][1]
    /\ Len(st.conflicts) = 0 =>
          \A p, q \in 1..Len(all) : p < st.next /\ p < q => Hi(all[p]) <= Lo(all[q])

\* No change only adds lines.
NoInserts(all) == \A i \in 1..Len(all) : ~Adds(all[i])

\* Changes that all have base lines: they lie where they reach, in the order of
\* their lines, and those of one branch, or that do not touch, one after the other.
LEMMA PlainIs ==
    ASSUME NEW all, NEW n \in Nat, Ordered(all, n), NoInserts(all)
    PROVE  /\ \A i \in 1..Len(all) :
                 /\ Lo(all[i]) \in Nat /\ Hi(all[i]) \in Nat /\ Lo(all[i]) < Hi(all[i])
                 /\ Pos(all[i]) = Lo(all[i])
                 /\ \A line \in Nat : Lo(all[i]) <= line /\ line < Hi(all[i]) => Lies(line, all[i].op.old)
           /\ \A i, j \in 1..Len(all) : i < j => Lo(all[i]) <= Lo(all[j])
           /\ \A i, j \in 1..Len(all) :
                 i < j /\ (all[i].branch = all[j].branch \/ ~Meets(all[i], all[j])) =>
                    Hi(all[i]) <= Lo(all[j])
<1>1. /\ \A i \in 1..Len(all) : all[i] \in LineChanges /\ ~Adds(all[i])
      /\ \A i \in 1..Len(all) : Lo(all[i]) \in Nat /\ Hi(all[i]) \in Nat /\ Lo(all[i]) < Hi(all[i])
                                /\ Pos(all[i]) = Lo(all[i])
  <2>1. all \in Seq(LineChanges)
    BY OrderedIs
  <2>2. \A i \in 1..Len(all) : all[i] \in LineChanges /\ ~Adds(all[i])
    BY <2>1 DEF NoInserts
  <2>3. QED BY <2>2, OrderedIs
<1>2. \A i \in 1..Len(all), line \in Nat : Lo(all[i]) <= line /\ line < Hi(all[i]) =>
          Lies(line, all[i].op.old)
  <2>1. ASSUME NEW i \in 1..Len(all), NEW line \in Nat, Lo(all[i]) <= line, line < Hi(all[i])
        PROVE  Lies(line, all[i].op.old)
    <3>1. /\ all[i].op.old # <<>> /\ all[i].op.old[1] = Lo(all[i]) /\ all[i].op.old[2] = Hi(all[i])
      BY <1>1, ReachIs DEF Adds
    <3>2. QED BY <2>1, <3>1 DEF Lies
  <2>2. QED BY <2>1
<1>3. \A i, j \in 1..Len(all) : i < j => Lo(all[i]) <= Lo(all[j])
  <2>1. \A i, j \in 1..Len(all) : i < j => Pos(all[i]) <= Pos(all[j])
    BY DEF Ordered
  <2>2. QED BY <1>1, <2>1
<1>4. ASSUME NEW i \in 1..Len(all), NEW j \in 1..Len(all), i < j,
             all[i].branch = all[j].branch \/ ~Meets(all[i], all[j])
      PROVE  Hi(all[i]) <= Lo(all[j])
  <2>1. CASE all[i].branch = all[j].branch
    <3>1. Adds(all[i]) <=> Adds(all[j])
      BY <1>1
    <3>2. QED BY <1>4, <2>1, <3>1 DEF Ordered
  <2>2. CASE ~Meets(all[i], all[j])
    <3>1. /\ Lo(all[i]) <= Lo(all[j]) /\ Lo(all[j]) < Hi(all[j])
          /\ Lo(all[i]) \in Nat /\ Lo(all[j]) \in Nat /\ Hi(all[i]) \in Nat /\ Hi(all[j]) \in Nat
      BY <1>1, <1>3, <1>4
    <3>2. ~(Lo(all[j]) < Hi(all[i]))
      BY <2>2, <3>1 DEF Meets
    <3>3. QED BY <3>1, <3>2
  <2>3. QED BY <1>4, <2>1, <2>2
<1>5. QED BY <1>1, <1>2, <1>3, <1>4

\* A merge without insertions goes on in order: a conflict ends before the next
\* change, and has a line of both branches.
LEMMA StaysClear ==
    ASSUME NEW X, NEW all, NEW n \in Nat, Ordered(all, n), NoInserts(all),
           NEW st \in States(X), Clear(all, st), st.next <= Len(all),
           NEW new \in States(X),
           PassesOver(all, st, new) \/ \E s \in 1..Len(all) : ClashAt(all, st, new, s)
    PROVE  Clear(all, new)
<1> DEFINE i == st.next
           N == Len(all)
<1>1. /\ \A j \in 1..N : /\ Lo(all[j]) \in Nat /\ Hi(all[j]) \in Nat /\ Lo(all[j]) < Hi(all[j])
                         /\ Pos(all[j]) = Lo(all[j]) /\ ~Adds(all[j])
                         /\ all[j].branch \in {"a", "b"}
      /\ N \in Nat
  BY OrderedIs, PlainIs DEF NoInserts
<1>2. \A j \in 1..N, line \in Nat :
          Lo(all[j]) <= line /\ line < Hi(all[j]) => Lies(line, all[j].op.old)
  BY PlainIs
<1>3. /\ \A j, k \in 1..N : j < k => Lo(all[j]) <= Lo(all[k])
      /\ \A j, k \in 1..N : j < k /\ (all[j].branch = all[k].branch \/ ~Meets(all[j], all[k])) =>
            Hi(all[j]) <= Lo(all[k])
  BY PlainIs
<1>4. /\ st.base \in Nat /\ i \in 1..N /\ new.base \in Nat /\ new.next \in Nat
      /\ st.conflicts \in Seq(Nat \X Nat)
  BY DEF States
<1>5. /\ \A j \in 1..N : i <= j => st.base <= Lo(all[j])
      /\ \A k \in 1..Len(st.conflicts) : st.conflicts[k][2] <= st.base /\ BothTouch(all, st.conflicts[k])
      /\ \A k, l \in 1..Len(st.conflicts) : k < l => st.conflicts[k][2] <= st.conflicts[l][1]
      /\ Len(st.conflicts) = 0 =>
            \A p, q \in 1..N : p < i /\ p < q => Hi(all[p]) <= Lo(all[q])
  BY DEF Clear
<1>6. /\ Len(st.conflicts) \in Nat
      /\ \A k \in 1..Len(st.conflicts) : st.conflicts[k] \in Nat \X Nat
  <2> DEFINE X2 == Nat \X Nat
  <2>1. st.conflicts \in Seq(X2)
    BY <1>4
  <2> HIDE DEF X2
  <2>2. Len(st.conflicts) \in Nat /\ \A k \in 1..Len(st.conflicts) : st.conflicts[k] \in X2
    BY <2>1
  <2>3. QED BY <2>2 DEF X2
<1>7. st.base <= Lo(all[i])
  <2>1. i \in 1..N /\ i <= i
    BY <1>4
  <2>2. \A j \in 1..N : i <= j => st.base <= Lo(all[j])
    BY <1>5
  <2> HIDE DEF i, N
  <2>3. QED BY <2>1, <2>2
<1>8. ASSUME PassesOver(all, st, new) PROVE Clear(all, new)
  <2>1. /\ new.next = i + 1 /\ new.conflicts = st.conflicts /\ new.base = Hi(all[i])
    BY <1>1, <1>4, <1>8 DEF PassesOver
  <2>2. PICK c \in (i + 1)..(N + 1) : Run(all, i, c - 1) /\ (c <= N => ~Meets(all[i], all[c]))
    BY <1>8 DEF PassesOver
  <2> HIDE DEF i, N
  <2>3. ASSUME NEW j \in 1..N, i < j PROVE Hi(all[i]) <= Lo(all[j])
    <3>1. CASE j < c
      <4>1. j \in (i + 1)..(c - 1)
        BY <1>4, <2>3, <3>1
      <4>2. all[i].branch = all[j].branch
        BY <2>2, <4>1 DEF Run
      <4>3. QED BY <1>3, <1>4, <2>3, <4>2
    <3>2. CASE c <= j
      <4>1. c \in 1..N /\ i < c
        BY <1>1, <1>4, <3>2
      <4>2. Hi(all[i]) <= Lo(all[c])
        BY <1>3, <1>4, <2>2, <4>1
      <4>3. Lo(all[c]) <= Lo(all[j])
        BY <1>1, <1>3, <3>2, <4>1
      <4>4. Hi(all[i]) \in Nat /\ Lo(all[c]) \in Nat /\ Lo(all[j]) \in Nat
        BY <1>1, <1>4, <4>1
      <4>5. QED BY <4>2, <4>3, <4>4
    <3>3. QED BY <1>4, <3>1, <3>2
  <2>4. \A j \in 1..N : new.next <= j => new.base <= Lo(all[j])
    BY <1>4, <2>1, <2>3
  <2>5. \A k \in 1..Len(new.conflicts) :
           new.conflicts[k][2] <= new.base /\ BothTouch(all, new.conflicts[k])
    <3>1. ASSUME NEW k \in 1..Len(st.conflicts)
          PROVE  st.conflicts[k][2] <= new.base /\ BothTouch(all, st.conflicts[k])
      <4>1. st.conflicts[k][2] \in Nat /\ st.conflicts[k][2] <= st.base
        BY <1>5, <1>6
      <4>2. st.base <= Lo(all[i]) /\ Lo(all[i]) < new.base /\ Lo(all[i]) \in Nat
        BY <1>1, <1>4, <1>7, <2>1
      <4>3. st.base \in Nat /\ new.base \in Nat
        BY <1>4
      <4>4. st.conflicts[k][2] <= new.base
        BY <4>1, <4>2, <4>3
      <4>5. BothTouch(all, st.conflicts[k])
        BY <1>5
      <4>6. QED BY <4>4, <4>5
    <3>2. QED BY <2>1, <3>1
  <2>6. Len(new.conflicts) = 0 =>
           \A p, q \in 1..N : p < new.next /\ p < q => Hi(all[p]) <= Lo(all[q])
    <3>1. \A p \in 1..N : p < new.next => p < i \/ p = i
      BY <1>4, <2>1
    <3>2. QED BY <1>5, <2>1, <2>3, <3>1
  <2>7. QED BY <1>5, <2>1, <2>4, <2>5, <2>6 DEF Clear, N
<1>9. ASSUME NEW s \in 1..N, ClashAt(all, st, new, s) PROVE Clear(all, new)
  <2> DEFINE c == new.next
             end == new.base
             start == Lo(all[i])
  <2>1. /\ s \in (i + 1)..(c - 1) /\ c <= N + 1
        /\ c <= N => ~Meets(all[i], all[c]) /\ ~Meets(all[s], all[c])
        /\ all[s].branch # all[i].branch /\ Meets(all[i], all[s])
        /\ new.conflicts = Append(st.conflicts, <<From(all, st), end>>)
        /\ EndOf(all[i], all[s], From(all, st), end)
    BY <1>9 DEF ClashAt
  <2>2. From(all, st) = start
    <3>1. From(all, st) \in {st.base, start} /\ start <= From(all, st) /\ start \in Nat
      BY <1>1, <1>4, MaxOfTwo DEF From
    <3>2. QED BY <1>4, <1>7, <3>1
  <2>3. /\ Hi(all[i]) <= end /\ Hi(all[s]) <= end /\ (end = Hi(all[i]) \/ end = Hi(all[s]))
    BY <1>1, <1>4, <2>1 DEF EndOf
  <2>4. i \in 1..N /\ s \in 1..N /\ i < s /\ s < c /\ i < c /\ c \in Nat
    BY <1>4, <2>1
  <2>5. /\ Lo(all[i]) \in Nat /\ Hi(all[i]) \in Nat /\ Lo(all[s]) \in Nat /\ Hi(all[s]) \in Nat
        /\ Lo(all[i]) < Hi(all[i]) /\ Lo(all[s]) < Hi(all[s]) /\ Lo(all[i]) <= Lo(all[s])
    BY <1>1, <1>3, <2>4
  <2> HIDE DEF i, N, c, end, start
  <2>6. ASSUME NEW j \in 1..N, c <= j PROVE end <= Lo(all[j])
    <3>1. c \in 1..N /\ ~Meets(all[i], all[c]) /\ ~Meets(all[s], all[c])
      BY <1>1, <2>1, <2>4, <2>6
    <3>2. Hi(all[i]) <= Lo(all[c]) /\ Hi(all[s]) <= Lo(all[c])
      BY <1>3, <2>4, <3>1
    <3>3. Lo(all[c]) <= Lo(all[j])
      <4>1. c = j \/ c < j
        BY <2>4, <2>6
      <4>2. QED BY <1>1, <1>3, <3>1, <4>1
    <3>4. Lo(all[c]) \in Nat /\ Lo(all[j]) \in Nat
      BY <1>1, <3>1
    <3>5. QED BY <2>3, <2>5, <3>2, <3>3, <3>4
  <2>7. BothTouch(all, <<start, end>>)
    <3> DEFINE line == Lo(all[s])
    <3>1. start <= line /\ line < end /\ line \in Nat /\ start \in Nat /\ end \in Nat
      BY <1>4, <2>3, <2>5 DEF start, end
    <3>2. line \in start..(end - 1)
      BY <3>1
    <3>3. Lies(line, all[i].op.old) /\ Lies(line, all[s].op.old)
      <4>1. Lo(all[s]) < Hi(all[i])
        BY <2>1 DEF Meets
      <4>2. QED BY <1>2, <2>4, <2>5, <4>1
    <3>4. \/ all[i].branch = "a" /\ all[s].branch = "b"
          \/ all[i].branch = "b" /\ all[s].branch = "a"
      BY <1>1, <2>1, <2>4
    <3>5. <<start, end>>[1] = start /\ <<start, end>>[2] = end
      OBVIOUS
    <3> HIDE DEF line
    <3>6. QED BY <2>4, <3>2, <3>3, <3>4, <3>5 DEF BothTouch, N
  <2> DEFINE old == st.conflicts
             x == <<start, end>>
             X2 == Nat \X Nat
  <2>8. /\ old \in Seq(X2) /\ x \in X2 /\ x[1] = start /\ x[2] = end /\ Len(old) \in Nat
        /\ start \in Nat /\ end \in Nat
    BY <1>4, <1>6, <2>5 DEF start, end
  <2>9. /\ \A k \in 1..Len(old) : old[k][2] <= st.base /\ BothTouch(all, old[k]) /\ old[k][2] \in Nat
        /\ \A k, l \in 1..Len(old) : k < l => old[k][2] <= old[l][1]
        /\ new.conflicts = Append(old, x) /\ BothTouch(all, x)
    BY <1>5, <1>6, <2>1, <2>2, <2>7
  <2> HIDE DEF old, x, X2
  <2>10. /\ Len(new.conflicts) = Len(old) + 1 /\ new.conflicts[Len(old) + 1] = x
         /\ \A k \in 1..Len(old) : new.conflicts[k] = old[k]
    <3>1. old \in Seq(X2) /\ x \in X2
      BY <2>8
    <3>2. /\ Len(Append(old, x)) = Len(old) + 1 /\ Append(old, x)[Len(old) + 1] = x
          /\ \A k \in 1..Len(old) : Append(old, x)[k] = old[k]
      BY <3>1, Appended
    <3>3. QED BY <2>9, <3>2
  <2>11. \A k \in 1..(Len(old) + 1) : k \in 1..Len(old) \/ k = Len(old) + 1
    BY <2>8
  <2>12. st.base <= start /\ start <= end
    <3>1. start = Lo(all[i])
      BY DEF start
    <3>2. QED BY <1>4, <1>7, <2>3, <2>5, <2>8, <3>1
  <2>13. ASSUME NEW k \in 1..Len(old) PROVE old[k][2] <= start /\ old[k][2] <= end
    <3>1. old[k][2] \in Nat /\ old[k][2] <= st.base
      BY <2>9
    <3>2. st.base \in Nat /\ start \in Nat /\ end \in Nat
      BY <1>4, <2>8
    <3>3. QED BY <2>12, <3>1, <3>2
  <2>14. \A k \in 1..Len(new.conflicts) :
            new.conflicts[k][2] <= end /\ BothTouch(all, new.conflicts[k])
    BY <2>8, <2>9, <2>10, <2>11, <2>13
  <2>15. ASSUME NEW k \in 1..Len(new.conflicts), NEW l \in 1..Len(new.conflicts), k < l
         PROVE  new.conflicts[k][2] <= new.conflicts[l][1]
    <3>1. k \in 1..Len(old)
      BY <2>8, <2>10, <2>15
    <3>2. CASE l \in 1..Len(old)
      BY <2>9, <2>10, <2>15, <3>1, <3>2
    <3>3. CASE l = Len(old) + 1
      BY <2>8, <2>10, <2>13, <3>1, <3>3
    <3>4. QED BY <2>10, <2>11, <3>2, <3>3
  <2>16. ~(Len(new.conflicts) = 0)
    BY <2>8, <2>10
  <2>17. QED BY <2>6, <2>14, <2>15, <2>16 DEF Clear, N, c, end
<1>10. QED BY <1>8, <1>9

-----------------------------------------------------------------------------
(* The merge of two texts *)

\* A merge of changes in order.
LEMMA MergeChangesIs ==
    ASSUME NEW X, NEW old \in Seq(X), NEW a \in Seq(X), NEW b \in Seq(X),
           NEW all, NEW n \in Nat, Ordered(all, n)
    PROVE  \E st \in States(X) :
              /\ MergeChanges(old, a, b, all).conflicts = st.conflicts
              /\ Within(all, n, st)
              /\ NoInserts(all) => Clear(all, st)
              /\ st.next = Len(all) + 1
<1> DEFINE N == Len(all)
           S == States(X)
           st0 == [base |-> 0, merged |-> <<>>, next |-> 1, conflicts |-> <<>>]
           visit(st, i) == IF i < st.next THEN st ELSE MergeGroup(old, a, b, all, st)
           step == [i \in 1..N |-> [st \in S |-> visit(st, i)]]
           Is(f) == f = [i \in 0..N |-> IF i = 0 THEN st0 ELSE visit(f[i - 1], i)]
           F == CHOOSE f : Is(f)
<1>1. N \in Nat /\ all \in Seq(LineChanges)
  BY OrderedIs
<1>2. MergeChanges(old, a, b, all).conflicts = F[N].conflicts
  BY DEF MergeChanges, Loop
<1>3. st0 \in S
  <2>1. <<>> \in Seq(X) /\ <<>> \in Seq(Nat \X Nat)
    OBVIOUS
  <2>2. QED BY <2>1 DEF States
<1>18. st0.base = 0 /\ st0.next = 1 /\ st0.conflicts = <<>>
  OBVIOUS
<1> HIDE DEF N
<1>4. ASSUME NEW st \in S, st.next <= N
      PROVE  LET new == MergeGroup(old, a, b, all, st)
             IN  /\ new \in S
                 /\ PassesOver(all, st, new) \/ \E s \in 1..Len(all) : ClashAt(all, st, new, s)
  BY <1>1, <1>4, MergeGroupIs DEF N
<1>5. ASSUME NEW st \in S, NEW i \in 1..N PROVE visit(st, i) \in S
  <2>1. st.next \in Nat
    BY DEF States
  <2>2. CASE i < st.next
    BY <2>2
  <2>3. CASE ~(i < st.next)
    <3>1. st.next <= N
      BY <1>1, <2>1, <2>3
    <3>2. QED BY <1>4, <2>3, <3>1
  <2>4. QED BY <2>2, <2>3
<1>6. step \in [1..N -> [S -> S]] /\ \A i \in 1..N, st \in S : step[i][st] = visit(st, i)
  <2> HIDE DEF S, visit
  <2>1. \A i \in 1..N, st \in S : visit(st, i) \in S
    BY <1>5
  <2>2. QED BY <2>1
<1>7. \A st, i : visit(st, i) = IF i < st.next THEN st ELSE MergeGroup(old, a, b, all, st)
  OBVIOUS
<1> HIDE DEF step, visit, S, st0
<1>8. \E f : Is(f)
  <2>1. PICK f : Iterates(f, N, st0, step, S)
    BY <1>1, <1>3, <1>6, Iterated
  <2>2. f \in [0..N -> S] /\ f[0] = st0 /\ \A i \in 1..N : f[i] = step[i][f[i - 1]]
    BY <2>1 DEF Iterates
  <2>3. \A i \in 1..N : i - 1 \in 0..N
    BY <1>1
  <2>4. \A i \in 1..N : f[i] = visit(f[i - 1], i)
    BY <1>6, <2>2, <2>3
  <2>5. Is(f)
    BY <1>1, <2>2, <2>4
  <2>6. QED BY <2>5
<1>9. Is(F)
  BY <1>8
<1> HIDE DEF F
<1>10. F[0] = st0 /\ \A i \in 1..N : F[i] = visit(F[i - 1], i)
  <2>1. \A i \in 0..N : F[i] = IF i = 0 THEN st0 ELSE visit(F[i - 1], i)
    BY <1>9
  <2>2. QED BY <1>1, <2>1
<1>11. \A i \in 0..N : F[i] \in S
  <2>1. Follows(F, N, st0, step, S)
    BY <1>6, <1>10 DEF Follows
  <2>2. QED BY <1>1, <1>3, <1>6, <2>1, Looped
<1> DEFINE Good(i) == /\ Within(all, n, F[i]) /\ i < F[i].next
                      /\ NoInserts(all) => Clear(all, F[i])
           P == {i \in 0..N : Good(i)}
<1>12. 0 \in P
  <2>1. Len(<<>>) = 0 /\ 1..0 = {}
    OBVIOUS
  <2>2. F[0].base = 0 /\ F[0].next = 1 /\ F[0].conflicts = <<>>
    BY <1>10, <1>18
  <2>3. Within(all, n, F[0])
    <3>1. InBase(n, <<>>)
      BY <2>1 DEF InBase
    <3>2. 1 <= Len(all) + 1 /\ 0 <= n
      BY <1>1 DEF N
    <3>3. QED BY <2>2, <3>1, <3>2 DEF Within
  <2>4. NoInserts(all) => Clear(all, F[0])
    <3>1. \A i \in 1..Len(all) : Lo(all[i]) \in Nat /\ 0 <= Lo(all[i])
      <4>1. \A i \in 1..Len(all) : Lo(all[i]) \in Nat
        BY OrderedIs
      <4>2. QED BY <4>1
    <3>2. \A i \in 1..Len(all) : ~(i < 1)
      BY <1>1 DEF N
    <3>3. QED BY <2>1, <2>2, <3>1, <3>2 DEF Clear
  <2>5. Good(0)
    BY <2>2, <2>3, <2>4
  <2> HIDE DEF Good
  <2>6. QED BY <1>1, <2>5
<1>13. ASSUME NEW i \in 1..N, i - 1 \in P PROVE i \in P
  <2> DEFINE st == F[i - 1]
  <2>1. /\ st \in S /\ Within(all, n, st) /\ i - 1 < st.next
        /\ NoInserts(all) => Clear(all, st)
    BY <1>1, <1>11, <1>13
  <2>2. F[i] = visit(st, i)
    BY <1>10
  <2>3. st.next \in Nat
    BY <2>1 DEF S, States
  <2> HIDE DEF st
  <2>4. CASE i < st.next
    <3>1. F[i] = st
      BY <1>7, <2>2, <2>4
    <3>2. Good(i)
      BY <2>1, <2>4, <3>1
    <3> HIDE DEF Good
    <3>3. QED BY <1>1, <3>2
  <2>5. CASE ~(i < st.next)
    <3> DEFINE new == F[i]
    <3>1. new = MergeGroup(old, a, b, all, st)
      BY <1>7, <2>2, <2>5
    <3>2. st.next = i /\ st.next <= N
      BY <1>1, <2>1, <2>3, <2>5
    <3>3. /\ new \in S
          /\ PassesOver(all, st, new) \/ \E s \in 1..Len(all) : ClashAt(all, st, new, s)
      BY <1>4, <2>1, <3>1, <3>2
    <3> HIDE DEF new
    <3>4. Within(all, n, new) /\ st.next < new.next
      BY <2>1, <3>2, <3>3, StaysWithin DEF S, N
    <3>5. NoInserts(all) => Clear(all, new)
      BY <2>1, <3>2, <3>3, StaysClear DEF S, N
    <3>6. Good(i)
      BY <3>2, <3>4, <3>5 DEF new
    <3> HIDE DEF Good
    <3>7. QED BY <1>1, <3>6
  <2>6. QED BY <2>4, <2>5
<1>14. N \in P
  <2> HIDE DEF P
  <2>1. \A i \in 0..N : i \in P
    BY <1>1, <1>12, <1>13, Counted
  <2>2. QED BY <1>1, <2>1
<1> DEFINE end == F[N]
<1>15. end \in S /\ Within(all, n, end) /\ N < end.next /\ (NoInserts(all) => Clear(all, end))
  BY <1>1, <1>11, <1>14
<1>16. MergeChanges(old, a, b, all).conflicts = end.conflicts
  BY <1>2
<1> HIDE DEF end
<1>17. end.next = Len(all) + 1
  <2>1. end.next <= Len(all) + 1 /\ end.next \in Nat
    BY <1>15 DEF Within, S, States
  <2>2. QED BY <1>1, <1>15, <2>1 DEF N
<1>19. QED BY <1>15, <1>16, <1>17 DEF S

\* The conflicts of a merge of two diffs of one base.
LEMMA OverlapsAre ==
    ASSUME NEW X, NEW old \in Seq(X), NEW a \in Seq(X), NEW b \in Seq(X),
           NEW n \in Nat, NEW nA \in Nat, NEW nB \in Nat,
           NEW opsA \in Seq(DiffOps), NEW opsB \in Seq(DiffOps),
           Covers(Olds(opsA), n), Covers(News(opsA), nA),
           Covers(Olds(opsB), n), Covers(News(opsB), nB)
    PROVE  AreOverlaps(n, opsA, opsB, MergeChanges(old, a, b, AllChanges(opsA, opsB)).conflicts)
<1> DEFINE all == AllChanges(opsA, opsB)
           conflicts == MergeChanges(old, a, b, all).conflicts
<1>1. Ordered(all, n) /\ MadeOf(all, opsA, opsB)
  BY AllChangesIs
<1>2. PICK st \in States(X) : /\ conflicts = st.conflicts /\ Within(all, n, st)
                              /\ NoInserts(all) => Clear(all, st)
                              /\ st.next = Len(all) + 1
  <2> HIDE DEF all
  <2>1. QED BY <1>1, MergeChangesIs
<1> HIDE DEF all, conflicts
<1>3. conflicts \in Seq(Nat \X Nat) /\ DOMAIN conflicts = 1..Len(conflicts)
  BY <1>2 DEF States
<1>4. \A i \in DOMAIN conflicts : conflicts[i][1] <= conflicts[i][2] /\ conflicts[i][2] <= n
  BY <1>2, <1>3 DEF Within, InBase
<1>5. /\ Len(all) \in Nat /\ all \in Seq(LineChanges)
      /\ \A i \in 1..Len(all) : /\ all[i] \in LineChanges
                                /\ Lo(all[i]) \in Nat /\ Hi(all[i]) \in Nat
  <2>1. all \in Seq(LineChanges)
    BY <1>1, OrderedIs
  <2>2. \A i \in 1..Len(all) : all[i] \in LineChanges
    BY <2>1
  <2>3. QED BY <1>1, <2>1, <2>2, OrderedIs
<1>6. \A i \in 1..Len(all) :
         /\ all[i].branch = "a" => \E j \in ExtractChanges(opsA) : all[i].op = opsA[j]
         /\ all[i].branch = "b" => \E j \in ExtractChanges(opsB) : all[i].op = opsB[j]
         /\ all[i].branch \in {"a", "b"}
  BY <1>1 DEF MadeOf
<1>7. ASSUME ~Inserts(opsA), ~Inserts(opsB) PROVE NoInserts(all)
  <2>1. ASSUME NEW i \in 1..Len(all) PROVE ~Adds(all[i])
    <3>1. all[i].op.kind # "Insert"
      BY <1>6, <1>7 DEF Inserts, ExtractChanges
    <3>2. all[i] \in LineChanges
      BY <1>5
    <3>3. QED BY <3>1, <3>2, ReachIs
  <2>2. QED BY <2>1 DEF NoInserts
<1>8. ASSUME ~Inserts(opsA), ~Inserts(opsB)
      PROVE  /\ \A i, j \in DOMAIN conflicts : i < j => conflicts[i][2] <= conflicts[j][1]
             /\ conflicts = <<>> => \A line \in 0..(n - 1) : ~BothChanged(opsA, opsB, line)
             /\ \A i \in DOMAIN conflicts :
                   \E line \in conflicts[i][1]..(conflicts[i][2] - 1) : BothChanged(opsA, opsB, line)
  <2>1. NoInserts(all) /\ Clear(all, st)
    BY <1>2, <1>7, <1>8
  <2>2. \A i, j \in DOMAIN conflicts : i < j => conflicts[i][2] <= conflicts[j][1]
    BY <1>2, <1>3, <2>1 DEF Clear
  <2>3. ASSUME conflicts = <<>>, NEW line \in 0..(n - 1), BothChanged(opsA, opsB, line)
        PROVE  FALSE
    <3>1. PICK j \in ExtractChanges(opsA), k \in ExtractChanges(opsB) :
             Lies(line, opsA[j].old) /\ Lies(line, opsB[k].old)
      BY <2>3 DEF BothChanged, Changed
    <3>2. PICK p \in 1..Len(all), q \in 1..Len(all) :
             /\ all[p].branch = "a" /\ all[p].op = opsA[j]
             /\ all[q].branch = "b" /\ all[q].op = opsB[k]
      BY <1>1 DEF MadeOf
    <3>3. Lo(all[p]) <= line /\ line < Hi(all[p]) /\ Lo(all[q]) <= line /\ line < Hi(all[q])
      <4>1. ~Adds(all[p]) /\ ~Adds(all[q])
        BY <2>1 DEF NoInserts
      <4>2. /\ Lo(all[p]) = all[p].op.old[1] /\ Hi(all[p]) = all[p].op.old[2]
            /\ Lo(all[q]) = all[q].op.old[1] /\ Hi(all[q]) = all[q].op.old[2]
        BY <1>5, <4>1, ReachIs
      <4>3. QED BY <3>1, <3>2, <4>2 DEF Lies
    <3>4. \A x, y \in 1..Len(all) : x < y => Hi(all[x]) <= Lo(all[y])
      <4>1. Len(st.conflicts) = 0 /\ \A x \in 1..Len(all) : x < st.next
        BY <1>2, <1>5, <2>3
      <4>2. QED BY <2>1, <4>1 DEF Clear
    <3>5. p # q /\ line \in Nat
      BY <3>2
    <3>6. /\ Lo(all[p]) \in Nat /\ Hi(all[p]) \in Nat /\ Lo(all[q]) \in Nat /\ Hi(all[q]) \in Nat
      BY <1>5
    <3>7. CASE p < q
      <4>1. Hi(all[p]) <= Lo(all[q])
        BY <3>4, <3>7
      <4>2. QED BY <3>3, <3>5, <3>6, <4>1
    <3>8. CASE q < p
      <4>1. Hi(all[q]) <= Lo(all[p])
        BY <3>4, <3>8
      <4>2. QED BY <3>3, <3>5, <3>6, <4>1
    <3>9. QED BY <3>5, <3>7, <3>8
  <2>4. ASSUME NEW i \in DOMAIN conflicts
        PROVE  \E line \in conflicts[i][1]..(conflicts[i][2] - 1) : BothChanged(opsA, opsB, line)
    <3>1. BothTouch(all, conflicts[i])
      BY <1>2, <1>3, <2>1 DEF Clear
    <3>2. PICK p \in 1..Len(all), q \in 1..Len(all),
               line \in conflicts[i][1]..(conflicts[i][2] - 1) :
             /\ all[p].branch = "a" /\ Lies(line, all[p].op.old)
             /\ all[q].branch = "b" /\ Lies(line, all[q].op.old)
      BY <3>1 DEF BothTouch
    <3>3. Changed(opsA, line) /\ Changed(opsB, line)
      BY <1>6, <3>2 DEF Changed
    <3>4. QED BY <3>2, <3>3 DEF BothChanged
  <2>5. QED BY <2>2, <2>3, <2>4
<1>9. AreOverlaps(n, opsA, opsB, conflicts)
  BY <1>4, <1>8 DEF AreOverlaps
<1>10. QED BY <1>9 DEF conflicts, all

\* Whatever agents made of the files of two branches that are to be merged, the
\* conflicts of their three-way merge are ranges of the base; unless a branch only
\* adds lines somewhere, they are in order, do not overlap, each has a line that
\* both branches changed, and there is one if both changed a line (perform_merge,
\* three_way_merge).
THEOREM MergesOverlap == Spec => []ConflictsAreOverlaps
<1>1. ASSUME TasksInv, base \in [Files -> Seq(LineValues) \cup {NoFile}]
      PROVE  ConflictsAreOverlaps
  <2>1. ASSUME NEW b \in Range(task.branches), NEW c \in Range(task.branches), NEW f \in Files
        PROVE  LET old == Text(base[f])
                   newB == Text(branch[b].files[f])
                   newC == Text(branch[c].files[f])
               IN  AreOverlaps(Len(old), MyersDiff(old, newB), MyersDiff(old, newC),
                               MergeTexts(old, newB, newC).conflicts)
    <3> DEFINE old == Text(base[f])
               newB == Text(branch[b].files[f])
               newC == Text(branch[c].files[f])
    <3>1. old \in Seq(LineValues) /\ newB \in Seq(LineValues) /\ newC \in Seq(LineValues)
      BY <1>1, TextIs
    <3> HIDE DEF old, newB, newC
    <3> DEFINE opsB == MyersDiff(old, newB)
               opsC == MyersDiff(old, newC)
    <3>2. /\ opsB \in Seq(DiffOps) /\ Covers(Olds(opsB), Len(old)) /\ Covers(News(opsB), Len(newB))
          /\ opsC \in Seq(DiffOps) /\ Covers(Olds(opsC), Len(old)) /\ Covers(News(opsC), Len(newC))
      BY <3>1, MyersDiffIs
    <3>3. MergeTexts(old, newB, newC) = MergeChanges(old, newB, newC, AllChanges(opsB, opsC))
      BY DEF MergeTexts
    <3>4. Len(old) \in Nat /\ Len(newB) \in Nat /\ Len(newC) \in Nat
      BY <3>1
    <3> HIDE DEF opsB, opsC
    <3>5. AreOverlaps(Len(old), opsB, opsC,
                      MergeChanges(old, newB, newC, AllChanges(opsB, opsC)).conflicts)
      BY <3>1, <3>2, <3>4, OverlapsAre
    <3>6. QED BY <3>3, <3>5 DEF opsB, opsC, old, newB, newC
  <2>2. QED BY <2>1 DEF ConflictsAreOverlaps, OfTexts
<1>2. QED BY <1>1, BaseTyped, TasksInvAlways, PTL
=============================================================================
