------------------------------ MODULE LineDiff ------------------------------
(***************************************************************************)
(* The line diff and the three-way merge of components/supervisor/src/diff:*)
(* a file is a sequence of lines.  Indices are those of the code, 0-based  *)
(* and half-open; base[i + 1] is the line base[i] of the code.             *)
(***************************************************************************)
EXTENDS Integers, Sequences, SequencesExt, FiniteSetsExt

\* A loop: what n passes make of first, pass i by Pass(_, i).
Loop(first, n, Pass(_, _)) ==
    LET after[i \in 0..n] == IF i = 0 THEN first ELSE Pass(after[i - 1], i)
    IN  after[n]

(***************************************************************************)
(* compute_ses.  v[k] is how far diagonal k reaches.  A round d advances   *)
(* the diagonals of d's parity, each from its neighbours of the round      *)
(* before, and slides along equal lines.                                   *)
(***************************************************************************)
Down(v, d, k) == k = -d \/ (k # d /\ v[k - 1] < v[k + 1])

Slide(base, target, x, k) ==
    LET reach == {x + j : j \in 0..Len(base)}
        equalTo(z) == \A i \in x..(z - 1) :
                          /\ i < Len(base) /\ i - k < Len(target)
                          /\ base[i + 1] = target[i - k + 1]
    IN  Max({z \in reach : equalTo(z)})

Round(base, target, v, d) ==
    [k \in DOMAIN v |->
        IF k \in -d..d /\ (k - d) % 2 = 0
        THEN Slide(base, target, IF Down(v, d, k) THEN v[k + 1] ELSE v[k - 1] + 1, k)
        ELSE v[k]]

\* The trace: v at the start of each round, up to the round that ends.
Trace(base, target) ==
    LET total == Len(base) + Len(target)
        V[d \in 0..(total + 1)] ==
            IF d = 0 THEN [k \in -total..total |-> 0]
            ELSE Round(base, target, V[d - 1], d - 1)
        ended(d) == \E k \in -d..d : /\ (k - d) % 2 = 0
                                     /\ V[d + 1][k] >= Len(base)
                                     /\ V[d + 1][k] - k >= Len(target)
    IN  [d \in 0..Min({e \in 0..total : ended(e)}) |-> V[d]]

(***************************************************************************)
(* backtrack.  One step back for each traced round but the last, latest    *)
(* first; what is left in the end is kept while both files have lines.  A  *)
(* negative prev_y is cast to an unsigned number no y exceeds.             *)
(***************************************************************************)
Repeat(op, n) == [i \in 1..n |-> op]
MinOf(i, j) == IF i < j THEN i ELSE j

\* The equal lines between at and the point before it are kept.
Keep(at, prevX, prevY) ==
    LET kept == IF at.x > prevX /\ prevY >= 0 /\ at.y > prevY
                THEN MinOf(at.x - prevX, at.y - prevY) ELSE 0
    IN  [x |-> at.x - kept, y |-> at.y - kept, edits |-> Repeat("Keep", kept) \o at.edits]

StepTo(at, prevX, prevY) ==
    CASE at.x > prevX -> [at EXCEPT !.x = @ - 1, !.edits = <<"Delete">> \o @]
      [] at.x <= prevX /\ prevY >= 0 /\ at.y > prevY ->
             [at EXCEPT !.y = @ - 1, !.edits = <<"Insert">> \o @]
      [] OTHER -> at

BackStep(v, d, at) ==
    LET k == at.x - at.y
        back(prevK, prevX) == StepTo(Keep(at, prevX, prevX - prevK), prevX, prevX - prevK)
        from(prevK) == back(prevK, v[prevK])
    IN  from(IF Down(v, d, k) THEN k + 1 ELSE k - 1)

Start(at) ==
    LET kept == MinOf(at.x, at.y)
    IN  Repeat("Delete", at.x - kept)
            \o (Repeat("Insert", at.y - kept) \o (Repeat("Keep", kept) \o at.edits))

Backtrack(base, target, trace) ==
    LET rounds == Max(DOMAIN trace)  \* .rev().skip(1)
        end == [x |-> Len(base), y |-> Len(target), edits |-> <<>>]
        back(at, i) == BackStep(trace[rounds - i], rounds - i, at)
    IN  Start(Loop(end, rounds, back))

EditScript(base, target) == Backtrack(base, target, Trace(base, target))

(***************************************************************************)
(* convert_ses_to_diff_ops.  An operation covers lines old[1]..old[2]-1 of *)
(* the base and new[1]..new[2]-1 of the target; <<>> is no range.  An edit *)
(* extends the operation before it where the two make one operation.       *)
(* coalesce_operations finds nothing left to join.                         *)
(***************************************************************************)
Op(kind, old, new) == [kind |-> kind, old |-> old, new |-> new]

\* Variant: equal lines extend the base range only.
ExtendBaseOnly(op, edit, b, t) ==
    CASE edit = "Keep" /\ op.kind = "Equal" ->
             Op("Equal", <<op.old[1], b + 1>>, op.new)
      [] edit = "Delete" /\ op.kind \in {"Delete", "Replace"} ->
             [op EXCEPT !.old = <<op.old[1], b + 1>>]
      [] edit = "Insert" /\ op.kind = "Delete" -> Op("Replace", op.old, <<t, t + 1>>)
      [] edit = "Insert" /\ op.kind \in {"Insert", "Replace"} ->
             [op EXCEPT !.new = <<op.new[1], t + 1>>]
      [] OTHER -> op

Extend(op, edit, b, t) ==
    CASE edit = "Keep" /\ op.kind = "Equal" ->
             Op("Equal", <<op.old[1], b + 1>>, <<op.new[1], t + 1>>)
      [] edit = "Delete" /\ op.kind \in {"Delete", "Replace"} ->
             [op EXCEPT !.old = <<op.old[1], b + 1>>]
      [] edit = "Insert" /\ op.kind = "Delete" -> Op("Replace", op.old, <<t, t + 1>>)
      [] edit = "Insert" /\ op.kind \in {"Insert", "Replace"} ->
             [op EXCEPT !.new = <<op.new[1], t + 1>>]
      [] OTHER -> op

Fresh(edit, b, t) ==
    CASE edit = "Keep"   -> Op("Equal", <<b, b + 1>>, <<t, t + 1>>)
      [] edit = "Delete" -> Op("Delete", <<b, b + 1>>, <<>>)
      [] edit = "Insert" -> Op("Insert", <<>>, <<t, t + 1>>)

AddEdit(st, edit) ==
    LET joined == IF st.ops = <<>> THEN Fresh(edit, 0, 0)
                  ELSE Extend(Last(st.ops), edit, st.b, st.t)
        joins == st.ops # <<>> /\ joined # Last(st.ops)
    IN  [ops |-> IF joins THEN [st.ops EXCEPT ![Len(st.ops)] = joined]
                 ELSE Append(st.ops, Fresh(edit, st.b, st.t)),
         b |-> st.b + (IF edit = "Insert" THEN 0 ELSE 1),
         t |-> st.t + (IF edit = "Delete" THEN 0 ELSE 1)]

ToDiffOps(script) ==
    LET add(st, i) == AddEdit(st, script[i])
    IN  Loop([ops |-> <<>>, b |-> 0, t |-> 0], Len(script), add).ops

\* MyersDiff::diff
MyersDiff(base, target) ==
    CASE base = <<>> /\ target = <<>> -> <<>>
      [] base = <<>> /\ target # <<>> -> <<Op("Insert", <<>>, <<0, Len(target)>>)>>
      [] base # <<>> /\ target = <<>> -> <<Op("Delete", <<0, Len(base)>>, <<>>)>>
      [] OTHER -> ToDiffOps(EditScript(base, target))

Lines(text, range) == SubSeq(text, range[1] + 1, MinOf(range[2], Len(text)))
Old(op, base) == IF op.old = <<>> THEN <<>> ELSE Lines(base, op.old)
New(op, target) == IF op.new = <<>> THEN <<>> ELSE Lines(target, op.new)

\* extract_changes: the places of the changes.
ExtractChanges(ops) == {i \in DOMAIN ops : ops[i].kind # "Equal"}

(***************************************************************************)
(* What a diff is used for: apply_diff keeps the equal lines of the base,  *)
(* format_unified_diff makes a hunk of every change, its lines counted     *)
(* from 1, to_edit_script an edit of every line.  An edit script keeps a   *)
(* line only while it is shorter than the base.                            *)
(***************************************************************************)
ApplyDiff(base, ops) ==
    FlattenSeq([i \in DOMAIN ops |-> IF ops[i].kind = "Equal" THEN Old(ops[i], base) ELSE <<>>])

UnifiedDiff(base, target, ops) ==
    LET start(range) == IF range = <<>> THEN 0 ELSE range[1] + 1
    IN  [i \in ExtractChanges(ops) |->
            [at |-> <<start(ops[i].old), start(ops[i].new)>>,
             removed |-> Old(ops[i], base), added |-> New(ops[i], target)]]

ToEditScript(base, target, ops) ==
    LET add(edits, i) ==
            IF ops[i].kind = "Equal"
            THEN edits \o Repeat("Keep", MinOf(ops[i].old[2] - ops[i].old[1],
                                               Len(base) - Len(edits)))
            ELSE edits \o Repeat("Delete", Len(Old(ops[i], base)))
                       \o Repeat("Insert", Len(New(ops[i], target)))
    IN  Loop(<<>>, Len(ops), add)

(***************************************************************************)
(* three_way_merge.  The changes of both branches are gone through in the  *)
(* order of their base lines, insertions as if at line 0.  A change and    *)
(* the ones after it that touch a line of the group, at most one of each   *)
(* branch, are a conflict if both branches are among them.                 *)
(***************************************************************************)
Position(op) == IF op.old = <<>> THEN 0 ELSE op.old[1]
Reach(op) == IF op.old = <<>> THEN op.new ELSE op.old
ChangesOverlap(c, d) == Reach(c)[1] < Reach(d)[2] /\ Reach(d)[1] < Reach(c)[2]

\* All changes with their branch; sort_by_key is stable, so a change goes
\* before the first one that is behind it.
AllChanges(diffA, diffB) ==
    LET change(i) == IF i <= Len(diffA) THEN [branch |-> "a", op |-> diffA[i]]
                     ELSE [branch |-> "b", op |-> diffB[i - Len(diffA)]]
        behind(sorted, i) == {k \in DOMAIN sorted :
                                 Position(change(sorted[k]).op) > Position(change(i).op)}
        insert(sorted, i) == InsertAt(sorted, Min(behind(sorted, i) \cup {Len(sorted) + 1}), i)
        sort(sorted, i) == IF change(i).op.kind = "Equal" THEN sorted ELSE insert(sorted, i)
        places == Loop(<<>>, Len(diffA) + Len(diffB), sort)
    IN  [n \in DOMAIN places |-> change(places[n])]

\* The group that starts at all[i], and the change the next one starts at.
Group(all, i) ==
    LET grow(g, j) ==
            IF g.next # i + j \/ ~\E m \in Range(g.members) : ChangesOverlap(m.op, all[i + j].op)
            THEN g
            ELSE [members |-> IF \E m \in Range(g.members) : m.branch = all[i + j].branch
                              THEN g.members ELSE Append(g.members, all[i + j]),
                  next |-> i + j + 1]
    IN  Loop([members |-> <<all[i]>>, next |-> i + 1], Len(all) - i, grow)

\* Variant: the lines an insertion makes count as base lines of a conflict.
BaseEndsReach(members) == {Reach(m.op)[2] : m \in Range(members)}

BaseEnds(members) == {m.op.old[2] : m \in {n \in Range(members) : n.op.old # <<>>}}

\* st.base is the next base line: lines before it are merged or dropped.
\* The lines up to start are merged.
MergeClash(st, group, merged, start) ==
    LET clash(end) == [base |-> end, merged |-> merged, next |-> group.next,
                       conflicts |-> Append(st.conflicts, <<start, end>>)]
        last(ends) == IF ends = {} THEN start ELSE Max(ends)
    IN  clash(last(BaseEnds(group.members)))

\* A lone insertion is read from branch a, whichever branch made it.
MergeChange(a, b, st, change, merged, start) ==
    LET op == change.op
        source == IF change.branch = "a" \/ op.kind = "Insert" THEN a ELSE b
    IN  [base |-> IF op.old = <<>> THEN start ELSE op.old[2],
         merged |-> merged \o New(op, source), next |-> st.next + 1, conflicts |-> st.conflicts]

MergeGroup(base, a, b, all, st) ==
    LET merge(group, merged, start) ==
            IF Len(group.members) > 1 THEN MergeClash(st, group, merged, start)
            ELSE MergeChange(a, b, st, all[st.next], merged, start)
        from(start) == merge(Group(all, st.next), st.merged \o Lines(base, <<st.base, start>>), start)
    IN  from(Max({st.base, Position(all[st.next].op)}))

MergeChanges(base, a, b, all) ==
    LET visit(st, i) == IF i < st.next THEN st ELSE MergeGroup(base, a, b, all, st)
        st0 == [base |-> 0, merged |-> <<>>, next |-> 1, conflicts |-> <<>>]
        result(st) == [lines |-> st.merged \o Lines(base, <<st.base, Len(base)>>),
                       conflicts |-> st.conflicts]
    IN  result(Loop(st0, Len(all), visit))

\* The merged lines, and the base lines of each conflict.
MergeTexts(base, a, b) ==
    MergeChanges(base, a, b, AllChanges(MyersDiff(base, a), MyersDiff(base, b)))

\* detect_line_level_conflict: files that cannot be read are not in conflict.
LinesClash(base, a, b) == MergeTexts(base, a, b).conflicts # <<>>
=============================================================================
