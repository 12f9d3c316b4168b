-------------------------------- MODULE Plan --------------------------------
(***************************************************************************)
(* Transaction planning, packages/wallets/src/tx/plan.ts.  The circuits    *)
(* take one note (withdraw, transfer, split) or two (join), so a target    *)
(* above the biggest note is met by joining first.                         *)
(***************************************************************************)
EXTENDS Integers, Sequences, SequencesExt, FiniteSets, FiniteSetsExt

\* The elements of a set in the order of `before', which must be strict and total.
inOrder(S, before(_, _)) ==
  [i \in 1 .. Cardinality(S) |-> CHOOSE n \in S : Cardinality({m \in S : before(m, n)}) = i - 1]

cheaper(a, b) == a.value < b.value \/ (a.value = b.value /\ a.leafIndex < b.leafIndex)
older(a, b) == a.leafIndex < b.leafIndex

\* Ascending by value, then by leaf index; notes are [leafIndex, asset, value].
forAsset(notes, asset) == inOrder({n \in notes : n.asset = asset /\ n.value > 0}, cheaper)

TotalValue(seq) == FoldLeft(LAMBDA acc, n : acc + n.value, 0, seq)
Largest(sorted, k) == SubSeq(sorted, Len(sorted) - k + 1, Len(sorted))

\* The place of the smallest note that covers the target and leaves no dust;
\* else of the smallest that covers it; else 0.
bestFit(sorted, target, policy) ==
  LET covering == {i \in DOMAIN sorted : sorted[i].value >= target}
      clean == {i \in covering : \/ sorted[i].value = target
                                 \/ sorted[i].value - target >= policy.dustFloor} IN
  IF clean # {} THEN Min(clean) ELSE IF covering # {} THEN Min(covering) ELSE 0

\* As few notes as can cover the target; of the runs of that many notes in the
\* ascending list the one with the smallest covering sum.
minimalCover(sorted, target) ==
  LET sizes == {k \in DOMAIN sorted : TotalValue(Largest(sorted, k)) >= target}
      k == Min(sizes)
      window(start) == SubSeq(sorted, start + 1, start + k)
      starts == {s \in 0 .. Len(sorted) - k : TotalValue(window(s)) >= target}
      smallest == Min({TotalValue(window(s)) : s \in starts}) IN
  IF sizes = {} THEN << >> ELSE window(Min({s \in starts : TotalValue(window(s)) = smallest}))

\* Leaf index -1 is the output of the step before.
joinStep(a, b) ==
  LET lo == IF a.leafIndex < b.leafIndex THEN a ELSE b
      hi == IF a.leafIndex < b.leafIndex THEN b ELSE a IN
  [op |-> "JOIN", inputs |-> <<lo.leafIndex, hi.leafIndex>>, outgoing |-> 0,
   change |-> lo.value + hi.value]

Refused(reason) == [failure |-> reason, steps |-> << >>]

planSpend(notes, op, asset, target, policy) ==
  LET candidates == forAsset(notes, asset)
      single == bestFit(candidates, target, policy)
      cover == minimalCover(candidates, target)
      ordered == inOrder(ToSet(cover), older)
      merge(acc, n) ==
        LET step == joinStep(acc.merged, n) IN
        [steps |-> Append(acc.steps, step),
         merged |-> [leafIndex |-> -1, asset |-> asset, value |-> step.change]]
      joined == FoldLeft(merge, [steps |-> << >>, merged |-> Head(ordered)], Tail(ordered))
      spend(note) == [op |-> op, inputs |-> <<note.leafIndex>>, outgoing |-> target,
                      change |-> note.value - target]
      steps == Append(joined.steps, spend(joined.merged)) IN
  CASE target <= 0 -> Refused("NON_POSITIVE_TARGET")
    [] target > 0 /\ candidates = << >> -> Refused("NO_NOTES_FOR_ASSET")
    [] target > 0 /\ candidates # << >> /\ single # 0 ->
         [failure |-> "none", steps |-> <<spend(candidates[single])>>]
    [] OTHER ->
         IF cover = << >> THEN Refused("INSUFFICIENT_TOTAL")
         ELSE IF Len(steps) > policy.maxSteps THEN Refused("EXCEEDS_MAX_STEPS")
         ELSE [failure |-> "none", steps |-> steps]

\* Slip: a plan of maxSteps steps folds one note more than there are steps.
spendableBalance_joins(notes, asset, policy) ==
  LET candidates == forAsset(notes, asset) IN
  [inOneTx |-> TotalValue(Largest(candidates, Min({1, Len(candidates)}))),
   withPlan |-> TotalValue(Largest(candidates, Min({Max({1, policy.maxSteps}) + 1, Len(candidates)})))]

spendableBalance(notes, asset, policy) ==
  LET candidates == forAsset(notes, asset) IN
  [inOneTx |-> TotalValue(Largest(candidates, Min({1, Len(candidates)}))),
   withPlan |-> TotalValue(Largest(candidates, Min({Max({1, policy.maxSteps}), Len(candidates)})))]

=============================================================================
