------------------------------ MODULE PairFlip ------------------------------
(***************************************************************************)
(* swap_vars exchanges the values of two literals of a satisfied           *)
(* cardinality row.  In materialised mode flip_pair_atomic does both flips *)
(* in one pass: a row the two variables share is scanned once, the score   *)
(* changes owed to the second flip being put aside and applied between the *)
(* two.  Everywhere else it falls back on flip; flip.                      *)
(***************************************************************************)
EXTENDS ScoreUpdate

SharedRows(a, b) == {c \in Rows : Occurs(c, a) /\ Occurs(c, b)}

\* sat_count of a shared row before, between and after the two flips.
MiddleCount(st, a, c)   == NewCount(st, a, c)
FinalCount(st, a, b, c) == MiddleCount(st, a, c) + (IF LitTrue(st.cur_soln, c, b) THEN -1 ELSE 1)

\* update_shared_pair_scores, the part applied while the row is scanned: what
\* the flip of a does to the score of v.
FirstDelta(st, a, c, v) ==
  LET thr == clause_true_lit_thres[c]
      old == st.sat_count[c]
      mid == MiddleCount(st, a, c)
      truePhase == IF mid > old THEN old = thr ELSE mid = thr
  IN  IF /\ v # a /\ Occurs(c, v) /\ (old = thr \/ mid = thr)
         /\ LitTrue(FlipVar(st.cur_soln, a), c, v) <=> truePhase
      THEN IF (mid > old) <=> truePhase THEN st.unit_weight[c] ELSE -st.unit_weight[c]
      ELSE 0

\* Mutant of SecondDelta: the first variable is left out, as in the first part.
SecondDeltaWithoutFirst(st, a, b, c, v) ==
  LET thr == clause_true_lit_thres[c]
      mid == MiddleCount(st, a, c)
      final == FinalCount(st, a, b, c)
      truePhase == IF final > mid THEN mid = thr ELSE final = thr
  IN  IF /\ v \notin {a, b} /\ Occurs(c, v) /\ (mid = thr \/ final = thr)
         /\ LitTrue(FlipVar(st.cur_soln, a), c, v) <=> truePhase
      THEN IF (final > mid) <=> truePhase THEN st.unit_weight[c] ELSE -st.unit_weight[c]
      ELSE 0

\* ... and the part accumulated in weight_delta_score: what the flip of b will
\* do, read while b is still unflipped.
SecondDelta(st, a, b, c, v) ==
  LET thr == clause_true_lit_thres[c]
      mid == MiddleCount(st, a, c)
      final == FinalCount(st, a, b, c)
      truePhase == IF final > mid THEN mid = thr ELSE final = thr
  IN  IF /\ v # b /\ Occurs(c, v) /\ (mid = thr \/ final = thr)
         /\ LitTrue(FlipVar(st.cur_soln, a), c, v) <=> truePhase
      THEN IF (final > mid) <=> truePhase THEN st.unit_weight[c] ELSE -st.unit_weight[c]
      ELSE 0

\* The first half: every row of a, shared ones through FirstDelta.
MergedFirst(st, a, b) ==
  LET score == [v \in Vars |->
        IF v = a THEN -st.score[a]
        ELSE st.score[v] + RowSum([c \in Rows |->
               IF c \in SharedRows(a, b) THEN FirstDelta(st, a, c, v) ELSE RowDelta(st, a, c, v)])]
  IN  WithScores(FlipCounts(st, a), score, UpdateGoodvarStack(st.goodvar, score, a))

\* The delayed changes owed to v.
Delayed(st, a, b, v) ==
  RowSum([c \in Rows |-> IF c \in SharedRows(a, b) THEN SecondDelta(st, a, b, c, v) ELSE 0])

\* The second half: the delayed changes, then the rows of b that are not shared.
MergedPair(st, a, b) ==
  LET mid == MergedFirst(st, a, b)
      score == [v \in Vars |->
        IF v = b THEN -mid.score[b]
        ELSE mid.score[v] + Delayed(st, a, b, v) + RowSum([c \in Rows |->
               IF c \in SharedRows(a, b) THEN 0 ELSE RowDelta(mid, b, c, v)])]
  IN  WithScores(FlipCounts(mid, b), score, UpdateGoodvarStack(mid.goodvar, score, b))

SequentialPair(st, a, b) == FlipWithNeighbor(FlipWithNeighbor(st, a), b)
=============================================================================
