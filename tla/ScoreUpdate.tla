---------------------------- MODULE ScoreUpdate ----------------------------
(***************************************************************************)
(* The incremental bookkeeping of the local search: what a flip, a pair    *)
(* flip, a weight increase and a fresh initialisation do to the state the  *)
(* search keeps beside the assignment (heuristic.cpp, weight.cpp, and the  *)
(* stack half of cardsat.cpp).                                             *)
(*                                                                         *)
(* A search state st is a record                                           *)
(*   cur_soln        the assignment                                        *)
(*   sat_count       true literals of each row                             *)
(*   hardunsat       contents of hardunsat_stack                           *)
(*   hard_unsat_nb   the separate counter of unsatisfied rows              *)
(*   cardinalitysat  contents of cardinalitysat_stack                      *)
(*   unit_weight     weight of each row                                    *)
(*   score           drop of weighted violation if the variable is flipped *)
(*   goodvar         contents of goodvar_stack                             *)
(* The three stacks are kept with an index array; module IndexedStack      *)
(* shows that this idiom implements a set, which is what they are here.    *)
(***************************************************************************)
EXTENDS KNF

IsCardinality(c) == clause_true_lit_thres[c] > 1

RowSum(f) == SumTo(f, num_clauses)

----------------------------------------------------------------------------
(* One flip: the counts and the row stacks. *)

\* sat_count of c once u has been flipped.
NewCount(st, u, c) ==
  IF ~Occurs(c, u) THEN st.sat_count[c]
  ELSE IF LitTrue(st.cur_soln, c, u) THEN st.sat_count[c] - 1
                                     ELSE st.sat_count[c] + 1

\* Rows on which update_count_for_occurrence calls sat(c) and unsat(c).
NowSat(st, u)   == {c \in Rows : /\ st.sat_count[c] < clause_true_lit_thres[c]
                                 /\ NewCount(st, u, c) >= clause_true_lit_thres[c]}
NowUnsat(st, u) == {c \in Rows : /\ st.sat_count[c] >= clause_true_lit_thres[c]
                                 /\ NewCount(st, u, c) < clause_true_lit_thres[c]}

\* Mutant: unsat(c) leaves the row on cardinalitysat_stack.
FlipCountsKeepingCardinality(st, u) ==
  [st EXCEPT
    !.cur_soln       = FlipVar(@, u),
    !.sat_count      = [c \in Rows |-> NewCount(st, u, c)],
    !.hardunsat      = (@ \ NowSat(st, u)) \cup NowUnsat(st, u),
    !.hard_unsat_nb  = @ - Cardinality(NowSat(st, u)) + Cardinality(NowUnsat(st, u)),
    !.cardinalitysat = @ \cup {c \in NowSat(st, u) : IsCardinality(c)}]

\* update_count_for_occurrence over every occurrence of u: sat(c) pops the
\* row from hardunsat_stack and pushes a cardinality row, unsat(c) undoes it.
FlipCounts(st, u) ==
  [st EXCEPT
    !.cur_soln       = FlipVar(@, u),
    !.sat_count      = [c \in Rows |-> NewCount(st, u, c)],
    !.hardunsat      = (@ \ NowSat(st, u)) \cup NowUnsat(st, u),
    !.hard_unsat_nb  = @ - Cardinality(NowSat(st, u)) + Cardinality(NowUnsat(st, u)),
    !.cardinalitysat = (@ \ NowUnsat(st, u)) \cup {c \in NowSat(st, u) : IsCardinality(c)}]

----------------------------------------------------------------------------
(* One flip: the scores.  A row matters only when its count reaches or     *)
(* leaves its threshold; the literals of one phase change by the weight.   *)

\* The phase of the literals whose score changes, and by how much, when the
\* count of a row with threshold thr and weight w goes from old to new.
TouchedPhase(thr, old, new)  == IF new > old THEN old = thr ELSE new = thr
TouchDelta(thr, w, old, new) ==
  IF new > old THEN (IF TouchedPhase(thr, old, new) THEN w ELSE -w)
               ELSE (IF TouchedPhase(thr, old, new) THEN -w ELSE w)

\* What the occurrence of u in row c adds to the score of v when u is flipped.
RowDelta(st, u, c, v) ==
  LET thr == clause_true_lit_thres[c]
      old == st.sat_count[c]
      new == NewCount(st, u, c)
  IN  IF /\ Occurs(c, u) /\ Occurs(c, v) /\ v # u
         /\ old = thr \/ new = thr
         /\ LitTrue(st.cur_soln, c, v) <=> TouchedPhase(thr, old, new)
      THEN TouchDelta(thr, st.unit_weight[c], old, new) ELSE 0

Deltas(st, u, v) == [c \in Rows |-> RowDelta(st, u, c, v)]

\* Mutant: the score of the flipped variable is not negated.
FlipScoreNotNegated(st, u) ==
  [v \in Vars |-> st.score[v] + RowSum(Deltas(st, u, v))]

FlipScore(st, u) ==
  [v \in Vars |-> IF v = u THEN -st.score[u]
                  ELSE st.score[v] + RowSum(Deltas(st, u, v))]

WithScores(st, score, good) == [st EXCEPT !.score = score, !.goodvar = good]

\* Mutant: nothing is swept.
UpdateGoodvarStackUnswept(good, score, u) ==
  good \cup {n \in var_neighbor[u] : score[n] > 0}

\* Materialised mode: the whole stack is swept after the flip, then every
\* neighbour of the flipped variable with a positive score is added.  The
\* flipped variable is not its own neighbour: it waits until one of its
\* neighbours is flipped or its score is raised by the weights.
UpdateGoodvarStack(good, score, u) ==
  (good \ {v \in Vars : score[v] <= 0}) \cup {n \in var_neighbor[u] : score[n] > 0}

FlipWithNeighbor(st, u) ==
  LET score == FlipScore(st, u)
  IN  WithScores(FlipCounts(st, u), score, UpdateGoodvarStack(st.goodvar, score, u))

\* Mutant: a rise never pushes.
GoodAfterFallsOnly(isGood, s, d) ==
  isGood /\ \A c \in Rows : d[c] < 0 => s + SumTo(d, c) > 0

\* On-the-fly mode: the stack follows every single change of a score.  d[c]
\* is the change made by row c; a rise may push v, a fall may remove it.
GoodAfter(isGood, s, d) ==
  LET after[c \in 0..num_clauses] ==
        IF c = 0 THEN isGood
        ELSE LET positive == s + SumTo(d, c) > 0
             IN  IF d[c] > 0 THEN after[c - 1] \/ positive
                 ELSE IF d[c] < 0 THEN after[c - 1] /\ positive
                 ELSE after[c - 1]
  IN  after[num_clauses]

FlipNoNeighbor(st, u) ==
  WithScores(FlipCounts(st, u), FlipScore(st, u),
    {v \in Vars \ {u} : GoodAfter(v \in st.goodvar, st.score[v], Deltas(st, u, v))})

----------------------------------------------------------------------------
(* Weights: one more for every unsatisfied row, the scores following.      *)

WeightDelta(st, v) ==
  RowSum([c \in Rows |->
    IF c \in st.hardunsat /\ Occurs(c, v)
    THEN (IF LitTrue(st.cur_soln, c, v) THEN -1 ELSE 1) ELSE 0])

\* Mutant: a weight rises by the degree of its row, and the scores stay behind.
IncreaseWeightsByDegree(st) ==
  [st EXCEPT !.unit_weight =
    [c \in Rows |-> IF c \in st.hardunsat THEN @[c] + clause_true_lit_thres[c] ELSE @[c]]]

IncreaseWeights(st) ==
  LET score == [v \in Vars |-> st.score[v] + WeightDelta(st, v)]
      fallen == {v \in Vars : WeightDelta(st, v) < 0 /\ score[v] <= 0}
      risen  == {v \in Vars : WeightDelta(st, v) > 0 /\ score[v] > 0}
  IN  [st EXCEPT
        !.unit_weight = [c \in Rows |-> IF c \in st.hardunsat THEN @[c] + 1 ELSE @[c]],
        !.score       = score,
        !.goodvar     = (@ \ fallen) \cup risen]

----------------------------------------------------------------------------
(* init_local_search: everything recomputed from the assignment.           *)

\* violation_make_contribution
MakeContribution(w, gap) == IF gap > 0 THEN w ELSE 0

\* What row c contributes to the score of its variable v (init_score_multi).
InitContribution(sol, count, c, v) ==
  LET gap == clause_true_lit_thres[c] - count
  IN  IF ~Occurs(c, v) THEN 0
      ELSE IF LitTrue(sol, c, v) THEN -MakeContribution(1, gap + 1)
      ELSE IF count < clause_true_lit_thres[c] THEN MakeContribution(1, gap)
      ELSE 0

InitLocalSearch(sol) ==
  LET count == [c \in Rows |-> SatCount(sol, c)]
      short == {c \in Rows : count[c] < clause_true_lit_thres[c]}
      score == [v \in Vars |->
                  RowSum([c \in Rows |-> InitContribution(sol, count[c], c, v)])]
  IN  [ cur_soln       |-> sol,
        sat_count      |-> count,
        hardunsat      |-> short,
        hard_unsat_nb  |-> Cardinality(short),
        cardinalitysat |-> {c \in Rows : IsCardinality(c)} \ short,
        unit_weight    |-> [c \in Rows |-> 1],
        score          |-> score,
        goodvar        |-> {v \in Vars : score[v] > 0} ]
=============================================================================
