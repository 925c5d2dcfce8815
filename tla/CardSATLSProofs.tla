-------------------------- MODULE CardSATLSProofs --------------------------
(* The search keeps its books right, reports only models, and implements    *)
(* the walk, for every formula and every setting.                           *)
EXTENDS CardSATLS, ScoreUpdateProofs

-----------------------------------------------------------------------------
(* The one-pass pair flip equals the two flips it replaces, for every       *)
(* formula and every pair of variables.                                     *)

\* The part applied while a shared row is scanned is the change of the first
\* flip.
LEMMA FirstDeltaIsFirstFlip ==
  ASSUME NEW st \in SearchStates, RowsExact(st), NEW a \in Vars, NEW v \in Vars, v # a,
         NEW c \in Rows, Occurs(c, a)
  PROVE  FirstDelta(st, a, c, v) = RowDelta(st, a, c, v)
<1> DEFINE sol == st.cur_soln
           w == st.unit_weight[c]
           thr == clause_true_lit_thres[c]
           old == st.sat_count[c]
           mid == NewCount(st, a, c)
<1>1. /\ w \in Int /\ thr \in Nat /\ old \in Int
      /\ mid = IF LitTrue(sol, c, a) THEN old - 1 ELSE old + 1
  BY KNFAssumption DEF SearchStates, NewCount
<1>2. LitTrue(FlipVar(sol, a), c, v) <=> LitTrue(sol, c, v)
  BY DEF SearchStates, Assignments, LitTrue, FlipVar
<1>3. FirstDelta(st, a, c, v) =
        LET truePhase == IF mid > old THEN old = thr ELSE mid = thr
        IN  IF /\ v # a /\ Occurs(c, v) /\ (old = thr \/ mid = thr)
               /\ LitTrue(FlipVar(sol, a), c, v) <=> truePhase
            THEN IF (mid > old) <=> truePhase THEN w ELSE -w
            ELSE 0
  BY DEF FirstDelta, MiddleCount
<1>4. RowDelta(st, a, c, v) =
        IF /\ Occurs(c, a) /\ Occurs(c, v) /\ v # a
           /\ old = thr \/ mid = thr
           /\ LitTrue(sol, c, v) <=> TouchedPhase(thr, old, mid)
        THEN TouchDelta(thr, w, old, mid) ELSE 0
  BY DEF RowDelta
<1> HIDE DEF sol, w, thr, old, mid
<1> QED
  BY <1>1, <1>2, <1>3, <1>4 DEF TouchedPhase, TouchDelta

\* What is put aside for a shared row is the change of the second flip in the
\* state between the two.
LEMMA SecondDeltaIsSecondFlip ==
  ASSUME NEW st \in SearchStates, NEW mid, RowsExact(st),
         NEW a \in Vars, NEW b \in Vars, a # b, NEW v \in Vars, v # b,
         NEW c \in Rows, Occurs(c, a), Occurs(c, b),
         mid.cur_soln = FlipVar(st.cur_soln, a), mid.unit_weight = st.unit_weight,
         mid.sat_count = [r \in Rows |-> NewCount(st, a, r)]
  PROVE  SecondDelta(st, a, b, c, v) = RowDelta(mid, b, c, v)
<1> DEFINE sol == FlipVar(st.cur_soln, a)
           w == st.unit_weight[c]
           thr == clause_true_lit_thres[c]
           old == mid.sat_count[c]
           final == FinalCount(st, a, b, c)
<1>1. LitTrue(sol, c, b) <=> LitTrue(st.cur_soln, c, b)
  BY DEF SearchStates, Assignments, LitTrue, FlipVar
<1>2. /\ w \in Int /\ thr \in Nat /\ old \in Int /\ old = MiddleCount(st, a, c)
      /\ final = IF LitTrue(sol, c, b) THEN old - 1 ELSE old + 1
  BY <1>1, KNFAssumption DEF SearchStates, NewCount, MiddleCount, FinalCount
<1>3. NewCount(mid, b, c) = final
  BY <1>2 DEF NewCount
<1>4. SecondDelta(st, a, b, c, v) =
        LET truePhase == IF final > old THEN old = thr ELSE final = thr
        IN  IF /\ v # b /\ Occurs(c, v) /\ (old = thr \/ final = thr)
               /\ LitTrue(sol, c, v) <=> truePhase
            THEN IF (final > old) <=> truePhase THEN w ELSE -w
            ELSE 0
  BY <1>2 DEF SecondDelta
<1>5. RowDelta(mid, b, c, v) =
        IF /\ Occurs(c, b) /\ Occurs(c, v) /\ v # b
           /\ old = thr \/ final = thr
           /\ LitTrue(sol, c, v) <=> TouchedPhase(thr, old, final)
        THEN TouchDelta(thr, w, old, final) ELSE 0
  BY <1>3 DEF RowDelta
<1> HIDE DEF sol, w, thr, old, final
<1> QED
  BY <1>2, <1>4, <1>5 DEF TouchedPhase, TouchDelta

LEMMA MergedFirstIsFlip ==
  ASSUME NEW st, StateExact(st), NEW a \in Vars, NEW b \in Vars
  PROVE  MergedFirst(st, a, b) = FlipWithNeighbor(st, a)
<1> DEFINE term(v) == [c \in Rows |-> IF c \in SharedRows(a, b) THEN FirstDelta(st, a, c, v)
                                      ELSE RowDelta(st, a, c, v)]
           sc == [v \in Vars |-> IF v = a THEN -st.score[a] ELSE st.score[v] + RowSum(term(v))]
<1>1. ASSUME NEW v \in Vars, v # a PROVE term(v) = Deltas(st, a, v)
  <2>1. \A c \in SharedRows(a, b) : FirstDelta(st, a, c, v) = RowDelta(st, a, c, v)
    BY <1>1, FirstDeltaIsFirstFlip DEF StateExact, SharedRows
  <2> QED BY <2>1 DEF Deltas
<1>2. sc = FlipScore(st, a)
  <2> SUFFICES ASSUME NEW v \in Vars
               PROVE  (IF v = a THEN -st.score[a] ELSE st.score[v] + RowSum(term(v)))
                        = (IF v = a THEN -st.score[a] ELSE st.score[v] + RowSum(Deltas(st, a, v)))
    BY DEF FlipScore
  <2> HIDE DEF term
  <2> QED BY <1>1
<1>3. MergedFirst(st, a, b)
        = WithScores(FlipCounts(st, a), sc, UpdateGoodvarStack(st.goodvar, sc, a))
  BY DEF MergedFirst
<1> HIDE DEF sc
<1> QED
  BY <1>2, <1>3 DEF FlipWithNeighbor

\* The pair flip ends in the state of the two flips: counts, row stacks,
\* counter, scores and good variables.
THEOREM PairFlipIsSequential ==
  ASSUME NEW st, StateExact(st), NEW a \in Vars, NEW b \in Vars, a # b
  PROVE  MergedPair(st, a, b) = SequentialPair(st, a, b)
<1> DEFINE mid == FlipWithNeighbor(st, a)
           put(v) == [c \in Rows |-> IF c \in SharedRows(a, b) THEN SecondDelta(st, a, b, c, v)
                                     ELSE 0]
           rest(v) == [c \in Rows |-> IF c \in SharedRows(a, b) THEN 0 ELSE RowDelta(mid, b, c, v)]
           sc == [v \in Vars |-> IF v = b THEN -mid.score[b]
                                 ELSE mid.score[v] + RowSum(put(v)) + RowSum(rest(v))]
<1>1. /\ StateExact(mid) /\ mid.cur_soln = FlipVar(st.cur_soln, a)
      /\ mid.unit_weight = st.unit_weight
  BY FlipWithNeighborExact
<1>2. mid.sat_count = [c \in Rows |-> NewCount(st, a, c)]
  <2>1. st \in SearchStates
    BY DEF StateExact
  <2>2. mid.sat_count = FlipCounts(st, a).sat_count
    <3>1. "sat_count" # "score" /\ "sat_count" # "goodvar"
      OBVIOUS
    <3> QED BY <3>1 DEF FlipWithNeighbor, WithScores
  <2> QED BY <2>1, <2>2, FlipCountsFields
<1>3. /\ mid \in SearchStates /\ RowsExact(mid) /\ st \in SearchStates /\ RowsExact(st)
      /\ mid.score \in [Vars -> Int] /\ num_clauses \in Nat /\ Rows = 1..num_clauses
  BY <1>1, KNFAssumption DEF StateExact, SearchStates, Rows
<1> HIDE DEF mid
<1>4. ASSUME NEW v \in Vars, v # b
      PROVE  mid.score[v] + RowSum(put(v)) + RowSum(rest(v))
               = mid.score[v] + RowSum(Deltas(mid, b, v))
  <2> DEFINE all == Deltas(mid, b, v)
             p == put(v)
             r == rest(v)
  <2>1. \A c \in Rows : all[c] = RowDelta(mid, b, c, v) /\ all[c] \in Int
    BY <1>3, RowGainAfterFlip DEF Deltas
  <2>2. \A c \in SharedRows(a, b) : SecondDelta(st, a, b, c, v) = RowDelta(mid, b, c, v)
    BY <1>1, <1>2, <1>3, <1>4, SecondDeltaIsSecondFlip DEF SharedRows
  <2>3. \A c \in Rows : /\ p[c] \in Int /\ r[c] \in Int /\ all[c] = p[c] + r[c]
    BY <2>1, <2>2
  <2>4. p \in [1..num_clauses -> Int] /\ r \in [1..num_clauses -> Int] /\ all \in [1..num_clauses -> Int]
    BY <1>3, <2>1, <2>3 DEF Deltas
  <2> HIDE DEF p, r, all
  <2>5. RowSum(all) = RowSum(p) + RowSum(r)
    BY <1>3, <2>3, <2>4, SumToAdditive DEF RowSum
  <2>6. RowSum(p) \in Int /\ RowSum(r) \in Int /\ mid.score[v] \in Int
    BY <1>3, <2>4, SumToStep DEF RowSum
  <2>7. mid.score[v] + RowSum(p) + RowSum(r) = mid.score[v] + RowSum(all)
    BY <2>5, <2>6
  <2> QED BY <2>7 DEF p, r, all
<1>5. sc = FlipScore(mid, b)
  <2> SUFFICES ASSUME NEW v \in Vars
               PROVE  (IF v = b THEN -mid.score[b]
                       ELSE mid.score[v] + RowSum(put(v)) + RowSum(rest(v)))
                        = (IF v = b THEN -mid.score[b]
                           ELSE mid.score[v] + RowSum(Deltas(mid, b, v)))
    BY DEF FlipScore
  <2> HIDE DEF put, rest
  <2> QED BY <1>4
<1>6. MergedFirst(st, a, b) = mid
  BY MergedFirstIsFlip DEF mid
<1>7. MergedPair(st, a, b)
        = WithScores(FlipCounts(mid, b), sc, UpdateGoodvarStack(mid.goodvar, sc, b))
  BY <1>6 DEF MergedPair, Delayed
<1> HIDE DEF sc
<1>8. MergedPair(st, a, b) = FlipWithNeighbor(mid, b)
  BY <1>5, <1>7 DEF FlipWithNeighbor
<1> QED
  BY <1>8 DEF SequentialPair, mid

-----------------------------------------------------------------------------
(* The search. *)

\* The inductive invariant.  The search state as a whole has to be right for
\* any part of it to stay right: the counts decide which rows are on which
\* stack and which scores change, the counter decides when the loop stops,
\* and that the loop stopped with tries left is what makes the answer right.
Inv ==
  /\ TypeOK
  /\ pc # "try" => StateExact(Here)
  /\ pc \in {"try", "flip"} => tries < max_tries
  /\ ProgressAccounting
  /\ pc \in {"verify", "done"} /\ tries < max_tries => IsModel(cur_soln)
  /\ result = IF pc # "done" THEN -1 ELSE IF IsModel(cur_soln) THEN 10 ELSE 0

\* The record Here, field by field.
LEMMA HereFields ==
  /\ Here.cur_soln = cur_soln /\ Here.sat_count = sat_count /\ Here.hardunsat = hardunsat
  /\ Here.hard_unsat_nb = hard_unsat_nb /\ Here.cardinalitysat = cardinalitysat
  /\ Here.unit_weight = unit_weight /\ Here.score = score /\ Here.goodvar = goodvar
BY DEF Here

LEMMA BecomeRight ==
  ASSUME NEW st, StateExact(st), Become(st)
  PROVE  /\ StateExact(Here)' /\ Here' = st
         /\ cur_soln' \in Assignments /\ sat_count' \in [Rows -> Int] /\ hardunsat' \subseteq Rows
         /\ hard_unsat_nb' \in Int /\ cardinalitysat' \subseteq Rows
         /\ unit_weight' \in [Rows -> Nat] /\ score' \in [Vars -> Int] /\ goodvar' \subseteq Vars
<1>1. st \in SearchStates
  BY DEF StateExact
<1>2. st = [cur_soln |-> st.cur_soln, sat_count |-> st.sat_count,
            hardunsat |-> st.hardunsat, hard_unsat_nb |-> st.hard_unsat_nb,
            cardinalitysat |-> st.cardinalitysat, unit_weight |-> st.unit_weight,
            score |-> st.score, goodvar |-> st.goodvar]
  BY <1>1 DEF SearchStates
<1>3. Here' = st
  BY <1>2 DEF Become, Here
<1>4. StateExact(Here)' <=> StateExact(Here')
  BY DEF StateExact, SearchStates, RowsExact, ScoresExact, Short, Gains, RowGain, RowSum
<1>5. StateExact(Here)'
  BY <1>3, <1>4
<1>6. /\ cur_soln' \in Assignments /\ sat_count' \in [Rows -> Int] /\ hardunsat' \subseteq Rows
      /\ hard_unsat_nb' \in Int /\ cardinalitysat' \subseteq Rows
      /\ unit_weight' \in [Rows -> Nat] /\ score' \in [Vars -> Int] /\ goodvar' \subseteq Vars
  BY <1>1 DEF Become, SearchStates
<1> QED
  BY <1>3, <1>5, <1>6

\* No row is unsatisfied exactly on a model.
LEMMA CounterTellsModel ==
  ASSUME StateExact(Here)
  PROVE  hard_unsat_nb = 0 <=> IsModel(cur_soln)
<1>1. hard_unsat_nb = Cardinality(Short(cur_soln))
  BY HereFields DEF StateExact, RowsExact
<1>2. IsFiniteSet(Short(cur_soln))
  BY RowsFinite DEF Short
<1>3. hard_unsat_nb = 0 <=> Short(cur_soln) = {}
  BY <1>1, <1>2, FS_EmptySet
<1>4. \A c \in Rows : SatCount(cur_soln, c) \in Nat /\ clause_true_lit_thres[c] \in Nat
  BY SatCountType, KNFAssumption
<1> QED
  BY <1>3, <1>4 DEF Short, IsModel

LEMMA FlipRight ==
  ASSUME NEW st, StateExact(st), NEW u \in Vars
  PROVE  /\ StateExact(Flip(st, u))
         /\ Flip(st, u).cur_soln = FlipVar(st.cur_soln, u)
         /\ Flip(st, u).unit_weight = st.unit_weight
BY FlipWithNeighborExact, FlipNoNeighborExact DEF Flip

LEMMA FlipPairRight ==
  ASSUME NEW st, StateExact(st), NEW a \in Vars, NEW b \in Vars, a # b
  PROVE  /\ StateExact(FlipPairAtomic(st, a, b))
         /\ FlipPairAtomic(st, a, b).cur_soln = FlipVar(FlipVar(st.cur_soln, a), b)
<1>1. CASE materialized_neighbor_mode /\ SharedRows(a, b) # {}
  <2>1. FlipPairAtomic(st, a, b) = FlipWithNeighbor(FlipWithNeighbor(st, a), b)
    BY <1>1, PairFlipIsSequential DEF FlipPairAtomic, SequentialPair
  <2> QED BY <2>1, FlipWithNeighborExact
<1>2. CASE ~(materialized_neighbor_mode /\ SharedRows(a, b) # {})
  <2>1. FlipPairAtomic(st, a, b) = Flip(Flip(st, a), b)
    BY <1>2 DEF FlipPairAtomic
  <2> QED BY <2>1, FlipRight
<1> QED BY <1>1, <1>2

\* What is chosen to be flipped is a variable.
LEMMA ChoicesAreVars ==
  /\ PickGoodvar \subseteq Vars
  /\ \A sc, c : SelectVar(sc, c) \subseteq Vars
  /\ \A sc, S : BestOf(sc, S) \subseteq S
  /\ \A c, start, stride, value : Probed(c, start, stride, value) \subseteq Vars
BY DEF PickGoodvar, SelectVar, FalseVars, FirstBest, BestOf, Probed

LEMMA StartsAreAssignments ==
  ASSUME cur_soln \in Assignments PROVE StartAssignments \subseteq Assignments
BY CardSATLSAssumption DEF StartAssignments, Assignments

----------------------------------------------------------------------------
(* The actions.                                                             *)

LEMMA InitInv == Init => Inv
<1> SUFFICES ASSUME Init PROVE Inv
  OBVIOUS
<1>1. max_tries \in Nat \ {0, 1} /\ IntMax \in Int
  BY CardSATLSAssumption DEF IntMax
<1>2. TypeOK
  BY <1>1 DEF Init, TypeOK, Assignments
<1> QED
  BY <1>1, <1>2 DEF Init, Inv, ProgressAccounting

\* The tail of an iteration keeps the bests in order.
LEMMA AccountRight ==
  ASSUME Inv, pc = "flip", non_improve_flips < max_non_improve_flip, Account,
         StateExact(Here)', hard_unsat_nb' \in Int
  PROVE  /\ pc' = "flip" /\ tries' = tries /\ result' = result
         /\ ProgressAccounting'
         /\ step' \in Nat /\ non_improve_flips' \in Nat
         /\ best_hard_unsat_nb' \in Int /\ minimum_hard_unsat_nb' \in Int
<1>1. /\ step \in Nat /\ non_improve_flips \in Nat /\ best_hard_unsat_nb \in Int
      /\ minimum_hard_unsat_nb \in Int /\ max_non_improve_flip \in Nat
  BY CardSATLSAssumption DEF Inv, TypeOK
<1>2. hard_unsat_nb' = Cardinality(hardunsat')
  BY DEF StateExact, RowsExact, Here
<1>3. /\ minimum_hard_unsat_nb <= best_hard_unsat_nb /\ non_improve_flips < step
  BY DEF Inv, ProgressAccounting
<1>4. CASE hard_unsat_nb' < best_hard_unsat_nb
  <2>1. best_hard_unsat_nb' = hard_unsat_nb' /\ non_improve_flips' = 0
    BY <1>4 DEF Account
  <2> QED BY <1>1, <1>2, <1>3, <1>4, <2>1 DEF Account, ProgressAccounting, Smaller
<1>5. CASE ~(hard_unsat_nb' < best_hard_unsat_nb)
  <2>1. best_hard_unsat_nb' = best_hard_unsat_nb /\ non_improve_flips' = non_improve_flips + 1
    BY <1>5 DEF Account
  <2> QED BY <1>1, <1>2, <1>3, <1>5, <2>1 DEF Account, ProgressAccounting, Smaller
<1> QED BY <1>4, <1>5

\* What an iteration that moved to the state st, and wrote its time stamps and
\* its weight totals, leaves behind.
LEMMA IterationRight ==
  ASSUME Inv, Searching, Account, NEW st, StateExact(st), Become(st),
         time_stamp' \in [Vars -> Nat], delta_total_weight' \in Int, ave_weight' \in Nat
  PROVE  Inv'
<1>1. /\ StateExact(Here)'
      /\ cur_soln' \in Assignments /\ sat_count' \in [Rows -> Int] /\ hardunsat' \subseteq Rows
      /\ hard_unsat_nb' \in Int /\ cardinalitysat' \subseteq Rows
      /\ unit_weight' \in [Rows -> Nat] /\ score' \in [Vars -> Int] /\ goodvar' \subseteq Vars
  BY BecomeRight
<1>2. /\ pc' = "flip" /\ tries' = tries /\ result' = result
      /\ ProgressAccounting'
      /\ step' \in Nat /\ non_improve_flips' \in Nat
      /\ best_hard_unsat_nb' \in Int /\ minimum_hard_unsat_nb' \in Int
  BY <1>1, AccountRight DEF Searching
<1>3. pc = "flip" /\ tries < max_tries /\ tries \in 1..max_tries /\ result = -1
  BY DEF Searching, Inv, TypeOK
<1>4. TypeOK'
  BY <1>1, <1>2, <1>3 DEF TypeOK
<1> QED
  BY <1>1, <1>2, <1>3, <1>4 DEF Inv

LEMMA StartTryRight == ASSUME Inv, StartTry PROVE Inv'
<1>1. PICK sol \in StartAssignments : Become(InitLocalSearch(sol))
  BY DEF StartTry
<1>2. sol \in Assignments
  BY <1>1, StartsAreAssignments DEF Inv, TypeOK
<1>3. StateExact(InitLocalSearch(sol))
  BY <1>2, InitLocalSearchExact
<1>4. /\ StateExact(Here)'
      /\ cur_soln' \in Assignments /\ sat_count' \in [Rows -> Int] /\ hardunsat' \subseteq Rows
      /\ hard_unsat_nb' \in Int /\ cardinalitysat' \subseteq Rows
      /\ unit_weight' \in [Rows -> Nat] /\ score' \in [Vars -> Int] /\ goodvar' \subseteq Vars
  BY <1>1, <1>3, BecomeRight
<1>5. /\ tries' = tries /\ pc = "try" /\ pc' = "flip" /\ result' = result
      /\ time_stamp' = [v \in Vars |-> 0] /\ step' = 1 /\ non_improve_flips' = 0
      /\ best_hard_unsat_nb' = hard_unsat_nb'
      /\ minimum_hard_unsat_nb' = Smaller(minimum_hard_unsat_nb, hard_unsat_nb')
      /\ delta_total_weight' = delta_total_weight /\ ave_weight' = ave_weight
  BY DEF StartTry
<1>6. /\ minimum_hard_unsat_nb \in Int /\ tries \in 1..max_tries /\ tries < max_tries
      /\ result = -1 /\ delta_total_weight \in Int /\ ave_weight \in Nat
      /\ max_non_improve_flip \in Nat
  BY <1>5, CardSATLSAssumption DEF Inv, TypeOK
<1>7. minimum_hard_unsat_nb' \in Int /\ minimum_hard_unsat_nb' <= hard_unsat_nb'
  BY <1>4, <1>5, <1>6 DEF Smaller
<1>8. TypeOK'
  BY <1>4, <1>5, <1>6, <1>7 DEF TypeOK
<1>9. hard_unsat_nb' = Cardinality(hardunsat')
  BY <1>4 DEF StateExact, RowsExact, Here
<1>10. ProgressAccounting'
  BY <1>4, <1>5, <1>6, <1>7, <1>9 DEF ProgressAccounting
<1> QED
  BY <1>4, <1>5, <1>6, <1>8, <1>10 DEF Inv

\* Every flip of an iteration is one of FlipGood, FlipAfterWeights and Swap.
LEMMA FlipGoodRight ==
  ASSUME Inv, FlipGood
  PROVE  Inv' /\ \E v \in Vars : cur_soln' = FlipVar(cur_soln, v)
<1>1. PICK v \in PickGoodvar : /\ Become(Flip(Here, v))
                               /\ time_stamp' = [time_stamp EXCEPT ![v] = step]
  BY DEF FlipGood
<1>2. v \in Vars /\ StateExact(Here) /\ step \in Nat /\ time_stamp \in [Vars -> Nat]
      /\ delta_total_weight \in Int /\ ave_weight \in Nat
  BY ChoicesAreVars DEF FlipGood, Searching, Inv, TypeOK
<1>3. StateExact(Flip(Here, v)) /\ Flip(Here, v).cur_soln = FlipVar(cur_soln, v)
  BY <1>2, FlipRight, HereFields
<1>4. /\ time_stamp' \in [Vars -> Nat] /\ delta_total_weight' \in Int /\ ave_weight' \in Nat
  BY <1>1, <1>2 DEF FlipGood
<1>5. Inv'
  BY <1>1, <1>3, <1>4, IterationRight DEF FlipGood
<1>6. cur_soln' = FlipVar(cur_soln, v)
  BY <1>1, <1>3 DEF Become
<1> QED
  BY <1>2, <1>5, <1>6

LEMMA FlipAfterWeightsRight ==
  ASSUME Inv, FlipAfterWeights
  PROVE  Inv' /\ \E v \in Vars : cur_soln' = FlipVar(cur_soln, v)
<1> DEFINE st == IncreaseWeights(Here)
           total == delta_total_weight + Cardinality(hardunsat)
<1>1. PICK c \in hardunsat : \E v \in SelectVar(st.score, c) :
         /\ Become(Flip(st, v)) /\ time_stamp' = [time_stamp EXCEPT ![v] = step]
  BY DEF FlipAfterWeights
<1>2. PICK v \in SelectVar(st.score, c) :
         /\ Become(Flip(st, v)) /\ time_stamp' = [time_stamp EXCEPT ![v] = step]
  BY <1>1
<1>3. /\ v \in Vars /\ StateExact(Here) /\ step \in Nat /\ time_stamp \in [Vars -> Nat]
      /\ delta_total_weight \in Int /\ ave_weight \in Nat /\ hardunsat \subseteq Rows
  BY <1>2, ChoicesAreVars DEF FlipAfterWeights, Searching, Inv, TypeOK
<1>4. StateExact(st) /\ st.cur_soln = cur_soln
  BY <1>3, IncreaseWeightsExact, HereFields
<1>5. /\ IF total >= num_clauses
         THEN ave_weight' = ave_weight + 1 /\ delta_total_weight' = total - num_clauses
         ELSE UNCHANGED ave_weight /\ delta_total_weight' = total
  BY DEF FlipAfterWeights
<1>6. total \in Int /\ num_clauses \in Nat
  BY <1>3, RowsFinite, KNFAssumption
<1> HIDE DEF st, total
<1>7. StateExact(Flip(st, v)) /\ Flip(st, v).cur_soln = FlipVar(cur_soln, v)
  BY <1>3, <1>4, FlipRight
<1>8. time_stamp' \in [Vars -> Nat] /\ delta_total_weight' \in Int /\ ave_weight' \in Nat
  BY <1>2, <1>3, <1>5, <1>6
<1>9. Inv'
  BY <1>2, <1>7, <1>8, IterationRight DEF FlipAfterWeights
<1>10. cur_soln' = FlipVar(cur_soln, v)
  BY <1>2, <1>7 DEF Become
<1> QED
  BY <1>3, <1>9, <1>10

\* A probe names a literal of the row.
LEMMA ProbesArePositions ==
  ASSUME NEW c \in Rows, NEW start \in Starts(c), NEW stride \in Strides(c)
  PROVE  Probes(c, start, stride) \subseteq Positions(c)
<1> DEFINE n == Len(clause_lit[c])
<1>1. n \in Nat /\ n > 0 /\ start \in Int /\ stride \in Int
  BY KNFAssumption DEF Starts, Strides
<1> SUFFICES ASSUME NEW i \in 0..SampleCount(n) - 1 PROVE ProbeAt(n, start, stride, i) \in 1..n
  BY DEF Probes, Positions
<1> HIDE DEF n
<1>2. i \in Int /\ start + i * stride \in Int
  <2>1. i \in Int
    OBVIOUS
  <2>2. i * stride \in Int
    BY <1>1, <2>1
  <2> QED BY <1>1, <2>1, <2>2
<1>3. (start + i * stride) % n \in 0..n - 1
  BY <1>1, <1>2
<1> QED
  BY <1>1, <1>3 DEF ProbeAt

\* An exchange inside a satisfied cardinality row, or nothing.
LEMMA SwapRight ==
  ASSUME Inv, Swap
  PROVE  /\ Inv'
         /\ \/ UNCHANGED cur_soln
            \/ \E c \in Rows : \E a, b \in Vars :
                 /\ clause_true_lit_thres[c] > 1
                 /\ SatCount(cur_soln, c) >= clause_true_lit_thres[c]
                 /\ Occurs(c, a) /\ LitTrue(cur_soln, c, a)
                 /\ Occurs(c, b) /\ ~LitTrue(cur_soln, c, b)
                 /\ cur_soln' = FlipVar(FlipVar(cur_soln, a), b)
<1>1. PICK c \in cardinalitysat : \E start \in Starts(c) : \E stride \in Strides(c) :
         LET trueVars  == Probed(c, start, stride, TRUE)
             falseVars == Probed(c, start, stride, FALSE)
         IN  \/ /\ trueVars = {} \/ falseVars = {}
                /\ UNCHANGED <<cur_soln, time_stamp, rows, scores, unit_weight>>
             \/ \E a \in BestOf(score, trueVars), b \in BestOf(score, falseVars) :
                  /\ Become(FlipPairAtomic(Here, a, b))
                  /\ time_stamp' = [time_stamp EXCEPT ![a] = step, ![b] = step]
  BY DEF Swap
<1>2. PICK start \in Starts(c), stride \in Strides(c) :
         LET trueVars  == Probed(c, start, stride, TRUE)
             falseVars == Probed(c, start, stride, FALSE)
         IN  \/ /\ trueVars = {} \/ falseVars = {}
                /\ UNCHANGED <<cur_soln, time_stamp, rows, scores, unit_weight>>
             \/ \E a \in BestOf(score, trueVars), b \in BestOf(score, falseVars) :
                  /\ Become(FlipPairAtomic(Here, a, b))
                  /\ time_stamp' = [time_stamp EXCEPT ![a] = step, ![b] = step]
  BY <1>1
<1> DEFINE trueVars  == Probed(c, start, stride, TRUE)
           falseVars == Probed(c, start, stride, FALSE)
<1>3. /\ StateExact(Here) /\ step \in Nat /\ time_stamp \in [Vars -> Nat]
      /\ cardinalitysat \subseteq Rows /\ c \in Rows
      /\ delta_total_weight' \in Int /\ ave_weight' \in Nat
  BY <1>1 DEF Swap, Searching, Inv, TypeOK
<1>4. CASE UNCHANGED <<cur_soln, time_stamp, rows, scores, unit_weight>>
  <2>1. Become(Here)
    BY <1>4, HereFields DEF Become, rows, scores
  <2>2. time_stamp' \in [Vars -> Nat]
    BY <1>3, <1>4
  <2>3. Inv'
    BY <1>3, <2>1, <2>2, IterationRight DEF Swap
  <2> QED BY <1>4, <2>3
<1>5. ASSUME NEW a \in BestOf(score, trueVars), NEW b \in BestOf(score, falseVars),
             Become(FlipPairAtomic(Here, a, b)),
             time_stamp' = [time_stamp EXCEPT ![a] = step, ![b] = step]
      PROVE  /\ Inv'
             /\ \E x, y \in Vars :
                 /\ clause_true_lit_thres[c] > 1
                 /\ SatCount(cur_soln, c) >= clause_true_lit_thres[c]
                 /\ Occurs(c, x) /\ LitTrue(cur_soln, c, x)
                 /\ Occurs(c, y) /\ ~LitTrue(cur_soln, c, y)
                 /\ cur_soln' = FlipVar(FlipVar(cur_soln, x), y)
  <2>1. a \in trueVars /\ b \in falseVars
    BY ChoicesAreVars
  <2>2. /\ a \in Vars /\ b \in Vars
        /\ LitTrue(cur_soln, c, a) /\ ~LitTrue(cur_soln, c, b)
        /\ \E j \in Positions(c) : VarNum(c, j) = a
        /\ \E j \in Positions(c) : VarNum(c, j) = b
    BY <1>2, <1>3, <2>1, ProbesArePositions DEF Probed
  <2>3. Occurs(c, a) /\ Occurs(c, b) /\ a # b
    BY <1>3, <2>2 DEF Occurs, RowVars
  <2>4. /\ StateExact(FlipPairAtomic(Here, a, b))
        /\ FlipPairAtomic(Here, a, b).cur_soln = FlipVar(FlipVar(cur_soln, a), b)
    BY <1>3, <2>2, <2>3, FlipPairRight, HereFields
  <2>5. time_stamp' \in [Vars -> Nat]
    BY <1>3, <1>5
  <2>6. Inv'
    BY <1>3, <1>5, <2>4, <2>5, IterationRight DEF Swap
  <2>7. cur_soln' = FlipVar(FlipVar(cur_soln, a), b)
    BY <1>5, <2>4 DEF Become
  <2>8. clause_true_lit_thres[c] > 1 /\ SatCount(cur_soln, c) >= clause_true_lit_thres[c]
    <3>1. c \in Rows /\ IsCardinality(c) /\ c \notin Short(cur_soln)
      BY <1>1, <1>3, HereFields DEF StateExact, RowsExact
    <3>2. SatCount(cur_soln, c) \in Nat /\ clause_true_lit_thres[c] \in Nat
      BY <1>3, SatCountType, KNFAssumption
    <3> QED BY <3>1, <3>2 DEF IsCardinality, Short
  <2> QED BY <2>2, <2>3, <2>6, <2>7, <2>8
<1> HIDE DEF trueVars, falseVars
<1>6. \/ UNCHANGED <<cur_soln, time_stamp, rows, scores, unit_weight>>
      \/ \E a \in BestOf(score, trueVars), b \in BestOf(score, falseVars) :
           /\ Become(FlipPairAtomic(Here, a, b))
           /\ time_stamp' = [time_stamp EXCEPT ![a] = step, ![b] = step]
  BY <1>2 DEF trueVars, falseVars
<1> QED
  BY <1>3, <1>4, <1>5, <1>6

\* The steps that leave the search state alone.
LEMMA QuietRight ==
  ASSUME Inv,
         UNCHANGED <<step, best_hard_unsat_nb, non_improve_flips,
                     minimum_hard_unsat_nb, cur_soln, time_stamp, rows, scores, weights>>,
         pc # "try"
  PROVE  /\ Here' = Here /\ StateExact(Here)'
         /\ pc' \in {"try", "flip", "verify", "done"} /\ tries' \in 1..max_tries
              /\ result' \in {-1, 0, 10} => TypeOK'
         /\ pc' # "flip" => ProgressAccounting'
<1>1. Here' = Here
  BY DEF Here, rows, scores, weights
<1>2. StateExact(Here)
  BY DEF Inv
<1>3. StateExact(Here)' <=> StateExact(Here')
  BY DEF StateExact, SearchStates, RowsExact, ScoresExact, Short, Gains, RowGain, RowSum
<1>4. ASSUME pc' \in {"try", "flip", "verify", "done"}, tries' \in 1..max_tries,
             result' \in {-1, 0, 10}
      PROVE  TypeOK'
  BY <1>4 DEF Inv, TypeOK, rows, scores, weights
<1> QED
  BY <1>1, <1>2, <1>3, <1>4 DEF ProgressAccounting

LEMMA FoundRight == ASSUME Inv, Found PROVE Inv'
<1>1. /\ pc = "flip" /\ pc' = "verify" /\ tries' = tries /\ result' = result
      /\ hard_unsat_nb = 0 /\ cur_soln' = cur_soln
      /\ UNCHANGED <<step, best_hard_unsat_nb, non_improve_flips,
                     minimum_hard_unsat_nb, cur_soln, time_stamp, rows, scores, weights>>
  BY DEF Found
<1>2. StateExact(Here) /\ tries \in 1..max_tries /\ result = -1
  BY <1>1 DEF Inv, TypeOK
<1>3. IsModel(cur_soln)'
  BY <1>1, <1>2, CounterTellsModel DEF IsModel, SatCount, TruePositions
<1>4. TypeOK' /\ StateExact(Here)' /\ ProgressAccounting'
  BY <1>1, <1>2, QuietRight
<1> QED
  BY <1>1, <1>2, <1>3, <1>4 DEF Inv

LEMMA GiveUpRight == ASSUME Inv, GiveUp PROVE Inv'
<1>1. /\ pc = "flip" /\ tries' = tries + 1 /\ result' = result
      /\ pc' = IF tries' < max_tries THEN "try" ELSE "verify"
      /\ UNCHANGED <<step, best_hard_unsat_nb, non_improve_flips,
                     minimum_hard_unsat_nb, cur_soln, time_stamp, rows, scores, weights>>
  BY DEF GiveUp
<1>2. tries \in 1..max_tries /\ tries < max_tries /\ result = -1 /\ max_tries \in Nat
  BY <1>1, CardSATLSAssumption DEF Inv, TypeOK
<1>3. tries' \in 1..max_tries /\ pc' \in {"try", "verify"}
  BY <1>1, <1>2
<1>4. TypeOK' /\ StateExact(Here)' /\ ProgressAccounting'
  BY <1>1, <1>2, <1>3, QuietRight
<1> QED
  BY <1>1, <1>2, <1>3, <1>4 DEF Inv

LEMMA VerifyRight == ASSUME Inv, Verify PROVE Inv'
<1>1. /\ pc = "verify" /\ pc' = "done" /\ tries' = tries /\ cur_soln' = cur_soln
      /\ result' = IF IsModel(cur_soln) THEN 10 ELSE 0
      /\ UNCHANGED <<step, best_hard_unsat_nb, non_improve_flips,
                     minimum_hard_unsat_nb, cur_soln, time_stamp, rows, scores, weights>>
  BY DEF Verify
<1>2. tries \in 1..max_tries /\ (tries < max_tries => IsModel(cur_soln))
  BY <1>1 DEF Inv, TypeOK
<1>3. IsModel(cur_soln)' <=> IsModel(cur_soln)
  BY <1>1 DEF IsModel, SatCount, TruePositions
<1>4. TypeOK' /\ StateExact(Here)' /\ ProgressAccounting'
  BY <1>1, <1>2, QuietRight
<1> QED
  BY <1>1, <1>2, <1>3, <1>4 DEF Inv

LEMMA StutterRight == ASSUME Inv, UNCHANGED vars PROVE Inv'
<1>1. /\ UNCHANGED <<pc, tries, step, best_hard_unsat_nb, non_improve_flips,
                     minimum_hard_unsat_nb, result>>
      /\ UNCHANGED <<cur_soln, time_stamp, sat_count, hardunsat, hard_unsat_nb, cardinalitysat,
                     unit_weight, delta_total_weight, ave_weight, score, goodvar>>
  BY DEF vars, control, rows, scores, weights
<1>2. TypeOK' /\ ProgressAccounting'
  BY <1>1 DEF Inv, TypeOK, ProgressAccounting
<1>3. Here' = Here
  BY <1>1 DEF Here
<1>4. StateExact(Here)' <=> StateExact(Here')
  BY DEF StateExact, SearchStates, RowsExact, ScoresExact, Short, Gains, RowGain, RowSum
<1>5. IsModel(cur_soln)' <=> IsModel(cur_soln)
  BY <1>1 DEF IsModel, SatCount, TruePositions
<1> QED
  BY <1>1, <1>2, <1>3, <1>4, <1>5 DEF Inv

LEMMA StepInv == Inv /\ [Next]_vars => Inv'
<1> SUFFICES ASSUME Inv, [Next]_vars PROVE Inv'
  OBVIOUS
<1>1. CASE StartTry          BY <1>1, StartTryRight
<1>2. CASE FlipGood          BY <1>2, FlipGoodRight
<1>3. CASE FlipAfterWeights  BY <1>3, FlipAfterWeightsRight
<1>4. CASE Swap              BY <1>4, SwapRight
<1>5. CASE Found             BY <1>5, FoundRight
<1>6. CASE GiveUp            BY <1>6, GiveUpRight
<1>7. CASE Verify            BY <1>7, VerifyRight
<1>8. CASE Done              BY <1>8, StutterRight DEF Done
<1>9. CASE UNCHANGED vars    BY <1>9, StutterRight
<1> QED
  BY <1>1, <1>2, <1>3, <1>4, <1>5, <1>6, <1>7, <1>8, <1>9 DEF Next

THEOREM Invariance == Spec => []Inv
BY InitInv, StepInv, PTL DEF Spec

----------------------------------------------------------------------------
(* What follows.                                                            *)

\* Every variable of the search keeps its type.
THEOREM TypeCorrect == Spec => []TypeOK
<1>1. Inv => TypeOK
  BY DEF Inv
<1> QED
  BY <1>1, Invariance, PTL

\* sat_count is the number of true literals of every row, and the two row
\* stacks and the counter agree with it, however many flips, pair flips and
\* restarts ago they were last computed afresh.
THEOREM BooksExact == Spec => [](CountsExact /\ StacksExact)
<1>1. ASSUME Inv, pc # "try"
      PROVE  /\ \A c \in Rows : sat_count[c] = SatCount(cur_soln, c)
             /\ hardunsat = {c \in Rows : SatCount(cur_soln, c) < clause_true_lit_thres[c]}
             /\ hard_unsat_nb = Cardinality(hardunsat)
             /\ cardinalitysat = {c \in Rows : IsCardinality(c)} \ hardunsat
  <2>1. RowsExact(Here)
    BY <1>1 DEF Inv, StateExact
  <2> QED BY <2>1, HereFields DEF RowsExact, Short
<1>2. Inv => CountsExact /\ StacksExact
  BY <1>1 DEF CountsExact, StacksExact
<1> QED
  BY <1>2, Invariance, PTL

\* Every score is the drop of the weighted violation its flip would bring,
\* after any sequence of incremental updates.
THEOREM ScoresRight == Spec => []ScoreExact
<1>1. ASSUME Inv, pc # "try", NEW v \in Vars
      PROVE  score[v] = Cost(cur_soln, unit_weight) - Cost(FlipVar(cur_soln, v), unit_weight)
  <2>1. /\ ScoresExact(Here) /\ cur_soln \in Assignments /\ unit_weight \in [Rows -> Nat]
    BY <1>1 DEF Inv, StateExact, TypeOK
  <2>2. unit_weight \in [Rows -> Int]
    BY <2>1
  <2>3. score[v] = RowSum(Gains(cur_soln, unit_weight, v))
    BY <2>1, HereFields DEF ScoresExact
  <2> QED BY <2>1, <2>2, <2>3, GainIsCostDrop
<1>2. Inv => ScoreExact
  BY <1>1 DEF ScoreExact
<1> QED
  BY <1>2, Invariance, PTL

\* In every state the search can be in, the one-pass pair flip is the two
\* flips, for every pair of variables.
THEOREM PairFlipRight == Spec => []PairIsTwoFlips
<1>1. Inv => PairIsTwoFlips
  BY PairFlipIsSequential DEF Inv, PairIsTwoFlips
<1> QED
  BY <1>1, Invariance, PTL

\* A search that stops with tries left stands on a model, and its answer is
\* not turned into 0 by the check that follows.
THEOREM EarlyReturnRight == Spec => []EarlyReturnIsModel
<1>1. Inv => EarlyReturnIsModel
  BY DEF Inv, EarlyReturnIsModel
<1> QED
  BY <1>1, Invariance, PTL

\* The bests of the try and of the run are ordered, and patience is never
\* exceeded.
THEOREM ProgressRight == Spec => []ProgressAccounting
<1>1. Inv => ProgressAccounting
  BY DEF Inv
<1> QED
  BY <1>1, Invariance, PTL

\* Within a try the search never flips away from a model, and gives a try up
\* on one only when its flips have run out.
THEOREM ModelsKept == Spec => ModelDroppedOnlyAtLimit
<1>1. ASSUME Inv, [Next]_vars, (pc = "flip" /\ cur_soln' # cur_soln) \/ tries' # tries,
             IsModel(cur_soln)
      PROVE  step >= max_flips
  <2>1. ~(pc = "flip" /\ hard_unsat_nb # 0)
    BY <1>1, CounterTellsModel DEF Inv
  <2>2. CASE StartTry BY <1>1, <2>2 DEF StartTry
  <2>3. CASE FlipGood BY <2>1, <2>3 DEF FlipGood, Searching
  <2>4. CASE FlipAfterWeights BY <2>1, <2>4 DEF FlipAfterWeights, Searching
  <2>5. CASE Swap BY <2>1, <2>5 DEF Swap, Searching
  <2>6. CASE Found BY <1>1, <2>6 DEF Found
  <2>7. CASE GiveUp BY <2>1, <2>7 DEF GiveUp
  <2>8. CASE Verify BY <1>1, <2>8 DEF Verify
  <2>9. CASE UNCHANGED vars BY <1>1, <2>9 DEF vars, control
  <2> QED
    BY <1>1, <2>2, <2>3, <2>4, <2>5, <2>6, <2>7, <2>8, <2>9 DEF Next, Done
<1>2. Inv /\ [Next]_vars =>
        [(pc = "flip" /\ cur_soln' # cur_soln) \/ tries' # tries
           => (IsModel(cur_soln) => step >= max_flips)]_vars
  BY <1>1
<1> QED
  BY <1>2, Invariance, PTL DEF Spec, ModelDroppedOnlyAtLimit

\* A multiple of n strictly between -n and n is zero.
LEMMA SmallMultiple ==
  ASSUME NEW n \in Nat, NEW d \in Int, NEW m \in Int, d = n * m, d < n, -n < d
  PROVE  d = 0
<1>1. CASE m = 0
  BY <1>1
<1>2. CASE m >= 1
  <2>1. m - 1 >= 0 /\ m - 1 \in Int /\ n * m = n * (m - 1) + n
    BY <1>2
  <2>2. n * (m - 1) >= 0
    BY <2>1
  <2> QED BY <2>1, <2>2
<1>3. CASE m <= -1
  <2>1. -1 - m >= 0 /\ -1 - m \in Int /\ n * m = -(n * (-1 - m)) - n
    BY <1>3
  <2>2. n * (-1 - m) >= 0
    BY <2>1
  <2> QED BY <2>1, <2>2
<1> QED BY <1>1, <1>2, <1>3

\* Different samples of a swap look at different positions.
LEMMA ProbesDiffer ==
  ASSUME NEW n \in Nat \ {0}, NEW start \in 0..n - 1,
         NEW stride \in {1, n - 1}, NEW i \in 0..n - 1, NEW j \in 0..n - 1,
         ProbeAt(n, start, stride, i) = ProbeAt(n, start, stride, j)
  PROVE  i = j
<1> DEFINE x == start + i * stride
           y == start + j * stride
<1>1. x \in Int /\ y \in Int /\ x % n \in Int /\ y % n \in Int /\ x \div n \in Int /\ y \div n \in Int
  OBVIOUS
<1>2. x % n = y % n
  BY <1>1 DEF ProbeAt
<1>3. x = n * (x \div n) + (x % n) /\ y = n * (y \div n) + (y % n)
  BY <1>1
<1>4. PICK P \in Int, Q \in Int, R \in Int :
         start + i * stride = n * P + R /\ start + j * stride = n * Q + R
  BY <1>1, <1>2, <1>3
<1>5. (i - j) * stride = n * (P - Q)
  <2>1. (i - j) * stride = i * stride - j * stride /\ n * (P - Q) = n * P - n * Q
    BY <1>4
  <2>2. i * stride \in Int /\ j * stride \in Int /\ n * P \in Int /\ n * Q \in Int
    BY <1>4
  <2> QED BY <1>4, <2>1, <2>2
<1>6. \E m \in Int : i - j = n * m
  <2>1. CASE stride = 1
    BY <1>5, <2>1
  <2>2. CASE stride = n - 1
    <3>1. (i - j) * (n - 1) = (i - j) * n - (i - j)
      OBVIOUS
    <3>2. n * ((i - j) - (P - Q)) = n * (i - j) - n * (P - Q)
      BY <1>4
    <3>3. i - j = n * ((i - j) - (P - Q))
      BY <1>5, <2>2, <3>1, <3>2
    <3> QED BY <3>3
  <2> QED BY <2>1, <2>2
<1>7. i - j < n /\ -n < i - j /\ i - j \in Int
  OBVIOUS
<1> QED BY <1>6, <1>7, SmallMultiple

\* No position of the row is probed twice, in either direction.
THEOREM ProbesRight == Spec => []ProbesWithoutReplacement
<1>1. ASSUME NEW c \in Rows, NEW start \in Starts(c), NEW stride \in Strides(c)
      PROVE  Cardinality(Probes(c, start, stride)) = SampleCount(Len(clause_lit[c]))
  <2> DEFINE n == Len(clause_lit[c])
             s == SampleCount(n)
             at == [i \in 0..s - 1 |-> ProbeAt(n, start, stride, i)]
  <2>1. /\ n \in Nat \ {0} /\ start \in 0..n - 1 /\ stride \in {1, n - 1}
    BY KNFAssumption DEF Starts, Strides
  <2>2. s \in Nat /\ s <= n
    <3>1. \A k \in Nat : k \div 2 \in Nat /\ k \div 2 <= k
      OBVIOUS
    <3> HIDE DEF n
    <3>2. n - 1 \in Nat
      BY <2>1
    <3>3. (n - 1) \div 2 \in Nat /\ (n - 1) \div 2 <= n - 1
      BY <3>1, <3>2
    <3> QED BY <2>1, <3>3, CardSATLSAssumption DEF SampleCount, Smaller
  <2>3. Probes(c, start, stride) = {at[i] : i \in 0..s - 1}
    BY DEF Probes
  <2> HIDE DEF n, s
  <2>4. \A i, j \in 0..s - 1 : at[i] = at[j] => i = j
    BY <2>1, <2>2, ProbesDiffer
  <2>5. at \in Bijection(0..s - 1, Probes(c, start, stride))
    BY <2>3, <2>4 DEF Bijection, Injection, Surjection, IsInjective
  <2>6. IsFiniteSet(0..s - 1) /\ Cardinality(0..s - 1) = s
    BY <2>2, FS_Interval
  <2>7. Cardinality(Probes(c, start, stride)) = s
    BY <2>5, <2>6, FS_Bijection DEF ExistsBijection
  <2> QED BY <2>7 DEF s, n
<1>2. Inv => cardinalitysat \subseteq Rows
  BY DEF Inv, TypeOK
<1>3. Inv => ProbesWithoutReplacement
  BY <1>1, <1>2 DEF ProbesWithoutReplacement
<1> QED
  BY <1>3, Invariance, PTL

\* Whichever way the search flips.
LEMMA FlipReopens ==
  ASSUME NEW st, StateExact(st), NEW u \in Vars, NEW v \in Vars, v # u,
         Flip(st, u).score[v] > 0, v \in st.goodvar \/ Flip(st, u).score[v] > st.score[v]
  PROVE  v \in Flip(st, u).goodvar
BY FlipWithNeighborReopens, FlipNoNeighborReopens DEF Flip

\* The pair flip as the two flips, whichever way the search flips.
LEMMA PairAsFlips ==
  ASSUME NEW st, StateExact(st), NEW a \in Vars, NEW b \in Vars, a # b
  PROVE  FlipPairAtomic(st, a, b) = Flip(Flip(st, a), b)
BY PairFlipIsSequential DEF FlipPairAtomic, SequentialPair, Flip

\* A variable that was not flipped and whose score rose above zero is open to
\* the next greedy choice.
THEOREM RisesReopen == Spec => RisingScoreReopens
<1> DEFINE Reopened ==
      pc = "flip" => \A v \in Vars :
        cur_soln'[v] = cur_soln[v] /\ score'[v] > score[v] /\ score'[v] > 0 => v \in goodvar'
<1>1. ASSUME Inv, [Next]_vars, pc = "flip", NEW v \in Vars,
             cur_soln'[v] = cur_soln[v], score'[v] > score[v], score'[v] > 0
      PROVE  v \in goodvar'
  <2>1. /\ StateExact(Here) /\ step \in Nat /\ cur_soln \in Assignments
        /\ score \in [Vars -> Int] /\ hardunsat \subseteq Rows /\ cardinalitysat \subseteq Rows
    BY <1>1 DEF Inv, TypeOK
  <2>2. \A u \in Vars : FlipVar(cur_soln, u)[u] # cur_soln[u]
    BY <2>1 DEF FlipVar, Assignments
  <2>3. ASSUME score' = score PROVE FALSE
    BY <1>1, <2>1, <2>3
  <2>4. CASE FlipGood
    <3>1. PICK u \in PickGoodvar : Become(Flip(Here, u))
      BY <2>4 DEF FlipGood
    <3>2. u \in Vars
      BY ChoicesAreVars
    <3>3. cur_soln' = FlipVar(cur_soln, u) /\ score' = Flip(Here, u).score
          /\ goodvar' = Flip(Here, u).goodvar
      BY <2>1, <3>1, <3>2, FlipRight, HereFields DEF Become
    <3>4. v # u
      BY <1>1, <2>2, <3>2, <3>3
    <3> QED BY <1>1, <2>1, <3>2, <3>3, <3>4, FlipReopens, HereFields
  <2>5. CASE FlipAfterWeights
    <3> DEFINE st == IncreaseWeights(Here)
    <3>1. PICK c \in hardunsat : \E u \in SelectVar(st.score, c) : Become(Flip(st, u))
      BY <2>5 DEF FlipAfterWeights
    <3>2. PICK u \in SelectVar(st.score, c) : Become(Flip(st, u))
      BY <3>1
    <3>3. u \in Vars
      BY ChoicesAreVars
    <3>4. StateExact(st) /\ st.cur_soln = cur_soln
      BY <2>1, IncreaseWeightsExact, HereFields
    <3>5. st.score[v] > score[v] /\ st.score[v] > 0 => v \in st.goodvar
      BY <2>1, IncreaseWeightsReopens, HereFields
    <3> HIDE DEF st
    <3>6. cur_soln' = FlipVar(cur_soln, u) /\ score' = Flip(st, u).score
          /\ goodvar' = Flip(st, u).goodvar
      BY <3>2, <3>3, <3>4, FlipRight DEF Become
    <3>7. v # u
      BY <1>1, <2>2, <3>3, <3>6
    <3>8. score[v] \in Int /\ st.score[v] \in Int /\ score'[v] \in Int
      <4>1. StateExact(Flip(st, u))
        BY <3>3, <3>4, FlipRight
      <4> QED BY <2>1, <3>4, <3>6, <4>1 DEF StateExact, SearchStates
    <3>9. v \in st.goodvar \/ score'[v] > st.score[v] => v \in goodvar'
      BY <1>1, <3>3, <3>4, <3>6, <3>7, FlipReopens
    <3>10. CASE score'[v] > st.score[v]
      BY <3>9, <3>10
    <3>11. CASE score'[v] <= st.score[v]
      <4>1. st.score[v] > score[v] /\ st.score[v] > 0
        BY <1>1, <3>8, <3>11
      <4> QED BY <3>5, <3>9, <4>1
    <3> QED BY <3>8, <3>10, <3>11
  <2>6. CASE Swap
    <3>1. PICK a \in Vars, b \in Vars :
            \/ score' = score
            \/ a # b /\ Become(FlipPairAtomic(Here, a, b))
      <4>0. PICK c \in cardinalitysat : \E start \in Starts(c) : \E stride \in Strides(c) :
               \/ UNCHANGED <<cur_soln, time_stamp, rows, scores, unit_weight>>
               \/ \E a \in BestOf(score, Probed(c, start, stride, TRUE)),
                     b \in BestOf(score, Probed(c, start, stride, FALSE)) :
                    Become(FlipPairAtomic(Here, a, b))
        BY <2>6 DEF Swap
      <4>1. PICK start \in Starts(c), stride \in Strides(c) :
               \/ UNCHANGED <<cur_soln, time_stamp, rows, scores, unit_weight>>
               \/ \E a \in BestOf(score, Probed(c, start, stride, TRUE)),
                     b \in BestOf(score, Probed(c, start, stride, FALSE)) :
                    Become(FlipPairAtomic(Here, a, b))
        BY <4>0
      <4>2. ASSUME NEW a \in BestOf(score, Probed(c, start, stride, TRUE)),
                   NEW b \in BestOf(score, Probed(c, start, stride, FALSE))
            PROVE  a \in Vars /\ b \in Vars /\ a # b
        <5>1. a \in Probed(c, start, stride, TRUE) /\ b \in Probed(c, start, stride, FALSE)
          BY ChoicesAreVars
        <5> QED BY <5>1 DEF Probed
      <4>3. UNCHANGED <<cur_soln, time_stamp, rows, scores, unit_weight>> => score' = score
        BY DEF scores
      <4> QED BY <4>1, <4>2, <4>3
    <3>2. a # b /\ Become(FlipPairAtomic(Here, a, b))
      BY <2>3, <3>1
    <3> DEFINE st == Flip(Here, a)
    <3>3. FlipPairAtomic(Here, a, b) = Flip(st, b)
      BY <2>1, <3>2, PairAsFlips
    <3>4. StateExact(st) /\ st.cur_soln = FlipVar(cur_soln, a)
      BY <2>1, FlipRight, HereFields
    <3>5. v # a /\ st.score[v] > score[v] /\ st.score[v] > 0 => v \in st.goodvar
      BY <2>1, FlipReopens, HereFields
    <3> HIDE DEF st
    <3>6. cur_soln' = FlipVar(FlipVar(cur_soln, a), b) /\ score' = Flip(st, b).score
          /\ goodvar' = Flip(st, b).goodvar
      BY <3>2, <3>3, <3>4, FlipRight DEF Become
    <3>7. v # a /\ v # b
      BY <1>1, <2>1, <3>2, <3>6 DEF FlipVar, Assignments
    <3>8. score[v] \in Int /\ st.score[v] \in Int /\ score'[v] \in Int
      <4>1. StateExact(Flip(st, b))
        BY <3>4, FlipRight
      <4> QED BY <2>1, <3>4, <3>6, <4>1 DEF StateExact, SearchStates
    <3>9. v \in st.goodvar \/ score'[v] > st.score[v] => v \in goodvar'
      BY <1>1, <3>4, <3>6, <3>7, FlipReopens
    <3>10. CASE score'[v] > st.score[v]
      BY <3>9, <3>10
    <3>11. CASE score'[v] <= st.score[v]
      <4>1. st.score[v] > score[v] /\ st.score[v] > 0
        BY <1>1, <3>8, <3>11
      <4> QED BY <3>5, <3>7, <3>9, <4>1
    <3> QED BY <3>8, <3>10, <3>11
  <2>7. CASE StartTry \/ Found \/ GiveUp \/ Verify \/ UNCHANGED vars
    <3>1. StartTry => FALSE
      BY <1>1 DEF StartTry
    <3>2. Found \/ GiveUp \/ Verify \/ UNCHANGED vars => score' = score
      BY DEF Found, GiveUp, Verify, vars, scores
    <3> QED BY <2>3, <2>7, <3>1, <3>2
  <2> QED
    BY <1>1, <2>4, <2>5, <2>6, <2>7 DEF Next, Done
<1>2. Inv /\ [Next]_vars => [Reopened]_vars
  BY <1>1
<1> QED
  BY <1>2, Invariance, PTL DEF Spec, RisingScoreReopens

\* How many raises the average accounts for.
Accounted == (ave_weight - 1) * num_clauses + delta_total_weight

\* WeightAccounting, and what a first try starts from.
WeightInv ==
  /\ ave_weight >= 1 /\ 0 <= delta_total_weight /\ delta_total_weight < num_clauses
  /\ Raised(unit_weight) <= Accounted
  /\ tries = 1 => Raised(unit_weight) = Accounted
  /\ tries = 1 /\ pc = "try" => Accounted = 0

\* A step of the try that raises no weight.
LEMMA NoRaiseKeepsWeights ==
  ASSUME Inv, WeightInv, unit_weight' = unit_weight,
         UNCHANGED <<delta_total_weight, ave_weight>>,
         pc' # "try" \/ tries' # 1, tries' = tries \/ tries' = tries + 1
  PROVE  WeightInv'
<1>1. tries \in 1..max_tries
  BY DEF Inv, TypeOK
<1>2. tries' = 1 => tries = 1
  BY <1>1, CardSATLSAssumption
<1>3. Accounted' = Accounted
  BY DEF Accounted
<1>4. Raised(unit_weight)' = Raised(unit_weight)
  BY DEF Raised, RowSum
<1> QED BY <1>2, <1>3, <1>4 DEF WeightInv

\* Only an iteration at a local minimum raises weights, and it books what it raised.
LEMMA WeightStep ==
  ASSUME Inv, Inv', WeightInv, [Next]_vars, num_clauses # 0
  PROVE  WeightInv'
<1>1. /\ ave_weight \in Nat /\ delta_total_weight \in Int /\ num_clauses \in Nat
      /\ unit_weight \in [Rows -> Nat] /\ unit_weight' \in [Rows -> Nat]
      /\ hardunsat \in SUBSET Rows /\ tries \in Int /\ cur_soln \in Assignments
      /\ cardinalitysat \subseteq Rows
  BY KNFAssumption DEF Inv, TypeOK
<1>2. Raised(unit_weight) \in Int /\ Accounted \in Int
  BY <1>1, RaisedType DEF Accounted
<1>3. CASE StartTry
  <2>1. PICK sol \in StartAssignments : Become(InitLocalSearch(sol))
    BY <1>3 DEF StartTry
  <2>2. unit_weight' = [c \in Rows |-> 1]
    BY <2>1 DEF Become, InitLocalSearch
  <2>3. Raised(unit_weight') = 0
    BY <2>2, NothingRaised
  <2>4. /\ pc = "try" /\ pc' = "flip" /\ tries' = tries
        /\ UNCHANGED <<delta_total_weight, ave_weight>>
    BY <1>3 DEF StartTry
  <2>5. Accounted' = Accounted
    BY <2>4 DEF Accounted
  <2>6. Accounted >= 0
    <3>1. ave_weight - 1 \in Nat /\ (ave_weight - 1) * num_clauses \in Nat
      BY <1>1 DEF WeightInv
    <3> QED BY <1>1, <3>1 DEF WeightInv, Accounted
  <2>7. Raised(unit_weight)' = Raised(unit_weight')
    BY DEF Raised, RowSum
  <2> QED BY <1>2, <2>3, <2>4, <2>5, <2>6, <2>7 DEF WeightInv
<1>4. CASE FlipGood
  <2>1. PICK v \in PickGoodvar : Become(Flip(Here, v))
    BY <1>4 DEF FlipGood
  <2>2. v \in Vars /\ StateExact(Here) /\ pc = "flip"
    BY <1>4, ChoicesAreVars DEF FlipGood, Searching, Inv
  <2>3. unit_weight' = unit_weight
    BY <2>1, <2>2, FlipRight, HereFields DEF Become
  <2> QED BY <1>4, <2>2, <2>3, NoRaiseKeepsWeights DEF FlipGood, Account
<1>5. CASE Swap
  <2>1. pc = "flip" /\ StateExact(Here)
    BY <1>5 DEF Swap, Searching, Inv
  <2>2. unit_weight' = unit_weight
    <3>1. PICK c \in cardinalitysat : \E start \in Starts(c) : \E stride \in Strides(c) :
             \/ UNCHANGED <<cur_soln, time_stamp, rows, scores, unit_weight>>
             \/ \E a \in BestOf(score, Probed(c, start, stride, TRUE)),
                   b \in BestOf(score, Probed(c, start, stride, FALSE)) :
                  Become(FlipPairAtomic(Here, a, b))
      BY <1>5 DEF Swap
    <3>2. PICK start \in Starts(c), stride \in Strides(c) :
             \/ UNCHANGED <<cur_soln, time_stamp, rows, scores, unit_weight>>
             \/ \E a \in BestOf(score, Probed(c, start, stride, TRUE)),
                   b \in BestOf(score, Probed(c, start, stride, FALSE)) :
                  Become(FlipPairAtomic(Here, a, b))
      BY <3>1
    <3>3. ASSUME NEW a \in BestOf(score, Probed(c, start, stride, TRUE)),
                 NEW b \in BestOf(score, Probed(c, start, stride, FALSE)),
                 Become(FlipPairAtomic(Here, a, b))
          PROVE  unit_weight' = unit_weight
      <4>1. a \in Probed(c, start, stride, TRUE) /\ b \in Probed(c, start, stride, FALSE)
        BY ChoicesAreVars
      <4>2. a \in Vars /\ b \in Vars /\ a # b
        BY <4>1 DEF Probed
      <4>3. Become(Flip(Flip(Here, a), b))
        BY <2>1, <3>3, <4>2, PairAsFlips
      <4>4. StateExact(Flip(Here, a)) /\ Flip(Here, a).unit_weight = unit_weight
        BY <2>1, <4>2, FlipRight, HereFields
      <4>5. Flip(Flip(Here, a), b).unit_weight = unit_weight
        BY <4>2, <4>4, FlipRight
      <4> QED BY <4>3, <4>5 DEF Become
    <3> QED BY <3>2, <3>3
  <2> QED BY <1>5, <2>1, <2>2, NoRaiseKeepsWeights DEF Swap, Account
<1>6. CASE FlipAfterWeights
  <2> DEFINE st == IncreaseWeights(Here)
             more == Cardinality(hardunsat)
             total == delta_total_weight + more
  <2>1. PICK c \in hardunsat : \E v \in SelectVar(st.score, c) : Become(Flip(st, v))
    BY <1>6 DEF FlipAfterWeights
  <2>2. PICK v \in SelectVar(st.score, c) : Become(Flip(st, v))
    BY <2>1
  <2>3. v \in Vars /\ StateExact(Here) /\ pc = "flip" /\ pc' = "flip" /\ tries' = tries
    BY <1>6, ChoicesAreVars DEF FlipAfterWeights, Searching, Account, Inv
  <2>4. StateExact(st)
    BY <2>3, IncreaseWeightsExact
  <2>5. unit_weight' = st.unit_weight
    <3> HIDE DEF st
    <3> QED BY <2>2, <2>3, <2>4, FlipRight DEF Become
  <2>6. Raised(unit_weight') = Raised(unit_weight) + more
    BY <2>3, <2>5, RaiseCounted, HereFields
  <2>7. more \in Nat /\ more <= num_clauses
    <3>1. IsFiniteSet(Rows) /\ Cardinality(Rows) = num_clauses
      <4>1. IsFiniteSet(1..num_clauses)
            /\ Cardinality(1..num_clauses) = IF 1 > num_clauses THEN 0 ELSE num_clauses - 1 + 1
        BY <1>1, 1 \in Int, num_clauses \in Int, FS_Interval
      <4> QED BY <1>1, <4>1 DEF Rows
    <3>2. Cardinality(hardunsat) <= Cardinality(Rows)
      BY <1>1, <3>1, FS_Subset
    <3> QED BY <1>1, <3>1, <3>2, RowsFinite
  <2>8. IF total >= num_clauses
        THEN ave_weight' = ave_weight + 1 /\ delta_total_weight' = total - num_clauses
        ELSE UNCHANGED ave_weight /\ delta_total_weight' = total
    BY <1>6 DEF FlipAfterWeights
  <2> HIDE DEF st, more
  <2>9. Accounted' = Accounted + more
    <3>1. ave_weight * num_clauses = (ave_weight - 1) * num_clauses + num_clauses
      BY <1>1
    <3>2. (ave_weight + 1) - 1 = ave_weight
      BY <1>1
    <3>3. (ave_weight - 1) * num_clauses \in Int /\ ave_weight * num_clauses \in Int
      BY <1>1
    <3>4. CASE total >= num_clauses
      <4>1. ave_weight' - 1 = ave_weight /\ delta_total_weight' = total - num_clauses
        BY <2>8, <3>2, <3>4
      <4>2. Accounted' = ave_weight * num_clauses + (total - num_clauses)
        BY <4>1 DEF Accounted
      <4> QED BY <1>1, <2>7, <3>1, <3>3, <4>2 DEF Accounted
    <3>5. CASE ~(total >= num_clauses)
      <4>1. Accounted' = (ave_weight - 1) * num_clauses + total
        BY <2>8, <3>5 DEF Accounted
      <4> QED BY <1>1, <2>7, <3>3, <4>1 DEF Accounted
    <3> QED BY <3>4, <3>5
  <2>10. ave_weight' >= 1 /\ 0 <= delta_total_weight' /\ delta_total_weight' < num_clauses
    BY <1>1, <2>7, <2>8 DEF WeightInv
  <2>11. Raised(unit_weight)' = Raised(unit_weight')
    BY DEF Raised, RowSum
  <2> QED BY <1>2, <2>3, <2>6, <2>7, <2>9, <2>10, <2>11 DEF WeightInv
<1>7. CASE Found \/ GiveUp \/ Verify \/ UNCHANGED vars
  <2>1. UNCHANGED <<unit_weight, delta_total_weight, ave_weight>>
    BY <1>7 DEF Found, GiveUp, Verify, vars, weights
  <2>2. CASE UNCHANGED vars
    <3>1. UNCHANGED <<tries, pc>>
      BY <2>2 DEF vars, control
    <3>2. Accounted' = Accounted /\ Raised(unit_weight)' = Raised(unit_weight)
      BY <2>1 DEF Accounted, Raised, RowSum
    <3> QED BY <2>1, <3>1, <3>2 DEF WeightInv
  <2>3. CASE Found \/ Verify
    BY <2>1, <2>3, NoRaiseKeepsWeights DEF Found, Verify
  <2>4. CASE GiveUp
    <3>1. tries' = tries + 1 /\ tries \in 1..max_tries
      BY <2>4 DEF GiveUp, Inv, TypeOK
    <3>2. tries' # 1
      BY <3>1, CardSATLSAssumption
    <3> QED BY <2>1, <3>1, <3>2, NoRaiseKeepsWeights
  <2> QED BY <1>7, <2>2, <2>3, <2>4
<1> QED
  BY <1>3, <1>4, <1>5, <1>6, <1>7 DEF Next, Done

\* The average and its remainder account for every raise of the first try, and
\* for no fewer than those of any later one.  (Without rows there is nothing
\* to weigh, and the remainder has no room.)
THEOREM WeightsAccounted ==
  ASSUME num_clauses # 0 PROVE Spec => []WeightAccounting
<1>1. Init => WeightInv
  <2> SUFFICES ASSUME Init PROVE WeightInv
    OBVIOUS
  <2>1. Raised(unit_weight) = 0
    BY NothingRaised DEF Init
  <2>2. num_clauses \in Nat /\ ave_weight = 1 /\ delta_total_weight = 0
    BY KNFAssumption DEF Init
  <2>3. Accounted = 0
    BY <2>2 DEF Accounted
  <2> QED BY <2>1, <2>2, <2>3 DEF WeightInv
<1>2. Inv /\ Inv' /\ WeightInv /\ [Next]_vars => WeightInv'
  BY WeightStep
<1>3. WeightInv => WeightAccounting
  BY DEF WeightInv, WeightAccounting, Accounted, Raised
<1> QED
  BY <1>1, <1>2, <1>3, Invariance, PTL DEF Spec

\* Every time stamp of a try is of an earlier step of it.
StampInv ==
  /\ pc = "flip" => step > 0 /\ \A v \in Vars : time_stamp[v] < step
  /\ GoodvarMeaning

\* The variables flipped in this step, S, and only they, are stamped with it;
\* what is off the stack with a positive score and not in S was so before and
\* has no neighbour in S.
LEMMA StampStep ==
  ASSUME Inv, Inv', StampInv, pc = "flip", pc' = "flip", step' = step + 1,
         NEW S \in SUBSET Vars,
         time_stamp' = [v \in Vars |-> IF v \in S THEN step ELSE time_stamp[v]],
         materialized_neighbor_mode =>
           \A v \in Vars \ S : score'[v] > 0 /\ v \notin goodvar' =>
             v \notin goodvar /\ score[v] > 0 /\ S \cap var_neighbor[v] = {}
  PROVE  StampInv'
<1>1. step \in Nat /\ time_stamp \in [Vars -> Nat] /\ step > 0 /\ \A v \in Vars : time_stamp[v] < step
  BY DEF Inv, TypeOK, StampInv
<1>2. \A v \in Vars : time_stamp'[v] < step' /\ time_stamp'[v] <= step
  BY <1>1
<1>3. \A v \in goodvar' : score'[v] > 0
  BY DEF Inv, StateExact, Here
<1>4. ASSUME materialized_neighbor_mode, NEW v \in Vars \ goodvar', score'[v] > 0
      PROVE  time_stamp'[v] > 0 /\ \A n \in var_neighbor[v] : time_stamp'[n] <= time_stamp'[v]
  <2>1. var_neighbor[v] \subseteq Vars
    BY DEF var_neighbor
  <2>2. CASE v \in S
    <3>1. time_stamp'[v] = step
      BY <2>2
    <3> QED BY <1>1, <1>2, <2>1, <3>1
  <2>3. CASE v \notin S
    <3>1. v \notin goodvar /\ score[v] > 0 /\ S \cap var_neighbor[v] = {}
      BY <1>4, <2>3
    <3>2. time_stamp[v] > 0 /\ \A n \in var_neighbor[v] : time_stamp[n] <= time_stamp[v]
      BY <1>4, <3>1 DEF StampInv, GoodvarMeaning
    <3>3. time_stamp'[v] = time_stamp[v]
          /\ \A n \in var_neighbor[v] : time_stamp'[n] = time_stamp[n]
      BY <2>1, <2>3, <3>1
    <3> QED BY <3>2, <3>3
  <2> QED BY <2>2, <2>3
<1>5. GoodvarMeaning' <=>
        (pc' # "try" =>
          /\ \A v \in goodvar' : score'[v] > 0
          /\ materialized_neighbor_mode =>
               \A v \in Vars \ goodvar' :
                 score'[v] > 0 => /\ time_stamp'[v] > 0
                                  /\ \A n \in var_neighbor[v] : time_stamp'[n] <= time_stamp'[v])
  BY DEF GoodvarMeaning
<1>6. GoodvarMeaning'
  BY <1>3, <1>4, <1>5
<1> QED
  BY <1>1, <1>2, <1>6 DEF StampInv

\* Every step keeps the stamps and the good variables in agreement.
LEMMA StampsStep ==
  ASSUME Inv, Inv', StampInv, [Next]_vars
  PROVE  StampInv'
<1>1. /\ step \in Nat /\ time_stamp \in [Vars -> Nat] /\ hardunsat \in SUBSET Rows
      /\ (pc # "try" => StateExact(Here)) /\ cardinalitysat \subseteq Rows
  BY DEF Inv, TypeOK
<1>2. CASE StartTry
  <2>1. PICK sol \in StartAssignments : Become(InitLocalSearch(sol))
    BY <1>2 DEF StartTry
  <2>2. sol \in Assignments
    BY <2>1, StartsAreAssignments DEF Inv, TypeOK
  <2>3. goodvar' = {v \in Vars : score'[v] > 0}
    BY <2>1, <2>2, InitLocalSearchExact DEF Become
  <2>4. step' = 1 /\ time_stamp' = [v \in Vars |-> 0]
    BY <1>2 DEF StartTry
  <2>5. GoodvarMeaning'
    BY <2>3 DEF GoodvarMeaning
  <2> QED BY <2>4, <2>5 DEF StampInv
<1>3. CASE FlipGood
  <2>1. PICK u \in PickGoodvar : /\ Become(Flip(Here, u))
                                 /\ time_stamp' = [time_stamp EXCEPT ![u] = step]
    BY <1>3 DEF FlipGood
  <2>2. /\ u \in Vars /\ pc = "flip" /\ pc' = "flip" /\ step' = step + 1 /\ StateExact(Here)
    BY <1>1, <1>3, ChoicesAreVars DEF FlipGood, Searching, Account
  <2>3. time_stamp' = [v \in Vars |-> IF v \in {u} THEN step ELSE time_stamp[v]]
    BY <1>1, <2>1, <2>2
  <2>4. ASSUME materialized_neighbor_mode, NEW v \in Vars \ {u}, score'[v] > 0, v \notin goodvar'
        PROVE  v \notin goodvar /\ score[v] > 0 /\ {u} \cap var_neighbor[v] = {}
    <3>1. score' = FlipWithNeighbor(Here, u).score /\ goodvar' = FlipWithNeighbor(Here, u).goodvar
      BY <2>1, <2>4 DEF Become, Flip
    <3>2. v \notin goodvar /\ score[v] > 0 /\ u \notin var_neighbor[v]
      BY <2>2, <2>4, <3>1, FlipClosesItselfOnly, HereFields
    <3> QED BY <3>2
  <2> QED BY <2>2, <2>3, <2>4, StampStep
<1>4. CASE FlipAfterWeights
  <2> DEFINE st == IncreaseWeights(Here)
  <2>1. PICK c \in hardunsat : \E u \in SelectVar(st.score, c) :
          /\ Become(Flip(st, u)) /\ time_stamp' = [time_stamp EXCEPT ![u] = step]
    BY <1>4 DEF FlipAfterWeights
  <2>2. PICK u \in SelectVar(st.score, c) :
          /\ Become(Flip(st, u)) /\ time_stamp' = [time_stamp EXCEPT ![u] = step]
    BY <2>1
  <2>3. /\ u \in Vars /\ pc = "flip" /\ pc' = "flip" /\ step' = step + 1 /\ StateExact(Here)
    BY <1>1, <1>4, ChoicesAreVars DEF FlipAfterWeights, Searching, Account
  <2>4. time_stamp' = [v \in Vars |-> IF v \in {u} THEN step ELSE time_stamp[v]]
    BY <1>1, <2>2, <2>3
  <2>5. StateExact(st)
    BY <2>3, IncreaseWeightsExact
  <2>6. \A v \in Vars : st.score[v] > 0 /\ v \notin st.goodvar => v \notin goodvar /\ score[v] > 0
    BY <2>3, IncreaseWeightsCloses, HereFields
  <2> HIDE DEF st
  <2>7. ASSUME materialized_neighbor_mode, NEW v \in Vars \ {u}, score'[v] > 0, v \notin goodvar'
        PROVE  v \notin goodvar /\ score[v] > 0 /\ {u} \cap var_neighbor[v] = {}
    <3>1. score' = FlipWithNeighbor(st, u).score /\ goodvar' = FlipWithNeighbor(st, u).goodvar
      BY <2>2, <2>7 DEF Become, Flip
    <3>2. v \notin st.goodvar /\ st.score[v] > 0 /\ u \notin var_neighbor[v]
      BY <2>3, <2>5, <2>7, <3>1, FlipClosesItselfOnly
    <3> QED BY <2>6, <3>2
  <2> QED BY <2>3, <2>4, <2>7, StampStep
<1>5. CASE Swap
  <2>1. /\ pc = "flip" /\ pc' = "flip" /\ step' = step + 1 /\ StateExact(Here)
    BY <1>1, <1>5 DEF Swap, Searching, Account
  <2>2. PICK c \in cardinalitysat : \E start \in Starts(c) : \E stride \in Strides(c) :
           \/ UNCHANGED <<cur_soln, time_stamp, rows, scores, unit_weight>>
           \/ \E a \in BestOf(score, Probed(c, start, stride, TRUE)),
                 b \in BestOf(score, Probed(c, start, stride, FALSE)) :
                /\ Become(FlipPairAtomic(Here, a, b))
                /\ time_stamp' = [time_stamp EXCEPT ![a] = step, ![b] = step]
    BY <1>5 DEF Swap
  <2>3. PICK start \in Starts(c), stride \in Strides(c) :
           \/ UNCHANGED <<cur_soln, time_stamp, rows, scores, unit_weight>>
           \/ \E a \in BestOf(score, Probed(c, start, stride, TRUE)),
                 b \in BestOf(score, Probed(c, start, stride, FALSE)) :
                /\ Become(FlipPairAtomic(Here, a, b))
                /\ time_stamp' = [time_stamp EXCEPT ![a] = step, ![b] = step]
    BY <2>2
  <2>4. CASE UNCHANGED <<cur_soln, time_stamp, rows, scores, unit_weight>>
    <3>1. /\ time_stamp' = [v \in Vars |-> IF v \in {} THEN step ELSE time_stamp[v]]
          /\ score' = score /\ goodvar' = goodvar
      BY <1>1, <2>4 DEF scores
    <3>2. \A v \in Vars \ {} : score'[v] > 0 /\ v \notin goodvar' =>
            v \notin goodvar /\ score[v] > 0 /\ {} \cap var_neighbor[v] = {}
      BY <3>1
    <3>3. {} \in SUBSET Vars
      OBVIOUS
    <3> QED BY <2>1, <3>1, <3>2, <3>3, StampStep
  <2>5. ASSUME NEW a \in BestOf(score, Probed(c, start, stride, TRUE)),
               NEW b \in BestOf(score, Probed(c, start, stride, FALSE)),
               Become(FlipPairAtomic(Here, a, b)),
               time_stamp' = [time_stamp EXCEPT ![a] = step, ![b] = step]
        PROVE  StampInv'
    <3>1. a \in Probed(c, start, stride, TRUE) /\ b \in Probed(c, start, stride, FALSE)
      BY ChoicesAreVars
    <3>2. a \in Vars /\ b \in Vars /\ a # b
      BY <3>1 DEF Probed
    <3>3. time_stamp' = [v \in Vars |-> IF v \in {a, b} THEN step ELSE time_stamp[v]]
      BY <1>1, <2>5, <3>2
    <3>4. Become(Flip(Flip(Here, a), b))
      BY <2>1, <2>5, <3>2, PairAsFlips
    <3>5. ASSUME materialized_neighbor_mode, NEW v \in Vars \ {a, b}, score'[v] > 0,
                 v \notin goodvar'
          PROVE  v \notin goodvar /\ score[v] > 0 /\ {a, b} \cap var_neighbor[v] = {}
      <4> DEFINE mid == FlipWithNeighbor(Here, a)
      <4>1. score' = FlipWithNeighbor(mid, b).score /\ goodvar' = FlipWithNeighbor(mid, b).goodvar
        BY <3>4, <3>5 DEF Become, Flip
      <4>2. StateExact(mid)
        BY <2>1, <3>2, FlipWithNeighborExact
      <4>3. v \notin mid.goodvar /\ mid.score[v] > 0 /\ b \notin var_neighbor[v]
        <5> HIDE DEF mid
        <5> QED BY <3>2, <3>5, <4>1, <4>2, FlipClosesItselfOnly
      <4>4. v \notin goodvar /\ score[v] > 0 /\ a \notin var_neighbor[v]
        BY <2>1, <3>2, <3>5, <4>3, FlipClosesItselfOnly, HereFields
      <4> QED BY <4>3, <4>4
    <3> QED BY <2>1, <3>2, <3>3, <3>5, StampStep
  <2> QED BY <2>3, <2>4, <2>5
<1>6. CASE Found \/ GiveUp \/ Verify \/ UNCHANGED vars
  <2>1. UNCHANGED <<step, score, goodvar, time_stamp>>
    BY <1>6 DEF Found, GiveUp, Verify, vars, scores, control
  <2>2. \/ pc' = pc
        \/ pc = "flip" /\ pc' \in {"verify", "try"}
        \/ pc = "verify" /\ pc' = "done"
    BY <1>6 DEF Found, GiveUp, Verify, vars, control
  <2> QED BY <2>1, <2>2 DEF StampInv, GoodvarMeaning
<1> QED
  BY <1>2, <1>3, <1>4, <1>5, <1>6 DEF Next, Done

\* The good variables gain, and with the neighbours known a variable that
\* would gain is closed only since its own flip, its neighbours resting since.
THEOREM GoodvarsRight == Spec => []GoodvarMeaning
<1>1. Init => StampInv
  BY DEF Init, StampInv, GoodvarMeaning
<1>2. Inv /\ Inv' /\ StampInv /\ [Next]_vars => StampInv'
  BY StampsStep
<1>3. StampInv => GoodvarMeaning
  BY DEF StampInv
<1> QED
  BY <1>1, <1>2, <1>3, Invariance, PTL DEF Spec

----------------------------------------------------------------------------
(* The walk.                                                                *)

\* The walk speaks of the same formula in the same words.
LEMMA WalkWords ==
  /\ W!Vars = Vars /\ W!Rows = Rows /\ W!Assignments = Assignments
  /\ \A sol, c : W!SatCount(sol, c) = SatCount(sol, c)
  /\ \A sol : W!IsModel(sol) <=> IsModel(sol)
  /\ \A sol, v : W!FlipVar(sol, v) = FlipVar(sol, v)
  /\ \A c, v : W!Occurs(c, v) <=> Occurs(c, v)
  /\ \A sol, c, v : W!LitTrue(sol, c, v) <=> LitTrue(sol, c, v)
<1>1. W!Vars = Vars /\ W!Rows = Rows
  BY DEF W!Vars, Vars, W!Rows, Rows
<1>2. \A l : W!Abs(l) = Abs(l)
  BY DEF W!Abs, Abs
<1>3. \A c, j : W!VarNum(c, j) = VarNum(c, j) /\ W!Sense(c, j) = Sense(c, j)
  BY <1>2 DEF W!VarNum, VarNum, W!Sense, Sense
<1>4. \A c : W!Positions(c) = Positions(c)
  BY DEF W!Positions, Positions
<1>5. \A sol, c : W!TruePositions(sol, c) = TruePositions(sol, c)
  BY <1>3, <1>4 DEF W!TruePositions, TruePositions
<1>6. \A sol, c : W!SatCount(sol, c) = SatCount(sol, c)
  BY <1>5 DEF W!SatCount, SatCount, W!Cardinality, Cardinality
<1>7. \A sol : W!IsModel(sol) <=> IsModel(sol)
  BY <1>1, <1>6 DEF W!IsModel, IsModel
<1>8. W!RowVars = RowVars
  BY <1>1, <1>3, <1>4 DEF W!RowVars, RowVars
<1>9. W!RowSense = RowSense
  <2> DEFINE here(c, v)  == CHOOSE j \in Positions(c) : VarNum(c, j) = v
             there(c, v) == CHOOSE j \in W!Positions(c) : W!VarNum(c, j) = v
  <2>1. ASSUME NEW c, NEW v PROVE there(c, v) = here(c, v)
    BY DEF W!Positions, Positions, W!VarNum, VarNum, W!Abs, Abs
  <2>2. ASSUME NEW c, NEW v PROVE W!Sense(c, there(c, v)) = Sense(c, here(c, v))
    <3> HIDE DEF here, there
    <3> QED BY <1>3, <2>1
  <2>3. RowSense = [c \in Rows |-> [v \in RowVars[c] |-> Sense(c, here(c, v))]]
    BY DEF RowSense
  <2>4. W!RowSense = [c \in W!Rows |-> [v \in W!RowVars[c] |-> W!Sense(c, there(c, v))]]
    BY DEF W!RowSense
  <2> HIDE DEF here, there
  <2> QED BY <1>1, <1>8, <2>2, <2>3, <2>4
<1>10. W!Assignments = Assignments
  BY <1>1 DEF W!Assignments, Assignments
<1>11. \A sol, v : W!FlipVar(sol, v) = FlipVar(sol, v)
  BY DEF W!FlipVar, FlipVar
<1>12. \A c, v : W!Occurs(c, v) <=> Occurs(c, v)
  BY <1>8 DEF W!Occurs, Occurs
<1>13. \A sol, c, v : W!LitTrue(sol, c, v) <=> LitTrue(sol, c, v)
  BY <1>9 DEF W!LitTrue, LitTrue
<1> QED
  BY <1>1, <1>6, <1>7, <1>10, <1>11, <1>12, <1>13

\* The search implements the walk: an answer 10 is given on a model only, an
\* answer 0 only after the last try, and between restarts every move is one
\* flip, or one exchange in a satisfied cardinality row, away from a
\* non-model.
THEOREM SearchImplementsWalk == Spec => WalkSpec
<1> DEFINE trial == IF pc = "try" \/ tries = max_tries THEN tries - 1 ELSE tries
<1>1. Init => W!Init
  BY WalkWords DEF Init, W!Init, Assignments
<1>2. ASSUME Inv, [Next]_vars PROVE [W!Next]_(W!walkVars)
  <2>1. /\ max_tries \in Nat /\ tries \in 1..max_tries /\ cur_soln \in Assignments
        /\ pc \in {"try", "flip"} => tries < max_tries
        /\ pc # "done" => result = -1
    BY <1>2, CardSATLSAssumption DEF Inv, TypeOK
  <2>2. Inv'
    BY <1>2, StepInv
  <2>3. cur_soln' \in Assignments
    BY <2>2 DEF Inv, TypeOK
  <2>4. pc = "flip" => trial = tries /\ trial > 0 /\ (hard_unsat_nb # 0 => ~IsModel(cur_soln))
    BY <1>2, <2>1, CounterTellsModel DEF Inv
  <2>5. CASE StartTry
    <3>1. /\ pc = "try" /\ pc' = "flip" /\ tries' = tries /\ result' = result
      BY <2>5 DEF StartTry
    <3>2. trial = tries - 1 /\ trial' = tries
      BY <2>1, <3>1
    <3> QED BY <2>1, <2>3, <3>1, <3>2, WalkWords DEF W!Next, W!Restart
  <2>6. CASE FlipGood \/ FlipAfterWeights
    <3>1. /\ pc = "flip" /\ hard_unsat_nb # 0 /\ pc' = pc /\ tries' = tries /\ result' = result
      BY <2>6 DEF FlipGood, FlipAfterWeights, Searching, Account
    <3>2. \E v \in Vars : cur_soln' = FlipVar(cur_soln, v)
      BY <1>2, <2>6, FlipGoodRight, FlipAfterWeightsRight
    <3>3. trial' = trial
      BY <3>1
    <3> QED BY <2>1, <2>4, <3>1, <3>2, <3>3, WalkWords DEF W!Next, W!FlipOne
  <2>7. CASE Swap
    <3>1. /\ pc = "flip" /\ hard_unsat_nb # 0 /\ pc' = pc /\ tries' = tries /\ result' = result
      BY <2>7 DEF Swap, Searching, Account
    <3>2. trial' = trial
      BY <3>1
    <3>3. CASE UNCHANGED cur_soln
      BY <3>1, <3>2, <3>3 DEF W!walkVars
    <3>4. CASE ~UNCHANGED cur_soln
      <4>1. W!Exchange
        BY <1>2, <2>1, <2>4, <2>7, <3>1, <3>2, <3>4, SwapRight, WalkWords DEF W!Exchange
      <4> QED BY <4>1 DEF W!Next
    <3> QED BY <3>3, <3>4
  <2>8. CASE Found
    <3>1. pc = "flip" /\ pc' = "verify" /\ UNCHANGED <<tries, result, cur_soln>>
      BY <2>8 DEF Found
    <3>2. trial' = trial
      BY <2>1, <3>1
    <3> QED BY <3>1, <3>2 DEF W!walkVars
  <2>9. CASE GiveUp
    <3>1. /\ pc = "flip" /\ UNCHANGED <<result, cur_soln>> /\ tries' = tries + 1
          /\ pc' = IF tries' < max_tries THEN "try" ELSE "verify"
      BY <2>9 DEF GiveUp
    <3>2. trial' = trial
      BY <2>1, <3>1
    <3> QED BY <3>1, <3>2 DEF W!walkVars
  <2>10. CASE Verify
    <3>1. /\ pc = "verify" /\ pc' = "done" /\ UNCHANGED <<tries, cur_soln>>
          /\ result' = IF IsModel(cur_soln) THEN 10 ELSE 0
      BY <2>10 DEF Verify
    <3>2. trial' = trial
      BY <3>1
    <3>3. ~IsModel(cur_soln) => trial = max_tries - 1
      BY <1>2, <2>1, <3>1 DEF Inv
    <3> QED BY <2>1, <3>1, <3>2, <3>3, WalkWords DEF W!Next, W!Answer
  <2>11. CASE UNCHANGED vars
    BY <2>11 DEF vars, control, W!walkVars
  <2> QED
    BY <1>2, <2>5, <2>6, <2>7, <2>8, <2>9, <2>10, <2>11 DEF Next, Done
<1> QED
  BY <1>1, <1>2, Invariance, PTL DEF Spec, WalkSpec, W!Spec
=============================================================================
