----------------------------- MODULE CardSATLS -----------------------------
(***************************************************************************)
(* The local search of CardSAT-LS: tries, flips, restarts, weights and     *)
(* swaps, from settings() to the answer of solve().  One step of Next is   *)
(* one iteration of a loop of the code: a try that begins (init_assignment *)
(* and init_local_search), an iteration of local_search_flip with the      *)
(* whole of pick_var/flip or of swap_vars in it, the end of a try, the     *)
(* final verify_sol.  fast_rand is a nondeterministic choice; a comparison *)
(* of it with a probability threshold is a coin, and the constants say     *)
(* which sides the coin has.                                               *)
(***************************************************************************)
EXTENDS PairFlip, FiniteSetsExt

CONSTANTS
  max_tries,              \* tries are numbered 1..max_tries-1
  max_flips,              \* steps of a try are numbered 1..max_flips-1
  max_non_improve_flip,   \* patience: flips without a new best before a restart
  swap_non_improve_flip,  \* flips without a new best before a swap is allowed
  enable_swap,            \* BOOLEAN
  init_mode,              \* 0 random, 1 backbone, 2 best, 3 all false, 4 all true
  backbone_threshold,     \* a restart keeps variables last flipped up to this step
  hd_count_threshold,     \* below this many good variables all are compared
  swap_bms_cap,           \* at most this many literals of a row are probed
  neighbor_entry_budget,  \* entries the neighbour lists may take
  rd_coin, rw_coin, swap_coin   \* sides of the coins rdprob, rwprob, swapprob

ASSUME CardSATLSAssumption ==
  /\ max_tries \in Nat \ {0, 1} /\ max_flips \in Nat
  /\ max_non_improve_flip \in Nat /\ swap_non_improve_flip \in Nat
  /\ enable_swap \in BOOLEAN /\ init_mode \in 0..4
  /\ backbone_threshold \in Nat /\ hd_count_threshold \in Nat \ {0}
  /\ swap_bms_cap \in Nat \ {0} /\ neighbor_entry_budget \in Nat
  /\ \A coin \in {rd_coin, rw_coin, swap_coin} : coin \in (SUBSET BOOLEAN) \ {{}}

VARIABLES
  pc,                     \* "try", "flip", "verify" or "done"
  tries, step,
  cur_soln, time_stamp,
  sat_count, hardunsat, hard_unsat_nb, cardinalitysat,
  unit_weight, delta_total_weight, ave_weight,
  score, goodvar,
  best_hard_unsat_nb, non_improve_flips,
  minimum_hard_unsat_nb,
  result                  \* what solve() returns: -1 until it does

control == <<pc, tries, step, best_hard_unsat_nb, non_improve_flips,
             minimum_hard_unsat_nb, result>>
rows    == <<sat_count, hardunsat, hard_unsat_nb, cardinalitysat>>
scores  == <<score, goodvar>>
weights == <<unit_weight, delta_total_weight, ave_weight>>
vars    == <<control, cur_soln, time_stamp, rows, scores, weights>>

IntMax == 2147483647

Smaller(x, y) == IF x < y THEN x ELSE y

----------------------------------------------------------------------------
(* settings(): which flip the search uses.                                 *)

\* avg_neighbor_lit < 1e7, a quotient of doubles: 0/0 is NaN and x/0 infinite.
AverageAllowsNeighbors ==
  LET literals == RowSum([c \in Rows |-> Len(clause_lit[c])])
      denominator == num_vars - num_clauses + 1
  IN  \/ denominator < 0
      \/ denominator > 0 /\ literals - num_clauses < 10000000 * denominator

max_clause_length == Max({0} \cup {Len(clause_lit[c]) : c \in Rows})

\* build_neighbor_relation fails once the entries of a prefix of the variables
\* exceed the budget, that is, once all of them do.
materialized_neighbor_mode ==
  /\ AverageAllowsNeighbors
  /\ max_clause_length > 1 =>
       max_clause_length * (max_clause_length - 1) <= neighbor_entry_budget
  /\ SumTo([v \in Vars |-> Cardinality(var_neighbor[v])], num_vars) <= neighbor_entry_budget

Flip(st, u) ==
  IF materialized_neighbor_mode THEN FlipWithNeighbor(st, u) ELSE FlipNoNeighbor(st, u)

FlipPairAtomic(st, a, b) ==
  IF materialized_neighbor_mode /\ SharedRows(a, b) # {}
  THEN MergedPair(st, a, b) ELSE Flip(Flip(st, a), b)

----------------------------------------------------------------------------
(* Choosing what to flip.                                                  *)

\* The variables of S with the best score among S, the oldest of them.
Better(sc, v, w)  == sc[v] > sc[w] \/ (sc[v] = sc[w] /\ time_stamp[v] < time_stamp[w])
BestOf(sc, S) == {v \in S : \A w \in S : ~Better(sc, w, v)}

\* pick_var with a nonempty stack.  With many good variables it compares
\* hd_count_threshold samples drawn with replacement, which may be the same
\* variable every time.
PickGoodvar ==
  {v \in Vars : v \in goodvar /\
     \/ TRUE \in rd_coin
     \/ Cardinality(goodvar) >= hd_count_threshold
     \/ v \in BestOf(score, goodvar)}

\* select_var_after_update_weight in row c with scores sc.
FalseVars(c) == {v \in Vars : Occurs(c, v) /\ ~LitTrue(cur_soln, c, v)}
FirstBest(sc, c) ==
  LET best == {j \in Positions(c) :
                 VarNum(c, j) \in BestOf(sc, {VarNum(c, i) : i \in Positions(c)})}
  IN  {v \in Vars : \E j \in best : VarNum(c, j) = v /\ \A i \in best : j <= i}
SelectVar(sc, c) ==
  IF FalseVars(c) = {} THEN FirstBest(sc, c)
  ELSE {v \in FalseVars(c) : \/ TRUE \in rw_coin
                             \/ FALSE \in rw_coin /\ v \in BestOf(sc, FalseVars(c))}

\* swap_vars: the positions of row c probed from start with the given stride.
SampleCount(length) == Smaller((length - 1) \div 2 + 1, swap_bms_cap)
ProbeAt(length, start, stride, i) == ((start + i * stride) % length) + 1
Probes(c, start, stride) ==
  {ProbeAt(Len(clause_lit[c]), start, stride, i) :
     i \in 0..SampleCount(Len(clause_lit[c])) - 1}
Starts(c)  == 0..Len(clause_lit[c]) - 1
\* Mutant: the backward stride is one too long.
StridesFull(c) == {1, Len(clause_lit[c])}
Strides(c) == IF Len(clause_lit[c]) > 1 THEN {1, Len(clause_lit[c]) - 1} ELSE {1}

\* Mutant: the candidates are not told apart by their phase.
ProbedAnyPhase(c, start, stride, value) ==
  {v \in Vars : \E j \in Probes(c, start, stride) : VarNum(c, j) = v}

Probed(c, start, stride, value) ==
  {v \in Vars : \E j \in Probes(c, start, stride) :
     VarNum(c, j) = v /\ (LitTrue(cur_soln, c, v) <=> value)}

----------------------------------------------------------------------------
(* The search state as a record, and back.                                 *)

Here ==
  [ cur_soln |-> cur_soln, sat_count |-> sat_count, hardunsat |-> hardunsat,
    hard_unsat_nb |-> hard_unsat_nb, cardinalitysat |-> cardinalitysat,
    unit_weight |-> unit_weight, score |-> score, goodvar |-> goodvar ]

Become(st) ==
  /\ cur_soln' = st.cur_soln
  /\ sat_count' = st.sat_count
  /\ hardunsat' = st.hardunsat
  /\ hard_unsat_nb' = st.hard_unsat_nb
  /\ cardinalitysat' = st.cardinalitysat
  /\ unit_weight' = st.unit_weight
  /\ score' = st.score
  /\ goodvar' = st.goodvar

----------------------------------------------------------------------------
(* The loops.                                                              *)

\* cur_soln and the other arrays are fresh memory until the first try fills
\* them; nothing reads them before.
Init ==
  /\ pc = "try"
  /\ tries = 1 /\ step = 0
  /\ cur_soln = [v \in Vars |-> 0] /\ time_stamp = [v \in Vars |-> 0]
  /\ sat_count = [c \in Rows |-> 0] /\ hardunsat = {} /\ hard_unsat_nb = 0
  /\ cardinalitysat = {}
  /\ unit_weight = [c \in Rows |-> 1] /\ delta_total_weight = 0 /\ ave_weight = 1
  /\ score = [v \in Vars |-> 0] /\ goodvar = {}
  /\ best_hard_unsat_nb = IntMax /\ non_improve_flips = 0
  /\ minimum_hard_unsat_nb = IntMax /\ result = -1

\* init_assignment: what a try may start from.  A backbone restart keeps the
\* variables that stopped moving early and sends the others to false.
StartAssignments ==
  CASE init_mode = 0 -> Assignments
    [] init_mode = 3 -> {[v \in Vars |-> 0]}
    [] init_mode = 4 -> {[v \in Vars |-> 1]}
    [] OTHER -> {[v \in Vars |-> IF tries = 1 \/ time_stamp[v] > backbone_threshold
                                 THEN 0 ELSE cur_soln[v]]}

StartTry ==
  /\ pc = "try"
  /\ \E sol \in StartAssignments : Become(InitLocalSearch(sol))
  /\ time_stamp' = [v \in Vars |-> 0]
  /\ minimum_hard_unsat_nb' = Smaller(minimum_hard_unsat_nb, hard_unsat_nb')
  /\ best_hard_unsat_nb' = hard_unsat_nb'
  /\ non_improve_flips' = 0
  /\ step' = 1
  /\ pc' = "flip"
  /\ UNCHANGED <<tries, delta_total_weight, ave_weight, result>>

\* The conditions under which an iteration of local_search_flip moves.
Searching ==
  /\ pc = "flip" /\ step < max_flips
  /\ hard_unsat_nb # 0
  /\ non_improve_flips < max_non_improve_flip

SwapAllowed ==
  /\ enable_swap /\ cardinalitysat # {}
  /\ non_improve_flips >= swap_non_improve_flip

\* Mutant: the minimum is taken before the flip has changed the count.
AccountStaleMinimum ==
  /\ IF hard_unsat_nb' < best_hard_unsat_nb
     THEN best_hard_unsat_nb' = hard_unsat_nb' /\ non_improve_flips' = 0
     ELSE UNCHANGED best_hard_unsat_nb /\ non_improve_flips' = non_improve_flips + 1
  /\ minimum_hard_unsat_nb' = Smaller(minimum_hard_unsat_nb, hard_unsat_nb)
  /\ step' = step + 1
  /\ UNCHANGED <<pc, tries, result>>

\* The tail of an iteration: the best of the try, the patience, the minimum.
Account ==
  /\ IF hard_unsat_nb' < best_hard_unsat_nb
     THEN best_hard_unsat_nb' = hard_unsat_nb' /\ non_improve_flips' = 0
     ELSE UNCHANGED best_hard_unsat_nb /\ non_improve_flips' = non_improve_flips + 1
  /\ minimum_hard_unsat_nb' = Smaller(minimum_hard_unsat_nb, hard_unsat_nb')
  /\ step' = step + 1
  /\ UNCHANGED <<pc, tries, result>>

\* pick_var finds a good variable.
FlipGood ==
  /\ Searching
  /\ SwapAllowed => FALSE \in swap_coin
  /\ goodvar # {}
  /\ \E v \in PickGoodvar :
       /\ Become(Flip(Here, v))
       /\ time_stamp' = [time_stamp EXCEPT ![v] = step]
  /\ Account
  /\ UNCHANGED <<delta_total_weight, ave_weight>>

\* Local minimum: the weights rise, then a variable of an unsatisfied row goes.
FlipAfterWeights ==
  /\ Searching
  /\ SwapAllowed => FALSE \in swap_coin
  /\ goodvar = {}
  /\ LET st    == IncreaseWeights(Here)
         total == delta_total_weight + Cardinality(hardunsat)
     IN  /\ \E c \in hardunsat : \E v \in SelectVar(st.score, c) :
              /\ Become(Flip(st, v))
              /\ time_stamp' = [time_stamp EXCEPT ![v] = step]
         /\ IF total >= num_clauses
            THEN ave_weight' = ave_weight + 1 /\ delta_total_weight' = total - num_clauses
            ELSE UNCHANGED ave_weight /\ delta_total_weight' = total
  /\ Account

\* swap_vars; a probe that finds no literal of one phase flips nothing, and
\* the iteration still counts.
Swap ==
  /\ Searching
  /\ SwapAllowed /\ TRUE \in swap_coin
  /\ \E c \in cardinalitysat : \E start \in Starts(c) : \E stride \in Strides(c) :
       LET trueVars  == Probed(c, start, stride, TRUE)
           falseVars == Probed(c, start, stride, FALSE)
       IN  \/ /\ trueVars = {} \/ falseVars = {}
              /\ UNCHANGED <<cur_soln, time_stamp, rows, scores, unit_weight>>
           \/ \E a \in BestOf(score, trueVars), b \in BestOf(score, falseVars) :
                /\ Become(FlipPairAtomic(Here, a, b))
                /\ time_stamp' = [time_stamp EXCEPT ![a] = step, ![b] = step]
  /\ Account
  /\ UNCHANGED <<delta_total_weight, ave_weight>>

\* local_search_flip returns 10: no row is unsatisfied.
Found ==
  /\ pc = "flip" /\ step < max_flips
  /\ hard_unsat_nb = 0
  /\ pc' = "verify"
  /\ UNCHANGED <<tries, step, best_hard_unsat_nb, non_improve_flips,
                 minimum_hard_unsat_nb, result, cur_soln, time_stamp, rows, scores, weights>>

\* Mutants: a try ends one flip early; one try too many; the loop is not left when
\* the patience is at its end.
GiveUpOneFlipEarly ==
  /\ pc = "flip"
  /\ \/ step >= max_flips - 1
     \/ hard_unsat_nb # 0 /\ non_improve_flips >= max_non_improve_flip
  /\ tries' = tries + 1
  /\ pc' = IF tries' < max_tries THEN "try" ELSE "verify"
  /\ UNCHANGED <<step, best_hard_unsat_nb, non_improve_flips,
                 minimum_hard_unsat_nb, result, cur_soln, time_stamp, rows, scores, weights>>
GiveUpOneTryMore ==
  /\ pc = "flip"
  /\ \/ step >= max_flips
     \/ hard_unsat_nb # 0 /\ non_improve_flips >= max_non_improve_flip
  /\ tries' = tries + 1
  /\ pc' = IF tries' <= max_tries THEN "try" ELSE "verify"
  /\ UNCHANGED <<step, best_hard_unsat_nb, non_improve_flips,
                 minimum_hard_unsat_nb, result, cur_soln, time_stamp, rows, scores, weights>>
GiveUpAtLimitOnly ==
  /\ pc = "flip"
  /\ step >= max_flips
  /\ tries' = tries + 1
  /\ pc' = IF tries' < max_tries THEN "try" ELSE "verify"
  /\ UNCHANGED <<step, best_hard_unsat_nb, non_improve_flips,
                 minimum_hard_unsat_nb, result, cur_soln, time_stamp, rows, scores, weights>>

\* local_search_flip returns 0: out of flips, or out of patience.
GiveUp ==
  /\ pc = "flip"
  /\ \/ step >= max_flips
     \/ hard_unsat_nb # 0 /\ non_improve_flips >= max_non_improve_flip
  /\ tries' = tries + 1
  /\ pc' = IF tries' < max_tries THEN "try" ELSE "verify"
  /\ UNCHANGED <<step, best_hard_unsat_nb, non_improve_flips,
                 minimum_hard_unsat_nb, result, cur_soln, time_stamp, rows, scores, weights>>

\* solve() returns verify_sol().
Verify ==
  /\ pc = "verify"
  /\ result' = IF IsModel(cur_soln) THEN 10 ELSE 0
  /\ pc' = "done"
  /\ UNCHANGED <<tries, step, best_hard_unsat_nb, non_improve_flips,
                 minimum_hard_unsat_nb, cur_soln, time_stamp, rows, scores, weights>>

\* solve() has returned.
Done == pc = "done" /\ UNCHANGED vars

Next == \/ StartTry \/ FlipGood \/ FlipAfterWeights \/ Swap
        \/ Found \/ GiveUp \/ Verify \/ Done

\* The program is sequential: while a step is possible it takes one.
Spec == Init /\ [][Next]_vars /\ WF_vars(Next)

----------------------------------------------------------------------------
(* Correctness.                                                            *)

\* Every variable of the search keeps its type.
TypeOK ==
  /\ pc \in {"try", "flip", "verify", "done"}
  /\ tries \in 1..max_tries /\ step \in Nat
  /\ cur_soln \in Assignments /\ time_stamp \in [Vars -> Nat]
  /\ sat_count \in [Rows -> Int] /\ hardunsat \subseteq Rows
  /\ hard_unsat_nb \in Int /\ cardinalitysat \subseteq Rows
  /\ unit_weight \in [Rows -> Nat] /\ delta_total_weight \in Int /\ ave_weight \in Nat
  /\ score \in [Vars -> Int] /\ goodvar \subseteq Vars
  /\ best_hard_unsat_nb \in Int /\ non_improve_flips \in Nat
  /\ minimum_hard_unsat_nb \in Int
  /\ result \in {-1, 0, 10}

\* sat_count is only ever changed by one and never recounted within a try:
\* it must still be the number of true literals of the row, for the pair flip
\* and the two single flips alike.
CountsExact ==
  pc # "try" => \A c \in Rows : sat_count[c] = SatCount(cur_soln, c)

\* The two row stacks and the separate counter agree with the counts after any
\* sequence of sat(c) and unsat(c): no row is on both stacks, none is missing,
\* and hard_unsat_nb, the loop's only stop test, is the size of hardunsat.
StacksExact ==
  pc # "try" =>
    /\ hardunsat = {c \in Rows : SatCount(cur_soln, c) < clause_true_lit_thres[c]}
    /\ hard_unsat_nb = Cardinality(hardunsat)
    /\ cardinalitysat = {c \in Rows : IsCardinality(c)} \ hardunsat

\* A score updated by one row at a time, negated on a flip, raised with the
\* weights and deferred in a pair flip is still what flipping the variable
\* would gain: the drop of the weighted violation.
ScoreExact ==
  pc # "try" =>
    \A v \in Vars :
      score[v] = Cost(cur_soln, unit_weight) - Cost(FlipVar(cur_soln, v), unit_weight)

\* The good variables have a positive score.  In materialised mode a variable
\* with a positive score is missing only between its own flip and the next
\* flip of a neighbour (the configuration-checking tabu of the search): it
\* has been flipped, and no neighbour more recently.
GoodvarMeaning ==
  pc # "try" =>
    /\ \A v \in goodvar : score[v] > 0
    /\ materialized_neighbor_mode =>
         \A v \in Vars \ goodvar :
           score[v] > 0 => /\ time_stamp[v] > 0
                           /\ \A n \in var_neighbor[v] : time_stamp[n] <= time_stamp[v]

\* The one-pass pair flip is the two flips it replaces, in whatever state the
\* search can be and for every pair it could be asked to flip: same counts,
\* stacks, scores and good variables (heuristic.cpp:373 asks for "the exact
\* ordered update" elsewhere).
PairIsTwoFlips ==
  pc = "flip" =>
    \A a, b \in Vars : a # b /\ SharedRows(a, b) # {} =>
      MergedPair(Here, a, b) = SequentialPair(Here, a, b)

\* "Either direction is coprime with every row size, giving a bounded
\* without-replacement walk" (heuristic.cpp:328): a swap never probes a
\* position of the row twice.
ProbesWithoutReplacement ==
  \A c \in cardinalitysat : \A start \in Starts(c) : \A stride \in Strides(c) :
    Cardinality(Probes(c, start, stride)) = SampleCount(Len(clause_lit[c]))

\* When local_search returns before the tries run out it is on a model, so
\* verify_sol cannot turn the 10 it was stopped for into a 0.
EarlyReturnIsModel ==
  pc \in {"verify", "done"} /\ tries < max_tries =>
    IsModel(cur_soln) /\ result # 0

\* The bests: over the run, of the try and now, in this order; a try whose
\* last flip improved it stands at its best; and a try is never longer than
\* its improvements and its patience allow.
ProgressAccounting ==
  pc = "flip" =>
    /\ minimum_hard_unsat_nb <= best_hard_unsat_nb
    /\ best_hard_unsat_nb <= Cardinality(hardunsat)
    /\ non_improve_flips = 0 => best_hard_unsat_nb = Cardinality(hardunsat)
    /\ non_improve_flips <= max_non_improve_flip /\ non_improve_flips < step

\* ave_weight and its remainder delta_total_weight account for every weight
\* increase of the run.  Restarts reset the weights and not the average, so
\* from the second try on the average may only be too high.
WeightAccounting ==
  LET accounted == (ave_weight - 1) * num_clauses + delta_total_weight
      raised    == RowSum([c \in Rows |-> unit_weight[c] - 1])
  IN  /\ 0 <= delta_total_weight /\ delta_total_weight < num_clauses
      /\ raised <= accounted
      /\ tries = 1 => raised = accounted

\* A variable that was not itself flipped and whose score rose above zero is
\* open to the greedy choice, whichever way the stack is maintained: by the
\* sweep, by single changes, or by the weights followed by a flip.
RisingScoreReopens ==
  [][pc = "flip" => \A v \in Vars :
       cur_soln'[v] = cur_soln[v] /\ score'[v] > score[v] /\ score'[v] > 0
         => v \in goodvar']_vars

\* A model is only ever walked away from at the flip limit: the loop tests
\* for it before the patience, but not after the last flip.
ModelDroppedOnlyAtLimit ==
  [][(pc = "flip" /\ cur_soln' # cur_soln) \/ tries' # tries
       => (IsModel(cur_soln) => step >= max_flips)]_vars

\* The search implements the walk.  trial counts the tries that have started.
W == INSTANCE Walk WITH
       sol    <- cur_soln,
       trial  <- IF pc = "try" \/ tries = max_tries THEN tries - 1 ELSE tries,
       answer <- result

WalkSpec == W!Spec

\* solve() returns: no choice is ever made from an empty stack or row, every
\* try ends by its limit or its patience, and the tries run out.
Terminates == <>(pc = "done")
=============================================================================
