-------------------------------- MODULE Walk --------------------------------
(***************************************************************************)
(* What the local search promises, without scores, weights or stacks: a    *)
(* number of tries, each a walk over assignments that flips one variable   *)
(* or exchanges a true and a false literal of a satisfied cardinality row, *)
(* that never moves off a model within a try, and an answer 10 given on a  *)
(* model and only on one (CardSATLS::solve).                               *)
(***************************************************************************)
EXTENDS KNF

CONSTANT max_tries

VARIABLES sol, trial, answer

walkVars == <<sol, trial, answer>>

Init == sol \in Assignments /\ trial = 0 /\ answer = -1

\* A try starts anywhere.
Restart ==
  /\ answer = -1 /\ trial < max_tries - 1
  /\ trial' = trial + 1
  /\ sol' \in Assignments
  /\ UNCHANGED answer

FlipOne ==
  /\ answer = -1 /\ trial > 0 /\ ~IsModel(sol)
  /\ \E v \in Vars : sol' = FlipVar(sol, v)
  /\ UNCHANGED <<trial, answer>>

\* The row keeps its number of true literals.
Exchange ==
  /\ answer = -1 /\ trial > 0 /\ ~IsModel(sol)
  /\ \E c \in Rows : \E a, b \in Vars :
       /\ clause_true_lit_thres[c] > 1
       /\ SatCount(sol, c) >= clause_true_lit_thres[c]
       /\ Occurs(c, a) /\ LitTrue(sol, c, a)
       /\ Occurs(c, b) /\ ~LitTrue(sol, c, b)
       /\ sol' = FlipVar(FlipVar(sol, a), b)
  /\ UNCHANGED <<trial, answer>>

\* 10 needs a model; 0 is only said once the tries are used up.
Answer ==
  /\ answer = -1
  /\ \/ IsModel(sol) /\ answer' = 10
     \/ ~IsModel(sol) /\ trial = max_tries - 1 /\ answer' = 0
  /\ UNCHANGED <<sol, trial>>

Next == Restart \/ FlipOne \/ Exchange \/ Answer

Spec == Init /\ [][Next]_walkVars
=============================================================================
