-------------------------------- MODULE KNF --------------------------------
(***************************************************************************)
(* A formula in cardinality-normal form as the local search holds it after *)
(* CardSATLS::parse_from_preprocess: row c is a sequence of literals, and  *)
(* asks that at least clause_true_lit_thres[c] of them be true.  A literal *)
(* is the DIMACS integer v or -v; the code splits it into var_num and      *)
(* sense.  Rows are numbered from 1 here and from 0 in the code.           *)
(***************************************************************************)
EXTENDS Integers, Sequences, FiniteSets

CONSTANTS
  num_vars,               \* variables are 1..num_vars
  num_clauses,            \* rows are 1..num_clauses
  clause_lit,             \* clause_lit[c] is the sequence of literals of row c
  clause_true_lit_thres   \* clause_true_lit_thres[c] is the degree of row c

Vars == 1..num_vars
Rows == 1..num_clauses

Abs(l) == IF l > 0 THEN l ELSE -l

\* The j'th literal of row c: its variable, and the value that makes it true.
VarNum(c, j) == Abs(clause_lit[c][j])
Sense(c, j)  == IF clause_lit[c][j] > 0 THEN 1 ELSE 0

\* What the reader builds: every literal is of a known variable, no row is
\* empty (the preprocessor answers 20 on an empty row of positive degree).
ASSUME KNFAssumption ==
  /\ num_vars \in Nat
  /\ num_clauses \in Nat
  /\ clause_lit \in [Rows -> Seq(Int)]
  /\ clause_true_lit_thres \in [Rows -> Nat]
  /\ \A c \in Rows : /\ Len(clause_lit[c]) > 0
                     /\ \A j \in 1..Len(clause_lit[c]) : VarNum(c, j) \in Vars

\* The preprocessor merges repeated literals, so a variable occurs at most
\* once in a row.  flip_with_neighbor relies on it: it negates the score of
\* the flipped variable instead of recomputing it.
ASSUME OncePerRow ==
  \A c \in Rows : \A i, j \in 1..Len(clause_lit[c]) :
     VarNum(c, i) = VarNum(c, j) => i = j

Positions(c) == 1..Len(clause_lit[c])

\* The variables of each row, and the sense of each in it.
RowVars  == [c \in Rows |-> {VarNum(c, j) : j \in Positions(c)}]
RowSense == [c \in Rows |-> [v \in RowVars[c] |->
               Sense(c, CHOOSE j \in Positions(c) : VarNum(c, j) = v)]]
Occurs(c, v) == v \in RowVars[c]

Assignments == [Vars -> {0, 1}]

LitTrue(sol, c, v) == sol[v] = RowSense[c][v]
TruePositions(sol, c) == {j \in Positions(c) : sol[VarNum(c, j)] = Sense(c, j)}

\* Semantics: the number of true literals of a row, by how much the row
\* misses its degree, and what a model is.
SatCount(sol, c)  == Cardinality(TruePositions(sol, c))
Shortfall(sol, c) ==
  IF SatCount(sol, c) < clause_true_lit_thres[c]
  THEN clause_true_lit_thres[c] - SatCount(sol, c) ELSE 0
IsModel(sol) == \A c \in Rows : SatCount(sol, c) >= clause_true_lit_thres[c]

FlipVar(sol, v) == [sol EXCEPT ![v] = 1 - @]

-----------------------------------------------------------------------------
\* Sums over the rows 1..n, taken in row order.  The solver builds every
\* score as such a sum, one occurrence after the other
\* (CardSATLS::init_score_multi and the loop of
\* flip_update_score_multi_impl).  The sum is a recursive function on the row
\* number, so that one can reason about it by induction.

\* f[1] + f[2] + ..., accumulated in the order of the code's loops
PrefixSum(f) ==
  LET total[k \in Nat] ==
        IF k = 0 THEN 0 ELSE total[k - 1] + (IF k \in DOMAIN f THEN f[k] ELSE 0)
  IN  total

SumTo(f, n) == PrefixSum(f)[n]

\* The weighted violation the search descends on.
Cost(sol, weight) ==
  SumTo([c \in Rows |-> weight[c] * Shortfall(sol, c)], num_clauses)

\* v and n are neighbours when they share a row (build_neighbor_relation).
var_neighbor ==
  [v \in Vars |-> {n \in Vars \ {v} : \E c \in Rows : Occurs(c, v) /\ Occurs(c, n)}]
=============================================================================
