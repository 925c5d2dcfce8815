----------------------------- MODULE MCHeuristics -----------------------------
(* A small formula with many conflicts for CdclHeuristics.                   *)
EXTENDS CdclHeuristics

add(degree, lits) == [op |-> "add", degree |-> degree, lits |-> lits, guard |-> 0]
assume(lit) == [op |-> "assume", lit |-> lit]
constraint(lits) == [op |-> "constrain", lits |-> lits]
limit(name, value) == [op |-> "limit", name |-> name, value |-> value]
solve == [op |-> "solve"]

(* Two rows and 28 clauses without a model: a search meets 14 conflicts.     *)
Rows == <<add(2, <<2, -5, 3, -1, -6, 4>>), add(2, <<-2, -4, 1, 6, 3>>)>>

Clauses ==
  <<<<-3, 5, -2, -4>>, <<2, 4, -3, 1, 6>>, <<4, -2, 1, -6, 3>>,
    <<5, -2, 4, -1, 6>>, <<-6, 5, 2, -4>>, <<-6, -3, 4, -1, -2>>,
    <<4, 5, 6, 3, -1>>, <<2, -4, -5, 3, -6>>, <<-4, 3, -1, -5>>,
    <<-3, -2, -6, 1, -4>>, <<-5, 6, 2, -3>>, <<-2, 4, -3, -5, 1>>,
    <<-2, 1, 5, -6, 4>>, <<-4, -3, -1, -5, 6>>, <<-3, 5, -4, 6>>,
    <<6, -5, -2, -3>>, <<3, -1, -4, 5>>, <<1, -3, -2, 5>>,
    <<-6, -5, -4, -2, -3>>, <<2, 4, -5, 6>>, <<-5, 2, -3, -1>>,
    <<-6, -2, 3, -1, 4>>, <<-3, 2, 5, 6, 4>>, <<-5, 1, 2, -6>>,
    <<3, -1, 6, 4>>, <<-3, -6, 1, 5, 4>>, <<3, 1, 5, 6, 2>>, <<4, 5, 2, -6>>>>

Clausal(lists) == [i \in DOMAIN lists |-> add(1, lists[i])]

All == Rows \o Clausal(Clauses)

(* The whole search; one under an assumption; one that stops at its limit,   *)
(* with a constraint, and is taken up again with another clause.             *)
Scenarios ==
  {All \o <<solve>>,
   All \o <<assume(-1), solve>>,
   Rows \o Clausal(Tail(Clauses)) \o
     <<constraint(<<-4, -5>>), limit("conflicts", 3), solve, add(1, Head(Clauses)),
       limit("conflicts", 3), solve>>}

Kinds == {[rephase |-> 7], [switch |-> 1, restart |-> 5], [switch |-> 2, restart |-> 1],
          [switch |-> 1, rephase |-> 1], [switch |-> 1, reduce |-> 1]}
=============================================================================
