------------------------------- MODULE MCCdcl --------------------------------
(* Small formulas and scripts of calls for Cdcl. *)
EXTENDS Cdcl

add(degree, lits) == [op |-> "add", degree |-> degree, lits |-> lits, guard |-> 0]
assume(lit) == [op |-> "assume", lit |-> lit]
constraint(lits) == [op |-> "constrain", lits |-> lits]
limit(name, value) == [op |-> "limit", name |-> name, value |-> value]
solve == [op |-> "solve"]

(* Exactly two of four, and clauses that leave one model.                    *)
Exact == <<add(2, <<1, 2, 3, 4>>), add(2, <<-1, -2, -3, -4>>), add(1, <<-1, 3, -4>>),
           add(1, <<2, -3>>)>>

(* Two of three twice over, and no two of them: no model.                    *)
Pairs == <<add(2, <<1, 2, 3>>), add(1, <<-1, -2>>), add(1, <<-1, -3, 4>>),
           add(2, <<-2, -3, -4>>), add(1, <<1, 4, 3>>)>>

(* Conflicts with few decisions, after which much is left to decide.         *)
Loose == <<add(1, <<1, 2, 3>>), add(1, <<1, 2, -3>>), add(2, <<1, 2, 3, 4>>)>>

(* Rows that give units, lower the degree of later rows or are satisfied,    *)
(* and clauses with duplicate and complementary literals.                    *)
Units == <<add(1, <<2, 2, -1>>), add(2, <<1, -3>>), add(3, <<-3, 4, 1, -2>>),
           add(1, <<4, -4>>), add(2, <<2, 4, -1>>)>>

Ask(rows) == rows \o <<limit("localsearch", 1), solve>>

(* The whole solve of a formula, by the walk or by the search.               *)
Plain == {Ask(<<limit("conflicts", 3)>> \o Exact), Ask(Pairs), Ask(Units),
          Loose \o <<solve>>}

(* A solve that stops at a limit and one that walks over what it learned,    *)
(* assumptions twice, a clause added between, a constraint and its failure.  *)
Incremental ==
  {Exact \o <<limit("conflicts", 1), solve, limit("localsearch", 2), assume(4), solve>>,
   Exact \o <<assume(-4), assume(2), solve, add(1, <<-1, 2>>), assume(3), assume(3), solve>>,
   Exact \o <<constraint(<<-2, -4, -2>>), assume(3), solve, assume(1), solve>>,
   Exact \o <<limit("decisions", 2), solve, limit("terminate", 1), assume(4), solve>>,
   Pairs \o <<assume(4), assume(1), solve>>,
   Units \o <<assume(-4), solve>>}

(* Assumptions 2 and 5 are not both possible, and neither fails alone.       *)
Assumed == {<<add(2, <<1, 2, 3, 4>>), add(1, <<-3, -2>>), add(1, <<-4, -2>>), add(1, <<-5, -1>>),
              assume(2), assume(5), solve>>}

Once(kinds) == [k \in kinds |-> 1]

Kinds == {Once({"reduce", "restart"}), Once({"reduce", "switch"}), Once({"rephase", "reduce"})}

Scenarios == Plain \cup Incremental

=============================================================================
