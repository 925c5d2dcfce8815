------------------------------ MODULE CdclAdd -------------------------------
(* Clauses and rows enter the database at the root (clause.cpp), and what    *)
(* the clauses and rows in it mean.                                          *)
EXTENDS CdclCollect

learn_empty_clause(s) == [s EXCEPT !.unsat = TRUE]

(* What propagation at the root ended with. *)
OrEmpty(s) == IF s.conflict # 0 THEN learn_empty_clause(s) ELSE s

(* A unit is propagated at once. *)
assign_original_unit(s, l) == OrEmpty(CARpropagate(search_assign(s, l, UnitReason)))

(* Units of one row: an earlier one may have decided a later one. *)
AssignUnits(s, lits) ==
  FoldLeft(LAMBDA t, l : IF t.unsat \/ IsTrue(t, l) THEN t
                         ELSE IF IsFalse(t, l) THEN learn_empty_clause(t)
                         ELSE assign_original_unit(t, l),
           s, lits)

Unvalued(s, lits) == SelectSeq(lits, LAMBDA l : VarOf(l) \in Unassigned(s))

(* The first occurrences. *)
Distinct(lits) ==
  FoldLeft(LAMBDA kept, l : IF l \in Range(kept) THEN kept ELSE Append(kept, l), <<>>, lits)

WithWatchedClause(s, lits) ==
  watch_clause(WithClause(s, FreshClause(s), Clause(lits, FALSE)), FreshClause(s))

WithWatchedRow(s, lits, degree, guard) ==
  CARwatch_guard(CARwatch_clause(WithClause(s, FreshClause(s), CARrow(lits, degree, guard)),
                                 FreshClause(s)), FreshClause(s))

(* A clause: duplicates and false literals go, a true literal or two         *)
(* complementary ones satisfy it.                                            *)
add_new_original_clause(s, lits) ==
  LET left == Distinct(Unvalued(s, lits))
  IN  IF s.unsat \/ \E l \in Range(lits) : IsTrue(s, l) \/ -l \in Range(lits) THEN s
      ELSE CASE left = <<>> -> learn_empty_clause(s)
             [] Len(left) = 1 -> assign_original_unit(s, left[1])
             [] Len(left) > 1 -> WithWatchedClause(s, left)

(* A row: true literals lower the degree, false ones go. A row that needs    *)
(* all that is left gives units, one that asks for one becomes a clause.     *)
CARadd_new_original_clause(s, lits, asked, guard) ==
  LET left == Unvalued(s, lits)
      degree == asked - Cardinality({l \in Range(lits) : IsTrue(s, l)})
      holds == guard = 0 \/ IsFalse(s, guard)
  IN  IF s.unsat \/ degree <= 0 \/ IsTrue(s, guard) THEN s
      ELSE CASE degree > Len(left) /\ holds -> learn_empty_clause(s)
             [] degree > Len(left) /\ ~holds -> assign_original_unit(s, guard)
             [] degree = Len(left) /\ holds -> AssignUnits(s, left)
             [] degree = 1 /\ 1 < Len(left) /\ holds -> WithWatchedClause(s, left)
             [] OTHER -> WithWatchedRow(s, left, degree, guard)

CARadd_original_lit(s, call) ==
  IF call.degree = 1 /\ call.guard = 0 THEN add_new_original_clause(s, call.lits)
  ELSE CARadd_new_original_clause(s, call.lits, call.degree, call.guard)

-----------------------------------------------------------------------------
(* Models. *)

(* Mutant: the walk is not given the rows. *)
GivenClauses(s) ==
  {s.clauses[n] : n \in {m \in DOMAIN s.clauses :
     ~s.clauses[m].garbage /\ ~s.clauses[m].redundant /\ ~s.clauses[m].native}}

(* Clauses and rows the walk is given: irredundant ones. *)
Given(s) == {s.clauses[n] : n \in {m \in DOMAIN s.clauses : /\ ~s.clauses[m].garbage
                                                            /\ ~s.clauses[m].redundant}}

(* The literals of c that M makes true reach what c asks for. *)
Meets(M, c) == Cardinality(LitSet(c) \cap M) >= CARbound(c)

Assignments(V) == {{IF v \in pos THEN v ELSE -v : v \in V} : pos \in SUBSET V}

(* A row as the client gave it holds. *)
Satisfies(M, row) == Cardinality(row.lits \cap M) >= row.degree \/ row.guard \in M
=============================================================================
