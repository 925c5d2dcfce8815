----------------------------- MODULE MCProgram ------------------------------
(* Small formulas for the whole program: rows that share two variables, with *)
(* cardinality rows, and clauses that pass all three passes.                 *)
EXTENDS Program

MCRowSet == {r \in [lits : SUBSET Literals(3), degree : 1 .. 2] :
               /\ Cardinality(r.lits) \in 2 .. 3
               /\ r.degree <= Cardinality(r.lits)
               /\ Cardinality(RowVars(r)) = Cardinality(r.lits)}

MCClauses(s) == [i \in DOMAIN s |-> [lits |-> s[i], degree |-> 1]]

MCBase == MCClauses(<< {1, 3}, {2, 3}, {-1, -2, 3}, {1, 2}, {-1, -2}, {1, 2, -3}, {-1, 2, -3} >>)

MCTriples ==
  {<<r, s, t>> : r \in {x \in MCRowSet : \A l \in x.lits : l > 0},
                 s \in {x \in MCRowSet : -1 \in x.lits},
                 t \in {x \in MCRowSet : Cardinality(x.lits) = 3}}

MCFiles == MCTriples \cup {[MCBase EXCEPT ![i] = r] : i \in DOMAIN MCBase, r \in MCRowSet}
=============================================================================
