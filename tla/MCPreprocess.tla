---------------------------- MODULE MCPreprocess ----------------------------
(* Families of small formulas for module Preprocess. *)
EXTENDS Preprocess

LOCAL INSTANCE FiniteSetsExt

(* Rows over n variables with a size and a degree from the given sets. *)
MCRows(n, sizes, degrees) ==
  {r \in [lits : SUBSET Literals(n), degree : degrees] : Size(r) \in sizes}

(* ... in which no literal meets its complement. *)
MCPlain(n, sizes, degrees) ==
  {r \in MCRows(n, sizes, degrees) : \A l \in r.lits : -l \notin r.lits}

(* A number for each row, by which formulas of three rows are ordered. *)
MCKey(r) == 1024 * r.degree + MapThenSumSet(LAMBDA l : 2^(l + 4), r.lits)

MCTriples(S) ==
  LET key == [r \in S |-> MCKey(r)]
  IN  {t \in S \X S \X S : key[t[1]] <= key[t[2]] /\ key[t[2]] <= key[t[3]]}

MCPairs(S, T) == {<<r, t>> : r \in S, t \in T}

MCAppend(F, S) == {Append(f, r) : f \in F, r \in S}

(* Complementary pairs, degrees beyond the size, empty rows, forced rows. *)
MCPropagationFormulas ==
  MCPairs(MCRows(3, 0 .. 4, 1 .. 3), MCRows(3, 0 .. 3, 1 .. 2)) \cup
  MCTriples(MCRows(2, 1 .. 3, 1 .. 2))

(* All formulas of three rows over three variables, degrees 1 and 2. *)
MCThreeVariables == MCTriples(MCPlain(3, 2 .. 3, 1 .. 2))

(* Four variables: clauses and cardinality rows with literals to spare. *)
MCFourVariables ==
  LET spare == {r \in MCPlain(4, 2 .. 3, 1 .. 2) : r.degree < Size(r)}
      with(l) == {r \in spare : l \in r.lits}
  IN  MCAppend(MCPairs({r \in spare : \A l \in r.lits : l > 0}, with(-1)), with(-2))

MCClauses(s) == [i \in DOMAIN s |-> [lits |-> s[i], degree |-> 1]]

(* Clauses in which one equivalence or fixed value leads to the next, for    *)
(* two and three turns of rewriting, ...                                     *)
MCCascade3 == MCClauses(<< {1, 3}, {2, 3}, {-1, -2, 3}, {1, 2}, {-1, -2}, {1, 2, -3}, {-1, 2, -3} >>)
MCCascade4 == MCClauses(<< {1, -4}, {-1, 2, -3}, {-1, -2, -3}, {1, 3, 4}, {2, 4},
                           {-2, -3, -4}, {2, -4}, {-1, 3} >>)
MCCascade5 == MCClauses(<< {2, -3, -4}, {1, 2}, {3, 4}, {1, 3}, {-2, -3, 4},
                           {1, -3, 4}, {-1, 2, -4}, {1, -4}, {-1, -2} >>)

(* ... with one row exchanged for any other. *)
MCExchanged(f, S) == {[f EXCEPT ![i] = r] : i \in DOMAIN f, r \in S}

MCCascades ==
  MCExchanged(MCCascade3, MCPlain(3, 1 .. 3, 1 .. 2)) \cup
  MCExchanged(MCCascade4, MCPlain(4, 2 .. 3, 1 .. 2)) \cup
  MCExchanged(MCCascade5, MCPlain(4, 2 .. 3, 1 .. 2))

(* Five variables: two rows of three literals that share one variable, where *)
(* whether a native row may be resolved depends on the other, and any third. *)
MCFiveVariables ==
  MCAppend(MCPairs([lits : {{1, 2, 3}}, degree : 1 .. 2], [lits : {{-1, 4, 5}}, degree : 1 .. 2]),
           {r \in MCPlain(5, 2 .. 3, 1 .. 2) : r.degree < Size(r)})

MCFormulas ==
  MCPropagationFormulas \cup MCThreeVariables \cup MCFourVariables \cup MCFiveVariables
  \cup MCCascades
=============================================================================
