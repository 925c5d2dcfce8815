---------------------------- MODULE Preprocessor ----------------------------
(* The fields of struct Preprocessor that its passes share, and the          *)
(* compaction and renumbering each pass ends with.  A row is a set of        *)
(* literals: propagation.cpp:61 drops repeated ones before anything is       *)
(* counted.  The occurrence lists, their counters and in_cardinality are     *)
(* read off the rows.                                                        *)
EXTENDS CardRows, Sequences

CONSTANTS orivars,   \* variables of the file
          Formulas   \* the formulas a file may hold: sequences of rows

(* read_file raises a degree of 0 to 1. *)
ASSUME PreprocessorAssumption ==
  /\ orivars \in Nat
  /\ Formulas \subseteq Seq([lits : SUBSET Literals(orivars), degree : Nat \ {0}])

VARIABLES pc,             \* the running pass, "ready" or "unsat"
          input,          \* the rows of the file
          vars, clause,   \* the rows as they stand, over 1 .. vars
          clause_delete,  \* the rows no longer active
          varval,         \* values found by a pass, under its numbering
          mapto, mapval,  \* of each original variable: literal now, or value
          mapfrom,        \* of each variable: its original
          next            \* counter of the running pass's outer loop

shared == <<input, vars, clause, clause_delete, mapto, mapval, mapfrom>>

InputRows == {input[i] : i \in DOMAIN input}

Active == DOMAIN clause \ clause_delete

ActiveRows == {clause[i] : i \in Active}

-----------------------------------------------------------------------------
(* update_var_clause_label: variables that occur in the rows kept are        *)
(* numbered anew in their order (color), and the rows kept close ranks.      *)

Used(rows) == UNION {RowVars(r) : r \in rows}

color(rows, n) ==
  [v \in 1 .. n |->
     IF v \in Used(rows) THEN Cardinality(Used(rows) \cap 1 .. v) ELSE 0]

Recolor(r, c) == [r EXCEPT !.lits = {c[VarOf(l)] * pnsign(l) : l \in r.lits}]

UpdateVarClauseLabel ==
  LET c == color(ActiveRows, vars)
      kth(k) == CHOOSE i \in Active : Cardinality(Active \cap 1 .. i) = k
  IN  /\ clause' = [k \in 1 .. Cardinality(Active) |-> Recolor(clause[kth(k)], c)]
      /\ vars' = Cardinality(Used(ActiveRows))
      /\ clause_delete' = {}

Unassigned(n) == [v \in 1 .. n |-> 0]
=============================================================================
