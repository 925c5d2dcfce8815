------------------------------ MODULE CardRows ------------------------------
(* Rows as the preprocessor holds them: literals are signed variables, a row *)
(* is a set of literals with a degree, an assignment gives 1 or -1 to every  *)
(* variable (0 while it is unknown).                                         *)
EXTENDS Integers, FiniteSets

VarOf(l) == IF l > 0 THEN l ELSE -l

pnsign(l) == IF l > 0 THEN 1 ELSE -1

Literals(n) == {l \in -n .. n : l # 0}

RowVars(r) == {VarOf(l) : l \in r.lits}

Size(r) == Cardinality(r.lits)

TrueLits(r, a) == {l \in r.lits : a[VarOf(l)] = pnsign(l)}

Holds(r, a) == Cardinality(TrueLits(r, a)) >= r.degree

Models(n, rows) == {a \in [1 .. n -> {-1, 1}] : \A r \in rows : Holds(r, a)}
=============================================================================
