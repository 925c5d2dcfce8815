------------------------------ MODULE MCReader ------------------------------
(* Small files for module Reader. *)
EXTENDS Reader

MCLits == {<<>>, <<1>>, <<-2, 1>>, <<1, 2, -1>>}

MCRows(degrees) ==
  [native : {TRUE}, degree : degrees, lits : MCLits] \cup
  [native : {FALSE}, degree : {1}, lits : MCLits]

MCUpTo(n, S) == UNION {[1 .. k -> S] : k \in 0 .. n}

(* Native rows with a degree, and clauses. *)
MCPositive == MCUpTo(3, MCRows(1 .. 2))

(* Native rows of degree 0 too. *)
MCZero ==
  MCUpTo(2, {r \in MCRows(0 .. 1) : r.lits # <<>>})
=============================================================================
