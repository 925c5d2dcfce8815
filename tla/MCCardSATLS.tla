---------------------------- MODULE MCCardSATLS ----------------------------
(* Small formulas for CardSATLS. *)
EXTENDS CardSATLS

\* Three of five, sharing three and four variables with two more cardinality
\* rows, and two clauses: rows long enough for a probe of three positions.
SwapLits == << <<1, 2, 3, -4, 5>>, <<-1, -2, 4, -5>>, <<-3, 1, 2>>, <<4, -1>>, <<-5, 3>> >>
SwapThres == <<3, 2, 2, 1, 1>>

\* One row more than variables, where the average of settings() divides by zero:
\* a cardinality row, two clauses and a degree above the length of its row, which
\* the preprocessor refuses and a run without preprocessing lets through.
RestartLits == << <<1, 2, 3>>, <<-1, -2>>, <<1, -2>>, <<-1, -3>> >>
RestartThres == <<2, 1, 3, 1>>

BothSides == {TRUE, FALSE}
=============================================================================
