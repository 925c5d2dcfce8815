------------------------------- MODULE Reader -------------------------------
(* readfile and read_file: from the words of a KNF file to rows with their   *)
(* degrees.  Comments, the header and white space carry nothing further; the *)
(* header's counts are those of the file.                                    *)
EXTENDS CardRows, Sequences

CONSTANTS num_vars, MaxStray,
          Texts     \* files as written: sequences of rows [native, degree, lits]

ASSUME ReaderAssumption ==
  /\ num_vars \in Nat /\ MaxStray \in Nat
  /\ Texts \subseteq Seq([native : BOOLEAN, degree : Nat, lits : Seq(Literals(num_vars))])

VARIABLES written,      \* the rows of the file, as their author wrote them
          words,        \* what is left to read
          clause,       \* the rows read, the one being read last
          degree,
          cardinality,  \* a k has been read, and its number not yet
          done

vars == <<written, words, clause, degree, cardinality, done>>

K == [is |-> "k", number |-> 0]
Number(n) == [is |-> "number", number |-> n]

(* The words of a row: k and the degree for a native row, the literals, 0. *)
RowWords(r) ==
  (IF r.native THEN <<K, Number(r.degree)>> ELSE <<>>)
  \o [j \in DOMAIN r.lits |-> Number(r.lits[j])] \o <<Number(0)>>

Words(rows) ==
  LET upto[i \in 0 .. Len(rows)] ==
        IF i = 0 THEN <<>> ELSE upto[i - 1] \o RowWords(rows[i])
  IN  upto[Len(rows)]

Init ==
  /\ written \in Texts
  /\ words = Words(written)
  /\ clause = << <<>> >>
  /\ degree = [i \in 1 .. Len(written) |-> 0]
  /\ cardinality = FALSE
  /\ done = FALSE

Reading == words # <<>> /\ words' = Tail(words) /\ UNCHANGED <<written, done>>

ReadK ==
  /\ Reading /\ Head(words).is = "k"
  /\ cardinality' = TRUE
  /\ UNCHANGED <<clause, degree>>

(* A 0 ends the row, whatever it was meant to be. *)
ReadZero ==
  /\ Reading /\ Head(words) = Number(0)
  /\ clause' = Append(clause, <<>>)
  /\ UNCHANGED <<degree, cardinality>>

(* Mutant: every number up to the end of the row is taken for the degree. *)
ReadDegreeAgain ==
  /\ Reading /\ Head(words).number # 0 /\ cardinality
  /\ degree' = [i \in DOMAIN degree |->
                  IF i = Len(clause) THEN Head(words).number ELSE degree[i]]
  /\ UNCHANGED <<clause, cardinality>>

ReadDegree ==
  /\ Reading /\ Head(words).number # 0 /\ cardinality
  /\ degree' = [i \in DOMAIN degree |->
                  IF i = Len(clause) THEN Head(words).number ELSE degree[i]]
  /\ cardinality' = FALSE
  /\ UNCHANGED clause

ReadLiteral ==
  /\ Reading /\ Head(words).number # 0 /\ ~cardinality
  /\ clause' = [clause EXCEPT ![Len(clause)] = Append(@, Head(words).number)]
  /\ UNCHANGED <<degree, cardinality>>

(* Rows end with the file, and a row that still has degree 0 is a clause.    *)
(* degree holds as many rows as the header announces; when a k 0 has made    *)
(* more of them, what is found beyond is any number (MaxStray bounds it).    *)
RaiseDegrees ==
  /\ words = <<>> /\ ~done
  /\ \E stray \in 0 .. MaxStray :
       degree' = [i \in 1 .. Len(clause) - 1 |->
                    LET d == IF i \in DOMAIN degree THEN degree[i] ELSE stray
                    IN  IF d = 0 THEN 1 ELSE d]
  /\ clause' = SubSeq(clause, 1, Len(clause) - 1)
  /\ done' = TRUE
  /\ UNCHANGED <<written, words, cardinality>>

Next == ReadK \/ ReadZero \/ ReadDegree \/ ReadLiteral \/ RaiseDegrees

Spec == Init /\ [][Next]_vars

-----------------------------------------------------------------------------
LitsOf(s) == {s[j] : j \in DOMAIN s}

Meant(r) == [lits |-> LitsOf(r.lits), degree |-> IF r.native THEN r.degree ELSE 1]

RowsRead == {[lits |-> LitsOf(clause[i]), degree |-> degree[i]] : i \in DOMAIN clause}

RowsMeant == {Meant(written[i]) : i \in DOMAIN written}

(* Row by row, what has been read is what was written: the rows before the   *)
(* last are complete, the last one is as far as the words go                 *)
(* (parse.cpp:55-86).                                                        *)
ReadAsWritten ==
  /\ Len(clause) <= Len(written) + 1
  /\ \A i \in 1 .. Len(clause) - 1 :
       /\ clause[i] = written[i].lits
       /\ degree[i] = IF written[i].native THEN written[i].degree ELSE IF done THEN 1 ELSE 0
  /\ done => Len(clause) = Len(written) /\ RowsRead = RowsMeant

(* "A row beginning with `k` requires at least `degree` of its literals to   *)
(* be true" (README.md:93): the rows read have the models of those written.  *)
DegreeAsWritten ==
  done => Models(num_vars, RowsRead) = Models(num_vars, RowsMeant)
=============================================================================
