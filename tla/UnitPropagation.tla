-------------------------- MODULE UnitPropagation ---------------------------
(* preprocess_up: the rows are read in one by one, complementary pairs are   *)
(* cancelled, and rows that need all their literals force them; then rounds  *)
(* of simplification follow until no assignment is pending.                  *)
EXTENDS Preprocessor

VARIABLES pending,   \* assigned variables in the queue, not yet propagated
          touched    \* rows still to simplify in this round

upVars == <<pending, touched>>

(* Mutant: a complementary pair leaves the row, the degree stays. *)
LoadedKeepingDegree(r) == [r EXCEPT !.lits = {l \in r.lits : -l \notin r.lits}]

(* One literal of each complementary pair is true whatever is assigned. *)
Loaded(r) ==
  [lits   |-> {l \in r.lits : -l \notin r.lits},
   degree |-> r.degree - Cardinality({l \in r.lits : l > 0 /\ -l \in r.lits})]

(* What is left of a row once the assigned literals are taken out of it. *)
Residue(r) ==
  [lits   |-> {l \in r.lits : varval[VarOf(l)] = 0},
   degree |-> r.degree - Cardinality(TrueLits(r, varval))]

(* Literals of the row that become true: all of them. *)
Forced(r) ==
  [v \in 1 .. vars |->
     IF v \in r.lits THEN 1 ELSE IF -v \in r.lits THEN -1 ELSE varval[v]]

Satisfied(s) == s.degree <= 0

(* simplify_clause on row i, whose literals and degree are r. *)
SimplifyClause(i, r) ==
  LET s == Residue(r)
      forced == ~Satisfied(s) /\ s.degree = Size(s)
  IN  /\ clause' = [clause EXCEPT ![i] = IF Satisfied(s) THEN [lits |-> {}, degree |-> 0] ELSE s]
      /\ clause_delete' =
           IF Satisfied(s) \/ forced THEN clause_delete \cup {i} ELSE clause_delete
      /\ varval' = IF forced THEN Forced(s) ELSE varval
      /\ pending' = IF forced THEN pending \cup RowVars(s) ELSE pending
      /\ pc' = IF s.degree > Size(s) THEN "unsat" ELSE pc

(* The first loop of preprocess_up, for the next row. *)
LoadRow ==
  /\ pc = "up" /\ next <= Len(input)
  /\ SimplifyClause(next, Loaded(input[next]))
  /\ next' = next + 1
  /\ UNCHANGED <<input, vars, mapto, mapval, mapfrom, touched>>

RowsRead == pc = "up" /\ next > Len(input)

(* The active rows that held v when the occurrence lists were built. *)
Occurring(v) == {i \in Active : v \in RowVars(Loaded(input[i]))}

(* Mutant: the queue is read again from its start in every round. *)
StartRoundKeepingQueue ==
  /\ RowsRead /\ touched = {} /\ pending # {}
  /\ touched' = UNION {Occurring(v) : v \in pending}
  /\ UNCHANGED <<shared, pc, varval, next, pending>>

(* A round takes the whole queue and collects the rows of its variables. *)
StartRound ==
  /\ RowsRead /\ touched = {} /\ pending # {}
  /\ touched' = UNION {Occurring(v) : v \in pending}
  /\ pending' = {}
  /\ UNCHANGED <<shared, pc, varval, next>>

SimplifyTouched ==
  /\ RowsRead
  /\ \E i \in touched :
       /\ SimplifyClause(i, clause[i])
       /\ touched' = touched \ {i}
  /\ UNCHANGED <<input, vars, mapto, mapval, mapfrom, next>>

(* The queue is empty: renumber, and settle every variable that is left out. *)
(* A variable that no row needs any more gets the value 1.                   *)
FinishPropagation ==
  /\ RowsRead /\ touched = {} /\ pending = {}
  /\ UpdateVarClauseLabel
  /\ LET c == color(ActiveRows, vars)
     IN  /\ mapto' = c
         /\ mapval' = [v \in 1 .. orivars |->
                         IF varval[v] # 0 THEN varval[v]
                         ELSE IF c[v] = 0 THEN 1 ELSE mapval[v]]
         /\ mapfrom' = [k \in 1 .. vars' |-> CHOOSE v \in 1 .. orivars : c[v] = k]
  /\ pc' = "eliminate"
  /\ next' = 1
  /\ varval' = Unassigned(vars')
  /\ UNCHANGED <<input, upVars>>
=============================================================================
