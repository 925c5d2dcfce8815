------------------------------- MODULE Binary -------------------------------
(* preprocess_binary: pairs of two-literal clauses over the same variables   *)
(* give equivalences and fixed values; they are merged into classes, each    *)
(* with a root, and the other clauses are rewritten over the roots, turn     *)
(* after turn.  rep gives the signed root that find(v) and val[v] give, and  *)
(* varval the value of a fixed root: the parent array f and its path         *)
(* compression are one way to hold rep.                                      *)
EXTENDS Preprocessor

CONSTANTS MaximumTurns, MaximumClauses, MaximumClauseRounds

VARIABLES rep, turn, turn_changed, any_changed

binVars == <<rep, turn, turn_changed, any_changed>>

Roots(n) == [v \in 1 .. n |-> v]

(* Variables of native cardinality rows, which no action may touch. *)
in_cardinality == UNION {RowVars(r) : r \in {s \in ActiveRows : s.degree > 1}}

Binaries == {i \in Active : clause[i].degree = 1 /\ Size(clause[i]) = 2}

(* Two binary clauses over the same variables that are not the same clause. *)
Witnesses ==
  {p \in Binaries \X Binaries :
     /\ RowVars(clause[p[1]]) = RowVars(clause[p[2]])
     /\ clause[p[1]].lits # clause[p[2]].lits}

Common(p) == clause[p[1]].lits \cap clause[p[2]].lits

(* The two variables of a pair with no literal in common are equal when each *)
(* row has one of them negated, and opposite otherwise.                      *)
Relation(p) ==
  IF \E v \in RowVars(clause[p[1]]) : {v} = {l \in clause[p[1]].lits : l > 0} THEN 1 ELSE -1

(* What such a pair says: with no literal in common the two variables are    *)
(* tied to each other, otherwise the common literal is true.                 *)
Action(p) ==
  LET vs == RowVars(clause[p[1]])
      a == CHOOSE v \in vs : \A w \in vs : v <= w
      b == CHOOSE v \in vs : \A w \in vs : w <= v
      l == CHOOSE x \in Common(p) : TRUE
  IN  IF Common(p) = {}
      THEN [first |-> a, second |-> b, value |-> Relation(p)]
      ELSE [first |-> VarOf(l), second |-> 0, value |-> pnsign(l)]

(* Mutant: the native rows are not looked at. *)
IsSafeAlways(x) == TRUE

IsSafe(x) == {x.first, x.second} \cap in_cardinality = {}

Recorded == {p \in Witnesses : IsSafe(Action(p))}

(* action_less: relations before fixed values, then by variable. *)
ActionLess(x, y) ==
  \/ x.second # 0 /\ y.second = 0
  \/ /\ (x.second = 0) = (y.second = 0)
     /\ \/ x.first < y.first
        \/ x.first = y.first /\ x.second < y.second
        \/ x.first = y.first /\ x.second = y.second /\ x.value < y.value

-----------------------------------------------------------------------------
(* The classes: a record of rep, the values of roots, whether a call         *)
(* contradicted them and whether one changed them.                           *)

Root(u, v) == VarOf(u.rep[v])

Class(u, v) == {w \in DOMAIN u.rep : Root(u, w) = Root(u, v)}

AssignValue(u, v, wanted) ==
  LET root == Root(u, v)
      value == wanted * pnsign(u.rep[v])
  IN  IF u.varval[root] = 0
      THEN [u EXCEPT !.varval[root] = value, !.changed = TRUE]
      ELSE [u EXCEPT !.consistent = u.consistent /\ u.varval[root] = value]

Unite(u, first, second, relation) ==
  LET edge == relation * pnsign(u.rep[first]) * pnsign(u.rep[second])
      a == Root(u, first)
      b == Root(u, second)
      smaller == Cardinality(Class(u, a)) <= Cardinality(Class(u, b))
      child == IF smaller THEN a ELSE b
      parent == IF smaller THEN b ELSE a
      value == IF u.varval[parent] # 0 THEN u.varval[parent] ELSE edge * u.varval[child]
  IN  IF a = b
      THEN [u EXCEPT !.consistent = u.consistent /\ edge = 1]
      ELSE [rep |-> [v \in DOMAIN u.rep |->
                       IF Root(u, v) = child THEN pnsign(u.rep[v]) * edge * parent
                       ELSE u.rep[v]],
            varval |-> [u.varval EXCEPT ![parent] = value, ![child] = 0],
            consistent |-> /\ u.consistent
                           /\ \/ u.varval[a] * u.varval[b] = 0
                              \/ u.varval[a] = edge * u.varval[b],
            changed |-> TRUE]

Apply(u, x) ==
  IF x.second = 0 THEN AssignValue(u, x.first, x.value)
  ELSE Unite(u, x.first, x.second, x.value)

(* What the recorded actions make of the classes, applied in their order:    *)
(* a set with one element.                                                   *)
Merged ==
  LET acts == {Action(p) : p \in Recorded}
      rank(x) == Cardinality({y \in acts : ActionLess(y, x)})
      after[k \in 0 .. Cardinality(acts)] ==
        IF k = 0
        THEN {[rep |-> rep, varval |-> varval, consistent |-> TRUE, changed |-> FALSE]}
        ELSE {Apply(u, x) : u \in after[k - 1], x \in {y \in acts : rank(y) = k - 1}}
  IN  after[Cardinality(acts)]

-----------------------------------------------------------------------------
(* Rewriting a clause over the roots. *)

RootLit(u, l) == pnsign(l) * u.rep[VarOf(l)]

RootValue(u, l) == pnsign(RootLit(u, l)) * u.varval[VarOf(RootLit(u, l))]

Rewritten(u, r) ==
  [r EXCEPT !.lits = {RootLit(u, l) : l \in {k \in r.lits : RootValue(u, k) = 0}}]

Gone(u, r) ==
  \/ \E l \in r.lits : RootValue(u, l) = 1
  \/ \E l \in Rewritten(u, r).lits : -l \in Rewritten(u, r).lits

TurnsLeft ==
  /\ turn < MaximumTurns
  /\ (turn + 1) * Len(clause) <= MaximumClauseRounds

More == turn = 0 \/ turn_changed

BinaryTurn ==
  /\ pc = "binary" /\ Len(clause) <= MaximumClauses /\ More /\ TurnsLeft
  /\ \E u \in Merged :
     LET witnessed == {p[1] : p \in Recorded}
         rows == {i \in Active \ witnessed : clause[i].degree <= 1}
         gone == {i \in rows : Gone(u, clause[i])}
         new == [i \in DOMAIN clause |->
                   IF i \in rows \ gone THEN Rewritten(u, clause[i]) ELSE clause[i]]
         consistent == u.consistent /\ \A i \in rows \ gone : new[i].lits # {}
     IN  /\ pc' = IF consistent THEN pc ELSE "unsat"
         /\ rep' = u.rep
         /\ varval' = u.varval
         /\ clause' = new
         /\ clause_delete' = clause_delete \cup witnessed \cup gone
         /\ turn_changed' = (u.changed \/ witnessed \cup gone # {} \/ new # clause)
         /\ any_changed' = (any_changed \/ turn_changed')
  /\ turn' = turn + 1
  /\ UNCHANGED <<input, vars, mapto, mapval, mapfrom, next>>

BinaryDone == pc = "binary" /\ (Len(clause) > MaximumClauses \/ ~More \/ ~TurnsLeft)

LeaveBinary ==
  /\ BinaryDone /\ ~any_changed
  /\ pc' = "ready"
  /\ UNCHANGED <<shared, varval, next, binVars>>

(* Every original variable follows its root: to a value, to the root's new   *)
(* number, or, when no row is left that names the root, to the root being 1. *)
FinishBinary ==
  /\ BinaryDone /\ any_changed
  /\ UpdateVarClauseLabel
  /\ LET c == color(ActiveRows, vars)
         u == [rep |-> rep, varval |-> varval]
         lit(o) == RootLit(u, mapto[o])
         value(o) == RootValue(u, mapto[o])
         label(o) == IF mapto[o] = 0 \/ value(o) # 0 THEN 0
                     ELSE pnsign(lit(o)) * c[VarOf(lit(o))]
     IN  /\ mapto' = [o \in 1 .. orivars |-> label(o)]
         /\ mapval' = [o \in 1 .. orivars |->
                         IF mapto[o] = 0 THEN mapval[o]
                         ELSE IF value(o) # 0 THEN value(o)
                         ELSE IF label(o) # 0 THEN 0 ELSE pnsign(lit(o))]
  /\ rep' = Roots(vars')
  /\ varval' = Unassigned(vars')
  /\ pc' = "ready"
  /\ UNCHANGED <<input, mapfrom, next, turn, turn_changed, any_changed>>
=============================================================================
