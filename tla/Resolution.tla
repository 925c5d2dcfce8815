----------------------------- MODULE Resolution -----------------------------
(* preprocess_resolution: every variable is tried once for elimination, its  *)
(* rows giving way to their resolvents, and then variables left with one     *)
(* sign are fixed until none is.  The rows removed by an elimination are     *)
(* stored, under original names, for the recovery of a model.                *)
EXTENDS Preprocessor

VARIABLES res_clause,   \* stored rows, each with its owner
          resolution,   \* eliminated variables in order, under their new names
          clean,        \* variables that are dealt with
          pure_queue,   \* candidates for a pure value
          changed

resVars == <<res_clause, resolution, clean, pure_queue, changed>>

HasLit(l) == {i \in Active : l \in clause[i].lits}

IsClause(i) == clause[i].degree = 1

(* All but one literal of such a row must be true. *)
TightTail(i) == clause[i].degree >= Size(clause[i]) - 1

FewResolvents(v) ==
  LET p == Cardinality(HasLit(v))
      n == Cardinality(HasLit(-v))
  IN  p # 0 /\ n # 0 /\ p * n <= p + n

(* Mutant: only the rows with v are looked at. *)
ResidualsImpliedOneWay(v) ==
  (\A i \in HasLit(v) : IsClause(i)) \/ (\E j \in HasLit(-v) : TightTail(j))

(* Each parent without its literal of v must follow from the resolvents. *)
ResidualsImplied(v) ==
  /\ (\A i \in HasLit(v) : IsClause(i)) \/ (\E j \in HasLit(-v) : TightTail(j))
  /\ (\A j \in HasLit(-v) : IsClause(j)) \/ (\E i \in HasLit(v) : TightTail(i))

(* build_resolvent, for a row with v and a row with -v. *)
Resolvent(v, i, j) ==
  [lits   |-> (clause[i].lits \ {v}) \cup (clause[j].lits \ {-v}),
   degree |-> clause[i].degree + clause[j].degree - 1]

TwoClauses(i, j) == IsClause(i) /\ IsClause(j)

(* Return value 0: the two rows share a variable, and are not two clauses. *)
Blocked(v, i, j) ==
  /\ ~TwoClauses(i, j)
  /\ (RowVars(clause[i]) \cap RowVars(clause[j])) \ {v} # {}

(* Return value 2: a tautology. *)
Vacuous(v, i, j) ==
  LET r == Resolvent(v, i, j)
  IN  TwoClauses(i, j) /\ \E l \in r.lits : -l \in r.lits

(* Mutant: a resolvent that needs all its literals is refused too. *)
ImpossibleAtSize(v, i, j) ==
  LET r == Resolvent(v, i, j)
  IN  ~Blocked(v, i, j) /\ ~Vacuous(v, i, j) /\ r.degree >= Size(r)

(* Return value -1: not enough literals are left. *)
Impossible(v, i, j) ==
  LET r == Resolvent(v, i, j)
  IN  ~Blocked(v, i, j) /\ ~Vacuous(v, i, j) /\ r.degree > Size(r)

Parents(v) == HasLit(v) \X HasLit(-v)

(* The order in which the pairs of parents are resolved. *)
Before(p, s) == p[1] < s[1] \/ (p[1] = s[1] /\ p[2] < s[2])

(* The first pair that is blocked or impossible decides. *)
Decisive(v) == {p \in Parents(v) : Blocked(v, p[1], p[2]) \/ Impossible(v, p[1], p[2])}

FirstDecisive(v) == CHOOSE p \in Decisive(v) : \A s \in Decisive(v) : ~Before(s, p)

Refuted(v) ==
  Decisive(v) # {} /\ Impossible(v, FirstDecisive(v)[1], FirstDecisive(v)[2])

(* The elements of a finite set in the order R. *)
InOrder(S, R(_, _)) ==
  [k \in 1 .. Cardinality(S) |->
     CHOOSE x \in S : Cardinality({y \in S : R(y, x)}) = k - 1]

Resolvents(v) ==
  LET kept == {p \in Parents(v) : ~Vacuous(v, p[1], p[2])}
      ps == InOrder(kept, Before)
  IN  [k \in DOMAIN ps |-> Resolvent(v, ps[k][1], ps[k][2])]

Smaller(a, b) == a < b

(* store_recovery_clause for all rows of v, those with v first. *)
Stored(v) ==
  LET ids == InOrder(HasLit(v), Smaller) \o InOrder(HasLit(-v), Smaller)
  IN  [k \in DOMAIN ids |->
         [row |-> Recolor(clause[ids[k]], mapfrom), owner |-> mapfrom[v]]]

-----------------------------------------------------------------------------
(* One iteration of the loop over the variables: next is the variable. *)

Trying(v) == pc = "eliminate" /\ next = v /\ v <= vars

Eligible(v) == FewResolvents(v) /\ ResidualsImplied(v)

KeepVariable ==
  /\ Trying(next)
  /\ ~Eligible(next) \/ (Decisive(next) # {} /\ ~Refuted(next))
  /\ next' = next + 1
  /\ UNCHANGED <<shared, pc, varval, resVars>>

RefuteByResolution ==
  /\ Trying(next) /\ Eligible(next) /\ Refuted(next)
  /\ pc' = "unsat"
  /\ UNCHANGED <<shared, varval, next, resVars>>

(* Mutant: no variable is looked at again. *)
FreedNone(rows) == {}

(* Variables whose counters drop when the rows go, and which may become pure. *)
Freed(rows) == (UNION {RowVars(clause[i]) : i \in rows}) \ clean

EliminateVariable ==
  /\ Trying(next) /\ Eligible(next) /\ Decisive(next) = {}
  /\ LET gone == HasLit(next) \cup HasLit(-next)
     IN  /\ res_clause' = res_clause \o Stored(next)
         /\ clause' = clause \o Resolvents(next)
         /\ clause_delete' = clause_delete \cup gone
         /\ pure_queue' = pure_queue \cup Freed(gone)
  /\ resolution' = Append(resolution, next)
  /\ clean' = clean \cup {next}
  /\ changed' = TRUE
  /\ next' = next + 1
  /\ UNCHANGED <<input, vars, mapto, mapval, mapfrom, pc, varval>>

OneSided(v) == HasLit(v) = {} \/ HasLit(-v) = {}

StartPure ==
  /\ pc = "eliminate" /\ next > vars
  /\ pure_queue' = pure_queue \cup {v \in 1 .. vars \ clean : OneSided(v)}
  /\ pc' = "pure"
  /\ UNCHANGED <<shared, varval, next, res_clause, resolution, clean, changed>>

(* A candidate that is dealt with, or has both signs again. *)
DropCandidate ==
  /\ pc = "pure"
  /\ \E v \in pure_queue :
       /\ v \in clean \/ ~OneSided(v)
       /\ pure_queue' = pure_queue \ {v}
  /\ UNCHANGED <<shared, pc, varval, next, res_clause, resolution, clean, changed>>

DropUnused ==
  /\ pc = "pure"
  /\ \E v \in pure_queue \ clean :
       /\ HasLit(v) = {} /\ HasLit(-v) = {}
       /\ pure_queue' = pure_queue \ {v}
       /\ clean' = clean \cup {v}
  /\ UNCHANGED <<shared, pc, varval, next, res_clause, resolution, changed>>

(* simplify_pure_clause on every row that holds the pure literal. *)
AssignPure ==
  /\ pc = "pure"
  /\ \E v \in pure_queue \ clean :
       LET val == IF HasLit(v) # {} THEN 1 ELSE -1
           rows == HasLit(v * val)
           less(i) == [lits |-> clause[i].lits \ {v * val}, degree |-> clause[i].degree - 1]
           done == {i \in rows : less(i).degree = 0}
       IN  /\ OneSided(v) /\ rows # {}
           /\ mapval' = [mapval EXCEPT ![mapfrom[v]] = val]
           /\ mapto' = [mapto EXCEPT ![mapfrom[v]] = 0]
           /\ clean' = clean \cup {v}
           /\ clause' = [i \in DOMAIN clause |->
                           IF i \in done THEN [lits |-> {}, degree |-> 0]
                           ELSE IF i \in rows THEN less(i) ELSE clause[i]]
           /\ clause_delete' = clause_delete \cup done
           /\ pure_queue' = (pure_queue \cup Freed(done)) \ {v}
           /\ pc' = IF \E i \in rows : less(i).degree > Size(less(i)) THEN "unsat" ELSE pc
  /\ changed' = TRUE
  /\ UNCHANGED <<input, vars, mapfrom, varval, next, res_clause, resolution>>

PureDone == pc = "pure" /\ pure_queue = {}

FinishUnchanged ==
  /\ PureDone /\ ~changed
  /\ pc' = "binary"
  /\ UNCHANGED <<shared, varval, next, resVars>>

(* Eliminated variables are marked for the recovery, and every original      *)
(* variable that no row names any more gets the value 1.                     *)
FinishResolution ==
  /\ PureDone /\ changed
  /\ UpdateVarClauseLabel
  /\ LET c == color(ActiveRows, vars)
         gone == {mapfrom[resolution[k]] : k \in DOMAIN resolution}
         label(o) == IF mapto[o] = 0 \/ o \in gone THEN 0 ELSE c[mapto[o]]
         value(o) == IF o \in gone THEN -10 ELSE mapval[o]
     IN  /\ mapto' = [o \in 1 .. orivars |-> label(o)]
         /\ mapval' = [o \in 1 .. orivars |->
                         IF label(o) = 0 /\ value(o) = 0 THEN 1 ELSE value(o)]
         /\ resolution' = [k \in DOMAIN resolution |-> mapfrom[resolution[k]]]
  /\ clean' = {}
  /\ varval' = Unassigned(vars')
  /\ pc' = "binary"
  /\ UNCHANGED <<input, mapfrom, next, res_clause, pure_queue, changed>>

-----------------------------------------------------------------------------
(* get_complete_model: eliminated variables get values in the reverse order  *)
(* of their elimination, each from the rows stored for it, which are the     *)
(* last ones not used yet.                                                   *)

(* The stored rows of owner v that end at row last. *)
Group(stored, v, last) ==
  {c \in 1 .. last : \A d \in c .. last : stored[d].owner = v}

SatisfiedWith(stored, group, m, v, val) ==
  \A c \in group : Holds(stored[c].row, [m EXCEPT ![v] = val])

(* One iteration, from r = the values so far, the last unused row, and       *)
(* whether every variable so far found a value.                              *)
RecoverOne(stored, r, v) ==
  LET group == Group(stored, v, r.last)
      fits(val) == SatisfiedWith(stored, group, r.values, v, val)
  IN  [values |-> IF fits(1) THEN [r.values EXCEPT ![v] = 1]
                  ELSE IF fits(-1) THEN [r.values EXCEPT ![v] = -1] ELSE r.values,
       last |-> r.last - Cardinality(group),
       ok |-> r.ok /\ group # {} /\ (fits(1) \/ fits(-1))]

(* All eliminated variables, last one first. *)
Recovered(stored, order, m) ==
  LET n == Len(order)
      after[k \in 0 .. n] ==
        IF k = 0 THEN [values |-> m, last |-> Len(stored), ok |-> TRUE]
        ELSE RecoverOne(stored, after[k - 1], order[n + 1 - k])
  IN  after[n]

(* What get_complete_model makes of m, and whether it returns true.  A value *)
(* other than -1, 0 and 1 marks an eliminated variable.                      *)
GetCompleteModel(stored, order, m) ==
  LET marked == {v \in DOMAIN m : m[v] \notin {-1, 0, 1}}
      r == Recovered(stored, order, [v \in DOMAIN m |-> IF v \in marked THEN 0 ELSE m[v]])
  IN  IF marked = {} THEN [values |-> m, ok |-> TRUE]
      ELSE [values |-> r.values, ok |-> r.ok /\ r.last = 0]
=============================================================================
