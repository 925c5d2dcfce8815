------------------------------ MODULE CdclElim ------------------------------
(* Bounded variable elimination (elim.cpp): the clauses of a variable are    *)
(* replaced by their resolvents if these are not too many more, with gates   *)
(* by those of a gate clause and another one. Resolvents are tried to        *)
(* subsume or strengthen other clauses (backward.cpp).                       *)
EXTENDS CdclGates

(* A resolvent shorter than a clause it came from: the clause loses pivot.   *)
elim_on_the_fly_self_subsumption(x, n, pivot) ==
  DiscardBut(new_clause(x, Others(x, n, pivot), FALSE), n, pivot)

(* Clause n with literal pivot and m with -pivot, the shorter one first: the *)
(* state and a resolvent that is worth to be added, if there is one. Units   *)
(* found while resolvents are counted are propagated, those found while they *)
(* are added are not.                                                        *)
ResolveOrdered(x, n, pivot, m, eager) ==
  LET ns == Others(x, n, pivot)
      ms == Others(x, m, -pivot)
      decided == {i \in DOMAIN ms : IsTrue(x, ms[i]) \/ -ms[i] \in Range(ns)}
      lits == ns \o SelectSeq(ms, LAMBDA l : l \notin Range(ns))
      short(L) == Len(L) + 1 > Len(lits)
      none(y) == [x |-> y, lits |-> <<>>]
      unit == lits[1]
  IN  IF \E l \in Range(ns) : IsTrue(x, l) THEN none(Discard(x, n))
      ELSE IF decided # {} THEN none(IF IsTrue(x, ms[Min(decided)]) THEN Discard(x, m) ELSE x)
      ELSE CASE Len(lits) = 0 -> none(learn_empty_clause(x))
             [] Len(lits) = 1 -> none(IF eager THEN Propagating(x, unit) ELSE assign_unit(x, unit))
             [] Len(lits) > 1 ->
                  IF short(ns) /\ short(ms)
                  THEN none(DiscardBut(elim_on_the_fly_self_subsumption(x, n, pivot), m, -pivot))
                  ELSE IF short(ns) THEN none(elim_on_the_fly_self_subsumption(x, n, pivot))
                  ELSE IF short(ms) THEN none(elim_on_the_fly_self_subsumption(x, m, -pivot))
                  ELSE [x |-> x, lits |-> lits]

resolve_clauses(x, n, pivot, m, eager) ==
  IF x.clauses[n].garbage \/ x.clauses[m].garbage THEN [x |-> x, lits |-> <<>>]
  ELSE LET swap == Size(x.clauses[n]) > Size(x.clauses[m])
       IN  ResolveOrdered(x, IF swap THEN m ELSE n, IF swap THEN -pivot ELSE pivot,
                          IF swap THEN n ELSE m, eager)

(* Pairs that are resolved, in order: with a gate, one clause is of it.      *)
Pairs(ps, ns, gates) ==
  LET pairs == FlattenSeq([i \in DOMAIN ps |-> [j \in DOMAIN ns |-> <<ps[i], ns[j]>>]])
  IN  SelectSeq(pairs, LAMBDA p : gates = {} \/ (p[1] \in gates) # (p[2] \in gates))

(* Are there at most elimbound more resolvents than clauses? b is a state,   *)
(* the number of resolvents and whether the answer is no.                    *)
elim_resolvents_are_bounded(x, pivot, ps, ns, gates) ==
  LET bound == Len(ps) + Len(ns) + x.elimbound
      counted(b, r) ==
        IF r.lits = <<>> THEN [b EXCEPT !.x = r.x, !.stop = ~Open(r.x, pivot)]
        ELSE [b EXCEPT !.count = @ + 1, !.stop = b.count + 1 > bound]
      count(b, p) ==
        IF b.stop THEN b ELSE counted(b, resolve_clauses(b.x, p[1], pivot, p[2], TRUE))
  IN  IF ps = <<>> \/ ns = <<>> THEN [x |-> x, count |-> 0, stop |-> FALSE]
      ELSE FoldLeft(count, [x |-> x, count |-> 0, stop |-> FALSE], Pairs(ps, ns, gates))

(* Resolvents are added and queued for backward subsumption.                 *)
elim_add_resolvents(x, pivot, ps, ns, gates) ==
  LET added(e, r) ==
        IF r.lits = <<>> THEN [e EXCEPT !.x = r.x]
        ELSE [x |-> new_clause(r.x, r.lits, FALSE), queue |-> Append(e.queue, FreshClause(r.x))]
      add(e, p) ==
        IF e.x.unsat THEN e ELSE added(e, resolve_clauses(e.x, p[1], pivot, p[2], FALSE))
  IN  FoldLeft(add, [x |-> x, queue |-> <<>>], Pairs(ps, ns, gates))

(* A clause with literal l goes, and is kept if it is needed. *)
Eliminated(x, n, l, gates) ==
  IF x.clauses[n].garbage THEN x
  ELSE DiscardBut(IF gates = {} \/ n \in gates THEN push_clause_on_extension_stack(x, x.clauses[n].lits, {l}) ELSE x,
                  n, l)

(* The clauses with the variable go; those of a gate, or all, are kept for   *)
(* the extension of a model.                                                 *)
mark_eliminated_clauses_as_garbage(x, pivot, ps, ns, gates) ==
  FoldLeft(LAMBDA y, n : Eliminated(y, n, -pivot, gates),
           FoldLeft(LAMBDA y, n : Eliminated(y, n, pivot, gates), x, ps), ns)

-----------------------------------------------------------------------------
(* Backward subsumption. b is a state, the queue, whether a satisfied clause *)
(* was met and whether the scan has ended; the flag is not reset from one    *)
(* clause to the next.                                                       *)

enqueue(b, n) == IF n \in Range(b.queue) THEN b ELSE [b EXCEPT !.queue = Append(@, n)]

(* What a scan of clause n for the open literals U finds first: a true       *)
(* literal, a second complementary one, or as many as there are in U.        *)
Scan(x, n, U) ==
  LET lits == x.clauses[n].lits
      negated(i) == {j \in 1 .. i : -lits[j] \in U}
      found(i) == negated(i) \cup {j \in 1 .. i : lits[j] \in U}
      ends == {i \in DOMAIN lits : \/ IsTrue(x, lits[i])
                                   \/ Cardinality(negated(i)) = 2
                                   \/ Cardinality(found(i)) = Cardinality(U)}
      end == Min(ends)
      flipped == {lits[j] : j \in negated(end)}
      what == IF ends = {} THEN "differs"
              ELSE IF IsTrue(x, lits[end]) THEN "satisfied"
              ELSE IF flipped = {} THEN "subsumed"
              ELSE IF Cardinality(flipped) = 1 THEN "strengthened" ELSE "clashes"
  IN  [what |-> what, flipped |-> IF ends = {} THEN {} ELSE flipped]

(* Clause n less its literal l: a unit, satisfied, or shorter by l.          *)
Strengthened(b, n, l) ==
  LET unit == second_literal_in_binary_clause(b.x, n, l)
  IN  IF FoundSatisfied(b.x, n, l) THEN [b EXCEPT !.x = Discard(@, n), !.satisfied = TRUE]
      ELSE IF unit # 0 THEN [b EXCEPT !.x = Propagating(@, unit), !.stop = TRUE]
      ELSE enqueue([b EXCEPT !.x = Reschedule(strengthen_clause(@, n, l), {l})], n)

(* Two complementary literals end the search, as they do in the code.        *)
BackwardStep(b, n, U) ==
  LET scan == Scan(b.x, n, U)
  IN  IF b.stop \/ b.x.clauses[n].garbage \/ Size(b.x.clauses[n]) < Cardinality(U) THEN b
      ELSE IF b.satisfied \/ scan.what = "satisfied"
           THEN [b EXCEPT !.x = Discard(@, n), !.satisfied = TRUE,
                          !.stop = scan.what = "clashes"]
      ELSE CASE scan.what = "differs" -> b
             [] scan.what = "clashes" -> [b EXCEPT !.stop = TRUE]
             [] scan.what = "subsumed" -> [b EXCEPT !.x = Discard(@, n)]
             [] scan.what = "strengthened" ->
                  Strengthened(b, n, CHOOSE l \in scan.flipped : TRUE)

(* The open literals of a clause against the clauses of one of them that     *)
(* occurs least.                                                             *)
elim_backward_clause(b, c) ==
  LET x == b.x
      open == FreeLits(x, c)
      best == CHOOSE l \in Range(open) :
                \A k \in Range(open) : Cardinality(Occurring(x, l)) <= Cardinality(Occurring(x, k))
      others == SelectSeq(InOrder(Occurring(x, best)), LAMBDA n : n # c)
      step(d, n) == BackwardStep(d, n, Range(open))
      after == FoldLeft(step, [x |-> x, queue |-> b.queue, satisfied |-> FALSE, stop |-> FALSE], others)
  IN  IF x.clauses[c].garbage THEN b
      ELSE IF \E l \in LitSet(x.clauses[c]) : IsTrue(x, l) THEN [b EXCEPT !.x = Discard(@, c)]
      ELSE IF open = <<>> THEN b
      ELSE [x |-> after.x, queue |-> after.queue]

RECURSIVE elim_backward_clauses(_)
elim_backward_clauses(b) ==
  IF b.x.unsat \/ b.queue = <<>> THEN b.x
  ELSE elim_backward_clauses(elim_backward_clause([b EXCEPT !.queue = Tail(@)], Head(b.queue)))

-----------------------------------------------------------------------------
(* The literal of variable v that occurs less. *)
PivotOf(x, v) == IF Len(occs(x, v)) > Len(occs(x, -v)) THEN -v ELSE v

(* The resolvents in e are added, the clauses they come from go. *)
Replaced(e, pivot, ps, ns, gates) ==
  LET x == IF e.x.unsat THEN e.x ELSE mark_eliminated_clauses_as_garbage(e.x, pivot, ps, ns, gates)
  IN  elim_backward_clauses([x |-> [x EXCEPT !.active = @ \ {VarOf(pivot)}], queue |-> e.queue])

(* With the gates in g, if the pivot is open still and the count allows it.  *)
TryPivot(g, pivot, ps, ns) ==
  LET replaced(b) ==
        IF b.stop THEN b.x
        ELSE Replaced(elim_add_resolvents(b.x, pivot, ps, ns, g.gates), pivot, ps, ns, g.gates)
  IN  IF ~Open(g.x, pivot) THEN g.x
      ELSE replaced(elim_resolvents_are_bounded(g.x, pivot, ps, ns, g.gates))

try_to_eliminate_variable(x, v) ==
  LET pivot == PivotOf(x, v)
      gate == IF occs(x, pivot) = <<>> THEN [x |-> x, gates |-> {}] ELSE find_gate_clauses(x, pivot)
  IN  IF ~Active(x, v) THEN x ELSE TryPivot(gate, pivot, occs(x, pivot), occs(x, -pivot))

-----------------------------------------------------------------------------
(* A round. Satisfied clauses go; a clause with a false literal counts as    *)
(* one that was removed. The schedule is what was removed.                   *)
BeginElimRound(x) ==
  LET irredundant == {n \in Live(x) : ~x.clauses[n].redundant /\ ~x.clauses[n].native}
      satisfied == {n \in irredundant : \E l \in LitSet(x.clauses[n]) : IsTrue(x, l)}
      falsified == {n \in irredundant \ satisfied : \E l \in LitSet(x.clauses[n]) : IsFalse(x, l)}
      y == FoldLeft(MarkRemoved, x, InOrder(satisfied))
      removed == y.removed \cup {v \in UNION {VarSet(x.clauses[n]) : n \in falsified} : Active(x, v)}
      schedule == {v \in removed : Active(x, v) /\ v \notin x.frozen \cup x.assumed}
  IN  [y EXCEPT !.removed = removed \ schedule, !.todo = schedule]

(* The next variable of the schedule. *)
ElimNext(x, v) ==
  try_to_eliminate_variable([x EXCEPT !.todo = @ \ {v}, !.removed = @ \ {v}], v)

(* Mutant: learned clauses stay. *)
KeepRedundant(x) == x

mark_redundant_clauses_with_eliminated_variables_as_garbage(x) ==
  mark_garbage(x, {n \in Live(x) : /\ x.clauses[n].redundant
                                   /\ ~(VarSet(x.clauses[n]) \subseteq x.active)})

EndElimRound(x) ==
  LET y == [x EXCEPT !.todo = {}]
  IN  IF x.unsat THEN y ELSE mark_redundant_clauses_with_eliminated_variables_as_garbage(y)

(* After a complete phase more clauses are allowed and all is tried again.   *)
increase_elimination_bound(x, elimboundmax) ==
  IF x.elimbound >= elimboundmax THEN x
  ELSE [x EXCEPT !.elimbound = Min({elimboundmax, IF @ = 0 THEN 1 ELSE 2 * @}),
                 !.removed = @ \cup {v \in x.active : Active(x, v)}]
=============================================================================
