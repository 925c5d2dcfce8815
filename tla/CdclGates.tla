----------------------------- MODULE CdclGates ------------------------------
(* Gates (gates.cpp): clauses that define a variable as a function of        *)
(* others, found before it is eliminated, and the propagation of units that  *)
(* are found on the way (elim.cpp). Lists of occurrences are taken from the  *)
(* database, shorter clauses first.                                          *)
EXTENDS CdclRewrite

(* Irredundant clauses with literal l. *)
Occurring(x, l) ==
  {n \in Live(x) : LET c == x.clauses[n] IN ~c.redundant /\ ~c.native /\ l \in LitSet(c)}

occs(x, l) ==
  Ranked(Occurring(x, l), LAMBDA m, n : LET i == Size(x.clauses[m])
                                            j == Size(x.clauses[n])
                                        IN  i < j \/ (i = j /\ m < n))

(* Variables of removed literals are tried again. *)
Reschedule(x, L) ==
  [x EXCEPT !.todo = @ \cup {VarOf(l) : l \in {k \in L : /\ Active(x, k)
                                                         /\ VarOf(k) \notin x.frozen \cup x.assumed}}]

(* Clause n goes, for a reason that spares the variable of literal except. *)
DiscardBut(x, n, except) == MarkRemoved(Reschedule(x, LitSet(x.clauses[n]) \ {except}), n)

Discard(x, n) == DiscardBut(x, n, 0)

-----------------------------------------------------------------------------
(* Units. During elimination nothing is watched: clauses with the complement *)
(* are looked at, then those with the literal go.                            *)

(* The literals of clause n besides l that are not false. *)
Others(x, n, l) == SelectSeq(x.clauses[n].lits, LAMBDA k : k # l /\ ~IsFalse(x, k))

(* w is a state and the units to be propagated. *)
PropagateIn(w, n) ==
  LET left == Others(w.x, n, 0)
  IN  IF w.x.unsat THEN w
      ELSE IF \E l \in Range(left) : IsTrue(w.x, l) THEN [w EXCEPT !.x = Discard(w.x, n)]
      ELSE CASE left = <<>> -> [w EXCEPT !.x = learn_empty_clause(w.x)]
             [] Len(left) = 1 -> [x |-> search_assign(w.x, left[1], UnitReason),
                                  work |-> Append(w.work, left[1])]
             [] Len(left) > 1 -> w

RECURSIVE ElimPropagated(_)
ElimPropagated(w) ==
  IF w.work = <<>> THEN w.x
  ELSE LET l == Head(w.work)
           rest(after) == IF after.x.unsat THEN after.x
                          ELSE ElimPropagated([after EXCEPT !.x = FoldLeft(Discard, @, occs(@, l))])
       IN  rest(FoldLeft(PropagateIn, [w EXCEPT !.work = Tail(@)], occs(w.x, -l)))

elim_propagate(x, l) == ElimPropagated([x |-> x, work |-> <<l>>])

assign_unit(x, l) == search_assign(x, l, UnitReason)

Propagating(x, l) == elim_propagate(assign_unit(x, l), l)

-----------------------------------------------------------------------------
(* Clauses that are binary but for false literals. The scan stops at the     *)
(* second open literal, or at one that satisfies the clause.                 *)

FoundSatisfied(x, n, first) ==
  LET others == Others(x, n, first)
  IN  \E i \in DOMAIN others : i <= 2 /\ IsTrue(x, others[i])

(* The other literal of clause n, or 0. *)
second_literal_in_binary_clause(x, n, first) ==
  LET others == Others(x, n, first)
  IN  IF Len(others) = 1 /\ ~IsTrue(x, others[1]) THEN others[1] ELSE 0

(* A satisfied clause that was looked at goes. *)
Inspected(x, n, first) == IF FoundSatisfied(x, n, first) THEN Discard(x, n) ELSE x

Open(x, pivot) == ~x.unsat /\ VarOf(pivot) \in Unassigned(x)

(* Literals of binary clauses with first are marked; two that clash give a   *)
(* unit. g is a state, the marked literals, the gate and whether the scan    *)
(* has stopped.                                                              *)
mark_binary_literals(x, first) ==
  LET look(g, n) ==
        LET k == second_literal_in_binary_clause(g.x, n, first)
        IN  IF g.stop THEN g
            ELSE CASE k = 0 -> [g EXCEPT !.x = Inspected(@, n, first)]
                   [] -k \in g.marked -> [g EXCEPT !.x = Propagating(@, first), !.stop = TRUE]
                   [] k \in g.marked -> [g EXCEPT !.x = Discard(@, n)]
                   [] OTHER -> [g EXCEPT !.marked = @ \cup {k}]
  IN  FoldLeft(look, [x |-> x, marked |-> {}, gates |-> {}, stop |-> FALSE], occs(x, first))

(* Clauses whose only literal besides pivot is in L: the first, or all.      *)
SideClauses(g0, pivot, L, all) ==
  LET look(g, n) ==
        LET k == second_literal_in_binary_clause(g.x, n, pivot)
        IN  IF g.stop /\ ~all THEN g
            ELSE IF k # 0 /\ k \in L THEN [g EXCEPT !.gates = @ \cup {n}, !.stop = TRUE]
            ELSE [g EXCEPT !.x = Inspected(@, n, pivot)]
  IN  FoldLeft(look, g0, occs(g0.x, pivot))

(* The pivot equals a literal; two clauses that agree on it give a unit. *)
find_equivalence(x, pivot) ==
  LET marked == mark_binary_literals(x, pivot)
      look(g, n) ==
        LET k == second_literal_in_binary_clause(g.x, n, -pivot)
            y == Propagating(g.x, k)
        IN  IF g.stop \/ g.x.clauses[n].garbage THEN g
            ELSE CASE k = 0 -> [g EXCEPT !.x = Inspected(@, n, -pivot)]
                   [] k \in g.marked -> [g EXCEPT !.x = y, !.stop = ~Open(y, pivot)]
                   [] -k \in g.marked ->
                        [SideClauses([g EXCEPT !.gates = {n}], pivot, {-k}, FALSE)
                           EXCEPT !.stop = TRUE]
                   [] OTHER -> g
  IN  IF ~Open(marked.x, pivot) THEN marked
      ELSE FoldLeft(look, marked, occs(marked.x, -pivot))

(* A clause with -pivot whose others are complements of marked literals.     *)
find_and_gate(x, pivot) ==
  LET marked == mark_binary_literals(x, pivot)
      look(g, n) ==
        LET others == Others(g.x, n, -pivot)
            odd == {i \in DOMAIN others : -others[i] \notin g.marked}
            base == [g EXCEPT !.gates = {n}]
        IN  IF g.stop \/ Size(g.x.clauses[n]) < 3 THEN g
            ELSE IF odd = {}
                 THEN [SideClauses(base, pivot, {-l : l \in Range(others)}, TRUE)
                         EXCEPT !.stop = TRUE]
            ELSE IF IsTrue(g.x, others[Min(odd)]) THEN [g EXCEPT !.x = MarkRemoved(@, n)]
            ELSE g
  IN  IF ~Open(marked.x, pivot) THEN marked
      ELSE FoldLeft(look, marked, occs(marked.x, -pivot))

-----------------------------------------------------------------------------
(* Gates of longer clauses are looked for among the literals without a value.*)

FreeLits(x, n) == Unvalued(x, x.clauses[n].lits)

(* The first clause with exactly the literals L open, or 0. *)
find_clause(x, L) ==
  LET fit == {n \in Live(x) : /\ ~x.clauses[n].redundant /\ ~x.clauses[n].native
                              /\ Range(FreeLits(x, n)) = L}
  IN  IF fit = {} THEN 0 ELSE Min(fit)

(* The other two literals of a ternary clause of pivot: what stood in place  *)
(* of the pivot takes its place.                                             *)
get_ternary_clause(x, n, pivot) ==
  LET f == FreeLits(x, n)
  IN  IF f[3] = pivot THEN <<f[2], f[1]>> ELSE SelectSeq(f, LAMBDA l : l # pivot)

(* Four clauses that say: pivot is c or d, depending on b. *)
find_if_then_else(x, pivot) ==
  LET all == SelectSeq(occs(x, pivot), LAMBDA n : Len(FreeLits(x, n)) = 3)
      then(i) == get_ternary_clause(x, all[i], pivot)
      swapped(i, j) == LET d == then(j) IN IF VarOf(then(i)[1]) = VarOf(d[2]) THEN Reverse(d) ELSE d
      gate(i, j) ==
        LET b == then(i)
            d == swapped(i, j)
        IN  {all[i], all[j], find_clause(x, {-pivot, b[1], -b[2]}),
             find_clause(x, {-pivot, d[1], -d[2]})}
      pairs == {p \in (DOMAIN all) \X (DOMAIN all) :
                  /\ p[1] < p[2]
                  /\ VarOf(then(p[1])[2]) # VarOf(swapped(p[1], p[2])[2])
                  /\ then(p[1])[1] = -swapped(p[1], p[2])[1]
                  /\ 0 \notin gate(p[1], p[2])}
      first == CHOOSE p \in pairs : \A q \in pairs : p[1] < q[1] \/ (p[1] = q[1] /\ p[2] <= q[2])
  IN  IF pairs = {} THEN {} ELSE gate(first[1], first[2])

(* All clauses in which an even number of the literals is complemented.      *)
Parity(L) == {(L \ F) \cup {-l : l \in F} : F \in {G \in SUBSET L : Cardinality(G) % 2 = 0}}

find_xor_gate(x, pivot) ==
  LET gate(n) == {find_clause(x, L) : L \in Parity(Range(FreeLits(x, n))) \ {Range(FreeLits(x, n))}}
      odd == SelectSeq(occs(x, pivot), LAMBDA n : Len(FreeLits(x, n)) >= 3 /\ 0 \notin gate(n))
  IN  IF odd = <<>> THEN {} ELSE {odd[1]} \cup gate(odd[1])

(* Each kind is looked for as long as none was found and the pivot is open.  *)
find_gate_clauses(x, pivot) ==
  LET further(g, finder(_)) == IF g.gates # {} \/ ~Open(g.x, pivot) THEN g ELSE finder(g.x)
      equivalence == find_equivalence(x, pivot)
      positive == further(equivalence, LAMBDA y : find_and_gate(y, pivot))
      negative == further(positive, LAMBDA y : find_and_gate(y, -pivot))
      ite == further(negative, LAMBDA y : [x |-> y, gates |-> find_if_then_else(y, pivot)])
  IN  further(ite, LAMBDA y : [x |-> y, gates |-> find_xor_gate(y, pivot)])
=============================================================================
