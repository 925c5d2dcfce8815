--------------------------- MODULE CdclPropagate ----------------------------
(* Propagation of clauses and native cardinality rows (propagate.cpp).       *)
(*                                                                           *)
(* Visiting one watch w of a literal that became false takes and gives a     *)
(* record a: the search state s, the watches kept so far, and whether the    *)
(* scan of the list has stopped.                                             *)
EXTENDS CdclState

(* The watch w stays, or moves to another literal. *)
Keep(a, w, s) == [a EXCEPT !.s = s, !.kept = Append(@, w)]
Move(a, s) == [a EXCEPT !.s = s]
KeepBlit(a, w, l) == [a EXCEPT !.kept = Append(@, [w EXCEPT !.blit = l])]

(* The watch stays, its clause is the conflict and the scan ends. *)
Conflict(a, w, s) ==
  [Keep(a, w, [s EXCEPT !.conflict = w.clause]) EXCEPT !.stop = TRUE]

(* Positions of unwatched literals in the order they are tried: from the     *)
(* position of the last replacement to the end, then the ones before it.     *)
Tried(c) ==
  [i \in 1 .. Size(c) - c.unwatched |->
     IF i <= Size(c) + 1 - c.pos THEN c.pos - 1 + i ELSE i - (Size(c) + 1 - c.pos) + c.unwatched]

(* The first unwatched position that is not false, or 0. *)
Replacement(s, c) ==
  LET tried == Tried(c)
      fit == {i \in DOMAIN tried : ~IsFalse(s, c.lits[tried[i]])}
  IN  IF fit = {} THEN 0 ELSE tried[Min(fit)]

(* Where the search for a replacement ended: at k, or at the end. *)
WithPos(s, n, k) ==
  [s EXCEPT !.clauses[n].pos = IF k # 0 THEN k ELSE Min({@, Size(s.clauses[n]) + 1})]

(* A row longer than its watches saves the position, a clause always does.   *)
RowWithPos(s, n, k) ==
  IF Size(s.clauses[n]) > s.clauses[n].unwatched THEN WithPos(s, n, k) ELSE s

Exchanged(lits, i, k) == [lits EXCEPT ![i] = lits[k], ![k] = lits[i]]

-----------------------------------------------------------------------------
(* A binary clause is decided by the blocking literal; a conflict does not   *)
(* end the scan before the next watch of a longer clause.                    *)
VisitBinary(a, w) ==
  Keep(a, w, IF IsFalse(a.s, w.blit) THEN [a.s EXCEPT !.conflict = w.clause]
             ELSE search_assign(a.s, w.blit, w.clause))

(* Clause w.clause, in state s, finds its literal k to be watched, or none.  *)
Rewatch(lit, a, w, s, other, k) ==
  LET new == s.clauses[w.clause].lits[k]
  IN  CASE k # 0 /\ IsTrue(s, new) -> KeepBlit([a EXCEPT !.s = s], w, new)
        [] k # 0 /\ ~IsTrue(s, new) ->
             Move(a, watch_literal([s EXCEPT !.clauses[w.clause].lits =
                                      [@ EXCEPT ![1] = other, ![2] = new, ![k] = lit]],
                                   new, lit, w.clause))
        [] k = 0 /\ IsFalse(s, other) -> Conflict(a, w, s)
        [] k = 0 /\ ~IsFalse(s, other) -> Keep(a, w, search_assign(s, other, w.clause))

(* A longer clause: its other watch is true, another literal is watched, the *)
(* other watch is forced, or the clause is false.                            *)
VisitClause(lit, a, w) ==
  LET c == a.s.clauses[w.clause]
      other == IF c.lits[1] = lit THEN c.lits[2] ELSE c.lits[1]
      rewatch(k) == Rewatch(lit, a, w, WithPos(a.s, w.clause, k), other, k)
  IN  IF IsTrue(a.s, other) THEN KeepBlit(a, w, other) ELSE rewatch(Replacement(a.s, c))

-----------------------------------------------------------------------------
(* All watched literals of a row but the false one are forced: one more      *)
(* false literal and the row could not reach its degree.                     *)
PropagateRow(s, n, false) ==
  LET c == s.clauses[n]
      forced == FoldLeft(LAMBDA t, i : IF IsTrue(t, c.lits[i]) \/ IsFalse(t, c.lits[i]) THEN t
                                       ELSE search_assign(t, c.lits[i], n),
                         s, [i \in 1 .. c.unwatched |-> i])
  IN  [forced EXCEPT !.clauses[n].reason_literal = false]

(* The first false literal among the watched ones besides lit, or 0. *)
SecondFalse(s, c, lit) ==
  LET false == {i \in 1 .. c.unwatched : c.lits[i] # lit /\ IsFalse(s, c.lits[i])}
  IN  IF false = {} THEN 0 ELSE c.lits[Min(false)]

(* The guard does not permit that the row is broken. *)
RowActive(s, c) == c.guard = 0 \/ IsFalse(s, c.guard)

Exchange(s, n, i, k) == [s EXCEPT !.clauses[n].lits = Exchanged(@, i, k)]

(* No literal is left to be watched in place of lit; second is another one   *)
(* that is false, or 0.                                                      *)
RowForces(lit, a, w, s, second) ==
  LET n == w.clause
      broken == [s EXCEPT !.clauses[n].reason_literal = lit]
  IN  CASE second = 0 -> Keep(a, w, IF RowActive(s, s.clauses[n]) THEN PropagateRow(s, n, lit) ELSE s)
        [] second # 0 /\ RowActive(s, s.clauses[n]) ->
             Conflict(a, w, [broken EXCEPT !.conflict_literal = second])
        [] OTHER ->
             Keep(a, w, [search_assign(broken, s.clauses[n].guard, n)
                           EXCEPT !.clauses[n].guard_reason_literal = second])

(* A watched literal of a row became false. *)
VisitRow(lit, a, w) ==
  LET n == w.clause
      c == a.s.clauses[n]
      step(s, k) ==
        IF k = 0 THEN RowForces(lit, a, w, s, SecondFalse(s, c, lit))
        ELSE Move(a, watch_literal(Exchange(s, n, w.blit, k), c.lits[k], w.blit, n))
      from(k) == step(RowWithPos(a.s, n, k), k)
  IN  IF c.guard # 0 /\ IsTrue(a.s, c.guard) THEN Keep(a, w, a.s) ELSE from(Replacement(a.s, c))

(* The guard became false and the watched literal at p is, alone; it is      *)
(* replaced by the one at k, or all others are forced.                       *)
GuardForces(a, w, s, p, k) ==
  LET n == w.clause
      lits == s.clauses[n].lits
  IN  Keep(a, w, IF k = 0 THEN PropagateRow(s, n, lits[p])
                 ELSE remove_watch(watch_literal(Exchange(s, n, p, k), lits[k], p, n), lits[p], n))

(* The guard of a row became false: the row holds from now on. *)
VisitGuard(lit, a, w) ==
  LET s == a.s
      n == w.clause
      c == s.clauses[n]
      false == {i \in 1 .. c.unwatched : IsFalse(s, c.lits[i])}
      forces(k) == GuardForces(a, w, RowWithPos(s, n, k), Min(false), k)
      needs_all(second) ==
        IF second = 0 THEN Keep(a, w, PropagateRow(s, n, lit))
        ELSE Conflict(a, w, [s EXCEPT !.conflict_literal = second, !.clauses[n].reason_literal = lit])
  IN  CASE c.unwatched = Size(c) -> needs_all(SecondFalse(s, c, lit))
        [] c.unwatched < Size(c) /\ Cardinality(false) # 1 -> Keep(a, w, s)
        [] OTHER -> forces(Replacement(s, c))

-----------------------------------------------------------------------------
(* One watch of a false literal. Watches of garbage clauses are dropped.     *)
Visit(lit, a, w) ==
  LET c == a.s.clauses[w.clause]
  IN  CASE a.stop -> Keep(a, w, a.s)
        [] ~a.stop /\ ~w.native /\ IsTrue(a.s, w.blit) -> Keep(a, w, a.s)
        [] ~a.stop /\ ~w.native /\ ~IsTrue(a.s, w.blit) /\ w.size = 2 -> VisitBinary(a, w)
        [] OTHER ->
             CASE a.s.conflict # 0 -> [Keep(a, w, a.s) EXCEPT !.stop = TRUE]
               [] a.s.conflict = 0 /\ c.garbage -> a
               [] a.s.conflict = 0 /\ ~c.garbage /\ ~w.native -> VisitClause(lit, a, w)
               [] a.s.conflict = 0 /\ ~c.garbage /\ w.native ->
                    IF c.guard = lit THEN VisitGuard(lit, a, w) ELSE VisitRow(lit, a, w)

(* The watches of the next literal on the trail. *)
PropagateLiteral(s) ==
  LET lit == -s.trail[s.propagated + 1].lit
      rest(end) == [end.s EXCEPT !.watches[lit] = end.kept]
  IN  rest(FoldLeft(LAMBDA a, w : Visit(lit, a, w),
                    [s |-> [s EXCEPT !.propagated = @ + 1], kept |-> <<>>, stop |-> FALSE],
                    s.watches[lit]))

(* Until the trail is propagated or a clause is false. *)
RECURSIVE Propagated(_)
Propagated(s) ==
  IF s.conflict # 0 \/ s.propagated = Len(s.trail) THEN s
  ELSE Propagated(PropagateLiteral(s))

CARpropagate(s) == Propagated([s EXCEPT !.conflict_literal = 0])
=============================================================================
