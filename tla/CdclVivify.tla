----------------------------- MODULE CdclVivify -----------------------------
(* Vivification (vivify.cpp): the literals of a clause are assumed false one *)
(* after the other and propagated without the clause. If another one becomes *)
(* false it can go; after a conflict, or if one becomes true, the clause can *)
(* go (irredundant clauses, without use of learned ones and of rows), or     *)
(* what the conflict rests on is enough (learned clauses). Decisions are     *)
(* left for the next clause. A round has the fields                          *)
(*   todo     clauses still to be tried                                      *)
(*   noccs    literal -> score                                               *)
EXTENDS CdclRewrite

(* Clauses of a mode that are considered. *)
Considered(x, redundant) ==
  {n \in Live(x) : ~x.clauses[n].native /\ x.clauses[n].redundant = redundant}

NoScores == [l \in Lits |-> 0]

(* Literals of many short clauses come first. *)
Scores(x, redundant) ==
  [l \in Lits |-> MapThenSumSet(LAMBDA n : 2 ^ Max({0, 12 - Size(x.clauses[n])}),
                                {n \in Considered(x, redundant) : l \in LitSet(x.clauses[n])})]

vivify_more_noccs(x, k, l) ==
  \/ x.noccs[k] > x.noccs[l]
  \/ /\ x.noccs[k] = x.noccs[l]
     /\ IF k = -l THEN k > 0 ELSE VarOf(k) < VarOf(l)

Sorted(x, lits) == SortSeq(lits, LAMBDA k, l : vivify_more_noccs(x, k, l))

(* Of clauses with the same literals the first stays. *)
Duplicates(x, N) == {n \in N : \E m \in N : m < n /\ LitSet(x.clauses[m]) = LitSet(x.clauses[n])}

(* A round for irredundant clauses propagates no others and no rows, none    *)
(* watches guards.                                                           *)
connect_vivify_watches(x, redundant) ==
  LET used(w) == ~w.native \/ (redundant /\ w.blit # 0)
      y == connect_watches(clear_watches(x), ~redundant)
  IN  [y EXCEPT !.watches = [l \in Lits |-> SelectSeq(@[l], used)]]

BeginVivifyRound(x, redundant) ==
  LET scored == [x EXCEPT !.noccs = Scores(x, redundant)]
      long == {n \in Considered(x, redundant) : Size(x.clauses[n]) > 2}
      sorted == FoldLeft(LAMBDA y, n : [y EXCEPT !.clauses[n].lits = Sorted(scored, @)],
                         scored, InOrder(long))
      flushed == FoldLeft(MarkRemoved, sorted, InOrder(Duplicates(x, long)))
  IN  [OrEmpty(CARpropagate(connect_vivify_watches(flushed, redundant)))
         EXCEPT !.todo = long \ Duplicates(x, long)]

-----------------------------------------------------------------------------
(* Propagation without one clause: binary clauses of all literals come       *)
(* before longer clauses and rows of the next.                               *)

VisitBinaries(s, ws) ==
  FoldLeft(LAMBDA t, w : IF w.native \/ w.size # 2 \/ IsTrue(t, w.blit) THEN t
                         ELSE IF IsFalse(t, w.blit) THEN [t EXCEPT !.conflict = w.clause]
                         ELSE search_assign(t, w.blit, w.clause), s, ws)

VisitLarge(lit, ignored, a, w) ==
  IF a.stop \/ (~w.native /\ (w.size = 2 \/ IsTrue(a.s, w.blit))) THEN Keep(a, w, a.s)
  ELSE IF a.s.clauses[w.clause].garbage THEN a
  ELSE IF w.clause = ignored THEN Keep(a, w, a.s)
  ELSE IF w.native THEN VisitRow(lit, a, w)
  ELSE VisitClause(lit, a, w)

(* The longer clauses and rows of a literal that became false. *)
PropagateLarge(s, ignored, lit) ==
  LET rest(end) == [end.s EXCEPT !.watches[lit] = end.kept]
  IN  rest(FoldLeft(LAMBDA a, w : VisitLarge(lit, ignored, a, w),
                    [s |-> [s EXCEPT !.propagated = @ + 1], kept |-> <<>>, stop |-> FALSE],
                    s.watches[lit]))

RECURSIVE VivifyPropagated(_, _, _)
VivifyPropagated(s, ignored, propagated2) ==
  LET next(i) == -s.trail[i + 1].lit
  IN  IF propagated2 < Len(s.trail)
      THEN VivifyPropagated(VisitBinaries(s, s.watches[next(propagated2)]), ignored, propagated2 + 1)
      ELSE IF s.conflict = 0 /\ s.propagated < Len(s.trail)
      THEN VivifyPropagated(PropagateLarge(s, ignored, next(s.propagated)), ignored, propagated2)
      ELSE s

vivify_propagate(x, ignored) ==
  VivifyPropagated([x EXCEPT !.conflict_literal = 0], ignored, x.propagated)

-----------------------------------------------------------------------------
(* Literals above the root that clause n stands on, in a row those not       *)
(* watched and the ones that were noted when it forced or failed.            *)
StandsOn(x, n, noted) ==
  LET c == x.clauses[n]
  IN  IF c.unwatched = 2 THEN c.lits
      ELSE SubSeq(c.lits, c.unwatched + 1, Size(c)) \o <<c.reason_literal>> \o noted

(* The reasons of the literals in a stack of clauses. a is the stack, the    *)
(* variables seen, the literal noted at a conflict, which the first row      *)
(* takes, and whether all clauses were binary.                               *)
RECURSIVE vivify_analyze_redundant(_, _)
vivify_analyze_redundant(x, a) ==
  LET n == Last(a.stack)
      row == x.clauses[n].unwatched # 2
      noted == IF row /\ a.noted # 0 THEN <<a.noted>> ELSE <<>>
      new == SelectSeq(Distinct(StandsOn(x, n, noted)),
                       LAMBDA l : VarOf(l) \notin a.seen /\ LevelOf(x, l) # 0)
      reasons == SelectSeq([i \in DOMAIN new |-> ReasonOf(x, new[i])], LAMBDA m : m # UnitReason)
  IN  IF a.stack = <<>> THEN a
      ELSE vivify_analyze_redundant(x,
             [stack |-> Front(a.stack) \o reasons, seen |-> a.seen \cup {VarOf(l) : l \in Range(new)},
              noted |-> IF row THEN 0 ELSE a.noted, binary |-> a.binary /\ Size(x.clauses[n]) = 2])

(* A literal that is false by a decision. *)
DecidedFalse(x, l) == IsFalse(x, l) /\ LevelOf(x, l) # 0 /\ ReasonOf(x, l) = UnitReason

(* What is left of clause c besides the implied literal: decisions that the  *)
(* analysis has seen; nothing if that is all of it.                          *)
vivify_post_process_analysis(x, c, implied, seen) ==
  LET kept(l) == l = implied \/ (DecidedFalse(x, l) /\ VarOf(l) \in seen)
      fixed(l) == IsFalse(x, l) /\ LevelOf(x, l) = 0
      lits == x.clauses[c].lits
  IN  IF \A l \in Range(lits) : kept(l) \/ fixed(l) THEN <<>> ELSE SelectSeq(lits, kept)

-----------------------------------------------------------------------------
(* Literals not false, then the last assigned: they are to be watched.       *)
BetterWatches(x, lits) ==
  LET at(l) == IF IsFalse(x, l) THEN TrailIndex(x, l) ELSE Len(x.trail) + 1
  IN  SortSeq(lits, LAMBDA k, l : at(k) > at(l))

(* The level at which both watches may stand. *)
WatchLevel(x, lits) ==
  LET satisfied == IsTrue(x, lits[1]) /\ LevelOf(x, lits[1]) <= LevelOf(x, lits[2])
  IN  IF IsFalse(x, lits[2]) /\ ~satisfied THEN LevelOf(x, lits[2]) - 1
      ELSE IF IsFalse(x, lits[1]) THEN LevelOf(x, lits[1]) - 1
      ELSE Level(x)

(* The literals kept replace clause c. *)
vivify_strengthen(x, c, kept) ==
  LET lits == BetterWatches(x, kept)
      shorter(y) == watch_clause(new_clause(y, lits, x.clauses[c].redundant), FreshClause(y))
  IN  MarkRemoved(IF Len(kept) = 1 THEN assign_original_unit(backtrack(x, 0), kept[1])
                  ELSE shorter(backtrack(x, WatchLevel(x, lits))), c)

(* If the clause is the reason of a literal, back to before that; decisions  *)
(* of the clause before are reused as far as they are the same.              *)
ReusedDecisions(x, c, sorted) ==
  LET open == SelectSeq(x.clauses[c].lits, LAMBDA l : ~IsFalse(x, l))
      forced == /\ open # <<>>
                /\ IsTrue(x, open[1])
                /\ ReasonOf(x, open[1]) = c
      differ(y) == {i \in DOMAIN sorted : i <= Level(y) /\ -sorted[i] # y.control[i].decision}
      reused(y) == backtrack(y, Min({Level(y) + 1} \cup differ(y)) - 1)
  IN  reused(IF forced THEN backtrack(x, LevelOf(x, open[1]) - 1) ELSE x)

(* In state z clause c is implied, by what the cone of the analysis stands   *)
(* on; its last literal l is true, or 0 stands for a conflict.               *)
Implied(a, z, c, redundant, cone, l) ==
  [a EXCEPT !.x = [backtrack(z, Level(z) - 1) EXCEPT !.conflict = 0, !.conflict_literal = 0],
            !.implied = TRUE,
            !.binary = redundant /\ cone.binary,
            !.kept = IF ~redundant \/ cone.binary THEN <<>>
                     ELSE vivify_post_process_analysis(z, c, l, cone.seen)]

Cone(z, from, seen) ==
  vivify_analyze_redundant(z, [stack |-> <<from>>, seen |-> seen,
                               noted |-> z.conflict_literal, binary |-> TRUE])

(* The next literal of clause c. a is the state, whether the clause is       *)
(* implied and a literal can be removed, what analysis leaves of it and      *)
(* whether that stands on binary clauses only.                               *)
Probe(a, c, redundant, l) ==
  LET x == a.x
      conflict(y) == IF y.conflict = 0 THEN [a EXCEPT !.x = y]
                     ELSE Implied(a, y, c, redundant, Cone(y, y.conflict, {}), 0)
  IN  IF a.implied THEN a
      ELSE IF VarOf(l) \in Unassigned(x)
      THEN conflict(vivify_propagate(search_assume_decision(x, -l), c))
      ELSE IF LevelOf(x, l) = 0 \/ ReasonOf(x, l) = UnitReason THEN a
      ELSE IF IsFalse(x, l) THEN [a EXCEPT !.remove = TRUE]
      ELSE IF redundant
      THEN Implied(a, x, c, redundant, Cone(x, ReasonOf(x, l), {VarOf(l)}), l)
      ELSE [a EXCEPT !.implied = TRUE]

(* What becomes of clause c when all its literals were tried. *)
Vivified(a, c, redundant) ==
  LET decided == SelectSeq(a.x.clauses[c].lits, LAMBDA l : DecidedFalse(a.x, l))
      learned == redundant /\ ~a.binary
  IN  CASE a.implied /\ learned /\ a.kept = <<>> -> a.x
        [] a.implied /\ learned /\ a.kept # <<>> -> vivify_strengthen(a.x, c, a.kept)
        [] a.implied /\ ~learned -> MarkRemoved(a.x, c)
        [] ~a.implied /\ a.remove -> vivify_strengthen(a.x, c, decided)
        [] OTHER -> a.x

vivify_clause(x, c, redundant) ==
  LET sorted == Sorted(x, SelectSeq(x.clauses[c].lits, LAMBDA l : ~Fixed(x, l)))
      start == [x |-> ReusedDecisions(x, c, sorted), implied |-> FALSE, remove |-> FALSE,
                binary |-> FALSE, kept |-> <<>>]
  IN  IF x.clauses[c].garbage THEN x
      ELSE IF LitSet(x.clauses[c]) \cap RootTrue(x) # {} THEN MarkRemoved(x, c)
      ELSE Vivified(FoldLeft(LAMBDA a, l : Probe(a, c, redundant, l), start, sorted), c, redundant)

VivifyNext(x, c, redundant) == vivify_clause([x EXCEPT !.todo = @ \ {c}], c, redundant)

(* Everything is watched and propagated again. *)
EndVivifyRound(x) ==
  LET y == [backtrack(x, 0) EXCEPT !.todo = {}, !.noccs = NoScores]
  IN  RootPropagated([connect_watches(clear_watches(y), FALSE) EXCEPT
                        !.propagated = IF x.unsat THEN @ ELSE 0])
=============================================================================
