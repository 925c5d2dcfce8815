----------------------------- MODULE CdclState ------------------------------
(* What the CDCL search of src/lib/ccdcl/src keeps: the clause database with *)
(* native cardinality rows, the watch lists and the trail.                   *)
(*                                                                           *)
(* Operators of the search take and give a record s with the fields          *)
(*   clauses     number -> clause (the numbers stand for addresses)          *)
(*   watches     literal -> sequence of watches                              *)
(*   trail       assigned literals, oldest first, with level and reason      *)
(*   control     per decision level, its decision and the trail before it    *)
(*   propagated  length of the trail that has been propagated                *)
(*   conflict    a clause number or 0                                        *)
(*   conflict_literal   cardinality_conflict_literal                         *)
(*   unsat       the empty clause was learned                                *)
(* A value is read off the trail; so is the position of a variable on it.    *)
EXTENDS Integers, FiniteSets, Sequences, SequencesExt

CONSTANT max_var                      \* number of variables

ASSUME MaxVarAssumption == max_var \in Nat \ {0}

Vars == 1 .. max_var

Lits == Vars \cup {-v : v \in Vars}

VarOf(l) == IF l < 0 THEN -l ELSE l

(* Reasons that are no clause: a unit, and the pseudo reason of a decision.  *)
UnitReason == 0
DecisionReason == -1

-----------------------------------------------------------------------------
(* Clauses. A native row asks for unwatched - 1 of its literals and watches  *)
(* the first unwatched of them; a clause watches two and asks for one. A     *)
(* guard, unless it is 0, satisfies its row alone.                           *)

(* The literals of a clause, as a set. *)
LitSet(c) == Range(c.lits)

Size(c) == Len(c.lits)

Binary(c) == ~c.native /\ Size(c) = 2

(* The number of literals a clause asks for. *)
CARbound(c) == c.unwatched - 1

(* The literals a clause watches. *)
Watched(c) == {c.lits[i] : i \in 1 .. c.unwatched}

Clause(lits, redundant) ==
  [lits |-> lits, native |-> FALSE, unwatched |-> 2, guard |-> 0, redundant |-> redundant,
   garbage |-> FALSE, reason_literal |-> 0, guard_reason_literal |-> 0, pos |-> 3]

(* A row watches one literal more than its degree; a guarded row may have no *)
(* literal to spare.                                                         *)
CARrow(lits, degree, guard) ==
  LET unwatched == IF degree = Len(lits) THEN degree ELSE degree + 1
  IN  [lits |-> lits, native |-> TRUE, unwatched |-> unwatched, guard |-> guard,
       redundant |-> FALSE, garbage |-> FALSE, reason_literal |-> 0,
       guard_reason_literal |-> 0, pos |-> unwatched + 1]

(* The first number no clause has: a freed address is used again. *)
FreshClause(s) ==
  CHOOSE n \in 1 .. Cardinality(DOMAIN s.clauses) + 1 :
    /\ n \notin DOMAIN s.clauses
    /\ \A m \in 1 .. n - 1 : m \in DOMAIN s.clauses

WithClause(s, n, c) ==
  [s EXCEPT !.clauses = [m \in DOMAIN @ \cup {n} |-> IF m = n THEN c ELSE @[m]]]

-----------------------------------------------------------------------------
(* Values and levels. *)

Level(s) == Len(s.control)

TrueLits(s) == {s.trail[i].lit : i \in DOMAIN s.trail}

IsTrue(s, l) == l \in TrueLits(s)

IsFalse(s, l) == -l \in TrueLits(s)

Unassigned(s) == {v \in Vars : v \notin TrueLits(s) /\ -v \notin TrueLits(s)}

(* Where the variable of an assigned literal stands on the trail. *)
TrailIndex(s, l) == CHOOSE i \in DOMAIN s.trail : VarOf(s.trail[i].lit) = VarOf(l)

LevelOf(s, l) == s.trail[TrailIndex(s, l)].level

ReasonOf(s, l) == s.trail[TrailIndex(s, l)].reason

(* The value of a literal at the root: fixed. *)
RootTrue(s) == {s.trail[i].lit : i \in {j \in DOMAIN s.trail : s.trail[j].level = 0}}

RootFalse(s) == {-l : l \in RootTrue(s)}

(* An assignment: a unit belongs to the root, and the root has no reasons.   *)
search_assign(s, l, reason) ==
  LET level == IF reason = UnitReason THEN 0 ELSE Level(s)
  IN  [s EXCEPT !.trail = Append(@,
         [lit |-> l, level |-> level,
          reason |-> IF level = 0 \/ reason = DecisionReason THEN UnitReason ELSE reason])]

search_assume_decision(s, l) ==
  search_assign([s EXCEPT !.control = Append(@, [decision |-> l, trail |-> Len(s.trail)])],
                l, DecisionReason)

(* Mutant: what was propagated counts as propagated still. *)
BacktracksOnly(s, new_level) ==
  IF new_level = Level(s) THEN s
  ELSE [s EXCEPT !.trail = SubSeq(@, 1, s.control[new_level + 1].trail),
                 !.propagated = Min({@, s.control[new_level + 1].trail + 1}),
                 !.control = SubSeq(@, 1, new_level)]

(* The entries above the new level are unassigned, those assigned out of     *)
(* order at a lower level stay.                                              *)
backtrack(s, new_level) ==
  IF new_level = Level(s) THEN s
  ELSE LET below == s.control[new_level + 1].trail
           kept == SelectSeq(SubSeq(s.trail, below + 1, Len(s.trail)),
                             LAMBDA e : e.level <= new_level)
       IN  [s EXCEPT !.trail = SubSeq(@, 1, below) \o kept,
                     !.propagated = IF @ > below THEN below ELSE @,
                     !.control = SubSeq(@, 1, new_level)]

-----------------------------------------------------------------------------
(* Watches. The blocking literal of a watch is another literal of its        *)
(* clause; for a native row it is the position of the watched literal, 0 for *)
(* the guard. The size is a copy made when the watch was put in.             *)

Watch(n, blit, c) == [clause |-> n, blit |-> blit, size |-> Size(c), native |-> c.native]

watch_literal(s, l, blit, n) ==
  [s EXCEPT !.watches[l] = Append(@, Watch(n, blit, s.clauses[n]))]

remove_watch(s, l, n) ==
  [s EXCEPT !.watches[l] = SelectSeq(@, LAMBDA w : w.clause # n)]

watch_clause(s, n) ==
  LET c == s.clauses[n]
  IN  watch_literal(watch_literal(s, c.lits[1], c.lits[2], n), c.lits[2], c.lits[1], n)

CARwatch_clause(s, n) ==
  FoldLeft(LAMBDA t, i : watch_literal(t, s.clauses[n].lits[i], i, n), s,
           [i \in 1 .. s.clauses[n].unwatched |-> i])

CARwatch_guard(s, n) ==
  IF s.clauses[n].guard = 0 THEN s ELSE watch_literal(s, s.clauses[n].guard, 0, n)

NoWatches == [l \in Lits |-> <<>>]

(* The elements of a set in a strict order (SetToSortSeq tries all orders).  *)
Ranked(S, before(_, _)) ==
  [i \in 1 .. Cardinality(S) |-> CHOOSE e \in S : Cardinality({d \in S : before(d, e)}) = i - 1]

(* The numbers of a set in ascending order, as the database lists clauses. *)
InOrder(S) == Ranked(S, <)

(* Connecting watches at the root takes the propagation back to the first    *)
(* watched literal that is false, unless the other one is true.              *)
RewoundBy(s, n) ==
  LET c == s.clauses[n]
      first == {c.lits[1], c.lits[2]}
      false == {l \in first : IsFalse(s, l)}
  IN  IF Level(s) > 0 \/ \E l \in first : IsTrue(s, l) THEN s
      ELSE [s EXCEPT !.propagated = Min({@} \cup {TrailIndex(s, l) - 1 : l \in false})]

(* Clauses of two literals, then the longer ones, then rows, then guards.    *)
connect_watches(s, irredundant_only) ==
  LET live == {n \in DOMAIN s.clauses : /\ ~s.clauses[n].garbage
                                        /\ irredundant_only => ~s.clauses[n].redundant}
      rows == InOrder({n \in live : s.clauses[n].native})
      binary == InOrder({n \in live : Binary(s.clauses[n])})
      long == InOrder({n \in live : ~s.clauses[n].native /\ ~Binary(s.clauses[n])})
      short_done == FoldLeft(watch_clause, s, binary)
      long_done == FoldLeft(LAMBDA t, n : RewoundBy(watch_clause(t, n), n), short_done, long)
      rows_done == FoldLeft(CARwatch_clause, long_done, rows)
  IN  FoldLeft(CARwatch_guard, rows_done, rows)

clear_watches(s) == [s EXCEPT !.watches = NoWatches]
=============================================================================
