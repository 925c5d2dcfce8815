------------------------------ MODULE CdclWalk ------------------------------
(* The random walk that looks for better phases (walk.cpp). It flips one     *)
(* literal of a broken clause or row at a time. A satisfied clause is        *)
(* watched by one true literal, which stands first; a row by true literals   *)
(* among its first CARbound, by as many if it is satisfied.                  *)
(*                                                                           *)
(* A walk w has the fields                                                   *)
(*   on        a walk is under way                                           *)
(*   given     number -> clause: what is walked on                           *)
(*   true      the literals that are true                                    *)
(*   assumed   variables of level 1, which are not flipped                   *)
(*   front     number -> the literals in the first CARbound positions        *)
(*   watching  literal -> the numbers it watches                             *)
(*   broken    the numbers in the lists broken and broken_card               *)
(*   flips     how many there were in this round                             *)
(*   minimum   the fewest broken in this round                               *)
(*   global    the fewest ever, stats.walk.minimum                           *)
(*   before    global when the round began                                   *)
(* Of the order of literals only the first CARbound are kept. Break counts,  *)
(* and the scores computed from them, give every candidate some chance.      *)
EXTENDS CdclAdd

CONSTANT WalkLimit      \* flips of a round: a bound, the code counts memory accesses

(* LONG_MAX *)
NoMinimum == 1000

NoWalk ==
  [on |-> FALSE, given |-> <<>>, true |-> {}, assumed |-> {}, front |-> <<>>,
   watching |-> [l \in Lits |-> {}], broken |-> {}, flips |-> 0, minimum |-> 0,
   global |-> NoMinimum, before |-> NoMinimum]

(* The number of true literals. *)
CARnSat(w, n) == Cardinality(LitSet(w.given[n]) \cap w.true)

Needs(w, n) == CARbound(w.given[n])

(* False literals of n that may be flipped. *)
Flippable(w, n) ==
  {l \in LitSet(w.given[n]) : -l \in w.true /\ VarOf(l) \notin w.assumed}

Watches(w, l, n) == [w EXCEPT !.watching[l] = @ \cup {n}]

-----------------------------------------------------------------------------
(* Starting a round.                                                         *)

(* Assumptions that are not fixed are made true, the other variables as      *)
(* their phases say.                                                         *)
InitiallyTrue(s, assumptions, phase) ==
  LET given == Range(assumptions) \cup TrueLits(s)
  IN  given \cup {phase[v] * v : v \in {u \in Vars : u \notin given /\ -u \notin given}}

(* True literals are moved to the front. *)
InitialFront(w, n) ==
  LET lits == w.given[n].lits
      true == SelectSeq(lits, LAMBDA l : l \in w.true)
      false == SelectSeq(lits, LAMBDA l : l \notin w.true)
  IN  Range(SubSeq(true \o false, 1, Needs(w, n)))

(* Assumptions that are false at the root or deny each other, a clause or a  *)
(* row that they falsify: there is no walk.                                  *)
Inconsistent(s, w, assumptions) ==
  \/ \E l \in Range(assumptions) : IsFalse(s, l) \/ -l \in Range(assumptions)
  \/ \E n \in DOMAIN w.given : CARnSat(w, n) + Cardinality(Flippable(w, n)) < Needs(w, n)

(* Watches of what is satisfied, and the lists of what is broken. *)
Registered(w) ==
  [w EXCEPT !.front = [n \in DOMAIN w.given |-> InitialFront(w, n)],
            !.watching = [l \in Lits |-> {n \in DOMAIN w.given : l \in w.true \cap InitialFront(w, n)}],
            !.broken = {n \in DOMAIN w.given : CARnSat(w, n) < Needs(w, n)}]

(* A round on the irredundant clauses and rows of s, with the global minimum *)
(* of the rounds before.                                                     *)
walk_round(s, assumptions, phase, global) ==
  LET used == {n \in DOMAIN s.clauses : ~s.clauses[n].garbage /\ ~s.clauses[n].redundant}
      w == [NoWalk EXCEPT
              !.given = [n \in used |-> s.clauses[n]],
              !.true = InitiallyTrue(s, assumptions, phase),
              !.assumed = {VarOf(l) : l \in Range(assumptions)},
              !.global = global, !.before = global]
      r == Registered(w)
  IN  IF Inconsistent(s, w, assumptions) THEN [NoWalk EXCEPT !.global = global]
      ELSE [r EXCEPT !.on = TRUE, !.minimum = Cardinality(r.broken)]

-----------------------------------------------------------------------------
(* A flip: l becomes true.                                                   *)

(* Mutant: a broken row keeps its literal where it is. *)
MakeInPlace(w, l, n) ==
  IF CARnSat(w, n) < Needs(w, n) THEN Watches(w, l, n)
  ELSE [Watches(w, l, n) EXCEPT !.broken = @ \ {n}]

(* A broken clause with l is made. A broken row with l takes it to its front *)
(* and is made if that is enough.                                            *)
MakeOne(w, l, n) ==
  LET watched == Watches(w, l, n)
      out == CHOOSE k \in w.front[n] : k \notin w.true
      taken == IF l \in w.front[n] THEN watched
               ELSE [watched EXCEPT !.front[n] = (@ \ {out}) \cup {l}]
  IN  IF CARnSat(w, n) < Needs(w, n) THEN taken ELSE [taken EXCEPT !.broken = @ \ {n}]

(* What -l watched finds another true literal, or is broken now, or was so   *)
(* before.                                                                   *)
BreakOne(w, l, n) ==
  LET other == CHOOSE k \in (LitSet(w.given[n]) \cap w.true) \ w.front[n] : TRUE
  IN  CASE CARnSat(w, n) >= Needs(w, n) ->
             Watches([w EXCEPT !.front[n] = (@ \ {-l}) \cup {other}], other, n)
        [] CARnSat(w, n) = Needs(w, n) - 1 -> [w EXCEPT !.broken = @ \cup {n}]
        [] OTHER -> w

walk_flip_lit(w, l) ==
  LET flipped == [w EXCEPT !.true = (@ \ {-l}) \cup {l}, !.flips = @ + 1]
      made == FoldLeft(LAMBDA t, n : MakeOne(t, l, n), flipped,
                       InOrder({n \in w.broken : l \in LitSet(w.given[n])}))
      broken == FoldLeft(LAMBDA t, n : BreakOne(t, l, n), made, InOrder(w.watching[-l]))
  IN  [broken EXCEPT !.watching[-l] = {}]

(* The literals a step may flip. *)
walk_pick_lit(w) == UNION {Flippable(w, n) : n \in w.broken}

-----------------------------------------------------------------------------
(* Mutant: only the minimum of the round counts. *)
SavesRoundMinimum(w) == w.on /\ Cardinality(w.broken) <= w.minimum

(* Phases are saved when fewer are broken than ever before. *)
NewMinimum(w) == w.on /\ Cardinality(w.broken) < w.global

walk_save_minimum(w) ==
  IF NewMinimum(w) THEN [w EXCEPT !.global = Cardinality(w.broken)] ELSE w

PhasesOf(w) == [v \in Vars |-> IF v \in w.true THEN 1 ELSE -1]
=============================================================================
