----------------------------- MODULE CdclDecide -----------------------------
(* Where the next decision comes from: a heap of variables by score          *)
(* (heap.hpp, score.cpp) or a queue that moves bumped variables to its end   *)
(* (queue.hpp, queue.cpp), and how both are bumped (analyze.cpp).            *)
(*                                                                           *)
(* A heap h has the fields                                                   *)
(*   array      the variables, children of position i at 2i and 2i + 1       *)
(*   stab       variable -> score                                            *)
(*   score_inc  what a bump adds                                             *)
(* Scores are counted in units of 1 / One; a rescaling rounds down to them,  *)
(* as floating point does to its own. A queue q has the fields               *)
(*   order       the variables, the most recently bumped one last            *)
(*   btab        variable -> when it was bumped                              *)
(*   bumps       stats.bumped                                                *)
(*   unassigned  all variables behind this one are assigned                  *)
(*   bumped      when that one was bumped                                    *)
EXTENDS CdclState

CONSTANTS
  One,             \* the score 1
  ScoreLimit       \* evsids_limit_hit: a bound, 1e150 in the code

ASSUME ScoreAssumption == One \in Nat \ {0} /\ ScoreLimit \in Nat /\ ScoreLimit > 4 * One

(* Equal scores: the smaller index is the better one. *)
score_smaller(h, a, b) ==
  h.stab[a] < h.stab[b] \/ (h.stab[a] = h.stab[b] /\ a > b)

contains(h, e) == \E i \in DOMAIN h.array : h.array[i] = e

index(h, e) == CHOOSE i \in DOMAIN h.array : h.array[i] = e

exchange(h, i, k) ==
  [h EXCEPT !.array = [@ EXCEPT ![i] = h.array[k], ![k] = h.array[i]]]

RECURSIVE up(_, _)
up(h, i) ==
  IF i = 1 \/ ~score_smaller(h, h.array[i \div 2], h.array[i]) THEN h
  ELSE up(exchange(h, i, i \div 2), i \div 2)

(* The child that is not smaller than the other, if there is a child. *)
BetterChild(h, i) ==
  LET children == {2 * i, 2 * i + 1} \cap DOMAIN h.array
  IN  CHOOSE c \in children : \A d \in children : ~score_smaller(h, h.array[c], h.array[d])

RECURSIVE down(_, _)
down(h, i) ==
  IF 2 * i > Len(h.array) \/ ~score_smaller(h, h.array[i], h.array[BetterChild(h, i)]) THEN h
  ELSE down(exchange(h, i, BetterChild(h, i)), BetterChild(h, i))

update(h, e) ==
  LET raised == up(h, index(h, e))
  IN  down(raised, index(raised, e))

push_back(h, e) == update([h EXCEPT !.array = Append(@, e)], e)

pop_front(h) ==
  LET n == Len(h.array)
      rest == [exchange(h, 1, n) EXCEPT !.array = SubSeq(@, 1, n - 1)]
  IN  IF n > 2 THEN down(rest, 1) ELSE rest

-----------------------------------------------------------------------------
(* All scores and the increment are divided by the largest of them. *)
rescale_variable_scores(h) ==
  LET divider == Max({h.score_inc} \cup {h.stab[v] : v \in Vars})
      scaled(x) == (x * One) \div divider
  IN  [h EXCEPT !.stab = [v \in Vars |-> scaled(@[v])], !.score_inc = scaled(@)]

(* A variable rises by the increment; one that is not in the heap comes in   *)
(* when it is unassigned.                                                    *)
bump_variable_score(h, v) ==
  LET fit == IF h.stab[v] + h.score_inc > ScoreLimit THEN rescale_variable_scores(h) ELSE h
      bumped == [fit EXCEPT !.stab[v] = @ + fit.score_inc]
  IN  IF contains(h, v) THEN update(bumped, v) ELSE bumped

(* The increment grows, here twofold. *)
bump_variable_score_inc(h) ==
  LET fit == IF 2 * h.score_inc > ScoreLimit THEN rescale_variable_scores(h) ELSE h
  IN  [fit EXCEPT !.score_inc = 2 * @]

(* Assigned variables leave the heap until an unassigned one is on top. *)
RECURSIVE next_decision_variable_with_best_score(_, _)
next_decision_variable_with_best_score(h, assigned) ==
  IF h.array[1] \notin assigned THEN h
  ELSE next_decision_variable_with_best_score(pop_front(h), assigned)

(* The first variable on top. *)
init_scores ==
  FoldLeft(push_back,
           [array |-> <<>>, stab |-> [v \in Vars |-> 0], score_inc |-> One],
           [v \in Vars |-> v])

-----------------------------------------------------------------------------
PositionOf(q, v) == CHOOSE i \in DOMAIN q.order : q.order[i] = v

update_queue_unassigned(q, v) ==
  [q EXCEPT !.unassigned = v, !.bumped = q.btab[v]]

(* Mutant: the time of the bump is not taken. *)
MovesOnly(q, v, assigned) == [q EXCEPT !.order = Append(Remove(@, v), v)]

(* A bumped variable goes to the end, unless it is there. *)
bump_queue(q, v, assigned) ==
  LET moved == [q EXCEPT !.order = Append(Remove(@, v), v),
                         !.bumps = @ + 1,
                         !.btab[v] = q.bumps + 1]
  IN  IF Last(q.order) = v THEN q
      ELSE IF v \in assigned THEN moved ELSE update_queue_unassigned(moved, v)

(* The last unassigned variable not behind the pointer, which moves there. *)
next_decision_variable_on_queue(q, assigned) ==
  LET open == {i \in 1 .. PositionOf(q, q.unassigned) : q.order[i] \notin assigned}
  IN  IF q.unassigned \notin assigned THEN q
      ELSE update_queue_unassigned(q, q.order[Max(open)])

(* Mutant: the pointer stays where it is. *)
KeepsPointer(q, v) == q

(* An unassigned variable behind the pointer takes it along. *)
QueueUnassign(q, v) ==
  IF q.bumped < q.btab[v] THEN update_queue_unassigned(q, v) ELSE q

init_queue ==
  [order |-> [v \in Vars |-> v], btab |-> [v \in Vars |-> v], bumps |-> max_var,
   unassigned |-> max_var, bumped |-> max_var]
=============================================================================
