--------------------------- MODULE CdclHeuristics ---------------------------
(* The search of Cdcl with what steers it: which variable is decided and     *)
(* with which phase, how far a restart goes back, when a stable phase        *)
(* restarts, and the phases that a rephasing puts in, the walk among them.   *)
(* Each step of the search is the one of Cdcl together with what it does to  *)
(* the queue, the heap and the phases.                                       *)
EXTENDS Cdcl, CdclDecide, CdclWalk

CONSTANT ReluctantPeriod, ReluctantMax    \* the options reluctant and reluctantmax

ASSUME ReluctantAssumption ==
  ReluctantPeriod \in Nat \ {0} /\ \E k \in 1 .. 30 : ReluctantMax = 2^k

VARIABLES
  queue, scores,
  phases,           \* saved, target, best: variable -> phase, 0 for none, and more below
  stable,
  rephasings,       \* lim.rephased: how often, per mode
  reluctant,        \* when a stable phase restarts
  walker            \* the walk of a rephasing

heuristics == <<queue, scores, phases, stable, rephasings, reluctant, walker>>

hvars == <<vars, heuristics>>

(* target_trail and best_trail keep the literals whose phases target and     *)
(* best were copied for; they only serve PhasesConflictFree.                 *)
InitialPhases ==
  [saved |-> [v \in Vars |-> 1], target |-> [v \in Vars |-> 0], best |-> [v \in Vars |-> 0],
   target_assigned |-> 0, best_assigned |-> 0, rephased |-> "none", since |-> FALSE,
   target_trail |-> {}, best_trail |-> {}]

(* turns counts how often the sequence has been advanced. *)
InitialReluctant ==
  [u |-> 1, v |-> 1, countdown |-> ReluctantPeriod, trigger |-> FALSE, turns |-> 0]

HeuristicsInit ==
  /\ Init
  /\ queue = init_queue
  /\ scores = init_scores
  /\ phases = InitialPhases
  /\ stable = FALSE
  /\ rephasings = [mode \in BOOLEAN |-> 0]
  /\ reluctant = InitialReluctant
  /\ walker = NoWalk

-----------------------------------------------------------------------------
(* What backtracking and assigning do to the heuristics.                     *)

AssignedVars(s) == {VarOf(l) : l \in TrueLits(s)}

(* The entries two trails begin with. *)
InCommon(s, t) ==
  Max({0} \cup {i \in DOMAIN s.trail \cap DOMAIN t.trail : SubSeq(s.trail, 1, i) = SubSeq(t.trail, 1, i)})

Undone(s, t) == SubSeq(s.trail, InCommon(s, t) + 1, Len(s.trail))

Added(s, t) == {t.trail[i].lit : i \in InCommon(s, t) + 1 .. Len(t.trail)}

(* Unassigned variables come back into the heap and move the pointer of the  *)
(* queue.                                                                    *)
HeapUnassign(h, entries) ==
  FoldLeft(LAMBDA k, e : IF contains(k, VarOf(e.lit)) THEN k ELSE push_back(k, VarOf(e.lit)),
           h, entries)

QueueAfter(q, entries) == FoldLeft(LAMBDA r, e : QueueUnassign(r, VarOf(e.lit)), q, entries)

(* An assigned variable's phase is saved. *)
SavedWith(saved_phases, lits) ==
  [v \in Vars |-> IF v \in lits THEN 1 ELSE IF -v \in lits THEN -1 ELSE saved_phases[v]]

(* Mutant: with a conflict, too, the whole trail counts. *)
WholeTrail(s) == Len(s.trail)

(* What is propagated, or without the level in which there is a conflict. *)
no_conflict_until(s) ==
  IF s.conflict = 0 THEN s.propagated ELSE IF Level(s) = 0 THEN 0 ELSE s.control[Level(s)].trail

(* The phases of the longest trail without conflict are kept: since the last *)
(* rephasing as target, since the last return to them as best.               *)
update_target_and_best(p, s) ==
  LET reset == p.rephased # "none" /\ p.since
      until == no_conflict_until(s)
      prefix == {e.lit : e \in {s.trail[i] : i \in {k \in 1 .. until : s.trail[k].level > 0}}}
      target_assigned == IF reset THEN 0 ELSE p.target_assigned
      best_assigned == IF reset /\ p.rephased = "best" THEN 0 ELSE p.best_assigned
      targeted == IF until > target_assigned
                  THEN [p EXCEPT !.target = p.saved, !.target_assigned = until, !.target_trail = prefix]
                  ELSE [p EXCEPT !.target_assigned = target_assigned]
      both == IF until > best_assigned
              THEN [targeted EXCEPT !.best = p.saved, !.best_assigned = until, !.best_trail = prefix]
              ELSE [targeted EXCEPT !.best_assigned = best_assigned]
  IN  [both EXCEPT !.rephased = IF reset THEN "none" ELSE @]

PhasesAfter(p, s, t) ==
  LET left == IF Level(t) < Level(s) THEN update_target_and_best(p, s) ELSE p
  IN  [left EXCEPT !.saved = SavedWith(@, Added(s, t)), !.since = @ \/ t.conflict # 0]

(* The step of the search, from queue q and heap h. *)
FollowsFrom(q, h) ==
  /\ queue' = QueueAfter(q, Undone(Here, Here'))
  /\ scores' = HeapUnassign(h, Undone(Here, Here'))

Follows == FollowsFrom(queue, scores) /\ phases' = PhasesAfter(phases, Here, Here')

-----------------------------------------------------------------------------
(* The restarts of a stable phase: reluctant doubling.                       *)

LowBit(u) == Max({p \in {2^k : k \in 0 .. u} : u % p = 0})

(* Mutant: the sequence doubles without end. *)
DoublesOnly(r) == [r EXCEPT !.v = 2 * @]

Doubled(r) ==
  IF LowBit(r.u) = r.v THEN [r EXCEPT !.u = @ + 1, !.v = 1] ELSE [r EXCEPT !.v = 2 * @]

(* Once triggered it waits until the restart has been asked for. *)
tick(r) ==
  LET d == Doubled(r)
      turned == IF d.v >= ReluctantMax THEN [d EXCEPT !.u = 1, !.v = 1] ELSE d
  IN  IF r.trigger THEN r
      ELSE IF r.countdown > 1 THEN [r EXCEPT !.countdown = @ - 1]
      ELSE [turned EXCEPT !.countdown = turned.v * ReluctantPeriod, !.trigger = TRUE, !.turns = @ + 1]

-----------------------------------------------------------------------------
(* Bumping: what conflict analysis met becomes more important.               *)

(* All literals seen while Resolved goes back from seen. *)
RECURSIVE EverSeen(_, _)
EverSeen(s, seen) ==
  LET open == AtLevel(s, seen, Level(s))
      last == LastAssigned(s, open)
  IN  IF Cardinality(open) = 1 THEN seen
      ELSE seen \cup EverSeen(s, (seen \ {last}) \cup
                                 NotFixed(s, Antecedents(s, ReasonOf(s, last), -last)))

(* Those, and the literals that shrinking put in place of others. A learned  *)
(* unit bumps nothing.                                                       *)
Analyzed(s) ==
  LET start == NotFixed(s, ConflictLiterals(s, s.conflict))
      seen == Resolved(s, start)
      uip == AtLevel(s, seen, Level(s))
  IN  IF Level(s) = 0 \/ Cardinality(seen) = 1 THEN {}
      ELSE {VarOf(l) : l \in EverSeen(s, start) \cup shrink_and_minimize_clause(s, seen \ uip)}

(* On the queue they keep their order. *)
QueueBumped(q, bumped, assigned) ==
  FoldLeft(LAMBDA r, v : bump_queue(r, v, assigned), q,
           Ranked(bumped, LAMBDA u, v : q.btab[u] < q.btab[v]))

(* The order in which scores are bumped matters when they are rescaled; here *)
(* it is that of the indices.                                                *)
HeapBumped(h, bumped) ==
  LET higher == FoldLeft(bump_variable_score, h, InOrder(bumped))
  IN  IF bumped = {} THEN h ELSE bump_variable_score_inc(higher)

-----------------------------------------------------------------------------
(* Decisions and restarts.                                                   *)

(* What is to be decided next, and queue and heap after it was looked up.    *)
Looked ==
  LET assigned == AssignedVars(Here)
      q == next_decision_variable_on_queue(queue, assigned)
      h == next_decision_variable_with_best_score(scores, assigned)
  IN  IF stable THEN [variable |-> h.array[1], queue |-> queue, scores |-> h]
      ELSE [variable |-> q.unassigned, queue |-> q, scores |-> scores]

(* A stable phase prefers the target phase. *)
decide_phase(v, target) ==
  IF target /\ phases.target[v] # 0 THEN phases.target[v] * v ELSE phases.saved[v] * v

(* The decision of a level comes before the next variable. *)
DecidedBefore(next, level) ==
  LET v == VarOf(control[level].decision)
  IN  IF stable THEN score_smaller(next.scores, next.variable, v)
      ELSE queue.btab[v] > queue.btab[next.variable]

(* Levels whose decisions would be taken again are kept. *)
reuse_trail(next) ==
  LET base == Len(query.assumptions)
      trivial == base + (IF control[base + 1].decision = 0 THEN 1 ELSE 0)
  IN  Max({level \in trivial .. Level(Here) :
             \A k \in trivial + 1 .. level : DecidedBefore(next, k)})

(* Asked while it is triggered, a stable phase restarts before all else. *)
MustRestart == stable /\ reluctant.trigger /\ Restartable /\ Left("restart")

Consumed(r) == [r EXCEPT !.trigger = FALSE]

-----------------------------------------------------------------------------
(* The steps of the search, with their heuristics. *)

Steady == UNCHANGED <<stable, rephasings, reluctant, walker>>

(* Calls and returns that leave the heuristics alone. *)
Untouched ==
  /\ ~walker.on
  /\ CallAssume \/ CallLimit \/ FindUnsat \/ FindModel \/ GiveUp
  /\ UNCHANGED heuristics

HCallAdd == ~walker.on /\ CallAdd /\ Follows /\ Steady

HCallConstrain == ~walker.on /\ CallConstrain /\ Follows /\ Steady

(* init_search_limits: a solve starts unstable, its schedules anew. *)
HCallSolve ==
  /\ ~walker.on
  /\ CallSolve
  /\ Follows
  /\ IF stage' = "ready" THEN UNCHANGED <<stable, rephasings, reluctant>>
     ELSE stable' = FALSE /\ rephasings' = [mode \in BOOLEAN |-> 0] /\ reluctant' = InitialReluctant
  /\ UNCHANGED walker

HBeginSearch == ~walker.on /\ BeginSearch /\ Follows /\ Steady

HPropagate == ~walker.on /\ Propagate /\ Follows /\ Steady

HAnalyze ==
  LET bumped == Analyzed(Here)
  IN  /\ ~walker.on
      /\ Analyze
      /\ FollowsFrom(IF stable THEN queue ELSE QueueBumped(queue, bumped, AssignedVars(Here)),
                     IF stable THEN HeapBumped(scores, bumped) ELSE scores)
      /\ phases' = PhasesAfter(phases, Here, Here')
      /\ reluctant' = IF stable /\ Level(Here) > 0 THEN tick(reluctant) ELSE reluctant
      /\ UNCHANGED <<stable, rephasings, walker>>

HRestart ==
  LET next == Looked
  IN  /\ ~walker.on
      /\ stable => reluctant.trigger
      /\ restart
      /\ Level(Here') = reuse_trail(next)
      /\ FollowsFrom(next.queue, next.scores)
      /\ phases' = PhasesAfter(phases, Here, Here')
      /\ reluctant' = IF stable THEN Consumed(reluctant) ELSE reluctant
      /\ UNCHANGED <<stable, rephasings, walker>>

(* Becoming stable, restarting() says what is triggered. *)
HStabilizing ==
  /\ ~walker.on
  /\ stabilizing
  /\ stable' = ~stable
  /\ ~stable => (stage' = "restart" <=> reluctant.trigger)
  /\ reluctant' = IF stable THEN reluctant ELSE Consumed(reluctant)
  /\ Follows
  /\ UNCHANGED <<rephasings, walker>>

HRestartAtRoot ==
  /\ ~walker.on
  /\ RestartAtRoot
  /\ queue' = Looked.queue
  /\ scores' = Looked.scores
  /\ UNCHANGED phases
  /\ Steady

HReduce == ~walker.on /\ ~MustRestart /\ Reduce /\ Follows /\ Steady

HDecide ==
  LET free == ~AtAssumption /\ ~AtConstraint
      next == Looked
  IN  /\ ~walker.on
      /\ ~MustRestart
      /\ Decide
      /\ IF free
         THEN /\ Last(trail').lit = decide_phase(next.variable, stable)
              /\ queue' = next.queue
              /\ scores' = next.scores
         ELSE UNCHANGED <<queue, scores>>
      /\ phases' = PhasesAfter(phases, Here, Here')
      /\ Steady

-----------------------------------------------------------------------------
(* Rephasing: in each mode the kinds take turns. *)
Schedule(count) ==
  IF stable
  THEN IF count < 2 THEN <<"original", "inverted">>[count + 1]
       ELSE <<"best", "walk", "original", "best", "walk", "inverted">>[((count - 2) % 6) + 1]
  ELSE IF count = 0 THEN "flipping"
       ELSE <<"random", "best", "walk", "flipping", "best", "walk">>[((count - 1) % 6) + 1]

(* The saved phases that a rephasing of this kind may leave. *)
Rephased(kind, p) ==
  CASE kind = "original" -> {[v \in Vars |-> 1]}
    [] kind = "inverted" -> {[v \in Vars |-> -1]}
    [] kind = "flipping" -> {[v \in Vars |-> -p.saved[v]]}
    [] kind = "random" -> [Vars -> {1, -1}]
    [] kind = "best" -> {[v \in Vars |-> IF p.best[v] = 0 THEN p.saved[v] ELSE p.best[v]]}
    [] kind = "walk" -> {p.saved}

(* The phases of walk w are saved if they are the best so far. *)
SavedFrom(w, saved_phases) == IF NewMinimum(w) THEN PhasesOf(w) ELSE saved_phases

(* The target is forgotten, and the next walk is begun if it is its turn.    *)
HRephase ==
  LET kind == Schedule(rephasings[stable])
      left == PhasesAfter(phases, Here, backtrack(Here, 0))
      round == walk_round(Here', query.assumptions, left.saved, walker.global)
  IN  /\ ~walker.on
      /\ ~MustRestart
      /\ phases.since
      /\ rephase
      /\ Here' = IF kind = "walk" THEN Walked(Here) ELSE backtrack(Here, 0)
      /\ rephasings' = [rephasings EXCEPT ![stable] = @ + 1]
      /\ walker' = IF kind = "walk" THEN walk_save_minimum(round) ELSE walker
      /\ \E saved_phases \in Rephased(kind, left) :
           phases' = [left EXCEPT
                        !.saved = IF kind = "walk" THEN SavedFrom(round, @) ELSE saved_phases,
                        !.target = [v \in Vars |-> 0], !.target_assigned = 0, !.target_trail = {},
                        !.rephased = kind, !.since = FALSE]
      /\ FollowsFrom(queue, scores)
      /\ UNCHANGED <<stable, reluctant>>

(* A flip, until nothing is broken or the effort is spent. *)
WalkFlip ==
  /\ walker.on
  /\ walker.flips < WalkLimit
  /\ \E l \in walk_pick_lit(walker) :
       LET w == walk_flip_lit(walker, l)
           fewer == Cardinality(w.broken) < w.minimum
           lower == [w EXCEPT !.minimum = Cardinality(w.broken)]
       IN  IF fewer
           THEN /\ walker' = walk_save_minimum(lower)
                /\ phases' = [phases EXCEPT !.saved = SavedFrom(lower, @)]
           ELSE walker' = w /\ UNCHANGED phases
  /\ UNCHANGED <<vars, queue, scores, stable, rephasings, reluctant>>

WalkStop ==
  /\ walker.on
  /\ walker' = [NoWalk EXCEPT !.global = walker.global]
  /\ UNCHANGED <<vars, queue, scores, phases, stable, rephasings, reluctant>>

-----------------------------------------------------------------------------
HNext ==
  \/ Untouched \/ HCallAdd \/ HCallConstrain \/ HCallSolve
  \/ HBeginSearch \/ HPropagate \/ HAnalyze
  \/ HRestart \/ HStabilizing \/ HRestartAtRoot \/ HReduce \/ HDecide \/ HRephase
  \/ WalkFlip \/ WalkStop

HSpec == HeuristicsInit /\ [][HNext]_hvars

-----------------------------------------------------------------------------
(* Properties. *)

(* The next decision is found where it is looked for, whatever was bumped,   *)
(* assigned and unassigned while the other mode decided: the queue is in the *)
(* order of bumping and all variables behind its pointer are assigned; no    *)
(* score in the heap is higher than its parent's, and every unassigned       *)
(* variable is there, once. (Rescaling rounds: scores that become equal may  *)
(* stand against the order of their indices.)                                *)
PrioritiesRight ==
  /\ \A i, j \in DOMAIN queue.order :
       i < j => queue.btab[queue.order[i]] < queue.btab[queue.order[j]]
  /\ queue.bumped = queue.btab[queue.unassigned]
  /\ \A v \in Unassigned(Here) : queue.btab[v] <= queue.bumped
  /\ \A i \in 2 .. Len(scores.array) :
       scores.stab[scores.array[i \div 2]] >= scores.stab[scores.array[i]]
  /\ Unassigned(Here) \subseteq Range(scores.array)
  /\ Cardinality(Range(scores.array)) = Len(scores.array)

(* A free decision is on the best of all unassigned variables: the one with  *)
(* the highest score in a stable phase, else the last bumped.                *)
BestDecided ==
  [][(Decide /\ ~DecideFails /\ ~AtAssumption /\ ~AtConstraint) =>
       LET v == VarOf(Last(trail').lit)
       IN  \A u \in Unassigned(Here) \ {v} :
             IF stable THEN scores.stab[u] <= scores.stab[v] ELSE queue.btab[u] < queue.btab[v]]_hvars

(* Phases to be followed: the literals agree with them and break no row.     *)
Followable(lits, chosen) ==
  /\ \A l \in lits : chosen[VarOf(l)] * VarOf(l) = l
  /\ \A row \in formula : row.guard = 0 =>
       Cardinality({l \in row.lits : -l \notin lits}) >= row.degree

(* Target and best phases are those of an assignment without conflict: the   *)
(* trail for which they are copied breaks no row of the formula.             *)
PhasesConflictFree ==
  [][/\ phases'.target_trail # phases.target_trail =>
          Followable(phases'.target_trail, phases'.target)
     /\ phases'.best_trail # phases.best_trail =>
          Followable(phases'.best_trail, phases'.best)]_hvars

(* What the walk keeps agrees with its assignment after every flip: exactly  *)
(* the broken clauses and rows are listed, the true literals of a broken row *)
(* are in its front, the front of a satisfied one is true, the true literals *)
(* of the fronts watch, and something broken can be flipped.                 *)
WalkExact ==
  walker.on =>
    /\ walker.broken = {n \in DOMAIN walker.given : CARnSat(walker, n) < Needs(walker, n)}
    /\ \A n \in DOMAIN walker.given :
         LET true == LitSet(walker.given[n]) \cap walker.true
         IN  /\ Cardinality(walker.front[n]) = Needs(walker, n)
             /\ IF n \in walker.broken THEN true \subseteq walker.front[n]
                ELSE walker.front[n] \subseteq true
    /\ \A l \in Lits :
         walker.watching[l] = {n \in DOMAIN walker.given : l \in walker.front[n] \cap walker.true}
    /\ \A n \in walker.broken : Flippable(walker, n) # {}

(* The walk leaves the search the best phases it has ever seen: once a round *)
(* improves on all rounds before, the saved phases break as few as the       *)
(* global minimum says, and what it stands on never breaks fewer.            *)
SavedBreakFewest ==
  walker.on =>
    /\ walker.global <= Min({walker.before, Cardinality(walker.broken)})
    /\ walker.global < walker.before =>
         Cardinality({n \in DOMAIN walker.given :
           Cardinality({l \in LitSet(walker.given[n]) : phases.saved[VarOf(l)] * VarOf(l) = l})
             < Needs(walker, n)}) = walker.global

(* The sequence of Luby, Sinclair and Zuckerman by its definition. *)
Luby[i \in Nat \ {0}] ==
  LET k == CHOOSE e \in 1 .. i : 2^(e - 1) <= i /\ i < 2^e
  IN  IF i = 2^k - 1 THEN 2^(k - 1) ELSE Luby[i - 2^(k - 1) + 1]

(* The n-th pause: Luby's sequence, anew each time it would reach the limit. *)
Pause(n) == Luby[(n % (2 * ReluctantMax - 2)) + 1]

(* The pauses between the restarts of a stable phase are Luby's, up to here  *)
(* and in all turns to come.                                                 *)
RestartsByLuby ==
  LET turn(r) == tick([r EXCEPT !.trigger = FALSE, !.countdown = 1])
      later(n) == FoldLeft(LAMBDA r, i : turn(r), reluctant, [i \in 1 .. n |-> i])
  IN  /\ reluctant.countdown \in 1 .. reluctant.v * ReluctantPeriod
      /\ \A n \in 0 .. 2 * ReluctantMax : later(n).v = Pause(reluctant.turns + n)
=============================================================================
