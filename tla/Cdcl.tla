-------------------------------- MODULE Cdcl ---------------------------------
(* The CDCL solver of src/lib/ccdcl/src as its client sees it: rows are      *)
(* added, literals assumed, a constraint given, and solve() answers. A solve *)
(* walks first (the hook into the local search), tries to satisfy the        *)
(* formula by the phases the walk saved, and then runs the search loop.      *)
(*                                                                           *)
(* Inprocessing that rewrites clauses is left out; here the database changes *)
(* by learning, by reduction and by root-level simplification.               *)
EXTENDS CdclAdd

CONSTANTS
  Scripts,          \* sequences of calls, of which the client makes one
  Upkeep            \* how often "restart", "rephase", "reduce" and "switch" may
                    \* happen in a solve, as functions: a bound, the code goes on

VARIABLES
  clauses, watches, trail, control, propagated, conflict, conflict_literal, unsat,
  script,           \* the calls the client has still to make
  formula,          \* the rows added so far, as the client gave them
  query,            \* assumptions and constraint of the next solve
  stage,            \* where solve() is; "ready" between calls
  verdict,          \* the state of the API
  saved,            \* the phases the walk saved, as literals, while they are tried;
                    \* after that they only steer decisions, which are free here
  limits,           \* of the next solve
  spent,            \* what this solve has used of them
  due               \* upkeep that may still happen in this solve

search == <<clauses, watches, trail, control, propagated, conflict, conflict_literal, unsat>>

vars == <<search, script, formula, query, stage, verdict, saved, limits, spent, due>>

Here ==
  [clauses |-> clauses, watches |-> watches, trail |-> trail, control |-> control,
   propagated |-> propagated, conflict |-> conflict, conflict_literal |-> conflict_literal,
   unsat |-> unsat]

Become(s) ==
  /\ clauses' = s.clauses
  /\ watches' = s.watches
  /\ trail' = s.trail
  /\ control' = s.control
  /\ propagated' = s.propagated
  /\ conflict' = s.conflict
  /\ conflict_literal' = s.conflict_literal
  /\ unsat' = s.unsat

(* A query: what the client assumes, the constraint as it gave it and what   *)
(* is left of it at the root, whether the constraint has failed.             *)
NoQuery == [assumptions |-> <<>>, given |-> <<>>, constraint |-> <<>>, unsat_constraint |-> FALSE]

(* Limits on conflicts and decisions (-1 for none), rounds of the walk, and  *)
(* whether termination may be forced from outside.                           *)
NoLimits == [conflicts |-> -1, decisions |-> -1, localsearch |-> 0, terminate |-> 0]

Nothing == [conflicts |-> 0, decisions |-> 0, localsearch |-> 0]

Init ==
  /\ clauses = <<>>
  /\ watches = NoWatches
  /\ trail = <<>>
  /\ control = <<>>
  /\ propagated = 0
  /\ conflict = 0
  /\ conflict_literal = 0
  /\ unsat = FALSE
  /\ script \in Scripts
  /\ formula = {}
  /\ query = NoQuery
  /\ stage = "ready"
  /\ verdict = "unknown"
  /\ saved = {}
  /\ limits = NoLimits
  /\ spent = Nothing
  /\ due = <<>>

-----------------------------------------------------------------------------
(* Calls of the client. *)

Calls(op) ==
  /\ stage = "ready"
  /\ script # <<>>
  /\ Head(script).op = op
  /\ script' = Tail(script)

(* What was asked before an answer goes with the call after it. *)
Asked == IF verdict = "unknown" THEN query ELSE NoQuery

transition_to_unknown_state(asked) ==
  /\ verdict' = "unknown"
  /\ query' = asked

(* A row is added. *)
CallAdd ==
  LET call == Head(script)
  IN  /\ Calls("add")
      /\ transition_to_unknown_state(Asked)
      /\ formula' = formula \cup {[lits |-> Range(call.lits), degree |-> call.degree,
                                   guard |-> call.guard]}
      /\ Become(CARadd_original_lit(backtrack(Here, 0), call))
      /\ UNCHANGED <<stage, saved, limits, spent, due>>

(* A literal is assumed; assuming it again changes nothing. *)
CallAssume ==
  /\ Calls("assume")
  /\ transition_to_unknown_state(
       IF Head(script).lit \in Range(Asked.assumptions) THEN Asked
       ELSE [Asked EXCEPT !.assumptions = Append(@, Head(script).lit)])
  /\ UNCHANGED <<search, formula, stage, saved, limits, spent, due>>

(* A constraint replaces the one before it. Root-false literals and          *)
(* duplicates leave it; what is satisfied at the root is no constraint.      *)
constrain(s, lits) ==
  LET left == Distinct(Unvalued(s, lits))
      satisfied == \E l \in Range(lits) : IsTrue(s, l) \/ (-l \in Range(left) /\ l \in Range(left))
  IN  [Asked EXCEPT !.given = lits,
                    !.constraint = IF satisfied THEN <<>> ELSE left,
                    !.unsat_constraint = ~satisfied /\ left = <<>>]

CallConstrain ==
  /\ Calls("constrain")
  /\ transition_to_unknown_state(constrain(backtrack(Here, 0), Head(script).lits))
  /\ Become(backtrack(Here, 0))
  /\ UNCHANGED <<formula, stage, saved, limits, spent, due>>

(* A limit for the next solve. *)
CallLimit ==
  /\ Calls("limit")
  /\ limits' = [limits EXCEPT ![Head(script).name] = Head(script).value]
  /\ UNCHANGED <<search, formula, query, stage, verdict, saved, spent, due>>

(* Without a constraint solve() walks as often as it may. *)
Starts(asked, rounds) ==
  IF asked.constraint = <<>> /\ rounds < limits.localsearch THEN "walk" ELSE "begin"

(* solve() answers at once if the root is in conflict. *)
CallSolve ==
  LET root == CARpropagate(backtrack(Here, 0))
      at_once == unsat \/ Asked.unsat_constraint
      s == IF at_once THEN Here
           ELSE IF root.conflict # 0 THEN learn_empty_clause(root) ELSE root
  IN  /\ Calls("solve")
      /\ query' = Asked
      /\ spent' = Nothing
      /\ due' \in Upkeep
      /\ Become(s)
      /\ IF at_once \/ s.unsat
         THEN verdict' = "unsatisfied" /\ limits' = NoLimits /\ UNCHANGED stage
         ELSE verdict' = "unknown" /\ stage' = Starts(Asked, 0) /\ UNCHANGED limits
      /\ UNCHANGED <<formula, saved>>

-----------------------------------------------------------------------------
(* solve() returns. Without an answer the assumptions are reset; the limits  *)
(* always are.                                                               *)
Return(answer) ==
  /\ stage' = "ready"
  /\ limits' = NoLimits
  /\ verdict' = answer
  /\ query' = IF answer = "unknown" THEN [query EXCEPT !.assumptions = <<>>] ELSE query

(* The walk runs on the root-simplified clauses, without regard to the       *)
(* assumptions, and saves its assignment as phases. It says 10 only for a    *)
(* model, and may stop short of one.                                         *)
card_walk_round ==
  LET s == garbage_collection(clear_watches(backtrack(Here, 0)))
  IN  /\ stage = "walk"
      /\ \A i \in DOMAIN query.assumptions : ~IsFalse(Here, query.assumptions[i])
      /\ \E M \in Assignments(Unassigned(s)) :
           \/ (\A c \in Given(s) : Meets(M, c)) /\ stage' = "try" /\ saved' = M
           \/ stage' = Starts(query, spent.localsearch + 1) /\ saved' = {}
      /\ spent' = [spent EXCEPT !.localsearch = @ + 1]
      /\ Become(connect_watches(clear_watches(s), FALSE))
      /\ UNCHANGED <<script, formula, query, verdict, limits, due>>

-----------------------------------------------------------------------------
(* Decisions: assumptions first, one level each, then the constraint, then   *)
(* any variable. The order and the phases of the last are heuristics.        *)

PseudoLevel(s) == [s EXCEPT !.control = Append(@, [decision |-> 0, trail |-> Len(s.trail)])]

NextAssumption == query.assumptions[Level(Here) + 1]

AtAssumption == Level(Here) < Len(query.assumptions)

AtConstraint == Level(Here) = Len(query.assumptions) /\ query.constraint # <<>>

(* decide() finds an assumption or the whole constraint false. *)
DecideFails ==
  \/ AtAssumption /\ IsFalse(Here, NextAssumption)
  \/ AtConstraint /\ \A l \in Range(query.constraint) : IsFalse(Here, l)

(* The states after a decision with these phases. *)
Decided(phases) ==
  IF AtAssumption
  THEN {IF IsTrue(Here, NextAssumption) THEN PseudoLevel(Here)
        ELSE search_assume_decision(Here, NextAssumption)}
  ELSE IF AtConstraint
  THEN {IF \E l \in Range(query.constraint) : IsTrue(Here, l) THEN PseudoLevel(Here)
        ELSE search_assume_decision(Here, Unvalued(Here, query.constraint)[1])}
  ELSE {search_assume_decision(Here, l) : l \in {k \in phases : VarOf(k) \in Unassigned(Here)}}

(* Mutant: the assumptions are taken to be decided. *)
AllAssigned == propagated = Len(trail) /\ Len(trail) = max_var

(* All variables are assigned and there is a level for each assumption and   *)
(* for the constraint.                                                       *)
satisfied ==
  /\ propagated = Len(trail)
  /\ Level(Here) >= Len(query.assumptions) + (IF query.constraint = <<>> THEN 0 ELSE 1)
  /\ Len(trail) = max_var

Unsatisfiable ==
  /\ verdict' = "unsatisfied"
  /\ stage' = "ready"
  /\ limits' = NoLimits
  /\ query' = [query EXCEPT !.unsat_constraint = @ \/ (DecideFails /\ ~AtAssumption)]

(* One round of try_to_satisfy_formula_by_saved_phases: the phases satisfy,  *)
(* an assumption is false, or one more of them is decided and propagated. A  *)
(* conflict is forgotten and the search starts.                              *)
try_to_satisfy_formula_by_saved_phases ==
  /\ stage = "try"
  /\ \/ satisfied /\ Return("satisfied") /\ UNCHANGED search
     \/ ~satisfied /\ DecideFails /\ Unsatisfiable /\ UNCHANGED search
     \/ /\ ~satisfied /\ ~DecideFails
        /\ \E d \in Decided(saved) :
             LET s == CARpropagate(d)
             IN  IF s.conflict = 0 THEN Become(s) /\ UNCHANGED stage
                 ELSE Become([backtrack(s, 0) EXCEPT !.conflict = 0]) /\ stage' = "begin"
        /\ UNCHANGED <<query, verdict, limits>>
  /\ saved' = IF stage' = "try" THEN saved ELSE {}
  /\ UNCHANGED <<script, formula, spent, due>>

-----------------------------------------------------------------------------
(* The search loop: its first line that applies is the step. *)

Searches == stage = "search" /\ ~unsat /\ ~query.unsat_constraint

Idle == Searches /\ conflict = 0 /\ propagated = Len(trail) /\ ~satisfied

BeginSearch ==
  /\ stage = "begin"
  /\ Become(connect_watches(clear_watches(Here), FALSE))
  /\ stage' = "search"
  /\ UNCHANGED <<script, formula, query, verdict, saved, limits, spent, due>>

FindUnsat ==
  /\ stage = "search"
  /\ unsat \/ query.unsat_constraint
  /\ Return("unsatisfied")
  /\ UNCHANGED <<search, script, formula, saved, spent, due>>

Propagate ==
  /\ Searches
  /\ conflict = 0
  /\ propagated < Len(trail)
  /\ Become(CARpropagate(Here))
  /\ UNCHANGED <<script, formula, query, stage, verdict, saved, limits, spent, due>>

Analyze ==
  /\ Searches
  /\ conflict # 0
  /\ Become(CARanalyze(Here))
  /\ spent' = [spent EXCEPT !.conflicts = IF limits.conflicts = -1 THEN 1 ELSE @ + 1]
  /\ UNCHANGED <<script, formula, query, stage, verdict, saved, limits, due>>

FindModel ==
  /\ Searches
  /\ satisfied
  /\ Return("satisfied")
  /\ UNCHANGED <<search, script, formula, saved, spent, due>>

search_limits_hit ==
  \/ limits.conflicts # -1 /\ spent.conflicts >= limits.conflicts
  \/ limits.decisions # -1 /\ spent.decisions >= limits.decisions

(* A limit is hit or termination is forced: no answer. *)
GiveUp ==
  /\ Idle
  /\ search_limits_hit \/ limits.terminate > 0
  /\ Return("unknown")
  /\ UNCHANGED <<search, script, formula, saved, spent, due>>

Works == Idle /\ ~search_limits_hit

Left(upkeep) == upkeep \in DOMAIN due /\ due[upkeep] > 0

(* Upkeep counts conflicts: it waits for the first one. *)
Due(upkeep) ==
  /\ Works
  /\ spent.conflicts > 0
  /\ Left(upkeep)
  /\ due' = [due EXCEPT ![upkeep] = @ - 1]

Restartable == Level(Here) >= Len(query.assumptions) + 2

(* A restart keeps the levels of the assumptions and one that the constraint *)
(* did not have to decide, and any levels that would be decided again.       *)
restart ==
  LET base == Len(query.assumptions)
      trivial == base + (IF control[base + 1].decision = 0 THEN 1 ELSE 0)
  IN  /\ Due("restart")
      /\ Restartable
      /\ \E level \in trivial .. Level(Here) : Become(backtrack(Here, level))
      /\ UNCHANGED <<script, formula, query, stage, verdict, saved, limits, spent>>

(* The mode changes while restarting() is asked, from the root with all      *)
(* watches connected again; a conflict there is final. What restarting()     *)
(* says then is not bound to the level it was asked at.                      *)
stabilizing ==
  LET s == CARpropagate(backtrack(connect_watches(clear_watches(Here), FALSE), 0))
  IN  /\ Due("switch")
      /\ Restartable
      /\ Become(IF s.conflict = 0 THEN s ELSE learn_empty_clause(s))
      /\ stage' \in {"search", "restart"}
      /\ UNCHANGED <<script, formula, query, verdict, saved, limits, spent>>

(* A restart after a change of the mode starts from the root and keeps no    *)
(* level. With assumptions it reads control beyond its end.                  *)
RestartAtRoot ==
  /\ stage = "restart"
  /\ query.assumptions = <<>>
  /\ stage' = "search"
  /\ UNCHANGED <<search, script, formula, query, verdict, saved, limits, spent, due>>

(* A walk of walk.cpp simplifies and connects all clauses anew. *)
Walked(s) ==
  connect_watches(clear_watches(garbage_collection(clear_watches(backtrack(s, 0)))), FALSE)

(* New phases, from the root, found by a walk or not. *)
rephase ==
  /\ Due("rephase")
  /\ Become(backtrack(Here, 0)) \/ Become(Walked(Here))
  /\ UNCHANGED <<script, formula, query, stage, verdict, saved, limits, spent>>

Reduce ==
  /\ Due("reduce")
  /\ \E useless \in SUBSET Reducible(mark_satisfied_clauses_as_garbage(Here)) :
       Become(reduce(Here, useless))
  /\ UNCHANGED <<script, formula, query, stage, verdict, saved, limits, spent>>

Decide ==
  /\ Works
  /\ \/ DecideFails /\ Unsatisfiable /\ UNCHANGED search
     \/ /\ ~DecideFails
        /\ \E s \in Decided(Lits) : Become(s)
        /\ UNCHANGED <<query, stage, verdict, limits>>
  /\ spent' = IF limits.decisions = -1 \/ AtAssumption \/ AtConstraint THEN spent
              ELSE [spent EXCEPT !.decisions = @ + 1]
  /\ UNCHANGED <<script, formula, saved, due>>

-----------------------------------------------------------------------------
(* Which assumptions fail. *)

(* The one to start from: false at the root, else the complement of another  *)
(* assumption, else the first of the lowest level.                           *)
FirstFailed ==
  LET false == {i \in DOMAIN query.assumptions : IsFalse(Here, query.assumptions[i])}
      level(i) == LevelOf(Here, query.assumptions[i])
      root == {i \in false : level(i) = 0}
      clashing == {i \in false : ReasonOf(Here, query.assumptions[i]) = UnitReason}
      lowest == {i \in false : \A j \in false : level(i) <= level(j)}
  IN  query.assumptions[Min(IF root # {} THEN root ELSE IF clashing # {} THEN clashing ELSE lowest)]

(* A search through the reasons of true literals, todo, to the assumptions   *)
(* they rest on. A variable is visited once. Every literal of a reason that  *)
(* was not seen counts as false.                                             *)
RECURSIVE FailingFrom(_, _, _)
FailingFrom(seen, todo, failed) ==
  LET l == todo[1]
      reason == ReasonOf(Here, l)
      new == SelectSeq(clauses[reason].lits, LAMBDA k : VarOf(k) \notin seen)
  IN  IF todo = <<>> THEN failed
      ELSE IF LevelOf(Here, l) = 0 THEN FailingFrom(seen, Tail(todo), failed)
      ELSE IF reason = UnitReason THEN FailingFrom(seen, Tail(todo), failed \cup {l})
      ELSE FailingFrom(seen \cup {VarOf(k) : k \in Range(new)},
                       Tail(todo) \o [i \in DOMAIN new |-> -new[i]], failed)

Negated(lits) == [i \in DOMAIN lits |-> -lits[i]]

(* The literals that failed() reports. *)
failing ==
  LET first == FirstFailed
      at_once == LevelOf(Here, first) = 0 \/ ReasonOf(Here, first) = UnitReason
      start == IF query.unsat_constraint THEN Negated(query.constraint) ELSE <<-first>>
      found == FailingFrom({VarOf(l) : l \in Range(start)}, start, {})
  IN  IF query.unsat_constraint THEN found
      ELSE IF LevelOf(Here, first) = 0 THEN {first}
      ELSE IF at_once THEN {first, -first}
      ELSE found \cup {first}

-----------------------------------------------------------------------------
Next ==
  \/ CallAdd \/ CallLimit \/ CallAssume \/ CallConstrain \/ CallSolve
  \/ card_walk_round \/ try_to_satisfy_formula_by_saved_phases
  \/ BeginSearch \/ FindUnsat \/ Propagate \/ Analyze \/ FindModel \/ GiveUp
  \/ restart \/ stabilizing \/ RestartAtRoot \/ rephase \/ Reduce \/ Decide

(* solve() runs until it returns: as long as it has not, a step is taken.    *)
(* This is weak fairness of the steps of solve(), one of which can always be *)
(* taken until it returns. The client need not call.                         *)
SolveRuns == []<>(stage = "ready") \/ []<><<stage # "ready">>_vars

Spec == Init /\ [][Next]_vars /\ SolveRuns

-----------------------------------------------------------------------------
(* Properties. *)

(* The state is well formed: no variable is on the trail twice, levels grow  *)
(* with the trail as control records them, watched positions are positions.  *)
TypeOK ==
  /\ \A i, j \in DOMAIN trail : VarOf(trail[i].lit) = VarOf(trail[j].lit) => i = j
  /\ \A i \in DOMAIN trail : /\ trail[i].lit \in Lits
                             /\ trail[i].level =
                                  Cardinality({k \in DOMAIN control : control[k].trail < i})
  /\ propagated \in 0 .. Len(trail)
  /\ conflict \in DOMAIN clauses \cup {0}
  /\ \A n \in DOMAIN clauses : LET c == clauses[n]
                               IN  /\ c.unwatched \in 2 .. Size(c)
                                   /\ c.pos \in c.unwatched + 1 .. Size(c) + 1
                                   /\ Cardinality(LitSet(c)) = Size(c)
  /\ stage \in {"ready", "walk", "try", "begin", "search", "restart"}
  /\ verdict \in {"unknown", "satisfied", "unsatisfied"}

(* The watches of clause n on literal l. *)
WatchesOf(n, l) == SelectSeq(watches[l], LAMBDA w : w.clause = n)

(* Watches and clauses agree whatever propagation, learning, reduction and   *)
(* simplification did to both: a clause in use is watched once by each of    *)
(* its watched literals and by no other, a row's watch knows the position of *)
(* its literal and a clause's a blocking literal of it, a watch is marked    *)
(* binary when its clause is, and no watch outlives its clause.              *)
WatchesExact ==
  /\ \A l \in Lits : \A i \in DOMAIN watches[l] : watches[l][i].clause \in DOMAIN clauses
  /\ \A n \in DOMAIN clauses : LET c == clauses[n]
                               IN  ~c.garbage =>
       \A l \in Lits :
         LET found == WatchesOf(n, l)
             w == found[1]
         IN  IF l \in Watched(c) \cup ({c.guard} \ {0})
             THEN /\ Len(found) = 1
                  /\ w.native = c.native
                  /\ IF c.native THEN w.blit = (IF l = c.guard THEN 0 ELSE SelectInSeq(c.lits, LAMBDA k : k = l))
                     ELSE w.blit \in LitSet(c) \ {l} /\ (w.size = 2 <=> Size(c) = 2)
             ELSE found = <<>>

(* Where the trail is propagated without conflict, no clause or row is false *)
(* and none has a literal left to force, after any backtracking and any      *)
(* change of the watches, learned clauses included.                          *)
NothingMissed ==
  (conflict = 0 /\ ~unsat /\ propagated = Len(trail)) =>
    \A n \in DOMAIN clauses :
      LET c == clauses[n]
          left == {l \in LitSet(c) : ~IsFalse(Here, l)}
      IN  (~c.garbage /\ (c.guard = 0 \/ IsFalse(Here, c.guard))) =>
            \/ Cardinality(left) > CARbound(c)
            \/ Cardinality(left) = CARbound(c) /\ \A l \in left : IsTrue(Here, l)

(* What analysis will read is there: the reason of a literal has not been    *)
(* freed, and the literals that analysis takes from it, for a row those not  *)
(* watched and the one it names, are false, were so before the literal was   *)
(* assigned, and force it.                                                   *)
ReasonsSound ==
  \A i \in DOMAIN trail :
    LET n == trail[i].reason
        c == clauses[n]
        from == Antecedents(Here, n, trail[i].lit)
    IN  n # UnitReason =>
          /\ n \in DOMAIN clauses
          /\ trail[i].lit \in LitSet(c)
          /\ \A l \in from : IsFalse(Here, l) /\ TrailIndex(Here, l) < i
          /\ c.guard = 0 => Size(c) - Cardinality(from) = CARbound(c)

(* Assignments in which the rows hold as the client gave them. *)
Models == {M \in Assignments(Vars) : \A row \in formula : Satisfies(M, row)}

(* Clauses, rows and root units have exactly the models of the rows added,   *)
(* and everything learned follows from them; an empty clause is learned only *)
(* when there are none.                                                      *)
DatabaseExact ==
  IF unsat THEN Models = {}
  ELSE /\ Models = {M \in Assignments(Vars) : /\ RootTrue(Here) \subseteq M
                                              /\ \A c \in Given(Here) : Meets(M, c) \/ c.guard \in M}
       /\ \A n \in DOMAIN clauses : clauses[n].redundant => \A M \in Models : Meets(M, clauses[n])

(* Models of the rows in which the assumptions hold and the constraint too.  *)
Answers(assumed, given) ==
  {M \in Models : assumed \subseteq M /\ (given # {} => given \cap M # {})}

(* An answer is right: the assignment of "satisfied" is a model of all rows, *)
(* assumptions and the constraint, and there is none after "unsatisfied".    *)
VerdictRight ==
  /\ verdict = "satisfied" =>
       TrueLits(Here) \in Answers(Range(query.assumptions), Range(query.given))
  /\ verdict = "unsatisfied" =>
       Answers(Range(query.assumptions), Range(query.given)) = {}

(* A model found by the walk is a model: without assumptions the phases it   *)
(* saved are decided to the end and answered, no conflict is forgotten. The  *)
(* walk sees neither learned clauses nor what reduction left behind.         *)
LocalModelKept ==
  [][stage = "try" /\ query.assumptions = <<>> =>
       stage' = "try" \/ verdict' = "satisfied"]_vars

(* Every solve returns: no learned clause comes twice while none is thrown   *)
(* away, and upkeep waits for the next conflict.                             *)
Terminates == stage # "ready" ~> stage = "ready"

(* The assumptions that failed() reports are assumptions and a core: the     *)
(* rows do not allow them together (with the constraint, if it failed).      *)
FailedIsCore ==
  (stage = "ready" /\ verdict = "unsatisfied" /\ ~unsat /\ DecideFails) =>
    /\ failing \subseteq Range(query.assumptions)
    /\ Answers(failing, IF query.unsat_constraint THEN Range(query.given) ELSE {}) = {}
=============================================================================
