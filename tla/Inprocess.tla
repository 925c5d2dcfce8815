----------------------------- MODULE Inprocess ------------------------------
(* Inprocessing of the CDCL solver: between two steps of the search, at the  *)
(* root, clauses are subsumed, strengthened and vivified, variables are      *)
(* eliminated and clauses that are blocked, covered or globally blocked are  *)
(* taken away; later calls may need them again.                              *)
(*                                                                           *)
(* The search itself (module Cdcl) is taken by what it promises: it learns   *)
(* clauses and units that follow from the database, finds an assignment that *)
(* meets the database and the assumptions, or finds that there is none.      *)
EXTENDS CdclElim, CdclSubsume, CdclVivify, CdclBlock

CONSTANTS
  Jobs,             \* what a client may do: the techniques it switches on that are
                    \* part of others, its calls, and, as bounds, what each solve
                    \* may do once and literals of clauses that are learned
  elimboundmax,     \* option: the most additional clauses of an elimination
  elimrounds        \* option: rounds of elimination in a phase

VARIABLES
  db,               \* the database, as described in CdclState and CdclRewrite
  job,              \* the choice of the client
  script,           \* the calls it has still to make
  formula,          \* the rows added so far, as the client gave them
  assumptions,      \* of the next solve
  stage,            \* where solve() is; "ready" between calls
  verdict,          \* the state of the API
  due,              \* what may still be done in this solve
  phase             \* round: of elimination; removed: as it was before subsumption;
                    \* fresh: clauses were subsumed since the last elimination;
                    \* done: blocked or covered clauses were found;
                    \* redundant: mode of vivification; then: what comes after it

vars == <<db, job, script, formula, assumptions, stage, verdict, due, phase>>

NoPhase == [round |-> 0, removed |-> {}, fresh |-> FALSE, done |-> FALSE, redundant |-> FALSE,
            then |-> "search"]

(* Covered clauses and transitive reduction take watches of rows for watches *)
(* of clauses; what comes of that is not defined.                            *)
WatchesAssumption ==
  \A j \in Jobs : j.techniques \cap {"cover", "transred"} # {} =>
    \A i \in DOMAIN j.calls : j.calls[i].op = "add" => j.calls[i].degree = 1

ASSUME WatchesAssumption

Init ==
  /\ db = [clauses |-> <<>>, watches |-> NoWatches, trail |-> <<>>, control |-> <<>>,
           propagated |-> 0, conflict |-> 0, conflict_literal |-> 0, unsat |-> FALSE,
           active |-> {}, frozen |-> {}, assumed |-> {}, added |-> Vars, removed |-> Vars,
           extension |-> <<>>, tainted |-> {}, elimbound |-> 0,
           todo |-> {}, connected |-> {}, shrunken |-> {}, left |-> {}, noccs |-> NoScores,
           blockable |-> Lits, covered |-> {}, transred |-> {},
           assigned |-> {}, touched |-> {}, conditioned |-> {}]
  /\ job \in Jobs
  /\ script = job.calls
  /\ formula = {}
  /\ assumptions = {}
  /\ stage = "ready"
  /\ verdict = "unknown"
  /\ due = {}
  /\ phase = NoPhase

-----------------------------------------------------------------------------
(* Calls of the client. *)

Calls(op) ==
  /\ stage = "ready"
  /\ script # <<>>
  /\ Head(script).op = op
  /\ script' = Tail(script)
  /\ UNCHANGED job

(* Assumptions go with the call after an answer. *)
Asked == IF verdict = "unknown" THEN assumptions ELSE {}

CallAdd ==
  LET call == Head(script)
  IN  /\ Calls("add")
      /\ verdict' = "unknown"
      /\ assumptions' = Asked
      /\ formula' = formula \cup {[lits |-> Range(call.lits), degree |-> call.degree,
                                   guard |-> call.guard]}
      /\ db' = AddOriginal([db EXCEPT !.assumed = {VarOf(l) : l \in Asked}], call)
      /\ UNCHANGED <<stage, due, phase>>

CallAssume ==
  /\ Calls("assume")
  /\ verdict' = "unknown"
  /\ assumptions' = Asked \cup {Head(script).lit}
  /\ db' = internalize([db EXCEPT !.assumed = {VarOf(l) : l \in assumptions'}], {Head(script).lit})
  /\ UNCHANGED <<formula, stage, due, phase>>

(* The variables of rows are frozen for good, and what is needed again is    *)
(* restored.                                                                 *)
CallSolve ==
  LET rows == {n \in Live(db) : db.clauses[n].native}
      frozen == [db EXCEPT !.frozen = @ \cup UNION {VarSet(db.clauses[n]) : n \in rows},
                           !.assumed = {VarOf(l) : l \in Asked}]
  IN  /\ Calls("solve")
      /\ assumptions' = Asked
      /\ db' = IF db.unsat THEN frozen ELSE restore_clauses(frozen)
      /\ verdict' = "unknown"
      /\ stage' = "search"
      /\ due' = Head(script).due
      /\ UNCHANGED <<formula, phase>>

-----------------------------------------------------------------------------
(* The search. *)

(* Assignments that meet the database; variables out of use are false, as    *)
(* they are when a model is extended.                                        *)
ModelsOf(x) ==
  {M \in Assignments(Vars) : /\ RootTrue(x) \subseteq M
                             /\ \A c \in Given(x) : Meets(M, c)
                             /\ \A v \in Unassigned(x) \ x.active : -v \in M}

Searches == stage = "search" /\ ~db.unsat

Return(answer) ==
  /\ stage' = "ready"
  /\ verdict' = answer
  /\ due' = {}
  /\ UNCHANGED <<db, job, script, formula, assumptions, phase>>

FindModel ==
  /\ Searches
  /\ \E M \in ModelsOf(db) : assumptions \subseteq M
  /\ Return("satisfied")

FindUnsat ==
  /\ stage = "search"
  /\ db.unsat \/ \A M \in ModelsOf(db) : ~(assumptions \subseteq M)
  /\ Return("unsatisfied")

GiveUp == Searches /\ Return("unknown")

(* A clause that follows is learned, a unit is propagated. *)
Learn ==
  /\ Searches
  /\ \E lits \in job.lemmas :
       LET n == FreshClause(db)
       IN  /\ \A l \in Range(lits) : Active(db, l)
           /\ \A m \in Live(db) : LitSet(db.clauses[m]) # Range(lits)
           /\ \A M \in ModelsOf(db) : Range(lits) \cap M # {}
           /\ db' = IF Len(lits) = 1 THEN assign_original_unit(db, lits[1])
                    ELSE watch_clause(new_clause(db, lits, TRUE), n)
  /\ UNCHANGED <<job, script, formula, assumptions, stage, verdict, due, phase>>

-----------------------------------------------------------------------------
(* Steps of inprocessing. Every round may stop before it is complete. *)

Rewrites == UNCHANGED <<job, script, formula, assumptions, verdict>>

(* Subsumption, then vivification of irredundant and of learned clauses.     *)
StartSubsume(then) ==
  /\ db' = BeginSubsumeRound(clear_watches(db))
  /\ stage' = "subsume"
  /\ phase' = [phase EXCEPT !.fresh = TRUE, !.then = then]

(* A round of elimination begins. *)
StartElim(x) ==
  /\ stage' = "elim"
  /\ db' = IF x.unsat THEN x ELSE BeginElimRound(clear_watches(x))
  /\ phase' = [phase EXCEPT !.round = @ + 1, !.then = "search"]

(* What comes after transitive reduction, and after vivification.            *)
AfterSubsume(x) ==
  IF phase.then = "elim" THEN StartElim(x)
  ELSE stage' = "search" /\ db' = x /\ phase' = [NoPhase EXCEPT !.fresh = TRUE]

Subsumed(x) ==
  IF x.unsat \/ "transred" \notin job.techniques THEN AfterSubsume(x)
  ELSE stage' = "transred" /\ db' = BeginTransred(x) /\ UNCHANGED phase

subsume ==
  /\ Searches
  /\ "subsume" \in due
  /\ due' = due \ {"subsume"}
  /\ StartSubsume("search")
  /\ Rewrites

SubsumeClause ==
  /\ stage \in {"subsume", "between"}
  /\ db.todo # {}
  /\ db' \in SubsumeNext(db)
  /\ UNCHANGED <<stage, due, phase>>
  /\ Rewrites

vivify_round(x, redundant) ==
  /\ stage' = "vivify"
  /\ db' = BeginVivifyRound(x, redundant)
  /\ phase' = [phase EXCEPT !.redundant = redundant]

EndSubsume ==
  LET x == Reconnected(EndSubsumeRound(db))
  IN  /\ stage = "subsume"
      /\ IF x.unsat \/ Given(x) = {} \/ "vivify" \notin job.techniques THEN Subsumed(x)
         ELSE vivify_round(x, FALSE)
      /\ UNCHANGED due
      /\ Rewrites

VivifyClause ==
  /\ stage = "vivify"
  /\ ~db.unsat
  /\ \E c \in db.todo : db' = VivifyNext(db, c, phase.redundant)
  /\ UNCHANGED <<stage, due, phase>>
  /\ Rewrites

EndVivify ==
  LET x == EndVivifyRound(db)
  IN  /\ stage = "vivify"
      /\ IF x.unsat \/ phase.redundant THEN Subsumed(x) ELSE vivify_round(x, TRUE)
      /\ UNCHANGED due
      /\ Rewrites

(* A failed literal is to be propagated by code that ends the program.       *)
TransredClause ==
  /\ stage = "transred"
  /\ db.todo # {}
  /\ db' = TransredNext(db)
  /\ stage' = IF db'.trail = db.trail THEN "transred" ELSE "exited"
  /\ UNCHANGED <<due, phase>>
  /\ Rewrites

transred ==
  /\ stage = "transred"
  /\ AfterSubsume(EndTransred(db))
  /\ UNCHANGED due
  /\ Rewrites

(* Elimination makes sure that clauses were subsumed since the last time.    *)
elim ==
  /\ Searches
  /\ "elim" \in due
  /\ due' = due \ {"elim"}
  /\ IF phase.fresh THEN StartElim(db) ELSE StartSubsume("elim")
  /\ Rewrites

EliminateVariable ==
  /\ stage = "elim"
  /\ ~db.unsat
  /\ \E v \in db.todo : db' = ElimNext(db, v)
  /\ UNCHANGED <<stage, due, phase>>
  /\ Rewrites

(* After a complete round clauses are subsumed, unless it was the last.      *)
elim_round ==
  LET x == EndElimRound(db)
  IN  /\ stage = "elim"
      /\ IF x.unsat \/ db.todo # {} \/ phase.round >= elimrounds
         THEN /\ stage' = "search"
              /\ db' = Reconnected(x)
              /\ phase' = NoPhase
         ELSE /\ stage' = "between"
              /\ db' = BeginSubsumeRound(x)
              /\ phase' = [phase EXCEPT !.fresh = FALSE, !.removed = x.removed]
      /\ UNCHANGED due
      /\ Rewrites

(* Nothing was left to do: the phase is complete. *)
PhaseComplete(x) ==
  /\ stage' = "search"
  /\ db' = increase_elimination_bound(Reconnected(x), elimboundmax)
  /\ phase' = NoPhase

(* Units that are to be propagated before end the program.                   *)
Starts(technique, x, begin) ==
  /\ stage' = IF x.propagated < Len(x.trail) THEN "exited" ELSE technique
  /\ db' = IF x.propagated < Len(x.trail) THEN x ELSE begin
  /\ phase' = [phase EXCEPT !.done = FALSE]

Tries(technique, x) == technique \in job.techniques /\ ~x.unsat /\ Given(x) # {}

StartCover(x) ==
  IF Tries("cover", x) THEN Starts("cover", x, BeginCoverRound(x)) ELSE PhaseComplete(x)

StartBlock(x) ==
  IF Tries("block", x) THEN Starts("block", x, BeginBlock(x)) ELSE StartCover(x)

(* Another round if that removed something, otherwise clauses that are       *)
(* blocked, then covered ones are looked for.                                *)
EndBetween ==
  LET x == EndSubsumeRound(db)
  IN  /\ stage = "between"
      /\ IF x.removed # phase.removed THEN StartElim(x) ELSE StartBlock(x)
      /\ UNCHANGED due
      /\ Rewrites

BlockLiteral ==
  /\ stage = "block"
  /\ db.todo # {}
  /\ db' = BlockNext(db)
  /\ phase' = [phase EXCEPT !.done = @ \/ BlocksSome(db)]
  /\ UNCHANGED <<stage, due>>
  /\ Rewrites

block ==
  LET x == mark_redundant_clauses_with_eliminated_variables_as_garbage(db)
  IN  /\ stage = "block"
      /\ db.todo = {}
      /\ IF phase.done THEN StartElim(x) ELSE StartCover(x)
      /\ UNCHANGED due
      /\ Rewrites

CoverClause ==
  /\ stage = "cover"
  /\ db.todo # {}
  /\ db' = CoverNext(db)
  /\ phase' = [phase EXCEPT !.done = @ \/ Live(db') # Live(db)]
  /\ UNCHANGED <<stage, due>>
  /\ Rewrites

cover ==
  LET x == EndCoverRound(db)
  IN  /\ stage = "cover"
      /\ IF phase.done THEN StartElim(x) ELSE PhaseComplete(x)
      /\ UNCHANGED due
      /\ Rewrites

-----------------------------------------------------------------------------
(* Globally blocked clauses, at the first decision of the search.            *)

(* Assumptions are decided first; there is no conflict and no model yet.     *)
FirstDecision(l) ==
  LET open == {k \in assumptions : VarOf(k) \in Unassigned(db)}
      s == Decided(db, l)
  IN  /\ Active(db, l)
      /\ open # {} => l \in open
      /\ s.conflict = 0
      /\ Len(s.trail) = max_var => Cardinality(assumptions) > 1

condition ==
  /\ Searches
  /\ "condition" \in due
  /\ due' = due \ {"condition"}
  /\ Given(db) # {}
  /\ \E l \in Lits :
       /\ FirstDecision(l)
       /\ \E assigned \in InitialAssigned(Decided(db, l)) :
            db' = BeginConditionRound(Decided(db, l), assigned)
  /\ stage' = "condition"
  /\ UNCHANGED phase
  /\ Rewrites

ConditionClause ==
  /\ stage = "condition"
  /\ db.todo # {}
  /\ SomeAutarky(db)
  /\ db' = ConditionNext(db)
  /\ UNCHANGED <<stage, due, phase>>
  /\ Rewrites

condition_round ==
  /\ stage = "condition"
  /\ db' \in EndConditionRound(db)
  /\ stage' = "search"
  /\ UNCHANGED <<due, phase>>
  /\ Rewrites

-----------------------------------------------------------------------------
Next ==
  \/ CallAdd \/ CallAssume \/ CallSolve
  \/ FindModel \/ FindUnsat \/ GiveUp \/ Learn
  \/ subsume \/ SubsumeClause \/ EndSubsume \/ VivifyClause \/ EndVivify
  \/ TransredClause \/ transred
  \/ elim \/ EliminateVariable \/ elim_round \/ EndBetween
  \/ BlockLiteral \/ block \/ CoverClause \/ cover
  \/ condition \/ ConditionClause \/ condition_round

Spec == Init /\ [][Next]_vars

-----------------------------------------------------------------------------
(* Properties. *)

(* Assignments in which the rows hold as the client gave them. *)
Models == {M \in Assignments(Vars) : \A row \in formula : Satisfies(M, row)}

(* Whatever was subsumed, vivified, eliminated and restored, also between    *)
(* earlier solves: every assignment the search may find for what is left     *)
(* extends to one in which all rows hold as the client gave them, and which  *)
(* keeps the assumptions.                                                    *)
ModelsExtend ==
  (stage = "search" /\ ~db.unsat) =>
    \A M \in ModelsOf(db) :
      assumptions \subseteq M => extend(db, M) \in Models /\ assumptions \subseteq extend(db, M)

(* All that is in the database follows from the rows, at any point of a      *)
(* round, so that no model is lost: clauses, units and the empty clause.     *)
FollowsFromRows ==
  \A M \in Models : /\ ~db.unsat
                    /\ RootTrue(db) \subseteq M
                    /\ \A n \in Live(db) : Meets(M, db.clauses[n])

(* The search can go on where inprocessing leaves the database, and it left  *)
(* nothing to be propagated: every clause in use is watched once by each of  *)
(* its watched literals, none is false or forces a literal, and no variable  *)
(* that is out of use occurs.                                                *)
SearchGoesOn ==
  (stage = "search" /\ ~db.unsat) =>
    /\ db.control = <<>> /\ db.conflict = 0 /\ db.propagated = Len(db.trail)
    /\ \A n \in Live(db) :
         LET c == db.clauses[n]
             left == {l \in LitSet(c) : ~IsFalse(db, l)}
         IN  /\ VarSet(c) \subseteq db.active
             /\ \/ Cardinality(left) > CARbound(c)
                \/ Cardinality(left) = CARbound(c) /\ \A l \in left : IsTrue(db, l)
             /\ \A l \in LitSet(c) :
                  Len(SelectSeq(db.watches[l], LAMBDA w : w.clause = n))
                    = (IF l \in Watched(c) THEN 1 ELSE 0)
=============================================================================
