# CardSAT-LS: specification, model checking and proofs

CardSAT-LS searches for a model of a formula in cardinality-normal form (KNF):
rows of literals, each asking that at least `degree` of them be true. It does so
by local search, or by the CDCL solver CCDCL (`src/lib/ccdcl`) that propagates
such rows natively and calls the local search in between. This directory holds
TLA+ modules for both, TLC configurations that check them on small formulas, and
TLAPS proofs about the reader, the preprocessor, the local search and the
program around them, for formulas of any size.

## 1. Inventory

| Part | State | Operations | Hard about it |
| --- | --- | --- | --- |
| Local search (`src/LocalSearch/cardsat.cpp`, `heuristic.cpp`, `init.cpp`) | assignment, try and step counters, best and minimum, patience, time stamps | `solve`, `local_search`, `local_search_flip`, `pick_var`, `select_var_after_update_weight`, `swap_vars`, `init_assignment_*`, `verify_sol` | the order of the tests in the loop, what a restart keeps, boundary values of the limits |
| Score bookkeeping (`heuristic.cpp`, `cardsat.cpp`, `weight.cpp`) | `sat_count`, `score`, `unit_weight`, `hardunsat_stack` and `hard_unsat_nb`, `cardinalitysat_stack`, `goodvar_stack` | `flip_with_neighbor`, `flip_no_neighbor`, `sat`, `unsat`, `update_goodvarstack`, `increase_weights`, `init_local_search`, `init_score_multi` | everything is incremental and nothing is recomputed within a try: a single wrong sign lasts |
| Pair flip (`heuristic.cpp`) | scratch arrays for shared rows and deferred changes | `flip_pair_atomic`, `update_shared_pair_scores`, `accumulate_delayed_score` | reads scores and assignments halfway between two flips |
| Index stacks (`cardsatLS.hpp`) | array, fill pointer, position of each element | `mypush`, `mypop`, removal by moving the last element, in-place sweep | positions change under the loop that uses them |
| Formula (`reader.cpp`) | rows, occurrence lists, neighbour lists | `parse_from_preprocess`, `build_neighbor_relation` | the budget and the average that decide the mode |
| Preprocessor (`src/PreProcess`) | rows, degrees, `mapto`/`mapval`, recovery rows | `preprocess_up`, `preprocess_resolution`, `preprocess_binary`, `get_complete_model` | a model of the simplified rows must extend to the original ones, in reverse order of elimination, across three renumberings |
| Facade and main (`solver.cpp`, `main.cpp`) | the engines, the model, the signal handler | `run`, `build_model`, `get_model`, `signal_handler` | what a signal meets before, during and after the engine's life |
| KNF reader (`parse.cpp`) | rows and degrees | `readfile` | one branch reads both the degree and the 0 that ends a row |
| CCDCL hook (`include/ccdcl.hpp`, `cardwalk.cpp`) | a second `CardSATLS` filled by callbacks | `add_clause`, `start_cardsat_ls`, `get_phase`; `card_walk_round` | its model is only a set of phases, which the search then decides |
| CCDCL search (`propagate`, `analyze`, `minimize`, `shrink`, `backtrack`, `watch`, `restart`, `internal`) | trail, control, watch lists, conflict | `CARpropagate`, `analyze`, `backtrack`, `cdcl_loop_with_inprocessing` | a row is a reason by some of its literals only; watches are copies |
| CCDCL clause database (`clause`, `collect`, `reduce`) | clauses and rows, garbage, degrees | `CARadd_new_original_clause`, `CARremove_falsified_and_satisfied_literals`, `reduce` | rows lose degrees while watched and while they are reasons |
| CCDCL heuristics (`decide`, `queue`, `score`, `heap`, `phases`, `rephase`, `reluctant`, `walk`) | queue, heap, saved, target and best phases, the walk's lists | bumping, `decide`, `rephase`, `walk_round` | each of queue and heap is kept up only partly in the other's mode |
| CCDCL inprocessing (`subsume`, `transred`, `gates`, `elim`, `backward`, `vivify`, `block`, `cover`, `condition`, `extend`, `restore`) | marks of added, removed and blockable literals, occurrence lists, the extension stack, tainted literals | one round per technique, `restore_clauses`, `extend` | what is taken away must come back, or be made true, in the order that suits |
| CCDCL calls (`solver`, `external`, `assume`, `constrain`, `limit`) | state of the API, assumptions, constraint, limits | `add`, `assume`, `constrain`, `limit`, `solve`, `failed` | what lives until the next solve and what beyond |
| CCDCL applications, other techniques, tools, scripts, `card.cpp`, containers, options | | | input and output, unreachable, or not called |

The facade reads a file into the preprocessor, hands the remaining rows to the
local search (mode 0) or to CCDCL (mode 1), and completes the model the engine
found. CCDCL calls the same local search back through the hook. There are no
threads; the only asynchrony is the signal handler. What replaces it are the
client's calls, the search's choices of when to restart, reduce, rephase and
inprocess, and limits that stop a round anywhere.

What makes each part correct: the search answers 10 only on a model and leaves a
model only at its flip limit; the books say at every step what the assignment
says; the pair flip is two flips; each stack is a set; the preprocessor keeps
satisfiability and every model it is given can be completed; exactly one verdict
is printed. For CCDCL: no conflict and no forced literal is missed, reasons are
there and false when they are read, what is in the database follows from the
rows and allows nothing else, answers are right, models of what inprocessing
left extend to the rows as given, and the priorities and phases are what the
decisions take them for.

## 2. Modules

Rows and variables are numbered from 1; a literal is the DIMACS integer. An
EXTENDS is shown as an arrow, an INSTANCE as a dashed one.

```
KNF <- ScoreUpdate <- PairFlip <- CardSATLS <- MCCardSATLS
KNF <- Walk  < - - - (WalkSpec) - - - CardSATLS
AbstractSet < - - - (SetSpec) - - - IndexedStack
CardRows <- Preprocessor <- UnitPropagation, Resolution, Binary
                                   \____________ Preprocess <- MCPreprocess
                                                 Preprocess <- Program <- MCProgram
CardRows <- Reader <- MCReader
CdclState <- CdclPropagate <- CdclAnalyze <- CdclCollect <- CdclAdd <- Cdcl <- MCCdcl
CdclState <- CdclDecide;  CdclAdd <- CdclWalk
Cdcl, CdclDecide, CdclWalk <- CdclHeuristics <- MCHeuristics
CdclAdd <- CdclRewrite <- CdclSubsume, CdclVivify, CdclGates
           CdclGates <- CdclElim, CdclBlock
CdclElim, CdclSubsume, CdclVivify, CdclBlock <- Inprocess <- MCInprocess

ScoreUpdate <- ScoreUpdateProofs <- CardSATLSProofs;  IndexedStack <- IndexedStackProofs
Preprocess <- PropagationProofs <- ResolutionProofs <- ProgramProofs;  Program <- ProgramProofs
Reader <- ReaderProofs;  all of them also extend NatRecursion
```

| Module | Code | Correspondence |
| --- | --- | --- |
| `KNF` | `parse_from_preprocess`, `build_neighbor_relation`, `verify_sol` | rows as sequences of literals with a degree; number of true literals, model, neighbours; the loops `for occurrence ...: sum +=` as a recursive function |
| `ScoreUpdate` | `flip_with_neighbor`, `flip_no_neighbor`, `sat`, `unsat`, `update_goodvarstack`, `increase_weights`, `init_local_search` | operators on a record of the search state; stacks are sets here, their arrays are `IndexedStack`'s matter |
| `PairFlip` | `flip_pair_atomic` | `MergedPair`, the one-pass flip with its deferred scores, and `SequentialPair`, the two flips |
| `CardSATLS` | `solve`, `local_search`, `local_search_flip`, `pick_var`, `select_var_after_update_weight`, `swap_vars`, restarts | one action per iteration of the loop: `StartTry`, `FlipGood`, `FlipAfterWeights`, `Swap`, `Found`, `GiveUp`, `Verify`. `fast_rand` is a choice, a comparison with a probability is a coin whose sides are a constant |
| `Walk` | the contract of `solve` | tries, flips of one variable, exchanges within a satisfied row, an answer 10 only on a model |
| `IndexedStack`, `AbstractSet` | the array-with-positions idiom of the three stacks | `Push`, `Remove`, `Sweep`, `Clear`; `marked` says whether leaving sets the position to -1 |
| `CardRows`, `Preprocessor` | fields of `struct Preprocessor`, `update_var_clause_label` | a row is a set of literals with a degree, since propagation drops repeated ones before it counts; occurrence lists are read off the rows |
| `UnitPropagation` | `preprocess_up`, `simplify_clause` | `LoadRow` per row, `StartRound`, `SimplifyTouched` (in any order), `FinishPropagation` |
| `Resolution` | `preprocess_resolution`, `build_resolvent`, `residuals_implied`, the pure phase, `get_complete_model` | one action per outcome of the loop over variables, one per candidate of the pure queue; recovery is a fold over the eliminated variables, last first |
| `Binary` | `preprocess_binary` | `BinaryTurn` is one turn: record pairs, merge classes, rewrite. `rep[v]` is the signed root that `find` and `val` give; `unite` chooses the root by class size as the code does |
| `Preprocess` | `do_preprocess`, `build_model` | the passes in order, and their contract |
| `Reader` | `readfile`, `read_file` | a word of the file per step; the `k` flag, the 0 that ends a row, the degree raised to 1 |
| `Program` | `Solver::run`, `main`, `signal_handler` | preprocessing, an engine that may give any model of its rows, completion, the printed lines, a signal between any two steps |
| `CdclState` | `internal.hpp`, `clause.hpp`, `watch.hpp`, `backtrack.cpp`, `watch.cpp` | clauses by number, watch lists as sequences with their copies of size, blocking literal or position, the trail with levels and reasons |
| `CdclPropagate` | `propagate.cpp` | one operator per kind of visit: binary, long clause, row, guarded row; the scan of a list is a fold that keeps or drops each watch |
| `CdclAnalyze` | `analyze.cpp`, `minimize.cpp`, `shrink.cpp` | first unique implication point, minimisation with its poison, shrinking of blocks, the driving clause |
| `CdclCollect`, `CdclAdd` | `collect.cpp`, `reduce.cpp`, `clause.cpp` | marking, literals removed, degrees lowered with their watches, clauses freed; clauses and rows added at the root |
| `Cdcl` | `internal.cpp`, `solver.cpp`, `external.cpp`, `assume.cpp`, `constrain.cpp`, `cardwalk.cpp`, `restart.cpp`, `decide.cpp` | the calls, the walk through the hook, the try to satisfy by saved phases, and the search loop, one action per branch of it |
| `CdclDecide`, `CdclWalk` | `heap.hpp`, `score.cpp`, `queue.cpp`; `walk.cpp` | the array heap and the queue with its pointer; the walk's fronts, watches and broken lists |
| `CdclHeuristics` | `phases.cpp`, `rephase.cpp`, `reluctant.hpp`, `decide.cpp`, `restart.cpp` | every step of `Cdcl` together with what it does to queue, heap, phases and the reluctant sequence |
| `CdclRewrite` | `clause.cpp`, `extend.cpp`, `restore.cpp`, `flags.hpp` | garbage, shrinking, the marks that schedule later rounds, the extension stack, tainted literals, restoring, extending a model |
| `CdclSubsume` | `subsume.cpp`, `transred.cpp` | forward subsumption and strengthening against connected clauses, shortest first; breadth-first walks through binary clauses |
| `CdclGates`, `CdclElim` | `gates.cpp`, `elim.cpp`, `backward.cpp` | equivalences, and-, if-then-else- and parity gates; bounded elimination, resolvents, units found on the way, backward subsumption |
| `CdclVivify` | `vivify.cpp` | both modes, reuse of decisions, analysis, better watches |
| `CdclBlock` | `block.cpp`, `cover.cpp`, `condition.cpp` | blocked clauses, pure literals and their rescheduling; clauses extended by asymmetric and covered literals until a tautology; the assignment, the conditional part that grows by refinement, the autarky that is pushed as witness |
| `Inprocess` | `elim()`, `subsume()`, `vivify()`, `block()`, `cover()`, `condition()`, `Internal::solve` | the schedule of all techniques within a solve and over several, one action per clause, literal or variable tried |

`unite`'s case for a root that already has a value when classes meet is
unreachable: within a turn relations are sorted before fixed values, and the
variables of a fixed class are gone from the rows afterwards. The module keeps
the case because the code has it.

What the CCDCL modules abstract from:

* Which variable is decided, with which phase, when to restart, reduce, rephase
  or switch modes are choices in `Cdcl`; `Upkeep` bounds how often. In
  `CdclHeuristics` queue, heap, phases and the reluctant sequence determine
  them; glue averages and limits in conflicts stay choices. The order in which
  the variables of one analysis are bumped follows the code's sort where it
  sorts and is open where it does not.
* In the walk (`CdclWalk`) the literal to flip is any one that may have a
  positive probability; `walk_pick_cardinality_constraint` sets its random
  position to 0, and the model lets any broken row be picked. The walk permutes
  literals inside clauses; that order is not carried back into the search. The
  model has the part of the order it relies on, the first `CARbound` positions.
  Walks have unguarded rows only.
* Scores of the heap are integers in units of 1 / `One`, and `ScoreLimit` makes
  rescaling happen; rounding may make scores equal, so the heap's order is
  stated by scores, not by indices. Doubling of the increment is left out.
* `Inprocess` takes the search by its contract (`FindModel`, `FindUnsat`,
  `Learn` a given clause if it follows). Each technique runs at most once per
  solve, as the solve's field `due` says; every round may stop before it is
  complete, as limits let it. Learned clauses are taken to be likely to be kept.
  Sizes and occurrence limits, which only make the code try less, are left out;
  so is the order in which block and cover move literals to the front of lists.
  Where several clauses could subsume a clause, any may be found.
* A round of globally blocked clauses runs at the first decision of a search, after which the search
  restarts. Literals assigned beyond the trail may have any phase.
* Covered clauses and transitive reduction read a row's watch as a clause's;
  what then happens is not defined, and `WatchesAssumption` keeps rows out of
  such clients.

Things met on the way that the models keep as they are:
`bump_also_all_reason_literals` is called with literals that are true and returns
at once (analyze.cpp:359); `restarting()` asks `stabilizing()`, which backtracks, before it asks
the reluctant trigger; several techniques end in `Internal::propagate()`, whose
body is `exit(1)` (propagate.cpp:689): the stage `exited` of `Inprocess` is that
end, reached when units are pending before blocked or covered clauses are looked
for, and when transitive reduction finds a failed literal.

## 3. Runs

| Run | Configuration | What it shows |
| --- | --- | --- |
| Materialized | 5 variables, 5 rows of 2 to 5 literals with degrees to 3, two tries of 5 flips from all assignments, a swap at every chance | types, exact scores, the meaning of the good-variable stack, the pair flip equals two flips for every pair in every state, probes never repeat, progress counters, a model left only at the limit, the search is a `Walk` |
| Restarts | 3 variables, 4 rows, no model, one row asking for more literals than it has, three tries with backbone restarts, the mode without neighbour lists, entered because `settings()` divides by zero | what a restart keeps: stacks, the accounting of weights; a variable whose score rises is looked at again; `solve()` returns |
| Stack | 4 elements, capacity 4, `marked` | positions inverse to the array at full capacity, each call changes what it names |
| Preprocess | pairs of rows over 3 variables (0 to 4 literals, degrees 1 to 3), triples over 2 and 3, rows with literals to spare over 4, two native rows and any third over 5, three cascades with one row exchanged for any other | propagation keeps exactly the models; at any moment every model of the rows completes to one of the file; satisfiability kept; no pure variable left; native rows never rewritten |
| Program | triples and a cascade over 3 variables, any engine answer, a signal at any step | a printed verdict is true, undisturbed output is one verdict with its model, the program ends |
| Reader | files of up to three rows | what is read is what was written |
| Cdcl | 4 variables, ten scripts: plain solves by the walk or by search, limits, assumptions, constraints, rows added between solves; three kinds of upkeep | watches agree with clauses; nothing is missed where the trail is propagated; reasons are there, false and force; the database has exactly the models of the rows; answers are right; a model of the walk is answered; `solve()` returns |
| Heuristics | 6 variables, 2 rows and 28 clauses that take 14 conflicts to refute; three scripts, five kinds of upkeep | queue and heap give the best unassigned variable; target and best phases come from assignments without conflict; the walk's lists agree with its assignment; the saved phases break as few as the minimum says; pauses are Luby's |
| Inprocess | 25 clients, up to 5 variables: one formula per gate and per case of a technique, up to two solves | models of what is left extend to models of the rows as given; what is in the database follows from them; the search can go on |
| ReaderZero, FailedCore, Sticky | | the findings, section 6 |

Every property has a mutant, a plausible bug in a mapped definition under which
it fails; mutants stand in the modules, before what they change.

Why the bounds suffice. A score changes only when a row's count crosses its
degree, so rows with degree 1, with degree 2 and one literal to spare, and with
degree 3 and several shared variables meet all the phases; five flips reach rows
that were broken, repaired and broken again, weights above 1, and an exhausted
patience in the same try as a limit. A swap needs a row of at least three
literals for its probes to differ, and five for the backward stride to wrap.
Three tries are the fewest in which a restart follows a restart.

For the preprocessor, eliminations of a variable with a native row need four
variables (the degrees leave too little to spare with three), and five before
the condition on the residuals decides anything: two rows that share only the
variable, each with two more literals. The cascades reach two and three turns of
the binary pass, and the families together refute by propagation and by
resolution, block a resolvent on a shared variable, drop unused variables, leave
the binary pass with and without a change. Limits on turns and clauses have the
code's values and are not reached; `MaxStray` bounds the stray number read
beyond the degree array.

For CCDCL the formulas were picked so that each branch is met: in `Cdcl` rows
that propagate, conflict and are reasons, rows that lose degrees while they are
reasons, learned clauses of one, two and more literals, jumps over several
levels, pseudo levels, a failing constraint. The heuristics need many conflicts
on few variables: with `One` = 16 and `ScoreLimit` = 68 the scores are rescaled
twice, `WalkLimit` = 2 flips let a walk improve, worsen and stop, and
`ReluctantPeriod` = 1 with `ReluctantMax` = 4 pass the end of the sequence
(the code's are 1024 and 2^20). In `Inprocess` every technique changes
something, finds a unit and finds nothing, a variable comes into use again after
its elimination, and a clause that was blocked or globally blocked is restored;
`elimrounds` = 2 is the least with a subsumption between two rounds, and
`elimboundmax` = 1 raises the bound once. A pure literal in a round of blocked
clauses occurs in none of these clients: elimination has taken them before. All
three formulas were varied at random beforehand, also with five variables, and
no other disagreement came up.

**Fairness.** The program is one sequential thread, so weak fairness of all its
steps taken together is all that is assumed: it does not stop while it can go
on. No random choice is assumed fair: `Terminates` of the local search holds by
the step limit and the patience, whatever the coins show. No signal is obliged
to come: the fairness of `Program` is that of `Main`, which leaves the handler
out. In `Cdcl` the client need not call again, so fairness is stated as
`SolveRuns`: either the solver is between two calls again and again, or it takes
steps again and again. One of its steps is always possible until it returns, so
this is weak fairness of those steps; it is written without ENABLED, which would
evaluate every operator twice. `HSpec` and `Inprocess` state no liveness: their
upkeep is bounded by constants, and what ends a solve is `Cdcl`'s matter.

## 4. Proofs

Eight modules hold theorems, for any formula, any options and any number of
tries, passes or words.

### The search and its stacks

* `NatRecursion`: induction and recursion on the naturals, stated with sets and
  functions. The library's theorems take operator parameters, so both are proved
  here from the finiteness of intervals.
* `ScoreUpdateProofs`: that the recursive sums are functions with the expected
  equations and that sums over rows add and vanish termwise; and that each
  operator of `ScoreUpdate` keeps the score equal to
  `Cost(sol, w) - Cost(flipped, w)`. The heart is `RowGainAfterFlip`: what one
  row contributes to a variable's score changes on a flip by exactly what
  `RowDelta` adds, in each of the four phases.
* `CardSATLSProofs`: with exact counts, `MergedPair` is `SequentialPair`
  (`PairFlipIsSequential`). Then the inductive invariant `Inv` and from it the theorems of
  the search. `Inv` adds to the type invariant, in every state outside a
  try's beginning, that counts, stacks and counter are exact and every score is
  the cost drop. None of these is inductive alone: the new score is computed
  from the old count and weights, the stacks from the counts, and `Found`
  trusts the counter. There is one lemma per action (`StartTryRight`,
  `FlipGoodRight`, `FlipAfterWeightsRight`, `SwapRight`, ...), and
  `SearchImplementsWalk` maps every step to a step or a stutter of `Walk`.
  `EarlyReturnRight`, that a search which returns before its tries run out
  stands on a model, is proved only; no run repeats it.

  Three properties need more than `Inv`. `ProbesRight` is modular arithmetic:
  two probes that met would differ by a multiple of the row length smaller than
  it (`SmallMultiple`). `RisesReopen` rests on `GoodAfterRises` (a stack that
  follows every single change ends up holding a variable whose score ends
  positive, if it held it or the changes add up to a rise) and on
  `ChangedScoreIsNeighbor` for the swept stack. `WeightsAccounted` and
  `GoodvarsRight` carry an invariant of their own beside `Inv`: `WeightInv`, that
  the first try starts with nothing accounted, and `StampInv`, that every stamp
  of a try is earlier than the step it is at; `StampStep` is the one argument for
  a flip, a flip after a raise and a swap. `WeightsAccounted` supposes a formula
  with rows.
* `IndexedStackProofs`: the array implements a set, for both values of `marked`.
  The invariant is that array and positions are inverse below the fill pointer;
  the sweep is a fold of `PopIntoSound` over positions in downward order.

### The reader

`ReaderProofs` shows `RowsReadAsWritten` for every file in which no native row
has degree 0. `ReadAsWritten` is not inductive: it does not say what is left to
read. `ReadInv` adds where the reader is, a row `i` and a word `j` of it, and
that the words left are those of the file from there on. `SpelledOut` gives the
place of each row in the file, by induction on the rows; `WordKinds` says that
`k`, degree, literal and 0 can be told apart, and that is where a degree of 0
would break the proof, as it breaks the program (run ReaderZero). Then there is
a lemma per kind of word.

### The preprocessor

The theorems are those about `Spec` of `Preprocess`, for every set of files,
and they stand in `ProgramProofs`: `PropagationKept`, `CompletableKept`,
`SatisfiabilityNotLost`, `PureFound`, `RowsOverRoots`, all from `PassesKept`.

The inductive invariant `PassInv` has two halves. One says what each pass relies
on, and holds while that pass runs:

* `UpInv` (`PropagationProofs`): a row that is left is plain, has more literals
  than it needs, and each assigned variable in it is still to be propagated or
  the row still to be looked at; a row that is deleted holds under the values
  found; the models of the file are the assignments that keep the values and
  satisfy the rows. The last is what `PropagationExact` states; the others make
  it inductive.
* `ElimInv`: numbers and original names are inverse, a stored row belongs to an
  eliminated variable, variables dealt with are in no row, and in the pure phase
  every variable with one sign only is in the queue, from which `NoPureLeft`
  follows when the queue is empty.
* `BinInv`: each variable has a root that is its own root, variables of native
  rows are alone in their class, rows name free roots only.

The other half, `Promise`, is `Completable` and `SatisfiabilityKept`. It is
carried from state to state: `CarriedBack` says that each satisfying assignment
after a step is completed to what one before it is completed to, `CarriedOn`
that a step that finds satisfying assignments leaves some (`PromiseCarried`).
There is one proof of the two for each step that changes rows:

* the end of the propagation (`FinishUp`), with its renumbering (`Relabelled`);
* a pure literal (`PureModels`) and an elimination (`EliminateModels`). The
  latter is the heart of `ResolutionProofs`. `ResolventRow` counts the true
  literals of two rows and of their resolvent; `ResolventFollows` and
  `ParentsRecovered` turn this into both directions, the second by the condition
  on the residuals that the code checks before it eliminates
  (`residuals_implied`): for one of the two values of the variable all its rows
  hold. `RecoverEliminated` shows that `get_complete_model` finds that value
  from the rows stored, and `RecoveredLast` that it then goes on as it would
  have before the elimination;
* the steps into and out of the binary pass (`EnterResolved`, `FinishModels`);
* a turn of the binary pass (`TurnCarried`). What is recorded for two binary
  clauses is what they say (`ActionMeans`); after all actions of a turn, in the
  order of the sort, the classes are respected by exactly the assignments that
  obey all actions (`MergedClasses`, by induction on the number applied, with
  `AssignValueApplied` and `UniteApplied` for the step); and under such an
  assignment the rewritten rows hold exactly when the rows did (`RewrittenRow`).

### The program

`ProgramInv` adds to `PassInv` what `main` knows at each of its steps: that a
result 10 comes with a model of the file and 20 with the fact that there is
none, that the rows are the file's until a pass runs, and which lines are out.
`VerdictKept` and `LeftAloneKept` follow. The engine is any that answers with an
assignment of its rows that satisfies them, or refutes only what has none; the
signal may come at any step.

### Assumptions, and what is only model-checked

`KNFAssumption` (literals name variables, no row is empty);
`OncePerRow` (no variable twice in a row), which the preprocessor establishes
and `flip_with_neighbor` needs, because it negates the flipped score instead of
recomputing it: without preprocessing a file with a repeated literal is outside
what is proved; `CardSATLSAssumption`, the ranges of the options;
`StackAssumption`, room for every element, which `allocate_memory` gives;
`PreprocessorAssumption` and `ReaderAssumption`, that literals name variables of
the file, and that rows reach the preprocessor with a degree of at least 1,
which `read_file` sees to. `RowsReadAsWritten` supposes `PositiveDegrees`.

Of the search, the stacks, the reader, the preprocessor and the program every
safety property that the passing runs check is proved. Only model-checked:
everything about CCDCL, and the liveness properties `Terminates` and `Reports`.
Liveness under fairness, and what a recursive definition computes over all
inputs, are beyond the proof system; the CCDCL modules that walk implication
graphs or refine assignments (`CdclSubsume`, `CdclBlock`, analysis) are recursive
in that way.

## 5. Not modelled

* CCDCL techniques that are off or cannot run: probing, `lucky`, `deduplicate`,
  `lookahead` and `compact`'s callers end in `Internal::propagate()`, that is in
  `exit(1)`, or are off by default; the calls of `ternary`, `decompose` and of
  the removal of duplicates are commented out (probe.cpp:768); `instantiate` is
  an option whose only value is 0; `compact` renumbers variables and is off.
  Chronological backtracking (`chrono` 0), the encoding of rows as clauses,
  shuffling and auxiliary variables are off by default.
* Guarded rows are modelled, but a guarded row whose degree is its size asks for
  one literal less in several places (clause.hpp:154, collect.cpp:47) and gives
  wrong answers; the configurations that pass use none.
* `restart()` from the root under assumptions reads `control` beyond its end
  (restart.cpp:39); such restarts are left out.
* CCDCL's front ends (`cadical`, `mobical`), parsing, options, proofs, checker,
  profile, statistics; the tests under `test`; renumbering of external
  variables, `val`, `phase`, `freeze` and traversal; the moving collector.
* `card.cpp` (its call is commented out), `smooth_weights` (nothing calls it),
  the containers and the option parser, conversion tools, scripts.
* The arrays behind `rep` (parent, relative sign, path compression); the scratch
  arrays of neighbour building, weights and pair flips; lengths of buffers.
* Integer width: scores and step counters are unbounded, since reaching 2^31
  takes more steps than any run explores.
* Characters, comments, the header and truncated files in the reader; timing
  limits; the text of the output. A signal after the status line makes the
  handler print a second one (main.cpp:12); `LeftAlone` states what holds when
  no signal comes.

The map covers 30 % of the implementation's lines. What is left is for the
larger part front ends and a fuzzer (`cadical`, `mobical`), a copied proof
checker, scripts, tables of options and the techniques named above.

## 6. Findings

* **`k 0` rows** (run ReaderZero). README.md:93 of the repository says a native
  row requires at least `degree` of its literals to be true, so degree 0 is a
  row that is always satisfied. `readfile` takes the 0 for the end of the row
  (`parse.cpp:75`), the first literal becomes the degree of the next row, and
  the empty row's degree is raised to 1 (`preprocess.cpp:54`).
* **No core** (run FailedCore). `failing()` (`assume.cpp:141`) takes each literal
  of a reason for a false one. A native row forces a literal while other watched
  literals of it are true: the complement of such a literal is followed instead,
  and the assumption behind it is not reported by `failed()`.
* **Sticky flag** (run Sticky). `elim_backward_clause` (`backward.cpp:45`) sets
  `satisfied` for one clause and does not reset it for the next, so that a clause
  without a true literal is removed as satisfied. This needs a unit found while
  resolvents are added and not yet propagated. The compiled solver answers the
  formula of the run with an assignment that breaks its clause {9, 10}.

## 7. Plan

Done: the local search with its books and the stacks, with proofs; the
preprocessor, the reader and the program; search, database, calls, heuristics
and inprocessing of CCDCL by model checking.

1. `UnionFind`: `find` with path compression and `unite` on the arrays `f` and
   `val`, shown to implement `rep` and the class merging of `Binary`.
2. `ScratchArrays`: the reset discipline of `sat_var`, `neighbor_flag` and
   `weight_delta_score`, and the lengths of `temp_array`.
3. A composition of `Cdcl` with `Inprocess`, in place of the contract, on
   formulas small enough for both.
4. Proofs about CCDCL: that visiting a watch keeps `WatchesExact`, and that a
   resolvent of two reasons, or of a row lessened by root literals, follows from
   the rows (`DatabaseExact`), which first needs propagation and analysis without
   recursive operators.
