----------------------------- MODULE Preprocess -----------------------------
(* do_preprocess: unit propagation, resolution and binary equivalences, one  *)
(* after the other, on every formula a file may hold; and what the passes    *)
(* promise to whoever searches the rows they leave.                          *)
EXTENDS UnitPropagation, Resolution, Binary

state == <<shared, pc, varval, next, upVars, resVars, binVars>>

Init ==
  /\ input \in Formulas
  /\ pc = "up"
  /\ vars = orivars
  /\ clause = input
  /\ clause_delete = {}
  /\ varval = Unassigned(orivars)
  /\ mapto = [v \in 1 .. orivars |-> v]
  /\ mapval = Unassigned(orivars)
  /\ mapfrom = <<>>
  /\ next = 1
  /\ pending = {} /\ touched = {}
  /\ res_clause = <<>> /\ resolution = <<>>
  /\ clean = {} /\ pure_queue = {} /\ changed = FALSE
  /\ rep = <<>> /\ turn = 0 /\ turn_changed = FALSE /\ any_changed = FALSE

Propagate ==
  /\ LoadRow \/ StartRound \/ SimplifyTouched \/ FinishPropagation
  /\ UNCHANGED <<resVars, binVars>>

Resolve ==
  /\ \/ KeepVariable \/ RefuteByResolution \/ EliminateVariable
     \/ StartPure \/ DropCandidate \/ DropUnused \/ AssignPure
  /\ UNCHANGED <<upVars, binVars>>

(* preprocess_binary starts from one class per variable. *)
EnterBinary ==
  /\ FinishUnchanged \/ FinishResolution
  /\ rep' = Roots(vars')
  /\ UNCHANGED <<upVars, turn, turn_changed, any_changed>>

Merge ==
  /\ BinaryTurn \/ LeaveBinary \/ FinishBinary
  /\ UNCHANGED <<upVars, resVars>>

Next == Propagate \/ Resolve \/ EnterBinary \/ Merge

Spec == Init /\ [][Next]_state

-----------------------------------------------------------------------------
(* The contract: read at any moment after unit propagation.                  *)

Renumbered == pc \in {"eliminate", "pure", "binary", "ready"}

(* The variables of the file eliminated so far, in order. *)
Eliminated ==
  IF pc \in {"eliminate", "pure"}
  THEN [k \in DOMAIN resolution |-> mapfrom[resolution[k]]]
  ELSE resolution

(* Mutant: the sign with which a variable of the file is mapped is dropped. *)
ValueUnsigned(l, a) ==
  IF pc # "binary" THEN a[VarOf(l)] ELSE a[VarOf(RootLit([rep |-> rep], l))]

(* The value of literal l when the variables of the rows have those of a; in *)
(* the middle of preprocess_binary a variable has that of its root.          *)
Value(l, a) ==
  LET u == [rep |-> rep, varval |-> varval]
      root == RootLit(u, l)
  IN  IF pc # "binary" THEN pnsign(l) * a[VarOf(l)]
      ELSE IF RootValue(u, l) # 0 THEN RootValue(u, l)
      ELSE pnsign(root) * a[VarOf(root)]

(* build_model: what an assignment a of the rows' variables makes of those   *)
(* of the file, before the eliminated ones are recovered.                    *)
Copied(a) ==
  [o \in 1 .. orivars |->
     IF \E k \in DOMAIN Eliminated : Eliminated[k] = o THEN -10
     ELSE IF mapto[o] # 0 THEN Value(mapto[o], a) ELSE mapval[o]]

(* While rows are read and values propagated, the models of the file are     *)
(* exactly the assignments that keep the values found and satisfy the rows   *)
(* as they stand (propagation.cpp:31-55).                                    *)
ModelsPropagated ==
  pc = "up" =>
    Models(orivars, InputRows) =
      {a \in Models(orivars, ActiveRows) :
         \A v \in 1 .. orivars : varval[v] # 0 => a[v] = varval[v]}

(* Propagation reaches its fixpoint: a row that is left has more literals    *)
(* than it needs, none of them assigned and no two complementary, and every  *)
(* variable that is left occurs (propagation.cpp:92-118).                    *)
NothingForcedLeft ==
  pc = "eliminate" /\ next = 1 =>
    /\ \A r \in ActiveRows :
         /\ r.degree \in 1 .. Size(r) - 1
         /\ \A l \in r.lits : -l \notin r.lits
    /\ \A v \in 1 .. vars : mapval[mapfrom[v]] = 0 /\ mapto[mapfrom[v]] = v

(* Propagation keeps exactly the models and leaves nothing to propagate.     *)
PropagationExact == ModelsPropagated /\ NothingForcedLeft

(* Every model of the rows as they stand, in the middle of a pass too, is    *)
(* completed by build_model and get_complete_model to a model of the file    *)
(* (preprocess.cpp:178-235).                                                 *)
Completable ==
  Renumbered =>
    \A a \in Models(vars, ActiveRows) :
      LET r == GetCompleteModel(res_clause, Eliminated, Copied(a))
      IN  r.ok /\ r.values \in Models(orivars, InputRows)

(* A satisfiable file stays satisfiable, and only an unsatisfiable one makes *)
(* a pass fail (preprocess.cpp:241-256).                                     *)
SatisfiabilityKept ==
  Models(orivars, InputRows) # {} =>
    /\ pc # "unsat"
    /\ Renumbered => Models(vars, ActiveRows) # {}

(* The pure phase misses no variable: each that is left, and not eliminated, *)
(* occurs with both signs (resolution.cpp:287-312).                          *)
NoPureLeft ==
  pc = "binary" /\ turn = 0 =>
    \A v \in 1 .. vars : HasLit(v) # {} /\ HasLit(-v) # {}

(* The rows name roots without a value only; for the variables of native     *)
(* cardinality rows this is what binary.cpp:314-324 asserts.                 *)
RowsNameFreeRoots ==
  pc = "binary" =>
    \A v \in Used(ActiveRows) : rep[v] = v /\ varval[v] = 0
===============
