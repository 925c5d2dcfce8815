------------------------------ MODULE Program -------------------------------
(* Solver::run and main: the preprocessor, an engine on the rows it leaves,  *)
(* the completion of the engine's model, and the lines that are printed; and *)
(* the handler of SIGTERM and SIGINT, which may run at any moment.           *)
(* The engine is the search of module CardSATLS or the vendored CDCL solver; *)
(* here only its answer counts.                                              *)
EXTENDS Preprocess

CONSTANT Refutes   \* mode 1: the engine can also refute

ASSUME ProgramAssumption == Refutes \in BOOLEAN

VARIABLES preprocessing,   \* the option of that name
          at,              \* what main is doing
          answer,          \* the engine's answer, 0 before it
          res,             \* what run returns
          m_model,
          output,          \* the lines printed
          interrupted      \* a signal came

mainVars == <<preprocessing, at, answer, res, m_model, output, interrupted>>

programVars == <<state, mainVars>>

ProgramInit ==
  /\ Init
  /\ preprocessing \in BOOLEAN
  /\ at = "run" /\ answer = 0 /\ res = 0 /\ m_model = <<>> /\ output = <<>>
  /\ interrupted = FALSE

(* do_preprocess, when it is asked for. *)
DoPreprocess ==
  /\ preprocessing /\ at = "run"
  /\ Next
  /\ UNCHANGED mainVars

Refused ==
  /\ preprocessing /\ at = "run" /\ pc = "unsat"
  /\ res' = 20
  /\ at' = "report"
  /\ UNCHANGED <<state, preprocessing, answer, m_model, output, interrupted>>

RowsReady == preprocessing => pc = "ready"

(* build_model on an assignment of the rows' variables. *)
Completed(a) ==
  IF preprocessing THEN GetCompleteModel(res_clause, Eliminated, Copied(a))
  ELSE [values |-> a, ok |-> TRUE]

(* The engine answers 10 on a model of its rows, whichever it is. *)
AnswerModel ==
  /\ at = "run" /\ RowsReady
  /\ \E a \in Models(vars, ActiveRows) :
       LET r == Completed(a)
           built == r.ok /\ \A v \in 1 .. orivars : r.values[v] \in {-1, 1}
       IN  /\ res' = IF built THEN 10 ELSE 0
           /\ m_model' = r.values
  /\ answer' = 10
  /\ at' = "report"
  /\ UNCHANGED <<state, preprocessing, output, interrupted>>

AnswerNone ==
  /\ at = "run" /\ RowsReady
  /\ \E r \in {0, 20} :
       /\ r = 20 => Refutes /\ Models(vars, ActiveRows) = {}
       /\ answer' = r /\ res' = r
  /\ at' = "report"
  /\ UNCHANGED <<state, preprocessing, m_model, output, interrupted>>

StatusLine ==
  CASE res = 10 -> "SATISFIABLE" [] res = 20 -> "UNSATISFIABLE" [] OTHER -> "UNKNOWN"

(* Mutant: the model is not printed. *)
ReportAlone ==
  /\ at = "report"
  /\ output' = Append(output, StatusLine)
  /\ at' = "leave"
  /\ UNCHANGED <<state, preprocessing, answer, res, m_model, interrupted>>

Report ==
  /\ at = "report"
  /\ output' = Append(output, StatusLine)
  /\ at' = IF res = 10 THEN "model" ELSE "leave"
  /\ UNCHANGED <<state, preprocessing, answer, res, m_model, interrupted>>

(* get_model *)
ReportModel ==
  /\ at = "model"
  /\ output' = Append(output, "v")
  /\ at' = "leave"
  /\ UNCHANGED <<state, preprocessing, answer, res, m_model, interrupted>>

(* delete solver, and the return from main. *)
Leave ==
  /\ at = "leave"
  /\ at' = "ended"
  /\ UNCHANGED <<state, preprocessing, answer, res, m_model, output, interrupted>>

(* The handler prints its own status and ends the process.  Where there is   *)
(* no engine, before it is made and after it is deleted, the handler's next  *)
(* line reads through a dead pointer, and what is still in the output buffer *)
(* may go down with the process.                                             *)
EngineExists == RowsReady /\ at # "leave"

Signal ==
  /\ at # "ended"
  /\ \/ output' = Append(output, "UNKNOWN")
     \/ ~EngineExists /\ output' = <<>>
  /\ at' = "ended"
  /\ interrupted' = TRUE
  /\ UNCHANGED <<state, preprocessing, answer, res, m_model>>

Main ==
  \/ DoPreprocess \/ Refused \/ AnswerModel \/ AnswerNone
  \/ Report \/ ReportModel \/ Leave

ProgramNext == Main \/ Signal

(* Main runs on by itself; nothing obliges a signal to come. *)
ProgramSpec ==
  /\ ProgramInit /\ [][ProgramNext]_programVars
  /\ WF_programVars(Main)

-----------------------------------------------------------------------------
Printed(line) == \E k \in DOMAIN output : output[k] = line

(* What is printed is true of the file, whichever model the engine found and *)
(* whenever a signal came (main.cpp:37-51, solver.cpp:58-97).                *)
VerdictRight ==
  /\ Printed("SATISFIABLE") => m_model \in Models(orivars, InputRows)
  /\ Printed("UNSATISFIABLE") => Models(orivars, InputRows) = {}

(* "The solver reports one of these status lines", and a SAT result "is      *)
(* followed by a v line" (README.md:73-82).                                  *)
OneStatus ==
  at = "ended" /\ output # <<>> =>
    output \in {<<"SATISFIABLE", "v">>, <<"UNSATISFIABLE">>, <<"UNKNOWN">>}

(* It does when no signal comes, and then something is printed and the       *)
(* verdict is the engine's, or the preprocessor's when it refutes the file   *)
(* (main.cpp:37-53).                                                         *)
LeftAlone ==
  at = "ended" /\ ~interrupted =>
    /\ output # <<>> /\ OneStatus
    /\ Printed("SATISFIABLE") <=> answer = 10
    /\ Printed("UNSATISFIABLE") <=> answer = 20 \/ (preprocessing /\ pc = "unsat")

(* The program reports and ends. *)
Reports == <>(at = "ended")
=============================================================================
