SPECIFICATION ProgramSpec
CONSTANTS
  orivars = 3
  Formulas <- MCFiles
  MaximumTurns = 16
  MaximumClauses = 10000000
  MaximumClauseRounds = 32000000
  Refutes = TRUE
INVARIANTS
  VerdictRight
  LeftAlone
PROPERTY
  Reports
CHECK_DEADLOCK FALSE
