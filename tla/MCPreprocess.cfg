SPECIFICATION Spec
CONSTANTS
  orivars = 5
  Formulas <- MCFormulas
  MaximumTurns = 16
  MaximumClauses = 10000000
  MaximumClauseRounds = 32000000
INVARIANTS
  PropagationExact
  Completable
  SatisfiabilityKept
  NoPureLeft
  RowsNameFreeRoots
CHECK_DEADLOCK FALSE
