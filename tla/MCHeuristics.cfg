SPECIFICATION HSpec
CONSTANTS
  max_var = 6
  Scripts <- Scenarios
  Upkeep <- Kinds
  One = 16
  ScoreLimit = 68
  WalkLimit = 2
  ReluctantPeriod = 1
  ReluctantMax = 4
INVARIANTS
  PrioritiesRight
  WalkExact
  SavedBreakFewest
  RestartsByLuby
PROPERTIES
  BestDecided
  PhasesConflictFree
CHECK_DEADLOCK FALSE
