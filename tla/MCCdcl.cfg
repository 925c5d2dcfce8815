SPECIFICATION Spec
CONSTANTS
  max_var = 4
  Scripts <- Scenarios
  Upkeep <- Kinds
INVARIANTS
  TypeOK
  WatchesExact
  NothingMissed
  ReasonsSound
  DatabaseExact
  VerdictRight
PROPERTIES
  LocalModelKept
  Terminates
CHECK_DEADLOCK FALSE
