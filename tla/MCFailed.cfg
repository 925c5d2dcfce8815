SPECIFICATION Spec
CONSTANTS
  max_var = 5
  Scripts <- Assumed
  Upkeep <- Kinds
INVARIANT FailedIsCore
CHECK_DEADLOCK FALSE
