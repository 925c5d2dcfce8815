SPECIFICATION Spec
CONSTANTS
  num_vars = 2
  MaxStray = 2
  Texts <- MCZero
INVARIANT DegreeAsWritten
CHECK_DEADLOCK FALSE
