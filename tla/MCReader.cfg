SPECIFICATION Spec
CONSTANTS
  num_vars = 2
  MaxStray = 2
  Texts <- MCPositive
INVARIANT ReadAsWritten
CHECK_DEADLOCK FALSE
