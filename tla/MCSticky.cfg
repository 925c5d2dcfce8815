SPECIFICATION Spec
CONSTANTS
  max_var = 10
  Jobs <- Late
  elimboundmax = 1
  elimrounds = 1
INVARIANT ModelsExtend
CHECK_DEADLOCK FALSE
