SPECIFICATION Spec
CONSTANTS
  max_var = 5
  Jobs <- Small
  elimboundmax = 1
  elimrounds = 2
INVARIANTS
  ModelsExtend
  FollowsFromRows
  SearchGoesOn
CHECK_DEADLOCK FALSE
