SPECIFICATION Spec
CONSTANTS
  num_vars = 3
  num_clauses = 4
  clause_lit <- RestartLits
  clause_true_lit_thres <- RestartThres
  max_tries = 3
  max_flips = 5
  max_non_improve_flip = 3
  swap_non_improve_flip = 1
  enable_swap = TRUE
  init_mode = 1
  backbone_threshold = 2
  hd_count_threshold = 3
  swap_bms_cap = 2
  neighbor_entry_budget = 12
  rd_coin <- BothSides
  rw_coin <- BothSides
  swap_coin <- BothSides
INVARIANTS
  StacksExact
  WeightAccounting
PROPERTIES
  RisingScoreReopens
  Terminates
