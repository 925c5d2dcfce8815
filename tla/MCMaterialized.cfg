SPECIFICATION Spec
CONSTANTS
  num_vars = 5
  num_clauses = 5
  clause_lit <- SwapLits
  clause_true_lit_thres <- SwapThres
  max_tries = 2
  max_flips = 5
  max_non_improve_flip = 4
  swap_non_improve_flip = 1
  enable_swap = TRUE
  init_mode = 0
  backbone_threshold = 2
  hd_count_threshold = 3
  swap_bms_cap = 3
  neighbor_entry_budget = 20
  rd_coin <- BothSides
  rw_coin <- BothSides
  swap_coin <- BothSides
INVARIANTS
  TypeOK
  ScoreExact
  GoodvarMeaning
  PairIsTwoFlips
  ProbesWithoutReplacement
  ProgressAccounting
PROPERTIES
  ModelDroppedOnlyAtLimit
  WalkSpec
