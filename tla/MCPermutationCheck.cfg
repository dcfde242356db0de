SPECIFICATION AllSpec
CONSTANTS
  P = 5
  Parallel = TRUE
  Inputs <- EqualOrNot
  Forgeries <- AnyTables
  Alphas = {0, 2, 3}
  Wirings <- Wired
  Challenges = {0, 2, 3}
INVARIANTS
  ProductTree
  HonestVerdict
  UnequalNeedsLuck
  PermutedAccepted
  NotPermutedNeedsLuck
CHECK_DEADLOCK FALSE
