SPECIFICATION Spec
CONSTANTS
  P = 3
  Parallel = FALSE
  Sizes = {1, 2, 3}
  Tables <- MCTables
INVARIANTS
  BufferIsRestriction
CHECK_DEADLOCK FALSE
