SPECIFICATION Spec
CONSTANTS
  P = 3
  Parallel = TRUE
  Sizes = {1, 2, 3}
  Tables <- MCTables
INVARIANTS
  BufferIsRestriction
  SelectionByIndex
  EqTableIsEqPolynomial
CHECK_DEADLOCK FALSE
