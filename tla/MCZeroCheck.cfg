\* Honest proofs of polynomials that vanish or do not, delivered intact or
\* with the last value changed or all but the first cut off; proofs made up
\* for polynomials that do not vanish.
SPECIFICATION ZeroSpec
CONSTANTS
  P = 7
  Parallel = TRUE
  Challenge = {2, 5}
  Polynomials <- All
  Phases <- BothPhases
  Message <- Messages
  Variant <- LastChanged
  Unwritten <- Forged
  AuxInfos <- OwnAux
  Claims <- NoClaims
INVARIANTS
  ZeroCompleteness
  SameHat
  NonZeroNeedsLuck
CHECK_DEADLOCK FALSE
