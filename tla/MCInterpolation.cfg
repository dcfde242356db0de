\* A prime above every length, with points left that are not nodes.
SPECIFICATION Spec
CONSTANTS
  P = 41
  Lengths <- MCLengths
  Exponents <- MCExponents
  Points <- MCPoints
INVARIANTS
  RatioIsDenominator
  InterpolatesAtEveryWidth
  NeverWraps
CHECK_DEADLOCK FALSE
