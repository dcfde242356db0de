SPECIFICATION BenchmarkSpec
CONSTANTS
  Thread = {t1, t2}
  MaxCalls = 3
  Pairs <- TwoPairs
  MaxRuns = 3
INVARIANTS
  TypeOK
  NeverOnByAccident
  OwnAnswerStays
  MatrixTypeOK
  OpenedOnce
  EveryPairAccounted
  UninterruptedIsWhole
PROPERTIES
  NeverTurnsWrong
CHECK_DEADLOCK FALSE
