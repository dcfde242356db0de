SPECIFICATION BenchmarkSpec
CONSTANTS
  Thread = {t1}
  MaxCalls = 1
  Pairs <- TwoPairs
  MaxRuns = 3
INVARIANTS
  ResumedIsWhole
CHECK_DEADLOCK FALSE
