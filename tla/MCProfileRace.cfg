SPECIFICATION Spec
CONSTANTS
  Thread = {t1, t2}
  MaxCalls = 3
INVARIANTS
  ControlledByEnv
CHECK_DEADLOCK FALSE
