CONSTANTS
  Threads = {t1, t2}
  MaxCalls = 2
  None = none
SPECIFICATION Spec
INVARIANTS NoUseAfterFree
CHECK_DEADLOCK FALSE
