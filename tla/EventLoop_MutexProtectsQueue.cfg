CONSTANTS
  LoopThread = loop
  Callers = {c1}
  MaxCalls = 1
SPECIFICATION Spec
INVARIANTS MutexProtectsQueue
CHECK_DEADLOCK FALSE
