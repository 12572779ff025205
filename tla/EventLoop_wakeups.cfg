CONSTANTS
  LoopThread = loop
  Callers = {c1}
  MaxCalls = 2
SPECIFICATION FairSpec
INVARIANTS TypeOK NoLostWakeup RunInCallOrder
PROPERTIES IsExecutor QueuedWorkIsTaken EarlyWorkIsTaken QuitStopsLoop
CHECK_DEADLOCK FALSE
