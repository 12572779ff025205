CONSTANTS
  LoopThread = loop
  Owner = owner
  MaxCalls = 1
SPECIFICATION FairSpec
PROPERTIES JoinReturns
CHECK_DEADLOCK FALSE
