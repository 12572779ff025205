CONSTANTS
  LoopThread = loop
  Owner = owner
  MaxCalls = 1
SPECIFICATION FairSpec
INVARIANTS TypeOK OwnerUsesLiveLoop ObjectOutlivesThread
PROPERTIES StartLoopReturns DestructorReturns
CHECK_DEADLOCK FALSE
