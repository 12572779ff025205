CONSTANTS
  Base = base
  io1 = io1
  io2 = io2
  IoLoops <- TwoLoops
  MaxConns = 2
  Users = {u1}
  MaxCalls = 1
  AcceptMayFail = TRUE
SPECIFICATION FairSpec
INVARIANTS TypeOK ActiveAreAlive RegisteredAreAlive RawThisIsAlive DestroyedOnce Balanced
PROPERTIES IsConnectionLife ClosedIsFreed
CHECK_DEADLOCK FALSE
