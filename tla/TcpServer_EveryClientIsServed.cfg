CONSTANTS
  Base = base
  io1 = io1
  io2 = io2
  IoLoops <- TwoLoops
  MaxConns = 2
  Users = {}
  MaxCalls = 0
  AcceptMayFail = FALSE
SPECIFICATION FairSpec
PROPERTIES EveryClientIsServed
CHECK_DEADLOCK FALSE
