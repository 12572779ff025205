CONSTANTS
  Users = {u1}
  Shutters = {}
  MaxCalls = 1
  MaxLoopCalls = 1
  MessageSize = 1
  SendSpace = 1
  MaxChunks = 1
  HighWaterMark = 2
SPECIFICATION Spec
INVARIANTS NoWriteAfterShutdown
CHECK_DEADLOCK FALSE
