CONSTANTS
  Users = {u1, u2}
  Shutters = {u1}
  MaxCalls = 1
  MaxLoopCalls = 1
  MessageSize = 2
  SendSpace = 3
  MaxChunks = 2
  HighWaterMark = 3
SPECIFICATION FairSpec
INVARIANTS TypeOK WritingIffPending DownOnce ClosedIsDeaf DestroyedIsFinal NothingIsForgotten
PROPERTIES CompleteMeansWritten IsByteStream IsConnectionLife OutputDrains ShutdownCompletes
CHECK_DEADLOCK FALSE
