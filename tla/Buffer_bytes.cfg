\* A vector of 2 + 3 bytes, a stack buffer of 2 and a stream of 8.
CONSTANTS
  CheapPrepend = 2
  InitialSize = 3
  ExtraSize = 2
  MaxStream = 8
SPECIFICATION Spec
INVARIANTS
  TypeOK
PROPERTIES
  GrowsOnlyWhenFull
  IsByteQueue
