CONSTANTS
  Channels = {c1, c2}
  Fds = {f1, f2}
  InitEventListSize = 1
  None = none
SPECIFICATION Spec
SYMMETRY Symmetry
INVARIANTS TypeOK ViewsAgree CtlSucceeds NoLostEvent ActiveAreRegistered ArrayIsBounded
CHECK_DEADLOCK FALSE
