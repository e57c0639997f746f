SPECIFICATION Spec
CONSTANTS
  NumInterfaces = 2
  FramesPerSocket = 2
  FillSize = 2
  RingSize = 2
  BatchSize = 2
  CounterMod = 3
  Poll = FALSE
INVARIANT TypeOK
INVARIANT FrameInOnePlace
INVARIANT FramesReturnToOwner
INVARIANT FillReserveNeverFails
INVARIANT OutstandingExact
CHECK_DEADLOCK FALSE
