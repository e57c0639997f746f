SPECIFICATION Spec
CONSTANTS
  NumInterfaces = 1
  FramesPerSocket = 4
  FillSize = 4
  RingSize = 4
  BatchSize = 4
  CounterMod = 4
  Poll = FALSE
INVARIANT FrameInOnePlace
CHECK_DEADLOCK FALSE
