SPECIFICATION FairSpec
CONSTANTS
  NumInterfaces = 1
  FramesPerSocket = 4
  FillSize = 4
  RingSize = 2
  BatchSize = 2
  CounterMod = 4
  Poll = FALSE
INVARIANT FrameInOnePlace
INVARIANT FillReserveNeverFails
INVARIANT OutstandingExact
PROPERTY RedirectedFramesAreQueued
PROPERTY StopTakesEffect
PROPERTY CompletedFramesRecycled
CHECK_DEADLOCK FALSE
