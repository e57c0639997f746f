SPECIFICATION FairSpec
CONSTANTS
  NumInterfaces = 2
  FramesPerSocket = 2
  FillSize = 2
  RingSize = 1
  BatchSize = 1
  CounterMod = 4
  Poll = FALSE
PROPERTY RedirectedFramesAreQueued
CHECK_DEADLOCK FALSE
