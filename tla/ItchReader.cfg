CONSTANTS
  Frames <- MCFrames
  MaxFrames = 3
  Cuts = {0, 1, 20}
  QueueSize = 1
SPECIFICATION Spec
CHECK_DEADLOCK FALSE
INVARIANTS InStep NothingLost CountersAddUp
PROPERTY AllConsumed
