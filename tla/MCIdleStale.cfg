CONSTANTS
  RingFrames = 7
  Target = 2
  MaxWrite = 1
  Idle = 4
  MaxQueued = 2
SPECIFICATION Spec
INVARIANTS NoStaleReplay
