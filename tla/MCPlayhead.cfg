CONSTANTS
  BufferSize = 4
  ServerFrames = 2
  RingSize = 5
  PipeSize = 3
  Writes = {1, 2, 3}
  MaxPushed = 6
  MaxMissed = 4
SPECIFICATION FairSpec
INVARIANTS AheadBounded
PROPERTIES AlwaysResumes
