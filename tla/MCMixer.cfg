CONSTANTS
  c1 = c1
  c2 = c2
  Clients = {c1, c2}
  MaxClients = 1
  RingBytes = 4
  FrameBytes = 2
  Lens = {1, 2}
  ChunkFrames = 1
  Target = 2
  DmaFrames = 4
SPECIFICATION Spec
SYMMETRY MCSymmetry
INVARIANTS NoOrphanedAudio StoppedMeansHalted
PROPERTIES OnlyOwnFlushDiscards
