CONSTANTS
  c1 = c1
  Clients = {c1}
  MaxClients = 1
  RingBytes = 4
  FrameBytes = 2
  Lens = {1, 2, 4}
  ChunkFrames = 1
  Target = 2
  DmaFrames = 4
SPECIFICATION FairSpec
PROPERTIES SlotReclaimed PushReturns HaltedAudioPlays IdleHalts
