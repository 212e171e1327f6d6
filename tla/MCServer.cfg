CONSTANTS
  c1 = c1
  c2 = c2
  Clients = {c1, c2}
  StepNum = 3
  StepDen = 2
  Taps = 2
  Keep = 1
  ClientFrame = 2
  Lens = {1, 2, 5}
  SockReplies = 1
  MaxFrames = 3
SPECIFICATION FairSpec
INVARIANTS LedTruthful OutputsExact
PROPERTIES Served Terminates
