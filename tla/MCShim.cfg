CONSTANTS
  Writes = {2}
  RingFrames = 2
  DrainFrames = 1
  FrameBytes = 4
  SockItems = 3
  MaxPushed = 4
SPECIFICATION FairSpec
INVARIANTS SilenceAnnounced FlushOvertakenOnce
PROPERTIES OnlyReconnectUncovers WriteReturns CloseEndsReconnect ReconnectResumes
