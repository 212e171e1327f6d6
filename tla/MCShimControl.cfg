CONSTANTS
  Writes = {1}
  RingFrames = 1
  DrainFrames = 1
  FrameBytes = 4
  SockItems = 3
  MaxPushed = 2
SPECIFICATION Spec
PROPERTIES ControlsRecognised
