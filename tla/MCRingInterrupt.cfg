CONSTANTS
  Cap <- MCCap
  Byte = {0}
  Chunks <- MCLiveChunks
  Wants <- MCLiveWants
SPECIFICATION FairSpec
PROPERTIES InterruptEndsPop
