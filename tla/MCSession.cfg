CONSTANTS
  RingFrames = 6
  Target = 2
  MaxWrite = 2
  Idle = 4
  MaxQueued = 2
  Cads = {0, 1}
  Boards <- MCBoards
  MaxLate = 2
  MixRate = 12345
  FileRates = {12345}
SPECIFICATION SessionSpec
INVARIANTS PacedExactly CleanFirstLap IdleStops HeldUpBounded PathMatches NoForeignDma OnlyExpectedLayout ChecksResynchronise MuteAsBelieved DrainPlaysOut
PROPERTIES HaltNotEarly
