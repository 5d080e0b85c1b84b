\* A file, which may fail, and a second init after uninit.
CONSTANTS
  Lines = {1, 2}
  MaxLogSize = 2
  ToFile = TRUE
  CanFail = TRUE
  MaxLines = 3
  MaxStarts = 2
SPECIFICATION FairSpec
INVARIANTS InOrder Drained NoLineAsleep
PROPERTIES EveryLineWritten UninitEnds
CHECK_DEADLOCK FALSE
