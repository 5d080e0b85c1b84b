\* A FATAL line, and files that do not fail.
CONSTANTS
  Lines = {1, 2}
  MaxLogSize = 2
  ToFile = TRUE
  CanFail = FALSE
  MaxLines = 3
  MaxStarts = 1
SPECIFICATION FatalSpec
INVARIANT FatalOnRecord
CHECK_DEADLOCK FALSE
