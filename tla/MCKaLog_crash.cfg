\* A FATAL line, and files that may fail.
CONSTANTS
  Lines = {1, 2}
  MaxLogSize = 2
  ToFile = TRUE
  CanFail = TRUE
  MaxLines = 2
  MaxStarts = 1
SPECIFICATION FatalSpec
INVARIANT PrintedInOrder
CHECK_DEADLOCK FALSE
