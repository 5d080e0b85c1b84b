\* One connection, with the reactor the handlers are written for.
SPECIFICATION NetSpec
CONSTANTS
  Parts = {"one"}
  Channels = {ch1, ch2, wake}  ch1 = ch1  ch2 = ch2  wake = wake  None = None
  WakeChannel = wake  WakeFd = 3  Fds = {3, 4, 5}
  EventTypes = {"in", "out"}  InitEventList = 1
  MaxThreads = 1  MaxAsked = 1
  MaxConns = 1  MaxReads = 1  MaxWorkers = 1  MaxDepth = 2  Radix = 2  Rooms = {1}
INVARIANT NothingIsDropped
CHECK_DEADLOCK FALSE
