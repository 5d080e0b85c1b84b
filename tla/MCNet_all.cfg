\* Every part; two connections, the second of which overwrites the first in the map
\* if only one digit of its number fits.
SPECIFICATION NetSpec
CONSTANTS
  Parts = {"masks", "live", "threads", "one", "two"}
  Channels = {ch1, ch2, wake}  ch1 = ch1  ch2 = ch2  wake = wake  None = None
  WakeChannel = wake  WakeFd = 3  Fds = {3, 4, 5}
  EventTypes = {"in", "out"}  InitEventList = 1
  MaxThreads = 3  MaxAsked = 2
  MaxConns = 2  MaxReads = 1  MaxWorkers = 1  MaxDepth = 2  Radix = 2  Rooms = {1, 2}
INVARIANTS
  PollerAgrees LoopsServe TurnsAreFair
  MapHoldsTheLive NotifiedInOrder DestroyedOnce
PROPERTIES PendingIsHandled StartReturns StateGoesForward GoneIsRemoved
CHECK_DEADLOCK FALSE
