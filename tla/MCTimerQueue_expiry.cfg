\* As in MCTimerQueue_all.cfg: what KaTime.h:15-17 says
\* of a timer that runs n times.
CONSTANTS
  Timers = {1, 2, 3}
  Whens = {1, 2}
  Intervals = {1, 2}
  Repeats <- MCRepeats
  MaxTime = 4
SPECIFICATION MCSpec
INVARIANT InvalidAtExpiry
CHECK_DEADLOCK FALSE
