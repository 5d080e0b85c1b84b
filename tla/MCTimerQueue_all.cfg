\* Two timers of every kind or three plain ones; the clock outlasts every expiration that
\* a timer with a finite count reaches.
CONSTANTS
  Timers = {1, 2, 3}
  Whens = {1, 2}
  Intervals = {1, 2}
  Repeats <- MCRepeats
  MaxTime = 4
SPECIFICATION MCFairSpec
INVARIANTS TypeOK RunsAsAsked
PROPERTIES DueOnesVisited FiniteTimersEnd
\* A doTimer that has used an erased entry is followed no further.
CHECK_DEADLOCK FALSE
