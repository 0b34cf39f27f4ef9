SPECIFICATION TimerSpec
CONSTANTS
  Timers = {t1, t2, t3}
  Delays = {0, 1, 2}
  MaxTime = 5
SYMMETRY TimerSymmetry
INVARIANTS
  AllTimersCovered
  NeverTooOften
PROPERTIES
  NeverEarly
\* The clock stops at MaxTime.
CHECK_DEADLOCK FALSE
