SPECIFICATION FairSpec
CONSTANTS
  Main = main
  PoolThreads = {t1, t2}
  Consumers = {c1, c2}
  Tasks = {r1, r2, k1, x1}
  Throwing = {x1}
  Counting = {k1}
  LatchCount = 1
  NoTask = none
INVARIANTS
  NoSignalLost
PROPERTIES
  TasksRun
  StopReturns
\* The system really stops: the pool is stopped, the consumers wait.
CHECK_DEADLOCK FALSE
