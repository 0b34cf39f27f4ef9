SPECIFICATION FairSpec
CONSTANTS
  LoopThread = loop
  Workers = {w1, w2}
  Functors = {f1, f2, f3}
  Channels = {io}
  WeakupChannel = weakupChannel
INVARIANTS
  NoLostWakeup
PROPERTIES
  ImplementsExecutor
  QueuedRuns
\* The system really may stop: every loop has been quit and every functor used.
CHECK_DEADLOCK FALSE
