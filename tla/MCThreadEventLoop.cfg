SPECIFICATION ThreadFairSpec
CONSTANTS
  LoopThread = loop
  Owner = owner
  Workers = {owner, w1}
  Functors = {f1, f2}
  Channels = {io}
  WeakupChannel = weakupChannel
INVARIANTS
  OwnedLoopAlive
PROPERTIES
  StartReturns
  JoinReturnsIfLooping
\* The system really stops once the owner has destroyed the thread.
CHECK_DEADLOCK FALSE
