SPECIFICATION FairSpec
CONSTANTS
  Capacity = 2
  MaxBuffers = 3
  NoBuffer = NoBuffer
  MaxMessages = 9
INVARIANTS
  BuffersAvailable
  NothingLost
  WrittenInOrder
PROPERTIES
  Flushed
  StopReturns
\* The system stops when the owner has joined the thread.
CHECK_DEADLOCK FALSE
