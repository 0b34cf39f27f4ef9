SPECIFICATION FairSpec
CONSTANTS
  MaxClients = 3
  Shared = {1}
  Acceptor = acceptor
  MaxLoops = 2
  ThreadNums = {0, 2}
  Fds = {7, 8}
  MaxRepeats = 1
INVARIANTS
  
  Balanced
PROPERTIES
  ClosedReleased
  BacklogDrained
\* The system really stops: every peer has closed.
CHECK_DEADLOCK FALSE
