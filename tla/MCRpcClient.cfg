SPECIFICATION FairSpec
CONSTANTS
  InitDelay = 1
  MaxDelay = 3
  MaxConns = 2
  MaxFailures = 2
  MaxCalls = 2
  MaxIds = 2
  MaxStrange = 1
INVARIANTS
  OneAtATime
  CalledOnce
PROPERTIES
  Connects
  CalledBack
\* The system really stops: nothing is ready and nobody calls.
CHECK_DEADLOCK FALSE
