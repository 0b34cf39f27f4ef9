SPECIFICATION FairSpec
CONSTANTS
  Workers = {w1}
  Messages = {m1, m2}
  MessageLen = 2
  HighWaterMark = 3
  LateForceClose = FALSE
  MaxCloses = 2
INVARIANTS
  SentInOrder
  NothingLost
  
PROPERTIES
  FinAfterDrain
  PeerCloseNoticed
  ShutdownCompletes
