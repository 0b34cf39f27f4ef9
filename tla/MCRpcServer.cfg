SPECIFICATION FairSpec
CONSTANTS
  Clients = {c1}
  Menu <- FullMenu
  MaxMessages = 3
  MaxBatch = 2
INVARIANTS
  AnswersComplete
  AnsweredOnce
  OrderlyStaysUp
PROPERTIES
  OrderlyAnswered
\* Clients stop after their last message, and an aborted server has stopped.
CHECK_DEADLOCK FALSE
