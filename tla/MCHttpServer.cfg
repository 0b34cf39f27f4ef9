SPECIFICATION Spec
CONSTANTS
  CheapPrepend = 1
  InitialSize = 4
  ExtraSize = 2
  Byte <- MCByte
  Zero = "zero"
  Requests <- MCRequests
  Fragments <- MCFragments
  MaxMessages = 3
INVARIANTS
  BufferExact
  OrderlyAnswered
\* The system really stops: nobody sends any more.
CHECK_DEADLOCK FALSE
