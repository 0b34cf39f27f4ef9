SPECIFICATION StubSpec
CONSTANTS
  Scalars <- MCScalars
  Keys <- MCKeys
  ForeignTokens <- MCTokens
  MaxInt32 = 127
  MaxEvents = 5
  MaxTokens = 8
  MaxDepth = 2
  Definitions <- MCDefinitions
  Arguments <- MCArguments
INVARIANTS
  RoundTrip
  OnlyDuplicatesAbort
  CallArrives
\* The system really stops: the text was read.
CHECK_DEADLOCK FALSE
