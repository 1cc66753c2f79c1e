CONSTANTS
  Kinds <- MCKinds
  MaxFrames = 3
  MinRecv = 8
  Streams = 3
  MaxStreams = 2
  MaxData = 1
  Window = 1
  MaxInFlight = 2
  Trailers = TRUE
SPECIFICATION SessionsSpec
CHECK_DEADLOCK FALSE
INVARIANTS   CreditConserved
PROPERTIES StreamsAnswered
