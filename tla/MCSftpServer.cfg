CONSTANTS
  QueueLen = 2
  Window = 2
  ReqBuf = 2
  CliWindow = 2
  Announced = 1
  Requests <- Mixed
  Depth = 3
  Eager = FALSE
  Fails = TRUE
  MaxReqs = 4
SPECIFICATION FairSpec
INVARIANT Framed
INVARIANT OneAnswerEach
INVARIANT WritesExact
PROPERTY StuckOnlyIfFull
CHECK_DEADLOCK FALSE
