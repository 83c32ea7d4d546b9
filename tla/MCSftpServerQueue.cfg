CONSTANTS
  QueueLen = 4
  Window = 4
  ReqBuf = 2
  CliWindow = 2
  Announced = 1
  Requests <- ReadsOnly
  Depth = 5
  Eager = TRUE
  Fails = FALSE
  MaxReqs = 8
SPECIFICATION FairSpec
PROPERTY AllAnswered
CHECK_DEADLOCK FALSE
