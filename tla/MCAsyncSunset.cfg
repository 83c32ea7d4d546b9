CONSTANTS
  Chans = {0, 1}
  OutRoom = 1
  DeferCount = 4
  NetRoom = 1
  SockRoom = 1
  DataLen = 1
  Window = 1
  Apps <- Sessions
SPECIFICATION FairSpec
INVARIANTS Usable
CHECK_DEADLOCK FALSE
PROPERTIES PacketsMove WritersFinish EndSeen Released
