CONSTANTS
  Chans = {0, 1}
  OutRoom = 1
  DeferCount = 4
  NetRoom = 1
  SockRoom = 1
  DataLen = 1
  Window = 1
  Apps <- Hangup
SPECIFICATION FairSpec
CHECK_DEADLOCK FALSE
PROPERTY HangupSeen
