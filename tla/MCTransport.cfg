CONSTANTS
  OutRoom = 5
  DeferCount = 2
  NetRoom = 2
  RekeyOut = 3
  RekeyIn = 4
  Strict = TRUE
  Prompt = TRUE
  MaxData <- One
  MaxReq <- ClientTwo

SPECIFICATION FairSpec
INVARIANTS
  KexFlagsAgree
  PeersUnderstand
  QuietDuringKex
  InOrder
PROPERTIES
  WritersResume
  Delivered
CHECK_DEADLOCK FALSE
