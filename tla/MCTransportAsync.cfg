CONSTANTS
  OutRoom = 5
  DeferCount = 2
  NetRoom = 20
  RekeyOut = 3
  RekeyIn = 4
  Strict = TRUE
  Prompt = FALSE
  MaxData <- None
  MaxReq <- Two

SPECIFICATION Spec
INVARIANT
  InOrder
CHECK_DEADLOCK FALSE
