SPECIFICATION FairSpec
CONSTANTS
  RespBuf = 2
  Chunk = 2
  Pipeline = 2
  FileLen = 3
  Lens = {0, 5}
  Calls = {"Init", "Status", "Handle", "Attrs", "Name", "Read", "Write", "ReadDir"}
  Bodies = {1, 3}
  MaxTrail = 1
  Odd = {}
  MaxOps = 4
INVARIANTS InSync OwnReply ReadPrefix OutstandingExact
PROPERTIES Finishes
CHECK_DEADLOCK FALSE
