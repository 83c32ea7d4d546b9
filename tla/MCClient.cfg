SPECIFICATION FairSpec
CONSTANTS
  MaxHops = 2
  MaxJumps = 4
  StdoutLimit = 2
  StderrLimit = 1
  DrainMax = 2
  ReadMax = 2
  DriveBudget = 4
  OutRoom = 3
  SockRoom = 2
  Window = 3
  Scenarios <- SomeScenarios
INVARIANTS HostKeyPolicy KeysInOrder EofComplete
PROPERTY RunsToEnd
CHECK_DEADLOCK FALSE
