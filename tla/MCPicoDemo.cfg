CONSTANTS
  c1 = c1
  c2 = c2
  Conns <- TwoConns
  Commands <- SomeCommands
  FanoutSize = 1
  FaninSize = 1
  LineLen = 2
  Budgets <- AllBudgets
SPECIFICATION FairSpec
INVARIANTS
  FlashCurrent
PROPERTIES
  Rebooted
  OnlyTheTaker
  TakerServed
CHECK_DEADLOCK FALSE
