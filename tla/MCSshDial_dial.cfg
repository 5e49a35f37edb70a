SPECIFICATION FairSpec
CONSTANTS
  Timeouts = {1, 2}
  MaxClock = 4
  NoLimit = NoLimit
CHECK_DEADLOCK FALSE
INVARIANTS
  ClientIsLeftAlone
  NoSocketIsLeft
  ErrorIsTheCause
PROPERTIES
  BudgetIsTotal
  DialReturns
  MuxLoopEnds
