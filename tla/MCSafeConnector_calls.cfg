SPECIFICATION FairSpec
CONSTANTS
  Calls = {c1}
  Addr = {"a", "b", "deny"}
  Allowed = {"a", "b"}
  Answers <- MCAnswers
  Timeouts = {0, 2}
  MaxClock = 4
INVARIANTS
  TypeOK
  DialsItsAnswerInOrder
  NoDialPastTheBudget
  OutcomeTellsWhatHappened
PROPERTIES
  AnswerIsEventuallyGiven
  ImplementsPinnedDial
CHECK_DEADLOCK FALSE
