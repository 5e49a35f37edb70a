SPECIFICATION HttpSpec
CONSTANTS
  Validators = {v1, v2}
  First = v1
  Chains = {c1, c2}
  Targets <- MCTargets
  Accepted <- MCAccepted
  MaxRedirects = 2
  PerHop = TRUE
  Modulus = 4
  Serial = {v1}
  Permitted = {"open"}
  Answers <- MCAnswers
  PlaintextOk = FALSE
  NoPeer = "none"
INVARIANTS
  GrantsStayInBudget
  SerialChainFollowsAtMostMax
  SerialRefusalIsEarned
  EachHopIsJudged
  OnlyNamesAreLeft
PROPERTY
  RedirectLoopEnds
