SPECIFICATION FairSpec
CONSTANTS
  Configs <- MCConfigs
  Requests <- MCRequests
  Structural <- MCStructural
  InDomains <- MCStructural
  NoOne = NoOne
  NoBlock = NoBlock
  Threads = {t1, t2}
  Ptrs = {p1, p2, p3}
INVARIANTS
  AnswerIsOwn
  ClosedNeverAllows
PROPERTIES
  EveryCallReturns
