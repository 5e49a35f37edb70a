SPECIFICATION Spec
CONSTANTS
  Configs <- MCConfigs
  Requests <- MCRequests
  Structural <- MCStructural
  InDomains <- MCStructural
  Ptrs = {p1, p2, p3, p4}
  MaxDepth = 2
  MaxHandles = 3
SYMMETRY PtrSymmetry
INVARIANTS
  HandleKeepsItsPolicy
  AllowedByItsPolicy
  EventsMatchPolicies
  GuestBlocksAreFreed
