SPECIFICATION Spec
CONSTANTS
  Bits <- MCBits
  Files <- MCFiles
  Missing = "missing"
  MaxCalls = 4
CHECK_DEADLOCK FALSE
INVARIANTS
  OwnerIsTheClosestListing
  LoadAllIsWhole
