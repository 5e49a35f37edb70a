SPECIFICATION SilentSpec
CONSTANTS
  Calls = {c1}
  Addr = {"a", "b", "deny"}
  Allowed = {"a", "b"}
  Answers <- MCPairs
  Timeouts = {2}
  MaxClock = 4
INVARIANT
  EachValidatedAddressIsTried
CHECK_DEADLOCK FALSE
