SPECIFICATION Spec
CONSTANTS
  Validators = {v1, v2}
  First = v1
  Chains = {c1, c2}
  Targets = {"public", "private"}
  Accepted = {"public"}
  MaxRedirects = 2
  PerHop = TRUE
  Modulus = 4
  Serial = {v1}
INVARIANT
  RefusalIsEarned
