\* Signing out while a refresh is talking to the provider.
CONSTANTS
  Callers = {c1}
  Codes = {"refresh"}
  Overrun = FALSE
  MaxTokens = 3
  MaxFaults = 0
  Admins = {a1}
  Tasks = {"sign_out"}
SPECIFICATION LifeSpec
INVARIANTS
  SignOutLeavesNothing
