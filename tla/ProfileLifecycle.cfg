\* One admin doing everything it can, against two refreshing calls.
CONSTANTS
  Callers = {c1, c2}
  Codes = {"refresh", "lease", "auth"}
  Overrun = FALSE
  MaxTokens = 3
  MaxFaults = 1
  Admins = {a1}
  Tasks = {"sign_in", "sign_out", "enable", "disable", "probe"}
SYMMETRY CallerSymmetry
SPECIFICATION LifeSpec
INVARIANTS
  StoredTokenHonoured
  RowHasSecret
