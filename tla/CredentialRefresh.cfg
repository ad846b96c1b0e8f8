\* Calls of any kind, leases that may run out under a slow one, and one fault: a
\* death, a lost answer or a failed write.
CONSTANTS
  Callers = {c1, c2}
  Codes = {"refresh", "lease", "auth"}
  Overrun = TRUE
  MaxTokens = 3
  MaxFaults = 1
SPECIFICATION FairSpec
INVARIANTS
  IInv
  OneRefreshAtATime
  NoSpentTokenPresented
PROPERTIES
  CallEnds
