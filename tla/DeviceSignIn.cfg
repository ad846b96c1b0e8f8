\* A code that lives for five instants, polled every one to three.
CONSTANTS
  Lifetime = 5
  Interval = 1
  Backoff = 1
  Timeout = 2
  MaxSlow = 2
  MaxTime = 14
SPECIFICATION Spec
INVARIANTS
  IInv
  NoEarlyGiveUp
  OnlyLateApprovalMissed
  GivesUpInTime
CHECK_DEADLOCK FALSE
