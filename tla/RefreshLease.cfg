\* Two callers, two calls each: a lapsed lease, a late release, a crash, a
\* re-claim and a wait behind a dead owner all fit between instants 0 and 4.
CONSTANTS
  Callers = {c1, c2}
  TTL = 2
  Wait = 2
  MaxTime = 4
  MaxCalls = 2
SPECIFICATION FairSpec
INVARIANTS
  IInv
  AtMostOneLiveHolder
PROPERTIES
  LiveLeaseUndisturbed
  ImplementsLock
  WaitEnds
CHECK_DEADLOCK FALSE
