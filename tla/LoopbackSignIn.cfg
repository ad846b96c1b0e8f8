\* Two sign-ins that want one port, and two requests.
CONSTANTS
  Sessions = {s1, s2}
  Requests = {r1, r2}
  None = None
SPECIFICATION FairSpec
INVARIANTS
  IInv
  OwnCodeOnly
  PortGivenBack
PROPERTY SignInEnds
CHECK_DEADLOCK FALSE
