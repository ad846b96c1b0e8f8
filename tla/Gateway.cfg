\* Two connections of two requests each and a history of two: records of both
\* threads mix, and the history overflows.
CONSTANTS
  Connections = {k1, k2}
  History = 2
  MaxRequests = 2
  MaxChunks = 1
SYMMETRY ConnectionSymmetry
SPECIFICATION Spec
INVARIANTS
  IInv
  OneAuthorizedRequest
  KeptInStep
  RecordedOnce
CHECK_DEADLOCK FALSE
