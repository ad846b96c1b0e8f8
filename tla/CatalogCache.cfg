\* Two processes, two documents, a clock to 2 with a cache good for 1,
\* and one damage to the file.
CONSTANTS
  None = None
  NormalForm <- MCNormalForm
  Torn = Torn
  Garbled = Garbled
  p1 = p1
  p2 = p2
  Procs = {p1, p2}
  ProfileRank <- MCRank
  Score <- MCScore
  Documents <- MCDocuments
  Overlays <- MCOverlays
  MaxAge = 1
  MaxTime = 2
  MaxDamages = 1
SPECIFICATION Spec
INVARIANTS
  IInv
  ServedIsHonest
  ServedIsWellFormed
PROPERTIES
  OnlyWholeReplaced
  CallEnds
