\* Four claims wrap the rotation of three members once.
CONSTANTS
  Callers = {c1, c2}
  p1 = p1
  p2 = p2
  p3 = p3
  Profiles = {p1, p2, p3}
  Pools = {"rr", "lu", "ff"}
  Members <- MCMembers
  Strategy <- MCStrategy
  FirstRank <- MCRank
  MaxClaims = 4
SYMMETRY CallerSymmetry
SPECIFICATION Spec
INVARIANTS
  IInv
  RoundRobinEven
PROPERTIES
  LeastUsedAtCommit
  AnswerFromWholePool
