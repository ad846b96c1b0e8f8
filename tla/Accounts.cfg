\* One process signs in and out, switches and edits profiles; one sweeps and leases.
CONSTANTS
  None = None
  NormalForm <- MCNormalForm
  ProfileRank <- MCRank
  Score <- MCScore
  Catalog <- MCCatalog
  admin = admin
  server = server
  Procs <- MCProcs
  Does <- MCDoes
  Keyring <- MCKeyring
  Candidates <- MCCandidates
  Environ = {"KEY"}
  Refreshable = {"acme"}
  HandMade <- MCHandMade
  Requests <- MCRequests
  Registered <- MCRegistered
  AskedDrivers = {"oauth_device"}
  AskedStores = {"keyring", "memory"}
  MaxMaterials = 2
  MaxRows = 2
SPECIFICATION Spec
INVARIANTS
  IInv
  SweepRenewsAll
  LentAsAsked
