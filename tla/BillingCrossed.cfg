\* A profile is written anew, billing otherwise, while a call is about to use it.
CONSTANTS
  None = None
  NormalForm <- MCNormalForm
  ProfileRank <- MCRank
  Score <- MCScore
  Catalog <- MCCatalog
  admin = admin
  server = server
  Procs <- MCProcs
  Does <- MCDoes
  Keyring <- MCKeyring
  Candidates <- MCCandidates
  Environ = {"KEY"}
  Refreshable = {"acme"}
  HandMade <- MCHandMade
  Requests <- MCRequests
  Registered <- MCRegistered
  AskedDrivers = {"oauth_device"}
  AskedStores = {"keyring", "memory"}
  MaxMaterials = 2
  MaxRows = 2
SPECIFICATION Spec
INVARIANTS
  BillingAsAsked
