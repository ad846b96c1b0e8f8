\* Two providers, three models, three profiles that come, go, bill otherwise and fail.
CONSTANTS
  None = None
  NormalForm <- MCNormalForm
  ProfileRank <- MCRank
  Score <- MCScore
  Catalog <- MCCatalog
  ProviderOrder <- MCProviderOrder
  ModelOrder <- MCModelOrder
  Supported <- MCSupported
  Letters = {"l", "P"}
  Hits <- MCHits
  Defaults <- MCDefaults
  Rows <- MCRows
  Limit = 2
SPECIFICATION PickerSpec
INVARIANTS
  PickerInv
  ReadyResolves
  SelectorAndBrokerAgree
PROPERTIES
  ChoiceFollows
  PlanAsShown
CHECK_DEADLOCK FALSE
