CONSTANTS
  NoResource = NoResource
  Lists <- TwoLists
  KnownApis <- MCKnownApis
  FragileApis <- NoneFail
  RefreshInterval = 0
  CheckEvery = 1
  ReconnectEvery = 1
  AddressKept = TRUE
  NeedsCredentials = TRUE
  SelfHealing = FALSE
  MaxDowns = 1
  MaxChanges = 0
  MaxOps = 0
SPECIFICATION Spec
\* A client that is closed, or whose process ended, stops.
CHECK_DEADLOCK FALSE
INVARIANT CheckerCloseDisconnects
