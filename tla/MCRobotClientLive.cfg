CONSTANTS
  NoResource = NoResource
  Lists <- TwoLists
  KnownApis <- MCKnownApis
  FragileApis <- NoneFail
  RefreshInterval = 1
  CheckEvery = 1
  ReconnectEvery = 1
  AddressKept = TRUE
  NeedsCredentials = FALSE
  SelfHealing = TRUE
  MaxDowns = 1
  MaxChanges = 1
  MaxOps = 1
SPECIFICATION Spec
\* A client that is closed, or whose process ended, stops.
CHECK_DEADLOCK FALSE
PROPERTIES CloseTerminates RefreshConverges ConnectionRecovers ThreadsWindDown FollowsMachine
