CONSTANTS
  NoResource = NoResource
  Lists <- RemoteLists
  KnownApis <- MCKnownApis
  FragileApis <- BasesFail
  RefreshInterval = 1
  CheckEvery = 1
  ReconnectEvery = 1
  AddressKept = FALSE
  NeedsCredentials = FALSE
  SelfHealing = TRUE
  MaxDowns = 1
  MaxChanges = 1
  MaxOps = 2
SPECIFICATION Spec
\* A client that is closed, or whose process ended, stops.
CHECK_DEADLOCK FALSE
INVARIANTS TypeOK TableMatchesNames LookupFindsTheOne ClosedIsQuiet LogsHaveADestination
           NoCircularWait CloseLeavesNothing
