CONSTANTS
  NoResource = NoResource
  Slots = {s1, s2}
  Keys <- OneKey
  Addresses = {"unix:p", "unix:q"}
  Models <- TwoModels
  Registered <- OneModel
  NoParent = FALSE
  MaxRequests = 4
SPECIFICATION Spec
\* A module that has been shut down, or whose process ended, stops.
CHECK_DEADLOCK FALSE
INVARIANTS TypeOK LocksAreReturned ParentOutlivesHandlers OldGoneBeforeNew
PROPERTIES ImplementsContract OnlyAddAdds StoppedBeforeGone ShutdownEnds
