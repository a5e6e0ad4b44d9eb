CONSTANTS
  Parents <- MCParents
  Others <- MCOthers
  MaxGen = 2
  MaxSpans = 2
SPECIFICATION Spec
\* A module ends, and the clients it may make are used up.
CHECK_DEADLOCK FALSE
INVARIANTS TypeOK ExporterClientAlive RecordsGoToOnePlace
PROPERTY SpansSurviveExit
