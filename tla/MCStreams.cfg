CONSTANTS
  Calls <- MCCalls
  Workers <- MCWorkers
  Window = 2
SPECIFICATION Spec
\* Every call has been made and answered.
CHECK_DEADLOCK FALSE
INVARIANTS TypeOK ObserverIsOwn SpanTellsTheOutcome NoSilentTruncation
PROPERTIES AbandonedStreamsEnd AbandonedStreamsWindDown
