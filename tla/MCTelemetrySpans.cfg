CONSTANTS
  Parents <- OneParent
  Others <- OneOther
  MaxGen = 1
  MaxSpans = 1
SPECIFICATION Spec
\* A module ends, and the clients it may make are used up.
CHECK_DEADLOCK FALSE
INVARIANT SpansFlowToParent
