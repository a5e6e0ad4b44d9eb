CONSTANTS
  Links <- MCLinks
  Inputs <- MCInputs
SPECIFICATION Spec
\* The walk ends.
CHECK_DEADLOCK FALSE
INVARIANTS TypeOK ReturnsTheChain RejectsNoChain
