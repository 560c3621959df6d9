CONSTANTS
  Sources <- Inputs
  Cap = 6
SPECIFICATION Spec
INVARIANTS ContestSeesTheLine
CHECK_DEADLOCK FALSE
