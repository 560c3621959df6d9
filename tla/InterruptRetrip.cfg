SPECIFICATION Spec
CONSTANTS
  Base = {host}
  MaxFrames = 1
  MaxSignals = 1
INVARIANTS
  OneStopEach
CHECK_DEADLOCK FALSE
