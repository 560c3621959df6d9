SPECIFICATION FairSpec
CONSTANTS
  Base = {host, child, grandchild}
  MaxFrames = 5
  MaxSignals = 2
INVARIANTS
  StopIsCaught
  RowsCountGuards
  InterruptIsKept
PROPERTIES
  Interruptible
CHECK_DEADLOCK FALSE
