SPECIFICATION Spec
CONSTANTS
  Forms <- FormsUnder
  MaxDepth = 3
  MaxObjs = 5
  MaxReads = 3
  MaxForms = 2
  MaxArgs = 1
  MaxBound = 1
  MaxConts = 1
  MaxReplayCollects = 1
VIEW View
INVARIANTS
  HeldIsLive
  SlotsStand
  SourceHoldsOneRoot
CHECK_DEADLOCK FALSE
