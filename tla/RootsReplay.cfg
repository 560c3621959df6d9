SPECIFICATION Spec
CONSTANTS
  Forms <- FormsReplayed
  MaxDepth = 4
  MaxObjs = 7
  MaxReads = 3
  MaxForms = 3
  MaxArgs = 2
  MaxBound = 1
  MaxConts = 1
  MaxReplayCollects = 2
VIEW View
INVARIANTS
  HeldIsLive
CHECK_DEADLOCK FALSE
