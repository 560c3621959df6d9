SPECIFICATION Spec
CONSTANTS
  Forms = {"nested", "args", "body", "guard", "bind", "with", "here", "call/cc"}
  MaxFrames = 7
  MaxForms = 2
  MaxConts = 2
INVARIANTS
  RowsMatchStack
  TailIsTaken
  TopLevelIsClean
  OperativesAreSeen
PROPERTIES
  ImplementsExtent
