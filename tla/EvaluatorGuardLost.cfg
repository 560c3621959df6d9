SPECIFICATION Spec
CONSTANTS
  Forms = {"guard", "body", "call/cc"}
  MaxFrames = 8
  MaxForms = 2
  MaxConts = 1
INVARIANTS
  ResumedUnderItsGuards
