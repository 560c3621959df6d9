SPECIFICATION Spec
CONSTANTS
  Forms = {"hook", "body", "call/cc"}
  MaxFrames = 8
  MaxForms = 2
  MaxConts = 1
INVARIANTS
  EscapeInFlight
