SPECIFICATION Spec
CONSTANTS
  Forms = {"include", "body", "call/cc"}
  MaxFrames = 8
  MaxForms = 2
  MaxConts = 1
PROPERTIES
  EscapeLands
