SPECIFICATION Spec
CONSTANTS
  Forms = {"body", "guard", "with", "include", "call/cc", "handler", "driver", "hook", "jit"}
  MaxFrames = 7
  MaxForms = 2
  MaxConts = 2
INVARIANTS
  RowsMatchStack
