SPECIFICATION Spec
CONSTANTS
  Base = {b1, b2}
  Sym = {s1, s2, s3}
  Spelling = {x}
  Shared = {}
  MaxNest = 2
  ReenterBases = TRUE
  CollectInChildren = FALSE
INVARIANTS
  OneSymbolPerSpelling
