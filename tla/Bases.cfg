SPECIFICATION Spec
CONSTANTS
  Base = {b1, b2, b3}
  Sym = {s1, s2, s3, s4}
  Spelling = {car, x, y}
  Shared = {car}
  MaxNest = 2
  ReenterBases = FALSE
  CollectInChildren = FALSE
SYMMETRY Symmetry
INVARIANTS
  InternedSymbolsLive
  OneContext
PROPERTIES
  ImplementsInterning
