SPECIFICATION Spec
CONSTANTS
  Addr = {a1, a2, a3}
  Root = {r1, r2}
  MaxOut = 1
  MaxHooks = 1
  MaxNest = 2
  MaxSide = 1
  MaxKeys = 1
  FreeHooksEscape = FALSE
  FreeHooksCollect = FALSE
SYMMETRY Symmetry
INVARIANTS
  NothingReachableIsFree
  Accounting
PROPERTIES
  ExactCollection
  NoInheritedEntry
  ImplementsIdealHeap
