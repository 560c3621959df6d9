SPECIFICATION Spec
CONSTANTS
  Addr = {a1, a2, a3}
  Root = {r1, r2}
  MaxOut = 1
  MaxHooks = 1
  MaxNest = 2
  MaxSide = 0
  MaxKeys = 0
  FreeHooksEscape = FALSE
  FreeHooksCollect = TRUE
INVARIANT NothingReachableIsFree
