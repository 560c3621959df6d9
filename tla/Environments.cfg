CONSTANTS
  Holder = {h1, h2}
  Cell = {c1, c2, c3, c4}
  Base = {b1}
  Name = {1, 2, 3}
  Value = {u, v}
  IndexAt = 1
  Nil = Nil
SPECIFICATION Spec
SYMMETRY Symmetric
INVARIANTS ViewsAgree TreeMirrorsRoot
PROPERTY ImplementsScopes
CHECK_DEADLOCK FALSE
