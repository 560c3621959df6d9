SPECIFICATION Spec
CONSTANTS
  Made = {m1}
  Used = {"INT", m1}
  AllocKinds = {"INT", "WRAP", "SPAIR"}
  Handler = {f1}
  Op = {"+"}
  MaxBases = 2
  MaxDepth = 1
  MaxValues = 1
  MaxWrites = 2
INVARIANTS
  OwnerIsAgreed
PROPERTIES
  WritesStayHome
  ImplementsDispatch
