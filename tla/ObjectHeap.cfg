CONSTANTS
  Lengths = {1, 2}
  Policies = {0, 2}
  MetaCap = 2
  Data = {9}
  Runs = {1}
  MaxWords = 15
SPECIFICATION Spec
INVARIANTS ChunksAreDisjoint FreedAndLiveAreApart
PROPERTIES ImplementsStore
CHECK_DEADLOCK FALSE
