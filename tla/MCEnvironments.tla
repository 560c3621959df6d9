--------------------------- MODULE MCEnvironments ---------------------------
EXTENDS Environments, TLC
Symmetric == Permutations(Holder) \cup Permutations(Cell)
               \cup Permutations(Base) \cup Permutations(Value)
=============================================================================
