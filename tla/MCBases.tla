------------------------------- MODULE MCBases -------------------------------
(* Model-checking instance of Bases.                                       *)
EXTENDS Bases

Symmetry == Permutations(Base) \cup Permutations(Sym)
=============================================================================
