------------------------------- MODULE MCTypes ------------------------------
(* Model-checking instance of Types: made handles and library handlers are *)
(* interchangeable.                                                        *)
EXTENDS Types

Symmetry == Permutations(Made) \cup Permutations(Handler)
=============================================================================
