----------------------------- MODULE MCCollector -----------------------------
(* Model-checking instance of Collector: addresses and root slots are      *)
(* interchangeable, and no definition chooses among them.                  *)
EXTENDS Collector, TLC

Symmetry == Permutations(Addr) \cup Permutations(Root)
=============================================================================
