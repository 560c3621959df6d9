---------------------------- MODULE Reachability ----------------------------
(***************************************************************************)
(* What "reachable" means in the object heap.                              *)
(*                                                                         *)
(* An object is an address; `out[a]' is the set of addresses the object's  *)
(* traced words name (the type word and the reference slots of its kind:   *)
(* the match in collect.rs `mark').  Nil is not an address here: a slot    *)
(* holding nil contributes nothing to `out'.                               *)
(*                                                                         *)
(* Reachability is stated as a least closed set, not as a recursion, so    *)
(* that the proof modules can use it.                                      *)
(***************************************************************************)
EXTENDS FiniteSets

(* A set of addresses closed under the references of its own members,      *)
(* except that the walk does not continue through a member of `stop'.      *)
ClosedUpTo(C, out, stop) == \A a \in C \ stop : out[a] \subseteq C

(* The closed subsets of the heap `H' that contain `R'.                    *)
ClosedSets(H, R, out, stop) ==
  { C \in SUBSET H : R \subseteq C /\ ClosedUpTo(C, out, stop) }

(* Everything a walk from `R' meets when it turns back at `stop'.          *)
WalkFrom(H, R, out, stop) ==
  LET closed == ClosedSets(H, R, out, stop)
  IN  { a \in H : \A C \in closed : a \in C }

(* Everything reachable from `R'.                                          *)
Reachable(H, R, out) == WalkFrom(H, R, out, {})
=============================================================================
