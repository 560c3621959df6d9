---------------------------- MODULE DynamicExtent ----------------------------
(***************************************************************************)
(* What guard and call/cc promise, with no evaluator behind them.          *)
(*                                                                         *)
(* A running program is inside a nest of extents, each a guard's or a      *)
(* call/cc's.  A raise leaves extents until it meets a guard, which stops  *)
(* it; an escape leaves extents until it meets its own call/cc, which      *)
(* stops it, and nothing else does.  An escape whose call/cc is no longer  *)
(* in the nest leaves every extent.                                        *)
(***************************************************************************)
EXTENDS Naturals, Sequences

CONSTANT MaxConts    (* continuations are numbered 1 .. MaxConts           *)

VARIABLES
  extents,   (* the nest, outermost first: 0 a guard, k the call/cc of k   *)
  signal     (* <<>> none, <<0>> a raise, <<k>> an escape to k             *)

Innermost == extents[Len(extents)]
Outer     == SubSeq(extents, 1, Len(extents) - 1)

Init == extents = <<>> /\ signal = <<>>

(* A new continuation is none of those whose extent is open.               *)
Enter ==
  /\ signal = <<>>
  /\ \E e \in 0 .. MaxConts :
       /\ e # 0 => \A i \in DOMAIN extents : extents[i] # e
       /\ extents' = Append(extents, e)
  /\ UNCHANGED signal

Exit ==
  /\ signal = <<>> /\ extents # <<>>
  /\ extents' = Outer
  /\ UNCHANGED signal

Throw ==
  /\ signal = <<>>
  /\ \E k \in 0 .. MaxConts : signal' = <<k>>
  /\ UNCHANGED extents

(* A raise meets a guard, an escape its call/cc.                           *)
Stop ==
  /\ extents # <<>> /\ signal = <<Innermost>>
  /\ extents' = Outer /\ signal' = <<>>

Pass ==
  /\ extents # <<>> /\ signal # <<>> /\ signal # <<Innermost>>
  /\ extents' = Outer
  /\ UNCHANGED signal

(* Nothing stopped it.  An escape may be re-entered from here, or be       *)
(* refused, which is a raise.                                              *)
Surface ==
  /\ extents = <<>> /\ signal # <<>>
  /\ signal' = <<>> \/ (signal # <<0>> /\ signal' = <<0>>)
  /\ UNCHANGED extents

Next == Enter \/ Exit \/ Throw \/ Stop \/ Pass \/ Surface

Spec == Init /\ [][Next]_<<extents, signal>>
=============================================================================
