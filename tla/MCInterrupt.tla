---------------------------- MODULE MCInterrupt ----------------------------
(* Model-checking instance of Interrupt.                                   *)
EXTENDS Interrupt
=============================================================================
