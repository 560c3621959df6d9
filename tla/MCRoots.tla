------------------------------- MODULE MCRoots -------------------------------
(***************************************************************************)
(* The instance of Roots that TLC checks.                                  *)
(***************************************************************************)
EXTENDS Roots

(* Which forms each frame evaluates: enough that every frame has waited    *)
(* while something above it collected, escaped, or was replayed.           *)
FormsUnder == [f \in FrameKind |->
  CASE f = "top"    -> FormKind \ {"fn", "var", "iter", "error", "pair", "call/cc"}
    [] f = "source" -> {"def", "collect", "error"}
    [] f = "args"   -> {"fn", "collect", "call/cc"}
    [] f = "def"    -> {"fn", "iter", "call", "call/cc"}
    [] f = "body"   -> {"collect", "call/cc"}
    [] f = "guard"  -> {"error", "collect", "call/cc"}
    [] f = "call"   -> {"def", "var", "pair", "collect", "throw"}
    [] f = "eval"   -> {"def", "collect"}
    [] OTHER        -> {"collect"}]

(* A program that replays a call and collects twice in it.                 *)
FormsReplayed == [f \in FrameKind |->
  CASE f = "top"         -> {"pair", "throw", "collect"}
    [] f = "args"        -> {"fn", "seq"}
    [] f = "body"        -> {"call/cc", "set!", "collect"}
    [] f = "call"        -> {"def"}
    [] f = "resume-body" -> {"seq"}
    [] f = "eval"        -> {"collect"}
    [] OTHER             -> {}]

(* States that differ only in the order and the number of the roots a frame*)
(* has above its marks go on alike: they are read as a set, or cut as one. *)
(* The properties, which count them, are part of the view.                 *)
Segment(rts, from, to) == {rts[i] : i \in from + 1 .. to}
View ==
  LET to(i)  == IF i = Len(stack) THEN Len(roots) ELSE stack[i + 1].mark
      eto(i) == IF i = Len(stack) THEN Len(envRoots) ELSE stack[i + 1].emark
  IN  <<HeldIsLive, SlotsStand, SourceHoldsOneRoot,
        [o \in Spoken |-> heap[o]], ans, snaps,
        [i \in DOMAIN stack |->
          <<[stack[i] EXCEPT !.mark = 0, !.emark = 0],
            Segment(roots, stack[i].mark, to(i)), Segment(envRoots, stack[i].emark, eto(i))>>]>>
=============================================================================
