------------------------------ MODULE Interrupt ------------------------------
(***************************************************************************)
(* An interrupt on its way to the program: SIGINT, the atomic its handler  *)
(* sets, the flag object the eval loop publishes it in, and the guard that *)
(* catches the STOP.                                                       *)
(*                                                                         *)
(* Two processes share the state.  The signal arrives between any two      *)
(* steps; the evaluator polls at the top of each trampoline step, in two   *)
(* parts -- publish, then test -- and installs and restores the handler in *)
(* parts, too.  Which guards are there is asked of the row of the base     *)
(* that is running (`handlers'), while the guards themselves are Rust      *)
(* frames (`frames'), among the frames of Engine::in_base.                 *)
(***************************************************************************)
EXTENDS Naturals, SequencesExt

CONSTANTS
  Base,        (* the bases; a program starts in one of them               *)
  MaxFrames,   (* bound: guards and in_base calls in progress              *)
  MaxSignals   (* bound: interrupts sent                                   *)

ASSUME BaseAssumption  == IsFiniteSet(Base) /\ Base # {}
ASSUME BoundAssumption == MaxFrames \in Nat /\ MaxSignals \in Nat

VARIABLES
  disposition,   (* what SIGINT does to the process: "default", "handler"  *)
  latch,         (* the atomic INTERRUPTED                                 *)
  flag,          (* the %sigint-flag object                                *)
  frames,        (* the Rust frames of guard and in_base, outermost first  *)
  handlers,      (* handlers[b]: length of b's error-handler row           *)
  current,       (* Engine.base                                            *)
  raising,       (* what unwinds: "nothing", "stop", "condition"           *)
  pc,            (* where the evaluator is                                 *)
  sent,          (* history: interrupts sent                               *)
  owed,          (* history: one came that the program has not seen yet    *)
  stops          (* history: STOPs raised, up to one more than MaxSignals  *)

os     == <<disposition, latch>>
place  == <<frames, handlers, current>>
past   == <<sent, owed, stops>>
vars   == <<os, flag, place, raising, pc, past>>

Frame == [kind : {"guard", "base"}, base : Base]

Step == {"publish", "test", "form", "unwind", "arm", "clear", "ended", "killed"}

TypeOK ==
  /\ disposition \in {"default", "handler"}
  /\ latch \in BOOLEAN /\ flag \in {0, 1}
  /\ frames \in Seq(Frame)
  /\ handlers \in [Base -> Nat]
  /\ current \in Base
  /\ raising \in {"nothing", "stop", "condition"}
  /\ pc \in Step
  /\ sent \in Nat /\ owed \in BOOLEAN /\ stops \in Nat

Init ==
  /\ disposition = "default" /\ latch = FALSE /\ flag = 0
  /\ frames = <<>> /\ handlers = [b \in Base |-> 0]
  /\ current \in Base
  /\ raising = "nothing" /\ pc = "publish"
  /\ sent = 0 /\ owed = FALSE /\ stops = 0

-----------------------------------------------------------------------------
(* The operating system.                                                   *)

(* on_interrupt -- or, with the default disposition, the end.              *)
Signal ==
  /\ pc \notin {"ended", "killed"}
  /\ sent < MaxSignals
  /\ sent' = sent + 1
  /\ IF disposition = "handler"
     THEN latch' = TRUE /\ owed' = TRUE /\ UNCHANGED pc
     ELSE pc' = "killed" /\ UNCHANGED <<latch, owed>>
  /\ UNCHANGED <<disposition, flag, place, raising, stops>>

-----------------------------------------------------------------------------
(* The evaluator.                                                          *)

(* Mutant: the loop does not look at the atomic.                           *)
PublishNothing ==
  /\ pc = "publish"
  /\ pc' = "test"
  /\ UNCHANGED <<os, flag, place, raising, past>>

(* eval_pending, first half: "publish an interrupt the handler recorded".  *)
Publish ==
  /\ pc = "publish"
  /\ flag' = IF latch THEN 1 ELSE flag
  /\ pc' = "test"
  /\ UNCHANGED <<os, place, raising, past>>

(* eval_pending, second half: a set flag is a STOP where a guard is.       *)
Test ==
  /\ pc = "test"
  /\ IF handlers[current] > 0 /\ flag # 0
     THEN /\ flag' = 0 /\ raising' = "stop" /\ pc' = "unwind"
          /\ stops' = IF stops <= MaxSignals THEN stops + 1 ELSE stops
          /\ owed' = FALSE
     ELSE pc' = "form" /\ UNCHANGED <<flag, raising, stops, owed>>
  /\ UNCHANGED <<os, place, sent>>

(* The next form of the same body, or of a tail loop.                      *)
NextForm ==
  /\ pc = "form"
  /\ pc' = "publish"
  /\ UNCHANGED <<os, flag, place, raising, past>>

(* guard: handler_push, and its body begins.                               *)
EnterGuard ==
  /\ pc = "form" /\ Len(frames) < MaxFrames
  /\ frames' = Append(frames, [kind |-> "guard", base |-> current])
  /\ handlers' = [handlers EXCEPT ![current] = @ + 1]
  /\ pc' = "publish"
  /\ UNCHANGED <<os, flag, current, raising, past>>

(* in_base; the same base again is no frame at all.                        *)
EnterBase ==
  /\ pc = "form" /\ Len(frames) < MaxFrames
  /\ \E b \in Base \ {current} :
       /\ frames' = Append(frames, [kind |-> "base", base |-> current])
       /\ current' = b
  /\ pc' = "publish"
  /\ UNCHANGED <<os, flag, handlers, raising, past>>

Innermost == Last(frames)

(* Mutant: guard pops its row only when its body had a value.              *)
PopOnValue ==
  /\ frames' = Front(frames)
  /\ IF Innermost.kind = "guard"
     THEN /\ handlers' = IF raising = "nothing"
                         THEN [handlers EXCEPT ![current] = @ - 1] ELSE handlers
          /\ UNCHANGED current
     ELSE current' = Innermost.base /\ UNCHANGED handlers

(* Mutant: in_base puts its caller's base back only when there is a value. *)
RestoreOnValue ==
  /\ frames' = Front(frames)
  /\ IF Innermost.kind = "guard"
     THEN handlers' = [handlers EXCEPT ![current] = @ - 1] /\ UNCHANGED current
     ELSE /\ current' = IF raising = "nothing" THEN Innermost.base ELSE current
          /\ UNCHANGED handlers

(* What guard and in_base undo, before they look at the outcome: guard     *)
(* pops the row of the base that is running, in_base puts its caller's     *)
(* base back.                                                              *)
LeaveFrame ==
  /\ frames' = Front(frames)
  /\ IF Innermost.kind = "guard"
     THEN handlers' = [handlers EXCEPT ![current] = @ - 1] /\ UNCHANGED current
     ELSE current' = Innermost.base /\ UNCHANGED handlers

(* The body of a guard, or the form of an in_base, has its value.          *)
Return ==
  /\ pc = "form" /\ frames # <<>>
  /\ LeaveFrame
  /\ pc' = "publish"
  /\ UNCHANGED <<os, flag, raising, past>>

(* A condition.                                                            *)
Raise ==
  /\ pc = "form"
  /\ raising' = "condition" /\ pc' = "unwind"
  /\ UNCHANGED <<os, flag, place, past>>

(* It meets a frame: a guard runs its handler, in_base passes it on.       *)
Unwind ==
  /\ pc = "unwind" /\ frames # <<>>
  /\ LeaveFrame
  /\ IF Innermost.kind = "guard"
     THEN raising' = "nothing" /\ pc' = "publish"
     ELSE UNCHANGED <<raising, pc>>
  /\ UNCHANGED <<os, flag, past>>

(* It meets none: report ends the run.                                     *)
Uncaught ==
  /\ pc = "unwind" /\ frames = <<>>
  /\ pc' = "ended"
  /\ UNCHANGED <<os, flag, place, raising, past>>

(* The end of the input.                                                   *)
End ==
  /\ pc = "form" /\ frames = <<>>
  /\ pc' = "ended"
  /\ UNCHANGED <<os, flag, place, raising, past>>

(* (sigint-install): interrupt_install clears the atomic, then has the     *)
(* handler installed, and the primitive clears the flag object last.       *)
Install ==
  /\ pc = "form"
  /\ latch' = FALSE /\ owed' = FALSE
  /\ pc' = "arm"
  /\ UNCHANGED <<disposition, flag, place, raising, sent, stops>>

Arm ==
  /\ pc = "arm"
  /\ disposition' = "handler"
  /\ pc' = "clear"
  /\ UNCHANGED <<latch, flag, place, raising, past>>

(* Mutant: the atomic is cleared last, where a signal may already be.      *)
ClearBoth ==
  /\ pc = "clear"
  /\ flag' = 0 /\ latch' = FALSE
  /\ pc' = "publish"
  /\ UNCHANGED <<disposition, place, raising, past>>

Clear ==
  /\ pc = "clear"
  /\ flag' = 0
  /\ pc' = "publish"
  /\ UNCHANGED <<os, place, raising, past>>

(* (sigint-restore).                                                       *)
Restore ==
  /\ pc = "form"
  /\ disposition' = "default"
  /\ pc' = "publish"
  /\ UNCHANGED <<latch, flag, place, raising, past>>

(* The library writes %sigint-flag: it has seen the interrupt.             *)
SeeFlag ==
  /\ pc = "form"
  /\ flag' = 0 /\ owed' = FALSE
  /\ pc' = "publish"
  /\ UNCHANGED <<os, place, raising, sent, stops>>

(* Or it asks for one itself.                                              *)
SetFlag ==
  /\ pc = "form" /\ sent < MaxSignals
  /\ flag' = 1 /\ owed' = TRUE /\ sent' = sent + 1
  /\ pc' = "publish"
  /\ UNCHANGED <<os, place, raising, stops>>

Evaluator ==
  \/ Publish \/ Test
  \/ NextForm \/ EnterGuard \/ EnterBase \/ Return \/ Raise
  \/ Install \/ Restore \/ SeeFlag \/ SetFlag \/ End
  \/ Unwind \/ Uncaught \/ Arm \/ Clear

Next == Signal \/ Evaluator

Spec == Init /\ [][Next]_vars

(* The evaluator is the process: it runs as long as it has a step to take. *)
FairSpec == Spec /\ WF_vars(Evaluator)

-----------------------------------------------------------------------------
(* Properties.                                                             *)

Guarded == \E i \in DOMAIN frames : frames[i].kind = "guard"

(* "An uncatchable raise would end the run rather than interrupt the       *)
(* computation" (eval.rs): whatever bases were entered on the way, a STOP  *)
(* that is unwinding still has a guard ahead of it.                        *)
StopIsCaught == raising = "stop" => Guarded

(* The rows say what the Rust stack says, in every base, also while a      *)
(* condition unwinds through bases; so a row left behind never outlives    *)
(* its guard.                                                              *)
RowsCountGuards ==
  \A b \in Base :
    handlers[b] = Cardinality({ i \in DOMAIN frames :
                                  frames[i].kind = "guard" /\ frames[i].base = b })

(* An interrupt that came after (sigint-install) began is not lost, at     *)
(* whichever of its steps it came: until the program has been stopped by   *)
(* it or has written the flag, the atomic or the flag holds it.            *)
InterruptIsKept == owed => latch \/ flag # 0

(* A computation under a guard of its own base, however long it runs, is   *)
(* stopped by an interrupt: it does not go on for ever with the guard in   *)
(* place.                                                                  *)
Interruptible ==
  (latch /\ handlers[current] > 0) ~>
    (raising = "stop" \/ ~latch \/ handlers[current] = 0 \/ pc \in {"ended", "killed"})

(* The same of any guard on the stack: "how many `guard' bodies are on the *)
(* stack" (engine.rs) is the question the loop means to ask.               *)
InterruptibleInChildren ==
  (latch /\ Guarded) ~>
    (raising = "stop" \/ ~latch \/ ~Guarded \/ pc \in {"ended", "killed"})

(* "The flag is cleared first so a handler that returns does not re-trip"  *)
(* (eval.rs): one interrupt raises at most one STOP.                       *)
OneStopEach == stops <= sent
=============================================================================
