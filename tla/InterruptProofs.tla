--------------------------- MODULE InterruptProofs ---------------------------
(***************************************************************************)
(* For every set of bases, every nesting of guards in bases and every      *)
(* number of interrupts: the handler rows count the guards, so a STOP is   *)
(* raised only where a guard catches it, and no interrupt is lost.         *)
(***************************************************************************)
EXTENDS Interrupt, FiniteSetTheorems, SequenceTheorems, TLAPS

(* A guard was entered in the base that runs under it: the one the next    *)
(* frame was entered in, or, for the innermost frame, the current one.     *)
(* This is what makes guard, which pops the current base's row, pop the    *)
(* row it pushed.                                                          *)
Entered(i) == IF i = Len(frames) THEN current ELSE frames[i + 1].base

GuardsRunInTheirBase ==
  \A i \in DOMAIN frames : frames[i].kind = "guard" => frames[i].base = Entered(i)

(* What a STOP has ahead of it while it unwinds; the run does not end.     *)
StopUnwinds == raising = "stop" => pc \in {"unwind", "killed"} /\ Guarded

(* While (sigint-install) is under way, an interrupt is in the atomic: the *)
(* flag, which its last step clears, is not what keeps it.                 *)
KeptWhileArming == pc \in {"arm", "clear"} => (owed => latch)

IInv ==
  /\ TypeOK
  /\ RowsCountGuards
  /\ GuardsRunInTheirBase
  /\ StopUnwinds
  /\ InterruptIsKept
  /\ KeptWhileArming

(* The positions of the guards of base `b' in `s'.                         *)
GuardsOf(s, b) == { i \in DOMAIN s : s[i].kind = "guard" /\ s[i].base = b }

-----------------------------------------------------------------------------
(* Counting.                                                               *)

(* A Rust stack has finitely many frames.                                  *)
LEMMA GuardsFinite ==
  ASSUME NEW s \in Seq(Frame), NEW b
  PROVE  IsFiniteSet(GuardsOf(s, b)) /\ Cardinality(GuardsOf(s, b)) \in Nat
<1>1. IsFiniteSet(1 .. Len(s))
  BY FS_Interval, LenProperties
<1>2. GuardsOf(s, b) \subseteq 1 .. Len(s)
  BY LenProperties DEF GuardsOf
<1>. QED
  BY <1>1, <1>2, FS_Subset, FS_CardinalityType

(* One more frame.                                                         *)
LEMMA GuardsOfAppend ==
  ASSUME NEW s \in Seq(Frame), NEW f \in Frame, NEW b
  PROVE  Cardinality(GuardsOf(Append(s, f), b)) =
           IF f.kind = "guard" /\ f.base = b
           THEN Cardinality(GuardsOf(s, b)) + 1
           ELSE Cardinality(GuardsOf(s, b))
<1> DEFINE t == Append(s, f)
<1>1. /\ t \in Seq(Frame) /\ Len(t) = Len(s) + 1 /\ t[Len(s) + 1] = f
      /\ \A i \in 1 .. Len(s) : t[i] = s[i]
      /\ DOMAIN s = 1 .. Len(s) /\ DOMAIN t = 1 .. Len(s) + 1 /\ Len(s) \in Nat
  BY AppendProperties, LenProperties
<1>. HIDE DEF t
<1>2. CASE f.kind = "guard" /\ f.base = b
  <2>1. GuardsOf(t, b) = GuardsOf(s, b) \cup {Len(s) + 1}
    BY <1>1, <1>2 DEF GuardsOf
  <2>2. Len(s) + 1 \notin GuardsOf(s, b)
    BY <1>1 DEF GuardsOf
  <2>3. IsFiniteSet(GuardsOf(s, b))
    BY GuardsFinite
  <2>4. Cardinality(GuardsOf(t, b)) = Cardinality(GuardsOf(s, b)) + 1
    BY <2>1, <2>2, <2>3, FS_AddElement
  <2>. QED
    BY <1>2, <2>4 DEF t
<1>3. CASE ~(f.kind = "guard" /\ f.base = b)
  <2>1. GuardsOf(t, b) = GuardsOf(s, b)
    BY <1>1, <1>3 DEF GuardsOf
  <2>. QED
    BY <1>3, <2>1 DEF t
<1>. QED
  BY <1>2, <1>3, Zenon

(* One frame fewer.                                                        *)
LEMMA FrontFacts ==
  ASSUME NEW s \in Seq(Frame), s # <<>>
  PROVE  /\ Front(s) \in Seq(Frame) /\ Len(s) \in Nat \ {0}
         /\ Len(Front(s)) = Len(s) - 1
         /\ \A i \in 1 .. Len(s) - 1 : Front(s)[i] = s[i]
         /\ DOMAIN s = 1 .. Len(s) /\ DOMAIN Front(s) = 1 .. Len(s) - 1
         /\ Last(s) \in Frame
<1>1. Len(s) \in Nat \ {0} /\ DOMAIN s = 1 .. Len(s)
  BY LenProperties, EmptySeq
<1>2. /\ Front(s) \in Seq(Frame)
      /\ Len(Front(s)) = Len(s) - 1
      /\ \A i \in 1 .. Len(s) - 1 : Front(s)[i] = s[i]
  BY <1>1, SubSeqProperties, SMTT(30) DEF Front
<1>3. DOMAIN Front(s) = 1 .. Len(s) - 1
  BY <1>2, LenProperties
<1>4. Last(s) \in Frame
  BY <1>1, ElementOfSeq DEF Last
<1>. QED
  BY <1>1, <1>2, <1>3, <1>4

(* A stack is its callers and its innermost frame.                         *)
LEMMA FrontLast ==
  ASSUME NEW s \in Seq(Frame), s # <<>>
  PROVE  s = Append(Front(s), Last(s))
<1>1. /\ Front(s) \in Seq(Frame) /\ Len(s) \in Nat \ {0}
      /\ Len(Front(s)) = Len(s) - 1
      /\ \A i \in 1 .. Len(s) - 1 : Front(s)[i] = s[i]
      /\ Last(s) \in Frame
  BY FrontFacts
<1>2. /\ Append(Front(s), Last(s)) \in Seq(Frame)
      /\ Len(Append(Front(s), Last(s))) = Len(s)
      /\ \A i \in 1 .. Len(s) - 1 : Append(Front(s), Last(s))[i] = s[i]
      /\ Append(Front(s), Last(s))[Len(s)] = Last(s)
  BY <1>1, AppendProperties
<1>3. \A i \in 1 .. Len(s) : s[i] = Append(Front(s), Last(s))[i]
  BY <1>1, <1>2 DEF Last
<1>. QED
  BY <1>2, <1>3, SeqEqual

(* A row that is not empty has a guard among the frames.                   *)
LEMMA RowMeansGuard ==
  ASSUME TypeOK, RowsCountGuards, handlers[current] > 0
  PROVE  Guarded
<1>1. handlers[current] = Cardinality(GuardsOf(frames, current))
  BY DEF TypeOK, RowsCountGuards, GuardsOf
<1>2. GuardsOf(frames, current) # {}
  BY <1>1, FS_EmptySet
<1>. QED
  BY <1>2 DEF GuardsOf, Guarded

-----------------------------------------------------------------------------
(* The frames.                                                             *)

(* Guards and rows agree after a frame is pushed by EnterGuard.            *)
LEMMA EnterGuardKeeps == IInv /\ EnterGuard => IInv'
<1>. SUFFICES ASSUME IInv, EnterGuard PROVE IInv'
  OBVIOUS
<1> DEFINE f == [kind |-> "guard", base |-> current]
<1>1. f \in Frame /\ f.kind = "guard" /\ f.base = current
  BY DEF IInv, TypeOK, Frame
<1>2. frames' = Append(frames, f) /\ handlers' = [handlers EXCEPT ![current] = @ + 1]
  BY DEF EnterGuard
<1>. HIDE DEF f
<1>3. /\ frames' \in Seq(Frame) /\ Len(frames') = Len(frames) + 1
      /\ frames'[Len(frames) + 1] = f
      /\ \A i \in 1 .. Len(frames) : frames'[i] = frames[i]
      /\ DOMAIN frames = 1 .. Len(frames) /\ DOMAIN frames' = 1 .. Len(frames) + 1
      /\ Len(frames) \in Nat
  BY <1>1, <1>2, AppendProperties, LenProperties DEF IInv, TypeOK
<1>4. TypeOK'
  BY <1>2, <1>3 DEF IInv, TypeOK, EnterGuard, os, past, Step
<1>5. RowsCountGuards'
  <2>1. SUFFICES ASSUME NEW b \in Base
                 PROVE  handlers'[b] = Cardinality(GuardsOf(frames', b))
    BY DEF RowsCountGuards, GuardsOf
  <2>2. handlers[b] = Cardinality(GuardsOf(frames, b))
    BY DEF IInv, RowsCountGuards, GuardsOf
  <2>3. Cardinality(GuardsOf(frames', b)) =
          IF b = current THEN handlers[b] + 1 ELSE handlers[b]
    BY <1>1, <1>2, <2>2, GuardsOfAppend DEF IInv, TypeOK
  <2>. QED
    BY <1>2, <2>3 DEF IInv, TypeOK
<1>6. GuardsRunInTheirBase'
  BY <1>1, <1>3 DEF IInv, GuardsRunInTheirBase, Entered, EnterGuard
<1>7. StopUnwinds' /\ InterruptIsKept' /\ KeptWhileArming'
  BY DEF IInv, StopUnwinds, InterruptIsKept, KeptWhileArming, EnterGuard, os, past
<1>. QED
  BY <1>4, <1>5, <1>6, <1>7 DEF IInv

(* Entering a base: the guards below keep theirs, the one it was entered   *)
(* from now being that of the new frame.                                   *)
LEMMA EnterBaseKeeps == IInv /\ EnterBase => IInv'
<1>. SUFFICES ASSUME IInv, EnterBase PROVE IInv'
  OBVIOUS
<1> DEFINE f == [kind |-> "base", base |-> current]
<1>1. f \in Frame /\ f.kind = "base" /\ f.base = current
  BY DEF IInv, TypeOK, Frame
<1>2. frames' = Append(frames, f) /\ current' \in Base
  BY DEF EnterBase
<1>. HIDE DEF f
<1>3. /\ frames' \in Seq(Frame) /\ Len(frames') = Len(frames) + 1
      /\ frames'[Len(frames) + 1] = f
      /\ \A i \in 1 .. Len(frames) : frames'[i] = frames[i]
      /\ DOMAIN frames = 1 .. Len(frames) /\ DOMAIN frames' = 1 .. Len(frames) + 1
      /\ Len(frames) \in Nat
  BY <1>1, <1>2, AppendProperties, LenProperties DEF IInv, TypeOK
<1>4. TypeOK'
  BY <1>2, <1>3 DEF IInv, TypeOK, EnterBase, os, past, Step
<1>5. RowsCountGuards'
  <2>1. SUFFICES ASSUME NEW b \in Base
                 PROVE  handlers'[b] = Cardinality(GuardsOf(frames', b))
    BY DEF RowsCountGuards, GuardsOf
  <2>2. handlers[b] = Cardinality(GuardsOf(frames, b))
    BY DEF IInv, RowsCountGuards, GuardsOf
  <2>3. Cardinality(GuardsOf(frames', b)) = handlers[b]
    BY <1>1, <1>2, <2>2, GuardsOfAppend DEF IInv, TypeOK
  <2>. QED
    BY <2>3 DEF EnterBase
<1>6. GuardsRunInTheirBase'
  BY <1>1, <1>3 DEF IInv, GuardsRunInTheirBase, Entered, EnterBase
<1>7. StopUnwinds' /\ InterruptIsKept' /\ KeptWhileArming'
  BY DEF IInv, StopUnwinds, InterruptIsKept, KeptWhileArming, EnterBase, os, past
<1>. QED
  BY <1>4, <1>5, <1>6, <1>7 DEF IInv

(* Leaving a frame: the guard pops its own row, as it runs in its base.    *)
LEMMA LeaveFrameKeeps ==
  ASSUME IInv, frames # <<>>, LeaveFrame
  PROVE  /\ frames' \in Seq(Frame) /\ handlers' \in [Base -> Nat] /\ current' \in Base
         /\ RowsCountGuards'
         /\ GuardsRunInTheirBase'
<1> DEFINE f == Innermost
<1>1. /\ frames' = Front(frames) /\ frames \in Seq(Frame) /\ f = Last(frames)
      /\ frames = Append(frames', f)
      /\ frames' \in Seq(Frame) /\ Len(frames) \in Nat \ {0}
      /\ Len(frames') = Len(frames) - 1
      /\ \A i \in 1 .. Len(frames) - 1 : frames'[i] = frames[i]
      /\ DOMAIN frames = 1 .. Len(frames) /\ DOMAIN frames' = 1 .. Len(frames) - 1
      /\ f \in Frame
  BY FrontFacts, FrontLast DEF IInv, TypeOK, LeaveFrame, Innermost
<1>2. f = frames[Len(frames)] /\ f.kind \in {"guard", "base"} /\ f.base \in Base
  BY <1>1 DEF Last, Frame
<1>3. f.kind = "guard" => f.base = current
  <2>1. Len(frames) \in DOMAIN frames /\ Entered(Len(frames)) = current
    BY <1>1 DEF Entered
  <2>. QED
    BY <1>2, <2>1 DEF IInv, GuardsRunInTheirBase
<1>4. \A b \in Base : /\ handlers[b] = Cardinality(GuardsOf(frames, b))
                      /\ Cardinality(GuardsOf(frames', b)) \in Nat
                      /\ Cardinality(GuardsOf(frames, b)) =
                           IF f.kind = "guard" /\ f.base = b
                           THEN Cardinality(GuardsOf(frames', b)) + 1
                           ELSE Cardinality(GuardsOf(frames', b))
  <2>1. SUFFICES ASSUME NEW b \in Base
                 PROVE  /\ handlers[b] = Cardinality(GuardsOf(frames, b))
                        /\ Cardinality(GuardsOf(frames', b)) \in Nat
                        /\ Cardinality(GuardsOf(frames, b)) =
                             IF f.kind = "guard" /\ f.base = b
                             THEN Cardinality(GuardsOf(frames', b)) + 1
                             ELSE Cardinality(GuardsOf(frames', b))
    OBVIOUS
  <2>2. handlers[b] = Cardinality(GuardsOf(frames, b))
    BY DEF IInv, RowsCountGuards, GuardsOf
  <2>3. Cardinality(GuardsOf(frames', b)) \in Nat
    BY <1>1, GuardsFinite
  <2>. HIDE DEF f
  <2>4. Cardinality(GuardsOf(Append(frames', f), b)) =
          IF f.kind = "guard" /\ f.base = b
          THEN Cardinality(GuardsOf(frames', b)) + 1
          ELSE Cardinality(GuardsOf(frames', b))
    BY <1>1, GuardsOfAppend
  <2>. QED
    BY <1>1, <2>2, <2>3, <2>4
<1>5. current' = f.base
  BY <1>2, <1>3 DEF LeaveFrame
<1>6. GuardsRunInTheirBase'
  <2>1. SUFFICES ASSUME NEW i \in DOMAIN frames', frames'[i].kind = "guard"
                 PROVE  frames'[i].base = Entered(i)'
    BY DEF GuardsRunInTheirBase
  <2>2. i \in DOMAIN frames /\ i \in 1 .. Len(frames) - 1 /\ frames'[i] = frames[i]
    BY <1>1, <2>1
  <2>3. frames[i].base = frames[i + 1].base
    BY <1>1, <2>1, <2>2 DEF IInv, GuardsRunInTheirBase, Entered
  <2>4. Entered(i)' = frames[i + 1].base
    BY <1>1, <1>2, <1>5, <2>2 DEF Entered
  <2>. QED
    BY <2>2, <2>3, <2>4
<1>7. CASE f.kind = "guard"
  <2>1. handlers' = [handlers EXCEPT ![current] = @ - 1]
    BY <1>7 DEF LeaveFrame
  <2>2. \A b \in Base : handlers'[b] = Cardinality(GuardsOf(frames', b))
    BY <1>3, <1>4, <1>7, <2>1 DEF IInv, TypeOK
  <2>3. handlers' \in [Base -> Nat]
    BY <1>4, <2>1, <2>2 DEF IInv, TypeOK
  <2>4. RowsCountGuards'
    BY <2>2 DEF RowsCountGuards, GuardsOf
  <2>. QED
    BY <1>1, <1>2, <1>5, <1>6, <2>3, <2>4
<1>8. CASE f.kind = "base"
  <2>1. handlers' = handlers
    BY <1>8 DEF LeaveFrame
  <2>2. \A b \in Base : handlers'[b] = Cardinality(GuardsOf(frames', b))
    BY <1>4, <1>8, <2>1
  <2>3. RowsCountGuards'
    BY <2>2 DEF RowsCountGuards, GuardsOf
  <2>. QED
    BY <1>1, <1>2, <1>5, <1>6, <2>1, <2>3 DEF IInv, TypeOK
<1>. QED
  BY <1>2, <1>7, <1>8

(* A value leaves the innermost frame.                                     *)
LEMMA ReturnKeeps == IInv /\ Return => IInv'
<1>. SUFFICES ASSUME IInv, Return PROVE IInv'
  OBVIOUS
<1>1. /\ frames' \in Seq(Frame) /\ handlers' \in [Base -> Nat] /\ current' \in Base
      /\ RowsCountGuards' /\ GuardsRunInTheirBase'
  BY LeaveFrameKeeps DEF Return
<1>2. TypeOK'
  BY <1>1 DEF IInv, TypeOK, Return, os, past, Step
<1>3. StopUnwinds' /\ InterruptIsKept' /\ KeptWhileArming'
  BY DEF IInv, StopUnwinds, InterruptIsKept, KeptWhileArming, Return, os, past
<1>. QED
  BY <1>1, <1>2, <1>3 DEF IInv

(* A STOP that meets a base finds its guard still ahead.                   *)
LEMMA UnwindKeeps == IInv /\ Unwind => IInv'
<1>. SUFFICES ASSUME IInv, Unwind PROVE IInv'
  OBVIOUS
<1>1. /\ frames' \in Seq(Frame) /\ handlers' \in [Base -> Nat] /\ current' \in Base
      /\ RowsCountGuards' /\ GuardsRunInTheirBase'
  BY LeaveFrameKeeps DEF Unwind
<1>2. TypeOK'
  BY <1>1 DEF IInv, TypeOK, Unwind, os, past, Step
<1>3. InterruptIsKept' /\ KeptWhileArming'
  BY DEF IInv, InterruptIsKept, KeptWhileArming, Unwind, os, past
<1>4. CASE Innermost.kind = "guard"
  BY <1>1, <1>2, <1>3, <1>4 DEF IInv, StopUnwinds, Unwind
<1>5. CASE Innermost.kind # "guard"
  <2>1. pc' = pc /\ raising' = raising /\ pc = "unwind"
    BY <1>5 DEF Unwind
  <2>2. ASSUME raising = "stop" PROVE Guarded'
    <3>1. PICK i \in DOMAIN frames : frames[i].kind = "guard"
      BY <2>2 DEF IInv, StopUnwinds, Guarded
    <3>2. /\ frames \in Seq(Frame) /\ frames # <<>> /\ frames' = Front(frames)
          /\ Innermost = frames[Len(frames)]
      BY DEF IInv, TypeOK, Unwind, LeaveFrame, Innermost, Last
    <3>3. i \in DOMAIN frames' /\ frames'[i] = frames[i]
      BY <1>5, <3>1, <3>2, FrontFacts
    <3>. QED
      BY <3>1, <3>3 DEF Guarded
  <2>3. StopUnwinds'
    BY <2>1, <2>2 DEF StopUnwinds
  <2>. QED
    BY <1>1, <1>2, <1>3, <2>3 DEF IInv
<1>. QED
  BY <1>4, <1>5

-----------------------------------------------------------------------------
(* The steps that leave the frames alone.                                  *)

(* The rows and the guards depend on `place' only.                         *)
LEMMA PlaceKeeps ==
  ASSUME IInv, UNCHANGED place
  PROVE  RowsCountGuards' /\ GuardsRunInTheirBase' /\ (Guarded <=> Guarded')
BY DEF IInv, place, RowsCountGuards, GuardsRunInTheirBase, Entered, Guarded

(* A signal finds the handler installed, or ends the process.              *)
LEMMA SignalKeeps == IInv /\ Signal => IInv'
<1>. SUFFICES ASSUME IInv, Signal PROVE IInv'
  OBVIOUS
<1>1. TypeOK'
  <2>1. pc' \in Step /\ latch' \in BOOLEAN /\ owed' \in BOOLEAN
    BY DEF IInv, TypeOK, Signal, Step
  <2>2. sent' \in Nat
    BY DEF IInv, TypeOK, Signal
  <2>. QED
    BY <2>1, <2>2 DEF IInv, TypeOK, Signal, place
<1>2. StopUnwinds' /\ InterruptIsKept' /\ KeptWhileArming'
  BY PlaceKeeps DEF IInv, StopUnwinds, InterruptIsKept, KeptWhileArming, Signal
<1>. QED
  BY <1>1, <1>2, PlaceKeeps DEF IInv, Signal

(* A STOP is raised under a row that is not empty.                         *)
LEMMA TestKeeps == IInv /\ Test => IInv'
<1>. SUFFICES ASSUME IInv, Test PROVE IInv'
  OBVIOUS
<1>1. TypeOK'
  <2>1. stops' \in Nat /\ flag' \in {0, 1}
    BY BoundAssumption DEF IInv, TypeOK, Test, BoundAssumption
  <2>2. /\ pc' \in Step /\ owed' \in BOOLEAN
        /\ raising' \in {"nothing", "stop", "condition"}
    BY DEF IInv, TypeOK, Test, Step
  <2>. QED
    BY <2>1, <2>2 DEF IInv, TypeOK, Test, os, place
<1>2. InterruptIsKept' /\ KeptWhileArming'
  BY DEF IInv, InterruptIsKept, KeptWhileArming, Test, os
<1>3. StopUnwinds'
  <2>1. CASE handlers[current] > 0 /\ flag # 0
    BY <2>1, RowMeansGuard, PlaceKeeps DEF IInv, StopUnwinds, Test
  <2>2. CASE ~(handlers[current] > 0 /\ flag # 0)
    BY <2>2 DEF IInv, StopUnwinds, Test
  <2>. QED
    BY <2>1, <2>2
<1>. QED
  BY <1>1, <1>2, <1>3, PlaceKeeps DEF IInv, Test

(* Every other step of the evaluator changes the flag, the latch, the      *)
(* disposition or where the evaluator is, and no frame.                    *)
LEMMA OtherStepsKeep ==
  ASSUME IInv,
         \/ Publish \/ NextForm \/ Raise \/ Uncaught \/ End
         \/ Install \/ Arm \/ Clear \/ Restore \/ SeeFlag \/ SetFlag
  PROVE  IInv'
<1>. USE DEF IInv, TypeOK, StopUnwinds, InterruptIsKept, KeptWhileArming, os, place, past, Step
<1>0. UNCHANGED place
  BY DEF Publish, NextForm, Raise, Uncaught, End, Install, Arm, Clear, Restore, SeeFlag, SetFlag
<1>1. TypeOK' /\ InterruptIsKept' /\ KeptWhileArming'
  <2>1. CASE Publish
    BY <2>1 DEF Publish
  <2>2. CASE NextForm
    BY <2>2 DEF NextForm
  <2>3. CASE Raise
    BY <2>3 DEF Raise
  <2>4. CASE Uncaught
    BY <2>4 DEF Uncaught
  <2>5. CASE End
    BY <2>5 DEF End
  <2>6. CASE Install
    BY <2>6 DEF Install
  <2>7. CASE Arm
    BY <2>7 DEF Arm
  <2>8. CASE Clear
    BY <2>8 DEF Clear
  <2>9. CASE Restore
    BY <2>9 DEF Restore
  <2>10. CASE SeeFlag
    BY <2>10 DEF SeeFlag
  <2>11. CASE SetFlag
    <3>1. sent' \in Nat /\ flag' = 1
      BY <2>11 DEF SetFlag
    <3>. QED
      BY <2>11, <3>1 DEF SetFlag
  <2>. QED
    BY <2>1, <2>2, <2>3, <2>4, <2>5, <2>6, <2>7, <2>8, <2>9, <2>10, <2>11
<1>3. CASE Uncaught
  <2>1. ~Guarded
    BY <1>3 DEF Uncaught, Guarded
  <2>. QED
    BY <1>0, <1>1, <1>3, <2>1, PlaceKeeps DEF Uncaught
<1>4. CASE ~Uncaught
  <2>1. StopUnwinds'
    BY <1>0, <1>4, PlaceKeeps
       DEF Publish, NextForm, Raise, End, Install, Arm, Clear, Restore, SeeFlag, SetFlag
  <2>. QED
    BY <1>0, <1>1, <2>1, PlaceKeeps
<1>. QED
  BY <1>3, <1>4

-----------------------------------------------------------------------------

(* No frame, no row.                                                       *)
LEMMA IInvInit == Init => IInv
<1>. SUFFICES ASSUME Init PROVE IInv
  OBVIOUS
<1>1. frames = <<>> /\ frames \in Seq(Frame) /\ DOMAIN frames = {}
  BY EmptySeq DEF Init
<1>2. TypeOK
  BY <1>1 DEF Init, TypeOK, Step
<1>3. RowsCountGuards
  <2>1. SUFFICES ASSUME NEW b \in Base
                 PROVE  handlers[b] = Cardinality(GuardsOf(frames, b))
    BY DEF RowsCountGuards, GuardsOf
  <2>2. GuardsOf(frames, b) = {}
    BY <1>1 DEF GuardsOf
  <2>. QED
    BY <2>2, FS_EmptySet DEF Init
<1>. QED
  BY <1>1, <1>2, <1>3 DEF Init, IInv, GuardsRunInTheirBase, StopUnwinds, InterruptIsKept, KeptWhileArming

(* Every step keeps the invariant.                                         *)
LEMMA IInvNext == IInv /\ [Next]_vars => IInv'
<1>. SUFFICES ASSUME IInv, [Next]_vars PROVE IInv'
  OBVIOUS
<1>1. CASE Signal
  BY <1>1, SignalKeeps
<1>2. CASE Evaluator
  BY <1>2, TestKeeps, EnterGuardKeeps, EnterBaseKeeps, ReturnKeeps, UnwindKeeps, OtherStepsKeep
     DEF Evaluator
<1>3. CASE UNCHANGED vars
  BY <1>3, PlaceKeeps
     DEF vars, os, place, past, IInv, TypeOK, StopUnwinds, InterruptIsKept, KeptWhileArming
<1>. QED
  BY <1>1, <1>2, <1>3 DEF Next

(* The inductive invariant: type, rows, the base each guard runs in, and   *)
(* the guard ahead of a STOP, which the properties below follow from.      *)
THEOREM Inductive == Spec => []IInv
BY IInvInit, IInvNext, PTL DEF Spec

(* The variables stay in their sets.                                       *)
THEOREM TypeCorrect == Spec => []TypeOK
<1>1. IInv => TypeOK
  BY DEF IInv
<1>. QED
  BY <1>1, Inductive, PTL

(* A STOP that is raised is caught, whatever bases it unwinds through.     *)
THEOREM StopsAreCaught == Spec => []StopIsCaught
<1>1. IInv => StopIsCaught
  BY DEF IInv, StopUnwinds, StopIsCaught
<1>. QED
  BY <1>1, Inductive, PTL

(* Each base's handler row counts the guards that run in it.               *)
THEOREM RowsAreExact == Spec => []RowsCountGuards
<1>1. IInv => RowsCountGuards
  BY DEF IInv
<1>. QED
  BY <1>1, Inductive, PTL

(* An interrupt is in the atomic or in the flag until the program saw it.  *)
THEOREM InterruptsAreKept == Spec => []InterruptIsKept
<1>1. IInv => InterruptIsKept
  BY DEF IInv
<1>. QED
  BY <1>1, Inductive, PTL
=============================================================================
