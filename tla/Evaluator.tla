------------------------------ MODULE Evaluator ------------------------------
(***************************************************************************)
(* The evaluator's control: the trampoline of eval.rs, the forms that nest *)
(* an evaluation under themselves, guard, call/cc and the replay of a      *)
(* continuation whose extent is dead.                                      *)
(*                                                                         *)
(* The engine keeps its place on the Rust stack, and beside it, on the     *)
(* base and in the Engine, rows that must agree with that stack on every   *)
(* way out of a form: the save stack (which decides where a def binds),    *)
(* the handler row (which decides whether an interrupt may raise), the     *)
(* control records (which a continuation captures), the count of           *)
(* evaluations, and the parked tail.  Here the Rust stack is `stack', one  *)
(* record per Rust frame that waits for a nested evaluation, and the rows  *)
(* are variables of their own.                                             *)
(*                                                                         *)
(* A form is what it does: each step of an evaluation chooses one of the   *)
(* forms in Forms, so a behaviour is the run of some program.              *)
(***************************************************************************)
EXTENDS Naturals, SequencesExt

CONSTANTS
  Forms,       (* which forms the programs are made of                     *)
  MaxFrames,   (* bound: Rust frames below which a new form may nest       *)
  MaxForms,    (* bound: forms in a body, an argument list or a file       *)
  MaxConts     (* bound: continuations captured in a run                   *)

FormKind == {"nested", "args", "body", "guard", "bind", "with", "here",
             "call/cc", "include", "handler", "driver", "hook", "jit"}

ASSUME FormAssumption  == Forms \subseteq FormKind
ASSUME BoundAssumption == MaxFrames \in Nat /\ MaxForms \in Nat /\ MaxConts \in Nat

VARIABLES
  stack,      (* the Rust frames that wait for a nested evaluation         *)
  mode,       (* what the innermost of them is about to get                *)
  parked,     (* the tco-expr row holds a form                             *)
  saves,      (* length of the base's save-stack row                       *)
  handlers,   (* length of the base's error-handler row                    *)
  control,    (* Engine.control                                            *)
  active,     (* Engine.active_evals                                       *)
  escaping,   (* the continuation in Engine.escaping; 0 for None           *)
  snaps       (* Engine.cont_snapshots, by continuation id                 *)

vars == <<stack, mode, parked, saves, handlers, control, active, escaping, snaps>>
rows == <<parked, saves, handlers, control, escaping, snaps>>

FrameKind == {"top", "source", "eval", "nested", "args", "walk", "guard", "bind",
              "with", "here", "callcc", "settle", "driver", "hook", "jit",
              "replay", "refill"}

(* ControlRec.  `guards' and `saves' are history: the rows as they stood.  *)
Record == [what : {"args", "body", "bind", "pass"}, left : 0 .. MaxForms,
           depth : Nat, guards : Nat, saves : Nat]

Frame == [fn : FrameKind, left : 0 .. MaxForms, parks : BOOLEAN, save : BOOLEAN,
          held : Nat, id : 0 .. MaxConts, recs : Seq(Record)]

(* ContSnapshot.  `lost' is history: the Rust frames, at the capture, that *)
(* held work no record describes, and `again' whether a replay was running.*)
Snapshot == [recs : Seq(Record), resumable : BOOLEAN,
             lost : SUBSET FrameKind, again : BOOLEAN]

TypeOK ==
  /\ stack \in Seq(Frame)
  /\ mode \in {"idle", "run", "apply", "ok", "err"}
  /\ parked \in BOOLEAN
  /\ saves \in Nat /\ handlers \in Nat /\ active \in Nat
  /\ control \in Seq(Record)
  /\ escaping \in 0 .. Len(snaps)
  /\ snaps \in Seq(Snapshot) /\ Len(snaps) <= MaxConts

Init ==
  /\ stack = <<>> /\ mode = "idle" /\ parked = FALSE
  /\ saves = 0 /\ handlers = 0 /\ control = <<>> /\ active = 0
  /\ escaping = 0 /\ snaps = <<>>

-----------------------------------------------------------------------------
(* The frames, and what each keeps beside the Rust stack.                  *)

Plain(fn) == [fn |-> fn, left |-> 0, parks |-> FALSE, save |-> FALSE,
              held |-> 0, id |-> 0, recs |-> <<>>]
Eval      == Plain("eval")

(* A frame that still has `n' forms to evaluate after the current one.     *)
Pending(fn, n) == [Plain(fn) EXCEPT !.left = n]

(* eval_body_tail and eval_body in mid-walk; a closure's holds a save.     *)
Walk(n, parks, save) ==
  [Plain("walk") EXCEPT !.left = n, !.parks = parks, !.save = save]

Top == Last(stack)

(* The frames that have a control record while they wait, and which.       *)
RecordOf(fn) ==
  CASE fn = "args" -> "args" [] fn = "walk" -> "body" [] fn = "bind" -> "bind"
    [] fn \in {"with", "here"} -> "pass" [] OTHER -> "none"
Recording   == { fn \in FrameKind : RecordOf(fn) # "none" }
Recorded(f) == f.fn \in Recording

(* The frames whose remaining work is in Rust locals and nowhere else.     *)
Unrecorded(f) ==
  \/ f.fn \in {"nested", "source", "driver", "hook", "jit", "refill"}
  \/ f.fn = "replay" /\ f.recs # <<>>

Rec(what, n, sv) == [what |-> what, left |-> n, depth |-> active,
                     guards |-> handlers, saves |-> sv]

(* Engine::eval under a new frame: one more evaluation, and its form runs. *)
Enter(st, f) ==
  /\ stack' = st \o <<f, Eval>>
  /\ active' = active + 1
  /\ mode' = "run"

(* The next form of the same frame.                                        *)
Again(f) ==
  /\ stack' = Front(stack) \o <<f, Eval>>
  /\ active' = active + 1
  /\ mode' = "run"

Room == Len(stack) + 2 <= MaxFrames

(* Mutant: `r?' before the pop -- a failing frame leaves its record.       *)
LeaveEarly(answer) ==
  /\ stack' = Front(stack)
  /\ mode' = answer
  /\ control' = IF Recorded(Top) /\ answer # "err" THEN Front(control) ELSE control
  /\ saves' = IF Top.save THEN saves - 1 ELSE saves

(* Leave the top frame with an answer: what it pushed on the rows comes    *)
(* off before the answer is looked at, whichever answer it is.             *)
Leave(answer) ==
  /\ stack' = Front(stack)
  /\ mode' = answer
  /\ control' = IF Recorded(Top) THEN Front(control) ELSE control
  /\ saves' = IF Top.save THEN saves - 1 ELSE saves

(* eval_body_tail over `n' forms, under the stack `st': the last is parked.*)
BodyTail(st, n, save) ==
  \/ /\ n = 0
     /\ stack' = st /\ mode' = "ok"
     /\ UNCHANGED <<parked, saves, control, active>>
  \/ /\ n = 1
     /\ stack' = st /\ mode' = "ok" /\ parked' = TRUE
     /\ UNCHANGED <<saves, control, active>>
  \/ /\ n > 1
     /\ LET sv == IF save THEN saves + 1 ELSE saves
        IN  /\ saves' = sv
            /\ control' = Append(control, Rec("body", n - 1, sv))
     /\ Enter(st, Walk(n - 1, TRUE, save))
     /\ UNCHANGED parked

-----------------------------------------------------------------------------
(* A form is evaluated.  In mode "run" the top frame is a trampoline about *)
(* to do a form; in mode "apply" a callee has its arguments, and the frame *)
(* that wants the result is on top.                                        *)

Applying == mode \in {"run", "apply"}

(* eval_top.                                                               *)
TopForm ==
  /\ mode = "idle"
  /\ Enter(<<>>, Plain("top"))
  /\ UNCHANGED rows

(* A value, a bound symbol, a primitive that answers.                      *)
Answer ==
  /\ Applying
  /\ mode' = "ok"
  /\ UNCHANGED <<stack, active, rows>>

(* Unbound, (error v), a primitive that refuses, the armed ceiling.        *)
Raise ==
  /\ Applying
  /\ mode' = "err"
  /\ UNCHANGED <<stack, active, rows>>

(* An evaluation an operative leaf makes for itself: the head of a form, a *)
(* match test, the operands of eval, eval!, error and apply.               *)
EvalNested ==
  /\ "nested" \in Forms /\ mode = "run" /\ Room
  /\ Enter(stack, Plain("nested"))
  /\ UNCHANGED rows

(* eval_args_for with a callee: each argument under an Args record.        *)
EvalArgs ==
  /\ "args" \in Forms /\ mode = "run" /\ Room
  /\ \E n \in 1 .. MaxForms :
       /\ control' = Append(control, Rec("args", n - 1, saves))
       /\ Enter(stack, Pending("args", n - 1))
  /\ UNCHANGED <<parked, saves, handlers, escaping, snaps>>

(* apply_closure_bound, and apply_op (and %seq, atomic, a match arm), which *)
(* walk a body without saving.                                             *)
ApplyBody ==
  /\ "body" \in Forms /\ Applying /\ Room
  /\ \E n \in 0 .. MaxForms, save \in BOOLEAN : BodyTail(stack, n, save)
  /\ UNCHANGED <<handlers, escaping, snaps>>

(* guard: the handler row first, then eval_body.                           *)
EnterGuard ==
  /\ "guard" \in Forms /\ mode = "run" /\ Room
  /\ handlers' = handlers + 1
  /\ \E n \in 1 .. MaxForms :
       /\ control' = Append(control, [Rec("body", n - 1, saves) EXCEPT !.guards = @ + 1])
       /\ Enter(Append(stack, Plain("guard")), Walk(n - 1, FALSE, FALSE))
  /\ UNCHANGED <<parked, saves, escaping, snaps>>

(* def and set!.                                                           *)
EvalBind ==
  /\ "bind" \in Forms /\ mode = "run" /\ Room
  /\ control' = Append(control, Rec("bind", 0, saves))
  /\ Enter(stack, Plain("bind"))
  /\ UNCHANGED <<parked, saves, handlers, escaping, snaps>>

(* (eval form env): the save, then the record.                             *)
EvalWith ==
  /\ "with" \in Forms /\ mode = "run" /\ Room
  /\ saves' = saves + 1
  /\ control' = Append(control, Rec("pass", 0, saves + 1))
  /\ Enter(stack, [Plain("with") EXCEPT !.save = TRUE])
  /\ UNCHANGED <<parked, handlers, escaping, snaps>>

(* (eval! form).                                                           *)
EvalHere ==
  /\ "here" \in Forms /\ mode = "run" /\ Room
  /\ control' = Append(control, Rec("pass", 0, saves))
  /\ Enter(stack, Plain("here"))
  /\ UNCHANGED <<parked, saves, handlers, escaping, snaps>>

(* include: hide_pending, then eval_source_file's first form.              *)
Include ==
  /\ "include" \in Forms /\ mode = "run" /\ Room
  /\ \E n \in 1 .. MaxForms :
       Enter(stack, [Pending("source", n - 1) EXCEPT !.held = saves])
  /\ saves' = 0
  /\ UNCHANGED <<parked, handlers, control, escaping, snaps>>

(* A library handler of the form's type, applied to a value or a spine and *)
(* settled: apply_closure_values, and eval_call from combine.              *)
CallHandler ==
  /\ "handler" \in Forms /\ Applying /\ Room
  /\ stack' = Append(stack, Plain("settle"))
  /\ mode' = "apply"
  /\ UNCHANGED <<active, rows>>

(* call_with_values from an engine leaf that has work left when the call   *)
(* returns: an iterator's step, a reader or an operator handler.           *)
CallDriver ==
  /\ "driver" \in Forms /\ Applying /\ Room
  /\ stack' = stack \o <<Plain("driver"), Plain("settle")>>
  /\ mode' = "apply"
  /\ UNCHANGED <<active, rows>>

(* One hook of run_gc_hooks, whose result is discarded.                    *)
CallHook ==
  /\ "hook" \in Forms /\ Applying /\ Room
  /\ stack' = stack \o <<Plain("hook"), Plain("settle")>>
  /\ mode' = "apply"
  /\ UNCHANGED <<active, rows>>

(* jit_eval_arg, under an emitted function.                                *)
CallJit ==
  /\ "jit" \in Forms /\ Applying /\ Room
  /\ Enter(stack, Plain("jit"))
  /\ UNCHANGED rows

(* Mutant: fewer records than frames will do.                              *)
CoversSomeFrames(recs, depth) ==
  /\ depth > 0
  /\ Len(recs) <= depth - 1
  /\ \A i \in DOMAIN recs : recs[i].depth >= i

(* covers_every_frame.                                                     *)
CoversEveryFrame(recs, depth) ==
  /\ depth > 0
  /\ Len(recs) = depth - 1
  /\ \A i \in DOMAIN recs : recs[i].depth = i

Capture == [recs |-> control,
            resumable |-> CoversEveryFrame(control, active),
            lost |-> {f.fn : f \in {f \in Range(stack) : Unrecorded(f)}},
            again |-> \E f \in Range(stack) : f.fn = "replay"]

(* with_escape, up to the application of its receiver.                     *)
CallCC ==
  /\ "call/cc" \in Forms /\ Applying /\ Room
  /\ Len(snaps) < MaxConts
  /\ snaps' = Append(snaps, Capture)
  /\ stack' = stack \o <<[Plain("callcc") EXCEPT !.id = Len(snaps) + 1], Plain("settle")>>
  /\ mode' = "apply"
  /\ UNCHANGED <<parked, saves, handlers, control, active, escaping>>

(* invoke_cont: any continuation captured so far, live or dead.            *)
Invoke ==
  /\ Applying
  /\ \E k \in DOMAIN snaps : escaping' = k
  /\ mode' = "err"
  /\ UNCHANGED <<stack, parked, saves, handlers, control, active, snaps>>

-----------------------------------------------------------------------------
(* A frame gets a value.                                                   *)

Gets(fn) == mode = "ok" /\ stack # <<>> /\ Top.fn = fn

(* eval_pending after the handler of the form's type: a parked tail is the *)
(* next form of this trampoline, and without one the evaluation is over.   *)
Trampoline ==
  /\ Gets("eval")
  /\ parked' = FALSE
  /\ IF parked
     THEN mode' = "run" /\ UNCHANGED <<stack, active>>
     ELSE mode' = "ok" /\ stack' = Front(stack) /\ active' = active - 1
  /\ UNCHANGED <<saves, handlers, control, escaping, snaps>>

(* Mutant: a caller that wants a value hands its parked tail on.           *)
SettleNothing ==
  /\ Gets("settle")
  /\ stack' = Front(stack)
  /\ UNCHANGED <<mode, active, rows>>

(* eval_call's settle: a caller that is no trampoline runs the tail here.  *)
Settle ==
  /\ Gets("settle")
  /\ parked' = FALSE
  /\ IF parked
     THEN mode' = "run" /\ stack' = Append(stack, Eval) /\ active' = active + 1
     ELSE mode' = "ok" /\ stack' = Front(stack) /\ UNCHANGED active
  /\ UNCHANGED <<saves, handlers, control, escaping, snaps>>

(* The operative goes on with what it wanted the value for.                *)
NestedDone ==
  /\ Gets("nested")
  /\ Leave("run")
  /\ UNCHANGED <<parked, handlers, active, escaping, snaps>>

ArgDone ==
  /\ Gets("args")
  /\ IF Top.left = 0
     THEN Leave("apply") /\ UNCHANGED active
     ELSE /\ control' = Append(Front(control), Rec("args", Top.left - 1, saves))
          /\ Again([Top EXCEPT !.left = @ - 1])
          /\ UNCHANGED saves
  /\ UNCHANGED <<parked, handlers, escaping, snaps>>

(* One form of a body is done: the next, or the last is parked, or, in     *)
(* eval_body, the last was evaluated here and its value is the body's.     *)
FormDone ==
  /\ Gets("walk")
  /\ \/ /\ Top.left > 1 \/ (Top.left = 1 /\ ~Top.parks)
        /\ control' = Append(Front(control), Rec("body", Top.left - 1, saves))
        /\ Again([Top EXCEPT !.left = @ - 1])
        /\ UNCHANGED <<parked, saves>>
     \/ /\ Top.left = 1 /\ Top.parks
        /\ parked' = TRUE
        /\ Leave("ok")
        /\ UNCHANGED active
     \/ /\ Top.left = 0
        /\ Leave("ok")
        /\ UNCHANGED <<parked, active>>
  /\ UNCHANGED <<handlers, escaping, snaps>>

GuardDone ==
  /\ Gets("guard")
  /\ handlers' = handlers - 1
  /\ Leave("ok")
  /\ UNCHANGED <<parked, active, escaping, snaps>>

(* The value is bound -- or set! finds no such name.                       *)
BindDone ==
  /\ Gets("bind")
  /\ Leave("ok") \/ Leave("err")
  /\ UNCHANGED <<parked, handlers, active, escaping, snaps>>

(* eval, eval!, a call/cc whose receiver returned, and the value machine   *)
(* code gets from jit_eval_arg.                                            *)
ValueDone ==
  /\ \E fn \in {"with", "here", "callcc", "jit"} : Gets(fn)
  /\ Leave("ok")
  /\ UNCHANGED <<parked, handlers, active, escaping, snaps>>

(* The engine leaf answers, refuses what it got, or calls again.           *)
DriverDone ==
  /\ Gets("driver")
  /\ \/ Leave("ok") \/ Leave("err")
     \/ /\ stack' = Append(stack, Plain("settle")) /\ mode' = "apply"
        /\ UNCHANGED <<saves, control>>
  /\ UNCHANGED <<parked, handlers, active, escaping, snaps>>

(* eval_source_file: the next form, or the end of the file and             *)
(* restore_pending.                                                        *)
SourceFormDone ==
  /\ Gets("source")
  /\ IF Top.left > 0
     THEN Again([Top EXCEPT !.left = @ - 1]) /\ UNCHANGED saves
     ELSE stack' = Front(stack) /\ saves' = Top.held /\ UNCHANGED <<mode, active>>
  /\ UNCHANGED <<parked, handlers, control, escaping, snaps>>

(* Its reader raises, or a reader handler invokes a continuation: the file *)
(* ends, and nothing here asks whether an escape is passing.               *)
SourceReadFails ==
  /\ Gets("source") /\ Top.left > 0
  /\ stack' = Front(stack) /\ saves' = Top.held /\ mode' = "err"
  /\ escaping' \in {escaping} \cup DOMAIN snaps
  /\ UNCHANGED <<parked, handlers, control, active, snaps>>

TopDone ==
  /\ Gets("top")
  /\ stack' = <<>> /\ mode' = "idle"
  /\ UNCHANGED <<active, rows>>

-----------------------------------------------------------------------------
(* A condition or an escape unwinds a frame.                               *)

Fails(fn) == mode = "err" /\ stack # <<>> /\ Top.fn = fn

UnwindEval ==
  /\ Fails("eval")
  /\ stack' = Front(stack) /\ active' = active - 1
  /\ UNCHANGED <<mode, rows>>

(* A frame with nothing to say about it: it undoes its own rows.           *)
UnwindFrame ==
  /\ \E fn \in {"nested", "args", "walk", "bind", "with", "here", "settle",
                "driver", "replay", "refill"} : Fails(fn)
  /\ Leave("err")
  /\ UNCHANGED <<parked, handlers, active, escaping, snaps>>

(* Mutant: guard runs its handler for an escape, too.                      *)
GuardCatchesEscapes ==
  /\ Fails("guard")
  /\ handlers' = handlers - 1
  /\ \E n \in 0 .. MaxForms : BodyTail(Front(stack), n, FALSE)
  /\ UNCHANGED <<escaping, snaps>>

(* guard: an escape passes through; a condition runs the handler, whose    *)
(* body is in tail position.                                               *)
GuardFails ==
  /\ Fails("guard")
  /\ handlers' = handlers - 1
  /\ IF escaping # 0
     THEN Leave("err") /\ UNCHANGED <<parked, active>>
     ELSE \E n \in 0 .. MaxForms : BodyTail(Front(stack), n, FALSE)
  /\ UNCHANGED <<escaping, snaps>>

(* Mutant: the escape is stopped and stays set.                            *)
CallCCKeepsEscape ==
  /\ Fails("callcc")
  /\ Leave(IF escaping = Top.id THEN "ok" ELSE "err")
  /\ UNCHANGED <<parked, handlers, active, escaping, snaps>>

(* with_escape stops its own escape and no other.                          *)
CallCCFails ==
  /\ Fails("callcc")
  /\ IF escaping = Top.id
     THEN Leave("ok") /\ escaping' = 0
     ELSE Leave("err") /\ UNCHANGED escaping
  /\ UNCHANGED <<parked, handlers, active, snaps>>

(* run_gc_hooks and jit_eval_arg look at no Err.                           *)
Swallow ==
  /\ Fails("hook") \/ Fails("jit") \/ Gets("hook")
  /\ Leave("ok")
  /\ UNCHANGED <<parked, handlers, active, escaping, snaps>>

(* resume_escape, from eval_top or from the loop of eval_source_file: the  *)
(* snapshot is replayed, or the escape becomes an ordinary condition.      *)
ResumeEscape ==
  /\ Fails("top") \/ Fails("source")
  /\ escaping # 0
  /\ escaping' = 0
  /\ IF snaps[escaping].resumable
     THEN /\ stack' = Append(stack, [Plain("replay") EXCEPT !.recs = snaps[escaping].recs])
          /\ mode' = "ok"
     ELSE UNCHANGED <<stack, mode>>
  /\ UNCHANGED <<parked, saves, handlers, control, active, snaps>>

(* A condition reaches the caller of eval_top, or ends an included file.   *)
TopFails ==
  /\ Fails("top") /\ escaping = 0
  /\ stack' = <<>> /\ mode' = "idle"
  /\ UNCHANGED <<active, rows>>

(* Mutant: a load that fails does not restore the saves it hid.            *)
SourceKeepsHidden ==
  /\ Fails("source") /\ escaping = 0
  /\ stack' = Front(stack)
  /\ UNCHANGED <<mode, active, rows>>

SourceFails ==
  /\ Fails("source") /\ escaping = 0
  /\ stack' = Front(stack) /\ saves' = Top.held
  /\ UNCHANGED <<mode, parked, handlers, control, active, escaping, snaps>>

-----------------------------------------------------------------------------
(* replay: the records, innermost first, each resumed with the value of    *)
(* the one before.                                                         *)

Innermost  == Last(Top.recs)
WithoutIt  == Append(Front(stack), [Top EXCEPT !.recs = Front(@)])
Replaying(what) == Gets("replay") /\ Top.recs # <<>> /\ Innermost.what = what

ReplayDone ==
  /\ Gets("replay") /\ Top.recs = <<>>
  /\ Leave("ok")
  /\ UNCHANGED <<parked, handlers, active, escaping, snaps>>

(* Pass is the identity, and so is a body with nothing left to run.        *)
ResumePass ==
  /\ Replaying("pass") \/ (Replaying("body") /\ Innermost.left = 0)
  /\ stack' = WithoutIt
  /\ UNCHANGED <<mode, active, rows>>

(* resume_bind.                                                            *)
ResumeBind ==
  /\ Replaying("bind")
  /\ stack' = WithoutIt
  /\ mode' \in {"ok", "err"}
  /\ UNCHANGED <<active, rows>>

(* resume_body: eval_body over the remaining forms.                        *)
ResumeBody ==
  /\ Replaying("body") /\ Innermost.left > 0
  /\ control' = Append(control, Rec("body", Innermost.left - 1, saves))
  /\ Enter(WithoutIt, Walk(Innermost.left - 1, FALSE, FALSE))
  /\ UNCHANGED <<parked, saves, handlers, escaping, snaps>>

(* resume_args: the remaining arguments, then the call.                    *)
ResumeArgs ==
  /\ Replaying("args")
  /\ IF Innermost.left = 0
     THEN /\ stack' = Append(WithoutIt, Plain("settle"))
          /\ mode' = "apply" /\ UNCHANGED active
     ELSE Enter(WithoutIt, Pending("refill", Innermost.left - 1))
  /\ UNCHANGED rows

RefillDone ==
  /\ Gets("refill")
  /\ IF Top.left = 0
     THEN /\ stack' = Append(Front(stack), Plain("settle"))
          /\ mode' = "apply" /\ UNCHANGED active
     ELSE Again([Top EXCEPT !.left = @ - 1])
  /\ UNCHANGED rows

Resume == ReplayDone \/ ResumePass \/ ResumeBind \/ ResumeBody \/ ResumeArgs \/ RefillDone

Form == \/ Answer \/ Raise
        \/ EvalNested \/ EvalArgs \/ ApplyBody \/ EnterGuard \/ EvalBind
        \/ EvalWith \/ EvalHere \/ Include
        \/ CallHandler \/ CallDriver \/ CallHook \/ CallJit \/ CallCC \/ Invoke

Value == \/ Trampoline \/ Settle \/ NestedDone \/ ArgDone \/ FormDone
         \/ GuardDone \/ BindDone \/ ValueDone \/ DriverDone
         \/ SourceFormDone \/ SourceReadFails \/ TopDone

Unwind == \/ UnwindEval \/ UnwindFrame \/ GuardFails \/ CallCCFails
          \/ Swallow \/ ResumeEscape \/ TopFails \/ SourceFails

Next == TopForm \/ Form \/ Value \/ Unwind \/ Resume

Spec == Init /\ [][Next]_vars

-----------------------------------------------------------------------------
(* Properties.                                                             *)

(* Of the first `n' frames of `st', those of the kinds `fns', and the      *)
(* saves pushed since the innermost load among them.                       *)
Count(st, n, fns) == Cardinality({ j \in 1 .. n : st[j].fn \in fns })
SavesUnder(st, n) ==
  Cardinality({ i \in 1 .. n : st[i].save /\ \A j \in i .. n : st[j].fn # "source" })

(* A record is that of the frame `f', in an evaluation at `depth'.         *)
Describes(r, f, depth) ==
  r.what = RecordOf(f.fn) /\ r.left = f.left /\ r.depth = depth

(* At every step, on every way out of a form, the rows say what the Rust   *)
(* stack says: as many evaluations, handlers and -- since the innermost    *)
(* load -- saves as there are frames that pushed one, and the control      *)
(* records are those of the frames that wait, outermost first, each at the *)
(* depth of the evaluation it waits in.  So a def binds where it is        *)
(* written, an interrupt raises only under a guard, and a capture sees     *)
(* what is really in flight.                                               *)
RowsMatchStack ==
  /\ active = Count(stack, Len(stack), {"eval"})
  /\ handlers = Count(stack, Len(stack), {"guard"})
  /\ saves = SavesUnder(stack, Len(stack))
  /\ Len(control) = Count(stack, Len(stack), Recording)
  /\ \A i \in DOMAIN stack : stack[i].fn \in Recording =>
       Describes(control[Count(stack, i, Recording)], stack[i], Count(stack, i, {"eval"}))

(* A parked tail is taken by the trampoline or the settle it was parked    *)
(* for: no other evaluation begins, and no frame is left, while it waits.  *)
TailIsTaken == parked => mode = "ok" /\ Top.fn \in {"eval", "settle"}

(* Between top-level forms the engine holds nothing over from the last.    *)
TopLevelIsClean ==
  mode = "idle" => /\ ~parked /\ saves = 0 /\ handlers = 0 /\ active = 0
                   /\ control = <<>> /\ escaping = 0

(* The extents that are open, outermost first: a guard's, or that of the   *)
(* call/cc of a continuation.                                              *)
Extents ==
  LET marks == {"guard", "callcc"}
      nth(n) == CHOOSE i \in DOMAIN stack :
                  stack[i].fn \in marks /\ Count(stack, i, marks) = n
  IN  [n \in 1 .. Count(stack, Len(stack), marks) |-> stack[nth(n)].id]

(* guard and call/cc keep what they promise, whatever is nested in them:   *)
(* a raise stops at the innermost guard, an escape at its own call/cc.     *)
Extent == INSTANCE DynamicExtent WITH
  extents <- Extents,
  signal  <- IF mode = "err" THEN <<escaping>> ELSE <<>>

ImplementsExtent == Extent!Spec

IsLive(k) == \E i \in DOMAIN stack : stack[i].fn = "callcc" /\ stack[i].id = k

(* callcc.rs: "a live invocation still unwinds to this frame".  Nothing    *)
(* takes an escape up before the call/cc it is for, while that is waiting. *)
EscapeLands ==
  [][ escaping # 0 /\ IsLive(escaping) /\ escaping' # escaping
        => Top.fn = "callcc" /\ Top.id = escaping ]_vars

(* eval.rs on a capture that cannot be replayed: it "is refused at invoke  *)
(* time, catchably".  No guard around the invocation is passed by an       *)
(* escape that is going to be refused.                                     *)
RefusalIsCatchable ==
  Fails("guard") /\ escaping # 0 /\ ~IsLive(escaping) => snaps[escaping].resumable

(* engine.rs: `escaping' is "an escape in flight".                         *)
EscapeInFlight == escaping # 0 => mode = "err"

(* callcc.rs: a capture over "an operative holding evaluation state in     *)
(* Rust locals" is refused, "rather than resumed wrongly".  Outside a      *)
(* replay, a capture that passes for complete forgets no operative, no     *)
(* load and no machine code, only engine leaves that call back.            *)
OperativesAreSeen ==
  \A k \in DOMAIN snaps :
    snaps[k].resumable /\ ~snaps[k].again => snaps[k].lost \subseteq {"driver", "hook"}

(* The same promise read of every frame, "any in-flight frame".            *)
NothingForgotten == \A k \in DOMAIN snaps : snaps[k].resumable => snaps[k].lost = {}

(* What a replay resumes runs under the guards it was written under.       *)
ResumedUnderItsGuards ==
  Gets("replay") /\ Top.recs # <<>> /\ Innermost.left > 0 => Innermost.guards = handlers

(* What a replay resumes binds where it would have: in the activation, if  *)
(* it was captured in one.                                                 *)
ResumedUnderItsSave ==
  Gets("replay") /\ Top.recs # <<>> => (Innermost.saves = 0) = (saves = 0)
=============================================================================
