-------------------------------- MODULE Roots --------------------------------
(***************************************************************************)
(* What keeps an object alive while only a Rust local names it.            *)
(*                                                                         *)
(* The collector frees what it cannot reach from the base, from the root   *)
(* stacks the evaluator pushes to and cuts back to marks (Engine.roots,    *)
(* Engine.env_roots), from the control records and from the snapshots of   *)
(* continuations.  A program may call (heap collect) at any step, with any *)
(* number of Rust frames waiting, so each frame must have rooted what it   *)
(* is still going to use -- and no frame may cut a root of another.        *)
(*                                                                         *)
(* `stack' is the Rust stack, one record per frame that waits.  A form is  *)
(* one object, its subforms with it; what it does is chosen as it is       *)
(* evaluated.  Evaluator models the rows beside the stack, and shows that  *)
(* the control records are those of the frames that wait, so here they are *)
(* read off the stack.                                                     *)
(***************************************************************************)
EXTENDS Naturals, SequencesExt

CONSTANTS
  Forms,              (* bound: the forms each frame evaluates             *)
  MaxDepth,           (* bound: evaluations on the stack                   *)
  MaxObjs,            (* bound: objects that something names at one time   *)
  MaxReads,           (* bound: forms read at the top                      *)
  MaxForms,           (* bound: forms in a body or an included file        *)
  MaxArgs,            (* bound: forms in an argument list                  *)
  MaxBound,           (* bound: values an environment binds                *)
  MaxConts,           (* bound: continuations with a snapshot              *)
  MaxReplayCollects   (* bound: collections while a replay runs            *)

FormKind == {"fn", "pair", "call", "apply", "seq", "guard", "def", "set!",
             "var", "error", "collect", "include", "iter", "door", "call/cc", "throw"}

FrameKind == {"top", "source", "eval", "args", "body", "guard", "def", "call",
              "iter", "call/cc", "replay", "resume-body", "resume-args"}

ASSUME RootsAssumption ==
  /\ Forms \in [FrameKind -> SUBSET FormKind]
  /\ {MaxDepth, MaxObjs, MaxReads, MaxForms, MaxArgs, MaxBound, MaxConts, MaxReplayCollects} \subseteq Nat

VARIABLES
  heap,       (* what each object refers to                                *)
  roots,      (* Engine.roots                                              *)
  envRoots,   (* Engine.env_roots                                          *)
  stack,      (* the Rust frames that wait                                 *)
  ans,        (* what the innermost of them is about to be handed          *)
  snaps       (* Engine.cont_snapshots, by continuation                    *)

vars == <<heap, roots, envRoots, stack, ans, snaps>>

-----------------------------------------------------------------------------
(* The heap.  The base stands for its environment, for nil and for the     *)
(* instructions: it is never freed.                                        *)
Base == 0
Ids  == 1 .. MaxObjs
Obj  == Ids \cup {Base}
Kind == {"free", "form", "env", "fn", "val", "iter", "cont"}

(* `up' is an environment's parent, a closure's environment, an iterator's *)
(* step function.                                                          *)
Node(kind, refs, up) == [kind |-> kind, refs |-> refs, up |-> up]
Free == Node("free", {}, Base)

(* From object to object along `next'.                                     *)
Orbit(next, from) ==
  LET upTo[n \in 0 .. MaxObjs] ==
        IF n = 0 THEN from ELSE upTo[n - 1] \cup UNION {next[o] : o \in upTo[n - 1]}
  IN  upTo[MaxObjs]
Reached(h, from) == Orbit([o \in Obj |-> h[o].refs \cup {h[o].up}], from \cup {Base})

(* The environments a lookup goes through, and what it may find there.     *)
Chain(env) == Orbit([o \in Obj |-> {heap[o].up}], {env})
Bound(env) == UNION {heap[e].refs : e \in Chain(env)}

-----------------------------------------------------------------------------
(* `left' counts the subforms not begun, and the collections a replay has  *)
(* seen; `mark' and `emark' are the frame's marks; `does' says what an     *)
(* argument list is for, or which door an iterator was asked at; `recs'    *)
(* are the records a replay still has.                                     *)
Frame(fn, does, form, env, left) ==
  [fn |-> fn, does |-> does, form |-> form, env |-> env, left |-> left,
   callee |-> Base, vals |-> <<>>, recs |-> <<>>,
   mark |-> Len(roots), emark |-> Len(envRoots)]

Top   == Last(stack)
Below == Front(stack)
With(f) == Append(Below, f)

(* Vec::truncate: a length above the vector's own leaves it alone.         *)
Cut(s, to) == IF to < Len(s) THEN SubSeq(s, 1, to) ELSE s

(* Engine.active_evals *)
Active(st) == Cardinality({i \in DOMAIN st : st[i].fn = "eval"})
Room == Active(stack) < MaxDepth

(* The control records, of the frames a nested evaluation has left waiting.*)
(* An argument list whose callee is not known leaves none, nor does the    *)
(* rest of one that a replay resumes.                                      *)
Recording(f) == \/ f.fn \in {"body", "guard", "def", "resume-body"}
                \/ f.fn = "args" /\ f.does # "apply"
Record(f, depth) ==
  [what |-> IF f.fn = "args" THEN f.does ELSE IF f.fn = "def" THEN "def" ELSE "body",
   callee |-> f.callee, vals |-> f.vals, form |-> IF f.left = 0 THEN Base ELSE f.form,
   env |-> f.env, left |-> f.left, depth |-> depth]
Control(st) ==
  LET upTo[n \in 0 .. Len(st)] ==
        IF n = 0 THEN <<>>
        ELSE IF Recording(st[n]) THEN Append(upTo[n - 1], Record(st[n], Active(Cut(st, n))))
        ELSE upTo[n - 1]
  IN  upTo[Len(st)]
Named(r) == {r.callee, r.form, r.env} \cup Range(r.vals)

(* What a frame is going to use.  A call is over once it answers; the      *)
(* primitive behind an iterator door writes to its operand, or reads it    *)
(* again, after its step function has answered.                            *)
Held(f) ==
  CASE f.fn = "eval"                                    -> {f.form, f.env}
    [] f.fn \in {"body", "guard", "def", "resume-body"} -> {f.form, f.env}
    [] f.fn \in {"args", "resume-args"}                 -> Named(f)
    [] f.fn = "replay"              -> UNION {Named(r) : r \in Range(f.recs)}
    [] OTHER                                            -> {}
Operand(f) == IF f.fn = "iter" THEN {f.callee} ELSE {}

-----------------------------------------------------------------------------
(* root_set, env_root_set and the records, as collect marks from them.     *)
RootSet ==
  {Base} \cup Range(roots) \cup Range(envRoots)
    \cup (UNION {Named(r) : r \in Range(Control(stack))})
    \cup UNION {UNION {Named(r) : r \in Range(snaps[k].recs)} : k \in DOMAIN snaps}

(* An identity is used again once nothing in the engine names it.  The     *)
(* number a call/cc frame and a snapshot keep is the continuation's own.   *)
Spoken ==
  Reached(heap, RootSet
    \cup (UNION {Held(f) \cup Operand(f) \cup Range(f.vals) \cup {f.callee} : f \in Range(stack)})
    \cup {ans.v, ans.env} \cup DOMAIN snaps)
Fresh == Ids \ Spoken
Least(s) == CHOOSE o \in s : \A p \in s : o <= p
NewObj == Least(Fresh)

-----------------------------------------------------------------------------
(* What is handed to the innermost frame: nothing yet, a value, a parked   *)
(* tail, a raise, or the escape to a continuation.                         *)
Ans(is, v, env) == [is |-> is, v |-> v, env |-> env]
Nothing      == Ans("nothing", Base, Base)
Ok(v)        == Ans("ok", v, Base)
Parked(f, e) == Ans("tail", f, e)
Raise        == Ans("raise", Base, Base)
Escape(v, k) == Ans("escape", v, k)

TypeOK ==
  /\ heap \in [Obj -> [kind : Kind, refs : SUBSET Obj, up : Obj]]
  /\ roots \in Seq(Obj) /\ envRoots \in Seq(Obj)
  /\ \A f \in Range(stack) : f.fn \in FrameKind /\ {f.form, f.env, f.callee} \subseteq Obj
  /\ ans.is \in {"nothing", "ok", "tail", "raise", "escape"} /\ ans.v \in Obj
  /\ DOMAIN snaps \subseteq Ids

Init ==
  /\ heap = [o \in Obj |-> IF o = Base THEN Node("env", {}, Base) ELSE Free]
  /\ roots = <<>> /\ envRoots = <<>>
  /\ stack = <<[fn |-> "top", does |-> "", form |-> Base, env |-> Base, left |-> MaxReads,
                callee |-> Base, vals |-> <<>>, recs |-> <<>>, mark |-> 0, emark |-> 0]>>
  /\ ans = Nothing /\ snaps = <<>>

-----------------------------------------------------------------------------
(* Engine::eval: the form and the environment are rooted in slots of their *)
(* own; on the way out the slots go and the result is rooted for whoever   *)
(* waits.                                                                  *)
Eval(st, form, env) ==
  /\ stack' = Append(st, Frame("eval", "", form, env, 0))
  /\ roots' = Append(roots, form)
  /\ envRoots' = Append(envRoots, env)

Pop      == stack' = Below
At(fn, is) == Top.fn = fn /\ ans.is = is

EvalAnswers ==
  /\ At("eval", "ok")
  /\ roots' = Append(Cut(roots, Top.mark), ans.v)
  /\ envRoots' = Cut(envRoots, Top.emark)
  /\ Pop /\ UNCHANGED <<heap, ans, snaps>>

TrampolineKeepsEnv ==   \* mutant: only the form's slot follows the tail
  /\ At("eval", "tail")
  /\ roots' = [Cut(roots, Top.mark + 1) EXCEPT ![Top.mark + 1] = ans.v]
  /\ stack' = With([Top EXCEPT !.does = "tail", !.form = ans.v, !.env = ans.env])
  /\ ans' = Nothing
  /\ UNCHANGED <<heap, envRoots, snaps>>

(* The trampoline takes the parked tail into the same two slots.           *)
Trampoline ==
  /\ At("eval", "tail")
  /\ roots' = [Cut(roots, Top.mark + 1) EXCEPT ![Top.mark + 1] = ans.v]
  /\ envRoots' = [Cut(envRoots, Top.emark + 1) EXCEPT ![Top.emark + 1] = ans.env]
  /\ stack' = With([Top EXCEPT !.does = "tail", !.form = ans.v, !.env = ans.env])
  /\ ans' = Nothing
  /\ UNCHANGED <<heap, snaps>>

(* What a frame wants evaluated next runs x-lang, or is an atom whose value*)
(* some environment binds, answered and taken at once.                     *)
WantsForm(f) == \/ f.fn \in {"args", "guard", "def", "resume-body", "resume-args"} /\ f.left > 0
                \/ f.fn = "body" /\ f.left > 1
Begin ==
  /\ ans = Nothing /\ WantsForm(Top) /\ Room
  /\ Eval(With([Top EXCEPT !.left = @ - 1]), Top.form, Top.env)
  /\ UNCHANGED <<heap, ans, snaps>>
Atoms(env) == {Base} \cup Bound(env)

-----------------------------------------------------------------------------
(* What the form of the innermost evaluation is.                           *)
Evaluates(form) ==
  /\ ans = Nothing /\ Top.fn = "eval"
  /\ form \in Forms[IF Top.does = "tail" THEN "eval" ELSE Last(Below).fn]

LooksUp ==    \* a symbol
  /\ Evaluates("var") /\ \E v \in Bound(Top.env) : ans' = Ok(v)
  /\ UNCHANGED <<heap, roots, envRoots, stack, snaps>>

Closes ==     \* (fn ...)
  /\ Evaluates("fn") /\ Fresh # {}
  /\ heap' = [heap EXCEPT ![NewObj] = Node("fn", {Top.form}, Top.env)]
  /\ ans' = Ok(NewObj)
  /\ UNCHANGED <<roots, envRoots, stack, snaps>>

(* A combination: the callee is an atom, rooted as the result of eval; the *)
(* forms of the argument list are rooted from the mark on.                 *)
Combine(does, callee, n) ==
  /\ stack' = Append(stack, [Frame("args", does, Top.form, Top.env, n)
                                EXCEPT !.callee = callee, !.mark = @ + 1])
  /\ roots' = roots \o <<callee, Top.form>>
  /\ UNCHANGED <<heap, envRoots, ans, snaps>>

Callable(kind) == {o \in Bound(Top.env) : heap[o].kind = kind}
CombineInstruction ==
  \/ Evaluates("pair")    /\ \E n \in 1 .. MaxArgs : Combine("pair", Base, n)
  \/ Evaluates("door")    /\ \E door \in {"next", "step", "empty?"} : Combine(door, Base, 1)
  \/ Evaluates("iter")    /\ Combine("iter", Base, 2)
  \/ Evaluates("call/cc") /\ Combine("call/cc", Base, 1)
CombineCallable ==
  \/ Evaluates("call")    /\ \E c \in Callable("fn"), n \in 0 .. MaxArgs : Combine("call", c, n)
  \/ Evaluates("apply")   /\ \E c \in Callable("fn"), n \in 0 .. MaxArgs : Combine("apply", c, n)
  \/ Evaluates("throw")   /\ \E k \in Callable("cont") : Combine("throw", k, 1)

(* Forms that wait in a frame without touching the root stacks.            *)
Waits(fn, n) ==
  /\ stack' = Append(stack, Frame(fn, "", Top.form, Top.env, n))
  /\ UNCHANGED <<heap, roots, envRoots, ans, snaps>>
Sequence == Evaluates("seq") /\ \E n \in 1 .. MaxForms : Waits("body", n)
Guard    == Evaluates("guard") /\ Waits("guard", 1)
Define   == Evaluates("def") /\ Waits("def", 1)

(* (set! x ()): a name of some environment lets its value go.              *)
Forget ==
  /\ Evaluates("set!")
  /\ \E e \in Chain(Top.env) : \E o \in heap[e].refs :
       heap' = [heap EXCEPT ![e].refs = @ \ {o}]
  /\ ans' = Ok(Base)
  /\ UNCHANGED <<roots, envRoots, stack, snaps>>

RaiseError ==
  /\ Evaluates("error") /\ ans' = Raise
  /\ UNCHANGED <<heap, roots, envRoots, stack, snaps>>

(* (include path): the hidden saves are rooted, and the source's mark is   *)
(* above them.                                                             *)
Include ==
  /\ Evaluates("include")
  /\ \E n \in 1 .. MaxForms :
       stack' = Append(stack, [Frame("source", "", Base, Base, n) EXCEPT !.mark = @ + 1])
  /\ roots' = Append(roots, Base)
  /\ UNCHANGED <<heap, envRoots, ans, snaps>>

(* (heap collect): what the roots do not reach is freed, and the snapshot  *)
(* of a continuation with it.                                              *)
Collect ==
  /\ Evaluates("collect")
  /\ \A f \in Range(stack) : f.fn = "replay" => f.left < MaxReplayCollects
  /\ LET kept == Reached(heap, RootSet)
     IN  /\ heap' = [o \in Obj |-> IF o \in kept THEN heap[o] ELSE Free]
         /\ snaps' = Restrict(snaps, DOMAIN snaps \cap kept)
  /\ stack' = [i \in DOMAIN stack |-> IF stack[i].fn = "replay"
                                       THEN [stack[i] EXCEPT !.left = @ + 1] ELSE stack[i]]
  /\ ans' = Ok(Base)
  /\ UNCHANGED <<roots, envRoots>>

-----------------------------------------------------------------------------
(* An argument list has been read: its roots are cut back to the mark.  A  *)
(* replay calls with what it has instead, so the roots of a call lie below.*)
CallFrame(does, mark) == [Frame("call", does, Base, Base, 0) EXCEPT !.mark = mark]
Settled ==
  IF Top.fn = "args"
  THEN [st |-> Below, rts |-> Cut(roots, Top.mark)]
  ELSE [st  |-> Append(Below, CallFrame("settled", Top.mark)),
        rts |-> (roots \o <<Top.callee>>) \o Top.vals]

Applies(does) ==
  ans = Nothing /\ Top.fn \in {"args", "resume-args"} /\ Top.left = 0 /\ Top.does \in does

(* A value leaf: what it makes refers to its operands.                     *)
Make(node) ==
  /\ Fresh # {}
  /\ heap' = [heap EXCEPT ![NewObj] = node]
  /\ ans' = Ok(NewObj)
  /\ stack' = Settled.st /\ roots' = Settled.rts /\ UNCHANGED <<envRoots, snaps>>
MakePair == Applies({"pair"}) /\ Make(Node("val", Range(Top.vals), Base))
MakeIter == Applies({"iter"}) /\ Make(Node("iter", {Top.vals[2]}, Top.vals[1]))

Throw ==
  /\ Applies({"throw"})
  /\ ans' = Escape(Top.vals[1], Top.callee)
  /\ stack' = Settled.st /\ roots' = Settled.rts /\ UNCHANGED <<heap, envRoots, snaps>>

(* apply_closure_bound: a frame of the closure's environment, rooted, binds*)
(* the closure and the values; its body runs above st.                     *)
EnterClosure(h, free, st, c, vals) ==
  LET env == Least(free)
  IN  /\ h[c].kind = "fn"
      /\ heap' = [h EXCEPT ![env] = Node("env", ({c} \cup Range(vals)) \ {Base}, h[c].up)]
      /\ envRoots' = Append(envRoots, env)
      /\ \E form \in h[c].refs, n \in 1 .. MaxForms :
           stack' = Append(st, [Frame("body", "fn", form, env, n) EXCEPT !.mark = Len(roots')])
      /\ ans' = Nothing

(* call_with_values, which settles the tail, and its twin, which does not. *)
CallWithValues(h, free, does, base, c, vals) ==
  /\ free # {} /\ roots' = base.rts \o <<c>> \o vals
  /\ EnterClosure(h, free, Append(base.st, CallFrame(does, Len(base.rts))), c, vals)

(* A closure's values are pushed again once the forms are off.             *)
ApplyClosure ==
  /\ Applies({"call"}) /\ Fresh # {}
  /\ roots' = Settled.rts \o Top.vals
  /\ EnterClosure(heap, Fresh, Settled.st, Top.callee, Top.vals)
  /\ UNCHANGED snaps
ApplyList ==
  /\ Applies({"apply"})
  /\ CallWithValues(heap, Fresh, "tail",
        [st |-> Settled.st, rts |-> Settled.rts \o Top.vals], Top.callee, Top.vals)
  /\ UNCHANGED snaps

(* An iterator door: read the step function and the state, and call.       *)
Peek ==
  /\ Applies({"next", "step", "empty?"})
  /\ LET it == Top.vals[1]
         f  == [Frame("iter", Top.does, Base, Base, 0)
                 EXCEPT !.callee = it, !.vals = SetToSeq(heap[it].refs), !.mark = Len(Settled.rts)]
     IN  CallWithValues(heap, Fresh, "settled",
           [Settled EXCEPT !.st = Append(@, f)], heap[it].up, f.vals)
  /\ UNCHANGED snaps

(* with_escape: a new continuation, the records as they stand, and a call. *)
CoversEveryFrame(recs, depth) ==
  Len(recs) + 1 = depth /\ \A i \in DOMAIN recs : recs[i].depth = i
CallCC ==
  /\ Applies({"call/cc"}) /\ Fresh # {} /\ Cardinality(DOMAIN snaps) < MaxConts
  /\ LET k    == NewObj
         recs == Control(Settled.st)
         f    == [Frame("call/cc", "", Base, Base, 0)
                 EXCEPT !.callee = k, !.mark = Len(Settled.rts)]
         snap == [recs |-> recs, resumable |-> CoversEveryFrame(recs, Active(Settled.st))]
     IN  /\ snaps' = [j \in DOMAIN snaps \cup {k} |-> IF j = k THEN snap ELSE snaps[j]]
         /\ CallWithValues([heap EXCEPT ![k] = Node("cont", {}, Base)], Fresh \ {k}, "settled",
              [Settled EXCEPT !.st = Append(@, f)], Top.vals[1], <<k>>)

-----------------------------------------------------------------------------
(* A value reaches the frame that waits for it.                            *)
ReadForm ==
  /\ ans = Nothing /\ Top.fn \in {"top", "source"} /\ Top.left > 0 /\ Fresh # {} /\ Room
  /\ heap' = [heap EXCEPT ![NewObj] = Node("form", {}, Base)]
  /\ Eval(With([Top EXCEPT !.left = @ - 1]), NewObj, Base)
  /\ UNCHANGED <<ans, snaps>>

FormAnswersKeepsAll ==   \* mutant: the form's roots stay below its value
  /\ ans.is = "ok" /\ Top.fn \in {"top", "source"}
  /\ roots' = Append(roots, ans.v)
  /\ ans' = Nothing
  /\ UNCHANGED <<heap, envRoots, stack, snaps>>

(* Cut back to the one mark of the source, and keep the latest value.      *)
FormAnswers ==
  /\ ans.is = "ok" /\ Top.fn \in {"top", "source"}
  /\ roots' = Append(Cut(roots, Top.mark), ans.v)
  /\ ans' = Nothing
  /\ UNCHANGED <<heap, envRoots, stack, snaps>>
SourceEnds ==
  /\ ans = Nothing /\ Top.fn = "source" /\ Top.left = 0
  /\ ans' = Ok(Last(roots))
  /\ roots' = Cut(roots, Top.mark - 1)
  /\ Pop /\ UNCHANGED <<heap, envRoots, snaps>>

(* A door is given an iterator, and iter and call/cc a closure.            *)
Suits(v) ==
  /\ Top.does \in {"next", "step", "empty?"} => heap[v].kind = "iter"
  /\ Top.does \in {"iter", "call/cc"} /\ Top.vals = <<>> => heap[v].kind = "fn"

ArgAtom ==
  /\ ans = Nothing /\ Top.fn \in {"args", "resume-args"} /\ Top.left > 0
  /\ \E v \in Atoms(Top.env) :
       /\ Suits(v)
       /\ stack' = With([Top EXCEPT !.left = @ - 1, !.vals = Append(@, v)])
       /\ roots' = roots \o <<v, v>>
  /\ UNCHANGED <<heap, envRoots, ans, snaps>>
ArgAnswers ==
  /\ ans.is = "ok" /\ Top.fn \in {"args", "resume-args"} /\ Suits(ans.v)
  /\ stack' = With([Top EXCEPT !.vals = Append(@, ans.v)])
  /\ roots' = Append(roots, ans.v)
  /\ ans' = Nothing
  /\ UNCHANGED <<heap, envRoots, snaps>>

BodyAnswers ==
  /\ \/ At("body", "ok")
     \/ At("resume-body", "ok") /\ Top.left > 0
  /\ ans' = Nothing
  /\ UNCHANGED <<heap, roots, envRoots, stack, snaps>>
BodyParks ==
  /\ ans = Nothing /\ Top.fn = "body" /\ Top.left = 1
  /\ ans' = Parked(Top.form, Top.env)
  /\ envRoots' = Cut(envRoots, Top.emark)
  /\ Pop /\ UNCHANGED <<heap, roots, snaps>>

(* def binds in the base while no closure body of this source waits.       *)
Pending ==
  \E i \in DOMAIN stack : /\ stack[i].fn = "body" /\ stack[i].does = "fn"
                         /\ \A j \in i .. Len(stack) : stack[j].fn # "source"
Bind(env, v) ==
  LET e == IF Pending THEN env ELSE Base
  IN  \E old \in {Base} \cup heap[e].refs :
        LET now == ((heap[e].refs \ {old}) \cup {v}) \ {Base}
        IN  Cardinality(now) <= MaxBound /\ heap' = [heap EXCEPT ![e].refs = now]
DefAtom ==
  /\ ans = Nothing /\ Top.fn = "def" /\ Top.left > 0
  /\ \E v \in Atoms(Top.env) : Bind(Top.env, v) /\ roots' = Append(roots, v)
  /\ ans' = Ok(Base)
  /\ Pop /\ UNCHANGED <<envRoots, snaps>>
DefBinds ==
  /\ At("def", "ok") /\ Bind(Top.env, ans.v)
  /\ ans' = Ok(Base)
  /\ Pop /\ UNCHANGED <<roots, envRoots, snaps>>

(* Values that pass through: a guard's, a call/cc's, a call's.             *)
Passes ==
  /\ ans.is = "ok"
  /\ \/ Top.fn \in {"guard", "call/cc"} /\ UNCHANGED roots
     \/ Top.fn = "call" /\ roots' = Cut(roots, Top.mark)
     \/ Top.fn = "resume-body" /\ Top.left = 0 /\ roots' = Cut(roots, Top.mark)
     \/ Top.fn = "replay" /\ Top.recs = <<>> /\ UNCHANGED roots
  /\ Pop /\ UNCHANGED <<heap, envRoots, ans, snaps>>

(* A tail parked under a call is run there, unless the call stands for it. *)
CallSettles ==
  /\ At("call", "tail")
  /\ IF Top.does = "settled"
     THEN Room /\ Eval(stack, ans.v, ans.env) /\ ans' = Nothing
     ELSE Pop /\ roots' = Cut(roots, Top.mark) /\ UNCHANGED <<envRoots, ans>>
  /\ UNCHANGED <<heap, snaps>>

(* The step function has answered nil, or a pair of a value and a state.   *)
(* next writes the state to its operand; step makes an iterator of it; a   *)
(* write to a freed operand falls on a chunk of the free list.             *)
Exhausted == ans.v = Base \/ Top.does = "empty?"
IterAnswers ==
  /\ At("iter", "ok")
  /\ \/ /\ Exhausted
        /\ ans' = Ok(Base) /\ UNCHANGED heap
     \/ /\ ~Exhausted /\ Top.does = "next"
        /\ \E rest, v \in {Base} \cup heap[ans.v].refs :
             /\ heap' = IF heap[Top.callee].kind = "free" THEN heap
                        ELSE [heap EXCEPT ![Top.callee].refs = {rest}]
             /\ ans' = Ok(v)
     \/ /\ ~Exhausted /\ Top.does = "step" /\ Fresh # {}
        /\ \E rest \in {Base} \cup heap[ans.v].refs :
             heap' = [heap EXCEPT ![NewObj] = Node("iter", {rest}, heap[Top.callee].up)]
        /\ ans' = Ok(NewObj)
  /\ Pop /\ UNCHANGED <<roots, envRoots, snaps>>

-----------------------------------------------------------------------------
(* A raise or an escape goes through the frames, each cutting to its mark. *)
Unwind ==
  /\ ans.is \in {"raise", "escape"}
  /\ Top.fn \notin {"top", "source"}
  /\ Top.fn = "guard" => ans.is = "escape"
  /\ Top.fn = "call/cc" => ~(ans.is = "escape" /\ ans.env = Top.callee)
  /\ roots' = IF Top.fn \in {"eval", "args", "call", "resume-body", "resume-args"}
              THEN Cut(roots, Top.mark) ELSE roots
  /\ envRoots' = IF Top.fn \in {"eval", "body"} THEN Cut(envRoots, Top.emark) ELSE envRoots
  /\ Pop /\ UNCHANGED <<heap, ans, snaps>>

(* The handler runs in a fresh frame of the guard's environment.           *)
GuardCatches ==
  /\ At("guard", "raise") /\ Fresh # {}
  /\ heap' = [heap EXCEPT ![NewObj] = Node("env", {}, Top.env)]
  /\ \E n \in 1 .. MaxForms : stack' = With(Frame("body", "", Top.form, NewObj, n))
  /\ ans' = Nothing
  /\ UNCHANGED <<roots, envRoots, snaps>>
EscapeLands ==
  /\ At("call/cc", "escape") /\ ans.env = Top.callee
  /\ ans' = Ok(ans.v)
  /\ Pop /\ UNCHANGED <<heap, roots, envRoots, snaps>>

SourceFailsToZero ==   \* mutant: every driver that fails clears the roots
  /\ ans.is = "raise" /\ Top.fn \in {"top", "source"}
  /\ roots' = <<>>
  /\ IF Top.fn = "top" THEN ans' = Nothing /\ UNCHANGED stack ELSE Pop /\ UNCHANGED ans
  /\ UNCHANGED <<heap, envRoots, snaps>>

SourceFails ==
  /\ ans.is = "raise" /\ Top.fn \in {"top", "source"}
  /\ IF Top.fn = "top" THEN ans' = Nothing /\ roots' = <<>> /\ UNCHANGED stack
                        ELSE Pop /\ roots' = Cut(roots, Top.mark - 1) /\ UNCHANGED ans
  /\ UNCHANGED <<heap, envRoots, snaps>>

(* An escape whose call/cc is gone is replayed from where it surfaces.     *)
Replays ==
  /\ ans.is = "escape" /\ Top.fn \in {"top", "source"}
  /\ LET k == ans.env
     IN  IF k \in DOMAIN snaps /\ snaps[k].resumable
         THEN /\ ans' = Ok(ans.v)
              /\ stack' = Append(stack, [Frame("replay", "", Base, Base, 0)
                                           EXCEPT !.recs = snaps[k].recs])
         ELSE ans' = Raise /\ UNCHANGED stack
  /\ UNCHANGED <<heap, roots, envRoots, snaps>>

(* resume, innermost record first, the value handed on rooted across it.   *)
Resume ==
  /\ At("replay", "ok") /\ Top.recs # <<>>
  /\ LET r    == Last(Top.recs)
         rest == [Top EXCEPT !.recs = Front(@)]
     IN  \/ /\ r.what = "body" /\ r.left = 0
            /\ stack' = With(rest) /\ UNCHANGED <<heap, roots, ans>>
         \/ /\ r.what = "def" /\ Bind(r.env, ans.v)
            /\ stack' = With(rest) /\ ans' = Ok(Base) /\ UNCHANGED roots
         \/ /\ r.what = "body" /\ r.left > 0
            /\ stack' = Append(With(rest), Frame("resume-body", "", r.form, r.env, r.left))
            /\ roots' = Append(roots, ans.v) /\ ans' = Nothing /\ UNCHANGED heap
         \/ /\ r.what \notin {"body", "def"}
            /\ LET vals == Append(r.vals, ans.v)
               IN  /\ stack' = Append(With(rest),
                        [Frame("resume-args", r.what, r.form, r.env, r.left)
                          EXCEPT !.callee = r.callee, !.vals = vals])
                   /\ roots' = Append(roots, ans.v) \o vals
            /\ ans' = Nothing /\ UNCHANGED heap
  /\ UNCHANGED <<envRoots, snaps>>

-----------------------------------------------------------------------------
Next ==
  \/ ReadForm \/ FormAnswers \/ SourceEnds \/ SourceFails
  \/ EvalAnswers \/ Trampoline \/ Begin
  \/ LooksUp \/ Closes \/ CombineInstruction \/ CombineCallable \/ Sequence \/ Guard \/ Define
  \/ Forget \/ RaiseError \/ Include \/ Collect
  \/ MakePair \/ MakeIter \/ Throw \/ ApplyClosure \/ ApplyList \/ Peek \/ CallCC
  \/ ArgAtom \/ ArgAnswers \/ DefAtom \/ BodyAnswers \/ BodyParks \/ DefBinds \/ Passes \/ CallSettles
  \/ IterAnswers \/ Unwind \/ GuardCatches \/ EscapeLands \/ Replays \/ Resume

Spec == Init /\ [][Next]_vars

-----------------------------------------------------------------------------
(* A frame finds what it is still going to use: whatever the frames above  *)
(* it did -- calls, tails, files, raises, escapes, replays -- and whenever *)
(* one of them collected, nothing it holds was freed.                      *)
HeldIsLive == \A f \in Range(stack) : \A o \in Held(f) : heap[o].kind # "free"

(* The two slots of every evaluation stay where it found them and hold the *)
(* form and the environment it is at: no frame above cuts below its mark,  *)
(* and the evaluation itself can be sure of what it overwrites.            *)
SlotsStand ==
  \A f \in Range(stack) : f.fn = "eval" =>
    /\ f.mark < Len(roots) /\ roots[f.mark + 1] = f.form
    /\ f.emark < Len(envRoots) /\ envRoots[f.emark + 1] = f.env

(* Between two forms of a source the root stacks are where it found them,  *)
(* but for its latest value: a session or an included file of any length,  *)
(* with calls, raises and replays in it, does not grow them.               *)
SourceHoldsOneRoot ==
  ans = Nothing /\ Top.fn \in {"top", "source"} =>
    Len(roots) <= Top.mark + 1 /\ Len(envRoots) = Top.emark

(* eval.rs on evaluated arguments: "the VALUES are not" done with, "and    *)
(* they stay until the enclosing `eval_pending` truncates on exit".        *)
OperandsStay == \A f \in Range(stack) : \A o \in Operand(f) : heap[o].kind # "free"
=============================================================================
