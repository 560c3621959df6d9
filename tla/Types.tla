-------------------------------- MODULE Types -------------------------------
(***************************************************************************)
(* Type objects and dispatch: value/typed.rs, the stamping of objects.rs,  *)
(* the registries of engine.rs, the type primitives of prims/obj.rs, and   *)
(* how eval.rs reads a type to evaluate, apply and operate.                *)
(*                                                                         *)
(* A type is an object; a handle is another, its name.  A value's type     *)
(* word names the type, the program holds handles, and the alist of a base *)
(* leads from one to the other.  Builtin handles are one for the engine,   *)
(* builtin types one for each base.                                        *)
(*                                                                         *)
(* Of the handler families the four the evaluator reads are kept: eval and *)
(* call are stacks, and of the alists ops and from the keys are kept.      *)
(***************************************************************************)
EXTENDS Naturals, Sequences, FiniteSets, TLC, SequencesExt

CONSTANTS
  Made,         (* the handles (type make) can answer                      *)
  Used,         (* bound: the handles the program names                    *)
  AllocKinds,   (* bound: the kinds of the values the program makes        *)
  Handler,      (* what the library installs                               *)
  Op,           (* generic operators; "=" is the one that never raises     *)
  MaxBases,     (* bound: bases made                                       *)
  MaxDepth,     (* bound: bases entered and not left                       *)
  MaxValues,    (* bound: values made after the boot                       *)
  MaxWrites     (* bound: writes of the library to types                   *)

VARIABLES
  types,        (* types[t]: the type object t, [name, eval, call, ops,    *)
                (* from]                                                   *)
  alist,        (* alist[b]: the type-alist of base b, as a walk from its  *)
                (* head finds it: from a handle to the type last filed     *)
  within,       (* the bases entered, outermost first; the last is running *)
  values,       (* values[v]: [kind, word, home], home the base that ran   *)
  writes        (* how many writes the library has made                    *)

vars == <<types, alist, within, values, writes>>

-----------------------------------------------------------------------------
(* STAMPED_KINDS, four of them; every flag is the key of its own handle.   *)
StampedKinds == <<"INT", "SYM", "PAIR", "FN">>

(* Kinds nobody stamps: the false object, and the flags of an instance.    *)
OtherKinds == {"FALSE", "ZERO"}
BuiltinKind == ToSet(StampedKinds) \cup OtherKinds
Handle == BuiltinKind \cup Made
Base   == DOMAIN alist

(* The kind a value reports as: a wrap and a continuation are procedures.  *)
ReportedKind(kind) == IF kind \in {"WRAP", "CONT"} THEN "FN" ELSE kind

(* Type words.                                                             *)
Nil           == <<"nil", 0>>
SpairMarker   == <<"spair", 0>>
TypeWord(t)   == <<"type", t>>
HandleWord(h) == <<"handle", h>>

(* A family's stack is born as one cell, holding the handler or nil.       *)
NoHandler == "nil"
TypeNew(name, eval, call) ==
  [name |-> name, eval |-> <<eval>>, call |-> <<call>>, ops |-> {}, from |-> {}]

(* A builtin kind's type, with the handlers the engine installs.           *)
BuiltinTypeNew(kind) ==
  TypeNew(kind,
    CASE kind = "SYM" -> "symbol" [] kind = "PAIR" -> "list" [] OTHER -> NoHandler,
    CASE kind = "PAIR" -> "index" [] kind = "FN" -> "apply" [] OTHER -> NoHandler)

(* The type an alist has for a handle; 0 when it has none.                 *)
Filed(entries, h) == IF h \in DOMAIN entries THEN entries[h] ELSE 0

(* The registry is [types, alist].  Put type t at the head of b's alist.   *)
FileTypeIn(reg, b, t) ==
  [types |-> Append(reg.types, t),
   alist |-> [reg.alist EXCEPT ![b] = (t.name :> Len(reg.types) + 1) @@ @]]

(* builtin_type_in: found in the base's alist, or built and filed there.   *)
BuiltinTypeIn(reg, b, kind) ==
  IF Filed(reg.alist[b], ReportedKind(kind)) # 0
  THEN reg ELSE FileTypeIn(reg, b, BuiltinTypeNew(ReportedKind(kind)))

BuiltinTypesIn(reg, b, kinds) ==
  FoldLeft(LAMBDA r, kind : BuiltinTypeIn(r, b, kind), reg, kinds)

Registry == [types |-> types, alist |-> alist]

Becomes(reg) == types' = reg.types /\ alist' = reg.alist

Running == Last(within)

(* stamp_for, with the base running: the word a fresh object carries.      *)
StampFor(reg, kind) ==
  IF kind = "SPAIR" THEN SpairMarker
  ELSE TypeWord(Filed(reg.alist[Running], ReportedKind(kind)))

-----------------------------------------------------------------------------
(* What the engine made before there was a base, all of it nil-typed: #t,  *)
(* #f, a vocabulary symbol and the sigint flag.                            *)
True    == 1
EarlyKinds == <<"SYM", "FALSE", "SYM", "INT">>

Init ==
  /\ types = <<>> /\ alist = <<>> /\ within = <<>> /\ writes = 0
  /\ values = [v \in DOMAIN EarlyKinds |-> [kind |-> EarlyKinds[v], word |-> Nil, home |-> 1]]

BackfilledNot(reg) == values   \* mutant: the early objects stay nil-typed

(* The end of Engine::new: the first base, register_builtin_types -- a     *)
(* sample of some kinds, then all of them in reverse -- and the backfill   *)
(* of what is nil-typed, #t excepted.                                      *)
Backfilled(reg) ==
  [v \in DOMAIN values |->
     IF v = True THEN values[v]
     ELSE [values[v] EXCEPT !.word = TypeWord(Filed(reg.alist[1], values[v].kind))]]

Samples == <<"INT", "PAIR">>
RegisterBuiltinTypes ==
  /\ within = <<>>
  /\ LET none  == [types |-> <<>>, alist |-> <<[h \in {} |-> 0]>>]
         early == SetToSeq({values[v].kind : v \in DOMAIN values \ {True}})
         reg   == BuiltinTypesIn(none, 1, Samples \o Reverse(StampedKinds) \o early)
     IN  Becomes(reg) /\ values' = Backfilled(reg)
  /\ within' = <<1>>
  /\ UNCHANGED writes

(* (base make), in a base: a base with fresh builtin types, the first of   *)
(* the kinds filed last.                                                   *)
MakeBaseShared ==   \* mutant: the child starts from its maker's alist
  /\ within # <<>> /\ Len(alist) < MaxBases
  /\ alist' = Append(alist, alist[Running])
  /\ UNCHANGED <<types, within, values, writes>>
MakeBase ==
  /\ within # <<>> /\ Len(alist) < MaxBases
  /\ LET new == [Registry EXCEPT !.alist = Append(@, [h \in {} |-> 0])]
     IN  Becomes(BuiltinTypesIn(new, Len(alist) + 1, Reverse(StampedKinds)))
  /\ UNCHANGED <<within, values, writes>>

(* in_base, around an evaluation in another base.                          *)
EnterBase ==
  /\ within # <<>> /\ Len(within) <= MaxDepth
  /\ \E b \in Base \ {Running} : within' = Append(within, b)
  /\ UNCHANGED <<types, alist, values, writes>>

LeaveBase ==
  /\ Len(within) > 1
  /\ within' = Front(within)
  /\ UNCHANGED <<types, alist, values, writes>>

CanMakeValue == within # <<>> /\ Len(values) < Len(EarlyKinds) + MaxValues

(* Objects::alloc of a value: the type is looked up, or built and filed,   *)
(* in the running base; a cell of the engine's own spines gets the marker. *)
Alloc ==
  /\ CanMakeValue
  /\ \E kind \in AllocKinds :
       LET reg == IF kind = "SPAIR" THEN Registry ELSE BuiltinTypeIn(Registry, Running, kind)
       IN  /\ Becomes(reg)
           /\ values' = Append(values, [kind |-> kind, word |-> StampFor(reg, kind),
                                        home |-> Running])
  /\ UNCHANGED <<within, writes>>

(* resolve_type: a handle to the type the running base files for it, or to *)
(* itself when it files none.                                              *)
ResolveType(h) ==
  LET t == Filed(alist[Running], h) IN IF t # 0 THEN TypeWord(t) ELSE HandleWord(h)

Known   == {types[t].name : t \in DOMAIN types}
Nameable == Known \cap Used

(* (type make-instance h v), (obj make h n): the object is allocated as    *)
(* one of no kind, which files the type of no kind, and its word is then   *)
(* written over with what the handle resolves to.                          *)
MakeInstance ==
  /\ CanMakeValue
  /\ \E h \in Nameable :
       values' = Append(values, [kind |-> h, word |-> ResolveType(h), home |-> Running])
  /\ Becomes(BuiltinTypeIn(Registry, Running, "ZERO"))
  /\ UNCHANGED <<within, writes>>

(* (type make name handlers): a fresh handle, and its type filed in the    *)
(* running base with the handlers it was given.                            *)
TypeMake ==
  /\ within # <<>>
  /\ \E h \in Made \ Known, call \in Handler \cup {NoHandler}, ops \in SUBSET Op,
        from \in {{}} \cup {{k} : k \in Nameable} :
       LET t == [TypeNew(h, NoHandler, call) EXCEPT !.ops = ops, !.from = from]
       IN  Becomes(FileTypeIn(Registry, Running, t))
  /\ UNCHANGED <<within, values, writes>>

(* The library writes to the type a handle leads to in the running base,   *)
(* through the routes of a type: it installs a handler at a stack's head,  *)
(* pushes one, pops one, or sets the alists ops and from.                  *)
Write(Changed(_)) ==
  /\ within # <<>> /\ writes < MaxWrites
  /\ \E h \in Nameable :
       LET t == Filed(alist[Running], h)
       IN  /\ t # 0 /\ types' = [types EXCEPT ![t] = Changed(@)]
           /\ types' # types
  /\ writes' = writes + 1
  /\ UNCHANGED <<alist, within, values>>

TypeSetHandler ==
  \E f \in Handler :
    \/ Write(LAMBDA t : [t EXCEPT !.eval[1] = f])
    \/ Write(LAMBDA t : [t EXCEPT !.call[1] = f])
PushHandler ==
  \E f \in Handler :
    \/ Write(LAMBDA t : [t EXCEPT !.eval = <<f>> \o @])
    \/ Write(LAMBDA t : [t EXCEPT !.call = <<f>> \o @])
PopHandler ==
  \/ Write(LAMBDA t : IF Len(t.eval) > 1 THEN [t EXCEPT !.eval = Tail(@)] ELSE t)
  \/ Write(LAMBDA t : IF Len(t.call) > 1 THEN [t EXCEPT !.call = Tail(@)] ELSE t)
RegisterOps ==
  \/ \E ops \in SUBSET Op : Write(LAMBDA t : [t EXCEPT !.ops = ops])
  \/ \E h \in Nameable : Write(LAMBDA t : [t EXCEPT !.from = @ \cup {h}])

Next ==
  \/ RegisterBuiltinTypes \/ MakeBase \/ EnterBase \/ LeaveBase
  \/ Alloc \/ MakeInstance \/ TypeMake
  \/ TypeSetHandler \/ PushHandler \/ PopHandler \/ RegisterOps

Spec == Init /\ [][Next]_vars

-----------------------------------------------------------------------------
(* What the engine reads off a type.                                       *)

(* obj_type: the word, unless it is a marker; a spine cell is a pair of    *)
(* the running base, and a nil-typed value has no type.                    *)
ObjType(v) ==
  IF values[v].word = SpairMarker THEN TypeWord(Filed(alist[Running], "PAIR"))
  ELSE values[v].word

IsTyped(v) == ObjType(v)[1] = "type"
TypeOf(v)  == types[ObjType(v)[2]]

(* `type of', and what (type by-atom) makes of its answer.                 *)
HandleOf(v) == TypeOf(v).name

(* The machine of eval_pending: a value whose word is nil or a marker is   *)
(* itself, and so is one whose type has no eval handler.                   *)
EvalHook(v) ==
  IF values[v].word[1] = "type" THEN Head(TypeOf(v).eval) ELSE NoHandler

(* combine: a callable is a value whose type registers call.               *)
CallHook(v) == IF IsTyped(v) THEN Head(TypeOf(v).call) ELSE NoHandler

(* op_try: whose handler runs for (op a b); none is the raw integer path,  *)
(* "#f" and "raise" are for two types that do not convert.                 *)
Runs(v)    == [how |-> "handler", type |-> ObjType(v)[2]]
Outcome(w) == [how |-> w, type |-> 0]

HasOp(op, v) == IsTyped(v) /\ op \in TypeOf(v).ops
DeclaresFrom(v, w) == HandleOf(w) \in TypeOf(v).from

OpTryFirst(op, a, b) ==   \* mutant: the first operand's handler always wins
  IF HasOp(op, a) THEN Runs(a) ELSE IF HasOp(op, b) THEN Runs(b) ELSE Outcome("raw")
OpTry(op, a, b) ==
  CASE ~HasOp(op, a) /\ ~HasOp(op, b) -> Outcome("raw")
    [] HasOp(op, a) /\ ~HasOp(op, b)  -> Runs(a)
    [] ~HasOp(op, a) /\ HasOp(op, b)  -> Runs(b)
    [] OTHER -> IF ObjType(a) = ObjType(b) THEN Runs(a)
                ELSE IF DeclaresFrom(a, b) THEN Runs(a)
                ELSE IF DeclaresFrom(b, a) THEN Runs(b)
                ELSE Outcome(IF op = "=" THEN "#f" ELSE "raise")

-----------------------------------------------------------------------------
(* Properties.                                                             *)
Word == {Nil, SpairMarker} \cup {TypeWord(t) : t \in DOMAIN types}
                           \cup {HandleWord(h) : h \in Known}
TypeOK ==
  /\ \A t \in DOMAIN types :
       /\ types[t].name \in Handle
       /\ types[t].eval \in Seq(Handler \cup {"symbol", "list", NoHandler}) \ {<<>>}
       /\ types[t].call \in Seq(Handler \cup {"index", "apply", NoHandler}) \ {<<>>}
       /\ types[t].ops \subseteq Op /\ types[t].from \subseteq Handle
  /\ \A b \in Base : \A h \in DOMAIN alist[b] : h \in Handle /\ alist[b][h] \in DOMAIN types
  /\ within \in Seq(Base)
  /\ \A v \in DOMAIN values : values[v].word \in Word
  /\ writes \in 0 .. MaxWrites

(* The meaning of a value is kept under its base and its handle: no value  *)
(* made before the types existed is left without one, a type built on      *)
(* demand is built once, and a write changes one registration of the       *)
(* running base.                                                           *)
Registration == UNION {{b} \X DOMAIN alist[b] : b \in Base}
TypeAt(p)    == alist[p[1]][p[2]]
Meanings == INSTANCE Dispatch WITH
  Kinds    <- ToSet(StampedKinds),
  Demand   <- OtherKinds,
  Born     <- [kind \in BuiltinKind |-> BuiltinTypeNew(kind)],
  Keeps    <- [v \in 1 .. Len(EarlyKinds) |-> v # True],
  running  <- IF within = <<>> THEN 0 ELSE Running,
  meaning  <- [p \in Registration |-> types[TypeAt(p)]],
  bound    <- [v \in DOMAIN values |->
                 {p \in Registration : values[v].word = TypeWord(TypeAt(p))}]

ImplementsDispatch == Meanings!Spec

(* What the library writes while one base runs changes how no value made   *)
(* in another evaluates or applies: "a handler pushed on a child type is   *)
(* invisible outside it" (engine.rs).  A spine cell is of no base.         *)
WritesStayHome ==
  [][writes' # writes =>
       \A v \in DOMAIN values : values[v].home # Running /\ values[v].kind # "SPAIR"
         => EvalHook(v)' = EvalHook(v) /\ CallHook(v)' = CallHook(v)]_vars

(* Which handler an operator runs does not depend on the order of its      *)
(* operands, but where each type declares a conversion from the other.     *)
OwnerIsAgreed ==
  \A op \in Op, a, b \in {v \in DOMAIN values : IsTyped(v)} :
    ~(DeclaresFrom(a, b) /\ DeclaresFrom(b, a)) => OpTry(op, a, b) = OpTry(op, b, a)

(* typed.rs on instance: "The word must hold the TYPE: the library         *)
(* dereferences it and checks the type label before walking, and a handle  *)
(* there would fail that check."                                           *)
WordHoldsAType == \A v \in DOMAIN values : values[v].word[1] # "handle"

(* objects.rs on the atom label: "NOT what #t/#f carry (nil-typed, label   *)
(* 0)"; typed.rs on obj_type: the reference leaves both untyped.           *)
FalseIsUntyped == \A v \in DOMAIN values : values[v].kind = "FALSE" => values[v].word = Nil

(* eval.rs on op_try: "unrelated values are not equal".  Values of one     *)
(* handle are related.                                                     *)
SameHandleIsRelated ==
  \A op \in Op, a, b \in {v \in DOMAIN values : IsTyped(v)} :
    HandleOf(a) = HandleOf(b) => OpTry(op, a, b).how \in {"raw", "handler"}
=============================================================================
