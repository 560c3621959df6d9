------------------------------ MODULE Collector ------------------------------
(***************************************************************************)
(* The collector of collect.rs, with the running program around it.        *)
(*                                                                         *)
(* A collection is not one step.  Engine::collect runs the base's mark     *)
(* hooks, marks, runs the free hooks, sweeps, and purges the maps that are *)
(* keyed by heap address; the hooks are x-lang callables, so the program   *)
(* allocates, links and even collects again in the middle of it.           *)
(*                                                                         *)
(* One address stands for one chunk of the flat heap; which chunk fits a   *)
(* request, and the words inside it, are left out.  An object has one set  *)
(* of traced words.                                                        *)
(***************************************************************************)
EXTENDS Naturals, Reachability

CONSTANTS
  Addr,              (* chunk addresses; nil is not one                    *)
  Root,              (* the engine-held root slots: the root stack, base,  *)
                     (* control records -- one reference each              *)
  MaxOut,            (* reference slots traced per object                  *)
  MaxHooks,          (* bound: hooks registered on one list                *)
  MaxNest,           (* bound: collections in progress at once             *)
  MaxSide,           (* bound: references held by one side-table entry     *)
  MaxKeys,           (* bound: entries of the address-keyed maps together  *)
  FreeHooksEscape,   (* may a free hook leave behind what it allocated?    *)
  FreeHooksCollect   (* may a free hook call (heap collect)?               *)

ASSUME AddrAssumption  == IsFiniteSet(Addr)
ASSUME BoundAssumption ==
  /\ MaxOut \in Nat
  /\ MaxHooks \in Nat
  /\ MaxNest \in Nat
  /\ MaxSide \in Nat
  /\ MaxKeys \in Nat
ASSUME HookAssumption ==
  /\ FreeHooksEscape \in BOOLEAN
  /\ FreeHooksCollect \in BOOLEAN

VARIABLES
  chain,      (* Objects.heap_chain: every allocated object                *)
  free,       (* Objects.free: the swept chunks, all buckets together      *)
  live,       (* Objects.live                                              *)
  marked,     (* the objects whose MARK bit is set                         *)
  out,        (* out[a]: the references in a's traced words                *)
  roots,      (* roots[r]: what the slot holds, a set of at most one       *)
  sideKeys,   (* keys of Engine.cont_snapshots and Engine.base_syms        *)
  sideRefs,   (* sideRefs[k]: the objects k's entry holds                  *)
  indexKeys,  (* keys of Environments.index                                *)
  newborn,    (* history: allocated by a free hook since the last sweep    *)
  hooks,      (* hooks[kind]: length of the base's mark / free hook list   *)
  inGc,       (* Engine.in_gc                                              *)
  depth,      (* how many calls of Engine::collect are in progress         *)
  frame       (* frame[i]: where the i-th of them is                       *)

graph == <<out, roots, sideKeys, sideRefs, indexKeys>>
store == <<chain, free, live, marked, newborn>>
phase == <<inGc, depth, frame>>
vars  == <<chain, free, live, marked, out, roots, sideKeys, sideRefs,
           indexKeys, newborn, hooks, inGc, depth, frame>>

HookKind == {"mark", "free"}
Frame    == [at : HookKind, left : 0 .. MaxHooks]

TypeOK ==
  /\ chain \in SUBSET Addr
  /\ free \in SUBSET Addr
  /\ live \in Nat
  /\ marked \in SUBSET Addr
  /\ out \in [Addr -> SUBSET Addr]
  /\ roots \in [Root -> SUBSET Addr]
  /\ sideKeys \in SUBSET Addr
  /\ sideRefs \in [Addr -> SUBSET Addr]
  /\ indexKeys \in SUBSET Addr
  /\ newborn \in SUBSET Addr
  /\ hooks \in [HookKind -> 0 .. MaxHooks]
  /\ inGc \in BOOLEAN
  /\ depth \in 0 .. MaxNest
  /\ frame \in [1 .. MaxNest -> Frame]

-----------------------------------------------------------------------------
(* Engine::root_set with env_root_set, the control records and the         *)
(* snapshots: everything a collection starts from.                         *)
RootSet ==
  { a \in Addr : \/ \E r \in Root : a \in roots[r]
                 \/ \E k \in sideKeys : a \in sideRefs[k] }

(* What a collection starting now would keep.                              *)
Reach == Reachable(Addr, RootSet, out)

(* What the program itself can get at: its roots, an object's references,  *)
(* and what is filed under an object it has.  An entry whose key it has    *)
(* lost is still in RootSet until a sweep purges it, and not in here.      *)
Accessible ==
  Reachable(Addr, {a \in Addr : \E r \in Root : a \in roots[r]},
            [a \in Addr |-> out[a] \cup sideRefs[a]])

(* The innermost collection in progress, when there is one.                *)
Top == frame[depth]

(* The program runs between collections and while a hook does.             *)
ProgramRuns == depth > 0 => Top.left > 0

(* It is running because a free hook called it.                            *)
InFreeHook == depth > 0 /\ Top.at = "free"

Init ==
  /\ chain = {} /\ free = {} /\ live = 0 /\ marked = {}
  /\ out = [a \in Addr |-> {}]
  /\ roots = [r \in Root |-> {}]
  /\ sideKeys = {} /\ sideRefs = [a \in Addr |-> {}]
  /\ indexKeys = {} /\ newborn = {}
  /\ hooks = [k \in HookKind |-> 0]
  /\ inGc = FALSE
  /\ depth = 0
  /\ frame = [i \in 1 .. MaxNest |-> [at |-> "mark", left |-> 0]]

-----------------------------------------------------------------------------
(* The program.                                                            *)

(* Mutant: a chunk handed out again keeps its slots.                       *)
AllocDirty ==
  /\ ProgramRuns
  /\ \E a \in Addr \ chain, r \in Root :
       /\ chain' = chain \cup {a}
       /\ free' = free \ {a}
       /\ roots' = [roots EXCEPT ![r] = {a}]
  /\ live' = live + 1
  /\ UNCHANGED <<marked, newborn, out, sideKeys, sideRefs, indexKeys, hooks, phase>>

(* Objects::alloc: a free chunk first, the frontier only when none fits;   *)
(* which fits is left out, so either may happen.  The object joins the     *)
(* chain with nil slots, and its maker roots it.                           *)
Alloc ==
  /\ ProgramRuns
  /\ \E a \in Addr \ chain, r \in Root :
       /\ chain' = chain \cup {a}
       /\ free' = free \ {a}
       /\ marked' = marked \ {a}
       /\ newborn' = IF InFreeHook THEN newborn \cup {a} ELSE newborn
       /\ out' = [out EXCEPT ![a] = {}]
       /\ roots' = [roots EXCEPT ![r] = {a}]
  /\ live' = live + 1
  /\ UNCHANGED <<sideKeys, sideRefs, indexKeys, hooks, phase>>

(* set_first / set_rest / set_data: rewrite the traced words of an object. *)
Link ==
  /\ ProgramRuns
  /\ \E a \in Accessible, refs \in SUBSET Accessible :
       /\ Cardinality(refs) <= MaxOut
       /\ out' = [out EXCEPT ![a] = refs]
  /\ UNCHANGED <<store, roots, sideKeys, sideRefs, indexKeys, hooks, phase>>

(* root_push of something reachable, or root_truncate.                     *)
Hold ==
  /\ ProgramRuns
  /\ \E r \in Root, refs \in {{}} \cup {{v} : v \in Accessible} :
       roots' = [roots EXCEPT ![r] = refs]
  /\ UNCHANGED <<store, out, sideKeys, sideRefs, indexKeys, hooks, phase>>

(* A call/cc snapshot for continuation k, or an intern into base k's       *)
(* symbol table: an engine-side entry keyed by an object, holding others.  *)
EnterSide ==
  /\ ProgramRuns
  /\ \E k, v \in Accessible :
       /\ Cardinality(sideRefs[k] \cup {v}) <= MaxSide
       /\ Cardinality(sideKeys \cup {k}) + Cardinality(indexKeys) <= MaxKeys
       /\ sideKeys' = sideKeys \cup {k}
       /\ sideRefs' = [sideRefs EXCEPT ![k] = @ \cup {v}]
  /\ UNCHANGED <<store, out, roots, indexKeys, hooks, phase>>

(* Environments::bind indexing a frame that has grown past the threshold.  *)
EnterIndex ==
  /\ ProgramRuns
  /\ \E h \in Accessible :
       /\ Cardinality(sideKeys) + Cardinality(indexKeys \cup {h}) <= MaxKeys
       /\ indexKeys' = indexKeys \cup {h}
  /\ UNCHANGED <<store, out, roots, sideKeys, sideRefs, hooks, phase>>

(* (heap mark-hook! f), (heap free-hook! f).                               *)
RegisterHook(kind) ==
  /\ ProgramRuns
  /\ hooks[kind] < MaxHooks
  /\ hooks' = [hooks EXCEPT ![kind] = @ + 1]
  /\ UNCHANGED <<store, graph, phase>>

-----------------------------------------------------------------------------
(* The collection.                                                         *)

(* Engine::collect up to its first hook: only a collection that finds      *)
(* in_gc clear runs the mark hooks.                                        *)
CollectCall ==
  /\ ProgramRuns
  /\ InFreeHook => FreeHooksCollect
  /\ depth < MaxNest
  /\ depth' = depth + 1
  /\ frame' = [frame EXCEPT ![depth + 1] =
                 [at |-> "mark", left |-> IF inGc THEN 0 ELSE hooks["mark"]]]
  /\ inGc' = TRUE
  /\ UNCHANGED <<store, graph, hooks>>

(* One turn of the loop in run_gc_hooks: the hook under way returns (or    *)
(* raises: the result is discarded either way).                            *)
HookReturns ==
  /\ depth > 0
  /\ Top.left > 0
  /\ Top.at = "free" /\ ~FreeHooksEscape => Reach \cap newborn = {}
  /\ frame' = [frame EXCEPT ![depth].left = @ - 1]
  /\ UNCHANGED <<store, graph, hooks, inGc, depth>>

(* Mutant: what the roots name is marked, its references never pushed.     *)
MarkRootsOnly ==
  /\ depth > 0
  /\ Top.at = "mark" /\ Top.left = 0
  /\ marked' = marked \cup RootSet
  /\ frame' = [frame EXCEPT ![depth] = [at |-> "free", left |-> hooks["free"]]]
  /\ UNCHANGED <<chain, free, live, newborn, graph, hooks, inGc, depth>>

(* Objects::mark over the root set.  A marked object is skipped, with      *)
(* whatever is behind it; then run_gc_hooks(FREE_HOOKS) begins.            *)
MarkPhase ==
  /\ depth > 0
  /\ Top.at = "mark" /\ Top.left = 0
  /\ marked' = marked \cup WalkFrom(Addr, RootSet, out, marked)
  /\ frame' = [frame EXCEPT ![depth] = [at |-> "free", left |-> hooks["free"]]]
  /\ UNCHANGED <<chain, free, live, newborn, graph, hooks, inGc, depth>>

(* What the sweep frees: every object of the chain the mark missed.        *)
DeadOrFree == (chain \ marked) \cup free    \* mutant: counts freed chunks too
Dead == chain \ marked

(* Objects::is_freed, once the sweep is done.                              *)
FreedBefore == free                         \* mutant: the purge runs first
Gone == free \cup Dead

(* Mutant: the sweep leaves the survivors' MARK bits set.                  *)
SweepKeepsMarks ==
  /\ depth > 0
  /\ Top.at = "free" /\ Top.left = 0
  /\ chain' = chain \ Dead
  /\ free' = free \cup Dead
  /\ newborn' = newborn \ Dead
  /\ live' = live - Cardinality(Dead)
  /\ inGc' = FALSE
  /\ depth' = depth - 1
  /\ UNCHANGED <<marked, graph, hooks, frame>>

(* Objects::sweep, then the purge of every map keyed by address, then      *)
(* in_gc is cleared -- whichever collection set it.                        *)
SweepPhase ==
  /\ depth > 0
  /\ Top.at = "free" /\ Top.left = 0
  /\ chain' = chain \ Dead
  /\ free' = free \cup Dead
  /\ newborn' = newborn \ Dead
  /\ live' = live - Cardinality(Dead)
  /\ marked' = {}
  /\ sideKeys' = sideKeys \ Gone
  /\ sideRefs' = [a \in Addr |-> IF a \in Gone THEN {} ELSE sideRefs[a]]
  /\ indexKeys' = indexKeys \ Gone
  /\ inGc' = FALSE
  /\ depth' = depth - 1
  /\ UNCHANGED <<out, roots, hooks, frame>>

Program ==
  \/ Alloc \/ Link \/ Hold
  \/ EnterSide \/ EnterIndex
  \/ \E kind \in HookKind : RegisterHook(kind)

Collection == CollectCall \/ HookReturns \/ MarkPhase \/ SweepPhase

Next == Program \/ Collection

Spec == Init /\ [][Next]_vars

-----------------------------------------------------------------------------
(* Properties.                                                             *)

(* What the program sees of the objects it can get at.                     *)
View == [a \in Accessible |->
           [refs |-> out[a], side |-> sideRefs[a], indexed |-> a \in indexKeys]]

Ideal == INSTANCE IdealHeap WITH held <- roots, heap <- View

(* The collector implements the heap that never frees: no collection step  *)
(* is visible to the program, and an allocation gives it an address it has *)
(* no other use for, with nothing left over from the last owner.           *)
ImplementsIdealHeap == Ideal!Spec

(* Nothing the program can still reach is ever on a free list: the         *)
(* FREECHECK assertion at the end of Engine::collect, at every step.       *)
NothingReachableIsFree == Reach \subseteq chain

(* The bookkeeping agrees with itself at every step of a collection, and   *)
(* of a collection inside a collection: a chunk is allocated or free and   *)
(* not both, Objects.live counts the chain, and no mark bit survives a     *)
(* sweep into the next program step outside the free hooks.                *)
Accounting ==
  /\ chain \cap free = {}
  /\ live = Cardinality(chain)
  /\ marked \subseteq chain
  /\ ~InFreeHook => marked = {}

(* A chunk handed out again inherits nothing from its last owner: no       *)
(* frame-index entry, no symbol table and no continuation snapshot keyed   *)
(* by its address is waiting for it.                                       *)
NoInheritedEntry ==
  [][\A a \in chain' \ chain : a \notin sideKeys' \cup indexKeys']_vars

(* A collection that ran no free hook leaves exactly the reachable         *)
(* objects: it frees no object in use and leaks no garbage, whatever the   *)
(* mark hooks -- and collections they started -- did before the marking.   *)
ExactCollection ==
  [][depth' < depth /\ hooks["free"] = 0 => chain' = Reach]_vars

(* Nothing is kept for a key the program has lost: "when the sweep frees   *)
(* the cont, its snapshot goes too" (collect.rs).                          *)
LostKeysArePurged ==
  [][depth' < depth => sideKeys' \subseteq Accessible]_vars

(* engine.rs on in_gc: "a hook's own evaluation must not recurse on        *)
(* hooks".  At most one collection in progress is running hooks.           *)
HooksDoNotRecurse ==
  \A i, j \in 1 .. depth : frame[i].left > 0 /\ frame[j].left > 0 => i = j
=============================================================================
