--------------------------- MODULE CollectorProofs ---------------------------
(***************************************************************************)
(* For every heap, every number of roots, hooks and nested collections:    *)
(* as long as free hooks keep what they allocate to themselves and do not  *)
(* collect, nothing reachable is ever on a free list.                      *)
(***************************************************************************)
EXTENDS Collector, Lemmas, FiniteSetTheorems

(* The discipline the collector needs from free hooks.                     *)
Disciplined == ~FreeHooksEscape /\ ~FreeHooksCollect

(* The inductive invariant.  While a free hook may run, what is reachable  *)
(* was marked or was allocated by the hook; once no hook is left to run,   *)
(* it was marked, which is what the sweep relies on.  A collection inside  *)
(* another was called from one of its mark hooks.                          *)
FreeHookOnTopOnly == \A i \in 1 .. depth : i < depth => frame[i].at = "mark"

ReachableIsMarked ==
  InFreeHook => /\ Reach \subseteq marked \cup newborn
                /\ Top.left = 0 => Reach \subseteq marked

FiledUnderKeys == \A a \in Addr : a \notin sideKeys => sideRefs[a] = {}

IInv ==
  /\ TypeOK
  /\ Accounting
  /\ NothingReachableIsFree
  /\ ReachableIsMarked
  /\ FreeHookOnTopOnly
  /\ FiledUnderKeys

-----------------------------------------------------------------------------
(* Bounding what is reachable.                                             *)

(* The roots are objects.                                                  *)
LEMMA RootSetInAddr == RootSet \in SUBSET Addr
BY DEF RootSet

(* What is reachable holds the roots and what it refers to.                *)
LEMMA ReachFacts ==
  ASSUME TypeOK
  PROVE  /\ Reach \in SUBSET Addr
         /\ RootSet \subseteq Reach
         /\ ClosedUpTo(Reach, out, {})
BY RootSetInAddr, WalkInHeap, WalkMeetsRoots, WalkIsClosed DEF TypeOK, Reach, Reachable

(* What the program can get at, a collection would keep.                   *)
LEMMA AccessibleInReach ==
  ASSUME TypeOK, FiledUnderKeys
  PROVE  Accessible \subseteq Reach
<1> DEFINE R == {a \in Addr : \E r \in Root : a \in roots[r]}
           g == [a \in Addr |-> out[a] \cup sideRefs[a]]
<1>1. Reach \in SUBSET Addr /\ RootSet \subseteq Reach /\ ClosedUpTo(Reach, out, {})
  BY ReachFacts
<1>2. R \subseteq Reach
  BY <1>1 DEF RootSet
<1>3. \A a \in Addr : sideRefs[a] \subseteq Reach
  BY <1>1 DEF RootSet, FiledUnderKeys, TypeOK
<1>4. ClosedUpTo(Reach, g, {})
  BY <1>1, <1>3 DEF ClosedUpTo
<1>. HIDE DEF R, g
<1>5. WalkFrom(Addr, R, g, {}) \subseteq Reach
  BY <1>1, <1>2, <1>4, WalkInClosedSet
<1>. QED
  BY <1>5 DEF Accessible, Reachable, R, g

(* A step makes reachable nothing but what a closed set allows.            *)
LEMMA ReachNextBound ==
  ASSUME NEW C \in SUBSET Addr,
         RootSet' \subseteq C,
         ClosedUpTo(C, out', {})
  PROVE  Reach' \subseteq C
BY WalkInClosedSet DEF Reach, Reachable

-----------------------------------------------------------------------------
(* Types.                                                                  *)

(* A collection that has not begun has no hook to run.                     *)
LEMMA IdleFrame == [at |-> "mark", left |-> 0] \in Frame
BY BoundAssumption DEF BoundAssumption, HookKind, Frame

(* Type correctness: the initial states.                                   *)
LEMMA TypeInit == Init => TypeOK
<1>1. 0 \in 0 .. MaxHooks /\ 0 \in 0 .. MaxNest
  BY BoundAssumption DEF BoundAssumption
<1>2. ASSUME Init PROVE frame \in [1 .. MaxNest -> Frame]
  BY <1>2, IdleFrame DEF Init
<1>3. ASSUME Init PROVE hooks \in [HookKind -> 0 .. MaxHooks]
  BY <1>3, <1>1 DEF Init
<1>4. ASSUME Init PROVE out \in [Addr -> SUBSET Addr] /\ sideRefs \in [Addr -> SUBSET Addr]
  BY <1>4 DEF Init
<1>5. ASSUME Init PROVE roots \in [Root -> SUBSET Addr]
  BY <1>5 DEF Init
<1>6. ASSUME Init PROVE inGc \in BOOLEAN /\ live \in Nat /\ depth \in 0 .. MaxNest
  BY <1>6, <1>1 DEF Init
<1>. QED
  BY <1>2, <1>3, <1>4, <1>5, <1>6 DEF Init, TypeOK

(* Type correctness: the program's operations.                             *)
LEMMA ProgramTypes == TypeOK /\ Program => TypeOK'
<1>. SUFFICES ASSUME TypeOK, Program PROVE TypeOK'
  OBVIOUS
<1>. USE DEF TypeOK, store, graph, phase
<1>0. Accessible \in SUBSET Addr
  BY WalkInHeap DEF Accessible, Reachable
<1>1. CASE Alloc
  BY <1>1 DEF Alloc
<1>2. CASE Link
  BY <1>0, <1>2 DEF Link
<1>3. CASE Hold
  BY <1>0, <1>3 DEF Hold
<1>4. CASE EnterSide
  BY <1>0, <1>4 DEF EnterSide
<1>5. CASE EnterIndex
  BY <1>0, <1>5 DEF EnterIndex
<1>7. ASSUME NEW kind \in HookKind, RegisterHook(kind) PROVE TypeOK'
  <2>1. hooks' \in [HookKind -> 0 .. MaxHooks]
    BY <1>7, BoundAssumption DEF RegisterHook
  <2>. QED
    BY <1>7, <2>1 DEF RegisterHook
<1>. QED
  BY <1>1, <1>2, <1>3, <1>4, <1>5, <1>7 DEF Program

(* The innermost collection in progress.                                   *)
LEMMA TopIsFrame ==
  ASSUME TypeOK, depth > 0
  PROVE  /\ depth \in 1 .. MaxNest
         /\ Top \in Frame
         /\ Top.at \in HookKind
         /\ Top.left \in 0 .. MaxHooks
<1>1. depth \in 1 .. MaxNest
  BY BoundAssumption DEF BoundAssumption, TypeOK
<1>2. Top \in Frame
  BY <1>1 DEF TypeOK, Top
<1>. QED
  BY <1>1, <1>2 DEF Frame

(* Type correctness: a collection begins.                                  *)
LEMMA CollectCallTypes == TypeOK /\ CollectCall => TypeOK'
<1>. SUFFICES ASSUME TypeOK, CollectCall PROVE TypeOK'
  OBVIOUS
<1>1. depth + 1 \in 1 .. MaxNest
  BY BoundAssumption DEF BoundAssumption, TypeOK, CollectCall
<1>2. (IF inGc THEN 0 ELSE hooks["mark"]) \in 0 .. MaxHooks
  BY BoundAssumption DEF BoundAssumption, TypeOK, HookKind
<1>3. frame' \in [1 .. MaxNest -> Frame]
  BY <1>2 DEF CollectCall, TypeOK, Frame, HookKind
<1>4. depth' \in 0 .. MaxNest
  BY <1>1 DEF CollectCall
<1>. QED
  BY <1>3, <1>4 DEF CollectCall, TypeOK, store, graph

(* Type correctness: one of its hooks has run.                             *)
LEMMA HookReturnsTypes == TypeOK /\ HookReturns => TypeOK'
<1>. SUFFICES ASSUME TypeOK, HookReturns PROVE TypeOK'
  OBVIOUS
<1>1. depth > 0 /\ Top.left > 0 /\ frame' = [frame EXCEPT ![depth].left = @ - 1]
  BY DEF HookReturns
<1>2. frame[depth] \in Frame /\ frame[depth].left - 1 \in 0 .. MaxHooks
  BY <1>1, TopIsFrame, BoundAssumption DEF BoundAssumption, Top
<1>3. frame' \in [1 .. MaxNest -> Frame]
  BY <1>1, <1>2 DEF TypeOK, Frame
<1>. QED
  BY <1>3 DEF HookReturns, TypeOK, store, graph

(* Type correctness: marking.                                              *)
LEMMA MarkPhaseTypes == TypeOK /\ MarkPhase => TypeOK'
<1>. SUFFICES ASSUME TypeOK, MarkPhase PROVE TypeOK'
  OBVIOUS
<1>1. marked' \in SUBSET Addr
  BY WalkInHeap DEF MarkPhase, TypeOK
<1>2. [at |-> "free", left |-> hooks["free"]] \in Frame
  BY DEF TypeOK, Frame, HookKind
<1>3. frame' \in [1 .. MaxNest -> Frame]
  BY <1>2 DEF MarkPhase, TypeOK
<1>. QED
  BY <1>1, <1>3 DEF MarkPhase, TypeOK, graph

(* The sweep subtracts no more than it counted.                            *)
LEMMA SweepCount ==
  ASSUME TypeOK, Accounting
  PROVE  /\ live - Cardinality(chain \ marked) \in Nat
         /\ live - Cardinality(chain \ marked) = Cardinality(chain \cap marked)
<1>1. IsFiniteSet(chain)
  BY AddrAssumption, FS_Subset DEF AddrAssumption, TypeOK
<1>2. Cardinality(chain \ marked) = Cardinality(chain) - Cardinality(chain \cap marked)
  BY <1>1, FS_Difference
<1>3. Cardinality(chain) \in Nat /\ Cardinality(chain \cap marked) \in Nat
  BY <1>1, FS_CardinalityType, FS_Intersection
<1>. QED
  BY <1>2, <1>3 DEF Accounting

(* Type correctness: the sweep, whose count cannot go below 0.             *)
LEMMA SweepPhaseTypes == TypeOK /\ Accounting /\ SweepPhase => TypeOK'
<1>. SUFFICES ASSUME TypeOK, Accounting, SweepPhase PROVE TypeOK'
  OBVIOUS
<1>1. live' \in Nat
  BY SweepCount DEF SweepPhase, Dead, Gone
<1>2. depth' \in 0 .. MaxNest
  BY BoundAssumption DEF BoundAssumption, SweepPhase, Dead, Gone, TypeOK
<1>3. sideRefs' \in [Addr -> SUBSET Addr]
  BY DEF SweepPhase, Dead, Gone, TypeOK
<1>. QED
  BY <1>1, <1>2, <1>3 DEF SweepPhase, Dead, Gone, TypeOK

-----------------------------------------------------------------------------
(* What a step of the program can do to the heap.                          *)

(* An allocation makes reachable only the object it makes.                 *)
LEMMA AllocReach ==
  ASSUME TypeOK, Accounting, NothingReachableIsFree, Alloc
  PROVE  Reach' \subseteq Reach \cup (chain' \ chain)
<1>1. PICK a \in Addr \ chain, r \in Root :
        /\ chain' = chain \cup {a}
        /\ out' = [out EXCEPT ![a] = {}]
        /\ roots' = [roots EXCEPT ![r] = {a}]
  BY DEF Alloc
<1>2. sideKeys' = sideKeys /\ sideRefs' = sideRefs
  BY DEF Alloc
<1>3. RootSet' \subseteq Reach \cup {a}
  BY <1>1, <1>2, ReachFacts DEF RootSet, TypeOK
<1>4. ClosedUpTo(Reach \cup {a}, out', {})
  BY <1>1, ReachFacts DEF ClosedUpTo, TypeOK
<1>5. Reach \cup {a} \in SUBSET Addr
  BY ReachFacts
<1>. QED
  BY <1>1, <1>3, <1>4, <1>5, ReachNextBound

(* Storing references makes nothing else reachable: they were.             *)
LEMMA LinkReach ==
  ASSUME TypeOK, FiledUnderKeys, Link
  PROVE  Reach' \subseteq Reach
<1>1. PICK a \in Accessible, refs \in SUBSET Accessible :
        out' = [out EXCEPT ![a] = refs]
  BY DEF Link
<1>2. roots' = roots /\ sideKeys' = sideKeys /\ sideRefs' = sideRefs
  BY DEF Link
<1>3. RootSet' \subseteq Reach
  BY <1>2, ReachFacts DEF RootSet
<1>4. refs \subseteq Reach
  BY AccessibleInReach
<1>5. ClosedUpTo(Reach, out', {})
  BY <1>1, <1>4, ReachFacts DEF ClosedUpTo, TypeOK
<1>. QED
  BY <1>3, <1>5, ReachFacts, ReachNextBound

(* So does changing what the program holds,                                *)
LEMMA HoldReach ==
  ASSUME TypeOK, FiledUnderKeys, Hold
  PROVE  Reach' \subseteq Reach
<1>1. PICK r \in Root, refs \in {{}} \cup {{v} : v \in Accessible} :
        roots' = [roots EXCEPT ![r] = refs]
  BY DEF Hold
<1>2. out' = out /\ sideKeys' = sideKeys /\ sideRefs' = sideRefs
  BY DEF Hold
<1>3. refs \subseteq Reach
  BY AccessibleInReach
<1>4. RootSet' \subseteq Reach
  BY <1>1, <1>2, <1>3, ReachFacts DEF RootSet, TypeOK
<1>. QED
  BY <1>2, <1>4, ReachFacts, ReachNextBound

(* and filing a value in a side table.                                     *)
LEMMA EnterSideReach ==
  ASSUME TypeOK, FiledUnderKeys, EnterSide
  PROVE  Reach' \subseteq Reach
<1>1. PICK k \in Accessible, v \in Accessible :
        /\ sideKeys' = sideKeys \cup {k}
        /\ sideRefs' = [sideRefs EXCEPT ![k] = @ \cup {v}]
  BY DEF EnterSide
<1>2. out' = out /\ roots' = roots
  BY DEF EnterSide
<1>3. v \in Reach /\ k \in Addr
  BY AccessibleInReach, ReachFacts
<1>4. \A b \in Addr : sideRefs[b] \subseteq Reach
  BY ReachFacts DEF RootSet, FiledUnderKeys, TypeOK
<1>5. RootSet' \subseteq Reach
  BY <1>1, <1>2, <1>3, <1>4, ReachFacts DEF RootSet, TypeOK
<1>. QED
  BY <1>2, <1>5, ReachFacts, ReachNextBound

(* A step that changes no reference changes nothing reachable.             *)
LEMMA QuietReach ==
  ASSUME TypeOK, UNCHANGED <<out, roots, sideKeys, sideRefs>>
  PROVE  Reach' = Reach
BY DEF Reach, Reachable, RootSet

(* The program makes reachable only what it allocates.                     *)
LEMMA ProgramReach ==
  ASSUME TypeOK, Accounting, NothingReachableIsFree, FiledUnderKeys, Program
  PROVE  Reach' \subseteq Reach \cup (chain' \ chain)
<1>1. CASE Alloc
  BY <1>1, AllocReach
<1>2. CASE Link
  BY <1>2, LinkReach
<1>3. CASE Hold
  BY <1>3, HoldReach
<1>4. CASE EnterSide
  BY <1>4, EnterSideReach
<1>5. CASE EnterIndex
  BY <1>5, QuietReach DEF EnterIndex
<1>7. ASSUME NEW kind \in HookKind, RegisterHook(kind)
      PROVE  Reach' = Reach
  BY <1>7, QuietReach DEF RegisterHook, graph
<1>. QED
  BY <1>1, <1>2, <1>3, <1>4, <1>5, <1>7 DEF Program

(* The program does not touch a collection in progress, and what it        *)
(* allocates under a free hook is noted as such.                           *)
LEMMA ProgramStore ==
  ASSUME TypeOK, Accounting, Program
  PROVE  /\ ProgramRuns
         /\ UNCHANGED <<inGc, depth, frame, marked>>
         /\ chain \subseteq chain'
         /\ newborn \subseteq newborn'
         /\ InFreeHook => chain' \ chain \subseteq newborn'
<1>1. CASE Alloc
  BY <1>1 DEF Alloc, Accounting, phase
<1>2. CASE Link
  BY <1>2 DEF Link, phase, store
<1>3. CASE Hold
  BY <1>3 DEF Hold, phase, store
<1>4. CASE EnterSide
  BY <1>4 DEF EnterSide, phase, store
<1>5. CASE EnterIndex
  BY <1>5 DEF EnterIndex, phase, store
<1>7. ASSUME NEW kind \in HookKind, RegisterHook(kind)
      PROVE  ProgramRuns /\ UNCHANGED <<store, phase>>
  BY <1>7 DEF RegisterHook, phase, store
<1>. QED
  BY <1>1, <1>2, <1>3, <1>4, <1>5, <1>7 DEF Program, phase, store

-----------------------------------------------------------------------------
(* The invariant is inductive.                                             *)

(* The invariant: the initial states.                                      *)
LEMMA InvInit == Init => IInv
<1>. SUFFICES ASSUME Init PROVE IInv
  OBVIOUS
<1>1. TypeOK
  BY TypeInit
<1>2. ~InFreeHook
  BY DEF InFreeHook, Init
<1>3. Accounting
  BY <1>2, FS_EmptySet DEF Accounting, Init
<1>4. Reach \subseteq {}
  <2>1. RootSet = {}
    BY DEF RootSet, Init
  <2>2. ClosedUpTo({}, out, {})
    BY DEF ClosedUpTo
  <2>. QED
    BY <2>1, <2>2, WalkInClosedSet DEF Reach, Reachable
<1>5. FreeHookOnTopOnly /\ FiledUnderKeys
  BY DEF FreeHookOnTopOnly, FiledUnderKeys, Init
<1>. QED
  BY <1>1, <1>2, <1>3, <1>4, <1>5 DEF IInv, NothingReachableIsFree, ReachableIsMarked

(* The program's operations keep the count of live objects.                *)
LEMMA ProgramAccounting ==
  ASSUME TypeOK, Accounting, Program
  PROVE  Accounting'
<1>1. CASE Alloc
  <2>1. PICK a \in Addr \ chain :
          /\ chain' = chain \cup {a}
          /\ free' = free \ {a}
          /\ marked' = marked \ {a}
          /\ live' = live + 1
    BY <1>1 DEF Alloc
  <2>2. IsFiniteSet(chain)
    BY AddrAssumption, FS_Subset DEF AddrAssumption, TypeOK
  <2>3. Cardinality(chain') = Cardinality(chain) + 1
    BY <2>1, <2>2, FS_AddElement
  <2>4. depth' = depth /\ frame' = frame
    BY <1>1 DEF Alloc, phase
  <2>. QED
    BY <2>1, <2>3, <2>4 DEF Accounting, InFreeHook, Top
<1>2. CASE UNCHANGED <<store, phase>>
  BY <1>2 DEF store, phase, Accounting, InFreeHook, Top
<1>3. CASE ~Alloc
  <2>1. CASE \E kind \in HookKind : RegisterHook(kind)
    BY <2>1, <1>2 DEF RegisterHook
  <2>2. CASE Link \/ Hold
    BY <2>2, <1>2 DEF Link, Hold
  <2>3. CASE EnterSide \/ EnterIndex
    BY <2>3, <1>2 DEF EnterSide, EnterIndex
  <2>. QED
    BY <1>3, <2>1, <2>2, <2>3 DEF Program
<1>. QED
  BY <1>1, <1>3

(* They file values only under keys that are in the table.                 *)
LEMMA ProgramFiled ==
  ASSUME TypeOK, FiledUnderKeys, Program
  PROVE  FiledUnderKeys'
<1>1. CASE EnterSide
  BY <1>1 DEF EnterSide, FiledUnderKeys, TypeOK
<1>2. CASE Alloc \/ Link \/ Hold
  BY <1>2 DEF Alloc, Link, Hold, FiledUnderKeys
<1>3. CASE EnterIndex
  BY <1>3 DEF EnterIndex, FiledUnderKeys
<1>4. ASSUME NEW kind \in HookKind, RegisterHook(kind)
      PROVE  FiledUnderKeys'
  BY <1>4 DEF RegisterHook, graph, FiledUnderKeys
<1>. QED
  BY <1>1, <1>2, <1>3, <1>4 DEF Program

(* The invariant: the program's operations.                                *)
LEMMA ProgramInv == IInv /\ Program => IInv'
<1>. SUFFICES ASSUME IInv, Program PROVE IInv'
  OBVIOUS
<1>. USE DEF IInv
<1>1. TypeOK'
  BY ProgramTypes
<1>2. Accounting'
  BY ProgramAccounting
<1>3. Reach' \subseteq Reach \cup (chain' \ chain)
  BY ProgramReach
<1>4. /\ ProgramRuns
      /\ UNCHANGED <<inGc, depth, frame, marked>>
      /\ chain \subseteq chain'
      /\ newborn \subseteq newborn'
      /\ InFreeHook => chain' \ chain \subseteq newborn'
  BY ProgramStore
<1>5. NothingReachableIsFree'
  BY <1>3, <1>4 DEF NothingReachableIsFree
<1>6. ReachableIsMarked'
  <2>1. InFreeHook' = InFreeHook /\ Top' = Top
    BY <1>4 DEF InFreeHook, Top
  <2>2. SUFFICES ASSUME InFreeHook
                 PROVE  /\ Reach' \subseteq marked' \cup newborn'
                        /\ Top.left # 0
    BY <2>1 DEF ReachableIsMarked
  <2>3. Top.left > 0
    BY <1>4, <2>2 DEF ProgramRuns, InFreeHook
  <2>4. Reach \subseteq marked \cup newborn
    BY <2>2 DEF ReachableIsMarked
  <2>5. depth > 0
    BY <2>2 DEF InFreeHook
  <2>6. Top.left # 0
    BY <2>3, <2>5, TopIsFrame
  <2>. QED
    BY <1>3, <1>4, <2>2, <2>4, <2>6
<1>7. FreeHookOnTopOnly'
  BY <1>4 DEF FreeHookOnTopOnly
<1>8. FiledUnderKeys'
  BY ProgramFiled
<1>. QED
  BY <1>1, <1>2, <1>5, <1>6, <1>7, <1>8

(* The invariant: a collection begins, also from a mark hook.              *)
LEMMA CollectCallInv == Disciplined /\ IInv /\ CollectCall => IInv'
<1>. SUFFICES ASSUME Disciplined, IInv, CollectCall PROVE IInv'
  OBVIOUS
<1>. USE DEF IInv
<1>1. ~InFreeHook
  BY DEF CollectCall, Disciplined
<1>2. /\ depth' = depth + 1
      /\ depth + 1 \in 1 .. MaxNest
      /\ \A i \in 1 .. depth : frame'[i] = frame[i]
      /\ frame'[depth + 1].at = "mark"
  BY BoundAssumption DEF BoundAssumption, CollectCall, TypeOK
<1>3. UNCHANGED <<chain, free, live, marked, newborn, out, roots, sideKeys, sideRefs>>
  BY DEF CollectCall, store, graph
<1>4. ~InFreeHook'
  BY <1>2 DEF InFreeHook, Top
<1>5. Accounting'
  BY <1>1, <1>3, <1>4 DEF Accounting
<1>6. NothingReachableIsFree'
  BY <1>3, QuietReach DEF NothingReachableIsFree
<1>7. FreeHookOnTopOnly'
  <2>1. depth \in Nat
    BY DEF TypeOK
  <2>2. ASSUME NEW i \in 1 .. depth PROVE frame[i].at = "mark"
    <3>1. CASE i = depth
      BY <1>1, <2>1, <2>2, <3>1, TopIsFrame DEF InFreeHook, HookKind, Top
    <3>. QED
      BY <2>1, <2>2, <3>1 DEF FreeHookOnTopOnly
  <2>. QED
    BY <1>2, <2>1, <2>2 DEF FreeHookOnTopOnly
<1>8. FiledUnderKeys'
  BY <1>3 DEF FiledUnderKeys
<1>. QED
  BY <1>4, <1>5, <1>6, <1>7, <1>8, CollectCallTypes DEF ReachableIsMarked

(* The invariant: a hook has run.                                          *)
LEMMA HookReturnsInv == Disciplined /\ IInv /\ HookReturns => IInv'
<1>. SUFFICES ASSUME Disciplined, IInv, HookReturns PROVE IInv'
  OBVIOUS
<1>. USE DEF IInv
<1>1. /\ depth \in 1 .. MaxNest
      /\ frame \in [1 .. MaxNest -> Frame]
      /\ frame' = [frame EXCEPT ![depth].left = @ - 1]
      /\ depth' = depth
  BY TopIsFrame DEF HookReturns, TypeOK
<1>2. UNCHANGED <<chain, free, live, marked, newborn, out, roots, sideKeys, sideRefs>>
  BY DEF HookReturns, store, graph
<1>3. \A i \in 1 .. MaxNest : frame'[i].at = frame[i].at
  BY <1>1 DEF Frame
<1>4. InFreeHook' = InFreeHook
  BY <1>1, <1>3 DEF InFreeHook, Top
<1>5. Accounting'
  BY <1>2, <1>4 DEF Accounting
<1>6. Reach' = Reach
  BY <1>2, QuietReach
<1>7. ReachableIsMarked'
  <2>1. InFreeHook => Reach \subseteq marked
    BY DEF ReachableIsMarked, HookReturns, InFreeHook, Disciplined
  <2>. QED
    BY <1>2, <1>4, <1>6, <2>1 DEF ReachableIsMarked
<1>8. FreeHookOnTopOnly'
  BY <1>1, <1>3 DEF FreeHookOnTopOnly
<1>. QED
  BY <1>2, <1>5, <1>6, <1>7, <1>8, HookReturnsTypes DEF NothingReachableIsFree, FiledUnderKeys

(* The invariant: marking, which is what the free hooks rely on.           *)
LEMMA MarkPhaseInv == IInv /\ MarkPhase => IInv'
<1>. SUFFICES ASSUME IInv, MarkPhase PROVE IInv'
  OBVIOUS
<1>. USE DEF IInv
<1>1. depth \in 1 .. MaxNest /\ Top.at = "mark" /\ depth' = depth
  BY TopIsFrame DEF MarkPhase
<1>2. marked = {}
  BY <1>1 DEF Accounting, InFreeHook
<1>3. marked' = Reach
  BY <1>2 DEF MarkPhase, Reach, Reachable
<1>4. UNCHANGED <<chain, free, live, newborn, out, roots, sideKeys, sideRefs>>
  BY DEF MarkPhase, graph
<1>5. \A i \in 1 .. MaxNest : i # depth => frame'[i] = frame[i]
  BY DEF MarkPhase, TypeOK
<1>6. InFreeHook'
  BY <1>1 DEF MarkPhase, InFreeHook, Top, TypeOK
<1>7. Reach' = Reach
  BY <1>4, QuietReach
<1>8. Accounting'
  BY <1>3, <1>4, <1>6 DEF Accounting, NothingReachableIsFree
<1>9. ReachableIsMarked'
  BY <1>3, <1>7 DEF ReachableIsMarked
<1>10. FreeHookOnTopOnly'
  <2>1. \A i \in 1 .. depth : i \in 1 .. MaxNest /\ (i < depth => i # depth)
    BY <1>1, BoundAssumption DEF BoundAssumption
  <2>. QED
    BY <1>1, <1>5, <2>1 DEF FreeHookOnTopOnly
<1>. QED
  BY <1>4, <1>7, <1>8, <1>9, <1>10, MarkPhaseTypes DEF NothingReachableIsFree, FiledUnderKeys

(* The invariant: the sweep frees what was not marked.                     *)
LEMMA SweepPhaseInv == IInv /\ SweepPhase => IInv'
<1>. SUFFICES ASSUME IInv, SweepPhase PROVE IInv'
  OBVIOUS
<1>. USE DEF IInv
<1>1. /\ depth \in 1 .. MaxNest
      /\ InFreeHook
      /\ Top.left = 0
      /\ depth' = depth - 1
      /\ frame' = frame
  BY TopIsFrame DEF SweepPhase, Dead, Gone, InFreeHook
<1>2. /\ chain' = chain \cap marked
      /\ free' = free \cup (chain \ marked)
      /\ live' = live - Cardinality(chain \ marked)
      /\ marked' = {}
      /\ sideKeys' \subseteq sideKeys
      /\ \A a \in Addr : sideRefs'[a] = IF a \in sideKeys' THEN sideRefs[a] ELSE {}
      /\ UNCHANGED <<out, roots>>
  <2>1. \A a \in Addr : a \notin sideKeys => sideRefs[a] = {}
    BY DEF FiledUnderKeys
  <2>. QED
    BY <2>1 DEF SweepPhase, Dead, Gone
<1>3. Reach \subseteq marked
  BY <1>1 DEF ReachableIsMarked
<1>4. Reach' \subseteq Reach
  <2>1. RootSet' \subseteq RootSet
    BY <1>2 DEF RootSet, TypeOK
  <2>. QED
    BY <1>2, <2>1, ReachFacts, ReachNextBound
<1>5. NothingReachableIsFree'
  BY <1>2, <1>3, <1>4 DEF NothingReachableIsFree
<1>6. ~InFreeHook'
  BY <1>1 DEF InFreeHook, Top, FreeHookOnTopOnly
<1>7. Accounting'
  BY <1>2, SweepCount DEF Accounting
<1>8. FreeHookOnTopOnly'
  <2>1. depth \in Nat /\ depth' = depth - 1
    BY <1>1 DEF TypeOK
  <2>2. \A i \in 1 .. depth' : i \in 1 .. depth /\ i < depth
    BY <2>1
  <2>. QED
    BY <1>1, <2>2 DEF FreeHookOnTopOnly
<1>9. FiledUnderKeys'
  BY <1>2 DEF FiledUnderKeys
<1>. QED
  BY <1>5, <1>6, <1>7, <1>8, <1>9, SweepPhaseTypes DEF ReachableIsMarked

(* The invariant: a step that changes nothing.                             *)
LEMMA StutterInv == IInv /\ UNCHANGED vars => IInv'
<1>. SUFFICES ASSUME IInv, UNCHANGED vars PROVE IInv'
  OBVIOUS
<1>. USE DEF IInv, vars
<1>1. TypeOK'
  BY DEF TypeOK
<1>2. Accounting' /\ FreeHookOnTopOnly' /\ FiledUnderKeys'
  BY DEF Accounting, InFreeHook, Top, FreeHookOnTopOnly, FiledUnderKeys
<1>3. Reach' = Reach
  BY QuietReach
<1>4. NothingReachableIsFree' /\ ReachableIsMarked'
  BY <1>3 DEF NothingReachableIsFree, ReachableIsMarked, InFreeHook, Top
<1>. QED
  BY <1>1, <1>2, <1>4

(* The invariant: every step.                                              *)
LEMMA InvNext == Disciplined /\ IInv /\ [Next]_vars => IInv'
BY ProgramInv, CollectCallInv, HookReturnsInv, MarkPhaseInv, SweepPhaseInv, StutterInv
   DEF Next, Collection

(* The strengthened invariant holds in every reachable state.              *)
THEOREM Inductive == ASSUME Disciplined PROVE Spec => []IInv
BY InvInit, InvNext, PTL DEF Spec

(* Every variable keeps its type, across nested collections and sweeps     *)
(* that subtract from the live count.                                      *)
THEOREM TypeCorrect == ASSUME Disciplined PROVE Spec => []TypeOK
BY Inductive, PTL DEF IInv

(* The collector never frees an object in use: collect.rs's FREECHECK      *)
(* assertion can never fire, at any step of any collection.                *)
THEOREM Safety == ASSUME Disciplined PROVE Spec => []NothingReachableIsFree
BY Inductive, PTL DEF IInv

(* Chain, free list, live count and mark bits always agree.                *)
THEOREM AccountingCorrect == ASSUME Disciplined PROVE Spec => []Accounting
BY Inductive, PTL DEF IInv

-----------------------------------------------------------------------------
(* The action properties, from two further facts.                          *)

(* An entry is filed only under an object in use.                          *)
KeysAreAllocated == sideKeys \cup indexKeys \subseteq chain

(* With no free hook registered nothing runs between marking and sweep.    *)
MarkedIsReachable ==
  InFreeHook /\ hooks["free"] = 0 => marked = Reach /\ Top.left = 0

(* The keys of the maps are never those of freed objects.                  *)
LEMMA KeysNext ==
  ASSUME IInv, KeysAreAllocated, [Next]_vars
  PROVE  KeysAreAllocated'
<1>. USE DEF KeysAreAllocated
<1>1. Accessible \subseteq chain
  BY AccessibleInReach DEF IInv, NothingReachableIsFree
<1>2. CASE Alloc \/ Link \/ Hold
  BY <1>2 DEF Alloc, Link, Hold, store
<1>3. CASE EnterSide
  BY <1>1, <1>3 DEF EnterSide, store
<1>4. CASE EnterIndex
  BY <1>1, <1>4 DEF EnterIndex, store
<1>6. ASSUME NEW kind \in HookKind, RegisterHook(kind) PROVE KeysAreAllocated'
  BY <1>6 DEF RegisterHook, store, graph
<1>7. CASE CollectCall \/ HookReturns \/ MarkPhase
  BY <1>7 DEF CollectCall, HookReturns, MarkPhase, store, graph
<1>8. CASE SweepPhase
  BY <1>8 DEF SweepPhase, Dead, Gone
<1>9. CASE UNCHANGED vars
  BY <1>9 DEF vars
<1>. QED
  BY <1>2, <1>3, <1>4, <1>6, <1>7, <1>8, <1>9 DEF Next, Program, Collection

(* The program's operations unregister no hook.                            *)
LEMMA ProgramHooks ==
  ASSUME TypeOK, Program, hooks["free"]' = 0
  PROVE  hooks["free"] = 0
<1>1. ASSUME NEW kind \in HookKind, RegisterHook(kind) PROVE hooks["free"] = 0
  BY <1>1 DEF RegisterHook, TypeOK, HookKind
<1>2. CASE Alloc \/ Link \/ Hold
  BY <1>2 DEF Alloc, Link, Hold
<1>3. CASE EnterSide \/ EnterIndex
  BY <1>3 DEF EnterSide, EnterIndex
<1>. QED
  BY <1>1, <1>2, <1>3 DEF Program

(* What is marked is what was reachable when it was marked.                *)
LEMMA MarkedNext ==
  ASSUME IInv, MarkedIsReachable, [Next]_vars
  PROVE  MarkedIsReachable'
<1>. USE DEF MarkedIsReachable
<1>1. CASE Program
  <2>1. ProgramRuns /\ UNCHANGED <<depth, frame>>
    BY <1>1, ProgramStore DEF IInv
  <2>2. InFreeHook' = InFreeHook
    BY <2>1 DEF InFreeHook, Top
  <2>3. InFreeHook => Top.left # 0
    BY <2>1, TopIsFrame DEF IInv, ProgramRuns, InFreeHook
  <2>. QED
    BY <1>1, <2>2, <2>3, ProgramHooks DEF IInv
<1>2. CASE CollectCall
  <2>1. depth' > 0 /\ depth' \in 1 .. MaxNest /\ frame'[depth'].at = "mark"
    BY <1>2, BoundAssumption DEF BoundAssumption, CollectCall, IInv, TypeOK
  <2>. QED
    BY <2>1 DEF InFreeHook, Top
<1>3. CASE HookReturns
  <2>1. depth > 0 /\ Top.left > 0
    BY <1>3 DEF HookReturns
  <2>2. Top.left # 0
    BY <2>1, TopIsFrame DEF IInv
  <2>3. depth' = depth /\ hooks' = hooks
    BY <1>3 DEF HookReturns
  <2>4. InFreeHook' = InFreeHook
    BY <1>3, <2>3, TopIsFrame DEF HookReturns, InFreeHook, Top, IInv, TypeOK, Frame
  <2>. QED
    BY <2>2, <2>3, <2>4
<1>4. CASE MarkPhase
  <2>1. depth \in 1 .. MaxNest /\ Top.at = "mark"
    BY <1>4, TopIsFrame DEF MarkPhase, IInv
  <2>2. marked = {}
    BY <2>1 DEF IInv, Accounting, InFreeHook
  <2>3. marked' = Reach
    BY <1>4, <2>2 DEF MarkPhase, Reach, Reachable
  <2>4. Reach' = Reach
    BY <1>4, QuietReach DEF MarkPhase, graph, IInv
  <2>5. Top'.left = hooks["free"] /\ hooks' = hooks
    BY <1>4, <2>1 DEF MarkPhase, Top, IInv, TypeOK
  <2>. QED
    BY <2>3, <2>4, <2>5
<1>5. CASE SweepPhase
  BY <1>5, SweepPhaseInv, TopIsFrame DEF SweepPhase, Dead, Gone, InFreeHook, Top, IInv, FreeHookOnTopOnly
<1>6. CASE UNCHANGED vars
  BY <1>6, QuietReach DEF vars, InFreeHook, Top, IInv
<1>. QED
  BY <1>1, <1>2, <1>3, <1>4, <1>5, <1>6 DEF Next, Collection

(* A chunk handed out again carries no entry of its last owner's.          *)
THEOREM NothingInherited == ASSUME Disciplined PROVE Spec => NoInheritedEntry
<1> DEFINE Q == \A a \in chain' \ chain : a \notin sideKeys' \cup indexKeys'
<1>1. Init => KeysAreAllocated
  BY DEF Init, KeysAreAllocated
<1>2. IInv /\ KeysAreAllocated /\ [Next]_vars => KeysAreAllocated' /\ [Q]_vars
  <2>. SUFFICES ASSUME IInv, KeysAreAllocated, [Next]_vars
                PROVE  [Q]_vars
    BY KeysNext
  <2>1. CASE Alloc
    BY <2>1 DEF Alloc, KeysAreAllocated
  <2>2. CASE ~Alloc
    <3>1. chain' \subseteq chain \/ UNCHANGED vars
      <4>1. CASE Link \/ Hold
        BY <4>1 DEF Link, Hold, store
      <4>2. CASE EnterSide \/ EnterIndex
        BY <4>2 DEF EnterSide, EnterIndex, store
      <4>3. CASE CollectCall \/ HookReturns \/ MarkPhase \/ SweepPhase
        BY <4>3 DEF CollectCall, HookReturns, MarkPhase, SweepPhase, Dead, Gone, store
      <4>4. ASSUME NEW kind \in HookKind, RegisterHook(kind) PROVE chain' \subseteq chain
        BY <4>4 DEF RegisterHook, store
      <4>. QED
        BY <2>2, <4>1, <4>2, <4>3, <4>4 DEF Next, Program, Collection
    <3>. QED
      BY <3>1
  <2>. QED
    BY <2>1, <2>2
<1>. QED
  BY <1>1, <1>2, Inductive, PTL DEF Spec, NoInheritedEntry

(* A collection with no free hook registered keeps what is reachable and   *)
(* nothing else, however many collections its mark hooks ran before it.    *)
THEOREM CollectionIsExact == ASSUME Disciplined PROVE Spec => ExactCollection
<1> DEFINE Q == depth' < depth /\ hooks["free"] = 0 => chain' = Reach
<1>1. Init => MarkedIsReachable
  BY DEF Init, MarkedIsReachable, InFreeHook
<1>2. IInv /\ MarkedIsReachable /\ [Next]_vars => MarkedIsReachable' /\ [Q]_vars
  <2>. SUFFICES ASSUME IInv, MarkedIsReachable, [Next]_vars
                PROVE  [Q]_vars
    BY MarkedNext
  <2>1. CASE SweepPhase
    BY <2>1 DEF SweepPhase, Dead, Gone, MarkedIsReachable, InFreeHook, IInv, Accounting
  <2>2. CASE Program
    BY <2>2, ProgramStore DEF IInv, TypeOK
  <2>3. CASE CollectCall \/ HookReturns \/ MarkPhase
    BY <2>3 DEF CollectCall, HookReturns, MarkPhase, IInv, TypeOK
  <2>. QED
    BY <2>1, <2>2, <2>3 DEF Next, Collection
<1>. QED
  BY <1>1, <1>2, Inductive, PTL DEF Spec, ExactCollection

-----------------------------------------------------------------------------
(* The refinement: the program sees a heap that never frees.               *)

(* What the program's roots hold, and what one object leads it to.         *)
HeldNow == {a \in Addr : \E r \in Root : a \in roots[r]}
Seen    == [a \in Addr |-> out[a] \cup sideRefs[a]]

(* What the program can get at holds its roots and is closed.              *)
LEMMA AccessibleFacts ==
  ASSUME TypeOK
  PROVE  /\ Accessible \in SUBSET Addr
         /\ \A r \in Root : roots[r] \subseteq Accessible
         /\ \A a \in Accessible : out[a] \subseteq Accessible /\ sideRefs[a] \subseteq Accessible
<1>1. Seen \in [Addr -> SUBSET Addr] /\ HeldNow \in SUBSET Addr
  BY DEF TypeOK, Seen, HeldNow
<1>2. Accessible = WalkFrom(Addr, HeldNow, Seen, {})
  BY DEF Accessible, Reachable, Seen, HeldNow
<1>3. /\ Accessible \in SUBSET Addr
      /\ HeldNow \subseteq Accessible
      /\ ClosedUpTo(Accessible, Seen, {})
  BY <1>1, <1>2, WalkInHeap, WalkMeetsRoots, WalkIsClosed
<1>4. \A r \in Root : roots[r] \subseteq HeldNow
  BY DEF TypeOK, HeldNow
<1>5. \A a \in Accessible : Seen[a] \subseteq Accessible
  BY <1>3 DEF ClosedUpTo
<1>6. \A a \in Accessible : Seen[a] = out[a] \cup sideRefs[a]
  BY <1>3 DEF Seen
<1>. QED
  BY <1>3, <1>4, <1>5, <1>6

(* Both modules walk the same way.                                         *)
LEMMA SameWalk ==
  ASSUME NEW H, NEW R, NEW g
  PROVE  Ideal!Reachable(H, R, g) = Reachable(H, R, g)
BY DEF Ideal!Reachable, Ideal!WalkFrom, Ideal!ClosedSets, Ideal!ClosedUpTo,
       Reachable, WalkFrom, ClosedSets, ClosedUpTo

(* An object of the ideal heap whose references stay in `D'.               *)
Objects(D) == [refs : SUBSET D, side : SUBSET D, indexed : BOOLEAN]

(* Objects `o' on `D' describe the state: everything held is among them    *)
(* and each is what the collector's variables say.                         *)
Pictures(D, o) ==
  /\ D \in SUBSET Addr
  /\ o \in [D -> Objects(D)]
  /\ \A r \in Root : roots[r] \subseteq D
  /\ \A a \in D : /\ o[a].refs = out[a]
                  /\ o[a].side = sideRefs[a]
                  /\ o[a].indexed = (a \in indexKeys)

(* What the program can get at is described by what it sees.               *)
LEMMA ViewPictures ==
  ASSUME TypeOK
  PROVE  Pictures(Accessible, View)
<1>1. \A a \in Accessible :
        [refs |-> out[a], side |-> sideRefs[a], indexed |-> a \in indexKeys]
          \in Objects(Accessible)
  BY AccessibleFacts DEF Objects
<1>. HIDE DEF Objects
<1>2. View \in [Accessible -> Objects(Accessible)]
  BY <1>1 DEF View
<1>3. \A a \in Accessible : /\ View[a].refs = out[a]
                            /\ View[a].side = sideRefs[a]
                            /\ View[a].indexed = (a \in indexKeys)
  BY DEF View
<1>. QED
  BY <1>2, <1>3, AccessibleFacts DEF Pictures

(* Whatever describes the state contains what the program sees, and that   *)
(* is what can be reached in the description.                              *)
Described ==
  \A D, o :
    Pictures(D, o) => /\ DOMAIN View = Ideal!Visible(roots, o)
                      /\ \A a \in DOMAIN View : a \in DOMAIN o /\ View[a] = o[a]

(* Every description is one.                                               *)
LEMMA PictureIsSeen == TypeOK => Described
<1>. SUFFICES ASSUME TypeOK, NEW D, NEW o, Pictures(D, o)
              PROVE  /\ DOMAIN View = Ideal!Visible(roots, o)
                     /\ \A a \in DOMAIN View : a \in DOMAIN o /\ View[a] = o[a]
  BY DEF Described
<1> DEFINE f == [a \in D |-> o[a].refs \cup o[a].side]
<1>1. /\ D \in SUBSET Addr /\ DOMAIN o = D
      /\ \A a \in D : o[a] \in Objects(D)
      /\ \A r \in Root : roots[r] \subseteq D
      /\ \A a \in D : /\ o[a].refs = out[a]
                      /\ o[a].side = sideRefs[a]
                      /\ o[a].indexed = (a \in indexKeys)
  BY DEF Pictures
<1>2. Seen \in [Addr -> SUBSET Addr]
  BY DEF TypeOK, Seen
<1>3. f \in [D -> SUBSET D]
  BY <1>1 DEF Objects
<1>4. \A a \in D : f[a] = Seen[a]
  BY <1>1 DEF Seen
<1>5. UNION {roots[r] : r \in Root} = HeldNow /\ HeldNow \subseteq D
  BY <1>1 DEF TypeOK, HeldNow
<1>. HIDE DEF f
<1>6. Reachable(D, HeldNow, f) = Reachable(Addr, HeldNow, Seen)
  BY <1>1, <1>2, <1>3, <1>4, <1>5, WalkWithin
<1>7. Reachable(Addr, HeldNow, Seen) = Accessible
  BY DEF Accessible, Seen, HeldNow
<1>8. Ideal!Visible(roots, o) = Reachable(D, HeldNow, f)
  BY <1>1, <1>5, SameWalk DEF Ideal!Visible, f
<1>9. Accessible \subseteq D
  BY <1>6, <1>7, WalkInHeap DEF Reachable
<1>10. DOMAIN View = Accessible
  BY DEF View
<1>11. ASSUME NEW a \in Accessible PROVE View[a] = o[a]
  <2>1. View[a] = [refs |-> out[a], side |-> sideRefs[a], indexed |-> a \in indexKeys]
    BY DEF View
  <2>2. o[a] \in Objects(D) /\ o[a].refs = out[a] /\ o[a].side = sideRefs[a]
        /\ o[a].indexed = (a \in indexKeys)
    BY <1>1, <1>9
  <2>3. o[a] = [refs |-> o[a].refs, side |-> o[a].side, indexed |-> o[a].indexed]
    BY <2>2 DEF Objects
  <2>. QED
    BY <2>1, <2>2, <2>3
<1>. QED
  BY <1>1, <1>6, <1>7, <1>8, <1>9, <1>10, <1>11

(* A description of the next state, over what is in use now, is what an    *)
(* action of the ideal heap leads to.                                      *)
LEMMA Reached ==
  ASSUME TypeOK', NEW D \in SUBSET Addr, NEW o \in [D -> Objects(D)],
         \A r \in Root : roots'[r] \subseteq D,
         \A a \in D : o[a].refs = out'[a],
         \A a \in D : o[a].side = sideRefs'[a],
         \A a \in D : o[a].indexed = (a \in indexKeys')
  PROVE  Ideal!Becomes(roots', o, View')
<1>1. Pictures(D, o)'
  BY DEF Pictures
<1>2. Described'
  BY PictureIsSeen, PTL
<1>. QED
  BY <1>1, <1>2 DEF Described, Ideal!Becomes

(* A step that leads to one of the ideal heap's views is one of its steps. *)
LEMMA StepIsIdeal ==
  ASSUME \/ Ideal!New(View, View') \/ Ideal!Relink(View, View')
         \/ Ideal!Hold(View, View') \/ Ideal!File(View, View')
         \/ Ideal!Index(View, View')
  PROVE  [Ideal!Next]_<<roots, View>>
BY DEF Ideal!Next

(* An allocation: an address the program has no use for, and blank.        *)
LEMMA AllocIsIdeal ==
  ASSUME IInv, KeysAreAllocated, TypeOK', Alloc
  PROVE  Ideal!New(View, View')
<1>1. PICK a \in Addr \ chain, r \in Root :
        /\ out' = [out EXCEPT ![a] = {}]
        /\ roots' = [roots EXCEPT ![r] = {a}]
  BY DEF Alloc
<1>2. sideRefs' = sideRefs /\ indexKeys' = indexKeys
  BY DEF Alloc
<1>3. a \notin Accessible
  BY AccessibleInReach DEF IInv, NothingReachableIsFree
<1>4. sideRefs[a] = {} /\ a \notin indexKeys
  BY DEF IInv, KeysAreAllocated, FiledUnderKeys
<1>5. Pictures(Accessible, View) /\ Accessible \in SUBSET Addr
  BY ViewPictures, AccessibleFacts DEF IInv
<1> DEFINE D == DOMAIN View \cup {a}
           o == [b \in D |-> IF b = a THEN Ideal!Blank ELSE View[b]]
<1>6. DOMAIN View = Accessible
  BY DEF View
<1>7. D \in SUBSET Addr /\ D = Accessible \cup {a}
  BY <1>5, <1>6
<1>8. \A b \in Accessible : View[b] \in Objects(D)
  BY <1>5, <1>6 DEF Pictures, Objects
<1>9. Ideal!Blank \in Objects(D) /\ Ideal!Blank.refs = {} /\ Ideal!Blank.side = {}
      /\ Ideal!Blank.indexed = FALSE
  BY DEF Ideal!Blank, Objects
<1>10. o \in [D -> Objects(D)]
  <2>. HIDE DEF Objects
  <2>. QED BY <1>7, <1>8, <1>9
<1>11. \A q \in Root : roots'[q] \subseteq D
  BY <1>1, <1>7, AccessibleFacts DEF IInv, TypeOK
<1>12. out \in [Addr -> SUBSET Addr]
  BY DEF IInv, TypeOK
<1>13. \A b \in D : /\ o[b].refs = out'[b] /\ o[b].side = sideRefs'[b]
                    /\ o[b].indexed = (b \in indexKeys')
  <2>. TAKE b \in D
  <2>1. CASE b = a
    <3>1. o[b] = Ideal!Blank
      BY <2>1
    <3>2. out'[b] = {}
      BY <2>1, <1>1, <1>12
    <3>3. sideRefs'[b] = {} /\ b \notin indexKeys'
      BY <2>1, <1>2, <1>4
    <3>4. o[b].indexed = (b \in indexKeys')
      <4>1. (b \in indexKeys') = FALSE
        BY <3>3
      <4>2. o[b].indexed = FALSE
        BY <3>1, <1>9
      <4>. QED
        BY <4>1, <4>2, Zenon
    <3>5. o[b].refs = out'[b] /\ o[b].side = sideRefs'[b]
      BY <3>1, <3>2, <3>3, <1>9
    <3>. QED
      BY <3>4, <3>5
  <2>2. CASE b # a
    <3>1. o[b] = View[b] /\ b \in Accessible
      BY <2>2, <1>7
    <3>2. out'[b] = out[b]
      BY <2>2, <1>1, <1>7, <1>12
    <3>. QED
      BY <3>1, <3>2, <1>2, <1>5 DEF Pictures
  <2>. QED
    BY <2>1, <2>2
<1>. HIDE DEF D, o
<1>14. Ideal!Becomes(roots', o, View')
  BY <1>7, <1>10, <1>11, <1>13, Reached
<1>. QED
  BY <1>1, <1>3, <1>6, <1>14 DEF Ideal!New, D, o

(* The program rewrites one object, or none: what it sees is what it saw   *)
(* with that object rewritten.                                             *)
LEMMA RewriteIsIdeal ==
  ASSUME IInv, TypeOK', NEW a \in Accessible, NEW x \in Objects(Accessible),
         \A r \in Root : roots'[r] \subseteq Accessible,
         \A b \in Accessible \ {a} :
           /\ out'[b] = out[b] /\ sideRefs'[b] = sideRefs[b]
           /\ (b \in indexKeys') = (b \in indexKeys),
         x.refs = out'[a], x.side = sideRefs'[a], x.indexed = (a \in indexKeys')
  PROVE  Ideal!Becomes(roots', [View EXCEPT ![a] = x], View')
<1> DEFINE o == [View EXCEPT ![a] = x]
<1>1. /\ Accessible \in SUBSET Addr
      /\ View \in [Accessible -> Objects(Accessible)]
      /\ \A b \in Accessible : /\ View[b].refs = out[b]
                               /\ View[b].side = sideRefs[b]
                               /\ View[b].indexed = (b \in indexKeys)
  BY ViewPictures DEF IInv, Pictures
<1>. HIDE DEF Objects
<1>2. o \in [Accessible -> Objects(Accessible)]
  BY <1>1
<1>3. \A b \in Accessible : o[b] = IF b = a THEN x ELSE View[b]
  BY <1>1
<1>4. \A b \in Accessible : /\ o[b].refs = out'[b] /\ o[b].side = sideRefs'[b]
                            /\ o[b].indexed = (b \in indexKeys')
  BY <1>1, <1>3
<1>. HIDE DEF o
<1>. QED
  BY <1>1, <1>2, <1>4, Reached DEF o

(* A step that leaves alone what the program sees is not seen.             *)
LEMMA UnseenStep ==
  ASSUME IInv, TypeOK', roots' = roots,
         \A b \in Accessible :
           /\ out'[b] = out[b] /\ sideRefs'[b] = sideRefs[b]
           /\ (b \in indexKeys') = (b \in indexKeys)
  PROVE  View' = View
<1>1. /\ Accessible \in SUBSET Addr /\ DOMAIN View = Accessible
      /\ View \in [Accessible -> Objects(Accessible)]
      /\ \A r \in Root : roots[r] \subseteq Accessible
      /\ \A b \in Accessible : /\ View[b].refs = out[b]
                               /\ View[b].side = sideRefs[b]
                               /\ View[b].indexed = (b \in indexKeys)
  BY ViewPictures DEF IInv, Pictures, View
<1>2. Ideal!Becomes(roots', View, View')
  BY <1>1, Reached
<1>3. DOMAIN View = Ideal!Visible(roots, View)
  BY PictureIsSeen, ViewPictures DEF Described, IInv
<1>4. DOMAIN View' = DOMAIN View /\ \A b \in DOMAIN View' : View'[b] = View[b]
  BY <1>2, <1>3 DEF Ideal!Becomes
<1>5. View' = [b \in DOMAIN View' |-> View'[b]] /\ View = [b \in DOMAIN View |-> View[b]]
  BY DEF View
<1>. QED
  BY <1>4, <1>5

(* A store rewrites the references of one object.                          *)
LEMMA LinkIsIdeal ==
  ASSUME IInv, TypeOK', Link
  PROVE  Ideal!Relink(View, View')
<1>1. PICK a \in Accessible, refs \in SUBSET Accessible :
        out' = [out EXCEPT ![a] = refs]
  BY DEF Link
<1>2. sideRefs' = sideRefs /\ indexKeys' = indexKeys /\ roots' = roots
  BY DEF Link
<1>3. /\ Accessible \in SUBSET Addr /\ out \in [Addr -> SUBSET Addr]
      /\ \A r \in Root : roots[r] \subseteq Accessible
  BY AccessibleFacts DEF IInv, TypeOK
<1>4. Pictures(Accessible, View) /\ DOMAIN View = Accessible
  BY ViewPictures DEF IInv, View
<1> DEFINE x == [View[a] EXCEPT !.refs = refs]
<1>5. x \in Objects(Accessible) /\ x.refs = refs /\ x.side = View[a].side
      /\ x.indexed = View[a].indexed
  BY <1>4 DEF Pictures, Objects
<1>. HIDE DEF x
<1>6. /\ x.refs = out'[a] /\ x.side = sideRefs'[a]
      /\ x.indexed = (a \in indexKeys')
  BY <1>1, <1>2, <1>3, <1>4, <1>5 DEF Pictures
<1>7. \A b \in Accessible \ {a} :
        /\ out'[b] = out[b] /\ sideRefs'[b] = sideRefs[b]
        /\ (b \in indexKeys') = (b \in indexKeys)
  BY <1>1, <1>2, <1>3
<1>8. Ideal!Becomes(roots', [View EXCEPT ![a] = x], View')
  BY <1>2, <1>3, <1>5, <1>6, <1>7, RewriteIsIdeal
<1>. QED
  BY <1>2, <1>4, <1>8 DEF Ideal!Relink, x

(* Rooting something, or letting go of it.                                 *)
LEMMA HoldIsIdeal ==
  ASSUME IInv, TypeOK', Hold
  PROVE  Ideal!Hold(View, View')
<1>1. PICK r \in Root, refs \in {{}} \cup {{v} : v \in Accessible} :
        roots' = [roots EXCEPT ![r] = refs]
  BY DEF Hold
<1>2. out' = out /\ sideRefs' = sideRefs /\ indexKeys' = indexKeys
  BY DEF Hold
<1>3. refs \subseteq Accessible /\ DOMAIN View = Accessible
  BY DEF View
<1>4. /\ Accessible \in SUBSET Addr
      /\ View \in [Accessible -> Objects(Accessible)]
      /\ \A q \in Root : roots[q] \subseteq Accessible
      /\ \A b \in Accessible : /\ View[b].refs = out[b]
                               /\ View[b].side = sideRefs[b]
                               /\ View[b].indexed = (b \in indexKeys)
  BY ViewPictures DEF IInv, Pictures
<1>5. \A q \in Root : roots'[q] \subseteq Accessible
  BY <1>1, <1>3, <1>4 DEF IInv, TypeOK
<1>6. Ideal!Becomes(roots', View, View')
  BY <1>2, <1>4, <1>5, Reached
<1>. QED
  BY <1>1, <1>3, <1>6 DEF Ideal!Hold

(* A snapshot or an intern files one reference under one object.           *)
LEMMA EnterSideIsIdeal ==
  ASSUME IInv, TypeOK', EnterSide
  PROVE  Ideal!File(View, View')
<1>1. PICK k \in Accessible, v \in Accessible :
        sideRefs' = [sideRefs EXCEPT ![k] = @ \cup {v}]
  BY DEF EnterSide
<1>2. out' = out /\ indexKeys' = indexKeys /\ roots' = roots
  BY DEF EnterSide
<1>3. /\ Accessible \in SUBSET Addr /\ sideRefs \in [Addr -> SUBSET Addr]
      /\ \A r \in Root : roots[r] \subseteq Accessible
  BY AccessibleFacts DEF IInv, TypeOK
<1>4. Pictures(Accessible, View) /\ DOMAIN View = Accessible
  BY ViewPictures DEF IInv, View
<1> DEFINE x == [View[k] EXCEPT !.side = @ \cup {v}]
<1>5. x \in Objects(Accessible) /\ x.side = View[k].side \cup {v}
      /\ x.refs = View[k].refs /\ x.indexed = View[k].indexed
  BY <1>4 DEF Pictures, Objects
<1>. HIDE DEF x
<1>6. /\ x.refs = out'[k] /\ x.side = sideRefs'[k]
      /\ x.indexed = (k \in indexKeys')
  BY <1>1, <1>2, <1>3, <1>4, <1>5 DEF Pictures
<1>7. \A b \in Accessible \ {k} :
        /\ out'[b] = out[b] /\ sideRefs'[b] = sideRefs[b]
        /\ (b \in indexKeys') = (b \in indexKeys)
  BY <1>1, <1>2, <1>3
<1>8. Ideal!Becomes(roots', [View EXCEPT ![k] = x], View')
  BY <1>2, <1>3, <1>5, <1>6, <1>7, RewriteIsIdeal
<1>. QED
  BY <1>2, <1>4, <1>8 DEF Ideal!File, x

(* Marking an object changes nothing else of it.                           *)
LEMMA Marking ==
  ASSUME NEW D, NEW o \in Objects(D), NEW mark \in BOOLEAN
  PROVE  LET x == [o EXCEPT !.indexed = mark]
         IN  /\ x \in Objects(D) /\ x.refs = o.refs /\ x.side = o.side
             /\ x.indexed = mark
BY DEF Objects

(* An index, whatever else it speeds up, is a mark on the object.          *)
LEMMA EnterIndexIsIdeal ==
  ASSUME IInv, TypeOK', EnterIndex
  PROVE  Ideal!Index(View, View')
<1>1. PICK h \in Accessible : indexKeys' = indexKeys \cup {h}
  BY DEF EnterIndex
<1>2. out' = out /\ sideRefs' = sideRefs /\ roots' = roots
  BY DEF EnterIndex
<1>3. /\ Accessible \in SUBSET Addr
      /\ \A r \in Root : roots[r] \subseteq Accessible
  BY AccessibleFacts DEF IInv
<1>4. Pictures(Accessible, View) /\ DOMAIN View = Accessible
  BY ViewPictures DEF IInv, View
<1> DEFINE x == [View[h] EXCEPT !.indexed = TRUE]
<1>5. /\ x \in Objects(Accessible) /\ x.refs = View[h].refs /\ x.side = View[h].side
      /\ x.indexed = TRUE
  <2>1. View[h] \in Objects(Accessible)
    BY <1>4 DEF Pictures
  <2>2. TRUE \in BOOLEAN
    OBVIOUS
  <2>. QED
    BY <2>1, <2>2, Marking, Zenon
<1>. HIDE DEF x
<1>6. x.refs = out'[h] /\ x.side = sideRefs'[h]
  BY <1>2, <1>4, <1>5 DEF Pictures
<1>7. x.indexed = (h \in indexKeys')
  <2>1. (h \in indexKeys') = TRUE
    BY <1>1
  <2>. QED
    BY <2>1, <1>5, Zenon
<1>8. \A b \in Accessible \ {h} :
        /\ out'[b] = out[b] /\ sideRefs'[b] = sideRefs[b]
        /\ (b \in indexKeys') = (b \in indexKeys)
  BY <1>1, <1>2
<1>9. Ideal!Becomes(roots', [View EXCEPT ![h] = x], View')
  BY <1>2, <1>3, <1>5, <1>6, <1>7, <1>8, RewriteIsIdeal
<1>. QED
  BY <1>2, <1>4, <1>9 DEF Ideal!Index, x

(* The sweep takes nothing the program sees.                               *)
LEMMA SweepIsUnseen ==
  ASSUME IInv, KeysAreAllocated, TypeOK', SweepPhase
  PROVE  View' = View
<1>1. InFreeHook /\ Top.left = 0
  BY DEF SweepPhase, InFreeHook
<1>2. Accessible \subseteq marked /\ Accessible \subseteq chain
  BY <1>1, AccessibleInReach DEF IInv, ReachableIsMarked, NothingReachableIsFree
<1>3. \A b \in Accessible : b \notin Gone
  BY <1>2 DEF Gone, Dead, IInv, Accounting
<1>4. /\ out' = out /\ roots' = roots /\ indexKeys' = indexKeys \ Gone
      /\ \A b \in Addr : b \notin Gone => sideRefs'[b] = sideRefs[b]
  BY DEF SweepPhase
<1>5. Accessible \in SUBSET Addr
  BY AccessibleFacts DEF IInv
<1>. QED
  BY <1>3, <1>4, <1>5, UnseenStep

(* Neither does a step that leaves the graph alone.                        *)
LEMMA QuietIsUnseen ==
  ASSUME IInv, TypeOK', UNCHANGED graph
  PROVE  roots' = roots /\ View' = View
BY UnseenStep DEF graph

(* Every step of the collector is a step of the ideal heap, or unseen.     *)
LEMMA NextIsIdeal ==
  ASSUME IInv, KeysAreAllocated, TypeOK', [Next]_vars
  PROVE  [Ideal!Next]_<<roots, View>>
<1>1. CASE Alloc
  BY <1>1, AllocIsIdeal, StepIsIdeal
<1>2. CASE Link
  BY <1>2, LinkIsIdeal, StepIsIdeal
<1>3. CASE Hold
  BY <1>3, HoldIsIdeal, StepIsIdeal
<1>4. CASE EnterSide
  BY <1>4, EnterSideIsIdeal, StepIsIdeal
<1>5. CASE EnterIndex
  BY <1>5, EnterIndexIsIdeal, StepIsIdeal
<1>6. CASE SweepPhase
  BY <1>6, SweepIsUnseen DEF SweepPhase
<1>7. CASE UNCHANGED graph
  BY <1>7, QuietIsUnseen
<1>8. CASE CollectCall \/ HookReturns \/ MarkPhase \/ UNCHANGED vars
  BY <1>7, <1>8 DEF CollectCall, HookReturns, MarkPhase, vars, graph
<1>9. ASSUME NEW kind \in HookKind, RegisterHook(kind) PROVE UNCHANGED graph
  BY <1>9 DEF RegisterHook
<1>. QED
  BY <1>1, <1>2, <1>3, <1>4, <1>5, <1>6, <1>7, <1>8, <1>9 DEF Next, Program, Collection

(* The program starts with nothing in sight.                               *)
LEMMA InitIsIdeal == Init => Ideal!Init
<1>. SUFFICES ASSUME Init PROVE Ideal!Init
  OBVIOUS
<1>1. HeldNow = {}
  BY DEF Init, HeldNow
<1>2. ClosedUpTo({}, Seen, {})
  BY DEF ClosedUpTo
<1>3. Accessible = {}
  BY <1>1, <1>2, WalkInClosedSet DEF Accessible, Reachable, Seen, HeldNow
<1>4. View = [a \in {} |-> Ideal!Blank]
  BY <1>3 DEF View
<1>. QED
  BY <1>4 DEF Init, Ideal!Init

(* The collector implements the heap that never frees: whatever the hooks  *)
(* do under the discipline, no step of any collection, nested or not, is   *)
(* visible to the program; an object changes only when the program changes *)
(* it, and an allocation gives it an address it has no other use for, with *)
(* nothing left over from the last owner.                                  *)
THEOREM CollectorIsIdeal == ASSUME Disciplined PROVE Spec => ImplementsIdealHeap
<1>1. Init => KeysAreAllocated
  BY DEF Init, KeysAreAllocated
<1>2. IInv /\ KeysAreAllocated /\ [Next]_vars => KeysAreAllocated'
  BY KeysNext
<1>3. IInv /\ IInv' /\ KeysAreAllocated /\ [Next]_vars => [Ideal!Next]_<<roots, View>>
  BY NextIsIdeal DEF IInv
<1>. QED
  BY <1>1, <1>2, <1>3, InitIsIdeal, Inductive, PTL DEF Spec, ImplementsIdealHeap, Ideal!Spec
=============================================================================
