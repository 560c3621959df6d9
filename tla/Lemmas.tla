-------------------------------- MODULE Lemmas --------------------------------
(***************************************************************************)
(* Facts about the operators the modules are built from: the closure       *)
(* operators of Reachability, stacks as sequences with their top at the    *)
(* end, and functions that are overridden at a point.                      *)
(***************************************************************************)
EXTENDS Reachability, Naturals, SequencesExt, SequenceTheorems, FiniteSetTheorems,
        WellFoundedInduction, TLAPS

(* A stack without its top, and its top.                                   *)
LEMMA FrontAndLast ==
  ASSUME NEW S, NEW s \in Seq(S), s # <<>>
  PROVE  /\ Len(s) \in Nat \ {0} /\ DOMAIN s = 1 .. Len(s) /\ Len(s) \in DOMAIN s
         /\ Front(s) \in Seq(S) /\ Len(Front(s)) = Len(s) - 1
         /\ DOMAIN Front(s) = 1 .. Len(s) - 1
         /\ \A i \in 1 .. Len(s) - 1 : Front(s)[i] = s[i]
         /\ Last(s) = s[Len(s)] /\ Last(s) \in S
<1>1. Len(s) \in Nat \ {0} /\ DOMAIN s = 1 .. Len(s)
  BY LenProperties, EmptySeq
<1>2. /\ Front(s) \in Seq(S)
      /\ Len(Front(s)) = Len(s) - 1
      /\ \A i \in 1 .. Len(s) - 1 : Front(s)[i] = s[i]
  BY <1>1, SubSeqProperties, SMTT(30) DEF Front
<1>3. DOMAIN Front(s) = 1 .. Len(s) - 1
  BY <1>2, LenProperties
<1>4. Last(s) = s[Len(s)] /\ Last(s) \in S
  BY <1>1, ElementOfSeq DEF Last
<1> QED BY <1>1, <1>2, <1>3, <1>4

(* A stack with one frame more.                                            *)
LEMMA Pushed ==
  ASSUME NEW S, NEW s \in Seq(S), NEW x \in S
  PROVE  LET t == Append(s, x)
         IN  /\ t \in Seq(S) /\ t # <<>> /\ Len(s) \in Nat
             /\ Len(t) = Len(s) + 1 /\ DOMAIN t = 1 .. Len(s) + 1
             /\ DOMAIN s = 1 .. Len(s)
             /\ \A i \in 1 .. Len(s) : t[i] = s[i]
             /\ t[Len(s) + 1] = x /\ Last(t) = x
             /\ Front(t) = s
<1> DEFINE t == Append(s, x)
<1>1. /\ t \in Seq(S) /\ t # <<>> /\ Len(s) \in Nat
      /\ Len(t) = Len(s) + 1 /\ DOMAIN s = 1 .. Len(s) /\ DOMAIN t = 1 .. Len(s) + 1
      /\ \A i \in 1 .. Len(s) : t[i] = s[i]
      /\ t[Len(s) + 1] = x
  BY AppendProperties, LenProperties
<1> HIDE DEF t
<1>2. Last(t) = x BY <1>1 DEF Last
<1>3. Front(t) \in Seq(S) /\ Len(Front(t)) = Len(s) /\ \A i \in 1 .. Len(s) : Front(t)[i] = s[i]
  BY <1>1, FrontAndLast
<1>4. Front(t) = s BY <1>1, <1>3, SeqEqual
<1> QED BY <1>1, <1>2, <1>4 DEF t

(* A stack is what is below its top, and its top.                          *)
LEMMA FrontThenLast ==
  ASSUME NEW S, NEW s \in Seq(S), s # <<>>
  PROVE  s = Append(Front(s), Last(s))
<1>1. /\ Front(s) \in Seq(S) /\ Len(s) \in Nat \ {0}
      /\ Len(Front(s)) = Len(s) - 1
      /\ \A i \in 1 .. Len(s) - 1 : Front(s)[i] = s[i]
      /\ Last(s) = s[Len(s)] /\ Last(s) \in S
  BY FrontAndLast
<1> DEFINE t == Append(Front(s), Last(s))
<1>2. /\ t \in Seq(S) /\ Len(t) = Len(s)
      /\ \A i \in 1 .. Len(s) - 1 : t[i] = s[i]
      /\ t[Len(s)] = s[Len(s)]
  BY <1>1, AppendProperties
<1> HIDE DEF t
<1>3. \A i \in 1 .. Len(s) : t[i] = s[i] BY <1>1, <1>2
<1>4. s = t BY <1>2, <1>3, SeqEqual
<1> QED BY <1>4 DEF t

(* A set of numbers has a least one.                                       *)
LEMMA LeastOf ==
  ASSUME NEW T \in SUBSET Nat, T # {}
  PROVE  \E i \in T : \A j \in T : i <= j
<1> DEFINE R == OpToRel(<, Nat)
<1>1. IsWellFoundedOn(R, Nat) BY NatLessThanWellFounded
<1>2. \A x, y \in Nat : <<x, y>> \in R <=> x < y BY DEF OpToRel
<1> HIDE DEF R
<1>3. PICK i \in T : \A j \in T : ~(<<j, i>> \in R) BY <1>1, WFMin
<1>4. \A j \in T : ~(j < i) BY <1>2, <1>3
<1> QED BY <1>3, <1>4

(* A choice among the first numbers is finite.                             *)
LEMMA FirstAreFinite ==
  ASSUME NEW n \in Nat, NEW A, A \subseteq 1 .. n
  PROVE  IsFiniteSet(A) /\ Cardinality(A) \in Nat
<1>1. IsFiniteSet(1 .. n) BY FS_Interval
<1> QED BY <1>1, FS_Subset, FS_CardinalityType

-----------------------------------------------------------------------------
(* A walk stays inside the heap.                                           *)
LEMMA WalkInHeap ==
  ASSUME NEW H, NEW R, NEW g, NEW stop
  PROVE  WalkFrom(H, R, g, stop) \in SUBSET H
BY DEF WalkFrom

(* A walk stays inside every closed set that contains its roots: the way   *)
(* to bound what is reachable.                                             *)
LEMMA WalkInClosedSet ==
  ASSUME NEW H, NEW R, NEW g, NEW stop,
         NEW C \in SUBSET H, R \subseteq C, ClosedUpTo(C, g, stop)
  PROVE  WalkFrom(H, R, g, stop) \subseteq C
BY DEF WalkFrom, ClosedSets

(* A walk meets its roots.                                                 *)
LEMMA WalkMeetsRoots ==
  ASSUME NEW H, NEW R \in SUBSET H, NEW g, NEW stop
  PROVE  R \subseteq WalkFrom(H, R, g, stop)
BY DEF WalkFrom, ClosedSets

(* What a walk meets is closed: no reference leads out of it.              *)
LEMMA WalkIsClosed ==
  ASSUME NEW H, NEW R, NEW stop, NEW g \in [H -> SUBSET H]
  PROVE  ClosedUpTo(WalkFrom(H, R, g, stop), g, stop)
<1>1. SUFFICES ASSUME NEW a \in WalkFrom(H, R, g, stop) \ stop,
                      NEW b \in g[a]
               PROVE  b \in WalkFrom(H, R, g, stop)
  BY DEF ClosedUpTo
<1>2. a \in H /\ b \in H
  BY DEF WalkFrom
<1>3. ASSUME NEW C \in ClosedSets(H, R, g, stop)
      PROVE  b \in C
  BY <1>1 DEF WalkFrom, ClosedSets, ClosedUpTo
<1>. QED
  BY <1>2, <1>3 DEF WalkFrom

(* A walk needs to know the references of a set it cannot leave, and no    *)
(* others.                                                                 *)
LEMMA WalkWithin ==
  ASSUME NEW H, NEW R, NEW g \in [H -> SUBSET H],
         NEW D \in SUBSET H, R \subseteq D, NEW f \in [D -> SUBSET D],
         \A a \in D : f[a] = g[a]
  PROVE  Reachable(D, R, f) = Reachable(H, R, g)
<1> DEFINE V == Reachable(D, R, f)
           W == Reachable(H, R, g)
<1>1. R \in SUBSET D /\ R \in SUBSET H
  OBVIOUS
<1>2. V \in SUBSET D /\ R \subseteq V /\ ClosedUpTo(V, f, {})
  BY <1>1, WalkInHeap, WalkMeetsRoots, WalkIsClosed DEF Reachable
<1>3. W \in SUBSET H /\ R \subseteq W /\ ClosedUpTo(W, g, {})
  BY <1>1, WalkInHeap, WalkMeetsRoots, WalkIsClosed DEF Reachable
<1>4. W \subseteq D
  <2>1. ClosedUpTo(D, g, {})
    BY DEF ClosedUpTo
  <2>. QED
    BY <2>1, WalkInClosedSet DEF Reachable
<1>. HIDE DEF V, W
<1>5. ClosedUpTo(V, g, {}) /\ V \in SUBSET H
  BY <1>2 DEF ClosedUpTo
<1>6. ClosedUpTo(W, f, {}) /\ W \in SUBSET D
  BY <1>3, <1>4 DEF ClosedUpTo
<1>7. Reachable(H, R, g) \subseteq V
  BY <1>2, <1>5, WalkInClosedSet DEF Reachable
<1>8. Reachable(D, R, f) \subseteq W
  BY <1>3, <1>6, WalkInClosedSet DEF Reachable
<1>. QED
  BY <1>7, <1>8 DEF V, W
=============================================================================
