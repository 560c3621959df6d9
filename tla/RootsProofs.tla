------------------------------ MODULE RootsProofs ------------------------------
(***************************************************************************)
(* For every set of forms, depth of the Rust stack, number of objects and  *)
(* of continuations: the slots of an evaluation stand, a source holds one  *)
(* root, and, as long as no replay sees two collections, nothing is freed  *)
(* that a waiting frame is going to use.                                   *)
(***************************************************************************)
EXTENDS Roots, Lemmas

Does == {"", "tail", "fn", "settled", "pair", "iter", "call/cc", "throw", "call", "apply",
         "next", "step", "empty?"}
Lists   == {"args", "resume-args"}
Resumes == {"resume-body", "resume-args"}
Idle    == {"top", "source", "call", "iter", "call/cc", "replay"}
Slots(f) == f.fn = "eval" \/ (f.fn = "body" /\ f.does = "fn")

(* The values a call needs, and the argument lists that will have them.    *)
Arity(does) ==
  IF does = "iter" THEN 2
  ELSE IF does \in {"call/cc", "throw", "next", "step", "empty?"} THEN 1 ELSE 0
Enough(vals, left, does) == Len(vals) + left >= Arity(does)

(* Records and frames of objects of `A'.                                   *)
RecordOf(A) ==
  {r \in [what : Does \cup {"body", "def"}, callee : A, vals : Seq(A), form : A, env : A,
          left : Nat, depth : Nat] : Enough(r.vals, r.left + 1, r.what)}
FrameOf(A) ==
  [fn : FrameKind, does : Does, form : A, env : A, left : Nat, callee : Obj, vals : Seq(Obj),
   recs : Seq(RecordOf(A)), mark : Nat, emark : Nat]

(* The frame `f' refers to objects of `A', and, if it is a replay that has *)
(* seen no collection, to objects of `S', which the snapshots name.        *)
Usable(f, A, S) ==
  /\ f \in FrameOf(A)
  /\ f.fn \in Lists => /\ f.callee \in A /\ f.vals \in Seq(A)
                       /\ Enough(f.vals, f.left + 1, f.does)
  /\ f.fn \notin Lists \cup {"iter", "call/cc"} => f.callee = Base /\ f.vals = <<>>
  /\ f.fn \in Idle => f.form = Base /\ f.env = Base
  /\ f.fn # "replay" => f.recs = <<>>
  /\ f.fn = "replay" /\ f.left = 0 => f.recs \in Seq(RecordOf(S))

(* Where a frame's roots begin, and what of them is its own.               *)
Floor(f)  == IF f.fn = "source" THEN f.mark - 1 ELSE f.mark
Ceil(f)   == IF f.fn = "eval" THEN f.mark + 1 ELSE f.mark
EnvEnd(f) == IF Slots(f) THEN f.emark + 1 ELSE f.emark

(* What `f' has rooted among the first `n' of the roots `rts', and among   *)
(* the environments `ers'.                                                 *)
Rooted(f, rts, n) ==
  /\ Ceil(f) <= n
  /\ f.fn \in {"source", "args"} => f.mark > 0
  /\ f.fn = "eval" => rts[f.mark + 1] = f.form
  /\ f.fn = "args" => rts[f.mark] = f.callee
  /\ f.fn \in {"args", "guard", "def"} => \E p \in 1 .. n : rts[p] = f.form
  /\ f.fn \in Lists => \A j \in DOMAIN f.vals : \E p \in 1 .. n : rts[p] = f.vals[j]
EnvRooted(f, ers) ==
  /\ Slots(f) => ers[f.emark + 1] = f.env
  /\ f.fn = "args" => \E p \in 1 .. f.emark : ers[p] = f.env

(* `f' waits directly on `g'.                                              *)
WaitsOn(f, g, S) ==
  /\ f.fn # "top" /\ f.emark = EnvEnd(g)
  /\ g.fn = "body" => g.left > 0
  /\ f.fn \in Resumes => /\ g.fn = "replay"
                         /\ g.left = 0 => {f.callee, f.form, f.env} \subseteq S

(* The stack `st' and the two root stacks: every frame finds its roots     *)
(* below the floor of the next.                                            *)
Limit(st, rts, i) == IF i = Len(st) THEN Len(rts) ELSE Floor(st[i + 1])
Stacked(st, rts, ers, A, S) ==
  /\ st \in Seq(FrameOf(A)) /\ rts \in Seq(A) /\ ers \in Seq(A)
  /\ \A i \in 1 .. Len(st) : /\ Usable(st[i], A, S)
                             /\ Rooted(st[i], rts, Limit(st, rts, i))
                             /\ EnvRooted(st[i], ers)
  /\ \A i, j \in 1 .. Len(st) : i < j => /\ Ceil(st[i]) <= Floor(st[j])
                                         /\ EnvEnd(st[i]) <= st[j].emark
  /\ \A i \in 2 .. Len(st) : WaitsOn(st[i], st[i - 1], S)
  /\ st # <<>> => st[1].fn = "top" /\ st[1].mark = 0 /\ st[1].emark = 0
  /\ Len(ers) = IF st = <<>> THEN 0 ELSE EnvEnd(st[Len(st)])

(* The heap, what is handed to the innermost frame, and the snapshots.     *)
Answers == {"nothing", "ok", "tail", "raise", "escape"}
NodeOf(A)        == [kind : Kind, refs : SUBSET A, up : A]
HeapOf(hp, A)    == hp \in [Obj -> NodeOf(A)]
AnswerOf(an, A)  == an \in [is : Answers, v : A, env : Obj] /\ (an.is = "tail" => an.env \in A)
SnapsOf(sn, A, S) ==
  /\ DOMAIN sn \subseteq Ids
  /\ \A k \in DOMAIN sn : sn[k].recs \in Seq(RecordOf(A)) /\ sn[k].recs \in Seq(RecordOf(S))
DataOf(hp, an, sn, A, S) ==
  /\ A \in SUBSET Obj /\ Base \in A /\ S \in SUBSET Obj /\ Base \in S
  /\ HeapOf(hp, A) /\ AnswerOf(an, A) /\ SnapsOf(sn, A, S)

(* A source that reads its next form holds one root; a list that reads its *)
(* next value, or calls, will have enough.                                 *)
Rests(st, rts, an) ==
  an = Nothing =>
    /\ Last(st).fn \in {"top", "source"} => Len(rts) <= Last(st).mark + 1
    /\ Last(st).fn \in Lists => Enough(Last(st).vals, Last(st).left, Last(st).does)

(* The inductive invariants: with every object for `A', and with those     *)
(* that are not free.                                                      *)
Holds(st, rts, ers, hp, an, sn, A, S) ==
  st # <<>> /\ Stacked(st, rts, ers, A, S) /\ DataOf(hp, an, sn, A, S) /\ Rests(st, rts, an)

IInv == Holds(stack, roots, envRoots, heap, ans, snaps, Obj, Obj)

Alive(hp) == {o \in Obj : hp[o].kind # "free"}
Kept(sn)  == {Base} \cup UNION {UNION {Named(r) : r \in Range(sn[k].recs)} : k \in DOMAIN sn}
JInv == Holds(stack, roots, envRoots, heap, ans, snaps, Alive(heap), Kept(snaps))

-----------------------------------------------------------------------------
(* Sequences that agree, and what is cut.                                  *)
Agree(r, s, n) == n <= Len(r) /\ n <= Len(s) /\ \A p \in 1 .. n : r[p] = s[p]

LEMMA CutFacts ==
  ASSUME NEW A, NEW s \in Seq(A), NEW n \in Nat, n <= Len(s)
  PROVE  /\ Cut(s, n) \in Seq(A) /\ Len(Cut(s, n)) = n
         /\ Agree(Cut(s, n), s, n)
<1>1. Len(s) \in Nat BY LenProperties
<1>2. CASE n < Len(s)
  <2>1. Cut(s, n) = SubSeq(s, 1, n) BY <1>2 DEF Cut
  <2>2. 1 .. n \subseteq DOMAIN s BY <1>1, <1>2, LenProperties
  <2> QED BY <1>1, <1>2, <2>1, <2>2, SubSeqProperties DEF Agree
<1>3. CASE n = Len(s) BY <1>1, <1>3 DEF Cut, Agree
<1> QED BY <1>1, <1>2, <1>3

(* Pushing on a root stack disturbs nothing.                               *)
LEMMA PushFacts ==
  ASSUME NEW A, NEW s \in Seq(A), NEW x \in A
  PROVE  /\ Append(s, x) \in Seq(A) /\ Len(Append(s, x)) = Len(s) + 1 /\ Len(s) \in Nat
         /\ Append(s, x)[Len(s) + 1] = x
         /\ \A n \in Nat : n <= Len(s) => Agree(Append(s, x), s, n)
BY Pushed, LenProperties DEF Agree

LEMMA JoinFacts ==
  ASSUME NEW A, NEW s \in Seq(A), NEW t \in Seq(A)
  PROVE  /\ s \o t \in Seq(A) /\ Len(s \o t) = Len(s) + Len(t) /\ Len(s) \in Nat /\ Len(t) \in Nat
         /\ \A p \in 1 .. Len(t) : (s \o t)[Len(s) + p] = t[p]
         /\ \A n \in Nat : n <= Len(s) => Agree(s \o t, s, n)
<1>1. /\ s \o t \in Seq(A) /\ Len(s \o t) = Len(s) + Len(t) /\ Len(s) \in Nat /\ Len(t) \in Nat
      /\ \A p \in 1 .. Len(s) + Len(t) : (s \o t)[p] = IF p <= Len(s) THEN s[p] ELSE t[p - Len(s)]
  BY ConcatProperties, LenProperties
<1>2. \A p \in 1 .. Len(t) : (s \o t)[Len(s) + p] = t[p] BY <1>1
<1> QED BY <1>1, <1>2 DEF Agree

LEMMA AgreeTrans ==
  ASSUME NEW r, NEW s, NEW t, NEW m, NEW n, Agree(r, s, m), Agree(s, t, n),
         m \in Nat, n \in Nat, n <= m, Len(r) \in Nat
  PROVE  Agree(r, t, n)
BY DEF Agree

LEMMA AgreeSelf ==
  ASSUME NEW A, NEW s \in Seq(A)
  PROVE  Len(s) \in Nat /\ \A n \in Nat : n <= Len(s) => Agree(s, s, n)
BY LenProperties DEF Agree

-----------------------------------------------------------------------------
(* Frames.                                                                 *)
LEMMA FrameTypes ==
  ASSUME NEW A, NEW f \in FrameOf(A)
  PROVE  /\ f.fn \in FrameKind /\ f.does \in Does /\ f.form \in A /\ f.env \in A
         /\ f.left \in Nat /\ f.callee \in Obj /\ f.vals \in Seq(Obj)
         /\ f.recs \in Seq(RecordOf(A)) /\ f.mark \in Nat /\ f.emark \in Nat
BY DEF FrameOf

(* A frame's limits.                                                       *)
LEMMA FrameLimits ==
  ASSUME NEW A, NEW S, NEW f, NEW r, NEW n, Usable(f, A, S), Rooted(f, r, n)
  PROVE  /\ Floor(f) \in Nat /\ Ceil(f) \in Nat /\ EnvEnd(f) \in Nat
         /\ Floor(f) <= Ceil(f) /\ f.emark <= EnvEnd(f) /\ f.emark \in Nat /\ f.mark \in Nat
<1>1. f.mark \in Nat /\ f.emark \in Nat BY FrameTypes DEF Usable
<1>2. f.fn = "source" => f.mark > 0 /\ f.fn # "eval" BY DEF Rooted
<1>3. Floor(f) \in Nat /\ Ceil(f) \in Nat /\ Floor(f) <= Ceil(f) BY <1>1, <1>2 DEF Floor, Ceil
<1>4. EnvEnd(f) \in Nat /\ f.emark <= EnvEnd(f) BY <1>1 DEF EnvEnd
<1> QED BY <1>1, <1>3, <1>4

(* What is rooted among the first `n' stays so.                            *)
LEMMA RootedStays ==
  ASSUME NEW A, NEW S, NEW f, NEW r, NEW s, NEW n \in Nat, NEW m \in Nat, Usable(f, A, S),
         Rooted(f, r, n), n <= m, Agree(s, r, n)
  PROVE  Rooted(f, s, m)
<1>1. f.mark \in Nat /\ Ceil(f) \in Nat /\ Ceil(f) <= n /\ f.mark <= Ceil(f)
  BY FrameTypes DEF Usable, Rooted, Ceil
<1>2. Ceil(f) <= m BY <1>1
<1>3. \A p \in 1 .. n : p \in 1 .. m /\ s[p] = r[p] BY DEF Agree
<1>4. f.fn = "eval" => s[f.mark + 1] = f.form
  <2> SUFFICES ASSUME f.fn = "eval" PROVE s[f.mark + 1] = f.form
    OBVIOUS
  <2>1. f.mark + 1 \in 1 .. n BY <1>1 DEF Ceil
  <2> QED BY <1>3, <2>1 DEF Rooted
<1>5. f.fn = "args" => s[f.mark] = f.callee
  <2> SUFFICES ASSUME f.fn = "args" PROVE s[f.mark] = f.callee
    OBVIOUS
  <2>1. f.mark \in 1 .. n BY <1>1 DEF Rooted
  <2> QED BY <1>3, <2>1 DEF Rooted
<1>6. f.fn \in {"args", "guard", "def"} => \E p \in 1 .. m : s[p] = f.form
  <2> SUFFICES ASSUME f.fn \in {"args", "guard", "def"} PROVE \E p \in 1 .. m : s[p] = f.form
    OBVIOUS
  <2>1. PICK p \in 1 .. n : r[p] = f.form BY DEF Rooted
  <2> QED BY <1>3, <2>1
<1>7. f.fn \in Lists => \A j \in DOMAIN f.vals : \E p \in 1 .. m : s[p] = f.vals[j]
  <2> SUFFICES ASSUME f.fn \in Lists, NEW j \in DOMAIN f.vals
               PROVE  \E p \in 1 .. m : s[p] = f.vals[j]
    OBVIOUS
  <2>1. PICK p \in 1 .. n : r[p] = f.vals[j] BY DEF Rooted
  <2> QED BY <1>3, <2>1
<1> QED BY <1>2, <1>4, <1>5, <1>6, <1>7 DEF Rooted

LEMMA EnvRootedStays ==
  ASSUME NEW A, NEW S, NEW f, NEW r, NEW s, NEW n \in Nat, Usable(f, A, S),
         EnvRooted(f, r), EnvEnd(f) <= n, Agree(s, r, n)
  PROVE  EnvRooted(f, s)
<1>1. f.emark \in Nat BY FrameTypes DEF Usable
<1>2. \A p \in 1 .. n : s[p] = r[p] BY DEF Agree
<1>3. Slots(f) => s[f.emark + 1] = f.env
  <2> SUFFICES ASSUME Slots(f) PROVE s[f.emark + 1] = f.env
    OBVIOUS
  <2>1. f.emark + 1 \in 1 .. n BY <1>1 DEF EnvEnd
  <2> QED BY <1>2, <2>1 DEF EnvRooted
<1>4. f.fn = "args" => \E p \in 1 .. f.emark : s[p] = f.env
  <2> SUFFICES ASSUME f.fn = "args" PROVE \E p \in 1 .. f.emark : s[p] = f.env
    OBVIOUS
  <2>1. f.emark <= n BY <1>1 DEF EnvEnd
  <2>2. PICK p \in 1 .. f.emark : r[p] = f.env BY DEF EnvRooted
  <2>3. p \in 1 .. n BY <1>1, <2>1, <2>2
  <2> QED BY <1>2, <2>2, <2>3
<1> QED BY <1>3, <1>4 DEF EnvRooted

-----------------------------------------------------------------------------
(* Frames come and go.                                                     *)

(* What a frame on top must be.                                            *)
Fits(f, rts, ers, A, S) ==
  /\ Usable(f, A, S) /\ Rooted(f, rts, Len(rts)) /\ EnvRooted(f, ers)
  /\ Len(ers) = EnvEnd(f)

(* The frame on top, and where its roots begin.                            *)
LEMMA TopFacts ==
  ASSUME NEW A, NEW S, NEW st, NEW rts, NEW ers, Stacked(st, rts, ers, A, S), st # <<>>
  PROVE  /\ Len(st) \in Nat \ {0} /\ Last(st) = st[Len(st)] /\ Last(st) \in FrameOf(A)
         /\ rts \in Seq(A) /\ ers \in Seq(A) /\ Len(rts) \in Nat /\ Len(ers) \in Nat
         /\ Fits(Last(st), rts, ers, A, S)
         /\ Floor(Last(st)) \in Nat /\ Ceil(Last(st)) \in Nat /\ EnvEnd(Last(st)) \in Nat
         /\ Floor(Last(st)) <= Ceil(Last(st)) /\ Ceil(Last(st)) <= Len(rts)
         /\ Last(st).emark \in Nat /\ Last(st).emark <= Len(ers) /\ Last(st).mark \in Nat
         /\ (Last(st).fn = "top" => Len(st) = 1 /\ Last(st).mark = 0 /\ Last(st).emark = 0)
         /\ (Last(st).fn \in Resumes => Len(st) > 1)
<1>1. st \in Seq(FrameOf(A)) /\ rts \in Seq(A) /\ ers \in Seq(A) BY DEF Stacked
<1>2. Len(st) \in Nat \ {0} /\ Last(st) = st[Len(st)] /\ Last(st) \in FrameOf(A)
  BY <1>1, FrontAndLast
<1>3. Len(rts) \in Nat /\ Len(ers) \in Nat BY <1>1, LenProperties
<1>4. Len(st) \in 1 .. Len(st) BY <1>2
<1>5. Limit(st, rts, Len(st)) = Len(rts) BY DEF Limit
<1>6. /\ Usable(st[Len(st)], A, S) /\ Rooted(st[Len(st)], rts, Limit(st, rts, Len(st)))
      /\ EnvRooted(st[Len(st)], ers)
  BY <1>4 DEF Stacked
<1>7. Fits(Last(st), rts, ers, A, S) BY <1>2, <1>5, <1>6 DEF Fits, Stacked
<1>8. Ceil(Last(st)) <= Len(rts) BY <1>7 DEF Fits, Rooted
<1>9. st[1].fn = "top" /\ st[1].mark = 0 /\ st[1].emark = 0 BY DEF Stacked
<1>10. Len(st) # 1 => Last(st).fn # "top"
  <2> SUFFICES ASSUME Len(st) # 1 PROVE Last(st).fn # "top"
    OBVIOUS
  <2>1. Len(st) \in 2 .. Len(st)
    <3> DEFINE n == Len(st)
    <3>1. n \in Nat \ {0} /\ n # 1 BY <1>2
    <3> HIDE DEF n
    <3>2. n \in 2 .. n BY <3>1
    <3> QED BY <3>2 DEF n
  <2>2. WaitsOn(st[Len(st)], st[Len(st) - 1], S) BY <2>1 DEF Stacked
  <2> QED BY <1>2, <2>2 DEF WaitsOn
<1>11. Len(st) = 1 => Last(st).fn = "top" /\ Last(st).mark = 0 /\ Last(st).emark = 0
  BY <1>2, <1>9
<1>12. Last(st).fn \in Resumes => Len(st) > 1
  <2>1. CASE Len(st) = 1 BY <1>11, <2>1 DEF Resumes
  <2>2. CASE Len(st) # 1
    <3> DEFINE n == Len(st)
    <3>1. n \in Nat \ {0} /\ n # 1 BY <1>2, <2>2
    <3> HIDE DEF n
    <3>2. n > 1 BY <3>1
    <3> QED BY <3>2 DEF n
  <2> QED BY <2>1, <2>2
<1>13. /\ Floor(Last(st)) \in Nat /\ Ceil(Last(st)) \in Nat /\ EnvEnd(Last(st)) \in Nat
       /\ Floor(Last(st)) <= Ceil(Last(st)) /\ Last(st).emark <= EnvEnd(Last(st))
       /\ Last(st).emark \in Nat /\ Last(st).mark \in Nat
  BY <1>7, FrameLimits DEF Fits
<1>14. Len(ers) = EnvEnd(Last(st)) BY <1>7 DEF Fits
<1> QED BY <1>1, <1>2, <1>3, <1>7, <1>8, <1>10, <1>11, <1>12, <1>13, <1>14

(* The frame on top returns: what lies above its marks is cut, or left.    *)
LEMMA PopKeeps ==
  ASSUME NEW A, NEW S, NEW st, NEW rts, NEW ers, Stacked(st, rts, ers, A, S), st # <<>>,
         NEW r \in Seq(A), NEW e \in Seq(A),
         Agree(r, rts, Floor(Last(st))), Agree(e, ers, Last(st).emark), Len(e) = Last(st).emark
  PROVE  Stacked(Front(st), r, e, A, S)
<1> DEFINE t == Front(st)
           N == Len(st)
<1>1. /\ N \in Nat \ {0} /\ Last(st) = st[N] /\ Floor(st[N]) \in Nat /\ st[N].emark \in Nat
  BY TopFacts
<1>2. st \in Seq(FrameOf(A)) BY DEF Stacked
<1>3. t \in Seq(FrameOf(A)) /\ Len(t) = N - 1 /\ \A i \in 1 .. N - 1 : t[i] = st[i]
  BY <1>2, FrontAndLast
<1> HIDE DEF t, N
<1>4. Len(r) \in Nat /\ Floor(st[N]) <= Len(r) BY <1>1, LenProperties DEF Agree
<1>5. \A i \in 1 .. N : /\ Usable(st[i], A, S) /\ Rooted(st[i], rts, Limit(st, rts, i))
                        /\ EnvRooted(st[i], ers)
  BY DEF Stacked, N
<1>6. \A i, j \in 1 .. N : i < j => Ceil(st[i]) <= Floor(st[j]) /\ EnvEnd(st[i]) <= st[j].emark
  BY DEF Stacked, N
<1>7. ASSUME NEW i \in 1 .. N - 1
      PROVE  Usable(t[i], A, S) /\ Rooted(t[i], r, Limit(t, r, i)) /\ EnvRooted(t[i], e)
  <2>1. i \in 1 .. N /\ i + 1 \in 1 .. N /\ N \in 1 .. N /\ i < N /\ t[i] = st[i] BY <1>1, <1>3
  <2>2. Limit(st, rts, i) = Floor(st[i + 1]) BY <2>1 DEF Limit, N
  <2>3. Usable(t[i], A, S) /\ Rooted(t[i], rts, Floor(st[i + 1])) /\ EnvRooted(t[i], ers)
    BY <1>5, <2>1, <2>2
  <2>4. EnvRooted(t[i], e)
    <3>1. EnvEnd(st[i]) <= st[N].emark BY <1>6, <2>1
    <3>2. Agree(e, ers, st[N].emark) BY <1>1
    <3> QED BY <1>1, <2>1, <2>3, <3>1, <3>2, EnvRootedStays
  <2>5. Floor(st[i + 1]) \in Nat
    BY <1>5, <2>1, FrameLimits
  <2>6. CASE i = N - 1
    <3>1. Limit(t, r, i) = Len(r) BY <1>3, <2>6 DEF Limit
    <3>2. i + 1 = N BY <1>1, <2>6
    <3>3. Agree(r, rts, Floor(st[i + 1])) BY <1>1, <3>2
    <3>4. Floor(st[i + 1]) <= Len(r) BY <3>3 DEF Agree
    <3>5. Rooted(t[i], r, Len(r)) BY <1>4, <2>3, <2>5, <3>3, <3>4, RootedStays
    <3> QED BY <2>3, <2>4, <3>1, <3>5
  <2>7. CASE i # N - 1
    <3>1. i + 1 \in 1 .. N - 1 /\ i + 1 < N BY <1>1, <2>7
    <3>2. Limit(t, r, i) = Floor(st[i + 1]) BY <1>3, <2>7, <3>1 DEF Limit
    <3>3. Floor(st[i + 1]) <= Floor(st[N])
      <4>1. Ceil(st[i + 1]) <= Floor(st[N]) BY <1>6, <2>1, <3>1
      <4>2. Floor(st[i + 1]) <= Ceil(st[i + 1]) /\ Ceil(st[i + 1]) \in Nat
        BY <1>5, <2>1, FrameLimits
      <4> QED BY <1>1, <2>5, <4>1, <4>2
    <3>4. Agree(r, rts, Floor(st[i + 1])) BY <1>1, <1>4, <2>5, <3>3 DEF Agree
    <3>5. Rooted(t[i], r, Floor(st[i + 1])) BY <2>3, <2>5, <3>4, RootedStays
    <3> QED BY <2>3, <2>4, <3>2, <3>5
  <2> QED BY <2>6, <2>7
<1>8. \A i, j \in 1 .. N - 1 : i < j => Ceil(t[i]) <= Floor(t[j]) /\ EnvEnd(t[i]) <= t[j].emark
  <2> TAKE i, j \in 1 .. N - 1
  <2>1. i \in 1 .. N /\ j \in 1 .. N /\ t[i] = st[i] /\ t[j] = st[j] BY <1>1, <1>3
  <2> QED BY <1>6, <2>1
<1>9. \A i \in 2 .. N - 1 : WaitsOn(t[i], t[i - 1], S)
  <2> TAKE i \in 2 .. N - 1
  <2>1. i \in 2 .. N /\ t[i] = st[i] /\ t[i - 1] = st[i - 1] BY <1>1, <1>3
  <2> QED BY <2>1 DEF Stacked, N
<1>10. t # <<>> => t[1].fn = "top" /\ t[1].mark = 0 /\ t[1].emark = 0
  <2> SUFFICES ASSUME t # <<>> PROVE t[1].fn = "top" /\ t[1].mark = 0 /\ t[1].emark = 0
    OBVIOUS
  <2>1. Len(t) # 0 BY <1>3, EmptySeq
  <2>2. t[1] = st[1] BY <1>1, <1>3, <2>1
  <2> QED BY <2>2 DEF Stacked
<1>11. Len(e) = IF t = <<>> THEN 0 ELSE EnvEnd(t[Len(t)])
  <2>1. CASE t = <<>>
    <3>1. N = 1 BY <1>1, <1>3, <2>1, EmptySeq
    <3>2. st[1].emark = 0 BY DEF Stacked
    <3> QED BY <1>1, <2>1, <3>1, <3>2
  <2>2. CASE t # <<>>
    <3>1. N \in 2 .. N /\ Len(t) = N - 1 /\ N - 1 \in 1 .. N - 1
      BY <1>1, <1>3, <2>2, EmptySeq
    <3>2. st[N].emark = EnvEnd(st[N - 1]) BY <3>1 DEF Stacked, WaitsOn, N
    <3> QED BY <1>1, <1>3, <2>2, <3>1, <3>2
  <2> QED BY <2>1, <2>2
<1>12. 1 .. Len(t) = 1 .. N - 1 /\ 2 .. Len(t) = 2 .. N - 1 BY <1>3
<1>13. Stacked(t, r, e, A, S) BY <1>3, <1>7, <1>8, <1>9, <1>10, <1>11, <1>12 DEF Stacked
<1> QED BY <1>13 DEF t

(* `f' begins above the roots there are, as what the top of `st' waits for.*)
Follows(f, st, rts, ers, S) ==
  /\ Len(rts) <= Floor(f) /\ f.emark = Len(ers)
  /\ f.fn = "top" <=> st = <<>>
  /\ f.fn = "top" => f.mark = 0
  /\ st # <<>> /\ Last(st).fn = "body" => Last(st).left > 0
  /\ f.fn \in Resumes => /\ st # <<>> /\ Last(st).fn = "replay"
                         /\ Last(st).left = 0 => {f.callee, f.form, f.env} \subseteq S

LEMMA PushKeeps ==
  ASSUME NEW A, NEW S, NEW st, NEW rts, NEW ers, Stacked(st, rts, ers, A, S),
         NEW f, NEW r \in Seq(A), NEW e \in Seq(A), Fits(f, r, e, A, S),
         Agree(r, rts, Len(rts)), Agree(e, ers, Len(ers)), Follows(f, st, rts, ers, S)
  PROVE  Stacked(Append(st, f), r, e, A, S)
<1> DEFINE t == Append(st, f)
           N == Len(st)
<1>1. st \in Seq(FrameOf(A)) /\ rts \in Seq(A) /\ ers \in Seq(A) BY DEF Stacked
<1>2. f \in FrameOf(A) /\ Usable(f, A, S) /\ Rooted(f, r, Len(r)) BY DEF Fits, Usable
<1>a. /\ Len(rts) <= Floor(f) /\ f.emark = Len(ers)
      /\ st = <<>> => f.fn = "top" /\ f.mark = 0
      /\ st # <<>> => f.fn # "top"
      /\ st # <<>> /\ Last(st).fn = "body" => Last(st).left > 0
      /\ f.fn \in Resumes => /\ st # <<>> /\ Last(st).fn = "replay"
                             /\ Last(st).left = 0 => {f.callee, f.form, f.env} \subseteq S
  BY DEF Follows
<1>3. /\ t \in Seq(FrameOf(A)) /\ N \in Nat /\ Len(t) = N + 1 /\ t # <<>> /\ t[N + 1] = f
      /\ \A i \in 1 .. N : t[i] = st[i]
  BY <1>1, <1>2, Pushed
<1>4. Len(rts) \in Nat /\ Len(ers) \in Nat /\ Len(r) \in Nat /\ Len(e) \in Nat
  BY <1>1, LenProperties
<1>5. Floor(f) \in Nat BY <1>2, FrameLimits
<1> HIDE DEF t, N
<1>6. \A i \in 1 .. N : /\ Usable(st[i], A, S) /\ Rooted(st[i], rts, Limit(st, rts, i))
                        /\ EnvRooted(st[i], ers)
  BY DEF Stacked, N
<1>7. \A i, j \in 1 .. N : i < j => Ceil(st[i]) <= Floor(st[j]) /\ EnvEnd(st[i]) <= st[j].emark
  BY DEF Stacked, N
<1>8. N > 0 => st # <<>> /\ Last(st) = st[N] /\ Ceil(st[N]) <= Len(rts) /\ EnvEnd(st[N]) = Len(ers)
              /\ Floor(st[N]) <= Ceil(st[N]) /\ Floor(st[N]) \in Nat /\ Ceil(st[N]) \in Nat
              /\ st[N].emark \in Nat /\ EnvEnd(st[N]) \in Nat /\ st[N].emark <= EnvEnd(st[N])
  <2> SUFFICES ASSUME N > 0 PROVE st # <<>> /\ Last(st) = st[N] /\ Ceil(st[N]) <= Len(rts)
               /\ EnvEnd(st[N]) = Len(ers) /\ Floor(st[N]) <= Ceil(st[N]) /\ Floor(st[N]) \in Nat
               /\ Ceil(st[N]) \in Nat
               /\ st[N].emark \in Nat /\ EnvEnd(st[N]) \in Nat /\ st[N].emark <= EnvEnd(st[N])
    OBVIOUS
  <2>1. st # <<>> BY <1>1, EmptySeq DEF N
  <2> QED BY <2>1, TopFacts DEF N, Fits
<1>9. ASSUME NEW i \in 1 .. N
      PROVE  Ceil(st[i]) <= Len(rts) /\ EnvEnd(st[i]) <= Len(ers)
  <2>1. CASE i = N BY <1>3, <1>4, <1>8, <2>1
  <2>2. CASE i # N
    <3>1. i < N /\ N \in 1 .. N /\ N > 0 BY <1>3, <2>2
    <3>2. Ceil(st[i]) <= Floor(st[N]) /\ EnvEnd(st[i]) <= st[N].emark BY <1>7, <3>1
    <3>3. Ceil(st[i]) \in Nat /\ EnvEnd(st[i]) \in Nat BY <1>6, FrameLimits
    <3> QED BY <1>4, <1>8, <3>1, <3>2, <3>3
  <2> QED BY <2>1, <2>2
<1>10. ASSUME NEW i \in 1 .. N + 1
       PROVE  Usable(t[i], A, S) /\ Rooted(t[i], r, Limit(t, r, i)) /\ EnvRooted(t[i], e)
  <2>1. CASE i = N + 1
    <3>1. Limit(t, r, i) = Len(r) BY <1>3, <2>1 DEF Limit
    <3> QED BY <1>2, <1>3, <2>1, <3>1 DEF Fits
  <2>2. CASE i # N + 1
    <3>1. i \in 1 .. N /\ t[i] = st[i] BY <1>3, <2>2
    <3>2. EnvRooted(t[i], e) BY <1>4, <1>6, <1>9, <3>1, EnvRootedStays
    <3>3. CASE i = N
      <4>1. Limit(t, r, i) = Floor(f) /\ Limit(st, rts, i) = Len(rts) BY <1>3, <3>1, <3>3 DEF Limit, N
      <4>2. Agree(r, rts, Len(rts)) OBVIOUS
      <4>3. Usable(st[i], A, S) /\ Rooted(st[i], rts, Len(rts)) BY <1>6, <3>1, <4>1
      <4>4. Rooted(st[i], r, Floor(f)) BY <1>a, <1>4, <1>5, <4>2, <4>3, RootedStays
      <4> QED BY <1>6, <3>1, <3>2, <4>1, <4>4
    <3>4. CASE i # N
      <4>1. i + 1 \in 1 .. N /\ i + 1 # N + 1 BY <1>3, <3>1, <3>4
      <4>2. Limit(t, r, i) = Floor(st[i + 1]) /\ Limit(st, rts, i) = Floor(st[i + 1])
        BY <1>3, <3>1, <3>4, <4>1 DEF Limit, N
      <4>3. Usable(st[i], A, S) /\ Rooted(st[i], rts, Floor(st[i + 1])) BY <1>6, <3>1, <4>2
      <4>4. Floor(st[i + 1]) \in Nat /\ Floor(st[i + 1]) <= Len(rts)
        <5>1. Usable(st[i + 1], A, S) /\ Rooted(st[i + 1], rts, Limit(st, rts, i + 1)) BY <1>6, <4>1
        <5>2. Ceil(st[i + 1]) <= Len(rts) BY <1>9, <4>1
        <5>3. Floor(st[i + 1]) \in Nat /\ Ceil(st[i + 1]) \in Nat /\ Floor(st[i + 1]) <= Ceil(st[i + 1])
          BY <5>1, FrameLimits
        <5> QED BY <1>4, <5>2, <5>3
      <4>5. Agree(r, rts, Floor(st[i + 1])) BY <1>4, <4>4 DEF Agree
      <4>6. Rooted(st[i], r, Floor(st[i + 1])) BY <4>3, <4>4, <4>5, RootedStays
      <4> QED BY <1>6, <3>1, <3>2, <4>2, <4>6
    <3> QED BY <3>3, <3>4
  <2> QED BY <2>1, <2>2
<1>11. ASSUME NEW i \in 1 .. N + 1, NEW j \in 1 .. N + 1, i < j
       PROVE  Ceil(t[i]) <= Floor(t[j]) /\ EnvEnd(t[i]) <= t[j].emark
  <2>1. i \in 1 .. N /\ t[i] = st[i] BY <1>3, <1>11
  <2>2. CASE j = N + 1
    <3>1. Ceil(st[i]) <= Len(rts) /\ EnvEnd(st[i]) <= Len(ers) BY <1>9, <2>1
    <3>2. Ceil(st[i]) \in Nat BY <1>6, <2>1, FrameLimits
    <3> QED BY <1>a, <1>3, <1>4, <1>5, <2>1, <2>2, <3>1, <3>2
  <2>3. CASE j # N + 1
    <3>1. j \in 1 .. N /\ t[j] = st[j] BY <1>3, <2>3
    <3> QED BY <1>7, <1>11, <2>1, <3>1
  <2> QED BY <2>2, <2>3
<1>12. ASSUME NEW i \in 2 .. N + 1 PROVE WaitsOn(t[i], t[i - 1], S)
  <2>1. CASE i = N + 1
    <3>1. N > 0 /\ N \in 1 .. N /\ t[i] = f /\ t[i - 1] = st[N] BY <1>3, <2>1
    <3> QED BY <1>a, <1>8, <3>1 DEF WaitsOn
  <2>2. CASE i # N + 1
    <3>1. i \in 2 .. N /\ t[i] = st[i] /\ t[i - 1] = st[i - 1] BY <1>3, <2>2
    <3> QED BY <3>1 DEF Stacked, N
  <2> QED BY <2>1, <2>2
<1>13. t[1].fn = "top" /\ t[1].mark = 0 /\ t[1].emark = 0
  <2>1. CASE st = <<>>
    <3>1. N = 0 /\ t[1] = f BY <1>1, <1>3, <2>1, EmptySeq DEF N
    <3>2. Len(ers) = 0 BY <2>1 DEF Stacked
    <3> QED BY <1>a, <2>1, <3>1, <3>2
  <2>2. CASE st # <<>>
    <3>1. t[1] = st[1] BY <1>1, <1>3, <2>2, EmptySeq DEF N
    <3> QED BY <2>2, <3>1 DEF Stacked
  <2> QED BY <2>1, <2>2
<1>14. Len(e) = EnvEnd(t[Len(t)]) BY <1>3 DEF Fits
<1>15. 1 .. Len(t) = 1 .. N + 1 /\ 2 .. Len(t) = 2 .. N + 1 BY <1>3
<1>16. Stacked(t, r, e, A, S) BY <1>3, <1>10, <1>11, <1>12, <1>13, <1>14, <1>15 DEF Stacked
<1> QED BY <1>16 DEF t

(* The frame the top one waits on.                                         *)
LEMMA BelowFacts ==
  ASSUME NEW A, NEW S, NEW st, NEW rts, NEW ers, Stacked(st, rts, ers, A, S), st # <<>>
  PROVE  /\ Last(st).fn = "top" => Front(st) = <<>>
         /\ Last(st).fn # "top" => /\ Front(st) # <<>>
                                   /\ WaitsOn(Last(st), Last(Front(st)), S)
<1> DEFINE N == Len(st)
<1>1. st \in Seq(FrameOf(A)) BY DEF Stacked
<1>2. /\ N \in Nat \ {0} /\ Last(st) = st[N] /\ Front(st) \in Seq(FrameOf(A))
      /\ Len(Front(st)) = N - 1 /\ \A i \in 1 .. N - 1 : Front(st)[i] = st[i]
  BY <1>1, FrontAndLast
<1>3. st[1].fn = "top" BY DEF Stacked
<1>4. \A i \in 2 .. N : WaitsOn(st[i], st[i - 1], S) BY DEF Stacked
<1> HIDE DEF N
<1>5. CASE N = 1
  <2>1. Front(st) = <<>> BY <1>2, <1>5, EmptySeq
  <2> QED BY <1>2, <1>3, <1>5, <2>1
<1>6. CASE N # 1
  <2>1. N \in 2 .. N /\ N - 1 \in 1 .. N - 1 BY <1>2, <1>6
  <2>2. Front(st) # <<>> BY <1>2, <2>1, EmptySeq
  <2>3. Last(Front(st)) = st[N - 1] BY <1>2, <2>1, <2>2, FrontAndLast
  <2>4. WaitsOn(Last(st), Last(Front(st)), S) BY <1>2, <1>4, <2>1, <2>3
  <2> QED BY <2>2, <2>4 DEF WaitsOn
<1> QED BY <1>5, <1>6

(* `f' takes the place of `g'.                                             *)
Succeeds(f, g) ==
  /\ Floor(g) <= Floor(f) /\ f.emark = g.emark
  /\ f.fn = "top" <=> g.fn = "top"
  /\ f.fn = "top" => f.mark = 0
  /\ f.fn \in Resumes => /\ g.fn \in Resumes /\ f.callee = g.callee
                         /\ f.form = g.form /\ f.env = g.env

LEMMA ReplaceKeeps ==
  ASSUME NEW A, NEW S, NEW st, NEW rts, NEW ers, Stacked(st, rts, ers, A, S), st # <<>>,
         NEW f, NEW r \in Seq(A), NEW e \in Seq(A), Fits(f, r, e, A, S),
         Agree(r, rts, Floor(Last(st))), Agree(e, ers, Last(st).emark), Succeeds(f, Last(st))
  PROVE  Stacked(Append(Front(st), f), r, e, A, S)
<1> DEFINE g  == Last(st)
           r0 == Cut(rts, Floor(g))
           e0 == Cut(ers, g.emark)
<1>1. /\ rts \in Seq(A) /\ ers \in Seq(A) /\ Len(rts) \in Nat /\ Len(ers) \in Nat
      /\ Floor(g) \in Nat /\ g.emark \in Nat /\ Floor(g) <= Len(rts) /\ g.emark <= Len(ers)
  BY TopFacts
<1>2. /\ r0 \in Seq(A) /\ Len(r0) = Floor(g) /\ Agree(r0, rts, Floor(g))
      /\ e0 \in Seq(A) /\ Len(e0) = g.emark /\ Agree(e0, ers, g.emark)
  BY <1>1, CutFacts
<1>3. /\ g.fn = "top" => Front(st) = <<>>
      /\ g.fn # "top" => Front(st) # <<>> /\ WaitsOn(g, Last(Front(st)), S)
  BY BelowFacts
<1>4. Agree(r, r0, Len(r0)) /\ Agree(e, e0, Len(e0)) BY <1>1, <1>2 DEF Agree
<1> HIDE DEF r0, e0
<1>5. Stacked(Front(st), r0, e0, A, S) BY <1>2, PopKeeps
<1> DEFINE t == Front(st)
<1>6. Follows(f, t, r0, e0, S)
  <2>1. Len(r0) <= Floor(f) /\ f.emark = Len(e0) BY <1>2 DEF Succeeds
  <2>2. f.fn = "top" <=> t = <<>> BY <1>3 DEF Succeeds
  <2>3. f.fn = "top" => f.mark = 0 BY DEF Succeeds
  <2>4. t # <<>> => WaitsOn(g, Last(t), S) BY <1>3
  <2>5. t # <<>> /\ Last(t).fn = "body" => Last(t).left > 0 BY <2>4 DEF WaitsOn
  <2>6. f.fn \in Resumes => /\ t # <<>> /\ Last(t).fn = "replay"
                            /\ Last(t).left = 0 => {f.callee, f.form, f.env} \subseteq S
    BY <2>2, <2>4 DEF WaitsOn, Resumes, Succeeds
  <2> QED BY <2>1, <2>2, <2>3, <2>5, <2>6 DEF Follows
<1> HIDE DEF t, g
<1>7. Stacked(Append(t, f), r, e, A, S)
  <2>1. Stacked(t, r0, e0, A, S) BY <1>5 DEF t
  <2> QED BY <1>4, <1>6, <2>1, PushKeeps
<1> QED BY <1>7 DEF t

(* Roots pushed for the frame on top.                                      *)
LEMMA GrowKeeps ==
  ASSUME NEW A, NEW S, NEW st, NEW rts, NEW ers, Stacked(st, rts, ers, A, S), st # <<>>,
         NEW r \in Seq(A), Agree(r, rts, Len(rts))
  PROVE  Stacked(st, r, ers, A, S)
<1> DEFINE f == Last(st)
<1>1. /\ rts \in Seq(A) /\ ers \in Seq(A) /\ Len(rts) \in Nat /\ Len(ers) \in Nat
      /\ Floor(f) \in Nat /\ f.emark \in Nat /\ Floor(f) <= Len(rts) /\ f.emark <= Len(ers)
      /\ Fits(f, rts, ers, A, S) /\ (f.fn = "top" => f.mark = 0)
  BY TopFacts
<1>2. Len(r) \in Nat /\ Len(rts) <= Len(r) BY LenProperties DEF Agree
<1>3. Rooted(f, r, Len(r)) BY <1>1, <1>2, RootedStays DEF Fits
<1>4. Fits(f, r, ers, A, S) BY <1>1, <1>3 DEF Fits
<1>5. Agree(r, rts, Floor(f)) /\ Agree(ers, ers, f.emark) BY <1>1 DEF Agree
<1>6. Succeeds(f, f) BY <1>1 DEF Succeeds
<1>8. Stacked(Append(Front(st), f), r, ers, A, S)
  BY <1>1, <1>4, <1>5, <1>6, ReplaceKeeps
<1>7. st = Append(Front(st), f)
  <2>1. st \in Seq(FrameOf(A)) BY DEF Stacked
  <2> QED BY <2>1, FrontThenLast
<1> QED BY <1>7, <1>8

(* More objects, more snapshots.                                           *)
LEMMA RecordsWiden ==
  ASSUME NEW A, NEW B, A \subseteq B
  PROVE  /\ RecordOf(A) \subseteq RecordOf(B) /\ FrameOf(A) \subseteq FrameOf(B)
         /\ Seq(RecordOf(A)) \subseteq Seq(RecordOf(B))
<1>1. Seq(A) \subseteq Seq(B) OBVIOUS
<1>2. RecordOf(A) \subseteq RecordOf(B) BY <1>1 DEF RecordOf
<1>3. Seq(RecordOf(A)) \subseteq Seq(RecordOf(B)) BY <1>2
<1>4. FrameOf(A) \subseteq FrameOf(B) BY <1>3 DEF FrameOf
<1> QED BY <1>2, <1>3, <1>4

LEMMA HoldsWiden ==
  ASSUME NEW A, NEW S, NEW B \in SUBSET Obj, NEW T \in SUBSET Obj, A \subseteq B, S \subseteq T,
         NEW st, NEW rts, NEW ers, NEW hp, NEW an, NEW sn,
         Holds(st, rts, ers, hp, an, sn, A, S)
  PROVE  Holds(st, rts, ers, hp, an, sn, B, T)
<1>1. /\ FrameOf(A) \subseteq FrameOf(B) /\ Seq(RecordOf(A)) \subseteq Seq(RecordOf(B))
      /\ Seq(RecordOf(S)) \subseteq Seq(RecordOf(T)) /\ Seq(A) \subseteq Seq(B)
  BY RecordsWiden
<1>2. Stacked(st, rts, ers, B, T)
  <2>1. st \in Seq(FrameOf(B)) /\ rts \in Seq(B) /\ ers \in Seq(B)
    <3>1. st \in Seq(FrameOf(A)) /\ rts \in Seq(A) /\ ers \in Seq(A) BY DEF Holds, Stacked
    <3> QED BY <1>1, <3>1
  <2>2. ASSUME NEW i \in 1 .. Len(st) PROVE Usable(st[i], B, T)
    <3>1. Usable(st[i], A, S) BY DEF Holds, Stacked
    <3> QED BY <1>1, <3>1 DEF Usable
  <2>3. ASSUME NEW i \in 2 .. Len(st) PROVE WaitsOn(st[i], st[i - 1], T)
    <3>1. WaitsOn(st[i], st[i - 1], S) BY DEF Holds, Stacked
    <3> QED BY <3>1 DEF WaitsOn
  <2> QED BY <2>1, <2>2, <2>3 DEF Holds, Stacked
<1>3. DataOf(hp, an, sn, B, T)
  <2>1. DataOf(hp, an, sn, A, S) BY DEF Holds
  <2>2. HeapOf(hp, B)
    <3>1. NodeOf(A) \subseteq NodeOf(B) BY DEF NodeOf
    <3> QED BY <2>1, <3>1 DEF DataOf, HeapOf
  <2>3. AnswerOf(an, B) BY <2>1 DEF DataOf, AnswerOf
  <2>4. SnapsOf(sn, B, T) BY <1>1, <2>1 DEF DataOf, SnapsOf
  <2> QED BY <2>1, <2>2, <2>3, <2>4 DEF DataOf
<1> QED BY <1>2, <1>3 DEF Holds

-----------------------------------------------------------------------------
(* From object to object.                                                  *)
Orbits(f, next, from) ==
  f = [n \in 0 .. MaxObjs |-> IF n = 0 THEN from
                              ELSE f[n - 1] \cup UNION {next[o] : o \in f[n - 1]}]
LEMMA OrbitStepwise ==
  ASSUME NEW next, NEW from
  PROVE  \E f : Orbits(f, next, from) /\ Orbit(next, from) = f[MaxObjs]
<1> DEFINE Step(s) == s \cup UNION {next[o] : o \in s}
           Built(f, m) == f = [n \in 0 .. m |-> IF n = 0 THEN from ELSE Step(f[n - 1])]
           T == { m \in 0 .. MaxObjs : ~ \E f : Built(f, m) }
<1>1. T = {}
  <2> SUFFICES ASSUME T # {} PROVE FALSE
    OBVIOUS
  <2>1. PICK m \in T : \A k \in T : m <= k
    <3>1. T \in SUBSET Nat OBVIOUS
    <3> HIDE DEF T
    <3> QED BY <3>1, LeastOf
  <2>2. m # 0
    <3>1. Built([n \in 0 .. 0 |-> from], 0) OBVIOUS
    <3> QED BY <2>1, <3>1
  <2>3. m - 1 \in 0 .. MaxObjs /\ ~(m <= m - 1) BY <2>1, <2>2, RootsAssumption
  <2>4. PICK f : Built(f, m - 1) BY <2>1, <2>3
  <2> DEFINE g == [n \in 0 .. m |-> IF n = m THEN Step(f[m - 1]) ELSE f[n]]
  <2> HIDE DEF Step
  <2>5. Built(g, m)
    <3>1. ASSUME NEW n \in 0 .. m PROVE g[n] = IF n = 0 THEN from ELSE Step(g[n - 1])
      <4>1. CASE n = m
        <5>1. g[m - 1] = f[m - 1] BY <2>2, <2>3, <4>1
        <5> QED BY <2>2, <4>1, <5>1
      <4>2. CASE n # m
        <5>1. n \in 0 .. (m - 1) /\ (n # 0 => n - 1 \in 0 .. m /\ n - 1 # m) BY <4>2
        <5>2. f[n] = IF n = 0 THEN from ELSE Step(f[n - 1]) BY <2>4, <5>1
        <5>3. n # 0 => g[n - 1] = f[n - 1] BY <5>1
        <5> QED BY <4>2, <5>2, <5>3
      <4> QED BY <4>1, <4>2
    <3> QED BY <3>1
  <2> QED BY <2>1, <2>5
<1>2. MaxObjs \in 0 .. MaxObjs BY RootsAssumption
<1>3. PICK g : Built(g, MaxObjs) BY <1>1, <1>2
<1> DEFINE upTo == CHOOSE f : Built(f, MaxObjs)
<1>4. Built(upTo, MaxObjs) BY <1>3
<1>5. Orbit(next, from) = upTo[MaxObjs] BY DEF Orbit
<1> HIDE DEF upTo
<1> QED BY <1>4, <1>5 DEF Orbits

(* It leaves no set that is closed, and keeps what it began with.          *)
LEMMA OrbitStays ==
  ASSUME NEW next, NEW from
  PROVE  /\ from \subseteq Orbit(next, from)
         /\ \A C : from \subseteq C /\ (\A o \in C : next[o] \subseteq C)
                  => Orbit(next, from) \subseteq C
<1>1. PICK f : Orbits(f, next, from) /\ Orbit(next, from) = f[MaxObjs] BY OrbitStepwise
<1> DEFINE Fine(n) == /\ from \subseteq f[n]
                      /\ \A C : from \subseteq C /\ (\A o \in C : next[o] \subseteq C)
                               => f[n] \subseteq C
           T == { n \in 0 .. MaxObjs : ~Fine(n) }
<1>2. T = {}
  <2> SUFFICES ASSUME T # {} PROVE FALSE
    OBVIOUS
  <2>1. PICK n \in T : \A m \in T : n <= m
    <3>1. T \in SUBSET Nat OBVIOUS
    <3> HIDE DEF T
    <3> QED BY <3>1, LeastOf
  <2>2. n # 0
    <3>1. f[0] = from BY <1>1, RootsAssumption DEF Orbits
    <3>2. Fine(0) BY <3>1
    <3> HIDE DEF Fine
    <3> QED BY <2>1, <3>2
  <2>3. n - 1 \in 0 .. MaxObjs /\ ~(n <= n - 1) BY <2>1, <2>2, RootsAssumption
  <2>4. Fine(n - 1)
    <3> HIDE DEF Fine
    <3> QED BY <2>1, <2>3
  <2>5. f[n] = f[n - 1] \cup UNION {next[o] : o \in f[n - 1]}
    BY <1>1, <2>1, <2>2 DEF Orbits
  <2>6. Fine(n) BY <2>4, <2>5
  <2> HIDE DEF Fine
  <2> QED BY <2>1, <2>6
<1>3. MaxObjs \in 0 .. MaxObjs BY RootsAssumption
<1>4. Fine(MaxObjs)
  <2> HIDE DEF Fine
  <2> QED BY <1>2, <1>3
<1> QED BY <1>1, <1>4

(* It is itself closed: MaxObjs steps are enough for MaxObjs + 1 objects.  *)
LEMMA OrbitCloses ==
  ASSUME NEW next \in [Obj -> SUBSET Obj], NEW from \in SUBSET Obj, from # {}
  PROVE  \A o \in Orbit(next, from) : next[o] \subseteq Orbit(next, from)
<1>1. PICK f : Orbits(f, next, from) /\ Orbit(next, from) = f[MaxObjs] BY OrbitStepwise
<1>2. MaxObjs \in Nat BY RootsAssumption
<1>3. IsFiniteSet(Obj) /\ Cardinality(Obj) = MaxObjs + 1
  <2>1. Obj = 0 .. MaxObjs BY <1>2 DEF Obj, Ids, Base
  <2> QED BY <1>2, <2>1, FS_Interval
<1> DEFINE Closed(s) == \A o \in s : next[o] \subseteq s
           Fine(n) == /\ f[n] \in SUBSET Obj
                      /\ Closed(f[n]) \/ Cardinality(f[n]) > n
           T == { n \in 0 .. MaxObjs : ~Fine(n) }
<1>4. T = {}
  <2> SUFFICES ASSUME T # {} PROVE FALSE
    OBVIOUS
  <2>1. PICK n \in T : \A m \in T : n <= m
    <3>1. T \in SUBSET Nat OBVIOUS
    <3> HIDE DEF T
    <3> QED BY <3>1, LeastOf
  <2>2. n # 0
    <3>1. f[0] = from BY <1>1, <1>2 DEF Orbits
    <3>2. IsFiniteSet(from) /\ Cardinality(from) \in Nat /\ Cardinality(from) # 0
      BY <1>3, FS_Subset, FS_CardinalityType, FS_EmptySet
    <3>3. Fine(0) BY <3>1, <3>2
    <3> HIDE DEF Fine
    <3> QED BY <2>1, <3>3
  <2>3. n - 1 \in 0 .. MaxObjs /\ ~(n <= n - 1) /\ n \in Nat BY <1>2, <2>1, <2>2
  <2>4. Fine(n - 1)
    <3> HIDE DEF Fine
    <3> QED BY <2>1, <2>3
  <2> DEFINE s == f[n - 1]
  <2>5. f[n] = s \cup UNION {next[o] : o \in s}
    BY <1>1, <2>1, <2>2 DEF Orbits
  <2>6. s \in SUBSET Obj /\ f[n] \in SUBSET Obj /\ s \subseteq f[n] BY <2>4, <2>5
  <2>7. CASE Closed(s)
    <3>1. f[n] = s BY <2>5, <2>7
    <3> QED BY <2>1, <2>6, <2>7, <3>1
  <2>8. CASE ~Closed(s)
    <3>1. Cardinality(s) > n - 1 BY <2>4, <2>8
    <3>2. f[n] # s BY <2>5, <2>8
    <3>3. IsFiniteSet(f[n]) /\ IsFiniteSet(s) BY <1>3, <2>6, FS_Subset
    <3> HIDE DEF s
    <3>4. Cardinality(s) <= Cardinality(f[n]) /\ Cardinality(s) # Cardinality(f[n])
          /\ Cardinality(s) \in Nat /\ Cardinality(f[n]) \in Nat
      BY <2>6, <3>2, <3>3, FS_Subset, FS_CardinalityType
    <3>5. Cardinality(f[n]) > n BY <2>3, <3>1, <3>4
    <3> QED BY <2>1, <2>6, <3>5
  <2> QED BY <2>7, <2>8
<1>5. MaxObjs \in 0 .. MaxObjs BY <1>2
<1>6. Fine(MaxObjs)
  <2> HIDE DEF Fine
  <2> QED BY <1>4, <1>5
<1>7. CASE Closed(f[MaxObjs]) BY <1>1, <1>7
<1>8. CASE Cardinality(f[MaxObjs]) > MaxObjs
  <2>1. IsFiniteSet(f[MaxObjs]) /\ Cardinality(f[MaxObjs]) <= Cardinality(Obj)
        /\ Cardinality(f[MaxObjs]) \in Nat
        /\ (Cardinality(f[MaxObjs]) = Cardinality(Obj) => f[MaxObjs] = Obj)
    BY <1>3, <1>6, FS_Subset, FS_CardinalityType
  <2>2. f[MaxObjs] = Obj BY <1>2, <1>3, <1>8, <2>1
  <2> QED BY <1>1, <2>2
<1> QED BY <1>6, <1>7, <1>8

(* What is reached holds the roots and the base, and is closed.            *)
LEMMA NodesOf ==
  ASSUME NEW A \in SUBSET Obj, NEW hp, HeapOf(hp, A), NEW o \in Obj
  PROVE  hp[o].kind \in Kind /\ hp[o].refs \subseteq A /\ hp[o].up \in A
BY DEF HeapOf, NodeOf

LEMMA ReachedFacts ==
  ASSUME NEW hp, HeapOf(hp, Obj), NEW from \in SUBSET Obj
  PROVE  /\ Reached(hp, from) \in SUBSET Obj /\ from \subseteq Reached(hp, from)
         /\ Base \in Reached(hp, from)
         /\ \A o \in Reached(hp, from) : /\ hp[o].refs \subseteq Reached(hp, from)
                                         /\ hp[o].up \in Reached(hp, from)
<1> DEFINE next == [o \in Obj |-> hp[o].refs \cup {hp[o].up}]
           src  == from \cup {Base}
<1>1. src \in SUBSET Obj /\ src # {} /\ Base \in src BY DEF Obj
<1>2. next \in [Obj -> SUBSET Obj]
  <2>1. \A o \in Obj : hp[o].refs \cup {hp[o].up} \subseteq Obj BY DEF HeapOf, NodeOf
  <2> QED BY <2>1
<1>3. Reached(hp, from) = Orbit(next, src) BY DEF Reached
<1>4. \A o \in Obj : next[o] = hp[o].refs \cup {hp[o].up} OBVIOUS
<1> HIDE DEF next
<1>5. \A o \in Obj : next[o] \subseteq Obj BY <1>2
<1>6. Orbit(next, src) \subseteq Obj /\ src \subseteq Orbit(next, src) BY <1>1, <1>5, OrbitStays
<1>7. \A o \in Orbit(next, src) : next[o] \subseteq Orbit(next, src) BY <1>1, <1>2, OrbitCloses
<1> QED BY <1>1, <1>3, <1>4, <1>6, <1>7

(* The environments of a chain, and what is bound there, are objects of the*)
(* heap; and so is what the engine names.                                  *)
LEMMA ChainWithin ==
  ASSUME NEW A \in SUBSET Obj, HeapOf(heap, A), NEW env \in A
  PROVE  Chain(env) \subseteq A /\ env \in Chain(env) /\ Bound(env) \subseteq A
<1> DEFINE next == [o \in Obj |-> {heap[o].up}]
<1>1. \A o \in A : heap[o].refs \subseteq A /\ heap[o].up \in A BY DEF HeapOf, NodeOf
<1>4. \A o \in A : next[o] \subseteq A BY <1>1
<1>2. Chain(env) = Orbit(next, {env}) BY DEF Chain
<1> HIDE DEF next
<1>3. Chain(env) \subseteq A /\ env \in Chain(env) BY <1>2, <1>4, OrbitStays
<1> QED BY <1>1, <1>3 DEF Bound

(* A new object is one that no snapshot is of.                             *)
LEMMA LeastIn ==
  ASSUME NEW F \in SUBSET Ids, F # {}
  PROVE  Least(F) \in F
<1>1. F \in SUBSET Nat BY RootsAssumption DEF Ids
<1>2. \E i \in F : \A j \in F : i <= j BY <1>1, LeastOf
<1> QED BY <1>2 DEF Least

LEMMA FreshFacts ==
  ASSUME Fresh # {}
  PROVE  NewObj \in Ids /\ NewObj \in Fresh /\ NewObj \notin DOMAIN snaps /\ Fresh \in SUBSET Ids
<1>1. Fresh \in SUBSET Ids BY DEF Fresh
<1>2. NewObj \in Fresh BY <1>1, LeastIn DEF NewObj
<1>3. DOMAIN snaps \subseteq Spoken
  <2> DEFINE held == RootSet
                \cup (UNION {Held(f) \cup Operand(f) \cup Range(f.vals) \cup {f.callee} : f \in Range(stack)})
                \cup {ans.v, ans.env} \cup DOMAIN snaps
             next == [o \in Obj |-> heap[o].refs \cup {heap[o].up}]
  <2>1. Spoken = Reached(heap, held) BY DEF Spoken
  <2>2. DOMAIN snaps \subseteq held OBVIOUS
  <2> HIDE DEF held
  <2>3. Spoken = Orbit(next, held \cup {Base}) BY <2>1 DEF Reached
  <2> HIDE DEF next
  <2>4. held \cup {Base} \subseteq Orbit(next, held \cup {Base}) BY OrbitStays
  <2> QED BY <2>2, <2>3, <2>4
<1> QED BY <1>1, <1>2, <1>3 DEF Fresh

(* The state of an iterator, as a list.                                    *)
LEMMA ListOf ==
  ASSUME NEW T \in SUBSET Obj
  PROVE  SetToSeq(T) \in Seq(T)
<1>1. MaxObjs \in Nat BY RootsAssumption
<1>2. IsFiniteSet(Obj)
  <2>1. Obj = 0 .. MaxObjs BY <1>1 DEF Obj, Ids, Base
  <2> QED BY <1>1, <2>1, FS_Interval
<1>3. IsFiniteSet(T) BY <1>2, FS_Subset
<1>4. Cardinality(T) \in Nat /\ ExistsBijection(1 .. Cardinality(T), T) BY <1>3, FS_CardinalityType
<1>5. \E f \in [1 .. Cardinality(T) -> T] : IsInjective(f)
  BY <1>4 DEF ExistsBijection, Bijection, Injection
<1>6. SetToSeq(T) \in [1 .. Cardinality(T) -> T] BY <1>5 DEF SetToSeq
<1> QED BY <1>4, <1>6

-----------------------------------------------------------------------------
(* The control records are of the heap, and there is one for every frame   *)
(* that leaves one.                                                        *)
RecordAt(st, i) == Record(st[i], Active(Cut(st, i)))
Controls(f, st) ==
  f = [n \in 0 .. Len(st) |-> IF n = 0 THEN <<>>
                              ELSE IF Recording(st[n]) THEN Append(f[n - 1], RecordAt(st, n))
                              ELSE f[n - 1]]
LEMMA ControlStepwise ==
  ASSUME NEW st, Len(st) \in Nat
  PROVE  \E f : Controls(f, st) /\ Control(st) = f[Len(st)]
<1> DEFINE Step(s, n) ==
             IF Recording(st[n]) THEN Append(s, Record(st[n], Active(Cut(st, n)))) ELSE s
           Built(f, m) == f = [n \in 0 .. m |-> IF n = 0 THEN <<>> ELSE Step(f[n - 1], n)]
           T == { m \in 0 .. Len(st) : ~ \E f : Built(f, m) }
<1>1. T = {}
  <2> SUFFICES ASSUME T # {} PROVE FALSE
    OBVIOUS
  <2>1. PICK m \in T : \A k \in T : m <= k
    <3>1. T \in SUBSET Nat OBVIOUS
    <3> HIDE DEF T
    <3> QED BY <3>1, LeastOf
  <2>2. m # 0
    <3>1. Built([n \in 0 .. 0 |-> <<>>], 0) OBVIOUS
    <3> QED BY <2>1, <3>1
  <2>3. m - 1 \in 0 .. Len(st) /\ ~(m <= m - 1) BY <2>1, <2>2
  <2>4. PICK f : Built(f, m - 1) BY <2>1, <2>3
  <2> DEFINE g == [n \in 0 .. m |-> IF n = m THEN Step(f[m - 1], m) ELSE f[n]]
  <2> HIDE DEF Step
  <2>5. Built(g, m)
    <3>1. ASSUME NEW n \in 0 .. m PROVE g[n] = IF n = 0 THEN <<>> ELSE Step(g[n - 1], n)
      <4>1. CASE n = m
        <5>1. g[m - 1] = f[m - 1] BY <2>2, <2>3, <4>1
        <5> QED BY <2>2, <4>1, <5>1
      <4>2. CASE n # m
        <5>1. n \in 0 .. (m - 1) /\ (n # 0 => n - 1 \in 0 .. m /\ n - 1 # m) BY <4>2
        <5>2. f[n] = IF n = 0 THEN <<>> ELSE Step(f[n - 1], n) BY <2>4, <5>1
        <5>3. n # 0 => g[n - 1] = f[n - 1] BY <5>1
        <5> QED BY <4>2, <5>2, <5>3
      <4> QED BY <4>1, <4>2
    <3> QED BY <3>1
  <2> QED BY <2>1, <2>5
<1>2. PICK g : Built(g, Len(st)) BY <1>1
<1> DEFINE upTo == CHOOSE f : Built(f, Len(st))
<1>3. Built(upTo, Len(st)) BY <1>2
<1>4. Control(st) = upTo[Len(st)] BY DEF Control
<1> HIDE DEF upTo
<1> QED BY <1>3, <1>4 DEF Controls, RecordAt

LEMMA RecordFacts ==
  ASSUME NEW A \in SUBSET Obj, Base \in A, NEW S, NEW f, Usable(f, A, S), Recording(f),
         NEW depth \in Nat
  PROVE  /\ Record(f, depth) \in RecordOf(A)
         /\ f.env \in Named(Record(f, depth))
         /\ f.left # 0 => f.form \in Named(Record(f, depth))
<1> DEFINE r == Record(f, depth)
<1>1. /\ f.fn \in FrameKind /\ f.does \in Does /\ f.form \in A /\ f.env \in A
      /\ f.left \in Nat
  BY FrameTypes DEF Usable
<1>2. f.callee \in A /\ f.vals \in Seq(A)
  <2>1. <<>> \in Seq(A) OBVIOUS
  <2>2. CASE f.fn \in Lists BY <2>2 DEF Usable
  <2>3. CASE f.fn \notin Lists
    <3>1. f.fn \notin Lists \cup {"iter", "call/cc"} BY <2>3 DEF Recording, Lists
    <3> QED BY <2>1, <3>1 DEF Usable
  <2> QED BY <2>2, <2>3
<1>3. /\ r.what \in Does \cup {"body", "def"} /\ r.callee = f.callee /\ r.vals = f.vals
      /\ r.form = IF f.left = 0 THEN Base ELSE f.form
      /\ r.env = f.env /\ r.left = f.left /\ r.depth = depth
  BY <1>1 DEF Record
<1>6. Enough(f.vals, f.left + 1, r.what)
  <2>1. CASE f.fn = "args"
    <3>1. r.what = f.does BY <2>1 DEF Record
    <3> QED BY <2>1, <3>1 DEF Usable, Lists
  <2>2. CASE f.fn # "args"
    <3>1. r.what \in {"body", "def"} BY <2>2 DEF Record
    <3>2. Arity(r.what) = 0 BY <3>1 DEF Arity
    <3>3. Len(f.vals) \in Nat BY <1>2, LenProperties
    <3> QED BY <1>1, <3>2, <3>3 DEF Enough
  <2> QED BY <2>1, <2>2
<1>4. r \in RecordOf(A)
  <2>1. r \in [what : Does \cup {"body", "def"}, callee : A, vals : Seq(A), form : A, env : A,
                left : Nat, depth : Nat]
    BY <1>1, <1>2 DEF Record
  <2>2. r.vals = f.vals /\ r.left + 1 = f.left + 1 BY <1>3
  <2> HIDE DEF r
  <2> QED BY <1>6, <2>1, <2>2 DEF RecordOf
<1>5. r.env \in Named(r) /\ r.form \in Named(r) BY DEF Named
<1> HIDE DEF r
<1> QED BY <1>3, <1>4, <1>5 DEF r

LEMMA DepthIsNat ==
  ASSUME NEW A, NEW st \in Seq(A), NEW n \in Nat
  PROVE  Active(Cut(st, n)) \in Nat
<1>1. Cut(st, n) \in Seq(A)
  <2>1. CASE n < Len(st)
    <3>1. n <= Len(st) BY <2>1, LenProperties
    <3> QED BY <3>1, CutFacts
  <2>2. CASE ~(n < Len(st)) BY <2>2 DEF Cut
  <2> QED BY <2>1, <2>2
<1> DEFINE s == Cut(st, n)
           e == {i \in DOMAIN s : s[i].fn = "eval"}
<1>2. Len(s) \in Nat /\ DOMAIN s = 1 .. Len(s) BY <1>1, LenProperties
<1> HIDE DEF s
<1>3. e \subseteq 1 .. Len(s) BY <1>2
<1> HIDE DEF e
<1>4. Cardinality(e) \in Nat BY <1>2, <1>3, FirstAreFinite
<1> QED BY <1>4 DEF Active, s, e

LEMMA ControlFacts ==
  ASSUME NEW A \in SUBSET Obj, Base \in A, NEW S, NEW st \in Seq(FrameOf(A)),
         \A i \in 1 .. Len(st) : Usable(st[i], A, S)
  PROVE  /\ Control(st) \in Seq(RecordOf(A))
         /\ \A i \in 1 .. Len(st) : Recording(st[i]) => RecordAt(st, i) \in Range(Control(st))
<1>1. Len(st) \in Nat BY LenProperties
<1>2. PICK f : Controls(f, st) /\ Control(st) = f[Len(st)] BY <1>1, ControlStepwise
<1>3. \A i \in 1 .. Len(st) : Recording(st[i]) => RecordAt(st, i) \in RecordOf(A)
  <2> SUFFICES ASSUME NEW i \in 1 .. Len(st), Recording(st[i]) PROVE RecordAt(st, i) \in RecordOf(A)
    OBVIOUS
  <2>1. Active(Cut(st, i)) \in Nat BY <1>1, DepthIsNat
  <2> QED BY <2>1, RecordFacts DEF RecordAt
<1> DEFINE Fine(n) == /\ f[n] \in Seq(RecordOf(A))
                      /\ \A i \in 1 .. n : Recording(st[i]) => RecordAt(st, i) \in Range(f[n])
           T == { n \in 0 .. Len(st) : ~Fine(n) }
<1>4. T = {}
  <2> SUFFICES ASSUME T # {} PROVE FALSE
    OBVIOUS
  <2>1. PICK n \in T : \A m \in T : n <= m
    <3>1. T \in SUBSET Nat BY <1>1
    <3> HIDE DEF T
    <3> QED BY <3>1, LeastOf
  <2>2. n # 0
    <3>1. f[0] = <<>> BY <1>1, <1>2 DEF Controls
    <3>2. Fine(0) BY <3>1
    <3> HIDE DEF Fine
    <3> QED BY <2>1, <3>2
  <2>3. n - 1 \in 0 .. Len(st) /\ ~(n <= n - 1) /\ n \in 1 .. Len(st) BY <1>1, <2>1, <2>2
  <2>4. Fine(n - 1)
    <3> HIDE DEF Fine
    <3> QED BY <2>1, <2>3
  <2>5. f[n] = IF Recording(st[n]) THEN Append(f[n - 1], RecordAt(st, n)) ELSE f[n - 1]
    BY <1>2, <2>1, <2>2 DEF Controls
  <2>6. \A i \in 1 .. n : i = n \/ i \in 1 .. n - 1 BY <2>3
  <2>7. Fine(n)
    <3>1. CASE ~Recording(st[n]) BY <2>4, <2>5, <2>6, <3>1
    <3>2. CASE Recording(st[n])
      <4> DEFINE s == f[n - 1]
                 r == RecordAt(st, n)
      <4>1. s \in Seq(RecordOf(A)) /\ r \in RecordOf(A) BY <1>3, <2>3, <2>4, <3>2
      <4>2. f[n] = Append(s, r) BY <2>5, <3>2
      <4>3. \A i \in 1 .. n - 1 : Recording(st[i]) => RecordAt(st, i) \in Range(s) BY <2>4
      <4> HIDE DEF s, r
      <4>4. Append(s, r) \in Seq(RecordOf(A)) /\ Range(s) \subseteq Range(Append(s, r))
            /\ r \in Range(Append(s, r))
        <5> DEFINE t == Append(s, r)
        <5>1. /\ t \in Seq(RecordOf(A)) /\ DOMAIN t = 1 .. Len(s) + 1 /\ DOMAIN s = 1 .. Len(s)
              /\ \A i \in 1 .. Len(s) : t[i] = s[i]
              /\ t[Len(s) + 1] = r /\ Len(s) \in Nat
          BY <4>1, Pushed
        <5> HIDE DEF t
        <5>2. r \in Range(t) /\ Range(s) \subseteq Range(t) BY <5>1 DEF Range
        <5> QED BY <5>1, <5>2 DEF t
      <4>5. \A i \in 1 .. n : Recording(st[i]) => RecordAt(st, i) \in Range(Append(s, r))
        BY <2>6, <4>3, <4>4 DEF r
      <4> QED BY <4>2, <4>4, <4>5
    <3> QED BY <3>1, <3>2
  <2> HIDE DEF Fine
  <2> QED BY <2>1, <2>7
<1>5. Len(st) \in 0 .. Len(st) BY <1>1
<1>6. Fine(Len(st))
  <2> HIDE DEF Fine
  <2> QED BY <1>4, <1>5
<1> QED BY <1>2, <1>6

-----------------------------------------------------------------------------
(* What one step starts from, and what it leaves.                          *)
Now(A, S)  == Holds(stack, roots, envRoots, heap, ans, snaps, A, S)
Then(A, S) == Holds(stack', roots', envRoots', heap', ans', snaps', A, S)

LEMMA NowFacts ==
  ASSUME NEW A, NEW S, Now(A, S)
  PROVE  /\ stack # <<>> /\ Stacked(stack, roots, envRoots, A, S)
         /\ A \in SUBSET Obj /\ Base \in A /\ S \in SUBSET Obj /\ Base \in S
         /\ HeapOf(heap, A) /\ AnswerOf(ans, A) /\ SnapsOf(snaps, A, S)
         /\ ans.v \in A
BY DEF Now, Holds, DataOf, AnswerOf

LEMMA NowTop ==
  ASSUME NEW A, NEW S, Now(A, S)
  PROVE  /\ Top \in FrameOf(A) /\ Usable(Top, A, S) /\ Fits(Top, roots, envRoots, A, S)
         /\ roots \in Seq(A) /\ envRoots \in Seq(A) /\ Len(roots) \in Nat /\ Len(envRoots) \in Nat
         /\ Floor(Top) \in Nat /\ Ceil(Top) \in Nat /\ Floor(Top) <= Ceil(Top)
         /\ Ceil(Top) <= Len(roots) /\ Floor(Top) <= Len(roots)
         /\ Top.emark \in Nat /\ Top.emark <= Len(envRoots) /\ Top.mark \in Nat
         /\ Len(envRoots) = EnvEnd(Top)
         /\ Top.fn \in FrameKind /\ Top.does \in Does /\ Top.form \in A /\ Top.env \in A
         /\ Top.left \in Nat
         /\ (Top.fn = "top" => Top.mark = 0 /\ Top.emark = 0)
<1>1. /\ Top \in FrameOf(A) /\ Fits(Top, roots, envRoots, A, S)
      /\ roots \in Seq(A) /\ envRoots \in Seq(A) /\ Len(roots) \in Nat /\ Len(envRoots) \in Nat
      /\ Floor(Top) \in Nat /\ Ceil(Top) \in Nat /\ Floor(Top) <= Ceil(Top)
      /\ Ceil(Top) <= Len(roots)
      /\ Top.emark \in Nat /\ Top.emark <= Len(envRoots) /\ Top.mark \in Nat
      /\ (Top.fn = "top" => Top.mark = 0 /\ Top.emark = 0)
  BY NowFacts, TopFacts DEF Top
<1>2. Usable(Top, A, S) /\ Len(envRoots) = EnvEnd(Top) BY <1>1 DEF Fits
<1>3. /\ Top.fn \in FrameKind /\ Top.does \in Does /\ Top.form \in A /\ Top.env \in A
      /\ Top.left \in Nat
  BY <1>1, FrameTypes
<1> QED BY <1>1, <1>2, <1>3

(* Every object and every snapshot there is after the step may be named:   *)
(* no step but a collection frees one.                                     *)
Covers(A, S) == Alive(heap') \subseteq A /\ (S = Obj \/ Kept(snaps') \subseteq S)
HeapGoes(A)  == HeapOf(heap', A) /\ Alive(heap) \subseteq Alive(heap')
Later(A, S)  == Then(A, S) /\ Alive(heap) \subseteq Alive(heap') /\ Kept(snaps) \subseteq Kept(snaps')

LEMMA HeapQuiet ==
  ASSUME NEW A, NEW S, Now(A, S), UNCHANGED heap
  PROVE  HeapGoes(A)
BY NowFacts DEF HeapGoes

LEMMA Lands ==
  ASSUME NEW A, NEW S, Now(A, S), stack' # <<>>, Stacked(stack', roots', envRoots', A, S),
         HeapGoes(A), AnswerOf(ans', A), UNCHANGED snaps, Rests(stack', roots', ans')
  PROVE  Later(A, S)
<1>1. SnapsOf(snaps', A, S) /\ Kept(snaps) \subseteq Kept(snaps') BY NowFacts
<1> QED BY <1>1, NowFacts DEF Later, Then, Holds, DataOf, HeapGoes

(* What is handed on.                                                      *)
LEMMA AnswersGiven ==
  ASSUME NEW A \in SUBSET Obj, Base \in A, NEW v \in A, NEW e \in A, NEW k \in Obj
  PROVE  /\ AnswerOf(Nothing, A) /\ AnswerOf(Ok(v), A) /\ AnswerOf(Parked(v, e), A)
         /\ AnswerOf(Raise, A) /\ AnswerOf(Escape(v, k), A)
         /\ Ok(v) # Nothing /\ Parked(v, e) # Nothing /\ Raise # Nothing /\ Escape(v, k) # Nothing
<1>1. A \subseteq Obj OBVIOUS
<1>2. ASSUME NEW is \in Answers, NEW x \in A, NEW y \in Obj, is = "tail" => y \in A
      PROVE  AnswerOf(Ans(is, x, y), A)
  BY <1>2 DEF AnswerOf, Ans
<1>3. AnswerOf(Nothing, A) BY <1>1, <1>2 DEF Nothing, Answers
<1>4. AnswerOf(Ok(v), A) BY <1>1, <1>2 DEF Ok, Answers
<1>5. AnswerOf(Parked(v, e), A) BY <1>1, <1>2 DEF Parked, Answers
<1>6. AnswerOf(Raise, A) BY <1>1, <1>2 DEF Raise, Answers
<1>7. AnswerOf(Escape(v, k), A) BY <1>1, <1>2 DEF Escape, Answers
<1>8. /\ Nothing.is = "nothing" /\ Ok(v).is = "ok" /\ Parked(v, e).is = "tail"
      /\ Raise.is = "raise" /\ Escape(v, k).is = "escape"
  BY DEF Nothing, Ok, Parked, Raise, Escape, Ans
<1> QED BY <1>3, <1>4, <1>5, <1>6, <1>7, <1>8

LEMMA SomeAnswer ==
  ASSUME NEW st, NEW rts, NEW an, an # Nothing \/ Last(st).fn \notin Lists \cup {"top", "source"}
  PROVE  Rests(st, rts, an)
BY DEF Rests, Lists

LEMMA NothingIs == Nothing.is = "nothing"
BY DEF Nothing, Ans

(* What is made, and what is written.                                      *)
LEMMA Made ==
  ASSUME NEW A \in SUBSET Obj, NEW hp, HeapOf(hp, A), NEW o \in Obj, NEW node \in NodeOf(A),
         node.kind # "free"
  PROVE  LET now == [hp EXCEPT ![o] = node]
         IN  /\ HeapOf(now, A) /\ o \in Alive(now) /\ Alive(hp) \subseteq Alive(now)
             /\ now[o] = node /\ \A p \in Obj \ {o} : now[p] = hp[p]
<1> DEFINE now == [hp EXCEPT ![o] = node]
<1>1. now \in [Obj -> NodeOf(A)] /\ now[o] = node /\ \A p \in Obj \ {o} : now[p] = hp[p]
  BY DEF HeapOf
<1> HIDE DEF now
<1>2. HeapOf(now, A) BY <1>1 DEF HeapOf
<1>3. Alive(hp) \subseteq Alive(now) /\ o \in Alive(now) BY <1>1 DEF Alive
<1> QED BY <1>1, <1>2, <1>3 DEF now

LEMMA NodeIs ==
  ASSUME NEW A, NEW k \in Kind, NEW refs \in SUBSET A, NEW up \in A
  PROVE  Node(k, refs, up) \in NodeOf(A) /\ Node(k, refs, up).kind = k
BY DEF Node, NodeOf

LEMMA Written ==
  ASSUME NEW A \in SUBSET Obj, NEW hp, HeapOf(hp, A), NEW o \in Obj, NEW R \in SUBSET A
  PROVE  LET now == [hp EXCEPT ![o].refs = R]
         IN  HeapOf(now, A) /\ Alive(hp) \subseteq Alive(now)
<1> DEFINE now == [hp EXCEPT ![o].refs = R]
           node == [hp[o] EXCEPT !.refs = R]
<1>1. hp[o] \in NodeOf(A) BY DEF HeapOf
<1>2. node \in NodeOf(A) /\ node.kind = hp[o].kind BY <1>1 DEF NodeOf
<1>3. now = [hp EXCEPT ![o] = node] OBVIOUS
<1> HIDE DEF node
<1>4. now \in [Obj -> NodeOf(A)] /\ now[o] = node /\ \A p \in Obj \ {o} : now[p] = hp[p]
  BY <1>2, <1>3 DEF HeapOf
<1> HIDE DEF now
<1>5. HeapOf(now, A) BY <1>4 DEF HeapOf
<1>6. Alive(hp) \subseteq Alive(now) BY <1>2, <1>4 DEF Alive
<1> QED BY <1>5, <1>6 DEF now

-----------------------------------------------------------------------------
(* Steps of the stack.                                                     *)

(* Nothing comes or goes.                                                  *)
LEMMA StackStays ==
  ASSUME NEW A, NEW S, Now(A, S), UNCHANGED <<roots, envRoots, stack, snaps>>,
         HeapGoes(A), AnswerOf(ans', A),
         ans' # Nothing \/ Top.fn \notin Lists \cup {"top", "source"}
  PROVE  Later(A, S)
<1>1. Stacked(stack', roots', envRoots', A, S) /\ stack' # <<>> BY NowFacts
<1>3. Rests(stack', roots', ans') BY SomeAnswer DEF Top
<1> QED BY <1>1, <1>3, Lands

(* The frame on top answers, or lets a raise through.                      *)
LEMMA PopStep ==
  ASSUME NEW A, NEW S, Now(A, S), Pop, Top.fn # "top", roots' \in Seq(A),
         Agree(roots', roots, Floor(Top)),
         envRoots' = Cut(envRoots, Top.emark),
         UNCHANGED snaps, HeapGoes(A), AnswerOf(ans', A), ans' # Nothing
  PROVE  Later(A, S)
<1>1. /\ Top.emark \in Nat /\ Top.emark <= Len(envRoots) /\ envRoots \in Seq(A)
  BY NowTop
<1>2. envRoots' \in Seq(A) /\ Len(envRoots') = Top.emark /\ Agree(envRoots', envRoots, Top.emark)
  BY <1>1, CutFacts
<1>3. Stacked(stack, roots, envRoots, A, S) /\ stack # <<>> BY NowFacts
<1>4. Stacked(Front(stack), roots', envRoots', A, S)
  BY <1>2, <1>3, PopKeeps DEF Top
<1>5. Front(stack) # <<>> BY <1>3, BelowFacts DEF Top
<1>6. stack' = Front(stack) BY DEF Pop, Below
<1>7. Stacked(stack', roots', envRoots', A, S) /\ stack' # <<>> BY <1>4, <1>5, <1>6
<1>9. Rests(stack', roots', ans') BY SomeAnswer
<1> QED BY <1>7, <1>9, Lands

(* A frame without slots leaves the environments as it found them.         *)
LEMMA NoSlots ==
  ASSUME NEW A, NEW S, Now(A, S), ~Slots(Top)
  PROVE  Cut(envRoots, Top.emark) = envRoots /\ Len(envRoots) = Top.emark
<1>1. Len(envRoots) = Top.emark /\ Top.emark \in Nat BY NowTop DEF EnvEnd
<1> QED BY <1>1 DEF Cut

(* The roots of the frame on top change, above its floor.                  *)
LEMMA TopKeeps ==
  ASSUME NEW A, NEW S, Now(A, S), NEW f, NEW r \in Seq(A), NEW e \in Seq(A), Fits(f, r, e, A, S),
         Agree(r, roots, Floor(Top)), Agree(e, envRoots, Top.emark), Succeeds(f, Top)
  PROVE  Stacked(With(f), r, e, A, S) /\ With(f) # <<>> /\ Last(With(f)) = f
<1>1. Stacked(stack, roots, envRoots, A, S) /\ stack # <<>> BY NowFacts
<1>2. Stacked(Append(Front(stack), f), r, e, A, S) BY <1>1, ReplaceKeeps DEF Top
<1>3. Front(stack) \in Seq(FrameOf(A)) BY <1>1, FrontAndLast DEF Stacked
<1>4. f \in FrameOf(A) BY DEF Fits, Usable
<1>5. Append(Front(stack), f) # <<>> /\ Last(Append(Front(stack), f)) = f BY <1>3, <1>4, Pushed
<1> QED BY <1>2, <1>5 DEF With, Below

-----------------------------------------------------------------------------
(* Frames that are made.                                                   *)
LEMMA FrameIs ==
  ASSUME NEW A, NEW S, Now(A, S), NEW fn \in FrameKind, NEW does \in Does,
         NEW form \in A, NEW env \in A, NEW left \in Nat
  PROVE  Frame(fn, does, form, env, left) \in FrameOf(A)
<1>1. <<>> \in Seq(Obj) /\ <<>> \in Seq(RecordOf(A)) /\ Base \in Obj BY DEF Obj
<1>2. Len(roots) \in Nat /\ Len(envRoots) \in Nat BY NowTop
<1> QED BY <1>1, <1>2 DEF FrameOf, Frame

(* A frame that holds at most its form and its environment.                *)
Plain(f) ==
  /\ f.fn \notin Lists \cup {"iter", "call/cc", "replay"}
  /\ f.callee = Base /\ f.vals = <<>> /\ f.recs = <<>>
  /\ f.fn \in Idle => f.form = Base /\ f.env = Base
LEMMA PlainIsUsable ==
  ASSUME NEW A, NEW S, NEW f \in FrameOf(A), Plain(f)
  PROVE  Usable(f, A, S)
BY DEF Usable, Plain

(* What may be waited for.                                                 *)
Ready(st) == st # <<>> /\ (Last(st).fn = "body" => Last(st).left > 0)

LEMMA PushPlain ==
  ASSUME NEW A, NEW S, NEW st, NEW rts, NEW ers, Stacked(st, rts, ers, A, S), Ready(st),
         NEW f, NEW r \in Seq(A), NEW e \in Seq(A), Fits(f, r, e, A, S),
         Agree(r, rts, Len(rts)), Agree(e, ers, Len(ers)),
         Len(rts) <= Floor(f), f.emark = Len(ers), f.fn \notin Resumes \cup {"top"}
  PROVE  /\ Stacked(Append(st, f), r, e, A, S)
         /\ Append(st, f) # <<>> /\ Last(Append(st, f)) = f /\ Front(Append(st, f)) = st
<1>1. Follows(f, st, rts, ers, S) BY DEF Follows, Ready, Resumes
<1>2. st \in Seq(FrameOf(A)) /\ f \in FrameOf(A) BY DEF Stacked, Fits, Usable
<1> QED BY <1>1, <1>2, PushKeeps, Pushed

(* An evaluation begins: the form and the environment go into slots.       *)
LEMMA EvalKeeps ==
  ASSUME NEW A, NEW S, Now(A, S), NEW st, Stacked(st, roots, envRoots, A, S), Ready(st),
         NEW form \in A, NEW env \in A, Eval(st, form, env)
  PROVE  /\ Stacked(stack', roots', envRoots', A, S) /\ stack' # <<>>
         /\ Last(stack').fn = "eval"
<1> DEFINE f == Frame("eval", "", form, env, 0)
<1>1. /\ A \in SUBSET Obj /\ Base \in A /\ roots \in Seq(A) /\ envRoots \in Seq(A)
      /\ Len(roots) \in Nat /\ Len(envRoots) \in Nat
  BY NowFacts, NowTop
<1>2. /\ stack' = Append(st, f) /\ roots' = Append(roots, form) /\ envRoots' = Append(envRoots, env)
  BY DEF Eval
<1>3. /\ Usable(f, A, S) /\ f.fn = "eval" /\ f.form = form /\ f.env = env
      /\ f.mark = Len(roots) /\ f.emark = Len(envRoots)
  <2>1. "eval" \in FrameKind /\ "" \in Does /\ 0 \in Nat BY DEF FrameKind, Does
  <2>2. f \in FrameOf(A) BY <2>1, FrameIs
  <2>3. /\ f.fn = "eval" /\ f.form = form /\ f.env = env
        /\ f.mark = Len(roots) /\ f.emark = Len(envRoots)
        /\ f.callee = Base /\ f.vals = <<>> /\ f.recs = <<>>
    BY DEF Frame
  <2> HIDE DEF f
  <2>4. Plain(f) BY <2>3 DEF Plain, Lists, Idle
  <2> QED BY <2>2, <2>3, <2>4, PlainIsUsable
<1> HIDE DEF f
<1>4. /\ roots' \in Seq(A) /\ Len(roots') = Len(roots) + 1 /\ roots'[Len(roots) + 1] = form
      /\ Agree(roots', roots, Len(roots))
      /\ envRoots' \in Seq(A) /\ Len(envRoots') = Len(envRoots) + 1
      /\ envRoots'[Len(envRoots) + 1] = env /\ Agree(envRoots', envRoots, Len(envRoots))
  BY <1>1, <1>2, PushFacts
<1>5. Rooted(f, roots', Len(roots')) BY <1>1, <1>3, <1>4 DEF Rooted, Ceil, Lists
<1>6. EnvRooted(f, envRoots') /\ Len(envRoots') = EnvEnd(f)
  BY <1>1, <1>3, <1>4 DEF EnvRooted, EnvEnd, Slots
<1>7. Fits(f, roots', envRoots', A, S) BY <1>3, <1>5, <1>6 DEF Fits
<1>8. Len(roots) <= Floor(f) /\ f.fn \notin Resumes \cup {"top"} BY <1>1, <1>3 DEF Floor, Resumes
<1>9. /\ Stacked(Append(st, f), roots', envRoots', A, S)
      /\ Append(st, f) # <<>> /\ Last(Append(st, f)) = f
  BY <1>3, <1>4, <1>7, <1>8, PushPlain
<1> QED BY <1>2, <1>3, <1>9

(* One form of the frame on top is begun.                                  *)

(* One form of the frame on top is begun.                                  *)
Takes(f) == f.left > 0 /\ f.fn # "replay" /\ (f.fn = "body" => f.left > 1)
LEMMA LeftKeeps ==
  ASSUME NEW A, NEW S, Now(A, S), ans = Nothing, Takes(Top)
  PROVE  LET st == With([Top EXCEPT !.left = @ - 1])
         IN  Stacked(st, roots, envRoots, A, S) /\ Ready(st)
<1> DEFINE f == [Top EXCEPT !.left = @ - 1]
<1>1. /\ Top \in FrameOf(A) /\ Usable(Top, A, S) /\ Fits(Top, roots, envRoots, A, S)
      /\ roots \in Seq(A) /\ envRoots \in Seq(A)
      /\ Len(roots) \in Nat /\ Len(envRoots) \in Nat
      /\ Floor(Top) \in Nat /\ Floor(Top) <= Len(roots)
      /\ Top.emark \in Nat /\ Top.emark <= Len(envRoots) /\ Top.left \in Nat
      /\ (Top.fn = "top" => Top.mark = 0)
  BY NowTop
<1>2. /\ f.fn = Top.fn /\ f.does = Top.does /\ f.form = Top.form
      /\ f.env = Top.env /\ f.left = Top.left - 1 /\ f.callee = Top.callee /\ f.vals = Top.vals
      /\ f.recs = Top.recs /\ f.mark = Top.mark /\ f.emark = Top.emark
  BY <1>1 DEF FrameOf
<1>3. f \in FrameOf(A)
  <2>1. Top.left - 1 \in Nat BY <1>1 DEF Takes
  <2> QED BY <1>1, <2>1 DEF FrameOf
<1> HIDE DEF f
<1>4. f.fn \in Lists => Enough(f.vals, f.left + 1, f.does)
  <2>1. Top.fn \in Lists => Enough(Top.vals, Top.left, Top.does)
    BY DEF Now, Holds, Rests, Top
  <2>2. f.left + 1 = Top.left BY <1>1, <1>2
  <2> QED BY <1>2, <2>1, <2>2
<1>5. Usable(f, A, S) BY <1>1, <1>2, <1>3, <1>4 DEF Usable, Takes
<1>6. Rooted(f, roots, Len(roots)) BY <1>1, <1>2 DEF Fits, Rooted, Ceil
<1>7. EnvRooted(f, envRoots) BY <1>1, <1>2 DEF Fits, EnvRooted, Slots
<1>8. EnvEnd(f) = EnvEnd(Top) /\ Floor(f) = Floor(Top) BY <1>2 DEF EnvEnd, Floor, Slots
<1>9. Fits(f, roots, envRoots, A, S) BY <1>1, <1>5, <1>6, <1>7, <1>8 DEF Fits
<1>10. Succeeds(f, Top) BY <1>1, <1>2, <1>8 DEF Succeeds
<1>11. Agree(roots, roots, Floor(Top)) /\ Agree(envRoots, envRoots, Top.emark)
  BY <1>1 DEF Agree
<1>12. Stacked(With(f), roots, envRoots, A, S) /\ With(f) # <<>> /\ Last(With(f)) = f
  BY <1>1, <1>9, <1>10, <1>11, TopKeeps
<1>13. f.fn = "body" => f.left > 0 BY <1>1, <1>2 DEF Takes
<1>14. Stacked(With(f), roots, envRoots, A, S) /\ Ready(With(f)) BY <1>12, <1>13 DEF Ready
<1> QED BY <1>14 DEF f

(* The frame below the top one waits for it.                               *)
LEMMA BelowReady ==
  ASSUME NEW A, NEW S, Now(A, S), Top.fn # "top"
  PROVE  Ready(Below)
<1>1. Below # <<>> /\ WaitsOn(Top, Last(Below), S) BY NowFacts, BelowFacts DEF Top, Below
<1> QED BY <1>1 DEF Ready, WaitsOn

(* An argument list has been read: what the call runs on.                  *)
LEMMA SettledKeeps ==
  ASSUME NEW A, NEW S, Now(A, S), Top.fn \in Lists
  PROVE  /\ Stacked(Settled.st, Settled.rts, envRoots, A, S) /\ Ready(Settled.st)
         /\ Settled.rts \in Seq(A) /\ Agree(Settled.rts, roots, Floor(Top))
         /\ Top.callee \in A /\ Top.vals \in Seq(A)
<1>1. /\ roots \in Seq(A) /\ envRoots \in Seq(A) /\ Len(roots) \in Nat /\ Len(envRoots) \in Nat
      /\ Usable(Top, A, S) /\ Floor(Top) = Top.mark /\ Top.mark \in Nat /\ Top.mark <= Len(roots)
      /\ Top.emark \in Nat /\ ~Slots(Top) /\ Top.fn # "top"
  BY NowTop DEF Floor, Lists, Slots
<1>2. Len(envRoots) = Top.emark BY <1>1, NoSlots
<1>3. Top.callee \in A /\ Top.vals \in Seq(A) BY <1>1 DEF Usable
<1> DEFINE r0 == Cut(roots, Top.mark)
<1>4. r0 \in Seq(A) /\ Len(r0) = Top.mark /\ Agree(r0, roots, Top.mark) BY <1>1, CutFacts
<1> HIDE DEF r0
<1>5. Stacked(Below, r0, envRoots, A, S)
  <2>1. Agree(envRoots, envRoots, Top.emark) BY <1>1, <1>2 DEF Agree
  <2>2. Stacked(stack, roots, envRoots, A, S) /\ stack # <<>> BY NowFacts
  <2> QED BY <1>1, <1>2, <1>4, <2>1, <2>2, PopKeeps DEF Top, Below
<1>6. Ready(Below) BY <1>1, BelowReady
<1>7. CASE Top.fn = "args"
  <2>1. Settled.st = Below /\ Settled.rts = r0 BY <1>7 DEF Settled, r0
  <2> QED BY <1>1, <1>3, <1>4, <1>5, <1>6, <2>1
<1>8. CASE Top.fn # "args"
  <2> DEFINE f  == CallFrame("settled", Top.mark)
             r1 == roots \o <<Top.callee>>
             r  == r1 \o Top.vals
  <2>1. Settled.st = Append(Below, f) /\ Settled.rts = r BY <1>8 DEF Settled
  <2>2. f \in FrameOf(A)
    <3>1. Frame("call", "settled", Base, Base, 0) \in FrameOf(A)
      <4>1. "call" \in FrameKind /\ "settled" \in Does /\ 0 \in Nat BY DEF FrameKind, Does
      <4> QED BY <4>1, NowFacts, FrameIs
    <3> QED BY <1>1, <3>1 DEF CallFrame, FrameOf
  <2>3. /\ f.fn = "call" /\ f.does = "settled" /\ f.form = Base /\ f.env = Base
        /\ f.mark = Top.mark /\ f.emark = Len(envRoots)
        /\ f.callee = Base /\ f.vals = <<>> /\ f.recs = <<>>
    BY DEF CallFrame, Frame
  <2>4. r1 \in Seq(A) /\ Len(r1) = Len(roots) + 1 /\ Agree(r1, roots, Len(roots))
    <3>1. <<Top.callee>> \in Seq(A) /\ Len(<<Top.callee>>) = 1 BY <1>3
    <3> HIDE DEF r
    <3> DEFINE one == <<Top.callee>>
    <3> HIDE DEF one
    <3>2. /\ roots \o one \in Seq(A) /\ Len(roots \o one) = Len(roots) + 1
          /\ \A n \in Nat : n <= Len(roots) => Agree(roots \o one, roots, n)
      BY <1>1, <3>1, JoinFacts DEF one
    <3>3. Agree(roots \o one, roots, Len(roots)) BY <1>1, <3>2
    <3> QED BY <3>2, <3>3 DEF one
  <2> HIDE DEF f, r1
  <2>5. r \in Seq(A) /\ Len(r) \in Nat /\ Len(r) >= Len(r1) /\ Agree(r, r1, Len(r1))
    <3>1. Len(r1) \in Nat BY <1>1, <2>4
    <3>2. /\ r1 \o Top.vals \in Seq(A) /\ Len(r1 \o Top.vals) = Len(r1) + Len(Top.vals)
          /\ Len(Top.vals) \in Nat /\ \A n \in Nat : n <= Len(r1) => Agree(r1 \o Top.vals, r1, n)
      BY <1>3, <2>4, JoinFacts
    <3> QED BY <3>1, <3>2
  <2> HIDE DEF r
  <2>6. Agree(r, roots, Top.mark) /\ Agree(r, r0, Len(r0))
    BY <1>1, <1>4, <2>4, <2>5 DEF Agree
  <2>7. Fits(f, r, envRoots, A, S)
    <3>1. Plain(f) BY <2>3 DEF Plain, Lists, Idle
    <3>2. Usable(f, A, S) BY <2>2, <3>1, PlainIsUsable
    <3>3. Ceil(f) <= Len(r) BY <1>1, <2>3, <2>4, <2>5 DEF Ceil
    <3>4. Rooted(f, r, Len(r)) BY <2>3, <3>3 DEF Rooted, Lists
    <3>5. EnvRooted(f, envRoots) /\ Len(envRoots) = EnvEnd(f)
      BY <2>3 DEF EnvRooted, EnvEnd, Slots
    <3> QED BY <3>2, <3>4, <3>5 DEF Fits
  <2>8. /\ Stacked(Append(Below, f), r, envRoots, A, S)
        /\ Append(Below, f) # <<>> /\ Last(Append(Below, f)) = f
    <3>1. Len(r0) <= Floor(f) BY <1>1, <1>4, <2>3 DEF Floor
    <3>2. Agree(envRoots, envRoots, Len(envRoots)) BY <1>1 DEF Agree
    <3>3. f.fn \notin Resumes \cup {"top"} BY <2>3 DEF Resumes
    <3> QED BY <1>1, <1>5, <1>6, <2>3, <2>5, <2>6, <2>7, <3>1, <3>2, <3>3, PushPlain
  <2>9. Ready(Append(Below, f)) BY <2>3, <2>8 DEF Ready
  <2> QED BY <1>1, <1>3, <2>1, <2>5, <2>6, <2>8, <2>9
<1> QED BY <1>7, <1>8

-----------------------------------------------------------------------------
(* Calls.                                                                  *)

(* A closure is entered: its frame takes an environment slot.              *)
LEMMA EnterKeeps ==
  ASSUME NEW A, NEW S, Now(A, S), NEW st, Stacked(st, roots', envRoots, A, S), Ready(st),
         NEW h, HeapOf(h, A), NEW free \in SUBSET Ids, free # {}, NEW c \in A, NEW vals \in Seq(A),
         EnterClosure(h, free, st, c, vals), Alive(heap') \subseteq A
  PROVE  /\ Stacked(stack', roots', envRoots', A, S) /\ stack' # <<>> /\ Last(stack').fn = "body"
         /\ HeapOf(heap', A) /\ ans' = Nothing /\ Alive(h) \subseteq Alive(heap')
<1> DEFINE env  == Least(free)
           node == Node("env", ({c} \cup Range(vals)) \ {Base}, h[c].up)
<1>1. /\ A \in SUBSET Obj /\ Base \in A /\ roots' \in Seq(A) /\ envRoots \in Seq(A)
      /\ Len(roots') \in Nat /\ Len(envRoots) \in Nat
  <2>1. roots' \in Seq(A) BY DEF Stacked
  <2> QED BY <2>1, NowFacts, NowTop, LenProperties
<1>2. env \in Ids /\ env \in Obj BY LeastIn DEF Obj
<1>3. /\ heap' = [h EXCEPT ![env] = node] /\ envRoots' = Append(envRoots, env) /\ ans' = Nothing
  BY DEF EnterClosure
<1>4. PICK form \in h[c].refs, n \in 1 .. MaxForms :
        stack' = Append(st, [Frame("body", "fn", form, env, n) EXCEPT !.mark = Len(roots')])
  BY DEF EnterClosure
<1> HIDE DEF env
<1>5. node \in NodeOf(A) /\ node.kind = "env"
  <2>1. Range(vals) \subseteq A
    <3>1. \A i \in DOMAIN vals : vals[i] \in A BY LenProperties
    <3> QED BY <3>1 DEF Range
  <2>2. ({c} \cup Range(vals)) \ {Base} \in SUBSET A BY <2>1
  <2>3. h[c].up \in A /\ "env" \in Kind BY <1>1, NodesOf DEF Kind
  <2> QED BY <2>2, <2>3, NodeIs
<1> HIDE DEF node
<1>6. HeapOf(heap', A) /\ env \in Alive(heap') /\ Alive(h) \subseteq Alive(heap')
  <2>1. node.kind # "free" BY <1>5
  <2> QED BY <1>1, <1>2, <1>3, <1>5, <2>1, Made
<1>7. env \in A /\ form \in A
  <2>1. h[c].refs \subseteq A BY <1>1, NodesOf
  <2> QED BY <1>4, <1>6, <2>1
<1> DEFINE f == [Frame("body", "fn", form, env, n) EXCEPT !.mark = Len(roots')]
<1>8. f \in FrameOf(A)
  <2>1. "body" \in FrameKind /\ "fn" \in Does /\ n \in Nat
    BY <1>4, RootsAssumption DEF FrameKind, Does
  <2>2. Frame("body", "fn", form, env, n) \in FrameOf(A) BY <1>7, <2>1, FrameIs
  <2> QED BY <1>1, <2>2 DEF FrameOf
<1>9. /\ f.fn = "body" /\ f.does = "fn" /\ f.form = form /\ f.env = env
      /\ f.mark = Len(roots') /\ f.emark = Len(envRoots)
      /\ f.callee = Base /\ f.vals = <<>> /\ f.recs = <<>>
  BY DEF Frame
<1> HIDE DEF f
<1>10. /\ envRoots' \in Seq(A) /\ Len(envRoots') = Len(envRoots) + 1
       /\ envRoots'[Len(envRoots) + 1] = env /\ Agree(envRoots', envRoots, Len(envRoots))
  BY <1>1, <1>3, <1>7, PushFacts
<1>11. Fits(f, roots', envRoots', A, S)
  <2>1. Plain(f) BY <1>9 DEF Plain, Lists, Idle
  <2>2. Usable(f, A, S) BY <1>8, <2>1, PlainIsUsable
  <2>3. Rooted(f, roots', Len(roots')) BY <1>1, <1>9 DEF Rooted, Ceil, Lists
  <2>4. EnvRooted(f, envRoots') /\ Len(envRoots') = EnvEnd(f)
    BY <1>1, <1>9, <1>10 DEF EnvRooted, EnvEnd, Slots
  <2> QED BY <2>2, <2>3, <2>4 DEF Fits
<1>12. Agree(roots', roots', Len(roots')) /\ Len(roots') <= Floor(f)
       /\ f.fn \notin Resumes \cup {"top"}
  BY <1>1, <1>9 DEF Agree, Floor, Resumes
<1>13. /\ Stacked(Append(st, f), roots', envRoots', A, S)
       /\ Append(st, f) # <<>> /\ Last(Append(st, f)) = f
  BY <1>1, <1>9, <1>10, <1>11, <1>12, PushPlain
<1>14. stack' = Append(st, f) BY <1>4 DEF f
<1> QED BY <1>3, <1>6, <1>9, <1>13, <1>14

(* A frame that only waits for its answer is pushed under a call.          *)
LEMMA PushBare ==
  ASSUME NEW A, NEW S, Now(A, S), NEW st, NEW rts, NEW r, Stacked(st, rts, envRoots, A, S), Ready(st),
         rts \in Seq(A), r \in Seq(A), Agree(r, rts, Len(rts)),
         NEW f, Usable(f, A, S), f.fn \in {"call", "iter", "call/cc", "replay"},
         f.mark = Len(rts), f.emark = Len(envRoots)
  PROVE  /\ Stacked(Append(st, f), r, envRoots, A, S) /\ Ready(Append(st, f))
         /\ Last(Append(st, f)) = f
<1>1. envRoots \in Seq(A) /\ Len(envRoots) \in Nat BY NowTop
<1>2. Len(rts) \in Nat /\ Len(r) \in Nat /\ Len(rts) <= Len(r) BY LenProperties DEF Agree
<1>3. Fits(f, r, envRoots, A, S)
  <2>1. Rooted(f, r, Len(r)) BY <1>2 DEF Rooted, Ceil, Lists
  <2>2. EnvRooted(f, envRoots) /\ Len(envRoots) = EnvEnd(f) BY DEF EnvRooted, EnvEnd, Slots
  <2> QED BY <2>1, <2>2 DEF Fits
<1>4. Agree(envRoots, envRoots, Len(envRoots)) /\ Len(rts) <= Floor(f)
      /\ f.fn \notin Resumes \cup {"top"}
  BY <1>1, <1>2 DEF Agree, Floor, Resumes
<1>5. /\ Stacked(Append(st, f), r, envRoots, A, S)
      /\ Append(st, f) # <<>> /\ Last(Append(st, f)) = f
  BY <1>1, <1>3, <1>4, PushPlain
<1> QED BY <1>5 DEF Ready

LEMMA CallKeeps ==
  ASSUME NEW A, NEW S, Now(A, S), NEW h, HeapOf(h, A), NEW free \in SUBSET Ids,
         NEW does \in Does, NEW base,
         Stacked(base.st, base.rts, envRoots, A, S), Ready(base.st), base.rts \in Seq(A),
         NEW c \in A, NEW vals \in Seq(A),
         CallWithValues(h, free, does, base, c, vals), Alive(heap') \subseteq A
  PROVE  /\ Stacked(stack', roots', envRoots', A, S) /\ stack' # <<>> /\ Last(stack').fn = "body"
         /\ HeapOf(heap', A) /\ ans' = Nothing /\ Alive(h) \subseteq Alive(heap')
<1> DEFINE f == CallFrame(does, Len(base.rts))
<1>1. /\ free # {} /\ roots' = base.rts \o <<c>> \o vals
      /\ EnterClosure(h, free, Append(base.st, f), c, vals)
  BY DEF CallWithValues
<1>2. Len(base.rts) \in Nat BY LenProperties
<1>3. f \in FrameOf(A)
  <2>1. Frame("call", does, Base, Base, 0) \in FrameOf(A)
    <3>1. "call" \in FrameKind /\ 0 \in Nat BY DEF FrameKind
    <3> QED BY <3>1, NowFacts, FrameIs
  <2> QED BY <1>2, <2>1 DEF CallFrame, FrameOf
<1>4. /\ f.fn = "call" /\ f.form = Base /\ f.env = Base
      /\ f.mark = Len(base.rts) /\ f.emark = Len(envRoots)
      /\ f.callee = Base /\ f.vals = <<>> /\ f.recs = <<>>
  BY DEF CallFrame, Frame
<1> HIDE DEF f
<1>5. Usable(f, A, S)
  <2>1. Plain(f) BY <1>4 DEF Plain, Lists, Idle
  <2> QED BY <1>3, <2>1, PlainIsUsable
<1>6. roots' \in Seq(A) /\ Agree(roots', base.rts, Len(base.rts))
  <2> DEFINE one == <<c>>
             r1  == base.rts \o one
  <2>1. one \in Seq(A) /\ Len(one) = 1 OBVIOUS
  <2> HIDE DEF one
  <2>2. r1 \in Seq(A) /\ Len(r1) = Len(base.rts) + 1 /\ \A n \in Nat : n <= Len(base.rts) => Agree(r1, base.rts, n)
    BY <2>1, JoinFacts
  <2>3. Agree(r1, base.rts, Len(base.rts)) BY <1>2, <2>2
  <2> HIDE DEF r1
  <2>4. r1 \o vals \in Seq(A) /\ \A n \in Nat : n <= Len(r1) => Agree(r1 \o vals, r1, n)
    BY <2>2, JoinFacts
  <2>5. Agree(r1 \o vals, r1, Len(base.rts)) BY <1>2, <2>2, <2>4
  <2>6. Agree(r1 \o vals, base.rts, Len(base.rts)) BY <2>3, <2>5 DEF Agree
  <2> QED BY <1>1, <2>4, <2>6 DEF r1, one
<1>7. Stacked(Append(base.st, f), roots', envRoots, A, S) /\ Ready(Append(base.st, f))
  BY <1>4, <1>5, <1>6, PushBare
<1> QED BY <1>1, <1>7, EnterKeeps

-----------------------------------------------------------------------------
(* The heap of a step.                                                     *)
LEMMA HeapMakes ==
  ASSUME NEW A, NEW S, Now(A, S), Covers(A, S), Fresh # {}, NEW node \in NodeOf(A),
         node.kind # "free", heap' = [heap EXCEPT ![NewObj] = node]
  PROVE  HeapGoes(A) /\ NewObj \in A /\ NewObj \in Obj
<1>1. NewObj \in Obj BY FreshFacts DEF Obj
<1>2. HeapOf(heap', A) /\ NewObj \in Alive(heap') /\ Alive(heap) \subseteq Alive(heap')
  BY <1>1, NowFacts, Made
<1> QED BY <1>1, <1>2 DEF HeapGoes, Covers

LEMMA HeapWrites ==
  ASSUME NEW A, NEW S, Now(A, S), NEW o \in Obj, NEW R \in SUBSET A,
         heap' = [heap EXCEPT ![o].refs = R]
  PROVE  HeapGoes(A)
BY NowFacts, Written DEF HeapGoes

LEMMA BindKeeps ==
  ASSUME NEW A, NEW S, Now(A, S), NEW env \in A, NEW v \in A, Bind(env, v)
  PROVE  HeapGoes(A)
<1> DEFINE e == IF Pending THEN env ELSE Base
<1>1. e \in A /\ A \subseteq Obj BY NowFacts
<1>2. PICK old \in {Base} \cup heap[e].refs :
        heap' = [heap EXCEPT ![e].refs = ((heap[e].refs \ {old}) \cup {v}) \ {Base}]
  BY DEF Bind
<1> DEFINE R == ((heap[e].refs \ {old}) \cup {v}) \ {Base}
<1>3. e \in Obj BY <1>1
<1> HIDE DEF e
<1>4. heap[e].refs \subseteq A BY <1>3, NowFacts, NodesOf
<1>5. R \in SUBSET A BY <1>4
<1>6. heap' = [heap EXCEPT ![e].refs = R] BY <1>2
<1> HIDE DEF R
<1> QED BY <1>3, <1>5, <1>6, HeapWrites

(* What may be looked up.                                                  *)
LEMMA AtomsWithin ==
  ASSUME NEW A, NEW S, Now(A, S), NEW env \in A
  PROVE  Atoms(env) \subseteq A /\ Bound(env) \subseteq A /\ Chain(env) \subseteq A
BY NowFacts, ChainWithin DEF Atoms

-----------------------------------------------------------------------------
(* The steps, one by one: forms that answer at once.                       *)
LEMMA LooksUpKeeps ==
  ASSUME NEW A, NEW S, Now(A, S), LooksUp
  PROVE  Later(A, S)
<1>1. PICK v \in Bound(Top.env) : ans' = Ok(v) BY DEF LooksUp
<1>2. v \in A BY <1>1, AtomsWithin, NowTop
<1>3. AnswerOf(ans', A) /\ ans' # Nothing BY <1>1, <1>2, NowFacts, AnswersGiven
<1>4. HeapGoes(A) BY HeapQuiet DEF LooksUp
<1> QED BY <1>3, <1>4, StackStays DEF LooksUp

LEMMA RaiseErrorKeeps ==
  ASSUME NEW A, NEW S, Now(A, S), RaiseError
  PROVE  Later(A, S)
<1>1. AnswerOf(ans', A) /\ ans' # Nothing BY NowFacts, AnswersGiven DEF RaiseError
<1>2. HeapGoes(A) BY HeapQuiet DEF RaiseError
<1> QED BY <1>1, <1>2, StackStays DEF RaiseError

LEMMA ClosesKeeps ==
  ASSUME NEW A, NEW S, Now(A, S), Covers(A, S), Closes
  PROVE  Later(A, S)
<1> DEFINE node == Node("fn", {Top.form}, Top.env)
<1>1. Fresh # {} /\ heap' = [heap EXCEPT ![NewObj] = node] /\ ans' = Ok(NewObj) BY DEF Closes
<1>2. Top.form \in A /\ Top.env \in A BY NowTop
<1>3. node \in NodeOf(A) /\ node.kind # "free"
  <2>1. {Top.form} \in SUBSET A /\ "fn" \in Kind BY <1>2 DEF Kind
  <2> QED BY <1>2, <2>1, NodeIs
<1> HIDE DEF node
<1>4. HeapGoes(A) /\ NewObj \in A BY <1>1, <1>3, HeapMakes
<1>5. AnswerOf(ans', A) /\ ans' # Nothing BY <1>1, <1>4, NowFacts, AnswersGiven
<1> QED BY <1>4, <1>5, StackStays DEF Closes

LEMMA ForgetKeeps ==
  ASSUME NEW A, NEW S, Now(A, S), Forget
  PROVE  Later(A, S)
<1>1. PICK e \in Chain(Top.env) : \E o \in heap[e].refs :
        heap' = [heap EXCEPT ![e].refs = @ \ {o}]
  BY DEF Forget
<1>2. PICK o \in heap[e].refs : heap' = [heap EXCEPT ![e].refs = @ \ {o}] BY <1>1
<1>3. e \in A /\ e \in Obj BY <1>1, AtomsWithin, NowTop, NowFacts
<1>4. heap[e].refs \ {o} \in SUBSET A BY <1>3, NowFacts, NodesOf
<1>5. heap' = [heap EXCEPT ![e].refs = heap[e].refs \ {o}] BY <1>2
<1>6. HeapGoes(A) BY <1>3, <1>4, <1>5, HeapWrites
<1>7. AnswerOf(ans', A) /\ ans' # Nothing BY NowFacts, AnswersGiven DEF Forget
<1> QED BY <1>6, <1>7, StackStays DEF Forget

LEMMA BodyAnswersKeeps ==
  ASSUME NEW A, NEW S, Now(A, S), BodyAnswers
  PROVE  Later(A, S)
<1>1. AnswerOf(ans', A) BY NowFacts, AnswersGiven DEF BodyAnswers
<1>2. Top.fn \notin Lists \cup {"top", "source"} BY DEF BodyAnswers, At, Lists
<1>3. HeapGoes(A) BY HeapQuiet DEF BodyAnswers
<1> QED BY <1>1, <1>2, <1>3, StackStays DEF BodyAnswers

(* Forms that are begun.                                                   *)
LEMMA TopIsEval ==
  ASSUME NEW A, NEW S, Now(A, S), Top.fn = "eval"
  PROVE  /\ Ready(stack) /\ Last(stack) = Top
         /\ Top.mark + 1 \in 1 .. Len(roots) /\ roots[Top.mark + 1] = Top.form
         /\ Top.emark + 1 \in 1 .. Len(envRoots) /\ envRoots[Top.emark + 1] = Top.env
         /\ Len(envRoots) = Top.emark + 1
<1>1. Ready(stack) /\ Last(stack) = Top BY NowFacts DEF Ready, Top
<1>2. Fits(Top, roots, envRoots, A, S) /\ Top.mark \in Nat /\ Top.emark \in Nat
      /\ Len(roots) \in Nat /\ Len(envRoots) \in Nat
  BY NowTop
<1>3. Ceil(Top) <= Len(roots) /\ roots[Top.mark + 1] = Top.form BY <1>2 DEF Fits, Rooted
<1>4. envRoots[Top.emark + 1] = Top.env /\ Len(envRoots) = Top.emark + 1
  BY <1>2 DEF Fits, EnvRooted, EnvEnd, Slots
<1> QED BY <1>1, <1>2, <1>3, <1>4 DEF Ceil

LEMMA WaitsKeeps ==
  ASSUME NEW A, NEW S, Now(A, S), Top.fn = "eval", ans = Nothing,
         NEW fn \in {"body", "guard", "def"}, NEW n \in Nat, Waits(fn, n)
  PROVE  Later(A, S)
<1> DEFINE f == Frame(fn, "", Top.form, Top.env, n)
<1>1. /\ Top.form \in A /\ Top.env \in A /\ roots \in Seq(A) /\ envRoots \in Seq(A)
      /\ Len(roots) \in Nat /\ Len(envRoots) \in Nat
  BY NowTop
<1>2. f \in FrameOf(A)
  <2>1. fn \in FrameKind /\ "" \in Does BY DEF FrameKind, Does
  <2> QED BY <1>1, <2>1, FrameIs
<1>3. /\ f.fn = fn /\ f.does = "" /\ f.form = Top.form /\ f.mark = Len(roots)
      /\ f.emark = Len(envRoots) /\ f.callee = Base /\ f.vals = <<>> /\ f.recs = <<>>
  BY DEF Frame
<1>4. f.fn \in {"body", "guard", "def"} /\ f.fn \notin {"eval", "args", "source"} BY <1>3
<1>5. Stacked(stack, roots, envRoots, A, S) /\ Ready(stack) BY NowFacts, TopIsEval
<1>6. stack' = Append(stack, f) /\ UNCHANGED <<heap, roots, envRoots, ans, snaps>> BY DEF Waits
<1> HIDE DEF f
<1>7. Floor(f) = Len(roots) /\ Ceil(f) = Len(roots) BY <1>3, <1>4 DEF Floor, Ceil
<1>8. Fits(f, roots, envRoots, A, S)
  <2>1. Plain(f) BY <1>3 DEF Plain, Lists, Idle
  <2>2. Usable(f, A, S) BY <1>2, <2>1, PlainIsUsable
  <2>3. \E p \in 1 .. Len(roots) : roots[p] = f.form BY <1>3, TopIsEval
  <2>6. Ceil(f) <= Len(roots) BY <1>1, <1>7
  <2>4. Rooted(f, roots, Len(roots)) BY <1>4, <2>3, <2>6 DEF Rooted, Lists
  <2>5. EnvRooted(f, envRoots) /\ Len(envRoots) = EnvEnd(f) BY <1>3 DEF EnvRooted, EnvEnd, Slots
  <2> QED BY <2>2, <2>4, <2>5 DEF Fits
<1>9. Agree(roots, roots, Len(roots)) /\ Agree(envRoots, envRoots, Len(envRoots)) BY <1>1 DEF Agree
<1>10. f.fn \notin Resumes \cup {"top"} BY <1>4 DEF Resumes
<1>11. Len(roots) <= Floor(f) BY <1>1, <1>7
<1>12. f.emark = Len(envRoots) /\ roots \in Seq(A) /\ envRoots \in Seq(A) BY <1>1, <1>3
<1>13. /\ Stacked(Append(stack, f), roots, envRoots, A, S)
      /\ Append(stack, f) # <<>> /\ Last(Append(stack, f)) = f
  BY <1>8, <1>5, <1>9, <1>10, <1>11, <1>12, PushPlain
<1>14. Rests(stack', roots', ans') BY <1>3, <1>6, <1>13, SomeAnswer DEF Lists
<1>15. Stacked(stack', roots', envRoots', A, S) /\ stack' # <<>> BY <1>6, <1>13
<1>16. HeapGoes(A) /\ AnswerOf(ans', A) BY <1>6, HeapQuiet, NowFacts
<1> QED BY <1>6, <1>14, <1>15, <1>16, Lands

LEMMA WaitingKeeps ==
  ASSUME NEW A, NEW S, Now(A, S), Sequence \/ Guard \/ Define
  PROVE  Later(A, S)
<1>1. ans = Nothing /\ Top.fn = "eval" BY DEF Sequence, Guard, Define, Evaluates
<1>2. CASE Sequence
  <2>1. PICK n \in 1 .. MaxForms : Waits("body", n) BY <1>2 DEF Sequence
  <2>2. n \in Nat BY RootsAssumption
  <2> QED BY <1>1, <2>1, <2>2, WaitsKeeps
<1>3. CASE Guard BY <1>1, <1>3, WaitsKeeps DEF Guard
<1>4. CASE Define BY <1>1, <1>4, WaitsKeeps DEF Define
<1> QED BY <1>2, <1>3, <1>4

(* A frame is pushed on the one that evaluates.                            *)
LEMMA PushStep ==
  ASSUME NEW A, NEW S, Now(A, S), Top.fn = "eval", NEW f, Fits(f, roots', envRoots, A, S),
         roots' \in Seq(A), Agree(roots', roots, Len(roots)), Len(roots) <= Floor(f),
         f.emark = Len(envRoots), f.fn \notin Resumes \cup {"top"},
         stack' = Append(stack, f), UNCHANGED <<heap, envRoots, ans, snaps>>,
         Rests(Append(stack, f), roots', ans)
  PROVE  Later(A, S)
<1>1. Stacked(stack, roots, envRoots, A, S) /\ Ready(stack) /\ AnswerOf(ans, A)
  BY NowFacts, TopIsEval
<1>2. envRoots \in Seq(A) /\ Len(envRoots) \in Nat BY NowTop
<1>3. Agree(envRoots, envRoots, Len(envRoots)) BY <1>2 DEF Agree
<1>4. Stacked(Append(stack, f), roots', envRoots, A, S) /\ Append(stack, f) # <<>>
  BY <1>1, <1>2, <1>3, PushPlain
<1>5. HeapGoes(A) BY HeapQuiet
<1>6. Stacked(stack', roots', envRoots', A, S) /\ stack' # <<>> BY <1>4
<1>7. AnswerOf(ans', A) /\ Rests(stack', roots', ans') BY <1>1
<1> QED BY <1>5, <1>6, <1>7, Lands

LEMMA CombineKeeps ==
  ASSUME NEW A, NEW S, Now(A, S), Top.fn = "eval", NEW does \in Does, NEW callee \in A,
         NEW n \in Nat, n >= Arity(does), Combine(does, callee, n)
  PROVE  Later(A, S)
<1> DEFINE g == Frame("args", does, Top.form, Top.env, n)
           f == [g EXCEPT !.callee = callee, !.mark = @ + 1]
           two == <<callee, Top.form>>
<1>1. /\ Top.form \in A /\ Top.env \in A /\ roots \in Seq(A) /\ envRoots \in Seq(A)
      /\ Len(roots) \in Nat /\ Len(envRoots) \in Nat /\ A \subseteq Obj /\ Top.emark \in Nat
  BY NowTop, NowFacts
<1>2. g \in FrameOf(A)
  <2>1. "args" \in FrameKind BY DEF FrameKind
  <2> QED BY <1>1, <2>1, FrameIs
<1>3. f \in FrameOf(A)
  <2> DEFINE h == [g EXCEPT !.callee = callee]
  <2>1. callee \in Obj BY <1>1
  <2>2. f = [h EXCEPT !.mark = @ + 1] OBVIOUS
  <2> HIDE DEF f, g
  <2>3. h \in FrameOf(A) BY <1>2, <2>1 DEF FrameOf
  <2> HIDE DEF h
  <2> QED BY <2>2, <2>3 DEF FrameOf
<1>4. /\ f.fn = "args" /\ f.does = does /\ f.form = Top.form /\ f.env = Top.env /\ f.left = n
      /\ f.mark = Len(roots) + 1 /\ f.emark = Len(envRoots) /\ f.callee = callee
      /\ f.vals = <<>> /\ f.recs = <<>>
  BY DEF Frame
<1>5. stack' = Append(stack, f) /\ roots' = roots \o two /\ UNCHANGED <<heap, envRoots, ans, snaps>>
  BY DEF Combine
<1> HIDE DEF f, g
<1>6. two \in Seq(A) /\ Len(two) = 2 /\ two[1] = callee /\ two[2] = Top.form BY <1>1
<1> HIDE DEF two
<1>7. /\ roots' \in Seq(A) /\ Len(roots') = Len(roots) + 2
      /\ \A p \in 1 .. 2 : roots'[Len(roots) + p] = two[p]
      /\ \A m \in Nat : m <= Len(roots) => Agree(roots', roots, m)
  <2>1. /\ roots \o two \in Seq(A) /\ Len(roots \o two) = Len(roots) + Len(two)
        /\ \A p \in 1 .. Len(two) : (roots \o two)[Len(roots) + p] = two[p]
        /\ \A m \in Nat : m <= Len(roots) => Agree(roots \o two, roots, m)
    <3>1. roots \in Seq(A) /\ two \in Seq(A) BY <1>1, <1>6
    <3> QED BY <3>1, JoinFacts
  <2> QED BY <1>5, <1>6, <2>1
<1>8. roots'[Len(roots) + 1] = callee /\ roots'[Len(roots) + 2] = Top.form BY <1>6, <1>7
<1>9. Agree(roots', roots, Len(roots)) BY <1>1, <1>7
<1>10. Arity(does) \in Nat BY DEF Arity
<1>11. Enough(f.vals, f.left, f.does) /\ Enough(f.vals, f.left + 1, f.does)
  BY <1>4, <1>10 DEF Enough
<1>12. Usable(f, A, S)
  <2>1. <<>> \in Seq(A) OBVIOUS
  <2> QED BY <1>3, <1>4, <1>11, <2>1 DEF Usable, Lists, Idle
<1>13. Rooted(f, roots', Len(roots'))
  <2>1. f.mark > 0 /\ f.mark <= Len(roots') /\ Len(roots) + 2 \in 1 .. Len(roots') BY <1>1, <1>4, <1>7
  <2>2. \E p \in 1 .. Len(roots') : roots'[p] = f.form BY <1>4, <1>8, <2>1
  <2>3. DOMAIN f.vals = {} BY <1>4
  <2>4. Ceil(f) <= Len(roots') BY <1>4, <2>1 DEF Ceil
  <2> QED BY <1>4, <1>8, <2>1, <2>2, <2>3, <2>4 DEF Rooted
<1>14. EnvRooted(f, envRoots) /\ Len(envRoots) = EnvEnd(f)
  <2>1. \E p \in 1 .. f.emark : envRoots[p] = f.env BY <1>4, TopIsEval
  <2> QED BY <1>4, <2>1 DEF EnvRooted, EnvEnd, Slots
<1>15. Fits(f, roots', envRoots, A, S) BY <1>12, <1>13, <1>14 DEF Fits
<1>16. Len(roots) <= Floor(f) /\ f.fn \notin Resumes \cup {"top"}
  BY <1>1, <1>4 DEF Floor, Resumes
<1>17. Rests(Append(stack, f), roots', ans)
  <2>1. Last(Append(stack, f)) = f
    <3>1. stack \in Seq(FrameOf(A)) BY NowFacts DEF Stacked
    <3> QED BY <1>3, <3>1, Pushed
  <2> QED BY <1>4, <1>11, <2>1 DEF Rests
<1> QED BY <1>4, <1>5, <1>7, <1>9, <1>15, <1>16, <1>17, PushStep

LEMMA CombiningKeeps ==
  ASSUME NEW A, NEW S, Now(A, S), CombineInstruction \/ CombineCallable
  PROVE  Later(A, S)
<1>1. Top.fn = "eval" BY DEF CombineInstruction, CombineCallable, Evaluates
<1>2. Base \in A BY NowFacts
<1>3. \A m \in 0 .. MaxArgs : m \in Nat BY RootsAssumption
<1>4. ASSUME NEW does \in {"pair", "call", "apply"}, NEW callee \in A, NEW m \in 0 .. MaxArgs,
             Combine(does, callee, m)
      PROVE  Later(A, S)
  <2>1. does \in Does BY DEF Does
  <2>2. Arity(does) = 0 BY DEF Arity
  <2>3. m \in Nat /\ m >= 0 BY <1>3
  <2> QED BY <1>1, <1>4, <2>1, <2>2, <2>3, CombineKeeps
<1>5. ASSUME NEW does \in {"next", "step", "empty?", "call/cc", "throw"}, NEW callee \in A,
             Combine(does, callee, 1)
      PROVE  Later(A, S)
  <2>1. does \in Does BY DEF Does
  <2>2. Arity(does) = 1 BY DEF Arity
  <2>3. 1 \in Nat /\ 1 >= 1 OBVIOUS
  <2> QED BY <1>1, <1>5, <2>1, <2>2, <2>3, CombineKeeps
<1>6. CASE CombineInstruction
  <2>1. CASE \E n \in 1 .. MaxArgs : Combine("pair", Base, n)
    <3>1. PICK n \in 1 .. MaxArgs : Combine("pair", Base, n) BY <2>1
    <3>2. n \in 0 .. MaxArgs OBVIOUS
    <3> QED BY <1>2, <1>4, <3>1, <3>2
  <2>2. CASE \E door \in {"next", "step", "empty?"} : Combine(door, Base, 1) BY <1>2, <1>5, <2>2
  <2>3. CASE Combine("iter", Base, 2)
    <3>1. "iter" \in Does /\ 2 \in Nat /\ 2 >= Arity("iter") BY DEF Does, Arity
    <3> QED BY <1>1, <1>2, <2>3, <3>1, CombineKeeps
  <2>4. CASE Combine("call/cc", Base, 1) BY <1>2, <1>5, <2>4
  <2> QED BY <1>6, <2>1, <2>2, <2>3, <2>4 DEF CombineInstruction
<1>7. CASE CombineCallable
  <2>1. \A kind : Callable(kind) \subseteq A
    <3>1. Bound(Top.env) \subseteq A BY AtomsWithin, NowTop
    <3> QED BY <3>1 DEF Callable
  <2>2. CASE \E c \in Callable("fn"), n \in 0 .. MaxArgs : Combine("call", c, n)
    BY <1>4, <2>1, <2>2
  <2>3. CASE \E c \in Callable("fn"), n \in 0 .. MaxArgs : Combine("apply", c, n)
    BY <1>4, <2>1, <2>3
  <2>4. CASE \E k \in Callable("cont") : Combine("throw", k, 1)
    BY <1>5, <2>1, <2>4
  <2> QED BY <1>7, <2>2, <2>3, <2>4 DEF CombineCallable
<1> QED BY <1>6, <1>7

LEMMA IncludeKeeps ==
  ASSUME NEW A, NEW S, Now(A, S), Include
  PROVE  Later(A, S)
<1>1. /\ Top.fn = "eval" /\ roots' = Append(roots, Base) /\ UNCHANGED <<heap, envRoots, ans, snaps>>
  BY DEF Include, Evaluates
<1>2. PICK n \in 1 .. MaxForms :
        stack' = Append(stack, [Frame("source", "", Base, Base, n) EXCEPT !.mark = @ + 1])
  BY DEF Include
<1> DEFINE g == Frame("source", "", Base, Base, n)
           f == [g EXCEPT !.mark = @ + 1]
<1>3. /\ Base \in A /\ roots \in Seq(A) /\ Len(roots) \in Nat /\ Len(envRoots) \in Nat
  BY NowTop, NowFacts
<1>4. g \in FrameOf(A)
  <2>1. "source" \in FrameKind /\ "" \in Does /\ n \in Nat BY RootsAssumption DEF FrameKind, Does
  <2> QED BY <1>3, <2>1, FrameIs
<1>5. f \in FrameOf(A)
  <2> HIDE DEF g
  <2> QED BY <1>4 DEF FrameOf
<1>6. /\ f.fn = "source" /\ f.form = Base /\ f.env = Base
      /\ f.mark = Len(roots) + 1 /\ f.emark = Len(envRoots) /\ f.callee = Base
      /\ f.vals = <<>> /\ f.recs = <<>>
  BY DEF Frame
<1>7. stack' = Append(stack, f) BY <1>2
<1> HIDE DEF f, g
<1>8. /\ roots' \in Seq(A) /\ Len(roots') = Len(roots) + 1 /\ Agree(roots', roots, Len(roots))
  BY <1>1, <1>3, PushFacts
<1>9. Usable(f, A, S)
  <2>1. Plain(f) BY <1>6 DEF Plain, Lists, Idle
  <2> QED BY <1>5, <2>1, PlainIsUsable
<1>10. Fits(f, roots', envRoots, A, S)
  <2>1. Rooted(f, roots', Len(roots')) BY <1>3, <1>6, <1>8 DEF Rooted, Ceil, Lists
  <2>2. EnvRooted(f, envRoots) /\ Len(envRoots) = EnvEnd(f) BY <1>6 DEF EnvRooted, EnvEnd, Slots
  <2> QED BY <1>9, <2>1, <2>2 DEF Fits
<1>11. Len(roots) <= Floor(f) /\ f.fn \notin Resumes \cup {"top"}
  BY <1>3, <1>6 DEF Floor, Resumes
<1>12. Rests(Append(stack, f), roots', ans)
  <2>1. Last(Append(stack, f)) = f
    <3>1. stack \in Seq(FrameOf(A)) BY NowFacts DEF Stacked
    <3> QED BY <1>5, <3>1, Pushed
  <2>2. Len(roots') <= f.mark + 1 BY <1>3, <1>6, <1>8
  <2> QED BY <1>6, <2>1, <2>2 DEF Rests, Lists
<1> QED BY <1>1, <1>6, <1>7, <1>8, <1>10, <1>11, <1>12, PushStep

(* Evaluations that are begun.                                             *)
LEMMA BeginKeeps ==
  ASSUME NEW A, NEW S, Now(A, S), Begin
  PROVE  Later(A, S)
<1> DEFINE st == With([Top EXCEPT !.left = @ - 1])
<1>1. /\ ans = Nothing /\ WantsForm(Top) /\ Eval(st, Top.form, Top.env)
      /\ UNCHANGED <<heap, ans, snaps>>
  BY DEF Begin
<1>2. Takes(Top)
  <2>1. Top.left \in Nat BY NowTop
  <2> QED BY <1>1, <2>1 DEF WantsForm, Takes
<1>3. Stacked(st, roots, envRoots, A, S) /\ Ready(st) BY <1>1, <1>2, LeftKeeps
<1> HIDE DEF st
<1>4. Top.form \in A /\ Top.env \in A BY NowTop
<1>5. /\ Stacked(stack', roots', envRoots', A, S) /\ stack' # <<>>
      /\ Last(stack').fn = "eval"
  BY <1>1, <1>3, <1>4, EvalKeeps
<1>6. Rests(stack', roots', ans') BY <1>5, SomeAnswer DEF Lists
<1>7. HeapGoes(A) /\ AnswerOf(ans', A) BY <1>1, HeapQuiet, NowFacts
<1> QED BY <1>1, <1>5, <1>6, <1>7, Lands

LEMMA ReadFormKeeps ==
  ASSUME NEW A, NEW S, Now(A, S), Covers(A, S), ReadForm
  PROVE  Later(A, S)
<1> DEFINE st   == With([Top EXCEPT !.left = @ - 1])
           node == Node("form", {}, Base)
<1>1. /\ ans = Nothing /\ Top.fn \in {"top", "source"} /\ Top.left > 0 /\ Fresh # {}
      /\ heap' = [heap EXCEPT ![NewObj] = node] /\ Eval(st, NewObj, Base)
      /\ UNCHANGED <<ans, snaps>>
  BY DEF ReadForm
<1>2. Takes(Top) BY <1>1 DEF Takes
<1>3. Stacked(st, roots, envRoots, A, S) /\ Ready(st) BY <1>1, <1>2, LeftKeeps
<1>4. node \in NodeOf(A) /\ node.kind # "free"
  <2>1. {} \in SUBSET A /\ "form" \in Kind /\ Base \in A BY NowFacts DEF Kind
  <2> QED BY <2>1, NodeIs
<1> HIDE DEF st, node
<1>5. HeapGoes(A) /\ NewObj \in A /\ Base \in A BY <1>1, <1>4, HeapMakes, NowFacts
<1>6. /\ Stacked(stack', roots', envRoots', A, S) /\ stack' # <<>>
      /\ Last(stack').fn = "eval"
  BY <1>1, <1>3, <1>5, EvalKeeps
<1>7. Rests(stack', roots', ans') BY <1>6, SomeAnswer DEF Lists
<1>8. AnswerOf(ans', A) BY <1>1, NowFacts
<1> QED BY <1>1, <1>5, <1>6, <1>7, <1>8, Lands

-----------------------------------------------------------------------------
(* Values that reach the frame that waits for them.                        *)
LEMMA CutAbove ==
  ASSUME NEW A, NEW S, Now(A, S), NEW n \in Nat, Floor(Top) <= n, n <= Len(roots)
  PROVE  /\ Cut(roots, n) \in Seq(A) /\ Len(Cut(roots, n)) = n
         /\ Agree(Cut(roots, n), roots, Floor(Top))
         /\ \A v \in A : /\ Append(Cut(roots, n), v) \in Seq(A)
                         /\ Len(Append(Cut(roots, n), v)) = n + 1
                         /\ Agree(Append(Cut(roots, n), v), roots, Floor(Top))
<1> DEFINE r == Cut(roots, n)
<1>1. roots \in Seq(A) /\ Floor(Top) \in Nat /\ Floor(Top) <= Len(roots) BY NowTop
<1>2. r \in Seq(A) /\ Len(r) = n /\ Agree(r, roots, n) BY <1>1, CutFacts
<1> HIDE DEF r
<1>3. Agree(r, roots, Floor(Top)) BY <1>1, <1>2 DEF Agree
<1>4. ASSUME NEW v \in A
      PROVE  /\ Append(r, v) \in Seq(A) /\ Len(Append(r, v)) = n + 1
             /\ Agree(Append(r, v), roots, Floor(Top))
  <2>1. /\ Append(r, v) \in Seq(A) /\ Len(Append(r, v)) = Len(r) + 1
        /\ \A m \in Nat : m <= Len(r) => Agree(Append(r, v), r, m)
    BY <1>2, PushFacts
  <2>2. Agree(Append(r, v), r, Floor(Top)) BY <1>1, <1>2, <2>1
  <2>3. Agree(Append(r, v), roots, Floor(Top)) BY <1>3, <2>2 DEF Agree
  <2> QED BY <1>2, <2>1, <2>3
<1> QED BY <1>2, <1>3, <1>4 DEF r

LEMMA PushAbove ==
  ASSUME NEW A, NEW S, Now(A, S)
  PROVE  /\ roots \in Seq(A) /\ Agree(roots, roots, Floor(Top))
         /\ \A v \in A : /\ Append(roots, v) \in Seq(A)
                         /\ Len(Append(roots, v)) = Len(roots) + 1
                         /\ Agree(Append(roots, v), roots, Floor(Top))
<1>1. roots \in Seq(A) /\ Len(roots) \in Nat /\ Floor(Top) <= Len(roots) /\ Floor(Top) \in Nat
  BY NowTop
<1>2. Cut(roots, Len(roots)) = roots BY <1>1 DEF Cut
<1>3. \A v \in A : /\ Append(Cut(roots, Len(roots)), v) \in Seq(A)
                   /\ Len(Append(Cut(roots, Len(roots)), v)) = Len(roots) + 1
                   /\ Agree(Append(Cut(roots, Len(roots)), v), roots, Floor(Top))
  BY <1>1, CutAbove
<1>4. Agree(roots, roots, Floor(Top)) BY <1>1 DEF Agree
<1> QED BY <1>1, <1>2, <1>3, <1>4

LEMMA IsAnswer ==
  ASSUME NEW A, NEW S, Now(A, S), ans.is # "nothing"
  PROVE  ans # Nothing /\ AnswerOf(ans, A)
BY NothingIs, NowFacts

LEMMA EvalAnswersKeeps ==
  ASSUME NEW A, NEW S, Now(A, S), EvalAnswers
  PROVE  Later(A, S)
<1>1. /\ Top.fn = "eval" /\ ans.is = "ok" /\ roots' = Append(Cut(roots, Top.mark), ans.v)
      /\ envRoots' = Cut(envRoots, Top.emark) /\ Pop /\ UNCHANGED <<heap, ans, snaps>>
  BY DEF EvalAnswers, At
<1>2. Floor(Top) = Top.mark /\ Top.mark \in Nat /\ Top.mark <= Len(roots) BY <1>1, NowTop DEF Floor
<1>3. roots' \in Seq(A) /\ Agree(roots', roots, Floor(Top)) BY <1>1, <1>2, CutAbove, NowFacts
<1>4. HeapGoes(A) /\ ans' # Nothing /\ AnswerOf(ans', A) BY <1>1, HeapQuiet, IsAnswer
<1> QED BY <1>1, <1>3, <1>4, PopStep

LEMMA BodyParksKeeps ==
  ASSUME NEW A, NEW S, Now(A, S), BodyParks
  PROVE  Later(A, S)
<1>1. /\ Top.fn = "body" /\ ans' = Parked(Top.form, Top.env)
      /\ envRoots' = Cut(envRoots, Top.emark) /\ Pop /\ UNCHANGED <<heap, roots, snaps>>
  BY DEF BodyParks
<1>2. ans' # Nothing /\ AnswerOf(ans', A) BY <1>1, NowTop, NowFacts, AnswersGiven
<1>3. HeapGoes(A) BY <1>1, HeapQuiet
<1>4. roots' \in Seq(A) /\ Agree(roots', roots, Floor(Top)) BY <1>1, PushAbove
<1> QED BY <1>1, <1>2, <1>3, <1>4, PopStep

LEMMA DefAtomKeeps ==
  ASSUME NEW A, NEW S, Now(A, S), DefAtom
  PROVE  Later(A, S)
<1>1. /\ Top.fn = "def" /\ ans' = Ok(Base) /\ Pop /\ UNCHANGED <<envRoots, snaps>>
  BY DEF DefAtom
<1>2. PICK v \in Atoms(Top.env) : Bind(Top.env, v) /\ roots' = Append(roots, v) BY DEF DefAtom
<1>3. v \in A /\ Top.env \in A BY <1>2, AtomsWithin, NowTop
<1>4. HeapGoes(A) BY <1>2, <1>3, BindKeeps
<1>5. roots' \in Seq(A) /\ Agree(roots', roots, Floor(Top)) BY <1>2, <1>3, PushAbove
<1>6. ans' # Nothing /\ AnswerOf(ans', A) BY <1>1, NowFacts, AnswersGiven
<1>7. envRoots' = Cut(envRoots, Top.emark) BY <1>1, NoSlots DEF Slots
<1> QED BY <1>1, <1>4, <1>5, <1>6, <1>7, PopStep

LEMMA DefBindsKeeps ==
  ASSUME NEW A, NEW S, Now(A, S), DefBinds
  PROVE  Later(A, S)
<1>1. /\ Top.fn = "def" /\ Bind(Top.env, ans.v) /\ ans' = Ok(Base) /\ Pop
      /\ UNCHANGED <<roots, envRoots, snaps>>
  BY DEF DefBinds, At
<1>2. HeapGoes(A) BY <1>1, NowTop, NowFacts, BindKeeps
<1>3. roots' \in Seq(A) /\ Agree(roots', roots, Floor(Top)) BY <1>1, PushAbove
<1>4. ans' # Nothing /\ AnswerOf(ans', A) BY <1>1, NowFacts, AnswersGiven
<1>5. envRoots' = Cut(envRoots, Top.emark) BY <1>1, NoSlots DEF Slots
<1> QED BY <1>1, <1>2, <1>3, <1>4, <1>5, PopStep

LEMMA PassesKeeps ==
  ASSUME NEW A, NEW S, Now(A, S), Passes
  PROVE  Later(A, S)
<1>1. /\ ans.is = "ok" /\ Pop /\ UNCHANGED <<heap, envRoots, ans, snaps>>
      /\ Top.fn \in {"guard", "call/cc", "call", "resume-body", "replay"}
      /\ roots' = roots \/ roots' = Cut(roots, Top.mark)
  BY DEF Passes
<1>2. Floor(Top) = Top.mark /\ Top.mark \in Nat /\ Top.mark <= Len(roots) BY <1>1, NowTop DEF Floor
<1>3. roots' \in Seq(A) /\ Agree(roots', roots, Floor(Top))
  <2>1. CASE roots' = roots BY <2>1, PushAbove
  <2>2. CASE roots' = Cut(roots, Top.mark) BY <1>2, <2>2, CutAbove
  <2> QED BY <1>1, <2>1, <2>2
<1>4. HeapGoes(A) /\ ans' # Nothing /\ AnswerOf(ans', A) BY <1>1, HeapQuiet, IsAnswer
<1>5. envRoots' = Cut(envRoots, Top.emark) BY <1>1, NoSlots DEF Slots
<1> QED BY <1>1, <1>3, <1>4, <1>5, PopStep

LEMMA UnwindKeeps ==
  ASSUME NEW A, NEW S, Now(A, S), Unwind
  PROVE  Later(A, S)
<1>1. /\ ans.is \in {"raise", "escape"} /\ Top.fn \notin {"top", "source"}
      /\ Pop /\ UNCHANGED <<heap, ans, snaps>>
      /\ roots' = roots \/ roots' = Cut(roots, Top.mark)
      /\ envRoots' = IF Top.fn \in {"eval", "body"} THEN Cut(envRoots, Top.emark) ELSE envRoots
  BY DEF Unwind
<1>2. Floor(Top) = Top.mark /\ Top.mark \in Nat /\ Top.mark <= Len(roots) BY <1>1, NowTop DEF Floor
<1>3. roots' \in Seq(A) /\ Agree(roots', roots, Floor(Top))
  <2>1. CASE roots' = roots BY <2>1, PushAbove
  <2>2. CASE roots' = Cut(roots, Top.mark) BY <1>2, <2>2, CutAbove
  <2> QED BY <1>1, <2>1, <2>2
<1>4. HeapGoes(A) /\ ans' # Nothing /\ AnswerOf(ans', A) BY <1>1, HeapQuiet, IsAnswer
<1>5. envRoots' = Cut(envRoots, Top.emark)
  <2>1. CASE Top.fn \in {"eval", "body"} BY <1>1, <2>1
  <2>2. CASE Top.fn \notin {"eval", "body"} BY <1>1, <2>2, NoSlots DEF Slots
  <2> QED BY <2>1, <2>2
<1> QED BY <1>1, <1>3, <1>4, <1>5, PopStep

LEMMA EscapeLandsKeeps ==
  ASSUME NEW A, NEW S, Now(A, S), EscapeLands
  PROVE  Later(A, S)
<1>1. /\ Top.fn = "call/cc" /\ ans' = Ok(ans.v) /\ Pop /\ UNCHANGED <<heap, roots, envRoots, snaps>>
  BY DEF EscapeLands, At
<1>2. ans' # Nothing /\ AnswerOf(ans', A) BY <1>1, NowFacts, AnswersGiven
<1>3. HeapGoes(A) BY <1>1, HeapQuiet
<1>4. roots' \in Seq(A) /\ Agree(roots', roots, Floor(Top)) BY <1>1, PushAbove
<1>5. envRoots' = Cut(envRoots, Top.emark) BY <1>1, NoSlots DEF Slots
<1> QED BY <1>1, <1>2, <1>3, <1>4, <1>5, PopStep

LEMMA SourceFacts ==
  ASSUME NEW A, NEW S, Now(A, S), Top.fn = "source"
  PROVE  /\ Floor(Top) = Top.mark - 1 /\ Top.mark - 1 \in Nat /\ Top.mark - 1 <= Len(roots)
         /\ Top.mark \in Nat /\ Top.mark <= Len(roots) /\ roots # <<>> /\ Last(roots) \in A
<1>1. /\ Top.mark \in Nat /\ Ceil(Top) <= Len(roots) /\ roots \in Seq(A) /\ Len(roots) \in Nat
      /\ Fits(Top, roots, envRoots, A, S)
  BY NowTop
<1>2. Top.mark > 0 /\ Ceil(Top) = Top.mark BY <1>1 DEF Fits, Rooted, Ceil
<1>3. roots # <<>> BY <1>1, <1>2
<1>4. Last(roots) \in A BY <1>1, <1>3, FrontAndLast
<1> QED BY <1>1, <1>2, <1>3, <1>4 DEF Floor

LEMMA SourceEndsKeeps ==
  ASSUME NEW A, NEW S, Now(A, S), SourceEnds
  PROVE  Later(A, S)
<1>1. /\ Top.fn = "source" /\ ans' = Ok(Last(roots)) /\ roots' = Cut(roots, Top.mark - 1)
      /\ Pop /\ UNCHANGED <<heap, envRoots, snaps>>
  BY DEF SourceEnds
<1>2. /\ Floor(Top) = Top.mark - 1 /\ Top.mark - 1 \in Nat /\ Top.mark - 1 <= Len(roots)
      /\ Last(roots) \in A
  BY <1>1, SourceFacts
<1>3. ans' # Nothing /\ AnswerOf(ans', A) BY <1>1, <1>2, NowFacts, AnswersGiven
<1>4. HeapGoes(A) BY <1>1, HeapQuiet
<1>5. roots' \in Seq(A) /\ Agree(roots', roots, Floor(Top)) BY <1>1, <1>2, CutAbove
<1>6. envRoots' = Cut(envRoots, Top.emark) BY <1>1, NoSlots DEF Slots
<1> QED BY <1>1, <1>3, <1>4, <1>5, <1>6, PopStep

LEMMA IterAnswersKeeps ==
  ASSUME NEW A, NEW S, Now(A, S), Covers(A, S), IterAnswers
  PROVE  Later(A, S)
<1>1. Top.fn = "iter" /\ Pop /\ UNCHANGED <<roots, envRoots, snaps>> BY DEF IterAnswers, At
<1>2. roots' \in Seq(A) /\ Agree(roots', roots, Floor(Top)) BY <1>1, PushAbove
<1>3. envRoots' = Cut(envRoots, Top.emark) BY <1>1, NoSlots DEF Slots
<1>4. Top.callee \in Obj BY NowTop, FrameTypes
<1>5. \A x \in {Base} \cup heap[ans.v].refs : x \in A
  <2>1. ans.v \in Obj BY NowFacts
  <2> QED BY <2>1, NowFacts, NodesOf
<1>6. HeapGoes(A) /\ AnswerOf(ans', A) /\ ans' # Nothing
  <2>1. CASE ans' = Ok(Base) /\ UNCHANGED heap
    <3>1. AnswerOf(ans', A) /\ ans' # Nothing BY <2>1, NowFacts, AnswersGiven
    <3> QED BY <2>1, <3>1, HeapQuiet
  <2>2. CASE \E rest, v \in {Base} \cup heap[ans.v].refs :
               /\ heap' = IF heap[Top.callee].kind = "free" THEN heap
                          ELSE [heap EXCEPT ![Top.callee].refs = {rest}]
               /\ ans' = Ok(v)
    <3>1. PICK rest, v \in {Base} \cup heap[ans.v].refs :
               /\ heap' = IF heap[Top.callee].kind = "free" THEN heap
                          ELSE [heap EXCEPT ![Top.callee].refs = {rest}]
               /\ ans' = Ok(v)
      BY <2>2
    <3>2. v \in A /\ {rest} \in SUBSET A BY <1>5
    <3>3. AnswerOf(ans', A) /\ ans' # Nothing BY <3>1, <3>2, NowFacts, AnswersGiven
    <3>4. CASE heap' = heap BY <3>3, <3>4, HeapQuiet
    <3>5. CASE heap' = [heap EXCEPT ![Top.callee].refs = {rest}]
      BY <1>4, <3>2, <3>3, <3>5, HeapWrites
    <3> QED BY <3>1, <3>4, <3>5
  <2>3. CASE /\ Fresh # {}
             /\ \E rest \in {Base} \cup heap[ans.v].refs :
                  heap' = [heap EXCEPT ![NewObj] = Node("iter", {rest}, heap[Top.callee].up)]
             /\ ans' = Ok(NewObj)
    <3>1. PICK rest \in {Base} \cup heap[ans.v].refs :
            heap' = [heap EXCEPT ![NewObj] = Node("iter", {rest}, heap[Top.callee].up)]
      BY <2>3
    <3> DEFINE node == Node("iter", {rest}, heap[Top.callee].up)
    <3>2. node \in NodeOf(A) /\ node.kind # "free"
      <4>1. {rest} \in SUBSET A BY <1>5
      <4>2. heap[Top.callee].up \in A /\ "iter" \in Kind BY <1>4, NowFacts, NodesOf DEF Kind
      <4> QED BY <4>1, <4>2, NodeIs
    <3> HIDE DEF node
    <3>3. heap' = [heap EXCEPT ![NewObj] = node] BY <3>1 DEF node
    <3>4. HeapGoes(A) /\ NewObj \in A BY <2>3, <3>2, <3>3, HeapMakes
    <3>5. AnswerOf(ans', A) /\ ans' # Nothing BY <2>3, <3>4, NowFacts, AnswersGiven
    <3> QED BY <3>4, <3>5
  <2> QED BY <2>1, <2>2, <2>3 DEF IterAnswers
<1> QED BY <1>1, <1>2, <1>3, <1>6, PopStep

-----------------------------------------------------------------------------
(* Tails, and sources between two forms.                                   *)
Overwrite(s, i, v) == [Cut(s, i) EXCEPT ![i] = v]
LEMMA Overwritten ==
  ASSUME NEW A, NEW s \in Seq(A), NEW i \in 1 .. Len(s), NEW v \in A
  PROVE  /\ Overwrite(s, i, v) \in Seq(A) /\ Len(Overwrite(s, i, v)) = i
         /\ Overwrite(s, i, v)[i] = v /\ Agree(Overwrite(s, i, v), s, i - 1)
<1> DEFINE c == Cut(s, i)
           t == [c EXCEPT ![i] = v]
<1>1. Len(s) \in Nat /\ i \in Nat /\ i <= Len(s) BY LenProperties
<1>2. c \in Seq(A) /\ Len(c) = i /\ Agree(c, s, i) BY <1>1, CutFacts
<1> HIDE DEF c
<1>3. DOMAIN c = 1 .. i /\ c \in [1 .. i -> A] BY <1>2, LenProperties
<1>4. t \in [1 .. i -> A] /\ t[i] = v /\ \A p \in 1 .. i - 1 : t[p] = c[p] BY <1>1, <1>3
<1> HIDE DEF t
<1>5. t \in Seq(A) /\ Len(t) = i BY <1>1, <1>4, LenProperties
<1>6. Agree(t, s, i - 1) BY <1>1, <1>2, <1>4, <1>5 DEF Agree
<1> QED BY <1>4, <1>5, <1>6 DEF t, c, Overwrite

LEMMA TrampolineKeeps ==
  ASSUME NEW A, NEW S, Now(A, S), Trampoline
  PROVE  Later(A, S)
<1> DEFINE f == [Top EXCEPT !.does = "tail", !.form = ans.v, !.env = ans.env]
           m == Top.mark + 1
           n == Top.emark + 1
<1>1. /\ Top.fn = "eval" /\ ans.is = "tail" /\ ans' = Nothing /\ UNCHANGED <<heap, snaps>>
      /\ roots' = Overwrite(roots, m, ans.v) /\ envRoots' = Overwrite(envRoots, n, ans.env)
      /\ stack' = With(f)
  BY DEF Trampoline, At, Overwrite
<1>2. /\ Top \in FrameOf(A) /\ Usable(Top, A, S) /\ roots \in Seq(A) /\ envRoots \in Seq(A)
      /\ Top.mark \in Nat /\ Top.emark \in Nat /\ m \in 1 .. Len(roots) /\ n \in 1 .. Len(envRoots)
  BY <1>1, NowTop, TopIsEval
<1>3. ans.v \in A /\ ans.env \in A BY <1>1, NowFacts DEF AnswerOf
<1>4. /\ f.fn = Top.fn /\ f.form = ans.v /\ f.env = ans.env /\ f.left = Top.left
      /\ f.callee = Top.callee /\ f.vals = Top.vals /\ f.recs = Top.recs
      /\ f.mark = Top.mark /\ f.emark = Top.emark
  BY <1>2 DEF FrameOf
<1>5. f \in FrameOf(A)
  <2>1. "tail" \in Does BY DEF Does
  <2> QED BY <1>2, <1>3, <2>1 DEF FrameOf
<1> HIDE DEF f
<1>6. roots' \in Seq(A) /\ Len(roots') = m /\ roots'[m] = ans.v /\ Agree(roots', roots, Top.mark)
  <2>1. /\ roots' \in Seq(A) /\ Len(roots') = m /\ roots'[m] = ans.v /\ Agree(roots', roots, m - 1)
    <3> HIDE DEF m, n
    <3> QED BY <1>1, <1>2, <1>3, Overwritten
  <2>2. m - 1 = Top.mark BY <1>2
  <2> QED BY <2>1, <2>2
<1>7. /\ envRoots' \in Seq(A) /\ Len(envRoots') = n /\ envRoots'[n] = ans.env
      /\ Agree(envRoots', envRoots, Top.emark)
  <2>1. /\ envRoots' \in Seq(A) /\ Len(envRoots') = n /\ envRoots'[n] = ans.env
        /\ Agree(envRoots', envRoots, n - 1)
    <3> HIDE DEF m, n
    <3> QED BY <1>1, <1>2, <1>3, Overwritten
  <2>2. n - 1 = Top.emark BY <1>2
  <2> QED BY <2>1, <2>2
<1>8. Fits(f, roots', envRoots', A, S)
  <2>1. Plain(f)
    <3>1. Top.callee = Base /\ Top.vals = <<>> /\ Top.recs = <<>>
      BY <1>1, <1>2 DEF Usable, Lists
    <3> QED BY <1>1, <1>4, <3>1 DEF Plain, Lists, Idle
  <2>2. Usable(f, A, S) BY <1>5, <2>1, PlainIsUsable
  <2>3. Rooted(f, roots', Len(roots')) BY <1>1, <1>2, <1>4, <1>6 DEF Rooted, Ceil, Lists
  <2>4. EnvRooted(f, envRoots') /\ Len(envRoots') = EnvEnd(f)
    BY <1>1, <1>4, <1>7 DEF EnvRooted, EnvEnd, Slots
  <2> QED BY <2>2, <2>3, <2>4 DEF Fits
<1>9. Floor(Top) = Top.mark /\ Floor(f) = Top.mark BY <1>1, <1>4 DEF Floor
<1>10. Succeeds(f, Top) BY <1>1, <1>2, <1>4, <1>9 DEF Succeeds, Resumes
<1>11. Stacked(With(f), roots', envRoots', A, S) /\ With(f) # <<>> /\ Last(With(f)) = f
  BY <1>6, <1>7, <1>8, <1>9, <1>10, TopKeeps
<1>12. Stacked(stack', roots', envRoots', A, S) /\ stack' # <<>> /\ Last(stack') = f
  BY <1>1, <1>11
<1>13. Rests(stack', roots', ans') BY <1>1, <1>4, <1>12, SomeAnswer DEF Lists
<1>14. HeapGoes(A) /\ AnswerOf(ans', A) BY <1>1, HeapQuiet, NowFacts, AnswersGiven
<1> QED BY <1>1, <1>12, <1>13, <1>14, Lands

LEMMA CallSettlesKeeps ==
  ASSUME NEW A, NEW S, Now(A, S), CallSettles
  PROVE  Later(A, S)
<1>1. Top.fn = "call" /\ ans.is = "tail" /\ UNCHANGED <<heap, snaps>> BY DEF CallSettles, At
<1>2. HeapGoes(A) BY <1>1, HeapQuiet
<1>3. CASE Top.does = "settled"
  <2>1. Eval(stack, ans.v, ans.env) /\ ans' = Nothing BY <1>3 DEF CallSettles
  <2>2. ans.v \in A /\ ans.env \in A BY <1>1, NowFacts DEF AnswerOf
  <2>3. Stacked(stack, roots, envRoots, A, S) /\ Ready(stack) BY <1>1, NowFacts DEF Ready, Top
  <2>4. Stacked(stack', roots', envRoots', A, S) /\ stack' # <<>> /\ Last(stack').fn = "eval"
    BY <2>1, <2>2, <2>3, EvalKeeps
  <2>5. Rests(stack', roots', ans') BY <2>4, SomeAnswer DEF Lists
  <2>6. AnswerOf(ans', A) BY <2>1, NowFacts, AnswersGiven
  <2> QED BY <1>1, <1>2, <2>4, <2>5, <2>6, Lands
<1>4. CASE Top.does # "settled"
  <2>1. Pop /\ roots' = Cut(roots, Top.mark) /\ UNCHANGED <<envRoots, ans>>
    BY <1>4 DEF CallSettles
  <2>2. Floor(Top) = Top.mark /\ Top.mark \in Nat /\ Top.mark <= Len(roots)
    BY <1>1, NowTop DEF Floor
  <2>3. roots' \in Seq(A) /\ Agree(roots', roots, Floor(Top)) BY <2>1, <2>2, CutAbove
  <2>4. ans' # Nothing /\ AnswerOf(ans', A) BY <1>1, <2>1, IsAnswer
  <2>5. envRoots' = Cut(envRoots, Top.emark) BY <1>1, <2>1, NoSlots DEF Slots
  <2> QED BY <1>1, <1>2, <2>1, <2>3, <2>4, <2>5, PopStep
<1> QED BY <1>3, <1>4

(* The roots of a source change, and nothing else of it.                   *)
LEMMA SourceGoesOn ==
  ASSUME NEW A, NEW S, Now(A, S), Top.fn \in {"top", "source"}, NEW r \in Seq(A),
         Agree(r, roots, Floor(Top)), Top.mark <= Len(r)
  PROVE  Stacked(stack, r, envRoots, A, S) /\ Last(stack) = Top
<1>1. /\ envRoots \in Seq(A) /\ Len(envRoots) \in Nat /\ Top.emark \in Nat
      /\ Top.emark <= Len(envRoots) /\ Usable(Top, A, S) /\ Fits(Top, roots, envRoots, A, S)
      /\ Floor(Top) \in Nat /\ (Top.fn = "top" => Top.mark = 0)
  BY NowTop
<1>2. Rooted(Top, r, Len(r))
  <2>1. Top.fn \in {"source", "args"} => Top.mark > 0 BY <1>1 DEF Fits, Rooted
  <2> QED BY <2>1 DEF Rooted, Ceil, Lists
<1>3. Fits(Top, r, envRoots, A, S) BY <1>1, <1>2 DEF Fits
<1>4. Agree(envRoots, envRoots, Top.emark) BY <1>1 DEF Agree
<1>5. Succeeds(Top, Top) BY <1>1 DEF Succeeds
<1>6. Stacked(With(Top), r, envRoots, A, S) /\ Last(With(Top)) = Top
  BY <1>1, <1>3, <1>4, <1>5, TopKeeps
<1>7. stack = With(Top)
  <2>1. stack \in Seq(FrameOf(A)) /\ stack # <<>> BY NowFacts DEF Stacked
  <2> QED BY <2>1, FrontThenLast DEF With, Top, Below
<1> QED BY <1>6, <1>7

LEMMA FormAnswersKeeps ==
  ASSUME NEW A, NEW S, Now(A, S), FormAnswers
  PROVE  Later(A, S)
<1>1. /\ Top.fn \in {"top", "source"} /\ roots' = Append(Cut(roots, Top.mark), ans.v)
      /\ ans' = Nothing /\ UNCHANGED <<heap, envRoots, stack, snaps>>
  BY DEF FormAnswers
<1>2. Top.mark \in Nat /\ Floor(Top) <= Top.mark /\ Top.mark <= Len(roots)
  <2>1. CASE Top.fn = "source" BY <2>1, SourceFacts
  <2>2. CASE Top.fn # "source" BY <1>1, <2>2, NowTop DEF Floor, Ceil
  <2> QED BY <2>1, <2>2
<1>3. roots' \in Seq(A) /\ Len(roots') = Top.mark + 1 /\ Agree(roots', roots, Floor(Top))
  BY <1>1, <1>2, CutAbove, NowFacts
<1>8. Top.mark <= Len(roots') BY <1>2, <1>3
<1>4. Stacked(stack, roots', envRoots, A, S) /\ Last(stack) = Top
  BY <1>1, <1>3, <1>8, SourceGoesOn
<1>5. Rests(stack', roots', ans')
  <2>1. Last(stack') = Top /\ Len(roots') <= Top.mark + 1 /\ Top.fn \notin Lists
    BY <1>1, <1>2, <1>3, <1>4 DEF Lists
  <2> QED BY <2>1 DEF Rests
<1>6. Stacked(stack', roots', envRoots', A, S) /\ stack' # <<>> BY <1>1, <1>4, NowFacts
<1>7. HeapGoes(A) /\ AnswerOf(ans', A) BY <1>1, HeapQuiet, NowFacts, AnswersGiven
<1> QED BY <1>1, <1>5, <1>6, <1>7, Lands

LEMMA SourceFailsKeeps ==
  ASSUME NEW A, NEW S, Now(A, S), SourceFails
  PROVE  Later(A, S)
<1>1. ans.is = "raise" /\ Top.fn \in {"top", "source"} /\ UNCHANGED <<heap, envRoots, snaps>>
  BY DEF SourceFails
<1>2. HeapGoes(A) BY <1>1, HeapQuiet
<1>3. CASE Top.fn = "top"
  <2>1. ans' = Nothing /\ roots' = <<>> /\ UNCHANGED stack BY <1>3 DEF SourceFails
  <2>2. Top.mark = 0 /\ Floor(Top) = 0 BY <1>3, NowTop DEF Floor
  <2>3. <<>> \in Seq(A) /\ Len(<<>>) = 0 /\ Agree(<<>>, roots, 0) /\ 0 <= Len(<<>>)
    <3>1. Len(roots) \in Nat BY NowTop
    <3> QED BY <3>1 DEF Agree
  <2>4. Stacked(stack, roots', envRoots, A, S) /\ Last(stack) = Top
    BY <1>3, <2>1, <2>2, <2>3, SourceGoesOn
  <2>5. Rests(stack', roots', ans')
    <3>1. Last(stack') = Top /\ Len(roots') <= Top.mark + 1 /\ Top.fn \notin Lists
      BY <1>3, <2>1, <2>2, <2>3, <2>4 DEF Lists
    <3> QED BY <3>1 DEF Rests
  <2>6. Stacked(stack', roots', envRoots', A, S) /\ stack' # <<>> BY <1>1, <2>1, <2>4, NowFacts
  <2>7. AnswerOf(ans', A) BY <2>1, NowFacts, AnswersGiven
  <2> QED BY <1>1, <1>2, <2>5, <2>6, <2>7, Lands
<1>4. CASE Top.fn # "top"
  <2>1. Top.fn = "source" /\ Pop /\ roots' = Cut(roots, Top.mark - 1) /\ UNCHANGED ans
    BY <1>1, <1>4 DEF SourceFails
  <2>2. Floor(Top) = Top.mark - 1 /\ Top.mark - 1 \in Nat /\ Top.mark - 1 <= Len(roots)
    BY <2>1, SourceFacts
  <2>3. roots' \in Seq(A) /\ Agree(roots', roots, Floor(Top)) BY <2>1, <2>2, CutAbove
  <2>4. ans' # Nothing /\ AnswerOf(ans', A) BY <1>1, <2>1, IsAnswer
  <2>5. envRoots' = Cut(envRoots, Top.emark) BY <1>1, <2>1, NoSlots DEF Slots
  <2> QED BY <1>2, <1>1, <2>1, <2>3, <2>4, <2>5, PopStep
<1> QED BY <1>3, <1>4

-----------------------------------------------------------------------------
(* Argument lists that have been read.                                     *)
LEMMA ArgsThere ==
  ASSUME NEW A, NEW S, Now(A, S), NEW does, Applies(does)
  PROVE  /\ ans = Nothing /\ Top.fn \in Lists /\ Top.does \in does /\ Top.does \in Does
         /\ Top.callee \in A /\ Top.vals \in Seq(A) /\ Range(Top.vals) \subseteq A
         /\ Len(Top.vals) \in Nat /\ Len(Top.vals) >= Arity(Top.does)
         /\ \A j \in 1 .. Len(Top.vals) : Top.vals[j] \in A
<1>1. ans = Nothing /\ Top.fn \in Lists /\ Top.left = 0 /\ Top.does \in does
  BY DEF Applies, Lists
<1>2. Top.callee \in A /\ Top.vals \in Seq(A) /\ Top.does \in Does BY <1>1, SettledKeeps, NowTop
<1>3. Len(Top.vals) \in Nat /\ DOMAIN Top.vals = 1 .. Len(Top.vals)
      /\ \A j \in 1 .. Len(Top.vals) : Top.vals[j] \in A
  BY <1>2, LenProperties
<1>4. Range(Top.vals) \subseteq A BY <1>3 DEF Range
<1>5. Enough(Top.vals, Top.left, Top.does) BY <1>1 DEF Now, Holds, Rests, Top
<1>6. Len(Top.vals) >= Arity(Top.does) BY <1>1, <1>3, <1>5 DEF Enough
<1> QED BY <1>1, <1>2, <1>3, <1>4, <1>6

LEMMA MakeKeeps ==
  ASSUME NEW A, NEW S, Now(A, S), Covers(A, S), Top.fn \in Lists,
         NEW node \in NodeOf(A), node.kind # "free", Make(node)
  PROVE  Later(A, S)
<1>1. /\ Fresh # {} /\ heap' = [heap EXCEPT ![NewObj] = node] /\ ans' = Ok(NewObj)
      /\ stack' = Settled.st /\ roots' = Settled.rts /\ UNCHANGED <<envRoots, snaps>>
  BY DEF Make
<1>2. HeapGoes(A) /\ NewObj \in A BY <1>1, HeapMakes
<1>3. AnswerOf(ans', A) /\ ans' # Nothing BY <1>1, <1>2, NowFacts, AnswersGiven
<1>4. Stacked(Settled.st, Settled.rts, envRoots, A, S) /\ Settled.st # <<>>
  BY SettledKeeps DEF Ready
<1>5. Stacked(stack', roots', envRoots', A, S) /\ stack' # <<>> BY <1>1, <1>4
<1>6. Rests(stack', roots', ans') BY <1>3, SomeAnswer
<1> QED BY <1>1, <1>2, <1>3, <1>5, <1>6, Lands

LEMMA MakePairKeeps ==
  ASSUME NEW A, NEW S, Now(A, S), Covers(A, S), MakePair
  PROVE  Later(A, S)
<1> DEFINE node == Node("val", Range(Top.vals), Base)
<1>1. Applies({"pair"}) /\ Make(node) BY DEF MakePair
<1>2. Top.fn \in Lists /\ Range(Top.vals) \in SUBSET A /\ Base \in A BY <1>1, ArgsThere, NowFacts
<1>3. node \in NodeOf(A) /\ node.kind # "free"
  <2>1. "val" \in Kind BY DEF Kind
  <2> QED BY <1>2, <2>1, NodeIs
<1> HIDE DEF node
<1> QED BY <1>1, <1>2, <1>3, MakeKeeps

LEMMA MakeIterKeeps ==
  ASSUME NEW A, NEW S, Now(A, S), Covers(A, S), MakeIter
  PROVE  Later(A, S)
<1> DEFINE node == Node("iter", {Top.vals[2]}, Top.vals[1])
<1>1. Applies({"iter"}) /\ Make(node) BY DEF MakeIter
<1>2. Top.fn \in Lists /\ Top.vals[1] \in A /\ {Top.vals[2]} \in SUBSET A
  <2>1. /\ Top.fn \in Lists /\ Top.does = "iter" /\ Len(Top.vals) \in Nat
        /\ Len(Top.vals) >= Arity(Top.does) /\ \A j \in 1 .. Len(Top.vals) : Top.vals[j] \in A
    BY <1>1, ArgsThere
  <2>2. 1 \in 1 .. Len(Top.vals) /\ 2 \in 1 .. Len(Top.vals) BY <2>1 DEF Arity
  <2> QED BY <2>1, <2>2
<1>3. node \in NodeOf(A) /\ node.kind # "free"
  <2>1. "iter" \in Kind BY DEF Kind
  <2> QED BY <1>2, <2>1, NodeIs
<1> HIDE DEF node
<1> QED BY <1>1, <1>2, <1>3, MakeKeeps

LEMMA ThrowKeeps ==
  ASSUME NEW A, NEW S, Now(A, S), Throw
  PROVE  Later(A, S)
<1>1. /\ Applies({"throw"}) /\ ans' = Escape(Top.vals[1], Top.callee)
      /\ stack' = Settled.st /\ roots' = Settled.rts /\ UNCHANGED <<heap, envRoots, snaps>>
  BY DEF Throw
<1>2. Top.fn \in Lists /\ Top.vals[1] \in A /\ Top.callee \in Obj
  <2>1. /\ Top.fn \in Lists /\ Top.does = "throw" /\ Len(Top.vals) \in Nat
        /\ Len(Top.vals) >= Arity(Top.does) /\ \A j \in 1 .. Len(Top.vals) : Top.vals[j] \in A
        /\ Top.callee \in A
    BY <1>1, ArgsThere
  <2>2. 1 \in 1 .. Len(Top.vals) BY <2>1 DEF Arity
  <2> QED BY <2>1, <2>2, NowFacts
<1>3. AnswerOf(ans', A) /\ ans' # Nothing BY <1>1, <1>2, NowFacts, AnswersGiven
<1>4. Stacked(Settled.st, Settled.rts, envRoots, A, S) /\ Settled.st # <<>>
  BY <1>2, SettledKeeps DEF Ready
<1>5. Stacked(stack', roots', envRoots', A, S) /\ stack' # <<>> BY <1>1, <1>4
<1>6. Rests(stack', roots', ans') BY <1>3, SomeAnswer
<1>7. HeapGoes(A) BY <1>1, HeapQuiet
<1> QED BY <1>1, <1>3, <1>5, <1>6, <1>7, Lands

(* The values of a call above the roots it leaves.                         *)
LEMMA ValuesPushed ==
  ASSUME NEW A, NEW S, Now(A, S), Top.fn \in Lists
  PROVE  LET r == Settled.rts \o Top.vals
         IN  r \in Seq(A) /\ Stacked(Settled.st, r, envRoots, A, S)
<1> DEFINE st == Settled.st
           rts == Settled.rts
           vals == Top.vals
<1>1. /\ Stacked(st, rts, envRoots, A, S) /\ st # <<>> /\ rts \in Seq(A) /\ vals \in Seq(A)
  BY SettledKeeps DEF Ready
<1> HIDE DEF st, rts, vals
<1>2. /\ rts \o vals \in Seq(A) /\ Len(rts) \in Nat
      /\ \A n \in Nat : n <= Len(rts) => Agree(rts \o vals, rts, n)
  BY <1>1, JoinFacts
<1>3. Agree(rts \o vals, rts, Len(rts)) BY <1>2
<1>4. Stacked(st, rts \o vals, envRoots, A, S) BY <1>1, <1>2, <1>3, GrowKeeps
<1> QED BY <1>2, <1>4 DEF st, rts, vals

(* A step that enters a closure.                                           *)
LEMMA EntersStep ==
  ASSUME NEW A, NEW S, Now(A, S), Stacked(stack', roots', envRoots', A, S), stack' # <<>>,
         Last(stack').fn = "body", HeapOf(heap', A), ans' = Nothing,
         Alive(heap) \subseteq Alive(heap'), UNCHANGED snaps
  PROVE  Later(A, S)
<1>1. Rests(stack', roots', ans') BY SomeAnswer DEF Lists
<1>2. HeapGoes(A) /\ AnswerOf(ans', A) BY NowFacts, AnswersGiven DEF HeapGoes
<1> QED BY <1>1, <1>2, Lands

LEMMA ApplyClosureKeeps ==
  ASSUME NEW A, NEW S, Now(A, S), Covers(A, S), ApplyClosure
  PROVE  Later(A, S)
<1>1. /\ Applies({"call"}) /\ Fresh # {} /\ roots' = Settled.rts \o Top.vals
      /\ EnterClosure(heap, Fresh, Settled.st, Top.callee, Top.vals) /\ UNCHANGED snaps
  BY DEF ApplyClosure
<1>2. Top.fn \in Lists /\ Top.callee \in A /\ Top.vals \in Seq(A) BY <1>1, ArgsThere
<1>3. Stacked(Settled.st, roots', envRoots, A, S) /\ Ready(Settled.st)
  BY <1>1, <1>2, ValuesPushed, SettledKeeps
<1>4. Fresh \in SUBSET Ids /\ Alive(heap') \subseteq A /\ HeapOf(heap, A)
  BY <1>1, FreshFacts, NowFacts DEF Covers
<1>5. /\ Stacked(stack', roots', envRoots', A, S) /\ stack' # <<>> /\ Last(stack').fn = "body"
      /\ HeapOf(heap', A) /\ ans' = Nothing /\ Alive(heap) \subseteq Alive(heap')
  BY <1>1, <1>2, <1>3, <1>4, EnterKeeps
<1> QED BY <1>1, <1>5, EntersStep

LEMMA ApplyListKeeps ==
  ASSUME NEW A, NEW S, Now(A, S), Covers(A, S), ApplyList
  PROVE  Later(A, S)
<1> DEFINE base == [st |-> Settled.st, rts |-> Settled.rts \o Top.vals]
<1>1. /\ Applies({"apply"}) /\ Fresh # {} /\ UNCHANGED snaps
      /\ CallWithValues(heap, Fresh, "tail", base, Top.callee, Top.vals)
  <2>1. CallWithValues(heap, Fresh, "tail", base, Top.callee, Top.vals) BY DEF ApplyList
  <2>2. Fresh # {}
    <3> HIDE DEF base
    <3> QED BY <2>1 DEF CallWithValues
  <2> QED BY <2>1, <2>2 DEF ApplyList
<1>2. Top.fn \in Lists /\ Top.callee \in A /\ Top.vals \in Seq(A) BY <1>1, ArgsThere
<1>3. Stacked(base.st, base.rts, envRoots, A, S) /\ base.rts \in Seq(A) /\ Ready(base.st)
  BY <1>2, ValuesPushed, SettledKeeps
<1> HIDE DEF base
<1>4. /\ Fresh \in SUBSET Ids /\ Alive(heap') \subseteq A /\ HeapOf(heap, A) /\ "tail" \in Does
  BY <1>1, FreshFacts, NowFacts DEF Covers, Does
<1>5. /\ Stacked(stack', roots', envRoots', A, S) /\ stack' # <<>> /\ Last(stack').fn = "body"
      /\ HeapOf(heap', A) /\ ans' = Nothing /\ Alive(heap) \subseteq Alive(heap')
  BY <1>1, <1>2, <1>3, <1>4, CallKeeps
<1> QED BY <1>1, <1>5, EntersStep

LEMMA PeekKeeps ==
  ASSUME NEW A, NEW S, Now(A, S), Covers(A, S), Peek
  PROVE  Later(A, S)
<1> DEFINE it == Top.vals[1]
           g  == Frame("iter", Top.does, Base, Base, 0)
           f  == [g EXCEPT !.callee = it, !.vals = SetToSeq(heap[it].refs), !.mark = Len(Settled.rts)]
           base == [Settled EXCEPT !.st = Append(@, f)]
<1>1. /\ Applies({"next", "step", "empty?"}) /\ Fresh # {} /\ UNCHANGED snaps
      /\ CallWithValues(heap, Fresh, "settled", base, heap[it].up, f.vals)
  <2>1. CallWithValues(heap, Fresh, "settled", base, heap[it].up, f.vals) BY DEF Peek
  <2>2. Fresh # {}
    <3> HIDE DEF base, f
    <3> QED BY <2>1 DEF CallWithValues
  <2> QED BY <2>1, <2>2 DEF Peek
<1>2. Top.fn \in Lists /\ Top.does \in Does /\ it \in A
  <2>1. /\ Top.fn \in Lists /\ Top.does \in {"next", "step", "empty?"} /\ Len(Top.vals) \in Nat
        /\ Len(Top.vals) >= Arity(Top.does) /\ \A j \in 1 .. Len(Top.vals) : Top.vals[j] \in A
        /\ Top.does \in Does
    <3> HIDE DEF f, base
    <3> QED BY <1>1, ArgsThere
  <2>2. 1 \in 1 .. Len(Top.vals) BY <2>1 DEF Arity
  <2> QED BY <2>1, <2>2
<1>3. it \in Obj /\ heap[it].up \in A /\ heap[it].refs \subseteq A /\ A \subseteq Obj /\ Base \in A
  BY <1>2, NowFacts, NodesOf
<1>4. SetToSeq(heap[it].refs) \in Seq(A) /\ SetToSeq(heap[it].refs) \in Seq(Obj)
  <2> DEFINE T == heap[it].refs
  <2>1. T \in SUBSET Obj /\ T \subseteq A BY <1>3
  <2> HIDE DEF T
  <2>2. SetToSeq(T) \in Seq(T) BY <2>1, ListOf
  <2>3. SetToSeq(T) \in Seq(A) /\ SetToSeq(T) \in Seq(Obj) BY <2>1, <2>2
  <2> QED BY <2>3 DEF T
<1>5. /\ Stacked(Settled.st, Settled.rts, envRoots, A, S) /\ Ready(Settled.st)
      /\ Settled.rts \in Seq(A) /\ Len(Settled.rts) \in Nat
  BY <1>2, SettledKeeps, LenProperties
<1>6. f \in FrameOf(A)
  <2> DEFINE v == SetToSeq(heap[it].refs)
             m == Len(Settled.rts)
             g1 == [g EXCEPT !.callee = it]
             g2 == [g1 EXCEPT !.vals = v]
  <2>1. "iter" \in FrameKind /\ 0 \in Nat BY DEF FrameKind
  <2>2. g \in FrameOf(A) BY <1>2, <1>3, <2>1, FrameIs
  <2>3. f = [g2 EXCEPT !.mark = m] OBVIOUS
  <2>4. v \in Seq(Obj) /\ m \in Nat BY <1>4, <1>5
  <2> HIDE DEF f, g, v, m, it
  <2>5. g1 \in FrameOf(A) BY <1>3, <2>2 DEF FrameOf
  <2> HIDE DEF g1
  <2>6. g2 \in FrameOf(A) BY <2>4, <2>5 DEF FrameOf
  <2> HIDE DEF g2
  <2> QED BY <2>3, <2>4, <2>6 DEF FrameOf
<1>7. /\ f.fn = "iter" /\ f.form = Base /\ f.env = Base /\ f.callee = it
      /\ f.vals = SetToSeq(heap[it].refs) /\ f.recs = <<>>
      /\ f.mark = Len(Settled.rts) /\ f.emark = Len(envRoots)
  BY DEF Frame
<1>8. base.st = Append(Settled.st, f) /\ base.rts = Settled.rts BY DEF Settled
<1> HIDE DEF g, f, base, it
<1>9. Usable(f, A, S) BY <1>6, <1>7 DEF Usable, Lists, Idle
<1>10. Stacked(base.st, base.rts, envRoots, A, S) /\ Ready(base.st) /\ base.rts \in Seq(A)
  <2>1. Agree(Settled.rts, Settled.rts, Len(Settled.rts)) BY <1>5 DEF Agree
  <2>2. Stacked(Append(Settled.st, f), Settled.rts, envRoots, A, S) /\ Ready(Append(Settled.st, f))
    BY <1>5, <1>7, <1>9, <2>1, PushBare
  <2> QED BY <1>5, <1>8, <2>2
<1>11. /\ Fresh \in SUBSET Ids /\ Alive(heap') \subseteq A /\ HeapOf(heap, A) /\ "settled" \in Does
  BY <1>1, FreshFacts, NowFacts DEF Covers, Does
<1>12. f.vals \in Seq(A) BY <1>4, <1>7
<1>13. /\ Stacked(stack', roots', envRoots', A, S) /\ stack' # <<>> /\ Last(stack').fn = "body"
      /\ HeapOf(heap', A) /\ ans' = Nothing /\ Alive(heap) \subseteq Alive(heap')
  BY <1>1, <1>3, <1>10, <1>11, <1>12, CallKeeps
<1> QED BY <1>1, <1>13, EntersStep

(* A snapshot is taken of the records of the stack.                        *)
LEMMA NamedWithin ==
  ASSUME NEW A, NEW S, NEW r \in RecordOf(A), Named(r) \subseteq S
  PROVE  r \in RecordOf(S)
<1>1. /\ r \in [what : Does \cup {"body", "def"}, callee : A, vals : Seq(A), form : A, env : A,
                left : Nat, depth : Nat]
      /\ Enough(r.vals, r.left + 1, r.what)
  BY DEF RecordOf
<1>2. r.callee \in S /\ r.form \in S /\ r.env \in S /\ Range(r.vals) \subseteq S BY DEF Named
<1>3. r.vals \in Seq(S)
  <2>1. r.vals \in Seq(A) BY <1>1
  <2>2. DOMAIN r.vals = 1 .. Len(r.vals) /\ Len(r.vals) \in Nat /\ r.vals \in [1 .. Len(r.vals) -> A]
    BY <2>1, LenProperties
  <2>3. \A i \in 1 .. Len(r.vals) : r.vals[i] \in S BY <1>2, <2>2 DEF Range
  <2>4. r.vals \in [1 .. Len(r.vals) -> S] BY <2>2, <2>3
  <2> QED BY <2>2, <2>4
<1>4. r \in [what : Does \cup {"body", "def"}, callee : S, vals : Seq(S), form : S, env : S,
             left : Nat, depth : Nat]
  BY <1>1, <1>2, <1>3
<1> QED BY <1>1, <1>4 DEF RecordOf

LEMMA SnapTaken ==
  ASSUME NEW A, NEW S, Now(A, S), Covers(A, S), NEW k \in Ids, k \notin DOMAIN snaps, NEW snap,
         snap.recs \in Seq(RecordOf(A)),
         snaps' = [j \in DOMAIN snaps \cup {k} |-> IF j = k THEN snap ELSE snaps[j]]
  PROVE  SnapsOf(snaps', A, S) /\ Kept(snaps) \subseteq Kept(snaps')
<1>1. SnapsOf(snaps, A, S) /\ A \subseteq Obj BY NowFacts
<1>2. /\ DOMAIN snaps' = DOMAIN snaps \cup {k} /\ snaps'[k] = snap
      /\ \A j \in DOMAIN snaps : snaps'[j] = snaps[j]
  OBVIOUS
<1>3. snap.recs \in Seq(RecordOf(S))
  <2>1. CASE S = Obj BY <1>1, <2>1, RecordsWiden
  <2>2. CASE Kept(snaps') \subseteq S
    <3> DEFINE s == snap.recs
    <3>1. s \in Seq(RecordOf(A)) OBVIOUS
    <3>2. \A r \in Range(s) : Named(r) \subseteq S BY <1>2, <2>2 DEF Kept
    <3> HIDE DEF s
    <3>3. DOMAIN s = 1 .. Len(s) /\ Len(s) \in Nat /\ s \in [1 .. Len(s) -> RecordOf(A)]
      BY <3>1, LenProperties
    <3>4. ASSUME NEW i \in 1 .. Len(s) PROVE s[i] \in RecordOf(S)
      <4>1. s[i] \in RecordOf(A) /\ s[i] \in Range(s) BY <3>3 DEF Range
      <4> QED BY <3>2, <4>1, NamedWithin
    <3>5. s \in [1 .. Len(s) -> RecordOf(S)] BY <3>3, <3>4
    <3>6. s \in Seq(RecordOf(S)) BY <3>3, <3>5
    <3> QED BY <3>6 DEF s
  <2> QED BY <2>1, <2>2 DEF Covers
<1>4. SnapsOf(snaps', A, S) BY <1>1, <1>2, <1>3 DEF SnapsOf
<1>5. Kept(snaps) \subseteq Kept(snaps') BY <1>2 DEF Kept
<1> QED BY <1>4, <1>5

LEMMA EntersApart ==
  ASSUME NEW A, NEW h, HeapOf(h, A), NEW free \in SUBSET Ids, free # {}, NEW st, NEW c, NEW vals,
         EnterClosure(h, free, st, c, vals), NEW k \in Obj \ free
  PROVE  heap'[k] = h[k]
<1>1. Least(free) # k BY LeastIn
<1> DEFINE env == Least(free)
           node == Node("env", ({c} \cup Range(vals)) \ {Base}, h[c].up)
<1>2. heap' = [h EXCEPT ![env] = node] BY DEF EnterClosure
<1> HIDE DEF env, node
<1>3. k \in DOMAIN h BY DEF HeapOf
<1> QED BY <1>1, <1>2, <1>3 DEF env

LEMMA CallCCKeeps ==
  ASSUME NEW A, NEW S, Now(A, S), Covers(A, S), CallCC
  PROVE  Later(A, S)
<1> DEFINE k    == NewObj
           recs == Control(Settled.st)
           g    == Frame("call/cc", "", Base, Base, 0)
           f    == [g EXCEPT !.callee = k, !.mark = Len(Settled.rts)]
           snap == [recs |-> recs, resumable |-> CoversEveryFrame(recs, Active(Settled.st))]
           h    == [heap EXCEPT ![k] = Node("cont", {}, Base)]
           free == Fresh \ {k}
           base == [Settled EXCEPT !.st = Append(@, f)]
           one  == <<k>>
<1>1. /\ Applies({"call/cc"}) /\ Fresh # {}
      /\ snaps' = [j \in DOMAIN snaps \cup {k} |-> IF j = k THEN snap ELSE snaps[j]]
      /\ CallWithValues(h, free, "settled", base, Top.vals[1], one)
  BY DEF CallCC
<1>2. free # {} /\ \E st : EnterClosure(h, free, st, Top.vals[1], one)
  <2> HIDE DEF h, free, base, one
  <2> QED BY <1>1 DEF CallWithValues
<1>3. k \in Ids /\ k \in Obj /\ k \notin DOMAIN snaps /\ free \in SUBSET Ids /\ k \notin free
  <2>1. k \in Ids /\ k \notin DOMAIN snaps /\ Fresh \in SUBSET Ids BY <1>1, FreshFacts
  <2> QED BY <2>1 DEF Obj
<1>4. Top.fn \in Lists /\ Top.vals[1] \in A
  <2>1. /\ Top.fn \in Lists /\ Top.does = "call/cc" /\ Len(Top.vals) \in Nat
        /\ Len(Top.vals) >= Arity(Top.does) /\ \A j \in 1 .. Len(Top.vals) : Top.vals[j] \in A
    <3>1. Applies({"call/cc"}) BY <1>1
    <3> QED BY <3>1, ArgsThere
  <2>2. 1 \in 1 .. Len(Top.vals) BY <2>1 DEF Arity
  <2> QED BY <2>1, <2>2
<1>5. A \in SUBSET Obj /\ Base \in A /\ HeapOf(heap, A) BY NowFacts
<1>6. HeapOf(h, A) /\ k \in Alive(h) /\ Alive(heap) \subseteq Alive(h)
  <2> DEFINE node == Node("cont", {}, Base)
  <2>1. node \in NodeOf(A) /\ node.kind # "free"
    <3>1. "cont" \in Kind /\ {} \in SUBSET A BY DEF Kind
    <3> QED BY <1>5, <3>1, NodeIs
  <2> HIDE DEF node, k
  <2> QED BY <1>3, <1>5, <2>1, Made DEF node
<1> HIDE DEF h
<1>7. k \in A
  <2>1. heap'[k] = h[k]
    <3> HIDE DEF k, free, one
    <3> QED BY <1>2, <1>3, <1>6, EntersApart
  <2>2. k \in Alive(heap') BY <1>3, <1>6, <2>1 DEF Alive
  <2> QED BY <2>2 DEF Covers
<1>8. /\ Stacked(Settled.st, Settled.rts, envRoots, A, S) /\ Ready(Settled.st)
      /\ Settled.rts \in Seq(A) /\ Len(Settled.rts) \in Nat
  BY <1>4, SettledKeeps, LenProperties
<1>9. f \in FrameOf(A)
  <2> DEFINE m == Len(Settled.rts)
             g1 == [g EXCEPT !.callee = k]
  <2>1. "call/cc" \in FrameKind /\ "" \in Does /\ 0 \in Nat BY DEF FrameKind, Does
  <2>2. g \in FrameOf(A) BY <1>5, <2>1, FrameIs
  <2>3. f = [g1 EXCEPT !.mark = m] OBVIOUS
  <2>4. m \in Nat BY <1>8
  <2> HIDE DEF f, g, m, k
  <2>5. g1 \in FrameOf(A) BY <1>3, <2>2 DEF FrameOf
  <2> HIDE DEF g1
  <2> QED BY <2>3, <2>4, <2>5 DEF FrameOf
<1>10. /\ f.fn = "call/cc" /\ f.form = Base /\ f.env = Base /\ f.recs = <<>>
       /\ f.mark = Len(Settled.rts) /\ f.emark = Len(envRoots)
  BY DEF Frame
<1>11. base.st = Append(Settled.st, f) /\ base.rts = Settled.rts BY DEF Settled
<1>12. one \in Seq(A) BY <1>7
<1>13. snap.recs = recs OBVIOUS
<1> HIDE DEF g, f, base, one, k, free
<1>14. Usable(f, A, S) BY <1>9, <1>10 DEF Usable, Lists, Idle
<1>15. Stacked(base.st, base.rts, envRoots, A, S) /\ Ready(base.st) /\ base.rts \in Seq(A)
  <2>1. Agree(Settled.rts, Settled.rts, Len(Settled.rts)) BY <1>8 DEF Agree
  <2>2. Stacked(Append(Settled.st, f), Settled.rts, envRoots, A, S) /\ Ready(Append(Settled.st, f))
    BY <1>8, <1>10, <1>14, <2>1, PushBare
  <2> QED BY <1>8, <1>11, <2>2
<1>16. Alive(heap') \subseteq A /\ "settled" \in Does BY DEF Covers, Does
<1>17. /\ Stacked(stack', roots', envRoots', A, S) /\ stack' # <<>> /\ Last(stack').fn = "body"
       /\ HeapOf(heap', A) /\ ans' = Nothing /\ Alive(h) \subseteq Alive(heap')
  BY <1>1, <1>3, <1>4, <1>6, <1>12, <1>15, <1>16, CallKeeps
<1>18. recs \in Seq(RecordOf(A))
  <2> DEFINE st == Settled.st
  <2>1. st \in Seq(FrameOf(A)) /\ \A i \in 1 .. Len(st) : Usable(st[i], A, S) BY <1>8 DEF Stacked
  <2> HIDE DEF st
  <2>2. Control(st) \in Seq(RecordOf(A)) BY <1>5, <2>1, ControlFacts
  <2> QED BY <2>2 DEF st
<1> HIDE DEF recs
<1>19. SnapsOf(snaps', A, S) /\ Kept(snaps) \subseteq Kept(snaps')
  <2> HIDE DEF snap
  <2> QED BY <1>1, <1>3, <1>13, <1>18, SnapTaken
<1>20. Rests(stack', roots', ans') BY <1>17, SomeAnswer DEF Lists
<1>21. Alive(heap) \subseteq Alive(heap') BY <1>6, <1>17
<1>22. AnswerOf(ans', A) BY <1>5, <1>17, AnswersGiven
<1> QED BY <1>17, <1>19, <1>20, <1>21, <1>22, NowFacts DEF Later, Then, Holds, DataOf

-----------------------------------------------------------------------------
(* An argument list takes its next value.                                  *)
Grown(f, v) ==
  /\ f.fn = Top.fn /\ f.does = Top.does /\ f.form = Top.form /\ f.env = Top.env
  /\ f.callee = Top.callee /\ f.vals = Append(Top.vals, v) /\ f.recs = Top.recs
  /\ f.mark = Top.mark /\ f.emark = Top.emark
LEMMA ListGrows ==
  ASSUME NEW A, NEW S, Now(A, S), Top.fn \in Lists, NEW v \in A, NEW r \in Seq(A),
         Agree(r, roots, Len(roots)), Len(r) > Len(roots), r[Len(roots) + 1] = v,
         NEW f \in FrameOf(A), Grown(f, v), Enough(f.vals, f.left, f.does)
  PROVE  Stacked(With(f), r, envRoots, A, S) /\ With(f) # <<>> /\ Last(With(f)) = f
<1>1. /\ Usable(Top, A, S) /\ Fits(Top, roots, envRoots, A, S) /\ roots \in Seq(A)
      /\ envRoots \in Seq(A) /\ Len(roots) \in Nat /\ Len(envRoots) \in Nat
      /\ Top.mark \in Nat /\ Top.emark \in Nat /\ Top.emark <= Len(envRoots)
      /\ Ceil(Top) <= Len(roots) /\ Floor(Top) \in Nat /\ Floor(Top) <= Len(roots)
  BY NowTop
<1>2. Len(r) \in Nat BY LenProperties
<1>3. /\ f.fn = Top.fn /\ f.does = Top.does /\ f.form = Top.form /\ f.env = Top.env
      /\ f.callee = Top.callee /\ f.vals = Append(Top.vals, v) /\ f.recs = Top.recs
      /\ f.mark = Top.mark /\ f.emark = Top.emark
  BY DEF Grown
<1>4. Top.callee \in A /\ Top.vals \in Seq(A) /\ Top.recs = <<>>
  BY <1>1 DEF Usable, Lists
<1>5. /\ f.vals \in Seq(A) /\ Len(Top.vals) \in Nat /\ DOMAIN f.vals = 1 .. Len(Top.vals) + 1
      /\ DOMAIN Top.vals = 1 .. Len(Top.vals)
      /\ \A j \in 1 .. Len(Top.vals) : f.vals[j] = Top.vals[j]
      /\ f.vals[Len(Top.vals) + 1] = v /\ Len(f.vals) = Len(Top.vals) + 1
  <2> DEFINE s == Top.vals
  <2>1. s \in Seq(A) /\ f.vals = Append(s, v) BY <1>3, <1>4
  <2> HIDE DEF s
  <2>2. /\ f.vals \in Seq(A) /\ Len(s) \in Nat /\ DOMAIN f.vals = 1 .. Len(s) + 1
        /\ DOMAIN s = 1 .. Len(s) /\ \A j \in 1 .. Len(s) : f.vals[j] = s[j]
        /\ f.vals[Len(s) + 1] = v /\ Len(f.vals) = Len(s) + 1
    BY <2>1, Pushed
  <2> QED BY <2>2 DEF s
<1>6. Usable(f, A, S)
  <2>1. Enough(f.vals, f.left + 1, f.does)
    <3>1. f.left \in Nat BY FrameTypes
    <3>2. Arity(f.does) \in Nat BY DEF Arity
    <3> QED BY <1>5, <3>1, <3>2 DEF Enough
  <2> QED BY <1>3, <1>4, <1>5, <2>1 DEF Usable, Lists, Idle
<1>7. Rooted(f, r, Len(r))
  <2>1. \A p \in 1 .. Len(roots) : p \in 1 .. Len(r) /\ r[p] = roots[p] BY <1>1, <1>2 DEF Agree
  <2>2. Len(roots) + 1 \in 1 .. Len(r) BY <1>1, <1>2
  <2>3. Ceil(f) <= Len(r) BY <1>1, <1>2, <1>3 DEF Ceil
  <2>4. Rooted(Top, roots, Len(roots)) BY <1>1 DEF Fits
  <2>5. f.fn = "args" => f.mark > 0 /\ r[f.mark] = f.callee /\ \E p \in 1 .. Len(r) : r[p] = f.form
    <3> SUFFICES ASSUME f.fn = "args"
                 PROVE  f.mark > 0 /\ r[f.mark] = f.callee /\ \E p \in 1 .. Len(r) : r[p] = f.form
      OBVIOUS
    <3>1. /\ Top.mark > 0 /\ roots[Top.mark] = Top.callee
          /\ \E p \in 1 .. Len(roots) : roots[p] = Top.form
      BY <1>3, <2>4 DEF Rooted
    <3>2. Top.mark \in 1 .. Len(roots) BY <1>1, <1>3, <3>1 DEF Ceil
    <3> QED BY <1>3, <2>1, <3>1, <3>2
  <2>6. ASSUME NEW j \in DOMAIN f.vals PROVE \E p \in 1 .. Len(r) : r[p] = f.vals[j]
    <3>1. CASE j = Len(Top.vals) + 1 BY <1>5, <2>2, <3>1
    <3>2. CASE j # Len(Top.vals) + 1
      <4>1. j \in 1 .. Len(Top.vals) BY <1>5, <3>2
      <4>2. \E p \in 1 .. Len(roots) : roots[p] = Top.vals[j] BY <1>5, <2>4, <4>1 DEF Rooted
      <4> QED BY <1>5, <2>1, <4>1, <4>2
    <3> QED BY <3>1, <3>2
  <2>7. f.fn \in Lists BY <1>3
  <2> QED BY <2>3, <2>5, <2>6, <2>7 DEF Rooted, Lists
<1>8. EnvRooted(f, envRoots) /\ Len(envRoots) = EnvEnd(f)
  BY <1>1, <1>3 DEF Fits, EnvRooted, EnvEnd, Slots
<1>9. Fits(f, r, envRoots, A, S) BY <1>6, <1>7, <1>8 DEF Fits
<1>10. Agree(r, roots, Floor(Top)) /\ Agree(envRoots, envRoots, Top.emark) BY <1>1, <1>2 DEF Agree
<1>11. Succeeds(f, Top)
  <2>1. Floor(f) = Floor(Top) BY <1>3 DEF Floor
  <2> QED BY <1>1, <1>3, <2>1 DEF Succeeds, Lists
<1> QED BY <1>1, <1>9, <1>10, <1>11, TopKeeps

(* Any value may be the next: what suits an instruction is its concern.    *)
LEMMA ArgAtomKeeps ==
  ASSUME NEW A, NEW S, Now(A, S), ArgAtom
  PROVE  Later(A, S)
<1>1. /\ ans = Nothing /\ Top.fn \in Lists /\ Top.left > 0 /\ UNCHANGED <<heap, envRoots, ans, snaps>>
  BY DEF ArgAtom, Lists
<1>2. PICK v \in Atoms(Top.env) :
        /\ stack' = With([Top EXCEPT !.left = @ - 1, !.vals = Append(@, v)])
        /\ roots' = roots \o <<v, v>>
  BY DEF ArgAtom
<1> DEFINE g == [Top EXCEPT !.left = @ - 1]
           f == [Top EXCEPT !.left = @ - 1, !.vals = Append(@, v)]
           two == <<v, v>>
<1>3. v \in A /\ A \subseteq Obj /\ roots \in Seq(A) /\ Len(roots) \in Nat
      /\ Top \in FrameOf(A) /\ Usable(Top, A, S) /\ Top.left \in Nat
  BY <1>2, AtomsWithin, NowTop, NowFacts
<1>4. Top.vals \in Seq(A) /\ Top.vals \in Seq(Obj) BY <1>1, <1>3, FrameTypes DEF Usable
<1>5. f \in FrameOf(A)
  <2> DEFINE w == Append(Top.vals, v)
  <2>1. w \in Seq(Obj) BY <1>3, <1>4
  <2>2. g \in FrameOf(A)
    <3>1. Top.left - 1 \in Nat BY <1>1, <1>3
    <3> QED BY <1>3, <3>1 DEF FrameOf
  <2>3. f = [g EXCEPT !.vals = w] BY <1>3 DEF FrameOf
  <2> HIDE DEF f, g, w
  <2> QED BY <2>1, <2>2, <2>3 DEF FrameOf
<1>6. Grown(f, v) /\ f.left = Top.left - 1 BY <1>3 DEF FrameOf, Grown
<1> HIDE DEF f
<1>7. two \in Seq(A) /\ Len(two) = 2 /\ two[1] = v BY <1>3
<1> HIDE DEF two
<1>8. /\ roots' \in Seq(A) /\ Agree(roots', roots, Len(roots)) /\ Len(roots') > Len(roots)
      /\ roots'[Len(roots) + 1] = v
  <2>1. /\ roots \o two \in Seq(A) /\ Len(roots \o two) = Len(roots) + Len(two)
        /\ \A p \in 1 .. Len(two) : (roots \o two)[Len(roots) + p] = two[p]
        /\ \A m \in Nat : m <= Len(roots) => Agree(roots \o two, roots, m)
    <3>1. roots \in Seq(A) /\ two \in Seq(A) BY <1>3, <1>7
    <3> QED BY <3>1, JoinFacts
  <2>2. roots' = roots \o two BY <1>2 DEF two
  <2>3. 1 \in 1 .. Len(two) BY <1>7
  <2>4. roots'[Len(roots) + 1] = two[1] BY <2>1, <2>2, <2>3
  <2>5. Agree(roots', roots, Len(roots)) BY <1>3, <2>1, <2>2
  <2> QED BY <1>3, <1>7, <2>1, <2>2, <2>4, <2>5
<1>9. Enough(f.vals, f.left, f.does)
  <2>1. Enough(Top.vals, Top.left, Top.does) BY <1>1 DEF Now, Holds, Rests, Top
  <2>2. Len(f.vals) = Len(Top.vals) + 1 /\ Len(Top.vals) \in Nat
    <3>1. f.vals = Append(Top.vals, v) BY <1>6 DEF Grown
    <3> QED BY <1>3, <1>4, <3>1, Pushed
  <2>3. f.does = Top.does /\ Arity(f.does) \in Nat BY <1>6 DEF Grown, Arity
  <2> QED BY <1>3, <1>6, <2>1, <2>2, <2>3 DEF Enough
<1>10. Stacked(With(f), roots', envRoots, A, S) /\ With(f) # <<>> /\ Last(With(f)) = f
  BY <1>1, <1>3, <1>5, <1>6, <1>8, <1>9, ListGrows
<1>11. stack' = With(f) BY <1>2 DEF f
<1>12. Rests(stack', roots', ans')
  <2>1. Last(stack') = f /\ f.fn \notin {"top", "source"}
    BY <1>1, <1>6, <1>10, <1>11 DEF Grown, Lists
  <2> QED BY <1>9, <2>1 DEF Rests
<1>13. Stacked(stack', roots', envRoots', A, S) /\ stack' # <<>> BY <1>1, <1>10, <1>11
<1>14. HeapGoes(A) /\ AnswerOf(ans', A) BY <1>1, HeapQuiet, NowFacts
<1> QED BY <1>1, <1>12, <1>13, <1>14, Lands

LEMMA ArgAnswersKeeps ==
  ASSUME NEW A, NEW S, Now(A, S), ArgAnswers
  PROVE  Later(A, S)
<1> DEFINE v == ans.v
           f == [Top EXCEPT !.vals = Append(@, v)]
<1>1. /\ Top.fn \in Lists /\ ans' = Nothing /\ UNCHANGED <<heap, envRoots, snaps>>
      /\ stack' = With(f) /\ roots' = Append(roots, v)
  BY DEF ArgAnswers, Lists
<1>3. v \in A /\ A \subseteq Obj /\ roots \in Seq(A) /\ Len(roots) \in Nat
      /\ Top \in FrameOf(A) /\ Usable(Top, A, S) /\ Top.left \in Nat
  BY NowTop, NowFacts
<1>4. Top.vals \in Seq(A) /\ Top.vals \in Seq(Obj) BY <1>1, <1>3, FrameTypes DEF Usable
<1>5. f \in FrameOf(A)
  <2> DEFINE w == Append(Top.vals, v)
  <2>1. w \in Seq(Obj) BY <1>3, <1>4
  <2>2. f = [Top EXCEPT !.vals = w] BY <1>3 DEF FrameOf
  <2> HIDE DEF f, w
  <2> QED BY <1>3, <2>1, <2>2 DEF FrameOf
<1>6. Grown(f, v) /\ f.left = Top.left BY <1>3 DEF FrameOf, Grown
<1> HIDE DEF f, v
<1>8. /\ roots' \in Seq(A) /\ Agree(roots', roots, Len(roots)) /\ Len(roots') > Len(roots)
      /\ roots'[Len(roots) + 1] = v
  <2>1. /\ Append(roots, v) \in Seq(A) /\ Len(Append(roots, v)) = Len(roots) + 1
        /\ Append(roots, v)[Len(roots) + 1] = v
        /\ \A n \in Nat : n <= Len(roots) => Agree(Append(roots, v), roots, n)
    BY <1>3, PushFacts
  <2> QED BY <1>1, <1>3, <2>1
<1>9. Enough(f.vals, f.left, f.does)
  <2>1. Enough(Top.vals, Top.left + 1, Top.does) BY <1>1, <1>3 DEF Usable
  <2>2. Len(f.vals) = Len(Top.vals) + 1 /\ Len(Top.vals) \in Nat
    <3>1. f.vals = Append(Top.vals, v) BY <1>6 DEF Grown
    <3> QED BY <1>3, <1>4, <3>1, Pushed
  <2>3. f.does = Top.does /\ Arity(f.does) \in Nat BY <1>6 DEF Grown, Arity
  <2> QED BY <1>3, <1>6, <2>1, <2>2, <2>3 DEF Enough
<1>10. Stacked(With(f), roots', envRoots, A, S) /\ With(f) # <<>> /\ Last(With(f)) = f
  BY <1>1, <1>3, <1>5, <1>6, <1>8, <1>9, ListGrows
<1>12. Rests(stack', roots', ans')
  <2>1. Last(stack') = f /\ f.fn \notin {"top", "source"}
    BY <1>1, <1>6, <1>10 DEF Grown, Lists
  <2> QED BY <1>9, <2>1 DEF Rests
<1>13. Stacked(stack', roots', envRoots', A, S) /\ stack' # <<>> BY <1>1, <1>10
<1>14. HeapGoes(A) /\ AnswerOf(ans', A) BY <1>1, HeapQuiet, NowFacts, AnswersGiven
<1> QED BY <1>1, <1>12, <1>13, <1>14, Lands

(* The handler of a guard.                                                 *)
LEMMA GuardCatchesKeeps ==
  ASSUME NEW A, NEW S, Now(A, S), Covers(A, S), GuardCatches
  PROVE  Later(A, S)
<1> DEFINE node == Node("env", {}, Top.env)
           env  == NewObj
<1>1. /\ Top.fn = "guard" /\ Fresh # {} /\ heap' = [heap EXCEPT ![NewObj] = node]
      /\ ans' = Nothing /\ UNCHANGED <<roots, envRoots, snaps>>
  BY DEF GuardCatches, At
<1>2. PICK n \in 1 .. MaxForms : stack' = With(Frame("body", "", Top.form, env, n))
  BY DEF GuardCatches
<1>3. /\ Top.form \in A /\ Top.env \in A /\ roots \in Seq(A) /\ envRoots \in Seq(A)
      /\ Len(roots) \in Nat /\ Len(envRoots) \in Nat /\ Floor(Top) \in Nat /\ Floor(Top) <= Len(roots)
      /\ Top.emark \in Nat /\ Len(envRoots) = EnvEnd(Top)
  BY NowTop
<1>4. node \in NodeOf(A) /\ node.kind # "free"
  <2>1. {} \in SUBSET A /\ "env" \in Kind BY DEF Kind
  <2> QED BY <1>3, <2>1, NodeIs
<1> HIDE DEF node
<1>5. HeapGoes(A) /\ env \in A BY <1>1, <1>4, HeapMakes
<1> DEFINE f == Frame("body", "", Top.form, env, n)
<1> HIDE DEF env
<1>6. f \in FrameOf(A)
  <2>1. "body" \in FrameKind /\ "" \in Does /\ n \in Nat BY RootsAssumption DEF FrameKind, Does
  <2> QED BY <1>3, <1>5, <2>1, FrameIs
<1>7. /\ f.fn = "body" /\ f.does = "" /\ f.mark = Len(roots) /\ f.emark = Len(envRoots)
      /\ f.callee = Base /\ f.vals = <<>> /\ f.recs = <<>>
  BY DEF Frame
<1>8. stack' = With(f) BY <1>2
<1> HIDE DEF f
<1>9. Fits(f, roots, envRoots, A, S)
  <2>1. Plain(f) BY <1>7 DEF Plain, Lists, Idle
  <2>2. Usable(f, A, S) BY <1>6, <2>1, PlainIsUsable
  <2>5. Ceil(f) <= Len(roots)
    <3>1. Ceil(f) = Len(roots) BY <1>7 DEF Ceil
    <3>2. Len(roots) \in Nat BY <1>3
    <3> QED BY <3>1, <3>2
  <2>3. Rooted(f, roots, Len(roots)) BY <1>7, <2>5 DEF Rooted, Lists
  <2>4. EnvRooted(f, envRoots) /\ Len(envRoots) = EnvEnd(f)
    BY <1>7 DEF EnvRooted, EnvEnd, Slots
  <2> QED BY <2>2, <2>3, <2>4 DEF Fits
<1>10. EnvEnd(Top) = Top.emark BY <1>1 DEF EnvEnd, Slots
<1>11. Succeeds(f, Top) BY <1>1, <1>3, <1>7, <1>10 DEF Succeeds, Floor, Resumes
<1>12. Agree(roots, roots, Floor(Top)) /\ Agree(envRoots, envRoots, Top.emark)
  BY <1>3, <1>10 DEF Agree
<1>13. Stacked(With(f), roots, envRoots, A, S) /\ With(f) # <<>> /\ Last(With(f)) = f
  BY <1>3, <1>9, <1>11, <1>12, TopKeeps
<1>14. Stacked(stack', roots', envRoots', A, S) /\ stack' # <<>> /\ Last(stack') = f
  BY <1>1, <1>8, <1>13
<1>15. Rests(stack', roots', ans') BY <1>7, <1>14, SomeAnswer DEF Lists
<1>16. AnswerOf(ans', A) BY <1>1, NowFacts, AnswersGiven
<1> QED BY <1>1, <1>5, <1>14, <1>15, <1>16, Lands

-----------------------------------------------------------------------------
(* A continuation replayed, and its records resumed.                       *)
LEMMA ReplaysKeeps ==
  ASSUME NEW A, NEW S, Now(A, S), Replays
  PROVE  Later(A, S)
<1> DEFINE k == ans.env
           g == Frame("replay", "", Base, Base, 0)
           f == [g EXCEPT !.recs = snaps[k].recs]
<1>1. Top.fn \in {"top", "source"} /\ UNCHANGED <<heap, roots, envRoots, snaps>> BY DEF Replays
<1>2. \/ k \in DOMAIN snaps /\ ans' = Ok(ans.v) /\ stack' = Append(stack, f)
      \/ ans' = Raise /\ UNCHANGED stack
  BY DEF Replays
<1>3. HeapGoes(A) BY <1>1, HeapQuiet
<1>4. CASE k \in DOMAIN snaps /\ ans' = Ok(ans.v) /\ stack' = Append(stack, f)
  <2>1. AnswerOf(ans', A) /\ ans' # Nothing BY <1>4, NowFacts, AnswersGiven
  <2>2. /\ Stacked(stack, roots, envRoots, A, S) /\ Ready(stack) /\ Base \in A /\ roots \in Seq(A)
        /\ Len(roots) \in Nat
    BY <1>1, NowFacts, NowTop DEF Ready, Top
  <2>3. snaps[k].recs \in Seq(RecordOf(A)) /\ snaps[k].recs \in Seq(RecordOf(S))
    BY <1>4, NowFacts DEF SnapsOf
  <2>4. f \in FrameOf(A)
    <3>1. "replay" \in FrameKind /\ "" \in Does /\ 0 \in Nat BY DEF FrameKind, Does
    <3>2. g \in FrameOf(A) BY <2>2, <3>1, FrameIs
    <3> DEFINE q == snaps[k].recs
    <3>3. f = [g EXCEPT !.recs = q] /\ q \in Seq(RecordOf(A)) BY <2>3
    <3> HIDE DEF f, g, q
    <3> QED BY <3>2, <3>3 DEF FrameOf
  <2>5. /\ f.fn = "replay" /\ f.form = Base /\ f.env = Base /\ f.callee = Base /\ f.vals = <<>>
        /\ f.recs = snaps[k].recs /\ f.mark = Len(roots) /\ f.emark = Len(envRoots)
    BY DEF Frame
  <2> HIDE DEF f
  <2>6. Usable(f, A, S) BY <2>3, <2>4, <2>5 DEF Usable, Lists, Idle
  <2>7. Agree(roots, roots, Len(roots)) BY <2>2 DEF Agree
  <2>8. Stacked(Append(stack, f), roots, envRoots, A, S) /\ Ready(Append(stack, f))
    BY <2>2, <2>5, <2>6, <2>7, PushBare
  <2>9. Stacked(stack', roots', envRoots', A, S) /\ stack' # <<>> BY <1>1, <1>4, <2>8 DEF Ready
  <2>10. Rests(stack', roots', ans') BY <2>1, SomeAnswer
  <2> QED BY <1>1, <1>3, <2>1, <2>9, <2>10, Lands
<1>5. CASE ans' = Raise /\ UNCHANGED stack
  <2>1. AnswerOf(ans', A) /\ ans' # Nothing BY <1>5, NowFacts, AnswersGiven
  <2> QED BY <1>1, <1>3, <1>5, <2>1, StackStays
<1> QED BY <1>2, <1>4, <1>5

(* The innermost record is taken off a replay.                             *)
LEMMA RestKeeps ==
  ASSUME NEW A, NEW S, Now(A, S), Top.fn = "replay", Top.recs # <<>>
  PROVE  LET f == [Top EXCEPT !.recs = Front(@)]
             r == Last(Top.recs)
         IN  /\ Stacked(With(f), roots, envRoots, A, S) /\ With(f) # <<>> /\ Last(With(f)) = f
             /\ f.fn = "replay" /\ f.left = Top.left
             /\ r \in RecordOf(A) /\ (Top.left = 0 => r \in RecordOf(S))
<1> DEFINE q == Top.recs
           w == Front(q)
           f == [Top EXCEPT !.recs = w]
           r == Last(q)
<1>1. /\ Top \in FrameOf(A) /\ Usable(Top, A, S) /\ Fits(Top, roots, envRoots, A, S)
      /\ roots \in Seq(A) /\ envRoots \in Seq(A) /\ Len(roots) \in Nat /\ Len(envRoots) \in Nat
      /\ Floor(Top) \in Nat /\ Floor(Top) <= Len(roots)
      /\ Top.emark \in Nat /\ Top.emark <= Len(envRoots) /\ Top.left \in Nat
  BY NowTop
<1>2. q \in Seq(RecordOf(A)) /\ q # <<>> BY <1>1, FrameTypes
<1>3. Top.left = 0 => q \in Seq(RecordOf(S)) BY <1>1 DEF Usable
<1>4. Top.callee = Base /\ Top.vals = <<>> /\ Top.form = Base /\ Top.env = Base
  BY <1>1 DEF Usable, Lists, Idle
<1>5. /\ f.fn = Top.fn /\ f.form = Top.form /\ f.env = Top.env /\ f.left = Top.left
      /\ f.callee = Top.callee /\ f.vals = Top.vals /\ f.recs = w
      /\ f.mark = Top.mark /\ f.emark = Top.emark /\ f.does = Top.does
  BY <1>1 DEF FrameOf
<1>10. f = [Top EXCEPT !.recs = Front(@)] BY <1>1 DEF FrameOf
<1> HIDE DEF q
<1>6. w \in Seq(RecordOf(A)) /\ r \in RecordOf(A) BY <1>2, FrontAndLast
<1>7. Top.left = 0 => w \in Seq(RecordOf(S)) /\ r \in RecordOf(S) BY <1>2, <1>3, FrontAndLast
<1> HIDE DEF w
<1>8. f \in FrameOf(A) BY <1>1, <1>6 DEF FrameOf
<1> HIDE DEF f
<1>9. Fits(f, roots, envRoots, A, S)
  <2>1. Usable(f, A, S) BY <1>4, <1>5, <1>7, <1>8 DEF Usable, Lists, Idle
  <2>2. Rooted(f, roots, Len(roots)) BY <1>1, <1>5 DEF Fits, Rooted, Ceil, Lists
  <2>3. EnvRooted(f, envRoots) BY <1>1, <1>5 DEF Fits, EnvRooted, Slots
  <2>4. Len(envRoots) = EnvEnd(f) BY <1>1, <1>5 DEF Fits, EnvEnd, Slots
  <2> QED BY <2>1, <2>2, <2>3, <2>4 DEF Fits
<1>11. Succeeds(f, Top)
  <2>1. Floor(f) = Floor(Top) BY <1>5 DEF Floor
  <2> QED BY <1>1, <1>5, <2>1 DEF Succeeds, Resumes
<1>12. Agree(roots, roots, Floor(Top)) /\ Agree(envRoots, envRoots, Top.emark)
  BY <1>1 DEF Agree
<1>13. Stacked(With(f), roots, envRoots, A, S) /\ With(f) # <<>> /\ Last(With(f)) = f
  BY <1>1, <1>9, <1>11, <1>12, TopKeeps
<1>14. f.fn = "replay" /\ f.left = Top.left BY <1>5
<1>15. r = Last(Top.recs) BY DEF q
<1> HIDE DEF r
<1> QED BY <1>6, <1>7, <1>10, <1>13, <1>14, <1>15

(* What a record resumes to.                                               *)
LEMMA PushResume ==
  ASSUME NEW A, NEW S, Now(A, S), NEW st, Stacked(st, roots, envRoots, A, S), st # <<>>,
         Last(st).fn = "replay", NEW f, Usable(f, A, S), f.fn \in Resumes,
         Last(st).left # 0 \/ {f.callee, f.form, f.env} \subseteq S,
         f.mark = Len(roots), f.emark = Len(envRoots),
         roots' \in Seq(A), Agree(roots', roots, Len(roots)), Rooted(f, roots', Len(roots')),
         stack' = Append(st, f), UNCHANGED <<heap, envRoots, snaps>>, ans' = Nothing,
         f.fn = "resume-args" => Enough(f.vals, f.left, f.does)
  PROVE  Later(A, S)
<1>1. envRoots \in Seq(A) /\ Len(envRoots) \in Nat /\ Len(roots) \in Nat BY NowTop
<1>2. Fits(f, roots', envRoots, A, S)
  <2>1. EnvRooted(f, envRoots) /\ Len(envRoots) = EnvEnd(f) BY DEF EnvRooted, EnvEnd, Slots, Resumes
  <2> QED BY <2>1 DEF Fits
<1>3. Agree(envRoots, envRoots, Len(envRoots)) BY <1>1 DEF Agree
<1>4. Follows(f, st, roots, envRoots, S)
  <2>1. Len(roots) <= Floor(f) BY <1>1 DEF Floor, Resumes
  <2> QED BY <2>1 DEF Follows, Resumes
<1>5. Stacked(Append(st, f), roots', envRoots, A, S)
  BY <1>1, <1>2, <1>3, <1>4, PushKeeps
<1>6. Append(st, f) # <<>> /\ Last(Append(st, f)) = f
  <2>1. st \in Seq(FrameOf(A)) /\ f \in FrameOf(A) BY DEF Stacked, Usable
  <2> QED BY <2>1, Pushed
<1>7. Stacked(stack', roots', envRoots', A, S) /\ stack' # <<>> /\ Last(stack') = f BY <1>5, <1>6
<1>8. Rests(stack', roots', ans') BY <1>7 DEF Rests, Lists, Resumes
<1>9. HeapGoes(A) /\ AnswerOf(ans', A) BY HeapQuiet, NowFacts, AnswersGiven
<1> QED BY <1>7, <1>8, <1>9, Lands

LEMMA RecordTypes ==
  ASSUME NEW A, NEW r \in RecordOf(A)
  PROVE  /\ r.what \in Does \cup {"body", "def"} /\ r.callee \in A /\ r.vals \in Seq(A)
         /\ r.form \in A /\ r.env \in A /\ r.left \in Nat /\ Enough(r.vals, r.left + 1, r.what)
BY DEF RecordOf

LEMMA PushedOnce ==
  ASSUME NEW A, NEW s \in Seq(A), NEW x \in A
  PROVE  /\ Append(s, x) \in Seq(A) /\ Len(s) <= Len(Append(s, x))
         /\ Agree(Append(s, x), s, Len(s))
<1>1. /\ Append(s, x) \in Seq(A) /\ Len(Append(s, x)) = Len(s) + 1 /\ Len(s) \in Nat
      /\ \A n \in Nat : n <= Len(s) => Agree(Append(s, x), s, n)
  BY PushFacts
<1> QED BY <1>1

Joined(r, t) == \A j \in DOMAIN t : \E p \in 1 .. Len(r) : r[p] = t[j]
LEMMA ValuesJoined ==
  ASSUME NEW A, NEW s \in Seq(A), NEW x \in A, NEW t \in Seq(A)
  PROVE  /\ Append(s, x) \o t \in Seq(A) /\ Agree(Append(s, x) \o t, s, Len(s))
         /\ Joined(Append(s, x) \o t, t)
<1> DEFINE r1 == Append(s, x)
           r == r1 \o t
<1>1. r1 \in Seq(A) /\ Len(s) <= Len(r1) /\ Agree(r1, s, Len(s)) BY PushedOnce
<1> HIDE DEF r1
<1>2. /\ r \in Seq(A) /\ Len(r) = Len(r1) + Len(t) /\ Len(r1) \in Nat /\ Len(t) \in Nat
      /\ \A p \in 1 .. Len(t) : r[Len(r1) + p] = t[p]
      /\ \A n \in Nat : n <= Len(r1) => Agree(r, r1, n)
  BY <1>1, JoinFacts
<1>3. Len(s) \in Nat /\ DOMAIN t = 1 .. Len(t) BY LenProperties
<1> HIDE DEF r
<1>4. Agree(r, s, Len(s))
  <2>1. Agree(r, r1, Len(s)) BY <1>1, <1>2, <1>3
  <2> QED BY <1>1, <2>1 DEF Agree
<1>5. Joined(r, t)
  <2>1. ASSUME NEW j \in DOMAIN t PROVE \E p \in 1 .. Len(r) : r[p] = t[j]
    <3>1. j \in 1 .. Len(t) /\ Len(r1) + j \in 1 .. Len(r) BY <1>2, <1>3
    <3> QED BY <1>2, <3>1
  <2> QED BY <2>1 DEF Joined
<1> QED BY <1>2, <1>4, <1>5 DEF r, r1

LEMMA ResumeBodyKeeps ==
  ASSUME NEW A, NEW S, Now(A, S), NEW st, Stacked(st, roots, envRoots, A, S), st # <<>>,
         Last(st).fn = "replay", NEW r \in RecordOf(A), Last(st).left # 0 \/ r \in RecordOf(S),
         stack' = Append(st, Frame("resume-body", "", r.form, r.env, r.left)),
         roots' = Append(roots, ans.v), ans' = Nothing, UNCHANGED <<heap, envRoots, snaps>>
  PROVE  Later(A, S)
<1> DEFINE f == Frame("resume-body", "", r.form, r.env, r.left)
<1>1. /\ r.form \in A /\ r.env \in A /\ r.left \in Nat /\ ans.v \in A /\ Base \in S
      /\ roots \in Seq(A) /\ Len(roots) \in Nat
  BY RecordTypes, NowFacts, NowTop
<1>2. Last(st).left # 0 \/ (r.form \in S /\ r.env \in S) BY RecordTypes
<1>3. f \in FrameOf(A)
  <2>1. "resume-body" \in FrameKind /\ "" \in Does BY DEF FrameKind, Does
  <2> QED BY <1>1, <2>1, FrameIs
<1>4. /\ f.fn = "resume-body" /\ f.form = r.form /\ f.env = r.env /\ f.callee = Base
      /\ f.vals = <<>> /\ f.recs = <<>> /\ f.mark = Len(roots) /\ f.emark = Len(envRoots)
  BY DEF Frame
<1>5. stack' = Append(st, f) OBVIOUS
<1> HIDE DEF f
<1>6. Usable(f, A, S)
  <2>1. Plain(f) BY <1>4 DEF Plain, Lists, Idle
  <2> QED BY <1>3, <2>1, PlainIsUsable
<1>7. roots' \in Seq(A) /\ Len(roots) <= Len(roots') /\ Agree(roots', roots, Len(roots))
  BY <1>1, PushedOnce
<1>8. Rooted(f, roots', Len(roots'))
  <2>1. Ceil(f) <= Len(roots')
    <3>1. f.fn # "eval" /\ f.mark = Len(roots) BY <1>4
    <3>2. Ceil(f) = Len(roots) BY <3>1 DEF Ceil
    <3> QED BY <1>7, <3>2
  <2> QED BY <1>4, <2>1 DEF Rooted, Lists
<1>9. f.fn \in Resumes /\ f.fn # "resume-args" BY <1>4 DEF Resumes
<1>10. Last(st).left # 0 \/ {f.callee, f.form, f.env} \subseteq S BY <1>1, <1>2, <1>4
<1> QED BY <1>4, <1>5, <1>6, <1>7, <1>8, <1>9, <1>10, PushResume

LEMMA ResumeArgsKeeps ==
  ASSUME NEW A, NEW S, Now(A, S), NEW st, Stacked(st, roots, envRoots, A, S), st # <<>>,
         Last(st).fn = "replay", NEW r \in RecordOf(A), Last(st).left # 0 \/ r \in RecordOf(S),
         r.what \notin {"body", "def"}, NEW vals, vals = Append(r.vals, ans.v),
         stack' = Append(st, [Frame("resume-args", r.what, r.form, r.env, r.left)
                                EXCEPT !.callee = r.callee, !.vals = vals]),
         roots' = Append(roots, ans.v) \o vals, ans' = Nothing, UNCHANGED <<heap, envRoots, snaps>>
  PROVE  Later(A, S)
<1> DEFINE g  == Frame("resume-args", r.what, r.form, r.env, r.left)
           g1 == [g EXCEPT !.callee = r.callee]
           f  == [g EXCEPT !.callee = r.callee, !.vals = vals]
<1>1. /\ r.form \in A /\ r.env \in A /\ r.left \in Nat /\ r.callee \in A /\ r.vals \in Seq(A)
      /\ r.what \in Does /\ Enough(r.vals, r.left + 1, r.what)
  BY RecordTypes
<1>2. /\ ans.v \in A /\ Base \in S /\ A \subseteq Obj /\ roots \in Seq(A) /\ Len(roots) \in Nat
  BY NowFacts, NowTop
<1>3. Last(st).left # 0 \/ (r.form \in S /\ r.env \in S /\ r.callee \in S) BY RecordTypes
<1>4. /\ vals \in Seq(A) /\ Len(r.vals) \in Nat /\ Len(vals) = Len(r.vals) + 1
      /\ DOMAIN vals = 1 .. Len(vals)
  <2> DEFINE s == r.vals
  <2>1. s \in Seq(A) /\ vals = Append(s, ans.v) BY <1>1
  <2> HIDE DEF s
  <2>2. vals \in Seq(A) /\ Len(s) \in Nat /\ Len(vals) = Len(s) + 1 /\ DOMAIN vals = 1 .. Len(s) + 1
    BY <1>2, <2>1, Pushed
  <2> QED BY <2>2 DEF s
<1>5. f \in FrameOf(A)
  <2>1. "resume-args" \in FrameKind BY DEF FrameKind
  <2>2. g \in FrameOf(A) BY <1>1, <2>1, FrameIs
  <2>3. f = [g1 EXCEPT !.vals = vals] OBVIOUS
  <2>4. vals \in Seq(Obj) /\ r.callee \in Obj BY <1>1, <1>2, <1>4
  <2> HIDE DEF f, g
  <2>5. g1 \in FrameOf(A) BY <2>2, <2>4 DEF FrameOf
  <2> HIDE DEF g1
  <2> QED BY <2>3, <2>4, <2>5 DEF FrameOf
<1>6. /\ f.fn = "resume-args" /\ f.does = r.what /\ f.form = r.form /\ f.env = r.env
      /\ f.left = r.left /\ f.callee = r.callee /\ f.vals = vals /\ f.recs = <<>>
      /\ f.mark = Len(roots) /\ f.emark = Len(envRoots)
  BY DEF Frame
<1>7. stack' = Append(st, f) OBVIOUS
<1> HIDE DEF f, g, g1
<1>8. Enough(f.vals, f.left, f.does) /\ Enough(f.vals, f.left + 1, f.does)
  <2>1. Arity(r.what) \in Nat BY DEF Arity
  <2>2. Len(r.vals) + (r.left + 1) >= Arity(r.what) BY <1>1 DEF Enough
  <2> QED BY <1>1, <1>4, <1>6, <2>1, <2>2 DEF Enough
<1>9. Usable(f, A, S) BY <1>1, <1>4, <1>5, <1>6, <1>8 DEF Usable, Lists, Idle
<1>12. Joined(roots', vals)
  <2>1. vals \in Seq(A) /\ ans.v \in A /\ roots \in Seq(A) BY <1>2, <1>4
  <2> QED BY <2>1, ValuesJoined
<1>13. roots' \in Seq(A) /\ Agree(roots', roots, Len(roots))
  <2>1. vals \in Seq(A) /\ ans.v \in A /\ roots \in Seq(A) BY <1>2, <1>4
  <2> QED BY <2>1, ValuesJoined
<1>14. Rooted(f, roots', Len(roots'))
  <2>2. Ceil(f) <= Len(roots')
    <3>1. f.fn # "eval" /\ f.mark = Len(roots) BY <1>6
    <3>2. Ceil(f) = Len(roots) BY <3>1 DEF Ceil
    <3>3. Len(roots) <= Len(roots') BY <1>13 DEF Agree
    <3> QED BY <3>2, <3>3
  <2>3. ASSUME NEW j \in DOMAIN f.vals PROVE \E p \in 1 .. Len(roots') : roots'[p] = f.vals[j]
    <3>1. j \in DOMAIN vals /\ f.vals = vals BY <1>6
    <3> QED BY <1>12, <3>1 DEF Joined
  <2> QED BY <1>6, <2>2, <2>3 DEF Rooted, Lists
<1>15. Last(st).left # 0 \/ {f.callee, f.form, f.env} \subseteq S BY <1>3, <1>6
<1>16. f.fn \in Resumes BY <1>6 DEF Resumes
<1> QED BY <1>6, <1>7, <1>8, <1>9, <1>13, <1>14, <1>15, <1>16, PushResume

LEMMA ResumeKeeps ==
  ASSUME NEW A, NEW S, Now(A, S), Resume
  PROVE  Later(A, S)
<1> DEFINE r    == Last(Top.recs)
           rest == [Top EXCEPT !.recs = Front(@)]
           st   == With(rest)
           vals == Append(r.vals, ans.v)
<1>1. /\ Top.fn = "replay" /\ ans.is = "ok" /\ Top.recs # <<>> /\ UNCHANGED <<envRoots, snaps>>
      /\ \/ stack' = st /\ UNCHANGED <<heap, roots, ans>>
         \/ Bind(r.env, ans.v) /\ stack' = st /\ ans' = Ok(Base) /\ UNCHANGED roots
         \/ /\ stack' = Append(st, Frame("resume-body", "", r.form, r.env, r.left))
            /\ roots' = Append(roots, ans.v) /\ ans' = Nothing /\ UNCHANGED heap
         \/ /\ r.what \notin {"body", "def"}
            /\ stack' = Append(st, [Frame("resume-args", r.what, r.form, r.env, r.left)
                                      EXCEPT !.callee = r.callee, !.vals = vals])
            /\ roots' = Append(roots, ans.v) \o vals
            /\ ans' = Nothing /\ UNCHANGED heap
  BY DEF Resume, At
<1>2. /\ Stacked(st, roots, envRoots, A, S) /\ st # <<>> /\ Last(st).fn = "replay"
      /\ r \in RecordOf(A) /\ (Last(st).left # 0 \/ r \in RecordOf(S))
  BY <1>1, RestKeeps
<1>3. ans # Nothing /\ AnswerOf(ans, A) BY <1>1, IsAnswer
<1>4. r.env \in A BY <1>2, RecordTypes
<1>5. CASE stack' = st /\ UNCHANGED <<heap, roots, ans>>
  <2>1. Stacked(stack', roots', envRoots', A, S) /\ stack' # <<>> BY <1>1, <1>2, <1>5
  <2>2. Rests(stack', roots', ans') BY <1>3, <1>5, SomeAnswer
  <2>3. HeapGoes(A) /\ AnswerOf(ans', A) BY <1>3, <1>5, HeapQuiet
  <2> QED BY <1>1, <2>1, <2>2, <2>3, Lands
<1>6. CASE Bind(r.env, ans.v) /\ stack' = st /\ ans' = Ok(Base) /\ UNCHANGED roots
  <2>1. Stacked(stack', roots', envRoots', A, S) /\ stack' # <<>> BY <1>1, <1>2, <1>6
  <2>2. AnswerOf(ans', A) /\ ans' # Nothing BY <1>6, NowFacts, AnswersGiven
  <2>3. Rests(stack', roots', ans') BY <2>2, SomeAnswer
  <2>4. HeapGoes(A)
    <3> HIDE DEF r
    <3> QED BY <1>4, <1>6, NowFacts, BindKeeps
  <2> QED BY <1>1, <2>1, <2>2, <2>3, <2>4, Lands
<1> HIDE DEF st, r, vals
<1>7. CASE /\ stack' = Append(st, Frame("resume-body", "", r.form, r.env, r.left))
           /\ roots' = Append(roots, ans.v) /\ ans' = Nothing /\ UNCHANGED heap
  BY <1>1, <1>2, <1>7, ResumeBodyKeeps
<1>8. CASE /\ r.what \notin {"body", "def"}
           /\ stack' = Append(st, [Frame("resume-args", r.what, r.form, r.env, r.left)
                                     EXCEPT !.callee = r.callee, !.vals = vals])
           /\ roots' = Append(roots, ans.v) \o vals
           /\ ans' = Nothing /\ UNCHANGED heap
  <2>1. vals = Append(r.vals, ans.v) BY DEF vals
  <2> QED BY <1>1, <1>2, <1>8, <2>1, ResumeArgsKeeps
<1> QED BY <1>1, <1>5, <1>6, <1>7, <1>8

-----------------------------------------------------------------------------
(* Every step but a collection keeps to what there is, and to what is made.*)
LEMMA StepKeeps ==
  ASSUME NEW A, NEW S, Now(A, S), Covers(A, S), [Next]_vars, ~Collect
  PROVE  Later(A, S)
<1>1. CASE ReadForm BY <1>1, ReadFormKeeps
<1>2. CASE FormAnswers BY <1>2, FormAnswersKeeps
<1>3. CASE SourceEnds BY <1>3, SourceEndsKeeps
<1>4. CASE SourceFails BY <1>4, SourceFailsKeeps
<1>5. CASE EvalAnswers BY <1>5, EvalAnswersKeeps
<1>6. CASE Trampoline BY <1>6, TrampolineKeeps
<1>7. CASE Begin BY <1>7, BeginKeeps
<1>8. CASE LooksUp BY <1>8, LooksUpKeeps
<1>9. CASE Closes BY <1>9, ClosesKeeps
<1>10. CASE CombineInstruction \/ CombineCallable BY <1>10, CombiningKeeps
<1>11. CASE Sequence \/ Guard \/ Define BY <1>11, WaitingKeeps
<1>12. CASE Forget BY <1>12, ForgetKeeps
<1>13. CASE RaiseError BY <1>13, RaiseErrorKeeps
<1>14. CASE Include BY <1>14, IncludeKeeps
<1>15. CASE MakePair BY <1>15, MakePairKeeps
<1>16. CASE MakeIter BY <1>16, MakeIterKeeps
<1>17. CASE Throw BY <1>17, ThrowKeeps
<1>18. CASE ApplyClosure BY <1>18, ApplyClosureKeeps
<1>19. CASE ApplyList BY <1>19, ApplyListKeeps
<1>20. CASE Peek BY <1>20, PeekKeeps
<1>21. CASE CallCC BY <1>21, CallCCKeeps
<1>22. CASE ArgAtom BY <1>22, ArgAtomKeeps
<1>23. CASE ArgAnswers BY <1>23, ArgAnswersKeeps
<1>24. CASE DefAtom BY <1>24, DefAtomKeeps
<1>25. CASE BodyAnswers BY <1>25, BodyAnswersKeeps
<1>26. CASE BodyParks BY <1>26, BodyParksKeeps
<1>27. CASE DefBinds BY <1>27, DefBindsKeeps
<1>28. CASE Passes BY <1>28, PassesKeeps
<1>29. CASE CallSettles BY <1>29, CallSettlesKeeps
<1>30. CASE IterAnswers BY <1>30, IterAnswersKeeps
<1>31. CASE Unwind BY <1>31, UnwindKeeps
<1>32. CASE GuardCatches BY <1>32, GuardCatchesKeeps
<1>33. CASE EscapeLands BY <1>33, EscapeLandsKeeps
<1>34. CASE Replays BY <1>34, ReplaysKeeps
<1>35. CASE Resume BY <1>35, ResumeKeeps
<1>36. CASE UNCHANGED vars
  <2>1. UNCHANGED <<heap, roots, envRoots, stack, ans, snaps>> BY <1>36 DEF vars
  <2> QED BY <2>1 DEF Later, Then, Now
<1> QED
  BY <1>1, <1>2, <1>3, <1>4, <1>5, <1>6, <1>7, <1>8, <1>9, <1>10, <1>11, <1>12, <1>13, <1>14,
     <1>15, <1>16, <1>17, <1>18, <1>19, <1>20, <1>21, <1>22, <1>23, <1>24, <1>25, <1>26, <1>27,
     <1>28, <1>29, <1>30, <1>31, <1>32, <1>33, <1>34, <1>35, <1>36
  DEF Next

(* The program begins with a session at the top and nothing else.          *)
LEMMA Starts ==
  ASSUME NEW A \in SUBSET Obj, Base \in A, NEW S \in SUBSET Obj, Base \in S, Init
  PROVE  Now(A, S)
<1> DEFINE f == [fn |-> "top", does |-> "", form |-> Base, env |-> Base, left |-> MaxReads,
                 callee |-> Base, vals |-> <<>>, recs |-> <<>>, mark |-> 0, emark |-> 0]
<1>1. /\ heap = [o \in Obj |-> IF o = Base THEN Node("env", {}, Base) ELSE Free]
      /\ roots = <<>> /\ envRoots = <<>> /\ stack = <<f>> /\ ans = Nothing /\ snaps = <<>>
  BY DEF Init
<1>2. f \in FrameOf(A)
  <2>1. <<>> \in Seq(Obj) /\ <<>> \in Seq(RecordOf(A)) OBVIOUS
  <2>2. "top" \in FrameKind /\ "" \in Does BY DEF FrameKind, Does
  <2>3. MaxReads \in Nat BY RootsAssumption
  <2> QED BY <2>1, <2>2, <2>3 DEF FrameOf
<1>3. /\ f.fn = "top" /\ f.form = Base /\ f.env = Base /\ f.callee = Base /\ f.vals = <<>>
      /\ f.recs = <<>> /\ f.mark = 0 /\ f.emark = 0
  OBVIOUS
<1> HIDE DEF f
<1>4. Stacked(stack, roots, envRoots, A, S)
  <2>1. <<>> \in Seq(A) /\ Len(<<>>) = 0 OBVIOUS
  <2>2. Usable(f, A, S)
    <3>1. Plain(f) BY <1>3 DEF Plain, Lists, Idle
    <3> QED BY <1>2, <3>1, PlainIsUsable
  <2>3. Rooted(f, <<>>, 0) BY <1>3 DEF Rooted, Ceil, Lists
  <2>4. EnvRooted(f, <<>>) /\ EnvEnd(f) = 0 BY <1>3 DEF EnvRooted, EnvEnd, Slots
  <2>5. <<f>> \in Seq(FrameOf(A)) /\ Len(<<f>>) = 1 /\ <<f>>[1] = f /\ <<f>> # <<>>
    BY <1>2
  <2> DEFINE st == <<f>>
  <2>6. st = stack /\ st \in Seq(FrameOf(A)) /\ Len(st) = 1 /\ st[1] = f /\ st # <<>> BY <1>1, <2>5
  <2> HIDE DEF st
  <2>7. Limit(st, <<>>, 1) = 0 BY <2>1, <2>6 DEF Limit
  <2>8. 1 .. Len(st) = {1} /\ 2 .. Len(st) = {} BY <2>6
  <2>9. Stacked(st, <<>>, <<>>, A, S)
    BY <1>3, <2>1, <2>2, <2>3, <2>4, <2>6, <2>7, <2>8 DEF Stacked
  <2> QED BY <1>1, <2>6, <2>9
<1>5. DataOf(heap, ans, snaps, A, S)
  <2>1. Node("env", {}, Base) \in NodeOf(A) /\ Free \in NodeOf(A)
    <3>1. "env" \in Kind /\ "free" \in Kind /\ {} \in SUBSET A BY DEF Kind
    <3> QED BY <3>1, NodeIs DEF Free
  <2>2. HeapOf(heap, A) BY <1>1, <2>1 DEF HeapOf
  <2>3. AnswerOf(ans, A) BY <1>1, AnswersGiven
  <2>4. SnapsOf(snaps, A, S) BY <1>1 DEF SnapsOf
  <2> QED BY <2>2, <2>3, <2>4 DEF DataOf
<1>6. stack # <<>> /\ Rests(stack, roots, ans)
  <2> DEFINE st == <<f>>
  <2>1. st # <<>> /\ Last(st) = f
    <3>1. st \in Seq(FrameOf(A)) /\ st # <<>> /\ Len(st) = 1 /\ st[1] = f BY <1>2
    <3> HIDE DEF st
    <3>2. Last(st) = st[Len(st)] BY <3>1, FrontAndLast
    <3> QED BY <3>1, <3>2
  <2> HIDE DEF st
  <2>2. Rests(st, <<>>, ans) BY <1>3, <2>1 DEF Rests, Lists
  <2> QED BY <1>1, <2>1, <2>2 DEF st
<1> QED BY <1>4, <1>5, <1>6 DEF Now, Holds

-----------------------------------------------------------------------------
(* The frames of the whole stack find what is theirs on the root stacks.   *)
LEMMA FrameWithin ==
  ASSUME NEW A, NEW S, Now(A, S), NEW i \in 1 .. Len(stack)
  PROVE  /\ stack[i] \in FrameOf(A) /\ Usable(stack[i], A, S)
         /\ Rooted(stack[i], roots, Len(roots)) /\ EnvRooted(stack[i], envRoots)
         /\ Ceil(stack[i]) <= Len(roots) /\ EnvEnd(stack[i]) <= Len(envRoots)
         /\ Len(roots) \in Nat /\ Len(envRoots) \in Nat
         /\ stack[i].mark \in Nat /\ stack[i].emark \in Nat
<1> DEFINE st == stack
           N == Len(st)
<1>1. Stacked(st, roots, envRoots, A, S) /\ st # <<>> BY NowFacts
<1>2. /\ N \in Nat \ {0} /\ Last(st) = st[N] /\ Len(roots) \in Nat /\ Len(envRoots) \in Nat
      /\ Fits(st[N], roots, envRoots, A, S) /\ Floor(st[N]) \in Nat /\ Ceil(st[N]) \in Nat
      /\ Floor(st[N]) <= Ceil(st[N]) /\ Ceil(st[N]) <= Len(roots)
      /\ st[N].emark \in Nat /\ st[N].emark <= Len(envRoots)
  <2> HIDE DEF st
  <2> QED BY <1>1, TopFacts DEF N
<1> HIDE DEF N, st
<1>3. i \in 1 .. N BY DEF N, st
<1>4. \A j \in 1 .. N : /\ Usable(st[j], A, S) /\ Rooted(st[j], roots, Limit(st, roots, j))
                        /\ EnvRooted(st[j], envRoots)
  BY <1>1 DEF Stacked, N
<1>5. \A j, k \in 1 .. N : j < k => Ceil(st[j]) <= Floor(st[k]) /\ EnvEnd(st[j]) <= st[k].emark
  BY <1>1 DEF Stacked, N
<1>6. st[i] \in FrameOf(A) /\ st[i].mark \in Nat /\ st[i].emark \in Nat
  BY <1>3, <1>4, FrameTypes DEF Usable
<1>7. ASSUME NEW j \in 1 .. N PROVE Ceil(st[j]) \in Nat /\ Floor(st[j]) \in Nat /\ Floor(st[j]) <= Ceil(st[j])
                                    /\ Ceil(st[j]) <= Len(roots) /\ EnvEnd(st[j]) \in Nat
  <2>1. Ceil(st[j]) \in Nat /\ Floor(st[j]) \in Nat /\ Floor(st[j]) <= Ceil(st[j]) /\ EnvEnd(st[j]) \in Nat
    BY <1>4, FrameLimits
  <2>2. CASE j = N BY <1>2, <2>1, <2>2
  <2>3. CASE j # N
    <3>1. j < N /\ N \in 1 .. N BY <1>2, <2>3
    <3>2. Ceil(st[j]) <= Floor(st[N]) BY <1>5, <3>1
    <3> QED BY <1>2, <2>1, <3>2
  <2> QED BY <2>2, <2>3
<1>8. EnvEnd(st[i]) <= Len(envRoots)
  <2>1. CASE i = N BY <1>2, <2>1 DEF Fits
  <2>2. CASE i # N
    <3>1. i < N /\ N \in 1 .. N BY <1>2, <1>3, <2>2
    <3>2. EnvEnd(st[i]) <= st[N].emark BY <1>3, <1>5, <3>1
    <3> QED BY <1>2, <1>3, <1>7, <3>2
  <2> QED BY <2>1, <2>2
<1>9. Limit(st, roots, i) \in Nat /\ Limit(st, roots, i) <= Len(roots)
  <2>1. CASE i = N BY <1>2, <2>1 DEF Limit, N
  <2>2. CASE i # N
    <3>1. i + 1 \in 1 .. N BY <1>2, <1>3, <2>2
    <3>2. Limit(st, roots, i) = Floor(st[i + 1]) BY <2>2 DEF Limit, N
    <3> QED BY <1>2, <1>7, <3>1, <3>2
  <2> QED BY <2>1, <2>2
<1>10. Rooted(st[i], roots, Len(roots))
  <2>1. Agree(roots, roots, Limit(st, roots, i)) BY <1>9 DEF Agree
  <2> QED BY <1>2, <1>3, <1>4, <1>9, <2>1, RootedStays
<1> QED BY <1>2, <1>3, <1>4, <1>6, <1>7, <1>8, <1>10 DEF st

-----------------------------------------------------------------------------
(* A collection.                                                           *)
Aged(f) == IF f.fn = "replay" THEN [f EXCEPT !.left = @ + 1] ELSE f
AgedStack(st) == [i \in DOMAIN st |-> Aged(st[i])]
LEMMA AgedFacts ==
  ASSUME NEW A, NEW f \in FrameOf(A)
  PROVE  /\ Aged(f).fn = f.fn /\ Aged(f).does = f.does /\ Aged(f).form = f.form /\ Aged(f).env = f.env
         /\ Aged(f).callee = f.callee /\ Aged(f).vals = f.vals /\ Aged(f).recs = f.recs
         /\ Aged(f).mark = f.mark /\ Aged(f).emark = f.emark /\ Aged(f).left \in Nat
         /\ (f.fn = "replay" => Aged(f).left # 0) /\ (f.fn # "replay" => Aged(f).left = f.left)
BY DEF Aged, FrameOf

(* What there is to name shrinks to `B' and `T', and no frame notices.     *)
LEMMA AgedStands ==
  ASSUME NEW A, NEW S, NEW B, NEW T, NEW st, NEW rts \in Seq(B), NEW ers \in Seq(B), st # <<>>,
         Stacked(st, rts, ers, A, S), \A i \in 1 .. Len(st) : Usable(Aged(st[i]), B, T)
  PROVE  Stacked(AgedStack(st), rts, ers, B, T)
<1> DEFINE N == Len(st)
           t == AgedStack(st)
<1>1. st \in Seq(FrameOf(A)) /\ N \in Nat /\ DOMAIN st = 1 .. N
  BY LenProperties DEF Stacked
<1>2. \A i \in 1 .. N : st[i] \in FrameOf(A) BY <1>1
<1>3. t = [i \in 1 .. N |-> Aged(st[i])] BY <1>1 DEF AgedStack
<1> HIDE DEF t
<1>4. t \in Seq(FrameOf(B)) /\ Len(t) = N /\ \A i \in 1 .. N : t[i] = Aged(st[i])
  <2>1. \A i \in 1 .. N : Aged(st[i]) \in FrameOf(B) BY DEF Usable
  <2> QED BY <1>1, <1>3, <2>1
<1>5. \A i \in 1 .. N : /\ Usable(st[i], A, S) /\ Rooted(st[i], rts, Limit(st, rts, i))
                        /\ EnvRooted(st[i], ers)
  BY DEF Stacked
<1>6. \A i, j \in 1 .. N : i < j => Ceil(st[i]) <= Floor(st[j]) /\ EnvEnd(st[i]) <= st[j].emark
  BY DEF Stacked
<1>7. \A i \in 2 .. N : WaitsOn(st[i], st[i - 1], S) BY DEF Stacked
<1>8. st[1].fn = "top" /\ st[1].mark = 0 /\ st[1].emark = 0 /\ Len(ers) = EnvEnd(st[N])
  BY DEF Stacked
<1>9. N # 0 BY <1>1, EmptySeq
<1> HIDE DEF N
<1>10. ASSUME NEW i \in 1 .. N
       PROVE  /\ Floor(t[i]) = Floor(st[i]) /\ Ceil(t[i]) = Ceil(st[i]) /\ EnvEnd(t[i]) = EnvEnd(st[i])
              /\ t[i].emark = st[i].emark /\ t[i].mark = st[i].mark /\ t[i].fn = st[i].fn
              /\ t[i].form = st[i].form /\ t[i].env = st[i].env /\ t[i].callee = st[i].callee
              /\ t[i].vals = st[i].vals /\ t[i].does = st[i].does
              /\ (t[i].fn = "replay" => t[i].left # 0) /\ (t[i].fn # "replay" => t[i].left = st[i].left)
  <2> DEFINE f == st[i]
             g == t[i]
  <2>1. f \in FrameOf(A) /\ g = Aged(f) BY <1>2, <1>4
  <2> HIDE DEF f, g
  <2>2. /\ g.fn = f.fn /\ g.does = f.does /\ g.form = f.form /\ g.env = f.env
        /\ g.callee = f.callee /\ g.vals = f.vals
        /\ g.mark = f.mark /\ g.emark = f.emark
        /\ (f.fn = "replay" => g.left # 0) /\ (f.fn # "replay" => g.left = f.left)
    BY <2>1, AgedFacts
  <2>3. Floor(g) = Floor(f) /\ Ceil(g) = Ceil(f) /\ EnvEnd(g) = EnvEnd(f)
    BY <2>2 DEF Floor, Ceil, EnvEnd, Slots
  <2> QED BY <2>2, <2>3 DEF f, g
<1>11. ASSUME NEW i \in 1 .. N
       PROVE  Usable(t[i], B, T) /\ Rooted(t[i], rts, Limit(t, rts, i)) /\ EnvRooted(t[i], ers)
  <2>1. Usable(t[i], B, T) BY <1>4 DEF N
  <2>2. Limit(t, rts, i) = Limit(st, rts, i)
    <3>1. CASE i = N BY <1>4, <3>1 DEF Limit, N
    <3>2. CASE i # N
      <4>1. i + 1 \in 1 .. N BY <1>1, <3>2
      <4>2. Floor(t[i + 1]) = Floor(st[i + 1]) BY <1>10, <4>1
      <4> QED BY <1>4, <3>2, <4>2 DEF Limit, N
    <3> QED BY <3>1, <3>2
  <2>3. Rooted(st[i], rts, Limit(st, rts, i)) /\ EnvRooted(st[i], ers) BY <1>5
  <2>4. Rooted(t[i], rts, Limit(st, rts, i)) BY <1>10, <2>3 DEF Rooted
  <2>5. EnvRooted(t[i], ers) BY <1>10, <2>3 DEF EnvRooted, Slots
  <2> QED BY <2>1, <2>2, <2>4, <2>5
<1>12. \A i, j \in 1 .. N : i < j => Ceil(t[i]) <= Floor(t[j]) /\ EnvEnd(t[i]) <= t[j].emark
  BY <1>6, <1>10
<1>13. ASSUME NEW i \in 2 .. N PROVE WaitsOn(t[i], t[i - 1], T)
  <2>1. i \in 1 .. N /\ i - 1 \in 1 .. N BY <1>1
  <2>2. WaitsOn(st[i], st[i - 1], S) BY <1>7
  <2>3. /\ t[i].fn = st[i].fn /\ t[i].emark = st[i].emark BY <1>10, <2>1
  <2>4. /\ EnvEnd(t[i - 1]) = EnvEnd(st[i - 1]) /\ t[i - 1].fn = st[i - 1].fn
        /\ (t[i - 1].fn = "replay" => t[i - 1].left # 0)
        /\ (t[i - 1].fn # "replay" => t[i - 1].left = st[i - 1].left)
    BY <1>10, <2>1
  <2> QED BY <2>2, <2>3, <2>4 DEF WaitsOn
<1>14. t # <<>> /\ t[1].fn = "top" /\ t[1].mark = 0 /\ t[1].emark = 0 /\ Len(ers) = EnvEnd(t[N])
  <2>1. 1 \in 1 .. N /\ N \in 1 .. N BY <1>1, <1>9
  <2>2. t # <<>> BY <1>4, <1>9, EmptySeq
  <2> QED BY <1>8, <1>10, <2>1, <2>2
<1>15. 1 .. Len(t) = 1 .. N /\ 2 .. Len(t) = 2 .. N BY <1>4
<1>16. Stacked(t, rts, ers, B, T)
  BY <1>4, <1>11, <1>12, <1>13, <1>14, <1>15 DEF Stacked
<1> QED BY <1>16 DEF t

(* What a collection leaves, if it is enough for every frame.              *)
LEMMA CollectLeaves ==
  ASSUME NEW A, NEW S, Now(A, S), Collect, NEW B \in SUBSET Obj, Base \in B, NEW T \in SUBSET Obj,
         Base \in T, \A i \in 1 .. Len(stack) : Usable(Aged(stack[i]), B, T),
         roots \in Seq(B), envRoots \in Seq(B), HeapOf(heap', B), SnapsOf(snaps', B, T)
  PROVE  Then(B, T)
<1>1. /\ Top.fn = "eval" /\ ans' = Ok(Base) /\ UNCHANGED <<roots, envRoots>>
      /\ stack' = AgedStack(stack)
  BY DEF Collect, Evaluates, AgedStack, Aged
<1>2. Stacked(stack, roots, envRoots, A, S) /\ stack # <<>> BY NowFacts
<1>3. Stacked(AgedStack(stack), roots, envRoots, B, T) BY <1>2, AgedStands
<1>4. AgedStack(stack) # <<>>
  <2>1. Len(stack) # 0 /\ DOMAIN stack = 1 .. Len(stack) /\ Len(stack) \in Nat
    BY <1>2, EmptySeq, LenProperties DEF Stacked
  <2>2. DOMAIN AgedStack(stack) = DOMAIN stack BY DEF AgedStack
  <2>3. 1 \in DOMAIN AgedStack(stack) BY <2>1, <2>2
  <2> QED BY <2>3
<1>5. AnswerOf(ans', B) /\ ans' # Nothing BY <1>1, AnswersGiven
<1>6. DataOf(heap', ans', snaps', B, T) BY <1>5 DEF DataOf
<1>7. Rests(stack', roots', ans') BY <1>5, SomeAnswer
<1> QED BY <1>1, <1>3, <1>4, <1>6, <1>7 DEF Then, Holds

(* What the roots do not reach is free, and of a snapshot that stays all   *)
(* that it names is kept.                                                  *)
LEMMA CollectFacts ==
  ASSUME Collect
  PROVE  LET kept == Reached(heap, RootSet)
         IN  /\ heap' = [o \in Obj |-> IF o \in kept THEN heap[o] ELSE Free]
             /\ DOMAIN snaps' = DOMAIN snaps \cap kept
             /\ \A k \in DOMAIN snaps' : snaps'[k] = snaps[k]
<1> DEFINE kept == Reached(heap, RootSet)
<1>1. /\ heap' = [o \in Obj |-> IF o \in kept THEN heap[o] ELSE Free]
      /\ snaps' = Restrict(snaps, DOMAIN snaps \cap kept)
  BY DEF Collect
<1> HIDE DEF kept
<1>2. DOMAIN snaps' = DOMAIN snaps \cap kept /\ \A k \in DOMAIN snaps' : snaps'[k] = snaps[k]
  BY <1>1 DEF Restrict
<1> QED BY <1>1, <1>2 DEF kept

LEMMA CollectKeeps ==
  ASSUME IInv, Collect
  PROVE  IInv'
<1> DEFINE kept == Reached(heap, RootSet)
<1>1. Now(Obj, Obj) /\ Base \in Obj BY DEF IInv, Now, Obj
<1>2. /\ heap' = [o \in Obj |-> IF o \in kept THEN heap[o] ELSE Free]
      /\ DOMAIN snaps' = DOMAIN snaps \cap kept
      /\ \A k \in DOMAIN snaps' : snaps'[k] = snaps[k]
  BY CollectFacts
<1> HIDE DEF kept
<1>3. HeapOf(heap', Obj)
  <2>1. Free \in NodeOf(Obj)
    <3>1. "free" \in Kind /\ {} \in SUBSET Obj BY DEF Kind
    <3> QED BY <1>1, <3>1, NodeIs DEF Free
  <2>2. \A o \in Obj : heap[o] \in NodeOf(Obj) BY <1>1, NowFacts DEF HeapOf
  <2> QED BY <1>2, <2>1, <2>2 DEF HeapOf
<1>4. SnapsOf(snaps', Obj, Obj)
  <2>1. SnapsOf(snaps, Obj, Obj) BY <1>1, NowFacts
  <2> QED BY <1>2, <2>1 DEF SnapsOf
<1>5. ASSUME NEW i \in 1 .. Len(stack) PROVE Usable(Aged(stack[i]), Obj, Obj)
  <2> DEFINE f == stack[i]
             g == Aged(f)
  <2>1. Usable(f, Obj, Obj) /\ f \in FrameOf(Obj) BY <1>1, FrameWithin
  <2> HIDE DEF f
  <2>2. /\ g.fn = f.fn /\ g.does = f.does /\ g.form = f.form /\ g.env = f.env
        /\ g.callee = f.callee /\ g.vals = f.vals /\ g.recs = f.recs
        /\ g.left \in Nat
        /\ (f.fn = "replay" => g.left # 0) /\ (f.fn # "replay" => g.left = f.left)
    BY <2>1, AgedFacts
  <2>3. g \in FrameOf(Obj)
    <3>1. CASE f.fn = "replay"
      <4>1. g = [f EXCEPT !.left = @ + 1] BY <3>1 DEF Aged
      <4> QED BY <2>1, <4>1 DEF FrameOf
    <3>2. CASE f.fn # "replay" BY <2>1, <3>2 DEF Aged
    <3> QED BY <3>1, <3>2
  <2> HIDE DEF g
  <2>4. Usable(g, Obj, Obj)
    <3>1. g.fn \in Lists => g.fn # "replay" BY DEF Lists
    <3> QED BY <2>1, <2>2, <2>3, <3>1 DEF Usable
  <2> QED BY <2>4 DEF g, f
<1>6. roots \in Seq(Obj) /\ envRoots \in Seq(Obj) BY <1>1, NowTop
<1>7. Then(Obj, Obj) BY <1>1, <1>3, <1>4, <1>5, <1>6, CollectLeaves
<1> QED BY <1>7 DEF IInv, Then

-----------------------------------------------------------------------------
(* What the collector marks from, and what each waiting frame finds there. *)
LEMMA RangeOf ==
  ASSUME NEW A, NEW s \in Seq(A)
  PROVE  Range(s) \subseteq A /\ \A p \in 1 .. Len(s) : s[p] \in Range(s)
<1>1. DOMAIN s = 1 .. Len(s) /\ \A p \in 1 .. Len(s) : s[p] \in A BY LenProperties
<1> QED BY <1>1 DEF Range

LEMMA NamedIn ==
  ASSUME NEW A, NEW s \in Seq(RecordOf(A)), NEW r \in Range(s)
  PROVE  r \in RecordOf(A) /\ Named(r) \subseteq A
<1>1. r \in RecordOf(A) BY RangeOf
<1>2. r.callee \in A /\ r.form \in A /\ r.env \in A /\ r.vals \in Seq(A) BY <1>1, RecordTypes
<1>3. Range(r.vals) \subseteq A BY <1>2, RangeOf
<1> QED BY <1>1, <1>2, <1>3 DEF Named

LEMMA RootSetFacts ==
  ASSUME NEW A, NEW S, Now(A, S)
  PROVE  /\ RootSet \in SUBSET Obj /\ Base \in RootSet /\ Kept(snaps) \subseteq RootSet
         /\ \A p \in 1 .. Len(roots) : roots[p] \in RootSet
         /\ \A p \in 1 .. Len(envRoots) : envRoots[p] \in RootSet
         /\ \A i \in 1 .. Len(stack) : Recording(stack[i]) =>
              stack[i].env \in RootSet /\ (stack[i].left # 0 => stack[i].form \in RootSet)
<1>1. /\ A \in SUBSET Obj /\ Base \in A /\ roots \in Seq(A) /\ envRoots \in Seq(A)
      /\ SnapsOf(snaps, A, S) /\ Stacked(stack, roots, envRoots, A, S)
  BY NowFacts, NowTop
<1>2. stack \in Seq(FrameOf(A)) /\ Len(stack) \in Nat /\ \A i \in 1 .. Len(stack) : Usable(stack[i], A, S)
  BY <1>1, LenProperties DEF Stacked
<1> DEFINE recs == Control(stack)
<1>3. /\ recs \in Seq(RecordOf(A))
      /\ \A i \in 1 .. Len(stack) : Recording(stack[i]) => RecordAt(stack, i) \in Range(recs)
  BY <1>1, <1>2, ControlFacts
<1>4. RootSet = {Base} \cup Range(roots) \cup Range(envRoots)
                  \cup (UNION {Named(r) : r \in Range(recs)})
                  \cup UNION {UNION {Named(r) : r \in Range(snaps[k].recs)} : k \in DOMAIN snaps}
  BY DEF RootSet
<1> HIDE DEF recs
<1>5. Range(roots) \subseteq A /\ Range(envRoots) \subseteq A BY <1>1, RangeOf
<1>6. \A r \in Range(recs) : Named(r) \subseteq A BY <1>3, NamedIn
<1>7. ASSUME NEW k \in DOMAIN snaps, NEW r \in Range(snaps[k].recs) PROVE Named(r) \subseteq A
  <2>1. snaps[k].recs \in Seq(RecordOf(A)) BY <1>1 DEF SnapsOf
  <2> QED BY <2>1, NamedIn
<1>8. RootSet \in SUBSET Obj
  <2>1. UNION {Named(r) : r \in Range(recs)} \subseteq A BY <1>6
  <2>2. UNION {UNION {Named(r) : r \in Range(snaps[k].recs)} : k \in DOMAIN snaps} \subseteq A BY <1>7
  <2> QED BY <1>1, <1>4, <1>5, <2>1, <2>2
<1>9. Kept(snaps) \subseteq RootSet /\ Base \in RootSet BY <1>4 DEF Kept
<1>10. /\ \A p \in 1 .. Len(roots) : roots[p] \in RootSet
       /\ \A p \in 1 .. Len(envRoots) : envRoots[p] \in RootSet
  <2>1. /\ \A p \in 1 .. Len(roots) : roots[p] \in Range(roots)
        /\ \A p \in 1 .. Len(envRoots) : envRoots[p] \in Range(envRoots)
    BY <1>1, RangeOf
  <2> QED BY <1>4, <2>1
<1>11. ASSUME NEW i \in 1 .. Len(stack), Recording(stack[i])
       PROVE  stack[i].env \in RootSet /\ (stack[i].left # 0 => stack[i].form \in RootSet)
  <2> DEFINE d == Active(Cut(stack, i))
  <2>1. d \in Nat BY <1>2, DepthIsNat
  <2>2. RecordAt(stack, i) = Record(stack[i], d) BY DEF RecordAt
  <2> HIDE DEF d
  <2>3. /\ stack[i].env \in Named(Record(stack[i], d))
        /\ stack[i].left # 0 => stack[i].form \in Named(Record(stack[i], d))
    BY <1>1, <1>2, <1>11, <2>1, RecordFacts
  <2>4. Record(stack[i], d) \in Range(recs) BY <1>3, <1>11, <2>2
  <2>5. Named(Record(stack[i], d)) \subseteq RootSet BY <1>4, <2>4
  <2> QED BY <2>3, <2>5
<1> QED BY <1>8, <1>9, <1>10, <1>11

(* A frame waits for the one above it.                                     *)
LEMMA FrameWaits ==
  ASSUME NEW A, NEW S, Now(A, S), NEW i \in 1 .. Len(stack)
  PROVE  /\ stack[i].fn = "body" /\ Top.fn # "body" => stack[i].left > 0
         /\ stack[i].fn \in Resumes =>
              /\ i - 1 \in 1 .. Len(stack) /\ stack[i - 1].fn = "replay"
              /\ stack[i - 1].left = 0 => {stack[i].callee, stack[i].form, stack[i].env} \subseteq S
<1> DEFINE N == Len(stack)
<1>1. /\ Stacked(stack, roots, envRoots, A, S) /\ stack # <<>> BY NowFacts
<1>2. N \in Nat /\ Top = stack[N] BY <1>1, TopFacts DEF Top
<1>3. \A j \in 2 .. N : WaitsOn(stack[j], stack[j - 1], S) BY <1>1 DEF Stacked
<1>4. stack[1].fn = "top" BY <1>1 DEF Stacked
<1>5. i \in 1 .. N OBVIOUS
<1> HIDE DEF N
<1>6. stack[i].fn = "body" /\ Top.fn # "body" => stack[i].left > 0
  <2> SUFFICES ASSUME stack[i].fn = "body", Top.fn # "body" PROVE stack[i].left > 0
    OBVIOUS
  <2>1. i # N BY <1>2
  <2>2. i + 1 \in 2 .. N /\ (i + 1) - 1 = i BY <1>2, <1>5, <2>1
  <2>3. WaitsOn(stack[i + 1], stack[i], S) BY <1>3, <2>2
  <2> QED BY <2>3 DEF WaitsOn
<1>7. ASSUME stack[i].fn \in Resumes
      PROVE  /\ i - 1 \in 1 .. N /\ stack[i - 1].fn = "replay"
             /\ stack[i - 1].left = 0 => {stack[i].callee, stack[i].form, stack[i].env} \subseteq S
  <2>1. i # 1 BY <1>4, <1>7 DEF Resumes
  <2>2. i \in 2 .. N /\ i - 1 \in 1 .. N BY <1>2, <1>5, <2>1
  <2>3. WaitsOn(stack[i], stack[i - 1], S) BY <1>3, <2>2
  <2> QED BY <1>7, <2>2, <2>3 DEF WaitsOn
<1> QED BY <1>6, <1>7 DEF N

(* All that a frame refers to is marked, while no replay has seen a        *)
(* collection.                                                             *)
Marked(f, C) ==
  /\ f.form \in C /\ f.env \in C
  /\ f.fn \in Lists => f.callee \in C /\ \A j \in DOMAIN f.vals : f.vals[j] \in C
  /\ f.fn = "replay" => f.left = 0
LEMMA FrameMarked ==
  ASSUME NEW A, Now(A, Kept(snaps)), Top.fn = "eval", NEW i \in 1 .. Len(stack),
         \A j \in 1 .. Len(stack) : stack[j].fn = "replay" => stack[j].left = 0
  PROVE  Marked(stack[i], RootSet)
<1> DEFINE f == stack[i]
           S == Kept(snaps)
<1>1. /\ f \in FrameOf(A) /\ Usable(f, A, S) /\ Rooted(f, roots, Len(roots)) /\ EnvRooted(f, envRoots)
      /\ Ceil(f) <= Len(roots) /\ EnvEnd(f) <= Len(envRoots)
      /\ Len(roots) \in Nat /\ Len(envRoots) \in Nat /\ f.mark \in Nat /\ f.emark \in Nat
  BY FrameWithin
<1>2. /\ Base \in RootSet /\ S \subseteq RootSet
      /\ \A p \in 1 .. Len(roots) : roots[p] \in RootSet
      /\ \A p \in 1 .. Len(envRoots) : envRoots[p] \in RootSet
      /\ Recording(f) => f.env \in RootSet /\ (f.left # 0 => f.form \in RootSet)
  BY RootSetFacts
<1>3. f.fn \in FrameKind /\ f.left \in Nat BY <1>1, FrameTypes
<1>4. f.fn = "replay" => f.left = 0 OBVIOUS
<1>a. f.fn = "body" => f.left > 0
  <2>1. stack[i].fn = "body" /\ Top.fn # "body" => stack[i].left > 0 BY FrameWaits
  <2> QED BY <2>1
<1>b. f.fn \in Resumes => {f.callee, f.form, f.env} \subseteq S
  <2> SUFFICES ASSUME f.fn \in Resumes PROVE {f.callee, f.form, f.env} \subseteq S
    OBVIOUS
  <2>1. /\ i - 1 \in 1 .. Len(stack) /\ stack[i - 1].fn = "replay"
        /\ stack[i - 1].left = 0 => {stack[i].callee, stack[i].form, stack[i].env} \subseteq S
    BY FrameWaits
  <2>2. stack[i - 1].left = 0 BY <2>1
  <2> QED BY <2>1, <2>2
<1> SUFFICES Marked(f, RootSet)
  OBVIOUS
<1> HIDE DEF f, S
<1>5. CASE f.fn \in Idle
  <2>1. f.form = Base /\ f.env = Base /\ f.fn \notin Lists BY <1>1, <1>5 DEF Usable, Idle, Lists
  <2> QED BY <1>2, <1>4, <2>1 DEF Marked
<1>6. CASE f.fn = "eval"
  <2>1. f.mark + 1 \in 1 .. Len(roots) /\ f.emark + 1 \in 1 .. Len(envRoots)
    BY <1>1, <1>6 DEF Ceil, EnvEnd, Slots
  <2>2. roots[f.mark + 1] = f.form /\ envRoots[f.emark + 1] = f.env
    BY <1>1, <1>6 DEF Rooted, EnvRooted, Slots
  <2> QED BY <1>2, <1>6, <2>1, <2>2 DEF Marked, Lists
<1>7. CASE f.fn = "body"
  <2>1. f.left # 0 BY <1>3, <1>7, <1>a
  <2> QED BY <1>2, <1>7, <2>1 DEF Marked, Lists, Recording
<1>8. CASE f.fn \in {"guard", "def"}
  <2>1. \E p \in 1 .. Len(roots) : roots[p] = f.form BY <1>1, <1>8 DEF Rooted
  <2>2. f.form \in RootSet BY <1>2, <2>1
  <2> QED BY <1>2, <1>8, <2>2 DEF Marked, Lists, Recording
<1>9. f.fn \in Lists => \A j \in DOMAIN f.vals : f.vals[j] \in RootSet
  <2> SUFFICES ASSUME f.fn \in Lists, NEW j \in DOMAIN f.vals PROVE f.vals[j] \in RootSet
    OBVIOUS
  <2>1. PICK p \in 1 .. Len(roots) : roots[p] = f.vals[j] BY <1>1 DEF Rooted
  <2> QED BY <1>2, <2>1
<1>10. CASE f.fn = "args"
  <2>1. f.mark \in 1 .. Len(roots) /\ roots[f.mark] = f.callee BY <1>1, <1>10 DEF Rooted, Ceil
  <2>2. \E p \in 1 .. Len(roots) : roots[p] = f.form BY <1>1, <1>10 DEF Rooted
  <2>3. PICK p \in 1 .. f.emark : envRoots[p] = f.env BY <1>1, <1>10 DEF EnvRooted
  <2>4. f.emark <= Len(envRoots) BY <1>1, <1>10 DEF EnvEnd, Slots
  <2>5. p \in 1 .. Len(envRoots) BY <1>1, <2>3, <2>4
  <2>6. f.env \in RootSet BY <1>2, <2>3, <2>5
  <2>7. f.form \in RootSet /\ f.callee \in RootSet BY <1>2, <2>1, <2>2
  <2> QED BY <1>9, <1>10, <2>6, <2>7 DEF Marked
<1>11. CASE f.fn = "resume-body"
  <2>1. {f.callee, f.form, f.env} \subseteq RootSet BY <1>2, <1>11, <1>b DEF Resumes
  <2> QED BY <1>11, <2>1 DEF Marked, Lists
<1>12. CASE f.fn = "resume-args"
  <2>1. {f.callee, f.form, f.env} \subseteq RootSet BY <1>2, <1>12, <1>b DEF Resumes
  <2> QED BY <1>9, <1>12, <2>1 DEF Marked
<1> QED BY <1>3, <1>5, <1>6, <1>7, <1>8, <1>10, <1>11, <1>12 DEF FrameKind, Idle

-----------------------------------------------------------------------------
(* What there is shrinks to the marked.                                    *)
LEMMA SeqWithin ==
  ASSUME NEW A, NEW B, NEW s \in Seq(A), \A j \in DOMAIN s : s[j] \in B
  PROVE  s \in Seq(B)
<1>1. DOMAIN s = 1 .. Len(s) /\ Len(s) \in Nat /\ s \in [1 .. Len(s) -> A] BY LenProperties
<1>2. s \in [1 .. Len(s) -> B] BY <1>1
<1> QED BY <1>1, <1>2

LEMMA RecordsWithin ==
  ASSUME NEW A, NEW B, NEW s \in Seq(RecordOf(A)), \A r \in Range(s) : Named(r) \subseteq B
  PROVE  s \in Seq(RecordOf(B))
<1>1. DOMAIN s = 1 .. Len(s) /\ \A j \in 1 .. Len(s) : s[j] \in RecordOf(A) /\ s[j] \in Range(s)
  BY LenProperties, RangeOf
<1>2. \A j \in DOMAIN s : s[j] \in RecordOf(B)
  <2> SUFFICES ASSUME NEW j \in DOMAIN s PROVE s[j] \in RecordOf(B)
    OBVIOUS
  <2> DEFINE r == s[j]
  <2>1. r \in RecordOf(A) /\ Named(r) \subseteq B BY <1>1
  <2> HIDE DEF r
  <2>2. r \in RecordOf(B) BY <2>1, NamedWithin
  <2> QED BY <2>2 DEF r
<1> QED BY <1>2, SeqWithin

LEMMA AgedUsable ==
  ASSUME NEW A, NEW S, NEW B, NEW T, NEW f, Usable(f, A, S), Marked(f, B),
         \A r \in Range(f.recs) : Named(r) \subseteq B
  PROVE  Usable(Aged(f), B, T)
<1> DEFINE g == Aged(f)
<1>1. f \in FrameOf(A) BY DEF Usable
<1>2. /\ g.fn = f.fn /\ g.does = f.does /\ g.form = f.form /\ g.env = f.env
      /\ g.callee = f.callee /\ g.vals = f.vals /\ g.recs = f.recs
      /\ g.mark = f.mark /\ g.emark = f.emark /\ g.left \in Nat
      /\ (f.fn = "replay" => g.left # 0) /\ (f.fn # "replay" => g.left = f.left)
  BY <1>1, AgedFacts
<1>3. /\ f.fn \in FrameKind /\ f.does \in Does /\ f.callee \in Obj /\ f.vals \in Seq(Obj)
      /\ f.recs \in Seq(RecordOf(A)) /\ f.mark \in Nat /\ f.emark \in Nat /\ f.left \in Nat
  BY <1>1, FrameTypes
<1>4. f.recs \in Seq(RecordOf(B)) BY <1>3, RecordsWithin
<1>5. f.form \in B /\ f.env \in B BY DEF Marked
<1>6. f \in FrameOf(B) BY <1>1, <1>3, <1>4, <1>5 DEF FrameOf
<1>7. g \in FrameOf(B)
  <2>1. CASE f.fn = "replay"
    <3>1. g = [f EXCEPT !.left = @ + 1] BY <2>1 DEF Aged
    <3> QED BY <1>6, <3>1 DEF FrameOf
  <2>2. CASE f.fn # "replay" BY <1>6, <2>2 DEF Aged
  <2> QED BY <2>1, <2>2
<1> HIDE DEF g
<1>8. f.fn \in Lists => f.callee \in B /\ f.vals \in Seq(B)
  <2> SUFFICES ASSUME f.fn \in Lists PROVE f.callee \in B /\ f.vals \in Seq(B)
    OBVIOUS
  <2>1. f.callee \in B /\ \A j \in DOMAIN f.vals : f.vals[j] \in B BY DEF Marked
  <2> QED BY <1>3, <2>1, SeqWithin
<1>9. Usable(g, B, T)
  <2>1. g.fn \in Lists => g.fn # "replay" BY DEF Lists
  <2> QED BY <1>2, <1>7, <1>8, <2>1 DEF Usable
<1> QED BY <1>9 DEF g

(* While no replay has seen a collection, what a collection leaves is      *)
(* enough for every frame that waits.                                      *)
LEMMA CollectKeepsLive ==
  ASSUME JInv, Collect, MaxReplayCollects \in {0, 1}
  PROVE  JInv'
<1> DEFINE kept == Reached(heap, RootSet)
           A == Alive(heap)
           S == Kept(snaps)
           B == Alive(heap')
           T == Kept(snaps')
<1>1. Now(A, S) BY DEF JInv, Now
<1>2. /\ heap' = [o \in Obj |-> IF o \in kept THEN heap[o] ELSE Free]
      /\ DOMAIN snaps' = DOMAIN snaps \cap kept
      /\ \A k \in DOMAIN snaps' : snaps'[k] = snaps[k]
  BY CollectFacts
<1>3. /\ A \in SUBSET Obj /\ Base \in A /\ S \in SUBSET Obj /\ HeapOf(heap, A) /\ SnapsOf(snaps, A, S)
      /\ stack # <<>> /\ Stacked(stack, roots, envRoots, A, S)
  BY <1>1, NowFacts
<1>4. RootSet \in SUBSET Obj /\ Base \in RootSet /\ S \subseteq RootSet
      /\ (\A p \in 1 .. Len(roots) : roots[p] \in RootSet)
      /\ (\A p \in 1 .. Len(envRoots) : envRoots[p] \in RootSet)
  BY <1>1, RootSetFacts
<1>5. /\ kept \in SUBSET Obj /\ RootSet \subseteq kept /\ Base \in kept
      /\ \A o \in kept : heap[o].refs \subseteq kept /\ heap[o].up \in kept
  <2>1. HeapOf(heap, Obj)
    <3>1. NodeOf(A) \subseteq NodeOf(Obj) BY <1>3 DEF NodeOf
    <3> QED BY <1>3, <3>1 DEF HeapOf
  <2> QED BY <1>4, <2>1, ReachedFacts
<1>6. Top.fn = "eval" /\ \A f \in Range(stack) : f.fn = "replay" => f.left < MaxReplayCollects
  BY DEF Collect, Evaluates
<1>7. A \cap kept \subseteq B BY <1>2, <1>3 DEF Alive
<1>8. \A j \in 1 .. Len(stack) : stack[j].fn = "replay" => stack[j].left = 0
  <2> SUFFICES ASSUME NEW j \in 1 .. Len(stack), stack[j].fn = "replay" PROVE stack[j].left = 0
    OBVIOUS
  <2>1. stack \in Seq(FrameOf(A)) BY <1>3 DEF Stacked
  <2>2. stack[j] \in Range(stack) BY <2>1, RangeOf
  <2>3. stack[j].left \in Nat
    <3>1. stack[j] \in FrameOf(A) BY <1>1, FrameWithin
    <3> QED BY <3>1, FrameTypes
  <2>4. stack[j].left < MaxReplayCollects BY <1>6, <2>2
  <2> QED BY <2>3, <2>4
<1>9. B \in SUBSET Obj /\ Base \in B BY <1>3, <1>5, <1>7 DEF Alive
<1>10. T \in SUBSET Obj /\ Base \in T /\ T \subseteq S
  <2>1. T \subseteq S BY <1>2 DEF Kept
  <2> QED BY <1>3, <2>1 DEF Kept
<1>11. roots \in Seq(B) /\ envRoots \in Seq(B)
  <2>1. roots \in Seq(A) /\ envRoots \in Seq(A) BY <1>3 DEF Stacked
  <2>2. /\ \A p \in 1 .. Len(roots) : roots[p] \in B
        /\ \A p \in 1 .. Len(envRoots) : envRoots[p] \in B
    <3>1. /\ \A p \in 1 .. Len(roots) : roots[p] \in A
          /\ \A p \in 1 .. Len(envRoots) : envRoots[p] \in A
      BY <2>1
    <3> QED BY <1>4, <1>5, <1>7, <3>1
  <2> QED BY <2>1, <2>2, SeqWithin, LenProperties
<1>12. ASSUME NEW k \in DOMAIN snaps, NEW r \in Range(snaps[k].recs) PROVE Named(r) \subseteq A \cap S
  <2>1. snaps[k].recs \in Seq(RecordOf(A)) /\ snaps[k].recs \in Seq(RecordOf(S)) BY <1>3 DEF SnapsOf
  <2> QED BY <2>1, NamedIn
<1> HIDE DEF kept, A, S, B, T
<1>13. HeapOf(heap', B)
  <2>1. Free \in NodeOf(B)
    <3>1. "free" \in Kind /\ {} \in SUBSET B BY DEF Kind
    <3> QED BY <1>9, <3>1, NodeIs DEF Free
  <2>2. \A o \in Obj : heap[o] \in NodeOf(A) BY <1>3 DEF HeapOf
  <2>3. \A o \in Obj \cap kept : heap[o] \in NodeOf(B) BY <1>5, <1>7, <2>2 DEF NodeOf
  <2> QED BY <1>2, <2>1, <2>3 DEF HeapOf
<1>14. SnapsOf(snaps', B, T)
  <2>1. DOMAIN snaps' \subseteq Ids BY <1>2, <1>3 DEF SnapsOf
  <2>2. ASSUME NEW k \in DOMAIN snaps'
        PROVE  snaps'[k].recs \in Seq(RecordOf(B)) /\ snaps'[k].recs \in Seq(RecordOf(T))
    <3> DEFINE recs == snaps'[k].recs
    <3>1. recs = snaps[k].recs /\ k \in DOMAIN snaps BY <1>2
    <3>2. recs \in Seq(RecordOf(A)) BY <1>3, <3>1 DEF SnapsOf
    <3>3. \A r \in Range(recs) : Named(r) \subseteq B
      <4>1. \A r \in Range(recs) : Named(r) \subseteq A \cap S BY <1>12, <3>1
      <4> QED BY <1>4, <1>5, <1>7, <4>1
    <3>4. \A r \in Range(recs) : Named(r) \subseteq T BY DEF T, Kept
    <3> HIDE DEF recs
    <3>5. recs \in Seq(RecordOf(B)) /\ recs \in Seq(RecordOf(T)) BY <3>2, <3>3, <3>4, RecordsWithin
    <3> QED BY <3>5 DEF recs
  <2> QED BY <2>1, <2>2 DEF SnapsOf
<1>15. ASSUME NEW i \in 1 .. Len(stack) PROVE Usable(Aged(stack[i]), B, T)
  <2> DEFINE f == stack[i]
  <2>1. Usable(f, A, S) BY <1>1, FrameWithin
  <2>2. Marked(f, RootSet) BY <1>1, <1>6, <1>8, FrameMarked DEF S
  <2>3. f.fn = "replay" => f.left = 0 BY <1>8
  <2> HIDE DEF f
  <2>4. /\ f.form \in A /\ f.env \in A /\ f.recs \in Seq(RecordOf(A))
        /\ f.fn \in Lists => f.callee \in A /\ \A j \in DOMAIN f.vals : f.vals[j] \in A
    <3>1. f \in FrameOf(A) /\ (f.fn \in Lists => f.callee \in A /\ f.vals \in Seq(A))
      BY <2>1 DEF Usable
    <3>2. f.form \in A /\ f.env \in A /\ f.recs \in Seq(RecordOf(A)) BY <3>1, FrameTypes
    <3> QED BY <3>1, <3>2
  <2>5. Marked(f, B)
    <3>1. A \cap RootSet \subseteq B BY <1>5, <1>7
    <3> QED BY <2>2, <2>4, <3>1 DEF Marked
  <2>6. \A r \in Range(f.recs) : Named(r) \subseteq B
    <3>1. CASE f.fn = "replay"
      <4>1. f.recs \in Seq(RecordOf(S)) BY <2>1, <2>3, <3>1 DEF Usable
      <4>2. \A r \in Range(f.recs) : Named(r) \subseteq A /\ Named(r) \subseteq S
        BY <2>4, <4>1, NamedIn
      <4> QED BY <1>4, <1>5, <1>7, <4>2
    <3>2. CASE f.fn # "replay"
      <4>1. f.recs = <<>> BY <2>1, <3>2 DEF Usable
      <4>2. Range(<<>>) = {} BY DEF Range
      <4> QED BY <4>1, <4>2
    <3> QED BY <3>1, <3>2
  <2>7. Usable(Aged(f), B, T) BY <2>1, <2>5, <2>6, AgedUsable
  <2> QED BY <2>7 DEF f
<1>16. Base \in T BY <1>10
<1>17. Then(B, T)
  BY <1>1, <1>9, <1>10, <1>11, <1>13, <1>14, <1>15, <1>16, CollectLeaves
<1> QED BY <1>17 DEF JInv, Then, B, T

-----------------------------------------------------------------------------
(* The two inductive invariants.                                           *)
LEMMA Begins ==
  Init => IInv /\ JInv
<1> SUFFICES ASSUME Init PROVE IInv /\ JInv
  OBVIOUS
<1>1. Base \in Obj BY DEF Obj
<1>2. heap[Base].kind # "free" /\ snaps = <<>>
  <2>1. heap[Base] = Node("env", {}, Base) BY <1>1 DEF Init
  <2>2. heap[Base].kind = "env" BY <2>1 DEF Node
  <2>3. snaps = <<>> BY DEF Init
  <2> QED BY <2>2, <2>3
<1>3. Base \in Alive(heap) /\ Alive(heap) \in SUBSET Obj BY <1>1, <1>2 DEF Alive
<1>4. Base \in Kept(snaps) /\ Kept(snaps) \in SUBSET Obj BY <1>1, <1>2 DEF Kept
<1>5. Now(Obj, Obj) BY <1>1, Starts
<1>6. Now(Alive(heap), Kept(snaps)) BY <1>3, <1>4, Starts
<1> QED BY <1>5, <1>6 DEF IInv, JInv, Now

LEMMA StepsKeepIInv ==
  IInv /\ [Next]_vars => IInv'
<1> SUFFICES ASSUME IInv, [Next]_vars PROVE IInv'
  OBVIOUS
<1>1. CASE Collect BY <1>1, CollectKeeps
<1>2. CASE ~Collect
  <2>1. Now(Obj, Obj) BY DEF IInv, Now
  <2>2. Covers(Obj, Obj) BY DEF Covers, Alive
  <2>3. Then(Obj, Obj) BY <1>2, <2>1, <2>2, StepKeeps DEF Later
  <2> QED BY <2>3 DEF IInv, Then
<1> QED BY <1>1, <1>2

(* First of every object, to know what the step has added; then of those   *)
(* that are there after it.                                                *)
LEMMA StepsKeepJInv ==
  ASSUME MaxReplayCollects \in {0, 1}
  PROVE  JInv /\ [Next]_vars => JInv'
<1> SUFFICES ASSUME JInv, [Next]_vars PROVE JInv'
  OBVIOUS
<1>1. CASE Collect BY <1>1, CollectKeepsLive
<1>2. CASE ~Collect
  <2> DEFINE A == Alive(heap)
             S == Kept(snaps)
             B == Alive(heap')
             T == Kept(snaps')
  <2>1. Now(A, S) BY DEF JInv, Now
  <2>2. /\ A \in SUBSET Obj /\ S \in SUBSET Obj BY <2>1, NowFacts
  <2>3. Covers(Obj, Obj) BY DEF Covers, Alive
  <2>4. Now(Obj, Obj)
    <3> HIDE DEF A, S
    <3> QED BY <2>1, <2>2, HoldsWiden DEF Now
  <2>5. Later(Obj, Obj) BY <1>2, <2>3, <2>4, StepKeeps
  <2>6. A \subseteq B /\ S \subseteq T BY <2>5 DEF Later
  <2>7. SnapsOf(snaps', Obj, Obj) BY <2>5 DEF Later, Then, Holds, DataOf
  <2>8. B \in SUBSET Obj BY DEF Alive
  <2>9. T \in SUBSET Obj
    <3>1. ASSUME NEW k \in DOMAIN snaps', NEW r \in Range(snaps'[k].recs) PROVE Named(r) \subseteq Obj
      <4>1. snaps'[k].recs \in Seq(RecordOf(Obj)) BY <2>7 DEF SnapsOf
      <4> QED BY <4>1, NamedIn
    <3>2. Base \in Obj BY DEF Obj
    <3> QED BY <3>1, <3>2 DEF Kept
  <2>10. Covers(B, T) BY DEF Covers
  <2> HIDE DEF A, S, B, T
  <2>11. Now(B, T) BY <2>1, <2>2, <2>6, <2>8, <2>9, HoldsWiden DEF Now
  <2>12. Then(B, T) BY <1>2, <2>10, <2>11, StepKeeps DEF Later
  <2> QED BY <2>12 DEF JInv, Then, B, T
<1> QED BY <1>1, <1>2

-----------------------------------------------------------------------------
(* What the invariants say.                                                *)
LEMMA SaysTypeOK ==
  IInv => TypeOK
<1> SUFFICES ASSUME IInv PROVE TypeOK
  OBVIOUS
<1>1. Now(Obj, Obj) BY DEF IInv, Now
<1>2. /\ HeapOf(heap, Obj) /\ AnswerOf(ans, Obj) /\ SnapsOf(snaps, Obj, Obj)
      /\ Stacked(stack, roots, envRoots, Obj, Obj)
  BY <1>1, NowFacts
<1>3. heap \in [Obj -> [kind : Kind, refs : SUBSET Obj, up : Obj]] BY <1>2 DEF HeapOf, NodeOf
<1>4. roots \in Seq(Obj) /\ envRoots \in Seq(Obj) /\ stack \in Seq(FrameOf(Obj)) BY <1>2 DEF Stacked
<1>5. \A f \in Range(stack) : f.fn \in FrameKind /\ {f.form, f.env, f.callee} \subseteq Obj
  <2> SUFFICES ASSUME NEW f \in Range(stack)
               PROVE  f.fn \in FrameKind /\ {f.form, f.env, f.callee} \subseteq Obj
    OBVIOUS
  <2>1. f \in FrameOf(Obj) BY <1>4, RangeOf
  <2> QED BY <2>1, FrameTypes
<1>6. ans.is \in {"nothing", "ok", "tail", "raise", "escape"} /\ ans.v \in Obj
  BY <1>2 DEF AnswerOf, Answers
<1> QED BY <1>2, <1>3, <1>4, <1>5, <1>6 DEF TypeOK, SnapsOf

LEMMA FrameSomewhere ==
  ASSUME NEW A, NEW S, Now(A, S), NEW f \in Range(stack)
  PROVE  \E i \in 1 .. Len(stack) : stack[i] = f
<1>1. stack \in Seq(FrameOf(A)) BY NowFacts DEF Stacked
<1> QED BY <1>1, LenProperties DEF Range

LEMMA SaysSlotsStand ==
  IInv => SlotsStand
<1> SUFFICES ASSUME IInv, NEW f \in Range(stack), f.fn = "eval"
             PROVE  /\ f.mark < Len(roots) /\ roots[f.mark + 1] = f.form
                    /\ f.emark < Len(envRoots) /\ envRoots[f.emark + 1] = f.env
  BY DEF SlotsStand
<1>1. Now(Obj, Obj) BY DEF IInv, Now
<1>2. PICK i \in 1 .. Len(stack) : stack[i] = f BY <1>1, FrameSomewhere
<1>3. /\ Rooted(stack[i], roots, Len(roots)) /\ EnvRooted(stack[i], envRoots)
      /\ Ceil(stack[i]) <= Len(roots) /\ EnvEnd(stack[i]) <= Len(envRoots)
      /\ Len(roots) \in Nat /\ Len(envRoots) \in Nat
      /\ stack[i].mark \in Nat /\ stack[i].emark \in Nat
  BY <1>1, FrameWithin
<1>4. f.mark + 1 <= Len(roots) /\ f.emark + 1 <= Len(envRoots)
  BY <1>2, <1>3 DEF Ceil, EnvEnd, Slots
<1>5. roots[f.mark + 1] = f.form /\ envRoots[f.emark + 1] = f.env
  BY <1>2, <1>3 DEF Rooted, EnvRooted, Slots
<1> QED BY <1>2, <1>3, <1>4, <1>5

LEMMA SaysSourceHoldsOneRoot ==
  IInv => SourceHoldsOneRoot
<1> SUFFICES ASSUME IInv, ans = Nothing, Top.fn \in {"top", "source"}
             PROVE  Len(roots) <= Top.mark + 1 /\ Len(envRoots) = Top.emark
  BY DEF SourceHoldsOneRoot
<1>1. Now(Obj, Obj) BY DEF IInv, Now
<1>2. Len(envRoots) = EnvEnd(Top) BY <1>1, NowTop
<1>3. ~Slots(Top) BY DEF Slots
<1>4. Rests(stack, roots, ans) BY DEF IInv, Holds
<1> QED BY <1>2, <1>3, <1>4 DEF EnvEnd, Rests, Top

LEMMA SaysHeldIsLive ==
  JInv => HeldIsLive
<1> SUFFICES ASSUME JInv, NEW f \in Range(stack), NEW o \in Held(f) PROVE heap[o].kind # "free"
  BY DEF HeldIsLive
<1> DEFINE A == Alive(heap)
           S == Kept(snaps)
<1>1. Now(A, S) BY DEF JInv, Now
<1>2. PICK i \in 1 .. Len(stack) : stack[i] = f BY <1>1, FrameSomewhere
<1>3. Usable(f, A, S)
  <2> HIDE DEF A, S
  <2>1. Usable(stack[i], A, S) BY <1>1, FrameWithin
  <2> QED BY <1>2, <2>1
<1>4. \A p \in A : heap[p].kind # "free" BY DEF Alive
<1> HIDE DEF A, S
<1>5. f \in FrameOf(A) /\ (f.fn \in Lists => f.callee \in A /\ f.vals \in Seq(A)) BY <1>3 DEF Usable
<1>6. f.form \in A /\ f.env \in A /\ f.recs \in Seq(RecordOf(A)) BY <1>5, FrameTypes
<1>7. f.fn \in Lists => Named(f) \subseteq A
  <2> SUFFICES ASSUME f.fn \in Lists PROVE Named(f) \subseteq A
    OBVIOUS
  <2>1. Range(f.vals) \subseteq A BY <1>5, RangeOf
  <2> QED BY <1>5, <1>6, <2>1 DEF Named
<1>8. UNION {Named(r) : r \in Range(f.recs)} \subseteq A BY <1>6, NamedIn
<1>9. Held(f) \subseteq A BY <1>6, <1>7, <1>8 DEF Held, Lists
<1> QED BY <1>4, <1>9

-----------------------------------------------------------------------------
(* Whatever a program does, the heap, the root stacks and the Rust stack   *)
(* keep to what they are made of.                                          *)
THEOREM TypeCorrect ==
  Spec => []TypeOK
<1>1. Init => IInv BY Begins
<1>2. IInv /\ [Next]_vars => IInv' BY StepsKeepIInv
<1>3. IInv => TypeOK BY SaysTypeOK
<1> QED BY <1>1, <1>2, <1>3, PTL DEF Spec

(* Engine::eval overwrites its two slots at every tail and cuts back to    *)
(* its marks on the way out: at every depth of frames above it, whatever   *)
(* they pushed and cut, the slots are where it put them.                   *)
THEOREM SlotsAlwaysStand ==
  Spec => []SlotsStand
<1>1. Init => IInv BY Begins
<1>2. IInv /\ [Next]_vars => IInv' BY StepsKeepIInv
<1>3. IInv => SlotsStand BY SaysSlotsStand
<1> QED BY <1>1, <1>2, <1>3, PTL DEF Spec

(* A session of any length, and an included file of any length, leaves one *)
(* root between two of its forms, after errors and replays too.            *)
THEOREM SourcesHoldOneRoot ==
  Spec => []SourceHoldsOneRoot
<1>1. Init => IInv BY Begins
<1>2. IInv /\ [Next]_vars => IInv' BY StepsKeepIInv
<1>3. IInv => SourceHoldsOneRoot BY SaysSourceHoldsOneRoot
<1> QED BY <1>1, <1>2, <1>3, PTL DEF Spec

(* As long as no replay sees two collections, what a Rust frame is going   *)
(* to use is never freed under it, wherever the program collects.          *)
THEOREM HeldStaysLive ==
  ASSUME MaxReplayCollects \in {0, 1}
  PROVE  Spec => []HeldIsLive
<1>1. Init => JInv BY Begins
<1>2. JInv /\ [Next]_vars => JInv' BY StepsKeepJInv
<1>3. JInv => HeldIsLive BY SaysHeldIsLive
<1> QED BY <1>1, <1>2, <1>3, PTL DEF Spec
=============================================================================
