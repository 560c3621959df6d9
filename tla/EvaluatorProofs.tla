---------------------------- MODULE EvaluatorProofs ----------------------------
(***************************************************************************)
(* For every set of forms, every depth of the Rust stack and every number  *)
(* of continuations: the rows beside the stack say what the stack says, a  *)
(* parked tail is taken, and a capture that passes for complete forgot no  *)
(* operative; and, in programs without hooks, machine code and loads,      *)
(* guard and call/cc are the extents of DynamicExtent.                     *)
(***************************************************************************)
EXTENDS Evaluator, Lemmas

(* Which frame may wait directly on which.                                 *)
Enters == {"nested", "args", "walk", "bind", "with", "here", "jit", "refill"}
Above(fn) ==
  CASE fn \in {"top", "source"} -> {"eval", "replay"}
    [] fn \in Enters -> {"eval"}
    [] fn = "guard" -> {"walk"}
    [] fn \in {"callcc", "driver", "hook"} -> {"settle"}
    [] fn = "replay" -> {"walk", "settle", "refill"}
    [] fn = "eval" -> {"nested", "args", "walk", "guard", "bind", "with", "here",
                       "source", "settle", "driver", "hook", "jit", "callcc"}
    [] OTHER -> {"eval", "walk", "settle", "driver", "hook", "jit", "callcc"}

(* `f' waits on `g'.  A body parks its last form for the trampoline or the *)
(* settle below it, and evaluates it under a guard or a replay.            *)
WaitsOn(f, g) ==
  /\ f.fn \in Above(g.fn)
  /\ f.fn = "walk" => (f.parks <=> g.fn \in {"eval", "settle"})

(* A save belongs to a frame with a record, a continuation to its call/cc. *)
FrameFits(f) ==
  /\ f.save => f.fn \in {"walk", "with"}
  /\ f.fn = "callcc" <=> f.id # 0

(* The stack `st' with the rows beside it, and `n' continuations captured. *)
Agrees(st, ctl, sv, hd, ac, n) ==
  /\ st \in Seq(Frame) /\ ctl \in Seq(Record)
  /\ sv \in Nat /\ hd \in Nat /\ ac \in Nat
  /\ ac = Count(st, Len(st), {"eval"})
  /\ hd = Count(st, Len(st), {"guard"})
  /\ sv = SavesUnder(st, Len(st))
  /\ Len(ctl) = Count(st, Len(st), Recording)
  /\ \A i \in 1 .. Len(st) : st[i].fn \in Recording =>
       Describes(ctl[Count(st, i, Recording)], st[i], Count(st, i, {"eval"}))
  /\ \A i \in 1 .. Len(st) : st[i].fn = "source" => st[i].held = SavesUnder(st, i - 1)
  /\ \A i \in 1 .. Len(st) : FrameFits(st[i]) /\ st[i].id <= n
  /\ st # <<>> => st[1].fn = "top"
  /\ \A i \in 2 .. Len(st) : WaitsOn(st[i], st[i - 1])

(* What is on top when a form begins, a callee is applied or a tail waits. *)
ModeFits(st, m, p) ==
  /\ m = "idle" <=> st = <<>>
  /\ m = "run" => Last(st).fn = "eval"
  /\ m = "apply" \/ p => Last(st).fn \in {"eval", "settle"}
  /\ p => m = "ok"

OperativeSeen(s) ==
  s.resumable /\ ~s.again => s.lost \subseteq {"driver", "hook"}

IInv ==
  /\ TypeOK
  /\ Agrees(stack, control, saves, handlers, active, Len(snaps))
  /\ ModeFits(stack, mode, parked)
  /\ \A k \in DOMAIN snaps : OperativeSeen(snaps[k])

-----------------------------------------------------------------------------
(* Counting frames.                                                        *)

(* A stack has a number of frames of each kind.                            *)
LEMMA CountType ==
  ASSUME NEW st, NEW K, NEW n \in Nat
  PROVE  Count(st, n, K) \in Nat /\ Count(st, 0, K) = 0
<1>1. Cardinality({ j \in 1 .. n : st[j].fn \in K }) \in Nat BY FirstAreFinite
<1>2. { j \in 1 .. 0 : st[j].fn \in K } = {} OBVIOUS
<1> QED BY <1>1, <1>2, FS_EmptySet DEF Count

(* The frame above is counted if it is of the kind.                        *)
LEMMA CountStep ==
  ASSUME NEW st, NEW K, NEW n \in Nat \ {0}
  PROVE  Count(st, n, K) = IF st[n].fn \in K THEN Count(st, n - 1, K) + 1
                           ELSE Count(st, n - 1, K)
<1> DEFINE A == { j \in 1 .. n - 1 : st[j].fn \in K }
           B == { j \in 1 .. n : st[j].fn \in K }
<1>1. IsFiniteSet(A) BY FirstAreFinite, n - 1 \in Nat
<1>2. CASE st[n].fn \in K
  <2>1. B = A \cup {n} /\ n \notin A BY <1>2
  <2> QED BY <1>1, <1>2, <2>1, FS_AddElement DEF Count
<1>3. CASE st[n].fn \notin K
  <2>1. B = A BY <1>3
  <2> QED BY <1>3, <2>1 DEF Count
<1> QED BY <1>2, <1>3

(* A count is of the frames it is over.                                    *)
LEMMA CountSame ==
  ASSUME NEW st, NEW tt, NEW K, NEW n \in Nat,
         \A j \in 1 .. n : st[j] = tt[j]
  PROVE  Count(st, n, K) = Count(tt, n, K)
<1>1. { j \in 1 .. n : st[j].fn \in K } = { j \in 1 .. n : tt[j].fn \in K } OBVIOUS
<1> QED BY <1>1 DEF Count

(* Higher up there are no fewer, and more if the higher frame is one.      *)
LEMMA CountGrows ==
  ASSUME NEW st, NEW K, NEW m \in Nat, NEW n \in Nat, m <= n
  PROVE  /\ Count(st, m, K) <= Count(st, n, K)
         /\ m < n /\ st[n].fn \in K => Count(st, m, K) < Count(st, n, K)
<1>1. ASSUME NEW k \in Nat, m <= k PROVE Count(st, m, K) <= Count(st, k, K)
  <2>1. IsFiniteSet({ j \in 1 .. k : st[j].fn \in K })
    BY FirstAreFinite
  <2>2. { j \in 1 .. m : st[j].fn \in K } \subseteq { j \in 1 .. k : st[j].fn \in K }
    BY <1>1
  <2> QED BY <2>1, <2>2, FS_Subset DEF Count
<1>2. ASSUME m < n, st[n].fn \in K PROVE Count(st, m, K) < Count(st, n, K)
  <2>1. Count(st, m, K) <= Count(st, n - 1, K) BY <1>1, <1>2
  <2>2. Count(st, n, K) = Count(st, n - 1, K) + 1 BY <1>2, CountStep
  <2>3. Count(st, m, K) \in Nat /\ Count(st, n - 1, K) \in Nat BY <1>2, CountType
  <2> QED BY <2>1, <2>2, <2>3
<1> QED BY <1>1, <1>2

(* The frames of a kind are numbered from below: each number is that of    *)
(* one frame.                                                              *)
LEMMA NthExists ==
  ASSUME NEW st, NEW K, NEW n \in Nat, NEW m \in 1 .. Count(st, n, K)
  PROVE  \E i \in 1 .. n : st[i].fn \in K /\ Count(st, i, K) = m
<1> DEFINE T == { i \in 0 .. n : m <= Count(st, i, K) }
<1>1. Count(st, n, K) \in Nat /\ Count(st, 0, K) = 0 BY CountType
<1>2. n \in T /\ T \in SUBSET Nat /\ 0 \notin T BY <1>1
<1>3. PICK i \in T : \A j \in T : i <= j
  <2> HIDE DEF T
  <2> QED BY <1>2, LeastOf
<1>4. i \in 1 .. n /\ m <= Count(st, i, K) /\ i - 1 \notin T BY <1>2, <1>3
<1>5. ~(m <= Count(st, i - 1, K)) BY <1>4
<1>6. Count(st, i - 1, K) \in Nat /\ Count(st, i, K) \in Nat BY <1>4, CountType
<1>7. Count(st, i, K) = IF st[i].fn \in K THEN Count(st, i - 1, K) + 1
                        ELSE Count(st, i - 1, K)
  BY <1>4, CountStep
<1>8. st[i].fn \in K BY <1>4, <1>5, <1>7
<1>9. Count(st, i, K) = m BY <1>4, <1>5, <1>6, <1>7, <1>8
<1> QED BY <1>4, <1>8, <1>9

LEMMA NthIsOne ==
  ASSUME NEW st, NEW K, NEW i \in Nat, NEW j \in Nat,
         st[i].fn \in K, st[j].fn \in K, Count(st, i, K) = Count(st, j, K)
  PROVE  i = j
<1>1. Count(st, i, K) \in Nat /\ Count(st, j, K) \in Nat BY CountType
<1>2. ~(i < j) BY <1>1, CountGrows
<1>3. ~(j < i) BY <1>1, CountGrows
<1> QED BY <1>2, <1>3

(* The saves since the innermost load: none at a load, and one more under  *)
(* a frame that pushed one.                                                *)
LEMMA SavesStep ==
  ASSUME NEW st, NEW n \in Nat \ {0}
  PROVE  /\ SavesUnder(st, n - 1) \in Nat
         /\ SavesUnder(st, 0) = 0
         /\ SavesUnder(st, n) = IF st[n].fn = "source" THEN 0
                                ELSE IF st[n].save THEN SavesUnder(st, n - 1) + 1
                                ELSE SavesUnder(st, n - 1)
<1> DEFINE A == { i \in 1 .. n - 1 : st[i].save /\ \A j \in i .. n - 1 : st[j].fn # "source" }
           B == { i \in 1 .. n : st[i].save /\ \A j \in i .. n : st[j].fn # "source" }
<1>1. IsFiniteSet(A) /\ Cardinality(A) \in Nat
  BY FirstAreFinite, n - 1 \in Nat
<1>2. SavesUnder(st, 0) = 0
  <2>1. { i \in 1 .. 0 : st[i].save /\ \A j \in i .. 0 : st[j].fn # "source" } = {} OBVIOUS
  <2> QED BY <2>1, FS_EmptySet DEF SavesUnder
<1>3. SavesUnder(st, n) = Cardinality(B) /\ SavesUnder(st, n - 1) = Cardinality(A)
  BY DEF SavesUnder
<1>4. CASE st[n].fn = "source"
  <2>1. B = {} BY <1>4
  <2> QED BY <1>1, <1>2, <1>3, <1>4, <2>1, FS_EmptySet
<1>5. CASE st[n].fn # "source" /\ st[n].save
  <2>1. B = A \cup {n} /\ n \notin A BY <1>5
  <2>2. Cardinality(B) = Cardinality(A) + 1 BY <1>1, <2>1, FS_AddElement
  <2> QED BY <1>1, <1>2, <1>3, <1>5, <2>2
<1>6. CASE st[n].fn # "source" /\ ~st[n].save
  <2>1. B = A BY <1>6
  <2> QED BY <1>1, <1>2, <1>3, <1>6, <2>1
<1> QED BY <1>4, <1>5, <1>6, Zenon

LEMMA SavesSame ==
  ASSUME NEW st, NEW tt, NEW n \in Nat, \A j \in 1 .. n : st[j] = tt[j]
  PROVE  SavesUnder(st, n) = SavesUnder(tt, n)
<1>1. { i \in 1 .. n : st[i].save /\ \A j \in i .. n : st[j].fn # "source" }
        = { i \in 1 .. n : tt[i].save /\ \A j \in i .. n : tt[j].fn # "source" }
  OBVIOUS
<1> QED BY <1>1 DEF SavesUnder

-----------------------------------------------------------------------------
(* The stack and its rows, one frame at a time.                            *)

LEMMA RecordingIs == Recording = {"args", "walk", "bind", "with", "here"}
BY DEF Recording, RecordOf, FrameKind

(* `t' is `st' up to its frame `m', with the frame `f' above.              *)
OneMore(st, t, f, m) ==
  m \in Nat /\ (\A j \in 1 .. m : t[j] = st[j]) /\ t[m + 1] = f

(* One frame more changes nothing that is counted below it.                *)
LEMMA CountPush ==
  ASSUME NEW st, NEW t, NEW f, NEW K, NEW m, OneMore(st, t, f, m)
  PROVE  /\ \A i \in 0 .. m : Count(t, i, K) = Count(st, i, K)
         /\ Count(t, m + 1, K) = IF f.fn \in K THEN Count(st, m, K) + 1
                                 ELSE Count(st, m, K)
<1>1. m \in Nat /\ (\A j \in 1 .. m : t[j] = st[j]) /\ t[m + 1] = f BY DEF OneMore
<1>2. ASSUME NEW i \in 0 .. m PROVE Count(t, i, K) = Count(st, i, K)
  BY <1>1, CountSame
<1>3. m + 1 \in Nat \ {0} /\ (m + 1) - 1 = m /\ m \in 0 .. m BY <1>1
<1>4. Count(t, m + 1, K) = IF t[m + 1].fn \in K THEN Count(t, (m + 1) - 1, K) + 1
                           ELSE Count(t, (m + 1) - 1, K)
  BY <1>3, CountStep
<1>5. Count(t, m + 1, K) = IF f.fn \in K THEN Count(st, m, K) + 1 ELSE Count(st, m, K)
  BY <1>1, <1>2, <1>3, <1>4
<1> QED BY <1>2, <1>5

LEMMA SavesPush ==
  ASSUME NEW st, NEW t, NEW f, NEW m, OneMore(st, t, f, m)
  PROVE  /\ \A i \in 0 .. m : SavesUnder(t, i) = SavesUnder(st, i)
         /\ SavesUnder(t, m + 1) = IF f.fn = "source" THEN 0
                                   ELSE IF f.save THEN SavesUnder(st, m) + 1
                                   ELSE SavesUnder(st, m)
<1>1. m \in Nat /\ (\A j \in 1 .. m : t[j] = st[j]) /\ t[m + 1] = f BY DEF OneMore
<1>2. ASSUME NEW i \in 0 .. m PROVE SavesUnder(t, i) = SavesUnder(st, i)
  BY <1>1, SavesSame
<1>3. m + 1 \in Nat \ {0} /\ (m + 1) - 1 = m /\ m \in 0 .. m BY <1>1
<1>4. SavesUnder(t, m + 1) = IF t[m + 1].fn = "source" THEN 0
                             ELSE IF t[m + 1].save THEN SavesUnder(t, (m + 1) - 1) + 1
                             ELSE SavesUnder(t, (m + 1) - 1)
  BY <1>3, SavesStep
<1>5. SavesUnder(t, m + 1) = IF f.fn = "source" THEN 0
                             ELSE IF f.save THEN SavesUnder(st, m) + 1
                             ELSE SavesUnder(st, m)
  BY <1>1, <1>2, <1>3, <1>4
<1> QED BY <1>2, <1>5

(* The frame `f' may be pushed on `st', and takes the records from `ctl'   *)
(* to `ctl2' and the saves from `sv' to `sv2'.                             *)
Fits(f, st, ctl, sv, ac, n, ctl2, sv2) ==
  /\ f \in Frame /\ FrameFits(f) /\ f.id <= n
  /\ IF st = <<>> THEN f.fn = "top" ELSE WaitsOn(f, Last(st))
  /\ IF f.fn \in Recording
     THEN \E r \in Record : ctl2 = Append(ctl, r) /\ Describes(r, f, ac)
     ELSE ctl2 = ctl
  /\ IF f.fn = "source" THEN sv2 = 0 /\ f.held = sv
     ELSE sv2 = IF f.save THEN sv + 1 ELSE sv

(* A frame is pushed, and what belongs to it on the rows.                  *)
LEMMA PushAgrees ==
  ASSUME NEW st, NEW ctl, NEW sv, NEW hd, NEW ac, NEW n,
         Agrees(st, ctl, sv, hd, ac, n),
         NEW f, NEW ctl2, NEW sv2,
         Fits(f, st, ctl, sv, ac, n, ctl2, sv2)
  PROVE  Agrees(Append(st, f), ctl2, sv2,
                IF f.fn = "guard" THEN hd + 1 ELSE hd,
                IF f.fn = "eval" THEN ac + 1 ELSE ac, n)
<1> DEFINE up == Append(st, f)
           h == Len(st)
<1>1. /\ up \in Seq(Frame) /\ up # <<>> /\ h = Len(st) /\ h \in Nat /\ Len(up) = h + 1
      /\ \A i \in 1 .. h : up[i] = st[i]
      /\ up[h + 1] = f
  <2>1. st \in Seq(Frame) BY DEF Agrees
  <2>2. f \in Frame BY DEF Fits
  <2> QED BY <2>1, <2>2, Pushed
<1> HIDE DEF up, h
<1>0. h \in Nat /\ (\A i \in 1 .. h : up[i] = st[i]) /\ up[h + 1] = f BY <1>1
<1>2. ASSUME NEW fns
      PROVE  /\ \A i \in 0 .. h : Count(up, i, fns) = Count(st, i, fns)
             /\ Count(up, h + 1, fns) = IF f.fn \in fns THEN Count(st, h, fns) + 1
                                     ELSE Count(st, h, fns)
  <2>1. OneMore(st, up, f, h) BY <1>0 DEF OneMore
  <2>2. ASSUME NEW i \in 0 .. h PROVE Count(up, i, fns) = Count(st, i, fns)
    <3>1. i \in Nat /\ \A j \in 1 .. i : up[j] = st[j] BY <1>0
    <3> QED BY <3>1, CountSame
  <2>3. f.fn \in fns => Count(up, h + 1, fns) = Count(st, h, fns) + 1 BY <2>1, CountPush
  <2>4. f.fn \notin fns => Count(up, h + 1, fns) = Count(st, h, fns) BY <2>1, CountPush
  <2> QED BY <2>2, <2>3, <2>4
<1>3. /\ \A i \in 0 .. h : SavesUnder(up, i) = SavesUnder(st, i)
      /\ SavesUnder(up, h + 1) = IF f.fn = "source" THEN 0
                                ELSE IF f.save THEN SavesUnder(st, h) + 1
                                ELSE SavesUnder(st, h)
  <2>1. OneMore(st, up, f, h) BY <1>0 DEF OneMore
  <2> QED BY <2>1, SavesPush
<1>6. /\ st \in Seq(Frame) /\ ctl \in Seq(Record) /\ sv \in Nat /\ hd \in Nat /\ ac \in Nat
      /\ ac = Count(st, h, {"eval"}) /\ hd = Count(st, h, {"guard"})
      /\ sv = SavesUnder(st, h) /\ Len(ctl) = Count(st, h, Recording)
  BY DEF Agrees, h
<1>7. "eval" \notin Recording /\ "source" \notin Recording BY RecordingIs
<1>8. /\ ctl2 \in Seq(Record) /\ Len(ctl2) = Count(up, h + 1, Recording)
      /\ \A i \in 1 .. Len(ctl) : ctl2[i] = ctl[i]
      /\ f.fn \in Recording => Describes(ctl2[Len(ctl) + 1], f, ac)
  <2>1. CASE f.fn \in Recording
    <3>1. PICK r \in Record : ctl2 = Append(ctl, r) /\ Describes(r, f, ac) BY <2>1 DEF Fits
    <3>2. /\ ctl2 \in Seq(Record) /\ Len(ctl2) = Len(ctl) + 1 /\ ctl2[Len(ctl) + 1] = r
          /\ \A i \in 1 .. Len(ctl) : ctl2[i] = ctl[i]
      BY <1>6, <3>1, Pushed
    <3> QED BY <1>2, <1>6, <2>1, <3>1, <3>2
  <2>2. CASE f.fn \notin Recording
    BY <1>2, <1>6, <2>2 DEF Fits
  <2> QED BY <2>1, <2>2
<1>9. ASSUME NEW i \in 1 .. h + 1, up[i].fn \in Recording
      PROVE  Describes(ctl2[Count(up, i, Recording)], up[i], Count(up, i, {"eval"}))
  <2>1. CASE i \in 1 .. h
    <3>1. Describes(ctl[Count(st, i, Recording)], st[i], Count(st, i, {"eval"}))
      BY <1>1, <1>9, <2>1 DEF Agrees
    <3>2. Count(st, i, Recording) \in 1 .. Len(ctl)
      <4>1. Count(st, i, Recording) <= Count(st, h, Recording) BY <1>1, <2>1, CountGrows
      <4>2. Count(st, i - 1, Recording) \in Nat /\ Count(st, h, Recording) \in Nat
        BY <1>1, <2>1, CountType
      <4>3. Count(st, i, Recording) = Count(st, i - 1, Recording) + 1
        BY <1>1, <1>9, <2>1, CountStep
      <4> QED BY <1>6, <4>1, <4>2, <4>3
    <3>3. ctl2[Count(st, i, Recording)] = ctl[Count(st, i, Recording)] BY <1>8, <3>2
    <3>4. Count(up, i, Recording) = Count(st, i, Recording)
          /\ Count(up, i, {"eval"}) = Count(st, i, {"eval"})
      BY <1>0, <1>2, <2>1
    <3> QED BY <1>1, <2>1, <3>1, <3>3, <3>4
  <2>2. CASE i = h + 1
    <3>1. Count(up, i, Recording) = Len(ctl) + 1 /\ Count(up, i, {"eval"}) = ac
      BY <1>1, <1>2, <1>6, <1>7, <1>9, <2>2
    <3> QED BY <1>1, <1>8, <1>9, <2>2, <3>1
  <2> QED BY <1>1, <2>1, <2>2
<1>10. ASSUME NEW i \in 1 .. h + 1, up[i].fn = "source" PROVE up[i].held = SavesUnder(up, i - 1)
  <2>1. CASE i \in 1 .. h
    <3>1. i - 1 \in 0 .. h BY <1>0, <2>1
    <3>2. SavesUnder(up, i - 1) = SavesUnder(st, i - 1) BY <1>3, <3>1
    <3>3. i \in 1 .. Len(st) /\ up[i] = st[i] BY <1>1, <2>1
    <3>4. st[i].held = SavesUnder(st, i - 1) BY <1>10, <3>3 DEF Agrees
    <3> QED BY <3>2, <3>3, <3>4
  <2>2. CASE i = h + 1
    <3>1. i - 1 = h /\ h \in 0 .. h BY <1>1, <2>2
    <3>2. SavesUnder(up, h) = sv BY <1>3, <1>6, <3>1
    <3> QED BY <1>1, <1>10, <2>2, <3>1, <3>2 DEF Fits
  <2> QED BY <1>1, <2>1, <2>2
<1>11. ASSUME NEW i \in 1 .. h + 1 PROVE FrameFits(up[i]) /\ up[i].id <= n
  <2>1. CASE i \in 1 .. h BY <1>1, <2>1 DEF Agrees
  <2>2. CASE i = h + 1 BY <1>1, <2>2 DEF Fits
  <2> QED BY <1>1, <2>1, <2>2
<1>12. up[1].fn = "top"
  <2>1. CASE h = 0
    <3>1. st = <<>> BY <1>1, <1>6, <2>1, EmptySeq
    <3> QED BY <1>0, <2>1, <3>1 DEF Fits
  <2>2. CASE h # 0 BY <1>1, <1>6, <2>2, EmptySeq DEF Agrees
  <2> QED BY <2>1, <2>2
<1>13. ASSUME NEW i \in 2 .. h + 1 PROVE WaitsOn(up[i], up[i - 1])
  <2>1. CASE i \in 2 .. h
    <3>1. i \in 1 .. h /\ i - 1 \in 1 .. h /\ i \in 2 .. Len(st) BY <1>1, <2>1
    <3>2. WaitsOn(st[i], st[i - 1]) BY <3>1 DEF Agrees
    <3>3. up[i] = st[i] /\ up[i - 1] = st[i - 1] BY <1>0, <3>1
    <3> QED BY <3>2, <3>3
  <2>2. CASE i = h + 1
    <3>1. i - 1 = h /\ st # <<>> /\ h \in 1 .. h BY <1>1, <1>13, <2>2
    <3>2. Last(st) = up[i - 1] BY <1>1, <3>1 DEF Last
    <3> QED BY <1>1, <2>2, <3>1, <3>2 DEF Fits
  <2> QED BY <1>1, <2>1, <2>2
<1>14. /\ Count(up, h + 1, {"guard"}) = IF f.fn = "guard" THEN hd + 1 ELSE hd
       /\ Count(up, h + 1, {"eval"}) = IF f.fn = "eval" THEN ac + 1 ELSE ac
       /\ SavesUnder(up, h + 1) = sv2 /\ sv2 \in Nat
  BY <1>2, <1>3, <1>6 DEF Fits
<1>15. (IF f.fn = "guard" THEN hd + 1 ELSE hd) \in Nat /\ (IF f.fn = "eval" THEN ac + 1 ELSE ac) \in Nat
  BY <1>6
<1>16. Agrees(up, ctl2, sv2, IF f.fn = "guard" THEN hd + 1 ELSE hd,
              IF f.fn = "eval" THEN ac + 1 ELSE ac, n)
  BY <1>1, <1>8, <1>9, <1>10, <1>11, <1>12, <1>13, <1>14, <1>15, Zenon DEF Agrees
<1> QED BY <1>16 DEF up

(* The frame on top is left, and what belongs to it on the rows comes off. *)
LEMMA PopAgrees ==
  ASSUME NEW st, NEW ctl, NEW sv, NEW hd, NEW ac, NEW n,
         Agrees(st, ctl, sv, hd, ac, n), st # <<>>,
         NEW f, f = Last(st)
  PROVE  /\ Agrees(Front(st),
                   IF f.fn \in Recording THEN Front(ctl) ELSE ctl,
                   IF f.fn = "source" THEN f.held ELSE IF f.save THEN sv - 1 ELSE sv,
                   IF f.fn = "guard" THEN hd - 1 ELSE hd,
                   IF f.fn = "eval" THEN ac - 1 ELSE ac, n)
         /\ f \in Frame /\ FrameFits(f) /\ f.id <= n
         /\ IF f.fn = "top" THEN Front(st) = <<>>
            ELSE Front(st) # <<>> /\ WaitsOn(f, Last(Front(st)))
<1> PICK b : b = Front(st) OBVIOUS
<1> PICK m : m = Len(b) OBVIOUS
<1>1. /\ b \in Seq(Frame) /\ m \in Nat /\ Len(st) = m + 1
      /\ \A i \in 1 .. m : b[i] = st[i]
      /\ st[m + 1] = f /\ f \in Frame
  <2>1. st \in Seq(Frame) BY DEF Agrees
  <2>2. /\ Len(st) \in Nat \ {0} /\ b \in Seq(Frame) /\ Len(b) = Len(st) - 1
        /\ \A i \in 1 .. Len(st) - 1 : b[i] = st[i]
        /\ Last(st) = st[Len(st)] /\ Last(st) \in Frame
    BY <2>1, FrontAndLast
  <2> QED BY <2>2
<1>2. ASSUME NEW i \in 0 .. m, NEW K PROVE Count(b, i, K) = Count(st, i, K)
  BY <1>1, CountSame
<1>3. ASSUME NEW i \in 0 .. m PROVE SavesUnder(b, i) = SavesUnder(st, i)
  BY <1>1, SavesSame
<1>4. ASSUME NEW K PROVE /\ Count(st, m + 1, K) = IF f.fn \in K THEN Count(b, m, K) + 1
                                                  ELSE Count(b, m, K)
                         /\ Count(b, m, K) \in Nat
  <2>1. m + 1 \in Nat \ {0} /\ (m + 1) - 1 = m /\ m \in 0 .. m BY <1>1
  <2> QED BY <1>1, <1>2, <2>1, CountStep, CountType
<1>5. /\ SavesUnder(st, m + 1) = IF f.fn = "source" THEN 0
                                 ELSE IF f.save THEN SavesUnder(b, m) + 1
                                 ELSE SavesUnder(b, m)
      /\ SavesUnder(b, m) \in Nat
  <2>1. m + 1 \in Nat \ {0} /\ (m + 1) - 1 = m /\ m \in 0 .. m BY <1>1
  <2> QED BY <1>1, <1>3, <2>1, SavesStep
<1>6. /\ ctl \in Seq(Record) /\ sv \in Nat /\ hd \in Nat /\ ac \in Nat
      /\ ac = Count(st, m + 1, {"eval"}) /\ hd = Count(st, m + 1, {"guard"})
      /\ sv = SavesUnder(st, m + 1) /\ Len(ctl) = Count(st, m + 1, Recording)
  BY <1>1 DEF Agrees
<1>7. f.fn = "source" => f.held = SavesUnder(b, m)
  <2>1. m + 1 \in 1 .. Len(st) /\ (m + 1) - 1 = m /\ m \in 0 .. m BY <1>1
  <2>2. f.fn = "source" => f.held = SavesUnder(st, m) BY <1>1, <2>1 DEF Agrees
  <2> QED BY <1>3, <2>1, <2>2
<1> PICK ctl2 : ctl2 = IF f.fn \in Recording THEN Front(ctl) ELSE ctl OBVIOUS
<1>8. /\ ctl2 \in Seq(Record) /\ Len(ctl2) = Count(b, m, Recording)
      /\ \A i \in 1 .. Len(ctl2) : ctl2[i] = ctl[i]
  <2>1. CASE f.fn \in Recording
    <3>1. Len(ctl) = Count(b, m, Recording) + 1 /\ Count(b, m, Recording) \in Nat
      BY <1>4, <1>6, <2>1
    <3>2. ctl # <<>> BY <3>1, EmptySeq
    <3>3. /\ Front(ctl) \in Seq(Record) /\ Len(Front(ctl)) = Len(ctl) - 1
          /\ \A i \in 1 .. Len(ctl) - 1 : Front(ctl)[i] = ctl[i]
      BY <1>6, <3>2, FrontAndLast
    <3> QED BY <2>1, <3>1, <3>3
  <2>2. CASE f.fn \notin Recording
    BY <1>4, <1>6, <2>2
  <2> QED BY <2>1, <2>2
<1>9. ASSUME NEW i \in 1 .. m, b[i].fn \in Recording
      PROVE  Describes(ctl2[Count(b, i, Recording)], b[i], Count(b, i, {"eval"}))
  <2>0. i \in 1 .. Len(st) /\ st[i].fn \in Recording BY <1>1, <1>9
  <2>1. Describes(ctl[Count(st, i, Recording)], st[i], Count(st, i, {"eval"}))
    BY <2>0, Zenon DEF Agrees
  <2>2. Count(b, i, Recording) \in 1 .. Len(ctl2)
    <3>1. Count(b, i, Recording) <= Count(b, m, Recording) BY <1>1, CountGrows
    <3>2. Count(b, i - 1, Recording) \in Nat /\ Count(b, m, Recording) \in Nat
      BY <1>1, CountType
    <3>3. Count(b, i, Recording) = Count(b, i - 1, Recording) + 1
      BY <1>9, CountStep
    <3> QED BY <1>8, <3>1, <3>2, <3>3
  <2> QED BY <1>1, <1>2, <1>8, <2>1, <2>2
<1>10. ASSUME NEW i \in 1 .. m, b[i].fn = "source" PROVE b[i].held = SavesUnder(b, i - 1)
  BY <1>1, <1>3, <1>10 DEF Agrees
<1>11. ASSUME NEW i \in 1 .. m + 1 PROVE FrameFits(st[i]) /\ st[i].id <= n
  BY <1>1 DEF Agrees
<1>12. st[1].fn = "top" BY DEF Agrees
<1>13. ASSUME NEW i \in 2 .. m + 1 PROVE WaitsOn(st[i], st[i - 1])
  BY <1>1 DEF Agrees
<1>14. /\ Count(b, m, {"guard"}) = IF f.fn = "guard" THEN hd - 1 ELSE hd
       /\ Count(b, m, {"eval"}) = IF f.fn = "eval" THEN ac - 1 ELSE ac
       /\ SavesUnder(b, m) = IF f.fn = "source" THEN f.held ELSE IF f.save THEN sv - 1 ELSE sv
  <2>1. /\ Count(st, m + 1, {"guard"}) = IF f.fn = "guard" THEN Count(b, m, {"guard"}) + 1
                                         ELSE Count(b, m, {"guard"})
        /\ Count(b, m, {"guard"}) \in Nat
    BY <1>4
  <2>2. /\ Count(st, m + 1, {"eval"}) = IF f.fn = "eval" THEN Count(b, m, {"eval"}) + 1
                                        ELSE Count(b, m, {"eval"})
        /\ Count(b, m, {"eval"}) \in Nat
    BY <1>4
  <2> QED BY <2>1, <2>2, <1>5, <1>6, <1>7
<1>15. Count(b, m, {"guard"}) \in Nat /\ Count(b, m, {"eval"}) \in Nat /\ SavesUnder(b, m) \in Nat
  BY <1>4, <1>5
<1>16. (IF f.fn = "top" THEN b = <<>> ELSE b # <<>> /\ WaitsOn(f, Last(b)))
  <2>1. CASE m = 0
    <3>1. b = <<>> BY <1>1, <2>1, EmptySeq
    <3> QED BY <1>1, <1>12, <2>1, <3>1
  <2>2. CASE m # 0
    <3>1. m + 1 \in 2 .. m + 1 /\ (m + 1) - 1 = m /\ m \in 1 .. m BY <1>1, <2>2
    <3>2. WaitsOn(f, b[m]) BY <1>1, <1>13, <3>1
    <3>3. Last(b) = b[m] /\ b # <<>> BY <2>2, EmptySeq DEF Last
    <3>4. f.fn # "top" BY <3>2 DEF WaitsOn, Above, Enters
    <3> QED BY <3>2, <3>3, <3>4
  <2> QED BY <2>1, <2>2
<1>17. Agrees(b, ctl2, SavesUnder(b, m), Count(b, m, {"guard"}), Count(b, m, {"eval"}), n)
  <2>1. b # <<>> => b[1].fn = "top"
    <3>1. b # <<>> => 1 \in 1 .. m BY <1>1, EmptySeq
    <3> QED BY <1>1, <1>12, <3>1
  <2>2. \A i \in 2 .. m : WaitsOn(b[i], b[i - 1]) BY <1>1, <1>13
  <2>3. \A i \in 1 .. m : FrameFits(b[i]) /\ b[i].id <= n BY <1>1, <1>11
  <2> QED BY <1>1, <1>8, <1>9, <1>10, <1>15, <2>1, <2>2, <2>3, Zenon DEF Agrees
<1>18. m + 1 \in 1 .. m + 1 BY <1>1
<1> QED BY <1>1, <1>11, <1>14, <1>16, <1>17, <1>18

-----------------------------------------------------------------------------
(* The frames that are pushed.                                             *)

LEMMA FramesAreFrames ==
  /\ \A fn \in FrameKind : Plain(fn) \in Frame
  /\ \A fn \in FrameKind, k \in 0 .. MaxForms : Pending(fn, k) \in Frame
  /\ \A k \in 0 .. MaxForms, p, s \in BOOLEAN : Walk(k, p, s) \in Frame
<1>1. <<>> \in Seq(Record) BY EmptySeq
<1>2. 0 \in 0 .. MaxForms /\ 0 \in 0 .. MaxConts /\ 0 \in Nat BY BoundAssumption
<1> HIDE DEF Record
<1>3. ASSUME NEW fn \in FrameKind PROVE Plain(fn) \in Frame
  BY <1>1, <1>2 DEF Plain, Frame
<1>4. ASSUME NEW fn \in FrameKind, NEW k \in 0 .. MaxForms PROVE Pending(fn, k) \in Frame
  BY <1>1, <1>2 DEF Pending, Plain, Frame
<1>5. ASSUME NEW k \in 0 .. MaxForms, NEW p \in BOOLEAN, NEW s \in BOOLEAN
      PROVE  Walk(k, p, s) \in Frame
  <2>1. "walk" \in FrameKind BY DEF FrameKind
  <2> QED BY <1>1, <1>2, <2>1 DEF Walk, Plain, Frame
<1> QED BY <1>3, <1>4, <1>5

(* A state whose stack and rows agree, and whose mode is true to its stack.*)
LEMMA Lands ==
  ASSUME IInv,
         Agrees(stack', control', saves', handlers', active', Len(snaps)),
         stack' # <<>>,
         mode' \in {"run", "apply", "ok", "err"},
         mode' = "run" => Last(stack').fn = "eval",
         mode' = "apply" => Last(stack').fn \in {"eval", "settle"},
         parked' \in BOOLEAN,
         parked' => mode' = "ok" /\ Last(stack').fn \in {"eval", "settle"},
         escaping' \in 0 .. Len(snaps), snaps' = snaps
  PROVE  IInv'
<1>1. /\ stack' \in Seq(Frame) /\ control' \in Seq(Record)
      /\ saves' \in Nat /\ handlers' \in Nat /\ active' \in Nat
  BY Zenon DEF Agrees
<1>2. TypeOK'
  <2>1. snaps' \in Seq(Snapshot) /\ Len(snaps') <= MaxConts BY DEF IInv, TypeOK
  <2>2. mode' \in {"idle", "run", "apply", "ok", "err"} OBVIOUS
  <2>3. escaping' \in 0 .. Len(snaps') OBVIOUS
  <2> QED BY <1>1, <2>1, <2>2, <2>3, Zenon DEF TypeOK
<1>3. ModeFits(stack', mode', parked')
  BY DEF ModeFits
<1>4. \A k \in DOMAIN snaps' : OperativeSeen(snaps'[k])
  BY DEF IInv
<1>5. Agrees(stack', control', saves', handlers', active', Len(snaps'))
  OBVIOUS
<1> QED BY <1>2, <1>3, <1>4, <1>5, Zenon DEF IInv

(* A frame and an evaluation above it.                                     *)
LEMMA EnterAgrees ==
  ASSUME NEW st, NEW ctl, NEW sv, NEW hd, NEW ac, NEW f, NEW ctl2, NEW sv2, NEW n \in Nat,
         Agrees(st, ctl, sv, hd, ac, n), Fits(f, st, ctl, sv, ac, n, ctl2, sv2),
         f.fn \in Enters \cup {"top", "source"}
  PROVE  /\ Agrees(st \o <<f, Eval>>, ctl2, sv2, hd, ac + 1, n)
         /\ st \o <<f, Eval>> # <<>> /\ Last(st \o <<f, Eval>>).fn = "eval"
<1> DEFINE t == Append(st, f)
<1>1. f \in Frame /\ st \in Seq(Frame) BY DEF Fits, Agrees
<1>2. f.fn \notin {"guard", "eval"} BY DEF Enters
<1>3. Agrees(t, ctl2, sv2, hd, ac, n)
  BY <1>2, PushAgrees
<1>4. t \in Seq(Frame) /\ t # <<>> /\ Last(t) = f BY <1>1, Pushed
<1>5. Eval \in Frame /\ Eval.fn = "eval" /\ ~Eval.save /\ Eval.id = 0
  BY FramesAreFrames DEF Eval, Plain, FrameKind
<1>6. st \o <<f, Eval>> = Append(t, Eval)
  <2>1. t = st \o <<f>> BY <1>1, AppendIsConcat
  <2> QED BY <1>1, <1>5, <2>1
<1> HIDE DEF t
<1>7. Fits(Eval, t, ctl2, sv2, ac, n, ctl2, sv2)
  <2>1. WaitsOn(Eval, Last(t)) BY <1>4, <1>5 DEF WaitsOn, Above, Enters
  <2>2. FrameFits(Eval) BY <1>5 DEF FrameFits
  <2>3. "eval" \notin Recording BY RecordingIs
  <2> QED BY <1>4, <1>5, <2>1, <2>2, <2>3 DEF Fits
<1>8. Agrees(Append(t, Eval), ctl2, sv2, hd, ac + 1, n)
  BY <1>3, <1>5, <1>7, PushAgrees
<1>9. Append(t, Eval) # <<>> /\ Last(Append(t, Eval)) = Eval
  BY <1>4, <1>5, Pushed
<1> QED BY <1>5, <1>6, <1>8, <1>9

(* The step that does so.                                                  *)
LEMMA EnterOn ==
  ASSUME IInv, NEW st, NEW ctl, NEW sv, NEW hd, NEW f,
         Agrees(st, ctl, sv, hd, active, Len(snaps)),
         Fits(f, st, ctl, sv, active, Len(snaps), control', saves'),
         f.fn \in Enters \cup {"top", "source"},
         stack' = st \o <<f, Eval>>, active' = active + 1, mode' = "run",
         handlers' = hd, parked' = FALSE, UNCHANGED <<escaping, snaps>>
  PROVE  IInv'
<1>1. Len(snaps) \in Nat BY LenProperties DEF IInv, TypeOK
<1>2. /\ Agrees(stack', control', saves', handlers', active', Len(snaps))
      /\ stack' # <<>> /\ Last(stack').fn = "eval"
  BY <1>1, EnterAgrees
<1>3. escaping' \in 0 .. Len(snaps) /\ snaps' = snaps BY DEF IInv, TypeOK
<1> QED BY <1>2, <1>3, Lands

(* The frames without a record, and those with one.                        *)
LEMMA PlainFits ==
  ASSUME NEW st, NEW ctl, NEW sv, NEW ac, NEW n \in Nat, NEW f \in Frame, st # <<>>,
         f.fn \in Above(Last(st).fn), f.fn \notin Recording \cup {"source", "callcc", "top"},
         f.id = 0, ~f.save
  PROVE  Fits(f, st, ctl, sv, ac, n, ctl, sv)
<1>1. f.fn # "walk" BY RecordingIs
<1> QED BY <1>1 DEF Fits, WaitsOn, FrameFits

LEMMA RecordedFits ==
  ASSUME NEW st, NEW ctl, NEW sv, NEW ac, NEW n \in Nat, NEW f \in Frame, NEW r \in Record,
         st # <<>>, WaitsOn(f, Last(st)), f.fn \in Recording,
         f.id = 0, f.save => f.fn \in {"walk", "with"}, Describes(r, f, ac)
  PROVE  Fits(f, st, ctl, sv, ac, n, Append(ctl, r), IF f.save THEN sv + 1 ELSE sv)
<1>1. f.fn \notin {"source", "callcc", "top"} BY RecordingIs
<1> QED BY <1>1 DEF Fits, FrameFits

(* The record of the frame that is about to wait.                          *)
LEMMA RecIs ==
  ASSUME IInv, NEW what \in {"args", "body", "bind", "pass"}, NEW k \in 0 .. MaxForms,
         NEW sv \in Nat, NEW r,
         r = Rec(what, k, sv) \/ r = [Rec(what, k, sv) EXCEPT !.guards = @ + 1]
  PROVE  r \in Record /\ r.what = what /\ r.left = k /\ r.depth = active
<1>1. active \in Nat /\ handlers \in Nat BY DEF IInv, TypeOK
<1> QED BY <1>1 DEF Rec, Record

(* What holds wherever a form begins, and wherever a value or a condition  *)
(* is on its way.                                                          *)
LEMMA Facts ==
  ASSUME IInv
  PROVE  /\ Agrees(stack, control, saves, handlers, active, Len(snaps))
         /\ Len(snaps) \in Nat /\ saves \in Nat /\ handlers \in Nat /\ active \in Nat
         /\ escaping \in 0 .. Len(snaps)
         /\ mode # "idle" => stack # <<>>
         /\ mode = "run" => Top.fn = "eval"
         /\ Applying => Top.fn \in {"eval", "settle"} /\ stack # <<>>
         /\ mode # "ok" => parked = FALSE
         /\ Top.fn \notin {"eval", "settle"} => parked = FALSE
<1>1. Len(snaps) \in Nat BY LenProperties DEF IInv, TypeOK
<1> QED BY <1>1, Zenon DEF IInv, TypeOK, ModeFits, Applying, Top

-----------------------------------------------------------------------------
(* A form is evaluated.                                                    *)

LEMMA TopFormKeeps == IInv /\ TopForm => IInv'
<1> SUFFICES ASSUME IInv, TopForm PROVE IInv' OBVIOUS
<1> DEFINE f == Plain("top")
<1>1. stack = <<>> BY DEF IInv, ModeFits, TopForm
<1>2. f \in Frame /\ f.fn = "top" /\ f.id = 0 /\ ~f.save
  BY FramesAreFrames DEF Plain, FrameKind
<1> HIDE DEF f
<1>3. UNCHANGED rows /\ stack' = stack \o <<f, Eval>> /\ active' = active + 1 /\ mode' = "run"
  BY <1>1 DEF TopForm, Enter, f
<1>4. Fits(f, stack, control, saves, active, Len(snaps), control', saves')
  BY <1>1, <1>2, <1>3, Facts, RecordingIs DEF Fits, FrameFits, rows
<1>5. parked' = FALSE BY <1>3, Facts DEF TopForm, rows
<1> QED BY <1>2, <1>3, <1>4, <1>5, Facts, EnterOn DEF rows

LEMMA AnswerKeeps == IInv /\ (Answer \/ Raise \/ Invoke) => IInv'
<1> SUFFICES ASSUME IInv, Answer \/ Raise \/ Invoke PROVE IInv' OBVIOUS
<1>1. /\ UNCHANGED <<stack, control, saves, handlers, active, parked, snaps>>
      /\ mode' \in {"ok", "err"} /\ Applying
  BY DEF Answer, Raise, Invoke, rows
<1>2. escaping' \in 0 .. Len(snaps)
  <2>1. DOMAIN snaps = 1 .. Len(snaps) BY LenProperties DEF IInv, TypeOK
  <2> QED BY <2>1, Facts DEF Answer, Raise, Invoke, rows
<1>3. mode # "ok" BY <1>1 DEF Applying
<1> QED BY <1>1, <1>2, <1>3, Facts, Lands

(* The forms whose frame has no record.                                    *)
LEMMA PlainFormKeeps ==
  ASSUME IInv, NEW f \in Frame, Applying,
         f.fn \in {"nested", "jit"}, f.fn = "nested" => mode = "run",
         f.id = 0, ~f.save, Enter(stack, f), UNCHANGED rows
  PROVE  IInv'
<1>1. f.fn \in Above(Top.fn) BY Facts DEF Above, Enters
<1>2. f.fn \notin Recording \cup {"source", "callcc", "top"} BY RecordingIs
<1>3. Fits(f, stack, control, saves, active, Len(snaps), control', saves')
  BY <1>1, <1>2, Facts, PlainFits DEF rows, Top
<1>4. mode # "ok" BY DEF Applying
<1> QED BY <1>3, <1>4, Facts, EnterOn DEF rows, Enter, Enters

LEMMA EvalNestedKeeps == IInv /\ EvalNested => IInv'
<1>1. Plain("nested") \in Frame BY FramesAreFrames DEF FrameKind
<1> QED BY <1>1, PlainFormKeeps DEF EvalNested, Applying, Plain

LEMMA CallJitKeeps == IInv /\ CallJit => IInv'
<1>1. Plain("jit") \in Frame BY FramesAreFrames DEF FrameKind
<1> QED BY <1>1, PlainFormKeeps DEF CallJit, Plain

(* The forms whose frame has one.                                          *)
LEMMA RecordedFormKeeps ==
  ASSUME IInv, mode = "run", NEW f \in Frame, NEW r \in Record,
         f.fn \in {"args", "bind", "with", "here"},
         f.id = 0, f.save => f.fn = "with", Describes(r, f, active),
         Enter(stack, f), control' = Append(control, r),
         saves' = IF f.save THEN saves + 1 ELSE saves,
         UNCHANGED <<parked, handlers, escaping, snaps>>
  PROVE  IInv'
<1>1. WaitsOn(f, Top) BY Facts DEF WaitsOn, Above, Enters
<1>2. f.fn \in Recording /\ f.fn \in Enters BY RecordingIs DEF Enters
<1>3. Fits(f, stack, control, saves, active, Len(snaps), control', saves')
  BY <1>1, <1>2, Facts, RecordedFits DEF Top
<1> QED BY <1>2, <1>3, Facts, EnterOn DEF Enter

LEMMA EvalArgsKeeps == IInv /\ EvalArgs => IInv'
<1> SUFFICES ASSUME IInv, EvalArgs PROVE IInv' OBVIOUS
<1>1. PICK n \in 1 .. MaxForms :
        /\ control' = Append(control, Rec("args", n - 1, saves))
        /\ Enter(stack, Pending("args", n - 1))
  BY DEF EvalArgs
<1> DEFINE f == Pending("args", n - 1)
           r == Rec("args", n - 1, saves)
<1>2. n - 1 \in 0 .. MaxForms BY BoundAssumption
<1>3. f \in Frame /\ f.fn = "args" /\ f.id = 0 /\ ~f.save /\ f.left = n - 1
  BY <1>2, FramesAreFrames DEF Pending, Plain, FrameKind
<1>4. r \in Record /\ r.what = "args" /\ r.left = n - 1 /\ r.depth = active
  BY <1>2, Facts, RecIs
<1> HIDE DEF f, r
<1>5. Describes(r, f, active) BY <1>3, <1>4 DEF Describes, RecordOf
<1>6. Enter(stack, f) /\ control' = Append(control, r) BY <1>1 DEF f, r
<1>7. mode = "run" /\ UNCHANGED <<parked, saves, handlers, escaping, snaps>> BY DEF EvalArgs
<1> QED BY <1>3, <1>4, <1>5, <1>6, <1>7, RecordedFormKeeps

LEMMA OneFormKeeps == IInv /\ (EvalBind \/ EvalWith \/ EvalHere) => IInv'
<1> SUFFICES ASSUME IInv, EvalBind \/ EvalWith \/ EvalHere PROVE IInv' OBVIOUS
<1>1. 0 \in 0 .. MaxForms BY BoundAssumption
<1>2. CASE EvalBind
  <2> DEFINE f == Plain("bind")
             r == Rec("bind", 0, saves)
  <2>1. f \in Frame /\ f.fn = "bind" /\ f.id = 0 /\ ~f.save /\ f.left = 0
    BY FramesAreFrames DEF Plain, FrameKind
  <2>2. r \in Record /\ r.what = "bind" /\ r.left = 0 /\ r.depth = active
    BY <1>1, Facts, RecIs
  <2> HIDE DEF f, r
  <2>3. Describes(r, f, active) BY <2>1, <2>2 DEF Describes, RecordOf
  <2>4. /\ Enter(stack, f) /\ control' = Append(control, r) /\ mode = "run"
        /\ UNCHANGED <<parked, saves, handlers, escaping, snaps>>
    BY <1>2 DEF EvalBind, f, r
  <2> QED BY <2>1, <2>2, <2>3, <2>4, RecordedFormKeeps
<1>3. CASE EvalWith
  <2> DEFINE f == [Plain("with") EXCEPT !.save = TRUE]
             r == Rec("pass", 0, saves + 1)
  <2>0. Plain("with") \in Frame BY FramesAreFrames DEF FrameKind
  <2>1. f \in Frame /\ f.fn = "with" /\ f.id = 0 /\ f.save /\ f.left = 0
    BY <2>0 DEF Plain, Frame
  <2>2. r \in Record /\ r.what = "pass" /\ r.left = 0 /\ r.depth = active
    <3>1. saves + 1 \in Nat BY Facts
    <3> QED BY <1>1, <3>1, RecIs
  <2> HIDE DEF f, r
  <2>3. Describes(r, f, active) BY <2>1, <2>2 DEF Describes, RecordOf
  <2>4. /\ Enter(stack, f) /\ control' = Append(control, r) /\ mode = "run"
        /\ saves' = saves + 1 /\ UNCHANGED <<parked, handlers, escaping, snaps>>
    BY <1>3 DEF EvalWith, f, r
  <2> QED BY <2>1, <2>2, <2>3, <2>4, RecordedFormKeeps
<1>4. CASE EvalHere
  <2> DEFINE f == Plain("here")
             r == Rec("pass", 0, saves)
  <2>1. f \in Frame /\ f.fn = "here" /\ f.id = 0 /\ ~f.save /\ f.left = 0
    BY FramesAreFrames DEF Plain, FrameKind
  <2>2. r \in Record /\ r.what = "pass" /\ r.left = 0 /\ r.depth = active
    BY <1>1, Facts, RecIs
  <2> HIDE DEF f, r
  <2>3. Describes(r, f, active) BY <2>1, <2>2 DEF Describes, RecordOf
  <2>4. /\ Enter(stack, f) /\ control' = Append(control, r) /\ mode = "run"
        /\ UNCHANGED <<parked, saves, handlers, escaping, snaps>>
    BY <1>4 DEF EvalHere, f, r
  <2> QED BY <2>1, <2>2, <2>3, <2>4, RecordedFormKeeps
<1> QED BY <1>2, <1>3, <1>4

(* The saves that are hidden.                                              *)
LEMMA IncludeKeeps == IInv /\ Include => IInv'
<1> SUFFICES ASSUME IInv, Include PROVE IInv' OBVIOUS
<1>1. PICK n \in 1 .. MaxForms :
        Enter(stack, [Pending("source", n - 1) EXCEPT !.held = saves])
  BY DEF Include
<1> DEFINE f == [Pending("source", n - 1) EXCEPT !.held = saves]
<1>2. n - 1 \in 0 .. MaxForms BY BoundAssumption
<1>3. Pending("source", n - 1) \in Frame BY <1>2, FramesAreFrames DEF FrameKind
<1>4. f \in Frame /\ f.fn = "source" /\ f.id = 0 /\ ~f.save /\ f.held = saves
  BY <1>3, Facts DEF Pending, Plain, Frame
<1> HIDE DEF f
<1>5. /\ Enter(stack, f) /\ mode = "run" /\ saves' = 0
      /\ UNCHANGED <<parked, handlers, control, escaping, snaps>>
  BY <1>1 DEF Include, f
<1>6. WaitsOn(f, Top) BY <1>4, <1>5, Facts DEF WaitsOn, Above, Enters
<1>7. "source" \notin Recording BY RecordingIs
<1>8. Fits(f, stack, control, saves, active, Len(snaps), control', saves')
  BY <1>4, <1>5, <1>6, <1>7, Facts DEF Fits, FrameFits, Top
<1> QED BY <1>4, <1>5, <1>8, Facts, EnterOn DEF Enter

(* A body's forms but the last are walked, the last is parked.             *)
LEMMA BodyTailKeeps ==
  ASSUME IInv, NEW st, NEW hd, NEW n \in 0 .. MaxForms, NEW save \in BOOLEAN,
         Agrees(st, control, saves, hd, active, Len(snaps)), st # <<>>,
         Last(st).fn \in {"eval", "settle"},
         BodyTail(st, n, save), handlers' = hd, parked = FALSE, UNCHANGED <<escaping, snaps>>
  PROVE  IInv'
<1>0. n \in Nat /\ ~(0 > 1) /\ ~(1 > 1) /\ 0 # 1 BY BoundAssumption
<1>1. CASE n = 0 \/ n = 1
  <2>1. /\ stack' = st /\ mode' = "ok" /\ parked' \in BOOLEAN
        /\ UNCHANGED <<saves, control, active>>
    BY <1>0, <1>1, Zenon DEF BodyTail
  <2> QED BY <2>1, Facts, Lands
<1>2. CASE n > 1
  <2> DEFINE f == Walk(n - 1, TRUE, save)
             sv == IF save THEN saves + 1 ELSE saves
             r == Rec("body", n - 1, sv)
  <2>1. n - 1 \in 0 .. MaxForms /\ sv \in Nat BY <1>2, BoundAssumption, Facts
  <2>2. /\ f \in Frame /\ f.fn = "walk" /\ f.id = 0 /\ f.save = save /\ f.left = n - 1
        /\ f.parks = TRUE
    BY <2>1, FramesAreFrames DEF Walk, Plain
  <2>3. r \in Record /\ r.what = "body" /\ r.left = n - 1 /\ r.depth = active
    BY <2>1, RecIs
  <2>4. /\ saves' = sv /\ control' = Append(control, r) /\ Enter(st, f) /\ UNCHANGED parked
    <3>1. n # 0 /\ n # 1 BY <1>0, <1>2
    <3> QED BY <3>1, Zenon DEF BodyTail
  <2> HIDE DEF f, r
  <2>5. Describes(r, f, active) BY <2>2, <2>3 DEF Describes, RecordOf
  <2>6. WaitsOn(f, Last(st)) BY <2>2 DEF WaitsOn, Above, Enters
  <2>7. f.fn \in Recording /\ f.fn \in Enters BY <2>2, RecordingIs DEF Enters
  <2>8. Fits(f, st, control, saves, active, Len(snaps), control', saves')
    BY <2>2, <2>3, <2>4, <2>5, <2>6, <2>7, Facts, RecordedFits
  <2> QED BY <2>4, <2>7, <2>8, EnterOn DEF Enter
<1> QED BY <1>0, <1>1, <1>2

LEMMA ApplyBodyKeeps == IInv /\ ApplyBody => IInv'
<1> SUFFICES ASSUME IInv, ApplyBody PROVE IInv' OBVIOUS
<1>1. PICK n \in 0 .. MaxForms, save \in BOOLEAN : BodyTail(stack, n, save)
  BY DEF ApplyBody
<1>2. Applying /\ mode # "ok" /\ UNCHANGED <<handlers, escaping, snaps>>
  BY DEF ApplyBody, Applying
<1> QED BY <1>1, <1>2, Facts, BodyTailKeeps DEF Top

(* guard: its frame, then the walk.                                        *)
LEMMA EnterGuardKeeps == IInv /\ EnterGuard => IInv'
<1> SUFFICES ASSUME IInv, EnterGuard PROVE IInv' OBVIOUS
<1>1. PICK n \in 1 .. MaxForms :
        /\ control' = Append(control, [Rec("body", n - 1, saves) EXCEPT !.guards = @ + 1])
        /\ Enter(Append(stack, Plain("guard")), Walk(n - 1, FALSE, FALSE))
  BY DEF EnterGuard
<1> DEFINE g == Plain("guard")
           f == Walk(n - 1, FALSE, FALSE)
           r == [Rec("body", n - 1, saves) EXCEPT !.guards = @ + 1]
           st == Append(stack, g)
<1>2. n - 1 \in 0 .. MaxForms BY BoundAssumption
<1>3. g \in Frame /\ g.fn = "guard" /\ g.id = 0 /\ ~g.save
  BY FramesAreFrames DEF Plain, FrameKind
<1>4. /\ f \in Frame /\ f.fn = "walk" /\ f.id = 0 /\ ~f.save /\ f.left = n - 1
      /\ f.parks = FALSE
  BY <1>2, FramesAreFrames DEF Walk, Plain
<1>5. r \in Record /\ r.what = "body" /\ r.left = n - 1 /\ r.depth = active
  BY <1>2, Facts, RecIs
<1>6. /\ mode = "run" /\ Enter(st, f) /\ control' = Append(control, r)
      /\ handlers' = handlers + 1 /\ UNCHANGED <<parked, saves, escaping, snaps>>
  BY <1>1 DEF EnterGuard
<1> HIDE DEF g, f, r
<1>7. Fits(g, stack, control, saves, active, Len(snaps), control, saves)
  <2>1. g.fn \in Above(Top.fn) BY <1>3, <1>6, Facts DEF Above, Enters
  <2>2. g.fn \notin Recording \cup {"source", "callcc", "top"} BY <1>3, RecordingIs
  <2> QED BY <1>3, <1>6, <2>1, <2>2, Facts, PlainFits DEF Top
<1>8. Agrees(st, control, saves, handlers + 1, active, Len(snaps))
  BY <1>3, <1>7, Facts, PushAgrees
<1>9. st # <<>> /\ Last(st) = g
  <2>1. stack \in Seq(Frame) BY Facts DEF Agrees
  <2> QED BY <1>3, <2>1, Pushed
<1> HIDE DEF st
<1>10. Fits(f, st, control, saves, active, Len(snaps), control', saves')
  <2>1. Describes(r, f, active) BY <1>4, <1>5 DEF Describes, RecordOf
  <2>2. WaitsOn(f, Last(st)) BY <1>3, <1>4, <1>9 DEF WaitsOn, Above, Enters
  <2>3. f.fn \in Recording BY <1>4, RecordingIs
  <2> QED BY <1>4, <1>5, <1>6, <1>9, <2>1, <2>2, <2>3, Facts, RecordedFits
<1>11. f.fn \in Enters BY <1>4 DEF Enters
<1> QED BY <1>6, <1>8, <1>10, <1>11, Facts, EnterOn DEF Enter

(* A leaf calls: its frame, then a settle.                                 *)
LEMMA SettleAgrees ==
  ASSUME NEW st, NEW ctl, NEW sv, NEW hd, NEW ac, NEW n \in Nat,
         Agrees(st, ctl, sv, hd, ac, n), st # <<>>, "settle" \in Above(Last(st).fn)
  PROVE  LET t == Append(st, Plain("settle"))
         IN  Agrees(t, ctl, sv, hd, ac, n) /\ t # <<>> /\ Last(t).fn = "settle"
<1> DEFINE f == Plain("settle")
<1>1. f \in Frame /\ f.fn = "settle" /\ f.id = 0 /\ ~f.save
  BY FramesAreFrames DEF Plain, FrameKind
<1> HIDE DEF f
<1>2. f.fn \notin Recording \cup {"source", "callcc", "top"} BY <1>1, RecordingIs
<1>3. Fits(f, st, ctl, sv, ac, n, ctl, sv) BY <1>1, <1>2, PlainFits
<1>4. Agrees(Append(st, f), ctl, sv, hd, ac, n)
  BY <1>1, <1>3, PushAgrees
<1>5. st \in Seq(Frame) BY DEF Agrees
<1>6. Append(st, f) # <<>> /\ Last(Append(st, f)) = f BY <1>1, <1>5, Pushed
<1> QED BY <1>1, <1>4, <1>6 DEF f

LEMMA CallAgrees ==
  ASSUME NEW st, NEW ctl, NEW sv, NEW hd, NEW ac, NEW f, NEW n \in Nat,
         Agrees(st, ctl, sv, hd, ac, n), Fits(f, st, ctl, sv, ac, n, ctl, sv),
         f.fn \in {"callcc", "driver", "hook"}
  PROVE  LET t == st \o <<f, Plain("settle")>>
         IN  Agrees(t, ctl, sv, hd, ac, n) /\ t # <<>> /\ Last(t).fn = "settle"
<1> DEFINE t == Append(st, f)
<1>1. f \in Frame /\ st \in Seq(Frame) BY DEF Fits, Agrees
<1>2. Agrees(t, ctl, sv, hd, ac, n) BY PushAgrees
<1>3. t # <<>> /\ Last(t) = f /\ t \in Seq(Frame) BY <1>1, Pushed
<1>4. Plain("settle") \in Frame BY FramesAreFrames DEF FrameKind
<1>5. st \o <<f, Plain("settle")>> = Append(t, Plain("settle"))
  <2>1. t = st \o <<f>> BY <1>1, AppendIsConcat
  <2> QED BY <1>1, <1>4, <2>1
<1> HIDE DEF t
<1>6. "settle" \in Above(Last(t).fn) BY <1>3 DEF Above, Enters
<1> QED BY <1>2, <1>3, <1>5, <1>6, SettleAgrees

LEMMA CallLeafKeeps == IInv /\ (CallHandler \/ CallDriver \/ CallHook) => IInv'
<1> SUFFICES ASSUME IInv, CallHandler \/ CallDriver \/ CallHook PROVE IInv' OBVIOUS
<1>1. Applying /\ mode # "ok" /\ mode' = "apply" /\ UNCHANGED <<active, rows>>
  BY DEF CallHandler, CallDriver, CallHook, Applying
<1>2. CASE CallHandler
  <2>1. stack' = Append(stack, Plain("settle")) BY <1>2 DEF CallHandler
  <2>2. "settle" \in Above(Top.fn) BY <1>1, Facts DEF Above, Enters
  <2>3. /\ Agrees(stack', control, saves, handlers, active, Len(snaps))
        /\ stack' # <<>> /\ Last(stack').fn = "settle"
    BY <1>1, <2>1, <2>2, Facts, SettleAgrees DEF Top
  <2> QED BY <1>1, <2>3, Facts, Lands DEF rows
<1>3. ASSUME NEW fn \in {"driver", "hook"}, stack' = stack \o <<Plain(fn), Plain("settle")>>
      PROVE  IInv'
  <2> DEFINE f == Plain(fn)
  <2>1. f \in Frame /\ f.fn = fn /\ f.id = 0 /\ ~f.save
    BY FramesAreFrames DEF Plain, FrameKind
  <2> HIDE DEF f
  <2>2. f.fn \in Above(Top.fn) BY <1>1, <2>1, Facts DEF Above, Enters
  <2>3. f.fn \notin Recording \cup {"source", "callcc", "top"} BY <2>1, RecordingIs
  <2>4. Fits(f, stack, control, saves, active, Len(snaps), control, saves)
    BY <1>1, <2>1, <2>2, <2>3, Facts, PlainFits DEF Top
  <2>5. stack' = stack \o <<f, Plain("settle")>> BY <1>3 DEF f
  <2>6. /\ Agrees(stack', control, saves, handlers, active, Len(snaps))
        /\ stack' # <<>> /\ Last(stack').fn = "settle"
    BY <2>1, <2>4, <2>5, Facts, CallAgrees
  <2> QED BY <1>1, <2>6, Facts, Lands DEF rows
<1> QED BY <1>2, <1>3 DEF CallDriver, CallHook

-----------------------------------------------------------------------------
(* A continuation is captured.                                             *)

(* What the records of a complete capture leave out.  There is one record  *)
(* for each evaluation below the innermost, and the frame that has it is   *)
(* directly below the next one.  So is an operative: where it waits there  *)
(* is no room for a record at its depth.                                   *)
LEMMA CaptureSees ==
  ASSUME IInv, Applying
  PROVE  OperativeSeen(Capture)
<1> SUFFICES ASSUME CoversEveryFrame(control, active),
                    \A f \in Range(stack) : f.fn # "replay",
                    NEW g \in Range(stack), Unrecorded(g), g.fn \notin {"driver", "hook"}
             PROVE  FALSE
  BY DEF OperativeSeen, Capture
<1>1. Agrees(stack, control, saves, handlers, active, Len(snaps)) /\ stack # <<>>
      /\ Top.fn \in {"eval", "settle"}
  BY Facts
<1>2. stack \in Seq(Frame) /\ Len(stack) \in Nat \ {0} /\ DOMAIN stack = 1 .. Len(stack)
      /\ Top = stack[Len(stack)]
  <2>1. stack \in Seq(Frame) BY <1>1 DEF Agrees
  <2> QED BY <1>1, <2>1, FrontAndLast DEF Top
<1>0. stack[Len(stack)].fn = "eval" \/ stack[Len(stack)].fn = "settle" BY <1>1, <1>2
<1>3. PICK j \in 1 .. Len(stack) : stack[j] = g BY <1>2 DEF Range
<1>4. ASSUME NEW i \in 1 .. Len(stack) PROVE stack[i].fn # "replay"
  BY <1>2 DEF Range
<1>5. stack[j].fn \in {"nested", "source", "jit", "refill"}
  BY <1>3, <1>4 DEF Unrecorded
<1>6. stack[1].fn = "top" /\ \A i \in 2 .. Len(stack) : WaitsOn(stack[i], stack[i - 1])
  BY <1>1, Zenon DEF Agrees
<1>7. ASSUME NEW i \in 1 .. Len(stack) - 1,
             stack[i].fn \in {"top", "source"} \cup Enters
      PROVE  stack[i + 1].fn = "eval"
  <2>1. i + 1 \in 2 .. Len(stack) /\ i + 1 \in 1 .. Len(stack) /\ (i + 1) - 1 = i
    BY <1>2
  <2>2. stack[i + 1].fn \in Above(stack[i].fn) BY <1>6, <2>1 DEF WaitsOn
  <2>3. stack[i + 1].fn # "replay" BY <1>4, <2>1
  <2>4. ASSUME NEW fn \in {"top", "source"} \cup Enters
        PROVE  Above(fn) \subseteq {"eval", "replay"}
    BY DEF Above, Enters
  <2>5. stack[i + 1].fn \in {"eval", "replay"} BY <1>7, <2>2, <2>4, Zenon
  <2> QED BY <2>3, <2>5, Zenon
<1>8. j \in 2 .. Len(stack) - 1
  <2>0. stack[Len(stack)].fn \notin {"nested", "source", "jit", "refill"} BY <1>0
  <2>1. j # Len(stack) BY <2>0, <1>5, Zenon
  <2>2. j # 1 BY <1>5, <1>6
  <2>3. Len(stack) \in Nat BY <1>2
  <2> QED BY <2>1, <2>2, <2>3
<1> DEFINE E(i) == Count(stack, i, {"eval"})
<1>9. \A i \in 0 .. Len(stack) : E(i) \in Nat BY <1>2, CountType
<1>10. ASSUME NEW i \in 1 .. Len(stack), stack[i].fn = "eval" PROVE E(i) = E(i - 1) + 1
  <2>1. i \in Nat \ {0} BY <1>2
  <2> QED BY <1>10, <2>1, CountStep
<1>11. E(j) >= 1
  <2>1. stack[2].fn = "eval" /\ 2 \in 1 .. Len(stack) /\ 1 \in 0 .. Len(stack)
    <3>1. 1 \in 1 .. Len(stack) - 1 /\ 1 + 1 = 2 BY <1>2, <1>8
    <3> QED BY <1>2, <1>6, <1>7, <1>8, <3>1
  <2>2. E(2) = E(1) + 1 BY <1>10, <2>1
  <2>3. E(2) <= E(j) BY <1>8, CountGrows
  <2> QED BY <1>8, <1>9, <2>1, <2>2, <2>3
<1>12. stack[j + 1].fn = "eval" BY <1>5, <1>7, <1>8 DEF Enters
<1>13. E(j + 1) = E(j) + 1
  <2>1. j + 1 \in 1 .. Len(stack) /\ (j + 1) - 1 = j BY <1>8
  <2> QED BY <1>10, <1>12, <2>1
<1>14. E(j + 1) <= active
  <2>1. active = E(Len(stack)) BY <1>1, Zenon DEF Agrees
  <2>2. j + 1 \in Nat /\ j + 1 <= Len(stack) /\ Len(stack) \in Nat BY <1>2, <1>8
  <2>3. E(j + 1) <= E(Len(stack)) BY <2>2, CountGrows
  <2> QED BY <2>1, <2>3
<1>15. PICK d \in Nat : d = E(j) BY <1>8, <1>9
<1> HIDE DEF E
<1>16. control \in Seq(Record) /\ active \in Nat
       /\ Len(control) = Count(stack, Len(stack), Recording)
       /\ \A i \in 1 .. Len(stack) : stack[i].fn \in Recording =>
            Describes(control[Count(stack, i, Recording)], stack[i], E(i))
  BY <1>1, Zenon DEF Agrees, E
<1>17. d \in 1 .. Len(control) /\ control[d].depth = d
  <2>1. Len(control) = active - 1 /\ \A i \in DOMAIN control : control[i].depth = i
    BY DEF CoversEveryFrame
  <2>2. DOMAIN control = 1 .. Len(control) BY <1>16, LenProperties
  <2>3. d \in 1 .. Len(control) BY <1>11, <1>13, <1>14, <1>15, <1>16, <2>1
  <2> QED BY <2>1, <2>2, <2>3
<1>18. PICK i \in 1 .. Len(stack) : stack[i].fn \in Recording /\ Count(stack, i, Recording) = d
  <2>1. d \in 1 .. Count(stack, Len(stack), Recording) BY <1>16, <1>17
  <2> QED BY <1>2, <2>1, NthExists
<1>19. E(i) = d
  <2>1. Describes(control[d], stack[i], E(i)) BY <1>16, <1>18
  <2> QED BY <1>17, <2>1 DEF Describes
<1>20. stack[i].fn \in Enters BY <1>18, RecordingIs DEF Enters
<1>21. i \in 1 .. Len(stack) - 1
  <2>0. stack[Len(stack)].fn \notin Enters BY <1>0 DEF Enters
  <2>1. i # Len(stack) BY <2>0, <1>20, Zenon
  <2>2. Len(stack) \in Nat BY <1>2
  <2> QED BY <2>1, <2>2
<1>22. stack[i + 1].fn = "eval" BY <1>7, <1>20, <1>21
<1>23. E(i + 1) = d + 1
  <2>1. i + 1 \in 1 .. Len(stack) /\ (i + 1) - 1 = i BY <1>21
  <2> QED BY <1>10, <1>19, <1>22, <2>1
<1>24. i + 1 = j + 1
  <2>1. Count(stack, i + 1, {"eval"}) = Count(stack, j + 1, {"eval"})
    BY <1>13, <1>15, <1>23 DEF E
  <2>2. i + 1 \in Nat /\ j + 1 \in Nat BY <1>8, <1>21
  <2> QED BY <1>12, <1>22, <2>1, <2>2, NthIsOne
<1>25. i = j BY <1>8, <1>21, <1>24
<1> QED BY <1>5, <1>18, <1>25, RecordingIs

LEMMA CallCCKeeps == IInv /\ CallCC => IInv'
<1> SUFFICES ASSUME IInv, CallCC PROVE IInv' OBVIOUS
<1> DEFINE f == [Plain("callcc") EXCEPT !.id = Len(snaps) + 1]
           n == Len(snaps) + 1
<1>1. /\ Applying /\ mode # "ok" /\ mode' = "apply" /\ Len(snaps) < MaxConts
      /\ snaps' = Append(snaps, Capture)
      /\ UNCHANGED <<parked, saves, handlers, control, active, escaping>>
      /\ stack' = stack \o <<f, Plain("settle")>>
  BY DEF CallCC, Applying
<1>2. snaps \in Seq(Snapshot) /\ Len(snaps) \in Nat BY Facts DEF IInv, TypeOK
<1>3. n \in Nat /\ n \in 0 .. MaxConts /\ n # 0 BY <1>1, <1>2, BoundAssumption
<1>4. f \in Frame /\ f.fn = "callcc" /\ f.id = n /\ ~f.save
  <2>1. Plain("callcc") \in Frame BY FramesAreFrames DEF FrameKind
  <2> QED BY <1>3, <2>1 DEF Plain, Frame
<1>5. Capture \in Snapshot
  <2>1. control \in Seq(Record) /\ stack \in Seq(Frame) BY DEF IInv, TypeOK
  <2>2. CoversEveryFrame(control, active) \in BOOLEAN
        /\ (\E g \in Range(stack) : g.fn = "replay") \in BOOLEAN
    BY Zenon DEF CoversEveryFrame
  <2>3. ASSUME NEW g \in Range(stack) PROVE g.fn \in FrameKind
    <3>1. PICK i \in DOMAIN stack : g = stack[i] BY DEF Range
    <3>2. g \in Frame
      <4>1. DOMAIN stack = 1 .. Len(stack) BY <2>1, LenProperties
      <4> QED BY <2>1, <3>1, <4>1, ElementOfSeq
    <3> QED BY <3>2 DEF Frame
  <2>4. {g.fn : g \in {g \in Range(stack) : Unrecorded(g)}} \in SUBSET FrameKind
    BY <2>3
  <2> QED BY <2>1, <2>2, <2>4 DEF Capture, Snapshot
<1>6. /\ snaps' \in Seq(Snapshot) /\ Len(snaps') = n
      /\ \A k \in 1 .. Len(snaps) : snaps'[k] = snaps[k]
      /\ snaps'[n] = Capture /\ DOMAIN snaps' = 1 .. n /\ DOMAIN snaps = 1 .. Len(snaps)
  BY <1>1, <1>2, <1>5, Pushed
<1>7. \A k \in DOMAIN snaps' : OperativeSeen(snaps'[k])
  <2>1. OperativeSeen(Capture) BY <1>1, CaptureSees
  <2>2. ASSUME NEW k \in 1 .. n PROVE OperativeSeen(snaps'[k])
    <3>1. CASE k = n BY <1>6, <2>1, <3>1
    <3>2. CASE k # n
      <4>1. k \in 1 .. Len(snaps) BY <1>2, <3>2
      <4> QED BY <1>6, <4>1 DEF IInv
    <3> QED BY <3>1, <3>2
  <2> QED BY <1>6, <2>2
<1> HIDE DEF f
<1>8. Agrees(stack, control, saves, handlers, active, n)
  <2>1. Agrees(stack, control, saves, handlers, active, Len(snaps)) BY Facts
  <2>2. \A i \in 1 .. Len(stack) : FrameFits(stack[i]) /\ stack[i].id <= n
    <3>1. ASSUME NEW i \in 1 .. Len(stack) PROVE stack[i].id <= n
      <4>1. stack[i].id <= Len(snaps) BY <2>1, Zenon DEF Agrees
      <4>2. stack[i] \in Frame
        <5>1. stack \in Seq(Frame) BY DEF IInv, TypeOK
        <5> QED BY <5>1, ElementOfSeq
      <4>3. stack[i].id \in Nat BY <4>2, BoundAssumption DEF Frame
      <4> QED BY <1>2, <4>1, <4>3
    <3> QED BY <2>1, <3>1, Zenon DEF Agrees
  <2> QED BY <2>1, <2>2, Zenon DEF Agrees
<1>9. Fits(f, stack, control, saves, active, n, control, saves)
  <2>1. WaitsOn(f, Top) BY <1>1, <1>4, Facts DEF WaitsOn, Above, Enters
  <2>2. f.fn \notin Recording BY <1>4, RecordingIs
  <2> QED BY <1>1, <1>3, <1>4, <2>1, <2>2, Facts DEF Fits, FrameFits, Top
<1>10. /\ Agrees(stack', control, saves, handlers, active, n)
       /\ stack' # <<>> /\ Last(stack').fn = "settle"
  BY <1>1, <1>3, <1>4, <1>8, <1>9, CallAgrees
<1>11. TypeOK'
  <2>1. stack' \in Seq(Frame) /\ control' \in Seq(Record) /\ saves' \in Nat
        /\ handlers' \in Nat /\ active' \in Nat
    BY <1>1, <1>10, Zenon DEF Agrees
  <2>2. mode' \in {"idle", "run", "apply", "ok", "err"} /\ Len(snaps') <= MaxConts
        /\ escaping' \in 0 .. Len(snaps')
    BY <1>1, <1>2, <1>3, <1>6, Facts
  <2>3. parked' \in BOOLEAN BY <1>1 DEF IInv, TypeOK
  <2> QED BY <1>6, <2>1, <2>2, <2>3, Zenon DEF TypeOK
<1>12. ModeFits(stack', mode', parked')
  BY <1>1, <1>10, Facts DEF ModeFits
<1> QED BY <1>1, <1>6, <1>7, <1>10, <1>11, <1>12, Zenon DEF IInv

-----------------------------------------------------------------------------
(* A frame gets a value, or is unwound.                                    *)

LEMMA AboveIs ==
  ASSUME NEW f, NEW g, WaitsOn(f, g)
  PROVE  /\ f.fn \in {"nested", "args", "bind", "with", "here", "guard", "source"}
              => g.fn = "eval"
         /\ f.fn = "walk" /\ f.parks => g.fn \in {"eval", "settle"}
<1>1. f.fn \in Above(g.fn) BY DEF WaitsOn
<1>2. f.fn \in {"nested", "args", "bind", "with", "here", "guard", "source"} => g.fn = "eval"
  BY <1>1 DEF Above, Enters
<1> QED BY <1>2, Zenon DEF WaitsOn

(* The top frame without guard, evaluation or load is left.                *)
LEMMA LeaveAgrees ==
  ASSUME IInv, stack # <<>>, Top.fn \notin {"top", "source", "guard", "eval"},
         NEW a, Leave(a)
  PROVE  /\ Agrees(stack', control', saves', handlers, active, Len(snaps))
         /\ stack' # <<>> /\ WaitsOn(Top, Last(stack')) /\ mode' = a
<1>1. Agrees(stack, control, saves, handlers, active, Len(snaps)) BY Facts
<1>2. /\ Agrees(Front(stack), IF Top.fn \in Recording THEN Front(control) ELSE control,
                IF Top.save THEN saves - 1 ELSE saves, handlers, active, Len(snaps))
      /\ Front(stack) # <<>> /\ WaitsOn(Top, Last(Front(stack)))
  BY <1>1, PopAgrees DEF Top
<1> QED BY <1>2, Zenon DEF Leave, Recorded

LEMMA LeaveKeeps ==
  ASSUME IInv, stack # <<>>, Top.fn \notin {"top", "source", "guard", "eval"},
         NEW a \in {"ok", "err", "run", "apply"}, Leave(a),
         a \in {"run", "apply"} => Top.fn \in {"nested", "args"},
         parked' \in BOOLEAN,
         parked' => a = "ok" /\ Top.fn = "walk" /\ Top.parks,
         handlers' = handlers, active' = active, snaps' = snaps,
         escaping' \in 0 .. Len(snaps)
  PROVE  IInv'
<1>1. /\ Agrees(stack', control', saves', handlers', active', Len(snaps))
      /\ stack' # <<>> /\ WaitsOn(Top, Last(stack')) /\ mode' = a
  BY LeaveAgrees
<1>2. Top.fn \in {"nested", "args"} => Last(stack').fn = "eval" BY <1>1, AboveIs
<1>3. Top.fn = "walk" /\ Top.parks => Last(stack').fn \in {"eval", "settle"}
  BY <1>1, AboveIs
<1>4. /\ mode' = "run" => Last(stack').fn = "eval"
      /\ mode' = "apply" => Last(stack').fn \in {"eval", "settle"}
  BY <1>1, <1>2
<1>5. parked' => mode' = "ok" /\ Last(stack').fn \in {"eval", "settle"}
  BY <1>1, <1>3
<1> QED BY <1>1, <1>4, <1>5, Lands

(* The frames that leave with what they got, and those that are unwound.   *)
LEMMA OnlyLeaveKeeps ==
  IInv /\ (NestedDone \/ BindDone \/ ValueDone \/ UnwindFrame \/ Swallow \/ ReplayDone)
    => IInv'
<1> SUFFICES ASSUME IInv, NestedDone \/ BindDone \/ ValueDone \/ UnwindFrame \/ Swallow
                          \/ ReplayDone
             PROVE  IInv'
  OBVIOUS
<1>1. /\ stack # <<>> /\ UNCHANGED <<parked, handlers, active, escaping, snaps>>
      /\ Top.fn \in {"nested", "args", "walk", "bind", "with", "here", "settle", "driver",
                     "replay", "refill", "callcc", "jit", "hook"}
      /\ mode = "err" \/ Top.fn # "settle"
      /\ Leave("ok") \/ Leave("err") \/ (Leave("run") /\ Top.fn = "nested")
  BY DEF NestedDone, BindDone, ValueDone, UnwindFrame, Swallow, ReplayDone, Gets, Fails
<1>2. parked' = FALSE
  <2>1. mode = "err" \/ Top.fn \notin {"eval", "settle"} BY <1>1
  <2>2. parked = FALSE BY <2>1, Facts
  <2> QED BY <1>1, <2>2
<1>3. Top.fn \notin {"top", "source", "guard", "eval"} BY <1>1
<1>4. escaping' \in 0 .. Len(snaps) BY <1>1, Facts
<1> QED BY <1>1, <1>2, <1>3, <1>4, LeaveKeeps

LEMMA CallCCFailsKeeps == IInv /\ CallCCFails => IInv'
<1> SUFFICES ASSUME IInv, CallCCFails PROVE IInv' OBVIOUS
<1>1. /\ stack # <<>> /\ mode = "err" /\ Top.fn = "callcc"
      /\ UNCHANGED <<parked, handlers, active, snaps>>
      /\ Leave("ok") \/ Leave("err")
      /\ escaping' = 0 \/ escaping' = escaping
  BY DEF CallCCFails, Fails
<1>2. parked' = FALSE BY <1>1, Facts
<1>3. escaping' \in 0 .. Len(snaps) BY <1>1, Facts
<1> QED BY <1>1, <1>2, <1>3, LeaveKeeps

(* An evaluation is over, or goes on with a parked tail.                   *)
LEMMA PopEval ==
  ASSUME IInv, stack # <<>>, Top.fn = "eval"
  PROVE  /\ Agrees(Front(stack), control, saves, handlers, active - 1, Len(snaps))
         /\ Front(stack) # <<>>
<1>1. Agrees(stack, control, saves, handlers, active, Len(snaps)) BY Facts
<1>2. FrameFits(Top) BY <1>1, PopAgrees DEF Top
<1>3. ~Top.save BY <1>2 DEF FrameFits
<1>4. "eval" \notin Recording BY RecordingIs
<1>5. Agrees(Front(stack),
             IF Top.fn \in Recording THEN Front(control) ELSE control,
             IF Top.fn = "source" THEN Top.held ELSE IF Top.save THEN saves - 1 ELSE saves,
             IF Top.fn = "guard" THEN handlers - 1 ELSE handlers,
             IF Top.fn = "eval" THEN active - 1 ELSE active, Len(snaps))
      /\ (IF Top.fn = "top" THEN Front(stack) = <<>>
          ELSE Front(stack) # <<>> /\ WaitsOn(Top, Last(Front(stack))))
  BY <1>1, PopAgrees DEF Top
<1> QED BY <1>3, <1>4, <1>5

LEMMA TrampolineKeeps == IInv /\ (Trampoline \/ UnwindEval) => IInv'
<1> SUFFICES ASSUME IInv, Trampoline \/ UnwindEval PROVE IInv' OBVIOUS
<1>1. /\ stack # <<>> /\ Top.fn = "eval" /\ UNCHANGED <<saves, handlers, control, escaping, snaps>>
  BY DEF Trampoline, UnwindEval, Gets, Fails, rows
<1>2. CASE Trampoline /\ parked
  <2>1. parked' = FALSE /\ mode' = "run" /\ UNCHANGED <<stack, active>>
    BY <1>2, Zenon DEF Trampoline
  <2> QED BY <1>1, <2>1, Facts, Lands DEF Top
<1>3. CASE (Trampoline /\ ~parked) \/ UnwindEval
  <2>1. /\ parked' = FALSE /\ mode' \in {"ok", "err"} /\ stack' = Front(stack)
        /\ active' = active - 1
    <3>1. CASE Trampoline /\ ~parked BY <3>1, Zenon DEF Trampoline
    <3>2. CASE UnwindEval
      <4>1. mode = "err" /\ UNCHANGED <<mode, rows>> /\ stack' = Front(stack)
            /\ active' = active - 1
        BY <3>2 DEF UnwindEval, Fails
      <4> QED BY <4>1, Facts DEF rows
    <3> QED BY <1>3, <3>1, <3>2
  <2>2. Agrees(stack', control', saves', handlers', active', Len(snaps)) /\ stack' # <<>>
    BY <1>1, <2>1, PopEval
  <2> QED BY <1>1, <2>1, <2>2, Facts, Lands
<1> QED BY <1>2, <1>3

LEMMA SettleKeeps == IInv /\ Settle => IInv'
<1> SUFFICES ASSUME IInv, Settle PROVE IInv' OBVIOUS
<1>1. /\ stack # <<>> /\ Top.fn = "settle" /\ parked' = FALSE
      /\ UNCHANGED <<saves, handlers, control, escaping, snaps>>
  BY DEF Settle, Gets
<1>2. CASE parked
  <2>1. mode' = "run" /\ stack' = Append(stack, Eval) /\ active' = active + 1
    BY <1>2, Zenon DEF Settle
  <2>2. Eval \in Frame /\ Eval.fn = "eval" /\ ~Eval.save /\ Eval.id = 0
    BY FramesAreFrames DEF Eval, Plain, FrameKind
  <2>3. Fits(Eval, stack, control, saves, active, Len(snaps), control, saves)
    <3>1. Eval.fn \in Above(Top.fn) BY <1>1, <2>2 DEF Above, Enters
    <3>2. Eval.fn \notin Recording \cup {"source", "callcc", "top"} BY <2>2, RecordingIs
    <3> QED BY <1>1, <2>2, <3>1, <3>2, Facts, PlainFits DEF Top
  <2>4. Agrees(stack', control, saves, handlers, active + 1, Len(snaps))
    BY <2>1, <2>2, <2>3, Facts, PushAgrees
  <2>5. stack' # <<>> /\ Last(stack').fn = "eval"
    <3>1. stack \in Seq(Frame) BY DEF IInv, TypeOK
    <3> QED BY <2>1, <2>2, <3>1, Pushed
  <2> QED BY <1>1, <2>1, <2>4, <2>5, Facts, Lands
<1>3. CASE ~parked
  <2>1. mode' = "ok" /\ stack' = Front(stack) /\ UNCHANGED active
    BY <1>3, Zenon DEF Settle
  <2>2. Agrees(stack, control, saves, handlers, active, Len(snaps)) BY Facts
  <2>3. FrameFits(Top) BY <1>1, <2>2, PopAgrees DEF Top
  <2>4. ~Top.save /\ ~Recorded(Top) BY <1>1, <2>3, RecordingIs DEF FrameFits, Recorded
  <2>5. Leave("ok") BY <1>1, <2>1, <2>4, Zenon DEF Leave
  <2> QED BY <1>1, <2>1, <2>5, Facts, LeaveKeeps
<1> QED BY <1>2, <1>3

(* The same frame waits again, with one form less to do: it is popped and  *)
(* pushed.                                                                 *)
LEMMA LessToDo ==
  ASSUME IInv, stack # <<>>, NEW f, f = [Top EXCEPT !.left = @ - 1], Top.left # 0
  PROVE  /\ f \in Frame /\ f.left = Top.left - 1 /\ Top.left - 1 \in 0 .. MaxForms
         /\ f.fn = Top.fn /\ f.save = Top.save /\ f.parks = Top.parks /\ f.held = Top.held
         /\ f.id = Top.id /\ FrameFits(f)
<1>1. Top \in Frame /\ FrameFits(Top) BY Facts, PopAgrees DEF Top
<1>2. Top.left \in 0 .. MaxForms BY <1>1 DEF Frame
<1>3. Top.left - 1 \in 0 .. MaxForms BY <1>2, BoundAssumption
<1>4. /\ f \in Frame /\ f.left = Top.left - 1
      /\ f.fn = Top.fn /\ f.save = Top.save /\ f.parks = Top.parks /\ f.held = Top.held
      /\ f.id = Top.id
  BY <1>1, <1>3 DEF Frame
<1>5. FrameFits(f) BY <1>1, <1>4 DEF FrameFits
<1> QED BY <1>3, <1>4, <1>5

LEMMA ArgDoneKeeps == IInv /\ ArgDone => IInv'
<1> SUFFICES ASSUME IInv, ArgDone PROVE IInv' OBVIOUS
<1>1. /\ mode = "ok" /\ stack # <<>> /\ Top.fn = "args"
      /\ UNCHANGED <<parked, handlers, escaping, snaps>>
  BY DEF ArgDone, Gets
<1>2. parked' = FALSE BY <1>1, Facts
<1>3. CASE Top.left = 0
  <2>1. Leave("apply") /\ UNCHANGED active BY <1>3, Zenon DEF ArgDone
  <2> QED BY <1>1, <1>2, <2>1, Facts, LeaveKeeps
<1>4. CASE Top.left # 0
  <2> DEFINE f == [Top EXCEPT !.left = @ - 1]
             r == Rec("args", Top.left - 1, saves)
             st == Front(stack)
  <2>1. /\ f \in Frame /\ f.left = Top.left - 1 /\ Top.left - 1 \in 0 .. MaxForms
        /\ f.fn = "args" /\ f.save = Top.save /\ f.id = Top.id /\ FrameFits(f)
    BY <1>1, <1>4, LessToDo
  <2>2. r \in Record /\ r.what = "args" /\ r.left = Top.left - 1 /\ r.depth = active
    BY <2>1, Facts, RecIs
  <2>3. /\ control' = Append(Front(control), r) /\ stack' = st \o <<f, Eval>>
        /\ active' = active + 1 /\ mode' = "run" /\ saves' = saves
    BY <1>4, Zenon DEF ArgDone, Again
  <2> HIDE DEF f, r
  <2>4. /\ Agrees(st, Front(control), saves, handlers, active, Len(snaps))
        /\ st # <<>> /\ WaitsOn(Top, Last(st)) /\ Top.id <= Len(snaps) /\ ~Top.save
    <3>1. FrameFits(Top) BY <1>1, Facts, PopAgrees DEF Top
    <3>2. ~Top.save BY <1>1, <3>1 DEF FrameFits
    <3>3. Top.fn \in Recording BY <1>1, RecordingIs
    <3> QED BY <1>1, <3>2, <3>3, Facts, PopAgrees DEF Top
  <2> HIDE DEF st
  <2>5. Fits(f, st, Front(control), saves, active, Len(snaps), control', saves')
    <3>1. Describes(r, f, active) BY <2>1, <2>2 DEF Describes, RecordOf
    <3>2. WaitsOn(f, Last(st)) BY <1>1, <2>1, <2>4 DEF WaitsOn
    <3>3. f.fn \in Recording BY <2>1, RecordingIs
    <3> QED BY <2>1, <2>2, <2>3, <2>4, <3>1, <3>2, <3>3 DEF Fits
  <2>6. f.fn \in Enters BY <2>1 DEF Enters
  <2> QED BY <1>1, <1>2, <2>3, <2>4, <2>5, <2>6, EnterOn
<1> QED BY <1>3, <1>4

LEMMA FormDoneKeeps == IInv /\ FormDone => IInv'
<1> SUFFICES ASSUME IInv, FormDone PROVE IInv' OBVIOUS
<1>1. /\ mode = "ok" /\ stack # <<>> /\ Top.fn = "walk"
      /\ UNCHANGED <<handlers, escaping, snaps>>
  BY DEF FormDone, Gets
<1>2. parked = FALSE BY <1>1, Facts
<1>3. CASE Top.left = 1 /\ Top.parks /\ parked' = TRUE /\ Leave("ok") /\ UNCHANGED active
  BY <1>1, <1>3, Facts, LeaveKeeps
<1>4. CASE Leave("ok") /\ UNCHANGED <<parked, active>>
  BY <1>1, <1>2, <1>4, Facts, LeaveKeeps
<1>5. ASSUME Top.left > 1 \/ (Top.left = 1 /\ ~Top.parks),
             control' = Append(Front(control), Rec("body", Top.left - 1, saves)),
             Again([Top EXCEPT !.left = @ - 1]), UNCHANGED <<parked, saves>>
      PROVE  IInv'
  <2> DEFINE f == [Top EXCEPT !.left = @ - 1]
             r == Rec("body", Top.left - 1, saves)
             st == Front(stack)
             sv == IF Top.save THEN saves - 1 ELSE saves
  <2>0. Top.left # 0 BY <1>5
  <2>1. /\ f \in Frame /\ f.left = Top.left - 1 /\ Top.left - 1 \in 0 .. MaxForms
        /\ f.fn = "walk" /\ f.save = Top.save /\ f.parks = Top.parks /\ f.id = Top.id
        /\ FrameFits(f)
    BY <1>1, <2>0, LessToDo
  <2>2. r \in Record /\ r.what = "body" /\ r.left = Top.left - 1 /\ r.depth = active
    BY <2>1, Facts, RecIs
  <2>3. /\ control' = Append(Front(control), r) /\ stack' = st \o <<f, Eval>>
        /\ active' = active + 1 /\ mode' = "run" /\ saves' = saves /\ parked' = FALSE
    BY <1>2, <1>5 DEF Again
  <2> HIDE DEF f, r
  <2>4. /\ Agrees(st, Front(control), sv, handlers, active, Len(snaps))
        /\ st # <<>> /\ WaitsOn(Top, Last(st)) /\ Top.id <= Len(snaps)
    <3>1. Top.fn \in Recording BY <1>1, RecordingIs
    <3> QED BY <1>1, <3>1, Facts, PopAgrees DEF Top
  <2>5. sv \in Nat BY <2>4, Zenon DEF Agrees
  <2>6. saves = IF Top.save THEN sv + 1 ELSE sv BY Facts
  <2> HIDE DEF st, sv
  <2>7. Fits(f, st, Front(control), sv, active, Len(snaps), control', saves')
    <3>1. Describes(r, f, active) BY <2>1, <2>2 DEF Describes, RecordOf
    <3>2. WaitsOn(f, Last(st)) BY <1>1, <2>1, <2>4 DEF WaitsOn
    <3>3. f.fn \in Recording BY <2>1, RecordingIs
    <3> QED BY <2>1, <2>2, <2>3, <2>4, <2>6, <3>1, <3>2, <3>3 DEF Fits
  <2>8. f.fn \in Enters BY <2>1 DEF Enters
  <2> QED BY <1>1, <2>3, <2>4, <2>7, <2>8, EnterOn
<1> QED BY <1>3, <1>4, <1>5, Zenon DEF FormDone

(* guard: the row comes off first, whichever way the body ended.           *)
LEMMA PopGuard ==
  ASSUME IInv, stack # <<>>, Top.fn = "guard"
  PROVE  /\ Agrees(Front(stack), control, saves, handlers - 1, active, Len(snaps))
         /\ Front(stack) # <<>> /\ Last(Front(stack)).fn = "eval"
         /\ ~Top.save /\ ~Recorded(Top)
<1>1. Agrees(stack, control, saves, handlers, active, Len(snaps)) BY Facts
<1>2. FrameFits(Top) BY <1>1, PopAgrees DEF Top
<1>3. ~Top.save BY <1>2 DEF FrameFits
<1>4. "guard" \notin Recording BY RecordingIs
<1>5. Agrees(Front(stack),
             IF Top.fn \in Recording THEN Front(control) ELSE control,
             IF Top.fn = "source" THEN Top.held ELSE IF Top.save THEN saves - 1 ELSE saves,
             IF Top.fn = "guard" THEN handlers - 1 ELSE handlers,
             IF Top.fn = "eval" THEN active - 1 ELSE active, Len(snaps))
      /\ (IF Top.fn = "top" THEN Front(stack) = <<>>
          ELSE Front(stack) # <<>> /\ WaitsOn(Top, Last(Front(stack))))
  BY <1>1, PopAgrees DEF Top
<1>6. Last(Front(stack)).fn = "eval" BY <1>5, AboveIs
<1> QED BY <1>3, <1>4, <1>5, <1>6 DEF Recorded

LEMMA GuardLeavesKeeps == IInv /\ (GuardDone \/ GuardFails) => IInv'
<1> SUFFICES ASSUME IInv, GuardDone \/ GuardFails PROVE IInv' OBVIOUS
<1>1. /\ stack # <<>> /\ Top.fn = "guard" /\ handlers' = handlers - 1
      /\ UNCHANGED <<escaping, snaps>>
  BY DEF GuardDone, GuardFails, Gets, Fails
<1>2. parked = FALSE BY <1>1, Facts
<1>3. ASSUME NEW a \in {"ok", "err"}, Leave(a), UNCHANGED <<parked, active>> PROVE IInv'
  <2>1. stack' = Front(stack) /\ mode' = a /\ control' = control /\ saves' = saves
    BY <1>1, <1>3, PopGuard, Zenon DEF Leave
  <2>2. Agrees(stack', control', saves', handlers', active', Len(snaps)) /\ stack' # <<>>
    BY <1>1, <1>3, <2>1, PopGuard
  <2> QED BY <1>1, <1>2, <1>3, <2>1, <2>2, Facts, Lands
<1>4. ASSUME NEW n \in 0 .. MaxForms, BodyTail(Front(stack), n, FALSE) PROVE IInv'
  BY <1>1, <1>2, <1>4, PopGuard, BodyTailKeeps
<1> QED BY <1>3, <1>4, Zenon DEF GuardDone, GuardFails

LEMMA DriverDoneKeeps == IInv /\ DriverDone => IInv'
<1> SUFFICES ASSUME IInv, DriverDone PROVE IInv' OBVIOUS
<1>1. /\ mode = "ok" /\ stack # <<>> /\ Top.fn = "driver"
      /\ UNCHANGED <<parked, handlers, active, escaping, snaps>>
  BY DEF DriverDone, Gets
<1>2. parked' = FALSE BY <1>1, Facts
<1>3. CASE Leave("ok") \/ Leave("err")
  BY <1>1, <1>2, <1>3, Facts, LeaveKeeps
<1>4. CASE stack' = Append(stack, Plain("settle")) /\ mode' = "apply" /\ UNCHANGED <<saves, control>>
  <2>1. "settle" \in Above(Top.fn) BY <1>1 DEF Above, Enters
  <2>2. /\ Agrees(stack', control, saves, handlers, active, Len(snaps))
        /\ stack' # <<>> /\ Last(stack').fn = "settle"
    BY <1>1, <1>4, <2>1, Facts, SettleAgrees DEF Top
  <2> QED BY <1>1, <1>2, <1>4, <2>2, Facts, Lands
<1> QED BY <1>3, <1>4, Zenon DEF DriverDone

(* A file's forms, and its end.                                            *)
LEMMA PopSource ==
  ASSUME IInv, stack # <<>>, Top.fn = "source"
  PROVE  /\ Agrees(Front(stack), control, Top.held, handlers, active, Len(snaps))
         /\ Front(stack) # <<>> /\ WaitsOn(Top, Last(Front(stack))) /\ Top.id <= Len(snaps)
         /\ FrameFits(Top) /\ saves = 0 /\ parked = FALSE
<1>1. Agrees(stack, control, saves, handlers, active, Len(snaps)) BY Facts
<1>2. "source" \notin Recording BY RecordingIs
<1>3. /\ Agrees(Front(stack),
                IF Top.fn \in Recording THEN Front(control) ELSE control,
                IF Top.fn = "source" THEN Top.held ELSE IF Top.save THEN saves - 1 ELSE saves,
                IF Top.fn = "guard" THEN handlers - 1 ELSE handlers,
                IF Top.fn = "eval" THEN active - 1 ELSE active, Len(snaps))
      /\ (IF Top.fn = "top" THEN Front(stack) = <<>>
          ELSE Front(stack) # <<>> /\ WaitsOn(Top, Last(Front(stack))))
      /\ FrameFits(Top) /\ Top.id <= Len(snaps)
  BY <1>1, PopAgrees DEF Top
<1>4. saves = 0
  <2>1. stack \in Seq(Frame) /\ saves = SavesUnder(stack, Len(stack)) BY <1>1, Zenon DEF Agrees
  <2>2. Len(stack) \in Nat \ {0} /\ Top = stack[Len(stack)] BY <2>1, FrontAndLast DEF Top
  <2> QED BY <2>1, <2>2, SavesStep
<1> QED BY <1>2, <1>3, <1>4, Facts

LEMMA SourceKeeps == IInv /\ (SourceFormDone \/ SourceReadFails \/ SourceFails) => IInv'
<1> SUFFICES ASSUME IInv, SourceFormDone \/ SourceReadFails \/ SourceFails PROVE IInv'
  OBVIOUS
<1>1. /\ stack # <<>> /\ Top.fn = "source" /\ mode \in {"ok", "err"}
      /\ UNCHANGED <<parked, handlers, control, snaps>>
  BY DEF SourceFormDone, SourceReadFails, SourceFails, Gets, Fails
<1>2. parked' = FALSE BY <1>1, PopSource
<1>3. escaping' \in 0 .. Len(snaps)
  <2>1. DOMAIN snaps = 1 .. Len(snaps) BY LenProperties DEF IInv, TypeOK
  <2> QED BY <2>1, Facts DEF SourceFormDone, SourceReadFails, SourceFails
<1>4. ASSUME stack' = Front(stack), saves' = Top.held, mode' \in {"ok", "err"},
             UNCHANGED active
      PROVE  IInv'
  BY <1>1, <1>2, <1>3, <1>4, PopSource, Lands
<1>5. CASE SourceFormDone /\ Top.left > 0
  <2> DEFINE f == [Top EXCEPT !.left = @ - 1]
             st == Front(stack)
  <2>1. stack' = st \o <<f, Eval>> /\ active' = active + 1 /\ mode' = "run" /\ saves' = saves
        /\ escaping' = escaping
    BY <1>5, Zenon DEF SourceFormDone, Again
  <2>2. Top.left # 0 BY <1>5
  <2>3. /\ f \in Frame /\ f.fn = "source" /\ f.save = Top.save /\ f.held = Top.held
        /\ f.id = Top.id /\ FrameFits(f)
    BY <1>1, <2>2, LessToDo
  <2> HIDE DEF f, st
  <2>4. /\ Agrees(st, control, Top.held, handlers, active, Len(snaps))
        /\ st # <<>> /\ WaitsOn(Top, Last(st)) /\ Top.id <= Len(snaps)
        /\ FrameFits(Top) /\ saves = 0
    BY <1>1, PopSource DEF st
  <2>5. Fits(f, st, control, Top.held, active, Len(snaps), control', saves')
    <3>1. WaitsOn(f, Last(st)) BY <1>1, <2>3, <2>4 DEF WaitsOn
    <3>2. f.fn \notin Recording BY <2>3, RecordingIs
    <3> QED BY <1>1, <2>1, <2>3, <2>4, <3>1, <3>2 DEF Fits
  <2>6. f.fn \in Enters \cup {"top", "source"} BY <2>3
  <2> QED BY <1>1, <1>2, <2>1, <2>4, <2>5, <2>6, EnterOn
<1>6. CASE SourceFormDone /\ ~(Top.left > 0)
  BY <1>1, <1>4, <1>6, Zenon DEF SourceFormDone
<1>7. CASE SourceReadFails BY <1>4, <1>7 DEF SourceReadFails
<1>8. CASE SourceFails BY <1>1, <1>4, <1>8 DEF SourceFails
<1> QED BY <1>5, <1>6, <1>7, <1>8

(* A top-level form is over: the stack and all its rows are empty.         *)
LEMMA PopTop ==
  ASSUME IInv, stack # <<>>, Top.fn = "top"
  PROVE  /\ Agrees(<<>>, control, saves, handlers, active, Len(snaps))
         /\ parked = FALSE
<1>1. Agrees(stack, control, saves, handlers, active, Len(snaps)) BY Facts
<1>2. "top" \notin Recording BY RecordingIs
<1>3. FrameFits(Top) BY <1>1, PopAgrees DEF Top
<1>4. ~Top.save BY <1>3 DEF FrameFits
<1>5. /\ Agrees(Front(stack),
                IF Top.fn \in Recording THEN Front(control) ELSE control,
                IF Top.fn = "source" THEN Top.held ELSE IF Top.save THEN saves - 1 ELSE saves,
                IF Top.fn = "guard" THEN handlers - 1 ELSE handlers,
                IF Top.fn = "eval" THEN active - 1 ELSE active, Len(snaps))
      /\ (IF Top.fn = "top" THEN Front(stack) = <<>>
          ELSE Front(stack) # <<>> /\ WaitsOn(Top, Last(Front(stack))))
  BY <1>1, PopAgrees DEF Top
<1> QED BY <1>2, <1>4, <1>5, Facts

LEMMA TopLeavesKeeps == IInv /\ (TopDone \/ TopFails) => IInv'
<1> SUFFICES ASSUME IInv, TopDone \/ TopFails PROVE IInv' OBVIOUS
<1>1. /\ stack # <<>> /\ Top.fn = "top" /\ stack' = <<>> /\ mode' = "idle"
      /\ UNCHANGED <<parked, saves, handlers, control, active, escaping, snaps>>
  BY DEF TopDone, TopFails, Gets, Fails, rows
<1>2. Agrees(stack', control', saves', handlers', active', Len(snaps')) /\ parked' = FALSE
  BY <1>1, PopTop
<1>3. ModeFits(stack', mode', parked') BY <1>1, <1>2 DEF ModeFits
<1>4. TypeOK'
  <2>1. stack' \in Seq(Frame) BY <1>2, Zenon DEF Agrees
  <2>2. TypeOK BY DEF IInv
  <2> QED BY <1>1, <2>1, <2>2 DEF TypeOK
<1>5. \A k \in DOMAIN snaps' : OperativeSeen(snaps'[k]) BY <1>1 DEF IInv
<1> QED BY <1>2, <1>3, <1>4, <1>5, Zenon DEF IInv

(* A snapshot is taken up on the frame the escape has reached.             *)
LEMMA ResumeEscapeKeeps == IInv /\ ResumeEscape => IInv'
<1> SUFFICES ASSUME IInv, ResumeEscape PROVE IInv' OBVIOUS
<1>1. /\ stack # <<>> /\ Top.fn \in {"top", "source"} /\ mode = "err"
      /\ escaping # 0 /\ escaping' = 0
      /\ UNCHANGED <<parked, saves, handlers, control, active, snaps>>
  BY DEF ResumeEscape, Fails
<1>2. parked' = FALSE /\ escaping' \in 0 .. Len(snaps) BY <1>1, Facts
<1>3. CASE UNCHANGED <<stack, mode>>
  BY <1>1, <1>2, <1>3, Facts, Lands
<1>4. CASE /\ stack' = Append(stack, [Plain("replay") EXCEPT !.recs = snaps[escaping].recs])
           /\ mode' = "ok"
  <2> DEFINE f == [Plain("replay") EXCEPT !.recs = snaps[escaping].recs]
  <2>1. snaps[escaping].recs \in Seq(Record)
    <3>1. snaps \in Seq(Snapshot) BY DEF IInv, TypeOK
    <3>2. escaping \in 1 .. Len(snaps) BY <1>1, Facts
    <3>3. snaps[escaping] \in Snapshot BY <3>1, <3>2, ElementOfSeq
    <3> QED BY <3>3 DEF Snapshot
  <2>2. f \in Frame /\ f.fn = "replay" /\ f.id = 0 /\ ~f.save
    <3>1. Plain("replay") \in Frame BY FramesAreFrames DEF FrameKind
    <3> QED BY <2>1, <3>1 DEF Plain, Frame
  <2>3. stack' = Append(stack, f) BY <1>4
  <2> HIDE DEF f
  <2>4. f.fn \in Above(Top.fn)
    <3>1. "replay" \in Above("top") /\ "replay" \in Above("source") BY DEF Above, Enters
    <3> QED BY <1>1, <2>2, <3>1
  <2>5. f.fn \notin Recording \cup {"source", "callcc", "top"} BY <2>2, RecordingIs
  <2>6. Fits(f, stack, control, saves, active, Len(snaps), control, saves)
    BY <1>1, <2>2, <2>4, <2>5, Facts, PlainFits DEF Top
  <2>7. Agrees(stack', control, saves, handlers, active, Len(snaps))
    BY <2>2, <2>3, <2>6, Facts, PushAgrees
  <2>8. stack' # <<>>
    <3>1. stack \in Seq(Frame) BY DEF IInv, TypeOK
    <3> QED BY <2>2, <2>3, <3>1, Pushed
  <2> QED BY <1>1, <1>2, <1>4, <2>7, <2>8, Lands
<1> QED BY <1>3, <1>4, Zenon DEF ResumeEscape

-----------------------------------------------------------------------------
(* A replay.                                                               *)

(* A frame that pushed nothing on the rows is left.                        *)
LEMMA PopReplay ==
  ASSUME IInv, stack # <<>>, Top.fn \in {"replay", "refill"}
  PROVE  /\ Agrees(Front(stack), control, saves, handlers, active, Len(snaps))
         /\ Front(stack) # <<>> /\ WaitsOn(Top, Last(Front(stack)))
         /\ Top \in Frame /\ FrameFits(Top) /\ ~Top.save /\ Top.id <= Len(snaps)
         /\ parked = FALSE
<1>1. Agrees(stack, control, saves, handlers, active, Len(snaps)) BY Facts
<1>2. Top.fn \notin Recording \cup {"source", "guard", "eval", "top", "settle"}
  BY RecordingIs
<1>3. FrameFits(Top) BY <1>1, PopAgrees DEF Top
<1>4. ~Top.save BY <1>3 DEF FrameFits
<1>5. /\ Agrees(Front(stack),
                IF Top.fn \in Recording THEN Front(control) ELSE control,
                IF Top.fn = "source" THEN Top.held ELSE IF Top.save THEN saves - 1 ELSE saves,
                IF Top.fn = "guard" THEN handlers - 1 ELSE handlers,
                IF Top.fn = "eval" THEN active - 1 ELSE active, Len(snaps))
      /\ (IF Top.fn = "top" THEN Front(stack) = <<>>
          ELSE Front(stack) # <<>> /\ WaitsOn(Top, Last(Front(stack))))
      /\ Top \in Frame /\ Top.id <= Len(snaps)
  BY <1>1, PopAgrees DEF Top
<1>6. parked = FALSE BY <1>2, Facts
<1> QED BY <1>2, <1>3, <1>4, <1>5, <1>6

(* Its innermost record is taken off.                                      *)
LEMMA TakeInnermost ==
  ASSUME IInv, stack # <<>>, Top.fn = "replay", Top.recs # <<>>
  PROVE  /\ Agrees(WithoutIt, control, saves, handlers, active, Len(snaps))
         /\ WithoutIt # <<>> /\ Last(WithoutIt).fn = "replay"
         /\ Innermost \in Record
<1> DEFINE f == [Top EXCEPT !.recs = Front(@)]
           st == Front(stack)
<1>1. /\ Agrees(st, control, saves, handlers, active, Len(snaps))
      /\ st # <<>> /\ WaitsOn(Top, Last(st))
      /\ Top \in Frame /\ FrameFits(Top) /\ Top.id <= Len(snaps) /\ ~Top.save
  BY PopReplay
<1>2. Top.recs \in Seq(Record) BY <1>1 DEF Frame
<1>3. Front(Top.recs) \in Seq(Record) /\ Innermost \in Record
  BY <1>2, FrontAndLast DEF Innermost
<1>4. f \in Frame /\ f.fn = "replay" /\ f.save = Top.save /\ f.id = Top.id
  BY <1>1, <1>3 DEF Frame
<1>5. WithoutIt = Append(st, f) BY DEF WithoutIt
<1> HIDE DEF f, st
<1>6. Fits(f, st, control, saves, active, Len(snaps), control, saves)
  <2>1. WaitsOn(f, Last(st)) BY <1>1, <1>4 DEF WaitsOn
  <2>2. f.fn \notin Recording BY <1>4, RecordingIs
  <2>3. FrameFits(f)
    <3>1. Top.id = 0 BY <1>1 DEF FrameFits
    <3> QED BY <1>1, <1>4, <3>1 DEF FrameFits
  <2> QED BY <1>1, <1>4, <2>1, <2>2, <2>3 DEF Fits
<1>7. Agrees(Append(st, f), control, saves, handlers, active, Len(snaps))
  BY <1>1, <1>4, <1>6, PushAgrees
<1>8. Append(st, f) # <<>> /\ Last(Append(st, f)) = f
  <2>1. st \in Seq(Frame) BY <1>1, Zenon DEF Agrees
  <2> QED BY <1>4, <2>1, Pushed
<1> QED BY <1>3, <1>4, <1>5, <1>7, <1>8

LEMMA ResumeKeeps == IInv /\ (ResumePass \/ ResumeBind \/ ResumeBody \/ ResumeArgs) => IInv'
<1> SUFFICES ASSUME IInv, ResumePass \/ ResumeBind \/ ResumeBody \/ ResumeArgs PROVE IInv'
  OBVIOUS
<1>1. /\ stack # <<>> /\ Top.fn = "replay" /\ Top.recs # <<>>
      /\ UNCHANGED <<parked, saves, handlers, escaping, snaps>>
  BY DEF ResumePass, ResumeBind, ResumeBody, ResumeArgs, Replaying, Gets, rows
<1>2. /\ Agrees(WithoutIt, control, saves, handlers, active, Len(snaps))
      /\ WithoutIt # <<>> /\ Last(WithoutIt).fn = "replay" /\ Innermost \in Record
      /\ parked' = FALSE
  BY <1>1, TakeInnermost, PopReplay
<1>3. Innermost.left \in 0 .. MaxForms BY <1>2 DEF Record
<1>4. ASSUME stack' = WithoutIt, mode' \in {"ok", "err"}, UNCHANGED <<active, rows>>
      PROVE  IInv'
  BY <1>1, <1>2, <1>4, Facts, Lands DEF rows
<1>5. CASE ResumePass
  <2>1. mode = "ok" BY <1>5 DEF ResumePass, Replaying, Gets
  <2> QED BY <1>4, <1>5, <2>1 DEF ResumePass
<1>6. CASE ResumeBind BY <1>4, <1>6 DEF ResumeBind
<1>7. CASE ResumeBody
  <2> DEFINE f == Walk(Innermost.left - 1, FALSE, FALSE)
             r == Rec("body", Innermost.left - 1, saves)
             st == WithoutIt
  <2>1. Innermost.left - 1 \in 0 .. MaxForms BY <1>3, <1>7, BoundAssumption DEF ResumeBody
  <2>2. /\ f \in Frame /\ f.fn = "walk" /\ f.id = 0 /\ ~f.save
        /\ f.left = Innermost.left - 1 /\ f.parks = FALSE
    BY <2>1, FramesAreFrames DEF Walk, Plain
  <2>3. r \in Record /\ r.what = "body" /\ r.left = Innermost.left - 1 /\ r.depth = active
    BY <2>1, Facts, RecIs
  <2>4. control' = Append(control, r) /\ Enter(st, f) BY <1>7 DEF ResumeBody
  <2> HIDE DEF f, r, st
  <2>5. /\ Agrees(st, control, saves, handlers, active, Len(snaps))
        /\ st # <<>> /\ Last(st).fn = "replay"
    BY <1>2 DEF st
  <2>6. Fits(f, st, control, saves, active, Len(snaps), control', saves')
    <3>1. Describes(r, f, active) BY <2>2, <2>3 DEF Describes, RecordOf
    <3>2. WaitsOn(f, Last(st)) BY <2>2, <2>5 DEF WaitsOn, Above, Enters
    <3>3. f.fn \in Recording BY <2>2, RecordingIs
    <3> QED BY <1>1, <2>2, <2>3, <2>4, <2>5, <3>1, <3>2, <3>3, Facts, RecordedFits
  <2>7. f.fn \in Enters BY <2>2 DEF Enters
  <2> QED BY <1>1, <1>2, <2>4, <2>5, <2>6, <2>7, Facts, EnterOn DEF Enter
<1>8. CASE ResumeArgs /\ Innermost.left = 0
  <2>1. /\ stack' = Append(WithoutIt, Plain("settle")) /\ mode' = "apply"
        /\ UNCHANGED active /\ UNCHANGED rows
    BY <1>8, Zenon DEF ResumeArgs
  <2>2. "settle" \in Above(Last(WithoutIt).fn) BY <1>2 DEF Above, Enters
  <2>3. /\ Agrees(stack', control, saves, handlers, active, Len(snaps))
        /\ stack' # <<>> /\ Last(stack').fn = "settle"
    BY <1>2, <2>1, <2>2, Facts, SettleAgrees
  <2> QED BY <1>1, <1>2, <2>1, <2>3, Facts, Lands DEF rows
<1>9. CASE ResumeArgs /\ Innermost.left # 0
  <2> DEFINE f == Pending("refill", Innermost.left - 1)
             st == WithoutIt
  <2>1. Innermost.left - 1 \in 0 .. MaxForms BY <1>3, <1>9, BoundAssumption
  <2>2. f \in Frame /\ f.fn = "refill" /\ f.id = 0 /\ ~f.save
    BY <2>1, FramesAreFrames DEF Pending, Plain, FrameKind
  <2>3. Enter(st, f) /\ UNCHANGED rows BY <1>9, Zenon DEF ResumeArgs
  <2> HIDE DEF f, st
  <2>5. /\ Agrees(st, control, saves, handlers, active, Len(snaps))
        /\ st # <<>> /\ Last(st).fn = "replay"
    BY <1>2 DEF st
  <2>6. Fits(f, st, control, saves, active, Len(snaps), control', saves')
    <3>1. f.fn \in Above(Last(st).fn) BY <2>2, <2>5 DEF Above, Enters
    <3>2. f.fn \notin Recording \cup {"source", "callcc", "top"} BY <2>2, RecordingIs
    <3> QED BY <2>2, <2>3, <2>5, <3>1, <3>2, Facts, PlainFits DEF rows
  <2>7. f.fn \in Enters BY <2>2 DEF Enters
  <2> QED BY <1>1, <1>2, <2>3, <2>5, <2>6, <2>7, Facts, EnterOn DEF Enter
<1> QED BY <1>5, <1>6, <1>7, <1>8, <1>9

LEMMA RefillDoneKeeps == IInv /\ RefillDone => IInv'
<1> SUFFICES ASSUME IInv, RefillDone PROVE IInv' OBVIOUS
<1> DEFINE st == Front(stack)
           f == [Top EXCEPT !.left = @ - 1]
<1>1. stack # <<>> /\ Top.fn = "refill" /\ mode = "ok" /\ UNCHANGED rows
  BY DEF RefillDone, Gets
<1>2. /\ Agrees(st, control, saves, handlers, active, Len(snaps))
      /\ st # <<>> /\ WaitsOn(Top, Last(st)) /\ ~Top.save /\ Top.id <= Len(snaps)
      /\ parked = FALSE
  BY <1>1, PopReplay
<1>3. Last(st).fn = "replay" BY <1>1, <1>2 DEF WaitsOn, Above, Enters
<1>4. CASE Top.left = 0
  <2>1. stack' = Append(st, Plain("settle")) /\ mode' = "apply" /\ UNCHANGED active
    BY <1>4, Zenon DEF RefillDone
  <2>2. "settle" \in Above(Last(st).fn) BY <1>3 DEF Above, Enters
  <2>3. /\ Agrees(stack', control, saves, handlers, active, Len(snaps))
        /\ stack' # <<>> /\ Last(stack').fn = "settle"
    BY <1>2, <2>1, <2>2, Facts, SettleAgrees
  <2> QED BY <1>1, <1>2, <2>1, <2>3, Facts, Lands DEF rows
<1>5. CASE Top.left # 0
  <2>1. stack' = st \o <<f, Eval>> /\ active' = active + 1 /\ mode' = "run"
    BY <1>5, Zenon DEF RefillDone, Again
  <2>2. f \in Frame /\ f.fn = "refill" /\ f.save = Top.save /\ f.id = Top.id /\ FrameFits(f)
    BY <1>1, <1>5, LessToDo
  <2> HIDE DEF f, st
  <2>3. Fits(f, st, control, saves, active, Len(snaps), control', saves')
    <3>1. WaitsOn(f, Last(st)) BY <1>1, <1>2, <2>2 DEF WaitsOn
    <3>2. f.fn \notin Recording BY <2>2, RecordingIs
    <3> QED BY <1>1, <1>2, <2>2, <3>1, <3>2 DEF Fits, rows
  <2>4. f.fn \in Enters BY <2>2 DEF Enters
  <2> QED BY <1>1, <1>2, <2>1, <2>3, <2>4, EnterOn DEF rows
<1> QED BY <1>4, <1>5

-----------------------------------------------------------------------------
(* The invariant.                                                          *)

LEMMA InitAgrees == Init => IInv
<1> SUFFICES ASSUME Init PROVE IInv OBVIOUS
<1>1. /\ stack = <<>> /\ control = <<>> /\ snaps = <<>> /\ mode = "idle" /\ parked = FALSE
      /\ saves = 0 /\ handlers = 0 /\ active = 0 /\ escaping = 0
  BY DEF Init
<1>2. stack \in Seq(Frame) /\ control \in Seq(Record) /\ snaps \in Seq(Snapshot)
      /\ Len(stack) = 0 /\ Len(control) = 0 /\ Len(snaps) = 0
  BY <1>1, EmptySeq
<1>3. TypeOK
  <2>1. escaping \in 0 .. Len(snaps) /\ Len(snaps) <= MaxConts
    BY <1>1, <1>2, BoundAssumption
  <2>2. saves \in Nat /\ handlers \in Nat /\ active \in Nat /\ parked \in BOOLEAN
        /\ mode \in {"idle", "run", "apply", "ok", "err"}
    BY <1>1
  <2> QED BY <1>2, <2>1, <2>2, Zenon DEF TypeOK
<1>4. Agrees(stack, control, saves, handlers, active, Len(snaps))
  <2>1. \A K : Count(stack, 0, K) = 0 BY CountType
  <2>2. SavesUnder(stack, 0) = 0 BY 1 \in Nat \ {0}, SavesStep
  <2> QED BY <1>1, <1>2, <2>1, <2>2 DEF Agrees
<1>5. ModeFits(stack, mode, parked) BY <1>1 DEF ModeFits
<1>6. \A k \in DOMAIN snaps : OperativeSeen(snaps[k])
  BY <1>1, <1>2, EmptySeq
<1> QED BY <1>3, <1>4, <1>5, <1>6 DEF IInv

LEMMA NextKeeps == IInv /\ [Next]_vars => IInv'
<1> SUFFICES ASSUME IInv, [Next]_vars PROVE IInv' OBVIOUS
<1>1. CASE UNCHANGED vars
  BY <1>1, Zenon DEF vars, IInv, TypeOK
<1>2. CASE TopForm BY <1>2, TopFormKeeps
<1>3. CASE Form
  BY <1>3, AnswerKeeps, EvalNestedKeeps, EvalArgsKeeps, ApplyBodyKeeps, EnterGuardKeeps,
     OneFormKeeps, IncludeKeeps, CallLeafKeeps, CallJitKeeps, CallCCKeeps, Zenon DEF Form
<1>4. CASE Value
  BY <1>4, TrampolineKeeps, SettleKeeps, OnlyLeaveKeeps, ArgDoneKeeps, FormDoneKeeps,
     GuardLeavesKeeps, DriverDoneKeeps, SourceKeeps, TopLeavesKeeps, Zenon DEF Value
<1>5. CASE Unwind
  BY <1>5, TrampolineKeeps, OnlyLeaveKeeps, GuardLeavesKeeps, CallCCFailsKeeps,
     ResumeEscapeKeeps, TopLeavesKeeps, SourceKeeps, Zenon DEF Unwind
<1>6. CASE Resume
  BY <1>6, OnlyLeaveKeeps, ResumeKeeps, RefillDoneKeeps, Zenon DEF Resume
<1> QED BY <1>1, <1>2, <1>3, <1>4, <1>5, <1>6 DEF Next

(* The rows agree with the stack, the mode with its top, and every capture *)
(* has seen its operatives.                                                *)
THEOREM InductiveInvariant == Spec => []IInv
BY InitAgrees, NextKeeps, PTL DEF Spec

(* Every variable keeps its type, and every frame and record its range,    *)
(* whatever the program.                                                   *)
THEOREM TypeCorrect == Spec => []TypeOK
<1>1. IInv => TypeOK BY DEF IInv
<1> QED BY <1>1, InductiveInvariant, PTL

(* On every way out of every form the rows beside the stack -- evaluations,*)
(* handlers, saves since the innermost load, control records -- are those  *)
(* of the frames that wait on it.                                          *)
THEOREM RowsAgree == Spec => []RowsMatchStack
<1>1. IInv => RowsMatchStack
  <2> SUFFICES ASSUME IInv PROVE RowsMatchStack OBVIOUS
  <2>1. stack \in Seq(Frame) /\ Agrees(stack, control, saves, handlers, active, Len(snaps))
    BY DEF IInv, TypeOK
  <2>2. DOMAIN stack = 1 .. Len(stack) BY <2>1, LenProperties
  <2> QED BY <2>1, <2>2, Zenon DEF Agrees, RowsMatchStack
<1> QED BY <1>1, InductiveInvariant, PTL

(* A parked tail waits only for the trampoline or the settle that takes it.*)
THEOREM TailTaken == Spec => []TailIsTaken
<1>1. IInv => TailIsTaken BY Zenon DEF IInv, ModeFits, TailIsTaken, Top
<1> QED BY <1>1, InductiveInvariant, PTL

(* A capture that passes for complete left out no operative, no load and   *)
(* no machine code: one record for each depth leaves no room for a frame   *)
(* without one.                                                            *)
THEOREM OperativesSeen == Spec => []OperativesAreSeen
<1>1. IInv => OperativesAreSeen BY DEF IInv, OperativeSeen, OperativesAreSeen
<1> QED BY <1>1, InductiveInvariant, PTL

-----------------------------------------------------------------------------
(* Extents.                                                                *)

Marks == {"guard", "callcc"}

(* The extents open on the stack `st'.                                     *)
ExtentsOf(st) ==
  [n \in 1 .. Count(st, Len(st), Marks) |->
     st[CHOOSE i \in DOMAIN st : st[i].fn \in Marks /\ Count(st, i, Marks) = n].id]

LEMMA ExtentsAre == Extents = ExtentsOf(stack)
BY Zenon DEF Extents, ExtentsOf, Marks

(* Each mark is the extent of its number.                                  *)
LEMMA MarkIs ==
  ASSUME NEW st \in Seq(Frame), NEW i \in 1 .. Len(st), st[i].fn \in Marks
  PROVE  /\ Count(st, i, Marks) \in 1 .. Count(st, Len(st), Marks)
         /\ ExtentsOf(st)[Count(st, i, Marks)] = st[i].id
<1>1. Len(st) \in Nat /\ DOMAIN st = 1 .. Len(st) BY LenProperties
<1>2. i \in Nat \ {0} /\ i <= Len(st) BY <1>1
<1>3. /\ Count(st, i - 1, Marks) \in Nat /\ Count(st, Len(st), Marks) \in Nat
      /\ Count(st, i, Marks) = Count(st, i - 1, Marks) + 1
      /\ Count(st, i, Marks) <= Count(st, Len(st), Marks)
  <2>1. i - 1 \in Nat BY <1>2
  <2> QED BY <1>1, <1>2, <2>1, CountType, CountStep, CountGrows
<1> PICK n : n = Count(st, i, Marks) OBVIOUS
<1>4. n \in 1 .. Count(st, Len(st), Marks) BY <1>3
<1> DEFINE k == CHOOSE k \in DOMAIN st : st[k].fn \in Marks /\ Count(st, k, Marks) = n
<1>5. k \in DOMAIN st /\ st[k].fn \in Marks /\ Count(st, k, Marks) = n
  <2>1. i \in DOMAIN st /\ st[i].fn \in Marks /\ Count(st, i, Marks) = n BY <1>1
  <2> QED BY <2>1
<1>6. k = i
  <2>1. k \in Nat BY <1>1, <1>5
  <2> HIDE DEF k
  <2> QED BY <1>2, <1>5, <2>1, NthIsOne
<1>7. ExtentsOf(st)[n] = st[k].id BY <1>4, Zenon DEF ExtentsOf
<1> QED BY <1>4, <1>6, <1>7

(* The extents are those of the marks, as many and in their order.         *)
LEMMA ExtentsType ==
  ASSUME NEW st \in Seq(Frame)
  PROVE  /\ ExtentsOf(st) \in Seq(0 .. MaxConts)
         /\ Len(ExtentsOf(st)) = Count(st, Len(st), Marks)
         /\ \A n \in 1 .. Len(ExtentsOf(st)) : \E i \in 1 .. Len(st) :
              /\ st[i].fn \in Marks /\ Count(st, i, Marks) = n
              /\ ExtentsOf(st)[n] = st[i].id
<1>1. Len(st) \in Nat /\ Count(st, Len(st), Marks) \in Nat BY LenProperties, CountType
<1> PICK c \in Nat : c = Count(st, Len(st), Marks) BY <1>1
<1>2. ASSUME NEW n \in 1 .. c
      PROVE  \E i \in 1 .. Len(st) : /\ st[i].fn \in Marks /\ Count(st, i, Marks) = n
                                     /\ ExtentsOf(st)[n] = st[i].id
  <2>1. PICK i \in 1 .. Len(st) : st[i].fn \in Marks /\ Count(st, i, Marks) = n
    BY <1>1, NthExists
  <2>2. ExtentsOf(st)[n] = st[i].id BY <2>1, MarkIs
  <2> QED BY <2>1, <2>2
<1>3. \A n \in 1 .. c : ExtentsOf(st)[n] \in 0 .. MaxConts
  <2> TAKE n \in 1 .. c
  <2>1. PICK i \in 1 .. Len(st) : ExtentsOf(st)[n] = st[i].id BY <1>2
  <2>2. st[i] \in Frame BY ElementOfSeq
  <2> QED BY <2>1, <2>2 DEF Frame
<1>4. ExtentsOf(st) = [n \in 1 .. c |-> ExtentsOf(st)[n]] BY DEF ExtentsOf
<1> PICK e : e = ExtentsOf(st) OBVIOUS
<1>5. e \in [1 .. c -> 0 .. MaxConts] BY <1>3, <1>4
<1>6. e \in Seq(0 .. MaxConts)
  <2>1. [1 .. c -> 0 .. MaxConts] \in {[1 .. n -> 0 .. MaxConts] : n \in Nat} OBVIOUS
  <2>2. Seq(0 .. MaxConts) = UNION {[1 .. n -> 0 .. MaxConts] : n \in Nat} BY SeqDef
  <2> QED BY <1>5, <2>1, <2>2, Zenon
<1>7. Len(e) = c
  <2>1. DOMAIN e = 1 .. c /\ DOMAIN e = 1 .. Len(e) /\ Len(e) \in Nat
    BY <1>5, <1>6, LenProperties
  <2> QED BY <2>1
<1> QED BY <1>2, <1>6, <1>7

(* A frame that marks an extent adds it, another adds none.                *)
LEMMA ExtentsPush ==
  ASSUME NEW st \in Seq(Frame), NEW f \in Frame
  PROVE  ExtentsOf(Append(st, f)) = IF f.fn \in Marks THEN Append(ExtentsOf(st), f.id)
                                    ELSE ExtentsOf(st)
<1> DEFINE t == Append(st, f)
           e == ExtentsOf(st)
           u == ExtentsOf(t)
           v == IF f.fn \in Marks THEN Append(e, f.id) ELSE e
<1>1. /\ t \in Seq(Frame) /\ Len(st) \in Nat /\ Len(t) = Len(st) + 1
      /\ \A i \in 1 .. Len(st) : t[i] = st[i]
      /\ t[Len(st) + 1] = f
  BY Pushed
<1> HIDE DEF t
<1>2. /\ \A i \in 0 .. Len(st) : Count(t, i, Marks) = Count(st, i, Marks)
      /\ f.fn \in Marks => Count(t, Len(st) + 1, Marks) = Count(st, Len(st), Marks) + 1
      /\ f.fn \notin Marks => Count(t, Len(st) + 1, Marks) = Count(st, Len(st), Marks)
  <2> PICK m : m = Len(st) OBVIOUS
  <2>1. OneMore(st, t, f, m) BY <1>1 DEF OneMore
  <2>2. ASSUME NEW i \in 0 .. m PROVE Count(t, i, Marks) = Count(st, i, Marks)
    <3>1. i \in Nat /\ \A j \in 1 .. i : t[j] = st[j] BY <1>1
    <3> QED BY <3>1, CountSame
  <2>3. f.fn \in Marks => Count(t, m + 1, Marks) = Count(st, m, Marks) + 1
    BY <2>1, CountPush
  <2>4. f.fn \notin Marks => Count(t, m + 1, Marks) = Count(st, m, Marks)
    BY <2>1, CountPush
  <2> QED BY <2>2, <2>3, <2>4
<1>3. /\ e \in Seq(0 .. MaxConts) /\ Len(e) = Count(st, Len(st), Marks)
      /\ \A n \in 1 .. Len(e) : \E i \in 1 .. Len(st) :
           st[i].fn \in Marks /\ Count(st, i, Marks) = n /\ e[n] = st[i].id
  BY ExtentsType
<1>4. u \in Seq(0 .. MaxConts) /\ Len(u) = Count(t, Len(t), Marks)
  BY <1>1, ExtentsType
<1>5. \A i \in 1 .. Len(t) : t[i].fn \in Marks => u[Count(t, i, Marks)] = t[i].id
  BY <1>1, MarkIs
<1> HIDE DEF e, u
<1>6. ASSUME NEW n \in 1 .. Len(e) PROVE u[n] = e[n]
  <2>1. PICK i \in 1 .. Len(st) :
          st[i].fn \in Marks /\ Count(st, i, Marks) = n /\ e[n] = st[i].id
    BY <1>3
  <2>2. i \in 0 .. Len(st) /\ i \in 1 .. Len(t) /\ t[i] = st[i] BY <1>1
  <2>3. Count(t, i, Marks) = n BY <1>2, <2>1, <2>2
  <2> QED BY <1>5, <2>1, <2>2, <2>3
<1>7. f.id \in 0 .. MaxConts BY DEF Frame
<1>8. /\ v \in Seq(0 .. MaxConts) /\ Len(v) = Len(u)
      /\ \A n \in 1 .. Len(u) : u[n] = v[n]
  <2>1. CASE f.fn \in Marks
    <3>1. /\ v \in Seq(0 .. MaxConts) /\ Len(v) = Len(e) + 1 /\ Len(e) \in Nat
          /\ \A n \in 1 .. Len(e) : v[n] = e[n]
          /\ v[Len(e) + 1] = f.id
      BY <1>3, <1>7, <2>1, Pushed
    <3>2. Len(u) = Len(e) + 1 BY <1>1, <1>2, <1>3, <1>4, <2>1
    <3>3. u[Len(e) + 1] = f.id
      <4>1. Len(st) + 1 \in 1 .. Len(t) BY <1>1
      <4>2. Count(t, Len(st) + 1, Marks) = Len(e) + 1 BY <1>2, <1>3, <2>1
      <4> QED BY <1>1, <1>5, <2>1, <4>1, <4>2
    <3> HIDE DEF v
    <3>4. \A n \in 1 .. Len(u) : u[n] = v[n]
      <4> TAKE n \in 1 .. Len(u)
      <4>1. n \in 1 .. Len(e) \/ n = Len(e) + 1 BY <3>1, <3>2
      <4> QED BY <1>6, <3>1, <3>3, <4>1
    <3> QED BY <3>1, <3>2, <3>4
  <2>2. CASE f.fn \notin Marks
    <3>1. v = e BY <2>2
    <3>2. Len(u) = Len(e) BY <1>1, <1>2, <1>3, <1>4, <2>2
    <3> HIDE DEF v
    <3> QED BY <1>3, <1>6, <3>1, <3>2
  <2> QED BY <2>1, <2>2
<1> HIDE DEF v
<1>9. u = v BY <1>4, <1>8, SeqEqual
<1> QED BY <1>9 DEF u, v, e, t

(* The kinds of frame that a form of their own makes, and which unwind not *)
(* as the others do.                                                       *)
Admits(fn) ==
  /\ fn = "hook" => "hook" \in Forms
  /\ fn = "jit" => "jit" \in Forms
  /\ fn = "source" => "include" \in Forms
Admitted(st) == \A i \in 1 .. Len(st) : Admits(st[i].fn)

(* From `st' to `t' no extent is entered or left.                          *)
Quiet(st, t) == ExtentsOf(t) = ExtentsOf(st) /\ (Admitted(st) => Admitted(t))

LEMMA OneUp ==
  ASSUME NEW st \in Seq(Frame), NEW f, NEW t \in Seq(Frame), t = Append(st, f), Admits(f.fn)
  PROVE  /\ f.fn \notin Marks => Quiet(st, t)
         /\ f.fn \in Marks => ExtentsOf(t) = Append(ExtentsOf(st), f.id)
         /\ Admitted(st) => Admitted(t)
<1>1. st \in Seq(Frame \cup {f}) BY SeqMonotonic
<1>2. /\ Len(t) = Len(st) + 1 /\ Len(st) \in Nat /\ t[Len(st) + 1] = f
      /\ \A i \in 1 .. Len(st) : t[i] = st[i]
  BY <1>1, Pushed
<1>3. Len(st) + 1 \in 1 .. Len(t) BY <1>2
<1>4. f \in Frame BY <1>2, <1>3, ElementOfSeq
<1>5. ExtentsOf(t) = IF f.fn \in Marks THEN Append(ExtentsOf(st), f.id) ELSE ExtentsOf(st)
  BY <1>4, ExtentsPush
<1>6. Admitted(st) => Admitted(t) BY <1>2 DEF Admitted
<1> QED BY <1>5, <1>6 DEF Quiet

LEMMA OneDown ==
  ASSUME NEW st \in Seq(Frame), st # <<>>
  PROVE  /\ Front(st) \in Seq(Frame) /\ Last(st) \in Frame
         /\ Last(st).fn \notin Marks => Quiet(st, Front(st))
         /\ Last(st).fn \in Marks => ExtentsOf(st) = Append(ExtentsOf(Front(st)), Last(st).id)
         /\ Admitted(st) => Admitted(Front(st)) /\ Admits(Last(st).fn)
<1> PICK b : b = Front(st) OBVIOUS
<1>1. /\ b \in Seq(Frame) /\ Last(st) \in Frame /\ Len(st) \in Nat \ {0}
      /\ Len(b) = Len(st) - 1 /\ Last(st) = st[Len(st)]
      /\ \A i \in 1 .. Len(st) - 1 : b[i] = st[i]
  BY FrontAndLast
<1>2. st = Append(b, Last(st)) BY FrontThenLast
<1>3. ExtentsOf(st) = IF Last(st).fn \in Marks THEN Append(ExtentsOf(b), Last(st).id)
                      ELSE ExtentsOf(b)
  BY <1>1, <1>2, ExtentsPush
<1>4. Admitted(st) => Admitted(b) /\ Admits(Last(st).fn) BY <1>1 DEF Admitted
<1> QED BY <1>1, <1>3, <1>4 DEF Quiet

LEMMA TwoUp ==
  ASSUME NEW st \in Seq(Frame), NEW f, NEW g, NEW t \in Seq(Frame), t = st \o <<f, g>>,
         Admits(f.fn), Admits(g.fn), g.fn \notin Marks
  PROVE  /\ f.fn \notin Marks => Quiet(st, t)
         /\ f.fn \in Marks => ExtentsOf(t) = Append(ExtentsOf(st), f.id)
         /\ Admitted(st) => Admitted(t)
<1> DEFINE u == Append(st, f)
<1> PICK S : S = Frame \cup {f, g} OBVIOUS
<1>1. f \in S /\ g \in S /\ st \in Seq(S) BY SeqMonotonic
<1>2. u \in Seq(S) /\ t = Append(u, g)
  <2>1. u = st \o <<f>> BY <1>1, AppendIsConcat
  <2> QED BY <1>1, <2>1
<1> HIDE DEF u
<1>3. Front(t) = u /\ t # <<>>
  <2>1. Front(Append(u, g)) = u /\ Append(u, g) # <<>> BY <1>1, <1>2, Pushed
  <2> QED BY <1>2, <2>1
<1>4. u \in Seq(Frame) BY <1>3, FrontAndLast
<1>5. Quiet(u, t) /\ (Admitted(u) => Admitted(t)) BY <1>2, <1>4, OneUp
<1>6. /\ f.fn \notin Marks => Quiet(st, u)
      /\ f.fn \in Marks => ExtentsOf(u) = Append(ExtentsOf(st), f.id)
      /\ Admitted(st) => Admitted(u)
  BY <1>4, OneUp DEF u
<1> QED BY <1>5, <1>6 DEF Quiet

LEMMA FnIs ==
  /\ \A fn : Plain(fn).fn = fn /\ Plain(fn).id = 0
  /\ \A fn, n : Pending(fn, n).fn = fn
  /\ \A n, p, s : Walk(n, p, s).fn = "walk"
  /\ Eval.fn = "eval"
  /\ \A fn \in FrameKind \ {"hook", "jit", "source"} : Admits(fn)
BY DEF Plain, Pending, Walk, Eval, Admits

(* The forms that enter no extent.                                         *)
LEMMA QuietForms ==
  ASSUME IInv, stack' \in Seq(Frame),
         \/ TopForm \/ Answer \/ Raise \/ Invoke \/ EvalNested \/ EvalArgs \/ ApplyBody
         \/ EvalBind \/ EvalWith \/ EvalHere \/ Include \/ CallHandler \/ CallDriver
         \/ CallHook \/ CallJit
  PROVE  Quiet(stack, stack')
<1>1. stack \in Seq(Frame) BY DEF IInv, TypeOK
<1>2. CASE stack' = stack BY <1>2 DEF Quiet
<1>3. ASSUME NEW f, Enter(stack, f), Admits(f.fn), f.fn \notin Marks
      PROVE  Quiet(stack, stack')
  <2>1. Eval.fn \notin Marks /\ Admits(Eval.fn) BY FnIs DEF Marks, FrameKind
  <2> QED BY <1>1, <1>3, <2>1, TwoUp DEF Enter
<1>4. ASSUME NEW fn \in {"nested", "bind", "here"} PROVE Admits(fn) /\ fn \notin Marks
  BY DEF Admits, Marks
<1>5. CASE TopForm
  <2>1. stack = <<>> BY <1>5 DEF TopForm, IInv, ModeFits
  <2>2. Enter(stack, Plain("top")) BY <1>5, <2>1 DEF TopForm
  <2>3. Admits(Plain("top").fn) /\ Plain("top").fn \notin Marks BY FnIs DEF Admits, Marks
  <2> QED BY <1>3, <2>2, <2>3
<1>6. CASE Answer \/ Raise \/ Invoke
  BY <1>2, <1>6 DEF Answer, Raise, Invoke
<1>7. ASSUME NEW fn \in {"nested", "bind", "here"}, Enter(stack, Plain(fn))
      PROVE  Quiet(stack, stack')
  BY <1>3, <1>4, <1>7, FnIs
<1>8. CASE EvalNested \/ EvalBind \/ EvalHere
  BY <1>7, <1>8 DEF EvalNested, EvalBind, EvalHere
<1>9. CASE EvalArgs
  <2>1. PICK n : Enter(stack, Pending("args", n)) BY <1>9 DEF EvalArgs
  <2>2. Admits("args") /\ "args" \notin Marks BY DEF Admits, Marks
  <2> QED BY <1>3, <2>1, <2>2, FnIs
<1>10. CASE ApplyBody
  <2>1. PICK n \in 0 .. MaxForms, save \in BOOLEAN : BodyTail(stack, n, save)
    BY <1>10 DEF ApplyBody
  <2>2. stack' = stack \/ Enter(stack, Walk(n - 1, TRUE, save)) BY <2>1, Zenon DEF BodyTail
  <2>3. Admits("walk") /\ "walk" \notin Marks BY DEF Admits, Marks
  <2> PICK f : f = Walk(n - 1, TRUE, save) OBVIOUS
  <2>4. f.fn = "walk" BY DEF Walk, Plain
  <2> QED BY <1>2, <1>3, <2>2, <2>3, <2>4
<1>11. CASE EvalWith
  <2> DEFINE f == [Plain("with") EXCEPT !.save = TRUE]
  <2>1. Enter(stack, f) BY <1>11 DEF EvalWith
  <2>2. f.fn = "with" BY DEF Plain
  <2>3. Admits("with") /\ "with" \notin Marks BY DEF Admits, Marks
  <2> HIDE DEF f
  <2> QED BY <1>3, <2>1, <2>2, <2>3
<1>12. CASE Include
  <2>1. PICK n : Enter(stack, [Pending("source", n) EXCEPT !.held = saves])
    BY <1>12 DEF Include
  <2> DEFINE f == [Pending("source", n) EXCEPT !.held = saves]
  <2>2. f.fn = "source" BY DEF Plain, Pending
  <2>3. Admits("source") /\ "source" \notin Marks BY <1>12 DEF Include, Admits, Marks
  <2>4. Enter(stack, f) BY <2>1
  <2> HIDE DEF f
  <2> QED BY <1>3, <2>2, <2>3, <2>4
<1>13. CASE CallHandler
  <2>1. stack' = Append(stack, Plain("settle")) BY <1>13 DEF CallHandler
  <2>2. Admits("settle") /\ "settle" \notin Marks BY DEF Admits, Marks
  <2>3. Plain("settle").fn = "settle" BY FnIs
  <2> QED BY <1>1, <2>1, <2>2, <2>3, OneUp
<1>14. CASE CallDriver \/ CallHook
  <2>1. PICK fn \in {"driver", "hook"} :
          stack' = stack \o <<Plain(fn), Plain("settle")>> /\ Admits(fn)
    BY <1>14 DEF CallDriver, CallHook, Admits
  <2>2. Admits("settle") /\ "settle" \notin Marks /\ fn \notin Marks BY DEF Admits, Marks
  <2> PICK f, g : f = Plain(fn) /\ g = Plain("settle") OBVIOUS
  <2>3. f.fn = fn /\ g.fn = "settle" BY FnIs
  <2> QED BY <1>1, <2>1, <2>2, <2>3, TwoUp
<1>15. CASE CallJit
  <2>1. Enter(stack, Plain("jit")) /\ Admits("jit") /\ "jit" \notin Marks
    BY <1>15 DEF CallJit, Admits, Marks
  <2> QED BY <1>3, <2>1, FnIs
<1> QED BY <1>5, <1>6, <1>8, <1>9, <1>10, <1>11, <1>12, <1>13, <1>14, <1>15

(* The steps of a frame that marks no extent: it waits on, it is left, it  *)
(* waits again, or another takes its place.                                *)
LEMMA QuietFrame ==
  ASSUME IInv, Admitted(stack), stack # <<>>, Top.fn \notin Marks, stack' \in Seq(Frame),
         NEW st, st \in {Front(stack), stack} \/ (st = WithoutIt /\ Gets("replay") /\ Top.recs # <<>>),
         NEW f, Admits(f.fn), f.fn \notin Marks,
         stack' \in {st, Append(st, f), st \o <<f, Eval>>}
  PROVE  Quiet(stack, stack')
<1>1. stack \in Seq(Frame) BY DEF IInv, TypeOK
<1>2. Front(stack) \in Seq(Frame) /\ Quiet(stack, Front(stack)) BY <1>1, OneDown DEF Top
<1>3. st \in Seq(Frame) /\ Quiet(stack, st) /\ Admitted(st)
  <2>1. CASE st = stack BY <1>1, <2>1 DEF Quiet
  <2>2. CASE st = Front(stack) BY <1>2, <2>2 DEF Quiet
  <2>3. CASE st = WithoutIt /\ Gets("replay") /\ Top.recs # <<>>
    <3>1. Top.fn = "replay" BY <2>3 DEF Gets
    <3>2. st \in Seq(Frame) BY <2>3, <3>1, TakeInnermost, Zenon DEF Agrees
    <3> PICK g : g = [Top EXCEPT !.recs = Front(@)] OBVIOUS
    <3>3. st = Append(Front(stack), g) BY <2>3 DEF WithoutIt
    <3>4. g.fn = "replay"
      <4>1. Top \in Frame BY <1>1, OneDown DEF Top
      <4> QED BY <3>1, <4>1 DEF Frame
    <3>5. Admits(g.fn) /\ g.fn \notin Marks BY <3>4 DEF Admits, Marks
    <3>6. Quiet(Front(stack), st) BY <1>2, <3>2, <3>3, <3>5, OneUp
    <3> QED BY <1>2, <3>2, <3>6 DEF Quiet
  <2> QED BY <2>1, <2>2, <2>3
<1>4. Eval.fn \notin Marks /\ Admits(Eval.fn) BY FnIs DEF Marks, FrameKind
<1>5. CASE stack' = st BY <1>3, <1>5
<1>6. CASE stack' = Append(st, f)
  <2>1. Quiet(st, stack') BY <1>3, <1>6, OneUp
  <2> QED BY <1>3, <2>1 DEF Quiet
<1>7. CASE stack' = st \o <<f, Eval>>
  <2>1. Quiet(st, stack') BY <1>3, <1>4, <1>7, TwoUp
  <2> QED BY <1>3, <2>1 DEF Quiet
<1> QED BY <1>5, <1>6, <1>7

LEMMA QuietSteps ==
  ASSUME IInv, Admitted(stack), stack' \in Seq(Frame),
         \/ Trampoline \/ Settle \/ NestedDone \/ ArgDone \/ FormDone \/ BindDone
         \/ (ValueDone /\ Top.fn # "callcc") \/ DriverDone
         \/ SourceFormDone \/ SourceReadFails \/ TopDone
         \/ UnwindEval \/ UnwindFrame \/ Swallow \/ ResumeEscape \/ TopFails \/ SourceFails
         \/ Resume
  PROVE  Quiet(stack, stack')
<1> DEFINE s == Plain("settle")
           less == [Top EXCEPT !.left = @ - 1]
<1>1. stack # <<>> /\ Top.fn \notin Marks
  BY DEF Trampoline, Settle, NestedDone, ArgDone, FormDone, BindDone, ValueDone, DriverDone,
         SourceFormDone, SourceReadFails, TopDone, UnwindEval, UnwindFrame, Swallow,
         ResumeEscape, TopFails, SourceFails, Resume, ReplayDone, ResumePass, ResumeBind,
         ResumeBody, ResumeArgs, RefillDone, Replaying, Gets, Fails, Marks
<1>2. stack \in Seq(Frame) BY DEF IInv, TypeOK
<1>3. Top \in Frame /\ Admits(Top.fn) BY <1>1, <1>2, OneDown DEF Top
<1>4. less.fn = Top.fn BY <1>3 DEF Frame
<1>5. s.fn = "settle" /\ Admits("settle") /\ "settle" \notin Marks
      /\ Eval.fn = "eval" /\ Admits("eval") /\ "eval" \notin Marks
  BY FnIs DEF Admits, Marks
<1> HIDE DEF s, less
<1>6. CASE stack' = stack BY <1>6 DEF Quiet
<1>7. CASE stack' = Front(stack) BY <1>1, <1>5, <1>7, QuietFrame
<1>8. ASSUME NEW a, Leave(a) PROVE stack' = Front(stack) BY <1>8 DEF Leave
<1>9. CASE Again(less) BY <1>1, <1>3, <1>4, <1>9, QuietFrame DEF Again
<1>10. CASE Trampoline
  BY <1>6, <1>7, <1>10, Zenon DEF Trampoline
<1>11. CASE Settle
  <2>1. stack' = Append(stack, Eval) \/ stack' = Front(stack) BY <1>11, Zenon DEF Settle
  <2>2. CASE stack' = Append(stack, Eval) BY <1>1, <1>5, <2>2, QuietFrame
  <2> QED BY <1>7, <2>1, <2>2
<1>12. CASE NestedDone \/ BindDone \/ ValueDone \/ UnwindFrame \/ Swallow \/ ReplayDone
  BY <1>7, <1>8, <1>12 DEF NestedDone, BindDone, ValueDone, UnwindFrame, Swallow, ReplayDone
<1>13. CASE ArgDone
  <2>1. Again(less) \/ Leave("apply") BY <1>13, Zenon DEF ArgDone, less
  <2> QED BY <1>7, <1>8, <1>9, <2>1
<1>14. CASE FormDone
  <2>1. Again(less) \/ Leave("ok") BY <1>14, Zenon DEF FormDone, less
  <2> QED BY <1>7, <1>8, <1>9, <2>1
<1>15. CASE DriverDone
  <2>1. Leave("ok") \/ Leave("err") \/ stack' = Append(stack, s)
    BY <1>15, Zenon DEF DriverDone, s
  <2>2. CASE stack' = Append(stack, s) BY <1>1, <1>5, <2>2, QuietFrame
  <2> QED BY <1>7, <1>8, <2>1, <2>2
<1>16. CASE SourceFormDone
  <2>1. Again(less) \/ stack' = Front(stack) BY <1>16, Zenon DEF SourceFormDone, less
  <2> QED BY <1>7, <1>9, <2>1
<1>17. CASE SourceReadFails \/ SourceFails \/ UnwindEval
  BY <1>7, <1>17 DEF SourceReadFails, SourceFails, UnwindEval
<1>18. CASE TopDone \/ TopFails
  <2>1. Top.fn = "top" /\ stack' = <<>> BY <1>18 DEF TopDone, TopFails, Gets, Fails
  <2>2. Front(stack) = <<>> BY <1>1, <2>1, Facts, PopAgrees DEF Top
  <2> QED BY <1>7, <2>1, <2>2
<1>19. CASE ResumeEscape
  <2> PICK f : f = [Plain("replay") EXCEPT !.recs = snaps[escaping].recs] OBVIOUS
  <2>1. f.fn = "replay" BY DEF Plain
  <2>2. stack' = stack \/ stack' = Append(stack, f) BY <1>19, Zenon DEF ResumeEscape
  <2>3. Admits(f.fn) /\ f.fn \notin Marks BY <2>1 DEF Admits, Marks
  <2>4. CASE stack' = Append(stack, f) BY <1>1, <2>3, <2>4, QuietFrame
  <2> QED BY <1>6, <2>2, <2>4
<1>20. CASE ResumePass \/ ResumeBind \/ ResumeBody \/ ResumeArgs
  <2>1. Gets("replay") /\ Top.recs # <<>>
    BY <1>20 DEF ResumePass, ResumeBind, ResumeBody, ResumeArgs, Replaying
  <2>2. ASSUME NEW fn \in {"settle", "walk", "refill"} PROVE Admits(fn) /\ fn \notin Marks
    BY DEF Admits, Marks
  <2>3. CASE ResumePass \/ ResumeBind
    <3>1. stack' = WithoutIt BY <2>3 DEF ResumePass, ResumeBind
    <3> QED BY <1>1, <1>5, <2>1, <3>1, QuietFrame
  <2>4. CASE ResumeBody
    <3> DEFINE f == Walk(Innermost.left - 1, FALSE, FALSE)
    <3>1. f.fn = "walk" BY DEF Walk, Plain
    <3>2. stack' = WithoutIt \o <<f, Eval>> BY <2>4 DEF ResumeBody, Enter
    <3> HIDE DEF f
    <3>3. Admits(f.fn) /\ f.fn \notin Marks BY <2>2, <3>1
    <3> QED BY <1>1, <2>1, <3>2, <3>3, QuietFrame
  <2>5. CASE ResumeArgs
    <3> DEFINE f == Pending("refill", Innermost.left - 1)
    <3>1. f.fn = "refill" BY DEF Pending, Plain
    <3>2. stack' = Append(WithoutIt, s) \/ stack' = WithoutIt \o <<f, Eval>>
      BY <2>5, Zenon DEF ResumeArgs, Enter, s
    <3> HIDE DEF f
    <3>3. Admits(f.fn) /\ f.fn \notin Marks BY <2>2, <3>1
    <3>4. CASE stack' = Append(WithoutIt, s) BY <1>1, <1>5, <2>1, <3>4, QuietFrame
    <3>5. CASE stack' = WithoutIt \o <<f, Eval>> BY <1>1, <2>1, <3>3, <3>5, QuietFrame
    <3> QED BY <3>2, <3>4, <3>5
  <2> QED BY <1>20, <2>3, <2>4, <2>5
<1>21. CASE RefillDone
  <2>1. stack' = Append(Front(stack), s) \/ Again(less) BY <1>21, Zenon DEF RefillDone, s, less
  <2>2. CASE stack' = Append(Front(stack), s) BY <1>1, <1>5, <2>2, QuietFrame
  <2> QED BY <1>9, <2>1, <2>2
<1> QED BY <1>10, <1>11, <1>12, <1>13, <1>14, <1>15, <1>16, <1>17, <1>18, <1>19, <1>20,
           <1>21 DEF Resume

(* An extent is entered: by guard, under which its body is walked, and by  *)
(* call/cc, under which its receiver is called.                            *)
LEMMA MarkEnters ==
  ASSUME IInv, stack' \in Seq(Frame)
  PROVE  /\ EnterGuard => /\ ExtentsOf(stack') = Append(ExtentsOf(stack), 0)
                          /\ Admitted(stack) => Admitted(stack')
         /\ CallCC => /\ ExtentsOf(stack') = Append(ExtentsOf(stack), Len(snaps) + 1)
                      /\ Admitted(stack) => Admitted(stack')
<1>1. stack \in Seq(Frame) BY DEF IInv, TypeOK
<1>2. ASSUME EnterGuard
      PROVE  /\ ExtentsOf(stack') = Append(ExtentsOf(stack), 0)
             /\ Admitted(stack) => Admitted(stack')
  <2>1. PICK n : Enter(Append(stack, Plain("guard")), Walk(n, FALSE, FALSE))
    BY <1>2 DEF EnterGuard
  <2> DEFINE g == Plain("guard")
             f == Walk(n, FALSE, FALSE)
             u == Append(stack, g)
  <2>2. g \in Frame /\ g.fn = "guard" /\ g.id = 0
    BY FramesAreFrames DEF Plain, FrameKind
  <2>3. f.fn = "walk" BY DEF Walk, Plain
  <2>4. stack' = u \o <<f, Eval>> BY <2>1 DEF Enter
  <2> HIDE DEF f, g
  <2>5. u \in Seq(Frame) BY <1>1, <2>2, Pushed
  <2>6. Admits(g.fn) /\ g.fn \in Marks BY <2>2 DEF Admits, Marks
  <2>7. ExtentsOf(u) = Append(ExtentsOf(stack), 0) /\ (Admitted(stack) => Admitted(u))
    BY <1>1, <2>2, <2>5, <2>6, OneUp
  <2> HIDE DEF u
  <2>8. Admits(f.fn) /\ f.fn \notin Marks BY <2>3 DEF Admits, Marks
  <2>9. Admits(Eval.fn) /\ Eval.fn \notin Marks BY FnIs DEF Admits, Marks
  <2>10. Quiet(u, stack') BY <2>4, <2>5, <2>8, <2>9, TwoUp
  <2> QED BY <2>7, <2>10 DEF Quiet
<1>3. ASSUME CallCC
      PROVE  /\ ExtentsOf(stack') = Append(ExtentsOf(stack), Len(snaps) + 1)
             /\ Admitted(stack) => Admitted(stack')
  <2> DEFINE f == [Plain("callcc") EXCEPT !.id = Len(snaps) + 1]
             s == Plain("settle")
  <2>1. f.fn = "callcc" /\ f.id = Len(snaps) + 1 /\ s.fn = "settle" BY DEF Plain
  <2>2. stack' = stack \o <<f, s>> BY <1>3 DEF CallCC
  <2> HIDE DEF f, s
  <2>3. Admits(f.fn) /\ f.fn \in Marks /\ Admits(s.fn) /\ s.fn \notin Marks
    BY <2>1 DEF Admits, Marks
  <2> QED BY <1>1, <2>1, <2>2, <2>3, TwoUp
<1> QED BY <1>2, <1>3

(* And left: with an answer, or for the handler's body.                    *)
LEMMA MarkLeaves ==
  ASSUME IInv, stack' \in Seq(Frame), stack # <<>>, Top.fn \in Marks,
         GuardDone \/ GuardFails \/ ValueDone \/ CallCCFails
  PROVE  /\ ExtentsOf(stack) = Append(ExtentsOf(stack'), Top.id)
         /\ Admitted(stack) => Admitted(stack')
<1>1. stack \in Seq(Frame) BY DEF IInv, TypeOK
<1> DEFINE b == Front(stack)
<1>2. /\ b \in Seq(Frame) /\ ExtentsOf(stack) = Append(ExtentsOf(b), Top.id)
      /\ Admitted(stack) => Admitted(b)
  BY <1>1, OneDown DEF Top
<1> HIDE DEF b
<1>3. CASE stack' = b BY <1>2, <1>3
<1>4. ASSUME NEW n, stack' = b \o <<Walk(n, TRUE, FALSE), Eval>>
      PROVE  /\ ExtentsOf(stack) = Append(ExtentsOf(stack'), Top.id)
             /\ Admitted(stack) => Admitted(stack')
  <2> DEFINE f == Walk(n, TRUE, FALSE)
  <2>1. f.fn = "walk" BY DEF Walk, Plain
  <2>2. stack' = b \o <<f, Eval>> BY <1>4
  <2> HIDE DEF f
  <2>3. Admits(f.fn) /\ f.fn \notin Marks BY <2>1 DEF Admits, Marks
  <2>4. Admits(Eval.fn) /\ Eval.fn \notin Marks BY FnIs DEF Admits, Marks
  <2>5. Quiet(b, stack') BY <1>2, <2>2, <2>3, <2>4, TwoUp
  <2> QED BY <1>2, <2>5 DEF Quiet
<1>5. ASSUME NEW a, Leave(a) PROVE stack' = b BY <1>5 DEF Leave, b
<1>6. CASE GuardFails
  <2>1. CASE escaping # 0
    <3>1. Leave("err") BY <1>6, <2>1, Zenon DEF GuardFails
    <3> QED BY <1>3, <1>5, <3>1
  <2>2. CASE ~(escaping # 0)
    <3>1. PICK n \in 0 .. MaxForms : BodyTail(b, n, FALSE)
      BY <1>6, <2>2, Zenon DEF GuardFails, b
    <3>2. stack' = b \/ stack' = b \o <<Walk(n - 1, TRUE, FALSE), Eval>>
      BY <3>1, Zenon DEF BodyTail, Enter
    <3> QED BY <1>3, <1>4, <3>2
  <2> QED BY <2>1, <2>2
<1>7. CASE GuardDone \/ ValueDone \/ CallCCFails
  <2>1. Leave("ok") \/ Leave("err") BY <1>7 DEF GuardDone, ValueDone, CallCCFails
  <2> QED BY <1>3, <1>5, <2>1
<1> QED BY <1>6, <1>7

LEMMA AdmittedKept == IInv /\ Admitted(stack) /\ [Next]_vars => Admitted(stack)'
<1> SUFFICES ASSUME IInv, Admitted(stack), [Next]_vars PROVE Admitted(stack') OBVIOUS
<1>1. stack' \in Seq(Frame)
  <2>1. IInv' BY NextKeeps
  <2> QED BY <2>1 DEF IInv, TypeOK
<1>2. CASE UNCHANGED vars BY <1>2 DEF vars
<1>3. CASE Quiet(stack, stack') BY <1>3 DEF Quiet
<1>4. CASE TopForm BY <1>1, <1>3, <1>4, QuietForms
<1>5. CASE Form BY <1>1, <1>3, <1>5, QuietForms, MarkEnters DEF Form
<1>6. CASE Value
  <2>1. CASE GuardDone \/ (ValueDone /\ Top.fn = "callcc")
    <3>1. stack # <<>> /\ Top.fn \in Marks BY <2>1 DEF GuardDone, ValueDone, Gets, Marks
    <3> QED BY <1>1, <2>1, <3>1, MarkLeaves
  <2> QED BY <1>1, <1>3, <1>6, <2>1, QuietSteps DEF Value
<1>7. CASE Unwind
  <2>1. CASE GuardFails \/ CallCCFails
    <3>1. stack # <<>> /\ Top.fn \in Marks BY <2>1 DEF GuardFails, CallCCFails, Fails, Marks
    <3> QED BY <1>1, <2>1, <3>1, MarkLeaves
  <2> QED BY <1>1, <1>3, <1>7, <2>1, QuietSteps DEF Unwind
<1>8. CASE Resume BY <1>1, <1>3, <1>8, QuietSteps
<1> QED BY <1>2, <1>4, <1>5, <1>6, <1>7, <1>8 DEF Next

LEMMA Admission == Spec => [](IInv /\ Admitted(stack))
<1>1. Init => Admitted(stack)
  <2> SUFFICES ASSUME Init PROVE Admitted(stack) OBVIOUS
  <2>1. Len(stack) = 0 BY EmptySeq DEF Init
  <2> QED BY <2>1 DEF Admitted
<1> QED BY <1>1, AdmittedKept, InductiveInvariant, PTL DEF Spec

-----------------------------------------------------------------------------
(* Programs without hooks and machine code.                                *)

(* What a step does with an escape that is or is not in flight.            *)
LEMMA EscapeStep ==
  ASSUME IInv, Admitted(stack), "hook" \notin Forms, "jit" \notin Forms, [Next]_vars
  PROVE  /\ mode # "err" => escaping' = escaping \/ mode' = "err"
         /\ mode = "err" => mode' = "err" \/ escaping' = 0
<1>1. CASE UNCHANGED vars BY <1>1 DEF vars
<1>2. CASE TopForm BY <1>2 DEF TopForm, rows
<1>3. CASE Form
  <2>1. mode # "err"
    BY <1>3 DEF Form, Answer, Raise, EvalNested, EvalArgs, ApplyBody, EnterGuard, EvalBind,
       EvalWith, EvalHere, Include, CallHandler, CallDriver, CallHook, CallJit, CallCC, Invoke,
       Applying
  <2>2. escaping' = escaping \/ mode' = "err"
    BY <1>3 DEF Form, Answer, Raise, EvalNested, EvalArgs, ApplyBody, EnterGuard, EvalBind,
       EvalWith, EvalHere, Include, CallHandler, CallDriver, CallHook, CallJit, CallCC, Invoke,
       rows
  <2> QED BY <2>1, <2>2
<1>4. CASE Value
  <2>1. mode = "ok"
    BY <1>4 DEF Value, Trampoline, Settle, NestedDone, ArgDone, FormDone, GuardDone, BindDone,
       ValueDone, DriverDone, SourceFormDone, SourceReadFails, TopDone, Gets
  <2>2. escaping' = escaping \/ mode' = "err"
    BY <1>4 DEF Value, Trampoline, Settle, NestedDone, ArgDone, FormDone, GuardDone, BindDone,
       ValueDone, DriverDone, SourceFormDone, SourceReadFails, TopDone, rows
  <2> QED BY <2>1, <2>2
<1>5. CASE Unwind
  <2>1. CASE UnwindEval \/ UnwindFrame \/ SourceFails
    <3>1. mode' = "err"
      BY <2>1 DEF UnwindEval, UnwindFrame, SourceFails, Fails, Leave
    <3> QED BY <3>1
  <2>2. CASE GuardFails
    <3>1. CASE escaping # 0
      <4>1. Leave("err") BY <2>2, <3>1, Zenon DEF GuardFails
      <4> QED BY <4>1 DEF Leave
    <3>2. CASE escaping = 0 BY <2>2, <3>2 DEF GuardFails
    <3> QED BY <3>1, <3>2
  <2>3. CASE CallCCFails
    <3>1. escaping' = 0 \/ Leave("err") BY <2>3, Zenon DEF CallCCFails
    <3> QED BY <2>3, <3>1 DEF Leave, CallCCFails, Fails
  <2>4. CASE Swallow
    <3>1. stack # <<>> /\ Top.fn \in {"hook", "jit"} BY <2>4 DEF Swallow, Fails, Gets
    <3>2. Admits(Top.fn)
      <4>1. stack \in Seq(Frame) BY DEF IInv, TypeOK
      <4> QED BY <3>1, <4>1, OneDown DEF Top
    <3> QED BY <3>1, <3>2 DEF Admits
  <2>5. CASE ResumeEscape BY <2>5 DEF ResumeEscape, Fails
  <2>6. CASE TopFails BY <2>6 DEF TopFails, Fails, rows
  <2> QED BY <1>5, <2>1, <2>2, <2>3, <2>4, <2>5, <2>6 DEF Unwind
<1>6. CASE Resume
  <2>1. mode = "ok"
    BY <1>6 DEF Resume, ReplayDone, ResumePass, ResumeBind, ResumeBody, ResumeArgs, RefillDone,
       Replaying, Gets
  <2>2. escaping' = escaping
    BY <1>6 DEF Resume, ReplayDone, ResumePass, ResumeBind, ResumeBody, ResumeArgs, RefillDone,
       rows
  <2> QED BY <2>1, <2>2
<1> QED BY <1>1, <1>2, <1>3, <1>4, <1>5, <1>6 DEF Next

(* `escaping' is an escape in flight.  A hook and a JIT argument drop the  *)
(* error and leave it set: without them nothing does.                      *)
THEOREM EscapesFly ==
  ASSUME "hook" \notin Forms, "jit" \notin Forms PROVE Spec => []EscapeInFlight
<1>1. Init => EscapeInFlight BY DEF Init, EscapeInFlight
<1>2. IInv /\ Admitted(stack) /\ EscapeInFlight /\ [Next]_vars => EscapeInFlight'
  BY EscapeStep DEF EscapeInFlight
<1> QED BY <1>1, <1>2, Admission, PTL DEF Spec

(* Between top-level forms nothing is held over, the escape included.      *)
THEOREM TopLevelClean ==
  ASSUME "hook" \notin Forms, "jit" \notin Forms PROVE Spec => []TopLevelIsClean
<1>1. IInv /\ EscapeInFlight => TopLevelIsClean
  <2> SUFFICES ASSUME IInv, EscapeInFlight, mode = "idle"
               PROVE  /\ ~parked /\ saves = 0 /\ handlers = 0 /\ active = 0
                      /\ control = <<>> /\ escaping = 0
    BY DEF TopLevelIsClean
  <2>1. stack = <<>> /\ parked = FALSE BY Facts DEF IInv, ModeFits
  <2>2. Len(stack) = 0 BY <2>1, EmptySeq
  <2>3. \A K : Count(stack, 0, K) = 0 BY CountType
  <2>4. SavesUnder(stack, 0) = 0 BY 1 \in Nat \ {0}, SavesStep
  <2>5. /\ active = Count(stack, 0, {"eval"}) /\ handlers = Count(stack, 0, {"guard"})
        /\ saves = SavesUnder(stack, 0) /\ Len(control) = Count(stack, 0, Recording)
        /\ control \in Seq(Record)
    BY <2>2, Facts DEF Agrees
  <2>6. control = <<>> BY <2>3, <2>5, EmptySeq
  <2>7. escaping = 0 BY DEF EscapeInFlight
  <2> QED BY <2>1, <2>3, <2>4, <2>5, <2>6, <2>7
<1> QED BY <1>1, EscapesFly, InductiveInvariant, PTL

-----------------------------------------------------------------------------
(* Programs without hooks, machine code and loads: guard and call/cc are   *)
(* the extents of DynamicExtent.                                           *)

Signal == IF mode = "err" THEN <<escaping>> ELSE <<>>

(* No frame is under a load, a hook or machine code.                       *)
Bare == {"hook", "jit", "include"} \cap Forms = {}

LEMMA BareTop ==
  ASSUME IInv, Admitted(stack), Bare, stack # <<>>
  PROVE  Top.fn \notin {"hook", "jit", "source"}
<1>1. stack \in Seq(Frame) BY DEF IInv, TypeOK
<1>2. Admits(Top.fn) BY <1>1, OneDown DEF Top
<1>3. "hook" \notin Forms /\ "jit" \notin Forms /\ "include" \notin Forms BY DEF Bare
<1> QED BY <1>2, <1>3, Zenon DEF Admits

(* The extents of a state and of its successor.                            *)
LEMMA ExtentsStep ==
  ASSUME IInv, IInv'
  PROVE  /\ Extents = ExtentsOf(stack) /\ Extents' = ExtentsOf(stack')
         /\ stack \in Seq(Frame) /\ stack' \in Seq(Frame)
         /\ Extents \in Seq(0 .. MaxConts) /\ Extents' \in Seq(0 .. MaxConts)
         /\ escaping \in 0 .. MaxConts /\ escaping' \in 0 .. MaxConts
<1>1. Extents = ExtentsOf(stack) BY ExtentsAre
<1>2. Extents' = ExtentsOf(stack') BY Zenon DEF Extents, ExtentsOf, Marks
<1>3. stack \in Seq(Frame) /\ stack' \in Seq(Frame) BY DEF IInv, TypeOK
<1>4. escaping \in 0 .. MaxConts
  <2>1. Len(snaps) \in Nat /\ Len(snaps) <= MaxConts /\ escaping \in 0 .. Len(snaps)
    BY Facts DEF IInv, TypeOK
  <2> QED BY <2>1, BoundAssumption
<1>5. escaping' \in 0 .. MaxConts
  <2>1. snaps' \in Seq(Snapshot) /\ Len(snaps') <= MaxConts /\ escaping' \in 0 .. Len(snaps')
    BY DEF IInv, TypeOK
  <2>2. Len(snaps') \in Nat BY <2>1, LenProperties
  <2> QED BY <2>1, <2>2, BoundAssumption
<1> QED BY <1>1, <1>2, <1>3, <1>4, <1>5, ExtentsType

(* A top-level form is under no extent.                                    *)
LEMMA TopIsOutside ==
  ASSUME IInv, stack = <<>> \/ Top.fn = "top"
  PROVE  ExtentsOf(stack) = <<>>
<1>1. ExtentsOf(<<>>) = <<>>
  <2>1. <<>> \in Seq(Frame) /\ Len(<<>>) = 0 BY EmptySeq
  <2>2. Count(<<>>, 0, Marks) = 0 BY CountType
  <2>3. ExtentsOf(<<>>) \in Seq(0 .. MaxConts) /\ Len(ExtentsOf(<<>>)) = 0
    BY <2>1, <2>2, ExtentsType
  <2> QED BY <2>3, EmptySeq
<1>2. CASE stack # <<>> /\ Top.fn = "top"
  <2>1. stack \in Seq(Frame) /\ Top.fn \notin Marks BY <1>2 DEF IInv, TypeOK, Marks
  <2>2. Quiet(stack, Front(stack)) BY <1>2, <2>1, OneDown DEF Top
  <2>3. Front(stack) = <<>> BY <1>2, Facts, PopAgrees DEF Top
  <2> QED BY <1>1, <2>2, <2>3 DEF Quiet
<1> QED BY <1>1, <1>2

(* Outside of an unwinding, a step that keeps the extents raises or does   *)
(* nothing that shows.                                                     *)
LEMMA QuietMaps ==
  ASSUME IInv, IInv', Quiet(stack, stack'), mode # "err"
  PROVE  Extent!Throw \/ UNCHANGED <<Extents, Signal>>
<1>1. Extents' = Extents /\ escaping' \in 0 .. MaxConts BY ExtentsStep DEF Quiet
<1>2. Signal = <<>> BY DEF Signal
<1>3. CASE mode' = "err"
  <2>1. Signal' = <<escaping'>> BY <1>3 DEF Signal
  <2> QED BY <1>1, <1>2, <2>1 DEF Extent!Throw, Signal
<1>4. CASE mode' # "err"
  <2>1. Signal' = <<>> BY <1>4 DEF Signal
  <2> QED BY <1>1, <1>2, <2>1
<1> QED BY <1>3, <1>4

LEMMA EnterMaps ==
  ASSUME IInv, IInv', EnterGuard \/ CallCC
  PROVE  Extent!Enter
<1>1. /\ Extents = ExtentsOf(stack) /\ Extents' = ExtentsOf(stack')
      /\ stack \in Seq(Frame) /\ stack' \in Seq(Frame)
  BY ExtentsStep
<1>2. Signal = <<>> /\ Signal' = <<>>
  BY DEF EnterGuard, Enter, CallCC, Applying, Signal
<1>3. CASE EnterGuard
  <2>1. Extents' = Append(Extents, 0) BY <1>1, <1>3, MarkEnters
  <2>2. 0 \in 0 .. MaxConts BY BoundAssumption
  <2> QED BY <1>2, <2>1, <2>2 DEF Extent!Enter, Signal
<1>4. CASE CallCC
  <2> DEFINE k == Len(snaps) + 1
  <2>1. Extents' = Append(Extents, k) BY <1>1, <1>4, MarkEnters
  <2>2. Len(snaps) \in Nat /\ Len(snaps) < MaxConts BY <1>4, Facts DEF CallCC
  <2>3. k \in 0 .. MaxConts BY <2>2, BoundAssumption
  <2>4. \A i \in DOMAIN Extents : Extents[i] # k
    <3> TAKE i \in DOMAIN Extents
    <3>1. i \in 1 .. Len(Extents)
      <4>1. Extents \in Seq(0 .. MaxConts) BY <1>1, ExtentsType
      <4> QED BY <4>1, LenProperties
    <3>2. PICK j \in 1 .. Len(stack) : Extents[i] = stack[j].id
      BY <1>1, <3>1, ExtentsType
    <3>3. stack[j].id <= Len(snaps) BY Facts, Zenon DEF Agrees
    <3>4. stack[j].id \in Nat
      <4>1. stack[j] \in Frame BY <1>1, ElementOfSeq
      <4> QED BY <4>1, BoundAssumption DEF Frame
    <3> QED BY <2>2, <3>2, <3>3, <3>4
  <2> HIDE DEF k
  <2> QED BY <1>2, <2>1, <2>3, <2>4 DEF Extent!Enter, Signal
<1> QED BY <1>3, <1>4

(* The innermost extent is that of the frame on top: an answer leaves it,  *)
(* a raise stops at a guard, an escape at its call/cc, and what does not   *)
(* stop there passes.                                                      *)
LEMMA LeaveMaps ==
  ASSUME IInv, IInv', stack # <<>>, Top.fn \in Marks,
         GuardDone \/ GuardFails \/ ValueDone \/ CallCCFails
  PROVE  Extent!Exit \/ Extent!Stop \/ Extent!Pass
<1>1. /\ Extents = ExtentsOf(stack) /\ Extents' = ExtentsOf(stack')
      /\ stack \in Seq(Frame) /\ stack' \in Seq(Frame)
      /\ Extents \in Seq(0 .. MaxConts) /\ Extents' \in Seq(0 .. MaxConts)
  BY ExtentsStep
<1>2. Extents = Append(Extents', Top.id) BY <1>1, MarkLeaves
<1>3. Top.id \in 0 .. MaxConts /\ FrameFits(Top)
  <2>1. Top \in Frame /\ FrameFits(Top) BY Facts, PopAgrees DEF Top
  <2> QED BY <2>1 DEF Frame
<1>4. /\ Extents # <<>> /\ Extent!Innermost = Top.id /\ Extent!Outer = Extents'
  <2>1. /\ Extents # <<>> /\ Len(Extents) = Len(Extents') + 1
        /\ Extents[Len(Extents') + 1] = Top.id /\ Front(Extents) = Extents'
    <3>1. ASSUME NEW S, NEW e \in Seq(S), NEW k \in S, NEW u, u = Append(e, k)
          PROVE  u # <<>> /\ Len(u) = Len(e) + 1 /\ u[Len(e) + 1] = k /\ Front(u) = e
      BY <3>1, Pushed
    <3> QED BY <1>1, <1>2, <1>3, <3>1
  <2> QED BY <2>1 DEF Extent!Innermost, Extent!Outer, Front
<1>5. Top.fn = "guard" => Top.id = 0 BY <1>3 DEF FrameFits
<1>6. CASE GuardDone \/ ValueDone
  <2>1. mode = "ok" /\ mode' = "ok"
    BY <1>6 DEF GuardDone, ValueDone, Gets, Leave
  <2> QED BY <1>4, <2>1 DEF Extent!Exit
<1>7. CASE GuardFails
  <2>1. mode = "err" /\ Top.id = 0 /\ escaping' = escaping
    BY <1>5, <1>7 DEF GuardFails, Fails
  <2>2. CASE escaping # 0
    <3>1. mode' = "err" BY <1>7, <2>2, Zenon DEF GuardFails, Leave
    <3>2. <<escaping>> # <<0>> BY <2>2
    <3> QED BY <1>4, <2>1, <3>1, <3>2 DEF Extent!Pass
  <2>3. CASE escaping = 0
    <3>1. PICK n \in 0 .. MaxForms : BodyTail(Front(stack), n, FALSE)
      <4>1. ~(escaping # 0) BY <2>3
      <4> QED BY <1>7, <4>1, Zenon DEF GuardFails
    <3>2. mode' = "ok" \/ mode' = "run" BY <3>1, Zenon DEF BodyTail, Enter
    <3> QED BY <1>4, <2>1, <2>3, <3>2 DEF Extent!Stop
  <2> QED BY <2>2, <2>3
<1>8. CASE CallCCFails
  <2>1. mode = "err" BY <1>8 DEF CallCCFails, Fails
  <2>2. CASE escaping = Top.id
    <3>1. mode' = "ok" BY <1>8, <2>2, Zenon DEF CallCCFails, Leave
    <3> QED BY <1>4, <2>1, <2>2, <3>1 DEF Extent!Stop
  <2>3. CASE escaping # Top.id
    <3>1. mode' = "err" /\ escaping' = escaping
      BY <1>8, <2>3, Zenon DEF CallCCFails, Leave
    <3>2. <<escaping>> # <<Top.id>> BY <2>3
    <3> QED BY <1>4, <2>1, <3>1, <3>2 DEF Extent!Pass
  <2> QED BY <2>2, <2>3
<1> QED BY <1>6, <1>7, <1>8

(* An escape or a raise that nothing stopped.                              *)
LEMMA SurfaceMaps ==
  ASSUME IInv, IInv', Bare, Admitted(stack), ResumeEscape \/ TopFails
  PROVE  Extent!Surface
<1>1. stack # <<>> /\ Top.fn = "top" /\ mode = "err"
  <2>1. stack # <<>> /\ Top.fn \in {"top", "source"} /\ mode = "err"
    BY DEF ResumeEscape, TopFails, Fails
  <2> QED BY <2>1, BareTop
<1>2. Extents = <<>> BY <1>1, ExtentsStep, TopIsOutside
<1>3. Extents' = Extents
  <2>1. Quiet(stack, stack') BY ExtentsStep, QuietSteps
  <2> QED BY <2>1, ExtentsStep DEF Quiet
<1>4. CASE TopFails
  <2>1. mode' = "idle" BY <1>4 DEF TopFails
  <2> QED BY <1>1, <1>2, <1>3, <2>1 DEF Extent!Surface
<1>5. CASE ResumeEscape
  <2>1. escaping # 0 /\ escaping' = 0 BY <1>5 DEF ResumeEscape
  <2>2. mode' = "ok" \/ mode' = mode BY <1>5, Zenon DEF ResumeEscape
  <2>3. <<escaping>> # <<0>> BY <2>1
  <2> QED BY <1>1, <1>2, <1>3, <2>1, <2>2, <2>3 DEF Extent!Surface
<1> QED BY <1>4, <1>5

LEMMA NextMaps ==
  ASSUME IInv, IInv', Bare, Admitted(stack), [Next]_vars
  PROVE  Extent!Next \/ UNCHANGED <<Extents, Signal>>
<1>0. stack' \in Seq(Frame) BY ExtentsStep
<1>1. CASE UNCHANGED vars
  <2>1. stack' = stack /\ mode' = mode /\ escaping' = escaping BY <1>1 DEF vars
  <2> QED BY <2>1, ExtentsStep DEF Signal
<1>2. CASE TopForm
  <2>1. mode # "err" BY <1>2 DEF TopForm
  <2> QED BY <1>0, <1>2, <2>1, QuietForms, QuietMaps DEF Extent!Next
<1>3. CASE Form
  <2>1. mode # "err"
    BY <1>3 DEF Form, Answer, Raise, EvalNested, EvalArgs, ApplyBody, EnterGuard, EvalBind,
       EvalWith, EvalHere, Include, CallHandler, CallDriver, CallHook, CallJit, CallCC, Invoke,
       Applying
  <2>2. CASE EnterGuard \/ CallCC BY <2>2, EnterMaps DEF Extent!Next
  <2>3. CASE ~(EnterGuard \/ CallCC)
    <3>1. Quiet(stack, stack') BY <1>0, <1>3, <2>3, QuietForms DEF Form
    <3> QED BY <2>1, <3>1, QuietMaps DEF Extent!Next
  <2> QED BY <2>2, <2>3
<1>4. CASE Value
  <2>1. mode # "err" /\ stack # <<>>
    BY <1>4 DEF Value, Trampoline, Settle, NestedDone, ArgDone, FormDone, GuardDone, BindDone,
       ValueDone, DriverDone, SourceFormDone, SourceReadFails, TopDone, Gets
  <2>2. CASE GuardDone \/ (ValueDone /\ Top.fn = "callcc")
    <3>1. Top.fn \in Marks BY <2>2 DEF GuardDone, Gets, Marks
    <3> QED BY <2>1, <2>2, <3>1, LeaveMaps DEF Extent!Next
  <2>3. CASE ~(GuardDone \/ (ValueDone /\ Top.fn = "callcc"))
    <3>1. Quiet(stack, stack') BY <1>0, <1>4, <2>3, QuietSteps DEF Value
    <3> QED BY <2>1, <3>1, QuietMaps DEF Extent!Next
  <2> QED BY <2>2, <2>3
<1>5. CASE Unwind
  <2>1. CASE UnwindEval \/ UnwindFrame
    <3>1. Quiet(stack, stack') BY <1>0, <2>1, QuietSteps
    <3>2. mode' = "err" /\ mode = "err" /\ escaping' = escaping
      BY <2>1 DEF UnwindEval, UnwindFrame, Fails, Leave, rows
    <3> QED BY <3>1, <3>2, ExtentsStep DEF Quiet, Signal
  <2>2. CASE GuardFails \/ CallCCFails
    <3>1. stack # <<>> /\ Top.fn \in Marks BY <2>2 DEF GuardFails, CallCCFails, Fails, Marks
    <3> QED BY <2>2, <3>1, LeaveMaps DEF Extent!Next
  <2>3. CASE Swallow \/ SourceFails
    <3>1. stack # <<>> /\ Top.fn \in {"hook", "jit", "source"}
      BY <2>3 DEF Swallow, SourceFails, Fails, Gets
    <3> QED BY <3>1, BareTop
  <2>4. CASE ResumeEscape \/ TopFails BY <2>4, SurfaceMaps DEF Extent!Next
  <2> QED BY <1>5, <2>1, <2>2, <2>3, <2>4 DEF Unwind
<1>6. CASE Resume
  <2>1. mode # "err"
    BY <1>6 DEF Resume, ReplayDone, ResumePass, ResumeBind, ResumeBody, ResumeArgs, RefillDone,
       Replaying, Gets
  <2> QED BY <1>0, <1>6, <2>1, QuietSteps, QuietMaps DEF Extent!Next
<1> QED BY <1>1, <1>2, <1>3, <1>4, <1>5, <1>6 DEF Next

(* guard and call/cc keep what DynamicExtent promises of them, whatever    *)
(* forms are nested in them and however deep: a raise stops at the         *)
(* innermost guard, an escape at its own call/cc and nowhere before.       *)
THEOREM ExtentsAreDynamic ==
  ASSUME Bare PROVE Spec => ImplementsExtent
<1>1. Init => Extent!Init
  <2> SUFFICES ASSUME Init PROVE Extent!Init OBVIOUS
  <2>1. stack = <<>> /\ mode = "idle" /\ IInv BY InitAgrees DEF Init
  <2>2. Extents = <<>> BY <2>1, ExtentsAre, TopIsOutside
  <2> QED BY <2>1, <2>2 DEF Extent!Init
<1>2. IInv /\ IInv' /\ Admitted(stack) /\ [Next]_vars
        => [Extent!Next]_<<Extents, Signal>>
  BY NextMaps
<1> QED BY <1>1, <1>2, Admission, PTL DEF Spec, ImplementsExtent, Extent!Spec, Signal

(* And a live escape is taken up by its call/cc and by nothing else: only  *)
(* a load takes it before.                                                 *)
THEOREM EscapesLand ==
  ASSUME Bare PROVE Spec => EscapeLands
<1>1. ASSUME IInv, Admitted(stack), EscapeInFlight, [Next]_vars, escaping # 0,
             IsLive(escaping), escaping' # escaping
      PROVE  Top.fn = "callcc" /\ Top.id = escaping
  <2>1. mode = "err" BY <1>1 DEF EscapeInFlight
  <2>2. CASE CallCCFails
    BY <1>1, <2>2, Zenon DEF CallCCFails, Fails
  <2>3. CASE ResumeEscape
    <3>1. stack # <<>> /\ Top.fn = "top"
      <4>1. stack # <<>> /\ Top.fn \in {"top", "source"} BY <2>3 DEF ResumeEscape, Fails
      <4> QED BY <1>1, <4>1, BareTop
    <3>2. stack \in Seq(Frame) BY <1>1 DEF IInv, TypeOK
    <3>3. Front(stack) = <<>> BY <1>1, <3>1, Facts, PopAgrees DEF Top
    <3>4. Len(stack) = 1
      <4>1. Len(Front(stack)) = Len(stack) - 1 /\ Len(stack) \in Nat
        BY <3>1, <3>2, FrontAndLast
      <4> QED BY <3>3, <4>1, EmptySeq
    <3>5. \A i \in DOMAIN stack : stack[i] = Top
      <4>1. Top = stack[1] /\ DOMAIN stack = 1 .. 1
        BY <3>1, <3>2, <3>4, FrontAndLast DEF Top
      <4> QED BY <4>1
    <3> QED BY <1>1, <3>1, <3>5 DEF IsLive
  <2>4. CASE ~CallCCFails /\ ~ResumeEscape
    <3>1. CASE UNCHANGED vars BY <1>1, <3>1 DEF vars
    <3>2. Next => Unwind
      <4>1. ~TopForm BY <2>1 DEF TopForm
      <4>2. ~Form
        BY <2>1 DEF Form, Answer, Raise, EvalNested, EvalArgs, ApplyBody, EnterGuard, EvalBind,
           EvalWith, EvalHere, Include, CallHandler, CallDriver, CallHook, CallJit, CallCC,
           Invoke, Applying
      <4>3. ~Value
        BY <2>1 DEF Value, Trampoline, Settle, NestedDone, ArgDone, FormDone, GuardDone,
           BindDone, ValueDone, DriverDone, SourceFormDone, SourceReadFails, TopDone, Gets
      <4>4. ~Resume
        BY <2>1 DEF Resume, ReplayDone, ResumePass, ResumeBind, ResumeBody, ResumeArgs,
           RefillDone, Replaying, Gets
      <4> QED BY <4>1, <4>2, <4>3, <4>4, Zenon DEF Next
    <3>3. Unwind => escaping' = escaping
      BY <2>4 DEF Unwind, UnwindEval, UnwindFrame, GuardFails, Swallow, TopFails, SourceFails,
         rows
    <3> QED BY <1>1, <3>1, <3>2, <3>3
  <2> QED BY <2>2, <2>3, <2>4
<1>2. IInv /\ Admitted(stack) /\ EscapeInFlight /\ [Next]_vars
        => [escaping # 0 /\ IsLive(escaping) /\ escaping' # escaping
              => Top.fn = "callcc" /\ Top.id = escaping]_vars
  BY <1>1
<1>3. "hook" \notin Forms /\ "jit" \notin Forms BY DEF Bare
<1>4. Spec => []EscapeInFlight BY <1>3, EscapesFly
<1> QED BY <1>2, <1>4, Admission, PTL DEF Spec, EscapeLands
=============================================================================
