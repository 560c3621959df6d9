-------------------------- MODULE ObjectHeapProofs --------------------------
(***************************************************************************)
(* Theorems about the object heap: that no word belongs to two chunks,     *)
(* that what is live and what may be handed out again are apart, and that  *)
(* the heap keeps for a program what Store promises it.                    *)
(*                                                                         *)
(* The invariant says of every chunk, live or filed, that the room it was  *)
(* made with is in its header or in the key it is filed under, and that    *)
(* the rooms of two chunks do not meet.  A sweep moves chunks between the  *)
(* chain and the lists, an allocation back, and neither changes the set.   *)
(* The heap, the chain and the lists are parameters of its parts, so that  *)
(* they can be stated in the middle of a sweep.                            *)
(***************************************************************************)
EXTENDS ObjectHeap, Lemmas

(* The chain as it is meant: objects, each once, each linked to the next.  *)
Linked(q, words, first) ==
  /\ q \in Seq(Nat \ {NIL})
  /\ \A i, j \in 1..Len(q) : q[i] = q[j] => i = j
  /\ first = (IF q = <<>> THEN NIL ELSE q[1])
  /\ \A i \in 1..Len(q) : words[q[i]] = IF i = Len(q) THEN NIL ELSE q[i + 1]

-----------------------------------------------------------------------------
(* The walk down the links, step by step.                                  *)
Walks(f, m, words, first) ==
  f = [n \in 0..m |-> IF n = 0 THEN <<>> ELSE Longer(words, first, f[n - 1])]

LEMMA WalkExists ==
  ASSUME NEW words, NEW first, NEW N \in Nat
  PROVE  \E f : Walks(f, N, words, first)
<1> DEFINE Built(f, m) == Walks(f, m, words, first)
           T == { m \in Nat : ~ \E f : Built(f, m) }
<1>1. T = {}
  <2> SUFFICES ASSUME T # {} PROVE FALSE
    OBVIOUS
  <2>1. PICK m \in T : \A k \in T : m <= k
    <3>1. T \in SUBSET Nat OBVIOUS
    <3> HIDE DEF T
    <3> QED BY <3>1, LeastOf
  <2>2. m # 0
    <3>1. Built([n \in 0 .. 0 |-> <<>>], 0) BY DEF Walks
    <3> QED BY <2>1, <3>1
  <2>3. m - 1 \in Nat /\ ~(m <= m - 1) BY <2>1, <2>2
  <2>4. PICK f : Built(f, m - 1) BY <2>1, <2>3
  <2> DEFINE g == [n \in 0 .. m |-> IF n = m THEN Longer(words, first, f[m - 1]) ELSE f[n]]
  <2>5. Built(g, m)
    <3>1. ASSUME NEW n \in 0 .. m
          PROVE g[n] = IF n = 0 THEN <<>> ELSE Longer(words, first, g[n - 1])
      <4>1. CASE n = m
        <5>1. g[m - 1] = f[m - 1] BY <2>2, <2>3, <4>1
        <5> QED BY <2>2, <4>1, <5>1
      <4>2. CASE n # m
        <5>1. n \in 0 .. (m - 1) /\ (n # 0 => n - 1 \in 0 .. m /\ n - 1 # m) BY <4>2
        <5>2. f[n] = IF n = 0 THEN <<>> ELSE Longer(words, first, f[n - 1]) BY <2>4, <5>1 DEF Walks
        <5>3. n # 0 => g[n - 1] = f[n - 1] BY <5>1
        <5> QED BY <4>2, <5>2, <5>3
      <4> QED BY <4>1, <4>2
    <3> QED BY <3>1 DEF Walks
  <2> QED BY <2>1, <2>5
<1> QED BY <1>1

LEMMA ChainWalks ==
  ASSUME NEW words, NEW first, Len(words) \in Nat
  PROVE  \E f : Walks(f, Len(words), words, first) /\ ChainFrom(words, first) = f[Len(words)]
<1> DEFINE upTo == CHOOSE f : Walks(f, Len(words), words, first)
<1>1. Walks(upTo, Len(words), words, first) BY WalkExists
<1>2. ChainFrom(words, first) = upTo[Len(words)] BY DEF ChainFrom, Walks
<1> HIDE DEF upTo
<1> QED BY <1>1, <1>2

(* A sequence of different numbers up to n is no longer than n.            *)
LEMMA NoMoreThan ==
  ASSUME NEW n \in Nat, NEW q \in Seq(1..n),
         \A i, j \in 1..Len(q) : q[i] = q[j] => i = j
  PROVE  Len(q) <= n
<1>1. Len(q) \in Nat /\ DOMAIN q = 1..Len(q) /\ \A i \in 1..Len(q) : q[i] \in 1..n
  BY LenProperties, ElementOfSeq
<1>2. \A k \in Nat : IsFiniteSet(1..k) /\ Cardinality(1..k) = k
  <2> TAKE k \in Nat
  <2>1. 1 \in Int /\ k \in Int OBVIOUS
  <2>2. Cardinality(1..k) = IF 1 > k THEN 0 ELSE k - 1 + 1 BY <2>1, FS_Interval
  <2> QED BY <2>1, <2>2, FS_Interval
<1>3. q \in Injection(1..Len(q), 1..n)
  <2>1. q \in [1..Len(q) -> 1..n] BY <1>1
  <2> QED BY <2>1 DEF Injection, IsInjective
<1>4. Cardinality(1..Len(q)) <= Cardinality(1..n)
  BY <1>2, <1>3, FS_Injection
<1> QED BY <1>1, <1>2, <1>4

(* What the walk finds is the chain.                                       *)
LEMMA ChainIs ==
  ASSUME NEW words, NEW first, NEW q, Len(words) \in Nat,
         Linked(q, words, first), q \in Seq(1..Len(words))
  PROVE  ChainFrom(words, first) = q
<1>1. PICK f : Walks(f, Len(words), words, first) /\ ChainFrom(words, first) = f[Len(words)]
  BY ChainWalks
<1>2. Len(q) \in Nat /\ DOMAIN q = 1..Len(q) /\ \A i \in 1..Len(q) : q[i] \in 1..Len(words)
  BY LenProperties, ElementOfSeq
<1>3. Len(q) <= Len(words) BY NoMoreThan DEF Linked
<1> DEFINE Fine(n) == f[n] = SubSeq(q, 1, IF n <= Len(q) THEN n ELSE Len(q))
           T == { n \in 0..Len(words) : ~Fine(n) }
<1>4. T = {}
  <2> SUFFICES ASSUME T # {} PROVE FALSE
    OBVIOUS
  <2>1. PICK n \in T : \A k \in T : n <= k
    <3>1. T \in SUBSET Nat OBVIOUS
    <3> HIDE DEF T
    <3> QED BY <3>1, LeastOf
  <2>2. n \in 0..Len(words) /\ ~Fine(n) BY <2>1
  <2>3. n # 0
    <3>1. f[0] = <<>> BY <1>1 DEF Walks
    <3>2. SubSeq(q, 1, 0) = <<>> BY SubSeqEmpty
    <3>3. Fine(0) BY <1>2, <3>1, <3>2
    <3> QED BY <2>2, <3>3
  <2>4. n - 1 \in 0..Len(words) /\ ~(n <= n - 1) BY <2>2, <2>3
  <2>5. Fine(n - 1) BY <2>1, <2>4
  <2>6. f[n] = Longer(words, first, f[n - 1]) BY <1>1, <2>2, <2>3 DEF Walks
  <2> DEFINE m == IF n - 1 <= Len(q) THEN n - 1 ELSE Len(q)
             s == SubSeq(q, 1, m)
  <2>7. /\ m \in Nat /\ m <= Len(q) /\ Len(q) \in Nat /\ Len(words) \in Nat
        /\ m = Len(q) => (IF n <= Len(q) THEN n ELSE Len(q)) = Len(q)
        /\ m < Len(q) => m + 1 = n /\ n <= Len(q)
    <3>1. n - 1 \in Nat /\ n \in Nat /\ Len(q) \in Nat BY <1>2, <2>4, <2>2
    <3>2. CASE n - 1 <= Len(q) BY <3>1, <3>2
    <3>3. CASE ~(n - 1 <= Len(q)) BY <3>1, <3>3
    <3> QED BY <3>2, <3>3
  <2>8. f[n - 1] = s BY <2>5
  <2>14. ~(f[n] = SubSeq(q, 1, IF n <= Len(q) THEN n ELSE Len(q))) BY <2>2
  <2> HIDE DEF Fine, T, m
  <2>9. s \in Seq(1..Len(words)) /\ Len(s) = m /\ \A i \in 1..m : s[i] = q[i]
    <3>1. \A i \in 1..m : q[i] \in 1..Len(words)
      <4>1. \A i \in 1..m : i \in 1..Len(q) BY <2>7
      <4> QED BY <1>2, <4>1
    <3>2. 1 \in Int /\ m \in Int /\ m - 1 + 1 = m BY <2>7
    <3>3. /\ s \in Seq(1..Len(words))
          /\ Len(s) = IF 1 <= m THEN m - 1 + 1 ELSE 0
          /\ \A i \in 1 .. m - 1 + 1 : s[i] = q[1 + i - 1]
      BY <3>1, <3>2, SubSeqProperties
    <3> HIDE DEF s
    <3> QED BY <2>7, <3>3
  <2> HIDE DEF s
  <2>10. m = Len(q) => Longer(words, first, s) = s
    <3> SUFFICES ASSUME m = Len(q) PROVE Longer(words, first, s) = s OBVIOUS
    <3>1. CASE s = <<>>
      <4>1. q = <<>> BY <2>9, <3>1, EmptySeq
      <4>2. first = NIL BY <4>1 DEF Linked
      <4> QED BY <3>1, <4>2 DEF Longer
    <3>2. CASE s # <<>>
      <4>1. Last(s) = s[m] /\ m \in 1..m BY <2>9, <3>2, FrontAndLast
      <4>2. Last(s) = q[Len(q)] /\ Len(q) \in 1..Len(q) BY <2>9, <4>1
      <4>3. words[Last(s)] = NIL BY <4>2 DEF Linked
      <4> QED BY <3>2, <4>3 DEF Longer
    <3> QED BY <3>1, <3>2
  <2>11. m < Len(q) => Longer(words, first, s) = Append(s, q[m + 1])
    <3> SUFFICES ASSUME m < Len(q) PROVE Longer(words, first, s) = Append(s, q[m + 1]) OBVIOUS
    <3>1. m + 1 \in 1..Len(q) BY <2>7
    <3>4. q[m + 1] \in Nat \ {NIL} BY <3>1, <1>2, ElementOfSeq DEF Linked
    <3>2. CASE s = <<>>
      <4>1. m = 0 /\ q # <<>> BY <2>9, <3>2, <3>1, EmptySeq
      <4>2. first = q[m + 1] BY <4>1 DEF Linked
      <4> QED BY <3>4, <3>2, <4>2 DEF Longer
    <3>3. CASE s # <<>>
      <4>1. Last(s) = s[m] /\ m \in 1..m BY <2>9, <3>3, FrontAndLast
      <4>2. Last(s) = q[m] /\ m \in 1..Len(q) BY <2>7, <2>9, <4>1
      <4>3. words[Last(s)] = q[m + 1] BY <4>2 DEF Linked
      <4> QED BY <3>4, <3>3, <4>3 DEF Longer
    <3> QED BY <3>2, <3>3
  <2>12. CASE m = Len(q)
    <3>1. f[n] = SubSeq(q, 1, Len(q)) BY <2>6, <2>8, <2>10, <2>12 DEF s
    <3> QED BY <2>7, <2>12, <2>14, <3>1
  <2>13. CASE m < Len(q)
    <3>1. m + 1 = n /\ n <= Len(q) /\ n \in Nat BY <2>2, <2>7, <2>13
    <3>2. SubSeq(q, 1, n) = Append(s, q[n])
      <4> DEFINE a == SubSeq(q, 1, n)
                 b == Append(s, q[n])
      <4>1. a \in Seq(1..Len(words)) /\ Len(a) = n /\ \A i \in 1..n : a[i] = q[i]
        <5>1. \A i \in 1..n : q[i] \in 1..Len(words) BY <1>2, <2>4, <3>1
        <5>2. 1 \in Int /\ n \in Int /\ n - 1 + 1 = n /\ 1 <= n BY <2>2, <2>3
        <5>3. \A i \in 1..n : 1 + i - 1 = i OBVIOUS
        <5> QED BY <5>1, <5>2, <5>3, SubSeqProperties
      <4>2. q[n] \in 1..Len(words) BY <1>2, <2>2, <2>3, <3>1
      <4>3. /\ b \in Seq(1..Len(words)) /\ Len(b) = m + 1
            /\ \A i \in 1..m : b[i] = s[i]
            /\ b[m + 1] = q[n]
        <5>1. /\ b \in Seq(1..Len(words)) /\ Len(b) = Len(s) + 1
              /\ \A i \in 1..Len(s) : b[i] = s[i]
              /\ b[Len(s) + 1] = q[n]
          BY <2>9, <4>2, AppendProperties
        <5> HIDE DEF b
        <5> QED BY <2>9, <5>1
      <4> HIDE DEF a, b
      <4>4. ASSUME NEW i \in 1..n PROVE a[i] = b[i]
        <5>1. CASE i = n BY <3>1, <4>1, <4>3, <5>1
        <5>2. CASE i # n
          <6>1. i \in 1..m BY <2>7, <3>1, <5>2
          <6> QED BY <2>9, <4>1, <4>3, <6>1
        <5> QED BY <5>1, <5>2
      <4>5. a = b BY <3>1, <4>1, <4>3, <4>4, <2>2, SeqEqual
      <4> QED BY <4>5 DEF a, b
    <3>3. f[n] = SubSeq(q, 1, n) BY <2>6, <2>8, <2>11, <2>13, <3>1, <3>2
    <3> QED BY <2>14, <3>1, <3>3
  <2> QED BY <2>7, <2>12, <2>13
<1>5. Fine(Len(words)) BY <1>4
<1>6. (IF Len(words) <= Len(q) THEN Len(words) ELSE Len(q)) = Len(q) BY <1>2, <1>3
<1>7. SubSeq(q, 1, Len(q)) = q
  <2> DEFINE a == SubSeq(q, 1, Len(q))
  <2>1. Len(q) - 1 + 1 = Len(q) /\ 1 \in Int /\ Len(q) \in Int BY <1>2
  <2>2. a \in Seq(1..Len(words)) /\ Len(a) = Len(q) /\ \A i \in 1..Len(q) : a[i] = q[i]
    BY <1>2, <2>1, SubSeqProperties
  <2> HIDE DEF a
  <2>3. a = q BY <2>2, SeqEqual
  <2> QED BY <2>3 DEF a
<1> QED BY <1>1, <1>5, <1>6, <1>7
-----------------------------------------------------------------------------
(* A chunk is its address, its data words and its meta words.  The chunks  *)
(* of a list of objects are told by their headers, those that are filed by *)
(* the keys.                                                               *)
ChunkAt(words, o)     == <<o, words[o + 3], words[o + 2] - Live(0)>>
LiveChunks(words, os) == { ChunkAt(words, o) : o \in os }
FiledChunks(f) ==
  UNION { { <<f[k][i], k[1], k[2]>> : i \in DOMAIN f[k] } : k \in DOMAIN f }

Start(c) == c[1] - c[3]
End(c)   == c[1] + HEADER + c[2]

(* Chunks that fit into n words, and into each other's gaps.               *)
Laid(C, n) ==
  /\ C \subseteq Nat \X Nat \X Nat
  /\ \A c \in C : 0 < Start(c) /\ End(c) <= n + 1
  /\ \A c, d \in C : c # d => End(c) <= Start(d) \/ End(d) <= Start(c)

(* The chunks of the objects os and the filed ones, F, share the words;    *)
(* and the flags tell which is which.  No object has a single meta word.   *)
Sound(words, os, F) ==
  /\ words \in Seq(Nat)
  /\ os \subseteq Nat
  /\ \A o \in os : words[o + 2] >= Live(0) /\ words[o + 2] # Live(1)
  /\ \A c \in F : words[c[1] + 2] \in {FREED, POISON}
  /\ Laid(LiveChunks(words, os) \cup F, Len(words))

(* A word belongs to one chunk at most.                                    *)
LEMMA OneOwner ==
  ASSUME NEW C, NEW n \in Nat, Laid(C, n), NEW c \in C, NEW d \in C, NEW x \in Int,
         Start(c) <= x, x < End(c), Start(d) <= x, x < End(d)
  PROVE  c = d
<1>1. c \in Nat \X Nat \X Nat /\ d \in Nat \X Nat \X Nat BY DEF Laid
<1>2. Start(c) \in Int /\ End(c) \in Int /\ Start(d) \in Int /\ End(d) \in Int
  BY <1>1 DEF Start, End, HEADER
<1>3. c # d => End(c) <= Start(d) \/ End(d) <= Start(c) BY DEF Laid
<1> QED BY <1>2, <1>3

(* Where a chunk lies.                                                     *)
LEMMA ChunkFits ==
  ASSUME NEW C, NEW n \in Nat, Laid(C, n), NEW c \in C
  PROVE  /\ c[1] \in Nat /\ c[2] \in Nat /\ c[3] \in Nat /\ c = <<c[1], c[2], c[3]>>
         /\ Start(c) \in Nat \ {0} /\ Start(c) <= c[1] /\ c[1] + 4 <= End(c) /\ End(c) <= n + 1
         /\ End(c) \in Nat
         /\ c[1] \in 1..n /\ c[1] + 1 \in 1..n /\ c[1] + 2 \in 1..n /\ c[1] + 3 \in 1..n
<1>1. c \in Nat \X Nat \X Nat /\ 0 < Start(c) /\ End(c) <= n + 1 BY DEF Laid
<1>2. c[1] \in Nat /\ c[2] \in Nat /\ c[3] \in Nat /\ c = <<c[1], c[2], c[3]>> BY <1>1
<1> QED BY <1>1, <1>2 DEF Start, End, HEADER

(* A chunk's flags and length are not within another chunk.                *)
LEMMA HeaderIsOwn ==
  ASSUME NEW C, NEW n \in Nat, Laid(C, n), NEW c \in C, NEW d \in C, c # d
  PROVE  /\ c[1] # d[1]
         /\ \A i \in 0..3 : ~(Start(d) <= c[1] + i /\ c[1] + i < End(d))
<1>1. /\ c[1] \in Nat /\ Start(c) <= c[1] /\ c[1] + 4 <= End(c) /\ Start(c) \in Nat /\ End(c) \in Nat
      /\ d[1] \in Nat /\ Start(d) <= d[1] /\ d[1] + 4 <= End(d) /\ Start(d) \in Nat /\ End(d) \in Nat
  BY ChunkFits
<1>2. ASSUME NEW i \in 0..3, Start(d) <= c[1] + i, c[1] + i < End(d) PROVE FALSE
  <2>1. c[1] + i \in Int /\ Start(c) <= c[1] + i /\ c[1] + i < End(c) BY <1>1
  <2> QED BY <1>2, <2>1, OneOwner
<1>3. c[1] # d[1]
  <2> SUFFICES ASSUME c[1] = d[1] PROVE FALSE OBVIOUS
  <2>1. 0 \in 0..3 /\ Start(d) <= c[1] + 0 /\ c[1] + 0 < End(d) BY <1>1
  <2> QED BY <1>2, <2>1
<1> QED BY <1>2, <1>3

(* What is written past the headers changes no chunk.                      *)
LEMMA SoundKept ==
  ASSUME NEW w, NEW os, NEW F, Sound(w, os, F),
         NEW v \in Seq(Nat), Len(w) <= Len(v),
         \A o \in os : v[o + 2] = w[o + 2] /\ v[o + 3] = w[o + 3],
         \A c \in F : v[c[1] + 2] = w[c[1] + 2]
  PROVE  Sound(v, os, F) /\ LiveChunks(v, os) = LiveChunks(w, os)
<1>1. LiveChunks(v, os) = LiveChunks(w, os) BY DEF LiveChunks, ChunkAt
<1>2. Len(w) \in Nat /\ Len(v) \in Nat BY LenProperties DEF Sound
<1>3. Laid(LiveChunks(v, os) \cup F, Len(v))
  <2> DEFINE C == LiveChunks(w, os) \cup F
  <2>1. Laid(C, Len(w)) BY DEF Sound
  <2> HIDE DEF C
  <2>2. ASSUME NEW c \in C PROVE End(c) <= Len(v) + 1
    <3>1. End(c) \in Nat /\ End(c) <= Len(w) + 1 BY <1>2, <2>1, ChunkFits
    <3> QED BY <1>2, <3>1
  <2>3. Laid(C, Len(v)) BY <2>1, <2>2 DEF Laid
  <2> QED BY <1>1, <2>3 DEF C
<1> QED BY <1>1, <1>3 DEF Sound

(* The chunk of an object, and a filed one, are two.                       *)
LEMMA LiveIsNotFiled ==
  ASSUME NEW w, NEW os, NEW F, Sound(w, os, F), NEW o \in os
  PROVE  /\ ChunkAt(w, o) \notin F
         /\ \A p \in os : ChunkAt(w, p) = ChunkAt(w, o) => p = o
         /\ ChunkAt(w, o) \in LiveChunks(w, os)
<1>1. ChunkAt(w, o)[1] = o BY DEF ChunkAt
<1>2. ChunkAt(w, o) \notin F
  <2>1. w[o + 2] >= 3 BY DEF Sound, Live
  <2> QED BY <1>1, <2>1 DEF Sound, FREED, POISON
<1> QED BY <1>2 DEF ChunkAt, LiveChunks

(* A word is written.                                                      *)
PutIn(v, w, x, y) == v = [w EXCEPT ![x] = y]
WithPut(v, w, x, y) ==
  /\ v \in Seq(Nat) /\ Len(v) = Len(w)
  /\ \A a \in 1..Len(w) : v[a] = IF a = x THEN y ELSE w[a]
LEMMA PutIs ==
  ASSUME NEW w \in Seq(Nat), NEW x \in 1..Len(w), NEW y \in Nat, NEW v, PutIn(v, w, x, y)
  PROVE  WithPut(v, w, x, y)
BY ExceptSeq DEF PutIn, WithPut

(* An object's chunk is filed: its flags are overwritten, and nothing else.*)
Flagged(v, w, o) == \E x \in {FREED, POISON} : PutIn(v, w, o + 2, x)
LEMMA SoundFree ==
  ASSUME NEW w, NEW os, NEW F, Sound(w, os, F), NEW o \in os,
         NEW v, Flagged(v, w, o)
  PROVE  /\ Sound(v, os \ {o}, F \cup {ChunkAt(w, o)})
         /\ LiveChunks(v, os \ {o}) \cup (F \cup {ChunkAt(w, o)}) = LiveChunks(w, os) \cup F
         /\ Len(v) = Len(w)
         /\ o + 2 \in 1..Len(w)
<1>13. PICK x \in {FREED, POISON} : PutIn(v, w, o + 2, x) BY DEF Flagged
<1> DEFINE C == LiveChunks(w, os) \cup F
           c == ChunkAt(w, o)
           G == F \cup {c}
           ps == os \ {o}
<1>1. w \in Seq(Nat) /\ Len(w) \in Nat /\ DOMAIN w = 1..Len(w) /\ Laid(C, Len(w))
  BY LenProperties DEF Sound
<1>2. c \in C /\ c[1] = o /\ c \notin F
  <2>1. c \in C /\ c \notin F BY LiveIsNotFiled
  <2>2. c[1] = o BY DEF ChunkAt
  <2> QED BY <2>1, <2>2
<1>3. \A p \in os : ChunkAt(w, p) \in C /\ ChunkAt(w, p)[1] = p /\ (p # o => ChunkAt(w, p) # c)
  BY DEF LiveChunks, ChunkAt
<1>4. C = LiveChunks(w, ps) \cup G
  BY DEF LiveChunks
<1> HIDE DEF C, c
<1>5. o + 2 \in 1..Len(w) /\ o \in Nat BY <1>1, <1>2, ChunkFits
<1>6. /\ v \in Seq(Nat) /\ Len(v) = Len(w) /\ v[o + 2] = x
      /\ \A a \in 1..Len(w) : a # o + 2 => v[a] = w[a]
  <2>1. x \in Nat BY DEF FREED, POISON
  <2>2. WithPut(v, w, o + 2, x) BY <1>1, <1>5, <1>13, <2>1, PutIs
  <2> QED BY <1>5, <2>2 DEF WithPut
<1>7. ASSUME NEW d \in C, d # c
      PROVE  v[d[1] + 2] = w[d[1] + 2] /\ v[d[1] + 3] = w[d[1] + 3]
  <2>1. d[1] \in Nat /\ d[1] + 2 \in 1..Len(w) /\ d[1] + 3 \in 1..Len(w) BY <1>1, ChunkFits
  <2>2. Start(c) \in Nat /\ End(c) \in Nat /\ Start(c) <= c[1] /\ c[1] + 4 <= End(c) BY <1>1, <1>2, ChunkFits
  <2>3. \A i \in 0..3 : ~(Start(c) <= d[1] + i /\ d[1] + i < End(c))
    BY <1>1, <1>2, <1>7, HeaderIsOwn
  <2>4. 2 \in 0..3 /\ 3 \in 0..3 OBVIOUS
  <2>5. d[1] + 2 # o + 2 BY <1>2, <1>5, <2>1, <2>2, <2>3, <2>4
  <2>6. d[1] + 3 # o + 2 BY <1>2, <1>5, <2>1, <2>2, <2>3, <2>4
  <2> QED BY <1>6, <2>1, <2>5, <2>6
<1>8. \A p \in ps : v[p + 2] = w[p + 2] /\ v[p + 3] = w[p + 3]
  BY <1>3, <1>7
<1>9. LiveChunks(v, ps) = LiveChunks(w, ps) BY <1>8 DEF LiveChunks, ChunkAt
<1>10. \A d \in G : v[d[1] + 2] \in {FREED, POISON}
  <2>1. F \subseteq C BY <1>4
  <2>2. \A d \in F : w[d[1] + 2] \in {FREED, POISON} BY DEF Sound
  <2>3. \A d \in F : d # c BY <1>2
  <2> QED BY <1>2, <1>6, <1>7, <2>1, <2>2, <2>3
<1>11. ps \subseteq Nat /\ \A p \in ps : v[p + 2] >= Live(0) /\ v[p + 2] # Live(1)
  BY <1>8 DEF Sound
<1>12. Sound(v, ps, G) BY <1>1, <1>4, <1>6, <1>9, <1>10, <1>11 DEF Sound
<1> QED BY <1>4, <1>5, <1>6, <1>9, <1>12 DEF C, c

(* A filed chunk becomes an object: its header is written anew, and its    *)
(* data, and nothing else.                                                 *)
LEMMA SoundTake ==
  ASSUME NEW w, NEW os, NEW F, Sound(w, os, F), NEW c \in F,
         NEW v \in Seq(Nat), Len(v) = Len(w),
         v[c[1] + 2] = Live(c[3]), v[c[1] + 3] = c[2], c[3] # 1,
         \A a \in 1..Len(w) : a < c[1] \/ End(c) <= a => v[a] = w[a]
  PROVE  /\ Sound(v, os \cup {c[1]}, F \ {c})
         /\ c[1] \notin os
         /\ \A o \in os : ChunkAt(v, o) = ChunkAt(w, o)
<1> DEFINE C == LiveChunks(w, os) \cup F
           o == c[1]
           ps == os \cup {o}
<1>1. w \in Seq(Nat) /\ Len(w) \in Nat /\ DOMAIN w = 1..Len(w) /\ Laid(C, Len(w))
  BY LenProperties DEF Sound
<1>2. /\ c \in C /\ c = <<c[1], c[2], c[3]>> /\ o \in Nat /\ c[3] \in Nat /\ c[2] \in Nat
      /\ Start(c) \in Nat /\ End(c) \in Nat /\ Start(c) <= o /\ o + 4 <= End(c)
  <2>1. c \in C OBVIOUS
  <2> HIDE DEF C
  <2> QED BY <1>1, <2>1, ChunkFits
<1>3. \A p \in os : ChunkAt(w, p) \in C /\ ChunkAt(w, p)[1] = p /\ ChunkAt(w, p) # c
  BY LiveIsNotFiled DEF ChunkAt
<1>4. F \subseteq C OBVIOUS
<1>5. \A d \in C : d \in F \/ \E p \in os : d = ChunkAt(w, p) BY DEF LiveChunks
<1> HIDE DEF C
<1>6. ASSUME NEW d \in C, d # c
      PROVE  v[d[1] + 2] = w[d[1] + 2] /\ v[d[1] + 3] = w[d[1] + 3] /\ d[1] # o
  <2>1. d[1] \in Nat /\ d[1] + 2 \in 1..Len(w) /\ d[1] + 3 \in 1..Len(w) BY <1>1, ChunkFits
  <2>2. \A i \in 0..3 : ~(Start(c) <= d[1] + i /\ d[1] + i < End(c))
    BY <1>1, <1>2, <1>6, HeaderIsOwn
  <2>3. 2 \in 0..3 /\ 3 \in 0..3 OBVIOUS
  <2>7. ~(Start(c) <= d[1] + 2 /\ d[1] + 2 < End(c)) /\ ~(Start(c) <= d[1] + 3 /\ d[1] + 3 < End(c))
    BY <2>2, <2>3
  <2>8. o \in Nat /\ Start(c) \in Nat /\ End(c) \in Nat /\ Start(c) <= o BY <1>2
  <2> HIDE DEF o
  <2>4. d[1] + 2 < o \/ End(c) <= d[1] + 2 BY <2>1, <2>7, <2>8
  <2>5. d[1] + 3 < o \/ End(c) <= d[1] + 3 BY <2>1, <2>7, <2>8
  <2> USE DEF o
  <2>6. d[1] # o BY <1>1, <1>2, <1>6, HeaderIsOwn
  <2> QED BY <2>1, <2>4, <2>5, <2>6
<1>7. o \notin os BY <1>3, <1>6
<1>8. \A p \in os : v[p + 2] = w[p + 2] /\ v[p + 3] = w[p + 3] BY <1>3, <1>6
<1>9. \A p \in os : ChunkAt(v, p) = ChunkAt(w, p) BY <1>8 DEF ChunkAt
<1>10. ChunkAt(v, o) = c
  <2>1. Live(c[3]) - Live(0) = c[3] BY <1>2 DEF Live
  <2> QED BY <1>2, <2>1 DEF ChunkAt
<1>11. LiveChunks(v, ps) \cup (F \ {c}) = C
  BY <1>9, <1>10 DEF LiveChunks, C
<1>12. \A p \in ps : v[p + 2] >= Live(0) /\ v[p + 2] # Live(1)
  <2>1. c[3] \in Nat /\ c[3] # 1 BY <1>2
  <2>2. Live(c[3]) >= Live(0) /\ Live(c[3]) # Live(1) BY <2>1 DEF Live
  <2>3. v[o + 2] >= Live(0) /\ v[o + 2] # Live(1) BY <2>2
  <2> QED BY <1>8, <2>3 DEF Sound
<1>13. \A d \in F \ {c} : v[d[1] + 2] \in {FREED, POISON}
  BY <1>4, <1>6 DEF Sound
<1>14. ps \subseteq Nat BY <1>2 DEF Sound
<1> QED BY <1>1, <1>7, <1>9, <1>11, <1>12, <1>13, <1>14 DEF Sound

(* A chunk is laid at the end of the words.                                *)
LEMMA SoundGrow ==
  ASSUME NEW w, NEW os, NEW F, Sound(w, os, F), NEW o \in Nat, NEW n \in Nat, NEW m \in Nat,
         NEW v \in Seq(Nat), Len(w) < o - m, o + 4 + n <= Len(v) + 1,
         v[o + 2] = Live(m), v[o + 3] = n, m # 1,
         \A a \in 1..Len(w) : v[a] = w[a]
  PROVE  /\ Sound(v, os \cup {o}, F)
         /\ o \notin os
         /\ \A p \in os : ChunkAt(v, p) = ChunkAt(w, p)
<1> DEFINE C == LiveChunks(w, os) \cup F
           ps == os \cup {o}
           c == <<o, n, m>>
<1>1. w \in Seq(Nat) /\ Len(w) \in Nat /\ DOMAIN w = 1..Len(w) /\ Laid(C, Len(w)) /\ Len(v) \in Nat
  BY LenProperties DEF Sound
<1>2. \A p \in os : ChunkAt(w, p) \in C /\ ChunkAt(w, p)[1] = p BY DEF LiveChunks, ChunkAt
<1>3. F \subseteq C OBVIOUS
<1> HIDE DEF C
<1>4. ASSUME NEW d \in C
      PROVE  v[d[1] + 2] = w[d[1] + 2] /\ v[d[1] + 3] = w[d[1] + 3] /\ d[1] # o
  <2>1. d[1] \in 1..Len(w) /\ d[1] + 2 \in 1..Len(w) /\ d[1] + 3 \in 1..Len(w) BY <1>1, ChunkFits
  <2>2. Len(w) \in Nat /\ Len(w) < o BY <1>1
  <2>3. d[1] # o BY <2>1, <2>2
  <2> QED BY <2>1, <2>3
<1>5. o \notin os BY <1>2, <1>4
<1>6. \A p \in os : v[p + 2] = w[p + 2] /\ v[p + 3] = w[p + 3] BY <1>2, <1>4
<1>7. \A p \in os : ChunkAt(v, p) = ChunkAt(w, p) BY <1>6 DEF ChunkAt
<1>8. ChunkAt(v, o) = c
  <2>1. Live(m) - Live(0) = m BY DEF Live
  <2> QED BY <2>1 DEF ChunkAt
<1>9. LiveChunks(v, ps) \cup F = C \cup {c} BY <1>7, <1>8 DEF LiveChunks, C
<1>10. \A p \in ps : v[p + 2] >= Live(0) /\ v[p + 2] # Live(1)
  <2>1. Live(m) >= Live(0) /\ Live(m) # Live(1) BY DEF Live
  <2> QED BY <1>6, <2>1 DEF Sound
<1>11. \A d \in F : v[d[1] + 2] \in {FREED, POISON} BY <1>3, <1>4 DEF Sound
<1>12. Start(c) = o - m /\ End(c) = o + 4 + n /\ c \in Nat \X Nat \X Nat BY DEF Start, End, HEADER
<1> HIDE DEF c
<1>13. \A d \in C : /\ Start(d) \in Nat \ {0} /\ End(d) \in Nat /\ End(d) <= Len(w) + 1
                    /\ d \in Nat \X Nat \X Nat
  BY <1>1, ChunkFits DEF Laid
<1>14. \A d, e \in C : d # e => End(d) <= Start(e) \/ End(e) <= Start(d) BY <1>1 DEF Laid
<1>15. \A d \in C : End(d) <= Start(c) BY <1>1, <1>12, <1>13
<1>16. Laid(C \cup {c}, Len(v))
  <2>1. C \cup {c} \subseteq Nat \X Nat \X Nat BY <1>12, <1>13
  <2>2. ASSUME NEW d \in C \cup {c} PROVE 0 < Start(d) /\ End(d) <= Len(v) + 1
    <3>1. CASE d = c BY <1>1, <1>12, <3>1
    <3>2. CASE d \in C
      <4>1. Len(w) \in Nat /\ Len(v) \in Nat /\ Len(w) + 1 <= Len(v) + 1 BY <1>1
      <4>2. Start(d) \in Nat \ {0} /\ End(d) \in Nat /\ End(d) <= Len(w) + 1 BY <1>13, <3>2
      <4> QED BY <4>1, <4>2
    <3> QED BY <3>1, <3>2
  <2>3. \A d, e \in C \cup {c} : d # e => End(d) <= Start(e) \/ End(e) <= Start(d)
    BY <1>14, <1>15
  <2> QED BY <2>1, <2>2, <2>3 DEF Laid
<1>17. ps \subseteq Nat BY DEF Sound
<1> QED BY <1>1, <1>5, <1>7, <1>9, <1>10, <1>11, <1>16, <1>17 DEF Sound

-----------------------------------------------------------------------------
(* The free lists: each chunk is on the list of its shape, once.           *)
Lists(f) ==
  /\ DOMAIN f \subseteq Nat \X Nat
  /\ \A k \in DOMAIN f :
       f[k] \in Seq(Nat) /\ \A i, j \in 1..Len(f[k]) : f[k][i] = f[k][j] => i = j

FiledAs(f, k, o) ==
  [j \in DOMAIN f \cup {k} |->
     (IF j \in DOMAIN f THEN f[j] ELSE <<>>) \o (IF j = k THEN <<o>> ELSE <<>>)]

LEMMA FiledIs ==
  ASSUME NEW f, NEW o
  PROVE  Filed(f, o) = FiledAs(f, <<Size(o), Meta(o)>>, o)
BY DEF Filed, FiledAs

LEMMA FiledMembers ==
  ASSUME NEW f, Lists(f), NEW c
  PROVE  c \in FiledChunks(f) <=>
           \E k \in DOMAIN f : \E i \in 1..Len(f[k]) : c = <<f[k][i], k[1], k[2]>>
<1>1. \A k \in DOMAIN f : DOMAIN f[k] = 1..Len(f[k]) BY LenProperties DEF Lists
<1> QED BY <1>1 DEF FiledChunks

(* Filing a chunk adds it to those filed.                                  *)
LEMMA FilingAdds ==
  ASSUME NEW f, Lists(f), NEW n \in Nat, NEW m \in Nat, NEW o \in Nat,
         <<o, n, m>> \notin FiledChunks(f)
  PROVE  LET g == FiledAs(f, <<n, m>>, o)
         IN  Lists(g) /\ FiledChunks(g) = FiledChunks(f) \cup {<<o, n, m>>}
<1> DEFINE k == <<n, m>>
           g == FiledAs(f, k, o)
           old == IF k \in DOMAIN f THEN f[k] ELSE <<>>
           new == Append(old, o)
<1>1. old \in Seq(Nat) BY EmptySeq DEF Lists
<1>2. DOMAIN g = DOMAIN f \cup {k} BY DEF FiledAs
<1>3. g[k] = new
  <2>1. g[k] = old \o <<o>> BY DEF FiledAs
  <2>2. old \o <<o>> = Append(old, o) BY <1>1, AppendIsConcat
  <2> QED BY <2>1, <2>2
<1>4. \A j \in DOMAIN f : j # k => g[j] = f[j]
  <2> TAKE j \in DOMAIN f
  <2> HAVE j # k
  <2>1. g[j] = f[j] \o <<>> BY DEF FiledAs
  <2>2. f[j] \in Seq(Nat) BY DEF Lists
  <2> QED BY <2>1, <2>2, ConcatEmptySeq
<1>5. /\ new \in Seq(Nat) /\ Len(new) = Len(old) + 1 /\ Len(old) \in Nat
      /\ \A i \in 1..Len(old) : new[i] = old[i]
      /\ new[Len(old) + 1] = o
  BY <1>1, AppendProperties, LenProperties
<1>6. \A i \in 1..Len(old) : old[i] # o
  <2>1. SUFFICES ASSUME NEW i \in 1..Len(old), old[i] = o PROVE FALSE OBVIOUS
  <2>2. k \in DOMAIN f
    <3> SUFFICES ASSUME k \notin DOMAIN f PROVE FALSE OBVIOUS
    <3>1. Len(old) = 0 BY EmptySeq
    <3> QED BY <2>1, <3>1
  <2>3. <<f[k][i], k[1], k[2]>> \in FiledChunks(f) BY <2>1, <2>2, FiledMembers
  <2> QED BY <2>1, <2>2, <2>3
<1>7. \A i, j \in 1..Len(old) : old[i] = old[j] => i = j
  <2>1. CASE k \in DOMAIN f BY <2>1 DEF Lists
  <2>2. CASE k \notin DOMAIN f
    <3>1. Len(old) = 0 BY <2>2, EmptySeq
    <3> QED BY <3>1
  <2> QED BY <2>1, <2>2
<1>8. \A x : (\E i \in 1..Len(new) : x = new[i]) <=> x = o \/ \E i \in 1..Len(old) : x = old[i]
  <2> HIDE DEF old, new
  <2> TAKE x
  <2>1. Len(old) + 1 \in 1..Len(new) /\ \A i \in 1..Len(old) : i \in 1..Len(new) BY <1>5
  <2>2. \A i \in 1..Len(new) : i = Len(old) + 1 \/ i \in 1..Len(old) BY <1>5
  <2> QED BY <1>5, <2>1, <2>2
<1>9. \A i, j \in 1..Len(new) : new[i] = new[j] => i = j
  <2> HIDE DEF old, new
  <2> QED BY <1>5, <1>6, <1>7
<1>10. (k \in DOMAIN f => f[k] = old) /\ (k \notin DOMAIN f => ~ \E i \in 1..Len(old) : TRUE)
  BY EmptySeq
<1>11. k \in Nat \X Nat /\ k[1] = n /\ k[2] = m OBVIOUS
<1> HIDE DEF g, old, new, k
<1>12. Lists(g)
  <2>1. DOMAIN g \subseteq Nat \X Nat BY <1>2, <1>11 DEF Lists
  <2>2. ASSUME NEW j \in DOMAIN g
        PROVE  g[j] \in Seq(Nat) /\ \A h, i \in 1..Len(g[j]) : g[j][h] = g[j][i] => h = i
    <3>1. CASE j = k BY <1>3, <1>5, <1>9, <3>1
    <3>2. CASE j # k BY <1>2, <1>4, <3>2 DEF Lists
    <3> QED BY <3>1, <3>2
  <2> QED BY <2>1, <2>2 DEF Lists
<1>13. ASSUME NEW c PROVE c \in FiledChunks(g) <=> c \in FiledChunks(f) \/ c = <<o, n, m>>
  <2>1. ASSUME NEW j \in DOMAIN g, NEW i \in 1..Len(g[j]), c = <<g[j][i], j[1], j[2]>>
        PROVE  c \in FiledChunks(f) \/ c = <<o, n, m>>
    <3>1. CASE j # k
      <4>1. j \in DOMAIN f /\ g[j] = f[j] BY <1>2, <1>4, <2>1, <3>1
      <4> QED BY <2>1, <4>1, FiledMembers
    <3>2. CASE j = k
      <4>1. g[j][i] = o \/ \E h \in 1..Len(old) : g[j][i] = old[h] BY <1>3, <1>8, <2>1, <3>2
      <4>2. CASE g[j][i] = o BY <1>11, <2>1, <3>2, <4>2
      <4>3. CASE \E h \in 1..Len(old) : g[j][i] = old[h]
        <5>1. k \in DOMAIN f /\ f[k] = old BY <1>10, <4>3
        <5>2. \E h \in 1..Len(f[k]) : c = <<f[k][h], k[1], k[2]>> BY <2>1, <3>2, <4>3, <5>1
        <5> QED BY <5>1, <5>2, FiledMembers
      <4> QED BY <4>1, <4>2, <4>3
    <3> QED BY <3>1, <3>2
  <2>2. ASSUME NEW j \in DOMAIN f, NEW i \in 1..Len(f[j]), c = <<f[j][i], j[1], j[2]>>
        PROVE  c \in FiledChunks(g)
    <3>1. j \in DOMAIN g BY <1>2
    <3>2. \E h \in 1..Len(g[j]) : f[j][i] = g[j][h]
      <4>1. CASE j = k BY <1>3, <1>8, <1>10, <2>2, <4>1
      <4>2. CASE j # k BY <1>4, <2>2, <4>2
      <4> QED BY <4>1, <4>2
    <3> QED BY <1>12, <2>2, <3>1, <3>2, FiledMembers
  <2>3. <<o, n, m>> \in FiledChunks(g)
    <3>1. k \in DOMAIN g /\ \E h \in 1..Len(g[k]) : o = g[k][h] BY <1>2, <1>3, <1>8
    <3> QED BY <1>11, <1>12, <3>1, FiledMembers
  <2> QED BY <1>12, <2>1, <2>2, <2>3, FiledMembers
<1>14. FiledChunks(g) = FiledChunks(f) \cup {<<o, n, m>>} BY <1>13
<1> QED BY <1>12, <1>14 DEF g, k

(* Taking the last chunk of a list takes it from those filed.              *)
LEMMA TakingRemoves ==
  ASSUME NEW f, Lists(f), NEW k \in DOMAIN f, f[k] # <<>>
  PROVE  LET g == [f EXCEPT ![k] = Front(@)]
             c == <<Last(f[k]), k[1], k[2]>>
         IN  /\ Lists(g) /\ c \in FiledChunks(f)
             /\ FiledChunks(g) = FiledChunks(f) \ {c}
<1> DEFINE g == [f EXCEPT ![k] = Front(@)]
           c == <<Last(f[k]), k[1], k[2]>>
           N == Len(f[k])
<1>1. f[k] \in Seq(Nat) /\ \A i, j \in 1..N : f[k][i] = f[k][j] => i = j BY DEF Lists
<1>2. /\ DOMAIN g = DOMAIN f /\ g[k] = Front(f[k])
      /\ \A j \in DOMAIN f : j # k => g[j] = f[j]
  OBVIOUS
<1>3. /\ N \in Nat \ {0} /\ Front(f[k]) \in Seq(Nat) /\ Len(Front(f[k])) = N - 1
      /\ \A i \in 1..N - 1 : Front(f[k])[i] = f[k][i]
      /\ Last(f[k]) = f[k][N]
  BY <1>1, FrontAndLast
<1>4. k \in Nat \X Nat /\ \A j \in DOMAIN f : j \in Nat \X Nat BY DEF Lists
<1> HIDE DEF g, N
<1>5. c \in FiledChunks(f)
  <2>1. N \in 1..N BY <1>3
  <2> QED BY <1>3, <2>1, FiledMembers DEF N
<1>6. Lists(g)
  <2>1. ASSUME NEW j \in DOMAIN g
        PROVE  g[j] \in Seq(Nat) /\ \A h, i \in 1..Len(g[j]) : g[j][h] = g[j][i] => h = i
    <3>1. CASE j = k
      <4>1. g[j] \in Seq(Nat) /\ Len(g[j]) = N - 1 /\ \A i \in 1..N - 1 : g[j][i] = f[k][i]
        BY <1>2, <1>3, <3>1
      <4>2. \A i \in 1..N - 1 : i \in 1..N BY <1>3
      <4> QED BY <1>1, <4>1, <4>2
    <3>2. CASE j # k BY <1>2, <3>2 DEF Lists
    <3> QED BY <3>1, <3>2
  <2>2. DOMAIN g \subseteq Nat \X Nat BY <1>2 DEF Lists
  <2> QED BY <2>1, <2>2 DEF Lists
<1>7. ASSUME NEW d PROVE d \in FiledChunks(g) <=> d \in FiledChunks(f) /\ d # c
  <2>1. ASSUME NEW j \in DOMAIN g, NEW i \in 1..Len(g[j]), d = <<g[j][i], j[1], j[2]>>
        PROVE  d \in FiledChunks(f) /\ d # c
    <3>1. CASE j = k
      <4>1. Len(g[j]) = N - 1 /\ g[j][i] = f[k][i] /\ i \in 1..N /\ i # N /\ N \in 1..N
        BY <1>2, <1>3, <2>1, <3>1
      <4>2. d[1] = f[k][i] /\ c[1] = f[k][N] BY <1>3, <2>1, <4>1
      <4>3. f[k][i] # f[k][N] BY <1>1, <4>1
      <4>4. i \in 1..Len(f[k]) BY <4>1 DEF N
      <4>5. d = <<f[k][i], k[1], k[2]>> BY <2>1, <3>1, <4>1
      <4> QED BY <4>2, <4>3, <4>4, <4>5, FiledMembers
    <3>2. CASE j # k
      <4>1. j \in DOMAIN f /\ g[j] = f[j] BY <1>2, <3>2
      <4>2. d \in FiledChunks(f) BY <2>1, <4>1, FiledMembers
      <4>3. j[1] # k[1] \/ j[2] # k[2] BY <1>4, <3>2, <4>1
      <4>4. d[2] = j[1] /\ d[3] = j[2] /\ c[2] = k[1] /\ c[3] = k[2] BY <2>1
      <4> QED BY <4>2, <4>3, <4>4
    <3> QED BY <3>1, <3>2
  <2>2. ASSUME NEW j \in DOMAIN f, NEW i \in 1..Len(f[j]), d = <<f[j][i], j[1], j[2]>>, d # c
        PROVE  d \in FiledChunks(g)
    <3>1. CASE j = k
      <4>1. i \in 1..N BY <3>1, <2>2 DEF N
      <4>2. i # N BY <1>3, <2>2, <3>1
      <4>3. i \in 1..N - 1 BY <1>3, <4>1, <4>2
      <4>4. j \in DOMAIN g /\ i \in 1..Len(g[j]) /\ g[j][i] = f[j][i] BY <1>2, <1>3, <3>1, <4>3
      <4> QED BY <1>6, <2>2, <4>4, FiledMembers
    <3>2. CASE j # k
      <4>1. j \in DOMAIN g /\ g[j] = f[j] BY <1>2, <3>2
      <4> QED BY <1>6, <2>2, <4>1, FiledMembers
    <3> QED BY <3>1, <3>2
  <2> QED BY <1>6, <2>1, <2>2, FiledMembers
<1>8. FiledChunks(g) = FiledChunks(f) \ {c} BY <1>7
<1> QED BY <1>5, <1>6, <1>8 DEF g
-----------------------------------------------------------------------------
(* All of it: the chain q from the first object, the lists, the words both *)
(* lie in, and the count.                                                  *)
Shape(words, first, count, f, q) ==
  /\ Linked(q, words, first)
  /\ Lists(f)
  /\ Sound(words, ToSet(q), FiledChunks(f))
  /\ count = Len(q)

IInv ==
  /\ Len(heap) <= MaxWords
  /\ policy \in Policies \cup {0} /\ poisoning \in BOOLEAN
  /\ Shape(heap, head, live, free, Chain)
  /\ held \subseteq Objects

(* The objects of a chain.                                                 *)
LEMMA OnChain ==
  ASSUME NEW S, NEW q \in Seq(S)
  PROVE  ToSet(q) \subseteq S /\ \A o : o \in ToSet(q) <=> \E i \in 1..Len(q) : o = q[i]
<1>1. DOMAIN q = 1..Len(q) /\ \A i \in 1..Len(q) : q[i] \in S BY LenProperties, ElementOfSeq
<1> QED BY <1>1 DEF ToSet

LEMMA LinkedKept ==
  ASSUME NEW q, NEW w, NEW first, Linked(q, w, first), NEW v,
         \A o \in ToSet(q) : v[o] = w[o]
  PROVE  Linked(q, v, first)
<1>1. \A i \in 1..Len(q) : q[i] \in ToSet(q) BY OnChain DEF Linked
<1> QED BY <1>1 DEF Linked

(* An object in front of the chain.                                        *)
InFront(r, o, q)         == r = <<o>> \o q
Links(v, w, q, o, first) == v[o] = first /\ \A p \in ToSet(q) : v[p] = w[p]
LEMMA LinkedPush ==
  ASSUME NEW q, NEW w, NEW first, Linked(q, w, first), NEW v,
         NEW o \in Nat \ {NIL}, o \notin ToSet(q), Links(v, w, q, o, first),
         NEW r, InFront(r, o, q)
  PROVE  /\ Linked(r, v, o)
         /\ ToSet(r) = ToSet(q) \cup {o}
         /\ Len(r) = Len(q) + 1
<1>1. q \in Seq(Nat \ {NIL}) /\ Len(q) \in Nat BY LenProperties DEF Linked
<1>2. /\ <<o>> \in Seq(Nat \ {NIL}) /\ Len(<<o>>) = 1 /\ <<o>>[1] = o
  OBVIOUS
<1>3. /\ r \in Seq(Nat \ {NIL}) /\ Len(r) = Len(q) + 1 /\ r[1] = o
      /\ \A i \in 1..Len(q) : r[i + 1] = q[i]
  <2>1. /\ r \in Seq(Nat \ {NIL}) /\ Len(r) = 1 + Len(q)
        /\ \A i \in 1..1 + Len(q) : r[i] = IF i <= 1 THEN <<o>>[i] ELSE q[i - 1]
    BY <1>1, <1>2, ConcatProperties DEF InFront
  <2>2. 1 \in 1..1 + Len(q) BY <1>1
  <2>3. \A i \in 1..Len(q) : i + 1 \in 1..1 + Len(q) /\ ~(i + 1 <= 1) /\ i + 1 - 1 = i BY <1>1
  <2> QED BY <1>1, <1>2, <2>1, <2>2, <2>3
<1>4. \A i \in 1..Len(r) : i = 1 \/ \E j \in 1..Len(q) : i = j + 1
  <2> TAKE i \in 1..Len(r)
  <2>1. i # 1 => i - 1 \in 1..Len(q) /\ i = (i - 1) + 1 BY <1>1, <1>3
  <2> QED BY <2>1
<1>5. \A p : p \in ToSet(q) <=> \E i \in 1..Len(q) : p = q[i] BY <1>1, OnChain
<1>6. \A p : p \in ToSet(r) <=> \E i \in 1..Len(r) : p = r[i]
  BY <1>3, OnChain
<1>7. 1 \in 1..Len(r) /\ \A j \in 1..Len(q) : j + 1 \in 1..Len(r) BY <1>1, <1>3
<1>8. ToSet(r) = ToSet(q) \cup {o}
  <2>1. o \in ToSet(r) BY <1>3, <1>6, <1>7
  <2>2. \A p \in ToSet(q) : p \in ToSet(r)
    <3> TAKE p \in ToSet(q)
    <3>1. PICK j \in 1..Len(q) : p = q[j] BY <1>5
    <3> QED BY <1>3, <1>6, <1>7, <3>1
  <2>3. \A p \in ToSet(r) : p = o \/ p \in ToSet(q)
    <3> TAKE p \in ToSet(r)
    <3>1. PICK i \in 1..Len(r) : p = r[i] BY <1>6
    <3>2. CASE i = 1 BY <1>3, <3>1, <3>2
    <3>3. CASE i # 1
      <4>1. PICK j \in 1..Len(q) : i = j + 1 BY <1>4, <3>3
      <4> QED BY <1>3, <1>5, <3>1, <4>1
    <3> QED BY <3>2, <3>3
  <2> QED BY <2>1, <2>2, <2>3
<1>9. \A i, j \in 1..Len(r) : r[i] = r[j] => i = j
  <2> SUFFICES ASSUME NEW i \in 1..Len(r), NEW j \in 1..Len(r), r[i] = r[j] PROVE i = j OBVIOUS
  <2>1. CASE i = 1 /\ j = 1 BY <2>1
  <2>5. \A h \in 1..Len(r) : h # 1 => r[h] # r[1]
    <3> TAKE h \in 1..Len(r)
    <3> HAVE h # 1
    <3>1. PICK k \in 1..Len(q) : h = k + 1 BY <1>4
    <3>2. r[h] \in ToSet(q) BY <1>3, <1>5, <3>1
    <3> QED BY <1>3, <3>2
  <2>2. CASE i = 1 /\ j # 1 BY <2>2, <2>5
  <2>3. CASE i # 1 /\ j = 1 BY <2>3, <2>5
  <2>4. CASE i # 1 /\ j # 1
    <3>1. PICK h \in 1..Len(q) : i = h + 1 BY <1>4, <2>4
    <3>2. PICK k \in 1..Len(q) : j = k + 1 BY <1>4, <2>4
    <3>3. h = k BY <1>3, <3>1, <3>2 DEF Linked
    <3> QED BY <3>1, <3>2, <3>3
  <2> QED BY <2>1, <2>2, <2>3, <2>4
<1>10. \A i \in 1..Len(r) : v[r[i]] = IF i = Len(r) THEN NIL ELSE r[i + 1]
  <2> TAKE i \in 1..Len(r)
  <2>1. CASE i = 1
    <3>1. v[r[i]] = first BY <1>3, <2>1 DEF Links
    <3>2. CASE q = <<>>
      <4>1. first = NIL /\ Len(r) = 1 BY <1>3, <3>2 DEF Linked
      <4> QED BY <2>1, <3>1, <4>1
    <3>3. CASE q # <<>>
      <4>1. Len(q) # 0 BY <1>1, <3>3, EmptySeq
      <4>2. first = q[1] /\ 1 \in 1..Len(q) /\ Len(r) # 1 BY <1>1, <1>3, <3>3, <4>1 DEF Linked
      <4>3. r[1 + 1] = q[1] BY <1>3, <4>2
      <4> QED BY <2>1, <3>1, <4>2, <4>3
    <3> QED BY <3>2, <3>3
  <2>2. CASE i # 1
    <3>1. PICK j \in 1..Len(q) : i = j + 1 BY <1>4, <2>2
    <3>2. r[i] = q[j] /\ q[j] \in ToSet(q) BY <1>3, <1>5, <3>1
    <3>3. v[r[i]] = IF j = Len(q) THEN NIL ELSE q[j + 1] BY <3>2 DEF Linked, Links
    <3>4. CASE j = Len(q) BY <1>3, <3>1, <3>3, <3>4
    <3>5. CASE j # Len(q)
      <4>1. j + 1 \in 1..Len(q) /\ i # Len(r) BY <1>1, <1>3, <3>1, <3>5
      <4>2. r[i + 1] = q[j + 1] BY <1>3, <3>1, <4>1
      <4> QED BY <3>3, <3>5, <4>1, <4>2
    <3> QED BY <3>4, <3>5
  <2> QED BY <2>1, <2>2
<1>11. r # <<>> BY <1>1, <1>3, EmptySeq
<1>12. Linked(r, v, o) BY <1>3, <1>9, <1>10, <1>11 DEF Linked
<1> QED BY <1>3, <1>8, <1>12

(* The walk down the links finds the chain.                                *)
LEMMA ChainOfShape ==
  ASSUME NEW w, NEW first, NEW n, NEW f, NEW q, Shape(w, first, n, f, q)
  PROVE  ChainFrom(w, first) = q /\ ToSet(q) \subseteq 1..Len(w)
<1>1. w \in Seq(Nat) /\ Len(w) \in Nat /\ q \in Seq(Nat \ {NIL}) /\ DOMAIN q = 1..Len(q)
  BY LenProperties DEF Shape, Sound, Linked
<1>2. \A o \in ToSet(q) : o \in 1..Len(w)
  <2> TAKE o \in ToSet(q)
  <2>1. ChunkAt(w, o) \in LiveChunks(w, ToSet(q)) \cup FiledChunks(f) /\ ChunkAt(w, o)[1] = o
    BY DEF LiveChunks, ChunkAt
  <2>2. Laid(LiveChunks(w, ToSet(q)) \cup FiledChunks(f), Len(w)) BY DEF Shape, Sound
  <2> QED BY <1>1, <2>1, <2>2, ChunkFits
<1>3. \A i \in 1..Len(q) : q[i] \in 1..Len(w) BY <1>1, <1>2, OnChain
<1>4. q \in Seq(1..Len(w))
  <2>1. q \in [1..Len(q) -> Nat \ {NIL}] /\ Len(q) \in Nat BY <1>1, LenProperties
  <2>2. q \in [1..Len(q) -> 1..Len(w)] BY <1>3, <2>1
  <2> QED BY <2>1, <2>2
<1> QED BY <1>1, <1>2, <1>4, ChainIs DEF Shape

(* Where an object lies.                                                   *)
LEMMA ObjectFits ==
  ASSUME NEW w, NEW os, NEW F, Sound(w, os, F), NEW o \in os
  PROVE  LET n == w[o + 3]
             m == w[o + 2] - 3
         IN  /\ Len(w) \in Nat /\ DOMAIN w = 1..Len(w) /\ \A a \in 1..Len(w) : w[a] \in Nat
             /\ o \in Nat /\ n \in Nat /\ m \in Nat /\ m # 1 /\ 0 < o - m /\ o + 4 + n <= Len(w) + 1
             /\ o \in 1..Len(w) /\ o + 2 \in 1..Len(w) /\ o + 3 \in 1..Len(w)
             /\ w[o + 2] >= 3
             /\ Start(ChunkAt(w, o)) = o - m /\ End(ChunkAt(w, o)) = o + 4 + n
<1> DEFINE c == ChunkAt(w, o)
           C == LiveChunks(w, os) \cup F
<1>1. Len(w) \in Nat /\ DOMAIN w = 1..Len(w) /\ (\A a \in 1..Len(w) : w[a] \in Nat) /\ Laid(C, Len(w))
  BY LenProperties, ElementOfSeq DEF Sound
<1>2. c \in C BY DEF LiveChunks
<1>3. c[1] = o /\ c[2] = w[o + 3] /\ c[3] = w[o + 2] - 3 BY DEF ChunkAt, Live
<1>4. w[o + 2] # 4 /\ w[o + 2] >= 3 BY DEF Sound, Live
<1> HIDE DEF c, C
<1>5. /\ c[1] \in Nat /\ c[2] \in Nat /\ c[3] \in Nat
      /\ Start(c) \in Nat \ {0} /\ End(c) <= Len(w) + 1
      /\ c[1] \in 1..Len(w) /\ c[1] + 2 \in 1..Len(w) /\ c[1] + 3 \in 1..Len(w)
  BY <1>1, <1>2, ChunkFits
<1>6. Start(c) = o - (w[o + 2] - 3) /\ End(c) = o + 4 + w[o + 3] BY <1>3 DEF Start, End, HEADER
<1>7. w[o + 2] - 3 # 1
  <2>1. w[o + 2] \in Nat BY <1>1, <1>3, <1>5
  <2> QED BY <1>4, <2>1
<1> QED BY <1>1, <1>3, <1>4, <1>5, <1>6, <1>7 DEF c

(* The data words of an object.                                            *)
ContentsOf(w, o) == [i \in 1..w[o + 3] |-> w[o + 4 + i - 1]]

(* What is written into one chunk is not seen in an object of another.     *)
LEMMA OthersKeep ==
  ASSUME NEW w, NEW os, NEW F, Sound(w, os, F), NEW p \in os, NEW v,
         NEW c \in LiveChunks(w, os) \cup F, c # ChunkAt(w, p),
         \A a \in 1..Len(w) : a < Start(c) \/ End(c) <= a => v[a] = w[a]
  PROVE  ContentsOf(v, p) = ContentsOf(w, p) /\ v[p] = w[p] /\ v[p + 2] = w[p + 2] /\ v[p + 3] = w[p + 3]
<1> DEFINE n == w[p + 3]
           m == w[p + 2] - 3
           d == ChunkAt(w, p)
           C == LiveChunks(w, os) \cup F
<1>1. /\ Len(w) \in Nat /\ p \in Nat /\ n \in Nat /\ m \in Nat /\ 0 < p - m /\ p + 4 + n <= Len(w) + 1
      /\ Start(d) = p - m /\ End(d) = p + 4 + n
  BY ObjectFits
<1>2. Laid(C, Len(w)) /\ c \in C /\ d \in C BY DEF Sound, LiveChunks
<1> HIDE DEF C, d
<1>3. Start(c) \in Nat /\ End(c) \in Nat BY <1>1, <1>2, ChunkFits
<1>4. c # d BY DEF d
<1> HIDE DEF m
<1>5. ASSUME NEW x \in Int, p <= x, x < p + 4 + n PROVE v[x] = w[x]
  <2>1. Start(d) <= x /\ x < End(d) /\ x \in 1..Len(w)
    <3> HIDE DEF n
    <3> QED BY <1>1, <1>5
  <2>2. ~(Start(c) <= x /\ x < End(c)) BY <1>1, <1>2, <1>4, <2>1, OneOwner
  <2>3. x < Start(c) \/ End(c) <= x BY <1>3, <2>2
  <2> QED BY <2>1, <2>3
<1>6. v[p] = w[p] /\ v[p + 2] = w[p + 2] /\ v[p + 3] = w[p + 3]
  <2>1. \A i \in 0..3 : p + i \in Int /\ p <= p + i /\ p + i < p + 4 + n
    <3> HIDE DEF n
    <3> QED BY <1>1
  <2>2. \A i \in 0..3 : v[p + i] = w[p + i] BY <1>5, <2>1
  <2>3. 0 \in 0..3 /\ 2 \in 0..3 /\ 3 \in 0..3 /\ p + 0 = p BY <1>1
  <2> QED BY <2>2, <2>3
<1>7. \A i \in 1..n : v[p + 4 + i - 1] = w[p + 4 + i - 1]
  <2> TAKE i \in 1..n
  <2>1. p + 4 + i - 1 \in Int /\ p <= p + 4 + i - 1 /\ p + 4 + i - 1 < p + 4 + n
    <3> HIDE DEF n
    <3> QED BY <1>1
  <2> QED BY <1>5, <2>1
<1> QED BY <1>6, <1>7 DEF ContentsOf

(* The words of a new object: its header, and blank data.                  *)
Made(first, m, n) == <<first, NIL, Live(m), n>> \o Blank(n)
LEMMA NewWords ==
  ASSUME NEW n \in Nat, NEW m \in Nat, NEW first \in Nat
  PROVE  /\ Made(first, m, n) \in Seq(Nat) /\ Len(Made(first, m, n)) = 4 + n
         /\ Made(first, m, n)[1] = first
         /\ Made(first, m, n)[3] = Live(m)
         /\ Made(first, m, n)[4] = n
         /\ \A i \in 1..n : Made(first, m, n)[4 + i] = NIL
<1> DEFINE h == <<first, NIL, Live(m), n>>
           b == Blank(n)
           t == h \o b
<1>1. Live(m) \in Nat /\ NIL \in Nat BY DEF Live, NIL
<1>2. h \in Seq(Nat) /\ Len(h) = 4 /\ h[1] = first /\ h[3] = Live(m) /\ h[4] = n
  BY <1>1
<1>3. b \in Seq(Nat) /\ Len(b) = n /\ \A i \in 1..n : b[i] = NIL
  BY <1>1 DEF Blank
<1> HIDE DEF h, b
<1>4. /\ t \in Seq(Nat) /\ Len(t) = 4 + n
      /\ \A i \in 1..4 + n : t[i] = IF i <= 4 THEN h[i] ELSE b[i - 4]
  <2>1. /\ t \in Seq(Nat) /\ Len(t) = Len(h) + Len(b)
        /\ \A i \in 1..Len(h) + Len(b) : t[i] = IF i <= Len(h) THEN h[i] ELSE b[i - Len(h)]
    BY <1>2, <1>3, ConcatProperties
  <2> HIDE DEF t
  <2> QED BY <1>2, <1>3, <2>1
<1> HIDE DEF t
<1>5. t[1] = first /\ t[3] = Live(m) /\ t[4] = n
  <2>1. 1 \in 1..4 + n /\ 3 \in 1..4 + n /\ 4 \in 1..4 + n OBVIOUS
  <2> QED BY <1>2, <1>4, <2>1
<1>6. \A i \in 1..n : t[4 + i] = NIL
  <2> TAKE i \in 1..n
  <2>1. 4 + i \in 1..4 + n /\ ~(4 + i <= 4) /\ 4 + i - 4 = i OBVIOUS
  <2> QED BY <1>3, <1>4, <2>1
<1> QED BY <1>4, <1>5, <1>6 DEF t, h, b, Made

Writes(v, w, at, t) == v = Overwrite(w, at, t)
Written(v, w, at, t) ==
  /\ v \in Seq(Nat) /\ Len(v) = Len(w)
  /\ \A i \in 1..Len(t) : v[at + i - 1] = t[i]
  /\ \A a \in 1..Len(w) : a < at \/ at + Len(t) <= a => v[a] = w[a]
LEMMA Overwritten ==
  ASSUME NEW w \in Seq(Nat), NEW t \in Seq(Nat), NEW at \in Nat \ {0}, at + Len(t) <= Len(w) + 1,
         NEW v, Writes(v, w, at, t)
  PROVE  Written(v, w, at, t)
<1> DEFINE N == Len(w)
           L == Len(t)
<1>1. N \in Nat /\ L \in Nat /\ DOMAIN w = 1..N /\ \A a \in 1..N : w[a] \in Nat
  BY LenProperties, ElementOfSeq
<1>2. \A i \in 1..L : t[i] \in Nat BY ElementOfSeq
<1> HIDE DEF N, L
<1>3. v = [a \in 1..N |-> IF a \in at..at + L - 1 THEN t[a - at + 1] ELSE w[a]]
  BY <1>1 DEF Overwrite, L, Writes
<1>4. \A a \in 1..N : (IF a \in at..at + L - 1 THEN t[a - at + 1] ELSE w[a]) \in Nat
  <2> TAKE a \in 1..N
  <2>1. CASE a \in at..at + L - 1
    <3>1. a - at + 1 \in 1..L BY <1>1, <2>1
    <3> QED BY <1>2, <2>1, <3>1
  <2>2. CASE a \notin at..at + L - 1 BY <1>1, <2>2
  <2> QED BY <2>1, <2>2
<1>5. v \in [1..N -> Nat] BY <1>3, <1>4
<1>6. v \in Seq(Nat) /\ Len(v) = N BY <1>1, <1>5
<1>7. \A i \in 1..L : v[at + i - 1] = t[i]
  <2> TAKE i \in 1..L
  <2>1. at + i - 1 \in 1..N /\ at + i - 1 \in at..at + L - 1 /\ at + i - 1 - at + 1 = i
    BY <1>1 DEF N, L
  <2> QED BY <1>3, <2>1
<1>8. \A a \in 1..N : a < at \/ at + L <= a => v[a] = w[a]
  <2> TAKE a \in 1..N
  <2>1. a < at \/ at + L <= a => a \notin at..at + L - 1 BY <1>1
  <2> QED BY <1>3, <2>1
<1> QED BY <1>6, <1>7, <1>8 DEF N, L, Written

(* The header and the data of a new object are written over a chunk.       *)
MadeIn(v, w, o, first, m, n) ==
  /\ v \in Seq(Nat) /\ Len(v) = Len(w)
  /\ v[o] = first /\ v[o + 2] = Live(m) /\ v[o + 3] = n
  /\ \A i \in 1..n : v[o + 4 + i - 1] = NIL
  /\ \A a \in 1..Len(w) : a < o \/ o + 4 + n <= a => v[a] = w[a]
LEMMA MadeAt ==
  ASSUME NEW w \in Seq(Nat), NEW o \in Nat \ {0}, NEW n \in Nat, NEW m \in Nat, NEW first \in Nat,
         o + 4 + n <= Len(w) + 1, NEW v, Writes(v, w, o, Made(first, m, n))
  PROVE  MadeIn(v, w, o, first, m, n)
<1> DEFINE t == Made(first, m, n)
<1>1. t \in Seq(Nat) /\ Len(t) = 4 + n BY NewWords
<1>2. t[1] = first /\ t[3] = Live(m) /\ t[4] = n /\ \A i \in 1..n : t[4 + i] = NIL
  BY NewWords
<1>3. Writes(v, w, o, t) OBVIOUS
<1> HIDE DEF t
<1>4. Len(w) \in Nat BY LenProperties
<1>5. o + Len(t) <= Len(w) + 1 BY <1>1, <1>4
<1>6. /\ v \in Seq(Nat) /\ Len(v) = Len(w)
      /\ \A i \in 1..Len(t) : v[o + i - 1] = t[i]
      /\ \A a \in 1..Len(w) : a < o \/ o + Len(t) <= a => v[a] = w[a]
  <2>1. Written(v, w, o, t) BY <1>1, <1>3, <1>5, Overwritten
  <2> QED BY <2>1 DEF Written
<1>7. v[o] = first /\ v[o + 2] = Live(m) /\ v[o + 3] = n
  <2>1. 1 \in 1..Len(t) /\ 3 \in 1..Len(t) /\ 4 \in 1..Len(t) BY <1>1
  <2>2. o + 1 - 1 = o /\ o + 3 - 1 = o + 2 /\ o + 4 - 1 = o + 3 OBVIOUS
  <2>3. v[o + 1 - 1] = t[1] /\ v[o + 3 - 1] = t[3] /\ v[o + 4 - 1] = t[4] BY <1>6, <2>1
  <2> QED BY <1>2, <2>2, <2>3
<1>8. \A i \in 1..n : v[o + 4 + i - 1] = NIL
  <2> TAKE i \in 1..n
  <2>1. 4 + i \in 1..Len(t) /\ o + (4 + i) - 1 = o + 4 + i - 1 BY <1>1
  <2>2. v[o + (4 + i) - 1] = t[4 + i] BY <1>6, <2>1
  <2> QED BY <1>2, <2>1, <2>2
<1>9. \A a \in 1..Len(w) : a < o \/ o + 4 + n <= a => v[a] = w[a]
  <2>1. o + Len(t) = o + 4 + n BY <1>1
  <2> QED BY <1>6, <2>1
<1> QED BY <1>6, <1>7, <1>8, <1>9 DEF MadeIn

(* An object is made of a filed chunk.                                     *)
LEMMA ReuseShape ==
  ASSUME NEW w, NEW first, NEW count, NEW f, NEW q, Shape(w, first, count, f, q),
         NEW k \in DOMAIN f, f[k] # <<>>, k[2] # 1
  PROVE  LET o == Last(f[k])
             v == Overwrite(w, o, Made(first, k[2], k[1]))
         IN  /\ Shape(v, o, count + 1, [f EXCEPT ![k] = Front(@)], <<o>> \o q)
             /\ ToSet(<<o>> \o q) = ToSet(q) \cup {o}
             /\ o \notin ToSet(q)
             /\ Len(v) = Len(w)
             /\ ContentsOf(v, o) = [i \in 1..k[1] |-> NIL]
             /\ \A p \in ToSet(q) : ContentsOf(v, p) = ContentsOf(w, p)
<1> DEFINE o == Last(f[k])
           n == k[1]
           m == k[2]
           v == Overwrite(w, o, Made(first, m, n))
           g == [f EXCEPT ![k] = Front(@)]
           r == <<o>> \o q
           c == <<o, n, m>>
           F == FiledChunks(f)
           os == ToSet(q)
<1>1. Linked(q, w, first) /\ Lists(f) /\ Sound(w, os, F) /\ count = Len(q) BY DEF Shape
<1>2. Lists(g) /\ c \in F /\ FiledChunks(g) = F \ {c} BY <1>1, TakingRemoves
<1>3. n \in Nat /\ m \in Nat BY <1>1 DEF Lists
<1>4. first \in Nat
  <2>1. q # <<>> => first = q[1] /\ 1 \in 1..Len(q)
    <3>1. q # <<>> => Len(q) \in Nat \ {0} BY <1>1, EmptySeq DEF Linked
    <3> QED BY <1>1, <3>1 DEF Linked
  <2>2. q # <<>> => q[1] \in Nat BY <1>1, <2>1, ElementOfSeq DEF Linked
  <2> QED BY <1>1, <2>1, <2>2 DEF Linked, NIL
<1>5. c[1] = o /\ c[2] = n /\ c[3] = m /\ Start(c) = o - m /\ End(c) = o + 4 + n
  BY DEF Start, End, HEADER
<1> HIDE DEF F, os, g, c, n, m, o
<1>7. w \in Seq(Nat) /\ Len(w) \in Nat /\ Laid(LiveChunks(w, os) \cup F, Len(w))
  BY <1>1, LenProperties DEF Sound
<1>8. c \in LiveChunks(w, os) \cup F BY <1>2
<1>9. c[1] \in 1..Len(w) /\ End(c) <= Len(w) + 1 /\ End(c) \in Nat BY <1>7, <1>8, ChunkFits
<1>10. o \in Nat \ {0} /\ o + 4 + n <= Len(w) + 1 BY <1>5, <1>7, <1>9
<1>11. Writes(v, w, o, Made(first, m, n)) BY DEF Writes
<1> HIDE DEF v
<1>12. /\ v \in Seq(Nat) /\ Len(v) = Len(w)
       /\ v[o] = first /\ v[o + 2] = Live(m) /\ v[o + 3] = n
       /\ \A i \in 1..n : v[o + 4 + i - 1] = NIL
       /\ \A a \in 1..Len(w) : a < o \/ o + 4 + n <= a => v[a] = w[a]
  <2>1. MadeIn(v, w, o, first, m, n) BY <1>3, <1>4, <1>7, <1>10, <1>11, MadeAt
  <2> QED BY <2>1 DEF MadeIn
<1>14. \A a \in 1..Len(w) : a < c[1] \/ End(c) <= a => v[a] = w[a]
  BY <1>5, <1>12
<1>15. /\ Sound(v, os \cup {o}, F \ {c})
       /\ o \notin os
  <2>1. v[c[1] + 2] = Live(c[3]) /\ v[c[1] + 3] = c[2] /\ c[3] # 1 BY <1>5, <1>12 DEF m
  <2> QED BY <1>1, <1>2, <1>5, <1>12, <1>14, <2>1, SoundTake
<1>16. \A p \in os : ContentsOf(v, p) = ContentsOf(w, p) /\ v[p] = w[p]
  <2> TAKE p \in os
  <2>1. c # ChunkAt(w, p) BY <1>1, <1>2, LiveIsNotFiled
  <2>2. \A a \in 1..Len(w) : a < Start(c) \/ End(c) <= a => v[a] = w[a]
    <3>1. Start(c) <= c[1] /\ Start(c) \in Nat /\ c[1] \in Nat BY <1>7, <1>8, ChunkFits
    <3> QED BY <1>14, <3>1
  <2>3. Sound(w, os, F) BY <1>1
  <2> QED BY <1>8, <2>1, <2>2, <2>3, OthersKeep
<1>17. ContentsOf(v, o) = [i \in 1..n |-> NIL] BY <1>12 DEF ContentsOf
<1>18. Linked(r, v, o) /\ ToSet(r) = os \cup {o} /\ Len(r) = Len(q) + 1
  <2>1. o \in Nat \ {NIL} BY <1>10 DEF NIL
  <2>2. \A p \in ToSet(q) : v[p] = w[p] BY <1>16 DEF os
  <2>3. o \notin ToSet(q) BY <1>15 DEF os
  <2>4. InFront(r, o, q) BY DEF InFront
  <2>5. Links(v, w, q, o, first) BY <1>12, <2>2 DEF Links
  <2> HIDE DEF r
  <2> QED BY <1>1, <2>1, <2>3, <2>4, <2>5, LinkedPush DEF os
<1>19. Shape(v, o, count + 1, g, r)
  BY <1>1, <1>2, <1>15, <1>18 DEF Shape
<1> QED BY <1>12, <1>15, <1>16, <1>17, <1>18, <1>19 DEF o, v, n, m, g, os

(* An object is made at the end of the words.                              *)
Grown(v, w, first, m, n) ==
  v = w \o Blank(m) \o <<first, NIL, Live(m), n>> \o Blank(n)
GrownTo(v, w, o, first, m, n) ==
  /\ v \in Seq(Nat) /\ Len(v) = Len(w) + m + 4 + n /\ o = Len(w) + 1 + m
  /\ v[o] = first /\ v[o + 2] = Live(m) /\ v[o + 3] = n
  /\ \A i \in 1..n : v[o + 4 + i - 1] = NIL
  /\ \A i \in 1..m : v[o - i] = NIL
  /\ \A a \in 1..Len(w) : v[a] = w[a]
Joined(t, r, s) ==
  /\ t \in Seq(Nat) /\ Len(t) = Len(r) + Len(s)
  /\ \A i \in 1..Len(r) : t[i] = r[i]
  /\ \A i \in 1..Len(s) : t[Len(r) + i] = s[i]

LEMMA JoinedIs ==
  ASSUME NEW r \in Seq(Nat), NEW s \in Seq(Nat)
  PROVE  Joined(r \o s, r, s)
<1> DEFINE t == r \o s
<1>1. Len(r) \in Nat /\ Len(s) \in Nat BY LenProperties
<1>2. /\ t \in Seq(Nat) /\ Len(t) = Len(r) + Len(s)
      /\ \A i \in 1..Len(r) + Len(s) : t[i] = IF i <= Len(r) THEN r[i] ELSE s[i - Len(r)]
  BY ConcatProperties
<1> HIDE DEF t
<1>3. \A i \in 1..Len(r) : t[i] = r[i] BY <1>1, <1>2
<1>4. \A i \in 1..Len(s) : t[Len(r) + i] = s[i]
  <2> TAKE i \in 1..Len(s)
  <2>1. Len(r) + i \in 1..Len(r) + Len(s) /\ ~(Len(r) + i <= Len(r)) /\ Len(r) + i - Len(r) = i BY <1>1
  <2> QED BY <1>2, <2>1
<1>5. Joined(t, r, s) BY <1>2, <1>3, <1>4 DEF Joined
<1> QED BY <1>5 DEF t

LEMMA GrownIs ==
  ASSUME NEW w \in Seq(Nat), NEW first \in Nat, NEW m \in Nat, NEW n \in Nat,
         NEW v, Grown(v, w, first, m, n)
  PROVE  GrownTo(v, w, Len(w) + 1 + m, first, m, n)
<1> DEFINE a == Blank(m)
           h == <<first, NIL, Live(m), n>>
           b == Blank(n)
           s == w \o a
           t == s \o h
           L == Len(w)
           o == L + 1 + m
<1>1. L \in Nat BY LenProperties
<1>2. Live(m) \in Nat /\ NIL \in Nat BY DEF Live, NIL
<1>3. a \in Seq(Nat) /\ Len(a) = m /\ \A i \in 1..m : a[i] = NIL BY <1>2 DEF Blank
<1>4. b \in Seq(Nat) /\ Len(b) = n /\ \A i \in 1..n : b[i] = NIL BY <1>2 DEF Blank
<1>5. h \in Seq(Nat) /\ Len(h) = 4 /\ h[1] = first /\ h[3] = Live(m) /\ h[4] = n BY <1>2
<1>6. v = t \o b BY DEF Grown
<1> HIDE DEF a, h, b
<1>7. Joined(s, w, a) BY <1>3, JoinedIs
<1>8. s \in Seq(Nat) /\ Len(s) = L + m BY <1>3, <1>7 DEF Joined
<1>9. Joined(t, s, h) BY <1>5, <1>8, JoinedIs
<1>10. t \in Seq(Nat) /\ Len(t) = L + m + 4 BY <1>5, <1>8, <1>9 DEF Joined
<1>11. Joined(v, t, b) BY <1>4, <1>6, <1>10, JoinedIs
<1> HIDE DEF s, t, L
<1>12. v \in Seq(Nat) /\ Len(v) = L + m + 4 + n BY <1>4, <1>10, <1>11 DEF Joined
<1>13. \A i \in 1..L + m : v[i] = s[i]
  <2> TAKE i \in 1..L + m
  <2>1. i \in 1..Len(s) /\ i \in 1..Len(t) BY <1>1, <1>8, <1>10
  <2> QED BY <1>9, <1>11, <2>1 DEF Joined
<1>14. \A i \in 1..L : v[i] = w[i]
  <2> TAKE i \in 1..L
  <2>1. i \in 1..L + m BY <1>1
  <2>2. s[i] = w[i] BY <1>7 DEF Joined, L
  <2> QED BY <1>13, <2>1, <2>2
<1>15. \A i \in 1..m : v[o - i] = NIL
  <2> TAKE i \in 1..m
  <2>1. m + 1 - i \in 1..m /\ L + (m + 1 - i) \in 1..L + m /\ L + (m + 1 - i) = o - i BY <1>1
  <2>2. s[L + (m + 1 - i)] = a[m + 1 - i] BY <1>3, <1>7, <2>1 DEF Joined, L
  <2>3. v[L + (m + 1 - i)] = NIL BY <1>3, <1>13, <2>1, <2>2
  <2> QED BY <2>1, <2>3
<1>16. \A i \in 1..4 : v[L + m + i] = h[i]
  <2> TAKE i \in 1..4
  <2>1. L + m + i \in 1..Len(t) /\ i \in 1..Len(h) BY <1>1, <1>5, <1>10
  <2>2. t[L + m + i] = h[i] BY <1>8, <1>9, <2>1 DEF Joined
  <2> QED BY <1>11, <2>1, <2>2 DEF Joined
<1>17. v[o] = first /\ v[o + 2] = Live(m) /\ v[o + 3] = n
  <2>1. 1 \in 1..4 /\ 3 \in 1..4 /\ 4 \in 1..4 OBVIOUS
  <2>2. L + m + 1 = o /\ L + m + 3 = o + 2 /\ L + m + 4 = o + 3 BY <1>1
  <2>3. v[L + m + 1] = h[1] /\ v[L + m + 3] = h[3] /\ v[L + m + 4] = h[4] BY <1>16, <2>1
  <2> QED BY <1>5, <2>2, <2>3
<1>18. \A i \in 1..n : v[o + 4 + i - 1] = NIL
  <2> TAKE i \in 1..n
  <2>1. L + m + 4 + i = o + 4 + i - 1 BY <1>1
  <2>2. v[L + m + 4 + i] = b[i] BY <1>4, <1>10, <1>11 DEF Joined
  <2> QED BY <1>4, <2>1, <2>2
<1>19. o = Len(w) + 1 + m BY DEF L
<1> QED BY <1>12, <1>14, <1>15, <1>17, <1>18, <1>19 DEF GrownTo, L

LEMMA FirstIsNat ==
  ASSUME NEW q, NEW w, NEW first, Linked(q, w, first)
  PROVE  first \in Nat
<1>1. q # <<>> => Len(q) \in Nat \ {0} BY EmptySeq DEF Linked
<1>2. q # <<>> => first = q[1] /\ 1 \in 1..Len(q) BY <1>1 DEF Linked
<1>3. q # <<>> => q[1] \in Nat BY <1>2, ElementOfSeq DEF Linked
<1> QED BY <1>2, <1>3 DEF Linked, NIL

LEMMA GrowShape ==
  ASSUME NEW w, NEW first, NEW count, NEW f, NEW q, Shape(w, first, count, f, q),
         NEW m \in Nat, NEW n \in Nat, m # 1, NEW v, Grown(v, w, first, m, n)
  PROVE  LET o == Len(w) + 1 + m
         IN  /\ Shape(v, o, count + 1, f, <<o>> \o q)
             /\ ToSet(<<o>> \o q) = ToSet(q) \cup {o}
             /\ o \notin ToSet(q) /\ o \in 1..Len(v)
             /\ Len(v) = Len(w) + m + 4 + n
             /\ ContentsOf(v, o) = [i \in 1..n |-> NIL]
             /\ \A p \in ToSet(q) : ContentsOf(v, p) = ContentsOf(w, p)
<1> DEFINE o == Len(w) + 1 + m
           os == ToSet(q)
           F == FiledChunks(f)
           r == <<o>> \o q
<1>1. Linked(q, w, first) /\ Lists(f) /\ Sound(w, os, F) /\ count = Len(q) BY DEF Shape
<1>2. w \in Seq(Nat) /\ Len(w) \in Nat BY <1>1, LenProperties DEF Sound
<1>3. first \in Nat BY <1>1, FirstIsNat
<1>4. GrownTo(v, w, o, first, m, n) BY <1>2, <1>3, GrownIs
<1>5. o \in Nat \ {0} /\ Len(w) < o - m BY <1>2
<1> HIDE DEF F, os, o
<1>6. /\ v \in Seq(Nat) /\ Len(v) = Len(w) + m + 4 + n
      /\ v[o] = first /\ v[o + 2] = Live(m) /\ v[o + 3] = n
      /\ \A i \in 1..n : v[o + 4 + i - 1] = NIL
      /\ \A a \in 1..Len(w) : v[a] = w[a]
  BY <1>4 DEF GrownTo
<1>7. o + 4 + n <= Len(v) + 1 /\ o \in 1..Len(v) BY <1>2, <1>5, <1>6 DEF o
<1>8. Sound(v, os \cup {o}, F) /\ o \notin os
  <2>1. Sound(w, os, F) BY <1>1
  <2>2. v \in Seq(Nat) /\ Len(w) < o - m /\ o + 4 + n <= Len(v) + 1 /\ o \in Nat BY <1>5, <1>6, <1>7
  <2>3. v[o + 2] = Live(m) /\ v[o + 3] = n /\ \A a \in 1..Len(w) : v[a] = w[a] BY <1>6
  <2> QED BY <2>1, <2>2, <2>3, SoundGrow
<1>9. \A p \in os : ContentsOf(v, p) = ContentsOf(w, p) /\ v[p] = w[p]
  <2> TAKE p \in os
  <2> DEFINE k == w[p + 3]
  <2>1. /\ p \in Nat /\ k \in Nat /\ p + 4 + k <= Len(w) + 1
        /\ p \in 1..Len(w) /\ p + 3 \in 1..Len(w)
    BY <1>1, ObjectFits
  <2>2. v[p] = w[p] /\ v[p + 3] = w[p + 3] BY <1>6, <2>1
  <2>3. \A i \in 1..k : v[p + 4 + i - 1] = w[p + 4 + i - 1]
    <3> HIDE DEF k
    <3> TAKE i \in 1..k
    <3>1. p + 4 + i - 1 \in 1..Len(w) BY <1>2, <2>1
    <3> QED BY <1>6, <3>1
  <2> QED BY <2>2, <2>3 DEF ContentsOf
<1>10. ContentsOf(v, o) = [i \in 1..n |-> NIL] BY <1>6 DEF ContentsOf
<1>11. Linked(r, v, o) /\ ToSet(r) = os \cup {o} /\ Len(r) = Len(q) + 1
  <2>1. o \in Nat \ {NIL} BY <1>5 DEF NIL
  <2>2. o \notin ToSet(q) BY <1>8 DEF os
  <2>3. InFront(r, o, q) BY DEF InFront
  <2>4. Links(v, w, q, o, first) BY <1>6, <1>9 DEF Links, os
  <2> HIDE DEF r
  <2> QED BY <1>1, <2>1, <2>2, <2>3, <2>4, LinkedPush DEF os
<1>12. Shape(v, o, count + 1, f, r) BY <1>1, <1>8, <1>11 DEF Shape, F
<1> QED BY <1>6, <1>7, <1>8, <1>9, <1>10, <1>11, <1>12 DEF o, os

(* What touches no header and no link leaves the shape.                    *)
LEMMA ShapeKept ==
  ASSUME NEW w, NEW first, NEW count, NEW f, NEW q, Shape(w, first, count, f, q),
         NEW v \in Seq(Nat), Len(w) <= Len(v),
         \A p \in ToSet(q) : v[p] = w[p] /\ v[p + 2] = w[p + 2] /\ v[p + 3] = w[p + 3],
         \A c \in FiledChunks(f) : v[c[1] + 2] = w[c[1] + 2]
  PROVE  Shape(v, first, count, f, q)
<1>1. Linked(q, v, first)
  <2>1. Linked(q, w, first) /\ \A p \in ToSet(q) : v[p] = w[p] BY DEF Shape
  <2> QED BY <2>1, LinkedKept
<1>2. Sound(v, ToSet(q), FiledChunks(f))
  <2>1. Sound(w, ToSet(q), FiledChunks(f)) BY DEF Shape
  <2> QED BY <2>1, SoundKept
<1> QED BY <1>1, <1>2 DEF Shape

(* Words are added at the end.                                             *)
LEMMA BytesShape ==
  ASSUME NEW w, NEW first, NEW count, NEW f, NEW q, Shape(w, first, count, f, q),
         NEW s \in Seq(Nat), NEW v, Joined(v, w, s)
  PROVE  /\ Shape(v, first, count, f, q)
         /\ \A p \in ToSet(q) : ContentsOf(v, p) = ContentsOf(w, p)
<1> DEFINE os == ToSet(q)
           F == FiledChunks(f)
<1>1. Sound(w, os, F) BY DEF Shape
<1>2. w \in Seq(Nat) /\ Len(w) \in Nat /\ Len(s) \in Nat BY <1>1, LenProperties DEF Sound
<1>3. v \in Seq(Nat) /\ Len(w) <= Len(v) /\ \A a \in 1..Len(w) : v[a] = w[a]
  <2>1. v \in Seq(Nat) /\ Len(v) = Len(w) + Len(s) BY DEF Joined
  <2>2. Len(w) <= Len(v) BY <1>2, <2>1
  <2> QED BY <2>1, <2>2 DEF Joined
<1> HIDE DEF os, F
<1>4. \A p \in os : /\ v[p] = w[p] /\ v[p + 2] = w[p + 2] /\ v[p + 3] = w[p + 3]
                    /\ ContentsOf(v, p) = ContentsOf(w, p)
  <2> TAKE p \in os
  <2> DEFINE k == w[p + 3]
  <2>1. /\ p \in Nat /\ k \in Nat /\ p + 4 + k <= Len(w) + 1
        /\ p \in 1..Len(w) /\ p + 2 \in 1..Len(w) /\ p + 3 \in 1..Len(w)
    BY <1>1, ObjectFits
  <2>2. v[p] = w[p] /\ v[p + 2] = w[p + 2] /\ v[p + 3] = w[p + 3] BY <1>3, <2>1
  <2>3. \A i \in 1..k : v[p + 4 + i - 1] = w[p + 4 + i - 1]
    <3> HIDE DEF k
    <3> TAKE i \in 1..k
    <3>1. p + 4 + i - 1 \in 1..Len(w) BY <1>2, <2>1
    <3> QED BY <1>3, <3>1
  <2> QED BY <2>2, <2>3 DEF ContentsOf
<1>5. \A c \in F : v[c[1] + 2] = w[c[1] + 2]
  <2> TAKE c \in F
  <2>1. Laid(LiveChunks(w, os) \cup F, Len(w)) BY <1>1 DEF Sound
  <2>2. c[1] + 2 \in 1..Len(w) BY <1>2, <2>1, ChunkFits
  <2> QED BY <1>3, <2>2
<1>6. Shape(v, first, count, f, q) BY <1>3, <1>4, <1>5, ShapeKept DEF os, F
<1> QED BY <1>4, <1>6 DEF os

(* A word of an object that is not of its header is written.               *)
Inside(w, o, x) ==
  /\ x \in Int
  /\ o - (w[o + 2] - 3) <= x /\ x < o + 4 + w[o + 3]
  /\ x < o \/ o + 4 <= x
LEMMA InsideShape ==
  ASSUME NEW w, NEW first, NEW count, NEW f, NEW q, Shape(w, first, count, f, q),
         NEW o \in ToSet(q), NEW x, Inside(w, o, x), NEW y \in Nat,
         NEW v, PutIn(v, w, x, y)
  PROVE  /\ Shape(v, first, count, f, q) /\ Len(v) = Len(w)
         /\ \A p \in ToSet(q) \ {o} : ContentsOf(v, p) = ContentsOf(w, p)
         /\ v[o + 2] = w[o + 2] /\ v[o + 3] = w[o + 3]
         /\ \A a \in 1..Len(w) : v[a] = IF a = x THEN y ELSE w[a]
<1> DEFINE os == ToSet(q)
           F == FiledChunks(f)
           c == ChunkAt(w, o)
           n == w[o + 3]
           m == w[o + 2] - 3
<1>1. Sound(w, os, F) BY DEF Shape
<1>2. w \in Seq(Nat) /\ Len(w) \in Nat /\ Laid(LiveChunks(w, os) \cup F, Len(w))
  BY <1>1, LenProperties DEF Sound
<1>3. /\ o \in Nat /\ n \in Nat /\ m \in Nat /\ 0 < o - m /\ o + 4 + n <= Len(w) + 1
      /\ o \in 1..Len(w) /\ o + 2 \in 1..Len(w) /\ o + 3 \in 1..Len(w)
      /\ Start(c) = o - m /\ End(c) = o + 4 + n
  BY <1>1, ObjectFits
<1>4. c \in LiveChunks(w, os) \cup F BY DEF LiveChunks
<1>5. x \in Int /\ o - m <= x /\ x < o + 4 + n /\ (x < o \/ o + 4 <= x) BY DEF Inside
<1> HIDE DEF n, m, c
<1>6. x \in 1..Len(w) BY <1>2, <1>3, <1>5
<1>7. v \in Seq(Nat) /\ Len(v) = Len(w) /\ \A a \in 1..Len(w) : v[a] = IF a = x THEN y ELSE w[a]
  BY <1>2, <1>6, PutIs DEF WithPut
<1> HIDE DEF os, F
<1>8. v[o] = w[o] /\ v[o + 2] = w[o + 2] /\ v[o + 3] = w[o + 3]
  BY <1>3, <1>5, <1>7
<1>9. \A a \in 1..Len(w) : a < Start(c) \/ End(c) <= a => v[a] = w[a]
  BY <1>3, <1>5, <1>7
<1>10. \A p \in os \ {o} : /\ v[p] = w[p] /\ v[p + 2] = w[p + 2] /\ v[p + 3] = w[p + 3]
                           /\ ContentsOf(v, p) = ContentsOf(w, p)
  <2> TAKE p \in os \ {o}
  <2>1. c # ChunkAt(w, p) BY DEF c, ChunkAt
  <2> QED BY <1>1, <1>4, <1>9, <2>1, OthersKeep
<1>11. \A d \in F : v[d[1] + 2] = w[d[1] + 2]
  <2> TAKE d \in F
  <2>1. d # c BY <1>1, LiveIsNotFiled DEF c, os
  <2>2. 2 \in 0..3 /\ d[1] + 2 \in 1..Len(w) BY <1>2, ChunkFits
  <2>3. ~(Start(c) <= d[1] + 2 /\ d[1] + 2 < End(c)) BY <1>2, <1>4, <2>1, <2>2, HeaderIsOwn
  <2>4. d[1] + 2 < Start(c) \/ End(c) <= d[1] + 2
    <3>1. Start(c) \in Nat /\ End(c) \in Nat BY <1>2, <1>4, ChunkFits
    <3> QED BY <2>2, <2>3, <3>1
  <2> QED BY <1>9, <2>2, <2>4
<1>12. Shape(v, first, count, f, q)
  <2>1. Len(w) <= Len(v) BY <1>2, <1>7
  <2>2. \A p \in os : v[p] = w[p] /\ v[p + 2] = w[p + 2] /\ v[p + 3] = w[p + 3] BY <1>8, <1>10
  <2> QED BY <1>7, <1>11, <2>1, <2>2, ShapeKept DEF os, F
<1> QED BY <1>7, <1>8, <1>10, <1>12 DEF os

-----------------------------------------------------------------------------
(* In the middle of a sweep: the objects kept so far, q, and those still   *)
(* ahead.                                                                  *)
Turning(w, first, f, q, ahead) ==
  /\ Linked(q, w, first)
  /\ Lists(f)
  /\ Sound(w, ToSet(q) \cup ahead, FiledChunks(f))
  /\ ToSet(q) \cap ahead = {}

(* The flags, the length and the data of an object are as they were.       *)
Same(v, w, o) ==
  v[o + 2] = w[o + 2] /\ v[o + 3] = w[o + 3] /\ ContentsOf(v, o) = ContentsOf(w, o)

(* An object that is kept becomes the first of the chain.                  *)
Keeps(w, first, f, q, ahead, o, v, r) ==
  /\ Turning(w, first, f, q, ahead)
  /\ o \in ahead /\ PutIn(v, w, o, first) /\ InFront(r, o, q)
HasKept(w, f, q, ahead, o, v, r) ==
  /\ Turning(v, o, f, r, ahead \ {o})
  /\ ToSet(r) = ToSet(q) \cup {o} /\ Len(r) = Len(q) + 1 /\ Len(v) = Len(w)
  /\ \A p \in ToSet(q) \cup ahead : Same(v, w, p)
LEMMA KeptTurn ==
  ASSUME NEW w, NEW first, NEW f, NEW q, NEW ahead, NEW o, NEW v, NEW r,
         Keeps(w, first, f, q, ahead, o, v, r)
  PROVE  HasKept(w, f, q, ahead, o, v, r)
<1>16. /\ Turning(w, first, f, q, ahead) /\ o \in ahead
       /\ PutIn(v, w, o, first) /\ InFront(r, o, q)
  BY DEF Keeps
<1> DEFINE os == ToSet(q) \cup ahead
           F == FiledChunks(f)
           c == ChunkAt(w, o)
           n == w[o + 3]
           m == w[o + 2] - 3
<1>1. Sound(w, os, F) /\ Linked(q, w, first) /\ Lists(f) /\ o \notin ToSet(q) BY <1>16 DEF Turning
<1>2. w \in Seq(Nat) /\ Len(w) \in Nat /\ Laid(LiveChunks(w, os) \cup F, Len(w))
  BY <1>1, LenProperties DEF Sound
<1>3. first \in Nat BY <1>1, FirstIsNat
<1>4. o \in os /\ os = ToSet(q) \cup {o} \cup (ahead \ {o}) /\ ToSet(q) \subseteq os BY <1>16
<1>5. c \in LiveChunks(w, os) \cup F BY <1>4 DEF LiveChunks
<1>6. /\ o \in Nat /\ n \in Nat /\ m \in Nat /\ 0 < o - m /\ o + 4 + n <= Len(w) + 1
      /\ o \in 1..Len(w) /\ o + 2 \in 1..Len(w) /\ o + 3 \in 1..Len(w)
      /\ Start(c) = o - m /\ End(c) = o + 4 + n
  BY <1>1, <1>4, ObjectFits
<1> HIDE DEF os, F, c
<1>7. v \in Seq(Nat) /\ Len(v) = Len(w) /\ \A a \in 1..Len(w) : v[a] = IF a = o THEN first ELSE w[a]
  BY <1>2, <1>3, <1>6, <1>16, PutIs DEF WithPut
<1>8. \A p \in os \ {o} : v[p] = w[p] /\ Same(v, w, p)
  <2> TAKE p \in os \ {o}
  <2>1. c # ChunkAt(w, p) BY DEF c, ChunkAt
  <2>2. \A a \in 1..Len(w) : a < Start(c) \/ End(c) <= a => v[a] = w[a]
    <3> HIDE DEF n, m
    <3>1. \A a \in 1..Len(w) : a < Start(c) \/ End(c) <= a => a # o BY <1>6
    <3> QED BY <1>7, <3>1
  <2> QED BY <1>1, <1>5, <2>1, <2>2, OthersKeep DEF Same
<1>9. v[o] = first /\ Same(v, w, o)
  <2>1. v[o] = first /\ v[o + 2] = w[o + 2] /\ v[o + 3] = w[o + 3]
    <3>1. o + 2 # o /\ o + 3 # o BY <1>6
    <3> QED BY <1>6, <1>7, <3>1
  <2>2. \A i \in 1..n : v[o + 4 + i - 1] = w[o + 4 + i - 1]
    <3> HIDE DEF n, m
    <3> TAKE i \in 1..n
    <3>1. o + 4 + i - 1 \in 1..Len(w) /\ o + 4 + i - 1 # o BY <1>2, <1>6
    <3> QED BY <1>7, <3>1
  <2> QED BY <2>1, <2>2 DEF Same, ContentsOf
<1>10. \A p \in os : Same(v, w, p) BY <1>8, <1>9
<1>11. \A d \in F : v[d[1] + 2] = w[d[1] + 2]
  <2> TAKE d \in F
  <2>1. d # c BY <1>1, <1>4, LiveIsNotFiled DEF c
  <2>2. 2 \in 0..3 /\ d[1] + 2 \in 1..Len(w) BY <1>2, ChunkFits
  <2>3. ~(Start(c) <= d[1] + 2 /\ d[1] + 2 < End(c)) BY <1>2, <1>5, <2>1, <2>2, HeaderIsOwn
  <2>4. d[1] + 2 # o BY <1>6, <2>3
  <2> QED BY <1>7, <2>2, <2>4
<1>12. Sound(v, os, F)
  <2>1. \A p \in os : v[p + 2] = w[p + 2] /\ v[p + 3] = w[p + 3] BY <1>10 DEF Same
  <2>2. Len(w) <= Len(v) BY <1>2, <1>7
  <2> QED BY <1>1, <1>7, <1>11, <2>1, <2>2, SoundKept
<1>13. Linked(r, v, o) /\ ToSet(r) = ToSet(q) \cup {o} /\ Len(r) = Len(q) + 1
  <2>1. \A p \in ToSet(q) : v[p] = w[p] BY <1>1, <1>4, <1>8
  <2>2. Links(v, w, q, o, first) BY <1>9, <2>1 DEF Links
  <2>3. o \in Nat \ {NIL} BY <1>6 DEF NIL
  <2> QED BY <1>1, <1>16, <2>2, <2>3, LinkedPush
<1>14. ToSet(r) \cup (ahead \ {o}) = os /\ ToSet(r) \cap (ahead \ {o}) = {}
  <2>1. ToSet(q) \cap ahead = {} BY <1>16 DEF Turning
  <2> QED BY <1>4, <1>13, <2>1
<1>15. Turning(v, o, f, r, ahead \ {o}) BY <1>1, <1>12, <1>13, <1>14 DEF Turning, F
<1> QED BY <1>7, <1>10, <1>13, <1>15 DEF os, HasKept

(* An object that is not is flagged, and filed under its shape.            *)
Frees(w, first, f, q, ahead, o, v, g) ==
  /\ Turning(w, first, f, q, ahead)
  /\ o \in ahead /\ Flagged(v, w, o)
  /\ g = FiledAs(f, <<w[o + 3], w[o + 2] - Live(0)>>, o)
HasFreed(w, first, q, ahead, o, v, g) ==
  /\ Turning(v, first, g, q, ahead \ {o})
  /\ Len(v) = Len(w)
  /\ \A p \in ToSet(q) \cup (ahead \ {o}) : Same(v, w, p)
LEMMA DeadTurn ==
  ASSUME NEW w, NEW first, NEW f, NEW q, NEW ahead, NEW o, NEW v, NEW h,
         Frees(w, first, f, q, ahead, o, v, h)
  PROVE  HasFreed(w, first, q, ahead, o, v, h)
<1>13. /\ Turning(w, first, f, q, ahead) /\ o \in ahead
       /\ h = FiledAs(f, <<w[o + 3], w[o + 2] - Live(0)>>, o)
  BY DEF Frees
<1>16. Flagged(v, w, o) BY DEF Frees
<1>14. PICK x \in {FREED, POISON} : PutIn(v, w, o + 2, x) BY <1>16 DEF Flagged
<1> DEFINE os == ToSet(q) \cup ahead
           F == FiledChunks(f)
           c == ChunkAt(w, o)
           n == w[o + 3]
           m == w[o + 2] - Live(0)
           g == FiledAs(f, <<n, m>>, o)
<1>1. /\ Sound(w, os, F) /\ Linked(q, w, first) /\ Lists(f) /\ o \notin ToSet(q) /\ o \in os
      /\ ToSet(q) \cup (ahead \ {o}) = os \ {o}
  BY <1>13 DEF Turning
<1>2. w \in Seq(Nat) /\ Len(w) \in Nat BY <1>1, LenProperties DEF Sound
<1>3. /\ o \in Nat /\ n \in Nat /\ m \in Nat /\ o + 2 \in 1..Len(w)
      /\ End(c) = o + 4 + n /\ Start(c) = o - m
  BY <1>1, ObjectFits DEF Live
<1>4. c = <<o, n, m>> /\ c \notin F /\ c \in LiveChunks(w, os) \cup F
  BY <1>1, LiveIsNotFiled DEF ChunkAt
<1>5. Lists(g) /\ FiledChunks(g) = F \cup {c}
  <2> HIDE DEF n, m
  <2> QED BY <1>1, <1>3, <1>4, FilingAdds
<1> HIDE DEF os, F, c, g
<1>6. Sound(v, os \ {o}, F \cup {c})
  <2>1. ChunkAt(w, o) = c BY DEF c
  <2>2. Sound(w, os, F) /\ o \in os BY <1>1
  <2>4. Sound(v, os \ {o}, F \cup {ChunkAt(w, o)}) BY <1>16, <2>2, SoundFree
  <2> QED BY <2>1, <2>4
<1>7. v \in Seq(Nat) /\ Len(v) = Len(w) /\ \A a \in 1..Len(w) : v[a] = IF a = o + 2 THEN x ELSE w[a]
  <2>1. x \in Nat BY DEF FREED, POISON
  <2>2. WithPut(v, w, o + 2, x) BY <1>2, <1>3, <1>14, <2>1, PutIs
  <2> QED BY <2>2 DEF WithPut
<1> HIDE DEF n, m
<1>8. \A a \in 1..Len(w) : a < Start(c) \/ End(c) <= a => v[a] = w[a]
  <2>1. \A a \in 1..Len(w) : a < Start(c) \/ End(c) <= a => a # o + 2 BY <1>3
  <2> QED BY <1>7, <2>1
<1>9. \A p \in os \ {o} : v[p] = w[p] /\ Same(v, w, p)
  <2> TAKE p \in os \ {o}
  <2>1. c # ChunkAt(w, p) BY DEF c, ChunkAt
  <2> QED BY <1>1, <1>4, <1>8, <2>1, OthersKeep DEF Same
<1>10. Linked(q, v, first)
  <2>1. \A p \in ToSet(q) : v[p] = w[p] BY <1>1, <1>9
  <2> QED BY <1>1, <2>1, LinkedKept
<1>11. ToSet(q) \cap (ahead \ {o}) = {} BY <1>13 DEF Turning
<1>12. Turning(v, first, g, q, ahead \ {o})
  BY <1>1, <1>5, <1>6, <1>10, <1>11 DEF Turning
<1>15. h = g BY <1>13 DEF g, n, m
<1> QED BY <1>1, <1>7, <1>9, <1>12, <1>15 DEF HasFreed

(* The sweep, turn by turn.                                                *)
Turn(keep, s, o) == IF o \in keep THEN Kept(s, o) ELSE Dead(s, o)
Turns(a, m, keep) ==
  a = [n \in 0..m |->
         IF n = 0 THEN [heap |-> heap, head |-> NIL, free |-> free, live |-> live]
         ELSE Turn(keep, a[n - 1], Chain[n])]

LEMMA TurnsExist ==
  ASSUME NEW keep, NEW N \in Nat
  PROVE  \E a : Turns(a, N, keep)
<1> DEFINE start == [heap |-> heap, head |-> NIL, free |-> free, live |-> live]
           T == { m \in Nat : ~ \E a : Turns(a, m, keep) }
<1>1. T = {}
  <2> SUFFICES ASSUME T # {} PROVE FALSE
    OBVIOUS
  <2>1. PICK m \in T : \A k \in T : m <= k
    <3>1. T \in SUBSET Nat OBVIOUS
    <3> HIDE DEF T
    <3> QED BY <3>1, LeastOf
  <2>2. m # 0
    <3>1. Turns([n \in 0 .. 0 |-> start], 0, keep) BY DEF Turns
    <3> QED BY <2>1, <3>1
  <2>3. m - 1 \in Nat /\ ~(m <= m - 1) BY <2>1, <2>2
  <2>4. PICK a : Turns(a, m - 1, keep) BY <2>1, <2>3
  <2> DEFINE g == [n \in 0 .. m |-> IF n = m THEN Turn(keep, a[m - 1], Chain[m]) ELSE a[n]]
  <2> HIDE DEF start
  <2>5. Turns(g, m, keep)
    <3>1. ASSUME NEW n \in 0 .. m
          PROVE g[n] = IF n = 0 THEN start ELSE Turn(keep, g[n - 1], Chain[n])
      <4>1. CASE n = m
        <5>1. g[m - 1] = a[m - 1] BY <2>2, <2>3, <4>1
        <5> QED BY <2>2, <4>1, <5>1
      <4>2. CASE n # m
        <5>1. n \in 0 .. (m - 1) /\ (n # 0 => n - 1 \in 0 .. m /\ n - 1 # m) BY <4>2
        <5>2. a[n] = IF n = 0 THEN start ELSE Turn(keep, a[n - 1], Chain[n])
          BY <2>4, <5>1 DEF Turns, start
        <5>3. n # 0 => g[n - 1] = a[n - 1] BY <5>1
        <5> QED BY <4>2, <5>2, <5>3
      <4> QED BY <4>1, <4>2
    <3> QED BY <3>1 DEF Turns, start
  <2> QED BY <2>1, <2>5
<1> QED BY <1>1

LEMMA SweptTurns ==
  ASSUME NEW keep, Len(Chain) \in Nat
  PROVE  \E a : Turns(a, Len(Chain), keep) /\ Swept(keep) = a[Len(Chain)]
<1> DEFINE after == CHOOSE a : Turns(a, Len(Chain), keep)
<1>1. Turns(after, Len(Chain), keep) BY TurnsExist
<1>2. Swept(keep) = after[Len(Chain)] BY DEF Swept, Turns, Turn
<1> HIDE DEF after
<1> QED BY <1>1, <1>2

(* After n turns: q is what was kept of the first n objects.               *)
Ahead(n) == { Chain[i] : i \in n + 1..Len(Chain) }
Midway(s, q, n, keep) ==
  /\ Turning(s.heap, s.head, s.free, q, Ahead(n))
  /\ ToSet(q) = { Chain[i] : i \in 1..n } \cap keep
  /\ s.live = Len(q) + (Len(Chain) - n)
  /\ Len(s.heap) = Len(heap)
  /\ \A p \in ToSet(q) \cup Ahead(n) : Same(s.heap, heap, p)

LEMMA TurnKeepsMidway ==
  ASSUME Linked(Chain, heap, head), poisoning \in BOOLEAN,
         NEW keep, NEW n \in 1..Len(Chain), NEW s, NEW q, Midway(s, q, n - 1, keep)
  PROVE  \E r : Midway(Turn(keep, s, Chain[n]), r, n, keep)
<1> DEFINE o == Chain[n]
           N == Len(Chain)
           w == s.heap
<1>1. N \in Nat /\ \A i, j \in 1..N : Chain[i] = Chain[j] => i = j
  BY LenProperties DEF Linked
<1>2. /\ o \in Ahead(n - 1)
      /\ Ahead(n) = Ahead(n - 1) \ {o}
      /\ { Chain[i] : i \in 1..n } = { Chain[i] : i \in 1..n - 1 } \cup {o}
  <2>1. n - 1 + 1 = n /\ n \in n..N BY <1>1
  <2>2. \A i \in n..N : i = n \/ i \in n + 1..N BY <1>1
  <2>3. \A i \in n + 1..N : i \in n..N /\ i \in 1..N /\ i # n BY <1>1
  <2>4. \A i \in 1..n : i = n \/ i \in 1..n - 1 BY <1>1
  <2>5. n \in 1..n /\ \A i \in 1..n - 1 : i \in 1..n BY <1>1
  <2>6. Ahead(n - 1) = { Chain[i] : i \in n..N } BY <2>1 DEF Ahead
  <2>7. Ahead(n) = Ahead(n - 1) \ {o} BY <1>1, <2>2, <2>3, <2>6 DEF Ahead
  <2>8. o \in Ahead(n - 1) BY <2>1, <2>6
  <2>9. { Chain[i] : i \in 1..n } = { Chain[i] : i \in 1..n - 1 } \cup {o} BY <2>4, <2>5
  <2> QED BY <2>7, <2>8, <2>9
<1>3. /\ Turning(w, s.head, s.free, q, Ahead(n - 1))
      /\ ToSet(q) = { Chain[i] : i \in 1..n - 1 } \cap keep
      /\ s.live = Len(q) + (N - (n - 1))
      /\ Len(w) = Len(heap)
      /\ \A p \in ToSet(q) \cup Ahead(n - 1) : Same(w, heap, p)
  BY DEF Midway
<1>4. Len(q) \in Nat BY <1>3, LenProperties DEF Turning, Linked
<1> HIDE DEF N, w, o
<1>5. CASE o \in keep
  <2> DEFINE r == <<o>> \o q
             v == [w EXCEPT ![o] = s.head]
             t == Kept(s, o)
  <2>1. t.heap = v /\ t.head = o /\ t.free = s.free /\ t.live = s.live BY DEF Kept, w
  <2>2. InFront(r, o, q) /\ PutIn(v, w, o, s.head) BY DEF InFront, PutIn
  <2> HIDE DEF r, v, t
  <2>3. /\ Turning(v, o, s.free, r, Ahead(n))
        /\ ToSet(r) = ToSet(q) \cup {o} /\ Len(r) = Len(q) + 1 /\ Len(v) = Len(w)
        /\ \A p \in ToSet(q) \cup Ahead(n - 1) : Same(v, w, p)
    <3>1. Turning(w, s.head, s.free, q, Ahead(n - 1)) /\ o \in Ahead(n - 1) BY <1>2, <1>3
    <3>2. Keeps(w, s.head, s.free, q, Ahead(n - 1), o, v, r) BY <2>2, <3>1 DEF Keeps
    <3>3. HasKept(w, s.free, q, Ahead(n - 1), o, v, r) BY <3>2, KeptTurn
    <3> QED BY <1>2, <3>3 DEF HasKept
  <2>4. ToSet(r) = { Chain[i] : i \in 1..n } \cap keep BY <1>2, <1>3, <1>5, <2>3
  <2>5. t.live = Len(r) + (N - n) BY <1>1, <1>3, <1>4, <2>1, <2>3
  <2>6. \A p \in ToSet(r) \cup Ahead(n) : Same(v, heap, p)
    <3> TAKE p \in ToSet(r) \cup Ahead(n)
    <3>1. p \in ToSet(q) \cup Ahead(n - 1) BY <1>2, <2>3
    <3>2. Same(v, w, p) /\ Same(w, heap, p) BY <1>3, <2>3, <3>1
    <3> QED BY <3>2 DEF Same
  <2>7. Midway(t, r, n, keep) BY <1>3, <2>1, <2>3, <2>4, <2>5, <2>6 DEF Midway, N
  <2>8. Turn(keep, s, o) = t BY <1>5 DEF Turn, t
  <2> QED BY <2>7, <2>8 DEF o
<1>6. CASE o \notin keep
  <2> DEFINE x == IF poisoning THEN POISON ELSE FREED
             v == [w EXCEPT ![o + 2] = x]
             t == Dead(s, o)
             g == FiledAs(s.free, <<w[o + 3], w[o + 2] - Live(0)>>, o)
  <2>1. t.heap = v /\ t.head = s.head /\ t.live = s.live - 1 /\ t.free = Filed(s.free, o)
    BY DEF Dead, w
  <2>2. t.free = g
    <3>1. w[o + 2] = heap[o + 2] /\ w[o + 3] = heap[o + 3] BY <1>2, <1>3 DEF Same
    <3>2. Size(o) = w[o + 3] /\ Meta(o) = w[o + 2] - Live(0) BY <3>1 DEF Size, Meta, Flags
    <3> QED BY <2>1, <3>2, FiledIs
  <2>3. PutIn(v, w, o + 2, x) /\ x \in {FREED, POISON} BY DEF PutIn
  <2> HIDE DEF v, t, x, g
  <2>4. /\ Turning(v, s.head, g, q, Ahead(n)) /\ Len(v) = Len(w)
        /\ \A p \in ToSet(q) \cup Ahead(n) : Same(v, w, p)
    <3>1. Turning(w, s.head, s.free, q, Ahead(n - 1)) /\ o \in Ahead(n - 1) BY <1>2, <1>3
    <3>2. Frees(w, s.head, s.free, q, Ahead(n - 1), o, v, g) BY <2>3, <3>1 DEF Frees, Flagged, g
    <3>3. HasFreed(w, s.head, q, Ahead(n - 1), o, v, g) BY <3>2, DeadTurn
    <3> QED BY <1>2, <3>3 DEF HasFreed
  <2>5. ToSet(q) = { Chain[i] : i \in 1..n } \cap keep BY <1>2, <1>3, <1>6
  <2>6. t.live = Len(q) + (N - n) BY <1>1, <1>3, <1>4, <2>1
  <2>7. \A p \in ToSet(q) \cup Ahead(n) : Same(v, heap, p)
    <3> TAKE p \in ToSet(q) \cup Ahead(n)
    <3>1. p \in ToSet(q) \cup Ahead(n - 1) BY <1>2
    <3>2. Same(v, w, p) /\ Same(w, heap, p) BY <1>3, <2>4, <3>1
    <3> QED BY <3>2 DEF Same
  <2>8. Midway(t, q, n, keep) BY <1>3, <2>1, <2>2, <2>4, <2>5, <2>6, <2>7 DEF Midway, N
  <2>9. Turn(keep, s, o) = t BY <1>6 DEF Turn, t
  <2> QED BY <2>8, <2>9 DEF o
<1> QED BY <1>5, <1>6

(* What a sweep leaves: a chain of the objects that are kept, with their   *)
(* headers and their data.                                                 *)
LEMMA SweepShape ==
  ASSUME Shape(heap, head, live, free, Chain), poisoning \in BOOLEAN, NEW keep
  PROVE  \E q : /\ Shape(Swept(keep).heap, Swept(keep).head, Swept(keep).live, Swept(keep).free, q)
                /\ ToSet(q) = Objects \cap keep
                /\ Len(Swept(keep).heap) = Len(heap)
                /\ \A p \in ToSet(q) : Same(Swept(keep).heap, heap, p)
<1> DEFINE N == Len(Chain)
<1>1. /\ Linked(Chain, heap, head) /\ Lists(free) /\ live = N
      /\ Sound(heap, ToSet(Chain), FiledChunks(free))
  BY DEF Shape
<1>2. N \in Nat BY <1>1, LenProperties DEF Linked
<1>3. PICK a : Turns(a, N, keep) /\ Swept(keep) = a[N] BY <1>2, SweptTurns
<1>4. \A p : p \in Objects <=> \E i \in 1..N : p = Chain[i]
  BY <1>1, OnChain DEF Linked, Objects
<1> HIDE DEF N
<1> DEFINE Fine(n) == \E q : Midway(a[n], q, n, keep)
           T == { n \in 0..N : ~Fine(n) }
<1>5. Fine(0)
  <2>1. a[0] = [heap |-> heap, head |-> NIL, free |-> free, live |-> live] BY <1>2, <1>3 DEF Turns
  <2>2. a[0].heap = heap /\ a[0].head = NIL /\ a[0].free = free /\ a[0].live = live BY <2>1
  <2>3. Ahead(0) = ToSet(Chain) BY <1>4 DEF Ahead, Objects, N
  <2>4. ToSet(<<>>) = {} BY DEF ToSet
  <2>5. Linked(<<>>, heap, NIL) BY EmptySeq DEF Linked
  <2>6. Turning(heap, NIL, free, <<>>, Ahead(0)) BY <1>1, <2>3, <2>4, <2>5 DEF Turning
  <2>7. { Chain[i] : i \in 1..0 } = {} OBVIOUS
  <2>8. live = Len(<<>>) + (N - 0) BY <1>1, <1>2, EmptySeq DEF N
  <2>9. \A p : Same(heap, heap, p) BY DEF Same
  <2> HIDE DEF Fine
  <2>10. Midway(a[0], <<>>, 0, keep) BY <2>2, <2>4, <2>6, <2>7, <2>8, <2>9 DEF Midway, N
  <2> QED BY <2>10 DEF Fine
<1>6. T = {}
  <2> SUFFICES ASSUME T # {} PROVE FALSE
    OBVIOUS
  <2>1. PICK n \in T : \A k \in T : n <= k
    <3>1. T \in SUBSET Nat OBVIOUS
    <3> HIDE DEF T
    <3> QED BY <3>1, LeastOf
  <2>2. n \in 0..N /\ ~Fine(n) BY <2>1
  <2>3. n # 0 BY <1>5, <2>2
  <2>4. n - 1 \in 0..N /\ ~(n <= n - 1) /\ n \in 1..N BY <1>2, <2>2, <2>3
  <2>5. Fine(n - 1) BY <2>1, <2>4
  <2>6. PICK q : Midway(a[n - 1], q, n - 1, keep) BY <2>5
  <2> HIDE DEF Fine, T
  <2>7. \E r : Midway(Turn(keep, a[n - 1], Chain[n]), r, n, keep)
    BY <1>1, <2>4, <2>6, TurnKeepsMidway DEF N
  <2>8. a[n] = Turn(keep, a[n - 1], Chain[n]) BY <1>3, <2>2, <2>3 DEF Turns
  <2>9. Fine(n) BY <2>7, <2>8 DEF Fine
  <2> QED BY <2>2, <2>9
<1>7. N \in 0..N BY <1>2
<1>8. PICK q : Midway(a[N], q, N, keep) BY <1>6, <1>7
<1> HIDE DEF Fine, T
<1>9. Ahead(N) = {}
  <2>1. N + 1..N = {} BY <1>2
  <2> QED BY <2>1 DEF Ahead, N
<1> DEFINE s == Swept(keep)
<1>10. Midway(s, q, N, keep) BY <1>3, <1>8
<1> HIDE DEF s
<1>11. /\ Turning(s.heap, s.head, s.free, q, {})
       /\ ToSet(q) = { Chain[i] : i \in 1..N } \cap keep
       /\ s.live = Len(q) + (N - N)
       /\ Len(s.heap) = Len(heap)
       /\ \A p \in ToSet(q) : Same(s.heap, heap, p)
  BY <1>9, <1>10 DEF Midway, N
<1>12. s.live = Len(q)
  <2>1. Len(q) \in Nat BY <1>11, LenProperties DEF Turning, Linked
  <2> QED BY <1>2, <1>11, <2>1
<1>13. Shape(s.heap, s.head, s.live, s.free, q)
  <2>1. ToSet(q) \cup {} = ToSet(q) OBVIOUS
  <2> QED BY <1>11, <1>12, <2>1 DEF Turning, Shape
<1>14. ToSet(q) = Objects \cap keep BY <1>4, <1>11
<1> QED BY <1>11, <1>13, <1>14 DEF s

-----------------------------------------------------------------------------
(* stamp_meta writes two meta words where there are any: no object may be  *)
(* made with room for only one.  The code does not see to it; the policies *)
(* the library writes do.                                                  *)
StampSafe == 1 \notin Policies /\ MetaCap # 1

LEMMA MetaExtraIs ==
  ASSUME StampSafe, policy \in Policies \cup {0}
  PROVE  MetaExtra \in Nat /\ MetaExtra # 1
<1>1. policy \in Nat /\ policy # 1 BY ObjectHeapAssumption DEF StampSafe
<1>2. MetaCap \in Nat /\ MetaCap # 1 BY ObjectHeapAssumption DEF StampSafe
<1> QED BY <1>1, <1>2 DEF MetaExtra

(* A step that leaves the objects S.                                       *)
Leaves(S) == \E q : Shape(heap', head', live', free', q) /\ ToSet(q) = S

LEMMA NewChain ==
  ASSUME NEW S, Leaves(S)
  PROVE  Shape(heap', head', live', free', Chain') /\ Objects' = S
<1>1. PICK q : Shape(heap', head', live', free', q) /\ ToSet(q) = S BY DEF Leaves
<1>2. ChainFrom(heap', head') = q BY <1>1, ChainOfShape
<1> QED BY <1>1, <1>2 DEF Chain, Objects

LEMMA StillHolds ==
  ASSUME NEW S, Leaves(S), Len(heap') <= MaxWords, policy' \in Policies \cup {0},
         poisoning' \in BOOLEAN, held' \subseteq S
  PROVE  IInv'
<1>1. Shape(heap', head', live', free', Chain') /\ Objects' = S BY NewChain
<1> QED BY <1>1 DEF IInv

(* A step that makes an object of n words, blank, and changes the contents *)
(* of no other.                                                            *)
Adds(v, w, q, o, n, count, g) ==
  /\ \E r : Shape(v, o, count, g, r) /\ ToSet(r) = ToSet(q) \cup {o}
  /\ o \notin ToSet(q)
  /\ ContentsOf(v, o) = [i \in 1..n |-> NIL]
  /\ \A p \in ToSet(q) : ContentsOf(v, p) = ContentsOf(w, p)
Makes(o, n) ==
  /\ Leaves(Objects \cup {o}) /\ o \notin Objects
  /\ Len(heap') <= MaxWords
  /\ held' = held \cup {o}
  /\ ContentsOf(heap', o) = [i \in 1..n |-> NIL]
  /\ \A p \in Objects : ContentsOf(heap', p) = ContentsOf(heap, p)

LEMMA AddsMakes ==
  ASSUME NEW o, NEW n, Adds(heap', heap, Chain, o, n, live', free'), head' = o,
         Len(heap') <= MaxWords, held' = held \cup {o}
  PROVE  Makes(o, n)
<1>1. ToSet(Chain) = Objects BY DEF Objects
<1>2. Leaves(Objects \cup {o}) BY <1>1 DEF Adds, Leaves
<1> QED BY <1>1, <1>2 DEF Adds, Makes

Retakes(v, w, first, f, k, g) ==
  /\ v = Overwrite(w, Last(f[k]), Made(first, k[2], k[1]))
  /\ g = [f EXCEPT ![k] = Front(@)]
LEMMA ReuseAdds ==
  ASSUME NEW w, NEW first, NEW count, NEW f, NEW q, Shape(w, first, count, f, q),
         NEW k \in DOMAIN f, f[k] # <<>>, k[2] # 1, NEW v, NEW g, Retakes(v, w, first, f, k, g)
  PROVE  Adds(v, w, q, Last(f[k]), k[1], count + 1, g) /\ Len(v) = Len(w)
<1> DEFINE o == Last(f[k])
           u == Overwrite(w, o, Made(first, k[2], k[1]))
           h == [f EXCEPT ![k] = Front(@)]
<1>1. /\ Shape(u, o, count + 1, h, <<o>> \o q)
      /\ ToSet(<<o>> \o q) = ToSet(q) \cup {o}
      /\ o \notin ToSet(q)
      /\ Len(u) = Len(w)
      /\ ContentsOf(u, o) = [i \in 1..k[1] |-> NIL]
      /\ \A p \in ToSet(q) : ContentsOf(u, p) = ContentsOf(w, p)
  BY ReuseShape
<1>2. v = u /\ g = h BY DEF Retakes
<1> HIDE DEF u, h, o
<1> QED BY <1>1, <1>2 DEF Adds, o

LEMMA GrowAdds ==
  ASSUME NEW w, NEW first, NEW count, NEW f, NEW q, Shape(w, first, count, f, q),
         NEW m \in Nat, NEW n \in Nat, m # 1, NEW v, Grown(v, w, first, m, n)
  PROVE  Adds(v, w, q, Len(w) + 1 + m, n, count + 1, f) /\ Len(v) = Len(w) + m + 4 + n
<1> DEFINE o == Len(w) + 1 + m
<1>1. /\ Shape(v, o, count + 1, f, <<o>> \o q)
      /\ ToSet(<<o>> \o q) = ToSet(q) \cup {o}
      /\ o \notin ToSet(q) /\ o \in 1..Len(v)
      /\ Len(v) = Len(w) + m + 4 + n
      /\ ContentsOf(v, o) = [i \in 1..n |-> NIL]
      /\ \A p \in ToSet(q) : ContentsOf(v, p) = ContentsOf(w, p)
  BY GrowShape
<1> HIDE DEF o
<1> QED BY <1>1 DEF Adds, o

LEMMA ReuseMakes ==
  ASSUME IInv, StampSafe, NEW n \in Lengths, Reuse(n, MetaExtra), live' = live + 1
  PROVE  \E o : Makes(o, n)
<1> DEFINE k == <<n, MetaExtra>>
           o == Last(free[k])
<1>1. k \in DOMAIN free /\ free[k] # <<>> /\ Bucket(n, MetaExtra) = free[k]
  BY DEF Reuse, Takes, Bucket
<1>2. k[1] = n /\ k[2] = MetaExtra /\ k[2] # 1 BY MetaExtraIs DEF IInv
<1>3. head' = o /\ held' = held \cup {o} BY <1>1 DEF Reuse
<1>4. Retakes(heap', heap, head, free, k, free')
  <2>1. heap' = Overwrite(heap, o, Made(head, MetaExtra, n)) BY <1>1 DEF Reuse, Made, Header
  <2>2. free' = [free EXCEPT ![k] = Front(@)] BY DEF Reuse
  <2> QED BY <1>2, <2>1, <2>2 DEF Retakes
<1>5. Shape(heap, head, live, free, Chain) /\ Len(heap) <= MaxWords BY DEF IInv
<1> HIDE DEF k
<1>6. Adds(heap', heap, Chain, Last(free[k]), k[1], live + 1, free') /\ Len(heap') = Len(heap)
  BY <1>1, <1>2, <1>4, <1>5, ReuseAdds
<1>7. Adds(heap', heap, Chain, o, n, live', free') BY <1>2, <1>6
<1> HIDE DEF o
<1>8. Makes(o, n) BY <1>3, <1>5, <1>6, <1>7, AddsMakes
<1> QED BY <1>8

LEMMA GrowMakes ==
  ASSUME IInv, StampSafe, NEW n \in Lengths, Grow(n, MetaExtra), live' = live + 1
  PROVE  \E o : Makes(o, n)
<1> DEFINE m == MetaExtra
           o == Len(heap) + 1 + m
<1>1. m \in Nat /\ m # 1 BY MetaExtraIs DEF IInv
<1>2. n \in Nat BY ObjectHeapAssumption
<1>3. Grown(heap', heap, head, m, n) BY DEF Grow, Grown, Header
<1>4. head' = o /\ held' = held \cup {o} /\ free' = free BY DEF Grow, Frontier
<1>5. Shape(heap, head, live, free, Chain) /\ Len(heap) <= MaxWords BY DEF IInv
<1>9. Len(heap) + m + 4 + n <= MaxWords BY DEF Grow, HEADER
<1> HIDE DEF m
<1>6. Adds(heap', heap, Chain, Len(heap) + 1 + m, n, live + 1, free) /\ Len(heap') = Len(heap) + m + 4 + n
  BY <1>1, <1>2, <1>3, <1>5, GrowAdds
<1>7. Adds(heap', heap, Chain, o, n, live', free') BY <1>4, <1>6
<1>10. Len(heap') <= MaxWords BY <1>6, <1>9
<1> HIDE DEF o
<1>8. Makes(o, n) BY <1>4, <1>7, <1>10, AddsMakes
<1> QED BY <1>8

LEMMA AllocMakes ==
  ASSUME IInv, StampSafe, Alloc
  PROVE  \E n \in Lengths : \E o : Makes(o, n)
<1>1. PICK n \in Lengths : Reuse(n, MetaExtra) \/ Grow(n, MetaExtra) BY DEF Alloc
<1>2. live' = live + 1 BY DEF Alloc
<1>3. \E o : Makes(o, n) BY <1>1, <1>2, ReuseMakes, GrowMakes
<1> QED BY <1>3

(* A step that writes into the objects it leaves in place.                 *)
Remains == Leaves(Objects) /\ Len(heap') <= MaxWords

LEMMA AllocBytesRemains ==
  ASSUME IInv, AllocBytes
  PROVE  Remains /\ \A p \in Objects : ContentsOf(heap', p) = ContentsOf(heap, p)
<1>1. PICK k \in Runs, y \in Data :
        Len(heap) + k <= MaxWords /\ heap' = heap \o [i \in 1..k |-> y]
  BY DEF AllocBytes
<1> DEFINE s == [i \in 1..k |-> y]
<1>2. k \in Nat /\ y \in Nat BY ObjectHeapAssumption
<1>3. s \in Seq(Nat) /\ Len(s) = k BY <1>2
<1>4. heap' = heap \o s BY <1>1
<1> HIDE DEF s
<1>5. Shape(heap, head, live, free, Chain) /\ heap \in Seq(Nat) BY DEF IInv, Shape, Sound
<1>6. Joined(heap', heap, s) BY <1>3, <1>4, <1>5, JoinedIs
<1>7. /\ Shape(heap', head, live, free, Chain)
      /\ \A p \in ToSet(Chain) : ContentsOf(heap', p) = ContentsOf(heap, p)
  BY <1>3, <1>5, <1>6, BytesShape
<1>8. UNCHANGED <<head, live, free>> BY DEF AllocBytes
<1>9. Leaves(Objects) BY <1>7, <1>8 DEF Leaves, Objects
<1>10. Len(heap') <= MaxWords BY <1>1, <1>3, <1>6 DEF Joined
<1> QED BY <1>7, <1>9, <1>10 DEF Remains, Objects

(* A word of an object is written.                                         *)
WritesIn(o, x, y) ==
  /\ o \in Objects /\ Inside(heap, o, x) /\ y \in Nat
  /\ PutIn(heap', heap, x, y)
HasWritten(o, x, y) ==
  /\ Len(heap') = Len(heap)
  /\ \A p \in Objects \ {o} : ContentsOf(heap', p) = ContentsOf(heap, p)
  /\ heap'[o + 2] = heap[o + 2] /\ heap'[o + 3] = heap[o + 3]
  /\ \A a \in 1..Len(heap) : heap'[a] = IF a = x THEN y ELSE heap[a]

LEMMA WriteRemains ==
  ASSUME IInv, NEW o, NEW x, NEW y, WritesIn(o, x, y), UNCHANGED <<head, live, free>>
  PROVE  Remains /\ HasWritten(o, x, y)
<1>1. Shape(heap, head, live, free, Chain) /\ Len(heap) <= MaxWords BY DEF IInv
<1>2. o \in ToSet(Chain) /\ Inside(heap, o, x) /\ y \in Nat /\ PutIn(heap', heap, x, y)
  BY DEF WritesIn, Objects
<1>3. /\ Shape(heap', head, live, free, Chain) /\ Len(heap') = Len(heap)
      /\ \A p \in ToSet(Chain) \ {o} : ContentsOf(heap', p) = ContentsOf(heap, p)
      /\ heap'[o + 2] = heap[o + 2] /\ heap'[o + 3] = heap[o + 3]
      /\ \A a \in 1..Len(heap) : heap'[a] = IF a = x THEN y ELSE heap[a]
  BY <1>1, <1>2, InsideShape
<1>4. Leaves(Objects) BY <1>3 DEF Leaves, Objects
<1> QED BY <1>1, <1>3, <1>4 DEF Remains, HasWritten, Objects

(* Where an object of the chain lies.                                      *)
LEMMA ObjectLies ==
  ASSUME IInv, NEW o \in Objects
  PROVE  /\ Len(heap) \in Nat
         /\ o \in Nat /\ Size(o) \in Nat /\ Meta(o) \in Nat /\ Meta(o) # 1
         /\ 0 < o - Meta(o) /\ o + 4 + Size(o) <= Len(heap) + 1
         /\ Size(o) = heap[o + 3] /\ Meta(o) = heap[o + 2] - 3
<1>1. Sound(heap, Objects, FiledChunks(free)) BY DEF IInv, Shape, Objects
<1>2. /\ Len(heap) \in Nat /\ o \in Nat /\ heap[o + 3] \in Nat
      /\ heap[o + 2] - 3 \in Nat /\ heap[o + 2] - 3 # 1
      /\ 0 < o - (heap[o + 2] - 3) /\ o + 4 + heap[o + 3] <= Len(heap) + 1
  BY <1>1, ObjectFits
<1>3. Size(o) = heap[o + 3] /\ Meta(o) = heap[o + 2] - 3 BY DEF Size, Meta, Flags, Live
<1> QED BY <1>2, <1>3

SetsDatum(o, i, w) ==
  o \in held /\ w \in Data /\ i \in 1..Size(o) /\ PutIn(heap', heap, Datum(o, i), w)
LEMMA SetDataRemains ==
  ASSUME IInv, NEW o, NEW i, NEW w, SetsDatum(o, i, w), UNCHANGED <<head, live, free>>
  PROVE  /\ Remains
         /\ \A p \in Objects \ {o} : ContentsOf(heap', p) = ContentsOf(heap, p)
         /\ ContentsOf(heap', o) = [ContentsOf(heap, o) EXCEPT ![i] = w]
<1> DEFINE x == Datum(o, i)
           n == Size(o)
<1>1. o \in Objects /\ w \in Nat /\ i \in 1..n /\ PutIn(heap', heap, x, w)
  BY ObjectHeapAssumption DEF SetsDatum, IInv
<1>2. /\ Len(heap) \in Nat /\ o \in Nat /\ n \in Nat /\ Meta(o) \in Nat
      /\ 0 < o - Meta(o) /\ o + 4 + n <= Len(heap) + 1
      /\ n = heap[o + 3] /\ Meta(o) = heap[o + 2] - 3
  BY <1>1, ObjectLies
<1> HIDE DEF n
<1>3. x = o + 4 + i - 1 BY DEF Datum, HEADER
<1> HIDE DEF x
<1>4. Inside(heap, o, x) BY <1>1, <1>2, <1>3 DEF Inside
<1>5. WritesIn(o, x, w) BY <1>1, <1>4 DEF WritesIn
<1>6. Remains /\ HasWritten(o, x, w) BY <1>5, WriteRemains
<1>7. /\ \A p \in Objects \ {o} : ContentsOf(heap', p) = ContentsOf(heap, p)
      /\ heap'[o + 3] = n
      /\ \A a \in 1..Len(heap) : heap'[a] = IF a = x THEN w ELSE heap[a]
  BY <1>2, <1>6 DEF HasWritten
<1>8. ContentsOf(heap, o) = [j \in 1..n |-> heap[o + 4 + j - 1]] BY <1>2 DEF ContentsOf
<1>9. ContentsOf(heap', o) = [j \in 1..n |-> heap'[o + 4 + j - 1]] BY <1>7 DEF ContentsOf
<1>10. \A j \in 1..n : heap'[o + 4 + j - 1] = IF j = i THEN w ELSE heap[o + 4 + j - 1]
  <2> TAKE j \in 1..n
  <2>1. o + 4 + j - 1 \in 1..Len(heap) /\ (o + 4 + j - 1 = x <=> j = i) BY <1>1, <1>2, <1>3
  <2> QED BY <1>7, <2>1
<1>11. ContentsOf(heap', o) = [ContentsOf(heap, o) EXCEPT ![i] = w] BY <1>8, <1>9, <1>10
<1> QED BY <1>6, <1>7, <1>11

(* A word below the header is written: no data are.                        *)
LEMMA BelowKeeps ==
  ASSUME NEW w, NEW first, NEW count, NEW f, NEW q, Shape(w, first, count, f, q),
         NEW o \in ToSet(q), NEW x \in Int, o - (w[o + 2] - 3) <= x, x < o,
         NEW y \in Nat, NEW v, PutIn(v, w, x, y)
  PROVE  /\ Shape(v, first, count, f, q) /\ Len(v) = Len(w)
         /\ v[o + 2] = w[o + 2]
         /\ \A p \in ToSet(q) : ContentsOf(v, p) = ContentsOf(w, p)
<1> DEFINE n == w[o + 3]
           m == w[o + 2] - 3
<1>1. Sound(w, ToSet(q), FiledChunks(f)) BY DEF Shape
<1>2. /\ Len(w) \in Nat /\ o \in Nat /\ n \in Nat /\ m \in Nat
      /\ 0 < o - m /\ o + 4 + n <= Len(w) + 1
  BY <1>1, ObjectFits
<1>3. Inside(w, o, x)
  <2>1. x < o + 4 + n
    <3> HIDE DEF n
    <3> QED BY <1>2
  <2> QED BY <2>1 DEF Inside
<1>4. /\ Shape(v, first, count, f, q) /\ Len(v) = Len(w)
      /\ \A p \in ToSet(q) \ {o} : ContentsOf(v, p) = ContentsOf(w, p)
      /\ v[o + 2] = w[o + 2] /\ v[o + 3] = n
      /\ \A a \in 1..Len(w) : v[a] = IF a = x THEN y ELSE w[a]
  BY <1>3, InsideShape
<1> HIDE DEF n, m
<1>5. \A i \in 1..n : v[o + 4 + i - 1] = w[o + 4 + i - 1]
  <2> TAKE i \in 1..n
  <2>1. o + 4 + i - 1 \in 1..Len(w) /\ o + 4 + i - 1 # x BY <1>2
  <2> QED BY <1>4, <2>1
<1>6. ContentsOf(v, o) = ContentsOf(w, o)
  <2>1. ContentsOf(v, o) = [i \in 1..n |-> v[o + 4 + i - 1]] BY <1>4 DEF ContentsOf
  <2>2. ContentsOf(w, o) = [i \in 1..n |-> w[o + 4 + i - 1]] BY DEF ContentsOf, n
  <2> QED BY <1>5, <2>1, <2>2
<1>7. \A p \in ToSet(q) : ContentsOf(v, p) = ContentsOf(w, p) BY <1>4, <1>6
<1> QED BY <1>4, <1>7

LEMMA StampRemains ==
  ASSUME IInv, Stamp
  PROVE  Remains /\ \A p \in Objects : ContentsOf(heap', p) = ContentsOf(heap, p)
<1>1. PICK o \in held, line \in Data, file \in Data :
        Meta(o) > 0 /\ heap' = [heap EXCEPT ![o - 1] = line, ![o - 2] = file]
  BY DEF Stamp
<1>2. line \in Nat /\ file \in Nat BY ObjectHeapAssumption
<1>3. o \in Objects BY DEF IInv
<1>4. o \in Nat /\ Meta(o) \in Nat /\ Meta(o) # 1 /\ Meta(o) = heap[o + 2] - 3
  BY <1>3, ObjectLies
<1>5. Meta(o) >= 2
  <2> DEFINE m == Meta(o)
  <2>1. m \in Nat /\ m # 1 /\ m > 0 BY <1>1, <1>4
  <2> HIDE DEF m
  <2>2. m >= 2 BY <2>1
  <2> QED BY <2>2 DEF m
<1>6. o - (heap[o + 2] - 3) <= o - 2 /\ o - (heap[o + 2] - 3) <= o - 1 BY <1>4, <1>5
<1> DEFINE u == [heap EXCEPT ![o - 1] = line]
<1>7. PutIn(u, heap, o - 1, line) /\ PutIn(heap', u, o - 2, file) BY <1>1 DEF PutIn
<1> HIDE DEF u
<1>8. Shape(heap, head, live, free, Chain) /\ o \in ToSet(Chain) /\ Len(heap) <= MaxWords
  BY <1>3 DEF IInv, Objects
<1>9. o - 1 \in Int /\ o - 1 < o /\ o - 2 \in Int /\ o - 2 < o BY <1>4
<1>10. /\ Shape(u, head, live, free, Chain) /\ Len(u) = Len(heap)
       /\ u[o + 2] = heap[o + 2]
       /\ \A p \in ToSet(Chain) : ContentsOf(u, p) = ContentsOf(heap, p)
  BY <1>2, <1>6, <1>7, <1>8, <1>9, BelowKeeps
<1>11. /\ Shape(heap', head, live, free, Chain) /\ Len(heap') = Len(u)
       /\ \A p \in ToSet(Chain) : ContentsOf(heap', p) = ContentsOf(u, p)
  <2>1. o - (u[o + 2] - 3) <= o - 2 BY <1>6, <1>10
  <2>2. Shape(u, head, live, free, Chain) BY <1>10
  <2> QED BY <1>2, <1>7, <1>8, <1>9, <2>1, <2>2, BelowKeeps
<1>12. UNCHANGED <<head, live, free>> BY DEF Stamp
<1>13. Leaves(Objects) BY <1>11, <1>12 DEF Leaves, Objects
<1> QED BY <1>8, <1>10, <1>11, <1>13 DEF Remains, Objects

(* A sweep leaves what is held, and its contents.                          *)
LEMMA SweepLeaves ==
  ASSUME IInv, Sweep
  PROVE  \E S : /\ Leaves(S) /\ held \subseteq S /\ Len(heap') <= MaxWords
                /\ \A p \in held : ContentsOf(heap', p) = ContentsOf(heap, p)
<1>1. PICK also \in SUBSET (Objects \ held) :
        LET s == Swept(held \cup also)
        IN  heap' = s.heap /\ head' = s.head /\ free' = s.free /\ live' = s.live
  BY DEF Sweep
<1> DEFINE keep == held \cup also
           s == Swept(keep)
<1>2. heap' = s.heap /\ head' = s.head /\ free' = s.free /\ live' = s.live BY <1>1
<1> HIDE DEF s
<1>3. Shape(heap, head, live, free, Chain) /\ poisoning \in BOOLEAN /\ held \subseteq Objects
      /\ Len(heap) <= MaxWords
  BY DEF IInv
<1>4. PICK q : /\ Shape(s.heap, s.head, s.live, s.free, q)
               /\ ToSet(q) = Objects \cap keep
               /\ Len(s.heap) = Len(heap)
               /\ \A p \in ToSet(q) : Same(s.heap, heap, p)
  BY <1>3, SweepShape DEF s
<1>5. Leaves(ToSet(q)) BY <1>2, <1>4 DEF Leaves
<1>6. held \subseteq ToSet(q) BY <1>3, <1>4
<1>7. \A p \in held : ContentsOf(heap', p) = ContentsOf(heap, p) BY <1>2, <1>4, <1>6 DEF Same
<1> QED BY <1>2, <1>3, <1>4, <1>5, <1>6, <1>7

LEMMA Untouched ==
  ASSUME IInv, UNCHANGED <<heap, head, live, free>>
  PROVE  Remains
<1>1. Shape(heap', head', live', free', Chain) /\ Len(heap') <= MaxWords BY DEF IInv
<1>2. Leaves(Objects) BY <1>1 DEF Leaves, Objects
<1> QED BY <1>1, <1>2 DEF Remains

-----------------------------------------------------------------------------
LEMMA InitIsSound == Init => IInv
<1> SUFFICES ASSUME Init PROVE IInv OBVIOUS
<1>1. heap = <<>> /\ head = NIL /\ live = 0 /\ free = [k \in {} |-> <<>>]
      /\ policy = 0 /\ poisoning \in BOOLEAN /\ held = {}
  BY DEF Init
<1>2. Len(heap) = 0 /\ heap \in Seq(Nat) BY <1>1, EmptySeq
<1>3. FiledChunks(free) = {} BY <1>1 DEF FiledChunks
<1>4. ToSet(<<>>) = {} BY DEF ToSet
<1>5. Linked(<<>>, heap, head) BY <1>1, EmptySeq DEF Linked
<1>6. Lists(free) BY <1>1 DEF Lists
<1>7. Sound(heap, {}, {}) BY <1>2 DEF Sound, LiveChunks, Laid
<1>8. Shape(heap, head, live, free, <<>>) BY <1>1, <1>3, <1>4, <1>5, <1>6, <1>7, EmptySeq DEF Shape
<1>9. Chain = <<>> BY <1>8, ChainOfShape DEF Chain
<1>10. Len(heap) <= MaxWords BY <1>2, ObjectHeapAssumption
<1> QED BY <1>1, <1>8, <1>9, <1>10 DEF IInv

LEMMA StepIsSound ==
  ASSUME IInv, StampSafe, [Next]_vars
  PROVE  IInv'
<1>1. held \subseteq Objects /\ policy \in Policies \cup {0} /\ poisoning \in BOOLEAN BY DEF IInv
<1>2. CASE Alloc
  <2>4. PICK n \in Lengths : \E o : Makes(o, n) BY <1>2, AllocMakes
  <2>1. PICK o : Makes(o, n) BY <2>4
  <2>2. policy' = policy /\ poisoning' = poisoning BY <1>2 DEF Alloc
  <2>3. Leaves(Objects \cup {o}) /\ Len(heap') <= MaxWords /\ held' \subseteq Objects \cup {o}
    BY <1>1, <2>1 DEF Makes
  <2> QED BY <1>1, <2>2, <2>3, StillHolds
<1>3. CASE AllocBytes
  <2>1. Leaves(Objects) /\ Len(heap') <= MaxWords BY <1>3, AllocBytesRemains DEF Remains
  <2>2. policy' = policy /\ poisoning' = poisoning /\ held' = held BY <1>3 DEF AllocBytes
  <2> QED BY <1>1, <2>1, <2>2, StillHolds
<1>4. CASE SetData
  <2>1. PICK o \in held, w \in Data : \E i \in 1..Size(o) : heap' = [heap EXCEPT ![Datum(o, i)] = w]
    BY <1>4 DEF SetData
  <2>2. PICK i \in 1..Size(o) : heap' = [heap EXCEPT ![Datum(o, i)] = w] BY <2>1
  <2>3. SetsDatum(o, i, w) BY <2>2 DEF SetsDatum, PutIn
  <2>4. UNCHANGED <<head, live, free, policy, poisoning, held>> BY <1>4 DEF SetData
  <2>5. Leaves(Objects) /\ Len(heap') <= MaxWords BY <2>3, <2>4, SetDataRemains DEF Remains
  <2> QED BY <1>1, <2>4, <2>5, StillHolds
<1>5. CASE Stamp
  <2>1. Leaves(Objects) /\ Len(heap') <= MaxWords BY <1>5, StampRemains DEF Remains
  <2>2. policy' = policy /\ poisoning' = poisoning /\ held' = held BY <1>5 DEF Stamp
  <2> QED BY <1>1, <2>1, <2>2, StillHolds
<1>6. CASE SetPolicy
  <2>1. UNCHANGED <<heap, head, live, free>> BY <1>6 DEF SetPolicy
  <2>2. Leaves(Objects) /\ Len(heap') <= MaxWords BY <2>1, Untouched DEF Remains
  <2>3. policy' \in Policies /\ poisoning' = poisoning /\ held' = held BY <1>6 DEF SetPolicy
  <2> QED BY <1>1, <2>2, <2>3, StillHolds
<1>7. CASE Drop
  <2>1. UNCHANGED <<heap, head, live, free>> BY <1>7 DEF Drop
  <2>2. Leaves(Objects) /\ Len(heap') <= MaxWords BY <2>1, Untouched DEF Remains
  <2>3. policy' = policy /\ poisoning' = poisoning /\ held' \subseteq held BY <1>7 DEF Drop
  <2> QED BY <1>1, <2>2, <2>3, StillHolds
<1>8. CASE Sweep
  <2>1. PICK S : Leaves(S) /\ held \subseteq S /\ Len(heap') <= MaxWords BY <1>8, SweepLeaves
  <2>2. policy' = policy /\ poisoning' = poisoning /\ held' = held BY <1>8 DEF Sweep
  <2> QED BY <1>1, <2>1, <2>2, StillHolds
<1>9. CASE UNCHANGED vars
  <2>1. UNCHANGED <<heap, head, live, free>> BY <1>9 DEF vars
  <2>2. Leaves(Objects) /\ Len(heap') <= MaxWords BY <2>1, Untouched DEF Remains
  <2>3. policy' = policy /\ poisoning' = poisoning /\ held' = held BY <1>9 DEF vars
  <2> QED BY <1>1, <2>2, <2>3, StillHolds
<1> QED BY <1>2, <1>3, <1>4, <1>5, <1>6, <1>7, <1>8, <1>9 DEF Next

(* Each chunk, live or filed, is sound in the words, at every step.        *)
THEOREM Inductive ==
  ASSUME StampSafe
  PROVE  Spec => []IInv
<1>1. IInv /\ [Next]_vars => IInv' BY StepIsSound
<1>2. Init => IInv BY InitIsSound
<1> QED BY <1>1, <1>2, PTL DEF Spec

(* Each part of the state is of its kind: the chain starts in the heap and *)
(* the free lists hold addresses of the heap.                              *)
THEOREM TypeCorrect ==
  ASSUME StampSafe
  PROVE  Spec => []TypeOK
<1>1. IInv => TypeOK
  <2> SUFFICES ASSUME IInv PROVE TypeOK OBVIOUS
  <2>1. /\ Linked(Chain, heap, head) /\ Lists(free) /\ live = Len(Chain)
        /\ Sound(heap, Objects, FiledChunks(free))
        /\ Objects \subseteq 1..Len(heap)
    <3>1. Shape(heap, head, live, free, Chain) BY DEF IInv
    <3> QED BY <3>1, ChainOfShape DEF Shape, Objects
  <2>2. heap \in Seq(Nat) /\ Len(heap) \in Nat /\ Laid(LiveChunks(heap, Objects) \cup FiledChunks(free), Len(heap))
    BY <2>1, LenProperties DEF Sound
  <2>3. Len(Chain) \in Nat BY <2>1, LenProperties DEF Linked
  <2>4. head \in 0..Len(heap)
    <3>1. CASE Chain = <<>> BY <2>1, <2>2, <3>1 DEF Linked, NIL
    <3>2. CASE Chain # <<>>
      <4>1. 1 \in 1..Len(Chain) BY <2>1, <2>3, <3>2, EmptySeq DEF Linked
      <4>2. head \in Objects BY <2>1, <3>2, <4>1, OnChain DEF Linked, Objects
      <4> QED BY <2>1, <2>2, <4>2
    <3> QED BY <3>1, <3>2
  <2>5. ASSUME NEW k \in DOMAIN free PROVE free[k] \in Seq(1..Len(heap))
    <3>1. free[k] \in Seq(Nat) BY <2>1 DEF Lists
    <3>2. ASSUME NEW i \in 1..Len(free[k]) PROVE free[k][i] \in 1..Len(heap)
      <4> DEFINE c == <<free[k][i], k[1], k[2]>>
      <4>1. c \in LiveChunks(heap, Objects) \cup FiledChunks(free) BY <2>1, FiledMembers
      <4>2. c[1] = free[k][i] OBVIOUS
      <4> HIDE DEF c
      <4>3. c[1] \in 1..Len(heap) BY <2>2, <4>1, ChunkFits
      <4> QED BY <4>2, <4>3
    <3>3. Len(free[k]) \in Nat /\ free[k] \in [1..Len(free[k]) -> Nat] BY <3>1, LenProperties
    <3>4. free[k] \in [1..Len(free[k]) -> 1..Len(heap)] BY <3>2, <3>3
    <3> QED BY <3>3, <3>4
  <2>6. /\ Len(heap) <= MaxWords /\ policy \in Policies \cup {0} /\ poisoning \in BOOLEAN
        /\ held \subseteq Objects
    BY DEF IInv
  <2> QED BY <2>1, <2>2, <2>3, <2>4, <2>5, <2>6 DEF TypeOK
<1> QED BY <1>1, Inductive, PTL

LEMMA ChunksAre == Chunks = LiveChunks(heap, Objects) \cup FiledChunks(free)
BY DEF Chunks, LiveChunks, FiledChunks, ChunkAt, Size, Meta, Flags

LEMMA WordsAre ==
  ASSUME NEW o \in Nat, NEW n \in Nat, NEW m \in Nat, NEW x
  PROVE  x \in Words(o, n, m) <=> x \in Int /\ o - m <= x /\ x < o + 4 + n
BY DEF Words, HEADER

(* No word belongs to two chunks, whatever the policies in between: what   *)
(* is filed has the room it is filed under (Objects::alloc, sweep).        *)
THEOREM DisjointChunks ==
  ASSUME StampSafe
  PROVE  Spec => []ChunksAreDisjoint
<1>1. IInv => ChunksAreDisjoint
  <2> SUFFICES ASSUME IInv PROVE ChunksAreDisjoint OBVIOUS
  <2>1. heap \in Seq(Nat) /\ Len(heap) \in Nat /\ Laid(Chunks, Len(heap))
    BY ChunksAre, LenProperties DEF IInv, Shape, Sound, Objects
  <2> DEFINE W(c) == Words(c[1], c[2], c[3])
  <2>2. ASSUME NEW c \in Chunks
        PROVE  /\ Start(c) \in Nat \ {0} /\ End(c) \in Nat /\ End(c) <= Len(heap) + 1
               /\ \A x : x \in W(c) <=> x \in Int /\ Start(c) <= x /\ x < End(c)
    <3>1. /\ c[1] \in Nat /\ c[2] \in Nat /\ c[3] \in Nat
          /\ Start(c) \in Nat \ {0} /\ End(c) \in Nat /\ End(c) <= Len(heap) + 1
      BY <2>1, ChunkFits
    <3>2. /\ Start(c) = c[1] - c[3] /\ End(c) = c[1] + 4 + c[2]
          /\ \A x : x \in W(c) <=> x \in Int /\ c[1] - c[3] <= x /\ x < c[1] + 4 + c[2]
      BY <3>1, WordsAre DEF Start, End, HEADER
    <3> HIDE DEF W
    <3>3. \A x : x \in W(c) <=> x \in Int /\ Start(c) <= x /\ x < End(c) BY <3>2
    <3> QED BY <3>1, <3>3
  <2> HIDE DEF W
  <2>3. \A c \in Chunks : W(c) \subseteq 1..Len(heap) BY <2>1, <2>2
  <2>4. ASSUME NEW c \in Chunks, NEW d \in Chunks, c # d PROVE W(c) \cap W(d) = {}
    <3> SUFFICES ASSUME NEW x \in W(c), x \in W(d) PROVE FALSE OBVIOUS
    <3>1. x \in Int /\ Start(c) <= x /\ x < End(c) /\ Start(d) <= x /\ x < End(d) BY <2>2
    <3> QED BY <2>1, <2>4, <3>1, OneOwner
  <2> QED BY <2>3, <2>4 DEF ChunksAreDisjoint, W
<1> QED BY <1>1, Inductive, PTL

(* What the program has and what the allocator may hand out again are      *)
(* apart: the flags tell a freed chunk, which is on one list, once, and    *)
(* not on the chain; a sweep drops nothing held from the chain.            *)
THEOREM LiveAndFreedApart ==
  ASSUME StampSafe
  PROVE  Spec => []FreedAndLiveAreApart
<1>1. IInv => FreedAndLiveAreApart
  <2> SUFFICES ASSUME IInv PROVE FreedAndLiveAreApart OBVIOUS
  <2>1. /\ Linked(Chain, heap, head) /\ Lists(free) /\ live = Len(Chain)
        /\ Sound(heap, Objects, FiledChunks(free)) /\ held \subseteq Objects
    BY DEF IInv, Shape, Objects
  <2>2. heap \in Seq(Nat) /\ Len(heap) \in Nat /\ Laid(Chunks, Len(heap))
    BY <2>1, ChunksAre, LenProperties DEF Sound
  <2>3. IsInjective(Chain)
    <3>1. DOMAIN Chain = 1..Len(Chain) BY <2>1, LenProperties DEF Linked
    <3> QED BY <2>1, <3>1 DEF Linked, IsInjective
  <2>4. \A o \in Objects : Flags(o) \notin {FREED, POISON}
    <3> TAKE o \in Objects
    <3>1. heap[o + 2] >= 3 BY <2>1, ObjectFits
    <3> QED BY <3>1 DEF Flags, FREED, POISON
  <2>5. \A c \in FiledChunks(free) : Flags(c[1]) \in {FREED, POISON} BY <2>1 DEF Sound, Flags
  <2>6. ASSUME NEW c \in Chunks PROVE c[1] \in Objects <=> Flags(c[1]) \notin {FREED, POISON}
    <3>1. CASE c \in FiledChunks(free) BY <2>4, <2>5, <3>1
    <3>2. CASE c \in LiveChunks(heap, Objects)
      <4>1. c[1] \in Objects BY <3>2 DEF LiveChunks, ChunkAt
      <4> QED BY <2>4, <4>1
    <3> QED BY <3>1, <3>2, ChunksAre
  <2>7. ASSUME NEW k \in DOMAIN free
        PROVE  IsInjective(free[k]) /\ ToSet(free[k]) \cap Objects = {}
    <3>1. free[k] \in Seq(Nat) /\ DOMAIN free[k] = 1..Len(free[k])
      BY <2>1, LenProperties DEF Lists
    <3>2. IsInjective(free[k]) BY <2>1, <3>1 DEF Lists, IsInjective
    <3>3. ASSUME NEW o \in ToSet(free[k]) PROVE o \notin Objects
      <4>1. PICK i \in 1..Len(free[k]) : o = free[k][i] BY <3>1, OnChain
      <4>2. <<o, k[1], k[2]>> \in FiledChunks(free) BY <2>1, <4>1, FiledMembers
      <4>3. Flags(<<o, k[1], k[2]>>[1]) \in {FREED, POISON} BY <2>5, <4>2
      <4> QED BY <2>4, <4>3
    <3> QED BY <3>2, <3>3
  <2>8. FreedIsFiled BY <2>6, <2>7 DEF FreedIsFiled
  <2>9. ChainIsWhole BY <2>1, <2>3 DEF ChainIsWhole
  <2> QED BY <2>8, <2>9 DEF FreedAndLiveAreApart
<1> QED BY <1>1, Inductive, PTL

(* A read form's location goes into its own meta words: stamping changes   *)
(* the data of no object (stamp_meta), if no object has a single one.      *)
THEOREM StampIsHarmless ==
  ASSUME StampSafe
  PROVE  Spec => StampTouchesNoData
<1>1. ASSUME IInv, Stamp
      PROVE  \A o \in held : \A i \in 1..Size(o) : heap'[Datum(o, i)] = heap[Datum(o, i)]
  <2> TAKE o \in held
  <2>1. ContentsOf(heap', o) = ContentsOf(heap, o) BY <1>1, StampRemains DEF IInv
  <2> DEFINE c == ContentsOf(heap, o)
             d == ContentsOf(heap', o)
  <2>2. \A i \in DOMAIN c : c[i] = heap[o + 4 + i - 1] BY DEF ContentsOf
  <2>3. \A i \in DOMAIN d : d[i] = heap'[o + 4 + i - 1] BY DEF ContentsOf
  <2>4. DOMAIN c = 1..Size(o) BY DEF ContentsOf, Size
  <2>5. c = d BY <2>1
  <2> HIDE DEF c, d
  <2>6. \A i \in 1..Size(o) : heap'[o + 4 + i - 1] = heap[o + 4 + i - 1] BY <2>2, <2>3, <2>4, <2>5
  <2> QED BY <2>6 DEF Datum, HEADER
<1>2. IInv /\ [Next]_vars => [Stamp => \A o \in held : \A i \in 1..Size(o) :
                                          heap'[Datum(o, i)] = heap[Datum(o, i)]]_vars
  BY <1>1
<1> QED BY <1>2, Inductive, PTL DEF Spec, StampTouchesNoData

-----------------------------------------------------------------------------
(* What a program sees of the heap.                                        *)
Seen == [o \in held |-> ContentsOf(heap, o)]

LEMMA ContentIsSeen ==
  /\ [o \in held |-> Contents(o)] = Seen
  /\ [o \in held |-> Contents(o)]' = Seen'
<1>1. \A o : Contents(o) = ContentsOf(heap, o)
  BY DEF Contents, ContentsOf, Size, Datum, HEADER
<1>2. \A o : Contents(o)' = ContentsOf(heap', o)
  BY DEF Contents, ContentsOf, Size, Datum, HEADER
<1>3. [o \in held |-> Contents(o)]' = [o \in held' |-> Contents(o)'] OBVIOUS
<1> QED BY <1>1, <1>2, <1>3 DEF Seen

SeenMake ==
  \E o \in 1..MaxWords \ held, n \in Lengths :
    /\ held' = held \cup {o}
    /\ Seen' = [p \in held \cup {o} |-> IF p = o THEN [i \in 1..n |-> NIL] ELSE Seen[p]]
Rewrites(t, s) ==
  \E o \in DOMAIN s, w \in Data : \E i \in DOMAIN s[o] : t = [s EXCEPT ![o][i] = w]
SeenWrite == Rewrites(Seen', Seen)
SeenLetGo == \E o \in held : Seen' = [p \in held \ {o} |-> Seen[p]]

(* The steps of Store, in these terms.                                     *)
LEMMA StoreSteps ==
  ASSUME SeenMake \/ SeenWrite \/ SeenLetGo \/ UNCHANGED Seen
  PROVE  [Abstract!Make \/ Abstract!Write \/ Abstract!LetGo]_[o \in held |-> Contents(o)]
<1> DEFINE c == [o \in held |-> Contents(o)]
<1>1. c = Seen /\ c' = Seen' BY ContentIsSeen
<1>2. DOMAIN Seen = held /\ DOMAIN Seen' = held' BY DEF Seen
<1>3. CASE SeenMake
  <2>1. PICK o \in 1..MaxWords \ held, n \in Lengths :
          /\ held' = held \cup {o}
          /\ Seen' = [p \in held \cup {o} |-> IF p = o THEN [i \in 1..n |-> NIL] ELSE Seen[p]]
    BY <1>3 DEF SeenMake
  <2>2. /\ o \in 1..MaxWords \ DOMAIN c
        /\ DOMAIN c' = DOMAIN c \cup {o}
        /\ c' = [p \in DOMAIN c \cup {o} |-> IF p = o THEN [i \in 1..n |-> NIL] ELSE c[p]]
    BY <1>1, <1>2, <2>1
  <2>3. Abstract!Make BY <2>2 DEF Abstract!Make
  <2> QED BY <2>3
<1>4. CASE SeenWrite
  <2>1. Rewrites(Seen', Seen) BY <1>4 DEF SeenWrite
  <2>2. Rewrites(c', c)
    <3> HIDE DEF c
    <3> QED BY <1>1, <2>1
  <2>3. Abstract!Write BY <2>2 DEF Abstract!Write, Rewrites
  <2> QED BY <2>3
<1>5. CASE SeenLetGo
  <2>1. \E o \in DOMAIN c : c' = [p \in DOMAIN c \ {o} |-> c[p]]
    BY <1>1, <1>2, <1>5 DEF SeenLetGo
  <2>2. Abstract!LetGo BY <2>1 DEF Abstract!LetGo
  <2> QED BY <2>2
<1>6. CASE UNCHANGED Seen BY <1>1, <1>6
<1> QED BY <1>3, <1>4, <1>5, <1>6

LEMMA QuietSeen ==
  ASSUME held' = held, \A p \in held : ContentsOf(heap', p) = ContentsOf(heap, p)
  PROVE  UNCHANGED Seen
<1>1. Seen' = [o \in held' |-> ContentsOf(heap', o)] BY DEF Seen
<1> QED BY <1>1 DEF Seen

LEMMA AllocSeen ==
  ASSUME IInv, IInv', StampSafe, Alloc
  PROVE  SeenMake
<1>8. PICK n \in Lengths : \E o : Makes(o, n) BY AllocMakes
<1>1. PICK o : Makes(o, n) BY <1>8
<1>2. /\ Leaves(Objects \cup {o}) /\ o \notin Objects
      /\ Len(heap') <= MaxWords
      /\ held' = held \cup {o}
      /\ ContentsOf(heap', o) = [i \in 1..n |-> NIL]
      /\ \A p \in Objects : ContentsOf(heap', p) = ContentsOf(heap, p)
  BY <1>1 DEF Makes
<1>3. o \in 1..MaxWords
  <2>1. PICK q : Shape(heap', head', live', free', q) /\ ToSet(q) = Objects \cup {o}
    BY <1>2 DEF Leaves
  <2>2. o \in 1..Len(heap') BY <2>1, ChainOfShape
  <2>3. Len(heap') \in Nat BY <2>1, LenProperties DEF Shape, Sound
  <2> QED BY <1>2, <2>2, <2>3, ObjectHeapAssumption
<1>4. held \subseteq Objects /\ o \notin held BY <1>2 DEF IInv
<1>5. Seen' = [p \in held' |-> ContentsOf(heap', p)] BY DEF Seen
<1>6. \A p \in held \cup {o} :
        ContentsOf(heap', p) = IF p = o THEN [i \in 1..n |-> NIL] ELSE Seen[p]
  BY <1>2, <1>4 DEF Seen
<1>7. Seen' = [p \in held \cup {o} |-> IF p = o THEN [i \in 1..n |-> NIL] ELSE Seen[p]]
  BY <1>2, <1>5, <1>6
<1> QED BY <1>2, <1>3, <1>4, <1>7 DEF SeenMake

LEMMA SetDataSeen ==
  ASSUME IInv, SetData
  PROVE  SeenWrite
<1>1. PICK o \in held, w \in Data : \E i \in 1..Size(o) : heap' = [heap EXCEPT ![Datum(o, i)] = w]
  BY DEF SetData
<1>2. PICK i \in 1..Size(o) : heap' = [heap EXCEPT ![Datum(o, i)] = w] BY <1>1
<1>3. SetsDatum(o, i, w) BY <1>2 DEF SetsDatum, PutIn
<1>4. UNCHANGED <<head, live, free, held>> BY DEF SetData
<1>5. /\ \A p \in Objects \ {o} : ContentsOf(heap', p) = ContentsOf(heap, p)
      /\ ContentsOf(heap', o) = [ContentsOf(heap, o) EXCEPT ![i] = w]
  BY <1>3, <1>4, SetDataRemains
<1>6. held \subseteq Objects BY DEF IInv
<1>7. Seen' = [p \in held |-> ContentsOf(heap', p)] BY <1>4 DEF Seen
<1>8. DOMAIN Seen = held /\ \A p \in held : Seen[p] = ContentsOf(heap, p) BY DEF Seen
<1>9. Seen' = [Seen EXCEPT ![o] = [Seen[o] EXCEPT ![i] = w]] BY <1>5, <1>6, <1>7, <1>8
<1>10. Seen' = [Seen EXCEPT ![o][i] = w] BY <1>9
<1>11. DOMAIN Seen[o] = 1..Size(o) BY <1>8 DEF ContentsOf, Size
<1>12. o \in DOMAIN Seen BY <1>8
<1> QED BY <1>10, <1>11, <1>12 DEF SeenWrite, Rewrites

LEMMA DropSeen ==
  ASSUME Drop
  PROVE  SeenLetGo
<1>1. PICK o \in held : held' = held \ {o} BY DEF Drop
<1>2. heap' = heap BY DEF Drop
<1>3. Seen' = [p \in held \ {o} |-> ContentsOf(heap, p)] BY <1>1, <1>2 DEF Seen
<1>4. \A p \in held \ {o} : ContentsOf(heap, p) = Seen[p] BY DEF Seen
<1>5. Seen' = [p \in held \ {o} |-> Seen[p]] BY <1>3, <1>4
<1> QED BY <1>5 DEF SeenLetGo

(* The heap is a store: what a program made is there, with the words it    *)
(* last put there, until it lets go of it, whatever is freed, swept, taken *)
(* again and stamped in between (Objects::alloc, sweep, stamp_meta).       *)
THEOREM HeapIsStore ==
  ASSUME StampSafe
  PROVE  Spec => ImplementsStore
<1>1. ASSUME IInv, IInv', [Next]_vars
      PROVE  [Abstract!Make \/ Abstract!Write \/ Abstract!LetGo]_[o \in held |-> Contents(o)]
  <2>1. held \subseteq Objects BY <1>1 DEF IInv
  <2>2. CASE Alloc BY <1>1, <2>2, AllocSeen, StoreSteps
  <2>3. CASE AllocBytes
    <3>1. held' = held BY <2>3 DEF AllocBytes
    <3>2. \A p \in held : ContentsOf(heap', p) = ContentsOf(heap, p)
      BY <1>1, <2>1, <2>3, AllocBytesRemains
    <3> QED BY <3>1, <3>2, QuietSeen, StoreSteps
  <2>4. CASE SetData BY <1>1, <2>4, SetDataSeen, StoreSteps
  <2>5. CASE Stamp
    <3>1. held' = held BY <2>5 DEF Stamp
    <3>2. \A p \in held : ContentsOf(heap', p) = ContentsOf(heap, p)
      BY <1>1, <2>1, <2>5, StampRemains
    <3> QED BY <3>1, <3>2, QuietSeen, StoreSteps
  <2>6. CASE SetPolicy \/ UNCHANGED vars
    <3>1. held' = held /\ heap' = heap BY <2>6 DEF SetPolicy, vars
    <3> QED BY <3>1, QuietSeen, StoreSteps
  <2>7. CASE Drop BY <2>7, DropSeen, StoreSteps
  <2>8. CASE Sweep
    <3>1. held' = held BY <2>8 DEF Sweep
    <3>2. \A p \in held : ContentsOf(heap', p) = ContentsOf(heap, p) BY <1>1, <2>8, SweepLeaves
    <3> QED BY <3>1, <3>2, QuietSeen, StoreSteps
  <2> QED BY <1>1, <2>2, <2>3, <2>4, <2>5, <2>6, <2>7, <2>8 DEF Next
<1>2. Init => Abstract!Init
  <2> SUFFICES ASSUME Init PROVE Abstract!Init OBVIOUS
  <2>1. held = {} BY DEF Init
  <2>2. [o \in held |-> Contents(o)] = [o \in {} |-> <<>>] BY <2>1
  <2> QED BY <2>2 DEF Abstract!Init
<1> QED BY <1>1, <1>2, Inductive, PTL DEF Spec, ImplementsStore, Abstract!Spec
=============================================================================
