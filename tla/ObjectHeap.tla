----------------------------- MODULE ObjectHeap -----------------------------
(***************************************************************************)
(* The object heap, word by word: Objects::alloc and the header it writes, *)
(* the chain of all objects through their link words, the sweep that turns *)
(* the chain around and files what it frees by shape, and the allocation   *)
(* that takes a filed chunk again.                                         *)
(*                                                                         *)
(* An object is the address of its link word.  Its header goes on with the *)
(* type, the flags and the length; its data words lie above the header,    *)
(* and below it as many meta words as the policy cell asked for when it    *)
(* was made.  The library writes that cell when it likes.                  *)
(*                                                                         *)
(* Which objects are marked is not this module's business (Collector's it  *)
(* is): a sweep here keeps all that the program holds and perhaps more.    *)
(* The type word is left blank, and flags say only whether the chunk is    *)
(* live, with how many meta words, or freed.                               *)
(***************************************************************************)
EXTENDS Naturals, SequencesExt

CONSTANTS Lengths,    \* the numbers of data words asked for
          Policies,   \* the values the library writes into the policy cell
          MetaCap,    \* no object has more meta words than this (16)
          Data,       \* the words a program writes
          Runs,       \* the lengths of raw byte runs, in words
          MaxWords    \* bound: the heap grows no further

ASSUME ObjectHeapAssumption ==
  /\ Lengths \subseteq Nat /\ Policies \subseteq Nat
  /\ Data \subseteq Nat /\ Runs \subseteq Nat
  /\ MetaCap \in Nat /\ MaxWords \in Nat

NIL    == 0
HEADER == 4
FREED  == 1
POISON == 2
(* The flags of a live object: FLAG_MAGIC, and the count of its meta words.*)
Live(meta) == 3 + meta

VARIABLES heap,       \* Heap.words, without the reserved word at 0
          head,       \* Objects.heap_chain: the object the chain starts at
          live,       \* Objects.live
          free,       \* Objects.free: chunks by <<data words, meta words>>
          policy,     \* the policy cell of the running base
          poisoning,  \* Objects.poison_freed
          held        \* the objects the program can reach

vars == <<heap, head, live, free, policy, poisoning, held>>

Frontier == Len(heap) + 1
Flags(o) == heap[o + 2]
Size(o)  == heap[o + 3]
Meta(o)  == Flags(o) - Live(0)
Datum(o, i) == o + HEADER + i - 1
Contents(o) == [i \in 1..Size(o) |-> heap[Datum(o, i)]]

(* The objects from the first down the links; a chain that ran in a circle *)
(* would be cut off after as many as there are words.                      *)
Longer(words, first, s) ==
  LET next == IF s = <<>> THEN first ELSE words[Last(s)]
  IN  IF next = NIL THEN s ELSE Append(s, next)
ChainFrom(words, first) ==
  LET upTo[n \in 0..Len(words)] ==
        IF n = 0 THEN <<>> ELSE Longer(words, first, upTo[n - 1])
  IN  upTo[Len(words)]
Chain   == ChainFrom(heap, head)
Objects == ToSet(Chain)

Header(meta, n) == <<head, NIL, Live(meta), n>>
Blank(n) == [i \in 1..n |-> NIL]
Overwrite(words, at, new) ==
  [a \in DOMAIN words |-> IF a \in at..at + Len(new) - 1 THEN new[a - at + 1] ELSE words[a]]

Bucket(n, meta) == IF <<n, meta>> \in DOMAIN free THEN free[<<n, meta>>] ELSE <<>>

Init ==
  /\ heap = <<>> /\ head = NIL /\ live = 0 /\ free = [k \in {} |-> <<>>]
  /\ policy = 0 /\ poisoning \in BOOLEAN /\ held = {}

-----------------------------------------------------------------------------
(* meta_extra: the policy as it is now, capped.                            *)
MetaExtra == IF policy < MetaCap THEN policy ELSE MetaCap

(* take_free: nothing is taken while poisoning.                            *)
Takes(n, meta) == ~poisoning /\ Bucket(n, meta) # <<>>

(* Mutant: the chunk taken is not the one struck off the list.             *)
ReuseFirst(n, meta) ==
  /\ Takes(n, meta)
  /\ LET o == Head(Bucket(n, meta))
     IN  /\ heap' = Overwrite(heap, o, Header(meta, n) \o Blank(n))
         /\ head' = o
         /\ held' = held \cup {o}
  /\ free' = [free EXCEPT ![<<n, meta>>] = Front(@)]

(* Mutant: the data of a chunk used again is left as it was.               *)
ReuseUncleared(n, meta) ==
  /\ Takes(n, meta)
  /\ LET o == Last(Bucket(n, meta))
     IN  /\ heap' = Overwrite(heap, o, Header(meta, n))
         /\ head' = o
         /\ held' = held \cup {o}
  /\ free' = [free EXCEPT ![<<n, meta>>] = Front(@)]

(* A chunk used again gets a new header and blank data; its meta words are *)
(* left as they are.                                                       *)
Reuse(n, meta) ==
  /\ Takes(n, meta)
  /\ LET o == Last(Bucket(n, meta))
     IN  /\ heap' = Overwrite(heap, o, Header(meta, n) \o Blank(n))
         /\ head' = o
         /\ held' = held \cup {o}
  /\ free' = [free EXCEPT ![<<n, meta>>] = Front(@)]

(* With none to take, the heap grows: meta words, header, data.            *)
Grow(n, meta) ==
  /\ ~Takes(n, meta)
  /\ Len(heap) + meta + HEADER + n <= MaxWords
  /\ heap' = heap \o Blank(meta) \o Header(meta, n) \o Blank(n)
  /\ head' = Frontier + meta
  /\ held' = held \cup {Frontier + meta}
  /\ UNCHANGED free

Alloc ==
  /\ \E n \in Lengths : Reuse(n, MetaExtra) \/ Grow(n, MetaExtra)
  /\ live' = live + 1
  /\ UNCHANGED <<policy, poisoning>>

(* alloc_bytes, store_bytes: raw words at the frontier, never freed.       *)
AllocBytes ==
  /\ \E k \in Runs, w \in Data :
       /\ Len(heap) + k <= MaxWords
       /\ heap' = heap \o [i \in 1..k |-> w]
  /\ UNCHANGED <<head, live, free, policy, poisoning, held>>

SetData ==
  /\ \E o \in held, w \in Data : \E i \in 1..Size(o) : heap' = [heap EXCEPT ![Datum(o, i)] = w]
  /\ UNCHANGED <<head, live, free, policy, poisoning, held>>

(* stamp_meta: a form just read is told its line and its file, in meta     *)
(* words 0 and 1, if it has any meta words.                                *)
Stamp ==
  /\ \E o \in held, line, file \in Data :
       /\ Meta(o) > 0
       /\ heap' = [heap EXCEPT ![o - 1] = line, ![o - 2] = file]
  /\ UNCHANGED <<head, live, free, policy, poisoning, held>>

SetPolicy ==
  /\ policy' \in Policies /\ policy' # policy
  /\ UNCHANGED <<heap, head, live, free, poisoning, held>>

Drop ==
  /\ \E o \in held : held' = held \ {o}
  /\ UNCHANGED <<heap, head, live, free, policy, poisoning>>

(* Mutant: a chunk is filed with the meta room the policy asks for now.    *)
FiledByPolicy(f, o) ==
  LET k == <<Size(o), MetaExtra>>
  IN  [j \in DOMAIN f \cup {k} |->
         (IF j \in DOMAIN f THEN f[j] ELSE <<>>) \o (IF j = k THEN <<o>> ELSE <<>>)]

(* What is freed is filed under the shape it has.                          *)
Filed(f, o) ==
  LET k == <<Size(o), Meta(o)>>
  IN  [j \in DOMAIN f \cup {k} |->
         (IF j \in DOMAIN f THEN f[j] ELSE <<>>) \o (IF j = k THEN <<o>> ELSE <<>>)]

(* One turn of the sweep: an object that is kept is linked to the one kept *)
(* before it; another is flagged and filed.                                *)
Kept(s, o) == [heap |-> [s.heap EXCEPT ![o] = s.head], head |-> o, free |-> s.free, live |-> s.live]
Dead(s, o) == [heap |-> [s.heap EXCEPT ![o + 2] = IF poisoning THEN POISON ELSE FREED],
               head |-> s.head, free |-> Filed(s.free, o), live |-> s.live - 1]

(* sweep: down the links, which no turn changes ahead of itself.           *)
Swept(keep) ==
  LET chain == Chain
      after[n \in 0..Len(chain)] ==
        IF n = 0 THEN [heap |-> heap, head |-> NIL, free |-> free, live |-> live]
        ELSE IF chain[n] \in keep THEN Kept(after[n - 1], chain[n])
        ELSE Dead(after[n - 1], chain[n])
  IN  after[Len(chain)]
Sweep ==
  /\ \E also \in SUBSET (Objects \ held) :
       LET s == Swept(held \cup also)
       IN  heap' = s.heap /\ head' = s.head /\ free' = s.free /\ live' = s.live
  /\ UNCHANGED <<policy, poisoning, held>>

Next ==
  \/ Alloc \/ AllocBytes \/ SetData \/ Stamp \/ SetPolicy \/ Drop \/ Sweep

Spec == Init /\ [][Next]_vars

-----------------------------------------------------------------------------
(* Each part of the state is of its kind.                                  *)
TypeOK ==
  /\ heap \in Seq(Nat) /\ Len(heap) <= MaxWords
  /\ head \in 0..Len(heap) /\ live \in Nat
  /\ \A k \in DOMAIN free : free[k] \in Seq(1..Len(heap))
  /\ policy \in Policies \cup {0} /\ poisoning \in BOOLEAN
  /\ held \subseteq 1..Len(heap)

(* The words of a chunk: of an object, and of a chunk on a free list.      *)
Words(o, n, meta) == (o - meta)..(o + HEADER + n - 1)
Chunks ==
  { <<o, Size(o), Meta(o)>> : o \in Objects }
    \cup UNION { { <<free[k][i], k[1], k[2]>> : i \in DOMAIN free[k] } : k \in DOMAIN free }

(* No word belongs to two chunks, and none lies outside the heap: a chunk  *)
(* is filed with the room it has, and an allocation that takes it -- with  *)
(* the policy changed in between, perhaps more than once -- asks for no    *)
(* more than that.                                                         *)
ChunksAreDisjoint ==
  LET all == Chunks
  IN  /\ \A c \in all : Words(c[1], c[2], c[3]) \subseteq 1..Len(heap)
      /\ \A c, d \in all : c # d => Words(c[1], c[2], c[3]) \cap Words(d[1], d[2], d[3]) = {}

(* "No live object carries it" (collect.rs): a chunk is on a free list     *)
(* once, and is not on the chain, exactly if its flags say it is freed.    *)
FreedIsFiled ==
  LET chained == Objects
  IN  /\ \A c \in Chunks : c[1] \in chained <=> Flags(c[1]) \notin {FREED, POISON}
      /\ \A k \in DOMAIN free : IsInjective(free[k]) /\ ToSet(free[k]) \cap chained = {}

(* Every object that is held is on the chain, once -- a sweep that turns   *)
(* the chain around drops none -- and the count is the chain's length.     *)
ChainIsWhole ==
  /\ held \subseteq Objects
  /\ IsInjective(Chain)
  /\ live = Len(Chain)

(* What the program has and what the allocator may hand out again.         *)
FreedAndLiveAreApart == FreedIsFiled /\ ChainIsWhole

(* A read form's location goes into its own meta words: stamping changes   *)
(* the data of no object.                                                  *)
StampTouchesNoData ==
  [][Stamp => \A o \in held : \A i \in 1..Size(o) : heap'[Datum(o, i)] = heap[Datum(o, i)]]_vars

(* A new object has no location: it has not been read from anywhere.       *)
NewObjectHasNoLocation ==
  [][\A o \in held' \ held : \A i \in 1..(heap'[o + 2] - Live(0)) : heap'[o - i] = NIL]_vars

Abstract == INSTANCE Store WITH
  Address <- 1..MaxWords, Length <- Lengths, Word <- Data, Nothing <- NIL,
  content <- [o \in held |-> Contents(o)]
ImplementsStore == Abstract!Spec
=============================================================================
