-------------------------------- MODULE Bytes --------------------------------
(***************************************************************************)
(* The byte instructions over the one word arena: strings that are C       *)
(* strings at an address, blocks, pointers and the accessors below the     *)
(* object model.                                                           *)
(*                                                                         *)
(* The arena is a row of words that only grows, and a byte is a digit of a *)
(* word.  An operand is an arena offset or a machine address, which is the *)
(* offset and the place the arena is pinned at; which of the two it is, is *)
(* told from the number, byte by byte.  No call checks a length: the calls *)
(* made here are those of a program that stays within what it was given,   *)
(* up to the last byte of it.                                              *)
(***************************************************************************)
EXTENDS Integers, SequencesExt

CONSTANTS
  Radix,       (* the number of values a byte has (256)                    *)
  WordBytes,   (* WORD: the bytes of a word (8)                            *)
  Space,       (* b' '                                                     *)
  Scratch,     (* ERROR_SCRATCH (255)                                      *)
  Pinned,      (* the machine address of the arena                         *)
  Counts,      (* the lengths, widths and indices calls are made with      *)
  Numbers,     (* the integers a program stores                            *)
  Texts,       (* the bytes a program spells out                           *)
  MaxRegions,  (* bound: so many regions and no more                       *)
  MaxWrites    (* bound: so many calls that write into them                *)

NUL == 0

VARIABLES
  words,       (* Heap.words                                               *)
  regions,     (* what a program was given: [at |-> offset, size |-> bytes]*)
  call,        (* the last call: the instruction and its operands          *)
  answer,      (* its answer; for a new region, the number of it           *)
  writes       (* how many calls have written                              *)

vars == <<words, regions, call, answer, writes>>

(***************************************************************************)
(* heap.rs: words, bytes and runs of bytes of the arena h.                 *)
(***************************************************************************)
Frontier(h) == Len(h) * WordBytes

(* Outside the arena a read answers 0 and a write is dropped.              *)
Within(h, at) == at \in 0..Frontier(h) - 1

Word(h, at) ==
  IF Within(h, at) THEN h[at \div WordBytes + 1] ELSE 0

PutWord(h, at, v) ==
  IF Within(h, at) THEN [h EXCEPT ![at \div WordBytes + 1] = v] ELSE h

Weight(at)  == Radix ^ (at % WordBytes)
Byte(h, at) == (Word(h, at) \div Weight(at)) % Radix

PutByte(h, at, b) ==
  PutWord(h, at, Word(h, at) + (b - Byte(h, at)) * Weight(at))

(* read_le, and the digits write_le writes.                                *)
Assembled(bs) ==
  LET n[i \in 0..Len(bs)] == IF i = 0 THEN 0 ELSE n[i - 1] + bs[i] * Radix ^ (i - 1)
  IN  n[Len(bs)]

Digits(v, w) == [i \in 1..w |-> (v \div Radix ^ (i - 1)) % Radix]

WordsFor(n) == (n + WordBytes - 1) \div WordBytes

(* alloc_bytes: no run is empty, so that no two begin at one address.      *)
AllocBytes(h, n) == h \o [i \in 1..Max({1, WordsFor(n)}) |-> 0]

(* Mutant: the NUL is not given a word when the bytes fill theirs.         *)
StoreBytesUnended(h, bs) ==
  h \o [j \in 1..WordsFor(Len(bs)) |->
          Assembled(SubSeq(bs, (j - 1) * WordBytes + 1, Min({j * WordBytes, Len(bs)})))]

(* store_bytes: the bytes and a NUL, which may need a word of its own.     *)
StoreBytes(h, bs) ==
  LET whole == bs \o <<NUL>>
  IN  h \o [j \in 1..WordsFor(Len(whole)) |->
              Assembled(SubSeq(whole, (j - 1) * WordBytes + 1, Min({j * WordBytes, Len(whole)})))]

(***************************************************************************)
(* ptr.rs: an operand address is an offset or a machine address.           *)
(***************************************************************************)
InArena(h, a) == a < Frontier(h)
Offset(h, a)  == IF InArena(h, a) THEN a ELSE a - Pinned

RdByte(h, a)    == Byte(h, Offset(h, a))
WrByte(h, a, b) == PutByte(h, Offset(h, a), b)

RdBytes(h, a, n) == [i \in 1..n |-> RdByte(h, a + i - 1)]

WrBytes(h, a, bs) ==
  LET after[i \in 0..Len(bs)] ==
        IF i = 0 THEN h ELSE WrByte(after[i - 1], a + i - 1, bs[i])
  IN  after[Len(bs)]

(* An offset names the word it falls in; a machine address, the bytes from *)
(* it on, wherever it falls.                                               *)
RdWord(h, a) ==
  IF InArena(h, a) THEN Word(h, a) ELSE Assembled(RdBytes(h, a, WordBytes))

WrWord(h, a, v) ==
  IF InArena(h, a) THEN PutWord(h, a, Assembled(Digits(v, WordBytes)))
  ELSE WrBytes(h, a, Digits(v, WordBytes))

(* The bytes from a to the first NUL, where there is one.                  *)
CText(h, a) ==
  RdBytes(h, a, CHOOSE k \in 0..Frontier(h) :
                  /\ RdByte(h, a + k) = NUL
                  /\ \A j \in 0..k - 1 : RdByte(h, a + j) # NUL)

(* `as i64`: the word's upper half is negative.                            *)
AsInt(w) == IF 2 * w >= Radix ^ WordBytes THEN w - Radix ^ WordBytes ELSE w

Clamp(w)  == Max({0, Min({w, WordBytes})})
AtLeast0(n) == Max({0, n})
Sign(x, y)  == IF x < y THEN -1 ELSE 1

(***************************************************************************)
(* What a program has in hand.                                             *)
(***************************************************************************)
Places ==
  UNION {[row : {r}, at : 0..AtLeast0(regions[r].size - 1), real : BOOLEAN] : r \in DOMAIN regions}

Address(p) == regions[p.row].at + p.at + (IF p.real THEN Pinned ELSE 0)

Fits(p, n) == p.at + n <= regions[p.row].size

(* A NUL at or past p, in its region.                                      *)
Ends(p) == NUL \in Range(RdBytes(words, Address(p), regions[p.row].size - p.at))

Start(r) == [row |-> r, at |-> 0, real |-> FALSE]
Strings  == {r \in DOMAIN regions : Ends(Start(r))}

Gives(h, size) ==
  /\ Len(regions) < MaxRegions
  /\ words' = h
  /\ regions' = Append(regions, [at |-> Frontier(words), size |-> size])
  /\ answer' = Len(regions) + 1
  /\ UNCHANGED writes

Answers(v) == answer' = v /\ UNCHANGED <<words, regions, writes>>

Changes(h) ==
  /\ writes < MaxWrites
  /\ writes' = writes + 1
  /\ words' = h /\ answer' = NUL /\ UNCHANGED regions

StrFromBytes(bs) == Gives(StoreBytes(words, bs), Len(bs) + 1)

(***************************************************************************)
(* Strings.                                                                *)
(***************************************************************************)
(* str_make, into a run allocated with a byte for the NUL.                 *)
StrMake(n) ==
  LET run  == AllocBytes(words, n + 1)
      at   == Frontier(words)
  IN  Gives(PutByte(WrBytes(run, at, [i \in 1..n |-> Space]), at + n, NUL), n + 1)

Make ==
  \E n \in Counts :
    /\ call' = [op |-> "str make", n |-> n]
    /\ StrMake(AtLeast0(n))

ByteLen ==
  \E x \in Strings :
    /\ call' = [op |-> "str byte-len", x |-> x]
    /\ Answers(Len(CText(words, Address(Start(x)))))

ByteRef ==
  \E x \in Strings, i \in Counts :
    LET len  == Len(CText(words, Address(Start(x))))
        from == IF i < 0 THEN i + len ELSE i
    IN  /\ i < regions[x].size
        /\ call' = [op |-> "str byte-ref", x |-> x, i |-> i]
        /\ Answers(Byte(words, Address(Start(x)) + AtLeast0(from)))

(* byte-sub takes raw bytes, whatever NULs there are among them.           *)
ByteSub ==
  \E x \in DOMAIN regions, i \in Counts, n \in Counts :
    /\ AtLeast0(i) + AtLeast0(n) <= regions[x].size
    /\ call' = [op |-> "str byte-sub", x |-> x, i |-> i, n |-> n]
    /\ StrFromBytes(RdBytes(words, Address(Start(x)) + AtLeast0(i), AtLeast0(n)))

StrAppend ==
  \E x \in Strings, y \in Strings :
    /\ call' = [op |-> "str append", x |-> x, y |-> y]
    /\ StrFromBytes(CText(words, Address(Start(x))) \o CText(words, Address(Start(y))))

BytesToStr ==
  \E bs \in Texts :
    /\ call' = [op |-> "bytes ->str", bytes |-> bs]
    /\ StrFromBytes(bs)

PtrToStr ==
  \E p \in Places :
    /\ Ends(p)
    /\ call' = [op |-> "ptr ->str", p |-> p]
    /\ StrFromBytes(CText(words, Address(p)))

(* error_atom_set: as much of the message as the atom holds, and a NUL.    *)
Raise ==
  \E bs \in Texts :
    LET n == Min({Len(bs), Scratch})
    IN  /\ call' = [op |-> "raise", bytes |-> bs]
        /\ Changes(PutByte(WrBytes(words, Address(Start(1)), SubSeq(bs, 1, n)),
                           Address(Start(1)) + n, NUL))

(***************************************************************************)
(* Blocks, and what pointers reach.                                        *)
(***************************************************************************)
MemAlloc ==
  \E n \in Counts :
    /\ call' = [op |-> "mem alloc", n |-> n]
    /\ Gives(AllocBytes(words, AtLeast0(n)), AtLeast0(n))

(* A number of WORD bytes is signed, a shorter one is not.                 *)
PtrRef ==
  \E p \in Places, w \in Counts :
    /\ Fits(p, Clamp(w))
    /\ call' = [op |-> "ptr ref", p |-> p, w |-> w]
    /\ Answers(AsInt(Assembled(RdBytes(words, Address(p), Clamp(w)))))

PtrSet ==
  \E p \in Places, v \in Numbers, w \in Counts :
    /\ Fits(p, Clamp(w))
    /\ call' = [op |-> "ptr set!", p |-> p, v |-> v, w |-> w]
    /\ Changes(WrBytes(words, Address(p), Digits(v, Clamp(w))))

(* A whole word: at a slot of the region, or anywhere by machine address.  *)
WordPlace(p) == Fits(p, WordBytes) /\ (p.real \/ Address(p) % WordBytes = 0)

PtrRefWord ==
  \E p \in Places :
    /\ WordPlace(p)
    /\ call' = [op |-> "ptr ref-word", p |-> p]
    /\ Answers(AsInt(RdWord(words, Address(p))))

PtrSetWord ==
  \E p \in Places, v \in Numbers :
    /\ WordPlace(p)
    /\ call' = [op |-> "ptr set-word!", p |-> p, v |-> v]
    /\ Changes(WrWord(words, Address(p), v))

MemCmp ==
  \E p \in Places, q \in Places, n \in Counts :
    LET differ == {i \in 0..n - 1 :
                     RdByte(words, Address(p) + i) # RdByte(words, Address(q) + i)}
        i == Min(differ)
    IN  /\ Fits(p, n) /\ Fits(q, n)
        /\ call' = [op |-> "mem cmp", p |-> p, q |-> q, n |-> n]
        /\ Answers(IF differ = {} THEN 0
                   ELSE Sign(RdByte(words, Address(p) + i), RdByte(words, Address(q) + i)))

(* Byte by byte, upward: what is read may have been written just before.   *)
CopyBytes(h, dst, src, n) ==
  LET after[i \in 0..n] ==
        IF i = 0 THEN h
        ELSE WrByte(after[i - 1], dst + i - 1, RdByte(after[i - 1], src + i - 1))
  IN  after[n]

MemCopy ==
  \E p \in Places, q \in Places, n \in Counts :
    /\ Fits(p, n) /\ Fits(q, n)
    /\ call' = [op |-> "mem copy", p |-> p, q |-> q, n |-> n]
    /\ Changes(CopyBytes(words, Address(p), Address(q), AtLeast0(n)))

MemSet ==
  \E p \in Places, v \in Numbers, n \in Counts :
    /\ Fits(p, n)
    /\ call' = [op |-> "mem set", p |-> p, v |-> v, n |-> n]
    /\ Changes(WrBytes(words, Address(p), [i \in 1..AtLeast0(n) |-> v % Radix]))

(* The reserved word, and the base's error atom.                           *)
Init ==
  /\ words = AllocBytes(<<0>>, Scratch + 1)
  /\ regions = <<[at |-> WordBytes, size |-> Scratch + 1]>>
  /\ call = [op |-> "boot"]
  /\ answer = NUL
  /\ writes = 0

Next ==
  \/ Make \/ ByteLen \/ ByteRef \/ ByteSub \/ StrAppend \/ BytesToStr \/ PtrToStr
  \/ Raise \/ MemAlloc \/ PtrRef \/ PtrSet \/ PtrRefWord \/ PtrSetWord
  \/ MemCmp \/ MemCopy \/ MemSet

Spec == Init /\ [][Next]_vars

(***************************************************************************)
(* A region is the bytes at its address.  Every call answers and does what *)
(* it does on rows of bytes that have nothing to do with each other:       *)
(* strings that fill their last word, empty blocks, messages longer than   *)
(* the atom, words put in across word boundaries, and copies onto their    *)
(* own source by offset on one side and machine address on the other.      *)
(***************************************************************************)
Contents ==
  [r \in DOMAIN regions |->
     [i \in 1..regions[r].size |-> Byte(words, regions[r].at + i - 1)]]

Abstract == INSTANCE Regions WITH content <- Contents

ImplementsRegions == Abstract!Spec
=============================================================================
