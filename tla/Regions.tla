------------------------------- MODULE Regions -------------------------------
(***************************************************************************)
(* What the byte instructions promise a program: every string it makes and *)
(* every block it allocates is a row of bytes of its own, and a pointer is *)
(* a row and a place in it.                                                *)
(*                                                                         *)
(* There is no arena here, no word, no address, and no telling a pointer   *)
(* made from an offset from one that is a machine address: a call says     *)
(* which row and which byte.  A call that stays inside its rows changes no *)
(* other row, and what it answers is read from those rows alone.           *)
(***************************************************************************)
EXTENDS Integers, SequencesExt

CONSTANTS
  Radix,       (* the number of values a byte has                          *)
  WordBytes,   (* the bytes of a word                                      *)
  Space,       (* the byte a new string is filled with                     *)
  Scratch      (* the longest message an error atom holds                  *)

VARIABLES
  call,        (* the last call, as the program made it                    *)
  content,     (* content[r]: the bytes of row r                           *)
  answer       (* what the last call answered                              *)

NUL == 0

(* The number whose digits, lowest first, are the bytes bs.                *)
Number(bs) ==
  LET n[i \in 0..Len(bs)] == IF i = 0 THEN 0 ELSE n[i - 1] + bs[i] * Radix ^ (i - 1)
  IN  n[Len(bs)]

(* The w lowest digits of v, which may be negative.                        *)
Digits(v, w) == [i \in 1..w |-> (v \div Radix ^ (i - 1)) % Radix]

(* A whole word is a signed number, and less than a word is not.           *)
Integer(bs) ==
  IF Len(bs) = WordBytes /\ 2 * bs[WordBytes] >= Radix
  THEN Number(bs) - Radix ^ WordBytes ELSE Number(bs)

(* The text at the front of a row: its bytes before the first NUL.         *)
Text(s) == SubSeq(s, 1, SelectInSeq(s, LAMBDA b : b = NUL) - 1)

Times(n)    == 1..Max({0, n})
Blank(n, b) == [i \in Times(n) |-> b]
After(p)    == SubSeq(content[p.row], p.at + 1, Len(content[p.row]))
Bytes(p, n) == SubSeq(content[p.row], p.at + 1, p.at + n)

(* Row p.row with bs put in from p on.                                     *)
Put(p, bs) ==
  [content EXCEPT ![p.row] = [i \in DOMAIN @ |->
     IF i - p.at \in DOMAIN bs THEN bs[i - p.at] ELSE @[i]]]

NewRow(bs)  == content' = Append(content, bs) /\ answer' = Len(content) + 1
Says(a)     == answer' = a /\ content' = content
Becomes(c)  == content' = c /\ answer' = NUL

Capped(w) == Max({0, Min({w, WordBytes})})

(* Strings.  A new one ends in a NUL, whatever it is made of; a negative   *)
(* index counts from the end of the text, and stops at the front.          *)
Make    == NewRow(Blank(call'.n, Space) \o <<NUL>>)
Join    == NewRow(Text(content[call'.x]) \o Text(content[call'.y]) \o <<NUL>>)
Cut     == NewRow(Bytes([row |-> call'.x, at |-> Max({0, call'.i})], call'.n) \o <<NUL>>)
Spell   == NewRow(call'.bytes \o <<NUL>>)
Copied  == NewRow(Text(After(call'.p)) \o <<NUL>>)
Length  == Says(Len(Text(content[call'.x])))
ByteAt  ==
  LET s == content[call'.x]
      i == IF call'.i < 0 THEN Max({0, call'.i + Len(Text(s))}) ELSE call'.i
  IN  Says(s[i + 1])

(* Blocks.  A copy runs upward, so that one onto a place further up its    *)
(* own source repeats the bytes between the two.                           *)
Allocate == NewRow(Blank(call'.n, NUL))
Ref      == Says(Integer(Bytes(call'.p, Capped(call'.w))))
Set      == Becomes(Put(call'.p, Digits(call'.v, Capped(call'.w))))
Fill     == Becomes(Put(call'.p, Blank(call'.n, call'.v % Radix)))
Copy ==
  LET p == call'.p
      q == call'.q
      lead == IF p.row = q.row /\ p.at > q.at THEN p.at - q.at ELSE call'.n + 1
  IN  Becomes(Put(p, [i \in Times(call'.n) |-> content[q.row][q.at + 1 + ((i - 1) % lead)]]))
Compare ==
  LET x == Bytes(call'.p, call'.n)
      y == Bytes(call'.q, call'.n)
      differ == {i \in 1..call'.n : x[i] # y[i]}
  IN  Says(IF differ = {} THEN 0 ELSE IF x[Min(differ)] < y[Min(differ)] THEN -1 ELSE 1)

(* A word read or written is WordBytes bytes.                              *)
RefWord == Says(Integer(Bytes(call'.p, WordBytes)))
SetWord == Becomes(Put(call'.p, Digits(call'.v, WordBytes)))

(* The error atom, row 1, takes a message, cut to what it holds.           *)
Message ==
  LET kept == Min({Len(call'.bytes), Scratch})
  IN  Becomes(Put([row |-> 1, at |-> 0], SubSeq(call'.bytes, 1, kept) \o <<NUL>>))

Meaning ==
  \/ call'.op = "str make"     /\ Make
  \/ call'.op = "str append"   /\ Join
  \/ call'.op = "str byte-sub" /\ Cut
  \/ call'.op = "bytes ->str"  /\ Spell
  \/ call'.op = "ptr ->str"    /\ Copied
  \/ call'.op = "str byte-len" /\ Length
  \/ call'.op = "str byte-ref" /\ ByteAt
  \/ call'.op = "mem alloc"    /\ Allocate
  \/ call'.op = "ptr ref"      /\ Ref
  \/ call'.op = "ptr set!"     /\ Set
  \/ call'.op = "ptr ref-word" /\ RefWord
  \/ call'.op = "ptr set-word!" /\ SetWord
  \/ call'.op = "mem set"      /\ Fill
  \/ call'.op = "mem copy"     /\ Copy
  \/ call'.op = "mem cmp"      /\ Compare
  \/ call'.op = "raise"        /\ Message

Init == content = <<Blank(Scratch + 1, NUL)>>

Spec == Init /\ [][Meaning]_<<content, answer, call>>
=============================================================================
