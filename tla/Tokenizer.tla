------------------------------ MODULE Tokenizer ------------------------------
(***************************************************************************)
(* The tokenizer's drive (prims/tok.rs): read_str, the contest of the      *)
(* registered analysers it holds at each token (analyse), and the engine's *)
(* own integer analyser and reader.                                        *)
(*                                                                         *)
(* One buffer serves the whole drive.  Its retain mark is where the token  *)
(* being read begins, its cursor where the next character comes from.      *)
(* Each analyser in turn is fed characters until it declines, accepts, or  *)
(* the text ends; what it claims is measured between the marks; and the    *)
(* winner's read handlers run with the cursor at the end of the claim.     *)
(*                                                                         *)
(* Abstractions.  A type has one analyser, the engine's or one written in  *)
(* the language, which may do what the handler protocol allows: keep       *)
(* reading, set a score from the span, hand back the character it peeked   *)
(* at as it ends, decline, accept or raise.  Its read handlers may read on, *)
(* decline, raise, and leave the cursor anywhere in the text (buf unread,  *)
(* buf reset), before the token as well.  A character is a string.         *)
(***************************************************************************)
EXTENDS Integers, Sequences, SequencesExt, FiniteSetsExt

CONSTANTS
  Texts,       (* the texts driven over                                    *)
  Types,       (* the types in the order of the alist: "int" or "user"     *)
  Readers,     (* how many read handlers each has; one with none discards  *)
  FallsBack    (* the base has a catalogue, so the engine's reader serves  *)

ASSUME TokenizerAssumption ==
  /\ Types \in Seq({"int", "user"}) /\ Readers \in [DOMAIN Types -> Nat]
  /\ FallsBack \in BOOLEAN

VARIABLES
  text,      (* the text, up to its end                                    *)
  retain,    (* the retain mark                                            *)
  cursor,    (* the cursor                                                 *)
  pc,        (* "drive", "attempt", "award", "read" or "done"              *)
  ty,        (* the type whose analyser is being tried                     *)
  state,     (* the state that analyser is in                              *)
  score,     (* the score object                                           *)
  best,      (* the best claim so far, 0 for none                          *)
  winner,    (* the type that made it                                      *)
  reader,    (* which of the winner's read handlers runs                   *)
  claims,    (* the claims made in this contest, in order                  *)
  tokens     (* the tokens made: the characters claimed for them or read   *)
             (* on by their readers, and the integers' values              *)

marks   == <<retain, cursor>>
contest == <<ty, state, score, best, winner, claims>>
vars    == <<text, marks, pc, contest, reader, tokens>>

End == Len(text)
Abs(n) == IF n < 0 THEN -n ELSE n
Span == Max({0, cursor - retain})

-----------------------------------------------------------------------------
(* The integer analyser: what each state answers to a character, a next    *)
(* state, "accept" or "decline".                                           *)
Digits  == {"0", "7"}
XDigits == Digits \cup {"a"}

IntDigits(c) == IF c \in Digits THEN "digits" ELSE "accept"
IntPrefixDecimal(c) == IF c \in Digits THEN "digits" ELSE "decline"        \* mutant
IntPrefix(c) == IF c = "0" THEN "base" ELSE IF c \in Digits THEN "digits" ELSE "decline"
IntStep(s, c) ==
  CASE s = "sign"    -> IF c = "-" THEN "prefix" ELSE IntPrefix(c)
    [] s = "prefix"  -> IntPrefix(c)
    [] s = "base"    -> IF c = "x" THEN "xdigits" ELSE IntDigits(c)
    [] s = "digits"  -> IntDigits(c)
    [] s = "xdigits" -> IF c \in XDigits THEN "xdigits" ELSE "accept"

(* The integer reader: it reads on from the token's start as long as there *)
(* are digits, in decimal unless the text says 0x.                         *)
Digit(c) == CASE c = "0" -> 0 [] c = "7" -> 7 [] c = "a" -> 10
Run(s, from, D) == CHOOSE n \in from..Len(s) + 1 :
                     /\ \A i \in from..n - 1 : s[i] \in D
                     /\ n = Len(s) + 1 \/ s[n] \notin D
Value(s, from, D, radix) ==
  FoldLeft(LAMBDA v, c : v * radix + Digit(c), 0, SubSeq(s, from, Run(s, from, D) - 1))
IntRead(s) ==
  LET signed == s[1] = "-"
      body == IF signed THEN 2 ELSE 1
      hex  == Len(s) > body /\ s[body] = "0" /\ s[body + 1] = "x"
      n    == IF hex THEN Value(s, body + 2, XDigits, 16) ELSE Value(s, body, Digits, 10)
  IN  IF signed THEN -n ELSE n

-----------------------------------------------------------------------------
(* `better': does a claim beat the best one so far?                        *)
BetterOrFirst(n, b) == b = 0 \/ n > b \/ (b < 1 /\ n <= b)       \* mutant: ties to the first
Better(n, b) == b = 0 \/ n >= b \/ (b < 1 /\ n <= b)

FirstState(t) == IF Types[t] = "int" THEN "sign" ELSE "user"

Init ==
  /\ text \in Texts
  /\ retain = 0 /\ cursor = 0 /\ pc = "drive"
  /\ ty = 1 /\ state = "user" /\ score = 0 /\ best = 0 /\ winner = 0
  /\ reader = 0 /\ claims = <<>> /\ tokens = {}

(* The next token, if there is any text left: the first analyser is tried. *)
Drive ==
  /\ pc = "drive"
  /\ pc' = IF retain >= End THEN "done" ELSE "attempt"
  /\ ty' = 1 /\ state' = FirstState(1)
  /\ score' = 0 /\ best' = 0 /\ winner' = 0 /\ claims' = <<>>
  /\ UNCHANGED <<text, marks, reader, tokens>>

(* An attempt is over: what it claims, if anything, is compared with the   *)
(* best, the cursor goes back to the token's start, and the next is tried. *)
Ends(n) ==
  /\ IF n # 0 /\ Better(n, best) THEN best' = n /\ winner' = ty ELSE UNCHANGED <<best, winner>>
  /\ claims' = IF n # 0 THEN Append(claims, [type |-> ty, span |-> n]) ELSE claims
  /\ cursor' = retain
  /\ IF ty < Len(Types)
       THEN pc' = pc /\ ty' = ty + 1 /\ state' = FirstState(ty + 1) /\ score' = 0
       ELSE pc' = "award" /\ UNCHANGED <<ty, state, score>>
  /\ UNCHANGED <<text, retain, reader, tokens>>

Goes(s, n) ==
  /\ cursor' = cursor + 1 /\ state' = s /\ score' = n
  /\ UNCHANGED <<text, retain, pc, ty, best, winner, claims, reader, tokens>>

(* The integer analyser is given a character; it hands back the one that   *)
(* ends the numeral, and claims what lies before it.                       *)
IntCharacter ==
  /\ pc = "attempt" /\ cursor < End /\ Types[ty] = "int"
  /\ LET next == IntStep(state, text[cursor + 1])
     IN  CASE next = "accept"  -> Ends(Span)
           [] next = "decline" -> Ends(0)
           [] OTHER            -> Goes(next, score)

(* An analyser written in the language is given one.  `back' is the        *)
(* character it peeked at, handed back as it ends.                         *)
UserCharacter ==
  /\ pc = "attempt" /\ cursor < End /\ Types[ty] = "user"
  /\ LET read == Max({0, cursor + 1 - retain})
     IN  \/ Ends(0)
         \/ \E n \in {score, read, -read} : Goes("user", n)
         \/ \E back \in {0, 1}, sign \in {1, -1} : Ends(sign * Max({0, read - back}))

(* The text ended: a score set on the way claims what was read.            *)
TextEnds ==
  /\ pc = "attempt" /\ cursor >= End
  /\ Ends(IF score = 0 THEN 0 ELSE IF score < 0 THEN -Span ELSE Span)

-----------------------------------------------------------------------------
(* Nobody claims the position: a token base is done, and a base with a     *)
(* catalogue has the engine's reader read one form, whose end is beyond    *)
(* the blanks; no form, nil, or an atom that nothing ends, and it is done. *)
Form(at, pos) ==
  /\ \E b \in at + 1..pos : text[b] # " "
  /\ pos < End \/ text[pos] = " "
Unclaimed ==
  /\ pc = "award" /\ best = 0
  /\ \/ pc' = "done" /\ UNCHANGED <<marks, tokens>>
     \/ /\ FallsBack
        /\ \E pos \in retain + 1..End :
             /\ Form(retain, pos)
             /\ retain' = pos /\ cursor' = pos
             /\ tokens' = tokens \cup {[from |-> retain, to |-> pos, value |-> 0]}
        /\ pc' = "drive"
  /\ UNCHANGED <<text, contest, reader>>

(* The winner's span is discarded, if it has no read handler.              *)
Award ==
  /\ pc = "award" /\ best # 0
  /\ cursor' = retain + Abs(best)
  /\ IF Readers[winner] = 0 THEN retain' = retain + Abs(best) /\ pc' = "drive"
                            ELSE retain' = retain /\ pc' = "read"
  /\ reader' = 1
  /\ UNCHANGED <<text, contest, tokens>>

(* A read handler declines: the next starts where it started.              *)
Declines ==
  /\ pc = "read" /\ Types[winner] = "user"
  /\ IF reader < Readers[winner]
       THEN reader' = reader + 1 /\ cursor' = retain + Abs(best) /\ pc' = pc
       ELSE pc' = "done" /\ UNCHANGED <<reader, cursor>>
  /\ UNCHANGED <<text, retain, contest, tokens>>

(* What a token takes of the text: its claim, and what its reader read on. *)
Taken(c, v) == [from |-> retain, to |-> Max({c, retain + Abs(best)}), value |-> v]

(* Mutant: the cursor stands, without the claim for its floor.             *)
DeliversWithoutFloor(c, v) ==
  /\ cursor' = c
  /\ retain' = c
  /\ tokens' = tokens \cup {Taken(c, v)}
  /\ pc' = IF c <= retain THEN "done" ELSE "drive"
  /\ UNCHANGED <<text, contest, reader>>

(* Mutant: nor is a reader that went backward a reason to stop.            *)
DeliversWherever(c, v) ==
  /\ cursor' = c
  /\ retain' = c
  /\ tokens' = tokens \cup {Taken(c, v)}
  /\ pc' = "drive"
  /\ UNCHANGED <<text, contest, reader>>

(* A read handler answers a token, wherever it leaves the cursor.          *)
(* Everything up to there is done with, and the claim is in any case; a    *)
(* drive that would not have moved is over.                                *)
Delivers(c, v) ==
  LET done == Max({c, retain + Abs(best)})
  IN  /\ cursor' = c
      /\ retain' = done
      /\ tokens' = tokens \cup {Taken(c, v)}
      /\ pc' = IF done <= retain THEN "done" ELSE "drive"
      /\ UNCHANGED <<text, contest, reader>>

UserReads ==
  /\ pc = "read" /\ Types[winner] = "user"
  /\ \E c \in 0..End : Delivers(c, 0)

IntReads ==
  /\ pc = "read" /\ Types[winner] = "int"
  /\ Delivers(cursor, IntRead(SubSeq(text, retain + 1, End)))

(* A handler written in the language raises: read_str is left.             *)
Raises ==
  /\ \/ pc = "attempt" /\ cursor < End /\ Types[ty] = "user"
     \/ pc = "read" /\ Types[winner] = "user"
  /\ pc' = "done"
  /\ UNCHANGED <<text, marks, contest, reader, tokens>>

Next ==
  \/ Drive \/ IntCharacter \/ UserCharacter \/ TextEnds
  \/ Unclaimed \/ Award \/ Declines \/ UserReads \/ IntReads \/ Raises

Spec == Init /\ [][Next]_vars

(* The drive is one loop of the engine, and the handlers it calls return.  *)
FairSpec == Spec /\ WF_vars(Next)

-----------------------------------------------------------------------------
(* Each part of the state is of its kind.                                  *)
TypeOK ==
  /\ retain \in 0..End /\ cursor \in 0..End
  /\ pc \in {"drive", "attempt", "award", "read", "done"}
  /\ ty \in DOMAIN Types /\ winner \in DOMAIN Types \cup {0}
  /\ state \in {"user", "sign", "prefix", "base", "digits", "xdigits"}
  /\ score \in -End..End /\ best \in -End..End /\ reader \in 0..Max({0} \cup ToSet(Readers))

(* What the contest comes to, whatever order the claims came in: the       *)
(* longest positive claim, the last of those if there are several; or,     *)
(* when all are negative, the last of all.                                 *)
BestOf(c) ==
  LET positive == { i \in DOMAIN c : c[i].span > 0 }
      longest  == { i \in positive : \A j \in positive : c[j].span <= c[i].span }
  IN  IF c = <<>> THEN [type |-> 0, span |-> 0]
      ELSE IF positive = {} THEN Last(c)
      ELSE c[Max(longest)]
WinnerIsBest ==
  pc \in {"attempt", "award", "read"} => [type |-> winner, span |-> best] = BestOf(claims)

(* "while nothing positive has matched, a MORE negative score wins"        *)
(* (tok.rs:188): the longest of the negative claims.                       *)
LongestFallbackWins ==
  best < 0 => \A i \in DOMAIN claims : claims[i].span >= best

(* The integer analyser claims the longest numeral at the token's start    *)
(* if a character follows it, and nothing if none does or there is none.   *)
IsNumeral(s) ==
  LET body == IF s # <<>> /\ s[1] = "-" THEN Tail(s) ELSE s
  IN  \/ body # <<>> /\ \A i \in DOMAIN body : body[i] \in Digits
      \/ /\ Len(body) >= 2 /\ body[1] = "0" /\ body[2] = "x"
         /\ \A i \in 3..Len(body) : body[i] \in XDigits
Numerals == { n \in 1..End - retain : IsNumeral(SubSeq(text, retain + 1, retain + n)) }
IntegerIsLongest ==
  pc = "award" =>
    { c.span : c \in { c \in ToSet(claims) : Types[c.type] = "int" } } =
    IF Numerals # {} /\ retain + Max(Numerals) < End /\ "int" \in ToSet(Types)
      THEN {Max(Numerals)} ELSE {}

(* The value of an integer is that of the characters claimed for it: the   *)
(* reader, which reads on as far as there are digits, stops where the      *)
(* analyser did.                                                           *)
ValueIsOfTheClaim ==
  \A t \in tokens :
    t.value # 0 => t.value = IntRead(SubSeq(text, t.from + 1, t.to))

(* Integers are claimed whole and read as claimed.                         *)
IntegersAreRead == IntegerIsLongest /\ ValueIsOfTheClaim

(* No character is part of two tokens, and none is read that is not in the *)
(* text: what a token has taken, its claim and whatever its reader read on,*)
(* lies before the next token's start, wherever the reader left the cursor *)
(* ("the claimed span is the floor", tok.rs:486).                          *)
SpansAreDisjoint ==
  /\ \A t \in tokens : t.from < t.to /\ t.to <= retain
  /\ \A t, u \in tokens : t # u => t.to <= u.from \/ u.to <= t.from
  /\ \A i \in DOMAIN claims : pc = "attempt" => retain + Abs(claims[i].span) <= End

(* "ONE BUFFER for the whole contest, rewound to the token start between   *)
(* attempts" (tok.rs:203): an attempt begins at the token's start.         *)
AttemptsStartAtToken ==
  [][Drive /\ pc' = "attempt" => cursor = retain]_vars

(* The drive ends: no reader, wherever in the text it leaves the cursor,   *)
(* and no span that is discarded makes it read the same place for ever.    *)
DriveEnds == <>(pc = "done")
=============================================================================
