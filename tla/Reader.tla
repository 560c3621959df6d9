------------------------------- MODULE Reader -------------------------------
(***************************************************************************)
(* The reader and its source (form.rs, read.rs, value/tok.rs), under the   *)
(* loop that reads a form, evaluates it and compacts the input (main.rs).  *)
(*                                                                         *)
(* A source is a buffer over a region of bytes: a file's whole text, read  *)
(* only, or the process's input, which is taken from the stream a byte at  *)
(* a time when the reader gets to the write mark.  Before each form, the   *)
(* elements of a list included, the input is prefetched up to a newline,   *)
(* blanks are skipped, and the analysers are offered the position on a     *)
(* view of the REGION from the cursor on.  A claim's reader goes on        *)
(* reading from the same buffer.  What nobody claims is a list, a stray    *)
(* parenthesis or an atom.                                                 *)
(*                                                                         *)
(* Abstractions.  A byte is known by its place in the stream and is of one *)
(* of a few kinds: a digit, another character of a name, the quote that a  *)
(* macro of the library claims, a parenthesis, a newline.  Of the          *)
(* analysers there are the engine's for integers and the quote's.  What a  *)
(* form comes to is left out: the lexemes read are kept, in order.         *)
(***************************************************************************)
EXTENDS Naturals, Sequences, SequencesExt, FiniteSetsExt

CONSTANTS
  Sources,    (* records of a stream of bytes and whether it is a file     *)
  Cap         (* input_cap: the size of the region of the process's input  *)

ASSUME ReaderAssumption ==
  /\ Cap \in Nat \ {0}
  /\ Sources \subseteq
       [bytes : Seq({"digit", "name", "quote", "(", ")", "newline"}), file : BOOLEAN]

VARIABLES
  source,     (* what is read                                              *)
  buffer,     (* region, marks and line anchor of the buffer, and how much *)
              (* of the stream was taken into it                           *)
  latched,    (* the end of the stream has been met                        *)
  frames,     (* the lists and quotes being read, innermost last           *)
  step,       (* what the reader does next                                 *)
  start,      (* where the atom being scanned begins, a local of the scan  *)
  lexemes,    (* what was read: lists of places in the stream              *)
  lines,      (* the line each form was stamped with, and where it began   *)
  truncated   (* a raise of the reader ended the run                       *)

vars == <<source, buffer, latched, frames, step, start, lexemes, lines, truncated>>

Stream == source.bytes
Size   == IF source.file THEN Len(Stream) ELSE Cap

(* A region that nothing was written to is filled with blanks.             *)
Kind(p)  == IF p = 0 THEN "blank" ELSE Stream[p]
Blanks   == {"blank", "newline"}
Ends     == Blanks \cup {"(", ")"}

Region == buffer.region
Cursor == buffer.cursor
Write  == buffer.write
At(i)  == Kind(Region[i + 1])
Places(from, to) == SubSeq(Region, from + 1, to)

Full  == Cursor < Write
Moved(n) == [buffer EXCEPT !.cursor = n]

(***************************************************************************)
(* buf_refill: a byte is taken from the stream first.  If the region is    *)
(* full, what is unread is then moved to its front; and if all of it is    *)
(* unread there is no room, and the byte has been taken all the same.      *)
(***************************************************************************)
Exhausted == source.file \/ latched \/ buffer.taken = Len(Stream)
(* Mutant: the write mark is left where it was.                            *)
CompactedToCursor(b) ==
  [b EXCEPT !.region = [i \in DOMAIN b.region |->
                          IF i <= b.write - b.cursor THEN b.region[i + b.cursor] ELSE b.region[i]],
            !.cursor = 0,
            !.anchor = IF b.anchor > b.cursor THEN b.anchor - b.cursor ELSE 0]
Compacted(b) ==
  [b EXCEPT !.region = [i \in DOMAIN b.region |->
                          IF i <= b.write - b.cursor THEN b.region[i + b.cursor] ELSE b.region[i]],
            !.cursor = 0, !.write = b.write - b.cursor,
            !.anchor = IF b.anchor > b.cursor THEN b.anchor - b.cursor ELSE 0]
Appended(b) ==
  [b EXCEPT !.region[b.write + 1] = b.taken, !.write = b.write + 1]
Refilled ==
  LET b == [buffer EXCEPT !.taken = @ + 1]
  IN  IF Write < Size THEN Appended(b)
      ELSE IF Cursor = 0 THEN b
      ELSE Appended(Compacted(b))
NoRoom == Write = Size /\ Cursor = 0

(* One step of a loop that needs a byte it has not got: None of what the   *)
(* buffer is then, if there is no byte to be had.                          *)
Fetch(None(_)) ==
  IF Exhausted THEN latched' = ~source.file /\ None(buffer)
  ELSE /\ UNCHANGED latched
       /\ IF NoRoom THEN None(Refilled)
          ELSE buffer' = Refilled /\ UNCHANGED <<frames, step, start, lexemes, lines, truncated>>

Becomes(s) == step' = s /\ UNCHANGED <<frames, start, lexemes, lines, truncated>>
Keep == UNCHANGED <<source, latched>>

-----------------------------------------------------------------------------

Init ==
  /\ source \in Sources
  /\ buffer = IF source.file
                THEN [region |-> [i \in DOMAIN Stream |-> i], cursor |-> 0, write |-> Len(Stream),
                      taken |-> Len(Stream), anchor |-> 0, line |-> 1]
                ELSE [region |-> [i \in 1..Cap |-> 0], cursor |-> 0, write |-> 0,
                      taken |-> 0, anchor |-> 0, line |-> 1]
  /\ latched = FALSE /\ frames = <<>> /\ step = "prefetch" /\ start = 0
  /\ lexemes = <<>> /\ lines = <<>> /\ truncated = FALSE

(* Mutant: the line is not fetched.                                        *)
PrefetchNothing == step = "prefetch" /\ Becomes("form") /\ UNCHANGED <<source, buffer, latched>>

(* buf_prefetch_line: until the region holds a newline past the cursor.    *)
Prefetch ==
  /\ step = "prefetch" /\ UNCHANGED source
  /\ IF source.file \/ \E i \in Cursor..Write - 1 : At(i) = "newline"
       THEN Becomes("form") /\ UNCHANGED <<buffer, latched>>
       ELSE Fetch(LAMBDA b : Becomes("form") /\ buffer' = b)

(* The input ends where a form may begin: there is none, and the quote     *)
(* that was waiting for it quotes nil.  A list that is cut off raises, the *)
(* raise ends the reading, and next_form takes it for the end of input.    *)
NoFormYet ==                                \* mutant: another is waited for
  IF frames = <<>> THEN Becomes("ended") ELSE Becomes("prefetch")
NoForm ==
  IF frames = <<>> THEN Becomes("ended")
  ELSE /\ frames' = Front(frames) /\ step' = "value"
       /\ UNCHANGED <<start, lexemes, lines, truncated>>
CutOffQuietly == NoForm                     \* mutant: a list ends where the input does
CutOff ==
  /\ step' = "ended" /\ truncated' = TRUE /\ frames' = <<>>
  /\ UNCHANGED <<start, lexemes, lines>>

(* buf_skip_blanks, before a form and before an element.                   *)
Skip ==
  /\ step \in {"form", "element"} /\ UNCHANGED source
  /\ IF Full THEN /\ At(Cursor) \in Blanks
                  /\ buffer' = Moved(Cursor + 1)
                  /\ UNCHANGED <<latched, frames, step, start, lexemes, lines, truncated>>
     ELSE Fetch(LAMBDA b : buffer' = b /\ IF step = "form" THEN NoForm ELSE CutOff)

(* buf_line: newlines since the anchor, which moves here.                  *)
LineHere ==
  LET from == IF buffer.anchor > Cursor THEN 0 ELSE buffer.anchor
      line == IF buffer.anchor > Cursor THEN 1 ELSE buffer.line
  IN  line + Cardinality({ i \in from..Cursor - 1 : At(i) = "newline" })
StampedAnchor(b) == [b EXCEPT !.anchor = Cursor]    \* mutant: the count is not kept
Stamped(b) == [b EXCEPT !.anchor = Cursor, !.line = LineHere]
Stamp == lines' = Append(lines, [line |-> LineHere, place |-> Region[Cursor + 1]])

(* The contest, on a view of the region to its end.  The integer analyser  *)
(* claims digits that something follows.                                   *)
DigitsInView == CHOOSE n \in 0..Size - Cursor :
                  /\ \A i \in Cursor..Cursor + n - 1 : At(i) = "digit"
                  /\ Cursor + n = Size \/ At(Cursor + n) # "digit"
IntegerClaims == DigitsInView > 0 /\ Cursor + DigitsInView < Size

Offer == step = "form" /\ Full /\ At(Cursor) \notin Blanks /\ Stamp /\ Keep

(* The integer reader runs with the cursor at the end of the claim and     *)
(* takes the digits that are there up to the write mark.                   *)
ReadInteger ==
  /\ Offer /\ IntegerClaims
  /\ buffer' = [Stamped(buffer) EXCEPT !.cursor = Cursor + DigitsInView]
  /\ lexemes' = Append(lexemes, Places(Cursor, Min({Cursor + DigitsInView, Write})))
  /\ step' = "value"
  /\ UNCHANGED <<frames, start, truncated>>

(* The quote's reader reads a form from the same buffer (tok read).        *)
ReadQuote ==
  /\ Offer /\ At(Cursor) = "quote"
  /\ buffer' = [Stamped(buffer) EXCEPT !.cursor = Cursor + 1]
  /\ lexemes' = Append(lexemes, Places(Cursor, Cursor + 1))
  /\ frames' = Append(frames, "quote") /\ step' = "prefetch"
  /\ UNCHANGED <<start, truncated>>

ReadParenthesis ==
  /\ Offer /\ At(Cursor) \in {"(", ")"}
  /\ buffer' = [Stamped(buffer) EXCEPT !.cursor = Cursor + 1]
  /\ lexemes' = Append(lexemes, Places(Cursor, Cursor + 1))
  /\ IF At(Cursor) = "(" THEN frames' = Append(frames, "list") /\ step' = "element"
                         ELSE step' = "value" /\ UNCHANGED frames
  /\ UNCHANGED <<start, truncated>>

BeginAtom ==
  /\ Offer /\ ~IntegerClaims /\ At(Cursor) \in {"digit", "name"}
  /\ buffer' = Stamped(buffer)
  /\ step' = "atom" /\ start' = Cursor
  /\ UNCHANGED <<frames, lexemes, truncated>>

(* buf_read_atom: scanned to what ends it, then cut out of the region from *)
(* where it began.  Nothing to cut out, and a byte is passed over.         *)
AtomEnds(b) ==
  /\ step' = "value"
  /\ IF start < b.cursor
       THEN lexemes' = Append(lexemes, SubSeq(b.region, start + 1, b.cursor)) /\ buffer' = b
       ELSE UNCHANGED lexemes /\ buffer' = [b EXCEPT !.cursor = @ + 1]
  /\ UNCHANGED <<frames, start, lines, truncated>>
ScanAtom ==
  /\ step = "atom" /\ UNCHANGED source
  /\ IF ~Full THEN Fetch(AtomEnds)
     ELSE /\ UNCHANGED latched
          /\ IF At(Cursor) \in Ends THEN AtomEnds(buffer)
             ELSE /\ buffer' = Moved(Cursor + 1)
                  /\ UNCHANGED <<frames, step, start, lexemes, lines, truncated>>

(* read_list_form: at each element the list may be closed.                 *)
CloseList ==
  /\ step = "element" /\ Full /\ At(Cursor) = ")" /\ Keep
  /\ buffer' = Moved(Cursor + 1)
  /\ lexemes' = Append(lexemes, Places(Cursor, Cursor + 1))
  /\ frames' = Front(frames) /\ step' = "value"
  /\ UNCHANGED <<start, lines, truncated>>
NextElement ==
  /\ step = "element" /\ Full /\ At(Cursor) \notin Blanks \cup {")"} /\ Keep
  /\ Becomes("prefetch") /\ UNCHANGED buffer

(* A form has been read: it is an element, or what a quote quotes, or one  *)
(* for the loop to evaluate.                                               *)
Value ==
  /\ step = "value" /\ Keep /\ UNCHANGED <<buffer, start, lexemes, lines, truncated>>
  /\ IF frames = <<>> THEN step' = "evaluated" /\ UNCHANGED frames
     ELSE IF Last(frames) = "list" THEN step' = "element" /\ UNCHANGED frames
     ELSE frames' = Front(frames) /\ step' = "value"

(* compact_input, when the form has been evaluated.                        *)
CompactInput ==
  /\ step = "evaluated" /\ Keep
  /\ Cursor <= Write
  /\ buffer' = IF source.file THEN buffer ELSE Compacted(buffer)
  /\ Becomes("prefetch")

Next ==
  \/ Prefetch \/ Skip \/ ReadInteger \/ ReadQuote \/ ReadParenthesis
  \/ BeginAtom \/ ScanAtom \/ CloseList \/ NextElement \/ Value \/ CompactInput

Spec == Init /\ [][Next]_vars

(* The loop is the process's main thread, and the input is there to read.  *)
FairSpec == Spec /\ WF_vars(Next)

-----------------------------------------------------------------------------
(* Each part of the state is of its kind.                                  *)
TypeOK ==
  /\ Region \in [1..Size -> 0..Len(Stream)]
  /\ Cursor \in 0..Size /\ Write \in 0..Size /\ buffer.taken \in 0..Len(Stream)
  /\ buffer.anchor \in 0..Size /\ buffer.line \in Nat
  /\ frames \in Seq({"list", "quote"}) /\ latched \in BOOLEAN /\ truncated \in BOOLEAN
  /\ step \in {"prefetch", "form", "element", "atom", "value", "evaluated", "ended"}

(* What is unread is the stream's next bytes, in order, none missing:      *)
(* neither a refill, nor a compaction, nor a claim has lost or doubled one.*)
UnreadIsNext ==
  /\ Cursor <= Write
  /\ \A i \in Cursor..Write - 1 : Region[i + 1] + Write = buffer.taken + i + 1

(* The lexemes of a text, whatever brought it here.                        *)
Lexemes(s) ==
  LET upTo(p, C) == CHOOSE n \in p..Len(s) : /\ \A i \in p..n : s[i] \in C
                                            /\ (n = Len(s) \/ s[n + 1] \notin C)
      end(p) == CASE s[p] = "digit" -> upTo(p, {"digit"})
                  [] s[p] = "name"  -> upTo(p, {"digit", "name", "quote"})
                  [] OTHER          -> p
      from[p \in 1..Len(s) + 1] ==
        IF p = Len(s) + 1 THEN <<>>
        ELSE IF s[p] = "newline" THEN from[p + 1]
        ELSE <<[i \in 1..end(p) - p + 1 |-> p + i - 1]>> \o from[end(p) + 1]
  IN  from[1]

(* Whatever reads it -- prefetch, contest, macro, list or atom -- and      *)
(* wherever a refill or a compaction falls, the text is read as its        *)
(* lexemes, each whole and once, in order; and, unless a list is cut off,  *)
(* all of them are.                                                        *)
LexemesAreTheTexts ==
  /\ IsPrefix(lexemes, Lexemes(Stream))
  /\ step = "ended" /\ ~truncated => lexemes = Lexemes(Stream)

(* "End of input INSIDE a list is truncation, and it raises" (form.rs:182):*)
(* the reading is cut off exactly when a list is open at the end.  A       *)
(* closing parenthesis closes none where a quote takes it for its form.    *)
OpenAtEnd(s) ==
  LET lex == Lexemes(s)
      first(i) == s[lex[i][1]]
      open[i \in 0..Len(lex)] ==
        IF i = 0 THEN 0
        ELSE IF first(i) = "(" THEN open[i - 1] + 1
        ELSE IF first(i) = ")" /\ (i = 1 \/ first(i - 1) # "quote")
          THEN Max({0, open[i - 1] - 1})
        ELSE open[i - 1]
  IN  open[Len(lex)]
TruncationRaises == step = "ended" => (truncated <=> OpenAtEnd(Stream) > 0)

(* "The 1-based source line at the cursor" (value/tok.rs:53): what a form  *)
(* is stamped with is the line of the text it began on.                    *)
LineIsTrue ==
  \A l \in ToSet(lines) :
    l.line = 1 + Cardinality({ i \in 1..l.place - 1 : Stream[i] = "newline" })
FileLinesAreTrue == source.file => LineIsTrue

(* "A raise ends the run and is reported" (main.rs:39): no list that is    *)
(* cut off ends the run as the end of the input does.                      *)
RaiseIsReported == ~truncated

(* "The analyser contest's bounded view holds every byte a token on this   *)
(* line can claim" (form.rs:69): where a form begins, the input is there up *)
(* to the end of the line, if it does not end before.                      *)
ContestSeesTheLine ==
  step = "form" /\ Full /\ At(Cursor) \notin Blanks =>
    Exhausted \/ \E i \in Cursor..Write - 1 : At(i) = "newline"

(* The reading ends, whatever the text is.                                 *)
ReadingEnds == <>(step = "ended")
=============================================================================
