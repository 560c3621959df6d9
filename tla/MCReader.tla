------------------------------ MODULE MCReader ------------------------------
EXTENDS Reader

Texts(n) ==
  UNION { [1..k -> {"digit", "name", "quote", "(", ")", "newline"}] : k \in 1..n }

(* No integer ends the text, no integer of more than a digit begins a line *)
(* but the first, and no atom begins one unless the region holds it all.   *)
Begins(s, K) == \E i \in 1..Len(s) - 1 : s[i] = "newline" /\ s[i + 1] \in K
Tidy(s) ==
  /\ Last(s) # "digit"
  /\ \A i \in 1..Len(s) - 2 : <<s[i], s[i + 1], s[i + 2]>> # <<"newline", "digit", "digit">>
  /\ Len(s) <= Cap \/ ~Begins(s, {"digit", "name"})

(* Some byte of every n in a row is a newline: the lines fit the region.   *)
Short(s, n) == \A i \in 0..Len(s) - n : \E j \in i + 1..i + n : s[j] = "newline"

Files  == { [bytes |-> s, file |-> TRUE] : s \in Texts(4) }
Inputs == { [bytes |-> s, file |-> FALSE] : s \in Texts(5) }
(* Input of whole lines, which all fit.                                    *)
Whole  == { t \in Inputs : Last(t.bytes) = "newline" }
Lines  == { t \in Inputs : Tidy(t.bytes) /\ Short(t.bytes, Cap) }
Both   == Files \cup Lines
=============================================================================
