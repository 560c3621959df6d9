-------------------------------- MODULE Store --------------------------------
(***************************************************************************)
(* What the object heap promises a program: an object it made is there,    *)
(* with the length it was made with and the words last put into it, until  *)
(* the program lets go of it; and a new object is blank.  Where objects    *)
(* lie, and whose words they had before, is not the program's to see.      *)
(***************************************************************************)
EXTENDS Naturals

CONSTANTS Address, Length, Word, Nothing

VARIABLE content   (* content[o]: the data words of the object held at o   *)

Init == content = [o \in {} |-> <<>>]

Make ==
  \E o \in Address \ DOMAIN content :
    /\ DOMAIN content' = DOMAIN content \cup {o}
    /\ \E n \in Length :
         content' = [p \in DOMAIN content \cup {o} |->
                       IF p = o THEN [i \in 1..n |-> Nothing] ELSE content[p]]

Write ==
  \E o \in DOMAIN content, w \in Word :
    \E i \in DOMAIN content[o] : content' = [content EXCEPT ![o][i] = w]

LetGo ==
  \E o \in DOMAIN content : content' = [p \in DOMAIN content \ {o} |-> content[p]]

Spec == Init /\ [][Make \/ Write \/ LetGo]_content
=============================================================================
