------------------------------- MODULE Scopes -------------------------------
(***************************************************************************)
(* What environments promise a program: a frame is a map from names to     *)
(* values, inside the frame it was opened under.  A definition or an       *)
(* assignment changes what one name stands for in one frame; a frame that  *)
(* is opened is empty, whatever was in the heap before it; and a frame is  *)
(* forgotten only with all the frames inside it.                           *)
(***************************************************************************)
EXTENDS Naturals, Functions

CONSTANTS Holder, Name, Value, Nil

VARIABLES
  parent,   (* parent[h]: the frame that h was opened under, or Nil        *)
  scope     (* scope[h]: what the names bound in h stand for               *)

vars == <<parent, scope>>

Frame == DOMAIN scope

Put(h, n, v) ==
  /\ scope' = [scope EXCEPT ![h] = [m \in DOMAIN @ \cup {n} |-> IF m = n THEN v ELSE @[m]]]
  /\ UNCHANGED parent

Init == parent = [h \in {} |-> Nil] /\ scope = [h \in {} |-> Nil]

Open ==
  \E h \in Holder \ Frame, p \in Frame \cup {Nil} :
    /\ parent' = [g \in Frame \cup {h} |-> IF g = h THEN p ELSE parent[g]]
    /\ scope'  = [g \in Frame \cup {h} |-> IF g = h THEN [m \in {} |-> Nil] ELSE scope[g]]

Define == \E h \in Frame, n \in Name, v \in Value : Put(h, n, v)

(* Frames out of the program's reach are no more.                          *)
Forget ==
  \E F \in SUBSET Frame :
    /\ \A h \in F : parent[h] \in F \cup {Nil}
    /\ parent' = Restrict(parent, F) /\ scope' = Restrict(scope, F)

Next == Open \/ Define \/ Forget
Spec == Init /\ [][Next]_vars
=============================================================================
