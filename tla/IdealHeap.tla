------------------------------ MODULE IdealHeap ------------------------------
(***************************************************************************)
(* What the collector promises the program: a heap that never frees.       *)
(*                                                                         *)
(* There is no free list, no mark bit and no collection here.  The state   *)
(* is what the program can see -- its roots and the objects it can reach   *)
(* -- and an object changes only when the program changes it.  A new       *)
(* object is none of those in use, and is blank: no references, no         *)
(* snapshot or symbol table filed under it, no frame index.                *)
(***************************************************************************)
EXTENDS Reachability

CONSTANTS Addr, Root

VARIABLES
  held,   (* held[r]: what root slot r holds                               *)
  heap    (* the reachable objects, each [refs, side, indexed]             *)

Blank == [refs |-> {}, side |-> {}, indexed |-> FALSE]

(* What is reachable from `h' through the objects of `objects': an entry   *)
(* filed under an object is reached through that object.                   *)
Visible(h, objects) ==
  Reachable(DOMAIN objects, UNION {h[r] : r \in Root},
            [a \in DOMAIN objects |-> objects[a].refs \cup objects[a].side])

(* The program's view after it made its heap `objects' and its roots `h'.  *)
Becomes(h, objects, then) ==
  /\ held' = h
  /\ \A a \in DOMAIN then : a \in DOMAIN objects /\ then[a] = objects[a]
  /\ DOMAIN then = Visible(h, objects)

Init ==
  /\ held = [r \in Root |-> {}]
  /\ heap = [a \in {} |-> Blank]

(* The actions take the heap they start from as `now' and the heap they    *)
(* lead to as `then': Next binds the two once.                             *)

(* Make a blank object at an address not in use.                           *)
New(now, then) ==
  \E r \in Root, a \in Addr \ DOMAIN now :
    Becomes([held EXCEPT ![r] = {a}],
            [b \in DOMAIN now \cup {a} |-> IF b = a THEN Blank ELSE now[b]], then)

(* Rewrite one object's references.                                        *)
Relink(now, then) ==
  \E a \in DOMAIN now, refs \in SUBSET DOMAIN now :
    Becomes(held, [now EXCEPT ![a].refs = refs], then)

(* Root something, or let go of it.                                        *)
Hold(now, then) ==
  \E r \in Root, refs \in SUBSET DOMAIN now :
    Becomes([held EXCEPT ![r] = refs], now, then)

(* File a reference under an object.                                       *)
File(now, then) ==
  \E k, v \in DOMAIN now :
    Becomes(held, [now EXCEPT ![k].side = @ \cup {v}], then)

(* Give an object an index.                                                *)
Index(now, then) ==
  \E h \in DOMAIN now : Becomes(held, [now EXCEPT ![h].indexed = TRUE], then)

(* Every step is seen: it changes the roots or a reachable object.         *)
Next ==
  \E now \in {heap}, then \in {heap'} :
    /\ held' # held \/ then # now
    /\ \/ New(now, then) \/ Relink(now, then) \/ Hold(now, then)
       \/ File(now, then) \/ Index(now, then)

Spec == Init /\ [][Next]_<<held, heap>>
=============================================================================
