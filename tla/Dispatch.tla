------------------------------ MODULE Dispatch ------------------------------
(***************************************************************************)
(* What the type system promises a program: the meaning of a value is kept *)
(* under a base and a handle, and nowhere else.                            *)
(*                                                                         *)
(* There are no type objects and no type words here.  A value is bound at  *)
(* birth to one registration of the base it was made in, and stays bound   *)
(* to it; a write changes the one registration of the running base it      *)
(* names; a new base starts from the engine's own meanings.                *)
(***************************************************************************)
EXTENDS Naturals, Sequences, TLC

CONSTANTS
  Kinds,        (* the handles every base registers from the start         *)
  Demand,       (* builtin handles registered when first asked for         *)
  Made,         (* the handles a program may make                          *)
  Born,         (* Born[h]: what builtin handle h means when registered    *)
  Keeps,        (* Keeps[v]: does v, made before the first base, have a    *)
                (* meaning?                                                *)
  MaxBases

VARIABLES
  running,      (* the running base; 0 before the first                    *)
  meaning,      (* meaning[<<b, h>>]: what handle h means in base b        *)
  bound         (* bound[v]: the registration value v has, a set of at     *)
                (* most one                                                *)

Bases(m)      == {p[1] : p \in DOMAIN m}
Handles(m, b) == {p[2] : p \in {q \in DOMAIN m : q[1] = b}}

(* The builtin handles hs registered in base b, where they are not yet.    *)
Registering(m, b, hs) == m @@ [p \in {b} \X hs |-> Born[p[2]]]

Init == running = 0 /\ DOMAIN meaning = {} /\ \A v \in DOMAIN bound : bound[v] = {}

(* The actions take what is meant and what is bound, before them as m and  *)
(* o and after them as n and w.                                            *)

(* The first base.  What was made before it is bound now.                  *)
Boot(m, n, o, w) ==
  /\ running = 0 /\ running' = 1
  /\ \E more \in SUBSET Demand : n = Registering(m, 1, Kinds \cup more)
  /\ DOMAIN w = DOMAIN o
  /\ \A v \in DOMAIN w : IF Keeps[v] THEN \E p \in DOMAIN n : w[v] = {p} ELSE w[v] = {}

(* A value is made in the running base, of a handle registered there or of *)
(* none; a builtin handle is registered when it is needed.                 *)
Make(m, n, o, w) ==
  /\ running # 0 /\ UNCHANGED running
  /\ Len(w) = Len(o) + 1
  /\ \E own \in {{}} \cup {{p} : p \in {running} \X Handles(n, running)} : w = Append(o, own)
  /\ \E more \in SUBSET Demand : n = Registering(m, running, more)

NewBase(m, n, o, w) ==
  /\ running # 0 /\ UNCHANGED running /\ w = o
  /\ \E b \in (1 .. MaxBases) \ Bases(m) : n = Registering(m, b, Kinds)

Switch(m, n, o, w) ==
  /\ running' # running /\ running' \in Bases(m)
  /\ n = m /\ w = o

(* The running base changes what one of its handles means, or registers a  *)
(* handle no base has.                                                     *)
Write(m, n, o, w) ==
  /\ running # 0 /\ UNCHANGED running /\ w = o
  /\ \E h \in Handles(m, running) \cup (Made \ {p[2] : p \in DOMAIN m}) :
       /\ DOMAIN n = DOMAIN m \cup {<<running, h>>}
       /\ \A p \in DOMAIN m \ {<<running, h>>} : n[p] = m[p]

Next ==
  \E m \in {meaning}, n \in {meaning'}, o \in {bound}, w \in {bound'} :
    \/ Boot(m, n, o, w) \/ Make(m, n, o, w) \/ NewBase(m, n, o, w)
    \/ Switch(m, n, o, w) \/ Write(m, n, o, w)

Spec == Init /\ [][Next]_<<running, meaning, bound>>
=============================================================================
