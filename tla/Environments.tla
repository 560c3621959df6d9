----------------------------- MODULE Environments -----------------------------
(***************************************************************************)
(* Environments (env.rs) and the two views of a frame kept beside it.      *)
(*                                                                         *)
(* A frame is a holder: the head of a chain of (name . value) cells, the   *)
(* holder it was opened under, and the base it serves.  The chain is the   *)
(* truth.  A frame of more than IndexAt names is also in a map keyed by    *)
(* the holder's address, which finds its cells without a walk; and the     *)
(* root frame of a base is mirrored, cell for cell, in a search tree that  *)
(* hangs off the base (base.rs) for the language's library to read.  The   *)
(* three must agree after every definition, assignment and collection, and *)
(* an address must not hand a dead frame's map to the frame allocated      *)
(* there next.                                                             *)
(*                                                                         *)
(* Abstractions.  A name is the word of its symbol, a number, since the    *)
(* tree is ordered by it.  `held' stands for everything that keeps a       *)
(* holder alive: the environment roots, closures, environment objects.     *)
(***************************************************************************)
EXTENDS Naturals, Sequences, SequencesExt

CONSTANTS
  Holder,    (* addresses of holders                                       *)
  Cell,      (* addresses of binding cells                                 *)
  Base,      (* addresses of bases                                         *)
  Name,      (* symbol words                                               *)
  Value,     (* what names are bound to                                    *)
  IndexAt,   (* INDEX_AT: the longest chain that is only ever walked       *)
  Nil

ASSUME ConstantsAreApart ==
  /\ IndexAt \in Nat /\ Name \subseteq Nat
  /\ Nil \notin Holder \cup Cell \cup Base

VARIABLES
  chain,    (* chain[h]: the cells of frame h, the newest first            *)
  parent,   (* parent[h]: the holder h was opened under, or Nil            *)
  base,     (* base[h]: the base h serves, or Nil                          *)
  cell,     (* cell[c]: the name and the value of cell c                   *)
  index,    (* index[h]: the shadow map of a grown frame                   *)
  tree,     (* tree[b]: the search tree of base b, by the path to each node*)
  held      (* the holders something outside the chains refers to          *)

vars == <<chain, parent, base, cell, index, tree, held>>

Empty == [x \in {} |-> Nil]
With(f, x, y) == [z \in DOMAIN f \cup {x} |-> IF z = x THEN y ELSE f[z]]

Frame == DOMAIN chain
IsRoot(h) == parent[h] = Nil
Outwards(S) == \A g \in S : parent[g] \in S \cup {Nil}
Outward(h) ==
  { g \in Frame : \A S \in SUBSET Frame : h \in S /\ Outwards(S) => g \in S }
Reach == { h \in Frame : \E g \in held : h \in Outward(g) }

(***************************************************************************)
(* Finding a name (find_in_frame): in the map if the frame has one, and    *)
(* then nowhere else; on the chain otherwise, the newest cell first.       *)
(***************************************************************************)
OnChain(s, n) ==
  { s[i] : i \in { i \in DOMAIN s : /\ cell[s[i]].name = n
                                    /\ \A j \in 1..(i - 1) : cell[s[j]].name # n } }
Find(h, n) ==
  IF h \in DOMAIN index THEN { index[h][m] : m \in {n} \cap DOMAIN index[h] }
  ELSE OnChain(chain[h], n)

(***************************************************************************)
(* The tree (global_tree_insert): down from the top by the order of the    *)
(* words, to the node that has the name, which is left as it is, or to     *)
(* where a node would be.                                                  *)
(***************************************************************************)
Side(key, at) == IF key < at THEN "left" ELSE "right"
Places(t) == {<<>>} \cup { Append(q, s) : q \in DOMAIN t, s \in {"left", "right"} }
Leads(t, names, key, p) ==
  \A i \in DOMAIN p : LET q == SubSeq(p, 1, i - 1)
                      IN  /\ q \in DOMAIN t /\ names[t[q]].name # key
                          /\ p[i] = Side(key, names[t[q]].name)
Seat(t, names, key) ==
  CHOOSE p \in Places(t) : /\ Leads(t, names, key, p)
                           /\ p \in DOMAIN t => names[t[p]].name = key
TreeInsert(t, names, c) ==
  LET p == Seat(t, names, names[c].name)
  IN  IF p \in DOMAIN t THEN t ELSE With(t, p, c)

BackfillNothing(t, names, s) == t           \* mutant: a base starts with an empty tree
Backfill(t, names, s) ==
  LET built[i \in 0..Len(s)] ==
        IF i = 0 THEN t ELSE TreeInsert(built[i - 1], names, s[i])
  IN  built[Len(s)]

(* The map of a frame that has just grown past IndexAt: for each name the  *)
(* first cell met from the head.                                           *)
MapOfAllButLast(s, names) ==                \* mutant: the walk stops at the last cell
  [n \in { names[s[i]].name : i \in 1..Len(s) - 1 } |->
     s[CHOOSE i \in DOMAIN s : names[s[i]].name = n]]
MapOf(s, names) ==
  [n \in { names[s[i]].name : i \in DOMAIN s } |->
     s[CHOOSE i \in DOMAIN s : /\ names[s[i]].name = n
                               /\ \A j \in 1..(i - 1) : names[s[j]].name # n]]

-----------------------------------------------------------------------------

Init ==
  /\ chain = Empty /\ parent = Empty /\ base = Empty /\ cell = Empty
  /\ index = Empty /\ tree = Empty /\ held = {}

Make(h, p, b) ==
  /\ chain'  = With(chain, h, <<>>)
  /\ parent' = With(parent, h, p)
  /\ base'   = With(base, h, b)
  /\ held'   = held \cup {h}
  /\ UNCHANGED <<cell, index, tree>>

(* push_root: a root frame, before there is a base for it.                 *)
PushRoot == \E h \in Holder \ Frame : Make(h, Nil, Nil)

(* push: a frame under p, serving p's base.                                *)
Push == \E h \in Holder \ Frame, p \in Reach : Make(h, p, base[p])

(* The base built around a root frame: the frame is stamped with it, and   *)
(* what was bound before the base existed is put into its tree.            *)
SetBase ==
  /\ \E h \in Reach, b \in Base \ DOMAIN tree :
       /\ IsRoot(h) /\ base[h] = Nil
       /\ base' = [base EXCEPT ![h] = b]
       /\ tree' = With(tree, b, Backfill(Empty, cell, chain[h]))
  /\ UNCHANGED <<chain, parent, cell, index, held>>

Rebind(h, n, v) ==
  /\ \E c \in Find(h, n) : cell' = [cell EXCEPT ![c].val = v]
  /\ UNCHANGED <<chain, index, tree>>

NewCell(h, n, v) ==
  \E c \in Cell \ DOMAIN cell :
    /\ Find(h, n) = {}
    /\ cell' = With(cell, c, [name |-> n, val |-> v])
    /\ chain' = [chain EXCEPT ![h] = <<c>> \o @]
    /\ tree' = IF IsRoot(h) /\ base[h] # Nil
                 THEN [tree EXCEPT ![base[h]] = TreeInsert(@, cell', c)]
                 ELSE tree
    /\ index' = IF h \in DOMAIN index THEN [index EXCEPT ![h] = With(@, n, c)]
                ELSE IF Len(chain'[h]) > IndexAt THEN With(index, h, MapOf(chain'[h], cell'))
                ELSE index

(* bind: what `def', a parameter, a guard's condition and `base bind' do.  *)
Bind ==
  /\ \E h \in Reach, n \in Name, v \in Value : Rebind(h, n, v) \/ NewCell(h, n, v)
  /\ UNCHANGED <<parent, base, held>>

(* set_existing: the innermost frame outward from h that has the name.     *)
SetExisting ==
  /\ \E h \in Reach, n \in Name, v \in Value :
       \E g \in Outward(h) \cap Frame :
         /\ \A f \in Outward(h) : Find(f, n) # {} => g \in Outward(f)
         /\ Rebind(g, n, v)
  /\ UNCHANGED <<parent, base, held>>

(* The library writes a cell it reached through a base's tree.             *)
WriteThroughTree ==
  /\ \E h \in Reach, v \in Value :
       /\ base[h] # Nil
       /\ \E p \in DOMAIN tree[base[h]] : cell' = [cell EXCEPT ![tree[base[h]][p]].val = v]
  /\ UNCHANGED <<chain, parent, base, index, tree, held>>

Drop ==
  /\ \E h \in held : held' = held \ {h}
  /\ UNCHANGED <<chain, parent, base, cell, index, tree>>

(* A collection frees the holders out of reach with their cells and bases, *)
(* and forgets the maps kept under their addresses.                        *)
LiveCells == UNION { ToSet(chain[h]) : h \in Reach }
PurgedNothing == index                      \* mutant: maps outlive their holders
Purged == Restrict(index, DOMAIN index \cap Reach)
Collect ==
  /\ chain'  = Restrict(chain, Reach)
  /\ parent' = Restrict(parent, Reach)
  /\ base'   = Restrict(base, Reach)
  /\ cell'   = Restrict(cell, LiveCells \cap DOMAIN cell)
  /\ tree'   = Restrict(tree, { b \in DOMAIN tree : \E h \in Reach : base[h] = b })
  /\ index'  = Purged
  /\ UNCHANGED held

Next ==
  \/ PushRoot \/ Push \/ SetBase \/ Bind \/ SetExisting
  \/ WriteThroughTree \/ Drop \/ Collect

Spec == Init /\ [][Next]_vars

-----------------------------------------------------------------------------
(* Each part of the state is of its kind.                                  *)
TypeOK ==
  /\ Frame \subseteq Holder /\ held \subseteq Frame
  /\ chain \in [Frame -> Seq(DOMAIN cell)]
  /\ parent \in [Frame -> Frame \cup {Nil}]
  /\ base \in [Frame -> Base \cup {Nil}]
  /\ DOMAIN cell \subseteq Cell
  /\ cell \in [DOMAIN cell -> [name : Name, val : Value]]
  /\ DOMAIN index \subseteq Frame
  /\ \A h \in DOMAIN index : /\ DOMAIN index[h] \subseteq Name
                             /\ index[h] \in [DOMAIN index[h] -> DOMAIN cell]
  /\ DOMAIN tree \subseteq Base
  /\ \A h \in Frame : base[h] # Nil => base[h] \in DOMAIN tree

(* No frame has two cells for a name: rebinding updates in place, also     *)
(* across the moment a frame starts to be found through its map.           *)
NamesAreUnique ==
  \A h \in Frame : \A i, j \in DOMAIN chain[h] :
    cell[chain[h][i]].name = cell[chain[h][j]].name => i = j

(* "a cache over the chain -- every write path updates both" (env.rs:17):  *)
(* a map has exactly the names of its chain, each with the chain's cell.   *)
MapsMirrorChains ==
  \A h \in DOMAIN index :
    /\ \A i \in DOMAIN chain[h] :
         /\ cell[chain[h][i]].name \in DOMAIN index[h]
         /\ index[h][cell[chain[h][i]].name] = chain[h][i]
    /\ \A n \in DOMAIN index[h] :
         \E i \in DOMAIN chain[h] : index[h][n] = chain[h][i] /\ cell[chain[h][i]].name = n

(* The frames that have a map are those longer than IndexAt: a frame that  *)
(* is allocated where a grown one died does not inherit its map.           *)
GrownFramesAreMapped == DOMAIN index = { h \in Frame : Len(chain[h]) > IndexAt }

ViewsAgree == NamesAreUnique /\ GrownFramesAreMapped /\ MapsMirrorChains

(* A walker that goes by the order of the words finds every node: what is  *)
(* below a node on its left is less, and on its right greater.             *)
TreeIsOrdered ==
  \A b \in DOMAIN tree : \A p, q \in DOMAIN tree[b] :
    LET key(r) == cell[tree[b][r]].name
    IN  /\ IsPrefix(Append(p, "left"), q)  => key(q) < key(p)
        /\ IsPrefix(Append(p, "right"), q) => key(q) > key(p)

(* The tree of a base holds the cells of its root frame, those bound       *)
(* before the base was built and since, and no others.                     *)
TreeMirrorsRoot ==
  /\ \A h \in Frame : IsRoot(h) /\ base[h] # Nil => Range(tree[base[h]]) = ToSet(chain[h])
  /\ TreeIsOrdered

(* The cells as a program sees them, through lookup, are maps in frames.   *)
Scope ==
  [h \in Frame |->
     [n \in { m \in Name : Find(h, m) # {} } |->
        CHOOSE v \in Value : \E c \in Find(h, n) : cell[c].val = v]]
Abstract == INSTANCE Scopes WITH scope <- Scope
ImplementsScopes == Abstract!Spec
=============================================================================
