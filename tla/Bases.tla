-------------------------------- MODULE Bases --------------------------------
(***************************************************************************)
(* Bases and their symbol tables: make_base, in_base, the two-level        *)
(* interning of Objects::sym, and the collector's part in it.              *)
(*                                                                         *)
(* Every base interns for itself, but there is one table that is looked    *)
(* into, Objects.symbols.  in_base puts the table of the base it enters    *)
(* there and takes the other out: a base that has run keeps its table in   *)
(* Engine.base_syms, and one that waits for its child keeps it in a Rust   *)
(* local of in_base -- where no collection looks.                          *)
(***************************************************************************)
EXTENDS Naturals, SequencesExt

CONSTANTS
  Base,        (* addresses of base objects                                *)
  Sym,         (* addresses of symbol objects                              *)
  Spelling,    (* the names a program reads                                *)
  Shared,      (* those of them that are instruction names                 *)
  MaxNest,     (* bound: in_base calls in progress                         *)
  ReenterBases,      (* may a base be entered that waits for its child?    *)
  CollectInChildren  (* may a collection run while a base waits?           *)

ASSUME BaseAssumption    == Base # {}
ASSUME SharedAssumption  == Shared \subseteq Spelling /\ MaxNest \in Nat
ASSUME ProgramAssumption == ReenterBases \in BOOLEAN /\ CollectInChildren \in BOOLEAN

VARIABLES
  bases,     (* the allocated base objects                                 *)
  alive,     (* the allocated symbol objects                               *)
  shared,    (* Objects.shared_symbols                                     *)
  active,    (* Objects.symbols                                            *)
  parked,    (* Engine.base_syms                                           *)
  current,   (* Engine.base, and Objects.base                              *)
  nodes,     (* the base whose rows Objects.state_nodes and loc_nodes name *)
  nest,      (* what each in_base call holds; its bases are base_stack     *)
  held,      (* the symbols the program holds, in bindings and values      *)
  kept,      (* the bases it holds                                         *)
  origin     (* history: the base and the spelling a symbol was made for   *)

running == <<current, nodes, nest>>
objects == <<bases, alive, origin>>
program == <<held, kept>>
vars    == <<objects, shared, active, parked, running, program>>

Table  == UNION { [S -> Sym] : S \in SUBSET Spelling }
NoName == <<>>
Empty  == [s \in {} |-> {}]
Symbols(t) == { t[s] : s \in DOMAIN t }

(* A map with an entry more, or another in its place.                      *)
With(f, x, y) == [z \in DOMAIN f \cup {x} |-> IF z = x THEN y ELSE f[z]]

TypeOK ==
  /\ bases \subseteq Base /\ alive \subseteq Sym
  /\ shared \in [Shared -> Sym]
  /\ active \in Table
  /\ DOMAIN parked \subseteq Base /\ \A b \in DOMAIN parked : parked[b] \in Table
  /\ current \in Base /\ nodes \in Base
  /\ nest \in Seq([base : Base, nodes : Base, table : Table])
  /\ held \subseteq Sym /\ kept \subseteq Base
  /\ origin \in [Sym -> (Base \X Spelling) \cup {NoName}]

(* Engine.base_stack: the bases that wait for a child.                     *)
Waiting == { nest[i].base : i \in DOMAIN nest }
Reach   == {current} \cup Waiting \cup kept

(* Engine::new: the instruction names are interned, then the engine's own  *)
(* base is made as any other is, an empty table parked under it and all.   *)
Init ==
  /\ current \in Base /\ nodes = current /\ nest = <<>>
  /\ bases = {current}
  /\ shared \in [Shared -> Sym]
  /\ \A s, t \in Shared : shared[s] = shared[t] => s = t
  /\ alive = Symbols(shared)
  /\ active = Empty /\ parked = [b \in {current} |-> Empty]
  /\ held = {} /\ kept = {}
  /\ origin = [o \in Sym |-> NoName]

-----------------------------------------------------------------------------

(* make_base and make_tok: a base interns for itself, from empty.          *)
MakeBase ==
  /\ \E b \in Base \ bases :
       /\ bases' = bases \cup {b}
       /\ parked' = With(parked, b, Empty)
       /\ kept' = kept \cup {b}
  /\ UNCHANGED <<alive, origin, shared, active, running, held>>

(* in_base, on the way in.  For the base that is running it does nothing.  *)
EnterBase ==
  /\ Len(nest) < MaxNest
  /\ \E b \in Reach \ {current} :
       /\ b \in Waiting => ReenterBases
       /\ active' = IF b \in DOMAIN parked THEN parked[b] ELSE Empty
       /\ parked' = [c \in DOMAIN parked \ {b} |-> parked[c]]
       /\ nest' = Append(nest, [base |-> current, nodes |-> nodes, table |-> active])
       /\ current' = b /\ nodes' = b
  /\ UNCHANGED <<objects, shared, program>>

(* Mutant: the rows stay with the child.                                   *)
KeepNodes ==
  /\ nest # <<>>
  /\ current' = Last(nest).base
  /\ nest' = Front(nest)
  /\ active' = Last(nest).table
  /\ parked' = With(parked, current, active)
  /\ UNCHANGED <<objects, shared, program, nodes>>

(* in_base, on the way out, whether the child answered or raised.          *)
LeaveBase ==
  /\ nest # <<>>
  /\ current' = Last(nest).base
  /\ nodes' = Last(nest).nodes
  /\ nest' = Front(nest)
  /\ active' = Last(nest).table
  /\ parked' = With(parked, current, active)
  /\ UNCHANGED <<objects, shared, program>>

(* The symbol stays with the program, or it was only read.                 *)
Takes(o) == held' \in {held, held \cup {o}}

(* Mutant: only the table of the base is looked into.                      *)
InternUnshared ==
  /\ \E s \in Spelling :
       IF s \in DOMAIN active
       THEN Takes(active[s]) /\ UNCHANGED <<alive, active, origin>>
       ELSE \E o \in Sym \ alive :
              /\ alive' = alive \cup {o}
              /\ active' = With(active, s, o)
              /\ origin' = [origin EXCEPT ![o] = <<current, s>>]
              /\ Takes(o)
  /\ UNCHANGED <<bases, shared, parked, running, kept>>

(* Objects::sym: the instruction names, then the running base's own table, *)
(* then a new symbol in that.                                              *)
Known == [s \in DOMAIN shared \cup DOMAIN active |->
            IF s \in DOMAIN shared THEN shared[s] ELSE active[s]]
Intern ==
  /\ \E s \in Spelling :
       IF s \in DOMAIN Known
       THEN Takes(Known[s]) /\ UNCHANGED <<alive, active, origin>>
       ELSE \E o \in Sym \ alive :
              /\ alive' = alive \cup {o}
              /\ active' = With(active, s, o)
              /\ origin' = [origin EXCEPT ![o] = <<current, s>>]
              /\ Takes(o)
  /\ UNCHANGED <<bases, shared, parked, running, kept>>

(* The program lets a symbol go, and picks up or lets go of bases: its own *)
(* through (%base), another's through what that handed it.                 *)
Drop ==
  /\ \E o \in held : held' = held \ {o}
  /\ UNCHANGED <<objects, shared, active, parked, running, kept>>

Hold ==
  /\ kept' \in SUBSET Reach
  /\ UNCHANGED <<objects, shared, active, parked, running, held>>

(* Mutant: root_set without the tables of the bases that are not running.  *)
RootsOfRunning ==
  Symbols(shared) \cup Symbols(active) \cup held

(* root_set: the two tables that are looked into, those of base_syms, and  *)
(* what the program holds.                                                 *)
SymbolRoots ==
  Symbols(shared) \cup Symbols(active) \cup held
    \cup UNION { Symbols(parked[b]) : b \in DOMAIN parked }

(* collect, as far as symbols and bases go; base_syms is purged of the     *)
(* bases it freed.                                                         *)
Collect ==
  /\ nest # <<>> => CollectInChildren
  /\ bases' = Reach
  /\ alive' = alive \cap SymbolRoots
  /\ parked' = [b \in DOMAIN parked \cap Reach |-> parked[b]]
  /\ origin' = [o \in Sym |-> IF o \in alive' /\ origin[o] # NoName /\ origin[o][1] \in Reach
                              THEN origin[o] ELSE NoName]
  /\ UNCHANGED <<shared, active, running, program>>

Next == MakeBase \/ EnterBase \/ LeaveBase \/ Intern \/ Drop \/ Hold \/ Collect

Spec == Init /\ [][Next]_vars

-----------------------------------------------------------------------------
(* Properties.                                                             *)

(* "It should make at most one per spelling" (symbols.rs): of the symbols  *)
(* a program holds, no two are the same spelling read in the same base.    *)
OneSymbolPerSpelling ==
  \A o, p \in held : origin[o] = origin[p] /\ origin[o] # NoName => o = p

(* "The two contexts have to agree on what the symbol `answer' is"         *)
(* (symbols.rs): one spelling is one symbol whatever base it was read in.  *)
OneSymbolAcrossBases ==
  \A o, p \in held :
    NoName \notin {origin[o], origin[p]} /\ origin[o][2] = origin[p][2] => o = p

(* "Every interned symbol -- all of them are roots" (symbols.rs): whatever *)
(* a table answers, now or when its base runs again, is a symbol that was  *)
(* not collected.                                                          *)
InternedSymbolsLive ==
  Symbols(active) \cup UNION { Symbols(nest[i].table) : i \in DOMAIN nest } \subseteq alive

(* The engine's picture of the base that runs is of one base: the rows     *)
(* (saves, handlers, parked tail, line) are those of the current base, and *)
(* it and all that wait for it are still allocated.                        *)
OneContext ==
  /\ nodes = current
  /\ \A i \in DOMAIN nest : nest[i].nodes = nest[i].base
  /\ {current} \cup Waiting \subseteq bases

(* Swapping, parking and collecting are invisible: each base is the        *)
(* dictionary of its own that Interning says it is.                        *)
TableOf(b) ==
  IF b = current THEN active
  ELSE IF b \in Waiting THEN nest[CHOOSE i \in DOMAIN nest : nest[i].base = b].table
  ELSE parked[b]

Dictionaries == INSTANCE Interning WITH
  running <- Append([i \in DOMAIN nest |-> nest[i].base], current),
  names   <- [b \in Reach |-> TableOf(b)]

ImplementsInterning == Dictionaries!Spec
=============================================================================
