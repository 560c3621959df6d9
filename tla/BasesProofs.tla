------------------------------ MODULE BasesProofs ------------------------------
(***************************************************************************)
(* For every number of bases, symbols and spellings and every depth of     *)
(* in_base: the symbols a table answers are allocated, the engine's        *)
(* picture of the running base is of one base, and each base is the        *)
(* dictionary of its own that Interning says it is.                        *)
(***************************************************************************)
EXTENDS Bases, Lemmas

Call == [base : Base, nodes : Base, table : Table]

(* Every symbol that a table answers, in whatever base, or that the        *)
(* program holds is allocated.                                             *)
KnownSymbolsLive ==
  /\ Symbols(shared) \subseteq alive
  /\ Symbols(active) \subseteq alive
  /\ held \subseteq alive
  /\ \A b \in DOMAIN parked : Symbols(parked[b]) \subseteq alive
  /\ \A i \in DOMAIN nest : Symbols(nest[i].table) \subseteq alive

(* No base runs twice, and one that can be entered has its table parked.   *)
BasesRunOnce ==
  /\ \A i \in DOMAIN nest : nest[i].base # current
  /\ \A i, j \in DOMAIN nest : nest[i].base = nest[j].base => i = j
TablesAreKept == kept \subseteq {current} \cup Waiting \cup DOMAIN parked

(* What is in reach is allocated.                                          *)
ReachIsAllocated == Reach \subseteq bases

(* The inductive invariants: of every program, of one that collects only   *)
(* while no base waits, and of one that enters no base that waits.         *)
Context == TypeOK /\ OneContext /\ ReachIsAllocated
Apart   == BasesRunOnce /\ TablesAreKept

-----------------------------------------------------------------------------
(* Tables.                                                                 *)

LEMMA EmptyTable == Empty \in Table /\ Symbols(Empty) = {}
<1>1. Empty \in [{} -> Sym] BY DEF Empty
<1> QED BY <1>1 DEF Table, Empty, Symbols

(* A new symbol adds one entry to a table.                                 *)
LEMMA ExtendTable ==
  ASSUME NEW t \in Table, NEW s \in Spelling, NEW o \in Sym, s \notin DOMAIN t
  PROVE  /\ With(t, s, o) \in Table
         /\ Symbols(With(t, s, o)) = Symbols(t) \cup {o}
<1>1. PICK S \in SUBSET Spelling : t \in [S -> Sym] BY DEF Table
<1>2. PICK u : u = With(t, s, o) OBVIOUS
<1>3. u \in [S \cup {s} -> Sym] BY <1>1, <1>2 DEF With
<1>4. u \in Table BY <1>3 DEF Table
<1>5. Symbols(u) = Symbols(t) \cup {o} BY <1>1, <1>2 DEF Symbols, With
<1> QED BY <1>2, <1>4, <1>5

(* Calls of in_base begin and end.                                         *)
LEMMA NestGrows ==
  ASSUME TypeOK, NEW c \in Call, nest' = Append(nest, c)
  PROVE  /\ nest' \in Seq(Call)
         /\ DOMAIN nest' = DOMAIN nest \cup {Len(nest) + 1}
         /\ Len(nest) + 1 \notin DOMAIN nest
         /\ nest'[Len(nest) + 1] = c
         /\ \A i \in DOMAIN nest : nest'[i] = nest[i]
         /\ Len(nest) \in Nat /\ Len(nest') = Len(nest) + 1
<1>1. nest \in Seq(Call) BY DEF TypeOK, Call
<1>2. /\ nest' \in Seq(Call) /\ Len(nest) \in Nat /\ Len(nest') = Len(nest) + 1
      /\ DOMAIN nest' = 1 .. Len(nest) + 1 /\ DOMAIN nest = 1 .. Len(nest)
      /\ \A i \in 1 .. Len(nest) : nest'[i] = nest[i]
      /\ nest'[Len(nest) + 1] = c
  BY <1>1, Pushed
<1> QED BY <1>2

LEMMA NestShrinks ==
  ASSUME TypeOK, nest # <<>>, nest' = Front(nest)
  PROVE  /\ nest' \in Seq(Call)
         /\ Len(nest) \in DOMAIN nest
         /\ DOMAIN nest' = DOMAIN nest \ {Len(nest)}
         /\ \A i \in DOMAIN nest' : nest'[i] = nest[i]
         /\ Last(nest) = nest[Len(nest)] /\ Last(nest) \in Call
<1>1. nest \in Seq(Call) BY DEF TypeOK, Call
<1>2. /\ Len(nest) \in Nat \ {0} /\ DOMAIN nest = 1 .. Len(nest)
      /\ Front(nest) \in Seq(Call) /\ DOMAIN Front(nest) = 1 .. Len(nest) - 1
      /\ \A i \in 1 .. Len(nest) - 1 : Front(nest)[i] = nest[i]
      /\ Last(nest) = nest[Len(nest)] /\ Last(nest) \in Call
  BY <1>1, FrontAndLast
<1> QED BY <1>2

-----------------------------------------------------------------------------
(* The steps.                                                              *)

LEMMA InvInit == Init => Context /\ KnownSymbolsLive /\ Apart
<1> SUFFICES ASSUME Init PROVE Context /\ KnownSymbolsLive /\ Apart
  OBVIOUS
<1>1. Waiting = {} /\ DOMAIN nest = {} BY DEF Init, Waiting
<1>2. TypeOK
  <2>1. nest \in Seq(Call) BY DEF Init
  <2>2. Symbols(shared) \subseteq Sym BY DEF Init, Symbols
  <2> QED BY <2>1, <2>2, EmptyTable DEF Init, TypeOK, Call
<1>3. KnownSymbolsLive BY <1>1, EmptyTable DEF Init, KnownSymbolsLive
<1> QED
  BY <1>1, <1>2, <1>3 DEF Init, Context, Apart, OneContext, ReachIsAllocated, Reach,
                          BasesRunOnce, TablesAreKept

LEMMA MakeBaseInv ==
  ASSUME Context, MakeBase
  PROVE  /\ Context'
         /\ KnownSymbolsLive => KnownSymbolsLive'
         /\ Apart => Apart'
<1> USE DEF Context, Apart
<1>1. PICK b \in Base \ bases :
        /\ bases' = bases \cup {b}
        /\ parked' = With(parked, b, Empty)
        /\ kept' = kept \cup {b}
  BY DEF MakeBase
<1>2. UNCHANGED <<alive, origin, shared, active, current, nodes, nest, held>>
  BY DEF MakeBase, running
<1>3. /\ DOMAIN parked' = DOMAIN parked \cup {b}
      /\ \A c \in DOMAIN parked : parked'[c] \in {parked[c], Empty}
      /\ parked'[b] = Empty
  BY <1>1 DEF With
<1>4. Waiting' = Waiting BY <1>2 DEF Waiting
<1>5. TypeOK' BY <1>1, <1>2, <1>3, EmptyTable DEF TypeOK
<1>6. KnownSymbolsLive => KnownSymbolsLive' BY <1>2, <1>3, EmptyTable DEF KnownSymbolsLive
<1>7. OneContext' /\ ReachIsAllocated'
  BY <1>1, <1>2, <1>4 DEF OneContext, ReachIsAllocated, Reach
<1>8. BasesRunOnce => BasesRunOnce' BY <1>2 DEF BasesRunOnce
<1>9. TablesAreKept => TablesAreKept' BY <1>1, <1>2, <1>3, <1>4 DEF TablesAreKept
<1> QED BY <1>5, <1>6, <1>7, <1>8, <1>9

LEMMA EnterBaseInv ==
  ASSUME Context, EnterBase
  PROVE  /\ Context'
         /\ KnownSymbolsLive => KnownSymbolsLive'
         /\ ~ReenterBases /\ Apart => Apart'
<1> USE DEF Context, Apart
<1>1. PICK b \in Reach \ {current} :
        /\ b \in Waiting => ReenterBases
        /\ active' = IF b \in DOMAIN parked THEN parked[b] ELSE Empty
        /\ parked' = [c \in DOMAIN parked \ {b} |-> parked[c]]
        /\ nest' = Append(nest, [base |-> current, nodes |-> nodes, table |-> active])
        /\ current' = b /\ nodes' = b
  BY DEF EnterBase
<1>2. UNCHANGED <<bases, alive, origin, shared, held, kept>>
  BY DEF EnterBase, objects, program
<1>4. /\ nest' \in Seq(Call)
      /\ DOMAIN nest' = DOMAIN nest \cup {Len(nest) + 1}
      /\ Len(nest) + 1 \notin DOMAIN nest
      /\ nest'[Len(nest) + 1] = [base |-> current, nodes |-> nodes, table |-> active]
      /\ \A i \in DOMAIN nest : nest'[i] = nest[i]
  <2>1. [base |-> current, nodes |-> nodes, table |-> active] \in Call BY DEF TypeOK, Call
  <2> QED BY <1>1, <2>1, NestGrows
<1>5. Waiting' = Waiting \cup {current} BY <1>4 DEF Waiting
<1>6. Reach' = Reach BY <1>1, <1>2, <1>5 DEF Reach
<1>7. b \in Base BY <1>1 DEF TypeOK, ReachIsAllocated
<1>8. TypeOK' BY <1>1, <1>2, <1>4, <1>7, EmptyTable DEF TypeOK, Call
<1>9. KnownSymbolsLive => KnownSymbolsLive' BY <1>1, <1>2, <1>4, EmptyTable DEF KnownSymbolsLive
<1>10. OneContext'
  BY <1>1, <1>2, <1>4, <1>5, <1>6 DEF OneContext, ReachIsAllocated, Reach
<1>11. ReachIsAllocated' BY <1>2, <1>6 DEF ReachIsAllocated
<1>12. ~ReenterBases /\ BasesRunOnce => BasesRunOnce'
  <2> SUFFICES ASSUME ~ReenterBases, BasesRunOnce PROVE BasesRunOnce'
    OBVIOUS
  <2>1. \A i \in DOMAIN nest : nest[i].base # b BY <1>1 DEF Waiting
  <2> QED BY <1>1, <1>4, <2>1 DEF BasesRunOnce
<1>13. TablesAreKept => TablesAreKept' BY <1>1, <1>2, <1>5 DEF TablesAreKept
<1> QED BY <1>8, <1>9, <1>10, <1>11, <1>12, <1>13

LEMMA LeaveBaseInv ==
  ASSUME Context, LeaveBase
  PROVE  /\ Context'
         /\ KnownSymbolsLive => KnownSymbolsLive'
         /\ Apart => Apart'
<1> USE DEF Context, Apart
<1>1. /\ nest # <<>> /\ nest' = Front(nest)
      /\ current' = Last(nest).base /\ nodes' = Last(nest).nodes
      /\ active' = Last(nest).table /\ parked' = With(parked, current, active)
      /\ UNCHANGED <<bases, alive, origin, shared, held, kept>>
  BY DEF LeaveBase, objects, program
<1>2. /\ nest' \in Seq(Call)
      /\ Len(nest) \in DOMAIN nest
      /\ DOMAIN nest' = DOMAIN nest \ {Len(nest)}
      /\ \A i \in DOMAIN nest' : nest'[i] = nest[i]
      /\ Last(nest) = nest[Len(nest)] /\ Last(nest) \in Call
  BY <1>1, NestShrinks
<1>3. Waiting = Waiting' \cup {current'} BY <1>1, <1>2 DEF Waiting
<1>4. /\ DOMAIN parked' = DOMAIN parked \cup {current}
      /\ \A c \in DOMAIN parked : parked'[c] \in {parked[c], active}
      /\ parked'[current] = active
  BY <1>1 DEF With
<1>5. TypeOK' BY <1>1, <1>2, <1>4 DEF TypeOK, Call
<1>6. KnownSymbolsLive => KnownSymbolsLive' BY <1>1, <1>2, <1>4 DEF KnownSymbolsLive
<1>7. OneContext' BY <1>1, <1>2, <1>3 DEF OneContext
<1>8. ReachIsAllocated' BY <1>1, <1>3 DEF ReachIsAllocated, Reach
<1>9. BasesRunOnce => BasesRunOnce' BY <1>1, <1>2 DEF BasesRunOnce
<1>10. TablesAreKept => TablesAreKept' BY <1>1, <1>3, <1>4 DEF TablesAreKept
<1> QED BY <1>5, <1>6, <1>7, <1>8, <1>9, <1>10

LEMMA InternInv ==
  ASSUME Context, Intern
  PROVE  /\ Context'
         /\ KnownSymbolsLive => KnownSymbolsLive'
         /\ Apart => Apart'
<1> USE DEF Context, Apart
<1>1. UNCHANGED <<bases, shared, parked, current, nodes, nest, kept>>
  BY DEF Intern, running
<1>2. Waiting' = Waiting /\ Reach' = Reach BY <1>1 DEF Waiting, Reach
<1>3. /\ OneContext' /\ ReachIsAllocated'
      /\ BasesRunOnce /\ TablesAreKept => BasesRunOnce' /\ TablesAreKept'
  BY <1>1, <1>2 DEF OneContext, ReachIsAllocated, BasesRunOnce, TablesAreKept
<1>4. PICK s \in Spelling :
        IF s \in DOMAIN Known
        THEN Takes(Known[s]) /\ UNCHANGED <<alive, active, origin>>
        ELSE \E o \in Sym \ alive :
               /\ alive' = alive \cup {o}
               /\ active' = With(active, s, o)
               /\ origin' = [origin EXCEPT ![o] = <<current, s>>]
               /\ Takes(o)
  BY DEF Intern
<1>5. CASE s \in DOMAIN Known
  <2>1. UNCHANGED <<alive, active, origin>> /\ held' \subseteq held \cup {Known[s]}
    BY <1>4, <1>5 DEF Takes
  <2>2. Known[s] \in Symbols(shared) \cup Symbols(active)
    BY <1>5 DEF Known, Symbols
  <2>3. Symbols(shared) \cup Symbols(active) \subseteq Sym
    BY DEF TypeOK, Table, Symbols
  <2>4. TypeOK' BY <1>1, <2>1, <2>2, <2>3 DEF TypeOK
  <2>5. KnownSymbolsLive => KnownSymbolsLive' BY <1>1, <2>1, <2>2 DEF KnownSymbolsLive
  <2> QED BY <1>3, <2>4, <2>5
<1>6. CASE s \notin DOMAIN Known
  <2>1. PICK o \in Sym \ alive :
          /\ alive' = alive \cup {o}
          /\ active' = With(active, s, o)
          /\ origin' = [origin EXCEPT ![o] = <<current, s>>]
          /\ Takes(o)
    BY <1>4, <1>6
  <2>2. s \notin DOMAIN active BY <1>6 DEF Known
  <2>3. active' \in Table /\ Symbols(active') = Symbols(active) \cup {o}
    BY <2>1, <2>2, ExtendTable DEF TypeOK
  <2>4. held' \subseteq held \cup {o} BY <2>1 DEF Takes
  <2>5. TypeOK' BY <1>1, <2>1, <2>3, <2>4 DEF TypeOK
  <2>6. KnownSymbolsLive => KnownSymbolsLive'
    BY <1>1, <2>1, <2>3, <2>4 DEF KnownSymbolsLive
  <2> QED BY <1>3, <2>5, <2>6
<1> QED BY <1>5, <1>6

LEMMA HoldInv ==
  ASSUME Context, Drop \/ Hold
  PROVE  /\ Context'
         /\ KnownSymbolsLive => KnownSymbolsLive'
         /\ Apart => Apart'
<1> USE DEF Context, Apart
<1>1. UNCHANGED <<bases, alive, origin, shared, active, parked, current, nodes, nest>>
  BY DEF Drop, Hold, objects, running
<1>2. held' \subseteq held /\ kept' \subseteq Reach
  BY DEF Drop, Hold, Reach
<1>3. Waiting' = Waiting BY <1>1 DEF Waiting
<1>4. Reach' \subseteq Reach BY <1>1, <1>2, <1>3 DEF Reach
<1>5. TypeOK' BY <1>1, <1>2 DEF TypeOK, ReachIsAllocated
<1>6. KnownSymbolsLive => KnownSymbolsLive' BY <1>1, <1>2 DEF KnownSymbolsLive
<1>7. OneContext' /\ ReachIsAllocated' BY <1>1, <1>3, <1>4 DEF OneContext, ReachIsAllocated
<1>8. BasesRunOnce => BasesRunOnce' BY <1>1 DEF BasesRunOnce
<1>9. TablesAreKept => TablesAreKept' BY <1>1, <1>2, <1>3 DEF TablesAreKept, Reach
<1> QED BY <1>5, <1>6, <1>7, <1>8, <1>9

LEMMA CollectInv ==
  ASSUME Context, Collect
  PROVE  /\ Context'
         /\ ~CollectInChildren /\ KnownSymbolsLive => KnownSymbolsLive'
         /\ Apart => Apart'
<1> USE DEF Context, Apart
<1>1. UNCHANGED <<shared, active, current, nodes, nest, held, kept>>
  BY DEF Collect, running, program
<1>2. /\ bases' = Reach
      /\ alive' = alive \cap SymbolRoots
      /\ parked' = [b \in DOMAIN parked \cap Reach |-> parked[b]]
      /\ origin' = [o \in Sym |-> IF o \in alive' /\ origin[o] # NoName /\ origin[o][1] \in Reach
                                  THEN origin[o] ELSE NoName]
      /\ nest # <<>> => CollectInChildren
  BY DEF Collect
<1>3. Waiting' = Waiting /\ Reach' = Reach
  BY <1>1, <1>2 DEF Waiting, Reach
<1>4. /\ DOMAIN parked' = DOMAIN parked \cap Reach
      /\ \A b \in DOMAIN parked' : parked'[b] = parked[b]
  BY <1>2
<1>5. TypeOK'
  <2>1. origin' \in [Sym -> (Base \X Spelling) \cup {NoName}] BY <1>2 DEF TypeOK
  <2>2. alive' \subseteq Sym /\ bases' \subseteq Base BY <1>2 DEF TypeOK, ReachIsAllocated
  <2>3. DOMAIN parked' \subseteq Base /\ \A b \in DOMAIN parked' : parked'[b] \in Table
    BY <1>4 DEF TypeOK
  <2> QED BY <1>1, <2>1, <2>2, <2>3 DEF TypeOK
<1>6. ~CollectInChildren /\ KnownSymbolsLive => KnownSymbolsLive'
  <2> SUFFICES ASSUME ~CollectInChildren, KnownSymbolsLive PROVE KnownSymbolsLive'
    OBVIOUS
  <2>1. \A b \in DOMAIN parked : Symbols(parked[b]) \subseteq SymbolRoots
    BY DEF SymbolRoots
  <2>2. DOMAIN nest = {} BY <1>2
  <2> QED BY <1>1, <1>2, <1>4, <2>1, <2>2 DEF KnownSymbolsLive, SymbolRoots
<1>7. OneContext' /\ ReachIsAllocated'
  BY <1>1, <1>2, <1>3 DEF OneContext, ReachIsAllocated, Reach
<1>8. BasesRunOnce => BasesRunOnce' BY <1>1 DEF BasesRunOnce
<1>9. TablesAreKept => TablesAreKept' BY <1>1, <1>3, <1>4 DEF TablesAreKept, Reach
<1> QED BY <1>5, <1>6, <1>7, <1>8, <1>9

LEMMA StutterInv ==
  ASSUME Context, UNCHANGED vars
  PROVE  /\ Context'
         /\ KnownSymbolsLive => KnownSymbolsLive'
         /\ Apart => Apart'
<1>1. UNCHANGED <<bases, alive, origin, shared, active, parked, current, nodes, nest, held, kept>>
  BY DEF vars, objects, running, program
<1>2. Waiting' = Waiting /\ Reach' = Reach BY <1>1 DEF Waiting, Reach
<1> QED
  BY <1>1, <1>2 DEF Context, Apart, TypeOK, OneContext, ReachIsAllocated, KnownSymbolsLive,
                    BasesRunOnce, TablesAreKept

(* A step of any kind.                                                     *)
LEMMA InvNext ==
  ASSUME Context, [Next]_vars
  PROVE  /\ Context'
         /\ ~CollectInChildren /\ KnownSymbolsLive => KnownSymbolsLive'
         /\ ~ReenterBases /\ Apart => Apart'
<1>1. CASE UNCHANGED vars BY <1>1, StutterInv
<1>2. CASE MakeBase BY <1>2, MakeBaseInv
<1>3. CASE EnterBase BY <1>3, EnterBaseInv
<1>4. CASE LeaveBase BY <1>4, LeaveBaseInv
<1>5. CASE Intern BY <1>5, InternInv
<1>6. CASE Drop \/ Hold BY <1>6, HoldInv
<1>7. CASE Collect BY <1>7, CollectInv
<1> QED BY <1>1, <1>2, <1>3, <1>4, <1>5, <1>6, <1>7 DEF Next

(* What holds of every program.                                            *)
THEOREM ContextInductive == Spec => []Context
BY InvInit, InvNext, PTL DEF Spec

(* The variables keep their types, whatever base is entered when.          *)
THEOREM TypeCorrect == Spec => []TypeOK
BY ContextInductive, PTL DEF Context

(* The rows in use are those of the running base, and it and every base    *)
(* that waits are allocated: collections and re-entry notwithstanding.     *)
THEOREM ContextIsOne == Spec => []OneContext
BY ContextInductive, PTL DEF Context

(* "Every interned symbol" is a root (symbols.rs): if no collection runs   *)
(* while a base waits, no table, in use or waiting, answers a collected    *)
(* symbol.                                                                 *)
THEOREM SymbolsAreRoots ==
  ASSUME ~CollectInChildren PROVE Spec => []InternedSymbolsLive
<1>1. Context /\ KnownSymbolsLive /\ [Next]_vars => KnownSymbolsLive'
  BY InvNext
<1>2. KnownSymbolsLive => InternedSymbolsLive
  BY DEF KnownSymbolsLive, InternedSymbolsLive
<1> QED BY <1>1, <1>2, InvInit, ContextInductive, PTL DEF Spec

(* If no base is entered that waits, a base runs once at most, and every   *)
(* other base in reach has its table parked.                               *)
THEOREM BasesAreApart == ASSUME ~ReenterBases PROVE Spec => []Apart
<1>1. Context /\ Apart /\ [Next]_vars => Apart'
  BY InvNext
<1> QED BY <1>1, InvInit, ContextInductive, PTL DEF Spec

-----------------------------------------------------------------------------
(* Each base is a dictionary of its own: the refinement of Interning.      *)

Running == Append([i \in DOMAIN nest |-> nest[i].base], current)
Names   == [b \in Reach |-> TableOf(b)]

(* Where the table of a base is, and after a step was taken.               *)
LEMMA Tables ==
  ASSUME BasesRunOnce
  PROVE  /\ TableOf(current) = active
         /\ \A i \in DOMAIN nest : TableOf(nest[i].base) = nest[i].table
         /\ \A b : b # current /\ b \notin Waiting => TableOf(b) = parked[b]
BY DEF BasesRunOnce, TableOf, Waiting

LEMMA TablesThen ==
  ASSUME BasesRunOnce'
  PROVE  /\ TableOf(current)' = active'
         /\ \A i \in DOMAIN nest' : TableOf(nest[i].base)' = nest'[i].table
         /\ \A b : b # current' /\ b \notin Waiting' => TableOf(b)' = parked'[b]
BY DEF BasesRunOnce, TableOf, Waiting

(* The bases that run.                                                     *)
BasesOf(n) == [i \in DOMAIN n |-> n[i].base]

LEMMA BasesOfCalls ==
  ASSUME NEW n \in Seq(Call)
  PROVE  /\ BasesOf(n) \in Seq(Base) /\ Len(BasesOf(n)) = Len(n)
         /\ DOMAIN BasesOf(n) = DOMAIN n
         /\ \A i \in DOMAIN n : BasesOf(n)[i] = n[i].base
<1>1. DOMAIN n = 1 .. Len(n) /\ Len(n) \in Nat BY LenProperties
<1>2. \A i \in 1 .. Len(n) : n[i].base \in Base
  <2>1. \A i \in 1 .. Len(n) : n[i] \in Call BY ElementOfSeq
  <2> QED BY <2>1 DEF Call
<1>3. BasesOf(n) = [i \in 1 .. Len(n) |-> n[i].base] BY <1>1 DEF BasesOf
<1>4. BasesOf(n) \in Seq(Base) BY <1>1, <1>2, <1>3, IsASeq
<1> QED BY <1>1, <1>3, <1>4

LEMMA RunningOf ==
  ASSUME NEW n \in Seq(Call), NEW c \in Base
  PROVE  LET r == Append(BasesOf(n), c)
         IN  /\ r # <<>> /\ Len(r) = Len(n) + 1 /\ Last(r) = c /\ Front(r) = BasesOf(n)
             /\ Dictionaries!Values(r) = { n[i].base : i \in DOMAIN n } \cup {c}
<1>1. PICK r : r = Append(BasesOf(n), c) OBVIOUS
<1>2. /\ BasesOf(n) \in Seq(Base) /\ Len(BasesOf(n)) = Len(n)
      /\ \A i \in DOMAIN n : BasesOf(n)[i] = n[i].base
  BY BasesOfCalls
<1>3. /\ r # <<>> /\ Len(r) = Len(n) + 1 /\ Last(r) = c /\ Front(r) = BasesOf(n)
      /\ DOMAIN r = 1 .. Len(n) + 1 /\ DOMAIN n = 1 .. Len(n) /\ Len(n) \in Nat
      /\ \A i \in 1 .. Len(n) : r[i] = BasesOf(n)[i]
      /\ r[Len(n) + 1] = c
  BY <1>1, <1>2, Pushed, LenProperties
<1>4. DOMAIN r = DOMAIN n \cup {Len(n) + 1} /\ \A i \in DOMAIN n : r[i] = n[i].base
  BY <1>2, <1>3
<1>5. Dictionaries!Values(r) = { n[i].base : i \in DOMAIN n } \cup {c}
  BY <1>3, <1>4 DEF Dictionaries!Values
<1> QED BY <1>1, <1>3, <1>5

LEMMA RunningFacts ==
  ASSUME TypeOK
  PROVE  /\ Running # <<>> /\ Len(Running) = Len(nest) + 1
         /\ Last(Running) = current /\ Front(Running) = BasesOf(nest)
         /\ Dictionaries!Values(Running) = Waiting \cup {current}
<1>1. nest \in Seq(Call) /\ current \in Base BY DEF TypeOK, Call
<1>2. Running = Append(BasesOf(nest), current) BY DEF Running, BasesOf
<1> QED BY <1>1, <1>2, RunningOf DEF Waiting

LEMMA RunningThen ==
  ASSUME TypeOK'
  PROVE  /\ Running' = Append(BasesOf(nest'), current')
         /\ Dictionaries!Values(Running') = Waiting' \cup {current'}
<1>1. nest' \in Seq(Call) /\ current' \in Base BY DEF TypeOK, Call
<1>2. Running' = Append(BasesOf(nest'), current') BY DEF Running, BasesOf
<1> QED BY <1>1, <1>2, RunningOf DEF Waiting

(* What is in reach, to Interning.                                         *)
LEMMA ReachInterning ==
  ASSUME TypeOK
  PROVE  Dictionaries!InReach(Running, kept) = Reach
BY RunningFacts DEF Dictionaries!InReach, Reach

LEMMA InitRefines == Init => Dictionaries!Init
<1> SUFFICES ASSUME Init PROVE Dictionaries!Init
  OBVIOUS
<1>1. Context /\ Apart BY InvInit
<1>2. Reach = {current} /\ Running = <<current>>
  BY DEF Init, Reach, Waiting, Running
<1>3. TableOf(current) = Empty BY <1>1, Tables DEF Init, Apart
<1>4. Names = [c \in {current} |-> Empty] BY <1>2, <1>3 DEF Names
<1>5. Shared \in SUBSET Spelling BY SharedAssumption
<1>6. current \in Base BY DEF Init
<1> QED
  BY <1>2, <1>4, <1>5, <1>6 DEF Dictionaries!Init, Dictionaries!Empty, Init, Running, Names, Empty

LEMMA MakeRefines ==
  ASSUME Context, Apart, Apart', MakeBase
  PROVE  Dictionaries!Make
<1> USE DEF Context, Apart
<1>1. PICK b \in Base \ bases :
        /\ parked' = With(parked, b, Empty)
        /\ kept' = kept \cup {b}
  BY DEF MakeBase
<1>2. UNCHANGED <<shared, active, current, nest, held>>
  BY DEF MakeBase, running
<1>3. Waiting' = Waiting /\ Running' = Running BY <1>2 DEF Waiting, Running
<1>4. Reach' = Reach \cup {b} /\ b \notin Reach
  BY <1>1, <1>2, <1>3 DEF Reach, ReachIsAllocated
<1>5. DOMAIN Names = Reach BY DEF Names
<1>6. TableOf(b)' = Empty
  BY <1>1, <1>2, <1>3, <1>4, TablesThen DEF With, Reach
<1>7. \A c \in Reach : TableOf(c)' = TableOf(c)
  <2> SUFFICES ASSUME NEW c \in Reach PROVE TableOf(c)' = TableOf(c)
    OBVIOUS
  <2>1. CASE c = current BY <1>2, <2>1, Tables, TablesThen
  <2>2. CASE c \in Waiting
    <3>1. PICK i \in DOMAIN nest : c = nest[i].base BY <2>2 DEF Waiting
    <3> QED BY <1>2, <3>1, Tables, TablesThen
  <2>3. CASE c # current /\ c \notin Waiting
    <3>1. c \in DOMAIN parked /\ c # b BY <1>4, <2>3 DEF TablesAreKept, Reach
    <3>2. parked'[c] = parked[c] BY <1>1, <3>1 DEF With
    <3> QED BY <1>2, <1>3, <2>3, <3>2, Tables, TablesThen
  <2> QED BY <2>1, <2>2, <2>3
<1>8. Names' = [c \in Reach \cup {b} |-> IF c = b THEN Empty ELSE Names[c]]
  BY <1>4, <1>6, <1>7 DEF Names
<1>9. Dictionaries!InReach(Running, kept \cup {b}) = Reach \cup {b}
  BY RunningFacts DEF Dictionaries!InReach, Reach
<1>10. b \in Base \ DOMAIN Names BY <1>4, <1>5
<1>11. [c \in DOMAIN Names \cup {b} |-> IF c = b THEN Empty ELSE Names[c]] = Names'
  BY <1>5, <1>8
<1>12. Names' = [c \in Reach \cup {b} |-> Names'[c]] BY <1>8
<1>13. Dictionaries!Goes(Running, kept \cup {b},
                         [c \in DOMAIN Names \cup {b} |-> IF c = b THEN Empty ELSE Names[c]])
  BY <1>1, <1>2, <1>3, <1>9, <1>11, <1>12 DEF Dictionaries!Goes, Running, Names
<1> QED
  BY <1>2, <1>10, <1>13 DEF Dictionaries!Make, Dictionaries!Empty, Empty, Running, Names

LEMMA EnterRefines ==
  ASSUME ~ReenterBases, Context, Apart, Apart', EnterBase
  PROVE  Dictionaries!Enter
<1> USE DEF Context, Apart
<1>1. PICK b \in Reach \ {current} :
        /\ b \in Waiting => ReenterBases
        /\ active' = IF b \in DOMAIN parked THEN parked[b] ELSE Empty
        /\ parked' = [c \in DOMAIN parked \ {b} |-> parked[c]]
        /\ nest' = Append(nest, [base |-> current, nodes |-> nodes, table |-> active])
        /\ current' = b
  BY DEF EnterBase
<1>2. UNCHANGED <<shared, held, kept>> BY DEF EnterBase, objects, program
<1>3. b \notin Waiting BY <1>1
<1>4. /\ nest \in Seq(Call) /\ nest' \in Seq(Call)
      /\ Len(nest') = Len(nest) + 1 /\ Len(nest) \in Nat
      /\ DOMAIN nest' = DOMAIN nest \cup {Len(nest) + 1}
      /\ nest'[Len(nest) + 1] = [base |-> current, nodes |-> nodes, table |-> active]
      /\ \A i \in DOMAIN nest : nest'[i] = nest[i]
  <2>1. [base |-> current, nodes |-> nodes, table |-> active] \in Call BY DEF TypeOK, Call
  <2> QED BY <1>1, <2>1, NestGrows DEF TypeOK, Call
<1>5. Waiting' = Waiting \cup {current} BY <1>4 DEF Waiting
<1>6. Reach' = Reach BY <1>1, <1>2, <1>5 DEF Reach
<1>7. Running' = Append(Running, b)
  <2>1. BasesOf(nest') = Append(BasesOf(nest), current)
    <3>1. /\ BasesOf(nest) \in Seq(Base) /\ BasesOf(nest') \in Seq(Base)
          /\ Len(BasesOf(nest)) = Len(nest) /\ Len(BasesOf(nest')) = Len(nest) + 1
          /\ DOMAIN nest = 1 .. Len(nest)
          /\ \A i \in DOMAIN nest : BasesOf(nest)[i] = nest[i].base
          /\ \A i \in DOMAIN nest' : BasesOf(nest')[i] = nest'[i].base
      BY <1>4, BasesOfCalls, LenProperties
    <3>2. current \in Base BY DEF TypeOK
    <3>3. /\ Append(BasesOf(nest), current) \in Seq(Base)
          /\ Len(Append(BasesOf(nest), current)) = Len(nest) + 1
          /\ \A i \in 1 .. Len(nest) : Append(BasesOf(nest), current)[i] = BasesOf(nest)[i]
          /\ Append(BasesOf(nest), current)[Len(nest) + 1] = current
      BY <3>1, <3>2, AppendProperties
    <3>4. \A i \in 1 .. Len(nest) + 1 :
            BasesOf(nest')[i] = Append(BasesOf(nest), current)[i]
      BY <1>4, <3>1, <3>3
    <3> QED BY <3>1, <3>3, <3>4, SeqEqual
  <2>2. Running' = Append(BasesOf(nest'), b) BY <1>1 DEF Running, BasesOf
  <2>3. Running = Append(BasesOf(nest), current) BY DEF Running, BasesOf
  <2> QED BY <2>1, <2>2, <2>3
<1>8. \A c \in Reach : TableOf(c)' = TableOf(c)
  <2> SUFFICES ASSUME NEW c \in Reach PROVE TableOf(c)' = TableOf(c)
    OBVIOUS
  <2>1. CASE c = current
    <3>1. c = nest'[Len(nest) + 1].base /\ nest'[Len(nest) + 1].table = active
      BY <1>4, <2>1
    <3> QED BY <1>4, <2>1, <3>1, Tables, TablesThen
  <2>2. CASE c \in Waiting
    <3>1. PICK i \in DOMAIN nest : c = nest[i].base BY <2>2 DEF Waiting
    <3> QED BY <1>4, <3>1, Tables, TablesThen
  <2>3. CASE c = b
    <3>1. b \in DOMAIN parked BY <1>1, <1>3 DEF TablesAreKept, Reach
    <3>2. TableOf(c) = parked[b] BY <1>1, <1>3, <2>3, Tables
    <3> QED BY <1>1, <2>3, <3>1, <3>2, TablesThen
  <2>4. CASE c # current /\ c \notin Waiting /\ c # b
    <3>1. c \in DOMAIN parked BY <2>4 DEF TablesAreKept, Reach
    <3>2. parked'[c] = parked[c] BY <1>1, <2>4, <3>1
    <3> QED BY <1>1, <1>5, <2>4, <3>2, Tables, TablesThen
  <2> QED BY <2>1, <2>2, <2>3, <2>4
<1>9. Names' = [c \in Reach |-> Names[c]] BY <1>6, <1>8 DEF Names
<1>10. Dictionaries!InReach(Append(Running, b), kept) = Reach
  <2>1. Context' BY EnterBaseInv
  <2>2. Dictionaries!Values(Running') = Waiting' \cup {current'} BY <2>1, RunningThen DEF Context
  <2>3. Dictionaries!InReach(Running', kept) = kept \cup Waiting' \cup {current'}
    BY <2>2 DEF Dictionaries!InReach
  <2> QED BY <1>2, <1>6, <1>7, <2>3 DEF Reach
<1>11. Dictionaries!Goes(Append(Running, b), kept, Names)
  BY <1>2, <1>7, <1>9, <1>10 DEF Dictionaries!Goes, Running, Names
<1>12. b \in DOMAIN Names \ {Last(Running)} BY <1>1, RunningFacts DEF Names
<1> QED
  BY <1>2, <1>11, <1>12 DEF Dictionaries!Enter, Dictionaries!Last, Last, Running, Names

LEMMA LeaveRefines ==
  ASSUME Context, Apart, Apart', LeaveBase
  PROVE  Dictionaries!Leave
<1> USE DEF Context, Apart
<1>1. /\ nest # <<>> /\ nest' = Front(nest)
      /\ current' = Last(nest).base
      /\ active' = Last(nest).table /\ parked' = With(parked, current, active)
      /\ UNCHANGED <<shared, held, kept>>
  BY DEF LeaveBase, objects, program
<1>2. /\ Len(nest) \in DOMAIN nest
      /\ DOMAIN nest' = DOMAIN nest \ {Len(nest)}
      /\ \A i \in DOMAIN nest' : nest'[i] = nest[i]
      /\ Last(nest) = nest[Len(nest)]
  BY <1>1, NestShrinks
<1>3. Context' BY LeaveBaseInv
<1>4. Waiting = Waiting' \cup {current'} BY <1>1, <1>2 DEF Waiting
<1>5. Running' = Front(Running)
  <2>1. /\ nest \in Seq(Call) /\ nest' \in Seq(Call) /\ Len(nest) \in Nat \ {0}
        /\ Len(nest') = Len(nest) - 1 /\ DOMAIN nest = 1 .. Len(nest)
        /\ DOMAIN nest' = 1 .. Len(nest) - 1
        /\ \A i \in 1 .. Len(nest) - 1 : nest'[i] = nest[i]
    BY <1>1, FrontAndLast DEF TypeOK, Call
  <2>2. /\ BasesOf(nest) \in Seq(Base) /\ Len(BasesOf(nest)) = Len(nest)
        /\ \A i \in DOMAIN nest : BasesOf(nest)[i] = nest[i].base
        /\ BasesOf(nest') \in Seq(Base) /\ Len(BasesOf(nest')) = Len(nest')
        /\ \A i \in DOMAIN nest' : BasesOf(nest')[i] = nest'[i].base
    BY <2>1, BasesOfCalls
  <2>3. current' \in Base BY <1>3 DEF TypeOK
  <2>4. /\ Append(BasesOf(nest'), current') \in Seq(Base)
        /\ Len(Append(BasesOf(nest'), current')) = Len(nest)
        /\ \A i \in 1 .. Len(nest) - 1 : Append(BasesOf(nest'), current')[i] = BasesOf(nest')[i]
        /\ Append(BasesOf(nest'), current')[Len(nest)] = current'
    BY <2>1, <2>2, <2>3, AppendProperties
  <2>5. \A i \in 1 .. Len(nest) : Append(BasesOf(nest'), current')[i] = BasesOf(nest)[i]
    BY <1>1, <1>2, <2>1, <2>2, <2>4
  <2>6. Append(BasesOf(nest'), current') = BasesOf(nest) BY <2>2, <2>4, <2>5, SeqEqual
  <2>7. Running' = Append(BasesOf(nest'), current') BY <1>3, RunningThen
  <2>8. Front(Running) = BasesOf(nest) BY RunningFacts
  <2> QED BY <2>6, <2>7, <2>8
<1>6. Len(Running) > 1
  <2>1. Len(nest) \in Nat \ {0} BY <1>1, FrontAndLast DEF TypeOK, Call
  <2> QED BY <2>1, RunningFacts
<1>7. Reach' \subseteq Reach BY <1>1, <1>4 DEF Reach
<1>8. \A c \in Reach' : TableOf(c)' = TableOf(c)
  <2> SUFFICES ASSUME NEW c \in Reach' PROVE TableOf(c)' = TableOf(c)
    OBVIOUS
  <2>1. CASE c = current'
    BY <1>1, <1>2, <2>1, Tables, TablesThen
  <2>2. CASE c \in Waiting'
    <3>1. PICK i \in DOMAIN nest' : c = nest'[i].base BY <2>2 DEF Waiting
    <3> QED BY <1>2, <3>1, Tables, TablesThen
  <2>3. CASE c = current /\ c # current' /\ c \notin Waiting'
    <3>1. parked'[c] = active BY <1>1, <2>3 DEF With
    <3> QED BY <2>3, <3>1, Tables, TablesThen
  <2>4. CASE c # current /\ c # current' /\ c \notin Waiting'
    <3>1. c \in DOMAIN parked BY <1>1, <1>4, <2>4 DEF TablesAreKept, Reach
    <3>2. parked'[c] = parked[c] BY <1>1, <2>4, <3>1 DEF With
    <3> QED BY <1>4, <2>4, <3>2, Tables, TablesThen
  <2> QED BY <2>1, <2>2, <2>3, <2>4
<1>9. Names' = [c \in Reach' |-> Names[c]] BY <1>7, <1>8 DEF Names
<1>10. Dictionaries!InReach(Front(Running), kept) = Reach'
  BY <1>1, <1>3, <1>5, RunningThen DEF Dictionaries!InReach, Reach
<1>11. Dictionaries!Goes(Front(Running), kept, Names)
  BY <1>1, <1>5, <1>9, <1>10 DEF Dictionaries!Goes, Running, Names
<1> QED
  BY <1>1, <1>6, <1>11 DEF Dictionaries!Leave, Dictionaries!Front, Front, Running, Names

(* A new symbol is one that nothing in Interning uses.                     *)
LEMMA InUseIsLive ==
  ASSUME Context, KnownSymbolsLive, Apart, NEW o, Dictionaries!InUse(o)
  PROVE  o \in alive
<1> USE DEF Context, Apart
<1>1. \A b \in Reach : Symbols(TableOf(b)) \subseteq alive
  <2> SUFFICES ASSUME NEW b \in Reach PROVE Symbols(TableOf(b)) \subseteq alive
    OBVIOUS
  <2>1. CASE b = current BY <2>1, Tables DEF KnownSymbolsLive
  <2>2. CASE b \in Waiting
    <3>1. PICK i \in DOMAIN nest : b = nest[i].base BY <2>2 DEF Waiting
    <3> QED BY <3>1, Tables DEF KnownSymbolsLive
  <2>3. CASE b # current /\ b \notin Waiting
    <3>1. b \in DOMAIN parked BY <2>3 DEF TablesAreKept, Reach
    <3> QED BY <2>3, <3>1, Tables DEF KnownSymbolsLive
  <2> QED BY <2>1, <2>2, <2>3
<1>2. o \in held \cup Symbols(shared) \cup UNION { Symbols(TableOf(b)) : b \in Reach }
  BY DEF Dictionaries!InUse, Dictionaries!Values, Symbols
<1> QED BY <1>1, <1>2 DEF KnownSymbolsLive

LEMMA InternRefines ==
  ASSUME Context, KnownSymbolsLive, Apart, Apart', Intern
  PROVE  Dictionaries!Intern
<1> USE DEF Context, Apart
<1>1. UNCHANGED <<shared, parked, current, nest, kept>>
  BY DEF Intern, running
<1>2. Waiting' = Waiting /\ Reach' = Reach /\ Running' = Running
  BY <1>1 DEF Waiting, Reach, Running
<1>3. current \in Reach /\ Names[current] = active /\ Last(Running) = current
  BY Tables, RunningFacts DEF Reach, Names
<1>4. \A b \in Reach : b # current => TableOf(b)' = TableOf(b)
  <2> SUFFICES ASSUME NEW b \in Reach, b # current PROVE TableOf(b)' = TableOf(b)
    OBVIOUS
  <2>1. CASE b \in Waiting
    <3>1. PICK i \in DOMAIN nest : b = nest[i].base BY <2>1 DEF Waiting
    <3> QED BY <1>1, <3>1, Tables, TablesThen
  <2>2. CASE b \notin Waiting BY <1>1, <1>2, <2>2, Tables, TablesThen
  <2> QED BY <2>1, <2>2
<1>5. TableOf(current)' = active' BY <1>1, TablesThen
<1>6. Names' = [Names EXCEPT ![current] = active']
  BY <1>1, <1>2, <1>4, <1>5 DEF Names
<1>7. PICK s \in Spelling :
        IF s \in DOMAIN Known
        THEN Takes(Known[s]) /\ UNCHANGED <<alive, active, origin>>
        ELSE \E o \in Sym \ alive :
               /\ alive' = alive \cup {o}
               /\ active' = With(active, s, o)
               /\ origin' = [origin EXCEPT ![o] = <<current, s>>]
               /\ Takes(o)
  BY DEF Intern
<1> DEFINE own == Names[Last(Running)]
           known == [t \in DOMAIN shared \cup DOMAIN own |->
                       IF t \in DOMAIN shared THEN shared[t] ELSE own[t]]
<1>8. own = active /\ known = Known BY <1>3 DEF Known
<1> DEFINE Reads(o) ==
             /\ IF s \in DOMAIN known
                THEN o = known[s] /\ Names' = Names
                ELSE /\ ~Dictionaries!InUse(o)
                     /\ Names' = [Names EXCEPT ![Last(Running)] =
                          [t \in DOMAIN own \cup {s} |-> IF t = s THEN o ELSE own[t]]]
             /\ held' \in {held, held \cup {o}}
<1>9. \E o \in Sym : Reads(o)
  <2> HIDE DEF own, known
  <2>1. CASE s \in DOMAIN Known
    <3>1. Known[s] \in Sym
      <4>1. Known[s] \in Symbols(shared) \cup Symbols(active) BY <2>1 DEF Known, Symbols
      <4> QED BY <4>1 DEF KnownSymbolsLive, TypeOK
    <3>2. UNCHANGED active /\ held' \in {held, held \cup {Known[s]}}
      BY <1>7, <2>1 DEF Takes
    <3>3. Names' = Names BY <1>3, <1>6, <3>2 DEF Names
    <3>4. Reads(Known[s]) BY <1>8, <2>1, <3>2, <3>3
    <3> QED BY <3>1, <3>4
  <2>2. CASE s \notin DOMAIN Known
    <3>1. PICK o \in Sym \ alive :
            active' = With(active, s, o) /\ held' \in {held, held \cup {o}}
      BY <1>7, <2>2 DEF Takes
    <3>2. ~Dictionaries!InUse(o) BY <3>1, InUseIsLive
    <3>3. active' = [t \in DOMAIN own \cup {s} |-> IF t = s THEN o ELSE own[t]]
      BY <1>8, <3>1 DEF With
    <3>4. Reads(o) BY <1>3, <1>6, <1>8, <2>2, <3>1, <3>2, <3>3
    <3> QED BY <3>1, <3>4
  <2> QED BY <2>1, <2>2
<1> QED
  BY <1>1, <1>2, <1>9 DEF Dictionaries!Intern, Dictionaries!Last, Last, Running, Names

LEMMA HoldRefines ==
  ASSUME Context, Apart, Apart', Hold
  PROVE  Dictionaries!Hold
<1> USE DEF Context, Apart
<1>1. kept' \in SUBSET Reach /\ UNCHANGED <<shared, active, parked, current, nest, held>>
  BY DEF Hold, running
<1>2. Waiting' = Waiting /\ Running' = Running BY <1>1 DEF Waiting, Running
<1>3. Reach' \subseteq Reach /\ Reach' = {current} \cup Waiting \cup kept'
  BY <1>1, <1>2 DEF Reach
<1>4. \A b \in Reach' : TableOf(b)' = TableOf(b) BY <1>1 DEF TableOf, Waiting
<1>5. Names' = [b \in Reach' |-> Names[b]] BY <1>3, <1>4 DEF Names
<1>6. Dictionaries!InReach(Running, kept') = Reach'
  BY <1>3, RunningFacts DEF Dictionaries!InReach
<1>7. Dictionaries!Goes(Running, kept', Names)
  BY <1>1, <1>2, <1>5, <1>6 DEF Dictionaries!Goes, Running, Names
<1>8. kept' \in SUBSET DOMAIN Names BY <1>1 DEF Names
<1> QED BY <1>1, <1>7, <1>8 DEF Dictionaries!Hold, Running, Names

(* A collection is not seen, nor is letting go of nothing.                 *)
LEMMA QuietRefines ==
  ASSUME Context, Apart, Apart', Collect \/ UNCHANGED vars
  PROVE  UNCHANGED Dictionaries!vars
<1> USE DEF Context, Apart
<1>1. UNCHANGED <<shared, active, current, nest, held, kept>>
  BY DEF Collect, vars, running, program
<1>2. \A b \in DOMAIN parked \cap Reach : parked'[b] = parked[b]
  BY DEF Collect, vars
<1>3. Waiting' = Waiting /\ Running' = Running /\ Reach' = Reach
  BY <1>1 DEF Waiting, Running, Reach
<1>4. \A b \in Reach : TableOf(b)' = TableOf(b)
  <2> SUFFICES ASSUME NEW b \in Reach PROVE TableOf(b)' = TableOf(b)
    OBVIOUS
  <2>1. CASE b = current \/ b \in Waiting BY <1>1, <2>1 DEF TableOf, Waiting
  <2>2. CASE b # current /\ b \notin Waiting
    <3>1. b \in DOMAIN parked BY <2>2 DEF TablesAreKept, Reach
    <3> QED BY <1>1, <1>2, <1>3, <2>2, <3>1, Tables, TablesThen
  <2> QED BY <2>1, <2>2
<1>5. Names' = Names BY <1>3, <1>4 DEF Names
<1> QED BY <1>1, <1>3, <1>5 DEF Dictionaries!vars, Running, Names

(* A program that neither enters a base that waits for its child nor       *)
(* collects while one waits sees one dictionary per base, under the names  *)
(* they share: the swapping of tables, their parking in base_syms and the  *)
(* purge of base_syms cannot be told from there being no such thing.       *)
THEOREM Interns ==
  ASSUME ~ReenterBases, ~CollectInChildren PROVE Spec => ImplementsInterning
<1>1. ASSUME Context, KnownSymbolsLive, Apart, Apart', [Next]_vars
      PROVE  [Dictionaries!Next]_(Dictionaries!vars)
  <2>1. CASE MakeBase BY <1>1, <2>1, MakeRefines DEF Dictionaries!Next
  <2>2. CASE EnterBase BY <1>1, <2>2, EnterRefines DEF Dictionaries!Next
  <2>3. CASE LeaveBase BY <1>1, <2>3, LeaveRefines DEF Dictionaries!Next
  <2>4. CASE Intern BY <1>1, <2>4, InternRefines DEF Dictionaries!Next
  <2>5. CASE Drop
    <3>1. UNCHANGED <<shared, active, parked, current, nest, kept>>
      BY <2>5 DEF Drop, running
    <3>2. Running' = Running /\ Names' = Names
      BY <3>1 DEF Running, Names, Reach, Waiting, TableOf
    <3>3. Dictionaries!Drop
      BY <2>5, <3>1, <3>2 DEF Drop, Dictionaries!Drop, Running, Names
    <3> QED BY <3>3 DEF Dictionaries!Next
  <2>6. CASE Hold BY <1>1, <2>6, HoldRefines DEF Dictionaries!Next
  <2>7. CASE Collect \/ UNCHANGED vars BY <1>1, <2>7, QuietRefines
  <2> QED BY <1>1, <2>1, <2>2, <2>3, <2>4, <2>5, <2>6, <2>7 DEF Next
<1>2. Context /\ KnownSymbolsLive /\ [Next]_vars => KnownSymbolsLive'
  BY InvNext
<1>3. Context /\ Apart /\ [Next]_vars => Apart'
  BY InvNext
<1> QED
  BY <1>1, <1>2, <1>3, InvInit, InitRefines, ContextInductive, PTL
     DEF Spec, ImplementsInterning, Dictionaries!Spec
=============================================================================
