------------------------------ MODULE Interning ------------------------------
(***************************************************************************)
(* What interning promises a program that runs in several bases: each base *)
(* is a dictionary of its own, and in each a spelling is one symbol from   *)
(* the moment it is first read until the base is gone.                     *)
(*                                                                         *)
(* There is one dictionary per base here, under one of the instruction     *)
(* names they all share, and nothing is swapped, parked or collected.  A   *)
(* new symbol is one that is in no dictionary and that the program has no  *)
(* other use for.                                                          *)
(***************************************************************************)
EXTENDS Naturals, SequencesExt

CONSTANTS Base, Spelling, Sym

VARIABLES
  shared,    (* the dictionary of the instruction names                    *)
  running,   (* the bases that run, outermost first                        *)
  names,     (* names[b]: the dictionary of b, for each base in reach      *)
  held,      (* the symbols the program holds                              *)
  kept       (* the bases the program holds                                *)

vars == <<shared, running, names, held, kept>>

Empty    == [s \in {} |-> {}]
Values(f) == { f[x] : x \in DOMAIN f }
InUse(o) == o \in held \cup Values(shared) \cup UNION { Values(names[b]) : b \in DOMAIN names }

(* The bases in reach of a program that runs `r' and holds `k'.            *)
InReach(r, k) == k \cup Values(r)

(* The program goes on with these bases: what is out of reach is gone.     *)
Goes(r, k, n) ==
  /\ running' = r /\ kept' = k
  /\ names' = [b \in InReach(r, k) |-> n[b]]
  /\ UNCHANGED shared

Init ==
  /\ \E b \in Base : running = <<b>> /\ names = [c \in {b} |-> Empty]
  /\ held = {} /\ kept = {}
  /\ \E S \in SUBSET Spelling : shared \in [S -> Sym]
  /\ \A s, t \in DOMAIN shared : shared[s] = shared[t] => s = t

Make ==
  /\ \E b \in Base \ DOMAIN names :
       Goes(running, kept \cup {b},
            [c \in DOMAIN names \cup {b} |-> IF c = b THEN Empty ELSE names[c]])
  /\ UNCHANGED held

Enter ==
  /\ \E b \in DOMAIN names \ {Last(running)} : Goes(Append(running, b), kept, names)
  /\ UNCHANGED held

Leave ==
  /\ Len(running) > 1
  /\ Goes(Front(running), kept, names)
  /\ UNCHANGED held

(* Reading spelling `s': the symbol it is in the base that runs.           *)
Intern ==
  /\ \E s \in Spelling, o \in Sym :
       LET own   == names[Last(running)]
           known == [t \in DOMAIN shared \cup DOMAIN own |->
                       IF t \in DOMAIN shared THEN shared[t] ELSE own[t]]
       IN  /\ IF s \in DOMAIN known
              THEN o = known[s] /\ UNCHANGED names
              ELSE /\ ~InUse(o)
                   /\ names' = [names EXCEPT ![Last(running)] =
                                 [t \in DOMAIN own \cup {s} |-> IF t = s THEN o ELSE own[t]]]
           /\ held' \in {held, held \cup {o}}
  /\ UNCHANGED <<shared, running, kept>>

Drop ==
  /\ \E o \in held : held' = held \ {o}
  /\ UNCHANGED <<shared, running, names, kept>>

Hold ==
  /\ \E k \in SUBSET DOMAIN names : Goes(running, k, names)
  /\ UNCHANGED held

Next == Make \/ Enter \/ Leave \/ Intern \/ Drop \/ Hold

Spec == Init /\ [][Next]_vars
=============================================================================
