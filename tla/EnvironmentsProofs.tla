-------------------------- MODULE EnvironmentsProofs --------------------------
(***************************************************************************)
(* For every number of frames, names and cells, and wherever the threshold *)
(* is: the map of a grown frame and its chain agree, no frame has two      *)
(* cells for a name, and exactly the grown frames have a map.              *)
(***************************************************************************)
EXTENDS Environments, Lemmas

(* What ViewsAgree needs of the types: of the chains, the cells and the    *)
(* maps.  Parents, bases and trees do not come into it.                    *)
ChainTypes ==
  /\ chain \in [Frame -> Seq(DOMAIN cell)]
  /\ cell \in [DOMAIN cell -> [name : Name, val : Value]]
  /\ index = [h \in DOMAIN index |-> index[h]]
  /\ DOMAIN index \subseteq Frame
  /\ \A h \in DOMAIN index : index[h] \in [DOMAIN index[h] -> DOMAIN cell]

IInv == ChainTypes /\ ViewsAgree

-----------------------------------------------------------------------------
(* Finding a name.                                                         *)

(* What is found is a cell for the name, on the frame's chain.             *)
LEMMA FoundIsACell ==
  ASSUME IInv, NEW h \in Frame, NEW n, NEW c \in Find(h, n)
  PROVE  /\ c \in DOMAIN cell /\ cell[c].name = n
         /\ \E i \in DOMAIN chain[h] : chain[h][i] = c
<1>1. CASE h \in DOMAIN index
  <2>1. n \in DOMAIN index[h] /\ c = index[h][n] BY <1>1 DEF Find
  <2>2. PICK i \in DOMAIN chain[h] : index[h][n] = chain[h][i] /\ cell[chain[h][i]].name = n
    BY <1>1, <2>1 DEF IInv, ViewsAgree, MapsMirrorChains
  <2> QED BY <1>1, <2>1, <2>2 DEF IInv, ChainTypes
<1>2. CASE h \notin DOMAIN index
  <2>1. PICK i \in DOMAIN chain[h] : c = chain[h][i] /\ cell[chain[h][i]].name = n
    BY <1>2 DEF Find, OnChain
  <2>2. chain[h] \in Seq(DOMAIN cell) BY DEF IInv, ChainTypes
  <2> QED BY <2>1, <2>2
<1> QED BY <1>1, <1>2

(* What is not found is not there.                                         *)
LEMMA NotFoundIsAbsent ==
  ASSUME IInv, NEW h \in Frame, NEW n, Find(h, n) = {},
         NEW i \in DOMAIN chain[h]
  PROVE  cell[chain[h][i]].name # n
<1> SUFFICES ASSUME cell[chain[h][i]].name = n PROVE FALSE
  OBVIOUS
<1>1. CASE h \in DOMAIN index
  <2>1. n \in DOMAIN index[h] BY <1>1 DEF IInv, ViewsAgree, MapsMirrorChains
  <2>2. index[h][n] \in Find(h, n) BY <1>1, <2>1 DEF Find
  <2> QED BY <2>2
<1>2. CASE h \notin DOMAIN index
  <2>1. chain[h] \in Seq(DOMAIN cell) BY DEF IInv, ChainTypes
  <2>2. \A j \in 1..(i - 1) : cell[chain[h][j]].name # n
    <3> SUFFICES ASSUME NEW j \in 1..(i - 1), cell[chain[h][j]].name = n PROVE FALSE
      OBVIOUS
    <3>1. j \in DOMAIN chain[h] /\ j # i BY <2>1
    <3> QED BY <3>1 DEF IInv, ViewsAgree, NamesAreUnique
  <2>3. chain[h][i] \in OnChain(chain[h], n) BY <2>2 DEF OnChain
  <2> QED BY <1>2, <2>3 DEF Find
<1> QED BY <1>1, <1>2

-----------------------------------------------------------------------------
(* The steps.                                                              *)

(* A step that changes the value of a cell at most.                        *)
LEMMA WriteKeepsViews ==
  ASSUME IInv, NEW c, NEW v \in Value,
         cell' = [cell EXCEPT ![c].val = v], UNCHANGED <<chain, index>>
  PROVE  IInv'
<1>1. DOMAIN cell' = DOMAIN cell OBVIOUS
<1>2. ASSUME NEW d \in DOMAIN cell
      PROVE  cell'[d] \in [name : Name, val : Value] /\ cell'[d].name = cell[d].name
  <2>1. cell[d] \in [name : Name, val : Value] BY DEF IInv, ChainTypes
  <2>2. CASE d = c BY <2>1, <2>2
  <2>3. CASE d # c BY <2>1, <2>3
  <2> QED BY <2>2, <2>3
<1>3. cell' \in [DOMAIN cell' -> [name : Name, val : Value]] BY <1>1, <1>2
<1>4. ChainTypes' BY <1>1, <1>3 DEF IInv, ChainTypes, Frame
<1>5. \A h \in Frame : \A i \in DOMAIN chain[h] :
        cell'[chain[h][i]].name = cell[chain[h][i]].name
  BY <1>2 DEF IInv, ChainTypes
<1>6. NamesAreUnique' BY <1>5 DEF IInv, ViewsAgree, NamesAreUnique, Frame
<1>7. MapsMirrorChains'
  BY <1>5 DEF IInv, ViewsAgree, MapsMirrorChains, ChainTypes, Frame
<1>8. GrownFramesAreMapped' BY DEF IInv, ViewsAgree, GrownFramesAreMapped, Frame
<1> QED BY <1>4, <1>6, <1>7, <1>8 DEF IInv, ViewsAgree

(* A frame is opened at an address that no map is kept for.                *)
LEMMA MakeKeepsViews ==
  ASSUME IInv, NEW h, h \notin Frame, NEW p, NEW b, Make(h, p, b)
  PROVE  IInv'
<1>1. Frame' = Frame \cup {h} BY DEF Make, With, Frame
<1>2. chain' = [g \in Frame \cup {h} |-> IF g = h THEN <<>> ELSE chain[g]]
  BY DEF Make, With, Frame
<1>3. UNCHANGED <<cell, index>> BY DEF Make
<1>4. \A g \in Frame : chain'[g] = chain[g] BY <1>2
<1>5. chain'[h] = <<>> BY <1>2
<1>6. ChainTypes'
  <2>1. \A g \in Frame : chain[g] \in Seq(DOMAIN cell) BY DEF IInv, ChainTypes
  <2>2. chain' \in [Frame' -> Seq(DOMAIN cell')]
    <3>1. \A g \in Frame \cup {h} : chain'[g] \in Seq(DOMAIN cell')
      <4>1. <<>> \in Seq(DOMAIN cell') OBVIOUS
      <4> QED BY <1>3, <1>4, <1>5, <2>1, <4>1
    <3>2. chain' = [g \in Frame' |-> chain'[g]] BY <1>1, <1>2
    <3> QED BY <1>1, <3>1, <3>2
  <2>3. DOMAIN index' \subseteq Frame' BY <1>1, <1>3 DEF IInv, ChainTypes
  <2> QED BY <1>3, <2>2, <2>3 DEF IInv, ChainTypes
<1>7. NamesAreUnique' BY <1>1, <1>3, <1>4, <1>5 DEF IInv, ViewsAgree, NamesAreUnique
<1>8. MapsMirrorChains'
  BY <1>3, <1>4 DEF IInv, ViewsAgree, MapsMirrorChains, ChainTypes
<1>9. GrownFramesAreMapped'
  <2>1. IndexAt \in Nat BY ConstantsAreApart DEF ConstantsAreApart
  <2>2. ~(Len(chain'[h]) > IndexAt) BY <1>5, <2>1
  <2> QED BY <1>1, <1>3, <1>4, <2>2 DEF IInv, ViewsAgree, GrownFramesAreMapped
<1> QED BY <1>6, <1>7, <1>8, <1>9 DEF IInv, ViewsAgree

(* A name that is bound where it was not: whether the frame has a map, is  *)
(* about to have one, or stays below the threshold.                        *)
LEMMA NewCellKeepsViews ==
  ASSUME IInv, NEW h \in Frame, NEW n \in Name, NEW v \in Value, NewCell(h, n, v)
  PROVE  IInv'
<1>1. PICK c \in Cell \ DOMAIN cell :
        /\ Find(h, n) = {}
        /\ cell' = With(cell, c, [name |-> n, val |-> v])
        /\ chain' = [chain EXCEPT ![h] = <<c>> \o @]
        /\ index' = IF h \in DOMAIN index THEN [index EXCEPT ![h] = With(@, n, c)]
                    ELSE IF Len(chain'[h]) > IndexAt THEN With(index, h, MapOf(chain'[h], cell'))
                    ELSE index
  BY DEF NewCell
<1>2. IndexAt \in Nat BY ConstantsAreApart DEF ConstantsAreApart
<1>3. /\ DOMAIN cell' = DOMAIN cell \cup {c}
      /\ cell'[c] = [name |-> n, val |-> v]
      /\ \A d \in DOMAIN cell : cell'[d] = cell[d]
  BY <1>1 DEF With
<1>4. cell' \in [DOMAIN cell' -> [name : Name, val : Value]]
  <2>1. \A d \in DOMAIN cell' : cell'[d] \in [name : Name, val : Value]
    BY <1>3 DEF IInv, ChainTypes
  <2>2. cell' = [d \in DOMAIN cell' |-> cell'[d]] BY <1>1 DEF With
  <2> QED BY <2>1, <2>2
<1>5. chain[h] \in Seq(DOMAIN cell) BY DEF IInv, ChainTypes
<1>6. /\ Frame' = Frame
      /\ \A g \in Frame : g # h => chain'[g] = chain[g]
      /\ chain'[h] = <<c>> \o chain[h]
  BY <1>1 DEF Frame, IInv, ChainTypes
<1>7. /\ Len(chain'[h]) = Len(chain[h]) + 1
      /\ DOMAIN chain'[h] = 1..Len(chain[h]) + 1
      /\ DOMAIN chain[h] = 1..Len(chain[h])
      /\ chain'[h][1] = c
      /\ \A i \in DOMAIN chain[h] : i + 1 \in DOMAIN chain'[h] /\ chain'[h][i + 1] = chain[h][i]
      /\ \A i \in DOMAIN chain'[h] : i # 1 => i - 1 \in DOMAIN chain[h] /\ chain'[h][i] = chain[h][i - 1]
      /\ Len(chain[h]) \in Nat
  BY <1>5, <1>6
<1>8. \A i \in DOMAIN chain[h] : cell[chain[h][i]].name # n
  BY <1>1, NotFoundIsAbsent
<1>9. \A g \in Frame : \A i \in DOMAIN chain[g] :
        chain[g][i] \in DOMAIN cell /\ cell'[chain[g][i]].name = cell[chain[g][i]].name
  BY <1>3 DEF IInv, ChainTypes
<1>10. chain' \in [Frame' -> Seq(DOMAIN cell')]
  <2>1. chain'[h] \in Seq(DOMAIN cell') BY <1>3, <1>5, <1>6
  <2>2. \A g \in Frame : g # h => chain'[g] \in Seq(DOMAIN cell')
    <3> SUFFICES ASSUME NEW g \in Frame, g # h PROVE chain'[g] \in Seq(DOMAIN cell')
      OBVIOUS
    <3>1. chain[g] \in Seq(DOMAIN cell) BY DEF IInv, ChainTypes
    <3> QED BY <1>3, <1>6, <3>1
  <2>3. chain' = [g \in Frame' |-> chain'[g]] BY <1>1, <1>6 DEF Frame, IInv, ChainTypes
  <2> QED BY <1>6, <2>1, <2>2, <2>3
<1>11. NamesAreUnique'
  <2> SUFFICES ASSUME NEW g \in Frame,
                      NEW i \in DOMAIN chain'[g], NEW j \in DOMAIN chain'[g],
                      cell'[chain'[g][i]].name = cell'[chain'[g][j]].name
               PROVE  i = j
    BY <1>6 DEF NamesAreUnique
  <2>1. CASE g # h
    BY <1>6, <1>9, <2>1 DEF IInv, ViewsAgree, NamesAreUnique
  <2>2. CASE g = h
    <3>1. \A k \in DOMAIN chain'[h] : k # 1 => cell'[chain'[h][k]].name # n
      <4> SUFFICES ASSUME NEW k \in DOMAIN chain'[h], k # 1
                   PROVE  cell'[chain'[h][k]].name # n
        OBVIOUS
      <4>1. k - 1 \in DOMAIN chain[h] /\ chain'[h][k] = chain[h][k - 1] BY <1>7
      <4>2. cell'[chain[h][k - 1]].name = cell[chain[h][k - 1]].name BY <1>9, <4>1
      <4>3. cell[chain[h][k - 1]].name # n BY <1>8, <4>1
      <4> QED BY <4>1, <4>2, <4>3
    <3>2. cell'[chain'[h][1]].name = n BY <1>3, <1>7
    <3>3. CASE i = 1 \/ j = 1 BY <2>2, <3>1, <3>2, <3>3
    <3>4. CASE i # 1 /\ j # 1
      <4>1. i - 1 \in DOMAIN chain[h] /\ j - 1 \in DOMAIN chain[h] BY <1>7, <2>2, <3>4
      <4>2. cell[chain[h][i - 1]].name = cell[chain[h][j - 1]].name
        <5>1. chain'[h][i] = chain[h][i - 1] /\ chain'[h][j] = chain[h][j - 1]
          BY <1>7, <2>2, <3>4
        <5>2. /\ cell'[chain[h][i - 1]].name = cell[chain[h][i - 1]].name
              /\ cell'[chain[h][j - 1]].name = cell[chain[h][j - 1]].name
          BY <1>9, <4>1
        <5> QED BY <2>2, <5>1, <5>2
      <4>3. i - 1 = j - 1 BY <4>1, <4>2 DEF IInv, ViewsAgree, NamesAreUnique
      <4> QED BY <1>7, <2>2, <4>3
    <3> QED BY <3>3, <3>4
  <2> QED BY <2>1, <2>2
<1> DEFINE Mirrors(f, g) ==
             /\ \A i \in DOMAIN chain'[g] :
                  cell'[chain'[g][i]].name \in DOMAIN f /\ f[cell'[chain'[g][i]].name] = chain'[g][i]
             /\ \A m \in DOMAIN f : \E i \in DOMAIN chain'[g] :
                  f[m] = chain'[g][i] /\ cell'[chain'[g][i]].name = m
<1>12. \A g \in Frame : g # h => \A i \in DOMAIN chain[g] :
         cell'[chain'[g][i]].name = cell[chain[g][i]].name
  BY <1>6, <1>9
<1>13. \A g \in DOMAIN index : g # h => Mirrors(index[g], g)
  <2> SUFFICES ASSUME NEW g \in DOMAIN index, g # h PROVE Mirrors(index[g], g)
    OBVIOUS
  <2>1. g \in Frame /\ chain'[g] = chain[g] BY <1>6 DEF IInv, ChainTypes
  <2>2. /\ \A i \in DOMAIN chain[g] :
             /\ cell[chain[g][i]].name \in DOMAIN index[g]
             /\ index[g][cell[chain[g][i]].name] = chain[g][i]
        /\ \A m \in DOMAIN index[g] : \E i \in DOMAIN chain[g] :
             index[g][m] = chain[g][i] /\ cell[chain[g][i]].name = m
    BY DEF IInv, ViewsAgree, MapsMirrorChains
  <2>3. \A i \in DOMAIN chain[g] : cell'[chain'[g][i]].name = cell[chain[g][i]].name
    BY <1>12, <2>1
  <2> QED BY <2>1, <2>2, <2>3
<1>14. CASE h \in DOMAIN index
  <2>1. /\ DOMAIN index' = DOMAIN index
        /\ index' = [g \in DOMAIN index' |-> index'[g]]
        /\ \A g \in DOMAIN index : g # h => index'[g] = index[g]
        /\ index'[h] = With(index[h], n, c)
    BY <1>1, <1>14 DEF IInv, ChainTypes
  <2>2. /\ DOMAIN index'[h] = DOMAIN index[h] \cup {n}
        /\ index'[h][n] = c
        /\ \A m \in DOMAIN index[h] : m # n => index'[h][m] = index[h][m]
        /\ index'[h] = [m \in DOMAIN index'[h] |-> index'[h][m]]
    BY <2>1 DEF With
  <2>3. index'[h] \in [DOMAIN index'[h] -> DOMAIN cell']
    BY <1>3, <1>14, <2>2 DEF IInv, ChainTypes
  <2>4. ChainTypes'
    BY <1>3, <1>4, <1>6, <1>10, <2>1, <2>3 DEF IInv, ChainTypes
  <2>5. Mirrors(index'[h], h)
    <3>1. ASSUME NEW i \in DOMAIN chain'[h]
          PROVE  /\ cell'[chain'[h][i]].name \in DOMAIN index'[h]
                 /\ index'[h][cell'[chain'[h][i]].name] = chain'[h][i]
      <4>1. CASE i = 1 BY <1>3, <1>7, <2>2, <4>1
      <4>2. CASE i # 1
        <5>1. i - 1 \in DOMAIN chain[h] /\ chain'[h][i] = chain[h][i - 1] BY <1>7, <4>2
        <5>2. /\ cell[chain[h][i - 1]].name \in DOMAIN index[h]
              /\ index[h][cell[chain[h][i - 1]].name] = chain[h][i - 1]
          BY <1>14, <5>1 DEF IInv, ViewsAgree, MapsMirrorChains
        <5> QED BY <1>8, <1>9, <2>2, <5>1, <5>2
      <4> QED BY <4>1, <4>2
    <3>2. ASSUME NEW m \in DOMAIN index'[h]
          PROVE  \E i \in DOMAIN chain'[h] :
                   index'[h][m] = chain'[h][i] /\ cell'[chain'[h][i]].name = m
      <4>1. CASE m = n BY <1>3, <1>7, <2>2, <4>1
      <4>2. CASE m # n
        <5>1. PICK i \in DOMAIN chain[h] :
                index[h][m] = chain[h][i] /\ cell[chain[h][i]].name = m
          BY <1>14, <2>2, <4>2 DEF IInv, ViewsAgree, MapsMirrorChains
        <5>2. i + 1 \in DOMAIN chain'[h] /\ chain'[h][i + 1] = chain[h][i] BY <1>7
        <5>3. cell'[chain[h][i]].name = cell[chain[h][i]].name BY <1>9
        <5>4. index'[h][m] = index[h][m] BY <2>2, <4>2
        <5> QED BY <5>1, <5>2, <5>3, <5>4
      <4> QED BY <4>1, <4>2
    <3> QED BY <3>1, <3>2
  <2>6. MapsMirrorChains' BY <1>13, <2>1, <2>5 DEF MapsMirrorChains
  <2>7. GrownFramesAreMapped'
    <3>1. Len(chain[h]) > IndexAt BY <1>14 DEF IInv, ViewsAgree, GrownFramesAreMapped
    <3>2. Len(chain'[h]) > IndexAt BY <1>2, <1>7, <3>1
    <3> QED BY <1>6, <1>14, <2>1, <3>2 DEF IInv, ViewsAgree, GrownFramesAreMapped
  <2> QED BY <1>11, <2>4, <2>6, <2>7 DEF IInv, ViewsAgree
<1>15. CASE h \notin DOMAIN index /\ Len(chain'[h]) > IndexAt
  <2> DEFINE M == MapOf(chain'[h], cell')
  <2>1. /\ DOMAIN index' = DOMAIN index \cup {h}
        /\ index' = [g \in DOMAIN index' |-> index'[g]]
        /\ \A g \in DOMAIN index : index'[g] = index[g]
        /\ index'[h] = M
    <3> HIDE DEF M
    <3>1. index' = With(index, h, M) BY <1>1, <1>15 DEF M
    <3> QED BY <1>15, <3>1 DEF With
  <2>2. DOMAIN M = { cell'[chain'[h][i]].name : i \in DOMAIN chain'[h] } BY DEF MapOf
  <2>3. ASSUME NEW i \in DOMAIN chain'[h]
        PROVE  M[cell'[chain'[h][i]].name] = chain'[h][i]
    <3> DEFINE P(k) == /\ cell'[chain'[h][k]].name = cell'[chain'[h][i]].name
                       /\ \A j \in 1..(k - 1) :
                            cell'[chain'[h][j]].name # cell'[chain'[h][i]].name
    <3>1. \A j \in DOMAIN chain'[h] :
            cell'[chain'[h][j]].name = cell'[chain'[h][i]].name => j = i
      BY <1>6, <1>11 DEF NamesAreUnique
    <3>2. P(i)
      <4>1. \A j \in 1..(i - 1) : j \in DOMAIN chain'[h] /\ j # i BY <1>7
      <4> QED BY <3>1, <4>1
    <3>3. (CHOOSE k \in DOMAIN chain'[h] : P(k)) = i BY <3>1, <3>2
    <3> QED BY <3>3 DEF MapOf
  <2>4. M \in [DOMAIN M -> DOMAIN cell']
    <3>1. M = [m \in DOMAIN M |-> M[m]] BY DEF MapOf
    <3>2. \A i \in DOMAIN chain'[h] : chain'[h][i] \in DOMAIN cell' BY <1>6, <1>10
    <3> QED BY <2>2, <2>3, <3>1, <3>2
  <2>5. ChainTypes'
    BY <1>3, <1>4, <1>6, <1>10, <2>1, <2>4 DEF IInv, ChainTypes
  <2>6. Mirrors(M, h) BY <2>2, <2>3
  <2>7. MapsMirrorChains' BY <1>13, <1>15, <2>1, <2>6 DEF MapsMirrorChains
  <2>8. GrownFramesAreMapped'
    BY <1>6, <1>15, <2>1 DEF IInv, ViewsAgree, GrownFramesAreMapped
  <2> QED BY <1>11, <2>5, <2>7, <2>8 DEF IInv, ViewsAgree
<1>16. CASE h \notin DOMAIN index /\ ~(Len(chain'[h]) > IndexAt)
  <2>1. UNCHANGED index BY <1>1, <1>16
  <2>2. ChainTypes'
    BY <1>3, <1>4, <1>6, <1>10, <2>1 DEF IInv, ChainTypes
  <2>3. MapsMirrorChains' BY <1>13, <1>16, <2>1 DEF MapsMirrorChains
  <2>4. GrownFramesAreMapped'
    BY <1>6, <1>16, <2>1 DEF IInv, ViewsAgree, GrownFramesAreMapped
  <2> QED BY <1>11, <2>2, <2>3, <2>4 DEF IInv, ViewsAgree
<1> QED BY <1>14, <1>15, <1>16

(* A collection keeps the frames in reach with the whole of their chains,  *)
(* and the maps of those frames.                                           *)
LEMMA CollectKeepsViews ==
  ASSUME IInv, Collect
  PROVE  IInv'
<1> DEFINE R == Reach
<1>1. R \subseteq Frame BY DEF Reach
<1>2. /\ Frame' = R
      /\ chain' = [h \in R |-> chain[h]]
      /\ DOMAIN index' = DOMAIN index \cap R
      /\ index' = [h \in DOMAIN index' |-> index[h]]
      /\ DOMAIN cell' = LiveCells \cap DOMAIN cell
      /\ cell' = [c \in DOMAIN cell' |-> cell[c]]
  BY DEF Collect, Restrict, Frame, Purged
<1>3. \A h \in R : chain'[h] = chain[h] /\ chain[h] \in Seq(DOMAIN cell)
  BY <1>1, <1>2 DEF IInv, ChainTypes
<1>4. \A h \in R : \A i \in DOMAIN chain[h] :
        chain[h][i] \in DOMAIN cell' /\ cell'[chain[h][i]] = cell[chain[h][i]]
  <2> SUFFICES ASSUME NEW h \in R, NEW i \in DOMAIN chain[h]
               PROVE  chain[h][i] \in DOMAIN cell' /\ cell'[chain[h][i]] = cell[chain[h][i]]
    OBVIOUS
  <2>1. chain[h][i] \in DOMAIN cell BY <1>3
  <2>2. chain[h][i] \in LiveCells BY DEF LiveCells, ToSet
  <2> QED BY <1>2, <2>1, <2>2
<1>5. chain' \in [R -> Seq(DOMAIN cell')]
  <2>1. ASSUME NEW h \in R PROVE chain[h] \in Seq(DOMAIN cell')
    <3>1. /\ Len(chain[h]) \in Nat /\ DOMAIN chain[h] = 1..Len(chain[h])
          /\ chain[h] = [i \in 1..Len(chain[h]) |-> chain[h][i]]
      BY <1>3
    <3>2. chain[h] \in [1..Len(chain[h]) -> DOMAIN cell'] BY <1>4, <3>1
    <3> QED BY <3>1, <3>2
  <2> QED BY <1>2, <2>1
<1>6. cell' \in [DOMAIN cell' -> [name : Name, val : Value]]
  BY <1>2 DEF IInv, ChainTypes
<1>7. \A h \in DOMAIN index' : h \in R /\ h \in DOMAIN index /\ index'[h] = index[h]
  BY <1>2
<1>8. ASSUME NEW h \in DOMAIN index'
      PROVE  index'[h] \in [DOMAIN index'[h] -> DOMAIN cell']
  <2>1. index[h] = [m \in DOMAIN index[h] |-> index[h][m]]
    BY <1>7 DEF IInv, ChainTypes
  <2>2. \A m \in DOMAIN index[h] : \E i \in DOMAIN chain[h] : index[h][m] = chain[h][i]
    BY <1>7 DEF IInv, ViewsAgree, MapsMirrorChains
  <2> QED BY <1>4, <1>7, <2>1, <2>2
<1>9. ChainTypes'
  BY <1>2, <1>5, <1>6, <1>7, <1>8 DEF ChainTypes
<1>10. NamesAreUnique'
  BY <1>1, <1>2, <1>3, <1>4 DEF IInv, ViewsAgree, NamesAreUnique
<1>11. MapsMirrorChains'
  BY <1>3, <1>4, <1>7 DEF IInv, ViewsAgree, MapsMirrorChains
<1>12. GrownFramesAreMapped'
  BY <1>1, <1>2, <1>3 DEF IInv, ViewsAgree, GrownFramesAreMapped
<1> QED BY <1>9, <1>10, <1>11, <1>12 DEF IInv, ViewsAgree

-----------------------------------------------------------------------------
LEMMA InitKeepsViews == Init => IInv
<1> SUFFICES ASSUME Init PROVE IInv
  OBVIOUS
<1>1. DOMAIN chain = {} /\ DOMAIN cell = {} /\ DOMAIN index = {}
  BY DEF Init, Empty
<1>2. ChainTypes BY <1>1 DEF Init, Empty, ChainTypes, Frame
<1>3. ViewsAgree
  BY <1>1 DEF ViewsAgree, NamesAreUnique, MapsMirrorChains, GrownFramesAreMapped, Frame
<1> QED BY <1>2, <1>3 DEF IInv

LEMMA NextKeepsViews == IInv /\ [Next]_vars => IInv'
<1> SUFFICES ASSUME IInv, [Next]_vars PROVE IInv'
  OBVIOUS
<1> USE DEF Reach
<1>1. CASE PushRoot BY <1>1, MakeKeepsViews DEF PushRoot
<1>2. CASE Push BY <1>2, MakeKeepsViews DEF Push
<1>3. ASSUME UNCHANGED <<chain, cell, index>> PROVE IInv'
  BY <1>3 DEF IInv, ChainTypes, ViewsAgree, NamesAreUnique, MapsMirrorChains,
              GrownFramesAreMapped, Frame
<1>4. CASE SetBase BY <1>3, <1>4 DEF SetBase
<1>5. ASSUME NEW h \in Frame, NEW n, NEW v \in Value, Rebind(h, n, v) PROVE IInv'
  BY <1>5, WriteKeepsViews DEF Rebind
<1>6. CASE Bind BY <1>5, <1>6, NewCellKeepsViews DEF Bind
<1>7. CASE SetExisting BY <1>5, <1>7 DEF SetExisting
<1>8. CASE WriteThroughTree BY <1>8, WriteKeepsViews DEF WriteThroughTree
<1>9. CASE Drop BY <1>3, <1>9 DEF Drop
<1>10. CASE Collect BY <1>10, CollectKeepsViews
<1>11. CASE UNCHANGED vars BY <1>3, <1>11 DEF vars
<1> QED BY <1>1, <1>2, <1>4, <1>6, <1>7, <1>8, <1>9, <1>10, <1>11 DEF Next

(* The index is "a cache over the chain -- every write path updates both"  *)
(* (env.rs:17), at every step, a collection and the reuse of an address    *)
(* included.                                                               *)
THEOREM MapsAndChainsAgree == Spec => []ViewsAgree
<1>1. IInv => ViewsAgree BY DEF IInv
<1> QED BY <1>1, InitKeepsViews, NextKeepsViews, PTL DEF Spec

(* Looking a name up -- in the map or along the chain -- finds the one     *)
(* cell that the frame's chain has for it.                                 *)
FindsTheCell ==
  \A h \in Frame, n \in Name :
    Find(h, n) = { chain[h][i] : i \in { i \in DOMAIN chain[h] : cell[chain[h][i]].name = n } }

(* What is found through the map is what a walk of the chain would find:   *)
(* find_in_frame never falls back to the chain of a grown frame, and need  *)
(* not.                                                                    *)
THEOREM LookupIsExact == Spec => []FindsTheCell
<1>1. IInv => FindsTheCell
  <2> SUFFICES ASSUME IInv, NEW h \in Frame, NEW n \in Name
               PROVE  Find(h, n) = { chain[h][i] : i \in { i \in DOMAIN chain[h] :
                                                            cell[chain[h][i]].name = n } }
    BY DEF FindsTheCell
  <2>1. ASSUME NEW c \in Find(h, n)
        PROVE  \E i \in DOMAIN chain[h] : chain[h][i] = c /\ cell[chain[h][i]].name = n
    BY <2>1, FoundIsACell
  <2>2. ASSUME NEW i \in DOMAIN chain[h], cell[chain[h][i]].name = n
        PROVE  chain[h][i] \in Find(h, n)
    <3>1. Find(h, n) # {} BY <2>2, NotFoundIsAbsent
    <3>2. PICK c \in Find(h, n) : TRUE BY <3>1
    <3>3. PICK j \in DOMAIN chain[h] : chain[h][j] = c /\ cell[chain[h][j]].name = n
      BY <3>2, FoundIsACell
    <3>4. j = i BY <2>2, <3>3 DEF IInv, ViewsAgree, NamesAreUnique
    <3> QED BY <3>2, <3>3, <3>4
  <2> QED BY <2>1, <2>2
<1> QED BY <1>1, InitKeepsViews, NextKeepsViews, PTL DEF Spec

-----------------------------------------------------------------------------
(* The first so many of a sequence, also of one that is longer by one.     *)
LEMMA Beginnings ==
  ASSUME NEW S, NEW s \in Seq(S), NEW k \in 0..Len(s)
  PROVE  LET b == SubSeq(s, 1, k)
         IN  /\ b \in Seq(S) /\ Len(b) = k /\ DOMAIN b = 1..k
             /\ \A i \in 1..k : b[i] = s[i]
             /\ \A j \in 0..k : SubSeq(b, 1, j) = SubSeq(s, 1, j)
             /\ \A x \in S : SubSeq(Append(s, x), 1, k) = b
<1> DEFINE b == SubSeq(s, 1, k)
<1>1. ASSUME NEW r \in Seq(S), NEW n \in 0..Len(r)
      PROVE  /\ SubSeq(r, 1, n) \in Seq(S) /\ Len(SubSeq(r, 1, n)) = n
             /\ \A i \in 1..n : SubSeq(r, 1, n)[i] = r[i]
  <2>1. Len(r) \in Nat /\ DOMAIN r = 1..Len(r) BY LenProperties
  <2>2. \A i \in 1..n : r[i] \in S BY <2>1, ElementOfSeq
  <2> QED BY <2>1, <2>2, SubSeqProperties
<1>2. Len(s) \in Nat BY LenProperties
<1>3. b \in Seq(S) /\ Len(b) = k /\ \A i \in 1..k : b[i] = s[i] BY <1>1
<1>4. DOMAIN b = 1..k BY <1>3, LenProperties
<1> HIDE DEF b
<1>5. ASSUME NEW j \in 0..k PROVE SubSeq(b, 1, j) = SubSeq(s, 1, j)
  <2>1. j \in 0..Len(s) /\ j \in 0..Len(b) BY <1>2, <1>3
  <2>2. /\ SubSeq(b, 1, j) \in Seq(S) /\ SubSeq(s, 1, j) \in Seq(S)
        /\ Len(SubSeq(b, 1, j)) = j /\ Len(SubSeq(s, 1, j)) = j
        /\ \A i \in 1..j : SubSeq(b, 1, j)[i] = SubSeq(s, 1, j)[i]
    BY <1>1, <1>3, <2>1
  <2> QED BY <2>2, SeqEqual
<1>6. ASSUME NEW x \in S PROVE SubSeq(Append(s, x), 1, k) = b
  <2>1. /\ Append(s, x) \in Seq(S) /\ Len(Append(s, x)) = Len(s) + 1
        /\ \A i \in 1..Len(s) : Append(s, x)[i] = s[i]
    BY AppendProperties
  <2>2. /\ SubSeq(Append(s, x), 1, k) \in Seq(S) /\ Len(SubSeq(Append(s, x), 1, k)) = k
        /\ \A i \in 1..k : SubSeq(Append(s, x), 1, k)[i] = Append(s, x)[i]
    BY <1>1, <1>2, <2>1
  <2>3. \A i \in 1..k : SubSeq(Append(s, x), 1, k)[i] = b[i] BY <1>2, <1>3, <2>1, <2>2
  <2> QED BY <1>3, <2>2, <2>3, SeqEqual
<1> QED BY <1>3, <1>4, <1>5, <1>6 DEF b

-----------------------------------------------------------------------------
(* The search tree.                                                        *)

(* A tree is given by the paths to its nodes: each is below a node on one  *)
(* side, and there is a longest.                                           *)
IsTree(t) ==
  /\ t = [p \in DOMAIN t |-> t[p]]
  /\ DOMAIN t \subseteq Seq({"left", "right"})
  /\ \A p \in DOMAIN t : \A i \in DOMAIN p : SubSeq(p, 1, i - 1) \in DOMAIN t
  /\ \E n \in Nat : \A p \in DOMAIN t : Len(p) < n

(* Its nodes have cells with names, and at each node the way to the left   *)
(* leads to what is less, the way to the right to what is greater.         *)
Ordered(t, names) ==
  /\ \A p \in DOMAIN t : names[t[p]].name \in Nat
  /\ \A q \in DOMAIN t : \A i \in DOMAIN q :
       LET p == SubSeq(q, 1, i - 1)
       IN  IF q[i] = "left" THEN names[t[q]].name < names[t[p]].name
                            ELSE names[t[q]].name > names[t[p]].name

(* The way down a tree comes to an end: at the node that has the name, or  *)
(* where there is none.                                                    *)
LEMMA SeatIsFound ==
  ASSUME NEW t, NEW names, NEW key, IsTree(t)
  PROVE  LET p == Seat(t, names, key)
         IN  /\ p \in Places(t) /\ Leads(t, names, key, p)
             /\ p \in DOMAIN t => names[t[p]].name = key
<1> DEFINE Sides == {"left", "right"}
           D == { p \in Places(t) : Leads(t, names, key, p) }
<1>1. PICK n \in Nat : \A p \in DOMAIN t : Len(p) < n BY DEF IsTree
<1>2. \A q \in DOMAIN t : q \in Seq(Sides) /\ Len(q) \in Nat
  BY LenProperties DEF IsTree
<1>3. \A p \in Places(t) : p \in Seq(Sides) /\ Len(p) \in Nat /\ Len(p) <= n
  <2> SUFFICES ASSUME NEW p \in Places(t) PROVE p \in Seq(Sides) /\ Len(p) \in Nat /\ Len(p) <= n
    OBVIOUS
  <2>1. CASE p = <<>> BY <2>1
  <2>2. CASE p # <<>>
    <3>1. PICK q \in DOMAIN t, s \in Sides : p = Append(q, s) BY <2>2 DEF Places
    <3>2. q \in Seq(Sides) /\ Len(q) \in Nat /\ Len(q) < n BY <1>1, <1>2
    <3>3. p \in Seq(Sides) /\ Len(p) = Len(q) + 1 BY <3>1, <3>2, AppendProperties
    <3> QED BY <3>2, <3>3
  <2> QED BY <2>1, <2>2
<1>4. <<>> \in D BY DEF Places, Leads
<1>5. PICK p \in D : \A q \in D : Len(q) <= Len(p)
  <2> DEFINE T == { n - Len(p) : p \in D }
  <2>1. T \in SUBSET Nat BY <1>3
  <2>2. T # {} BY <1>4
  <2> HIDE DEF D
  <2>3. PICK m \in T : \A j \in T : m <= j BY <2>1, <2>2, LeastOf
  <2>4. PICK p \in D : m = n - Len(p) BY <2>3
  <2>5. \A q \in D : n - Len(p) <= n - Len(q) BY <2>3, <2>4
  <2>6. \A q \in D : Len(q) \in Nat BY <1>3 DEF D
  <2>7. \A q \in D : Len(q) <= Len(p) BY <2>4, <2>5, <2>6
  <2> QED BY <2>7
<1>6. ASSUME p \in DOMAIN t, names[t[p]].name # key PROVE FALSE
  <2> DEFINE s == Side(key, names[t[p]].name)
             q == Append(p, s)
  <2>1. s \in Sides BY DEF Side
  <2>2. q \in Places(t) BY <1>6, <2>1 DEF Places
  <2>3. p \in Seq(Sides) /\ Len(p) \in Nat BY <1>3
  <2> HIDE DEF s
  <2>4. /\ q \in Seq(Sides) /\ Len(q) = Len(p) + 1 /\ DOMAIN q = 1..Len(p) + 1
        /\ DOMAIN p = 1..Len(p)
        /\ \A i \in 1..Len(p) : q[i] = p[i]
        /\ q[Len(p) + 1] = s
    BY <2>1, <2>3, Pushed
  <2>5. ASSUME NEW i \in 1..Len(p) + 1
        PROVE  SubSeq(q, 1, i - 1) = SubSeq(p, 1, i - 1)
    <3>1. i - 1 \in 0..Len(p) BY <2>3
    <3> QED BY <2>1, <2>3, <3>1, Beginnings
  <2>6. SubSeq(q, 1, Len(p)) = p
    <3>1. Len(p) + 1 \in 1..Len(p) + 1 /\ (Len(p) + 1) - 1 = Len(p) BY <2>3
    <3>2. SubSeq(q, 1, Len(p)) = SubSeq(p, 1, Len(p)) BY <2>5, <3>1
    <3> QED BY <2>3, <3>2, SubSeqFull
  <2> HIDE DEF q
  <2>7. Leads(t, names, key, q)
    <3> SUFFICES ASSUME NEW i \in DOMAIN q
                 PROVE  LET r == SubSeq(q, 1, i - 1)
                        IN  /\ r \in DOMAIN t /\ names[t[r]].name # key
                            /\ q[i] = Side(key, names[t[r]].name)
      BY DEF Leads
    <3>1. CASE i = Len(p) + 1
      <4>1. i - 1 = Len(p) BY <2>3, <3>1
      <4> QED BY <1>6, <2>4, <2>6, <3>1, <4>1 DEF s
    <3>2. CASE i # Len(p) + 1
      <4>1. i \in DOMAIN p /\ i \in 1..Len(p) + 1 BY <2>3, <2>4, <3>2
      <4>2. SubSeq(q, 1, i - 1) = SubSeq(p, 1, i - 1) /\ q[i] = p[i] BY <2>4, <2>5, <4>1
      <4> QED BY <4>1, <4>2 DEF Leads
    <3> QED BY <3>1, <3>2
  <2>8. q \in D BY <2>2, <2>7
  <2>9. Len(q) <= Len(p) BY <1>5, <2>8
  <2> QED BY <2>3, <2>4, <2>9
<1> HIDE DEF D
<1>7. \E r \in Places(t) : /\ Leads(t, names, key, r)
                           /\ r \in DOMAIN t => names[t[r]].name = key
  BY <1>6 DEF D
<1> QED BY <1>7 DEF Seat

(* A cell whose name is not in a tree takes a place of its own there.      *)
LEMMA InsertGrows ==
  ASSUME NEW t, NEW names, NEW c, IsTree(t), Ordered(t, names), names[c].name \in Nat,
         \A p \in DOMAIN t : names[t[p]].name # names[c].name
  PROVE  LET u == TreeInsert(t, names, c)
         IN  IsTree(u) /\ Ordered(u, names) /\ Range(u) = Range(t) \cup {c}
<1> DEFINE key == names[c].name
           p == Seat(t, names, key)
           u == TreeInsert(t, names, c)
<1>1. p \in Places(t) /\ Leads(t, names, key, p) /\ p \notin DOMAIN t
  BY SeatIsFound
<1>2. u = With(t, p, c) BY <1>1 DEF TreeInsert
<1> HIDE DEF p, u
<1>3. /\ DOMAIN u = DOMAIN t \cup {p} /\ u[p] = c
      /\ \A q \in DOMAIN t : u[q] = t[q]
      /\ u = [q \in DOMAIN u |-> u[q]]
  BY <1>1, <1>2 DEF With
<1>4. p \in Seq({"left", "right"}) /\ Len(p) \in Nat
  <2>1. CASE p = <<>> BY <2>1
  <2>2. CASE p # <<>>
    <3>1. PICK q \in DOMAIN t, s \in {"left", "right"} : p = Append(q, s) BY <1>1, <2>2 DEF Places
    <3>2. q \in Seq({"left", "right"}) BY DEF IsTree
    <3> QED BY <3>1, <3>2, AppendProperties, LenProperties
  <2> QED BY <2>1, <2>2
<1>5. \A i \in DOMAIN p : /\ SubSeq(p, 1, i - 1) \in DOMAIN t
                          /\ p[i] = Side(key, names[t[SubSeq(p, 1, i - 1)]].name)
  BY <1>1 DEF Leads
<1>6. IsTree(u)
  <2>1. DOMAIN u \subseteq Seq({"left", "right"}) BY <1>3, <1>4 DEF IsTree
  <2>2. \A q \in DOMAIN u : \A i \in DOMAIN q : SubSeq(q, 1, i - 1) \in DOMAIN u
    BY <1>3, <1>5 DEF IsTree
  <2>3. \E n \in Nat : \A q \in DOMAIN u : Len(q) < n
    <3>1. PICK n \in Nat : \A q \in DOMAIN t : Len(q) < n BY DEF IsTree
    <3>2. \A q \in DOMAIN t : Len(q) \in Nat BY LenProperties DEF IsTree
    <3>3. \A q \in DOMAIN u : Len(q) < n + Len(p) + 1 BY <1>3, <1>4, <3>1, <3>2
    <3> QED BY <1>4, <3>3
  <2> QED BY <1>3, <2>1, <2>2, <2>3 DEF IsTree
<1>7. Ordered(u, names)
  <2>1. \A q \in DOMAIN u : names[u[q]].name \in Nat BY <1>3 DEF Ordered
  <2>2. ASSUME NEW q \in DOMAIN u, NEW i \in DOMAIN q
        PROVE  LET r == SubSeq(q, 1, i - 1)
               IN  IF q[i] = "left" THEN names[u[q]].name < names[u[r]].name
                                    ELSE names[u[q]].name > names[u[r]].name
    <3> DEFINE r == SubSeq(q, 1, i - 1)
    <3>1. CASE q \in DOMAIN t
      <4>1. r \in DOMAIN t BY <3>1 DEF IsTree
      <4>2. u[q] = t[q] /\ u[r] = t[r] BY <1>3, <3>1, <4>1
      <4>3. IF q[i] = "left" THEN names[t[q]].name < names[t[r]].name
                             ELSE names[t[q]].name > names[t[r]].name
        BY <3>1 DEF Ordered
      <4> QED BY <4>2, <4>3
    <3>2. CASE q = p
      <4>1. r \in DOMAIN t /\ q[i] = Side(key, names[t[r]].name) BY <1>5, <3>2
      <4>2. u[q] = c /\ u[r] = t[r] BY <1>3, <3>2, <4>1
      <4>3. names[t[r]].name \in Nat /\ names[t[r]].name # key /\ key \in Nat
        BY <4>1 DEF Ordered
      <4> HIDE DEF r
      <4>4. IF q[i] = "left" THEN key < names[t[r]].name ELSE key > names[t[r]].name
        BY <4>1, <4>3 DEF Side
      <4> QED BY <4>2, <4>4 DEF r
    <3> QED BY <1>3, <3>1, <3>2
  <2> QED BY <2>1, <2>2 DEF Ordered
<1>8. Range(u) = Range(t) \cup {c} BY <1>1, <1>3 DEF Range
<1> QED BY <1>6, <1>7, <1>8 DEF u

(* Cells put into a tree one after the other: f has the tree after each.   *)
Builds(f, t, names, s) ==
  f = [i \in 0..Len(s) |-> IF i = 0 THEN t ELSE TreeInsert(f[i - 1], names, s[i])]
LEMMA BuiltStepwise ==
  ASSUME NEW t, NEW names, NEW s, Len(s) \in Nat
  PROVE  \E f : Builds(f, t, names, s) /\ Backfill(t, names, s) = f[Len(s)]
<1> DEFINE Step(f, i) == TreeInsert(f[i - 1], names, s[i])
           Built(f, n) == f = [i \in 0..n |-> IF i = 0 THEN t ELSE Step(f, i)]
           T == { n \in 0..Len(s) : ~ \E f : Built(f, n) }
<1>1. T = {}
  <2> SUFFICES ASSUME T # {} PROVE FALSE
    OBVIOUS
  <2>1. PICK n \in T : \A m \in T : n <= m
    <3>1. T \in SUBSET Nat OBVIOUS
    <3> HIDE DEF T
    <3> QED BY <3>1, LeastOf
  <2>2. n # 0
    <3>1. Built([i \in 0..0 |-> t], 0) OBVIOUS
    <3> QED BY <2>1, <3>1
  <2>3. n - 1 \in 0..Len(s) /\ ~(n <= n - 1) BY <2>1, <2>2
  <2>4. PICK f : Built(f, n - 1) BY <2>1, <2>3
  <2> DEFINE g == [i \in 0..n |-> IF i = n THEN TreeInsert(f[n - 1], names, s[n]) ELSE f[i]]
  <2>5. Built(g, n)
    <3>1. ASSUME NEW i \in 0..n PROVE g[i] = IF i = 0 THEN t ELSE Step(g, i)
      <4>1. CASE i = n
        <5>1. g[n - 1] = f[n - 1] BY <2>2, <2>3, <4>1
        <5> QED BY <2>2, <4>1, <5>1
      <4>2. CASE i # n
        <5>1. i \in 0..(n - 1) /\ (i # 0 => i - 1 \in 0..n /\ i - 1 # n) BY <4>2
        <5>2. f[i] = IF i = 0 THEN t ELSE Step(f, i) BY <2>4, <5>1
        <5>3. i # 0 => g[i - 1] = f[i - 1] BY <5>1
        <5> QED BY <4>2, <5>2, <5>3
      <4> QED BY <4>1, <4>2
    <3> QED BY <3>1
  <2> QED BY <2>1, <2>5
<1>2. PICK g : Built(g, Len(s)) BY <1>1
<1> DEFINE built == CHOOSE f : Built(f, Len(s))
<1>3. Built(built, Len(s)) BY <1>2
<1>4. Backfill(t, names, s) = built[Len(s)] BY DEF Backfill
<1> HIDE DEF built
<1> QED BY <1>3, <1>4 DEF Builds

(* A tree made of the cells of a frame, which has one for each name.       *)
LEMMA BackfillGrows ==
  ASSUME NEW names, NEW C, NEW s \in Seq(C),
         \A i \in DOMAIN s : names[s[i]].name \in Nat,
         \A i, j \in DOMAIN s : names[s[i]].name = names[s[j]].name => i = j
  PROVE  LET u == Backfill(Empty, names, s)
         IN  IsTree(u) /\ Ordered(u, names) /\ Range(u) = ToSet(s)
<1>1. Len(s) \in Nat /\ DOMAIN s = 1..Len(s) BY LenProperties
<1>2. PICK f : Builds(f, Empty, names, s) /\ Backfill(Empty, names, s) = f[Len(s)]
  BY <1>1, BuiltStepwise
<1> DEFINE Fine(n) == /\ IsTree(f[n]) /\ Ordered(f[n], names)
                      /\ Range(f[n]) = { s[i] : i \in 1..n }
           T == { n \in 0..Len(s) : ~Fine(n) }
<1>3. T = {}
  <2> SUFFICES ASSUME T # {} PROVE FALSE
    OBVIOUS
  <2>1. PICK n \in T : \A m \in T : n <= m
    <3>1. T \in SUBSET Nat BY <1>1
    <3> HIDE DEF T
    <3> QED BY <3>1, LeastOf
  <2>2. n # 0
    <3>1. f[0] = Empty BY <1>1, <1>2 DEF Builds
    <3>2. IsTree(Empty)
      <4>1. DOMAIN Empty = {} /\ Empty = [p \in DOMAIN Empty |-> Empty[p]] BY DEF Empty
      <4> QED BY <4>1 DEF IsTree
    <3>3. Ordered(Empty, names) /\ Range(Empty) = {} BY DEF Ordered, Range, Empty
    <3>4. { s[i] : i \in 1..0 } = {} OBVIOUS
    <3>5. Fine(0) BY <3>1, <3>2, <3>3, <3>4
    <3> HIDE DEF Fine
    <3> QED BY <2>1, <3>5
  <2>3. n - 1 \in 0..Len(s) /\ ~(n <= n - 1) /\ n \in 1..Len(s) BY <1>1, <2>1, <2>2
  <2>4. Fine(n - 1)
    <3> HIDE DEF Fine
    <3> QED BY <2>1, <2>3
  <2> DEFINE t == f[n - 1]
             c == s[n]
  <2>5. f[n] = TreeInsert(t, names, c)
    <3>1. n \in 0..Len(s) /\ n # 0 BY <2>1, <2>2
    <3> QED BY <1>2, <3>1 DEF Builds
  <2>6. names[c].name \in Nat BY <1>1, <2>3
  <2>7. \A p \in DOMAIN t : names[t[p]].name # names[c].name
    <3> SUFFICES ASSUME NEW p \in DOMAIN t, names[t[p]].name = names[c].name PROVE FALSE
      OBVIOUS
    <3>1. t[p] \in Range(t) BY DEF Range
    <3>2. PICK i \in 1..(n - 1) : t[p] = s[i] BY <2>4, <3>1
    <3>3. i \in DOMAIN s /\ n \in DOMAIN s /\ i # n BY <1>1, <2>3
    <3> QED BY <3>2, <3>3
  <2> HIDE DEF t, c
  <2>8. IsTree(t) /\ Ordered(t, names) /\ Range(t) = { s[i] : i \in 1..(n - 1) } BY <2>4 DEF t
  <2>9. IsTree(f[n]) /\ Ordered(f[n], names) /\ Range(f[n]) = Range(t) \cup {c}
    BY <2>5, <2>6, <2>7, <2>8, InsertGrows
  <2>10. { s[i] : i \in 1..n } = { s[i] : i \in 1..(n - 1) } \cup {c}
    <3>1. 1..n = 1..(n - 1) \cup {n} BY <2>3
    <3> QED BY <3>1 DEF c
  <2>11. Fine(n) BY <2>8, <2>9, <2>10
  <2> QED BY <2>1, <2>11
<1>4. Fine(Len(s))
  <2> HIDE DEF Fine
  <2> QED BY <1>1, <1>3
<1>5. ToSet(s) = { s[i] : i \in 1..Len(s) } BY <1>1 DEF ToSet
<1> QED BY <1>2, <1>4, <1>5

-----------------------------------------------------------------------------
(* The trees of the bases.                                                 *)

FrameTypes ==
  /\ Frame \subseteq Holder /\ held \subseteq Frame
  /\ parent \in [Frame -> Frame \cup {Nil}]
  /\ base \in [Frame -> Base \cup {Nil}]
  /\ tree = [b \in DOMAIN tree |-> tree[b]] /\ DOMAIN tree \subseteq Base

CellsAreOwned ==
  \A h, g \in Frame : \A i \in DOMAIN chain[h], j \in DOMAIN chain[g] :
    chain[h][i] = chain[g][j] => h = g

(* Outward from a frame that serves a base there is a root that does: so   *)
(* that a collection which keeps the frame keeps the cells in its tree.    *)
BasesAreRooted ==
  /\ \A h \in Frame : base[h] # Nil =>
       /\ base[h] \in DOMAIN tree
       /\ \A S \in SUBSET Frame : h \in S /\ Outwards(S) =>
            \E r \in S : IsRoot(r) /\ base[r] = base[h]
  /\ \A b \in DOMAIN tree : \E h \in Frame : base[h] = b

OneRootEach ==
  \A h, g \in Frame : IsRoot(h) /\ IsRoot(g) /\ base[h] # Nil /\ base[h] = base[g] => h = g

TreesMirrorRoots ==
  \A r \in Frame : IsRoot(r) /\ base[r] # Nil =>
    /\ IsTree(tree[base[r]]) /\ Ordered(tree[base[r]], cell)
    /\ Range(tree[base[r]]) = ToSet(chain[r])

TreesAgree ==
  FrameTypes /\ CellsAreOwned /\ BasesAreRooted /\ OneRootEach /\ TreesMirrorRoots
JInv == IInv /\ TreesAgree

(* The order of a tree is in the names of its cells.                       *)
LEMMA OrderIsInNames ==
  ASSUME NEW t, NEW f, NEW g, IsTree(t), Ordered(t, f),
         \A p \in DOMAIN t : g[t[p]].name = f[t[p]].name
  PROVE  Ordered(t, g)
<1>1. \A q \in DOMAIN t : \A i \in DOMAIN q : SubSeq(q, 1, i - 1) \in DOMAIN t BY DEF IsTree
<1> QED BY <1>1 DEF Ordered

(* As TreeIsOrdered says it.                                               *)
LEMMA OrderedByPrefix ==
  ASSUME NEW t, NEW names, IsTree(t), Ordered(t, names),
         NEW p \in DOMAIN t, NEW q \in DOMAIN t
  PROVE  /\ IsPrefix(Append(p, "left"), q)  => names[t[q]].name < names[t[p]].name
         /\ IsPrefix(Append(p, "right"), q) => names[t[q]].name > names[t[p]].name
<1> DEFINE Sides == {"left", "right"}
<1>1. /\ p \in Seq(Sides) /\ Len(p) \in Nat /\ DOMAIN p = 1..Len(p)
      /\ q \in Seq(Sides) /\ Len(q) \in Nat /\ DOMAIN q = 1..Len(q)
  BY LenProperties DEF IsTree
<1>2. ASSUME NEW s \in Sides, IsPrefix(Append(p, s), q)
      PROVE  /\ Len(p) + 1 \in DOMAIN q /\ q[Len(p) + 1] = s
             /\ SubSeq(q, 1, Len(p)) = p
  <2> DEFINE r == Append(p, s)
  <2>1. /\ r \in Seq(Sides) /\ Len(r) = Len(p) + 1 /\ r[Len(p) + 1] = s
        /\ \A i \in 1..Len(p) : r[i] = p[i]
    BY <1>1, AppendProperties
  <2>2. Len(r) <= Len(q) /\ SubSeq(r, 1, Len(r)) = SubSeq(q, 1, Len(r)) BY <1>2 DEF IsPrefix
  <2> HIDE DEF r
  <2>3. SubSeq(r, 1, Len(r)) = r BY <2>1, SubSeqFull
  <2>4. Len(r) \in 0..Len(q) /\ Len(p) \in 0..Len(q) BY <1>1, <2>1, <2>2
  <2>5. \A i \in 1..Len(r) : q[i] = r[i] BY <1>1, <2>2, <2>3, <2>4, Beginnings
  <2>6. /\ SubSeq(q, 1, Len(p)) \in Seq(Sides) /\ Len(SubSeq(q, 1, Len(p))) = Len(p)
        /\ \A i \in 1..Len(p) : SubSeq(q, 1, Len(p))[i] = q[i]
    BY <1>1, <2>4, Beginnings
  <2>7. \A i \in 1..Len(p) : SubSeq(q, 1, Len(p))[i] = p[i] BY <1>1, <2>1, <2>5, <2>6
  <2>8. SubSeq(q, 1, Len(p)) = p BY <1>1, <2>6, <2>7, SeqEqual
  <2> QED BY <1>1, <2>1, <2>2, <2>5, <2>8
<1>3. (Len(p) + 1) - 1 = Len(p) BY <1>1
<1>4. \A i \in DOMAIN q :
        LET r == SubSeq(q, 1, i - 1)
        IN  IF q[i] = "left" THEN names[t[q]].name < names[t[r]].name
                             ELSE names[t[q]].name > names[t[r]].name
  BY DEF Ordered
<1>5. ASSUME IsPrefix(Append(p, "left"), q) PROVE names[t[q]].name < names[t[p]].name
  <2>1. /\ Len(p) + 1 \in DOMAIN q /\ q[Len(p) + 1] = "left" /\ SubSeq(q, 1, Len(p)) = p
    BY <1>2, <1>5
  <2> QED BY <1>3, <1>4, <2>1
<1>6. ASSUME IsPrefix(Append(p, "right"), q) PROVE names[t[q]].name > names[t[p]].name
  <2>1. /\ Len(p) + 1 \in DOMAIN q /\ q[Len(p) + 1] = "right" /\ SubSeq(q, 1, Len(p)) = p
    BY <1>2, <1>6
  <2> QED BY <1>3, <1>4, <2>1
<1> QED BY <1>5, <1>6

(* What the invariant is for.                                              *)
LEMMA InvariantGivesMirror == JInv => TreeMirrorsRoot
<1> SUFFICES ASSUME JInv PROVE TreeMirrorsRoot
  OBVIOUS
<1>1. \A h \in Frame : IsRoot(h) /\ base[h] # Nil => Range(tree[base[h]]) = ToSet(chain[h])
  BY DEF JInv, TreesAgree, TreesMirrorRoots
<1>2. ASSUME NEW b \in DOMAIN tree PROVE IsTree(tree[b]) /\ Ordered(tree[b], cell)
  <2>1. PICK h \in Frame : base[h] = b BY DEF JInv, TreesAgree, BasesAreRooted
  <2>2. Outwards(Frame) BY DEF JInv, TreesAgree, FrameTypes, Outwards
  <2>3. b # Nil BY ConstantsAreApart DEF ConstantsAreApart, JInv, TreesAgree, FrameTypes
  <2>4. PICK r \in Frame : IsRoot(r) /\ base[r] = b
    BY <2>1, <2>2, <2>3 DEF JInv, TreesAgree, BasesAreRooted
  <2> QED BY <2>3, <2>4 DEF JInv, TreesAgree, TreesMirrorRoots
<1>3. TreeIsOrdered
  <2> SUFFICES ASSUME NEW b \in DOMAIN tree, NEW p \in DOMAIN tree[b], NEW q \in DOMAIN tree[b]
               PROVE  /\ IsPrefix(Append(p, "left"), q)
                           => cell[tree[b][q]].name < cell[tree[b][p]].name
                      /\ IsPrefix(Append(p, "right"), q)
                           => cell[tree[b][q]].name > cell[tree[b][p]].name
    BY DEF TreeIsOrdered
  <2> QED BY <1>2, OrderedByPrefix
<1> QED BY <1>1, <1>3 DEF TreeMirrorsRoot

LEMMA TreeCellsAreOnTheChain ==
  ASSUME JInv, NEW r \in Frame, IsRoot(r), base[r] # Nil, NEW p \in DOMAIN tree[base[r]]
  PROVE  /\ tree[base[r]][p] \in DOMAIN cell
         /\ \E i \in DOMAIN chain[r] : tree[base[r]][p] = chain[r][i]
<1>1. tree[base[r]][p] \in ToSet(chain[r])
  BY DEF JInv, TreesAgree, TreesMirrorRoots, Range
<1>2. PICK i \in DOMAIN chain[r] : tree[base[r]][p] = chain[r][i] BY <1>1 DEF ToSet
<1>3. chain[r] \in Seq(DOMAIN cell) BY DEF JInv, IInv, ChainTypes
<1> QED BY <1>2, <1>3

(* Nothing of this is about values, or about what is held.                 *)
LEMMA WriteKeepsTrees ==
  ASSUME JInv, UNCHANGED <<chain, parent, base, tree>>, held' \subseteq Frame,
         \A d \in DOMAIN cell : cell'[d].name = cell[d].name
  PROVE  TreesAgree'
<1>1. Frame' = Frame BY DEF Frame
<1>2. FrameTypes' BY <1>1 DEF JInv, TreesAgree, FrameTypes
<1>3. CellsAreOwned' BY <1>1 DEF JInv, TreesAgree, CellsAreOwned
<1>4. BasesAreRooted' /\ OneRootEach'
  BY <1>1 DEF JInv, TreesAgree, BasesAreRooted, OneRootEach, Outwards, IsRoot
<1>5. TreesMirrorRoots'
  <2> SUFFICES ASSUME NEW r \in Frame, IsRoot(r), base[r] # Nil
               PROVE  /\ IsTree(tree[base[r]]) /\ Ordered(tree[base[r]], cell')
                      /\ Range(tree[base[r]]) = ToSet(chain[r])
    BY <1>1 DEF TreesMirrorRoots, IsRoot
  <2>1. /\ IsTree(tree[base[r]]) /\ Ordered(tree[base[r]], cell)
        /\ Range(tree[base[r]]) = ToSet(chain[r])
    BY DEF JInv, TreesAgree, TreesMirrorRoots
  <2>2. \A p \in DOMAIN tree[base[r]] :
          cell'[tree[base[r]][p]].name = cell[tree[base[r]][p]].name
    BY TreeCellsAreOnTheChain
  <2> QED BY <2>1, <2>2, OrderIsInNames
<1> QED BY <1>2, <1>3, <1>4, <1>5 DEF TreesAgree

(* A frame is opened: under another, whose base it serves, or as a root    *)
(* that serves none.                                                       *)
LEMMA MakeKeepsTrees ==
  ASSUME JInv, NEW h \in Holder, h \notin Frame, NEW p, NEW b, Make(h, p, b),
         p \in Frame \cup {Nil}, p = Nil => b = Nil, p # Nil => b = base[p]
  PROVE  TreesAgree'
<1>1. /\ Frame' = Frame \cup {h}
      /\ chain' = [g \in Frame \cup {h} |-> IF g = h THEN <<>> ELSE chain[g]]
      /\ UNCHANGED <<cell, tree>>
      /\ held' = held \cup {h}
  BY DEF Make, With, Frame
<1>2. DOMAIN parent = Frame /\ DOMAIN base = Frame BY DEF JInv, TreesAgree, FrameTypes
<1>3. /\ parent' = [g \in Frame \cup {h} |-> IF g = h THEN p ELSE parent[g]]
      /\ base' = [g \in Frame \cup {h} |-> IF g = h THEN b ELSE base[g]]
  BY <1>2 DEF Make, With
<1>4. Nil \notin Frame /\ Nil # h
  BY ConstantsAreApart DEF ConstantsAreApart, JInv, TreesAgree, FrameTypes
<1>5. \A g \in Frame : /\ chain'[g] = chain[g] /\ parent'[g] = parent[g] /\ base'[g] = base[g]
                       /\ parent[g] \in Frame \cup {Nil}
  BY <1>1, <1>3 DEF JInv, TreesAgree, FrameTypes
<1>6. chain'[h] = <<>> /\ parent'[h] = p /\ base'[h] = b BY <1>1, <1>3
<1>7. FrameTypes'
  <2>1. b \in Base \cup {Nil} BY DEF JInv, TreesAgree, FrameTypes
  <2> QED BY <1>1, <1>3, <2>1 DEF JInv, TreesAgree, FrameTypes
<1>8. CellsAreOwned'
  BY <1>1, <1>5, <1>6 DEF JInv, TreesAgree, CellsAreOwned
<1>9. \A g \in Frame' : IsRoot(g)' /\ base'[g] # Nil => g \in Frame /\ IsRoot(g)
  BY <1>1, <1>4, <1>5, <1>6 DEF IsRoot
<1>10. BasesAreRooted'
  <2>1. ASSUME NEW g \in Frame, base[g] # Nil, NEW S \in SUBSET Frame', g \in S, Outwards(S)'
        PROVE  \E r \in S : r \in Frame /\ IsRoot(r) /\ base[r] = base[g]
    <3>1. S \ {h} \in SUBSET Frame BY <1>1
    <3>2. g \in S \ {h} BY <2>1
    <3>3. Outwards(S \ {h})
      BY <1>4, <1>5, <2>1, <3>1 DEF Outwards
    <3> QED BY <2>1, <3>1, <3>2, <3>3 DEF JInv, TreesAgree, BasesAreRooted
  <2>2. ASSUME NEW g \in Frame', base'[g] # Nil
        PROVE  /\ base'[g] \in DOMAIN tree'
               /\ \A S \in SUBSET Frame' : g \in S /\ Outwards(S)' =>
                    \E r \in S : IsRoot(r)' /\ base'[r] = base'[g]
    <3>1. PICK f \in Frame : base[f] = base'[g] /\ \A S : g \in S /\ Outwards(S)' => f \in S
      <4>1. CASE g = h
        <5>1. p \in Frame /\ b = base[p] BY <1>6, <2>2, <4>1
        <5>2. \A S : h \in S /\ Outwards(S)' => p \in S BY <1>4, <1>6, <5>1 DEF Outwards
        <5> QED BY <1>6, <4>1, <5>1, <5>2
      <4>2. CASE g # h BY <1>1, <1>5, <4>2
      <4> QED BY <4>1, <4>2
    <3>2. base'[g] \in DOMAIN tree' BY <1>1, <2>2, <3>1 DEF JInv, TreesAgree, BasesAreRooted
    <3>3. ASSUME NEW S \in SUBSET Frame', g \in S, Outwards(S)'
          PROVE  \E r \in S : IsRoot(r)' /\ base'[r] = base'[g]
      <4>1. PICK r \in S : r \in Frame /\ IsRoot(r) /\ base[r] = base[f]
        BY <2>1, <2>2, <3>1, <3>3
      <4> QED BY <1>5, <3>1, <4>1 DEF IsRoot
    <3> QED BY <3>2, <3>3
  <2>3. \A d \in DOMAIN tree' : \E g \in Frame' : base'[g] = d
    BY <1>1, <1>5 DEF JInv, TreesAgree, BasesAreRooted
  <2> QED BY <2>2, <2>3 DEF BasesAreRooted
<1>11. OneRootEach'
  BY <1>5, <1>9 DEF JInv, TreesAgree, OneRootEach
<1>12. TreesMirrorRoots'
  BY <1>1, <1>5, <1>9 DEF JInv, TreesAgree, TreesMirrorRoots
<1> QED BY <1>7, <1>8, <1>10, <1>11, <1>12 DEF TreesAgree

(* A base is made for a root: no frame serves it yet, and its tree is made *)
(* of the cells the root has by then.                                      *)
LEMMA SetBaseKeepsTrees ==
  ASSUME JInv, SetBase
  PROVE  TreesAgree'
<1>1. PICK h \in Reach, b \in Base \ DOMAIN tree :
        /\ IsRoot(h) /\ base[h] = Nil
        /\ base' = [base EXCEPT ![h] = b]
        /\ tree' = With(tree, b, Backfill(Empty, cell, chain[h]))
  BY DEF SetBase
<1>2. UNCHANGED <<chain, parent, cell, held>> BY DEF SetBase
<1>3. h \in Frame BY DEF Reach
<1>4. Frame' = Frame BY <1>2 DEF Frame
<1>5. b # Nil BY ConstantsAreApart DEF ConstantsAreApart
<1> DEFINE u == Backfill(Empty, cell, chain[h])
<1>6. /\ tree' = [d \in DOMAIN tree \cup {b} |-> IF d = b THEN u ELSE tree[d]]
      /\ base'[h] = b /\ \A g \in Frame : g # h => base'[g] = base[g]
      /\ base' \in [Frame -> Base \cup {Nil}]
  BY <1>1, <1>3 DEF With, JInv, TreesAgree, FrameTypes
<1>7. IsTree(u) /\ Ordered(u, cell) /\ Range(u) = ToSet(chain[h])
  <2>1. chain[h] \in Seq(DOMAIN cell) BY <1>3 DEF JInv, IInv, ChainTypes
  <2>2. \A i \in DOMAIN chain[h] : cell[chain[h][i]].name \in Nat
    BY <2>1, ConstantsAreApart DEF ConstantsAreApart, JInv, IInv, ChainTypes
  <2>3. \A i, j \in DOMAIN chain[h] :
          cell[chain[h][i]].name = cell[chain[h][j]].name => i = j
    BY <1>3 DEF JInv, IInv, ViewsAgree, NamesAreUnique
  <2> QED BY <2>1, <2>2, <2>3, BackfillGrows
<1> HIDE DEF u
<1>8. \A g \in Frame : base[g] # Nil => /\ g # h /\ base[g] \in DOMAIN tree /\ base[g] # b
                                        /\ base'[g] = base[g] /\ tree'[base[g]] = tree[base[g]]
  BY <1>1, <1>6 DEF JInv, TreesAgree, BasesAreRooted
<1>9. \A g \in Frame : base'[g] # Nil => g = h \/ base[g] # Nil BY <1>6
<1>10. FrameTypes' BY <1>2, <1>4, <1>6 DEF JInv, TreesAgree, FrameTypes
<1>11. CellsAreOwned' BY <1>2, <1>4 DEF JInv, TreesAgree, CellsAreOwned
<1>12. BasesAreRooted'
  <2>1. ASSUME NEW g \in Frame, base'[g] # Nil
        PROVE  /\ base'[g] \in DOMAIN tree'
               /\ \A S \in SUBSET Frame : g \in S /\ Outwards(S)' =>
                    \E r \in S : IsRoot(r)' /\ base'[r] = base'[g]
    <3>1. CASE g = h BY <1>1, <1>2, <1>6, <3>1 DEF IsRoot
    <3>2. CASE g # h
      <4>1. base[g] # Nil BY <1>9, <2>1, <3>2
      <4>2. ASSUME NEW S \in SUBSET Frame, g \in S, Outwards(S)'
            PROVE  \E r \in S : IsRoot(r)' /\ base'[r] = base'[g]
        <5>1. Outwards(S) BY <1>2, <4>2 DEF Outwards
        <5>2. PICK r \in S : IsRoot(r) /\ base[r] = base[g]
          BY <4>1, <4>2, <5>1 DEF JInv, TreesAgree, BasesAreRooted
        <5>3. base'[r] = base'[g] BY <1>8, <4>1, <5>2
        <5> QED BY <1>2, <5>2, <5>3 DEF IsRoot
      <4> QED BY <1>6, <1>8, <4>1, <4>2
    <3> QED BY <3>1, <3>2
  <2>2. \A d \in DOMAIN tree' : \E g \in Frame : base'[g] = d
    <3> SUFFICES ASSUME NEW d \in DOMAIN tree' PROVE \E g \in Frame : base'[g] = d
      OBVIOUS
    <3>1. CASE d = b BY <1>3, <1>6, <3>1
    <3>2. CASE d # b
      <4>1. d \in DOMAIN tree BY <1>6, <3>2
      <4>2. PICK g \in Frame : base[g] = d BY <4>1 DEF JInv, TreesAgree, BasesAreRooted
      <4>3. d # Nil
        BY <4>1, ConstantsAreApart DEF ConstantsAreApart, JInv, TreesAgree, FrameTypes
      <4> QED BY <1>8, <4>2, <4>3
    <3> QED BY <3>1, <3>2
  <2> QED BY <1>4, <2>1, <2>2 DEF BasesAreRooted
<1>13. OneRootEach'
  BY <1>2, <1>4, <1>6, <1>8, <1>9 DEF JInv, TreesAgree, OneRootEach, IsRoot
<1>14. TreesMirrorRoots'
  <2> SUFFICES ASSUME NEW r \in Frame, IsRoot(r), base'[r] # Nil
               PROVE  /\ IsTree(tree'[base'[r]]) /\ Ordered(tree'[base'[r]], cell)
                      /\ Range(tree'[base'[r]]) = ToSet(chain[r])
    BY <1>2, <1>4 DEF TreesMirrorRoots, IsRoot
  <2>1. CASE r = h BY <1>6, <1>7, <2>1
  <2>2. CASE r # h
    <3>1. base[r] # Nil /\ base'[r] = base[r] /\ tree'[base[r]] = tree[base[r]]
      BY <1>8, <1>9, <2>2
    <3> QED BY <3>1 DEF JInv, TreesAgree, TreesMirrorRoots
  <2> QED BY <2>1, <2>2
<1> QED BY <1>10, <1>11, <1>12, <1>13, <1>14 DEF TreesAgree

(* A cell bound in the root of a base takes a place in the tree: its name  *)
(* was not found, so it is not in the tree.                                *)
LEMMA NewCellKeepsTrees ==
  ASSUME JInv, NEW h \in Frame, NEW n \in Name, NEW v \in Value, NewCell(h, n, v),
         UNCHANGED <<parent, base, held>>
  PROVE  TreesAgree'
<1>1. PICK c \in Cell \ DOMAIN cell :
        /\ Find(h, n) = {}
        /\ cell' = With(cell, c, [name |-> n, val |-> v])
        /\ chain' = [chain EXCEPT ![h] = <<c>> \o @]
        /\ tree' = IF IsRoot(h) /\ base[h] # Nil
                     THEN [tree EXCEPT ![base[h]] = TreeInsert(@, cell', c)]
                     ELSE tree
  BY DEF NewCell
<1>2. cell'[c].name = n /\ \A d \in DOMAIN cell : cell'[d] = cell[d]
  BY <1>1 DEF With
<1>3. chain \in [Frame -> Seq(DOMAIN cell)] BY DEF JInv, IInv, ChainTypes
<1>4. /\ Frame' = Frame
      /\ \A g \in Frame : g # h => chain'[g] = chain[g]
      /\ chain'[h] = <<c>> \o chain[h]
  BY <1>1, <1>3 DEF Frame
<1>5. /\ DOMAIN chain'[h] = 1..Len(chain[h]) + 1
      /\ DOMAIN chain[h] = 1..Len(chain[h]) /\ Len(chain[h]) \in Nat
      /\ chain'[h][1] = c
      /\ \A i \in 1..Len(chain[h]) : chain'[h][i + 1] = chain[h][i]
  BY <1>3, <1>4
<1>6. ToSet(chain'[h]) = ToSet(chain[h]) \cup {c}
  <2>1. ASSUME NEW i \in DOMAIN chain'[h] PROVE chain'[h][i] \in ToSet(chain[h]) \cup {c}
    <3>1. CASE i = 1 BY <1>5, <3>1
    <3>2. CASE i # 1
      <4>1. i - 1 \in DOMAIN chain[h] /\ chain'[h][i] = chain[h][i - 1] BY <1>5, <3>2
      <4> QED BY <4>1 DEF ToSet
    <3> QED BY <3>1, <3>2
  <2>2. ASSUME NEW i \in DOMAIN chain[h] PROVE chain[h][i] \in ToSet(chain'[h])
    <3>1. i + 1 \in DOMAIN chain'[h] /\ chain'[h][i + 1] = chain[h][i] BY <1>5
    <3> QED BY <3>1 DEF ToSet
  <2>3. c \in ToSet(chain'[h])
    <3>1. 1 \in DOMAIN chain'[h] BY <1>5
    <3> QED BY <1>5, <3>1 DEF ToSet
  <2> QED BY <2>1, <2>2, <2>3 DEF ToSet
<1>7. \A g \in Frame : \A i \in DOMAIN chain[g] :
        chain[g][i] \in DOMAIN cell /\ chain[g][i] # c
  BY <1>1, <1>3
<1>8. \A g \in Frame : base[g] # Nil => base[g] \in DOMAIN tree
  BY DEF JInv, TreesAgree, BasesAreRooted
<1>9. FrameTypes'
  BY <1>1, <1>4 DEF JInv, TreesAgree, FrameTypes
<1>10. CellsAreOwned'
  <2>1. ASSUME NEW g \in Frame, g # h, NEW i \in DOMAIN chain'[g], NEW j \in DOMAIN chain'[h]
        PROVE  chain'[g][i] # chain'[h][j]
    <3>1. chain'[g] = chain[g] BY <1>4, <2>1
    <3>2. CASE j = 1 BY <1>5, <1>7, <3>1, <3>2
    <3>3. CASE j # 1
      <4>1. j - 1 \in DOMAIN chain[h] /\ chain'[h][j] = chain[h][j - 1] BY <1>5, <3>3
      <4> QED BY <2>1, <3>1, <4>1 DEF JInv, TreesAgree, CellsAreOwned
    <3> QED BY <3>2, <3>3
  <2>2. ASSUME NEW f \in Frame, NEW g \in Frame, f # h, g # h,
               NEW i \in DOMAIN chain'[f], NEW j \in DOMAIN chain'[g],
               chain'[f][i] = chain'[g][j]
        PROVE  f = g
    BY <1>4, <2>2 DEF JInv, TreesAgree, CellsAreOwned
  <2> SUFFICES ASSUME NEW f \in Frame, NEW g \in Frame, f # g,
                      NEW i \in DOMAIN chain'[f], NEW j \in DOMAIN chain'[g]
               PROVE  chain'[f][i] # chain'[g][j]
    BY <1>4 DEF CellsAreOwned
  <2> QED BY <2>1, <2>2
<1>11. DOMAIN tree' = DOMAIN tree BY <1>1
<1>12. BasesAreRooted' /\ OneRootEach'
  BY <1>4, <1>11 DEF JInv, TreesAgree, BasesAreRooted, OneRootEach, Outwards, IsRoot
<1>13. TreesMirrorRoots'
  <2> SUFFICES ASSUME NEW r \in Frame, IsRoot(r), base[r] # Nil
               PROVE  /\ IsTree(tree'[base[r]]) /\ Ordered(tree'[base[r]], cell')
                      /\ Range(tree'[base[r]]) = ToSet(chain'[r])
    BY <1>4 DEF TreesMirrorRoots, IsRoot
  <2> DEFINE t == tree[base[r]]
  <2>1. IsTree(t) /\ Ordered(t, cell) /\ Range(t) = ToSet(chain[r])
    BY DEF JInv, TreesAgree, TreesMirrorRoots
  <2>2. \A p \in DOMAIN t : /\ cell'[t[p]].name = cell[t[p]].name
                            /\ \E i \in DOMAIN chain[r] : t[p] = chain[r][i]
    BY <1>2, TreeCellsAreOnTheChain
  <2>3. CASE r # h
    <3>1. tree'[base[r]] = t
      <4>1. IsRoot(h) /\ base[h] # Nil => base[r] # base[h]
        BY <2>3 DEF JInv, TreesAgree, OneRootEach
      <4> QED BY <1>1, <4>1
    <3>2. chain'[r] = chain[r] BY <1>4, <2>3
    <3> HIDE DEF t
    <3>3. Ordered(t, cell') BY <2>1, <2>2, OrderIsInNames
    <3> QED BY <2>1, <3>1, <3>2, <3>3
  <2>4. CASE r = h
    <3>1. tree'[base[r]] = TreeInsert(t, cell', c) BY <1>1, <1>8, <2>4
    <3> HIDE DEF t
    <3>2. Ordered(t, cell') BY <2>1, <2>2, OrderIsInNames
    <3>3. \A p \in DOMAIN t : cell'[t[p]].name # cell'[c].name
      BY <1>1, <1>2, <2>2, <2>4, NotFoundIsAbsent DEF JInv
    <3>4. cell'[c].name \in Nat BY <1>2, ConstantsAreApart DEF ConstantsAreApart
    <3>5. LET u == TreeInsert(t, cell', c)
          IN  IsTree(u) /\ Ordered(u, cell') /\ Range(u) = Range(t) \cup {c}
      BY <2>1, <3>2, <3>3, <3>4, InsertGrows
    <3> QED BY <1>6, <2>1, <2>4, <3>1, <3>5
  <2> QED BY <2>3, <2>4
<1> QED BY <1>9, <1>10, <1>12, <1>13 DEF TreesAgree

(* A collection keeps, with a frame that serves a base, the root of that   *)
(* base: so a tree that is kept has all its cells.                         *)
LEMMA ReachIsOutwards ==
  ASSUME JInv
  PROVE  Reach \in SUBSET Frame /\ Outwards(Reach)
<1>1. Reach \in SUBSET Frame BY DEF Reach
<1>2. ASSUME NEW g \in Reach PROVE parent[g] \in Reach \cup {Nil}
  <2>1. PICK f \in held : g \in Outward(f) BY DEF Reach
  <2>2. CASE parent[g] # Nil
    <3>1. parent[g] \in Frame BY <1>1, <2>2 DEF JInv, TreesAgree, FrameTypes
    <3>2. parent[g] \in Outward(f)
      <4> SUFFICES ASSUME NEW S \in SUBSET Frame, f \in S, Outwards(S) PROVE parent[g] \in S
        BY <3>1 DEF Outward
      <4>1. g \in S BY <2>1 DEF Outward
      <4> QED BY <2>2, <4>1 DEF Outwards
    <3> QED BY <2>1, <3>1, <3>2 DEF Reach
  <2> QED BY <2>2
<1> QED BY <1>1, <1>2 DEF Outwards

LEMMA CollectKeepsTrees ==
  ASSUME JInv, Collect
  PROVE  TreesAgree'
<1> DEFINE R == Reach
<1>1. R \in SUBSET Frame /\ Outwards(R) BY ReachIsOutwards
<1>2. /\ Frame' = R
      /\ chain' = [h \in R |-> chain[h]]
      /\ parent' = [h \in R |-> parent[h]]
      /\ base' = [h \in R |-> base[h]]
      /\ DOMAIN cell' = LiveCells \cap DOMAIN cell
      /\ cell' = [c \in DOMAIN cell' |-> cell[c]]
      /\ DOMAIN tree' = { b \in DOMAIN tree : \E h \in R : base[h] = b }
      /\ tree' = [b \in DOMAIN tree' |-> tree[b]]
      /\ held' = held
  BY DEF Collect, Restrict, Frame
<1>3. \A h \in R : \A i \in DOMAIN chain[h] :
        chain[h][i] \in DOMAIN cell' /\ cell'[chain[h][i]] = cell[chain[h][i]]
  <2> SUFFICES ASSUME NEW h \in R, NEW i \in DOMAIN chain[h]
               PROVE  chain[h][i] \in DOMAIN cell' /\ cell'[chain[h][i]] = cell[chain[h][i]]
    OBVIOUS
  <2>1. chain[h] \in Seq(DOMAIN cell) BY <1>1 DEF JInv, IInv, ChainTypes
  <2>2. chain[h][i] \in DOMAIN cell BY <2>1
  <2>3. chain[h][i] \in LiveCells BY DEF LiveCells, ToSet
  <2> QED BY <1>2, <2>2, <2>3
<1>4. held \subseteq R
  <2> SUFFICES ASSUME NEW g \in held PROVE g \in R
    OBVIOUS
  <2>1. g \in Frame BY DEF JInv, TreesAgree, FrameTypes
  <2>2. g \in Outward(g) BY <2>1 DEF Outward
  <2> QED BY <2>1, <2>2 DEF Reach
<1> HIDE DEF R
<1>5. \A h \in R : chain'[h] = chain[h] /\ parent'[h] = parent[h] /\ base'[h] = base[h] /\ h \in Frame
  BY <1>1, <1>2
<1>6. FrameTypes'
  <2>1. \A h \in R : parent[h] \in R \cup {Nil} BY <1>1 DEF Outwards
  <2> QED BY <1>1, <1>2, <1>4, <2>1 DEF JInv, TreesAgree, FrameTypes
<1>7. CellsAreOwned' BY <1>2, <1>5 DEF JInv, TreesAgree, CellsAreOwned
<1>8. OneRootEach' BY <1>2, <1>5 DEF JInv, TreesAgree, OneRootEach, IsRoot
<1>9. \A h \in R : base[h] # Nil => base[h] \in DOMAIN tree' /\ tree'[base[h]] = tree[base[h]]
  BY <1>2, <1>5 DEF JInv, TreesAgree, BasesAreRooted
<1>10. BasesAreRooted'
  <2>1. ASSUME NEW h \in R, base[h] # Nil, NEW S \in SUBSET R, h \in S, Outwards(S)'
        PROVE  \E r \in S : IsRoot(r)' /\ base'[r] = base'[h]
    <3>1. S \in SUBSET Frame BY <1>1
    <3>2. Outwards(S) BY <1>5, <2>1 DEF Outwards
    <3>3. PICK r \in S : IsRoot(r) /\ base[r] = base[h]
      BY <1>5, <2>1, <3>1, <3>2 DEF JInv, TreesAgree, BasesAreRooted
    <3> QED BY <1>5, <2>1, <3>3 DEF IsRoot
  <2>2. \A b \in DOMAIN tree' : \E h \in R : base'[h] = b BY <1>2, <1>5
  <2> QED BY <1>2, <1>5, <1>9, <2>1, <2>2 DEF BasesAreRooted
<1>11. TreesMirrorRoots'
  <2> SUFFICES ASSUME NEW r \in R, IsRoot(r), base[r] # Nil
               PROVE  /\ IsTree(tree[base[r]]) /\ Ordered(tree[base[r]], cell')
                      /\ Range(tree[base[r]]) = ToSet(chain[r])
    BY <1>2, <1>5, <1>9 DEF TreesMirrorRoots, IsRoot
  <2>1. /\ IsTree(tree[base[r]]) /\ Ordered(tree[base[r]], cell)
        /\ Range(tree[base[r]]) = ToSet(chain[r])
    BY <1>5 DEF JInv, TreesAgree, TreesMirrorRoots
  <2>2. \A p \in DOMAIN tree[base[r]] :
          cell'[tree[base[r]][p]].name = cell[tree[base[r]][p]].name
    BY <1>3, <1>5, TreeCellsAreOnTheChain
  <2> QED BY <2>1, <2>2, OrderIsInNames
<1> QED BY <1>6, <1>7, <1>8, <1>10, <1>11 DEF TreesAgree

-----------------------------------------------------------------------------
(* A value is written into a cell: no name changes.                        *)
Written(c, v) ==
  \A d \in DOMAIN cell : /\ cell'[d].name = cell[d].name
                         /\ d = c => cell'[d].val = v
                         /\ d # c => cell'[d] = cell[d]
LEMMA ValueWritten ==
  ASSUME IInv, NEW c, NEW v \in Value, cell' = [cell EXCEPT ![c].val = v]
  PROVE  Written(c, v)
<1>1. ASSUME NEW d \in DOMAIN cell
      PROVE  /\ cell'[d].name = cell[d].name
             /\ d = c => cell'[d].val = v
             /\ d # c => cell'[d] = cell[d]
  <2>1. cell[d] \in [name : Name, val : Value] BY DEF IInv, ChainTypes
  <2>2. CASE d = c BY <2>1, <2>2
  <2>3. CASE d # c BY <2>3
  <2> QED BY <2>2, <2>3
<1> QED BY <1>1 DEF Written

LEMMA InitKeepsTrees == Init => JInv
<1> SUFFICES ASSUME Init PROVE JInv
  OBVIOUS
<1>1. Frame = {} /\ DOMAIN tree = {} /\ held = {}
  BY DEF Init, Empty, Frame
<1>2. FrameTypes BY <1>1 DEF Init, Empty, FrameTypes
<1>3. CellsAreOwned /\ BasesAreRooted /\ OneRootEach /\ TreesMirrorRoots
  BY <1>1 DEF CellsAreOwned, BasesAreRooted, OneRootEach, TreesMirrorRoots
<1> QED BY <1>2, <1>3, InitKeepsViews DEF JInv, TreesAgree

LEMMA NextKeepsTrees == JInv /\ [Next]_vars => JInv'
<1> SUFFICES ASSUME JInv, [Next]_vars PROVE TreesAgree'
  BY NextKeepsViews DEF JInv
<1>0. IInv /\ Reach \subseteq Frame /\ held \subseteq Frame
  <2>1. Reach \subseteq Frame BY DEF Reach
  <2> QED BY <2>1 DEF JInv, TreesAgree, FrameTypes
<1>1. CASE PushRoot
  <2>1. PICK h \in Holder \ Frame : Make(h, Nil, Nil) BY <1>1 DEF PushRoot
  <2>2. h \in Holder /\ h \notin Frame OBVIOUS
  <2> QED BY <2>1, <2>2, MakeKeepsTrees
<1>2. CASE Push
  <2>1. PICK h \in Holder \ Frame, p \in Reach : Make(h, p, base[p]) BY <1>2 DEF Push
  <2>2. h \in Holder /\ h \notin Frame /\ p \in Frame BY <1>0
  <2>3. p # Nil
    BY <2>2, ConstantsAreApart DEF ConstantsAreApart, JInv, TreesAgree, FrameTypes
  <2> QED BY <2>1, <2>2, <2>3, MakeKeepsTrees
<1>3. CASE SetBase BY <1>3, SetBaseKeepsTrees
<1>4. ASSUME NEW h \in Frame, NEW n, NEW v \in Value, Rebind(h, n, v),
             UNCHANGED <<parent, base, held>>
      PROVE  TreesAgree'
  <2>1. PICK c \in Find(h, n) : cell' = [cell EXCEPT ![c].val = v] BY <1>4 DEF Rebind
  <2>2. \A d \in DOMAIN cell : cell'[d].name = cell[d].name BY <1>0, <2>1, ValueWritten DEF Written
  <2> QED BY <1>0, <1>4, <2>2, WriteKeepsTrees DEF Rebind
<1>5. CASE Bind
  <2>1. PICK h \in Reach, n \in Name, v \in Value : Rebind(h, n, v) \/ NewCell(h, n, v)
    BY <1>5 DEF Bind
  <2>2. UNCHANGED <<parent, base, held>> /\ h \in Frame BY <1>0, <1>5 DEF Bind
  <2> QED BY <1>4, <2>1, <2>2, NewCellKeepsTrees
<1>6. CASE SetExisting BY <1>4, <1>6 DEF SetExisting
<1>7. CASE WriteThroughTree
  <2>0. PICK h \in Reach, v \in Value :
          \E p \in DOMAIN tree[base[h]] : cell' = [cell EXCEPT ![tree[base[h]][p]].val = v]
    BY <1>7 DEF WriteThroughTree
  <2>1. PICK p \in DOMAIN tree[base[h]] : cell' = [cell EXCEPT ![tree[base[h]][p]].val = v]
    BY <2>0
  <2>2. \A d \in DOMAIN cell : cell'[d].name = cell[d].name BY <1>0, <2>1, ValueWritten DEF Written
  <2> QED BY <1>0, <1>7, <2>2, WriteKeepsTrees DEF WriteThroughTree
<1>8. CASE Drop BY <1>0, <1>8, WriteKeepsTrees DEF Drop
<1>9. CASE Collect BY <1>9, CollectKeepsTrees
<1>10. CASE UNCHANGED vars BY <1>0, <1>10, WriteKeepsTrees DEF vars
<1> QED BY <1>1, <1>2, <1>3, <1>5, <1>6, <1>7, <1>8, <1>9, <1>10 DEF Next

(* "Mirror one root-frame binding into the base's global tree"             *)
(* (base.rs:341): at every step the tree of a base has exactly the cells   *)
(* of its root frame, whether they were bound before or after the base was *)
(* made, in the order in which a walker looks for them, and no collection  *)
(* leaves it a cell that is gone.                                          *)
THEOREM TreesMirrorTheirRoots == Spec => []TreeMirrorsRoot
BY InitKeepsTrees, NextKeepsTrees, InvariantGivesMirror, PTL DEF Spec

(* Every variable keeps its type: cells and bases are those there are, and *)
(* a map's names are names.                                                *)
THEOREM TypeCorrect == Spec => []TypeOK
<1> DEFINE Known == DOMAIN cell \subseteq Cell
<1>1. Init => Known BY DEF Init, Empty
<1>2. Known /\ [Next]_vars => Known'
  <2> SUFFICES ASSUME Known, [Next]_vars PROVE Known'
    OBVIOUS
  <2>1. ASSUME NEW h, NEW n, NEW v, Rebind(h, n, v) PROVE Known'
    BY <2>1 DEF Rebind
  <2>2. ASSUME NEW h, NEW n, NEW v, NewCell(h, n, v) PROVE Known'
    <3>1. PICK c \in Cell \ DOMAIN cell : cell' = With(cell, c, [name |-> n, val |-> v])
      BY <2>2 DEF NewCell
    <3>2. DOMAIN cell' = DOMAIN cell \cup {c} BY <3>1 DEF With
    <3> QED BY <3>2
  <2>3. CASE Bind BY <2>1, <2>2, <2>3 DEF Bind
  <2>4. CASE SetExisting BY <2>1, <2>4 DEF SetExisting
  <2>5. CASE PushRoot \/ Push BY <2>5 DEF PushRoot, Push, Make
  <2>6. CASE SetBase \/ Drop BY <2>6 DEF SetBase, Drop
  <2>7. CASE WriteThroughTree BY <2>7 DEF WriteThroughTree
  <2>8. CASE Collect
    <3>1. cell' = Restrict(cell, LiveCells \cap DOMAIN cell) BY <2>8 DEF Collect
    <3>2. DOMAIN cell' = LiveCells \cap DOMAIN cell BY <3>1 DEF Restrict
    <3> QED BY <3>2
  <2>9. CASE UNCHANGED vars BY <2>9 DEF vars
  <2> QED BY <2>3, <2>4, <2>5, <2>6, <2>7, <2>8, <2>9 DEF Next
<1>3. JInv /\ Known => TypeOK
  <2> SUFFICES ASSUME JInv, Known PROVE TypeOK
    OBVIOUS
  <2> USE DEF JInv, IInv
  <2>1. \A h \in DOMAIN index : DOMAIN index[h] \subseteq Name
    <3> TAKE h \in DOMAIN index
    <3>1. SUFFICES ASSUME NEW n \in DOMAIN index[h] PROVE n \in Name
      OBVIOUS
    <3>2. PICK i \in DOMAIN chain[h] : cell[chain[h][i]].name = n
      BY DEF ViewsAgree, MapsMirrorChains
    <3>3. chain[h] \in Seq(DOMAIN cell) BY DEF ChainTypes
    <3>4. chain[h][i] \in DOMAIN cell BY <3>3, ElementOfSeq, LenProperties
    <3> QED BY <3>2, <3>4 DEF ChainTypes
  <2>2. \A h \in Frame : base[h] # Nil => base[h] \in DOMAIN tree
    BY DEF TreesAgree, BasesAreRooted
  <2> QED BY <2>1, <2>2 DEF TypeOK, ChainTypes, TreesAgree, FrameTypes
<1> QED BY <1>1, <1>2, <1>3, InitKeepsTrees, NextKeepsTrees, PTL DEF Spec

-----------------------------------------------------------------------------
(* The frames implement Scopes.                                            *)

(* What the names of a chain stand for.                                    *)
Meaning(s, names) ==
  [n \in { names[s[i]].name : i \in DOMAIN s } |->
     names[s[CHOOSE i \in DOMAIN s : names[s[i]].name = n]].val]
Distinct(s, names) ==
  \A i, j \in DOMAIN s : names[s[i]].name = names[s[j]].name => i = j

LEMMA MeaningAt ==
  ASSUME NEW s, NEW names, Distinct(s, names), NEW i \in DOMAIN s
  PROVE  Meaning(s, names)[names[s[i]].name] = names[s[i]].val
<1>1. (CHOOSE j \in DOMAIN s : names[s[j]].name = names[s[i]].name) = i BY DEF Distinct
<1> QED BY <1>1 DEF Meaning

LEMMA SameMeaning ==
  ASSUME NEW s, NEW f, NEW g, \A i \in DOMAIN s : f[s[i]] = g[s[i]]
  PROVE  Meaning(s, f) = Meaning(s, g)
<1>1. { f[s[i]].name : i \in DOMAIN s } = { g[s[i]].name : i \in DOMAIN s } OBVIOUS
<1>2. ASSUME NEW n \in { f[s[i]].name : i \in DOMAIN s }
      PROVE  f[s[CHOOSE i \in DOMAIN s : f[s[i]].name = n]].val
               = g[s[CHOOSE i \in DOMAIN s : g[s[i]].name = n]].val
  <2>1. (CHOOSE i \in DOMAIN s : f[s[i]].name = n) = (CHOOSE i \in DOMAIN s : g[s[i]].name = n)
    OBVIOUS
  <2>2. (CHOOSE i \in DOMAIN s : f[s[i]].name = n) \in DOMAIN s BY <1>2
  <2> QED BY <2>1, <2>2
<1> QED BY <1>1, <1>2 DEF Meaning

(* The value of a cell on the chain is written.                            *)
Differ(s, f, g, i, v) ==
  /\ g[s[i]].val = v
  /\ \A j \in DOMAIN s : g[s[j]].name = f[s[j]].name /\ (j # i => g[s[j]] = f[s[j]])
LEMMA WriteMeans ==
  ASSUME NEW s, NEW f, NEW g, NEW i \in DOMAIN s, NEW v,
         Distinct(s, f), Differ(s, f, g, i, v)
  PROVE  Meaning(s, g) = With(Meaning(s, f), f[s[i]].name, v)
<1> USE DEF Differ
<1>1. Distinct(s, g) BY DEF Distinct
<1> DEFINE A == Meaning(s, f)
           B == Meaning(s, g)
<1>2. /\ DOMAIN A = { f[s[j]].name : j \in DOMAIN s } /\ DOMAIN B = DOMAIN A
      /\ B = [m \in DOMAIN B |-> B[m]]
  BY DEF Meaning
<1>3. \A j \in DOMAIN s : A[f[s[j]].name] = f[s[j]].val /\ B[f[s[j]].name] = g[s[j]].val
  BY <1>1, MeaningAt
<1> HIDE DEF A, B
<1>4. ASSUME NEW m \in DOMAIN A PROVE B[m] = IF m = f[s[i]].name THEN v ELSE A[m]
  <2>1. PICK j \in DOMAIN s : m = f[s[j]].name BY <1>2
  <2>2. CASE j = i BY <1>3, <2>1, <2>2
  <2>3. CASE j # i BY <1>3, <2>1, <2>3 DEF Distinct
  <2> QED BY <2>2, <2>3
<1>5. f[s[i]].name \in DOMAIN A BY <1>2
<1>6. B = With(A, f[s[i]].name, v) BY <1>2, <1>4, <1>5 DEF With
<1> QED BY <1>6 DEF A, B

(* A cell with a name of its own is put at the head of the chain.          *)
LEMMA NewCellMeans ==
  ASSUME NEW C, NEW s \in Seq(C), NEW f, NEW g, NEW c, NEW n, NEW v,
         Distinct(s, f), \A i \in DOMAIN s : f[s[i]].name # n /\ g[s[i]] = f[s[i]],
         g[c].name = n, g[c].val = v
  PROVE  Meaning(<<c>> \o s, g) = With(Meaning(s, f), n, v)
<1> DEFINE t == <<c>> \o s
<1>1. /\ DOMAIN t = 1..Len(s) + 1 /\ DOMAIN s = 1..Len(s) /\ Len(s) \in Nat
      /\ t[1] = c
      /\ \A i \in 1..Len(s) : t[i + 1] = s[i]
  OBVIOUS
<1> HIDE DEF t
<1>2. ASSUME NEW i \in DOMAIN t, i # 1
      PROVE  i - 1 \in DOMAIN s /\ t[i] = s[i - 1] /\ g[t[i]] = f[s[i - 1]] /\ g[t[i]].name # n
  BY <1>1, <1>2
<1>3. Distinct(t, g)
  <2> SUFFICES ASSUME NEW i \in DOMAIN t, NEW j \in DOMAIN t, g[t[i]].name = g[t[j]].name
               PROVE  i = j
    BY DEF Distinct
  <2>1. CASE i = 1 \/ j = 1 BY <1>1, <1>2, <2>1
  <2>2. CASE i # 1 /\ j # 1
    <3>1. i - 1 = j - 1 BY <1>2, <2>2 DEF Distinct
    <3> QED BY <1>1, <3>1
  <2> QED BY <2>1, <2>2
<1> DEFINE A == Meaning(s, f)
           B == Meaning(t, g)
<1>4. /\ DOMAIN A = { f[s[j]].name : j \in DOMAIN s }
      /\ DOMAIN B = { g[t[j]].name : j \in DOMAIN t }
      /\ B = [m \in DOMAIN B |-> B[m]]
  BY DEF Meaning
<1>5. /\ \A j \in DOMAIN s : A[f[s[j]].name] = f[s[j]].val
      /\ \A j \in DOMAIN t : B[g[t[j]].name] = g[t[j]].val
  BY <1>3, MeaningAt
<1> HIDE DEF A, B
<1>6. 1 \in DOMAIN t /\ \A j \in DOMAIN s : j + 1 \in DOMAIN t /\ t[j + 1] = s[j] BY <1>1
<1>7. DOMAIN B = DOMAIN A \cup {n}
  <2>1. ASSUME NEW m \in DOMAIN B PROVE m \in DOMAIN A \cup {n}
    <3>1. PICK j \in DOMAIN t : m = g[t[j]].name BY <1>4
    <3> QED BY <1>1, <1>2, <1>4, <3>1
  <2>2. ASSUME NEW m \in DOMAIN A PROVE m \in DOMAIN B
    <3>1. PICK j \in DOMAIN s : m = f[s[j]].name BY <1>4
    <3>2. j + 1 \in DOMAIN t /\ g[t[j + 1]].name = m BY <1>6, <3>1
    <3> QED BY <1>4, <3>2
  <2>3. n \in DOMAIN B BY <1>1, <1>4, <1>6
  <2> QED BY <2>1, <2>2, <2>3
<1>8. ASSUME NEW m \in DOMAIN B PROVE B[m] = IF m = n THEN v ELSE A[m]
  <2>1. CASE m = n BY <1>1, <1>5, <1>6, <2>1
  <2>2. CASE m # n
    <3>1. PICK j \in DOMAIN s : m = f[s[j]].name BY <1>4, <1>7, <2>2
    <3>2. A[m] = f[s[j]].val BY <1>5, <3>1
    <3>3. B[m] = g[t[j + 1]].val BY <1>5, <1>6, <3>1
    <3> QED BY <1>6, <2>2, <3>2, <3>3
  <2> QED BY <2>1, <2>2
<1>9. B = With(A, n, v) BY <1>4, <1>7, <1>8 DEF With
<1> QED BY <1>9 DEF A, B, t

(* The scope of a frame, found by lookups, is what its chain means.        *)
ScopesAreMeanings == Scope = [h \in Frame |-> Meaning(chain[h], cell)]
LEMMA ScopeIsMeaning == IInv => ScopesAreMeanings
<1> SUFFICES ASSUME IInv, NEW h \in Frame
             PROVE  Scope[h] = Meaning(chain[h], cell)
  BY DEF ScopesAreMeanings, Scope
<1> DEFINE s == chain[h]
           A == Scope[h]
           B == Meaning(s, cell)
           Val(n) == CHOOSE v \in Value : \E c \in Find(h, n) : cell[c].val = v
<1>1. s \in Seq(DOMAIN cell) /\ Distinct(s, cell)
  BY DEF IInv, ChainTypes, ViewsAgree, NamesAreUnique, Distinct
<1>2. A = [n \in { m \in Name : Find(h, m) # {} } |-> Val(n)] BY DEF Scope
<1>3. ASSUME NEW i \in DOMAIN s
      PROVE  /\ cell[s[i]].name \in Name /\ cell[s[i]].val \in Value
             /\ Find(h, cell[s[i]].name) # {}
             /\ Val(cell[s[i]].name) = cell[s[i]].val
  <2> DEFINE n == cell[s[i]].name
  <2>1. s[i] \in DOMAIN cell BY <1>1
  <2>2. n \in Name /\ cell[s[i]].val \in Value BY <2>1 DEF IInv, ChainTypes
  <2>3. Find(h, n) # {} BY NotFoundIsAbsent
  <2>4. \A c \in Find(h, n) : c = s[i]
    <3> SUFFICES ASSUME NEW c \in Find(h, n) PROVE c = s[i]
      OBVIOUS
    <3>1. PICK j \in DOMAIN s : s[j] = c /\ cell[c].name = n BY FoundIsACell
    <3>2. j = i BY <1>1, <3>1 DEF Distinct
    <3> QED BY <3>1, <3>2
  <2>5. Find(h, n) = {s[i]} BY <2>3, <2>4
  <2> HIDE DEF n
  <2>6. Val(n) = cell[s[i]].val BY <2>2, <2>5
  <2> QED BY <2>2, <2>3, <2>6 DEF n
<1>4. DOMAIN B = { cell[s[i]].name : i \in DOMAIN s } /\ B = [n \in DOMAIN B |-> B[n]]
  BY DEF Meaning
<1>5. \A i \in DOMAIN s : B[cell[s[i]].name] = cell[s[i]].val BY <1>1, MeaningAt
<1>6. ASSUME NEW n \in Name, Find(h, n) # {}
      PROVE  \E i \in DOMAIN s : cell[s[i]].name = n
  <2>1. PICK c \in Find(h, n) : TRUE BY <1>6
  <2> QED BY <2>1, FoundIsACell
<1> HIDE DEF A, B, s, Val
<1>7. DOMAIN B = { m \in Name : Find(h, m) # {} } BY <1>3, <1>4, <1>6
<1>8. \A n \in DOMAIN B : B[n] = Val(n) BY <1>3, <1>4, <1>5
<1>9. A = B BY <1>2, <1>4, <1>7, <1>8
<1> QED BY <1>9 DEF A, B, s

(* A write to a cell of a frame is a definition in that frame, and in no   *)
(* other.                                                                  *)
LEMMA WriteDefines ==
  ASSUME JInv, NEW h \in Frame, NEW i \in DOMAIN chain[h], NEW v \in Value,
         Written(chain[h][i], v), UNCHANGED <<chain, parent>>,
         Scope = [g \in Frame |-> Meaning(chain[g], cell)],
         Scope' = [g \in Frame' |-> Meaning(chain'[g], cell')]
  PROVE  Abstract!Put(h, cell[chain[h][i]].name, v)
<1> DEFINE n == cell[chain[h][i]].name
           s == chain[h]
<1>1. Frame' = Frame BY DEF Frame
<1>2. IInv /\ \A g \in Frame : chain[g] \in Seq(DOMAIN cell) /\ Distinct(chain[g], cell)
  BY DEF JInv, IInv, ChainTypes, ViewsAgree, NamesAreUnique, Distinct
<1>3. \A d \in DOMAIN cell : /\ cell'[d].name = cell[d].name
                             /\ d = s[i] => cell'[d].val = v
                             /\ d # s[i] => cell'[d] = cell[d]
  BY DEF Written
<1>4. \A g \in Frame : g # h => Scope'[g] = Scope[g]
  <2> SUFFICES ASSUME NEW g \in Frame, g # h PROVE Meaning(chain[g], cell') = Meaning(chain[g], cell)
    BY <1>1
  <2>1. \A j \in DOMAIN chain[g] : cell'[chain[g][j]] = cell[chain[g][j]]
    BY <1>2, <1>3 DEF JInv, TreesAgree, CellsAreOwned
  <2> QED BY <2>1, SameMeaning
<1>5. Scope'[h] = With(Scope[h], n, v)
  <2>1. s[i] \in DOMAIN cell BY <1>2
  <2>2. cell'[s[i]].val = v BY <1>3, <2>1
  <2>3. Differ(s, cell, cell', i, v) BY <1>2, <1>3, <2>2 DEF Distinct, Differ
  <2>4. Distinct(s, cell) /\ i \in DOMAIN s /\ n = cell[s[i]].name BY <1>2
  <2>5. Meaning(s, cell') = With(Meaning(s, cell), cell[s[i]].name, v)
    <3> HIDE DEF s
    <3> QED BY <2>3, <2>4, WriteMeans
  <2> QED BY <1>1, <2>5
<1> HIDE DEF n
<1>6. DOMAIN Scope = Frame /\ DOMAIN Scope' = Frame BY <1>1
<1>7. Scope' = [Scope EXCEPT ![h] = With(@, n, v)] BY <1>1, <1>4, <1>5, <1>6
<1> QED BY <1>7 DEF Abstract!Put, With, n

(* A new cell is a definition as well.                                     *)
LEMMA NewCellDefines ==
  ASSUME JInv, NEW h \in Frame, NEW n \in Name, NEW v \in Value, NewCell(h, n, v),
         UNCHANGED parent,
         Scope = [g \in Frame |-> Meaning(chain[g], cell)],
         Scope' = [g \in Frame' |-> Meaning(chain'[g], cell')]
  PROVE  Abstract!Put(h, n, v)
<1>1. PICK c \in Cell \ DOMAIN cell :
        /\ Find(h, n) = {}
        /\ cell' = With(cell, c, [name |-> n, val |-> v])
        /\ chain' = [chain EXCEPT ![h] = <<c>> \o @]
  BY DEF NewCell
<1>2. IInv /\ \A g \in Frame : chain[g] \in Seq(DOMAIN cell) /\ Distinct(chain[g], cell)
  BY DEF JInv, IInv, ChainTypes, ViewsAgree, NamesAreUnique, Distinct
<1>3. /\ cell'[c].name = n /\ cell'[c].val = v
      /\ \A d \in DOMAIN cell : cell'[d] = cell[d]
  BY <1>1 DEF With
<1>4. /\ Frame' = Frame
      /\ \A g \in Frame : g # h => chain'[g] = chain[g]
      /\ chain'[h] = <<c>> \o chain[h]
  BY <1>1 DEF Frame, JInv, IInv, ChainTypes
<1>5. \A g \in Frame : \A j \in DOMAIN chain[g] :
        chain[g][j] \in DOMAIN cell /\ cell'[chain[g][j]] = cell[chain[g][j]]
  BY <1>2, <1>3
<1>6. \A g \in Frame : g # h => Scope'[g] = Scope[g]
  <2> SUFFICES ASSUME NEW g \in Frame, g # h PROVE Meaning(chain[g], cell') = Meaning(chain[g], cell)
    BY <1>4
  <2> QED BY <1>5, SameMeaning
<1>7. Scope'[h] = With(Scope[h], n, v)
  <2>1. \A j \in DOMAIN chain[h] : cell[chain[h][j]].name # n BY <1>1, <1>2, NotFoundIsAbsent
  <2>2. Meaning(<<c>> \o chain[h], cell') = With(Meaning(chain[h], cell), n, v)
    BY <1>2, <1>3, <1>5, <2>1, NewCellMeans
  <2> QED BY <1>4, <2>2
<1>8. DOMAIN Scope = Frame /\ DOMAIN Scope' = Frame BY <1>4
<1>9. Scope' = [Scope EXCEPT ![h] = With(@, n, v)] BY <1>4, <1>6, <1>7, <1>8
<1> QED BY <1>9 DEF Abstract!Put, With

LEMMA MakeOpens ==
  ASSUME JInv, NEW h \in Holder, h \notin Frame, NEW p \in Frame \cup {Nil}, NEW b, Make(h, p, b),
         Scope = [g \in Frame |-> Meaning(chain[g], cell)],
         Scope' = [g \in Frame' |-> Meaning(chain'[g], cell')]
  PROVE  Abstract!Open
<1>1. /\ Frame' = Frame \cup {h}
      /\ chain' = [g \in Frame \cup {h} |-> IF g = h THEN <<>> ELSE chain[g]]
      /\ cell' = cell
  BY DEF Make, With, Frame
<1>2. parent' = [g \in Frame \cup {h} |-> IF g = h THEN p ELSE parent[g]]
  <2>1. DOMAIN parent = Frame BY DEF JInv, TreesAgree, FrameTypes
  <2> QED BY <2>1 DEF Make, With
<1>3. Meaning(<<>>, cell) = [m \in {} |-> Nil] BY DEF Meaning
<1>4. Scope' = [g \in Frame \cup {h} |-> IF g = h THEN [m \in {} |-> Nil] ELSE Scope[g]]
  BY <1>1, <1>3
<1>5. DOMAIN Scope = Frame OBVIOUS
<1> QED BY <1>2, <1>4, <1>5 DEF Abstract!Open, Abstract!Frame

LEMMA CollectForgets ==
  ASSUME JInv, Collect,
         Scope = [g \in Frame |-> Meaning(chain[g], cell)],
         Scope' = [g \in Frame' |-> Meaning(chain'[g], cell')]
  PROVE  Abstract!Forget
<1> DEFINE R == Reach
<1>1. R \in SUBSET Frame /\ \A h \in R : parent[h] \in R \cup {Nil}
  BY ReachIsOutwards DEF Outwards
<1>2. /\ Frame' = R
      /\ chain' = [h \in R |-> chain[h]]
      /\ parent' = [h \in R |-> parent[h]]
      /\ DOMAIN cell' = LiveCells \cap DOMAIN cell
      /\ cell' = [c \in DOMAIN cell' |-> cell[c]]
  BY DEF Collect, Restrict, Frame
<1>3. \A h \in R : \A i \in DOMAIN chain[h] : cell'[chain[h][i]] = cell[chain[h][i]]
  <2> SUFFICES ASSUME NEW h \in R, NEW i \in DOMAIN chain[h]
               PROVE  cell'[chain[h][i]] = cell[chain[h][i]]
    OBVIOUS
  <2>1. chain[h] \in Seq(DOMAIN cell) BY <1>1 DEF JInv, IInv, ChainTypes
  <2>2. chain[h][i] \in DOMAIN cell BY <2>1
  <2>3. chain[h][i] \in LiveCells BY DEF LiveCells, ToSet
  <2> QED BY <1>2, <2>2, <2>3
<1> HIDE DEF R
<1>4. \A h \in R : Meaning(chain[h], cell') = Meaning(chain[h], cell)
  BY <1>3, SameMeaning
<1>5. Scope' = [h \in R |-> Scope[h]] BY <1>1, <1>2, <1>4
<1>6. DOMAIN Scope = Frame OBVIOUS
<1> QED BY <1>1, <1>2, <1>5, <1>6 DEF Abstract!Forget, Abstract!Frame, Abstract!Restrict

LEMMA StepsOfScopes ==
  ASSUME JInv, [Next]_vars,
         Scope = [g \in Frame |-> Meaning(chain[g], cell)],
         Scope' = [g \in Frame' |-> Meaning(chain'[g], cell')]
  PROVE  [Abstract!Next]_(Abstract!vars)
<1> USE DEF Abstract!Next
<1>0. /\ IInv /\ Reach \subseteq Frame
      /\ DOMAIN Scope = Frame
  <2>1. Reach \subseteq Frame BY DEF Reach
  <2> QED BY <2>1 DEF JInv
<1>1. CASE PushRoot
  <2>1. PICK h \in Holder \ Frame : Make(h, Nil, Nil) BY <1>1 DEF PushRoot
  <2>2. h \in Holder /\ h \notin Frame OBVIOUS
  <2> QED BY <2>1, <2>2, MakeOpens
<1>2. CASE Push
  <2>1. PICK h \in Holder \ Frame, p \in Reach : Make(h, p, base[p]) BY <1>2 DEF Push
  <2>2. h \in Holder /\ h \notin Frame /\ p \in Frame BY <1>0
  <2> QED BY <2>1, <2>2, MakeOpens
<1>3. ASSUME UNCHANGED <<chain, parent, cell>> PROVE UNCHANGED (Abstract!vars)
  BY <1>3 DEF Abstract!vars, Frame
<1>4. CASE SetBase BY <1>3, <1>4 DEF SetBase
<1>5. ASSUME NEW h \in Frame, NEW n \in Name, NEW v \in Value, Rebind(h, n, v), UNCHANGED parent
      PROVE  Abstract!Define
  <2>1. PICK c \in Find(h, n) : cell' = [cell EXCEPT ![c].val = v] BY <1>5 DEF Rebind
  <2>2. PICK i \in DOMAIN chain[h] : chain[h][i] = c /\ cell[c].name = n BY <1>0, FoundIsACell
  <2>3. Written(chain[h][i], v) BY <1>0, <2>1, <2>2, ValueWritten
  <2>4. Abstract!Put(h, n, v) BY <1>5, <2>2, <2>3, WriteDefines DEF Rebind
  <2> QED BY <1>0, <2>4 DEF Abstract!Define, Abstract!Frame
<1>6. CASE Bind
  <2>1. PICK h \in Reach, n \in Name, v \in Value : Rebind(h, n, v) \/ NewCell(h, n, v)
    BY <1>6 DEF Bind
  <2>2. UNCHANGED parent /\ h \in Frame BY <1>0, <1>6 DEF Bind
  <2>3. ASSUME NewCell(h, n, v) PROVE Abstract!Define
    <3>1. Abstract!Put(h, n, v) BY <2>2, <2>3, NewCellDefines
    <3> QED BY <1>0, <2>2, <3>1 DEF Abstract!Define, Abstract!Frame
  <2> QED BY <1>5, <2>1, <2>2, <2>3
<1>7. CASE SetExisting BY <1>5, <1>7 DEF SetExisting
<1>8. CASE WriteThroughTree
  <2>0. PICK h \in Reach, v \in Value :
          /\ base[h] # Nil
          /\ \E p \in DOMAIN tree[base[h]] : cell' = [cell EXCEPT ![tree[base[h]][p]].val = v]
    BY <1>8 DEF WriteThroughTree
  <2>1. PICK p \in DOMAIN tree[base[h]] : cell' = [cell EXCEPT ![tree[base[h]][p]].val = v]
    BY <2>0
  <2>2. h \in Frame /\ Outwards(Frame)
    BY <1>0 DEF JInv, TreesAgree, FrameTypes, Outwards
  <2>3. PICK r \in Frame : IsRoot(r) /\ base[r] = base[h]
    BY <2>0, <2>2 DEF JInv, TreesAgree, BasesAreRooted
  <2>4. PICK i \in DOMAIN chain[r] : tree[base[r]][p] = chain[r][i]
    BY <2>0, <2>1, <2>3, TreeCellsAreOnTheChain
  <2>5. cell[chain[r][i]].name \in Name
    <3>1. chain[r] \in Seq(DOMAIN cell) BY <1>0 DEF IInv, ChainTypes
    <3> QED BY <1>0, <3>1 DEF IInv, ChainTypes
  <2>6. Abstract!Put(r, cell[chain[r][i]].name, v)
    <3>1. Written(chain[r][i], v) BY <1>0, <2>1, <2>3, <2>4, ValueWritten
    <3> QED BY <1>8, <3>1, WriteDefines DEF WriteThroughTree
  <2> QED BY <1>0, <2>5, <2>6 DEF Abstract!Define, Abstract!Frame
<1>9. CASE Drop BY <1>3, <1>9 DEF Drop
<1>10. CASE Collect BY <1>10, CollectForgets
<1>11. CASE UNCHANGED vars BY <1>3, <1>11 DEF vars
<1> QED BY <1>1, <1>2, <1>4, <1>6, <1>7, <1>8, <1>9, <1>10, <1>11 DEF Next

(* A frame is a map from names to values: through every write path, a      *)
(* change of view, a collection and the reuse of an address, a program     *)
(* sees one definition take effect in one frame at a time (env.rs:101,     *)
(* :172; base.rs:343: "so `set!` through either view is seen by both").    *)
THEOREM FramesAreScopes == Spec => ImplementsScopes
<1>1. Init => Abstract!Init
  <2> SUFFICES ASSUME Init PROVE Abstract!Init
    OBVIOUS
  <2>1. Frame = {} BY DEF Init, Empty, Frame
  <2>2. Scope = [h \in {} |-> Nil] BY <2>1 DEF Scope
  <2> QED BY <2>2 DEF Init, Empty, Abstract!Init
<1>2. JInv /\ JInv' /\ [Next]_vars => [Abstract!Next]_(Abstract!vars)
  <2>1. IInv' => ScopesAreMeanings' BY ScopeIsMeaning, PTL
  <2> QED BY <2>1, ScopeIsMeaning, StepsOfScopes DEF JInv, ScopesAreMeanings
<1> QED
  BY <1>1, <1>2, InitKeepsTrees, NextKeepsTrees, PTL
     DEF Spec, ImplementsScopes, Abstract!Spec
=============================================================================
