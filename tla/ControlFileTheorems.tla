------------------------ MODULE ControlFileTheorems ------------------------
(***************************************************************************)
(* More theorems about ControlFile: the cells that a heuristic keeps on    *)
(* are the best ones, barred cells have been evicted, a prepared file is   *)
(* carried out, and every variable keeps its type.                         *)
(***************************************************************************)
EXTENDS ControlFileProofs, FiniteSetTheorems, NaturalsInduction, WellFoundedInduction

USE DEF Cell

-----------------------------------------------------------------------------
(* The cells that stay on.                                                 *)

\* A set of naturals that is not empty has a least element.
LEMMA Least ==
  ASSUME NEW T, T \subseteq Nat, T # {}
  PROVE  \E x \in T : \A y \in T : x <= y
<1>1. PICK x \in T : \A y \in T : ~(<<y, x>> \in OpToRel(<, Nat))
  BY NatLessThanWellFounded, WFMin
<1>2. \A y \in T : ~(y < x)
  BY <1>1 DEF OpToRel
<1>. QED BY <1>2

Slot == 1..BsOn
Empty == [ues |-> -1, cell |-> 0]

\* The slots after the cells 1..c were offered: each is empty or has a cell
\* and its UEs, no cell has two, and none left out has more UEs than one of them.
Best(slots, c, good) ==
  /\ slots = [i \in Slot |-> slots[i]]
  /\ \A i \in Slot : \/ slots[i] = Empty
                     \/ \E d \in 1..c : slots[i] = [ues |-> good[d], cell |-> d]
  /\ \A i, j \in Slot : i # j => slots[i].cell = 0 \/ slots[i].cell # slots[j].cell
  /\ \A d \in 1..c : (\E i \in Slot : slots[i].cell = d)
                       \/ \A i \in Slot : slots[i].ues >= good[d]

\* There is a first one among the slots with the fewest UEs.
LEMMA LowestSlot ==
  ASSUME BsOn > 0, NEW good \in [Cell -> Nat], NEW c \in 0..NumCells, NEW slots,
         Best(slots, c, good)
  PROVE  LET first(i) == \A j \in Slot : \/ slots[i].ues < slots[j].ues
                                         \/ slots[i].ues = slots[j].ues /\ i <= j
             lowest == CHOOSE i \in Slot : first(i)
         IN  lowest \in Slot /\ \A j \in Slot : slots[lowest].ues <= slots[j].ues
<1>. USE CellsAssumption
<1>1. \A i \in Slot : slots[i].ues \in Int /\ slots[i].ues + 1 \in Nat
  <2>. SUFFICES ASSUME NEW i \in Slot PROVE slots[i].ues \in Int /\ slots[i].ues + 1 \in Nat
    OBVIOUS
  <2>1. CASE slots[i] = Empty
    BY <2>1 DEF Empty
  <2>2. ASSUME NEW d \in 1..c, slots[i] = [ues |-> good[d], cell |-> d]
        PROVE  slots[i].ues \in Int /\ slots[i].ues + 1 \in Nat
    <3>1. d \in Cell
      OBVIOUS
    <3>2. good[d] \in Nat
      BY <3>1
    <3>. QED BY <2>2, <3>2
  <2>. QED BY <2>1, <2>2 DEF Best
<1>. DEFINE Ues == {slots[i].ues + 1 : i \in Slot}
<1>2. Ues \subseteq Nat /\ Ues # {}
  <2>1. 1 \in Slot
    BY DEF Slot
  <2>. QED BY <1>1, <2>1
<1>3. PICK u \in Ues : \A v \in Ues : u <= v
  <2>. HIDE DEF Ues
  <2>. QED BY <1>2, Least
<1>. DEFINE Fewest == {i \in Slot : slots[i].ues + 1 = u}
<1>4. Fewest \subseteq Nat /\ Fewest # {}
  BY DEF Slot
<1>5. PICK i \in Fewest : \A j \in Fewest : i <= j
  <2>. HIDE DEF Fewest
  <2>. QED BY <1>4, Least
<1>6. i \in Slot /\ \A j \in Slot : slots[i].ues <= slots[j].ues
  <2>1. ASSUME NEW j \in Slot PROVE slots[i].ues + 1 <= slots[j].ues + 1
    BY <1>3
  <2>. QED BY <1>1, <2>1
<1>7. ASSUME NEW j \in Slot
      PROVE  slots[i].ues < slots[j].ues \/ (slots[i].ues = slots[j].ues /\ i <= j)
  <2>1. CASE slots[i].ues = slots[j].ues
    BY <1>5, <2>1
  <2>. QED BY <1>1, <1>6, <2>1
<1>8. \A k \in Slot :
        (\A j \in Slot : \/ slots[k].ues < slots[j].ues
                         \/ slots[k].ues = slots[j].ues /\ k <= j)
          => \A j \in Slot : slots[k].ues <= slots[j].ues
  BY <1>1
<1>. QED BY <1>6, <1>7, <1>8

\* To offer the next cell keeps the best.
LEMMA OfferKeepsBest ==
  ASSUME BsOn > 0, NEW good \in [Cell -> Nat], NEW c \in Cell, NEW slots,
         Best(slots, c - 1, good)
  PROVE  Best(Offer(slots, c, good[c]), c, good)
<1>. DEFINE first(i) == \A j \in Slot : \/ slots[i].ues < slots[j].ues
                                        \/ slots[i].ues = slots[j].ues /\ i <= j
            lowest == CHOOSE i \in Slot : first(i)
            after == IF slots[lowest].ues < good[c]
                     THEN [slots EXCEPT ![lowest] = [ues |-> good[c], cell |-> c]]
                     ELSE slots
<1>1. c - 1 \in 0..NumCells /\ c \in Nat /\ c \in 1..c /\ 1..c = (1..c - 1) \cup {c}
  BY CellsAssumption
<1>2. lowest \in Slot /\ \A j \in Slot : slots[lowest].ues <= slots[j].ues
  BY <1>1, LowestSlot
<1>3. slots = [i \in Slot |-> slots[i]] /\ DOMAIN slots = Slot
  BY DEF Best
<1>4. Offer(slots, c, good[c]) = after
  BY <1>3 DEF Offer
<1>. HIDE DEF lowest
<1>5. /\ \A d \in 1..c : good[d] \in Nat
      /\ \A i \in Slot : slots[i].cell \in 0..c - 1 /\ slots[i].ues \in Int
  <2>1. \A d \in 1..c : d \in Cell
    BY CellsAssumption, <1>1
  <2>2. \A d \in 1..c : good[d] \in Nat
    BY <2>1
  <2>. QED BY <1>1, <2>2 DEF Best, Empty
<1>6. CASE ~(slots[lowest].ues < good[c])
  <2>1. after = slots
    BY <1>6
  <2>2. \A i \in Slot : slots[i].ues >= good[c]
    BY <1>1, <1>2, <1>5, <1>6
  <2>3. \A d \in 1..c : (\E i \in Slot : slots[i].cell = d)
                          \/ \A i \in Slot : slots[i].ues >= good[d]
    <3>1. ASSUME NEW d \in 1..c
          PROVE  (\E i \in Slot : slots[i].cell = d) \/ \A i \in Slot : slots[i].ues >= good[d]
      <4>1. CASE d = c
        BY <2>2, <4>1
      <4>2. CASE d \in 1..c - 1
        BY <4>2 DEF Best
      <4>. QED BY <1>1, <4>1, <4>2
    <3>. QED BY <3>1
  <2>4. Best(slots, c, good)
    BY <1>1, <2>3 DEF Best
  <2>. QED BY <1>4, <2>1, <2>4
<1>7. CASE slots[lowest].ues < good[c]
  <2>1. after = [slots EXCEPT ![lowest] = [ues |-> good[c], cell |-> c]]
    BY <1>7
  <2>. HIDE DEF after
  <2>2. /\ after = [i \in Slot |-> after[i]]
        /\ after[lowest] = [ues |-> good[c], cell |-> c]
        /\ \A i \in Slot \ {lowest} : after[i] = slots[i]
    BY <1>2, <1>3, <2>1
  <2>3. \A i \in Slot : \/ after[i] = Empty
                        \/ \E d \in 1..c : after[i] = [ues |-> good[d], cell |-> d]
    BY <1>1, <2>2 DEF Best
  <2>4. ASSUME NEW i \in Slot, NEW j \in Slot, i # j
        PROVE  after[i].cell = 0 \/ after[i].cell # after[j].cell
    <3>1. after[lowest].cell = c
      BY <2>2
    <3>2. \A k \in Slot \ {lowest} : after[k].cell \in 0..c - 1 /\ after[k].cell = slots[k].cell
      BY <1>5, <2>2
    <3>3. c \notin 0..c - 1
      BY <1>1
    <3>4. slots[i].cell = 0 \/ slots[i].cell # slots[j].cell
      BY <2>4 DEF Best
    <3>. QED BY <2>4, <3>1, <3>2, <3>3, <3>4
  <2>5. ASSUME NEW d \in 1..c, NEW i \in Slot, \A j \in Slot : after[j].cell # d
        PROVE  after[i].ues >= good[d]
    <3>1. after[lowest].cell = c /\ after[lowest].ues = good[c] /\ good[c] \in Nat
      BY <1>1, <1>5, <2>2
    <3>2. d \in 1..c - 1 /\ good[d] \in Nat
      BY <1>1, <1>2, <1>5, <2>5, <3>1
    <3>3. good[d] <= slots[lowest].ues /\ good[d] <= slots[i].ues
      <4>1. CASE \E j \in Slot : slots[j].cell = d
        <5>1. PICK j \in Slot : slots[j].cell = d
          BY <4>1
        <5>2. j = lowest
          BY <2>2, <2>5, <5>1
        <5>3. slots[lowest].ues = good[d]
          <6>1. slots[j] # Empty
            BY <3>2, <5>1 DEF Empty
          <6>2. PICK e \in 1..c - 1 : slots[j] = [ues |-> good[e], cell |-> e]
            BY <6>1 DEF Best
          <6>. QED BY <5>1, <5>2, <6>2
        <5>. QED BY <1>2, <3>2, <5>3
      <4>2. CASE ~(\E j \in Slot : slots[j].cell = d)
        <5>1. \A j \in Slot : slots[j].ues >= good[d]
          BY <3>2, <4>2 DEF Best
        <5>. QED BY <1>2, <1>5, <3>2, <5>1
      <4>. QED BY <4>1, <4>2
    <3>4. CASE i = lowest
      BY <1>2, <1>5, <1>7, <3>1, <3>2, <3>3, <3>4
    <3>5. CASE i # lowest
      BY <1>5, <2>2, <3>2, <3>3, <3>5
    <3>. QED BY <3>4, <3>5
  <2>. QED BY <1>4, <2>2, <2>3, <2>4, <2>5 DEF Best
<1>. QED BY <1>6, <1>7

\* A function that fits the recursive definition of the slots.
Offers(h, n, good) ==
  h = [c \in 0..n |-> IF c = 0 THEN [i \in Slot |-> Empty]
                      ELSE IF BsOn = 0 THEN <<>>
                      ELSE Offer(h[c - 1], c, good[c])]

\* There is one for any number of cells.
LEMMA OffersExist ==
  ASSUME NEW good, NEW n \in Nat
  PROVE  \E h : Offers(h, n, good)
<1>. DEFINE Without == {m \in Nat : ~\E h : Offers(h, m, good)}
<1>1. Without = {}
  <2>. SUFFICES ASSUME Without # {} PROVE FALSE
    OBVIOUS
  <2>1. PICK m \in Without : \A k \in Without : m <= k
    <3>. HIDE DEF Without
    <3>1. Without \subseteq Nat
      BY DEF Without
    <3>. QED BY <3>1, Least
  <2>2. m \in Nat /\ (~\E h : Offers(h, m, good))
        /\ \A k \in Nat : (~\E h : Offers(h, k, good)) => m <= k
    BY <2>1
  <2>. HIDE DEF Without
  <2>3. CASE m = 0
    <3>. DEFINE h == [c \in 0..0 |-> [i \in Slot |-> Empty]]
    <3>1. Offers(h, 0, good)
      BY DEF Offers
    <3>. QED BY <2>2, <2>3, <3>1
  <2>4. CASE m # 0
    <3>. DEFINE k == m - 1
    <3>1. k \in Nat /\ ~(m <= k) /\ k + 1 = m
      BY <2>2, <2>4
    <3>2. PICK g : Offers(g, k, good)
      BY <2>2, <3>1
    <3>. HIDE DEF k
    <3>. DEFINE h == [c \in 0..m |-> IF c <= k THEN g[c]
                                     ELSE IF BsOn = 0 THEN <<>> ELSE Offer(g[k], m, good[m])]
    <3>3. \A c \in 0..k : g[c] = IF c = 0 THEN [i \in Slot |-> Empty]
                                 ELSE IF BsOn = 0 THEN <<>>
                                 ELSE Offer(g[c - 1], c, good[c])
      BY <3>2 DEF Offers
    <3>4. ASSUME NEW c \in 0..m
          PROVE  h[c] = IF c = 0 THEN [i \in Slot |-> Empty]
                        ELSE IF BsOn = 0 THEN <<>>
                        ELSE Offer(h[c - 1], c, good[c])
      <4>1. CASE c <= k
        <5>1. c \in 0..k /\ (c # 0 => c - 1 \in 0..m /\ c - 1 <= k)
          BY <2>2, <3>1, <4>1
        <5>2. h[c] = g[c] /\ (c # 0 => h[c - 1] = g[c - 1])
          BY <4>1, <5>1
        <5>. QED BY <3>3, <5>1, <5>2
      <4>2. CASE ~(c <= k)
        <5>1. c = m /\ c # 0 /\ c - 1 = k /\ k \in 0..m /\ k <= k
          BY <2>2, <2>4, <3>1, <4>2
        <5>2. h[c] = IF BsOn = 0 THEN <<>> ELSE Offer(g[k], m, good[m])
          BY <4>2, <5>1
        <5>3. h[c - 1] = g[k]
          BY <5>1
        <5>. QED BY <5>1, <5>2, <5>3
      <4>. QED BY <4>1, <4>2
    <3>. DEFINE r == [c \in 0..m |-> IF c = 0 THEN [i \in Slot |-> Empty]
                                     ELSE IF BsOn = 0 THEN <<>>
                                     ELSE Offer(h[c - 1], c, good[c])]
    <3>5. h = [c \in 0..m |-> h[c]]
      OBVIOUS
    <3>. HIDE DEF h
    <3>6. h = r
      BY <3>4, <3>5
    <3>7. Offers(h, m, good)
      BY <3>6 DEF Offers
    <3>. QED BY <2>2, <3>7
  <2>. QED BY <2>3, <2>4
<1>. QED BY <1>1

\* The slots at the end of the offers.
LEMMA BsToTurnOnIs ==
  ASSUME NEW good \in [Cell -> Nat]
  PROVE  \E slots : /\ BsOn > 0 => Best(slots, NumCells, good)
                    /\ BsToTurnOn(good) = {slots[i].cell : i \in Slot}
<1>. USE CellsAssumption
<1>. DEFINE u == CHOOSE h : Offers(h, NumCells, good)
<1>1. Offers(u, NumCells, good)
  BY OffersExist
<1>2. BsToTurnOn(good) = {u[NumCells][i].cell : i \in Slot}
  BY DEF BsToTurnOn, Offers, Slot, Empty
<1>. HIDE DEF u
<1>3. ASSUME BsOn > 0 PROVE Best(u[NumCells], NumCells, good)
  <2>1. BsOn # 0
    BY <1>3
  <2>2. \A c \in 0..NumCells :
          u[c] = IF c = 0 THEN [i \in Slot |-> Empty] ELSE Offer(u[c - 1], c, good[c])
    BY <1>1, <2>1 DEF Offers
  <2>. DEFINE Wrong == {c \in 0..NumCells : ~Best(u[c], c, good)}
  <2>3. Wrong = {}
    <3>. SUFFICES ASSUME Wrong # {} PROVE FALSE
      OBVIOUS
    <3>1. PICK c \in Wrong : \A d \in Wrong : c <= d
      <4>1. Wrong \subseteq Nat
        OBVIOUS
      <4>. HIDE DEF Wrong
      <4>. QED BY <4>1, Least
    <3>2. c \in 0..NumCells /\ ~Best(u[c], c, good)
          /\ \A d \in 0..NumCells : ~Best(u[d], d, good) => c <= d
      BY <3>1
    <3>. HIDE DEF Wrong
    <3>3. CASE c = 0
      <4>1. u[0] = [i \in Slot |-> Empty]
        BY <2>2
      <4>2. Best(u[0], 0, good)
        BY <4>1 DEF Best, Empty
      <4>. QED BY <3>2, <3>3, <4>2
    <3>4. CASE c # 0
      <4>1. c \in Cell /\ c - 1 \in 0..NumCells /\ ~(c <= c - 1)
        BY <3>2, <3>4
      <4>2. Best(u[c - 1], c - 1, good)
        BY <3>2, <4>1
      <4>3. u[c] = Offer(u[c - 1], c, good[c])
        BY <2>2, <3>2, <3>4
      <4>. QED BY <1>3, <3>2, <4>1, <4>2, <4>3, OfferKeepsBest
    <3>. QED BY <3>3, <3>4
  <2>4. NumCells \in 0..NumCells
    OBVIOUS
  <2>. QED BY <2>3, <2>4
<1>. QED BY <1>2, <1>3

\* As there are cells enough, no slot stays empty.
LEMMA NoSlotEmpty ==
  ASSUME NEW good \in [Cell -> Nat], NEW slots, Best(slots, NumCells, good), NEW e \in Slot
  PROVE  slots[e] # Empty
<1>. USE CellsAssumption
<1>. SUFFICES ASSUME slots[e] = Empty PROVE FALSE
  OBVIOUS
<1>1. slots[e].cell = 0 /\ slots[e].ues = -1
  BY DEF Empty
<1>2. \A d \in 1..NumCells : \E i \in Slot : slots[i].cell = d
  <2>1. ASSUME NEW d \in 1..NumCells PROVE \E i \in Slot : slots[i].cell = d
    <3>1. good[d] \in Nat
      OBVIOUS
    <3>2. ~(slots[e].ues >= good[d])
      BY <1>1, <3>1
    <3>. QED BY <3>2 DEF Best
  <2>. QED BY <2>1
<1>. DEFINE f == [i \in Slot |-> slots[i].cell]
<1>3. f \in Surjection(Slot, 0..NumCells)
  <2>1. ASSUME NEW i \in Slot PROVE slots[i].cell \in 0..NumCells
    BY DEF Best, Empty
  <2>2. \A d \in 0..NumCells : \E i \in Slot : f[i] = d
    <3>1. ASSUME NEW d \in 0..NumCells PROVE \E i \in Slot : f[i] = d
      <4>1. CASE d = 0
        BY <1>1, <4>1
      <4>2. CASE d # 0
        <5>1. d \in 1..NumCells
          BY <4>2
        <5>. QED BY <1>2, <5>1
      <4>. QED BY <4>1, <4>2
    <3>. QED BY <3>1
  <2>. QED BY <2>1, <2>2 DEF Surjection
<1>4. /\ IsFiniteSet(Slot) /\ Cardinality(Slot) <= NumCells
      /\ Cardinality(0..NumCells) = NumCells + 1
  <2>1. /\ IsFiniteSet(1..BsOn) /\ Cardinality(1..BsOn) = IF 1 > BsOn THEN 0 ELSE BsOn - 1 + 1
        /\ Cardinality(0..NumCells) = IF 0 > NumCells THEN 0 ELSE NumCells - 0 + 1
    BY FS_Interval
  <2>. QED BY <2>1 DEF Slot
<1>5. Cardinality(0..NumCells) <= Cardinality(Slot)
  <2>. HIDE DEF f
  <2>. QED BY <1>3, <1>4, FS_Surjection
<1>6. Cardinality(Slot) \in Nat
  BY <1>4, FS_CardinalityType
<1>. QED BY <1>4, <1>5, <1>6

\* The cells to turn on are bsOn cells, and no other cell has more UEs.
LEMMA BestTurnedOn ==
  ASSUME NEW good \in [Cell -> Nat]
  PROVE  LET on == BsToTurnOn(good) IN
           /\ on \subseteq Cell /\ Cardinality(on) = BsOn
           /\ \A c \in on, d \in Cell \ on : good[c] >= good[d]
<1>. USE CellsAssumption
<1>1. PICK slots : /\ BsOn > 0 => Best(slots, NumCells, good)
                   /\ BsToTurnOn(good) = {slots[i].cell : i \in Slot}
  BY BsToTurnOnIs
<1>2. CASE BsOn = 0
  <2>1. Slot = {}
    BY <1>2 DEF Slot
  <2>2. BsToTurnOn(good) = {}
    BY <1>1, <2>1
  <2>. QED BY <1>2, <2>2, FS_EmptySet
<1>3. CASE BsOn > 0
  <2>. DEFINE f == [i \in Slot |-> slots[i].cell]
              on == BsToTurnOn(good)
  <2>1. Best(slots, NumCells, good) /\ on = {slots[i].cell : i \in Slot}
    BY <1>1, <1>3
  <2>2. ASSUME NEW i \in Slot
        PROVE  f[i] = slots[i].cell /\ f[i] \in Cell /\ slots[i].ues = good[f[i]]
    <3>1. slots[i] # Empty
      BY <2>1, NoSlotEmpty
    <3>2. PICK d \in 1..NumCells : slots[i] = [ues |-> good[d], cell |-> d]
      BY <2>1, <3>1 DEF Best
    <3>. QED BY <3>2
  <2>3. ASSUME NEW i \in Slot, NEW j \in Slot, i # j PROVE f[i] # f[j]
    <3>1. slots[i].cell = 0 \/ slots[i].cell # slots[j].cell
      BY <2>1, <2>3 DEF Best
    <3>2. f[i] \in Cell /\ f[i] = slots[i].cell /\ f[j] = slots[j].cell
      BY <2>2
    <3>. QED BY <3>1, <3>2
  <2>4. on = {f[i] : i \in Slot}
    BY <2>1
  <2>5. f \in Bijection(Slot, on)
    <3>1. f \in [Slot -> on]
      BY <2>4
    <3>. HIDE DEF f, on
    <3>. QED BY <2>3, <2>4, <3>1 DEF Bijection, Injection, IsInjective, Surjection
  <2>6. IsFiniteSet(Slot) /\ Cardinality(Slot) = BsOn
    BY FS_Interval, <1>3 DEF Slot
  <2>7. Cardinality(on) = BsOn
    <3>1. ExistsBijection(Slot, on)
      BY <2>5 DEF ExistsBijection
    <3>. QED BY <2>6, <3>1, FS_Bijection
  <2>8. on \subseteq Cell
    BY <2>2, <2>4
  <2>9. ASSUME NEW c \in on, NEW d \in Cell \ on PROVE good[c] >= good[d]
    <3>1. PICK i \in Slot : c = f[i]
      BY <2>4
    <3>2. d \in 1..NumCells /\ ~\E j \in Slot : slots[j].cell = d
      BY <2>1
    <3>3. slots[i].ues >= good[d]
      BY <2>1, <3>2 DEF Best
    <3>. QED BY <2>2, <3>1, <3>3
  <2>. QED BY <2>7, <2>8, <2>9
<1>. QED BY <1>2, <1>3

\* The SINR heuristic leaves on the cells with the most UEs of a good SINR,
\* as many as it is to, for any number of cells and any ties between them.
THEOREM BestCellsKept == Spec => []KeepsBestCells
<1>. DEFINE Counts == nUeGoodSinr \in [Cell -> Nat]
<1>1. Init => Counts
  BY DEF Init, EnergyInit
<1>2. Counts /\ [Next]_vars => Counts'
  <2>. SUFFICES ASSUME Counts, [Next]_vars PROVE Counts'
    OBVIOUS
  <2>1. CASE SaveEnergy
    <3>1. CASE TurnOnBsSinrPos
      <4>1. nUeGoodSinr' \in [Cell -> 0..MaxGoodUes]
        BY <3>1 DEF TurnOnBsSinrPos
      <4>. QED BY <4>1, EnergyBoundAssumption
    <3>2. CASE UNCHANGED nUeGoodSinr
      BY <3>2
    <3>. QED BY <2>1, <3>1, <3>2 DEF SaveEnergy, Heuristic, ProbabilityState, FirstReport
  <2>2. CASE UNCHANGED nUeGoodSinr
    BY <2>2
  <2>. QED BY <2>1, <2>2
       DEF Next, SimNext, PassTime, Tick, AgentObserve, AgentWrite, AgentPost, PostMetrics,
           WaitForControl, ReadFile, FlushFile, RunEvent, vars, energyVars
<1>3. Counts => KeepsBestCells
  BY BestTurnedOn DEF KeepsBestCells
<1>. QED BY <1>1, <1>2, <1>3, PTL DEF Spec

-----------------------------------------------------------------------------
(* The places of a file.                                                   *)

Position == Nat \X Nat

\* How many of S come before q.
Rank(S, q) == Cardinality({o \in S : Before(o, q)})

\* Any two places are ordered, one way only.
LEMMA PlacesOrdered ==
  /\ \A p, q \in Position : p = q \/ Before(p, q) \/ Before(q, p)
  /\ \A p, q \in Position : ~(Before(p, q) /\ Before(q, p)) /\ ~Before(p, p)
  /\ \A p, q, r \in Position : Before(p, q) /\ Before(q, r) => Before(p, r)
BY DEF Position, Before

\* There is a first one of any places.
LEMMA FirstPlace ==
  ASSUME NEW T \in SUBSET Position, T # {}
  PROVE  \E p \in T : \A q \in T \ {p} : Before(p, q)
<1>. DEFINE Rows == {p[1] : p \in T}
<1>1. Rows \subseteq Nat /\ Rows # {}
  BY DEF Position
<1>2. PICK r \in Rows : \A s \in Rows : r <= s
  <2>. HIDE DEF Rows
  <2>. QED BY <1>1, Least
<1>. DEFINE Columns == {n \in Nat : <<r, n>> \in T}
<1>3. Columns \subseteq Nat /\ Columns # {}
  <2>1. PICK p \in T : p[1] = r
    BY <1>2
  <2>2. p = <<r, p[2]>> /\ p[2] \in Nat
    BY <2>1 DEF Position
  <2>. QED BY <2>2
<1>4. PICK k \in Columns : \A n \in Columns : k <= n
  <2>. HIDE DEF Columns
  <2>. QED BY <1>3, Least
<1>5. ASSUME NEW q \in T, q # <<r, k>>
      PROVE  Before(<<r, k>>, q)
  <2>1. q = <<q[1], q[2]>> /\ q[1] \in Nat /\ q[2] \in Nat /\ r <= q[1] /\ r \in Nat
    BY <1>1, <1>2 DEF Position
  <2>2. CASE q[1] = r
    <3>1. k <= q[2] /\ q[2] # k
      BY <1>4, <1>5, <2>1, <2>2
    <3>. QED BY <2>1, <2>2, <3>1 DEF Before
  <2>3. CASE q[1] # r
    BY <2>1, <2>3 DEF Before
  <2>. QED BY <2>2, <2>3
<1>. QED BY <1>4, <1>5

\* Ranks are below the number of places, and follow their order.
LEMMA RankIs ==
  ASSUME NEW S \in SUBSET Position, IsFiniteSet(S), NEW q \in S
  PROVE  /\ Rank(S, q) \in Nat /\ Cardinality(S) \in Nat
         /\ Rank(S, q) + 1 <= Cardinality(S)
         /\ \A p \in S : Before(p, q) => Rank(S, p) < Rank(S, q)
         /\ \A p \in S : Rank(S, p) = Rank(S, q) => p = q
<1>. DEFINE Below(p) == {o \in S : Before(o, p)}
<1>1. ASSUME NEW p \in S
      PROVE  /\ IsFiniteSet(Below(p)) /\ Rank(S, p) = Cardinality(Below(p))
             /\ Rank(S, p) \in Nat /\ Cardinality(S) \in Nat
             /\ p \notin Below(p) /\ Below(p) \cup {p} \in SUBSET S
             /\ Cardinality(Below(p) \cup {p}) = Rank(S, p) + 1
  <2>1. Below(p) \in SUBSET S
    OBVIOUS
  <2>2. IsFiniteSet(Below(p))
    BY <2>1, FS_Subset
  <2>3. p \notin Below(p)
    BY PlacesOrdered
  <2>. QED BY <2>1, <2>2, <2>3, FS_CardinalityType, FS_AddElement DEF Rank
<1>2. Rank(S, q) + 1 <= Cardinality(S)
  <2>1. Below(q) \cup {q} \in SUBSET S /\ Cardinality(Below(q) \cup {q}) = Rank(S, q) + 1
    BY <1>1
  <2>. HIDE DEF Below
  <2>. QED BY <2>1, FS_Subset
<1>3. ASSUME NEW p \in S, NEW r \in S, Before(p, r) PROVE Rank(S, p) < Rank(S, r)
  <2>1. Below(p) \cup {p} \in SUBSET Below(r)
    BY <1>3, PlacesOrdered
  <2>2. IsFiniteSet(Below(r)) /\ Cardinality(Below(p) \cup {p}) = Rank(S, p) + 1
        /\ Cardinality(Below(r)) = Rank(S, r) /\ Rank(S, p) \in Nat /\ Rank(S, r) \in Nat
    BY <1>1
  <2>. HIDE DEF Below
  <2>3. Rank(S, p) + 1 <= Rank(S, r)
    BY <2>1, <2>2, FS_Subset
  <2>. QED BY <2>2, <2>3
<1>4. ASSUME NEW p \in S, Rank(S, p) = Rank(S, q) PROVE p = q
  <2>1. p = q \/ Before(p, q) \/ Before(q, p)
    BY PlacesOrdered
  <2>2. Rank(S, p) \in Nat
    BY <1>1
  <2>. QED BY <1>3, <1>4, <2>1, <2>2
<1>. QED BY <1>1, <1>2, <1>3, <1>4

\* There is a place of each rank.
LEMMA RankExists ==
  ASSUME NEW S \in SUBSET Position, IsFiniteSet(S), NEW k \in Nat, k < Cardinality(S)
  PROVE  \E q \in S : Rank(S, q) = k
<1>. DEFINE Without == {n \in Nat : n < Cardinality(S) /\ ~\E q \in S : Rank(S, q) = n}
<1>1. Cardinality(S) \in Nat
  BY FS_CardinalityType
<1>2. Without = {}
  <2>. SUFFICES ASSUME Without # {} PROVE FALSE
    OBVIOUS
  <2>1. PICK n \in Without : \A m \in Without : n <= m
    <3>1. Without \subseteq Nat
      OBVIOUS
    <3>. HIDE DEF Without
    <3>. QED BY <3>1, Least
  <2>2. /\ n \in Nat /\ n < Cardinality(S) /\ ~\E q \in S : Rank(S, q) = n
        /\ \A m \in Nat : m < Cardinality(S) /\ (~\E q \in S : Rank(S, q) = m) => n <= m
    BY <2>1
  <2>. HIDE DEF Without
  <2>3. CASE n = 0
    <3>1. S # {}
      BY <1>1, <2>2, <2>3, FS_EmptySet
    <3>2. PICK p \in S : \A q \in S \ {p} : Before(p, q)
      BY <3>1, FirstPlace
    <3>3. {o \in S : Before(o, p)} = {}
      BY <3>2, PlacesOrdered
    <3>. QED BY <2>2, <2>3, <3>3, FS_EmptySet DEF Rank
  <2>4. CASE n # 0
    <3>1. n - 1 \in Nat /\ n - 1 < Cardinality(S) /\ ~(n <= n - 1)
      BY <1>1, <2>2, <2>4
    <3>2. PICK q \in S : Rank(S, q) = n - 1
      BY <2>2, <3>1
    <3>. DEFINE Below(p) == {o \in S : Before(o, p)}
                Above == {o \in S : Before(q, o)}
                Upto == Below(q) \cup {q}
    <3>3. /\ Upto \in SUBSET S /\ IsFiniteSet(Upto) /\ Cardinality(Upto) = n
      <4>1. Below(q) \in SUBSET S /\ q \notin Below(q)
        BY PlacesOrdered
      <4>2. IsFiniteSet(Below(q)) /\ Cardinality(Below(q)) = n - 1
        BY <3>2, <4>1, FS_Subset DEF Rank
      <4>. HIDE DEF Below
      <4>3. Cardinality(Below(q) \cup {q}) = n - 1 + 1 /\ IsFiniteSet(Below(q) \cup {q})
        BY <4>1, <4>2, FS_AddElement
      <4>. QED BY <2>2, <4>1, <4>3
    <3>4. Above # {}
      <4>1. SUFFICES ASSUME Above = {} PROVE FALSE
        OBVIOUS
      <4>2. S = Upto
        BY <4>1, <3>3, PlacesOrdered
      <4>. QED BY <2>2, <3>3, <4>2
    <3>5. PICK p \in Above : \A o \in Above \ {p} : Before(p, o)
      <4>1. Above \in SUBSET Position
        OBVIOUS
      <4>. HIDE DEF Above
      <4>. QED BY <3>4, <4>1, FirstPlace
    <3>6. Below(p) = Upto
      <4>1. ASSUME NEW o \in S PROVE Before(o, p) <=> o \in Upto
        <5>1. CASE o \in Upto
          BY <5>1, <3>5, PlacesOrdered
        <5>2. CASE o \notin Upto
          <6>1. o \in Above
            BY <5>2, PlacesOrdered
          <6>2. o = p \/ Before(p, o)
            BY <6>1, <3>5
          <6>. QED BY <5>2, <6>2, PlacesOrdered
        <5>. QED BY <5>1, <5>2
      <4>. QED BY <4>1, <3>3
    <3>. QED BY <2>2, <3>3, <3>6 DEF Rank
  <2>. QED BY <2>3, <2>4
<1>. QED BY <1>2

\* There is a last one of finitely many places, which LastOf is.
LEMMA LastOfIs ==
  ASSUME NEW S \in SUBSET Position, IsFiniteSet(S), S # {}
  PROVE  LastOf(S) \in S /\ \A q \in S \ {LastOf(S)} : Before(q, LastOf(S))
<1>1. Cardinality(S) \in Nat /\ Cardinality(S) # 0
  BY FS_CardinalityType, FS_EmptySet
<1>2. PICK p \in S : Rank(S, p) = Cardinality(S) - 1
  BY <1>1, RankExists
<1>3. ASSUME NEW q \in S \ {p} PROVE Before(q, p)
  <2>1. q \in S /\ p # q
    BY <1>3
  <2>2. Rank(S, q) \in Nat /\ Rank(S, q) + 1 <= Cardinality(S)
    BY <2>1, RankIs
  <2>3. ~Before(p, q)
    <3>1. Before(p, q) => Rank(S, p) < Rank(S, q)
      BY <2>1, RankIs
    <3>. QED BY <1>1, <1>2, <2>2, <3>1
  <2>. QED BY <2>1, <2>3, PlacesOrdered
<1>. QED BY <1>2, <1>3 DEF LastOf

-----------------------------------------------------------------------------
(* The lines of the file and the events they become.                       *)

\* The file holds batches of lines, each with a number that was given out.
FileInv ==
  /\ written \in 0..MaxBatches
  /\ file \in Seq(AgentBatch) /\ Len(file) <= written
  /\ \A i \in 1..Len(file) : file[i].id \in 1..written
  /\ applied \in Seq(1..MaxBatches)

\* There are at most MaxLines lines in each of MaxBatches batches.
LEMMA PlacesAre ==
  ASSUME FileInv
  PROVE  /\ Places \in SUBSET Position /\ IsFiniteSet(Places)
         /\ Cardinality(Places) <= MaxLines * MaxBatches
         /\ \A p \in Places : LineAt(p) \in Line
<1>. USE ControlAssumption
<1>1. /\ Len(file) \in Nat /\ Len(file) <= MaxBatches
      /\ DOMAIN file = 1..Len(file) /\ \A i \in 1..Len(file) : file[i] \in AgentBatch
  BY DEF FileInv
<1>2. Places \in SUBSET ((1..MaxBatches) \X (1..MaxLines))
  BY <1>1 DEF Places
<1>3. /\ IsFiniteSet((1..MaxBatches) \X (1..MaxLines))
      /\ Cardinality((1..MaxBatches) \X (1..MaxLines)) = MaxBatches * MaxLines
  <2>1. /\ IsFiniteSet(1..MaxBatches) /\ IsFiniteSet(1..MaxLines)
        /\ Cardinality(1..MaxBatches) = MaxBatches /\ Cardinality(1..MaxLines) = MaxLines
    <3>1. /\ IsFiniteSet(1..MaxBatches) /\ IsFiniteSet(1..MaxLines)
          /\ Cardinality(1..MaxBatches) = IF 1 > MaxBatches THEN 0 ELSE MaxBatches - 1 + 1
          /\ Cardinality(1..MaxLines) = IF 1 > MaxLines THEN 0 ELSE MaxLines - 1 + 1
      BY FS_Interval
    <3>. QED BY <3>1
  <2>. DEFINE B == 1..MaxBatches
              L == 1..MaxLines
  <2>2. IsFiniteSet(B) /\ IsFiniteSet(L)
    BY <2>1
  <2>3. Cardinality(B) = MaxBatches /\ Cardinality(L) = MaxLines
    BY <2>1
  <2>4. /\ IsFiniteSet(B \X L)
        /\ Cardinality(B \X L) = Cardinality(B) * Cardinality(L)
    <3>. HIDE DEF B, L
    <3>. QED BY <2>2, FS_Product
  <2>. QED BY <2>3, <2>4
<1>4. IsFiniteSet(Places) /\ Cardinality(Places) <= MaxBatches * MaxLines
  BY <1>2, <1>3, FS_Subset
<1>5. ASSUME NEW p \in Places PROVE LineAt(p) \in Line
  <2>1. p[1] \in 1..Len(file) /\ p[2] \in DOMAIN file[p[1]].lines
    BY <1>1 DEF Places
  <2>2. file[p[1]].lines \in UNION {[1..n -> AgentLines] : n \in 1..MaxLines}
    BY <1>1, <2>1 DEF AgentBatch
  <2>3. PICK n \in 1..MaxLines : file[p[1]].lines \in [1..n -> AgentLines]
    BY <2>2
  <2>4. file[p[1]].lines[p[2]] \in AgentLines
    BY <2>1, <2>3
  <2>. QED BY <2>4 DEF LineAt
<1>6. Places \in SUBSET Position
  BY <1>2 DEF Position
<1>7. MaxBatches * MaxLines = MaxLines * MaxBatches
  OBVIOUS
<1>. QED BY <1>4, <1>5, <1>6, <1>7

\* The same of the lines of a kind, or of any of the lines.
LEMMA LinesAre ==
  ASSUME FileInv, NEW S \in SUBSET Places
  PROVE  /\ S \in SUBSET Position /\ IsFiniteSet(S) /\ Cardinality(S) \in Nat
         /\ Cardinality(S) <= MaxLines * MaxBatches
         /\ \A p \in S : LineAt(p) \in Line
<1>1. IsFiniteSet(Places) /\ Cardinality(Places) <= MaxLines * MaxBatches
      /\ Cardinality(Places) \in Nat
  BY PlacesAre, FS_CardinalityType
<1>2. IsFiniteSet(S) /\ Cardinality(S) <= Cardinality(Places) /\ Cardinality(S) \in Nat
  BY <1>1, FS_Subset, FS_CardinalityType
<1>3. MaxLines * MaxBatches \in Nat
  BY ControlAssumption
<1>. QED BY <1>1, <1>2, <1>3, PlacesAre

\* What a steering and what an energy-saving line is.
LEMMA KindsOfLines ==
  ASSUME FileInv
  PROVE  /\ Steering \in SUBSET Places /\ EnergySaving \in SUBSET Places
         /\ \A p \in Steering : LineAt(p) \in TsLine
         /\ \A p \in EnergySaving : LineAt(p) \in EsLine
BY PlacesAre DEF Steering, EnergySaving, Line, EsLine, TsLine

EventAt(p, byTimestamp) ==
  [at |-> now + IF byTimestamp THEN LineAt(p).at ELSE 0, command |-> LineAt(p)]

\* The events of some lines are those of their places, in order.
LEMMA ScheduledIs ==
  ASSUME NEW S \in SUBSET Position, IsFiniteSet(S), NEW byTimestamp
  PROVE  /\ DOMAIN Scheduled(S, byTimestamp) = 1..Cardinality(S)
         /\ Scheduled(S, byTimestamp) = [i \in 1..Cardinality(S) |->
                                            Scheduled(S, byTimestamp)[i]]
         /\ \A i \in 1..Cardinality(S) : \E p \in S :
              /\ Rank(S, p) = i - 1
              /\ Scheduled(S, byTimestamp)[i] = EventAt(p, byTimestamp)
<1>. DEFINE place(i) == CHOOSE q \in S : Cardinality({o \in S : Before(o, q)}) = i - 1
<1>1. Scheduled(S, byTimestamp) =
        [i \in 1..Cardinality(S) |-> EventAt(place(i), byTimestamp)]
  BY DEF Scheduled, EventAt
<1>2. ASSUME NEW i \in 1..Cardinality(S)
      PROVE  place(i) \in S /\ Rank(S, place(i)) = i - 1
  <2>1. i - 1 \in Nat /\ i - 1 < Cardinality(S)
    BY FS_CardinalityType
  <2>2. \E q \in S : Cardinality({o \in S : Before(o, q)}) = i - 1
    BY <2>1, RankExists DEF Rank
  <2>. QED BY <2>2 DEF Rank
<1>. HIDE DEF place
<1>. QED BY <1>1, <1>2

Event == [at : Nat, command : Line \cup {Evict}]

\* The events scheduled at a read are not in the past, and not much later
\* than the end.
LEMMA ScheduledType ==
  ASSUME FileInv, NEW S \in SUBSET Places, NEW byTimestamp, now \in 0..MaxTime
  PROVE  /\ Scheduled(S, byTimestamp) \in Seq(Event)
         /\ Len(Scheduled(S, byTimestamp)) = Cardinality(S)
         /\ \A i \in 1..Cardinality(S) :
              /\ Scheduled(S, byTimestamp)[i].at \in now..2 * MaxTime
              /\ \E p \in S : Scheduled(S, byTimestamp)[i].command = LineAt(p)
<1>. DEFINE events == Scheduled(S, byTimestamp)
<1>1. S \in SUBSET Position /\ IsFiniteSet(S) /\ Cardinality(S) \in Nat
      /\ \A p \in S : LineAt(p) \in Line
  BY LinesAre
<1>2. events = [i \in 1..Cardinality(S) |-> events[i]]
  BY <1>1, ScheduledIs
<1>3. ASSUME NEW i \in 1..Cardinality(S)
      PROVE  /\ events[i].at \in now..2 * MaxTime
             /\ \E p \in S : events[i].command = LineAt(p)
             /\ events[i] \in Event
  <2>1. PICK p \in S : events[i] = EventAt(p, byTimestamp)
    BY <1>1, ScheduledIs
  <2>2. LineAt(p).at \in 0..MaxTime
    BY <1>1 DEF Line, EsLine, TsLine
  <2>3. (now + IF byTimestamp THEN LineAt(p).at ELSE 0) \in now..2 * MaxTime
    BY <2>2, EnergyBoundAssumption
  <2>4. (now + IF byTimestamp THEN LineAt(p).at ELSE 0) \in Nat
    BY <2>3
  <2>. QED BY <1>1, <2>1, <2>3, <2>4 DEF EventAt, Event
<1>. HIDE DEF events
<1>4. events \in Seq(Event) /\ Len(events) = Cardinality(S)
  BY <1>1, <1>2, <1>3, IsASeq
<1>. QED BY <1>3, <1>4 DEF events

\* The eviction comes at the timestamp of the last energy-saving line.
LEMMA EvictionIs ==
  ASSUME FileInv, now \in 0..MaxTime
  PROVE  /\ Eviction \in Seq(Event)
         /\ \A i \in 1..Len(Eviction) :
              /\ Eviction[i].at \in now..2 * MaxTime /\ Eviction[i].command = Evict
         /\ Counted(EnergySaving) =>
              /\ EnergySaving # {}
              /\ Eviction = << [at |-> now + LineAt(LastOf(EnergySaving)).at,
                                command |-> Evict] >>
<1>1. EnergySaving \in SUBSET Places
  BY DEF EnergySaving
<1>2. EnergySaving \in SUBSET Position /\ IsFiniteSet(EnergySaving)
  BY <1>1, LinesAre
<1>3. CASE ~Counted(EnergySaving)
  BY <1>3 DEF Eviction
<1>4. CASE Counted(EnergySaving)
  <2>1. EnergySaving # {}
    <3>1. EnergySaving = {} => Cardinality(EnergySaving) = 0
      BY FS_EmptySet
    <3>. QED BY <1>4, <3>1 DEF Counted
  <2>2. LastOf(EnergySaving) \in EnergySaving
    BY <1>2, <2>1, LastOfIs
  <2>3. LineAt(LastOf(EnergySaving)).at \in 0..MaxTime
    BY <2>2, KindsOfLines DEF EsLine
  <2>. DEFINE time == now + LineAt(LastOf(EnergySaving)).at
              event == [at |-> time, command |-> Evict]
  <2>4. time \in now..2 * MaxTime /\ time \in Nat
    BY <2>3, EnergyBoundAssumption
  <2>. HIDE DEF time
  <2>5. event \in Event
    BY <2>4 DEF Event
  <2>6. Eviction = <<event>>
    BY <1>4 DEF Eviction, time
  <2>7. event.at = time /\ event.command = Evict
    OBVIOUS
  <2>. HIDE DEF event
  <2>8. Len(Eviction) = 1 /\ Eviction[1] = event /\ Eviction \in Seq(Event)
    BY <2>5, <2>6
  <2>9. \A i \in 1..Len(Eviction) : i = 1
    BY <2>8
  <2>. QED BY <2>1, <2>4, <2>6, <2>7, <2>8, <2>9 DEF time, event
<1>. QED BY <1>3, <1>4

\* Sequences of events one after the other.
LEMMA EventsFollow ==
  ASSUME NEW s \in Seq(Event), NEW t \in Seq(Event)
  PROVE  /\ s \o t \in Seq(Event) /\ Len(s \o t) = Len(s) + Len(t)
         /\ \A i \in 1..Len(s) : (s \o t)[i] = s[i]
         /\ \A i \in 1..Len(t) : (s \o t)[Len(s) + i] = t[i]
         /\ \A i \in 1..Len(s \o t) : i \in 1..Len(s) \/ i - Len(s) \in 1..Len(t)
<1>1. /\ s \o t \in Seq(Event) /\ Len(s \o t) = Len(s) + Len(t)
      /\ \A i \in 1..Len(s) + Len(t) :
           (s \o t)[i] = IF i <= Len(s) THEN s[i] ELSE t[i - Len(s)]
  BY ConcatProperties
<1>2. Len(s) \in Nat /\ Len(t) \in Nat
  OBVIOUS
<1>3. ASSUME NEW i \in 1..Len(t) PROVE (s \o t)[Len(s) + i] = t[i]
  <2>1. Len(s) + i \in 1..Len(s) + Len(t) /\ ~(Len(s) + i <= Len(s))
        /\ Len(s) + i - Len(s) = i
    BY <1>2
  <2>. QED BY <1>1, <2>1
<1>4. ASSUME NEW i \in 1..Len(s) PROVE (s \o t)[i] = s[i]
  <2>1. i \in 1..Len(s) + Len(t) /\ i <= Len(s)
    BY <1>2
  <2>. QED BY <1>1, <2>1
<1>5. ASSUME NEW i \in 1..Len(s \o t)
      PROVE  i \in 1..Len(s) \/ i - Len(s) \in 1..Len(t)
  BY <1>1, <1>2
<1>. QED BY <1>1, <1>3, <1>4, <1>5

\* The events on the agenda are still to come.
AgendaInv ==
  /\ agenda \in Seq(Event)
  /\ \A i \in 1..Len(agenda) : agenda[i].at \in now..2 * MaxTime

LEMMA JoinedInTime ==
  ASSUME NEW s \in Seq(Event), NEW t \in Seq(Event), NEW b,
         \A i \in 1..Len(s) : s[i].at \in b, \A i \in 1..Len(t) : t[i].at \in b
  PROVE  s \o t \in Seq(Event) /\ \A i \in 1..Len(s \o t) : (s \o t)[i].at \in b
<1>1. ASSUME NEW i \in 1..Len(s \o t) PROVE (s \o t)[i].at \in b
  <2>1. CASE i \in 1..Len(s)
    BY <2>1, EventsFollow
  <2>2. CASE i - Len(s) \in 1..Len(t)
    <3>1. (s \o t)[Len(s) + (i - Len(s))] = t[i - Len(s)]
      BY <2>2, EventsFollow
    <3>2. Len(s) + (i - Len(s)) = i
      <4>1. Len(s) \in Nat
        OBVIOUS
      <4>2. i \in Int
        OBVIOUS
      <4>. QED BY <4>1, <4>2
    <3>. QED BY <2>2, <3>1, <3>2
  <2>. QED BY <2>1, <2>2, EventsFollow
<1>. QED BY <1>1, EventsFollow

\* The read puts nothing in the past.
LEMMA ReadKeepsAgenda ==
  ASSUME FileInv, AgendaInv, now \in 0..MaxTime, ReadFile
  PROVE  AgendaInv'
<1>1. now' = now
  BY DEF ReadFile
<1>2. CASE UNCHANGED agenda
  BY <1>1, <1>2 DEF AgendaInv
<1>3. CASE ~UNCHANGED agenda
  <2>1. PICK moot \in SUBSET Steering :
          agenda' = agenda \o Scheduled(Steering \ moot, FALSE) \o
                      IF schedule THEN Scheduled(EnergySaving, TRUE) \o Eviction ELSE <<>>
    BY <1>3 DEF ReadFile, CarryOutLines
  <2>. DEFINE b == now..2 * MaxTime
              orders == Scheduled(Steering \ moot, FALSE)
              states == Scheduled(EnergySaving, TRUE)
              rest == IF schedule THEN states \o Eviction ELSE <<>>
  <2>2. agenda \in Seq(Event) /\ \A i \in 1..Len(agenda) : agenda[i].at \in b
    BY DEF AgendaInv
  <2>3. orders \in Seq(Event) /\ \A i \in 1..Len(orders) : orders[i].at \in b
    <3>1. Steering \ moot \in SUBSET Places
      BY DEF Steering
    <3>. QED BY <3>1, ScheduledType
  <2>4. states \in Seq(Event) /\ \A i \in 1..Len(states) : states[i].at \in b
    <3>1. EnergySaving \in SUBSET Places
      BY DEF EnergySaving
    <3>. QED BY <3>1, ScheduledType
  <2>5. Eviction \in Seq(Event) /\ \A i \in 1..Len(Eviction) : Eviction[i].at \in b
    BY EvictionIs
  <2>6. rest \in Seq(Event) /\ \A i \in 1..Len(rest) : rest[i].at \in b
    <3>1. CASE schedule
      <4>1. rest = states \o Eviction
        BY <3>1
      <4>. HIDE DEF states, rest, b
      <4>. QED BY <2>4, <2>5, <4>1, JoinedInTime
    <3>2. CASE ~schedule
      BY <3>2
    <3>. QED BY <3>1, <3>2
  <2>7. agenda' = (agenda \o orders) \o rest
    BY <2>1
  <2>. HIDE DEF orders, states, rest, b
  <2>8. agenda \o orders \in Seq(Event)
        /\ \A i \in 1..Len(agenda \o orders) : (agenda \o orders)[i].at \in b
    BY <2>2, <2>3, JoinedInTime
  <2>9. agenda' \in Seq(Event) /\ \A i \in 1..Len(agenda') : agenda'[i].at \in b
    BY <2>6, <2>7, <2>8, JoinedInTime
  <2>. QED BY <1>1, <2>9 DEF AgendaInv, b
<1>. QED BY <1>2, <1>3

\* The event that runs leaves the others in their order.
LEMMA RunEventIs ==
  ASSUME AgendaInv, RunEvent
  PROVE  \E i \in 1..Len(agenda) :
           /\ agenda[i].at = now
           /\ \A j \in 1..Len(agenda) : agenda[j].at = now => i <= j
           /\ Len(agenda') = Len(agenda) - 1 /\ agenda' \in Seq(Event)
           /\ \A j \in 1..Len(agenda') : agenda'[j] = agenda[IF j < i THEN j ELSE j + 1]
           /\ rrc' = CASE agenda[i].command.kind = "ES" ->
                            SetAllowed(rrc, {agenda[i].command.cell},
                              [c \in {agenda[i].command.cell} |-> agenda[i].command.hoAllowed])
                       [] agenda[i].command.kind = "evict" -> EvictUsersFromSecondaryCell(rrc)
                       [] agenda[i].command.kind = "TS" -> rrc
<1>1. Due \subseteq Nat /\ Due # {} /\ agenda \in Seq(Event)
      /\ Due = {i \in 1..Len(agenda) : agenda[i].at = now}
  <2>1. Due # {} /\ agenda \in Seq(Event) /\ DOMAIN agenda = 1..Len(agenda)
    BY DEF RunEvent, AgendaInv
  <2>2. Due = {i \in 1..Len(agenda) : agenda[i].at = now}
    BY <2>1 DEF Due
  <2>. QED BY <2>1, <2>2
<1>. DEFINE i == CHOOSE i \in Due : \A j \in Due : i <= j
<1>2. i \in Due /\ \A j \in Due : i <= j
  BY <1>1, Least
<1>3. /\ agenda' = [j \in 1..Len(agenda) - 1 |-> agenda[IF j < i THEN j ELSE j + 1]]
      /\ rrc' = CASE agenda[i].command.kind = "ES" ->
                       SetAllowed(rrc, {agenda[i].command.cell},
                         [c \in {agenda[i].command.cell} |-> agenda[i].command.hoAllowed])
                  [] agenda[i].command.kind = "evict" -> EvictUsersFromSecondaryCell(rrc)
                  [] agenda[i].command.kind = "TS" -> rrc
  BY DEF RunEvent
<1>. HIDE DEF i
<1>4. i \in 1..Len(agenda) /\ agenda[i].at = now
      /\ \A j \in 1..Len(agenda) : agenda[j].at = now => i <= j
  BY <1>1, <1>2
<1>5. Len(agenda) \in Nat /\ Len(agenda) - 1 \in Nat
  BY <1>1, <1>4
<1>6. \A j \in 1..Len(agenda) - 1 : agenda[IF j < i THEN j ELSE j + 1] \in Event
  <2>1. ASSUME NEW j \in 1..Len(agenda) - 1
        PROVE  (IF j < i THEN j ELSE j + 1) \in 1..Len(agenda)
    BY <1>5
  <2>. QED BY <1>1, <2>1
<1>7. agenda' \in Seq(Event) /\ Len(agenda') = Len(agenda) - 1
  BY <1>3, <1>5, <1>6, IsASeq
<1>. QED BY <1>3, <1>4, <1>7

-----------------------------------------------------------------------------
(* Types.                                                                  *)

EnergyInv ==
  /\ DeviceInv /\ \A c \in Cell : ticksActive[c] <= now
  /\ controller \in Controllers /\ rrc \in Rrc
  /\ nUeGoodSinr \in [Cell -> 0..MaxGoodUes]

HandshakeInv ==
  /\ useSemaphores \in SemaphoreModes /\ schedule \in ScheduleModes
  /\ alive \in BOOLEAN
  /\ sim \in {"idle", "waiting", "reading", "flushing"}
  /\ nextRead \in 0..Never
  /\ metricsReady \in Nat /\ control \in Nat
  /\ bsState \in [Cell -> Statuses]
  /\ agent \in {"waiting", "acting", "posting"}
  /\ e2Controlled \in SUBSET UE

TypeInv == EnergyInv /\ HandshakeInv /\ FileInv /\ AgendaInv

\* A command leaves a record of the right type.
LEMMA SetAllowedRecord ==
  ASSUME NEW r \in Rrc, NEW S \in SUBSET Cell, NEW hoAllowed
  PROVE  SetAllowed(r, S, hoAllowed) \in Rrc
BY DEF SetAllowed, Rrc, Statuses

LEMMA TurnedRecord ==
  ASSUME NEW r \in Rrc, NEW S \in SUBSET Cell
  PROVE  TurnOn(r, S) \in Rrc /\ TurnOff(r, S) \in Rrc
         /\ EvictUsersFromSecondaryCell(r) \in Rrc
<1>1. ASSUME NEW q \in Rrc PROVE EvictUsersFromSecondaryCell(q) \in Rrc
  BY DEF EvictUsersFromSecondaryCell, Rrc
<1>2. SetAllowed(r, S, [c \in S |-> TRUE]) \in Rrc /\ SetAllowed(r, S, [c \in S |-> FALSE]) \in Rrc
  BY SetAllowedRecord
<1>. QED BY <1>1, <1>2 DEF TurnOn, TurnOff

LEMMA HeuristicRecord ==
  ASSUME EnergyInv, Heuristic
  PROVE  rrc' \in Rrc /\ nUeGoodSinr' \in [Cell -> 0..MaxGoodUes]
         /\ UNCHANGED <<controller, now, ticksActive>>
<1>1. CASE TurnOnBsSinrPos
  <2>1. PICK good \in [Cell -> 0..MaxGoodUes] :
          \E idle \in SUBSET (Cell \ BsToTurnOn(good)) :
            LET up == BsToTurnOn(good) \cup idle IN
            /\ nUeGoodSinr' = good
            /\ rrc' = TurnOff(TurnOn(rrc, up), Cell \ up)
    BY <1>1 DEF TurnOnBsSinrPos
  <2>. PICK idle \in SUBSET (Cell \ BsToTurnOn(good)) :
            LET up == BsToTurnOn(good) \cup idle IN
            /\ nUeGoodSinr' = good
            /\ rrc' = TurnOff(TurnOn(rrc, up), Cell \ up)
    BY <2>1
  <2>2. good \in [Cell -> Nat]
    BY EnergyBoundAssumption
  <2>3. BsToTurnOn(good) \cup idle \in SUBSET Cell
    BY <2>2, BestTurnedOn
  <2>. DEFINE up == BsToTurnOn(good) \cup idle
  <2>4. rrc' = TurnOff(TurnOn(rrc, up), Cell \ up) /\ up \in SUBSET Cell
        /\ Cell \ up \in SUBSET Cell
    BY <2>1, <2>3
  <2>. HIDE DEF up
  <2>5. TurnOn(rrc, up) \in Rrc
    BY <2>4, TurnedRecord DEF EnergyInv
  <2>. QED BY <1>1, <2>1, <2>4, <2>5, TurnedRecord DEF TurnOnBsSinrPos
<1>2. CASE \E c \in Cell, active \in BOOLEAN : ProbabilityState(c, active)
  <2>1. PICK c \in Cell, active \in BOOLEAN :
          /\ rrc' = SetAllowed(rrc, {c}, [d \in {c} |-> active])
          /\ UNCHANGED <<controller, now, nUeGoodSinr, ticksActive>>
    BY <1>2 DEF ProbabilityState
  <2>2. {c} \in SUBSET Cell
    OBVIOUS
  <2>. QED BY <2>1, <2>2, SetAllowedRecord DEF EnergyInv
<1>. QED BY <1>1, <1>2 DEF Heuristic

\* What the file does to the record.
LEMMA FileRecord ==
  ASSUME TypeInv, ReadFile \/ RunEvent
  PROVE  rrc' \in Rrc
<1>1. rrc \in Rrc
  BY DEF TypeInv, EnergyInv
<1>2. CASE ReadFile
  <2>1. Commanded \in SUBSET Cell
    BY KindsOfLines DEF TypeInv, Commanded, EsLine
  <2>2. SetAllowed(rrc, Commanded, CommandedStatus) \in Rrc
    BY <1>1, <2>1, SetAllowedRecord
  <2>3. EvictUsersFromSecondaryCell(SetAllowed(rrc, Commanded, CommandedStatus)) \in Rrc
    BY <2>2 DEF EvictUsersFromSecondaryCell, Rrc
  <2>4. \/ rrc' = rrc
        \/ rrc' = SetAllowed(rrc, Commanded, CommandedStatus)
        \/ rrc' = EvictUsersFromSecondaryCell(SetAllowed(rrc, Commanded, CommandedStatus))
    BY <1>2 DEF ReadFile, CarryOutLines
  <2>. QED BY <1>1, <2>2, <2>3, <2>4
<1>3. CASE RunEvent
  <2>1. PICK i \in 1..Len(agenda) :
           rrc' = CASE agenda[i].command.kind = "ES" ->
                         SetAllowed(rrc, {agenda[i].command.cell},
                           [c \in {agenda[i].command.cell} |-> agenda[i].command.hoAllowed])
                    [] agenda[i].command.kind = "evict" -> EvictUsersFromSecondaryCell(rrc)
                    [] agenda[i].command.kind = "TS" -> rrc
    BY <1>3, RunEventIs DEF TypeInv
  <2>2. agenda[i].command \in EsLine \/ agenda[i].command \in TsLine
        \/ agenda[i].command = Evict
    <3>1. agenda[i] \in Event
      <4>1. agenda \in Seq(Event)
        BY DEF TypeInv, AgendaInv
      <4>. QED BY <4>1
    <3>. QED BY <3>1 DEF Event, Line
  <2>3. CASE agenda[i].command \in EsLine
    <3>1. agenda[i].command.kind = "ES" /\ {agenda[i].command.cell} \in SUBSET Cell
      BY <2>3 DEF EsLine
    <3>. QED BY <1>1, <2>1, <3>1, SetAllowedRecord
  <2>4. CASE agenda[i].command \in TsLine
    BY <1>1, <2>1, <2>4 DEF TsLine
  <2>5. CASE agenda[i].command = Evict
    BY <1>1, <2>1, <2>5 DEF Evict, EvictUsersFromSecondaryCell, Rrc
  <2>. QED BY <2>2, <2>3, <2>4, <2>5
<1>. QED BY <1>2, <1>3

\* The actions of the agent and of the semaphores leave the cells alone.
LEMMA EnergyInvKept ==
  ASSUME TypeInv, [Next]_vars, DeviceInv'
  PROVE  EnergyInv'
<1>1. CASE SaveEnergy
  <2>1. CASE Heuristic
    BY <1>1, <2>1, HeuristicRecord DEF TypeInv, EnergyInv
  <2>2. ASSUME NEW c \in Cell, FirstReport(c) PROVE EnergyInv'
    <3>1. rrc' \in Rrc
      BY <2>2 DEF FirstReport, TypeInv, EnergyInv, Rrc, Statuses
    <3>. QED BY <2>2, <3>1 DEF FirstReport, TypeInv, EnergyInv
  <2>. QED BY <1>1, <2>1, <2>2 DEF SaveEnergy
<1>2. CASE PassTime
  <2>1. ASSUME NEW c \in Cell PROVE ticksActive'[c] <= now'
    BY <1>2 DEF PassTime, Tick, TypeInv, EnergyInv, DeviceInv, Clocks
  <2>. QED BY <1>2, <2>1 DEF PassTime, Tick, TypeInv, EnergyInv
<1>3. CASE ReadFile \/ RunEvent
  BY <1>3, FileRecord DEF ReadFile, RunEvent, TypeInv, EnergyInv
<1>4. CASE UNCHANGED <<controller, now, rrc, nUeGoodSinr, ticksActive>>
  BY <1>4 DEF TypeInv, EnergyInv
<1>. QED BY <1>1, <1>2, <1>3, <1>4
     DEF Next, SimNext, AgentObserve, AgentWrite, AgentPost, PostMetrics, WaitForControl,
         FlushFile, vars, energyVars

LEMMA HandshakeInvKept ==
  ASSUME TypeInv, [Next]_vars
  PROVE  HandshakeInv'
<1>. USE EnergyBoundAssumption DEF TypeInv, HandshakeInv
<1>1. now \in 0..MaxTime /\ rrc.allow \in [Cell -> Statuses]
  BY DEF EnergyInv, DeviceInv, Clocks, Rrc
<1>2. CASE AgentObserve
  <2>1. metricsReady' \in Nat
    BY <1>2 DEF AgentObserve
  <2>. QED BY <1>2, <2>1 DEF AgentObserve
<1>3. CASE AgentWrite
  BY <1>3 DEF AgentWrite
<1>4. CASE AgentPost
  <2>1. control' \in Nat
    BY <1>4 DEF AgentPost
  <2>. QED BY <1>4, <2>1 DEF AgentPost
<1>5. CASE PostMetrics
  BY <1>1, <1>5 DEF PostMetrics
<1>6. CASE WaitForControl
  BY <1>6 DEF WaitForControl
<1>7. CASE ReadFile
  <2>1. e2Controlled' \in SUBSET UE /\ alive' \in BOOLEAN
    <3>1. CASE UNCHANGED e2Controlled
      BY <1>7, <3>1 DEF ReadFile, CarryOutLines
    <3>2. CASE ~UNCHANGED e2Controlled
      <4>1. PICK moot \in SUBSET Steering :
              e2Controlled' = e2Controlled \cup {LineAt(p).imsi : p \in Steering \ moot}
        BY <1>7, <3>2 DEF ReadFile, CarryOutLines
      <4>2. \A p \in Steering : LineAt(p).imsi \in UE
        BY KindsOfLines DEF TsLine
      <4>. QED BY <1>7, <4>1, <4>2 DEF ReadFile, CarryOutLines
    <3>. QED BY <3>1, <3>2
  <2>. QED BY <1>7, <2>1 DEF ReadFile
<1>8. CASE FlushFile
  <2>1. nextRead' \in 0..Never
    BY <1>1, <1>8 DEF FlushFile, Never
  <2>. QED BY <1>8, <2>1 DEF FlushFile, Never
<1>9. CASE UNCHANGED <<useSemaphores, schedule, alive, channelVars, e2Controlled>>
  BY <1>9 DEF channelVars, Never
<1>. QED BY <1>2, <1>3, <1>4, <1>5, <1>6, <1>7, <1>8, <1>9
     DEF Next, SimNext, RunEvent, PassTime, SaveEnergy, vars

LEMMA FileInvKept ==
  ASSUME TypeInv, [Next]_vars
  PROVE  FileInv'
<1>1. FileInv
  BY DEF TypeInv
<1>. USE ControlAssumption
<1>2. CASE AgentWrite
  <2>1. PICK lines \in Batches : file' = Append(file, [id |-> written + 1, lines |-> lines])
    BY <1>2 DEF AgentWrite
  <2>. DEFINE batch == [id |-> written + 1, lines |-> lines]
  <2>2. lines \in UNION {[1..n -> AgentLines] : n \in 1..MaxLines}
    BY <2>1 DEF Batches
  <2>3. batch \in AgentBatch /\ batch.id = written + 1
    BY <1>1, <2>2 DEF AgentBatch, FileInv
  <2>. HIDE DEF batch
  <2>4. /\ file \in Seq(AgentBatch) /\ file' = Append(file, batch)
        /\ file' \in Seq(AgentBatch) /\ Len(file') = Len(file) + 1
        /\ \A i \in 1..Len(file) : file'[i] = file[i]
        /\ file'[Len(file) + 1] = batch
    BY <1>1, <2>1, <2>3, AppendProperties DEF FileInv, batch
  <2>5. written' = written + 1 /\ written < MaxBatches /\ applied' = applied
    BY <1>2 DEF AgentWrite
  <2>6. ASSUME NEW i \in 1..Len(file') PROVE file'[i].id \in 1..written'
    <3>1. CASE i \in 1..Len(file)
      BY <1>1, <2>4, <2>5, <3>1 DEF FileInv
    <3>2. CASE i = Len(file) + 1
      BY <1>1, <2>3, <2>4, <2>5, <3>2 DEF FileInv
    <3>3. Len(file) \in Nat
      BY <2>4
    <3>. QED BY <2>4, <3>1, <3>2, <3>3
  <2>7. Len(file) \in Nat
    BY <2>4
  <2>. QED BY <1>1, <2>4, <2>5, <2>6, <2>7 DEF FileInv
<1>3. CASE ReadFile
  <2>. DEFINE ids == [i \in DOMAIN file |-> file[i].id]
  <2>1. DOMAIN file = 1..Len(file) /\ Len(file) \in Nat
    BY <1>1 DEF FileInv
  <2>2. \A i \in 1..Len(file) : file[i].id \in 1..MaxBatches
    BY <1>1 DEF FileInv
  <2>3. ids \in Seq(1..MaxBatches)
    BY <2>1, <2>2, IsASeq
  <2>4. applied' = applied \o ids
    BY <1>3 DEF ReadFile
  <2>. HIDE DEF ids
  <2>5. applied' \in Seq(1..MaxBatches)
    BY <1>1, <2>3, <2>4, ConcatProperties DEF FileInv
  <2>. QED BY <1>1, <1>3, <2>5 DEF ReadFile, FileInv
<1>4. CASE FlushFile
  <2>1. UNCHANGED <<written, applied>>
    BY <1>4 DEF FlushFile
  <2>2. CASE file' = file
    BY <1>1, <2>1, <2>2 DEF FileInv
  <2>3. CASE file' = <<>>
    <3>1. Len(file') = 0 /\ file' \in Seq(AgentBatch)
      BY <2>3
    <3>. QED BY <1>1, <2>1, <3>1 DEF FileInv
  <2>. QED BY <1>4, <2>2, <2>3 DEF FlushFile
<1>5. CASE UNCHANGED <<file, written, applied>>
  BY <1>1, <1>5 DEF FileInv
<1>. QED BY <1>2, <1>3, <1>4, <1>5
     DEF Next, SimNext, AgentObserve, AgentPost, PostMetrics, WaitForControl,
         RunEvent, PassTime, SaveEnergy, vars, channelVars

\* Time passes only when nothing is due, so what is still on the agenda lies
\* in the future.
LEMMA AgendaInvKept ==
  ASSUME TypeInv, [Next]_vars
  PROVE  AgendaInv'
<1>1. AgendaInv /\ now \in 0..MaxTime /\ FileInv
  BY EnergyBoundAssumption DEF TypeInv, EnergyInv, DeviceInv, Clocks
<1>2. CASE ReadFile
  BY <1>1, <1>2, ReadKeepsAgenda
<1>3. CASE RunEvent
  <2>1. PICK i \in 1..Len(agenda) :
          /\ Len(agenda') = Len(agenda) - 1 /\ agenda' \in Seq(Event)
          /\ \A j \in 1..Len(agenda') : agenda'[j] = agenda[IF j < i THEN j ELSE j + 1]
    BY <1>1, <1>3, RunEventIs
  <2>2. now' = now /\ Len(agenda) \in Nat
    BY <1>1, <1>3 DEF RunEvent, AgendaInv
  <2>3. ASSUME NEW j \in 1..Len(agenda') PROVE agenda'[j].at \in now'..2 * MaxTime
    <3>1. (IF j < i THEN j ELSE j + 1) \in 1..Len(agenda)
      BY <2>1, <2>2
    <3>. QED BY <1>1, <2>1, <2>2, <3>1 DEF AgendaInv
  <2>. QED BY <2>1, <2>3 DEF AgendaInv
<1>4. CASE PassTime
  <2>1. DOMAIN agenda = 1..Len(agenda) /\ now' = now + 1 /\ agenda' = agenda
    BY <1>1, <1>4 DEF PassTime, Tick, AgendaInv
  <2>2. ASSUME NEW i \in 1..Len(agenda) PROVE agenda[i].at \in now + 1..2 * MaxTime
    <3>1. agenda[i].at # now
      BY <1>4, <2>1 DEF PassTime, Due
    <3>. QED BY <1>1, <3>1, EnergyBoundAssumption DEF AgendaInv
  <2>. QED BY <1>1, <2>1, <2>2 DEF AgendaInv
<1>5. CASE UNCHANGED <<now, agenda>>
  BY <1>1, <1>5 DEF AgendaInv
<1>6. CASE SaveEnergy
  BY <1>5, <1>6, HeuristicRecord DEF SaveEnergy, FirstReport, TypeInv
<1>. QED BY <1>2, <1>3, <1>4, <1>5, <1>6
     DEF Next, SimNext, AgentObserve, AgentWrite, AgentPost, PostMetrics, WaitForControl,
         FlushFile, vars, energyVars

LEMMA TypeInvHolds == Spec => []TypeInv
<1>1. Init => TypeInv
  <2>. SUFFICES ASSUME Init PROVE TypeInv
    OBVIOUS
  <2>. USE EnergyBoundAssumption, ControlAssumption DEF Init, EnergyInit
  <2>1. EnergyInv
    BY DEF EnergyInv, DeviceInv, Clocks, ActiveTimeExact, GetAccumulatedActiveTime,
           Rrc, Statuses
  <2>2. HandshakeInv
    BY DEF HandshakeInv, Never, Statuses
  <2>3. FileInv
    BY DEF FileInv
  <2>4. AgendaInv
    BY DEF AgendaInv
  <2>. QED BY <2>1, <2>2, <2>3, <2>4 DEF TypeInv
<1>2. TypeInv /\ DeviceInv' /\ [Next]_vars => TypeInv'
  BY EnergyInvKept, HandshakeInvKept, FileInvKept, AgendaInvKept DEF TypeInv
<1>. QED BY <1>1, <1>2, DeviceInvHolds, PTL DEF Spec

\* Every variable keeps its type: no active time exceeds the time that has
\* passed, no batch has a number that was not given out, no event lies in the
\* past or more than the longest delay in the future.
THEOREM ControlTypes == Spec => []TypeOK
<1>1. TypeInv => TypeOK
  <2>. SUFFICES ASSUME TypeInv PROVE TypeOK
    OBVIOUS
  <2>1. EnergyTypeOK
    <3>. USE EnergyBoundAssumption DEF TypeInv, EnergyInv, DeviceInv, Clocks
    <3>1. ASSUME NEW c \in Cell
          PROVE  /\ totalActiveTime[c] \in 0..MaxTime
                 /\ lastStateChangeTime[c] \in 0..MaxTime
                 /\ ticksActive[c] \in 0..MaxTime
      <4>1. totalActiveTime[c] + (IF cellState[c] THEN now - lastStateChangeTime[c] ELSE 0)
              = ticksActive[c]
        BY DEF ActiveTimeExact, GetAccumulatedActiveTime
      <4>. QED BY <4>1
    <3>. QED BY <3>1 DEF EnergyTypeOK
  <2>2. \A i \in DOMAIN file : /\ file[i].id \in 1..MaxBatches
                               /\ \A j \in DOMAIN file[i].lines : file[i].lines[j] \in Line
    <3>. SUFFICES ASSUME NEW i \in DOMAIN file
                  PROVE  /\ file[i].id \in 1..MaxBatches
                         /\ \A j \in DOMAIN file[i].lines : file[i].lines[j] \in Line
      OBVIOUS
    <3>1. i \in 1..Len(file) /\ file[i] \in AgentBatch /\ file[i].id \in 1..written
          /\ written \in 0..MaxBatches
      BY DEF TypeInv, FileInv
    <3>2. PICK n \in 1..MaxLines : file[i].lines \in [1..n -> AgentLines]
      BY <3>1 DEF AgentBatch
    <3>. QED BY <3>1, <3>2, ControlAssumption
  <2>3. \A i \in DOMAIN agenda : /\ agenda[i].at \in now..2 * MaxTime
                                 /\ agenda[i].command \in Line \cup {Evict}
    <3>. SUFFICES ASSUME NEW i \in DOMAIN agenda
                  PROVE  /\ agenda[i].at \in now..2 * MaxTime
                         /\ agenda[i].command \in Line \cup {Evict}
      OBVIOUS
    <3>1. agenda \in Seq(Event)
      BY DEF TypeInv, AgendaInv
    <3>2. i \in 1..Len(agenda) /\ agenda[i] \in Event
      BY <3>1
    <3>. QED BY <3>2 DEF TypeInv, AgendaInv, Event
  <2>. QED BY <2>1, <2>2, <2>3 DEF TypeOK, TypeInv, HandshakeInv, FileInv
<1>. QED BY <1>1, TypeInvHolds, PTL

-----------------------------------------------------------------------------
(* Barred cells are evicted.                                               *)

\* A run in which the agent writes fewer than 256 lines, so that the counter
\* of eight bits tells a file with energy-saving lines from one without.
FewLines == MaxLines * MaxBatches < 256

LEMMA CountedIs ==
  ASSUME FewLines, FileInv
  PROVE  Counted(EnergySaving) <=> EnergySaving # {}
<1>1. EnergySaving \in SUBSET Places
  BY DEF EnergySaving
<1>2. /\ IsFiniteSet(EnergySaving) /\ Cardinality(EnergySaving) \in Nat
      /\ Cardinality(EnergySaving) <= MaxLines * MaxBatches
  BY <1>1, LinesAre
<1>3. MaxLines * MaxBatches \in Nat
  BY ControlAssumption
<1>4. Cardinality(EnergySaving) \in 0..255
  BY <1>2, <1>3 DEF FewLines
<1>5. Cardinality(EnergySaving) = 0 <=> EnergySaving = {}
  BY <1>2, FS_EmptySet
<1>. QED BY <1>4, <1>5 DEF Counted

\* Without the scheduled mode only steering is ever on the agenda.
OnlySteering == ~schedule => \A i \in 1..Len(agenda) : agenda[i].command.kind = "TS"

EvictedInv == OnlySteering /\ EvictedWhenBarred

LEMMA ReadKeepsEvicted ==
  ASSUME FewLines, TypeInv, EvictedInv, ReadFile
  PROVE  EvictedInv'
<1>. USE DEF TypeInv
<1>. SUFFICES ASSUME ~schedule
              PROVE  /\ \A i \in 1..Len(agenda') : agenda'[i].command.kind = "TS"
                     /\ controller # "random heuristic" => rrc'.unevicted = {}
  BY DEF EvictedInv, OnlySteering, EvictedWhenBarred, ReadFile
<1>1. now \in 0..MaxTime /\ agenda \in Seq(Event)
  BY EnergyBoundAssumption DEF EnergyInv, DeviceInv, Clocks, AgendaInv
<1>2. CASE UNCHANGED <<rrc, agenda>>
  BY <1>2 DEF EvictedInv, OnlySteering, EvictedWhenBarred
<1>3. CASE ~UNCHANGED <<rrc, agenda>>
  <2>1. PICK moot \in SUBSET Steering :
          agenda' = agenda \o Scheduled(Steering \ moot, FALSE) \o <<>>
    BY <1>3 DEF ReadFile, CarryOutLines
  <2>. DEFINE told == SetAllowed(rrc, Commanded, CommandedStatus)
              orders == Scheduled(Steering \ moot, FALSE)
  <2>2. rrc' = IF Counted(EnergySaving) THEN EvictUsersFromSecondaryCell(told) ELSE told
    BY <1>3 DEF ReadFile, CarryOutLines
  <2>3. orders \in Seq(Event) /\ \A i \in 1..Len(orders) : orders[i].command.kind = "TS"
    <3>1. Steering \ moot \in SUBSET Places
      BY DEF Steering
    <3>2. /\ orders \in Seq(Event) /\ Len(orders) = Cardinality(Steering \ moot)
          /\ \A i \in 1..Cardinality(Steering \ moot) :
               \E p \in Steering \ moot : orders[i].command = LineAt(p)
      BY <1>1, <3>1, ScheduledType
    <3>. HIDE DEF orders
    <3>. QED BY <3>2 DEF Steering
  <2>. HIDE DEF orders
  <2>4. \A i \in 1..Len(agenda') : agenda'[i].command.kind = "TS"
    <3>1. agenda' = agenda \o orders
      <4>1. agenda \o orders \in Seq(Event)
        BY <1>1, <2>3, EventsFollow
      <4>2. \A s \in Seq(Event) : s \o <<>> = s
        OBVIOUS
      <4>. QED BY <2>1, <4>1, <4>2 DEF orders
    <3>2. ASSUME NEW i \in 1..Len(agenda') PROVE agenda'[i].command.kind = "TS"
      <4>1. CASE i \in 1..Len(agenda)
        BY <1>1, <2>3, <3>1, <4>1, EventsFollow DEF EvictedInv, OnlySteering
      <4>2. CASE i - Len(agenda) \in 1..Len(orders)
        <5>1. agenda'[Len(agenda) + (i - Len(agenda))] = orders[i - Len(agenda)]
          BY <1>1, <2>3, <3>1, <4>2, EventsFollow
        <5>2. Len(agenda) + (i - Len(agenda)) = i
          <6>1. Len(agenda) \in Nat /\ i \in Int
            BY <1>1
          <6>. QED BY <6>1
        <5>. QED BY <2>3, <4>2, <5>1, <5>2
      <4>. QED BY <1>1, <2>3, <3>1, <4>1, <4>2, EventsFollow
    <3>. QED BY <3>2
  <2>5. CASE EnergySaving # {}
    <3>1. rrc' = EvictUsersFromSecondaryCell(told)
      BY <2>2, <2>5, CountedIs
    <3>2. told \in [allow : [Cell -> Statuses], dropped : SUBSET Cell, unevicted : SUBSET Cell]
      <4>1. Commanded \in SUBSET Cell
        BY KindsOfLines DEF Commanded, EsLine
      <4>. QED BY <4>1, SetAllowedRecord DEF EnergyInv, Rrc
    <3>3. rrc'.unevicted = {}
      BY <3>1, <3>2 DEF EvictUsersFromSecondaryCell
    <3>. QED BY <2>4, <3>3
  <2>6. CASE EnergySaving = {}
    <3>1. rrc' = told /\ Commanded = {}
      BY <2>2, <2>6, CountedIs DEF Commanded
    <3>2. controller # "random heuristic" => rrc.unevicted = {}
      BY DEF EvictedInv, EvictedWhenBarred
    <3>3. rrc.unevicted = {} => rrc'.unevicted = {}
      BY <3>1 DEF SetAllowed
    <3>. QED BY <2>4, <3>2, <3>3
  <2>. QED BY <2>5, <2>6
<1>. QED BY <1>2, <1>3

\* The SINR heuristic evicts after each bar, or bars no cell.
LEMMA HeuristicKeepsEvicted ==
  ASSUME TypeInv, EvictedWhenBarred, Heuristic, UNCHANGED schedule
  PROVE  EvictedWhenBarred'
<1>1. CASE TurnOnBsSinrPos
  <2>1. PICK up : rrc' = TurnOff(TurnOn(rrc, up), Cell \ up)
    BY <1>1 DEF TurnOnBsSinrPos
  <2>. DEFINE on == TurnOn(rrc, up)
              barred == SetAllowed(on, Cell \ up, [c \in Cell \ up |-> FALSE])
  <2>2. rrc.unevicted = {} => on.unevicted = {}
    BY DEF TurnOn, SetAllowed
  <2>3. CASE Cell \ up = {}
    <3>1. rrc' = barred
      BY <2>1, <2>3 DEF TurnOff
    <3>2. on.unevicted = {} => barred.unevicted = {}
      BY <2>3 DEF SetAllowed
    <3>. QED BY <1>1, <2>2, <3>1, <3>2 DEF EvictedWhenBarred, TurnOnBsSinrPos
  <2>4. CASE Cell \ up # {}
    <3>1. rrc' = EvictUsersFromSecondaryCell(barred)
      BY <2>1, <2>4 DEF TurnOff
    <3>2. EvictUsersFromSecondaryCell(barred).unevicted = {}
      BY DEF EvictUsersFromSecondaryCell, SetAllowed
    <3>. QED BY <3>1, <3>2 DEF EvictedWhenBarred
  <2>. QED BY <2>3, <2>4
<1>2. CASE \E c \in Cell, active \in BOOLEAN : ProbabilityState(c, active)
  BY <1>2 DEF ProbabilityState, EvictedWhenBarred
<1>. QED BY <1>1, <1>2 DEF Heuristic

\* Where the commands take effect at once, whoever gives them but the random
\* heuristic, a cell that is barred has been evicted, as long as the lines can
\* be counted in eight bits.
THEOREM BarredAreEvicted ==
  ASSUME FewLines
  PROVE  Spec => []EvictedWhenBarred
<1>1. Init => EvictedInv
  BY DEF Init, EnergyInit, EvictedInv, OnlySteering, EvictedWhenBarred
<1>2. TypeInv /\ EvictedInv /\ [Next]_vars => EvictedInv'
  <2>. SUFFICES ASSUME TypeInv, EvictedInv, [Next]_vars PROVE EvictedInv'
    OBVIOUS
  <2>1. CASE ReadFile
    BY <2>1, ReadKeepsEvicted
  <2>2. CASE RunEvent
    <3>. SUFFICES ASSUME ~schedule PROVE rrc' = rrc /\ OnlySteering'
      BY <2>2 DEF RunEvent, EvictedInv, EvictedWhenBarred, OnlySteering
    <3>1. PICK i \in 1..Len(agenda) :
           /\ Len(agenda') = Len(agenda) - 1 /\ agenda' \in Seq(Event)
           /\ \A j \in 1..Len(agenda') : agenda'[j] = agenda[IF j < i THEN j ELSE j + 1]
           /\ rrc' = CASE agenda[i].command.kind = "ES" ->
                            SetAllowed(rrc, {agenda[i].command.cell},
                              [c \in {agenda[i].command.cell} |-> agenda[i].command.hoAllowed])
                       [] agenda[i].command.kind = "evict" -> EvictUsersFromSecondaryCell(rrc)
                       [] agenda[i].command.kind = "TS" -> rrc
      BY <2>2, RunEventIs DEF TypeInv
    <3>2. agenda[i].command.kind = "TS"
      BY DEF EvictedInv, OnlySteering
    <3>3. rrc' = rrc
      BY <3>1, <3>2
    <3>4. ASSUME NEW j \in 1..Len(agenda') PROVE agenda'[j].command.kind = "TS"
      <4>1. (IF j < i THEN j ELSE j + 1) \in 1..Len(agenda)
        <5>1. Len(agenda) \in Nat
          BY DEF TypeInv, AgendaInv
        <5>. QED BY <3>1, <5>1
      <4>. QED BY <3>1, <4>1 DEF EvictedInv, OnlySteering
    <3>. QED BY <3>3, <3>4 DEF OnlySteering
  <2>3. CASE SaveEnergy
    <3>1. UNCHANGED <<schedule, agenda>>
      BY <2>3 DEF SaveEnergy
    <3>2. CASE Heuristic
      BY <3>1, <3>2, HeuristicKeepsEvicted DEF EvictedInv, OnlySteering
    <3>3. ASSUME NEW c \in Cell, FirstReport(c) PROVE rrc'.unevicted = rrc.unevicted
      <4>1. rrc \in Rrc
        BY DEF TypeInv, EnergyInv
      <4>. QED BY <3>3, <4>1 DEF FirstReport, Rrc
    <3>4. CASE \E c \in Cell : FirstReport(c)
      BY <3>1, <3>3, <3>4 DEF EvictedInv, OnlySteering, EvictedWhenBarred, FirstReport
    <3>. QED BY <2>3, <3>2, <3>4 DEF SaveEnergy
  <2>4. CASE UNCHANGED <<controller, rrc, schedule, agenda>>
    BY <2>4 DEF EvictedInv, OnlySteering, EvictedWhenBarred
  <2>. QED BY <2>1, <2>2, <2>3, <2>4
       DEF Next, SimNext, AgentObserve, AgentWrite, AgentPost, PostMetrics, WaitForControl,
           FlushFile, PassTime, Tick, vars, energyVars
<1>3. EvictedInv => EvictedWhenBarred
  BY DEF EvictedInv
<1>. QED BY <1>1, <1>2, <1>3, TypeInvHolds, PTL DEF Spec

-----------------------------------------------------------------------------
(* A prepared file is carried out.                                         *)

\* p is the line whose state cell c has in the end.
FinalPlace(c, p) ==
  /\ p \in EnergySaving /\ LineAt(p).cell = c
  /\ \A q \in EnergySaving : LineAt(q).cell = c /\ q # p =>
       \/ LineAt(q).at < LineAt(p).at
       \/ LineAt(q).at = LineAt(p).at /\ Before(q, p)

\* A cell with lines has a final one.
LEMMA FinalIs ==
  ASSUME FileInv, NEW c \in Commanded
  PROVE  \E p : FinalPlace(c, p) /\ FinalStatus(c) = LineAt(p).hoAllowed
<1>. DEFINE lines == {p \in EnergySaving : LineAt(p).cell = c}
            Times == {MaxTime - LineAt(p).at : p \in lines}
            latest(p) == \A q \in lines \ {p} :
                           \/ LineAt(q).at < LineAt(p).at
                           \/ LineAt(q).at = LineAt(p).at /\ Before(q, p)
<1>1. lines # {} /\ lines \in SUBSET EnergySaving
  BY DEF Commanded
<1>2. \A p \in lines : LineAt(p).at \in 0..MaxTime
  BY <1>1, KindsOfLines DEF EsLine
<1>3. Times \subseteq Nat /\ Times # {}
  BY <1>1, <1>2, EnergyBoundAssumption
<1>4. PICK t \in Times : \A u \in Times : t <= u
  <2>. HIDE DEF Times
  <2>. QED BY <1>3, Least
<1>. DEFINE Latest == {p \in lines : MaxTime - LineAt(p).at = t}
<1>5. Latest # {} /\ Latest \in SUBSET Places
  BY <1>1, <1>4, KindsOfLines
<1>. DEFINE p == LastOf(Latest)
<1>6. p \in Latest /\ \A q \in Latest \ {p} : Before(q, p)
  <2>1. Latest \in SUBSET Position /\ IsFiniteSet(Latest)
    BY <1>5, LinesAre
  <2>. HIDE DEF Latest
  <2>. QED BY <1>5, <2>1, LastOfIs
<1>. HIDE DEF p
<1>7. p \in lines /\ MaxTime - LineAt(p).at = t
  BY <1>6
<1>8. ASSUME NEW q \in lines \ {p}
      PROVE  LineAt(q).at < LineAt(p).at \/ (LineAt(q).at = LineAt(p).at /\ Before(q, p))
  <2>1. t <= MaxTime - LineAt(q).at
    BY <1>4
  <2>2. LineAt(q).at \in 0..MaxTime /\ LineAt(p).at \in 0..MaxTime
    BY <1>2, <1>7
  <2>3. CASE LineAt(q).at = LineAt(p).at
    BY <1>6, <1>7, <2>3
  <2>. QED BY <1>7, <2>1, <2>2, <2>3, EnergyBoundAssumption
<1>. DEFINE last == CHOOSE o \in lines : latest(o)
<1>9. last \in lines /\ latest(last)
  <2>1. \E o \in lines : latest(o)
    BY <1>7, <1>8
  <2>. HIDE DEF latest, lines
  <2>. QED BY <2>1
<1>10. FinalStatus(c) = LineAt(last).hoAllowed
  BY DEF FinalStatus
<1>. HIDE DEF last
<1>11. FinalPlace(c, last)
  BY <1>9 DEF FinalPlace
<1>. QED BY <1>10, <1>11

\* What the file says does not change while the file does not.
LEMMA SameFile ==
  ASSUME file' = file
  PROVE  /\ Commanded' = Commanded /\ EnergySaving' = EnergySaving
         /\ \A c : FinalStatus(c)' = FinalStatus(c)
         /\ \A p : LineAt(p)' = LineAt(p)
         /\ LastOf(EnergySaving)' = LastOf(EnergySaving)
<1>. DEFINE At(f, p) == f[p[1]].lines[p[2]]
            Es(f) == {p \in {q \in (DOMAIN f) \X (1..MaxLines) : q[2] \in DOMAIN f[q[1]].lines} :
                        At(f, p).kind = "ES"}
            Status(f, c) ==
              LET lines == {p \in Es(f) : At(f, p).cell = c}
                  last == CHOOSE p \in lines : \A q \in lines \ {p} :
                            \/ At(f, q).at < At(f, p).at
                            \/ At(f, q).at = At(f, p).at /\ Before(q, p)
              IN  At(f, last).hoAllowed
            Cells(f) == {At(f, p).cell : p \in Es(f)}
            Last(f) == LastOf(Es(f))
<1>1. /\ Commanded = Cells(file) /\ EnergySaving = Es(file)
      /\ LastOf(EnergySaving) = Last(file)
      /\ Commanded' = Cells(file') /\ EnergySaving' = Es(file')
      /\ LastOf(EnergySaving)' = Last(file')
  BY DEF Commanded, EnergySaving, Places, LineAt
<1>2. ASSUME NEW c PROVE FinalStatus(c) = Status(file, c) /\ FinalStatus(c)' = Status(file', c)
  BY DEF FinalStatus, EnergySaving, Places, LineAt
<1>3. ASSUME NEW p PROVE LineAt(p) = At(file, p) /\ LineAt(p)' = At(file', p)
  BY DEF LineAt
<1>. HIDE DEF At, Es, Status, Cells, Last
<1>. QED BY <1>1, <1>2, <1>3

\* Of the events i and j on agenda s, i runs later.
RunsAfter(s, i, j) == s[j].at < s[i].at \/ (s[j].at = s[i].at /\ j < i)

ForCell(event, c) == event.command.kind = "ES" /\ event.command.cell = c

\* The event that gives cell c its final state is on the agenda and the last
\* for c there, or has run.
StateCarried(c) ==
  \/ \E i \in 1..Len(agenda) :
       /\ ForCell(agenda[i], c) /\ agenda[i].command.hoAllowed = FinalStatus(c)
       /\ \A j \in 1..Len(agenda) \ {i} : ForCell(agenda[j], c) => RunsAfter(agenda, i, j)
  \/ /\ \A j \in 1..Len(agenda) : ~ForCell(agenda[j], c)
     /\ c \in rrc.dropped \/ rrc.allow[c] = IF FinalStatus(c) THEN "allowed" ELSE "barred"

\* The eviction is on the agenda, after all changes of state, or has run.
EvictionCarried ==
  \/ \E i \in 1..Len(agenda) :
       /\ agenda[i].command = Evict
       /\ \A j \in 1..Len(agenda) \ {i} :
            agenda[j].command.kind = "ES" => RunsAfter(agenda, i, j)
  \/ /\ \A j \in 1..Len(agenda) : agenda[j].command.kind # "ES"
     /\ rrc.unevicted = {}

LastIsLatest == \A p \in EnergySaving : LineAt(p).at <= LineAt(LastOf(EnergySaving)).at

Carried == (\A c \in Commanded : StateCarried(c)) /\ (LastIsLatest => EvictionCarried)

\* A prepared file is read once, at time 1; before that there is nothing on the
\* agenda.
PreparedInv ==
  schedule /\ controller = "file" =>
    /\ nextRead \in {1, Never}
    /\ sim # "idle" => nextRead = 1 /\ now = 1
    /\ nextRead = 1 => now <= 1
    /\ nextRead = Never => now >= 1 /\ sim = "idle"
    /\ sim # "flushing" /\ nextRead = 1 => agenda = <<>> /\ rrc.unevicted = {}
    /\ (sim = "flushing" /\ alive) \/ nextRead = Never => Carried

\* The events a prepared file puts on the agenda: the steering first, then the
\* states in the order of their lines, then the eviction.
LEMMA ReadAgenda ==
  ASSUME FileInv, now \in 0..MaxTime, agenda = <<>>, schedule, ReadFile, alive'
  PROVE  \E n \in Nat :
           LET m == Cardinality(EnergySaving)
               k == Len(Eviction)
           IN  /\ m \in Nat /\ agenda' \in Seq(Event) /\ Len(agenda') = n + m + k
               /\ \A i \in 1..n : agenda'[i].command.kind = "TS"
               /\ \A i \in 1..m : agenda'[n + i] = Scheduled(EnergySaving, TRUE)[i]
               /\ \A i \in 1..k : agenda'[n + m + i] = Eviction[i]
               /\ rrc' = rrc
<1>1. ~\E p \in Steering : LineAt(p).imsi \notin Attached
  BY DEF ReadFile, CarryOutLines
<1>2. PICK moot \in SUBSET Steering :
        agenda' = agenda \o Scheduled(Steering \ moot, FALSE) \o
                      IF schedule THEN Scheduled(EnergySaving, TRUE) \o Eviction ELSE <<>>
  BY <1>1 DEF ReadFile, CarryOutLines
<1>3. rrc' = rrc
  BY <1>1 DEF ReadFile, CarryOutLines
<1>. DEFINE orders == Scheduled(Steering \ moot, FALSE)
            states == Scheduled(EnergySaving, TRUE)
            m == Cardinality(EnergySaving)
            n == Len(orders)
            k == Len(Eviction)
<1>4. orders \in Seq(Event) /\ \A i \in 1..n : orders[i].command.kind = "TS"
  <2>1. Steering \ moot \in SUBSET Places
    BY DEF Steering
  <2>2. /\ orders \in Seq(Event) /\ n = Cardinality(Steering \ moot)
        /\ \A i \in 1..Cardinality(Steering \ moot) :
             \E p \in Steering \ moot : orders[i].command = LineAt(p)
    BY <2>1, ScheduledType
  <2>. HIDE DEF orders
  <2>. QED BY <2>2 DEF Steering
<1>5. states \in Seq(Event) /\ Len(states) = m /\ m \in Nat
  <2>1. EnergySaving \in SUBSET Places
    BY DEF EnergySaving
  <2>. QED BY <2>1, ScheduledType, LinesAre
<1>6. Eviction \in Seq(Event)
  BY EvictionIs
<1>. HIDE DEF orders, states
<1>7. agenda' = orders \o (states \o Eviction)
  <2>1. agenda' = (<<>> \o orders) \o (states \o Eviction)
    BY <1>2 DEF orders, states
  <2>2. \A s \in Seq(Event) : <<>> \o s = s
    OBVIOUS
  <2>. QED BY <1>4, <2>1, <2>2
<1>. DEFINE rest == states \o Eviction
<1>8. /\ rest \in Seq(Event) /\ Len(rest) = m + k
      /\ \A i \in 1..m : rest[i] = states[i]
      /\ \A i \in 1..k : rest[m + i] = Eviction[i]
  <2>1. /\ states \o Eviction \in Seq(Event)
        /\ Len(states \o Eviction) = Len(states) + Len(Eviction)
        /\ \A i \in 1..Len(states) : (states \o Eviction)[i] = states[i]
        /\ \A i \in 1..Len(Eviction) : (states \o Eviction)[Len(states) + i] = Eviction[i]
    BY <1>5, <1>6, EventsFollow
  <2>. QED BY <1>5, <2>1
<1>. HIDE DEF rest
<1>9. /\ agenda' \in Seq(Event) /\ Len(agenda') = n + (m + k)
      /\ \A i \in 1..n : agenda'[i] = orders[i]
      /\ \A i \in 1..m + k : agenda'[n + i] = rest[i]
  BY <1>4, <1>7, <1>8, EventsFollow DEF rest
<1>10. n \in Nat /\ k \in Nat /\ m \in Nat
  BY <1>4, <1>5, <1>6
<1>11. ASSUME NEW i \in 1..m PROVE agenda'[n + i] = states[i]
  <2>1. i \in 1..m + k
    BY <1>10
  <2>. QED BY <1>8, <1>9, <2>1
<1>12. ASSUME NEW i \in 1..k PROVE agenda'[n + m + i] = Eviction[i]
  <2>1. m + i \in 1..m + k /\ n + (m + i) = n + m + i
    BY <1>10
  <2>. QED BY <1>8, <1>9, <2>1
<1>13. n + (m + k) = n + m + k
  BY <1>10
<1>. HIDE DEF n, m, k
<1>14. \A i \in 1..n : agenda'[i].command.kind = "TS"
  BY <1>4, <1>9
<1>15. /\ n \in Nat /\ m \in Nat /\ agenda' \in Seq(Event) /\ Len(agenda') = n + m + k
       /\ \A i \in 1..n : agenda'[i].command.kind = "TS"
       /\ \A i \in 1..m : agenda'[n + i] = states[i]
       /\ \A i \in 1..k : agenda'[n + m + i] = Eviction[i]
       /\ rrc' = rrc
  BY <1>3, <1>9, <1>10, <1>11, <1>12, <1>13, <1>14
<1>. QED BY <1>15 DEF m, k, states

\* After the read all is on the agenda that the file asks for.
LEMMA ReadIsCarried ==
  ASSUME FewLines, FileInv, now \in 0..MaxTime, agenda = <<>>, rrc.unevicted = {},
         schedule, ReadFile, alive'
  PROVE  Carried'
<1>. DEFINE m == Cardinality(EnergySaving)
            k == Len(Eviction)
            states == Scheduled(EnergySaving, TRUE)
<1>1. PICK n \in Nat :
        /\ m \in Nat /\ agenda' \in Seq(Event) /\ Len(agenda') = n + m + k
        /\ \A i \in 1..n : agenda'[i].command.kind = "TS"
        /\ \A i \in 1..m : agenda'[n + i] = states[i]
        /\ \A i \in 1..k : agenda'[n + m + i] = Eviction[i]
        /\ rrc' = rrc
  BY ReadAgenda
<1>2. file' = file
  BY DEF ReadFile
<1>3. /\ Commanded' = Commanded /\ EnergySaving' = EnergySaving
      /\ \A c : FinalStatus(c)' = FinalStatus(c)
      /\ \A p : LineAt(p)' = LineAt(p)
      /\ LastOf(EnergySaving)' = LastOf(EnergySaving)
  BY <1>2, SameFile
<1>4. EnergySaving \in SUBSET Position /\ IsFiniteSet(EnergySaving)
      /\ \A p \in EnergySaving : LineAt(p) \in EsLine
  <2>1. EnergySaving \in SUBSET Places
    BY DEF EnergySaving
  <2>. QED BY <2>1, LinesAre, KindsOfLines
<1>5. \A i \in 1..m : \E p \in EnergySaving :
        Rank(EnergySaving, p) = i - 1 /\ states[i] = EventAt(p, TRUE)
  BY <1>4, ScheduledIs
<1>6. k \in Nat /\ \A i \in 1..k : Eviction[i].command = Evict
  BY EvictionIs
<1>. HIDE DEF m, k, states
\* The energy-saving events lie where those of the lines do.
<1>7. ASSUME NEW j \in 1..Len(agenda'), agenda'[j].command.kind = "ES"
      PROVE  \E q \in EnergySaving :
               /\ j = n + (Rank(EnergySaving, q) + 1) /\ j <= n + m
               /\ agenda'[j] = EventAt(q, TRUE)
  <2>1. j \notin 1..n
    BY <1>1, <1>7
  <2>2. j \in 1..n + m + k
    BY <1>1
  <2>3. CASE j - n \in 1..m
    <3>1. n + (j - n) = j
      BY <2>2
    <3>2. agenda'[j] = states[j - n]
      BY <1>1, <2>3, <3>1
    <3>3. PICK q \in EnergySaving :
            Rank(EnergySaving, q) = (j - n) - 1 /\ states[j - n] = EventAt(q, TRUE)
      BY <1>5, <2>3
    <3>4. j <= n + m /\ j = n + (((j - n) - 1) + 1)
      BY <1>1, <2>2, <2>3
    <3>. QED BY <3>2, <3>3, <3>4
  <2>4. CASE j - n \notin 1..m
    <3>1. j - n - m \in 1..k /\ n + m + (j - n - m) = j
      BY <1>1, <1>6, <2>1, <2>2, <2>4
    <3>2. agenda'[j].command = Evict
      BY <1>1, <1>6, <3>1
    <3>. QED BY <1>7, <3>2 DEF Evict
  <2>. QED BY <2>3, <2>4
<1>8. ASSUME NEW c \in Commanded'
      PROVE  StateCarried(c)'
  <2>1. c \in Commanded
    BY <1>3
  <2>2. PICK p : FinalPlace(c, p) /\ FinalStatus(c) = LineAt(p).hoAllowed
    BY <2>1, FinalIs
  <2>3. p \in EnergySaving /\ LineAt(p).cell = c
        /\ \A q \in EnergySaving : LineAt(q).cell = c /\ q # p =>
             \/ LineAt(q).at < LineAt(p).at
             \/ LineAt(q).at = LineAt(p).at /\ Before(q, p)
    BY <2>2 DEF FinalPlace
  <2>. DEFINE r == Rank(EnergySaving, p)
              i == n + (r + 1)
  <2>4. /\ r \in Nat /\ r + 1 <= m
        /\ \A q \in EnergySaving : Before(q, p) => Rank(EnergySaving, q) < r
        /\ \A q \in EnergySaving : Rank(EnergySaving, q) = r => q = p
        /\ \A q \in EnergySaving : Rank(EnergySaving, q) \in Nat
    BY <1>4, <2>3, RankIs DEF m
  <2>. HIDE DEF r
  <2>5. i \in 1..Len(agenda') /\ r + 1 \in 1..m
    BY <1>1, <1>6, <2>4
  <2>6. agenda'[i] = EventAt(p, TRUE)
    <3>1. agenda'[i] = states[r + 1]
      BY <1>1, <2>5
    <3>2. PICK q \in EnergySaving :
            Rank(EnergySaving, q) = (r + 1) - 1 /\ states[r + 1] = EventAt(q, TRUE)
      BY <1>5, <2>5
    <3>3. (r + 1) - 1 = r
      BY <2>4
    <3>. QED BY <2>4, <3>1, <3>2, <3>3
  <2>7. ForCell(agenda'[i], c) /\ agenda'[i].command.hoAllowed = FinalStatus(c)
    <3>1. LineAt(p).kind = "ES"
      BY <1>4, <2>3 DEF EsLine
    <3>. QED BY <2>2, <2>3, <2>6, <3>1 DEF ForCell, EventAt
  <2>8. ASSUME NEW j \in 1..Len(agenda') \ {i}, ForCell(agenda'[j], c)
        PROVE  RunsAfter(agenda', i, j)
    <3>1. PICK q \in EnergySaving : /\ j = n + (Rank(EnergySaving, q) + 1)
                                    /\ agenda'[j] = EventAt(q, TRUE)
      BY <1>7, <2>8 DEF ForCell
    <3>2. q # p
      BY <2>8, <3>1 DEF r
    <3>3. LineAt(q).cell = c
      BY <2>8, <3>1 DEF ForCell, EventAt
    <3>4. /\ agenda'[i].at = now + LineAt(p).at /\ agenda'[j].at = now + LineAt(q).at
          /\ LineAt(p).at \in Nat /\ LineAt(q).at \in Nat /\ now \in Nat
      BY <1>4, <2>3, <2>6, <3>1 DEF EventAt, EsLine
    <3>5. LineAt(q).at < LineAt(p).at \/ (LineAt(q).at = LineAt(p).at /\ Before(q, p))
      BY <2>3, <3>2, <3>3
    <3>6. CASE LineAt(q).at < LineAt(p).at
      <4>1. agenda'[j].at < agenda'[i].at
        BY <3>4, <3>6
      <4>. QED BY <4>1 DEF RunsAfter
    <3>7. CASE LineAt(q).at = LineAt(p).at /\ Before(q, p)
      <4>1. Rank(EnergySaving, q) < r /\ Rank(EnergySaving, q) \in Nat
        BY <2>4, <3>7
      <4>2. j < i
        BY <2>4, <3>1, <4>1
      <4>. QED BY <3>4, <3>7, <4>2 DEF RunsAfter
    <3>. QED BY <3>5, <3>6, <3>7
  <2>. HIDE DEF i
  <2>9. \E o \in 1..Len(agenda') :
          /\ ForCell(agenda'[o], c) /\ agenda'[o].command.hoAllowed = FinalStatus(c)'
          /\ \A j \in 1..Len(agenda') \ {o} :
               ForCell(agenda'[j], c) => RunsAfter(agenda', o, j)
    BY <1>3, <2>5, <2>7, <2>8
  <2>. QED BY <2>9 DEF StateCarried
<1>9. ASSUME LastIsLatest' PROVE EvictionCarried'
  <2>1. \A p \in EnergySaving : LineAt(p).at <= LineAt(LastOf(EnergySaving)).at
    BY <1>3, <1>9 DEF LastIsLatest
  <2>2. CASE EnergySaving = {}
    <3>1. \A j \in 1..Len(agenda') : agenda'[j].command.kind # "ES"
      BY <1>7, <2>2
    <3>. QED BY <1>1, <3>1 DEF EvictionCarried
  <2>3. CASE EnergySaving # {}
    <3>1. Eviction = << [at |-> now + LineAt(LastOf(EnergySaving)).at, command |-> Evict] >>
      BY <2>3, CountedIs, EvictionIs
    <3>. DEFINE time == now + LineAt(LastOf(EnergySaving)).at
                i == n + m + 1
    <3>2. k = 1 /\ Eviction[1] = [at |-> time, command |-> Evict]
      BY <3>1 DEF k
    <3>3. i \in 1..Len(agenda') /\ agenda'[i] = [at |-> time, command |-> Evict]
      BY <1>1, <3>2
    <3>4. LastOf(EnergySaving) \in EnergySaving
      BY <1>4, <2>3, LastOfIs
    <3>5. ASSUME NEW j \in 1..Len(agenda') \ {i}, agenda'[j].command.kind = "ES"
          PROVE  RunsAfter(agenda', i, j)
      <4>1. PICK q \in EnergySaving : j <= n + m /\ agenda'[j] = EventAt(q, TRUE)
        BY <1>7, <3>5
      <4>2. agenda'[j].at = now + LineAt(q).at /\ agenda'[i].at = time
        BY <3>3, <4>1 DEF EventAt
      <4>3. /\ LineAt(q).at \in Nat /\ LineAt(LastOf(EnergySaving)).at \in Nat
            /\ LineAt(q).at <= LineAt(LastOf(EnergySaving)).at
        BY <1>4, <2>1, <3>4 DEF EsLine
      <4>4. j < i
        BY <1>1, <4>1
      <4>. QED BY <4>2, <4>3, <4>4 DEF RunsAfter
    <3>. QED BY <3>3, <3>5 DEF EvictionCarried
  <2>. QED BY <2>2, <2>3
<1>. QED BY <1>8, <1>9 DEF Carried

\* The event that runs is before all others, which keep their order.
LEMMA EarliestRuns ==
  ASSUME AgendaInv, RunEvent
  PROVE  \E i \in 1..Len(agenda) :
           LET old(j) == IF j < i THEN j ELSE j + 1
               new(k) == IF k < i THEN k ELSE k - 1
           IN  /\ \A k \in 1..Len(agenda) \ {i} : ~RunsAfter(agenda, i, k)
               /\ \A j \in 1..Len(agenda') : old(j) \in 1..Len(agenda) \ {i}
                                             /\ agenda'[j] = agenda[old(j)]
               /\ \A k \in 1..Len(agenda) \ {i} : new(k) \in 1..Len(agenda')
                                                  /\ agenda'[new(k)] = agenda[k]
               /\ \A k \in 1..Len(agenda) \ {i} : \A j \in 1..Len(agenda') \ {new(k)} :
                    /\ old(j) # k
                    /\ RunsAfter(agenda, k, old(j)) => RunsAfter(agenda', new(k), j)
               /\ rrc' = CASE agenda[i].command.kind = "ES" ->
                                SetAllowed(rrc, {agenda[i].command.cell},
                                  [c \in {agenda[i].command.cell} |-> agenda[i].command.hoAllowed])
                           [] agenda[i].command.kind = "evict" -> EvictUsersFromSecondaryCell(rrc)
                           [] agenda[i].command.kind = "TS" -> rrc
<1>1. PICK i \in 1..Len(agenda) :
           /\ agenda[i].at = now
           /\ \A j \in 1..Len(agenda) : agenda[j].at = now => i <= j
           /\ Len(agenda') = Len(agenda) - 1 /\ agenda' \in Seq(Event)
           /\ \A j \in 1..Len(agenda') : agenda'[j] = agenda[IF j < i THEN j ELSE j + 1]
           /\ rrc' = CASE agenda[i].command.kind = "ES" ->
                            SetAllowed(rrc, {agenda[i].command.cell},
                              [c \in {agenda[i].command.cell} |-> agenda[i].command.hoAllowed])
                       [] agenda[i].command.kind = "evict" -> EvictUsersFromSecondaryCell(rrc)
                       [] agenda[i].command.kind = "TS" -> rrc
  BY RunEventIs
<1>. DEFINE old(j) == IF j < i THEN j ELSE j + 1
            new(k) == IF k < i THEN k ELSE k - 1
<1>2. Len(agenda) \in Nat /\ \A j \in 1..Len(agenda) : agenda[j].at \in now..2 * MaxTime
  BY DEF AgendaInv
<1>3. ASSUME NEW k \in 1..Len(agenda) \ {i} PROVE ~RunsAfter(agenda, i, k)
  <2>1. agenda[k].at \in now..2 * MaxTime /\ (agenda[k].at = now => i <= k)
        /\ now \in now..2 * MaxTime
    BY <1>1, <1>2
  <2>2. now \in Int /\ agenda[k].at \in Int /\ now <= agenda[k].at
    BY <2>1
  <2>3. i \in Nat /\ k \in Nat /\ k # i
    OBVIOUS
  <2>. QED BY <1>1, <2>1, <2>2, <2>3 DEF RunsAfter
<1>4. ASSUME NEW j \in 1..Len(agenda')
      PROVE  old(j) \in 1..Len(agenda) \ {i} /\ agenda'[j] = agenda[old(j)]
             /\ new(old(j)) = j
  BY <1>1, <1>2
<1>5. ASSUME NEW k \in 1..Len(agenda) \ {i}
      PROVE  /\ new(k) \in 1..Len(agenda') /\ old(new(k)) = k
             /\ agenda'[new(k)] = agenda[k]
  <2>1. new(k) \in 1..Len(agenda') /\ old(new(k)) = k
    BY <1>1, <1>2
  <2>. HIDE DEF new, old
  <2>. QED BY <1>4, <2>1
<1>6. ASSUME NEW k \in 1..Len(agenda) \ {i}, NEW j \in 1..Len(agenda') \ {new(k)}
      PROVE  /\ old(j) # k
             /\ RunsAfter(agenda, k, old(j)) => RunsAfter(agenda', new(k), j)
  <2>1. old(j) # k
    BY <1>4
  <2>2. agenda'[j] = agenda[old(j)] /\ agenda'[new(k)] = agenda[k]
    BY <1>4, <1>5
  <2>3. old(j) < k => j < new(k)
    BY <1>1, <1>2
  <2>. HIDE DEF new, old
  <2>. QED BY <2>1, <2>2, <2>3 DEF RunsAfter
<1>. QED BY <1>1, <1>3, <1>4, <1>5, <1>6

\* What an event does to the record of cell c, and to the cells not evicted.
LEMMA EventEffect ==
  ASSUME AllowType, NEW command \in Line \cup {Evict},
         rrc' = CASE command.kind = "ES" ->
                       SetAllowed(rrc, {command.cell},
                                  [c \in {command.cell} |-> command.hoAllowed])
                  [] command.kind = "evict" -> EvictUsersFromSecondaryCell(rrc)
                  [] command.kind = "TS" -> rrc,
         rrc \in Rrc
  PROVE  /\ \A c \in Cell :
              IF command.kind = "ES" /\ command.cell = c
              THEN \/ c \in rrc'.dropped
                   \/ rrc'.allow[c] = IF command.hoAllowed THEN "allowed" ELSE "barred"
              ELSE rrc'.allow[c] = rrc.allow[c] /\ (c \in rrc'.dropped <=> c \in rrc.dropped)
         /\ command.kind = "evict" => rrc'.unevicted = {}
         /\ command.kind = "TS" => rrc' = rrc
         /\ command.kind \in {"ES", "evict", "TS"}
         /\ command.kind = "evict" <=> command = Evict
<1>1. command \in EsLine \/ command \in TsLine \/ command = Evict
  BY DEF Line
<1>2. CASE command \in EsLine
  <2>1. command.kind = "ES" /\ command.cell \in Cell /\ command.hoAllowed \in BOOLEAN
    BY <1>2 DEF EsLine
  <2>2. rrc' = SetAllowed(rrc, {command.cell}, [c \in {command.cell} |-> command.hoAllowed])
    BY <2>1
  <2>3. ASSUME NEW c \in Cell, command.cell = c
        PROVE  \/ c \in rrc'.dropped
               \/ rrc'.allow[c] = IF command.hoAllowed THEN "allowed" ELSE "barred"
    <3>. DEFINE given == [d \in {command.cell} |-> command.hoAllowed]
    <3>1. given[c] = command.hoAllowed /\ c \in {command.cell}
      BY <2>3
    <3>. HIDE DEF given
    <3>2. rrc' = SetAllowed(rrc, {command.cell}, given)
      BY <2>2 DEF given
    <3>3. CASE rrc.allow[c] = "untracked"
      BY <3>1, <3>2, <3>3, SetAllowedUnknown DEF AllowType
    <3>4. CASE rrc.allow[c] # "untracked"
      <4>1. SetAllowed(rrc, {command.cell}, given).allow[c]
              = IF given[c] THEN "allowed" ELSE "barred"
        BY <3>1, <3>4, SetAllowedKnown DEF AllowType
      <4>. QED BY <3>1, <3>2, <4>1
    <3>. QED BY <3>3, <3>4
  <2>4. ASSUME NEW c \in Cell, command.cell # c
        PROVE  rrc'.allow[c] = rrc.allow[c] /\ (c \in rrc'.dropped <=> c \in rrc.dropped)
    <3>. DEFINE told == SetAllowed(rrc, {command.cell},
                                   [d \in {command.cell} |-> command.hoAllowed])
    <3>1. told.allow[c] = rrc.allow[c] /\ (c \in told.dropped <=> c \in rrc.dropped)
      BY <2>4, SetAllowedOthers DEF AllowType
    <3>. QED BY <2>2, <3>1
  <2>5. command # Evict
    BY <2>1 DEF Evict
  <2>. QED BY <2>1, <2>3, <2>4, <2>5
<1>3. CASE command \in TsLine
  <2>1. command.kind = "TS" /\ command # Evict
    BY <1>3 DEF TsLine, Evict
  <2>2. rrc' = rrc
    BY <2>1
  <2>. QED BY <2>1, <2>2
<1>4. CASE command = Evict
  <2>1. command.kind = "evict"
    BY <1>4 DEF Evict
  <2>2. rrc' = EvictUsersFromSecondaryCell(rrc)
    BY <2>1
  <2>3. rrc'.allow = rrc.allow /\ rrc'.dropped = rrc.dropped /\ rrc'.unevicted = {}
    BY <2>2 DEF EvictUsersFromSecondaryCell, Rrc
  <2>. QED BY <1>4, <2>1, <2>3
<1>. QED BY <1>1, <1>2, <1>3, <1>4

\* An event takes the file one step further.
LEMMA RunEventCarries ==
  ASSUME TypeInv, Carried, RunEvent
  PROVE  Carried'
<1>1. PICK i \in 1..Len(agenda) :
        LET old(j) == IF j < i THEN j ELSE j + 1
            new(k) == IF k < i THEN k ELSE k - 1
        IN  /\ \A k \in 1..Len(agenda) \ {i} : ~RunsAfter(agenda, i, k)
            /\ \A j \in 1..Len(agenda') : old(j) \in 1..Len(agenda) \ {i}
                                          /\ agenda'[j] = agenda[old(j)]
            /\ \A k \in 1..Len(agenda) \ {i} : new(k) \in 1..Len(agenda')
                                               /\ agenda'[new(k)] = agenda[k]
            /\ \A k \in 1..Len(agenda) \ {i} : \A j \in 1..Len(agenda') \ {new(k)} :
                 /\ old(j) # k
                 /\ RunsAfter(agenda, k, old(j)) => RunsAfter(agenda', new(k), j)
            /\ rrc' = CASE agenda[i].command.kind = "ES" ->
                             SetAllowed(rrc, {agenda[i].command.cell},
                               [c \in {agenda[i].command.cell} |-> agenda[i].command.hoAllowed])
                        [] agenda[i].command.kind = "evict" -> EvictUsersFromSecondaryCell(rrc)
                        [] agenda[i].command.kind = "TS" -> rrc
  BY EarliestRuns DEF TypeInv
<1>. DEFINE old(j) == IF j < i THEN j ELSE j + 1
            new(k) == IF k < i THEN k ELSE k - 1
            command == agenda[i].command
<1>2. \A k \in 1..Len(agenda) \ {i} : ~RunsAfter(agenda, i, k)
  BY <1>1
<1>3. \A j \in 1..Len(agenda') : old(j) \in 1..Len(agenda) \ {i}
                                 /\ agenda'[j] = agenda[old(j)]
  BY <1>1
<1>4. \A k \in 1..Len(agenda) \ {i} : new(k) \in 1..Len(agenda')
                                      /\ agenda'[new(k)] = agenda[k]
  BY <1>1
<1>5. \A k \in 1..Len(agenda) \ {i} : \A j \in 1..Len(agenda') \ {new(k)} :
        old(j) # k /\ (RunsAfter(agenda, k, old(j)) => RunsAfter(agenda', new(k), j))
  BY <1>1
<1>6. command \in Line \cup {Evict}
  <2>1. agenda \in Seq(Event)
    BY DEF TypeInv, AgendaInv
  <2>2. agenda[i] \in Event
    BY <2>1
  <2>. QED BY <2>2 DEF Event
<1>7. /\ \A c \in Cell :
           IF command.kind = "ES" /\ command.cell = c
           THEN \/ c \in rrc'.dropped
                \/ rrc'.allow[c] = IF command.hoAllowed THEN "allowed" ELSE "barred"
           ELSE rrc'.allow[c] = rrc.allow[c] /\ (c \in rrc'.dropped <=> c \in rrc.dropped)
      /\ command.kind = "evict" => rrc'.unevicted = {}
      /\ command.kind = "TS" => rrc' = rrc
      /\ command.kind \in {"ES", "evict", "TS"}
      /\ command.kind = "evict" <=> command = Evict
  <2>1. AllowType /\ rrc \in Rrc
    BY DEF TypeInv, EnergyInv, AllowType, Rrc
  <2>2. rrc' = CASE command.kind = "ES" ->
                      SetAllowed(rrc, {command.cell},
                                 [c \in {command.cell} |-> command.hoAllowed])
                 [] command.kind = "evict" -> EvictUsersFromSecondaryCell(rrc)
                 [] command.kind = "TS" -> rrc
    BY <1>1
  <2>. HIDE DEF command
  <2>. QED BY <1>6, <2>1, <2>2, EventEffect
<1>8. file' = file
  BY DEF RunEvent, channelVars
<1>9. /\ Commanded' = Commanded /\ EnergySaving' = EnergySaving
      /\ \A c : FinalStatus(c)' = FinalStatus(c)
      /\ \A p : LineAt(p)' = LineAt(p)
      /\ LastOf(EnergySaving)' = LastOf(EnergySaving)
  BY <1>8, SameFile
<1>. HIDE DEF old, new
<1>10. ASSUME NEW c \in Commanded' PROVE StateCarried(c)'
  <2>1. c \in Commanded /\ StateCarried(c)
    BY <1>9 DEF Carried
  <2>2. c \in Cell
    BY <2>1, KindsOfLines DEF Commanded, EsLine, TypeInv
  <2>3. CASE \E k \in 1..Len(agenda) \ {i} :
               /\ ForCell(agenda[k], c) /\ agenda[k].command.hoAllowed = FinalStatus(c)
               /\ \A j \in 1..Len(agenda) \ {k} :
                    ForCell(agenda[j], c) => RunsAfter(agenda, k, j)
    <3>1. PICK k \in 1..Len(agenda) \ {i} :
               /\ ForCell(agenda[k], c) /\ agenda[k].command.hoAllowed = FinalStatus(c)
               /\ \A j \in 1..Len(agenda) \ {k} :
                    ForCell(agenda[j], c) => RunsAfter(agenda, k, j)
      BY <2>3
    <3>2. new(k) \in 1..Len(agenda') /\ agenda'[new(k)] = agenda[k]
      BY <1>4
    <3>3. ASSUME NEW j \in 1..Len(agenda') \ {new(k)}, ForCell(agenda'[j], c)
          PROVE  RunsAfter(agenda', new(k), j)
      <4>1. old(j) \in 1..Len(agenda) \ {k} /\ agenda'[j] = agenda[old(j)]
        BY <1>3, <1>5
      <4>. QED BY <1>5, <3>1, <3>3, <4>1
    <3>4. ForCell(agenda'[new(k)], c)
          /\ agenda'[new(k)].command.hoAllowed = FinalStatus(c)'
      BY <1>9, <3>1, <3>2
    <3>5. \E o \in 1..Len(agenda') :
            /\ ForCell(agenda'[o], c) /\ agenda'[o].command.hoAllowed = FinalStatus(c)'
            /\ \A j \in 1..Len(agenda') \ {o} :
                 ForCell(agenda'[j], c) => RunsAfter(agenda', o, j)
      BY <3>2, <3>3, <3>4
    <3>. QED BY <3>5 DEF StateCarried
  <2>4. CASE /\ ForCell(agenda[i], c) /\ agenda[i].command.hoAllowed = FinalStatus(c)
             /\ \A j \in 1..Len(agenda) \ {i} :
                  ForCell(agenda[j], c) => RunsAfter(agenda, i, j)
    <3>1. \A j \in 1..Len(agenda') : ~ForCell(agenda'[j], c)
      BY <1>2, <1>3, <2>4
    <3>2. command.kind = "ES" /\ command.cell = c /\ command.hoAllowed = FinalStatus(c)
      BY <2>4 DEF ForCell
    <3>3. c \in rrc'.dropped
          \/ rrc'.allow[c] = IF FinalStatus(c) THEN "allowed" ELSE "barred"
      BY <1>7, <2>2, <3>2
    <3>4. c \in rrc'.dropped
          \/ rrc'.allow[c] = IF FinalStatus(c)' THEN "allowed" ELSE "barred"
      BY <1>9, <3>3
    <3>. QED BY <3>1, <3>4 DEF StateCarried
  <2>5. CASE /\ \A j \in 1..Len(agenda) : ~ForCell(agenda[j], c)
             /\ c \in rrc.dropped
                \/ rrc.allow[c] = IF FinalStatus(c) THEN "allowed" ELSE "barred"
    <3>1. \A j \in 1..Len(agenda') : ~ForCell(agenda'[j], c)
      BY <1>3, <2>5
    <3>2. ~(command.kind = "ES" /\ command.cell = c)
      BY <2>5 DEF ForCell
    <3>3. rrc'.allow[c] = rrc.allow[c] /\ (c \in rrc'.dropped <=> c \in rrc.dropped)
      BY <1>7, <2>2, <3>2
    <3>4. c \in rrc'.dropped
          \/ rrc'.allow[c] = IF FinalStatus(c)' THEN "allowed" ELSE "barred"
      BY <1>9, <2>5, <3>3
    <3>. QED BY <3>1, <3>4 DEF StateCarried
  <2>. QED BY <2>1, <2>3, <2>4, <2>5 DEF StateCarried
<1>11. ASSUME LastIsLatest' PROVE EvictionCarried'
  <2>1. EvictionCarried
    BY <1>9, <1>11 DEF Carried, LastIsLatest
  <2>2. CASE \E k \in 1..Len(agenda) \ {i} :
               /\ agenda[k].command = Evict
               /\ \A j \in 1..Len(agenda) \ {k} :
                    agenda[j].command.kind = "ES" => RunsAfter(agenda, k, j)
    <3>1. PICK k \in 1..Len(agenda) \ {i} :
               /\ agenda[k].command = Evict
               /\ \A j \in 1..Len(agenda) \ {k} :
                    agenda[j].command.kind = "ES" => RunsAfter(agenda, k, j)
      BY <2>2
    <3>2. new(k) \in 1..Len(agenda') /\ agenda'[new(k)] = agenda[k]
      BY <1>4
    <3>3. ASSUME NEW j \in 1..Len(agenda') \ {new(k)}, agenda'[j].command.kind = "ES"
          PROVE  RunsAfter(agenda', new(k), j)
      <4>1. old(j) \in 1..Len(agenda) \ {k} /\ agenda'[j] = agenda[old(j)]
        BY <1>3, <1>5
      <4>. QED BY <1>5, <3>1, <3>3, <4>1
    <3>. QED BY <3>1, <3>2, <3>3 DEF EvictionCarried
  <2>3. CASE /\ agenda[i].command = Evict
             /\ \A j \in 1..Len(agenda) \ {i} :
                  agenda[j].command.kind = "ES" => RunsAfter(agenda, i, j)
    <3>1. \A j \in 1..Len(agenda') : agenda'[j].command.kind # "ES"
      BY <1>2, <1>3, <2>3
    <3>2. rrc'.unevicted = {}
      BY <1>7, <2>3
    <3>. QED BY <3>1, <3>2 DEF EvictionCarried
  <2>4. CASE (\A j \in 1..Len(agenda) : agenda[j].command.kind # "ES") /\ rrc.unevicted = {}
    <3>1. \A j \in 1..Len(agenda') : agenda'[j].command.kind # "ES"
      BY <1>3, <2>4
    <3>2. rrc'.unevicted = {}
      BY <1>7, <2>4
    <3>. QED BY <3>1, <3>2 DEF EvictionCarried
  <2>. QED BY <2>1, <2>2, <2>3, <2>4 DEF EvictionCarried
<1>. QED BY <1>10, <1>11 DEF Carried

\* A cell that reports for the first time was not given a state before.
LEMMA FirstReportCarries ==
  ASSUME TypeInv, Carried, NEW d \in Cell, FirstReport(d), UNCHANGED <<file, agenda>>
  PROVE  Carried'
<1>1. /\ Commanded' = Commanded /\ EnergySaving' = EnergySaving
      /\ \A c : FinalStatus(c)' = FinalStatus(c)
      /\ \A p : LineAt(p)' = LineAt(p)
      /\ LastOf(EnergySaving)' = LastOf(EnergySaving)
  BY SameFile
<1>2. /\ rrc'.dropped = rrc.dropped /\ rrc'.unevicted = rrc.unevicted
      /\ \A c \in Cell : rrc.allow[c] # "untracked" => rrc'.allow[c] = rrc.allow[c]
  <2>1. rrc \in Rrc
    BY DEF TypeInv, EnergyInv
  <2>. QED BY <2>1 DEF FirstReport, Rrc
<1>3. ASSUME NEW c \in Commanded' PROVE StateCarried(c)'
  <2>1. c \in Commanded /\ StateCarried(c) /\ FinalStatus(c)' = FinalStatus(c)
    BY <1>1 DEF Carried
  <2>2. c \in Cell
    BY <2>1, KindsOfLines DEF Commanded, EsLine, TypeInv
  <2>3. rrc.allow[c] \in {"allowed", "barred"} => rrc'.allow[c] = rrc.allow[c]
    BY <1>2, <2>2
  <2>. QED BY <1>2, <2>1, <2>3 DEF StateCarried
<1>4. ASSUME LastIsLatest' PROVE EvictionCarried'
  <2>1. EvictionCarried
    BY <1>1, <1>4 DEF Carried, LastIsLatest
  <2>. QED BY <1>2, <2>1 DEF EvictionCarried
<1>. QED BY <1>3, <1>4 DEF Carried

LEMMA SameCarried ==
  ASSUME Carried, UNCHANGED <<file, agenda, rrc>>
  PROVE  Carried'
<1>1. /\ Commanded' = Commanded /\ EnergySaving' = EnergySaving
      /\ \A c : FinalStatus(c)' = FinalStatus(c)
      /\ \A p : LineAt(p)' = LineAt(p)
      /\ LastOf(EnergySaving)' = LastOf(EnergySaving)
  BY SameFile
<1>2. ASSUME NEW c \in Commanded' PROVE StateCarried(c)'
  <2>1. c \in Commanded /\ StateCarried(c) /\ FinalStatus(c)' = FinalStatus(c)
    BY <1>1 DEF Carried
  <2>. QED BY <2>1 DEF StateCarried
<1>3. ASSUME LastIsLatest' PROVE EvictionCarried'
  <2>1. EvictionCarried
    BY <1>1, <1>3 DEF Carried, LastIsLatest
  <2>. QED BY <2>1 DEF EvictionCarried
<1>. QED BY <1>2, <1>3 DEF Carried

LEMMA PreparedInvKept ==
  ASSUME FewLines, MaxTime > 0, TypeInv, Turn, PreparedInv, [Next]_vars
  PROVE  PreparedInv'
<1>1. schedule' = schedule /\ controller' = controller
  BY DEF Next, SimNext, SaveEnergy, Heuristic, TurnOnBsSinrPos, ProbabilityState,
         FirstReport, PassTime, Tick, AgentObserve, AgentWrite, AgentPost,
         PostMetrics, WaitForControl, ReadFile, FlushFile, RunEvent, vars, energyVars
<1>. SUFFICES ASSUME schedule, controller = "file"
              PROVE  /\ nextRead' \in {1, Never}
                     /\ sim' # "idle" => nextRead' = 1 /\ now' = 1
                     /\ nextRead' = 1 => now' <= 1
                     /\ nextRead' = Never => now' >= 1 /\ sim' = "idle"
                     /\ sim' # "flushing" /\ nextRead' = 1
                          => agenda' = <<>> /\ rrc'.unevicted = {}
                     /\ (sim' = "flushing" /\ alive') \/ nextRead' = Never => Carried'
  BY <1>1 DEF PreparedInv, Never
<1>2. now \in 0..MaxTime /\ MaxTime \in Nat /\ Never = MaxTime + 1 /\ 1 # Never
      /\ FileInv /\ AgendaInv
  BY EnergyBoundAssumption DEF TypeInv, EnergyInv, DeviceInv, Clocks, Never
<1>. HIDE DEF Never
<1>3. /\ nextRead \in {1, Never}
      /\ sim # "idle" => nextRead = 1 /\ now = 1
      /\ nextRead = 1 => now <= 1
      /\ nextRead = Never => now >= 1 /\ sim = "idle"
      /\ sim # "flushing" /\ nextRead = 1 => agenda = <<>> /\ rrc.unevicted = {}
      /\ (sim = "flushing" /\ alive) \/ nextRead = Never => Carried
  BY DEF PreparedInv
<1>4. CASE AgentWrite
  <2>1. UNCHANGED <<now, rrc, sim, nextRead, alive, agenda>>
    BY <1>4 DEF AgentWrite, energyVars
  <2>2. sim # "flushing" /\ nextRead = 1
    <3>1. CASE useSemaphores
      BY <1>3, <1>4, <3>1 DEF AgentWrite, Turn
    <3>2. CASE ~useSemaphores
      <4>1. now = 0
        BY <1>4, <3>2 DEF AgentWrite
      <4>. QED BY <1>3, <4>1
    <3>. QED BY <3>1, <3>2
  <2>. QED BY <1>2, <1>3, <2>1, <2>2
<1>5. CASE PostMetrics
  <2>1. /\ sim = "idle" /\ nextRead = now /\ sim' \in {"waiting", "reading"}
        /\ UNCHANGED <<now, rrc, nextRead, alive, agenda>>
    BY <1>5 DEF PostMetrics, energyVars
  <2>2. nextRead = 1
    BY <1>2, <1>3, <2>1
  <2>. QED BY <1>2, <1>3, <2>1, <2>2
<1>6. CASE WaitForControl
  <2>1. /\ sim = "waiting" /\ sim' = "reading"
        /\ UNCHANGED <<now, rrc, nextRead, alive, agenda>>
    BY <1>6 DEF WaitForControl, energyVars
  <2>. QED BY <1>2, <1>3, <2>1
<1>7. CASE ReadFile
  <2>1. sim = "reading" /\ sim' = "flushing" /\ UNCHANGED <<now, nextRead>>
    BY <1>7 DEF ReadFile
  <2>2. nextRead = 1 /\ agenda = <<>> /\ rrc.unevicted = {}
    BY <1>3, <2>1
  <2>3. alive' => Carried'
    BY <1>2, <1>7, <2>2, ReadIsCarried
  <2>. QED BY <1>2, <1>3, <2>1, <2>2, <2>3
<1>8. CASE FlushFile
  <2>1. /\ sim = "flushing" /\ alive /\ sim' = "idle" /\ nextRead' = Never
        /\ UNCHANGED <<now, rrc, alive, agenda, file>>
    BY <1>8 DEF FlushFile, energyVars
  <2>2. Carried'
    BY <1>3, <2>1, SameCarried
  <2>. QED BY <1>2, <1>3, <2>1, <2>2
<1>9. CASE RunEvent
  <2>1. sim = "idle" /\ UNCHANGED <<now, sim, nextRead, alive>>
    BY <1>9 DEF RunEvent, Simulating, channelVars
  <2>2. agenda # <<>>
    <3>1. Due # {}
      BY <1>9 DEF RunEvent
    <3>2. Due \subseteq DOMAIN agenda
      BY DEF Due
    <3>3. agenda = <<>> => DOMAIN agenda = {}
      OBVIOUS
    <3>. QED BY <3>1, <3>2, <3>3
  <2>3. nextRead = Never
    BY <1>3, <2>1, <2>2
  <2>4. Carried'
    BY <1>3, <1>9, <2>3, RunEventCarries
  <2>. QED BY <1>2, <1>3, <2>1, <2>3, <2>4
<1>10. CASE PassTime
  <2>1. /\ sim = "idle" /\ nextRead # now /\ now' = now + 1
        /\ UNCHANGED <<rrc, sim, nextRead, alive, agenda, file>>
    BY <1>10 DEF PassTime, Tick, Simulating, channelVars
  <2>2. nextRead = Never => Carried'
    BY <1>3, <2>1, SameCarried
  <2>. QED BY <1>2, <1>3, <2>1, <2>2
<1>11. CASE SaveEnergy
  <2>1. sim = "idle" /\ UNCHANGED <<sim, nextRead, alive, agenda, file>>
    BY <1>11 DEF SaveEnergy, Simulating, channelVars
  <2>2. PICK c \in Cell : FirstReport(c)
    BY <1>11 DEF SaveEnergy, Heuristic, TurnOnBsSinrPos, ProbabilityState
  <2>3. now' = now /\ rrc'.unevicted = rrc.unevicted
    <3>1. rrc \in Rrc
      BY DEF TypeInv, EnergyInv
    <3>. QED BY <2>2, <3>1 DEF FirstReport, Rrc
  <2>4. nextRead = Never => Carried'
    BY <1>3, <2>1, <2>2, FirstReportCarries
  <2>. QED BY <1>2, <1>3, <2>1, <2>3, <2>4
<1>12. CASE UNCHANGED <<now, rrc, sim, nextRead, alive, agenda, file>>
  <2>1. Carried => Carried'
    BY <1>12, SameCarried
  <2>. QED BY <1>2, <1>3, <1>12, <2>1
<1>. QED BY <1>4, <1>5, <1>6, <1>7, <1>8, <1>9, <1>10, <1>11, <1>12
     DEF Next, SimNext, AgentObserve, AgentPost, vars, energyVars, channelVars

\* Once a prepared file has run out, each cell it names is in the state of its
\* latest line, and the cells it bars are evicted if its last line is the
\* latest: for any lines in any order, as long as they can be counted in eight
\* bits and the simulation lasts to the first read.
THEOREM PreparedFileCarriedOut ==
  ASSUME FewLines, StalePosts = 0, MaxTime > 0
  PROVE  Spec => []ScheduleCarriedOut
<1>1. Init => PreparedInv
  BY EnergyBoundAssumption DEF Init, EnergyInit, PreparedInv, Never
<1>2. TypeInv /\ Turn /\ PreparedInv /\ [Next]_vars => PreparedInv'
  BY PreparedInvKept
<1>3. PreparedInv => ScheduleCarriedOut
  <2>. SUFFICES ASSUME PreparedInv, schedule, controller = "file", nextRead = Never,
                       sim = "idle", agenda = <<>>
                PROVE  /\ \A c \in Commanded \ rrc.dropped :
                            rrc.allow[c] = IF FinalStatus(c) THEN "allowed" ELSE "barred"
                       /\ LastIsLatest => rrc.unevicted = {}
    BY DEF ScheduleCarriedOut, LastIsLatest
  <2>1. Carried /\ 1..Len(agenda) = {}
    BY DEF PreparedInv
  <2>2. ASSUME NEW c \in Commanded \ rrc.dropped
        PROVE  rrc.allow[c] = IF FinalStatus(c) THEN "allowed" ELSE "barred"
    BY <2>1 DEF Carried, StateCarried
  <2>3. LastIsLatest => rrc.unevicted = {}
    BY <2>1 DEF Carried, EvictionCarried
  <2>. QED BY <2>2, <2>3
<1>. QED BY <1>1, <1>2, <1>3, TypeInvHolds, TurnHolds, PTL DEF Spec
=============================================================================
