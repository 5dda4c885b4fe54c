----------------------------- MODULE CellEnergy -----------------------------
(***************************************************************************)
(* Whether a mmWave cell sleeps is kept twice: the cell's own device has   *)
(* m_CellState and counts the time it was active, the coordinator bars the *)
(* cell from handovers and evicts its UEs.  Here are both records, the     *)
(* steps that write them and the heuristics that choose the cells.         *)
(* Sources: src/src/mmwave/model/mmwave-enb-net-device.cc,                 *)
(* src/src/mmwave/helper/energy-heuristic.cc, src/src/lte/model/           *)
(* lte-enb-rrc.cc.                                                         *)
(*                                                                         *)
(* What is abstracted: the four names of enumModeEnergyBs are the two      *)
(* values they have (ON and Idle, Sleep and OFF); which UE moves where in  *)
(* an eviction is McCoordinator's matter, here an eviction empties every   *)
(* barred cell; positions of UEs only order the cells, so any choice of    *)
(* the cells kept idle may come out.  A tick is the period of the          *)
(* heuristics.                                                             *)
(***************************************************************************)
EXTENDS Integers, FiniteSets

CONSTANTS
  NumCells,     \* nMmWaveEnbNodes
  BsOn, BsIdle, \* BsStatus[0], BsStatus[1]; the other cells sleep or are off
  Controllers,  \* who commands the cells: a heuristic, or the control file
  MaxGoodUes,   \* bound on the UEs with a good SINR in a cell
  MaxTime       \* end of the simulation, in ticks

Cell == 1..NumCells

ASSUME CellsAssumption ==
  NumCells \in Nat /\ BsOn \in Nat /\ BsIdle \in Nat /\ BsOn + BsIdle <= NumCells
ASSUME ControllerAssumption ==
  Controllers \subseteq {"sinr heuristic", "random heuristic", "file"}
ASSUME EnergyBoundAssumption == MaxGoodUes \in Nat /\ MaxTime \in Nat

VARIABLES
  controller,          \* fixed by the scenario
  now,
  rrc,                 \* the coordinator's record: allow is m_allowHandoverTo;
                       \* dropped, cells whose last command found no entry;
                       \* unevicted, cells barred since the last eviction
  nUeGoodSinr,         \* m_nUeGoodSinr
  cellState,           \* m_CellState: TRUE for ON and Idle
  totalActiveTime,     \* m_totalActiveTime
  lastStateChangeTime, \* m_lastStateChangeTime
  ticksActive          \* history: the ticks the cell was active in

deviceVars == <<cellState, totalActiveTime, lastStateChangeTime>>
energyVars == <<controller, now, rrc, nUeGoodSinr, deviceVars, ticksActive>>

Statuses == {"untracked", "allowed", "barred"}
Rrc == [allow : [Cell -> Statuses], dropped : SUBSET Cell,
        unevicted : SUBSET Cell]

EnergyTypeOK ==
  /\ controller \in Controllers
  /\ now \in 0..MaxTime
  /\ rrc \in Rrc
  /\ nUeGoodSinr \in [Cell -> 0..MaxGoodUes]
  /\ cellState \in [Cell -> BOOLEAN]
  /\ totalActiveTime \in [Cell -> 0..MaxTime]
  /\ lastStateChangeTime \in [Cell -> 0..MaxTime]
  /\ ticksActive \in [Cell -> 0..MaxTime]

EnergyInit ==
  /\ controller \in Controllers
  /\ now = 0
  /\ rrc = [allow |-> [c \in Cell |-> "untracked"],
            dropped |-> {}, unevicted |-> {}]
  /\ nUeGoodSinr = [c \in Cell |-> 0]
  /\ cellState = [c \in Cell |-> TRUE]
  /\ totalActiveTime = [c \in Cell |-> 0]
  /\ lastStateChangeTime = [c \in Cell |-> 0]
  /\ ticksActive = [c \in Cell |-> 0]

-----------------------------------------------------------------------------
(* The coordinator's record.                                               *)

\* SetSecondaryCellHandoverAllowedStatus for each cell of S: a cell that has
\* not reported yet has no entry, and its command is dropped.
SetAllowed(r, S, hoAllowed) ==
  LET known == {c \in S : r.allow[c] # "untracked"} IN
  [allow |-> [c \in Cell |-> IF c \notin known THEN r.allow[c]
                             ELSE IF hoAllowed[c] THEN "allowed" ELSE "barred"],
   dropped |-> (r.dropped \ known) \cup (S \ known),
   unevicted |-> {c \in Cell :
                    IF c \notin known THEN c \in r.unevicted
                    ELSE /\ ~hoAllowed[c]
                         /\ c \in r.unevicted \/ r.allow[c] = "allowed"}]

EvictUsersFromSecondaryCell(r) == [r EXCEPT !.unevicted = {}]

\* The first SINR report of a cell makes its entry, as one that is allowed.
FirstReport(c) ==
  /\ rrc.allow[c] = "untracked"
  /\ rrc' = [rrc EXCEPT !.allow[c] = "allowed"]
  /\ UNCHANGED <<controller, now, nUeGoodSinr, deviceVars, ticksActive>>

-----------------------------------------------------------------------------
(* The devices.                                                            *)

\* Mutant: the time since the last change counts whatever the state was.
SetCellStateAlwaysCounting(S, active) ==
  /\ totalActiveTime' = [c \in Cell |->
       totalActiveTime[c] + IF c \in S THEN now - lastStateChangeTime[c] ELSE 0]
  /\ lastStateChangeTime' =
       [c \in Cell |-> IF c \in S THEN now ELSE lastStateChangeTime[c]]
  /\ cellState' = [c \in Cell |-> IF c \in S THEN active[c] ELSE cellState[c]]

\* SetCellState of each device of S, to the value active gives it.
SetCellState(S, active) ==
  /\ totalActiveTime' = [c \in Cell |->
       totalActiveTime[c] +
         IF c \in S /\ cellState[c] THEN now - lastStateChangeTime[c] ELSE 0]
  /\ lastStateChangeTime' =
       [c \in Cell |-> IF c \in S THEN now ELSE lastStateChangeTime[c]]
  /\ cellState' = [c \in Cell |-> IF c \in S THEN active[c] ELSE cellState[c]]

GetAccumulatedActiveTime(c) ==
  totalActiveTime[c] + IF cellState[c] THEN now - lastStateChangeTime[c] ELSE 0

-----------------------------------------------------------------------------
(* The heuristics.                                                         *)

\* Mutant: the first slot is replaced, not the lowest.
OfferToFirst(slots, c, good) ==
  IF slots[1].ues < good
  THEN [slots EXCEPT ![1] = [ues |-> good, cell |-> c]] ELSE slots

\* A cell takes the slot with the fewest UEs, the first of these, if it has
\* more; slots are bsHighestValues and bsToTurnOn.
Offer(slots, c, good) ==
  LET lowest == CHOOSE i \in DOMAIN slots :
        \A j \in DOMAIN slots : \/ slots[i].ues < slots[j].ues
                                \/ slots[i].ues = slots[j].ues /\ i <= j
  IN  IF slots[lowest].ues < good
      THEN [slots EXCEPT ![lowest] = [ues |-> good, cell |-> c]] ELSE slots

\* The cells that stay on for their UEs.
BsToTurnOn(good) ==
  LET offered[c \in 0..NumCells] ==
        IF c = 0 THEN [i \in 1..BsOn |-> [ues |-> -1, cell |-> 0]]
        ELSE IF BsOn = 0 THEN <<>>
        ELSE Offer(offered[c - 1], c, good[c])
  IN  {offered[NumCells][i].cell : i \in 1..BsOn}

\* Mutant: the cells are barred after the last eviction.
TurnOffLate(r, S) ==
  SetAllowed(EvictUsersFromSecondaryCell(r), S, [c \in S |-> FALSE])

\* TurnSleep and TurnOff of each cell of S: an eviction follows each bar.
TurnOff(r, S) ==
  LET barred == SetAllowed(r, S, [c \in S |-> FALSE])
  IN  IF S = {} THEN barred ELSE EvictUsersFromSecondaryCell(barred)

\* Mutant: the device wakes up without the coordinator.
TurnOnAlone(r, S) == r

\* TurnOn and TurnIdle of each cell of S.
TurnOn(r, S) == SetAllowed(r, S, [c \in S |-> TRUE])

\* The cells with the most good UEs stay on, of the others those that UEs
\* will reach first are idle, the rest sleep or are switched off.
TurnOnBsSinrPos ==
  /\ controller = "sinr heuristic"
  /\ \E good \in [Cell -> 0..MaxGoodUes] :
     \E idle \in SUBSET (Cell \ BsToTurnOn(good)) :
       LET up == BsToTurnOn(good) \cup idle IN
       /\ Cardinality(idle) = BsIdle
       /\ nUeGoodSinr' = good
       /\ rrc' = TurnOff(TurnOn(rrc, up), Cell \ up)
       /\ SetCellState(Cell, [c \in Cell |-> c \in up])
  /\ UNCHANGED <<controller, now, ticksActive>>

\* A random state for one cell; nobody is evicted.
ProbabilityState(c, active) ==
  /\ controller = "random heuristic"
  /\ rrc' = SetAllowed(rrc, {c}, [d \in {c} |-> active])
  /\ SetCellState({c}, [d \in {c} |-> active])
  /\ UNCHANGED <<controller, now, nUeGoodSinr, ticksActive>>

Heuristic ==
  \/ TurnOnBsSinrPos
  \/ \E c \in Cell, active \in BOOLEAN : ProbabilityState(c, active)

Tick ==
  /\ now < MaxTime
  /\ now' = now + 1
  /\ ticksActive' = [c \in Cell |-> ticksActive[c] + IF cellState[c] THEN 1 ELSE 0]
  /\ UNCHANGED <<controller, rrc, nUeGoodSinr, deviceVars>>

EnergyNext == Heuristic \/ Tick \/ \E c \in Cell : FirstReport(c)

EnergySpec == EnergyInit /\ [][EnergyNext]_energyVars

-----------------------------------------------------------------------------
(* Properties.                                                             *)

\* The active time a device reports is the time it was in an active state,
\* however often its state is set again meanwhile (GetAccumulatedActiveTime).
ActiveTimeExact == \A c \in Cell : GetAccumulatedActiveTime(c) = ticksActive[c]

\* Under a heuristic the two records agree: a device sleeps if and only if
\* its cell is barred, unless the command came before the cell's first report.
DeviceFollowsBar ==
  controller # "file" =>
    \A c \in Cell \ rrc.dropped : cellState[c] <=> rrc.allow[c] # "barred"

\* The cells left on for their UEs are bsOn different ones, and no other cell
\* has more UEs with a good SINR than one of them (TurnOnBsSinrPos).
KeepsBestCells ==
  LET on == BsToTurnOn(nUeGoodSinr) IN
  /\ on \subseteq Cell /\ Cardinality(on) = BsOn
  /\ \A c \in on, d \in Cell \ on : nUeGoodSinr[c] >= nUeGoodSinr[d]
=============================================================================
