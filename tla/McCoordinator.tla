--------------------------- MODULE McCoordinator ---------------------------
(***************************************************************************)
(* The LTE eNB of a dual-connectivity deployment is the coordinator of the *)
(* mmWave cells: its LteEnbRrc decides, for every UE, which mmWave cell    *)
(* serves it, whether traffic falls back to LTE, and which cells are       *)
(* barred from handovers because they sleep.  Three independent sources    *)
(* drive it: SINR reports of the mmWave cells, energy-saving control       *)
(* (barring and eviction) and traffic steering by the RIC or a control     *)
(* file.  Source: src/src/lte/model/lte-enb-rrc.cc.                        *)
(*                                                                         *)
(* What is abstracted: SINR is a dB value of a small set; a duration (time *)
(* to trigger, eviction slot) is "now", at the present instant, or "later";*)
(* the X2 handover between the two mmWave cells is a record that advances  *)
(* by stages (SecondaryHandover models its messages).  NS_ASSERT is taken  *)
(* as the optimized build has it, a no-op; a step that dereferences a      *)
(* missing socket or UE ends the simulation (alive).                       *)
(***************************************************************************)
EXTENDS Integers, FiniteSets

CONSTANTS
  UE,                      \* the IMSIs
  Cell,                    \* the mmWave cell ids
  Sinr,                    \* the reported values, in dB
  OutageThreshold,         \* m_outageThreshold
  SinrThresholdDifference, \* m_sinrThresholdDifference
  HandoverModes,           \* the m_handoverMode values to consider
  FirstSlot,               \* evictions scheduled without delay
  MaxChanges               \* bound on reports and control commands

NoCell  == 0               \* the default-constructed cell id
NotSet  == -1              \* no entry in m_bestMmWaveCellForImsiMap
NoSinr  == -1000           \* linear SINR 0, below every report
NoEvent == [source |-> NoCell, target |-> NotSet, when |-> "never"]

TttModes == {"FIXED_TTT", "DYNAMIC_TTT"}
Modes    == TttModes \cup {"THRESHOLD", "NO_AUTOMATIC_HANDOVER"}

ASSUME CellAssumption == Cell \subseteq Nat \ {0}
ASSUME SinrAssumption ==
  /\ Sinr \subseteq Int /\ \A s \in Sinr : s > NoSinr + 100
  /\ OutageThreshold \in Int
  /\ SinrThresholdDifference \in Nat
ASSUME ModeAssumption == HandoverModes \subseteq Modes
ASSUME BoundAssumption == MaxChanges \in Nat /\ FirstSlot \in Nat

VARIABLES
  handoverMode,     \* m_handoverMode, fixed by configuration
  sinr,             \* m_imsiCellSinrMap
  allowHandoverTo,  \* m_allowHandoverTo: no entry, true or false
  setupCompleted,   \* m_mmWaveCellSetupCompleted: no entry, false or true
  usingLte,         \* m_imsiUsingLte
  lastCell,         \* m_lastMmWaveCell
  bestCell,         \* m_bestMmWaveCellForImsiMap
  handoverEvent,    \* m_imsiHandoverEventsMap
  e2Controlled,     \* m_e2ControlledUes
  access,           \* progress of the LTE UeManager to its first mmWave cell
  connectTo,        \* cell of an RrcConnectToMmWave on its way to the UE
  mmWaveCell,       \* UeManager::m_mmWaveCellId
  pdcpOnMmWave,     \* McEnbPdcp::m_useMmWaveConnection
  x2,               \* secondary handover procedures the X2 knows of
  steering,         \* PerformHandoverToTargetCell events scheduled in 0 s
  alive,            \* FALSE once the simulation has aborted
  changes           \* reports and commands so far (bounded by MaxChanges)

radioVars == <<sinr, allowHandoverTo>>
ueVars    == <<setupCompleted, usingLte, lastCell, bestCell, handoverEvent,
               e2Controlled, access, connectTo, mmWaveCell, pdcpOnMmWave>>
vars == <<handoverMode, radioVars, ueVars, x2, steering, alive, changes>>

CellOrNone == Cell \cup {NoCell}

Procedure == [imsi : UE, from : CellOrNone, to : CellOrNone,
              stage : {"requested", "running", "lost"}]

TypeOK ==
  /\ handoverMode \in Modes
  /\ sinr \in [UE -> [Cell -> Sinr \cup {NoSinr}]]
  /\ allowHandoverTo \in [Cell -> {"untracked", "allowed", "barred"}]
  /\ setupCompleted \in [UE -> {"absent", "pending", "completed"}]
  /\ usingLte \in [UE -> BOOLEAN]
  /\ lastCell \in [UE -> CellOrNone]
  /\ bestCell \in [UE -> CellOrNone \cup {NotSet}]
  /\ handoverEvent \in
       [UE -> {NoEvent} \cup [source : CellOrNone, target : CellOrNone,
                             when : {"now", "later"}]]
  /\ e2Controlled \in SUBSET UE
  /\ access \in [UE -> {"idle", "connecting", "unassigned", "inOutage",
                        "ordered", "preparing", "connected"}]
  /\ connectTo \in [UE -> CellOrNone]
  /\ mmWaveCell \in [UE -> CellOrNone]
  /\ pdcpOnMmWave \in [UE -> BOOLEAN]
  /\ x2 \in SUBSET Procedure
  /\ steering \in SUBSET [imsi : UE, target : Cell]
  /\ alive \in BOOLEAN
  /\ changes \in Nat

Init ==
  /\ handoverMode \in HandoverModes
  /\ sinr = [u \in UE |-> [c \in Cell |-> NoSinr]]
  /\ allowHandoverTo = [c \in Cell |-> "untracked"]
  /\ setupCompleted = [u \in UE |-> "absent"]
  /\ usingLte = [u \in UE |-> FALSE]
  /\ lastCell = [u \in UE |-> NoCell]
  /\ bestCell = [u \in UE |-> NotSet]
  /\ handoverEvent = [u \in UE |-> NoEvent]
  /\ e2Controlled = {}
  /\ access = [u \in UE |-> "idle"]
  /\ connectTo = [u \in UE |-> NoCell]
  /\ mmWaveCell = [u \in UE |-> NoCell]
  /\ pdcpOnMmWave = [u \in UE |-> FALSE]
  /\ x2 = {}
  /\ steering = {}
  /\ alive = TRUE
  /\ changes = 0

-----------------------------------------------------------------------------
(* Reports and control inputs.                                             *)

\* Events of the present instant come before anything that takes time: a
\* message over the air or the X2, a timer.
TimePasses ==
  steering = {} /\ \A u \in UE : handoverEvent[u].when # "now"

CountChange == changes < MaxChanges /\ changes' = changes + 1

\* A mmWave cell reports the SINR of some of the UEs (of none, while its
\* component carriers have not all reported); the cell becomes tracked.  Only
\* new values count as a change.
DoRecvUeSinrUpdate(c) ==
  /\ alive
  /\ \E reported \in SUBSET UE : \E value \in [reported -> Sinr] :
       sinr' = [u \in UE |-> IF u \in reported
                             THEN [sinr[u] EXCEPT ![c] = value[u]]
                             ELSE sinr[u]]
  /\ IF sinr' = sinr THEN UNCHANGED changes ELSE CountChange
  /\ allowHandoverTo' = IF allowHandoverTo[c] = "untracked"
                        THEN [allowHandoverTo EXCEPT ![c] = "allowed"]
                        ELSE allowHandoverTo
  /\ UNCHANGED <<handoverMode, ueVars, x2, steering, alive>>

\* An energy-saving command of the RIC, the control file or the mmWave
\* device; a cell that never reported is not in the list of known cells.
SetSecondaryCellHandoverAllowedStatus(c, hoAllowed) ==
  /\ alive
  /\ CountChange
  /\ allowHandoverTo[c] # "untracked"
  /\ allowHandoverTo' =
       [allowHandoverTo EXCEPT ![c] = IF hoAllowed THEN "allowed"
                                                   ELSE "barred"]
  /\ UNCHANGED <<handoverMode, sinr, ueVars, x2, steering, alive>>

-----------------------------------------------------------------------------
(* Choosing a cell.                                                        *)

SinrOf(u, c) == IF c \in Cell THEN sinr[u][c] ELSE NoSinr

Reported(u) == \E c \in Cell : sinr[u][c] # NoSinr

\* Mutant: the bar is not looked at.
CandidatesBarredToo(u) == {c \in Cell : sinr[u][c] # NoSinr}

\* The cells whose bar is not set and whose SINR is above the initial 0.
Candidates(u) ==
  {c \in Cell : allowHandoverTo[c] = "allowed" /\ sinr[u][c] # NoSinr}

\* maxSinrCellId: the map is walked in id order and only a strictly larger
\* value replaces the maximum; 0 is left when there is no candidate.
IsMaxSinrCell(u, c) ==
  IF Candidates(u) = {}
  THEN c = NoCell
  ELSE /\ c \in Candidates(u)
       /\ \A d \in Candidates(u) : \/ sinr[u][c] > sinr[u][d]
                                   \/ sinr[u][c] = sinr[u][d] /\ c <= d

\* Mutant: the same threshold to leave LTE as to fall back to it.
InOutageNoMargin(u, best) == SinrOf(u, best) < OutageThreshold

\* No cell can serve the UE; two more dB are asked for to leave LTE.
InOutage(u, best) ==
  \/ SinrOf(u, best) < OutageThreshold
  \/ usingLte[u] /\ SinrOf(u, best) < OutageThreshold + 2

CurrentCellInOutage(u) == SinrOf(u, lastCell[u]) < OutageThreshold

SinrDifference(u, best) ==
  LET d == SinrOf(u, best) - SinrOf(u, lastCell[u])
  IN  IF d >= 0 THEN d ELSE -d

Automatic == handoverMode \in TttModes \cup {"THRESHOLD"}

\* The UEs the periodic update looks at: the RIC's are skipped.
Managed(u) == u \notin e2Controlled /\ Reported(u)

\* Outage and not yet on LTE: fast switch.
FallsBackToLte(u, best) ==
  /\ Managed(u)
  /\ setupCompleted[u] # "absent"
  /\ InOutage(u, best)
  /\ ~usingLte[u]

\* The handover algorithm of the configured mode runs for the UE.
Evaluated(u, best) ==
  Managed(u) /\ (setupCompleted[u] = "absent" \/ ~InOutage(u, best))

\* Mutant: the guard of THRESHOLD mode in every mode.
ConnectsFirstWhenSetUp(u, best) ==
  /\ Evaluated(u, best) /\ Automatic
  /\ setupCompleted[u] = "completed"
  /\ usingLte[u] /\ access[u] = "inOutage"

\* The UE found every cell in outage when it attached: first connection.
ConnectsFirst(u, best) ==
  /\ Evaluated(u, best) /\ Automatic
  /\ setupCompleted[u] # "absent"
  /\ usingLte[u] /\ access[u] = "inOutage"
  /\ handoverMode = "THRESHOLD" => setupCompleted[u] = "completed"

\* Mutant: a handover in progress does not stop the next one.
MovableInHandover(u, best) ==
  /\ Evaluated(u, best) /\ Automatic
  /\ setupCompleted[u] # "absent"
  /\ ~ConnectsFirst(u, best)

\* Attached and in no handover: the UE may be switched or handed over.
Movable(u, best) ==
  /\ Evaluated(u, best) /\ Automatic
  /\ setupCompleted[u] = "completed"
  /\ ~ConnectsFirst(u, best)

\* The last cell is usable again: switch back to it.
ReturnsToMmWave(u, best) ==
  Movable(u, best) /\ usingLte[u] /\ lastCell[u] = best

\* Mutant: no handover from LTE.
HandsOverNowByMargin(u, best) ==
  /\ Movable(u, best)
  /\ lastCell[u] # best
  /\ handoverMode = "THRESHOLD"
  /\ SinrDifference(u, best) > SinrThresholdDifference

\* A handover is ordered at once: from LTE, or in THRESHOLD mode by margin.
HandsOverNow(u, best) ==
  /\ Movable(u, best)
  /\ lastCell[u] # best
  /\ \/ usingLte[u]
     \/ /\ handoverMode = "THRESHOLD"
        /\ SinrDifference(u, best) > SinrThresholdDifference

\* The UE is on mmWave and the time-to-trigger algorithm runs.
Triggering(u, best) ==
  Movable(u, best) /\ ~usingLte[u] /\ handoverMode \in TttModes

\* Mutant: an event is scheduled only when the best cell changes.
SchedulesOnChange(u, best, shorter) ==
  /\ Triggering(u, best)
  /\ handoverEvent[u] = NoEvent
  /\ best # lastCell[u]
  /\ best # bestCell[u]

\* handoverNeeded: a time-to-trigger event is (re)scheduled.  shorter says
\* that the new time to trigger ends before the one already running.
Schedules(u, best, shorter) ==
  /\ Triggering(u, best)
  /\ IF handoverEvent[u] = NoEvent
     THEN best # lastCell[u]
     ELSE \/ /\ handoverEvent[u].target = best
             /\ CurrentCellInOutage(u) \/ shorter
          \/ /\ handoverEvent[u].target # best
             /\ best # lastCell[u]
             /\ SinrOf(u, best) - SinrOf(u, handoverEvent[u].target)
                  > SinrThresholdDifference

\* The current cell is the best again: the event is cancelled.
Cancels(u, best) ==
  /\ Triggering(u, best)
  /\ handoverEvent[u] # NoEvent
  /\ handoverEvent[u].target # best
  /\ best = lastCell[u]

Event(u, best, now) ==
  [source |-> lastCell[u], target |-> best,
   when |-> IF now THEN "now" ELSE "later"]

\* Mutant: the old cell is taken from the map of best cells.
RequestFromBestCell(u, target) ==
  [imsi |-> u, from |-> bestCell[u], to |-> target, stage |-> "requested"]

\* The McHandoverRequest sent to the serving cell.
Request(u, target) ==
  [imsi |-> u, from |-> lastCell[u], to |-> target, stage |-> "requested"]

EventAfterUpdate(u, best, shorter) ==
  CASE Schedules(u, best, shorter) -> Event(u, best, CurrentCellInOutage(u))
    [] FallsBackToLte(u, best) \/ Cancels(u, best) -> NoEvent
    [] OTHER -> handoverEvent[u]

-----------------------------------------------------------------------------
(* The coordinator's own steps.                                            *)

\* The periodic pass over all UEs (every m_crtPeriod from the first report).
TriggerUeAssociationUpdate ==
  /\ alive
  /\ \E c \in Cell : allowHandoverTo[c] # "untracked"
  /\ \E best \in [UE -> CellOrNone], shorter \in [UE -> BOOLEAN] :
       /\ \A u \in UE : IsMaxSinrCell(u, best[u])
       /\ usingLte' = [u \in UE |->
            /\ usingLte[u] \/ FallsBackToLte(u, best[u])
            /\ ~ReturnsToMmWave(u, best[u])]
       /\ pdcpOnMmWave' = [u \in UE |->
            /\ pdcpOnMmWave[u] \/ ReturnsToMmWave(u, best[u])
            /\ ~FallsBackToLte(u, best[u])]
       /\ bestCell' = [u \in UE |-> IF Evaluated(u, best[u])
                                    THEN best[u] ELSE bestCell[u]]
       /\ access' = [u \in UE |-> IF ConnectsFirst(u, best[u])
                                  THEN "ordered" ELSE access[u]]
       /\ connectTo' = [u \in UE |-> IF ConnectsFirst(u, best[u])
                                     THEN best[u] ELSE connectTo[u]]
       /\ handoverEvent' =
            [u \in UE |-> EventAfterUpdate(u, best[u], shorter[u])]
       /\ setupCompleted' = [u \in UE |-> IF HandsOverNow(u, best[u])
                                          THEN "pending"
                                          ELSE setupCompleted[u]]
       /\ x2' = x2 \cup {Request(u, best[u]) :
                           u \in {v \in UE : HandsOverNow(v, best[v])}}
  /\ UNCHANGED <<handoverMode, radioVars, lastCell, e2Controlled, mmWaveCell,
                 steering, alive, changes>>

\* Mutant: a handover in progress is not looked at.
OrderHandoverAnyway(u, target) ==
  /\ x2' = x2 \cup {Request(u, target)}
  /\ setupCompleted' = [setupCompleted EXCEPT ![u] = "pending"]

\* A handover leaves only when none is in progress (setupCompleted true).
OrderHandover(u, target) ==
  IF setupCompleted[u] = "completed"
  THEN /\ x2' = x2 \cup {Request(u, target)}
       /\ setupCompleted' = [setupCompleted EXCEPT ![u] = "pending"]
  ELSE UNCHANGED <<x2, setupCompleted>>

\* A scheduled event fires: time to trigger over, or eviction slot reached.
PerformHandover(u) ==
  /\ alive
  /\ handoverEvent[u] # NoEvent
  /\ handoverEvent[u].when = "now" \/ TimePasses
  /\ IF lastCell[u] # handoverEvent[u].target
     THEN OrderHandover(u, handoverEvent[u].target)
     ELSE UNCHANGED <<x2, setupCompleted>>
  /\ handoverEvent' = [handoverEvent EXCEPT ![u] = NoEvent]
  /\ UNCHANGED <<handoverMode, radioVars, usingLte, lastCell, bestCell,
                 e2Controlled, access, connectTo, mmWaveCell, pdcpOnMmWave,
                 steering, alive, changes>>

\* Mutant: a UE without a serving cell counts as not allowed to stay.
MustLeaveUnlessAllowed(u) ==
  /\ Reported(u)
  /\ setupCompleted[u] # "absent"
  /\ lastCell[u] \in Cell => allowHandoverTo[lastCell[u]] = "barred"

\* The UE's last cell may no longer be camped on.
MustLeave(u) ==
  /\ Reported(u)
  /\ setupCompleted[u] # "absent"
  /\ lastCell[u] \in Cell
  /\ allowHandoverTo[lastCell[u]] = "barred"

\* Every UE of a barred cell gets a handover event, in place of any other;
\* the first ones at once, the others (late) in slots of 25 ms.
EvictUsersFromSecondaryCell ==
  /\ alive /\ CountChange
  /\ LET evicted == {u \in UE : MustLeave(u)} IN
     /\ evicted # {}
     /\ \E best \in [UE -> CellOrNone], late \in SUBSET evicted :
          /\ Cardinality(evicted \ late) >= FirstSlot \/ late = {}
          /\ \A u \in UE : IsMaxSinrCell(u, best[u])
          /\ handoverEvent' =
               [u \in UE |-> IF u \in evicted
                             THEN Event(u, best[u], u \notin late)
                             ELSE handoverEvent[u]]
          /\ bestCell' =
               [u \in UE |-> IF u \in evicted THEN best[u] ELSE bestCell[u]]
  /\ UNCHANGED <<handoverMode, radioVars, setupCompleted, usingLte, lastCell,
                 e2Controlled, access, connectTo, mmWaveCell, pdcpOnMmWave,
                 x2, steering, alive>>

-----------------------------------------------------------------------------
(* Traffic steering from outside.                                          *)

TakeUeHoControl(u) == e2Controlled' = e2Controlled \cup {u}

\* A RIC control message takes the UE over and schedules its handover.
ControlMessageReceivedCallback(u, target) ==
  /\ alive
  /\ CountChange
  /\ TakeUeHoControl(u)
  /\ steering' = steering \cup {[imsi |-> u, target |-> target]}
  /\ UNCHANGED <<handoverMode, radioVars, setupCompleted, usingLte, lastCell,
                 bestCell, handoverEvent, access, connectTo, mmWaveCell,
                 pdcpOnMmWave, x2, alive>>

\* A line of the control file: the same, unless the UE already is there.
ReadTsAction(u, target) ==
  /\ access[u] # "idle"
  /\ mmWaveCell[u] # target
  /\ ControlMessageReceivedCallback(u, target)

\* A line for an IMSI that never attached: it has RNTI 0, which no check stops
\* before the UE manager of RNTI 0 is asked for its cell.
ReadTsActionUnknownImsi(u) ==
  /\ alive
  /\ access[u] = "idle"
  /\ CountChange
  /\ alive' = FALSE
  /\ UNCHANGED <<handoverMode, radioVars, ueVars, x2, steering>>

\* The scheduled call: neither the current cell nor the bar is looked at.
PerformHandoverToTargetCell(command) ==
  /\ alive
  /\ OrderHandover(command.imsi, command.target)
  /\ steering' = steering \ {command}
  /\ UNCHANGED <<handoverMode, radioVars, usingLte, lastCell, bestCell,
                 handoverEvent, e2Controlled, access, connectTo, mmWaveCell,
                 pdcpOnMmWave, alive, changes>>

-----------------------------------------------------------------------------
(* The LTE UeManager brings the UE to its first mmWave cell.               *)

RecvRrcConnectionRequest(u) ==
  /\ alive /\ TimePasses
  /\ access[u] = "idle"
  /\ access' = [access EXCEPT ![u] = "connecting"]
  /\ setupCompleted' = [setupCompleted EXCEPT ![u] = "pending"]
  /\ UNCHANGED <<handoverMode, radioVars, usingLte, lastCell, bestCell,
                 handoverEvent, e2Controlled, connectTo, mmWaveCell,
                 pdcpOnMmWave, x2, steering, alive, changes>>

\* Mutant: the best cell is taken without looking whether there is one.
SwitchToConnectedNormallyUnchecked(u) ==
  /\ alive /\ TimePasses
  /\ access[u] = "connecting"
  /\ access' = [access EXCEPT ![u] = "ordered"]
  /\ connectTo' = [connectTo EXCEPT ![u] = bestCell[u]]
  /\ UNCHANGED <<handoverMode, radioVars, setupCompleted, usingLte, lastCell,
                 bestCell, handoverEvent, e2Controlled, mmWaveCell,
                 pdcpOnMmWave, x2, steering, alive, changes>>

\* Entering CONNECTED_NORMALLY for the first time: the UE is sent to the best
\* cell, or found in outage, or (no best cell yet) left without an order.
\* With best cell 0 the SINR is read past the end of the map.
SwitchToConnectedNormally(u) ==
  /\ alive /\ TimePasses
  /\ access[u] = "connecting"
  /\ \/ /\ bestCell[u] = NotSet
        /\ access' = [access EXCEPT ![u] = "unassigned"]
        /\ UNCHANGED <<connectTo, usingLte>>
     \/ /\ \/ bestCell[u] = NoCell
           \/ bestCell[u] \in Cell /\ SinrOf(u, bestCell[u]) > OutageThreshold
        /\ access' = [access EXCEPT ![u] = "ordered"]
        /\ connectTo' = [connectTo EXCEPT ![u] = bestCell[u]]
        /\ UNCHANGED usingLte
     \/ /\ \/ bestCell[u] = NoCell
           \/ bestCell[u] \in Cell /\ SinrOf(u, bestCell[u]) <= OutageThreshold
        /\ access' = [access EXCEPT ![u] = "inOutage"]
        /\ usingLte' = [usingLte EXCEPT ![u] = TRUE]
        /\ UNCHANGED connectTo
  /\ UNCHANGED <<handoverMode, radioVars, setupCompleted, lastCell, bestCell,
                 handoverEvent, e2Controlled, mmWaveCell, pdcpOnMmWave, x2,
                 steering, alive, changes>>

\* The UE reached the mmWave cell; the bearers' RLCs are being set up there.
RecvRrcSecondaryCellInitialAccessSuccessful(u) ==
  /\ alive /\ TimePasses
  /\ access[u] = "ordered" /\ connectTo[u] \in Cell
  /\ access' = [access EXCEPT ![u] = "preparing"]
  /\ mmWaveCell' = [mmWaveCell EXCEPT ![u] = connectTo[u]]
  /\ connectTo' = [connectTo EXCEPT ![u] = NoCell]
  /\ UNCHANGED <<handoverMode, radioVars, setupCompleted, usingLte, lastCell,
                 bestCell, handoverEvent, e2Controlled, pdcpOnMmWave, x2,
                 steering, alive, changes>>

\* Mutants: the path is not switched; the best cell is recorded, not the one
\* reached.
ServeOnKeepsPath(u, c) ==
  /\ lastCell' = [lastCell EXCEPT ![u] = c]
  /\ setupCompleted' = [setupCompleted EXCEPT ![u] = "completed"]
  /\ usingLte' = [usingLte EXCEPT ![u] = FALSE]
  /\ UNCHANGED pdcpOnMmWave
ServeOnBestCell(u, c) ==
  /\ lastCell' = [lastCell EXCEPT ![u] = bestCell[u]]
  /\ setupCompleted' = [setupCompleted EXCEPT ![u] = "completed"]
  /\ usingLte' = [usingLte EXCEPT ![u] = FALSE]
  /\ pdcpOnMmWave' = [pdcpOnMmWave EXCEPT ![u] = TRUE]

\* What the end of a first access and of a handover do for each MC bearer.
ServeOn(u, c) ==
  /\ lastCell' = [lastCell EXCEPT ![u] = c]
  /\ setupCompleted' = [setupCompleted EXCEPT ![u] = "completed"]
  /\ usingLte' = [usingLte EXCEPT ![u] = FALSE]
  /\ pdcpOnMmWave' = [pdcpOnMmWave EXCEPT ![u] = TRUE]

\* MC_CONNECTION_RECONFIGURATION completes: the bearers switch to mmWave.
RecvRrcConnectionReconfigurationCompleted(u) ==
  /\ alive /\ TimePasses
  /\ access[u] = "preparing"
  /\ access' = [access EXCEPT ![u] = "connected"]
  /\ ServeOn(u, mmWaveCell[u])
  /\ UNCHANGED <<handoverMode, radioVars, bestCell, handoverEvent,
                 e2Controlled, connectTo, mmWaveCell, x2, steering, alive,
                 changes>>

-----------------------------------------------------------------------------
(* The secondary handover procedure, as the coordinator sees it.           *)

Advance(p, stage) == x2' = (x2 \ {p}) \cup {[p EXCEPT !.stage = stage]}

\* The old cell receives the request and prepares the handover.  It has no
\* X2 interface to cell 0 nor to itself.
DoRecvMcHandoverRequest(p) ==
  /\ alive /\ TimePasses
  /\ p.stage = "requested"
  /\ IF p.to \in Cell /\ p.to # p.from
     THEN Advance(p, "running") /\ UNCHANGED alive
     ELSE alive' = FALSE /\ UNCHANGED x2
  /\ UNCHANGED <<handoverMode, radioVars, ueVars, steering, changes>>

\* The target has no preamble left, or refuses: the coordinator is not told.
DoRecvHandoverRequestRefused(p) ==
  /\ alive /\ TimePasses
  /\ p.stage = "running"
  /\ Advance(p, "lost")
  /\ UNCHANGED <<handoverMode, radioVars, ueVars, steering, alive, changes>>

RecvSecondaryCellHandoverCompleted(p) ==
  /\ alive /\ TimePasses
  /\ p.stage = "running"
  /\ x2' = x2 \ {p}
  /\ mmWaveCell' = [mmWaveCell EXCEPT ![p.imsi] = p.to]
  /\ IF lastCell[p.imsi] # p.to
     THEN ServeOn(p.imsi, p.to)
     ELSE UNCHANGED <<lastCell, setupCompleted, usingLte, pdcpOnMmWave>>
  /\ UNCHANGED <<handoverMode, radioVars, bestCell, handoverEvent,
                 e2Controlled, access, connectTo, steering, alive, changes>>

-----------------------------------------------------------------------------

\* The simulation has aborted: nothing happens any more.
Aborted == ~alive /\ UNCHANGED vars

Next ==
  \/ \E c \in Cell : DoRecvUeSinrUpdate(c)
  \/ \E c \in Cell, hoAllowed \in BOOLEAN :
       SetSecondaryCellHandoverAllowedStatus(c, hoAllowed)
  \/ TriggerUeAssociationUpdate
  \/ \E u \in UE : PerformHandover(u)
  \/ EvictUsersFromSecondaryCell
  \/ \E u \in UE, target \in Cell : ControlMessageReceivedCallback(u, target)
  \/ \E u \in UE, target \in Cell : ReadTsAction(u, target)
  \/ \E u \in UE : ReadTsActionUnknownImsi(u)
  \/ \E command \in steering : PerformHandoverToTargetCell(command)
  \/ \E u \in UE : RecvRrcConnectionRequest(u)
  \/ \E u \in UE : SwitchToConnectedNormally(u)
  \/ \E u \in UE : RecvRrcSecondaryCellInitialAccessSuccessful(u)
  \/ \E u \in UE : RecvRrcConnectionReconfigurationCompleted(u)
  \/ \E p \in x2 : DoRecvMcHandoverRequest(p)
  \/ \E p \in x2 : DoRecvHandoverRequestRefused(p)
  \/ \E p \in x2 : RecvSecondaryCellHandoverCompleted(p)
  \/ Aborted

Spec == Init /\ [][Next]_vars
-----------------------------------------------------------------------------
(* Safety.                                                                 *)

Procedures(u) == {p \in x2 : p.imsi = u}

\* m_mmWaveCellSetupCompleted is the only lock between the periodic update,
\* eviction and traffic steering (TttBasedHandover, PerformHandover and
\* PerformHandoverToTargetCell each test it): a UE is never in two handovers,
\* and the entry is true exactly when a connected UE is in none.
HandoverExclusive ==
  \A u \in UE :
    /\ \A p, q \in Procedures(u) : p = q
    /\ setupCompleted[u] = "completed"
         <=> access[u] = "connected" /\ Procedures(u) = {}

\* The old cell named in every McHandoverRequest under way is the one the
\* coordinator still counts as serving (params.oldCellId = m_lastMmWaveCell):
\* nothing may move the UE between the request and its completion.
RequestFromServingCell == \A p \in x2 : p.from = lastCell[p.imsi]

\* The two places that remember the serving mmWave cell, m_lastMmWaveCell of
\* the RRC (the handover source) and m_mmWaveCellId of the UeManager (where
\* the PDCP sends and what the control file is compared with), agree.
CellsAgree ==
  \A u \in UE : /\ access[u] = "connected" => lastCell[u] \in Cell
                /\ lastCell[u] \in Cell => /\ access[u] = "connected"
                                           /\ mmWaveCell[u] = lastCell[u]

\* The decision (m_imsiUsingLte) and the data path (the PDCP's switch) agree
\* through outages, returns and handovers that complete after a fallback.
PathAgrees ==
  \A u \in UE : access[u] = "connected" => pdcpOnMmWave[u] = ~usingLte[u]

\* A handover event exists only for a UE with a serving cell: PerformHandover
\* reads m_lastMmWaveCell and asks the X2 for that cell's socket.
EventHasServingCell ==
  \A u \in UE : handoverEvent[u] # NoEvent => lastCell[u] \in Cell

\* An event the coordinator schedules, by time to trigger or eviction, leads
\* to a cell that may be camped on now, or to none at all (cell 0).
SchedulesToAllowedCell ==
  \A u \in UE :
    handoverEvent'[u] # handoverEvent[u] /\ handoverEvent'[u].target \in Cell
      => allowHandoverTo[handoverEvent'[u].target] = "allowed"
ScheduledToAllowedCell == [][SchedulesToAllowedCell]_vars

\* The two dB asked for to leave LTE: a UE returns to its last mmWave cell
\* only when that cell is allowed and clearly out of outage, otherwise by a
\* handover that has completed.
ReturnsToUsableCell ==
  \A u \in UE :
    usingLte[u] /\ ~usingLte'[u] /\ lastCell'[u] = lastCell[u]
      => /\ allowHandoverTo[lastCell[u]] = "allowed"
         /\ sinr[u][lastCell[u]] >= OutageThreshold + 2
ReturnHysteresis == [][ReturnsToUsableCell]_vars

\* PerformHandover's assertion: "The secondary cell to which the UE is
\* attached has changed" never holds when the event fires.
EventSourceServing ==
  \A u \in UE : handoverEvent[u] # NoEvent
                  => handoverEvent[u].source = lastCell[u]

-----------------------------------------------------------------------------
(* The inductive invariant: the safety invariants and what they rest on.   *)

\* Only a connected UE is handed over.
ProcedureOfConnected == \A p \in x2 : access[p.imsi] = "connected"

\* The serving cell found the X2 socket of the target: another mmWave cell.
AcceptedTarget ==
  \A p \in x2 : p.stage # "requested" => p.to \in Cell \ {p.from}

\* The bearers are prepared in a cell the UE has reached.
PreparedCell ==
  \A u \in UE : access[u] = "preparing" => mmWaveCell[u] \in Cell

\* Strong enough to be preserved by every step of the coordinator (the lock of
\* m_mmWaveCellSetupCompleted, m_lastMmWaveCell and the X2 taken together).
IndInv ==
  /\ TypeOK
  /\ HandoverExclusive
  /\ RequestFromServingCell
  /\ CellsAgree
  /\ PathAgrees
  /\ EventHasServingCell
  /\ ProcedureOfConnected
  /\ AcceptedTarget
  /\ PreparedCell

-----------------------------------------------------------------------------
(* Refinement.                                                             *)

\* The target of the handover a UE is in, as the coordinator ordered it.
Goal ==
  [u \in UE |-> IF Procedures(u) = {}
                THEN NotSet
                ELSE (CHOOSE p \in Procedures(u) : TRUE).to]

DC == INSTANCE DualConnectivity WITH serving <- lastCell, goal <- Goal

\* Whatever the reports, the RIC, the control file and the energy saving do,
\* m_lastMmWaveCell moves only to the cell of the one handover ordered from
\* the cell it names: the coordinator implements DualConnectivity.
ImplementsDualConnectivity == DC!Spec

-----------------------------------------------------------------------------
(* Liveness.                                                               *)

\* The update reschedules itself every CrtPeriod; a scheduled event fires; the
\* X2 link loses nothing.  Whether a UE ever succeeds in its random access is
\* up to the radio, but a handover that was accepted completes.
Fairness ==
  /\ WF_vars(TriggerUeAssociationUpdate)
  /\ \A u \in UE : WF_vars(PerformHandover(u))
  /\ WF_vars(\E command \in steering : PerformHandoverToTargetCell(command))
  /\ WF_vars(\E p \in x2 : DoRecvMcHandoverRequest(p))
  /\ WF_vars(\E p \in x2 : RecvSecondaryCellHandoverCompleted(p))

FairSpec == Spec /\ Fairness

Lost(u) == \E p \in Procedures(u) : p.stage = "lost"

\* A cell to which the UE may be moved, even from LTE.
Usable(u, c) ==
  allowHandoverTo[c] = "allowed" /\ sinr[u][c] >= OutageThreshold + 2

Served(u) ==
  alive /\ u \notin e2Controlled /\ ~Lost(u) /\ \E c \in Cell : Usable(u, c)

\* Barring a cell is meant to empty it: a UE the coordinator manages, with
\* another cell to go to, does not stay on a barred one for ever.
LeavesBarredCell ==
  \A u \in UE :
    []<>~(Served(u) /\ lastCell[u] \in Cell
                    /\ allowHandoverTo[lastCell[u]] = "barred")

\* A fallback to LTE ends: with a usable cell, the UE is back on mmWave.
ReturnsFromLte ==
  \A u \in UE : []<>~(Served(u) /\ lastCell[u] \in Cell /\ usingLte[u])

\* A UE that found every cell in outage is sent to a mmWave cell "for the
\* first time one mmWave eNB is not in outage".
FirstConnectionOrdered ==
  \A u \in UE : []<>~(Served(u) /\ access[u] = "inOutage")
=============================================================================
