------------------------- MODULE ControlFileProofs -------------------------
(***************************************************************************)
(* Theorems about ControlFile, for any cells, controllers, lines and       *)
(* bounds: the active time of the devices is exact, under a heuristic      *)
(* devices and coordinator agree, and with semaphores that start at zero   *)
(* the agent sees fresh states and its batches arrive once and in order.   *)
(***************************************************************************)
EXTENDS ControlFile, TLAPS, SequenceTheorems

USE DEF Cell

-----------------------------------------------------------------------------
(* The devices.                                                            *)

\* What the arithmetic of the active time needs: no change lies in the future.
Clocks ==
  /\ now \in Nat /\ now <= MaxTime
  /\ cellState \in [Cell -> BOOLEAN]
  /\ totalActiveTime \in [Cell -> Nat]
  /\ lastStateChangeTime \in [Cell -> Nat]
  /\ ticksActive \in [Cell -> Nat]
  /\ \A c \in Cell : lastStateChangeTime[c] <= now

DeviceInv == Clocks /\ ActiveTimeExact

\* Setting states leaves the active time of every device as it is: what has
\* run since the last change is added, and counting starts anew.
LEMMA SetCellStateKeepsTime ==
  ASSUME DeviceInv, NEW S, NEW active, \A c \in S \cap Cell : active[c] \in BOOLEAN,
         SetCellState(S, active), UNCHANGED <<now, ticksActive>>
  PROVE  DeviceInv'
<1>1. Clocks'
  BY DEF DeviceInv, Clocks, SetCellState
<1>2. ASSUME NEW c \in Cell
      PROVE  (totalActiveTime[c] + IF cellState[c] THEN now - lastStateChangeTime[c]
                                                  ELSE 0)' = ticksActive'[c]
  BY <1>2 DEF DeviceInv, Clocks, ActiveTimeExact, GetAccumulatedActiveTime, SetCellState
<1>. QED BY <1>1, <1>2 DEF DeviceInv, ActiveTimeExact, GetAccumulatedActiveTime

LEMMA TickKeepsTime ==
  ASSUME DeviceInv, Tick, MaxTime \in Nat
  PROVE  DeviceInv'
<1>1. Clocks'
  BY DEF DeviceInv, Clocks, Tick, deviceVars
<1>2. ASSUME NEW c \in Cell
      PROVE  (totalActiveTime[c] + IF cellState[c] THEN now - lastStateChangeTime[c]
                                                  ELSE 0)' = ticksActive'[c]
  BY <1>2 DEF DeviceInv, Clocks, ActiveTimeExact, GetAccumulatedActiveTime, Tick,
              deviceVars
<1>. QED BY <1>1, <1>2 DEF DeviceInv, ActiveTimeExact, GetAccumulatedActiveTime

LEMMA HeuristicKeepsTime ==
  ASSUME DeviceInv, Heuristic
  PROVE  DeviceInv'
<1>1. CASE TurnOnBsSinrPos
  <2>1. PICK up : /\ SetCellState(Cell, [c \in Cell |-> c \in up])
                  /\ UNCHANGED <<now, ticksActive>>
    BY <1>1 DEF TurnOnBsSinrPos
  <2>. DEFINE active == [c \in Cell |-> c \in up]
  <2>2. \A c \in Cell \cap Cell : active[c] \in BOOLEAN
    OBVIOUS
  <2>. HIDE DEF active
  <2>. QED BY <2>1, <2>2, SetCellStateKeepsTime DEF active
<1>2. CASE \E c \in Cell, active \in BOOLEAN : ProbabilityState(c, active)
  <2>1. PICK c \in Cell, active \in BOOLEAN :
          /\ SetCellState({c}, [d \in {c} |-> active])
          /\ UNCHANGED <<now, ticksActive>>
    BY <1>2 DEF ProbabilityState
  <2>. QED BY <2>1, SetCellStateKeepsTime
<1>. QED BY <1>1, <1>2 DEF Heuristic

\* Only time and the heuristics touch the devices.
LEMMA OthersKeepDevices ==
  ASSUME AgentObserve \/ AgentWrite \/ AgentPost \/ PostMetrics \/ WaitForControl
           \/ ReadFile \/ FlushFile \/ RunEvent \/ (\E c \in Cell : FirstReport(c))
  PROVE  UNCHANGED <<controller, now, deviceVars, ticksActive>>
BY DEF AgentObserve, AgentWrite, AgentPost, PostMetrics, WaitForControl, ReadFile,
       FlushFile, RunEvent, FirstReport, energyVars, deviceVars

LEMMA DeviceInvHolds == Spec => []DeviceInv
<1>1. Init => DeviceInv
  BY EnergyBoundAssumption
  DEF Init, EnergyInit, DeviceInv, Clocks, ActiveTimeExact, GetAccumulatedActiveTime
<1>2. DeviceInv /\ [Next]_vars => DeviceInv'
  <2>. SUFFICES ASSUME DeviceInv, [Next]_vars PROVE DeviceInv'
    OBVIOUS
  <2>1. CASE PassTime
    BY <2>1, TickKeepsTime, EnergyBoundAssumption DEF PassTime
  <2>2. CASE Heuristic
    BY <2>2, HeuristicKeepsTime
  <2>3. CASE UNCHANGED <<controller, now, deviceVars, ticksActive>>
    BY <2>3 DEF DeviceInv, Clocks, ActiveTimeExact, GetAccumulatedActiveTime, deviceVars
  <2>4. CASE UNCHANGED vars
    BY <2>3, <2>4 DEF vars, energyVars
  <2>. QED BY <2>1, <2>2, <2>3, <2>4, OthersKeepDevices DEF Next, SimNext, SaveEnergy
<1>. QED BY <1>1, <1>2, PTL DEF Spec

\* The active time a device reports is the time it was in an active state.
THEOREM ActiveTimesExact == Spec => []ActiveTimeExact
BY DeviceInvHolds, PTL DEF DeviceInv

-----------------------------------------------------------------------------
(* Devices and coordinator.                                                *)

\* Under a heuristic the control file is not read, and nothing is scheduled.
NoFile ==
  /\ now \in Nat /\ now <= MaxTime
  /\ controller # "file" => nextRead = Never /\ sim = "idle" /\ agenda = <<>>

AllowType == rrc.allow \in [Cell -> Statuses]

BarInv ==
  /\ NoFile
  /\ controller # "file" => AllowType
  /\ DeviceFollowsBar

\* What a command does to the record of cell c, the last command of which was
\* dropped or not.
LEMMA SetAllowedKnown ==
  ASSUME NEW r, r.allow \in [Cell -> Statuses], NEW S, NEW hoAllowed,
         NEW c \in Cell, c \in S, r.allow[c] # "untracked"
  PROVE  /\ SetAllowed(r, S, hoAllowed).allow[c]
                = IF hoAllowed[c] THEN "allowed" ELSE "barred"
         /\ c \notin SetAllowed(r, S, hoAllowed).dropped
BY DEF SetAllowed

LEMMA SetAllowedUnknown ==
  ASSUME NEW r, r.allow \in [Cell -> Statuses], NEW S, NEW hoAllowed,
         NEW c \in Cell, c \in S, r.allow[c] = "untracked"
  PROVE  c \in SetAllowed(r, S, hoAllowed).dropped
BY DEF SetAllowed

LEMMA SetAllowedOthers ==
  ASSUME NEW r, r.allow \in [Cell -> Statuses], NEW S, NEW hoAllowed,
         NEW c \in Cell, c \notin S
  PROVE  /\ SetAllowed(r, S, hoAllowed).allow[c] = r.allow[c]
         /\ c \in SetAllowed(r, S, hoAllowed).dropped <=> c \in r.dropped
BY DEF SetAllowed

LEMMA SetAllowedType ==
  ASSUME NEW r, r.allow \in [Cell -> Statuses], NEW S, NEW hoAllowed
  PROVE  SetAllowed(r, S, hoAllowed).allow \in [Cell -> Statuses]
BY DEF SetAllowed, Statuses

\* An eviction leaves the states and the dropped commands alone.
LEMMA TurnOffAllowed ==
  ASSUME NEW r, r.allow \in [Cell -> Statuses], NEW S
  PROVE  LET told == SetAllowed(r, S, [c \in S |-> FALSE]) IN
           /\ TurnOff(r, S).allow = told.allow
           /\ TurnOff(r, S).dropped = told.dropped
BY DEF TurnOff, EvictUsersFromSecondaryCell, SetAllowed

LEMMA HeuristicKeepsBar ==
  ASSUME AllowType, DeviceFollowsBar, Heuristic
  PROVE  (AllowType /\ DeviceFollowsBar)'
<1>1. CASE TurnOnBsSinrPos
  <2>1. PICK up : /\ rrc' = TurnOff(TurnOn(rrc, up), Cell \ up)
                  /\ SetCellState(Cell, [c \in Cell |-> c \in up])
    BY <1>1 DEF TurnOnBsSinrPos
  <2>. DEFINE on   == TurnOn(rrc, up)
              told == SetAllowed(on, Cell \ up, [c \in Cell \ up |-> FALSE])
  <2>2. on.allow \in [Cell -> Statuses]
    BY SetAllowedType DEF AllowType, TurnOn
  <2>3. /\ rrc'.allow = told.allow /\ rrc'.dropped = told.dropped
    BY <2>1, <2>2, TurnOffAllowed
  <2>4. told.allow \in [Cell -> Statuses]
    BY <2>2, SetAllowedType
  <2>5. ASSUME NEW c \in Cell, c \notin rrc'.dropped
        PROVE  cellState'[c] <=> rrc'.allow[c] # "barred"
    <3>1. cellState'[c] <=> c \in up
      BY <2>1 DEF SetCellState
    <3>2. CASE c \in up
      <4>1. told.allow[c] = on.allow[c] /\ (c \in told.dropped <=> c \in on.dropped)
        BY <3>2, <2>2, SetAllowedOthers
      <4>2. rrc.allow[c] # "untracked"
        BY <4>1, <2>3, <2>5, <3>2, SetAllowedUnknown DEF AllowType, TurnOn
      <4>3. on.allow[c] = IF [d \in up |-> TRUE][c] THEN "allowed" ELSE "barred"
        BY <4>2, <3>2, SetAllowedKnown DEF AllowType, TurnOn
      <4>. QED BY <3>1, <3>2, <4>1, <4>3, <2>3
    <3>3. CASE c \notin up
      <4>1. on.allow[c] # "untracked"
        BY <3>3, <2>2, <2>3, <2>5, SetAllowedUnknown
      <4>2. told.allow[c] = IF [d \in Cell \ up |-> FALSE][c] THEN "allowed" ELSE "barred"
        BY <4>1, <3>3, <2>2, SetAllowedKnown
      <4>. QED BY <3>1, <3>3, <4>2, <2>3
    <3>. QED BY <3>2, <3>3
  <2>. QED BY <2>3, <2>4, <2>5 DEF AllowType, DeviceFollowsBar
<1>2. CASE \E c \in Cell, active \in BOOLEAN : ProbabilityState(c, active)
  <2>1. PICK d \in Cell, active \in BOOLEAN : ProbabilityState(d, active)
    BY <1>2
  <2>. DEFINE told == SetAllowed(rrc, {d}, [e \in {d} |-> active])
  <2>2. rrc' = told /\ SetCellState({d}, [e \in {d} |-> active])
    BY <2>1 DEF ProbabilityState
  <2>3. told.allow \in [Cell -> Statuses]
    BY SetAllowedType DEF AllowType
  <2>4. controller # "file" /\ controller' = controller
    BY <2>1 DEF ProbabilityState
  <2>5. ASSUME NEW c \in Cell, c \notin rrc'.dropped
        PROVE  cellState'[c] <=> rrc'.allow[c] # "barred"
    <3>1. CASE c = d
      <4>1. cellState'[c] <=> active
        BY <2>2, <3>1 DEF SetCellState
      <4>2. rrc.allow[c] # "untracked"
        BY <3>1, <2>2, <2>5, SetAllowedUnknown DEF AllowType
      <4>3. told.allow[c] = IF [e \in {d} |-> active][c] THEN "allowed" ELSE "barred"
        BY <3>1, <4>2, SetAllowedKnown DEF AllowType
      <4>. QED BY <3>1, <4>1, <4>3, <2>2
    <3>2. CASE c # d
      <4>1. told.allow[c] = rrc.allow[c] /\ (c \in told.dropped <=> c \in rrc.dropped)
        BY <3>2, SetAllowedOthers DEF AllowType
      <4>2. cellState'[c] = cellState[c]
        BY <2>2, <3>2 DEF SetCellState
      <4>. QED BY <4>1, <4>2, <2>2, <2>4, <2>5 DEF DeviceFollowsBar
    <3>. QED BY <3>1, <3>2
  <2>. QED BY <2>2, <2>3, <2>5 DEF AllowType, DeviceFollowsBar
<1>. QED BY <1>1, <1>2 DEF Heuristic

LEMMA BarInvHolds == Spec => []BarInv
<1>. USE EnergyBoundAssumption
<1>1. Init => BarInv
  BY DEF Init, EnergyInit, BarInv, NoFile, AllowType, Statuses, DeviceFollowsBar
<1>2. BarInv /\ [Next]_vars => BarInv'
  <2>. SUFFICES ASSUME BarInv, [Next]_vars PROVE BarInv'
    OBVIOUS
  <2>1. controller' = controller
    BY DEF Next, SimNext, SaveEnergy, Heuristic, TurnOnBsSinrPos, ProbabilityState,
           FirstReport, PassTime, Tick, AgentObserve, AgentWrite, AgentPost,
           PostMetrics, WaitForControl, ReadFile, FlushFile, RunEvent, vars, energyVars
  <2>2. NoFile'
    <3>1. CASE controller = "file"
      <4>1. CASE PassTime
        BY <2>1, <3>1, <4>1 DEF BarInv, NoFile, PassTime, Tick
      <4>2. CASE Heuristic
        BY <2>1, <3>1, <4>2 DEF Heuristic, TurnOnBsSinrPos, ProbabilityState
      <4>3. CASE UNCHANGED now
        BY <2>1, <3>1, <4>3 DEF BarInv, NoFile
      <4>. QED BY <4>1, <4>2, <4>3, OthersKeepDevices
               DEF Next, SimNext, SaveEnergy, vars, energyVars
    <3>2. CASE controller # "file"
      <4>1. nextRead = Never /\ sim = "idle" /\ agenda = <<>> /\ now \in Nat /\ now <= MaxTime
        BY <3>2 DEF BarInv, NoFile
      <4>2. nextRead # now /\ Due = {}
        BY <4>1 DEF Never, Due
      <4>3. CASE PassTime
        BY <2>1, <4>1, <4>3 DEF NoFile, PassTime, Tick, channelVars, Never
      <4>4. CASE SaveEnergy
        BY <2>1, <4>1, <4>4 DEF NoFile, SaveEnergy, Heuristic, TurnOnBsSinrPos,
           ProbabilityState, FirstReport, channelVars, Never
      <4>5. CASE UNCHANGED vars
        BY <2>1, <4>1, <4>5 DEF NoFile, vars, energyVars, channelVars, Never
      <4>. QED BY <3>2, <4>1, <4>2, <4>3, <4>4, <4>5
               DEF Next, SimNext, AgentObserve, AgentWrite, AgentPost, PostMetrics,
                   WaitForControl, ReadFile, FlushFile, RunEvent
    <3>. QED BY <3>1, <3>2
  <2>3. (controller # "file" => AllowType)' /\ DeviceFollowsBar'
    <3>1. CASE controller = "file"
      BY <2>1, <3>1 DEF DeviceFollowsBar
    <3>2. CASE controller # "file"
      <4>1. nextRead = Never /\ sim = "idle" /\ agenda = <<>> /\ now \in Nat /\ now <= MaxTime
        BY <3>2 DEF BarInv, NoFile
      <4>2. nextRead # now /\ Due = {}
        BY <4>1 DEF Never, Due
      <4>3. AllowType /\ DeviceFollowsBar
        BY <3>2 DEF BarInv
      <4>4. CASE PassTime
        BY <2>1, <4>3, <4>4 DEF AllowType, DeviceFollowsBar, PassTime, Tick, deviceVars
      <4>5. CASE Heuristic
        BY <4>3, <4>5, HeuristicKeepsBar
      <4>6. CASE \E c \in Cell : FirstReport(c)
        BY <2>1, <4>3, <4>6 DEF AllowType, DeviceFollowsBar, FirstReport, Statuses, deviceVars
      <4>7. CASE UNCHANGED vars
        BY <2>1, <4>3, <4>7 DEF AllowType, DeviceFollowsBar, vars, energyVars, deviceVars
      <4>. QED BY <3>2, <4>1, <4>2, <4>4, <4>5, <4>6, <4>7
               DEF Next, SimNext, SaveEnergy, AgentObserve, AgentWrite, AgentPost, PostMetrics,
                   WaitForControl, ReadFile, FlushFile, RunEvent
    <3>. QED BY <3>1, <3>2
  <2>. QED BY <2>2, <2>3 DEF BarInv
<1>. QED BY <1>1, <1>2, PTL DEF Spec

\* Under a heuristic a device sleeps if and only if the coordinator bars its
\* cell, unless the command came before the cell's first report.
THEOREM DevicesFollowBar == Spec => []DeviceFollowsBar
BY BarInvHolds, PTL DEF BarInv

-----------------------------------------------------------------------------
(* Taking turns.                                                           *)

\* The agent finds the states that the cells have, if they could be written.
Logged == StateFileOpens = {TRUE} => bsState = rrc.allow

\* With semaphores there is one turn, and it is somewhere: with the simulator,
\* on its way to the agent, with the agent, or on its way back.
Turn ==
  IF ~useSemaphores THEN agent = "waiting" /\ sim # "waiting"
  ELSE \/ /\ sim # "waiting" /\ agent = "waiting"
          /\ metricsReady = 0 /\ control = 0
       \/ /\ sim = "waiting" /\ agent = "waiting"
          /\ metricsReady = 1 /\ control = 0 /\ Logged
       \/ /\ sim = "waiting" /\ agent \in {"acting", "posting"}
          /\ metricsReady = 0 /\ control = 0 /\ Logged
       \/ /\ sim = "waiting" /\ agent = "waiting"
          /\ metricsReady = 0 /\ control = 1

LEMMA TurnHolds ==
  ASSUME StalePosts = 0
  PROVE  Spec => []Turn
<1>1. Init => Turn
  BY DEF Init, Turn
<1>2. Turn /\ [Next]_vars => Turn'
  <2>. SUFFICES ASSUME Turn, [Next]_vars PROVE Turn'
    OBVIOUS
  <2>0. Logged /\ UNCHANGED <<rrc, bsState>> => Logged'
    BY DEF Logged
  <2>1. CASE AgentObserve
    BY <2>0, <2>1 DEF Turn, AgentObserve, energyVars
  <2>2. CASE AgentWrite
    BY <2>0, <2>2 DEF Turn, AgentWrite, energyVars
  <2>3. CASE AgentPost
    BY <2>3 DEF Turn, AgentPost, energyVars
  <2>4. CASE PostMetrics
    <3>1. useSemaphores => Logged'
      BY <2>4 DEF PostMetrics, Logged, energyVars
    <3>. QED BY <2>4, <3>1 DEF Turn, PostMetrics, energyVars
  <2>5. CASE WaitForControl
    BY <2>5 DEF Turn, WaitForControl, energyVars
  <2>6. CASE ReadFile
    BY <2>6 DEF Turn, ReadFile
  <2>7. CASE FlushFile
    BY <2>7 DEF Turn, FlushFile
  <2>8. CASE RunEvent
    BY <2>0, <2>8 DEF Turn, RunEvent, Simulating, channelVars
  <2>9. CASE PassTime
    BY <2>0, <2>9 DEF Turn, PassTime, Simulating, channelVars
  <2>10. CASE SaveEnergy
    BY <2>0, <2>10 DEF Turn, SaveEnergy, Simulating, channelVars
  <2>11. CASE UNCHANGED vars
    BY <2>0, <2>11 DEF Turn, vars, energyVars, channelVars
  <2>. QED BY <2>1, <2>2, <2>3, <2>4, <2>5, <2>6, <2>7, <2>8, <2>9, <2>10, <2>11
           DEF Next, SimNext
<1>. QED BY <1>1, <1>2, PTL DEF Spec

\* Whenever the agent acts, it has before it the states the cells have, if
\* bsState.txt can always be opened.
THEOREM ObservationsFresh ==
  ASSUME StalePosts = 0, StateFileOpens = {TRUE}
  PROVE  Spec => []FreshObservation
<1>1. Turn => FreshObservation
  BY DEF Turn, Logged, FreshObservation
<1>. QED BY <1>1, TurnHolds, PTL

-----------------------------------------------------------------------------
(* The file as a channel.                                                  *)

AgentBatch == [id : Nat, lines : UNION {[1..n -> AgentLines] : n \in 1..MaxLines}]

\* Where the reader is in the file: what is in it has not been read before the
\* read, and all of it has after; a file that stays is not read again.
ReadSoFar ==
  IF sim = "flushing" \/ nextRead = Never
  THEN written = Len(applied)
  ELSE /\ written = Len(applied) + Len(file)
       /\ \A i \in 1..Len(file) : file[i].id = Len(applied) + i

ChannelInv ==
  /\ now \in Nat /\ now <= MaxTime
  /\ sim # "idle" => nextRead = now
  /\ written \in Nat
  /\ file \in Seq(AgentBatch)
  /\ applied \in Seq(Nat)
  /\ \A i \in 1..Len(applied) : applied[i] = i
  /\ ReadSoFar

\* A history in order is the sequence of its own positions.
LEMMA InOrder ==
  ASSUME NEW s \in Seq(Nat), \A i \in 1..Len(s) : s[i] = i
  PROVE  s = [i \in 1..Len(s) |-> i]
<1>1. s = [i \in DOMAIN s |-> s[i]] /\ DOMAIN s = 1..Len(s)
  OBVIOUS
<1>. QED BY <1>1

\* The batches read follow those read before.
LEMMA ReadAppends ==
  ASSUME useSemaphores, ChannelInv, ReadFile
  PROVE  /\ applied' \in Seq(Nat)
         /\ Len(applied') = Len(applied) + Len(file)
         /\ \A i \in 1..Len(applied') : applied'[i] = i
         /\ written = Len(applied')
<1>. DEFINE ids == [i \in DOMAIN file |-> file[i].id]
<1>1. /\ file \in Seq(AgentBatch) /\ applied \in Seq(Nat)
      /\ DOMAIN file = 1..Len(file) /\ Len(file) \in Nat
  BY DEF ChannelInv
<1>2. nextRead # Never /\ sim = "reading"
  BY EnergyBoundAssumption DEF ChannelInv, ReadFile, Never
<1>3. /\ written = Len(applied) + Len(file)
      /\ \A i \in 1..Len(file) : file[i].id = Len(applied) + i
  BY <1>2 DEF ChannelInv, ReadSoFar
<1>4. \A i \in 1..Len(file) : file[i].id \in Nat
  BY <1>1, <1>3
<1>5. ids \in Seq(Nat) /\ Len(ids) = Len(file)
  BY <1>1, <1>4, IsASeq
<1>6. applied' = applied \o ids
  BY DEF ReadFile
<1>. HIDE DEF ids
<1>7. /\ applied' \in Seq(Nat) /\ Len(applied') = Len(applied) + Len(ids)
      /\ \A i \in 1..Len(applied') :
           applied'[i] = IF i <= Len(applied) THEN applied[i] ELSE ids[i - Len(applied)]
  <2>1. /\ applied \o ids \in Seq(Nat) /\ Len(applied \o ids) = Len(applied) + Len(ids)
        /\ \A i \in 1..Len(applied) + Len(ids) : (applied \o ids)[i] =
             IF i <= Len(applied) THEN applied[i] ELSE ids[i - Len(applied)]
    BY <1>1, <1>5, ConcatProperties
  <2>. QED BY <1>6, <2>1
<1>8. ASSUME NEW i \in 1..Len(applied')
      PROVE  applied'[i] = i
  <2>1. CASE i <= Len(applied)
    <3>1. i \in 1..Len(applied)
      BY <1>1, <1>5, <1>7, <2>1
    <3>. QED BY <1>7, <2>1, <3>1 DEF ChannelInv
  <2>2. CASE ~(i <= Len(applied))
    <3>. DEFINE j == i - Len(applied)
    <3>1. j \in 1..Len(file)
      BY <1>1, <1>5, <1>7, <2>2
    <3>2. ids[j] = file[j].id
      BY <1>1, <3>1 DEF ids
    <3>. QED BY <1>1, <1>3, <1>7, <2>2, <3>1, <3>2, SMTT(30)
  <2>. QED BY <2>1, <2>2
<1>. QED BY <1>3, <1>5, <1>7, <1>8

ChannelHolds == Turn /\ (useSemaphores => ChannelInv)

LEMMA ChannelInvHolds ==
  ASSUME StalePosts = 0
  PROVE  Spec => []ChannelHolds
<1>. USE EnergyBoundAssumption
<1>1. Init => (useSemaphores => ChannelInv)
  BY DEF Init, EnergyInit, ChannelInv, ReadSoFar, Never
<1>2. Turn /\ (useSemaphores => ChannelInv) /\ [Next]_vars
        => (useSemaphores => ChannelInv)'
  <2>. SUFFICES ASSUME Turn, useSemaphores => ChannelInv, [Next]_vars, useSemaphores'
                PROVE  ChannelInv'
    OBVIOUS
  <2>0. useSemaphores /\ ChannelInv
    BY DEF Next, SimNext, SaveEnergy, PassTime, AgentObserve, AgentWrite, AgentPost,
           PostMetrics, WaitForControl, ReadFile, FlushFile, RunEvent, vars
  <2>. USE <2>0
  <2>1. CASE AgentWrite
    <3>1. sim = "waiting" /\ nextRead = now /\ nextRead # Never
      BY <2>1 DEF AgentWrite, Turn, ChannelInv, Never
    <3>2. PICK lines \in Batches : file' = Append(file, [id |-> written + 1, lines |-> lines])
      BY <2>1 DEF AgentWrite
    <3>3. lines \in UNION {[1..n -> AgentLines] : n \in 1..MaxLines}
      BY <3>2 DEF Batches
    <3>. DEFINE batch == [id |-> written + 1, lines |-> lines]
    <3>4. batch \in AgentBatch
      BY <3>3 DEF AgentBatch, ChannelInv
    <3>5. batch.id = written + 1
      OBVIOUS
    <3>. HIDE DEF batch
    <3>6. /\ file \in Seq(AgentBatch) /\ file' = Append(file, batch)
          /\ file' \in Seq(AgentBatch) /\ Len(file') = Len(file) + 1
          /\ \A i \in 1..Len(file) : file'[i] = file[i]
          /\ file'[Len(file) + 1] = batch
      BY <3>2, <3>4, AppendProperties DEF ChannelInv, batch
    <3>7. UNCHANGED <<now, sim, nextRead, applied>> /\ written' = written + 1
      BY <2>1 DEF AgentWrite, energyVars
    <3>8. ReadSoFar'
      <4>1. /\ written = Len(applied) + Len(file)
            /\ \A i \in 1..Len(file) : file[i].id = Len(applied) + i
        BY <3>1 DEF ChannelInv, ReadSoFar
      <4>2. Len(applied) \in Nat /\ Len(file) \in Nat
        BY DEF ChannelInv
      <4>3. ASSUME NEW i \in 1..Len(file') PROVE file'[i].id = Len(applied') + i
        <5>1. CASE i \in 1..Len(file)
          BY <3>6, <3>7, <4>1, <5>1
        <5>2. CASE i = Len(file) + 1
          <6>1. file'[i].id = written + 1 /\ Len(applied') = Len(applied)
            BY <3>5, <3>6, <3>7, <5>2
          <6>. QED BY <4>1, <4>2, <5>2, <6>1
        <5>. QED BY <3>6, <4>2, <5>1, <5>2
      <4>. QED BY <3>1, <3>6, <3>7, <4>1, <4>2, <4>3 DEF ReadSoFar, Never
    <3>. QED BY <3>1, <3>6, <3>7, <3>8 DEF ChannelInv
  <2>2. CASE ReadFile
    <3>1. /\ applied' \in Seq(Nat)
          /\ \A i \in 1..Len(applied') : applied'[i] = i
          /\ written = Len(applied')
      BY <2>2, ReadAppends
    <3>2. UNCHANGED <<now, nextRead, file, written>> /\ sim = "reading" /\ sim' = "flushing"
      BY <2>2 DEF ReadFile
    <3>. QED BY <3>1, <3>2 DEF ChannelInv, ReadSoFar
  <2>3. CASE FlushFile
    <3>1. UNCHANGED <<now, applied, written>> /\ sim = "flushing" /\ sim' = "idle"
      BY <2>3 DEF FlushFile, energyVars
    <3>2. written = Len(applied)
      BY <3>1 DEF ChannelInv, ReadSoFar
    <3>3. CASE schedule
      BY <2>3, <3>1, <3>2, <3>3 DEF FlushFile, ChannelInv, ReadSoFar, Never
    <3>4. CASE ~schedule
      <4>1. file' = <<>>
        BY <2>3, <3>4 DEF FlushFile
      <4>2. Len(file') = 0 /\ file' \in Seq(AgentBatch)
        BY <4>1
      <4>3. Len(applied) \in Nat
        BY DEF ChannelInv
      <4>. QED BY <3>1, <3>2, <4>2, <4>3 DEF ChannelInv, ReadSoFar, Never
    <3>. QED BY <3>3, <3>4
  <2>4. CASE PostMetrics
    BY <2>4 DEF PostMetrics, energyVars, ChannelInv, ReadSoFar, Never
  <2>5. CASE WaitForControl
    BY <2>5 DEF WaitForControl, energyVars, ChannelInv, ReadSoFar, Never
  <2>6. CASE AgentObserve
    BY <2>6 DEF AgentObserve, energyVars, ChannelInv, ReadSoFar, Never
  <2>7. CASE AgentPost
    BY <2>7 DEF AgentPost, energyVars, ChannelInv, ReadSoFar, Never
  <2>8. CASE RunEvent
    BY <2>8 DEF RunEvent, channelVars, ChannelInv, ReadSoFar, Never
  <2>9. CASE PassTime
    BY <2>9 DEF PassTime, Tick, Simulating, channelVars, ChannelInv, ReadSoFar, Never
  <2>10. CASE SaveEnergy
    BY <2>10 DEF SaveEnergy, Heuristic, TurnOnBsSinrPos, ProbabilityState, FirstReport,
                 Simulating, channelVars, ChannelInv, ReadSoFar, Never
  <2>11. CASE UNCHANGED vars
    BY <2>11 DEF vars, energyVars, channelVars, ChannelInv, ReadSoFar, Never
  <2>. QED BY <2>1, <2>2, <2>3, <2>4, <2>5, <2>6, <2>7, <2>8, <2>9, <2>10, <2>11
           DEF Next, SimNext
<1>3. Spec => [](useSemaphores => ChannelInv)
  BY <1>1, <1>2, TurnHolds, PTL DEF Spec
<1>. QED BY <1>3, TurnHolds, PTL DEF ChannelHolds

\* The position of the channel that stands for the agent's and the reader's.
Accepted == IF useSemaphores THEN written ELSE 0
Delivered == IF ~useSemaphores THEN 0
             ELSE IF applied = [i \in 1..Len(applied) |-> i] THEN Len(applied) ELSE -1

\* With semaphores that start at zero the control file is a reliable channel:
\* every batch the agent writes is carried out once, in the order written.
THEOREM BatchesDelivered ==
  ASSUME StalePosts = 0
  PROVE  Spec => BatchesArrive
<1>1. Init => Channel!Init
  BY DEF Init, Channel!Init
<1>2. ChannelHolds /\ ChannelHolds' /\ [Next]_vars
        => [Channel!Accept \/ Channel!Deliver]_<<Accepted, Delivered>>
  <2>. SUFFICES ASSUME ChannelHolds, ChannelHolds', [Next]_vars
                PROVE  [Channel!Accept \/ Channel!Deliver]_<<Accepted, Delivered>>
    OBVIOUS
  <2>1. useSemaphores' = useSemaphores
    BY DEF Next, SimNext, SaveEnergy, PassTime, AgentObserve, AgentWrite, AgentPost,
           PostMetrics, WaitForControl, ReadFile, FlushFile, RunEvent, vars
  <2>2. CASE ~useSemaphores
    BY <2>1, <2>2 DEF Accepted, Delivered
  <2>3. CASE useSemaphores
    <3>1. Accepted = written /\ Delivered = Len(applied)
      BY <2>3, InOrder DEF ChannelHolds, ChannelInv, Accepted, Delivered
    <3>2. Accepted' = written' /\ Delivered' = Len(applied')
      <4>1. applied' = [i \in 1..Len(applied') |-> i]
        BY <2>1, <2>3, InOrder DEF ChannelHolds, ChannelInv
      <4>. QED BY <2>1, <2>3, <4>1 DEF Accepted, Delivered
    <3>3. CASE AgentWrite
      <4>1. Accepted' = Accepted + 1 /\ Delivered' = Delivered
        BY <3>1, <3>2, <3>3 DEF AgentWrite
      <4>. QED BY <4>1 DEF Channel!Accept, Accepted, Delivered
    <3>4. CASE ReadFile
      <4>1. ChannelInv
        BY <2>3 DEF ChannelHolds
      <4>2. Len(applied') = Len(applied) + Len(file) /\ written = Len(applied')
        BY <2>3, <3>4, <4>1, ReadAppends
      <4>3. Accepted' = Accepted
        BY <3>1, <3>2, <3>4 DEF ReadFile
      <4>4. Len(applied) \in Nat /\ Len(file) \in Nat
        BY <4>1 DEF ChannelInv
      <4>5. CASE Len(file) = 0
        <5>1. Delivered' = Delivered
          BY <3>1, <3>2, <4>2, <4>4, <4>5
        <5>. QED BY <4>3, <5>1
      <4>6. CASE Len(file) # 0
        <5>1. Delivered' \in Delivered + 1 .. Accepted
          BY <3>1, <3>2, <4>2, <4>4, <4>6
        <5>. QED BY <4>3, <5>1 DEF Channel!Deliver, Accepted, Delivered
      <4>. QED BY <4>5, <4>6
    <3>5. CASE UNCHANGED <<written, applied>>
      BY <3>1, <3>2, <3>5
    <3>. QED BY <3>3, <3>4, <3>5
         DEF Next, SimNext, SaveEnergy, PassTime, AgentObserve, AgentPost,
             PostMetrics, WaitForControl, FlushFile, RunEvent, vars, channelVars
  <2>. QED BY <2>2, <2>3
<1>. QED BY <1>1, <1>2, ChannelInvHolds, PTL
         DEF Spec, BatchesArrive, Channel!Spec, Accepted, Delivered
=============================================================================
