---------------------------- MODULE ControlFile ----------------------------
(***************************************************************************)
(* An agent outside the simulator commands the cells through a file.  With *)
(* semaphores the two take turns: the simulator posts its metrics and      *)
(* waits, the agent writes a batch of lines and posts the control.         *)
(* Without them the simulator reads at its own pace, or reads one prepared *)
(* file at the start and schedules its lines.  Source: ReadControlFile,    *)
(* src/src/lte/model/lte-enb-net-device.cc.                                *)
(*                                                                         *)
(* What is abstracted: a line is a record, the lines that are skipped as   *)
(* malformed are left out; the agent is external, and appends one batch at *)
(* a time; whether a UE already is in the cell it is sent to is left open; *)
(* what a steering order does is McCoordinator's matter, here it is an     *)
(* event.  A tick is the E2 period; the read comes 5 ms after it.          *)
(***************************************************************************)
EXTENDS CellEnergy, Sequences

CONSTANTS
  UE, Attached,        \* the IMSIs, and those the coordinator knows
  SemaphoreModes,      \* the values of UseSemaphores to consider
  ScheduleModes,       \* the values of ScheduleControlMessages to consider
  StalePosts,          \* posts left in the control semaphore by a former run
  StateFileOpens,      \* what opening bsState.txt may come to
  AgentLines,          \* the lines the agent may write
  MaxLines,            \* lines of a batch
  MaxBatches           \* batches the agent writes

EsLine == [kind : {"ES"}, at : 0..MaxTime, cell : Cell, hoAllowed : BOOLEAN]
TsLine == [kind : {"TS"}, at : 0..MaxTime, imsi : UE, cell : Cell]
Line   == EsLine \cup TsLine
Evict  == [kind |-> "evict"]

ASSUME ControlAssumption ==
  /\ AgentLines \subseteq Line
  /\ Attached \subseteq UE
  /\ SemaphoreModes \subseteq BOOLEAN /\ ScheduleModes \subseteq BOOLEAN
  /\ StateFileOpens \subseteq BOOLEAN /\ StateFileOpens # {}
  /\ StalePosts \in Nat /\ MaxLines \in Nat /\ MaxBatches \in Nat

VARIABLES
  useSemaphores,  \* m_useSemaphores
  schedule,       \* m_scheduleControlMessages
  alive,          \* FALSE once a line has ended the simulation
  sim,            \* where ReadControlFile is
  nextRead,       \* when it runs next
  metricsReady,   \* m_metricsReadySemaphore
  control,        \* m_controlSemaphore
  bsState,        \* the last states written to bsState.txt
  agent,          \* what the external agent does
  file,           \* the batches in the control file
  written,        \* batches the agent has written
  applied,        \* history: the batches read, in order
  agenda,         \* events scheduled, in the order they were
  e2Controlled    \* m_e2ControlledUes

channelVars == <<sim, nextRead, metricsReady, control, bsState, agent, file,
                 written, applied>>
vars == <<energyVars, useSemaphores, schedule, alive, channelVars, agenda,
          e2Controlled>>

Never == MaxTime + 1

TypeOK ==
  /\ EnergyTypeOK
  /\ useSemaphores \in SemaphoreModes /\ schedule \in ScheduleModes
  /\ alive \in BOOLEAN
  /\ sim \in {"idle", "waiting", "reading", "flushing"}
  /\ nextRead \in 0..Never
  /\ metricsReady \in Nat /\ control \in Nat
  /\ bsState \in [Cell -> Statuses]
  /\ agent \in {"waiting", "acting", "posting"}
  /\ \A i \in DOMAIN file : file[i].id \in 1..MaxBatches
                            /\ \A j \in DOMAIN file[i].lines :
                                 file[i].lines[j] \in Line
  /\ written \in 0..MaxBatches
  /\ applied \in Seq(1..MaxBatches)
  /\ \A i \in DOMAIN agenda : /\ agenda[i].at \in now..2 * MaxTime
                              /\ agenda[i].command \in Line \cup {Evict}
  /\ e2Controlled \in SUBSET UE

Init ==
  /\ EnergyInit
  /\ useSemaphores \in SemaphoreModes
  /\ schedule \in ScheduleModes
  /\ controller # "file" => ~useSemaphores /\ ~schedule
  /\ alive = TRUE
  /\ sim = "idle"
  /\ nextRead = IF controller = "file" THEN 1 ELSE Never
  /\ metricsReady = 0
  /\ control \in 0..StalePosts
  /\ bsState = rrc.allow
  /\ agent = "waiting"
  /\ file = <<>>
  /\ written = 0
  /\ applied = <<>>
  /\ agenda = <<>>
  /\ e2Controlled = {}

-----------------------------------------------------------------------------
(* The agent: external, as the handshake of ReadControlFile supposes it.    *)

\* The batches an agent may write: steering of UEs it knows of, attached or
\* not, and states for the cells.  Timestamps matter in a prepared file only.
Batches ==
  UNION {[1..n -> {l \in AgentLines : schedule \/ l.at = 0}] : n \in 1..MaxLines}

\* The metrics are there: the agent reads them.
AgentObserve ==
  /\ controller = "file" /\ useSemaphores
  /\ agent = "waiting" /\ metricsReady > 0
  /\ metricsReady' = metricsReady - 1
  /\ agent' = "acting"
  /\ UNCHANGED <<energyVars, useSemaphores, schedule, alive, sim, nextRead,
                 control, bsState, file, written, applied, agenda,
                 e2Controlled>>

\* In its turn, or at any time where there are no turns; a prepared file is
\* complete before the simulation starts.
AgentWrite ==
  /\ controller = "file"
  /\ IF useSemaphores THEN agent = "acting"
     ELSE schedule => now = 0 /\ file = <<>>
  /\ written < MaxBatches
  /\ \E lines \in Batches :
       file' = Append(file, [id |-> written + 1, lines |-> lines])
  /\ written' = written + 1
  /\ agent' = IF useSemaphores THEN "posting" ELSE agent
  /\ UNCHANGED <<energyVars, useSemaphores, schedule, alive, sim, nextRead,
                 metricsReady, control, bsState, applied, agenda,
                 e2Controlled>>

\* The agent has nothing to say, or has said it: the simulator goes on.
AgentPost ==
  /\ controller = "file" /\ useSemaphores
  /\ agent \in {"acting", "posting"}
  /\ control' = control + 1
  /\ agent' = "waiting"
  /\ UNCHANGED <<energyVars, useSemaphores, schedule, alive, sim, nextRead,
                 metricsReady, bsState, file, written, applied, agenda,
                 e2Controlled>>

-----------------------------------------------------------------------------
(* ReadControlFile.                                                        *)

Due == {i \in DOMAIN agenda : agenda[i].at = now}

\* Mutant: bsState.txt is left to the trace of the scenario.
PostMetricsOnly ==
  /\ alive /\ sim = "idle" /\ nextRead = now /\ Due = {}
  /\ IF useSemaphores
     THEN metricsReady' = metricsReady + 1 /\ sim' = "waiting"
     ELSE sim' = "reading" /\ UNCHANGED metricsReady
  /\ UNCHANGED <<energyVars, useSemaphores, schedule, alive, nextRead, control,
                 bsState, agent, file, written, applied, agenda, e2Controlled>>

\* The states of the cells are written before the metrics are posted; if the
\* file cannot be opened, an error is logged and the metrics are posted.
PostMetrics ==
  /\ alive /\ sim = "idle" /\ nextRead = now /\ Due = {}
  /\ IF useSemaphores
     THEN /\ \E opened \in StateFileOpens :
               bsState' = IF opened THEN rrc.allow ELSE bsState
          /\ metricsReady' = metricsReady + 1
          /\ sim' = "waiting"
     ELSE sim' = "reading" /\ UNCHANGED <<bsState, metricsReady>>
  /\ UNCHANGED <<energyVars, useSemaphores, schedule, alive, nextRead, control,
                 agent, file, written, applied, agenda, e2Controlled>>

\* Mutant: the wait comes back although nobody has posted.
WaitInterrupted ==
  /\ sim = "waiting" /\ sim' = "reading"
  /\ UNCHANGED <<energyVars, useSemaphores, schedule, alive, nextRead,
                 metricsReady, control, bsState, agent, file, written, applied,
                 agenda, e2Controlled>>

\* Mutant: the post of the turn before is waited for as well.
WaitForTwoPosts ==
  /\ sim = "waiting" /\ control > 1
  /\ control' = control - 1
  /\ sim' = "reading"
  /\ UNCHANGED <<energyVars, useSemaphores, schedule, alive, nextRead,
                 metricsReady, bsState, agent, file, written, applied, agenda,
                 e2Controlled>>

\* Simulated time stands still until the agent has posted.
WaitForControl ==
  /\ sim = "waiting" /\ control > 0
  /\ control' = control - 1
  /\ sim' = "reading"
  /\ UNCHANGED <<energyVars, useSemaphores, schedule, alive, nextRead,
                 metricsReady, bsState, agent, file, written, applied, agenda,
                 e2Controlled>>

\* The places of the file's lines: batch, and line in it.
Places ==
  {p \in (DOMAIN file) \X (1..MaxLines) : p[2] \in DOMAIN file[p[1]].lines}
LineAt(p) == file[p[1]].lines[p[2]]
Before(p, q) == p[1] < q[1] \/ (p[1] = q[1] /\ p[2] < q[2])

Steering == {p \in Places : LineAt(p).kind = "TS"}
EnergySaving == {p \in Places : LineAt(p).kind = "ES"}

LastOf(S) == CHOOSE p \in S : \A q \in S \ {p} : Before(q, p)

\* esCounter is an uint8_t; with it at 0 nobody is evicted.
Counted(S) == Cardinality(S) % 256 > 0

\* The states the lines give when they take effect as they are read: of the
\* lines for one cell the last counts.
Commanded == {LineAt(p).cell : p \in EnergySaving}
CommandedStatus == [c \in Commanded |->
  LineAt(LastOf({p \in EnergySaving : LineAt(p).cell = c})).hoAllowed]

\* The events the lines of S schedule, in their order: at the read, or as long
\* after it as their timestamp says.
Scheduled(S, byTimestamp) ==
  [i \in 1..Cardinality(S) |->
     LET p == CHOOSE q \in S : Cardinality({o \in S : Before(o, q)}) = i - 1
     IN  [at |-> now + IF byTimestamp THEN LineAt(p).at ELSE 0,
          command |-> LineAt(p)]]

\* Mutant: the eviction is scheduled at the time of the first line.
EvictionAtFirstLine ==
  LET first == CHOOSE p \in EnergySaving : \A q \in EnergySaving : ~Before(q, p)
  IN  IF Counted(EnergySaving)
      THEN << [at |-> now + LineAt(first).at, command |-> Evict] >> ELSE <<>>

\* One eviction, at the timestamp of the last energy-saving line (the offset
\* of 0.001 ms is lost in the conversion to whole milliseconds).
Eviction ==
  IF Counted(EnergySaving)
  THEN << [at |-> now + LineAt(LastOf(EnergySaving)).at, command |-> Evict] >>
  ELSE <<>>

\* A steering line for a UE the coordinator does not know ends the simulation;
\* the others schedule a handover at once, whatever their timestamp, but for
\* those (moot) whose UE is in the cell already.
CarryOutLines ==
  IF \E p \in Steering : LineAt(p).imsi \notin Attached
  THEN alive' = FALSE /\ UNCHANGED <<rrc, agenda, e2Controlled>>
  ELSE /\ UNCHANGED alive
       /\ \E moot \in SUBSET Steering :
            LET orders == Scheduled(Steering \ moot, FALSE)
                states == Scheduled(EnergySaving, TRUE)
            IN /\ agenda' = agenda \o orders \o
                              IF schedule THEN states \o Eviction ELSE <<>>
               /\ e2Controlled' = e2Controlled \cup
                    {LineAt(p).imsi : p \in Steering \ moot}
       /\ LET told == SetAllowed(rrc, Commanded, CommandedStatus) IN
          rrc' = IF schedule THEN rrc
                 ELSE IF Counted(EnergySaving)
                      THEN EvictUsersFromSecondaryCell(told) ELSE told

\* The whole file is read.
ReadFile ==
  /\ sim = "reading"
  /\ CarryOutLines
  /\ applied' = applied \o [i \in DOMAIN file |-> file[i].id]
  /\ sim' = "flushing"
  /\ UNCHANGED <<controller, now, nUeGoodSinr, deviceVars, ticksActive,
                 useSemaphores, schedule, nextRead, metricsReady, control,
                 bsState, agent, file, written>>

\* The file is emptied and the next read scheduled; a prepared file is read
\* once and left as it is.
FlushFile ==
  /\ sim = "flushing" /\ alive
  /\ sim' = "idle"
  /\ IF schedule THEN nextRead' = Never /\ UNCHANGED file
     ELSE /\ file' = <<>>
          /\ nextRead' = IF now < MaxTime THEN now + 1 ELSE Never
  /\ UNCHANGED <<energyVars, useSemaphores, schedule, alive, metricsReady,
                 control, bsState, agent, written, applied, agenda,
                 e2Controlled>>

-----------------------------------------------------------------------------
(* The simulator.                                                          *)

Simulating == alive /\ sim = "idle"

\* Events run in the order of their times, and at one time in the order they
\* were scheduled.
RunEvent ==
  /\ Simulating /\ Due # {}
  /\ LET i == CHOOSE i \in Due : \A j \in Due : i <= j
         command == agenda[i].command
     IN  /\ agenda' = [j \in 1..Len(agenda) - 1 |->
                         agenda[IF j < i THEN j ELSE j + 1]]
         /\ rrc' = CASE command.kind = "ES" ->
                          SetAllowed(rrc, {command.cell},
                                     [c \in {command.cell} |-> command.hoAllowed])
                     [] command.kind = "evict" -> EvictUsersFromSecondaryCell(rrc)
                     [] command.kind = "TS" -> rrc
  /\ UNCHANGED <<controller, now, nUeGoodSinr, deviceVars, ticksActive,
                 useSemaphores, schedule, alive, channelVars, e2Controlled>>

\* Mutant: an event that is due is left behind.
PassTimeAnyway ==
  /\ Simulating /\ nextRead # now
  /\ Tick
  /\ UNCHANGED <<useSemaphores, schedule, alive, channelVars, agenda, e2Controlled>>

\* Time passes when nothing is left to do at the present instant.
PassTime ==
  /\ Simulating /\ Due = {} /\ nextRead # now
  /\ Tick
  /\ UNCHANGED <<useSemaphores, schedule, alive, channelVars, agenda, e2Controlled>>

SaveEnergy ==
  /\ Simulating
  /\ Heuristic \/ \E c \in Cell : FirstReport(c)
  /\ UNCHANGED <<useSemaphores, schedule, alive, channelVars, agenda, e2Controlled>>

SimNext == PostMetrics \/ WaitForControl \/ ReadFile \/ FlushFile
             \/ RunEvent \/ PassTime

Next == AgentObserve \/ AgentWrite \/ AgentPost \/ SimNext \/ SaveEnergy

Spec == Init /\ [][Next]_vars

\* The simulator runs on its own; an agent that has the metrics answers.
FairSpec == Spec /\ WF_vars(SimNext) /\ WF_vars(AgentObserve)
                 /\ WF_vars(AgentPost)

-----------------------------------------------------------------------------
(* Properties.                                                             *)

\* In its turn the agent has before it the states the cells have, as long as
\* bsState.txt can be opened: it is written before the metrics are posted, and
\* nothing changes them until the agent has answered.
FreshObservation == agent # "waiting" => bsState = rrc.allow

\* Where the commands take effect at once, a cell that is barred by a
\* heuristic or by the control file has been evicted as well.
EvictedWhenBarred ==
  ~schedule /\ controller # "random heuristic" => rrc.unevicted = {}

\* Of the lines of a prepared file for cell c, the one with the latest
\* timestamp, and of those the last.
FinalStatus(c) ==
  LET lines == {p \in EnergySaving : LineAt(p).cell = c}
      last == CHOOSE p \in lines : \A q \in lines \ {p} :
                \/ LineAt(q).at < LineAt(p).at
                \/ LineAt(q).at = LineAt(p).at /\ Before(q, p)
  IN  LineAt(last).hoAllowed

\* Once every event of a prepared file has run, each cell it commands is in
\* the state of its latest line, unless that came before the cell's first
\* report; and if no line is later than the last, no barred cell is left to be
\* evicted.
ScheduleCarriedOut ==
  schedule /\ controller = "file" /\ nextRead = Never /\ sim = "idle" /\ agenda = <<>> =>
    /\ \A c \in Commanded \ rrc.dropped :
         rrc.allow[c] = IF FinalStatus(c) THEN "allowed" ELSE "barred"
    /\ (\A p \in EnergySaving : LineAt(p).at <= LineAt(LastOf(EnergySaving)).at)
         => rrc.unevicted = {}

\* With semaphores the file is a reliable channel: every batch of the agent is
\* carried out once, in the order it was written.
Channel == INSTANCE ReliableDelivery WITH
  accepted <- IF useSemaphores THEN written ELSE 0,
  delivered <- IF ~useSemaphores THEN 0
               ELSE IF applied = [i \in 1..Len(applied) |-> i]
                    THEN Len(applied) ELSE -1
BatchesArrive == Channel!Spec

\* With semaphores a batch that has been written is carried out and removed,
\* unless a line of it ends the simulation.
EveryBatchApplied ==
  (useSemaphores /\ ~schedule /\ file # <<>>) ~> (file = <<>> \/ ~alive)
=============================================================================
