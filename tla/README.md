# Formal models of the mobility control of the mmWave / O-RAN simulator

This directory holds TLA+ models of the part of the simulator that decides
where a dual-connectivity UE is served and moves it there, of the file through
which an outside agent commands it, of the energy saving of the mmWave cells
and of the acknowledged-mode RLC bearers below; the TLC configurations that
check them; and TLAPS proofs about each. Paths below are relative to the
repository; line numbers refer to this commit.

## 1. The system

The repository is ns-3 with an LTE module extended for dual connectivity, a
mmWave module, an E2 interface to a RIC, energy saving of mmWave cells, and
Python environments that drive it. One LTE cell, the *coordinator*, keeps a UE's
control plane; the UE's data goes over one mmWave cell, or over LTE when every
mmWave cell is in outage.

| Component | Code | State it keeps | Operations | Status |
|---|---|---|---|---|
| Coordinator | `lte-enb-rrc.cc` (4031-4818, 6109-6261, UeManager 1611-2145) | SINR per UE and cell, cells allowed, lock of a handover (`m_mmWaveCellSetupCompleted`), serving and best cell, LTE flag, handover events | SINR update, periodic association update (TTT, threshold, no automatic handover), eviction, traffic steering, first access, fallback, return | modelled: `McCoordinator` |
| X2 handover of a secondary cell | `lte-enb-rrc.cc` (718-980, 1392-1450, 1839-1885, 5157-5516), `epc-x2.cc` | UeManagers of source and target, RNTI maps, forwarding map, messages | request, ack, refusal, path switch, release, timeouts | modelled: `SecondaryHandover` |
| RLC AM | `lte-rlc-am.cc`, `lte-rlc-sequence-number.h` | transmission, transmitted and retransmission buffers with their sizes, ten-bit windows, reception buffer, four timers | transmission opportunity (STATUS, PDU sent again, new PDU), reception of data and STATUS, timer expiry | modelled: `RlcAm` |
| Control inputs | `lte-enb-net-device.cc` (127-660) | control file, two semaphores, schedule, UEs under external control | RIC message; file of energy-saving, steering or both kinds of lines; handshake; scheduled mode | partly: `ControlFile`, and as inputs in `McCoordinator` |
| Energy saving | `mmwave-enb-net-device.cc` (99-204), `energy-heuristic.cc` | state of the cell, its active time, the coordinator's record of it | on/idle/sleep/off, the choice of the cells that stay on | partly: `CellEnergy` |
| UE RRC | `lte-ue-rrc.cc` | cell, RNTI, state | handover command, random access and its end | partly: `SecondaryHandover` |
| mmWave MAC, random access | `mmwave-enb-mac.cc` | non-contention preambles | allocation, use, expiry | partly: `SecondaryHandover` |
| UeManager of a UE's RRC connection | `lte-enb-rrc.cc` | RRC state | connection set-up, reconfiguration, release | partly: its states in the above |
| Dual-connectivity PDCP | `mc-enb-pdcp.cc`, `mc-ue-pdcp.cc` | path, target cell, sequence numbers | switch, send, receive | partly: path and target |
| SINR reporting | `lte-enb-rrc.cc` (3957-4028) | readings per carrier | maximum over the carriers, report | partly: the reports |
| KPM reporting, inter-RAT mode | see section 5 | | | not modelled |
| RL environments, scenarios, plotting, PHY, schedulers, channel, EPC, upstream ns-3 | | | | not modelled |

How they interact. A mmWave cell sends its SINR reports to the coordinator over
X2. The coordinator reschedules its association update for ever and creates
handover events, which fire later. The RIC, the control file and the energy
heuristics call into the coordinator: they bar cells, evict their users, move
single UEs. The coordinator sends `McHandoverRequest` to the serving cell;
from there on source cell, target cell, UE and coordinator exchange messages
until the coordinator records the new cell and releases the old one. The agent
outside the process shares the control file, the state file and two POSIX
semaphores with the LTE device. RLC entities carry the bearers of all of them
over a radio link that loses and reorders.

What is hard about it: several triggers for one UE, with one Boolean as a lock;
events that are scheduled now and used later; the same fact (the serving cell,
the data path, the permission to enter a cell, the state of a cell) in several
records written by different handlers; a handover that is refused, turned away,
lost or late; a UE that returns to a cell it is still leaving; two processes
that take turns over a file; sequence numbers that wrap while PDUs, segments
and their acknowledgements are lost. `PROJECT.json` lists the hazards at their
lines. ns-3 runs one event at a time, so the interleavings inside it are of
events, not of threads: every action of the models is one event handler, run to
its end. Only the agent is a process of its own.

## 2. Modules

- `DualConnectivity` says what mobility promises: a UE has at most one
  serving cell and one goal, and changes cell only by reaching the goal it was
  ordered to. It has three actions and knows no message.
- `McCoordinator` is the coordinator. Each variable is named after the
  member it stands for (the comments at the declarations say which). Its
  actions are the inputs (`DoRecvUeSinrUpdate`,
  `SetSecondaryCellHandoverAllowedStatus`, `ControlMessageReceivedCallback`,
  `ReadTsAction`), the coordinator's own events
  (`TriggerUeAssociationUpdate`, `PerformHandover`,
  `EvictUsersFromSecondaryCell`, `PerformHandoverToTargetCell`), first access,
  and an X2 procedure reduced to accepted, refused and completed. It implements
  `DualConnectivity` with `serving <- lastCell`.
- `EvictionSchedule` opens the eviction of `McCoordinator`: one step per user,
  with the counter of eight bits and the preambles that decide in which slot of
  25 ms it moves. `McCoordinator` knows that at least `FirstSlot` users move now
  and the others later; `FirstSlot` is the size of the first slot here.
- `SecondaryHandover` opens that X2 procedure: the two cells, the UE, its random
  access, the preambles, the forwarding of data, refusals and timeouts. The
  coordinator's reasons for ordering are dropped: it may order whenever its lock
  is open. It implements `DualConnectivity` too.
- `HandoverPhases` defines the phases of such a handover, for the invariant.
- `ReliableDelivery` is the abstract channel: what was accepted is delivered,
  once and in order. `RlcAm` and `ControlFile` both implement it.
- `RlcAm` is one direction of an acknowledged-mode bearer: the sending half of
  one entity, the receiving half of the other, the link in between. The
  branches of `DoNotifyTxOpportunity` are the actions `SendStatus`,
  `Retransmit` and `BuildPdu`; `DoReceivePdu` is `ReceivePdu` and
  `ReceiveStatus`; the four timers are `Expire...`.
- `CellEnergy` has the cell's device, the coordinator's record of the cell and
  the heuristics. `ControlFile` EXTENDS it and composes it with the agent:
  `ReadControlFile` is cut where the two processes can interleave
  (`PostMetrics`, `WaitForControl`, `ReadFile`, `FlushFile`), the lines of the
  file become calls and events (`CarryOutLines`, `RunEvent`).
- `MCCoordinator`, `MCSecondaryHandover`, `MCRlcAm`, `MCControlFile` hold values
  for TLC.
- `RlcAmInvariant` is the inductive invariant of `RlcAm`; it has a module of its
  own so that a run checks what the proofs use.
- `McCoordinatorProofs`, `EvictionScheduleProofs`, `HandoverProofs`,
  `RlcAmProofs`, `RlcAmWindowProofs`, `RlcAmTheorems`, `ControlFileProofs` and
  `ControlFileTheorems` hold the theorems.

### What is abstracted

In `McCoordinator`: SINR in dB is one of a few values around the thresholds of
the code; a duration is `"now"` or `"later"`, and nothing that takes time
happens while something is due now (`TimePasses`); the computation of the time
to trigger is the nondeterministic choice of whether a new event would be
`shorter`; eviction slots are now or later, with at least `FirstSlot` users in
the first; one MC bearer per UE (`SecondaryHandover` has several).

In `SecondaryHandover`: the TEIDs of a UE enter and leave the forwarding map
together; SN status and RLC set-up change nothing the properties see; the
outcome of a radio transmission is a choice. Two facts of timing are
assumed. First, preamble expiry (400 ms) and the 45 s timeouts come only after
the UE's access has failed, in this order. Second, X2 links have the same delay
(one attribute, `X2LinkDelay`), so a release reaches the old cell before any
message of the next handover is delivered (`InTime`). Without the second
assumption TLC finds a release that outlives the UeManager it names: the UE is
ordered back to the cell and fails there, the leaving timeout removes the
UeManager, and the late release, finding none, ends the run.

In `RlcAm`: the bytes of the accepted SDUs are numbered chunks and a PDU is the
sequence of its chunks, from which framing and length fields can be read off;
header sizes are left out, except that an opportunity of size 0 fits a header
only; `m_pollPdu` is 1, as the constructor sets it, so every new PDU asks for a STATUS. Two
facts of timing: a HARQ process delivers or drops its PDU before the window can
come round to the number again (`HarqInTime`), and t-StatusProhibit outlasts
the transmission of a STATUS PDU, so two are never under way and overtake each
other. Without the second TLC finds that an overtaken STATUS acknowledges the
whole window.

In `CellEnergy`: the four modes are the two values the code gives them (`ON` and
`Idle`, `Sleep` and `OFF`); an eviction empties every barred cell, as
`McCoordinator` follows the UEs; positions only order the cells, so any choice
of the cells kept idle may come out. In `ControlFile`: a line is a record and
lines skipped as malformed are left out; the agent adds one batch in its turn;
the read of the file is one step (the simulator does nothing else meanwhile,
and an agent that takes turns does not write); whether a steered UE is in its
new cell already is left open; whether `bsState.txt` can be opened is a constant
(`StateFileOpens`, only `TRUE` in the run). A heuristic runs without semaphores and
schedule: in the scenarios a run has one commander.

Assertions (`NS_ASSERT`) are compiled out of an optimised build, which is the
default here (`CMakeLists.txt:19`): where the code then goes on, so does the
model. Where it dereferences a missing entry or calls `NS_FATAL_ERROR`, the run
ends: `alive` becomes FALSE.

## 3. Runs

| Run | Question | Bounds and why they suffice |
|---|---|---|
| `coordinator_safety` | Do the coordinator's records stay consistent in every mode, does the inductive invariant hold, is the abstract specification implemented? | 1 UE, 2 cells, 4 SINR values (one in each band the code distinguishes), 6 changes of input: enough to attach, fall back, return, be steered and be evicted in any order. The lock and the records are per UE, and the theorems of section 4 cover any number of them. |
| `coordinator_liveness` | Does a UE leave a barred cell, return from LTE, get its first order? | 1 UE, 2 cells, TTT, 5 changes; the changes are finite, so the radio calms down, as the properties need. |
| `coordinator_threshold_access` | The same for first access under THRESHOLD: violated. | 1 UE, 2 cells, 4 changes. |
| `coordinator_stale_event` | Is the assertion of `PerformHandover` true? Violated. | 1 UE, 2 cells, 6 changes. |
| `handover_safety` | Is a settled UE where the coordinator records it, is no handler surprised, does forwarded data lead to the UE, is every UE in a phase? | 2 UEs (symmetric) with 2 bearers, 3 cells of which one refuses, 1 preamble per cell, 4 orders: return to a cell just left, a third cell, refusal, two UEs and one preamble. |
| `handover_liveness` | Does a handover end? | 2 UEs, 2 cells, preambles for both, 3 orders. |
| `handover_failure_report` | Does the coordinator hear of a UE that never arrived? Violated. | 1 UE, 1 order. |
| `rlc_am` | Does the bearer deliver complete, in order and once, do its buffers, sizes and windows stay consistent, and does the inductive invariant of the proofs hold? | 2 SDUs of 3 chunks in PDUs of 1 or 2 chunks, so up to 4 PDUs and more segments; numbers modulo 4 with a window of 2, so they wrap and the window closes; 2 PDUs in flight, so they are reordered; transmission buffer of one SDU, so an SDU is refused; with and without resegmentation; STATUS PDUs with room for 1 or 2 NACKs. |
| `rlc_am_liveness` | Is everything delivered and acknowledged in the end, unless the sender falls silent for good? | The same numbers, SDUs of 2 chunks, without resegmentation. With a window of 2 no state is silent, so the condition costs nothing here; with a window of 4, where it does, these properties are beyond what TLC finishes in minutes. `AsksAgain` says for every window that the lapsed poll is the only way to fall silent. |
| `rlc_am_lapsed_poll` | The same without that condition, as the test suite's documentation says: violated. | Numbers modulo 8, a window of 4, 1 SDU of 3 chunks in 3 PDUs: one is lost, one acknowledged, one waits to be sent again. |
| `rlc_am_resegmentation` | The same with resegmentation: violated. | 1 SDU. |
| `control` | Does the agent see the states it changes, do its batches arrive once and in order, are barred cells evicted, do devices and coordinator agree, is the active time right, is a prepared file carried out? | 3 cells of which 2 stay on; 2 ticks; 2 UEs of which one is attached; 2 batches of at most 2 lines; the SINR heuristic, the random one and the file, each mode of semaphores and schedule. |

`CHECK_DEADLOCK FALSE` stands in the configurations of `SecondaryHandover`,
`RlcAm` and `ControlFile`: when the bounded orders, SDUs or time are used up and
what was under way is over, they rest. `McCoordinator` never rests, its update
recurs.

The inputs are bounded by `MaxChanges` (new SINR values, bars, evictions,
steering), `MaxOrders` (handovers ordered), `MaxSdus` and `MaxInFlight`
(`RlcAm`), `MaxTime`, `MaxLines`, `MaxBatches` and `MaxGoodUes`
(`ControlFile`).

### Fairness

`McCoordinator!FairSpec`: the association update reschedules itself every
`CrtPeriod`; a scheduled event fires; X2 links lose nothing, so a request is
delivered and an accepted handover completes. Nothing is assumed of radio,
RIC, energy saving or first access. A handover that was refused or lost
(`Lost`) is excluded from the properties: `SecondaryHandover` looks at it.

`SecondaryHandover!FairSpec`: for each UE, as long as something is under way (a
message, an access, a timer), one of these events comes. The simulator's queue
guarantees it. Success of an access is not assumed.

`RlcAm!FairSpec`: the scheduler serves an entity that reports data, again and
again with its largest opportunity, and a receiver whose STATUS was reported to
the MAC (`statusReported`: t-Reordering and t-StatusProhibit do not report, and
get no fairness); timers expire. The link is strongly fair for each sequence
number, for segments and for STATUS PDUs: it does not lose every one of them.
This is a finite number of losses in a row, not a bound on it.

`ControlFile!FairSpec`: the simulator runs on, and an agent that has the metrics
answers. An agent that has stopped would leave the simulator in `sem_wait` for
ever, which no code prevents.

### What the violated runs show

Each is a place where the code departs from what it says of itself:
in the THRESHOLD mode the branch for UEs that found every cell in outage can
never be taken (`lte-enb-rrc.cc:4603`); an event scheduled by time to trigger
survives a steering command and fires with a wrong source (`:4401`); the
failure notification of the joining timeout has no receiver (`:5165`,
`epc-x2.cc:590`), so the UE is locked for ever; a bearer with resegmentation,
the default, can repeat a segment for ever although losses have ended, as
nothing asks for the STATUS that would tell what is missing
(`lte-rlc-am.cc:495`, `:2925`), against what the test documentation says of the
lossy channel (`lte-testing.rst:1029`). Without resegmentation it can fall
silent: a poll timer that expires while a PDU waits to be sent again leaves the
poll to that PDU (`:2939`), and when a STATUS acknowledges it before it is sent
(`:2287`), the poll goes with it. No timer runs, the buffer status is empty, and
a PDU lost meanwhile is never repaired.

The models have more such behaviour that has no run of its own, because no
document says otherwise or because it is plain from the code: the loop over the
bearers of a UE records the new target at the first one only (`:2089`); a
handover chosen before a cell was barred still goes there (`:4478`); timestamps
of a prepared file are delays from its reading (`lte-enb-net-device.cc:325`);
the control semaphore keeps the posts of a run that was stopped, and with one
stale post (`StalePosts = 1`) `FreshObservation` does not hold (`:1293`); nor does
it if `bsState.txt` cannot be opened (`StateFileOpens = BOOLEAN`), as the metrics
are posted all the same (`:169`).

## 4. Proofs

Everything is proved for every value of the constants that satisfies the named
assumptions of the module; the bounds of section 3 are constants too.

`McCoordinatorProofs`:

- `Invariance`: `Spec => []IndInv`. The safety invariants are not inductive by
  themselves. `HandoverExclusive` ties the lock to the X2 procedures;
  `RequestFromServingCell` needs it (a second handover would move the UE under
  the first); `CellsAgree` needs to know that a completed procedure had a real
  target other than its source (`AcceptedTarget`), belongs to a connected UE
  (`ProcedureOfConnected`), and that first access prepares bearers in a cell the
  UE has reached (`PreparedCell`); `PathAgrees` needs `CellsAgree`'s account of
  who is connected. `IndInv` is the conjunction, checked by TLC in
  `coordinator_safety`. One lemma per part, one step per action.
- `TypeCorrect`, `NeverTwoHandovers`, `RequestsComeFromServingCell`,
  `ServingCellsAgree`, `PathsAgree`, `EventsHaveServingCell`: its parts.
- `SchedulesOnlyToAllowedCells`, `ReturnsOnlyWithMargin`: action properties.
- `Refinement`: `Spec => DC!Spec`, the coordinator implements
  `DualConnectivity`. The mapped goal is read from the one procedure of a UE;
  `HandoverExclusive` makes it well defined.

`EvictionScheduleProofs`: `SlotsHaveTheirSizes`, `Spec => []SlotSizes`. What a
slot takes depends on where the counter stood when it began, so the invariant
`SlotInv` relates the counter to the users of the last slot in one of three
ways: the first slot (they are equal), a slot that began at a multiple of the
preambles (they differ by it), one in which the counter restarted. Arithmetic
lemmas take each way to its successor (`LastSlotGrows`, `NextSlotBegins`). The
theorem has no run: the counter wraps only after 256 users, and the module has
no bound on them. It shows that the first slot, meant to spare the preambles,
takes exactly twice as many users as there are preambles when there are more
(`lte-enb-rrc.cc:6228` compares with `>`), the next ones as many, and those
after the counter may have restarted at most three times as many.

`HandoverProofs`:

- `AlwaysInPhase`: `Spec => []HandoverInv`. That no handler is surprised cannot
  be shown handler by handler: whether a lookup finds its UeManager depends on
  everything that may be under way. The invariant says that every UE is in one
  of eight phases (unattached, settled, arrived but not released at the old
  cell, preparing, acknowledged, joining, completed, lost), each of which fixes
  the UE's UeManagers, its messages on the X2, its camping, its forwarding and
  the coordinator's record of it. With it go three facts that relate different
  UEs: RNTIs tell the UeManagers of a cell apart (`RntisFresh`), preambles are
  held for joining UEs (`PreamblesAreForJoining`), and one that has arrived has
  freed its own (`ArrivedFreed`). `OthersStay` shows that an action leaves
  the other UEs in their phases; one lemma per handler shows from which phase it
  takes its own UE to which.
- `NeverAborts`, `SettledIsServed`, `ForwardingArrives`, `PreamblesNotLost`,
  `TypesKept`: what follows from the phases.
- `HandoverRefines`: the refinement of `DualConnectivity`. The record of
  the serving cell changes only at the path switch, when the phase says that
  the target is the goal.

They hold for any number of handovers, so they do not depend on what
`MaxOrders` lets TLC see; they do rest on the two assumptions of timing above,
which are guards of the model.

RLC AM is proved for every modulus and every window of at most half of it, any
SDU size, opportunities, and number of SDUs, with and without resegmentation:

- `RlcAmProofs`: `SenderAccountsHold`, `Spec => []SenderAccounts`: the sender is
  at most a window ahead, its buffers hold each number once and between VT(A)
  and VT(S), and the two sizes it reports are those of the buffers. The
  invariant is inductive together with the types of the sender's variables. Its
  lemmas on distances modulo `Modulus` (`DistIs`, `DistNext`, `DistFrom`), on the
  sum that a size is (`SizeOfMoved`), and on how far a STATUS or a timer moves
  VT(A) (`ReceiveStatusPreserves`) serve the next two modules.
- `RlcAmWindowProofs` and `RlcAmTheorems`: `RlcInvHolds`, `Spec => []RlcInv`.
  What relates sender and receiver cannot be said of ten-bit numbers alone: a
  comparison of two of them is right only if both are known to be in a window.
  `RlcInv` therefore speaks of the numbers that never wrap (`nA`, `nR`, `nMs`,
  `nH`, `nX` behind VT(A), VR(R), VR(MS), VR(H), VR(X)). `WindowOrder` orders
  them, and `InTime` (from `HarqInTime`) says that a PDU on its way still means
  the number it was built as. `ReceptionBuffer` says where the receiver holds
  anything. `Contiguous` and `CopiesAgree` say that what the numbers carry is one
  sequence of chunks without a gap, and that every copy of a piece (at the
  sender, in part at the receiver, on its way) is that piece, so that
  reassembly yields the SDUs (`DeliveredSoFar`). `StatusTrue` says that
  a STATUS acknowledges nothing that has not arrived, and to where it will move
  VT(A); it needs that no two are under way. `OldestKept`, `PollsLast` and
  `WillPoll` follow the last poll through the buffers. One lemma per action and
  part.
- From it `RlcTypeOK`, `WindowsAgreeHolds`, `NothingForgottenHolds`,
  `ReceiverOrderHolds`, `AsksAgainHolds` (from `WillPoll`), and the refinement
  `ReliableServiceHolds`: only what `ReceivePdu` delivers changes the abstract
  channel's output, and it delivers whole SDUs in order, each accepted before.

`ControlFileProofs`:

- `ActiveTimesExact`: the active time accumulated by a device is the time it was
  active, from `Clocks` (no change of state lies in the future).
- `DevicesFollowBar`: under a heuristic, devices and coordinator agree, for any
  number of cells; from `BarInv`, which knows the commands that came before a
  cell's first report.
- `ObservationsFresh` and `BatchesDelivered`, assuming `StalePosts = 0`: the two
  semaphores pass one turn between simulator and agent (`Turn`), hence the agent
  sees the states the cells have (if `StateFileOpens = {TRUE}`), and the file implements `ReliableDelivery`: a
  batch is appended only when the file is empty and emptied only after it was
  read (`ChannelInv`).

`ControlFileTheorems`:

- `BestCellsKept`: the SINR heuristic keeps on the cells with the most good UEs.
  The fold over the cells keeps `Best`: the slots hold different cells, and no
  cell left out has more UEs than any slot; with fewer cells offered than there
  are slots one is empty, by counting (`NoSlotEmpty`).
- `ControlTypes`: from `TypeInv`, in which the events of the agenda lie between
  now and the longest delay of the file. Places in the file are ordered by batch
  and line; `RankIs` and `PlacesAre` show that listing them by rank gives each
  place once, without which neither the events nor their types are known.
- `BarredAreEvicted`, assuming `FewLines`: a batch that bars a cell evicts it.
  The code counts the lines in a `uint8_t` (`lte-enb-net-device.cc:288`), so a
  file of 256 energy-saving lines evicts nobody; `FewLines` bounds all lines
  below that.
- `PreparedFileCarriedOut`, assuming `FewLines`, `StalePosts = 0` and
  `MaxTime > 0`: each cell ends in the state of its latest line. The invariant
  `PreparedInv` says that the last event of each cell is pending or carried out,
  and so for the eviction; that `RunEvent` takes the earliest event and, of
  those, the first, keeps it (`EarliestRuns`). With a stale post the
  simulator would read before the agent wrote; with `MaxTime = 0` the run ends
  before the first read and there is nothing to carry out.

Only model-checked: the liveness properties (`LeavesBarredCell`,
`ReturnsFromLte`, `FirstConnectionOrdered`, `HandoverEnds`, `AllDelivered`,
`AllAcknowledged`, `EveryBatchApplied`), as fairness and ENABLED are beyond the
prover. Every invariant and action property and every refinement that a passing
run checks is also a theorem.

## 5. Not modelled

- The packet numbering of the dual-connectivity PDCP: the receiver only
  records the number, and neither discards nor reorders by it.
- The maximum of a UE's SINR over the carriers of a cell
  (`lte-enb-rrc.cc:3957`): it is one more value of the SINR, which is any value
  here. The reports that are empty because a carrier is missing are modelled.
- `EnergyHeuristic::RandomAction`, which nothing calls.
- KPM reporting: formatting and file output behind a subscription flag.
- Single-connectivity handover, re-establishment and carrier aggregation of
  `UeManager`, and the inter-RAT mode, in which a UE has one serving cell and no
  coordinator: a second mobility scheme beside the one studied here.
- Forwarding of RLC buffers at a handover, the CoDel queue of RLC, UM and TM.
- The QoS file of the control inputs, and lines that are skipped as malformed.
- The reinforcement-learning environments beyond their side of the handshake:
  they are the agent of `ControlFile`.
- PHY, HARQ, schedulers, error and channel models: numerical, their outcomes are
  nondeterministic here. EPC, upstream ns-3 modules, the E2 termination:
  upstream, or outside this repository. Scenarios, helpers and plotting: set-up
  code and output.
