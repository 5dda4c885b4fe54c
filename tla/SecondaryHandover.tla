------------------------- MODULE SecondaryHandover -------------------------
(***************************************************************************)
(* The X2 procedure that moves a UE from one mmWave cell to another once   *)
(* the coordinator (the LTE eNB) has ordered it: the UeManagers that the   *)
(* two cells keep for the UE, the random access of the UE, the preamble    *)
(* it needs, the forwarding of its data and the timers that clean up.      *)
(* Source: src/src/lte/model/lte-enb-rrc.cc (UeManager), epc-x2.cc,        *)
(* lte-ue-rrc.cc and src/src/mmwave/model/mmwave-enb-mac.cc.               *)
(*                                                                         *)
(* What is abstracted: a UE's TEIDs are all added to and removed from the  *)
(* forwarding map together; SN STATUS TRANSFER changes no state; signal    *)
(* quality decides whether the random access succeeds; a preamble lives    *)
(* 400 ms and the handover timeouts are 45 s, so preambles expire and      *)
(* timeouts fire, in this order, only for a UE whose access has failed.    *)
(***************************************************************************)
EXTENDS Integers, FiniteSets

CONSTANTS
  UE,            \* the IMSIs
  Cell,          \* the mmWave cell ids
  Admitting,     \* the cells with m_admitHandoverRequest true
  Preambles,     \* non-contention preambles of a cell: 64 - NumberOfRaPreambles
  Bearers,       \* MC bearers of a UE, numbered from 1
  MaxOrders      \* bound on the handovers ordered

NoCell == 0      \* as in DualConnectivity
Lte    == 1      \* the coordinator
NoRnti == 0

ASSUME CellAssumption == Cell \subseteq Nat \ {NoCell, Lte}
ASSUME ConfigAssumption ==
  /\ Admitting \subseteq Cell
  /\ Preambles \in Nat /\ Bearers \in Nat \ {0} /\ MaxOrders \in Nat

VARIABLES
  lastCell,        \* m_lastMmWaveCell of the coordinator
  setupCompleted,  \* m_mmWaveCellSetupCompleted
  pdcpTarget,      \* UeDataParams.targetCellId of each bearer's McEnbPdcp
  ueMap,           \* the UeManagers of the mmWave cells
  imsiRnti,        \* m_imsiRntiMap of each mmWave cell
  lastRnti,        \* m_lastAllocatedRnti of each mmWave cell
  preambles,       \* m_allocatedNcRaPreambleMap: the RNTIs that hold one
  forwardTo,       \* m_teidToBeForwardedMap of each cell
  x2,              \* the messages on the X2 links
  camp,            \* the mmWave RRC of the UE: its cell, RNTI and state
  air,             \* RRC message between the UE and its cells
  ordered,         \* history: the target of the last handover ordered
  alive,           \* FALSE once the simulation has aborted
  orders           \* handovers ordered so far (bounded by MaxOrders)

coordinatorVars == <<lastCell, setupCompleted, pdcpTarget, ordered, orders>>
cellVars == <<ueMap, imsiRnti, lastRnti, preambles, forwardTo>>
ueVars   == <<camp, air>>
vars     == <<coordinatorVars, cellVars, x2, ueVars, alive>>

Rnti == Nat
CellOrNone == Cell \cup {NoCell}

UeManager == [cell : Cell, rnti : Rnti, imsi : UE,
              state : {"connected", "reconfiguration", "preparation",
                       "leaving", "joining", "expired"},
              source : CellOrNone, sourceRnti : Rnti,
              queued : CellOrNone]

\* rnti is the receiver's id of the UE; peer and peerRnti are the other cell's.
Message == [type : {"McHandoverRequest", "HandoverRequest",
                    "HandoverRequestAck", "HandoverPreparationFailure",
                    "SecondaryCellHandoverCompleted", "UeContextRelease",
                    "NotifyCoordinatorHandoverFailed"},
            imsi : UE, at : Cell \cup {Lte}, rnti : Rnti,
            peer : Cell, peerRnti : Rnti]

NoMessage == [type |-> "none", cell |-> NoCell, rnti |-> NoRnti]
RrcMessage == [type : {"command", "completed"}, cell : Cell, rnti : Rnti]

TypeOK ==
  /\ lastCell \in [UE -> CellOrNone]
  /\ setupCompleted \in [UE -> BOOLEAN]
  /\ pdcpTarget \in [UE -> [1 .. Bearers -> CellOrNone]]
  /\ ueMap \subseteq UeManager
  /\ imsiRnti \in [Cell -> [UE -> Rnti]]
  /\ lastRnti \in [Cell -> Rnti]
  /\ preambles \in [Cell -> SUBSET Rnti]
  /\ forwardTo \in [Cell -> [UE -> CellOrNone]]
  /\ x2 \subseteq Message
  /\ camp \in [UE -> [cell : CellOrNone, rnti : Rnti,
                      state : {"idle", "connected", "handover", "failed"}]]
  /\ air \in [UE -> RrcMessage \cup {NoMessage}]
  /\ ordered \in [UE -> CellOrNone]
  /\ alive \in BOOLEAN
  /\ orders \in 0 .. MaxOrders

Init ==
  /\ lastCell = [u \in UE |-> NoCell]
  /\ setupCompleted = [u \in UE |-> FALSE]
  /\ pdcpTarget = [u \in UE |-> [b \in 1 .. Bearers |-> NoCell]]
  /\ ueMap = {}
  /\ imsiRnti = [c \in Cell |-> [u \in UE |-> NoRnti]]
  /\ lastRnti = [c \in Cell |-> NoRnti]
  /\ preambles = [c \in Cell |-> {}]
  /\ forwardTo = [c \in Cell |-> [u \in UE |-> NoCell]]
  /\ x2 = {}
  /\ camp = [u \in UE |-> [cell |-> NoCell, rnti |-> NoRnti,
                           state |-> "idle"]]
  /\ air = [u \in UE |-> NoMessage]
  /\ ordered = [u \in UE |-> NoCell]
  /\ alive = TRUE
  /\ orders = 0

-----------------------------------------------------------------------------
(* Lookups.                                                                *)

Send(type, u, at, rnti, peer, peerRnti) ==
  [type |-> type, imsi |-> u, at |-> at, rnti |-> rnti,
   peer |-> peer, peerRnti |-> peerRnti]

\* GetUeManager: the entries of m_ueMap under one RNTI (one or none).
Managers(c, rnti) == {k \in ueMap : k.cell = c /\ k.rnti = rnti}

Replace(k, new) == ueMap' = (ueMap \ {k}) \cup {new}

\* Takes m from the X2 and sends more.
Exchange(m, sent) == x2' = (x2 \ {m}) \cup sent

\* Every X2 link has the same delay, and the release leaves the coordinator
\* before anything of a later handover does: it is delivered first.
InTime(m) ==
  m.type # "UeContextRelease"
    => \A r \in x2 : r.type = "UeContextRelease" => r.imsi # m.imsi

\* A lookup that finds no UeManager, or a procedure in a state that refuses it,
\* ends the run.
Abort == alive' = FALSE /\ UNCHANGED <<coordinatorVars, cellVars, x2, ueVars>>

-----------------------------------------------------------------------------
(* The coordinator.                                                        *)

\* The first access of the UE, all its steps (McCoordinator has them): the
\* cell keeps a UeManager, connected or still reconfiguring its carriers.
FirstAccess(u, c) ==
  /\ alive
  /\ lastCell[u] = NoCell
  /\ lastRnti' = [lastRnti EXCEPT ![c] = @ + 1]
  /\ imsiRnti' = [imsiRnti EXCEPT ![c][u] = lastRnti[c] + 1]
  /\ \E state \in {"connected", "reconfiguration"} :
       ueMap' = ueMap \cup
         {[cell |-> c, rnti |-> lastRnti[c] + 1, imsi |-> u, state |-> state,
           source |-> NoCell, sourceRnti |-> NoRnti, queued |-> NoCell]}
  /\ camp' = [camp EXCEPT ![u] = [cell |-> c, rnti |-> lastRnti[c] + 1,
                                  state |-> "connected"]]
  /\ lastCell' = [lastCell EXCEPT ![u] = c]
  /\ setupCompleted' = [setupCompleted EXCEPT ![u] = TRUE]
  /\ pdcpTarget' = [pdcpTarget EXCEPT ![u] = [b \in 1 .. Bearers |-> c]]
  /\ UNCHANGED <<preambles, forwardTo, x2, air, ordered, alive, orders>>

\* Plausible mistakes of the guard below: an order while a handover is under
\* way, an order for a UE that has no cell yet.
MayOrderWhileMoving(u) == lastCell[u] # NoCell
MayOrderUnattached(u) == TRUE

\* The UE is associated and no handover of it is under way.
MayOrder(u) == setupCompleted[u]

\* Any of the coordinator's three ways to order a handover, to a real target.
OrderHandover(u, target) ==
  /\ alive
  /\ orders < MaxOrders
  /\ MayOrder(u)
  /\ lastCell[u] # target
  /\ x2' = x2 \cup {Send("McHandoverRequest", u, lastCell[u], NoRnti,
                             target, NoRnti)}
  /\ setupCompleted' = [setupCompleted EXCEPT ![u] = FALSE]
  /\ ordered' = [ordered EXCEPT ![u] = target]
  /\ orders' = orders + 1
  /\ UNCHANGED <<lastCell, pdcpTarget, cellVars, ueVars, alive>>

\* The target tells that the UE has arrived.  The loop over the bearers records
\* the new cell at the first one, after which no other looks different.
DoRecvSecondaryCellHandoverCompleted(m) ==
  /\ alive /\ m.type = "SecondaryCellHandoverCompleted" /\ InTime(m)
  /\ lastCell' = [lastCell EXCEPT ![m.imsi] = m.peer]
  /\ IF lastCell[m.imsi] # m.peer
     THEN /\ setupCompleted' = [setupCompleted EXCEPT ![m.imsi] = TRUE]
          /\ pdcpTarget' = [pdcpTarget EXCEPT ![m.imsi][1] = m.peer]
     ELSE UNCHANGED <<setupCompleted, pdcpTarget>>
  /\ Exchange(m, {Send("UeContextRelease", m.imsi, lastCell[m.imsi], m.rnti,
                       m.peer, m.peerRnti)})
  /\ UNCHANGED <<cellVars, ueVars, ordered, alive, orders>>

\* The dispatcher has no branch for this procedure: the message is dropped.
RecvUnsupportedProcedure(m) ==
  /\ alive /\ m.type = "NotifyCoordinatorHandoverFailed"
  /\ Exchange(m, {})
  /\ UNCHANGED <<coordinatorVars, cellVars, ueVars, alive>>

-----------------------------------------------------------------------------
(* The source cell.                                                        *)

Request(k, target) ==
  Send("HandoverRequest", k.imsi, target, NoRnti, k.cell, k.rnti)

\* The request of the coordinator, which a UeManager that still reconfigures
\* its carriers postpones.
PrepareHandover(m, k) ==
  IF k.state = "connected"
  THEN /\ Replace(k, [k EXCEPT !.state = "preparation"])
       /\ Exchange(m, {Request(k, m.peer)})
  ELSE /\ Replace(k, [k EXCEPT !.queued = m.peer])
       /\ Exchange(m, {})

DoRecvMcHandoverRequest(m) ==
  /\ alive /\ m.type = "McHandoverRequest" /\ InTime(m)
  /\ LET known == Managers(m.at, imsiRnti[m.at][m.imsi]) IN
       \/ /\ \/ known = {}
             \/ \E k \in known : k.state \in {"preparation", "leaving"}
          /\ Abort
       \/ \E k \in known :
            /\ k.state \notin {"preparation", "leaving"}
            /\ PrepareHandover(m, k)
            /\ UNCHANGED <<coordinatorVars, imsiRnti, lastRnti, preambles,
                           forwardTo, ueVars, alive>>

\* A plausible mistake of the action below: the postponed handover is forgotten.
RecvReconfigurationCompletedForgets(k) ==
  /\ alive /\ k.state = "reconfiguration"
  /\ Replace(k, [k EXCEPT !.state = "connected"])
  /\ UNCHANGED <<coordinatorVars, imsiRnti, lastRnti, preambles, forwardTo, x2,
                 ueVars, alive>>

\* The carriers are reconfigured; a postponed handover is prepared now.
RecvReconfigurationCompletedAtSource(k) ==
  /\ alive /\ k.state = "reconfiguration"
  /\ IF k.queued = NoCell
     THEN Replace(k, [k EXCEPT !.state = "connected"]) /\ UNCHANGED x2
     ELSE /\ Replace(k, [k EXCEPT !.state = "preparation"])
          /\ x2' = x2 \cup {Request(k, k.queued)}
  /\ UNCHANGED <<coordinatorVars, imsiRnti, lastRnti, preambles, forwardTo,
                 ueVars, alive>>

\* The target has admitted the UE: the source commands it to go, forwards its
\* data (an entry already in the map is kept) and waits for the release.
RecvHandoverRequestAck(m, k) ==
  /\ Replace(k, [k EXCEPT !.state = "leaving"])
  /\ air' = [air EXCEPT ![k.imsi] = [type |-> "command", cell |-> m.peer,
                                     rnti |-> m.peerRnti]]
  /\ IF forwardTo[k.cell][k.imsi] = NoCell
     THEN forwardTo' = [forwardTo EXCEPT ![k.cell][k.imsi] = m.peer]
     ELSE UNCHANGED forwardTo
  /\ Exchange(m, {})

DoRecvHandoverRequestAck(m) ==
  /\ alive /\ m.type = "HandoverRequestAck" /\ InTime(m)
  /\ LET known == Managers(m.at, m.rnti) IN
       \/ known = {} /\ Abort
       \/ \E k \in known :
            /\ RecvHandoverRequestAck(m, k)
            /\ UNCHANGED <<coordinatorVars, imsiRnti, lastRnti, preambles,
                           camp, alive>>

\* The target has refused; the coordinator is not told.
RecvHandoverPreparationFailure(m, k) ==
  /\ IF k.state = "preparation"
     THEN Replace(k, [k EXCEPT !.state = "connected"])
     ELSE UNCHANGED ueMap
  /\ Exchange(m, {})

DoRecvHandoverPreparationFailure(m) ==
  /\ alive /\ m.type = "HandoverPreparationFailure" /\ InTime(m)
  /\ LET known == Managers(m.at, m.rnti) IN
       \/ /\ \A k \in known : k.state \notin {"preparation", "leaving"}
          /\ Abort
       \/ \E k \in known :
            /\ k.state \in {"preparation", "leaving"}
            /\ RecvHandoverPreparationFailure(m, k)
            /\ UNCHANGED <<coordinatorVars, imsiRnti, lastRnti, preambles,
                           forwardTo, ueVars, alive>>

\* A plausible mistake of the operator below: the TEIDs stay forwarded.
RecvUeContextReleaseKeepsTeids(m, k) ==
  /\ ueMap' = ueMap \ {k}
  /\ Exchange(m, {})
  /\ UNCHANGED forwardTo

\* The coordinator releases the source: no more forwarding, no UeManager.
RecvUeContextRelease(m, k) ==
  /\ forwardTo' = [forwardTo EXCEPT ![k.cell][k.imsi] = NoCell]
  /\ ueMap' = ueMap \ {k}
  /\ Exchange(m, {})

\* The TEIDs must be in the forwarding map: erasing them otherwise is undefined.
DoRecvUeContextRelease(m) ==
  /\ alive /\ m.type = "UeContextRelease"
  /\ LET known == Managers(m.at, m.rnti) IN
       \/ /\ \A k \in known : forwardTo[k.cell][k.imsi] = NoCell
          /\ Abort
       \/ \E k \in known :
            /\ forwardTo[k.cell][k.imsi] # NoCell
            /\ RecvUeContextRelease(m, k)
            /\ UNCHANGED <<coordinatorVars, imsiRnti, lastRnti, preambles,
                           ueVars, alive>>

\* Neither release nor re-establishment: the UeManager is destroyed, but its
\* TEIDs stay in the forwarding map.
HandoverLeavingTimeout(k) ==
  /\ alive /\ k.state = "leaving"
  /\ camp[k.imsi].state = "failed"
  /\ ueMap' = ueMap \ {k}
  /\ UNCHANGED <<coordinatorVars, imsiRnti, lastRnti, preambles, forwardTo, x2,
                 ueVars, alive>>

-----------------------------------------------------------------------------
(* The target cell.                                                        *)

\* A plausible mistake of the operator below: the first RNTI is never replaced.
RegisterImsiToRntiOnce(c, u, rnti) ==
  imsiRnti' = IF imsiRnti[c][u] = NoRnti THEN [imsiRnti EXCEPT ![c][u] = rnti]
                                         ELSE imsiRnti

RegisterImsiToRnti(c, u, rnti) == imsiRnti' = [imsiRnti EXCEPT ![c][u] = rnti]

\* Refused by configuration; for lack of a preamble, with no answer at all; or
\* admitted, with a new RNTI and a preamble.
DoRecvHandoverRequest(m) ==
  /\ alive /\ m.type = "HandoverRequest" /\ InTime(m)
  /\ \/ /\ m.at \notin Admitting
        /\ Exchange(m, {Send("HandoverPreparationFailure", m.imsi, m.peer,
                             m.peerRnti, m.at, NoRnti)})
        /\ UNCHANGED <<ueMap, imsiRnti, lastRnti, preambles>>
     \/ /\ m.at \in Admitting
        /\ Cardinality(preambles[m.at]) >= Preambles
        /\ lastRnti' = [lastRnti EXCEPT ![m.at] = @ + 1]
        /\ Exchange(m, {})
        /\ UNCHANGED <<ueMap, imsiRnti, preambles>>
     \/ /\ m.at \in Admitting
        /\ Cardinality(preambles[m.at]) < Preambles
        /\ LET rnti == lastRnti[m.at] + 1 IN
             /\ lastRnti' = [lastRnti EXCEPT ![m.at] = rnti]
             /\ preambles' = [preambles EXCEPT ![m.at] = @ \cup {rnti}]
             /\ RegisterImsiToRnti(m.at, m.imsi, rnti)
             /\ ueMap' = ueMap \cup
                  {[cell |-> m.at, rnti |-> rnti, imsi |-> m.imsi,
                    state |-> "joining", source |-> m.peer,
                    sourceRnti |-> m.peerRnti, queued |-> NoCell]}
             /\ Exchange(m, {Send("HandoverRequestAck", m.imsi, m.peer,
                                  m.peerRnti, m.at, rnti)})
  /\ UNCHANGED <<coordinatorVars, forwardTo, ueVars, alive>>

\* The UE has arrived: the path switch goes to the coordinator.
RecvRrcConnectionReconfigurationCompleted(k) ==
  /\ alive /\ air[k.imsi] = [type |-> "completed", cell |-> k.cell, rnti |-> k.rnti]
  /\ k.state = "joining"
  /\ air' = [air EXCEPT ![k.imsi] = NoMessage]
  /\ LET completed == Send("SecondaryCellHandoverCompleted", k.imsi, Lte,
                           k.sourceRnti, k.cell, k.rnti)
     IN  IF k.queued = NoCell
         THEN /\ Replace(k, [k EXCEPT !.state = "connected"])
              /\ x2' = x2 \cup {completed}
         ELSE /\ Replace(k, [k EXCEPT !.state = "preparation"])
              /\ x2' = x2 \cup {completed, Request(k, k.queued)}
  /\ UNCHANGED <<coordinatorVars, imsiRnti, lastRnti, preambles, forwardTo,
                 camp, alive>>

\* The UE has not come: the coordinator is notified, the removal scheduled.
HandoverJoiningTimeout(k) ==
  /\ alive /\ k.state = "joining"
  /\ camp[k.imsi].state = "failed"
  /\ k.rnti \notin preambles[k.cell]
  /\ Replace(k, [k EXCEPT !.state = "expired"])
  /\ x2' = x2 \cup {Send("NotifyCoordinatorHandoverFailed", k.imsi, Lte,
                         NoRnti, k.cell, k.rnti)}
  /\ UNCHANGED <<coordinatorVars, imsiRnti, lastRnti, preambles, forwardTo,
                 ueVars, alive>>

\* The removal scheduled 300 ms after the timeout.
RemoveUe(k) ==
  /\ alive /\ k.state = "expired"
  /\ ueMap' = ueMap \ {k}
  /\ UNCHANGED <<coordinatorVars, imsiRnti, lastRnti, preambles, forwardTo, x2,
                 ueVars, alive>>

\* A preamble nobody used expires and may be given to another UE.
PreambleExpires(k) ==
  /\ alive /\ k.rnti \in preambles[k.cell]
  /\ camp[k.imsi].state = "failed"
  /\ preambles' = [preambles EXCEPT ![k.cell] = @ \ {k.rnti}]
  /\ UNCHANGED <<coordinatorVars, ueMap, imsiRnti, lastRnti, forwardTo, x2,
                 ueVars, alive>>

-----------------------------------------------------------------------------
(* The UE.                                                                 *)

\* The command moves the mmWave RRC of the UE to the target, where it starts a
\* non-contention random access.
DoRecvRrcConnectionReconfiguration(u) ==
  /\ alive /\ air[u].type = "command"
  /\ IF camp[u].state = "connected"
     THEN /\ camp' = [camp EXCEPT ![u] = [cell |-> air[u].cell,
                                          rnti |-> air[u].rnti,
                                          state |-> "handover"]]
          /\ air' = [air EXCEPT ![u] = NoMessage]
          /\ UNCHANGED <<coordinatorVars, cellVars, x2, alive>>
     ELSE Abort

\* The signal of the source is lost before the command reaches the UE.
HandoverCommandLost(u) ==
  /\ alive /\ air[u].type = "command"
  /\ camp' = [camp EXCEPT ![u].state = "failed"]
  /\ air' = [air EXCEPT ![u] = NoMessage]
  /\ UNCHANGED <<coordinatorVars, cellVars, x2, alive>>

\* A plausible mistake of the action below: the preamble is not freed.
DoNotifyRandomAccessSuccessfulKeeps(u) ==
  /\ alive /\ camp[u].state = "handover"
  /\ camp' = [camp EXCEPT ![u].state = "connected"]
  /\ air' = [air EXCEPT ![u] = [type |-> "completed", cell |-> camp[u].cell,
                                rnti |-> camp[u].rnti]]
  /\ UNCHANGED <<coordinatorVars, cellVars, x2, alive>>

\* The target hears the preamble, which it frees, and answers.
DoNotifyRandomAccessSuccessful(u) ==
  /\ alive /\ camp[u].state = "handover"
  /\ camp' = [camp EXCEPT ![u].state = "connected"]
  /\ preambles' = [preambles EXCEPT ![camp[u].cell] = @ \ {camp[u].rnti}]
  /\ air' = [air EXCEPT ![u] = [type |-> "completed", cell |-> camp[u].cell,
                                rnti |-> camp[u].rnti]]
  /\ UNCHANGED <<coordinatorVars, ueMap, imsiRnti, lastRnti, forwardTo, x2,
                 alive>>

\* Only a trace: the re-establishment is not implemented.
DoNotifyRandomAccessFailed(u) ==
  /\ alive /\ camp[u].state = "handover"
  /\ camp' = [camp EXCEPT ![u].state = "failed"]
  /\ UNCHANGED <<coordinatorVars, cellVars, x2, air, alive>>

-----------------------------------------------------------------------------
Of(u, set) == {e \in set : e.imsi = u}

ReceiveX2(u) ==
  \/ \E m \in Of(u, x2) : DoRecvMcHandoverRequest(m)
  \/ \E m \in Of(u, x2) : DoRecvHandoverRequest(m)
  \/ \E m \in Of(u, x2) : DoRecvHandoverRequestAck(m)
  \/ \E m \in Of(u, x2) : DoRecvHandoverPreparationFailure(m)
  \/ \E m \in Of(u, x2) : DoRecvSecondaryCellHandoverCompleted(m)
  \/ \E m \in Of(u, x2) : DoRecvUeContextRelease(m)
  \/ \E m \in Of(u, x2) : RecvUnsupportedProcedure(m)

ReceiveRrc(u) ==
  \/ \E k \in Of(u, ueMap) : RecvReconfigurationCompletedAtSource(k)
  \/ \E k \in Of(u, ueMap) : RecvRrcConnectionReconfigurationCompleted(k)
  \/ DoRecvRrcConnectionReconfiguration(u)
  \/ HandoverCommandLost(u)
  \/ DoNotifyRandomAccessSuccessful(u)
  \/ DoNotifyRandomAccessFailed(u)

Timeout(u) ==
  \/ \E k \in Of(u, ueMap) : HandoverLeavingTimeout(k)
  \/ \E k \in Of(u, ueMap) : HandoverJoiningTimeout(k)
  \/ \E k \in Of(u, ueMap) : RemoveUe(k)
  \/ \E k \in Of(u, ueMap) : PreambleExpires(k)

\* What the network does by itself, once a handover of the UE is ordered.
Proceed(u) == ReceiveX2(u) \/ ReceiveRrc(u) \/ Timeout(u)

Next ==
  \/ \E u \in UE, c \in Cell : FirstAccess(u, c)
  \/ \E u \in UE, c \in Cell : OrderHandover(u, c)
  \/ \E u \in UE : Proceed(u)

Spec == Init /\ [][Next]_vars

\* The simulator runs each event it has scheduled: as long as a UE has a message
\* under way, an access or a timer, one of them comes.
FairSpec == Spec /\ \A u \in UE : WF_vars(Proceed(u))

-----------------------------------------------------------------------------
(* Properties.                                                             *)

\* No handler finds a UeManager missing, in a state that refuses its message or
\* without its TEIDs: the lock of the coordinator keeps the two halves of a
\* handover, its timers and the late release of the one before apart.
NoAbort == alive

\* The UE the coordinator takes for settled is where it records it: the cell
\* serves it with a UeManager under the RNTI that it looks an order up by, the
\* UE camps there under the same RNTI, and the data of its first bearer goes
\* there (the loop over the bearers leaves the others behind).
ServedWhereRecorded ==
  \A u \in UE : setupCompleted[u] =>
    LET c == lastCell[u] IN
      /\ camp[u] = [cell |-> c, rnti |-> imsiRnti[c][u], state |-> "connected"]
      /\ \E k \in Managers(c, imsiRnti[c][u]) :
           k.imsi = u /\ k.state \in {"connected", "reconfiguration"}
      /\ pdcpTarget[u][1] = c

\* Data that a cell forwards reaches a cell that knows the UE, unless the UE was
\* lost on its way: neither a refusal nor the next handover leaves an entry.
ForwardsToUe ==
  \A c \in Cell, u \in UE :
    forwardTo[c][u] # NoCell =>
      \/ camp[u].state = "failed"
      \/ \E k \in ueMap : k.cell = forwardTo[c][u] /\ k.imsi = u

\* A preamble is held for a UE on its way: neither two UEs nor one that gave up
\* and was removed hold one, so a cell that rests has all of them to give.
PreamblesAreForJoining ==
  \A c \in Cell :
    \A r \in preambles[c] : \E k \in Managers(c, r) : k.state = "joining"

DC == INSTANCE DualConnectivity
  WITH serving <- lastCell,
       goal <- [u \in UE |-> IF lastCell[u] # NoCell /\ ~setupCompleted[u]
                             THEN ordered[u] ELSE -1]

\* The two cells and the messages between them do for every UE what a
\* dual-connectivity deployment promises: one serving cell, one goal, reached
\* before it is replaced, also when the target refuses or the UE is lost.
ImplementsDualConnectivity == DC!Spec

\* A handover ends: the coordinator may order the next one, unless the UE was
\* lost on its way.  Only true when targets admit and have a preamble.
HandoverEnds ==
  \A u \in UE :
    lastCell[u] # NoCell ~> (setupCompleted[u] \/ camp[u].state = "failed")

\* What the comment at the joining timeout says, "notify the LTE eNB
\* (coordinator) of the failure": the coordinator stops waiting for the UE.
FailureReported ==
  \A u \in UE :
    (\E k \in ueMap : k.imsi = u /\ k.state = "expired") ~> setupCompleted[u]
=============================================================================
