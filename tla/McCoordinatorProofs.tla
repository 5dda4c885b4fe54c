------------------------ MODULE McCoordinatorProofs ------------------------
(***************************************************************************)
(* Proofs about McCoordinator, for every set of UEs and cells, every SINR  *)
(* range, handover mode and bound.  IndInv is preserved by each action;    *)
(* the safety invariants, two action properties and the refinement of      *)
(* DualConnectivity follow from it.                                        *)
(***************************************************************************)
EXTENDS McCoordinator, TLAPS

(* The best cell is a candidate, or 0 when there is none. *)
LEMMA BestCellType ==
  ASSUME TypeOK, NEW u \in UE, NEW c, IsMaxSinrCell(u, c)
  PROVE  c \in CellOrNone
BY DEF IsMaxSinrCell, Candidates, CellOrNone

(* An event that the coordinator builds is a well-formed event. *)
LEMMA EventType ==
  ASSUME TypeOK, NEW u \in UE, NEW c \in CellOrNone, NEW now \in BOOLEAN
  PROVE  Event(u, c, now) \in [source : CellOrNone, target : CellOrNone,
                               when : {"now", "later"}]
BY DEF TypeOK, Event

LEMMA RequestType ==
  ASSUME TypeOK, NEW u \in UE, NEW c \in CellOrNone
  PROVE  Request(u, c) \in Procedure
BY DEF TypeOK, Request, Procedure

LEMMA AdvanceType ==
  ASSUME TypeOK, NEW p \in x2, NEW stage \in {"running", "lost"},
         Advance(p, stage)
  PROVE  x2' \in SUBSET Procedure
<1>1. [p EXCEPT !.stage = stage] \in Procedure
  BY ZenonT(30) DEF TypeOK, Procedure
<1> QED BY <1>1 DEF TypeOK, Advance

(* Every initial state and every step keeps the types of the variables. *)
LEMMA InitType == Init => TypeOK
BY CellAssumption, ModeAssumption DEF Init, TypeOK, CellOrNone, NoEvent, NoCell, NotSet

LEMMA TriggerType ==
  ASSUME TypeOK, TriggerUeAssociationUpdate
  PROVE  TypeOK'
<1>1. PICK best \in [UE -> CellOrNone], shorter \in [UE -> BOOLEAN] :
        /\ bestCell' = [u \in UE |-> IF Evaluated(u, best[u])
                                     THEN best[u] ELSE bestCell[u]]
        /\ access' = [u \in UE |-> IF ConnectsFirst(u, best[u])
                                   THEN "ordered" ELSE access[u]]
        /\ connectTo' = [u \in UE |-> IF ConnectsFirst(u, best[u])
                                      THEN best[u] ELSE connectTo[u]]
        /\ handoverEvent' =
             [u \in UE |-> EventAfterUpdate(u, best[u], shorter[u])]
        /\ setupCompleted' = [u \in UE |-> IF HandsOverNow(u, best[u])
                                           THEN "pending"
                                           ELSE setupCompleted[u]]
        /\ x2' = x2 \cup {Request(u, best[u]) :
                            u \in {v \in UE : HandsOverNow(v, best[v])}}
        /\ usingLte' = [u \in UE |->
             /\ usingLte[u] \/ FallsBackToLte(u, best[u])
             /\ ~ReturnsToMmWave(u, best[u])]
        /\ pdcpOnMmWave' = [u \in UE |->
             /\ pdcpOnMmWave[u] \/ ReturnsToMmWave(u, best[u])
             /\ ~FallsBackToLte(u, best[u])]
  BY DEF TriggerUeAssociationUpdate
<1>2. bestCell' \in [UE -> CellOrNone \cup {NotSet}]
  BY <1>1 DEF TypeOK
<1>3. access' \in [UE -> {"idle", "connecting", "unassigned", "inOutage",
                          "ordered", "preparing", "connected"}]
  BY <1>1 DEF TypeOK
<1>4. connectTo' \in [UE -> CellOrNone]
  BY <1>1 DEF TypeOK
<1>5. handoverEvent' \in
        [UE -> {NoEvent} \cup [source : CellOrNone, target : CellOrNone,
                               when : {"now", "later"}]]
  <2> SUFFICES ASSUME NEW u \in UE
               PROVE  EventAfterUpdate(u, best[u], shorter[u]) \in
                        {NoEvent} \cup [source : CellOrNone, target : CellOrNone,
                               when : {"now", "later"}]
    BY <1>1
  <2>1. Event(u, best[u], CurrentCellInOutage(u)) \in
          [source : CellOrNone, target : CellOrNone, when : {"now", "later"}]
    BY DEF TypeOK, Event
  <2> QED BY <2>1 DEF EventAfterUpdate, TypeOK
<1>6. setupCompleted' \in [UE -> {"absent", "pending", "completed"}]
  BY <1>1 DEF TypeOK
<1>7. x2' \in SUBSET Procedure
  BY <1>1, RequestType DEF TypeOK
<1>8. usingLte' \in [UE -> BOOLEAN] /\ pdcpOnMmWave' \in [UE -> BOOLEAN]
  BY <1>1
<1> QED BY <1>2, <1>3, <1>4, <1>5, <1>6, <1>7, <1>8
        DEF TypeOK, TriggerUeAssociationUpdate, radioVars

LEMMA EvictType ==
  ASSUME TypeOK, EvictUsersFromSecondaryCell
  PROVE  TypeOK'
<1> DEFINE evicted == {u \in UE : MustLeave(u)}
<1>1. PICK best \in [UE -> CellOrNone], late \in SUBSET evicted :
        /\ handoverEvent' =
             [u \in UE |-> IF u \in evicted
                           THEN Event(u, best[u], u \notin late)
                           ELSE handoverEvent[u]]
        /\ bestCell' =
             [u \in UE |-> IF u \in evicted THEN best[u] ELSE bestCell[u]]
  BY DEF EvictUsersFromSecondaryCell
<1>2. bestCell' \in [UE -> CellOrNone \cup {NotSet}]
  BY <1>1 DEF TypeOK
<1>3. handoverEvent' \in
        [UE -> {NoEvent} \cup [source : CellOrNone, target : CellOrNone,
                               when : {"now", "later"}]]
  BY <1>1, EventType DEF TypeOK
<1> QED BY <1>2, <1>3
        DEF TypeOK, EvictUsersFromSecondaryCell, CountChange, radioVars

LEMMA StepType == TypeOK /\ [Next]_vars => TypeOK'
<1> SUFFICES ASSUME TypeOK, [Next]_vars PROVE TypeOK'
  OBVIOUS
<1>1. ASSUME NEW c \in Cell, DoRecvUeSinrUpdate(c) PROVE TypeOK'
  <2>1. PICK reported \in SUBSET UE : \E value \in [reported -> Sinr] :
          sinr' = [u \in UE |-> IF u \in reported
                                THEN [sinr[u] EXCEPT ![c] = value[u]]
                                ELSE sinr[u]]
    BY <1>1 DEF DoRecvUeSinrUpdate
  <2>2. sinr' \in [UE -> [Cell -> Sinr \cup {NoSinr}]]
    BY <2>1 DEF TypeOK
  <2>3. changes' \in Nat /\ allowHandoverTo' \in [Cell -> {"untracked", "allowed", "barred"}]
    BY <1>1 DEF TypeOK, DoRecvUeSinrUpdate, CountChange
  <2> QED BY <1>1, <2>2, <2>3 DEF TypeOK, DoRecvUeSinrUpdate, ueVars
<1>2. ASSUME NEW c \in Cell, NEW hoAllowed \in BOOLEAN,
             SetSecondaryCellHandoverAllowedStatus(c, hoAllowed)
      PROVE  TypeOK'
  BY <1>2 DEF TypeOK, SetSecondaryCellHandoverAllowedStatus, CountChange, ueVars
<1>3. CASE TriggerUeAssociationUpdate
  BY <1>3, TriggerType
<1>4. ASSUME NEW u \in UE, PerformHandover(u) PROVE TypeOK'
  <2>1. handoverEvent[u].target \in CellOrNone
    BY <1>4 DEF PerformHandover, TypeOK
  <2>2. Request(u, handoverEvent[u].target) \in Procedure
    BY <2>1, RequestType
  <2> QED BY <1>4, <2>2, SMTT(30) DEF TypeOK, PerformHandover, OrderHandover, radioVars
<1>5. CASE EvictUsersFromSecondaryCell
  BY <1>5, EvictType
<1>6. ASSUME NEW u \in UE, NEW target \in Cell,
             ControlMessageReceivedCallback(u, target)
      PROVE  TypeOK'
  BY <1>6 DEF TypeOK, ControlMessageReceivedCallback, TakeUeHoControl,
              CountChange, radioVars
<1>7. ASSUME NEW u \in UE, NEW target \in Cell, ReadTsAction(u, target)
      PROVE  TypeOK'
  BY <1>6, <1>7 DEF ReadTsAction
<1>8. ASSUME NEW u \in UE, ReadTsActionUnknownImsi(u) PROVE TypeOK'
  <2>1. alive' \in BOOLEAN
    BY <1>8, Zenon DEF ReadTsActionUnknownImsi
  <2>2. changes' \in Nat
    BY <1>8 DEF TypeOK, ReadTsActionUnknownImsi, CountChange
  <2> QED BY <1>8, <2>1, <2>2
          DEF TypeOK, ReadTsActionUnknownImsi, radioVars, ueVars
<1>9. ASSUME NEW command \in steering, PerformHandoverToTargetCell(command)
      PROVE  TypeOK'
  <2>1. command.imsi \in UE /\ command.target \in CellOrNone
    BY DEF TypeOK, CellOrNone
  <2>2. Request(command.imsi, command.target) \in Procedure
    BY <2>1, RequestType
  <2> QED BY <1>9, <2>1, <2>2
          DEF TypeOK, PerformHandoverToTargetCell, OrderHandover, radioVars
<1>10. ASSUME NEW u \in UE, RecvRrcConnectionRequest(u) PROVE TypeOK'
  BY <1>10 DEF TypeOK, RecvRrcConnectionRequest, radioVars
<1>11. ASSUME NEW u \in UE, SwitchToConnectedNormally(u) PROVE TypeOK'
  <2>1. access' \in [UE -> {"idle", "connecting", "unassigned", "inOutage",
                            "ordered", "preparing", "connected"}]
    <3>1. \/ access' = [access EXCEPT ![u] = "unassigned"]
          \/ access' = [access EXCEPT ![u] = "ordered"]
          \/ access' = [access EXCEPT ![u] = "inOutage"]
      BY <1>11, Zenon DEF SwitchToConnectedNormally
    <3> QED BY <3>1 DEF TypeOK
  <2>2. connectTo' \in [UE -> CellOrNone]
    BY <1>11 DEF TypeOK, SwitchToConnectedNormally, CellOrNone
  <2>3. usingLte' \in [UE -> BOOLEAN]
    BY <1>11 DEF TypeOK, SwitchToConnectedNormally
  <2> QED BY <1>11, <2>1, <2>2, <2>3
          DEF TypeOK, SwitchToConnectedNormally, radioVars
<1>12. ASSUME NEW u \in UE, RecvRrcSecondaryCellInitialAccessSuccessful(u)
       PROVE  TypeOK'
  BY <1>12 DEF TypeOK, RecvRrcSecondaryCellInitialAccessSuccessful, radioVars,
               CellOrNone
<1>13. ASSUME NEW u \in UE, RecvRrcConnectionReconfigurationCompleted(u)
       PROVE  TypeOK'
  BY <1>13 DEF TypeOK, RecvRrcConnectionReconfigurationCompleted, ServeOn,
               radioVars
<1>14. ASSUME NEW p \in x2, DoRecvMcHandoverRequest(p) PROVE TypeOK'
  <2>1. alive' \in BOOLEAN
    BY <1>14, Zenon DEF TypeOK, DoRecvMcHandoverRequest
  <2>2. x2' \in SUBSET Procedure
    <3>1. x2' = x2 \/ Advance(p, "running")
      BY <1>14, Zenon DEF DoRecvMcHandoverRequest
    <3> QED BY <3>1, AdvanceType DEF TypeOK
  <2> QED BY <1>14, <2>1, <2>2
          DEF TypeOK, DoRecvMcHandoverRequest, radioVars, ueVars
<1>15. ASSUME NEW p \in x2, DoRecvHandoverRequestRefused(p) PROVE TypeOK'
  BY <1>15 DEF TypeOK, DoRecvHandoverRequestRefused, Advance, Procedure,
               radioVars, ueVars
<1>16. ASSUME NEW p \in x2, RecvSecondaryCellHandoverCompleted(p) PROVE TypeOK'
  <2>1. p.imsi \in UE /\ p.to \in CellOrNone
    BY DEF TypeOK, Procedure
  <2> QED BY <1>16, <2>1 DEF TypeOK, RecvSecondaryCellHandoverCompleted,
                             ServeOn, radioVars
<1>17. CASE Aborted
  BY <1>17 DEF Aborted, TypeOK, vars, radioVars, ueVars
<1>18. CASE UNCHANGED vars
  BY <1>18 DEF TypeOK, vars, radioVars, ueVars
<1> QED BY <1>1, <1>2, <1>3, <1>4, <1>5, <1>6, <1>7, <1>8, <1>9, <1>10,
           <1>11, <1>12, <1>13, <1>14, <1>15, <1>16, <1>17, <1>18 DEF Next

(* The state of the coordinator always has its declared types. *)
THEOREM TypeCorrect == Spec => []TypeOK
BY InitType, StepType, PTL DEF Spec

-----------------------------------------------------------------------------
(* The inductive invariant.                                                *)

LEMMA InitInv == Init => IndInv
<1> SUFFICES ASSUME Init PROVE IndInv
  OBVIOUS
<1>1. TypeOK
  BY InitType
<1>2. CellsAgree /\ PathAgrees /\ EventHasServingCell /\ PreparedCell
  BY CellAssumption DEF Init, CellsAgree, PathAgrees, EventHasServingCell,
     PreparedCell, NoCell
<1>3. /\ HandoverExclusive /\ RequestFromServingCell /\ ProcedureOfConnected
      /\ AcceptedTarget
  BY DEF Init, HandoverExclusive, RequestFromServingCell, Procedures,
     ProcedureOfConnected, AcceptedTarget
<1> QED BY <1>1, <1>2, <1>3 DEF IndInv

(* Reports, bars and commands that only wait to be carried out touch nothing *)
(* the invariant speaks of.                                                *)
LEMMA UntouchedInv ==
  ASSUME IndInv, TypeOK',
         UNCHANGED <<setupCompleted, usingLte, lastCell, handoverEvent, access,
                     mmWaveCell, pdcpOnMmWave, x2>>
  PROVE  IndInv'
BY DEF IndInv, HandoverExclusive, RequestFromServingCell, CellsAgree,
       PathAgrees, EventHasServingCell, ProcedureOfConnected, AcceptedTarget,
       PreparedCell, Procedures

(* The lock: an order leaves for a connected UE in no handover, and takes it. *)
LEMMA OrderInv ==
  ASSUME IndInv, NEW u \in UE, NEW target \in CellOrNone,
         OrderHandover(u, target), UNCHANGED <<lastCell, access>>
  PROVE  /\ HandoverExclusive' /\ RequestFromServingCell'
         /\ ProcedureOfConnected' /\ AcceptedTarget'
<1>1. CASE setupCompleted[u] # "completed"
  BY <1>1 DEF IndInv, OrderHandover, HandoverExclusive, RequestFromServingCell,
     ProcedureOfConnected, AcceptedTarget, Procedures
<1>2. CASE setupCompleted[u] = "completed"
  <2> DEFINE r == Request(u, target)
  <2>1. /\ x2' = x2 \cup {r}
        /\ setupCompleted' = [setupCompleted EXCEPT ![u] = "pending"]
    BY <1>2 DEF OrderHandover
  <2>2. r.imsi = u /\ r.from = lastCell[u] /\ r.stage = "requested"
    BY DEF Request
  <2>3. access[u] = "connected" /\ Procedures(u) = {}
    BY <1>2 DEF IndInv, HandoverExclusive
  <2>4. HandoverExclusive'
    <3> SUFFICES ASSUME NEW v \in UE
                 PROVE  /\ \A p, q \in Procedures(v)' : p = q
                        /\ setupCompleted'[v] = "completed"
                             <=> /\ access'[v] = "connected"
                                 /\ Procedures(v)' = {}
      BY DEF HandoverExclusive
    <3>1. CASE v = u
      <4>1. Procedures(u)' = {r}
        BY <2>1, <2>2, <2>3 DEF Procedures
      <4>2. setupCompleted'[u] = "pending"
        BY <2>1 DEF IndInv, TypeOK
      <4> QED BY <3>1, <4>1, <4>2
    <3>2. CASE v # u
      <4>1. Procedures(v)' = Procedures(v)
        BY <2>1, <2>2, <3>2 DEF Procedures
      <4>2. setupCompleted'[v] = setupCompleted[v]
        BY <2>1, <3>2 DEF IndInv, TypeOK
      <4> QED BY <4>1, <4>2 DEF IndInv, HandoverExclusive
    <3> QED BY <3>1, <3>2
  <2>5. RequestFromServingCell'
    BY <2>1, <2>2 DEF IndInv, RequestFromServingCell
  <2>6. ProcedureOfConnected' /\ AcceptedTarget'
    BY <2>1, <2>2, <2>3 DEF IndInv, ProcedureOfConnected, AcceptedTarget
  <2> QED BY <2>4, <2>5, <2>6
<1> QED BY <1>1, <1>2

(* What the pass over the UEs may decide about one of them. *)
LEMMA HandsOverFree ==
  ASSUME NEW u, NEW best, HandsOverNow(u, best)
  PROVE  setupCompleted[u] = "completed"
BY DEF HandsOverNow, Movable

LEMMA ConnectsUnconnected ==
  ASSUME NEW u, NEW best, ConnectsFirst(u, best)
  PROVE  access[u] = "inOutage"
BY DEF ConnectsFirst

LEMMA SchedulesConnected ==
  ASSUME IndInv, NEW u \in UE, NEW best, NEW shorter,
         Schedules(u, best, shorter)
  PROVE  access[u] = "connected"
BY DEF Schedules, Triggering, Movable, IndInv, HandoverExclusive

LEMMA FallbackOrReturn ==
  ASSUME NEW u, NEW best
  PROVE  /\ FallsBackToLte(u, best) => ~usingLte[u]
         /\ ReturnsToMmWave(u, best) => usingLte[u]
BY DEF FallsBackToLte, ReturnsToMmWave

(* The periodic update, for all UEs at once. *)
LEMMA TriggerInv ==
  ASSUME IndInv, TypeOK', TriggerUeAssociationUpdate
  PROVE  IndInv'
<1>1. PICK best \in [UE -> CellOrNone], shorter \in [UE -> BOOLEAN] :
        /\ access' = [u \in UE |-> IF ConnectsFirst(u, best[u])
                                   THEN "ordered" ELSE access[u]]
        /\ handoverEvent' =
             [u \in UE |-> EventAfterUpdate(u, best[u], shorter[u])]
        /\ setupCompleted' = [u \in UE |-> IF HandsOverNow(u, best[u])
                                           THEN "pending"
                                           ELSE setupCompleted[u]]
        /\ x2' = x2 \cup {Request(u, best[u]) :
                            u \in {v \in UE : HandsOverNow(v, best[v])}}
        /\ usingLte' = [u \in UE |->
             /\ usingLte[u] \/ FallsBackToLte(u, best[u])
             /\ ~ReturnsToMmWave(u, best[u])]
        /\ pdcpOnMmWave' = [u \in UE |->
             /\ pdcpOnMmWave[u] \/ ReturnsToMmWave(u, best[u])
             /\ ~FallsBackToLte(u, best[u])]
  BY DEF TriggerUeAssociationUpdate
<1>2. UNCHANGED <<lastCell, mmWaveCell>>
  BY DEF TriggerUeAssociationUpdate
<1> DEFINE moved == {v \in UE : HandsOverNow(v, best[v])}
<1>3. \A u \in UE : access[u] = "connected" <=> access'[u] = "connected"
  BY <1>1, ConnectsUnconnected
<1>4. \A u \in moved : access[u] = "connected" /\ Procedures(u) = {}
  BY HandsOverFree DEF IndInv, HandoverExclusive
<1>5. \A p \in x2' : \/ p \in x2
                     \/ /\ p.imsi \in moved /\ p.stage = "requested"
                        /\ p = Request(p.imsi, best[p.imsi])
  BY <1>1 DEF Request
<1>6. HandoverExclusive'
  <2> SUFFICES ASSUME NEW u \in UE
               PROVE  /\ \A p, q \in Procedures(u)' : p = q
                      /\ setupCompleted'[u] = "completed"
                           <=> /\ access'[u] = "connected"
                               /\ Procedures(u)' = {}
    BY DEF HandoverExclusive
  <2>1. CASE u \in moved
    <3>1. Procedures(u)' = {Request(u, best[u])}
      <4>1. Request(u, best[u]) \in Procedures(u)'
        BY <1>1, <2>1 DEF Procedures, Request
      <4>2. ASSUME NEW p \in Procedures(u)' PROVE p = Request(u, best[u])
        BY <4>2, <1>4, <1>5, <2>1 DEF Procedures
      <4> QED BY <4>1, <4>2
    <3>2. setupCompleted'[u] = "pending"
      BY <1>1, <2>1
    <3> QED BY <3>1, <3>2
  <2>2. CASE u \notin moved
    <3>1. Procedures(u)' = Procedures(u)
      BY <1>1, <1>5, <2>2 DEF Procedures
    <3>2. setupCompleted'[u] = setupCompleted[u]
      BY <1>1, <2>2
    <3> QED BY <3>1, <3>2, <1>3 DEF IndInv, HandoverExclusive
  <2> QED BY <2>1, <2>2
<1>7. RequestFromServingCell' /\ AcceptedTarget' /\ ProcedureOfConnected'
  <2>1. ASSUME NEW p \in x2'
        PROVE  /\ p.from = lastCell[p.imsi]
               /\ p.stage # "requested" => p.to \in Cell \ {p.from}
               /\ access'[p.imsi] = "connected"
    <3>1. CASE p \in x2
      <4>1. p.imsi \in UE
        BY <3>1 DEF IndInv, TypeOK, Procedure
      <4> QED BY <3>1, <4>1, <1>3 DEF IndInv, RequestFromServingCell,
              AcceptedTarget, ProcedureOfConnected
    <3>2. CASE p \notin x2
      BY <3>2, <1>5, <1>3, <1>4 DEF Request
    <3> QED BY <3>1, <3>2
  <2> QED BY <2>1, <1>2 DEF RequestFromServingCell, AcceptedTarget,
          ProcedureOfConnected
<1>8. CellsAgree'
  BY <1>2, <1>3 DEF IndInv, CellsAgree
<1>9. PathAgrees'
  <2> SUFFICES ASSUME NEW u \in UE, access'[u] = "connected"
               PROVE  pdcpOnMmWave'[u] = ~usingLte'[u]
    BY DEF PathAgrees
  <2>1. pdcpOnMmWave[u] = ~usingLte[u]
    BY <1>3 DEF IndInv, PathAgrees
  <2>2. usingLte'[u] = (/\ usingLte[u] \/ FallsBackToLte(u, best[u])
                        /\ ~ReturnsToMmWave(u, best[u]))
    BY <1>1
  <2>3. pdcpOnMmWave'[u] = (/\ pdcpOnMmWave[u] \/ ReturnsToMmWave(u, best[u])
                            /\ ~FallsBackToLte(u, best[u]))
    BY <1>1
  <2>4. usingLte[u] \in BOOLEAN
    BY DEF IndInv, TypeOK
  <2> QED BY <2>1, <2>2, <2>3, <2>4, FallbackOrReturn
<1>10. EventHasServingCell'
  <2> SUFFICES ASSUME NEW u \in UE, handoverEvent'[u] # NoEvent
               PROVE  lastCell[u] \in Cell
    BY <1>2 DEF EventHasServingCell
  <2>1. CASE Schedules(u, best[u], shorter[u])
    BY <2>1, SchedulesConnected DEF IndInv, CellsAgree
  <2>2. CASE ~Schedules(u, best[u], shorter[u])
    <3>1. handoverEvent'[u] \in {NoEvent, handoverEvent[u]}
      BY <1>1, <2>2 DEF EventAfterUpdate
    <3> QED BY <3>1 DEF IndInv, EventHasServingCell
  <2> QED BY <2>1, <2>2
<1>11. PreparedCell'
  BY <1>1, <1>2 DEF IndInv, PreparedCell
<1> QED BY <1>6, <1>7, <1>8, <1>9, <1>10, <1>11 DEF IndInv

(* Eviction only replaces events, and only of UEs with a serving cell. *)
LEMMA EvictInv ==
  ASSUME IndInv, TypeOK', EvictUsersFromSecondaryCell
  PROVE  IndInv'
<1>1. UNCHANGED <<setupCompleted, usingLte, lastCell, access, mmWaveCell,
                  pdcpOnMmWave, x2>>
  BY DEF EvictUsersFromSecondaryCell
<1>2. EventHasServingCell'
  <2> SUFFICES ASSUME NEW u \in UE, handoverEvent'[u] # NoEvent
               PROVE  lastCell[u] \in Cell
    BY <1>1 DEF EventHasServingCell
  <2>1. CASE MustLeave(u)
    BY <2>1 DEF MustLeave
  <2>2. CASE ~MustLeave(u)
    <3>1. handoverEvent'[u] = handoverEvent[u]
      BY <2>2 DEF EvictUsersFromSecondaryCell
    <3> QED BY <3>1 DEF IndInv, EventHasServingCell
  <2> QED BY <2>1, <2>2
<1> QED BY <1>1, <1>2 DEF IndInv, HandoverExclusive, RequestFromServingCell,
        CellsAgree, PathAgrees, ProcedureOfConnected, AcceptedTarget,
        PreparedCell, Procedures

(* An event fires: an order at most, from the serving cell. *)
LEMMA PerformInv ==
  ASSUME IndInv, TypeOK', NEW u \in UE, PerformHandover(u)
  PROVE  IndInv'
<1>1. handoverEvent[u].target \in CellOrNone
  BY DEF PerformHandover, IndInv, TypeOK
<1>2. UNCHANGED <<usingLte, lastCell, access, mmWaveCell, pdcpOnMmWave>>
  BY DEF PerformHandover
<1>3. /\ HandoverExclusive' /\ RequestFromServingCell'
      /\ ProcedureOfConnected' /\ AcceptedTarget'
  <2>1. CASE OrderHandover(u, handoverEvent[u].target)
    BY <2>1, <1>1, <1>2, OrderInv
  <2>2. CASE UNCHANGED <<x2, setupCompleted>>
    BY <2>2, <1>2 DEF IndInv, HandoverExclusive, RequestFromServingCell,
       ProcedureOfConnected, AcceptedTarget, Procedures
  <2> QED BY <2>1, <2>2 DEF PerformHandover
<1>4. EventHasServingCell'
  <2>1. handoverEvent' = [handoverEvent EXCEPT ![u] = NoEvent]
    BY DEF PerformHandover
  <2> QED BY <2>1, <1>2 DEF IndInv, TypeOK, EventHasServingCell
<1>5. CellsAgree' /\ PathAgrees' /\ PreparedCell'
  BY <1>2 DEF IndInv, CellsAgree, PathAgrees, PreparedCell
<1> QED BY <1>3, <1>4, <1>5 DEF IndInv

LEMMA SteeringInv ==
  ASSUME IndInv, TypeOK', NEW command \in steering,
         PerformHandoverToTargetCell(command)
  PROVE  IndInv'
<1>1. command.imsi \in UE /\ command.target \in CellOrNone
  BY DEF IndInv, TypeOK, CellOrNone
<1>2. UNCHANGED <<usingLte, lastCell, handoverEvent, access, mmWaveCell,
                  pdcpOnMmWave>>
  BY DEF PerformHandoverToTargetCell
<1>3. /\ HandoverExclusive' /\ RequestFromServingCell'
      /\ ProcedureOfConnected' /\ AcceptedTarget'
  BY <1>1, <1>2, OrderInv DEF PerformHandoverToTargetCell
<1> QED BY <1>2, <1>3 DEF IndInv, CellsAgree, PathAgrees, PreparedCell,
        EventHasServingCell

(* The first access of a UE: nothing is handed over before it ends. *)
LEMMA NoProcedureBeforeConnected ==
  ASSUME IndInv, NEW u \in UE, access[u] # "connected"
  PROVE  Procedures(u) = {}
BY DEF IndInv, ProcedureOfConnected, Procedures

LEMMA AccessInv ==
  ASSUME IndInv, TypeOK', NEW u \in UE,
         access[u] \notin {"preparing", "connected"},
         \E state \in {"connecting", "unassigned", "inOutage", "ordered"} :
           access' = [access EXCEPT ![u] = state],
         \/ UNCHANGED setupCompleted
         \/ setupCompleted' = [setupCompleted EXCEPT ![u] = "pending"],
         \/ UNCHANGED usingLte
         \/ usingLte' = [usingLte EXCEPT ![u] = TRUE],
         UNCHANGED <<lastCell, handoverEvent, mmWaveCell, pdcpOnMmWave, x2>>
  PROVE  IndInv'
<1>1. \A v \in UE : access'[v] \in {"preparing", "connected"}
                      => v # u /\ access'[v] = access[v]
  BY DEF IndInv, TypeOK
<1>2. \A v \in UE : v # u => /\ access'[v] = access[v]
                             /\ setupCompleted'[v] = setupCompleted[v]
                             /\ usingLte'[v] = usingLte[v]
  BY DEF IndInv, TypeOK
<1>3. lastCell[u] \notin Cell
  BY DEF IndInv, CellsAgree
<1>4. setupCompleted'[u] # "completed" /\ access'[u] # "connected"
  BY DEF IndInv, TypeOK, HandoverExclusive
<1>5. \A v \in UE : Procedures(v)' = Procedures(v)
  BY DEF Procedures
<1>6. HandoverExclusive'
  BY <1>2, <1>4, <1>5, NoProcedureBeforeConnected
  DEF IndInv, HandoverExclusive
<1>7. ProcedureOfConnected'
  <2> SUFFICES ASSUME NEW p \in x2 PROVE access'[p.imsi] = "connected"
    BY DEF ProcedureOfConnected
  <2>1. p.imsi \in UE /\ access[p.imsi] = "connected"
    BY DEF IndInv, TypeOK, Procedure, ProcedureOfConnected
  <2> QED BY <2>1, <1>2
<1>8. CellsAgree'
  BY <1>1, <1>2, <1>3 DEF IndInv, CellsAgree
<1>9. PathAgrees' /\ PreparedCell'
  BY <1>1, <1>2 DEF IndInv, PathAgrees, PreparedCell
<1> QED BY <1>6, <1>7, <1>8, <1>9 DEF IndInv, RequestFromServingCell,
        AcceptedTarget, EventHasServingCell

LEMMA InitialAccessInv ==
  ASSUME IndInv, TypeOK', NEW u \in UE,
         RecvRrcSecondaryCellInitialAccessSuccessful(u)
  PROVE  IndInv'
<1>1. /\ access[u] = "ordered"
      /\ access' = [access EXCEPT ![u] = "preparing"]
      /\ mmWaveCell' = [mmWaveCell EXCEPT ![u] = connectTo[u]]
      /\ connectTo[u] \in Cell
      /\ UNCHANGED <<setupCompleted, usingLte, lastCell, handoverEvent,
                     pdcpOnMmWave, x2>>
  BY DEF RecvRrcSecondaryCellInitialAccessSuccessful
<1>2. \A v \in UE : v # u => /\ access'[v] = access[v]
                             /\ mmWaveCell'[v] = mmWaveCell[v]
  BY <1>1 DEF IndInv, TypeOK
<1>3. access'[u] = "preparing" /\ mmWaveCell'[u] \in Cell
  BY <1>1 DEF IndInv, TypeOK
<1>4. \A v \in UE : Procedures(v)' = Procedures(v)
  BY <1>1 DEF Procedures
<1>5. HandoverExclusive'
  BY <1>1, <1>2, <1>3, <1>4 DEF IndInv, HandoverExclusive
<1>6. ProcedureOfConnected'
  <2> SUFFICES ASSUME NEW p \in x2 PROVE access'[p.imsi] = "connected"
    BY <1>1 DEF ProcedureOfConnected
  <2>1. p.imsi \in UE /\ access[p.imsi] = "connected"
    BY DEF IndInv, TypeOK, Procedure, ProcedureOfConnected
  <2> QED BY <2>1, <1>1, <1>2
<1>7. CellsAgree'
  BY <1>1, <1>2, <1>3 DEF IndInv, CellsAgree
<1>8. PathAgrees' /\ PreparedCell'
  BY <1>1, <1>2, <1>3 DEF IndInv, PathAgrees, PreparedCell
<1> QED BY <1>1, <1>5, <1>6, <1>7, <1>8 DEF IndInv, RequestFromServingCell,
        AcceptedTarget, EventHasServingCell

(* The bearers switch to the cell the UE has reached: first connection. *)
LEMMA ConnectedInv ==
  ASSUME IndInv, TypeOK', NEW u \in UE,
         RecvRrcConnectionReconfigurationCompleted(u)
  PROVE  IndInv'
<1>1. /\ access[u] = "preparing"
      /\ access' = [access EXCEPT ![u] = "connected"]
      /\ lastCell' = [lastCell EXCEPT ![u] = mmWaveCell[u]]
      /\ setupCompleted' = [setupCompleted EXCEPT ![u] = "completed"]
      /\ usingLte' = [usingLte EXCEPT ![u] = FALSE]
      /\ pdcpOnMmWave' = [pdcpOnMmWave EXCEPT ![u] = TRUE]
      /\ UNCHANGED <<handoverEvent, mmWaveCell, x2>>
  BY DEF RecvRrcConnectionReconfigurationCompleted, ServeOn
<1>2. \A v \in UE : v # u => /\ access'[v] = access[v]
                             /\ lastCell'[v] = lastCell[v]
                             /\ setupCompleted'[v] = setupCompleted[v]
                             /\ usingLte'[v] = usingLte[v]
                             /\ pdcpOnMmWave'[v] = pdcpOnMmWave[v]
  BY <1>1 DEF IndInv, TypeOK
<1>3. /\ access'[u] = "connected" /\ lastCell'[u] = mmWaveCell[u]
      /\ setupCompleted'[u] = "completed" /\ usingLte'[u] = FALSE
      /\ pdcpOnMmWave'[u] = TRUE
  BY <1>1 DEF IndInv, TypeOK
<1>4. mmWaveCell[u] \in Cell
  BY <1>1 DEF IndInv, PreparedCell
<1>5. \A v \in UE : Procedures(v)' = Procedures(v)
  BY <1>1 DEF Procedures
<1>6. Procedures(u) = {}
  BY <1>1, NoProcedureBeforeConnected
<1>7. HandoverExclusive'
  BY <1>2, <1>3, <1>5, <1>6 DEF IndInv, HandoverExclusive
<1>8. \A p \in x2 : p.imsi \in UE \ {u}
  BY <1>6 DEF IndInv, TypeOK, Procedure, Procedures
<1>9. RequestFromServingCell' /\ AcceptedTarget' /\ ProcedureOfConnected'
  BY <1>1, <1>2, <1>8 DEF IndInv, RequestFromServingCell, AcceptedTarget,
     ProcedureOfConnected
<1>10. CellsAgree'
  BY <1>1, <1>2, <1>3, <1>4 DEF IndInv, CellsAgree
<1>11. PathAgrees' /\ PreparedCell'
  <2>1. ASSUME NEW v \in UE, access'[v] = "connected"
        PROVE  pdcpOnMmWave'[v] = ~usingLte'[v]
    <3>1. CASE v = u
      BY <3>1, <1>3
    <3>2. CASE v # u
      <4>1. pdcpOnMmWave[v] = ~usingLte[v]
        BY <2>1, <3>2, <1>2 DEF IndInv, PathAgrees
      <4> QED BY <3>2, <4>1, <1>2
    <3> QED BY <3>1, <3>2
  <2> QED BY <2>1, <1>1, <1>2, <1>3, <1>4
          DEF IndInv, PathAgrees, PreparedCell
<1>12. EventHasServingCell'
  BY <1>1, <1>2, <1>3, <1>4 DEF IndInv, EventHasServingCell
<1> QED BY <1>7, <1>9, <1>10, <1>11, <1>12 DEF IndInv

(* A procedure moves on; to "running" only if its target is another cell. *)
LEMMA AdvanceInv ==
  ASSUME IndInv, TypeOK', NEW p \in x2, NEW stage \in {"running", "lost"},
         Advance(p, stage), p.to \in Cell \ {p.from},
         UNCHANGED <<setupCompleted, usingLte, lastCell, handoverEvent, access,
                     mmWaveCell, pdcpOnMmWave>>
  PROVE  IndInv'
<1> DEFINE q == [p EXCEPT !.stage = stage]
<1>1. x2' = (x2 \ {p}) \cup {q}
  BY DEF Advance
<1>2. /\ q.imsi = p.imsi /\ q.from = p.from /\ q.to = p.to
      /\ p.imsi \in UE
  BY DEF IndInv, TypeOK, Procedure
<1>3. HandoverExclusive'
  <2> SUFFICES ASSUME NEW v \in UE
               PROVE  /\ \A a, b \in Procedures(v)' : a = b
                      /\ Procedures(v)' = {} <=> Procedures(v) = {}
    BY DEF IndInv, HandoverExclusive
  <2>1. CASE v = p.imsi
    <3>1. Procedures(v) = {p}
      BY <2>1 DEF IndInv, HandoverExclusive, Procedures
    <3>2. Procedures(v)' = {q}
      BY <1>1, <1>2, <2>1, <3>1 DEF Procedures
    <3> QED BY <3>1, <3>2
  <2>2. CASE v # p.imsi
    <3>1. Procedures(v)' = Procedures(v)
      BY <1>1, <1>2, <2>2 DEF Procedures
    <3> QED BY <3>1 DEF IndInv, HandoverExclusive
  <2> QED BY <2>1, <2>2
<1>4. RequestFromServingCell' /\ AcceptedTarget' /\ ProcedureOfConnected'
  BY <1>1, <1>2 DEF IndInv, RequestFromServingCell, AcceptedTarget,
     ProcedureOfConnected
<1> QED BY <1>3, <1>4 DEF IndInv, CellsAgree, PathAgrees, PreparedCell,
        EventHasServingCell

LEMMA RequestedInv ==
  ASSUME IndInv, TypeOK', NEW p \in x2, DoRecvMcHandoverRequest(p)
  PROVE  IndInv'
<1>1. UNCHANGED <<setupCompleted, usingLte, lastCell, handoverEvent, access,
                  mmWaveCell, pdcpOnMmWave>>
  BY DEF DoRecvMcHandoverRequest, ueVars
<1>2. CASE p.to \in Cell /\ p.to # p.from
  <2>1. Advance(p, "running")
    BY <1>2 DEF DoRecvMcHandoverRequest
  <2> QED BY <1>1, <1>2, <2>1, AdvanceInv
<1>3. CASE ~(p.to \in Cell /\ p.to # p.from)
  <2>1. UNCHANGED x2
    BY <1>3 DEF DoRecvMcHandoverRequest
  <2> QED BY <1>1, <2>1, UntouchedInv
<1> QED BY <1>2, <1>3

LEMMA RefusedInv ==
  ASSUME IndInv, TypeOK', NEW p \in x2, DoRecvHandoverRequestRefused(p)
  PROVE  IndInv'
<1>1. p.to \in Cell \ {p.from}
  BY DEF DoRecvHandoverRequestRefused, IndInv, AcceptedTarget
<1>2. /\ Advance(p, "lost")
      /\ UNCHANGED <<setupCompleted, usingLte, lastCell, handoverEvent, access,
                     mmWaveCell, pdcpOnMmWave>>
  BY DEF DoRecvHandoverRequestRefused, ueVars
<1> QED BY <1>1, <1>2, AdvanceInv

(* The handover completes: the UE is served by its target, in no handover. *)
LEMMA CompletedInv ==
  ASSUME IndInv, TypeOK', NEW p \in x2, RecvSecondaryCellHandoverCompleted(p)
  PROVE  IndInv'
<1> DEFINE u == p.imsi
<1>1. /\ u \in UE /\ p.to \in Cell /\ p.to # p.from
      /\ p.from = lastCell[u] /\ access[u] = "connected"
  BY DEF RecvSecondaryCellHandoverCompleted, IndInv, TypeOK, Procedure,
     AcceptedTarget, RequestFromServingCell, ProcedureOfConnected
<1>2. /\ x2' = x2 \ {p}
      /\ mmWaveCell' = [mmWaveCell EXCEPT ![u] = p.to]
      /\ lastCell' = [lastCell EXCEPT ![u] = p.to]
      /\ setupCompleted' = [setupCompleted EXCEPT ![u] = "completed"]
      /\ usingLte' = [usingLte EXCEPT ![u] = FALSE]
      /\ pdcpOnMmWave' = [pdcpOnMmWave EXCEPT ![u] = TRUE]
      /\ UNCHANGED <<handoverEvent, access>>
  BY <1>1 DEF RecvSecondaryCellHandoverCompleted, ServeOn
<1>3. \A v \in UE : v # u => /\ mmWaveCell'[v] = mmWaveCell[v]
                             /\ lastCell'[v] = lastCell[v]
                             /\ setupCompleted'[v] = setupCompleted[v]
                             /\ usingLte'[v] = usingLte[v]
                             /\ pdcpOnMmWave'[v] = pdcpOnMmWave[v]
  BY <1>2 DEF IndInv, TypeOK
<1>4. /\ mmWaveCell'[u] = p.to /\ lastCell'[u] = p.to
      /\ setupCompleted'[u] = "completed" /\ usingLte'[u] = FALSE
      /\ pdcpOnMmWave'[u] = TRUE
  BY <1>1, <1>2 DEF IndInv, TypeOK
<1>5. Procedures(u) = {p}
  BY <1>1 DEF IndInv, HandoverExclusive, Procedures
<1>6. /\ Procedures(u)' = {}
      /\ \A v \in UE : v # u => Procedures(v)' = Procedures(v)
  BY <1>2, <1>5 DEF Procedures
<1>7. HandoverExclusive'
  <2> SUFFICES ASSUME NEW v \in UE
               PROVE  /\ \A a, b \in Procedures(v)' : a = b
                      /\ setupCompleted'[v] = "completed"
                           <=> /\ access'[v] = "connected"
                               /\ Procedures(v)' = {}
    BY DEF HandoverExclusive
  <2>1. CASE v = u
    BY <2>1, <1>1, <1>2, <1>4, <1>6
  <2>2. CASE v # u
    BY <2>2, <1>2, <1>3, <1>6 DEF IndInv, HandoverExclusive
  <2> QED BY <2>1, <2>2
<1>8. \A q \in x2' : q \in x2 /\ q.imsi \in UE \ {u}
  BY <1>2, <1>5 DEF IndInv, TypeOK, Procedure, Procedures
<1>9. RequestFromServingCell' /\ AcceptedTarget' /\ ProcedureOfConnected'
  BY <1>2, <1>3, <1>8 DEF IndInv, RequestFromServingCell, AcceptedTarget,
     ProcedureOfConnected
<1>10. CellsAgree'
  BY <1>1, <1>2, <1>3, <1>4 DEF IndInv, CellsAgree
<1>11. PathAgrees' /\ PreparedCell'
  <2>1. ASSUME NEW v \in UE, access'[v] = "connected"
        PROVE  pdcpOnMmWave'[v] = ~usingLte'[v]
    <3>1. CASE v = u
      BY <3>1, <1>4
    <3>2. CASE v # u
      <4>1. pdcpOnMmWave[v] = ~usingLte[v]
        BY <2>1, <3>2, <1>2 DEF IndInv, PathAgrees
      <4> QED BY <3>2, <4>1, <1>3
    <3> QED BY <3>1, <3>2
  <2> QED BY <2>1, <1>1, <1>2, <1>3, <1>4
          DEF IndInv, PathAgrees, PreparedCell
<1>12. EventHasServingCell'
  BY <1>1, <1>2, <1>3, <1>4 DEF IndInv, EventHasServingCell
<1> QED BY <1>7, <1>9, <1>10, <1>11, <1>12 DEF IndInv

LEMMA StepInv == IndInv /\ [Next]_vars => IndInv'
<1> SUFFICES ASSUME IndInv, [Next]_vars PROVE IndInv'
  OBVIOUS
<1>0. TypeOK'
  BY StepType DEF IndInv
<1>1. ASSUME NEW c \in Cell, DoRecvUeSinrUpdate(c) PROVE IndInv'
  BY <1>0, <1>1, UntouchedInv DEF DoRecvUeSinrUpdate, ueVars
<1>2. ASSUME NEW c \in Cell, NEW hoAllowed \in BOOLEAN,
             SetSecondaryCellHandoverAllowedStatus(c, hoAllowed)
      PROVE  IndInv'
  BY <1>0, <1>2, UntouchedInv DEF SetSecondaryCellHandoverAllowedStatus, ueVars
<1>3. CASE TriggerUeAssociationUpdate
  BY <1>0, <1>3, TriggerInv
<1>4. ASSUME NEW u \in UE, PerformHandover(u) PROVE IndInv'
  BY <1>0, <1>4, PerformInv
<1>5. CASE EvictUsersFromSecondaryCell
  BY <1>0, <1>5, EvictInv
<1>6. ASSUME NEW u \in UE, NEW target \in Cell,
             ControlMessageReceivedCallback(u, target)
      PROVE  IndInv'
  BY <1>0, <1>6, UntouchedInv DEF ControlMessageReceivedCallback
<1>7. ASSUME NEW u \in UE, NEW target \in Cell, ReadTsAction(u, target)
      PROVE  IndInv'
  BY <1>6, <1>7 DEF ReadTsAction
<1>8. ASSUME NEW u \in UE, ReadTsActionUnknownImsi(u) PROVE IndInv'
  BY <1>0, <1>8, UntouchedInv DEF ReadTsActionUnknownImsi, ueVars
<1>9. ASSUME NEW command \in steering, PerformHandoverToTargetCell(command)
      PROVE  IndInv'
  BY <1>0, <1>9, SteeringInv
<1>10. ASSUME NEW u \in UE, RecvRrcConnectionRequest(u) PROVE IndInv'
  BY <1>0, <1>10, AccessInv DEF RecvRrcConnectionRequest
<1>11. ASSUME NEW u \in UE, SwitchToConnectedNormally(u) PROVE IndInv'
  <2>1. /\ access[u] = "connecting"
        /\ UNCHANGED <<setupCompleted, lastCell, handoverEvent, mmWaveCell,
                       pdcpOnMmWave, x2>>
    BY <1>11 DEF SwitchToConnectedNormally
  <2>2. /\ \/ access' = [access EXCEPT ![u] = "unassigned"]
           \/ access' = [access EXCEPT ![u] = "ordered"]
           \/ access' = [access EXCEPT ![u] = "inOutage"]
        /\ \/ UNCHANGED usingLte
           \/ usingLte' = [usingLte EXCEPT ![u] = TRUE]
    BY <1>11, Zenon DEF SwitchToConnectedNormally
  <2> QED BY <1>0, <2>1, <2>2, AccessInv
<1>12. ASSUME NEW u \in UE, RecvRrcSecondaryCellInitialAccessSuccessful(u)
       PROVE  IndInv'
  BY <1>0, <1>12, InitialAccessInv
<1>13. ASSUME NEW u \in UE, RecvRrcConnectionReconfigurationCompleted(u)
       PROVE  IndInv'
  BY <1>0, <1>13, ConnectedInv
<1>14. ASSUME NEW p \in x2, DoRecvMcHandoverRequest(p) PROVE IndInv'
  BY <1>0, <1>14, RequestedInv
<1>15. ASSUME NEW p \in x2, DoRecvHandoverRequestRefused(p) PROVE IndInv'
  BY <1>0, <1>15, RefusedInv
<1>16. ASSUME NEW p \in x2, RecvSecondaryCellHandoverCompleted(p) PROVE IndInv'
  BY <1>0, <1>16, CompletedInv
<1>17. CASE Aborted
  BY <1>0, <1>17, UntouchedInv DEF Aborted, vars, ueVars
<1>18. CASE UNCHANGED vars
  BY <1>0, <1>18, UntouchedInv DEF vars, ueVars
<1> QED BY <1>1, <1>2, <1>3, <1>4, <1>5, <1>6, <1>7, <1>8, <1>9, <1>10,
           <1>11, <1>12, <1>13, <1>14, <1>15, <1>16, <1>17, <1>18 DEF Next

(* IndInv is an invariant of the coordinator. *)
THEOREM Invariance == Spec => []IndInv
BY InitInv, StepInv, PTL DEF Spec

(* A UE is never in two handovers, and m_mmWaveCellSetupCompleted is true     *)
(* exactly for connected UEs in none: the lock that TriggerUeAssociation-    *)
(* Update, PerformHandover and PerformHandoverToTargetCell share works.      *)
THEOREM NeverTwoHandovers == Spec => []HandoverExclusive
<1>1. IndInv => HandoverExclusive
  BY DEF IndInv
<1> QED BY <1>1, Invariance, PTL

(* params.oldCellId of every McHandoverRequest is the serving cell until the *)
(* handover completes.                                                       *)
THEOREM RequestsComeFromServingCell == Spec => []RequestFromServingCell
<1>1. IndInv => RequestFromServingCell
  BY DEF IndInv
<1> QED BY <1>1, Invariance, PTL

(* m_lastMmWaveCell of the RRC and m_mmWaveCellId of the UeManager agree.    *)
THEOREM ServingCellsAgree == Spec => []CellsAgree
<1>1. IndInv => CellsAgree
  BY DEF IndInv
<1> QED BY <1>1, Invariance, PTL

(* The PDCP sends where m_imsiUsingLte says.                                 *)
THEOREM PathsAgree == Spec => []PathAgrees
<1>1. IndInv => PathAgrees
  BY DEF IndInv
<1> QED BY <1>1, Invariance, PTL

(* PerformHandover never fires for a UE without a serving cell.              *)
THEOREM EventsHaveServingCell == Spec => []EventHasServingCell
<1>1. IndInv => EventHasServingCell
  BY DEF IndInv
<1> QED BY <1>1, Invariance, PTL

-----------------------------------------------------------------------------
(* Action properties.                                                      *)

LEMMA BestCellAllowed ==
  ASSUME NEW u \in UE, NEW c \in Cell, IsMaxSinrCell(u, c)
  PROVE  allowHandoverTo[c] = "allowed"
BY CellAssumption DEF IsMaxSinrCell, Candidates, NoCell

LEMMA ScheduleStep == IndInv /\ [Next]_vars => [SchedulesToAllowedCell]_vars
<1> SUFFICES ASSUME IndInv, Next PROVE SchedulesToAllowedCell
  OBVIOUS
<1> SUFFICES ASSUME NEW u \in UE, handoverEvent'[u] # handoverEvent[u],
                    handoverEvent'[u].target \in Cell
             PROVE  allowHandoverTo[handoverEvent'[u].target] = "allowed"
  BY DEF SchedulesToAllowedCell
<1>1. CASE TriggerUeAssociationUpdate
  <2>1. PICK best \in [UE -> CellOrNone], shorter \in [UE -> BOOLEAN] :
          /\ \A v \in UE : IsMaxSinrCell(v, best[v])
          /\ handoverEvent' =
               [v \in UE |-> EventAfterUpdate(v, best[v], shorter[v])]
    BY <1>1 DEF TriggerUeAssociationUpdate
  <2>2. handoverEvent'[u] # NoEvent
    BY CellAssumption DEF NoEvent, NotSet
  <2>3. handoverEvent'[u].target = best[u]
    BY <2>1, <2>2 DEF EventAfterUpdate, Event
  <2> QED BY <2>1, <2>3, BestCellAllowed
<1>2. CASE EvictUsersFromSecondaryCell
  <2>1. PICK best \in [UE -> CellOrNone], late \in SUBSET {v \in UE : MustLeave(v)} :
          /\ \A v \in UE : IsMaxSinrCell(v, best[v])
          /\ handoverEvent' =
               [v \in UE |-> IF v \in {w \in UE : MustLeave(w)}
                             THEN Event(v, best[v], v \notin late)
                             ELSE handoverEvent[v]]
    BY <1>2 DEF EvictUsersFromSecondaryCell
  <2>2. handoverEvent'[u].target = best[u]
    BY <2>1 DEF Event
  <2> QED BY <2>1, <2>2, BestCellAllowed
<1>3. ASSUME NEW v \in UE, PerformHandover(v) PROVE FALSE
  <2>1. handoverEvent' = [handoverEvent EXCEPT ![v] = NoEvent]
    BY <1>3 DEF PerformHandover
  <2>2. handoverEvent'[u] = NoEvent
    BY <2>1 DEF IndInv, TypeOK
  <2> QED BY <2>2, CellAssumption DEF NoEvent, NotSet
<1>4. CASE UNCHANGED handoverEvent
  BY <1>4
<1> QED
  BY <1>1, <1>2, <1>3, <1>4
  DEF Next, DoRecvUeSinrUpdate, SetSecondaryCellHandoverAllowedStatus,
      ControlMessageReceivedCallback, ReadTsAction, ReadTsActionUnknownImsi,
      PerformHandoverToTargetCell, RecvRrcConnectionRequest,
      SwitchToConnectedNormally, RecvRrcSecondaryCellInitialAccessSuccessful,
      RecvRrcConnectionReconfigurationCompleted, DoRecvMcHandoverRequest,
      DoRecvHandoverRequestRefused, RecvSecondaryCellHandoverCompleted,
      Aborted, vars, ueVars

(* The coordinator never schedules a handover to a cell that is barred when  *)
(* it schedules it (it may be when the event fires).                         *)
THEOREM SchedulesOnlyToAllowedCells == Spec => ScheduledToAllowedCell
BY Invariance, ScheduleStep, PTL DEF Spec, ScheduledToAllowedCell

LEMMA ReturnStep == IndInv /\ [Next]_vars => [ReturnsToUsableCell]_vars
<1> SUFFICES ASSUME IndInv, Next PROVE ReturnsToUsableCell
  OBVIOUS
<1> SUFFICES ASSUME NEW u \in UE, usingLte[u], ~usingLte'[u],
                    lastCell'[u] = lastCell[u]
             PROVE  /\ allowHandoverTo[lastCell[u]] = "allowed"
                    /\ sinr[u][lastCell[u]] >= OutageThreshold + 2
  BY DEF ReturnsToUsableCell
<1>1. CASE TriggerUeAssociationUpdate
  <2>1. PICK best \in [UE -> CellOrNone] :
          /\ \A v \in UE : IsMaxSinrCell(v, best[v])
          /\ usingLte' = [v \in UE |->
               /\ usingLte[v] \/ FallsBackToLte(v, best[v])
               /\ ~ReturnsToMmWave(v, best[v])]
    BY <1>1 DEF TriggerUeAssociationUpdate
  <2>2. ReturnsToMmWave(u, best[u])
    BY <2>1
  <2>3. lastCell[u] = best[u] /\ setupCompleted[u] = "completed"
        /\ ~InOutage(u, best[u])
    BY <2>2 DEF ReturnsToMmWave, Movable, Evaluated
  <2>4. best[u] \in Cell
    BY <2>3 DEF IndInv, HandoverExclusive, CellsAgree
  <2>5. allowHandoverTo[best[u]] = "allowed"
    BY <2>1, <2>4, BestCellAllowed
  <2>6. ~(sinr[u][best[u]] < OutageThreshold + 2)
    BY <2>3, <2>4 DEF InOutage, SinrOf
  <2>7. sinr[u][best[u]] \in Int
    <3>1. sinr[u][best[u]] \in Sinr \cup {NoSinr}
      BY <2>4 DEF IndInv, TypeOK
    <3>2. NoSinr \in Int
      BY DEF NoSinr
    <3> QED BY <3>1, <3>2, SinrAssumption
  <2> QED BY <2>3, <2>5, <2>6, <2>7, SinrAssumption
<1>2. ASSUME NEW v \in UE, SwitchToConnectedNormally(v) PROVE FALSE
  <2>1. usingLte' = usingLte \/ usingLte' = [usingLte EXCEPT ![v] = TRUE]
    BY <1>2, Zenon DEF SwitchToConnectedNormally
  <2>2. usingLte'[u]
    BY <2>1 DEF IndInv, TypeOK
  <2> QED BY <2>2
<1>3. ASSUME NEW v \in UE, RecvRrcConnectionReconfigurationCompleted(v)
      PROVE  FALSE
  <2>1. /\ access[v] = "preparing"
        /\ lastCell' = [lastCell EXCEPT ![v] = mmWaveCell[v]]
        /\ usingLte' = [usingLte EXCEPT ![v] = FALSE]
    BY <1>3 DEF RecvRrcConnectionReconfigurationCompleted, ServeOn
  <2>2. u = v
    BY <2>1 DEF IndInv, TypeOK
  <2>3. lastCell'[v] = mmWaveCell[v]
    BY <2>1 DEF IndInv, TypeOK
  <2> QED BY <2>1, <2>2, <2>3 DEF IndInv, PreparedCell, CellsAgree
<1>4. ASSUME NEW p \in x2, RecvSecondaryCellHandoverCompleted(p) PROVE FALSE
  <2>1. /\ p.imsi \in UE /\ p.to # p.from /\ p.from = lastCell[p.imsi]
    BY <1>4 DEF RecvSecondaryCellHandoverCompleted, IndInv, TypeOK, Procedure,
       AcceptedTarget, RequestFromServingCell
  <2>2. /\ lastCell' = [lastCell EXCEPT ![p.imsi] = p.to]
        /\ usingLte' = [usingLte EXCEPT ![p.imsi] = FALSE]
    BY <1>4, <2>1 DEF RecvSecondaryCellHandoverCompleted, ServeOn
  <2>3. u = p.imsi
    BY <2>2 DEF IndInv, TypeOK
  <2> QED BY <2>1, <2>2, <2>3 DEF IndInv, TypeOK
<1>5. CASE UNCHANGED usingLte
  BY <1>5
<1> QED
  BY <1>1, <1>2, <1>3, <1>4, <1>5
  DEF Next, DoRecvUeSinrUpdate, SetSecondaryCellHandoverAllowedStatus,
      PerformHandover, EvictUsersFromSecondaryCell,
      ControlMessageReceivedCallback, ReadTsAction, ReadTsActionUnknownImsi,
      PerformHandoverToTargetCell, RecvRrcConnectionRequest,
      RecvRrcSecondaryCellInitialAccessSuccessful, DoRecvMcHandoverRequest,
      DoRecvHandoverRequestRefused, Aborted, vars, ueVars

(* A UE on LTE that keeps its last cell returns to it only when that cell is *)
(* allowed and two dB clear of the outage threshold.                         *)
THEOREM ReturnsOnlyWithMargin == Spec => ReturnHysteresis
BY Invariance, ReturnStep, PTL DEF Spec, ReturnHysteresis

-----------------------------------------------------------------------------
(* Refinement of DualConnectivity.                                         *)

LEMMA GoalOfProcedure ==
  ASSUME IndInv, NEW p \in x2
  PROVE  Goal[p.imsi] = p.to
<1>1. p.imsi \in UE /\ Procedures(p.imsi) = {p}
  BY DEF IndInv, TypeOK, Procedure, HandoverExclusive, Procedures
<1> QED BY <1>1 DEF Goal

LEMMA GoalOfFree ==
  ASSUME NEW u \in UE, Procedures(u) = {}
  PROVE  Goal[u] = NotSet
BY DEF Goal

LEMMA GoalUnchanged == UNCHANGED x2 => UNCHANGED Goal
BY DEF Goal, Procedures

LEMMA OnlyChoice ==
  ASSUME NEW r
  PROVE  (CHOOSE p \in {r} : TRUE) = r
OBVIOUS

LEMMA InitRefines == Init => DC!Init
<1> SUFFICES ASSUME Init PROVE DC!Init
  OBVIOUS
<1>1. \A u \in UE : Procedures(u) = {}
  BY DEF Init, Procedures
<1>2. Goal = [u \in UE |-> NotSet]
  BY <1>1 DEF Goal
<1> QED BY <1>2 DEF Init, DC!Init, DC!NoCell, DC!NoGoal, NoCell, NotSet

(* Orders, of one UE or of many, are the abstract Order. *)
LEMMA OrderRefines ==
  ASSUME IndInv, IndInv', NEW ordered \in SUBSET UE,
         NEW target \in [ordered -> CellOrNone],
         \A u \in ordered : setupCompleted[u] = "completed",
         x2' = x2 \cup {Request(u, target[u]) : u \in ordered},
         UNCHANGED lastCell
  PROVE  DC!Next
<1>1. \A u \in ordered : lastCell[u] \in Cell /\ Procedures(u) = {}
  BY DEF IndInv, HandoverExclusive, CellsAgree
<1>2. \A u \in ordered : lastCell[u] # DC!NoCell /\ Goal[u] = DC!NoGoal
  BY <1>1, GoalOfFree, CellAssumption DEF DC!NoCell, DC!NoGoal, NotSet
<1>3. ASSUME NEW u \in ordered PROVE Goal'[u] = target[u]
  <2>1. Request(u, target[u]) \in x2' /\ Request(u, target[u]).imsi = u
    BY DEF Request
  <2>2. u \in UE /\ Procedures(u)' = {Request(u, target[u])}
    BY <2>1 DEF IndInv, HandoverExclusive, Procedures
  <2>3. Goal'[u] = (CHOOSE p \in {Request(u, target[u])} : TRUE).to
    BY <2>2 DEF Goal
  <2>4. Request(u, target[u]).to = target[u]
    BY DEF Request
  <2>5. (CHOOSE p \in {Request(u, target[u])} : TRUE) = Request(u, target[u])
    BY OnlyChoice
  <2> QED BY <2>3, <2>4, <2>5
<1>4. ASSUME NEW u \in UE \ ordered PROVE Goal'[u] = Goal[u]
  <2>1. Procedures(u)' = Procedures(u)
    BY DEF Procedures, Request
  <2> QED BY <2>1 DEF Goal
<1>5. Goal' = [u \in UE |-> IF u \in ordered THEN target[u] ELSE Goal[u]]
  BY <1>3, <1>4 DEF Goal
<1>6. target \in [ordered -> Cell \cup {DC!NoCell}]
  BY DEF CellOrNone, NoCell, DC!NoCell
<1>7. DC!Order(ordered)
  BY <1>2, <1>5, <1>6 DEF DC!Order
<1> QED BY <1>7 DEF DC!Next

LEMMA OrderHandoverRefines ==
  ASSUME IndInv, IndInv', NEW u \in UE, NEW target \in CellOrNone,
         OrderHandover(u, target), UNCHANGED lastCell
  PROVE  DC!Next \/ UNCHANGED <<lastCell, Goal>>
<1>1. CASE setupCompleted[u] = "completed"
  <2> DEFINE ordered == {u}
             f == [v \in ordered |-> target]
  <2>1. x2' = x2 \cup {Request(v, f[v]) : v \in ordered}
    BY <1>1 DEF OrderHandover
  <2>2. f \in [ordered -> CellOrNone] /\ ordered \in SUBSET UE
    OBVIOUS
  <2>3. \A v \in ordered : setupCompleted[v] = "completed"
    BY <1>1
  <2> HIDE DEF ordered, f
  <2> QED BY <2>1, <2>2, <2>3, OrderRefines
<1>2. CASE setupCompleted[u] # "completed"
  BY <1>2, GoalUnchanged DEF OrderHandover
<1> QED BY <1>1, <1>2

LEMMA TriggerRefines ==
  ASSUME IndInv, IndInv', TriggerUeAssociationUpdate
  PROVE  DC!Next
<1>1. PICK best \in [UE -> CellOrNone] :
        x2' = x2 \cup {Request(u, best[u]) :
                         u \in {v \in UE : HandsOverNow(v, best[v])}}
  BY DEF TriggerUeAssociationUpdate
<1> DEFINE ordered == {v \in UE : HandsOverNow(v, best[v])}
           target == [v \in ordered |-> best[v]]
<1>2. x2' = x2 \cup {Request(u, target[u]) : u \in ordered}
  BY <1>1
<1>3. target \in [ordered -> CellOrNone] /\ ordered \in SUBSET UE
  OBVIOUS
<1>4. \A u \in ordered : setupCompleted[u] = "completed"
  BY HandsOverFree
<1>5. UNCHANGED lastCell
  BY DEF TriggerUeAssociationUpdate
<1> HIDE DEF ordered, target
<1> QED BY <1>2, <1>3, <1>4, <1>5, OrderRefines

(* The end of the first access is Attach, that of a handover Reach. *)
LEMMA ConnectedRefines ==
  ASSUME IndInv, NEW u \in UE, RecvRrcConnectionReconfigurationCompleted(u)
  PROVE  DC!Next
<1>1. /\ access[u] = "preparing" /\ UNCHANGED x2
      /\ lastCell' = [lastCell EXCEPT ![u] = mmWaveCell[u]]
  BY DEF RecvRrcConnectionReconfigurationCompleted, ServeOn
<1>2. mmWaveCell[u] \in Cell /\ lastCell[u] = DC!NoCell
  BY <1>1 DEF IndInv, TypeOK, PreparedCell, CellsAgree, CellOrNone, NoCell,
     DC!NoCell
<1>3. Goal[u] = DC!NoGoal
  BY <1>1, NoProcedureBeforeConnected, GoalOfFree DEF DC!NoGoal, NotSet
<1>4. DC!Attach(u, mmWaveCell[u])
  BY <1>1, <1>2, <1>3, GoalUnchanged DEF DC!Attach
<1> QED BY <1>2, <1>4 DEF DC!Next

LEMMA CompletedRefines ==
  ASSUME IndInv, NEW p \in x2, RecvSecondaryCellHandoverCompleted(p)
  PROVE  DC!Next
<1> DEFINE u == p.imsi
<1>1. /\ u \in UE /\ p.to \in Cell /\ p.to # p.from
      /\ p.from = lastCell[u]
  BY DEF RecvSecondaryCellHandoverCompleted, IndInv, TypeOK, Procedure,
     AcceptedTarget, RequestFromServingCell
<1>2. /\ x2' = x2 \ {p}
      /\ lastCell' = [lastCell EXCEPT ![u] = p.to]
  BY <1>1 DEF RecvSecondaryCellHandoverCompleted, ServeOn
<1>3. Goal[u] = p.to
  BY GoalOfProcedure
<1>4. Procedures(u) = {p}
  BY <1>1 DEF IndInv, HandoverExclusive, Procedures
<1>5. Procedures(u)' = {}
  BY <1>2, <1>4 DEF Procedures
<1>6. ASSUME NEW v \in UE, v # u PROVE Goal'[v] = Goal[v]
  <2>1. Procedures(v)' = Procedures(v)
    BY <1>2, <1>6 DEF Procedures
  <2> QED BY <2>1 DEF Goal
<1>7. Goal'[u] = DC!NoGoal
  BY <1>1, <1>5 DEF Goal, DC!NoGoal, NotSet
<1>8. Goal' = [Goal EXCEPT ![u] = DC!NoGoal]
  <2>1. /\ Goal = [v \in UE |-> Goal[v]]
        /\ Goal' = [v \in UE |-> Goal'[v]]
    BY DEF Goal
  <2> QED BY <2>1, <1>1, <1>6, <1>7
<1>9. DC!Reach(u)
  BY <1>1, <1>2, <1>3, <1>8 DEF DC!Reach
<1> QED BY <1>1, <1>9 DEF DC!Next

LEMMA AdvanceRefines ==
  ASSUME IndInv, NEW p \in x2, NEW stage, Advance(p, stage)
  PROVE  UNCHANGED Goal
<1> DEFINE q == [p EXCEPT !.stage = stage]
<1>1. x2' = (x2 \ {p}) \cup {q}
  BY DEF Advance
<1>2. q.imsi = p.imsi /\ q.to = p.to /\ p.imsi \in UE
  BY DEF IndInv, TypeOK, Procedure
<1>3. ASSUME NEW v \in UE PROVE Goal'[v] = Goal[v]
  <2>1. CASE v = p.imsi
    <3>1. Procedures(v) = {p}
      BY <2>1 DEF IndInv, HandoverExclusive, Procedures
    <3>2. Procedures(v)' = {q}
      BY <1>1, <1>2, <2>1, <3>1 DEF Procedures
    <3> QED BY <3>1, <3>2, <1>2 DEF Goal
  <2>2. CASE v # p.imsi
    <3>1. Procedures(v)' = Procedures(v)
      BY <1>1, <1>2, <2>2 DEF Procedures
    <3> QED BY <3>1 DEF Goal
  <2> QED BY <2>1, <2>2
<1> QED BY <1>3 DEF Goal

LEMMA StepRefines ==
  IndInv /\ IndInv' /\ [Next]_vars => [DC!Next]_(DC!vars)
<1> SUFFICES ASSUME IndInv, IndInv', [Next]_vars
             PROVE  DC!Next \/ UNCHANGED <<lastCell, Goal>>
  BY DEF DC!vars
<1>1. CASE UNCHANGED <<lastCell, x2>>
  BY <1>1, GoalUnchanged
<1>2. CASE TriggerUeAssociationUpdate
  BY <1>2, TriggerRefines
<1>3. ASSUME NEW u \in UE, PerformHandover(u)
      PROVE  DC!Next \/ UNCHANGED <<lastCell, Goal>>
  <2>1. handoverEvent[u].target \in CellOrNone /\ UNCHANGED lastCell
    BY <1>3 DEF PerformHandover, IndInv, TypeOK
  <2>2. CASE OrderHandover(u, handoverEvent[u].target)
    BY <2>1, <2>2, OrderHandoverRefines
  <2>3. CASE UNCHANGED x2
    BY <2>1, <2>3, GoalUnchanged
  <2> QED BY <1>3, <2>2, <2>3 DEF PerformHandover
<1>4. ASSUME NEW command \in steering, PerformHandoverToTargetCell(command)
      PROVE  DC!Next \/ UNCHANGED <<lastCell, Goal>>
  <2>1. /\ command.imsi \in UE /\ command.target \in CellOrNone
        /\ OrderHandover(command.imsi, command.target) /\ UNCHANGED lastCell
    BY <1>4 DEF PerformHandoverToTargetCell, IndInv, TypeOK, CellOrNone
  <2> QED BY <2>1, OrderHandoverRefines
<1>5. ASSUME NEW u \in UE, RecvRrcConnectionReconfigurationCompleted(u)
      PROVE  DC!Next
  BY <1>5, ConnectedRefines
<1>6. ASSUME NEW p \in x2, DoRecvMcHandoverRequest(p)
      PROVE  UNCHANGED <<lastCell, Goal>>
  BY <1>6, AdvanceRefines, GoalUnchanged DEF DoRecvMcHandoverRequest, ueVars
<1>7. ASSUME NEW p \in x2, DoRecvHandoverRequestRefused(p)
      PROVE  UNCHANGED <<lastCell, Goal>>
  BY <1>7, AdvanceRefines DEF DoRecvHandoverRequestRefused, ueVars
<1>8. ASSUME NEW p \in x2, RecvSecondaryCellHandoverCompleted(p)
      PROVE  DC!Next
  BY <1>8, CompletedRefines
<1> QED
  BY <1>1, <1>2, <1>3, <1>4, <1>5, <1>6, <1>7, <1>8
  DEF Next, DoRecvUeSinrUpdate, SetSecondaryCellHandoverAllowedStatus,
      EvictUsersFromSecondaryCell, ControlMessageReceivedCallback,
      ReadTsAction, ReadTsActionUnknownImsi, RecvRrcConnectionRequest,
      SwitchToConnectedNormally, RecvRrcSecondaryCellInitialAccessSuccessful,
      Aborted, vars, ueVars

(* The coordinator implements DualConnectivity: m_lastMmWaveCell changes     *)
(* only when a UE first attaches or reaches the goal of its one handover.    *)
THEOREM Refinement == Spec => ImplementsDualConnectivity
<1>1. Spec => []IndInv
  BY Invariance
<1> QED BY <1>1, InitRefines, StepRefines, PTL
        DEF Spec, ImplementsDualConnectivity, DC!Spec
=============================================================================
