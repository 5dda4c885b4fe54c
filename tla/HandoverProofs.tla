--------------------------- MODULE HandoverProofs ---------------------------
(***************************************************************************)
(* Theorems about SecondaryHandover, for any UEs, cells, preambles,        *)
(* bearers and number of handovers.  The invariant is the one of           *)
(* HandoverPhases; one lemma shows that an action leaves the other UEs in  *)
(* their phases, one per handler to which phase it takes its own UE.       *)
(***************************************************************************)
EXTENDS HandoverPhases, TLAPS

LEMMA Constants ==
  /\ Cell \subseteq Nat /\ NoCell \notin Cell /\ Lte \notin Cell
  /\ NoCell \in CellOrNone /\ Cell \subseteq CellOrNone
  /\ Bearers \in Nat /\ 1 \in 1 .. Bearers /\ MaxOrders \in Nat
BY CellAssumption, ConfigAssumption DEF CellOrNone, NoCell, Lte

-----------------------------------------------------------------------------
(* The other UEs.                                                          *)

\* Nothing that belongs to UE v changes.
Untouched(v) ==
  /\ Managed(v)' = Managed(v) /\ Pending(v)' = Pending(v)
  /\ camp'[v] = camp[v] /\ air'[v] = air[v]
  /\ lastCell'[v] = lastCell[v] /\ setupCompleted'[v] = setupCompleted[v]
  /\ ordered'[v] = ordered[v] /\ pdcpTarget'[v] = pdcpTarget[v]
  /\ \A c \in Cell : imsiRnti'[c][v] = imsiRnti[c][v] /\ forwardTo'[c][v] = forwardTo[c][v]

LEMMA OthersStay ==
  ASSUME TypeOK, NEW v \in UE, InPhase(v), Untouched(v)
  PROVE  InPhase(v)'
<1>. USE DEF Untouched
<1>0. \A k \in Managed(v) : k.cell \in Cell
  BY DEF Managed, Of, TypeOK, UeManager
<1>1. ASSUME NEW k \in Managed(v), Serves(k, v) PROVE Serves(k, v)'
  BY <1>0, <1>1 DEF Serves
<1>2. ASSUME NEW k, NEW state, At(v, k, state) PROVE At(v, k, state)'
  BY <1>2 DEF At
<1>3. ASSUME NEW k, NEW type, Hears(v, type, k) PROVE Hears(v, type, k)'
  BY <1>3 DEF Hears
<1>4. Quiet(v) => Quiet(v)'
  BY DEF Quiet
<1>5. ASSUME NEW a, NEW b, Forwards(v, a, b) PROVE Forwards(v, a, b)'
  BY <1>5 DEF Forwards
<1>6. NoForwarding(v) => NoForwarding(v)'
  BY <1>5 DEF NoForwarding
<1>7. Moving(v) => Moving(v)'
  BY DEF Moving
<1>8. ASSUME NEW k \in Managed(v), Resting(v, k) PROVE Resting(v, k)'
  BY <1>1, <1>2, <1>4, <1>7, <1>8 DEF Resting
<1>9. Orders(v)' = Orders(v)
  BY DEF Orders, Send
<1>10. ASSUME NEW k \in Managed(v), NEW j \in Managed(v), Admitted(v, k, j)
       PROVE  Admitted(v, k, j)'
  BY <1>0, <1>1, <1>7, <1>10 DEF Admitted
<1>11. CASE Unattached(v)
  BY <1>4, <1>6, <1>11 DEF Unattached, InPhase
<1>12. CASE Settled(v)
  BY <1>6, <1>8, <1>9, <1>12 DEF Settled, InPhase
<1>13. CASE Arrived(v)
  BY <1>5, <1>8, <1>9, <1>13 DEF Arrived, InPhase, Release
<1>14. CASE Preparing(v)
  BY <1>1, <1>2, <1>4, <1>6, <1>7, <1>14 DEF Preparing, InPhase, Refusal
<1>15. CASE Acknowledged(v)
  BY <1>2, <1>4, <1>6, <1>10, <1>15 DEF Acknowledged, InPhase, Acknowledgement
<1>16. CASE Joining(v)
  BY <1>2, <1>3, <1>4, <1>5, <1>10, <1>16 DEF Joining, InPhase
<1>17. CASE Completed(v)
  BY <1>2, <1>4, <1>5, <1>10, <1>17 DEF Completed, InPhase, PathSwitch
<1>18. CASE Lost(v)
  BY <1>4, <1>18 DEF Lost, InPhase
<1>. QED BY <1>11, <1>12, <1>13, <1>14, <1>15, <1>16, <1>17, <1>18 DEF InPhase

\* What else there is of UE v is left alone.
Aside(v) ==
  /\ camp'[v] = camp[v] /\ air'[v] = air[v]
  /\ lastCell'[v] = lastCell[v] /\ setupCompleted'[v] = setupCompleted[v]
  /\ ordered'[v] = ordered[v] /\ pdcpTarget'[v] = pdcpTarget[v]
  /\ \A c \in Cell : imsiRnti'[c][v] = imsiRnti[c][v] /\ forwardTo'[c][v] = forwardTo[c][v]

\* Of the UeManagers and messages, some of UE u are taken and some added.
Managing(u, gone, come) ==
  ueMap' = (ueMap \ gone) \cup come /\ \A k \in gone \cup come : k.imsi = u
Messaging(u, received, sent) ==
  x2' = (x2 \ received) \cup sent /\ \A m \in received \cup sent : m.imsi = u

\* An action that takes and adds only UeManagers and messages of UE u touches no
\* other UE.
LEMMA OnlyMine ==
  ASSUME NEW u \in UE, NEW gone, NEW come, NEW received, NEW sent,
         Managing(u, gone, come), Messaging(u, received, sent),
         \A v \in UE \ {u} : Aside(v)
  PROVE  /\ \A v \in UE \ {u} : Untouched(v)
         /\ Managed(u)' = (Managed(u) \ gone) \cup come
         /\ Pending(u)' = (Pending(u) \ received) \cup sent
<1>1. \A v \in UE \ {u} : Managed(v)' = Managed(v) /\ Pending(v)' = Pending(v)
  BY DEF Managed, Pending, Of, Managing, Messaging
<1>2. /\ Managed(u)' = (Managed(u) \ gone) \cup come
      /\ Pending(u)' = (Pending(u) \ received) \cup sent
  BY DEF Managed, Pending, Of, Managing, Messaging
<1>. QED BY <1>1, <1>2 DEF Aside, Untouched

-----------------------------------------------------------------------------
(* RNTIs and preambles.                                                    *)

LEMMA Fields ==
  ASSUME TypeOK
  PROVE  /\ \A k \in ueMap : /\ k \in UeManager /\ k.cell \in Cell
                             /\ k.rnti \in Nat /\ k.imsi \in UE
         /\ \A c \in Cell : lastRnti[c] \in Nat /\ preambles[c] \subseteq Nat
         /\ \A u \in UE : air[u].type = "completed" =>
               air[u].cell \in Cell /\ air[u].rnti \in Nat
BY DEF TypeOK, UeManager, RrcMessage, NoMessage, Rnti

\* A UeManager is replaced by one of the same cell and RNTI.
LEMMA ReplaceKeepsRntis ==
  ASSUME RntisFresh, NEW k \in ueMap, NEW new, new.cell = k.cell, new.rnti = k.rnti,
         ueMap' = (ueMap \ {k}) \cup {new}, UNCHANGED lastRnti
  PROVE  RntisFresh'
BY DEF RntisFresh

LEMMA RemoveKeepsRntis ==
  ASSUME RntisFresh, ueMap' \subseteq ueMap, UNCHANGED lastRnti
  PROVE  RntisFresh'
BY DEF RntisFresh

\* Preambles stay those of joining UEs if no joining UeManager that holds one is
\* replaced by one that is not joining.
LEMMA ReplaceKeepsPreambles ==
  ASSUME PreamblesAreForJoining, NEW k \in ueMap, NEW new,
         new.cell = k.cell, new.rnti = k.rnti,
         k.state # "joining" \/ new.state = "joining" \/ k.rnti \notin preambles[k.cell],
         ueMap' = (ueMap \ {k}) \cup {new}, UNCHANGED preambles, RntisFresh
  PROVE  PreamblesAreForJoining'
BY DEF PreamblesAreForJoining, Managers, RntisFresh

LEMMA RemoveKeepsPreambles ==
  ASSUME PreamblesAreForJoining, NEW k \in ueMap, RntisFresh,
         k.state # "joining" \/ k.rnti \notin preambles[k.cell],
         ueMap' = ueMap \ {k}, UNCHANGED preambles
  PROVE  PreamblesAreForJoining'
BY DEF PreamblesAreForJoining, Managers, RntisFresh

LEMMA MoreManagersFewerPreambles ==
  ASSUME PreamblesAreForJoining, ueMap \subseteq ueMap',
         \A c \in Cell : preambles'[c] \subseteq preambles[c]
  PROVE  PreamblesAreForJoining'
<1>1. SUFFICES ASSUME NEW c \in Cell, NEW r \in preambles'[c]
               PROVE  \E k \in ueMap' : k.cell = c /\ k.rnti = r /\ k.state = "joining"
  BY DEF PreamblesAreForJoining, Managers
<1>2. PICK k \in ueMap : k.cell = c /\ k.rnti = r /\ k.state = "joining"
  BY <1>1 DEF PreamblesAreForJoining, Managers
<1>. QED BY <1>2

\* A lookup by cell and RNTI finds one UeManager.
LEMMA LookupFindsOne ==
  ASSUME RntisFresh, NEW k \in ueMap
  PROVE  Managers(k.cell, k.rnti) = {k}
BY DEF RntisFresh, Managers

-----------------------------------------------------------------------------
(* The handlers of the X2 messages.                                        *)

\* An order that may be delivered finds its UE settled.
LEMMA OrderPhase ==
  ASSUME HandoverInv, NEW u \in UE, NEW m \in Pending(u),
         m.type = "McHandoverRequest", InTime(m)
  PROVE  /\ Settled(u) /\ ~setupCompleted[u]
         /\ m = Send("McHandoverRequest", u, lastCell[u], NoRnti, ordered[u], NoRnti)
<1>1. InPhase(u) /\ m.imsi = u /\ m \in x2
  BY DEF HandoverInv, Phases, Pending, Of
<1>2. ~Arrived(u)
  <2>1. SUFFICES ASSUME Arrived(u) PROVE FALSE
    OBVIOUS
  <2>2. PICK k, o : Pending(u) = Orders(u) \cup {Release(u, o, k)}
    BY <2>1 DEF Arrived
  <2>3. Release(u, o, k) \in x2 /\ Release(u, o, k).imsi = u /\ Release(u, o, k).type = "UeContextRelease"
    BY <2>2 DEF Pending, Of, Release, Send
  <2>. QED BY <1>1, <2>3 DEF InTime
<1>3. ~Unattached(u) /\ ~Lost(u)
  BY DEF Unattached, Lost
<1>4. ~Preparing(u)
  BY DEF Preparing, Request, Refusal, Send
<1>5. ~Acknowledged(u) /\ ~Joining(u) /\ ~Completed(u)
  BY DEF Acknowledged, Joining, Completed, Acknowledgement, PathSwitch, Send
<1>6. Settled(u)
  BY <1>1, <1>2, <1>3, <1>4, <1>5 DEF InPhase
<1>. QED BY <1>6 DEF Settled, Orders

LEMMA OrderArrives ==
  ASSUME HandoverInv, NEW u \in UE, NEW m \in Of(u, x2), DoRecvMcHandoverRequest(m)
  PROVE  HandoverInv'
<1>. USE Constants
<1>1. /\ m \in Pending(u) /\ m.type = "McHandoverRequest" /\ InTime(m) /\ m \in x2
      /\ alive = TRUE
  BY DEF Pending, Of, DoRecvMcHandoverRequest, HandoverInv, NoAbort, TypeOK
<1>2. /\ Settled(u) /\ ~setupCompleted[u]
      /\ m = Send("McHandoverRequest", u, lastCell[u], NoRnti, ordered[u], NoRnti)
  BY <1>1, OrderPhase
<1>3. PICK k \in Managed(u) :
        /\ Resting(u, k) /\ Moving(u)
        /\ Managed(u) = {k} /\ Pending(u) = {m} /\ NoForwarding(u)
  BY <1>2 DEF Settled, Resting, Orders
<1>4. k \in ueMap /\ k.imsi = u /\ k \in UeManager
      /\ m.at = k.cell /\ m.peer = ordered[u] /\ m.imsi = u
      /\ Managers(m.at, imsiRnti[m.at][m.imsi]) = {k}
  <2>1. k \in ueMap /\ k.imsi = u /\ k \in UeManager
    BY DEF Managed, Of, HandoverInv, TypeOK
  <2>2. m.at = k.cell /\ m.peer = ordered[u] /\ m.imsi = u /\ k.rnti = imsiRnti[m.at][u]
    BY <1>2, <1>3 DEF Send, Resting, Serves
  <2>. QED BY <2>1, <2>2, LookupFindsOne DEF HandoverInv
<1>5. k.state \in {"connected", "reconfiguration"} /\ k.queued = NoCell
  BY <1>3 DEF Resting
<1>6. /\ PrepareHandover(m, k)
      /\ UNCHANGED <<coordinatorVars, imsiRnti, lastRnti, preambles, forwardTo, ueVars, alive>>
  BY <1>4, <1>5 DEF DoRecvMcHandoverRequest
<1>7. PICK new \in UeManager, sent \in SUBSET Message :
        /\ ueMap' = (ueMap \ {k}) \cup {new} /\ x2' = (x2 \ {m}) \cup sent
        /\ new.cell = k.cell /\ new.rnti = k.rnti /\ new.imsi = u
        /\ \/ new.state = "preparation" /\ sent = {Request(new, ordered[u])}
           \/ new.state = "reconfiguration" /\ new.queued = ordered[u] /\ sent = {}
  <2>1. CASE k.state = "connected"
    <3>. DEFINE new == [k EXCEPT !.state = "preparation"]
    <3>1. new \in UeManager /\ new.cell = k.cell /\ new.rnti = k.rnti /\ new.imsi = u
          /\ new.state = "preparation"
      BY <1>4 DEF UeManager
    <3>2. Request(new, ordered[u]) = Request(k, m.peer)
      BY <1>4, <3>1 DEF Request
    <3>3. Request(k, m.peer) \in Message
      BY <1>3, <1>4 DEF Request, Send, Message, UeManager, Moving, NoRnti, Rnti
    <3>4. ueMap' = (ueMap \ {k}) \cup {new} /\ x2' = (x2 \ {m}) \cup {Request(new, ordered[u])}
      BY <1>6, <2>1, <3>2 DEF PrepareHandover, Replace, Exchange
    <3>. QED BY <3>1, <3>2, <3>3, <3>4
  <2>2. CASE k.state = "reconfiguration"
    <3>. DEFINE new == [k EXCEPT !.queued = m.peer]
    <3>1. new \in UeManager /\ new.cell = k.cell /\ new.rnti = k.rnti /\ new.imsi = u
          /\ new.state = "reconfiguration" /\ new.queued = ordered[u]
      BY <1>3, <1>4, <2>2 DEF UeManager, Moving
    <3>2. ueMap' = (ueMap \ {k}) \cup {new} /\ x2' = (x2 \ {m}) \cup {}
      BY <1>6, <2>2 DEF PrepareHandover, Replace, Exchange
    <3>. QED BY <3>1, <3>2
  <2>. QED BY <1>5, <2>1, <2>2
<1>8. \A e \in sent : e.imsi = u
  BY <1>7 DEF Request, Send
<1>9. TypeOK'
  BY <1>6, <1>7 DEF HandoverInv, TypeOK, coordinatorVars, ueVars
<1>10. /\ \A v \in UE \ {u} : Untouched(v)
       /\ Managed(u)' = (Managed(u) \ {k}) \cup {new}
       /\ Pending(u)' = (Pending(u) \ {m}) \cup sent
  <2>1. Managing(u, {k}, {new}) /\ Messaging(u, {m}, sent)
    BY <1>4, <1>7, <1>8 DEF Managing, Messaging
  <2>2. \A v \in UE \ {u} : Aside(v)
    BY <1>6 DEF Aside, coordinatorVars, ueVars
  <2>. QED BY <2>1, <2>2, OnlyMine
<1>11. InPhase(u)'
  <2>1. Managed(u)' = {new} /\ Pending(u)' = sent
    BY <1>3, <1>10
  <2>2. (Serves(new, u) /\ At(u, new, "connected") /\ Quiet(u) /\ Moving(u) /\ NoForwarding(u))'
    BY <1>2, <1>3, <1>6, <1>7 DEF Resting, Serves, At, Quiet, Moving, NoForwarding, Forwards,
       coordinatorVars, ueVars
  <2>3. ~setupCompleted'[u] /\ ordered'[u] = ordered[u]
    BY <1>2, <1>6 DEF coordinatorVars
  <2>4. Preparing(u)'
    BY <1>7, <2>1, <2>2, <2>3 DEF Preparing, Request
  <2>. QED BY <2>4 DEF InPhase
<1>12. RntisFresh' /\ PreamblesAreForJoining'
  BY <1>4, <1>5, <1>6, <1>7, ReplaceKeepsRntis, ReplaceKeepsPreambles DEF HandoverInv
<1>13. ArrivedFreed' /\ NoAbort'
  BY <1>6 DEF HandoverInv, ArrivedFreed, NoAbort, ueVars
<1>. QED BY <1>9, <1>10, <1>11, <1>12, <1>13, OthersStay DEF HandoverInv, Phases

\* A request finds its UE in preparation at the source.
LEMMA RequestPhase ==
  ASSUME HandoverInv, NEW u \in UE, NEW m \in Pending(u), m.type = "HandoverRequest"
  PROVE  \E k \in Managed(u) :
           /\ Serves(k, u) /\ At(u, k, "connected") /\ Quiet(u) /\ Moving(u)
           /\ Managed(u) = {k} /\ NoForwarding(u)
           /\ k.state = "preparation"
           /\ m = Request(k, ordered[u]) /\ Pending(u) = {m}
<1>1. InPhase(u)
  BY DEF HandoverInv, Phases
<1>2. ~Unattached(u) /\ ~Lost(u) /\ ~Joining(u)
  BY DEF Unattached, Lost, Joining
<1>3. ~Settled(u)
  BY DEF Settled, Orders, Send
<1>4. ~Arrived(u)
  BY DEF Arrived, Orders, Release, Send
<1>5. ~Acknowledged(u) /\ ~Completed(u)
  BY DEF Acknowledged, Completed, Acknowledgement, PathSwitch, Send
<1>6. Preparing(u)
  BY <1>1, <1>2, <1>3, <1>4, <1>5 DEF InPhase
<1>7. \A k : Refusal(u, k).type # "HandoverRequest"
  BY DEF Refusal, Send
<1>. QED BY <1>6, <1>7 DEF Preparing

LEMMA RequestArrives ==
  ASSUME HandoverInv, NEW u \in UE, NEW m \in Of(u, x2), DoRecvHandoverRequest(m)
  PROVE  HandoverInv'
<1>. USE Constants
<1>1. /\ m \in Pending(u) /\ m.type = "HandoverRequest" /\ m \in x2
      /\ TypeOK /\ RntisFresh /\ PreamblesAreForJoining /\ ArrivedFreed /\ alive = TRUE
      /\ \A v \in UE : InPhase(v)
      /\ UNCHANGED <<coordinatorVars, forwardTo, ueVars, alive>>
  BY DEF Pending, Of, DoRecvHandoverRequest, HandoverInv, Phases, NoAbort, TypeOK
<1>2. PICK k \in Managed(u) :
        /\ Serves(k, u) /\ At(u, k, "connected") /\ Quiet(u) /\ Moving(u)
        /\ Managed(u) = {k} /\ NoForwarding(u)
        /\ k.state = "preparation"
        /\ m = Request(k, ordered[u]) /\ Pending(u) = {m}
  BY <1>1, RequestPhase
<1>3. k \in ueMap /\ k.imsi = u /\ k \in UeManager /\ k.cell \in Cell /\ k.rnti \in Nat
  BY <1>1 DEF Managed, Of, TypeOK, UeManager, Rnti
<1>4. /\ m.imsi = u /\ m.at = ordered[u] /\ m.peer = k.cell /\ m.peerRnti = k.rnti
      /\ m.at \in Cell /\ m.at # k.cell
  BY <1>2, <1>3 DEF Request, Send, Moving, Serves
<1>5. NoAbort'
  BY <1>1 DEF NoAbort
<1>6. Moving(u)' /\ Quiet(u)' /\ NoForwarding(u)' /\ At(u, k, "connected")'
  BY <1>1, <1>2 DEF Moving, Quiet, NoForwarding, Forwards, At, coordinatorVars, ueVars
<1>7. CASE /\ Exchange(m, {Refusal(u, k)})
           /\ UNCHANGED <<ueMap, imsiRnti, lastRnti, preambles>>
  <2>. DEFINE sent == {Refusal(u, k)}
  <2>1. x2' = (x2 \ {m}) \cup sent /\ ueMap' = (ueMap \ {}) \cup {}
    BY <1>7 DEF Exchange
  <2>2. Refusal(u, k) \in Message /\ Refusal(u, k).imsi = u
    BY <1>3, <1>4 DEF Refusal, Send, Message, NoRnti, Rnti
  <2>3. Managing(u, {}, {}) /\ Messaging(u, {m}, sent)
    BY <1>4, <2>1, <2>2 DEF Managing, Messaging
  <2>4. \A v \in UE \ {u} : Aside(v)
    BY <1>1, <1>7 DEF Aside, coordinatorVars, ueVars
  <2>5. (\A v \in UE \ {u} : Untouched(v)) /\ Managed(u)' = {k} /\ Pending(u)' = sent
    BY <1>2, <2>3, <2>4, OnlyMine
  <2>6. TypeOK'
    BY <1>1, <1>7, <2>1, <2>2 DEF TypeOK, coordinatorVars, ueVars
  <2>7. Serves(k, u)' /\ Refusal(u, k)' = Refusal(u, k)
    BY <1>1, <1>2, <1>7 DEF Serves, Refusal, Send, coordinatorVars
  <2>8. InPhase(u)'
    BY <1>2, <1>6, <2>5, <2>7 DEF InPhase, Preparing
  <2>9. RntisFresh' /\ PreamblesAreForJoining' /\ ArrivedFreed'
    BY <1>1, <1>7, MoreManagersFewerPreambles DEF RntisFresh, ArrivedFreed, ueVars
  <2>. QED BY <1>1, <1>5, <2>5, <2>6, <2>8, <2>9, OthersStay DEF HandoverInv, Phases
<1>8. CASE /\ lastRnti' = [lastRnti EXCEPT ![m.at] = @ + 1]
           /\ Exchange(m, {})
           /\ UNCHANGED <<ueMap, imsiRnti, preambles>>
  <2>1. x2' = (x2 \ {m}) \cup {} /\ ueMap' = (ueMap \ {}) \cup {}
    BY <1>8 DEF Exchange
  <2>2. \A c \in Cell : lastRnti[c] \in Nat /\ lastRnti'[c] \in Nat /\ lastRnti[c] <= lastRnti'[c]
    BY <1>1, <1>4, <1>8, Fields DEF TypeOK
  <2>3. Managing(u, {}, {}) /\ Messaging(u, {m}, {})
    BY <1>4, <2>1 DEF Managing, Messaging
  <2>4. \A v \in UE \ {u} : Aside(v)
    BY <1>1, <1>8 DEF Aside, coordinatorVars, ueVars
  <2>5. (\A v \in UE \ {u} : Untouched(v)) /\ Managed(u)' = {k} /\ Pending(u)' = {}
    BY <1>2, <2>3, <2>4, OnlyMine
  <2>6. TypeOK'
    <3>1. lastRnti' \in [Cell -> Rnti]
      BY <1>1, <1>4, <1>8, <2>2 DEF TypeOK, Rnti
    <3>. QED BY <1>1, <1>8, <2>1, <3>1 DEF TypeOK, coordinatorVars, ueVars
  <2>7. Serves(k, u)'
    BY <1>1, <1>2, <1>8 DEF Serves, coordinatorVars
  <2>8. InPhase(u)'
    BY <1>2, <1>6, <2>5, <2>7 DEF InPhase, Preparing
  <2>9. RntisFresh'
    BY <1>1, <1>8, <2>2, Fields DEF RntisFresh
  <2>10. ArrivedFreed'
    <3>1. air' = air /\ preambles' = preambles
      BY <1>1, <1>8 DEF ueVars
    <3>2. ASSUME NEW v \in UE, air[v].type = "completed"
          PROVE  /\ air[v].rnti <= lastRnti'[air[v].cell]
                 /\ air[v].rnti \notin preambles[air[v].cell]
      <4>1. /\ air[v].cell \in Cell /\ air[v].rnti \in Nat
            /\ air[v].rnti <= lastRnti[air[v].cell]
            /\ air[v].rnti \notin preambles[air[v].cell]
        BY <1>1, <3>2, Fields DEF ArrivedFreed
      <4>2. PICK c \in Cell : c = air[v].cell
        BY <4>1
      <4>3. PICK r \in Nat : r = air[v].rnti
        BY <4>1
      <4>4. r <= lastRnti'[c]
        BY <2>2, <4>1, <4>2, <4>3
      <4>. QED BY <4>1, <4>2, <4>3, <4>4
    <3>. QED BY <3>1, <3>2 DEF ArrivedFreed
  <2>11. PreamblesAreForJoining'
    BY <1>1, <1>8, MoreManagersFewerPreambles
  <2>. QED BY <1>1, <1>5, <2>5, <2>6, <2>8, <2>9, <2>10, <2>11, OthersStay
       DEF HandoverInv, Phases
<1>9. CASE /\ m.at \in Admitting
           /\ LET rnti == lastRnti[m.at] + 1 IN
                /\ lastRnti' = [lastRnti EXCEPT ![m.at] = rnti]
                /\ preambles' = [preambles EXCEPT ![m.at] = @ \cup {rnti}]
                /\ RegisterImsiToRnti(m.at, m.imsi, rnti)
                /\ ueMap' = ueMap \cup
                     {[cell |-> m.at, rnti |-> rnti, imsi |-> m.imsi,
                       state |-> "joining", source |-> m.peer,
                       sourceRnti |-> m.peerRnti, queued |-> NoCell]}
                /\ Exchange(m, {Send("HandoverRequestAck", m.imsi, m.peer,
                                     m.peerRnti, m.at, rnti)})
  <2>. DEFINE t == m.at
  <2>d. lastRnti[t] \in Nat /\ t \in Cell
    BY <1>1, <1>4, Fields
  <2>1. PICK rnti \in Nat : rnti = lastRnti[t] + 1 /\ lastRnti[t] \in Nat /\ t \in Cell
    BY <2>d
  <2>b. [cell |-> t, rnti |-> rnti, imsi |-> u, state |-> "joining",
         source |-> k.cell, sourceRnti |-> k.rnti, queued |-> NoCell] \in UeManager
    BY <1>3, <1>4, <2>1 DEF UeManager, Rnti
  <2>c. PICK j \in UeManager :
          j = [cell |-> t, rnti |-> rnti, imsi |-> u, state |-> "joining",
               source |-> k.cell, sourceRnti |-> k.rnti, queued |-> NoCell]
    BY <2>b
  <2>2. /\ j = [cell |-> t, rnti |-> rnti, imsi |-> u, state |-> "joining",
                  source |-> k.cell, sourceRnti |-> k.rnti, queued |-> NoCell]
          /\ j.imsi = u /\ j.cell = t /\ j.rnti = rnti /\ j.state = "joining"
          /\ j.source = k.cell /\ j.sourceRnti = k.rnti /\ j.queued = NoCell
    BY <2>c
  <2>. DEFINE sent == {Acknowledgement(u, k, j)}
  <2>a. /\ x2' = (x2 \ {m}) \cup sent /\ ueMap' = (ueMap \ {}) \cup {j}
        /\ lastRnti' = [lastRnti EXCEPT ![t] = rnti]
        /\ preambles' = [preambles EXCEPT ![t] = @ \cup {rnti}]
        /\ imsiRnti' = [imsiRnti EXCEPT ![t][u] = rnti]
    BY <1>4, <1>9, <2>1, <2>2 DEF Exchange, Acknowledgement, RegisterImsiToRnti
  <2>3. Acknowledgement(u, k, j) \in Message /\ Acknowledgement(u, k, j).imsi = u
    BY <1>3, <1>4, <2>2 DEF Acknowledgement, Send, Message, Rnti
  <2>4. Managing(u, {}, {j}) /\ Messaging(u, {m}, sent)
    BY <1>4, <2>2, <2>a, <2>3 DEF Managing, Messaging
  <2>5. \A c \in Cell, v \in UE : <<c, v>> # <<t, u>> => imsiRnti'[c][v] = imsiRnti[c][v]
    BY <1>1, <2>1, <2>2, <2>a DEF TypeOK
  <2>6. imsiRnti'[t][u] = rnti
    BY <1>1, <2>1, <2>2, <2>a DEF TypeOK
  <2>7. \A v \in UE \ {u} : Aside(v)
    BY <1>1, <2>5 DEF Aside, coordinatorVars, ueVars
  <2>8. (\A v \in UE \ {u} : Untouched(v)) /\ Managed(u)' = {k, j} /\ Pending(u)' = sent
    BY <1>2, <2>4, <2>7, OnlyMine
  <2>9. TypeOK'
    <3>1. ueMap' \subseteq UeManager /\ x2' \subseteq Message
      BY <1>1, <2>1, <2>2, <2>a, <2>3 DEF TypeOK
    <3>2. /\ imsiRnti' \in [Cell -> [UE -> Rnti]] /\ lastRnti' \in [Cell -> Rnti]
          /\ preambles' \in [Cell -> SUBSET Rnti]
      BY <1>1, <2>1, <2>2, <2>a DEF TypeOK, Rnti
    <3>. QED BY <1>1, <3>1, <3>2 DEF TypeOK, coordinatorVars, ueVars
  <2>10. Serves(k, u)' /\ Acknowledgement(u, k, j)' = Acknowledgement(u, k, j)
    <3>1. imsiRnti'[k.cell][u] = imsiRnti[k.cell][u]
      BY <1>3, <1>4, <2>5
    <3>2. Serves(k, u)'
      BY <1>1, <1>2, <3>1 DEF Serves, coordinatorVars
    <3>. QED BY <3>2 DEF Acknowledgement, Send
  <2>11. Admitted(u, k, j)'
    <3>1. ordered' = ordered
      BY <1>1 DEF coordinatorVars
    <3>. QED BY <1>4, <1>6, <2>2, <2>6, <2>10, <3>1 DEF Admitted
  <2>12. InPhase(u)'
    <3>1. Acknowledged(u)'
      BY <1>2, <1>6, <2>2, <2>8, <2>10, <2>11 DEF Acknowledged
    <3>. QED BY <3>1 DEF InPhase
  <2>13. RntisFresh'
    <3>1. /\ lastRnti'[t] = rnti /\ \A c \in Cell : c # t => lastRnti'[c] = lastRnti[c]
      BY <1>1, <2>1, <2>2, <2>a DEF TypeOK
    <3>. QED BY <1>1, <2>1, <2>2, <2>a, <3>1, Fields DEF RntisFresh
  <2>14. ArrivedFreed'
    <3>1. /\ lastRnti'[t] = rnti /\ \A c \in Cell : c # t => lastRnti'[c] = lastRnti[c]
          /\ preambles'[t] = preambles[t] \cup {rnti}
          /\ \A c \in Cell : c # t => preambles'[c] = preambles[c]
      BY <1>1, <2>1, <2>2, <2>a DEF TypeOK
    <3>2. air' = air
      BY <1>1 DEF ueVars
    <3>3. ASSUME NEW v \in UE, air[v].type = "completed"
          PROVE  /\ air[v].rnti <= lastRnti'[air[v].cell]
                 /\ air[v].rnti \notin preambles'[air[v].cell]
      <4>1. /\ air[v].cell \in Cell /\ air[v].rnti \in Nat
            /\ air[v].rnti <= lastRnti[air[v].cell]
            /\ air[v].rnti \notin preambles[air[v].cell]
        BY <1>1, <3>3, Fields DEF ArrivedFreed
      <4>2. PICK c \in Cell : c = air[v].cell
        BY <4>1
      <4>3. PICK r \in Nat : r = air[v].rnti
        BY <4>1
      <4>4. r <= lastRnti'[c] /\ r \notin preambles'[c]
        <5>1. CASE c = t
          BY <2>1, <3>1, <4>1, <4>2, <4>3, <5>1
        <5>2. CASE c # t
          BY <3>1, <4>1, <4>2, <4>3, <5>2
        <5>. QED BY <5>1, <5>2
      <4>. QED BY <4>1, <4>2, <4>3, <4>4
    <3>. QED BY <3>2, <3>3 DEF ArrivedFreed
  <2>15. PreamblesAreForJoining'
    <3>1. /\ preambles'[t] = preambles[t] \cup {rnti}
          /\ \A c \in Cell : c # t => preambles'[c] = preambles[c]
      BY <1>1, <2>1, <2>a DEF TypeOK
    <3>2. ASSUME NEW c \in Cell, NEW r \in preambles'[c]
          PROVE  \E h \in ueMap' : h.cell = c /\ h.rnti = r /\ h.state = "joining"
      <4>1. CASE r \in preambles[c]
        BY <1>1, <2>a, <4>1 DEF PreamblesAreForJoining, Managers
      <4>2. CASE r \notin preambles[c]
        <5>1. c = t /\ r = rnti
          BY <3>1, <3>2, <4>2
        <5>. QED BY <2>2, <2>a, <5>1
      <4>. QED BY <4>1, <4>2
    <3>. QED BY <3>2 DEF PreamblesAreForJoining, Managers
  <2>. QED BY <1>1, <1>5, <2>8, <2>9, <2>12, <2>13, <2>14, <2>15, OthersStay
       DEF HandoverInv, Phases
<1>. QED BY <1>4, <1>7, <1>8, <1>9 DEF DoRecvHandoverRequest, Refusal

\* What the invariant says where a message of UE u is received.
LEMMA AtReceipt ==
  ASSUME HandoverInv, NEW u \in UE, NEW m \in Of(u, x2)
  PROVE  /\ m \in Pending(u) /\ m \in x2 /\ m.imsi = u
         /\ TypeOK /\ RntisFresh /\ PreamblesAreForJoining /\ ArrivedFreed
         /\ alive = TRUE /\ \A v \in UE : InPhase(v)
         /\ \A k \in Managed(u) : /\ k \in ueMap /\ k.imsi = u /\ k \in UeManager
                                 /\ k.cell \in Cell /\ k.rnti \in Nat
BY DEF Pending, Managed, Of, HandoverInv, Phases, NoAbort, TypeOK, UeManager, Rnti

\* A UeManager that changes its state and nothing else.
LEMMA Restated ==
  ASSUME NEW k \in UeManager,
         NEW state \in {"connected", "reconfiguration", "preparation",
                       "leaving", "joining", "expired"},
         NEW new, new = [k EXCEPT !.state = state]
  PROVE  /\ new \in UeManager /\ new.state = state
         /\ new.cell = k.cell /\ new.rnti = k.rnti /\ new.imsi = k.imsi
         /\ new.source = k.source /\ new.sourceRnti = k.sourceRnti
         /\ new.queued = k.queued
BY DEF UeManager

\* An action that leaves the other UEs alone has to show the invariant for its
\* own UE only.
LEMMA Concludes ==
  ASSUME HandoverInv, NEW u \in UE, \A v \in UE \ {u} : Untouched(v), InPhase(u)',
         TypeOK', alive' = alive, RntisFresh', PreamblesAreForJoining', ArrivedFreed'
  PROVE  HandoverInv'
BY OthersStay DEF HandoverInv, Phases, NoAbort

LEMMA AcknowledgementPhase ==
  ASSUME NEW u \in UE, InPhase(u), NEW m \in Pending(u), m.type = "HandoverRequestAck"
  PROVE  \E k, j \in Managed(u) :
           /\ Admitted(u, k, j) /\ k.state = "preparation" /\ j.state = "joining"
           /\ Managed(u) = {k, j} /\ Pending(u) = {m} /\ m = Acknowledgement(u, k, j)
           /\ At(u, k, "connected") /\ Quiet(u) /\ NoForwarding(u)
<1>1. ~Unattached(u) /\ ~Lost(u) /\ ~Joining(u)
  BY DEF Unattached, Lost, Joining
<1>2. ~Settled(u)
  BY DEF Settled, Orders, Send
<1>3. ~Arrived(u)
  BY DEF Arrived, Orders, Release, Send
<1>4. ~Preparing(u) /\ ~Completed(u)
  BY DEF Preparing, Completed, Request, Refusal, PathSwitch, Send
<1>5. Acknowledged(u)
  BY <1>1, <1>2, <1>3, <1>4 DEF InPhase
<1>. QED BY <1>5 DEF Acknowledged

LEMMA AcknowledgementArrives ==
  ASSUME HandoverInv, NEW u \in UE, NEW m \in Of(u, x2), DoRecvHandoverRequestAck(m)
  PROVE  HandoverInv'
<1>. USE Constants
<1>1. /\ m \in Pending(u) /\ m \in x2 /\ m.imsi = u
      /\ TypeOK /\ RntisFresh /\ PreamblesAreForJoining /\ ArrivedFreed
      /\ alive = TRUE /\ \A v \in UE : InPhase(v)
  BY AtReceipt
<1>2. PICK k, j \in Managed(u) :
        /\ Admitted(u, k, j) /\ k.state = "preparation" /\ j.state = "joining"
        /\ Managed(u) = {k, j} /\ Pending(u) = {m} /\ m = Acknowledgement(u, k, j)
        /\ At(u, k, "connected") /\ Quiet(u) /\ NoForwarding(u)
  BY <1>1, AcknowledgementPhase DEF DoRecvHandoverRequestAck
<1>3. /\ k \in ueMap /\ k.imsi = u /\ k \in UeManager /\ k.cell \in Cell
      /\ j \in ueMap /\ j.imsi = u /\ j.cell \in Cell /\ j.rnti \in Nat
      /\ k.cell = lastCell[u] /\ j.cell # k.cell
  BY <1>2, AtReceipt DEF Admitted, Serves, Moving
<1>4. m.at = k.cell /\ m.rnti = k.rnti /\ m.peer = j.cell /\ m.peerRnti = j.rnti
      /\ Managers(m.at, m.rnti) = {k}
  BY <1>1, <1>2, <1>3, LookupFindsOne DEF Acknowledgement, Send
<1>5. /\ RecvHandoverRequestAck(m, k)
      /\ UNCHANGED <<coordinatorVars, imsiRnti, lastRnti, preambles, camp, alive>>
  BY <1>4 DEF DoRecvHandoverRequestAck
<1>a. PICK new : new = [k EXCEPT !.state = "leaving"]
  OBVIOUS
<1>6. /\ new \in UeManager /\ new.state = "leaving"
      /\ new.cell = k.cell /\ new.rnti = k.rnti /\ new.imsi = u
  BY <1>3, <1>a, Restated
<1>7. /\ ueMap' = (ueMap \ {k}) \cup {new} /\ x2' = (x2 \ {m}) \cup {}
      /\ air' = [air EXCEPT ![u] = [type |-> "command", cell |-> j.cell, rnti |-> j.rnti]]
      /\ forwardTo' = [forwardTo EXCEPT ![k.cell][u] = j.cell]
  <2>1. forwardTo[k.cell][u] = NoCell
    BY <1>2, <1>3 DEF NoForwarding, Forwards
  <2>. QED BY <1>1, <1>3, <1>4, <1>5, <1>a, <2>1 DEF RecvHandoverRequestAck, Replace, Exchange
<1>8. /\ \A v \in UE \ {u} : Untouched(v)
      /\ Managed(u)' = {new, j} /\ Pending(u)' = {}
  <2>1. Managing(u, {k}, {new}) /\ Messaging(u, {m}, {})
    BY <1>1, <1>3, <1>6, <1>7 DEF Managing, Messaging
  <2>2. \A v \in UE \ {u} : Aside(v)
    BY <1>1, <1>3, <1>5, <1>7 DEF Aside, coordinatorVars, TypeOK
  <2>3. \A v \in UE \ {u} : Untouched(v)
    BY <2>1, <2>2, OnlyMine
  <2>4. Managed(u)' = (Managed(u) \ {k}) \cup {new} /\ Pending(u)' = (Pending(u) \ {m}) \cup {}
    BY <2>1, <2>2, OnlyMine
  <2>. QED BY <1>2, <1>3, <2>3, <2>4
<1>9. TypeOK'
  <2>1. PICK command \in RrcMessage :
          command = [type |-> "command", cell |-> j.cell, rnti |-> j.rnti]
    BY <1>3 DEF RrcMessage, Rnti
  <2>2. air' \in [UE -> RrcMessage \cup {NoMessage}]
    BY <1>1, <1>7, <2>1 DEF TypeOK
  <2>3. forwardTo' \in [Cell -> [UE -> CellOrNone]]
    BY <1>1, <1>3, <1>7 DEF TypeOK
  <2>4. ueMap' \subseteq UeManager /\ x2' \subseteq Message
    BY <1>1, <1>6, <1>7 DEF TypeOK
  <2>. QED BY <1>1, <1>5, <2>2, <2>3, <2>4 DEF TypeOK, coordinatorVars
<1>10. InPhase(u)'
  <2>1. Admitted(u, new, j)'
    BY <1>2, <1>5, <1>6 DEF Admitted, Serves, Moving, coordinatorVars
  <2>2. Forwards(u, new.cell, j.cell)'
    BY <1>1, <1>2, <1>3, <1>6, <1>7 DEF Forwards, NoForwarding, TypeOK
  <2>3. At(u, new, "connected")' /\ Hears(u, "command", j)'
    BY <1>1, <1>2, <1>5, <1>6, <1>7 DEF At, Hears, TypeOK
  <2>4. Joining(u)'
    BY <1>2, <1>6, <1>8, <2>1, <2>2, <2>3 DEF Joining
  <2>. QED BY <2>4 DEF InPhase
<1>11. RntisFresh' /\ PreamblesAreForJoining'
  BY <1>1, <1>2, <1>3, <1>5, <1>6, <1>7, ReplaceKeepsRntis, ReplaceKeepsPreambles
<1>12. ArrivedFreed'
  <2>1. /\ air'[u].type # "completed"
        /\ \A v \in UE : v # u => air'[v] = air[v]
    BY <1>1, <1>7 DEF TypeOK
  <2>. QED BY <1>1, <1>5, <2>1 DEF ArrivedFreed
<1>. QED BY <1>1, <1>5, <1>8, <1>9, <1>10, <1>11, <1>12, Concludes

-----------------------------------------------------------------------------
(* What a message, a UeManager or the UE itself tells of the phase.        *)

LEMMA MessagePhase ==
  ASSUME NEW u \in UE, InPhase(u), NEW m \in Pending(u)
  PROVE  /\ m.type = "HandoverPreparationFailure" => Preparing(u)
         /\ m.type = "SecondaryCellHandoverCompleted" => Completed(u)
         /\ m.type = "UeContextRelease" => Arrived(u)
         /\ m.type = "NotifyCoordinatorHandoverFailed" => Lost(u)
<1>1. ~Unattached(u) /\ ~Joining(u)
  BY DEF Unattached, Joining
<1>2. Settled(u) => m.type = "McHandoverRequest"
  BY DEF Settled, Orders, Send
<1>3. Arrived(u) => m.type \in {"McHandoverRequest", "UeContextRelease"}
  BY DEF Arrived, Orders, Release, Send
<1>4. Preparing(u) => m.type \in {"HandoverRequest", "HandoverPreparationFailure"}
  BY DEF Preparing, Request, Refusal, Send
<1>5. Acknowledged(u) => m.type = "HandoverRequestAck"
  BY DEF Acknowledged, Acknowledgement, Send
<1>6. Completed(u) => m.type = "SecondaryCellHandoverCompleted"
  BY DEF Completed, PathSwitch, Send
<1>7. Lost(u) => m.type = "NotifyCoordinatorHandoverFailed"
  BY DEF Lost
<1>. QED BY <1>1, <1>2, <1>3, <1>4, <1>5, <1>6, <1>7 DEF InPhase

LEMMA CampPhase ==
  ASSUME TypeOK, NEW u \in UE, InPhase(u)
  PROVE  /\ camp[u].state = "failed" => Lost(u)
         /\ camp[u].state = "handover" => Joining(u)
         /\ air[u].type # "none" => Joining(u)
         /\ setupCompleted[u] => Settled(u) \/ Arrived(u)
         /\ lastCell[u] = NoCell => Unattached(u)
<1>a. \A k, state : At(u, k, state) => camp[u].state = state
  BY DEF At
<1>b. Quiet(u) => air[u].type = "none"
  BY DEF Quiet, NoMessage
<1>c. \A k : Serves(k, u) => lastCell[u] \in Cell
  BY DEF Serves
<1>d. \A k, j : Admitted(u, k, j) => lastCell[u] \in Cell /\ ~setupCompleted[u]
  BY DEF Admitted, Serves, Moving
<1>1. Unattached(u) => camp[u].state = "idle" /\ air[u].type = "none" /\ ~setupCompleted[u]
  BY <1>b DEF Unattached
<1>2. Settled(u) \/ Arrived(u) =>
        camp[u].state = "connected" /\ air[u].type = "none" /\ lastCell[u] \in Cell
  BY <1>a, <1>b, <1>c DEF Settled, Arrived, Resting
<1>3. Preparing(u) => /\ camp[u].state = "connected" /\ air[u].type = "none"
                      /\ lastCell[u] \in Cell /\ ~setupCompleted[u]
  BY <1>a, <1>b, <1>c DEF Preparing, Moving
<1>4. Acknowledged(u) \/ Completed(u) =>
        /\ camp[u].state = "connected" /\ air[u].type = "none"
        /\ lastCell[u] \in Cell /\ ~setupCompleted[u]
  BY <1>a, <1>b, <1>d DEF Acknowledged, Completed
<1>5. Joining(u) => /\ camp[u].state \in {"connected", "handover"}
                    /\ lastCell[u] \in Cell /\ ~setupCompleted[u]
  BY <1>a, <1>d DEF Joining
<1>6. Lost(u) => /\ camp[u].state = "failed" /\ air[u].type = "none"
                 /\ lastCell[u] \in Cell /\ ~setupCompleted[u]
  BY <1>b DEF Lost
<1>. QED BY <1>1, <1>2, <1>3, <1>4, <1>5, <1>6, Constants DEF InPhase

LEMMA ManagerPhase ==
  ASSUME NEW u \in UE, InPhase(u), NEW k \in Managed(u)
  PROVE  /\ k.state = "expired" => Lost(u)
         /\ k.state = "reconfiguration" => Settled(u) \/ Arrived(u) \/ Preparing(u)
<1>1. ~Unattached(u)
  BY DEF Unattached
<1>2. Settled(u) \/ Arrived(u) \/ Preparing(u) => k.state # "expired"
  BY DEF Settled, Arrived, Preparing, Resting
<1>3. Acknowledged(u) \/ Joining(u) \/ Completed(u)
        => k.state \notin {"expired", "reconfiguration"}
  BY DEF Acknowledged, Joining, Completed
<1>4. Lost(u) => k.state # "reconfiguration"
  BY DEF Lost
<1>. QED BY <1>1, <1>2, <1>3, <1>4 DEF InPhase

\* What the invariant says of UE u.
LEMMA AtUe ==
  ASSUME HandoverInv, NEW u \in UE
  PROVE  /\ TypeOK /\ RntisFresh /\ PreamblesAreForJoining /\ ArrivedFreed
         /\ alive = TRUE /\ InPhase(u)
         /\ \A k \in Managed(u) : /\ k \in ueMap /\ k.imsi = u /\ k \in UeManager
                                 /\ k.cell \in Cell /\ k.rnti \in Nat
BY DEF Managed, Of, HandoverInv, Phases, NoAbort, TypeOK, UeManager, Rnti

-----------------------------------------------------------------------------
(* The other messages on the X2 links.                                     *)

LEMMA RefusalArrives ==
  ASSUME HandoverInv, NEW u \in UE, NEW m \in Of(u, x2), DoRecvHandoverPreparationFailure(m)
  PROVE  HandoverInv'
<1>1. m \in Pending(u) /\ m.imsi = u /\ m.type = "HandoverPreparationFailure"
  BY DEF Pending, Of, DoRecvHandoverPreparationFailure
<1>2. Preparing(u)
  BY <1>1, AtUe, MessagePhase
<1>3. PICK k \in Managed(u) :
        /\ Serves(k, u) /\ At(u, k, "connected") /\ Quiet(u) /\ Moving(u)
        /\ Managed(u) = {k} /\ NoForwarding(u)
        /\ k.state = "preparation" /\ Pending(u) = {m} /\ m = Refusal(u, k)
  BY <1>1, <1>2 DEF Preparing, Request, Send
<1>4. /\ TypeOK /\ RntisFresh /\ PreamblesAreForJoining /\ ArrivedFreed /\ InPhase(u)
      /\ k \in ueMap /\ k.imsi = u /\ k \in UeManager
  BY AtUe
<1>5. m.at = k.cell /\ m.rnti = k.rnti /\ Managers(m.at, m.rnti) = {k}
  BY <1>3, <1>4, LookupFindsOne DEF Refusal, Send
<1>6. /\ RecvHandoverPreparationFailure(m, k)
      /\ UNCHANGED <<coordinatorVars, imsiRnti, lastRnti, preambles, forwardTo, ueVars, alive>>
  BY <1>3, <1>5 DEF DoRecvHandoverPreparationFailure
<1>7. PICK new : new = [k EXCEPT !.state = "connected"]
  OBVIOUS
<1>8. /\ new \in UeManager /\ new.state = "connected"
      /\ new.cell = k.cell /\ new.rnti = k.rnti /\ new.imsi = u
  BY <1>4, <1>7, Restated
<1>9. ueMap' = (ueMap \ {k}) \cup {new} /\ x2' = (x2 \ {m}) \cup {}
  BY <1>3, <1>6, <1>7 DEF RecvHandoverPreparationFailure, Replace, Exchange
<1>10. /\ \A v \in UE \ {u} : Untouched(v)
       /\ Managed(u)' = (Managed(u) \ {k}) \cup {new}
       /\ Pending(u)' = (Pending(u) \ {m}) \cup {}
  <2>1. Managing(u, {k}, {new}) /\ Messaging(u, {m}, {})
    BY <1>1, <1>4, <1>8, <1>9 DEF Managing, Messaging
  <2>2. \A v \in UE \ {u} : Aside(v)
    BY <1>6 DEF Aside, coordinatorVars, ueVars
  <2>. QED BY <2>1, <2>2, OnlyMine
<1>11. TypeOK'
  <2>1. ueMap' \subseteq UeManager /\ x2' \subseteq Message
    BY <1>4, <1>8, <1>9 DEF TypeOK
  <2>. QED BY <1>4, <1>6, <2>1 DEF TypeOK, coordinatorVars, ueVars
<1>12. InPhase(u)'
  <2>1. Managed(u)' = {new} /\ Pending(u)' = {}
    BY <1>3, <1>10
  <2>2. (Serves(new, u) /\ At(u, new, "connected") /\ Quiet(u) /\ Moving(u) /\ NoForwarding(u))'
    BY <1>3, <1>6, <1>8 DEF Serves, At, Quiet, Moving, NoForwarding, Forwards,
       coordinatorVars, ueVars
  <2>3. Preparing(u)'
    BY <1>8, <2>1, <2>2 DEF Preparing
  <2>. QED BY <2>3 DEF InPhase
<1>13. RntisFresh' /\ PreamblesAreForJoining'
  BY <1>3, <1>4, <1>6, <1>8, <1>9, ReplaceKeepsRntis, ReplaceKeepsPreambles
<1>14. ArrivedFreed'
  BY <1>4, <1>6 DEF ArrivedFreed, ueVars
<1>. QED BY <1>6, <1>10, <1>11, <1>12, <1>13, <1>14, Concludes

\* The path switch: the recorded cell is the one the UE has arrived in.
LEMMA CompletionArrives ==
  ASSUME HandoverInv, NEW u \in UE, NEW m \in Of(u, x2), DoRecvSecondaryCellHandoverCompleted(m)
  PROVE  HandoverInv'
<1>. USE Constants
<1>1. /\ m \in Pending(u) /\ m.imsi = u /\ m.type = "SecondaryCellHandoverCompleted"
      /\ UNCHANGED <<cellVars, ueVars, ordered, alive, orders>>
  BY DEF Pending, Of, DoRecvSecondaryCellHandoverCompleted
<1>2. Completed(u)
  BY <1>1, AtUe, MessagePhase
<1>3. PICK k, j \in Managed(u) :
        /\ Admitted(u, k, j) /\ k.state = "leaving" /\ j.state = "connected"
        /\ Managed(u) = {k, j} /\ Pending(u) = {m} /\ m = PathSwitch(u, k, j)
        /\ Forwards(u, k.cell, j.cell) /\ At(u, j, "connected") /\ Quiet(u)
  BY <1>1, <1>2 DEF Completed
<1>4. /\ TypeOK /\ RntisFresh /\ PreamblesAreForJoining /\ ArrivedFreed /\ InPhase(u)
      /\ k \in ueMap /\ k.imsi = u /\ k.cell \in Cell /\ k.rnti \in Nat
      /\ j \in ueMap /\ j.imsi = u /\ j.cell \in Cell /\ j.rnti \in Nat
  BY AtUe
<1>5. /\ k.cell = lastCell[u] /\ j.cell # k.cell /\ j.rnti = imsiRnti[j.cell][u]
      /\ j.queued = NoCell
  BY <1>3 DEF Admitted, Serves, Moving
<1>6. m.peer = j.cell /\ m.rnti = k.rnti /\ m.peerRnti = j.rnti
  BY <1>3 DEF PathSwitch, Send
<1>7. /\ lastCell' = [lastCell EXCEPT ![u] = j.cell]
      /\ setupCompleted' = [setupCompleted EXCEPT ![u] = TRUE]
      /\ pdcpTarget' = [pdcpTarget EXCEPT ![u][1] = j.cell]
      /\ x2' = (x2 \ {m}) \cup {Release(u, k, j)}
  BY <1>1, <1>5, <1>6 DEF DoRecvSecondaryCellHandoverCompleted, Exchange, Release
<1>8. Release(u, k, j) \in Message /\ Release(u, k, j).imsi = u
  BY <1>4 DEF Release, Send, Message, Rnti
<1>9. lastCell'[u] = j.cell /\ setupCompleted'[u] = TRUE /\ pdcpTarget'[u][1] = j.cell
  BY <1>4, <1>7 DEF TypeOK
<1>10. /\ \A v \in UE \ {u} : Untouched(v)
       /\ Managed(u)' = {k, j} /\ Pending(u)' = {Release(u, k, j)}
  <2>1. ueMap' = (ueMap \ {}) \cup {}
    BY <1>1 DEF cellVars
  <2>2. Managing(u, {}, {}) /\ Messaging(u, {m}, {Release(u, k, j)})
    BY <1>1, <1>7, <1>8, <2>1 DEF Managing, Messaging
  <2>3. \A v \in UE \ {u} : Aside(v)
    BY <1>1, <1>4, <1>7 DEF Aside, cellVars, ueVars, TypeOK
  <2>4. /\ \A v \in UE \ {u} : Untouched(v)
        /\ Managed(u)' = (Managed(u) \ {}) \cup {}
        /\ Pending(u)' = (Pending(u) \ {m}) \cup {Release(u, k, j)}
    BY <2>2, <2>3, OnlyMine
  <2>. QED BY <1>3, <2>4
<1>11. TypeOK'
  <2>1. lastCell' \in [UE -> CellOrNone] /\ setupCompleted' \in [UE -> BOOLEAN]
    BY <1>4, <1>7 DEF TypeOK
  <2>2. pdcpTarget' \in [UE -> [1 .. Bearers -> CellOrNone]]
    BY <1>4, <1>7 DEF TypeOK
  <2>3. x2' \subseteq Message
    BY <1>4, <1>7, <1>8 DEF TypeOK
  <2>. QED BY <1>1, <1>4, <2>1, <2>2, <2>3 DEF TypeOK, cellVars, ueVars
<1>12. InPhase(u)'
  <2>1. Serves(j, u)'
    BY <1>1, <1>4, <1>5, <1>9 DEF Serves, cellVars
  <2>2. At(u, j, "connected")' /\ Quiet(u)' /\ Forwards(u, k.cell, j.cell)'
    BY <1>1, <1>3 DEF At, Quiet, Forwards, cellVars, ueVars
  <2>3. Resting(u, j)'
    BY <1>3, <1>5, <1>9, <2>1, <2>2 DEF Resting
  <2>4. Orders(u)' = {} /\ Release(u, k, j)' = Release(u, k, j)
    BY <1>9 DEF Orders, Release, Send
  <2>5. Arrived(u)'
    BY <1>3, <1>5, <1>10, <2>2, <2>3, <2>4 DEF Arrived
  <2>. QED BY <2>5 DEF InPhase
<1>13. RntisFresh' /\ PreamblesAreForJoining' /\ ArrivedFreed'
  BY <1>1, <1>4, MoreManagersFewerPreambles DEF RntisFresh, ArrivedFreed, cellVars, ueVars
<1>. QED BY <1>1, <1>10, <1>11, <1>12, <1>13, Concludes

LEMMA ReleaseArrives ==
  ASSUME HandoverInv, NEW u \in UE, NEW m \in Of(u, x2), DoRecvUeContextRelease(m)
  PROVE  HandoverInv'
<1>. USE Constants
<1>1. m \in Pending(u) /\ m.imsi = u /\ m.type = "UeContextRelease"
  BY DEF Pending, Of, DoRecvUeContextRelease
<1>2. Arrived(u)
  BY <1>1, AtUe, MessagePhase
<1>3. PICK k, o \in Managed(u) :
        /\ Resting(u, k) /\ o.state = "leaving" /\ o.cell # k.cell
        /\ Managed(u) = {k, o} /\ Pending(u) = Orders(u) \cup {m} /\ m = Release(u, o, k)
        /\ Forwards(u, o.cell, k.cell)
  <2>1. PICK k, o \in Managed(u) :
          /\ Resting(u, k) /\ o.state = "leaving" /\ o.cell # k.cell
          /\ Managed(u) = {k, o} /\ Pending(u) = Orders(u) \cup {Release(u, o, k)}
          /\ Forwards(u, o.cell, k.cell)
    BY <1>2 DEF Arrived
  <2>2. m \notin Orders(u)
    BY <1>1 DEF Orders, Send
  <2>. QED BY <1>1, <2>1, <2>2
<1>4. /\ TypeOK /\ RntisFresh /\ PreamblesAreForJoining /\ ArrivedFreed /\ InPhase(u)
      /\ k \in ueMap /\ k.imsi = u /\ k.cell \in Cell
      /\ o \in ueMap /\ o.imsi = u /\ o.cell \in Cell
  BY AtUe
<1>5. m.at = o.cell /\ m.rnti = o.rnti /\ Managers(m.at, m.rnti) = {o}
  BY <1>3, <1>4, LookupFindsOne DEF Release, Send
<1>6. forwardTo[o.cell][u] # NoCell
  BY <1>3, <1>4 DEF Forwards
<1>7. /\ RecvUeContextRelease(m, o)
      /\ UNCHANGED <<coordinatorVars, imsiRnti, lastRnti, preambles, ueVars, alive>>
  BY <1>4, <1>5, <1>6 DEF DoRecvUeContextRelease
<1>8. /\ ueMap' = (ueMap \ {o}) \cup {} /\ x2' = (x2 \ {m}) \cup {}
      /\ forwardTo' = [forwardTo EXCEPT ![o.cell][u] = NoCell]
  BY <1>4, <1>7 DEF RecvUeContextRelease, Exchange
<1>9. /\ \A v \in UE \ {u} : Untouched(v)
      /\ Managed(u)' = {k} /\ Pending(u)' = Orders(u)
  <2>1. Managing(u, {o}, {}) /\ Messaging(u, {m}, {})
    BY <1>1, <1>4, <1>8 DEF Managing, Messaging
  <2>2. \A v \in UE \ {u} : Aside(v)
    BY <1>4, <1>7, <1>8 DEF Aside, coordinatorVars, ueVars, TypeOK
  <2>3. /\ \A v \in UE \ {u} : Untouched(v)
        /\ Managed(u)' = (Managed(u) \ {o}) \cup {}
        /\ Pending(u)' = (Pending(u) \ {m}) \cup {}
    BY <2>1, <2>2, OnlyMine
  <2>4. m \notin Orders(u)
    BY <1>1 DEF Orders, Send
  <2>. QED BY <1>3, <2>3, <2>4
<1>10. TypeOK'
  <2>1. ueMap' \subseteq UeManager /\ x2' \subseteq Message
    BY <1>4, <1>8 DEF TypeOK
  <2>2. forwardTo' \in [Cell -> [UE -> CellOrNone]]
    BY <1>4, <1>8 DEF TypeOK
  <2>. QED BY <1>4, <1>7, <2>1, <2>2 DEF TypeOK, coordinatorVars, ueVars
<1>11. InPhase(u)'
  <2>1. Resting(u, k)'
    BY <1>3, <1>7 DEF Resting, Serves, At, Quiet, Moving, coordinatorVars, ueVars
  <2>2. Orders(u)' = Orders(u)
    BY <1>7 DEF Orders, Send, coordinatorVars
  <2>3. NoForwarding(u)'
    BY <1>3, <1>4, <1>8 DEF NoForwarding, Forwards, TypeOK
  <2>4. Settled(u)'
    BY <1>9, <2>1, <2>2, <2>3 DEF Settled
  <2>. QED BY <2>4 DEF InPhase
<1>12. RntisFresh' /\ PreamblesAreForJoining'
  BY <1>3, <1>4, <1>7, <1>8, RemoveKeepsRntis, RemoveKeepsPreambles
<1>13. ArrivedFreed'
  BY <1>4, <1>7 DEF ArrivedFreed, ueVars
<1>. QED BY <1>7, <1>9, <1>10, <1>11, <1>12, <1>13, Concludes

\* The coordinator ignores the notification of a failed handover.
LEMMA FailureArrives ==
  ASSUME HandoverInv, NEW u \in UE, NEW m \in Of(u, x2), RecvUnsupportedProcedure(m)
  PROVE  HandoverInv'
<1>1. /\ m \in Pending(u) /\ m.imsi = u /\ m.type = "NotifyCoordinatorHandoverFailed"
      /\ x2' = (x2 \ {m}) \cup {}
      /\ UNCHANGED <<coordinatorVars, cellVars, ueVars, alive>>
  BY DEF Pending, Of, RecvUnsupportedProcedure, Exchange
<1>2. Lost(u)
  BY <1>1, AtUe, MessagePhase
<1>3. TypeOK /\ RntisFresh /\ PreamblesAreForJoining /\ ArrivedFreed
  BY AtUe
<1>4. /\ \A v \in UE \ {u} : Untouched(v)
      /\ Managed(u)' = Managed(u) /\ Pending(u)' \subseteq Pending(u)
  <2>1. ueMap' = (ueMap \ {}) \cup {}
    BY <1>1 DEF cellVars
  <2>2. Managing(u, {}, {}) /\ Messaging(u, {m}, {})
    BY <1>1, <2>1 DEF Managing, Messaging
  <2>3. \A v \in UE \ {u} : Aside(v)
    BY <1>1 DEF Aside, coordinatorVars, cellVars, ueVars
  <2>4. /\ \A v \in UE \ {u} : Untouched(v)
        /\ Managed(u)' = (Managed(u) \ {}) \cup {}
        /\ Pending(u)' = (Pending(u) \ {m}) \cup {}
    BY <2>2, <2>3, OnlyMine
  <2>. QED BY <2>4
<1>5. TypeOK'
  BY <1>1, <1>3 DEF TypeOK, coordinatorVars, cellVars, ueVars
<1>6. Lost(u)'
  BY <1>1, <1>2, <1>4 DEF Lost, Quiet, coordinatorVars, ueVars
<1>7. RntisFresh' /\ PreamblesAreForJoining' /\ ArrivedFreed'
  BY <1>1, <1>3, MoreManagersFewerPreambles DEF RntisFresh, ArrivedFreed, cellVars, ueVars
<1>8. InPhase(u)'
  BY <1>6 DEF InPhase
<1>. QED BY <1>1, <1>4, <1>5, <1>7, <1>8, Concludes

-----------------------------------------------------------------------------
(* The RRC messages and the random access.                                 *)

\* The carriers of the serving UeManager are reconfigured.
LEMMA ReconfigurationCompletes ==
  ASSUME HandoverInv, NEW u \in UE, NEW k \in Of(u, ueMap),
         RecvReconfigurationCompletedAtSource(k)
  PROVE  HandoverInv'
<1>. USE Constants
<1>1. /\ TypeOK /\ RntisFresh /\ PreamblesAreForJoining /\ ArrivedFreed /\ InPhase(u)
      /\ k \in Managed(u) /\ k \in ueMap /\ k.imsi = u /\ k \in UeManager /\ k.cell \in Cell
      /\ k.state = "reconfiguration"
      /\ UNCHANGED <<coordinatorVars, imsiRnti, lastRnti, preambles, forwardTo, ueVars, alive>>
  BY AtUe DEF Managed, RecvReconfigurationCompletedAtSource
<1>2. Settled(u) \/ Arrived(u) \/ Preparing(u)
  BY <1>1, ManagerPhase
<1>3. CASE k.queued = NoCell
  <2>1. PICK new : new = [k EXCEPT !.state = "connected"]
    OBVIOUS
  <2>2. /\ new \in UeManager /\ new.state = "connected" /\ new.queued = NoCell
        /\ new.cell = k.cell /\ new.rnti = k.rnti /\ new.imsi = u
    BY <1>1, <1>3, <2>1, Restated
  <2>3. ueMap' = (ueMap \ {k}) \cup {new} /\ x2' = (x2 \ {}) \cup {}
    BY <1>3, <2>1 DEF RecvReconfigurationCompletedAtSource, Replace
  <2>4. /\ \A v \in UE \ {u} : Untouched(v)
        /\ Managed(u)' = (Managed(u) \ {k}) \cup {new}
        /\ Pending(u)' = Pending(u)
    <3>1. Managing(u, {k}, {new}) /\ Messaging(u, {}, {})
      BY <1>1, <2>2, <2>3 DEF Managing, Messaging
    <3>2. \A v \in UE \ {u} : Aside(v)
      BY <1>1 DEF Aside, coordinatorVars, ueVars
    <3>3. /\ \A v \in UE \ {u} : Untouched(v)
          /\ Managed(u)' = (Managed(u) \ {k}) \cup {new}
          /\ Pending(u)' = (Pending(u) \ {}) \cup {}
      BY <3>1, <3>2, OnlyMine
    <3>. QED BY <3>3
  <2>5. TypeOK'
    <3>1. ueMap' \subseteq UeManager
      BY <1>1, <2>2, <2>3 DEF TypeOK
    <3>. QED BY <1>1, <2>3, <3>1 DEF TypeOK, coordinatorVars, ueVars
  <2>6. ASSUME Resting(u, k) PROVE Resting(u, new)'
    BY <1>1, <2>2, <2>6 DEF Resting, Serves, At, Quiet, Moving, coordinatorVars, ueVars
  <2>7. Orders(u)' = Orders(u)
    BY <1>1 DEF Orders, Send, coordinatorVars
  <2>8. ASSUME Settled(u) PROVE InPhase(u)'
    <3>1. Resting(u, k) /\ Managed(u) = {k} /\ Pending(u) = Orders(u) /\ NoForwarding(u)
      BY <1>1, <2>8 DEF Settled
    <3>2. NoForwarding(u)' /\ Managed(u)' = {new}
      BY <1>1, <2>4, <3>1 DEF NoForwarding, Forwards
    <3>3. Settled(u)'
      BY <2>4, <2>6, <2>7, <3>1, <3>2 DEF Settled
    <3>. QED BY <3>3 DEF InPhase
  <2>9. ASSUME Arrived(u) PROVE InPhase(u)'
    <3>1. PICK o \in Managed(u) :
            /\ Resting(u, k) /\ o.state = "leaving" /\ o.cell # k.cell
            /\ Managed(u) = {k, o} /\ Pending(u) = Orders(u) \cup {Release(u, o, k)}
            /\ Forwards(u, o.cell, k.cell)
      BY <1>1, <2>9 DEF Arrived
    <3>2. Forwards(u, o.cell, new.cell)' /\ Managed(u)' = {new, o}
      BY <1>1, <2>2, <2>4, <3>1 DEF Forwards
    <3>3. Release(u, o, new)' = Release(u, o, k)
      BY <2>2 DEF Release, Send
    <3>4. Arrived(u)'
      BY <2>2, <2>4, <2>6, <2>7, <3>1, <3>2, <3>3 DEF Arrived
    <3>. QED BY <3>4 DEF InPhase
  <2>10. ~Preparing(u)
    BY <1>1, <1>3 DEF Preparing, Moving
  <2>11. InPhase(u)'
    BY <1>2, <2>8, <2>9, <2>10
  <2>12. RntisFresh' /\ PreamblesAreForJoining' /\ ArrivedFreed'
    BY <1>1, <2>2, <2>3, ReplaceKeepsRntis, ReplaceKeepsPreambles DEF ArrivedFreed, ueVars
  <2>. QED BY <1>1, <2>4, <2>5, <2>11, <2>12, Concludes
<1>4. CASE k.queued # NoCell
  <2>1. PICK new : new = [k EXCEPT !.state = "preparation"]
    OBVIOUS
  <2>2. /\ new \in UeManager /\ new.state = "preparation"
        /\ new.cell = k.cell /\ new.rnti = k.rnti /\ new.imsi = u
    BY <1>1, <2>1, Restated
  <2>3. ~Settled(u) /\ ~Arrived(u)
    BY <1>1, <1>4 DEF Settled, Arrived, Resting
  <2>4. /\ Serves(k, u) /\ At(u, k, "connected") /\ Quiet(u) /\ Moving(u)
        /\ Managed(u) = {k} /\ NoForwarding(u)
        /\ k.queued = ordered[u] /\ Pending(u) = {} /\ ordered[u] \in Cell
    BY <1>1, <1>2, <2>3 DEF Preparing, Moving
  <2>a. new.cell \in Cell /\ new.rnti \in Nat
    BY <2>2 DEF UeManager, Rnti
  <2>b. Request(new, ordered[u]) \in Message /\ Request(new, ordered[u]).imsi = u
    BY <2>2, <2>4, <2>a DEF Request, Send, Message, NoRnti, Rnti
  <2>5. PICK sent \in Message : sent = Request(new, ordered[u]) /\ sent.imsi = u
    BY <2>b
  <2>6. ueMap' = (ueMap \ {k}) \cup {new} /\ x2' = (x2 \ {}) \cup {sent}
    <3>1. sent = Request(k, k.queued)
      BY <1>1, <2>2, <2>4, <2>5 DEF Request
    <3>. QED BY <1>4, <2>1, <3>1 DEF RecvReconfigurationCompletedAtSource, Replace
  <2>7. /\ \A v \in UE \ {u} : Untouched(v)
        /\ Managed(u)' = {new} /\ Pending(u)' = {sent}
    <3>1. Managing(u, {k}, {new}) /\ Messaging(u, {}, {sent})
      BY <1>1, <2>2, <2>5, <2>6 DEF Managing, Messaging
    <3>2. \A v \in UE \ {u} : Aside(v)
      BY <1>1 DEF Aside, coordinatorVars, ueVars
    <3>3. /\ \A v \in UE \ {u} : Untouched(v)
          /\ Managed(u)' = (Managed(u) \ {k}) \cup {new}
          /\ Pending(u)' = (Pending(u) \ {}) \cup {sent}
      BY <3>1, <3>2, OnlyMine
    <3>. QED BY <2>4, <3>3
  <2>8. TypeOK'
    <3>1. ueMap' \subseteq UeManager /\ x2' \subseteq Message
      BY <1>1, <2>2, <2>5, <2>6 DEF TypeOK
    <3>. QED BY <1>1, <3>1 DEF TypeOK, coordinatorVars, ueVars
  <2>9. InPhase(u)'
    <3>1. (Serves(new, u) /\ At(u, new, "connected") /\ Quiet(u) /\ Moving(u) /\ NoForwarding(u))'
      BY <1>1, <2>2, <2>4 DEF Serves, At, Quiet, Moving, NoForwarding, Forwards,
         coordinatorVars, ueVars
    <3>2. Request(new, ordered[u])' = sent
      BY <1>1, <2>5 DEF Request, coordinatorVars
    <3>3. Preparing(u)'
      BY <2>2, <2>7, <3>1, <3>2 DEF Preparing
    <3>. QED BY <3>3 DEF InPhase
  <2>10. RntisFresh' /\ PreamblesAreForJoining' /\ ArrivedFreed'
    BY <1>1, <2>2, <2>6, ReplaceKeepsRntis, ReplaceKeepsPreambles DEF ArrivedFreed, ueVars
  <2>. QED BY <1>1, <2>7, <2>8, <2>9, <2>10, Concludes
<1>. QED BY <1>3, <1>4

\* The UE has arrived at the cell that has admitted it.
LEMMA ArrivalCompletes ==
  ASSUME HandoverInv, NEW u \in UE, NEW k \in Of(u, ueMap),
         RecvRrcConnectionReconfigurationCompleted(k)
  PROVE  HandoverInv'
<1>. USE Constants
<1>1. /\ TypeOK /\ RntisFresh /\ PreamblesAreForJoining /\ ArrivedFreed /\ InPhase(u)
      /\ k \in Managed(u) /\ k \in ueMap /\ k.imsi = u /\ k \in UeManager
      /\ k.cell \in Cell /\ k.rnti \in Nat /\ k.state = "joining"
      /\ air[u] = [type |-> "completed", cell |-> k.cell, rnti |-> k.rnti]
      /\ air' = [air EXCEPT ![u] = NoMessage]
      /\ UNCHANGED <<coordinatorVars, imsiRnti, lastRnti, preambles, forwardTo, camp, alive>>
  BY AtUe DEF Managed, Of, RecvRrcConnectionReconfigurationCompleted
<1>2. Joining(u)
  BY <1>1, CampPhase
<1>3. PICK o \in Managed(u) :
        /\ Admitted(u, o, k) /\ o.state = "leaving"
        /\ Managed(u) = {o, k} /\ Pending(u) = {} /\ Forwards(u, o.cell, k.cell)
        /\ At(u, k, "connected")
  <2>1. PICK o, j \in Managed(u) :
          /\ Admitted(u, o, j) /\ o.state = "leaving" /\ j.state = "joining"
          /\ Managed(u) = {o, j} /\ Pending(u) = {} /\ Forwards(u, o.cell, j.cell)
          /\ \/ Hears(u, "command", j) \/ Quiet(u)
             \/ At(u, j, "connected") /\ Hears(u, "completed", j)
    BY <1>2 DEF Joining
  <2>2. ~Hears(u, "command", j) /\ ~Quiet(u)
    BY <1>1 DEF Hears, Quiet, NoMessage
  <2>3. k = j
    BY <1>1, <2>1
  <2>. QED BY <2>1, <2>2, <2>3
<1>4. o.cell \in Cell /\ o.rnti \in Nat /\ o.imsi = u
  BY AtUe
<1>5. /\ k.queued = NoCell /\ k.sourceRnti = o.rnti /\ k.rnti = imsiRnti[k.cell][u]
      /\ k.cell = ordered[u] /\ k.source = o.cell
  BY <1>3 DEF Admitted
<1>6. k.rnti \notin preambles[k.cell]
  BY <1>1 DEF ArrivedFreed
<1>7. PICK new : new = [k EXCEPT !.state = "connected"]
  OBVIOUS
<1>8. /\ new \in UeManager /\ new.state = "connected" /\ new.imsi = u
      /\ new.cell = k.cell /\ new.rnti = k.rnti /\ new.queued = k.queued
      /\ new.source = k.source /\ new.sourceRnti = k.sourceRnti
  BY <1>1, <1>7, Restated
<1>9. PathSwitch(u, o, new) \in Message /\ PathSwitch(u, o, new).imsi = u
  BY <1>1, <1>4, <1>8 DEF PathSwitch, Send, Message, Rnti
<1>10. ueMap' = (ueMap \ {k}) \cup {new} /\ x2' = (x2 \ {}) \cup {PathSwitch(u, o, new)}
  <2>1. PathSwitch(u, o, new) =
          Send("SecondaryCellHandoverCompleted", k.imsi, Lte, k.sourceRnti, k.cell, k.rnti)
    BY <1>1, <1>5, <1>8 DEF PathSwitch
  <2>. QED BY <1>5, <1>7, <2>1 DEF RecvRrcConnectionReconfigurationCompleted, Replace
<1>11. /\ \A v \in UE \ {u} : Untouched(v)
       /\ Managed(u)' = {o, new} /\ Pending(u)' = {PathSwitch(u, o, new)}
  <2>1. Managing(u, {k}, {new}) /\ Messaging(u, {}, {PathSwitch(u, o, new)})
    BY <1>1, <1>8, <1>9, <1>10 DEF Managing, Messaging
  <2>2. \A v \in UE \ {u} : Aside(v)
    BY <1>1 DEF Aside, coordinatorVars, TypeOK
  <2>3. /\ \A v \in UE \ {u} : Untouched(v)
        /\ Managed(u)' = (Managed(u) \ {k}) \cup {new}
        /\ Pending(u)' = (Pending(u) \ {}) \cup {PathSwitch(u, o, new)}
    BY <2>1, <2>2, OnlyMine
  <2>4. o # k
    BY <1>1, <1>3
  <2>. QED BY <1>3, <2>3, <2>4
<1>12. TypeOK'
  <2>1. ueMap' \subseteq UeManager /\ x2' \subseteq Message
    BY <1>1, <1>8, <1>9, <1>10 DEF TypeOK
  <2>2. air' \in [UE -> RrcMessage \cup {NoMessage}]
    BY <1>1 DEF TypeOK
  <2>. QED BY <1>1, <2>1, <2>2 DEF TypeOK, coordinatorVars
<1>13. InPhase(u)'
  <2>1. Admitted(u, o, new)'
    BY <1>1, <1>3, <1>8 DEF Admitted, Serves, Moving, coordinatorVars
  <2>2. Forwards(u, o.cell, new.cell)' /\ At(u, new, "connected")'
    BY <1>1, <1>3, <1>8 DEF Forwards, At
  <2>3. Quiet(u)'
    BY <1>1 DEF Quiet, TypeOK
  <2>4. PathSwitch(u, o, new)' = PathSwitch(u, o, new)
    BY DEF PathSwitch, Send
  <2>5. Completed(u)'
    BY <1>3, <1>8, <1>11, <2>1, <2>2, <2>3, <2>4 DEF Completed
  <2>. QED BY <2>5 DEF InPhase
<1>14. RntisFresh' /\ PreamblesAreForJoining'
  BY <1>1, <1>6, <1>8, <1>10, ReplaceKeepsRntis, ReplaceKeepsPreambles
<1>15. ArrivedFreed'
  <2>1. /\ air'[u].type # "completed"
        /\ \A v \in UE : v # u => air'[v] = air[v]
    BY <1>1 DEF TypeOK, NoMessage
  <2>. QED BY <1>1, <2>1 DEF ArrivedFreed
<1>. QED BY <1>1, <1>11, <1>12, <1>13, <1>14, <1>15, Concludes

\* What changes only the UE itself changes no other UE, nor what belongs to this
\* one in the cells and on the X2.
LEMMA OnlyAtUe ==
  ASSUME TypeOK, NEW u \in UE, \A v \in UE \ {u} : camp'[v] = camp[v] /\ air'[v] = air[v],
         UNCHANGED <<coordinatorVars, ueMap, imsiRnti, forwardTo, x2>>
  PROVE  /\ \A v \in UE \ {u} : Untouched(v)
         /\ Managed(u)' = Managed(u) /\ Pending(u)' = Pending(u)
         /\ \A k, j : Admitted(u, k, j) => Admitted(u, k, j)'
         /\ \A a, b : Forwards(u, a, b) => Forwards(u, a, b)'
<1>1. \A v \in UE : Managed(v)' = Managed(v) /\ Pending(v)' = Pending(v)
  BY DEF Managed, Pending, Of
<1>2. \A v \in UE \ {u} : Untouched(v)
  BY <1>1 DEF Untouched, coordinatorVars
<1>3. ASSUME NEW k, NEW j, Admitted(u, k, j) PROVE Admitted(u, k, j)'
  BY <1>3 DEF Admitted, Serves, Moving, coordinatorVars
<1>4. ASSUME NEW a, NEW b, Forwards(u, a, b) PROVE Forwards(u, a, b)'
  BY <1>4 DEF Forwards
<1>. QED BY <1>1, <1>2, <1>3, <1>4

\* The UE follows the command to the cell that has admitted it.
LEMMA CommandArrives ==
  ASSUME HandoverInv, NEW u \in UE, DoRecvRrcConnectionReconfiguration(u)
  PROVE  HandoverInv'
<1>1. TypeOK /\ RntisFresh /\ PreamblesAreForJoining /\ ArrivedFreed /\ InPhase(u)
      /\ air[u].type = "command"
  BY AtUe DEF DoRecvRrcConnectionReconfiguration
<1>2. PICK k, j \in Managed(u) :
        /\ Admitted(u, k, j) /\ k.state = "leaving" /\ j.state = "joining"
        /\ Managed(u) = {k, j} /\ Pending(u) = {} /\ Forwards(u, k.cell, j.cell)
        /\ At(u, k, "connected") /\ Hears(u, "command", j)
  <2>1. Joining(u)
    BY <1>1, CampPhase
  <2>2. \A j : ~Hears(u, "completed", j) /\ ~Quiet(u)
    BY <1>1 DEF Hears, Quiet, NoMessage
  <2>. QED BY <2>1, <2>2 DEF Joining
<1>3. j.cell \in Cell /\ j.rnti \in Nat
  BY AtUe
<1>4. /\ camp' = [camp EXCEPT ![u] = [cell |-> j.cell, rnti |-> j.rnti, state |-> "handover"]]
      /\ air' = [air EXCEPT ![u] = NoMessage]
      /\ UNCHANGED <<coordinatorVars, cellVars, x2, alive>>
  BY <1>2 DEF DoRecvRrcConnectionReconfiguration, At, Hears
<1>5. camp'[u] = [cell |-> j.cell, rnti |-> j.rnti, state |-> "handover"]
      /\ air'[u] = NoMessage
      /\ \A v \in UE \ {u} : camp'[v] = camp[v] /\ air'[v] = air[v]
  BY <1>1, <1>4 DEF TypeOK
<1>6. /\ \A v \in UE \ {u} : Untouched(v)
      /\ Managed(u)' = Managed(u) /\ Pending(u)' = Pending(u)
      /\ \A h, i : Admitted(u, h, i) => Admitted(u, h, i)'
      /\ \A a, b : Forwards(u, a, b) => Forwards(u, a, b)'
  BY <1>1, <1>4, <1>5, OnlyAtUe DEF cellVars
<1>7. TypeOK'
  <2>1. camp' \in [UE -> [cell : CellOrNone, rnti : Rnti,
                         state : {"idle", "connected", "handover", "failed"}]]
    BY <1>1, <1>3, <1>4, Constants DEF TypeOK, Rnti
  <2>2. air' \in [UE -> RrcMessage \cup {NoMessage}]
    BY <1>1, <1>4 DEF TypeOK
  <2>. QED BY <1>1, <1>4, <2>1, <2>2 DEF TypeOK, coordinatorVars, cellVars
<1>8. InPhase(u)'
  <2>1. At(u, j, "handover")' /\ Quiet(u)'
    BY <1>5 DEF At, Quiet
  <2>2. Joining(u)'
    BY <1>2, <1>6, <2>1 DEF Joining
  <2>. QED BY <2>2 DEF InPhase
<1>9. RntisFresh' /\ PreamblesAreForJoining'
  BY <1>1, <1>4, MoreManagersFewerPreambles DEF RntisFresh, cellVars
<1>10. ArrivedFreed'
  BY <1>1, <1>4, <1>5 DEF ArrivedFreed, NoMessage, cellVars
<1>. QED BY <1>4, <1>6, <1>7, <1>8, <1>9, <1>10, Concludes

\* The command does not reach the UE, or its random access fails.
LEMMA UeIsLost ==
  ASSUME HandoverInv, NEW u \in UE, HandoverCommandLost(u) \/ DoNotifyRandomAccessFailed(u)
  PROVE  HandoverInv'
<1>1. TypeOK /\ RntisFresh /\ PreamblesAreForJoining /\ ArrivedFreed /\ InPhase(u)
  BY AtUe
<1>2. Joining(u)
  BY <1>1, CampPhase DEF HandoverCommandLost, DoNotifyRandomAccessFailed
<1>3. PICK k, j \in Managed(u) :
        /\ Admitted(u, k, j) /\ k.state = "leaving" /\ j.state = "joining"
        /\ Managed(u) = {k, j} /\ Pending(u) = {}
  BY <1>2 DEF Joining
<1>4. lastCell[u] \in Cell /\ ~setupCompleted[u]
  BY <1>3 DEF Admitted, Serves, Moving
<1>5. camp[u].state = "handover" => Quiet(u)
  BY <1>2 DEF Joining, At
<1>6. /\ camp' = [camp EXCEPT ![u].state = "failed"]
      /\ air' = [air EXCEPT ![u] = NoMessage]
      /\ UNCHANGED <<coordinatorVars, cellVars, x2, alive>>
  <2>1. CASE HandoverCommandLost(u)
    BY <2>1 DEF HandoverCommandLost
  <2>2. CASE DoNotifyRandomAccessFailed(u)
    <3>1. air[u] = NoMessage /\ air' = air
      BY <1>5, <2>2 DEF DoNotifyRandomAccessFailed, Quiet
    <3>2. air = [air EXCEPT ![u] = NoMessage]
      BY <1>1, <3>1 DEF TypeOK
    <3>. QED BY <2>2, <3>1, <3>2 DEF DoNotifyRandomAccessFailed
  <2>. QED BY <2>1, <2>2
<1>7. /\ camp'[u].state = "failed" /\ air'[u] = NoMessage
      /\ \A v \in UE \ {u} : camp'[v] = camp[v] /\ air'[v] = air[v]
  BY <1>1, <1>6 DEF TypeOK
<1>8. /\ \A v \in UE \ {u} : Untouched(v)
      /\ Managed(u)' = Managed(u) /\ Pending(u)' = Pending(u)
  BY <1>1, <1>6, <1>7, OnlyAtUe DEF cellVars
<1>9. TypeOK'
  <2>1. camp' \in [UE -> [cell : CellOrNone, rnti : Rnti,
                         state : {"idle", "connected", "handover", "failed"}]]
    BY <1>1, <1>6 DEF TypeOK
  <2>2. air' \in [UE -> RrcMessage \cup {NoMessage}]
    BY <1>1, <1>6 DEF TypeOK
  <2>. QED BY <1>1, <1>6, <2>1, <2>2 DEF TypeOK, coordinatorVars, cellVars
<1>10. Lost(u)'
  BY <1>3, <1>4, <1>6, <1>7, <1>8 DEF Lost, Quiet, coordinatorVars
<1>11. RntisFresh' /\ PreamblesAreForJoining'
  BY <1>1, <1>6, MoreManagersFewerPreambles DEF RntisFresh, cellVars
<1>12. ArrivedFreed'
  BY <1>1, <1>6, <1>7 DEF ArrivedFreed, NoMessage, cellVars
<1>13. InPhase(u)'
  BY <1>10 DEF InPhase
<1>. QED BY <1>6, <1>8, <1>9, <1>11, <1>12, <1>13, Concludes

\* The target has heard the preamble, which it frees.
LEMMA AccessSucceeds ==
  ASSUME HandoverInv, NEW u \in UE, DoNotifyRandomAccessSuccessful(u)
  PROVE  HandoverInv'
<1>1. TypeOK /\ RntisFresh /\ PreamblesAreForJoining /\ ArrivedFreed /\ InPhase(u)
      /\ camp[u].state = "handover"
      /\ UNCHANGED <<coordinatorVars, ueMap, imsiRnti, lastRnti, forwardTo, x2, alive>>
  BY AtUe DEF DoNotifyRandomAccessSuccessful
<1>2. PICK k, j \in Managed(u) :
        /\ Admitted(u, k, j) /\ k.state = "leaving" /\ j.state = "joining"
        /\ Managed(u) = {k, j} /\ Pending(u) = {} /\ Forwards(u, k.cell, j.cell)
        /\ At(u, j, "handover")
  <2>1. Joining(u)
    BY <1>1, CampPhase
  <2>2. \A i : ~At(u, i, "connected")
    BY <1>1 DEF At
  <2>. QED BY <2>1, <2>2 DEF Joining
<1>3. j.cell \in Cell /\ j.rnti \in Nat /\ j \in ueMap
  BY AtUe
<1>4. PICK c \in Cell, r \in Nat : c = j.cell /\ r = j.rnti
  BY <1>3
<1>5. camp[u].cell = c /\ camp[u].rnti = r /\ r <= lastRnti[c]
  BY <1>1, <1>2, <1>3, <1>4 DEF At, RntisFresh
<1>6. /\ camp' = [camp EXCEPT ![u].state = "connected"]
      /\ preambles' = [preambles EXCEPT ![c] = @ \ {r}]
      /\ air' = [air EXCEPT ![u] = [type |-> "completed", cell |-> c, rnti |-> r]]
  BY <1>5 DEF DoNotifyRandomAccessSuccessful
<1>7. /\ camp'[u] = [cell |-> c, rnti |-> r, state |-> "connected"]
      /\ air'[u] = [type |-> "completed", cell |-> c, rnti |-> r]
      /\ \A v \in UE \ {u} : camp'[v] = camp[v] /\ air'[v] = air[v]
      /\ r \notin preambles'[c] /\ \A d \in Cell : preambles'[d] \subseteq preambles[d]
  <2>1. camp[u] = [cell |-> c, rnti |-> r, state |-> "handover"]
    BY <1>2, <1>4 DEF At
  <2>2. camp'[u] = [cell |-> c, rnti |-> r, state |-> "connected"]
    BY <1>1, <1>6, <2>1 DEF TypeOK
  <2>. QED BY <1>1, <1>6, <2>2 DEF TypeOK
<1>8. /\ \A v \in UE \ {u} : Untouched(v)
      /\ Managed(u)' = Managed(u) /\ Pending(u)' = Pending(u)
      /\ \A h, i : Admitted(u, h, i) => Admitted(u, h, i)'
      /\ \A a, b : Forwards(u, a, b) => Forwards(u, a, b)'
  BY <1>1, <1>7, OnlyAtUe
<1>9. TypeOK'
  <2>1. camp' \in [UE -> [cell : CellOrNone, rnti : Rnti,
                         state : {"idle", "connected", "handover", "failed"}]]
    BY <1>1, <1>6 DEF TypeOK
  <2>2. [type |-> "completed", cell |-> c, rnti |-> r] \in RrcMessage
    BY <1>4 DEF RrcMessage, Rnti
  <2>3. air' \in [UE -> RrcMessage \cup {NoMessage}]
    BY <1>1, <1>6, <2>2 DEF TypeOK
  <2>4. preambles' \in [Cell -> SUBSET Rnti]
    BY <1>1, <1>6 DEF TypeOK
  <2>. QED BY <1>1, <2>1, <2>3, <2>4 DEF TypeOK, coordinatorVars
<1>10. InPhase(u)'
  <2>1. At(u, j, "connected")' /\ Hears(u, "completed", j)'
    BY <1>4, <1>7 DEF At, Hears
  <2>2. Joining(u)'
    BY <1>2, <1>8, <2>1 DEF Joining
  <2>. QED BY <2>2 DEF InPhase
<1>11. RntisFresh' /\ PreamblesAreForJoining'
  BY <1>1, <1>7, MoreManagersFewerPreambles DEF RntisFresh
<1>12. ArrivedFreed'
  <2>1. ASSUME NEW v \in UE, v # u, air'[v].type = "completed"
        PROVE  /\ air'[v].rnti <= lastRnti'[air'[v].cell]
               /\ air'[v].rnti \notin preambles'[air'[v].cell]
    <3>1. air'[v] = air[v] /\ air[v].type = "completed" /\ air[v].cell \in Cell
      BY <1>1, <1>7, <2>1, Fields
    <3>. QED BY <1>1, <1>7, <3>1 DEF ArrivedFreed
  <2>2. air'[u].rnti <= lastRnti'[air'[u].cell] /\ air'[u].rnti \notin preambles'[air'[u].cell]
    BY <1>1, <1>5, <1>7
  <2>. QED BY <2>1, <2>2 DEF ArrivedFreed
<1>. QED BY <1>1, <1>8, <1>9, <1>10, <1>11, <1>12, Concludes

-----------------------------------------------------------------------------
(* The timers, which fire only for a UE that is lost.                      *)

\* What a timer changes of a lost UE: its UeManagers, its preambles and the
\* notification.
LEMMA LostStays ==
  ASSUME HandoverInv, NEW u \in UE, Lost(u), NEW gone, NEW come, NEW sent,
         Managing(u, gone, come), Messaging(u, {}, sent), come \subseteq UeManager,
         sent \subseteq Message,
         \A k \in come : k.state \in {"leaving", "joining", "expired"},
         \A m \in sent : m.type = "NotifyCoordinatorHandoverFailed",
         \A c \in Cell : preambles'[c] \subseteq preambles[c],
         preambles' \in [Cell -> SUBSET Rnti],
         RntisFresh', PreamblesAreForJoining',
         UNCHANGED <<coordinatorVars, imsiRnti, lastRnti, forwardTo, ueVars, alive>>
  PROVE  HandoverInv'
<1>1. TypeOK /\ ArrivedFreed
  BY AtUe
<1>2. /\ \A v \in UE \ {u} : Untouched(v)
      /\ Managed(u)' = (Managed(u) \ gone) \cup come
      /\ Pending(u)' = (Pending(u) \ {}) \cup sent
  <2>1. \A v \in UE \ {u} : Aside(v)
    BY DEF Aside, coordinatorVars, ueVars
  <2>. QED BY <2>1, OnlyMine
<1>3. TypeOK'
  <2>1. ueMap' \subseteq UeManager /\ x2' \subseteq Message
    BY <1>1 DEF TypeOK, Managing, Messaging
  <2>. QED BY <1>1, <2>1 DEF TypeOK, coordinatorVars, ueVars
<1>4. Lost(u)'
  BY <1>2 DEF Lost, Quiet, coordinatorVars, ueVars
<1>5. ArrivedFreed'
  <2>1. ASSUME NEW v \in UE, air[v].type = "completed"
        PROVE  air[v].rnti \notin preambles'[air[v].cell]
    BY <1>1, <2>1, Fields DEF ArrivedFreed
  <2>. QED BY <1>1, <2>1 DEF ArrivedFreed, ueVars
<1>6. InPhase(u)'
  BY <1>4 DEF InPhase
<1>. QED BY <1>2, <1>3, <1>5, <1>6, Concludes

LEMMA Timeouts ==
  ASSUME HandoverInv, NEW u \in UE, NEW k \in Of(u, ueMap),
         \/ HandoverLeavingTimeout(k) \/ HandoverJoiningTimeout(k)
         \/ RemoveUe(k) \/ PreambleExpires(k)
  PROVE  HandoverInv'
<1>1. /\ TypeOK /\ RntisFresh /\ PreamblesAreForJoining /\ ArrivedFreed /\ InPhase(u)
      /\ k \in Managed(u) /\ k \in ueMap /\ k.imsi = u /\ k \in UeManager
      /\ k.cell \in Cell /\ k.rnti \in Nat
  BY AtUe DEF Managed, Of
<1>2. Lost(u)
  BY <1>1, CampPhase, ManagerPhase
     DEF HandoverLeavingTimeout, HandoverJoiningTimeout, RemoveUe, PreambleExpires
<1>3. preambles \in [Cell -> SUBSET Rnti]
  BY <1>1 DEF TypeOK
<1>4. ASSUME HandoverLeavingTimeout(k) \/ RemoveUe(k) PROVE HandoverInv'
  <2>1. /\ ueMap' = (ueMap \ {k}) \cup {} /\ x2' = (x2 \ {}) \cup {} /\ k.state # "joining"
        /\ UNCHANGED <<coordinatorVars, imsiRnti, lastRnti, preambles, forwardTo, ueVars, alive>>
    BY <1>4 DEF HandoverLeavingTimeout, RemoveUe
  <2>2. Managing(u, {k}, {}) /\ Messaging(u, {}, {})
    BY <1>1, <2>1 DEF Managing, Messaging
  <2>3. RntisFresh' /\ PreamblesAreForJoining'
    BY <1>1, <2>1, RemoveKeepsRntis, RemoveKeepsPreambles
  <2>4. \A c \in Cell : preambles'[c] \subseteq preambles[c]
    BY <2>1
  <2>. QED BY <1>2, <1>3, <2>1, <2>2, <2>3, <2>4, LostStays
<1>5. ASSUME HandoverJoiningTimeout(k) PROVE HandoverInv'
  <2>1. /\ k.rnti \notin preambles[k.cell]
        /\ UNCHANGED <<coordinatorVars, imsiRnti, lastRnti, preambles, forwardTo, ueVars, alive>>
    BY <1>5 DEF HandoverJoiningTimeout
  <2>2. PICK new : new = [k EXCEPT !.state = "expired"]
    OBVIOUS
  <2>3. /\ new \in UeManager /\ new.state = "expired"
        /\ new.cell = k.cell /\ new.rnti = k.rnti /\ new.imsi = u
    BY <1>1, <2>2, Restated
  <2>4. PICK sent : sent = Send("NotifyCoordinatorHandoverFailed", u, Lte, NoRnti, k.cell, k.rnti)
    OBVIOUS
  <2>5. sent \in Message /\ sent.type = "NotifyCoordinatorHandoverFailed" /\ sent.imsi = u
    BY <1>1, <2>4 DEF Send, Message, Rnti, NoRnti
  <2>6. ueMap' = (ueMap \ {k}) \cup {new} /\ x2' = (x2 \ {}) \cup {sent}
    BY <1>1, <1>5, <2>2, <2>4 DEF HandoverJoiningTimeout, Replace
  <2>7. Managing(u, {k}, {new}) /\ Messaging(u, {}, {sent})
    BY <1>1, <2>3, <2>5, <2>6 DEF Managing, Messaging
  <2>8. RntisFresh' /\ PreamblesAreForJoining'
    BY <1>1, <2>1, <2>3, <2>6, ReplaceKeepsRntis, ReplaceKeepsPreambles
  <2>9. \A c \in Cell : preambles'[c] \subseteq preambles[c]
    BY <2>1
  <2>. QED BY <1>2, <1>3, <2>1, <2>3, <2>5, <2>7, <2>8, <2>9, LostStays
<1>6. ASSUME PreambleExpires(k) PROVE HandoverInv'
  <2>1. /\ preambles' = [preambles EXCEPT ![k.cell] = @ \ {k.rnti}]
        /\ ueMap' = (ueMap \ {}) \cup {} /\ x2' = (x2 \ {}) \cup {}
        /\ UNCHANGED <<coordinatorVars, imsiRnti, lastRnti, forwardTo, ueVars, alive>>
    BY <1>6 DEF PreambleExpires
  <2>2. Managing(u, {}, {}) /\ Messaging(u, {}, {})
    BY <2>1 DEF Managing, Messaging
  <2>3. /\ preambles' \in [Cell -> SUBSET Rnti]
        /\ \A c \in Cell : preambles'[c] \subseteq preambles[c]
    BY <1>3, <2>1
  <2>4. RntisFresh' /\ PreamblesAreForJoining'
    BY <1>1, <2>1, <2>3, MoreManagersFewerPreambles DEF RntisFresh
  <2>. QED BY <1>2, <2>1, <2>2, <2>3, <2>4, LostStays
<1>. QED BY <1>4, <1>5, <1>6

-----------------------------------------------------------------------------
(* The coordinator's own steps.                                            *)

LEMMA UeAttaches ==
  ASSUME HandoverInv, NEW u \in UE, NEW c \in Cell, FirstAccess(u, c)
  PROVE  HandoverInv'
<1>. USE Constants
<1>1. TypeOK /\ RntisFresh /\ PreamblesAreForJoining /\ ArrivedFreed /\ InPhase(u)
      /\ lastCell[u] = NoCell
      /\ UNCHANGED <<preambles, forwardTo, x2, air, ordered, alive, orders>>
  BY AtUe DEF FirstAccess
<1>2. Unattached(u)
  BY <1>1, CampPhase
<1>3. PICK rnti \in Nat : rnti = lastRnti[c] + 1 /\ lastRnti[c] \in Nat
  BY <1>1, Fields
<1>4. PICK state \in {"connected", "reconfiguration"} :
        ueMap' = ueMap \cup
          {[cell |-> c, rnti |-> rnti, imsi |-> u, state |-> state,
            source |-> NoCell, sourceRnti |-> NoRnti, queued |-> NoCell]}
  BY <1>3 DEF FirstAccess
<1>5. PICK k : k = [cell |-> c, rnti |-> rnti, imsi |-> u, state |-> state,
                    source |-> NoCell, sourceRnti |-> NoRnti, queued |-> NoCell]
  OBVIOUS
<1>6. /\ k \in UeManager /\ k.cell = c /\ k.rnti = rnti /\ k.imsi = u
      /\ k.state = state /\ k.queued = NoCell
  BY <1>5 DEF UeManager, Rnti, NoRnti
<1>7. /\ ueMap' = (ueMap \ {}) \cup {k} /\ x2' = (x2 \ {}) \cup {}
      /\ lastRnti' = [lastRnti EXCEPT ![c] = rnti]
      /\ imsiRnti' = [imsiRnti EXCEPT ![c][u] = rnti]
      /\ camp' = [camp EXCEPT ![u] = [cell |-> c, rnti |-> rnti, state |-> "connected"]]
      /\ lastCell' = [lastCell EXCEPT ![u] = c]
      /\ setupCompleted' = [setupCompleted EXCEPT ![u] = TRUE]
      /\ pdcpTarget' = [pdcpTarget EXCEPT ![u] = [b \in 1 .. Bearers |-> c]]
  BY <1>1, <1>3, <1>4, <1>5 DEF FirstAccess
<1>8. /\ \A v \in UE \ {u} : Untouched(v)
      /\ Managed(u)' = {k} /\ Pending(u)' = {}
  <2>1. Managing(u, {}, {k}) /\ Messaging(u, {}, {})
    BY <1>6, <1>7 DEF Managing, Messaging
  <2>2. \A d \in Cell, v \in UE : v # u => imsiRnti'[d][v] = imsiRnti[d][v]
    BY <1>1, <1>7 DEF TypeOK
  <2>3. \A v \in UE \ {u} : Aside(v)
    BY <1>1, <1>7, <2>2 DEF Aside, TypeOK
  <2>4. /\ \A v \in UE \ {u} : Untouched(v)
        /\ Managed(u)' = (Managed(u) \ {}) \cup {k}
        /\ Pending(u)' = (Pending(u) \ {}) \cup {}
    BY <2>1, <2>3, OnlyMine
  <2>. QED BY <1>2, <2>4 DEF Unattached
<1>9. TypeOK'
  <2>1. ueMap' \subseteq UeManager
    BY <1>1, <1>6, <1>7 DEF TypeOK
  <2>2. imsiRnti' \in [Cell -> [UE -> Rnti]] /\ lastRnti' \in [Cell -> Rnti]
    BY <1>1, <1>7 DEF TypeOK, Rnti
  <2>3. camp' \in [UE -> [cell : CellOrNone, rnti : Rnti,
                         state : {"idle", "connected", "handover", "failed"}]]
    BY <1>1, <1>7 DEF TypeOK, Rnti
  <2>4. lastCell' \in [UE -> CellOrNone] /\ setupCompleted' \in [UE -> BOOLEAN]
    BY <1>1, <1>7 DEF TypeOK
  <2>5. pdcpTarget' \in [UE -> [1 .. Bearers -> CellOrNone]]
    BY <1>1, <1>7 DEF TypeOK
  <2>. QED BY <1>1, <2>1, <2>2, <2>3, <2>4, <2>5 DEF TypeOK
<1>10. InPhase(u)'
  <2>1. lastCell'[u] = c /\ setupCompleted'[u] = TRUE /\ pdcpTarget'[u][1] = c
    BY <1>1, <1>7 DEF TypeOK
  <2>2. imsiRnti'[c][u] = rnti
    BY <1>1, <1>7 DEF TypeOK
  <2>3. camp'[u] = [cell |-> c, rnti |-> rnti, state |-> "connected"]
    BY <1>1, <1>7 DEF TypeOK
  <2>4. Serves(k, u)' /\ At(u, k, "connected")'
    BY <1>6, <2>1, <2>2, <2>3 DEF Serves, At
  <2>5. Quiet(u)' /\ NoForwarding(u)'
    BY <1>1, <1>2 DEF Unattached, Quiet, NoForwarding, Forwards
  <2>6. Resting(u, k)' /\ Orders(u)' = {}
    BY <1>6, <2>1, <2>4, <2>5 DEF Resting, Orders
  <2>7. Settled(u)'
    BY <1>8, <2>5, <2>6 DEF Settled
  <2>. QED BY <2>7 DEF InPhase
<1>11. /\ lastRnti'[c] = rnti /\ \A d \in Cell : d # c => lastRnti'[d] = lastRnti[d]
  BY <1>1, <1>7 DEF TypeOK
<1>12. RntisFresh'
  BY <1>1, <1>3, <1>6, <1>7, <1>11, Fields DEF RntisFresh
<1>13. PreamblesAreForJoining'
  BY <1>1, <1>7, MoreManagersFewerPreambles
<1>14. ArrivedFreed'
  <2>1. ASSUME NEW v \in UE, air[v].type = "completed"
        PROVE  /\ air[v].rnti <= lastRnti'[air[v].cell]
               /\ air[v].rnti \notin preambles[air[v].cell]
    <3>1. /\ air[v].cell \in Cell /\ air[v].rnti \in Nat
          /\ air[v].rnti <= lastRnti[air[v].cell]
          /\ air[v].rnti \notin preambles[air[v].cell]
      BY <1>1, <2>1, Fields DEF ArrivedFreed
    <3>2. PICK d \in Cell : d = air[v].cell
      BY <3>1
    <3>3. PICK r \in Nat : r = air[v].rnti
      BY <3>1
    <3>4. r <= lastRnti'[d]
      <4>1. r <= lastRnti[d] /\ lastRnti[d] \in Nat
        BY <1>1, <3>1, <3>2, <3>3, Fields
      <4>2. CASE d = c
        BY <1>3, <1>11, <4>1, <4>2
      <4>3. CASE d # c
        BY <1>11, <4>1, <4>3
      <4>. QED BY <4>2, <4>3
    <3>. QED BY <3>1, <3>2, <3>3, <3>4
  <2>. QED BY <1>1, <2>1 DEF ArrivedFreed
<1>. QED BY <1>1, <1>8, <1>9, <1>10, <1>12, <1>13, <1>14, Concludes

LEMMA OrderLeaves ==
  ASSUME HandoverInv, NEW u \in UE, NEW c \in Cell, OrderHandover(u, c)
  PROVE  HandoverInv'
<1>. USE Constants
<1>1. /\ TypeOK /\ RntisFresh /\ PreamblesAreForJoining /\ ArrivedFreed /\ InPhase(u)
      /\ setupCompleted[u] /\ lastCell[u] # c /\ orders < MaxOrders
      /\ UNCHANGED <<lastCell, pdcpTarget, cellVars, ueVars, alive>>
  BY AtUe DEF OrderHandover, MayOrder
<1>2. Settled(u) \/ Arrived(u)
  BY <1>1, CampPhase
<1>3. lastCell[u] \in Cell /\ Orders(u) = {}
  BY <1>1, <1>2 DEF Settled, Arrived, Resting, Serves, Orders
<1>4. PICK m : m = Send("McHandoverRequest", u, lastCell[u], NoRnti, c, NoRnti)
  OBVIOUS
<1>5. m \in Message /\ m.imsi = u
  BY <1>3, <1>4 DEF Send, Message, NoRnti, Rnti
<1>6. /\ x2' = (x2 \ {}) \cup {m}
      /\ setupCompleted' = [setupCompleted EXCEPT ![u] = FALSE]
      /\ ordered' = [ordered EXCEPT ![u] = c] /\ orders' = orders + 1
  BY <1>4 DEF OrderHandover
<1>7. /\ \A v \in UE \ {u} : Untouched(v)
      /\ Managed(u)' = Managed(u) /\ Pending(u)' = Pending(u) \cup {m}
  <2>1. ueMap' = (ueMap \ {}) \cup {}
    BY <1>1 DEF cellVars
  <2>2. Managing(u, {}, {}) /\ Messaging(u, {}, {m})
    BY <1>5, <1>6, <2>1 DEF Managing, Messaging
  <2>3. \A v \in UE \ {u} : Aside(v)
    BY <1>1, <1>6 DEF Aside, cellVars, ueVars, TypeOK
  <2>4. /\ \A v \in UE \ {u} : Untouched(v)
        /\ Managed(u)' = (Managed(u) \ {}) \cup {}
        /\ Pending(u)' = (Pending(u) \ {}) \cup {m}
    BY <2>2, <2>3, OnlyMine
  <2>. QED BY <2>4
<1>8. TypeOK'
  <2>1. setupCompleted' \in [UE -> BOOLEAN] /\ ordered' \in [UE -> CellOrNone]
    BY <1>1, <1>6 DEF TypeOK
  <2>2. orders' \in 0 .. MaxOrders /\ x2' \subseteq Message
    BY <1>1, <1>5, <1>6 DEF TypeOK
  <2>. QED BY <1>1, <2>1, <2>2 DEF TypeOK, cellVars, ueVars
<1>9. InPhase(u)'
  <2>1. setupCompleted'[u] = FALSE /\ ordered'[u] = c
    BY <1>1, <1>6 DEF TypeOK
  <2>2. Moving(u)'
    BY <1>1, <2>1 DEF Moving
  <2>3. Orders(u)' = {m}
    BY <1>1, <1>4, <2>1 DEF Orders
  <2>4. ASSUME NEW k \in Managed(u), Resting(u, k) PROVE Resting(u, k)'
    BY <1>1, <2>2, <2>4 DEF Resting, Serves, At, Quiet, cellVars, ueVars
  <2>5. \A a, b : Forwards(u, a, b) => Forwards(u, a, b)'
    BY <1>1 DEF Forwards, cellVars
  <2>6. ASSUME Settled(u) PROVE Settled(u)'
    <3>1. PICK k \in Managed(u) :
            Resting(u, k) /\ Managed(u) = {k} /\ Pending(u) = Orders(u) /\ NoForwarding(u)
      BY <2>6 DEF Settled
    <3>2. NoForwarding(u)' /\ Resting(u, k)'
      BY <2>4, <2>5, <3>1 DEF NoForwarding
    <3>. QED BY <1>3, <1>7, <2>3, <3>1, <3>2 DEF Settled
  <2>7. ASSUME Arrived(u) PROVE Arrived(u)'
    <3>1. PICK k, o \in Managed(u) :
            /\ Resting(u, k) /\ o.state = "leaving" /\ o.cell # k.cell
            /\ Managed(u) = {k, o} /\ Pending(u) = Orders(u) \cup {Release(u, o, k)}
            /\ Forwards(u, o.cell, k.cell)
      BY <2>7 DEF Arrived
    <3>2. Forwards(u, o.cell, k.cell)' /\ Resting(u, k)'
      BY <2>4, <2>5, <3>1
    <3>3. Release(u, o, k)' = Release(u, o, k)
      BY DEF Release, Send
    <3>4. Pending(u)' = Orders(u)' \cup {Release(u, o, k)}
      BY <1>3, <1>7, <2>3, <3>1
    <3>. QED BY <1>7, <3>1, <3>2, <3>3, <3>4 DEF Arrived
  <2>. QED BY <1>2, <2>6, <2>7 DEF InPhase
<1>10. RntisFresh' /\ PreamblesAreForJoining' /\ ArrivedFreed'
  BY <1>1, MoreManagersFewerPreambles DEF RntisFresh, ArrivedFreed, cellVars, ueVars
<1>. QED BY <1>1, <1>7, <1>8, <1>9, <1>10, Concludes

-----------------------------------------------------------------------------
(* The theorems.                                                           *)

\* Nothing is attached at the start.
LEMMA Begins == Init => HandoverInv
<1>. SUFFICES ASSUME Init PROVE HandoverInv
  OBVIOUS
<1>. USE Constants DEF Init
<1>1. TypeOK
  <2>1. /\ imsiRnti \in [Cell -> [UE -> Rnti]] /\ lastRnti \in [Cell -> Rnti]
        /\ preambles \in [Cell -> SUBSET Rnti] /\ forwardTo \in [Cell -> [UE -> CellOrNone]]
    BY DEF NoRnti, Rnti
  <2>2. /\ camp \in [UE -> [cell : CellOrNone, rnti : Rnti,
                           state : {"idle", "connected", "handover", "failed"}]]
        /\ pdcpTarget \in [UE -> [1 .. Bearers -> CellOrNone]]
    BY DEF NoRnti, Rnti
  <2>3. orders \in 0 .. MaxOrders
    BY DEF NoRnti
  <2>. QED BY <2>1, <2>2, <2>3 DEF TypeOK
<1>2. ASSUME NEW u \in UE PROVE InPhase(u)
  <2>1. Managed(u) = {} /\ Pending(u) = {}
    BY DEF Managed, Pending, Of
  <2>2. Unattached(u)
    BY <2>1 DEF Unattached, Quiet, NoForwarding, Forwards
  <2>. QED BY <2>2 DEF InPhase
<1>3. NoAbort /\ RntisFresh /\ PreamblesAreForJoining /\ ArrivedFreed
  BY DEF NoAbort, RntisFresh, PreamblesAreForJoining, ArrivedFreed, NoMessage
<1>. QED BY <1>1, <1>2, <1>3 DEF HandoverInv, Phases

LEMMA Stutters == HandoverInv /\ UNCHANGED vars => HandoverInv'
<1>. SUFFICES ASSUME HandoverInv, UNCHANGED vars PROVE HandoverInv'
  OBVIOUS
<1>. USE DEF vars, coordinatorVars, cellVars, ueVars
<1>1. ASSUME NEW u \in UE PROVE InPhase(u)'
  <2>1. Untouched(u)
    BY DEF Untouched, Managed, Pending, Of
  <2>. QED BY <2>1, AtUe, OthersStay
<1>2. TypeOK' /\ NoAbort' /\ RntisFresh' /\ PreamblesAreForJoining' /\ ArrivedFreed'
  BY DEF HandoverInv, TypeOK, NoAbort, RntisFresh, PreamblesAreForJoining, Managers, ArrivedFreed
<1>. QED BY <1>1, <1>2 DEF HandoverInv, Phases

\* Every action takes its UE from a phase to a phase.
LEMMA Steps == HandoverInv /\ [Next]_vars => HandoverInv'
<1>. SUFFICES ASSUME HandoverInv, [Next]_vars PROVE HandoverInv'
  OBVIOUS
<1>1. ASSUME NEW u \in UE, NEW c \in Cell, FirstAccess(u, c) \/ OrderHandover(u, c)
      PROVE  HandoverInv'
  BY <1>1, UeAttaches, OrderLeaves
<1>2. ASSUME NEW u \in UE, ReceiveX2(u) PROVE HandoverInv'
  BY <1>2, OrderArrives, RequestArrives, AcknowledgementArrives, RefusalArrives,
     CompletionArrives, ReleaseArrives, FailureArrives DEF ReceiveX2
<1>3. ASSUME NEW u \in UE, ReceiveRrc(u) PROVE HandoverInv'
  BY <1>3, ReconfigurationCompletes, ArrivalCompletes, CommandArrives, UeIsLost,
     AccessSucceeds DEF ReceiveRrc
<1>4. ASSUME NEW u \in UE, Timeout(u) PROVE HandoverInv'
  BY <1>4, Timeouts DEF Timeout
<1>. QED BY <1>1, <1>2, <1>3, <1>4, Stutters DEF Next, Proceed

\* At every moment every UE is in one of the phases of a handover: the UeManagers
\* two cells keep for it, its messages on the X2, its camping, its forwarding and
\* the coordinator's record fit together, whatever other UEs do.
THEOREM AlwaysInPhase == Spec => []HandoverInv
BY Begins, Steps, PTL DEF Spec

\* The variables keep their types.
THEOREM TypesKept == Spec => []TypeOK
<1>1. HandoverInv => TypeOK
  BY DEF HandoverInv
<1>. QED BY <1>1, AlwaysInPhase, PTL

\* No handler of the procedure finds a UeManager missing, or in a state that
\* refuses its message, or without its TEIDs.
THEOREM NeverAborts == Spec => []NoAbort
<1>1. HandoverInv => NoAbort
  BY DEF HandoverInv
<1>. QED BY <1>1, AlwaysInPhase, PTL

\* A preamble is only held for a UE on its way, for any number of preambles.
THEOREM PreamblesNotLost == Spec => []PreamblesAreForJoining
<1>1. HandoverInv => PreamblesAreForJoining
  BY DEF HandoverInv
<1>. QED BY <1>1, AlwaysInPhase, PTL

\* A UE that the coordinator takes for settled is served where it is recorded.
THEOREM SettledIsServed == Spec => []ServedWhereRecorded
<1>1. HandoverInv => ServedWhereRecorded
  <2>1. SUFFICES ASSUME HandoverInv, NEW u \in UE, setupCompleted[u]
                 PROVE  LET c == lastCell[u] IN
                   /\ camp[u] = [cell |-> c, rnti |-> imsiRnti[c][u], state |-> "connected"]
                   /\ \E k \in Managers(c, imsiRnti[c][u]) :
                        k.imsi = u /\ k.state \in {"connected", "reconfiguration"}
                   /\ pdcpTarget[u][1] = c
    BY DEF ServedWhereRecorded
  <2>2. TypeOK /\ InPhase(u) /\ \A k \in Managed(u) : k \in ueMap /\ k.imsi = u
    BY <2>1, AtUe
  <2>3. Settled(u) \/ Arrived(u)
    BY <2>1, <2>2, CampPhase
  <2>4. PICK k \in Managed(u) : Resting(u, k)
    BY <2>3 DEF Settled, Arrived
  <2>5. k \in ueMap /\ k.imsi = u /\ k.state \in {"connected", "reconfiguration"}
        /\ k.cell = lastCell[u] /\ k.rnti = imsiRnti[lastCell[u]][u]
        /\ camp[u] = [cell |-> k.cell, rnti |-> k.rnti, state |-> "connected"]
        /\ pdcpTarget[u][1] = lastCell[u]
    BY <2>2, <2>4 DEF Resting, Serves, At
  <2>. QED BY <2>5 DEF Managers
<1>. QED BY <1>1, AlwaysInPhase, PTL

\* Data that a cell forwards reaches a cell that knows the UE, or the UE is lost.
THEOREM ForwardingArrives == Spec => []ForwardsToUe
<1>1. HandoverInv => ForwardsToUe
  <2>1. SUFFICES ASSUME HandoverInv, NEW c \in Cell, NEW u \in UE, forwardTo[c][u] # NoCell,
                        camp[u].state # "failed"
                 PROVE  \E k \in ueMap : k.cell = forwardTo[c][u] /\ k.imsi = u
    BY DEF ForwardsToUe
  <2>2. InPhase(u) /\ \A k \in Managed(u) : k \in ueMap /\ k.imsi = u
    BY <2>1, AtUe
  <2>3. ~Unattached(u) /\ ~Settled(u) /\ ~Preparing(u) /\ ~Acknowledged(u) /\ ~Lost(u)
    BY <2>1 DEF Unattached, Settled, Preparing, Acknowledged, Lost, NoForwarding, Forwards
  <2>4. PICK from, k \in Managed(u) : Forwards(u, from.cell, k.cell)
    BY <2>2, <2>3 DEF InPhase, Arrived, Joining, Completed
  <2>5. forwardTo[c][u] = k.cell
    BY <2>1, <2>4 DEF Forwards
  <2>. QED BY <2>2, <2>5
<1>. QED BY <1>1, AlwaysInPhase, PTL

-----------------------------------------------------------------------------
(* The refinement.                                                         *)

\* The goal of each UE, as ImplementsDualConnectivity derives it.
Goal == [u \in UE |-> IF lastCell[u] # NoCell /\ ~setupCompleted[u]
                      THEN ordered[u] ELSE -1]

LEMMA AttachIsAttach ==
  ASSUME TypeOK, NEW u \in UE, NEW c \in Cell, FirstAccess(u, c)
  PROVE  DC!Attach(u, c)
<1>1. /\ lastCell[u] = NoCell /\ lastCell' = [lastCell EXCEPT ![u] = c]
      /\ setupCompleted' = [setupCompleted EXCEPT ![u] = TRUE] /\ ordered' = ordered
  BY DEF FirstAccess
<1>2. \A v \in UE : v # u => lastCell'[v] = lastCell[v] /\ setupCompleted'[v] = setupCompleted[v]
  BY <1>1 DEF TypeOK
<1>3. setupCompleted'[u] = TRUE
  BY <1>1 DEF TypeOK
<1>4. Goal' = Goal /\ Goal[u] = -1
  BY <1>1, <1>2, <1>3 DEF Goal
<1>. QED BY <1>1, <1>4 DEF DC!Attach, DC!NoCell, DC!NoGoal, NoCell, Goal

LEMMA OrderIsOrder ==
  ASSUME HandoverInv, NEW u \in UE, NEW c \in Cell, OrderHandover(u, c)
  PROVE  DC!Order({u})
<1>1. /\ setupCompleted[u] /\ lastCell' = lastCell
      /\ setupCompleted' = [setupCompleted EXCEPT ![u] = FALSE]
      /\ ordered' = [ordered EXCEPT ![u] = c]
  BY DEF OrderHandover, MayOrder
<1>2. TypeOK /\ lastCell[u] # NoCell
  BY <1>1, AtUe, CampPhase, Constants
     DEF Settled, Arrived, Resting, Serves
<1>3. Goal[u] = -1
  BY <1>1 DEF Goal
<1>4. Goal' = [v \in UE |-> IF v \in {u} THEN [x \in {u} |-> c][v] ELSE Goal[v]]
  <2>1. \A v \in UE : v # u => setupCompleted'[v] = setupCompleted[v] /\ ordered'[v] = ordered[v]
    BY <1>1, <1>2 DEF TypeOK
  <2>2. setupCompleted'[u] = FALSE /\ ordered'[u] = c
    BY <1>1, <1>2 DEF TypeOK
  <2>. QED BY <1>1, <1>2, <2>1, <2>2 DEF Goal
<1>5. [x \in {u} |-> c] \in [{u} -> Cell \cup {DC!NoCell}]
  OBVIOUS
<1>. QED BY <1>1, <1>2, <1>3, <1>4, <1>5 DEF DC!Order, DC!NoCell, DC!NoGoal, NoCell, Goal

LEMMA CompletionIsReach ==
  ASSUME HandoverInv, NEW u \in UE, NEW m \in Of(u, x2), DoRecvSecondaryCellHandoverCompleted(m)
  PROVE  DC!Reach(u)
<1>1. TypeOK /\ m \in Pending(u) /\ m.imsi = u /\ InPhase(u) /\ ordered' = ordered
      /\ m.type = "SecondaryCellHandoverCompleted"
  BY AtUe DEF Pending, Of, DoRecvSecondaryCellHandoverCompleted
<1>2. Completed(u)
  BY <1>1, MessagePhase
<1>3. Moving(u) /\ m.peer = ordered[u] /\ lastCell[u] \in Cell
  BY <1>1, <1>2 DEF Completed, Admitted, PathSwitch, Send, Serves
<1>4. /\ lastCell' = [lastCell EXCEPT ![u] = ordered[u]]
      /\ setupCompleted' = [setupCompleted EXCEPT ![u] = TRUE]
  BY <1>1, <1>3 DEF DoRecvSecondaryCellHandoverCompleted, Moving
<1>5. Goal[u] = ordered[u]
  BY <1>3, Constants DEF Goal, Moving
<1>6. Goal' = [Goal EXCEPT ![u] = -1]
  <2>1. \A v \in UE : v # u => lastCell'[v] = lastCell[v] /\ setupCompleted'[v] = setupCompleted[v]
    BY <1>1, <1>4 DEF TypeOK
  <2>2. setupCompleted'[u] = TRUE
    BY <1>1, <1>4 DEF TypeOK
  <2>. QED BY <1>1, <2>1, <2>2 DEF Goal
<1>. QED BY <1>3, <1>4, <1>5, <1>6 DEF DC!Reach, DC!NoGoal, Goal, Moving

\* No other handler touches what the coordinator records.
LEMMA OthersKeepRecords ==
  ASSUME NEW u \in UE, Proceed(u),
         ~ \E m \in Of(u, x2) : DoRecvSecondaryCellHandoverCompleted(m)
  PROVE  UNCHANGED <<lastCell, setupCompleted, ordered>>
<1>1. CASE ReceiveX2(u)
  BY <1>1 DEF ReceiveX2, DoRecvMcHandoverRequest, DoRecvHandoverRequest,
     DoRecvHandoverRequestAck, DoRecvHandoverPreparationFailure, DoRecvUeContextRelease,
     RecvUnsupportedProcedure, Abort, coordinatorVars
<1>2. CASE ReceiveRrc(u)
  BY <1>2 DEF ReceiveRrc, RecvReconfigurationCompletedAtSource,
     RecvRrcConnectionReconfigurationCompleted, DoRecvRrcConnectionReconfiguration,
     HandoverCommandLost, DoNotifyRandomAccessSuccessful, DoNotifyRandomAccessFailed,
     Abort, coordinatorVars
<1>3. CASE Timeout(u)
  BY <1>3 DEF Timeout, HandoverLeavingTimeout, HandoverJoiningTimeout, RemoveUe,
     PreambleExpires, coordinatorVars
<1>. QED BY <1>1, <1>2, <1>3 DEF Proceed

LEMMA DualSteps == HandoverInv /\ [Next]_vars => [DC!Next]_DC!vars
<1>. SUFFICES ASSUME HandoverInv, [Next]_vars PROVE [DC!Next]_DC!vars
  OBVIOUS
<1>1. ASSUME NEW u \in UE, NEW c \in Cell, FirstAccess(u, c) PROVE DC!Next
  BY <1>1, AttachIsAttach DEF DC!Next, HandoverInv
<1>2. ASSUME NEW u \in UE, NEW c \in Cell, OrderHandover(u, c) PROVE DC!Next
  BY <1>2, OrderIsOrder DEF DC!Next
<1>3. ASSUME NEW u \in UE, Proceed(u) PROVE [DC!Next]_DC!vars
  <2>1. CASE \E m \in Of(u, x2) : DoRecvSecondaryCellHandoverCompleted(m)
    BY <2>1, CompletionIsReach DEF DC!Next
  <2>2. CASE ~ \E m \in Of(u, x2) : DoRecvSecondaryCellHandoverCompleted(m)
    BY <1>3, <2>2, OthersKeepRecords DEF DC!vars
  <2>. QED BY <2>1, <2>2
<1>4. CASE UNCHANGED vars
  BY <1>4 DEF vars, coordinatorVars, DC!vars
<1>. QED BY <1>1, <1>2, <1>3, <1>4 DEF Next

\* The two cells and the X2 between them implement dual connectivity: a UE has
\* one serving cell and one goal, and changes cells only by reaching its goal.
THEOREM HandoverRefines == Spec => ImplementsDualConnectivity
<1>1. Init => DC!Init
  BY DEF Init, DC!Init, DC!NoCell, DC!NoGoal, NoCell
<1>. QED BY <1>1, AlwaysInPhase, DualSteps, PTL DEF Spec, ImplementsDualConnectivity, DC!Spec
=============================================================================
