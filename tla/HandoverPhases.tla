--------------------------- MODULE HandoverPhases ---------------------------
(***************************************************************************)
(* The phases a UE goes through in SecondaryHandover, each with the        *)
(* UeManagers, messages, camping and forwarding that belong to it.  That a *)
(* UE always is in one of them is the inductive invariant behind the       *)
(* safety properties; HandoverProofs proves it.                            *)
(***************************************************************************)
EXTENDS SecondaryHandover

\* What belongs to the UE in the cells and on the X2 links.
Managed(u) == Of(u, ueMap)
Pending(u) == Of(u, x2)

\* k is the UeManager an order finds: that of the recorded cell and RNTI.
Serves(k, u) ==
  /\ lastCell[u] \in Cell /\ pdcpTarget[u][1] = lastCell[u]
  /\ k.cell = lastCell[u] /\ k.rnti = imsiRnti[k.cell][u]

At(u, k, state) ==
  camp[u] = [cell |-> k.cell, rnti |-> k.rnti, state |-> state]
Hears(u, type, k) == air[u] = [type |-> type, cell |-> k.cell, rnti |-> k.rnti]
Quiet(u) == air[u] = NoMessage

\* The only forwarding of the UE's data leads from one cell to another.
Forwards(u, from, to) ==
  \A c \in Cell : forwardTo[c][u] = IF c = from THEN to ELSE NoCell
NoForwarding(u) == Forwards(u, NoCell, NoCell)

\* The lock is held, for a cell other than the serving one.
Moving(u) == ~setupCompleted[u] /\ ordered[u] \in Cell \ {lastCell[u]}

Unattached(u) ==
  /\ lastCell[u] = NoCell /\ ~setupCompleted[u]
  /\ Managed(u) = {} /\ Pending(u) = {}
  /\ camp[u].state = "idle" /\ Quiet(u) /\ NoForwarding(u)

\* In a cell, perhaps with an order that has not reached it yet.
Resting(u, k) ==
  /\ Serves(k, u) /\ At(u, k, "connected") /\ Quiet(u)
  /\ k.state \in {"connected", "reconfiguration"} /\ k.queued = NoCell
  /\ setupCompleted[u] \/ Moving(u)

Orders(u) ==
  IF setupCompleted[u] THEN {}
  ELSE {Send("McHandoverRequest", u, lastCell[u], NoRnti, ordered[u], NoRnti)}

Settled(u) == \E k \in Managed(u) :
  /\ Resting(u, k)
  /\ Managed(u) = {k} /\ Pending(u) = Orders(u) /\ NoForwarding(u)

\* The same, while the cell o it came from has not been released.
Release(u, o, k) ==
  Send("UeContextRelease", u, o.cell, o.rnti, k.cell, k.rnti)

Arrived(u) == \E k, o \in Managed(u) :
  /\ Resting(u, k)
  /\ o.state = "leaving" /\ o.cell # k.cell
  /\ Managed(u) = {k, o} /\ Pending(u) = Orders(u) \cup {Release(u, o, k)}
  /\ Forwards(u, o.cell, k.cell)

\* The order has reached the cell: it is postponed, or the target is asked, has
\* refused, or has not answered and never will.
Refusal(u, k) ==
  Send("HandoverPreparationFailure", u, k.cell, k.rnti, ordered[u], NoRnti)

Preparing(u) == \E k \in Managed(u) :
  /\ Serves(k, u) /\ At(u, k, "connected") /\ Quiet(u) /\ Moving(u)
  /\ Managed(u) = {k} /\ NoForwarding(u)
  /\ \/ /\ k.state = "reconfiguration" /\ k.queued = ordered[u]
        /\ Pending(u) = {}
     \/ k.state = "preparation" /\ Pending(u) = {Request(k, ordered[u])}
     \/ k.state = "preparation" /\ Pending(u) = {Refusal(u, k)}
     \/ k.state \in {"preparation", "connected"} /\ Pending(u) = {}

\* The target j has admitted the UE.
Admitted(u, k, j) ==
  /\ Serves(k, u) /\ Moving(u)
  /\ j.cell = ordered[u] /\ j.rnti = imsiRnti[j.cell][u]
  /\ j.sourceRnti = k.rnti /\ j.source = k.cell /\ j.queued = NoCell

Acknowledgement(u, k, j) ==
  Send("HandoverRequestAck", u, k.cell, k.rnti, j.cell, j.rnti)

Acknowledged(u) == \E k, j \in Managed(u) :
  /\ Admitted(u, k, j) /\ k.state = "preparation" /\ j.state = "joining"
  /\ Managed(u) = {k, j} /\ Pending(u) = {Acknowledgement(u, k, j)}
  /\ At(u, k, "connected") /\ Quiet(u) /\ NoForwarding(u)

\* The UE is commanded to go, goes, or has arrived without the target knowing.
Joining(u) == \E k, j \in Managed(u) :
  /\ Admitted(u, k, j) /\ k.state = "leaving" /\ j.state = "joining"
  /\ Managed(u) = {k, j} /\ Pending(u) = {} /\ Forwards(u, k.cell, j.cell)
  /\ \/ At(u, k, "connected") /\ Hears(u, "command", j)
     \/ At(u, j, "handover") /\ Quiet(u)
     \/ At(u, j, "connected") /\ Hears(u, "completed", j)

PathSwitch(u, k, j) ==
  Send("SecondaryCellHandoverCompleted", u, Lte, k.rnti, j.cell, j.rnti)

\* The target knows, the coordinator does not.
Completed(u) == \E k, j \in Managed(u) :
  /\ Admitted(u, k, j) /\ k.state = "leaving" /\ j.state = "connected"
  /\ Managed(u) = {k, j} /\ Pending(u) = {PathSwitch(u, k, j)}
  /\ Forwards(u, k.cell, j.cell) /\ At(u, j, "connected") /\ Quiet(u)

Lost(u) ==
  /\ lastCell[u] \in Cell /\ ~setupCompleted[u]
  /\ camp[u].state = "failed" /\ Quiet(u)
  /\ \A k \in Managed(u) : k.state \in {"leaving", "joining", "expired"}
  /\ \A m \in Pending(u) : m.type = "NotifyCoordinatorHandoverFailed"

\* Every UE is in a phase.
InPhase(u) ==
  \/ Unattached(u) \/ Settled(u) \/ Arrived(u) \/ Preparing(u)
  \/ Acknowledged(u) \/ Joining(u) \/ Completed(u) \/ Lost(u)
Phases == \A u \in UE : InPhase(u)

\* RNTIs are given once: they tell the UeManagers of a cell apart.
RntisFresh ==
  /\ \A k \in ueMap : k.rnti \in 1 .. lastRnti[k.cell]
  /\ \A j, k \in ueMap : j.cell = k.cell /\ j.rnti = k.rnti => j = k

\* A UE that has arrived does not hold its preamble any more.
ArrivedFreed ==
  \A u \in UE : air[u].type = "completed" =>
    /\ air[u].rnti <= lastRnti[air[u].cell]
    /\ air[u].rnti \notin preambles[air[u].cell]

\* What the two cells, the messages between them, the coordinator and the UE hold
\* of a handover fits together at every moment, whatever other UEs do: every UE
\* is in a phase, RNTIs are unique and preambles held for UEs on their way.
HandoverInv == /\ TypeOK /\ NoAbort
               /\ Phases /\ RntisFresh /\ ArrivedFreed /\ PreamblesAreForJoining
=============================================================================
