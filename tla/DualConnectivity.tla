-------------------------- MODULE DualConnectivity --------------------------
(***************************************************************************)
(* What the mobility of a dual-connectivity deployment promises, whoever   *)
(* asks for a handover: a UE is served by at most one mmWave cell, it has  *)
(* at most one goal cell at a time, and it changes its serving cell only   *)
(* by reaching the goal it was ordered to.  McCoordinator and              *)
(* SecondaryHandover implement it.                                         *)
(***************************************************************************)
EXTENDS Integers

CONSTANTS UE, Cell

NoCell == 0     \* no serving cell yet; as a goal, a cell that does not exist
NoGoal == -1    \* no handover ordered

VARIABLES
  serving,      \* the mmWave cell of each UE
  goal          \* the cell a handover under way leads to

vars == <<serving, goal>>

Init ==
  /\ serving = [u \in UE |-> NoCell]
  /\ goal = [u \in UE |-> NoGoal]

\* The first connection of a UE to a mmWave cell.
Attach(u, c) ==
  /\ serving[u] = NoCell
  /\ goal[u] = NoGoal
  /\ serving' = [serving EXCEPT ![u] = c]
  /\ UNCHANGED goal

\* Some UEs, served and without a goal, are ordered to leave at one time.
Order(ordered) ==
  /\ \A u \in ordered : serving[u] # NoCell /\ goal[u] = NoGoal
  /\ \E target \in [ordered -> Cell \cup {NoCell}] :
       goal' = [u \in UE |-> IF u \in ordered THEN target[u] ELSE goal[u]]
  /\ UNCHANGED serving

\* A UE reaches its goal, another cell than the one it leaves.
Reach(u) ==
  /\ goal[u] \in Cell \ {serving[u]}
  /\ serving' = [serving EXCEPT ![u] = goal[u]]
  /\ goal' = [goal EXCEPT ![u] = NoGoal]

Next ==
  \/ \E u \in UE, c \in Cell : Attach(u, c)
  \/ \E ordered \in SUBSET UE : Order(ordered)
  \/ \E u \in UE : Reach(u)

Spec == Init /\ [][Next]_vars
=============================================================================
