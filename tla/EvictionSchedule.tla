-------------------------- MODULE EvictionSchedule --------------------------
(***************************************************************************)
(* How LteEnbRrc::EvictUsersFromSecondaryCell (lte-enb-rrc.cc:6131) spreads *)
(* the handovers of one eviction over slots of 25 ms, so that the random    *)
(* access preambles of the target cells last.  McCoordinator knows of this  *)
(* only that some users move now (at least FirstSlot of them) and the       *)
(* others later; here is the arithmetic that decides how many, for any      *)
(* number of users, with the eight bits of its counter.                     *)
(***************************************************************************)
EXTENDS Integers, Sequences

VARIABLES
  availablePreambles,      \* preambles left for handovers
  scheduledHos,            \* handovers scheduled, in eight bits
  taken                    \* users of each slot; offsetCounter = Len(taken) - 1

vars == <<availablePreambles, scheduledHos, taken>>

\* NumberOfRaPreambles is 4 .. 64, but with 64 the first user divides by zero.
Init ==
  /\ \E numberOfRaPreambles \in 4 .. 63 :
       availablePreambles = 64 - numberOfRaPreambles
  /\ scheduledHos = 0
  /\ taken = <<0>>

\* The condition under which a user, and those after it, go one slot later.
PreamblesUsedUp ==
  /\ scheduledHos % availablePreambles = 0
  /\ scheduledHos > availablePreambles

ScheduleInThisSlot ==
  /\ ~PreamblesUsedUp
  /\ taken' = [taken EXCEPT ![Len(taken)] = @ + 1]

ScheduleInNextSlot ==
  /\ PreamblesUsedUp
  /\ taken' = Append(taken, 1)

\* One round of the loop over the users that have to leave.
ScheduleHandover ==
  /\ ScheduleInThisSlot \/ ScheduleInNextSlot
  /\ scheduledHos' = (scheduledHos + 1) % 256
  /\ UNCHANGED availablePreambles

Next == ScheduleHandover

Spec == Init /\ [][Next]_vars

-----------------------------------------------------------------------------

\* The users a slot can take: twice the preambles in the first slot; as many as
\* there are preambles in the next ones; up to three times as many from the
\* slot on in which the counter of eight bits may restart.
Room(i) ==
  IF i = 1 THEN 2 * availablePreambles
  ELSE IF (i + 1) * availablePreambles < 256 THEN availablePreambles
  ELSE 3 * availablePreambles

\* No slot takes more, and no user is late without need: the first slot is full
\* before there is a second one (its size is the FirstSlot of McCoordinator).
\* "Get the number of preambles to avoid their exaustion", says the code
\* (lte-enb-rrc.cc:6134): the later slots keep to it, but not the first one,
\* as the counter must exceed the preambles, not reach them, to end a slot.
SlotSizes ==
  /\ \A i \in DOMAIN taken : taken[i] <= Room(i)
  /\ Len(taken) > 1 => taken[1] = Room(1)
=============================================================================
