----------------------- MODULE EvictionScheduleProofs -----------------------
(***************************************************************************)
(* The sizes of the slots of an eviction, for every configuration of the    *)
(* preambles and every number of users.                                     *)
(*                                                                          *)
(* The counter and the users t of the last slot, number l, are in one of    *)
(* three relations; with each, t is at most Room(l).  The arithmetic is     *)
(* done in lemmas about numbers, and the steps only carry it to taken.      *)
(***************************************************************************)
EXTENDS EvictionSchedule, TLAPS

\* The first slot: no user is missing from the counter.
InFirst(n, s, t, l) == l = 1 /\ s = t /\ t <= 2 * n

\* A slot that began at the multiple m of the preambles; the l-th, unless the
\* counter has restarted.
InMultiple(n, s, t, l, m) ==
  /\ l > 1 /\ m >= 2 /\ s = m * n + t /\ 1 <= t /\ t <= n
  /\ m = l \/ (l + 1) * n >= 256

\* The slot in which the counter has restarted: it goes on until the counter
\* is again at twice the preambles.
InRestart(n, s, t, l) ==
  l > 1 /\ s <= 2 * n /\ t <= n + s /\ (l + 1) * n >= 256

LastSlot(n, s, t, l) ==
  \/ InFirst(n, s, t, l)
  \/ \E m \in Nat : InMultiple(n, s, t, l, m)
  \/ InRestart(n, s, t, l)

UsedUp(n, s) == s % n = 0 /\ s > n

RoomOf(n, l) ==
  IF l = 1 THEN 2 * n ELSE IF (l + 1) * n < 256 THEN n ELSE 3 * n

-----------------------------------------------------------------------------

\* A multiple of the preambles plus at most once their number is a multiple
\* only if it is the next one.
LEMMA NextMultiple ==
  ASSUME NEW n \in 1 .. 60, NEW m \in Nat, NEW t \in Nat, 1 <= t, t <= n
  PROVE  (m * n + t) % n = 0 <=> t = n
<1>1. ASSUME t = n
      PROVE  (m * n + t) % n = 0
  <2>1. m * n + t = (m + 1) * n
    BY <1>1
  <2>2. ((m + 1) * n) % n = 0
    OBVIOUS
  <2>. QED
    BY <2>1, <2>2
<1>2. ASSUME (m * n + t) % n = 0
      PROVE  t = n
  <2>1. PICK q \in Int : m * n + t = n * q
    <3>1. m * n + t \in Int /\ n \in Int /\ n > 0
      OBVIOUS
    <3>2. \A x \in Int : x = n * (x \div n) + (x % n) /\ x \div n \in Int
      OBVIOUS
    <3>. QED
      BY <1>2, <3>1, <3>2
  <2>2. t = n * (q - m)
    BY <2>1
  <2>3. q - m = 1
    BY <2>2
  <2>. QED
    BY <2>2, <2>3
<1>. QED
  BY <1>1, <1>2

\* Up to twice the preambles, they are used up only there.
LEMMA UsedUpAtTwice ==
  ASSUME NEW n \in 1 .. 60, NEW s \in Nat, s <= 2 * n
  PROVE  UsedUp(n, s) <=> s = 2 * n
<1>1. CASE s <= n
  BY <1>1 DEF UsedUp
<1>2. CASE s > n
  <2>1. s - n \in Nat /\ 1 <= s - n /\ s - n <= n
    BY <1>2
  <2>2. (1 * n + (s - n)) % n = 0 <=> s - n = n
    BY <2>1, NextMultiple
  <2>3. 1 * n + (s - n) = s
    OBVIOUS
  <2>. QED
    BY <1>2, <2>2, <2>3 DEF UsedUp
<1>. QED
  BY <1>1, <1>2

\* After a multiple above the first, they are used up at the next multiple.
LEMMA UsedUpAtMultiple ==
  ASSUME NEW n \in 1 .. 60, NEW m \in Nat, NEW t \in Nat,
         m >= 2, 1 <= t, t <= n
  PROVE  UsedUp(n, m * n + t) <=> t = n
<1>1. m * n + t > n
  <2>1. m * n >= 2 * n
    OBVIOUS
  <2>. QED
    BY <2>1
<1>. QED
  BY <1>1, NextMultiple DEF UsedUp

\* The counter of eight bits.
LEMMA Restarts ==
  ASSUME NEW s \in 0 .. 255
  PROVE  (s + 1) % 256 = IF s = 255 THEN 0 ELSE s + 1
OBVIOUS

-----------------------------------------------------------------------------

\* The last slot has room for its users.
LEMMA LastSlotFits ==
  ASSUME NEW n \in 1 .. 60, NEW s \in 0 .. 255, NEW t \in Nat,
         NEW l \in Nat, l >= 1, LastSlot(n, s, t, l)
  PROVE  t <= RoomOf(n, l)
BY DEF LastSlot, InFirst, InMultiple, InRestart, RoomOf

\* One more user in the last slot.
LEMMA LastSlotGrows ==
  ASSUME NEW n \in 1 .. 60, NEW s \in 0 .. 255, NEW t \in Nat,
         NEW l \in Nat, l >= 1, LastSlot(n, s, t, l), ~UsedUp(n, s)
  PROVE  LastSlot(n, (s + 1) % 256, t + 1, l)
<1>1. CASE InFirst(n, s, t, l)
  <2>1. s < 2 * n
    BY <1>1, UsedUpAtTwice DEF InFirst
  <2>. QED
    BY <1>1, <2>1, Restarts DEF LastSlot, InFirst
<1>2. CASE \E m \in Nat : InMultiple(n, s, t, l, m)
  <2>1. PICK m \in Nat : InMultiple(n, s, t, l, m)
    BY <1>2
  <2>2. t < n
    <3>1. m >= 2 /\ s = m * n + t /\ 1 <= t /\ t <= n
      BY <2>1 DEF InMultiple
    <3>2. UsedUp(n, m * n + t) <=> t = n
      BY <3>1, UsedUpAtMultiple
    <3>3. t # n
      BY <3>1, <3>2
    <3>. QED
      BY <3>1, <3>3
  <2>3. CASE s < 255
    <3>1. InMultiple(n, s + 1, t + 1, l, m)
      BY <2>1, <2>2 DEF InMultiple
    <3>. QED
      BY <2>3, <3>1, Restarts DEF LastSlot
  <2>4. CASE s = 255
    <3>1. (l + 1) * n >= 256
      <4>1. CASE m = l
        <5>1. (l + 1) * n = l * n + n
          OBVIOUS
        <5>2. l * n + t = 255
          BY <2>1, <2>4, <4>1 DEF InMultiple
        <5>3. l * n \in Nat
          OBVIOUS
        <5>. QED
          BY <2>2, <5>1, <5>2, <5>3
      <4>. QED
        BY <2>1, <4>1 DEF InMultiple
    <3>2. InRestart(n, 0, t + 1, l)
      BY <2>1, <2>2, <3>1 DEF InMultiple, InRestart
    <3>. QED
      BY <2>4, <3>2, Restarts DEF LastSlot
  <2>. QED
    BY <2>3, <2>4
<1>3. CASE InRestart(n, s, t, l)
  <2>1. s < 2 * n
    BY <1>3, UsedUpAtTwice DEF InRestart
  <2>. QED
    BY <1>3, <2>1, Restarts DEF LastSlot, InRestart
<1>. QED
  BY <1>1, <1>2, <1>3 DEF LastSlot

\* The first user of the next slot.
LEMMA NextSlotBegins ==
  ASSUME NEW n \in 1 .. 60, NEW s \in 0 .. 255, NEW t \in Nat,
         NEW l \in Nat, l >= 1, LastSlot(n, s, t, l), UsedUp(n, s)
  PROVE  /\ LastSlot(n, (s + 1) % 256, 1, l + 1)
         /\ l = 1 => t = 2 * n
<1>0. (l + 2) * n = (l + 1) * n + n /\ (l + 1) * n \in Nat
  OBVIOUS
<1>1. CASE InFirst(n, s, t, l)
  <2>1. s = 2 * n
    BY <1>1, UsedUpAtTwice DEF InFirst
  <2>2. InMultiple(n, s + 1, 1, l + 1, 2)
    BY <1>1, <2>1 DEF InFirst, InMultiple
  <2>. QED
    BY <1>1, <2>1, <2>2, Restarts DEF LastSlot, InFirst
<1>2. CASE \E m \in Nat : InMultiple(n, s, t, l, m)
  <2>1. PICK m \in Nat : InMultiple(n, s, t, l, m)
    BY <1>2
  <2>2. t = n
    BY <2>1, UsedUpAtMultiple DEF InMultiple
  <2>3. s = (m + 1) * n
    BY <2>1, <2>2 DEF InMultiple
  <2>4. m = l \/ (l + 2) * n >= 256
    BY <1>0, <2>1 DEF InMultiple
  <2>5. CASE s < 255
    <3>1. InMultiple(n, s + 1, 1, l + 1, m + 1)
      BY <2>1, <2>3, <2>4 DEF InMultiple
    <3>2. LastSlot(n, s + 1, 1, l + 1)
      <4>1. m + 1 \in Nat
        OBVIOUS
      <4>. QED
        BY <3>1, <4>1 DEF LastSlot
    <3>3. l # 1
      BY <2>1 DEF InMultiple
    <3>. QED
      BY <2>5, <3>2, <3>3, Restarts
  <2>6. CASE s = 255
    <3>1. (l + 2) * n >= 256
      BY <1>0, <2>3, <2>4, <2>6
    <3>2. InRestart(n, 0, 1, l + 1)
      BY <2>1, <3>1 DEF InMultiple, InRestart
    <3>. QED
      BY <2>1, <2>6, <3>2, Restarts DEF LastSlot, InMultiple
  <2>. QED
    BY <2>5, <2>6
<1>3. CASE InRestart(n, s, t, l)
  <2>1. s = 2 * n
    BY <1>3, UsedUpAtTwice DEF InRestart
  <2>2. InMultiple(n, s + 1, 1, l + 1, 2)
    BY <1>0, <1>3, <2>1 DEF InRestart, InMultiple
  <2>. QED
    BY <1>3, <2>1, <2>2, Restarts DEF LastSlot, InRestart
<1>. QED
  BY <1>1, <1>2, <1>3 DEF LastSlot

-----------------------------------------------------------------------------

\* Every slot but the last is closed, with no more users than it has room for;
\* the last one agrees with the counter.
SlotInv ==
  /\ availablePreambles \in 1 .. 60
  /\ taken \in Seq(Nat) /\ Len(taken) >= 1
  /\ scheduledHos \in 0 .. 255
  /\ \A i \in 1 .. Len(taken) - 1 : taken[i] <= Room(i)
  /\ Len(taken) > 1 => taken[1] = Room(1)
  /\ LastSlot(availablePreambles, scheduledHos, taken[Len(taken)], Len(taken))

\* A positive number is one or more than one.
LEMMA OneOrMore == \A k \in Nat : k >= 1 => k = 1 \/ k > 1
OBVIOUS

\* At first there is one empty slot.
LEMMA InitSlotInv == Init => SlotInv
<1>. SUFFICES ASSUME Init
              PROVE  SlotInv
  OBVIOUS
<1>1. availablePreambles \in 1 .. 60
  BY DEF Init
<1>2. taken \in Seq(Nat) /\ Len(taken) = 1 /\ taken[1] = 0
  BY DEF Init
<1>3. scheduledHos = 0
  BY DEF Init
<1>. QED
  BY <1>1, <1>2, <1>3 DEF SlotInv, LastSlot, InFirst

\* A user in the last slot keeps the invariant.
LEMMA ThisSlotKeeps ==
  ASSUME SlotInv, ScheduleHandover, ScheduleInThisSlot
  PROVE  SlotInv'
<1>. DEFINE l == Len(taken)
            n == availablePreambles
<1>1. /\ n \in 1 .. 60 /\ n' = n
      /\ taken \in Seq(Nat) /\ l \in Nat /\ l >= 1
      /\ taken[l] \in Nat /\ scheduledHos \in 0 .. 255
      /\ scheduledHos' = (scheduledHos + 1) % 256
  BY DEF SlotInv, ScheduleHandover
<1>2. /\ taken' \in Seq(Nat) /\ Len(taken') = l /\ taken'[l] = taken[l] + 1
      /\ \A i \in 1 .. l - 1 : taken'[i] = taken[i]
  BY <1>1 DEF ScheduleInThisSlot
<1>3. LastSlot(n, (scheduledHos + 1) % 256, taken[l] + 1, l)
  BY <1>1, LastSlotGrows
  DEF SlotInv, ScheduleInThisSlot, PreamblesUsedUp, UsedUp
<1>4. scheduledHos' \in 0 .. 255
  BY <1>1, Restarts
<1>5. \A i \in 1 .. l - 1 : taken'[i] <= Room(i)'
  BY <1>1, <1>2 DEF SlotInv, Room
<1>6. l > 1 => taken'[1] = Room(1)'
  BY <1>1, <1>2 DEF SlotInv, Room
<1>. QED
  BY <1>1, <1>2, <1>3, <1>4, <1>5, <1>6 DEF SlotInv

\* A user in a new slot closes the one before and keeps the invariant.
LEMMA NextSlotKeeps ==
  ASSUME SlotInv, ScheduleHandover, ScheduleInNextSlot
  PROVE  SlotInv'
<1>. DEFINE l == Len(taken)
            n == availablePreambles
<1>1. /\ n \in 1 .. 60 /\ n' = n
      /\ taken \in Seq(Nat) /\ l \in Nat /\ l >= 1
      /\ taken[l] \in Nat /\ scheduledHos \in 0 .. 255
      /\ scheduledHos' = (scheduledHos + 1) % 256
  BY DEF SlotInv, ScheduleHandover
<1>2. /\ taken' \in Seq(Nat) /\ Len(taken') = l + 1 /\ taken'[l + 1] = 1
      /\ \A i \in 1 .. l : taken'[i] = taken[i]
  BY <1>1 DEF ScheduleInNextSlot
<1>3. /\ LastSlot(n, (scheduledHos + 1) % 256, 1, l + 1)
      /\ l = 1 => taken[l] = 2 * n
  <2>1. UsedUp(n, scheduledHos)
    BY DEF ScheduleInNextSlot, PreamblesUsedUp, UsedUp
  <2>2. LastSlot(n, scheduledHos, taken[l], l)
    BY DEF SlotInv
  <2>. QED
    BY <1>1, <2>1, <2>2, NextSlotBegins
<1>4. scheduledHos' \in 0 .. 255
  BY <1>1, Restarts
<1>5. taken[l] <= Room(l)
  BY <1>1, LastSlotFits DEF SlotInv, RoomOf, Room
<1>6. \A i \in 1 .. l : taken'[i] <= Room(i)'
  BY <1>1, <1>2, <1>5, SMTT(30) DEF SlotInv, Room
<1>7. taken'[1] = Room(1)'
  <2>1. CASE l = 1
    BY <1>1, <1>2, <1>3, <2>1 DEF Room
  <2>2. CASE l # 1
    <3>1. l > 1
      BY <1>1, <2>2, OneOrMore
    <3>2. taken[1] = Room(1)
      BY <3>1 DEF SlotInv
    <3>3. taken'[1] = taken[1] /\ Room(1)' = Room(1)
      BY <1>1, <1>2 DEF Room
    <3>. QED
      BY <3>2, <3>3
  <2>. QED
    BY <2>1, <2>2
<1>. QED
  BY <1>1, <1>2, <1>3, <1>4, <1>6, <1>7 DEF SlotInv

\* Every slot of an eviction has the size that SlotSizes gives it, whatever the
\* number of preambles and of users (EvictUsersFromSecondaryCell).
THEOREM SlotsHaveTheirSizes == Spec => []SlotSizes
<1>1. SlotInv /\ [Next]_vars => SlotInv'
  <2>. SUFFICES ASSUME SlotInv, [Next]_vars
                PROVE  SlotInv'
    OBVIOUS
  <2>1. CASE ScheduleHandover
    BY <2>1, ThisSlotKeeps, NextSlotKeeps DEF ScheduleHandover
  <2>2. CASE UNCHANGED vars
    BY <2>2 DEF vars, SlotInv, Room
  <2>. QED
    BY <2>1, <2>2 DEF Next
<1>2. SlotInv => SlotSizes
  <2>. SUFFICES ASSUME SlotInv
                PROVE  SlotSizes
    OBVIOUS
  <2>1. /\ Len(taken) \in Nat /\ Len(taken) >= 1
        /\ DOMAIN taken = 1 .. Len(taken)
        /\ taken[Len(taken)] \in Nat
        /\ availablePreambles \in 1 .. 60 /\ scheduledHos \in 0 .. 255
    BY DEF SlotInv
  <2>2. taken[Len(taken)] <= Room(Len(taken))
    BY <2>1, LastSlotFits DEF SlotInv, RoomOf, Room
  <2>. QED
    BY <2>1, <2>2 DEF SlotInv, SlotSizes
<1>. QED
  BY InitSlotInv, <1>1, <1>2, PTL DEF Spec

=============================================================================
