--------------------------- MODULE RlcAmInvariant ---------------------------
(***************************************************************************)
(* The inductive invariant of RlcAm.  Sequence numbers are told apart from *)
(* the numbers they stand for: n is the n-th PDU ever built, n % Modulus   *)
(* what its header, the buffers and the state variables hold.  The parts   *)
(* below speak of the numbers, so that nothing in them wraps.              *)
(***************************************************************************)
EXTENDS RlcAm

At(n) == n % Modulus

\* The first number from n on that s stands for.
Ahead(n, s) == n + Dist(At(n), s)

\* The numbers behind VT(A), VR(R), VR(MS), VR(H) and VR(X).
nA == NumberOf(vtA)
nR == Ahead(nA, vrR)
nMs == Ahead(nR, vrMs)
nH == Ahead(nR, vrH)
nX == Ahead(nR, vrX)

-----------------------------------------------------------------------------
\* VT(A) <= VR(R) <= VR(MS) <= VR(H) <= VT(S) <= VT(MS), and t-Reordering
\* waits for a number above VR(R) and up to VR(H).
WindowOrder ==
  /\ 0 <= nA /\ nR <= nMs /\ nMs <= nH /\ nH <= sent /\ sent <= nA + WindowSize
  /\ reordering => nR < nX /\ nX <= nH

\* The reception buffer holds nothing outside of VR(R) .. VR(H), and neither
\* VR(R) nor VR(MS) has arrived complete.
ReceptionBuffer ==
  /\ \A s \in SN : rxon[s] # Nothing => Dist(vrR, s) < nH - nR
  /\ ~rxon[vrR].complete /\ ~rxon[vrMs].complete

\* A PDU on its way is not so old that its sequence number means a new one.
InTime == \A p \in down : p.n < sent /\ sent + WindowSize <= p.n + Modulus

\* What the sender keeps of a number, and what a number from VR(R) on carries:
\* the receiver has it complete, or the sender still keeps it.
Copy(s) == IF txed[s] # <<>> THEN txed[s] ELSE retx[s]
Whole(n) == IF rxon[At(n)].complete THEN rxon[At(n)].data ELSE Copy(At(n))

\* The chunks from c on, k of them.
ChunksFrom(c, k) == [i \in 1 .. k |-> c + i - 1]

\* The first chunk that number n carries.
FirstChunk(n) == IF n = sent THEN taken ELSE Whole(n)[1]

\* From VR(R) on nothing is forgotten, and what the numbers carry follows on
\* without a gap, from what is still to be delivered to what is still to be
\* taken from the transmission buffer.
Contiguous ==
  /\ \A n \in nR .. sent - 1 :
       /\ Len(Whole(n)) > 0
       /\ Whole(n) = ChunksFrom(FirstChunk(n), Len(Whole(n)))
       /\ FirstChunk(n + 1) = FirstChunk(n) + Len(Whole(n))
  /\ FirstChunk(nR) = Len(delivered) * SduSize + Len(kept)
  /\ taken <= accepted * SduSize

\* All copies of a number are alike: at the sender, in part at the receiver,
\* in the PDUs and segments on their way.
CopiesAgree ==
  /\ \A n \in nR .. sent - 1 :
       /\ Copy(At(n)) # <<>> => Copy(At(n)) = Whole(n)
       /\ LET part == rxon[At(n)].data IN
            Len(part) <= Len(Whole(n)) /\ part = SubSeq(Whole(n), 1, Len(part))
  /\ \A p \in down :
       p.n >= nR =>
         LET end == p.off + Len(p.data) IN
           /\ end <= Len(Whole(p.n))
           /\ p.data = SubSeq(Whole(p.n), p.off + 1, end)
           /\ p.last => end = Len(Whole(p.n))
           /\ ~p.seg => p.off = 0 /\ p.last
  /\ \A s \in SN : retxSeg[s] # 0 => retxSeg[s] < Len(retx[s])

\* What was delivered, and the part of an SDU that is kept.
DeliveredSoFar ==
  /\ Intact
  /\ Len(kept) < SduSize
  /\ kept = ChunksFrom(Len(delivered) * SduSize, Len(kept))

\* The oldest number not acknowledged is still kept.
OldestKept == nA < sent => Copy(vtA) # <<>>

Received(n) == n < nR \/ rxon[At(n)].complete

\* VT(A) will be moved to f by STATUS m, and this is not past VR(R).
MovesTo(m, f) ==
  /\ f \in nA .. Ahead(nA, m.ack) /\ f <= nR
  /\ f = Ahead(nA, m.ack) \/ At(f) \in m.nacks
  /\ \A n \in nA .. f - 1 : At(n) \notin m.nacks
  /\ f < sent => Copy(At(f)) # <<>>

\* There is at most one STATUS on its way; it acknowledges nothing that has not
\* been received.
StatusTrue ==
  /\ \A m1, m2 \in up : m1 = m2
  /\ up # {} => prohibit
  /\ \A m \in up :
       /\ Ahead(nA, m.ack) <= sent
       /\ \A n \in nA .. Ahead(nA, m.ack) - 1 : At(n) \in m.nacks \/ Received(n)
       /\ \E f \in nA .. sent : MovesTo(m, f)

\* The number polled is the one sent last.
PollsLast == sent > 0 => pollSn = At(sent - 1)

\* A sender that has not asked, or has been answered since, will ask with a PDU
\* that it has still to send: a new one, or one to be sent again that comes
\* after all that wait for their acknowledgement.
WillPoll ==
  bigEnough =>
    /\ \A s \in SN : retxSeg[s] = 0
    /\ ~pollTimer /\ ~justExpired =>
         \/ txon > 0 /\ InTransmittingWindow
         \/ \A n \in nA .. sent - 1 : txed[At(n)] = <<>>
         \/ \E q \in nA .. sent - 1 :
              /\ retx[At(q)] # <<>>
              /\ \A n \in nA .. sent - 1 : txed[At(n)] # <<>> => n < q

\* The inductive invariant that the proofs of RlcAm rest on.
RlcInv ==
  /\ TypeOK /\ SenderAccounts
  /\ WindowOrder /\ ReceptionBuffer /\ InTime
  /\ Contiguous /\ CopiesAgree /\ DeliveredSoFar
  /\ OldestKept /\ StatusTrue
  /\ PollsLast /\ WillPoll
=============================================================================
