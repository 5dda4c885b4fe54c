---------------------------- MODULE RlcAmTheorems ----------------------------
(***************************************************************************)
(* What is proved of RlcAm, for every number space, window, size of the    *)
(* SDUs, of the opportunities and of the STATUS PDUs: RlcInv is an         *)
(* invariant, and with it the windows of the two sides agree, nothing is   *)
(* forgotten, the sender goes on asking, and the bearer implements         *)
(* ReliableDelivery.                                                       *)
(***************************************************************************)
EXTENDS RlcAmWindowProofs

-----------------------------------------------------------------------------
(* RlcInv is inductive.                                                    *)

(* At first nothing was sent. *)
LEMMA RlcInit ==
  ASSUME Init
  PROVE  RlcInv
  <1>1. 0 \in SN /\ At(0) = 0 /\ Dist(0, 0) = 0 /\ 0 \in Int
    <2>1. 0 \in SN
      BY ModulusPositive DEF SN
    <2> QED  BY <2>1, Remainder DEF At, Dist
  <1>2. /\ accepted = 0 /\ taken = 0 /\ sent = 0 /\ vtA = 0
        /\ pollSn = 0 /\ pollTimer = FALSE /\ justExpired = FALSE
        /\ vrR = 0 /\ vrMs = 0 /\ vrX = 0 /\ vrH = 0
        /\ rxon = [s \in SN |-> Nothing] /\ bigEnough \in AlwaysBigEnough
        /\ reordering = FALSE /\ statusRequested = FALSE
        /\ statusReported = FALSE /\ prohibit = FALSE
        /\ kept = <<>> /\ delivered = <<>> /\ down = {} /\ up = {}
        /\ retxSeg = [s \in SN |-> 0]
    BY DEF Init
  <1>3. SenderInv
    BY SenderInit
  <1>4. vtS = 0 /\ nA = 0 /\ nR = 0 /\ nMs = 0 /\ nH = 0
    <2>1. vtS = 0
      BY <1>1, <1>2 DEF vtS, At
    <2>2. nA = 0
      BY <1>1, <1>2, <2>1 DEF nA, NumberOf
    <2>3. nR = 0
      BY <1>1, <1>2, <2>2 DEF nR, Ahead
    <2> QED  BY <1>1, <1>2, <2>1, <2>2, <2>3 DEF nMs, nH, Ahead
  <1>5. 0 * SduSize = 0 /\ SduSize \in Nat \ {0}
    BY SizeAssumption
  <1>6. TypeOK
    <2>1. txedSize \in Nat /\ retxSize \in Nat
      BY DEF Init
    <2>2. txed \in [SN -> Seq(Nat)] /\ retx \in [SN -> Seq(Nat)]
          /\ retxSeg \in [SN -> Nat]
      BY <1>3 DEF SenderInv, SenderType, Buffers
    <2>3. rxon \in [SN -> [data : Seq(Nat), complete : BOOLEAN]]
      <3>1. Nothing \in [data : Seq(Nat), complete : BOOLEAN]
        BY DEF Nothing
      <3> QED  BY <1>2, <3>1
    <2>4. /\ accepted \in 0 .. MaxSdus /\ taken \in 0 .. accepted * SduSize
          /\ sent \in Nat /\ bigEnough \in BOOLEAN
      BY <1>2, <1>5, SizeAssumption
    <2>5. kept \in Seq(Nat) /\ delivered \in Seq(Seq(Nat)) /\ down \subseteq Pdu
          /\ up \subseteq Status
      BY <1>2
    <2> QED  BY <1>1, <1>2, <2>1, <2>2, <2>3, <2>4, <2>5 DEF TypeOK
  <1>7. WindowOrder
    <2>1. 0 <= 0 + WindowSize
      BY ModulusPositive
    <2> QED  BY <1>2, <1>4, <2>1 DEF WindowOrder
  <1>8. ReceptionBuffer
    BY <1>1, <1>2 DEF ReceptionBuffer, Nothing
  <1>9. InTime
    BY <1>2 DEF InTime
  <1>10. nR .. sent - 1 = {} /\ nA .. sent - 1 = {}
    BY <1>2, <1>4
  <1>11. DeliveredSoFar
    <2>1. Intact
      BY <1>2 DEF Intact
    <2>2. Len(kept) = 0 /\ Len(delivered) = 0
      BY <1>2
    <2>3. ChunksFrom(0 * SduSize, 0) = <<>>
      BY DEF ChunksFrom
    <2> QED  BY <1>2, <1>5, <2>1, <2>2, <2>3 DEF DeliveredSoFar
  <1>12. Contiguous
    <2>1. Len(kept) = 0 /\ Len(delivered) = 0
      BY <1>2
    <2>2. FirstChunk(nR) = 0
      BY <1>2, <1>4 DEF FirstChunk
    <2> QED  BY <1>2, <1>5, <1>10, <2>1, <2>2 DEF Contiguous
  <1>13. CopiesAgree
    BY <1>2, <1>10 DEF CopiesAgree
  <1>14. OldestKept /\ PollsLast /\ StatusTrue
    BY <1>2, <1>4 DEF OldestKept, PollsLast, StatusTrue
  <1>15. WillPoll
    BY <1>2, <1>10 DEF WillPoll
  <1> QED
    BY <1>3, <1>6, <1>7, <1>8, <1>9, <1>11, <1>12, <1>13, <1>14, <1>15
       DEF RlcInv, SenderInv

(* Every step keeps it. *)
LEMMA RlcNext ==
  ASSUME RlcInv, [Next]_vars
  PROVE  RlcInv'
  <1>1. CASE DoTransmitPdcpPdu
    BY <1>1, DoTransmitPdcpPduKeeps
  <1>2. CASE \E size \in Sizes : BuildPdu(size)
    BY <1>2, BuildPduKeeps
  <1>3. CASE \E size \in Sizes : Retransmit(size)
    BY <1>3, RetransmitKeeps
  <1>4. CASE \E s \in SN : Receive(s)
    BY <1>4, ReceivePduKeeps DEF Receive
  <1>5. CASE Answer
    BY <1>5, ReceiveStatusKeeps DEF Answer
  <1>6. CASE \E room \in NackRoom : SendStatus(room)
    BY <1>6, SendStatusKeeps
  <1>7. CASE ExpirePollRetransmitTimer
    BY <1>7, ExpirePollRetransmitTimerKeeps
  <1>8. CASE ExpireReorderingTimer
    BY <1>8, ExpireReorderingTimerKeeps
  <1>9. CASE \/ ExpireStatusProhibitTimer
             \/ \E p \in down : LosePdu(p)
             \/ \E m \in up : LoseStatus(m)
             \/ UNCHANGED vars
    BY <1>9, OthersKeep
  <1> QED
    BY <1>1, <1>2, <1>3, <1>4, <1>5, <1>6, <1>7, <1>8, <1>9 DEF Next

(* The sequence numbers of the two sides stand for the numbers that each    *)
(* means, and what the buffers and the radio link hold of a number is what  *)
(* was built of it: RlcInv holds in every state that a bearer in            *)
(* acknowledged mode reaches.                                               *)
THEOREM RlcInvHolds == Spec => []RlcInv
  <1>1. Init => RlcInv
    BY RlcInit
  <1>2. RlcInv /\ [Next]_vars => RlcInv'
    BY RlcNext
  <1> QED  BY <1>1, <1>2, PTL DEF Spec

-----------------------------------------------------------------------------
(* What follows from it.                                                   *)

(* The receiver expects a number that the sender still accounts for, and   *)
(* the sender keeps the oldest number that is not acknowledged. *)
LEMMA RlcWindowsAgree ==
  ASSUME RlcInv
  PROVE  WindowsAgree
  <1>1. /\ nA \in Nat /\ nR \in Nat /\ sent \in Nat
        /\ nA <= nR /\ nR <= sent /\ sent < nA + Modulus
        /\ vtA = At(nA) /\ vtS = At(sent) /\ vrR = At(nR)
    <2>1. /\ nA \in Nat /\ nR \in Nat /\ nMs \in Nat /\ nH \in Nat /\ sent \in Nat
          /\ nA <= nR /\ nR <= nMs /\ nMs <= nH /\ nH <= sent
          /\ sent < nA + Modulus
          /\ vtA = At(nA) /\ vtS = At(sent) /\ vrR = At(nR)
      BY Places
    <2> QED  BY <2>1
  <1>2. nR < nA + Modulus
    BY <1>1, ModulusPositive
  <1>3. Dist(At(nA), At(nR)) = nR - nA /\ Dist(At(nA), At(sent)) = sent - nA
    BY <1>1, <1>2, AtDist
  <1>4. Dist(vtA, vrR) <= Dist(vtA, vtS)
    BY <1>1, <1>3
  <1>5. vtA # vtS => txed[vtA] # <<>> \/ retx[vtA] # <<>>
    <2> SUFFICES ASSUME vtA # vtS PROVE txed[vtA] # <<>> \/ retx[vtA] # <<>>
      OBVIOUS
    <2>1. nA # sent
      BY <1>1
    <2>2. nA < sent
      BY <1>1, <2>1
    <2>3. Copy(vtA) # <<>>
      BY <2>2 DEF RlcInv, OldestKept
    <2> QED  BY <2>3 DEF Copy
  <1> QED  BY <1>4, <1>5 DEF WindowsAgree

(* What has not arrived is kept by the sender. *)
LEMMA RlcNothingForgotten ==
  ASSUME RlcInv
  PROVE  NothingForgotten
  <1>1. nR \in Nat /\ sent \in Nat /\ nR <= sent /\ sent < nR + Modulus
        /\ vtS = At(sent) /\ vrR = At(nR)
    <2>1. /\ nA \in Nat /\ nR \in Nat /\ nMs \in Nat /\ nH \in Nat /\ sent \in Nat
          /\ nA <= nR /\ nR <= nMs /\ nMs <= nH /\ nH <= sent
          /\ sent < nA + Modulus /\ vtS = At(sent) /\ vrR = At(nR)
      BY Places
    <2> QED  BY <2>1, ModulusPositive
  <1> SUFFICES ASSUME NEW s \in Between(vrR, vtS), ~rxon[s].complete
               PROVE  txed[s] # <<>> \/ retx[s] # <<>>
    BY DEF NothingForgotten
  <1>2. s \in SN
    BY DEF Between
  <1>3. PICK n \in Int : n = Ahead(nR, s) /\ nR <= n /\ At(n) = s
    BY <1>1, <1>2, AheadIs
  <1>4. n \in nR .. sent - 1
    <2>1. Ahead(nR, s) < sent
      BY <1>1, <1>2, BetweenIs
    <2> QED  BY <1>1, <1>3, <2>1
  <1>5. Len(Whole(n)) > 0 /\ Whole(n) = Copy(s)
    BY <1>3, <1>4, WholeIs DEF Whole
  <1>6. Copy(s) # <<>>
    BY <1>5
  <1> QED  BY <1>6 DEF Copy

(* The receiver's numbers are in order. *)
LEMMA RlcReceiverOrder ==
  ASSUME RlcInv
  PROVE  ReceiverOrder
  <1>1. /\ nA \in Nat /\ nR \in Nat /\ nMs \in Nat /\ nH \in Nat /\ sent \in Nat
        /\ nA <= nR /\ nR <= nMs /\ nMs <= nH /\ nH <= sent
        /\ sent <= nA + WindowSize /\ sent < nA + Modulus
        /\ vtS = At(sent)
        /\ vrR = At(nR) /\ vrMs = At(nMs) /\ vrH = At(nH)
        /\ reordering => nX \in Nat /\ vrX = At(nX) /\ nR < nX /\ nX <= nH
    BY Places
  <1>2. /\ Dist(vrR, vrMs) = nMs - nR /\ Dist(vrR, vrH) = nH - nR
        /\ Dist(vrR, vtS) = sent - nR
    <2>1. nMs < nR + Modulus /\ nH < nR + Modulus /\ sent < nR + Modulus
          /\ nR <= nH /\ nR <= sent
      BY <1>1, ModulusPositive
    <2>2. /\ Dist(At(nR), At(nMs)) = nMs - nR /\ Dist(At(nR), At(nH)) = nH - nR
          /\ Dist(At(nR), At(sent)) = sent - nR
      BY <1>1, <2>1, AtDist
    <2> QED  BY <1>1, <2>2
  <1>3. reordering => Dist(vrR, vrX) \in 1 .. Dist(vrR, vrH)
    <2> SUFFICES ASSUME reordering PROVE Dist(vrR, vrX) \in 1 .. Dist(vrR, vrH)
      OBVIOUS
    <2>1. nX \in Nat /\ vrX = At(nX) /\ nR < nX /\ nX <= nH /\ nX < nR + Modulus
      BY <1>1, ModulusPositive
    <2>2. Dist(At(nR), At(nX)) = nX - nR
      BY <1>1, <2>1, AtDist
    <2> QED  BY <1>1, <1>2, <2>1, <2>2
  <1>4. /\ nMs - nR <= nH - nR /\ nH - nR <= WindowSize /\ nH - nR <= sent - nR
    BY <1>1, ModulusPositive
  <1> QED  BY <1>2, <1>3, <1>4 DEF ReceiverOrder

(* A sender that waits for nothing but an answer asks again. *)
LEMMA RlcAsksAgain ==
  ASSUME RlcInv
  PROVE  AsksAgain
  <1> SUFFICES ASSUME bigEnough, txedSize > 0, WaitsForAnswer,
                      ~pollTimer, ~justExpired
               PROVE  FALSE
    BY DEF AsksAgain
  <1>1. /\ nA \in Nat /\ sent \in Nat /\ nA <= sent /\ sent < nA + Modulus
        /\ vtA = At(nA) /\ vtS = At(sent)
    <2>1. /\ nA \in Nat /\ nR \in Nat /\ nMs \in Nat /\ nH \in Nat /\ sent \in Nat
          /\ nA <= nR /\ nR <= nMs /\ nMs <= nH /\ nH <= sent
          /\ sent < nA + Modulus /\ vtA = At(nA) /\ vtS = At(sent)
      BY Places
    <2> QED  BY <2>1
  <1>2. /\ txed \in Buffers /\ retx \in Buffers
        /\ txedSize = SizeOf(txed, SN) /\ retxSize = SizeOf(retx, SN)
        /\ \A s \in SN : txed[s] # <<>> => s \in Between(vtA, vtS)
    BY RlcSender DEF SenderInv, SenderType, SenderAccounts
  <1>3. /\ retxSize = 0
        /\ ~(txon > 0 /\ InTransmittingWindow)
    <2>1. retxSize = 0 /\ (txon = 0 \/ ~InTransmittingWindow)
      BY DEF WaitsForAnswer
    <2> QED  BY <2>1
  <1>4. \A s \in SN : retx[s] = <<>>
    BY <1>2, <1>3, SizeOfZero
  <1>5. \A n \in nA .. sent - 1 : At(n) \in SN
    BY <1>1, AtType
  <1>6. \A n \in nA .. sent - 1 : txed[At(n)] = <<>>
    BY <1>3, <1>4, <1>5 DEF RlcInv, WillPoll
  <1>7. \A s \in SN : txed[s] = <<>>
    <2> SUFFICES ASSUME NEW s \in SN, txed[s] # <<>> PROVE FALSE
      OBVIOUS
    <2>1. s \in Between(At(nA), At(sent))
      BY <1>1, <1>2
    <2>2. Ahead(nA, s) < sent
      BY <1>1, <2>1, BetweenIs
    <2>3. PICK n \in Int : n = Ahead(nA, s) /\ nA <= n /\ At(n) = s
      BY <1>1, AheadIs
    <2>4. n \in nA .. sent - 1
      BY <1>1, <2>2, <2>3
    <2> QED  BY <1>6, <2>3, <2>4
  <1>8. txedSize = 0
    BY <1>2, <1>7, SizeOfEmpty
  <1> QED  BY <1>8

(* No more is delivered than was accepted, and nothing else. *)
NoMoreThanAccepted ==
  /\ Intact /\ Len(delivered) <= accepted
  /\ Len(delivered) \in Nat /\ accepted \in Nat

LEMMA RlcNoMore ==
  ASSUME RlcInv
  PROVE  NoMoreThanAccepted
  <1>1. accepted \in Nat /\ taken \in Nat /\ taken <= accepted * SduSize
    BY RlcSender DEF SenderInv, SenderType, RlcInv, Contiguous
  <1>2. delivered \in Seq(Seq(Nat)) /\ kept \in Seq(Nat)
    BY DEF RlcInv, TypeOK
  <1>3. Len(delivered) * SduSize + Len(kept) <= taken
    <2>1. nR \in Nat /\ sent \in Nat /\ nR <= sent
      <3>1. nR \in Nat /\ sent \in Nat /\ nMs \in Nat /\ nH \in Nat
            /\ nR <= nMs /\ nMs <= nH /\ nH <= sent
        BY Places
      <3> QED  BY <3>1
    <2>2. sent \in nR .. sent
      BY <2>1
    <2>3. FirstChunk(nR) <= FirstChunk(sent)
      BY <2>2, FirstChunkGrows
    <2>4. FirstChunk(sent) = taken
      BY DEF FirstChunk
    <2>5. FirstChunk(nR) = Len(delivered) * SduSize + Len(kept)
      BY DEF RlcInv, Contiguous
    <2> QED  BY <2>3, <2>4, <2>5
  <1>4. PICK d \in Nat, k \in Nat : d = Len(delivered) /\ k = Len(kept)
    BY <1>2
  <1>5. d <= accepted
    <2> SUFFICES ASSUME accepted + 1 <= d PROVE FALSE
      BY <1>1, <1>4
    <2>1. accepted + 1 \in Nat
      BY <1>1
    <2>2. (accepted + 1) * SduSize <= d * SduSize /\ d * SduSize \in Nat
      BY <1>4, <2>1, SduTimes
    <2>3. (accepted + 1) * SduSize = accepted * SduSize + 1 * SduSize
          /\ accepted * SduSize \in Nat /\ SduSize \in Nat \ {0}
      BY <1>1, SduTimes
    <2>4. 1 * SduSize = SduSize
      BY <2>3
    <2>5. d * SduSize + k <= accepted * SduSize
      <3>1. d * SduSize + k <= taken
        BY <1>3, <1>4
      <3> QED  BY <1>1, <1>4, <2>2, <2>3, <3>1
    <2> DEFINE u == d * SduSize
               v == accepted * SduSize
    <2>6. v + SduSize <= u /\ u + k <= v /\ u \in Nat /\ v \in Nat
      <3>1. v + SduSize <= u
        BY <2>2, <2>3, <2>4
      <3> QED  BY <2>2, <2>3, <2>5, <3>1
    <2> HIDE DEF u, v
    <2> QED  BY <1>4, <2>3, <2>6
  <1>6. Intact
    BY DEF RlcInv, DeliveredSoFar
  <1> QED  BY <1>1, <1>4, <1>5, <1>6 DEF NoMoreThanAccepted

(* What is delivered grows with the PDUs that come. *)
LEMMA DeliveredNext ==
  ASSUME RlcInv, [Next]_vars
  PROVE  \/ accepted' = accepted /\ Len(delivered') \in Nat
            /\ Len(delivered) <= Len(delivered')
         \/ accepted' = accepted + 1 /\ delivered' = delivered
  <1>0. Len(delivered) \in Nat
    BY RlcNoMore DEF NoMoreThanAccepted
  <1>1. CASE DoTransmitPdcpPdu
    BY <1>1 DEF DoTransmitPdcpPdu, rxVars
  <1>2. CASE \E size \in Sizes : BuildPdu(size)
    BY <1>0, <1>2 DEF BuildPdu, rxVars
  <1>3. CASE \E size \in Sizes : Retransmit(size)
    BY <1>0, <1>3 DEF Retransmit, rxVars
  <1>4. CASE \E s \in SN : Receive(s)
    <2>1. PICK p \in down : ReceivePdu(p)
      BY <1>4 DEF Receive
    <2>2. RlcInv' /\ Len(delivered) <= Len(delivered')
      BY <2>1, ReceivePduKeeps
    <2>3. Len(delivered') \in Nat
      BY <2>2 DEF RlcInv, TypeOK
    <2>4. accepted' = accepted
      BY <2>1 DEF ReceivePdu, txVars
    <2> QED  BY <2>2, <2>3, <2>4
  <1>5. CASE Answer
    BY <1>0, <1>5 DEF Answer, ReceiveStatus, rxVars
  <1>6. CASE \E room \in NackRoom : SendStatus(room)
    BY <1>0, <1>6 DEF SendStatus, txVars
  <1>7. CASE ExpirePollRetransmitTimer
    BY <1>0, <1>7 DEF ExpirePollRetransmitTimer, rxVars
  <1>8. CASE ExpireReorderingTimer
    BY <1>0, <1>8 DEF ExpireReorderingTimer, txVars
  <1>9. CASE \/ ExpireStatusProhibitTimer
             \/ \E p \in down : LosePdu(p)
             \/ \E m \in up : LoseStatus(m)
             \/ UNCHANGED vars
    BY <1>0, <1>9 DEF ExpireStatusProhibitTimer, LosePdu, LoseStatus, vars, txVars,
                      rxVars
  <1> QED
    BY <1>1, <1>2, <1>3, <1>4, <1>5, <1>6, <1>7, <1>8, <1>9 DEF Next

-----------------------------------------------------------------------------
(* The theorems.                                                           *)

(* Every variable of a bearer keeps its type: sizes stay natural numbers, and *)
(* what is numbered stays in the number space. *)
THEOREM RlcTypeOK == Spec => []TypeOK
  <1>1. RlcInv => TypeOK
    BY DEF RlcInv
  <1> QED  BY <1>1, RlcInvHolds, PTL

(* The receiver never expects a number that the sender has given up or has   *)
(* not built yet, and the sender keeps the oldest number that it waits for,  *)
(* which DoReportBufferStatus dereferences. *)
THEOREM WindowsAgreeHolds == Spec => []WindowsAgree
  <1>1. RlcInv => WindowsAgree
    BY RlcWindowsAgree
  <1> QED  BY <1>1, RlcInvHolds, PTL

(* A PDU that has not arrived complete is still in a buffer of the sender:   *)
(* no STATUS, timer or segment drops the last copy of it. *)
THEOREM NothingForgottenHolds == Spec => []NothingForgotten
  <1>1. RlcInv => NothingForgotten
    BY RlcNothingForgotten
  <1> QED  BY <1>1, RlcInvHolds, PTL

(* VR(R) <= VR(MS) <= VR(H) <= VT(S), not more than a window apart, and      *)
(* t-Reordering waits for a number between them. *)
THEOREM ReceiverOrderHolds == Spec => []ReceiverOrder
  <1>1. RlcInv => ReceiverOrder
    BY RlcReceiverOrder
  <1> QED  BY <1>1, RlcInvHolds, PTL

(* A sender with PDUs that wait for their acknowledgement and nothing that   *)
(* it could send has the timer of its poll running, or a poll that is due    *)
(* since the timer expired: that second case is the only way to fall silent. *)
THEOREM AsksAgainHolds == Spec => []AsksAgain
  <1>1. RlcInv => AsksAgain
    BY RlcAsksAgain
  <1> QED  BY <1>1, RlcInvHolds, PTL

(* The bearer implements ReliableDelivery: whatever the radio link loses and *)
(* reorders, the SDUs it delivers are the first that it accepted, complete,  *)
(* in order and once. *)
THEOREM ReliableServiceHolds == Spec => ReliableService
  <1>1. Init => Reliable!Init
    <2> SUFFICES ASSUME Init PROVE Reliable!Init
      OBVIOUS
    <2>1. accepted = 0 /\ delivered = <<>>
      BY DEF Init
    <2>2. Intact /\ Len(delivered) = 0
      BY <2>1 DEF Intact
    <2> QED  BY <2>1, <2>2 DEF Reliable!Init
  <1>2. RlcInv => NoMoreThanAccepted
    BY RlcNoMore
  <1>3. RlcInv /\ NoMoreThanAccepted /\ NoMoreThanAccepted' /\ [Next]_vars =>
          [Reliable!Accept \/ Reliable!Deliver]_<<accepted,
             IF Intact THEN Len(delivered) ELSE -1>>
    <2> SUFFICES ASSUME RlcInv, NoMoreThanAccepted, NoMoreThanAccepted', [Next]_vars
                 PROVE  [Reliable!Accept \/ Reliable!Deliver]_<<accepted,
                           IF Intact THEN Len(delivered) ELSE -1>>
      OBVIOUS
    <2>1. /\ Intact /\ Intact' /\ Len(delivered') <= accepted'
          /\ Len(delivered) \in Nat /\ Len(delivered') \in Nat
          /\ accepted \in Nat /\ accepted' \in Nat
      BY DEF NoMoreThanAccepted
    <2>2. CASE accepted' = accepted /\ Len(delivered) <= Len(delivered')
      <3>1. CASE Len(delivered') = Len(delivered)
        BY <2>1, <2>2, <3>1
      <3>2. CASE Len(delivered') # Len(delivered)
        <4>1. Len(delivered') \in Len(delivered) + 1 .. accepted
          BY <2>1, <2>2, <3>2
        <4> QED  BY <2>1, <2>2, <4>1 DEF Reliable!Deliver
      <3> QED  BY <3>1, <3>2
    <2>3. CASE accepted' = accepted + 1 /\ delivered' = delivered
      BY <2>1, <2>3 DEF Reliable!Accept
    <2> QED  BY <2>2, <2>3, DeliveredNext
  <1> QED
    BY <1>1, <1>2, <1>3, RlcInvHolds, PTL DEF Spec, ReliableService, Reliable!Spec

=============================================================================
