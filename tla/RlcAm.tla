------------------------------- MODULE RlcAm -------------------------------
(***************************************************************************)
(* One direction of an RLC bearer in acknowledged mode: an entity that     *)
(* sends SDUs in numbered PDUs, one that reassembles them, a radio link    *)
(* that loses and reorders PDUs, and the STATUS PDUs that come back.       *)
(* Source: src/src/lte/model/lte-rlc-am.cc, lte-rlc-sequence-number.h,     *)
(* lte-rlc-am-header.cc.                                                   *)
(*                                                                         *)
(* What is abstracted: the bytes of the accepted SDUs are numbered chunks, *)
(* SduSize of them to an SDU, and a PDU is the sequence of its chunks: its *)
(* framing and length fields are read off them.  Header sizes are left     *)
(* out, except that an opportunity of size 0 has no room but for a header. *)
(* m_pollPdu is 1: every new PDU asks for a STATUS.                        *)
(***************************************************************************)
EXTENDS Integers, Sequences, FiniteSets, FiniteSetsExt

CONSTANTS
  Modulus,       \* sequence numbers: 1024 in the code
  WindowSize,    \* m_windowSize: 512 in the code
  SduSize,       \* chunks of an SDU
  MaxTxBuffer,   \* m_maxTxBufferSize, in chunks
  Sizes,         \* sizes of transmission opportunities, in chunks
  NackRoom,      \* numbers of NACKs an opportunity may have room for
  AlwaysBigEnough,  \* values of m_txOpportunityForRetxAlwaysBigEnough
  MaxSdus,       \* bound on the SDUs submitted
  MaxInFlight    \* bound on the PDUs on the radio link

ASSUME WindowAssumption ==
  /\ WindowSize \in Nat \ {0}
  /\ Modulus \in Nat /\ 2 * WindowSize <= Modulus
ASSUME SizeAssumption ==
  /\ SduSize \in Nat \ {0} /\ MaxTxBuffer \in Nat
  /\ Sizes \subseteq Nat /\ NackRoom \subseteq Nat \ {0}
  /\ AlwaysBigEnough \subseteq BOOLEAN
  /\ MaxSdus \in Nat /\ MaxInFlight \in Nat

VARIABLES
  bigEnough,     \* m_txOpportunityForRetxAlwaysBigEnough
  accepted,      \* SDUs put into the transmission buffer
  taken,         \* chunks taken from m_txonBuffer so far
  sent,          \* new PDUs built so far: m_vtS is sent % Modulus
  vtA,           \* m_vtA: the oldest number not acknowledged
  txed,          \* m_txedBuffer: data by number, <<>> where there is none
  retx,          \* m_retxBuffer
  retxSeg,       \* m_retxSegBuffer: where its segment starts, 0 for none
  txedSize,      \* m_txedBufferSize
  retxSize,      \* m_retxBufferSize
  pollSn,        \* m_pollSn
  pollTimer,     \* m_pollRetransmitTimer is running
  justExpired,   \* m_pollRetransmitTimerJustExpired
  vrR, vrMs, vrX, vrH,   \* m_vrR, m_vrMs, m_vrX, m_vrH
  rxon,          \* m_rxonBuffer: data and m_pduComplete by number
  reordering,    \* m_reorderingTimer is running
  statusRequested,   \* m_statusPduRequested
  statusReported,    \* the MAC has been told of a STATUS to send
  prohibit,      \* m_statusProhibitTimer is running
  kept,          \* m_keepS0: the part of an SDU received so far
  delivered,     \* SDUs given to PDCP
  down, up       \* data PDUs and STATUS PDUs on the radio link

txVars == <<accepted, taken, sent, vtA, txed, retx, retxSeg, txedSize,
            retxSize, pollSn, pollTimer, justExpired>>
rxVars == <<vrR, vrMs, vrX, vrH, rxon, reordering, statusRequested,
            statusReported, prohibit, kept, delivered>>
vars == <<bigEnough, txVars, rxVars, down, up>>

SN == 0 .. Modulus - 1
vtS == sent % Modulus
Nothing == [data |-> <<>>, complete |-> FALSE]

\* n is history: the header holds n % Modulus.
Pdu == [n : Nat, seg : BOOLEAN, off : Nat, last : BOOLEAN, poll : BOOLEAN,
        data : Seq(Nat)]
Status == [ack : SN, nacks : SUBSET SN]

TypeOK ==
  /\ bigEnough \in BOOLEAN
  /\ accepted \in 0 .. MaxSdus /\ taken \in 0 .. accepted * SduSize
  /\ sent \in Nat /\ vtA \in SN
  /\ txed \in [SN -> Seq(Nat)] /\ retx \in [SN -> Seq(Nat)]
  /\ retxSeg \in [SN -> Nat]
  /\ txedSize \in Nat /\ retxSize \in Nat
  /\ pollSn \in SN /\ pollTimer \in BOOLEAN /\ justExpired \in BOOLEAN
  /\ {vrR, vrMs, vrX, vrH} \subseteq SN
  /\ rxon \in [SN -> [data : Seq(Nat), complete : BOOLEAN]]
  /\ {reordering, statusRequested, statusReported, prohibit} \subseteq BOOLEAN
  /\ kept \in Seq(Nat) /\ delivered \in Seq(Seq(Nat))
  /\ down \subseteq Pdu /\ up \subseteq Status

Init ==
  /\ bigEnough \in AlwaysBigEnough
  /\ accepted = 0 /\ taken = 0 /\ sent = 0 /\ vtA = 0
  /\ txed = [s \in SN |-> <<>>] /\ retx = [s \in SN |-> <<>>]
  /\ retxSeg = [s \in SN |-> 0] /\ txedSize = 0 /\ retxSize = 0
  /\ pollSn = 0 /\ pollTimer = FALSE /\ justExpired = FALSE
  /\ vrR = 0 /\ vrMs = 0 /\ vrX = 0 /\ vrH = 0
  /\ rxon = [s \in SN |-> Nothing]
  /\ reordering = FALSE /\ statusRequested = FALSE
  /\ statusReported = FALSE /\ prohibit = FALSE
  /\ kept = <<>> /\ delivered = <<>>
  /\ down = {} /\ up = {}

-----------------------------------------------------------------------------
(* SequenceNumber10: numbers are compared by their distance from a base.   *)

Dist(base, s) == (s - base) % Modulus

\* The numbers from a up to, and without, b.
Between(a, b) == {s \in SN : Dist(a, s) < Dist(a, b)}

vtMs == (vtA + WindowSize) % Modulus
InTransmittingWindow == Dist(vtA, vtS) < WindowSize
InReceivingWindow(base, s) == Dist(base, s) < WindowSize

\* How many numbers from s on satisfy P without a gap, and the first that
\* does not.
RunLength(s, set) ==
  CHOOSE k \in 0 .. Modulus :
    /\ \A i \in 0 .. k - 1 : (s + i) % Modulus \in set
    /\ (s + k) % Modulus \notin set \/ k = Modulus
FirstNotIn(s, set) == (s + RunLength(s, set)) % Modulus

Chunks(buffer, set) == UNION {{s} \X DOMAIN buffer[s] : s \in set}
SizeOf(buffer, set) == Cardinality(Chunks(buffer, set))
Clear(buffer, set) == [s \in SN |-> IF s \in set THEN <<>> ELSE buffer[s]]

-----------------------------------------------------------------------------
(* The sending entity.                                                     *)

txon == accepted * SduSize - taken     \* m_txonBufferSize

\* A PDU that would not fit is discarded: nothing changes.
DoTransmitPdcpPdu ==
  /\ accepted < MaxSdus
  /\ txon + SduSize <= MaxTxBuffer
  /\ accepted' = accepted + 1
  /\ UNCHANGED <<bigEnough, taken, sent, vtA, txed, retx, retxSeg, txedSize,
                 retxSize, pollSn, pollTimer, justExpired, rxVars, down, up>>

\* A HARQ process delivers or drops a PDU long before the sender is half the
\* number space further.
HarqInTime(n) == \A p \in down : n < p.n + (Modulus - WindowSize)

\* The polling bit is set: note the number and restart the timer.
Poll(sn) == pollSn' = sn /\ pollTimer' = TRUE /\ justExpired' = FALSE
NoPoll == UNCHANGED <<pollSn, pollTimer, justExpired>>

\* A plausible mistake of the action below: the window is not looked at.
BuildPduBeyondWindow(size) ==
  /\ retxSize = 0 /\ txon > 0 /\ size > 0
  /\ HarqInTime(sent) /\ Cardinality(down) < MaxInFlight
  /\ LET count == Min({size, txon})
         data == [i \in 1 .. count |-> taken + i - 1]
     IN  /\ taken' = taken + count
         /\ txed' = [txed EXCEPT ![vtS] = data]
         /\ txedSize' = txedSize + count
         /\ down' = down \cup {[n |-> sent, seg |-> FALSE, off |-> 0,
                                last |-> TRUE, poll |-> TRUE, data |-> data]}
  /\ sent' = sent + 1
  /\ Poll(vtS)
  /\ UNCHANGED <<bigEnough, accepted, vtA, retx, retxSeg, retxSize, rxVars, up>>

\* A new PDU, of as many chunks as fit.
BuildPdu(size) ==
  /\ retxSize = 0 /\ txon > 0 /\ size > 0
  /\ InTransmittingWindow
  /\ HarqInTime(sent) /\ Cardinality(down) < MaxInFlight
  /\ LET count == Min({size, txon})
         data == [i \in 1 .. count |-> taken + i - 1]
     IN  /\ taken' = taken + count
         /\ txed' = [txed EXCEPT ![vtS] = data]
         /\ txedSize' = txedSize + count
         /\ down' = down \cup {[n |-> sent, seg |-> FALSE, off |-> 0,
                                last |-> TRUE, poll |-> TRUE, data |-> data]}
  /\ sent' = sent + 1
  /\ Poll(vtS)
  /\ UNCHANGED <<bigEnough, accepted, vtA, retx, retxSeg, retxSize, rxVars, up>>

\* The oldest PDU to be sent again.
OldestRetx ==
  CHOOSE s \in Between(vtA, vtS) :
    retx[s] # <<>> /\ \A t \in Between(vtA, s) : retx[t] = <<>>

\* What is left of it: the whole PDU or its last segment.
RestOf(s) == SubSeq(retx[s], retxSeg[s] + 1, Len(retx[s]))

MustPoll(s) ==
  \/ txon = 0 /\ retxSize = Len(RestOf(s))
  \/ ~InTransmittingWindow
  \/ justExpired

\* A plausible mistake of the operator below: the number before 0 is -1.
PollIfNoWrap(must) == IF must THEN Poll(vtS - 1) ELSE NoPoll

\* m_pollSn is the number sent last.
PollIf(must) == IF must THEN Poll((vtS - 1) % Modulus) ELSE NoPoll

NumberOf(s) == sent - Dist(s, vtS)

\* The rest is sent, and the PDU waits for its acknowledgement again.
RetransmitRest(s) ==
  /\ down' = down \cup
       {[n |-> NumberOf(s), seg |-> retxSeg[s] # 0, off |-> retxSeg[s],
         last |-> TRUE, poll |-> MustPoll(s), data |-> RestOf(s)]}
  /\ txed' = [txed EXCEPT ![s] = retx[s]]
  /\ txedSize' = txedSize + Len(retx[s])
  /\ retx' = [retx EXCEPT ![s] = <<>>]
  /\ retxSize' = retxSize - Len(retx[s])
  /\ retxSeg' = [retxSeg EXCEPT ![s] = 0]

\* Only a first part fits; without room for it the poll is noted all the same.
RetransmitPart(s, size) ==
  /\ IF size = 0
     THEN UNCHANGED <<down, retxSeg>>
     ELSE /\ down' = down \cup
               {[n |-> NumberOf(s), seg |-> TRUE, off |-> retxSeg[s],
                 last |-> FALSE, poll |-> MustPoll(s),
                 data |-> SubSeq(RestOf(s), 1, size)]}
          /\ retxSeg' = [retxSeg EXCEPT ![s] = @ + size]
  /\ UNCHANGED <<txed, txedSize, retx, retxSize>>

Retransmit(size) ==
  /\ retxSize > 0
  /\ Cardinality(down) < MaxInFlight
  /\ LET s == OldestRetx IN
       /\ PollIf(MustPoll(s))
       /\ IF Len(RestOf(s)) <= size \/ bigEnough THEN RetransmitRest(s)
                                                 ELSE RetransmitPart(s, size)
  /\ UNCHANGED <<bigEnough, accepted, taken, sent, vtA, rxVars, up>>

\* A STATUS speaks of the numbers from VT(A) to its ACK_SN, at most to VT(S).
Covered(m) == Between(vtA, m.ack) \cap Between(vtA, vtS)

\* A plausible mistake of the operator below: any STATUS answers the poll.
AnyStatusAnswers(covered) == FALSE

\* m_pollRetransmitTimer runs until a STATUS speaks of the polled number.
StillPolling(covered) == pollTimer /\ pollSn \notin covered

\* A plausible mistake of the action below: a NACK does not stop VT(A).
ReceiveStatusPastNacks(m) ==
  /\ m \in up
  /\ up' = up \ {m}
  /\ LET covered == Covered(m)
         nacked  == {s \in covered \cap m.nacks : txed[s] # <<>>}
         acked   == covered \ m.nacks
     IN  /\ pollTimer' = StillPolling(covered)
         /\ retx' = [s \in SN |-> IF s \in nacked THEN txed[s]
                                  ELSE IF s \in acked THEN <<>> ELSE retx[s]]
         /\ retxSize' = retxSize + SizeOf(txed, nacked) - SizeOf(retx, acked)
         /\ txed' = Clear(txed, nacked \cup acked)
         /\ txedSize' = txedSize - SizeOf(txed, nacked \cup acked)
         /\ retxSeg' = [s \in SN |-> IF s \in acked THEN 0 ELSE retxSeg[s]]
         /\ vtA' = FirstNotIn(vtA, covered)
  /\ UNCHANGED <<bigEnough, accepted, taken, sent, pollSn, justExpired, rxVars,
                 down>>

\* The branch of DoReceivePdu for control PDUs: what is acknowledged goes, what
\* is not is sent again, VT(A) moves up to the first NACK.
ReceiveStatus(m) ==
  /\ m \in up
  /\ up' = up \ {m}
  /\ LET covered == Covered(m)
         nacked  == {s \in covered \cap m.nacks : txed[s] # <<>>}
         acked   == covered \ m.nacks
     IN  /\ pollTimer' = StillPolling(covered)
         /\ retx' = [s \in SN |-> IF s \in nacked THEN txed[s]
                                  ELSE IF s \in acked THEN <<>> ELSE retx[s]]
         /\ retxSize' = retxSize + SizeOf(txed, nacked) - SizeOf(retx, acked)
         /\ txed' = Clear(txed, nacked \cup acked)
         /\ txedSize' = txedSize - SizeOf(txed, nacked \cup acked)
         /\ retxSeg' = [s \in SN |-> IF s \in acked THEN 0 ELSE retxSeg[s]]
         /\ vtA' = FirstNotIn(vtA, acked)
  /\ UNCHANGED <<bigEnough, accepted, taken, sent, pollSn, justExpired, rxVars,
                 down>>

\* No answer to the poll: with nothing else to send, everything is sent again.
ExpirePollRetransmitTimer ==
  /\ pollTimer
  /\ pollTimer' = FALSE /\ justExpired' = TRUE
  /\ IF (txon = 0 /\ retxSize = 0) \/ vtS = vtMs
     THEN LET again == {s \in Between(vtA, vtS) : txed[s] # <<>>} IN
            /\ retx' = [s \in SN |-> IF s \in again THEN txed[s] ELSE retx[s]]
            /\ retxSize' = retxSize + SizeOf(txed, again)
            /\ txed' = Clear(txed, again)
            /\ txedSize' = txedSize - SizeOf(txed, again)
     ELSE UNCHANGED <<retx, retxSize, txed, txedSize>>
  /\ UNCHANGED <<bigEnough, accepted, taken, sent, vtA, retxSeg, pollSn, rxVars,
                 down, up>>

-----------------------------------------------------------------------------
(* The receiving entity.                                                   *)

\* A plausible mistake of the operator below: segments are not put in order.
StoredAnyOrder(entry, p) ==
  IF entry = Nothing THEN [data |-> p.data, complete |-> ~p.seg]
  ELSE IF p.seg /\ ~entry.complete
       THEN [data |-> entry.data \o p.data, complete |-> p.last]
       ELSE entry

\* What m_rxonBuffer holds of the PDU's number once the PDU is in: a segment
\* must follow the last one, or it costs the PDU the ones before.
Stored(entry, p) ==
  IF entry = Nothing
  THEN IF p.off = 0 THEN [data |-> p.data, complete |-> ~p.seg] ELSE Nothing
  ELSE IF ~p.seg THEN entry
  ELSE IF ~entry.complete /\ p.off = Len(entry.data)
       THEN [data |-> entry.data \o p.data, complete |-> p.last]
  ELSE IF entry.complete THEN entry ELSE Nothing

\* ReassembleAndDeliver of PDUs in sequence: what was kept is continued, each
\* SDU that ends is delivered, an SDU that does not is kept.
Reassemble(data) ==
  LET bytes == kept \o data
      full  == Len(bytes) \div SduSize
  IN  /\ delivered' = delivered \o
           [i \in 1 .. full |-> SubSeq(bytes, (i - 1) * SduSize + 1, i * SduSize)]
      /\ kept' = SubSeq(bytes, full * SduSize + 1, Len(bytes))

\* The data of k PDUs from VR(R) on.
InSequence(buffer, k) ==
  LET upTo[i \in 0 .. k] ==
        IF i = 0 THEN <<>>
                 ELSE upTo[i - 1] \o buffer[(vrR + i - 1) % Modulus].data
  IN  upTo[k]

\* A plausible mistake of the operator below: what is discarded is not answered.
NotePollInWindow(p) ==
  LET poll == p.poll /\ InReceivingWindow(vrR, p.n % Modulus)
  IN  /\ statusRequested' = (statusRequested \/ poll)
      /\ statusReported' = (statusReported \/ (poll /\ ~prohibit))

\* The poll is answered even if the PDU is then discarded.
NotePoll(p) ==
  /\ statusRequested' = (statusRequested \/ p.poll)
  /\ statusReported' = (statusReported \/ (p.poll /\ ~prohibit))

\* t-Reordering is stopped if what it waits for has come, and started again if
\* a PDU is missing.
UpdateReordering ==
  LET running == /\ reordering
                 /\ vrX # vrR'
                 /\ \/ InReceivingWindow(vrR', vrX)
                    \/ vrX = (vrR' + WindowSize) % Modulus
      missing == vrH' # vrR'
  IN  /\ reordering' = (running \/ missing)
      /\ vrX' = IF ~running /\ missing THEN vrH' ELSE vrX

\* A plausible mistake of the operator below: VR(H) follows the PDU that came.
HighestIsLatest(s) == (s + 1) % Modulus

\* VR(H) once number s has come.
Highest(s) == IF Dist(vrR, s) >= Dist(vrR, vrH) THEN (s + 1) % Modulus ELSE vrH

\* The branch of DoReceivePdu for data PDUs.
ReceivePdu(p) ==
  /\ p \in down
  /\ down' = down \ {p}
  /\ NotePoll(p)
  /\ LET s == p.n % Modulus
         buffer == [rxon EXCEPT ![s] = Stored(@, p)]
         complete == {t \in SN : buffer[t].complete}
         run == IF s = vrR THEN RunLength(vrR, complete) ELSE 0
     IN  IF InReceivingWindow(vrR, s)
         THEN /\ vrH' = Highest(s)
              /\ vrMs' = FirstNotIn(vrMs, complete)
              /\ vrR' = (vrR + run) % Modulus
              /\ rxon' = [t \in SN |->
                            IF Dist(vrR, t) < run THEN Nothing ELSE buffer[t]]
              /\ Reassemble(InSequence(buffer, run))
              /\ UpdateReordering
         ELSE UNCHANGED <<vrR, vrMs, vrX, vrH, rxon, reordering, kept, delivered>>
  /\ UNCHANGED <<bigEnough, txVars, prohibit, up>>

\* VR(MS) passes the missing PDUs; the MAC is not told of the STATUS.
ExpireReorderingTimer ==
  /\ reordering
  /\ vrMs' = FirstNotIn(vrX, {t \in SN : rxon[t].complete})
  /\ reordering' = (Dist(vrR, vrH) > Dist(vrR, vrMs'))
  /\ vrX' = IF reordering' THEN vrH ELSE vrX
  /\ statusRequested' = TRUE
  /\ UNCHANGED <<bigEnough, txVars, vrR, vrH, rxon, statusReported, prohibit,
                 kept, delivered, down, up>>

\* The missing numbers below VR(MS), as many as there is room for.
Nacks(room) ==
  {s \in Between(vrR, vrMs) :
     /\ ~rxon[s].complete
     /\ Cardinality({t \in Between(vrR, s) : ~rxon[t].complete}) < room}

\* A plausible mistake of the operator below: without room for all NACKs, the
\* numbers behind are acknowledged all the same.
AckSnToVrMs(room) == vrMs

\* The first number not spoken for: the first NACK there is no room for, or
\* VR(MS).
AckSn(room) ==
  IF Cardinality(Nacks(room)) = room
  THEN LET lastNack == CHOOSE s \in Nacks(room) :
                         \A t \in Nacks(room) : Dist(vrR, t) <= Dist(vrR, s)
       IN  FirstNotIn((lastNack + 1) % Modulus,
                      {t \in Between(vrR, vrMs) : rxon[t].complete})
  ELSE vrMs

\* An opportunity for the STATUS PDU.
SendStatus(room) ==
  /\ statusRequested /\ ~prohibit
  /\ up' = up \cup {[ack |-> AckSn(room), nacks |-> Nacks(room)]}
  /\ statusRequested' = FALSE /\ statusReported' = FALSE
  /\ prohibit' = TRUE
  /\ UNCHANGED <<bigEnough, txVars, vrR, vrMs, vrX, vrH, rxon, reordering, kept,
                 delivered, down>>

\* t-StatusProhibit outlasts the HARQ transmission of a STATUS PDU, so that one
\* never overtakes another.
ExpireStatusProhibitTimer ==
  /\ prohibit /\ up = {}
  /\ prohibit' = FALSE
  /\ UNCHANGED <<bigEnough, txVars, vrR, vrMs, vrX, vrH, rxon, reordering,
                 statusRequested, statusReported, kept, delivered, down, up>>

-----------------------------------------------------------------------------
(* The radio link.                                                         *)

LosePdu(p) ==
  /\ p \in down
  /\ down' = down \ {p}
  /\ UNCHANGED <<bigEnough, txVars, rxVars, up>>

LoseStatus(m) ==
  /\ m \in up
  /\ up' = up \ {m}
  /\ UNCHANGED <<bigEnough, txVars, rxVars, down>>

-----------------------------------------------------------------------------
Receive(s) == \E p \in down : p.n % Modulus = s /\ ReceivePdu(p)
ReceiveSegment == \E p \in down : p.seg /\ ReceivePdu(p)
Answer == \E m \in up : ReceiveStatus(m)

Next ==
  \/ DoTransmitPdcpPdu
  \/ \E size \in Sizes : BuildPdu(size)
  \/ \E size \in Sizes : Retransmit(size)
  \/ \E s \in SN : Receive(s)
  \/ Answer
  \/ \E room \in NackRoom : SendStatus(room)
  \/ ExpirePollRetransmitTimer
  \/ ExpireReorderingTimer
  \/ ExpireStatusProhibitTimer
  \/ \E p \in down : LosePdu(p)
  \/ \E m \in up : LoseStatus(m)

Spec == Init /\ [][Next]_vars

(***************************************************************************)
(* The scheduler serves a bearer that reports data, now and then with an   *)
(* opportunity of the largest size; one that has only a STATUS to send, if *)
(* the MAC was told of it.  Timers expire.  The link loses neither every   *)
(* transmission of a PDU nor every segment nor every STATUS.               *)
(***************************************************************************)
SenderServed == BuildPdu(Max(Sizes)) \/ Retransmit(Max(Sizes))
ReceiverServed == statusReported /\ SendStatus(Max(NackRoom))

FairSpec ==
  /\ Spec
  /\ WF_vars(SenderServed) /\ WF_vars(ReceiverServed)
  /\ WF_vars(ExpirePollRetransmitTimer)
  /\ WF_vars(ExpireReorderingTimer)
  /\ WF_vars(ExpireStatusProhibitTimer)
  /\ \A s \in SN : SF_vars(Receive(s))
  /\ SF_vars(ReceiveSegment)
  /\ SF_vars(Answer)

-----------------------------------------------------------------------------
(* Properties.                                                             *)

\* What is delivered is what was accepted, SDU by SDU.
Intact ==
  \A i \in DOMAIN delivered :
    delivered[i] = [k \in 1 .. SduSize |-> (i - 1) * SduSize + k - 1]

\* The bearer delivers the SDUs it has accepted complete, in order and once,
\* whatever the radio link loses or reorders.
Reliable ==
  INSTANCE ReliableDelivery
    WITH delivered <- IF Intact THEN Len(delivered) ELSE -1
ReliableService == Reliable!Spec

\* What the sender keeps adds up: it is never more than a window ahead, the
\* sizes it reports to the scheduler are those of its buffers, and these hold
\* each number once and only between VT(A) and VT(S), where
\* DoNotifyTxOpportunity looks for the PDU to send again.
SenderAccounts ==
  /\ Dist(vtA, vtS) <= WindowSize
  /\ txedSize = SizeOf(txed, SN) /\ retxSize = SizeOf(retx, SN)
  /\ \A s \in SN : txed[s] # <<>> => retx[s] = <<>> /\ retxSeg[s] = 0
  /\ \A s \in SN : txed[s] # <<>> \/ retx[s] # <<>> => s \in Between(vtA, vtS)

\* The receiver expects a number the sender still accounts for, or it would
\* take a new PDU for an old one; and the sender keeps the oldest number, which
\* DoReportBufferStatus dereferences.
WindowsAgree ==
  /\ Dist(vtA, vrR) <= Dist(vtA, vtS)
  /\ vtA # vtS => txed[vtA] # <<>> \/ retx[vtA] # <<>>

\* A PDU that has not arrived can still be sent again: a STATUS or a timer
\* never drops the last copy.
NothingForgotten ==
  \A s \in Between(vrR, vtS) :
    ~rxon[s].complete => txed[s] # <<>> \/ retx[s] # <<>>

\* VR(R) <= VR(MS) <= VR(H), and t-Reordering waits for a number between
\* them: a STATUS never acknowledges what was not received.
ReceiverOrder ==
  /\ Dist(vrR, vrMs) <= Dist(vrR, vrH) /\ Dist(vrR, vrH) <= WindowSize
  /\ reordering => Dist(vrR, vrX) \in 1 .. Dist(vrR, vrH)
  /\ Dist(vrR, vrH) <= Dist(vrR, vtS)

\* A sender with nothing to send now, neither again nor for the first time.
WaitsForAnswer == retxSize = 0 /\ (txon = 0 \/ ~InTransmittingWindow)

\* A sender that waits for nothing but an answer has a timer running that will
\* make it ask again; or the timer expired while there were PDUs to send again,
\* and the poll that was to go with one of them is still due.
AsksAgain ==
  bigEnough /\ txedSize > 0 /\ WaitsForAnswer => pollTimer \/ justExpired

\* In the second case nothing makes it ask: until then it is silent.
Silent == txedSize > 0 /\ WaitsForAnswer /\ ~pollTimer

\* Every SDU accepted is delivered, if opportunities have room for the PDUs
\* sent again and the sender does not fall silent for good.
AllDelivered ==
  []<>~Silent =>
    \A k \in 1 .. MaxSdus : (bigEnough /\ accepted >= k) ~> (Len(delivered) >= k)

\* The sender learns of it: its buffers empty, so the window cannot close for
\* good and the bearer stops asking for opportunities.
AllAcknowledged ==
  []<>~Silent =>
    ((bigEnough /\ txedSize + retxSize > 0) ~> (txedSize + retxSize = 0))

\* As the test suite says of a channel with losses, all SDUs are delivered in
\* the end: here with opportunities that have room for the PDUs sent again.
DeliveredDespiteLosses ==
  \A k \in 1 .. MaxSdus : (bigEnough /\ accepted >= k) ~> (Len(delivered) >= k)

\* As the test suite says of a channel with losses, all SDUs are delivered in
\* the end: here whatever the size of the opportunities, if losses end.
LossesEnd ==
  <>[][~(\E p \in down : LosePdu(p)) /\ ~(\E m \in up : LoseStatus(m))]_vars
DeliveredWithSegments ==
  LossesEnd => \A k \in 1 .. MaxSdus : (accepted >= k) ~> (Len(delivered) >= k)

=============================================================================
