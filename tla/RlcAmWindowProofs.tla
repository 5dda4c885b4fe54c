-------------------------- MODULE RlcAmWindowProofs --------------------------
(***************************************************************************)
(* Proofs that RlcInv is an invariant of RlcAm, for every number space,    *)
(* window, size of the SDUs, of the opportunities and of the STATUS PDUs,  *)
(* and whatever the radio link loses and reorders; and of what follows     *)
(* from it: the windows of the two sides agree, nothing is forgotten, and  *)
(* the bearer implements ReliableDelivery.                                 *)
(***************************************************************************)
EXTENDS RlcAmInvariant, RlcAmProofs

-----------------------------------------------------------------------------
(* Numbers and the sequence numbers that stand for them.                   *)

(* A sequence number is a remainder. *)
LEMMA AtType ==
  ASSUME NEW n \in Int
  PROVE  At(n) \in SN
  BY Remainder DEF At

(* The remainder of what is less than Modulus above a multiple. *)
LEMMA RemainderOf ==
  ASSUME NEW q \in Int, NEW b \in SN
  PROVE  (Modulus * q + b) % Modulus = b
  BY ModulusPositive DEF SN

(* A number is a multiple of Modulus and its sequence number. *)
LEMMA AtSplit ==
  ASSUME NEW n \in Int
  PROVE  \E q \in Int : n = Modulus * q + At(n)
  <1>1. n = Modulus * (n \div Modulus) + (n % Modulus) /\ n \div Modulus \in Int
    BY ModulusPositive
  <1> QED  BY <1>1 DEF At

(* Counting on from a sequence number is counting on from the number. *)
LEMMA AtPlus ==
  ASSUME NEW n \in Int, NEW k \in Int
  PROVE  (At(n) + k) % Modulus = At(n + k)
  <1>1. PICK q \in Int : n = Modulus * q + At(n)
    BY AtSplit
  <1>2. PICK p \in Int : n + k = Modulus * p + At(n + k)
    BY AtSplit
  <1>3. At(n) \in SN /\ At(n + k) \in SN
    BY AtType
  <1> DEFINE b == At(n + k)
             c == At(n)
  <1>4. c + k = Modulus * (p - q) + b
    <2> HIDE DEF b, c
    <2>1. n = Modulus * q + c /\ n + k = Modulus * p + b /\ c \in Int /\ b \in Int
      BY <1>1, <1>2, <1>3, ModulusPositive DEF b, c, SN
    <2>2. Modulus * (p - q) = Modulus * p - Modulus * q
      BY ModulusPositive
    <2> QED  BY <2>1, <2>2, ModulusPositive
  <1>5. (Modulus * (p - q) + b) % Modulus = b
    <2> HIDE DEF b
    <2> QED  BY <1>3, RemainderOf DEF b
  <1> QED  BY <1>4, <1>5

(* The distance of two sequence numbers is that of their numbers. *)
LEMMA AtDist ==
  ASSUME NEW n \in Int, NEW m \in Int, n <= m, m < n + Modulus
  PROVE  Dist(At(n), At(m)) = m - n
  <1>1. PICK q \in Int : n = Modulus * q + At(n)
    BY AtSplit
  <1>2. PICK p \in Int : m = Modulus * p + At(m)
    BY AtSplit
  <1> DEFINE b == At(n)
             c == At(m)
  <1>3. b \in SN /\ c \in SN
    BY AtType
  <1>4. c - b = Modulus * (q - p) + (m - n)
    <2> HIDE DEF b, c
    <2>1. n = Modulus * q + b /\ m = Modulus * p + c /\ b \in Int /\ c \in Int
      BY <1>1, <1>2, <1>3, ModulusPositive DEF b, c, SN
    <2>2. Modulus * (q - p) = Modulus * q - Modulus * p
      BY ModulusPositive
    <2> QED  BY <2>1, <2>2, ModulusPositive
  <1>5. m - n \in SN
    BY ModulusPositive DEF SN
  <1>6. (Modulus * (q - p) + (m - n)) % Modulus = m - n
    BY <1>5, RemainderOf
  <1> QED  BY <1>4, <1>6 DEF Dist

(* The sequence number comes back after Modulus numbers. *)
LEMMA AtWraps ==
  ASSUME NEW n \in Int
  PROVE  At(n + Modulus) = At(n)
  <1>1. PICK q \in Int : n = Modulus * q + At(n)
    BY AtSplit
  <1>2. At(n) \in SN
    BY AtType
  <1> DEFINE b == At(n)
  <1>3. n + Modulus = Modulus * (q + 1) + b
    <2> HIDE DEF b
    <2>1. n = Modulus * q + b /\ b \in Int
      BY <1>1, <1>2, ModulusPositive DEF b, SN
    <2>2. Modulus * (q + 1) = Modulus * q + Modulus
      BY ModulusPositive
    <2> QED  BY <2>1, <2>2, ModulusPositive
  <1>4. (Modulus * (q + 1) + b) % Modulus = b
    <2> HIDE DEF b
    <2> QED  BY <1>2, RemainderOf DEF b
  <1> QED  BY <1>3, <1>4 DEF At

(* Numbers less than Modulus apart have sequence numbers of their own. *)
LEMMA AtSame ==
  ASSUME NEW n \in Int, NEW m \in Int, At(n) = At(m),
         m < n + Modulus, n < m + Modulus
  PROVE  n = m
  <1>1. At(n) \in SN /\ Dist(At(n), At(n)) = 0
    <2>1. At(n) \in SN
      BY AtType
    <2>2. \A s \in SN : Dist(s, s) = 0
      <3> SUFFICES ASSUME NEW s \in SN PROVE Dist(s, s) = 0
        OBVIOUS
      <3>1. Dist(s, s) = IF s >= s THEN s - s ELSE s - s + Modulus
        BY DistIs
      <3> QED  BY <3>1, ModulusPositive DEF SN
    <2> QED  BY <2>1, <2>2
  <1>2. CASE n <= m
    BY <1>1, <1>2, AtDist
  <1>3. CASE m < n
    BY <1>1, <1>3, AtDist
  <1> QED  BY <1>2, <1>3

(* From n on, each sequence number stands for one number of the next Modulus. *)
LEMMA AheadIs ==
  ASSUME NEW n \in Int, NEW s \in SN
  PROVE  /\ Ahead(n, s) \in Int /\ n <= Ahead(n, s) /\ Ahead(n, s) < n + Modulus
         /\ At(Ahead(n, s)) = s
         /\ Dist(At(n), s) = Ahead(n, s) - n
  <1> DEFINE d == Dist(At(n), s)
             c == At(n)
  <1>1. d \in SN /\ c \in SN
    <2>1. c \in SN
      BY AtType
    <2>2. d \in SN
      BY <2>1, DistIs
    <2> QED  BY <2>1, <2>2
  <1>2. At(n + d) = (c + d) % Modulus
    <2> HIDE DEF d
    <2>1. d \in Int
      BY <1>1, ModulusPositive DEF SN
    <2> QED  BY <2>1, AtPlus DEF c
  <1>3. (c + d) % Modulus = s
    <2>1. d = IF s >= c THEN s - c ELSE s - c + Modulus
      <3> HIDE DEF c
      <3> QED  BY <1>1, DistIs DEF c
    <2> HIDE DEF c, d
    <2>2. c + d = s \/ c + d = s + Modulus
      BY <2>1, <1>1, ModulusPositive DEF SN
    <2>3. s \in SN /\ s + Modulus \in Modulus .. 2 * Modulus - 1
      BY ModulusPositive DEF SN
    <2> QED  BY <2>2, <2>3, Remainder, ModulusPositive DEF SN
  <1>4. Ahead(n, s) = n + d
    BY DEF Ahead
  <1> HIDE DEF c, d
  <1>5. d \in Int /\ 0 <= d /\ d < Modulus
    BY <1>1, ModulusPositive DEF SN
  <1>6. At(Ahead(n, s)) = s
    BY <1>2, <1>3, <1>4
  <1>7. /\ Ahead(n, s) \in Int /\ n <= Ahead(n, s) /\ Ahead(n, s) < n + Modulus
        /\ d = Ahead(n, s) - n
    BY <1>4, <1>5, ModulusPositive
  <1> QED  BY <1>6, <1>7 DEF d, c

(* It is the number itself, if that is near enough. *)
LEMMA AheadAt ==
  ASSUME NEW n \in Int, NEW m \in Int, n <= m, m < n + Modulus
  PROVE  Ahead(n, At(m)) = m
  BY AtDist DEF Ahead

(* The sequence numbers between two numbers. *)
LEMMA BetweenIs ==
  ASSUME NEW n \in Int, NEW m \in Int, n <= m, m < n + Modulus
  PROVE  /\ \A s \in SN : s \in Between(At(n), At(m)) <=> Ahead(n, s) < m
         /\ \A i \in n .. n + Modulus - 1 : At(i) \in Between(At(n), At(m)) <=> i < m
  <1>1. Dist(At(n), At(m)) = m - n
    BY AtDist
  <1>2. ASSUME NEW s \in SN
        PROVE  s \in Between(At(n), At(m)) <=> Ahead(n, s) < m
    <2>1. Dist(At(n), s) = Ahead(n, s) - n /\ Ahead(n, s) \in Int
      BY AheadIs
    <2> QED  BY <1>1, <2>1 DEF Between
  <1>3. ASSUME NEW i \in n .. n + Modulus - 1
        PROVE  At(i) \in Between(At(n), At(m)) <=> i < m
    <2>1. i \in Int /\ n <= i /\ i < n + Modulus
      BY ModulusPositive
    <2>2. Ahead(n, At(i)) = i
      BY <2>1, AheadAt
    <2>3. At(i) \in SN
      BY <2>1, AtType
    <2> QED  BY <1>2, <2>2, <2>3
  <1> QED  BY <1>2, <1>3

(* The run of elements of a set, in numbers. *)
LEMMA RunIs ==
  ASSUME NEW n \in Int, NEW set
  PROVE  LET k == RunLength(At(n), set) IN
           /\ k \in 0 .. Modulus
           /\ \A i \in n .. n + k - 1 : At(i) \in set
           /\ At(n + k) \notin set \/ k = Modulus
           /\ FirstNotIn(At(n), set) = At(n + k)
  <1> DEFINE k == RunLength(At(n), set)
  <1>1. At(n) \in SN
    BY AtType
  <1>2. /\ k \in 0 .. Modulus
        /\ \A j \in 0 .. k - 1 : (At(n) + j) % Modulus \in set
        /\ (At(n) + k) % Modulus \notin set \/ k = Modulus
    BY <1>1, RunLengthIs
  <1>3. FirstNotIn(At(n), set) = (At(n) + k) % Modulus
    BY DEF FirstNotIn
  <1> HIDE DEF k
  <1>4. k \in Int
    BY <1>2, ModulusPositive
  <1>5. (At(n) + k) % Modulus = At(n + k)
    BY <1>4, AtPlus
  <1>6. ASSUME NEW i \in n .. n + k - 1 PROVE At(i) \in set
    <2>1. i - n \in 0 .. k - 1 /\ i - n \in Int /\ n + (i - n) = i
      BY <1>4
    <2>2. (At(n) + (i - n)) % Modulus = At(n + (i - n))
      BY <2>1, AtPlus
    <2> QED  BY <1>2, <2>1, <2>2
  <1> QED  BY <1>2, <1>3, <1>5, <1>6 DEF k

-----------------------------------------------------------------------------
(* The numbers behind the state variables.                                 *)

(* What RlcInv says of them. *)
LEMMA Places ==
  ASSUME RlcInv
  PROVE  /\ nA \in Nat /\ nR \in Nat /\ nMs \in Nat /\ nH \in Nat /\ sent \in Nat
         /\ nA <= nR /\ nR <= nMs /\ nMs <= nH /\ nH <= sent
         /\ sent <= nA + WindowSize /\ sent < nA + Modulus
         /\ vtA = At(nA) /\ vtS = At(sent)
         /\ vrR = At(nR) /\ vrMs = At(nMs) /\ vrH = At(nH)
         /\ reordering => nX \in Nat /\ vrX = At(nX) /\ nR < nX /\ nX <= nH
  <1>1. /\ vtA \in SN /\ vrR \in SN /\ vrMs \in SN /\ vrX \in SN /\ vrH \in SN
        /\ sent \in Nat
    BY DEF RlcInv, TypeOK
  <1>2. /\ 0 <= nA /\ nR <= nMs /\ nMs <= nH /\ nH <= sent
        /\ sent <= nA + WindowSize
        /\ reordering => nR < nX /\ nX <= nH
    BY DEF RlcInv, WindowOrder
  <1> DEFINE c == At(sent)
             d == Dist(vtA, c)
  <1>3. vtS = c /\ c \in SN
    BY <1>1, AtType DEF vtS, At
  <1>4. nA = sent - d
    BY <1>3 DEF nA, NumberOf
  <1>5. d = (IF c >= vtA THEN c - vtA ELSE c - vtA + Modulus) /\ d \in SN
    <2> HIDE DEF c
    <2> QED  BY <1>1, <1>3, DistIs
  <1>6. (c - d) % Modulus = vtA
    <2> HIDE DEF c, d
    <2>1. c - d = vtA \/ c - d = vtA - Modulus
      BY <1>1, <1>3, <1>5, ModulusPositive DEF SN
    <2>2. vtA \in SN /\ vtA - Modulus \in -Modulus .. -1
      BY <1>1, ModulusPositive DEF SN
    <2>3. vtA - Modulus + Modulus = vtA
      BY <1>1, ModulusPositive DEF SN
    <2> QED  BY <2>1, <2>2, <2>3, Remainder
  <1>7. nA \in Int /\ d \in Int
    <2> HIDE DEF d
    <2> QED  BY <1>1, <1>4, <1>5, ModulusPositive DEF SN
  <1>8. vtA = At(nA)
    <2>1. (c + (-d)) % Modulus = At(sent + (-d))
      <3> HIDE DEF d
      <3> QED  BY <1>1, <1>7, AtPlus DEF c
    <2>2. c + (-d) = c - d /\ sent + (-d) = sent - d
      <3> HIDE DEF d, c
      <3> QED  BY <1>1, <1>3, <1>7, ModulusPositive DEF SN
    <2> QED  BY <1>4, <1>6, <2>1, <2>2
  <1> HIDE DEF c, d
  <1>9. /\ nR \in Int /\ nA <= nR /\ At(nR) = vrR
    BY <1>1, <1>7, AheadIs DEF nR
  <1>10. /\ nMs \in Int /\ At(nMs) = vrMs
         /\ nH \in Int /\ At(nH) = vrH
         /\ nX \in Int /\ At(nX) = vrX
    BY <1>1, <1>9, AheadIs DEF nMs, nH, nX
  <1> QED
    BY <1>1, <1>2, <1>3, <1>7, <1>8, <1>9, <1>10, ModulusPositive DEF c

(* Numbers in the order of the windows are the ones behind the variables of *)
(* the next state. *)
LEMMA PlacesNext ==
  ASSUME sent' \in Int, NEW A \in Int, NEW R \in Int, NEW Q \in Int, NEW T \in Int,
         vtA' = At(A), vrR' = At(R), vrMs' = At(Q), vrH' = At(T),
         A <= R, R <= Q, Q <= T, T <= sent', sent' <= A + WindowSize
  PROVE  /\ nA' = A /\ nR' = R /\ nMs' = Q /\ nH' = T
         /\ \A z \in Int : vrX' = At(z) /\ R <= z /\ z <= T => nX' = z
  <1>1. sent' < A + Modulus
    BY ModulusPositive
  <1>2. nA' = A
    <2>1. Dist(At(A), At(sent')) = sent' - A
      BY <1>1, AtDist
    <2> QED  BY <2>1 DEF nA, NumberOf, vtS, At
  <1>3. nR' = R
    <2>0. R < A + Modulus
      BY <1>1, ModulusPositive
    <2>1. Ahead(A, At(R)) = R
      BY <2>0, AheadAt
    <2>2. nR' = Ahead(nA', vrR')
      BY DEF nR
    <2> QED  BY <1>2, <2>1, <2>2
  <1>4. \A z \in Int : R <= z /\ z <= T => Ahead(R, At(z)) = z
    <2> SUFFICES ASSUME NEW z \in Int, R <= z, z <= T PROVE Ahead(R, At(z)) = z
      OBVIOUS
    <2>1. z < R + Modulus
      BY <1>1, ModulusPositive
    <2> QED  BY <2>1, AheadAt
  <1>5. nMs' = Ahead(nR', vrMs') /\ nH' = Ahead(nR', vrH') /\ nX' = Ahead(nR', vrX')
    BY DEF nMs, nH, nX
  <1> QED  BY <1>2, <1>3, <1>4, <1>5

(* A PDU on its way is taken for a new one if and only if it is one. *)
LEMMA InWindow ==
  ASSUME RlcInv, NEW n \in Int, n < sent, sent + WindowSize <= n + Modulus
  PROVE  InReceivingWindow(vrR, At(n)) <=> nR <= n
  <1>1. /\ nR \in Nat /\ nA \in Nat /\ sent \in Nat /\ nA <= nR /\ nR <= sent
        /\ sent <= nA + WindowSize /\ vrR = At(nR)
    BY Places
  <1>2. CASE nR <= n
    <2>1. n < nR + Modulus /\ n - nR < WindowSize
      BY <1>1, <1>2, ModulusPositive
    <2>2. Dist(At(nR), At(n)) = n - nR
      BY <1>1, <1>2, <2>1, AtDist
    <2> QED  BY <1>1, <1>2, <2>1, <2>2 DEF InReceivingWindow
  <1>3. CASE n < nR
    <2> DEFINE m == n + Modulus
    <2>1. m \in Int /\ nR <= m /\ m < nR + Modulus /\ m - nR >= WindowSize
      BY <1>1, <1>3, ModulusPositive
    <2>2. At(m) = At(n)
      BY AtWraps
    <2> HIDE DEF m
    <2>3. Dist(At(nR), At(m)) = m - nR
      BY <1>1, <2>1, AtDist
    <2> QED  BY <1>1, <1>3, <2>1, <2>2, <2>3, ModulusPositive DEF InReceivingWindow
  <1> QED  BY <1>1, <1>2, <1>3

-----------------------------------------------------------------------------
(* Steps that move neither VT(A), VT(S), VR(R) nor VR(H).                  *)

(* RlcInv holds what the accounts of the sender rest on. *)
LEMMA RlcSender ==
  ASSUME RlcInv
  PROVE  SenderInv
  <1>1. TypeOK /\ SenderAccounts
    BY DEF RlcInv
  <1>2. taken \in Nat /\ accepted \in Nat
    BY <1>1, SizeAssumption DEF TypeOK
  <1>3. SenderType
    BY <1>1, <1>2 DEF TypeOK, SenderType, Buffers
  <1>4. SegmentsOfRetx
    <2> SUFFICES ASSUME NEW s \in SN, retxSeg[s] # 0 PROVE retx[s] # <<>>
      BY DEF SegmentsOfRetx
    <2>1. retxSeg[s] < Len(retx[s]) /\ retxSeg[s] \in Nat
      BY <1>1 DEF RlcInv, CopiesAgree, TypeOK
    <2> QED  BY <2>1
  <1> QED  BY <1>1, <1>3, <1>4 DEF SenderInv

(* The places are those of before. *)
LEMMA SamePlaces ==
  ASSUME UNCHANGED <<sent, vtA, vrR, vrH>>
  PROVE  /\ nA' = nA /\ nR' = nR /\ nH' = nH
         /\ vrMs' = vrMs => nMs' = nMs
         /\ vrX' = vrX => nX' = nX
         /\ \A s : Ahead(nA, s)' = Ahead(nA, s)
         /\ \A s : Ahead(nR, s)' = Ahead(nR, s)
  <1>1. nA' = nA
    BY DEF nA, NumberOf, vtS, Dist
  <1>2. nR' = nR
    BY <1>1 DEF nR, Ahead, At, Dist
  <1> QED  BY <1>1, <1>2 DEF nH, nMs, nX, Ahead, At, Dist

(* Whole SDUs, in chunks. *)
LEMMA SduTimes ==
  ASSUME NEW j \in Nat, NEW k \in Nat
  PROVE  /\ SduSize \in Nat \ {0} /\ j * SduSize \in Nat
         /\ (j + k) * SduSize = j * SduSize + k * SduSize
         /\ j <= k => j * SduSize <= k * SduSize
  <1>1. SduSize \in Nat \ {0}
    BY SizeAssumption
  <1>2. ASSUME NEW u \in Nat, NEW v \in Nat
        PROVE  u * SduSize \in Nat /\ (u + v) * SduSize = u * SduSize + v * SduSize
    BY <1>1
  <1>3. CASE j <= k
    <2>1. k - j \in Nat /\ j + (k - j) = k
      BY <1>3
    <2>2. (j + (k - j)) * SduSize = j * SduSize + (k - j) * SduSize
      BY <1>2, <2>1
    <2>3. j * SduSize \in Nat /\ (k - j) * SduSize \in Nat
      BY <1>2, <2>1
    <2>4. k * SduSize = j * SduSize + (k - j) * SduSize
      BY <2>1, <2>2
    <2>5. j * SduSize <= k * SduSize
      BY <2>3, <2>4
    <2> QED  BY <1>1, <1>2, <2>5
  <1>4. CASE ~(j <= k)
    BY <1>1, <1>2, <1>4
  <1> QED  BY <1>3, <1>4

(* The types that the sender's accounts do not give. *)
LEMMA TypeFrom ==
  ASSUME SenderInv', bigEnough' \in BOOLEAN, accepted' \in 0 .. MaxSdus,
         taken' <= accepted' * SduSize,
         pollSn' \in SN, pollTimer' \in BOOLEAN, justExpired' \in BOOLEAN,
         vrR' \in SN, vrMs' \in SN, vrX' \in SN, vrH' \in SN,
         rxon' \in [SN -> [data : Seq(Nat), complete : BOOLEAN]],
         reordering' \in BOOLEAN, statusRequested' \in BOOLEAN,
         statusReported' \in BOOLEAN, prohibit' \in BOOLEAN,
         kept' \in Seq(Nat), delivered' \in Seq(Seq(Nat)),
         down' \subseteq Pdu, up' \subseteq Status
  PROVE  TypeOK'
  <1>1. /\ accepted' \in Nat /\ taken' \in Nat /\ sent' \in Nat /\ vtA' \in SN
        /\ txed' \in [SN -> Seq(Nat)] /\ retx' \in [SN -> Seq(Nat)]
        /\ retxSeg' \in [SN -> Nat]
    BY DEF SenderInv, SenderType, Buffers
  <1>2. taken' \in 0 .. accepted' * SduSize
    <2>1. accepted' * SduSize \in Nat
      BY <1>1, SduTimes
    <2> QED  BY <1>1, <2>1
  <1>3. txedSize' \in Nat /\ retxSize' \in Nat
    <2>1. txed' \in Buffers /\ retx' \in Buffers /\ SN \in SUBSET SN
      BY <1>1 DEF Buffers
    <2>2. SizeOf(txed', SN) \in Nat /\ SizeOf(retx', SN) \in Nat
      BY <2>1, ChunksFinite
    <2> QED  BY <2>2 DEF SenderInv, SenderAccounts
  <1> QED  BY <1>1, <1>2, <1>3 DEF TypeOK

(* A STATUS on its way stays true if neither side moves. *)
LEMMA StatusKept ==
  ASSUME RlcInv, UNCHANGED <<sent, vtA, vrR, vrH, rxon>>,
         \A s \in SN : Copy(s)' = Copy(s),
         up' \subseteq up, up' # {} => prohibit'
  PROVE  StatusTrue'
  <1>1. nA' = nA /\ nR' = nR /\ nA \in Nat /\ sent \in Nat
    BY SamePlaces, Places
  <1>2. \A m1, m2 \in up' : m1 = m2
    BY DEF RlcInv, StatusTrue
  <1>3. ASSUME NEW m \in up'
        PROVE  /\ Ahead(nA, m.ack)' <= sent'
               /\ \A n \in nA' .. Ahead(nA, m.ack)' - 1 :
                    At(n) \in m.nacks \/ Received(n)'
               /\ \E f \in nA' .. sent' : MovesTo(m, f)'
    <2>1. m \in up
      OBVIOUS
    <2>2. /\ Ahead(nA, m.ack) <= sent
          /\ \A n \in nA .. Ahead(nA, m.ack) - 1 : At(n) \in m.nacks \/ Received(n)
          /\ \E f \in nA .. sent : MovesTo(m, f)
      BY <2>1 DEF RlcInv, StatusTrue
    <2>3. Ahead(nA, m.ack)' = Ahead(nA, m.ack)
      BY SamePlaces
    <2>4. \A n : Received(n)' = Received(n)
      BY <1>1 DEF Received, At
    <2>5. ASSUME NEW f \in nA .. sent, MovesTo(m, f) PROVE MovesTo(m, f)'
      <3>1. At(f) \in SN
        BY <1>1, AtType
      <3>2. Copy(At(f))' = Copy(At(f))
        BY <3>1 DEF At
      <3>3. /\ f \in nA .. Ahead(nA, m.ack) /\ f <= nR
            /\ f = Ahead(nA, m.ack) \/ At(f) \in m.nacks
            /\ \A n \in nA .. f - 1 : At(n) \notin m.nacks
            /\ f < sent => Copy(At(f)) # <<>>
        BY <2>5 DEF MovesTo
      <3> QED  BY <1>1, <2>3, <3>2, <3>3 DEF MovesTo, At
    <2> QED  BY <1>1, <2>2, <2>3, <2>4, <2>5
  <1> QED  BY <1>1, <1>2, <1>3 DEF StatusTrue, At, Ahead

(* Steps that leave the buffers of both sides alone. *)
LEMMA QuietPreserves ==
  ASSUME RlcInv,
         UNCHANGED <<bigEnough, taken, sent, vtA, txed, retx, retxSeg, txedSize,
                     retxSize, pollSn, pollTimer, justExpired, vrR, vrH, rxon,
                     kept, delivered>>,
         accepted' \in accepted .. MaxSdus,
         WindowOrder', vrMs' \in SN, vrX' \in SN, ~rxon[vrMs'].complete,
         reordering' \in BOOLEAN, statusRequested' \in BOOLEAN,
         statusReported' \in BOOLEAN, prohibit' \in BOOLEAN,
         down' \subseteq down, StatusTrue', up' \subseteq Status
  PROVE  RlcInv'
  <1>1. nA' = nA /\ nR' = nR /\ nH' = nH /\ vtS' = vtS
    BY SamePlaces DEF vtS
  <1>2. /\ accepted \in 0 .. MaxSdus /\ taken <= accepted * SduSize
        /\ taken \in Nat /\ SduSize \in Nat \ {0} /\ MaxSdus \in Nat
    BY SizeAssumption DEF RlcInv, TypeOK
  <1>3. accepted' \in 0 .. MaxSdus /\ accepted <= accepted'
    BY <1>2
  <1>4. taken' <= accepted' * SduSize /\ txon <= txon' /\ txon' \in Int
        /\ txon \in Int
    <2>1. accepted * SduSize <= accepted' * SduSize
      <3>1. accepted \in Nat /\ accepted' \in Nat
        BY <1>2, <1>3
      <3> QED  BY <1>3, <3>1, SduTimes
    <2>2. accepted * SduSize \in Nat /\ accepted' * SduSize \in Nat
      <3>1. accepted \in Nat /\ accepted' \in Nat
        BY <1>2, <1>3
      <3> QED  BY <3>1, SduTimes
    <2> DEFINE u == accepted * SduSize
               v == accepted' * SduSize
    <2>3. txon = u - taken /\ txon' = v - taken' /\ taken' = taken
      BY DEF txon
    <2> HIDE DEF u, v
    <2>4. u <= v /\ u \in Nat /\ v \in Nat /\ taken <= u
      BY <1>2, <2>1, <2>2 DEF u, v
    <2>5. taken' <= v /\ txon <= txon' /\ txon' \in Int /\ txon \in Int
      BY <1>2, <2>3, <2>4
    <2> QED  BY <2>5 DEF v
  <1>5. SenderInv'
    BY <1>3, RlcSender, OthersPreserve
  <1>6. TypeOK'
    BY <1>3, <1>4, <1>5, TypeFrom DEF RlcInv, TypeOK
  <1>7. ReceptionBuffer'
    BY <1>1 DEF RlcInv, ReceptionBuffer, Dist
  <1>8. InTime'
    BY DEF RlcInv, InTime
  <1>9. \A n : Whole(n)' = Whole(n) /\ Copy(At(n))' = Copy(At(n))
    BY DEF Whole, Copy, At
  <1>10. \A n : FirstChunk(n)' = FirstChunk(n)
    BY <1>9 DEF FirstChunk
  <1>11. Contiguous'
    BY <1>1, <1>4, <1>9, <1>10 DEF RlcInv, Contiguous, ChunksFrom
  <1>12. CopiesAgree'
    BY <1>1, <1>9 DEF RlcInv, CopiesAgree, At
  <1>13. DeliveredSoFar'
    BY DEF RlcInv, DeliveredSoFar, Intact, ChunksFrom
  <1>14. OldestKept'
    BY <1>1 DEF RlcInv, OldestKept, Copy
  <1>15. PollsLast'
    BY DEF RlcInv, PollsLast, At
  <1>16. WillPoll'
    <2>1. InTransmittingWindow' = InTransmittingWindow
      BY <1>1 DEF InTransmittingWindow, Dist
    <2> QED  BY <1>1, <1>4, <2>1 DEF RlcInv, WillPoll, At
  <1> QED
    BY <1>5, <1>6, <1>7, <1>8, <1>11, <1>12, <1>13, <1>14, <1>15, <1>16
       DEF RlcInv, SenderInv

(* Steps that leave the windows alone too. *)
LEMMA StillPreserves ==
  ASSUME RlcInv,
         UNCHANGED <<bigEnough, taken, sent, vtA, txed, retx, retxSeg, txedSize,
                     retxSize, pollSn, pollTimer, justExpired, vrR, vrMs, vrX,
                     vrH, rxon, reordering, kept, delivered>>,
         accepted' \in accepted .. MaxSdus,
         statusRequested' \in BOOLEAN, statusReported' \in BOOLEAN,
         prohibit' \in BOOLEAN,
         down' \subseteq down, up' \subseteq up, up' # {} => prohibit'
  PROVE  RlcInv'
  <1>1. WindowOrder'
    <2>1. nA' = nA /\ nR' = nR /\ nMs' = nMs /\ nH' = nH /\ nX' = nX
      BY SamePlaces
    <2> QED  BY <2>1 DEF RlcInv, WindowOrder
  <1>2. vrMs' \in SN /\ vrX' \in SN /\ ~rxon[vrMs'].complete /\ reordering' \in BOOLEAN
        /\ up' \subseteq Status
    BY DEF RlcInv, TypeOK, ReceptionBuffer
  <1>3. StatusTrue'
    <2>1. \A s \in SN : Copy(s)' = Copy(s)
      BY DEF Copy
    <2> QED  BY <2>1, StatusKept
  <1> QED  BY <1>1, <1>2, <1>3, QuietPreserves

(* A new SDU only waits. *)
LEMMA DoTransmitPdcpPduKeeps ==
  ASSUME RlcInv, DoTransmitPdcpPdu
  PROVE  RlcInv'
  <1>1. accepted' \in accepted .. MaxSdus
    <2>1. accepted \in Nat /\ MaxSdus \in Nat /\ accepted < MaxSdus
          /\ accepted' = accepted + 1
      BY SizeAssumption DEF DoTransmitPdcpPdu, RlcInv, TypeOK
    <2> QED  BY <2>1
  <1>2. UNCHANGED <<bigEnough, taken, sent, vtA, txed, retx, retxSeg, txedSize,
                    retxSize, pollSn, pollTimer, justExpired, vrR, vrMs, vrX,
                    vrH, rxon, reordering, kept, delivered, statusRequested,
                    statusReported, prohibit, down, up>>
    BY DEF DoTransmitPdcpPdu, rxVars
  <1>3. /\ statusRequested' \in BOOLEAN /\ statusReported' \in BOOLEAN
        /\ prohibit' \in BOOLEAN
        /\ up' # {} => prohibit'
    BY <1>2 DEF RlcInv, TypeOK, StatusTrue
  <1>4. down' \subseteq down /\ up' \subseteq up
    BY <1>2
  <1> QED  BY <1>1, <1>2, <1>3, <1>4, StillPreserves

(* Losses, the end of t-StatusProhibit, and no step at all. *)
LEMMA OthersKeep ==
  ASSUME RlcInv,
         \/ ExpireStatusProhibitTimer
         \/ \E p \in down : LosePdu(p)
         \/ \E m \in up : LoseStatus(m)
         \/ UNCHANGED vars
  PROVE  RlcInv'
  <1>1. /\ accepted \in accepted .. MaxSdus
        /\ statusRequested \in BOOLEAN /\ statusReported \in BOOLEAN
        /\ prohibit \in BOOLEAN
        /\ up # {} => prohibit
    <2>1. accepted \in Nat /\ MaxSdus \in Nat /\ accepted <= MaxSdus
      BY SizeAssumption DEF RlcInv, TypeOK
    <2>2. accepted \in accepted .. MaxSdus
      BY <2>1
    <2>3. /\ statusRequested \in BOOLEAN /\ statusReported \in BOOLEAN
          /\ prohibit \in BOOLEAN
      BY DEF RlcInv, TypeOK
    <2>4. up # {} => prohibit
      BY DEF RlcInv, StatusTrue
    <2> QED  BY <2>2, <2>3, <2>4
  <1>2. /\ UNCHANGED <<bigEnough, accepted, taken, sent, vtA, txed, retx, retxSeg,
                       txedSize, retxSize, pollSn, pollTimer, justExpired, vrR,
                       vrMs, vrX, vrH, rxon, reordering, kept, delivered,
                       statusRequested, statusReported>>
        /\ down' \subseteq down /\ up' \subseteq up
        /\ prohibit' = prohibit \/ (prohibit' = FALSE /\ up' = {})
    BY DEF ExpireStatusProhibitTimer, LosePdu, LoseStatus, vars, txVars, rxVars
  <1>3. accepted' \in accepted .. MaxSdus
    BY <1>1, <1>2
  <1>4. /\ statusRequested' \in BOOLEAN /\ statusReported' \in BOOLEAN
        /\ prohibit' \in BOOLEAN
    BY <1>1, <1>2
  <1>5. up' # {} => prohibit'
    <2>1. up' # {} => up # {}
      BY <1>2
    <2> QED  BY <1>1, <1>2, <2>1
  <1> QED  BY <1>2, <1>3, <1>4, <1>5, StillPreserves

-----------------------------------------------------------------------------
(* The STATUS that the receiver builds.                                    *)

(* A set of naturals with a bound has a greatest element. *)
LEMMA GreatestNatural ==
  ASSUME NEW b \in Int, NEW T, T \subseteq Int, T # {},
         NEW c \in Int, \A y \in T : c <= y /\ y <= b
  PROVE  \E z \in T : \A y \in T : y <= z
  <1> DEFINE U == {b - y : y \in T}
  <1>1. U \subseteq Nat /\ U # {}
    <2>1. \A y \in T : b - y \in Nat
      OBVIOUS
    <2> QED  BY <2>1
  <1>2. PICK u \in U : \A v \in U : u <= v
    <2> HIDE DEF U
    <2> QED  BY <1>1, LeastNatural
  <1>3. PICK z \in T : u = b - z
    OBVIOUS
  <1>4. ASSUME NEW y \in T PROVE y <= z
    <2>1. b - y \in U
      OBVIOUS
    <2>2. b - z <= b - y
      BY <1>2, <1>3, <2>1
    <2> QED  BY <2>2
  <1> QED  BY <1>4

(* The missing numbers from VR(R) up to, and without, n. *)
MissingBelow(n) == {t \in Between(vrR, At(n)) : ~rxon[t].complete}

(* They are finitely many, and the further up, the more. *)
LEMMA MissingIs ==
  ASSUME RlcInv, NEW n \in Int, nR <= n, n < nR + Modulus
  PROVE  /\ IsFiniteSet(MissingBelow(n)) /\ Cardinality(MissingBelow(n)) \in Nat
         /\ MissingBelow(n) \subseteq SN
         /\ \A i \in nR .. nR + Modulus - 1 :
              At(i) \in MissingBelow(n) <=> i < n /\ ~rxon[At(i)].complete
  <1>1. nR \in Nat /\ vrR = At(nR)
    BY Places
  <1>2. MissingBelow(n) \subseteq SN
    BY DEF MissingBelow, Between
  <1>3. IsFiniteSet(SN)
    BY ModulusPositive, FS_Interval DEF SN
  <1>4. IsFiniteSet(MissingBelow(n)) /\ Cardinality(MissingBelow(n)) \in Nat
    BY <1>2, <1>3, FS_Subset, FS_CardinalityType
  <1>5. ASSUME NEW i \in nR .. nR + Modulus - 1
        PROVE  At(i) \in MissingBelow(n) <=> i < n /\ ~rxon[At(i)].complete
    <2>1. At(i) \in Between(At(nR), At(n)) <=> i < n
      BY <1>1, BetweenIs
    <2> QED  BY <1>1, <2>1 DEF MissingBelow
  <1> QED  BY <1>2, <1>4, <1>5

(* More are missing further up. *)
LEMMA MissingGrows ==
  ASSUME RlcInv, NEW i \in Int, NEW n \in Int, nR <= i, i <= n, n < nR + Modulus
  PROVE  /\ MissingBelow(i) \subseteq MissingBelow(n)
         /\ Cardinality(MissingBelow(i)) <= Cardinality(MissingBelow(n))
  <1>1. nR \in Nat /\ vrR = At(nR) /\ i < nR + Modulus /\ nR <= n
    BY Places, ModulusPositive
  <1>2. MissingBelow(i) \subseteq MissingBelow(n)
    <2> SUFFICES ASSUME NEW s \in MissingBelow(i) PROVE s \in MissingBelow(n)
      OBVIOUS
    <2>1. s \in SN /\ s \in Between(At(nR), At(i)) /\ ~rxon[s].complete
      BY <1>1 DEF MissingBelow, Between
    <2>2. Ahead(nR, s) < i /\ Ahead(nR, s) \in Int
      BY <1>1, <2>1, BetweenIs, AheadIs
    <2>3. s \in Between(At(nR), At(n))
      <3>1. Ahead(nR, s) < n
        BY <2>2
      <3> QED  BY <1>1, <2>1, <3>1, BetweenIs
    <2> QED  BY <1>1, <2>1, <2>3 DEF MissingBelow
  <1>3. IsFiniteSet(MissingBelow(n))
    BY <1>1, MissingIs
  <1> QED  BY <1>2, <1>3, FS_Subset

(* What is nacked, in numbers. *)
LEMMA NacksIs ==
  ASSUME RlcInv, NEW room \in Nat
  PROVE  /\ Nacks(room) \subseteq SN
         /\ \A i \in nR .. nR + Modulus - 1 :
              At(i) \in Nacks(room) <=>
                /\ i < nMs /\ ~rxon[At(i)].complete
                /\ Cardinality(MissingBelow(i)) < room
         /\ \A s \in Nacks(room) : \E i \in nR .. nMs - 1 : s = At(i)
  <1>1. /\ nR \in Nat /\ nMs \in Nat /\ nR <= nMs /\ nMs < nR + Modulus
        /\ vrR = At(nR) /\ vrMs = At(nMs)
    <2>1. /\ nR \in Nat /\ nMs \in Nat /\ nA \in Nat /\ sent \in Nat /\ nH \in Nat
          /\ nA <= nR /\ nR <= nMs /\ nMs <= nH /\ nH <= sent
          /\ sent < nA + Modulus /\ vrR = At(nR) /\ vrMs = At(nMs)
      BY Places
    <2> QED  BY <2>1, ModulusPositive
  <1>2. \A s \in SN : s \in Nacks(room) <=>
          /\ s \in Between(At(nR), At(nMs)) /\ ~rxon[s].complete
          /\ Cardinality({t \in Between(vrR, s) : ~rxon[t].complete}) < room
    BY <1>1 DEF Nacks, Between
  <1>3. ASSUME NEW i \in nR .. nR + Modulus - 1
        PROVE  At(i) \in Nacks(room) <=>
                 /\ i < nMs /\ ~rxon[At(i)].complete
                 /\ Cardinality(MissingBelow(i)) < room
    <2>1. At(i) \in Between(At(nR), At(nMs)) <=> i < nMs
      BY <1>1, BetweenIs
    <2>2. At(i) \in SN
      BY AtType
    <2> QED  BY <1>2, <2>1, <2>2 DEF MissingBelow
  <1>4. Nacks(room) \subseteq SN
    BY DEF Nacks, Between
  <1>5. ASSUME NEW s \in Nacks(room) PROVE \E i \in nR .. nMs - 1 : s = At(i)
    <2>1. s \in SN /\ s \in Between(At(nR), At(nMs))
      BY <1>1, <1>4 DEF Nacks
    <2>2. /\ Ahead(nR, s) < nMs /\ Ahead(nR, s) \in Int /\ nR <= Ahead(nR, s)
          /\ At(Ahead(nR, s)) = s
      BY <1>1, <2>1, BetweenIs, AheadIs
    <2>3. Ahead(nR, s) \in nR .. nMs - 1
      BY <1>1, <2>2
    <2> QED  BY <2>2, <2>3
  <1> QED  BY <1>3, <1>4, <1>5

(* A run stops at a number that is not in the set. *)
LEMMA RunStops ==
  ASSUME NEW n \in Int, NEW b \in Int, NEW set, n <= b, b < n + Modulus,
         At(b) \notin set
  PROVE  \E q \in n .. b :
           /\ RunLength(At(n), set) = q - n
           /\ FirstNotIn(At(n), set) = At(q)
           /\ At(q) \notin set
           /\ \A i \in n .. q - 1 : At(i) \in set
  <1> DEFINE k == RunLength(At(n), set)
  <1>1. /\ k \in 0 .. Modulus
        /\ \A i \in n .. n + k - 1 : At(i) \in set
        /\ At(n + k) \notin set \/ k = Modulus
        /\ FirstNotIn(At(n), set) = At(n + k)
    BY RunIs
  <1> HIDE DEF k
  <1>2. k \in Int /\ 0 <= k
    BY <1>1, ModulusPositive
  <1>3. n + k <= b
    <2> SUFFICES ASSUME b < n + k PROVE FALSE
      BY <1>2
    <2>1. b \in n .. n + k - 1
      BY <1>2
    <2> QED  BY <1>1, <2>1
  <1>4. k # Modulus
    BY <1>2, <1>3, ModulusPositive
  <1>5. n + k \in n .. b /\ k = (n + k) - n
    BY <1>2, <1>3
  <1>6. At(n + k) \notin set
    BY <1>1, <1>4
  <1> QED  BY <1>1, <1>5, <1>6 DEF k

(* Nothing from VR(H) on has arrived. *)
LEMMA BelowHighest ==
  ASSUME RlcInv, NEW i \in nR .. nR + Modulus - 1, rxon[At(i)] # Nothing
  PROVE  i < nH
  <1>1. nR \in Nat /\ nH \in Nat /\ vrR = At(nR)
    BY Places
  <1>2. i \in Int /\ nR <= i /\ i < nR + Modulus
    BY <1>1, ModulusPositive
  <1>3. Dist(At(nR), At(i)) = i - nR
    BY <1>1, <1>2, AtDist
  <1>4. At(i) \in SN
    BY <1>2, AtType
  <1>5. Dist(vrR, At(i)) < nH - nR
    BY <1>4 DEF RlcInv, ReceptionBuffer
  <1> QED  BY <1>1, <1>2, <1>3, <1>5

(* VR(MS) passes the missing PDUs up to the next gap. *)
LEMMA ExpireReorderingTimerKeeps ==
  ASSUME RlcInv, ExpireReorderingTimer
  PROVE  RlcInv'
  <1> DEFINE complete == {t \in SN : rxon[t].complete}
  <1>1. /\ nA \in Nat /\ nR \in Nat /\ nMs \in Nat /\ nH \in Nat /\ sent \in Nat
        /\ nA <= nR /\ nR <= nMs /\ nMs <= nH /\ nH <= sent
        /\ sent <= nA + WindowSize /\ sent < nA + Modulus
        /\ vtA = At(nA) /\ vrR = At(nR) /\ vrMs = At(nMs) /\ vrH = At(nH)
        /\ reordering => nX \in Nat /\ vrX = At(nX) /\ nR < nX /\ nX <= nH
    BY Places
  <1>2. /\ reordering
        /\ vrMs' = FirstNotIn(vrX, complete)
        /\ reordering' = (Dist(vrR, vrH) > Dist(vrR, vrMs'))
        /\ vrX' = IF reordering' THEN vrH ELSE vrX
        /\ statusRequested' = TRUE
        /\ UNCHANGED <<bigEnough, txVars, vrR, vrH, rxon, statusReported, prohibit,
                       kept, delivered, down, up>>
    BY DEF ExpireReorderingTimer
  <1>3. At(nH) \in SN /\ ~rxon[At(nH)].complete
    <2>1. nH \in nR .. nR + Modulus - 1
      BY <1>1, ModulusPositive
    <2>2. rxon[At(nH)] = Nothing
      BY <1>1, <2>1, BelowHighest
    <2> QED  BY <1>1, <2>2, AtType DEF Nothing
  <1>4. PICK q \in nX .. nH : /\ vrMs' = At(q)
                              /\ At(q) \notin complete
    <2>1. nX \in Int /\ nX <= nH /\ nH < nX + Modulus /\ vrX = At(nX)
      BY <1>1, <1>2, ModulusPositive
    <2> HIDE DEF complete
    <2>2. At(nH) \notin complete
      BY <1>3 DEF complete
    <2> QED  BY <1>1, <1>2, <2>1, <2>2, RunStops
  <1> HIDE DEF complete
  <1>5. q \in Int /\ nR <= q /\ q <= nH /\ At(q) \in SN /\ ~rxon[At(q)].complete
    <2>1. q \in Int /\ nR <= q /\ q <= nH
      BY <1>1, <1>2, <1>4
    <2> QED  BY <1>4, <2>1, AtType DEF complete
  <1>6. /\ nA' = nA /\ nR' = nR /\ nMs' = q /\ nH' = nH
        /\ \A z \in Int : vrX' = At(z) /\ nR <= z /\ z <= nH => nX' = z
    <2>1. /\ sent' = sent /\ vtA' = At(nA) /\ vrR' = At(nR) /\ vrMs' = At(q)
          /\ vrH' = At(nH)
      BY <1>1, <1>2, <1>4 DEF txVars
    <2> QED  BY <1>1, <1>5, <2>1, PlacesNext
  <1>7. reordering' => nR < nX' /\ nX' <= nH
    <2>1. Dist(vrR, vrH) = nH - nR /\ Dist(vrR, At(q)) = q - nR
      <3>1. nH < nR + Modulus /\ q < nR + Modulus
        BY <1>1, <1>5, ModulusPositive
      <3>2. Dist(At(nR), At(nH)) = nH - nR /\ Dist(At(nR), At(q)) = q - nR
        BY <1>1, <1>5, <3>1, AtDist
      <3> QED  BY <1>1, <3>2
    <2>2. reordering' => q < nH
      <3>1. reordering' = (Dist(vrR, vrH) > Dist(vrR, At(q)))
        BY <1>2, <1>4
      <3>2. reordering' = (nH - nR > q - nR)
        BY <2>1, <3>1
      <3>3. (nH - nR > q - nR) => q < nH
        BY <1>1, <1>5
      <3> QED  BY <3>2, <3>3
    <2>3. reordering' => vrX' = At(nH)
      BY <1>1, <1>2
    <2> QED  BY <1>1, <1>5, <1>6, <2>2, <2>3
  <1>8. WindowOrder'
    <2>1. 0 <= nA /\ nR <= q /\ q <= nH /\ nH <= sent /\ sent <= nA + WindowSize
      BY <1>1, <1>5
    <2> QED  BY <1>2, <1>6, <1>7, <2>1 DEF WindowOrder, txVars
  <1>9. StatusTrue'
    <2>1. \A s \in SN : Copy(s)' = Copy(s)
      BY <1>2 DEF Copy, txVars
    <2>2. UNCHANGED <<sent, vtA, vrR, vrH, rxon, up, prohibit>>
      BY <1>2 DEF txVars
    <2> QED  BY <2>1, <2>2, StatusKept DEF RlcInv, StatusTrue
  <1>10. /\ vrMs' \in SN /\ vrX' \in SN /\ ~rxon[vrMs'].complete
         /\ reordering' \in BOOLEAN /\ up' \subseteq Status
         /\ statusRequested' \in BOOLEAN /\ statusReported' \in BOOLEAN
         /\ prohibit' \in BOOLEAN
    BY <1>2, <1>4, <1>5 DEF RlcInv, TypeOK
  <1>11. accepted' \in accepted .. MaxSdus
    <2>1. accepted \in Nat /\ MaxSdus \in Nat /\ accepted <= MaxSdus
      BY SizeAssumption DEF RlcInv, TypeOK
    <2> QED  BY <1>2, <2>1 DEF txVars
  <1> QED  BY <1>2, <1>8, <1>9, <1>10, <1>11, QuietPreserves DEF txVars

(* No more are nacked than there is room for. *)
LEMMA NacksFit ==
  ASSUME RlcInv, NEW room \in Nat \ {0}
  PROVE  /\ IsFiniteSet(Nacks(room)) /\ Cardinality(Nacks(room)) \in Nat
         /\ Cardinality(Nacks(room)) <= room
         /\ Nacks(room) # {} =>
              \E k \in nR .. nMs - 1 :
                /\ At(k) \in Nacks(room)
                /\ \A i \in nR .. nMs - 1 : At(i) \in Nacks(room) => i <= k
  <1> DEFINE N == Nacks(room)
             I == {i \in nR .. nMs - 1 : At(i) \in N}
  <1>1. /\ nR \in Nat /\ nMs \in Nat /\ nR <= nMs /\ nMs < nR + Modulus
    <2>1. /\ nR \in Nat /\ nMs \in Nat /\ nA \in Nat /\ sent \in Nat /\ nH \in Nat
          /\ nA <= nR /\ nR <= nMs /\ nMs <= nH /\ nH <= sent
          /\ sent < nA + Modulus
      BY Places
    <2> QED  BY <2>1, ModulusPositive
  <1>2. /\ N \subseteq SN
        /\ \A i \in nR .. nR + Modulus - 1 :
             At(i) \in N <=> /\ i < nMs /\ ~rxon[At(i)].complete
                             /\ Cardinality(MissingBelow(i)) < room
        /\ \A s \in N : \E i \in nR .. nMs - 1 : s = At(i)
    BY NacksIs
  <1>3. IsFiniteSet(N) /\ Cardinality(N) \in Nat
    <2>1. IsFiniteSet(SN)
      BY ModulusPositive, FS_Interval DEF SN
    <2> QED  BY <1>2, <2>1, FS_Subset, FS_CardinalityType
  <1> HIDE DEF N
  <1>4. CASE N = {}
    <2>1. Cardinality(N) = 0
      BY <1>4, FS_EmptySet
    <2> QED  BY <1>3, <1>4, <2>1 DEF N
  <1>5. CASE N # {}
    <2>1. PICK k \in I : \A i \in I : i <= k
      <3>1. I \subseteq Int /\ I # {} /\ \A i \in I : nR <= i /\ i <= nMs
        BY <1>1, <1>2, <1>5
      <3>2. nR \in Int /\ nMs \in Int
        BY <1>1
      <3> HIDE DEF I
      <3> QED  BY <3>1, <3>2, GreatestNatural
    <2>2. k \in nR .. nMs - 1 /\ At(k) \in N
      OBVIOUS
    <2>3. \A i \in nR .. nMs - 1 : At(i) \in N => i <= k
      BY <2>1
    <2> HIDE DEF I
    <2>4. /\ k \in Int /\ nR <= k /\ k < nMs /\ k < nR + Modulus
          /\ k \in nR .. nR + Modulus - 1
      BY <1>1, <2>2, ModulusPositive
    <2> DEFINE B == MissingBelow(k)
    <2>5. IsFiniteSet(B) /\ Cardinality(B) \in Nat
          /\ \A i \in nR .. nR + Modulus - 1 :
               At(i) \in B <=> i < k /\ ~rxon[At(i)].complete
      BY <2>4, MissingIs
    <2>6. Cardinality(B) < room
      BY <1>2, <2>2, <2>4
    <2> HIDE DEF B
    <2>7. N \subseteq B \cup {At(k)}
      <3> SUFFICES ASSUME NEW s \in N, s # At(k) PROVE s \in B
        OBVIOUS
      <3>1. PICK i \in nR .. nMs - 1 : s = At(i)
        BY <1>2
      <3>2. i \in nR .. nR + Modulus - 1 /\ i < k
        <4>1. i <= k
          BY <2>3, <3>1
        <4>2. i # k
          BY <3>1
        <4> QED  BY <1>1, <2>4, <4>1, <4>2, ModulusPositive
      <3>3. ~rxon[At(i)].complete
        BY <1>2, <3>1, <3>2
      <3> QED  BY <2>5, <3>1, <3>2, <3>3
    <2>8. IsFiniteSet(B \cup {At(k)})
          /\ Cardinality(B \cup {At(k)}) <= Cardinality(B) + 1
      <3>1. Cardinality(B \cup {At(k)}) =
              IF At(k) \in B THEN Cardinality(B) ELSE Cardinality(B) + 1
        BY <2>5, FS_AddElement
      <3>2. IsFiniteSet(B \cup {At(k)})
        BY <2>5, FS_AddElement
      <3> QED  BY <2>5, <3>1, <3>2
    <2>9. Cardinality(N) <= Cardinality(B \cup {At(k)})
          /\ Cardinality(B \cup {At(k)}) \in Nat
      BY <2>7, <2>8, FS_Subset, FS_CardinalityType
    <2>10. Cardinality(N) <= room
      BY <1>3, <2>5, <2>6, <2>8, <2>9
    <2> QED  BY <1>3, <2>2, <2>3, <2>10 DEF N
  <1> QED  BY <1>4, <1>5

(* ACK_SN is a number up to which everything missing is nacked. *)
LEMMA AckSnIs ==
  ASSUME RlcInv, NEW room \in NackRoom
  PROVE  \E k \in nR .. nMs :
           /\ AckSn(room) = At(k)
           /\ \A i \in nR .. k - 1 :
                ~rxon[At(i)].complete => At(i) \in Nacks(room)
           /\ nR < nMs => nR < k /\ At(nR) \in Nacks(room)
  <1> DEFINE N == Nacks(room)
  <1>1. /\ nR \in Nat /\ nMs \in Nat /\ nR <= nMs /\ nMs < nR + Modulus
        /\ vrR = At(nR) /\ vrMs = At(nMs)
    <2>1. /\ nR \in Nat /\ nMs \in Nat /\ nA \in Nat /\ sent \in Nat /\ nH \in Nat
          /\ nA <= nR /\ nR <= nMs /\ nMs <= nH /\ nH <= sent
          /\ sent < nA + Modulus /\ vrR = At(nR) /\ vrMs = At(nMs)
      BY Places
    <2> QED  BY <2>1, ModulusPositive
  <1>2. room \in Nat \ {0} /\ room \in Nat /\ room > 0
    BY SizeAssumption
  <1>3. /\ N \subseteq SN
        /\ \A i \in nR .. nR + Modulus - 1 :
             At(i) \in N <=> /\ i < nMs /\ ~rxon[At(i)].complete
                             /\ Cardinality(MissingBelow(i)) < room
        /\ \A s \in N : \E i \in nR .. nMs - 1 : s = At(i)
    BY <1>2, NacksIs
  <1>4. /\ IsFiniteSet(N) /\ Cardinality(N) \in Nat /\ Cardinality(N) <= room
        /\ N # {} => \E k \in nR .. nMs - 1 :
                       /\ At(k) \in N
                       /\ \A i \in nR .. nMs - 1 : At(i) \in N => i <= k
    BY <1>2, NacksFit
  <1>5. nR < nMs => At(nR) \in N
    <2>1. nR \in nR .. nR + Modulus - 1 /\ nR < nR + Modulus
      BY <1>1, ModulusPositive
    <2>2. ~rxon[At(nR)].complete
      BY <1>1 DEF RlcInv, ReceptionBuffer
    <2>3. MissingBelow(nR) = {}
      <3> SUFFICES ASSUME NEW s \in MissingBelow(nR) PROVE FALSE
        OBVIOUS
      <3>1. s \in SN /\ s \in Between(At(nR), At(nR))
        BY <1>1 DEF MissingBelow, Between
      <3>2. Ahead(nR, s) < nR
        BY <1>1, <2>1, <3>1, BetweenIs
      <3>3. Ahead(nR, s) \in Int /\ nR <= Ahead(nR, s)
        BY <1>1, <3>1, AheadIs
      <3> QED  BY <1>1, <3>2, <3>3
    <2>4. Cardinality(MissingBelow(nR)) = 0
      BY <2>3, FS_EmptySet
    <2> QED  BY <1>2, <1>3, <2>1, <2>2, <2>4
  <1>6. CASE Cardinality(N) # room
    <2> DEFINE Skipped == {i \in nR .. nMs - 1 :
                             ~rxon[At(i)].complete /\ At(i) \notin N}
    <2>1. Skipped = {}
      <3> SUFFICES ASSUME Skipped # {} PROVE FALSE
        OBVIOUS
      <3>1. Skipped \subseteq Nat
        BY <1>1
      <3>2. PICK n \in Skipped : \A i \in Skipped : n <= i
        <4> HIDE DEF Skipped
        <4> QED  BY <3>1, LeastNatural
      <3>3. n \in nR .. nMs - 1 /\ ~rxon[At(n)].complete /\ At(n) \notin N
        OBVIOUS
      <3>4. \A i \in nR .. nMs - 1 :
              ~rxon[At(i)].complete /\ At(i) \notin N => n <= i
        BY <3>2
      <3> HIDE DEF Skipped
      <3>5. /\ n \in Int /\ nR <= n /\ n < nMs /\ n < nR + Modulus
            /\ n \in nR .. nR + Modulus - 1
        BY <1>1, <3>3, ModulusPositive
      <3> DEFINE B == MissingBelow(n)
      <3>6. /\ IsFiniteSet(B) /\ Cardinality(B) \in Nat /\ B \subseteq SN
            /\ \A i \in nR .. nR + Modulus - 1 :
                 At(i) \in B <=> i < n /\ ~rxon[At(i)].complete
        BY <3>5, MissingIs
      <3>7. ~(Cardinality(B) < room)
        BY <1>3, <3>3, <3>5
      <3>8. B \subseteq N
        <4> SUFFICES ASSUME NEW s \in B PROVE s \in N
          OBVIOUS
        <4> DEFINE i == Ahead(nR, s)
        <4>1. s \in SN
          BY <3>6
        <4>2. /\ i \in Int /\ nR <= i /\ i < nR + Modulus /\ At(i) = s
          BY <1>1, <4>1, AheadIs
        <4> HIDE DEF i
        <4>3. i \in nR .. nR + Modulus - 1
          BY <1>1, <4>2, ModulusPositive
        <4>4. i < n /\ ~rxon[At(i)].complete
          BY <3>6, <4>2, <4>3
        <4>5. i \in nR .. nMs - 1 /\ ~(n <= i)
          BY <1>1, <3>5, <4>2, <4>4
        <4> QED  BY <3>4, <4>2, <4>4, <4>5
      <3> HIDE DEF B
      <3>9. Cardinality(B) <= Cardinality(N)
        BY <1>4, <3>8, FS_Subset
      <3> QED  BY <1>2, <1>4, <1>6, <3>6, <3>7, <3>9
    <2>2. AckSn(room) = At(nMs)
      BY <1>1, <1>6 DEF AckSn
    <2>3. \A i \in nR .. nMs - 1 : ~rxon[At(i)].complete => At(i) \in N
      BY <2>1
    <2>4. nMs \in nR .. nMs
      BY <1>1
    <2> QED  BY <1>5, <2>2, <2>3, <2>4
  <1>7. CASE Cardinality(N) = room
    <2>1. N # {}
      BY <1>2, <1>7, FS_EmptySet
    <2>2. PICK k \in nR .. nMs - 1 :
            /\ At(k) \in N
            /\ \A i \in nR .. nMs - 1 : At(i) \in N => i <= k
      BY <1>4, <2>1
    <2> DEFINE latest(s) == \A t \in N : Dist(vrR, t) <= Dist(vrR, s)
               lastNack == CHOOSE s \in N : latest(s)
    <2>3. \A i \in nR .. nMs - 1 : Dist(vrR, At(i)) = i - nR
      <3> SUFFICES ASSUME NEW i \in nR .. nMs - 1 PROVE Dist(vrR, At(i)) = i - nR
        OBVIOUS
      <3>1. i \in Int /\ nR <= i /\ i < nR + Modulus
        BY <1>1, ModulusPositive
      <3> QED  BY <1>1, <3>1, AtDist
    <2>4. latest(At(k))
      <3> SUFFICES ASSUME NEW t \in N PROVE Dist(vrR, t) <= Dist(vrR, At(k))
        OBVIOUS
      <3>1. PICK i \in nR .. nMs - 1 : t = At(i)
        BY <1>3
      <3>2. i <= k
        BY <2>2, <3>1
      <3> QED  BY <1>1, <2>3, <3>1, <3>2
    <2>5. lastNack \in N /\ latest(lastNack)
      BY <2>2, <2>4
    <2>6. lastNack = At(k)
      <3> HIDE DEF lastNack
      <3>1. PICK i \in nR .. nMs - 1 : lastNack = At(i)
        BY <1>3, <2>5
      <3>2. i <= k
        BY <2>2, <2>5, <3>1
      <3>3. Dist(vrR, At(k)) <= Dist(vrR, At(i))
        BY <2>2, <2>5, <3>1
      <3>4. k <= i
        BY <1>1, <2>3, <3>3
      <3>5. i = k
        BY <1>1, <3>2, <3>4
      <3> QED  BY <3>1, <3>5
    <2> HIDE DEF lastNack
    <2> DEFINE C == {t \in Between(vrR, vrMs) : rxon[t].complete}
    <2>7. AckSn(room) = FirstNotIn((lastNack + 1) % Modulus, C)
      BY <1>7 DEF AckSn, lastNack
    <2>8. k \in Int /\ nR <= k /\ k + 1 <= nMs /\ k < nR + Modulus
          /\ nMs < (k + 1) + Modulus /\ k \in nR .. nR + Modulus - 1
          /\ k + 1 \in Int /\ nMs \in Int
      BY <1>1, <2>2, ModulusPositive
    <2>9. (lastNack + 1) % Modulus = At(k + 1)
      BY <2>6, <2>8, AtPlus
    <2>10. /\ At(nMs) \notin C
           /\ \A i \in nR .. nMs - 1 : At(i) \in C => rxon[At(i)].complete
      <3>1. nMs \in nR .. nR + Modulus - 1
        BY <1>1, ModulusPositive
      <3>2. At(nMs) \notin Between(vrR, vrMs)
        BY <1>1, <3>1, BetweenIs
      <3> QED  BY <3>2
    <2> HIDE DEF C
    <2>11. PICK q \in k + 1 .. nMs :
             /\ FirstNotIn(At(k + 1), C) = At(q)
             /\ \A i \in k + 1 .. q - 1 : At(i) \in C
      BY <2>8, <2>10, RunStops
    <2>12. q \in nR .. nMs /\ nR < q
      BY <1>1, <2>8, <2>11
    <2>13. ASSUME NEW i \in nR .. q - 1, ~rxon[At(i)].complete
           PROVE  At(i) \in N
      <3>1. i \in nR .. nMs - 1 /\ i \in nR .. nR + Modulus - 1 /\ i \in Int
            /\ nR <= i /\ i < nMs
        <4>1. q \in Int /\ q <= nMs
          BY <2>8, <2>11
        <4>2. i \in Int /\ nR <= i /\ i < nMs
          BY <1>1, <4>1
        <4> QED  BY <1>1, <4>2, ModulusPositive
      <3>2. i <= k
        <4> SUFFICES ASSUME k < i PROVE FALSE
          BY <2>8, <3>1
        <4>1. i \in k + 1 .. q - 1
          BY <2>8, <2>11, <3>1
        <4>2. rxon[At(i)].complete
          BY <2>10, <2>11, <3>1, <4>1
        <4> QED  BY <2>13, <4>2
      <3>3. Cardinality(MissingBelow(i)) <= Cardinality(MissingBelow(k))
            /\ Cardinality(MissingBelow(k)) \in Nat
            /\ Cardinality(MissingBelow(i)) \in Nat
        <4>1. i < nR + Modulus
          BY <1>1, <3>1, ModulusPositive
        <4> QED  BY <2>8, <3>1, <3>2, <4>1, MissingGrows, MissingIs
      <3>4. Cardinality(MissingBelow(k)) < room
        BY <1>3, <2>2, <2>8
      <3>5. Cardinality(MissingBelow(i)) < room
        BY <1>2, <3>3, <3>4
      <3> QED  BY <1>3, <2>13, <3>1, <3>5
    <2>14. AckSn(room) = At(q)
      BY <2>7, <2>9, <2>11
    <2> QED  BY <1>5, <2>12, <2>13, <2>14
  <1> QED  BY <1>6, <1>7

(* A STATUS is true when it is sent. *)
LEMMA SendStatusKeeps ==
  ASSUME RlcInv, NEW room \in NackRoom, SendStatus(room)
  PROVE  RlcInv'
  <1>1. /\ nA \in Nat /\ nR \in Nat /\ nMs \in Nat /\ nH \in Nat /\ sent \in Nat
        /\ nA <= nR /\ nR <= nMs /\ nMs <= nH /\ nH <= sent
        /\ sent <= nA + WindowSize /\ sent < nA + Modulus
        /\ vtA = At(nA) /\ vrR = At(nR) /\ vrMs = At(nMs) /\ vrH = At(nH)
    BY Places
  <1>2. /\ ~prohibit
        /\ up' = up \cup {[ack |-> AckSn(room), nacks |-> Nacks(room)]}
        /\ statusRequested' = FALSE /\ statusReported' = FALSE /\ prohibit' = TRUE
        /\ UNCHANGED <<bigEnough, txVars, vrR, vrMs, vrX, vrH, rxon, reordering,
                       kept, delivered, down>>
    BY DEF SendStatus
  <1>3. up' = {[ack |-> AckSn(room), nacks |-> Nacks(room)]}
    BY <1>2 DEF RlcInv, StatusTrue
  <1>4. PICK k \in nR .. nMs :
          /\ AckSn(room) = At(k)
          /\ \A i \in nR .. k - 1 : ~rxon[At(i)].complete => At(i) \in Nacks(room)
          /\ nR < nMs => nR < k /\ At(nR) \in Nacks(room)
    BY AckSnIs
  <1>5. k \in Int /\ nR <= k /\ k <= nMs /\ nA <= k /\ k <= sent /\ k < nA + Modulus
    BY <1>1, <1>4, ModulusPositive
  <1>6. Nacks(room) \subseteq SN
        /\ \A s \in Nacks(room) : \E i \in nR .. nMs - 1 : s = At(i)
    BY SizeAssumption, NacksIs
  <1>7. PICK m \in Status : up' = {m} /\ m.ack = At(k) /\ m.nacks = Nacks(room)
    <2>1. [ack |-> AckSn(room), nacks |-> Nacks(room)] \in Status
      BY <1>4, <1>5, <1>6, AtType DEF Status
    <2> QED  BY <1>3, <1>4, <2>1
  <1>8. PICK f \in Nat : f = nR
    BY <1>1
  <1>9. Ahead(nA, m.ack) = k
    BY <1>1, <1>5, <1>7, AheadAt
  <1>10. nA' = nA /\ nR' = nR /\ nMs' = nMs /\ nH' = nH /\ nX' = nX
         /\ Ahead(nA, m.ack)' = Ahead(nA, m.ack)
    <2>1. UNCHANGED <<sent, vtA, vrR, vrH, vrMs, vrX>>
      BY <1>2 DEF txVars
    <2>2. \A s : Ahead(nA, s)' = Ahead(nA, s)
      BY <2>1, SamePlaces
    <2> QED  BY <2>1, <2>2, SamePlaces
  <1>11. ASSUME NEW n \in nA .. k - 1 PROVE At(n) \in m.nacks \/ Received(n)
    <2>1. n \in Int /\ n < k
      BY <1>1, <1>5
    <2>2. CASE n < nR
      BY <2>2 DEF Received
    <2>3. CASE nR <= n
      <3>1. n \in nR .. k - 1
        BY <1>1, <1>5, <2>1, <2>3
      <3> QED  BY <1>4, <1>7, <3>1 DEF Received
    <2> QED  BY <1>1, <2>1, <2>2, <2>3
  <1>12. MovesTo(m, nR)
    <2>1. nR \in nA .. Ahead(nA, m.ack)
      BY <1>1, <1>5, <1>9
    <2>2. nR = Ahead(nA, m.ack) \/ At(nR) \in m.nacks
      <3>1. CASE nR < nMs
        BY <1>4, <1>7, <3>1
      <3>2. CASE nR = nMs
        <4>1. k = nR
          BY <1>1, <1>5, <3>2
        <4> QED  BY <1>9, <4>1
      <3> QED  BY <1>1, <3>1, <3>2
    <2>3. ASSUME NEW n \in nA .. nR - 1, At(n) \in m.nacks PROVE FALSE
      <3>1. PICK i \in nR .. nMs - 1 : At(n) = At(i)
        BY <1>6, <1>7, <2>3
      <3>2. n \in Int /\ i \in Int /\ n < i /\ n < i + Modulus /\ i < n + Modulus
        BY <1>1, ModulusPositive
      <3>3. n = i
        BY <3>1, <3>2, AtSame
      <3> QED  BY <3>2, <3>3
    <2>4. nR < sent => Copy(At(nR)) # <<>>
      <3> SUFFICES ASSUME nR < sent PROVE Copy(At(nR)) # <<>>
        OBVIOUS
      <3>1. nR \in nR .. sent - 1
        BY <1>1
      <3>2. Len(Whole(nR)) > 0
        BY <3>1 DEF RlcInv, Contiguous
      <3>3. ~rxon[At(nR)].complete
        BY <1>1 DEF RlcInv, ReceptionBuffer
      <3>4. Len(Copy(At(nR))) > 0
        BY <3>2, <3>3 DEF Whole
      <3> QED  BY <3>4
    <2>5. nR <= nR
      BY <1>1
    <2> QED  BY <2>1, <2>2, <2>3, <2>4, <2>5 DEF MovesTo
  <1>13. StatusTrue'
    <2>1. (\A m1, m2 \in up' : m1 = m2) /\ (up' # {} => prohibit')
      BY <1>2, <1>7
    <2>2. Ahead(nA, m.ack)' <= sent'
      BY <1>2, <1>5, <1>9, <1>10 DEF txVars
    <2>3. \A n : Received(n)' = Received(n)
      BY <1>2, <1>10 DEF Received, At
    <2>4. \A n \in nA' .. Ahead(nA, m.ack)' - 1 :
            At(n) \in m.nacks \/ Received(n)'
      BY <1>9, <1>10, <1>11, <2>3
    <2>5. MovesTo(m, f)'
      <3>1. Copy(At(f))' = Copy(At(f))
        BY <1>2 DEF Copy, At, txVars
      <3>2. /\ f \in nA .. Ahead(nA, m.ack) /\ f <= nR
            /\ f = Ahead(nA, m.ack) \/ At(f) \in m.nacks
            /\ \A n \in nA .. f - 1 : At(n) \notin m.nacks
            /\ f < sent => Copy(At(f)) # <<>>
        BY <1>8, <1>12 DEF MovesTo
      <3>3. sent' = sent
        BY <1>2 DEF txVars
      <3> QED  BY <1>10, <3>1, <3>2, <3>3 DEF MovesTo, At
    <2>6. f \in nA' .. sent'
      <3>1. f \in nA .. sent /\ sent' = sent
        BY <1>1, <1>2, <1>8 DEF txVars
      <3> QED  BY <1>10, <3>1
    <2> QED  BY <1>7, <2>1, <2>2, <2>4, <2>5, <2>6 DEF StatusTrue, At
  <1>14. WindowOrder'
    BY <1>2, <1>10 DEF RlcInv, WindowOrder, txVars
  <1>15. /\ vrMs' \in SN /\ vrX' \in SN /\ ~rxon[vrMs'].complete
         /\ reordering' \in BOOLEAN /\ up' \subseteq Status
         /\ statusRequested' \in BOOLEAN /\ statusReported' \in BOOLEAN
         /\ prohibit' \in BOOLEAN
    BY <1>2, <1>7 DEF RlcInv, TypeOK, ReceptionBuffer
  <1>16. accepted' \in accepted .. MaxSdus
    <2>1. accepted \in Nat /\ MaxSdus \in Nat /\ accepted <= MaxSdus
      BY SizeAssumption DEF RlcInv, TypeOK
    <2> QED  BY <1>2, <2>1 DEF txVars
  <1> QED  BY <1>2, <1>13, <1>14, <1>15, <1>16, QuietPreserves DEF txVars

-----------------------------------------------------------------------------
(* PDUs that are sent again.                                               *)

(* A part of a part of a sequence. *)
LEMMA SubSubSeq ==
  ASSUME NEW d \in Seq(Nat), NEW o \in Nat, NEW k \in Nat, o + k <= Len(d)
  PROVE  /\ SubSeq(d, o + 1, Len(d)) \in Seq(Nat)
         /\ Len(SubSeq(d, o + 1, Len(d))) = Len(d) - o
         /\ SubSeq(SubSeq(d, o + 1, Len(d)), 1, k) = SubSeq(d, o + 1, o + k)
         /\ Len(SubSeq(d, o + 1, o + k)) = k
         /\ SubSeq(d, o + 1, o + k) \in Seq(Nat)
  <1>1. /\ Len(d) \in Nat
        /\ SubSeq(d, o + 1, Len(d)) = [i \in 1 .. Len(d) - o |-> d[o + i]]
        /\ SubSeq(d, o + 1, o + k) = [i \in 1 .. k |-> d[o + i]]
    <2>1. Len(d) \in Nat
      OBVIOUS
    <2>2. \A b \in Nat : o <= b /\ b <= Len(d) =>
             SubSeq(d, o + 1, b) = [i \in 1 .. b - o |-> d[o + i]]
      BY <2>1
    <2>3. /\ SubSeq(d, o + 1, Len(d)) = [i \in 1 .. Len(d) - o |-> d[o + i]]
          /\ SubSeq(d, o + 1, o + k) = [i \in 1 .. (o + k) - o |-> d[o + i]]
      BY <2>1, <2>2
    <2>4. (o + k) - o = k
      OBVIOUS
    <2> QED  BY <2>1, <2>3, <2>4
  <1>2. \A i \in 1 .. Len(d) - o : d[o + i] \in Nat
    BY <1>1
  <1> DEFINE e == [i \in 1 .. Len(d) - o |-> d[o + i]]
             g == [i \in 1 .. k |-> d[o + i]]
  <1>3. e \in Seq(Nat) /\ Len(e) = Len(d) - o /\ Len(d) - o \in Nat
    BY <1>1, <1>2
  <1>4. g \in Seq(Nat) /\ Len(g) = k
    BY <1>1, <1>2
  <1>5. \A i \in 1 .. k : e[i] = d[o + i] /\ g[i] = d[o + i]
    BY <1>1
  <1> HIDE DEF e, g
  <1>6. SubSeq(e, 1, k) = [i \in 1 .. k |-> e[i]]
    <2>1. k <= Len(e)
      BY <1>3, <1>1
    <2> QED  BY <1>3, <2>1
  <1>7. SubSeq(e, 1, k) = g
    BY <1>4, <1>5, <1>6 DEF g
  <1> QED  BY <1>1, <1>3, <1>4, <1>7 DEF e, g

(* What a PDU on its way says of its number. *)
Faithful(p) ==
  LET end == p.off + Len(p.data) IN
    /\ end <= Len(Whole(p.n))
    /\ p.data = SubSeq(Whole(p.n), p.off + 1, end)
    /\ p.last => end = Len(Whole(p.n))
    /\ ~p.seg => p.off = 0 /\ p.last

(* Steps of the sender that keep each number, be it in the other buffer, and *)
(* send some of them again. *)
LEMMA MovedPreserves ==
  ASSUME RlcInv, SenderInv',
         UNCHANGED <<bigEnough, accepted, taken, sent, vtA, rxVars, up>>,
         \A s \in SN : Copy(s)' = Copy(s),
         \A s \in SN : retxSeg'[s] # 0 => retxSeg'[s] < Len(retx'[s]),
         pollSn' \in SN, pollTimer' \in BOOLEAN, justExpired' \in BOOLEAN,
         PollsLast', WillPoll',
         \A p \in down' : p \in down \/ (/\ p \in Pdu /\ nA <= p.n /\ p.n < sent
                                         /\ p.n >= nR => Faithful(p))
  PROVE  RlcInv'
  <1>1. nA' = nA /\ nR' = nR /\ nMs' = nMs /\ nH' = nH /\ nX' = nX /\ vtS' = vtS
    BY SamePlaces DEF vtS, rxVars
  <1>2. /\ nA \in Nat /\ nR \in Nat /\ sent \in Nat
        /\ nA <= nR /\ nR <= sent /\ sent <= nA + WindowSize
    BY Places
  <1>3. TypeOK'
    <2>1. down' \subseteq Pdu /\ up' \subseteq Status
      BY DEF RlcInv, TypeOK
    <2>2. /\ bigEnough' \in BOOLEAN /\ accepted' \in 0 .. MaxSdus
          /\ taken' <= accepted' * SduSize
      <3>1. taken <= accepted * SduSize
        BY DEF RlcInv, Contiguous
      <3> QED  BY <3>1 DEF RlcInv, TypeOK
    <2>3. /\ {vrR', vrMs', vrX', vrH'} \subseteq SN
          /\ rxon' \in [SN -> [data : Seq(Nat), complete : BOOLEAN]]
          /\ reordering' \in BOOLEAN /\ statusRequested' \in BOOLEAN
          /\ statusReported' \in BOOLEAN /\ prohibit' \in BOOLEAN
          /\ kept' \in Seq(Nat) /\ delivered' \in Seq(Seq(Nat))
      BY DEF RlcInv, TypeOK, rxVars
    <2> QED  BY <2>1, <2>2, <2>3, TypeFrom
  <1>4. WindowOrder' /\ ReceptionBuffer'
    BY <1>1 DEF RlcInv, WindowOrder, ReceptionBuffer, Dist, rxVars
  <1>5. InTime'
    <2> SUFFICES ASSUME NEW p \in down'
                 PROVE  p.n < sent /\ sent + WindowSize <= p.n + Modulus
      BY DEF InTime
    <2>1. CASE p \in down
      BY <2>1 DEF RlcInv, InTime
    <2>2. CASE p \in Pdu /\ nA <= p.n /\ p.n < sent
      <3>1. p.n \in Nat
        BY <2>2 DEF Pdu
      <3> QED  BY <1>2, <2>2, <3>1, ModulusPositive
    <2> QED  BY <2>1, <2>2
  <1>6. \A n \in Nat : Whole(n)' = Whole(n) /\ Copy(At(n))' = Copy(At(n))
    <2> SUFFICES ASSUME NEW n \in Nat
                 PROVE  Whole(n)' = Whole(n) /\ Copy(At(n))' = Copy(At(n))
      OBVIOUS
    <2>1. At(n) \in SN
      BY AtType
    <2>2. Copy(At(n))' = Copy(At(n))
      BY <2>1 DEF At
    <2> QED  BY <2>2 DEF Whole, At, rxVars
  <1>7. \A n \in Nat : FirstChunk(n)' = FirstChunk(n)
    BY <1>6 DEF FirstChunk
  <1>8. Contiguous'
    <2>1. \A n \in nR .. sent - 1 : n \in Nat /\ n + 1 \in Nat
      BY <1>2
    <2> QED  BY <1>1, <1>2, <1>6, <1>7, <2>1
               DEF RlcInv, Contiguous, ChunksFrom, rxVars
  <1>9. CopiesAgree'
    <2>1. \A n \in nR .. sent - 1 : n \in Nat
      BY <1>2
    <2>2. \A n \in nR' .. sent' - 1 :
            /\ Copy(At(n))' # <<>> => Copy(At(n))' = Whole(n)'
            /\ LET part == rxon'[At(n)].data IN
                 Len(part) <= Len(Whole(n)') /\ part = SubSeq(Whole(n)', 1, Len(part))
      BY <1>1, <1>6, <2>1 DEF RlcInv, CopiesAgree, rxVars
    <2>3. ASSUME NEW p \in down', p.n >= nR' PROVE Faithful(p)'
      <3>1. CASE p \in down
        <4>1. p.n \in Nat
          BY <3>1 DEF RlcInv, TypeOK, Pdu
        <4> QED  BY <1>1, <1>6, <2>3, <3>1, <4>1 DEF RlcInv, CopiesAgree, Faithful
      <3>2. CASE p \in Pdu /\ (p.n >= nR => Faithful(p))
        <4>1. p.n \in Nat
          BY <3>2 DEF Pdu
        <4> QED  BY <1>1, <1>6, <2>3, <3>2, <4>1 DEF Faithful
      <3> QED  BY <3>1, <3>2
    <2> QED  BY <2>2, <2>3 DEF CopiesAgree, Faithful, At
  <1>10. DeliveredSoFar'
    BY DEF RlcInv, DeliveredSoFar, Intact, ChunksFrom, rxVars
  <1>11. OldestKept'
    <2>1. vtA \in SN
      BY DEF RlcInv, TypeOK
    <2>2. Copy(vtA)' = Copy(vtA)
      <3>1. \A s \in SN : vtA = s => Copy(vtA)' = Copy(s)'
        BY DEF Copy
      <3> QED  BY <2>1, <3>1
    <2> QED  BY <1>1, <2>2 DEF RlcInv, OldestKept
  <1>12. StatusTrue'
    BY StatusKept DEF RlcInv, StatusTrue, rxVars
  <1> QED
    BY <1>3, <1>4, <1>5, <1>8, <1>9, <1>10, <1>11, <1>12 DEF RlcInv, SenderInv

(* The number of the PDU that is sent again. *)
LEMMA RetransmittedIs ==
  ASSUME RlcInv, retxSize > 0
  PROVE  \E n \in nA .. sent - 1 :
           /\ OldestRetx = At(n) /\ NumberOf(OldestRetx) = n
           /\ retx[At(n)] # <<>> /\ txed[At(n)] = <<>> /\ Copy(At(n)) = retx[At(n)]
           /\ \A i \in nA .. n - 1 : retx[At(i)] = <<>>
           /\ retxSeg[At(n)] < Len(retx[At(n)])
  <1> DEFINE s == OldestRetx
             n == Ahead(nA, s)
  <1>1. /\ s \in Between(vtA, vtS) /\ s \in SN /\ retx[s] # <<>>
        /\ \A t \in Between(vtA, s) : retx[t] = <<>>
    BY RlcSender, OldestRetxIs
  <1> HIDE DEF s
  <1>2. /\ nA \in Nat /\ sent \in Nat /\ nA <= sent /\ sent < nA + Modulus
        /\ vtA = At(nA) /\ vtS = At(sent)
    <2>1. /\ nA \in Nat /\ sent \in Nat /\ nR \in Nat /\ nMs \in Nat /\ nH \in Nat
          /\ nA <= nR /\ nR <= nMs /\ nMs <= nH /\ nH <= sent
          /\ sent < nA + Modulus /\ vtA = At(nA) /\ vtS = At(sent)
      BY Places
    <2> QED  BY <2>1
  <1>3. /\ n \in Int /\ nA <= n /\ n < nA + Modulus /\ At(n) = s
    BY <1>1, <1>2, AheadIs
  <1>4. n < sent
    BY <1>1, <1>2, BetweenIs
  <1> HIDE DEF n
  <1>5. n \in nA .. sent - 1
    BY <1>2, <1>3, <1>4
  <1>6. NumberOf(s) = n
    <2>1. sent < n + Modulus
      BY <1>2, <1>3, ModulusPositive
    <2>2. Dist(At(n), At(sent)) = sent - n
      BY <1>2, <1>3, <1>4, <2>1, AtDist
    <2>3. NumberOf(s) = sent - (sent - n)
      BY <1>2, <1>3, <2>2 DEF NumberOf
    <2> QED  BY <1>2, <1>3, <2>3
  <1>7. txed[s] = <<>> /\ Copy(s) = retx[s]
    BY <1>1 DEF RlcInv, SenderAccounts, Copy
  <1>8. ASSUME NEW i \in nA .. n - 1 PROVE retx[At(i)] = <<>>
    <2>1. i \in nA .. nA + Modulus - 1 /\ i < n
      BY <1>2, <1>3, ModulusPositive
    <2>2. At(i) \in Between(At(nA), At(n))
      BY <1>2, <1>3, <2>1, BetweenIs
    <2> QED  BY <1>1, <1>2, <1>3, <2>2
  <1>9. retxSeg[s] < Len(retx[s])
    <2>1. CASE retxSeg[s] = 0
      <3>1. retx[s] \in Seq(Nat)
        BY <1>1 DEF RlcInv, TypeOK
      <3>2. Len(retx[s]) \in Nat /\ Len(retx[s]) # 0
        BY <1>1, <3>1
      <3> QED  BY <2>1, <3>2
    <2>2. CASE retxSeg[s] # 0
      BY <1>1, <2>2 DEF RlcInv, CopiesAgree
    <2> QED  BY <2>1, <2>2
  <1> QED  BY <1>1, <1>3, <1>5, <1>6, <1>7, <1>8, <1>9 DEF s

(* A PDU or a segment of one is sent again, and perhaps it polls. *)
LEMMA RetransmitKeeps ==
  ASSUME RlcInv, NEW size \in Sizes, Retransmit(size)
  PROVE  RlcInv'
  <1>1. /\ nA \in Nat /\ nR \in Nat /\ sent \in Nat /\ nA <= nR /\ nR <= sent
        /\ sent <= nA + WindowSize /\ sent < nA + Modulus /\ vtS = At(sent)
    BY Places
  <1>2. /\ retxSize > 0
        /\ PollIf(MustPoll(OldestRetx))
        /\ IF Len(RestOf(OldestRetx)) <= size \/ bigEnough
           THEN RetransmitRest(OldestRetx) ELSE RetransmitPart(OldestRetx, size)
        /\ UNCHANGED <<bigEnough, accepted, taken, sent, vtA, rxVars, up>>
    BY DEF Retransmit
  <1>3. PICK n \in nA .. sent - 1 :
          /\ OldestRetx = At(n) /\ NumberOf(OldestRetx) = n
          /\ retx[At(n)] # <<>> /\ txed[At(n)] = <<>> /\ Copy(At(n)) = retx[At(n)]
          /\ \A i \in nA .. n - 1 : retx[At(i)] = <<>>
          /\ retxSeg[At(n)] < Len(retx[At(n)])
    BY <1>2, RetransmittedIs
  <1>4. PICK s \in SN : s = OldestRetx /\ s = At(n)
    <2>1. At(n) \in SN
      BY <1>1, AtType
    <2> QED  BY <1>3, <2>1
  <1>5. /\ n \in Nat /\ nA <= n /\ n < sent /\ size \in Nat
        /\ retx[s] \in Seq(Nat) /\ retxSeg[s] \in Nat /\ retxSeg[s] < Len(retx[s])
        /\ Len(retx[s]) \in Nat
    <2>1. n \in Nat /\ nA <= n /\ n < sent
      BY <1>1
    <2>2. retx[s] \in Seq(Nat) /\ retxSeg[s] \in Nat
      BY DEF RlcInv, TypeOK
    <2>3. size \in Nat /\ Len(retx[s]) \in Nat
      BY <2>2, SizeAssumption
    <2> QED  BY <1>3, <1>4, <2>1, <2>2, <2>3
  <1>6. n >= nR => Whole(n) = retx[s]
    <2>1. n >= nR => n \in nR .. sent - 1
      BY <1>1, <1>5
    <2> QED  BY <1>3, <1>4, <2>1 DEF RlcInv, CopiesAgree
  <1>7. SenderInv'
    BY RlcSender, RetransmitPreserves
  <1>8. /\ pollSn' \in SN /\ pollTimer' \in BOOLEAN /\ justExpired' \in BOOLEAN
        /\ PollsLast'
    <2>1. CASE NoPoll
      BY <1>2, <2>1 DEF NoPoll, RlcInv, TypeOK, PollsLast, At
    <2>2. CASE Poll((vtS - 1) % Modulus)
      <3>1. pollSn' = (vtS - 1) % Modulus /\ pollTimer' = TRUE /\ justExpired' = FALSE
        BY <2>2 DEF Poll
      <3>2. (At(sent) + (-1)) % Modulus = At(sent + (-1))
        BY <1>1, AtPlus
      <3>3. At(sent) + (-1) = vtS - 1 /\ sent + (-1) = sent - 1
        <4>1. vtS \in SN /\ vtS = At(sent)
          BY <1>1, AtType
        <4>2. vtS \in Int
          BY <4>1, ModulusPositive DEF SN
        <4> QED  BY <1>1, <4>1, <4>2
      <3>4. pollSn' = At(sent - 1) /\ At(sent - 1) \in SN
        BY <1>1, <3>1, <3>2, <3>3, AtType
      <3> QED  BY <1>2, <3>1, <3>4 DEF PollsLast, At
    <2> QED  BY <1>2, <2>1, <2>2 DEF PollIf
  <1>9. CASE RetransmitRest(s)
    <2> DEFINE p == [n |-> n, seg |-> retxSeg[s] # 0, off |-> retxSeg[s],
                     last |-> TRUE, poll |-> MustPoll(s), data |-> RestOf(s)]
    <2>1. /\ down' = down \cup {p}
          /\ txed' = [txed EXCEPT ![s] = retx[s]]
          /\ retx' = [retx EXCEPT ![s] = <<>>]
          /\ retxSeg' = [retxSeg EXCEPT ![s] = 0]
      BY <1>3, <1>4, <1>9 DEF RetransmitRest
    <2>2. /\ RestOf(s) \in Seq(Nat)
          /\ Len(RestOf(s)) = Len(retx[s]) - retxSeg[s]
      <3>1. retxSeg[s] + 0 <= Len(retx[s])
        BY <1>5
      <3> QED  BY <1>5, <3>1, SubSubSeq DEF RestOf
    <2>3. p \in Pdu /\ (p.n >= nR => Faithful(p)) /\ p.n = n
      <3>1. MustPoll(s) \in BOOLEAN
        BY DEF MustPoll, RlcInv, TypeOK
      <3>2. p \in Pdu
        BY <1>5, <2>2, <3>1 DEF Pdu
      <3>3. p.off + Len(p.data) = Len(retx[s])
        BY <1>5, <2>2
      <3>4. p.data = SubSeq(retx[s], p.off + 1, Len(retx[s]))
        BY DEF RestOf
      <3>5. (~p.seg => p.off = 0 /\ p.last) /\ p.n = n
        OBVIOUS
      <3> HIDE DEF p
      <3>6. p.n >= nR => Faithful(p)
        <4>1. Whole(p.n) = Whole(n)
          BY <3>5
        <4> DEFINE d == retx[s]
        <4>2. p.n >= nR => Whole(p.n) = d
          BY <1>6, <3>5, <4>1
        <4>3. p.off + Len(p.data) = Len(d)
          BY <3>3
        <4>4. Len(d) <= Len(d)
          BY <1>5
        <4>5. p.data = SubSeq(d, p.off + 1, Len(d))
          BY <3>4
        <4> HIDE DEF d
        <4> QED  BY <3>5, <4>2, <4>3, <4>4, <4>5 DEF Faithful
      <3> QED  BY <3>2, <3>5, <3>6
    <2> HIDE DEF p
    <2>4. \A t \in SN : /\ txed'[t] = IF t = s THEN retx[s] ELSE txed[t]
                        /\ retx'[t] = IF t = s THEN <<>> ELSE retx[t]
                        /\ retxSeg'[t] = IF t = s THEN 0 ELSE retxSeg[t]
      BY <2>1 DEF RlcInv, TypeOK
    <2>5. \A t \in SN : Copy(t)' = Copy(t)
      <3> SUFFICES ASSUME NEW t \in SN PROVE Copy(t)' = Copy(t)
        OBVIOUS
      <3>1. Copy(t)' = IF txed'[t] # <<>> THEN txed'[t] ELSE retx'[t]
        BY DEF Copy
      <3> QED  BY <1>3, <1>4, <2>4, <3>1 DEF Copy
    <2>6. \A t \in SN : retxSeg'[t] # 0 => retxSeg'[t] < Len(retx'[t])
      BY <2>4 DEF RlcInv, CopiesAgree
    <2>7. \A q \in down' : q \in down \/ (/\ q \in Pdu /\ nA <= q.n /\ q.n < sent
                                          /\ q.n >= nR => Faithful(q))
      BY <1>5, <2>1, <2>3
    <2>8. WillPoll'
      <3> SUFFICES ASSUME bigEnough'
                   PROVE  /\ \A t \in SN : retxSeg'[t] = 0
                          /\ ~pollTimer' /\ ~justExpired' =>
                               \/ txon' > 0 /\ InTransmittingWindow'
                               \/ \A i \in nA' .. sent' - 1 : txed'[At(i)] = <<>>
                               \/ \E q \in nA' .. sent' - 1 :
                                    /\ retx'[At(q)] # <<>>
                                    /\ \A i \in nA' .. sent' - 1 :
                                         txed'[At(i)] # <<>> => i < q
        BY DEF WillPoll, At
      <3>1. \A t \in SN : retxSeg[t] = 0 /\ retxSeg'[t] = 0
        BY <1>2, <2>4 DEF RlcInv, WillPoll
      <3>2. CASE pollTimer'
        BY <3>1, <3>2
      <3>3. CASE ~pollTimer'
        <4>1. ~MustPoll(s) /\ NoPoll
          BY <1>2, <1>4, <3>3 DEF PollIf, Poll
        <4>2. /\ ~(txon = 0 /\ retxSize = Len(RestOf(s)))
              /\ InTransmittingWindow /\ ~justExpired /\ ~pollTimer
          BY <3>3, <4>1 DEF MustPoll, NoPoll
        <4>3. txon' = txon /\ InTransmittingWindow' = InTransmittingWindow
              /\ nA' = nA /\ sent' = sent
          BY <1>2, SamePlaces DEF txon, InTransmittingWindow, vtS, Dist, rxVars
        <4>4. CASE txon > 0
          BY <3>1, <4>2, <4>3, <4>4
        <4>5. CASE ~(txon > 0)
          <5>1. txon = 0
            <6>1. accepted \in Nat /\ taken \in Nat /\ taken <= accepted * SduSize
              BY RlcSender DEF SenderInv, SenderType, RlcInv, Contiguous
            <6>2. accepted * SduSize \in Nat
              BY <6>1, SduTimes
            <6> QED  BY <4>5, <6>1, <6>2 DEF txon
          <5>2. retxSize # Len(retx[s])
            <6>1. retxSeg[s] = 0
              BY <3>1
            <6> QED  BY <1>5, <2>2, <4>2, <5>1, <6>1
          <5>3. PICK t \in SN : t # s /\ retx[t] # <<>>
            <6> SUFFICES ASSUME \A t \in SN : t # s => retx[t] = <<>> PROVE FALSE
              OBVIOUS
            <6> DEFINE R == SN \ {s}
            <6>1. /\ {s} \cup R = SN /\ {s} \cap R = {}
                  /\ R \in SUBSET SN /\ {s} \in SUBSET SN
              OBVIOUS
            <6>2. \A t \in R : retx[t] = <<>>
              OBVIOUS
            <6> HIDE DEF R
            <6>3. retx \in Buffers
              BY DEF RlcInv, TypeOK, Buffers
            <6>4. SizeOf(retx, SN) = SizeOf(retx, {s}) + SizeOf(retx, R)
              BY <6>1, <6>3, SizeOfParts
            <6>5. SizeOf(retx, R) = 0 /\ SizeOf(retx, {s}) = Len(retx[s])
              BY <6>1, <6>2, <6>3, SizeOfEmpty, SizeOfOne
            <6> QED  BY <1>5, <5>2, <6>4, <6>5 DEF RlcInv, SenderAccounts
          <5> DEFINE k == Ahead(nA, t)
          <5>4. /\ k \in Int /\ nA <= k /\ k < nA + Modulus /\ At(k) = t
            BY <1>1, AheadIs
          <5>5. k < sent
            <6>1. t \in Between(vtA, vtS)
              BY <5>3 DEF RlcInv, SenderAccounts
            <6> QED  BY <1>1, <5>4, <6>1, BetweenIs, Places
          <5> HIDE DEF k
          <5>6. n < k
            <6>1. k # n
              BY <1>4, <5>3, <5>4
            <6>2. ~(k < n)
              <7> SUFFICES ASSUME k < n PROVE FALSE
                OBVIOUS
              <7>1. k \in nA .. n - 1
                BY <1>5, <1>1, <5>4
              <7> QED  BY <1>3, <5>3, <5>4, <7>1
            <6> QED  BY <1>5, <5>4, <6>1, <6>2
          <5>7. \A i \in nA .. sent - 1 :
                  /\ txed'[At(i)] = IF i = n THEN retx[s] ELSE txed[At(i)]
                  /\ retx'[At(i)] = IF i = n THEN <<>> ELSE retx[At(i)]
            <6> SUFFICES ASSUME NEW i \in nA .. sent - 1
                         PROVE  /\ txed'[At(i)] = IF i = n THEN retx[s] ELSE txed[At(i)]
                                /\ retx'[At(i)] = IF i = n THEN <<>> ELSE retx[At(i)]
              OBVIOUS
            <6>1. At(i) \in SN /\ (At(i) = s <=> i = n)
              <7>1. i \in Int /\ i < n + Modulus /\ n < i + Modulus
                BY <1>1, <1>5, ModulusPositive
              <7> QED  BY <1>4, <1>5, <7>1, AtType, AtSame
            <6> QED  BY <2>4, <6>1
          <5>8. k \in nA .. sent - 1 /\ n \in nA .. sent - 1
            BY <1>1, <1>5, <5>4, <5>5
          <5>9. \/ \A i \in nA .. sent - 1 : txed[At(i)] = <<>>
                \/ \E q \in nA .. sent - 1 :
                     /\ retx[At(q)] # <<>>
                     /\ \A i \in nA .. sent - 1 : txed[At(i)] # <<>> => i < q
            BY <1>2, <4>2, <4>5 DEF RlcInv, WillPoll
          <5>10. \E q \in nA .. sent - 1 :
                   /\ retx'[At(q)] # <<>>
                   /\ \A i \in nA .. sent - 1 : txed'[At(i)] # <<>> => i < q
            <6>1. CASE \A i \in nA .. sent - 1 : txed[At(i)] = <<>>
              <7>1. retx'[At(k)] # <<>>
                BY <1>5, <5>3, <5>4, <5>6, <5>7, <5>8
              <7>2. \A i \in nA .. sent - 1 : txed'[At(i)] # <<>> => i < k
                BY <5>6, <5>7, <6>1
              <7> QED  BY <5>8, <7>1, <7>2
            <6>2. ASSUME NEW q \in nA .. sent - 1, retx[At(q)] # <<>>,
                         \A i \in nA .. sent - 1 : txed[At(i)] # <<>> => i < q
                  PROVE  \E r \in nA .. sent - 1 :
                           /\ retx'[At(r)] # <<>>
                           /\ \A i \in nA .. sent - 1 : txed'[At(i)] # <<>> => i < r
              <7>1. CASE q = n
                <8>1. retx'[At(k)] # <<>>
                  BY <1>5, <5>3, <5>4, <5>6, <5>7, <5>8
                <8>2. ASSUME NEW i \in nA .. sent - 1, txed'[At(i)] # <<>>
                      PROVE  i < k
                  <9>1. i = n \/ i < n
                    BY <5>7, <6>2, <7>1, <8>2
                  <9> QED  BY <1>1, <1>5, <5>4, <5>6, <9>1
                <8> QED  BY <5>8, <8>1, <8>2
              <7>2. CASE q # n
                <8>1. n < q
                  <9>1. ~(q < n)
                    <10> SUFFICES ASSUME q < n PROVE FALSE
                      OBVIOUS
                    <10>1. q \in nA .. n - 1
                      BY <1>1, <1>5
                    <10> QED  BY <1>3, <6>2, <10>1
                  <9> QED  BY <1>1, <1>5, <7>2, <9>1
                <8>2. retx'[At(q)] # <<>>
                  BY <5>7, <6>2, <7>2
                <8>3. \A i \in nA .. sent - 1 : txed'[At(i)] # <<>> => i < q
                  BY <5>7, <6>2, <8>1
                <8> QED  BY <8>2, <8>3
              <7> QED  BY <7>1, <7>2
            <6> QED  BY <5>9, <6>1, <6>2
          <5> QED  BY <3>1, <4>3, <5>10
        <4> QED  BY <4>4, <4>5
      <3> QED  BY <3>2, <3>3
    <2> QED  BY <1>2, <1>7, <1>8, <2>5, <2>6, <2>7, <2>8, MovedPreserves
  <1>10. CASE ~bigEnough /\ RetransmitPart(s, size) /\ ~(Len(RestOf(s)) <= size)
    <2>1. UNCHANGED <<txed, txedSize, retx, retxSize>>
      BY <1>10 DEF RetransmitPart
    <2>2. \A t \in SN : Copy(t)' = Copy(t)
      BY <2>1 DEF Copy
    <2>3. WillPoll'
      BY <1>2, <1>10 DEF WillPoll
    <2>4. CASE size = 0
      <3>1. UNCHANGED <<down, retxSeg>>
        BY <1>10, <2>4 DEF RetransmitPart
      <3>2. \A t \in SN : retxSeg'[t] # 0 => retxSeg'[t] < Len(retx'[t])
        BY <2>1, <3>1 DEF RlcInv, CopiesAgree
      <3>3. \A q \in down' : q \in down
        BY <3>1
      <3> QED  BY <1>2, <1>7, <1>8, <2>2, <2>3, <3>2, <3>3, MovedPreserves
    <2>5. CASE size # 0
      <3> DEFINE p == [n |-> n, seg |-> TRUE, off |-> retxSeg[s], last |-> FALSE,
                       poll |-> MustPoll(s), data |-> SubSeq(RestOf(s), 1, size)]
      <3>1. /\ down' = down \cup {p}
            /\ retxSeg' = [retxSeg EXCEPT ![s] = @ + size]
        BY <1>3, <1>4, <1>10, <2>5 DEF RetransmitPart
      <3>2. Len(RestOf(s)) = Len(retx[s]) - retxSeg[s]
        <4>1. retxSeg[s] + 0 <= Len(retx[s])
          BY <1>5
        <4> QED  BY <1>5, <4>1, SubSubSeq DEF RestOf
      <3>3. retxSeg[s] + size < Len(retx[s])
        BY <1>5, <1>10, <3>2
      <3>4. /\ p.data = SubSeq(retx[s], retxSeg[s] + 1, retxSeg[s] + size)
            /\ p.data \in Seq(Nat) /\ Len(p.data) = size
        <4>1. retxSeg[s] + size <= Len(retx[s])
          BY <1>5, <3>3
        <4>2. /\ SubSeq(RestOf(s), 1, size) =
                   SubSeq(retx[s], retxSeg[s] + 1, retxSeg[s] + size)
              /\ SubSeq(retx[s], retxSeg[s] + 1, retxSeg[s] + size) \in Seq(Nat)
              /\ Len(SubSeq(retx[s], retxSeg[s] + 1, retxSeg[s] + size)) = size
          BY <1>5, <4>1, SubSubSeq DEF RestOf
        <4> QED  BY <4>2
      <3>5. p \in Pdu /\ (p.n >= nR => Faithful(p)) /\ p.n = n
        <4>1. MustPoll(s) \in BOOLEAN
          BY DEF MustPoll, RlcInv, TypeOK
        <4>2. p \in Pdu
          BY <1>5, <3>4, <4>1 DEF Pdu
        <4>3. p.off + Len(p.data) = retxSeg[s] + size
          BY <1>5, <3>4
        <4>4. p.n = n /\ p.seg /\ ~p.last /\ p.off = retxSeg[s]
          OBVIOUS
        <4> HIDE DEF p
        <4>5. p.n >= nR => Faithful(p)
          <5>1. Whole(p.n) = Whole(n)
            BY <4>4
          <5> DEFINE d == retx[s]
          <5>2. p.n >= nR => Whole(p.n) = d
            BY <1>6, <4>4, <5>1
          <5>3. p.off + Len(p.data) <= Len(d)
            BY <1>5, <3>3, <4>3
          <5>4. p.data = SubSeq(d, p.off + 1, p.off + Len(p.data))
            BY <3>4, <4>3, <4>4
          <5> HIDE DEF d
          <5> QED  BY <4>4, <5>2, <5>3, <5>4 DEF Faithful
        <4> QED  BY <4>2, <4>4, <4>5
      <3> HIDE DEF p
      <3>6. \A q \in down' : q \in down \/ (/\ q \in Pdu /\ nA <= q.n /\ q.n < sent
                                            /\ q.n >= nR => Faithful(q))
        BY <1>5, <3>1, <3>5
      <3>7. \A t \in SN : retxSeg'[t] # 0 => retxSeg'[t] < Len(retx'[t])
        <4>1. \A t \in SN : retxSeg'[t] = IF t = s THEN retxSeg[s] + size
                                                   ELSE retxSeg[t]
          BY <3>1 DEF RlcInv, TypeOK
        <4> QED  BY <2>1, <3>3, <4>1 DEF RlcInv, CopiesAgree
      <3> QED  BY <1>2, <1>7, <1>8, <2>2, <2>3, <3>6, <3>7, MovedPreserves
    <2> QED  BY <2>4, <2>5
  <1> QED  BY <1>2, <1>4, <1>9, <1>10

(* The poll was not answered: everything sent is sent again, or the next PDU *)
(* sent again polls. *)
LEMMA ExpirePollRetransmitTimerKeeps ==
  ASSUME RlcInv, ExpirePollRetransmitTimer
  PROVE  RlcInv'
  <1> DEFINE again == {s \in Between(vtA, vtS) : txed[s] # <<>>}
  <1>1. /\ pollTimer' = FALSE /\ justExpired' = TRUE
        /\ UNCHANGED <<bigEnough, accepted, taken, sent, vtA, retxSeg, pollSn,
                       rxVars, down, up>>
        /\ \/ UNCHANGED <<retx, txed>>
           \/ /\ retx' = [s \in SN |-> IF s \in again THEN txed[s] ELSE retx[s]]
              /\ txed' = Clear(txed, again)
    BY DEF ExpirePollRetransmitTimer
  <1>2. \A s \in SN :
          \/ txed'[s] = txed[s] /\ retx'[s] = retx[s]
          \/ /\ txed[s] # <<>> /\ retx[s] = <<>> /\ retxSeg[s] = 0
             /\ txed'[s] = <<>> /\ retx'[s] = txed[s]
    <2>1. \A s \in again : txed[s] # <<>>
      OBVIOUS
    <2> HIDE DEF again
    <2> QED  BY <1>1, <2>1 DEF Clear, RlcInv, SenderAccounts
  <1>3. \A s \in SN : Copy(s)' = Copy(s)
    <2> SUFFICES ASSUME NEW s \in SN PROVE Copy(s)' = Copy(s)
      OBVIOUS
    <2>1. Copy(s)' = IF txed'[s] # <<>> THEN txed'[s] ELSE retx'[s]
      BY DEF Copy
    <2> QED  BY <1>2, <2>1 DEF Copy
  <1>4. \A s \in SN : retxSeg'[s] # 0 => retxSeg'[s] < Len(retx'[s])
    BY <1>1, <1>2 DEF RlcInv, CopiesAgree
  <1>5. SenderInv'
    BY RlcSender, ExpirePollRetransmitTimerPreserves
  <1>6. PollsLast'
    BY <1>1 DEF RlcInv, PollsLast, At
  <1>7. WillPoll'
    BY <1>1 DEF RlcInv, WillPoll
  <1>8. pollSn' \in SN /\ pollTimer' \in BOOLEAN /\ justExpired' \in BOOLEAN
    BY <1>1 DEF RlcInv, TypeOK
  <1>9. \A p \in down' : p \in down
    BY <1>1
  <1> QED
    BY <1>1, <1>3, <1>4, <1>5, <1>6, <1>7, <1>8, <1>9, MovedPreserves

-----------------------------------------------------------------------------
(* New PDUs.                                                               *)

(* A run of chunks is a sequence. *)
LEMMA ChunksFromIs ==
  ASSUME NEW c \in Nat, NEW k \in Nat
  PROVE  /\ ChunksFrom(c, k) \in Seq(Nat) /\ Len(ChunksFrom(c, k)) = k
         /\ \A i \in 1 .. k : ChunksFrom(c, k)[i] = c + i - 1
  <1>1. \A i \in 1 .. k : c + i - 1 \in Nat
    OBVIOUS
  <1> QED  BY <1>1 DEF ChunksFrom

(* The whole and the empty part of a sequence. *)
LEMMA WholeSubSeq ==
  ASSUME NEW d \in Seq(Nat)
  PROVE  SubSeq(d, 1, Len(d)) = d /\ SubSeq(d, 1, 0) = <<>>
  <1>1. Len(d) \in Nat /\ d = [i \in 1 .. Len(d) |-> d[i]]
    OBVIOUS
  <1>2. SubSeq(d, 1, Len(d)) = [i \in 1 .. Len(d) |-> d[i]]
    BY <1>1
  <1> QED  BY <1>1, <1>2

(* What is known of a number from VR(R) on. *)
LEMMA WholeIs ==
  ASSUME RlcInv, NEW n \in nR .. sent - 1
  PROVE  /\ Whole(n) \in Seq(Nat) /\ Len(Whole(n)) \in Nat /\ Len(Whole(n)) > 0
         /\ FirstChunk(n) = Whole(n)[1] /\ FirstChunk(n) \in Nat
         /\ Whole(n) = ChunksFrom(FirstChunk(n), Len(Whole(n)))
         /\ FirstChunk(n + 1) = FirstChunk(n) + Len(Whole(n))
         /\ Copy(At(n)) # <<>> => Copy(At(n)) = Whole(n)
  <1>1. nR \in Nat /\ sent \in Nat
    BY Places
  <1>2. n \in Nat /\ n # sent
    BY <1>1
  <1>3. At(n) \in SN
    BY <1>2, AtType
  <1>4. Whole(n) \in Seq(Nat)
    <2>1. /\ rxon[At(n)] \in [data : Seq(Nat), complete : BOOLEAN]
          /\ txed[At(n)] \in Seq(Nat) /\ retx[At(n)] \in Seq(Nat)
      BY <1>3 DEF RlcInv, TypeOK
    <2> QED  BY <2>1 DEF Whole, Copy
  <1>5. /\ Len(Whole(n)) > 0
        /\ Whole(n) = ChunksFrom(FirstChunk(n), Len(Whole(n)))
        /\ FirstChunk(n + 1) = FirstChunk(n) + Len(Whole(n))
        /\ Copy(At(n)) # <<>> => Copy(At(n)) = Whole(n)
    BY DEF RlcInv, Contiguous, CopiesAgree
  <1>6. FirstChunk(n) = Whole(n)[1]
    BY <1>2 DEF FirstChunk
  <1>7. Len(Whole(n)) \in Nat /\ Whole(n)[1] \in Nat
    BY <1>4, <1>5
  <1> QED  BY <1>4, <1>5, <1>6, <1>7

(* A new PDU takes the next number and the next chunks. *)
LEMMA BuildPduKeeps ==
  ASSUME RlcInv, NEW size \in Sizes, BuildPdu(size)
  PROVE  RlcInv'
  <1>1. /\ nA \in Nat /\ nR \in Nat /\ nMs \in Nat /\ nH \in Nat /\ sent \in Nat
        /\ nA <= nR /\ nR <= nMs /\ nMs <= nH /\ nH <= sent
        /\ sent < nA + Modulus
        /\ vtA = At(nA) /\ vtS = At(sent)
        /\ vrR = At(nR) /\ vrMs = At(nMs) /\ vrH = At(nH)
        /\ reordering => nX \in Nat /\ vrX = At(nX) /\ nR < nX /\ nX <= nH
    BY Places
  <1>2. /\ accepted \in 0 .. MaxSdus /\ accepted \in Nat /\ taken \in Nat
        /\ taken <= accepted * SduSize /\ accepted * SduSize \in Nat
    <2>1. accepted \in 0 .. MaxSdus /\ taken <= accepted * SduSize
      BY DEF RlcInv, TypeOK, Contiguous
    <2>2. accepted \in Nat /\ taken \in Nat
      BY RlcSender DEF SenderInv, SenderType
    <2> QED  BY <2>1, <2>2, SduTimes
  <1>3. PICK count \in Nat :
          /\ count > 0 /\ taken + count <= accepted * SduSize
          /\ count = Min({size, txon})
    <2> DEFINE u == accepted * SduSize
    <2>1. size \in Nat /\ size > 0 /\ txon > 0 /\ txon = u - taken
      BY SizeAssumption DEF BuildPdu, txon
    <2>2. txon \in Int
      BY <1>2, <2>1
    <2>3. Min({size, txon}) = IF size <= txon THEN size ELSE txon
      BY <2>1, <2>2 DEF Min
    <2>4. Min({size, txon}) \in Nat /\ Min({size, txon}) > 0
          /\ Min({size, txon}) <= txon
      BY <2>1, <2>2, <2>3
    <2>5. taken + Min({size, txon}) <= u
      <3> HIDE DEF u
      <3>1. u \in Nat
        BY <1>2 DEF u
      <3> QED  BY <1>2, <2>1, <2>4, <3>1
    <2> QED  BY <2>4, <2>5
  <1>4. PICK data \in Seq(Nat) :
          /\ data = ChunksFrom(taken, count) /\ Len(data) = count /\ data # <<>>
          /\ data[1] = taken
    <2> DEFINE d == ChunksFrom(taken, count)
    <2>1. d \in Seq(Nat) /\ Len(d) = count /\ d[1] = taken + 1 - 1
      <3>1. 1 \in 1 .. count
        BY <1>3
      <3> QED  BY <1>2, <1>3, <3>1, ChunksFromIs
    <2> HIDE DEF d
    <2>2. d # <<>> /\ taken + 1 - 1 = taken
      BY <1>2, <1>3, <2>1
    <2> QED  BY <2>1, <2>2 DEF d
  <1>5. PICK p \in Pdu : p = [n |-> sent, seg |-> FALSE, off |-> 0, last |-> TRUE,
                              poll |-> TRUE, data |-> data]
    BY <1>1, <1>4 DEF Pdu
  <1>6. /\ taken' = taken + count
        /\ txed' = [txed EXCEPT ![vtS] = data]
        /\ down' = down \cup {p}
        /\ sent' = sent + 1 /\ pollSn' = vtS /\ pollTimer' = TRUE
        /\ justExpired' = FALSE
        /\ UNCHANGED <<bigEnough, accepted, vtA, retx, retxSeg, retxSize, rxVars, up>>
    BY <1>3, <1>4, <1>5 DEF BuildPdu, Poll, ChunksFrom
  <1>7. sent < nA + WindowSize
    <2>1. Dist(vtA, vtS) = sent - nA
      BY <1>1, AtDist
    <2>2. Dist(vtA, vtS) < WindowSize
      BY DEF BuildPdu, InTransmittingWindow
    <2> QED  BY <1>1, <2>1, <2>2, ModulusPositive
  <1>8. \A q \in down : sent + 1 + WindowSize <= q.n + Modulus
    <2> SUFFICES ASSUME NEW q \in down PROVE sent + 1 + WindowSize <= q.n + Modulus
      OBVIOUS
    <2>1. q.n \in Nat
      BY DEF RlcInv, TypeOK, Pdu
    <2>2. sent < q.n + (Modulus - WindowSize)
      BY DEF BuildPdu, HarqInTime
    <2> QED  BY <1>1, <2>1, <2>2, ModulusPositive
  <1>9. SenderInv'
    BY RlcSender, BuildPduPreserves
  <1>10. /\ nA' = nA /\ nR' = nR /\ nMs' = nMs /\ nH' = nH
         /\ reordering => nX' = nX
    <2>1. /\ sent' \in Int /\ sent' <= nA + WindowSize /\ nH <= sent'
          /\ vtA' = At(nA) /\ vrR' = At(nR) /\ vrMs' = At(nMs) /\ vrH' = At(nH)
          /\ vrX' = vrX
      BY <1>1, <1>6, <1>7, ModulusPositive DEF rxVars
    <2>2. /\ nA' = nA /\ nR' = nR /\ nMs' = nMs /\ nH' = nH
          /\ \A z \in Int : vrX' = At(z) /\ nR <= z /\ z <= nH => nX' = z
      BY <1>1, <2>1, PlacesNext
    <2> QED  BY <1>1, <2>1, <2>2
  <1>11. PICK z \in Nat : z = sent
    BY <1>1
  <1>12. At(z) \in SN /\ rxon[At(z)] = Nothing /\ vtS = At(z) /\ sent' = z + 1
    <2>1. z \in nR .. nR + Modulus - 1 /\ ~(z < nH)
      BY <1>1, <1>11, ModulusPositive
    <2> QED  BY <1>1, <1>6, <1>11, <2>1, BelowHighest, AtType
  <1>13. \A n \in nA .. z - 1 : n \in Nat /\ n # sent /\ At(n) \in SN /\ At(n) # At(z)
    <2> SUFFICES ASSUME NEW n \in nA .. z - 1
                 PROVE  n \in Nat /\ n # sent /\ At(n) \in SN /\ At(n) # At(z)
      OBVIOUS
    <2>1. n \in Int /\ n < z /\ n < z + Modulus /\ z < n + Modulus /\ n \in Nat
      BY <1>1, <1>11, ModulusPositive
    <2> QED  BY <1>11, <2>1, AtType, AtSame
  <1>14. /\ \A s \in SN : Copy(s)' = IF s = At(z) THEN data ELSE Copy(s)
         /\ \A n \in nA .. z - 1 : /\ Copy(At(n))' = Copy(At(n))
                                   /\ Whole(n)' = Whole(n)
         /\ Copy(At(z))' = data /\ Whole(z)' = data
    <2>1. \A s \in SN : txed'[s] = IF s = At(z) THEN data ELSE txed[s]
      BY <1>6, <1>12 DEF RlcInv, TypeOK
    <2>2. retx' = retx /\ rxon' = rxon
      BY <1>6 DEF rxVars
    <2>3. ASSUME NEW s \in SN
          PROVE  Copy(s)' = IF s = At(z) THEN data ELSE Copy(s)
      <3>1. Copy(s)' = IF txed'[s] # <<>> THEN txed'[s] ELSE retx'[s]
        BY DEF Copy
      <3> QED  BY <1>4, <2>1, <2>2, <3>1 DEF Copy
    <2>4. ASSUME NEW n \in Nat, At(n) \in SN
          PROVE  Copy(At(n))' = IF At(n) = At(z) THEN data ELSE Copy(At(n))
      BY <2>3, <2>4 DEF At
    <2>5. \A n \in nA .. z - 1 : Copy(At(n))' = Copy(At(n))
      BY <1>13, <2>4
    <2>6. \A n \in nA .. z - 1 : Whole(n)' = Whole(n)
      BY <2>2, <2>5 DEF Whole, At
    <2>7. Copy(At(z))' = data
      BY <1>12, <2>4
    <2>8. Whole(z)' = data
      BY <1>12, <2>2, <2>7 DEF Whole, At, Nothing
    <2> QED  BY <2>3, <2>5, <2>6, <2>7, <2>8
  <1>15. TypeOK'
    <2>1. down' \subseteq Pdu /\ up' \subseteq Status
      BY <1>6 DEF RlcInv, TypeOK
    <2>2. /\ bigEnough' \in BOOLEAN /\ accepted' \in 0 .. MaxSdus
          /\ taken' <= accepted' * SduSize
          /\ pollSn' \in SN /\ pollTimer' \in BOOLEAN /\ justExpired' \in BOOLEAN
      <3>1. bigEnough \in BOOLEAN
        BY DEF RlcInv, TypeOK
      <3>2. accepted' = accepted /\ bigEnough' = bigEnough
        BY <1>6
      <3> QED  BY <1>2, <1>3, <1>6, <1>12, <3>1, <3>2
    <2>3. /\ vrR' \in SN /\ vrMs' \in SN /\ vrX' \in SN /\ vrH' \in SN
          /\ rxon' \in [SN -> [data : Seq(Nat), complete : BOOLEAN]]
          /\ reordering' \in BOOLEAN /\ statusRequested' \in BOOLEAN
          /\ statusReported' \in BOOLEAN /\ prohibit' \in BOOLEAN
          /\ kept' \in Seq(Nat) /\ delivered' \in Seq(Seq(Nat))
      BY <1>6 DEF RlcInv, TypeOK, rxVars
    <2> QED  BY <1>9, <2>1, <2>2, <2>3, TypeFrom
  <1>16. WindowOrder'
    <2>1. reordering' = reordering
      BY <1>6 DEF rxVars
    <2>2. 0 <= nA /\ nR <= nMs /\ nMs <= nH /\ nH <= z + 1 /\ z + 1 <= nA + WindowSize
      BY <1>1, <1>7, <1>11, ModulusPositive
    <2> QED  BY <1>1, <1>10, <1>12, <2>1, <2>2 DEF WindowOrder
  <1>17. ReceptionBuffer'
    BY <1>6, <1>10 DEF RlcInv, ReceptionBuffer, Dist, rxVars
  <1>18. InTime'
    <2> SUFFICES ASSUME NEW q \in down'
                 PROVE  q.n < z + 1 /\ (z + 1) + WindowSize <= q.n + Modulus
      BY <1>12 DEF InTime
    <2>1. CASE q \in down
      <3>1. q.n \in Nat /\ q.n < z
        BY <1>11, <2>1 DEF RlcInv, TypeOK, Pdu, InTime
      <3> QED  BY <1>8, <1>11, <2>1, <3>1
    <2>2. CASE q = p
      <3>1. q.n = z
        BY <1>5, <1>11, <2>2
      <3> QED  BY <3>1, ModulusPositive
    <2> QED  BY <1>6, <2>1, <2>2
  <1>19. /\ \A n \in nR .. z : FirstChunk(n)' = FirstChunk(n)
         /\ FirstChunk(z + 1)' = taken + count
    <2>1. FirstChunk(z + 1)' = taken + count
      BY <1>6, <1>12 DEF FirstChunk
    <2>2. ASSUME NEW n \in nR .. z PROVE FirstChunk(n)' = FirstChunk(n)
      <3>1. n \in Nat /\ n # sent'
        BY <1>1, <1>12
      <3>2. FirstChunk(n)' = Whole(n)'[1]
        BY <3>1 DEF FirstChunk
      <3>3. CASE n = z
        BY <1>4, <1>11, <1>14, <3>2, <3>3 DEF FirstChunk
      <3>4. CASE n # z
        <4>1. n \in nA .. z - 1
          BY <1>1, <1>11, <3>4
        <4> QED  BY <1>11, <1>14, <3>2, <3>4, <4>1 DEF FirstChunk
      <3> QED  BY <3>3, <3>4
    <2> QED  BY <2>1, <2>2
  <1>20. Contiguous'
    <2>1. ASSUME NEW n \in nR .. z
          PROVE  /\ Len(Whole(n)') > 0
                 /\ Whole(n)' = ChunksFrom(FirstChunk(n)', Len(Whole(n)'))
                 /\ FirstChunk(n + 1)' = FirstChunk(n)' + Len(Whole(n)')
      <3>1. CASE n = z
        <4>1. FirstChunk(n)' = taken
          BY <1>11, <1>19, <3>1 DEF FirstChunk
        <4> QED  BY <1>3, <1>4, <1>14, <1>19, <3>1, <4>1
      <3>2. CASE n # z
        <4>1. n \in nR .. sent - 1 /\ n \in nA .. z - 1 /\ n + 1 \in nR .. z
          BY <1>1, <1>11, <3>2
        <4> QED  BY <1>14, <1>19, <4>1 DEF RlcInv, Contiguous
      <3> QED  BY <3>1, <3>2
    <2>2. FirstChunk(nR)' = Len(delivered') * SduSize + Len(kept')
      <3>1. PICK r \in Nat : r = nR
        BY <1>1
      <3>2. r \in nR .. z
        BY <1>1, <1>11, <3>1
      <3>3. FirstChunk(r)' = Len(delivered) * SduSize + Len(kept)
        BY <1>19, <3>1, <3>2 DEF RlcInv, Contiguous
      <3>4. FirstChunk(nR)' = FirstChunk(r)'
        BY <1>10, <3>1 DEF FirstChunk, Whole, Copy, At
      <3> QED  BY <1>6, <3>3, <3>4 DEF rxVars
    <2>3. taken' <= accepted' * SduSize
      BY <1>3, <1>6
    <2>4. nR' .. sent' - 1 = nR .. z
      BY <1>10, <1>11, <1>12
    <2> QED  BY <2>1, <2>2, <2>3, <2>4 DEF Contiguous, ChunksFrom
  <1>21. CopiesAgree'
    <2>1. ASSUME NEW n \in nR .. z
          PROVE  /\ Copy(At(n))' # <<>> => Copy(At(n))' = Whole(n)'
                 /\ LET part == rxon'[At(n)].data IN
                      /\ Len(part) <= Len(Whole(n)')
                      /\ part = SubSeq(Whole(n)', 1, Len(part))
      <3>1. CASE n = z
        <4>1. rxon'[At(n)].data = <<>>
          BY <1>6, <1>12, <3>1 DEF rxVars, Nothing
        <4> QED  BY <1>4, <1>14, <3>1, <4>1, WholeSubSeq
      <3>2. CASE n # z
        <4>1. n \in nR .. sent - 1 /\ n \in nA .. z - 1
          BY <1>1, <1>11, <3>2
        <4> QED  BY <1>6, <1>14, <4>1 DEF RlcInv, CopiesAgree, rxVars
      <3> QED  BY <3>1, <3>2
    <2>2. ASSUME NEW q \in down', q.n >= nR PROVE Faithful(q)'
      <3>1. CASE q \in down
        <4>1. q.n \in nA .. z - 1
          <5>1. q.n \in Nat
            BY <3>1 DEF RlcInv, TypeOK, Pdu
          <5>2. q.n < sent
            BY <3>1 DEF RlcInv, InTime
          <5> QED  BY <1>1, <1>11, <2>2, <5>1, <5>2
        <4> QED  BY <1>14, <2>2, <3>1, <4>1 DEF RlcInv, CopiesAgree, Faithful
      <3>2. CASE q = p
        <4>1. /\ q.n = z /\ q.off = 0 /\ q.last /\ q.data = data
          BY <1>5, <1>11, <3>2
        <4>2. Whole(q.n)' = data
          BY <1>14, <4>1
        <4>3. SubSeq(data, 0 + 1, 0 + Len(data)) = data /\ 0 + Len(data) = Len(data)
              /\ Len(data) <= Len(data)
          BY WholeSubSeq
        <4> QED  BY <4>1, <4>2, <4>3 DEF Faithful
      <3> QED  BY <1>6, <3>1, <3>2
    <2>3. nR' .. sent' - 1 = nR .. z /\ nR' = nR
      BY <1>10, <1>11, <1>12
    <2>4. \A s \in SN : retxSeg'[s] # 0 => retxSeg'[s] < Len(retx'[s])
      BY <1>6 DEF RlcInv, CopiesAgree
    <2> QED  BY <2>1, <2>2, <2>3, <2>4 DEF CopiesAgree, Faithful, At
  <1>22. DeliveredSoFar'
    BY <1>6 DEF RlcInv, DeliveredSoFar, Intact, ChunksFrom, rxVars
  <1>23. \A n \in nA .. z : (n < z => Copy(At(n)) # <<>>) => Copy(At(n))' # <<>>
    <2> SUFFICES ASSUME NEW n \in nA .. z, n < z => Copy(At(n)) # <<>>
                 PROVE  Copy(At(n))' # <<>>
      OBVIOUS
    <2>1. CASE n = z
      BY <1>4, <1>14, <2>1
    <2>2. CASE n # z
      <3>1. n \in nA .. z - 1 /\ n < z
        BY <1>1, <1>11, <2>2
      <3> QED  BY <1>14, <3>1
    <2> QED  BY <2>1, <2>2
  <1>24. OldestKept'
    <2>1. PICK a \in Nat : a = nA
      BY <1>1
    <2>2. a \in nA .. z /\ (a < z => Copy(At(a)) # <<>>)
      BY <1>1, <1>11, <2>1 DEF RlcInv, OldestKept
    <2>3. Copy(At(a))' # <<>>
      BY <1>23, <2>2
    <2>4. Copy(vtA)' = Copy(At(a))'
      BY <1>1, <1>6, <2>1 DEF Copy, At
    <2> QED  BY <2>3, <2>4 DEF OldestKept
  <1>25. StatusTrue'
    <2>1. ASSUME NEW m \in up
          PROVE  /\ Ahead(nA, m.ack)' <= sent'
                 /\ \A n \in nA' .. Ahead(nA, m.ack)' - 1 :
                      At(n) \in m.nacks \/ Received(n)'
                 /\ \E f \in nA' .. sent' : MovesTo(m, f)'
      <3>1. /\ Ahead(nA, m.ack) <= z
            /\ \A n \in nA .. Ahead(nA, m.ack) - 1 : At(n) \in m.nacks \/ Received(n)
            /\ \E f \in nA .. z : MovesTo(m, f)
        BY <1>11 DEF RlcInv, StatusTrue
      <3>2. Ahead(nA, m.ack)' = Ahead(nA, m.ack) /\ Ahead(nA, m.ack) \in Int
        <4>1. m.ack \in SN
          BY DEF RlcInv, TypeOK, Status
        <4> QED  BY <1>1, <1>10, <4>1, AheadIs DEF Ahead, At, Dist
      <3>3. \A n : Received(n)' = Received(n)
        BY <1>6, <1>10 DEF Received, At, rxVars
      <3>4. PICK f \in nA .. z : MovesTo(m, f)
        BY <3>1
      <3>5. /\ f \in nA .. Ahead(nA, m.ack) /\ f <= nR
            /\ f = Ahead(nA, m.ack) \/ At(f) \in m.nacks
            /\ \A n \in nA .. f - 1 : At(n) \notin m.nacks
            /\ f < z => Copy(At(f)) # <<>>
        BY <1>11, <3>4 DEF MovesTo
      <3>6. Copy(At(f))' # <<>>
        BY <1>23, <3>5
      <3>7. MovesTo(m, f)'
        BY <1>10, <3>2, <3>5, <3>6 DEF MovesTo, At
      <3>8. f \in nA' .. sent'
        BY <1>1, <1>10, <1>12
      <3>9. Ahead(nA, m.ack)' <= sent'
        BY <1>12, <3>1, <3>2
      <3> QED  BY <1>10, <3>1, <3>2, <3>3, <3>7, <3>8, <3>9
    <2>2. (\A m1, m2 \in up' : m1 = m2) /\ (up' # {} => prohibit') /\ up' = up
      BY <1>6 DEF RlcInv, StatusTrue, rxVars
    <2> QED  BY <2>1, <2>2 DEF StatusTrue, At, Ahead
  <1>26. PollsLast'
    <2>1. sent' - 1 = z
      BY <1>12
    <2> QED  BY <1>6, <1>12, <2>1 DEF PollsLast, At
  <1>27. WillPoll'
    BY <1>6 DEF RlcInv, WillPoll
  <1> QED
    BY <1>9, <1>15, <1>16, <1>17, <1>18, <1>20, <1>21, <1>22, <1>24, <1>25, <1>26,
       <1>27 DEF RlcInv, SenderInv

-----------------------------------------------------------------------------
(* What a STATUS does.                                                     *)

(* What it covers, in numbers. *)
LEMMA CoveredIs ==
  ASSUME RlcInv, NEW m \in up
  PROVE  /\ Ahead(nA, m.ack) \in nA .. sent
         /\ \A i \in nA .. nA + Modulus - 1 :
              At(i) \in Covered(m) <=> i < Ahead(nA, m.ack)
  <1> DEFINE k == Ahead(nA, m.ack)
  <1>1. nA \in Nat /\ sent \in Nat /\ sent < nA + Modulus
        /\ vtA = At(nA) /\ vtS = At(sent) /\ nA <= sent
    <2>1. /\ nA \in Nat /\ sent \in Nat /\ nR \in Nat /\ nMs \in Nat /\ nH \in Nat
          /\ nA <= nR /\ nR <= nMs /\ nMs <= nH /\ nH <= sent
          /\ sent < nA + Modulus /\ vtA = At(nA) /\ vtS = At(sent)
      BY Places
    <2> QED  BY <2>1
  <1>2. m.ack \in SN
    BY DEF RlcInv, TypeOK, Status
  <1>3. k \in Int /\ nA <= k /\ k < nA + Modulus /\ At(k) = m.ack
    BY <1>1, <1>2, AheadIs
  <1>4. k <= sent
    BY DEF RlcInv, StatusTrue
  <1> HIDE DEF k
  <1>5. ASSUME NEW i \in nA .. nA + Modulus - 1
        PROVE  At(i) \in Covered(m) <=> i < k
    <2>1. At(i) \in Between(At(nA), At(k)) <=> i < k
      BY <1>1, <1>3, BetweenIs
    <2>2. At(i) \in Between(At(nA), At(sent)) <=> i < sent
      BY <1>1, BetweenIs
    <2>3. i \in Int
      BY <1>1
    <2> QED  BY <1>1, <1>3, <1>4, <2>1, <2>2, <2>3 DEF Covered
  <1>6. k \in nA .. sent
    BY <1>1, <1>3, <1>4
  <1> QED  BY <1>5, <1>6 DEF k

(* VT(A) moves up, what is acknowledged goes, the rest is sent again. *)
LEMMA ReceiveStatusKeeps ==
  ASSUME RlcInv, NEW m \in up, ReceiveStatus(m)
  PROVE  RlcInv'
  <1> DEFINE covered == Covered(m)
             nacked == {s \in covered \cap m.nacks : txed[s] # <<>>}
             acked == covered \ m.nacks
  <1>1. /\ nA \in Nat /\ nR \in Nat /\ nMs \in Nat /\ nH \in Nat /\ sent \in Nat
        /\ nA <= nR /\ nR <= nMs /\ nMs <= nH /\ nH <= sent
        /\ sent <= nA + WindowSize /\ sent < nA + Modulus
        /\ vtA = At(nA) /\ vtS = At(sent)
        /\ vrR = At(nR) /\ vrMs = At(nMs) /\ vrH = At(nH)
        /\ reordering => nX \in Nat /\ vrX = At(nX) /\ nR < nX /\ nX <= nH
    BY Places
  <1>2. /\ up' = up \ {m}
        /\ pollTimer' = StillPolling(covered)
        /\ retx' = [s \in SN |-> IF s \in nacked THEN txed[s]
                                 ELSE IF s \in acked THEN <<>> ELSE retx[s]]
        /\ txed' = Clear(txed, nacked \cup acked)
        /\ retxSeg' = [s \in SN |-> IF s \in acked THEN 0 ELSE retxSeg[s]]
        /\ vtA' = FirstNotIn(vtA, acked)
        /\ UNCHANGED <<bigEnough, accepted, taken, sent, pollSn, justExpired, rxVars,
                       down>>
    BY DEF ReceiveStatus
  <1>3. up' = {} /\ m \in Status
    BY <1>2 DEF RlcInv, StatusTrue, TypeOK
  <1>4. PICK k \in nA .. sent :
          /\ k = Ahead(nA, m.ack)
          /\ \A i \in nA .. nA + Modulus - 1 : At(i) \in covered <=> i < k
    BY CoveredIs
  <1>5. \A i \in nA .. k - 1 : At(i) \in m.nacks \/ Received(i)
    BY <1>4 DEF RlcInv, StatusTrue
  <1>6. PICK f \in nA .. sent :
          /\ f \in nA .. k /\ f <= nR
          /\ f = k \/ At(f) \in m.nacks
          /\ \A n \in nA .. f - 1 : At(n) \notin m.nacks
          /\ f < sent => Copy(At(f)) # <<>>
    <2>1. PICK f \in nA .. sent : MovesTo(m, f)
      BY DEF RlcInv, StatusTrue
    <2> QED  BY <1>4, <2>1 DEF MovesTo
  <1>7. /\ f \in Nat /\ nA <= f /\ f <= k /\ f < nA + Modulus
        /\ k \in Nat /\ k <= sent
        /\ \A i \in nA .. sent : i \in nA .. nA + Modulus - 1
    <2>1. k \in Nat /\ k <= sent
      BY <1>1, <1>4
    <2>2. f \in Nat /\ nA <= f /\ f <= k /\ f < nA + Modulus
      BY <1>1, <1>6, <2>1, ModulusPositive
    <2>3. \A i \in nA .. sent : i \in nA .. nA + Modulus - 1
      BY <1>1, ModulusPositive
    <2> QED  BY <2>1, <2>2, <2>3
  <1>8. /\ \A s \in nacked : s \in covered /\ s \in m.nacks /\ txed[s] # <<>>
        /\ \A s \in acked : s \in covered /\ s \notin m.nacks
        /\ \A s \in covered : \/ s \in acked
                              \/ s \in nacked
                              \/ s \in m.nacks /\ txed[s] = <<>>
    OBVIOUS
  <1>9. At(f) \notin acked /\ vtA' = At(f)
    <2>1. At(f) \notin acked
      <3>1. CASE f = k
        <4>1. At(f) \notin covered
          BY <1>4, <1>6, <1>7, <3>1
        <4> QED  BY <4>1
      <3>2. CASE At(f) \in m.nacks
        BY <3>2
      <3> QED  BY <1>6, <3>1, <3>2
    <2>2. \A i \in nA .. f - 1 : At(i) \in acked
      <3> SUFFICES ASSUME NEW i \in nA .. f - 1 PROVE At(i) \in acked
        OBVIOUS
      <3>1. i \in nA .. sent /\ i < k
        BY <1>1, <1>7
      <3>2. At(i) \in covered
        BY <1>4, <1>7, <3>1
      <3> QED  BY <1>6, <3>2
    <2> HIDE DEF acked
    <2>3. PICK q \in nA .. f : /\ FirstNotIn(At(nA), acked) = At(q)
                               /\ At(q) \notin acked
      <3>1. nA \in Int /\ f \in Int /\ nA <= f /\ f < nA + Modulus
        BY <1>1, <1>7
      <3> QED  BY <2>1, <3>1, RunStops
    <2>4. q = f
      <3>1. ~(q < f)
        <4> SUFFICES ASSUME q < f PROVE FALSE
          OBVIOUS
        <4>1. q \in nA .. f - 1
          BY <1>1, <1>7
        <4> QED  BY <2>2, <2>3, <4>1
      <3> QED  BY <1>1, <1>7, <3>1
    <2> QED  BY <1>1, <1>2, <2>1, <2>3, <2>4
  <1> HIDE DEF covered, nacked, acked
  <1>10. \A s \in SN :
           /\ txed'[s] = IF s \in nacked \cup acked THEN <<>> ELSE txed[s]
           /\ retx'[s] = IF s \in nacked THEN txed[s]
                         ELSE IF s \in acked THEN <<>> ELSE retx[s]
           /\ retxSeg'[s] = IF s \in acked THEN 0 ELSE retxSeg[s]
           /\ txed[s] # <<>> => retx[s] = <<>> /\ retxSeg[s] = 0
    BY <1>2 DEF Clear, RlcInv, SenderAccounts
  <1>11. \A s \in SN : Copy(s)' = IF s \in acked THEN <<>> ELSE Copy(s)
    <2> SUFFICES ASSUME NEW s \in SN
                 PROVE  Copy(s)' = IF s \in acked THEN <<>> ELSE Copy(s)
      OBVIOUS
    <2>1. Copy(s)' = IF txed'[s] # <<>> THEN txed'[s] ELSE retx'[s]
      BY DEF Copy
    <2> QED  BY <1>8, <1>10, <2>1 DEF Copy
  <1>12. \A n \in Nat : At(n) \in SN
                        /\ Copy(At(n))' = IF At(n) \in acked THEN <<>> ELSE Copy(At(n))
    <2> SUFFICES ASSUME NEW n \in Nat
                 PROVE  At(n) \in SN
                        /\ Copy(At(n))' = IF At(n) \in acked THEN <<>> ELSE Copy(At(n))
      OBVIOUS
    <2>1. At(n) \in SN
      BY AtType
    <2> QED  BY <1>11, <2>1 DEF At
  <1>13. \A n \in nR .. sent - 1 : At(n) \in acked => rxon[At(n)].complete
    <2> SUFFICES ASSUME NEW n \in nR .. sent - 1, At(n) \in acked
                 PROVE  rxon[At(n)].complete
      OBVIOUS
    <2>1. n \in nA .. sent /\ nR <= n /\ n \in Int
      BY <1>1
    <2>2. n < k
      BY <1>4, <1>7, <1>8, <2>1
    <2>3. n \in nA .. k - 1
      BY <1>1, <1>7, <2>1, <2>2
    <2>4. Received(n)
      BY <1>5, <1>8, <2>3
    <2> QED  BY <1>1, <2>1, <2>4 DEF Received
  <1>14. \A n \in nR .. sent - 1 : Whole(n)' = Whole(n)
    <2> SUFFICES ASSUME NEW n \in nR .. sent - 1 PROVE Whole(n)' = Whole(n)
      OBVIOUS
    <2>1. n \in Nat
      BY <1>1
    <2>2. Whole(n)' = IF rxon[At(n)].complete THEN rxon[At(n)].data ELSE Copy(At(n))'
      BY <1>2 DEF Whole, At, rxVars
    <2> QED  BY <1>12, <1>13, <2>1, <2>2 DEF Whole
  <1>15. SenderInv'
    BY RlcSender, ReceiveStatusPreserves
  <1>16. /\ nA' = f /\ nR' = nR /\ nMs' = nMs /\ nH' = nH
         /\ reordering => nX' = nX
    <2>1. /\ sent' = sent /\ sent <= f + WindowSize /\ f <= nR
          /\ vtA' = At(f) /\ vrR' = At(nR) /\ vrMs' = At(nMs) /\ vrH' = At(nH)
          /\ vrX' = vrX
      BY <1>1, <1>2, <1>6, <1>7, <1>9, ModulusPositive DEF rxVars
    <2>2. /\ nA' = f /\ nR' = nR /\ nMs' = nMs /\ nH' = nH
          /\ \A z \in Int : vrX' = At(z) /\ nR <= z /\ z <= nH => nX' = z
      BY <1>1, <1>7, <2>1, PlacesNext
    <2> QED  BY <1>1, <2>1, <2>2
  <1>17. TypeOK'
    <2>1. down' \subseteq Pdu /\ up' \subseteq Status
      BY <1>2, <1>3 DEF RlcInv, TypeOK
    <2>2. /\ bigEnough' \in BOOLEAN /\ accepted' \in 0 .. MaxSdus
          /\ taken' <= accepted' * SduSize
      BY <1>2 DEF RlcInv, TypeOK, Contiguous
    <2>3. /\ pollSn' \in SN /\ pollTimer' \in BOOLEAN /\ justExpired' \in BOOLEAN
      BY <1>2 DEF RlcInv, TypeOK, StillPolling
    <2>4. /\ vrR' \in SN /\ vrMs' \in SN /\ vrX' \in SN /\ vrH' \in SN
          /\ rxon' \in [SN -> [data : Seq(Nat), complete : BOOLEAN]]
          /\ reordering' \in BOOLEAN /\ statusRequested' \in BOOLEAN
          /\ statusReported' \in BOOLEAN /\ prohibit' \in BOOLEAN
          /\ kept' \in Seq(Nat) /\ delivered' \in Seq(Seq(Nat))
      BY <1>2 DEF RlcInv, TypeOK, rxVars
    <2> QED  BY <1>15, <2>1, <2>2, <2>3, <2>4, TypeFrom
  <1>18. WindowOrder'
    <2>1. sent' = sent /\ reordering' = reordering
      BY <1>2 DEF rxVars
    <2>2. 0 <= f /\ sent <= f + WindowSize
      BY <1>1, <1>7, ModulusPositive
    <2> QED  BY <1>1, <1>16, <2>1, <2>2 DEF WindowOrder
  <1>19. ReceptionBuffer'
    BY <1>2, <1>16 DEF RlcInv, ReceptionBuffer, Dist, rxVars
  <1>20. InTime'
    BY <1>2 DEF RlcInv, InTime
  <1>21. \A n \in nR .. sent : FirstChunk(n)' = FirstChunk(n)
    <2> SUFFICES ASSUME NEW n \in nR .. sent PROVE FirstChunk(n)' = FirstChunk(n)
      OBVIOUS
    <2>1. CASE n = sent
      BY <1>2, <2>1 DEF FirstChunk
    <2>2. CASE n # sent
      <3>1. n \in nR .. sent - 1
        BY <1>1, <2>2
      <3> QED  BY <1>2, <1>14, <2>2, <3>1 DEF FirstChunk
    <2> QED  BY <2>1, <2>2
  <1>22. Contiguous'
    <2>1. ASSUME NEW n \in nR .. sent - 1
          PROVE  /\ Len(Whole(n)') > 0
                 /\ Whole(n)' = ChunksFrom(FirstChunk(n)', Len(Whole(n)'))
                 /\ FirstChunk(n + 1)' = FirstChunk(n)' + Len(Whole(n)')
      <3>1. n \in nR .. sent /\ n + 1 \in nR .. sent
        BY <1>1
      <3> QED  BY <1>14, <1>21, <3>1 DEF RlcInv, Contiguous
    <2>2. FirstChunk(nR)' = Len(delivered') * SduSize + Len(kept')
      <3>1. PICK r \in Nat : r = nR
        BY <1>1
      <3>2. r \in nR .. sent
        BY <1>1, <3>1
      <3>3. FirstChunk(r)' = Len(delivered) * SduSize + Len(kept)
        BY <1>21, <3>1, <3>2 DEF RlcInv, Contiguous
      <3>4. FirstChunk(nR)' = FirstChunk(r)'
        BY <1>16, <3>1 DEF FirstChunk, Whole, Copy, At
      <3> QED  BY <1>2, <3>3, <3>4 DEF rxVars
    <2>3. taken' <= accepted' * SduSize
      BY <1>2 DEF RlcInv, Contiguous
    <2>4. nR' .. sent' - 1 = nR .. sent - 1
      BY <1>2, <1>16
    <2> QED  BY <2>1, <2>2, <2>3, <2>4 DEF Contiguous, ChunksFrom
  <1>23. CopiesAgree'
    <2>1. ASSUME NEW n \in nR .. sent - 1
          PROVE  /\ Copy(At(n))' # <<>> => Copy(At(n))' = Whole(n)'
                 /\ LET part == rxon'[At(n)].data IN
                      /\ Len(part) <= Len(Whole(n)')
                      /\ part = SubSeq(Whole(n)', 1, Len(part))
      <3>1. n \in Nat
        BY <1>1
      <3> QED  BY <1>2, <1>12, <1>14, <3>1 DEF RlcInv, CopiesAgree, rxVars
    <2>2. ASSUME NEW q \in down', q.n >= nR PROVE Faithful(q)'
      <3>1. q \in down
        BY <1>2
      <3>2. q.n \in nR .. sent - 1
        <4>1. q.n \in Nat
          BY <3>1 DEF RlcInv, TypeOK, Pdu
        <4>2. q.n < sent
          BY <3>1 DEF RlcInv, InTime
        <4> QED  BY <1>1, <2>2, <4>1, <4>2
      <3> QED  BY <1>14, <2>2, <3>1, <3>2 DEF RlcInv, CopiesAgree, Faithful
    <2>3. nR' .. sent' - 1 = nR .. sent - 1 /\ nR' = nR
      BY <1>2, <1>16
    <2>4. \A s \in SN : retxSeg'[s] # 0 => retxSeg'[s] < Len(retx'[s])
      BY <1>8, <1>10 DEF RlcInv, CopiesAgree
    <2> QED  BY <2>1, <2>2, <2>3, <2>4 DEF CopiesAgree, Faithful, At
  <1>24. DeliveredSoFar'
    BY <1>2 DEF RlcInv, DeliveredSoFar, Intact, ChunksFrom, rxVars
  <1>25. OldestKept'
    <2>1. f < sent => Copy(At(f))' # <<>>
      BY <1>6, <1>7, <1>9, <1>12
    <2>2. Copy(vtA)' = Copy(At(f))'
      BY <1>9 DEF Copy, At
    <2> QED  BY <1>2, <1>16, <2>1, <2>2 DEF OldestKept
  <1>26. StatusTrue'
    BY <1>3 DEF StatusTrue
  <1>27. PollsLast'
    BY <1>2 DEF RlcInv, PollsLast, At
  <1>28. WillPoll'
    <2> SUFFICES ASSUME bigEnough'
                 PROVE  /\ \A s \in SN : retxSeg'[s] = 0
                        /\ ~pollTimer' /\ ~justExpired' =>
                             \/ txon' > 0 /\ InTransmittingWindow'
                             \/ \A i \in f .. sent - 1 : txed'[At(i)] = <<>>
                             \/ \E q \in f .. sent - 1 :
                                  /\ retx'[At(q)] # <<>>
                                  /\ \A i \in f .. sent - 1 :
                                       txed'[At(i)] # <<>> => i < q
      BY <1>2, <1>16 DEF WillPoll, At
    <2>1. \A s \in SN : retxSeg[s] = 0 /\ retxSeg'[s] = 0
      BY <1>2, <1>10 DEF RlcInv, WillPoll
    <2>2. ASSUME ~pollTimer', ~justExpired'
          PROVE  \/ txon' > 0 /\ InTransmittingWindow'
                 \/ \A i \in f .. sent - 1 : txed'[At(i)] = <<>>
                 \/ \E q \in f .. sent - 1 :
                      /\ retx'[At(q)] # <<>>
                      /\ \A i \in f .. sent - 1 : txed'[At(i)] # <<>> => i < q
      <3>1. \A i \in nA .. sent - 1 :
              /\ i < k => txed'[At(i)] = <<>>
              /\ txed'[At(i)] # <<>> => txed[At(i)] # <<>>
              /\ ~(i < k) => retx'[At(i)] = retx[At(i)]
        <4> SUFFICES ASSUME NEW i \in nA .. sent - 1
                     PROVE  /\ i < k => txed'[At(i)] = <<>>
                            /\ txed'[At(i)] # <<>> => txed[At(i)] # <<>>
                            /\ ~(i < k) => retx'[At(i)] = retx[At(i)]
          OBVIOUS
        <4>1. At(i) \in SN /\ (At(i) \in covered <=> i < k)
          <5>1. i \in nA .. sent /\ i \in Nat
            BY <1>1
          <5> QED  BY <1>4, <1>7, <5>1, AtType
        <4> QED  BY <1>8, <1>10, <4>1
      <3>2. f .. sent - 1 \subseteq nA .. sent - 1
        BY <1>1, <1>7
      <3>3. CASE ~pollTimer
        <4>1. \/ txon > 0 /\ InTransmittingWindow
              \/ \A i \in nA .. sent - 1 : txed[At(i)] = <<>>
              \/ \E q \in nA .. sent - 1 :
                   /\ retx[At(q)] # <<>>
                   /\ \A i \in nA .. sent - 1 : txed[At(i)] # <<>> => i < q
          BY <1>2, <2>2, <3>3 DEF RlcInv, WillPoll
        <4>2. CASE txon > 0 /\ InTransmittingWindow
          <5>1. txon' = txon /\ vtS' = vtS
            BY <1>2 DEF txon, vtS
          <5>2. Dist(At(nA), At(sent)) = sent - nA /\ sent - nA < WindowSize
            <6>1. Dist(At(nA), At(sent)) = sent - nA
              BY <1>1, AtDist
            <6> QED  BY <1>1, <4>2, <6>1 DEF InTransmittingWindow
          <5>3. Dist(At(f), At(sent)) = sent - f
            <6>1. f \in Int /\ f <= sent /\ sent < f + Modulus
              BY <1>1, <1>7, ModulusPositive
            <6> QED  BY <1>1, <6>1, AtDist
          <5>4. sent - f < WindowSize
            BY <1>1, <1>7, <5>2, ModulusPositive
          <5>5. InTransmittingWindow' = (Dist(vtA', vtS') < WindowSize)
            BY DEF InTransmittingWindow, Dist
          <5> QED  BY <1>1, <1>9, <4>2, <5>1, <5>3, <5>4, <5>5
        <4>3. CASE \A i \in nA .. sent - 1 : txed[At(i)] = <<>>
          BY <3>1, <3>2, <4>3
        <4>4. ASSUME NEW q \in nA .. sent - 1, retx[At(q)] # <<>>,
                     \A i \in nA .. sent - 1 : txed[At(i)] # <<>> => i < q
              PROVE  \/ \A i \in f .. sent - 1 : txed'[At(i)] = <<>>
                     \/ \E r \in f .. sent - 1 :
                          /\ retx'[At(r)] # <<>>
                          /\ \A i \in f .. sent - 1 : txed'[At(i)] # <<>> => i < r
          <5>1. CASE q < k
            <6>1. \A i \in f .. sent - 1 : txed'[At(i)] = <<>>
              <7> SUFFICES ASSUME NEW i \in f .. sent - 1, txed'[At(i)] # <<>>
                           PROVE  FALSE
                OBVIOUS
              <7>1. i \in nA .. sent - 1
                BY <3>2
              <7>2. i < q
                BY <3>1, <4>4, <7>1
              <7>3. i < k
                BY <1>1, <1>7, <5>1, <7>1, <7>2
              <7> QED  BY <3>1, <7>1, <7>3
            <6> QED  BY <6>1
          <5>2. CASE ~(q < k)
            <6>1. q \in f .. sent - 1
              BY <1>1, <1>7, <5>2
            <6>2. retx'[At(q)] # <<>>
              BY <3>1, <4>4, <5>2
            <6>3. \A i \in f .. sent - 1 : txed'[At(i)] # <<>> => i < q
              BY <3>1, <3>2, <4>4
            <6> QED  BY <6>1, <6>2, <6>3
          <5> QED  BY <5>1, <5>2
        <4> QED  BY <4>1, <4>2, <4>3, <4>4
      <3>4. CASE pollTimer
        <4>1. pollSn \in covered
          BY <1>2, <2>2, <3>4 DEF StillPolling
        <4>2. CASE sent > nA
          <5>1. sent > 0 /\ sent - 1 \in nA .. sent
            BY <1>1, <4>2
          <5>2. pollSn = At(sent - 1)
            BY <5>1 DEF RlcInv, PollsLast
          <5>3. sent - 1 < k
            BY <1>4, <1>7, <4>1, <5>1, <5>2
          <5>4. \A i \in f .. sent - 1 : i < k
            BY <1>1, <1>7, <5>3
          <5> QED  BY <3>1, <3>2, <5>4
        <4>3. CASE ~(sent > nA)
          <5>1. f .. sent - 1 = {}
            BY <1>1, <1>7, <4>3
          <5> QED  BY <5>1
        <4> QED  BY <4>2, <4>3
      <3> QED  BY <3>3, <3>4
    <2> QED  BY <2>1, <2>2
  <1> QED
    BY <1>15, <1>17, <1>18, <1>19, <1>20, <1>22, <1>23, <1>24, <1>25, <1>26, <1>27,
       <1>28 DEF RlcInv, SenderInv

-----------------------------------------------------------------------------
(* Reassembly.                                                             *)

(* A slice of a run of chunks. *)
LEMMA SliceOfChunks ==
  ASSUME NEW c \in Nat, NEW b \in Nat, NEW o \in Nat, NEW k \in Nat, o + k <= b
  PROVE  SubSeq(ChunksFrom(c, b), o + 1, o + k) = ChunksFrom(c + o, k)
  <1> DEFINE d == ChunksFrom(c, b)
             e == ChunksFrom(c + o, k)
  <1>1. /\ d \in Seq(Nat) /\ Len(d) = b
        /\ \A i \in 1 .. b : d[i] = c + i - 1
    BY ChunksFromIs
  <1>2. /\ e \in Seq(Nat) /\ Len(e) = k
        /\ \A i \in 1 .. k : e[i] = c + o + i - 1
    <2>1. c + o \in Nat
      OBVIOUS
    <2> QED  BY <2>1, ChunksFromIs
  <1> HIDE DEF d, e
  <1>3. SubSeq(d, o + 1, o + k) = [i \in 1 .. k |-> d[o + i]]
    <2>1. SubSeq(d, o + 1, o + k) = [i \in 1 .. (o + k) - o |-> d[o + i]]
      BY <1>1
    <2>2. (o + k) - o = k
      OBVIOUS
    <2> QED  BY <2>1, <2>2
  <1>4. \A i \in 1 .. k : d[o + i] = e[i]
    <2> SUFFICES ASSUME NEW i \in 1 .. k PROVE d[o + i] = e[i]
      OBVIOUS
    <2>1. o + i \in 1 .. b
      OBVIOUS
    <2>2. d[o + i] = c + (o + i) - 1 /\ e[i] = c + o + i - 1
      BY <1>1, <1>2, <2>1
    <2> QED  BY <2>2
  <1>5. e = [i \in 1 .. k |-> e[i]]
    BY <1>2
  <1>6. [i \in 1 .. k |-> d[o + i]] = [i \in 1 .. k |-> e[i]]
    BY <1>4
  <1> QED  BY <1>3, <1>5, <1>6 DEF d, e

(* Two sequences one after the other. *)
LEMMA Concatenation ==
  ASSUME NEW T, NEW d \in Seq(T), NEW e \in Seq(T)
  PROVE  /\ d \o e \in Seq(T)
         /\ Len(d \o e) = Len(d) + Len(e)
         /\ \A i \in 1 .. Len(d) + Len(e) :
              (d \o e)[i] = IF i <= Len(d) THEN d[i] ELSE e[i - Len(d)]
  <1>1. d \o e \in Seq(T)
    OBVIOUS
  <1>2. Len(d \o e) = Len(d) + Len(e)
    OBVIOUS
  <1>3. \A i \in 1 .. Len(d) + Len(e) :
          (d \o e)[i] = IF i <= Len(d) THEN d[i] ELSE e[i - Len(d)]
    OBVIOUS
  <1> QED  BY <1>1, <1>2, <1>3

(* Two runs of chunks that follow on. *)
LEMMA ConcatChunks ==
  ASSUME NEW c \in Nat, NEW a \in Nat, NEW b \in Nat
  PROVE  ChunksFrom(c, a) \o ChunksFrom(c + a, b) = ChunksFrom(c, a + b)
  <1> DEFINE d == ChunksFrom(c, a)
             e == ChunksFrom(c + a, b)
             g == ChunksFrom(c, a + b)
  <1>1. /\ d \in Seq(Nat) /\ Len(d) = a
        /\ \A i \in 1 .. a : d[i] = c + i - 1
    BY ChunksFromIs
  <1>2. /\ e \in Seq(Nat) /\ Len(e) = b
        /\ \A i \in 1 .. b : e[i] = c + a + i - 1
    <2>1. c + a \in Nat
      OBVIOUS
    <2> QED  BY <2>1, ChunksFromIs
  <1>3. /\ g \in Seq(Nat) /\ Len(g) = a + b
        /\ \A i \in 1 .. a + b : g[i] = c + i - 1
    <2>1. a + b \in Nat
      OBVIOUS
    <2> QED  BY <2>1, ChunksFromIs
  <1> HIDE DEF d, e, g
  <1>4. /\ d \o e \in Seq(Nat) /\ Len(d \o e) = a + b
        /\ \A i \in 1 .. a + b : (d \o e)[i] = IF i <= a THEN d[i] ELSE e[i - a]
    <2>1. Len(d) \in Nat /\ Len(e) \in Nat /\ Len(d) + Len(e) = a + b
      BY <1>1, <1>2
    <2>2. /\ d \o e \in Seq(Nat) /\ Len(d \o e) = Len(d) + Len(e)
          /\ \A i \in 1 .. Len(d) + Len(e) :
               (d \o e)[i] = IF i <= Len(d) THEN d[i] ELSE e[i - Len(d)]
      <3>1. d \in Seq(Nat) /\ e \in Seq(Nat)
        BY <1>1, <1>2
      <3> QED  BY <3>1, Concatenation
    <2> QED  BY <1>1, <1>2, <2>1, <2>2
  <1>5. \A i \in 1 .. a + b : (d \o e)[i] = g[i]
    <2> SUFFICES ASSUME NEW i \in 1 .. a + b PROVE (d \o e)[i] = g[i]
      OBVIOUS
    <2>1. CASE i <= a
      <3>1. i \in 1 .. a
        BY <2>1
      <3> QED  BY <1>1, <1>3, <1>4, <3>1
    <2>2. CASE ~(i <= a)
      <3>1. i - a \in 1 .. b
        BY <2>2
      <3>2. e[i - a] = c + a + (i - a) - 1 /\ g[i] = c + i - 1
        BY <1>2, <1>3, <3>1
      <3>3. c + a + (i - a) - 1 = c + i - 1
        OBVIOUS
      <3> QED  BY <1>4, <2>2, <3>2, <3>3
    <2> QED  BY <2>1, <2>2
  <1>6. d \o e = g
    <2> DEFINE h == d \o e
    <2>1. h \in Seq(Nat) /\ Len(h) = a + b /\ \A i \in 1 .. a + b : h[i] = g[i]
      BY <1>4, <1>5
    <2> HIDE DEF h
    <2>2. h = [i \in 1 .. a + b |-> h[i]] /\ g = [i \in 1 .. a + b |-> g[i]]
      BY <1>3, <2>1
    <2>3. [i \in 1 .. a + b |-> h[i]] = [i \in 1 .. a + b |-> g[i]]
      BY <2>1
    <2> QED  BY <2>2, <2>3 DEF h
  <1> QED  BY <1>6 DEF d, e, g

(* Whole SDUs in a number of chunks. *)
LEMMA Division ==
  ASSUME NEW b \in Nat
  PROVE  /\ b \div SduSize \in Nat
         /\ (b \div SduSize) * SduSize \in Nat
         /\ (b \div SduSize) * SduSize <= b
         /\ b < (b \div SduSize) * SduSize + SduSize
  <1>1. SduSize \in Nat /\ SduSize > 0
    BY SizeAssumption
  <1>2. /\ b = SduSize * (b \div SduSize) + (b % SduSize)
        /\ b % SduSize \in 0 .. SduSize - 1 /\ b \div SduSize \in Int
    BY <1>1
  <1> DEFINE q == b \div SduSize
             r == b % SduSize
  <1>3. q \in Nat
    <2>1. CASE q < 0
      <3>1. SduSize * q <= -SduSize
        <4> HIDE DEF q
        <4>1. q <= -1 /\ q \in Int
          BY <1>2, <2>1 DEF q
        <4>2. -q - 1 \in Nat
          BY <4>1
        <4>3. SduSize * (-q - 1) \in Nat
          <5> DEFINE z == -q - 1
          <5>1. z \in Nat
            BY <4>2
          <5> HIDE DEF z
          <5>2. SduSize * z \in Nat
            BY <1>1, <5>1
          <5> QED  BY <5>2 DEF z
        <4>4. SduSize * (-q - 1) = -(SduSize * q) - SduSize
          BY <1>1, <4>1
        <4>5. SduSize * q \in Int
          BY <1>1, <4>1
        <4> QED  BY <1>1, <4>3, <4>4, <4>5
      <3> DEFINE y == SduSize * q
      <3>2. b = y + r /\ r \in 0 .. SduSize - 1 /\ y <= -SduSize /\ y \in Int
        BY <1>1, <1>2, <3>1
      <3> HIDE DEF y, r, q
      <3> QED  BY <1>1, <3>2
    <2> QED  BY <1>2, <2>1
  <1>4. q * SduSize = SduSize * q /\ q * SduSize \in Nat
    <2> HIDE DEF q
    <2> QED  BY <1>1, <1>3
  <1> DEFINE y == q * SduSize
  <1>5. b = y + r /\ r \in 0 .. SduSize - 1 /\ y \in Nat
    BY <1>2, <1>4
  <1>6. y <= b /\ b < y + SduSize
    <2> HIDE DEF y, r
    <2> QED  BY <1>1, <1>5
  <1> QED  BY <1>3, <1>4, <1>6

(* Reassembly of the chunks that follow on what was kept. *)
LEMMA ReassembleIs ==
  ASSUME RlcInv, NEW l \in Nat, Reassemble(ChunksFrom(FirstChunk(nR), l))
  PROVE  /\ DeliveredSoFar'
         /\ kept' \in Seq(Nat) /\ delivered' \in Seq(Seq(Nat))
         /\ Len(delivered') * SduSize + Len(kept') = FirstChunk(nR) + l
         /\ Len(delivered) <= Len(delivered')
  <1> DEFINE D == Len(delivered)
             K == Len(kept)
             x == D * SduSize
             b == K + l
             full == b \div SduSize
             y == full * SduSize
  <1>1. /\ kept \in Seq(Nat) /\ delivered \in Seq(Seq(Nat))
        /\ D \in Nat /\ K \in Nat
        /\ kept = ChunksFrom(x, K) /\ FirstChunk(nR) = x + K
        /\ \A i \in DOMAIN delivered :
             delivered[i] = ChunksFrom((i - 1) * SduSize, SduSize)
    <2>1. kept \in Seq(Nat) /\ delivered \in Seq(Seq(Nat))
      BY DEF RlcInv, TypeOK
    <2>2. D \in Nat /\ K \in Nat
      BY <2>1
    <2>3. kept = ChunksFrom(x, K) /\ FirstChunk(nR) = x + K
      BY DEF RlcInv, DeliveredSoFar, Contiguous
    <2>4. \A i \in DOMAIN delivered :
            delivered[i] = ChunksFrom((i - 1) * SduSize, SduSize)
      BY DEF RlcInv, DeliveredSoFar, Intact, ChunksFrom
    <2> QED  BY <2>1, <2>2, <2>3, <2>4
  <1> DEFINE bytes == kept \o ChunksFrom(FirstChunk(nR), l)
             fresh == [i \in 1 .. full |->
                         SubSeq(bytes, (i - 1) * SduSize + 1, i * SduSize)]
  <1>2. SduSize \in Nat /\ SduSize > 0 /\ x \in Nat
    <2>1. SduSize \in Nat \ {0}
      BY SizeAssumption
    <2> HIDE DEF D
    <2>2. x \in Nat
      BY <1>1, SduTimes
    <2> QED  BY <2>1, <2>2
  <1> HIDE DEF D, K
  <1>3. bytes = ChunksFrom(x, b) /\ b \in Nat
    <2> HIDE DEF x
    <2>1. ChunksFrom(x, K) \o ChunksFrom(x + K, l) = ChunksFrom(x, K + l)
      BY <1>1, <1>2, ConcatChunks
    <2>2. bytes = ChunksFrom(x, K) \o ChunksFrom(x + K, l)
      BY <1>1
    <2> QED  BY <1>1, <2>1, <2>2
  <1>4. full \in Nat /\ y \in Nat /\ y <= b /\ b < y + SduSize
    <2> HIDE DEF b
    <2> QED  BY <1>3, Division
  <1>5. bytes \in Seq(Nat) /\ Len(bytes) = b
    <2> HIDE DEF bytes, x, b
    <2> QED  BY <1>2, <1>3, ChunksFromIs
  <1>6. /\ delivered' = delivered \o fresh
        /\ kept' = SubSeq(bytes, y + 1, Len(bytes))
    <2>1. Len(kept \o ChunksFrom(FirstChunk(nR), l)) \div SduSize = full
      BY <1>5
    <2> QED  BY <2>1 DEF Reassemble
  <1> HIDE DEF x, b, bytes, full
  <1>7. \A i \in 1 .. full :
          SubSeq(bytes, (i - 1) * SduSize + 1, i * SduSize) =
            ChunksFrom((D + i - 1) * SduSize, SduSize)
    <2> SUFFICES ASSUME NEW i \in 1 .. full
                 PROVE  SubSeq(bytes, (i - 1) * SduSize + 1, i * SduSize) =
                          ChunksFrom((D + i - 1) * SduSize, SduSize)
      OBVIOUS
    <2> DEFINE j == i - 1
               o == j * SduSize
    <2>1. j \in Nat /\ i \in Nat /\ i = j + 1 /\ i <= full
      BY <1>4
    <2> HIDE DEF j
    <2>2. /\ o \in Nat /\ i * SduSize = o + 1 * SduSize
          /\ i * SduSize <= y
          /\ (D + j) * SduSize = x + o
      <3>1. o \in Nat /\ (j + 1) * SduSize = o + 1 * SduSize
        BY <2>1, SduTimes
      <3>2. i * SduSize <= y
        BY <1>4, <2>1, SduTimes
      <3>3. (D + j) * SduSize = x + o
        BY <1>1, <2>1, SduTimes DEF x
      <3> QED  BY <2>1, <3>1, <3>2, <3>3
    <2>3. i * SduSize = o + SduSize
      <3>1. 1 * SduSize = SduSize
        BY <1>2
      <3> QED  BY <2>2, <3>1
    <2>4. D + i - 1 = D + j
      BY <1>1, <2>1
    <2> HIDE DEF o
    <2>5. o + SduSize <= b
      <3> HIDE DEF y
      <3> DEFINE z == i * SduSize
      <3>1. z = o + SduSize /\ z <= y
        BY <2>2, <2>3
      <3> HIDE DEF z
      <3> QED  BY <1>2, <1>3, <1>4, <2>2, <3>1
    <2>6. SubSeq(bytes, o + 1, o + SduSize) = ChunksFrom(x + o, SduSize)
      BY <1>2, <1>3, <2>2, <2>5, SliceOfChunks
    <2> QED  BY <2>2, <2>3, <2>4, <2>6 DEF j, o
  <1>8. fresh \in Seq(Seq(Nat)) /\ Len(fresh) = full
        /\ \A i \in 1 .. full :
             fresh[i] = ChunksFrom((D + i - 1) * SduSize, SduSize)
    <2>1. \A i \in 1 .. full : ChunksFrom((D + i - 1) * SduSize, SduSize) \in Seq(Nat)
      <3> SUFFICES ASSUME NEW i \in 1 .. full
                   PROVE  ChunksFrom((D + i - 1) * SduSize, SduSize) \in Seq(Nat)
        OBVIOUS
      <3>1. D + i - 1 \in Nat
        BY <1>1, <1>4
      <3>2. (D + i - 1) * SduSize \in Nat
        BY <3>1, SduTimes
      <3> QED  BY <1>2, <3>2, ChunksFromIs
    <2>2. \A i \in 1 .. full :
            SubSeq(bytes, (i - 1) * SduSize + 1, i * SduSize) \in Seq(Nat)
      BY <1>7, <2>1
    <2>3. fresh \in [1 .. full -> Seq(Nat)]
      BY <2>2
    <2>4. fresh \in Seq(Seq(Nat)) /\ Len(fresh) = full
      <3> HIDE DEF fresh
      <3> QED  BY <1>4, <2>3
    <2>5. \A i \in 1 .. full :
            fresh[i] = SubSeq(bytes, (i - 1) * SduSize + 1, i * SduSize)
      OBVIOUS
    <2> QED  BY <1>7, <2>4, <2>5
  <1> HIDE DEF fresh
  <1>9. /\ delivered' \in Seq(Seq(Nat)) /\ Len(delivered') = D + full
        /\ \A i \in 1 .. D + full :
             delivered'[i] = IF i <= D THEN delivered[i] ELSE fresh[i - D]
    BY <1>1, <1>6, <1>8, Concatenation DEF D
  <1>10. kept' = ChunksFrom(x + y, b - y) /\ b - y \in Nat
    <2> HIDE DEF y
    <2>1. y + (b - y) = b /\ b - y \in Nat
      BY <1>3, <1>4
    <2>2. y + (b - y) <= b
      BY <1>3, <2>1
    <2>3. SubSeq(bytes, y + 1, y + (b - y)) = ChunksFrom(x + y, b - y)
      BY <1>2, <1>3, <1>4, <2>1, <2>2, SliceOfChunks
    <2> QED  BY <1>5, <1>6, <2>1, <2>3
  <1>11. kept' \in Seq(Nat) /\ Len(kept') = b - y
    <2> HIDE DEF y
    <2>1. x + y \in Nat
      BY <1>2, <1>4
    <2> QED  BY <1>10, <2>1, ChunksFromIs
  <1>12. (D + full) * SduSize = x + y
    BY <1>1, <1>4, SduTimes DEF x
  <1>13. Intact'
    <2>1. DOMAIN delivered' = 1 .. D + full /\ DOMAIN delivered = 1 .. D
      BY <1>1, <1>9 DEF D
    <2>2. ASSUME NEW i \in 1 .. D + full
          PROVE  delivered'[i] = ChunksFrom((i - 1) * SduSize, SduSize)
      <3>1. CASE i <= D
        <4>1. i \in 1 .. D
          BY <1>1, <3>1
        <4> QED  BY <1>1, <1>9, <2>1, <3>1, <4>1
      <3>2. CASE ~(i <= D)
        <4>1. i - D \in 1 .. full /\ D + (i - D) - 1 = i - 1
          BY <1>1, <1>4, <3>2
        <4> QED  BY <1>8, <1>9, <3>2, <4>1
      <3> QED  BY <3>1, <3>2
    <2> QED  BY <2>1, <2>2 DEF Intact, ChunksFrom
  <1>14. DeliveredSoFar'
    <2>1. Len(kept') < SduSize
      <3> HIDE DEF y
      <3> QED  BY <1>2, <1>3, <1>4, <1>11
    <2>2. kept' = ChunksFrom(Len(delivered') * SduSize, Len(kept'))
      BY <1>9, <1>10, <1>11, <1>12
    <2> QED  BY <1>13, <2>1, <2>2 DEF DeliveredSoFar, ChunksFrom
  <1>15. Len(delivered') * SduSize + Len(kept') = FirstChunk(nR) + l
    <2>1. Len(delivered') * SduSize + Len(kept') = (x + y) + (b - y)
      BY <1>9, <1>11, <1>12
    <2>2. (x + y) + (b - y) = x + b
      <3> HIDE DEF y
      <3> QED  BY <1>2, <1>3, <1>4
    <2>3. x + b = FirstChunk(nR) + l
      BY <1>1, <1>2 DEF b
    <2> QED  BY <2>1, <2>2, <2>3
  <1>16. Len(delivered) <= Len(delivered')
    <2>1. D <= Len(delivered')
      BY <1>1, <1>4, <1>9
    <2> QED  BY <2>1 DEF D
  <1> QED  BY <1>9, <1>11, <1>14, <1>15, <1>16

(* The first chunks of the numbers ascend. *)
LEMMA FirstChunkGrows ==
  ASSUME RlcInv, NEW n \in nR .. sent
  PROVE  FirstChunk(n) \in Nat /\ FirstChunk(nR) \in Nat
         /\ FirstChunk(nR) <= FirstChunk(n)
  <1>1. nR \in Nat /\ sent \in Nat /\ nR <= sent
    <2>1. nR \in Nat /\ sent \in Nat /\ nH \in Nat /\ nMs \in Nat
          /\ nR <= nMs /\ nMs <= nH /\ nH <= sent
      BY Places
    <2> QED  BY <2>1
  <1>2. ASSUME NEW i \in nR .. sent PROVE FirstChunk(i) \in Nat
    <2>1. CASE i = sent
      BY <2>1, RlcSender DEF FirstChunk, SenderInv, SenderType
    <2>2. CASE i # sent
      <3>1. i \in nR .. sent - 1
        BY <1>1, <2>2
      <3> QED  BY <3>1, WholeIs
    <2> QED  BY <2>1, <2>2
  <1> DEFINE Wrong == {i \in nR .. sent : ~(FirstChunk(nR) <= FirstChunk(i))}
  <1>3. Wrong = {}
    <2> SUFFICES ASSUME Wrong # {} PROVE FALSE
      OBVIOUS
    <2>1. Wrong \subseteq Nat
      BY <1>1
    <2>2. PICK i \in Wrong : \A j \in Wrong : i <= j
      <3> HIDE DEF Wrong
      <3> QED  BY <2>1, LeastNatural
    <2>3. i \in nR .. sent /\ ~(FirstChunk(nR) <= FirstChunk(i))
      OBVIOUS
    <2>4. \A j \in nR .. sent : ~(FirstChunk(nR) <= FirstChunk(j)) => i <= j
      BY <2>2
    <2> HIDE DEF Wrong
    <2>5. nR \in nR .. sent
      BY <1>1
    <2>6. i # nR
      BY <1>2, <2>3, <2>5
    <2>7. i - 1 \in nR .. sent - 1 /\ i - 1 \in nR .. sent /\ ~(i <= i - 1)
          /\ (i - 1) + 1 = i
      BY <1>1, <2>3, <2>6
    <2>8. FirstChunk(nR) <= FirstChunk(i - 1)
      BY <2>4, <2>7
    <2>9. /\ FirstChunk(i) = FirstChunk(i - 1) + Len(Whole(i - 1))
          /\ Len(Whole(i - 1)) \in Nat
      BY <2>7, WholeIs
    <2> QED  BY <1>2, <2>3, <2>5, <2>7, <2>8, <2>9
  <1>4. nR \in nR .. sent
    BY <1>1
  <1> QED  BY <1>2, <1>3, <1>4

(* A function that fits a recursive definition over 0 .. k. *)
LEMMA InSequenceUnique ==
  ASSUME NEW buffer, NEW k \in Nat, NEW g,
         g = [i \in 0 .. k |->
                IF i = 0 THEN <<>>
                ELSE g[i - 1] \o buffer[(vrR + i - 1) % Modulus].data]
  PROVE  InSequence(buffer, k) = g[k]
  <1> DEFINE fits(h) ==
        h = [i \in 0 .. k |->
               IF i = 0 THEN <<>>
               ELSE h[i - 1] \o buffer[(vrR + i - 1) % Modulus].data]
             u == CHOOSE h : fits(h)
  <1>1. fits(u)
    OBVIOUS
  <1>2. InSequence(buffer, k) = u[k]
    BY DEF InSequence
  <1>3. \A i \in 0 .. k :
          /\ u[i] = IF i = 0 THEN <<>>
                    ELSE u[i - 1] \o buffer[(vrR + i - 1) % Modulus].data
          /\ g[i] = IF i = 0 THEN <<>>
                    ELSE g[i - 1] \o buffer[(vrR + i - 1) % Modulus].data
    <2> HIDE DEF u
    <2> QED  BY <1>1
  <1> HIDE DEF u
  <1> DEFINE Differ == {i \in 0 .. k : u[i] # g[i]}
  <1>4. Differ = {}
    <2> SUFFICES ASSUME Differ # {} PROVE FALSE
      OBVIOUS
    <2>1. Differ \subseteq Nat
      OBVIOUS
    <2>2. PICK i \in Differ : \A j \in Differ : i <= j
      <3> HIDE DEF Differ
      <3> QED  BY <2>1, LeastNatural
    <2>3. i \in 0 .. k /\ u[i] # g[i]
      OBVIOUS
    <2>4. \A j \in 0 .. k : u[j] # g[j] => i <= j
      BY <2>2
    <2> HIDE DEF Differ
    <2>5. i # 0
      BY <1>3, <2>3
    <2>6. i - 1 \in 0 .. k /\ ~(i <= i - 1)
      BY <2>3, <2>5, SMTT(30)
    <2>7. u[i - 1] = g[i - 1]
      BY <2>4, <2>6
    <2> QED  BY <1>3, <2>3, <2>5, <2>7
  <1>5. k \in 0 .. k
    OBVIOUS
  <1> QED  BY <1>2, <1>4, <1>5

(* The data of the PDUs in sequence are the chunks they carry. *)
LEMMA InSequenceIs ==
  ASSUME RlcInv, NEW buffer, NEW r \in nR .. sent,
         \A i \in nR .. r - 1 : buffer[At(i)].data = Whole(i)
  PROVE  /\ FirstChunk(r) - FirstChunk(nR) \in Nat
         /\ InSequence(buffer, r - nR) =
              ChunksFrom(FirstChunk(nR), FirstChunk(r) - FirstChunk(nR))
  <1>1. nR \in Nat /\ sent \in Nat /\ vrR = At(nR)
    BY Places
  <1> DEFINE k == r - nR
             c == FirstChunk(nR)
             len(i) == FirstChunk(nR + i) - c
             g == [i \in 0 .. k |-> ChunksFrom(c, len(i))]
  <1>2. k \in Nat /\ r \in Nat /\ nR + k = r /\ r <= sent
    BY <1>1
  <1>3. \A i \in 0 .. k : nR + i \in nR .. sent
    BY <1>1, <1>2
  <1>4. c \in Nat /\ \A i \in 0 .. k : len(i) \in Nat
    <2>1. ASSUME NEW i \in 0 .. k PROVE c \in Nat /\ len(i) \in Nat
      <3>1. nR + i \in nR .. sent
        BY <1>3
      <3>2. FirstChunk(nR + i) \in Nat /\ c \in Nat /\ c <= FirstChunk(nR + i)
        BY <3>1, FirstChunkGrows
      <3> QED  BY <3>2
    <2>2. 0 \in 0 .. k
      BY <1>2
    <2> QED  BY <2>1, <2>2
  <1>5. ASSUME NEW i \in 0 .. k, i # 0
        PROVE  ChunksFrom(c, len(i)) =
                 ChunksFrom(c, len(i - 1)) \o buffer[(vrR + i - 1) % Modulus].data
    <2> DEFINE n == nR + i - 1
    <2>1. /\ n \in nR .. r - 1 /\ n \in nR .. sent - 1 /\ n + 1 = nR + i
          /\ n = nR + (i - 1) /\ i - 1 \in 0 .. k /\ n \in Int
      BY <1>1, <1>2, <1>5
    <2>2. (vrR + i - 1) % Modulus = At(n)
      <3>1. (At(nR) + (i - 1)) % Modulus = At(nR + (i - 1))
        BY <1>1, <2>1, AtPlus
      <3>2. vrR + i - 1 = At(nR) + (i - 1)
        <4>1. vrR \in SN
          BY DEF RlcInv, TypeOK
        <4>2. vrR \in Int
          BY <4>1, ModulusPositive DEF SN
        <4> DEFINE v == At(nR)
        <4>3. v = vrR
          BY <1>1
        <4> HIDE DEF v
        <4>4. vrR + i - 1 = v + (i - 1)
          BY <4>2, <4>3
        <4> QED  BY <4>4 DEF v
      <3> QED  BY <2>1, <3>1, <3>2
    <2> HIDE DEF n
    <2>3. buffer[At(n)].data = Whole(n)
      BY <2>1
    <2>4. /\ Whole(n) = ChunksFrom(FirstChunk(n), Len(Whole(n)))
          /\ Len(Whole(n)) \in Nat /\ FirstChunk(n) \in Nat
          /\ FirstChunk(n + 1) = FirstChunk(n) + Len(Whole(n))
      BY <2>1, WholeIs
    <2>5. /\ FirstChunk(n) = c + len(i - 1)
          /\ len(i) = len(i - 1) + Len(Whole(n))
      BY <1>4, <2>1, <2>4
    <2>6. len(i - 1) \in Nat /\ len(i) \in Nat
      BY <1>4, <2>1
    <2> HIDE DEF len, c
    <2>7. ChunksFrom(c, len(i - 1)) \o ChunksFrom(c + len(i - 1), Len(Whole(n))) =
            ChunksFrom(c, len(i - 1) + Len(Whole(n)))
      BY <1>4, <2>4, <2>6, ConcatChunks
    <2>8. Whole(n) = ChunksFrom(c + len(i - 1), Len(Whole(n)))
      BY <2>4, <2>5
    <2> QED  BY <2>2, <2>3, <2>5, <2>7, <2>8
  <1>6. ChunksFrom(c, len(0)) = <<>>
    <2>1. len(0) = 0
      <3>1. nR + 0 = nR
        BY <1>1
      <3> QED  BY <1>4, <3>1
    <2> HIDE DEF len, c
    <2> QED  BY <2>1 DEF ChunksFrom
  <1>7. g = [i \in 0 .. k |->
               IF i = 0 THEN <<>>
               ELSE g[i - 1] \o buffer[(vrR + i - 1) % Modulus].data]
    <2>1. \A i \in 0 .. k : g[i] = ChunksFrom(c, len(i))
      OBVIOUS
    <2>2. \A i \in 0 .. k : i # 0 => i - 1 \in 0 .. k
      BY <1>2
    <2>3. ASSUME NEW i \in 0 .. k
          PROVE  ChunksFrom(c, len(i)) =
                   IF i = 0 THEN <<>>
                   ELSE g[i - 1] \o buffer[(vrR + i - 1) % Modulus].data
      <3> HIDE DEF g, len, c
      <3>1. CASE i = 0
        BY <1>6, <3>1
      <3>2. CASE i # 0
        BY <1>5, <2>1, <2>2, <3>2
      <3> QED  BY <3>1, <3>2
    <2>4. g = [i \in 0 .. k |-> g[i]]
      OBVIOUS
    <2> HIDE DEF g, len, c, k
    <2> QED  BY <2>1, <2>3, <2>4
  <1>8. InSequence(buffer, k) = g[k]
    <2> HIDE DEF g
    <2> QED  BY <1>2, <1>7, InSequenceUnique
  <1>9. g[k] = ChunksFrom(c, len(k)) /\ k \in 0 .. k
    BY <1>2
  <1>10. len(k) = FirstChunk(r) - c
    BY <1>2
  <1> QED  BY <1>4, <1>8, <1>9, <1>10

-----------------------------------------------------------------------------
(* Data PDUs at the receiver.                                              *)

(* A part of a sequence and the part that follows it. *)
LEMMA NextPart ==
  ASSUME NEW d \in Seq(Nat), NEW o \in Nat, NEW k \in Nat, o + k <= Len(d)
  PROVE  /\ SubSeq(d, 1, o) \o SubSeq(d, o + 1, o + k) = SubSeq(d, 1, o + k)
         /\ SubSeq(d, 1, o + k) \in Seq(Nat) /\ Len(SubSeq(d, 1, o + k)) = o + k
  <1> DEFINE e == SubSeq(d, 1, o)
             g == SubSeq(d, o + 1, o + k)
             h == SubSeq(d, 1, o + k)
  <1>1. Len(d) \in Nat /\ o <= Len(d) /\ o + k \in Nat
    OBVIOUS
  <1>2. \A a, b \in Nat : a + b <= Len(d) =>
          /\ SubSeq(d, a + 1, a + b) \in Seq(Nat)
          /\ Len(SubSeq(d, a + 1, a + b)) = b
          /\ \A i \in 1 .. b : SubSeq(d, a + 1, a + b)[i] = d[a + i]
    <2> SUFFICES ASSUME NEW a \in Nat, NEW b \in Nat, a + b <= Len(d)
                 PROVE  /\ SubSeq(d, a + 1, a + b) \in Seq(Nat)
                        /\ Len(SubSeq(d, a + 1, a + b)) = b
                        /\ \A i \in 1 .. b : SubSeq(d, a + 1, a + b)[i] = d[a + i]
      OBVIOUS
    <2>1. SubSeq(d, a + 1, a + b) \in Seq(Nat) /\ Len(SubSeq(d, a + 1, a + b)) = b
      BY SubSubSeq
    <2>2. SubSeq(d, a + 1, a + b) = [i \in 1 .. (a + b) - a |-> d[a + i]]
      BY <1>1
    <2>3. (a + b) - a = b
      OBVIOUS
    <2>4. \A i \in 1 .. b : SubSeq(d, a + 1, a + b)[i] = d[a + i]
      BY <2>2, <2>3
    <2> QED  BY <2>1, <2>4
  <1>3. e \in Seq(Nat) /\ Len(e) = o /\ \A i \in 1 .. o : e[i] = d[i]
    <2>1. 0 \in Nat /\ 0 + 1 = 1 /\ 0 + o = o
      OBVIOUS
    <2>2. /\ SubSeq(d, 0 + 1, 0 + o) \in Seq(Nat) /\ Len(SubSeq(d, 0 + 1, 0 + o)) = o
          /\ \A i \in 1 .. o : SubSeq(d, 0 + 1, 0 + o)[i] = d[0 + i]
      BY <1>1, <1>2, <2>1
    <2> QED  BY <2>1, <2>2
  <1>4. g \in Seq(Nat) /\ Len(g) = k /\ \A i \in 1 .. k : g[i] = d[o + i]
    BY <1>1, <1>2
  <1>5. h \in Seq(Nat) /\ Len(h) = o + k /\ \A i \in 1 .. o + k : h[i] = d[i]
    <2>1. 0 \in Nat /\ 0 + 1 = 1 /\ 0 + (o + k) = o + k
      OBVIOUS
    <2>2. /\ SubSeq(d, 0 + 1, 0 + (o + k)) \in Seq(Nat)
          /\ Len(SubSeq(d, 0 + 1, 0 + (o + k))) = o + k
          /\ \A i \in 1 .. o + k : SubSeq(d, 0 + 1, 0 + (o + k))[i] = d[0 + i]
      BY <1>1, <1>2, <2>1
    <2> QED  BY <2>1, <2>2
  <1> HIDE DEF e, g, h
  <1>6. /\ e \o g \in Seq(Nat) /\ Len(e \o g) = o + k
        /\ \A i \in 1 .. o + k : (e \o g)[i] = IF i <= o THEN e[i] ELSE g[i - o]
    BY <1>3, <1>4, Concatenation, ZenonT(30)
  <1>7. \A i \in 1 .. o + k : (e \o g)[i] = h[i]
    <2> SUFFICES ASSUME NEW i \in 1 .. o + k PROVE (e \o g)[i] = h[i]
      OBVIOUS
    <2>1. CASE i <= o
      <3>1. i \in 1 .. o
        BY <2>1
      <3> QED  BY <1>3, <1>5, <1>6, <2>1, <3>1
    <2>2. CASE ~(i <= o)
      <3>1. i - o \in 1 .. k /\ o + (i - o) = i
        BY <2>2
      <3> QED  BY <1>4, <1>5, <1>6, <2>2, <3>1
    <2> QED  BY <2>1, <2>2
  <1>8. e \o g = h
    <2>1. e \o g = [i \in 1 .. o + k |-> (e \o g)[i]]
      <3> DEFINE q == e \o g
      <3>1. q \in Seq(Nat) /\ Len(q) = o + k
        BY <1>6
      <3> HIDE DEF q
      <3>2. q = [i \in 1 .. o + k |-> q[i]]
        BY <3>1
      <3> QED  BY <3>2 DEF q
    <2>2. h = [i \in 1 .. o + k |-> h[i]]
      BY <1>5
    <2>3. [i \in 1 .. o + k |-> (e \o g)[i]] = [i \in 1 .. o + k |-> h[i]]
      BY <1>7
    <2> QED  BY <2>1, <2>2, <2>3
  <1> QED  BY <1>5, <1>8 DEF e, g, h

(* What the reception buffer holds of a number is the first part of it. *)
PartOf(entry, w) ==
  /\ entry \in [data : Seq(Nat), complete : BOOLEAN]
  /\ Len(entry.data) <= Len(w) /\ entry.data = SubSeq(w, 1, Len(entry.data))
  /\ entry.complete => entry.data = w

(* What a PDU carries is a slice of it. *)
SliceOf(p, w) ==
  /\ p.off + Len(p.data) <= Len(w)
  /\ p.data = SubSeq(w, p.off + 1, p.off + Len(p.data))
  /\ p.last => p.off + Len(p.data) = Len(w)
  /\ ~p.seg => p.off = 0 /\ p.last

(* Storing a PDU keeps that true, and loses nothing that was complete. *)
LEMMA StoredIs ==
  ASSUME NEW w \in Seq(Nat), NEW e, PartOf(e, w), NEW p \in Pdu, SliceOf(p, w)
  PROVE  /\ PartOf(Stored(e, p), w)
         /\ e.complete => Stored(e, p).complete
  <1> DEFINE k == Len(p.data)
  <1>1. /\ p.data \in Seq(Nat) /\ k \in Nat /\ p.off \in Nat /\ Len(w) \in Nat
        /\ p.seg \in BOOLEAN /\ p.last \in BOOLEAN
    BY DEF Pdu
  <1>2. e.data \in Seq(Nat) /\ e.complete \in BOOLEAN /\ Len(e.data) \in Nat
    BY DEF PartOf
  <1>3. PartOf(Nothing, w)
    <2>1. <<>> \in Seq(Nat) /\ Len(<<>>) = 0 /\ SubSeq(w, 1, 0) = <<>>
      BY WholeSubSeq
    <2> QED  BY <1>1, <2>1 DEF PartOf, Nothing
  <1>4. SubSeq(w, 1, Len(w)) = w
    BY WholeSubSeq
  <1>5. CASE e = Nothing /\ p.off = 0
    <2> DEFINE f == [data |-> p.data, complete |-> ~p.seg]
    <2>1. Stored(e, p) = f
      BY <1>5 DEF Stored
    <2>2. f \in [data : Seq(Nat), complete : BOOLEAN] /\ f.data = p.data
          /\ f.complete = ~p.seg
      BY <1>1
    <2>3. 0 + 1 = 1 /\ 0 + k = k
      BY <1>1
    <2>4. p.data = SubSeq(w, 1, k) /\ k <= Len(w) /\ (~p.seg => k = Len(w))
      BY <1>5, <2>3 DEF SliceOf
    <2>5. ~p.seg => p.data = w
      BY <1>4, <2>4
    <2>6. ~e.complete
      BY <1>5 DEF Nothing
    <2> QED  BY <2>1, <2>2, <2>4, <2>5, <2>6 DEF PartOf
  <1>6. CASE e = Nothing /\ p.off # 0
    <2>1. Stored(e, p) = Nothing /\ ~e.complete
      BY <1>6 DEF Stored, Nothing
    <2> QED  BY <1>3, <2>1
  <1>7. CASE e # Nothing /\ p.seg /\ ~e.complete /\ p.off = Len(e.data)
    <2> DEFINE f == [data |-> e.data \o p.data, complete |-> p.last]
    <2>1. Stored(e, p) = f
      BY <1>7 DEF Stored
    <2>2. e.data = SubSeq(w, 1, p.off)
      BY <1>7 DEF PartOf
    <2>3. /\ e.data \o p.data = SubSeq(w, 1, p.off + k)
          /\ e.data \o p.data \in Seq(Nat) /\ Len(e.data \o p.data) = p.off + k
      <3>1. PICK o \in Nat, j \in Nat : o = p.off /\ j = k
        BY <1>1
      <3>2. p.data = SubSeq(w, o + 1, o + j) /\ o + j <= Len(w)
        BY <3>1 DEF SliceOf
      <3>3. /\ SubSeq(w, 1, o) \o SubSeq(w, o + 1, o + j) = SubSeq(w, 1, o + j)
            /\ SubSeq(w, 1, o + j) \in Seq(Nat) /\ Len(SubSeq(w, 1, o + j)) = o + j
        BY <3>2, NextPart
      <3>4. e.data = SubSeq(w, 1, o)
        BY <2>2, <3>1
      <3>5. /\ e.data \o p.data = SubSeq(w, 1, o + j)
            /\ e.data \o p.data \in Seq(Nat) /\ Len(e.data \o p.data) = o + j
        BY <3>2, <3>3, <3>4
      <3> QED  BY <3>1, <3>5
    <2>4. f \in [data : Seq(Nat), complete : BOOLEAN] /\ f.data = e.data \o p.data
          /\ f.complete = p.last
      BY <1>1, <2>3
    <2>5. p.off + k <= Len(w) /\ (p.last => p.off + k = Len(w))
      BY DEF SliceOf
    <2>6. p.last => e.data \o p.data = w
      BY <1>4, <2>3, <2>5
    <2> HIDE DEF k
    <2> QED  BY <1>7, <2>1, <2>3, <2>4, <2>5, <2>6 DEF PartOf
  <1>8. CASE e # Nothing /\ ~(p.seg /\ ~e.complete /\ p.off = Len(e.data))
    <2>1. Stored(e, p) = e \/ (Stored(e, p) = Nothing /\ ~e.complete)
      BY <1>8 DEF Stored
    <2> QED  BY <1>3, <2>1
  <1> QED  BY <1>5, <1>6, <1>7, <1>8

(* The reception buffer with a PDU that the receiver does not take for an old *)
(* one, and VR(H) behind it. *)
HighestWith(n) == IF n >= nH THEN n + 1 ELSE nH

LEMMA ReceptionIs ==
  ASSUME RlcInv, NEW p \in down, p.n >= nR, NEW buffer,
         buffer = [rxon EXCEPT ![At(p.n)] = Stored(@, p)]
  PROVE  /\ buffer \in [SN -> [data : Seq(Nat), complete : BOOLEAN]]
         /\ \A i \in nR .. sent - 1 :
              /\ PartOf(buffer[At(i)], Whole(i))
              /\ rxon[At(i)].complete => buffer[At(i)].complete
         /\ \A s \in SN : buffer[s] # Nothing => Ahead(nR, s) < HighestWith(p.n)
  <1>1. /\ nA \in Nat /\ nR \in Nat /\ nH \in Nat /\ sent \in Nat
        /\ nA <= nR /\ nR <= nH /\ nH <= sent /\ sent < nA + Modulus /\ vrR = At(nR)
    <2>1. /\ nA \in Nat /\ nR \in Nat /\ nMs \in Nat /\ nH \in Nat /\ sent \in Nat
          /\ nA <= nR /\ nR <= nMs /\ nMs <= nH /\ nH <= sent /\ sent < nA + Modulus
          /\ vrR = At(nR)
      BY Places
    <2> QED  BY <2>1
  <1>2. PICK n \in Nat : n = p.n
    BY DEF RlcInv, TypeOK, Pdu
  <1>3. n < sent /\ nR <= n /\ n \in nR .. sent - 1 /\ At(n) \in SN /\ p \in Pdu
    <2>1. n < sent /\ p \in Pdu
      BY <1>2 DEF RlcInv, InTime, TypeOK
    <2>2. n \in nR .. sent - 1 /\ nR <= n
      BY <1>1, <1>2, <2>1
    <2> QED  BY <2>1, <2>2, AtType
  <1>4. \A s \in SN : buffer[s] = IF s = At(n) THEN Stored(rxon[s], p) ELSE rxon[s]
    BY <1>2 DEF RlcInv, TypeOK
  <1>5. \A i \in nR .. sent - 1 : PartOf(rxon[At(i)], Whole(i)) /\ Whole(i) \in Seq(Nat)
    <2> SUFFICES ASSUME NEW i \in nR .. sent - 1
                 PROVE  PartOf(rxon[At(i)], Whole(i)) /\ Whole(i) \in Seq(Nat)
      OBVIOUS
    <2>1. At(i) \in SN
      BY <1>1, AtType
    <2>2. rxon[At(i)] \in [data : Seq(Nat), complete : BOOLEAN]
      BY <2>1 DEF RlcInv, TypeOK
    <2>3. /\ Len(rxon[At(i)].data) <= Len(Whole(i))
          /\ rxon[At(i)].data = SubSeq(Whole(i), 1, Len(rxon[At(i)].data))
      BY DEF RlcInv, CopiesAgree
    <2>4. rxon[At(i)].complete => rxon[At(i)].data = Whole(i)
      BY DEF Whole
    <2> QED  BY <2>2, <2>3, <2>4, WholeIs DEF PartOf
  <1>6. /\ PartOf(Stored(rxon[At(n)], p), Whole(n))
        /\ rxon[At(n)].complete => Stored(rxon[At(n)], p).complete
    <2>1. Faithful(p)
      BY <1>2, <1>3 DEF RlcInv, CopiesAgree, Faithful
    <2>2. PartOf(rxon[At(n)], Whole(n)) /\ Whole(n) \in Seq(Nat)
      BY <1>3, <1>5
    <2>3. SliceOf(p, Whole(n))
      BY <1>2, <2>1 DEF Faithful, SliceOf
    <2> QED  BY <1>3, <2>2, <2>3, StoredIs
  <1>7. \A i \in nR .. sent - 1 : At(i) \in SN /\ (At(i) = At(n) => i = n)
    <2> SUFFICES ASSUME NEW i \in nR .. sent - 1
                 PROVE  At(i) \in SN /\ (At(i) = At(n) => i = n)
      OBVIOUS
    <2>1. i \in Int /\ i < n + Modulus /\ n < i + Modulus
      BY <1>1, <1>3, ModulusPositive
    <2> QED  BY <2>1, AtType, AtSame
  <1>8. ASSUME NEW i \in nR .. sent - 1
        PROVE  /\ PartOf(buffer[At(i)], Whole(i))
               /\ rxon[At(i)].complete => buffer[At(i)].complete
    <2>1. CASE i = n
      BY <1>3, <1>4, <1>6, <2>1
    <2>2. CASE i # n
      <3>1. buffer[At(i)] = rxon[At(i)]
        BY <1>4, <1>7, <2>2
      <3> QED  BY <1>5, <3>1
    <2> QED  BY <2>1, <2>2
  <1>9. buffer \in [SN -> [data : Seq(Nat), complete : BOOLEAN]]
    <2>1. Stored(rxon[At(n)], p) \in [data : Seq(Nat), complete : BOOLEAN]
      BY <1>6 DEF PartOf
    <2> QED  BY <1>2, <2>1 DEF RlcInv, TypeOK
  <1>10. ASSUME NEW s \in SN, buffer[s] # Nothing
         PROVE  Ahead(nR, s) < HighestWith(n)
    <2>1. Ahead(nR, s) \in Int /\ Dist(vrR, s) = Ahead(nR, s) - nR
      BY <1>1, AheadIs
    <2>2. CASE s = At(n)
      <3>1. n < nR + Modulus
        BY <1>1, <1>3, ModulusPositive
      <3>2. Ahead(nR, s) = n
        BY <1>1, <1>3, <2>2, <3>1, AheadAt
      <3> QED  BY <1>1, <3>2 DEF HighestWith
    <2>3. CASE s # At(n)
      <3>1. rxon[s] # Nothing
        BY <1>4, <1>10, <2>3
      <3>2. Dist(vrR, s) < nH - nR
        BY <3>1 DEF RlcInv, ReceptionBuffer
      <3>3. Ahead(nR, s) < nH
        BY <1>1, <2>1, <3>2
      <3> QED  BY <1>1, <1>2, <2>1, <3>3 DEF HighestWith
    <2> QED  BY <2>2, <2>3
  <1> QED  BY <1>2, <1>8, <1>9, <1>10

(* VR(R) moves to R, VR(MS) to Q and VR(H) to T, with this in the buffer. *)
MovesUp(buffer, R, Q, T) ==
  /\ R <= Q /\ Q <= T /\ T <= sent /\ T \in Nat
  /\ vrR' = At(R) /\ vrMs' = At(Q) /\ vrH' = At(T)
  /\ \A i \in nR .. R - 1 : buffer[At(i)].complete
  /\ ~buffer[At(R)].complete /\ ~buffer[At(Q)].complete
  /\ rxon' = [s \in SN |-> IF Ahead(nR, s) < R THEN Nothing ELSE buffer[s]]
  /\ Reassemble(InSequence(buffer, R - nR))
  /\ UpdateReordering

(* The windows of the receiver move up to the next gaps. *)
LEMMA ReceptionMoves ==
  ASSUME RlcInv, NEW p \in down, p.n >= nR, ReceivePdu(p), NEW buffer,
         buffer = [rxon EXCEPT ![At(p.n)] = Stored(@, p)]
  PROVE  \E R, Q \in nR .. sent : MovesUp(buffer, R, Q, HighestWith(p.n))
  <1>1. /\ nA \in Nat /\ nR \in Nat /\ nMs \in Nat /\ nH \in Nat /\ sent \in Nat
        /\ nA <= nR /\ nR <= nMs /\ nMs <= nH /\ nH <= sent
        /\ sent <= nA + WindowSize /\ sent < nA + Modulus
        /\ vrR = At(nR) /\ vrMs = At(nMs) /\ vrH = At(nH)
    BY Places
  <1>2. PICK n \in Nat : n = p.n
    BY DEF RlcInv, TypeOK, Pdu
  <1>3. n < sent /\ nR <= n /\ sent + WindowSize <= n + Modulus /\ n < nR + Modulus
    <2>1. n < sent /\ sent + WindowSize <= n + Modulus
      BY <1>2 DEF RlcInv, InTime
    <2> QED  BY <1>1, <1>2, <2>1, ModulusPositive
  <1>4. PICK T \in Nat : T = HighestWith(n) /\ nH <= T /\ T <= sent /\ n < T
    BY <1>1, <1>3 DEF HighestWith
  <1>5. T < nR + Modulus /\ T < nMs + Modulus
    BY <1>1, <1>4, ModulusPositive
  <1> DEFINE complete == {t \in SN : buffer[t].complete}
             run == IF At(n) = vrR THEN RunLength(vrR, complete) ELSE 0
  <1>6. /\ vrH' = Highest(At(n))
        /\ vrMs' = FirstNotIn(vrMs, complete)
        /\ vrR' = (vrR + run) % Modulus
        /\ rxon' = [t \in SN |-> IF Dist(vrR, t) < run THEN Nothing ELSE buffer[t]]
        /\ Reassemble(InSequence(buffer, run))
        /\ UpdateReordering
    <2>1. InReceivingWindow(vrR, At(n))
      BY <1>3, InWindow
    <2> QED  BY <1>2, <2>1 DEF ReceivePdu, At
  <1>7. At(T) \notin complete
    <2>1. Ahead(nR, At(T)) = T
      BY <1>1, <1>4, <1>5, AheadAt
    <2>2. At(T) \in SN
      BY AtType
    <2>3. \A s \in SN : buffer[s] # Nothing => Ahead(nR, s) < T
      BY <1>2, <1>4, ReceptionIs
    <2>4. buffer[At(T)] = Nothing
      BY <2>1, <2>2, <2>3
    <2> QED  BY <2>4 DEF Nothing
  <1> HIDE DEF complete
  <1>8. PICK Q \in nMs .. T :
          /\ vrMs' = At(Q) /\ At(Q) \notin complete
    <2>1. nMs <= T
      BY <1>1, <1>4
    <2>2. \E q \in nMs .. T :
            FirstNotIn(At(nMs), complete) = At(q) /\ At(q) \notin complete
      BY <1>1, <1>5, <1>7, <2>1, RunStops
    <2> QED  BY <1>1, <1>6, <2>2
  <1>9. PICK R \in nR .. T :
          /\ run = R - nR
          /\ At(R) \notin complete
          /\ \A i \in nR .. R - 1 : At(i) \in complete
    <2>1. CASE n = nR
      <3>1. nR <= T
        BY <1>1, <1>4
      <3>2. run = RunLength(At(nR), complete)
        BY <1>1, <2>1
      <3>3. \E q \in nR .. T :
              /\ RunLength(At(nR), complete) = q - nR
              /\ At(q) \notin complete
              /\ \A i \in nR .. q - 1 : At(i) \in complete
        BY <1>1, <1>5, <1>7, <3>1, RunStops
      <3> QED  BY <3>2, <3>3
    <2>2. CASE n # nR
      <3>1. At(n) # At(nR)
        BY <1>1, <1>3, <2>2, AtSame, ModulusPositive
      <3>2. run = 0
        BY <1>1, <3>1
      <3>3. vrR \in SN /\ ~rxon[vrR].complete /\ rxon \in [SN -> [data : Seq(Nat), complete : BOOLEAN]]
        BY DEF RlcInv, TypeOK, ReceptionBuffer
      <3>4. buffer[vrR] = rxon[vrR]
        BY <1>1, <1>2, <3>1, <3>3
      <3>5. At(nR) \notin complete
        BY <1>1, <3>3, <3>4 DEF complete
      <3>6. nR \in nR .. T /\ 0 = nR - nR /\ nR .. nR - 1 = {}
        BY <1>1, <1>4
      <3> QED  BY <3>2, <3>5, <3>6
    <2> QED  BY <2>1, <2>2
  <1> HIDE DEF run
  <1>10. /\ R \in nR .. sent /\ Q \in nR .. sent /\ Q <= T /\ R \in Int /\ Q \in Int
         /\ At(R) \in SN /\ At(Q) \in SN
    <2>1. R \in nR .. sent /\ Q \in nR .. sent /\ Q <= T /\ R \in Int /\ Q \in Int
      BY <1>1, <1>4, <1>8, <1>9
    <2> QED  BY <2>1, AtType
  <1>11. R <= Q
    <2> SUFFICES ASSUME Q < R PROVE FALSE
      BY <1>10
    <2>1. Q \in nR .. R - 1
      BY <1>1, <1>10
    <2> QED  BY <1>8, <1>9, <2>1
  <1>12. vrH' = At(T)
    <2>1. Dist(At(nR), At(n)) = n - nR /\ Dist(At(nR), At(nH)) = nH - nR
      <3>1. nH < nR + Modulus
        BY <1>1, ModulusPositive
      <3> QED  BY <1>1, <1>3, <3>1, AtDist
    <2>2. (At(n) + 1) % Modulus = At(n + 1)
      BY AtPlus
    <2>3. CASE n >= nH
      <3>1. n - nR >= nH - nR /\ T = n + 1
        BY <1>1, <1>4, <2>3 DEF HighestWith
      <3> QED  BY <1>1, <1>6, <2>1, <2>2, <3>1 DEF Highest
    <2>4. CASE ~(n >= nH)
      <3>1. ~(n - nR >= nH - nR) /\ T = nH
        BY <1>1, <1>4, <2>4 DEF HighestWith
      <3> QED  BY <1>1, <1>6, <2>1, <3>1 DEF Highest
    <2> QED  BY <2>3, <2>4
  <1>13. vrR' = At(R)
    <2>1. (At(nR) + (R - nR)) % Modulus = At(nR + (R - nR))
      BY <1>1, <1>10, AtPlus
    <2>2. nR + (R - nR) = R
      BY <1>1, <1>10
    <2> QED  BY <1>1, <1>6, <1>9, <2>1, <2>2
  <1>14. rxon' = [s \in SN |-> IF Ahead(nR, s) < R THEN Nothing ELSE buffer[s]]
    <2>1. \A s \in SN : (Dist(vrR, s) < run) <=> (Ahead(nR, s) < R)
      <3> SUFFICES ASSUME NEW s \in SN
                   PROVE  (Dist(vrR, s) < run) <=> (Ahead(nR, s) < R)
        OBVIOUS
      <3>1. Dist(vrR, s) = Ahead(nR, s) - nR /\ Ahead(nR, s) \in Int
        BY <1>1, AheadIs
      <3> QED  BY <1>1, <1>9, <1>10, <3>1
    <2> QED  BY <1>6, <2>1
  <1>15. /\ \A i \in nR .. R - 1 : buffer[At(i)].complete
         /\ ~buffer[At(R)].complete /\ ~buffer[At(Q)].complete
    BY <1>8, <1>9, <1>10 DEF complete
  <1> QED
    BY <1>2, <1>4, <1>6, <1>8, <1>9, <1>10, <1>11, <1>12, <1>13, <1>14, <1>15
       DEF MovesUp

(* t-Reordering goes on waiting for the same number, if that has not come, or *)
(* for the highest that is missing a PDU below it. *)
LEMMA ReorderingIs ==
  ASSUME RlcInv, UpdateReordering, NEW R \in nR .. sent, NEW T \in R .. sent,
         nH <= T, vrR' = At(R), vrH' = At(T)
  PROVE  /\ reordering' \in BOOLEAN /\ vrX' \in SN
         /\ reordering' => \E z \in Int : vrX' = At(z) /\ R < z /\ z <= T
  <1>1. /\ nA \in Nat /\ nR \in Nat /\ nH \in Nat /\ sent \in Nat
        /\ nA <= nR /\ nR <= nH /\ nH <= sent
        /\ sent <= nA + WindowSize /\ sent < nA + Modulus /\ vrR = At(nR)
        /\ reordering => nX \in Nat /\ vrX = At(nX) /\ nR < nX /\ nX <= nH
    <2>1. /\ nA \in Nat /\ nR \in Nat /\ nMs \in Nat /\ nH \in Nat /\ sent \in Nat
          /\ nA <= nR /\ nR <= nMs /\ nMs <= nH /\ nH <= sent
          /\ sent <= nA + WindowSize /\ sent < nA + Modulus /\ vrR = At(nR)
          /\ reordering => nX \in Nat /\ vrX = At(nX) /\ nR < nX /\ nX <= nH
      BY Places
    <2> QED  BY <2>1
  <1>2. R \in Int /\ T \in Int /\ nR <= R /\ R <= T /\ T <= sent
    BY <1>1
  <1> DEFINE running == /\ reordering
                        /\ vrX # vrR'
                        /\ \/ InReceivingWindow(vrR', vrX)
                           \/ vrX = (vrR' + WindowSize) % Modulus
             missing == vrH' # vrR'
  <1>3. /\ reordering' = (running \/ missing)
        /\ vrX' = IF ~running /\ missing THEN vrH' ELSE vrX
    BY DEF UpdateReordering
  <1>4. vrX \in SN /\ At(T) \in SN /\ reordering \in BOOLEAN
    BY <1>2, AtType DEF RlcInv, TypeOK
  <1>5. running => R < nX
    <2> SUFFICES ASSUME running, ~(R < nX) PROVE FALSE
      OBVIOUS
    <2>1. nX \in Nat /\ vrX = At(nX) /\ nR < nX /\ nX <= R /\ At(nX) # At(R)
          /\ vrR' = At(R)
      BY <1>1, <1>2
    <2>2. nX < R
      BY <1>2, <2>1
    <2> DEFINE m == nX + Modulus
    <2>3. /\ m \in Int /\ R <= m /\ m < R + Modulus /\ m - R > WindowSize
      BY <1>1, <1>2, <2>1, <2>2, ModulusPositive
    <2>4. At(m) = At(nX)
      BY <2>1, AtWraps
    <2> HIDE DEF m
    <2>5. Dist(At(R), At(m)) = m - R
      BY <1>2, <2>3, AtDist
    <2>6. ~InReceivingWindow(vrR', vrX)
      BY <2>1, <2>3, <2>4, <2>5, ModulusPositive DEF InReceivingWindow
    <2>7. At(m) = (At(R) + WindowSize) % Modulus
      BY <2>1, <2>4, <2>6
    <2>8. (At(R) + WindowSize) % Modulus = At(R + WindowSize)
      BY <1>2, AtPlus, ModulusPositive
    <2>9. m = R + WindowSize
      <3>1. /\ R + WindowSize \in Int
            /\ m < (R + WindowSize) + Modulus /\ R + WindowSize < m + Modulus
        BY <1>2, <2>3, ModulusPositive
      <3>2. At(m) = At(R + WindowSize)
        BY <2>7, <2>8
      <3> QED  BY <2>3, <3>1, <3>2, AtSame
    <2> QED  BY <1>2, <2>3, <2>9, ModulusPositive
  <1> HIDE DEF running
  <1>6. CASE running
    <2>1. vrX' = vrX /\ R < nX /\ reordering
      BY <1>3, <1>5, <1>6 DEF running
    <2>2. nX \in Int /\ vrX = At(nX) /\ nX <= T
      BY <1>1, <1>2, <2>1
    <2> QED  BY <1>3, <1>4, <1>6, <2>1, <2>2
  <1>7. CASE ~running
    <2>1. CASE missing
      <3>1. At(T) # At(R)
        BY <2>1
      <3>2. R < T
        BY <1>2, <3>1
      <3> QED  BY <1>2, <1>3, <1>4, <1>7, <2>1, <3>2
    <2>2. CASE ~missing
      BY <1>3, <1>4, <1>7, <2>2
    <2> QED  BY <2>1, <2>2
  <1> QED  BY <1>6, <1>7

(* A PDU that the receiver does not take for an old one. *)
LEMMA ReceivedPduKeeps ==
  ASSUME RlcInv, NEW p \in down, p.n >= nR, ReceivePdu(p)
  PROVE  RlcInv' /\ Len(delivered) <= Len(delivered')
  <1>1. /\ nA \in Nat /\ nR \in Nat /\ nMs \in Nat /\ nH \in Nat /\ sent \in Nat
        /\ nA <= nR /\ nR <= nMs /\ nMs <= nH /\ nH <= sent
        /\ sent <= nA + WindowSize /\ sent < nA + Modulus
        /\ vtA = At(nA) /\ vrR = At(nR)
    BY Places
  <1>2. PICK buffer : buffer = [rxon EXCEPT ![At(p.n)] = Stored(@, p)]
    OBVIOUS
  <1>3. PICK T : T = HighestWith(p.n)
    OBVIOUS
  <1>4. PICK R \in nR .. sent, Q \in nR .. sent :
          /\ R <= Q /\ Q <= T /\ T <= sent /\ T \in Nat
          /\ vrR' = At(R) /\ vrMs' = At(Q) /\ vrH' = At(T)
          /\ \A i \in nR .. R - 1 : buffer[At(i)].complete
          /\ ~buffer[At(R)].complete /\ ~buffer[At(Q)].complete
          /\ rxon' = [s \in SN |-> IF Ahead(nR, s) < R THEN Nothing ELSE buffer[s]]
          /\ Reassemble(InSequence(buffer, R - nR))
          /\ UpdateReordering
    <2>1. \E R, Q \in nR .. sent : MovesUp(buffer, R, Q, T)
      BY <1>2, <1>3, ReceptionMoves
    <2> QED  BY <2>1 DEF MovesUp
  <1>5. /\ R \in Int /\ Q \in Int /\ nR <= R /\ R <= sent /\ nA <= R
        /\ R \in Nat /\ Q \in Nat
        /\ At(R) \in SN /\ At(Q) \in SN /\ At(T) \in SN
    <2>1. R \in Int /\ Q \in Int /\ nR <= R /\ R <= sent /\ nA <= R
          /\ R \in Nat /\ Q \in Nat
      BY <1>1, <1>4
    <2> QED  BY <1>4, <2>1, AtType
  <1>6. /\ buffer \in [SN -> [data : Seq(Nat), complete : BOOLEAN]]
        /\ \A i \in nR .. sent - 1 :
             /\ PartOf(buffer[At(i)], Whole(i))
             /\ rxon[At(i)].complete => buffer[At(i)].complete
        /\ \A s \in SN : buffer[s] # Nothing => Ahead(nR, s) < T
    BY <1>2, <1>3, ReceptionIs
  <1>7. /\ down' = down \ {p} /\ prohibit' = prohibit /\ up' = up
        /\ statusRequested' = (statusRequested \/ p.poll)
        /\ statusReported' = (statusReported \/ (p.poll /\ ~prohibit))
        /\ UNCHANGED <<bigEnough, accepted, taken, sent, vtA, txed, retx, retxSeg,
                       txedSize, retxSize, pollSn, pollTimer, justExpired>>
    BY DEF ReceivePdu, NotePoll, txVars
  <1>8. /\ nA' = nA /\ nR' = R /\ nMs' = Q /\ nH' = T
        /\ \A z \in Int : vrX' = At(z) /\ R <= z /\ z <= T => nX' = z
    <2>1. sent' \in Int /\ vtA' = At(nA) /\ T <= sent' /\ sent' <= nA + WindowSize
      BY <1>1, <1>4, <1>7
    <2> QED  BY <1>1, <1>4, <1>5, <2>1, PlacesNext
  <1>9. /\ reordering' \in BOOLEAN /\ vrX' \in SN
        /\ reordering' => \E z \in Int : vrX' = At(z) /\ R < z /\ z <= T
    <2>1. T \in R .. sent /\ nH <= T
      <3>1. nH <= T
        <4>1. p.n \in Nat
          BY DEF RlcInv, TypeOK, Pdu
        <4> QED  BY <1>1, <1>3, <4>1 DEF HighestWith
      <3> QED  BY <1>1, <1>4, <1>5, <3>1
    <2> QED  BY <1>4, <2>1, ReorderingIs
  <1>10. \A i \in R .. sent - 1 :
           i \in nR .. sent - 1 /\ i \in Nat /\ At(i) \in SN /\ rxon'[At(i)] = buffer[At(i)]
    <2> SUFFICES ASSUME NEW i \in R .. sent - 1
                 PROVE  /\ i \in nR .. sent - 1 /\ i \in Nat /\ At(i) \in SN
                        /\ rxon'[At(i)] = buffer[At(i)]
      OBVIOUS
    <2>1. i \in nR .. sent - 1 /\ i \in Nat /\ nR <= i /\ i < nR + Modulus /\ ~(i < R)
      BY <1>1, <1>5, ModulusPositive
    <2>2. At(i) \in SN /\ Ahead(nR, At(i)) = i
      BY <1>1, <2>1, AheadAt, AtType
    <2> QED  BY <1>4, <2>1, <2>2
  <1>11. \A s : Copy(s)' = Copy(s)
    BY <1>7 DEF Copy
  <1>12. \A i \in R .. sent - 1 : Copy(At(i))' = Copy(At(i)) /\ Whole(i)' = Whole(i)
    <2> SUFFICES ASSUME NEW i \in R .. sent - 1
                 PROVE  Copy(At(i))' = Copy(At(i)) /\ Whole(i)' = Whole(i)
      OBVIOUS
    <2>1. Copy(At(i))' = Copy(At(i))
      BY <1>7 DEF Copy, At
    <2>2. Whole(i)' = IF rxon'[At(i)].complete THEN rxon'[At(i)].data ELSE Copy(At(i))'
      BY DEF Whole, At
    <2>3. /\ rxon'[At(i)] = buffer[At(i)] /\ PartOf(buffer[At(i)], Whole(i))
          /\ rxon[At(i)].complete => buffer[At(i)].complete
      BY <1>6, <1>10
    <2>4. CASE buffer[At(i)].complete
      BY <2>1, <2>2, <2>3, <2>4 DEF PartOf
    <2>5. CASE ~buffer[At(i)].complete
      BY <2>1, <2>2, <2>3, <2>5 DEF Whole
    <2> QED  BY <2>1, <2>4, <2>5
  <1>13. \A i \in R .. sent : FirstChunk(i)' = FirstChunk(i)
    <2> SUFFICES ASSUME NEW i \in R .. sent PROVE FirstChunk(i)' = FirstChunk(i)
      OBVIOUS
    <2>1. CASE i = sent
      BY <1>7, <2>1 DEF FirstChunk
    <2>2. CASE i # sent
      <3>1. i \in R .. sent - 1
        BY <1>1, <1>5, <2>2
      <3> QED  BY <1>7, <1>12, <2>2, <3>1 DEF FirstChunk
    <2> QED  BY <2>1, <2>2
  <1>14. /\ DeliveredSoFar'
         /\ kept' \in Seq(Nat) /\ delivered' \in Seq(Seq(Nat))
         /\ Len(delivered') * SduSize + Len(kept') = FirstChunk(R)
         /\ Len(delivered) <= Len(delivered')
    <2>1. \A i \in nR .. R - 1 : buffer[At(i)].data = Whole(i)
      <3> SUFFICES ASSUME NEW i \in nR .. R - 1 PROVE buffer[At(i)].data = Whole(i)
        OBVIOUS
      <3>1. i \in nR .. sent - 1
        BY <1>1, <1>5
      <3> QED  BY <1>4, <1>6, <3>1 DEF PartOf
    <2>2. PICK l \in Nat : l = FirstChunk(R) - FirstChunk(nR)
                           /\ InSequence(buffer, R - nR) = ChunksFrom(FirstChunk(nR), l)
      BY <2>1, InSequenceIs
    <2>3. Reassemble(ChunksFrom(FirstChunk(nR), l))
      <3>1. PICK data : data = ChunksFrom(FirstChunk(nR), l)
        OBVIOUS
      <3>2. Reassemble(data)
        BY <1>4, <2>2, <3>1
      <3> QED  BY <3>1, <3>2
    <2>4. /\ DeliveredSoFar'
          /\ kept' \in Seq(Nat) /\ delivered' \in Seq(Seq(Nat))
          /\ Len(delivered') * SduSize + Len(kept') = FirstChunk(nR) + l
          /\ Len(delivered) <= Len(delivered')
      BY <2>3, ReassembleIs
    <2>5. FirstChunk(R) \in Nat /\ FirstChunk(nR) \in Nat
      BY FirstChunkGrows
    <2>6. FirstChunk(nR) + l = FirstChunk(R)
      BY <2>2, <2>5
    <2> QED  BY <2>4, <2>6
  <1>15. SenderInv'
    <2>1. accepted' \in Nat
      BY <1>7, RlcSender DEF SenderInv, SenderType
    <2> QED  BY <1>7, <2>1, RlcSender, OthersPreserve
  <1>16. TypeOK'
    <2>1. down' \subseteq Pdu /\ up' \subseteq Status /\ p.poll \in BOOLEAN
      BY <1>7 DEF RlcInv, TypeOK, Pdu
    <2>2. /\ bigEnough' \in BOOLEAN /\ accepted' \in 0 .. MaxSdus
          /\ taken' <= accepted' * SduSize
          /\ pollSn' \in SN /\ pollTimer' \in BOOLEAN /\ justExpired' \in BOOLEAN
          /\ prohibit' \in BOOLEAN
      BY <1>7 DEF RlcInv, TypeOK, Contiguous
    <2>3. statusRequested' \in BOOLEAN /\ statusReported' \in BOOLEAN
      BY <1>7, <2>1 DEF RlcInv, TypeOK
    <2>4. rxon' \in [SN -> [data : Seq(Nat), complete : BOOLEAN]]
      <3>1. Nothing \in [data : Seq(Nat), complete : BOOLEAN]
        <4>1. <<>> \in Seq(Nat)
          OBVIOUS
        <4> QED  BY <4>1 DEF Nothing
      <3> QED  BY <1>4, <1>6, <3>1
    <2> QED
      BY <1>4, <1>5, <1>9, <1>14, <1>15, <2>1, <2>2, <2>3, <2>4, TypeFrom
  <1>17. WindowOrder'
    <2>1. reordering' => R < nX' /\ nX' <= T
      <3> SUFFICES ASSUME reordering' PROVE R < nX' /\ nX' <= T
        OBVIOUS
      <3>1. PICK z \in Int : vrX' = At(z) /\ R < z /\ z <= T
        BY <1>9
      <3>2. nX' = z
        BY <1>5, <1>8, <3>1
      <3> QED  BY <3>1, <3>2
    <2>2. 0 <= nA /\ R <= Q /\ Q <= T /\ T <= sent /\ sent <= nA + WindowSize
      BY <1>1, <1>4
    <2> QED  BY <1>7, <1>8, <2>1, <2>2 DEF WindowOrder
  <1>18. ReceptionBuffer'
    <2>1. ASSUME NEW s \in SN, rxon'[s] # Nothing
          PROVE  Dist(At(R), s) < T - R
      <3>1. ~(Ahead(nR, s) < R) /\ buffer[s] # Nothing
        BY <1>4, <2>1
      <3>2. /\ Ahead(nR, s) \in Int /\ nR <= Ahead(nR, s)
            /\ Ahead(nR, s) < nR + Modulus /\ At(Ahead(nR, s)) = s
        BY <1>1, AheadIs
      <3>3. Ahead(nR, s) < T
        BY <1>6, <3>1
      <3>4. PICK z \in Int : z = Ahead(nR, s)
        BY <3>2
      <3>5. R <= z /\ z < T /\ z < R + Modulus /\ At(z) = s
        BY <1>1, <1>5, <3>1, <3>2, <3>3, <3>4, ModulusPositive
      <3>6. Dist(At(R), At(z)) = z - R
        BY <1>5, <3>5, AtDist
      <3> QED  BY <1>4, <1>5, <3>5, <3>6
    <2>2. \A s \in SN : ~buffer[s].complete => ~rxon'[s].complete
      BY <1>4 DEF Nothing
    <2>3. ~rxon'[At(R)].complete /\ ~rxon'[At(Q)].complete
      BY <1>4, <1>5, <2>2
    <2>4. \A s \in SN : rxon'[s] # Nothing => Dist(vrR, s)' < nH' - nR'
      BY <1>4, <1>8, <2>1 DEF Dist
    <2> QED  BY <1>4, <2>3, <2>4 DEF ReceptionBuffer
  <1>19. InTime'
    BY <1>7 DEF RlcInv, InTime
  <1>20. Contiguous'
    <2>1. ASSUME NEW i \in R .. sent - 1
          PROVE  /\ Len(Whole(i)') > 0
                 /\ Whole(i)' = ChunksFrom(FirstChunk(i)', Len(Whole(i)'))
                 /\ FirstChunk(i + 1)' = FirstChunk(i)' + Len(Whole(i)')
      <3>1. i \in nR .. sent - 1 /\ i \in R .. sent /\ i + 1 \in R .. sent
        BY <1>1, <1>5
      <3>2. /\ Len(Whole(i)) > 0
            /\ Whole(i) = ChunksFrom(FirstChunk(i), Len(Whole(i)))
            /\ FirstChunk(i + 1) = FirstChunk(i) + Len(Whole(i))
        BY <3>1 DEF RlcInv, Contiguous
      <3>3. /\ FirstChunk(i)' = FirstChunk(i) /\ FirstChunk(i + 1)' = FirstChunk(i + 1)
            /\ Whole(i)' = Whole(i)
        BY <1>12, <1>13, <3>1
      <3> QED  BY <3>2, <3>3
    <2>2. FirstChunk(nR)' = Len(delivered') * SduSize + Len(kept')
      <3>1. R \in R .. sent
        BY <1>1, <1>5
      <3>2. FirstChunk(R)' = Len(delivered') * SduSize + Len(kept')
        BY <1>13, <1>14, <3>1
      <3>3. FirstChunk(nR)' = FirstChunk(R)'
        BY <1>8 DEF FirstChunk, Whole, Copy, At
      <3> QED  BY <3>2, <3>3
    <2>3. taken' <= accepted' * SduSize
      BY <1>7 DEF RlcInv, Contiguous
    <2>4. nR' .. sent' - 1 = R .. sent - 1
      BY <1>7, <1>8
    <2> QED  BY <2>1, <2>2, <2>3, <2>4 DEF Contiguous, ChunksFrom
  <1>21. CopiesAgree'
    <2>1. ASSUME NEW i \in R .. sent - 1
          PROVE  /\ Copy(At(i))' # <<>> => Copy(At(i))' = Whole(i)'
                 /\ LET part == rxon'[At(i)].data IN
                      /\ Len(part) <= Len(Whole(i)')
                      /\ part = SubSeq(Whole(i)', 1, Len(part))
      <3>1. i \in nR .. sent - 1 /\ rxon'[At(i)] = buffer[At(i)]
        BY <1>10
      <3>2. PartOf(buffer[At(i)], Whole(i))
        BY <1>6, <3>1
      <3>3. Copy(At(i)) # <<>> => Copy(At(i)) = Whole(i)
        BY <3>1, WholeIs
      <3>4. Copy(At(i))' = Copy(At(i)) /\ Whole(i)' = Whole(i)
        BY <1>12
      <3> QED  BY <3>1, <3>2, <3>3, <3>4 DEF PartOf
    <2>2. ASSUME NEW q \in down', q.n >= R PROVE Faithful(q)'
      <3>1. q \in down /\ q.n \in Nat /\ q.n < sent
        BY <1>7 DEF RlcInv, TypeOK, Pdu, InTime
      <3>2. q.n \in R .. sent - 1 /\ q.n >= nR
        BY <1>1, <1>5, <2>2, <3>1
      <3>3. Whole(q.n)' = Whole(q.n)
        BY <1>12, <3>2
      <3>4. Faithful(q)
        BY <3>1, <3>2 DEF RlcInv, CopiesAgree, Faithful
      <3> QED  BY <3>3, <3>4 DEF Faithful
    <2>3. nR' .. sent' - 1 = R .. sent - 1 /\ nR' = R
      BY <1>7, <1>8
    <2>4. \A s \in SN : retxSeg'[s] # 0 => retxSeg'[s] < Len(retx'[s])
      BY <1>7 DEF RlcInv, CopiesAgree
    <2> QED  BY <2>1, <2>2, <2>3, <2>4 DEF CopiesAgree, Faithful, At
  <1>22. OldestKept'
    BY <1>7, <1>8 DEF RlcInv, OldestKept, Copy
  <1>23. StatusTrue'
    <2>1. \A i \in nA .. sent - 1 : Received(i) => Received(i)'
      <3> SUFFICES ASSUME NEW i \in nA .. sent - 1, Received(i), ~(i < R)
                   PROVE  rxon'[At(i)].complete
        BY <1>8 DEF Received, At
      <3>1. i \in R .. sent - 1 /\ ~(i < nR)
        BY <1>1, <1>5
      <3>2. rxon[At(i)].complete
        BY <3>1 DEF Received
      <3> QED  BY <1>6, <1>10, <3>1, <3>2
    <2>2. ASSUME NEW m \in up
          PROVE  /\ Ahead(nA, m.ack)' <= sent'
                 /\ \A i \in nA' .. Ahead(nA, m.ack)' - 1 :
                      At(i) \in m.nacks \/ Received(i)'
                 /\ \E f \in nA' .. sent' : MovesTo(m, f)'
      <3>1. /\ Ahead(nA, m.ack) <= sent
            /\ \A i \in nA .. Ahead(nA, m.ack) - 1 : At(i) \in m.nacks \/ Received(i)
            /\ \E f \in nA .. sent : MovesTo(m, f)
        BY DEF RlcInv, StatusTrue
      <3>2. Ahead(nA, m.ack)' = Ahead(nA, m.ack) /\ Ahead(nA, m.ack) \in Int
        <4>1. m.ack \in SN
          BY DEF RlcInv, TypeOK, Status
        <4> QED  BY <1>1, <1>8, <4>1, AheadIs DEF Ahead, At, Dist
      <3>3. \A i \in nA .. Ahead(nA, m.ack) - 1 : At(i) \in m.nacks \/ Received(i)'
        <4> SUFFICES ASSUME NEW i \in nA .. Ahead(nA, m.ack) - 1
                     PROVE  At(i) \in m.nacks \/ Received(i)'
          OBVIOUS
        <4>1. i \in nA .. sent - 1
          BY <1>1, <3>1, <3>2
        <4> QED  BY <2>1, <3>1, <4>1
      <3>4. PICK f \in nA .. sent : MovesTo(m, f)
        BY <3>1
      <3>5. /\ f \in nA .. Ahead(nA, m.ack) /\ f <= nR
            /\ f = Ahead(nA, m.ack) \/ At(f) \in m.nacks
            /\ \A i \in nA .. f - 1 : At(i) \notin m.nacks
            /\ f < sent => Copy(At(f)) # <<>>
        BY <3>4 DEF MovesTo
      <3>6. Copy(At(f))' = Copy(At(f)) /\ f <= R
        BY <1>1, <1>5, <1>7, <3>5 DEF Copy, At
      <3>7. MovesTo(m, f)'
        BY <1>7, <1>8, <3>2, <3>5, <3>6 DEF MovesTo, At
      <3> QED  BY <1>7, <1>8, <3>1, <3>2, <3>3, <3>4, <3>7
    <2>3. (\A m1, m2 \in up' : m1 = m2) /\ (up' # {} => prohibit') /\ up' = up
      BY <1>7 DEF RlcInv, StatusTrue
    <2> QED  BY <2>2, <2>3 DEF StatusTrue, At, Ahead
  <1>24. PollsLast'
    BY <1>7 DEF RlcInv, PollsLast, At
  <1>25. WillPoll'
    <2>1. InTransmittingWindow' = InTransmittingWindow /\ txon' = txon
      BY <1>7 DEF InTransmittingWindow, Dist, vtS, txon
    <2> QED  BY <1>7, <1>8, <2>1 DEF RlcInv, WillPoll, At
  <1> QED
    BY <1>14, <1>15, <1>16, <1>17, <1>18, <1>19, <1>20, <1>21, <1>22, <1>23, <1>24,
       <1>25 DEF RlcInv, SenderInv

(* A PDU at the receiver, be it a new one or an old one. *)
LEMMA ReceivePduKeeps ==
  ASSUME RlcInv, NEW p \in down, ReceivePdu(p)
  PROVE  RlcInv' /\ Len(delivered) <= Len(delivered')
  <1>1. nR \in Nat /\ p.n \in Nat /\ p.n < sent /\ sent + WindowSize <= p.n + Modulus
    BY Places DEF RlcInv, TypeOK, Pdu, InTime
  <1>2. CASE p.n >= nR
    BY <1>2, ReceivedPduKeeps
  <1>3. CASE ~(p.n >= nR)
    <2>1. ~InReceivingWindow(vrR, At(p.n))
      <3>1. PICK n \in Int : n = p.n
        BY <1>1
      <3>2. ~(nR <= n)
        BY <1>1, <1>3, <3>1
      <3> QED  BY <1>1, <3>1, <3>2, InWindow
    <2>2. /\ UNCHANGED <<vrR, vrMs, vrX, vrH, rxon, reordering, kept, delivered>>
          /\ down' = down \ {p} /\ NotePoll(p)
          /\ UNCHANGED <<bigEnough, txVars, prohibit, up>>
      BY <2>1 DEF ReceivePdu, At
    <2>3. accepted' \in accepted .. MaxSdus
      <3>1. accepted \in Nat /\ MaxSdus \in Nat /\ accepted <= MaxSdus
        BY SizeAssumption DEF RlcInv, TypeOK
      <3> QED  BY <2>2, <3>1 DEF txVars
    <2>4. p.poll \in BOOLEAN /\ statusRequested \in BOOLEAN
          /\ statusReported \in BOOLEAN /\ prohibit \in BOOLEAN
      BY DEF RlcInv, TypeOK, Pdu
    <2>5. /\ statusRequested' \in BOOLEAN /\ statusReported' \in BOOLEAN
          /\ prohibit' \in BOOLEAN
      BY <2>2, <2>4 DEF NotePoll
    <2>6. up' # {} => prohibit'
      BY <2>2 DEF RlcInv, StatusTrue
    <2>7. RlcInv'
      BY <2>2, <2>3, <2>5, <2>6, StillPreserves DEF txVars
    <2>8. Len(delivered) \in Nat
      BY DEF RlcInv, TypeOK
    <2> QED  BY <2>2, <2>7, <2>8
  <1> QED  BY <1>2, <1>3

=============================================================================
