---------------------------- MODULE RlcAmProofs ----------------------------
(***************************************************************************)
(* Proofs about the sending side of RlcAm, for every number space, window, *)
(* size of the SDUs and of the opportunities: what the sender keeps adds   *)
(* up, whatever the link loses and the receiver answers.                   *)
(***************************************************************************)
EXTENDS RlcAm, FiniteSetTheorems, TLAPS

-----------------------------------------------------------------------------
(* Numbers modulo Modulus.                                                 *)

(* Modulus is positive and the window at most half of it. *)
LEMMA ModulusPositive ==
  Modulus \in Nat /\ Modulus > 0 /\ WindowSize \in Nat /\ WindowSize > 0
  /\ 2 * WindowSize <= Modulus
  BY WindowAssumption

(* The remainders next to the number space, without division. *)
LEMMA Remainder ==
  /\ \A x \in Int : x % Modulus \in SN
  /\ \A x \in SN : x % Modulus = x
  /\ \A x \in Modulus .. 2 * Modulus - 1 : x % Modulus = x - Modulus
  /\ \A x \in -Modulus .. -1 : x % Modulus = x + Modulus
  BY ModulusPositive DEF SN

(* The number after x. *)
LEMMA NextRemainder ==
  ASSUME NEW x \in Int
  PROVE  (x + 1) % Modulus =
           IF x % Modulus = Modulus - 1 THEN 0 ELSE (x % Modulus) + 1
  <1> DEFINE q == x \div Modulus
             r == x % Modulus
  <1>1. x = Modulus * q + r /\ q \in Int /\ r \in 0 .. Modulus - 1
    BY ModulusPositive
  <1>2. \A a \in Int, b \in 0 .. Modulus - 1 : (Modulus * a + b) % Modulus = b
    BY ModulusPositive
  <1> HIDE DEF q, r
  <1>3. CASE r = Modulus - 1
    <2>1. x + 1 = Modulus * (q + 1) + 0
      BY <1>1, <1>3, ModulusPositive
    <2>2. (Modulus * (q + 1) + 0) % Modulus = 0
      BY <1>1, <1>2, ModulusPositive
    <2> QED  BY <2>1, <2>2, <1>3 DEF r
  <1>4. CASE r # Modulus - 1
    <2>1. x + 1 = Modulus * q + (r + 1) /\ r + 1 \in 0 .. Modulus - 1
      BY <1>1, <1>4, ModulusPositive
    <2>2. (Modulus * q + (r + 1)) % Modulus = r + 1
      BY <1>1, <1>2, <2>1
    <2> QED  BY <2>1, <2>2, <1>4 DEF r
  <1> QED  BY <1>3, <1>4

(* The distance of two numbers, without division. *)
LEMMA DistIs ==
  ASSUME NEW a \in SN, NEW b \in SN
  PROVE  /\ Dist(a, b) = IF b >= a THEN b - a ELSE b - a + Modulus
         /\ Dist(a, b) \in SN
  <1>1. CASE b >= a
    <2>1. b - a \in SN  BY <1>1, ModulusPositive DEF SN
    <2> QED  BY <1>1, <2>1, Remainder DEF Dist
  <1>2. CASE b < a
    <2>1. b - a \in -Modulus .. -1  BY <1>2, ModulusPositive DEF SN
    <2>2. (b - a) % Modulus = b - a + Modulus  BY <2>1, Remainder
    <2> QED  BY <1>2, <2>2, ModulusPositive DEF Dist, SN
  <1> QED  BY <1>1, <1>2 DEF SN

(* One step further from the base is one more. *)
LEMMA DistNext ==
  ASSUME NEW a \in SN, NEW n \in Nat, Dist(a, n % Modulus) < Modulus - 1
  PROVE  Dist(a, (n + 1) % Modulus) = Dist(a, n % Modulus) + 1
  <1>1. n % Modulus \in SN /\ (n + 1) % Modulus \in SN
    BY Remainder
  <1>2. (n + 1) % Modulus =
          IF n % Modulus = Modulus - 1 THEN 0 ELSE (n % Modulus) + 1
    BY NextRemainder
  <1> DEFINE m == n % Modulus
             k == (n + 1) % Modulus
  <1>3. m \in SN /\ k \in SN /\ k = IF m = Modulus - 1 THEN 0 ELSE m + 1
    BY <1>1, <1>2
  <1>4. Dist(a, m) < Modulus - 1
    OBVIOUS
  <1> HIDE DEF m, k
  <1>5. Dist(a, k) = Dist(a, m) + 1
    <2>1. /\ Dist(a, m) = IF m >= a THEN m - a ELSE m - a + Modulus
          /\ Dist(a, k) = IF k >= a THEN k - a ELSE k - a + Modulus
      BY <1>3, DistIs
    <2> QED  BY <2>1, <1>3, <1>4, ModulusPositive DEF SN
  <1> QED  BY <1>5 DEF m, k

(* A base that moves up comes nearer to what lies ahead. *)
LEMMA DistFrom ==
  ASSUME NEW a \in SN, NEW b \in SN, NEW k \in Nat, k <= Dist(a, b)
  PROVE  /\ (a + k) % Modulus \in SN
         /\ Dist((a + k) % Modulus, b) = Dist(a, b) - k
         /\ Dist(a, (a + k) % Modulus) = k
  <1>1. Dist(a, b) = IF b >= a THEN b - a ELSE b - a + Modulus
    BY DistIs
  <1>2. Dist(a, b) \in SN /\ k \in SN
    <2>1. Dist(a, b) \in SN
      BY DistIs
    <2> QED  BY <2>1, ModulusPositive DEF SN
  <1>3. (a + k) % Modulus = IF a + k < Modulus THEN a + k ELSE a + k - Modulus
    <2>1. CASE a + k < Modulus
      <3>1. a + k \in SN
        BY <2>1, <1>2, ModulusPositive DEF SN
      <3> QED  BY <3>1, <2>1, Remainder
    <2>2. CASE a + k >= Modulus
      <3>1. a + k \in Modulus .. 2 * Modulus - 1
        BY <2>2, <1>2, ModulusPositive DEF SN
      <3> QED  BY <3>1, <2>2, Remainder, ModulusPositive DEF SN
    <2> QED  BY <2>1, <2>2, ModulusPositive DEF SN
  <1> DEFINE c == (a + k) % Modulus
  <1>4. c \in SN
    BY Remainder DEF SN
  <1>5. c = IF a + k < Modulus THEN a + k ELSE a + k - Modulus
    BY <1>3
  <1> HIDE DEF c
  <1>6. /\ Dist(c, b) = IF b >= c THEN b - c ELSE b - c + Modulus
        /\ Dist(a, c) = IF c >= a THEN c - a ELSE c - a + Modulus
    BY <1>4, DistIs
  <1>7. Dist(c, b) = Dist(a, b) - k
    BY <1>1, <1>2, <1>4, <1>5, <1>6, ModulusPositive DEF SN
  <1>8. Dist(a, c) = k
    BY <1>1, <1>2, <1>4, <1>5, <1>6, ModulusPositive DEF SN
  <1> QED  BY <1>4, <1>7, <1>8 DEF c

(* A set of naturals that is not empty has a least element. *)
LEMMA LeastNatural ==
  ASSUME NEW T, T \subseteq Nat, T # {}
  PROVE  \E x \in T : \A y \in T : x <= y
  <1>1. PICK x \in T : \A y \in T : ~(<<y, x>> \in OpToRel(<, Nat))
    BY NatLessThanWellFounded, WFMin
  <1>2. \A y \in T : ~(y < x)
    BY <1>1 DEF OpToRel
  <1> QED  BY <1>2

(* RunLength is the number of elements of the set without a gap. *)
LEMMA RunLengthIs ==
  ASSUME NEW s \in SN, NEW set
  PROVE  LET k == RunLength(s, set) IN
           /\ k \in 0 .. Modulus
           /\ \A i \in 0 .. k - 1 : (s + i) % Modulus \in set
           /\ (s + k) % Modulus \notin set \/ k = Modulus
  <1> DEFINE Gaps == {k \in 0 .. Modulus :
                        (s + k) % Modulus \notin set \/ k = Modulus}
  <1>1. Gaps \subseteq Nat /\ Modulus \in Gaps
    BY ModulusPositive
  <1>2. PICK k \in Gaps : \A j \in Gaps : k <= j
    <2> HIDE DEF Gaps
    <2> QED  BY <1>1, LeastNatural
  <1>3. k \in 0 .. Modulus /\ ((s + k) % Modulus \notin set \/ k = Modulus)
    OBVIOUS
  <1>4. ASSUME NEW i \in 0 .. k - 1 PROVE (s + i) % Modulus \in set
    <2>1. i \in 0 .. Modulus /\ i # Modulus /\ i < k
      BY <1>3, ModulusPositive
    <2>2. i \notin Gaps
      BY <2>1, <1>2, <1>3
    <2> QED  BY <2>1, <2>2
  <1> QED  BY <1>3, <1>4 DEF RunLength

-----------------------------------------------------------------------------
(* The size of a buffer.                                                   *)

Buffers == [SN -> Seq(Nat)]

(* What is in the set of chunks. *)
LEMMA InChunks ==
  ASSUME NEW b \in Buffers, NEW S \in SUBSET SN
  PROVE  \A p : p \in Chunks(b, S) <=>
                  \E s \in S : \E i \in 1 .. Len(b[s]) : p = <<s, i>>
  BY DEF Chunks, Buffers

(* A buffer holds finitely many chunks. *)
LEMMA ChunksFinite ==
  ASSUME NEW b \in Buffers, NEW S \in SUBSET SN
  PROVE  IsFiniteSet(Chunks(b, S)) /\ SizeOf(b, S) \in Nat
  <1> DEFINE One(s) == {s} \X DOMAIN b[s]
             All == {One(s) : s \in S}
             f == [s \in S |-> One(s)]
  <1>1. IsFiniteSet(SN)
    BY ModulusPositive, FS_Interval DEF SN
  <1>2. IsFiniteSet(S)
    BY <1>1, FS_Subset
  <1>3. f \in Surjection(S, All)
    BY DEF Surjection
  <1>4. IsFiniteSet(All)
    BY <1>2, <1>3, FS_Surjection
  <1>5. ASSUME NEW T \in All PROVE IsFiniteSet(T)
    <2>1. PICK s \in S : T = {s} \X DOMAIN b[s]
      OBVIOUS
    <2>2. b[s] \in Seq(Nat)
      BY DEF Buffers
    <2>3. DOMAIN b[s] = 1 .. Len(b[s]) /\ Len(b[s]) \in Nat
      BY <2>2
    <2>4. IsFiniteSet(DOMAIN b[s])
      BY <2>3, FS_Interval
    <2>5. IsFiniteSet({s})
      BY FS_Singleton
    <2> QED  BY <2>1, <2>4, <2>5, FS_Product
  <1>6. IsFiniteSet(UNION All)
    <2> HIDE DEF All
    <2> QED  BY <1>4, <1>5, FS_UNION
  <1>7. Chunks(b, S) = UNION All
    BY DEF Chunks
  <1> QED  BY <1>6, <1>7, FS_CardinalityType DEF SizeOf

(* The size of two parts is the sum of their sizes. *)
LEMMA SizeOfParts ==
  ASSUME NEW b \in Buffers, NEW S \in SUBSET SN, NEW T \in SUBSET SN,
         S \cap T = {}
  PROVE  SizeOf(b, S \cup T) = SizeOf(b, S) + SizeOf(b, T)
  <1>1. /\ IsFiniteSet(Chunks(b, S)) /\ IsFiniteSet(Chunks(b, T))
        /\ SizeOf(b, S) \in Nat /\ SizeOf(b, T) \in Nat
    BY ChunksFinite
  <1>2. Chunks(b, S \cup T) = Chunks(b, S) \cup Chunks(b, T)
    BY DEF Chunks
  <1>3. Chunks(b, S) \cap Chunks(b, T) = {}
    <2> SUFFICES ASSUME NEW p \in Chunks(b, S), p \in Chunks(b, T) PROVE FALSE
      OBVIOUS
    <2>1. PICK s \in S : \E i \in 1 .. Len(b[s]) : p = <<s, i>>
      BY InChunks
    <2>2. PICK t \in T : \E i \in 1 .. Len(b[t]) : p = <<t, i>>
      BY InChunks
    <2> QED  BY <2>1, <2>2
  <1>4. Cardinality(Chunks(b, S) \cup Chunks(b, T)) =
          Cardinality(Chunks(b, S)) + Cardinality(Chunks(b, T))
    BY <1>1, <1>3, FS_Union, FS_EmptySet DEF SizeOf
  <1> QED  BY <1>2, <1>4 DEF SizeOf

(* The size depends on nothing but the entries. *)
LEMMA SizeOfSame ==
  ASSUME NEW b, NEW c, NEW S, \A s \in S : b[s] = c[s]
  PROVE  SizeOf(b, S) = SizeOf(c, S)
  <1>1. Chunks(b, S) = Chunks(c, S)
    BY DEF Chunks
  <1> QED  BY <1>1 DEF SizeOf

(* Entries that are empty have no size. *)
LEMMA SizeOfEmpty ==
  ASSUME NEW b \in Buffers, NEW S \in SUBSET SN, \A s \in S : b[s] = <<>>
  PROVE  SizeOf(b, S) = 0
  <1>1. Chunks(b, S) = {}
    BY InChunks
  <1> QED  BY <1>1, FS_EmptySet DEF SizeOf

(* And only they. *)
LEMMA SizeOfZero ==
  ASSUME NEW b \in Buffers, NEW S \in SUBSET SN, SizeOf(b, S) = 0
  PROVE  \A s \in S : b[s] = <<>>
  <1>1. Chunks(b, S) = {}
    BY ChunksFinite, FS_EmptySet DEF SizeOf
  <1> SUFFICES ASSUME NEW s \in S PROVE b[s] = <<>>
    OBVIOUS
  <1>2. b[s] \in Seq(Nat)
    BY DEF Buffers
  <1>3. \A i \in 1 .. Len(b[s]) : <<s, i>> \in Chunks(b, S)
    BY InChunks
  <1>4. Len(b[s]) = 0
    BY <1>1, <1>2, <1>3
  <1> QED  BY <1>2, <1>4

(* One entry counts for its length. *)
LEMMA SizeOfOne ==
  ASSUME NEW b \in Buffers, NEW s \in SN
  PROVE  SizeOf(b, {s}) = Len(b[s])
  <1>1. b[s] \in Seq(Nat)
    BY DEF Buffers
  <1>2. DOMAIN b[s] = 1 .. Len(b[s]) /\ Len(b[s]) \in Nat
    BY <1>1
  <1>3. Chunks(b, {s}) = {s} \X (1 .. Len(b[s]))
    BY <1>2 DEF Chunks
  <1> DEFINE n == Len(b[s])
  <1> HIDE DEF n
  <1>4. IsFiniteSet({s}) /\ Cardinality({s}) = 1
    BY FS_Singleton
  <1>5. n \in Nat
    BY <1>2 DEF n
  <1>6. IsFiniteSet(1 .. n) /\ Cardinality(1 .. n) = n
    <2>1. /\ IsFiniteSet(1 .. n)
          /\ Cardinality(1 .. n) = IF 1 > n THEN 0 ELSE n - 1 + 1
      BY <1>5, FS_Interval
    <2> QED  BY <2>1, <1>5
  <1>7. Cardinality({s} \X (1 .. n)) = Cardinality({s}) * Cardinality(1 .. n)
    BY <1>4, <1>6, FS_Product
  <1>8. Cardinality({s} \X (1 .. n)) = n
    BY <1>4, <1>5, <1>6, <1>7
  <1> QED  BY <1>3, <1>8 DEF SizeOf, n

(* Clearing part of a buffer takes its size away. *)
LEMMA SizeOfClear ==
  ASSUME NEW b \in Buffers, NEW S \in SUBSET SN
  PROVE  /\ Clear(b, S) \in Buffers
         /\ SizeOf(Clear(b, S), SN) = SizeOf(b, SN) - SizeOf(b, S)
  <1> DEFINE c == Clear(b, S)
             R == SN \ S
  <1>1. c \in Buffers
    BY DEF Clear, Buffers
  <1>2. (\A s \in S : c[s] = <<>>) /\ (\A s \in R : c[s] = b[s])
    BY DEF Clear
  <1>3. S \cup R = SN /\ S \cap R = {} /\ R \in SUBSET SN
    OBVIOUS
  <1> HIDE DEF c, R
  <1>4. SizeOf(b, SN) = SizeOf(b, S) + SizeOf(b, R)
    BY <1>3, SizeOfParts
  <1>5. SizeOf(c, SN) = SizeOf(c, S) + SizeOf(c, R)
    BY <1>1, <1>3, SizeOfParts
  <1>6. SizeOf(c, S) = 0
    BY <1>1, <1>2, SizeOfEmpty
  <1>7. SizeOf(c, R) = SizeOf(b, R)
    BY <1>2, SizeOfSame
  <1>8. SizeOf(b, S) \in Nat /\ SizeOf(b, R) \in Nat
    BY <1>3, ChunksFinite
  <1> QED  BY <1>1, <1>4, <1>5, <1>6, <1>7, <1>8 DEF c

(* Entries N come from another buffer, entries A are cleared. *)
LEMMA SizeOfMoved ==
  ASSUME NEW b \in Buffers, NEW c \in Buffers,
         NEW N \in SUBSET SN, NEW A \in SUBSET SN, N \cap A = {},
         \A s \in N : c[s] = <<>>
  PROVE  LET r == [s \in SN |-> IF s \in N THEN b[s]
                                ELSE IF s \in A THEN <<>> ELSE c[s]]
         IN  /\ r \in Buffers
             /\ SizeOf(r, SN) = SizeOf(c, SN) + SizeOf(b, N) - SizeOf(c, A)
  <1> DEFINE r == [s \in SN |-> IF s \in N THEN b[s]
                                ELSE IF s \in A THEN <<>> ELSE c[s]]
             R == SN \ (N \cup A)
  <1>1. r \in Buffers
    BY DEF Buffers
  <1>2. /\ \A s \in N : r[s] = b[s]
        /\ \A s \in A : r[s] = <<>>
        /\ \A s \in R : r[s] = c[s]
    OBVIOUS
  <1>3. /\ N \cup (A \cup R) = SN /\ N \cap (A \cup R) = {} /\ A \cap R = {}
        /\ R \in SUBSET SN /\ A \cup R \in SUBSET SN
    OBVIOUS
  <1> HIDE DEF r, R
  <1>4. ASSUME NEW x \in Buffers
        PROVE  SizeOf(x, SN) = SizeOf(x, N) + (SizeOf(x, A) + SizeOf(x, R))
    <2>1. SizeOf(x, SN) = SizeOf(x, N) + SizeOf(x, A \cup R)
      BY <1>3, SizeOfParts
    <2>2. SizeOf(x, A \cup R) = SizeOf(x, A) + SizeOf(x, R)
      BY <1>3, SizeOfParts
    <2> QED  BY <2>1, <2>2
  <1>5. SizeOf(r, N) = SizeOf(b, N) /\ SizeOf(r, R) = SizeOf(c, R)
    BY <1>2, SizeOfSame
  <1>6. SizeOf(r, A) = 0 /\ SizeOf(c, N) = 0
    BY <1>1, <1>2, SizeOfEmpty
  <1>7. SizeOf(b, N) \in Nat /\ SizeOf(c, R) \in Nat /\ SizeOf(c, A) \in Nat
    BY <1>3, ChunksFinite
  <1>8. SizeOf(r, SN) = SizeOf(c, SN) + SizeOf(b, N) - SizeOf(c, A)
    <2>1. SizeOf(r, SN) = SizeOf(r, N) + (SizeOf(r, A) + SizeOf(r, R))
      BY <1>1, <1>4
    <2>2. SizeOf(c, SN) = SizeOf(c, N) + (SizeOf(c, A) + SizeOf(c, R))
      BY <1>4
    <2> QED  BY <2>1, <2>2, <1>5, <1>6, <1>7
  <1> QED  BY <1>1, <1>8 DEF r

(* One entry replaced. *)
LEMMA SizeOfExcept ==
  ASSUME NEW b \in Buffers, NEW s \in SN, NEW d \in Seq(Nat)
  PROVE  /\ [b EXCEPT ![s] = d] \in Buffers
         /\ SizeOf([b EXCEPT ![s] = d], SN) = SizeOf(b, SN) - Len(b[s]) + Len(d)
  <1> DEFINE c == [b EXCEPT ![s] = d]
             R == SN \ {s}
  <1>1. c \in Buffers /\ c[s] = d /\ \A t \in R : c[t] = b[t]
    BY DEF Buffers
  <1>2. {s} \cup R = SN /\ {s} \cap R = {} /\ R \in SUBSET SN /\ {s} \in SUBSET SN
    OBVIOUS
  <1> HIDE DEF c, R
  <1>3. SizeOf(b, SN) = SizeOf(b, {s}) + SizeOf(b, R)
    BY <1>2, SizeOfParts
  <1>4. SizeOf(c, SN) = SizeOf(c, {s}) + SizeOf(c, R)
    BY <1>1, <1>2, SizeOfParts
  <1>5. SizeOf(c, R) = SizeOf(b, R)
    BY <1>1, SizeOfSame
  <1>6. SizeOf(b, {s}) = Len(b[s]) /\ SizeOf(c, {s}) = Len(d)
    BY <1>1, SizeOfOne
  <1>7. SizeOf(b, {s}) \in Nat /\ SizeOf(b, R) \in Nat /\ Len(d) \in Nat
    BY <1>2, ChunksFinite
  <1>8. SizeOf(c, SN) = SizeOf(b, SN) - Len(b[s]) + Len(d)
    BY <1>3, <1>4, <1>5, <1>6, <1>7
  <1> QED  BY <1>1, <1>8 DEF c

-----------------------------------------------------------------------------
(* The inductive invariant.                                                *)

SenderType ==
  /\ accepted \in Nat /\ taken \in Nat /\ sent \in Nat /\ vtA \in SN
  /\ txed \in Buffers /\ retx \in Buffers /\ retxSeg \in [SN -> Nat]

SegmentsOfRetx == \A s \in SN : retxSeg[s] # 0 => retx[s] # <<>>

SenderInv == SenderType /\ SenderAccounts /\ SegmentsOfRetx

(* Nothing is sent at first. *)
LEMMA SenderInit ==
  ASSUME Init
  PROVE  SenderInv
  <1>1. 0 \in SN
    BY ModulusPositive DEF SN
  <1>2. SenderType
    BY <1>1 DEF Init, SenderType, Buffers
  <1>3. vtS = 0 /\ Dist(vtA, vtS) = 0
    BY <1>1, Remainder DEF Init, vtS, Dist
  <1>4. \A s \in SN : txed[s] = <<>> /\ retx[s] = <<>> /\ retxSeg[s] = 0
    BY DEF Init
  <1>5. SizeOf(txed, SN) = 0 /\ SizeOf(retx, SN) = 0
    BY <1>2, <1>4, SizeOfEmpty DEF SenderType
  <1>6. SenderAccounts
    BY <1>3, <1>4, <1>5, ModulusPositive DEF Init, SenderAccounts
  <1> QED  BY <1>2, <1>4, <1>6 DEF SenderInv, SegmentsOfRetx

(* VT(S) is a number outside of the window's used part. *)
LEMMA VtSIs ==
  ASSUME SenderInv
  PROVE  /\ vtS \in SN /\ vtS \notin Between(vtA, vtS)
         /\ Dist(vtA, vtS) \in Nat
         /\ txed[vtS] = <<>> /\ retx[vtS] = <<>> /\ retxSeg[vtS] = 0
  <1>1. vtS \in SN
    BY Remainder DEF SenderInv, SenderType, vtS
  <1>2. Dist(vtA, vtS) \in SN
    BY <1>1, DistIs DEF SenderInv, SenderType
  <1>3. Dist(vtA, vtS) \in Nat
    BY <1>2 DEF SN
  <1>4. vtS \notin Between(vtA, vtS)
    BY <1>3 DEF Between
  <1> QED  BY <1>1, <1>3, <1>4 DEF SenderInv, SenderAccounts, SegmentsOfRetx

(* A new PDU takes the next number, which is free. *)
LEMMA BuildPduPreserves ==
  ASSUME SenderInv, NEW size \in Sizes, BuildPdu(size)
  PROVE  SenderInv'
  <1> DEFINE count == Min({size, txon})
             data == [i \in 1 .. count |-> taken + i - 1]
  <1>1. count \in Nat /\ count > 0
    <2>1. size \in Nat /\ size > 0 /\ txon > 0
      BY SizeAssumption DEF BuildPdu
    <2>2. txon \in Int
      BY SizeAssumption DEF txon, SenderInv, SenderType
    <2>3. Min({size, txon}) = IF size <= txon THEN size ELSE txon
      BY <2>1, <2>2 DEF Min
    <2> QED  BY <2>1, <2>2, <2>3
  <1>2. /\ txed' = [txed EXCEPT ![vtS] = data] /\ txedSize' = txedSize + count
        /\ taken' = taken + count /\ sent' = sent + 1
        /\ UNCHANGED <<accepted, vtA, retx, retxSeg, retxSize>>
        /\ Dist(vtA, vtS) < WindowSize
    BY DEF BuildPdu, InTransmittingWindow
  <1> HIDE DEF count
  <1>3. data \in Seq(Nat) /\ Len(data) = count /\ data # <<>>
    <2>1. \A i \in 1 .. count : taken + i - 1 \in Nat
      BY <1>1 DEF SenderInv, SenderType
    <2> QED  BY <1>1, <2>1
  <1> HIDE DEF data
  <1>4. /\ txed' \in Buffers
        /\ SizeOf(txed', SN) = SizeOf(txed, SN) - Len(txed[vtS]) + count
    BY <1>2, <1>3, VtSIs, SizeOfExcept DEF SenderInv, SenderType
  <1>5. SizeOf(txed', SN) = txedSize'
    <2>1. Len(txed[vtS]) = 0
      BY VtSIs
    <2>2. SizeOf(txed, SN) \in Nat
      BY ChunksFinite DEF SenderInv, SenderType
    <2> QED  BY <1>1, <1>2, <1>4, <2>1, <2>2 DEF SenderInv, SenderAccounts
  <1>6. vtS' \in SN /\ Dist(vtA, vtS') = Dist(vtA, vtS) + 1
    <2>1. Dist(vtA, vtS) < Modulus - 1
      BY <1>2, VtSIs, ModulusPositive
    <2>2. Dist(vtA, (sent + 1) % Modulus) = Dist(vtA, sent % Modulus) + 1
      BY <2>1, DistNext DEF SenderInv, SenderType, vtS
    <2>3. (sent + 1) % Modulus \in SN
      BY Remainder DEF SenderInv, SenderType
    <2> QED  BY <1>2, <2>2, <2>3 DEF vtS
  <1>7. \A s \in SN : s \in Between(vtA, vtS) \/ s = vtS => s \in Between(vtA, vtS')
    <2> SUFFICES ASSUME NEW s \in SN, s \in Between(vtA, vtS) \/ s = vtS
                 PROVE  Dist(vtA, s) < Dist(vtA, vtS')
      BY DEF Between
    <2>1. Dist(vtA, s) \in Nat
      <3>1. Dist(vtA, s) \in SN
        BY DistIs DEF SenderInv, SenderType
      <3> QED  BY <3>1 DEF SN
    <2>2. Dist(vtA, s) <= Dist(vtA, vtS)
      BY <2>1, VtSIs DEF Between
    <2> QED  BY <1>6, <2>1, <2>2, VtSIs
  <1>8. \A s \in SN : txed'[s] = IF s = vtS THEN data ELSE txed[s]
    BY <1>2, VtSIs DEF SenderInv, SenderType, Buffers
  <1>9. SenderType'
    BY <1>1, <1>2, <1>4 DEF SenderInv, SenderType
  <1>10. Dist(vtA', vtS') <= WindowSize
    BY <1>2, <1>6, VtSIs, ModulusPositive
  <1>11. retxSize' = SizeOf(retx', SN)
    BY <1>2 DEF SenderInv, SenderAccounts
  <1>12. \A s \in SN : txed'[s] # <<>> => retx'[s] = <<>> /\ retxSeg'[s] = 0
    BY <1>2, <1>8, VtSIs DEF SenderInv, SenderAccounts
  <1>13. \A s \in SN : txed'[s] # <<>> \/ retx'[s] # <<>> =>
                         s \in Between(vtA', vtS')
    BY <1>2, <1>7, <1>8 DEF SenderInv, SenderAccounts
  <1>14. SegmentsOfRetx'
    BY <1>2 DEF SenderInv, SegmentsOfRetx
  <1>15. SenderAccounts'
    BY <1>5, <1>10, <1>11, <1>12, <1>13 DEF SenderAccounts
  <1> QED  BY <1>9, <1>14, <1>15 DEF SenderInv

(* There is a PDU to be sent again when the size says so. *)
LEMMA OldestRetxIs ==
  ASSUME SenderInv, retxSize > 0
  PROVE  /\ OldestRetx \in Between(vtA, vtS) /\ OldestRetx \in SN
         /\ retx[OldestRetx] # <<>>
         /\ \A t \in Between(vtA, OldestRetx) : retx[t] = <<>>
  <1> DEFINE Waiting == {s \in SN : retx[s] # <<>>}
             Dists == {Dist(vtA, s) : s \in Waiting}
  <1>1. vtA \in SN /\ retx \in Buffers /\ retxSize = SizeOf(retx, SN)
    BY DEF SenderInv, SenderType, SenderAccounts
  <1>2. Waiting # {}
    <2>1. CASE \A s \in SN : retx[s] = <<>>
      <3>1. SizeOf(retx, SN) = 0
        BY <1>1, <2>1, SizeOfEmpty
      <3> QED  BY <1>1, <3>1
    <2> QED  BY <2>1
  <1>3. \A s \in SN : Dist(vtA, s) \in Nat
    <2>1. \A s \in SN : Dist(vtA, s) \in SN
      BY <1>1, DistIs
    <2> QED  BY <2>1 DEF SN
  <1>4. Dists \subseteq Nat /\ Dists # {}
    BY <1>2, <1>3
  <1>5. PICK d \in Dists : \A e \in Dists : d <= e
    <2> HIDE DEF Dists
    <2> QED  BY <1>4, LeastNatural
  <1>6. PICK s \in Waiting : d = Dist(vtA, s)
    OBVIOUS
  <1>7. s \in Between(vtA, vtS)
    BY <1>6 DEF SenderInv, SenderAccounts
  <1>8. ASSUME NEW t \in Between(vtA, s) PROVE retx[t] = <<>>
    <2>1. t \in SN /\ Dist(vtA, t) < Dist(vtA, s)
      BY <1>8 DEF Between
    <2>2. t \notin Waiting
      <3>1. CASE t \in Waiting
        <4>1. Dist(vtA, s) <= Dist(vtA, t)
          BY <3>1, <1>5, <1>6
        <4> QED  BY <4>1, <2>1, <1>3, <1>6
      <3> QED  BY <3>1
    <2> QED  BY <2>1, <2>2
  <1>9. /\ OldestRetx \in Between(vtA, vtS)
        /\ retx[OldestRetx] # <<>>
        /\ \A t \in Between(vtA, OldestRetx) : retx[t] = <<>>
    BY <1>6, <1>7, <1>8 DEF OldestRetx
  <1> QED  BY <1>9 DEF Between

(* A PDU sent again goes back to the transmitted ones, or keeps its place. *)
LEMMA RetransmitPreserves ==
  ASSUME SenderInv, NEW size \in Sizes, Retransmit(size)
  PROVE  SenderInv'
  <1> DEFINE s == OldestRetx
  <1>1. s \in SN /\ retx[s] # <<>> /\ txed[s] = <<>>
    BY OldestRetxIs DEF Retransmit, SenderInv, SenderAccounts
  <1>2. /\ UNCHANGED <<accepted, taken, sent, vtA, vtS>>
        /\ RetransmitRest(s) \/ RetransmitPart(s, size)
    BY DEF Retransmit, vtS
  <1>3. size \in Nat /\ SN = SN'
    BY SizeAssumption DEF SN
  <1> HIDE DEF s
  <1>4. CASE RetransmitRest(s)
    <2>1. /\ txed' = [txed EXCEPT ![s] = retx[s]]
          /\ txedSize' = txedSize + Len(retx[s])
          /\ retx' = [retx EXCEPT ![s] = <<>>]
          /\ retxSize' = retxSize - Len(retx[s])
          /\ retxSeg' = [retxSeg EXCEPT ![s] = 0]
      BY <1>4 DEF RetransmitRest
    <2>2. retx[s] \in Seq(Nat) /\ <<>> \in Seq(Nat) /\ Len(retx[s]) \in Nat
      BY <1>1 DEF SenderInv, SenderType, Buffers
    <2>3. /\ txed' \in Buffers /\ retx' \in Buffers
          /\ SizeOf(txed', SN) = SizeOf(txed, SN) - Len(txed[s]) + Len(retx[s])
          /\ SizeOf(retx', SN) = SizeOf(retx, SN) - Len(retx[s]) + Len(<<>>)
      BY <1>1, <2>1, <2>2, SizeOfExcept DEF SenderInv, SenderType
    <2>4. /\ SizeOf(txed, SN) \in Nat /\ SizeOf(retx, SN) \in Nat
          /\ Len(txed[s]) = 0 /\ Len(<<>>) = 0
      BY <1>1, ChunksFinite DEF SenderInv, SenderType
    <2>5. txedSize' = SizeOf(txed', SN) /\ retxSize' = SizeOf(retx', SN)
      BY <2>1, <2>2, <2>3, <2>4 DEF SenderInv, SenderAccounts
    <2>6. \A t \in SN : /\ txed'[t] = IF t = s THEN retx[s] ELSE txed[t]
                        /\ retx'[t] = IF t = s THEN <<>> ELSE retx[t]
                        /\ retxSeg'[t] = IF t = s THEN 0 ELSE retxSeg[t]
      BY <2>1 DEF SenderInv, SenderType, Buffers
    <2>7. SenderType'
      BY <1>2, <2>1, <2>3 DEF SenderInv, SenderType
    <2>8. SegmentsOfRetx'
      BY <2>6 DEF SenderInv, SegmentsOfRetx
    <2>9. Dist(vtA', vtS') <= WindowSize /\ Between(vtA', vtS') = Between(vtA, vtS)
      BY <1>2 DEF SenderInv, SenderAccounts
    <2>10. SenderAccounts'
      BY <1>1, <2>5, <2>6, <2>9 DEF SenderInv, SenderAccounts
    <2> QED  BY <2>7, <2>8, <2>10 DEF SenderInv
  <1>5. CASE RetransmitPart(s, size)
    <2>1. /\ UNCHANGED <<txed, txedSize, retx, retxSize>>
          /\ \/ UNCHANGED retxSeg
             \/ retxSeg' = [retxSeg EXCEPT ![s] = @ + size]
      BY <1>5 DEF RetransmitPart
    <2>2. SenderType'
      BY <1>1, <1>2, <1>3, <2>1 DEF SenderInv, SenderType
    <2>3. \A t \in SN : t # s => retxSeg'[t] = retxSeg[t]
      BY <2>1 DEF SenderInv, SenderType
    <2>4. SegmentsOfRetx'
      BY <1>1, <2>1, <2>3 DEF SenderInv, SegmentsOfRetx
    <2>5. Dist(vtA', vtS') <= WindowSize /\ Between(vtA', vtS') = Between(vtA, vtS)
      BY <1>2 DEF SenderInv, SenderAccounts
    <2>6. SenderAccounts'
      BY <1>1, <2>1, <2>3, <2>5 DEF SenderInv, SenderAccounts
    <2> QED  BY <2>2, <2>4, <2>6 DEF SenderInv
  <1> QED  BY <1>2, <1>4, <1>5

(* VT(A) moves up over what is acknowledged, and not past VT(S). *)
LEMMA MovedUp ==
  ASSUME NEW a \in SN, NEW b \in SN, NEW acked, acked \subseteq Between(a, b)
  PROVE  LET k == RunLength(a, acked)
             c == FirstNotIn(a, acked)
         IN  /\ k \in Nat /\ k <= Dist(a, b) /\ c \in SN
             /\ Dist(c, b) = Dist(a, b) - k
             /\ \A s \in Between(a, b) \ acked : s \in Between(c, b)
  <1> DEFINE k == RunLength(a, acked)
             c == FirstNotIn(a, acked)
             d == Dist(a, b)
  <1>1. /\ k \in 0 .. Modulus
        /\ \A i \in 0 .. k - 1 : (a + i) % Modulus \in acked
    BY RunLengthIs
  <1>2. d \in SN /\ d \in Nat
    <2>1. d \in SN
      BY DistIs
    <2> QED  BY <2>1 DEF SN
  <1>3. c = (a + k) % Modulus
    BY DEF FirstNotIn
  <1> HIDE DEF k, c
  <1>4. k <= d
    <2> SUFFICES ASSUME d < k PROVE FALSE
      BY <1>1, <1>2
    <2>1. (a + d) % Modulus \in Between(a, b)
      BY <1>1, <1>2
    <2>2. Dist(a, (a + d) % Modulus) = d
      BY <1>2, DistFrom
    <2> QED  BY <1>2, <2>1, <2>2 DEF Between
  <1>5. c \in SN /\ Dist(c, b) = d - k
    BY <1>1, <1>3, <1>4, DistFrom
  <1>6. ASSUME NEW s \in Between(a, b) \ acked PROVE s \in Between(c, b)
    <2> DEFINE j == Dist(a, s)
    <2>1. s \in SN /\ j < d
      BY <1>6 DEF Between
    <2>2. j \in Nat
      <3>1. j \in SN
        BY <2>1, DistIs
      <3> QED  BY <3>1 DEF SN
    <2>3. (a + j) % Modulus = s
      <3>1. /\ (a + j) % Modulus \in SN
            /\ Dist((a + j) % Modulus, s) = j - j
        BY <2>1, <2>2, DistFrom
      <3> DEFINE t == (a + j) % Modulus
      <3>2. t \in SN /\ Dist(t, s) = 0
        BY <2>2, <3>1
      <3> HIDE DEF t
      <3>3. Dist(t, s) = IF s >= t THEN s - t ELSE s - t + Modulus
        BY <2>1, <3>2, DistIs
      <3>4. t = s
        BY <2>1, <3>2, <3>3, ModulusPositive DEF SN
      <3> QED  BY <3>4 DEF t
    <2>4. k <= j
      BY <1>1, <2>2, <2>3
    <2>5. Dist(c, s) = j - k
      BY <1>1, <1>3, <2>1, <2>4, DistFrom
    <2> QED  BY <1>1, <1>2, <1>5, <2>1, <2>2, <2>5 DEF Between
  <1> QED  BY <1>1, <1>4, <1>5, <1>6 DEF k, c

(* A STATUS, right or wrong, old or new, leaves the accounts in order. *)
LEMMA ReceiveStatusPreserves ==
  ASSUME SenderInv, NEW m \in up, ReceiveStatus(m)
  PROVE  SenderInv'
  <1> DEFINE covered == Covered(m)
             nacked == {s \in covered \cap m.nacks : txed[s] # <<>>}
             acked == covered \ m.nacks
  <1>1. /\ retx' = [s \in SN |-> IF s \in nacked THEN txed[s]
                                 ELSE IF s \in acked THEN <<>> ELSE retx[s]]
        /\ retxSize' = retxSize + SizeOf(txed, nacked) - SizeOf(retx, acked)
        /\ txed' = Clear(txed, nacked \cup acked)
        /\ txedSize' = txedSize - SizeOf(txed, nacked \cup acked)
        /\ retxSeg' = [s \in SN |-> IF s \in acked THEN 0 ELSE retxSeg[s]]
        /\ vtA' = FirstNotIn(vtA, acked)
        /\ UNCHANGED <<accepted, taken, sent, vtS>>
    BY DEF ReceiveStatus, vtS
  <1>2. /\ acked \subseteq Between(vtA, vtS) /\ acked \subseteq SN
        /\ nacked \subseteq SN /\ nacked \cup acked \subseteq SN
        /\ nacked \cap acked = {}
        /\ \A s \in nacked : txed[s] # <<>>
    BY DEF Covered, Between
  <1> HIDE DEF covered, nacked, acked
  <1>3. \A s \in nacked : retx[s] = <<>>
    BY <1>2 DEF SenderInv, SenderAccounts
  <1>4. txed \in Buffers /\ retx \in Buffers /\ vtA \in SN /\ vtS \in SN
    BY VtSIs DEF SenderInv, SenderType
  <1>5. /\ retx' \in Buffers
        /\ SizeOf(retx', SN) =
             SizeOf(retx, SN) + SizeOf(txed, nacked) - SizeOf(retx, acked)
    BY <1>1, <1>2, <1>3, <1>4, SizeOfMoved
  <1>6. /\ txed' \in Buffers
        /\ SizeOf(txed', SN) = SizeOf(txed, SN) - SizeOf(txed, nacked \cup acked)
    BY <1>1, <1>2, <1>4, SizeOfClear
  <1>7. txedSize' = SizeOf(txed', SN) /\ retxSize' = SizeOf(retx', SN)
    BY <1>1, <1>5, <1>6 DEF SenderInv, SenderAccounts
  <1>8. \A s \in SN :
          /\ txed'[s] = IF s \in nacked \cup acked THEN <<>> ELSE txed[s]
          /\ retx'[s] = IF s \in nacked THEN txed[s]
                        ELSE IF s \in acked THEN <<>> ELSE retx[s]
          /\ retxSeg'[s] = IF s \in acked THEN 0 ELSE retxSeg[s]
    BY <1>1 DEF Clear
  <1>9. /\ vtA' \in SN /\ Dist(vtA', vtS) <= Dist(vtA, vtS)
        /\ \A s \in Between(vtA, vtS) \ acked : s \in Between(vtA', vtS)
    <2>1. /\ RunLength(vtA, acked) \in Nat
          /\ RunLength(vtA, acked) <= Dist(vtA, vtS)
          /\ FirstNotIn(vtA, acked) \in SN
          /\ Dist(FirstNotIn(vtA, acked), vtS) =
               Dist(vtA, vtS) - RunLength(vtA, acked)
          /\ \A s \in Between(vtA, vtS) \ acked :
               s \in Between(FirstNotIn(vtA, acked), vtS)
      BY <1>2, <1>4, MovedUp
    <2> QED  BY <1>1, <2>1, VtSIs
  <1>10. Dist(vtA', vtS') \in Nat /\ Dist(vtA', vtS') <= WindowSize
    <2>1. Dist(vtA', vtS) \in SN
      BY <1>4, <1>9, DistIs
    <2>2. Dist(vtA', vtS) \in Nat
      BY <2>1 DEF SN
    <2>3. Dist(vtA, vtS) <= WindowSize
      BY DEF SenderInv, SenderAccounts
    <2> QED  BY <1>1, <1>9, <2>2, <2>3, VtSIs, ModulusPositive
  <1>11. SenderType'
    <2>1. retxSeg' \in [SN -> Nat]
      BY <1>1 DEF SenderInv, SenderType
    <2> QED  BY <1>1, <1>5, <1>6, <1>9, <2>1 DEF SenderInv, SenderType
  <1>12. SegmentsOfRetx'
    BY <1>2, <1>3, <1>8 DEF SenderInv, SegmentsOfRetx
  <1>13. \A s \in SN : txed'[s] # <<>> => retx'[s] = <<>> /\ retxSeg'[s] = 0
    BY <1>8 DEF SenderInv, SenderAccounts
  <1>14. \A s \in SN : txed'[s] # <<>> \/ retx'[s] # <<>> =>
                         s \in Between(vtA', vtS')
    <2> SUFFICES ASSUME NEW s \in SN, txed'[s] # <<>> \/ retx'[s] # <<>>
                 PROVE  s \in Between(vtA', vtS')
      OBVIOUS
    <2>1. s \notin acked /\ (txed[s] # <<>> \/ retx[s] # <<>>)
      BY <1>2, <1>8
    <2>2. s \in Between(vtA, vtS)
      BY <2>1 DEF SenderInv, SenderAccounts
    <2>3. s \in Between(vtA', vtS)
      BY <1>9, <2>1, <2>2
    <2> QED  BY <1>1, <2>3
  <1>15. SenderAccounts'
    BY <1>7, <1>10, <1>13, <1>14 DEF SenderAccounts
  <1> QED  BY <1>11, <1>12, <1>15 DEF SenderInv

(* Everything is moved to the PDUs to be sent again. *)
LEMMA ExpirePollRetransmitTimerPreserves ==
  ASSUME SenderInv, ExpirePollRetransmitTimer
  PROVE  SenderInv'
  <1> DEFINE again == {s \in Between(vtA, vtS) : txed[s] # <<>>}
  <1>1. UNCHANGED <<accepted, taken, sent, vtA, vtS, retxSeg>>
    BY DEF ExpirePollRetransmitTimer, vtS
  <1>2. \/ UNCHANGED <<retx, retxSize, txed, txedSize>>
        \/ /\ retx' = [s \in SN |-> IF s \in again THEN txed[s] ELSE retx[s]]
           /\ retxSize' = retxSize + SizeOf(txed, again)
           /\ txed' = Clear(txed, again)
           /\ txedSize' = txedSize - SizeOf(txed, again)
    BY DEF ExpirePollRetransmitTimer
  <1>3. CASE UNCHANGED <<retx, retxSize, txed, txedSize>>
    BY <1>1, <1>3 DEF SenderInv, SenderType, SenderAccounts, SegmentsOfRetx,
                      Between, Dist
  <1>4. CASE /\ retx' = [s \in SN |-> IF s \in again THEN txed[s] ELSE retx[s]]
             /\ retxSize' = retxSize + SizeOf(txed, again)
             /\ txed' = Clear(txed, again)
             /\ txedSize' = txedSize - SizeOf(txed, again)
    <2>1. /\ again \subseteq SN /\ again \cap {} = {} /\ {} \subseteq SN
          /\ again \subseteq Between(vtA, vtS)
          /\ \A s \in again : txed[s] # <<>>
      BY DEF Between
    <2> HIDE DEF again
    <2>2. \A s \in again : retx[s] = <<>> /\ retxSeg[s] = 0
      BY <2>1 DEF SenderInv, SenderAccounts
    <2>3. txed \in Buffers /\ retx \in Buffers
      BY DEF SenderInv, SenderType
    <2> DEFINE none == {s \in SN : FALSE}
    <2>0. none = {} /\ none \in SUBSET SN /\ again \cap none = {}
      OBVIOUS
    <2> HIDE DEF none
    <2> DEFINE r == [s \in SN |-> IF s \in again THEN txed[s]
                                  ELSE IF s \in none THEN <<>> ELSE retx[s]]
    <2>4. /\ r \in Buffers
          /\ SizeOf(r, SN) = SizeOf(retx, SN) + SizeOf(txed, again) - SizeOf(retx, none)
      BY <2>0, <2>1, <2>2, <2>3, SizeOfMoved
    <2>5. retx' = r
      BY <1>4, <2>0
    <2>6. SizeOf(retx, none) = 0
      BY <2>0, <2>1, <2>3, SizeOfEmpty
    <2>7. SizeOf(retx, SN) \in Nat /\ SizeOf(txed, again) \in Nat
      BY <2>1, <2>3, ChunksFinite
    <2> HIDE DEF r
    <2>8. retx' \in Buffers /\ retxSize' = SizeOf(retx', SN)
      BY <1>4, <2>4, <2>5, <2>6, <2>7 DEF SenderInv, SenderAccounts
    <2>9. txed' \in Buffers /\ txedSize' = SizeOf(txed', SN)
      <3>1. /\ Clear(txed, again) \in Buffers
            /\ SizeOf(Clear(txed, again), SN) = SizeOf(txed, SN) - SizeOf(txed, again)
        BY <2>1, <2>3, SizeOfClear
      <3> QED  BY <1>4, <3>1 DEF SenderInv, SenderAccounts
    <2>10. \A s \in SN :
             /\ txed'[s] = IF s \in again THEN <<>> ELSE txed[s]
             /\ retx'[s] = IF s \in again THEN txed[s] ELSE retx[s]
      BY <1>4 DEF Clear
    <2>11. SenderType'
      BY <1>1, <2>8, <2>9 DEF SenderInv, SenderType
    <2>12. SegmentsOfRetx'
      BY <1>1, <2>2, <2>10 DEF SenderInv, SegmentsOfRetx
    <2>13. Dist(vtA', vtS') <= WindowSize /\ Between(vtA', vtS') = Between(vtA, vtS)
      BY <1>1 DEF SenderInv, SenderAccounts
    <2>14. \A s \in SN : txed'[s] # <<>> => retx'[s] = <<>> /\ retxSeg'[s] = 0
      BY <1>1, <2>10 DEF SenderInv, SenderAccounts
    <2>15. \A s \in SN : txed'[s] # <<>> \/ retx'[s] # <<>> =>
                           s \in Between(vtA', vtS')
      BY <2>10, <2>13 DEF SenderInv, SenderAccounts
    <2>16. SenderAccounts'
      BY <2>8, <2>9, <2>13, <2>14, <2>15 DEF SenderAccounts
    <2> QED  BY <2>11, <2>12, <2>16 DEF SenderInv
  <1> QED  BY <1>2, <1>3, <1>4

(* What leaves the sender alone, but for the SDUs it accepts. *)
LEMMA OthersPreserve ==
  ASSUME SenderInv, accepted' \in Nat,
         UNCHANGED <<taken, sent, vtA, txed, retx, retxSeg, txedSize, retxSize>>
  PROVE  SenderInv'
  BY DEF SenderInv, SenderType, SenderAccounts, SegmentsOfRetx, Between, Dist, vtS

(* Every step keeps the accounts. *)
LEMMA SenderNext ==
  ASSUME SenderInv, [Next]_vars
  PROVE  SenderInv'
  <1>0. accepted \in Nat
    BY DEF SenderInv, SenderType
  <1>1. CASE DoTransmitPdcpPdu
    <2>1. accepted' \in Nat
      BY <1>0, <1>1 DEF DoTransmitPdcpPdu
    <2> QED  BY <1>1, <2>1, OthersPreserve DEF DoTransmitPdcpPdu
  <1>2. CASE \E size \in Sizes : BuildPdu(size)
    BY <1>2, BuildPduPreserves
  <1>3. CASE \E size \in Sizes : Retransmit(size)
    BY <1>3, RetransmitPreserves
  <1>4. CASE \E s \in SN : Receive(s)
    BY <1>0, <1>4, OthersPreserve DEF Receive, ReceivePdu, txVars
  <1>5. CASE Answer
    BY <1>5, ReceiveStatusPreserves DEF Answer
  <1>6. CASE \E room \in NackRoom : SendStatus(room)
    BY <1>0, <1>6, OthersPreserve DEF SendStatus, txVars
  <1>7. CASE ExpirePollRetransmitTimer
    BY <1>7, ExpirePollRetransmitTimerPreserves
  <1>8. CASE ExpireReorderingTimer
    BY <1>0, <1>8, OthersPreserve DEF ExpireReorderingTimer, txVars
  <1>9. CASE ExpireStatusProhibitTimer
    BY <1>0, <1>9, OthersPreserve DEF ExpireStatusProhibitTimer, txVars
  <1>10. CASE \E p \in down : LosePdu(p)
    BY <1>0, <1>10, OthersPreserve DEF LosePdu, txVars
  <1>11. CASE \E m \in up : LoseStatus(m)
    BY <1>0, <1>11, OthersPreserve DEF LoseStatus, txVars
  <1>12. CASE UNCHANGED vars
    BY <1>0, <1>12, OthersPreserve DEF vars, txVars
  <1> QED
    BY <1>1, <1>2, <1>3, <1>4, <1>5, <1>6, <1>7, <1>8, <1>9, <1>10, <1>11, <1>12
       DEF Next

-----------------------------------------------------------------------------
(* What the sender of an AM bearer keeps adds up, for every window and     *)
(* number space, whatever comes back to it: it is never more than a window *)
(* ahead, each PDU is kept once and inside the window, and the sizes       *)
(* reported to the scheduler are true.                                     *)
THEOREM SenderAccountsHold == Spec => []SenderAccounts
  <1>1. Init => SenderInv
    BY SenderInit
  <1>2. SenderInv /\ [Next]_vars => SenderInv'
    BY SenderNext
  <1>3. SenderInv => SenderAccounts
    BY DEF SenderInv
  <1> QED  BY <1>1, <1>2, <1>3, PTL DEF Spec

=============================================================================
