---------------------------- MODULE CorParserProofs ----------------------------
(***************************************************************************)
(* Proofs about CorParser: the loop of cor_parser_parse ends, and however TCP *)
(* cuts the bytes of a connection, the parser hands over the frames that were *)
(* written, whole, each once and in their order, for any frames whose ids and *)
(* body lengths fit in 32 bits.                                               *)
(*                                                                           *)
(* The bytes written so far are described by where each frame begins (Wire),  *)
(* the parser by how far it is in them (At).  A pass of the loop moves it     *)
(* along the wire (PassStep) and leaves less to do (Left), so that MaxPasses  *)
(* passes finish (LoopEnds).  Induction over the passes is an argument on the *)
(* least pass that fails (LeastElement).                                      *)
(***************************************************************************)
EXTENDS CorParser, SequenceTheorems, FiniteSetTheorems, WellFoundedInduction, TLAPS

Byte == 0..255

-----------------------------------------------------------------------------
(* Bytes and numbers *)

LEMMA SequenceIs ==
  ASSUME NEW S, NEW n \in Nat, NEW s \in [1..n -> S]
  PROVE  s \in Seq(S) /\ Len(s) = n
<1>1. s \in Seq(S)
  BY SeqDef
<1>2. Len(s) \in Nat /\ DOMAIN s = 1..Len(s)
  BY <1>1, LenProperties
<1>3. 1..n = 1..Len(s)
  BY <1>2
<1> QED
  BY <1>1, <1>2, <1>3

LEMMA WeightIs ==
  Weight[1] = 16777216 /\ Weight[2] = 65536 /\ Weight[3] = 256 /\ Weight[4] = 1
BY DEF Weight

\* The last byte of a number and what is in front of it.
Front8(n) == n \div 256
Last8(n) == n % 256

LEMMA Division ==
  ASSUME NEW n \in Nat
  PROVE  /\ n = (256 * Front8(n)) + Last8(n)
         /\ Front8(n) \in Nat /\ Last8(n) \in Byte /\ Last8(n) \in Nat
BY SMT DEF Front8, Last8, Byte

LEMMA DivisionBounds ==
  ASSUME NEW n \in Nat
  PROVE  /\ n < 256 => Last8(n) = n
         /\ n < 65536 => Front8(n) < 256
BY SMT DEF Front8, Last8

LEMMA DivisionTwice ==
  ASSUME NEW n \in Nat
  PROVE  /\ n \div 65536 = Front8(Front8(n))
         /\ n \div 16777216 = Front8(Front8(Front8(n)))
         /\ n \div 65536 < 65536 => Front8(Front8(Front8(n))) < 256
<1>1. (n \div 256) \div 256 = n \div 65536
  BY SMT
<1>2. (n \div 65536) \div 256 = n \div 16777216
  BY SMT
<1>3. n \div 65536 < 65536 => n \div 16777216 < 256
  BY SMT
<1>4. Front8(Front8(n)) = n \div 65536
  BY <1>1, SMT DEF Front8
<1>5. Front8(Front8(Front8(n))) = n \div 16777216
  BY <1>2, <1>4, SMT DEF Front8
<1> QED
  BY <1>3, <1>4, <1>5, SMT

LEMMA BytesOfTwo ==
  ASSUME NEW n \in Nat
  PROVE  /\ Bytes(n, 2) \in Seq(Byte) /\ Len(Bytes(n, 2)) = 2
         /\ Bytes(n, 2)[1] = Last8(Front8(n))
         /\ Bytes(n, 2)[2] = Last8(n)
<1> DEFINE w == Weight
           b == [i \in 1..2 |-> (n \div w[4 - 2 + i]) % 256]
<1>1. Bytes(n, 2) = b
  BY DEF Bytes
<1>2. w[3] = 256 /\ w[4] = 1
  BY WeightIs
<1> HIDE DEF w
<1>3. b[1] = (n \div 256) % 256 /\ b[2] = (n \div 1) % 256
  <2>1. b[1] = (n \div w[4 - 2 + 1]) % 256 /\ b[2] = (n \div w[4 - 2 + 2]) % 256
    OBVIOUS
  <2>2. 4 - 2 + 1 = 3 /\ 4 - 2 + 2 = 4
    OBVIOUS
  <2> QED
    BY <1>2, <2>1, <2>2
<1>4. n \div 1 = n
  BY SMT
<1> HIDE DEF b
<1>5. b[1] = Last8(Front8(n)) /\ b[2] = Last8(n)
  BY <1>3, <1>4, Zenon DEF Front8, Last8
<1>6. b[1] \in Byte /\ b[2] \in Byte
  BY <1>5, Division
<1>7. b \in [1..2 -> Byte]
  <2>1. \A i \in 1..2 : i = 1 \/ i = 2
    OBVIOUS
  <2>2. \A i \in 1..2 : b[i] \in Byte
    BY <1>6, <2>1
  <2>3. b = [i \in 1..2 |-> b[i]]
    BY DEF b
  <2> QED
    BY <2>2, <2>3
<1>8. b \in Seq(Byte) /\ Len(b) = 2
  BY <1>7, SequenceIs
<1> QED
  BY <1>1, <1>5, <1>8

LEMMA BytesOfOne ==
  ASSUME NEW n \in Nat
  PROVE  Bytes(n, 1) \in Seq(Byte) /\ Len(Bytes(n, 1)) = 1
<1> DEFINE b == [i \in 1..1 |-> (n \div Weight[4 - 1 + i]) % 256]
<1>1. Bytes(n, 1) = b
  BY DEF Bytes
<1>2. b[1] = (n \div 1) % 256
  <2>1. 4 - 1 + 1 = 4
    OBVIOUS
  <2> QED
    BY <2>1, WeightIs
<1>3. b \in [1..1 -> Byte]
  <2>1. \A i \in 1..1 : b[i] = (n \div 1) % 256
    BY <1>2
  <2>2. (n \div 1) % 256 \in Byte
    BY DEF Byte
  <2> HIDE DEF Byte
  <2> QED
    BY <2>1, <2>2
<1> HIDE DEF b
<1> QED
  BY <1>1, <1>3, SequenceIs

LEMMA BytesOfFour ==
  ASSUME NEW n \in Nat
  PROVE  /\ Bytes(n, 4) \in Seq(Byte) /\ Len(Bytes(n, 4)) = 4
         /\ Bytes(n, 4)[1] = Last8(Front8(Front8(Front8(n))))
         /\ Bytes(n, 4)[2] = Last8(Front8(Front8(n)))
         /\ Bytes(n, 4)[3] = Last8(Front8(n))
         /\ Bytes(n, 4)[4] = Last8(n)
<1> DEFINE w == Weight
           b == [i \in 1..4 |-> (n \div w[4 - 4 + i]) % 256]
<1>1. Bytes(n, 4) = b
  BY DEF Bytes
<1>2. w[1] = 16777216 /\ w[2] = 65536 /\ w[3] = 256 /\ w[4] = 1
  BY WeightIs
<1> HIDE DEF w
<1>3. \A i \in 1..4 : b[i] = (n \div w[i]) % 256
  OBVIOUS
<1> HIDE DEF b
<1>4. 1 \in 1..4 /\ 2 \in 1..4 /\ 3 \in 1..4 /\ 4 \in 1..4
  OBVIOUS
<1>5. /\ b[1] = (n \div w[1]) % 256 /\ b[2] = (n \div w[2]) % 256
      /\ b[3] = (n \div w[3]) % 256 /\ b[4] = (n \div w[4]) % 256
  BY <1>3, <1>4
<1>6. n \div 1 = n
  BY SMT
<1>7. /\ n \div w[1] = Front8(Front8(Front8(n))) /\ n \div w[2] = Front8(Front8(n))
      /\ n \div w[3] = Front8(n) /\ n \div w[4] = n
  <2>1. /\ n \div 16777216 = Front8(Front8(Front8(n))) /\ n \div 65536 = Front8(Front8(n))
    BY DivisionTwice
  <2>2. n \div 256 = Front8(n)
    BY DEF Front8
  <2> QED
    BY <1>2, <1>6, <2>1, <2>2
<1>8. /\ b[1] = Last8(Front8(Front8(Front8(n)))) /\ b[2] = Last8(Front8(Front8(n)))
      /\ b[3] = Last8(Front8(n)) /\ b[4] = Last8(n)
  BY <1>5, <1>7, Zenon DEF Last8
<1>9. b[1] \in Byte /\ b[2] \in Byte /\ b[3] \in Byte /\ b[4] \in Byte
  <2>1. Front8(n) \in Nat
    BY Division
  <2>2. Front8(Front8(n)) \in Nat
    BY <2>1, Division
  <2>3. Front8(Front8(Front8(n))) \in Nat
    BY <2>2, Division
  <2> QED
    BY <1>8, <2>1, <2>2, <2>3, Division
<1>10. b \in [1..4 -> Byte]
  <2>1. \A i \in 1..4 : i = 1 \/ i = 2 \/ i = 3 \/ i = 4
    OBVIOUS
  <2>2. \A i \in 1..4 : b[i] \in Byte
    BY <1>9, <2>1
  <2>3. b = [i \in 1..4 |-> b[i]]
    BY DEF b
  <2> QED
    BY <2>2, <2>3
<1>11. b \in Seq(Byte) /\ Len(b) = 4
  BY <1>10, SequenceIs
<1> QED
  BY <1>1, <1>8, <1>11

LEMMA BytesAreInt ==
  ASSUME NEW b \in Seq(Byte)
  PROVE  \A i \in 1..Len(b) : b[i] \in Byte /\ b[i] \in Int
<1>1. \A x \in Byte : x \in Int
  BY DEF Byte
<1>2. \A i \in 1..Len(b) : b[i] \in Byte
  BY LenProperties
<1> QED
  BY <1>1, <1>2

\* ntohs.
LEMMA FromTwoBytes ==
  ASSUME NEW b \in Seq(Byte), Len(b) = 2
  PROVE  FromBytes(b) = (b[1] * 256) + b[2]
<1> DEFINE Sums(f) == [k \in 0..Len(b) |-> IF k = 0 THEN 0 ELSE f[k - 1] * 256 + b[k]]
           value == CHOOSE f : f = Sums(f)
           s1 == b[1]
           s2 == s1 * 256 + b[2]
           g == [k \in 0..2 |-> IF k = 0 THEN 0 ELSE IF k = 1 THEN s1 ELSE s2]
<1>1. FromBytes(b) = value[Len(b)]
  BY DEF FromBytes
<1>2. b[1] \in Int
  BY BytesAreInt
<1>3. s1 = 0 * 256 + b[1]
  BY <1>2
<1> HIDE DEF s1
<1>4. s2 = s1 * 256 + b[2]
  OBVIOUS
<1> HIDE DEF s2
<1>5. g = Sums(g)
  <2>1. g[0] = 0 /\ g[1] = s1 /\ g[2] = s2
    OBVIOUS
  <2> DEFINE e(k) == IF k = 0 THEN 0 ELSE g[k - 1] * 256 + b[k]
  <2>2. e(0) = 0 /\ e(1) = g[0] * 256 + b[1] /\ e(2) = g[1] * 256 + b[2]
    <3> HIDE DEF g
    <3> QED
      OBVIOUS
  <2>3. g = [k \in 0..2 |-> g[k]] /\ Sums(g) = [k \in 0..2 |-> e(k)]
    <3>1. g = [k \in 0..2 |-> g[k]]
      OBVIOUS
    <3>2. Sums(g) = [k \in 0..2 |-> e(k)]
      <4> HIDE DEF g
      <4> QED
        OBVIOUS
    <3> QED
      BY <3>1, <3>2
  <2> HIDE DEF g, e, Sums
  <2>4. g[0] = e(0) /\ g[1] = e(1) /\ g[2] = e(2)
    BY <1>3, <1>4, <2>1, <2>2
  <2>5. \A k \in 0..2 : k = 0 \/ k = 1 \/ k = 2
    OBVIOUS
  <2>6. \A k \in 0..2 : g[k] = e(k)
    BY <2>4, <2>5
  <2>7. [k \in 0..2 |-> g[k]] = [k \in 0..2 |-> e(k)]
    BY <2>6
  <2> QED
    BY <2>3, <2>7
<1> HIDE DEF g
<1>6. value = Sums(value)
  BY <1>5
<1> HIDE DEF value
<1>7. \A k \in 0..2 : value[k] = IF k = 0 THEN 0 ELSE value[k - 1] * 256 + b[k]
  BY <1>6
<1>8. value[0] = 0 /\ value[1] = value[0] * 256 + b[1] /\ value[2] = value[1] * 256 + b[2]
  BY <1>7
<1>9. value[1] = s1
  BY <1>3, <1>8
<1>10. value[2] = s2
  BY <1>4, <1>8, <1>9
<1> QED
  BY <1>1, <1>10 DEF s1, s2

\* ntohl.
LEMMA FromFourBytes ==
  ASSUME NEW b \in Seq(Byte), Len(b) = 4
  PROVE  FromBytes(b) = (((((b[1] * 256) + b[2]) * 256) + b[3]) * 256) + b[4]
<1> DEFINE Sums(f) == [k \in 0..Len(b) |-> IF k = 0 THEN 0 ELSE f[k - 1] * 256 + b[k]]
           value == CHOOSE f : f = Sums(f)
           s1 == b[1]
           s2 == s1 * 256 + b[2]
           s3 == s2 * 256 + b[3]
           s4 == s3 * 256 + b[4]
           g == [k \in 0..4 |-> IF k = 0 THEN 0 ELSE IF k = 1 THEN s1
                                ELSE IF k = 2 THEN s2 ELSE IF k = 3 THEN s3 ELSE s4]
<1>1. FromBytes(b) = value[Len(b)]
  BY DEF FromBytes
<1>2. b[1] \in Int
  BY BytesAreInt
<1>3. s1 = 0 * 256 + b[1]
  BY <1>2
<1> HIDE DEF s1
<1>4. s2 = s1 * 256 + b[2]
  OBVIOUS
<1> HIDE DEF s2
<1>5. s3 = s2 * 256 + b[3]
  OBVIOUS
<1> HIDE DEF s3
<1>6. s4 = s3 * 256 + b[4]
  OBVIOUS
<1> HIDE DEF s4
<1>7. g = Sums(g)
  <2>1. g[0] = 0 /\ g[1] = s1 /\ g[2] = s2 /\ g[3] = s3 /\ g[4] = s4
    OBVIOUS
  <2> DEFINE e(k) == IF k = 0 THEN 0 ELSE g[k - 1] * 256 + b[k]
  <2>2. /\ e(0) = 0 /\ e(1) = g[0] * 256 + b[1] /\ e(2) = g[1] * 256 + b[2]
        /\ e(3) = g[2] * 256 + b[3] /\ e(4) = g[3] * 256 + b[4]
    <3> HIDE DEF g
    <3> QED
      OBVIOUS
  <2>3. g = [k \in 0..4 |-> g[k]] /\ Sums(g) = [k \in 0..4 |-> e(k)]
    <3>1. g = [k \in 0..4 |-> g[k]]
      OBVIOUS
    <3>2. Sums(g) = [k \in 0..4 |-> e(k)]
      <4> HIDE DEF g
      <4> QED
        OBVIOUS
    <3> QED
      BY <3>1, <3>2
  <2> HIDE DEF g, e, Sums
  <2>4. g[0] = e(0) /\ g[1] = e(1) /\ g[2] = e(2) /\ g[3] = e(3) /\ g[4] = e(4)
    BY <1>3, <1>4, <1>5, <1>6, <2>1, <2>2
  <2>5. \A k \in 0..4 : k = 0 \/ k = 1 \/ k = 2 \/ k = 3 \/ k = 4
    OBVIOUS
  <2>6. \A k \in 0..4 : g[k] = e(k)
    BY <2>4, <2>5
  <2>7. [k \in 0..4 |-> g[k]] = [k \in 0..4 |-> e(k)]
    BY <2>6
  <2> QED
    BY <2>3, <2>7
<1> HIDE DEF g
<1>8. value = Sums(value)
  BY <1>7
<1> HIDE DEF value
<1>9. \A k \in 0..4 : value[k] = IF k = 0 THEN 0 ELSE value[k - 1] * 256 + b[k]
  BY <1>8
<1>10. /\ value[0] = 0 /\ value[1] = value[0] * 256 + b[1]
       /\ value[2] = value[1] * 256 + b[2] /\ value[3] = value[2] * 256 + b[3]
       /\ value[4] = value[3] * 256 + b[4]
  BY <1>9
<1>11. value[1] = s1
  BY <1>3, <1>10
<1>12. value[2] = s2
  BY <1>4, <1>10, <1>11
<1>13. value[3] = s3
  BY <1>5, <1>10, <1>12
<1>14. value[4] = s4
  BY <1>6, <1>10, <1>13
<1> QED
  BY <1>1, <1>14 DEF s1, s2, s3, s4

\* What a sender writes into a field is what the parser reads from it.
LEMMA RoundTripTwo ==
  ASSUME NEW b \in Seq(Byte), NEW n \in Nat, Front8(n) < 256, Len(b) = 2,
         \A j \in 1..2 : b[j] = Bytes(n, 2)[j]
  PROVE  FromBytes(b) = n
<1>1. b[1] = Bytes(n, 2)[1] /\ b[2] = Bytes(n, 2)[2]
  OBVIOUS
<1>2. b[1] = Last8(Front8(n)) /\ b[2] = Last8(n)
  BY <1>1, BytesOfTwo
<1>3. Front8(n) \in Nat /\ Last8(n) \in Nat /\ n = (256 * Front8(n)) + Last8(n)
  BY Division, Zenon
<1>4. Last8(Front8(n)) = Front8(n)
  BY <1>3, DivisionBounds
<1>5. FromBytes(b) = (b[1] * 256) + b[2]
  BY FromTwoBytes
<1> QED
  BY <1>2, <1>3, <1>4, <1>5

LEMMA RoundTripFour ==
  ASSUME NEW b \in Seq(Byte), NEW n, FitsIn32Bits(n), Len(b) = 4,
         \A j \in 1..4 : b[j] = Bytes(n, 4)[j]
  PROVE  FromBytes(b) = n
<1> DEFINE p == Front8(n)
           q == Front8(p)
           r == Front8(q)
<1>1. n \in Nat /\ n \div 65536 < 65536
  BY DEF FitsIn32Bits
<1>2. r < 256
  BY <1>1, DivisionTwice
<1>3. b[1] = Last8(r) /\ b[2] = Last8(q) /\ b[3] = Last8(p) /\ b[4] = Last8(n)
  <2>1. 1 \in 1..4 /\ 2 \in 1..4 /\ 3 \in 1..4 /\ 4 \in 1..4
    OBVIOUS
  <2>2. /\ b[1] = Bytes(n, 4)[1] /\ b[2] = Bytes(n, 4)[2]
        /\ b[3] = Bytes(n, 4)[3] /\ b[4] = Bytes(n, 4)[4]
    BY <2>1
  <2> QED
    BY <1>1, <2>2, BytesOfFour
<1>4. p \in Nat /\ n = (256 * p) + Last8(n) /\ Last8(n) \in Nat
  <2>1. n \in Nat
    BY <1>1
  <2> QED
    BY <2>1, Division, Zenon
<1>5. q \in Nat /\ p = (256 * q) + Last8(p) /\ Last8(p) \in Nat
  BY <1>4, Division, Zenon
<1>6. r \in Nat /\ q = (256 * r) + Last8(q) /\ Last8(q) \in Nat
  BY <1>5, Division, Zenon
<1>7. Last8(r) = r
  BY <1>2, <1>6, DivisionBounds
<1>8. FromBytes(b) = (((((b[1] * 256) + b[2]) * 256) + b[3]) * 256) + b[4]
  BY FromFourBytes
<1> HIDE DEF p, q, r
<1> QED
  BY <1>1, <1>3, <1>4, <1>5, <1>6, <1>7, <1>8, SMT

-----------------------------------------------------------------------------
(* Sequences *)

LEMMA ConcatParts ==
  ASSUME NEW S, NEW s \in Seq(S), NEW t \in Seq(S)
  PROVE  /\ s \o t \in Seq(S) /\ Len(s \o t) = Len(s) + Len(t)
         /\ \A i \in 1..Len(s) : (s \o t)[i] = s[i]
         /\ \A j \in 1..Len(t) : (s \o t)[Len(s) + j] = t[j]
<1> DEFINE c == s \o t
           m == Len(s)
           n == Len(t)
<1>1. /\ c \in Seq(S) /\ Len(c) = m + n
      /\ \A i \in 1..(m + n) : c[i] = IF i <= m THEN s[i] ELSE t[i - m]
  BY ConcatProperties
<1>2. m \in Nat /\ n \in Nat
  BY LenProperties
<1> HIDE DEF c, m, n
<1>3. \A i \in 1..m : c[i] = s[i]
  BY <1>1, <1>2
<1>4. ASSUME NEW j \in 1..n PROVE c[m + j] = t[j]
  <2>1. m + j \in 1..(m + n) /\ ~(m + j <= m) /\ (m + j) - m = j
    BY <1>2
  <2> QED
    BY <1>1, <2>1
<1> QED
  BY <1>1, <1>3, <1>4 DEF c, m, n

LEMMA Section ==
  ASSUME NEW S, NEW s \in Seq(S), NEW m \in Nat, NEW n \in Nat,
         m + n <= Len(s)
  PROVE  /\ SubSeq(s, m + 1, m + n) \in Seq(S)
         /\ Len(SubSeq(s, m + 1, m + n)) = n
         /\ \A j \in 1..n : SubSeq(s, m + 1, m + n)[j] = s[m + j]
<1> DEFINE l == m + 1
           r == m + n
           c == SubSeq(s, l, r)
<1>1. Len(s) \in Nat /\ \A i \in 1..Len(s) : s[i] \in S
  BY LenProperties
<1>2. l \in Int /\ r \in Int /\ \A i \in l..r : s[i] \in S
  BY <1>1
<1>3. /\ c \in Seq(S)
      /\ Len(c) = IF l <= r THEN r - l + 1 ELSE 0
      /\ \A i \in 1..(r - l + 1) : c[i] = s[l + i - 1]
  <2> HIDE DEF l, r
  <2> QED
    BY <1>2, SubSeqProperties
<1> HIDE DEF c
<1>4. Len(c) = n
  BY <1>3
<1>5. ASSUME NEW j \in 1..n PROVE c[j] = s[m + j]
  <2>1. j \in 1..(r - l + 1) /\ l + j - 1 = m + j
    OBVIOUS
  <2> QED
    BY <1>3, <2>1
<1> QED
  BY <1>3, <1>4, <1>5 DEF c

-----------------------------------------------------------------------------
(* What was written, as bytes *)

\* The bytes behind the first o are those of the frame f.
FrameAt(all, f, o) ==
  /\ \A j \in 1..2 : all[o + 2 + j] = Bytes(f.type, 2)[j]
  /\ \A j \in 1..4 : all[o + 5 + j] = Bytes(f.correlationId, 4)[j]
  /\ \A j \in 1..4 : all[o + 9 + j] = Bytes(Len(f.data), 4)[j]
  /\ \A j \in 1..Len(f.data) : all[o + 13 + j] = f.data[j]

\* all are the bytes of the frames w, frame i + 1 behind the first off[i] bytes.
Wire(w, all, off) ==
  /\ w \in Seq(CorFrame) /\ all \in Seq(Byte) /\ off \in [0..Len(w) -> Nat]
  /\ off[0] = 0 /\ off[Len(w)] = Len(all)
  /\ \A i \in 1..Len(w) : /\ FrameAt(all, w[i], off[i - 1])
                          /\ off[i] = off[i - 1] + 13 + Len(w[i].data)
  /\ \A i, j \in 0..Len(w) : i < j => off[i] + 13 <= off[j]

LEMMA FrameFields ==
  ASSUME NEW f \in CorFrame
  PROVE  /\ f.type \in Nat /\ Front8(f.type) < 256
         /\ f.correlationId \in Nat /\ FitsIn32Bits(f.correlationId)
         /\ f.data \in Seq(Byte) /\ FitsIn32Bits(Len(f.data)) /\ Len(f.data) \in Nat
<1>1. f.type \in FrameTypes /\ f.correlationId \in CorrelationIds /\ f.data \in Bodies
  BY DEF CorFrame
<1>2. f.type \in {0, 1}
  BY <1>1, CorParserAssumption
<1>3. FitsIn32Bits(f.correlationId) /\ FitsIn32Bits(Len(f.data))
  BY <1>1, CorParserAssumption
<1>4. f.data \in Seq(Byte)
  BY <1>1, CorParserAssumption DEF Byte
<1>5. f.type \in Nat /\ f.type < 65536
  BY <1>2
<1>6. Front8(f.type) < 256
  BY <1>5, DivisionBounds
<1>7. f.correlationId \in Nat
  BY <1>3 DEF FitsIn32Bits
<1>8. Len(f.data) \in Nat
  BY <1>4, LenProperties
<1> QED
  BY <1>3, <1>4, <1>5, <1>6, <1>7, <1>8

LEMMA SerializedIs ==
  ASSUME NEW f \in CorFrame, NEW flags \in FlagBytes
  PROVE  /\ Serialized(f, flags) \in Seq(Byte)
         /\ Len(Serialized(f, flags)) = 13 + Len(f.data)
         /\ FrameAt(Serialized(f, flags), f, 0)
<1> DEFINE b1 == Bytes(1, 2)
           b2 == Bytes(f.type, 2)
           b3 == Bytes(flags, 1)
           b4 == Bytes(f.correlationId, 4)
           b5 == Bytes(Len(f.data), 4)
           b6 == f.data
<1>1. flags \in Nat
  BY CorParserAssumption
<1>2. b1 \in Seq(Byte) /\ Len(b1) = 2
  BY BytesOfTwo
<1>3. b2 \in Seq(Byte) /\ Len(b2) = 2
  BY FrameFields, BytesOfTwo
<1>4. b3 \in Seq(Byte) /\ Len(b3) = 1
  BY <1>1, BytesOfOne
<1>5. b4 \in Seq(Byte) /\ Len(b4) = 4
  BY FrameFields, BytesOfFour
<1>6. b5 \in Seq(Byte) /\ Len(b5) = 4
  BY FrameFields, BytesOfFour
<1>7. b6 \in Seq(Byte) /\ Len(b6) \in Nat
  BY FrameFields
<1>8. Serialized(f, flags) = b1 \o b2 \o b3 \o b4 \o b5 \o b6
  BY DEF Serialized
<1> HIDE DEF b1, b2, b3, b4, b5, b6
<1> DEFINE s2 == b1 \o b2
           s3 == s2 \o b3
           s4 == s3 \o b4
           s5 == s4 \o b5
           s6 == s5 \o b6
<1>9. s2 \in Seq(Byte) /\ Len(s2) = 4 /\ \A j \in 1..2 : s2[2 + j] = b2[j]
  BY <1>2, <1>3, ConcatParts
<1> HIDE DEF s2
<1>10. /\ s3 \in Seq(Byte) /\ Len(s3) = 4 + 1 /\ \A j \in 1..4 : s3[j] = s2[j]
  <2>1. s2 \in Seq(Byte) /\ b3 \in Seq(Byte)
    BY <1>4, <1>9
  <2>2. /\ s3 \in Seq(Byte) /\ Len(s3) = Len(s2) + Len(b3)
        /\ \A i \in 1..Len(s2) : s3[i] = s2[i]
        /\ \A j \in 1..Len(b3) : s3[Len(s2) + j] = b3[j]
    BY <2>1, ConcatParts
  <2> HIDE DEF s3
  <2> QED
    BY <1>4, <1>9, <2>2
<1> HIDE DEF s3
<1>11. /\ s4 \in Seq(Byte) /\ Len(s4) = 5 + 4 /\ \A j \in 1..5 : s4[j] = s3[j]
       /\ \A j \in 1..4 : s4[5 + j] = b4[j]
  <2>1. s3 \in Seq(Byte) /\ b4 \in Seq(Byte)
    BY <1>5, <1>10
  <2>2. /\ s4 \in Seq(Byte) /\ Len(s4) = Len(s3) + Len(b4)
        /\ \A i \in 1..Len(s3) : s4[i] = s3[i]
        /\ \A j \in 1..Len(b4) : s4[Len(s3) + j] = b4[j]
    BY <2>1, ConcatParts
  <2> HIDE DEF s4
  <2> QED
    BY <1>5, <1>10, <2>2
<1> HIDE DEF s4
<1>12. /\ s5 \in Seq(Byte) /\ Len(s5) = 9 + 4 /\ \A j \in 1..9 : s5[j] = s4[j]
       /\ \A j \in 1..4 : s5[9 + j] = b5[j]
  <2>1. s4 \in Seq(Byte) /\ b5 \in Seq(Byte)
    BY <1>6, <1>11
  <2>2. /\ s5 \in Seq(Byte) /\ Len(s5) = Len(s4) + Len(b5)
        /\ \A i \in 1..Len(s4) : s5[i] = s4[i]
        /\ \A j \in 1..Len(b5) : s5[Len(s4) + j] = b5[j]
    BY <2>1, ConcatParts
  <2> HIDE DEF s5
  <2> QED
    BY <1>6, <1>11, <2>2
<1> HIDE DEF s5
<1>13. /\ s6 \in Seq(Byte) /\ Len(s6) = 13 + Len(b6) /\ \A j \in 1..13 : s6[j] = s5[j]
       /\ \A j \in 1..Len(b6) : s6[13 + j] = b6[j]
  <2>1. s5 \in Seq(Byte) /\ b6 \in Seq(Byte)
    BY <1>7, <1>12
  <2>2. /\ s6 \in Seq(Byte) /\ Len(s6) = Len(s5) + Len(b6)
        /\ \A i \in 1..Len(s5) : s6[i] = s5[i]
        /\ \A j \in 1..Len(b6) : s6[Len(s5) + j] = b6[j]
    BY <2>1, ConcatParts
  <2> HIDE DEF s6
  <2> QED
    BY <1>7, <1>12, <2>2
<1>14. Serialized(f, flags) = s6
  BY <1>8 DEF s2, s3, s4, s5
<1> HIDE DEF s6
<1>15. ASSUME NEW j \in 1..2 PROVE s6[0 + 2 + j] = b2[j]
  <2>1. 2 + j \in 1..4 /\ 2 + j \in 1..5 /\ 2 + j \in 1..9 /\ 2 + j \in 1..13
        /\ 0 + 2 + j = 2 + j
    OBVIOUS
  <2> QED
    BY <1>9, <1>10, <1>11, <1>12, <1>13, <2>1
<1>16. ASSUME NEW j \in 1..4 PROVE s6[0 + 5 + j] = b4[j]
  <2>1. 5 + j \in 1..9 /\ 5 + j \in 1..13 /\ 0 + 5 + j = 5 + j
    OBVIOUS
  <2> QED
    BY <1>11, <1>12, <1>13, <2>1
<1>17. ASSUME NEW j \in 1..4 PROVE s6[0 + 9 + j] = b5[j]
  <2>1. 9 + j \in 1..13 /\ 0 + 9 + j = 9 + j
    OBVIOUS
  <2> QED
    BY <1>12, <1>13, <2>1
<1>18. ASSUME NEW j \in 1..Len(b6) PROVE s6[0 + 13 + j] = b6[j]
  <2>1. 0 + 13 + j = 13 + j
    BY <1>7
  <2> QED
    BY <1>13, <2>1
<1>19. FrameAt(s6, f, 0)
  BY <1>15, <1>16, <1>17, <1>18 DEF FrameAt, b2, b4, b5, b6
<1> QED
  BY <1>13, <1>14, <1>19 DEF b6

\* Another frame is written behind the others.
LEMMA WireAppend ==
  ASSUME NEW w, NEW all, NEW off, Wire(w, all, off), NEW f \in CorFrame,
         NEW flags \in FlagBytes
  PROVE  \E off2 : /\ Wire(Append(w, f), all \o Serialized(f, flags), off2)
                   /\ \A i \in 0..Len(w) : off2[i] = off[i]
<1> DEFINE n == Len(w)
           w2 == Append(w, f)
           s == Serialized(f, flags)
           all2 == all \o s
           off2 == [i \in 0..(n + 1) |-> IF i <= n THEN off[i] ELSE Len(all) + Len(s)]
<1>1. n \in Nat /\ w \in Seq(CorFrame) /\ all \in Seq(Byte) /\ Len(all) \in Nat
  BY LenProperties DEF Wire
<1>2. s \in Seq(Byte) /\ Len(s) = 13 + Len(f.data) /\ FrameAt(s, f, 0) /\ Len(f.data) \in Nat
  BY SerializedIs, FrameFields
<1>3. w2 \in Seq(CorFrame) /\ Len(w2) = n + 1 /\ (\A i \in 1..n : w2[i] = w[i]) /\ w2[n + 1] = f
  BY <1>1, AppendProperties
<1> HIDE DEF s, w2
<1>4. /\ all2 \in Seq(Byte) /\ Len(all2) = Len(all) + Len(s)
      /\ \A i \in 1..Len(all) : all2[i] = all[i]
      /\ \A j \in 1..Len(s) : all2[Len(all) + j] = s[j]
  <2>1. all \in Seq(Byte) /\ s \in Seq(Byte)
    BY <1>1, <1>2
  <2> QED
    BY <2>1, ConcatParts
<1> HIDE DEF all2
<1>5. /\ off \in [0..n -> Nat] /\ off[0] = 0 /\ off[n] = Len(all)
      /\ \A i \in 1..n : FrameAt(all, w[i], off[i - 1])
      /\ \A i \in 1..n : off[i] = off[i - 1] + 13 + Len(w[i].data)
      /\ \A i, j \in 0..n : i < j => off[i] + 13 <= off[j]
  BY DEF Wire
<1> HIDE DEF n
<1>6. off2 \in [0..(n + 1) -> Nat] /\ (\A i \in 0..n : off2[i] = off[i])
      /\ off2[n + 1] = Len(all) + Len(s)
  BY <1>1, <1>2, <1>5
<1> HIDE DEF off2
<1>7. \A i \in 1..n : w[i] \in CorFrame
  BY <1>1, LenProperties DEF n
<1>8. ASSUME NEW i \in 1..n
      PROVE  FrameAt(all2, w[i], off[i - 1])
  <2> DEFINE o == off[i - 1]
             k == Len(w[i].data)
  <2>1. k \in Nat
    BY <1>7, FrameFields
  <2>2. o \in Nat /\ off[i] = o + 13 + k
    BY <1>1, <1>5
  <2>3. off[i] <= Len(all)
    <3>1. CASE i = n
      BY <1>1, <1>5, <3>1
    <3>2. CASE i < n
      <4>1. i \in 0..n /\ n \in 0..n
        BY <1>1
      <4>2. off[i] + 13 <= off[n] /\ off[i] \in Nat
        BY <1>5, <3>2, <4>1
      <4> QED
        BY <1>1, <1>5, <4>2
    <3> QED
      BY <1>1, <3>1, <3>2
  <2>4. FrameAt(all, w[i], o)
    BY <1>5
  <2> HIDE DEF o, k
  <2>5. /\ \A j \in 1..2 : all2[o + 2 + j] = all[o + 2 + j]
        /\ \A j \in 1..4 : all2[o + 5 + j] = all[o + 5 + j]
        /\ \A j \in 1..4 : all2[o + 9 + j] = all[o + 9 + j]
        /\ \A j \in 1..k : all2[o + 13 + j] = all[o + 13 + j]
    <3>1. o + 13 + k <= Len(all)
      BY <2>2, <2>3
    <3>2. /\ \A j \in 1..2 : o + 2 + j \in 1..Len(all)
          /\ \A j \in 1..4 : o + 5 + j \in 1..Len(all)
          /\ \A j \in 1..4 : o + 9 + j \in 1..Len(all)
          /\ \A j \in 1..k : o + 13 + j \in 1..Len(all)
      BY <1>1, <2>1, <2>2, <3>1
    <3> QED
      BY <1>4, <3>2
  <2>6. FrameAt(all2, w[i], o)
    BY <2>4, <2>5 DEF FrameAt, k
  <2> QED
    BY <2>6 DEF o
<1>9. FrameAt(all2, f, Len(all))
  <2> DEFINE o == Len(all)
             k == Len(f.data)
  <2>1. o \in Nat /\ k \in Nat /\ Len(s) = 13 + k
    BY <1>1, <1>2
  <2>2. \A j \in 1..Len(s) : all2[o + j] = s[j]
    BY <1>4
  <2>3. FrameAt(s, f, 0)
    BY <1>2
  <2> HIDE DEF o, k
  <2>4. ASSUME NEW j \in 1..2 PROVE all2[o + 2 + j] = s[0 + 2 + j]
    <3>1. 2 + j \in 1..Len(s) /\ o + (2 + j) = o + 2 + j /\ 0 + 2 + j = 2 + j
      BY <2>1
    <3> QED
      BY <2>2, <3>1
  <2>5. ASSUME NEW j \in 1..4 PROVE all2[o + 5 + j] = s[0 + 5 + j]
    <3>1. 5 + j \in 1..Len(s) /\ o + (5 + j) = o + 5 + j /\ 0 + 5 + j = 5 + j
      BY <2>1
    <3> QED
      BY <2>2, <3>1
  <2>6. ASSUME NEW j \in 1..4 PROVE all2[o + 9 + j] = s[0 + 9 + j]
    <3>1. 9 + j \in 1..Len(s) /\ o + (9 + j) = o + 9 + j /\ 0 + 9 + j = 9 + j
      BY <2>1
    <3> QED
      BY <2>2, <3>1
  <2>7. ASSUME NEW j \in 1..k PROVE all2[o + 13 + j] = s[0 + 13 + j]
    <3>1. 13 + j \in 1..Len(s) /\ o + (13 + j) = o + 13 + j /\ 0 + 13 + j = 13 + j
      BY <2>1
    <3> QED
      BY <2>2, <3>1
  <2>8. FrameAt(all2, f, o)
    BY <2>3, <2>4, <2>5, <2>6, <2>7 DEF FrameAt, k
  <2> QED
    BY <2>8 DEF o
<1>10. ASSUME NEW i \in 1..(n + 1)
       PROVE  /\ FrameAt(all2, w2[i], off2[i - 1])
              /\ off2[i] = off2[i - 1] + 13 + Len(w2[i].data)
  <2>1. CASE i \in 1..n
    <3>1. i \in 0..n /\ i - 1 \in 0..n
      BY <1>1, <2>1
    <3>2. off2[i] = off[i] /\ off2[i - 1] = off[i - 1] /\ w2[i] = w[i]
      BY <1>3, <1>6, <2>1, <3>1
    <3> QED
      BY <1>5, <1>8, <2>1, <3>2
  <2>2. CASE i = n + 1
    <3>1. n \in 0..n /\ i - 1 = n
      BY <1>1, <2>2
    <3>2. off2[i - 1] = Len(all) /\ w2[i] = f /\ off2[i] = Len(all) + Len(s)
      BY <1>3, <1>5, <1>6, <2>2, <3>1
    <3>3. Len(all) + Len(s) = Len(all) + 13 + Len(f.data)
      <4>1. Len(s) = 13 + Len(f.data) /\ Len(f.data) \in Nat /\ Len(all) \in Nat
        BY <1>1, <1>2
      <4> DEFINE x == Len(all)
                 k == Len(f.data)
                 l == Len(s)
      <4>2. l = 13 + k /\ k \in Nat /\ x \in Nat
        BY <4>1
      <4> HIDE DEF x, k, l
      <4>3. x + l = x + 13 + k
        BY <4>2
      <4> QED
        BY <4>3 DEF x, k, l
    <3> QED
      BY <1>9, <3>2, <3>3
  <2> QED
    BY <1>1, <2>1, <2>2
<1>11. ASSUME NEW i \in 0..(n + 1), NEW j \in 0..(n + 1), i < j
       PROVE  off2[i] + 13 <= off2[j]
  <2>1. i \in 0..n /\ off2[i] = off[i] /\ off[i] \in Nat
    BY <1>1, <1>5, <1>6, <1>11
  <2>2. CASE j \in 0..n
    BY <1>5, <1>6, <1>11, <2>1, <2>2
  <2>3. CASE j = n + 1
    <3>1. off[i] <= Len(all)
      <4>1. CASE i = n
        BY <1>1, <1>5, <4>1
      <4>2. CASE i < n
        <5>1. n \in 0..n
          BY <1>1
        <5>2. off[i] + 13 <= off[n]
          BY <1>5, <2>1, <4>2, <5>1
        <5> QED
          BY <1>1, <1>5, <2>1, <5>2
      <4> QED
        BY <1>1, <2>1, <4>1, <4>2
    <3> QED
      BY <1>1, <1>2, <1>6, <2>1, <2>3, <3>1
  <2> QED
    BY <1>1, <2>2, <2>3
<1>12. off2[0] = 0 /\ off2[Len(w2)] = Len(all2)
  <2>1. 0 \in 0..n
    BY <1>1
  <2> QED
    BY <1>3, <1>4, <1>5, <1>6, <2>1
<1>13. Wire(w2, all2, off2)
  BY <1>3, <1>4, <1>6, <1>10, <1>11, <1>12 DEF Wire
<1> QED
  BY <1>6, <1>13 DEF w2, all2, s, n

-----------------------------------------------------------------------------
(* Where the parser is *)

RequestRecord == [type : Nat, correlation_id : Nat, length : Nat]
ParserRecord ==
  [state : 0..6, request_body_bytes_read : Nat, request : RequestRecord]
FrameRecord == [type : Nat, correlationId : Nat, data : Seq(Byte)]

Progress ==
  [parser : ParserRecord, frame : FrameRecord, handed : Seq(FrameRecord),
   data : Seq(Byte), starved : BOOLEAN]

\* The bytes of the header in front of a field, and its bytes.
FieldAt == <<0, 2, 4, 5, 9>>
Sizes == <<2, 2, 1, 4, 4>>

\* After p bytes, d frames are complete, and the parser is between two frames,
\* in front of a field of the next one, or in its body.
Between(off, d, p, prs) ==
  /\ prs.state = 0
  /\ p = off[d]
  /\ prs.request_body_bytes_read = 0

InHeader(w, off, d, p, prs, frm) ==
  /\ prs.state \in 1..5
  /\ d < Len(w)
  /\ p = off[d] + FieldAt[prs.state]
  /\ prs.request_body_bytes_read = 0
  /\ frm.data = <<>>
  /\ prs.state > 2 => prs.request.type = w[d + 1].type
  /\ prs.state > 4 => prs.request.correlation_id = w[d + 1].correlationId

InBody(w, off, d, p, prs, frm) ==
  /\ prs.state = 6
  /\ d < Len(w)
  /\ p = off[d] + 13 + prs.request_body_bytes_read
  /\ prs.request.length = Len(w[d + 1].data)
  /\ prs.request_body_bytes_read <= prs.request.length
  /\ prs.request_body_bytes_read = prs.request.length => prs.request.length = 0
  /\ frm.type = w[d + 1].type
  /\ frm.correlationId = w[d + 1].correlationId
  /\ Len(frm.data) = prs.request_body_bytes_read
  /\ \A j \in 1..prs.request_body_bytes_read : frm.data[j] = w[d + 1].data[j]

At(w, off, d, p, prs, frm) ==
  /\ d \in 0..Len(w)
  /\ p \in Nat
  /\ \/ Between(off, d, p, prs)
     \/ InHeader(w, off, d, p, prs, frm)
     \/ InBody(w, off, d, p, prs, frm)

\* The bytes s are those of all behind the first p.
Window(all, p, s) ==
  /\ s \in Seq(Byte)
  /\ p + Len(s) <= Len(all)
  /\ \A j \in 1..Len(s) : s[j] = all[p + j]

\* The parse in progress has handed over the frames behind the first from, its
\* data ends with the byte end, and it stopped in front of a field, if at all.
Loop(w, all, off, from, end, c) ==
  /\ c \in Progress
  /\ Window(all, end - Len(c.data), c.data)
  /\ \A i \in 1..Len(c.handed) : c.handed[i] = w[from + i]
  /\ At(w, off, from + Len(c.handed), end - Len(c.data), c.parser, c.frame)
  /\ c.starved => c.parser.state \in 1..5 /\ Len(c.data) < Sizes[c.parser.state]

\* What is left to do: three passes a byte, one more to begin a frame, and two
\* more to end one and begin the next.
Left(c) ==
  3 * Len(c.data)
    + (IF c.parser.state = 6 THEN 2 ELSE IF c.parser.state = 0 THEN 1 ELSE 0)

LEMMA FieldsAre ==
  /\ BodyState = 6
  /\ DOMAIN Fields = 1..5
  /\ \A s \in 1..5 : FieldSize(Fields[s]) = Sizes[s] /\ Sizes[s] \in 1..4
  /\ Fields[1] = "version" /\ Fields[2] = "type" /\ Fields[3] = "flags"
  /\ Fields[4] = "correlation_id" /\ Fields[5] = "length"
<1>1. Len(Fields) = 5 /\ DOMAIN Fields = 1..5
  BY DEF Fields
<1>2. /\ Fields[1] = "version" /\ Fields[2] = "type" /\ Fields[3] = "flags"
      /\ Fields[4] = "correlation_id" /\ Fields[5] = "length"
  BY DEF Fields
<1>3. /\ FieldSize("version") = 2 /\ FieldSize("type") = 2 /\ FieldSize("flags") = 1
      /\ FieldSize("correlation_id") = 4 /\ FieldSize("length") = 4
  BY DEF FieldSize
<1>4. /\ Sizes[1] = 2 /\ Sizes[2] = 2 /\ Sizes[3] = 1 /\ Sizes[4] = 4 /\ Sizes[5] = 4
  BY DEF Sizes
<1>5. \A s \in 1..5 : s = 1 \/ s = 2 \/ s = 3 \/ s = 4 \/ s = 5
  OBVIOUS
<1>6. \A s \in 1..5 : FieldSize(Fields[s]) = Sizes[s] /\ Sizes[s] \in 1..4
  BY <1>2, <1>3, <1>4, <1>5
<1> QED
  BY <1>1, <1>2, <1>6 DEF BodyState

LEMMA FieldAtIs ==
  /\ FieldAt[1] = 0 /\ FieldAt[2] = 2 /\ FieldAt[3] = 4 /\ FieldAt[4] = 5
  /\ FieldAt[5] = 9
  /\ \A s \in 1..5 : FieldAt[s] \in Nat /\ FieldAt[s] + Sizes[s] <= 13
  /\ \A s \in 1..4 : FieldAt[s] + Sizes[s] = FieldAt[s + 1]
  /\ FieldAt[5] + Sizes[5] = 13
<1>1. /\ FieldAt[1] = 0 /\ FieldAt[2] = 2 /\ FieldAt[3] = 4 /\ FieldAt[4] = 5
      /\ FieldAt[5] = 9
  BY DEF FieldAt
<1>2. /\ Sizes[1] = 2 /\ Sizes[2] = 2 /\ Sizes[3] = 1 /\ Sizes[4] = 4 /\ Sizes[5] = 4
  BY DEF Sizes
<1>3. \A s \in 1..5 : s = 1 \/ s = 2 \/ s = 3 \/ s = 4 \/ s = 5
  OBVIOUS
<1>4. \A s \in 1..4 : s = 1 \/ s = 2 \/ s = 3 \/ s = 4
  OBVIOUS
<1>5. \A s \in 1..5 : FieldAt[s] \in Nat /\ FieldAt[s] + Sizes[s] <= 13
  BY <1>1, <1>2, <1>3
<1>6. \A s \in 1..4 : FieldAt[s] + Sizes[s] = FieldAt[s + 1]
  BY <1>1, <1>2, <1>4
<1> QED
  BY <1>1, <1>2, <1>5, <1>6

\* The rest of a window is a window.
LEMMA WindowRest ==
  ASSUME NEW all \in Seq(Byte), NEW p \in Nat, NEW s, Window(all, p, s),
         NEW n \in 0..Len(s)
  PROVE  /\ Window(all, p + n, SubSeq(s, n + 1, Len(s)))
         /\ Len(SubSeq(s, n + 1, Len(s))) = Len(s) - n
         /\ SubSeq(s, 1, n) \in Seq(Byte) /\ Len(SubSeq(s, 1, n)) = n
         /\ \A j \in 1..n : SubSeq(s, 1, n)[j] = all[p + j]
<1> DEFINE l == Len(s)
           k == l - n
           rest == SubSeq(s, n + 1, n + k)
           first == SubSeq(s, 0 + 1, 0 + n)
<1>1. s \in Seq(Byte) /\ p + l <= Len(all) /\ \A j \in 1..l : s[j] = all[p + j]
  BY DEF Window
<1>2. l \in Nat /\ Len(all) \in Nat
  BY <1>1, LenProperties
<1> HIDE DEF l
<1>3. n \in Nat /\ k \in Nat /\ n + k = l /\ n <= l /\ 0 + n = n
  BY <1>2 DEF l
<1> HIDE DEF k
<1>4. rest \in Seq(Byte) /\ Len(rest) = k /\ \A j \in 1..k : rest[j] = s[n + j]
  <2>1. n + k <= Len(s)
    BY <1>3, <1>2 DEF l
  <2> QED
    BY <1>1, <1>3, <2>1, Section
<1>5. first \in Seq(Byte) /\ Len(first) = n /\ \A j \in 1..n : first[j] = s[0 + j]
  <2>1. 0 + n <= Len(s) /\ 0 \in Nat
    BY <1>3, <1>2 DEF l
  <2> QED
    BY <1>1, <1>3, <2>1, Section
<1>6. rest = SubSeq(s, n + 1, Len(s)) /\ first = SubSeq(s, 1, n)
  <2>1. 0 + 1 = 1 /\ 0 + n = n /\ n + k = Len(s)
    BY <1>3 DEF l
  <2> QED
    BY <2>1
<1> HIDE DEF rest, first
<1>7. \A j \in 1..k : rest[j] = all[p + n + j]
  <2> TAKE j \in 1..k
  <2>1. n + j \in 1..l /\ p + (n + j) = p + n + j
    BY <1>2, <1>3
  <2> QED
    BY <1>1, <1>4, <2>1
<1>8. \A j \in 1..n : first[j] = all[p + j]
  <2> TAKE j \in 1..n
  <2>1. j \in 1..l /\ 0 + j = j
    BY <1>2, <1>3
  <2> QED
    BY <1>1, <1>5, <2>1
<1>9. p + n + k <= Len(all)
  BY <1>1, <1>2, <1>3
<1>10. Window(all, p + n, rest)
  BY <1>4, <1>7, <1>9 DEF Window
<1>11. Len(rest) = l - n
  BY <1>2, <1>3, <1>4
<1> QED
  BY <1>5, <1>6, <1>8, <1>10, <1>11 DEF l

\* The window s behind the byte p is cut behind its first n bytes.
Split(all, p, s, n, first, rest) ==
  /\ Window(all, p + n, rest)
  /\ Len(rest) = Len(s) - n
  /\ first \in Seq(Byte) /\ Len(first) = n
  /\ \A j \in 1..n : first[j] = all[p + j]

LEMMA WindowSplit ==
  ASSUME NEW all \in Seq(Byte), NEW p \in Nat, NEW s, Window(all, p, s),
         NEW n \in 0..Len(s)
  PROVE  Split(all, p, s, n, SubSeq(s, 1, n), SubSeq(s, n + 1, Len(s)))
BY WindowRest DEF Split

\* As long as there are data, the frame they belong to was written.
LEMMA FrameThere ==
  ASSUME NEW w, NEW all, NEW off, Wire(w, all, off), NEW d \in 0..Len(w),
         NEW p \in Nat, p < Len(all), p = off[d]
  PROVE  d < Len(w)
<1>1. Len(w) \in Nat
  BY LenProperties DEF Wire
<1>2. d # Len(w)
  BY LenProperties DEF Wire
<1> QED
  BY <1>1, <1>2

LEMMA BeginPass ==
  ASSUME NEW w, NEW all, NEW off, Wire(w, all, off), NEW from \in Nat,
         NEW end \in Nat, NEW c, Loop(w, all, off, from, end, c), ~Finished(c),
         c.parser.state = 0
  PROVE  Loop(w, all, off, from, end, BeginFrame(c)) /\ Left(BeginFrame(c)) < Left(c)
<1> DEFINE b == BeginFrame(c)
           d == from + Len(c.handed)
           p == end - Len(c.data)
<1>1. /\ c \in Progress /\ c.parser \in ParserRecord /\ c.data \in Seq(Byte)
      /\ c.handed \in Seq(FrameRecord) /\ c.starved \in BOOLEAN
  BY DEF Loop, Progress
<1>2. b = [c EXCEPT !.parser = [c.parser EXCEPT !.state = 1], !.frame = NoFrame]
  BY <1>1 DEF BeginFrame, Progress, ParserRecord
<1> HIDE DEF b
<1>3. /\ b.parser = [c.parser EXCEPT !.state = 1] /\ b.frame = NoFrame
      /\ b.handed = c.handed /\ b.data = c.data /\ b.starved = c.starved
  BY <1>1, <1>2 DEF Progress
<1>4. /\ b.parser \in ParserRecord /\ b.parser.state = 1
      /\ b.parser.request_body_bytes_read = c.parser.request_body_bytes_read
  BY <1>1, <1>3 DEF ParserRecord
<1>5. NoFrame \in FrameRecord /\ NoFrame.data = <<>>
  BY EmptySeq DEF NoFrame, FrameRecord
<1>6. b \in Progress
  BY <1>1, <1>2, <1>4, <1>3, <1>5 DEF Progress
<1>7. /\ Between(off, d, p, c.parser) /\ d \in 0..Len(w) /\ p \in Nat
      /\ c.data # <<>> /\ ~c.starved
      /\ Window(all, p, c.data)
  BY DEF Loop, At, InHeader, InBody, Finished
<1>8. Len(c.data) \in Nat /\ Len(c.data) # 0 /\ Len(all) \in Nat
  <2>1. all \in Seq(Byte)
    BY DEF Wire
  <2> QED
    BY <1>1, <1>7, <2>1, EmptySeq, LenProperties
<1>9. p < Len(all)
  <2>1. p + Len(c.data) <= Len(all)
    BY <1>7 DEF Window
  <2> HIDE DEF p
  <2> QED
    BY <1>7, <1>8, <2>1
<1> HIDE DEF d, p
<1>10. d < Len(w)
  BY <1>7, <1>9, FrameThere DEF Between
<1>11. p = off[d] + FieldAt[1]
  <2>1. off[d] \in Nat
    BY <1>7 DEF Wire
  <2> QED
    BY <1>7, <2>1, FieldAtIs DEF Between
<1>12. InHeader(w, off, d, p, b.parser, b.frame)
  BY <1>3, <1>4, <1>5, <1>7, <1>10, <1>11 DEF InHeader, Between
<1>13. At(w, off, d, p, b.parser, b.frame)
  BY <1>7, <1>12 DEF At
<1>14. Loop(w, all, off, from, end, b)
  BY <1>3, <1>6, <1>7, <1>13 DEF Loop, d, p
<1>15. Left(b) < Left(c)
  BY <1>3, <1>4, <1>8 DEF Left
<1> QED
  BY <1>14, <1>15 DEF b

LEMMA StoreIs ==
  ASSUME NEW request \in RequestRecord, NEW bytes
  PROVE  /\ \A s \in {1, 3} : StoreField(request, Fields[s], bytes) = request
         /\ StoreField(request, Fields[2], bytes) = [request EXCEPT !.type = FromBytes(bytes)]
         /\ StoreField(request, Fields[4], bytes) =
              [request EXCEPT !.correlation_id = FromBytes(bytes)]
         /\ StoreField(request, Fields[5], bytes) =
              [request EXCEPT !.length = FromBytes(bytes)]
<1>1. DOMAIN request = {"type", "correlation_id", "length"}
  BY DEF RequestRecord
<1>2. /\ "version" \notin DOMAIN request /\ "flags" \notin DOMAIN request
      /\ "type" \in DOMAIN request /\ "correlation_id" \in DOMAIN request
      /\ "length" \in DOMAIN request
  BY <1>1
<1>3. /\ StoreField(request, "version", bytes) = request
      /\ StoreField(request, "flags", bytes) = request
  BY <1>2 DEF StoreField
<1>4. /\ StoreField(request, "type", bytes) = [request EXCEPT !.type = FromBytes(bytes)]
      /\ StoreField(request, "correlation_id", bytes) =
           [request EXCEPT !.correlation_id = FromBytes(bytes)]
      /\ StoreField(request, "length", bytes) = [request EXCEPT !.length = FromBytes(bytes)]
  BY <1>2 DEF StoreField
<1> QED
  BY <1>3, <1>4, FieldsAre

\* bytes are those of field s in the frame behind the first o.
FieldBytes(all, o, s, bytes) ==
  /\ bytes \in Seq(Byte) /\ Len(bytes) = Sizes[s]
  /\ \A j \in 1..Sizes[s] : bytes[j] = all[o + FieldAt[s] + j]

\* The value of a field the parser keeps.
FieldOf(f, s) ==
  IF s = 2 THEN f.type ELSE IF s = 4 THEN f.correlationId ELSE Len(f.data)

\* bytes mean what the frame has in field s, if the parser keeps it.
Means(bytes, f, s) == s \in {2, 4, 5} => FromBytes(bytes) = FieldOf(f, s)

\* The bytes of a field are those the sender wrote into it.
LEMMA FieldValue ==
  ASSUME NEW all, NEW o \in Nat, NEW f \in CorFrame, FrameAt(all, f, o),
         NEW s \in 1..5, NEW bytes, FieldBytes(all, o, s, bytes)
  PROVE  Means(bytes, f, s)
<1>1. /\ \A j \in 1..2 : all[o + 2 + j] = Bytes(f.type, 2)[j]
      /\ \A j \in 1..4 : all[o + 5 + j] = Bytes(f.correlationId, 4)[j]
      /\ \A j \in 1..4 : all[o + 9 + j] = Bytes(Len(f.data), 4)[j]
  BY DEF FrameAt
<1>2. /\ f.type \in Nat /\ Front8(f.type) < 256
      /\ FitsIn32Bits(f.correlationId) /\ FitsIn32Bits(Len(f.data))
  BY FrameFields
<1> bytes \in Seq(Byte) /\ Len(bytes) = Sizes[s]
    /\ \A j \in 1..Sizes[s] : bytes[j] = all[o + FieldAt[s] + j]
  BY DEF FieldBytes
<1>3. ASSUME s = 2 PROVE FromBytes(bytes) = f.type
  <2>1. Sizes[s] = 2 /\ FieldAt[s] = 2
    BY <1>3 DEF Sizes, FieldAt
  <2>2. \A j \in 1..2 : bytes[j] = Bytes(f.type, 2)[j]
    BY <1>1, <2>1
  <2> QED
    BY <1>2, <2>1, <2>2, RoundTripTwo
<1>4. ASSUME s = 4 PROVE FromBytes(bytes) = f.correlationId
  <2>1. Sizes[s] = 4 /\ FieldAt[s] = 5
    BY <1>4 DEF Sizes, FieldAt
  <2>2. \A j \in 1..4 : bytes[j] = Bytes(f.correlationId, 4)[j]
    BY <1>1, <2>1
  <2> QED
    BY <1>2, <2>1, <2>2, RoundTripFour
<1>5. ASSUME s = 5 PROVE FromBytes(bytes) = Len(f.data)
  <2>1. Sizes[s] = 4 /\ FieldAt[s] = 9
    BY <1>5 DEF Sizes, FieldAt
  <2>2. \A j \in 1..4 : bytes[j] = Bytes(Len(f.data), 4)[j]
    BY <1>1, <2>1
  <2> QED
    BY <1>2, <2>1, <2>2, RoundTripFour
<1> QED
  BY <1>3, <1>4, <1>5 DEF FieldOf, Means

LEMMA FieldPass ==
  ASSUME NEW w, NEW all, NEW off, Wire(w, all, off), NEW from \in Nat,
         NEW end \in Nat, NEW c, Loop(w, all, off, from, end, c), ~Finished(c),
         c.parser.state \in 1..5
  PROVE  /\ Loop(w, all, off, from, end, ParseField(c))
         /\ Finished(ParseField(c)) \/ Left(ParseField(c)) < Left(c)
<1> DEFINE b == ParseField(c)
           d == from + Len(c.handed)
           p == end - Len(c.data)
           s == c.parser.state
           size == Sizes[s]
           bytes == SubSeq(c.data, 1, size)
           request == StoreField(c.parser.request, Fields[s], bytes)
           f == w[d + 1]
<1>1. /\ c \in Progress /\ c.parser \in ParserRecord /\ c.data \in Seq(Byte)
      /\ c.handed \in Seq(FrameRecord) /\ c.starved \in BOOLEAN
      /\ c.frame \in FrameRecord /\ c.parser.request \in RequestRecord
  BY DEF Loop, Progress, ParserRecord
<1>2. /\ InHeader(w, off, d, p, c.parser, c.frame) /\ d \in 0..Len(w) /\ p \in Nat
      /\ c.data # <<>> /\ ~c.starved
      /\ Window(all, p, c.data)
      /\ \A i \in 1..Len(c.handed) : c.handed[i] = w[from + i]
  BY DEF Loop, At, Between, InBody, Finished
<1>3. Len(c.data) \in Nat /\ s \in 1..5 /\ size \in 1..4
  BY <1>1, LenProperties, FieldsAre
<1>4. FieldSize(Fields[s]) = size
  BY FieldsAre
<1>5. b = IF Len(c.data) < size THEN [c EXCEPT !.starved = TRUE]
          ELSE [c EXCEPT
                 !.parser.state = @ + 1,
                 !.parser.request = request,
                 !.frame = IF c.parser.state + 1 < BodyState THEN @
                           ELSE [@ EXCEPT !.type = request.type,
                                   !.correlationId = request.correlation_id],
                 !.data = SubSeq(@, size + 1, Len(@))]
  BY <1>4 DEF ParseField
<1> HIDE DEF b, size
<1>6. CASE Len(c.data) < size
  <2>1. b = [c EXCEPT !.starved = TRUE]
    BY <1>5, <1>6
  <2>2. /\ b \in Progress /\ b.parser = c.parser /\ b.frame = c.frame
        /\ b.handed = c.handed /\ b.data = c.data /\ b.starved = TRUE
    BY <1>1, <2>1 DEF Progress
  <2>3. Loop(w, all, off, from, end, b)
    BY <1>2, <1>3, <1>6, <2>2 DEF Loop, At, size
  <2>4. Finished(b)
    BY <2>2 DEF Finished
  <2> QED
    BY <2>3, <2>4 DEF b
<1>7. CASE ~(Len(c.data) < size)
  <2> DEFINE rest == SubSeq(c.data, size + 1, Len(c.data))
             prs == [c.parser EXCEPT !.state = s + 1, !.request = request]
             frm == IF s + 1 < 6 THEN c.frame
                    ELSE [c.frame EXCEPT !.type = request.type,
                                         !.correlationId = request.correlation_id]
  <2>1. b = [c EXCEPT !.parser = prs, !.frame = frm, !.data = rest]
    BY <1>1, <1>5, <1>7, FieldsAre DEF Progress, ParserRecord
  <2> HIDE DEF rest, prs, frm, request, bytes
  <2>2. size \in 0..Len(c.data)
    BY <1>3, <1>7
  <2>3. /\ Window(all, p + size, rest)
        /\ Len(rest) = Len(c.data) - size
        /\ bytes \in Seq(Byte) /\ Len(bytes) = size
        /\ \A j \in 1..size : bytes[j] = all[p + j]
    <3>1. /\ all \in Seq(Byte) /\ p \in Nat /\ Window(all, p, c.data)
          /\ size \in 0..Len(c.data)
      BY <1>2, <2>2 DEF Wire
    <3> HIDE DEF p
    <3>2. Split(all, p, c.data, size, SubSeq(c.data, 1, size),
                SubSeq(c.data, size + 1, Len(c.data)))
      BY <3>1, WindowSplit, Zenon
    <3>3. Split(all, p, c.data, size, bytes, rest)
      BY <3>2 DEF rest, bytes
    <3> QED
      BY <3>3 DEF Split
  <2>4. /\ d < Len(w) /\ p = off[d] + FieldAt[s] /\ Len(w) \in Nat /\ d \in Nat
        /\ f \in CorFrame /\ off[d] \in Nat
        /\ FrameAt(all, f, off[d])
    <3>1. w \in Seq(CorFrame) /\ Len(w) \in Nat
      BY LenProperties DEF Wire
    <3>2. d < Len(w) /\ p = off[d] + FieldAt[s]
      BY <1>2 DEF InHeader
    <3> HIDE DEF d, p, s, f
    <3>3. d + 1 \in 1..Len(w) /\ (d + 1) - 1 = d /\ d \in Nat
      BY <1>2, <3>1, <3>2
    <3>4. FrameAt(all, w[d + 1], off[(d + 1) - 1]) /\ w[d + 1] \in CorFrame
      BY <3>1, <3>3, LenProperties DEF Wire
    <3>5. off[d] \in Nat
      BY <1>2 DEF Wire
    <3> QED
      BY <3>1, <3>2, <3>3, <3>4, <3>5 DEF f
  <2> HIDE DEF d, p, f
  <2>5. /\ s = 2 => FromBytes(bytes) = f.type
        /\ s = 4 => FromBytes(bytes) = f.correlationId
        /\ s = 5 => FromBytes(bytes) = Len(f.data)
    <3>1. \A j \in 1..Sizes[s] : bytes[j] = all[off[d] + FieldAt[s] + j]
      BY <2>3, <2>4 DEF size
    <3>2. s \in 1..5 /\ bytes \in Seq(Byte) /\ Len(bytes) = Sizes[s]
      BY <1>3, <2>3 DEF size
    <3>3. PICK o \in Nat : o = off[d]
      BY <2>4
    <3>4. FrameAt(all, f, o) /\ FieldBytes(all, o, s, bytes)
      BY <2>4, <3>1, <3>2, <3>3 DEF FieldBytes
    <3>5. f \in CorFrame
      BY <2>4
    <3> HIDE DEF s
    <3>6. Means(bytes, f, s)
      BY <3>2, <3>4, <3>5, FieldValue
    <3> QED
      BY <3>6 DEF FieldOf, Means
  <2>6. f.type \in Nat /\ f.correlationId \in Nat /\ Len(f.data) \in Nat
    BY <2>4, FrameFields
  <2>7. /\ request \in RequestRecord
        /\ s + 1 > 2 => request.type = f.type
        /\ s + 1 > 4 => request.correlation_id = f.correlationId
        /\ s + 1 = 6 => request.length = Len(f.data)
    <3>1. /\ s > 2 => c.parser.request.type = f.type
          /\ s > 4 => c.parser.request.correlation_id = f.correlationId
      BY <1>2 DEF InHeader, f
    <3>2. c.parser.request \in RequestRecord
      BY <1>1
    <3> DEFINE old == c.parser.request
               value == FromBytes(bytes)
    <3>3. request = StoreField(old, Fields[s], bytes)
      BY DEF request
    <3>4. /\ s \in {1, 3} => request = old
          /\ s = 2 => request = [old EXCEPT !.type = value]
          /\ s = 4 => request = [old EXCEPT !.correlation_id = value]
          /\ s = 5 => request = [old EXCEPT !.length = value]
      <4> HIDE DEF s, old, value
      <4>1. old \in RequestRecord
        BY <3>2 DEF old
      <4> QED
        BY <3>3, <4>1, StoreIs DEF value
    <3>5. s = 1 \/ s = 2 \/ s = 3 \/ s = 4 \/ s = 5
      BY <1>3
    <3>6. old \in RequestRecord /\ (s > 2 => old.type = f.type)
          /\ (s > 4 => old.correlation_id = f.correlationId)
      BY <3>1, <3>2
    <3>7. /\ s = 2 => value = f.type
          /\ s = 4 => value = f.correlationId
          /\ s = 5 => value = Len(f.data)
      BY <2>5
    <3> HIDE DEF s, old, value
    <3>8. CASE s \in {1, 3}
      BY <3>4, <3>6, <3>8
    <3>9. CASE s = 2
      BY <2>6, <3>4, <3>6, <3>7, <3>9 DEF RequestRecord
    <3>10. CASE s = 4
      BY <2>6, <3>4, <3>6, <3>7, <3>10 DEF RequestRecord
    <3>11. CASE s = 5
      BY <2>6, <3>4, <3>6, <3>7, <3>11 DEF RequestRecord
    <3> QED
      BY <3>5, <3>8, <3>9, <3>10, <3>11
  <2>8. /\ prs \in ParserRecord /\ prs.state = s + 1 /\ prs.request = request
        /\ prs.request_body_bytes_read = 0
    <3>1. c.parser.request_body_bytes_read = 0 /\ s + 1 \in 0..6
      BY <1>2, <1>3 DEF InHeader
    <3> HIDE DEF s
    <3> QED
      BY <1>1, <2>7, <3>1 DEF prs, ParserRecord
  <2>9. /\ frm \in FrameRecord /\ frm.data = <<>>
        /\ s + 1 = 6 => frm.type = f.type /\ frm.correlationId = f.correlationId
    <3>1. c.frame.data = <<>>
      BY <1>2 DEF InHeader
    <3>2. CASE s + 1 < 6
      <4>1. frm = c.frame
        BY <3>2 DEF frm
      <4> QED
        BY <1>1, <3>1, <3>2, <4>1
    <3>3. CASE ~(s + 1 < 6)
      <4>1. request.type = f.type /\ request.correlation_id = f.correlationId
        BY <1>3, <2>7, <3>3
      <4>2. frm = [c.frame EXCEPT !.type = f.type, !.correlationId = f.correlationId]
        BY <3>3, <4>1 DEF frm
      <4> QED
        BY <1>1, <2>6, <3>1, <4>2 DEF FrameRecord
    <3> QED
      BY <3>2, <3>3
  <2>10. /\ b.parser = prs /\ b.frame = frm /\ b.data = rest /\ b.handed = c.handed
         /\ b.starved = c.starved
    BY <1>1, <2>1 DEF Progress
  <2>11. rest \in Seq(Byte)
    BY <2>3 DEF Window
  <2>12. b \in Progress
    BY <1>1, <2>1, <2>8, <2>9, <2>11 DEF Progress
  <2>13. p + size = end - Len(rest) /\ p + size \in Nat
    <3>1. p = end - Len(c.data)
      BY DEF p
    <3> QED
      BY <1>2, <1>3, <2>3, <3>1
  <2>14. At(w, off, d, p + size, prs, frm)
    <3>1. CASE s < 5
      <4>1. s \in 1..4 /\ s + 1 \in 1..5
        BY <1>3, <3>1
      <4>2. p + size = off[d] + FieldAt[s + 1]
        <5>1. FieldAt[s] + size = FieldAt[s + 1] /\ FieldAt[s] \in Nat
          BY <4>1, FieldAtIs DEF size
        <5> HIDE DEF s
        <5> QED
          BY <1>3, <2>4, <5>1
      <4>3. InHeader(w, off, d, p + size, prs, frm)
        BY <2>4, <2>7, <2>8, <2>9, <4>1, <4>2 DEF InHeader, f
      <4> QED
        BY <1>2, <2>13, <4>3 DEF At
    <3>2. CASE s = 5
      <4>1. p + size = off[d] + 13 + 0
        <5>1. FieldAt[s] + size = 13 /\ FieldAt[s] \in Nat
          BY <3>2, FieldAtIs DEF size
        <5> HIDE DEF s
        <5> QED
          BY <1>3, <2>4, <5>1
      <4>2. prs.state = 6 /\ prs.request.length = Len(f.data)
            /\ prs.request_body_bytes_read = 0
        BY <2>7, <2>8, <3>2
      <4>3. frm.type = f.type /\ frm.correlationId = f.correlationId /\ Len(frm.data) = 0
        BY <2>9, <3>2, EmptySeq
      <4>4. InBody(w, off, d, p + size, prs, frm)
        BY <2>4, <2>6, <4>1, <4>2, <4>3 DEF InBody, f
      <4> QED
        BY <1>2, <2>13, <4>4 DEF At
    <3> QED
      BY <1>3, <3>1, <3>2
  <2>15. Loop(w, all, off, from, end, b)
    BY <1>2, <2>3, <2>10, <2>12, <2>13, <2>14 DEF Loop, d
  <2>16. Left(b) < Left(c)
    <3>1. Left(c) = 3 * Len(c.data)
      <4>1. c.parser.state # 6 /\ c.parser.state # 0 /\ Len(c.data) \in Nat
        BY <1>3
      <4> QED
        BY <4>1 DEF Left
    <3>2. Left(b) <= 3 * Len(rest) + 2
      <4>1. Len(rest) \in Nat
        BY <2>11, LenProperties
      <4> QED
        BY <2>10, <4>1 DEF Left
    <3>3. Left(b) \in Int
      <4>1. Len(rest) \in Nat
        BY <2>11, LenProperties
      <4> QED
        BY <2>10, <4>1 DEF Left
    <3> QED
      BY <1>3, <2>3, <3>1, <3>2, <3>3
  <2> QED
    BY <2>15, <2>16 DEF b
<1> QED
  BY <1>6, <1>7

LEMMA NewIs ==
  /\ NewParser \in ParserRecord /\ NewParser.state = 0
  /\ NewParser.request_body_bytes_read = 0
  /\ NoFrame \in FrameRecord /\ NoFrame.data = <<>>
<1>1. NoRequest \in RequestRecord
  BY DEF NoRequest, RequestRecord
<1>2. NewParser \in ParserRecord /\ NewParser.state = 0
      /\ NewParser.request_body_bytes_read = 0
  BY <1>1 DEF NewParser, ParserRecord
<1>3. NoFrame \in FrameRecord /\ NoFrame.data = <<>>
  BY EmptySeq DEF NoFrame, FrameRecord
<1> QED
  BY <1>2, <1>3

LEMMA BodyPass ==
  ASSUME NEW w, NEW all, NEW off, Wire(w, all, off), NEW from \in Nat,
         NEW end \in Nat, NEW c, Loop(w, all, off, from, end, c), ~Finished(c),
         c.parser.state = 6
  PROVE  /\ Loop(w, all, off, from, end, ParseBody(c))
         /\ Finished(ParseBody(c)) \/ Left(ParseBody(c)) < Left(c)
<1> DEFINE b == ParseBody(c)
           d == from + Len(c.handed)
           p == end - Len(c.data)
           r == c.parser.request_body_bytes_read
           length == c.parser.request.length
           len == BodyChunk(c)
           chunk == SubSeq(c.data, 1, len)
           rest == SubSeq(c.data, len + 1, Len(c.data))
           f == w[d + 1]
           more == c.frame.data \o chunk
           prs == [c.parser EXCEPT !.request_body_bytes_read = r + len]
           frm == [c.frame EXCEPT !.data = more]
           e == [c EXCEPT !.parser = prs, !.frame = frm, !.data = rest]
<1>1. /\ c \in Progress /\ c.parser \in ParserRecord /\ c.data \in Seq(Byte)
      /\ c.handed \in Seq(FrameRecord) /\ c.starved \in BOOLEAN
      /\ c.frame \in FrameRecord /\ c.parser.request \in RequestRecord
      /\ c.frame.data \in Seq(Byte) /\ r \in Nat /\ length \in Nat
  BY DEF Loop, Progress, ParserRecord, FrameRecord, RequestRecord
<1>2. /\ InBody(w, off, d, p, c.parser, c.frame) /\ d \in 0..Len(w) /\ p \in Nat
      /\ c.data # <<>> /\ ~c.starved
      /\ Window(all, p, c.data)
      /\ \A i \in 1..Len(c.handed) : c.handed[i] = w[from + i]
  BY DEF Loop, At, Between, InHeader, Finished
<1>3. /\ d < Len(w) /\ p = off[d] + 13 + r /\ length = Len(f.data) /\ r <= length
      /\ c.frame.type = f.type /\ c.frame.correlationId = f.correlationId
      /\ Len(c.frame.data) = r /\ \A j \in 1..r : c.frame.data[j] = f.data[j]
  BY <1>2 DEF InBody
<1>4. Len(c.data) \in Nat /\ Len(c.data) # 0 /\ Len(c.handed) \in Nat
  BY <1>1, <1>2, EmptySeq, LenProperties
<1>5. /\ len = IF Len(c.data) > length - r THEN length - r ELSE Len(c.data)
      /\ b = EndFrame([c EXCEPT !.parser.request_body_bytes_read = @ + len,
                                !.frame.data = @ \o chunk,
                                !.data = rest])
  BY DEF BodyChunk, ParseBody
<1>6. b = EndFrame(e)
  <2>1. e = [c EXCEPT !.parser.request_body_bytes_read = @ + len,
                      !.frame.data = @ \o chunk,
                      !.data = rest]
    BY <1>1 DEF Progress, ParserRecord, FrameRecord
  <2> QED
    BY <1>5, <2>1
<1> HIDE DEF b, len
<1>7. /\ len \in Nat /\ len <= Len(c.data) /\ r + len <= length
      /\ r + len # length => len = Len(c.data)
  <2> DEFINE l == Len(c.data)
  <2>1. r \in Nat /\ length \in Nat /\ r <= length /\ l \in Nat
        /\ len = IF l > length - r THEN length - r ELSE l
    BY <1>1, <1>3, <1>4, <1>5
  <2> HIDE DEF l, r, length
  <2>2. /\ len \in Nat /\ len <= l /\ r + len <= length
        /\ r + len # length => len = l
    BY <2>1
  <2> QED
    BY <2>2 DEF l
<1>8. /\ Window(all, p + len, rest) /\ Len(rest) = Len(c.data) - len
      /\ chunk \in Seq(Byte) /\ Len(chunk) = len
      /\ \A j \in 1..len : chunk[j] = all[p + j]
      /\ rest \in Seq(Byte)
  <2>1. all \in Seq(Byte) /\ len \in 0..Len(c.data)
    BY <1>4, <1>7 DEF Wire
  <2>2. /\ Window(all, p + len, rest) /\ Len(rest) = Len(c.data) - len
        /\ chunk \in Seq(Byte) /\ Len(chunk) = len
        /\ \A j \in 1..len : chunk[j] = all[p + j]
    <3>1. /\ p \in Nat /\ Window(all, p, c.data) /\ all \in Seq(Byte)
          /\ len \in 0..Len(c.data)
      BY <1>2, <2>1
    <3> HIDE DEF p
    <3>2. Split(all, p, c.data, len, chunk, rest)
      BY <3>1, WindowSplit, Zenon
    <3> HIDE DEF chunk, rest
    <3> QED
      BY <3>2 DEF Split
  <2> QED
    BY <2>2 DEF Window
<1> HIDE DEF chunk, rest
<1>9. /\ Len(w) \in Nat /\ d \in Nat /\ d + 1 \in 1..Len(w) /\ f \in CorFrame
      /\ off[d] \in Nat /\ FrameAt(all, f, off[d])
      /\ off[d + 1] = off[d] + 13 + Len(f.data)
  <2>1. w \in Seq(CorFrame) /\ Len(w) \in Nat
    BY LenProperties DEF Wire
  <2>2. d < Len(w) /\ d \in 0..Len(w)
    BY <1>2, <1>3
  <2> HIDE DEF d, f
  <2>3. d + 1 \in 1..Len(w) /\ (d + 1) - 1 = d /\ d \in Nat
    BY <2>1, <2>2
  <2>4. /\ FrameAt(all, w[d + 1], off[(d + 1) - 1]) /\ w[d + 1] \in CorFrame
        /\ off[d + 1] = off[(d + 1) - 1] + 13 + Len(w[d + 1].data)
    BY <2>1, <2>3, LenProperties DEF Wire
  <2>5. off[d] \in Nat
    BY <2>2 DEF Wire
  <2> QED
    BY <2>1, <2>3, <2>4, <2>5 DEF f
<1>10. f.type \in Nat /\ f.correlationId \in Nat /\ f.data \in Seq(Byte)
  BY <1>9, FrameFields
<1> HIDE DEF f
<1>11. /\ more \in Seq(Byte) /\ Len(more) = r + len
       /\ \A j \in 1..(r + len) : more[j] = f.data[j]
  <2> DEFINE old == c.frame.data
  <2>1. old \in Seq(Byte) /\ chunk \in Seq(Byte)
    BY <1>1, <1>8
  <2>2. /\ more \in Seq(Byte) /\ Len(more) = Len(old) + Len(chunk)
        /\ \A i \in 1..Len(old) : more[i] = old[i]
        /\ \A j \in 1..Len(chunk) : more[Len(old) + j] = chunk[j]
    <3> HIDE DEF old
    <3>1. more = old \o chunk
      BY DEF old
    <3> QED
      BY <2>1, <3>1, ConcatParts
  <2>3. Len(old) = r /\ Len(chunk) = len /\ \A j \in 1..r : old[j] = f.data[j]
    BY <1>3, <1>8
  <2> HIDE DEF old, more, p, r, d
  <2>4. ASSUME NEW i \in 1..len PROVE more[r + i] = f.data[r + i]
    <3>1. r + i \in 1..Len(f.data) /\ off[d] + 13 + (r + i) = p + i
      <4> DEFINE o == off[d]
                 l == Len(f.data)
      <4>1. /\ r \in Nat /\ len \in Nat /\ r + len <= l /\ p = o + 13 + r
            /\ o \in Nat /\ l \in Nat
        BY <1>1, <1>3, <1>7, <1>9
      <4> HIDE DEF o, l
      <4>2. r + i \in 1..l /\ o + 13 + (r + i) = p + i
        BY <4>1
      <4> QED
        BY <4>2 DEF o, l
    <3>2. all[off[d] + 13 + (r + i)] = f.data[r + i]
      BY <1>9, <3>1 DEF FrameAt
    <3> QED
      BY <1>8, <2>2, <2>3, <3>1, <3>2
  <2>5. ASSUME NEW j \in 1..(r + len) PROVE more[j] = f.data[j]
    <3>1. CASE j <= r
      <4>1. j \in 1..r
        BY <1>1, <3>1
      <4> QED
        BY <2>2, <2>3, <4>1
    <3>2. CASE ~(j <= r)
      <4>1. j - r \in 1..len /\ r + (j - r) = j
        BY <1>1, <1>7, <3>2
      <4> QED
        BY <2>4, <4>1
    <3> QED
      BY <3>1, <3>2
  <2> QED
    BY <2>2, <2>3, <2>5
<1> HIDE DEF more
<1>12. /\ prs \in ParserRecord /\ prs.state = 6 /\ prs.request = c.parser.request
       /\ prs.request_body_bytes_read = r + len
  <2>1. r + len \in Nat
    BY <1>1, <1>7
  <2> HIDE DEF r
  <2> QED
    BY <1>1, <2>1 DEF ParserRecord
<1>13. /\ frm \in FrameRecord /\ frm.type = f.type /\ frm.data = more
       /\ frm.correlationId = f.correlationId
  BY <1>1, <1>3, <1>11 DEF FrameRecord
<1> HIDE DEF prs, frm
<1>14. /\ e.parser = prs /\ e.frame = frm /\ e.data = rest /\ e.handed = c.handed
       /\ e.starved = c.starved /\ e \in Progress
  BY <1>1, <1>8, <1>12, <1>13 DEF Progress
<1> HIDE DEF e
<1>15. p + len = end - Len(rest) /\ p + len \in Nat
  <2>1. p = end - Len(c.data)
    OBVIOUS
  <2> HIDE DEF p
  <2> QED
    BY <1>2, <1>4, <1>7, <1>8, <2>1
<1>16. Left(c) = (3 * Len(c.data)) + 2
  BY <1>4 DEF Left
<1>17. CASE r + len = length
  <2> DEFINE handed == Append(c.handed, frm)
  <2>1. b = [e EXCEPT !.parser = NewParser, !.frame = NoFrame, !.handed = handed]
    <3>1. e.parser.request_body_bytes_read = e.parser.request.length
      BY <1>12, <1>14, <1>17
    <3> QED
      BY <1>6, <1>14, <3>1 DEF EndFrame, Progress
  <2>2. /\ handed \in Seq(FrameRecord) /\ Len(handed) = Len(c.handed) + 1
        /\ \A i \in 1..Len(c.handed) : handed[i] = c.handed[i]
        /\ handed[Len(c.handed) + 1] = frm
    BY <1>1, <1>13, AppendProperties
  <2> HIDE DEF handed
  <2>3. /\ b.parser = NewParser /\ b.frame = NoFrame /\ b.data = rest
        /\ b.handed = handed /\ b.starved = c.starved /\ b \in Progress
    BY <1>14, <2>1, <2>2, NewIs DEF Progress
  <2>4. frm = f
    <3>1. more = f.data
      <4> HIDE DEF r
      <4>1. Len(more) = Len(f.data)
        BY <1>3, <1>11, <1>17 DEF r
      <4>2. \A j \in 1..Len(more) : more[j] = f.data[j]
        BY <1>11
      <4> HIDE DEF length
      <4> QED
        BY <1>10, <1>11, <4>1, <4>2, SeqEqual
    <3>2. frm.type = f.type /\ frm.correlationId = f.correlationId /\ frm.data = f.data
      BY <1>13, <3>1
    <3>3. f \in [type : FrameTypes, correlationId : CorrelationIds, data : Bodies]
      BY <1>9 DEF CorFrame
    <3> QED
      BY <1>13, <3>2, <3>3 DEF FrameRecord
  <2>5. from + Len(handed) = d + 1
    BY <1>4, <2>2
  <2>6. \A i \in 1..Len(handed) : handed[i] = w[from + i]
    <3> TAKE i \in 1..Len(handed)
    <3>1. CASE i \in 1..Len(c.handed)
      BY <1>2, <2>2, <3>1
    <3>2. CASE i = Len(c.handed) + 1
      <4>1. from + i = d + 1
        BY <1>4, <3>2
      <4> QED
        BY <2>2, <2>4, <3>2, <4>1 DEF f
    <3> QED
      BY <1>4, <2>2, <3>1, <3>2
  <2>7. Between(off, d + 1, p + len, NewParser)
    <3>1. p + len = off[d + 1]
      <4> DEFINE k == Len(f.data)
                 o == off[d]
      <4>1. /\ p = o + 13 + r /\ r + len = k /\ off[d + 1] = o + 13 + k
            /\ o \in Nat /\ r \in Nat /\ len \in Nat
        BY <1>1, <1>3, <1>7, <1>9, <1>17
      <4> HIDE DEF k, o, p, r, d
      <4> QED
        BY <4>1
    <3> QED
      BY <3>1, NewIs DEF Between
  <2>8. At(w, off, d + 1, p + len, NewParser, NoFrame)
    <3>1. d + 1 \in 0..Len(w)
      BY <1>9
    <3> QED
      BY <1>15, <2>7, <3>1 DEF At
  <2>9. Loop(w, all, off, from, end, b)
    <3> HIDE DEF p, d
    <3>1. Window(all, end - Len(b.data), b.data)
      BY <1>8, <1>15, <2>3
    <3>2. At(w, off, from + Len(b.handed), end - Len(b.data), b.parser, b.frame)
      BY <1>15, <2>3, <2>5, <2>8
    <3> QED
      BY <1>2, <2>3, <2>6, <3>1, <3>2 DEF Loop
  <2>10. Left(b) < Left(c)
    <3>1. Left(b) = (3 * Len(rest)) + 1
      BY <2>3, NewIs DEF Left
    <3>2. Len(rest) <= Len(c.data) /\ Len(rest) \in Int
      BY <1>4, <1>7, <1>8
    <3> QED
      BY <1>4, <1>16, <3>1, <3>2
  <2> QED
    BY <2>9, <2>10 DEF b
<1>18. CASE r + len # length
  <2>1. b = e
    <3>1. ~(e.parser.request_body_bytes_read = e.parser.request.length)
      BY <1>12, <1>14, <1>18
    <3> QED
      BY <1>6, <3>1 DEF EndFrame
  <2>2. rest = <<>>
    <3>1. Len(rest) = 0
      BY <1>4, <1>7, <1>8, <1>18
    <3> QED
      BY <1>8, <3>1, EmptySeq
  <2>3. Finished(b)
    BY <1>14, <2>1, <2>2 DEF Finished
  <2>4. InBody(w, off, d, p + len, prs, frm)
    <3>1. p + len = off[d] + 13 + (r + len)
      <4> DEFINE o == off[d]
      <4>1. p = o + 13 + r /\ o \in Nat /\ r \in Nat /\ len \in Nat
        BY <1>1, <1>3, <1>7, <1>9
      <4> HIDE DEF o, p, r, d
      <4>2. p + len = o + 13 + (r + len)
        BY <4>1
      <4> QED
        BY <4>2 DEF o
    <3>2. prs.request_body_bytes_read # prs.request.length
          /\ prs.request_body_bytes_read <= prs.request.length
          /\ prs.request.length = Len(f.data)
      BY <1>3, <1>7, <1>12, <1>18
    <3> QED
      BY <1>3, <1>11, <1>12, <1>13, <3>1, <3>2 DEF InBody, f
  <2>5. At(w, off, d, p + len, prs, frm)
    BY <1>2, <1>15, <2>4 DEF At
  <2>6. Loop(w, all, off, from, end, b)
    <3>1. At(w, off, from + Len(b.handed), end - Len(b.data), b.parser, b.frame)
      BY <1>14, <1>15, <2>1, <2>5
    <3>2. Window(all, end - Len(b.data), b.data)
      BY <1>8, <1>14, <1>15, <2>1
    <3> QED
      BY <1>2, <1>14, <2>1, <3>1, <3>2 DEF Loop
  <2> QED
    BY <2>3, <2>6 DEF b
<1> QED
  BY <1>17, <1>18

LEMMA PassStep ==
  ASSUME NEW w, NEW all, NEW off, Wire(w, all, off), NEW from \in Nat,
         NEW end \in Nat, NEW c, Loop(w, all, off, from, end, c)
  PROVE  /\ Loop(w, all, off, from, end, Pass(c))
         /\ Finished(c) => Finished(Pass(c))
         /\ ~Finished(c) => Finished(Pass(c)) \/ Left(Pass(c)) < Left(c)
<1>1. CASE Finished(c)
  <2>1. Pass(c) = c
    BY <1>1 DEF Pass
  <2> QED
    BY <1>1, <2>1
<1>2. CASE ~Finished(c)
  <2>1. c.parser.state \in 0..6
    BY DEF Loop, Progress, ParserRecord
  <2>2. CASE c.parser.state = 0
    <3>1. Pass(c) = BeginFrame(c)
      <4>1. 0 \notin DOMAIN Fields /\ 0 # BodyState
        BY FieldsAre
      <4> QED
        BY <1>2, <2>2, <4>1 DEF Pass
    <3> QED
      BY <1>2, <2>2, <3>1, BeginPass
  <2>3. CASE c.parser.state \in 1..5
    <3>1. Pass(c) = ParseField(c)
      <4>1. c.parser.state # 0 /\ c.parser.state \in DOMAIN Fields
            /\ c.parser.state # BodyState
        BY <2>3, FieldsAre
      <4> QED
        BY <1>2, <4>1 DEF Pass
    <3> QED
      BY <1>2, <2>3, <3>1, FieldPass
  <2>4. CASE c.parser.state = 6
    <3>1. Pass(c) = ParseBody(c)
      <4>1. c.parser.state # 0 /\ c.parser.state \notin DOMAIN Fields
            /\ c.parser.state = BodyState
        BY <2>4, FieldsAre
      <4> QED
        BY <1>2, <4>1 DEF Pass
    <3> QED
      BY <1>2, <2>4, <3>1, BodyPass
  <2> QED
    BY <2>1, <2>2, <2>3, <2>4
<1> QED
  BY <1>1, <1>2

-----------------------------------------------------------------------------
(* The loop *)

\* A nonempty finite set of numbers has a least one.
LEMMA LeastElement ==
  ASSUME NEW D, IsFiniteSet(D), D \subseteq Nat, D # {}
  PROVE  \E x \in D : \A y \in D : x <= y
<1> DEFINE Below(x) == {y \in D : y < x}
           Belows == {Below(x) : x \in D}
<1>1. IsWellFoundedOn(StrictSubsetOrdering(D), FiniteSubsetsOf(D))
  BY FS_StrictSubsetOrderingWellFounded
<1>2. Belows \subseteq FiniteSubsetsOf(D) /\ Belows # {}
  <2>1. Belows \subseteq FiniteSubsetsOf(D)
    BY FS_Subset DEF FiniteSubsetsOf
  <2>2. Belows # {}
    OBVIOUS
  <2> QED
    BY <2>1, <2>2
<1>3. PICK B \in Belows : \A C \in Belows : <<C, B>> \notin StrictSubsetOrdering(D)
  <2> HIDE DEF Belows
  <2> QED
    BY <1>1, <1>2, WFMin
<1>4. PICK x \in D : B = Below(x)
  OBVIOUS
<1>5. ASSUME NEW y \in D, y < x PROVE FALSE
  <2>1. y \in Below(x) /\ y \notin Below(y)
    BY <1>5
  <2>2. ASSUME NEW z \in D, z < y PROVE z < x
    BY <1>5, <2>2
  <2>3. Below(y) \subseteq Below(x) /\ Below(y) # Below(x)
    BY <2>1, <2>2, Zenon
  <2>4. Below(y) \subseteq D /\ Below(x) \subseteq D /\ Below(y) \in Belows
    OBVIOUS
  <2>5. <<Below(y), Below(x)>> \in StrictSubsetOrdering(D)
    <3> HIDE DEF Below
    <3> QED
      BY <2>3, <2>4 DEF StrictSubsetOrdering
  <2> QED
    BY <1>3, <1>4, <2>4, <2>5
<1> QED
  BY <1>5

\* f lists what the loop has made of c after each of the first n passes.
Passes(c, n, f) ==
  f = [k \in 0..n |-> IF k = 0 THEN c ELSE Pass(f[k - 1])]

Chain(c, n, f) ==
  f[0] = c /\ \A k \in 1..n : f[k] = Pass(f[k - 1])

LEMMA PassesAre ==
  ASSUME NEW c, NEW n \in Nat, NEW f, Passes(c, n, f)
  PROVE  Chain(c, n, f)
<1> DEFINE Next1(g) == [k \in 0..n |-> IF k = 0 THEN c ELSE Pass(g[k - 1])]
<1>1. f = Next1(f)
  BY DEF Passes
<1>2. \A k \in 0..n : f[k] = IF k = 0 THEN c ELSE Pass(f[k - 1])
  BY <1>1
<1>3. 0 \in 0..n
  OBVIOUS
<1>4. \A k \in 1..n : k \in 0..n /\ k # 0
  OBVIOUS
<1> QED
  BY <1>2, <1>3, <1>4 DEF Chain

\* Any number of passes can be made.
LEMMA PassesExist ==
  ASSUME NEW c, NEW n \in Nat
  PROVE  \E f : Passes(c, n, f)
<1> DEFINE D == {k \in 0..n : ~ \E f : Passes(c, k, f)}
<1>1. D = {}
  <2> SUFFICES ASSUME D # {} PROVE FALSE
    OBVIOUS
  <2>1. IsFiniteSet(D) /\ D \subseteq Nat
    <3>1. IsFiniteSet(0..n)
      BY FS_Interval
    <3>2. D \subseteq 0..n
      OBVIOUS
    <3> QED
      BY <3>1, <3>2, FS_Subset
  <2>2. PICK k \in D : \A y \in D : k <= y
    <3> HIDE DEF D
    <3> QED
      BY <2>1, LeastElement
  <2>3. k \in 0..n /\ ~ \E f : Passes(c, k, f)
    BY <2>2
  <2>4. CASE k = 0
    <3> DEFINE g == [j \in 0..0 |-> c]
    <3>1. g = [j \in 0..0 |-> IF j = 0 THEN c ELSE Pass(g[j - 1])]
      <4>1. \A j \in 0..0 : c = IF j = 0 THEN c ELSE Pass(g[j - 1])
        OBVIOUS
      <4> QED
        BY <4>1, Zenon
    <3>2. Passes(c, 0, g)
      BY <3>1 DEF Passes
    <3> QED
      BY <2>3, <2>4, <3>2
  <2>5. CASE k # 0
    <3>1. k - 1 \in 0..n /\ k - 1 \in Nat /\ k \in Nat /\ ~(k <= k - 1)
      BY <2>3, <2>5
    <3>2. k - 1 \notin D
      BY <2>2, <3>1
    <3>3. PICK f : Passes(c, k - 1, f)
      BY <3>1, <3>2
    <3>4. /\ f[0] = c
          /\ \A j \in 1..(k - 1) : f[j] = Pass(f[j - 1])
      <4> DEFINE m == k - 1
      <4>1. m \in Nat /\ Passes(c, m, f)
        BY <3>1, <3>3
      <4> HIDE DEF m
      <4>2. Chain(c, m, f)
        BY <4>1, PassesAre, Zenon
      <4> QED
        BY <4>2 DEF m, Chain
    <3> DEFINE g == [j \in 0..k |-> IF j = k THEN Pass(f[k - 1]) ELSE f[j]]
    <3>5. \A j \in 0..k : g[j] = IF j = k THEN Pass(f[k - 1]) ELSE f[j]
      OBVIOUS
    <3>6. \A j \in 0..k : g[j] = IF j = 0 THEN c ELSE Pass(g[j - 1])
      <4> HIDE DEF g
      <4> TAKE j \in 0..k
      <4>1. CASE j = 0
        BY <2>5, <3>1, <3>4, <3>5, <4>1
      <4>2. CASE j = k
        <5>1. k - 1 \in 0..k /\ k - 1 # k
          BY <3>1
        <5>2. g[k - 1] = f[k - 1]
          BY <3>5, <5>1
        <5> QED
          BY <2>5, <3>5, <4>2, <5>2
      <4>3. CASE j # 0 /\ j # k
        <5>1. j \in 1..(k - 1) /\ j - 1 \in 0..k /\ j - 1 # k
          BY <3>1, <4>3
        <5>2. g[j - 1] = f[j - 1] /\ g[j] = f[j] /\ f[j] = Pass(f[j - 1])
          BY <3>4, <3>5, <4>3, <5>1
        <5> QED
          BY <4>3, <5>2
      <4> QED
        BY <4>1, <4>2, <4>3
    <3>7. g = [j \in 0..k |-> IF j = 0 THEN c ELSE Pass(g[j - 1])]
      <4>1. g = [j \in 0..k |-> g[j]]
        OBVIOUS
      <4> HIDE DEF g
      <4> QED
        BY <3>6, <4>1
    <3>8. Passes(c, k, g)
      <4> HIDE DEF g
      <4> QED
        BY <3>7 DEF Passes
    <3> QED
      BY <2>3, <3>8
  <2> QED
    BY <2>4, <2>5
<1>2. n \in 0..n
  OBVIOUS
<1> QED
  BY <1>1, <1>2

\* Parse is the end of a list of passes.
LEMMA ParseIs ==
  ASSUME NEW c, MaxPasses(c) \in Nat
  PROVE  \E f : Passes(c, MaxPasses(c), f) /\ Parse(c) = f[MaxPasses(c)]
<1> DEFINE n == MaxPasses(c)
           after == CHOOSE f : f = [k \in 0..n |-> IF k = 0 THEN c ELSE Pass(f[k - 1])]
<1>1. Parse(c) = after[n]
  BY DEF Parse
<1>2. \E f : f = [k \in 0..n |-> IF k = 0 THEN c ELSE Pass(f[k - 1])]
  <2> HIDE DEF n
  <2>1. n \in Nat
    BY DEF n
  <2> QED
    BY <2>1, PassesExist DEF Passes
<1>3. after = [k \in 0..n |-> IF k = 0 THEN c ELSE Pass(after[k - 1])]
  BY <1>2
<1> HIDE DEF after
<1>4. Passes(c, n, after)
  BY <1>3 DEF Passes
<1> QED
  BY <1>1, <1>4
LEMMA LeftIs ==
  ASSUME NEW c \in Progress
  PROVE  /\ Left(c) \in Nat
         /\ Left(c) <= MaxPasses(c)
         /\ MaxPasses(c) \in Nat
         /\ Left(c) = 0 => Finished(c)
<1> DEFINE l == Len(c.data)
<1>1. c.data \in Seq(Byte) /\ l \in Nat
  BY LenProperties DEF Progress
<1>2. /\ MaxPasses(c) = 3 * l + 2
      /\ Left(c) = 3 * l + (IF c.parser.state = 6 THEN 2
                            ELSE IF c.parser.state = 0 THEN 1 ELSE 0)
  BY DEF MaxPasses, Left
<1> HIDE DEF l
<1>3. /\ Left(c) \in Nat /\ Left(c) <= MaxPasses(c) /\ MaxPasses(c) \in Nat
      /\ Left(c) = 0 => l = 0
  BY <1>1, <1>2
<1>4. l = 0 => c.data = <<>>
  BY <1>1, EmptySeq DEF l
<1> QED
  BY <1>3, <1>4 DEF Finished

\* The loop is over after MaxPasses passes, and what it leaves behind is a parse
\* in progress of the same bytes.
LEMMA LoopEnds ==
  ASSUME NEW w, NEW all, NEW off, Wire(w, all, off), NEW from \in Nat,
         NEW end \in Nat, NEW c, Loop(w, all, off, from, end, c)
  PROVE  Loop(w, all, off, from, end, Parse(c)) /\ Finished(Parse(c))
<1> DEFINE n == MaxPasses(c)
<1>1. \A x : Loop(w, all, off, from, end, x) => x \in Progress
  BY DEF Loop
<1>2. n \in Nat /\ Left(c) <= n /\ Left(c) \in Nat
  BY <1>1, LeftIs
<1>3. PICK f : Passes(c, n, f) /\ Parse(c) = f[n]
  BY <1>2, ParseIs
<1> HIDE DEF n
<1>4. f[0] = c /\ \A k \in 1..n : f[k] = Pass(f[k - 1])
  <2>1. n \in Nat /\ Passes(c, n, f)
    BY <1>2, <1>3
  <2>2. Chain(c, n, f)
    BY <2>1, PassesAre, Zenon
  <2> QED
    BY <2>2 DEF Chain
<1> DEFINE Good(k) == /\ Loop(w, all, off, from, end, f[k])
                      /\ Finished(f[k]) \/ Left(f[k]) + k <= n
           D == {k \in 0..n : ~Good(k)}
<1>5. D = {}
  <2> SUFFICES ASSUME D # {} PROVE FALSE
    OBVIOUS
  <2>1. IsFiniteSet(D) /\ D \subseteq Nat
    <3>1. IsFiniteSet(0..n)
      BY <1>2, FS_Interval
    <3>2. D \subseteq 0..n
      OBVIOUS
    <3>3. 0..n \subseteq Nat
      OBVIOUS
    <3> HIDE DEF D
    <3>4. IsFiniteSet(D)
      BY <3>1, <3>2, FS_Subset
    <3> QED
      BY <3>2, <3>3, <3>4
  <2>2. PICK k \in D : \A y \in D : k <= y
    <3> HIDE DEF D
    <3> QED
      BY <2>1, LeastElement
  <2>3. k \in 0..n /\ ~Good(k)
    OBVIOUS
  <2>4. Good(0)
    <3>1. Left(c) + 0 <= n
      BY <1>2
    <3> QED
      BY <1>4, <3>1
  <2> HIDE DEF Good
  <2>5. k \in 1..n /\ k - 1 \in 0..n
    BY <1>2, <2>3, <2>4
  <2>6. Good(k - 1)
    <3>1. ~(k <= k - 1)
      BY <2>5
    <3>2. k - 1 \notin D
      <4> HIDE DEF D
      <4> QED
        BY <2>2, <3>1
    <3> QED
      BY <2>5, <3>2
  <2>7. PICK x : x = f[k - 1]
    OBVIOUS
  <2>8. PICK y : y = f[k]
    OBVIOUS
  <2>9. /\ y = Pass(x)
        /\ Loop(w, all, off, from, end, x)
        /\ Finished(x) \/ Left(x) + (k - 1) <= n
    BY <1>4, <2>5, <2>6, <2>7, <2>8 DEF Good
  <2>10. /\ Loop(w, all, off, from, end, y)
         /\ Finished(y) \/ (Left(y) < Left(x) /\ Left(x) + (k - 1) <= n)
    BY <2>9, PassStep
  <2>11. Left(x) \in Nat /\ Left(y) \in Nat
    BY <1>1, <2>9, <2>10, LeftIs
  <2>12. Finished(y) \/ Left(y) + k <= n
    <3> DEFINE lx == Left(x)
               ly == Left(y)
    <3>1. lx \in Nat /\ ly \in Nat
      BY <2>11
    <3> HIDE DEF lx, ly
    <3>2. ly < lx /\ lx + (k - 1) <= n => ly + k <= n
      BY <1>2, <2>5, <3>1
    <3> QED
      BY <2>10, <3>2 DEF lx, ly
  <2> QED
    BY <2>3, <2>8, <2>10, <2>12 DEF Good
<1>6. Good(n)
  <2>1. n \in 0..n
    BY <1>2
  <2> HIDE DEF Good
  <2> QED
    BY <1>5, <2>1
<1>7. PICK z : z = f[n]
  OBVIOUS
<1>8. Loop(w, all, off, from, end, z) /\ (Finished(z) \/ Left(z) + n <= n)
  BY <1>6, <1>7
<1>9. Finished(z)
  <2>1. Left(z) \in Nat /\ (Left(z) = 0 => Finished(z))
    BY <1>1, <1>8, LeftIs
  <2>2. Left(z) + n <= n => Left(z) = 0
    BY <1>2, <2>1
  <2> QED
    BY <1>8, <2>1, <2>2
<1> QED
  BY <1>3, <1>7, <1>8, <1>9

-----------------------------------------------------------------------------
(* The inductive invariant: the bytes written so far are a wire of the        *)
(* written frames, and the parser is somewhere on it.                         *)

\* Of the bytes all of the frames w, the parser took p: it is behind the frames
\* handed over, and the rest is in the buffer and on its way.
ReaderAt(w, all, off, p) ==
  /\ Wire(w, all, off)
  /\ At(w, off, Len(delivered), p, parser, frame)
  /\ Window(all, p, buffer)
  /\ \A i \in 1..Len(delivered) : delivered[i] = w[i]
  /\ ~broken => /\ Window(all, p + Len(buffer), stream)
                /\ p + Len(buffer) + Len(stream) = Len(all)

ParserInv ==
  /\ written \in Seq(CorFrame)
  /\ stream \in Seq(Byte)
  /\ buffer \in Seq(Byte)
  /\ parser \in ParserRecord
  /\ frame \in FrameRecord
  /\ delivered \in Seq(CorFrame)
  /\ broken \in BOOLEAN
  /\ buffer # <<>> => parser.state \in 1..5 /\ Len(buffer) < Sizes[parser.state]
  /\ \E all, off, p : ReaderAt(written, all, off, p)

\* What was read of a wire is read of a longer one.
LEMMA WindowAppend ==
  ASSUME NEW all \in Seq(Byte), NEW s \in Seq(Byte), NEW p \in Nat, NEW x,
         Window(all, p, x)
  PROVE  /\ Window(all \o s, p, x)
         /\ p + Len(x) = Len(all) =>
              Window(all \o s, p, x \o s) /\ Len(x \o s) = Len(x) + Len(s)
<1> DEFINE all2 == all \o s
           x2 == x \o s
<1>1. x \in Seq(Byte) /\ p + Len(x) <= Len(all) /\ \A j \in 1..Len(x) : x[j] = all[p + j]
  BY DEF Window
<1>2. /\ all2 \in Seq(Byte) /\ Len(all2) = Len(all) + Len(s)
      /\ \A i \in 1..Len(all) : all2[i] = all[i]
      /\ \A j \in 1..Len(s) : all2[Len(all) + j] = s[j]
  BY ConcatParts
<1>3. /\ x2 \in Seq(Byte) /\ Len(x2) = Len(x) + Len(s)
      /\ \A i \in 1..Len(x) : x2[i] = x[i]
      /\ \A j \in 1..Len(s) : x2[Len(x) + j] = s[j]
  <2>1. x \in Seq(Byte)
    BY <1>1
  <2> QED
    BY <2>1, ConcatParts
<1>4. Len(x) \in Nat /\ Len(s) \in Nat /\ Len(all) \in Nat
  BY <1>1, LenProperties
<1> HIDE DEF all2, x2
<1>5. ASSUME NEW j \in 1..Len(x) PROVE x[j] = all2[p + j]
  <2>1. p + j \in 1..Len(all)
    BY <1>1, <1>4
  <2> QED
    BY <1>1, <1>2, <2>1
<1>6. Window(all2, p, x)
  <2>1. p + Len(x) <= Len(all2)
    BY <1>1, <1>2, <1>4
  <2> QED
    BY <1>1, <1>5, <2>1 DEF Window
<1>7. ASSUME p + Len(x) = Len(all) PROVE Window(all2, p, x2)
  <2>1. p + Len(x2) <= Len(all2)
    BY <1>2, <1>3, <1>4, <1>7
  <2>2. ASSUME NEW j \in 1..Len(x2) PROVE x2[j] = all2[p + j]
    <3>1. CASE j <= Len(x)
      <4>1. j \in 1..Len(x)
        BY <1>3, <1>4, <3>1
      <4> QED
        BY <1>3, <1>5, <4>1
    <3>2. CASE ~(j <= Len(x))
      <4>1. PICK i \in 1..Len(s) : j = Len(x) + i
        <5>1. j - Len(x) \in 1..Len(s) /\ j = Len(x) + (j - Len(x))
          BY <1>3, <1>4, <3>2
        <5> QED
          BY <5>1
      <4>2. p + j = Len(all) + i
        BY <1>4, <1>7, <4>1
      <4> QED
        BY <1>2, <1>3, <4>1, <4>2
    <3> QED
      BY <3>1, <3>2
  <2> QED
    BY <1>3, <2>1, <2>2 DEF Window
<1> QED
  BY <1>3, <1>6, <1>7 DEF all2, x2

\* A window and what follows it are a window.
LEMMA WindowConcat ==
  ASSUME NEW all \in Seq(Byte), NEW p \in Nat, NEW x, NEW y, NEW q \in Nat,
         Window(all, p, x), Window(all, q, y), q = p + Len(x)
  PROVE  Window(all, p, x \o y) /\ Len(x \o y) = Len(x) + Len(y)
<1> DEFINE z == x \o y
<1>1. x \in Seq(Byte) /\ \A j \in 1..Len(x) : x[j] = all[p + j]
  BY DEF Window
<1>2. /\ y \in Seq(Byte) /\ \A j \in 1..Len(y) : y[j] = all[q + j]
      /\ q + Len(y) <= Len(all)
  BY DEF Window
<1>3. /\ z \in Seq(Byte) /\ Len(z) = Len(x) + Len(y)
      /\ \A i \in 1..Len(x) : z[i] = x[i]
      /\ \A j \in 1..Len(y) : z[Len(x) + j] = y[j]
  <2>1. x \in Seq(Byte) /\ y \in Seq(Byte)
    BY <1>1, <1>2
  <2> QED
    BY <2>1, ConcatParts
<1>4. Len(x) \in Nat /\ Len(y) \in Nat /\ Len(all) \in Nat
  BY <1>1, <1>2, LenProperties
<1> HIDE DEF z
<1>5. p + Len(z) <= Len(all)
  BY <1>2, <1>3, <1>4
<1>6. ASSUME NEW j \in 1..Len(z) PROVE z[j] = all[p + j]
  <2>1. CASE j <= Len(x)
    <3>1. j \in 1..Len(x)
      BY <1>3, <1>4, <2>1
    <3> QED
      BY <1>1, <1>3, <3>1
  <2>2. CASE ~(j <= Len(x))
    <3>1. PICK i \in 1..Len(y) : j = Len(x) + i
      <4>1. j - Len(x) \in 1..Len(y) /\ j = Len(x) + (j - Len(x))
        BY <1>3, <1>4, <2>2
      <4> QED
        BY <4>1
    <3>2. p + j = q + i
      BY <1>4, <3>1
    <3> QED
      BY <1>2, <1>3, <3>1, <3>2
  <2> QED
    BY <2>1, <2>2
<1> QED
  BY <1>3, <1>5, <1>6 DEF Window, z

\* The place on a wire is the same on a longer one.
LEMMA AtAppend ==
  ASSUME NEW w \in Seq(CorFrame), NEW w2 \in Seq(CorFrame), NEW off, NEW off2,
         Len(w2) = Len(w) + 1, \A i \in 1..Len(w) : w2[i] = w[i],
         \A i \in 0..Len(w) : off2[i] = off[i],
         NEW d, NEW p, NEW prs, NEW frm, At(w, off, d, p, prs, frm)
  PROVE  At(w2, off2, d, p, prs, frm)
<1>1. Len(w) \in Nat /\ Len(w2) \in Nat
  BY LenProperties
<1>2. d \in 0..Len(w) /\ p \in Nat
  BY DEF At
<1>3. d \in 0..Len(w2) /\ off2[d] = off[d]
  BY <1>1, <1>2
<1>4. ASSUME d < Len(w) PROVE d < Len(w2) /\ w2[d + 1] = w[d + 1]
  <2>1. d + 1 \in 1..Len(w) /\ d < Len(w2)
    BY <1>1, <1>2, <1>4
  <2> QED
    BY <2>1
<1>5. ASSUME Between(off, d, p, prs) PROVE Between(off2, d, p, prs)
  BY <1>3, <1>5 DEF Between
<1>6. ASSUME InHeader(w, off, d, p, prs, frm) PROVE InHeader(w2, off2, d, p, prs, frm)
  BY <1>3, <1>4, <1>6 DEF InHeader
<1>7. ASSUME InBody(w, off, d, p, prs, frm) PROVE InBody(w2, off2, d, p, prs, frm)
  BY <1>3, <1>4, <1>7 DEF InBody
<1> QED
  BY <1>2, <1>3, <1>5, <1>6, <1>7 DEF At

LEMMA StartsOnEmptyWire == ParserInit => ParserInv
<1> SUFFICES ASSUME ParserInit PROVE ParserInv
  OBVIOUS
<1>1. /\ written = <<>> /\ stream = <<>> /\ buffer = <<>> /\ delivered = <<>>
      /\ parser = NewParser /\ frame = NoFrame /\ broken = FALSE
  BY DEF ParserInit
<1>2. /\ <<>> \in Seq(CorFrame) /\ <<>> \in Seq(Byte) /\ Len(<<>>) = 0
  BY EmptySeq
<1> DEFINE off == [i \in 0..0 |-> 0]
<1>3. off \in [0..0 -> Nat] /\ off[0] = 0
  OBVIOUS
<1> HIDE DEF off
<1>4. \A i, j \in 0..0 : ~(i < j)
  OBVIOUS
<1>5. 1..0 = {}
  OBVIOUS
<1> DEFINE e == <<>>
<1> HIDE DEF e
<1>6. Wire(e, e, off)
  <2>1. e \in Seq(CorFrame) /\ e \in Seq(Byte) /\ Len(e) = 0
    BY <1>2 DEF e
  <2> QED
    BY <1>3, <1>4, <1>5, <2>1 DEF Wire
<1>7. At(e, off, 0, 0, parser, frame)
  <2>1. Len(e) = 0
    BY <1>2 DEF e
  <2> QED
    BY <1>1, <1>3, <2>1, NewIs DEF At, Between
<1>8. Window(e, 0, e)
  <2>1. e \in Seq(Byte) /\ Len(e) = 0
    BY <1>2 DEF e
  <2> QED
    BY <1>5, <2>1 DEF Window
<1>9. ReaderAt(written, e, off, 0)
  <2>1. written = e /\ buffer = e /\ stream = e /\ delivered = e /\ Len(e) = 0
    BY <1>1, <1>2 DEF e
  <2> QED
    BY <1>5, <1>6, <1>7, <1>8, <2>1 DEF ReaderAt
<1> QED
  BY <1>1, <1>2, <1>9, NewIs DEF ParserInv

LEMMA WriteKeeps ==
  ASSUME ParserInv, NEW f \in CorFrame, NEW flags \in FlagBytes, WriteFrame(f, flags)
  PROVE  ParserInv'
<1> DEFINE s == Serialized(f, flags)
           w2 == Append(written, f)
<1>1. /\ ~broken /\ written' = w2 /\ stream' = stream \o s
      /\ buffer' = buffer /\ parser' = parser /\ frame' = frame
      /\ delivered' = delivered /\ broken' = broken
  BY DEF WriteFrame, readerVars
<1>2. PICK all, off, p : ReaderAt(written, all, off, p)
  BY DEF ParserInv
<1>3. /\ Wire(written, all, off) /\ At(written, off, Len(delivered), p, parser, frame)
      /\ Window(all, p, buffer) /\ \A i \in 1..Len(delivered) : delivered[i] = written[i]
      /\ Window(all, p + Len(buffer), stream)
      /\ p + Len(buffer) + Len(stream) = Len(all)
  BY <1>1, <1>2 DEF ReaderAt
<1>4. PICK off2 : /\ Wire(w2, all \o s, off2)
                  /\ \A i \in 0..Len(written) : off2[i] = off[i]
  BY <1>3, WireAppend
<1>5. s \in Seq(Byte) /\ all \in Seq(Byte) /\ p \in Nat /\ buffer \in Seq(Byte)
      /\ stream \in Seq(Byte) /\ Len(buffer) \in Nat /\ Len(stream) \in Nat
  BY <1>3, SerializedIs, LenProperties DEF ParserInv, Wire, At
<1> HIDE DEF s
<1>6. Window(all \o s, p, buffer)
  BY <1>3, <1>5, WindowAppend
<1>7. /\ Window(all \o s, p + Len(buffer), stream \o s)
      /\ Len(stream \o s) = Len(stream) + Len(s)
  <2> DEFINE q == p + Len(buffer)
  <2>1. q \in Nat /\ Window(all, q, stream) /\ q + Len(stream) = Len(all)
    BY <1>3, <1>5
  <2> HIDE DEF q
  <2>2. /\ Window(all \o s, q, stream \o s)
        /\ Len(stream \o s) = Len(stream) + Len(s)
    BY <1>5, <2>1, WindowAppend
  <2> QED
    BY <2>2 DEF q
<1>8. Len(all \o s) = Len(all) + Len(s) /\ stream \o s \in Seq(Byte)
  <2>1. all \in Seq(Byte) /\ s \in Seq(Byte) /\ stream \in Seq(Byte)
    BY <1>5
  <2> QED
    BY <2>1, ConcatParts
<1>9. /\ written \in Seq(CorFrame) /\ w2 \in Seq(CorFrame)
      /\ Len(w2) = Len(written) + 1 /\ \A i \in 1..Len(written) : w2[i] = written[i]
  BY AppendProperties DEF ParserInv
<1> HIDE DEF w2
<1>10. At(w2, off2, Len(delivered), p, parser, frame)
  BY <1>3, <1>4, <1>9, AtAppend
<1>11. \A i \in 1..Len(delivered) : delivered[i] = w2[i]
  <2>1. Len(delivered) \in 0..Len(written) /\ Len(written) \in Nat
    BY <1>3, <1>9, LenProperties DEF At
  <2>2. \A i \in 1..Len(delivered) : i \in 1..Len(written)
    BY <2>1
  <2> QED
    BY <1>3, <1>9, <2>2
<1>12. p + Len(buffer) + (Len(stream) + Len(s)) = Len(all) + Len(s)
  <2> DEFINE lb == Len(buffer)
             ls == Len(stream)
             la == Len(all)
             l == Len(s)
  <2>1. l \in Nat /\ la \in Nat /\ lb \in Nat /\ ls \in Nat /\ p + lb + ls = la /\ p \in Nat
    BY <1>3, <1>5, LenProperties
  <2> HIDE DEF lb, ls, la, l
  <2>2. p + lb + (ls + l) = la + l
    BY <2>1
  <2> QED
    BY <2>2 DEF lb, ls, la, l
<1>13. ReaderAt(written, all \o s, off2, p)'
  <2>1. p + Len(buffer) + Len(stream \o s) = Len(all \o s)
    BY <1>7, <1>8, <1>12
  <2> QED
    BY <1>1, <1>4, <1>6, <1>7, <1>10, <1>11, <2>1 DEF ReaderAt
<1>14. (\E a, o, q : ReaderAt(written, a, o, q))'
  BY <1>13
<1> QED
  BY <1>1, <1>8, <1>9, <1>14 DEF ParserInv

LEMMA DisconnectKeeps ==
  ASSUME ParserInv, Disconnected
  PROVE  ParserInv'
<1>1. /\ ~broken /\ broken' = TRUE /\ stream' = <<>> /\ written' = written
      /\ buffer' = buffer /\ parser' = parser /\ frame' = frame
      /\ delivered' = delivered
  BY DEF Disconnected, readerVars
<1>2. PICK all, off, p : ReaderAt(written, all, off, p)
  BY DEF ParserInv
<1>3. ReaderAt(written, all, off, p)'
  BY <1>1, <1>2 DEF ReaderAt
<1>4. (\E a, o, q : ReaderAt(written, a, o, q))'
  BY <1>3
<1> QED
  BY <1>1, <1>4, EmptySeq DEF ParserInv

\* What onSocketReadyRead gives the parser, and what the parser makes of it.
LEMMA ReadParses ==
  ASSUME NEW all, NEW off, NEW p, ReaderAt(written, all, off, p), ParserInv,
         NEW n \in 1..Len(stream), ~broken,
         NEW c, c = [parser |-> parser, frame |-> frame, handed |-> <<>>,
                     data |-> buffer \o SubSeq(stream, 1, n), starved |-> FALSE]
  PROVE  LET x == Parse(c)
             end == p + Len(buffer) + n
         IN  /\ end \in Nat
             /\ Loop(written, all, off, Len(delivered), end, x)
             /\ Finished(x)
             /\ Window(all, end, SubSeq(stream, n + 1, Len(stream)))
             /\ end + Len(SubSeq(stream, n + 1, Len(stream))) = Len(all)
<1> DEFINE x == Parse(c)
           lb == Len(buffer)
           ls == Len(stream)
           q == p + lb
           end == q + n
           seg == SubSeq(stream, 1, n)
           rest == SubSeq(stream, n + 1, Len(stream))
           data == buffer \o seg
<1>1. /\ Wire(written, all, off) /\ At(written, off, Len(delivered), p, parser, frame)
      /\ Window(all, p, buffer)
      /\ Window(all, q, stream)
      /\ q + ls = Len(all)
  BY DEF ReaderAt
<1>2. /\ buffer \in Seq(Byte) /\ stream \in Seq(Byte) /\ all \in Seq(Byte) /\ p \in Nat
      /\ parser \in ParserRecord /\ frame \in FrameRecord
      /\ lb \in Nat /\ ls \in Nat /\ Len(all) \in Nat
  BY <1>1, LenProperties DEF ParserInv, Wire, At
<1>3. n \in 0..ls /\ q \in Nat /\ n \in Nat
  BY <1>2
<1>4. /\ Window(all, q + n, rest) /\ Len(rest) = ls - n
      /\ seg \in Seq(Byte) /\ Len(seg) = n
      /\ \A j \in 1..n : seg[j] = all[q + j]
  <2>1. q \in Nat /\ Window(all, q, stream) /\ all \in Seq(Byte) /\ n \in 0..Len(stream)
    BY <1>1, <1>2, <1>3
  <2> HIDE DEF q
  <2>2. Split(all, q, stream, n, seg, rest)
    BY <2>1, WindowSplit, Zenon
  <2> HIDE DEF seg, rest
  <2> QED
    BY <2>2 DEF Split
<1> HIDE DEF seg, rest
<1>5. Window(all, q, seg)
  <2>1. q + Len(seg) <= Len(all)
    <3> HIDE DEF q, ls
    <3> QED
      BY <1>1, <1>2, <1>3, <1>4
  <2> QED
    BY <1>4, <2>1 DEF Window
<1>6. Window(all, p, data) /\ Len(data) = lb + n
  <2>1. q \in Nat /\ q = p + Len(buffer)
    BY <1>3
  <2> HIDE DEF q, data
  <2>2. Window(all, p, data) /\ Len(data) = Len(buffer) + Len(seg)
    BY <1>1, <1>2, <1>5, <2>1, WindowConcat DEF data
  <2> QED
    BY <1>4, <2>2
<1> HIDE DEF data
<1>7. /\ c.parser = parser /\ c.frame = frame /\ c.handed = <<>> /\ c.data = data
      /\ c.starved = FALSE
  BY DEF data, seg
<1>8. c \in Progress /\ Len(c.handed) = 0
  <2>1. <<>> \in Seq(FrameRecord) /\ data \in Seq(Byte) /\ Len(<<>>) = 0
    BY <1>6, EmptySeq DEF Window
  <2> QED
    BY <1>2, <1>7, <2>1 DEF Progress, data, seg
<1>9. Loop(written, all, off, Len(delivered), end, c)
  <2>1. end - Len(c.data) = p
    <3> DEFINE l == Len(c.data)
    <3>1. l = lb + n /\ p \in Nat /\ lb \in Nat /\ n \in Nat
      BY <1>2, <1>3, <1>6, <1>7
    <3> HIDE DEF lb, l
    <3>2. end - l = p
      BY <3>1
    <3> QED
      BY <3>2 DEF l
  <2>2. Len(delivered) + Len(c.handed) = Len(delivered)
    BY <1>8, LenProperties DEF ParserInv
  <2>3. 1..Len(c.handed) = {}
    BY <1>8
  <2> HIDE DEF end
  <2> QED
    BY <1>1, <1>6, <1>7, <1>8, <2>1, <2>2, <2>3 DEF Loop
<1>10. Loop(written, all, off, Len(delivered), end, x) /\ Finished(x)
  <2>1. end \in Nat /\ Len(delivered) \in Nat
    BY <1>3, LenProperties DEF ParserInv
  <2> HIDE DEF end
  <2> QED
    BY <1>1, <1>9, <2>1, LoopEnds
<1>11. end \in Nat /\ end + Len(rest) = Len(all)
  <2> DEFINE l == Len(rest)
             la == Len(all)
  <2>1. l = ls - n /\ q + ls = la /\ n \in Nat /\ q \in Nat /\ ls \in Nat /\ la \in Nat
    BY <1>1, <1>2, <1>3, <1>4
  <2> HIDE DEF q, ls, l, la
  <2>2. q + n \in Nat /\ (q + n) + l = la
    BY <2>1
  <2> QED
    BY <2>2 DEF l, la
<1> QED
  BY <1>4, <1>10, <1>11 DEF rest

LEMMA ReadKeeps ==
  ASSUME ParserInv, NEW n \in 1..Len(stream), OnSocketReadyRead(n)
  PROVE  /\ ParserInv'
         /\ \E h \in Seq(FrameRecord) : delivered' = delivered \o h
<1>1. PICK all, off, p : ReaderAt(written, all, off, p)
  BY DEF ParserInv
<1>2. PICK c : c = [parser |-> parser, frame |-> frame, handed |-> <<>>,
                    data |-> buffer \o SubSeq(stream, 1, n), starved |-> FALSE]
  OBVIOUS
<1>3. PICK x : x = Parse(c)
  OBVIOUS
<1>4. PICK rest : rest = SubSeq(stream, n + 1, Len(stream))
  OBVIOUS
<1>5. PICK end : end = p + Len(buffer) + n
  OBVIOUS
<1>6. PICK from : from = Len(delivered)
  OBVIOUS
<1>7. PICK w : w = written
  OBVIOUS
<1>8. /\ ~broken /\ broken' = broken /\ written' = w
      /\ parser' = x.parser /\ frame' = x.frame /\ buffer' = x.data
      /\ delivered' = delivered \o x.handed /\ stream' = rest
  BY <1>2, <1>3, <1>4, <1>7 DEF OnSocketReadyRead, Rest
<1>9. /\ end \in Nat /\ Loop(w, all, off, from, end, x) /\ Finished(x)
      /\ Window(all, end, rest) /\ end + Len(rest) = Len(all)
  BY <1>1, <1>2, <1>3, <1>4, <1>5, <1>6, <1>7, <1>8, ReadParses
<1>10. /\ x.parser \in ParserRecord /\ x.frame \in FrameRecord
       /\ x.handed \in Seq(FrameRecord) /\ x.data \in Seq(Byte)
       /\ Window(all, end - Len(x.data), x.data)
       /\ \A i \in 1..Len(x.handed) : x.handed[i] = w[from + i]
       /\ At(w, off, from + Len(x.handed), end - Len(x.data), x.parser, x.frame)
       /\ x.starved => x.parser.state \in 1..5 /\ Len(x.data) < Sizes[x.parser.state]
  BY <1>9 DEF Loop, Progress
<1>11. /\ w \in Seq(CorFrame) /\ delivered \in Seq(CorFrame) /\ from \in Nat
       /\ Wire(w, all, off) /\ \A i \in 1..from : delivered[i] = w[i]
       /\ Len(w) \in Nat /\ Len(x.data) \in Nat /\ Len(x.handed) \in Nat
  BY <1>1, <1>6, <1>7, <1>10, LenProperties DEF ParserInv, ReaderAt
<1>12. from + Len(x.handed) \in 0..Len(w) /\ end - Len(x.data) \in Nat
  BY <1>10 DEF At
<1>13. x.handed \in Seq(CorFrame)
  <2> DEFINE m == Len(x.handed)
             h == x.handed
  <2>1. \A i \in 1..m : h[i] \in CorFrame
    <3> HIDE DEF m, h
    <3> TAKE i \in 1..m
    <3>1. from + i \in 1..Len(w)
      BY <1>11, <1>12 DEF m, h
    <3>2. w[from + i] \in CorFrame
      BY <1>11, <3>1, LenProperties
    <3> QED
      BY <1>10, <3>2 DEF m, h
  <2>2. h = [i \in 1..m |-> h[i]]
    BY <1>10, LenProperties
  <2>3. m \in Nat
    BY <1>11
  <2> HIDE DEF m, h
  <2>4. h \in [1..m -> CorFrame]
    BY <2>1, <2>2
  <2>5. h \in Seq(CorFrame)
    BY <2>3, <2>4, SequenceIs
  <2> QED
    BY <2>5 DEF h
<1>14. PICK d2 : d2 = delivered \o x.handed
  OBVIOUS
<1>15. /\ d2 \in Seq(CorFrame) /\ Len(d2) = from + Len(x.handed)
       /\ \A i \in 1..from : d2[i] = delivered[i]
       /\ \A j \in 1..Len(x.handed) : d2[from + j] = x.handed[j]
  <2>1. /\ d2 \in Seq(CorFrame) /\ Len(d2) = Len(delivered) + Len(x.handed)
        /\ \A i \in 1..Len(delivered) : d2[i] = delivered[i]
        /\ \A j \in 1..Len(x.handed) : d2[Len(delivered) + j] = x.handed[j]
    <3>1. delivered \in Seq(CorFrame) /\ x.handed \in Seq(CorFrame)
      BY <1>11, <1>13
    <3> QED
      BY <1>14, <3>1, ConcatParts
  <2> QED
    BY <1>6, <2>1
<1>16. \A i \in 1..Len(d2) : d2[i] = w[i]
  <2> TAKE i \in 1..Len(d2)
  <2>1. CASE i <= from
    <3>1. i \in 1..from
      BY <1>11, <1>15, <2>1
    <3> QED
      BY <1>11, <1>15, <3>1
  <2>2. CASE ~(i <= from)
    <3>1. PICK j \in 1..Len(x.handed) : i = from + j
      <4>1. i - from \in 1..Len(x.handed) /\ i = from + (i - from)
        BY <1>11, <1>15, <2>2
      <4> QED
        BY <4>1
    <3> QED
      BY <1>10, <1>15, <3>1
  <2> QED
    BY <2>1, <2>2
<1>17. PICK p2 \in Nat : p2 = end - Len(x.data)
  BY <1>12
<1>18. p2 + Len(x.data) = end
  BY <1>9, <1>11, <1>17
<1>19. ReaderAt(written, all, off, p2)'
  <2>1. At(w, off, Len(d2), p2, x.parser, x.frame)
    BY <1>10, <1>15, <1>17
  <2>2. Window(all, p2, x.data)
    BY <1>10, <1>17
  <2>3. Window(all, p2 + Len(x.data), rest) /\ p2 + Len(x.data) + Len(rest) = Len(all)
    BY <1>9, <1>18
  <2> QED
    BY <1>8, <1>11, <1>14, <1>16, <2>1, <2>2, <2>3 DEF ReaderAt
<1>20. (\E a, o, q : ReaderAt(written, a, o, q))'
  BY <1>19
<1>21. x.data # <<>> => x.parser.state \in 1..5 /\ Len(x.data) < Sizes[x.parser.state]
  BY <1>9, <1>10 DEF Finished
<1>22. rest \in Seq(Byte)
  BY <1>9 DEF Window
<1>23. ParserInv'
  BY <1>7, <1>8, <1>10, <1>11, <1>14, <1>15, <1>20, <1>21, <1>22 DEF ParserInv
<1> QED
  BY <1>8, <1>10, <1>23

LEMMA ParserInvKept == ParserInv /\ [ParserNext]_parserVars => ParserInv'
<1> SUFFICES ASSUME ParserInv, [ParserNext]_parserVars PROVE ParserInv'
  OBVIOUS
<1>1. CASE UNCHANGED parserVars
  BY <1>1 DEF parserVars, readerVars, ParserInv, ReaderAt
<1>2. ASSUME NEW f \in CorFrame, NEW flags \in FlagBytes, WriteFrame(f, flags)
      PROVE  ParserInv'
  BY <1>2, WriteKeeps
<1>3. ASSUME NEW n \in 1..Len(stream), OnSocketReadyRead(n)
      PROVE  ParserInv'
  BY <1>3, ReadKeeps
<1>4. CASE Disconnected
  BY <1>4, DisconnectKeeps
<1> QED
  BY <1>1, <1>2, <1>3, <1>4 DEF ParserNext

LEMMA ParserInvTheorem == ParserSpec => []ParserInv
<1> QED
  BY StartsOnEmptyWire, ParserInvKept, PTL DEF ParserSpec

-----------------------------------------------------------------------------
(* Types, and nothing held back                                               *)

\* The parser's state is one of its states, its fields are numbers and what it
\* hands over are frames (cor_parser_parse, parser.c).
THEOREM ParserTypeTheorem == ParserSpec => []ParserTypeOK
<1>1. ParserInv => ParserTypeOK
  <2> SUFFICES ASSUME ParserInv PROVE ParserTypeOK
    OBVIOUS
  <2>1. /\ parser.state \in 0..BodyState
        /\ parser.request_body_bytes_read \in Nat
        /\ parser.request \in RequestRecord
    BY FieldsAre DEF ParserInv, ParserRecord
  <2>2. \A field \in DOMAIN NoRequest : parser.request[field] \in Nat
    BY <2>1 DEF NoRequest, RequestRecord
  <2> QED
    BY <2>1, <2>2 DEF ParserInv, ParserTypeOK, Byte
<1> QED
  BY <1>1, ParserInvTheorem, PTL

LEMMA NothingHeld == ParserInv => NothingHeldBack
<1> SUFFICES ASSUME ParserInv PROVE NothingHeldBack
  OBVIOUS
<1>1. PICK all, off, p : ReaderAt(written, all, off, p)
  BY DEF ParserInv
<1>2. /\ Wire(written, all, off) /\ At(written, off, Len(delivered), p, parser, frame)
      /\ \A i \in 1..Len(delivered) : delivered[i] = written[i]
      /\ ~broken => p + Len(buffer) + Len(stream) = Len(all)
  BY <1>1 DEF ReaderAt
<1> DEFINE n == Len(written)
           d == Len(delivered)
           lb == Len(buffer)
           la == Len(all)
<1>3. /\ written \in Seq(CorFrame) /\ delivered \in Seq(CorFrame)
      /\ n \in Nat /\ d \in 0..n /\ p \in Nat /\ lb \in Nat /\ la \in Nat
      /\ d \in Nat /\ buffer \in Seq(Byte)
  BY <1>2, LenProperties DEF ParserInv, At, Wire
<1>4. /\ buffer = <<>> => lb = 0
      /\ buffer # <<>> => parser.state \in 1..5 /\ lb < Sizes[parser.state]
  BY EmptySeq DEF ParserInv
<1>5. lb < 4
  <2>1. \A s \in 1..5 : Sizes[s] \in 1..4
    BY FieldsAre
  <2>2. CASE buffer = <<>>
    BY <1>4, <2>2
  <2>3. CASE buffer # <<>>
    <3>1. lb < Sizes[parser.state] /\ Sizes[parser.state] \in 1..4
      BY <1>4, <2>1, <2>3
    <3> HIDE DEF lb
    <3> QED
      BY <1>3, <3>1
  <2> QED
    BY <2>2, <2>3
<1>6. ASSUME ~broken, stream = <<>>
      PROVE  \/ delivered = written
             \/ /\ delivered = Front(written)
                /\ Last(written).data = <<>>
  <2>1. p + lb = la
    <3>1. Len(stream) = 0
      BY <1>6, EmptySeq
    <3> QED
      BY <1>2, <1>3, <1>6, <3>1
  <2>2. /\ off[n] = la /\ \A i, j \in 0..n : i < j => off[i] + 13 <= off[j]
        /\ \A i \in 0..n : off[i] \in Nat
        /\ \A i \in 1..n : off[i] = off[i - 1] + 13 + Len(written[i].data)
    BY <1>2 DEF Wire
  <2>3. ASSUME d < n PROVE off[d] + 13 <= la
    BY <1>3, <2>2, <2>3
  <2>4. off[d] \in Nat
    BY <1>3, <2>2
  <2>5. CASE Between(off, d, p, parser)
    <3>1. p = off[d] /\ lb = 0
      BY <1>4, <2>5 DEF Between
    <3>2. off[d] = la
      BY <2>1, <2>4, <3>1
    <3>3. d = n
      BY <1>3, <2>3, <2>4, <3>2
    <3> QED
      BY <1>2, <1>3, <3>3, SeqEqual
  <2>6. CASE InHeader(written, off, d, p, parser, frame)
    <3> DEFINE s == parser.state
    <3>1. d < n /\ s \in 1..5 /\ p = off[d] + FieldAt[s]
      BY <2>6 DEF InHeader
    <3>2. /\ FieldAt[s] \in Nat /\ Sizes[s] \in 1..4 /\ FieldAt[s] + Sizes[s] <= 13
      BY <3>1, FieldAtIs, FieldsAre
    <3>3. lb < Sizes[s]
      BY <1>4, <3>2
    <3> DEFINE at == FieldAt[s]
               size == Sizes[s]
               o == off[d]
    <3>4. /\ o + 13 <= la /\ p = o + at /\ p + lb = la /\ lb < size /\ at + size <= 13
          /\ o \in Nat /\ at \in Nat /\ size \in Nat
      <4>1. o + 13 <= la /\ o \in Nat
        BY <2>3, <2>4, <3>1
      <4>2. p = o + at /\ p + lb = la /\ lb < size
        BY <2>1, <3>1, <3>3
      <4>3. at + size <= 13 /\ at \in Nat /\ size \in Nat
        BY <3>2
      <4> HIDE DEF at, size, o, lb, la
      <4> QED
        BY <4>1, <4>2, <4>3
    <3> HIDE DEF at, size, o, lb, la, s, d, n
    <3> QED
      BY <1>3, <3>4
  <2>7. CASE InBody(written, off, d, p, parser, frame)
    <3> DEFINE r == parser.request_body_bytes_read
               l == Len(written[d + 1].data)
               o == off[d]
    <3>1. /\ d < n /\ p = o + 13 + r /\ parser.state = 6
          /\ parser.request.length = l /\ r <= parser.request.length
          /\ r = parser.request.length => parser.request.length = 0
      BY <2>7 DEF InBody
    <3>2. lb = 0
      BY <1>4, <3>1
    <3>3. r \in Nat
      BY DEF ParserInv, ParserRecord
    <3>4. d + 1 \in 1..n /\ (d + 1) - 1 = d /\ d + 1 \in 0..n
      BY <1>3, <3>1
    <3>5. written[d + 1] \in CorFrame
      BY <1>3, <3>4, LenProperties
    <3>6. l \in Nat /\ written[d + 1].data \in Seq(Byte)
      BY <3>5, FrameFields, LenProperties
    <3>7. off[d + 1] = o + 13 + l
      BY <2>2, <3>4
    <3>8. d + 1 = n
      <4> SUFFICES ASSUME d + 1 # n PROVE FALSE
        OBVIOUS
      <4>1. d + 1 < n
        BY <1>3, <3>4
      <4>2. n \in 0..n
        BY <1>3
      <4>3. off[d + 1] + 13 <= la
        BY <2>2, <3>4, <4>1, <4>2
      <4>4. (o + 13 + l) + 13 <= o + 13 + r + 0 /\ r <= l
        BY <2>1, <3>1, <3>2, <3>7, <4>3
      <4> HIDE DEF o, l, r
      <4> QED
        BY <2>4, <3>3, <3>6, <4>4 DEF o
    <3>9. r = l
      <4>1. off[d + 1] = la
        BY <2>2, <3>8
      <4>2. o + 13 + l = o + 13 + r + 0
        BY <2>1, <3>1, <3>2, <3>7, <4>1
      <4>3. o \in Nat
        BY <2>4
      <4> HIDE DEF o, l, r
      <4> QED
        BY <3>3, <3>6, <4>2, <4>3
    <3>10. l = 0
      BY <3>1, <3>9
    <3>11. Last(written).data = <<>>
      <4>1. written[n].data = <<>>
        BY <3>6, <3>8, <3>10, EmptySeq
      <4> QED
        BY <4>1 DEF Last
    <3>12. delivered = Front(written)
      <4> DEFINE t == SubSeq(written, 0 + 1, 0 + d)
      <4>1. t \in Seq(CorFrame) /\ Len(t) = d /\ \A j \in 1..d : t[j] = written[0 + j]
        <5>1. 0 \in Nat /\ 0 + d <= Len(written)
          BY <1>3
        <5> QED
          BY <1>3, <5>1, Section
      <4>2. Front(written) = t
        <5>1. 0 + 1 = 1 /\ 0 + d = n - 1
          BY <1>3, <3>8
        <5> QED
          BY <5>1 DEF Front
      <4> HIDE DEF t
      <4>3. \A j \in 1..d : t[j] = delivered[j]
        BY <1>2, <4>1
      <4>4. delivered = t
        BY <1>3, <4>1, <4>3, SeqEqual
      <4> QED
        BY <4>2, <4>4
    <3> QED
      BY <3>11, <3>12
  <2> QED
    BY <1>2, <2>5, <2>6, <2>7 DEF At
<1> QED
  BY <1>5, <1>6 DEF NothingHeldBack

\* However TCP cuts the bytes, and for any frames of up to 2^32 - 1 bytes: when
\* all bytes arrived all frames are handed over, but for a last one with an empty
\* body, and less than a field stays in the buffer (qcorconnection.cpp and parser.c).
THEOREM HeldBackTheorem == ParserSpec => []NothingHeldBack
<1> QED
  BY NothingHeld, ParserInvTheorem, PTL

\* Whatever segment is read next, the loop is over within MaxPasses passes.
LoopFinishes ==
  ~broken => \A n \in 1..Len(stream) :
    Finished(Parse([parser |-> parser, frame |-> frame, handed |-> <<>>,
                    data |-> buffer \o SubSeq(stream, 1, n),
                    starved |-> FALSE]))

\* The while loop of cor_parser_parse (parser.c) ends, in a number of passes that
\* is linear in the data, in every state and for every segment, although it has
\* passes that take no byte: those that begin a frame or end an empty body.
THEOREM LoopTheorem == ParserSpec => []LoopFinishes
<1>1. ParserInv => LoopFinishes
  <2> SUFFICES ASSUME ParserInv, ~broken, NEW n \in 1..Len(stream)
               PROVE  Finished(Parse([parser |-> parser, frame |-> frame,
                        handed |-> <<>>, data |-> buffer \o SubSeq(stream, 1, n),
                        starved |-> FALSE]))
    BY DEF LoopFinishes
  <2>1. PICK all, off, p : ReaderAt(written, all, off, p)
    BY DEF ParserInv
  <2>2. PICK c : c = [parser |-> parser, frame |-> frame, handed |-> <<>>,
                      data |-> buffer \o SubSeq(stream, 1, n), starved |-> FALSE]
    OBVIOUS
  <2>3. Finished(Parse(c))
    BY <2>1, <2>2, ReadParses
  <2> QED
    BY <2>2, <2>3
<1> QED
  BY <1>1, ParserInvTheorem, PTL

-----------------------------------------------------------------------------
(* The connection implements a channel of whole frames                        *)

LEMMA OutstandingIs ==
  ASSUME ParserInv
  PROVE  /\ broken => Outstanding = <<>>
         /\ Outstanding \in Seq(CorFrame)
         /\ Len(delivered) \in 0..Len(written)
         /\ \A i \in 1..Len(delivered) : delivered[i] = written[i]
         /\ ~broken =>
              /\ Len(Outstanding) = Len(written) - Len(delivered)
              /\ \A j \in 1..(Len(written) - Len(delivered)) :
                   Outstanding[j] = written[Len(delivered) + j]
<1> DEFINE n == Len(written)
           d == Len(delivered)
           k == n - d
           rest == SubSeq(written, d + 1, d + k)
           first == SubSeq(written, 0 + 1, 0 + d)
           whole == SubSeq(delivered, 0 + 1, 0 + d)
<1>1. PICK all, off, p : ReaderAt(written, all, off, p)
  BY DEF ParserInv
<1>2. /\ written \in Seq(CorFrame) /\ delivered \in Seq(CorFrame)
      /\ n \in Nat /\ d \in Nat /\ d \in 0..n
      /\ \A i \in 1..d : delivered[i] = written[i]
  BY <1>1, LenProperties DEF ParserInv, ReaderAt, At
<1> HIDE DEF n, d
<1>3. k \in Nat /\ d + k = n /\ 0 + d = d /\ 0 + 1 = 1 /\ d <= n
  BY <1>2
<1> HIDE DEF k
<1>4. /\ rest \in Seq(CorFrame) /\ Len(rest) = k
      /\ \A j \in 1..k : rest[j] = written[d + j]
  <2>1. d + k <= Len(written)
    BY <1>2, <1>3 DEF n
  <2> QED
    BY <1>2, <1>3, <2>1, Section
<1>5. /\ first \in Seq(CorFrame) /\ Len(first) = d
      /\ \A j \in 1..d : first[j] = written[0 + j]
  <2>1. 0 + d <= Len(written) /\ 0 \in Nat
    BY <1>2, <1>3 DEF n
  <2> QED
    BY <1>2, <2>1, Section
<1>6. /\ whole \in Seq(CorFrame) /\ Len(whole) = d
      /\ \A j \in 1..d : whole[j] = delivered[0 + j]
  <2>1. 0 + d <= Len(delivered) /\ 0 \in Nat
    BY <1>2, <1>3 DEF d
  <2> QED
    BY <1>2, <2>1, Section
<1>7. /\ rest = SubSeq(written, d + 1, n) /\ first = SubSeq(written, 1, d)
      /\ whole = SubSeq(delivered, 1, d)
  BY <1>3
<1> HIDE DEF rest, first, whole
<1>8. whole = first
  <2>1. \A j \in 1..Len(whole) : whole[j] = first[j]
    BY <1>2, <1>5, <1>6
  <2> QED
    BY <1>5, <1>6, <2>1, SeqEqual
<1>9. IsPrefix(delivered, written)
  BY <1>3, <1>7, <1>8 DEF IsPrefix, n, d
<1>10. Outstanding = IF broken THEN <<>> ELSE rest
  BY <1>7, <1>9 DEF Outstanding, n, d
<1>11. broken \in BOOLEAN
  BY DEF ParserInv
<1>12. CASE broken
  BY <1>2, <1>10, <1>12, EmptySeq DEF n, d
<1>13. CASE ~broken
  BY <1>2, <1>4, <1>10, <1>13 DEF k, n, d
<1> QED
  BY <1>11, <1>12, <1>13

\* Outstanding is what was written and not yet handed over.
RestOfWritten ==
  /\ Outstanding \in Seq(CorFrame)
  /\ Len(delivered) \in 0..Len(written)
  /\ ~broken => /\ Len(Outstanding) = Len(written) - Len(delivered)
                /\ \A j \in 1..(Len(written) - Len(delivered)) :
                     Outstanding[j] = written[Len(delivered) + j]

LEMMA OutstandingNext == ParserInv' => RestOfWritten'
<1>1. ParserInv => RestOfWritten
  BY OutstandingIs DEF RestOfWritten
<1> QED
  BY <1>1, PTL

LEMMA WritePosts ==
  ASSUME ParserInv, ParserInv', NEW f \in CorFrame, NEW flags \in FlagBytes,
         WriteFrame(f, flags)
  PROVE  /\ Outstanding' = Append(Outstanding, f)
         /\ ~broken /\ UNCHANGED broken
<1>1. /\ ~broken /\ broken' = broken /\ written' = Append(written, f)
      /\ delivered' = delivered
  BY DEF WriteFrame, readerVars
<1>2. PICK old : old = Outstanding
  OBVIOUS
<1>3. PICK new : new = Outstanding'
  OBVIOUS
<1>4. PICK n : n = Len(written)
  OBVIOUS
<1>5. PICK d : d = Len(delivered)
  OBVIOUS
<1>6. /\ n \in Nat /\ d \in 0..n /\ old \in Seq(CorFrame) /\ Len(old) = n - d
      /\ \A j \in 1..(n - d) : old[j] = written[d + j]
  BY <1>1, <1>2, <1>4, <1>5, OutstandingIs, LenProperties DEF ParserInv
<1>7. /\ Append(written, f) \in Seq(CorFrame) /\ Len(Append(written, f)) = n + 1
      /\ \A i \in 1..n : Append(written, f)[i] = written[i]
      /\ Append(written, f)[n + 1] = f
  BY <1>4, AppendProperties DEF ParserInv
<1>8. PICK w2 : w2 = Append(written, f)
  OBVIOUS
<1>9. /\ new \in Seq(CorFrame) /\ Len(new) = (n + 1) - d
      /\ \A j \in 1..((n + 1) - d) : new[j] = w2[d + j]
  <2>1. RestOfWritten'
    BY OutstandingNext
  <2>2. /\ new \in Seq(CorFrame) /\ Len(new) = Len(w2) - d
        /\ \A j \in 1..(Len(w2) - d) : new[j] = w2[d + j]
    BY <1>1, <1>3, <1>5, <1>8, <2>1 DEF RestOfWritten
  <2>3. Len(w2) = n + 1
    BY <1>7, <1>8
  <2> QED
    BY <2>2, <2>3
<1>10. new = Append(old, f)
  <2> DEFINE app == Append(old, f)
             k == n - d
  <2>1. k \in Nat /\ (n + 1) - d = k + 1 /\ d + (k + 1) = n + 1
    BY <1>6
  <2>2. /\ app \in Seq(CorFrame) /\ Len(app) = k + 1
        /\ \A j \in 1..k : app[j] = old[j]
        /\ app[k + 1] = f
    BY <1>6, AppendProperties
  <2> HIDE DEF app, k
  <2>3. ASSUME NEW j \in 1..(k + 1) PROVE new[j] = app[j]
    <3>1. new[j] = w2[d + j]
      BY <1>9, <2>1
    <3>2. CASE j \in 1..k
      <4>1. d + j \in 1..n /\ j \in 1..(n - d)
        BY <1>6, <3>2 DEF k
      <4> QED
        BY <1>6, <1>7, <1>8, <2>2, <3>1, <3>2, <4>1
    <3>3. CASE j = k + 1
      BY <1>7, <1>8, <2>1, <2>2, <3>1, <3>3
    <3> QED
      BY <2>1, <3>2, <3>3
  <2>4. Len(new) = Len(app) /\ Len(new) = k + 1
    BY <1>9, <2>1, <2>2
  <2>5. new = app
    <3>1. \A j \in 1..Len(new) : new[j] = app[j]
      BY <2>3, <2>4
    <3> QED
      BY <1>9, <2>2, <2>4, <3>1, SeqEqual
  <2> QED
    BY <2>5 DEF app
<1> QED
  BY <1>1, <1>2, <1>3, <1>10

LEMMA ReadTakes ==
  ASSUME ParserInv, ParserInv', NEW n \in 1..Len(stream), OnSocketReadyRead(n)
  PROVE  /\ \/ Outstanding' = Outstanding
            \/ \E k \in 1..Len(Outstanding) :
                 Outstanding' = SubSeq(Outstanding, k + 1, Len(Outstanding))
         /\ UNCHANGED broken
<1>1. /\ ~broken /\ broken' = broken /\ written' = written
  BY DEF OnSocketReadyRead
<1>2. PICK h \in Seq(FrameRecord) : delivered' = delivered \o h
  BY ReadKeeps
<1>3. PICK old : old = Outstanding
  OBVIOUS
<1>4. PICK new : new = Outstanding'
  OBVIOUS
<1>5. PICK m : m = Len(written)
  OBVIOUS
<1>6. PICK d : d = Len(delivered)
  OBVIOUS
<1>7. PICK d2 : d2 = Len(delivered')
  OBVIOUS
<1>8. PICK w : w = written
  OBVIOUS
<1>9. /\ m \in Nat /\ d \in 0..m /\ old \in Seq(CorFrame) /\ Len(old) = m - d
      /\ \A j \in 1..(m - d) : old[j] = w[d + j]
  BY <1>1, <1>3, <1>5, <1>6, <1>8, OutstandingIs, LenProperties DEF ParserInv
<1>10. /\ d2 \in 0..m /\ new \in Seq(CorFrame) /\ Len(new) = m - d2
       /\ \A j \in 1..(m - d2) : new[j] = w[d2 + j]
  <2>1. RestOfWritten'
    BY OutstandingNext
  <2> QED
    BY <1>1, <1>4, <1>5, <1>7, <1>8, <2>1 DEF RestOfWritten
<1>11. d <= d2
  <2>1. Len(delivered \o h) = Len(delivered) + Len(h) /\ Len(h) \in Nat
    <3>1. delivered \in Seq(CorFrame)
      BY DEF ParserInv
    <3> QED
      BY <1>2, <3>1, ConcatProperties, LenProperties
  <2> QED
    BY <1>2, <1>6, <1>7, <1>9, <2>1
<1> DEFINE k == d2 - d
<1>12. k \in Nat /\ m \in Nat /\ d \in Nat /\ d2 = d + k /\ k <= m - d
       /\ (m - d) - k = m - d2 /\ m - d2 \in Nat
  BY <1>9, <1>10, <1>11
<1> HIDE DEF k
<1>13. CASE k = 0
  <2>1. d2 = d
    BY <1>12, <1>13
  <2>2. \A j \in 1..Len(new) : new[j] = old[j]
    BY <1>9, <1>10, <2>1
  <2>3. new = old
    BY <1>9, <1>10, <2>1, <2>2, SeqEqual
  <2> QED
    BY <1>1, <1>3, <1>4, <2>3
<1>14. CASE k # 0
  <2> DEFINE l == m - d2
             sec == SubSeq(old, k + 1, k + l)
  <2>1. k + l <= Len(old) /\ l \in Nat /\ k + l = Len(old) /\ k \in 1..Len(old)
    BY <1>9, <1>12, <1>14
  <2> HIDE DEF l
  <2>2. sec \in Seq(CorFrame) /\ Len(sec) = l /\ \A j \in 1..l : sec[j] = old[k + j]
    BY <1>9, <1>12, <2>1, Section
  <2>3. sec = SubSeq(old, k + 1, Len(old))
    BY <2>1
  <2> HIDE DEF sec
  <2>4. ASSUME NEW j \in 1..l PROVE new[j] = sec[j]
    <3>1. k + j \in 1..(m - d) /\ d + (k + j) = d2 + j /\ j \in 1..(m - d2)
      BY <1>12, <2>1 DEF l
    <3> QED
      BY <1>9, <1>10, <2>2, <3>1
  <2>5. Len(new) = l
    BY <1>10 DEF l
  <2>6. new = sec
    BY <1>10, <2>2, <2>4, <2>5, SeqEqual
  <2> QED
    BY <1>1, <1>3, <1>4, <2>1, <2>3, <2>6
<1> QED
  BY <1>13, <1>14

LEMMA ParserChannelStep ==
  ASSUME ParserInv, ParserInv', [ParserNext]_parserVars
  PROVE  [Channel!Next]_Channel!channelVars
<1> DEFINE Line(x) == [p \in {"sender"} |-> x]
           old == Outstanding
           new == Outstanding'
<1>1. ASSUME NEW f \in CorFrame, NEW flags \in FlagBytes, WriteFrame(f, flags)
      PROVE  Channel!Next
  <2>1. new = Append(old, f) /\ ~broken /\ broken' = broken
    BY <1>1, WritePosts
  <2> HIDE DEF old, new
  <2>2. Line(new) = [Line(old) EXCEPT !["sender"] = Append(@, f)]
    BY <2>1
  <2>3. Channel!Post("sender", f)
    BY <2>1, <2>2 DEF Channel!Post, old, new
  <2> QED
    BY <2>3 DEF Channel!Next
<1>2. ASSUME NEW n \in 1..Len(stream), OnSocketReadyRead(n)
      PROVE  Channel!Next \/ UNCHANGED Channel!channelVars
  <2>1. /\ new = old \/ \E k \in 1..Len(old) : new = SubSeq(old, k + 1, Len(old))
        /\ broken' = broken
    BY <1>2, ReadTakes
  <2>2. CASE new = old
    BY <2>1, <2>2 DEF Channel!channelVars
  <2>3. CASE new # old
    <3>1. PICK k \in 1..Len(old) : new = SubSeq(old, k + 1, Len(old))
      BY <2>1, <2>3
    <3> HIDE DEF old, new
    <3>2. Line(new) = [Line(old) EXCEPT !["sender"] = SubSeq(@, k + 1, Len(@))]
      BY <3>1
    <3>3. k \in 1..Len(Line(old)["sender"])
      OBVIOUS
    <3>4. Channel!Take("sender", k) /\ k \in 1..Len(Line(Outstanding)["sender"])
      BY <2>1, <3>2, <3>3 DEF Channel!Take, old, new
    <3> QED
      BY <3>4 DEF Channel!Next
  <2> QED
    BY <2>2, <2>3
<1>3. CASE Disconnected
  <2>1. ~broken /\ broken' = TRUE
    BY <1>3 DEF Disconnected
  <2>2. new = <<>>
    BY <2>1 DEF Outstanding
  <2>3. old \in Seq(CorFrame) /\ Len(old) \in Nat
    BY OutstandingIs, LenProperties
  <2> HIDE DEF old, new
  <2>4. 0 \in 0..Len(old) /\ new = SubSeq(old, 1, 0)
    BY <2>2, <2>3, SubSeqEmpty
  <2>5. Channel!Cut({"sender"})
    <3>1. \A p \in {"sender"} : \E k \in 0..Len(Line(old)[p]) :
            Line(new)[p] = SubSeq(Line(old)[p], 1, k)
      BY <2>4
    <3>2. Line(new) = [p \in {"sender"} |-> Line(new)[p]]
      OBVIOUS
    <3>3. (IF broken THEN {"sender"} ELSE {}) = {} /\ broken' = TRUE
      BY <2>1
    <3> QED
      BY <3>1, <3>2, <3>3 DEF Channel!Cut, old, new
  <2> QED
    BY <2>5 DEF Channel!Next
<1>4. CASE UNCHANGED parserVars
  BY <1>4 DEF parserVars, readerVars, Outstanding, Channel!channelVars
<1> QED
  BY <1>1, <1>2, <1>3, <1>4 DEF ParserNext

\* However TCP cuts the bytes, the connection hands over the frames that were
\* written, whole, each once and in their order: for any frames and any segments
\* it is the channel CorConnection is built on (qcorconnection.cpp and parser.c).
THEOREM ParserChannelTheorem == ParserSpec => ParserChannelSpec
<1>1. ParserInit => Channel!Init
  <2> SUFFICES ASSUME ParserInit PROVE Channel!Init
    OBVIOUS
  <2>1. written = <<>> /\ delivered = <<>> /\ broken = FALSE
    BY DEF ParserInit
  <2>2. Outstanding = <<>>
    <3>1. ParserInv
      BY StartsOnEmptyWire
    <3>2. Len(Outstanding) = 0 /\ Outstanding \in Seq(CorFrame)
      <4>1. Len(<<>>) = 0
        BY EmptySeq
      <4> QED
        BY <2>1, <3>1, <4>1, OutstandingIs
    <3> QED
      BY <3>2, EmptySeq
  <2> QED
    BY <2>1, <2>2 DEF Channel!Init
<1>2. ParserInv /\ ParserInv' /\ [ParserNext]_parserVars
        => [Channel!Next]_Channel!channelVars
  BY ParserChannelStep
<1> QED
  BY <1>1, <1>2, ParserInvTheorem, PTL DEF ParserSpec, ParserChannelSpec, Channel!Spec
================================================================================
