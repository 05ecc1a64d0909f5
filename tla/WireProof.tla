------------------------------ MODULE WireProof ------------------------------
(***************************************************************************)
(* Three results about Wire, for every codec, format, picture, batch,      *)
(* queue and pool size.  Where each packet buffer is (the pool, the batch, *)
(* a queue of the NIC, the audio thread), and that a pool of Needed        *)
(* buffers never runs out.  That account() counts what was dropped: the    *)
(* packets on their way are in order, and what was sent after the last one *)
(* received is on its way or dropped, so the gap it sees, modulo all       *)
(* sequence numbers, is what is missing.  And that each line of a frame no *)
(* packet of which was dropped is decoded to the picture it was made from. *)
(*                                                                         *)
(* The codecs, Plan and Targets recurse over a lane, a packet or a frame.  *)
(* Each is a LET-recursive function, so it is a CHOOSE of a function with  *)
(* that equation: Unrolled shows there is one, and UpTo, from the least    *)
(* element of a set that does not hold, that it is right at every place.   *)
(***************************************************************************)
EXTENDS Wire, SequenceTheorems, FiniteSetTheorems, WellFoundedInduction, TLAPS
-----------------------------------------------------------------------------
(* Induction and recursion *)

\* A set of natural numbers has a least one.
LEMMA Least ==
  ASSUME NEW T, T \subseteq Nat, T # {}
  PROVE  \E m \in T : \A k \in T : m <= k
<1>1. PICK R : R = OpToRel(<, Nat)
  OBVIOUS
<1>2. IsWellFoundedOn(R, Nat)
  BY <1>1, NatLessThanWellFounded, Zenon
<1>3. PICK m \in T : \A k \in T : ~(<<k, m>> \in R)
  BY <1>2, WFMin, Zenon
<1>4. \A a \in Nat, b \in Nat : a < b => <<a, b>> \in R
  BY <1>1 DEF OpToRel
<1>5. ASSUME NEW k \in T PROVE m <= k
  <2>1. k \in Nat /\ m \in Nat
    OBVIOUS
  <2>2. ~(k < m)
    BY <1>3, <1>4, <2>1
  <2> QED
    BY <2>1, <2>2
<1> QED
  BY <1>5

\* Induction up to n, over a set.
LEMMA UpTo ==
  ASSUME NEW n \in Nat, NEW T, 0 \in T, \A k \in 0 .. n - 1 : k \in T => k + 1 \in T
  PROVE  \A k \in 0 .. n : k \in T
<1> SUFFICES ASSUME NEW j \in 0 .. n, j \notin T PROVE FALSE
  OBVIOUS
<1> DEFINE U == {k \in 0 .. n : k \notin T}
<1>1. U \subseteq Nat /\ U # {}
  OBVIOUS
<1>2. PICK m \in U : \A k \in U : m <= k
  BY <1>1, Least
<1>3. m \in 0 .. n /\ m \notin T /\ m # 0
  BY <1>2
<1>4. m - 1 \in 0 .. n - 1 /\ m - 1 \in 0 .. n /\ ~(m <= m - 1) /\ (m - 1) + 1 = m
  BY <1>3
<1>5. m - 1 \in T
  BY <1>2, <1>4
<1> QED
  BY <1>3, <1>4, <1>5

\* A function that is defined from its value one below exists.
Unrolls(w, S, a, n, step) ==
  w \in [0 .. n -> S] /\ w[0] = a /\ \A k \in 1 .. n : w[k] = step[k][w[k - 1]]

LEMMA Unrolled ==
  ASSUME NEW S, NEW a \in S, NEW n \in Nat, NEW step \in [1 .. n -> [S -> S]]
  PROVE  \E w : Unrolls(w, S, a, n, step)
<1> DEFINE Good(j, w) == w \in [0 .. j -> S] /\ w[0] = a /\ \A k \in 1 .. j : w[k] = step[k][w[k - 1]]
           T == {j \in 0 .. n : \E w : Good(j, w)}
<1>1. 0 \in T
  <2>1. Good(0, [k \in 0 .. 0 |-> a])
    OBVIOUS
  <2> HIDE DEF Good
  <2>2. 0 \in 0 .. n /\ \E w : Good(0, w)
    BY <2>1
  <2> QED
    BY <2>2
<1>2. ASSUME NEW j \in 0 .. n - 1, j \in T PROVE j + 1 \in T
  <2>1. PICK w : Good(j, w)
    BY <1>2
  <2>2. j \in Nat /\ j + 1 \in 1 .. n /\ j + 1 \in 0 .. n
    OBVIOUS
  <2> DEFINE v == [k \in 0 .. j + 1 |-> IF k = j + 1 THEN step[j + 1][w[j]] ELSE w[k]]
  <2>3. w[j] \in S /\ step[j + 1][w[j]] \in S
    BY <2>1, <2>2
  <2>4. v \in [0 .. j + 1 -> S] /\ v[0] = a
    BY <2>1, <2>2, <2>3
  <2>5. ASSUME NEW k \in 1 .. j + 1 PROVE v[k] = step[k][v[k - 1]]
    <3>1. CASE k = j + 1
      BY <2>2, <3>1
    <3>2. CASE k # j + 1
      BY <2>1, <2>2, <3>2
    <3> QED
      BY <3>1, <3>2
  <2> QED
    BY <2>2, <2>4, <2>5
<1> HIDE DEF Good
<1>3. n \in T
  <2> HIDE DEF T
  <2>1. \A k \in 0 .. n - 1 : k \in T => k + 1 \in T
    BY <1>2
  <2>2. \A k \in 0 .. n : k \in T
    BY <1>1, <2>1, UpTo, Zenon
  <2> QED
    BY <2>2
<1> QED
  BY <1>3 DEF Good, Unrolls

-----------------------------------------------------------------------------
(* The codecs *)

\* A sample comes back within half a step, and encoder and decoder go on with
\* the same table.
LEMMA SampleBack ==
  ASSUME NEW t \in Tables, NEW s \in Samples
  PROVE  /\ EncodeSample(t, s) \in Octet
         /\ Context(t, s) \in Samples /\ Distance(Context(t, s), s) <= LossyRounding
<1>1. t \in 0 .. 128 /\ s \in 0 .. 1023
  BY DEF Tables, Samples, Codes
<1>2. PICK code : code = EncodeSample(t, s)
  OBVIOUS
<1>3. PICK back : back = DecodeSample(t, code)
  OBVIOUS
<1>4. code \in Octet /\ back \in Samples /\ Distance(back, s) <= LossyRounding
  <2>1. CASE s < t * 7
    <3>1. code = 128 + s \div 7
      BY <1>2, <2>1 DEF EncodeSample, LossyWidth, Codes
    <3>2. s \div 7 \in 0 .. 127 /\ s \div 7 < t /\ code % 128 = s \div 7 /\ ~(code < 128)
      BY <1>1, <2>1, <3>1
    <3>3. back = (s \div 7) * 7 + 3
      BY <1>3, <3>1, <3>2 DEF DecodeSample, LossyWidth, LossyRounding, Codes
    <3> QED
      BY <1>1, <2>1, <3>1, <3>3 DEF Octet, Samples, Distance, LossyRounding, LossyWidth
  <2>2. CASE ~(s < t * 7) /\ s >= t * 7 + 128
    <3>1. code = 128 + (s - (t * 7 + 128)) \div 7 + t
      BY <1>2, <2>2 DEF EncodeSample, LossyWidth, Codes
    <3>2. PICK i \in Nat : i = (s - (t * 7 + 128)) \div 7 + t
      BY <1>1, <2>2
    <3>3. i \in 0 .. 127 /\ ~(i < t) /\ i * 7 + 128 <= s /\ s <= i * 7 + 128 + 6
      BY <1>1, <2>2, <3>2
    <3>4. code = 128 + i /\ code % 128 = i /\ ~(code < 128)
      BY <1>1, <3>1, <3>2, <3>3
    <3>5. back = i * 7 + 3 + 128
      BY <1>3, <3>3, <3>4 DEF DecodeSample, LossyWidth, LossyRounding, Codes
    <3> QED
      BY <1>1, <3>3, <3>4, <3>5 DEF Octet, Samples, Distance, LossyRounding, LossyWidth
  <2>3. CASE ~(s < t * 7) /\ ~(s >= t * 7 + 128)
    <3>1. code = s - t * 7
      BY <1>2, <2>3 DEF EncodeSample, LossyWidth, Codes
    <3>2. code \in 0 .. 127 /\ code % 128 = code
      BY <1>1, <2>3, <3>1
    <3>3. back = t * 7 + code
      BY <1>3, <3>2 DEF DecodeSample, LossyWidth, Codes
    <3>4. back = s
      BY <1>1, <3>1, <3>3
    <3> QED
      BY <1>1, <3>2, <3>4 DEF Octet, Samples, Distance, LossyRounding, LossyWidth
  <2> QED
    BY <2>1, <2>2, <2>3
<1> QED
  BY <1>2, <1>3, <1>4 DEF Context

LEMMA NextIsTable ==
  ASSUME NEW s \in Int
  PROVE  NextTable(s) \in Tables
BY DEF NextTable, Tables, Codes, LowestThresh, HighestThresh, LossyWidth, LossyRounding

LEMMA DecodedIsInt ==
  ASSUME NEW t \in Tables, NEW code \in Octet
  PROVE  DecodeSample(t, code) \in Int
BY DEF DecodeSample, Tables, Octet, Codes, LossyWidth, LossyRounding

\* Four samples of ten bits are what their five octets say.
LEMMA GroupBack ==
  ASSUME NEW s \in [1 .. 4 -> Samples]
  PROVE  \A c \in 1 .. 4 : UnpackGroup(PackGroup(s))[c] = s[c]
<1>0. PICK s1, s2, s3, s4 : s1 = s[1] /\ s2 = s[2] /\ s3 = s[3] /\ s4 = s[4]
  OBVIOUS
<1>1. s1 \in 0 .. 1023 /\ s2 \in 0 .. 1023 /\ s3 \in 0 .. 1023 /\ s4 \in 0 .. 1023
  BY <1>0 DEF Samples
<1>2. PICK b : b = PackGroup(s)
  OBVIOUS
<1>3. /\ b[1] = s1 \div 4 /\ b[2] = (s1 % 4) * 64 + s2 \div 16
      /\ b[3] = (s2 % 16) * 16 + s3 \div 64 /\ b[4] = (s3 % 64) * 4 + s4 \div 256
      /\ b[5] = s4 % 256
  BY <1>0, <1>2 DEF PackGroup
<1>4. PICK b1, b2, b3, b4, b5 : b1 = b[1] /\ b2 = b[2] /\ b3 = b[3] /\ b4 = b[4] /\ b5 = b[5]
  OBVIOUS
<1>5. /\ b1 * 4 + b2 \div 64 = s1
      /\ (b2 % 64) * 16 + b3 \div 16 = s2
      /\ (b3 % 16) * 64 + b4 \div 4 = s3
      /\ (b4 % 4) * 256 + b5 = s4
  <2>1. b1 * 4 + b2 \div 64 = s1
    BY <1>1, <1>3, <1>4
  <2>2. (b2 % 64) * 16 + b3 \div 16 = s2
    BY <1>1, <1>3, <1>4
  <2>3. (b3 % 16) * 64 + b4 \div 4 = s3
    BY <1>1, <1>3, <1>4
  <2>4. (b4 % 4) * 256 + b5 = s4
    BY <1>1, <1>3, <1>4
  <2> QED
    BY <2>1, <2>2, <2>3, <2>4
<1>6. PICK u : u = UnpackGroup(b)
  OBVIOUS
<1>7. u[1] = s1 /\ u[2] = s2 /\ u[3] = s3 /\ u[4] = s4
  BY <1>4, <1>5, <1>6 DEF UnpackGroup
<1> QED
  BY <1>0, <1>2, <1>6, <1>7

\* The walk of the encoder over a lane: after k samples the table for the next, and k codes.
Encoding(x, w) ==
  /\ w \in [0 .. Len(x) -> [table : Tables, codes : Seq(Octet)]]
  /\ w[0] = [table |-> DefaultTable, codes |-> <<>>]
  /\ \A k \in 1 .. Len(x) :
       w[k] = [table |-> NextTable(Context(w[k - 1].table, x[k])),
               codes |-> Append(w[k - 1].codes, EncodeSample(w[k - 1].table, x[k]))]

LEMMA DefaultIsTable == DefaultTable \in Tables
  BY DEF DefaultTable, Tables, Codes

LEMMA Encodes ==
  ASSUME NEW x \in Seq(Samples)
  PROVE  \E w : Encoding(x, w) /\ EncodeLane(x) = w[Len(x)].codes
<1> DEFINE S == [table : Tables, codes : Seq(Octet)]
           a == [table |-> DefaultTable, codes |-> <<>>]
           after(k, s) == [table |-> NextTable(Context(s.table, x[k])),
                           codes |-> Append(s.codes, EncodeSample(s.table, x[k]))]
<1>1. PICK n \in Nat : n = Len(x) /\ \A k \in 1 .. n : x[k] \in Samples
  BY LenProperties, ElementOfSeq
<1>2. a \in S
  BY DefaultIsTable, EmptySeq
<1>3. ASSUME NEW k \in 1 .. n, NEW s \in S PROVE after(k, s) \in S
  <2>1. s.table \in Tables /\ s.codes \in Seq(Octet) /\ x[k] \in Samples
    BY <1>1
  <2>2. EncodeSample(s.table, x[k]) \in Octet /\ Context(s.table, x[k]) \in Samples
    BY <2>1, SampleBack, Zenon
  <2>3. NextTable(Context(s.table, x[k])) \in Tables
    <3>1. \A z \in Samples : z \in Int
      BY DEF Samples
    <3> QED
      BY <2>2, <3>1, NextIsTable, Zenon
  <2>4. Append(s.codes, EncodeSample(s.table, x[k])) \in Seq(Octet)
    BY <2>1, <2>2, AppendProperties
  <2> QED
    BY <2>3, <2>4
<1> DEFINE step == [k \in 1 .. n |-> [s \in S |-> after(k, s)]]
<1>4. /\ step \in [1 .. n -> [S -> S]]
      /\ \A k \in 1 .. n : \A s \in S : step[k][s] = after(k, s)
  <2> HIDE DEF S, after
  <2> QED
    BY <1>3
<1>5. PICK w : Unrolls(w, S, a, n, step)
  <2> HIDE DEF S, step, a
  <2> QED
    BY <1>2, <1>4, Unrolled, Zenon
<1> HIDE DEF step
<1>6. \A k \in 1 .. n : k - 1 \in 0 .. n /\ w[k - 1] \in S
  <2> HIDE DEF S
  <2> QED
    BY <1>5 DEF Unrolls
<1>7. \A k \in 1 .. n : w[k] = after(k, w[k - 1])
  <2> HIDE DEF S, after
  <2> QED
    BY <1>4, <1>5, <1>6 DEF Unrolls
<1>8. PICK f : /\ f = [k \in 0 .. Len(x) |->
                     IF k = 0 THEN [table |-> DefaultTable, codes |-> <<>>]
                     ELSE LET v == f[k - 1]
                          IN  [table |-> NextTable(Context(v.table, x[k])),
                               codes |-> Append(v.codes, EncodeSample(v.table, x[k]))]]
               /\ EncodeLane(x) = f[Len(x)].codes
  <2>1. w = [k \in 0 .. n |-> IF k = 0 THEN a ELSE after(k, w[k - 1])]
    <3> HIDE DEF S, a, after
    <3> QED
      BY <1>5, <1>7 DEF Unrolls
  <2>2. w = [k \in 0 .. Len(x) |->
               IF k = 0 THEN [table |-> DefaultTable, codes |-> <<>>]
               ELSE LET v == w[k - 1]
                    IN  [table |-> NextTable(Context(v.table, x[k])),
                         codes |-> Append(v.codes, EncodeSample(v.table, x[k]))]]
    BY <1>1, <2>1, Zenon
  <2> QED
    BY <2>2, Zenon DEF EncodeLane
<1>9. f[0] = a /\ \A k \in 1 .. n : f[k] = after(k, f[k - 1])
  <2>1. f = [k \in 0 .. n |-> IF k = 0 THEN a ELSE after(k, f[k - 1])]
    BY <1>1, <1>8, Zenon
  <2> HIDE DEF a, after
  <2> QED
    BY <2>1
<1>10. \A k \in 0 .. n : f[k] \in S
  <2> DEFINE T == {k \in 0 .. n : f[k] \in S}
  <2> HIDE DEF S, a, after
  <2>1. 0 \in T
    BY <1>2, <1>9
  <2>2. ASSUME NEW k \in 0 .. n - 1, k \in T PROVE k + 1 \in T
    <3>1. k + 1 \in 1 .. n /\ k + 1 \in 0 .. n /\ (k + 1) - 1 = k /\ f[k] \in S
      BY <2>2
    <3> QED
      BY <1>3, <1>9, <3>1
  <2> HIDE DEF T
  <2>3. \A k \in 0 .. n : k \in T
    BY <2>1, <2>2, UpTo, Zenon
  <2> QED
    BY <2>3 DEF T
<1>11. f \in [0 .. n -> S]
  BY <1>1, <1>8, <1>10
<1>12. Encoding(x, f)
  BY <1>1, <1>9, <1>11 DEF Encoding
<1> QED
  BY <1>8, <1>12

\* The same of the decoder, over a lane of codes.
Decoding(x, w) ==
  /\ w \in [0 .. Len(x) -> [table : Tables, samples : Seq(Int)]]
  /\ w[0] = [table |-> DefaultTable, samples |-> <<>>]
  /\ \A k \in 1 .. Len(x) :
       w[k] = [table |-> NextTable(DecodeSample(w[k - 1].table, x[k])),
               samples |-> Append(w[k - 1].samples, DecodeSample(w[k - 1].table, x[k]))]

LEMMA Decodes ==
  ASSUME NEW x \in Seq(Octet)
  PROVE  \E w : Decoding(x, w) /\ DecodeLane(x) = w[Len(x)].samples
<1> DEFINE S == [table : Tables, samples : Seq(Int)]
           a == [table |-> DefaultTable, samples |-> <<>>]
           after(k, s) == [table |-> NextTable(DecodeSample(s.table, x[k])),
                           samples |-> Append(s.samples, DecodeSample(s.table, x[k]))]
<1>1. PICK n \in Nat : n = Len(x) /\ \A k \in 1 .. n : x[k] \in Octet
  BY LenProperties, ElementOfSeq
<1>2. a \in S
  BY DefaultIsTable, EmptySeq
<1>3. ASSUME NEW k \in 1 .. n, NEW s \in S PROVE after(k, s) \in S
  <2>1. s.table \in Tables /\ s.samples \in Seq(Int) /\ x[k] \in Octet
    BY <1>1
  <2>2. DecodeSample(s.table, x[k]) \in Int
    BY <2>1, DecodedIsInt, Zenon
  <2>3. NextTable(DecodeSample(s.table, x[k])) \in Tables
    BY <2>2, NextIsTable, Zenon
  <2>4. Append(s.samples, DecodeSample(s.table, x[k])) \in Seq(Int)
    BY <2>1, <2>2, AppendProperties
  <2> QED
    BY <2>3, <2>4
<1> DEFINE step == [k \in 1 .. n |-> [s \in S |-> after(k, s)]]
<1>4. /\ step \in [1 .. n -> [S -> S]]
      /\ \A k \in 1 .. n : \A s \in S : step[k][s] = after(k, s)
  <2> HIDE DEF S, after
  <2> QED
    BY <1>3
<1>5. PICK w : Unrolls(w, S, a, n, step)
  <2> HIDE DEF S, step, a
  <2> QED
    BY <1>2, <1>4, Unrolled, Zenon
<1> HIDE DEF step
<1>6. \A k \in 1 .. n : k - 1 \in 0 .. n /\ w[k - 1] \in S
  <2> HIDE DEF S
  <2> QED
    BY <1>5 DEF Unrolls
<1>7. \A k \in 1 .. n : w[k] = after(k, w[k - 1])
  <2> HIDE DEF S, after
  <2> QED
    BY <1>4, <1>5, <1>6 DEF Unrolls
<1>8. PICK f : /\ f = [k \in 0 .. Len(x) |->
                     IF k = 0 THEN [table |-> DefaultTable, samples |-> <<>>]
                     ELSE LET v == f[k - 1]
                              z == DecodeSample(v.table, x[k])
                          IN  [table |-> NextTable(z), samples |-> Append(v.samples, z)]]
               /\ DecodeLane(x) = f[Len(x)].samples
  <2>1. w = [k \in 0 .. n |-> IF k = 0 THEN a ELSE after(k, w[k - 1])]
    <3> HIDE DEF S, a, after
    <3> QED
      BY <1>5, <1>7 DEF Unrolls
  <2>2. w = [k \in 0 .. Len(x) |->
               IF k = 0 THEN [table |-> DefaultTable, samples |-> <<>>]
               ELSE LET v == w[k - 1]
                        z == DecodeSample(v.table, x[k])
                    IN  [table |-> NextTable(z), samples |-> Append(v.samples, z)]]
    BY <1>1, <2>1, Zenon
  <2> QED
    BY <2>2, Zenon DEF DecodeLane
<1>9. f[0] = a /\ \A k \in 1 .. n : f[k] = after(k, f[k - 1])
  <2>1. f = [k \in 0 .. n |-> IF k = 0 THEN a ELSE after(k, f[k - 1])]
    BY <1>1, <1>8, Zenon
  <2> HIDE DEF a, after
  <2> QED
    BY <2>1
<1>10. \A k \in 0 .. n : f[k] \in S
  <2> DEFINE T == {k \in 0 .. n : f[k] \in S}
  <2> HIDE DEF S, a, after
  <2>1. 0 \in T
    BY <1>2, <1>9
  <2>2. ASSUME NEW k \in 0 .. n - 1, k \in T PROVE k + 1 \in T
    <3>1. k + 1 \in 1 .. n /\ k + 1 \in 0 .. n /\ (k + 1) - 1 = k /\ f[k] \in S
      BY <2>2
    <3> QED
      BY <1>3, <1>9, <3>1
  <2> HIDE DEF T
  <2>3. \A k \in 0 .. n : k \in T
    BY <2>1, <2>2, UpTo, Zenon
  <2> QED
    BY <2>3 DEF T
<1>11. f \in [0 .. n -> S]
  BY <1>1, <1>8, <1>10
<1>12. Decoding(x, f)
  BY <1>1, <1>9, <1>11 DEF Decoding
<1> QED
  BY <1>8, <1>12

\* A lane comes back, each sample within half a step.
LaneRight(x, back) ==
  /\ back \in Seq(Int) /\ Len(back) = Len(x)
  /\ \A k \in 1 .. Len(x) : Distance(back[k], x[k]) <= LossyRounding

LEMMA LaneBack ==
  ASSUME NEW x \in Seq(Samples)
  PROVE  /\ EncodeLane(x) \in Seq(Octet) /\ Len(EncodeLane(x)) = Len(x)
         /\ LaneRight(x, DecodeLane(EncodeLane(x)))
<1>1. PICK n \in Nat : n = Len(x) /\ \A k \in 1 .. n : x[k] \in Samples
  BY LenProperties, ElementOfSeq
<1>2. PICK w : Encoding(x, w) /\ EncodeLane(x) = w[n].codes
  BY <1>1, Encodes
<1>3. /\ \A k \in 0 .. n : w[k].table \in Tables /\ w[k].codes \in Seq(Octet)
      /\ w[0].codes = <<>> /\ w[0].table = DefaultTable
  BY <1>1, <1>2 DEF Encoding
<1>4. ASSUME NEW k \in 1 .. n
      PROVE  /\ w[k].table = NextTable(Context(w[k - 1].table, x[k]))
             /\ w[k].codes = Append(w[k - 1].codes, EncodeSample(w[k - 1].table, x[k]))
             /\ k - 1 \in 0 .. n /\ w[k - 1].table \in Tables /\ x[k] \in Samples
  <2>1. w[k] = [table |-> NextTable(Context(w[k - 1].table, x[k])),
                codes |-> Append(w[k - 1].codes, EncodeSample(w[k - 1].table, x[k]))]
    BY <1>1, <1>2 DEF Encoding
  <2>2. k - 1 \in 0 .. n
    OBVIOUS
  <2> QED
    BY <1>1, <1>3, <2>1, <2>2
<1>5a. PICK code : \A k \in 1 .. n : code[k] = EncodeSample(w[k - 1].table, x[k])
  <2>1. \A k \in 1 .. n : [j \in 1 .. n |-> EncodeSample(w[j - 1].table, x[j])][k]
                            = EncodeSample(w[k - 1].table, x[k])
    OBVIOUS
  <2> QED
    BY <2>1, Zenon
<1>5b. PICK back : \A k \in 1 .. n : back[k] = Context(w[k - 1].table, x[k])
  <2>1. \A k \in 1 .. n : [j \in 1 .. n |-> Context(w[j - 1].table, x[j])][k]
                            = Context(w[k - 1].table, x[k])
    OBVIOUS
  <2> QED
    BY <2>1, Zenon
<1>5. \A k \in 1 .. n : /\ code[k] = EncodeSample(w[k - 1].table, x[k])
                        /\ back[k] = Context(w[k - 1].table, x[k])
  BY <1>5a, <1>5b
<1>6. ASSUME NEW k \in 1 .. n
      PROVE  /\ code[k] \in Octet /\ back[k] \in Int
             /\ back[k] = DecodeSample(w[k - 1].table, code[k])
             /\ Distance(back[k], x[k]) <= LossyRounding
  <2>1. \A z \in Samples : z \in Int
    BY DEF Samples
  <2>2. PICK t, y : t = w[k - 1].table /\ y = x[k] /\ t \in Tables /\ y \in Samples
    BY <1>4
  <2>3. EncodeSample(t, y) \in Octet /\ Context(t, y) \in Int
        /\ Distance(Context(t, y), y) <= LossyRounding
    BY <2>1, <2>2, SampleBack, Zenon
  <2>4. code[k] = EncodeSample(t, y) /\ back[k] = Context(t, y)
    BY <1>5, <2>2
  <2>5. Context(t, y) = DecodeSample(t, EncodeSample(t, y))
    BY DEF Context
  <2> QED
    BY <2>2, <2>3, <2>4, <2>5
<1> DEFINE Encoded(k) == Len(w[k].codes) = k /\ \A j \in 1 .. k : w[k].codes[j] = code[j]
<1>7. Encoded(n)
  <2> DEFINE T == {k \in 0 .. n : Encoded(k)}
  <2>1. 0 \in T
    BY <1>3
  <2>2. ASSUME NEW k \in 0 .. n - 1, k \in T PROVE k + 1 \in T
    <3>1. k + 1 \in 1 .. n /\ (k + 1) - 1 = k /\ k \in 0 .. n /\ k + 1 \in 0 .. n
      OBVIOUS
    <3>2. PICK s, y, e : s = w[k].codes /\ y = w[k + 1].codes /\ e = code[k + 1]
      OBVIOUS
    <3>3. s \in Seq(Octet) /\ e \in Octet /\ Len(s) = k /\ \A j \in 1 .. k : s[j] = code[j]
      BY <1>3, <1>6, <2>2, <3>1, <3>2
    <3>4. y = Append(s, e)
      BY <1>4, <1>5, <3>1, <3>2
    <3>5. /\ Len(y) = k + 1 /\ y[k + 1] = e
          /\ \A j \in 1 .. k : y[j] = s[j]
      BY <3>3, <3>4, AppendProperties
    <3>6. \A j \in 1 .. k + 1 : y[j] = code[j]
      <4>1. ASSUME NEW j \in 1 .. k + 1 PROVE j = k + 1 \/ j \in 1 .. k
        OBVIOUS
      <4> QED
        BY <3>2, <3>3, <3>5, <4>1
    <3> QED
      BY <3>1, <3>2, <3>5, <3>6
  <2> HIDE DEF T
  <2>3. \A k \in 0 .. n : k \in T
    BY <2>1, <2>2, UpTo, Zenon
  <2> QED
    BY <2>3 DEF T
<1>8. PICK codes : codes = EncodeLane(x) /\ codes = w[n].codes
  BY <1>2
<1>9. codes \in Seq(Octet) /\ Len(codes) = n /\ \A k \in 1 .. n : codes[k] = code[k]
  <2>1. n \in 0 .. n
    OBVIOUS
  <2> QED
    BY <1>3, <1>7, <1>8, <2>1
<1> HIDE DEF Encoded
<1>10. PICK v : Decoding(codes, v) /\ DecodeLane(codes) = v[n].samples
  BY <1>9, Decodes
<1>11. /\ \A k \in 0 .. n : v[k].table \in Tables /\ v[k].samples \in Seq(Int)
       /\ v[0].samples = <<>> /\ v[0].table = DefaultTable
  BY <1>9, <1>10 DEF Decoding
<1>12. ASSUME NEW k \in 1 .. n
       PROVE  /\ v[k].table = NextTable(DecodeSample(v[k - 1].table, code[k]))
              /\ v[k].samples = Append(v[k - 1].samples, DecodeSample(v[k - 1].table, code[k]))
  <2>1. v[k] = [table |-> NextTable(DecodeSample(v[k - 1].table, codes[k])),
                samples |-> Append(v[k - 1].samples, DecodeSample(v[k - 1].table, codes[k]))]
    BY <1>9, <1>10 DEF Decoding
  <2>2. codes[k] = code[k]
    BY <1>9
  <2> QED
    BY <2>1, <2>2
<1> DEFINE Decoded(k) == /\ v[k].table = w[k].table /\ Len(v[k].samples) = k
                         /\ \A j \in 1 .. k : v[k].samples[j] = back[j]
<1>13. Decoded(n)
  <2> DEFINE T == {k \in 0 .. n : Decoded(k)}
  <2>1. 0 \in T
    BY <1>3, <1>11
  <2>2. ASSUME NEW k \in 0 .. n - 1, k \in T PROVE k + 1 \in T
    <3>1. k + 1 \in 1 .. n /\ (k + 1) - 1 = k /\ k \in 0 .. n /\ k + 1 \in 0 .. n
      OBVIOUS
    <3>2. PICK s, y, e : s = v[k].samples /\ y = v[k + 1].samples /\ e = back[k + 1]
      OBVIOUS
    <3>3. /\ s \in Seq(Int) /\ e \in Int /\ Len(s) = k /\ v[k].table = w[k].table
          /\ \A j \in 1 .. k : s[j] = back[j]
      BY <1>6, <1>11, <2>2, <3>1, <3>2
    <3>4. e = DecodeSample(v[k].table, code[k + 1])
      BY <1>6, <3>1, <3>2, <3>3
    <3>5. y = Append(s, e) /\ v[k + 1].table = NextTable(e)
      BY <1>12, <3>1, <3>2, <3>4
    <3>6. w[k + 1].table = NextTable(e)
      BY <1>4, <1>5, <3>1, <3>2
    <3>7. /\ Len(y) = k + 1 /\ y[k + 1] = e
          /\ \A j \in 1 .. k : y[j] = s[j]
      BY <3>3, <3>5, AppendProperties
    <3>8. \A j \in 1 .. k + 1 : y[j] = back[j]
      <4>1. ASSUME NEW j \in 1 .. k + 1 PROVE j = k + 1 \/ j \in 1 .. k
        OBVIOUS
      <4> QED
        BY <3>2, <3>3, <3>7, <4>1
    <3> QED
      BY <3>1, <3>2, <3>5, <3>6, <3>7, <3>8
  <2> HIDE DEF T
  <2>3. \A k \in 0 .. n : k \in T
    BY <2>1, <2>2, UpTo, Zenon
  <2> QED
    BY <2>3 DEF T
<1>14. LaneRight(x, v[n].samples)
  <2>1. n \in 0 .. n
    OBVIOUS
  <2> QED
    BY <1>1, <1>6, <1>11, <1>13, <2>1 DEF LaneRight
<1> QED
  BY <1>1, <1>8, <1>9, <1>10, <1>14

\* A line comes back: exactly, or with IP10 within half a step.
LEMMA LineBack ==
  ASSUME NEW ip10 \in BOOLEAN, NEW line \in Seq([1 .. 4 -> Samples])
  PROVE  /\ DOMAIN EncodeLine(ip10, line) = 1 .. Len(line)
         /\ \A k \in 1 .. Len(line) : \A c \in 1 .. 4 :
              Distance(DecodeLine(ip10, EncodeLine(ip10, line))[k][c], line[k][c])
                <= Tolerance(ip10)
<1>1. PICK n \in Nat : n = Len(line) /\ \A k \in 1 .. n : line[k] \in [1 .. 4 -> Samples]
  BY LenProperties, ElementOfSeq
<1>2. CASE ~ip10
  <2>1. PICK e : e = EncodeLine(ip10, line)
    OBVIOUS
  <2>2. e = [k \in 1 .. n |-> PackGroup(line[k])]
    BY <1>1, <1>2, <2>1 DEF EncodeLine
  <2>3. Len(e) = n
    BY <2>2
  <2>4. DecodeLine(ip10, e) = [k \in 1 .. n |-> UnpackGroup(PackGroup(line[k]))]
    BY <1>2, <2>2, <2>3 DEF DecodeLine
  <2>5. ASSUME NEW k \in 1 .. n, NEW c \in 1 .. 4
        PROVE  Distance(DecodeLine(ip10, e)[k][c], line[k][c]) <= Tolerance(ip10)
    <3>1. line[k] \in [1 .. 4 -> Samples]
      BY <1>1
    <3>2. UnpackGroup(PackGroup(line[k]))[c] = line[k][c]
      BY <3>1, GroupBack, Zenon
    <3>3. PICK s : s = line[k][c] /\ s \in Int
      <4>1. line[k][c] \in Samples
        BY <3>1
      <4>2. \A z \in Samples : z \in Int
        BY DEF Samples
      <4> QED
        BY <4>1, <4>2, Zenon
    <3>4. Distance(s, s) <= Tolerance(ip10)
      BY <1>2, <3>3 DEF Distance, Tolerance
    <3> QED
      BY <2>4, <3>2, <3>3, <3>4
  <2> QED
    BY <1>1, <2>1, <2>2, <2>5
<1>3. CASE ip10
  <2>1. PICK x : \A c \in 1 .. 4 : /\ x[c] = [k \in 1 .. n |-> line[k][c]]
                                  /\ x[c] = Lanes(line)[c]
    <3>1. Lanes(line) = [c \in 1 .. 4 |-> [k \in 1 .. n |-> line[k][c]]]
      BY <1>1 DEF Lanes
    <3> QED
      BY <3>1
  <2>2. ASSUME NEW c \in 1 .. 4
        PROVE  /\ x[c] \in Seq(Samples) /\ Len(x[c]) = n
               /\ EncodeLane(x[c]) \in Seq(Octet) /\ Len(EncodeLane(x[c])) = n
               /\ LaneRight(x[c], DecodeLane(EncodeLane(x[c])))
    <3>1. \A k \in 1 .. n : line[k][c] \in Samples
      BY <1>1
    <3>2. PICK y : y = x[c] /\ y = [k \in 1 .. n |-> line[k][c]]
      BY <2>1
    <3>3. y \in [1 .. n -> Samples]
      BY <3>1, <3>2
    <3>4. y \in Seq(Samples) /\ Len(y) = n
      BY <3>3
    <3> QED
      BY <3>2, <3>4, LaneBack
  <2>3. PICK e : e = EncodeLine(ip10, line)
    OBVIOUS
  <2>4. e = [k \in 1 .. n |-> [c \in 1 .. 4 |-> EncodeLane(x[c])[k]]]
    <3>1. e = [k \in 1 .. n |-> [c \in 1 .. 4 |-> [d \in 1 .. 4 |-> EncodeLane(Lanes(line)[d])][c][k]]]
      BY <1>1, <1>3, <2>3 DEF EncodeLine
    <3> QED
      BY <2>1, <3>1
  <2>5. Len(e) = n
    BY <2>4
  <2>6. \A c \in 1 .. 4 : Lanes(e)[c] = EncodeLane(x[c])
    <3>1. TAKE c \in 1 .. 4
    <3>2. Lanes(e)[c] = [k \in 1 .. n |-> e[k][c]]
      BY <2>5 DEF Lanes
    <3>3. Lanes(e)[c] = [k \in 1 .. n |-> EncodeLane(x[c])[k]]
      BY <2>4, <3>2
    <3>4. EncodeLane(x[c]) = [k \in 1 .. n |-> EncodeLane(x[c])[k]]
      <4>1. PICK y : y = EncodeLane(x[c])
        OBVIOUS
      <4>2. y \in Seq(Octet) /\ Len(y) = n
        BY <2>2, <4>1
      <4>3. y = [k \in 1 .. n |-> y[k]]
        BY <4>2
      <4> QED
        BY <4>1, <4>3
    <3> QED
      BY <3>3, <3>4
  <2>7. ASSUME NEW k \in 1 .. n, NEW c \in 1 .. 4
        PROVE  DecodeLine(ip10, e)[k][c] = DecodeLane(EncodeLane(x[c]))[k]
    <3>1. DecodeLine(ip10, e)
            = [j \in 1 .. n |-> [d \in 1 .. 4 |-> [b \in 1 .. 4 |-> DecodeLane(Lanes(e)[b])][d][j]]]
      BY <1>3, <2>5 DEF DecodeLine
    <3>2. DecodeLine(ip10, e)[k][c] = [b \in 1 .. 4 |-> DecodeLane(Lanes(e)[b])][c][k]
      BY <3>1
    <3> QED
      BY <2>6, <3>2
  <2>8. ASSUME NEW k \in 1 .. n, NEW c \in 1 .. 4
        PROVE  Distance(DecodeLine(ip10, e)[k][c], line[k][c]) <= Tolerance(ip10)
    <3>1. x[c][k] = line[k][c]
      BY <2>1
    <3>2. Distance(DecodeLane(EncodeLane(x[c]))[k], x[c][k]) <= LossyRounding
      BY <2>2 DEF LaneRight
    <3> QED
      BY <1>3, <2>7, <3>1, <3>2 DEF Tolerance
  <2> QED
    BY <1>1, <2>3, <2>4, <2>8
<1> QED
  BY <1>2, <1>3
-----------------------------------------------------------------------------
(* How a frame is cut *)

\* A sequence of n, n + 1, ... up to before m.
Run(n, m) == [j \in 1 .. m - n |-> n + j - 1]

LEMMA RunIs ==
  ASSUME NEW n \in Nat, NEW m \in Nat, n <= m
  PROVE  /\ Run(n, m) \in Seq(Nat) /\ Len(Run(n, m)) = m - n
         /\ \A j \in 1 .. m - n : Run(n, m)[j] = n + j - 1
BY DEF Run

LEMMA RunsJoin ==
  ASSUME NEW a \in Nat, NEW b \in Nat, NEW c \in Nat, a <= b, b <= c
  PROVE  Run(a, b) \o Run(b, c) = Run(a, c)
<1>1. PICK s, t, u : s = Run(a, b) /\ t = Run(b, c) /\ u = Run(a, c)
  OBVIOUS
<1>2. /\ s \in Seq(Nat) /\ Len(s) = b - a /\ \A j \in 1 .. b - a : s[j] = a + j - 1
      /\ t \in Seq(Nat) /\ Len(t) = c - b /\ \A j \in 1 .. c - b : t[j] = b + j - 1
  BY <1>1, RunIs
<1>3. u \in Seq(Nat) /\ Len(u) = c - a /\ \A j \in 1 .. c - a : u[j] = a + j - 1
  <2>1. a <= c
    OBVIOUS
  <2> QED
    BY <1>1, <2>1, RunIs
<1>4. PICK v, p, q : v = s \o t /\ p = b - a /\ q = c - b
  OBVIOUS
<1>p. p \in Nat /\ q \in Nat /\ c - a = p + q /\ b = a + p
  BY <1>4
<1>5. /\ v \in Seq(Nat) /\ Len(v) = p + q
      /\ \A i \in 1 .. p + q : v[i] = IF i <= p THEN s[i] ELSE t[i - p]
  <2>1. Len(s) = p /\ Len(t) = q
    BY <1>2, <1>4
  <2>2. /\ s \o t \in Seq(Nat) /\ Len(s \o t) = Len(s) + Len(t)
        /\ \A i \in 1 .. Len(s) + Len(t) :
             (s \o t)[i] = IF i <= Len(s) THEN s[i] ELSE t[i - Len(s)]
    BY <1>2, ConcatProperties
  <2> QED
    BY <1>4, <2>1, <2>2, Zenon
<1>6. \A i \in 1 .. p + q : v[i] = u[i]
  <2>1. TAKE i \in 1 .. p + q
  <2>2. u[i] = a + i - 1
    BY <1>3, <1>p
  <2>3. CASE i <= p
    <3>1. i \in 1 .. p
      BY <1>p, <2>3
    <3> QED
      BY <1>2, <1>4, <1>5, <2>2, <2>3, <3>1
  <2>4. CASE ~(i <= p)
    <3>1. i - p \in 1 .. q
      BY <1>p, <2>4
    <3>2. v[i] = t[i - p]
      BY <1>5, <2>4
    <3>3. t[i - p] = b + (i - p) - 1
      BY <1>2, <1>4, <3>1
    <3>4. b + (i - p) - 1 = a + i - 1
      BY <1>p
    <3> QED
      BY <2>2, <3>2, <3>3, <3>4
  <2> QED
    BY <2>3, <2>4
<1>7. Len(v) = Len(u)
  BY <1>3, <1>5, <1>p
<1> QED
  BY <1>1, <1>3, <1>4, <1>5, <1>6, <1>7, <1>p, SeqEqual

\* The groups of one segment.
OfSegment(f, s) == [j \in 1 .. s.len \div f.pg |-> GroupAt(f, s) + j - 1]

SrdSet == [len : Nat, line : Nat, offset : Nat]

LEMMA OfSegmentIs ==
  ASSUME NEW f, IsFormat(f), NEW s \in SrdSet
  PROVE  OfSegment(f, s) \in Seq(Int)
<1>1. PICK a \in Nat, g \in Int : a = s.len \div f.pg /\ g = GroupAt(f, s)
  <2>1. s.len \div f.pg \in Nat
    <3>1. PICK x \in Nat, p \in {4, 5} : x = s.len /\ p = f.pg
      BY DEF IsFormat, SrdSet
    <3>2. x \div p \in Nat
      BY <3>1
    <3> QED
      BY <3>1, <3>2
  <2>2. GroupAt(f, s) \in Int
    <3>1. PICK l \in Nat, p \in Nat, o \in Nat : l = s.line /\ p = f.pgs /\ o = s.offset
      BY DEF IsFormat, SrdSet
    <3>2. l * p + o \div 2 \in Int
      OBVIOUS
    <3> QED
      BY <3>1, <3>2 DEF GroupAt
  <2> QED
    BY <2>1, <2>2
<1>2. OfSegment(f, s) = [j \in 1 .. a |-> g + j - 1]
  BY <1>1 DEF OfSegment
<1>3. [j \in 1 .. a |-> g + j - 1] \in Seq(Int)
  OBVIOUS
<1> QED
  BY <1>2, <1>3

\* Targets goes through the segments.
Targeting(f, srds, all) ==
  /\ all \in [0 .. Len(srds) -> Seq(Int)] /\ all[0] = <<>>
  /\ \A k \in 1 .. Len(srds) : all[k] = all[k - 1] \o OfSegment(f, srds[k])

LEMMA TargetsIs ==
  ASSUME NEW f, IsFormat(f), NEW srds \in Seq(SrdSet)
  PROVE  \E all : Targeting(f, srds, all) /\ Targets(f, srds) = all[Len(srds)]
<1> DEFINE S == Seq(Int)
           after(k, s) == s \o OfSegment(f, srds[k])
<1>1. PICK n \in Nat : n = Len(srds) /\ \A k \in 1 .. n : srds[k] \in SrdSet
  BY LenProperties, ElementOfSeq
<1>2. <<>> \in S
  BY EmptySeq
<1>3. ASSUME NEW k \in 1 .. n, NEW s \in S PROVE after(k, s) \in S
  <2>1. OfSegment(f, srds[k]) \in Seq(Int)
    BY <1>1, OfSegmentIs
  <2> QED
    BY <2>1, ConcatProperties
<1> DEFINE step == [k \in 1 .. n |-> [s \in S |-> after(k, s)]]
<1>4. /\ step \in [1 .. n -> [S -> S]]
      /\ \A k \in 1 .. n : \A s \in S : step[k][s] = after(k, s)
  <2> HIDE DEF S, after
  <2> QED
    BY <1>3
<1>5. PICK w : Unrolls(w, S, <<>>, n, step)
  <2> HIDE DEF S, step
  <2> QED
    BY <1>2, <1>4, Unrolled, Zenon
<1> HIDE DEF step
<1>6. \A k \in 1 .. n : k - 1 \in 0 .. n /\ w[k - 1] \in S
  <2> HIDE DEF S
  <2> QED
    BY <1>5 DEF Unrolls
<1>7. \A k \in 1 .. n : w[k] = after(k, w[k - 1])
  <2> HIDE DEF S, after
  <2> QED
    BY <1>4, <1>5, <1>6 DEF Unrolls
<1>8. PICK all : /\ all = [k \in 0 .. Len(srds) |->
                        IF k = 0 THEN <<>>
                        ELSE all[k - 1] \o [j \in 1 .. srds[k].len \div f.pg |->
                                              GroupAt(f, srds[k]) + j - 1]]
                /\ Targets(f, srds) = all[Len(srds)]
  <2>1. w = [k \in 0 .. n |-> IF k = 0 THEN <<>> ELSE after(k, w[k - 1])]
    <3> HIDE DEF S, after
    <3> QED
      BY <1>5, <1>7 DEF Unrolls
  <2>2. w = [k \in 0 .. Len(srds) |->
               IF k = 0 THEN <<>>
               ELSE w[k - 1] \o [j \in 1 .. srds[k].len \div f.pg |->
                                  GroupAt(f, srds[k]) + j - 1]]
    BY <1>1, <2>1, Zenon DEF OfSegment
  <2> QED
    BY <2>2, Zenon DEF Targets
<1>9. all[0] = <<>> /\ \A k \in 1 .. n : all[k] = after(k, all[k - 1])
  <2>1. all = [k \in 0 .. n |-> IF k = 0 THEN <<>> ELSE after(k, all[k - 1])]
    BY <1>1, <1>8, Zenon DEF OfSegment
  <2> HIDE DEF after
  <2> QED
    BY <2>1
<1>10. \A k \in 0 .. n : all[k] \in S
  <2> DEFINE T == {k \in 0 .. n : all[k] \in S}
  <2> HIDE DEF S, after
  <2>1. 0 \in T
    BY <1>2, <1>9
  <2>2. ASSUME NEW k \in 0 .. n - 1, k \in T PROVE k + 1 \in T
    <3>1. k + 1 \in 1 .. n /\ k + 1 \in 0 .. n /\ (k + 1) - 1 = k /\ all[k] \in S
      BY <2>2
    <3> QED
      BY <1>3, <1>9, <3>1
  <2> HIDE DEF T
  <2>3. \A k \in 0 .. n : k \in T
    BY <2>1, <2>2, UpTo, Zenon
  <2> QED
    BY <2>3 DEF T
<1>11. all \in [0 .. n -> S]
  BY <1>1, <1>8, <1>10
<1>12. Targeting(f, srds, all)
  BY <1>1, <1>9, <1>11 DEF Targeting
<1> QED
  BY <1>8, <1>12

LEMMA TargetsNone ==
  ASSUME NEW f, IsFormat(f)
  PROVE  Targets(f, <<>>) = <<>>
<1>1. <<>> \in Seq(SrdSet) /\ Len(<<>>) = 0
  BY EmptySeq
<1>2. PICK all : Targeting(f, <<>>, all) /\ Targets(f, <<>>) = all[Len(<<>>)]
  BY <1>1, TargetsIs, Zenon
<1> QED
  BY <1>1, <1>2 DEF Targeting

LEMMA TargetsMore ==
  ASSUME NEW f, IsFormat(f), NEW srds \in Seq(SrdSet), NEW s \in SrdSet
  PROVE  /\ Targets(f, srds) \in Seq(Int)
         /\ Targets(f, Append(srds, s)) = Targets(f, srds) \o OfSegment(f, s)
<1>1. PICK n \in Nat : n = Len(srds)
  BY LenProperties
<1>2. PICK more : more = Append(srds, s)
  OBVIOUS
<1>3. /\ more \in Seq(SrdSet) /\ Len(more) = n + 1 /\ more[n + 1] = s
      /\ \A k \in 1 .. n : more[k] = srds[k]
  BY <1>1, <1>2, AppendProperties
<1>4. PICK a : Targeting(f, srds, a) /\ Targets(f, srds) = a[n]
  BY <1>1, TargetsIs
<1>5. PICK b : Targeting(f, more, b) /\ Targets(f, more) = b[n + 1]
  BY <1>3, TargetsIs
<1>6. a[0] = <<>> /\ \A k \in 1 .. n : a[k] = a[k - 1] \o OfSegment(f, srds[k])
  BY <1>1, <1>4 DEF Targeting
<1>7. b[0] = <<>> /\ \A k \in 1 .. n + 1 : b[k] = b[k - 1] \o OfSegment(f, more[k])
  BY <1>3, <1>5 DEF Targeting
<1>8. a[n] = b[n]
  <2> DEFINE T == {k \in 0 .. n : a[k] = b[k]}
  <2>1. 0 \in T
    BY <1>6, <1>7
  <2>2. ASSUME NEW k \in 0 .. n - 1, k \in T PROVE k + 1 \in T
    <3>1. k + 1 \in 1 .. n /\ k + 1 \in 1 .. n + 1 /\ (k + 1) - 1 = k /\ a[k] = b[k]
      BY <2>2
    <3>2. a[k + 1] = a[k] \o OfSegment(f, srds[k + 1])
      BY <1>6, <3>1
    <3>3. b[k + 1] = b[k] \o OfSegment(f, more[k + 1])
      BY <1>7, <3>1
    <3>4. k + 1 \in 0 .. n /\ more[k + 1] = srds[k + 1]
      BY <1>3, <3>1
    <3> QED
      BY <3>1, <3>2, <3>3, <3>4
  <2> HIDE DEF T
  <2>3. \A k \in 0 .. n : k \in T
    BY <2>1, <2>2, UpTo, Zenon
  <2> QED
    BY <2>3 DEF T
<1>9. b[n + 1] = b[n] \o OfSegment(f, s)
  <2>1. n + 1 \in 1 .. n + 1 /\ (n + 1) - 1 = n
    OBVIOUS
  <2> QED
    BY <1>3, <1>7, <2>1
<1>10. a[n] \in Seq(Int)
  BY <1>1, <1>4 DEF Targeting
<1> QED
  BY <1>2, <1>4, <1>5, <1>8, <1>9, <1>10

\* A cursor on a group of the frame, or behind the frame.
Stands(f, at) ==
  /\ at \in Cursors(f) /\ (at.line = f.height => at.octet = 0)

\* The groups before it.
Pos(f, at) == at.line * f.pgs + at.octet \div f.pg

LEMMA Product ==
  ASSUME NEW a \in Nat, NEW b \in Nat
  PROVE  a * b \in Nat
OBVIOUS

LEMMA ProductLess ==
  ASSUME NEW a \in Nat, NEW b \in Nat, NEW p \in Nat, a <= b
  PROVE  a * p <= b * p
OBVIOUS

\* What a cursor is, without division.
CursorIs(f, at, q) ==
  /\ at.line \in 0 .. f.height /\ q \in 0 .. f.pgs - 1 /\ at.octet = q * f.pg
  /\ at.octet \div f.pg = q /\ Pos(f, at) = at.line * f.pgs + q /\ Pos(f, at) \in Nat
  /\ at = [line |-> at.line, octet |-> at.octet]

LEMMA CursorSplits ==
  ASSUME NEW f, IsFormat(f), NEW at, at \in Cursors(f)
  PROVE  \E q : CursorIs(f, at, q)
<1>1. PICK p \in {4, 5}, g \in Nat, l \in Nat, o \in Nat :
        /\ p = f.pg /\ g = f.pgs /\ l = at.line /\ o = at.octet
        /\ o < g * p /\ o % p = 0
  <2>1. f.pg \in {4, 5} /\ f.pgs \in Nat \ {0} /\ f.height \in Nat
    BY DEF IsFormat
  <2>2. /\ at.line \in 0 .. f.height /\ at.octet \in 0 .. Octets(f) - 1 /\ at.octet % f.pg = 0
    BY DEF Cursors
  <2>3. PICK x \in Nat : x = f.pgs * f.pg
    BY <2>1
  <2>4. at.octet \in 0 .. x - 1
    BY <2>2, <2>3 DEF Octets
  <2> QED
    BY <2>1, <2>2, <2>3, <2>4
<1>2. PICK q \in Nat : q = o \div p
  OBVIOUS
<1>3. o = q * p /\ q < g
  BY <1>1, <1>2
<1>4. at.line \in 0 .. f.height /\ at = [line |-> at.line, octet |-> at.octet]
  BY DEF Cursors
<1>5. l * g \in Nat
  BY Product
<1>6. Pos(f, at) = l * g + q
  BY <1>1, <1>2 DEF Pos
<1>7. l * g + q \in Nat
  BY <1>5
<1> QED
  BY <1>1, <1>2, <1>3, <1>4, <1>6, <1>7 DEF CursorIs

\* The groups of a segment, and the cursor behind it.
SegmentIs(f, at, budget, seg, r) ==
  LET s == [len |-> seg, line |-> at.line, offset |-> 2 * (at.octet \div f.pg)]
  IN  /\ seg \in Nat /\ r \in Nat \ {0} /\ seg = r * f.pg /\ seg \div f.pg = r /\ seg % f.pg = 0
      /\ seg <= budget - 6
      /\ s \in SrdSet /\ GroupAt(f, s) = Pos(f, at)
      /\ Stands(f, Advanced(f, at, seg))
      /\ Pos(f, Advanced(f, at, seg)) = Pos(f, at) + r
      /\ at.line * f.pgs <= Pos(f, at) /\ Pos(f, at) + r <= (at.line + 1) * f.pgs

LEMMA SegmentCuts ==
  ASSUME NEW f, IsFormat(f), NEW at, Stands(f, at), NEW budget \in Int,
         Segment(f, at, budget) # 0
  PROVE  at.line < f.height /\ \E r : SegmentIs(f, at, budget, Segment(f, at, budget), r)
<1>1. PICK q : CursorIs(f, at, q)
  BY CursorSplits DEF Stands
<1>2. PICK p, g, h : /\ p = f.pg /\ g = f.pgs /\ h = f.height
                     /\ p \in {4, 5} /\ g \in Nat \ {0} /\ h \in Nat \ {0}
  BY DEF IsFormat
<1>3. PICK l, o : l = at.line /\ o = at.octet /\ l \in 0 .. h /\ o = q * p /\ q \in 0 .. g - 1
  BY <1>1, <1>2 DEF CursorIs
<1>4. PICK room, seg : /\ room = (IF (g - q) * p < budget - 6 THEN (g - q) * p ELSE budget - 6)
                       /\ seg = Segment(f, at, budget)
  OBVIOUS
<1>5. Octets(f) - o = (g - q) * p /\ o + (g - q) * p = Octets(f) /\ Octets(f) = g * p
  BY <1>2, <1>3 DEF Octets
<1>6. ~(l >= h \/ room < p) /\ seg = (room \div p) * p
  BY <1>2, <1>3, <1>4, <1>5 DEF Segment
<1>7. room \in Int /\ room <= budget - 6 /\ room <= (g - q) * p
  BY <1>2, <1>3, <1>4
<1>8. PICK r : r = room \div p
  OBVIOUS
<1>9. /\ r \in Nat \ {0} /\ seg = r * p /\ seg <= room /\ r <= g - q
      /\ seg \div p = r /\ seg % p = 0 /\ seg \in Nat
  BY <1>2, <1>3, <1>6, <1>7, <1>8
<1>10. l < h /\ l \in Nat
  BY <1>2, <1>3, <1>6
<1>11. PICK s : s = [len |-> seg, line |-> l, offset |-> 2 * (o \div p)]
  OBVIOUS
<1>12. o \div p = q /\ (2 * q) \div 2 = q
  BY <1>1, <1>2, <1>3 DEF CursorIs
<1>13. s \in SrdSet
  <2>1. 2 * (o \div p) \in Nat
    BY <1>3, <1>12
  <2> QED
    BY <1>9, <1>10, <1>11, <2>1 DEF SrdSet
<1>14. Pos(f, at) = l * g + q
  BY <1>1, <1>2, <1>3 DEF CursorIs
<1>15. GroupAt(f, s) = l * g + q
  <2>1. s.line = l /\ s.offset = 2 * q
    BY <1>11, <1>12
  <2> QED
    BY <1>2, <1>12, <2>1 DEF GroupAt
<1>16. PICK next : next = Advanced(f, at, seg)
  OBVIOUS
<1>17. Stands(f, next) /\ Pos(f, next) = (l * g + q) + r
  <2>1. CASE r = g - q
    <3>1. o + seg >= Octets(f)
      BY <1>2, <1>3, <1>5, <1>9, <2>1
    <3>2. next = [line |-> l + 1, octet |-> 0]
      BY <1>3, <1>16, <3>1 DEF Advanced
    <3>3. g * p \in Nat \ {0}
      BY <1>2
    <3>4. next \in Cursors(f)
      <4>1. l + 1 \in 0 .. h /\ 0 \in 0 .. Octets(f) - 1 /\ 0 % p = 0
        BY <1>2, <1>5, <1>10, <3>3
      <4> QED
        BY <1>2, <3>2, <4>1 DEF Cursors
    <3>5. Stands(f, next)
      BY <3>2, <3>4 DEF Stands
    <3>6. Pos(f, next) = (l + 1) * g
      <4>1. 0 \div p = 0 /\ (l + 1) * g + 0 = (l + 1) * g
        BY <1>2, <1>10
      <4> QED
        BY <1>2, <3>2, <4>1 DEF Pos
    <3>7. (l + 1) * g = (l * g + q) + r
      <4>1. PICK x : x = l * g /\ x \in Int
        BY <1>2, <1>10, Product
      <4>2. (l + 1) * g = l * g + g
        <5>1. \A a \in Nat, b \in Nat : (a + 1) * b = a * b + b
          OBVIOUS
        <5>2. l \in Nat /\ g \in Nat
          BY <1>2, <1>10
        <5> QED
          BY <5>1, <5>2
      <4>3. x + g = (x + q) + r
        BY <1>2, <1>3, <1>9, <2>1, <4>1
      <4> QED
        BY <4>1, <4>2, <4>3
    <3> QED
      BY <3>5, <3>6, <3>7
  <2>2. CASE r # g - q
    <3>1. q + r \in 0 .. g - 1 /\ o + seg = (q + r) * p
      <4>1. q + r \in 0 .. g - 1
        <5>1. g \in Nat /\ q \in Nat
          BY <1>2, <1>3
        <5>2. r \in Nat /\ r <= g - q
          BY <1>9
        <5> QED
          BY <2>2, <5>1, <5>2
      <4>2. q \in Nat /\ r \in Nat
        BY <1>2, <1>3, <1>9
      <4>3. q * p + r * p = (q + r) * p
        BY <1>2, <4>2
      <4> QED
        BY <1>3, <1>9, <4>1, <4>3
    <3>2. (q + r) * p < g * p /\ (q + r) * p \in Nat
      BY <1>2, <3>1
    <3>3. ~(o + seg >= Octets(f))
      BY <1>2, <1>5, <3>1, <3>2
    <3>4. next = [line |-> l, octet |-> (q + r) * p]
      BY <1>1, <1>3, <1>16, <3>1, <3>3 DEF Advanced, CursorIs
    <3>5. ((q + r) * p) % p = 0 /\ ((q + r) * p) \div p = q + r
      BY <1>2, <3>1
    <3>6. next \in Cursors(f)
      <4>1. l \in 0 .. f.height /\ (q + r) * p \in 0 .. Octets(f) - 1 /\ ((q + r) * p) % f.pg = 0
        BY <1>2, <1>3, <1>5, <3>2, <3>5
      <4> QED
        BY <3>4, <4>1 DEF Cursors
    <3>7. Stands(f, next)
      BY <1>2, <1>10, <3>4, <3>6 DEF Stands
    <3>8. Pos(f, next) = l * g + (q + r)
      BY <1>2, <3>4, <3>5 DEF Pos
    <3>9. l * g \in Nat
      BY <1>2, <1>10, Product
    <3> QED
      BY <1>3, <1>9, <3>7, <3>8, <3>9
  <2> QED
    BY <2>1, <2>2
<1>18. l * g <= l * g + q /\ (l * g + q) + r <= (l + 1) * g
  BY <1>2, <1>3, <1>9, <1>10
<1>19. SegmentIs(f, at, budget, seg, r)
  <2>1. seg <= budget - 6
    BY <1>7, <1>9
  <2>2. s = [len |-> seg, line |-> at.line, offset |-> 2 * (at.octet \div f.pg)]
    BY <1>2, <1>3, <1>11
  <2> QED
    BY <1>2, <1>3, <1>9, <1>13, <1>14, <1>15, <1>16, <1>17, <1>18, <2>1, <2>2 DEF SegmentIs
<1> QED
  BY <1>2, <1>3, <1>4, <1>10, <1>19

\* A packet with room for a group takes one.
LEMMA SegmentFits ==
  ASSUME NEW f, IsFormat(f), NEW at, Stands(f, at), at.line < f.height,
         NEW budget \in Int, budget - 6 >= f.pg
  PROVE  Segment(f, at, budget) # 0
<1>1. PICK q : CursorIs(f, at, q)
  BY CursorSplits DEF Stands
<1>2. PICK p, g, h : /\ p = f.pg /\ g = f.pgs /\ h = f.height
                     /\ p \in {4, 5} /\ g \in Nat \ {0} /\ h \in Nat \ {0}
  BY DEF IsFormat
<1>3. PICK l, o : l = at.line /\ o = at.octet /\ l \in 0 .. h /\ o = q * p /\ q \in 0 .. g - 1
  BY <1>1, <1>2 DEF CursorIs
<1>4. PICK room : room = IF (g - q) * p < budget - 6 THEN (g - q) * p ELSE budget - 6
  OBVIOUS
<1>5. Octets(f) - o = (g - q) * p
  BY <1>2, <1>3 DEF Octets
<1>6. room \in Int /\ room >= p
  BY <1>2, <1>3, <1>4
<1>7. (room \div p) * p # 0
  BY <1>2, <1>6
<1>8. ~(l >= h \/ room < p)
  BY <1>2, <1>3, <1>6
<1> QED
  BY <1>2, <1>3, <1>4, <1>5, <1>7, <1>8 DEF Segment

\* Segments parse() lets through.
Whole(f, srds) ==
  \A i \in 1 .. Len(srds) :
    /\ srds[i].len % f.pg = 0 /\ srds[i].line < f.height
    /\ GroupAt(f, srds[i]) + srds[i].len \div f.pg <= f.pgs * f.height

\* Segments that name the line of every group of a run.
Names(f, srds, from, to) ==
  \A x \in from .. to - 1 : \E i \in 1 .. Len(srds) :
    srds[i].line * f.pgs <= x /\ x < (srds[i].line + 1) * f.pgs

\* A packet in the making: it carries the groups between two cursors, in order.
Carries(f, srds, from, to) ==
  /\ from \in Nat /\ to \in Nat /\ from <= to /\ srds \in Seq(SrdSet)
  /\ Targets(f, srds) = Run(from, to) /\ Len(srds) <= to - from
  /\ Whole(f, srds) /\ Names(f, srds, from, to)

Spent(f, budget, srds, n) ==
  budget \in Nat /\ ((budget + 14) + 6 * Len(srds)) + f.pg * n = f.payload

Makings(f) == [at : Cursors(f), budget : Int, srds : Seq(SrdSet)]

Making(f, at, g) ==
  /\ g \in Makings(f) /\ Stands(f, g.at)
  /\ Carries(f, g.srds, Pos(f, at), Pos(f, g.at))
  /\ Spent(f, g.budget, g.srds, Pos(f, g.at) - Pos(f, at))

\* One more segment.
WithSegment(f, g, seg) ==
  [at |-> Advanced(f, g.at, seg), budget |-> g.budget - 6 - seg,
   srds |-> Append(g.srds, [len |-> seg, line |-> g.at.line,
                            offset |-> 2 * (g.at.octet \div f.pg)])]

LEMMA CarriesMore ==
  ASSUME NEW f, IsFormat(f), NEW srds, NEW a, NEW b, Carries(f, srds, a, b),
         NEW s \in SrdSet, NEW r \in Nat \ {0}, s.len \div f.pg = r, s.len % f.pg = 0,
         GroupAt(f, s) = b, s.line < f.height,
         s.line * f.pgs <= b, b + r <= (s.line + 1) * f.pgs
  PROVE  Carries(f, Append(srds, s), a, b + r)
<1>1. /\ a \in Nat /\ b \in Nat /\ a <= b /\ srds \in Seq(SrdSet)
      /\ Targets(f, srds) = Run(a, b) /\ Len(srds) <= b - a
  BY DEF Carries
<1>2a. PICK n \in Nat : n = Len(srds)
  BY <1>1, LenProperties
<1>2. PICK more : n = Len(srds) /\ more = Append(srds, s)
  BY <1>2a
<1>3. /\ more \in Seq(SrdSet) /\ Len(more) = n + 1 /\ more[n + 1] = s
      /\ \A k \in 1 .. n : more[k] = srds[k]
  BY <1>1, <1>2, AppendProperties
<1>4. PICK c \in Nat : c = b + r /\ b <= c /\ c - b = r
  BY <1>1
<1>5. OfSegment(f, s) = Run(b, c)
  BY <1>4 DEF OfSegment, Run
<1>6. Targets(f, more) = Run(a, c)
  <2>1. Targets(f, more) = Run(a, b) \o Run(b, c)
    BY <1>1, <1>2, <1>5, TargetsMore
  <2>2. Run(a, b) \o Run(b, c) = Run(a, c)
    <3>1. a \in Nat /\ b \in Nat /\ c \in Nat /\ a <= b /\ b <= c
      BY <1>1, <1>4
    <3> QED
      BY <3>1, RunsJoin, Zenon
  <2> QED
    BY <2>1, <2>2, Zenon
<1>7. PICK l \in Nat, g \in Nat, h \in Nat : l = s.line /\ g = f.pgs /\ h = f.height
  BY DEF IsFormat, SrdSet
<1>8. c <= g * h
  <2>1. l + 1 \in Nat /\ l + 1 <= h
    BY <1>7
  <2>2. PICK m \in Nat : m = l + 1 /\ m <= h
    BY <2>1
  <2>2a. m * g <= h * g
    BY <2>2, ProductLess
  <2>2b. h * g = g * h
    OBVIOUS
  <2>3. PICK x \in Nat, y \in Nat : x = m * g /\ y = h * g
    BY Product
  <2>4. c <= x /\ x <= y
    BY <1>4, <1>7, <2>2, <2>2a, <2>3
  <2> QED
    BY <2>2b, <2>3, <2>4
<1>9. Whole(f, more)
  <2>1. ASSUME NEW i \in 1 .. n + 1
        PROVE  /\ more[i].len % f.pg = 0 /\ more[i].line < f.height
               /\ GroupAt(f, more[i]) + more[i].len \div f.pg <= f.pgs * f.height
    <3>1. CASE i = n + 1
      BY <1>3, <1>4, <1>7, <1>8, <3>1
    <3>2. CASE i # n + 1
      <4>1. i \in 1 .. n /\ more[i] = srds[i]
        BY <1>3, <3>2
      <4> QED
        BY <1>2, <4>1 DEF Carries, Whole
    <3> QED
      BY <3>1, <3>2
  <2> QED
    BY <1>3, <2>1 DEF Whole
<1>10. Names(f, more, a, c)
  <2>1. ASSUME NEW x \in a .. c - 1
        PROVE  \E i \in 1 .. n + 1 : /\ more[i].line * f.pgs <= x
                                     /\ x < (more[i].line + 1) * f.pgs
    <3>1. CASE x < b
      <4>1. x \in a .. b - 1
        BY <1>1, <3>1
      <4>2. PICK i \in 1 .. n : srds[i].line * f.pgs <= x /\ x < (srds[i].line + 1) * f.pgs
        BY <1>2, <4>1 DEF Carries, Names
      <4>3. i \in 1 .. n + 1 /\ more[i] = srds[i]
        BY <1>3
      <4> QED
        BY <4>2, <4>3
    <3>2. CASE ~(x < b)
      <4>1. l * g <= x /\ x < (l + 1) * g
        <5>1. PICK u \in Nat, v \in Nat : u = l * g /\ v = (l + 1) * g
          BY <1>7, Product
        <5>2. u <= b /\ c <= v
          BY <1>4, <1>7, <5>1
        <5>3. u <= x /\ x < v
          BY <1>1, <1>4, <3>2, <5>2
        <5> QED
          BY <5>1, <5>3
      <4>2. n + 1 \in 1 .. n + 1 /\ more[n + 1].line = l
        BY <1>3, <1>7
      <4> QED
        BY <1>7, <4>1, <4>2
    <3> QED
      BY <3>1, <3>2
  <2> QED
    BY <1>3, <2>1 DEF Names
<1>11. Len(more) <= c - a /\ a <= c
  BY <1>1, <1>2, <1>3, <1>4
<1> QED
  BY <1>1, <1>2, <1>3, <1>4, <1>6, <1>9, <1>10, <1>11 DEF Carries

LEMMA MakingMore ==
  ASSUME NEW f, IsFormat(f), NEW at, NEW g, Making(f, at, g),
         Segment(f, g.at, g.budget) # 0
  PROVE  Making(f, at, WithSegment(f, g, Segment(f, g.at, g.budget)))
<1>1. g.budget \in Int /\ Stands(f, g.at)
  BY DEF Making, Makings
<1>2. PICK seg, c, b, srds : /\ seg = Segment(f, g.at, g.budget) /\ c = g.at /\ b = g.budget
                             /\ srds = g.srds
  OBVIOUS
<1>3. PICK r : SegmentIs(f, c, b, seg, r)
  BY <1>1, <1>2, SegmentCuts
<1>3a. c.line < f.height
  BY <1>1, <1>2, SegmentCuts
<1>4. PICK s : s = [len |-> seg, line |-> c.line, offset |-> 2 * (c.octet \div f.pg)]
  OBVIOUS
<1>5. PICK to, p, q : to = Advanced(f, c, seg) /\ p = Pos(f, at) /\ q = Pos(f, c)
  OBVIOUS
<1>6. /\ seg \in Nat /\ r \in Nat \ {0} /\ seg = r * f.pg /\ seg \div f.pg = r /\ seg % f.pg = 0
      /\ seg <= b - 6 /\ s \in SrdSet /\ GroupAt(f, s) = q
      /\ Stands(f, to) /\ Pos(f, to) = q + r
      /\ c.line * f.pgs <= q /\ q + r <= (c.line + 1) * f.pgs
  BY <1>3, <1>4, <1>5 DEF SegmentIs
<1>7. s.len = seg /\ s.line = c.line
  BY <1>4
<1>8. Carries(f, srds, p, q) /\ Spent(f, b, srds, q - p)
  BY <1>2, <1>5 DEF Making
<1>9. Carries(f, Append(srds, s), p, q + r)
  BY <1>3a, <1>6, <1>7, <1>8, CarriesMore
<1>10. PICK more : more = Append(srds, s)
  OBVIOUS
<1>11. p \in Nat /\ q \in Nat /\ srds \in Seq(SrdSet) /\ more \in Seq(SrdSet)
  BY <1>8, <1>9, <1>10 DEF Carries
<1>12. Len(srds) \in Nat /\ Len(more) = Len(srds) + 1
  BY <1>6, <1>10, <1>11, LenProperties, AppendProperties
<1>13. Spent(f, b - 6 - seg, more, (q + r) - p)
  <2>1a. PICK n \in Nat, pg \in {4, 5} : n = Len(srds) /\ pg = f.pg
    BY <1>12 DEF IsFormat
  <2>1. PICK pay : n = Len(srds) /\ pg = f.pg /\ pay = f.payload
    BY <2>1a
  <2>2. b \in Nat /\ ((b + 14) + 6 * n) + pg * (q - p) = pay
    BY <1>8, <2>1 DEF Spent
  <2>3. seg = r * pg /\ b - 6 - seg \in Nat
    BY <1>6, <2>1, <2>2
  <2>4. pg * ((q + r) - p) = pg * (q - p) + r * pg
    <3>1. p \in Nat /\ q \in Nat /\ r \in Nat
      BY <1>6, <1>11
    <3>2. CASE pg = 4
      BY <3>1, <3>2
    <3>3. CASE pg = 5
      BY <3>1, <3>3
    <3> QED
      BY <2>1, <3>2, <3>3
  <2>5. (((b - 6 - seg) + 14) + 6 * (n + 1)) + pg * ((q + r) - p) = pay
    <3>1. PICK x, y : x = pg * (q - p) /\ y = r * pg
      OBVIOUS
    <3>2. x \in Int /\ y \in Int /\ seg = y
      <4>1. p \in Nat /\ q \in Nat /\ r \in Nat
        BY <1>6, <1>11
      <4>2. pg * (q - p) \in Int
        BY <4>1
      <4>3. r * pg \in Int
        BY <4>1
      <4> QED
        BY <2>3, <3>1, <4>2, <4>3
    <3>3. ((b + 14) + 6 * n) + x = pay
      BY <2>2, <3>1
    <3>4. (((b - 6 - y) + 14) + 6 * (n + 1)) + (x + y) = pay
      BY <2>1, <2>2, <3>2, <3>3
    <3> QED
      BY <2>4, <3>1, <3>2, <3>4
  <2> QED
    BY <1>12, <2>1, <2>3, <2>5 DEF Spent
<1>14. PICK new : new = [at |-> to, budget |-> b - 6 - seg, srds |-> more]
  OBVIOUS
<1>15. new \in Makings(f)
  <2>1. to \in Cursors(f) /\ b - 6 - seg \in Int
    BY <1>1, <1>2, <1>6 DEF Stands
  <2> QED
    BY <1>11, <1>14, <2>1 DEF Makings
<1>16. new.at = to /\ new.budget = b - 6 - seg /\ new.srds = more
  BY <1>14
<1>17. Making(f, at, new)
  BY <1>5, <1>6, <1>9, <1>10, <1>13, <1>15, <1>16 DEF Making
<1>18. WithSegment(f, g, seg) = new
  BY <1>2, <1>4, <1>5, <1>10, <1>14 DEF WithSegment
<1> QED
  BY <1>2, <1>17, <1>18

\* What Plan does with its k-th chance of a segment.
After(f, k, g) ==
  IF Segment(f, g.at, g.budget) = 0 \/ (f.aligned /\ k > 1) THEN g
  ELSE WithSegment(f, g, Segment(f, g.at, g.budget))

Empty(f, at) == [at |-> at, budget |-> f.payload - 14, srds |-> <<>>]

LEMMA MakingStarts ==
  ASSUME NEW f, IsFormat(f), NEW at, Stands(f, at)
  PROVE  Making(f, at, Empty(f, at))
<1>1. PICK q : CursorIs(f, at, q)
  BY CursorSplits DEF Stands
<1>2. PICK n \in Nat : n = Pos(f, at)
  BY <1>1 DEF CursorIs
<1>3. PICK b, pay : b = f.payload - 14 /\ pay = f.payload /\ pay \in Nat /\ b \in Nat /\ b + 14 = pay
  <2>1. PICK pay \in Nat, pg \in {4, 5} : pay = f.payload /\ pay >= 20 + pg
    BY DEF IsFormat
  <2>2. pay - 14 \in Nat /\ (pay - 14) + 14 = pay
    BY <2>1
  <2> QED
    BY <2>1, <2>2
<1>4. PICK g : g = [at |-> at, budget |-> b, srds |-> <<>>]
  OBVIOUS
<1>5. g = Empty(f, at) /\ g.at = at /\ g.budget = b /\ g.srds = <<>>
  BY <1>3, <1>4 DEF Empty
<1>6. <<>> \in Seq(SrdSet) /\ Len(<<>>) = 0
  BY EmptySeq
<1>7. g \in Makings(f)
  BY <1>3, <1>4, <1>6 DEF Makings, Stands
<1>8. Targets(f, <<>>) = Run(n, n)
  <2>1. Run(n, n) = <<>>
    BY DEF Run
  <2> QED
    BY <2>1, TargetsNone
<1>9. Carries(f, <<>>, n, n)
  BY <1>6, <1>8 DEF Carries, Whole, Names
<1>10. Spent(f, b, <<>>, n - n)
  <2>1. PICK pg \in {4, 5} : pg = f.pg
    BY DEF IsFormat
  <2>2. ((b + 14) + 6 * 0) + pg * (n - n) = pay
    BY <1>3
  <2> QED
    BY <1>3, <1>6, <2>1, <2>2 DEF Spent
<1> QED
  BY <1>2, <1>5, <1>7, <1>9, <1>10 DEF Making

LEMMA MakingAfter ==
  ASSUME NEW f, IsFormat(f), NEW at, NEW g, Making(f, at, g), NEW k
  PROVE  Making(f, at, After(f, k, g))
<1>1. CASE Segment(f, g.at, g.budget) = 0 \/ (f.aligned /\ k > 1)
  BY <1>1 DEF After
<1>2. CASE ~(Segment(f, g.at, g.budget) = 0 \/ (f.aligned /\ k > 1))
  BY <1>2, MakingMore DEF After
<1> QED
  BY <1>1, <1>2

\* One segment at most, each time.
LEMMA LonglyAfter ==
  ASSUME NEW f, IsFormat(f), NEW at, NEW g, Making(f, at, g), NEW k
  PROVE  /\ Len(g.srds) \in Nat /\ Len(After(f, k, g).srds) \in Nat
         /\ Len(After(f, k, g).srds) \in {Len(g.srds), Len(g.srds) + 1}
<1>1. g.srds \in Seq(SrdSet) /\ Len(g.srds) \in Nat
  BY LenProperties DEF Making, Makings
<1>2. CASE Segment(f, g.at, g.budget) = 0 \/ (f.aligned /\ k > 1)
  BY <1>1, <1>2 DEF After
<1>3. CASE ~(Segment(f, g.at, g.budget) = 0 \/ (f.aligned /\ k > 1))
  <2>0. PICK h : h = After(f, k, g)
    OBVIOUS
  <2>a. PICK s : s = [len |-> Segment(f, g.at, g.budget), line |-> g.at.line,
                      offset |-> 2 * (g.at.octet \div f.pg)]
    OBVIOUS
  <2>b. h = WithSegment(f, g, Segment(f, g.at, g.budget))
    BY <1>3, <2>0 DEF After
  <2>1. h = After(f, k, g) /\ h.srds = Append(g.srds, s)
    BY <2>0, <2>a, <2>b DEF WithSegment
  <2>2. s \in SrdSet
    <3>1. PICK r : SegmentIs(f, g.at, g.budget, Segment(f, g.at, g.budget), r)
      <4>1. g.budget \in Int /\ Stands(f, g.at)
        BY DEF Making, Makings
      <4> QED
        BY <1>3, <4>1, SegmentCuts
    <3> QED
      BY <2>a, <3>1 DEF SegmentIs
  <2>3. Len(h.srds) = Len(g.srds) + 1
    BY <1>1, <2>1, <2>2, AppendProperties
  <2> QED
    BY <1>1, <2>1, <2>3
<1> QED
  BY <1>2, <1>3

\* A packet with its first segment.
LEMMA FirstSegment ==
  ASSUME NEW f, IsFormat(f), NEW at, Stands(f, at), at.line < f.height
  PROVE  Len(After(f, 1, Empty(f, at)).srds) = 1
<1>1. PICK b : b = f.payload - 14 /\ b \in Int /\ b - 6 >= f.pg
  <2>1. PICK pay \in Nat, pg \in {4, 5} : pay = f.payload /\ pay >= 20 + pg /\ pg = f.pg
    BY DEF IsFormat
  <2>2. pay - 14 \in Int /\ (pay - 14) - 6 >= pg
    BY <2>1
  <2> QED
    BY <2>1, <2>2
<1>1a. PICK g : g = Empty(f, at)
  OBVIOUS
<1>2. g = Empty(f, at) /\ g.at = at /\ g.budget = b /\ g.srds = <<>>
  BY <1>1, <1>1a DEF Empty
<1>3. Segment(f, g.at, g.budget) # 0
  BY <1>1, <1>2, SegmentFits
<1>4. After(f, 1, g) = WithSegment(f, g, Segment(f, g.at, g.budget))
  BY <1>3 DEF After
<1> QED
  BY <1>2, <1>4 DEF WithSegment

\* Plan takes MaxSrd chances.
Planning(f, at, grow) ==
  /\ grow[0] = Empty(f, at)
  /\ \A k \in 1 .. MaxSrd : grow[k] = After(f, k, grow[k - 1])
  /\ \A k \in 0 .. MaxSrd : Making(f, at, grow[k])

LEMMA PlanGrows ==
  ASSUME NEW f, IsFormat(f), NEW at, Stands(f, at)
  PROVE  \E grow : Planning(f, at, grow) /\ Plan(f, at) = grow[MaxSrd]
<1> DEFINE S == {g \in Makings(f) : Making(f, at, g)}
           a == Empty(f, at)
<1>1. PICK n \in Nat : n = MaxSrd
  BY PacketAssumption
<1>2. a \in S
  <2>1. Making(f, at, a)
    BY MakingStarts
  <2> QED
    BY <2>1 DEF Making
<1>3. ASSUME NEW k \in 1 .. n, NEW g \in S PROVE After(f, k, g) \in S
  <2>1. Making(f, at, After(f, k, g))
    BY MakingAfter
  <2> QED
    BY <2>1 DEF Making
<1> DEFINE step == [k \in 1 .. n |-> [g \in S |-> After(f, k, g)]]
<1> HIDE DEF S, a
<1>4. /\ step \in [1 .. n -> [S -> S]]
      /\ \A k \in 1 .. n : \A g \in S : step[k][g] = After(f, k, g)
  BY <1>3
<1> HIDE DEF step
<1>5. PICK w : Unrolls(w, S, a, n, step)
  BY <1>2, <1>4, Unrolled, Zenon
<1>6. \A k \in 1 .. n : k - 1 \in 0 .. n /\ w[k - 1] \in S
  BY <1>5 DEF Unrolls
<1>7. \A k \in 1 .. n : w[k] = After(f, k, w[k - 1])
  BY <1>4, <1>5, <1>6 DEF Unrolls
<1>8. PICK grow : /\ grow = [k \in 0 .. MaxSrd |->
                         IF k = 0 THEN [at |-> at, budget |-> f.payload - 14, srds |-> <<>>]
                         ELSE LET g   == grow[k - 1]
                                  seg == Segment(f, g.at, g.budget)
                              IN  IF seg = 0 \/ (f.aligned /\ k > 1) THEN g
                                  ELSE [at |-> Advanced(f, g.at, seg), budget |-> g.budget - 6 - seg,
                                        srds |-> Append(g.srds, [len |-> seg, line |-> g.at.line,
                                                 offset |-> 2 * (g.at.octet \div f.pg)])]]
                  /\ Plan(f, at) = grow[MaxSrd]
  <2>1. w = [k \in 0 .. n |-> IF k = 0 THEN a ELSE After(f, k, w[k - 1])]
    BY <1>5, <1>7 DEF Unrolls
  <2>2. w = [k \in 0 .. MaxSrd |->
                         IF k = 0 THEN [at |-> at, budget |-> f.payload - 14, srds |-> <<>>]
                         ELSE LET g   == w[k - 1]
                                  seg == Segment(f, g.at, g.budget)
                              IN  IF seg = 0 \/ (f.aligned /\ k > 1) THEN g
                                  ELSE [at |-> Advanced(f, g.at, seg), budget |-> g.budget - 6 - seg,
                                        srds |-> Append(g.srds, [len |-> seg, line |-> g.at.line,
                                                 offset |-> 2 * (g.at.octet \div f.pg)])]]
    BY <1>1, <2>1, Zenon DEF After, WithSegment, Empty, a
  <2> QED
    BY <2>2, Zenon DEF Plan
<1>9. grow[0] = a /\ \A k \in 1 .. n : grow[k] = After(f, k, grow[k - 1])
  <2>1. grow = [k \in 0 .. n |-> IF k = 0 THEN a ELSE After(f, k, grow[k - 1])]
    BY <1>1, <1>8, Zenon DEF After, WithSegment, Empty, a
  <2> QED
    BY <2>1
<1>10. \A k \in 0 .. n : grow[k] \in S
  <2> DEFINE T == {k \in 0 .. n : grow[k] \in S}
  <2>1. 0 \in T
    BY <1>2, <1>9
  <2>2. ASSUME NEW k \in 0 .. n - 1, k \in T PROVE k + 1 \in T
    <3>1. k + 1 \in 1 .. n /\ k + 1 \in 0 .. n /\ (k + 1) - 1 = k /\ grow[k] \in S
      BY <2>2
    <3> QED
      BY <1>3, <1>9, <3>1
  <2> HIDE DEF T
  <2>3. \A k \in 0 .. n : k \in T
    BY <2>1, <2>2, UpTo, Zenon
  <2> QED
    BY <2>3 DEF T
<1>11. Planning(f, at, grow)
  BY <1>1, <1>9, <1>10 DEF Planning, S, a
<1> QED
  BY <1>8, <1>11

\* The packet that starts at a cursor: one segment at least, and no more than can be announced.
LEMMA PlanIs ==
  ASSUME NEW f, IsFormat(f), NEW at, Stands(f, at), at.line < f.height
  PROVE  Making(f, at, Plan(f, at)) /\ Len(Plan(f, at).srds) \in 1 .. MaxSrd
<1>1. PICK grow : Planning(f, at, grow) /\ Plan(f, at) = grow[MaxSrd]
  BY PlanGrows
<1>2. PICK n \in Nat \ {0} : n = MaxSrd
  BY PacketAssumption
<1>3. \A k \in 0 .. n : Making(f, at, grow[k])
  BY <1>1, <1>2 DEF Planning
<1>4. \A k \in 1 .. n : grow[k] = After(f, k, grow[k - 1])
  BY <1>1, <1>2 DEF Planning
<1>5. Len(grow[1].srds) = 1
  <2>1. grow[1] = After(f, 1, grow[1 - 1]) /\ 1 - 1 = 0 /\ grow[0] = Empty(f, at)
    BY <1>1, <1>2, <1>4 DEF Planning
  <2> QED
    BY <2>1, FirstSegment
<1> DEFINE T == {k \in 0 .. n : k = 0 \/ Len(grow[k].srds) \in 1 .. k}
<1>6. 0 \in T
  OBVIOUS
<1>7. ASSUME NEW k \in 0 .. n - 1, k \in T PROVE k + 1 \in T
  <2>1. k + 1 \in 1 .. n /\ k + 1 \in 0 .. n /\ (k + 1) - 1 = k
    OBVIOUS
  <2>2. CASE k = 0
    <3>1. k + 1 = 1 /\ Len(grow[k + 1].srds) \in 1 .. k + 1
      BY <1>5, <2>2
    <3> QED
      BY <2>1, <3>1
  <2>3. CASE k # 0
    <3>1. Len(grow[k].srds) \in 1 .. k
      BY <1>7, <2>3
    <3>2. grow[k + 1] = After(f, k + 1, grow[k]) /\ Making(f, at, grow[k])
      BY <1>3, <1>4, <2>1
    <3>3. Len(grow[k + 1].srds) \in {Len(grow[k].srds), Len(grow[k].srds) + 1}
      BY <3>2, LonglyAfter
    <3>4. Len(grow[k + 1].srds) \in 1 .. k + 1
      BY <3>1, <3>3
    <3> QED
      BY <2>1, <3>4
  <2> QED
    BY <2>2, <2>3
<1> HIDE DEF T
<1>8. \A k \in 0 .. n : k \in T
  BY <1>6, <1>7, UpTo, Zenon
<1>9. n \in T /\ n \in 0 .. n
  BY <1>8
<1>10. Len(grow[n].srds) \in 1 .. n
  BY <1>9 DEF T
<1> QED
  BY <1>1, <1>2, <1>3, <1>9, <1>10

\* What parse() makes of a packet that carries a run of groups.
ParsesTo(f, p, srds, ts, marker, from, to) ==
  /\ Accepted(f, p) /\ Parsed(p).srds = srds /\ Parsed(p).ts = ts /\ Parsed(p).marker = marker
  /\ Targets(f, srds) = Run(from, to) /\ Len(Targets(f, srds)) = to - from
  /\ Len(p.heads) = Len(srds) /\ Len(p.data) = to - from

\* The packet has a run of the groups of a frame.
Shows(p, d, from, to) == p.data = [n \in 1 .. to - from |-> d[from + n - 1]]

LEMMA WrittenParses ==
  ASSUME NEW f, IsFormat(f), NEW s, NEW ts, NEW plan, NEW d, NEW a, NEW b,
         Carries(f, plan.srds, a, b), Len(plan.srds) \in 1 .. MaxSrd
  PROVE  /\ ParsesTo(f, Written(f, s, ts, plan, d), plan.srds, ts, plan.at.line >= f.height, a, b)
         /\ Shows(Written(f, s, ts, plan, d), d, a, b)
<1>1. PICK p, srds : p = Written(f, s, ts, plan, d) /\ srds = plan.srds
  OBVIOUS
<1>2. /\ a \in Nat /\ b \in Nat /\ a <= b /\ srds \in Seq(SrdSet)
      /\ Targets(f, srds) = Run(a, b) /\ Whole(f, srds)
  BY <1>1 DEF Carries
<1>3. PICK n \in Nat \ {0} : n = Len(srds) /\ n \in 1 .. MaxSrd
  <2>1. MaxSrd \in Nat \ {0}
    BY PacketAssumption
  <2> QED
    BY <1>1, <2>1
<1>4. DOMAIN srds = 1 .. n /\ srds = [i \in 1 .. n |-> srds[i]]
  BY <1>2, <1>3, LenProperties
<1>5. p.heads = [i \in 1 .. n |-> [srd |-> srds[i], cont |-> i < n]]
  <2>1. p.heads = [i \in DOMAIN srds |-> [srd |-> srds[i], cont |-> Continues(srds, i)]]
    BY <1>1 DEF Written
  <2> QED
    BY <1>3, <1>4, <2>1 DEF Continues
<1>6. PICK heads : heads = p.heads /\ DOMAIN heads = 1 .. n /\ Len(heads) = n
                   /\ \A i \in 1 .. n : /\ heads[i].srd = srds[i]
                                      /\ (i < n => heads[i].cont) /\ (i = n => ~heads[i].cont)
  <2>1. PICK heads : heads = p.heads
    OBVIOUS
  <2>2. \A i \in 1 .. n : /\ heads[i].srd = srds[i]
                          /\ (i < n => heads[i].cont) /\ (i = n => ~heads[i].cont)
    <3>1. TAKE i \in 1 .. n
    <3>2. heads[i] = [srd |-> srds[i], cont |-> i < n]
      BY <1>5, <2>1
    <3>6. CASE i < n
      <4>1. (i < n) = TRUE
        BY <3>6, Zenon
      <4>2. heads[i] = [srd |-> srds[i], cont |-> TRUE]
        BY <3>2, <4>1, Zenon
      <4>3. i # n
        BY <3>6
      <4> QED
        BY <4>2, <4>3
    <3>7. CASE ~(i < n)
      <4>1. (i < n) = FALSE
        BY <3>7
      <4>2. heads[i] = [srd |-> srds[i], cont |-> FALSE]
        BY <3>2, <4>1, Zenon
      <4> QED
        BY <3>7, <4>2
    <3> QED
      BY <3>6, <3>7
  <2>3. DOMAIN heads = 1 .. n /\ Len(heads) = n
    BY <1>5, <2>1
  <2> QED
    BY <2>1, <2>2, <2>3
<1>7. PICK z : z = CHOOSE i \in DOMAIN heads :
                     ~heads[i].cont /\ \A j \in 1 .. i - 1 : heads[j].cont
  OBVIOUS
<1>8. z = n
  <2>1. n \in DOMAIN heads /\ ~heads[n].cont /\ \A j \in 1 .. n - 1 : heads[j].cont
    BY <1>6
  <2>2. z \in DOMAIN heads /\ ~heads[z].cont
    BY <1>7, <2>1
  <2> QED
    BY <1>6, <2>2
<1>9. Parsed(p).srds = srds
  <2>1. Parsed(p).srds = [i \in 1 .. z |-> heads[i].srd]
    BY <1>6, <1>7 DEF Parsed
  <2> QED
    BY <1>4, <1>6, <1>8, <2>1
<1>10. Parsed(p).ts = ts /\ Parsed(p).marker = (plan.at.line >= f.height)
  <2>1. p.ts = ts /\ p.marker = (plan.at.line >= f.height)
    BY <1>1 DEF Written
  <2>2. Parsed(p).ts = p.ts /\ Parsed(p).marker = p.marker
    BY DEF Parsed
  <2> QED
    BY <2>1, <2>2, Zenon
<1>11. PICK t : t = Targets(f, srds) /\ Len(t) = b - a /\ b - a \in Nat
                /\ \A j \in 1 .. b - a : t[j] = a + j - 1
  <2>1. PICK t : t = Run(a, b)
    OBVIOUS
  <2>2. Len(t) = b - a /\ \A j \in 1 .. b - a : t[j] = a + j - 1
    BY <1>2, <2>1, RunIs, Zenon
  <2>3. b - a \in Nat
    BY <1>2
  <2> QED
    BY <1>2, <2>1, <2>2, <2>3, Zenon
<1>12. p.data = [x \in 1 .. b - a |-> d[a + x - 1]]
  <2>1. p.data = [x \in 1 .. Len(t) |-> d[t[x]]]
    BY <1>1, <1>11 DEF Written
  <2> QED
    BY <1>11, <2>1
<1>13. Len(p.data) = b - a
  BY <1>11, <1>12
<1>14. Accepted(f, p)
  <2>1. \E i \in DOMAIN p.heads : i <= MaxSrd /\ ~p.heads[i].cont
    <3>1. n \in DOMAIN heads /\ n <= MaxSrd /\ ~heads[n].cont
      BY <1>3, <1>6
    <3> QED
      BY <1>6, <3>1
  <2>2. \A i \in DOMAIN srds :
          /\ srds[i].len % f.pg = 0 /\ srds[i].line < f.height
          /\ GroupAt(f, srds[i]) + srds[i].len \div f.pg <= f.pgs * f.height
    BY <1>2, <1>3, <1>4 DEF Whole
  <2>3. Len(Targets(f, srds)) <= Len(p.data)
    BY <1>11, <1>13
  <2> QED
    BY <1>9, <2>1, <2>2, <2>3 DEF Accepted
<1>15. Len(p.heads) = Len(srds) /\ Len(Targets(f, srds)) = b - a
  BY <1>3, <1>6, <1>11
<1> QED
  BY <1>1, <1>2, <1>9, <1>10, <1>12, <1>13, <1>14, <1>15 DEF ParsesTo, Shows

\* The packets of a format.
LEMMA PlansAre ==
  ASSUME NEW f \in Formats, NEW at \in Cursors(f), at.line < f.height
  PROVE  /\ IsFormat(f) /\ Stands(f, at) /\ Plans[f][at] = Plan(f, at)
         /\ Making(f, at, Plans[f][at]) /\ Len(Plans[f][at].srds) \in 1 .. MaxSrd
<1>1. IsFormat(f)
  BY PacketAssumption
<1>2. Plans[f][at] = Plan(f, at)
  BY DEF Plans
<1>3. Stands(f, at)
  BY <1>1 DEF Stands, IsFormat, Cursors
<1> QED
  BY <1>1, <1>2, <1>3, PlanIs

\* No packet is larger than the budget.
LEMMA PayloadFits ==
  ASSUME NEW f \in Formats, NEW at \in Cursors(f), at.line < f.height, NEW s, NEW ts, NEW d
  PROVE  PayloadLen(f, Written(f, s, ts, Plans[f][at], d)) <= f.payload
<1>1. PICK plan : plan = Plans[f][at]
  OBVIOUS
<1>2. IsFormat(f) /\ Making(f, at, plan) /\ Len(plan.srds) \in 1 .. MaxSrd
  BY <1>1, PlansAre
<1>3. PICK a, b : a = Pos(f, at) /\ b = Pos(f, plan.at) /\ Carries(f, plan.srds, a, b)
                  /\ Spent(f, plan.budget, plan.srds, b - a)
  BY <1>2 DEF Making
<1>4. PICK p : p = Written(f, s, ts, plan, d)
  OBVIOUS
<1>5. ParsesTo(f, p, plan.srds, ts, plan.at.line >= f.height, a, b)
  BY <1>2, <1>3, <1>4, WrittenParses, Zenon
<1>6. PICK n, m, pg, pay, bud : /\ n = Len(plan.srds) /\ m = b - a /\ pg = f.pg /\ pay = f.payload
                                /\ bud = plan.budget
  OBVIOUS
<1>7. bud \in Nat /\ ((bud + 14) + 6 * n) + pg * m = pay
  BY <1>3, <1>6 DEF Spent
<1>8. n \in Nat /\ m \in Int /\ pg \in Int
  <2>1. MaxSrd \in Nat \ {0}
    BY PacketAssumption
  <2>2. n \in Nat
    BY <1>2, <1>6, <2>1
  <2> QED
    BY <1>2, <1>3, <1>6, <2>2 DEF Carries, IsFormat
<1>9. PayloadLen(f, p) = (14 + 6 * n) + pg * m
  BY <1>5, <1>6 DEF PayloadLen, ParsesTo
<1>10. PICK y : y = pg * m /\ y \in Int
  BY <1>8
<1>11. (14 + 6 * n) + y <= pay
  BY <1>7, <1>8, <1>10
<1> QED
  BY <1>1, <1>4, <1>6, <1>9, <1>10, <1>11

\* Where the packet behind the first i of a frame begins.
Origin == [line |-> 0, octet |-> 0]
Begin(plans, i) == IF i = 0 THEN Origin ELSE plans[i].at

Follows(f, plans, i) ==
  /\ Begin(plans, i - 1) \in Cursors(f) /\ Begin(plans, i - 1).line < f.height
  /\ plans[i] = Plans[f][Begin(plans, i - 1)]

Walks(f) == [at : Cursors(f), plans : Seq(Makings(f))]
Walked(f, w) ==
  /\ w \in Walks(f) /\ Stands(f, w.at) /\ w.at = Begin(w.plans, Len(w.plans))
  /\ Len(w.plans) <= Pos(f, w.at)
  /\ \A i \in 1 .. Len(w.plans) : Follows(f, w.plans, i)

Further(f, w) ==
  IF w.at.line >= f.height THEN w
  ELSE [at |-> Plans[f][w.at].at, plans |-> Append(w.plans, Plans[f][w.at])]

LEMMA OriginStands ==
  ASSUME NEW f, IsFormat(f)
  PROVE  Stands(f, Origin) /\ Pos(f, Origin) = 0 /\ Origin.line < f.height
<1>1. PICK p \in {4, 5}, g \in Nat \ {0}, h \in Nat \ {0} : p = f.pg /\ g = f.pgs /\ h = f.height
  BY DEF IsFormat
<1>2. Octets(f) = g * p /\ g * p \in Nat \ {0}
  BY <1>1 DEF Octets
<1>3. 0 \in 0 .. h /\ 0 \in 0 .. Octets(f) - 1 /\ 0 % p = 0 /\ 0 * g + 0 \div p = 0
  BY <1>1, <1>2
<1>4. Origin.line = 0 /\ Origin.octet = 0 /\ 0 < h /\ 0 # h
  BY <1>1 DEF Origin
<1>5. Origin \in Cursors(f)
  BY <1>1, <1>3, <1>4 DEF Cursors, Origin
<1>6. Pos(f, Origin) = 0
  BY <1>1, <1>3, <1>4 DEF Pos
<1> QED
  BY <1>1, <1>4, <1>5, <1>6 DEF Stands

\* A packet ends behind where it begins, and not behind the frame.
LEMMA PlanMoves ==
  ASSUME NEW f \in Formats, NEW at \in Cursors(f), at.line < f.height
  PROVE  /\ Stands(f, Plans[f][at].at) /\ Plans[f][at] \in Makings(f)
         /\ Pos(f, at) \in Nat /\ Pos(f, Plans[f][at].at) \in Nat
         /\ Pos(f, at) + 1 <= Pos(f, Plans[f][at].at)
<1>1. PICK plan : plan = Plans[f][at]
  OBVIOUS
<1>2. Making(f, at, plan) /\ Len(plan.srds) \in 1 .. MaxSrd
  BY <1>1, PlansAre
<1>3. PICK a, b : a = Pos(f, at) /\ b = Pos(f, plan.at) /\ Carries(f, plan.srds, a, b)
  BY <1>2 DEF Making
<1>4. a \in Nat /\ b \in Nat /\ Len(plan.srds) <= b - a
  BY <1>3 DEF Carries
<1>5. Len(plan.srds) >= 1 /\ Len(plan.srds) \in Nat
  <2>1. MaxSrd \in Nat \ {0}
    BY PacketAssumption
  <2> QED
    BY <1>2, <2>1
<1>6. a + 1 <= b
  BY <1>4, <1>5
<1> QED
  BY <1>1, <1>2, <1>3, <1>4, <1>6 DEF Making

LEMMA WalkFurther ==
  ASSUME NEW f \in Formats, NEW w, Walked(f, w)
  PROVE  /\ Walked(f, Further(f, w))
         /\ w.at.line < f.height => Len(Further(f, w).plans) = Len(w.plans) + 1
         /\ ~(w.at.line < f.height) => Further(f, w) = w
<1>1. PICK c, plans : c = w.at /\ plans = w.plans
  OBVIOUS
<1>2. PICK h \in Nat : h = f.height
  BY PacketAssumption DEF IsFormat
<1>3. c \in Cursors(f) /\ plans \in Seq(Makings(f)) /\ c.line \in 0 .. h
  <2>1. c \in Cursors(f) /\ plans \in Seq(Makings(f))
    BY <1>1 DEF Walked, Walks
  <2> QED
    BY <1>2, <2>1 DEF Cursors
<1>4. CASE c.line < f.height
  <2>1. PICK plan : plan = Plans[f][c]
    OBVIOUS
  <2>2. /\ Stands(f, plan.at) /\ plan \in Makings(f) /\ Pos(f, c) \in Nat /\ Pos(f, plan.at) \in Nat
        /\ Pos(f, c) + 1 <= Pos(f, plan.at)
    BY <1>3, <1>4, <2>1, PlanMoves
  <2>3a. PICK n \in Nat : n = Len(plans)
    BY <1>3, LenProperties
  <2>3. PICK more : n = Len(plans) /\ more = Append(plans, plan)
    BY <2>3a
  <2>4. /\ more \in Seq(Makings(f)) /\ Len(more) = n + 1 /\ more[n + 1] = plan
        /\ \A i \in 1 .. n : more[i] = plans[i]
    BY <1>3, <2>2, <2>3, AppendProperties
  <2>5. PICK v : v = [at |-> plan.at, plans |-> more]
    OBVIOUS
  <2>6. Further(f, w) = v
    <3>1. ~(c.line >= f.height)
      BY <1>2, <1>3, <1>4
    <3> QED
      BY <1>1, <2>1, <2>3, <2>5, <3>1 DEF Further
  <2>7. v.at = plan.at /\ v.plans = more /\ v \in Walks(f)
    BY <2>2, <2>4, <2>5 DEF Walks, Stands
  <2>8. \A i \in 0 .. n : Begin(more, i) = Begin(plans, i)
    BY <2>4 DEF Begin
  <2>9. Begin(plans, n) = c
    BY <1>1, <2>3 DEF Walked
  <2>10. \A i \in 1 .. n + 1 : Follows(f, more, i)
    <3>1. TAKE i \in 1 .. n + 1
    <3>2. CASE i = n + 1
      <4>1. i - 1 = n /\ n \in 0 .. n
        BY <3>2
      <4>2. Begin(more, i - 1) = c
        BY <2>8, <2>9, <4>1
      <4> QED
        BY <1>3, <1>4, <2>1, <2>4, <3>2, <4>2 DEF Follows
    <3>3. CASE i # n + 1
      <4>1. i \in 1 .. n /\ i - 1 \in 0 .. n
        BY <3>3
      <4>2. Follows(f, plans, i)
        BY <1>1, <2>3, <4>1 DEF Walked
      <4>3. more[i] = plans[i] /\ Begin(more, i - 1) = Begin(plans, i - 1)
        BY <2>4, <2>8, <4>1
      <4> QED
        BY <4>2, <4>3 DEF Follows
    <3> QED
      BY <3>2, <3>3
  <2>11. v.at = Begin(v.plans, Len(v.plans))
    <3>1. n + 1 # 0
      OBVIOUS
    <3> QED
      BY <2>4, <2>7, <3>1 DEF Begin
  <2>12. Len(v.plans) <= Pos(f, v.at)
    <3>1. n <= Pos(f, c)
      BY <1>1, <2>3 DEF Walked
    <3> QED
      BY <2>2, <2>4, <2>7, <3>1
  <2>13. Walked(f, v)
    BY <2>2, <2>4, <2>7, <2>10, <2>11, <2>12 DEF Walked
  <2> QED
    BY <1>1, <1>4, <2>3, <2>4, <2>6, <2>7, <2>13
<1>5. CASE ~(c.line < f.height)
  <2>1. c.line >= f.height
    BY <1>2, <1>3, <1>5
  <2> QED
    BY <1>1, <1>5, <2>1 DEF Further
<1> QED
  BY <1>4, <1>5

\* A frame is cut up to its end.
CutUp(f, plans) ==
  /\ plans \in Seq(Makings(f)) /\ Len(plans) \in Nat \ {0}
  /\ \A i \in 1 .. Len(plans) : Follows(f, plans, i)
  /\ Stands(f, Begin(plans, Len(plans))) /\ Begin(plans, Len(plans)).line = f.height

LEMMA FrameIsCutUp ==
  ASSUME NEW f \in Formats
  PROVE  CutUp(f, FramePlans[f])
<1>1. IsFormat(f)
  BY PacketAssumption
<1>2. PICK g \in Nat \ {0}, h \in Nat \ {0}, p \in {4, 5} : g = f.pgs /\ h = f.height /\ p = f.pg
  BY <1>1 DEF IsFormat
<1>3. PICK n : n = g * h /\ n \in Nat \ {0}
  BY <1>2
<1> DEFINE S == {w \in Walks(f) : Walked(f, w)}
           a == [at |-> Origin, plans |-> <<>>]
<1>4. a \in S
  <2>1. <<>> \in Seq(Makings(f)) /\ Len(<<>>) = 0
    BY EmptySeq
  <2>2. Stands(f, Origin) /\ Pos(f, Origin) = 0
    BY <1>1, OriginStands
  <2>3. Walked(f, a)
    BY <2>1, <2>2 DEF Walked, Walks, Begin, Stands
  <2> QED
    BY <2>3 DEF Walked
<1>5. ASSUME NEW w \in S PROVE Further(f, w) \in S
  <2>1. Walked(f, Further(f, w))
    BY WalkFurther
  <2> QED
    BY <2>1 DEF Walked
<1> DEFINE step == [k \in 1 .. n |-> [w \in S |-> Further(f, w)]]
<1> HIDE DEF S, a
<1>6. /\ step \in [1 .. n -> [S -> S]]
      /\ \A k \in 1 .. n : \A w \in S : step[k][w] = Further(f, w)
  BY <1>5
<1> HIDE DEF step
<1>7. PICK u : Unrolls(u, S, a, n, step)
  BY <1>3, <1>4, <1>6, Unrolled
<1>8. \A k \in 1 .. n : k - 1 \in 0 .. n /\ u[k - 1] \in S
  BY <1>3, <1>7 DEF Unrolls
<1>9. \A k \in 1 .. n : u[k] = Further(f, u[k - 1])
  BY <1>6, <1>7, <1>8 DEF Unrolls
<1>10. PICK walk : /\ walk = [k \in 0 .. f.pgs * f.height |->
                         IF k = 0 THEN [at |-> [line |-> 0, octet |-> 0], plans |-> <<>>]
                         ELSE LET w == walk[k - 1]
                              IN  IF w.at.line >= f.height THEN w
                                  ELSE [at |-> Plans[f][w.at].at,
                                        plans |-> Append(w.plans, Plans[f][w.at])]]
                   /\ FramePlans[f] = walk[f.pgs * f.height].plans
  <2>1. u = [k \in 0 .. n |-> IF k = 0 THEN a ELSE Further(f, u[k - 1])]
    BY <1>3, <1>7, <1>9 DEF Unrolls
  <2>2. u = [k \in 0 .. f.pgs * f.height |->
           IF k = 0 THEN [at |-> [line |-> 0, octet |-> 0], plans |-> <<>>]
           ELSE LET w == u[k - 1]
                IN  IF w.at.line >= f.height THEN w
                    ELSE [at |-> Plans[f][w.at].at, plans |-> Append(w.plans, Plans[f][w.at])]]
    BY <1>2, <1>3, <2>1, Zenon DEF Further, Origin, a
  <2> QED
    BY <2>2, Zenon DEF FramePlans
<1>11. walk[0] = a /\ \A k \in 1 .. n : walk[k] = Further(f, walk[k - 1])
  <2>1. walk = [k \in 0 .. n |-> IF k = 0 THEN a ELSE Further(f, walk[k - 1])]
    BY <1>2, <1>3, <1>10, Zenon DEF Further, Origin, a
  <2> QED
    BY <1>3, <2>1
<1> DEFINE T == {k \in 0 .. n : /\ Walked(f, walk[k])
                                /\ walk[k].at.line < f.height => Len(walk[k].plans) = k}
<1>12. 0 \in T
  <2>1. Walked(f, a)
    BY <1>4 DEF S
  <2>2. Len(a.plans) = 0
    BY DEF a
  <2> QED
    BY <1>3, <1>11, <2>1, <2>2
<1>13. ASSUME NEW k \in 0 .. n - 1, k \in T PROVE k + 1 \in T
  <2>1. k + 1 \in 1 .. n /\ k + 1 \in 0 .. n /\ (k + 1) - 1 = k
    BY <1>3
  <2>2. PICK v, w : v = walk[k] /\ w = walk[k + 1] /\ w = Further(f, v)
    BY <1>11, <2>1
  <2>3. Walked(f, v) /\ (v.at.line < f.height => Len(v.plans) = k)
    BY <1>13, <2>2
  <2>4. /\ Walked(f, w) /\ (v.at.line < f.height => Len(w.plans) = Len(v.plans) + 1)
        /\ ~(v.at.line < f.height) => w = v
    BY <2>2, <2>3, WalkFurther
  <2>5. w.at.line < f.height => Len(w.plans) = k + 1
    BY <2>3, <2>4
  <2> QED
    BY <2>1, <2>2, <2>4, <2>5
<1> HIDE DEF T
<1>14. \A k \in 0 .. n : k \in T
  BY <1>3, <1>12, <1>13, UpTo, Zenon
<1>15. PICK w : w = walk[n] /\ Walked(f, w) /\ (w.at.line < f.height => Len(w.plans) = n)
  BY <1>3, <1>14 DEF T
<1>16. FramePlans[f] = w.plans
  BY <1>2, <1>3, <1>10, <1>15
<1>17. w.at.line = h
  <2>1. w.at \in Cursors(f) /\ Stands(f, w.at) /\ Len(w.plans) <= Pos(f, w.at)
    BY <1>15 DEF Walked, Walks
  <2>2. PICK q : CursorIs(f, w.at, q)
    BY <1>1, <2>1, CursorSplits
  <2>3. PICK l : l = w.at.line /\ l \in 0 .. h /\ q \in 0 .. g - 1 /\ Pos(f, w.at) = l * g + q
    BY <1>2, <2>2 DEF CursorIs
  <2>4. SUFFICES ASSUME l # h PROVE FALSE
    BY <2>3
  <2>5. PICK m \in Nat : m = l + 1 /\ m <= h
    BY <1>2, <2>3, <2>4
  <2>6. n <= l * g + q
    BY <1>2, <1>15, <2>1, <2>3, <2>5
  <2>7. m * g <= h * g
    BY <1>2, <2>5, ProductLess
  <2>8. \A x \in Nat, y \in Nat : (x + 1) * y = x * y + y /\ x * y = y * x
    OBVIOUS
  <2>9. m * g = l * g + g /\ h * g = n
    BY <1>2, <1>3, <2>3, <2>5, <2>8
  <2>10. PICK x : x = l * g /\ x \in Nat
    BY <1>2, <2>3, Product
  <2> QED
    BY <1>2, <1>3, <2>3, <2>6, <2>7, <2>9, <2>10
<1>18. Len(w.plans) # 0
  BY <1>1, <1>2, <1>15, <1>17, OriginStands DEF Walked, Begin
<1>19. w.plans \in Seq(Makings(f)) /\ Len(w.plans) \in Nat \ {0}
  BY <1>15, <1>18, LenProperties DEF Walked, Walks
<1> QED
  BY <1>2, <1>15, <1>16, <1>17, <1>19 DEF CutUp, Walked

\* Packets in a frame, and the groups before the i-th one's end.
PerFrame(f) == Len(FramePlans[f])
At(f, i) == Pos(f, Begin(FramePlans[f], i))

LEMMA Frames ==
  ASSUME NEW f \in Formats
  PROVE  /\ IsFormat(f) /\ PerFrame(f) \in Nat \ {0} /\ \A i \in 0 .. PerFrame(f) : At(f, i) \in Nat
         /\ At(f, 0) = 0 /\ At(f, PerFrame(f)) = f.pgs * f.height
<1>1. IsFormat(f) /\ CutUp(f, FramePlans[f])
  BY PacketAssumption, FrameIsCutUp
<1>a. PICK plans : plans = FramePlans[f]
  OBVIOUS
<1>2. PICK n \in Nat \ {0} : plans = FramePlans[f] /\ n = Len(plans)
  BY <1>1, <1>a DEF CutUp
<1>3. At(f, 0) = 0
  BY <1>1, OriginStands DEF At, Begin
<1>4. ASSUME NEW i \in 1 .. n PROVE At(f, i) \in Nat
  <2>1. Follows(f, plans, i) /\ i # 0
    BY <1>1, <1>2 DEF CutUp
  <2>2. Begin(plans, i) = Plans[f][Begin(plans, i - 1)].at
    BY <2>1 DEF Follows, Begin
  <2> QED
    BY <1>2, <2>1, <2>2, PlanMoves DEF Follows, At
<1>5. At(f, n) = f.pgs * f.height
  <2>1. PICK c : c = Begin(plans, n) /\ Stands(f, c) /\ c.line = f.height
    BY <1>1, <1>2 DEF CutUp
  <2>2. PICK g \in Nat, h \in Nat, p \in {4, 5} : g = f.pgs /\ h = f.height /\ p = f.pg
    BY <1>1 DEF IsFormat
  <2>3. c.octet = 0 /\ 0 \div p = 0
    BY <2>1, <2>2 DEF Stands
  <2>4. h * g + 0 = g * h
    BY <2>2
  <2> QED
    BY <1>2, <2>1, <2>2, <2>3, <2>4 DEF At, Pos
<1>6. \A i \in 0 .. n : i = 0 \/ i \in 1 .. n
  OBVIOUS
<1> QED
  BY <1>1, <1>2, <1>3, <1>4, <1>5, <1>6 DEF PerFrame

\* The i-th packet of a frame.
PacketIs(f, i, at, plan) ==
  /\ at = Begin(FramePlans[f], i - 1) /\ at \in Cursors(f) /\ at.line < f.height
  /\ plan = FramePlans[f][i] /\ plan = Plans[f][at] /\ plan.at = Begin(FramePlans[f], i)
  /\ Carries(f, plan.srds, At(f, i - 1), At(f, i)) /\ Len(plan.srds) \in 1 .. MaxSrd
  /\ At(f, i - 1) + 1 <= At(f, i)

LEMMA Packets ==
  ASSUME NEW f \in Formats, NEW i \in 1 .. PerFrame(f)
  PROVE  /\ \E at, plan : PacketIs(f, i, at, plan)
         /\ Begin(FramePlans[f], i) \in Cursors(f)
         /\ i # PerFrame(f) => ~(Begin(FramePlans[f], i).line >= f.height)
         /\ i = PerFrame(f) => Begin(FramePlans[f], i).line >= f.height
<1>1. CutUp(f, FramePlans[f]) /\ IsFormat(f)
  BY FrameIsCutUp, PacketAssumption
<1>a. PICK plans : plans = FramePlans[f]
  OBVIOUS
<1>2. PICK n \in Nat \ {0} : plans = FramePlans[f] /\ n = Len(plans)
  BY <1>1, <1>a DEF CutUp
<1>3. i \in 1 .. n /\ i # 0
  BY <1>2 DEF PerFrame
<1>4. Follows(f, plans, i)
  BY <1>1, <1>2, <1>3 DEF CutUp
<1>5. PICK at, plan : at = Begin(plans, i - 1) /\ plan = plans[i]
  OBVIOUS
<1>6. at \in Cursors(f) /\ at.line < f.height /\ plan = Plans[f][at]
  BY <1>4, <1>5 DEF Follows
<1>7. plan.at = Begin(plans, i)
  BY <1>3, <1>5 DEF Begin
<1>8. Making(f, at, plan) /\ Len(plan.srds) \in 1 .. MaxSrd /\ Pos(f, at) + 1 <= Pos(f, plan.at)
      /\ Stands(f, plan.at)
  BY <1>6, PlansAre, PlanMoves
<1>9. PacketIs(f, i, at, plan)
  BY <1>2, <1>5, <1>6, <1>7, <1>8 DEF PacketIs, Making, At
<1>10. ASSUME i # n PROVE ~(Begin(plans, i).line >= f.height)
  <2>1. i + 1 \in 1 .. n /\ (i + 1) - 1 = i
    BY <1>3, <1>10
  <2>2. Follows(f, plans, i + 1)
    BY <1>1, <1>2, <2>1 DEF CutUp
  <2>3. Begin(plans, i) \in Cursors(f) /\ Begin(plans, i).line < f.height
    BY <2>1, <2>2 DEF Follows
  <2>4. PICK h \in Nat : h = f.height /\ Begin(plans, i).line \in 0 .. h
    BY <1>1, <2>3 DEF IsFormat, Cursors
  <2> QED
    BY <2>3, <2>4
<1>11. ASSUME i = n PROVE Begin(plans, i).line >= f.height
  <2>1. Begin(plans, i).line = f.height /\ f.height \in Nat
    BY <1>1, <1>2, <1>11 DEF CutUp, IsFormat
  <2> QED
    BY <2>1
<1>12. Begin(plans, i) \in Cursors(f)
  BY <1>7, <1>8 DEF Stands
<1> QED
  BY <1>2, <1>9, <1>10, <1>11, <1>12 DEF PerFrame

\* The packets of a frame are one behind the other.
LEMMA AtGrows ==
  ASSUME NEW f \in Formats
  PROVE  \A j \in 0 .. PerFrame(f) : \A i \in 0 .. j : At(f, i) <= At(f, j)
<1>1. PICK n \in Nat : n = PerFrame(f) /\ \A i \in 0 .. n : At(f, i) \in Nat
  BY Frames
<1> DEFINE T == {j \in 0 .. n : \A i \in 0 .. j : At(f, i) <= At(f, j)}
<1>2. 0 \in T
  BY <1>1
<1>3. ASSUME NEW j \in 0 .. n - 1, j \in T PROVE j + 1 \in T
  <2>1. j + 1 \in 1 .. n /\ (j + 1) - 1 = j /\ j \in 0 .. n /\ j + 1 \in 0 .. n
    BY <1>1
  <2>2. At(f, j) + 1 <= At(f, j + 1)
    BY <1>1, <2>1, Packets DEF PacketIs
  <2>3. ASSUME NEW i \in 0 .. j + 1 PROVE At(f, i) <= At(f, j + 1)
    <3>1. CASE i = j + 1
      BY <1>1, <2>1, <3>1
    <3>2. CASE i # j + 1
      <4>1. i \in 0 .. j /\ i \in 0 .. n
        BY <2>1, <3>2
      <4>2. At(f, i) <= At(f, j)
        BY <1>3, <4>1
      <4> QED
        BY <1>1, <2>1, <2>2, <4>1, <4>2
    <3> QED
      BY <3>1, <3>2
  <2> QED
    BY <2>1, <2>3
<1> HIDE DEF T
<1>4. \A j \in 0 .. n : j \in T
  BY <1>1, <1>2, <1>3, UpTo, Zenon
<1> QED
  BY <1>1, <1>4 DEF T

\* Each group of a frame is in one of its packets.
LEMMA AtCovers ==
  ASSUME NEW f \in Formats, NEW x \in Nat, x < f.pgs * f.height
  PROVE  \E i \in 1 .. PerFrame(f) : At(f, i - 1) <= x /\ x < At(f, i)
<1>1. PICK n \in Nat : /\ n = PerFrame(f) /\ \A i \in 0 .. n : At(f, i) \in Nat
                       /\ At(f, 0) = 0 /\ x < At(f, n)
  BY Frames
<1> DEFINE T == {i \in 0 .. n : x < At(f, i)}
<1>2. T \subseteq Nat /\ T # {}
  BY <1>1
<1>3. PICK m \in T : \A k \in T : m <= k
  BY <1>2, Least
<1>4. m \in 1 .. n /\ m - 1 \in 0 .. n /\ ~(m <= m - 1)
  BY <1>1, <1>3
<1>5. ~(x < At(f, m - 1))
  BY <1>3, <1>4
<1>6. At(f, m - 1) <= x
  BY <1>1, <1>4, <1>5
<1> QED
  BY <1>1, <1>3, <1>4, <1>6

\* Two packets of a frame share no group.
LEMMA AtApart ==
  ASSUME NEW f \in Formats, NEW i \in 1 .. PerFrame(f), NEW j \in 1 .. PerFrame(f), i # j,
         NEW x \in Int, At(f, i - 1) <= x, x < At(f, i)
  PROVE  ~(At(f, j - 1) <= x /\ x < At(f, j))
<1>1. PICK n \in Nat : n = PerFrame(f) /\ \A k \in 0 .. n : At(f, k) \in Nat
  BY Frames
<1>2. i \in 0 .. n /\ j \in 0 .. n /\ i - 1 \in 0 .. n /\ j - 1 \in 0 .. n
  BY <1>1
<1>3. CASE i < j
  <2>1. i \in 0 .. j - 1
    BY <1>2, <1>3
  <2>2. At(f, i) <= At(f, j - 1)
    BY <1>1, <1>2, <2>1, AtGrows
  <2> QED
    BY <1>1, <1>2, <2>2
<1>4. CASE j < i
  <2>1. j \in 0 .. i - 1
    BY <1>2, <1>4
  <2>2. At(f, j) <= At(f, i - 1)
    BY <1>1, <1>2, <2>1, AtGrows
  <2> QED
    BY <1>1, <1>2, <2>2
<1> QED
  BY <1>2, <1>3, <1>4

-----------------------------------------------------------------------------
(* What the receiver makes of it *)

\* A buffer that got a run of the groups of a frame.
Placed(new, old, d, from, to) ==
  /\ DOMAIN new = DOMAIN old
  /\ \A g \in DOMAIN old : new[g] = IF from <= g /\ g < to THEN d[g] ELSE old[g]

\* scatter() puts the groups of a run in their places, and no others.
LEMMA ScatterIs ==
  ASSUME NEW f, NEW p, NEW srds, NEW ts, NEW mark, NEW a \in Nat, NEW b \in Nat, NEW d, NEW m,
         a <= b, ParsesTo(f, p, srds, ts, mark, a, b), DOMAIN m \subseteq Int,
         Shows(p, d, a, b)
  PROVE  Placed(Scattered(f, p, m), m, d, a, b)
<1> DEFINE to == Targets(f, Parsed(p).srds)
           from(g) == {n \in DOMAIN to : to[n] = g}
<1>4. Scattered(f, p, m) = [g \in DOMAIN m |->
         IF from(g) = {} THEN m[g]
         ELSE p.data[CHOOSE n \in from(g) : \A k \in from(g) : k <= n]]
  BY DEF Scattered
<1>2. PICK c \in Nat : c = b - a
  OBVIOUS
<1>3. DOMAIN to = 1 .. c /\ \A n \in 1 .. c : to[n] = a + n - 1
  <2>1. to = Run(a, b)
    BY DEF ParsesTo
  <2> HIDE DEF to
  <2> QED
    BY <1>2, <2>1 DEF Run
<1> HIDE DEF to
<1>5. ASSUME NEW g \in DOMAIN m
      PROVE  Scattered(f, p, m)[g] = IF a <= g /\ g < b THEN d[g] ELSE m[g]
  <2>0. g \in Int
    OBVIOUS
  <2>1. CASE a <= g /\ g < b
    <3>1. PICK n : n = (g - a) + 1 /\ n \in 1 .. c /\ a + n - 1 = g
      BY <1>2, <2>0, <2>1
    <3>2. from(g) = {n}
      <4>1. \A k \in 1 .. c : a + k - 1 = g => k = n
        BY <2>0, <3>1
      <4> QED
        BY <1>3, <3>1, <4>1
    <3> HIDE DEF from
    <3>3. (CHOOSE k \in from(g) : \A j \in from(g) : j <= k) = n
      BY <1>2, <3>1, <3>2
    <3>4. from(g) # {}
      BY <3>2
    <3>5. Scattered(f, p, m)[g] = p.data[n]
      BY <1>4, <3>3, <3>4
    <3>6. p.data[n] = d[g]
      BY <1>2, <3>1 DEF Shows
    <3> QED
      BY <2>1, <3>5, <3>6
  <2>2. CASE ~(a <= g /\ g < b)
    <3>1. from(g) = {}
      <4>1. \A k \in 1 .. c : a <= a + k - 1 /\ a + k - 1 < b
        BY <1>2
      <4> QED
        BY <1>3, <2>2, <4>1
    <3> HIDE DEF from
    <3> QED
      BY <1>4, <2>2, <3>1
  <2> QED
    BY <2>1, <2>2
<1> QED
  BY <1>4, <1>5 DEF Placed

LEMMA Divides ==
  ASSUME NEW m \in Nat \ {0}, NEW k \in Nat, NEW r \in 0 .. m - 1
  PROVE  (k * m + r) \div m = k /\ (k * m + r) % m = r
<1>1. PICK x : x = k * m + r /\ x \in Nat
  <2>1. k * m \in Nat
    BY Product
  <2> QED
    BY <2>1
<1>2. x \div m = k
  BY <1>1, SMT
<1>3. x % m = r
  BY <1>1, SMT
<1> QED
  BY <1>1, <1>2, <1>3

\* A line with its own octets is one UnpackOp gets right.
LEMMA LineIsRight ==
  ASSUME fmt \in Formats, NEW ts \in 1 .. MaxFrames, NEW l \in 0 .. fmt.height - 1, NEW octets,
         \A k \in 1 .. fmt.pgs : octets[l * fmt.pgs + k - 1] = Source(ts)[l * fmt.pgs + k - 1]
  PROVE  l \in RightLines(ts, octets)
<1>1. PICK g \in Nat \ {0}, h \in Nat \ {0} : g = fmt.pgs /\ h = fmt.height
  BY PacketAssumption DEF IsFormat
<1>2. PICK ip10 \in BOOLEAN : ip10 = Ip10(fmt)
  BY DEF Ip10
<1>3. PICK sent : sent = Pictures[fmt][ts][l]
  OBVIOUS
<1>4. \A k \in 1 .. g : /\ l * g + k - 1 \in Groups(fmt)
                        /\ (l * g + k - 1) \div g = l /\ (l * g + k - 1) % g = k - 1
  <2>1. TAKE k \in 1 .. g
  <2>2. PICK m \in Nat : m = l + 1 /\ m <= h
    BY <1>1
  <2>3. m * g <= h * g
    BY <1>1, <2>2, ProductLess
  <2>4. \A x \in Nat, y \in Nat : (x + 1) * y = x * y + y /\ x * y = y * x
    OBVIOUS
  <2>5. l \in Nat /\ l * g \in Nat /\ l * g + g = m * g /\ h * g = g * h
    <3>1. l \in Nat
      BY <1>1
    <3>2. l * g \in Nat
      BY <1>1, <3>1, Product
    <3>3. (l + 1) * g = l * g + g /\ h * g = g * h
      BY <1>1, <2>4, <3>1
    <3> QED
      BY <2>2, <3>1, <3>2, <3>3
  <2>6. PICK x, y : x = l * g /\ y = g * h
    OBVIOUS
  <2>7. x \in Nat /\ y \in Int /\ x + g <= y
    BY <1>1, <2>3, <2>5, <2>6
  <2>8. x + k - 1 \in 0 .. y - 1
    BY <1>1, <2>7
  <2>9. (l * g + k - 1) \div g = l /\ (l * g + k - 1) % g = k - 1
    <3>1. PICK r : r = k - 1 /\ r \in 0 .. g - 1
      BY <1>1
    <3>2. l * g + k - 1 = l * g + r
      BY <1>1, <2>5, <3>1
    <3>3. (l * g + r) \div g = l /\ (l * g + r) % g = r
      BY <1>1, <2>5, <3>1, Divides
    <3> QED
      BY <3>1, <3>2, <3>3
  <2> QED
    BY <1>1, <2>6, <2>8, <2>9 DEF Groups
<1>5. sent = [k \in 1 .. g |-> Picture(ts, l * g + k - 1)]
  BY <1>1, <1>3 DEF Pictures
<1>6. sent \in Seq([1 .. 4 -> Samples]) /\ Len(sent) = g
  <2>1. \A k \in 1 .. g : Picture(ts, l * g + k - 1) \in [1 .. 4 -> Samples]
    BY <1>4, WireAssumption
  <2>2. PICK V : V = [1 .. 4 -> Samples]
    OBVIOUS
  <2>3. sent \in [1 .. g -> V]
    BY <1>5, <2>1, <2>2, <1>1
  <2>4. \A n \in Nat : \A x \in [1 .. n -> V] : x \in Seq(V)
    OBVIOUS
  <2>5. sent \in Seq(V)
    BY <1>1, <2>3, <2>4, Zenon
  <2>6. Len(sent) = g
    BY <1>1, <1>5
  <2> QED
    BY <2>2, <2>5, <2>6
<1>7. PICK code : code = EncodeLine(ip10, sent)
  OBVIOUS
<1>8. code = Packed[fmt][ts][l]
  BY <1>2, <1>3, <1>7 DEF Packed
<1>9. DOMAIN code = 1 .. g /\ code = [k \in 1 .. g |-> code[k]]
  <2>1. DOMAIN code = 1 .. g
    BY <1>2, <1>6, <1>7, LineBack
  <2>2. code = [k \in DOMAIN code |-> code[k]]
    BY <1>7 DEF EncodeLine
  <2> QED
    BY <2>1, <2>2
<1>10. \A k \in 1 .. g : octets[l * g + k - 1] = code[k]
  <2>1. TAKE k \in 1 .. g
  <2>2. PICK x : x = l * g + k - 1 /\ x \in Groups(fmt) /\ x \div g = l /\ x % g = k - 1
    BY <1>4
  <2>3. (k - 1) + 1 = k
    BY <1>1
  <2>4. Source(ts)[x] = Packed[fmt][ts][x \div g][(x % g) + 1]
    BY <1>1, <2>2 DEF Source, Sources
  <2>5. octets[x] = Source(ts)[x]
    BY <1>1, <2>2
  <2> QED
    BY <1>8, <2>2, <2>3, <2>4, <2>5
<1>11. [k \in 1 .. fmt.pgs |-> octets[l * fmt.pgs + k - 1]] = code
  BY <1>1, <1>9, <1>10
<1>12. PICK out : out = DecodeLine(ip10, code)
  OBVIOUS
<1>13. \A k \in 1 .. g : \A c \in 1 .. 4 : Distance(out[k][c], sent[k][c]) <= Tolerance(ip10)
  BY <1>2, <1>6, <1>7, <1>12, LineBack
<1> QED
  BY <1>1, <1>2, <1>3, <1>11, <1>12, <1>13 DEF RightLines
-----------------------------------------------------------------------------
(* The buffers *)

\* The batch and the video queue are queues of some packets.
QueuesOf(S) == pending \in Seq(S) /\ ring \in Seq(S)

\* The inductive form of BuffersKept: the batch has room while a packet is made, and no queue
\* is longer than the hardware's.
BufferInv ==
  /\ \E S : QueuesOf(S)
  /\ Len(pending) <= Batch /\ (txpc = "send" => Len(pending) < Batch)
  /\ Len(ring) <= Txd
  /\ free \in Nat /\ aring \in 0 .. AudioTxd /\ pool \in Nat
  /\ txpc \in {"idle", "send", "drain"} /\ apc \in {"idle", "reserve", "try"}
  /\ txpc # "drain" => txpc = "send" \/ pending = <<>>
  /\ BuffersKept

\* The buffers not in the pool.
WithAudio == IF apc = "try" THEN 1 ELSE 0
InUse == ((Len(pending) + Len(ring)) + aring) + WithAudio
-----------------------------------------------------------------------------
LEMMA Constants ==
  /\ Batch \in Nat /\ Batch > 0 /\ Txd \in Nat /\ AudioTxd \in Nat /\ Pools \subseteq Nat
BY WireAssumption

LEMMA InitBuffers == Init => BufferInv
<1> SUFFICES ASSUME Init PROVE BufferInv
  OBVIOUS
<1>1. QueuesOf({}) /\ Len(pending) = 0 /\ Len(ring) = 0
  BY EmptySeq DEF Init, QueuesOf
<1>2. pool \in Nat /\ free = pool /\ aring = 0 /\ apc = "idle" /\ txpc = "idle" /\ ~died
      /\ pending = <<>>
  BY Constants DEF Init
<1>3. BuffersKept
  BY <1>1, <1>2 DEF BuffersKept
<1> QED
  BY <1>1, <1>2, <1>3, Constants DEF BufferInv

\* While a thread takes a buffer, a pool of Needed buffers is not empty.
LEMMA NeverEmpty ==
  ASSUME BufferInv, pool >= Needed, txpc = "send" \/ apc = "reserve"
  PROVE  free > 0
<1>1. PICK S : pending \in Seq(S) /\ ring \in Seq(S)
  BY DEF BufferInv, QueuesOf
<1>2. Len(pending) \in Nat /\ Len(ring) \in Nat
  BY <1>1, LenProperties
<1>3. ((Len(pending) + Len(ring)) + aring) + WithAudio < Needed
  BY <1>2, Constants DEF BufferInv, WithAudio, Needed
<1>4. free + (((Len(pending) + Len(ring)) + aring) + WithAudio) = pool
  BY <1>2 DEF BufferInv, BuffersKept, WithAudio
<1> QED
  BY <1>2, <1>3, <1>4, Constants DEF BufferInv, WithAudio, Needed

\* A step that keeps the queues of some packets, their limits and the account keeps the
\* invariant.
LEMMA StillKept ==
  ASSUME BufferInv, pool' = pool,
         \E S : QueuesOf(S)',
         Len(pending') <= Batch, txpc' = "send" => Len(pending') < Batch, Len(ring') <= Txd,
         free' \in Nat, aring' \in 0 .. AudioTxd,
         txpc' \in {"idle", "send", "drain"}, apc' \in {"idle", "reserve", "try"},
         txpc' # "drain" => txpc' = "send" \/ pending' = <<>>,
         free' + InUse' = free + InUse, died' = died
  PROVE  BufferInv'
<1>1. PICK S : pending \in Seq(S) /\ ring \in Seq(S)
  BY DEF BufferInv, QueuesOf
<1>2. PICK T : pending' \in Seq(T) /\ ring' \in Seq(T)
  BY DEF QueuesOf
<1>3. /\ Len(pending) \in Nat /\ Len(ring) \in Nat /\ Len(pending') \in Nat /\ Len(ring') \in Nat
  BY <1>1, <1>2, LenProperties
<1>4. free + InUse = pool
  BY <1>3 DEF BufferInv, BuffersKept, InUse, WithAudio
<1>5. free' + InUse' = free' + Len(pending') + Len(ring') + aring'
                         + (IF apc' = "try" THEN 1 ELSE 0)
  BY <1>3 DEF InUse, WithAudio
<1>6. BuffersKept'
  BY <1>4, <1>5 DEF BufferInv, BuffersKept, Needed
<1> QED
  BY <1>6 DEF BufferInv

LEMMA NextBuffers ==
  ASSUME BufferInv, [Next]_vars
  PROVE  BufferInv'
<1> USE DEF setupVars, txVars, audioVars, rxVars
<1>0. PICK S : pending \in Seq(S) /\ ring \in Seq(S)
  BY DEF BufferInv, QueuesOf
<1>t. /\ Len(pending) \in Nat /\ Len(ring) \in Nat /\ free \in Nat /\ pool \in Nat
      /\ Len(pending) <= Batch /\ (txpc = "send" => Len(pending) < Batch) /\ Len(ring) <= Txd
      /\ aring \in 0 .. AudioTxd /\ WithAudio \in {0, 1}
      /\ txpc \in {"idle", "send", "drain"} /\ apc \in {"idle", "reserve", "try"}
      /\ txpc # "drain" => txpc = "send" \/ pending = <<>>
  BY <1>0, LenProperties DEF BufferInv, WithAudio
<1>q. \E T : QueuesOf(T)
  BY DEF BufferInv
<1>1. CASE StartFrame
  <2>1. /\ txpc = "idle" /\ txpc' = "send"
        /\ UNCHANGED <<pool, pending, ring, free, died, apc, aring>>
    BY <1>1 DEF StartFrame
  <2>2. Len(pending) = 0
    BY <1>t, <2>1, EmptySeq
  <2>3. QueuesOf(S)' /\ InUse' = InUse
    BY <1>0, <2>1 DEF QueuesOf, InUse, WithAudio
  <2> QED
    BY <1>t, <2>1, <2>2, <2>3, Constants, StillKept
<1>2. CASE SendPacket
  <2> DEFINE e == [n |-> seq, pkt |-> Written(fmt, seq, frame, Plans[fmt][cursor], Source(frame))]
  <2>1. /\ txpc = "send" /\ free > 0 /\ free' = free - 1 /\ pending' = Append(pending, e)
        /\ \/ txpc' = "drain"
           \/ txpc' = "send" /\ Len(pending) + 1 # Batch
        /\ UNCHANGED <<pool, ring, died, apc, aring>>
    BY <1>2 DEF SendPacket
  <2> HIDE DEF e
  <2>0. PICK T : T = S \cup {e}
    OBVIOUS
  <2>2. pending \in Seq(T) /\ ring \in Seq(T) /\ e \in T
    BY <1>0, <2>0, SeqMonotonic
  <2>3. pending' \in Seq(T) /\ Len(pending') = Len(pending) + 1
    BY <2>1, <2>2, AppendProperties
  <2>4. QueuesOf(T)'
    BY <2>1, <2>2, <2>3 DEF QueuesOf
  <2>5. free' \in Nat /\ free' + InUse' = free + InUse
    BY <1>t, <2>1, <2>3 DEF InUse, WithAudio
  <2>6. Len(pending') <= Batch /\ (txpc' = "send" => Len(pending') < Batch)
    BY <1>t, <2>1, <2>3, Constants
  <2> QED
    BY <1>t, <2>1, <2>4, <2>5, <2>6, StillKept
<1>3. CASE PoolEmpty
  <2>1. /\ free = 0 /\ (txpc = "send" \/ apc = "reserve") /\ died' = TRUE
        /\ UNCHANGED <<pool, txpc, pending, ring, free, apc, aring>>
    BY <1>3 DEF PoolEmpty
  <2>2. ~(pool >= Needed)
    BY <1>t, <2>1, NeverEmpty
  <2>3. BuffersKept'
    BY <2>1, <2>2 DEF BufferInv, BuffersKept, Needed
  <2> QED
    BY <2>1, <2>3 DEF BufferInv, QueuesOf
<1>4. ASSUME NEW n \in 1 .. Batch, DrainSome(n) PROVE BufferInv'
  <2>1. /\ n \in 1 .. Len(pending) /\ Len(ring) + n <= Txd
        /\ ring' = ring \o SubSeq(pending, 1, n)
        /\ pending' = SubSeq(pending, n + 1, Len(pending)) /\ txpc' = AfterDrain(pending')
        /\ UNCHANGED <<pool, free, died, apc, aring>>
    BY <1>4 DEF DrainSome
  <2>2. /\ SubSeq(pending, 1, n) \in Seq(S) /\ Len(SubSeq(pending, 1, n)) = n
        /\ pending' \in Seq(S) /\ Len(pending') = Len(pending) - n
    <3>1. n \in Int /\ 1 <= n /\ n <= Len(pending)
      BY <1>t, <2>1
    <3>2. SubSeq(pending, 1, n) \in Seq(S) /\ Len(SubSeq(pending, 1, n)) = n
      BY <1>0, <1>t, <3>1, SubSeqProperties
    <3>3. pending' \in Seq(S) /\ Len(pending') = Len(pending) - n
      BY <1>0, <1>t, <2>1, <3>1, SubSeqProperties
    <3> QED
      BY <3>2, <3>3
  <2>3. ring' \in Seq(S) /\ Len(ring') = Len(ring) + n
    BY <1>0, <2>1, <2>2, ConcatProperties
  <2>4. QueuesOf(S)'
    BY <2>2, <2>3 DEF QueuesOf
  <2>5. free' + InUse' = free + InUse
    <3>1. /\ n \in Nat /\ Len(pending') = Len(pending) - n /\ Len(ring') = Len(ring) + n
          /\ UNCHANGED <<free, apc, aring>>
      BY <1>4, <2>1, <2>2, <2>3, Constants
    <3> HIDE <1>4, <2>1, <2>2, <2>3
    <3> QED
      BY <1>t, <3>1 DEF InUse, WithAudio
  <2>6. /\ txpc' \in {"idle", "send", "drain"} /\ (txpc' # "drain" => pending' = <<>>)
    BY <2>1 DEF AfterDrain
  <2>7. Len(pending') <= Batch /\ (pending' = <<>> => Len(pending') < Batch)
    BY <1>t, <2>1, <2>2, EmptySeq, Constants
  <2> QED
    BY <1>t, <2>1, <2>3, <2>4, <2>5, <2>6, <2>7, StillKept
<1>5. CASE DrainFull
  <2>1. UNCHANGED <<pool, ring, died, apc, aring>>
    BY <1>5 DEF DrainFull
  <2>2. CASE UNCHANGED <<pending, free, txpc>>
    BY <2>1, <2>2 DEF BufferInv, QueuesOf, BuffersKept, Needed
  <2>3. CASE free' = free + Len(pending) /\ pending' = <<>> /\ txpc' = AfterDrain(<<>>)
    <3>1. Len(pending') = 0 /\ QueuesOf(S)'
      BY <1>0, <2>1, <2>3, EmptySeq DEF QueuesOf
    <3>2. txpc' \in {"idle", "send"}
      BY <2>3 DEF AfterDrain
    <3>3. free' \in Nat /\ free' + InUse' = free + InUse
      BY <1>t, <2>1, <2>3, <3>1 DEF InUse, WithAudio
    <3> QED
      BY <1>t, <2>1, <2>3, <3>1, <3>2, <3>3, Constants, StillKept
  <2> QED
    BY <1>5, <2>2, <2>3 DEF DrainFull
<1>6. CASE AudioStart \/ AudioReserve \/ AudioTry
  <2>1. UNCHANGED <<pool, txpc, pending, ring, died>>
    BY <1>6 DEF AudioStart, AudioReserve, AudioTry
  <2>2. /\ apc' \in {"idle", "reserve", "try"} /\ free' \in Nat /\ aring' \in 0 .. AudioTxd
        /\ free' + InUse' = free + InUse
    BY <1>6, <1>t, <2>1, Constants
    DEF AudioStart, AudioReserve, AudioTry, GivenBack, InUse, WithAudio
  <2>3. QueuesOf(S)'
    BY <1>0, <2>1 DEF QueuesOf
  <2> QED
    BY <1>t, <2>1, <2>2, <2>3, StillKept
<1>7. CASE NicSend \/ NicLose
  <2>1. /\ ring # <<>> /\ ring' = Tail(ring) /\ free' = free + 1
        /\ UNCHANGED <<pool, txpc, pending, died, apc, aring>>
    BY <1>7 DEF NicSend, NicLose
  <2>2. ring' \in Seq(S) /\ Len(ring') = Len(ring) - 1
    BY <1>0, <2>1, HeadTailProperties
  <2>3. QueuesOf(S)' /\ free' \in Nat /\ free' + InUse' = free + InUse
    BY <1>0, <1>t, <2>1, <2>2 DEF QueuesOf, InUse, WithAudio
  <2>4. Len(ring') <= Txd
    BY <1>t, <2>2, Constants
  <2> QED
    BY <1>t, <2>1, <2>3, <2>4, StillKept
<1>8. CASE NicAudio
  <2>1. /\ aring > 0 /\ aring' = aring - 1 /\ free' = free + 1
        /\ UNCHANGED <<pool, txpc, pending, ring, died, apc>>
    BY <1>8 DEF NicAudio
  <2>2. /\ QueuesOf(S)' /\ free' \in Nat /\ aring' \in 0 .. AudioTxd
        /\ free' + InUse' = free + InUse
    BY <1>0, <1>t, <2>1, Constants DEF QueuesOf, InUse, WithAudio
  <2> QED
    BY <1>t, <2>1, <2>2, StillKept
<1>9. CASE UNCHANGED vars
  BY <1>9 DEF vars, BufferInv, QueuesOf, BuffersKept, Needed
<1> QED
  BY <1>1, <1>2, <1>3, <1>4, <1>5, <1>6, <1>7, <1>8, <1>9 DEF Next, Video, Audio, Drain
-----------------------------------------------------------------------------
\* Every packet buffer is in the pool, in the batch, in a queue of the NIC or with the audio
\* thread, whatever is dropped or lost; and a pool of two full queues, a batch and one audio
\* packet never runs out, so the process does not end in reserve_packet().
THEOREM SpecBuffersKept == Spec => []BuffersKept
<1>1. BufferInv => BuffersKept
  BY DEF BufferInv
<1>2. BufferInv /\ [Next]_vars => BufferInv'
  BY NextBuffers
<1> QED
  BY InitBuffers, <1>1, <1>2, PTL DEF Spec
-----------------------------------------------------------------------------
(* Sequence numbers *)

Wrap == LoMod * HiMod

LEMMA Wraps ==
  LoMod \in Nat \ {0} /\ HiMod \in Nat \ {0} /\ Wrap \in Nat \ {0}
<1>1. LoMod \in Nat \ {0} /\ HiMod \in Nat \ {0}
  BY PacketAssumption
<1>2. PICK l \in Nat \ {0}, h \in Nat \ {0} : l = LoMod /\ h = HiMod
  BY <1>1
<1>3. l * h \in Nat \ {0}
  BY SMT
<1> QED
  BY <1>1, <1>2, <1>3 DEF Wrap

\* A remainder and its quotient; and how to know a remainder.
Divided(m, x, k, r) ==
  /\ k \in Int /\ r \in 0 .. m - 1 /\ k = x \div m /\ r = x % m
  /\ x = k * m + r /\ (x >= 0 => k \in Nat)

LEMMA Remainder ==
  ASSUME NEW m \in Nat \ {0}, NEW x \in Int
  PROVE  \E k, r : Divided(m, x, k, r)
<1>1. PICK k, r : k = x \div m /\ r = x % m
  OBVIOUS
<1>2. k \in Int /\ r \in 0 .. m - 1
  BY <1>1, SMT
<1>3. x = m * k + r
  BY <1>1, SMT
<1>4. m * k = k * m
  BY <1>2
<1>5. x >= 0 => k \in Nat
  BY <1>1, SMT
<1> QED
  BY <1>1, <1>2, <1>3, <1>4, <1>5 DEF Divided

LEMMA RemainderIs ==
  ASSUME NEW m \in Nat \ {0}, NEW k \in Int, NEW r \in 0 .. m - 1, NEW x \in Int, x = k * m + r
  PROVE  x % m = r
BY SMT

\* The two halves of a sequence number.
LEMMA HalvesJoin ==
  ASSUME NEW s \in Nat
  PROVE  ((s \div LoMod) % HiMod) * LoMod + (s % LoMod) = s % Wrap
<1>1. PICK l \in Nat \ {0}, h \in Nat \ {0}, w \in Nat \ {0} :
        l = LoMod /\ h = HiMod /\ w = Wrap /\ w = l * h
  BY Wraps DEF Wrap
<1>2. PICK b, a : Divided(l, s, b, a)
  <2>1. s \in Int
    OBVIOUS
  <2> QED
    BY <2>1, Remainder, Zenon
<1>2a. b \in Nat /\ a \in 0 .. l - 1 /\ b = s \div l /\ a = s % l /\ s = b * l + a
  BY <1>2 DEF Divided
<1>3. PICK d, c : Divided(h, b, d, c)
  <2>1. b \in Int
    BY <1>2a
  <2> QED
    BY <2>1, Remainder, Zenon
<1>3a. d \in Nat /\ c \in 0 .. h - 1 /\ c = b % h /\ b = d * h + c
  BY <1>2a, <1>3 DEF Divided
<1>4. PICK r : r = c * l + a
  OBVIOUS
<1>5. c * l \in Nat /\ c * l + l <= w
  <2>1. c \in Nat /\ c < h
    BY <1>3a
  <2>2. PICK e \in Nat : h = c + 1 + e
    BY <2>1
  <2>3. w = l * (c + 1 + e)
    BY <1>1, <2>2
  <2>4. w = c * l + l + l * e
    BY <2>1, <2>3
  <2>5. l * e \in Nat /\ c * l \in Nat
    BY <2>1
  <2> QED
    BY <2>4, <2>5
<1>6. r \in 0 .. w - 1
  <2>1. PICK y \in Nat : y = c * l
    BY <1>5
  <2>2. a \in 0 .. l - 1 /\ r = y + a /\ y + l <= w
    BY <1>2a, <1>4, <1>5, <2>1
  <2> QED
    BY <2>2
<1>7. s = d * w + r
  <2>1. c \in Int /\ d \in Int /\ a \in Int
    BY <1>2a, <1>3a
  <2>2. s = (d * h + c) * l + a
    BY <1>2a, <1>3a
  <2>3. s = d * (l * h) + (c * l + a)
    BY <2>1, <2>2
  <2> QED
    BY <1>1, <1>4, <2>3
<1>8. s % w = r
  <2>1. d \in Int
    BY <1>3a
  <2> QED
    BY <1>6, <1>7, <2>1, RemainderIs
<1> QED
  BY <1>1, <1>2a, <1>3a, <1>4, <1>8

\* The gap account() sees is what is missing, if less than all numbers are.
LEMMA GapCounts ==
  ASSUME NEW a \in Nat, NEW b \in Nat, b < a, (a - b) - 1 < Wrap
  PROVE  ((a % Wrap) - ((b % Wrap) + 1)) % Wrap = (a - b) - 1
<1>1. PICK w \in Nat \ {0} : w = Wrap
  BY Wraps
<1>2. a \in Int /\ b \in Int
  OBVIOUS
<1>2a. PICK x, r : Divided(w, a, x, r)
  BY <1>2, Remainder, Zenon
<1>3. PICK y, s : Divided(w, b, y, s)
  BY <1>2, Remainder, Zenon
<1>3a. /\ r = a % w /\ r \in 0 .. w - 1 /\ x \in Int /\ a = x * w + r
       /\ s = b % w /\ s \in 0 .. w - 1 /\ y \in Int /\ b = y * w + s
  BY <1>2a, <1>3 DEF Divided
<1>4. PICK k : k = (a - b) - 1 /\ k \in 0 .. w - 1
  BY <1>1
<1>5. PICK z \in Int : z = r - (s + 1)
  <2>1. r \in Int /\ s \in Int
    BY <1>3a
  <2>2. r - (s + 1) \in Int
    BY <2>1
  <2> QED
    BY <2>2
<1>6. z = (y - x) * w + k
  <2>1. PICK u, v : u = x * w /\ v = y * w /\ u \in Int /\ v \in Int
    BY <1>3a
  <2>2. a = u + r /\ b = v + s /\ r \in Int /\ s \in Int
    BY <1>3a, <2>1
  <2>3. z = (v - u) + k
    BY <1>4, <1>5, <2>1, <2>2
  <2>4. (y - x) * w = v - u
    BY <1>3a, <2>1
  <2> QED
    BY <2>3, <2>4
<1>7. z % w = k
  <2>1. PICK q \in Int : q = y - x
    BY <1>3a
  <2>2. (q * w + k) % w = k
    BY <1>4, RemainderIs
  <2> QED
    BY <1>6, <2>1, <2>2
<1> QED
  BY <1>1, <1>3a, <1>4, <1>5, <1>7

-----------------------------------------------------------------------------
(* What the parser sees *)

LEMMA AcceptedSame ==
  ASSUME NEW f, NEW plan, NEW s, NEW ts, NEW d, NEW s1, NEW ts1, NEW d1,
         Len(Targets(f, plan.srds)) \in Nat, Accepted(f, Written(f, s1, ts1, plan, d1))
  PROVE  Accepted(f, Written(f, s, ts, plan, d))
<1>1. PICK p, r : p = Written(f, s, ts, plan, d) /\ r = Written(f, s1, ts1, plan, d1)
  OBVIOUS
<1>2. p.heads = r.heads
  BY <1>1 DEF Written
<1>3. Len(p.data) = Len(r.data)
  <2>1. PICK n \in Nat : n = Len(Targets(f, plan.srds))
    OBVIOUS
  <2>2. p.data = [x \in 1 .. n |-> d[Targets(f, plan.srds)[x]]]
    BY <1>1, <2>1 DEF Written
  <2>3. r.data = [x \in 1 .. n |-> d1[Targets(f, plan.srds)[x]]]
    BY <1>1, <2>1 DEF Written
  <2> QED
    BY <2>2, <2>3
<1>4. Parsed(p).srds = Parsed(r).srds
  BY <1>2 DEF Parsed
<1>5. Accepted(f, r)
  BY <1>1
<1> QED
  BY <1>1, <1>2, <1>3, <1>4, <1>5, Zenon DEF Accepted

LEMMA ParsedNumber ==
  ASSUME NEW f, NEW plan, NEW s \in Nat, NEW ts, NEW d
  PROVE  Parsed(Written(f, s, ts, plan, d)).seq = s % Wrap
<1>1. PICK p : p = Written(f, s, ts, plan, d)
  OBVIOUS
<1>2. p.lo = s % LoMod /\ p.hi = (s \div LoMod) % HiMod
  BY <1>1 DEF Written
<1>3. Parsed(p).seq = p.hi * LoMod + p.lo
  BY DEF Parsed
<1> QED
  BY <1>1, <1>2, <1>3, HalvesJoin

\* Wherever in a frame a packet begins, the parser accepts what the packetizer
\* writes, and the next one begins in the frame or behind it.
PlansParse ==
  \A f \in Formats :
    /\ f.height \in Nat \ {0} /\ [line |-> 0, octet |-> 0] \in Cursors(f)
    /\ \A at \in Cursors(f) : at.line < f.height =>
         /\ Len(Targets(f, Plans[f][at].srds)) \in Nat /\ Plans[f][at].at \in Cursors(f)
         /\ Accepted(f, Written(f, 0, 0, Plans[f][at], [g \in Groups(f) |-> 0]))

LEMMA PlansAreParsed == PlansParse
<1> SUFFICES ASSUME NEW f \in Formats
             PROVE  /\ f.height \in Nat \ {0} /\ [line |-> 0, octet |-> 0] \in Cursors(f)
                    /\ \A at \in Cursors(f) : at.line < f.height =>
                         /\ Len(Targets(f, Plans[f][at].srds)) \in Nat
                         /\ Plans[f][at].at \in Cursors(f)
                         /\ Accepted(f, Written(f, 0, 0, Plans[f][at], [g \in Groups(f) |-> 0]))
  BY Zenon DEF PlansParse
<1>1. IsFormat(f)
  BY PacketAssumption
<1>2. f.height \in Nat \ {0} /\ [line |-> 0, octet |-> 0] \in Cursors(f)
  BY <1>1, OriginStands DEF IsFormat, Stands, Origin
<1>3. ASSUME NEW at \in Cursors(f), at.line < f.height
      PROVE  /\ Len(Targets(f, Plans[f][at].srds)) \in Nat
             /\ Plans[f][at].at \in Cursors(f)
             /\ Accepted(f, Written(f, 0, 0, Plans[f][at], [g \in Groups(f) |-> 0]))
  <2>1. PICK plan : plan = Plans[f][at]
    OBVIOUS
  <2>2. Making(f, at, plan) /\ Len(plan.srds) \in 1 .. MaxSrd
    BY <1>3, <2>1, PlansAre
  <2>3. PICK a, b : a = Pos(f, at) /\ b = Pos(f, plan.at) /\ Carries(f, plan.srds, a, b)
    BY <2>2 DEF Making
  <2>4. PICK d : d = [g \in Groups(f) |-> 0]
    OBVIOUS
  <2>5. ParsesTo(f, Written(f, 0, 0, plan, d), plan.srds, 0, plan.at.line >= f.height, a, b)
    BY <1>1, <2>2, <2>3, WrittenParses, Zenon
  <2>6. Accepted(f, Written(f, 0, 0, plan, d)) /\ Len(Targets(f, plan.srds)) = b - a
    BY <2>5 DEF ParsesTo
  <2>7. b - a \in Nat
    BY <2>3 DEF Carries
  <2>8. plan.at \in Cursors(f)
    BY <2>2 DEF Making, Stands
  <2> QED
    BY <2>1, <2>4, <2>6, <2>7, <2>8, Zenon
<1> QED
  BY <1>2, <1>3

-----------------------------------------------------------------------------
(* What is on its way *)

\* What is on its way to the receiver, in order.
Way == ring \o pending

LEMMA WayIs ==
  ASSUME NEW S, QueuesOf(S)
  PROVE  /\ Way \in Seq(S) /\ Len(Way) \in Nat /\ Len(ring) \in Nat /\ Len(pending) \in Nat
         /\ Len(Way) = Len(ring) + Len(pending)
         /\ \A k \in 1 .. Len(ring) : Way[k] = ring[k]
         /\ \A k \in 1 .. Len(pending) : Way[Len(ring) + k] = pending[k]
<1>1. ring \in Seq(S) /\ pending \in Seq(S)
  BY DEF QueuesOf
<1>2. Len(ring) \in Nat /\ Len(pending) \in Nat
  BY <1>1, LenProperties
<1>3. /\ Way \in Seq(S) /\ Len(Way) = Len(ring) + Len(pending)
      /\ \A k \in 1 .. Len(ring) + Len(pending) :
           Way[k] = IF k <= Len(ring) THEN ring[k] ELSE pending[k - Len(ring)]
  BY <1>1, ConcatProperties DEF Way
<1>4. PICK a \in Nat, b \in Nat : a = Len(ring) /\ b = Len(pending)
  BY <1>2
<1>5. \A k \in 1 .. a : Way[k] = ring[k]
  BY <1>3, <1>4
<1>6. \A k \in 1 .. b : Way[a + k] = pending[k]
  <2>1. TAKE k \in 1 .. b
  <2>2. a + k \in 1 .. a + b /\ ~(a + k <= a) /\ (a + k) - a = k
    BY <1>4
  <2> QED
    BY <1>3, <1>4, <2>2
<1> QED
  BY <1>2, <1>3, <1>4, <1>5, <1>6

\* One more packet on its way.
Longer(w, e) ==
  /\ Len(Way) \in Nat /\ Len(w) = Len(Way) + 1 /\ w[Len(Way) + 1] = e
  /\ \A k \in 1 .. Len(Way) : w[k] = Way[k]

LEMMA WayLonger ==
  ASSUME NEW S, QueuesOf(S), NEW e, pending' = Append(pending, e), UNCHANGED ring
  PROVE  Longer(Way', e)
<1>1. PICK T : T = S \cup {e}
  OBVIOUS
<1>2. ring \in Seq(T) /\ pending \in Seq(T) /\ e \in T
  BY <1>1, SeqMonotonic DEF QueuesOf
<1>3. <<e>> \in Seq(T)
  BY <1>2
<1>4. Append(pending, e) = pending \o <<e>> /\ Way \in Seq(T)
  BY <1>2, AppendIsConcat, ConcatProperties DEF Way
<1>5. ring \o (pending \o <<e>>) = (ring \o pending) \o <<e>>
  BY <1>2, <1>3, ConcatAssociative
<1>6. Way' = Append(Way, e)
  <2>1. Append(Way, e) = Way \o <<e>>
    BY <1>2, <1>4, AppendIsConcat
  <2> QED
    BY <1>4, <1>5, <2>1 DEF Way
<1>7. /\ Len(Append(Way, e)) = Len(Way) + 1
      /\ \A k \in 1 .. Len(Way) : Append(Way, e)[k] = Way[k]
      /\ Append(Way, e)[Len(Way) + 1] = e
  BY <1>2, <1>4, AppendProperties
<1>8. Len(Way) \in Nat
  BY <1>4, LenProperties
<1> QED
  BY <1>6, <1>7, <1>8 DEF Longer

\* The oldest packet leaves: the others are one nearer.
LEMMA WayShorter ==
  ASSUME NEW S, QueuesOf(S), ring # <<>>, ring' = Tail(ring), UNCHANGED pending
  PROVE  \E m, w : /\ m \in Nat /\ w = Way' /\ Len(Way) = m + 1 /\ Len(w) = m
                   /\ \A k \in 1 .. m : w[k] = Way[k + 1]
                   /\ Head(ring) = Way[1] /\ 1 \in 1 .. m + 1
<1>1. ring \in Seq(S) /\ pending \in Seq(S)
  BY DEF QueuesOf
<1>2. /\ Len(ring) \in Nat \ {0} /\ Len(pending) \in Nat /\ Len(Tail(ring)) = Len(ring) - 1
      /\ Tail(ring) \in Seq(S)
      /\ \A k \in 1 .. Len(ring) - 1 : Tail(ring)[k] = ring[k + 1]
  BY <1>1, EmptySeq, LenProperties, HeadTailProperties
<1>3. Head(ring) = ring[1]
  BY <1>1
<1>4. PICK a \in Nat, b \in Nat : Len(ring) = a + 1 /\ Len(pending) = b
  <2>1. PICK c \in Nat \ {0} : c = Len(ring)
    BY <1>2
  <2>2. c - 1 \in Nat /\ c = (c - 1) + 1
    BY <2>1
  <2> QED
    BY <1>2, <2>1, <2>2
<1>5. Len(Tail(ring)) = a
  BY <1>2, <1>4
<1>6. /\ Len(Way) = (a + 1) + b
      /\ \A k \in 1 .. (a + 1) + b : Way[k] = IF k <= a + 1 THEN ring[k] ELSE pending[k - (a + 1)]
  <2>1. /\ Len(Way) = Len(ring) + Len(pending)
        /\ \A k \in 1 .. Len(ring) + Len(pending) :
             Way[k] = IF k <= Len(ring) THEN ring[k] ELSE pending[k - Len(ring)]
    BY <1>1, ConcatProperties DEF Way
  <2> QED
    BY <1>4, <2>1, Zenon
<1>7. PICK w : w = Tail(ring) \o pending
  OBVIOUS
<1>8. /\ Len(w) = a + b
      /\ \A k \in 1 .. a + b : w[k] = IF k <= a THEN Tail(ring)[k] ELSE pending[k - a]
  BY <1>1, <1>2, <1>4, <1>5, <1>7, ConcatProperties
<1>9. \A k \in 1 .. a + b : w[k] = Way[k + 1]
  <2>1. TAKE k \in 1 .. a + b
  <2>2. k + 1 \in 1 .. (a + 1) + b /\ (k + 1) - (a + 1) = k - a
    BY <1>4
  <2>3. CASE k <= a
    <3>1. k \in 1 .. (a + 1) - 1 /\ k + 1 <= a + 1
      BY <1>4, <2>3
    <3>2. w[k] = ring[k + 1]
      BY <1>2, <1>4, <1>8, <2>3, <3>1
    <3> QED
      BY <1>6, <2>2, <3>1, <3>2
  <2>4. CASE ~(k <= a)
    <3>1. ~(k + 1 <= a + 1)
      BY <1>4, <2>4
    <3> QED
      BY <1>6, <1>8, <2>2, <2>4, <3>1
  <2> QED
    BY <2>3, <2>4
<1>10. Head(ring) = Way[1] /\ 1 \in 1 .. (a + b) + 1
  <2>1. 1 \in 1 .. (a + 1) + b /\ 1 <= a + 1 /\ 1 \in 1 .. (a + b) + 1
    BY <1>4
  <2> QED
    BY <1>3, <1>6, <2>1
<1>11. PICK m : m = a + b /\ m \in Nat /\ m + 1 = (a + 1) + b
  BY <1>4
<1>12. w = Way'
  BY <1>7 DEF Way
<1> QED
  BY <1>6, <1>8, <1>9, <1>10, <1>11, <1>12

\* The batch moves to the queue: the packets on their way are the same.
LEMMA DrainedWay ==
  ASSUME NEW S, QueuesOf(S), NEW n \in 1 .. Batch, DrainSome(n)
  PROVE  Way' = Way
<1>1. /\ n \in 1 .. Len(pending) /\ ring' = ring \o SubSeq(pending, 1, n)
      /\ pending' = SubSeq(pending, n + 1, Len(pending))
  BY DEF DrainSome
<1>2. ring \in Seq(S) /\ pending \in Seq(S) /\ Len(pending) \in Nat
  BY LenProperties DEF QueuesOf
<1>3. PICK a, b : a = SubSeq(pending, 1, n) /\ b = SubSeq(pending, n + 1, Len(pending))
  OBVIOUS
<1>4. a \in Seq(S) /\ b \in Seq(S)
  BY <1>1, <1>2, <1>3, SubSeqProperties
<1>5. a \o b = pending
  <2>1. /\ 1 \in 1 .. Len(pending) + 1 /\ n \in 1 - 1 .. Len(pending)
        /\ Len(pending) \in n .. Len(pending)
    BY <1>1, <1>2
  <2>2. SubSeq(pending, 1, n) \o SubSeq(pending, n + 1, Len(pending))
          = SubSeq(pending, 1, Len(pending))
    BY <1>2, <2>1, ConcatAdjacentSubSeq
  <2> QED
    BY <1>2, <1>3, <2>2, SubSeqFull
<1>6. (ring \o a) \o b = ring \o (a \o b)
  BY <1>2, <1>4, ConcatAssociative
<1> QED
  BY <1>1, <1>3, <1>5, <1>6 DEF Way

\* The batch is given up: what is in the queue is still on its way.
Cut(w) ==
  /\ Len(ring) \in Nat /\ Len(pending) \in Nat /\ Len(Way) = Len(ring) + Len(pending)
  /\ Len(w) = Len(ring) /\ \A k \in 1 .. Len(ring) : w[k] = Way[k]

LEMMA WayCut ==
  ASSUME NEW S, QueuesOf(S), pending' = <<>>, UNCHANGED ring
  PROVE  Cut(Way')
<1>1. /\ Len(ring) \in Nat /\ Len(pending) \in Nat /\ Len(Way) = Len(ring) + Len(pending)
      /\ \A k \in 1 .. Len(ring) : Way[k] = ring[k]
  BY WayIs
<1>2. Way' = ring
  <2>1. ring \in Seq(S)
    BY DEF QueuesOf
  <2>2. ring \o <<>> = ring
    BY <2>1, ConcatEmptySeq
  <2> QED
    BY <2>2 DEF Way
<1> QED
  BY <1>1, <1>2 DEF Cut

-----------------------------------------------------------------------------
(* What was lost *)

\* A packet that parses, to its own number.
Good(f, e) == e.n \in Nat /\ Accepted(f, e.pkt) /\ Parsed(e.pkt).seq = e.n % Wrap

\* The walk of a frame that is not finished stands within it.
Walking ==
  /\ fmt \in Formats /\ seq \in Nat
  /\ active => cursor \in Cursors(fmt) /\ cursor.line < fmt.height

\* The first and the last packet received.
Ends ==
  /\ seen[1] \in Int /\ seen[2] \in Int /\ -1 <= seen[1] /\ seen[1] <= seen[2] /\ seen[2] < seq
  /\ (seen[1] = -1) <=> (seen[2] = -1)
  /\ last = IF seen[2] = -1 THEN -1 ELSE seen[2] % Wrap

Dropped == seen[2] \notin gone /\ \A n \in gone : n \in Nat /\ n < seq

OnWay ==
  \A k \in 1 .. Len(Way) : /\ Good(fmt, Way[k]) /\ Way[k].n \notin gone
                           /\ seen[2] < Way[k].n /\ Way[k].n < seq

InOrder == \A j \in 1 .. Len(Way) : \A k \in 1 .. Len(Way) : j < k => Way[j].n < Way[k].n

\* What was sent after the last packet received is on its way, or was dropped.
Accounted ==
  \A x \in 0 .. seq - 1 : seen[2] < x => x \in gone \/ \E k \in 1 .. Len(Way) : Way[k].n = x

Missed == {n \in gone : seen[1] < n /\ n < seen[2]}
Half == Wrap \div 2
Bridged == \A n \in gone : \E k \in 1 .. Half - 1 : n + k \notin gone
Counted == lost \in Nat /\ (Bridged => lost = Cardinality(Missed))

LossInv == Walking /\ Ends /\ Dropped /\ OnWay /\ InOrder /\ Accounted /\ Counted

\* A step that leaves the packets, the numbers and the receiver alone.
LEMMA LossSame ==
  ASSUME LossInv, Way' = Way, UNCHANGED <<fmt, seq, seen, last, lost, gone>>,
         active' => cursor' \in Cursors(fmt) /\ cursor'.line < fmt.height
  PROVE  LossInv'
<1>1. Walking' /\ Ends' /\ Dropped' /\ Counted'
  BY DEF LossInv, Walking, Ends, Dropped, Counted, Bridged, Missed
<1>2. OnWay' /\ InOrder' /\ Accounted'
  BY DEF LossInv, OnWay, InOrder, Accounted, Good
<1> QED
  BY <1>1, <1>2 DEF LossInv

LEMMA LossPacket ==
  ASSUME LossInv, NEW S, QueuesOf(S), SendPacket
  PROVE  LossInv'
<1> DEFINE plan == Plans[fmt][cursor]
           p == Written(fmt, seq, frame, plan, Source(frame))
           e == [n |-> seq, pkt |-> p]
<1>1. /\ active /\ pending' = Append(pending, e) /\ seq' = seq + 1 /\ cursor' = plan.at
      /\ active' = ~p.marker
      /\ UNCHANGED <<fmt, ring, lost, last, seen, gone>>
  BY DEF SendPacket, setupVars, rxVars
<1>2. /\ fmt \in Formats /\ seq \in Nat /\ cursor \in Cursors(fmt) /\ cursor.line < fmt.height
  BY <1>1 DEF LossInv, Walking
<1>3. /\ Len(Targets(fmt, plan.srds)) \in Nat /\ plan.at \in Cursors(fmt)
      /\ fmt.height \in Nat \ {0}
      /\ Accepted(fmt, Written(fmt, 0, 0, plan, [g \in Groups(fmt) |-> 0]))
  BY <1>2, PlansAreParsed, Zenon DEF PlansParse
<1>4. Accepted(fmt, p) /\ Parsed(p).seq = seq % Wrap
  <2> HIDE DEF plan
  <2>1. Accepted(fmt, Written(fmt, seq, frame, plan, Source(frame)))
    BY <1>3, AcceptedSame, Zenon
  <2>2. Parsed(Written(fmt, seq, frame, plan, Source(frame))).seq = seq % Wrap
    BY <1>2, ParsedNumber, Zenon
  <2> QED
    BY <2>1, <2>2
<1>5. p.marker <=> plan.at.line >= fmt.height
  BY DEF Written
<1>6. Walking'
  <2>1. active' => cursor' \in Cursors(fmt) /\ cursor'.line < fmt.height
    <3>1. plan.at.line \in Int /\ fmt.height \in Int
      BY <1>3 DEF Cursors
    <3>2. ~(plan.at.line >= fmt.height) => plan.at.line < fmt.height
      BY <3>1
    <3> QED
      BY <1>1, <1>3, <1>5, <3>2, Zenon
  <2> QED
    BY <1>1, <1>2, <2>1 DEF Walking
<1>7. e.n = seq /\ e.pkt = p
  OBVIOUS
<1> HIDE DEF e, p, plan
<1>8. PICK w, m : /\ m \in Nat /\ w = Way' /\ Len(Way) = m /\ Len(w) = m + 1
                  /\ \A k \in 1 .. m : w[k] = Way[k]
                  /\ w[m + 1] = e
  <2>1. Longer(Way', e)
    BY <1>1, WayLonger
  <2> QED
    BY <2>1 DEF Longer
<1>9. Good(fmt, e)
  BY <1>2, <1>4, <1>7 DEF Good
<1>10. /\ seen[2] \in Int /\ seen[2] < seq
       /\ \A n \in gone : n \in Nat /\ n < seq
  BY DEF LossInv, Ends, Dropped
<1>11. OnWay'
  <2>1. ASSUME NEW k \in 1 .. m + 1
        PROVE  /\ Good(fmt, w[k]) /\ w[k].n \notin gone
               /\ seen[2] < w[k].n /\ w[k].n < seq + 1
    <3>1. CASE k = m + 1
      <4>1. w[k] = e
        BY <1>8, <3>1
      <4>2. seq \notin gone /\ seen[2] < seq /\ seq < seq + 1
        BY <1>2, <1>10
      <4> QED
        BY <1>7, <1>9, <4>1, <4>2
    <3>2. CASE k \in 1 .. m
      <4>1. w[k] = Way[k]
        BY <1>8, <3>2
      <4>2. Good(fmt, Way[k]) /\ Way[k].n \notin gone /\ seen[2] < Way[k].n /\ Way[k].n < seq
        BY <1>8, <3>2 DEF LossInv, OnWay
      <4>3. Way[k].n \in Nat
        BY <4>2 DEF Good
      <4>4. Way[k].n < seq + 1
        BY <1>2, <4>2, <4>3
      <4> QED
        BY <4>1, <4>2, <4>3, <4>4
    <3> QED
      BY <1>8, <3>1, <3>2
  <2> QED
    BY <1>1, <1>8, <2>1 DEF OnWay
<1>12. InOrder'
  <2>1. ASSUME NEW j \in 1 .. m + 1, NEW k \in 1 .. m + 1, j < k
        PROVE  w[j].n < w[k].n
    <3>1. j \in 1 .. m /\ w[j] = Way[j]
      BY <1>8, <2>1
    <3>2. Way[j].n < seq
      BY <1>8, <3>1 DEF LossInv, OnWay
    <3>3. CASE k = m + 1
      BY <1>7, <1>8, <3>1, <3>2, <3>3
    <3>4. CASE k \in 1 .. m
      <4>1. Way[j].n < Way[k].n /\ w[k] = Way[k]
        BY <1>8, <2>1, <3>1, <3>4 DEF LossInv, InOrder
      <4> QED
        BY <3>1, <4>1
    <3> QED
      BY <1>8, <3>3, <3>4
  <2> QED
    BY <1>8, <2>1 DEF InOrder
<1>13. Accounted'
  <2>1. ASSUME NEW x \in 0 .. (seq + 1) - 1, seen[2] < x, x \notin gone
        PROVE  \E k \in 1 .. m + 1 : w[k].n = x
    <3>1. CASE x = seq
      BY <1>7, <1>8, <3>1
    <3>2. CASE x # seq
      <4>1. x \in 0 .. seq - 1
        BY <1>2, <3>2
      <4>2. PICK k \in 1 .. m : Way[k].n = x
        BY <1>8, <2>1, <4>1 DEF LossInv, Accounted
      <4>3. k \in 1 .. m + 1 /\ w[k].n = x
        BY <1>8, <4>2
      <4> QED
        BY <4>3
    <3> QED
      BY <3>1, <3>2
  <2> QED
    BY <1>1, <1>8, <2>1 DEF Accounted
<1>14. Ends' /\ Dropped' /\ Counted'
  <2>1. \A n \in gone : n < seq + 1
    BY <1>2, <1>10
  <2>2. Ends'
    BY <1>1, <1>2, <1>10 DEF LossInv, Ends
  <2>3. Dropped'
    BY <1>1, <1>10, <2>1 DEF LossInv, Dropped
  <2>4. Counted'
    BY <1>1 DEF LossInv, Counted, Bridged, Missed
  <2> QED
    BY <2>2, <2>3, <2>4
<1> QED
  BY <1>6, <1>11, <1>12, <1>13, <1>14 DEF LossInv

\* Packets dropped behind all that was received do not change the count.
LEMMA CountKept ==
  ASSUME LossInv, UNCHANGED <<lost, seen>>, gone \subseteq gone',
         \A n \in gone' : n \notin gone => n \in Nat /\ seen[2] < n
  PROVE  Counted'
<1>1. lost \in Nat /\ (Bridged => lost = Cardinality(Missed)) /\ seen[2] \in Int
  BY DEF LossInv, Counted, Ends
<1>2. Bridged' => Bridged
  BY DEF Bridged
<1>3. \A n \in gone' : (seen[1] < n /\ n < seen[2]) => n \in gone
  BY <1>1
<1>4. Missed' = Missed
  BY <1>3, Zenon DEF Missed
<1> QED
  BY <1>1, <1>2, <1>4 DEF Counted

\* The batch is given up: what was in it is dropped.
LEMMA LossGivenUp ==
  ASSUME LossInv, NEW S, QueuesOf(S), pending' = <<>>,
         gone' = gone \cup {pending[k].n : k \in DOMAIN pending},
         UNCHANGED <<fmt, seq, cursor, active, ring, lost, last, seen>>
  PROVE  LossInv'
<1>1. PICK a, b : /\ a = Len(ring) /\ b = Len(pending) /\ a \in Nat /\ b \in Nat
                  /\ Len(Way) = a + b
                  /\ \A k \in 1 .. a : Way[k] = ring[k]
                  /\ \A k \in 1 .. b : Way[a + k] = pending[k]
  BY WayIs
<1>2. PICK w : /\ w = Way' /\ Len(w) = a
               /\ \A k \in 1 .. a : w[k] = Way[k]
  <2>1. Cut(Way')
    BY WayCut
  <2> QED
    BY <1>1, <2>1 DEF Cut
<1>3. DOMAIN pending = 1 .. b
  <2>1. pending \in Seq(S)
    BY DEF QueuesOf
  <2> QED
    BY <1>1, <2>1, LenProperties
<1>4. \A k \in 1 .. b : a + k \in 1 .. a + b /\ pending[k] = Way[a + k]
  <2>1. a \in Nat /\ b \in Nat
    BY <1>1
  <2>2. \A k \in 1 .. b : a + k \in 1 .. a + b
    BY <2>1
  <2> QED
    BY <1>1, <2>2, Zenon
<1>5. \A x : x \in gone' <=> x \in gone \/ \E k \in 1 .. b : x = Way[a + k].n
  BY <1>3, <1>4
<1>6. \A k \in 1 .. a + b : /\ Good(fmt, Way[k]) /\ Way[k].n \notin gone
                            /\ seen[2] < Way[k].n /\ Way[k].n < seq /\ Way[k].n \in Nat
  BY <1>1 DEF LossInv, OnWay, Good
<1>7. \A j \in 1 .. a + b : \A k \in 1 .. a + b : j < k => Way[j].n < Way[k].n
  BY <1>1 DEF LossInv, InOrder
<1>8. seen[2] \in Int /\ seen[2] \notin gone /\ \A n \in gone : n \in Nat /\ n < seq
  BY DEF LossInv, Ends, Dropped
<1>9. Counted'
  <2>1. ASSUME NEW n \in gone', n \notin gone PROVE n \in Nat /\ seen[2] < n
    <3>1. PICK k \in 1 .. b : n = Way[a + k].n
      BY <1>5, <2>1
    <3> QED
      BY <1>4, <1>6, <3>1
  <2> QED
    BY <2>1, CountKept
<1>10. Dropped'
  <2>1. \A k \in 1 .. b : /\ Way[a + k].n \in Nat /\ Way[a + k].n < seq
                          /\ seen[2] < Way[a + k].n
    BY <1>4, <1>6
  <2>2. \A k \in 1 .. b : seen[2] # Way[a + k].n
    BY <1>8, <2>1
  <2>3. seen[2] \notin gone'
    BY <1>5, <1>8, <2>2, Zenon
  <2>4. ASSUME NEW n \in gone' PROVE n \in Nat /\ n < seq
    <3>1. CASE n \in gone
      BY <1>8, <3>1
    <3>2. CASE \E k \in 1 .. b : n = Way[a + k].n
      BY <2>1, <3>2
    <3> QED
      BY <1>5, <2>4, <3>1, <3>2, Zenon
  <2> QED
    BY <1>1, <2>3, <2>4 DEF Dropped
<1>11. OnWay'
  <2>1. ASSUME NEW k \in 1 .. a
        PROVE  /\ Good(fmt, w[k]) /\ w[k].n \notin gone'
               /\ seen[2] < w[k].n /\ w[k].n < seq
    <3>1. w[k] = Way[k] /\ k \in 1 .. a + b
      BY <1>1, <1>2
    <3>2. /\ Good(fmt, Way[k]) /\ Way[k].n \notin gone /\ Way[k].n \in Nat
          /\ seen[2] < Way[k].n /\ Way[k].n < seq
      BY <1>6, <3>1
    <3>3. ASSUME NEW j \in 1 .. b PROVE Way[k].n # Way[a + j].n
      <4>1. a + j \in 1 .. a + b /\ k < a + j
        BY <1>1
      <4>2. Way[k].n < Way[a + j].n
        BY <1>7, <3>1, <4>1
      <4> QED
        BY <3>2, <4>2
    <3>4. Way[k].n \notin gone'
      BY <1>5, <3>2, <3>3
    <3> QED
      BY <3>1, <3>2, <3>4
  <2> QED
    BY <1>2, <2>1 DEF OnWay
<1>12. InOrder'
  <2>1. \A j \in 1 .. a : \A k \in 1 .. a : j < k => w[j].n < w[k].n
    BY <1>1, <1>2, <1>7
  <2> QED
    BY <1>2, <2>1 DEF InOrder
<1>13. Accounted'
  <2>1. ASSUME NEW x \in 0 .. seq - 1, seen[2] < x, x \notin gone'
        PROVE  \E k \in 1 .. a : w[k].n = x
    <3>1. x \notin gone
      BY <1>5, <2>1
    <3>2. PICK k \in 1 .. a + b : Way[k].n = x
      BY <1>1, <2>1, <3>1 DEF LossInv, Accounted
    <3>3. CASE k \in 1 .. a
      BY <1>2, <3>2, <3>3
    <3>4. CASE k \notin 1 .. a
      <4>1. k - a \in 1 .. b /\ a + (k - a) = k
        BY <1>1, <3>4
      <4>2. x \in gone'
        BY <1>5, <3>2, <4>1
      <4> QED
        BY <2>1, <4>2
    <3> QED
      BY <3>3, <3>4
  <2> QED
    BY <1>2, <2>1 DEF Accounted
<1> QED
  BY <1>9, <1>10, <1>11, <1>12, <1>13 DEF LossInv, Walking, Ends

\* The network loses the oldest packet.
LEMMA LossLost ==
  ASSUME LossInv, NEW S, QueuesOf(S), ring # <<>>, ring' = Tail(ring), UNCHANGED pending,
         gone' = gone \cup {Head(ring).n},
         UNCHANGED <<fmt, seq, cursor, active, lost, last, seen>>
  PROVE  LossInv'
<1>1. PICK m, w : /\ m \in Nat /\ w = Way' /\ Len(Way) = m + 1 /\ Len(w) = m
                  /\ \A k \in 1 .. m : w[k] = Way[k + 1]
                  /\ Head(ring) = Way[1] /\ 1 \in 1 .. m + 1
  BY WayShorter, Zenon
<1>2. PICK h : h = Way[1].n
  OBVIOUS
<1>3. \A x : x \in gone' <=> x \in gone \/ x = h
  BY <1>1, <1>2
<1>4. \A k \in 1 .. m + 1 : /\ Good(fmt, Way[k]) /\ Way[k].n \notin gone
                            /\ seen[2] < Way[k].n /\ Way[k].n < seq /\ Way[k].n \in Nat
  BY <1>1 DEF LossInv, OnWay, Good
<1>5. h \in Nat /\ h < seq /\ seen[2] < h
  BY <1>1, <1>2, <1>4
<1>6. /\ seen[2] \in Int /\ seen[2] \notin gone
      /\ \A n \in gone : n \in Nat /\ n < seq
  BY DEF LossInv, Ends, Dropped
<1>7. Counted'
  BY <1>3, <1>5, CountKept
<1>8. Dropped'
  BY <1>3, <1>5, <1>6 DEF Dropped
<1>9. \A k \in 1 .. m : k + 1 \in 1 .. m + 1 /\ 1 < k + 1
  BY <1>1
<1>10. \A k \in 1 .. m : h < Way[k + 1].n
  BY <1>1, <1>2, <1>9 DEF LossInv, InOrder
<1>11. OnWay'
  <2>1. ASSUME NEW k \in 1 .. m
        PROVE  /\ Good(fmt, w[k]) /\ w[k].n \notin gone'
               /\ seen[2] < w[k].n /\ w[k].n < seq
    <3>1. w[k] = Way[k + 1]
      BY <1>1
    <3>2. /\ Good(fmt, w[k]) /\ w[k].n \notin gone /\ w[k].n \in Nat
          /\ seen[2] < w[k].n /\ w[k].n < seq
      BY <1>4, <1>9, <3>1
    <3>3. w[k].n # h
      BY <1>5, <1>10, <3>1, <3>2
    <3> QED
      BY <1>3, <3>2, <3>3
  <2> QED
    BY <1>1, <2>1 DEF OnWay
<1>12. InOrder'
  <2>1. ASSUME NEW j \in 1 .. m, NEW k \in 1 .. m, j < k PROVE w[j].n < w[k].n
    <3>1. j + 1 < k + 1
      BY <1>1, <2>1
    <3> QED
      BY <1>1, <1>9, <3>1 DEF LossInv, InOrder
  <2> QED
    BY <1>1, <2>1 DEF InOrder
<1>13. Accounted'
  <2>1. ASSUME NEW x \in 0 .. seq - 1, seen[2] < x, x \notin gone'
        PROVE  \E k \in 1 .. m : w[k].n = x
    <3>1. PICK k \in 1 .. m + 1 : Way[k].n = x
      BY <1>1, <1>3, <2>1 DEF LossInv, Accounted
    <3>2. k # 1
      BY <1>2, <1>3, <2>1, <3>1
    <3>3. k - 1 \in 1 .. m /\ (k - 1) + 1 = k
      BY <1>1, <3>2
    <3> QED
      BY <1>1, <3>1, <3>3
  <2> QED
    BY <1>1, <2>1 DEF Accounted
<1> QED
  BY <1>7, <1>8, <1>11, <1>12, <1>13 DEF LossInv, Walking, Ends

LEMMA GoneFinite ==
  ASSUME NEW s \in Nat, NEW g, \A n \in g : n \in Nat /\ n < s
  PROVE  IsFiniteSet(g)
<1>1. g \subseteq 0 .. s - 1
  OBVIOUS
<1>2. IsFiniteSet(0 .. s - 1)
  BY FS_Interval
<1> QED
  BY <1>1, <1>2, FS_Subset

\* What the receiver misses grows by the gap.
Grown(g, a, b, c) ==
  Cardinality({n \in g : a < n /\ n < c})
    = Cardinality({n \in g : a < n /\ n < b}) + ((c - b) - 1)

LEMMA MissedGrows ==
  ASSUME NEW s \in Nat, NEW g, \A n \in g : n \in Nat /\ n < s,
         NEW a \in Int, NEW b \in Int, NEW c \in Nat, a <= b, b < c, b \notin g,
         \A x \in b + 1 .. c - 1 : x \in g
  PROVE  Grown(g, a, b, c)
<1>1. PICK A, B, G : /\ A = {n \in g : a < n /\ n < b} /\ B = {n \in g : a < n /\ n < c}
                     /\ G = b + 1 .. c - 1
  OBVIOUS
<1>2. IsFiniteSet(A)
  <2>1. IsFiniteSet(g) /\ A \subseteq g
    BY <1>1, GoneFinite
  <2> QED
    BY <2>1, FS_Subset
<1>3. IsFiniteSet(G) /\ Cardinality(G) = (c - b) - 1
  <2>1. b + 1 \in Int /\ c - 1 \in Int /\ (b + 1 > c - 1 => (c - b) - 1 = 0)
        /\ ((c - 1) - (b + 1)) + 1 = (c - b) - 1
    OBVIOUS
  <2>2. /\ IsFiniteSet(G)
        /\ Cardinality(G) = IF b + 1 > c - 1 THEN 0 ELSE ((c - 1) - (b + 1)) + 1
    BY <1>1, <2>1, FS_Interval
  <2> QED
    BY <2>1, <2>2
<1>4. B = A \cup G
  <2>1. \A n \in g : n \in Int /\ n # b
    OBVIOUS
  <2>2. \A n \in g : (a < n /\ n < c) <=> ((a < n /\ n < b) \/ (b < n /\ n < c))
    BY <2>1
  <2>3. \A n : n \in G <=> n \in Int /\ b < n /\ n < c
    BY <1>1
  <2>4. \A n : n \in G => n \in g
    BY <1>1
  <2>5. \A n : n \in B <=> n \in A \/ n \in G
    BY <1>1, <2>1, <2>2, <2>3, <2>4, Zenon
  <2> QED
    BY <2>5
<1>5. A \cap G = {}
  BY <1>1
<1>6. Cardinality(A) \in Nat
  BY <1>2, FS_CardinalityType
<1>7. Cardinality(A \cup G) = Cardinality(A) + (Cardinality(G) - Cardinality(A \cap G))
  BY <1>2, <1>3, FS_Union, Zenon
<1>8. Cardinality({}) = 0
  BY FS_EmptySet
<1>9. Cardinality(B) = Cardinality(A) + ((c - b) - 1)
  <2>1. Cardinality(B) = Cardinality(A) + (Cardinality(G) - 0)
    BY <1>4, <1>5, <1>7, <1>8, Zenon
  <2>2. PICK x, y : x = Cardinality(A) /\ y = Cardinality(G) /\ x \in Nat /\ y = (c - b) - 1
    BY <1>3, <1>6
  <2>3. x + (y - 0) = x + ((c - b) - 1)
    BY <2>2
  <2> QED
    BY <2>1, <2>2, <2>3, Zenon
<1> QED
  BY <1>1, <1>9, Zenon DEF Grown

\* What was sent between the last packet received and the oldest on its way was dropped.
LEMMA BeforeHead ==
  ASSUME LossInv, Len(Way) \in Nat, Len(Way) # 0
  PROVE  /\ Way[1].n \in Nat /\ Way[1].n < seq /\ seen[2] < Way[1].n /\ Way[1].n \notin gone
         /\ seen[2] \in Int /\ -1 <= seen[2]
         /\ \A x \in seen[2] + 1 .. Way[1].n - 1 : x \in gone
<1>1. PICK m \in Nat : m = Len(Way) /\ 1 \in 1 .. m
  OBVIOUS
<1>2. PICK h : h = Way[1].n
  OBVIOUS
<1>3. h \in Nat /\ h < seq /\ seen[2] < h /\ h \notin gone
  BY <1>1, <1>2 DEF LossInv, OnWay, Good
<1>4. seen[2] \in Int /\ -1 <= seen[2] /\ seq \in Nat
  BY DEF LossInv, Ends, Walking
<1>5. ASSUME NEW x \in seen[2] + 1 .. h - 1 PROVE x \in gone
  <2>1. x \in 0 .. seq - 1 /\ seen[2] < x /\ x < h
    BY <1>3, <1>4
  <2>2. SUFFICES ASSUME NEW k \in 1 .. m, Way[k].n = x PROVE FALSE
    BY <1>1, <2>1 DEF LossInv, Accounted
  <2>3. CASE k = 1
    BY <1>2, <1>3, <2>1, <2>2, <2>3
  <2>4. CASE k # 1
    <3>1. 1 < k
      BY <1>1, <2>4
    <3>2. h < Way[k].n
      BY <1>1, <1>2, <3>1 DEF LossInv, InOrder
    <3> QED
      BY <1>3, <2>1, <2>2, <3>2
  <2> QED
    BY <2>3, <2>4
<1> QED
  BY <1>2, <1>3, <1>4, <1>5

\* The oldest packet arrives: account() counts what is missing before it.
LEMMA LossArrived ==
  ASSUME LossInv, NEW S, QueuesOf(S), ring # <<>>, ring' = Tail(ring), UNCHANGED pending,
         Receive(Head(ring)), UNCHANGED <<fmt, seq, cursor, active, gone>>
  PROVE  LossInv'
<1>1. PICK m, w : /\ m \in Nat /\ w = Way' /\ Len(Way) = m + 1 /\ Len(w) = m
                  /\ \A k \in 1 .. m : w[k] = Way[k + 1]
                  /\ Head(ring) = Way[1] /\ 1 \in 1 .. m + 1
  BY WayShorter, Zenon
<1>2. PICK e, h : e = Way[1] /\ h = e.n
  OBVIOUS
<1>4. \A k \in 1 .. m + 1 : /\ Good(fmt, Way[k]) /\ Way[k].n \notin gone
                            /\ seen[2] < Way[k].n /\ Way[k].n < seq /\ Way[k].n \in Nat
  BY <1>1 DEF LossInv, OnWay, Good
<1>5. h \in Nat /\ h < seq /\ seen[2] < h /\ h \notin gone /\ Good(fmt, e)
  BY <1>1, <1>2, <1>4
<1>6. /\ seen[1] \in Int /\ seen[2] \in Int /\ -1 <= seen[1] /\ seen[1] <= seen[2]
      /\ seen[2] \notin gone /\ seq \in Nat
      /\ (seen[1] = -1) <=> (seen[2] = -1)
      /\ last = IF seen[2] = -1 THEN -1 ELSE seen[2] % Wrap
      /\ \A n \in gone : n \in Nat /\ n < seq
  BY DEF LossInv, Walking, Ends, Dropped
<1>7. PICK q : q = Parsed(e.pkt).seq /\ q = h % Wrap
  BY <1>2, <1>5 DEF Good
<1>8. /\ lost' = IF last # -1 /\ (q - (last + 1)) % Wrap < Half
                 THEN lost + ((q - (last + 1)) % Wrap) ELSE lost
      /\ last' = q
      /\ seen' = <<IF seen[1] = -1 THEN h ELSE seen[1], h>>
  <2>1. Accepted(fmt, e.pkt) /\ Head(ring) = e
    BY <1>1, <1>2, <1>5 DEF Good
  <2>2. Account(q) /\ seen' = <<IF seen[1] = -1 THEN h ELSE seen[1], h>>
    BY <1>2, <1>7, <2>1 DEF Receive
  <2> QED
    BY <2>2 DEF Account, Wrap, Half
<1>9. \A k \in 1 .. m : k + 1 \in 1 .. m + 1 /\ 1 < k + 1
  BY <1>1
<1>10. \A k \in 1 .. m : h < Way[k + 1].n
  BY <1>1, <1>2, <1>9 DEF LossInv, InOrder
<1>11. seen'[2] = h /\ seen'[1] = IF seen[1] = -1 THEN h ELSE seen[1]
  BY <1>8
<1>12. OnWay'
  BY <1>1, <1>4, <1>9, <1>10, <1>11 DEF OnWay
<1>13. InOrder'
  <2>1. ASSUME NEW j \in 1 .. m, NEW k \in 1 .. m, j < k PROVE w[j].n < w[k].n
    <3>1. j + 1 < k + 1
      BY <1>1, <2>1
    <3> QED
      BY <1>1, <1>9, <3>1 DEF LossInv, InOrder
  <2> QED
    BY <1>1, <2>1 DEF InOrder
<1>14. \A x \in seen[2] + 1 .. h - 1 : x \in gone
  <2>1. Len(Way) \in Nat /\ Len(Way) # 0
    BY <1>1
  <2> QED
    BY <1>2, <2>1, BeforeHead
<1>15. Accounted'
  <2>1. ASSUME NEW x \in 0 .. seq - 1, h < x, x \notin gone
        PROVE  \E k \in 1 .. m : w[k].n = x
    <3>0. seen[2] < x
      BY <1>5, <1>6, <2>1
    <3>1. PICK k \in 1 .. m + 1 : Way[k].n = x
      BY <1>1, <2>1, <3>0 DEF LossInv, Accounted
    <3>2. k # 1
      BY <1>2, <1>5, <2>1, <3>1
    <3>3. k - 1 \in 1 .. m /\ (k - 1) + 1 = k
      BY <1>1, <3>2
    <3> QED
      BY <1>1, <3>1, <3>3
  <2> QED
    BY <1>1, <1>11, <2>1 DEF Accounted
<1>16. Ends'
  <2>1. /\ seen'[1] \in Int /\ seen'[2] \in Int /\ -1 <= seen'[1] /\ seen'[1] <= seen'[2]
        /\ seen'[2] < seq /\ seen'[1] # -1 /\ seen'[2] # -1
    BY <1>5, <1>6, <1>11
  <2>2. last' = seen'[2] % Wrap
    BY <1>7, <1>8, <1>11
  <2> QED
    BY <2>1, <2>2 DEF Ends
<1>17. Dropped'
  BY <1>5, <1>6, <1>11 DEF Dropped
<1>18. Counted'
  <2>1. lost \in Nat /\ (Bridged => lost = Cardinality(Missed))
    BY DEF LossInv, Counted
  <2>2. PICK v : v \in Nat \ {0} /\ v = Wrap
    BY Wraps
  <2>3. CASE seen[2] = -1
    <3>1. last = -1 /\ lost' = lost
      BY <1>6, <1>8, <2>3
    <3>2. Missed = {}
      BY <1>6, <2>3 DEF Missed
    <3>3. Missed' = {}
      BY <1>5, <1>6, <1>11, <2>3 DEF Missed
    <3> QED
      BY <2>1, <3>1, <3>2, <3>3 DEF Counted, Bridged
  <2>4. CASE seen[2] # -1
    <3>1. PICK b : b = seen[2] /\ b \in Nat /\ b < h
      BY <1>5, <1>6, <2>4
    <3>2. last = b % v /\ q = h % v /\ b % v \in Nat /\ h % v \in Nat
      BY <1>5, <1>6, <1>7, <2>2, <2>4, <3>1
    <3>3. PICK z : z = (q - (last + 1)) % v /\ z \in Nat
      <4>1. (h % v) - ((b % v) + 1) \in Int
        BY <3>2
      <4>2. ((h % v) - ((b % v) + 1)) % v \in Nat
        BY <2>2, <4>1
      <4> QED
        BY <3>2, <4>2
    <3>4. last # -1
      BY <3>2
    <3>5. lost' = IF z < Half THEN lost + z ELSE lost
      BY <1>8, <2>2, <3>3, <3>4
    <3>6. lost' \in Nat
      BY <2>1, <3>3, <3>5
    <3>7. ASSUME Bridged PROVE lost' = lost + ((h - b) - 1)
      <4>1. CASE (h - b) - 1 = 0
        <5>1. (h - b) - 1 < Wrap
          BY <2>2, <4>1
        <5>2. z = 0
          BY <1>5, <2>2, <3>1, <3>2, <3>3, <4>1, <5>1, GapCounts
        <5> QED
          BY <2>1, <3>5, <4>1, <5>2
      <4>2. CASE (h - b) - 1 # 0
        <5>1. b + 1 \in gone
          BY <1>5, <1>14, <3>1, <4>2
        <5>2. PICK k \in 1 .. Half - 1 : (b + 1) + k \notin gone
          BY <3>7, <5>1 DEF Bridged
        <5>3. Half \in Nat /\ Half <= v
          BY <2>2 DEF Half
        <5>4. h <= (b + 1) + k
          BY <1>5, <1>14, <3>1, <5>2, <5>3
        <5>5. (h - b) - 1 < Half /\ (h - b) - 1 < v
          BY <1>5, <2>2, <3>1, <5>2, <5>3, <5>4
        <5>6. z = (h - b) - 1
          BY <1>5, <2>2, <3>1, <3>2, <3>3, <5>5, GapCounts
        <5> QED
          BY <3>5, <5>5, <5>6
      <4> QED
        BY <4>1, <4>2
    <3>8. Cardinality(Missed') = Cardinality(Missed) + ((h - b) - 1)
      <4>1. PICK a \in Int : a = seen[1] /\ a <= b /\ seen'[1] = a
        BY <1>6, <1>11, <2>4, <3>1
      <4>2. /\ Missed = {n \in gone : a < n /\ n < b}
            /\ Missed' = {n \in gone : a < n /\ n < h}
        BY <1>11, <3>1, <4>1 DEF Missed
      <4>3. PICK g : /\ g = gone /\ b \notin g
                     /\ \A n \in g : n \in Nat /\ n < seq
                     /\ \A x \in b + 1 .. h - 1 : x \in g
        BY <1>6, <1>14, <3>1
      <4>4. Grown(g, a, b, h)
        <5>1. b \in Int /\ h \in Nat /\ seq \in Nat
          BY <1>5, <1>6, <3>1
        <5> QED
          BY <3>1, <4>1, <4>3, <5>1, MissedGrows, Zenon
      <4> QED
        BY <4>2, <4>3, <4>4, Zenon DEF Grown
    <3>9. Bridged' => Bridged
      BY DEF Bridged
    <3> QED
      BY <2>1, <3>6, <3>7, <3>8, <3>9 DEF Counted
  <2> QED
    BY <2>3, <2>4
<1>19. Walking'
  BY DEF LossInv, Walking
<1> QED
  BY <1>12, <1>13, <1>15, <1>16, <1>17, <1>18, <1>19 DEF LossInv

LEMMA InitLoss == Init => LossInv
<1> SUFFICES ASSUME Init PROVE LossInv
  OBVIOUS
<1>1. /\ fmt \in Formats /\ seq = 0 /\ cursor = [line |-> 0, octet |-> 0] /\ active = FALSE
      /\ pending = <<>> /\ ring = <<>> /\ lost = 0 /\ last = -1 /\ seen = <<-1, -1>> /\ gone = {}
  BY DEF Init
<1>2. Len(Way) = 0
  <2>1. ring \in Seq({}) /\ pending \in Seq({}) /\ Len(ring) = 0 /\ Len(pending) = 0
    BY <1>1, EmptySeq
  <2> QED
    BY <2>1, ConcatProperties DEF Way
<1>3. Walking
  BY <1>1 DEF Walking
<1>4. Ends /\ Dropped
  BY <1>1 DEF Ends, Dropped
<1>5. OnWay /\ InOrder /\ Accounted
  BY <1>1, <1>2 DEF OnWay, InOrder, Accounted
<1>6. Counted
  <2>1. Missed = {} /\ Cardinality({}) = 0
    BY <1>1, FS_EmptySet DEF Missed
  <2> QED
    BY <1>1, <2>1 DEF Counted
<1> QED
  BY <1>3, <1>4, <1>5, <1>6 DEF LossInv

LEMMA NextLoss ==
  ASSUME BufferInv, LossInv, [Next]_vars
  PROVE  LossInv'
<1> USE DEF setupVars, txVars, audioVars, rxVars
<1>0. PICK S : QueuesOf(S)
  BY DEF BufferInv
<1>1. CASE StartFrame
  <2>1. /\ cursor' = [line |-> 0, octet |-> 0]
        /\ UNCHANGED <<fmt, seq, pending, ring, seen, last, lost, gone>>
    BY <1>1 DEF StartFrame
  <2>2. fmt \in Formats
    BY DEF LossInv, Walking
  <2>3. cursor' \in Cursors(fmt) /\ cursor'.line < fmt.height
    <3>1. fmt.height \in Nat \ {0} /\ [line |-> 0, octet |-> 0] \in Cursors(fmt)
      BY <2>2, PlansAreParsed, Zenon DEF PlansParse
    <3> QED
      BY <2>1, <3>1
  <2>4. Way' = Way
    BY <2>1 DEF Way
  <2> QED
    BY <2>1, <2>3, <2>4, LossSame
<1>2. CASE SendPacket
  BY <1>0, <1>2, LossPacket
<1>3. ASSUME NEW n \in 1 .. Batch, DrainSome(n) PROVE LossInv'
  <2>1. UNCHANGED <<fmt, seq, cursor, active, seen, last, lost, gone>>
    BY <1>3 DEF DrainSome
  <2>2. Way' = Way
    BY <1>0, <1>3, DrainedWay
  <2> QED
    BY <2>1, <2>2, LossSame DEF LossInv, Walking
<1>4. CASE DrainFull
  <2>1. UNCHANGED <<fmt, seq, cursor, active, ring, lost, last, seen>>
    BY <1>4 DEF DrainFull
  <2>2. CASE UNCHANGED <<pending, gone>>
    <3>1. Way' = Way
      BY <2>1, <2>2 DEF Way
    <3> QED
      BY <2>1, <2>2, <3>1, LossSame DEF LossInv, Walking
  <2>3. CASE pending' = <<>> /\ gone' = gone \cup {pending[k].n : k \in DOMAIN pending}
    BY <1>0, <2>1, <2>3, LossGivenUp
  <2> QED
    BY <1>4, <2>2, <2>3 DEF DrainFull
<1>5. CASE NicSend
  <2>1. /\ ring # <<>> /\ ring' = Tail(ring) /\ Receive(Head(ring))
        /\ UNCHANGED <<fmt, seq, cursor, active, pending, gone>>
    BY <1>5 DEF NicSend
  <2> QED
    BY <1>0, <2>1, LossArrived
<1>6. CASE NicLose
  <2>1. /\ ring # <<>> /\ ring' = Tail(ring) /\ gone' = gone \cup {Head(ring).n}
        /\ UNCHANGED <<fmt, seq, cursor, active, pending, lost, last, seen>>
    BY <1>6 DEF NicLose
  <2> QED
    BY <1>0, <2>1, LossLost
<1>7. CASE UNCHANGED <<fmt, seq, cursor, active, pending, ring, seen, last, lost, gone>>
  <2>1. Way' = Way
    BY <1>7 DEF Way
  <2> QED
    BY <1>7, <2>1, LossSame DEF LossInv, Walking
<1>8. CASE PoolEmpty \/ Audio \/ NicAudio \/ UNCHANGED vars
  BY <1>7, <1>8 DEF PoolEmpty, Audio, AudioStart, AudioReserve, AudioTry, NicAudio, vars
<1> QED
  BY <1>1, <1>2, <1>3, <1>4, <1>5, <1>6, <1>8 DEF Next, Video, Drain
-----------------------------------------------------------------------------
LEMMA CountIsExact == LossInv => LossExact
BY DEF LossInv, Counted, Bridged, Half, Wrap, Missed, LossExact

\* The receiver counts as lost exactly what the backend gave up and what the network dropped
\* between the first packet it saw and the last, across every wrap of the sequence number,
\* as long as less than half the numbers are missing in a row.
THEOREM LossesCounted == Spec => []LossExact
<1>1. Init => BufferInv /\ LossInv
  BY InitBuffers, InitLoss
<1>2. (BufferInv /\ LossInv) /\ [Next]_vars => (BufferInv /\ LossInv)'
  BY NextBuffers, NextLoss
<1>3. BufferInv /\ LossInv => LossExact
  BY CountIsExact
<1> QED
  BY <1>1, <1>2, <1>3, PTL DEF Spec
-----------------------------------------------------------------------------
(* The place of a packet, and the invariant *)

\* The frame packet n belongs to, and its place in it.
PL == PerFrame(fmt)
TimeOf(n) == (n \div PL) + 1
IndexOf(n) == n % PL
Sent(n, pkt) ==
  pkt = Written(fmt, n, TimeOf(n), FramePlans[fmt][IndexOf(n) + 1], Source(TimeOf(n)))

\* Where the packetizer is in its frame.
Sending ==
  /\ fmt \in Formats /\ seq \in Nat /\ frame \in 0 .. MaxFrames /\ active \in BOOLEAN
  /\ txpc = "idle" => ~active
  /\ active => TimeOf(seq) = frame /\ cursor = Begin(FramePlans[fmt], IndexOf(seq))
  /\ ~active => seq = frame * PL

\* What is on its way was written for its place.
Carrying ==
  \A k \in 1 .. Len(Way) : /\ Way[k].n \in Nat /\ TimeOf(Way[k].n) \in 1 .. MaxFrames
                           /\ Sent(Way[k].n, Way[k].pkt)

\* The receiver's buffer holds what was not dropped of the frame in progress.
Keeping ==
  /\ DOMAIN mem = Groups(fmt)
  /\ \A n \in 0 .. seen[2] : n \div PL = seen[2] \div PL /\ n \notin gone =>
       \A x \in At(fmt, IndexOf(n)) .. At(fmt, IndexOf(n) + 1) - 1 :
         mem[x] = Source(TimeOf(n))[x]

\* The receiver counts the groups of a frame nothing was dropped of.
Counting ==
  /\ shown.number \in Int /\ -1 <= shown.number /\ shown.number <= seen[2]
  /\ (shown.number + 1) % PL = 0
  /\ (\A n \in gone : ~(shown.number < n /\ n <= seen[2])) =>
       seen[2] - shown.number \in 0 .. PL - 1 /\ got = At(fmt, seen[2] - shown.number)

\* What FrameWhole says of a completed frame.
Completed ==
  shown.number >= 0 =>
    /\ \A l \in 0 .. fmt.height - 1 : (\A n \in gone : l \notin LinesLost(n)) => l \in shown.right
    /\ gone \cap shown.first .. shown.number = {} => shown.groups = fmt.pgs * fmt.height

FrameInv == Sending /\ Carrying /\ Keeping /\ Counting /\ Completed


LEMMA PlaceIs ==
  ASSUME fmt \in Formats, NEW n \in Nat
  PROVE  /\ PL \in Nat \ {0} /\ IndexOf(n) \in 0 .. PL - 1 /\ IndexOf(n) + 1 \in 1 .. PL
         /\ n \div PL \in Nat /\ TimeOf(n) = (n \div PL) + 1 /\ n = (n \div PL) * PL + IndexOf(n)
<1>1. PICK m \in Nat \ {0} : m = PL
  BY Frames DEF PL
<1>2. PICK k, r : Divided(m, n, k, r)
  BY Remainder
<1>3. k \in Nat /\ r \in 0 .. m - 1 /\ k = n \div m /\ r = n % m /\ n = k * m + r
  BY <1>2 DEF Divided
<1>4. r + 1 \in 1 .. m
  BY <1>1, <1>3
<1> QED
  BY <1>1, <1>3, <1>4 DEF IndexOf, TimeOf

\* A packet with a known place.
LEMMA PlaceAt ==
  ASSUME fmt \in Formats, NEW k \in Nat, NEW r \in 0 .. PL - 1
  PROVE  /\ IndexOf(k * PL + r) = r /\ (k * PL + r) \div PL = k /\ TimeOf(k * PL + r) = k + 1
         /\ k * PL + r \in Nat
<1>1. PICK m \in Nat \ {0} : m = PL
  BY Frames DEF PL
<1>2. (k * m + r) \div m = k /\ (k * m + r) % m = r
  BY <1>1, Divides
<1>3. k * m \in Nat
  BY Product
<1>4. k * m + r \in Nat
  BY <1>1, <1>3
<1> QED
  BY <1>1, <1>2, <1>4 DEF IndexOf, TimeOf

LEMMA PlaceNext ==
  ASSUME fmt \in Formats, NEW n \in Nat
  PROVE  /\ IndexOf(n) + 1 = PL => n + 1 = TimeOf(n) * PL
         /\ IndexOf(n) + 1 # PL => TimeOf(n + 1) = TimeOf(n) /\ IndexOf(n + 1) = IndexOf(n) + 1
<1>1. PICK m \in Nat \ {0}, k \in Nat, r \in Nat :
        /\ m = PL /\ k = n \div PL /\ r = IndexOf(n) /\ r < m /\ TimeOf(n) = k + 1
        /\ n = k * m + r
  <2>1. PICK m : m = PL /\ m \in Nat \ {0}
    BY PlaceIs
  <2>2. PICK k : k = n \div PL /\ k \in Nat
    BY PlaceIs
  <2>3. PICK r : r = IndexOf(n) /\ r \in 0 .. m - 1
    BY <2>1, PlaceIs
  <2>4. r \in Nat /\ r < m
    BY <2>1, <2>3
  <2>5. TimeOf(n) = k + 1 /\ n = k * m + r
    BY <2>1, <2>2, <2>3, PlaceIs
  <2> QED
    BY <2>1, <2>2, <2>3, <2>4, <2>5
<1>2. k * m \in Nat /\ (k + 1) * m = k * m + m
  <2>1. \A x \in Nat, y \in Nat : (x + 1) * y = x * y + y
    OBVIOUS
  <2> QED
    BY <2>1, Product
<1>3. r + 1 = m => n + 1 = (k + 1) * m
  BY <1>1, <1>2
<1>4. ASSUME r + 1 # m PROVE TimeOf(n + 1) = k + 1 /\ IndexOf(n + 1) = r + 1
  <2>1. r + 1 \in 0 .. m - 1
    <3>1. m \in Nat /\ r \in Nat /\ r < m
      BY <1>1
    <3> QED
      BY <1>4, <3>1
  <2>2. n + 1 = k * m + (r + 1)
    <3>1. PICK x : x = k * m /\ x \in Nat
      BY <1>2
    <3>2. n \in Nat /\ r \in Nat /\ n = x + r
      BY <1>1, <3>1
    <3> QED
      BY <3>1, <3>2
  <2> QED
    BY <1>1, <2>1, <2>2, PlaceAt
<1> QED
  BY <1>1, <1>3, <1>4

LEMMA PlaceFirst ==
  ASSUME fmt \in Formats, NEW k \in Nat
  PROVE  TimeOf(k * PL) = k + 1 /\ IndexOf(k * PL) = 0
<1>1. PICK m \in Nat \ {0} : m = PL
  BY Frames DEF PL
<1>2. 0 \in 0 .. m - 1 /\ k * m + 0 = k * m
  <2>1. k * m \in Nat
    BY Product
  <2> QED
    BY <2>1
<1>3. TimeOf(k * PL + 0) = k + 1 /\ IndexOf(k * PL + 0) = 0
  BY <1>1, <1>2, PlaceAt
<1> QED
  BY <1>1, <1>2, <1>3

\* What packet n says.
PacketOf(n, pkt, plan) ==
  /\ plan = FramePlans[fmt][IndexOf(n) + 1]
  /\ ParsesTo(fmt, pkt, plan.srds, TimeOf(n), IndexOf(n) + 1 = PL,
              At(fmt, IndexOf(n)), At(fmt, IndexOf(n) + 1))
  /\ At(fmt, IndexOf(n)) \in Nat /\ At(fmt, IndexOf(n) + 1) \in Nat
  /\ At(fmt, IndexOf(n)) <= At(fmt, IndexOf(n) + 1)
  /\ Shows(pkt, Source(TimeOf(n)), At(fmt, IndexOf(n)), At(fmt, IndexOf(n) + 1))
  /\ PayloadLen(fmt, pkt) <= fmt.payload

LEMMA SentSays ==
  ASSUME fmt \in Formats, NEW n \in Nat, NEW pkt, Sent(n, pkt)
  PROVE  \E plan : PacketOf(n, pkt, plan)
<1>1. PICK i : i = IndexOf(n) + 1 /\ i \in 1 .. PL /\ i - 1 = IndexOf(n)
  BY PlaceIs
<1>2. PICK at, plan : PacketIs(fmt, i, at, plan)
  BY <1>1, Packets DEF PL
<1>3. /\ at \in Cursors(fmt) /\ at.line < fmt.height
      /\ plan = FramePlans[fmt][i] /\ plan = Plans[fmt][at] /\ plan.at = Begin(FramePlans[fmt], i)
      /\ Carries(fmt, plan.srds, At(fmt, i - 1), At(fmt, i)) /\ Len(plan.srds) \in 1 .. MaxSrd
  BY <1>2 DEF PacketIs
<1>4. IsFormat(fmt)
  BY PacketAssumption
<1>5. PICK d, a, b, ts : d = Source(TimeOf(n)) /\ a = At(fmt, i - 1) /\ b = At(fmt, i) /\ ts = TimeOf(n)
  OBVIOUS
<1>6. pkt = Written(fmt, n, ts, plan, d)
  BY <1>1, <1>3, <1>5 DEF Sent
<1>7. /\ ParsesTo(fmt, pkt, plan.srds, ts, plan.at.line >= fmt.height, a, b)
      /\ Shows(pkt, d, a, b)
  <2>1. Carries(fmt, plan.srds, a, b) /\ Len(plan.srds) \in 1 .. MaxSrd
    BY <1>3, <1>5
  <2>2. ParsesTo(fmt, Written(fmt, n, ts, plan, d), plan.srds, ts,
                 plan.at.line >= fmt.height, a, b)
    BY <1>4, <2>1, WrittenParses, Zenon
  <2>3. Shows(Written(fmt, n, ts, plan, d), d, a, b)
    BY <1>4, <2>1, WrittenParses, Zenon
  <2> QED
    BY <1>6, <2>2, <2>3, Zenon
<1>8. (plan.at.line >= fmt.height) = (i = PL)
  <2>1. CASE i = PL
    <3>1. plan.at.line >= fmt.height
      BY <1>1, <1>3, <2>1, Packets DEF PL
    <3> QED
      BY <2>1, <3>1
  <2>2. CASE i # PL
    <3>1. ~(plan.at.line >= fmt.height)
      BY <1>1, <1>3, <2>2, Packets DEF PL
    <3> QED
      BY <2>2, <3>1
  <2> QED
    BY <2>1, <2>2
<1>9. a \in Nat /\ b \in Nat /\ a <= b
  BY <1>3, <1>5 DEF Carries
<1>10. PayloadLen(fmt, pkt) <= fmt.payload
  BY <1>3, <1>6, PayloadFits
<1>11. ParsesTo(fmt, pkt, plan.srds, ts, IndexOf(n) + 1 = PL, a, b)
  BY <1>1, <1>7, <1>8, Zenon
<1> QED
  BY <1>1, <1>3, <1>5, <1>7, <1>9, <1>10, <1>11 DEF PacketOf

-----------------------------------------------------------------------------
(* What the steps do to it *)

\* What the receiver has stays right, whatever else is dropped.
LEMMA RestKept ==
  ASSUME FrameInv, UNCHANGED <<fmt, seen, mem, got, shown>>, gone \subseteq gone'
  PROVE  Keeping' /\ Counting' /\ Completed'
<1>1. /\ PL' = PL /\ \A n : IndexOf(n)' = IndexOf(n) /\ TimeOf(n)' = TimeOf(n)
      /\ \A n : LinesLost(n)' = LinesLost(n)
  BY DEF PL, IndexOf, TimeOf, LinesLost
<1>2. \A t : Source(t)' = Source(t)
  BY DEF Source
<1>3. Keeping'
  <2>1. DOMAIN mem = Groups(fmt)
    BY DEF FrameInv, Keeping
  <2>2. ASSUME NEW n \in 0 .. seen[2], n \div PL = seen[2] \div PL, n \notin gone',
               NEW x \in At(fmt, IndexOf(n)) .. At(fmt, IndexOf(n) + 1) - 1
        PROVE  mem[x] = Source(TimeOf(n))[x]
    <3>1. n \notin gone
      BY <2>2
    <3> QED
      BY <2>2, <3>1 DEF FrameInv, Keeping
  <2> QED
    BY <1>1, <1>2, <2>1, <2>2 DEF Keeping
<1>4. Counting'
  <2>1. (\A n \in gone' : ~(shown.number < n /\ n <= seen[2])) =>
          \A n \in gone : ~(shown.number < n /\ n <= seen[2])
    OBVIOUS
  <2> QED
    BY <1>1, <2>1 DEF FrameInv, Counting
<1>5. Completed'
  <2>1. ASSUME shown.number >= 0 PROVE Completed'
    <3>1. \A l \in 0 .. fmt.height - 1 :
            (\A n \in gone' : l \notin LinesLost(n)) => l \in shown.right
      BY <2>1 DEF FrameInv, Completed
    <3>2. gone' \cap shown.first .. shown.number = {} => shown.groups = fmt.pgs * fmt.height
      BY <2>1 DEF FrameInv, Completed
    <3> QED
      BY <1>1, <3>1, <3>2 DEF Completed
  <2> QED
    BY <2>1 DEF Completed
<1> QED
  BY <1>3, <1>4, <1>5

\* No packet is new.
LEMMA FrameKept ==
  ASSUME FrameInv, UNCHANGED <<fmt, seen, mem, got, shown>>, gone \subseteq gone', Sending',
         NEW w, w = Way', \A k \in 1 .. Len(w) : \E j \in 1 .. Len(Way) : w[k] = Way[j]
  PROVE  FrameInv'
<1>1. \A n, pkt : Sent(n, pkt)' <=> Sent(n, pkt)
  BY DEF Sent, Source, TimeOf, IndexOf, PL
<1>2. \A n : TimeOf(n)' = TimeOf(n)
  BY DEF TimeOf, PL
<1>3. ASSUME NEW k \in 1 .. Len(w)
      PROVE  /\ w[k].n \in Nat /\ TimeOf(w[k].n) \in 1 .. MaxFrames /\ Sent(w[k].n, w[k].pkt)
  <2>1. PICK j \in 1 .. Len(Way) : w[k] = Way[j]
    OBVIOUS
  <2> QED
    BY <2>1 DEF FrameInv, Carrying
<1>4. Carrying'
  BY <1>1, <1>2, <1>3 DEF Carrying
<1> QED
  BY <1>4, RestKept DEF FrameInv

\* A frame begins.
LEMMA FrameBegun ==
  ASSUME FrameInv, StartFrame
  PROVE  FrameInv'
<1>1. /\ txpc = "idle" /\ frame < MaxFrames /\ frame' = frame + 1
      /\ cursor' = [line |-> 0, octet |-> 0] /\ active' = TRUE /\ txpc' = "send"
      /\ UNCHANGED <<fmt, seq, pending, ring, seen, mem, got, shown, gone>>
  BY DEF StartFrame, setupVars, rxVars
<1>2. /\ fmt \in Formats /\ seq \in Nat /\ frame \in 0 .. MaxFrames /\ ~active
      /\ seq = frame * PL /\ frame \in Nat /\ MaxFrames \in Nat
  <2>1. MaxFrames \in Nat
    BY WireAssumption
  <2> QED
    BY <1>1, <2>1 DEF FrameInv, Sending
<1>3. TimeOf(seq) = frame + 1 /\ IndexOf(seq) = 0
  BY <1>2, PlaceFirst
<1>4. cursor' = Begin(FramePlans[fmt], IndexOf(seq))
  BY <1>1, <1>3 DEF Begin, Origin
<1>5. Sending'
  <2>1. TimeOf(seq)' = TimeOf(seq) /\ IndexOf(seq)' = IndexOf(seq)
    BY <1>1 DEF TimeOf, IndexOf, PL
  <2>2. frame + 1 \in 0 .. MaxFrames
    BY <1>1, <1>2
  <2> QED
    BY <1>1, <1>2, <1>3, <1>4, <2>1, <2>2 DEF Sending
<1>6. Way' = Way
  BY <1>1 DEF Way
<1> QED
  BY <1>1, <1>5, <1>6, FrameKept

LEMMA FrameSent ==
  ASSUME FrameInv, NEW S, QueuesOf(S), SendPacket
  PROVE  FrameInv'
<1>1. PICK plan : plan = Plans[fmt][cursor]
  OBVIOUS
<1>2. PICK p : p = Written(fmt, seq, frame, plan, Source(frame))
  OBVIOUS
<1>3. PICK e : e = [n |-> seq, pkt |-> p]
  OBVIOUS
<1>4. /\ txpc = "send" /\ active /\ pending' = Append(pending, e) /\ seq' = seq + 1
      /\ cursor' = plan.at /\ active' = ~p.marker /\ txpc' \in {"send", "drain"}
      /\ UNCHANGED <<fmt, frame, ring, seen, mem, got, shown, gone>>
  BY <1>1, <1>2, <1>3 DEF SendPacket, setupVars, rxVars
<1>5. /\ fmt \in Formats /\ seq \in Nat /\ frame \in 0 .. MaxFrames
      /\ TimeOf(seq) = frame /\ cursor = Begin(FramePlans[fmt], IndexOf(seq))
  BY <1>4 DEF FrameInv, Sending
<1>6. PICK i : i = IndexOf(seq) + 1 /\ i \in 1 .. PL /\ i - 1 = IndexOf(seq)
  BY <1>5, PlaceIs
<1>7. PICK at, pl : PacketIs(fmt, i, at, pl)
  BY <1>5, <1>6, Packets DEF PL
<1>8. plan = FramePlans[fmt][i] /\ plan.at = Begin(FramePlans[fmt], i)
  BY <1>1, <1>5, <1>6, <1>7 DEF PacketIs
<1>9. Sent(seq, p)
  BY <1>2, <1>5, <1>6, <1>8 DEF Sent
<1>10. p.marker = (plan.at.line >= fmt.height)
  BY <1>2 DEF Written
<1>11. frame \in 1 .. MaxFrames /\ frame \in Nat
  <2>1. TimeOf(seq) \in Nat \ {0}
    BY <1>5, PlaceIs
  <2> QED
    BY <1>5, <2>1
<1>12. Sending'
  <2>1. /\ fmt' \in Formats /\ seq' \in Nat /\ frame' \in 0 .. MaxFrames /\ active' \in BOOLEAN
        /\ ~(txpc' = "idle")
    BY <1>4, <1>5, <1>10
  <2>2. PL' = PL /\ TimeOf(seq)' = TimeOf(seq + 1) /\ IndexOf(seq)' = IndexOf(seq + 1)
    BY <1>4 DEF TimeOf, IndexOf, PL
  <2>3. CASE i = PL
    <3>1. plan.at.line >= fmt.height
      BY <1>5, <1>6, <1>8, <2>3, Packets DEF PL
    <3>2. ~active'
      BY <1>4, <1>10, <3>1
    <3>3. seq + 1 = frame * PL
      BY <1>5, <1>6, <2>3, PlaceNext
    <3> QED
      BY <1>4, <2>1, <2>2, <3>2, <3>3 DEF Sending
  <2>4. CASE i # PL
    <3>1. ~(plan.at.line >= fmt.height)
      BY <1>5, <1>6, <1>8, <2>4, Packets DEF PL
    <3>2. active'
      BY <1>4, <1>10, <3>1
    <3>3. TimeOf(seq + 1) = frame /\ IndexOf(seq + 1) = i
      BY <1>5, <1>6, <2>4, PlaceNext
    <3> QED
      BY <1>4, <1>8, <2>1, <2>2, <3>2, <3>3 DEF Sending
  <2> QED
    BY <2>3, <2>4
<1>13. PICK w : w = Way' /\ Longer(w, e)
  BY <1>4, WayLonger
<1>14. ASSUME NEW k \in 1 .. Len(w)
       PROVE  /\ w[k].n \in Nat /\ TimeOf(w[k].n) \in 1 .. MaxFrames /\ Sent(w[k].n, w[k].pkt)
  <2>1. CASE k \in 1 .. Len(Way)
    BY <1>13, <2>1 DEF Longer, FrameInv, Carrying
  <2>2. CASE k = Len(Way) + 1
    <3>1. w[k].n = seq /\ w[k].pkt = p
      BY <1>3, <1>13, <2>2 DEF Longer
    <3> QED
      BY <1>5, <1>9, <1>11, <3>1
  <2> QED
    BY <1>13, <2>1, <2>2 DEF Longer
<1>15. Carrying'
  <2>1. \A n, pkt : Sent(n, pkt)' <=> Sent(n, pkt)
    BY <1>4 DEF Sent, Source, TimeOf, IndexOf, PL
  <2>2. \A n : TimeOf(n)' = TimeOf(n)
    BY <1>4 DEF TimeOf, PL
  <2> QED
    BY <1>13, <1>14, <2>1, <2>2 DEF Carrying
<1> QED
  BY <1>4, <1>12, <1>15, RestKept DEF FrameInv

\* The oldest packet, h, arrives with the groups from a up to before b.
Closes(h) == IndexOf(h) + 1 = PL
Arrives(h, a, b) ==
  /\ fmt \in Formats /\ h \in Nat /\ TimeOf(h) \in 1 .. MaxFrames
  /\ a = At(fmt, IndexOf(h)) /\ b = At(fmt, IndexOf(h) + 1)
  /\ a \in Nat /\ b \in Nat /\ a <= b
  /\ seen[2] \in Int /\ -1 <= seen[2] /\ seen[2] < h /\ h \notin gone
  /\ \A x \in seen[2] + 1 .. h - 1 : x \in gone
  /\ seen'[2] = h /\ DOMAIN mem' = Groups(fmt)
  /\ \A g \in Groups(fmt) :
       mem'[g] = IF a <= g /\ g < b THEN Source(TimeOf(h))[g] ELSE mem[g]
  /\ got' = IF Closes(h) THEN 0 ELSE got + (b - a)
  /\ ~Closes(h) => shown' = shown
  /\ Closes(h) => shown' = [ts |-> TimeOf(h), first |-> shown.number + 1, number |-> h,
                           right |-> RightLines(TimeOf(h), mem'), groups |-> got + (b - a)]
  /\ gone \subseteq Nat /\ UNCHANGED <<fmt, gone>>

LEMMA Arrival ==
  ASSUME LossInv, FrameInv, Len(Way) \in Nat, Len(Way) # 0, Receive(Way[1]), UNCHANGED <<fmt, gone>>
  PROVE  \E a, b : Arrives(Way[1].n, a, b)
<1>1. PICK e, h : e = Way[1] /\ h = Way[1].n /\ h = e.n
  OBVIOUS
<1>2. PICK m \in Nat : m = Len(Way) /\ 1 \in 1 .. m
  OBVIOUS
<1>3. fmt \in Formats /\ h \in Nat /\ TimeOf(h) \in 1 .. MaxFrames /\ Sent(h, e.pkt)
  BY <1>1, <1>2 DEF FrameInv, Carrying, Sending
<1>4. PICK plan : PacketOf(h, e.pkt, plan)
  BY <1>3, SentSays
<1>5. PICK a, b : a = At(fmt, IndexOf(h)) /\ b = At(fmt, IndexOf(h) + 1)
  OBVIOUS
<1>6. /\ ParsesTo(fmt, e.pkt, plan.srds, TimeOf(h), Closes(h), a, b)
      /\ a \in Nat /\ b \in Nat /\ a <= b /\ Shows(e.pkt, Source(TimeOf(h)), a, b)
  BY <1>4, <1>5 DEF PacketOf, Closes
<1>7. /\ Accepted(fmt, e.pkt) /\ Parsed(e.pkt).srds = plan.srds /\ Parsed(e.pkt).ts = TimeOf(h)
      /\ Parsed(e.pkt).marker = Closes(h) /\ Len(Targets(fmt, plan.srds)) = b - a
  BY <1>6 DEF ParsesTo
<1>8. DOMAIN mem = Groups(fmt) /\ Groups(fmt) \subseteq Int
  BY DEF FrameInv, Keeping, Groups
<1>9. PICK now : now = Scattered(fmt, e.pkt, mem)
  OBVIOUS
<1>10. /\ DOMAIN now = Groups(fmt)
       /\ \A g \in Groups(fmt) : now[g] = IF a <= g /\ g < b THEN Source(TimeOf(h))[g] ELSE mem[g]
  <2>1. PICK d, ts, mark : d = Source(TimeOf(h)) /\ ts = TimeOf(h) /\ mark = Closes(h)
    OBVIOUS
  <2>2. ParsesTo(fmt, e.pkt, plan.srds, ts, mark, a, b) /\ Shows(e.pkt, d, a, b)
    BY <1>6, <2>1, Zenon
  <2>3. a \in Nat /\ b \in Nat /\ a <= b /\ DOMAIN mem \subseteq Int
    BY <1>6, <1>8
  <2>4. Placed(now, mem, d, a, b)
    BY <1>9, <2>2, <2>3, ScatterIs, Zenon
  <2> QED
    BY <1>8, <2>1, <2>4 DEF Placed
<1>11. /\ seen' = <<IF seen[1] = -1 THEN h ELSE seen[1], h>> /\ mem' = now
       /\ got' = IF Closes(h) THEN 0 ELSE got + (b - a)
       /\ shown' = IF ~Closes(h) THEN shown
                   ELSE [ts |-> TimeOf(h), first |-> shown.number + 1, number |-> h,
                         right |-> RightLines(TimeOf(h), now), groups |-> got + (b - a)]
  <2>1. Receive(e)
    BY <1>1
  <2> QED
    BY <1>1, <1>7, <1>9, <2>1 DEF Receive
<1>12. seen'[2] = h
  BY <1>11
<1>13. /\ seen[2] \in Int /\ -1 <= seen[2] /\ seen[2] < h /\ h \notin gone
       /\ \A x \in seen[2] + 1 .. h - 1 : x \in gone
  BY <1>1, BeforeHead
<1>13a. gone \subseteq Nat
  BY DEF LossInv, Dropped
<1>14. Arrives(h, a, b)
  BY <1>3, <1>5, <1>6, <1>10, <1>11, <1>12, <1>13, <1>13a DEF Arrives
<1> QED
  BY <1>1, <1>14

\* A packet's groups are groups of the frame.
LEMMA WithinFrame ==
  ASSUME fmt \in Formats, NEW i \in 1 .. PL, NEW x \in Int, At(fmt, i - 1) <= x, x < At(fmt, i)
  PROVE  x \in Groups(fmt)
<1>1. PICK n \in Nat \ {0} : n = PL
  BY Frames DEF PL
<1>2. i \in 0 .. n /\ i - 1 \in 0 .. n /\ n \in 0 .. n
  BY <1>1
<1>3. At(fmt, i) <= At(fmt, n) /\ At(fmt, n) = fmt.pgs * fmt.height
  BY <1>1, <1>2, AtGrows, Frames DEF PL
<1>4. At(fmt, i - 1) \in Nat /\ At(fmt, i) \in Nat /\ At(fmt, n) \in Nat
  BY <1>1, <1>2, Frames DEF PL
<1>5. PICK y : y = fmt.pgs * fmt.height /\ y \in Nat /\ x < y /\ 0 <= x
  BY <1>3, <1>4
<1> QED
  BY <1>5 DEF Groups

\* Between two numbers with the same quotient all have it.
LEMMA QuotientBetween ==
  ASSUME NEW m \in Nat \ {0}, NEW x \in Nat, NEW y \in Nat, NEW z \in Nat, x <= y, y <= z,
         x \div m = z \div m
  PROVE  y \div m = z \div m
<1>1. PICK i, r : Divided(m, x, i, r)
  BY Remainder
<1>2. PICK j, s : Divided(m, y, j, s)
  BY Remainder
<1>3. PICK k, t : Divided(m, z, k, t)
  BY Remainder
<1>4. /\ i \in Nat /\ j \in Nat /\ k \in Nat /\ r \in 0 .. m - 1 /\ s \in 0 .. m - 1 /\ t \in 0 .. m - 1
      /\ i = x \div m /\ j = y \div m /\ k = z \div m
      /\ x = i * m + r /\ y = j * m + s /\ z = k * m + t
  BY <1>1, <1>2, <1>3 DEF Divided
<1>5. \A p \in Nat, q \in Nat : p < q => p * m + m <= q * m
  <2>1. TAKE p \in Nat, q \in Nat
  <2>2. HAVE p < q
  <2>3. PICK u \in Nat : u = p + 1 /\ u <= q
    BY <2>2
  <2>4. u * m <= q * m
    BY <2>3, ProductLess
  <2>5. (p + 1) * m = p * m + m
    OBVIOUS
  <2> QED
    BY <2>3, <2>4, <2>5
<1>6. i * m \in Nat /\ j * m \in Nat /\ k * m \in Nat
  BY <1>4, Product
<1>7. ~(j < i)
  <2>1. SUFFICES ASSUME j < i PROVE FALSE
    OBVIOUS
  <2>2. j * m + m <= i * m
    BY <1>4, <1>5, <2>1
  <2> QED
    BY <1>4, <1>6, <2>2
<1>8. ~(k < j)
  <2>1. SUFFICES ASSUME k < j PROVE FALSE
    OBVIOUS
  <2>2. k * m + m <= j * m
    BY <1>4, <1>5, <2>1
  <2> QED
    BY <1>4, <1>6, <2>2
<1> QED
  BY <1>4, <1>7, <1>8

LEMMA KeepingArrived ==
  ASSUME Keeping, NEW h, NEW a, NEW b, Arrives(h, a, b)
  PROVE  Keeping'
<1>1. /\ fmt \in Formats /\ h \in Nat /\ a = At(fmt, IndexOf(h)) /\ b = At(fmt, IndexOf(h) + 1)
      /\ seen[2] \in Int /\ seen[2] < h /\ seen'[2] = h /\ DOMAIN mem' = Groups(fmt)
      /\ \A x \in seen[2] + 1 .. h - 1 : x \in gone
      /\ \A g \in Groups(fmt) :
           mem'[g] = IF a <= g /\ g < b THEN Source(TimeOf(h))[g] ELSE mem[g]
      /\ UNCHANGED <<fmt, gone>>
  BY DEF Arrives
<1>2. ASSUME NEW n \in 0 .. h, n \div PL = h \div PL, n \notin gone,
             NEW x \in At(fmt, IndexOf(n)) .. At(fmt, IndexOf(n) + 1) - 1
      PROVE  mem'[x] = Source(TimeOf(n))[x]
  <2>1. n \in Nat
    BY <1>1
  <2>2. PICK i : i = IndexOf(n) + 1 /\ i \in 1 .. PL /\ i - 1 = IndexOf(n)
    BY <1>1, <2>1, PlaceIs
  <2>3. PICK j : j = IndexOf(h) + 1 /\ j \in 1 .. PL /\ j - 1 = IndexOf(h)
    BY <1>1, PlaceIs
  <2>4. At(fmt, i - 1) \in Nat /\ At(fmt, i) \in Nat
    <3>1. PICK k \in Nat \ {0} : k = PL
      BY <1>1, Frames DEF PL
    <3>2. i \in 0 .. k /\ i - 1 \in 0 .. k
      BY <2>2, <3>1
    <3> QED
      BY <1>1, <3>1, <3>2, Frames DEF PL
  <2>5. x \in Int /\ At(fmt, i - 1) <= x /\ x < At(fmt, i)
    BY <2>2, <2>4
  <2>6. x \in Groups(fmt)
    BY <1>1, <2>2, <2>5, WithinFrame
  <2>7. CASE n = h
    BY <1>1, <2>2, <2>5, <2>6, <2>7
  <2>8. CASE n # h
    <3>1. n \in 0 .. seen[2]
      <4>1. SUFFICES ASSUME seen[2] < n PROVE FALSE
        BY <1>1, <2>1
      <4>2. n \in seen[2] + 1 .. h - 1
        BY <1>1, <2>1, <2>8, <4>1
      <4> QED
        BY <1>1, <1>2, <4>2
    <3>2. n \div PL = seen[2] \div PL
      <4>1. PICK k \in Nat \ {0} : k = PL
        BY <1>1, Frames DEF PL
      <4>2. seen[2] \in Nat /\ n <= seen[2] /\ seen[2] <= h
        BY <1>1, <3>1
      <4>3. seen[2] \div k = h \div k
        BY <1>1, <1>2, <2>1, <4>1, <4>2, QuotientBetween
      <4> QED
        BY <1>2, <4>1, <4>3
    <3>3. mem[x] = Source(TimeOf(n))[x]
      BY <1>2, <3>1, <3>2 DEF Keeping
    <3>4. i # j
      <4>1. n = (n \div PL) * PL + IndexOf(n) /\ h = (h \div PL) * PL + IndexOf(h)
        BY <1>1, <2>1, PlaceIs
      <4>2. SUFFICES ASSUME i = j PROVE FALSE
        OBVIOUS
      <4>3. IndexOf(n) = IndexOf(h)
        BY <2>2, <2>3, <4>2
      <4> QED
        BY <1>2, <2>8, <4>1, <4>3
    <3>5. ~(At(fmt, j - 1) <= x /\ x < At(fmt, j))
      BY <1>1, <2>2, <2>3, <2>5, <3>4, AtApart DEF PL
    <3> QED
      BY <1>1, <2>3, <2>6, <3>3, <3>5
  <2> QED
    BY <2>7, <2>8
<1>3. /\ PL' = PL /\ \A n : IndexOf(n)' = IndexOf(n) /\ TimeOf(n)' = TimeOf(n)
      /\ \A t : Source(t)' = Source(t)
  BY <1>1 DEF PL, IndexOf, TimeOf, Source
<1> QED
  BY <1>1, <1>2, <1>3 DEF Keeping

\* Nothing was dropped since the last completed frame: the packet is the next one.
LEMMA Uninterrupted ==
  ASSUME Counting, NEW h, NEW a, NEW b, Arrives(h, a, b),
         \A n \in gone : ~(shown.number < n /\ n <= h)
  PROVE  h - shown.number = IndexOf(h) + 1 /\ got + (b - a) = b
<1>1. /\ fmt \in Formats /\ h \in Nat /\ a = At(fmt, IndexOf(h)) /\ b = At(fmt, IndexOf(h) + 1)
      /\ a \in Nat /\ b \in Nat /\ seen[2] \in Int /\ -1 <= seen[2] /\ seen[2] < h
      /\ \A x \in seen[2] + 1 .. h - 1 : x \in gone
  BY DEF Arrives
<1>2. PICK s \in Int : s = shown.number /\ -1 <= s /\ s <= seen[2] /\ (s + 1) % PL = 0
  BY DEF Counting
<1>3. \A n \in gone : ~(s < n /\ n <= h)
  BY <1>2
<1>4. \A n \in gone : ~(s < n /\ n <= seen[2])
  <2>1. ASSUME NEW n \in gone, s < n, n <= seen[2] PROVE FALSE
    <3>1. SUFFICES n <= h
      BY <1>3, <2>1
    <3>2. n \in Nat
      BY DEF Arrives
    <3> QED
      BY <1>1, <2>1, <3>2
  <2> QED
    BY <2>1
<1>5. PICK d : d = seen[2] - s /\ d \in 0 .. PL - 1 /\ got = At(fmt, d)
  BY <1>2, <1>4 DEF Counting
<1>6. h = seen[2] + 1
  <2>1. SUFFICES ASSUME seen[2] + 1 < h PROVE FALSE
    BY <1>1
  <2>2. seen[2] + 1 \in seen[2] + 1 .. h - 1 /\ s < seen[2] + 1 /\ seen[2] + 1 <= h
    BY <1>1, <1>2, <2>1
  <2> QED
    BY <1>1, <1>3, <2>2
<1>7. PICK m \in Nat \ {0} : m = PL
  BY <1>1, Frames DEF PL
<1>8. PICK k, r : Divided(m, s + 1, k, r)
  BY <1>2, Remainder
<1>9. k \in Nat /\ s + 1 = k * m + 0
  <2>1. k \in Int /\ r = (s + 1) % m /\ s + 1 = k * m + r /\ (s + 1 >= 0 => k \in Nat)
    BY <1>8 DEF Divided
  <2>2. r = 0 /\ s + 1 >= 0
    BY <1>2, <1>7, <2>1
  <2> QED
    BY <2>1, <2>2
<1>10. h = k * m + d
  <2>1. k * m \in Nat
    BY <1>9, Product
  <2>2. d \in Int /\ h = (s + 1) + d
    BY <1>1, <1>2, <1>5, <1>6
  <2> QED
    BY <1>9, <2>1, <2>2
<1>11. IndexOf(h) = d
  BY <1>1, <1>5, <1>7, <1>9, <1>10, PlaceAt
<1>12. h - s = d + 1
  BY <1>1, <1>2, <1>5, <1>6
<1>13. got = a
  BY <1>1, <1>5, <1>11
<1>14. a + (b - a) = b
  BY <1>1
<1> QED
  BY <1>2, <1>11, <1>12, <1>13, <1>14

LEMMA CountingArrived ==
  ASSUME Counting, NEW h, NEW a, NEW b, Arrives(h, a, b)
  PROVE  Counting'
<1>1. /\ fmt \in Formats /\ h \in Nat /\ b = At(fmt, IndexOf(h) + 1)
      /\ seen[2] \in Int /\ seen[2] < h /\ seen'[2] = h
      /\ got' = IF Closes(h) THEN 0 ELSE got + (b - a)
      /\ UNCHANGED <<fmt, gone>>
  BY DEF Arrives
<1>2. PL' = PL
  BY <1>1 DEF PL
<1>3. PICK m \in Nat \ {0} : m = PL
  BY <1>1, Frames DEF PL
<1>4. IndexOf(h) \in 0 .. m - 1
  BY <1>1, <1>3, PlaceIs
<1>5. CASE Closes(h)
  <2>1. shown'.number = h /\ got' = 0
    BY <1>1, <1>5 DEF Arrives
  <2>2. (h + 1) % PL = 0
    <3>1. h + 1 = TimeOf(h) * PL /\ TimeOf(h) \in Nat
      <4>1. TimeOf(h) \in Nat
        <5>1. PICK q \in Nat : TimeOf(h) = q + 1
          BY <1>1, PlaceIs
        <5> QED
          BY <5>1
      <4> QED
        BY <1>1, <1>5, <4>1, PlaceNext DEF Closes
    <3>2. IndexOf(TimeOf(h) * PL) = 0
      BY <1>1, <3>1, PlaceFirst
    <3> QED
      BY <3>1, <3>2 DEF IndexOf
  <2>3. h - h = 0 /\ 0 \in 0 .. PL - 1 /\ At(fmt, 0) = 0 /\ -1 <= h /\ h <= h /\ h \in Int
    BY <1>1, <1>3, Frames
  <2> QED
    BY <1>1, <1>2, <2>1, <2>2, <2>3 DEF Counting
<1>6. CASE ~Closes(h)
  <2>1. shown' = shown /\ got' = got + (b - a)
    BY <1>1, <1>6 DEF Arrives
  <2>2. /\ shown.number \in Int /\ -1 <= shown.number /\ shown.number <= seen[2]
        /\ (shown.number + 1) % PL = 0
    BY DEF Counting
  <2>3. shown.number <= h
    BY <1>1, <2>2
  <2>4. ASSUME \A n \in gone : ~(shown.number < n /\ n <= h)
        PROVE  h - shown.number \in 0 .. PL - 1 /\ got + (b - a) = At(fmt, h - shown.number)
    <3>1. h - shown.number = IndexOf(h) + 1 /\ got + (b - a) = b
      BY <2>4, Uninterrupted
    <3>2. IndexOf(h) + 1 # m
      BY <1>3, <1>6 DEF Closes
    <3>3. IndexOf(h) + 1 \in 0 .. m - 1
      BY <1>4, <3>2
    <3> QED
      BY <1>1, <1>3, <3>1, <3>3
  <2> QED
    BY <1>1, <1>2, <2>1, <2>2, <2>3, <2>4 DEF Counting
<1> QED
  BY <1>5, <1>6

\* A line none of whose packets was dropped is right.
LEMMA LinesArrived ==
  ASSUME Keeping', NEW h, NEW a, NEW b, Arrives(h, a, b), Closes(h),
         NEW l \in 0 .. fmt.height - 1, \A n \in gone : l \notin LinesLost(n)'
  PROVE  l \in RightLines(TimeOf(h), mem')
<1>1. /\ fmt \in Formats /\ h \in Nat /\ TimeOf(h) \in 1 .. MaxFrames /\ seen'[2] = h
      /\ shown'.ts = TimeOf(h) /\ UNCHANGED <<fmt, gone>>
  BY DEF Arrives
<1>2. PICK m \in Nat \ {0} : m = PL
  BY <1>1, Frames DEF PL
<1>3. PICK g \in Nat \ {0}, y \in Nat \ {0} : g = fmt.pgs /\ y = fmt.height
  BY <1>1, PacketAssumption DEF IsFormat
<1>4. PICK c \in Nat : c = h \div PL /\ h = c * m + (m - 1) /\ TimeOf(h) = c + 1
  <2>1. PICK c \in Nat : c = h \div PL /\ TimeOf(h) = c + 1 /\ h = c * m + IndexOf(h)
    BY <1>1, <1>2, PlaceIs
  <2>2. IndexOf(h) \in 0 .. m - 1 /\ IndexOf(h) + 1 = m
    BY <1>1, <1>2, PlaceIs DEF Closes
  <2>3. IndexOf(h) = m - 1
    BY <2>2
  <2> QED
    BY <2>1, <2>3
<1>5. ASSUME NEW k \in 1 .. g
      PROVE  mem'[l * g + k - 1] = Source(TimeOf(h))[l * g + k - 1]
  <2>1. l * g \in Nat /\ l \in Nat
    <3>1. l \in Nat
      BY <1>3
    <3> QED
      BY <1>3, <3>1, Product
  <2>2. PICK x \in Nat : x = l * g + k - 1 /\ l * g <= x /\ x < l * g + g
    BY <1>3, <2>1
  <2>3. \A p \in Nat, q \in Nat : (p + 1) * q = p * q + q /\ p * q = q * p
    OBVIOUS
  <2>4. \A p \in Nat, q \in Nat : p < q => p * g + g <= q * g
    <3>1. TAKE p \in Nat, q \in Nat
    <3>2. HAVE p < q
    <3>3. PICK u \in Nat : u = p + 1 /\ u <= q
      BY <3>2
    <3>4. u * g <= q * g
      BY <1>3, <3>3, ProductLess
    <3> QED
      BY <1>3, <2>3, <3>3, <3>4
  <2>5. x < g * y
    <3>1. l < y
      BY <1>3
    <3>2. l * g + g <= y * g /\ y * g = g * y
      BY <1>3, <2>1, <2>3, <2>4, <3>1
    <3>3. y * g \in Nat
      BY <1>3, Product
    <3> QED
      BY <1>3, <2>1, <2>2, <3>2, <3>3
  <2>6. PICK i \in 1 .. PL : At(fmt, i - 1) <= x /\ x < At(fmt, i)
    BY <1>1, <1>3, <2>5, AtCovers DEF PL
  <2>7. PICK at, plan : PacketIs(fmt, i, at, plan)
    BY <1>1, Packets DEF PL
  <2>8. /\ plan = FramePlans[fmt][i] /\ Names(fmt, plan.srds, At(fmt, i - 1), At(fmt, i))
        /\ plan.srds \in Seq(SrdSet) /\ At(fmt, i - 1) \in Nat /\ At(fmt, i) \in Nat
    BY <2>7 DEF PacketIs, Carries
  <2>9. x \in At(fmt, i - 1) .. At(fmt, i) - 1
    BY <2>6, <2>8
  <2>10. PICK j \in 1 .. Len(plan.srds) :
           plan.srds[j].line * fmt.pgs <= x /\ x < (plan.srds[j].line + 1) * fmt.pgs
    BY <2>8, <2>9 DEF Names
  <2>11. j \in DOMAIN plan.srds
    BY <2>8, <2>10, LenProperties
  <2>12. plan.srds[j].line = l
    <3>1. PICK q \in Nat : q = plan.srds[j].line
      <4>1. PICK z : z = plan.srds /\ z \in Seq(SrdSet) /\ j \in 1 .. Len(z)
        BY <2>8
      <4>2. z[j] \in SrdSet
        BY <4>1, ElementOfSeq
      <4>3. z[j].line \in Nat
        BY <4>2 DEF SrdSet
      <4> QED
        BY <4>1, <4>3
    <3>2. q * g <= x /\ x < q * g + g
      BY <1>3, <2>3, <2>10, <3>1
    <3>3. q * g \in Nat
      BY <1>3, Product
    <3>3a. PICK v, w : v = l * g /\ w = q * g /\ v \in Nat /\ w \in Nat
      BY <2>1, <3>3
    <3>3b. v <= x /\ x < v + g /\ w <= x /\ x < w + g
      BY <2>2, <3>2, <3>3a
    <3>4. ~(q < l)
      <4>1. SUFFICES ASSUME q < l PROVE FALSE
        OBVIOUS
      <4>2. q * g + g <= l * g
        BY <2>1, <2>4, <4>1
      <4>3. w + g <= v
        BY <3>3a, <4>2
      <4> QED
        BY <3>3a, <3>3b, <4>3
    <3>5. ~(l < q)
      <4>1. SUFFICES ASSUME l < q PROVE FALSE
        OBVIOUS
      <4>2. l * g + g <= q * g
        BY <2>1, <2>4, <4>1
      <4>3. v + g <= w
        BY <3>3a, <4>2
      <4> QED
        BY <3>3a, <3>3b, <4>3
    <3> QED
      BY <2>1, <3>1, <3>4, <3>5
  <2>13. PICK n : n = c * PL + (i - 1)
    OBVIOUS
  <2>14. i - 1 \in 0 .. PL - 1
    BY <1>2
  <2>15. IndexOf(n) = i - 1 /\ n \div PL = c /\ TimeOf(n) = c + 1 /\ n \in Nat
    BY <1>1, <2>13, <2>14, PlaceAt
  <2>16. n <= h
    <3>1. c * m \in Nat
      BY Product
    <3> QED
      BY <1>2, <1>4, <2>13, <3>1
  <2>17. n \notin gone
    <3>1. l \in LinesLost(n)'
      <4>1. PICK plans : plans = FramePlans[fmt]
        OBVIOUS
      <4>2. Len(plans) = PL /\ (n \div Len(plans)) + 1 = shown'.ts /\ (n % Len(plans)) + 1 = i
        <5>1. Len(plans) = PL
          BY <4>1 DEF PL, PerFrame
        <5>2. (n % PL) + 1 = i
          BY <1>2, <2>15 DEF IndexOf
        <5> QED
          BY <1>1, <1>4, <2>15, <5>1, <5>2
      <4>3. LinesLost(n)' = {plan.srds[z].line : z \in DOMAIN plan.srds}
        BY <1>1, <2>8, <4>1, <4>2 DEF LinesLost
      <4> QED
        BY <2>11, <2>12, <4>3
    <3> QED
      BY <3>1
  <2>18. n \in 0 .. h /\ n \div PL = h \div PL
    BY <1>1, <1>4, <2>15, <2>16
  <2>19. x \in At(fmt, IndexOf(n)) .. At(fmt, IndexOf(n) + 1) - 1
    <3>1. (i - 1) + 1 = i
      BY <1>2
    <3> QED
      BY <2>9, <2>15, <3>1
  <2>20. mem'[x] = Source(TimeOf(n))[x]
    <3>1. /\ PL' = PL /\ \A z : IndexOf(z)' = IndexOf(z) /\ TimeOf(z)' = TimeOf(z)
          /\ \A t : Source(t)' = Source(t)
      BY <1>1 DEF PL, IndexOf, TimeOf, Source
    <3> QED
      BY <1>1, <2>17, <2>18, <2>19, <3>1 DEF Keeping
  <2> QED
    BY <1>4, <2>2, <2>15, <2>20
<1> QED
  BY <1>1, <1>3, <1>5, LineIsRight

LEMMA CompletedArrived ==
  ASSUME Counting, Completed, Keeping', NEW h, NEW a, NEW b, Arrives(h, a, b)
  PROVE  Completed'
<1>1. fmt \in Formats /\ h \in Nat /\ UNCHANGED <<fmt, gone>> /\ b = At(fmt, IndexOf(h) + 1)
  BY DEF Arrives
<1>2. CASE ~Closes(h)
  <2>1. shown' = shown
    BY <1>2 DEF Arrives
  <2> QED
    BY <1>1, <2>1 DEF Completed, LinesLost
<1>3. CASE Closes(h)
  <2>1. /\ shown'.number = h /\ shown'.first = shown.number + 1
        /\ shown'.right = RightLines(TimeOf(h), mem') /\ shown'.groups = got + (b - a)
    BY <1>3 DEF Arrives
  <2>2. ASSUME NEW l \in 0 .. fmt.height - 1, \A n \in gone : l \notin LinesLost(n)'
        PROVE  l \in shown'.right
    BY <1>3, <2>1, <2>2, LinesArrived
  <2>3. ASSUME gone \cap shown.number + 1 .. h = {}
        PROVE  got + (b - a) = fmt.pgs * fmt.height
    <3>1. shown.number \in Int
      BY DEF Counting
    <3>2. gone \subseteq Nat
      BY DEF Arrives
    <3>3. \A n \in gone : ~(shown.number < n /\ n <= h)
      BY <1>1, <2>3, <3>1, <3>2
    <3>4. got + (b - a) = b
      BY <3>3, Uninterrupted
    <3>5. b = At(fmt, PL)
      BY <1>1, <1>3 DEF Closes
    <3> QED
      BY <1>1, <3>4, <3>5, Frames DEF PL
  <2> QED
    BY <1>1, <2>1, <2>2, <2>3 DEF Completed
<1> QED
  BY <1>2, <1>3

LEMMA FrameArrived ==
  ASSUME LossInv, FrameInv, NEW S, QueuesOf(S), ring # <<>>, ring' = Tail(ring), UNCHANGED pending,
         Receive(Head(ring)), UNCHANGED <<fmt, txpc, seq, frame, cursor, active, gone>>
  PROVE  FrameInv'
<1>1. PICK m, w : /\ m \in Nat /\ w = Way' /\ Len(Way) = m + 1 /\ Len(w) = m
                  /\ \A k \in 1 .. m : w[k] = Way[k + 1]
                  /\ Head(ring) = Way[1] /\ 1 \in 1 .. m + 1
  BY WayShorter, Zenon
<1>2. Len(Way) \in Nat /\ Len(Way) # 0 /\ Receive(Way[1]) /\ UNCHANGED <<fmt, gone>>
  BY <1>1
<1>3. PICK h, a, b : Arrives(h, a, b)
  BY <1>2, Arrival
<1>4. Keeping'
  BY <1>3, KeepingArrived DEF FrameInv
<1>5. Counting' /\ Completed'
  BY <1>3, <1>4, CountingArrived, CompletedArrived DEF FrameInv
<1>6. \A n, pkt : (Sent(n, pkt)' <=> Sent(n, pkt)) /\ TimeOf(n)' = TimeOf(n)
  BY DEF Sent, Source, TimeOf, IndexOf, PL
<1>7. ASSUME NEW k \in 1 .. m
      PROVE  /\ w[k].n \in Nat /\ TimeOf(w[k].n) \in 1 .. MaxFrames /\ Sent(w[k].n, w[k].pkt)
  <2>1. k + 1 \in 1 .. m + 1
    BY <1>1
  <2> QED
    BY <1>1, <2>1 DEF FrameInv, Carrying
<1>8. Carrying'
  BY <1>1, <1>6, <1>7 DEF Carrying
<1>9. Sending'
  BY DEF FrameInv, Sending, TimeOf, IndexOf, PL
<1> QED
  BY <1>4, <1>5, <1>8, <1>9 DEF FrameInv

LEMMA InitFrame == Init => FrameInv
<1> SUFFICES ASSUME Init PROVE FrameInv
  OBVIOUS
<1>1. /\ fmt \in Formats /\ seq = 0 /\ frame = 0 /\ active = FALSE /\ pending = <<>> /\ ring = <<>>
      /\ seen = <<-1, -1>> /\ mem = Blank /\ got = 0 /\ shown = NoFrame /\ gone = {}
  BY DEF Init
<1>2. PICK m \in Nat \ {0} : m = PL
  BY <1>1, Frames DEF PL
<1>3. Sending
  <2>1. 0 = 0 * PL /\ 0 \in 0 .. MaxFrames
    <3>1. MaxFrames \in Nat
      BY WireAssumption
    <3> QED
      BY <1>2, <3>1
  <2> QED
    BY <1>1, <2>1 DEF Sending
<1>4. Carrying
  <2>1. ring \in Seq({}) /\ pending \in Seq({}) /\ Len(ring) = 0 /\ Len(pending) = 0
    BY <1>1, EmptySeq
  <2>2. Len(Way) = 0
    BY <2>1, ConcatProperties DEF Way
  <2> QED
    BY <2>2 DEF Carrying
<1>5. Keeping
  <2>1. DOMAIN mem = Groups(fmt)
    BY <1>1 DEF Blank
  <2>2. seen[2] = -1
    BY <1>1
  <2> QED
    BY <2>1, <2>2 DEF Keeping
<1>6. shown.number = -1 /\ seen[2] = -1
  BY <1>1 DEF NoFrame
<1>7. Counting
  <2>1. (-1 + 1) % PL = 0
    BY <1>2
  <2>2. -1 - (-1) = 0 /\ 0 \in 0 .. PL - 1 /\ At(fmt, 0) = 0
    BY <1>1, <1>2, Frames
  <2> QED
    BY <1>1, <1>6, <2>1, <2>2 DEF Counting
<1>8. Completed
  BY <1>6 DEF Completed
<1> QED
  BY <1>3, <1>4, <1>5, <1>7, <1>8 DEF FrameInv

\* The batch empties: the video thread goes on with its frame, or waits for one.
LEMMA SendingDrained ==
  ASSUME Sending, NEW rest, txpc' = AfterDrain(rest), UNCHANGED <<fmt, seq, frame, cursor, active>>
  PROVE  Sending'
<1>1. txpc' = "idle" => ~active
  BY DEF AfterDrain
<1> QED
  BY <1>1 DEF Sending, TimeOf, IndexOf, PL

LEMMA NextFrame ==
  ASSUME BufferInv, LossInv, FrameInv, [Next]_vars
  PROVE  FrameInv'
<1> USE DEF setupVars, txVars, audioVars, rxVars
<1>0. PICK S : QueuesOf(S)
  BY DEF BufferInv
<1>1. CASE StartFrame
  BY <1>1, FrameBegun
<1>2. CASE SendPacket
  BY <1>0, <1>2, FrameSent
<1>3. ASSUME NEW n \in 1 .. Batch, DrainSome(n) PROVE FrameInv'
  <2>1. /\ txpc' = AfterDrain(pending')
        /\ UNCHANGED <<fmt, seq, frame, cursor, active, seen, mem, got, shown, gone>>
    BY <1>3 DEF DrainSome
  <2>2. Way' = Way
    BY <1>0, <1>3, DrainedWay
  <2>3. Sending'
    BY <2>1, SendingDrained DEF FrameInv
  <2> QED
    BY <2>1, <2>2, <2>3, FrameKept
<1>4. CASE DrainFull
  <2>1. UNCHANGED <<fmt, seq, frame, cursor, active, ring, seen, mem, got, shown>>
    BY <1>4 DEF DrainFull
  <2>2. CASE UNCHANGED <<pending, gone, txpc>>
    <3>1. Way' = Way
      BY <2>1, <2>2 DEF Way
    <3>2. Sending'
      BY <2>1, <2>2 DEF FrameInv, Sending, TimeOf, IndexOf, PL
    <3> QED
      BY <2>1, <2>2, <3>1, <3>2, FrameKept
  <2>3. CASE /\ pending' = <<>> /\ txpc' = AfterDrain(<<>>)
             /\ gone' = gone \cup {pending[k].n : k \in DOMAIN pending}
    <3>1. PICK w : w = Way' /\ Cut(w)
      BY <1>0, <2>1, <2>3, WayCut
    <3>2. \A k \in 1 .. Len(w) : \E j \in 1 .. Len(Way) : w[k] = Way[j]
      BY <3>1 DEF Cut
    <3>3. Sending'
      BY <2>1, <2>3, SendingDrained DEF FrameInv
    <3> QED
      BY <2>1, <2>3, <3>1, <3>2, <3>3, FrameKept
  <2> QED
    BY <1>4, <2>2, <2>3 DEF DrainFull
<1>5. CASE NicSend
  <2>1. /\ ring # <<>> /\ ring' = Tail(ring) /\ Receive(Head(ring))
        /\ UNCHANGED <<fmt, txpc, seq, frame, cursor, active, pending, gone>>
    BY <1>5 DEF NicSend
  <2> QED
    BY <1>0, <2>1, FrameArrived
<1>6. CASE NicLose
  <2>1. /\ ring # <<>> /\ ring' = Tail(ring) /\ gone' = gone \cup {Head(ring).n}
        /\ UNCHANGED <<fmt, txpc, seq, frame, cursor, active, pending, seen, mem, got, shown>>
    BY <1>6 DEF NicLose
  <2>2. PICK m, w : /\ m \in Nat /\ w = Way' /\ Len(Way) = m + 1 /\ Len(w) = m
                    /\ \A k \in 1 .. m : w[k] = Way[k + 1]
                    /\ Head(ring) = Way[1] /\ 1 \in 1 .. m + 1
    BY <1>0, <2>1, WayShorter, Zenon
  <2>3. \A k \in 1 .. Len(w) : \E j \in 1 .. Len(Way) : w[k] = Way[j]
    <3>1. \A k \in 1 .. m : k + 1 \in 1 .. m + 1
      BY <2>2
    <3> QED
      BY <2>2, <3>1
  <2>4. Sending'
    BY <2>1 DEF FrameInv, Sending, TimeOf, IndexOf, PL
  <2> QED
    BY <2>1, <2>2, <2>3, <2>4, FrameKept
<1>7. CASE UNCHANGED <<fmt, txpc, seq, frame, cursor, active, pending, ring, seen, mem, got, shown, gone>>
  <2>1. Way' = Way
    BY <1>7 DEF Way
  <2>2. Sending'
    BY <1>7 DEF FrameInv, Sending, TimeOf, IndexOf, PL
  <2> QED
    BY <1>7, <2>1, <2>2, FrameKept
<1>8. CASE PoolEmpty \/ Audio \/ NicAudio \/ UNCHANGED vars
  BY <1>7, <1>8 DEF PoolEmpty, Audio, AudioStart, AudioReserve, AudioTry, NicAudio, vars
<1> QED
  BY <1>1, <1>2, <1>3, <1>4, <1>5, <1>6, <1>8 DEF Next, Video, Drain

LEMMA FrameIsWhole ==
  ASSUME BufferInv, FrameInv
  PROVE  FrameWhole
<1>1. PICK S : QueuesOf(S)
  BY DEF BufferInv
<1>2. PICK a, b : /\ a = Len(ring) /\ b = Len(pending) /\ a \in Nat /\ b \in Nat
                  /\ Len(Way) = a + b /\ \A k \in 1 .. b : Way[a + k] = pending[k]
  BY <1>1, WayIs
<1>3. ASSUME NEW k \in 1 .. b PROVE PayloadLen(fmt, pending[k].pkt) <= fmt.payload
  <2>1. a + k \in 1 .. a + b
    BY <1>2
  <2>2. PICK e : e = pending[k] /\ e = Way[a + k]
    BY <1>2
  <2>3. e.n \in Nat /\ Sent(e.n, e.pkt) /\ fmt \in Formats
    BY <1>2, <2>1, <2>2 DEF FrameInv, Carrying, Sending
  <2>4. PICK plan : PacketOf(e.n, e.pkt, plan)
    BY <2>3, SentSays
  <2> QED
    BY <2>2, <2>4 DEF PacketOf
<1>4. DOMAIN pending = 1 .. b
  BY <1>1, <1>2, LenProperties DEF QueuesOf
<1> QED
  BY <1>3, <1>4 DEF FrameInv, Completed, FrameWhole

-----------------------------------------------------------------------------
\* What arrives is right, and what does not is counted: of every completed frame each line
\* that no dropped packet had a part of is decoded to its picture (with IP10 within half a
\* step of the table), a frame nothing was dropped of has all its groups, no packet is larger
\* than the payload budget, and the lost packets are counted.
THEOREM SpecDelivered == Spec => []Delivered
<1>1. Init => BufferInv /\ LossInv /\ FrameInv
  BY InitBuffers, InitLoss, InitFrame
<1>2. (BufferInv /\ LossInv /\ FrameInv) /\ [Next]_vars => (BufferInv /\ LossInv /\ FrameInv)'
  BY NextBuffers, NextLoss, NextFrame
<1>3. BufferInv /\ LossInv /\ FrameInv => Delivered
  BY CountIsExact, FrameIsWhole DEF Delivered
<1> QED
  BY <1>1, <1>2, <1>3, PTL DEF Spec
=============================================================================
