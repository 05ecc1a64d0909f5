----------------------------- MODULE AudioProof -----------------------------
(***************************************************************************)
(* Proofs about the two ways audio takes, for every value of the constants. *)
(* AudioRelay: types, stamps that agree with the schedule, lip-sync, and    *)
(* that a relay which is run in time drops nothing.                         *)
(* AudioOps: the blocks under way are one sequence, whatever place each of  *)
(* them is in; a step leaves it alone, appends to it, or takes its first or *)
(* last block.                                                              *)
(***************************************************************************)
EXTENDS Audio, SequenceTheorems, TLAPS

-----------------------------------------------------------------------------
(* Arithmetic modulo M.                                                    *)

(* The stamp range is twice a positive number.                             *)
LEMMA Half == /\ M \in Nat /\ M >= 2
              /\ M \div 2 \in Nat /\ M = 2 * (M \div 2)
<1>1. M \in Nat \ {0} /\ M % 2 = 0
  BY RelayAssumption
<1> QED
  BY <1>1, SMT

(* There is at least one stamp.                                            *)
LEMMA Positive == M \in Nat \ {0}
BY RelayAssumption

(* A remainder is a stamp, and differs from its number by a multiple of M. *)
LEMMA Remainder ==
    ASSUME NEW x \in Int
    PROVE  /\ x % M \in 0 .. M - 1
           /\ \E k \in Int : x = k * M + (x % M)
<1>1. x % M \in 0 .. M - 1
  BY Positive, SMT
<1>2. x = M * (x \div M) + (x % M) /\ x \div M \in Int
  BY Positive, SMT
<1>3. x = (x \div M) * M + (x % M)
  BY <1>1, <1>2, Positive, SMT
<1> QED
  BY <1>1, <1>2, <1>3

(* A number that is a multiple of M and a stamp away has that remainder.   *)
LEMMA RemainderIs ==
    ASSUME NEW k \in Int, NEW r \in 0 .. M - 1, NEW x \in Int, x = k * M + r
    PROVE  x % M = r
BY Positive, SMT

(* rtp_unwrap_ns chooses an instant within half the stamp range of the     *)
(* arrival, which has the stamp.                                           *)
LEMMA NearestFits ==
    ASSUME NEW x \in Int
    PROVE  /\ Nearest(x) \in -(M \div 2) + 1 .. M \div 2
           /\ \E k \in Int : Nearest(x) = x + k * M
<1> DEFINE u == (-x) % M
<1>1. u \in 0 .. M - 1 /\ \E k \in Int : -x = k * M + u
  <2>1. -x \in Int
    BY SMT
  <2> QED
    BY <2>1, Remainder
<1>2. PICK k \in Int : -x = k * M + u
  BY <1>1
<1>3. Nearest(x) = -(IF u < M \div 2 THEN u ELSE u - M)
  BY DEF Nearest, Signed
<1> HIDE DEF u
<1>4. CASE u < M \div 2
  <2>1. Nearest(x) = -u /\ -u = x + k * M
    BY <1>1, <1>2, <1>3, <1>4, Half, SMT
  <2> QED
    BY <2>1, <1>1, <1>4, Half, SMT
<1>5. CASE u >= M \div 2
  <2>1. Nearest(x) = -(u - M)
    BY <1>1, <1>3, <1>5, Half, SMT
  <2>2. -(u - M) = x + (k + 1) * M
    BY <1>1, <1>2, Half, SMT
  <2> QED
    BY <2>1, <2>2, <1>1, <1>5, Half, SMT
<1> QED
  BY <1>1, <1>4, <1>5, Half, SMT

(* An instant within half the range of the arrival is the nearest one.     *)
LEMMA NearestOf ==
    ASSUME NEW x \in Int, NEW y \in -(M \div 2) + 1 .. M \div 2,
           NEW k \in Int, y = x + k * M
    PROVE  Nearest(x) = y
<1>1. PICK j \in Int : Nearest(x) = x + j * M
  BY NearestFits
<1>2. Nearest(x) \in -(M \div 2) + 1 .. M \div 2
  BY NearestFits
<1>3. Nearest(x) - y = (j - k) * M
  BY <1>1, Half, SMT
<1>4. Nearest(x) - y \in -(M - 1) .. M - 1
  BY <1>2, Half, SMT
<1>5. j = k
  <2>1. CASE j - k >= 1
    BY <2>1, <1>3, <1>4, <1>2, Half, SMT
  <2>2. CASE j - k <= -1
    BY <2>2, <1>3, <1>4, <1>2, Half, SMT
  <2> QED
    BY <2>1, <2>2
<1> QED
  BY <1>1, <1>5, Half, SMT

(* The stamp of a packet, relative to its capture time, is the inverse of  *)
(* the delta that gave the capture time.                                   *)
LEMMA RawMatches ==
    ASSUME NEW o \in Int, NEW d \in 0 .. M - 1
    PROVE  (((o - Nearest(o + d)) % M) + d) % M = 0
<1>1. PICK k \in Int : Nearest(o + d) = (o + d) + k * M
  <2>1. o + d \in Int
    OBVIOUS
  <2> QED
    BY <2>1, NearestFits
<1> DEFINE z == o - Nearest(o + d)
           r == z % M
<1>2. z \in Int /\ z = (-d) - k * M
  BY <1>1, Positive, SMT
<1>3. PICK j \in Int : z = j * M + r
  <2> HIDE DEF z
  <2> QED
    BY <1>2, Remainder
<1>4. r \in 0 .. M - 1
  <2> HIDE DEF z
  <2> QED
    BY <1>2, Remainder
<1> HIDE DEF z, r
<1> DEFINE i == (-k) - j
<1>5. r + d = i * M + 0
  BY <1>2, <1>3, <1>4, Positive, SMT
<1>6. i \in Int /\ r + d \in Int /\ 0 \in 0 .. M - 1
  BY <1>4, Positive, SMT
<1> HIDE DEF i
<1>7. (r + d) % M = 0
  BY <1>5, <1>6, RemainderIs
<1> QED
  BY <1>7 DEF r, z

(* A delta latched because stamp e, received with lag l, was outside the   *)
(* guard puts a correct stamp outside the guard too, whatever its lag g,   *)
(* unless e lies at the edge.                                              *)
LEMMA Border ==
    ASSUME NEW S \in Nat, NEW L \in Nat, L <= S, 2 * (S + L) < M,
           NEW e \in 1 .. M - 1, NEW l \in 0 .. L, NEW g \in 0 .. L,
           \A k \in -L .. L : e # (M - S + k) % M,
           Nearest(e - l) \notin -S .. S
    PROVE  Nearest((-g) + ((l - e) % M)) \notin -S .. S
<1> DEFINE y == Nearest((-g) + ((l - e) % M))
<1> SUFFICES ASSUME y \in -S .. S
             PROVE  FALSE
  OBVIOUS
<1>1. PICK i \in Int : l - e = i * M + ((l - e) % M)
  <2>1. l - e \in Int
    OBVIOUS
  <2> QED
    BY <2>1, Remainder
<1>2. (l - e) % M \in Int
  <2>1. l - e \in Int
    OBVIOUS
  <2>2. (l - e) % M \in 0 .. M - 1
    BY <2>1, Remainder
  <2> QED
    BY <2>2, Positive, SMT
<1>3. PICK k \in Int : y = ((-g) + ((l - e) % M)) + k * M
  <2>1. (-g) + ((l - e) % M) \in Int
    BY <1>2, SMT
  <2> QED
    BY <2>1, NearestFits
<1> HIDE DEF y
<1> DEFINE j == k - i
<1>4. y = ((-g) + (l - e)) + j * M
  <2> DEFINE r == (l - e) % M
  <2>1. l - e = i * M + r /\ r \in Int /\ y = ((-g) + r) + k * M
    BY <1>1, <1>2, <1>3
  <2> HIDE DEF r
  <2>2. (k - i) * M = k * M - i * M
    BY Positive, SMT
  <2> QED
    BY <2>1, <2>2, Positive, SMT
<1>5. j \in Int /\ e - l \in Int
  OBVIOUS
<1> HIDE DEF j
<1>6. j = 0 \/ j = 1
  <2>1. CASE j <= -1
    BY <2>1, <1>4, <1>5, Half, SMT
  <2>2. CASE j >= 2
    BY <2>2, <1>4, <1>5, Half, SMT
  <2> QED
    BY <2>1, <2>2, <1>5, SMT
<1>7. CASE j = 0
  <2>1. e - l \in -S .. S
    BY <1>4, <1>7, Half, SMT
  <2>2. e - l \in -(M \div 2) + 1 .. M \div 2
    BY <2>1, Half, SMT
  <2>3. 0 \in Int /\ e - l = (e - l) + 0 * M
    BY <1>5, Half, SMT
  <2>4. Nearest(e - l) = e - l
    BY <2>2, <2>3, <1>5, NearestOf
  <2> QED
    BY <2>1, <2>4
<1>8. CASE j = 1
  <2> DEFINE n == (-g) - y
  <2>1. n = (e - l) + (-1) * M
    BY <1>4, <1>8, Half, SMT
  <2>2. n \in -(M \div 2) + 1 .. M \div 2
    BY Half, SMT
  <2>3. n \in Int /\ n <= S
    BY SMT
  <2>4. CASE n >= -S
    <3>1. Nearest(e - l) = n
      <4> HIDE DEF n
      <4> QED
        BY <2>1, <2>2, <1>5, NearestOf
    <3> QED
      BY <3>1, <2>4, <2>3, SMT
  <2>5. CASE n < -S
    <3> DEFINE t == (n + S) + l
    <3>1. t \in -L .. L
      BY <2>5, <2>3, SMT
    <3>2. e = (M - S) + t
      BY <2>1, Half, SMT
    <3>3. e = (M - S + t) % M
      <4>1. e = M - S + t
        BY <3>2, <3>1, Half, SMT
      <4>2. e = 0 * M + e /\ e \in Int /\ 0 \in Int /\ e \in 0 .. M - 1
        BY Half, SMT
      <4>3. e % M = e
        BY <4>2, RemainderIs
      <4> QED
        BY <4>1, <4>3
    <3> QED
      BY <3>1, <3>3
  <2> QED
    BY <2>3, <2>4, <2>5, SMT
<1> QED
  BY <1>6, <1>7, <1>8

-----------------------------------------------------------------------------
(* Types.                                                                  *)

(* What the constants and the types say of one stream.                     *)
LEMMA StreamOK ==
    ASSUME TypeOK, NEW s \in Streams
    PROVE  /\ age[s] \in Nat /\ Period[s] \in Nat \ {0} /\ MaxLag[s] \in Nat
           /\ age[s] <= Period[s] + MaxLag[s]
           /\ Sane[s] \in Nat /\ 2 * (Sane[s] + MaxLag[s]) < M
           /\ epoch[s] \in 0 .. M - 1 /\ epoch[s] \in Epochs[s]
           /\ delta[s] \in 0 .. M - 1
           /\ Lag(s) \in Int /\ Stamp(s) \in Int
           /\ Lag(s) <= MaxLag[s]
<1>1. /\ age[s] \in Nat /\ Period[s] \in Nat \ {0} /\ MaxLag[s] \in Nat
      /\ age[s] <= Period[s] + MaxLag[s]
      /\ Sane[s] \in Nat /\ 2 * (Sane[s] + MaxLag[s]) < M
      /\ epoch[s] \in 0 .. M - 1 /\ epoch[s] \in Epochs[s]
      /\ delta[s] \in 0 .. M - 1
  BY RelayAssumption DEF TypeOK
<1>2. Lag(s) \in Int /\ Lag(s) <= MaxLag[s]
  BY <1>1, SMT DEF Lag
<1>3. Stamp(s) \in Int
  BY <1>1, <1>2, Positive, SMT DEF Stamp
<1> QED
  BY <1>1, <1>2, <1>3

(* The guard latches a delta of 32 bits.                                   *)
LEMMA DeltaTyped ==
    ASSUME TypeOK, NEW s \in Streams
    PROVE  DeltaAfter(s, Stamp(s)) \in 0 .. M - 1
<1>1. delta[s] \in 0 .. M - 1 /\ Stamp(s) \in Int
  BY StreamOK
<1>2. 0 \in 0 .. M - 1
  BY Positive, SMT
<1>3. Restamp(Stamp(s)) \in 0 .. M - 1
  <2>1. -Stamp(s) \in Int
    BY <1>1
  <2> QED
    BY <2>1, Remainder DEF Restamp
<1> QED
  BY <1>1, <1>2, <1>3 DEF DeltaAfter

(* The capture time and its error are numbers.                             *)
LEMMA CapturedTyped ==
    ASSUME TypeOK, NEW s \in Streams
    PROVE  Captured(s) \in Int /\ Off(s) \in Int
<1>1. Stamp(s) + DeltaAfter(s, Stamp(s)) \in Int
  BY StreamOK, DeltaTyped, Positive, SMT
<1>2. Captured(s) \in Int
  BY <1>1, NearestFits, Half, SMT DEF Captured
<1> QED
  BY <1>2, StreamOK, SMT DEF Off

(* Queued and held packets stay packets when time passes.                  *)
LEMMA LaterTyped ==
    ASSUME NEW p \in Packet
    PROVE  /\ Later(p) \in Packet
           /\ Later(p).raw = p.raw /\ Later(p).delta = p.delta
           /\ Later(p).off = p.off /\ Later(p).on = p.on
BY RelayAssumption, SMT DEF Later, Packet

(* The packet that audio_ingest pushes.                                    *)
Ingested ==
    [left  |-> Captured("audio") + Shift,
     raw   |-> (Stamp("audio") - Captured("audio")) % M,
     delta |-> DeltaAfter("audio", Stamp("audio")),
     off   |-> Off("audio"),
     on    |-> epoch["audio"] = 0]

(* It is a packet.                                                         *)
LEMMA IngestedTyped ==
    ASSUME TypeOK
    PROVE  Ingested \in Packet
<1>1. "audio" \in Streams
  BY DEF Streams
<1>2. /\ Captured("audio") \in Int /\ Off("audio") \in Int
      /\ DeltaAfter("audio", Stamp("audio")) \in 0 .. M - 1
      /\ Stamp("audio") \in Int
  BY <1>1, CapturedTyped, DeltaTyped, StreamOK
<1>3. Captured("audio") + Shift \in Int
  BY <1>2, RelayAssumption, SMT DEF Shift
<1>4. (Stamp("audio") - Captured("audio")) % M \in 0 .. M - 1
  <2>1. Stamp("audio") - Captured("audio") \in Int
    BY <1>2
  <2> QED
    BY <2>1, Remainder
<1> QED
  BY <1>2, <1>3, <1>4 DEF Ingested, Packet

(* The start has the types.                                                *)
LEMMA InitType == Init => TypeOK
<1> SUFFICES ASSUME Init PROVE TypeOK
  OBVIOUS
<1>1. age \in [Streams -> Nat] /\ \A s \in Streams : age[s] <= Period[s] + MaxLag[s]
  BY RelayAssumption, SMT DEF Init
<1>2. \A s \in Streams : epoch[s] \in Epochs[s] /\ Epochs[s] \subseteq 0 .. M - 1
  BY RelayAssumption DEF Init
<1>3. epoch \in [Streams -> 0 .. M - 1]
  <2>1. epoch \in [Streams -> UNION {Epochs[s] : s \in Streams}]
    BY DEF Init
  <2> QED
    BY <1>2, <2>1
<1>4. delta \in [Streams -> 0 .. M - 1]
  BY Positive, SMT DEF Init
<1>5. video \in [off : Int, on : BOOLEAN] /\ stop \in BOOLEAN
      /\ drops \in BOOLEAN /\ hopped \in BOOLEAN
  <2>1. 0 \in Int
    OBVIOUS
  <2> QED
    BY <2>1 DEF Init
<1>6. q \in Seq(Packet) /\ Len(q) <= Cap /\ stall \in 0 .. MaxStall /\ out \in 0 .. M - 1
  BY RelayAssumption, SMT DEF Init
<1>7. hand \in Packet /\ pc \in {"head", "pop", "hold", "done"}
  BY Positive, SMT DEF Init, NoPacket, Packet
<1> QED
  BY <1>1, <1>2, <1>3, <1>4, <1>5, <1>6, <1>7 DEF TypeOK

(* An arrival or a loss takes one period off the age of its stream.        *)
LEMMA AgeTyped ==
    ASSUME TypeOK, NEW s \in Streams, Lag(s) >= 0,
           age' = [age EXCEPT ![s] = Lag(s)]
    PROVE  /\ age' \in [Streams -> Nat]
           /\ \A t \in Streams : age'[t] <= Period[t] + MaxLag[t]
<1>1. /\ Lag(s) \in Nat /\ Lag(s) <= MaxLag[s]
      /\ Period[s] \in Nat /\ MaxLag[s] \in Nat
  BY StreamOK, SMT
<1>2. Lag(s) <= Period[s] + MaxLag[s]
  BY <1>1, SMT
<1> QED
  BY <1>1, <1>2 DEF TypeOK

(* Every step keeps the types.                                             *)
LEMMA NextType == TypeOK /\ [Next]_vars => TypeOK'
<1> SUFFICES ASSUME TypeOK, [Next]_vars PROVE TypeOK'
  OBVIOUS
<1> USE DEF relayVars, source
<1>1. ASSUME NEW s \in Streams, EpochStep(s) PROVE TypeOK'
  <2>1. PICK e \in Epochs[s] : epoch' = [epoch EXCEPT ![s] = e]
    BY <1>1 DEF EpochStep
  <2>2. Epochs[s] \subseteq 0 .. M - 1
    BY RelayAssumption
  <2>3. epoch' \in [Streams -> 0 .. M - 1] /\ \A t \in Streams : epoch'[t] \in Epochs[t]
    BY <2>1, <2>2 DEF TypeOK
  <2> QED
    BY <1>1, <2>3 DEF EpochStep, TypeOK
<1>2. ASSUME NEW s \in Streams, Lose(s) PROVE TypeOK'
  <2>1. /\ age' \in [Streams -> Nat]
        /\ \A t \in Streams : age'[t] <= Period[t] + MaxLag[t]
    BY <1>2, AgeTyped DEF Lose
  <2> QED
    BY <1>2, <2>1 DEF Lose, TypeOK
<1>3. CASE VideoArrives
  <2>0. "video" \in Streams
    BY DEF Streams
  <2>1. /\ age' \in [Streams -> Nat]
        /\ \A t \in Streams : age'[t] <= Period[t] + MaxLag[t]
    BY <1>3, <2>0, AgeTyped DEF VideoArrives
  <2>2. delta' \in [Streams -> 0 .. M - 1]
    BY <1>3, <2>0, DeltaTyped DEF VideoArrives, TypeOK
  <2>3. video' \in [off : Int, on : BOOLEAN]
    BY <1>3, <2>0, CapturedTyped DEF VideoArrives
  <2> QED
    BY <1>3, <2>1, <2>2, <2>3 DEF VideoArrives, TypeOK
<1>4. CASE AudioArrives
  <2>0. "audio" \in Streams
    BY DEF Streams
  <2>1. /\ age' \in [Streams -> Nat]
        /\ \A t \in Streams : age'[t] <= Period[t] + MaxLag[t]
    BY <1>4, <2>0, AgeTyped DEF AudioArrives
  <2>2. delta' \in [Streams -> 0 .. M - 1]
    BY <1>4, <2>0, DeltaTyped DEF AudioArrives, TypeOK
  <2>3. q' = IF HasSpace THEN Append(q, Ingested) ELSE q
    BY <1>4 DEF AudioArrives, Ingested
  <2>4. q' \in Seq(Packet) /\ Len(q') <= Cap
    <3>1. Ingested \in Packet
      BY IngestedTyped
    <3>2. q \in Seq(Packet) /\ Len(q) <= Cap /\ Cap \in Nat
      BY RelayAssumption DEF TypeOK
    <3> QED
      BY <2>3, <3>1, <3>2, SMT DEF HasSpace
  <2>5. drops' \in BOOLEAN /\ hopped' \in BOOLEAN
    BY <1>4 DEF AudioArrives, TypeOK
  <2> QED
    BY <1>4, <2>1, <2>2, <2>4, <2>5 DEF AudioArrives, TypeOK
<1>5. CASE RelayHead
  BY <1>5 DEF RelayHead, TypeOK
<1>6. CASE RelayPop
  <2>1. q' \in Seq(Packet) /\ Len(q') <= Cap /\ hand' \in Packet
    BY <1>6, RelayAssumption, SMT DEF RelayPop, TypeOK
  <2> QED
    BY <1>6, <2>1 DEF RelayPop, TypeOK
<1>7. CASE RelayTimeout
  BY <1>7 DEF RelayTimeout, TypeOK
<1>8. NoPacket \in Packet
  BY Positive, SMT DEF NoPacket, Packet
<1>9. CASE RelayDrops
  BY <1>8, <1>9 DEF RelayDrops, TypeOK
<1>10. CASE RelaySubmits
  <2>1. OutStamp \in 0 .. M - 1
    <3>1. hand.raw \in 0 .. M - 1 /\ hand.delta \in 0 .. M - 1
      BY DEF TypeOK, Packet
    <3>2. hand.raw + hand.delta \in Int
      BY <3>1, Positive, SMT
    <3> QED
      BY <3>2, Remainder DEF OutStamp
  <2> QED
    BY <1>8, <1>10, <2>1 DEF RelaySubmits, TypeOK
<1>11. CASE StopAudio
  BY <1>11 DEF StopAudio, TypeOK
<1>12. CASE Elapse
  <2>1. /\ age' \in [Streams -> Nat]
        /\ \A t \in Streams : age'[t] <= Period[t] + MaxLag[t]
    <3>1. \A t \in Streams : age[t] \in Nat /\ age[t] < Period[t] + MaxLag[t]
                             /\ Period[t] \in Nat /\ MaxLag[t] \in Nat
      BY <1>12, StreamOK DEF Elapse
    <3>2. \A t \in Streams : age[t] + 1 \in Nat /\ age[t] + 1 <= Period[t] + MaxLag[t]
      BY <3>1, SMT
    <3>3. age' = [t \in Streams |-> age[t] + 1]
      BY <1>12 DEF Elapse
    <3> QED
      BY <3>2, <3>3
  <2>2. q' \in Seq(Packet) /\ Len(q') = Len(q)
    <3>1. q \in Seq(Packet) /\ q' = [i \in DOMAIN q |-> Later(q[i])]
      BY <1>12 DEF Elapse, TypeOK
    <3>2. \A i \in DOMAIN q : Later(q[i]) \in Packet
      <4> TAKE i \in DOMAIN q
      <4>1. q[i] \in Packet
        BY <3>1, SMT
      <4> QED
        BY <4>1, LaterTyped
    <3> QED
      BY <3>1, <3>2, SMT
  <2>3. hand' \in Packet
    BY <1>12, LaterTyped DEF Elapse, TypeOK
  <2>4. stall' \in 0 .. MaxStall
    BY <1>12, RelayAssumption, SMT DEF Elapse, TypeOK
  <2> QED
    BY <1>12, <2>1, <2>2, <2>3, <2>4 DEF Elapse, TypeOK
<1>13. CASE UNCHANGED vars
  BY <1>13 DEF vars, TypeOK
<1> QED
  BY <1>1, <1>2, <1>3, <1>4, <1>5, <1>6, <1>7, <1>9, <1>10, <1>11, <1>12, <1>13
     DEF Next, Arrives, RelayStep

(* Every variable keeps its type, and the bridge its limit, for any size   *)
(* of the bridge and any periods, lags and epochs.                         *)
THEOREM RelayTypeCorrect == Spec => []TypeOK
BY InitType, NextType, PTL DEF Spec

-----------------------------------------------------------------------------
(* Stamps and lip-sync.  StampOnSchedule and LipSync speak of packets that *)
(* have been through the bridge, so the invariant says of every packet in  *)
(* the bridge what the guard made true of it when it arrived, and of every *)
(* latched delta which stamp it comes from.                                *)

\* d is the verbatim delta, or it was latched for a wrong stamp that the
\* guard of s refuses.
FromWrong(s, d) ==
    \/ d = 0
    \/ \E e \in Epochs[s] \ {0}, l \in 0 .. MaxLag[s] :
           d = (l - e) % M /\ ~Within(s, Nearest(e - l))

Good(p) == /\ (p.raw + p.delta) % M = 0
           /\ HealthyNetwork => (p.on => p.off = 0)

GuardInv == HealthyNetwork => /\ \A s \in Streams : FromWrong(s, delta[s])
                              /\ video.on => video.off = 0
HeldInv == /\ \A i \in 1 .. Len(q) : Good(q[i])
           /\ Good(hand)
RelayInv == TypeOK /\ out = 0 /\ GuardInv /\ HeldInv

(* A correct stamp is inside the guard of a healthy network.               *)
LEMMA CorrectWithin ==
    ASSUME TypeOK, HealthyNetwork, NEW s \in Streams, Lag(s) >= 0, epoch[s] = 0
    PROVE  /\ Stamp(s) = -Lag(s)
           /\ Nearest(Stamp(s)) = -Lag(s)
           /\ Within(s, Nearest(Stamp(s)))
<1>1. /\ Lag(s) \in Int /\ Lag(s) <= MaxLag[s] /\ MaxLag[s] \in Nat
      /\ Sane[s] \in Nat /\ 2 * (Sane[s] + MaxLag[s]) < M
  BY StreamOK
<1>2. MaxLag[s] <= Sane[s]
  BY DEF HealthyNetwork
<1>3. Stamp(s) = -Lag(s)
  BY <1>1, SMT DEF Stamp
<1>4. Nearest(-Lag(s)) = -Lag(s)
  <2> DEFINE x == -Lag(s)
  <2>1. x \in Int /\ x \in -(M \div 2) + 1 .. M \div 2
    BY <1>1, Half, SMT
  <2>2. x = x + 0 * M /\ 0 \in Int
    BY <2>1, Half, SMT
  <2> HIDE DEF x
  <2>3. Nearest(x) = x
    BY <2>1, <2>2, NearestOf
  <2> QED
    BY <2>3 DEF x
<1>5. -Lag(s) \in -Sane[s] .. Sane[s]
  BY <1>1, <1>2, SMT
<1> QED
  BY <1>3, <1>4, <1>5 DEF Within

(* A delta latched for a wrong stamp is released by the first correct one. *)
LEMMA Releases ==
    ASSUME TypeOK, HealthyNetwork, NEW s \in Streams, Lag(s) >= 0,
           epoch[s] = 0, FromWrong(s, delta[s])
    PROVE  DeltaAfter(s, Stamp(s)) = 0
<1>1. /\ Lag(s) \in Int /\ Lag(s) <= MaxLag[s] /\ MaxLag[s] \in Nat
      /\ Sane[s] \in Nat /\ 2 * (Sane[s] + MaxLag[s]) < M
  BY StreamOK
<1>2. Stamp(s) = -Lag(s) /\ Within(s, Nearest(Stamp(s)))
  BY CorrectWithin
<1>3. CASE delta[s] = 0
  <2>1. Stamp(s) + delta[s] = Stamp(s)
    BY <1>3, <1>1, <1>2, SMT
  <2> QED
    BY <2>1, <1>2, <1>3 DEF DeltaAfter
<1>4. CASE delta[s] # 0
  <2>1. PICK e \in Epochs[s] \ {0}, l \in 0 .. MaxLag[s] :
            delta[s] = (l - e) % M /\ ~Within(s, Nearest(e - l))
    BY <1>4 DEF FromWrong
  <2>2. Epochs[s] \subseteq 0 .. M - 1
        /\ \A k \in -MaxLag[s] .. MaxLag[s] : e # (M - Sane[s] + k) % M
    BY <2>1, RelayAssumption
  <2>3. e \in 1 .. M - 1 /\ MaxLag[s] <= Sane[s] /\ Lag(s) \in 0 .. MaxLag[s]
    <3>1. e \in 0 .. M - 1 /\ e # 0
      BY <2>1, <2>2
    <3>2. MaxLag[s] <= Sane[s]
      BY DEF HealthyNetwork
    <3> QED
      BY <3>1, <3>2, <1>1, Positive, SMT
  <2>4. Nearest(e - l) \notin -Sane[s] .. Sane[s]
    BY <2>1 DEF Within
  <2>5. Nearest((-Lag(s)) + ((l - e) % M)) \notin -Sane[s] .. Sane[s]
    <3> DEFINE S == Sane[s]
               L == MaxLag[s]
               g == Lag(s)
    <3>1. S \in Nat /\ L \in Nat /\ L <= S /\ 2 * (S + L) < M
          /\ g \in 0 .. L /\ l \in 0 .. L
          /\ Nearest(e - l) \notin -S .. S
          /\ \A k \in -L .. L : e # (M - S + k) % M
      BY <1>1, <2>1, <2>2, <2>3, <2>4
    <3> HIDE DEF S, L, g
    <3>2. Nearest((-g) + ((l - e) % M)) \notin -S .. S
      BY <3>1, <2>3, Border
    <3> QED
      BY <3>2 DEF S, L, g
  <2>6. ~Within(s, Nearest(Stamp(s) + delta[s]))
    BY <2>5, <2>1, <1>2 DEF Within
  <2>7. Returns(s, Stamp(s))
    BY <1>4, <1>2 DEF Returns
  <2> QED
    BY <2>6, <2>7 DEF DeltaAfter
<1> QED
  BY <1>3, <1>4

(* A packet with a correct stamp has the capture time of its stamp.        *)
LEMMA CorrectOff ==
    ASSUME TypeOK, HealthyNetwork, NEW s \in Streams, Lag(s) >= 0,
           epoch[s] = 0, FromWrong(s, delta[s])
    PROVE  Off(s) = 0
<1>1. DeltaAfter(s, Stamp(s)) = 0
  BY Releases
<1>2. Nearest(Stamp(s)) = -Lag(s) /\ Stamp(s) \in Int /\ Lag(s) \in Int
  BY CorrectWithin, StreamOK
<1>3. Stamp(s) + DeltaAfter(s, Stamp(s)) = Stamp(s)
  BY <1>1, <1>2, SMT
<1>4. Captured(s) = -Lag(s)
  BY <1>2, <1>3 DEF Captured
<1> QED
  BY <1>2, <1>4, SMT DEF Off

(* The guard latches a delta for a wrong stamp only.                       *)
LEMMA LatchesForWrong ==
    ASSUME TypeOK, HealthyNetwork, NEW s \in Streams, Lag(s) >= 0,
           FromWrong(s, delta[s])
    PROVE  FromWrong(s, DeltaAfter(s, Stamp(s)))
<1>1. CASE epoch[s] = 0
  <2>1. DeltaAfter(s, Stamp(s)) = 0
    BY <1>1, Releases
  <2> QED
    BY <2>1 DEF FromWrong
<1>2. CASE epoch[s] # 0 /\ DeltaAfter(s, Stamp(s)) # delta[s] /\ DeltaAfter(s, Stamp(s)) # 0
  <2>1. /\ Lag(s) \in Int /\ Lag(s) <= MaxLag[s] /\ MaxLag[s] \in Nat
        /\ epoch[s] \in Int /\ epoch[s] \in Epochs[s] \ {0} /\ Stamp(s) \in Int
    BY <1>2, StreamOK, Positive, SMT
  <2>2. /\ ~Within(s, Nearest(Stamp(s) + delta[s]))
        /\ ~Returns(s, Stamp(s))
        /\ DeltaAfter(s, Stamp(s)) = Restamp(Stamp(s))
    BY <1>2 DEF DeltaAfter
  <2>3. ~Within(s, Nearest(Stamp(s)))
    <3>1. CASE delta[s] = 0
      <4>1. Stamp(s) + delta[s] = Stamp(s)
        BY <3>1, <2>1, SMT
      <4> QED
        BY <4>1, <2>2
    <3>2. CASE delta[s] # 0
      BY <3>2, <2>2 DEF Returns
    <3> QED
      BY <3>1, <3>2
  <2>4. Stamp(s) = epoch[s] - Lag(s) /\ -Stamp(s) = Lag(s) - epoch[s]
        /\ Lag(s) \in 0 .. MaxLag[s]
    BY <2>1, SMT DEF Stamp
  <2>5. Restamp(Stamp(s)) = (Lag(s) - epoch[s]) % M
    BY <2>4 DEF Restamp
  <2> QED
    BY <2>1, <2>2, <2>3, <2>4, <2>5 DEF FromWrong
<1> QED
  BY <1>1, <1>2 DEF FromWrong

(* What audio_ingest pushes is good.                                       *)
LEMMA IngestedGood ==
    ASSUME TypeOK, GuardInv, Lag("audio") >= 0
    PROVE  Good(Ingested)
<1> DEFINE d == DeltaAfter("audio", Stamp("audio"))
<1>1. "audio" \in Streams
  BY DEF Streams
<1>2. Stamp("audio") \in Int /\ d \in 0 .. M - 1
  BY <1>1, StreamOK, DeltaTyped
<1>3. (((Stamp("audio") - Captured("audio")) % M) + d) % M = 0
  <2> HIDE DEF d
  <2>1. (((Stamp("audio") - Nearest(Stamp("audio") + d)) % M) + d) % M = 0
    BY <1>2, RawMatches
  <2> QED
    BY <2>1 DEF d, Captured
<1>4. (Ingested.raw + Ingested.delta) % M = 0
  BY <1>3 DEF Ingested
<1>5. HealthyNetwork => (Ingested.on => Ingested.off = 0)
  <2> SUFFICES ASSUME HealthyNetwork, epoch["audio"] = 0 PROVE Off("audio") = 0
    BY DEF Ingested
  <2>1. FromWrong("audio", delta["audio"])
    BY <1>1 DEF GuardInv
  <2> QED
    BY <1>1, <2>1, CorrectOff
<1> QED
  BY <1>4, <1>5 DEF Good

(* The place holder of an empty hand is good.                              *)
LEMMA NoPacketGood == Good(NoPacket)
<1>1. (0 + 0) % M = 0
  <2>1. 0 = 0 * M + 0 /\ 0 \in 0 .. M - 1 /\ 0 \in Int
    BY Positive, SMT
  <2>2. 0 % M = 0
    BY <2>1, RemainderIs
  <2> QED
    BY <2>2, SMT
<1> QED
  BY <1>1 DEF Good, NoPacket

(* Waiting changes neither stamp nor capture time.                         *)
LEMMA LaterGood ==
    ASSUME NEW p \in Packet, Good(p)
    PROVE  Good(Later(p))
BY LaterTyped DEF Good

(* The start has the invariant.                                            *)
LEMMA InitRelay == Init => RelayInv
<1> SUFFICES ASSUME Init PROVE RelayInv
  OBVIOUS
<1>1. out = 0
  BY DEF Init
<1>2. GuardInv
  BY DEF Init, GuardInv, FromWrong
<1>3. HeldInv
  <2>1. Len(q) = 0 /\ hand = NoPacket
    BY DEF Init
  <2>2. 1 .. Len(q) = {}
    BY <2>1, SMT
  <2> QED
    BY <2>1, <2>2, NoPacketGood DEF HeldInv
<1> QED
  BY <1>1, <1>2, <1>3, InitType DEF RelayInv

(* Every step keeps the invariant.                                         *)
LEMMA NextRelay == RelayInv /\ [Next]_vars => RelayInv'
<1> SUFFICES ASSUME RelayInv, [Next]_vars PROVE RelayInv'
  OBVIOUS
<1> USE DEF relayVars, source
<1>0. TypeOK /\ out = 0 /\ GuardInv /\ HeldInv /\ TypeOK'
  BY NextType DEF RelayInv
<1>q. q \in Seq(Packet) /\ hand \in Packet
  BY <1>0 DEF TypeOK
<1>1. ASSUME UNCHANGED <<delta, video, out, q, hand>> PROVE RelayInv'
  <2>1. GuardInv'
    BY <1>0, <1>1 DEF GuardInv, FromWrong, HealthyNetwork, Within, Nearest, Signed
  <2>2. HeldInv'
    BY <1>0, <1>1 DEF HeldInv, Good, HealthyNetwork
  <2> QED
    BY <1>0, <1>1, <2>1, <2>2 DEF RelayInv
<1>2. ASSUME NEW s \in Streams, EpochStep(s) PROVE RelayInv'
  BY <1>1, <1>2 DEF EpochStep
<1>3. ASSUME NEW s \in Streams, Lose(s) PROVE RelayInv'
  BY <1>1, <1>3 DEF Lose
<1>4. CASE VideoArrives
  <2>0. "video" \in Streams
    BY DEF Streams
  <2>1. ASSUME HealthyNetwork, NEW t \in Streams PROVE FromWrong(t, delta'[t])
    <3>1. FromWrong(t, delta[t]) /\ FromWrong("video", delta["video"])
      BY <1>0, <2>0, <2>1 DEF GuardInv
    <3>2. CASE t = "video"
      <4>1. delta'["video"] = DeltaAfter("video", Stamp("video"))
        BY <1>4, <1>0, <2>0 DEF VideoArrives, TypeOK
      <4>2. Lag("video") >= 0
        BY <1>4 DEF VideoArrives
      <4>3. FromWrong("video", DeltaAfter("video", Stamp("video")))
        BY <1>0, <2>0, <2>1, <3>1, <4>2, LatchesForWrong
      <4> QED
        BY <3>2, <4>1, <4>3
    <3>3. CASE t # "video"
      <4>1. delta'[t] = delta[t]
        BY <1>4, <1>0, <3>3 DEF VideoArrives, TypeOK
      <4> QED
        BY <3>1, <4>1
    <3> QED
      BY <3>2, <3>3
  <2>2. ASSUME HealthyNetwork, video'.on PROVE video'.off = 0
    <3>1. epoch["video"] = 0 /\ Lag("video") >= 0 /\ video'.off = Off("video")
      BY <1>4, <2>2 DEF VideoArrives
    <3>2. FromWrong("video", delta["video"])
      BY <1>0, <2>0, <2>2 DEF GuardInv
    <3> QED
      BY <1>0, <2>0, <2>2, <3>1, <3>2, CorrectOff
  <2>3. GuardInv'
    BY <2>1, <2>2 DEF GuardInv, FromWrong, HealthyNetwork, Within, Nearest, Signed
  <2>4. HeldInv' /\ out' = 0
    BY <1>0, <1>4 DEF VideoArrives, HeldInv, Good, HealthyNetwork
  <2> QED
    BY <1>0, <2>3, <2>4 DEF RelayInv
<1>5. CASE AudioArrives
  <2>0. "audio" \in Streams /\ Lag("audio") >= 0
    BY <1>5 DEF Streams, AudioArrives
  <2>1. ASSUME HealthyNetwork, NEW t \in Streams PROVE FromWrong(t, delta'[t])
    <3>1. FromWrong(t, delta[t]) /\ FromWrong("audio", delta["audio"])
      BY <1>0, <2>0, <2>1 DEF GuardInv
    <3>2. CASE t = "audio"
      <4>1. delta'["audio"] = DeltaAfter("audio", Stamp("audio"))
        BY <1>5, <1>0, <2>0 DEF AudioArrives, TypeOK
      <4>2. FromWrong("audio", DeltaAfter("audio", Stamp("audio")))
        BY <1>0, <2>0, <2>1, <3>1, LatchesForWrong
      <4> QED
        BY <3>2, <4>1, <4>2
    <3>3. CASE t # "audio"
      <4>1. delta'[t] = delta[t]
        BY <1>5, <1>0, <3>3 DEF AudioArrives, TypeOK
      <4> QED
        BY <3>1, <4>1
    <3> QED
      BY <3>2, <3>3
  <2>2. GuardInv'
    <3>1. video' = video
      BY <1>5 DEF AudioArrives
    <3> QED
      BY <1>0, <2>1, <3>1
         DEF GuardInv, FromWrong, HealthyNetwork, Within, Nearest, Signed
  <2>3. Good(Ingested)
    BY <1>0, <2>0, IngestedGood
  <2>4. q' = IF HasSpace THEN Append(q, Ingested) ELSE q
    BY <1>5 DEF AudioArrives, Ingested
  <2>5. \A i \in 1 .. Len(q') : Good(q'[i])
    <3>1. \A i \in 1 .. Len(q) : Good(q[i])
      BY <1>0 DEF HeldInv
    <3>2. Ingested \in Packet
      BY <1>0, IngestedTyped
    <3>3. CASE HasSpace
      <4>1. q' = Append(q, Ingested)
        BY <2>4, <3>3
      <4>2. TAKE i \in 1 .. Len(q')
      <4>3. q'[i] = Ingested \/ (i \in 1 .. Len(q) /\ q'[i] = q[i])
        BY <1>q, <3>2, <4>1, SMT
      <4> QED
        BY <2>3, <3>1, <4>3
    <3> QED
      BY <2>4, <3>1, <3>3
  <2>6. HeldInv' /\ out' = 0
    <3>1. hand' = hand /\ out' = out
      BY <1>5 DEF AudioArrives
    <3> QED
      BY <1>0, <2>5, <3>1 DEF HeldInv, Good, HealthyNetwork
  <2> QED
    BY <1>0, <2>2, <2>6 DEF RelayInv
<1>6. CASE RelayHead
  BY <1>1, <1>6 DEF RelayHead
<1>7. ASSUME UNCHANGED <<delta, video>>, out' = 0, HeldInv' PROVE RelayInv'
  <2>1. GuardInv'
    BY <1>0, <1>7 DEF GuardInv, FromWrong, HealthyNetwork, Within, Nearest, Signed
  <2> QED
    BY <1>0, <1>7, <2>1 DEF RelayInv
<1>8. CASE RelayPop
  <2>1. q # <<>> /\ hand' = Head(q) /\ q' = Tail(q) /\ UNCHANGED <<delta, video, out>>
    BY <1>8 DEF RelayPop
  <2>2. \A i \in 1 .. Len(q) : Good(q[i])
    BY <1>0 DEF HeldInv
  <2>3. 1 \in 1 .. Len(q) /\ hand' = q[1]
    BY <1>q, <2>1, SMT
  <2>4. \A i \in 1 .. Len(q') : i + 1 \in 1 .. Len(q) /\ q'[i] = q[i + 1]
    BY <1>q, <2>1, SMT
  <2>5. Good(hand') /\ \A i \in 1 .. Len(q') : Good(q'[i])
    BY <2>2, <2>3, <2>4
  <2>6. HeldInv'
    BY <2>5 DEF HeldInv, Good, HealthyNetwork
  <2> QED
    BY <1>0, <1>7, <2>1, <2>6
<1>9. CASE RelayTimeout
  BY <1>1, <1>9 DEF RelayTimeout
<1>10. ASSUME hand' = NoPacket, UNCHANGED q PROVE HeldInv'
  BY <1>0, <1>10, NoPacketGood DEF HeldInv, Good, HealthyNetwork, NoPacket
<1>11. CASE RelayDrops
  BY <1>0, <1>7, <1>10, <1>11 DEF RelayDrops
<1>12. CASE RelaySubmits
  <2>1. OutStamp = 0
    BY <1>0 DEF OutStamp, HeldInv, Good
  <2> QED
    BY <1>7, <1>10, <1>12, <2>1 DEF RelaySubmits
<1>13. CASE StopAudio
  BY <1>1, <1>13 DEF StopAudio
<1>14. CASE Elapse
  <2>1. q' = [i \in DOMAIN q |-> Later(q[i])] /\ UNCHANGED <<delta, video, out>>
        /\ hand' = IF pc = "hold" THEN Later(hand) ELSE hand
    BY <1>14 DEF Elapse
  <2>2. DOMAIN q = 1 .. Len(q) /\ Len(q) \in Nat
    BY <1>q, SMT
  <2>3. Len(q') = Len(q) /\ \A i \in 1 .. Len(q') : q'[i] = Later(q[i])
    BY <2>1, <2>2, SMT
  <2>4. \A i \in 1 .. Len(q') : Good(q'[i])
    <3> TAKE i \in 1 .. Len(q')
    <3>1. q[i] \in Packet /\ Good(q[i]) /\ q'[i] = Later(q[i])
      BY <1>0, <1>q, <2>2, <2>3 DEF HeldInv
    <3>2. Good(Later(q[i]))
      BY <3>1, LaterGood
    <3> QED
      BY <3>1, <3>2
  <2>5. Good(hand')
    <3>1. Good(hand)
      BY <1>0 DEF HeldInv
    <3>2. Good(Later(hand))
      BY <3>1, <1>q, LaterGood
    <3> QED
      BY <2>1, <3>1, <3>2
  <2>6. HeldInv'
    BY <2>4, <2>5 DEF HeldInv, Good, HealthyNetwork
  <2> QED
    BY <1>0, <1>7, <2>1, <2>6
<1>15. CASE UNCHANGED vars
  BY <1>1, <1>15 DEF vars
<1> QED
  BY <1>2, <1>3, <1>4, <1>5, <1>6, <1>8, <1>9, <1>11, <1>12, <1>13, <1>14, <1>15
     DEF Next, Arrives, RelayStep

(* A packet leaves with the stamp of the instant it is scheduled for, for  *)
(* any epochs the sender may step through and any correction RX latches    *)
(* while the packet waits in the bridge.                                   *)
THEOREM StampsOnSchedule == Spec => []StampOnSchedule
<1>1. RelayInv => StampOnSchedule
  BY DEF RelayInv, StampOnSchedule
<1> QED
  BY <1>1, InitRelay, NextRelay, PTL DEF Spec

(* With no delivery stall beyond the tolerance of the guards, packets and  *)
(* frames with correct stamps stay the A/V offset apart, whatever epochs   *)
(* the senders have been through.                                          *)
THEOREM LipSyncKept == HealthyNetwork => (Spec => []LipSync)
<1> SUFFICES ASSUME HealthyNetwork PROVE Spec => []LipSync
  OBVIOUS
<1>1. RelayInv => LipSync
  <2> SUFFICES ASSUME RelayInv, video.on, NEW p \in Held, p.on
               PROVE  (Shift + p.off) - (Latency + video.off) = AvOffset
    BY DEF LipSync
  <2>1. q \in Seq(Packet)
    BY DEF RelayInv, TypeOK
  <2>2. Good(p)
    <3>1. DOMAIN q = 1 .. Len(q)
      BY <2>1, SMT
    <3> QED
      BY <3>1 DEF Held, RelayInv, HeldInv
  <2>3. p.off = 0 /\ video.off = 0
    BY <2>2 DEF Good, RelayInv, GuardInv
  <2>4. Latency \in Int /\ AvOffset \in Int
    BY RelayAssumption
  <2> QED
    BY <2>3, <2>4, SMT DEF Shift
<1> QED
  BY <1>1, InitRelay, NextRelay, PTL DEF Spec

-----------------------------------------------------------------------------
(* AudioOps: the blocks under way, in the order received.                  *)


Way(a, b, c, d, e) == a \o b \o c \o d \o e

LEMMA OpsConstants ==
  /\ MaxQ \in Nat /\ Delay \in Nat /\ PacingHorizon \in Nat /\ MaxPackets \in Nat
  /\ Slots \in Nat \ {0} /\ BurstMax \in Nat \ {0} /\ PacketTime \in Nat \ {0}
  /\ MaxTime \in Nat \ {0}
BY AudioOpsAssumption
-----------------------------------------------------------------------------
(* Sequences in a row *)

LEMMA WayType ==
  ASSUME NEW S, NEW a \in Seq(S), NEW b \in Seq(S), NEW c \in Seq(S), NEW d \in Seq(S),
         NEW e \in Seq(S)
  PROVE  /\ Way(a, b, c, d, e) \in Seq(S)
         /\ Len(Way(a, b, c, d, e)) = Len(a) + Len(b) + Len(c) + Len(d) + Len(e)
<1>1. a \o b \in Seq(S) /\ Len(a \o b) = Len(a) + Len(b)
  BY ConcatProperties
<1>2. (a \o b) \o c \in Seq(S) /\ Len((a \o b) \o c) = Len(a \o b) + Len(c)
  BY <1>1, ConcatProperties
<1>3. ((a \o b) \o c) \o d \in Seq(S)
      /\ Len(((a \o b) \o c) \o d) = Len((a \o b) \o c) + Len(d)
  BY <1>2, ConcatProperties
<1>4. (((a \o b) \o c) \o d) \o e \in Seq(S)
      /\ Len((((a \o b) \o c) \o d) \o e) = Len(((a \o b) \o c) \o d) + Len(e)
  BY <1>3, ConcatProperties
<1>5. /\ Len(a) \in Nat /\ Len(b) \in Nat /\ Len(c) \in Nat /\ Len(d) \in Nat /\ Len(e) \in Nat
  BY LenProperties
<1> QED
  BY <1>1, <1>2, <1>3, <1>4, <1>5 DEF Way

\* A sequence of length one, and the others.
LEMMA Single ==
  ASSUME NEW S, NEW s \in Seq(S), s # <<>>, Len(s) <= 1
  PROVE  s = <<Head(s)>> /\ Tail(s) = <<>> /\ Head(s) \in S
<1>0. Len(s) = 1
  <2>1. Len(s) \in Nat \ {0}
    BY EmptySeq, Zenon
  <2> QED
    BY <2>1
<1>1. Head(s) = s[1] /\ Head(s) \in S /\ Tail(s) \in Seq(S) /\ Len(Tail(s)) = 0
  BY <1>0, HeadTailProperties
<1>2. s = <<s[1]>>
  BY <1>0, <1>1, SeqEqual
<1>3. Tail(s) = <<>>
  BY <1>1, EmptySeq
<1> QED
  BY <1>1, <1>2, <1>3

LEMMA Reassembled ==
  ASSUME NEW S, NEW s \in Seq(S), s # <<>>
  PROVE  s = <<Head(s)>> \o Tail(s)
<1>1. Head(s) \in S /\ Tail(s) \in Seq(S) /\ Len(Tail(s)) = Len(s) - 1
      /\ \A i \in 1 .. Len(Tail(s)) : Tail(s)[i] = s[i + 1]
  BY HeadTailProperties
<1>2. <<Head(s)>> \in Seq(S) /\ Len(<<Head(s)>>) = 1 /\ <<Head(s)>>[1] = Head(s)
  BY <1>1
<1>3. /\ <<Head(s)>> \o Tail(s) \in Seq(S)
      /\ Len(<<Head(s)>> \o Tail(s)) = 1 + Len(Tail(s))
      /\ \A i \in 1 .. 1 + Len(Tail(s)) :
           (<<Head(s)>> \o Tail(s))[i] = IF i <= 1 THEN Head(s) ELSE Tail(s)[i - 1]
  BY <1>1, <1>2, ConcatProperties
<1>4. Len(s) \in Nat \ {0} /\ Head(s) = s[1]
  BY EmptySeq
<1>5. \A i \in 1 .. Len(s) : s[i] = (<<Head(s)>> \o Tail(s))[i]
  <2> SUFFICES ASSUME NEW i \in 1 .. Len(s) PROVE s[i] = (<<Head(s)>> \o Tail(s))[i]
    OBVIOUS
  <2>1. CASE i = 1
    BY <1>1, <1>3, <1>4, <2>1
  <2>2. CASE i # 1
    <3>1. i - 1 \in 1 .. Len(Tail(s)) /\ (i - 1) + 1 = i
      BY <1>1, <1>4, <2>2
    <3> QED
      BY <1>1, <1>3, <1>4, <2>2, <3>1
  <2> QED
    BY <2>1, <2>2
<1> QED
  BY <1>1, <1>3, <1>4, <1>5, SeqEqual

LEMMA AppendIs ==
  ASSUME NEW S, NEW s \in Seq(S), NEW x \in S
  PROVE  s \o <<x>> = Append(s, x) /\ <<x>> \in Seq(S)
<1>1. <<x>> \in Seq(S) /\ Len(<<x>>) = 1 /\ <<x>>[1] = x /\ Len(s) \in Nat
  BY LenProperties
<1>2. /\ s \o <<x>> \in Seq(S) /\ Len(s \o <<x>>) = Len(s) + 1
      /\ \A i \in 1 .. Len(s) + 1 :
           (s \o <<x>>)[i] = IF i <= Len(s) THEN s[i] ELSE <<x>>[i - Len(s)]
  BY <1>1, ConcatProperties
<1>3. /\ Append(s, x) \in Seq(S) /\ Len(Append(s, x)) = Len(s) + 1
      /\ \A i \in 1 .. Len(s) : Append(s, x)[i] = s[i]
      /\ Append(s, x)[Len(s) + 1] = x
  BY AppendProperties
<1>4. \A i \in 1 .. Len(s) + 1 : (s \o <<x>>)[i] = Append(s, x)[i]
  BY <1>1, <1>2, <1>3
<1> QED
  BY <1>1, <1>2, <1>3, <1>4, SeqEqual
-----------------------------------------------------------------------------
(* Blocks that move on stay in line *)

\* From the poll thread into the queue.
LEMMA IntoQueue ==
  ASSUME NEW S, NEW a \in Seq(S), NEW b \in Seq(S), NEW c \in Seq(S), NEW d \in Seq(S),
         NEW e \in Seq(S)
  PROVE  Way(a, b, c, d \o e, <<>>) = Way(a, b, c, d, e)
<1>1. a \o b \in Seq(S)
  BY ConcatProperties
<1>2. (a \o b) \o c \in Seq(S)
  BY <1>1, ConcatProperties
<1>3. PICK p \in Seq(S) : p = (a \o b) \o c
  BY <1>2
<1>4. (p \o d) \o e = p \o (d \o e)
  OBVIOUS
<1>5. d \o e \in Seq(S)
  BY ConcatProperties
<1>6. p \o (d \o e) \in Seq(S)
  BY <1>5, ConcatProperties
<1>7. (p \o (d \o e)) \o <<>> = p \o (d \o e)
  BY <1>6, ConcatEmptySeq
<1> QED
  BY <1>3, <1>4, <1>7 DEF Way

\* From the queue to the connection.
LEMMA OutOfQueue ==
  ASSUME NEW S, NEW a \in Seq(S), NEW b \in Seq(S), NEW d \in Seq(S), NEW e, d # <<>>
  PROVE  Way(a, b, <<Head(d)>>, Tail(d), e) = Way(a, b, <<>>, d, e)
<1>1. a \o b \in Seq(S) /\ <<Head(d)>> \in Seq(S) /\ Tail(d) \in Seq(S)
      /\ d = <<Head(d)>> \o Tail(d)
  BY ConcatProperties, HeadTailProperties, Reassembled
<1>2. PICK p \in Seq(S), h \in Seq(S), t \in Seq(S) :
        p = a \o b /\ h = <<Head(d)>> /\ t = Tail(d)
  BY <1>1
<1>3. (p \o h) \o t = p \o (h \o t)
  OBVIOUS
<1>4. p \o <<>> = p
  BY ConcatEmptySeq
<1> QED
  BY <1>1, <1>2, <1>3, <1>4 DEF Way

\* Into the line, with what it releases.
LEMMA ThroughLine ==
  ASSUME NEW S, NEW b \in Seq(S), NEW x \in S, NEW ready \in Seq(S), NEW held \in Seq(S),
         ready \o held = Append(b, x), NEW d, NEW e
  PROVE  Way(ready, held, <<>>, d, e) = Way(<<>>, b, <<x>>, d, e)
<1>1. ready \o held \in Seq(S) /\ (ready \o held) \o <<>> = ready \o held
  BY ConcatProperties, ConcatEmptySeq
<1>2. <<>> \o b = b /\ b \o <<x>> = Append(b, x)
  BY ConcatEmptySeq, AppendIs
<1> QED
  BY <1>1, <1>2 DEF Way

\* The last block is made or dropped.
LEMMA LastJoins ==
  ASSUME NEW S, NEW a \in Seq(S), NEW b \in Seq(S), NEW c \in Seq(S), NEW d \in Seq(S),
         NEW x \in S
  PROVE  Way(a, b, c, d, <<x>>) = Append(Way(a, b, c, d, <<>>), x)
<1>1. a \o b \in Seq(S)
  BY ConcatProperties
<1>2. (a \o b) \o c \in Seq(S)
  BY <1>1, ConcatProperties
<1>3. ((a \o b) \o c) \o d \in Seq(S)
  BY <1>2, ConcatProperties
<1>4. (((a \o b) \o c) \o d) \o <<>> = ((a \o b) \o c) \o d
  BY <1>3, ConcatEmptySeq
<1>5. (((a \o b) \o c) \o d) \o <<x>> = Append(((a \o b) \o c) \o d, x)
  BY <1>3, AppendIs
<1> QED
  BY <1>4, <1>5 DEF Way
-----------------------------------------------------------------------------
(* Lines of blocks *)

\* Blocks in the order received, after stamp s and up to stamp m.
Ordered(U, s, m) ==
  /\ U \in Seq(Blocks)
  /\ \A i \in 1 .. Len(U) : /\ U[i].stamp > (IF i = 1 THEN s ELSE U[i - 1].stamp)
                          /\ U[i].stamp <= m
  /\ s <= m

\* Each in the slot of its number.
Placed(U) == \A i \in 1 .. Len(U) : U[i].slot = (U[i].stamp - 1) % Slots

\* None is missing after the first c.
Numbered(U, c) == \A i \in 1 .. Len(U) : U[i].stamp = c + i

\* The ring has what came with them.
Filled(U, r) == \A i \in 1 .. Len(U) : r[U[i].slot] = U[i].stamp

LEMMA OneMore ==
  ASSUME NEW U, NEW s \in Nat, NEW m \in Nat, NEW x \in Blocks, Ordered(U, s, m),
         x.stamp = m + 1
  PROVE  Ordered(Append(U, x), s, m + 1)
<1>1. /\ U \in Seq(Blocks) /\ Len(U) \in Nat /\ s <= m
      /\ \A i \in 1 .. Len(U) : /\ U[i].stamp > (IF i = 1 THEN s ELSE U[i - 1].stamp)
                              /\ U[i].stamp <= m
      /\ \A i \in 1 .. Len(U) : U[i].stamp \in Nat
  <2>1. U \in Seq(Blocks)
    BY DEF Ordered
  <2>2. \A i \in 1 .. Len(U) : U[i] \in Blocks
    BY <2>1, ElementOfSeq
  <2> QED
    BY <2>1, <2>2, LenProperties DEF Ordered, Blocks
<1>2. /\ Append(U, x) \in Seq(Blocks) /\ Len(Append(U, x)) = Len(U) + 1
      /\ \A i \in 1 .. Len(U) : Append(U, x)[i] = U[i]
      /\ Append(U, x)[Len(U) + 1] = x
  BY <1>1, AppendProperties
<1>3. ASSUME NEW i \in 1 .. Len(U) + 1
      PROVE  /\ Append(U, x)[i].stamp > (IF i = 1 THEN s ELSE Append(U, x)[i - 1].stamp)
             /\ Append(U, x)[i].stamp <= m + 1
  <2>1. CASE i \in 1 .. Len(U)
    <3>1. i = 1 \/ i - 1 \in 1 .. Len(U)
      BY <1>1, <2>1
    <3> QED
      BY <1>1, <1>2, <2>1, <3>1
  <2>2. CASE i = Len(U) + 1
    <3>1. i = 1 \/ (i - 1 = Len(U) /\ i - 1 \in 1 .. Len(U))
      BY <1>1, <2>2
    <3> QED
      BY <1>1, <1>2, <2>2, <3>1
  <2> QED
    BY <1>1, <1>3, <2>1, <2>2
<1>4. s <= m + 1
  BY <1>1
<1> QED
  BY <1>2, <1>3, <1>4 DEF Ordered

LEMMA OneLess ==
  ASSUME NEW V \in Seq(Blocks), NEW s \in Nat, NEW m \in Nat, NEW x \in Blocks,
         Ordered(Append(V, x), s, m)
  PROVE  Ordered(V, s, m)
<1>1. /\ Len(Append(V, x)) = Len(V) + 1 /\ Len(V) \in Nat
      /\ \A i \in 1 .. Len(V) : Append(V, x)[i] = V[i]
  BY AppendProperties, LenProperties
<1>2. ASSUME NEW i \in 1 .. Len(V)
      PROVE  V[i].stamp > (IF i = 1 THEN s ELSE V[i - 1].stamp) /\ V[i].stamp <= m
  <2>1. i \in 1 .. Len(V) + 1 /\ (i = 1 \/ i - 1 \in 1 .. Len(V))
    BY <1>1, <1>2
  <2>2. /\ Append(V, x)[i].stamp > (IF i = 1 THEN s ELSE Append(V, x)[i - 1].stamp)
        /\ Append(V, x)[i].stamp <= m
    BY <1>1, <2>1 DEF Ordered
  <2> QED
    BY <1>1, <1>2, <2>1, <2>2
<1> QED
  BY <1>2 DEF Ordered

LEMMA FirstLess ==
  ASSUME NEW V \in Seq(Blocks), NEW s \in Nat, NEW m \in Nat, NEW x \in Blocks,
         Ordered(<<x>> \o V, s, m)
  PROVE  Ordered(V, x.stamp, m) /\ x.stamp > s
<1>1. /\ <<x>> \in Seq(Blocks) /\ Len(<<x>>) = 1 /\ <<x>>[1] = x
      /\ Len(V) \in Nat
  BY LenProperties
<1>2. /\ Len(<<x>> \o V) = 1 + Len(V)
      /\ \A i \in 1 .. 1 + Len(V) : (<<x>> \o V)[i] = IF i <= 1 THEN x ELSE V[i - 1]
  BY <1>1, ConcatProperties
<1>3. \A i \in 1 .. Len(V) : i + 1 \in 1 .. 1 + Len(V) /\ (<<x>> \o V)[i + 1] = V[i]
  BY <1>1, <1>2
<1>4. (<<x>> \o V)[1] = x /\ 1 \in 1 .. 1 + Len(V)
  BY <1>1, <1>2
<1>5. x.stamp > s /\ x.stamp <= m
  BY <1>2, <1>4 DEF Ordered
<1>6. ASSUME NEW i \in 1 .. Len(V)
      PROVE  V[i].stamp > (IF i = 1 THEN x.stamp ELSE V[i - 1].stamp) /\ V[i].stamp <= m
  <2> DEFINE j == i + 1
  <2>1. /\ (<<x>> \o V)[j].stamp > (IF j = 1 THEN s ELSE (<<x>> \o V)[j - 1].stamp)
        /\ (<<x>> \o V)[j].stamp <= m
    BY <1>2, <1>3 DEF Ordered
  <2>2. j # 1 /\ j - 1 = i /\ (i = 1 \/ i - 1 \in 1 .. Len(V)) /\ (i - 1) + 1 = i
    OBVIOUS
  <2>3. (<<x>> \o V)[i] = IF i = 1 THEN x ELSE V[i - 1]
    BY <1>3, <1>4, <2>2
  <2> QED
    BY <1>3, <2>1, <2>2, <2>3
<1>7. x.stamp \in Nat
  BY DEF Blocks
<1> QED
  BY <1>5, <1>6 DEF Ordered

\* What holds of every block holds of the blocks that are left, and of one more.
LEMMA EachLess ==
  ASSUME NEW V \in Seq(Blocks), NEW x \in Blocks, NEW r, NEW c \in Nat
  PROVE  /\ Placed(Append(V, x)) => Placed(V)
         /\ Filled(Append(V, x), r) => Filled(V, r)
         /\ Placed(<<x>> \o V) => Placed(V) /\ x.slot = (x.stamp - 1) % Slots
         /\ Filled(<<x>> \o V, r) => Filled(V, r) /\ r[x.slot] = x.stamp
         /\ Numbered(<<x>> \o V, c) => Numbered(V, c + 1) /\ x.stamp = c + 1
<1>1. /\ Len(Append(V, x)) = Len(V) + 1 /\ Len(V) \in Nat
      /\ \A i \in 1 .. Len(V) : i \in 1 .. Len(V) + 1 /\ Append(V, x)[i] = V[i]
  BY AppendProperties, LenProperties
<1>2. <<x>> \in Seq(Blocks) /\ Len(<<x>>) = 1 /\ <<x>>[1] = x
  OBVIOUS
<1>3. /\ Len(<<x>> \o V) = 1 + Len(V)
      /\ \A i \in 1 .. 1 + Len(V) : (<<x>> \o V)[i] = IF i <= 1 THEN x ELSE V[i - 1]
  BY <1>2, ConcatProperties
<1>4. /\ 1 \in 1 .. 1 + Len(V) /\ (<<x>> \o V)[1] = x
      /\ \A i \in 1 .. Len(V) : i + 1 \in 1 .. 1 + Len(V) /\ (<<x>> \o V)[i + 1] = V[i]
  BY <1>1, <1>3
<1>5. Placed(Append(V, x)) => Placed(V)
  BY <1>1 DEF Placed
<1>6. Filled(Append(V, x), r) => Filled(V, r)
  BY <1>1 DEF Filled
<1>7. Placed(<<x>> \o V) => Placed(V) /\ x.slot = (x.stamp - 1) % Slots
  <2> SUFFICES ASSUME Placed(<<x>> \o V) PROVE Placed(V) /\ x.slot = (x.stamp - 1) % Slots
    OBVIOUS
  <2>1. \A j \in 1 .. 1 + Len(V) :
          (<<x>> \o V)[j].slot = ((<<x>> \o V)[j].stamp - 1) % Slots
    BY <1>3 DEF Placed
  <2> QED
    BY <1>4, <2>1 DEF Placed
<1>8. Filled(<<x>> \o V, r) => Filled(V, r) /\ r[x.slot] = x.stamp
  <2> SUFFICES ASSUME Filled(<<x>> \o V, r) PROVE Filled(V, r) /\ r[x.slot] = x.stamp
    OBVIOUS
  <2>1. \A j \in 1 .. 1 + Len(V) : r[(<<x>> \o V)[j].slot] = (<<x>> \o V)[j].stamp
    BY <1>3 DEF Filled
  <2> QED
    BY <1>4, <2>1 DEF Filled
<1>9. Numbered(<<x>> \o V, c) => Numbered(V, c + 1) /\ x.stamp = c + 1
  <2> SUFFICES ASSUME Numbered(<<x>> \o V, c) PROVE Numbered(V, c + 1) /\ x.stamp = c + 1
    OBVIOUS
  <2>1. \A j \in 1 .. 1 + Len(V) : (<<x>> \o V)[j].stamp = c + j
    BY <1>3 DEF Numbered
  <2>2. \A i \in 1 .. Len(V) : V[i].stamp = c + (i + 1)
    BY <1>4, <2>1
  <2> QED
    BY <1>4, <2>1, <2>2 DEF Numbered
<1> QED
  BY <1>5, <1>6, <1>7, <1>8, <1>9

\* Two packets less than a ring apart have different slots.
LEMMA SlotsDiffer ==
  ASSUME NEW x \in Nat, NEW y \in Nat, x < y, y < x + Slots
  PROVE  x % Slots # y % Slots
<1>1. Slots \in Nat /\ Slots > 0
  BY OpsConstants
<1>2. x = Slots * (x \div Slots) + (x % Slots) /\ y = Slots * (y \div Slots) + (y % Slots)
      /\ x \div Slots \in Int /\ y \div Slots \in Int /\ x % Slots \in Int /\ y % Slots \in Int
  BY <1>1, SMT
<1>3. ASSUME NEW p \in Int, NEW s \in Int, NEW m \in Int, x = Slots * p + m, y = Slots * s + m
      PROVE  FALSE
  <2>1. y - x = Slots * (s - p)
    BY <1>1, <1>3, SMT
  <2>2. CASE s - p <= 0
    <3>1. Slots * (s - p) <= 0
      BY <1>1, <2>2, SMT
    <3> QED
      BY <2>1, <3>1
  <2>3. CASE s - p >= 1
    <3>1. Slots * (s - p) >= Slots
      BY <1>1, <2>3, SMT
    <3> QED
      BY <1>1, <2>1, <3>1
  <2> QED
    BY <2>2, <2>3
<1> QED
  BY <1>2, <1>3

\* The next packet and its slot.
Next1(m) == [stamp |-> m + 1, slot |-> m % Slots]

LEMMA EachMore ==
  ASSUME NEW U \in Seq(Blocks), NEW m \in Nat, Next1(m) \in Blocks, NEW r, NEW c \in Nat
  PROVE  /\ Placed(U) => Placed(Append(U, Next1(m)))
         /\ Numbered(U, c) /\ m = c + Len(U) => Numbered(Append(U, Next1(m)), c)
         /\ /\ Placed(U) /\ Numbered(U, c) /\ m = c + Len(U) /\ Len(U) < Slots
            /\ Filled(U, r) /\ r \in [0 .. Slots - 1 -> 0 .. MaxPackets]
            => Filled(Append(U, Next1(m)), [r EXCEPT ![m % Slots] = m + 1])
<1> DEFINE x == Next1(m)
           W == Append(U, x)
<1>1. x \in Blocks /\ x.stamp = m + 1 /\ x.slot = m % Slots /\ x.slot = (x.stamp - 1) % Slots
      /\ x.slot \in 0 .. Slots - 1
  <2>1. x.stamp = m + 1 /\ x.slot = m % Slots /\ (m + 1) - 1 = m
    BY DEF Next1
  <2> QED
    BY <2>1 DEF Blocks
<1>2. /\ Len(W) = Len(U) + 1 /\ Len(U) \in Nat /\ W[Len(U) + 1] = x
      /\ \A i \in 1 .. Len(U) : W[i] = U[i]
  BY <1>1, AppendProperties, LenProperties
<1>3. \A i \in 1 .. Len(W) : i \in 1 .. Len(U) \/ i = Len(U) + 1
  BY <1>2
<1> HIDE DEF x, W
<1>4. Placed(U) => Placed(W)
  BY <1>1, <1>2, <1>3 DEF Placed
<1>5. Numbered(U, c) /\ m = c + Len(U) => Numbered(W, c)
  <2>1. m = c + Len(U) => m + 1 = c + (Len(U) + 1)
    BY <1>2
  <2> QED
    BY <1>1, <1>2, <1>3, <2>1 DEF Numbered
<1>6. ASSUME Placed(U), Numbered(U, c), m = c + Len(U), Len(U) < Slots, Filled(U, r),
             r \in [0 .. Slots - 1 -> 0 .. MaxPackets]
      PROVE  Filled(W, [r EXCEPT ![m % Slots] = m + 1])
  <2>1. ASSUME NEW i \in 1 .. Len(U)
        PROVE  [r EXCEPT ![m % Slots] = m + 1][U[i].slot] = U[i].stamp
    <3>1. U[i].stamp = c + i /\ U[i].slot = ((c + i) - 1) % Slots
      BY <1>6, <2>1 DEF Placed, Numbered
    <3>2. (c + i) - 1 \in Nat /\ (c + i) - 1 < m /\ m < ((c + i) - 1) + Slots
      BY <1>2, <1>6, <2>1, OpsConstants
    <3>3. U[i].slot # m % Slots
      BY <3>1, <3>2, SlotsDiffer
    <3>4. U[i] \in Blocks
      BY ElementOfSeq
    <3> QED
      BY <1>6, <2>1, <3>3, <3>4 DEF Filled, Blocks
  <2>2. [r EXCEPT ![m % Slots] = m + 1][x.slot] = x.stamp
    BY <1>1, <1>6
  <2> QED
    BY <1>2, <1>3, <2>1, <2>2 DEF Filled
<1> QED
  BY <1>4, <1>5, <1>6 DEF x, W
-----------------------------------------------------------------------------
(* The four things a step does to the blocks under way *)

\* m made, n dropped, c sent, the last one with stamp s and samples v; ring r.
Accounted(U, m, n, c, s, v, r) ==
  /\ Ordered(U, s, m) /\ Placed(U)
  /\ c + Len(U) + n = m
  /\ n = 0 => Numbered(U, c) /\ s = c
  /\ n = 0 /\ Slots >= Places => Filled(U, r) /\ v = s

LEMMA AfterFill ==
  ASSUME NEW U \in Seq(Blocks), NEW m \in Nat, NEW n \in Nat, NEW c \in Nat, NEW s \in Nat,
         NEW v \in Nat, NEW r \in [0 .. Slots - 1 -> 0 .. MaxPackets],
         Accounted(U, m, n, c, s, v, r), Len(U) < Places, Next1(m) \in Blocks
  PROVE  Accounted(Append(U, Next1(m)), m + 1, n, c, s, v, [r EXCEPT ![m % Slots] = m + 1])
<1> DEFINE W == Append(U, Next1(m))
           t == [r EXCEPT ![m % Slots] = m + 1]
<1>1. Ordered(W, s, m + 1)
  <2>1. Next1(m).stamp = m + 1
    BY DEF Next1
  <2> QED
    BY <2>1, OneMore DEF Accounted
<1>2. Len(W) = Len(U) + 1 /\ Len(U) \in Nat
  BY AppendProperties, LenProperties
<1>3. c + Len(U) + n = m
  BY DEF Accounted
<1>4. c + Len(W) + n = m + 1
  BY <1>2, <1>3
<1>5. n = 0 => m = c + Len(U)
  BY <1>2, <1>3
<1>6. Slots >= Places => Len(U) < Slots
  BY <1>2, OpsConstants DEF Places
<1>7. /\ Placed(U) => Placed(W)
      /\ Numbered(U, c) /\ m = c + Len(U) => Numbered(W, c)
      /\ /\ Placed(U) /\ Numbered(U, c) /\ m = c + Len(U) /\ Len(U) < Slots
         /\ Filled(U, r) /\ r \in [0 .. Slots - 1 -> 0 .. MaxPackets]
         => Filled(W, t)
  BY EachMore
<1> HIDE DEF W, t
<1> SUFFICES Accounted(W, m + 1, n, c, s, v, t)
  BY DEF W, t
<1>8. Placed(W)
  BY <1>7 DEF Accounted
<1>9. n = 0 => Numbered(W, c) /\ s = c
  BY <1>5, <1>7 DEF Accounted
<1>10. n = 0 /\ Slots >= Places => Filled(W, t) /\ v = s
  BY <1>5, <1>6, <1>7 DEF Accounted
<1> QED
  BY <1>1, <1>4, <1>8, <1>9, <1>10 DEF Accounted

LEMMA AfterDrop ==
  ASSUME NEW V \in Seq(Blocks), NEW x \in Blocks, NEW m \in Nat, NEW n \in Nat, NEW c \in Nat,
         NEW s \in Nat, NEW v \in Nat, NEW r,
         Accounted(Append(V, x), m, n, c, s, v, r)
  PROVE  Accounted(V, m, n + 1, c, s, v, r)
<1>1. Ordered(V, s, m)
  BY OneLess DEF Accounted
<1>2. Placed(V)
  BY EachLess DEF Accounted
<1>3. Len(Append(V, x)) = Len(V) + 1 /\ Len(V) \in Nat
  BY AppendProperties, LenProperties
<1>4. c + Len(Append(V, x)) + n = m
  BY DEF Accounted
<1>5. c + Len(V) + (n + 1) = m /\ n + 1 # 0
  BY <1>3, <1>4
<1> QED
  BY <1>1, <1>2, <1>5 DEF Accounted

LEMMA AfterSend ==
  ASSUME NEW V \in Seq(Blocks), NEW x \in Blocks, NEW m \in Nat, NEW n \in Nat, NEW c \in Nat,
         NEW s \in Nat, NEW v \in Nat, NEW r,
         Accounted(<<x>> \o V, m, n, c, s, v, r)
  PROVE  Accounted(V, m, n, c + 1, x.stamp, r[x.slot], r)
<1>1. Ordered(V, x.stamp, m)
  BY FirstLess DEF Accounted
<1>2. /\ Placed(<<x>> \o V) => Placed(V)
      /\ Filled(<<x>> \o V, r) => Filled(V, r) /\ r[x.slot] = x.stamp
      /\ Numbered(<<x>> \o V, c) => Numbered(V, c + 1) /\ x.stamp = c + 1
  BY EachLess
<1>3. Len(<<x>> \o V) = 1 + Len(V) /\ Len(V) \in Nat
  <2>1. <<x>> \in Seq(Blocks) /\ Len(<<x>>) = 1
    OBVIOUS
  <2> QED
    BY <2>1, ConcatProperties, LenProperties
<1>4. c + Len(<<x>> \o V) + n = m
  BY DEF Accounted
<1>5. (c + 1) + Len(V) + n = m
  BY <1>3, <1>4
<1> QED
  BY <1>1, <1>2, <1>5 DEF Accounted
-----------------------------------------------------------------------------
(* The inductive invariant *)

\* No place holds more than it may, and the line is full once it has released a block.
Sized ==
  /\ Len(queue) <= MaxQ /\ Len(line) <= Delay
  /\ sent.count + Len(toTx) > 0 => Len(line) = Delay

OpsInv ==
  /\ OpsTypeOK /\ Sized
  /\ Accounted(Underway, made, dropped, sent.count, sent.stamp, sent.samples, ring)

LEMMA PlacesTyped ==
  ASSUME OpsTypeOK
  PROVE  /\ block \in Seq(Blocks) /\ toDelay \in Seq(Blocks) /\ toTx \in Seq(Blocks)
         /\ line \in Seq(Blocks) /\ queue \in Seq(Blocks)
         /\ Len(block) <= 1 /\ Len(toDelay) <= 1 /\ Len(toTx) <= 1
         /\ Underway = Way(toTx, line, toDelay, queue, block)
         /\ Underway \in Seq(Blocks)
         /\ Len(Underway) = Len(toTx) + Len(line) + Len(toDelay) + Len(queue) + Len(block)
<1>1. /\ block \in Seq(Blocks) /\ toDelay \in Seq(Blocks) /\ toTx \in Seq(Blocks)
      /\ line \in Seq(Blocks) /\ queue \in Seq(Blocks)
      /\ Len(block) <= 1 /\ Len(toDelay) <= 1 /\ Len(toTx) <= 1
  BY Zenon DEF OpsTypeOK
<1>2. Underway = Way(toTx, line, toDelay, queue, block)
  BY DEF Underway, Way
<1>3. /\ Way(toTx, line, toDelay, queue, block) \in Seq(Blocks)
      /\ Len(Way(toTx, line, toDelay, queue, block))
           = Len(toTx) + Len(line) + Len(toDelay) + Len(queue) + Len(block)
  BY <1>1, WayType DEF Way
<1> QED
  BY <1>1, <1>2, <1>3, Zenon

LEMMA CountsTyped ==
  ASSUME OpsTypeOK
  PROVE  /\ made \in Nat /\ made <= MaxPackets /\ dropped \in Nat /\ burst \in 0 .. BurstMax
         /\ sent.count \in Nat /\ sent.stamp \in Nat /\ sent.samples \in Nat
         /\ ring \in [0 .. Slots - 1 -> 0 .. MaxPackets]
         /\ now \in 1 .. MaxTime /\ base \in Nat
BY OpsConstants DEF OpsTypeOK

\* A step of the poll thread or of the clock that touches no block.
LEMMA IdleStep ==
  ASSUME OpsInv, Poll \/ Refuse \/ Stop \/ Tick \/ UNCHANGED opsVars
  PROVE  OpsInv'
<1>1. UNCHANGED <<block, made, ring, queue, dropped, toDelay, toTx, line, base, sent>>
  BY DEF Poll, Refuse, Stop, Tick, opsVars, opVars, txVars
<1>2. Sized'
  BY <1>1 DEF OpsInv, Sized
<1>3. Underway' = Underway
  BY <1>1 DEF Underway
<1>4. Accounted(Underway, made, dropped, sent.count, sent.stamp, sent.samples, ring)'
  BY <1>1, <1>3 DEF OpsInv
<1>5. burst' \in 0 .. BurstMax
  <2>1. burst \in 0 .. BurstMax /\ BurstMax \in Nat \ {0}
    BY CountsTyped, OpsConstants DEF OpsInv
  <2> QED
    BY <2>1 DEF Poll, Refuse, Stop, Tick, opsVars
<1>6. now' \in 1 .. MaxTime
  <2>1. now \in 1 .. MaxTime /\ MaxTime \in Nat \ {0}
    BY CountsTyped, OpsConstants DEF OpsInv
  <2> QED
    BY <2>1 DEF Poll, Refuse, Stop, Tick, opsVars
<1>7. stop_poll' \in BOOLEAN
  <2>1. stop_poll \in BOOLEAN
    BY DEF OpsInv, OpsTypeOK
  <2> QED
    BY <2>1 DEF Poll, Refuse, Stop, Tick, opsVars
<1>8. OpsTypeOK'
  BY <1>1, <1>5, <1>6, <1>7, Zenon DEF OpsInv, OpsTypeOK
<1> QED
  BY <1>2, <1>4, <1>8 DEF OpsInv

LEMMA FillStep ==
  ASSUME OpsInv, Fill
  PROVE  OpsInv'
<1>1. /\ burst > 0 /\ block = <<>> /\ made < MaxPackets
      /\ burst' = burst - 1 /\ made' = made + 1
      /\ ring' = [ring EXCEPT ![made % Slots] = made + 1]
      /\ block' = <<Next1(made)>>
      /\ UNCHANGED <<queue, dropped, toDelay, toTx, line, now, base, sent, stop_poll>>
  BY DEF Fill, None, Next1, opVars, txVars
<1>2. OpsTypeOK /\ Sized
      /\ Accounted(Underway, made, dropped, sent.count, sent.stamp, sent.samples, ring)
  BY DEF OpsInv
<1>3. Next1(made) \in Blocks
  <2>1. made \in Nat /\ made < MaxPackets /\ MaxPackets \in Nat /\ Slots \in Nat \ {0}
    BY <1>1, <1>2, CountsTyped, OpsConstants
  <2>2. made + 1 \in 1 .. MaxPackets /\ made % Slots \in 0 .. Slots - 1
    BY <2>1, SMT
  <2> QED
    BY <2>2 DEF Next1, Blocks
<1>4. OpsTypeOK'
  <2>0. /\ made \in Nat /\ made < MaxPackets /\ MaxPackets \in Nat
        /\ burst \in 0 .. BurstMax /\ burst > 0 /\ BurstMax \in Nat
        /\ made' = made + 1 /\ burst' = burst - 1
    BY <1>1, <1>2, CountsTyped, OpsConstants
  <2>1. burst' \in 0 .. BurstMax /\ made' \in 0 .. MaxPackets
    BY <2>0
  <2>2. ring' \in [0 .. Slots - 1 -> 0 .. MaxPackets]
    <3>1. made + 1 \in 0 .. MaxPackets
      BY <2>0
    <3> QED
      BY <1>1, <1>2, <3>1, CountsTyped
  <2>3. block' \in Seq(Blocks) /\ Len(block') <= 1
    BY <1>1, <1>3
  <2> QED
    BY <1>1, <1>2, <2>1, <2>2, <2>3, Zenon DEF OpsTypeOK
<1>5. Sized'
  BY <1>1, <1>2 DEF Sized
<1>6. Underway' = Append(Underway, Next1(made))
  <2>1. Underway' = Way(toTx, line, toDelay, queue, <<Next1(made)>>)
    BY <1>1 DEF Underway, Way
  <2>2. Underway = Way(toTx, line, toDelay, queue, <<>>)
    BY <1>1 DEF Underway, Way
  <2>3. Way(toTx, line, toDelay, queue, <<Next1(made)>>)
          = Append(Way(toTx, line, toDelay, queue, <<>>), Next1(made))
    <3>1. /\ toTx \in Seq(Blocks) /\ line \in Seq(Blocks) /\ toDelay \in Seq(Blocks)
          /\ queue \in Seq(Blocks)
      BY <1>2, PlacesTyped
    <3> QED
      BY <1>3, <3>1, LastJoins DEF Way
  <2> QED
    BY <2>1, <2>2, <2>3
<1>7. Len(Underway) < Places
  <2>1. Len(block) = 0 /\ Len(toTx) \in Nat /\ Len(line) \in Nat
        /\ Len(toDelay) \in Nat /\ Len(queue) \in Nat
    BY <1>1, <1>2, PlacesTyped, LenProperties
  <2> QED
    BY <1>2, <2>1, PlacesTyped, OpsConstants DEF Sized, Places
<1>8. Accounted(Append(Underway, Next1(made)), made + 1, dropped, sent.count, sent.stamp,
                sent.samples, [ring EXCEPT ![made % Slots] = made + 1])
  BY <1>2, <1>3, <1>7, PlacesTyped, CountsTyped, AfterFill
<1>9. Accounted(Underway, made, dropped, sent.count, sent.stamp, sent.samples, ring)'
  BY <1>1, <1>6, <1>8
<1> QED
  BY <1>4, <1>5, <1>9 DEF OpsInv

LEMMA QueueStep ==
  ASSUME OpsInv, Queue
  PROVE  OpsInv'
<1>1. /\ block # <<>> /\ block' = <<>>
      /\ UNCHANGED <<burst, made, ring, toDelay, toTx, line, now, base, sent, stop_poll>>
  BY DEF Queue, None, opVars, txVars
<1>2. OpsTypeOK /\ Sized
      /\ Accounted(Underway, made, dropped, sent.count, sent.stamp, sent.samples, ring)
  BY DEF OpsInv
<1>3. PICK x \in Blocks : block = <<x>>
  BY <1>1, <1>2, PlacesTyped, Single
<1>4. block' \in Seq(Blocks) /\ Len(block') <= 1
  BY <1>1
<1>5. CASE HasRoom
  <2>1. queue' = queue \o block /\ dropped' = dropped
    BY <1>5 DEF Queue
  <2>2. queue' \in Seq(Blocks) /\ Len(queue') = Len(queue) + 1
    <3>1. Len(<<x>>) = 1
      OBVIOUS
    <3> QED
      BY <1>2, <1>3, <2>1, <3>1, PlacesTyped, ConcatProperties
  <2>3. OpsTypeOK'
    BY <1>1, <1>2, <1>4, <2>1, <2>2, Zenon DEF OpsTypeOK
  <2>4. Len(queue) < MaxQ /\ Len(queue) \in Nat
    BY <1>2, <1>5, PlacesTyped, LenProperties DEF HasRoom
  <2>5. Sized'
    BY <1>1, <1>2, <2>2, <2>4, OpsConstants DEF Sized
  <2>6. Underway' = Underway
    <3>1. Underway' = Way(toTx, line, toDelay, queue \o block, <<>>)
      BY <1>1, <2>1 DEF Underway, Way
    <3> QED
      BY <1>2, <3>1, PlacesTyped, IntoQueue
  <2>7. Accounted(Underway, made, dropped, sent.count, sent.stamp, sent.samples, ring)'
    BY <1>1, <1>2, <2>1, <2>6
  <2> QED
    BY <2>3, <2>5, <2>7 DEF OpsInv
<1>6. CASE ~HasRoom
  <2>1. dropped' = dropped + 1 /\ queue' = queue
    BY <1>6 DEF Queue
  <2>2. PICK V \in Seq(Blocks) : V = Way(toTx, line, toDelay, queue, <<>>)
    <3>1. <<>> \in Seq(Blocks)
      OBVIOUS
    <3> QED
      BY <1>2, <3>1, PlacesTyped, WayType
  <2>3. Underway = Append(V, x)
    <3>1. Underway = Way(toTx, line, toDelay, queue, <<x>>)
      BY <1>2, <1>3, PlacesTyped
    <3>2. Way(toTx, line, toDelay, queue, <<x>>)
            = Append(Way(toTx, line, toDelay, queue, <<>>), x)
      <4>1. /\ toTx \in Seq(Blocks) /\ line \in Seq(Blocks) /\ toDelay \in Seq(Blocks)
            /\ queue \in Seq(Blocks)
        BY <1>2, PlacesTyped
      <4> QED
        BY <4>1, LastJoins DEF Way
    <3> QED
      BY <2>2, <3>1, <3>2
  <2>4. Underway' = V
    BY <1>1, <2>1, <2>2 DEF Underway, Way
  <2>5. Accounted(V, made, dropped + 1, sent.count, sent.stamp, sent.samples, ring)
    BY <1>2, <2>3, CountsTyped, AfterDrop
  <2>6. Accounted(Underway, made, dropped, sent.count, sent.stamp, sent.samples, ring)'
    BY <1>1, <2>1, <2>4, <2>5
  <2>7. dropped' \in 0 .. MaxPackets
    <3>1. sent.count + Len(V) + (dropped + 1) = made /\ Len(V) \in Nat
      BY <2>5, LenProperties DEF Accounted
    <3>2. /\ sent.count \in Nat /\ made \in Nat /\ made <= MaxPackets /\ dropped \in Nat
          /\ MaxPackets \in Nat
      BY <1>2, CountsTyped, OpsConstants
    <3> QED
      BY <2>1, <3>1, <3>2
  <2>8. OpsTypeOK'
    BY <1>1, <1>2, <1>4, <2>1, <2>7, Zenon DEF OpsTypeOK
  <2>9. Sized'
    BY <1>1, <1>2, <2>1 DEF Sized
  <2> QED
    BY <2>6, <2>8, <2>9 DEF OpsInv
<1> QED
  BY <1>5, <1>6

LEMMA EmitStep ==
  ASSUME OpsInv, RxEmit
  PROVE  OpsInv'
<1>1. /\ queue # <<>> /\ toDelay = <<>> /\ toDelay' = <<Head(queue)>> /\ queue' = Tail(queue)
      /\ UNCHANGED <<burst, block, made, ring, dropped, toTx, line, now, base, sent, stop_poll>>
  BY DEF RxEmit, txVars
<1>2. OpsTypeOK /\ Sized
      /\ Accounted(Underway, made, dropped, sent.count, sent.stamp, sent.samples, ring)
  BY DEF OpsInv
<1>3. /\ toTx \in Seq(Blocks) /\ line \in Seq(Blocks) /\ queue \in Seq(Blocks)
      /\ block \in Seq(Blocks)
  BY <1>2, PlacesTyped
<1>4. Head(queue) \in Blocks /\ queue' \in Seq(Blocks) /\ Len(queue') = Len(queue) - 1
  BY <1>1, <1>3, HeadTailProperties
<1>5. toDelay' \in Seq(Blocks) /\ Len(toDelay') <= 1
  BY <1>1, <1>4
<1>6. OpsTypeOK'
  BY <1>1, <1>2, <1>4, <1>5, Zenon DEF OpsTypeOK
<1>7. Sized'
  <2>1. Len(queue') <= MaxQ
    <3>1. Len(queue) \in Nat /\ Len(queue) <= MaxQ /\ MaxQ \in Nat
      BY <1>2, <1>3, LenProperties, OpsConstants DEF Sized
    <3> QED
      BY <1>4, <3>1
  <2> QED
    BY <1>1, <1>2, <2>1 DEF Sized
<1>8. Underway' = Underway
  <2>0. PICK a \in Seq(Blocks), b \in Seq(Blocks), d \in Seq(Blocks), e \in Seq(Blocks) :
          a = toTx /\ b = line /\ d = queue /\ e = block
    BY <1>3
  <2>1. Way(a, b, <<Head(d)>>, Tail(d), e) = Way(a, b, <<>>, d, e)
    BY <1>1, <2>0, OutOfQueue
  <2>2. Underway' = Way(a, b, <<Head(d)>>, Tail(d), e)
    BY <1>1, <2>0 DEF Underway, Way
  <2>3. Underway = Way(a, b, <<>>, d, e)
    BY <1>1, <2>0 DEF Underway, Way
  <2> QED
    BY <2>1, <2>2, <2>3
<1>9. Accounted(Underway, made, dropped, sent.count, sent.stamp, sent.samples, ring)'
  BY <1>1, <1>2, <1>8
<1> QED
  BY <1>6, <1>7, <1>9 DEF OpsInv

\* What the line keeps and releases is what it held and the new block; it keeps
\* Delay blocks once it releases one.
LEMMA LinePushes ==
  ASSUME NEW b \in Seq(Blocks), NEW x \in Blocks, Len(b) <= Delay
  PROVE  /\ Push(b, x).held \in Seq(Blocks) /\ Push(b, x).out \in Seq(Blocks)
         /\ Push(b, x).out \o Push(b, x).held = Append(b, x)
         /\ Len(Push(b, x).out) <= 1 /\ Len(Push(b, x).held) <= Delay
         /\ Len(Push(b, x).out) > 0 \/ Len(b) = Delay => Len(Push(b, x).held) = Delay
<1> DEFINE all == Append(b, x)
<1>1. all \in Seq(Blocks) /\ Len(all) = Len(b) + 1 /\ Len(b) \in Nat /\ Delay \in Nat
  BY AppendProperties, LenProperties, OpsConstants
<1>2. CASE Len(all) <= Delay
  <2>1. Push(b, x).held = all /\ Push(b, x).out = <<>>
    BY <1>2 DEF Push
  <2>2. <<>> \o all = all
    BY <1>1, ConcatEmptySeq
  <2>3. Len(b) # Delay
    BY <1>1, <1>2
  <2> QED
    BY <1>1, <1>2, <2>1, <2>2, <2>3
<1>3. CASE ~(Len(all) <= Delay)
  <2>1. Push(b, x).held = Tail(all) /\ Push(b, x).out = <<Head(all)>>
    BY <1>3 DEF Push
  <2>2. Len(b) = Delay
    BY <1>1, <1>3
  <2>3. all # <<>>
    BY <1>1
  <2>4. /\ Head(all) \in Blocks /\ Tail(all) \in Seq(Blocks) /\ Len(Tail(all)) = Len(all) - 1
    BY <1>1, <2>3, HeadTailProperties
  <2>5. all = <<Head(all)>> \o Tail(all)
    BY <1>1, <2>3, Reassembled
  <2>6. <<Head(all)>> \in Seq(Blocks) /\ Len(<<Head(all)>>) = 1
    BY <2>4
  <2>7. Len(Tail(all)) = Delay
    BY <1>1, <2>2, <2>4
  <2> HIDE DEF all
  <2>8. Push(b, x).out \o Push(b, x).held = all
    BY <2>1, <2>5
  <2>9. Push(b, x).out \o Push(b, x).held = Append(b, x)
    BY <2>8 DEF all
  <2>10. /\ Push(b, x).held \in Seq(Blocks) /\ Push(b, x).out \in Seq(Blocks)
         /\ Len(Push(b, x).out) <= 1 /\ Len(Push(b, x).held) = Delay
         /\ Len(Push(b, x).held) <= Delay
    BY <1>1, <2>1, <2>4, <2>6, <2>7
  <2> QED
    BY <2>9, <2>10
<1> QED
  BY <1>2, <1>3

LEMMA DelayStep ==
  ASSUME OpsInv, DelayPass
  PROVE  OpsInv'
<1>1. /\ toDelay # <<>> /\ toTx = <<>> /\ toDelay' = <<>>
      /\ line' = Push(line, Head(toDelay)).held /\ toTx' = Push(line, Head(toDelay)).out
      /\ UNCHANGED <<burst, block, made, ring, queue, dropped, now, base, sent, stop_poll>>
  BY DEF DelayPass, txVars
<1>2. OpsTypeOK /\ Sized
      /\ Accounted(Underway, made, dropped, sent.count, sent.stamp, sent.samples, ring)
  BY DEF OpsInv
<1>3. PICK x \in Blocks : toDelay = <<x>> /\ x = Head(toDelay)
  BY <1>1, <1>2, PlacesTyped, Single
<1>4. PICK b \in Seq(Blocks) : b = line /\ Len(b) <= Delay
  BY <1>2, PlacesTyped DEF Sized
<1>5. PICK held \in Seq(Blocks), ready \in Seq(Blocks) :
          /\ held = Push(b, x).held /\ ready = Push(b, x).out
          /\ ready \o held = Append(b, x)
          /\ Len(ready) <= 1 /\ Len(held) <= Delay
          /\ Len(ready) > 0 \/ Len(b) = Delay => Len(held) = Delay
  BY <1>4, LinePushes
<1>6. line' = held /\ toTx' = ready
  BY <1>1, <1>3, <1>4, <1>5 DEF Push
<1>7. toDelay' \in Seq(Blocks) /\ Len(toDelay') <= 1
  BY <1>1
<1>8. OpsTypeOK'
  BY <1>1, <1>2, <1>5, <1>6, <1>7, Zenon DEF OpsTypeOK
<1>9. Sized'
  <2>1. sent.count \in Nat /\ Len(ready) \in Nat /\ Len(toTx) = 0
    BY <1>1, <1>2, CountsTyped, LenProperties
  <2>2. sent.count > 0 => Len(b) = Delay
    BY <1>2, <1>4, <2>1 DEF Sized
  <2>3. sent.count + Len(ready) > 0 => Len(held) = Delay
    BY <1>5, <2>1, <2>2
  <2> QED
    BY <1>1, <1>2, <1>5, <1>6, <2>3 DEF Sized
<1>10. Underway' = Underway
  <2>1. Way(ready, held, <<>>, queue, block) = Way(<<>>, b, <<x>>, queue, block)
    BY <1>5, ThroughLine DEF Way
  <2>2. Underway' = Way(ready, held, <<>>, queue, block)
    BY <1>1, <1>6 DEF Underway, Way
  <2>3. Underway = Way(<<>>, b, <<x>>, queue, block)
    BY <1>1, <1>3, <1>4 DEF Underway, Way
  <2> QED
    BY <2>1, <2>2, <2>3
<1>11. Accounted(Underway, made, dropped, sent.count, sent.stamp, sent.samples, ring)'
  BY <1>1, <1>2, <1>10
<1> QED
  BY <1>8, <1>9, <1>11 DEF OpsInv

LEMMA TransmitStep ==
  ASSUME OpsInv, Transmit
  PROVE  OpsInv'
<1>1. /\ toTx # <<>> /\ toTx' = <<>> /\ base' = SendAt + PacketTime
      /\ sent' = [count |-> sent.count + 1, stamp |-> Head(toTx).stamp,
                  samples |-> ring[Head(toTx).slot], at |-> SendAt]
      /\ UNCHANGED <<burst, block, made, ring, queue, dropped, toDelay, line, now, stop_poll>>
  BY DEF Transmit
<1>2. OpsTypeOK /\ Sized
      /\ Accounted(Underway, made, dropped, sent.count, sent.stamp, sent.samples, ring)
  BY DEF OpsInv
<1>3. PICK x \in Blocks : toTx = <<x>> /\ x = Head(toTx)
  BY <1>1, <1>2, PlacesTyped, Single
<1>4. x.stamp \in 1 .. MaxPackets /\ x.slot \in 0 .. Slots - 1
  BY DEF Blocks
<1>5. toTx' \in Seq(Blocks) /\ Len(toTx') = 0
  BY <1>1
<1>6. SendAt \in Nat /\ base' \in Nat
  <2>1. now \in Nat /\ base \in Nat /\ PacingHorizon \in Nat /\ PacketTime \in Nat
    BY <1>2, CountsTyped, OpsConstants
  <2>2. SendAt \in Nat
    BY <2>1 DEF SendAt
  <2> QED
    BY <1>1, <2>1, <2>2
<1>7. /\ sent'.count = sent.count + 1 /\ sent'.stamp = x.stamp /\ sent'.samples = ring[x.slot]
      /\ sent' \in [count : Nat, stamp : Nat, samples : Nat, at : Nat]
  <2>1. sent.count + 1 \in Nat
    <3>1. sent.count \in Nat
      BY <1>2, CountsTyped
    <3> QED
      BY <3>1
  <2>2. ring[x.slot] \in Nat
    <3>1. ring \in [0 .. Slots - 1 -> 0 .. MaxPackets] /\ MaxPackets \in Nat
      BY <1>2, CountsTyped, OpsConstants
    <3> QED
      BY <1>4, <3>1
  <2>3. x.stamp \in Nat
    BY <1>4, OpsConstants
  <2> QED
    BY <1>1, <1>3, <1>6, <2>1, <2>2, <2>3
<1>8. OpsTypeOK'
  <2>1. Len(toTx') <= 1
    BY <1>5
  <2> QED
    BY <1>1, <1>2, <1>5, <1>6, <1>7, <2>1, Zenon DEF OpsTypeOK
<1>9. Sized'
  <2>1. sent.count \in Nat /\ Len(toTx) = 1
    BY <1>2, <1>3, CountsTyped
  <2>2. Len(line) = Delay
    BY <1>2, <2>1 DEF Sized
  <2> QED
    BY <1>1, <1>2, <2>2 DEF Sized
<1>10. PICK V \in Seq(Blocks) : V = Way(<<>>, line, toDelay, queue, block)
  <2>1. /\ <<>> \in Seq(Blocks) /\ line \in Seq(Blocks) /\ toDelay \in Seq(Blocks)
        /\ queue \in Seq(Blocks) /\ block \in Seq(Blocks)
    BY <1>2, PlacesTyped
  <2> QED
    BY <2>1, WayType DEF Way
<1>11. Underway = <<x>> \o V
  <2>1. /\ line \in Seq(Blocks) /\ toDelay \in Seq(Blocks)
        /\ queue \in Seq(Blocks) /\ block \in Seq(Blocks)
    BY <1>2, PlacesTyped
  <2>2. PICK b \in Seq(Blocks), c \in Seq(Blocks), d \in Seq(Blocks), e \in Seq(Blocks) :
          b = line /\ c = toDelay /\ d = queue /\ e = block
    BY <2>1
  <2>3. PICK h \in Seq(Blocks) : h = <<x>>
    <3>1. <<x>> \in Seq(Blocks)
      OBVIOUS
    <3> QED
      BY <3>1, Zenon
  <2>4. PICK p \in Seq(Blocks) : p = b \o c
    <3>1. b \o c \in Seq(Blocks)
      BY ConcatProperties
    <3> QED
      BY <3>1, Zenon
  <2>5. PICK t \in Seq(Blocks) : t = p \o d
    <3>1. p \o d \in Seq(Blocks)
      BY ConcatProperties
    <3> QED
      BY <3>1, Zenon
  <2>6. (h \o b) \o c = h \o (b \o c)
    OBVIOUS
  <2>7. (h \o p) \o d = h \o (p \o d)
    OBVIOUS
  <2>8. (h \o t) \o e = h \o (t \o e)
    OBVIOUS
  <2>9. <<>> \o b = b
    BY ConcatEmptySeq
  <2>10. Underway = h \o b \o c \o d \o e
    BY <1>3, <2>2, <2>3 DEF Underway
  <2>11. V = b \o c \o d \o e
    BY <1>10, <2>2, <2>9 DEF Way
  <2>12. Underway = h \o V
    BY <2>10, <2>11, <2>4, <2>5, <2>6, <2>7, <2>8
  <2> QED
    BY <2>3, <2>12
<1>12. Underway' = V
  BY <1>1, <1>10 DEF Underway, Way
<1>13. Accounted(V, made, dropped, sent.count + 1, x.stamp, ring[x.slot], ring)
  BY <1>2, <1>11, CountsTyped, AfterSend
<1>14. Accounted(Underway, made, dropped, sent.count, sent.stamp, sent.samples, ring)'
  BY <1>1, <1>7, <1>12, <1>13
<1> QED
  BY <1>8, <1>9, <1>14 DEF OpsInv
-----------------------------------------------------------------------------
(* The theorem *)

LEMMA OpsStarts == OpsInit => OpsInv
<1> SUFFICES ASSUME OpsInit PROVE OpsInv
  OBVIOUS
<1>1. /\ burst = 0 /\ block = <<>> /\ made = 0 /\ ring = [i \in 0 .. Slots - 1 |-> 0]
      /\ queue = <<>> /\ dropped = 0 /\ toDelay = <<>> /\ toTx = <<>> /\ line = <<>>
      /\ now = 1 /\ base = 0
      /\ sent = [count |-> 0, stamp |-> 0, samples |-> 0, at |-> 0] /\ stop_poll = FALSE
  BY DEF OpsInit, None
<1>2. <<>> \in Seq(Blocks) /\ Len(<<>>) = 0
  OBVIOUS
<1>3. OpsTypeOK
  <2>1. burst \in 0 .. BurstMax /\ made \in 0 .. MaxPackets /\ dropped \in 0 .. MaxPackets
        /\ now \in 1 .. MaxTime /\ base \in Nat /\ stop_poll \in BOOLEAN
    BY <1>1, OpsConstants
  <2>2. ring \in [0 .. Slots - 1 -> 0 .. MaxPackets]
    BY <1>1, OpsConstants
  <2>3. sent \in [count : Nat, stamp : Nat, samples : Nat, at : Nat]
    BY <1>1
  <2>4. Len(<<>>) <= 1
    BY <1>2
  <2> QED
    BY <1>1, <1>2, <2>1, <2>2, <2>3, <2>4, Zenon DEF OpsTypeOK
<1>4. Sized
  BY <1>1, <1>2, OpsConstants DEF Sized
<1>5. Underway = <<>>
  BY <1>1 DEF Underway
<1>6. Accounted(<<>>, 0, 0, 0, 0, 0, ring)
  BY <1>2 DEF Accounted, Ordered, Placed, Numbered, Filled
<1>7. Accounted(Underway, made, dropped, sent.count, sent.stamp, sent.samples, ring)
  BY <1>1, <1>5, <1>6
<1> QED
  BY <1>3, <1>4, <1>7 DEF OpsInv

(* Every step of the operators keeps the invariant.                        *)
LEMMA OpsSteps == OpsInv /\ [OpsNext]_opsVars => OpsInv'
<1> SUFFICES ASSUME OpsInv, [OpsNext]_opsVars PROVE OpsInv'
  OBVIOUS
<1>1. CASE Poll \/ Refuse \/ Stop \/ Tick \/ UNCHANGED opsVars
  BY <1>1, IdleStep
<1>2. CASE Fill
  BY <1>2, FillStep
<1>3. CASE Queue
  BY <1>3, QueueStep
<1>4. CASE RxEmit
  BY <1>4, EmitStep
<1>5. CASE DelayPass
  BY <1>5, DelayStep
<1>6. CASE Transmit
  BY <1>6, TransmitStep
<1> QED
  BY <1>1, <1>2, <1>3, <1>4, <1>5, <1>6 DEF OpsNext

LEMMA OpsInvHolds == OpsSpec => []OpsInv
BY OpsStarts, OpsSteps, PTL DEF OpsSpec

LEMMA OpsInvKeepsBlocks == OpsInv => BlocksKept
<1> SUFFICES ASSUME OpsInv PROVE BlocksKept
  OBVIOUS
<1>1. Sized
      /\ Accounted(Underway, made, dropped, sent.count, sent.stamp, sent.samples, ring)
  BY DEF OpsInv
<1>2. \A i \in 1 .. Len(Underway) :
        Underway[i].stamp > (IF i = 1 THEN sent.stamp ELSE Underway[i - 1].stamp)
  BY <1>1, Zenon DEF Accounted, Ordered
<1>3. sent.count + Len(Underway) + dropped = made
  BY <1>1, Zenon DEF Accounted
<1>4. DelayedInOrder
  BY <1>1, <1>2, <1>3, Zenon DEF DelayedInOrder, Sized
<1>5. SamplesKept
  BY <1>1, Zenon DEF SamplesKept, Accounted
<1> QED
  BY <1>4, <1>5 DEF BlocksKept

(* No block of the stand-alone chain is lost, doubled or overtaken between *)
(* the parser and the wire, the delay is exactly that of the line, and     *)
(* with a buffer for each place every block leaves with its own samples,   *)
(* for every ring, queue, line and burst.                                  *)
THEOREM OperatorsKeepBlocks == OpsSpec => [](OpsTypeOK /\ BlocksKept)
<1>1. OpsInv => OpsTypeOK /\ BlocksKept
  BY OpsInvKeepsBlocks DEF OpsInv
<1> QED
  BY <1>1, OpsInvHolds, PTL

-----------------------------------------------------------------------------
(* AudioRelay: nothing is dropped.                                         *)

(* Moving an instant near the arrival by a lag moves it no farther.        *)
LEMMA Shifted ==
    ASSUME NEW S \in Nat, NEW L \in Nat, 2 * (S + L) < M,
           NEW x \in Int, NEW y \in -S .. S, NEW g \in -L .. L,
           NEW k \in Int, y = (x + g) + k * M
    PROVE  /\ Nearest(x) = y - g
           /\ Nearest(x) \in -(S + L) .. S + L
<1> DEFINE z == y - g
<1>1. z \in Int /\ z \in -(S + L) .. S + L /\ z = x + k * M
  BY Half, SMT
<1>2. z \in -(M \div 2) + 1 .. M \div 2
  BY <1>1, Half, SMT
<1> HIDE DEF z
<1>3. Nearest(x) = z
  BY <1>1, <1>2, NearestOf
<1> QED
  BY <1>1, <1>3 DEF z

(* The error of the capture time of an accepted packet is that of a lag:   *)
(* of its own, of the one whose delta is kept, or none.                    *)
LEMMA OffBounded ==
    ASSUME TypeOK, HealthyNetwork, NEW s \in Streams, Lag(s) >= 0,
           FromWrong(s, delta[s]), ~Near(s)
    PROVE  Off(s) \in 0 .. MaxLag[s]
<1> DEFINE e == epoch[s]
           o == Stamp(s)
           g == Lag(s)
           S == Sane[s]
           L == MaxLag[s]
           d == delta[s]
<1>1. /\ g \in 0 .. L /\ L \in Nat /\ S \in Nat /\ 2 * (S + L) < M /\ L <= S
      /\ e \in 0 .. M - 1 /\ e \in Epochs[s] /\ d \in 0 .. M - 1
      /\ o = e - g /\ o \in Int
  <2>1. L <= S
    BY DEF HealthyNetwork
  <2> QED
    BY <2>1, StreamOK DEF Stamp
<1>2. CASE e = 0
  <2>1. Off(s) = 0
    BY <1>2, CorrectOff
  <2> QED
    BY <2>1, <1>1, SMT
<1>3. ASSUME e # 0, NEW f \in Epochs[s], f # e PROVE Nearest(e - f) \notin -(S + L) .. S + L
  BY <1>3 DEF Near
<1>4. 0 \in Epochs[s] /\ Epochs[s] \subseteq 0 .. M - 1
  BY RelayAssumption
<1>5. ASSUME e # 0 PROVE ~Within(s, Nearest(o))
  <2> SUFFICES ASSUME Within(s, Nearest(o)) PROVE FALSE
    OBVIOUS
  <2>1. PICK k \in Int : Nearest(o) = o + k * M
    BY <1>1, NearestFits
  <2> DEFINE y == Nearest(o)
  <2>2. y \in -S .. S /\ y = o + k * M
    BY <2>1 DEF Within
  <2> HIDE DEF y
  <2>3. e \in Int /\ y = (e + (-g)) + k * M /\ -g \in -L .. L
    <3> HIDE DEF e, o, g, S, L
    <3> QED
      BY <2>2, <1>1, Positive, SMT
  <2>4. Nearest(e) \in -(S + L) .. S + L
    <3> HIDE DEF e, o, g, S, L
    <3> DEFINE h == -g
    <3>1. y = (e + h) + k * M /\ h \in -L .. L
      BY <2>3
    <3> HIDE DEF h
    <3> QED
      BY <2>2, <2>3, <1>1, <3>1, Shifted
  <2>5. e - 0 = e
    BY <1>1, Positive, SMT
  <2> QED
    BY <2>4, <2>5, <1>3, <1>4, <1>5
<1>6. CASE e # 0 /\ Within(s, Nearest(o + d))
  <2>1. d # 0
    <3> SUFFICES ASSUME d = 0 PROVE FALSE
      OBVIOUS
    <3>1. o + d = o
      BY <1>1, SMT
    <3> QED
      BY <1>5, <1>6, <3>1
  <2>2. PICK f \in Epochs[s] \ {0}, l \in 0 .. L :
            d = (l - f) % M /\ ~Within(s, Nearest(f - l))
    BY <2>1 DEF FromWrong
  <2>3. PICK i \in Int : l - f = i * M + d
    <3>1. f \in Int /\ l \in Int
      BY <1>1, <1>4, <2>2, Positive, SMT
    <3> QED
      BY <3>1, <2>2, Remainder
  <2>4. f \in Int /\ l \in 0 .. L
    BY <1>1, <1>4, <2>2, Positive, SMT
  <2>5. PICK k \in Int : Nearest(o + d) = (o + d) + k * M
    <3>1. o + d \in Int
      BY <1>1, Positive, SMT
    <3> QED
      BY <3>1, NearestFits
  <2> DEFINE y == Nearest(o + d)
  <2>6. y \in -S .. S /\ y = (o + d) + k * M
    BY <2>5, <1>6 DEF Within
  <2>7. Off(s) = y + g
    <3>1. DeltaAfter(s, Stamp(s)) = d
      BY <1>6 DEF DeltaAfter
    <3> QED
      BY <3>1 DEF Off, Captured
  <2> DEFINE h == l - g
             x == e - f
             j == k - i
  <2>8. y = (x + h) + j * M /\ h \in -L .. L /\ x \in Int /\ j \in Int
    <3> HIDE DEF e, o, g, S, L, d, y
    <3> QED
      BY <2>6, <2>3, <2>4, <1>1, Positive, SMT
  <2>9. Nearest(x) = y - h /\ Nearest(x) \in -(S + L) .. S + L
    <3> HIDE DEF e, o, g, S, L, d, y, h, x, j
    <3> QED
      BY <2>6, <2>8, <1>1, Shifted
  <2>10. f = e
    BY <2>2, <2>9, <1>3, <1>6
  <2>11. Nearest(x) = 0
    <3>1. x = 0
      BY <2>10, <2>4, SMT
    <3>2. 0 \in Int /\ 0 \in -(M \div 2) + 1 .. M \div 2 /\ 0 = 0 + 0 * M
      BY Half, SMT
    <3>3. Nearest(0) = 0
      BY <3>2, NearestOf
    <3> QED
      BY <3>1, <3>3
  <2>12. y = h
    <3> HIDE DEF e, o, g, S, L, d, y, h, x, j
    <3> QED
      BY <2>9, <2>11, <2>8, <2>6, <1>1, SMT
  <2>13. Off(s) = l
    <3>1. Off(s) = (l - g) + g
      BY <2>7, <2>12
    <3> QED
      BY <3>1, <2>4, <1>1, SMT
  <2> QED
    BY <2>13, <2>4
<1>7. CASE e # 0 /\ ~Within(s, Nearest(o + d))
  <2>1. DeltaAfter(s, Stamp(s)) = Restamp(o)
    BY <1>5, <1>7 DEF DeltaAfter, Returns
  <2>2. Captured(s) = Nearest(o + ((-o) % M))
    BY <2>1 DEF Captured, Restamp
  <2>3. Nearest(o + ((-o) % M)) = 0
    <3> HIDE DEF o
    <3> DEFINE r == (-o) % M
    <3>1. PICK i \in Int : -o = i * M + r
      <4>1. -o \in Int
        BY <1>1
      <4> QED
        BY <4>1, Remainder
    <3>2. r \in Int
      <4>1. -o \in Int
        BY <1>1
      <4>2. r \in 0 .. M - 1
        BY <4>1, Remainder
      <4> QED
        BY <4>2, Positive, SMT
    <3> HIDE DEF r
    <3>3. o + r \in Int /\ 0 = (o + r) + i * M /\ 0 \in -(M \div 2) + 1 .. M \div 2
      BY <3>1, <3>2, <1>1, Half, SMT
    <3>4. Nearest(o + r) = 0
      BY <3>3, NearestOf
    <3> QED
      BY <3>4 DEF r
  <2>4. Off(s) = g
    BY <2>2, <2>3, <1>1, SMT DEF Off
  <2> QED
    BY <2>4, <1>1
<1> QED
  BY <1>2, <1>6, <1>7

\* When a packet would be due without the error of its capture time.
Due(p) == p.left - p.off
Spaced(p, r) == Due(p) + Period["audio"] <= Due(r)

\* p will not be late if the relay has been kept from running for t.
Sound(p, t) == /\ p.off \in 0 .. MaxLag["audio"]
               /\ \E k \in LeastLeft : p.left >= k - t

\* The packets of w were captured in turn, the last one at least a ago.
OnTime(w, t, a) ==
    \A i \in 1 .. Len(w) :
        /\ Sound(w[i], t)
        /\ Due(w[i]) <= Shift - a - Period["audio"] * (Len(w) - i)
        /\ \A j \in 1 .. i - 1 : Spaced(w[j], w[i])

\* p was captured before them.
InHand(p, w, t, a) ==
    /\ Sound(p, t)
    /\ Due(p) <= Shift - a
    /\ \A i \in 1 .. Len(w) : Spaced(p, w[i])

InTime ==
    /\ ~drops /\ pc # "done"
    /\ OnTime(q, stall, age["audio"])
    /\ pc = "hold" => InHand(hand, q, stall, age["audio"])

TimeInv == RelayInv /\ (stop \/ hopped \/ InTime)

(* The constants of the relay are numbers.                                 *)
LEMMA RelayConstants ==
    /\ Period["audio"] \in Nat \ {0} /\ MaxLag["audio"] \in Nat
    /\ Shift \in Int /\ Horizon \in Nat /\ LateDrop \in Nat /\ MaxStall \in Nat
    /\ Cap \in Nat \ {0}
    /\ LeastLeft \subseteq Int
<1>1. "audio" \in Streams
  BY DEF Streams
<1>2. /\ Period["audio"] \in Nat \ {0} /\ MaxLag["audio"] \in Nat
      /\ Shift \in Int /\ Horizon \in Nat /\ LateDrop \in Nat /\ MaxStall \in Nat
      /\ Cap \in Nat \ {0}
  BY <1>1, RelayAssumption DEF Shift
<1> QED
  BY <1>2, SMT DEF LeastLeft

(* Due times are numbers.                                                  *)
LEMMA DueTyped == ASSUME NEW p \in Packet PROVE Due(p) \in Int
BY DEF Due, Packet

(* A sound packet counts down, and is not late.                            *)
LEMMA CountsDown ==
    ASSUME RelayInTime, NEW p \in Packet, NEW t \in 0 .. MaxStall, Sound(p, t)
    PROVE  /\ p.left >= -LateDrop
           /\ Later(p) \in Packet
           /\ Later(p).left = p.left - 1 /\ Later(p).off = p.off
           /\ Due(p) \in Int /\ Due(Later(p)) = Due(p) - 1
<1>1. PICK k \in LeastLeft : p.left >= k - t
  BY DEF Sound
<1>2. k \in Int /\ k - MaxStall >= -LateDrop
  BY <1>1, RelayConstants DEF RelayInTime
<1>3. p.left \in Int /\ p.off \in Int
  BY DEF Packet
<1>4. p.left >= -LateDrop
  BY <1>1, <1>2, <1>3, RelayConstants, SMT
<1>5. Later(p) = [p EXCEPT !.left = p.left - 1]
  BY <1>3, <1>4, RelayConstants, SMT DEF Later
<1>6. Later(p).left = p.left - 1 /\ Later(p).off = p.off
  BY <1>5 DEF Packet
<1>7. Due(p) \in Int /\ Due(Later(p)) = Due(p) - 1
  BY <1>3, <1>6, SMT DEF Due
<1> QED
  BY <1>4, <1>6, <1>7, LaterTyped

(* A packet that was lost only adds distance.                              *)
LEMMA OnTimeLater ==
    ASSUME NEW w \in Seq(Packet), NEW t, NEW a \in Int, NEW b \in Int, b <= a
    PROVE  /\ OnTime(w, t, a) => OnTime(w, t, b)
           /\ \A p \in Packet : InHand(p, w, t, a) => InHand(p, w, t, b)
<1>1. ASSUME OnTime(w, t, a), NEW i \in 1 .. Len(w)
      PROVE  Due(w[i]) <= Shift - b - Period["audio"] * (Len(w) - i)
  <2>1. Due(w[i]) <= Shift - a - Period["audio"] * (Len(w) - i)
    BY <1>1 DEF OnTime
  <2>2. w[i] \in Packet /\ Len(w) \in Nat /\ i \in Int
    BY <1>1
  <2>3. Due(w[i]) \in Int
    BY <2>2 DEF Due, Packet
  <2> DEFINE m == Period["audio"] * (Len(w) - i)
  <2>4. m \in Int
    BY <2>2, RelayConstants, SMT
  <2>5. Due(w[i]) <= Shift - a - m
    BY <2>1
  <2> HIDE DEF m
  <2>6. Due(w[i]) <= Shift - b - m
    BY <2>3, <2>4, <2>5, RelayConstants, SMT
  <2> QED
    BY <2>6 DEF m
<1>2. OnTime(w, t, a) => OnTime(w, t, b)
  BY <1>1 DEF OnTime
<1>3. ASSUME NEW p \in Packet, Due(p) <= Shift - a PROVE Due(p) <= Shift - b
  BY <1>3, RelayConstants, SMT DEF Due, Packet
<1> QED
  BY <1>2, <1>3 DEF InHand

(* The packet that arrives is behind those of the bridge, and in time.     *)
LEMMA Arrived ==
    ASSUME NEW w \in Seq(Packet), NEW t \in Nat, NEW a \in Int, OnTime(w, t, a),
           NEW p \in Packet, p.off \in 0 .. MaxLag["audio"],
           Due(p) = Shift - (a - Period["audio"]),
           p.left >= Shift - MaxLag["audio"]
    PROVE  /\ OnTime(Append(w, p), t, a - Period["audio"])
           /\ \A h \in Packet : InHand(h, w, t, a)
                  => InHand(h, Append(w, p), t, a - Period["audio"])
<1> DEFINE v == Append(w, p)
           P == Period["audio"]
<1>1. /\ Len(w) \in Nat /\ Len(v) = Len(w) + 1
      /\ \A i \in 1 .. Len(w) : v[i] = w[i] /\ w[i] \in Packet
      /\ v[Len(w) + 1] = p
  OBVIOUS
<1>2. P \in Nat \ {0} /\ Shift \in Int /\ MaxLag["audio"] \in Nat
  BY RelayConstants
<1>3. Sound(p, t)
  <2>1. Shift - MaxLag["audio"] \in LeastLeft
    BY DEF LeastLeft
  <2>2. p.left >= (Shift - MaxLag["audio"]) - t
    BY <1>2, SMT DEF Packet
  <2> QED
    BY <2>1, <2>2 DEF Sound
<1>4. ASSUME NEW r \in Packet, Due(r) <= Shift - a PROVE Spaced(r, p)
  <2>1. Due(r) \in Int
    BY DEF Due, Packet
  <2> QED
    BY <1>2, <1>4, <2>1, SMT DEF Spaced
<1>5. ASSUME NEW i \in 1 .. Len(w)
      PROVE  /\ Due(w[i]) <= Shift - a
             /\ Due(w[i]) <= Shift - (a - P) - P * ((Len(w) + 1) - i)
  <2>1. Due(w[i]) <= Shift - a - P * (Len(w) - i)
    BY DEF OnTime
  <2>2. Due(w[i]) \in Int /\ Len(w) - i \in Nat
    <3>1. w[i] \in Packet
      OBVIOUS
    <3>2. Due(w[i]) \in Int
      BY <3>1, DueTyped
    <3>3. Len(w) - i \in Nat
      BY <1>1
    <3> QED
      BY <3>2, <3>3
  <2>3. PICK d \in Int : d = Due(w[i])
    BY <2>2
  <2>4. PICK n \in Nat : n = Len(w) - i
    BY <2>2
  <2>5. (Len(w) + 1) - i = n + 1
    BY <1>1, <2>4
  <2>6. d <= Shift - a - P * n
    BY <2>1, <2>3, <2>4
  <2> HIDE DEF P
  <2>7. P * n \in Nat /\ P * (n + 1) = P * n + P
    BY <1>2, SMT
  <2>8. d <= Shift - a /\ d <= Shift - (a - P) - P * (n + 1)
    BY <2>6, <2>7, <1>2, SMT
  <2> QED
    BY <2>3, <2>5, <2>8
<1>6. OnTime(v, t, a - P)
  <2> SUFFICES ASSUME NEW i \in 1 .. Len(v)
               PROVE  /\ Sound(v[i], t)
                      /\ Due(v[i]) <= Shift - (a - P) - P * (Len(v) - i)
                      /\ \A j \in 1 .. i - 1 : Spaced(v[j], v[i])
    BY DEF OnTime
  <2>1. CASE i \in 1 .. Len(w)
    <3>1. \A j \in 1 .. i - 1 : j \in 1 .. Len(w)
      BY <2>1, <1>1
    <3> HIDE DEF v, P
    <3> QED
      BY <2>1, <3>1, <1>1, <1>5 DEF OnTime
  <2>2. CASE i = Len(w) + 1
    <3>1. v[i] = p /\ \A j \in 1 .. i - 1 : j \in 1 .. Len(w)
      BY <2>2, <1>1
    <3>2. \A j \in 1 .. i - 1 : Spaced(v[j], v[i])
      BY <3>1, <1>1, <1>4, <1>5
    <3>3. Len(v) - i = 0
      BY <1>1, <2>2
    <3>4. Due(p) <= Shift - (a - P) - P * 0
      <4> HIDE DEF P
      <4>1. P * 0 = 0
        BY <1>2, SMT
      <4>2. Due(p) = Shift - (a - P)
        BY DEF P
      <4> QED
        BY <4>1, <4>2, <1>2, SMT
    <3> QED
      BY <3>1, <3>2, <3>3, <3>4, <1>3
  <2> QED
    BY <2>1, <2>2, <1>1
<1>7. ASSUME NEW h \in Packet, InHand(h, w, t, a) PROVE InHand(h, v, t, a - P)
  <2>1. Sound(h, t) /\ Due(h) <= Shift - a /\ \A i \in 1 .. Len(w) : Spaced(h, w[i])
    BY <1>7 DEF InHand
  <2>2. Due(h) <= Shift - (a - P)
    <3>1. Due(h) \in Int /\ Due(h) <= Shift - a
      BY <2>1 DEF Due, Packet
    <3> HIDE DEF P
    <3> QED
      BY <3>1, <1>2, SMT
  <2>3. \A i \in 1 .. Len(v) : Spaced(h, v[i])
    BY <2>1, <1>1, <1>4
  <2> QED
    BY <2>1, <2>2, <2>3 DEF InHand
<1> QED
  BY <1>6, <1>7

(* The bridge is never full when a packet arrives.                         *)
LEMMA Room ==
    ASSUME RelayInTime, NEW w \in Seq(Packet), NEW t \in 0 .. MaxStall, NEW a \in Int,
           OnTime(w, t, a), a >= Period["audio"]
    PROVE  Len(w) # Cap
<1> SUFFICES ASSUME Len(w) = Cap PROVE FALSE
  OBVIOUS
<1> DEFINE P == Period["audio"]
<1>1. P \in Nat \ {0} /\ Shift \in Int /\ MaxLag["audio"] \in Nat /\ MaxStall \in Nat
      /\ Cap \in Nat \ {0}
  BY RelayConstants
<1>2. 1 \in 1 .. Len(w) /\ w[1] \in Packet
  BY <1>1
<1>3. Sound(w[1], t) /\ Due(w[1]) <= Shift - a - P * (Cap - 1)
  BY <1>2 DEF OnTime
<1>4. PICK k \in LeastLeft : w[1].left >= k - t
  BY <1>3 DEF Sound
<1>5. PICK l \in Int, f \in Int : l = w[1].left /\ f = w[1].off
  BY <1>2 DEF Packet
<1>6. f \in 0 .. MaxLag["audio"] /\ l >= k - t /\ l - f <= Shift - a - P * (Cap - 1)
  BY <1>3, <1>4, <1>5 DEF Sound, Due
<1>7. k \in Int /\ Cap * P > Shift + MaxLag["audio"] + MaxStall - k
  BY <1>4, RelayConstants DEF RelayInTime
<1>8. a >= P
  OBVIOUS
<1> HIDE DEF P
<1>9. PICK c \in Int : c = Cap * P
  BY <1>1
<1>10. P * (Cap - 1) = c - P
  BY <1>1, <1>9, SMT
<1>11. /\ l - f <= (Shift - a) - (c - P)
       /\ c > (Shift + MaxLag["audio"] + MaxStall) - k
  BY <1>6, <1>7, <1>9, <1>10, <1>1, SMT
<1> QED
  BY <1>1, <1>6, <1>7, <1>8, <1>11, SMT

(* The relay takes the packet that was captured first.                     *)
LEMMA Popped ==
    ASSUME NEW w \in Seq(Packet), w # <<>>, NEW t, NEW a \in Int, OnTime(w, t, a)
    PROVE  OnTime(Tail(w), t, a) /\ InHand(Head(w), Tail(w), t, a)
<1> DEFINE v == Tail(w)
<1>1. /\ Len(w) \in Nat \ {0} /\ Len(v) = Len(w) - 1
      /\ \A i \in 1 .. Len(v) : v[i] = w[i + 1] /\ i + 1 \in 1 .. Len(w) /\ i \in Nat
      /\ Head(w) = w[1] /\ 1 \in 1 .. Len(w)
      /\ \A i \in 1 .. Len(w) : w[i] \in Packet
  BY SMT
<1> HIDE DEF v
<1>2. OnTime(v, t, a)
  <2> SUFFICES ASSUME NEW i \in 1 .. Len(v)
               PROVE  /\ Sound(v[i], t)
                      /\ Due(v[i]) <= Shift - a - Period["audio"] * (Len(v) - i)
                      /\ \A j \in 1 .. i - 1 : Spaced(v[j], v[i])
    BY DEF OnTime
  <2>1. v[i] = w[i + 1] /\ i + 1 \in 1 .. Len(w)
    BY <1>1
  <2>2. Sound(w[i + 1], t)
        /\ Due(w[i + 1]) <= Shift - a - Period["audio"] * (Len(w) - (i + 1))
        /\ \A j \in 1 .. (i + 1) - 1 : Spaced(w[j], w[i + 1])
    BY <2>1 DEF OnTime
  <2>3. Len(w) - (i + 1) = Len(v) - i
    BY <1>1
  <2>4. \A j \in 1 .. i - 1 : j \in 1 .. Len(v) /\ j + 1 \in 1 .. (i + 1) - 1
    BY <1>1
  <2> QED
    BY <2>1, <2>2, <2>3, <2>4, <1>1
<1>3. InHand(w[1], v, t, a)
  <2>1. Sound(w[1], t) /\ Due(w[1]) <= Shift - a - Period["audio"] * (Len(w) - 1)
    BY <1>1 DEF OnTime
  <2>2. Due(w[1]) <= Shift - a
    <3>1. PICK d \in Int : d = Due(w[1])
      BY <1>1 DEF Due, Packet
    <3>2. Period["audio"] * (Len(w) - 1) \in Nat
      BY <1>1, RelayConstants, SMT
    <3>3. PICK m \in Nat : m = Period["audio"] * (Len(w) - 1)
      BY <3>2
    <3>4. d <= Shift - a - m
      BY <2>1, <3>1, <3>3
    <3> QED
      BY <3>1, <3>4, RelayConstants, SMT
  <2>3. \A i \in 1 .. Len(v) : Spaced(w[1], v[i])
    <3> TAKE i \in 1 .. Len(v)
    <3>1. v[i] = w[i + 1] /\ i + 1 \in 1 .. Len(w) /\ 1 \in 1 .. (i + 1) - 1
      BY <1>1
    <3> QED
      BY <3>1 DEF OnTime
  <2> QED
    BY <2>1, <2>2, <2>3 DEF InHand
<1> QED
  BY <1>1, <1>2, <1>3 DEF v

(* While the relay is ready, the packets get nearer and no more.           *)
LEMMA TicksReady ==
    ASSUME RelayInTime, NEW w \in Seq(Packet), NEW t \in 0 .. MaxStall, NEW a \in Int,
           NEW v \in Seq(Packet), Len(v) = Len(w),
           \A i \in 1 .. Len(w) : v[i] = Later(w[i])
    PROVE  /\ \A p \in Packet : Sound(p, t) => Sound(Later(p), t + 1)
           /\ OnTime(w, t, a) => OnTime(v, t + 1, a + 1)
           /\ \A p \in Packet : InHand(p, w, t, a) /\ OnTime(w, t, a)
                  => InHand(Later(p), v, t + 1, a + 1)
<1>1. ASSUME NEW p \in Packet, Sound(p, t) PROVE Sound(Later(p), t + 1)
  <2>1. PICK k \in LeastLeft : p.left >= k - t
    BY <1>1 DEF Sound
  <2>2. Later(p).left = p.left - 1 /\ Later(p).off = p.off /\ p.left \in Int
    BY <1>1, CountsDown DEF Packet
  <2>3. k \in Int /\ t \in Int
    BY RelayConstants
  <2>4. p.left - 1 >= k - (t + 1)
    BY <2>1, <2>2, <2>3, SMT
  <2> QED
    BY <2>2, <2>4, <1>1 DEF Sound
<1>2. ASSUME NEW p \in Packet, Sound(p, t), NEW x \in Int, Due(p) <= Shift - a - x
      PROVE  Due(Later(p)) <= Shift - (a + 1) - x
  BY <1>2, CountsDown, RelayConstants, SMT
<1>3. ASSUME NEW p \in Packet, NEW r \in Packet, Sound(p, t), Sound(r, t), Spaced(p, r)
      PROVE  Spaced(Later(p), Later(r))
  <2>1. /\ Due(p) \in Int /\ Due(Later(p)) = Due(p) - 1
        /\ Due(r) \in Int /\ Due(Later(r)) = Due(r) - 1
    BY <1>3, CountsDown
  <2> QED
    BY <1>3, <2>1, RelayConstants, SMT DEF Spaced
<1>4. \A i \in 1 .. Len(w) : w[i] \in Packet /\ v[i] = Later(w[i]) /\ Len(w) - i \in Int
  OBVIOUS
<1>5. ASSUME OnTime(w, t, a) PROVE OnTime(v, t + 1, a + 1)
  <2> SUFFICES ASSUME NEW i \in 1 .. Len(w)
               PROVE  /\ Sound(v[i], t + 1)
                      /\ Due(v[i]) <= Shift - (a + 1) - Period["audio"] * (Len(v) - i)
                      /\ \A j \in 1 .. i - 1 : Spaced(v[j], v[i])
    BY DEF OnTime
  <2>1. /\ Sound(w[i], t)
        /\ Due(w[i]) <= Shift - a - Period["audio"] * (Len(w) - i)
        /\ \A j \in 1 .. i - 1 : Spaced(w[j], w[i])
    BY <1>5 DEF OnTime
  <2>2. Period["audio"] * (Len(w) - i) \in Int
    BY <1>4, RelayConstants, SMT
  <2>3. PICK x \in Int : x = Period["audio"] * (Len(w) - i)
    BY <2>2
  <2>4. Due(v[i]) <= Shift - (a + 1) - x
    BY <2>1, <2>3, <1>2, <1>4
  <2>5. \A j \in 1 .. i - 1 : Spaced(v[j], v[i])
    <3> TAKE j \in 1 .. i - 1
    <3>1. j \in 1 .. Len(w)
      OBVIOUS
    <3>2. Sound(w[j], t)
      BY <3>1, <1>5 DEF OnTime
    <3> QED
      BY <2>1, <3>1, <3>2, <1>3, <1>4
  <2> QED
    BY <2>1, <2>3, <2>4, <2>5, <1>1, <1>4
<1>6. ASSUME NEW p \in Packet, InHand(p, w, t, a), OnTime(w, t, a)
      PROVE  InHand(Later(p), v, t + 1, a + 1)
  <2>1. Sound(p, t) /\ Due(p) <= Shift - a /\ \A i \in 1 .. Len(w) : Spaced(p, w[i])
    BY <1>6 DEF InHand
  <2>2. Due(Later(p)) <= Shift - (a + 1)
    <3>1. Due(p) \in Int /\ Due(Later(p)) = Due(p) - 1
      BY <2>1, CountsDown
    <3> QED
      BY <2>1, <3>1, RelayConstants, SMT
  <2>3. \A i \in 1 .. Len(w) : Spaced(Later(p), v[i])
    <3> TAKE i \in 1 .. Len(w)
    <3>1. Sound(w[i], t)
      BY <1>6 DEF OnTime
    <3> QED
      BY <2>1, <3>1, <1>3, <1>4
  <2> QED
    BY <2>1, <2>2, <2>3, <1>1 DEF InHand
<1> QED
  BY <1>1, <1>5, <1>6

(* A relay that waits for a packet is ahead of it by the horizon, and of   *)
(* those behind it by more.                                                *)
LEMMA TicksWaiting ==
    ASSUME RelayInTime, NEW w \in Seq(Packet), NEW t \in 0 .. MaxStall, NEW a \in Int,
           NEW v \in Seq(Packet), Len(v) = Len(w),
           \A i \in 1 .. Len(w) : v[i] = Later(w[i]),
           OnTime(w, t, a), NEW h \in Packet, InHand(h, w, t, a), h.left > Horizon
    PROVE  OnTime(v, 0, a + 1) /\ InHand(Later(h), v, 0, a + 1)
<1>1. OnTime(v, t + 1, a + 1) /\ InHand(Later(h), v, t + 1, a + 1)
  BY TicksReady
<1>2. h.left \in Int /\ h.off \in 0 .. MaxLag["audio"] /\ Sound(h, t)
  BY DEF InHand, Sound, Packet
<1>3. Later(h).left = h.left - 1 /\ Later(h).off = h.off
  BY <1>2, CountsDown
<1>4. Sound(Later(h), 0)
  <2>1. Horizon \in LeastLeft /\ Later(h).left >= Horizon - 0
    BY <1>2, <1>3, RelayConstants, SMT DEF LeastLeft
  <2> QED
    BY <1>2, <1>3, <2>1 DEF Sound
<1>5. ASSUME NEW i \in 1 .. Len(v) PROVE Sound(v[i], 0)
  <2>1. w[i] \in Packet /\ v[i] = Later(w[i]) /\ Sound(w[i], t) /\ Spaced(h, w[i])
    BY DEF OnTime, InHand
  <2>2. Later(w[i]).left = w[i].left - 1 /\ Later(w[i]).off = w[i].off
    BY <2>1, CountsDown
  <2>3. w[i].left \in Int /\ w[i].off \in 0 .. MaxLag["audio"]
    BY <2>1 DEF Packet, Sound
  <2>4. (h.left - h.off) + Period["audio"] <= w[i].left - w[i].off
    BY <2>1 DEF Spaced, Due
  <2>5. w[i].left - 1 >= (Horizon - MaxLag["audio"] + Period["audio"]) - 0
    <3>1. PICK l \in Int, f \in Int : l = w[i].left /\ f = w[i].off
      BY <2>3
    <3>2. PICK m \in Int, g \in Int : m = h.left /\ g = h.off
      BY <1>2
    <3>3. /\ m > Horizon /\ g <= MaxLag["audio"] /\ f >= 0
          /\ (m - g) + Period["audio"] <= l - f
      BY <2>3, <2>4, <3>1, <3>2, <1>2
    <3>4. l - 1 >= (Horizon - MaxLag["audio"] + Period["audio"]) - 0
      BY <3>3, RelayConstants, SMT
    <3> QED
      BY <3>1, <3>4
  <2>6. Horizon - MaxLag["audio"] + Period["audio"] \in LeastLeft
    BY DEF LeastLeft
  <2> QED
    BY <2>1, <2>2, <2>3, <2>5, <2>6 DEF Sound
<1>6. OnTime(v, 0, a + 1)
  BY <1>1, <1>5 DEF OnTime
<1>7. InHand(Later(h), v, 0, a + 1)
  BY <1>1, <1>4 DEF InHand
<1> QED
  BY <1>6, <1>7

(* What audio_ingest pushes is in time, if the guard sees the step.        *)
LEMMA IngestedInTime ==
    ASSUME TypeOK, HealthyNetwork, GuardInv, Lag("audio") >= 0, ~Near("audio")
    PROVE  /\ Ingested \in Packet
           /\ Ingested.off \in 0 .. MaxLag["audio"]
           /\ Due(Ingested) = Shift - (age["audio"] - Period["audio"])
           /\ Ingested.left >= Shift - MaxLag["audio"]
<1>1. "audio" \in Streams
  BY DEF Streams
<1>2. FromWrong("audio", delta["audio"])
  BY <1>1 DEF GuardInv
<1>3. Off("audio") \in 0 .. MaxLag["audio"]
  BY <1>1, <1>2, OffBounded
<1>4. /\ Captured("audio") \in Int
      /\ Off("audio") = Captured("audio") + (age["audio"] - Period["audio"])
      /\ age["audio"] - Period["audio"] \in 0 .. MaxLag["audio"]
  <2>1. Captured("audio") \in Int /\ Lag("audio") \in Int /\ Lag("audio") <= MaxLag["audio"]
    BY <1>1, CapturedTyped, StreamOK
  <2>2. Lag("audio") = age["audio"] - Period["audio"]
    BY DEF Lag
  <2>3. Lag("audio") \in 0 .. MaxLag["audio"]
    BY <2>1, RelayConstants, SMT
  <2> QED
    BY <2>1, <2>2, <2>3 DEF Off
<1>5. Ingested.left = Captured("audio") + Shift /\ Ingested.off = Off("audio")
  BY DEF Ingested
<1> DEFINE l == age["audio"] - Period["audio"]
<1>6. PICK c \in Int, f \in Int, g \in Int : c = Captured("audio") /\ f = Off("audio") /\ g = l
  BY <1>3, <1>4, RelayConstants
<1>7. f = c + g /\ g \in 0 .. MaxLag["audio"] /\ f \in 0 .. MaxLag["audio"]
  BY <1>3, <1>4, <1>6
<1>8. (c + Shift) - f = Shift - g /\ c + Shift >= Shift - MaxLag["audio"]
  BY <1>7, RelayConstants, SMT
<1> QED
  BY <1>3, <1>5, <1>6, <1>8, IngestedTyped DEF Due

(* A relay that was run in time stays in time.                             *)
LEMMA NextInTime ==
    ASSUME HealthyNetwork, RelayInTime, TimeInv, TypeOK', [Next]_vars
    PROVE  stop' \/ hopped' \/ InTime'
<1> USE DEF relayVars, source
<1>0. TypeOK /\ GuardInv
  BY DEF TimeInv, RelayInv
<1>q. /\ q \in Seq(Packet) /\ Len(q) <= Cap /\ hand \in Packet /\ stall \in 0 .. MaxStall
      /\ age["audio"] \in Nat /\ "audio" \in Streams
      /\ stop \in BOOLEAN /\ hopped \in BOOLEAN
  BY <1>0 DEF TypeOK, Streams
<1>1. CASE stop
  <2>1. stop'
    BY <1>1 DEF Next, EpochStep, Arrives, VideoArrives, AudioArrives, Lose, RelayStep,
                RelayHead, RelayPop, RelayTimeout, RelayDrops, RelaySubmits, StopAudio,
                Elapse, vars
  <2> QED
    BY <2>1
<1>2. CASE hopped
  <2>1. hopped'
    BY <1>2 DEF Next, EpochStep, Arrives, VideoArrives, AudioArrives, Lose, RelayStep,
                RelayHead, RelayPop, RelayTimeout, RelayDrops, RelaySubmits, StopAudio,
                Elapse, vars
  <2> QED
    BY <2>1
<1>3. CASE InTime /\ ~stop /\ ~hopped
  <2>0. /\ ~drops /\ pc # "done"
        /\ OnTime(q, stall, age["audio"])
        /\ pc = "hold" => InHand(hand, q, stall, age["audio"])
    BY <1>3 DEF InTime
  <2>1. ASSUME UNCHANGED <<drops, q, hand, pc, stall>>, age'["audio"] \in Int,
               age'["audio"] <= age["audio"]
        PROVE  InTime'
    <3> DEFINE a == age["audio"]
               b == age'["audio"]
    <3>1. /\ OnTime(q, stall, a) => OnTime(q, stall, b)
          /\ InHand(hand, q, stall, a) => InHand(hand, q, stall, b)
      <4>1. a \in Int /\ b \in Int /\ b <= a
        BY <1>q, <2>1
      <4> HIDE DEF a, b
      <4> QED
        BY <4>1, <1>q, OnTimeLater
    <3> QED
      BY <2>0, <2>1, <3>1 DEF InTime
  <2>2. ASSUME UNCHANGED <<drops, q, hand, pc, stall, age>> PROVE InTime'
    BY <2>1, <2>2, <1>q
  <2>3. ASSUME NEW s \in Streams, EpochStep(s) PROVE InTime'
    BY <2>2, <2>3 DEF EpochStep
  <2>4. ASSUME NEW s \in Streams, Lag(s) >= 0, age' = [age EXCEPT ![s] = Lag(s)]
        PROVE  age'["audio"] \in Int /\ age'["audio"] <= age["audio"]
    <3>1. Lag(s) \in Int /\ Lag(s) = age[s] - Period[s] /\ Period[s] \in Nat /\ age[s] \in Nat
      BY <1>0, StreamOK DEF Lag
    <3>2. Lag(s) <= age[s]
      BY <3>1, SMT
    <3>3. age \in [Streams -> Nat]
      BY <1>0 DEF TypeOK
    <3>4. CASE s = "audio"
      BY <2>4, <3>1, <3>2, <3>3, <3>4
    <3>5. CASE s # "audio"
      BY <2>4, <3>3, <3>5, <1>q
    <3> QED
      BY <3>4, <3>5
  <2>5. ASSUME NEW s \in Streams, Lose(s) PROVE InTime'
    BY <2>1, <2>4, <2>5 DEF Lose
  <2>6. CASE VideoArrives
    <3>1. "video" \in Streams
      BY DEF Streams
    <3> QED
      BY <2>1, <2>4, <2>6, <3>1 DEF VideoArrives
  <2>7. CASE AudioArrives
    <3>1. Lag("audio") >= 0 /\ age' = [age EXCEPT !["audio"] = Lag("audio")]
          /\ hopped' = (hopped \/ Near("audio")) /\ drops' = (drops \/ ~HasSpace)
          /\ q' = (IF HasSpace THEN Append(q, Ingested) ELSE q)
          /\ UNCHANGED <<pc, hand, stall>>
      BY <2>7 DEF AudioArrives, Ingested
    <3>2. CASE Near("audio")
      BY <3>1, <3>2
    <3>3. CASE ~Near("audio")
      <4> DEFINE a == age["audio"]
      <4>1. a \in Int /\ a >= Period["audio"] /\ Lag("audio") = a - Period["audio"]
        BY <1>q, <3>1, RelayConstants, SMT DEF Lag
      <4>2. age'["audio"] = a - Period["audio"]
        BY <3>1, <4>1, <1>q, <1>0 DEF TypeOK
      <4>3. /\ Ingested \in Packet
            /\ Ingested.off \in 0 .. MaxLag["audio"]
            /\ Due(Ingested) = Shift - (a - Period["audio"])
            /\ Ingested.left >= Shift - MaxLag["audio"]
        BY <1>0, <3>1, <3>3, IngestedInTime
      <4> HIDE DEF a
      <4>4. OnTime(q, stall, a) /\ (pc = "hold" => InHand(hand, q, stall, a))
        BY <2>0 DEF a
      <4>5. HasSpace
        <5>1. Len(q) # Cap
          BY <1>q, <4>1, <4>4, Room
        <5> QED
          BY <5>1, <1>q, RelayConstants, SMT DEF HasSpace
      <4>6. q' = Append(q, Ingested) /\ ~drops'
        BY <2>0, <3>1, <4>5
      <4>7. stall \in Nat
        BY <1>q, RelayConstants
      <4>8. /\ OnTime(Append(q, Ingested), stall, a - Period["audio"])
            /\ \A h \in Packet : InHand(h, q, stall, a)
                   => InHand(h, Append(q, Ingested), stall, a - Period["audio"])
        BY <1>q, <4>1, <4>3, <4>4, <4>7, Arrived
      <4> QED
        BY <1>q, <2>0, <3>1, <4>2, <4>4, <4>6, <4>8 DEF InTime
    <3> QED
      BY <3>2, <3>3
  <2>8. ASSUME UNCHANGED <<drops, q, stall, age>>, pc' \in {"head", "pop"} PROVE InTime'
    BY <2>0, <2>8 DEF InTime
  <2>9. CASE RelayHead
    BY <1>3, <2>8, <2>9 DEF RelayHead, LeavesLoop
  <2>10. CASE RelayPop
    <3>1. q # <<>> /\ hand' = Head(q) /\ q' = Tail(q) /\ pc' = "hold"
          /\ UNCHANGED <<stall, drops, age>>
      BY <2>10 DEF RelayPop
    <3>2. OnTime(Tail(q), stall, age["audio"]) /\ InHand(Head(q), Tail(q), stall, age["audio"])
      <4>1. age["audio"] \in Int
        BY <1>q
      <4> QED
        BY <4>1, <1>q, <2>0, <3>1, Popped
    <3> QED
      BY <2>0, <3>1, <3>2 DEF InTime
  <2>11. CASE RelayTimeout
    BY <2>8, <2>11 DEF RelayTimeout
  <2>12. CASE RelayDrops
    <3>1. pc = "hold" /\ hand.left < -LateDrop
      BY <2>12 DEF RelayDrops, Woken, TooLate
    <3>2. Sound(hand, stall)
      BY <2>0, <3>1 DEF InHand
    <3>3. hand.left >= -LateDrop
      BY <1>q, <3>2, CountsDown
    <3>4. hand.left \in Int /\ LateDrop \in Nat
      BY <1>q, RelayConstants DEF Packet
    <3> QED
      BY <3>1, <3>3, <3>4, SMT
  <2>13. CASE RelaySubmits
    BY <2>8, <2>13 DEF RelaySubmits
  <2>14. CASE StopAudio
    BY <2>14 DEF StopAudio
  <2>15. CASE Elapse
    <3>1. /\ RelayReady => stall < MaxStall
          /\ stall' = (IF RelayReady THEN stall + 1 ELSE 0)
          /\ age' = [s \in Streams |-> age[s] + 1]
          /\ q' = [i \in DOMAIN q |-> Later(q[i])]
          /\ hand' = (IF pc = "hold" THEN Later(hand) ELSE hand)
          /\ UNCHANGED <<pc, drops>>
      BY <2>15 DEF Elapse
    <3>2. age'["audio"] = age["audio"] + 1 /\ age["audio"] \in Int
      BY <1>q, <3>1
    <3>3. q' \in Seq(Packet) /\ Len(q') = Len(q) /\ \A i \in 1 .. Len(q) : q'[i] = Later(q[i])
      <4>1. DOMAIN q = 1 .. Len(q) /\ Len(q) \in Nat
        BY <1>q
      <4>2. Len(q') = Len(q) /\ \A i \in 1 .. Len(q) : q'[i] = Later(q[i])
        BY <3>1, <4>1, SMT
      <4> QED
        BY <4>2 DEF TypeOK
    <3>4. CASE RelayReady
      <4>1. OnTime(q', stall + 1, age["audio"] + 1)
        BY <1>q, <2>0, <3>2, <3>3, TicksReady
      <4>2. pc = "hold" => InHand(Later(hand), q', stall + 1, age["audio"] + 1)
        BY <1>q, <2>0, <3>2, <3>3, TicksReady
      <4> QED
        BY <2>0, <3>1, <3>2, <3>4, <4>1, <4>2 DEF InTime
    <3>5. CASE ~RelayReady /\ pc = "hold"
      <4>1. hand.left > Horizon
        <5>1. ~(hand.left <= Horizon) /\ hand.left \in Int /\ Horizon \in Int
          BY <1>q, <3>5, RelayConstants DEF RelayReady, Woken, Packet
        <5> QED
          BY <5>1, SMT
      <4>2. InHand(hand, q, stall, age["audio"])
        BY <2>0, <3>5
      <4>3. OnTime(q', 0, age["audio"] + 1) /\ InHand(Later(hand), q', 0, age["audio"] + 1)
        BY <1>q, <2>0, <3>2, <3>3, <4>1, <4>2, TicksWaiting
      <4> QED
        BY <2>0, <3>1, <3>2, <3>5, <4>3 DEF InTime
    <3>6. CASE ~RelayReady /\ pc # "hold"
      <4>1. pc = "pop" /\ q = <<>>
        BY <1>0, <2>0, <3>6 DEF RelayReady, TypeOK
      <4>2. Len(q') = 0
        BY <3>3, <4>1
      <4>3. OnTime(q', 0, age["audio"] + 1)
        BY <4>2, SMT DEF OnTime
      <4> QED
        BY <2>0, <3>1, <3>2, <3>6, <4>3 DEF InTime
    <3> QED
      BY <3>4, <3>5, <3>6
  <2>16. CASE UNCHANGED vars
    BY <2>2, <2>16 DEF vars
  <2> QED
    BY <2>3, <2>5, <2>6, <2>7, <2>9, <2>10, <2>11, <2>12, <2>13, <2>14, <2>15, <2>16
       DEF Next, Arrives, RelayStep
<1> QED
  BY <1>1, <1>2, <1>3 DEF TimeInv

LEMMA InitInTime == Init => InTime
<1> SUFFICES ASSUME Init PROVE InTime
  OBVIOUS
<1>1. Len(q) = 0 /\ ~drops /\ pc = "head"
  BY DEF Init
<1>2. OnTime(q, stall, age["audio"])
  BY <1>1, SMT DEF OnTime
<1> QED
  BY <1>1, <1>2 DEF InTime

(* A relay that is run within MaxStall drops nothing, for any latency,     *)
(* horizon, bridge and packet time, however the epochs step that the guard *)
(* can see, and the stand-alone operators keep their blocks.               *)
THEOREM AudioIsKept == HealthyNetwork /\ RelayInTime => (AudioSpec => []AudioKept)
<1> SUFFICES ASSUME HealthyNetwork, RelayInTime PROVE AudioSpec => []AudioKept
  OBVIOUS
<1> DEFINE Inv == TimeInv /\ OpsInv
<1>1. AudioInit => Inv
  BY InitRelay, InitInTime, OpsStarts DEF AudioInit, TimeInv
<1>2. Inv /\ [AudioNext]_<<way, vars, opsVars>> => Inv'
  <2> SUFFICES ASSUME TimeInv, OpsInv, [AudioNext]_<<way, vars, opsVars>>
               PROVE  TimeInv' /\ OpsInv'
    OBVIOUS
  <2>1. [Next]_vars /\ [OpsNext]_opsVars
    BY DEF AudioNext
  <2>2. RelayInv'
    BY <2>1, NextRelay DEF TimeInv
  <2>3. stop' \/ hopped' \/ InTime'
    <3>1. TypeOK'
      BY <2>2 DEF RelayInv
    <3> QED
      BY <2>1, <3>1, NextInTime
  <2>4. OpsInv'
    BY <2>1, OpsSteps
  <2> QED
    BY <2>2, <2>3, <2>4 DEF TimeInv
<1>3. Inv => AudioKept
  <2>1. TimeInv => NothingDropped
    BY DEF TimeInv, InTime, NothingDropped
  <2> QED
    BY <2>1, OpsInvKeepsBlocks DEF AudioKept
<1> QED
  <2> HIDE DEF Inv
  <2> QED
    BY <1>1, <1>2, <1>3, PTL DEF AudioSpec
=============================================================================
