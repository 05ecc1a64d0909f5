----------------------------- MODULE VideoProof -----------------------------
(***************************************************************************)
(* Proofs about the video on its way out: what is in the pictures that the *)
(* operators make, and when a frame leaves.                                *)
(*                                                                         *)
(* Pictures, for every net, size, chain of filters, setting, picture and   *)
(* random field.  A buffer of the engine holds what the net has made of    *)
(* the picture by the step that wrote it (Through), and every kernel in    *)
(* the stream knows its step: InLine and HeadOK say how the kernels follow *)
(* each other and what the work buffers must hold when the first one runs, *)
(* so that a step never reads what another frame left.  The steps of a     *)
(* compiled net end where the net ends, however its convolutions are fused *)
(* (StepsOfNet).  For the filters the invariant says what those passed so  *)
(* far have made of the picture (SoFar); the salt of every field of grain  *)
(* is drawn from the frame's number (Salted).                              *)
(*                                                                         *)
(* TxSchedule, for any frame rate, target lead, latency, trim step, guard  *)
(* window and pipeline delay (TxAssumption).  Neither the band nor the     *)
(* order on the wire is inductive.  A frame that is sent is compared with  *)
(* the schedule the last sent frame left behind, and any number of skipped *)
(* frames, which may have changed the offset, lie between them.  What      *)
(* carries the order across them is BaseKept: the schedule base never is   *)
(* later than the one that the current offset gives the frame after the    *)
(* last one.                                                               *)
(***************************************************************************)
EXTENDS TxSchedule, Pictures, SequenceTheorems, FiniteSetTheorems,
        WellFoundedInduction, TLAPS
-----------------------------------------------------------------------------
(* The schedule *)

BaseKept ==
  /\ mode = "fixed" /\ begun => ahead + age <= Latency + Interval
  /\ mode = "genlock" /\ begun => ahead + age <= offset + Interval

IInv == TypeOK /\ SendBand /\ WireOrdered /\ BaseKept

Rest == [kind : {"none", "sent", "skipped"}, lead : Int, gap : Int, anchored : BOOLEAN]
ServoType ==
  [streak : 0 .. Streak, count : 0 .. Window - 1, skips : 0 .. Clip + 1,
   prev : 0 .. Clip + 1, since : 0 .. ArmMax + 1, arm : Arm .. ArmMax, shaved : Nat]
-----------------------------------------------------------------------------
(* Constants and helpers *)

\* What the proofs need of the constants.
LEMMA Constants ==
  /\ Interval \in Nat /\ Interval > 0 /\ Active \in Nat /\ Horizon \in Nat
  /\ Preload \in Nat /\ SpinCap \in Nat /\ Latency \in Nat /\ SkipFloor \in Nat
  /\ Lead \in Nat /\ Lead > 0 /\ Trim \in Nat /\ Window \in Nat /\ Window > 0
  /\ Clip \in Nat /\ Streak \in Nat /\ Arm \in Nat /\ ArmMax \in Nat /\ Arm <= ArmMax
  /\ BackMin \in Nat /\ MaxJump \in Nat /\ Far \in Nat
  /\ Lead <= 2 * Interval /\ Trim <= Lead \div 4 /\ Ages \subseteq Nat
BY TxAssumption

\* Clamping and the larger of two.
LEMMA WithinBounds ==
  ASSUME NEW x \in Int, NEW limit \in Nat
  PROVE  Within(x, limit) \in -limit .. limit
BY DEF Within, Greater, Lesser

LEMMA GreaterIs ==
  ASSUME NEW x \in Int, NEW y \in Int
  PROVE  Greater(x, y) \in Int /\ Greater(x, y) >= x /\ Greater(x, y) >= y
BY DEF Greater

\* C++ division by 8 shrinks and keeps the sign and the order.
LEMMA Eighth ==
  ASSUME NEW x \in Int, NEW y \in Nat, -y <= x, x <= y
  PROVE  /\ Divided(x, 8) \in Int
         /\ x >= 0 => 0 <= Divided(x, 8) /\ Divided(x, 8) <= x
         /\ x <= 0 => x <= Divided(x, 8) /\ Divided(x, 8) <= 0
         /\ -Divided(y, 8) <= Divided(x, 8)
BY DEF Divided

\* A sum that fell by d stays below a bound that did not.
LEMMA Falls ==
  ASSUME NEW x \in Int, NEW y \in Int, NEW d \in Nat, NEW b \in Int, NEW c \in Int,
         y <= x - d \/ y <= 0, x <= b + d, b <= c, c >= 0
  PROVE  y <= c + d
OBVIOUS

LEMMA Spacing ==
  ASSUME NEW k \in 1 .. MaxJump
  PROVE  k * Interval \in Int /\ k * Interval >= Interval
<1>1. k \in Int /\ k - 1 >= 0 /\ Interval \in Int /\ Interval >= 0
  BY Constants
<1>2. (k - 1) * Interval >= 0
  BY <1>1
<1>3. k * Interval = (k - 1) * Interval + Interval
  BY <1>1
<1> QED BY <1>1, <1>2, <1>3

\* The clocks when a frame is looked at: at least one interval has passed
\* since the capture of the last one.
LEMMA Clocks ==
  ASSUME TypeOK, NEW a \in Ages, NEW k \in 1 .. MaxJump
  PROVE  /\ NextAge(a, k) \in Nat
         /\ AheadNow(a, k) \in Int
         /\ AheadNow(a, k) + NextAge(a, k) <= (ahead + age) - Interval
<1>1. a \in Nat /\ age \in Nat /\ busy \in Nat /\ ahead \in Int
  BY Constants DEF TypeOK
<1>2. k * Interval \in Int /\ k * Interval >= Interval
  BY Spacing
<1>3. NextAge(a, k) \in Nat
  BY <1>1, <1>2 DEF NextAge, Greater
<1>4. AheadNow(a, k) = ahead - (k * Interval + NextAge(a, k) - age)
  BY DEF AheadNow, Passed
<1> QED BY <1>1, <1>2, <1>3, <1>4, Constants
-----------------------------------------------------------------------------
(* What the steps of the schedules have in common *)

LEMMA RotatedType ==
  ASSUME TypeOK
  PROVE  Rotated \in ServoType /\ Rotated.skips \in 0 .. Clip + 1
         /\ Rotated.prev \in 0 .. Clip + 1
<1>1. servo \in ServoType
  BY DEF TypeOK, ServoType
<1>2. CASE servo.count + 1 >= Window
  <2>1. Rotated = [servo EXCEPT !.prev = servo.skips, !.skips = 0, !.count = 0]
    BY <1>2 DEF Rotated
  <2>2. servo.skips \in 0 .. Clip + 1 /\ 0 \in 0 .. Clip + 1 /\ 0 \in 0 .. Window - 1
    BY <1>1, Constants DEF ServoType
  <2>3. Rotated \in ServoType
    BY <1>1, <2>1, <2>2 DEF ServoType
  <2> QED BY <2>3 DEF ServoType
<1>3. CASE ~(servo.count + 1 >= Window)
  <2>1. Rotated = [servo EXCEPT !.count = @ + 1]
    BY <1>3 DEF Rotated
  <2>2. servo.count + 1 \in 0 .. Window - 1
    BY <1>1, <1>3, Constants DEF ServoType
  <2> QED BY <1>1, <2>1, <2>2, Constants DEF ServoType
<1> QED BY <1>2, <1>3 DEF ServoType

LEMMA FreshType == FreshServo \in ServoType
BY Constants DEF FreshServo, ServoType

LEMMA ArriveType ==
  ASSUME TypeOK, NEW a \in Ages, NEW k \in 1 .. MaxJump, Arrive(a, k)
  PROVE  /\ age' = NextAge(a, k) /\ age' \in Nat
         /\ mode' = mode /\ steady' = steady
BY Clocks DEF Arrive

LEMMA SendType ==
  ASSUME TypeOK, NEW a \in Ages, NEW k \in 1 .. MaxJump,
         NEW lead \in Int, NEW anchored \in BOOLEAN, Send(lead, a, k, anchored)
  PROVE  /\ ahead' = lead + Interval /\ ahead' \in Int
         /\ begun' = TRUE /\ throttle' \in BOOLEAN /\ busy' \in Nat
         /\ skew' \in -Far .. Far
         /\ last' = [kind |-> "sent", lead |-> lead,
                     gap |-> IF begun THEN lead - AheadNow(a, k) ELSE 0,
                     anchored |-> anchored]
         /\ last' \in Rest
<1> DEFINE gap == IF begun THEN lead - AheadNow(a, k) ELSE 0
<1>1. gap \in Int
  BY Clocks
<1>2. ahead' = lead + Interval /\ ahead' \in Int
  BY Constants DEF Send
<1>3. begun' = TRUE /\ throttle' \in BOOLEAN
  BY DEF Send, TypeOK, CapHit
<1>4. busy' \in Nat
  BY Constants DEF Send, BlockedFor, Greater
<1>5. skew' \in -Far .. Far
  <2>1. skew \in Int /\ skew \in -Far .. Far
    BY Constants DEF TypeOK
  <2>2. Within(skew + gap, Trim) \in -Trim .. Trim
    BY <2>1, <1>1, WithinBounds, Constants
  <2>3. Slewed(skew + gap) \in Int
    BY <2>1, <2>2, <1>1, Constants DEF Slewed
  <2>4. Within(Slewed(skew + gap), Far) \in -Far .. Far
    BY <2>3, WithinBounds, Constants
  <2> QED BY <2>1, <2>4 DEF Send
<1>6. last' = [kind |-> "sent", lead |-> lead, gap |-> gap, anchored |-> anchored]
  BY DEF Send
<1> QED BY <1>1, <1>2, <1>3, <1>4, <1>5, <1>6 DEF Rest

LEMMA UnsentType ==
  ASSUME TypeOK, NEW a \in Ages, NEW k \in 1 .. MaxJump, Arrive(a, k), Unsent(a, k)
  PROVE  /\ ahead' \in Int /\ begun' = begun /\ throttle' = throttle /\ busy' = 0
         /\ last'.kind = "skipped" /\ last' \in Rest
         /\ ahead' + age' <= (ahead + age) - Interval \/ ahead' + age' <= 0
<1>1. /\ NextAge(a, k) \in Nat /\ AheadNow(a, k) \in Int
      /\ AheadNow(a, k) + NextAge(a, k) <= (ahead + age) - Interval
      /\ age' = NextAge(a, k)
  BY Clocks, ArriveType
<1>2. ahead' = AheadNow(a, k) \/ ahead' = -(Far + NextAge(a, k))
  BY DEF Unsent, Greater
<1>3. ahead' \in Int /\ (ahead' + age' <= (ahead + age) - Interval \/ ahead' + age' <= 0)
  <2>1. CASE ahead' = AheadNow(a, k)
    BY <1>1, <2>1
  <2>2. CASE ahead' = -(Far + NextAge(a, k))
    <3>1. /\ -(Far + NextAge(a, k)) \in Int
          /\ -(Far + NextAge(a, k)) + NextAge(a, k) <= 0
      BY <1>1, Constants
    <3> QED BY <1>1, <2>2, <3>1
  <2> QED BY <1>2, <2>1, <2>2
<1> QED BY <1>3 DEF Unsent, Rest
-----------------------------------------------------------------------------
(* The invariant, step by step *)

\* A frame that is not sent.
LEMMA SkipKeeps ==
  ASSUME IInv, NEW a \in Ages, NEW k \in 1 .. MaxJump, Arrive(a, k), Unsent(a, k),
         offset' \in Nat, servo' \in ServoType, skew' \in -Far .. Far,
         mode = "genlock" => offset' >= offset
  PROVE  IInv'
<1>1. /\ ahead' \in Int /\ begun' = begun /\ throttle' = throttle /\ busy' = 0
      /\ last'.kind = "skipped" /\ last' \in Rest
      /\ ahead' + age' <= (ahead + age) - Interval \/ ahead' + age' <= 0
      /\ age' \in Nat /\ mode' = mode /\ steady' = steady
  BY UnsentType, ArriveType DEF IInv
<1>2. TypeOK'
  BY <1>1 DEF IInv, TypeOK, Rest, ServoType
<1>3. SendBand' /\ WireOrdered'
  BY <1>1 DEF SendBand, WireOrdered
<1>4. BaseKept'
  <2>1. /\ ahead \in Int /\ age \in Int /\ offset \in Int /\ offset' \in Nat
        /\ ahead' \in Int /\ age' \in Int
        /\ ahead' + age' <= (ahead + age) - Interval \/ ahead' + age' <= 0
    <3>1. ahead \in Int /\ age \in Int /\ offset \in Int
      BY DEF IInv, TypeOK
    <3>2. age' \in Int
      BY <1>1
    <3> QED BY <1>1, <3>1, <3>2
  <2>2. ASSUME mode = "fixed", begun PROVE ahead' + age' <= Latency + Interval
    <3> DEFINE x == ahead + age
               y == ahead' + age'
    <3>1. x <= Latency + Interval
      BY <2>2 DEF IInv, BaseKept
    <3>2. x \in Int /\ y \in Int /\ (y <= x - Interval \/ y <= 0)
      <4>1. x \in Int /\ y \in Int
        BY <2>1
      <4> QED BY <2>1, <4>1
    <3> HIDE DEF x, y
    <3>3. y <= Latency + Interval
      BY <3>1, <3>2, Falls, Constants
    <3> QED BY <3>3 DEF y
  <2>3. ASSUME mode = "genlock", begun PROVE ahead' + age' <= offset' + Interval
    <3> DEFINE x == ahead + age
               y == ahead' + age'
               c == offset'
    <3>1. x <= offset + Interval /\ offset <= c /\ c \in Nat
      BY <2>1, <2>3 DEF IInv, BaseKept
    <3>2. x \in Int /\ y \in Int /\ (y <= x - Interval \/ y <= 0)
      <4>1. x \in Int /\ y \in Int
        BY <2>1
      <4> QED BY <2>1, <4>1
    <3> HIDE DEF x, y, c
    <3>3. y <= c + Interval
      BY <2>1, <3>1, <3>2, Falls, Constants
    <3> QED BY <3>3 DEF y, c
  <2> QED BY <1>1, <2>2, <2>3 DEF BaseKept
<1> QED BY <1>2, <1>3, <1>4 DEF IInv

\* A frame that is sent: the band and the order are left to each schedule.
LEMMA SendKeeps ==
  ASSUME IInv, NEW a \in Ages, NEW k \in 1 .. MaxJump,
         NEW lead \in Int, NEW anchored \in BOOLEAN,
         Arrive(a, k), Send(lead, a, k, anchored),
         offset' \in Nat, servo' \in ServoType,
         mode = "fixed" => lead + age' = Latency,
         mode = "genlock" => lead + age' = offset',
         SendBand', WireOrdered'
  PROVE  IInv'
<1>1. /\ ahead' = lead + Interval /\ ahead' \in Int
      /\ begun' = TRUE /\ throttle' \in BOOLEAN /\ busy' \in Nat
      /\ skew' \in -Far .. Far /\ last' \in Rest
      /\ age' \in Nat /\ mode' = mode /\ steady' = steady
  BY SendType, ArriveType DEF IInv
<1>2. TypeOK'
  BY <1>1 DEF IInv, TypeOK, Rest, ServoType
<1>3. BaseKept'
  <2>1. ahead' = lead + Interval /\ age' \in Nat
    BY <1>1
  <2>2. ahead' + age' = (lead + age') + Interval
    <3> DEFINE n == age'
    <3>1. n \in Int /\ ahead' + age' = (lead + Interval) + n
      BY <2>1
    <3> HIDE DEF n
    <3>2. (lead + Interval) + n = (lead + n) + Interval
      BY <3>1, Constants
    <3> QED BY <3>1, <3>2 DEF n
  <2>3. lead + age' \in Int /\ Interval \in Int
    BY <2>1, Constants
  <2>4. ahead' + age' <= (lead + age') + Interval
    BY <2>2, <2>3
  <2> QED BY <1>1, <2>4 DEF BaseKept
<1> QED BY <1>2, <1>3 DEF IInv

LEMMA FixedKeeps ==
  ASSUME IInv, NEW a \in Ages, NEW k \in 1 .. MaxJump, FixedFrame(a, k)
  PROVE  IInv'
<1> DEFINE lead == Latency - NextAge(a, k)
<1>1. /\ mode = "fixed" /\ Arrive(a, k) /\ servo' = servo
      /\ TypeOK /\ servo \in ServoType
  BY DEF FixedFrame, IInv, TypeOK, ServoType
<1>2. /\ NextAge(a, k) \in Nat /\ AheadNow(a, k) \in Int /\ ahead \in Int /\ age \in Nat
      /\ AheadNow(a, k) + NextAge(a, k) <= (ahead + age) - Interval
      /\ age' = NextAge(a, k) /\ mode' = mode
  BY <1>1, Clocks, ArriveType DEF TypeOK
<1>3. CASE FixedLate(lead)
  <2>1. Unsent(a, k) /\ UNCHANGED <<offset, skew>>
    BY <1>3 DEF FixedFrame
  <2> QED BY <1>1, <2>1, SkipKeeps DEF IInv, TypeOK
<1>4. CASE ~FixedLate(lead)
  <2>1. Send(lead, a, k, FALSE) /\ offset' = Latency
    BY <1>4 DEF FixedFrame
  <2>2. lead \in Int /\ lead >= SkipFloor
    BY <1>2, <1>4, Constants DEF FixedLate
  <2>3. last' = [kind |-> "sent", lead |-> lead,
                 gap |-> IF begun THEN lead - AheadNow(a, k) ELSE 0, anchored |-> FALSE]
    BY <1>1, <2>1, <2>2, SendType
  <2>4. SendBand'
    BY <1>1, <1>2, <2>2, <2>3 DEF SendBand
  <2>5. begun => lead - AheadNow(a, k) >= 0
    <3>1. begun => ahead + age <= Latency + Interval
      BY <1>1 DEF IInv, BaseKept
    <3> QED BY <3>1, <1>2, Constants
  <2>6. WireOrdered'
    <3>1. last'.gap \in Int /\ last'.gap >= -Trim
      BY <2>3, <2>5, <1>2, <2>2, Constants
    <3> QED BY <3>1, <1>1, <1>2 DEF WireOrdered
  <2>7. lead + age' = Latency
    BY <1>2, Constants
  <2> QED BY <1>1, <2>1, <2>2, <2>4, <2>6, <2>7, SendKeeps, Constants
<1> QED BY <1>3, <1>4

\* In genlock mode a calibrated offset never is below the one before it.
LEMMA CalibratedIs ==
  ASSUME TypeOK, NEW a \in Ages, NEW k \in 1 .. MaxJump
  PROVE  /\ Calibrated(a, k) \in Nat /\ Calibrated(a, k) >= offset
         /\ GenlockLead(a, k) \in Int
         /\ GenlockLead(a, k) + NextAge(a, k) = Calibrated(a, k)
BY Clocks, Constants DEF Calibrated, GenlockLead, TypeOK

\* A skipped frame leaves the guards in their ranges.
LEMMA SkippedType ==
  ASSUME TypeOK, NEW lead \in Int, MaySkip
  PROVE  Skipped(lead) \in ServoType
<1> DEFINE clipped == IF Shallow(lead) THEN 1 ELSE 0
<1>1. Rotated \in ServoType /\ Rotated.skips \in 0 .. Clip + 1
      /\ Rotated.prev \in 0 .. Clip + 1
  BY RotatedType
<1>2. servo \in ServoType
  BY DEF TypeOK, ServoType
<1>3. StreakNext \in 0 .. Streak
  BY <1>2, Constants DEF MaySkip, ServoType, StreakNext
<1>4. Rotated.skips + clipped \in 0 .. Clip + 1
  <2>1. Rotated.skips + Rotated.prev <= Clip
    BY <1>1, Constants DEF MaySkip, Chronic
  <2> QED BY <1>1, <2>1, Constants
<1>5. 0 \in 0 .. ArmMax + 1
  BY Constants
<1>6. Skipped(lead) = [Rotated EXCEPT !.streak = StreakNext, !.since = 0,
                                      !.skips = Rotated.skips + clipped]
  BY <1>1 DEF Skipped, ServoType
<1> HIDE DEF clipped
<1> QED BY <1>1, <1>3, <1>4, <1>5, <1>6 DEF ServoType

LEMMA BackOffIs ==
  ASSUME TypeOK, NEW lead \in Int
  PROVE  BackOff(lead) \in Nat
<1> DEFINE g == Greater(2 * Lead - lead, servo.shaved \div 2)
<1>1. servo.shaved \in Nat
  BY DEF TypeOK
<1>2. servo.shaved \div 2 \in Int /\ 2 * Lead - lead \in Int
  BY <1>1, Constants
<1>3. g \in Int
  BY <1>2, GreaterIs
<1>4. BackOff(lead) = Greater(g, BackMin)
  BY DEF BackOff
<1> HIDE DEF g
<1>5. Greater(g, BackMin) \in Int /\ Greater(g, BackMin) >= BackMin
  BY <1>3, GreaterIs, Constants
<1> QED BY <1>4, <1>5, Constants

LEMMA GenlockSkipKeeps ==
  ASSUME IInv, NEW a \in Ages, NEW k \in 1 .. MaxJump, GenlockSkip(a, k)
  PROVE  IInv'
<1> DEFINE lead == GenlockLead(a, k)
           skipped == Skipped(lead)
<1>1. /\ mode = "genlock" /\ Arrive(a, k) /\ Unsent(a, k) /\ MaySkip /\ TypeOK
  BY DEF GenlockSkip, IInv
<1>2. /\ Calibrated(a, k) \in Nat /\ Calibrated(a, k) >= offset /\ lead \in Int
      /\ offset \in Nat
  BY <1>1, CalibratedIs DEF TypeOK
<1>3. skew' \in -Far .. Far
  <2>1. skew \in -Far .. Far /\ Far \in Nat /\ Interval \in Nat
    BY <1>1, Constants DEF TypeOK
  <2>2. skew - Interval \in Int
    BY <2>1
  <2>3. Within(skew - Interval, Far) \in -Far .. Far
    BY <2>1, <2>2, WithinBounds
  <2> QED BY <2>1, <2>3 DEF GenlockSkip
<1>4. skipped \in ServoType
  BY <1>1, <1>2, SkippedType
<1> HIDE DEF skipped
<1>5. CASE Armed
  <2>1. /\ offset' = Calibrated(a, k) + BackOff(lead)
        /\ servo' = [skipped EXCEPT !.shaved = 0, !.arm = Lesser(2 * @, ArmMax)]
    BY <1>5 DEF GenlockSkip, skipped
  <2>2. BackOff(lead) \in Nat
    BY <1>1, <1>2, BackOffIs
  <2>3. offset' \in Nat /\ offset' >= offset
    BY <1>2, <2>1, <2>2
  <2>4. Lesser(2 * skipped.arm, ArmMax) \in Arm .. ArmMax
    <3>1. skipped.arm \in Arm .. ArmMax
      BY <1>4 DEF ServoType
    <3> QED BY <3>1, Constants DEF Lesser
  <2>5. servo' \in ServoType
    BY <1>4, <2>1, <2>4 DEF ServoType
  <2> QED BY <1>1, <1>3, <2>3, <2>5, SkipKeeps
<1>6. CASE ~Armed
  <2>1. offset' = Calibrated(a, k) /\ servo' = skipped
    BY <1>6 DEF GenlockSkip, skipped
  <2> QED BY <1>1, <1>2, <1>3, <1>4, <2>1, SkipKeeps
<1> QED BY <1>5, <1>6

\* The state of the guards after a frame that is sent in the band.
LEMMA InBandType ==
  ASSUME TypeOK
  PROVE  [Rotated EXCEPT !.streak = 0, !.since = SinceNext(@), !.shaved = @ + Shave]
           \in ServoType
<1>1. Rotated \in ServoType /\ Rotated.since \in Nat /\ Rotated.shaved \in Nat
  BY RotatedType DEF ServoType
<1>2. SinceNext(Rotated.since) \in 0 .. ArmMax + 1
  BY <1>1, Constants DEF SinceNext, Lesser
<1>3. Rotated.shaved + Shave \in Nat
  BY <1>1, Constants DEF Shave
<1>4. 0 \in 0 .. Streak
  BY Constants
<1> QED BY <1>1, <1>2, <1>3, <1>4 DEF ServoType

LEMMA ReanchoredType ==
  [FreshServo EXCEPT !.since = SinceNext(0)] \in ServoType
<1>1. SinceNext(0) \in 0 .. ArmMax + 1
  BY Constants DEF SinceNext, Lesser
<1> QED BY <1>1, FreshType DEF ServoType

LEMMA GenlockReanchorKeeps ==
  ASSUME IInv, NEW a \in Ages, NEW k \in 1 .. MaxJump, GenlockReanchor(a, k)
  PROVE  IInv'
<1>1. /\ mode = "genlock" /\ Arrive(a, k) /\ Send(Lead, a, k, TRUE) /\ TypeOK
      /\ offset' = NextAge(a, k) + Lead
      /\ servo' \in ServoType
  BY ReanchoredType DEF GenlockReanchor, IInv
<1>2. /\ NextAge(a, k) \in Nat /\ age' = NextAge(a, k) /\ mode' = mode
  BY <1>1, Clocks, ArriveType
<1> Lead \in Int /\ TRUE \in BOOLEAN
  BY Constants
<1>3. last' = [kind |-> "sent", lead |-> Lead,
               gap |-> IF begun THEN Lead - AheadNow(a, k) ELSE 0, anchored |-> TRUE]
  BY <1>1, SendType
<1>4. SendBand'
  <2>1. Lead \div 4 - Trim <= Lead /\ Lead <= 2 * Interval
    BY Constants
  <2> QED BY <1>1, <1>2, <1>3, <2>1 DEF SendBand
<1>5. WireOrdered'
  BY <1>3 DEF WireOrdered
<1>6. offset' \in Nat /\ Lead + age' = offset'
  BY <1>1, <1>2, Constants
<1> QED BY <1>1, <1>2, <1>4, <1>5, <1>6, SendKeeps

LEMMA GenlockSendKeeps ==
  ASSUME IInv, NEW a \in Ages, NEW k \in 1 .. MaxJump, GenlockSend(a, k)
  PROVE  IInv'
<1> DEFINE lead == GenlockLead(a, k)
           sent == lead - Shave
<1>1. /\ mode = "genlock" /\ Arrive(a, k) /\ Send(sent, a, k, FALSE) /\ TypeOK
      /\ offset' = Calibrated(a, k) - Shave /\ ~OutOfBand(lead)
      /\ servo' \in ServoType
  BY InBandType DEF GenlockSend, IInv
<1>2. /\ NextAge(a, k) \in Nat /\ age' = NextAge(a, k) /\ mode' = mode
      /\ AheadNow(a, k) \in Int /\ ahead \in Int /\ age \in Nat /\ offset \in Nat
      /\ AheadNow(a, k) + NextAge(a, k) <= (ahead + age) - Interval
  BY <1>1, Clocks, ArriveType DEF TypeOK
<1>3. /\ Calibrated(a, k) \in Nat /\ Calibrated(a, k) >= offset /\ lead \in Int
      /\ lead + NextAge(a, k) = Calibrated(a, k)
  BY <1>1, CalibratedIs
<1>4. Shave \in Nat /\ Shave <= Trim
  BY Constants DEF Shave
<1>5. lead >= Lead \div 4 /\ lead <= 2 * Interval
  BY <1>1, <1>3, Constants DEF OutOfBand, Late, TooEarly
<1> HIDE DEF lead
<1>6. sent \in Int /\ sent >= Lead \div 4 - Trim /\ sent <= 2 * Interval
  BY <1>3, <1>4, <1>5, Constants
<1>7. sent + NextAge(a, k) = Calibrated(a, k) - Shave
  BY <1>2, <1>3, <1>4
<1>8. Calibrated(a, k) - Shave \in Nat
  BY <1>2, <1>3, <1>4, <1>5, Constants
<1>9. begun => sent - AheadNow(a, k) >= -Trim
  <2>1. begun => ahead + age <= offset + Interval
    BY <1>1 DEF IInv, BaseKept
  <2>2. ASSUME ahead + age <= offset + Interval PROVE sent - AheadNow(a, k) >= -Trim
    BY <2>2, <1>2, <1>3, <1>4, Constants
  <2> QED BY <2>1, <2>2
<1> HIDE DEF sent
<1>10. last' = [kind |-> "sent", lead |-> sent,
                gap |-> IF begun THEN sent - AheadNow(a, k) ELSE 0, anchored |-> FALSE]
  BY <1>1, <1>6, SendType
<1>11. SendBand'
  BY <1>1, <1>2, <1>6, <1>10 DEF SendBand
<1>12. WireOrdered'
  <2>1. last'.gap \in Int /\ last'.gap >= -Trim
    BY <1>9, <1>10, <1>2, <1>6, Constants
  <2> QED BY <2>1, <1>1, <1>2 DEF WireOrdered
<1>13. offset' \in Nat /\ sent + age' = offset'
  BY <1>1, <1>2, <1>7, <1>8
<1> QED BY <1>1, <1>2, <1>6, <1>11, <1>12, <1>13, SendKeeps

LEMMA ServoKeeps ==
  ASSUME IInv, NEW a \in Ages, NEW k \in 1 .. MaxJump, ServoFrame(a, k)
  PROVE  IInv'
<1> DEFINE now == AheadNow(a, k)
           err == Lead - now
           stall == begun /\ (err > Interval \/ err < -Interval)
           aim == now + Divided(err, 8)
<1>1. /\ mode = "servo" /\ Arrive(a, k) /\ TypeOK
      /\ servo' \in ServoType /\ offset' \in Nat
  BY DEF ServoFrame, IInv, TypeOK, ServoType
<1>2. now \in Int /\ err \in Int /\ mode' = mode
  BY <1>1, Clocks, ArriveType, Constants
<1>3. Lead \in Int /\ Interval \in Nat /\ -Divided(Interval, 8) \in Int
      /\ -Divided(Interval, 8) <= 0
  BY Constants, Eighth
<1>4. stall \in BOOLEAN
  BY DEF TypeOK
<1>5. CASE ~begun \/ stall
  <2>1. Send(Lead, a, k, stall)
    BY <1>5 DEF ServoFrame
  <2>2. last' = [kind |-> "sent", lead |-> Lead,
                 gap |-> IF begun THEN Lead - now ELSE 0, anchored |-> stall]
    BY <1>1, <1>3, <1>4, <2>1, SendType
  <2> HIDE DEF stall, now
  <2>3. SendBand'
    <3>1. Lead - Interval <= Lead /\ Lead <= Lead + Interval
      BY <1>3
    <3> QED BY <1>1, <1>2, <2>2, <3>1 DEF SendBand
  <2>4. WireOrdered'
    <3>1. CASE stall
      BY <2>2, <3>1 DEF WireOrdered
    <3>2. CASE ~begun
      <4>1. last'.gap = 0
        BY <2>2, <3>2
      <4> QED BY <1>1, <1>2, <1>3, <4>1 DEF WireOrdered
    <3> QED BY <1>5, <3>1, <3>2
  <2> QED BY <1>1, <1>2, <1>3, <1>4, <2>1, <2>3, <2>4, SendKeeps
<1>6. CASE begun /\ ~stall
  <2>1. Send(aim, a, k, FALSE)
    BY <1>6 DEF ServoFrame
  <2>2. err <= Interval /\ -Interval <= err
    BY <1>2, <1>3, <1>6
  <2>3. /\ Divided(err, 8) \in Int /\ -Divided(Interval, 8) <= Divided(err, 8)
        /\ err >= 0 => 0 <= Divided(err, 8) /\ Divided(err, 8) <= err
        /\ err <= 0 => err <= Divided(err, 8) /\ Divided(err, 8) <= 0
    <3> HIDE DEF err
    <3> QED BY <1>2, <1>3, <2>2, Eighth
  <2>4. aim \in Int /\ Lead - Interval <= aim /\ aim <= Lead + Interval
    BY <1>2, <1>3, <2>2, <2>3
  <2>5. aim - now = Divided(err, 8)
    BY <1>2, <2>3
  <2> HIDE DEF aim, now, stall, err
  <2>6. last' = [kind |-> "sent", lead |-> aim,
                 gap |-> IF begun THEN aim - AheadNow(a, k) ELSE 0, anchored |-> FALSE]
    BY <1>1, <2>1, <2>4, SendType
  <2>7. SendBand'
    BY <1>1, <1>2, <2>4, <2>6 DEF SendBand
  <2>8. WireOrdered'
    <3>1. last'.gap = Divided(err, 8)
      BY <1>6, <2>5, <2>6 DEF now
    <3> QED BY <1>1, <1>2, <2>3, <3>1 DEF WireOrdered
  <2> QED BY <1>1, <1>2, <2>1, <2>4, <2>7, <2>8, SendKeeps
<1> QED BY <1>5, <1>6

LEMMA GridKeeps ==
  ASSUME IInv, NEW a \in Ages, NEW k \in 1 .. MaxJump, GridFrame(a, k)
  PROVE  IInv'
<1> DEFINE now == AheadNow(a, k)
           stall == begun /\ now + Interval < 0
<1>1. /\ mode = "grid" /\ Arrive(a, k) /\ TypeOK
      /\ servo' \in ServoType /\ offset' \in Nat
  BY DEF GridFrame, IInv, TypeOK, ServoType
<1>2. now \in Int /\ mode' = mode
  BY <1>1, Clocks, ArriveType
<1>3. Preload \in Int /\ Preload >= 0 /\ Interval \in Nat /\ Trim \in Nat
  BY Constants
<1>4. stall \in BOOLEAN
  BY DEF TypeOK
<1>5. CASE ~begun \/ stall
  <2>1. Send(Preload, a, k, stall)
    BY <1>5 DEF GridFrame
  <2>2. last' = [kind |-> "sent", lead |-> Preload,
                 gap |-> IF begun THEN Preload - now ELSE 0, anchored |-> stall]
    BY <1>1, <1>3, <1>4, <2>1, SendType
  <2> HIDE DEF stall, now
  <2>3. SendBand'
    <3>1. -Interval <= Preload
      BY <1>3
    <3> QED BY <1>1, <1>2, <2>2, <3>1 DEF SendBand
  <2>4. WireOrdered'
    <3>1. CASE stall
      BY <2>2, <3>1 DEF WireOrdered
    <3>2. CASE ~begun
      <4>1. last'.gap = 0 /\ 0 >= -Trim
        BY <1>3, <2>2, <3>2
      <4> QED BY <1>1, <1>2, <4>1 DEF WireOrdered
    <3> QED BY <1>5, <3>1, <3>2
  <2> QED BY <1>1, <1>2, <1>3, <1>4, <2>1, <2>3, <2>4, SendKeeps
<1>6. CASE begun /\ ~stall
  <2>1. Send(now, a, k, FALSE)
    BY <1>6 DEF GridFrame
  <2>2. -Interval <= now /\ now - now = 0 /\ 0 >= -Trim
    BY <1>2, <1>3, <1>6
  <2>3. last' = [kind |-> "sent", lead |-> now,
                 gap |-> IF begun THEN now - now ELSE 0, anchored |-> FALSE]
    BY <1>1, <1>2, <2>1, SendType
  <2> HIDE DEF now, stall
  <2>4. SendBand'
    BY <1>1, <1>2, <2>2, <2>3 DEF SendBand
  <2>5. WireOrdered'
    <3>1. last'.gap = 0
      BY <1>6, <2>2, <2>3
    <3> QED BY <1>1, <1>2, <2>2, <3>1 DEF WireOrdered
  <2> QED BY <1>1, <1>2, <2>1, <2>4, <2>5, SendKeeps
<1> QED BY <1>5, <1>6
-----------------------------------------------------------------------------
(* The theorems *)

LEMMA InitIInv == Init => IInv
<1> SUFFICES ASSUME Init PROVE IInv
  OBVIOUS
<1>1. TypeOK
  <2>1. FreshServo \in ServoType
    BY FreshType
  <2>2. 0 \in -Far .. Far /\ age \in Nat
    BY Constants DEF Init
  <2>3. last \in Rest
    BY DEF Init, Rest
  <2>4. servo \in ServoType /\ steady \in Ages \cup {Unsteady}
    BY <2>1 DEF Init
  <2>5. mode \in Modes /\ offset \in Nat /\ begun \in BOOLEAN /\ throttle \in BOOLEAN
    BY DEF Init
  <2>6. ahead \in Int /\ skew \in -Far .. Far /\ busy \in Nat
    BY <2>2 DEF Init
  <2> QED BY <2>2, <2>3, <2>4, <2>5, <2>6 DEF TypeOK, ServoType, Rest
<1> QED BY <1>1 DEF Init, IInv, SendBand, WireOrdered, BaseKept

LEMMA NextIInv == IInv /\ [Next]_vars => IInv'
<1> SUFFICES ASSUME IInv, [Next]_vars PROVE IInv'
  OBVIOUS
<1>1. CASE Settle
  <2>1. steady' \in Ages \cup {Unsteady}
    BY <1>1 DEF Settle
  <2> QED BY <1>1, <2>1 DEF Settle, IInv, TypeOK, SendBand, WireOrdered, BaseKept
<1>2. CASE UNCHANGED vars
  BY <1>2 DEF vars, IInv, TypeOK, SendBand, WireOrdered, BaseKept
<1>3. ASSUME NEW a \in Ages, NEW k \in 1 .. MaxJump, Frame(a, k) PROVE IInv'
  <2>1. CASE FixedFrame(a, k)
    BY <2>1, FixedKeeps
  <2>2. CASE GenlockSkip(a, k)
    BY <2>2, GenlockSkipKeeps
  <2>3. CASE GenlockReanchor(a, k)
    BY <2>3, GenlockReanchorKeeps
  <2>4. CASE GenlockSend(a, k)
    BY <2>4, GenlockSendKeeps
  <2>5. CASE ServoFrame(a, k)
    BY <2>5, ServoKeeps
  <2>6. CASE GridFrame(a, k)
    BY <2>6, GridKeeps
  <2> QED BY <1>3, <2>1, <2>2, <2>3, <2>4, <2>5, <2>6 DEF Frame
<1> QED BY <1>1, <1>2, <1>3 DEF Next

LEMMA SpecIInv == Spec => []IInv
BY InitIInv, NextIInv, PTL DEF Spec

\* Skip guards, trim, re-arm delay and clamps keep their ranges in every
\* schedule (compute() of st2110_tx.cpp).
THEOREM SpecTypeOK == Spec => []TypeOK
<1>1. IInv => TypeOK
  BY DEF IInv
<1> QED BY <1>1, SpecIInv, PTL

\* A frame that is sent leaves inside the band of its schedule, for every frame
\* rate, lead, latency and pipeline delay.
THEOREM SpecSendBand == Spec => []SendBand
<1>1. IInv => SendBand
  BY DEF IInv
<1> QED BY <1>1, SpecIInv, PTL

\* The windows of two frames overlap on the wire by one trim step at most
\* (by an eighth of an interval in the servo), unless anchored anew.
THEOREM SpecWireOrdered == Spec => []WireOrdered
<1>1. IInv => WireOrdered
  BY DEF IInv
<1> QED BY <1>1, SpecIInv, PTL
-----------------------------------------------------------------------------
(* The skip guard: how many frames of a window are clipped *)

\* The window is two buckets: the frames since the counter was last zero, and those before.
Recent(c, n) == {i \in 1 .. Window : i >= Window - n /\ c[i]}
Earlier(c, n) == {i \in 1 .. Window : i < Window - n /\ c[i]}

\* The inductive form: each bucket's counter covers its clipped frames, and the two counters
\* together never exceed what MaySkip tolerates by more than one.
ClipInv ==
  /\ clips \in Seq(BOOLEAN) /\ Len(clips) = Window
  /\ Cardinality(Recent(clips, servo.count)) <= servo.skips
  /\ Cardinality(Earlier(clips, servo.count)) <= servo.prev
  /\ servo.skips + servo.prev <= Clip + 1

\* Positions that move one place down are no more than those they came from.
LEMMA Shifted ==
  ASSUME NEW S \in SUBSET Int, NEW T, IsFiniteSet(T), \A i \in S : i + 1 \in T
  PROVE  IsFiniteSet(S) /\ Cardinality(S) <= Cardinality(T)
<1>1. [i \in S |-> i + 1] \in Injection(S, T)
  BY DEF Injection, IsInjective
<1> QED
  BY <1>1, FS_Injection

\* The buckets are finite.
LEMMA BucketsFinite ==
  ASSUME NEW c, NEW n
  PROVE  /\ IsFiniteSet(Recent(c, n)) /\ IsFiniteSet(Earlier(c, n))
         /\ Cardinality(Recent(c, n)) \in Nat /\ Cardinality(Earlier(c, n)) \in Nat
<1>1. IsFiniteSet(1 .. Window)
  BY FS_Interval, Constants
<1>2. IsFiniteSet(Recent(c, n)) /\ IsFiniteSet(Earlier(c, n))
  <2>1. Recent(c, n) \in SUBSET (1 .. Window) /\ Earlier(c, n) \in SUBSET (1 .. Window)
    BY DEF Recent, Earlier
  <2> QED
    BY <1>1, <2>1, FS_Subset
<1> QED
  BY <1>2, FS_CardinalityType

\* The window after one more frame.
LEMMA ClippedIs ==
  ASSUME clips \in Seq(BOOLEAN), Len(clips) = Window, NEW b \in BOOLEAN
  PROVE  /\ Clipped(b) \in Seq(BOOLEAN) /\ Len(Clipped(b)) = Window
         /\ \A i \in 1 .. Window - 1 : Clipped(b)[i] = clips[i + 1]
         /\ Clipped(b)[Window] = b
<1>1. Window \in Nat /\ Window > 0
  BY Constants
<1>2. clips # <<>>
  BY <1>1, EmptySeq
<1>3. /\ Tail(clips) \in Seq(BOOLEAN) /\ Len(Tail(clips)) = Window - 1
      /\ \A i \in 1 .. Window - 1 : Tail(clips)[i] = clips[i + 1]
  BY <1>1, <1>2, HeadTailProperties
<1>4. /\ Clipped(b) \in Seq(BOOLEAN) /\ Len(Clipped(b)) = Len(Tail(clips)) + 1
      /\ \A i \in 1 .. Len(Tail(clips)) : Clipped(b)[i] = Tail(clips)[i]
      /\ Clipped(b)[Len(Tail(clips)) + 1] = b
  BY <1>3, AppendProperties DEF Clipped
<1> QED
  BY <1>1, <1>3, <1>4

\* A bucket that grows by a frame grows by at most one clipped frame.
LEMMA RecentGrows ==
  ASSUME ClipInv, NEW b \in BOOLEAN, NEW n \in Nat, n < Window - 1
  PROVE  /\ Cardinality(Recent(Clipped(b), n + 1))
              <= Cardinality(Recent(clips, n)) + (IF b THEN 1 ELSE 0)
         /\ Cardinality(Earlier(Clipped(b), n + 1)) <= Cardinality(Earlier(clips, n))
<1>1. Window \in Nat /\ Window > 0
  BY Constants
<1>2. /\ \A i \in 1 .. Window - 1 : Clipped(b)[i] = clips[i + 1]
      /\ Clipped(b)[Window] = b
  BY ClippedIs DEF ClipInv
<1> DEFINE new == Recent(Clipped(b), n + 1)
           S == new \ {Window}
<1>3. IsFiniteSet(Recent(clips, n)) /\ IsFiniteSet(Earlier(clips, n)) /\ IsFiniteSet(new)
      /\ Cardinality(Recent(clips, n)) \in Nat /\ Cardinality(new) \in Nat
  BY BucketsFinite
<1>4. S \in SUBSET Int /\ \A i \in S : i + 1 \in Recent(clips, n)
  BY <1>1, <1>2 DEF Recent
<1>5. Cardinality(S) <= Cardinality(Recent(clips, n))
  BY <1>3, <1>4, Shifted
<1>6. Cardinality(S) = IF Window \in new THEN Cardinality(new) - 1 ELSE Cardinality(new)
  BY <1>3, FS_RemoveElement
<1>7. Window \in new => b
  BY <1>2 DEF Recent
<1>8. Cardinality(new) <= Cardinality(Recent(clips, n)) + (IF b THEN 1 ELSE 0)
  <2> HIDE DEF new, S
  <2> QED
    BY <1>3, <1>5, <1>6, <1>7
<1>9. /\ Earlier(Clipped(b), n + 1) \in SUBSET Int
      /\ \A i \in Earlier(Clipped(b), n + 1) : i + 1 \in Earlier(clips, n)
  BY <1>1, <1>2 DEF Earlier
<1>10. Cardinality(Earlier(Clipped(b), n + 1)) <= Cardinality(Earlier(clips, n))
  BY <1>3, <1>9, Shifted
<1> QED
  BY <1>8, <1>10

\* When the counter wraps, the full bucket becomes the earlier one.
LEMMA RecentWraps ==
  ASSUME ClipInv, NEW b \in BOOLEAN
  PROVE  /\ Cardinality(Recent(Clipped(b), 0)) <= IF b THEN 1 ELSE 0
         /\ Cardinality(Earlier(Clipped(b), 0)) <= Cardinality(Recent(clips, Window - 1))
<1>1. Window \in Nat /\ Window > 0
  BY Constants
<1>2. /\ \A i \in 1 .. Window - 1 : Clipped(b)[i] = clips[i + 1]
      /\ Clipped(b)[Window] = b
  BY ClippedIs DEF ClipInv
<1>3. Recent(Clipped(b), 0) = IF b THEN {Window} ELSE {}
  BY <1>1, <1>2 DEF Recent
<1>4. Cardinality(Recent(Clipped(b), 0)) = IF b THEN 1 ELSE 0
  BY <1>3, FS_Singleton, FS_EmptySet
<1>5. /\ Earlier(Clipped(b), 0) \in SUBSET Int
      /\ \A i \in Earlier(Clipped(b), 0) : i + 1 \in Recent(clips, Window - 1)
  BY <1>1, <1>2 DEF Earlier, Recent
<1>6. Cardinality(Earlier(Clipped(b), 0)) <= Cardinality(Recent(clips, Window - 1))
  BY <1>5, BucketsFinite, Shifted
<1> QED
  BY <1>4, <1>6

\* A frame that is looked at moves the window on and is counted once.
LEMMA WindowKeeps ==
  ASSUME TypeOK, ClipInv, NEW b \in BOOLEAN, clips' = Clipped(b),
         servo'.count = Rotated.count, servo'.prev = Rotated.prev,
         servo'.skips = Rotated.skips + (IF b THEN 1 ELSE 0),
         b => Rotated.skips + Rotated.prev <= Clip
  PROVE  ClipInv'
<1> DEFINE one == IF b THEN 1 ELSE 0
<1>1. /\ Window \in Nat /\ Window > 0 /\ Clip \in Nat /\ one \in {0, 1}
      /\ servo.count \in 0 .. Window - 1 /\ servo.skips \in Nat /\ servo.prev \in Nat
      /\ servo \in ServoType
  BY Constants DEF TypeOK, ServoType
<1>2. clips' \in Seq(BOOLEAN) /\ Len(clips') = Window
  BY ClippedIs DEF ClipInv
<1>3. CASE servo.count + 1 >= Window
  <2>1. Rotated = [servo EXCEPT !.prev = servo.skips, !.skips = 0, !.count = 0]
    BY <1>3 DEF Rotated
  <2>2. servo'.count = 0 /\ servo'.prev = servo.skips /\ servo'.skips = 0 + one
    BY <1>1, <2>1 DEF ServoType
  <2>3. b => servo.skips <= Clip
    BY <1>1, <2>1 DEF ServoType
  <2>4. servo.count = Window - 1
    BY <1>1, <1>3
  <2>5. /\ Cardinality(Recent(Clipped(b), 0)) <= one
        /\ Cardinality(Earlier(Clipped(b), 0)) <= Cardinality(Recent(clips, servo.count))
    BY <2>4, RecentWraps
  <2>6. /\ Cardinality(Recent(clips, servo.count)) <= servo.skips
        /\ servo.skips + servo.prev <= Clip + 1
    BY DEF ClipInv
  <2>7. /\ Cardinality(Recent(Clipped(b), 0)) \in Nat /\ Cardinality(Earlier(Clipped(b), 0)) \in Nat
        /\ Cardinality(Recent(clips, servo.count)) \in Nat
    BY BucketsFinite
  <2>8. one + servo.skips <= Clip + 1
    BY <1>1, <2>3, <2>6
  <2> HIDE DEF one
  <2> QED
    BY <1>1, <1>2, <2>2, <2>5, <2>6, <2>7, <2>8 DEF ClipInv
<1>4. CASE ~(servo.count + 1 >= Window)
  <2>1. Rotated = [servo EXCEPT !.count = @ + 1]
    BY <1>4 DEF Rotated
  <2>2. servo'.count = servo.count + 1 /\ servo'.prev = servo.prev /\ servo'.skips = servo.skips + one
    BY <1>1, <2>1 DEF ServoType
  <2>3. b => servo.skips + servo.prev <= Clip
    BY <1>1, <2>1 DEF ServoType
  <2>4. servo.count < Window - 1
    BY <1>1, <1>4
  <2>5. /\ Cardinality(Recent(Clipped(b), servo.count + 1)) <= Cardinality(Recent(clips, servo.count)) + one
        /\ Cardinality(Earlier(Clipped(b), servo.count + 1)) <= Cardinality(Earlier(clips, servo.count))
    BY <1>1, <2>4, RecentGrows
  <2>6. /\ Cardinality(Recent(clips, servo.count)) <= servo.skips
        /\ Cardinality(Earlier(clips, servo.count)) <= servo.prev
        /\ servo.skips + servo.prev <= Clip + 1
    BY DEF ClipInv
  <2>7. /\ Cardinality(Recent(Clipped(b), servo.count + 1)) \in Nat
        /\ Cardinality(Earlier(Clipped(b), servo.count + 1)) \in Nat
        /\ Cardinality(Recent(clips, servo.count)) \in Nat
        /\ Cardinality(Earlier(clips, servo.count)) \in Nat
    BY BucketsFinite
  <2>8. (servo.skips + one) + servo.prev <= Clip + 1
    BY <1>1, <2>3, <2>6
  <2> HIDE DEF one
  <2> QED
    BY <1>1, <1>2, <2>2, <2>5, <2>6, <2>7, <2>8, SMTT(30) DEF ClipInv
<1> QED
  BY <1>3, <1>4

\* A window without clipped frames, as after start and after a re-anchor.
LEMMA FreshClips ==
  /\ NoClips \in Seq(BOOLEAN) /\ Len(NoClips) = Window
  /\ \A n \in Int : /\ Cardinality(Recent(NoClips, n)) = 0
                    /\ Cardinality(Earlier(NoClips, n)) = 0
<1>1. Window \in Nat
  BY Constants
<1>2. NoClips \in Seq(BOOLEAN) /\ Len(NoClips) = Window
  <2>1. NoClips \in [1 .. Window -> BOOLEAN]
    BY DEF NoClips
  <2> QED
    BY <1>1, <2>1, SeqDef, LenProperties DEF NoClips
<1>3. \A n \in Int : Recent(NoClips, n) = {} /\ Earlier(NoClips, n) = {}
  BY DEF Recent, Earlier, NoClips
<1> QED
  BY <1>2, <1>3, FS_EmptySet

LEMMA NextClip ==
  ASSUME IInv, ClipInv, [Next]_vars
  PROVE  ClipInv'
<1>t. TypeOK /\ Rotated \in ServoType
  BY RotatedType DEF IInv
<1>1. ASSUME NEW a \in Ages, NEW k \in 1 .. MaxJump, GenlockSkip(a, k) PROVE ClipInv'
  <2> DEFINE lead == GenlockLead(a, k)
             b == Shallow(lead)
             skipped == Skipped(lead)
  <2>1. b \in BOOLEAN /\ clips' = Clipped(b) /\ MaySkip
    BY <1>1 DEF GenlockSkip, Shallow
  <2>2. /\ skipped.count = Rotated.count /\ skipped.prev = Rotated.prev
        /\ skipped.skips = Rotated.skips + (IF b THEN 1 ELSE 0)
    BY <1>t DEF Skipped, ServoType
  <2>3. skipped \in ServoType
    <3>1. lead \in Int
      BY <1>t, CalibratedIs
    <3> QED
      BY <1>t, <2>1, <3>1, SkippedType
  <2>4. \/ servo' = [skipped EXCEPT !.shaved = 0, !.arm = Lesser(2 * @, ArmMax)]
        \/ servo' = skipped
    BY <1>1 DEF GenlockSkip
  <2>5. Rotated.skips + Rotated.prev <= Clip
    BY <2>1, <1>t, Constants DEF MaySkip, Chronic, ServoType
  <2> HIDE DEF skipped, b
  <2>6. servo'.count = Rotated.count /\ servo'.prev = Rotated.prev /\ servo'.skips = skipped.skips
    BY <2>2, <2>3, <2>4 DEF ServoType
  <2> QED
    BY <1>t, <2>1, <2>2, <2>5, <2>6, WindowKeeps
<1>2. ASSUME NEW a \in Ages, NEW k \in 1 .. MaxJump, GenlockSend(a, k) PROVE ClipInv'
  <2>1. /\ servo' = [Rotated EXCEPT !.streak = 0, !.since = SinceNext(@), !.shaved = @ + Shave]
        /\ clips' = Clipped(FALSE)
    BY <1>2 DEF GenlockSend
  <2>2. servo'.count = Rotated.count /\ servo'.prev = Rotated.prev /\ servo'.skips = Rotated.skips
    BY <1>t, <2>1 DEF ServoType
  <2>3. Rotated.skips + (IF FALSE THEN 1 ELSE 0) = Rotated.skips
    BY <1>t DEF ServoType
  <2> QED
    BY <1>t, <2>1, <2>2, <2>3, WindowKeeps
<1>3. ASSUME NEW a \in Ages, NEW k \in 1 .. MaxJump, GenlockReanchor(a, k) PROVE ClipInv'
  <2>1. clips' = NoClips /\ servo'.skips = 0 /\ servo'.prev = 0 /\ servo'.count = 0
    BY <1>3 DEF GenlockReanchor, FreshServo
  <2> QED
    BY <2>1, FreshClips, Constants DEF ClipInv
<1>4. CASE UNCHANGED <<clips, servo>>
  BY <1>4 DEF ClipInv
<1>5. ASSUME NEW a \in Ages, NEW k \in 1 .. MaxJump,
             FixedFrame(a, k) \/ ServoFrame(a, k) \/ GridFrame(a, k)
      PROVE UNCHANGED <<clips, servo>>
  BY <1>5 DEF FixedFrame, ServoFrame, GridFrame
<1>6. Settle \/ UNCHANGED vars => UNCHANGED <<clips, servo>>
  BY DEF Settle, vars
<1> QED
  BY <1>1, <1>2, <1>3, <1>4, <1>5, <1>6 DEF Next, Frame

\* The two counters of the skip guard bound the clipped frames of every window.
LEMMA ClipInvBounds == TypeOK /\ ClipInv => ClipBounded
<1> SUFFICES ASSUME TypeOK, ClipInv PROVE ClipBounded
  OBVIOUS
<1> DEFINE R == Recent(clips, servo.count)  E == Earlier(clips, servo.count)
<1>1. /\ IsFiniteSet(R) /\ IsFiniteSet(E) /\ Cardinality(R) \in Nat /\ Cardinality(E) \in Nat
  BY BucketsFinite
<1>2. /\ Cardinality(R) <= servo.skips /\ Cardinality(E) <= servo.prev
      /\ servo.skips + servo.prev <= Clip + 1
      /\ servo.skips \in Nat /\ servo.prev \in Nat /\ servo.count \in Nat
      /\ Window \in Nat /\ Clip \in Nat
  BY Constants DEF ClipInv, TypeOK
<1>3. {i \in 1 .. Window : clips[i]} = R \cup E /\ R \cap E = {}
  BY <1>2 DEF Recent, Earlier
<1> HIDE DEF R, E
<1>4. Cardinality(R \cup E) = Cardinality(R) + Cardinality(E) - Cardinality(R \cap E)
  BY <1>1, FS_Union
<1>5. Cardinality(R \cap E) = 0
  BY <1>3, FS_EmptySet
<1>6. Cardinality(R \cup E) <= Clip + 1
  BY <1>1, <1>2, <1>4, <1>5
<1> QED
  BY <1>3, <1>6 DEF ClipBounded

\* Between two re-anchors a schedule that sits too low clips at most Clip + 1 frames of any
\* Window consecutive ones, for every window and limit of the skip guard.
THEOREM SpecClipBounded == Spec => []ClipBounded
<1>1. Init => ClipInv
  BY FreshClips, Constants DEF Init, ClipInv, FreshServo
<1>2. IInv /\ ClipInv /\ [Next]_vars => IInv' /\ ClipInv'
  BY NextIInv, NextClip
<1>3. IInv /\ ClipInv => ClipBounded
  BY ClipInvBounds DEF IInv
<1> QED
  BY InitIInv, <1>1, <1>2, <1>3, PTL DEF Spec
-----------------------------------------------------------------------------
(* The throttle *)

\* compute() has blocked until little more than the horizon separates it from the next frame
\* of the schedule.
Slack == ahead - busy <= Horizon + (Interval - Active)

\* The inductive form: the grid has that slack after every frame, the fixed schedule after every
\* frame it has sent with the throttle on.  After any other frame its base lies further back than
\* BaseKept allows.
ThrottleInv ==
  /\ mode # "fixed" => throttle
  /\ mode = "grid" /\ begun => Slack
  /\ mode = "fixed" /\ begun /\ throttle /\ ahead + age = Latency + Interval => Slack

\* The next frame is not looked at before compute() has returned.
LEMMA NotBefore ==
  ASSUME TypeOK, NEW a \in Ages, NEW k \in 1 .. MaxJump
  PROVE  AheadNow(a, k) <= ahead - busy /\ NextAge(a, k) >= a
<1>1. a \in Nat /\ age \in Nat /\ busy \in Nat /\ ahead \in Int /\ k * Interval \in Int
  BY Constants, Spacing DEF TypeOK
<1> QED
  BY <1>1 DEF AheadNow, Passed, NextAge, Greater

\* A frame that is sent with the throttle on, and does not hit the cap, leaves slack.
LEMMA WithinReach ==
  ASSUME throttle, NEW a \in Ages, NEW k \in 1 .. MaxJump, NEW lead \in Int,
         NEW anchored \in BOOLEAN, Send(lead, a, k, anchored), ~CapHit(lead)
  PROVE  throttle' /\ Slack'
<1>1. throttle'
  BY DEF Send
<1>2. busy' = Greater(0, (lead + Active) - Horizon) /\ ahead' = lead + Interval
  <2>1. lead + Active - Horizon = (lead + Active) - Horizon
    BY Constants
  <2> QED
    BY <2>1 DEF Send, BlockedFor
<1>3. ahead' - busy' <= Horizon + (Interval - Active)
  BY <1>2, Constants DEF Greater
<1> QED
  BY <1>1, <1>3 DEF Slack

\* A frame no further ahead than horizon and cap reach does not hit the cap.
LEMMA NoCapHit ==
  ASSUME NEW lead \in Int, lead <= Horizon + SpinCap
  PROVE  ~CapHit(lead)
BY Constants DEF CapHit

\* In the fixed schedule the base of the next frame follows from the capture of this one.
LEMMA FixedThrottle ==
  ASSUME IInv, NEW a \in Ages, NEW k \in 1 .. MaxJump, FixedFrame(a, k)
  PROVE  ThrottleInv'
<1>t. TypeOK
  BY DEF IInv
<1> DEFINE lead == Latency - NextAge(a, k)
<1>1. mode = "fixed" /\ Arrive(a, k) /\ mode' = "fixed" /\ age' = NextAge(a, k) /\ age' \in Nat
  BY <1>t, ArriveType DEF FixedFrame
<1>2. NextAge(a, k) \in Nat /\ lead \in Int
  BY <1>1, Constants
<1>3. CASE FixedLate(lead)
  <2>1. Unsent(a, k)
    BY <1>1, <1>3 DEF FixedFrame
  <2>2. begun' = begun /\ ahead' = Greater(AheadNow(a, k), -(Far + NextAge(a, k)))
    BY <2>1 DEF Unsent
  <2>3. ASSUME begun PROVE ahead' + age' < Latency + Interval
    <3>1. ahead + age <= Latency + Interval /\ ahead + age \in Int
      BY <1>1, <2>3 DEF IInv, BaseKept, TypeOK
    <3>2. /\ AheadNow(a, k) \in Int
          /\ AheadNow(a, k) + NextAge(a, k) <= (ahead + age) - Interval
      BY <1>t, Clocks
    <3> QED
      BY <1>1, <1>2, <2>2, <3>1, <3>2, Constants DEF Greater
  <2>4. begun => ahead' + age' # Latency + Interval
    <3>1. ahead' \in Int
      BY <1>t, <1>2, <2>2, Clocks, Constants DEF Greater
    <3> QED
      BY <1>1, <2>3, <3>1, Constants
  <2> QED
    BY <1>1, <2>2, <2>4 DEF ThrottleInv
<1>4. CASE ~FixedLate(lead)
  <2>1. Send(lead, a, k, FALSE)
    BY <1>1, <1>4 DEF FixedFrame
  <2>2. throttle' = (throttle /\ ~CapHit(lead))
    BY <2>1 DEF Send
  <2>3. throttle' => Slack'
    BY <1>2, <2>1, <2>2, WithinReach
  <2> QED
    BY <1>1, <2>3 DEF ThrottleInv
<1> QED
  BY <1>3, <1>4

LEMMA NextThrottle ==
  ASSUME CapFits, IInv, IInv', ThrottleInv, [Next]_vars
  PROVE  ThrottleInv'
<1>t. TypeOK
  BY DEF IInv
<1>1. ASSUME NEW a \in Ages, NEW k \in 1 .. MaxJump, FixedFrame(a, k) PROVE ThrottleInv'
  BY <1>1, FixedThrottle
<1>2. ASSUME NEW a \in Ages, NEW k \in 1 .. MaxJump, GenlockSkip(a, k) PROVE ThrottleInv'
  <2>1. mode = "genlock" /\ Arrive(a, k) /\ throttle' = throttle
    BY <1>2 DEF GenlockSkip, Unsent
  <2>2. mode' = mode
    BY <1>t, <2>1, ArriveType
  <2> QED
    BY <2>1, <2>2 DEF ThrottleInv
<1>3. ASSUME NEW a \in Ages, NEW k \in 1 .. MaxJump, GenlockReanchor(a, k) PROVE ThrottleInv'
  <2>1. mode = "genlock" /\ mode \in Modes /\ Arrive(a, k) /\ Send(Lead, a, k, TRUE)
    BY <1>t, <1>3 DEF GenlockReanchor, TypeOK
  <2>2. Lead \in Int /\ Lead <= Horizon + SpinCap
    BY <2>1, Constants DEF CapFits
  <2>3. throttle' /\ mode' = mode
    BY <1>t, <2>1, <2>2, ArriveType, NoCapHit, WithinReach DEF ThrottleInv
  <2> QED
    BY <2>1, <2>3 DEF ThrottleInv
<1>4. ASSUME NEW a \in Ages, NEW k \in 1 .. MaxJump, GenlockSend(a, k) PROVE ThrottleInv'
  <2> DEFINE sent == GenlockLead(a, k) - Shave
  <2>1. mode = "genlock" /\ mode \in Modes /\ Arrive(a, k) /\ Send(sent, a, k, FALSE)
    BY <1>t, <1>4 DEF GenlockSend, TypeOK
  <2>2. ~OutOfBand(GenlockLead(a, k)) /\ GenlockLead(a, k) \in Int
    BY <1>t, <1>4, CalibratedIs DEF GenlockSend
  <2>3. sent \in Int /\ sent <= 2 * Interval
    BY <2>2, Constants DEF OutOfBand, TooEarly, Shave
  <2>4. 2 * Interval <= Horizon + SpinCap
    BY <2>1 DEF CapFits
  <2>5. sent <= Horizon + SpinCap
    BY <2>3, <2>4, Constants
  <2>6. throttle' /\ mode' = mode
    BY <1>t, <2>1, <2>3, <2>5, ArriveType, NoCapHit, WithinReach DEF ThrottleInv
  <2> QED
    BY <2>1, <2>6 DEF ThrottleInv
<1>5. ASSUME NEW a \in Ages, NEW k \in 1 .. MaxJump, ServoFrame(a, k) PROVE ThrottleInv'
  <2>1. mode = "servo" /\ mode \in Modes /\ Arrive(a, k) /\ mode' = mode
    BY <1>t, <1>5, ArriveType DEF ServoFrame, TypeOK
  <2>2. PICK lead \in Int, anchored \in BOOLEAN : Send(lead, a, k, anchored)
    <3> DEFINE now == AheadNow(a, k)
               err == Lead - now
               stall == begun /\ (err > Interval \/ err < -Interval)
    <3>1. now \in Int /\ err \in Int /\ Lead \in Int
      BY <1>t, Clocks, Constants
    <3>2. now + Divided(err, 8) \in Int /\ stall \in BOOLEAN
      BY <1>t, <3>1 DEF Divided, TypeOK
    <3>3. Send(Lead, a, k, stall) \/ Send(now + Divided(err, 8), a, k, FALSE)
      BY <1>5 DEF ServoFrame
    <3> QED
      BY <3>1, <3>2, <3>3
  <2>3. last'.kind = "sent" /\ last'.lead = lead
    BY <2>2 DEF Send
  <2>4. lead <= Lead + Interval
    BY <2>1, <2>3 DEF IInv, SendBand
  <2>5. lead <= Horizon + SpinCap
    BY <2>1, <2>4, Constants DEF CapFits
  <2>6. throttle'
    BY <2>1, <2>2, <2>5, NoCapHit, WithinReach DEF ThrottleInv
  <2> QED
    BY <2>1, <2>6 DEF ThrottleInv
<1>6. ASSUME NEW a \in Ages, NEW k \in 1 .. MaxJump, GridFrame(a, k) PROVE ThrottleInv'
  <2> DEFINE now == AheadNow(a, k)
             stall == begun /\ now + Interval < 0
  <2>1. mode = "grid" /\ mode \in Modes /\ Arrive(a, k)
    BY <1>t, <1>6 DEF GridFrame, TypeOK
  <2>2. now \in Int /\ stall \in BOOLEAN /\ now <= ahead - busy /\ ahead \in Int /\ busy \in Nat
    BY <1>t, Clocks, NotBefore DEF TypeOK
  <2>3. ASSUME ~begun \/ stall PROVE throttle' /\ Slack'
    <3>1. Send(Preload, a, k, stall)
      BY <1>6, <2>3 DEF GridFrame
    <3>2. Preload \in Int /\ Preload <= Horizon + SpinCap
      BY <2>1, Constants DEF CapFits
    <3> QED
      BY <2>1, <2>2, <3>1, <3>2, NoCapHit, WithinReach DEF ThrottleInv
  <2>4. ASSUME begun /\ ~stall PROVE throttle' /\ Slack'
    <3>1. Send(now, a, k, FALSE)
      BY <1>6, <2>4 DEF GridFrame
    <3>2. ahead - busy <= Horizon + (Interval - Active) /\ Interval - Active <= SpinCap
      BY <2>1, <2>4 DEF CapFits, ThrottleInv, Slack
    <3>3. now <= Horizon + SpinCap
      BY <2>2, <3>2, Constants
    <3> QED
      BY <2>1, <2>2, <3>1, <3>3, NoCapHit, WithinReach DEF ThrottleInv
  <2>5. throttle' /\ Slack' /\ mode' = mode
    BY <1>t, <2>1, <2>3, <2>4, ArriveType
  <2> QED
    BY <2>1, <2>5 DEF ThrottleInv
<1>7. CASE Settle \/ UNCHANGED vars
  <2>1. UNCHANGED <<throttle, mode, begun, ahead, age, busy>>
    BY <1>7 DEF Settle, vars
  <2> QED
    BY <2>1 DEF ThrottleInv, Slack
<1>8. ASSUME NEW a \in Ages, NEW k \in 1 .. MaxJump, Frame(a, k) PROVE ThrottleInv'
  BY <1>1, <1>2, <1>3, <1>4, <1>5, <1>6, <1>8 DEF Frame
<1> QED
  BY <1>7, <1>8 DEF Next

\* The throttle goes off only in a fixed schedule, and not at a frame that follows one that was
\* sent: there compute() has blocked for as long as the schedule is ahead.
LEMMA KeptByStep ==
  ASSUME CapFits, IInv, ThrottleInv, ThrottleInv', [Next]_vars
  PROVE  ThrottleKept
<1> SUFFICES ASSUME throttle, ~throttle'
             PROVE  mode = "fixed" /\ (~begun \/ (last'.kind = "sent" /\ last'.gap > 0))
  BY DEF ThrottleKept
<1>t. TypeOK
  BY DEF IInv
<1>1. mode' = "fixed"
  BY DEF ThrottleInv
<1>2. ~UNCHANGED vars /\ ~Settle
  BY DEF vars, Settle
<1>3. PICK a \in Ages, k \in 1 .. MaxJump : Frame(a, k)
  BY <1>2 DEF Next
<1>4. Arrive(a, k) /\ mode = "fixed"
  BY <1>t, <1>1, <1>3, ArriveType
     DEF Frame, FixedFrame, GenlockSkip, GenlockReanchor, GenlockSend, ServoFrame, GridFrame
<1>5. FixedFrame(a, k)
  BY <1>3, <1>4
     DEF Frame, GenlockSkip, GenlockReanchor, GenlockSend, ServoFrame, GridFrame
<1> DEFINE lead == Latency - NextAge(a, k)
<1>6. Send(lead, a, k, FALSE)
  BY <1>5 DEF FixedFrame, Unsent
<1>7. /\ CapHit(lead) /\ last'.kind = "sent"
      /\ last'.gap = IF begun THEN lead - AheadNow(a, k) ELSE 0
  BY <1>6 DEF Send
<1>8. ASSUME begun PROVE lead - AheadNow(a, k) > 0
  <2>1. /\ ahead + age <= Latency + Interval
        /\ ahead + age = Latency + Interval => Slack
    BY <1>4, <1>8 DEF IInv, BaseKept, ThrottleInv
  <2>2. /\ NextAge(a, k) \in Nat /\ AheadNow(a, k) \in Int
        /\ AheadNow(a, k) + NextAge(a, k) <= (ahead + age) - Interval
        /\ AheadNow(a, k) <= ahead - busy
    BY <1>t, Clocks, NotBefore
  <2>3. ahead \in Int /\ age \in Nat /\ busy \in Nat /\ lead \in Int
    BY <1>t, <2>2, Constants DEF TypeOK
  <2>4. Interval - Active <= SpinCap
    <3>1. "fixed" \in Modes
      BY <1>t, <1>4 DEF TypeOK
    <3> QED
      BY <3>1 DEF CapFits
  <2>5. lead - Horizon > SpinCap
    BY <1>7 DEF CapHit
  <2>6. CASE ahead + age = Latency + Interval
    BY <2>1, <2>2, <2>3, <2>4, <2>5, <2>6, Constants DEF Slack
  <2>7. CASE ahead + age < Latency + Interval
    BY <2>2, <2>3, <2>7, Constants
  <2> QED
    BY <2>1, <2>3, <2>6, <2>7, Constants
<1> QED
  BY <1>4, <1>7, <1>8

\* The limits of both corrections, of the skip guard and of the throttle, are kept: with a NIC
\* clock that is right no wait hits the 50 ms cap, except in the fixed schedule at the first
\* frame or at the first after some that were not sent, however long the latency is.
THEOREM SpecWithinLimits == CapFits => (Spec => WithinLimits)
<1> SUFFICES ASSUME CapFits PROVE Spec => WithinLimits
  OBVIOUS
<1>1. Init => ThrottleInv
  BY DEF Init, ThrottleInv
<1>2. IInv /\ ThrottleInv /\ [Next]_vars => IInv' /\ ThrottleInv'
  BY NextIInv, NextThrottle
<1>3. IInv /\ ThrottleInv /\ ThrottleInv' /\ [Next]_vars => ThrottleKept
  BY KeptByStep
<1>4. ClipBounded' /\ ThrottleKept => [ClipBounded' /\ ThrottleKept]_vars
  OBVIOUS
<1> QED
  BY InitIInv, SpecClipBounded, <1>1, <1>2, <1>3, <1>4, PTL DEF Spec, WithinLimits
-----------------------------------------------------------------------------
(* Induction and recursion *)

\* A set of natural numbers has a least one.
LEMMA Least ==
  ASSUME NEW T, T \subseteq Nat, T # {}
  PROVE  \E m \in T : \A k \in T : m <= k
<1>1. PICK R : R = OpToRel(<, Nat)
  OBVIOUS
<1>2. IsWellFoundedOn(R, Nat)
  BY <1>1, NatLessThanWellFounded, Zenon
<1>3. PICK m \in T : \A k \in T : ~(<<k, m>> \in R)
  BY <1>2, WFMin, Zenon
<1>4. \A a \in Nat, b \in Nat : a < b => <<a, b>> \in R
  BY <1>1 DEF OpToRel
<1>5. ASSUME NEW k \in T PROVE m <= k
  <2>1. k \in Nat /\ m \in Nat
    OBVIOUS
  <2>2. ~(k < m)
    BY <1>3, <1>4, <2>1
  <2> QED
    BY <2>1, <2>2
<1> QED
  BY <1>5

\* Induction up to n, over a set.
LEMMA UpTo ==
  ASSUME NEW n \in Nat, NEW T, 0 \in T, \A k \in 0 .. n - 1 : k \in T => k + 1 \in T
  PROVE  \A k \in 0 .. n : k \in T
<1> SUFFICES ASSUME NEW j \in 0 .. n, j \notin T PROVE FALSE
  OBVIOUS
<1> DEFINE Bad == {k \in 0 .. n : k \notin T}
<1>1. Bad \subseteq Nat /\ Bad # {}
  OBVIOUS
<1>2. PICK m \in Bad : \A k \in Bad : m <= k
  BY <1>1, Least
<1>3. m \in 0 .. n /\ m \notin T /\ m # 0
  BY <1>2
<1>4. m - 1 \in 0 .. n - 1 /\ m - 1 \in 0 .. n /\ ~(m <= m - 1) /\ (m - 1) + 1 = m
  BY <1>3
<1>5. m - 1 \in T
  BY <1>2, <1>4
<1> QED
  BY <1>3, <1>4, <1>5

\* A function that is defined from its value one below exists.
Unrolls(w, S, a, n, step) ==
  w \in [0 .. n -> S] /\ w[0] = a /\ \A k \in 1 .. n : w[k] = step[k][w[k - 1]]

LEMMA Unrolled ==
  ASSUME NEW S, NEW a \in S, NEW n \in Nat, NEW step \in [1 .. n -> [S -> S]]
  PROVE  \E w : Unrolls(w, S, a, n, step)
<1> DEFINE Good(j, w) == w \in [0 .. j -> S] /\ w[0] = a /\ \A k \in 1 .. j : w[k] = step[k][w[k - 1]]
           T == {j \in 0 .. n : \E w : Good(j, w)}
<1>1. 0 \in T
  <2>1. Good(0, [k \in 0 .. 0 |-> a])
    OBVIOUS
  <2> HIDE DEF Good
  <2>2. 0 \in 0 .. n /\ \E w : Good(0, w)
    BY <2>1
  <2> QED
    BY <2>2
<1>2. ASSUME NEW j \in 0 .. n - 1, j \in T PROVE j + 1 \in T
  <2>1. PICK w : Good(j, w)
    BY <1>2
  <2>2. j \in Nat /\ j + 1 \in 1 .. n /\ j + 1 \in 0 .. n
    OBVIOUS
  <2> DEFINE v == [k \in 0 .. j + 1 |-> IF k = j + 1 THEN step[j + 1][w[j]] ELSE w[k]]
  <2>3. w[j] \in S /\ step[j + 1][w[j]] \in S
    BY <2>1, <2>2
  <2>4. v \in [0 .. j + 1 -> S] /\ v[0] = a
    BY <2>1, <2>2, <2>3
  <2>5. ASSUME NEW k \in 1 .. j + 1 PROVE v[k] = step[k][v[k - 1]]
    <3>1. CASE k = j + 1
      BY <2>2, <3>1
    <3>2. CASE k # j + 1
      BY <2>1, <2>2, <3>2
    <3> QED
      BY <3>1, <3>2
  <2> QED
    BY <2>2, <2>4, <2>5
<1> HIDE DEF Good
<1>3. n \in T
  <2> HIDE DEF T
  <2>1. \A k \in 0 .. n - 1 : k \in T => k + 1 \in T
    BY <1>2
  <2>2. \A k \in 0 .. n : k \in T
    BY <1>1, <2>1, UpTo, Zenon
  <2> QED
    BY <2>2
<1> QED
  BY <1>3 DEF Good, Unrolls

-----------------------------------------------------------------------------
(* The scaler: what its kernels make is what the net is *)

\* What a plane goes through.
Ops == {"norm", "shuffle", "denorm"} \cup STRING \cup (Nat \X Nat)

LEMMA NetShape ==
  ASSUME NEW n \in Nets
  PROVE  /\ n.convs \in Seq(Shapes) /\ Len(n.convs) \in Nat /\ n.act \in STRING
         /\ \A i \in 1 .. Len(n.convs) :
              /\ n.convs[i].k \in Nat /\ n.convs[i].cin \in Nat /\ n.convs[i].cout \in Nat
              /\ n.convs[i].act \in STRING
<1>1. n \in [convs : Seq(Shapes), act : STRING]
  BY ScalerAssumption
<1>2. n.convs \in Seq(Shapes) /\ Len(n.convs) \in Nat /\ n.act \in STRING
  BY <1>1
<1>3. ASSUME NEW i \in 1 .. Len(n.convs)
      PROVE  /\ n.convs[i].k \in Nat /\ n.convs[i].cin \in Nat /\ n.convs[i].cout \in Nat
             /\ n.convs[i].act \in STRING
  <2>1. n.convs[i] \in Shapes
    BY <1>2, ElementOfSeq
  <2> QED
    BY <2>1 DEF Shapes
<1> QED
  BY <1>2, <1>3

LEMMA OneOf ==
  ASSUME NEW T, NEW x \in T
  PROVE  <<x>> \in Seq(T) /\ <<>> \in Seq(T)
OBVIOUS

LEMMA ConvIs ==
  ASSUME NEW i \in Nat, NEW k \in Nat, NEW act \in STRING
  PROVE  Conv(i, k, act) \in Seq(Ops) /\ Applied(act) \in Seq(Ops)
<1>1. act \in Ops /\ <<i, k>> \in Ops
  BY DEF Ops
<1>2. <<act>> \in Seq(Ops) /\ <<>> \in Seq(Ops) /\ <<<<i, k>>>> \in Seq(Ops)
  BY <1>1, OneOf
<1>3. Applied(act) \in Seq(Ops)
  BY <1>2, Zenon DEF Applied
<1> QED
  BY <1>2, <1>3, ConcatProperties DEF Conv

\* The net, convolution after convolution.
LEMMA ThroughIs ==
  ASSUME NEW n \in Nets
  PROVE  LET f == Through(n) IN
         /\ f \in [0 .. Len(n.convs) -> Seq(Ops)] /\ f[0] = <<"norm">>
         /\ \A i \in 1 .. Len(n.convs) : f[i] = f[i - 1] \o Conv(i, n.convs[i].k, n.convs[i].act)
<1>1. Len(n.convs) \in Nat
  BY NetShape
<1> DEFINE S == Seq(Ops)
           a == <<"norm">>
           c(i) == Conv(i, n.convs[i].k, n.convs[i].act)
           m == Len(n.convs)
<1>2. a \in S /\ m \in Nat
  BY <1>1 DEF Ops
<1>3. \A i \in 1 .. m : c(i) \in S
  <2>1. \A i \in 1 .. m : i \in Nat /\ n.convs[i].k \in Nat /\ n.convs[i].act \in STRING
    BY NetShape
  <2> QED
    BY <2>1, ConvIs
<1> DEFINE step == [i \in 1 .. m |-> [s \in S |-> s \o c(i)]]
<1>4. /\ step \in [1 .. m -> [S -> S]]
      /\ \A i \in 1 .. m : \A s \in S : step[i][s] = s \o c(i)
  <2>1. \A i \in 1 .. m : \A s \in S : s \o c(i) \in S
    BY <1>3, ConcatProperties
  <2> HIDE DEF S, c
  <2> QED
    BY <2>1
<1>5. PICK w : Unrolls(w, S, a, m, step)
  <2> HIDE DEF S, step, a, m
  <2> QED
    BY <1>2, <1>4, Unrolled, Zenon
<1> HIDE DEF step
<1>6. w \in [0 .. m -> S] /\ w[0] = a /\ \A i \in 1 .. m : i - 1 \in 0 .. m /\ w[i - 1] \in S
  <2> HIDE DEF S
  <2> QED
    BY <1>5, <1>2 DEF Unrolls
<1>7. \A i \in 1 .. m : w[i] = w[i - 1] \o c(i)
  <2> HIDE DEF S, c
  <2> QED
    BY <1>4, <1>5, <1>6 DEF Unrolls
<1>8. w = [i \in 0 .. Len(n.convs) |->
             IF i = 0 THEN <<"norm">>
             ELSE w[i - 1] \o Conv(i, n.convs[i].k, n.convs[i].act)]
  <2>1. w = [i \in 0 .. m |-> IF i = 0 THEN a ELSE w[i - 1] \o c(i)]
    <3> HIDE DEF S, a, c
    <3> QED
      BY <1>2, <1>6, <1>7
  <2> QED
    BY <2>1, Zenon
<1>9. PICK f : /\ f = [i \in 0 .. Len(n.convs) |->
                         IF i = 0 THEN <<"norm">>
                         ELSE f[i - 1] \o Conv(i, n.convs[i].k, n.convs[i].act)]
               /\ Through(n) = f
  BY <1>8, Zenon DEF Through
<1>10. f[0] = a /\ \A i \in 1 .. m : f[i] = f[i - 1] \o c(i)
  <2>1. f = [i \in 0 .. m |-> IF i = 0 THEN a ELSE f[i - 1] \o c(i)]
    BY <1>9, Zenon
  <2>2. 0 \in 0 .. m /\ \A i \in 1 .. m : i \in 0 .. m /\ i # 0
    BY <1>2
  <2> HIDE DEF a, c, m
  <2> QED
    BY <2>1, <2>2
<1>11. \A i \in 0 .. m : f[i] \in S
  <2> DEFINE T == {i \in 0 .. m : f[i] \in S}
  <2>1. 0 \in T
    <3>1. 0 \in 0 .. m /\ f[0] \in S
      BY <1>2, <1>10
    <3> QED
      BY <3>1
  <2>2. ASSUME NEW i \in 0 .. m - 1, i \in T PROVE i + 1 \in T
    <3>1. i + 1 \in 1 .. m /\ i + 1 \in 0 .. m /\ (i + 1) - 1 = i /\ f[i] \in S
      BY <1>2, <2>2
    <3>2. f[i + 1] = f[i] \o c(i + 1) /\ c(i + 1) \in S
      BY <1>3, <1>10, <3>1
    <3>3. f[i + 1] \in S
      BY <3>1, <3>2, ConcatProperties
    <3> QED
      BY <3>1, <3>3
  <2>3. \A i \in 0 .. m : i \in T
    <3> HIDE DEF T
    <3>1. \A i \in 0 .. m - 1 : i \in T => i + 1 \in T
      BY <2>2
    <3> QED
      BY <1>2, <2>1, <3>1, UpTo, Zenon
  <2> QED
    BY <2>3
<1>12. f \in [0 .. m -> S]
  <2>1. f = [i \in 0 .. m |-> f[i]]
    BY <1>9, Zenon
  <2> HIDE DEF S
  <2> QED
    BY <1>11, <2>1
<1> QED
  BY <1>9, <1>10, <1>12

\* How many convolutions the first and the last step take: no more than there are, and each
\* of the size its kernel was built for.
LEMMA UsesFit ==
  ASSUME NEW n \in Nets, Parses(n)
  PROVE  LET L == n.convs
             m == Len(L)
             h == HeadUsed(L)
             t == TailUsed(L)
         IN  /\ m \in Nat \ {0} /\ h \in 0 .. 2 /\ t \in 0 .. 2 /\ h + t <= m
             /\ h > 0 => L[1].k = 5
             /\ h = 2 => L[2].k = 1
             /\ t = 1 => L[m].k = 3
             /\ t = 2 => L[m].k = 1 /\ L[m - 1].k = 1
<1> DEFINE L == n.convs
           m == Len(L)
           h == HeadUsed(L)
           t == TailUsed(L)
<1>1. m \in Nat \ {0} /\ \A i \in 1 .. m : L[i].k \in Nat
  <2>1. L \in Seq(Shapes) /\ L # <<>>
    BY NetShape DEF Parses
  <2>2. m # 0
    BY <2>1, EmptySeq
  <2> QED
    BY <2>2, NetShape
<1>2. /\ h \in 0 .. 2 /\ (h > 0 => m >= h + 1 /\ L[1].k = 5) /\ (h = 2 => L[2].k = 1)
  BY <1>1 DEF HeadUsed, HeadFused, HeadPlain
<1>3. /\ t \in 0 .. 2 /\ (t > 0 => m >= h + t)
      /\ t = 1 => L[m].k = 3
      /\ t = 2 => L[m].k = 1 /\ L[m - 1].k = 1
  <2> HIDE DEF h
  <2> QED
    BY <1>1, <1>2 DEF TailUsed, TailK, h
<1> QED
  BY <1>1, <1>2, <1>3

\* The steps one by one.
StepKinds == {"norm-in", "head", "conv", "conv-gen", "tail11", "tailk", "tail-gen"}

StepsAre(n, steps) ==
  LET L == n.convs
      m == Len(L)
      h == HeadUsed(L)
      t == TailUsed(L)
  IN  /\ steps \in Seq([kind : StepKinds, convs : SUBSET (1 .. m)])
      /\ Len(steps) = m - h - t + 2
      /\ steps[1] = [kind |-> IF h = 0 THEN "norm-in" ELSE "head", convs |-> 1 .. h]
      /\ \A j \in 2 .. Len(steps) - 1 :
           LET i == h + j - 1
           IN  /\ i \in 1 .. m
               /\ steps[j] = [kind |-> IF Conv3(L[i].k, L[i].cin, L[i].cout) THEN "conv" ELSE "conv-gen",
                              convs |-> {i}]
      /\ steps[Len(steps)] =
           [kind |-> CASE t = 2 -> "tail11" [] t = 1 -> "tailk" [] OTHER -> "tail-gen",
            convs |-> m - t + 1 .. m]

LEMMA Three ==
  ASSUME NEW T, NEW a \in T, NEW k \in Nat, NEW s \in [1 .. k -> T], NEW b \in T
  PROVE  LET r == <<a>> \o s \o <<b>> IN
         /\ r \in Seq(T) /\ Len(r) = k + 2 /\ r[1] = a /\ r[k + 2] = b
         /\ \A j \in 1 .. k : r[j + 1] = s[j]
OBVIOUS

LEMMA StepsOfNet ==
  ASSUME NEW n \in Nets, Parses(n)
  PROVE  StepsAre(n, Steps(n.convs)) /\ Len(Steps(n.convs)) \in Nat /\ Len(Steps(n.convs)) >= 2
<1> DEFINE L == n.convs
           m == Len(L)
           h == HeadUsed(L)
           t == TailUsed(L)
           T == [kind : StepKinds, convs : SUBSET (1 .. m)]
           first == [kind |-> IF h = 0 THEN "norm-in" ELSE "head", convs |-> 1 .. h]
           mid(i) == [kind |-> IF Conv3(L[i].k, L[i].cin, L[i].cout) THEN "conv" ELSE "conv-gen",
                      convs |-> {i}]
           final == [kind |-> CASE t = 2 -> "tail11" [] t = 1 -> "tailk" [] OTHER -> "tail-gen",
                    convs |-> m - t + 1 .. m]
           s == [j \in 1 .. m - h - t |-> mid(h + j)]
<1>1. m \in Nat /\ h \in 0 .. 2 /\ t \in 0 .. 2 /\ h + t <= m
  BY UsesFit
<1>2. Steps(L) = <<first>> \o s \o <<final>>
  BY DEF Steps
<1> HIDE DEF m, h, t
<1>3. first \in T /\ final \in T
  <2>1. 1 .. h \subseteq 1 .. m /\ m - t + 1 .. m \subseteq 1 .. m
    BY <1>1
  <2> QED
    BY <2>1 DEF StepKinds
<1>4. \A i \in 1 .. m : mid(i) \in T
  BY DEF StepKinds
<1>5. m - h - t \in Nat /\ \A j \in 1 .. m - h - t : h + j \in 1 .. m
  BY <1>1
<1> HIDE DEF T
<1>6. s \in [1 .. m - h - t -> T]
  <2> HIDE DEF mid
  <2> QED
    BY <1>4, <1>5
<1>7. \A j \in 1 .. m - h - t : s[j] = mid(h + j)
  OBVIOUS
<1> HIDE DEF s, first, final
<1> DEFINE k == m - h - t
<1>8. PICK steps : steps = <<first>> \o s \o <<final>>
  OBVIOUS
<1>9. /\ steps \in Seq(T) /\ Len(steps) = k + 2 /\ steps[1] = first /\ steps[k + 2] = final
      /\ \A j \in 1 .. k : steps[j + 1] = s[j]
  <2> HIDE DEF k
  <2>1. k \in Nat /\ s \in [1 .. k -> T]
    BY <1>5, <1>6 DEF k
  <2> QED
    BY <1>3, <1>8, <2>1, Three
<1>10. ASSUME NEW j \in 2 .. Len(steps) - 1
       PROVE  h + j - 1 \in 1 .. m /\ steps[j] = mid(h + j - 1)
  <2>1. j - 1 \in 1 .. k /\ (j - 1) + 1 = j /\ h + (j - 1) = h + j - 1
    BY <1>1, <1>5, <1>9
  <2>2. steps[j] = s[j - 1] /\ s[j - 1] = mid(h + (j - 1)) /\ h + (j - 1) \in 1 .. m
    <3> HIDE DEF mid
    <3> QED
      BY <1>5, <1>7, <1>9, <2>1
  <2> HIDE DEF mid
  <2> QED
    BY <2>1, <2>2
<1>11. Len(steps) = m - h - t + 2 /\ Len(steps) >= 2 /\ Len(steps) \in Nat
  BY <1>5, <1>9
<1>12. StepsAre(n, steps)
  <2>1. steps[Len(steps)] = final
    BY <1>9, <1>11
  <2>2. \A j \in 2 .. Len(steps) - 1 : h + j - 1 \in 1 .. m /\ steps[j] = mid(h + j - 1)
    BY <1>10
  <2>3. steps[1] = first /\ steps \in Seq(T)
    BY <1>9
  <2> QED
    BY <1>11, <2>1, <2>2, <2>3, Zenon DEF StepsAre, m, h, t, T, first, final
<1> QED
  BY <1>2, <1>8, <1>11, <1>12

Joins(a, b, c) == a \o (b \o c) = (a \o b) \o c

LEMMA OpsJoin == \A a, b, c \in Seq(Ops) : Joins(a, b, c)
BY ConcatAssociative DEF Joins

\* What each step does.
OpsAre(n, steps) ==
  LET f == Through(n)
      m == Len(n.convs)
      h == HeadUsed(n.convs)
  IN  /\ KernelOps(n, steps[1]) = f[h]
      /\ \A j \in 2 .. Len(steps) - 1 : f[h + j - 2] \o KernelOps(n, steps[j]) = f[h + j - 1]
      /\ Plain(n) => f[h + Len(steps) - 2] \o KernelOps(n, steps[Len(steps)]) = Reference(n)

LEMMA OpsOfNet ==
  ASSUME NEW n \in Nets, Parses(n)
  PROVE  OpsAre(n, Steps(n.convs))
<1>0. PICK L, m, h, t, f, steps :
         /\ L = n.convs /\ m = Len(L) /\ h = HeadUsed(L) /\ t = TailUsed(L)
         /\ f = Through(n) /\ steps = Steps(L)
  OBVIOUS
<1>1. /\ m \in Nat \ {0} /\ h \in 0 .. 2 /\ t \in 0 .. 2 /\ h + t <= m
      /\ h > 0 => L[1].k = 5
      /\ h = 2 => L[2].k = 1
      /\ t = 1 => L[m].k = 3
      /\ t = 2 => L[m].k = 1 /\ L[m - 1].k = 1
  BY <1>0, UsesFit
<1>2. /\ f \in [0 .. m -> Seq(Ops)] /\ f[0] = <<"norm">>
      /\ \A i \in 1 .. m : f[i] = f[i - 1] \o Conv(i, L[i].k, L[i].act)
  BY <1>0, ThroughIs
<1>3. StepsAre(n, steps)
  BY <1>0, StepsOfNet
<1>4. \A i \in 1 .. m : /\ L[i].act \in STRING /\ i \in Nat
                        /\ \A k \in Nat : Conv(i, k, L[i].act) \in Seq(Ops)
  <2>1. \A i \in 1 .. m : L[i].act \in STRING /\ i \in Nat
    BY <1>0, NetShape
  <2> QED
    BY <2>1, ConvIs
<1>5. KernelOps(n, steps[1]) = f[h]
  <2>1. steps[1] = [kind |-> IF h = 0 THEN "norm-in" ELSE "head", convs |-> 1 .. h]
    BY <1>0, <1>3, Zenon DEF StepsAre
  <2>2. CASE h = 0
    <3>1. steps[1].kind = "norm-in"
      BY <2>1, <2>2
    <3> QED
      BY <1>2, <2>2, <3>1 DEF KernelOps, KNormIn
  <2>3. CASE h # 0
    <3>1. steps[1].kind = "head" /\ steps[1].convs = 1 .. h
      BY <2>1, <2>3
    <3>2. KernelOps(n, steps[1]) = KHead(n, steps[1])
      BY <3>1 DEF KernelOps
    <3>3. f[1] = <<"norm">> \o Conv(1, 5, Act(n, 1)) /\ f[1] \in Seq(Ops)
      <4>1. 1 \in 1 .. m /\ 1 \in 0 .. m /\ 1 - 1 = 0 /\ L[1].k = 5
        BY <1>1, <2>3
      <4>2. f[1] = f[1 - 1] \o Conv(1, L[1].k, L[1].act)
        BY <1>2, <4>1
      <4> QED
        BY <1>0, <1>2, <4>1, <4>2 DEF Act
    <3>4. CASE h = 1
      <4>1. ~(2 \in steps[1].convs)
        BY <3>1, <3>4
      <4>2. KHead(n, steps[1]) = f[1] \o <<>>
        <5>1. KHead(n, steps[1]) = (<<"norm">> \o Conv(1, 5, Act(n, 1))) \o <<>>
          BY <4>1 DEF KHead
        <5> QED
          BY <3>3, <5>1, Zenon
      <4> QED
        BY <3>2, <3>3, <3>4, <4>2, ConcatEmptySeq
    <3>5. CASE h = 2
      <4>1. 2 \in steps[1].convs
        BY <3>1, <3>5
      <4>2. KHead(n, steps[1]) = f[1] \o Conv(2, 1, Act(n, 2))
        <5>1. KHead(n, steps[1]) = (<<"norm">> \o Conv(1, 5, Act(n, 1))) \o Conv(2, 1, Act(n, 2))
          BY <4>1 DEF KHead
        <5> QED
          BY <3>3, <5>1, Zenon
      <4>3. f[2] = f[1] \o Conv(2, 1, Act(n, 2))
        <5>1. 2 \in 1 .. m /\ 2 - 1 = 1 /\ L[2].k = 1
          BY <1>1, <3>5
        <5>2. f[2] = f[2 - 1] \o Conv(2, L[2].k, L[2].act)
          BY <1>2, <5>1
        <5> QED
          BY <1>0, <5>1, <5>2 DEF Act
      <4> QED
        BY <3>2, <3>5, <4>2, <4>3
    <3> QED
      BY <1>1, <2>3, <3>4, <3>5
  <2> QED
    BY <2>2, <2>3
<1>6. ASSUME NEW j \in 2 .. Len(steps) - 1
      PROVE  f[h + j - 2] \o KernelOps(n, steps[j]) = f[h + j - 1]
  <2>1. PICK i : i = h + j - 1
    OBVIOUS
  <2>2. /\ i \in 1 .. m
        /\ steps[j] = [kind |-> IF Conv3(L[i].k, L[i].cin, L[i].cout) THEN "conv" ELSE "conv-gen",
                       convs |-> {i}]
    BY <1>0, <1>3, <2>1, Zenon DEF StepsAre
  <2>3. h + j - 2 = i - 1
    BY <1>1, <2>1, <2>2
  <2>4. f[i] = f[i - 1] \o Conv(i, L[i].k, L[i].act)
    BY <1>2, <2>2
  <2>5. (CHOOSE x \in steps[j].convs : TRUE) = i
    BY <2>2
  <2>6. KernelOps(n, steps[j]) = Conv(i, L[i].k, L[i].act)
    <3>1. CASE Conv3(L[i].k, L[i].cin, L[i].cout)
      <4>1. steps[j].kind = "conv"
        BY <2>2, <3>1
      <4>2. KernelOps(n, steps[j]) = KConv(n, i)
        BY <2>5, <4>1 DEF KernelOps
      <4>3. L[i].k = 3
        BY <3>1 DEF Conv3
      <4> QED
        BY <1>0, <4>2, <4>3 DEF KConv, Act
    <3>2. CASE ~Conv3(L[i].k, L[i].cin, L[i].cout)
      <4>1. steps[j].kind = "conv-gen"
        BY <2>2, <3>2
      <4>2. KernelOps(n, steps[j]) = KConvGen(n, i)
        BY <2>5, <4>1 DEF KernelOps
      <4> QED
        BY <1>0, <4>2 DEF KConvGen, Act
    <3> QED
      BY <3>1, <3>2
  <2> QED
    BY <2>1, <2>3, <2>4, <2>6
<1>7. ASSUME Plain(n)
      PROVE  f[h + Len(steps) - 2] \o KernelOps(n, steps[Len(steps)]) = Reference(n)
  <2>1. PICK s : s = steps[Len(steps)]
    OBVIOUS
  <2>2. s.kind = (CASE t = 2 -> "tail11" [] t = 1 -> "tailk" [] OTHER -> "tail-gen")
    BY <1>0, <1>3, <2>1 DEF StepsAre
  <2>3. h + Len(steps) - 2 = m - t
    <3>1. Len(steps) = m - h - t + 2
      BY <1>0, <1>3, Zenon DEF StepsAre
    <3> QED
      BY <1>1, <3>1
  <2>4. Reference(n) = f[m] \o Out(n.act)
    BY <1>0, Zenon DEF Reference, Out
  <2>5. Out(n.act) \in Seq(Ops)
    <3>1. <<"shuffle">> \in Seq(Ops) /\ <<"denorm">> \in Seq(Ops)
      BY DEF Ops
    <3>2. Applied(n.act) \in Seq(Ops)
      BY NetShape, ConvIs
    <3> QED
      BY <3>1, <3>2, ConcatProperties DEF Out
  <2>6. L[m].act = "none"
    BY <1>0, <1>7 DEF Plain
  <2>7. CASE t = 0
    <3>1. KernelOps(n, s) = Out(n.act)
      <4>1. s.kind = "tail-gen"
        BY <2>2, <2>7
      <4> QED
        BY <4>1 DEF KernelOps, KTailGen
    <3>2. h + Len(steps) - 2 = m
      BY <1>1, <2>3, <2>7
    <3> QED
      BY <2>1, <2>4, <3>1, <3>2, Zenon
  <2>8. CASE t = 1
    <3>1. KernelOps(n, s) = Conv(m, 3, "none") \o Out(n.act)
      <4>1. s.kind = "tailk"
        BY <2>2, <2>8
      <4> QED
        BY <1>0, <4>1 DEF KernelOps, KTailK
    <3>2. f[m] = f[m - 1] \o Conv(m, 3, "none") /\ f[m - 1] \in Seq(Ops)
      <4>1. m \in 1 .. m /\ m - 1 \in 0 .. m /\ L[m].k = 3
        BY <1>1, <2>8
      <4> QED
        BY <1>2, <2>6, <4>1
    <3>3. Conv(m, 3, "none") \in Seq(Ops)
      <4>1. m \in 1 .. m
        BY <1>1
      <4> QED
        BY <1>4, <2>6, <4>1
    <3>4. f[m - 1] \o (Conv(m, 3, "none") \o Out(n.act)) = f[m] \o Out(n.act)
      <4>1. PICK a, b, c : a = f[m - 1] /\ b = Conv(m, 3, "none") /\ c = Out(n.act)
        OBVIOUS
      <4>2. a \o (b \o c) = (a \o b) \o c
        BY <2>5, <3>2, <3>3, <4>1, OpsJoin, Zenon DEF Joins
      <4> QED
        BY <3>2, <4>1, <4>2, Zenon
    <3> QED
      BY <2>1, <2>3, <2>4, <2>8, <3>1, <3>4
  <2>9. CASE t = 2
    <3>1. KernelOps(n, s) = Conv(m - 1, 1, L[m - 1].act) \o Conv(m, 1, "none") \o Out(n.act)
      <4>1. s.kind = "tail11"
        BY <2>2, <2>9
      <4> QED
        BY <1>0, <4>1 DEF KernelOps, KTail11, Act
    <3>2. m \in 1 .. m /\ m - 1 \in 1 .. m /\ m - 2 \in 0 .. m /\ m - 1 \in 0 .. m /\ (m - 1) - 1 = m - 2
          /\ L[m].k = 1 /\ L[m - 1].k = 1
      BY <1>1, <2>9
    <3>3. f[m] = f[m - 1] \o Conv(m, 1, "none") /\ f[m - 1] = f[m - 2] \o Conv(m - 1, 1, L[m - 1].act)
          /\ f[m - 2] \in Seq(Ops)
      BY <1>2, <2>6, <3>2
    <3>4. PICK a, b, c : a = Conv(m - 1, 1, L[m - 1].act) /\ b = Conv(m, 1, "none") /\ c = Out(n.act)
      OBVIOUS
    <3>5. a \in Seq(Ops) /\ b \in Seq(Ops) /\ c \in Seq(Ops)
      BY <1>4, <2>5, <2>6, <3>2, <3>4
    <3>6. f[m - 2] \o ((a \o b) \o c) = ((f[m - 2] \o a) \o b) \o c
      <4>1. PICK g : g = f[m - 2] /\ g \in Seq(Ops)
        BY <3>3
      <4>2. a \o b \in Seq(Ops)
        BY <3>5, ConcatProperties
      <4>3. g \o ((a \o b) \o c) = (g \o (a \o b)) \o c
        BY <3>5, <4>1, <4>2, OpsJoin, ZenonT(40) DEF Joins
      <4>4. g \o (a \o b) = (g \o a) \o b
        BY <3>5, <4>1, OpsJoin, Zenon DEF Joins
      <4> QED
        BY <4>1, <4>3, <4>4
    <3> QED
      BY <2>1, <2>3, <2>4, <2>9, <3>1, <3>3, <3>4, <3>6
  <2>10. t = 0 \/ t = 1 \/ t = 2
    BY <1>1
  <2> QED
    BY <2>7, <2>8, <2>9, <2>10, Zenon
<1> QED
  BY <1>0, <1>5, <1>6, <1>7, Zenon DEF OpsAre

LEMMA Widest ==
  ASSUME NEW all, all \subseteq 0 .. 256, all # {}
  PROVE  LET w == CHOOSE c \in all : \A o \in all : o <= c
         IN  w \in all /\ \A o \in all : o <= w
<1> DEFINE down == {d \in 0 .. 256 : 256 - d \in all}
<1>1. \A c \in all : c \in 0 .. 256 /\ 256 - c \in 0 .. 256 /\ 256 - (256 - c) = c
  OBVIOUS
<1>2. \A c \in all : 256 - c \in down
  <2> SUFFICES ASSUME NEW c \in all PROVE 256 - c \in down
    OBVIOUS
  <2>1. 256 - c \in 0 .. 256 /\ 256 - (256 - c) = c
    BY <1>1
  <2>2. 256 - (256 - c) \in all
    BY <2>1
  <2> QED
    BY <2>1, <2>2
<1>3. down \subseteq Nat /\ down # {}
  <2>1. down # {}
    BY <1>2
  <2> QED
    BY <2>1
<1>4. PICK d \in down : \A e \in down : d <= e
  <2> HIDE DEF down
  <2> QED
    BY <1>3, Least
<1>5. 256 - d \in all /\ d \in 0 .. 256
  OBVIOUS
<1> HIDE DEF down
<1>6. \A o \in all : o <= 256 - d
  BY <1>1, <1>2, <1>4, <1>5
<1>7. \E c \in all : \A o \in all : o <= c
  BY <1>5, <1>6
<1> QED
  BY <1>7

\* A buffer is as wide as the widest step that writes into it.
LEMMA WidthIs ==
  ASSUME NEW n \in Nets, Parses(n), NEW j \in 1 .. Len(Steps(n.convs)) - 1
  PROVE  LET steps == Steps(n.convs) IN
         /\ Channels(n.convs, steps[j]) \in Nat /\ Written(j) \in {0, 1}
         /\ Channels(n.convs, steps[j]) <= Width(n.convs, steps, Written(j))
         /\ \A b \in {0, 1} : 0 <= Width(n.convs, steps, b)
<1>0. PICK L, m, h, t, steps :
         /\ L = n.convs /\ m = Len(L) /\ h = HeadUsed(L) /\ t = TailUsed(L) /\ steps = Steps(L)
  OBVIOUS
<1>1. m \in Nat \ {0} /\ h \in 0 .. 2 /\ t \in 0 .. 2 /\ h + t <= m
  BY <1>0, UsesFit
<1>2. StepsAre(n, steps) /\ Len(steps) \in Nat
  BY <1>0, StepsOfNet
<1>3. \A i \in 1 .. m : L[i].cout \in 1 .. 256
  <2>1. DOMAIN L = 1 .. m
    BY <1>0, NetShape
  <2>2. \A i \in DOMAIN L : L[i].cout \in 1 .. 256
    BY <1>0 DEF Parses
  <2> QED
    BY <2>1, <2>2
<1>4. ASSUME NEW i \in 1 .. Len(steps) - 1 PROVE Channels(L, steps[i]) \in 0 .. 256
  <2>1. CASE i = 1
    <3>1. steps[1] = [kind |-> IF h = 0 THEN "norm-in" ELSE "head", convs |-> 1 .. h]
      BY <1>0, <1>2, Zenon DEF StepsAre
    <3>2. CASE h = 0
      BY <2>1, <3>1, <3>2 DEF Channels
    <3>3. CASE h # 0
      <4>1. (CHOOSE x \in 1 .. h : \A y \in 1 .. h : y <= x) \in 1 .. h
        <5>1. h \in 1 .. h /\ \A y \in 1 .. h : y <= h
          BY <1>1, <3>3
        <5> QED
          BY <5>1
      <4>2. (CHOOSE x \in 1 .. h : \A y \in 1 .. h : y <= x) \in 1 .. m
        BY <1>1, <4>1
      <4>3. steps[i].kind # "norm-in" /\ steps[i].convs = 1 .. h
        BY <2>1, <3>1, <3>3
      <4>4. Channels(L, steps[i]) = L[CHOOSE x \in 1 .. h : \A y \in 1 .. h : y <= x].cout
        BY <4>3, Zenon DEF Channels
      <4>5. L[CHOOSE x \in 1 .. h : \A y \in 1 .. h : y <= x].cout \in 1 .. 256
        BY <1>3, <4>2, Zenon
      <4> QED
        BY <4>4, <4>5
    <3> QED
      BY <3>2, <3>3
  <2>2. CASE i # 1
    <3>1. i \in 2 .. Len(steps) - 1
      BY <1>2, <2>2
    <3>2. PICK c \in 1 .. m :
             steps[i] = [kind |-> IF Conv3(L[c].k, L[c].cin, L[c].cout) THEN "conv" ELSE "conv-gen",
                         convs |-> {c}]
      BY <1>0, <1>2, <3>1, Zenon DEF StepsAre
    <3>3. steps[i].kind # "norm-in" /\ steps[i].convs = {c}
      BY <3>2
    <3>4. (CHOOSE x \in {c} : \A y \in {c} : y <= x) = c
      OBVIOUS
    <3>5. Channels(L, steps[i]) = L[c].cout
      BY <3>3, <3>4 DEF Channels
    <3> QED
      BY <1>3, <3>5
  <2> QED
    BY <2>1, <2>2
<1>5. \A b \in {0, 1} :
         /\ Width(L, steps, b) \in Nat
         /\ \A i \in 1 .. Len(steps) - 1 : Written(i) = b => Channels(L, steps[i]) <= Width(L, steps, b)
  <2> SUFFICES ASSUME NEW b \in {0, 1}
               PROVE  /\ Width(L, steps, b) \in Nat
                      /\ \A i \in 1 .. Len(steps) - 1 :
                           Written(i) = b => Channels(L, steps[i]) <= Width(L, steps, b)
    OBVIOUS
  <2>1. PICK by : by = {x \in 1 .. Len(steps) - 1 : Written(x) = b}
    OBVIOUS
  <2>2. PICK all : all = {0} \cup {Channels(L, steps[i]) : i \in by}
    OBVIOUS
  <2>3. all \subseteq 0 .. 256
    <3>1. ASSUME NEW c \in all PROVE c \in 0 .. 256
      <4>1. CASE c = 0
        BY <4>1
      <4>2. CASE \E i \in by : c = Channels(L, steps[i])
        <5>1. PICK i \in by : c = Channels(L, steps[i])
          BY <4>2
        <5>2. i \in 1 .. Len(steps) - 1
          BY <2>1
        <5> QED
          BY <1>4, <5>1, <5>2, Zenon
      <4>3. c = 0 \/ \E i \in by : c = Channels(L, steps[i])
        BY <2>2, Zenon
      <4> QED
        BY <4>1, <4>2, <4>3, Zenon
    <3> QED
      BY <3>1
  <2>4. Width(L, steps, b) = CHOOSE c \in all : \A o \in all : o <= c
    BY <2>1, <2>2 DEF Width
  <2>5. Width(L, steps, b) \in all /\ \A o \in all : o <= Width(L, steps, b)
    BY <2>2, <2>3, <2>4, Widest
  <2>6. \A i \in 1 .. Len(steps) - 1 : Written(i) = b => Channels(L, steps[i]) \in all
    BY <2>1, <2>2
  <2>7. Width(L, steps, b) \in Nat
    <3>1. Width(L, steps, b) \in all
      BY <2>5, Zenon
    <3>2. \A c \in all : c \in Nat
      BY <2>3
    <3> QED
      BY <3>1, <3>2, Zenon
  <2>8. \A i \in 1 .. Len(steps) - 1 : Written(i) = b => Channels(L, steps[i]) <= Width(L, steps, b)
    BY <2>5, <2>6, Zenon
  <2> QED
    BY <2>7, <2>8, Zenon
<1>6. Written(j) \in {0, 1}
  BY <1>0, <1>2 DEF Written
<1>7. j \in 1 .. Len(steps) - 1
  BY <1>0
<1>8. Channels(L, steps[j]) \in Nat /\ Channels(L, steps[j]) <= Width(L, steps, Written(j))
  <2>1. Channels(L, steps[j]) \in 0 .. 256
    BY <1>4, <1>7, Zenon
  <2>2. Channels(L, steps[j]) <= Width(L, steps, Written(j))
    BY <1>5, <1>6, <1>7, Zenon
  <2>3. Channels(L, steps[j]) \in Nat
    <3>1. \A c \in 0 .. 256 : c \in Nat
      OBVIOUS
    <3> QED
      BY <2>1, <3>1, Zenon
  <2> QED
    BY <2>2, <2>3, Zenon
<1>9. \A b \in {0, 1} : 0 <= Width(L, steps, b)
  BY <1>5
<1> QED
  BY <1>0, <1>6, <1>8, <1>9, Zenon
-----------------------------------------------------------------------------
(* The kernels of the frames that are launched *)

\* The engine there is was built for the one size that it doubles.
EngineOK ==
  /\ model \in BOOLEAN /\ target \in Targets /\ net \in Nets \cup {NoNet}
  /\ engine # NoEngine =>
       /\ net \in Nets /\ net # NoNet /\ Parses(net)
       /\ \E size \in Sizes : Doubles(size) /\ engine = Compiled(net, size)

LumaOK(luma, size) ==
  \/ luma = <<Interp(size)>> /\ ~(model /\ Doubles(size))
  \/ net # NoNet /\ Doubles(size) /\ (Plain(net) => luma = Reference(net))

\* A kernel, and the one behind it.
KernelOK(k) ==
  /\ k.op = Interp(k.size)
  /\ k.plane = "chroma" => k.step = 0
  /\ k.plane = "luma" /\ k.step = 0 => ~(model /\ Doubles(k.size))
  /\ k.step # 0 => engine # NoEngine /\ Doubles(k.size) /\ k.step <= Len(engine.steps)

Opens(k) == k.plane = "luma" /\ k.step \in {0, 1}
Closes(k) == k.plane = "luma" /\ (k.step = 0 \/ k.step = Len(engine.steps))
Follows(k, l) ==
  /\ k.plane = "chroma" => Opens(l)
  /\ Closes(k) => l.plane = "chroma" /\ l.size = k.size
  /\ k.plane = "luma" /\ ~Closes(k) => l.plane = "luma" /\ l.step = k.step + 1 /\ l.size = k.size

Kernels == [frame : Nat, size : Sizes, step : Nat, op : Interps, plane : {"luma", "chroma"}]
InLine(ks) ==
  /\ ks \in Seq(Kernels)
  /\ \A i \in 1 .. Len(ks) : KernelOK(ks[i])
  /\ \A i \in 1 .. Len(ks) - 1 : Follows(ks[i], ks[i + 1])
  /\ ks # <<>> => ks[Len(ks)].plane = "chroma"

\* What there is in front of the kernel that runs next.
ShownOK ==
  shown.chroma # <<>> => shown.chroma = <<Interp(shown.size)>> /\ LumaOK(shown.luma, shown.size)
HeadOK ==
  /\ (kernels = <<>> \/ Opens(kernels[1])) => ShownOK
  /\ kernels # <<>> /\ kernels[1].plane = "chroma" => LumaOK(shown.luma, kernels[1].size)
  /\ kernels # <<>> /\ kernels[1].step > 1 =>
       work[Read(kernels[1].step)].ops = Through(net)[HeadUsed(net.convs) + kernels[1].step - 2]

WorkOK ==
  /\ work = [b \in {0, 1} |-> work[b]]
  /\ \A b \in {0, 1} : work[b].ch \in Nat /\ work[b].ch <= engine.width[b]

ScaleInv == EngineOK /\ InLine(kernels) /\ HeadOK /\ WorkOK
  /\ taken \in Nat /\ filter \in Interps
  /\ shown = [size |-> shown.size, luma |-> shown.luma, chroma |-> shown.chroma]

LEMMA EngineFacts ==
  ASSUME EngineOK, engine # NoEngine
  PROVE  /\ net \in Nets /\ net # NoNet /\ Parses(net) /\ engine.steps = Steps(net.convs)
         /\ Len(engine.steps) \in Nat /\ Len(engine.steps) >= 2
         /\ OpsAre(net, engine.steps)
         /\ engine.width = [b \in {0, 1} |-> Width(net.convs, engine.steps, b)]
         /\ HeadUsed(net.convs) \in 0 .. 2
         /\ HeadUsed(net.convs) + Len(engine.steps) - 2 \in 0 .. Len(net.convs)
<1>1. net \in Nets /\ net # NoNet /\ Parses(net)
  BY DEF EngineOK
<1>2. PICK size \in Sizes : engine = Compiled(net, size)
  BY DEF EngineOK
<1>3. engine.steps = Steps(net.convs) /\ engine.width = [b \in {0, 1} |-> Width(net.convs, engine.steps, b)]
  BY <1>2 DEF Compiled
<1>4. Len(engine.steps) \in Nat /\ Len(engine.steps) >= 2 /\ StepsAre(net, engine.steps)
  BY <1>1, <1>3, StepsOfNet
<1>5. HeadUsed(net.convs) \in 0 .. 2 /\ HeadUsed(net.convs) + Len(engine.steps) - 2 \in 0 .. Len(net.convs)
  <2>1. PICK m, h, t : m = Len(net.convs) /\ h = HeadUsed(net.convs) /\ t = TailUsed(net.convs)
    OBVIOUS
  <2>2. m \in Nat \ {0} /\ h \in 0 .. 2 /\ t \in 0 .. 2 /\ h + t <= m
    BY <1>1, <2>1, UsesFit
  <2>3. Len(engine.steps) = m - h - t + 2
    BY <1>4, <2>1, Zenon DEF StepsAre
  <2>4. h + Len(engine.steps) - 2 \in 0 .. m
    BY <2>2, <2>3
  <2> QED
    BY <2>1, <2>2, <2>4
<1> QED
  BY <1>1, <1>3, <1>4, <1>5, OpsOfNet

\* Every complete frame was scaled as configured.
LEMMA ScaledIs == ScaleInv => ScaledRight
<1> SUFFICES ASSUME ScaleInv PROVE ScaledRight
  OBVIOUS
<1>1. ASSUME Complete
      PROVE  /\ shown.chroma = <<Interp(shown.size)>> /\ LumaOK(shown.luma, shown.size)
  <2>1. kernels = <<>> \/ Opens(kernels[1])
    BY <1>1 DEF Complete, Opens
  <2>2. shown.chroma # <<>>
    BY <1>1 DEF Complete
  <2> QED
    BY <2>1, <2>2 DEF ScaleInv, HeadOK, ShownOK
<1>2. <<Interp(shown.size)>> = <<"super">> => Shrinks(shown.size)
  <2>1. <<Interp(shown.size)>> = <<"super">> => Interp(shown.size) = "super"
    OBVIOUS
  <2>2. Interp(shown.size) = "super" => Shrinks(shown.size)
    BY DEF Interp
  <2> QED
    BY <2>1, <2>2
<1>3. \A b \in {0, 1} : work[b].ch <= engine.width[b]
  BY DEF ScaleInv, WorkOK
<1> QED
  BY <1>1, <1>2, <1>3, Zenon DEF ScaledRight, LumaOK

LEMMA ScaleInitInv == ScaleInit => ScaleInv
<1> SUFFICES ASSUME ScaleInit PROVE ScaleInv
  OBVIOUS
<1>1. EngineOK
  BY DEF ScaleInit, EngineOK
<1>2. InLine(kernels)
  BY DEF ScaleInit, InLine
<1>3. HeadOK
  BY DEF ScaleInit, HeadOK, ShownOK
<1>4. WorkOK
  BY DEF ScaleInit, WorkOK, Empty, NoEngine
<1>5. taken \in Nat /\ filter \in Interps
  BY DEF ScaleInit, Interps
<1>6. shown = [size |-> shown.size, luma |-> shown.luma, chroma |-> shown.chroma]
  BY DEF ScaleInit
<1> QED
  BY <1>1, <1>2, <1>3, <1>4, <1>5, <1>6 DEF ScaleInv

\* Without its first kernel a stream is still one.
LEMMA RestInLine ==
  ASSUME NEW ks, InLine(ks), ks # <<>>
  PROVE  /\ InLine(Tail(ks))
         /\ ks[1] \in Kernels /\ KernelOK(ks[1])
         /\ Tail(ks) # <<>> => Follows(ks[1], Tail(ks)[1])
         /\ ks[1].plane = "luma" => Tail(ks) # <<>>
<1>1. ks \in Seq(Kernels) /\ Len(ks) \in Nat \ {0}
  BY EmptySeq DEF InLine
<1>2. /\ Tail(ks) \in Seq(Kernels) /\ Len(Tail(ks)) = Len(ks) - 1
      /\ \A i \in 1 .. Len(Tail(ks)) : Tail(ks)[i] = ks[i + 1]
  BY <1>1, HeadTailProperties
<1>3. PICK r, m : r = Tail(ks) /\ m = Len(ks)
  OBVIOUS
<1>4. \A i \in 1 .. Len(r) : KernelOK(r[i])
  <2>1. \A i \in 1 .. Len(r) : i + 1 \in 1 .. m /\ r[i] = ks[i + 1]
    BY <1>1, <1>2, <1>3
  <2> QED
    BY <1>3, <2>1 DEF InLine
<1>5. \A i \in 1 .. Len(r) - 1 : Follows(r[i], r[i + 1])
  <2>1. \A i \in 1 .. Len(r) - 1 : /\ i + 1 \in 1 .. m - 1
                                   /\ r[i] = ks[i + 1] /\ r[i + 1] = ks[(i + 1) + 1]
    BY <1>1, <1>2, <1>3
  <2> QED
    BY <1>3, <2>1 DEF InLine
<1>6. r # <<>> => r[Len(r)].plane = "chroma"
  <2> SUFFICES ASSUME r # <<>> PROVE r[Len(r)].plane = "chroma"
    OBVIOUS
  <2>1. Len(r) # 0
    BY <1>2, <1>3, EmptySeq
  <2>2. r[Len(r)] = ks[m] /\ ks # <<>>
    BY <1>1, <1>2, <1>3, <2>1
  <2> QED
    BY <1>3, <2>2 DEF InLine
<1>7. InLine(r)
  BY <1>2, <1>3, <1>4, <1>5, <1>6 DEF InLine
<1>8. ks[1] \in Kernels /\ KernelOK(ks[1])
  BY <1>1 DEF InLine
<1>9. r # <<>> => Follows(ks[1], r[1])
  <2> SUFFICES ASSUME r # <<>> PROVE Follows(ks[1], r[1])
    OBVIOUS
  <2>1. Len(r) # 0
    BY <1>2, <1>3, EmptySeq
  <2>2. r[1] = ks[1 + 1] /\ 1 \in 1 .. m - 1
    BY <1>1, <1>2, <1>3, <2>1
  <2> QED
    BY <1>3, <2>2 DEF InLine
<1>10. ks[1].plane = "luma" => r # <<>>
  <2> SUFFICES ASSUME r = <<>> PROVE ks[1].plane = "chroma"
    OBVIOUS
  <2>1. m = 1
    <3>1. Len(r) = m - 1 /\ m \in Nat
      BY <1>1, <1>2, <1>3
    <3>2. Len(r) = 0
      <4>1. Len(<<>>) = 0
        OBVIOUS
      <4> QED
        BY <4>1, Zenon
    <3> QED
      BY <3>1, <3>2
  <2> QED
    BY <1>3, <2>1 DEF InLine
<1> QED
  BY <1>3, <1>7, <1>8, <1>9, <1>10

\* What concerns the stream alone stays as it is while the rest does.
StreamStays == /\ target' = target /\ net' = net /\ filter' = filter
               /\ model' = model /\ engine' = engine

LEMMA InLineStays ==
  ASSUME StreamStays, InLine(kernels')
  PROVE  InLine(kernels)'
BY DEF StreamStays, InLine, KernelOK, Follows, Opens, Closes, Interp, Shrinks, Doubles

LEMMA EngineStays ==
  ASSUME StreamStays, EngineOK
  PROVE  EngineOK'
BY DEF StreamStays, EngineOK, Doubles

LEMMA LumaStays ==
  ASSUME StreamStays, NEW luma, NEW size, LumaOK(luma, size)
  PROVE  LumaOK(luma, size)'
BY DEF StreamStays, LumaOK, Doubles, Interp, Shrinks

\* The kernel in front runs.
LEMMA RunInv ==
  ASSUME ScaleInv, RunsKernel
  PROVE  ScaleInv'
<1>0. PICK kern, j, n, rest :
         kern = kernels[1] /\ j = kern.step /\ n = Len(engine.steps) /\ rest = Tail(kernels)
  OBVIOUS
<1>1. kernels # <<>> /\ kernels' = rest /\ StreamStays /\ taken' = taken
  BY <1>0 DEF RunsKernel, StreamStays
<1>2. /\ InLine(rest) /\ kern \in Kernels /\ KernelOK(kern)
      /\ rest # <<>> => Follows(kern, rest[1])
      /\ kern.plane = "luma" => rest # <<>>
  BY <1>0, <1>1, RestInLine DEF ScaleInv
<1>3. EngineOK' /\ InLine(kernels)'
  <2>1. InLine(kernels')
    BY <1>1, <1>2
  <2> QED
    BY <1>1, <2>1, EngineStays, InLineStays DEF ScaleInv
<1>4. kern.plane \in {"luma", "chroma"} /\ j \in Nat /\ kern.size \in Sizes
  BY <1>0, <1>2 DEF Kernels
<1>5. \A size : Interp(size)' = Interp(size) 
  BY <1>1 DEF StreamStays, Interp, Shrinks
<1>6. rest # <<>> => rest[1] \in Kernels
  <2> SUFFICES ASSUME rest # <<>> PROVE rest[1] \in Kernels
    OBVIOUS
  <2>1. rest \in Seq(Kernels) /\ Len(rest) \in Nat \ {0}
    BY <1>2, EmptySeq DEF InLine
  <2> QED
    BY <2>1
<1>7. /\ taken' \in Nat /\ filter' \in Interps
  BY <1>1 DEF ScaleInv, StreamStays
<1>8. CASE kern.plane = "chroma"
  <2>1. shown' = [shown EXCEPT !.size = kern.size, !.chroma = <<kern.op>>] /\ work' = work
    BY <1>0, <1>8 DEF RunsKernel
  <2>2. shown' = [size |-> kern.size, luma |-> shown.luma, chroma |-> <<kern.op>>]
    BY <2>1 DEF ScaleInv
  <2>3. LumaOK(shown.luma, kern.size) /\ kern.op = Interp(kern.size)
    BY <1>0, <1>1, <1>2, <1>8 DEF ScaleInv, HeadOK, KernelOK
  <2>4. rest = <<>> \/ (Opens(rest[1]) /\ rest[1].plane = "luma" /\ ~(rest[1].step > 1))
    BY <1>2, <1>8 DEF Follows, Opens
  <2>5. ShownOK'
    <3>1. PICK l, z : l = shown.luma /\ z = kern.size
      OBVIOUS
    <3>2. LumaOK(l, z)' /\ Interp(z)' = kern.op
      BY <1>1, <1>5, <2>3, <3>1, LumaStays
    <3>3. shown'.luma = l /\ shown'.size = z /\ shown'.chroma = <<kern.op>>
      BY <2>2, <3>1
    <3> QED
      BY <3>2, <3>3 DEF ShownOK
  <2>6. HeadOK'
    BY <1>1, <2>4, <2>5 DEF HeadOK, Opens
  <2>7. WorkOK'
    BY <1>1, <2>1 DEF ScaleInv, WorkOK, StreamStays
  <2> QED
    BY <1>3, <1>7, <2>2, <2>6, <2>7 DEF ScaleInv
<1>9. CASE kern.plane = "luma" /\ Closes(kern)
  <2> DEFINE out == IF j = 0 THEN <<kern.op>> ELSE Input(j) \o KernelOps(net, engine.steps[j])
  <2>1. shown' = [shown EXCEPT !.luma = out] /\ work' = work
    <3>1. kern.plane # "chroma"
      BY <1>9
    <3>2. CASE j = 0
      BY <1>0, <3>1, <3>2 DEF RunsKernel
    <3>3. CASE j # 0
      <4>1. j = Len(engine.steps)
        BY <1>0, <1>9, <3>3 DEF Closes
      <4> QED
        BY <1>0, <3>1, <3>3, <4>1 DEF RunsKernel
    <3> QED
      BY <3>2, <3>3
  <2> HIDE DEF out
  <2>2. shown' = [size |-> shown.size, luma |-> out, chroma |-> shown.chroma]
    BY <2>1 DEF ScaleInv
  <2>3. LumaOK(out, kern.size)
    <3>1. CASE j = 0
      BY <1>0, <1>2, <1>9, <3>1 DEF LumaOK, KernelOK, out
    <3>2. CASE j # 0
      <4>1. engine # NoEngine /\ Doubles(kern.size) /\ j = n
        BY <1>0, <1>2, <1>9, <3>2 DEF KernelOK, Closes
      <4>2. /\ net # NoNet /\ OpsAre(net, engine.steps) /\ n \in Nat /\ n >= 2
        BY <1>0, <4>1, EngineFacts DEF ScaleInv
      <4>3. Input(j) = Through(net)[HeadUsed(net.convs) + n - 2]
        <5>1. work[Read(j)].ops = Through(net)[HeadUsed(net.convs) + j - 2]
          BY <1>0, <1>1, <4>1, <4>2 DEF ScaleInv, HeadOK
        <5> QED
          BY <4>1, <4>2, <5>1 DEF Input
      <4>4. Plain(net) => out = Reference(net)
        BY <1>0, <3>2, <4>1, <4>2, <4>3, Zenon DEF out, OpsAre
      <4> QED
        BY <4>1, <4>2, <4>4 DEF LumaOK
    <3> QED
      BY <3>1, <3>2
  <2>4. rest # <<>> /\ rest[1].plane = "chroma" /\ rest[1].size = kern.size
    BY <1>2, <1>9 DEF Follows
  <2>5. rest[1].step = 0
    <3>1. rest \in Seq(Kernels) /\ Len(rest) \in Nat \ {0}
      BY <1>2, <2>4, EmptySeq DEF InLine
    <3>2. KernelOK(rest[1])
      BY <1>2, <3>1 DEF InLine
    <3> QED
      BY <2>4, <3>2 DEF KernelOK
  <2>6. PICK l, z : l = out /\ z = kern.size
    OBVIOUS
  <2>7. HeadOK'
    <3>1. ~(kernels = <<>> \/ Opens(kernels[1]))'
      BY <1>1, <2>4 DEF Opens
    <3>2. ~(kernels[1].step > 1)'
      BY <1>1, <2>5
    <3>3. LumaOK(l, z)'
      BY <1>1, <2>3, <2>6, LumaStays
    <3>4. shown'.luma = l /\ kernels'[1].size = z
      BY <1>1, <2>2, <2>4, <2>6
    <3> QED
      BY <3>1, <3>2, <3>3, <3>4 DEF HeadOK
  <2>8. WorkOK'
    BY <1>1, <2>1 DEF ScaleInv, WorkOK, StreamStays
  <2> QED
    BY <1>3, <1>7, <2>2, <2>7, <2>8 DEF ScaleInv
<1>10. CASE kern.plane = "luma" /\ ~Closes(kern)
  <2> DEFINE s == engine.steps[j]
             out == Input(j) \o KernelOps(net, s)
             ch == Channels(net.convs, s)
  <2>1. /\ j # 0 /\ j # n /\ engine # NoEngine
    BY <1>0, <1>2, <1>10 DEF Closes, KernelOK
  <2>2. /\ work' = [work EXCEPT ![Written(j)] = [ops |-> out, ch |-> ch]] /\ shown' = shown
    BY <1>0, <1>10, <2>1 DEF RunsKernel
  <2>3. /\ net \in Nets /\ Parses(net) /\ engine.steps = Steps(net.convs)
        /\ n \in Nat /\ n >= 2 /\ OpsAre(net, engine.steps)
        /\ engine.width = [b \in {0, 1} |-> Width(net.convs, engine.steps, b)]
        /\ HeadUsed(net.convs) \in 0 .. 2
        /\ HeadUsed(net.convs) + n - 2 \in 0 .. Len(net.convs)
    BY <1>0, <2>1, EngineFacts DEF ScaleInv
  <2>4. j \in 1 .. n - 1
    <3>1. j <= n
      BY <1>0, <1>2, <2>1 DEF KernelOK
    <3> QED
      BY <1>4, <2>1, <2>3, <3>1
  <2>5. ch \in Nat /\ Written(j) \in {0, 1} /\ ch <= engine.width[Written(j)]
    <3>1. j \in 1 .. Len(Steps(net.convs)) - 1
      BY <1>0, <2>3, <2>4
    <3>2. /\ Channels(net.convs, engine.steps[j]) \in Nat /\ Written(j) \in {0, 1}
          /\ Channels(net.convs, engine.steps[j]) <= Width(net.convs, engine.steps, Written(j))
      BY <2>3, <3>1, WidthIs, Zenon
    <3>3. engine.width[Written(j)] = Width(net.convs, engine.steps, Written(j))
      BY <2>3, <3>2
    <3> QED
      BY <3>2, <3>3, Zenon
  <2>6. out = Through(net)[HeadUsed(net.convs) + j - 1]
    <3>1. CASE j = 1
      <4>1. KernelOps(net, s) = Through(net)[HeadUsed(net.convs)]
        BY <2>3, <3>1, Zenon DEF OpsAre
      <4>2. Through(net)[HeadUsed(net.convs)] \in Seq(Ops)
        <5>1. HeadUsed(net.convs) \in 0 .. Len(net.convs)
          <6>1. Len(net.convs) \in Nat
            BY <2>3, NetShape
          <6> QED
            BY <2>3, <6>1
        <5> QED
          BY <2>3, <5>1, ThroughIs
      <4>3. out = <<>> \o KernelOps(net, s)
        BY <3>1 DEF Input
      <4>4. HeadUsed(net.convs) + j - 1 = HeadUsed(net.convs)
        BY <2>3, <3>1
      <4> HIDE DEF out, s
      <4> QED
        BY <4>1, <4>2, <4>3, <4>4, ConcatEmptySeq
    <3>2. CASE j # 1
      <4>1. j > 1 /\ j \in 2 .. n - 1
        BY <2>4, <3>2
      <4>2. Input(j) = Through(net)[HeadUsed(net.convs) + j - 2]
        BY <1>0, <1>1, <3>2, <4>1 DEF ScaleInv, HeadOK, Input
      <4> QED
        BY <1>0, <2>3, <4>1, <4>2, Zenon DEF OpsAre
    <3> QED
      BY <3>1, <3>2
  <2> HIDE DEF out, ch
  <2>7. rest # <<>> /\ rest[1].plane = "luma" /\ rest[1].step = j + 1
    BY <1>0, <1>2, <1>10 DEF Follows
  <2>8. work'[Written(j)].ops = out
    BY <2>2, <2>5 DEF ScaleInv, WorkOK
  <2>9. HeadOK'
    <3>1. ~(kernels = <<>> \/ Opens(kernels[1]))'
      BY <1>1, <2>4, <2>7 DEF Opens
    <3>2. (kernels[1].plane = "luma" /\ kernels[1].step = j + 1)'
      BY <1>1, <2>7
    <3>3. Read(j + 1) = Written(j) /\ HeadUsed(net.convs) + (j + 1) - 2 = HeadUsed(net.convs) + j - 1
      BY <2>3, <2>4 DEF Read, Written
    <3>4. work'[Read(j + 1)].ops = Through(net')[HeadUsed(net'.convs) + (j + 1) - 2]
      BY <1>1, <2>6, <2>8, <3>3 DEF StreamStays
    <3> QED
      BY <3>1, <3>2, <3>4 DEF HeadOK
  <2>10. WorkOK'
    <3>1. engine' = engine
      BY <1>1 DEF StreamStays
    <3>2. work' = [b \in {0, 1} |-> work'[b]]
      BY <2>2, <2>5 DEF ScaleInv, WorkOK
    <3>3. ASSUME NEW b \in {0, 1} PROVE work'[b].ch \in Nat /\ work'[b].ch <= engine.width[b]
      <4>1. CASE b = Written(j)
        <5>1. work'[b].ch = ch
          BY <2>2, <2>5, <4>1 DEF ScaleInv, WorkOK
        <5> QED
          BY <2>5, <4>1, <5>1
      <4>2. CASE b # Written(j)
        <5>1. work'[b] = work[b]
          BY <2>2, <2>5, <4>2 DEF ScaleInv, WorkOK
        <5> QED
          BY <5>1 DEF ScaleInv, WorkOK
      <4> QED
        BY <4>1, <4>2
    <3> QED
      BY <3>1, <3>2, <3>3 DEF WorkOK
  <2> QED
    BY <1>3, <1>7, <2>2, <2>9, <2>10 DEF ScaleInv
<1> QED
  BY <1>4, <1>8, <1>9, <1>10

-----------------------------------------------------------------------------
(* A frame is launched *)

Whole(fr, size) == <<KernelOf(fr, size, 0, "luma")>> \o <<KernelOf(fr, size, 0, "chroma")>>
InSteps(fr, size) ==
  [j \in 1 .. Len(engine.steps) |-> KernelOf(fr, size, j, "luma")] \o <<KernelOf(fr, size, 0, "chroma")>>

\* A stream of its own that can follow every other one.
Group(ks) == InLine(ks) /\ ks # <<>> /\ Opens(ks[1])

\* What is launched when the net does not scale, and when it does.
WholeIs(g, fr, size) ==
  g = Whole(fr, size) /\ filter \in Interps /\ ~(model /\ Doubles(size)) => Group(g)
InStepsIs(g, fr, size) ==
  /\ g = InSteps(fr, size) /\ filter \in Interps
  /\ EngineOK /\ engine # NoEngine /\ Doubles(size)
  => Group(g)

LEMMA InterpIs ==
  ASSUME filter \in Interps, NEW size
  PROVE  Interp(size) \in Interps
BY DEF Interp, Interps

LEMMA TwoOf ==
  ASSUME NEW T, NEW a \in T, NEW b \in T
  PROVE  /\ <<a>> \o <<b>> \in Seq(T) /\ Len(<<a>> \o <<b>>) = 2
         /\ (<<a>> \o <<b>>)[1] = a /\ (<<a>> \o <<b>>)[2] = b
OBVIOUS

LEMMA WithLast ==
  ASSUME NEW T, NEW k \in Nat, NEW s \in [1 .. k -> T], NEW b \in T
  PROVE  /\ s \o <<b>> \in Seq(T) /\ Len(s \o <<b>>) = k + 1 /\ (s \o <<b>>)[k + 1] = b
         /\ \A j \in 1 .. k : (s \o <<b>>)[j] = s[j]
OBVIOUS

GroupsAre == \A g : \A size \in Sizes, fr \in Nat : WholeIs(g, fr, size) /\ InStepsIs(g, fr, size)

LEMMA GroupsNow == GroupsAre
<1> SUFFICES ASSUME NEW g, NEW size \in Sizes, NEW fr \in Nat
             PROVE  WholeIs(g, fr, size) /\ InStepsIs(g, fr, size)
  BY DEF GroupsAre
<1> DEFINE c == KernelOf(fr, size, 0, "chroma")
           l(j) == KernelOf(fr, size, j, "luma")
<1>1. ASSUME filter \in Interps PROVE c \in Kernels /\ \A j \in Nat : l(j) \in Kernels
  <2>1. Interp(size) \in Interps
    BY <1>1, InterpIs
  <2> QED
    BY <2>1 DEF Kernels, KernelOf
<1>2. WholeIs(g, fr, size)
  <2> SUFFICES ASSUME g = Whole(fr, size), filter \in Interps, ~(model /\ Doubles(size))
               PROVE  Group(g)
    BY DEF WholeIs
  <2>1. c \in Kernels /\ l(0) \in Kernels
    BY <1>1
  <2>3. g \in Seq(Kernels) /\ Len(g) = 2 /\ g[1] = l(0) /\ g[2] = c
    <3> HIDE DEF c, l
    <3> QED
      BY <2>1, TwoOf DEF Whole, c, l
  <2>4. KernelOK(l(0)) /\ KernelOK(c) /\ Follows(l(0), c) /\ Opens(l(0)) /\ c.plane = "chroma"
    BY DEF KernelOK, Follows, Opens, Closes, KernelOf
  <2> HIDE DEF c, l
  <2>5. InLine(g)
    <3>1. \A i \in 1 .. Len(g) : KernelOK(g[i])
      BY <2>3, <2>4
    <3>2. \A i \in 1 .. Len(g) - 1 : Follows(g[i], g[i + 1])
      BY <2>3, <2>4
    <3> QED
      BY <2>3, <2>4, <3>1, <3>2 DEF InLine
  <2>6. g # <<>>
    <3>1. Len(g) # 0
      BY <2>3
    <3> QED
      BY <2>3, <3>1, EmptySeq
  <2> QED
    BY <2>3, <2>4, <2>5, <2>6 DEF Group
<1>3. InStepsIs(g, fr, size)
  <2> SUFFICES ASSUME g = InSteps(fr, size), EngineOK, filter \in Interps,
                      engine # NoEngine, Doubles(size)
               PROVE  Group(g)
    BY DEF InStepsIs
  <2>1. PICK n : n = Len(engine.steps)
    OBVIOUS
  <2>2. n \in Nat /\ n >= 2
    BY <2>1, EngineFacts
  <2>4. c \in Kernels /\ \A j \in 1 .. n : l(j) \in Kernels
    BY <1>1, <2>2
  <2>5. PICK s : s = [j \in 1 .. n |-> l(j)]
    OBVIOUS
  <2>6. s \in [1 .. n -> Kernels] /\ (\A j \in 1 .. n : s[j] = l(j)) /\ g = s \o <<c>>
    <3>1. g = s \o <<c>>
      BY <2>1, <2>5 DEF InSteps
    <3> HIDE DEF c, l
    <3> QED
      BY <2>4, <2>5, <3>1
  <2>7. /\ g \in Seq(Kernels) /\ Len(g) = n + 1 /\ g[n + 1] = c
        /\ \A j \in 1 .. n : g[j] = l(j)
    <3> HIDE DEF c, l
    <3> QED
      BY <2>2, <2>4, <2>6, WithLast
  <2>8. \A j \in 1 .. n : KernelOK(l(j))
    BY <2>1, <2>2 DEF KernelOK, KernelOf
  <2>9. KernelOK(c) /\ c.plane = "chroma"
    BY DEF KernelOK, KernelOf
  <2>10. \A j \in 1 .. n - 1 : Follows(l(j), l(j + 1))
    BY <2>1, <2>2 DEF Follows, Closes, KernelOf
  <2>11. Follows(l(n), c) /\ Opens(l(1))
    BY <2>1, <2>2 DEF Follows, Closes, KernelOf, Opens
  <2> HIDE DEF c, l
  <2>12. InLine(g)
    <3>1. \A i \in 1 .. Len(g) : KernelOK(g[i])
      BY <2>2, <2>7, <2>8, <2>9
    <3>2. ASSUME NEW i \in 1 .. Len(g) - 1 PROVE Follows(g[i], g[i + 1])
      <4>1. CASE i = n
        BY <2>2, <2>7, <2>11, <4>1
      <4>2. CASE i # n
        <5>1. i \in 1 .. n - 1 /\ i \in 1 .. n /\ i + 1 \in 1 .. n
          BY <2>2, <2>7, <4>2
        <5> QED
          BY <2>7, <2>10, <5>1
      <4> QED
        BY <4>1, <4>2
    <3>3. g[Len(g)] = c
      BY <2>2, <2>7
    <3> QED
      BY <2>7, <2>9, <3>1, <3>2, <3>3 DEF InLine
  <2>13. g # <<>> /\ g[1] = l(1)
    <3>1. Len(g) # 0 /\ 1 \in 1 .. n
      BY <2>2, <2>7
    <3> QED
      BY <2>7, <3>1
  <2> QED
    BY <2>11, <2>12, <2>13 DEF Group
<1> QED
  BY <1>2, <1>3

LEMMA GroupsLater == GroupsAre'
BY GroupsNow, PTL

\* A group behind a stream.
LEMMA Appended ==
  ASSUME NEW ks, NEW g, InLine(ks), Group(g)
  PROVE  InLine(ks \o g) /\ (ks # <<>> => (ks \o g)[1] = ks[1]) /\ ks \o g # <<>>
<1>1. /\ ks \in Seq(Kernels) /\ g \in Seq(Kernels) /\ Len(ks) \in Nat /\ Len(g) \in Nat \ {0}
      /\ ks # <<>> => Len(ks) # 0
  BY EmptySeq DEF InLine, Group
<1>2. PICK r, m, n : r = ks \o g /\ m = Len(ks) /\ n = Len(g)
  OBVIOUS
<1>3. /\ r \in Seq(Kernels) /\ Len(r) = m + n
      /\ \A i \in 1 .. m : r[i] = ks[i]
      /\ \A i \in 1 .. n : r[m + i] = g[i]
  BY <1>1, <1>2
<1>4. ASSUME NEW i \in 1 .. m + n PROVE i \in 1 .. m \/ \E x \in 1 .. n : i = m + x
  <2>1. CASE i <= m
    BY <2>1, <1>1, <1>2
  <2>2. CASE i > m
    <3>1. i - m \in 1 .. n /\ i = m + (i - m)
      BY <2>2, <1>1, <1>2
    <3> QED
      BY <3>1
  <2> QED
    BY <2>1, <2>2, <1>1, <1>2
<1>5. \A i \in 1 .. Len(r) : KernelOK(r[i])
  <2> SUFFICES ASSUME NEW i \in 1 .. m + n PROVE KernelOK(r[i])
    BY <1>3
  <2>1. CASE i \in 1 .. m
    BY <1>2, <1>3, <2>1 DEF InLine
  <2>2. CASE \E x \in 1 .. n : i = m + x
    <3>1. PICK x \in 1 .. n : i = m + x
      BY <2>2
    <3>2. r[i] = g[x] /\ KernelOK(g[x])
      BY <1>2, <1>3, <3>1 DEF InLine, Group
    <3> QED
      BY <3>2
  <2> QED
    BY <1>4, <2>1, <2>2
<1>6. \A i \in 1 .. Len(r) - 1 : Follows(r[i], r[i + 1])
  <2> SUFFICES ASSUME NEW i \in 1 .. Len(r) - 1 PROVE Follows(r[i], r[i + 1])
    OBVIOUS
  <2>0. i \in 1 .. m + n - 1
    <3>0. Len(r) = m + n
      BY <1>3, Zenon
    <3>1. Len(r) - 1 = m + n - 1
      BY <1>1, <1>2, <3>0
    <3> QED
      BY <3>1, Zenon
  <2>1. CASE i < m
    <3>1. i \in 1 .. m - 1 /\ i \in 1 .. m /\ i + 1 \in 1 .. m
      BY <1>1, <1>2, <2>0, <2>1
    <3>2. r[i] = ks[i] /\ r[i + 1] = ks[i + 1]
      BY <1>3, <3>1
    <3>3. Follows(ks[i], ks[i + 1])
      BY <1>2, <3>1 DEF InLine
    <3> QED
      BY <3>2, <3>3
  <2>2. CASE i = m
    <3>1. r[i] = ks[m] /\ r[i + 1] = g[1] /\ ks # <<>>
      BY <1>1, <1>2, <1>3, <2>2
    <3>2. ks[m].plane = "chroma" /\ Opens(g[1])
      BY <1>2, <3>1 DEF InLine, Group
    <3> QED
      BY <3>1, <3>2 DEF Follows, Closes
  <2>3. CASE i > m
    <3>1. PICK x : x = i - m
      OBVIOUS
    <3>2. x \in 1 .. n - 1 /\ x \in 1 .. n /\ x + 1 \in 1 .. n /\ i = m + x /\ i + 1 = m + (x + 1)
      BY <1>1, <1>2, <2>0, <2>3, <3>1
    <3>3. r[i] = g[x] /\ r[i + 1] = g[x + 1]
      BY <1>3, <3>2
    <3>4. Follows(g[x], g[x + 1])
      BY <1>2, <3>2 DEF InLine, Group
    <3> QED
      BY <3>3, <3>4
  <2> QED
    BY <1>1, <1>2, <2>0, <2>1, <2>2, <2>3
<1>7. Len(r) # 0 /\ r[Len(r)] = g[n] /\ g[n].plane = "chroma"
  <2>1. Len(r) # 0 /\ r[Len(r)] = g[n]
    BY <1>1, <1>2, <1>3
  <2> QED
    BY <1>2, <2>1 DEF InLine, Group
<1>8. ks # <<>> => r[1] = ks[1]
  BY <1>1, <1>2, <1>3
<1>9. InLine(r) /\ r # <<>>
  BY <1>3, <1>5, <1>6, <1>7 DEF InLine
<1> QED
  BY <1>2, <1>8, <1>9

LEMMA LaunchInv ==
  ASSUME ScaleInv, NEW size \in Sizes, Scale(size)
  PROVE  ScaleInv'
<1> DEFINE c == KernelOf(taken + 1, size, 0, "chroma")
           l(j) == KernelOf(taken + 1, size, j, "luma")
<1>1. PICK fr, new :
        /\ fr = taken + 1
        /\ new = IF model /\ Doubles(size) /\ engine' # NoEngine
                 THEN [j \in 1 .. Len(engine'.steps) |-> l(j)]
                 ELSE <<l(0)>>
  OBVIOUS
<1>2. /\ kernels' = kernels \o (new \o <<c>>)
      /\ taken' = taken + 1 /\ target' = target /\ net' = net /\ filter' = filter
      /\ work' = work /\ shown' = shown
      /\ IF model /\ Doubles(size) THEN Ensure(size) ELSE model' = model /\ engine' = engine
  <2>1. Scale(size) => kernels' = kernels \o (new \o <<c>>)
    BY <1>1, Zenon DEF Scale
  <2> QED
    BY <2>1 DEF Scale
<1>3. /\ EngineOK /\ InLine(kernels) /\ HeadOK /\ WorkOK /\ taken \in Nat /\ filter \in Interps
      /\ shown = [size |-> shown.size, luma |-> shown.luma, chroma |-> shown.chroma]
  BY DEF ScaleInv
<1>4. fr \in Nat /\ taken' \in Nat /\ filter' \in Interps
  BY <1>1, <1>2, <1>3
<1>5. /\ shown' = [size |-> shown'.size, luma |-> shown'.luma, chroma |-> shown'.chroma]
  BY <1>2, <1>3
<1>6. size # <<0, 0>>
  BY ScalerAssumption
<1> HIDE DEF c, l
<1>7. CASE ~(model /\ Doubles(size)) \/ Usable(size)
  <2>1. StreamStays
    <3>1. model' = model /\ engine' = engine
      <4>1. CASE ~(model /\ Doubles(size))
        BY <1>2, <4>1
      <4>2. CASE model /\ Doubles(size) /\ Usable(size)
        BY <1>2, <4>2 DEF Ensure
      <4> QED
        BY <1>7, <4>1, <4>2
    <3> QED
      BY <1>2, <3>1 DEF StreamStays
  <2>2. PICK g : g = new \o <<c>>
    OBVIOUS
  <2>3. Group(g)
    <3>1. CASE ~(model /\ Doubles(size))
      <4>1. g = Whole(fr, size)
        BY <1>1, <2>2, <3>1, Zenon DEF Whole, c, l
      <4> QED
        BY <1>3, <1>4, <3>1, <4>1, GroupsNow, Zenon DEF GroupsAre, WholeIs
    <3>2. CASE model /\ Doubles(size)
      <4>1. engine # NoEngine /\ engine' = engine
        BY <1>7, <2>1, <3>2 DEF Usable, StreamStays
      <4>2. g = InSteps(fr, size)
        BY <1>1, <2>2, <3>2, <4>1, Zenon DEF InSteps, c, l
      <4> QED
        BY <1>3, <1>4, <3>2, <4>1, <4>2, GroupsNow, Zenon DEF GroupsAre, InStepsIs
    <3> QED
      BY <3>1, <3>2
  <2>4. kernels' = kernels \o g
    BY <1>2, <2>2, Zenon
  <2>5. /\ InLine(kernels') /\ kernels' # <<>> /\ (kernels # <<>> => kernels'[1] = kernels[1])
        /\ kernels = <<>> => Opens(kernels'[1])
    <3>1. InLine(kernels \o g) /\ kernels \o g # <<>> /\ (kernels # <<>> => (kernels \o g)[1] = kernels[1])
      BY <1>3, <2>3, Appended
    <3>2. kernels = <<>> => kernels \o g = g
      BY <2>3, ConcatEmptySeq DEF Group, InLine
    <3> QED
      BY <2>3, <2>4, <3>1, <3>2 DEF Group
  <2>6. InLine(kernels)' /\ EngineOK'
    BY <1>3, <2>1, <2>5, InLineStays, EngineStays
  <2>7. ShownOK => ShownOK'
    <3>1. PICK u, z : u = shown.luma /\ z = shown.size
      OBVIOUS
    <3>2. LumaOK(u, z) => LumaOK(u, z)'
      BY <2>1, LumaStays
    <3>3. Interp(z)' = Interp(z)
      BY <2>1 DEF StreamStays, Interp, Shrinks
    <3> QED
      BY <1>2, <3>1, <3>2, <3>3 DEF ShownOK
  <2>8. HeadOK'
    <3>1. CASE kernels = <<>>
      <4>1. Opens(kernels[1])' /\ ShownOK'
        BY <1>3, <2>5, <2>7, <3>1 DEF HeadOK, Opens
      <4> QED
        BY <4>1 DEF HeadOK, Opens
    <3>2. CASE kernels # <<>>
      <4>1. kernels'[1] = kernels[1] /\ kernels' # <<>>
        BY <2>5, <3>2
      <4>2. Opens(kernels[1])' => ShownOK'
        BY <1>3, <2>7, <4>1 DEF HeadOK, Opens
      <4>3. kernels[1].plane = "chroma" => LumaOK(shown.luma, kernels[1].size)'
        <5>1. PICK u, z : u = shown.luma /\ z = kernels[1].size
          OBVIOUS
        <5>2. LumaOK(u, z) => LumaOK(u, z)'
          BY <2>1, LumaStays
        <5>3. kernels[1].plane = "chroma" => LumaOK(u, z)
          BY <1>3, <3>2, <5>1 DEF HeadOK
        <5>4. shown'.luma = u /\ kernels'[1].size = z
          BY <1>2, <4>1, <5>1
        <5> QED
          BY <5>2, <5>3, <5>4 DEF LumaOK, Doubles, Interp, Shrinks
      <4>4. kernels[1].step > 1 =>
              work[Read(kernels[1].step)].ops = Through(net)[HeadUsed(net.convs) + kernels[1].step - 2]
        BY <1>3, <3>2, Zenon DEF HeadOK
      <4> QED
        BY <1>2, <4>1, <4>2, <4>3, <4>4 DEF HeadOK
    <3> QED
      BY <3>1, <3>2
  <2>9. WorkOK'
    BY <1>2, <1>3, <2>1 DEF WorkOK, StreamStays
  <2> QED
    BY <1>4, <1>5, <2>6, <2>8, <2>9 DEF ScaleInv
<1>8. CASE model /\ Doubles(size) /\ ~Usable(size)
  <2>1. engine = NoEngine /\ kernels = <<>>
    <3>1. kernels = <<>>
      BY <1>2, <1>8 DEF Ensure
    <3>2. ASSUME engine # NoEngine PROVE FALSE
      <4>1. PICK s \in Sizes : Doubles(s) /\ engine = Compiled(net, s)
        BY <1>3, <3>2 DEF EngineOK
      <4>2. s = size
        BY <1>8, <4>1, ScalerAssumption DEF Doubles
      <4>3. engine.size = size
        BY <4>1, <4>2 DEF Compiled
      <4> QED
        BY <1>8, <3>2, <4>3 DEF Usable
    <3> QED
      BY <3>1, <3>2
  <2>2. (\A h : \A z \in Sizes, f \in Nat : WholeIs(h, f, z) /\ InStepsIs(h, f, z))'
    BY GroupsLater DEF GroupsAre
  <2>3. ShownOK
    BY <1>3, <2>1 DEF HeadOK
  <2>4. \A b \in {0, 1} : work[b].ch \in Nat /\ work[b].ch <= 0
    BY <1>3, <2>1 DEF WorkOK, NoEngine
  <2>5. kernels' = new \o <<c>>
    <3>1. new \in Seq({new[i] : i \in DOMAIN new} \cup {c}) /\ <<c>> \in Seq({new[i] : i \in DOMAIN new} \cup {c})
      <4>1. CASE new = <<l(0)>>
        BY <4>1
      <4>2. CASE engine' # NoEngine /\ new = [j \in 1 .. Len(engine'.steps) |-> l(j)]
        <5>1. Len(engine'.steps) \in Nat
          <6>1. net \in Nets /\ Parses(net) /\ engine' = Compiled(net, size)
            BY <1>2, <1>3, <1>8, <4>2 DEF Ensure, EngineOK
          <6> QED
            BY <6>1, StepsOfNet DEF Compiled
        <5> QED
          BY <4>2, <5>1
      <4> QED
        BY <1>1, <4>1, <4>2
    <3> QED
      BY <1>2, <2>1, <3>1, ConcatProperties, ConcatEmptySeq
  <2>6. PICK g : g = kernels'
    OBVIOUS
  <2>7. ASSUME EngineOK', Group(g)', model' => model, \A b \in {0, 1} : 0 <= engine'.width[b]
        PROVE  ScaleInv'
    <3>1. InLine(g)' /\ g # <<>> /\ Opens(g[1])
      BY <2>7 DEF Group, Opens
    <3>2. InLine(kernels)'
      BY <2>6, <3>1 DEF InLine, KernelOK, Follows, Opens, Closes, Interp, Shrinks, Doubles
    <3>3. ShownOK'
      BY <1>2, <2>3, <2>7 DEF ShownOK, LumaOK, Interp, Shrinks, Doubles
    <3>4. HeadOK'
      BY <2>6, <3>1, <3>3 DEF HeadOK, Opens
    <3>5. WorkOK'
      BY <1>2, <1>3, <2>4, <2>7 DEF WorkOK
    <3> QED
      BY <1>4, <1>5, <2>7, <3>2, <3>4, <3>5 DEF ScaleInv
  <2>8. Interp(size)' = Interp(size) /\ Doubles(size)'
    BY <1>2, <1>8 DEF Interp, Shrinks, Doubles
  <2>9. \A j, p : KernelOf(fr, size, j, p)' = KernelOf(fr, size, j, p)
    BY <2>8 DEF KernelOf
  <2>10. CASE net # NoNet /\ Parses(net) /\ engine' = Compiled(net, size) /\ model' = model
    <3>1. engine' # NoEngine
      BY <1>6, <2>10 DEF Compiled, NoEngine
    <3>2. net \in Nets
      BY <1>3, <2>10 DEF EngineOK
    <3>3. EngineOK'
      BY <1>2, <1>3, <2>8, <2>10, <3>2 DEF EngineOK
    <3>4. g = InSteps(fr, size)'
      <4>1. new = [j \in 1 .. Len(engine'.steps) |-> l(j)]
        BY <1>1, <1>8, <3>1
      <4>2. KernelOf(fr, size, 0, "chroma")' = c /\ \A j : KernelOf(fr, size, j, "luma")' = l(j)
        BY <1>1, <2>9 DEF c, l
      <4> QED
        BY <2>5, <2>6, <4>1, <4>2 DEF InSteps
    <3>5. Group(g)'
      BY <1>4, <2>2, <2>8, <3>1, <3>3, <3>4, Zenon DEF InStepsIs
    <3>6. \A b \in {0, 1} : 0 <= engine'.width[b]
      <4>1. PICK steps : steps = Steps(net.convs)
        OBVIOUS
      <4>2. Len(steps) \in Nat /\ Len(steps) >= 2
        BY <2>10, <3>2, <4>1, StepsOfNet
      <4>3. 1 \in 1 .. Len(steps) - 1
        BY <4>2
      <4>4. \A b \in {0, 1} : 0 <= Width(net.convs, steps, b)
        BY <2>10, <3>2, <4>1, <4>3, WidthIs
      <4>5. engine'.width = [b \in {0, 1} |-> Width(net.convs, steps, b)]
        BY <2>10, <4>1 DEF Compiled
      <4> QED
        BY <4>4, <4>5
    <3> QED
      BY <2>7, <2>10, <3>3, <3>5, <3>6
  <2>11. CASE engine' = NoEngine /\ model' = FALSE
    <3>1. EngineOK'
      BY <1>2, <1>3, <2>11 DEF EngineOK
    <3>2. g = Whole(fr, size)'
      <4>1. new = <<l(0)>>
        BY <1>1, <2>11
      <4>2. KernelOf(fr, size, 0, "chroma")' = c /\ KernelOf(fr, size, 0, "luma")' = l(0)
        BY <1>1, <2>9 DEF c, l
      <4> QED
        BY <2>5, <2>6, <4>1, <4>2 DEF Whole
    <3>3. Group(g)'
      BY <1>4, <2>2, <2>11, <3>2, Zenon DEF WholeIs
    <3>4. \A b \in {0, 1} : 0 <= engine'.width[b]
      BY <2>11 DEF NoEngine
    <3> QED
      BY <2>7, <2>11, <3>1, <3>3, <3>4
  <2> QED
    BY <1>2, <1>8, <2>10, <2>11 DEF Ensure
<1> QED
  BY <1>7, <1>8

\* Everything else leaves the stream as it is.
LEMMA ScaleStays ==
  ASSUME ScaleInv, UNCHANGED <<target, net, filter, model, engine, kernels, work, shown>>, taken' \in Nat
  PROVE  ScaleInv'
<1>1. StreamStays /\ kernels' = kernels /\ work' = work /\ shown' = shown
  BY DEF StreamStays
<1>2. InLine(kernels)' /\ EngineOK'
  BY <1>1, InLineStays, EngineStays DEF ScaleInv
<1>3. HeadOK'
  BY <1>1 DEF ScaleInv, HeadOK, ShownOK, Opens, LumaOK, Interp, Shrinks, Doubles, StreamStays
<1>4. WorkOK' /\ filter' \in Interps /\ shown' = [size |-> shown'.size, luma |-> shown'.luma, chroma |-> shown'.chroma]
  BY <1>1 DEF ScaleInv, WorkOK, StreamStays
<1> QED
  BY <1>2, <1>3, <1>4 DEF ScaleInv

LEMMA ScaleStep == ScaleInv /\ [ScaleNext]_scaleVars => ScaleInv'
<1> SUFFICES ASSUME ScaleInv, [ScaleNext]_scaleVars PROVE ScaleInv'
  OBVIOUS
<1>1. CASE RunsKernel
  BY <1>1, RunInv
<1>2. CASE \E size \in Sizes : Scale(size)
  BY <1>2, LaunchInv
<1>3. CASE \E size \in Sizes : Pass(size)
  BY <1>3, ScaleStays DEF Pass, ScaleInv
<1>4. CASE UNCHANGED scaleVars
  BY <1>4, ScaleStays DEF scaleVars, ScaleInv
<1> QED
  BY <1>1, <1>2, <1>3, <1>4 DEF ScaleNext

-----------------------------------------------------------------------------
(* The filters: their kernels, plane by plane *)

LegalPlane(p) == \A x \in DOMAIN p : p[x] \in Allowed

LEMMA ClampIs ==
  ASSUME NEW v \in Int
  PROVE  /\ Clamp10(v) \in Allowed /\ Clamp10(v) \in Codes
         /\ v \in Allowed => Clamp10(v) = v
BY DEF Clamp10, Allowed, Codes

LEMMA NearestIs ==
  ASSUME NEW a \in Int, NEW b \in Nat \ {0}
  PROVE  Nearest(a, b) \in Int
BY DEF Nearest

\* A plane that is clamped sample by sample.
Clamped(out, m) == out \in Plane(m) /\ DOMAIN out = 0 .. m - 1 /\ LegalPlane(out)

LEMMA ClampedIs ==
  ASSUME NEW m \in Nat, NEW f, NEW out, out = [x \in 0 .. m - 1 |-> Clamp10(f[x])],
         \A x \in 0 .. m - 1 : f[x] \in Int
  PROVE  /\ Clamped(out, m)
         /\ \A x \in 0 .. m - 1 : f[x] \in Allowed => out[x] = f[x]
<1>1. \A x \in 0 .. m - 1 : Clamp10(f[x]) \in Allowed /\ Clamp10(f[x]) \in Codes
  BY ClampIs, Zenon
<1>2. \A x \in 0 .. m - 1 : f[x] \in Allowed => Clamp10(f[x]) = f[x]
  BY ClampIs, Zenon
<1>3. DOMAIN out = 0 .. m - 1 /\ out \in Plane(m) /\ \A x \in 0 .. m - 1 : out[x] = Clamp10(f[x])
  BY <1>1 DEF Plane
<1>4. \A x \in 0 .. m - 1 : out[x] \in Allowed
  BY <1>1, <1>3, Zenon
<1>5. Clamped(out, m)
  BY <1>3, <1>4, Zenon DEF Clamped, LegalPlane
<1> QED
  BY <1>2, <1>3, <1>5, Zenon

LEMMA PlaneIs ==
  ASSUME NEW m \in Nat, NEW p \in Plane(m)
  PROVE  /\ DOMAIN p = 0 .. m - 1 /\ p = [x \in 0 .. m - 1 |-> p[x]] /\ Size(p) = m
         /\ \A x \in 0 .. m - 1 : p[x] \in Int /\ p[x] \in Codes
<1>1. DOMAIN p = 0 .. m - 1 /\ p = [x \in 0 .. m - 1 |-> p[x]]
  BY DEF Plane
<1>2. Cardinality(0 .. m - 1) = m
  <2>1. PICK k : k = m - 1
    OBVIOUS
  <2>2. 0 \in Int /\ k \in Int /\ Cardinality(0 .. k) = IF 0 > k THEN 0 ELSE k - 0 + 1
    BY <2>1, FS_Interval
  <2> QED
    BY <2>1, <2>2
<1>3. \A x \in 0 .. m - 1 : p[x] \in Codes /\ p[x] \in Int
  <2>1. \A x \in 0 .. m - 1 : p[x] \in Codes
    BY DEF Plane
  <2>2. \A c \in Codes : c \in Int
    BY DEF Codes
  <2> QED
    BY <2>1, <2>2, Zenon
<1>4. Size(p) = m
  BY <1>1, <1>2, Zenon DEF Size
<1> QED
  BY <1>1, <1>3, <1>4, Zenon

\* A plane that is the same everywhere has no neighbours that differ.
LEMMA AtIs ==
  ASSUME NEW m \in Nat, NEW p \in Plane(m), NEW x \in 0 .. m - 1, NEW d \in Int
  PROVE  /\ At(p, x + d) \in Int
         /\ Flat(p) => At(p, x + d) = p[0]
<1>1. DOMAIN p = 0 .. m - 1 /\ Size(p) = m /\ \A z \in 0 .. m - 1 : p[z] \in Int
  BY PlaneIs
<1>2. PICK z : z = IF x + d < 0 THEN 0 ELSE IF x + d >= m THEN m - 1 ELSE x + d
  OBVIOUS
<1>3. z \in 0 .. m - 1
  BY <1>2
<1>4. At(p, x + d) = p[z]
  BY <1>1, <1>2, Zenon DEF At
<1> QED
  BY <1>1, <1>3, <1>4 DEF Flat

LEMMA FlatIs ==
  ASSUME NEW m \in Nat, NEW out, DOMAIN out = 0 .. m - 1,
         NEW v, \A x \in 0 .. m - 1 : out[x] = v
  PROVE  Flat(out)
<1> SUFFICES ASSUME NEW x \in 0 .. m - 1 PROVE out[x] = out[0]
  BY DEF Flat
<1>1. 0 \in 0 .. m - 1
  OBVIOUS
<1> QED
  BY <1>1

LEMMA SamePlane ==
  ASSUME NEW m \in Nat, NEW p \in Plane(m), NEW out \in Plane(m), \A x \in 0 .. m - 1 : out[x] = p[x]
  PROVE  out = p
BY DEF Plane

LEMMA LegalSample ==
  ASSUME NEW m \in Nat, NEW p \in Plane(m), LegalPlane(p)
  PROVE  \A x \in 0 .. m - 1 : p[x] \in Allowed
BY PlaneIs, Zenon DEF LegalPlane

LEMMA ProcampYIs ==
  ASSUME NEW s, s.contrast \in Int, s.brightness \in Int, NEW m \in Nat, NEW y \in Plane(m)
  PROVE  /\ Clamped(ProcampY(s, y), m)
         /\ Flat(y) => Flat(ProcampY(s, y))
         /\ s.brightness = 0 /\ s.contrast = 100 /\ LegalPlane(y) => ProcampY(s, y) = y
<1> DEFINE F(v) == Nearest(64000 + (v - 64) * 10 * s.contrast + 876 * s.brightness, 1000)
           f == [x \in 0 .. m - 1 |-> F(y[x])]
           out == ProcampY(s, y)
<1>1. DOMAIN y = 0 .. m - 1 /\ \A x \in 0 .. m - 1 : y[x] \in Int
  BY PlaneIs
<1>2. \A v \in Int : F(v) \in Int
  <2> SUFFICES ASSUME NEW v \in Int PROVE F(v) \in Int
    OBVIOUS
  <2>1. (v - 64) * 10 * s.contrast \in Int /\ 876 * s.brightness \in Int
    OBVIOUS
  <2>2. 64000 + (v - 64) * 10 * s.contrast + 876 * s.brightness \in Int
    BY <2>1
  <2> QED
    BY <2>2, NearestIs
<1>3. s.brightness = 0 /\ s.contrast = 100 => \A v \in Int : F(v) = v
  BY DEF Nearest
<1>4. out = [x \in 0 .. m - 1 |-> Clamp10(F(y[x]))]
  BY <1>1 DEF ProcampY
<1> HIDE DEF F, out
<1>5. \A x \in 0 .. m - 1 : f[x] = F(y[x]) /\ f[x] \in Int
  BY <1>1, <1>2
<1>6. out = [x \in 0 .. m - 1 |-> Clamp10(f[x])]
  BY <1>4, <1>5, Zenon
<1> HIDE DEF f
<1>7. Clamped(out, m) /\ \A x \in 0 .. m - 1 : f[x] \in Allowed => out[x] = f[x]
  BY <1>5, <1>6, ClampedIs, ZenonT(40)
<1>8. Flat(y) => Flat(out)
  <2> SUFFICES ASSUME Flat(y) PROVE Flat(out)
    OBVIOUS
  <2>1. \A x \in 0 .. m - 1 : out[x] = Clamp10(F(y[0]))
    BY <1>1, <1>4, Zenon DEF Flat
  <2> QED
    BY <1>7, <2>1, FlatIs DEF Clamped
<1>9. ASSUME s.brightness = 0, s.contrast = 100, LegalPlane(y) PROVE out = y
  <2>1. (\A x \in 0 .. m - 1 : f[x] = y[x]) /\ LegalPlane(y)
    BY <1>1, <1>3, <1>5, <1>9
  <2>2. \A x \in 0 .. m - 1 : out[x] = y[x]
    BY <1>7, <2>1, LegalSample, Zenon
  <2> QED
    BY <1>7, <2>2, SamePlane DEF Clamped
<1> QED
  BY <1>7, <1>8, <1>9 DEF out

\* Both chroma planes turned by the hue, the same way but for the sign.
LEMMA TurnIs ==
  ASSUME NEW hue \in 0 .. 3
  PROVE  Turn(hue)[1] \in Int /\ Turn(hue)[2] \in Int /\ (hue = 0 => Turn(hue)[1] = 1 /\ Turn(hue)[2] = 0)
BY DEF Turn

LEMMA ProcampCIs ==
  ASSUME NEW s, s.sat \in Int, s.hue \in 0 .. 3, NEW m \in Nat, NEW cb \in Plane(m), NEW cr \in Plane(m)
  PROVE  /\ Clamped(ProcampCb(s, cb, cr), m) /\ Clamped(ProcampCr(s, cb, cr), m)
         /\ Flat(cb) /\ Flat(cr) => Flat(ProcampCb(s, cb, cr)) /\ Flat(ProcampCr(s, cb, cr))
         /\ s.sat = 100 /\ s.hue = 0 /\ LegalPlane(cb) /\ LegalPlane(cr) =>
              ProcampCb(s, cb, cr) = cb /\ ProcampCr(s, cb, cr) = cr
<1> DEFINE c == Turn(s.hue)[1]
           z == Turn(s.hue)[2]
           B(u, v) == 512 + Nearest(s.sat * ((u - 512) * c - (v - 512) * z), 100)
           R(u, v) == 512 + Nearest(s.sat * ((u - 512) * z + (v - 512) * c), 100)
           fb == [x \in 0 .. m - 1 |-> B(cb[x], cr[x])]
           fr == [x \in 0 .. m - 1 |-> R(cb[x], cr[x])]
           ob == ProcampCb(s, cb, cr)
           or == ProcampCr(s, cb, cr)
<1>1. DOMAIN cb = 0 .. m - 1 /\ DOMAIN cr = 0 .. m - 1 /\ \A x \in 0 .. m - 1 : cb[x] \in Int /\ cr[x] \in Int
  BY PlaneIs
<1>2. ob = [x \in 0 .. m - 1 |-> Clamp10(B(cb[x], cr[x]))] /\ or = [x \in 0 .. m - 1 |-> Clamp10(R(cb[x], cr[x]))]
  BY <1>1, Zenon DEF ProcampCb, ProcampCr
<1>3. c \in Int /\ z \in Int /\ (s.hue = 0 => c = 1 /\ z = 0)
  BY TurnIs
<1> HIDE DEF c, z, ob, or
<1>4. \A u, v \in Int : B(u, v) \in Int /\ R(u, v) \in Int
  <2> SUFFICES ASSUME NEW u \in Int, NEW v \in Int PROVE B(u, v) \in Int /\ R(u, v) \in Int
    OBVIOUS
  <2>1. /\ (u - 512) * c \in Int /\ (v - 512) * z \in Int
        /\ (u - 512) * z \in Int /\ (v - 512) * c \in Int
    BY <1>3
  <2>2. (u - 512) * c - (v - 512) * z \in Int /\ (u - 512) * z + (v - 512) * c \in Int
    BY <2>1
  <2>3. s.sat * ((u - 512) * c - (v - 512) * z) \in Int /\ s.sat * ((u - 512) * z + (v - 512) * c) \in Int
    BY <2>2
  <2>4. /\ Nearest(s.sat * ((u - 512) * c - (v - 512) * z), 100) \in Int
        /\ Nearest(s.sat * ((u - 512) * z + (v - 512) * c), 100) \in Int
    BY <2>3, NearestIs
  <2> QED
    BY <2>4
<1>5. s.sat = 100 /\ s.hue = 0 => \A u, v \in Int : B(u, v) = u /\ R(u, v) = v
  <2> SUFFICES ASSUME s.sat = 100, s.hue = 0, NEW u \in Int, NEW v \in Int
               PROVE  B(u, v) = u /\ R(u, v) = v
    OBVIOUS
  <2>1. c = 1 /\ z = 0
    BY <1>3
  <2>2. B(u, v) = 512 + Nearest(100 * (u - 512), 100) /\ R(u, v) = 512 + Nearest(100 * (v - 512), 100)
    BY <2>1
  <2>3. Nearest(100 * (u - 512), 100) = u - 512 /\ Nearest(100 * (v - 512), 100) = v - 512
    BY DEF Nearest
  <2> QED
    BY <2>2, <2>3
<1> HIDE DEF B, R
<1>6. \A x \in 0 .. m - 1 : /\ fb[x] = B(cb[x], cr[x]) /\ fb[x] \in Int
                            /\ fr[x] = R(cb[x], cr[x]) /\ fr[x] \in Int
  BY <1>1, <1>4
<1>7. ob = [x \in 0 .. m - 1 |-> Clamp10(fb[x])] /\ or = [x \in 0 .. m - 1 |-> Clamp10(fr[x])]
  BY <1>2, <1>6, Zenon
<1> HIDE DEF fb, fr
<1>8. /\ Clamped(ob, m) /\ \A x \in 0 .. m - 1 : fb[x] \in Allowed => ob[x] = fb[x]
      /\ Clamped(or, m) /\ \A x \in 0 .. m - 1 : fr[x] \in Allowed => or[x] = fr[x]
  <2>1. (\A x \in 0 .. m - 1 : fb[x] \in Int) /\ (\A x \in 0 .. m - 1 : fr[x] \in Int)
    BY <1>6, Zenon
  <2>2. Clamped(ob, m) /\ \A x \in 0 .. m - 1 : fb[x] \in Allowed => ob[x] = fb[x]
    BY <1>7, <2>1, ClampedIs, ZenonT(40)
  <2>3. Clamped(or, m) /\ \A x \in 0 .. m - 1 : fr[x] \in Allowed => or[x] = fr[x]
    BY <1>7, <2>1, ClampedIs, ZenonT(40)
  <2> QED
    BY <2>2, <2>3, Zenon
<1>9. ASSUME Flat(cb), Flat(cr) PROVE Flat(ob) /\ Flat(or)
  <2>1. \A x \in 0 .. m - 1 : ob[x] = Clamp10(B(cb[0], cr[0])) /\ or[x] = Clamp10(R(cb[0], cr[0]))
    BY <1>1, <1>2, <1>9, Zenon DEF Flat
  <2>2. DOMAIN ob = 0 .. m - 1 /\ DOMAIN or = 0 .. m - 1
    BY <1>8, Zenon DEF Clamped
  <2>3. (\A x \in 0 .. m - 1 : ob[x] = Clamp10(B(cb[0], cr[0])))
        /\ (\A x \in 0 .. m - 1 : or[x] = Clamp10(R(cb[0], cr[0])))
    BY <2>1, Zenon
  <2> QED
    BY <2>2, <2>3, FlatIs, Zenon
<1>10. ASSUME s.sat = 100, s.hue = 0, LegalPlane(cb), LegalPlane(cr) PROVE ob = cb /\ or = cr
  <2>1. (\A x \in 0 .. m - 1 : fb[x] = cb[x] /\ fr[x] = cr[x]) /\ LegalPlane(cb) /\ LegalPlane(cr)
    BY <1>1, <1>5, <1>6, <1>10
  <2>2. \A x \in 0 .. m - 1 : ob[x] = cb[x] /\ or[x] = cr[x]
    BY <1>8, <2>1, LegalSample, Zenon
  <2> QED
    BY <1>8, <2>2, SamePlane DEF Clamped
<1> QED
  BY <1>8, <1>9, <1>10 DEF ob, or

LEMMA UnsharpIs ==
  ASSUME NEW s, s.amount \in Int, NEW m \in Nat, NEW y \in Plane(m)
  PROVE  /\ Clamped(Unsharp(s, y), m)
         /\ Flat(y) => Flat(Unsharp(s, y))
         /\ s.amount = 0 /\ LegalPlane(y) => Unsharp(s, y) = y
<1> DEFINE F(l, v, r) == Nearest(400 * v + s.amount * (4 * v - (l + 2 * v + r)), 400)
           f == [x \in 0 .. m - 1 |-> F(At(y, x - 1), y[x], At(y, x + 1))]
           out == Unsharp(s, y)
<1>1. DOMAIN y = 0 .. m - 1 /\ \A x \in 0 .. m - 1 : y[x] \in Int
  BY PlaneIs
<1>2. /\ \A x \in 0 .. m - 1 : At(y, x - 1) \in Int /\ At(y, x + 1) \in Int
      /\ Flat(y) => \A x \in 0 .. m - 1 : At(y, x - 1) = y[0] /\ At(y, x + 1) = y[0]
  <2>1. -1 \in Int /\ 1 \in Int /\ \A x \in 0 .. m - 1 : x - 1 = x + (-1)
    OBVIOUS
  <2> QED
    BY <2>1, AtIs
<1>3. \A l, v, r \in Int : F(l, v, r) \in Int /\ (s.amount = 0 => F(l, v, r) = v)
  <2> SUFFICES ASSUME NEW l \in Int, NEW v \in Int, NEW r \in Int
               PROVE  F(l, v, r) \in Int /\ (s.amount = 0 => F(l, v, r) = v)
    OBVIOUS
  <2>1. PICK d : d = 4 * v - (l + 2 * v + r)
    OBVIOUS
  <2>2. d \in Int /\ s.amount * d \in Int /\ (s.amount = 0 => s.amount * d = 0)
    BY <2>1
  <2>3. F(l, v, r) = Nearest(400 * v + s.amount * d, 400)
    BY <2>1
  <2>4. Nearest(400 * v + 0, 400) = v
    BY DEF Nearest
  <2>5. 400 * v + s.amount * d \in Int
    BY <2>2
  <2>6. s.amount = 0 => F(l, v, r) = v
    BY <2>2, <2>3, <2>4
  <2>7. F(l, v, r) \in Int
    BY <2>3, <2>5, NearestIs
  <2> QED
    BY <2>6, <2>7
<1>4. out = [x \in 0 .. m - 1 |-> Clamp10(F(At(y, x - 1), y[x], At(y, x + 1)))]
  BY <1>1, Zenon DEF Unsharp
<1> HIDE DEF F, out
<1>5. \A x \in 0 .. m - 1 : f[x] = F(At(y, x - 1), y[x], At(y, x + 1)) /\ f[x] \in Int
  BY <1>1, <1>2, <1>3
<1>6. out = [x \in 0 .. m - 1 |-> Clamp10(f[x])]
  BY <1>4, <1>5, Zenon
<1> HIDE DEF f
<1>7. Clamped(out, m) /\ \A x \in 0 .. m - 1 : f[x] \in Allowed => out[x] = f[x]
  BY <1>5, <1>6, ClampedIs, ZenonT(40)
<1>8. ASSUME Flat(y) PROVE Flat(out)
  <2>1. \A x \in 0 .. m - 1 : out[x] = Clamp10(F(y[0], y[0], y[0]))
    <3>1. \A x \in 0 .. m - 1 : y[x] = y[0] /\ At(y, x - 1) = y[0] /\ At(y, x + 1) = y[0]
      BY <1>1, <1>2, <1>8, Zenon DEF Flat
    <3> QED
      BY <1>4, <3>1, Zenon
  <2> QED
    BY <1>7, <2>1, FlatIs DEF Clamped
<1>9. ASSUME s.amount = 0, LegalPlane(y) PROVE out = y
  <2>1. (\A x \in 0 .. m - 1 : f[x] = y[x]) /\ LegalPlane(y)
    <3>1. \A l, v, r \in Int : F(l, v, r) = v
      BY <1>3, <1>9
    <3>2. LegalPlane(y)
      BY <1>9
    <3>3. ASSUME NEW x \in 0 .. m - 1 PROVE f[x] = y[x]
      <4>1. PICK l, v, r : l = At(y, x - 1) /\ v = y[x] /\ r = At(y, x + 1)
        OBVIOUS
      <4>2. l \in Int /\ v \in Int /\ r \in Int /\ f[x] = F(l, v, r)
        BY <1>1, <1>2, <1>5, <4>1
      <4> QED
        BY <3>1, <4>1, <4>2, Zenon
    <3> QED
      BY <3>2, <3>3
  <2>2. \A x \in 0 .. m - 1 : out[x] = y[x]
    BY <1>7, <2>1, LegalSample, Zenon
  <2> QED
    BY <1>7, <2>2, SamePlane DEF Clamped
<1> QED
  BY <1>7, <1>8, <1>9 DEF out

LEMMA BilateralIs ==
  ASSUME NEW strength \in Nat, NEW m \in Nat, NEW p \in Plane(m)
  PROVE  /\ Clamped(Bilateral(strength, p), m)
         /\ Flat(p) => Flat(Bilateral(strength, p))
<1> DEFINE reach == 4 + ((60 * strength) \div 100)
           w(o, v, k) == IF (v - o) * (v - o) <= reach * reach THEN k ELSE 0
           F(o, a, b, c, d, e) ==
             Nearest(w(o, a, 4) * a + w(o, b, 8) * b + w(o, c, 10) * c + w(o, d, 8) * d + w(o, e, 4) * e,
                     w(o, a, 4) + w(o, b, 8) + w(o, c, 10) + w(o, d, 8) + w(o, e, 4))
           f == [x \in 0 .. m - 1 |-> F(p[x], At(p, x + (-2)), At(p, x + (-1)), At(p, x + 0), At(p, x + 1), At(p, x + 2))]
           out == Bilateral(strength, p)
<1>1. DOMAIN p = 0 .. m - 1 /\ \A x \in 0 .. m - 1 : p[x] \in Int
  BY PlaneIs
<1>2. /\ \A x \in 0 .. m - 1 : /\ At(p, x + (-2)) \in Int /\ At(p, x + (-1)) \in Int
                               /\ At(p, x + 0) \in Int
                               /\ At(p, x + 1) \in Int /\ At(p, x + 2) \in Int
      /\ Flat(p) => \A x \in 0 .. m - 1 : /\ At(p, x + (-2)) = p[0] /\ At(p, x + (-1)) = p[0]
                                          /\ At(p, x + 0) = p[0]
                                          /\ At(p, x + 1) = p[0] /\ At(p, x + 2) = p[0]
  <2>1. -2 \in Int /\ -1 \in Int /\ 0 \in Int /\ 1 \in Int /\ 2 \in Int
    OBVIOUS
  <2> QED
    BY <2>1, AtIs
<1>3. \A x \in 0 .. m - 1 : At(p, x + 0) = p[x]
  <2> SUFFICES ASSUME NEW x \in 0 .. m - 1 PROVE At(p, x + 0) = p[x]
    OBVIOUS
  <2>1. Size(p) = m
    BY PlaneIs
  <2>2. ~(x + 0 < 0) /\ ~(x + 0 >= m) /\ x + 0 = x
    OBVIOUS
  <2> QED
    BY <2>1, <2>2 DEF At
<1>4. out = [x \in 0 .. m - 1 |-> Clamp10(F(p[x], At(p, x + (-2)), At(p, x + (-1)), At(p, x + 0),
                                            At(p, x + 1), At(p, x + 2)))]
  BY <1>1 DEF Bilateral
<1>5. ASSUME NEW a \in Int, NEW b \in Int, NEW c \in Int, NEW d \in Int, NEW e \in Int
      PROVE  F(c, a, b, c, d, e) \in Int
  <2>1. reach \in Nat
    OBVIOUS
  <2>2. (c - c) * (c - c) <= reach * reach
    <3> HIDE DEF reach
    <3>1. (c - c) * (c - c) = 0 /\ reach * reach \in Nat
      BY <2>1
    <3> QED
      BY <3>1
  <2>3. w(c, c, 10) = 10
    BY <2>2
  <2>4. w(c, a, 4) \in {0, 4} /\ w(c, b, 8) \in {0, 8} /\ w(c, d, 8) \in {0, 8} /\ w(c, e, 4) \in {0, 4}
    OBVIOUS
  <2> HIDE DEF w
  <2>5. /\ w(c, a, 4) \in Nat /\ w(c, b, 8) \in Nat /\ w(c, c, 10) \in Nat /\ w(c, c, 10) > 0
        /\ w(c, d, 8) \in Nat /\ w(c, e, 4) \in Nat
    BY <2>3, <2>4
  <2>6. /\ w(c, a, 4) * a \in Int /\ w(c, b, 8) * b \in Int /\ w(c, c, 10) * c \in Int
        /\ w(c, d, 8) * d \in Int /\ w(c, e, 4) * e \in Int
    BY <2>5
  <2>7. w(c, a, 4) + w(c, b, 8) + w(c, c, 10) + w(c, d, 8) + w(c, e, 4) \in Nat \ {0}
    BY <2>5
  <2>8. w(c, a, 4) * a + w(c, b, 8) * b + w(c, c, 10) * c + w(c, d, 8) * d + w(c, e, 4) * e \in Int
    BY <2>6
  <2> QED
    BY <2>7, <2>8, NearestIs
<1> HIDE DEF F, out
<1>6. \A x \in 0 .. m - 1 :
         /\ f[x] = F(p[x], At(p, x + (-2)), At(p, x + (-1)), At(p, x + 0), At(p, x + 1), At(p, x + 2))
         /\ f[x] \in Int
  <2> SUFFICES ASSUME NEW x \in 0 .. m - 1
               PROVE  /\ f[x] = F(p[x], At(p, x + (-2)), At(p, x + (-1)), At(p, x + 0), At(p, x + 1), At(p, x + 2))
                      /\ f[x] \in Int
    OBVIOUS
  <2>1. f[x] = F(p[x], At(p, x + (-2)), At(p, x + (-1)), At(p, x + 0), At(p, x + 1), At(p, x + 2))
    OBVIOUS
  <2>2. PICK a, b, c, d, e : a = At(p, x + (-2)) /\ b = At(p, x + (-1)) /\ c = p[x]
                             /\ d = At(p, x + 1) /\ e = At(p, x + 2)
    OBVIOUS
  <2>3. a \in Int /\ b \in Int /\ c \in Int /\ d \in Int /\ e \in Int /\ At(p, x + 0) = c
    BY <1>1, <1>2, <1>3, <2>2
  <2>4. F(c, a, b, c, d, e) \in Int
    BY <1>5, <2>3
  <2>5. F(p[x], At(p, x + (-2)), At(p, x + (-1)), At(p, x + 0), At(p, x + 1), At(p, x + 2))
          = F(c, a, b, c, d, e)
    BY <2>2, <2>3, Zenon
  <2> QED
    BY <2>1, <2>4, <2>5, Zenon
<1>7. out = [x \in 0 .. m - 1 |-> Clamp10(f[x])]
  BY <1>4, <1>6, Zenon
<1> HIDE DEF f
<1>8. Clamped(out, m)
  <2>1. \A x \in 0 .. m - 1 : f[x] \in Int
    BY <1>6, Zenon
  <2> QED
    BY <1>7, <2>1, ClampedIs, Zenon
<1>9. ASSUME Flat(p) PROVE Flat(out)
  <2>1. \A x \in 0 .. m - 1 :
           /\ p[x] = p[0]
           /\ At(p, x + (-2)) = p[0] /\ At(p, x + (-1)) = p[0] /\ At(p, x + 0) = p[0]
           /\ At(p, x + 1) = p[0] /\ At(p, x + 2) = p[0]
    BY <1>1, <1>2, <1>9, Zenon DEF Flat
  <2>2. \A x \in 0 .. m - 1 : out[x] = Clamp10(F(p[0], p[0], p[0], p[0], p[0], p[0]))
    BY <1>4, <2>1, Zenon
  <2> QED
    BY <1>8, <2>2, FlatIs DEF Clamped
<1> QED
  BY <1>8, <1>9 DEF out

-----------------------------------------------------------------------------
(* Grain *)

LEMMA DensityIs ==
  ASSUME NEW v \in Codes
  PROVE  Density(v) \in Int /\ (v \in {64, 940} => Density(v) = 0)
<1>1. PICK l : l = IF v < 64 THEN 0 ELSE IF v > 940 THEN 876 ELSE v - 64
  OBVIOUS
<1>2. l \in Int /\ (v = 64 => l = 0) /\ (v = 940 => l = 876)
  BY <1>1 DEF Codes
<1>3. Density(v) = (400 * l * (876 - l)) \div (876 * 876)
  BY <1>1 DEF Density
<1>4. PICK a : a = 400 * l * (876 - l)
  OBVIOUS
<1>5. a \in Int /\ (l = 0 => a = 0) /\ (l = 876 => a = 0)
  BY <1>2, <1>4
<1>6. 876 * 876 = 767376
  OBVIOUS
<1>7. a \div 767376 \in Int /\ (a = 0 => a \div 767376 = 0)
  BY <1>5
<1>8. Density(v) = a \div 767376
  BY <1>3, <1>4, <1>6
<1> QED
  BY <1>2, <1>5, <1>7, <1>8

LEMMA StrengthIs ==
  ASSUME NEW amount \in Nat, NEW swing \in Nat
  PROVE  Strength(amount, swing) \in Int /\ (amount = 0 => Strength(amount, swing) = 0)
<1>1. PICK a : a = IF amount > 100 THEN 100 ELSE amount
  OBVIOUS
<1>2. a \in Nat /\ (amount = 0 => a = 0)
  BY <1>1
<1>3. PICK b : b = 8 * a * swing
  OBVIOUS
<1>4. b \in Nat /\ (a = 0 => b = 0)
  BY <1>2, <1>3
<1>5. Strength(amount, swing) = b \div 10000
  BY <1>1, <1>3 DEF Strength
<1>6. b \div 10000 \in Int /\ (b = 0 => b \div 10000 = 0)
  BY <1>4
<1> QED
  BY <1>2, <1>4, <1>5, <1>6

LEMMA GrainedIs ==
  ASSUME NEW v \in Codes, NEW weight \in Int, NEW strength \in Int, NEW field \in Int
  PROVE  /\ Grained(v, weight, strength, field) \in Codes
         /\ v \in Allowed => Grained(v, weight, strength, field) \in Allowed
         /\ weight = 0 => Grained(v, weight, strength, field) = v
         /\ strength = 0 /\ v \in Allowed => Grained(v, weight, strength, field) = v
<1>1. PICK d : d = strength * weight * field
  OBVIOUS
<1>2. d \in Int /\ (strength = 0 => d = 0)
  <2>1. PICK e : e = strength * weight
    OBVIOUS
  <2>2. e \in Int /\ (strength = 0 => e = 0)
    BY <2>1
  <2>3. d = e * field
    BY <1>1, <2>1
  <2> QED
    BY <2>2, <2>3
<1>3. Nearest(d, 10000) \in Int /\ (d = 0 => Nearest(d, 10000) = 0)
  BY <1>2 DEF Nearest
<1>4. v \in Int
  BY DEF Codes
<1>5. PICK u : u = v + Nearest(d, 10000)
  OBVIOUS
<1>6. u \in Int /\ (d = 0 => u = v)
  BY <1>3, <1>4, <1>5
<1>7. Clamp10(u) \in Codes /\ Clamp10(u) \in Allowed /\ (u \in Allowed => Clamp10(u) = u)
  BY <1>6, ClampIs
<1>8. Grained(v, weight, strength, field) = IF weight = 0 THEN v ELSE Clamp10(u)
  BY <1>1, <1>5 DEF Grained
<1> QED
  BY <1>2, <1>6, <1>7, <1>8

\* A plane with grain on it.
GrainOn(out, c, m) ==
  out \in Plane(m) /\ DOMAIN out = 0 .. m - 1 /\ (LegalPlane(c) => LegalPlane(out))

Speckled(out, c, w, strength, m) ==
  /\ GrainOn(out, c, m)
  /\ \A x \in 0 .. m - 1 : w[x] = 0 => out[x] = c[x]
  /\ strength = 0 /\ LegalPlane(c) => out = c

LEMMA GrainedPlane ==
  ASSUME NEW m \in Nat, NEW c \in Plane(m), NEW w, \A x \in 0 .. m - 1 : w[x] \in Int,
         NEW strength \in Int, NEW field \in Int,
         NEW out, out = [x \in 0 .. m - 1 |-> Grained(c[x], w[x], strength, field)]
  PROVE  Speckled(out, c, w, strength, m)
<1>1. DOMAIN c = 0 .. m - 1 /\ \A x \in 0 .. m - 1 : c[x] \in Codes
  BY PlaneIs
<1>2. ASSUME NEW x \in 0 .. m - 1
      PROVE  /\ Grained(c[x], w[x], strength, field) \in Codes
             /\ c[x] \in Allowed => Grained(c[x], w[x], strength, field) \in Allowed
             /\ w[x] = 0 => Grained(c[x], w[x], strength, field) = c[x]
             /\ strength = 0 /\ c[x] \in Allowed => Grained(c[x], w[x], strength, field) = c[x]
  BY <1>1, GrainedIs, Zenon
<1>3. \A x \in 0 .. m - 1 : out[x] = Grained(c[x], w[x], strength, field)
  OBVIOUS
<1>4. out \in Plane(m) /\ DOMAIN out = 0 .. m - 1
  BY <1>2 DEF Plane
<1>5. LegalPlane(c) => LegalPlane(out)
  BY <1>1, <1>2, <1>3, <1>4, Zenon DEF LegalPlane
<1>6. strength = 0 /\ LegalPlane(c) => out = c
  <2> SUFFICES ASSUME strength = 0, LegalPlane(c) PROVE out = c
    OBVIOUS
  <2>1. \A x \in 0 .. m - 1 : out[x] = c[x]
    BY <1>1, <1>2, <1>3, Zenon DEF LegalPlane
  <2> QED
    BY <1>4, <2>1, SamePlane
<1> QED
  BY <1>2, <1>3, <1>4, <1>5, <1>6, Zenon DEF GrainOn, Speckled

LEMMA GrainYIs ==
  ASSUME NEW s, s.amount \in Nat, NEW m \in Nat, NEW y \in Plane(m), NEW field \in Int
  PROVE  /\ GrainOn(GrainY(s, y, field), y, m)
         /\ \A x \in 0 .. m - 1 : y[x] \in {64, 940} => GrainY(s, y, field)[x] = y[x]
         /\ s.amount = 0 /\ LegalPlane(y) => GrainY(s, y, field) = y
<1>1. DOMAIN y = 0 .. m - 1 /\ \A x \in 0 .. m - 1 : y[x] \in Codes
  BY PlaneIs
<1>2. PICK w : w = [x \in 0 .. m - 1 |-> Density(y[x])]
  OBVIOUS
<1>3. \A x \in 0 .. m - 1 : w[x] = Density(y[x])
  BY <1>2
<1>4. \A x \in 0 .. m - 1 : w[x] \in Int /\ (y[x] \in {64, 940} => w[x] = 0)
  BY <1>1, <1>3, DensityIs
<1>5. PICK t : t = Strength(s.amount, 876)
  OBVIOUS
<1>6. t \in Int /\ (s.amount = 0 => t = 0)
  BY <1>5, StrengthIs
<1>7. PICK out : out = GrainY(s, y, field)
  OBVIOUS
<1>8. out = [x \in 0 .. m - 1 |-> Grained(y[x], w[x], t, field)]
  BY <1>1, <1>3, <1>5, <1>7 DEF GrainY
<1>9. Speckled(out, y, w, t, m)
  <2>1. \A x \in 0 .. m - 1 : w[x] \in Int
    BY <1>4
  <2> QED
    BY <1>6, <1>8, <2>1, GrainedPlane, Zenon
<1> QED
  BY <1>4, <1>6, <1>7, <1>9 DEF Speckled

LEMMA GrainCIs ==
  ASSUME NEW s, s.amount \in Nat, NEW m \in Nat, NEW y \in Plane(2 * m), NEW c \in Plane(m), NEW field \in Int
  PROVE  /\ GrainOn(GrainC(s, y, c, field), c, m)
         /\ s.amount = 0 /\ LegalPlane(c) => GrainC(s, y, c, field) = c
<1>1. DOMAIN c = 0 .. m - 1 /\ \A x \in 0 .. m - 1 : y[2 * x] \in Codes
  <2>1. DOMAIN c = 0 .. m - 1
    BY PlaneIs
  <2>2. 2 * m \in Nat /\ \A x \in 0 .. m - 1 : 2 * x \in 0 .. 2 * m - 1
    OBVIOUS
  <2>3. \A x \in 0 .. 2 * m - 1 : y[x] \in Codes
    BY <2>2, PlaneIs
  <2> QED
    BY <2>1, <2>2, <2>3
<1>2. PICK w : w = [x \in 0 .. m - 1 |-> Density(y[2 * x])]
  OBVIOUS
<1>3. \A x \in 0 .. m - 1 : w[x] = Density(y[2 * x])
  BY <1>2
<1>4. \A x \in 0 .. m - 1 : w[x] \in Int
  BY <1>1, <1>3, DensityIs
<1>5. PICK t : t = Strength(s.amount, 448)
  OBVIOUS
<1>6. t \in Int /\ (s.amount = 0 => t = 0)
  BY <1>5, StrengthIs
<1>7. PICK out : out = GrainC(s, y, c, field)
  OBVIOUS
<1>8. out = [x \in 0 .. m - 1 |-> Grained(c[x], w[x], t, field)]
  BY <1>1, <1>3, <1>5, <1>7 DEF GrainC
<1>9. Speckled(out, c, w, t, m)
  BY <1>4, <1>6, <1>8, GrainedPlane, Zenon
<1> QED
  BY <1>6, <1>7, <1>9 DEF Speckled

-----------------------------------------------------------------------------
(* The filters, one after the other *)

LEMMA SettingsAre ==
  ASSUME NEW s \in FilterSettings
  PROVE  /\ s.kind \in {"procamp", "sharpen", "nr", "grain"}
         /\ s.kind = "procamp" => s.brightness \in Int /\ s.contrast \in Int /\ s.sat \in Int /\ s.hue \in 0 .. 3
         /\ s.kind = "sharpen" => s.amount \in Int
         /\ s.kind = "nr" => s.luma \in Nat /\ s.chroma \in Nat
         /\ s.kind = "grain" => s.amount \in Nat /\ s.color \in BOOLEAN
<1>1. CASE s \in [kind : {"procamp"}, brightness : Int, contrast : Int, sat : Int, hue : 0 .. 3]
  BY <1>1
<1>2. CASE s \in [kind : {"sharpen"}, amount : Int]
  BY <1>2
<1>3. CASE s \in [kind : {"nr"}, luma : Nat, chroma : Nat]
  BY <1>3
<1>4. CASE s \in [kind : {"grain"}, amount : Nat, color : BOOLEAN]
  BY <1>4
<1> QED
  BY <1>1, <1>2, <1>3, <1>4, Zenon DEF FilterSettings

LEMMA LineIs ==
  ASSUME NEW n \in Nat, NEW p \in PixelLines(n)
  PROVE  /\ 2 * n \in Nat /\ p.y \in Plane(2 * n) /\ p.cb \in Plane(n) /\ p.cr \in Plane(n)
         /\ p = [y |-> p.y, cb |-> p.cb, cr |-> p.cr]
         /\ Legal(p) => LegalPlane(p.y) /\ LegalPlane(p.cb) /\ LegalPlane(p.cr)
         /\ LegalPlane(p.y) /\ LegalPlane(p.cb) /\ LegalPlane(p.cr) => Legal(p)
<1>1. 2 * n \in Nat
  OBVIOUS
<1>2. p.y \in Plane(2 * n) /\ p.cb \in Plane(n) /\ p.cr \in Plane(n)
      /\ p = [y |-> p.y, cb |-> p.cb, cr |-> p.cr]
  BY Zenon DEF PixelLines
<1>3. Legal(p) => LegalPlane(p.y) /\ LegalPlane(p.cb) /\ LegalPlane(p.cr)
  BY Zenon DEF Legal, Samples, LegalPlane
<1>4. LegalPlane(p.y) /\ LegalPlane(p.cb) /\ LegalPlane(p.cr) => Legal(p)
  BY Zenon DEF Legal, Samples, LegalPlane
<1> QED
  BY <1>1, <1>2, <1>3, <1>4, Zenon

LEMMA LineOf ==
  ASSUME NEW n \in Nat, NEW y \in Plane(2 * n), NEW cb \in Plane(n), NEW cr \in Plane(n)
  PROVE  LET p == [y |-> y, cb |-> cb, cr |-> cr]
         IN  p \in PixelLines(n) /\ p.y = y /\ p.cb = cb /\ p.cr = cr
BY DEF PixelLines

\* A plane with its noise reduced, or not.
Reduced(o, p, t, m) ==
  o \in Plane(m) /\ (LegalPlane(p) => LegalPlane(o)) /\ (Flat(p) => Flat(o)) /\ (t = 0 => o = p)

LEMMA ReducedIs ==
  ASSUME NEW t \in Nat, NEW m \in Nat, NEW p \in Plane(m), NEW o, o = IF t > 0 THEN Bilateral(t, p) ELSE p
  PROVE  Reduced(o, p, t, m)
<1>1. CASE t > 0
  BY <1>1, BilateralIs DEF Clamped, Reduced
<1>2. CASE ~(t > 0)
  BY <1>2 DEF Reduced
<1> QED
  BY <1>1, <1>2

\* What one filter makes.
Keeps(s, out, src) ==
  /\ Legal(src) => Legal(out)
  /\ Neutral(s) /\ Legal(src) => out = src
  /\ LumaOnly(s) => out.cb = src.cb /\ out.cr = src.cr
Makes(s, out, src, n) ==
  /\ out \in PixelLines(n) /\ Keeps(s, out, src)
  /\ s.kind = "grain" => \A x \in DOMAIN src.y : src.y[x] \in {64, 940} => out.y[x] = src.y[x]
  /\ s.kind # "grain" =>
       /\ Flat(src.y) => Flat(out.y)
       /\ Flat(src.cb) /\ Flat(src.cr) => Flat(out.cb) /\ Flat(out.cr)

LEMMA FilterMakes ==
  ASSUME NEW s \in FilterSettings, NEW n \in Nat, NEW src \in PixelLines(n), NEW dst,
         NEW field, field.y \in Int, field.cb \in Int, field.cr \in Int
  PROVE  Makes(s, Filtered(s, dst, src, field), src, n)
<1>1. PICK out : out = Filtered(s, dst, src, field)
  OBVIOUS
<1>2. PICK y, b, r : y = src.y /\ b = src.cb /\ r = src.cr
  OBVIOUS
<1>3. /\ 2 * n \in Nat /\ y \in Plane(2 * n) /\ b \in Plane(n) /\ r \in Plane(n)
      /\ src = [y |-> y, cb |-> b, cr |-> r]
      /\ Legal(src) => LegalPlane(y) /\ LegalPlane(b) /\ LegalPlane(r)
  BY <1>2, LineIs
<1>4. ASSUME NEW oy \in Plane(2 * n), NEW ob \in Plane(n), NEW or \in Plane(n),
             out = [y |-> oy, cb |-> ob, cr |-> or]
      PROVE  /\ out \in PixelLines(n) /\ out.y = oy /\ out.cb = ob /\ out.cr = or
             /\ LegalPlane(oy) /\ LegalPlane(ob) /\ LegalPlane(or) => Legal(out)
  <2>1. out \in PixelLines(n) /\ out.y = oy /\ out.cb = ob /\ out.cr = or
    BY <1>4, LineOf
  <2> QED
    BY <2>1, LineIs
<1>5. DOMAIN y = 0 .. 2 * n - 1
  BY <1>3, PlaneIs
<1>6. CASE s.kind = "procamp"
  <2>1. PICK oy, ob, or : oy = ProcampY(s, y) /\ ob = ProcampCb(s, b, r) /\ or = ProcampCr(s, b, r)
    OBVIOUS
  <2>2. out = [y |-> oy, cb |-> ob, cr |-> or]
    BY <1>1, <1>2, <1>6, <2>1 DEF Filtered
  <2>3. s.brightness \in Int /\ s.contrast \in Int /\ s.sat \in Int /\ s.hue \in 0 .. 3
    BY <1>6, SettingsAre
  <2>4. /\ Clamped(oy, 2 * n) /\ (Flat(y) => Flat(oy))
        /\ s.brightness = 0 /\ s.contrast = 100 /\ LegalPlane(y) => oy = y
    BY <1>3, <2>1, <2>3, ProcampYIs
  <2>5. /\ Clamped(ob, n) /\ Clamped(or, n)
        /\ Flat(b) /\ Flat(r) => Flat(ob) /\ Flat(or)
        /\ s.sat = 100 /\ s.hue = 0 /\ LegalPlane(b) /\ LegalPlane(r) => ob = b /\ or = r
    BY <1>3, <2>1, <2>3, ProcampCIs
  <2>6. out \in PixelLines(n) /\ Legal(out) /\ out.y = oy /\ out.cb = ob /\ out.cr = or
    BY <1>4, <2>2, <2>4, <2>5 DEF Clamped
  <2>7. Neutral(s) /\ Legal(src) => out = src
    BY <1>3, <1>6, <2>2, <2>4, <2>5 DEF Neutral
  <2>8. ~LumaOnly(s)
    BY <1>6 DEF LumaOnly
  <2> QED
    BY <1>1, <1>2, <1>6, <2>4, <2>5, <2>6, <2>7, <2>8 DEF Makes, Keeps
<1>7. CASE s.kind = "sharpen"
  <2>1. PICK oy : oy = Unsharp(s, y)
    OBVIOUS
  <2>2. out = [y |-> oy, cb |-> b, cr |-> r]
    BY <1>1, <1>2, <1>7, <2>1 DEF Filtered, Copied
  <2>3. s.amount \in Int
    BY <1>7, SettingsAre
  <2>4. /\ Clamped(oy, 2 * n) /\ (Flat(y) => Flat(oy))
        /\ s.amount = 0 /\ LegalPlane(y) => oy = y
    BY <1>3, <2>1, <2>3, UnsharpIs
  <2>5. /\ out \in PixelLines(n) /\ out.y = oy /\ out.cb = b /\ out.cr = r
        /\ LegalPlane(b) /\ LegalPlane(r) => Legal(out)
    BY <1>3, <1>4, <2>2, <2>4 DEF Clamped
  <2>6. Neutral(s) /\ Legal(src) => out = src
    BY <1>3, <1>7, <2>2, <2>4 DEF Neutral
  <2> QED
    BY <1>1, <1>2, <1>3, <1>7, <2>4, <2>5, <2>6 DEF Makes, Keeps
<1>8. CASE s.kind = "nr"
  <2>1. PICK oy, ob, or :
           /\ oy = IF s.luma > 0 THEN Bilateral(s.luma, y) ELSE y
           /\ ob = IF s.chroma > 0 THEN Bilateral(s.chroma, b) ELSE b
           /\ or = IF s.chroma > 0 THEN Bilateral(s.chroma, r) ELSE r
    OBVIOUS
  <2>2. out = [y |-> oy, cb |-> ob, cr |-> or]
    BY <1>1, <1>2, <1>8, <2>1 DEF Filtered, Copied
  <2>3. s.luma \in Nat /\ s.chroma \in Nat
    BY <1>8, SettingsAre
  <2>4. Reduced(oy, y, s.luma, 2 * n) /\ Reduced(ob, b, s.chroma, n) /\ Reduced(or, r, s.chroma, n)
    BY <1>3, <2>1, <2>3, ReducedIs, Zenon
  <2>5. oy \in Plane(2 * n) /\ ob \in Plane(n) /\ or \in Plane(n)
    BY <2>4, Zenon DEF Reduced
  <2>6. /\ out \in PixelLines(n) /\ out.y = oy /\ out.cb = ob /\ out.cr = or
        /\ LegalPlane(oy) /\ LegalPlane(ob) /\ LegalPlane(or) => Legal(out)
    BY <1>4, <2>2, <2>5
  <2>7. Neutral(s) => out = src
    BY <1>3, <1>8, <2>2, <2>4 DEF Neutral, Reduced
  <2>8. ~LumaOnly(s)
    BY <1>8 DEF LumaOnly
  <2> QED
    BY <1>1, <1>2, <1>3, <1>8, <2>4, <2>6, <2>7, <2>8 DEF Makes, Keeps, Reduced
<1>9. CASE s.kind = "grain"
  <2>1. PICK oy, ob, or :
           /\ oy = GrainY(s, y, field.y)
           /\ ob = IF s.color THEN GrainC(s, y, b, field.cb) ELSE b
           /\ or = IF s.color THEN GrainC(s, y, r, field.cr) ELSE r
    OBVIOUS
  <2>2. out = [y |-> oy, cb |-> ob, cr |-> or]
    BY <1>1, <1>2, <1>9, <2>1, Zenon DEF Filtered, Copied
  <2>3. s.amount \in Nat /\ s.color \in BOOLEAN
    BY <1>9, SettingsAre
  <2>4. /\ GrainOn(oy, y, 2 * n)
        /\ \A x \in 0 .. 2 * n - 1 : y[x] \in {64, 940} => oy[x] = y[x]
        /\ s.amount = 0 /\ LegalPlane(y) => oy = y
    BY <1>3, <2>1, <2>3, GrainYIs
  <2>5. /\ GrainOn(ob, b, n) /\ (s.amount = 0 /\ LegalPlane(b) => ob = b) /\ (~s.color => ob = b)
    <3>1. CASE s.color
      BY <1>3, <2>1, <2>3, <3>1, GrainCIs
    <3>2. CASE ~s.color
      BY <1>3, <2>1, <3>2, PlaneIs DEF GrainOn
    <3> QED
      BY <3>1, <3>2
  <2>6. /\ GrainOn(or, r, n) /\ (s.amount = 0 /\ LegalPlane(r) => or = r) /\ (~s.color => or = r)
    <3>1. CASE s.color
      BY <1>3, <2>1, <2>3, <3>1, GrainCIs
    <3>2. CASE ~s.color
      BY <1>3, <2>1, <3>2, PlaneIs DEF GrainOn
    <3> QED
      BY <3>1, <3>2
  <2>7. /\ out \in PixelLines(n) /\ out.y = oy /\ out.cb = ob /\ out.cr = or
        /\ LegalPlane(oy) /\ LegalPlane(ob) /\ LegalPlane(or) => Legal(out)
    BY <1>4, <2>2, <2>4, <2>5, <2>6 DEF GrainOn
  <2>8. Neutral(s) /\ Legal(src) => out = src
    BY <1>3, <1>9, <2>2, <2>4, <2>5, <2>6 DEF Neutral
  <2>9. LumaOnly(s) => ~s.color
    BY <1>9 DEF LumaOnly
  <2>10. Keeps(s, out, src)
    BY <1>2, <1>3, <2>4, <2>5, <2>6, <2>7, <2>8, <2>9, Zenon DEF Keeps, GrainOn
  <2>11. \A x \in DOMAIN src.y : src.y[x] \in {64, 940} => out.y[x] = src.y[x]
    BY <1>2, <1>5, <2>4, <2>7
  <2> QED
    BY <1>1, <1>9, <2>7, <2>10, <2>11 DEF Makes
<1> QED
  BY <1>6, <1>7, <1>8, <1>9, SettingsAre

-----------------------------------------------------------------------------
(* What the filters passed so far have made of the picture, and the salts *)

\* The salts of a filter that has made f frames.
Salted(q, f) ==
  /\ q \in Seq(Nat)
  /\ \A j \in DOMAIN q : q[j] < 4 * f
  /\ \A j, k \in DOMAIN q : j # k => q[j] # q[k]

LEMMA SaltMore ==
  ASSUME NEW f \in Nat, NEW q, Salted(q, f)
  PROVE  /\ Salted(q, f + 1)
         /\ Salted(q \o <<4 * f + 3>> \o <<>>, f + 1)
         /\ Salted(q \o <<4 * f + 3>> \o <<4 * f, 4 * f + 1>>, f + 1)
<1>1. /\ q \in Seq(Nat) /\ Len(q) \in Nat /\ DOMAIN q = 1 .. Len(q)
      /\ \A j \in 1 .. Len(q) : q[j] \in Nat /\ q[j] < 4 * f
      /\ \A j, k \in 1 .. Len(q) : j # k => q[j] # q[k]
  BY DEF Salted
<1>2. Salted(q, f + 1)
  BY <1>1 DEF Salted
<1>3. PICK l, a, b, c : l = Len(q) /\ a = 4 * f + 3 /\ b = 4 * f /\ c = 4 * f + 1
  OBVIOUS
<1>4. a \in Nat /\ b \in Nat /\ c \in Nat /\ a # b /\ a # c /\ b # c
      /\ a < 4 * (f + 1) /\ b < 4 * (f + 1) /\ c < 4 * (f + 1) /\ 4 * f <= a /\ 4 * f <= b /\ 4 * f <= c
  BY <1>3
<1>5. ASSUME NEW r, r = q \o <<a>> \o <<>> \/ r = q \o <<a>> \o <<b, c>>
      PROVE  Salted(r, f + 1)
  <2>1. PICK n : n = Len(r)
    OBVIOUS
  <2>2. /\ r \in Seq(Nat) /\ n \in l + 1 .. l + 3
        /\ \A j \in 1 .. l : r[j] = q[j]
        /\ r[l + 1] = a /\ (n > l + 1 => r[l + 2] = b /\ r[l + 3] = c)
    <3>0. q \in Seq(Nat) /\ <<a>> \in Seq(Nat) /\ <<>> \in Seq(Nat) /\ <<b, c>> \in Seq(Nat)
      BY <1>1, <1>4
    <3>1. PICK e : e = q \o <<a>>
      OBVIOUS
    <3>2. e \in Seq(Nat) /\ Len(e) = l + 1 /\ (\A j \in 1 .. l : e[j] = q[j]) /\ e[l + 1] = a
      BY <1>1, <1>3, <1>4, <3>0, <3>1
    <3>3. CASE r = e \o <<>>
      <4>1. r = e
        BY <3>2, <3>3, ConcatEmptySeq
      <4>2. l \in Nat /\ n = l + 1
        BY <1>1, <1>3, <2>1, <3>2, <4>1
      <4> QED
        BY <3>2, <4>1, <4>2
    <3>4. CASE r = e \o <<b, c>>
      <4>1. r \in Seq(Nat) /\ Len(r) = Len(e) + 2 /\ (\A j \in 1 .. Len(e) : r[j] = e[j])
            /\ r[Len(e) + 1] = b /\ r[Len(e) + 2] = c
        <5>1. PICK t : t = <<b, c>>
          OBVIOUS
        <5>2. t \in Seq(Nat) /\ Len(t) = 2 /\ t[1] = b /\ t[2] = c
          BY <1>4, <5>1
        <5>3. r = e \o t
          BY <3>4, <5>1
        <5>4. PICK k : k = Len(e)
          OBVIOUS
        <5>5. k \in Nat /\ e \in Seq(Nat)
          BY <3>2, <5>4
        <5>6. /\ r \in Seq(Nat) /\ Len(r) = Len(e) + Len(t)
              /\ \A j \in 1 .. Len(e) + Len(t) : r[j] = IF j <= Len(e) THEN e[j] ELSE t[j - Len(e)]
          BY <5>2, <5>3, <5>5, ConcatProperties, Zenon
        <5>7. Len(r) = k + 2 /\ \A j \in 1 .. k + 2 : r[j] = IF j <= k THEN e[j] ELSE t[j - k]
          BY <5>2, <5>4, <5>6
        <5>8. /\ k + 1 \in 1 .. k + 2 /\ ~(k + 1 <= k) /\ (k + 1) - k = 1
              /\ k + 2 \in 1 .. k + 2 /\ ~(k + 2 <= k) /\ (k + 2) - k = 2
              /\ \A j \in 1 .. k : j \in 1 .. k + 2 /\ j <= k
          BY <5>5
        <5>9. r[k + 1] = b /\ r[k + 2] = c /\ \A j \in 1 .. k : r[j] = e[j]
          BY <5>2, <5>7, <5>8
        <5> QED
          BY <5>4, <5>6, <5>7, <5>9, Zenon
      <4>2. l \in Nat /\ n = l + 3 /\ Len(e) = l + 1 /\ l + 1 \in 1 .. l + 1
            /\ (l + 1) + 1 = l + 2 /\ (l + 1) + 2 = l + 3 /\ \A j \in 1 .. l : j \in 1 .. l + 1
        BY <1>1, <1>3, <2>1, <3>2, <4>1
      <4>3. r[l + 2] = b /\ r[l + 3] = c
        BY <4>1, <4>2, Zenon
      <4>4. r[l + 1] = a /\ \A j \in 1 .. l : r[j] = q[j]
        BY <3>2, <4>1, <4>2, Zenon
      <4> QED
        BY <4>1, <4>2, <4>3, <4>4
    <3> QED
      BY <1>5, <3>1, <3>3, <3>4, Zenon
  <2>3. DOMAIN r = 1 .. n /\ \A j \in 1 .. n : j \in 1 .. l \/ j = l + 1 \/ (n > l + 1 /\ (j = l + 2 \/ j = l + 3))
    <3>1. DOMAIN r = 1 .. n
      BY <2>1, <2>2
    <3>2. l \in Nat /\ n \in Nat /\ n <= l + 3
      BY <1>1, <1>3, <2>2
    <3>3. \A j \in 1 .. n : j \in 1 .. l \/ j = l + 1 \/ (n > l + 1 /\ (j = l + 2 \/ j = l + 3))
      BY <3>2
    <3> QED
      BY <3>1, <3>3
  <2>4. \A j \in 1 .. l : r[j] \in Nat /\ r[j] < 4 * f
    BY <1>1, <1>3, <2>2
  <2>5. ASSUME NEW j \in 1 .. n PROVE r[j] < 4 * (f + 1)
    <3>1. CASE j \in 1 .. l
      <4>1. r[j] \in Nat /\ r[j] < 4 * f
        BY <2>4, <3>1
      <4> QED
        BY <4>1
    <3>2. CASE j = l + 1
      BY <1>4, <2>2, <3>2
    <3>3. CASE n > l + 1 /\ (j = l + 2 \/ j = l + 3)
      BY <1>4, <2>2, <3>3
    <3> QED
      BY <2>3, <3>1, <3>2, <3>3
  <2>6. \A j, k \in 1 .. l : j # k => r[j] # r[k]
    BY <1>1, <1>3, <2>2, SMTT(30)
  <2>7. \A j \in 1 .. n : j \notin 1 .. l => 4 * f <= r[j]
    BY <1>4, <2>2, <2>3
  <2>8. ASSUME NEW j \in 1 .. n, NEW k \in 1 .. n, j # k PROVE r[j] # r[k]
    <3>1. CASE j \in 1 .. l /\ k \in 1 .. l
      BY <2>6, <2>8, <3>1
    <3>2. CASE j \in 1 .. l /\ k \notin 1 .. l
      <4>1. r[j] \in Nat /\ r[j] < 4 * f /\ 4 * f <= r[k]
        BY <2>4, <2>7, <3>2
      <4> QED
        BY <4>1
    <3>3. CASE j \notin 1 .. l /\ k \in 1 .. l
      <4>1. r[k] \in Nat /\ r[k] < 4 * f /\ 4 * f <= r[j]
        BY <2>4, <2>7, <3>3
      <4> QED
        BY <4>1
    <3>4. CASE j \notin 1 .. l /\ k \notin 1 .. l
      BY <1>4, <2>2, <2>3, <2>8, <3>4
    <3> QED
      BY <3>1, <3>2, <3>3, <3>4
  <2> QED
    BY <2>2, <2>3, <2>5, <2>8 DEF Salted
<1> QED
  BY <1>2, <1>3, <1>5

\* The picture so far.
SoFar(p, g, to) ==
  LET n == Size(g.cb) IN
  /\ n \in Nat /\ g \in PixelLines(n) /\ p \in PixelLines(n)
  /\ Legal(g) => Legal(p)
  /\ Legal(g) /\ (\A i \in 1 .. to : Neutral(stages[i])) => p = g
  /\ (\A i \in 1 .. to : LumaOnly(stages[i])) => p.cb = g.cb /\ p.cr = g.cr
  /\ (\A i \in 1 .. to : stages[i].kind = "grain") =>
       \A x \in DOMAIN g.y : g.y[x] \in {64, 940} => p.y[x] = g.y[x]
  /\ (\A i \in 1 .. to : stages[i].kind # "grain") =>
       /\ Flat(g.y) => Flat(p.y)
       /\ Flat(g.cb) /\ Flat(g.cr) => Flat(p.cb) /\ Flat(p.cr)

FilterInv ==
  /\ stages \in Seq(FilterSettings) /\ stages # <<>> /\ pos \in 0 .. Len(stages)
  /\ frames_ \in [DOMAIN stages -> Nat] /\ drawn = [i \in DOMAIN stages |-> drawn[i]]
  /\ \A i \in DOMAIN stages : Salted(drawn[i], frames_[i])
  /\ SoFar(pic, got, pos)

LEMMA AsReceived ==
  ASSUME NEW p, Size(p.cb) \in Nat, p \in PixelLines(Size(p.cb)), NEW to
  PROVE  SoFar(p, p, to)
BY DEF SoFar

LEMMA FreshIs == Size(Fresh(0).cb) = 0 /\ Fresh(0) \in PixelLines(0)
<1>1. 0 .. (2 * 0) - 1 = {} /\ 0 .. 0 - 1 = {}
  OBVIOUS
<1>2. Fresh(0).cb = [x \in {} |-> 0] /\ Fresh(0) = [y |-> [x \in {} |-> 0], cb |-> [x \in {} |-> 0], cr |-> [x \in {} |-> 0]]
  BY <1>1 DEF Fresh
<1>3. Size(Fresh(0).cb) = 0
  <2>1. DOMAIN Fresh(0).cb = {}
    BY <1>2
  <2>2. Cardinality({}) = 0
    BY FS_EmptySet
  <2> QED
    BY <2>1, <2>2, Zenon DEF Size
<1>4. Plane(2 * 0) = [{} -> Codes] /\ Plane(0) = [{} -> Codes]
  BY <1>1 DEF Plane
<1>5. Fresh(0) \in PixelLines(0)
  <2>1. PICK none : none = [x \in {} |-> 0]
    OBVIOUS
  <2>2. none \in [{} -> Codes]
    BY <2>1
  <2>3. none \in Plane(2 * 0) /\ none \in Plane(0)
    BY <1>4, <2>2, Zenon
  <2>4. [y |-> none, cb |-> none, cr |-> none] \in PixelLines(0)
    BY <2>3, LineOf
  <2> QED
    BY <1>2, <2>1, <2>4, Zenon
<1> QED
  BY <1>3, <1>5

LEMMA FilterInitInv == FilterInit => FilterInv
<1> SUFFICES ASSUME FilterInit PROVE FilterInv
  OBVIOUS
<1>1. stages \in Seq(FilterSettings) /\ stages # <<>>
  BY PictureAssumption DEF FilterInit
<1>2. Len(stages) \in Nat /\ pos \in 0 .. Len(stages)
  BY <1>1 DEF FilterInit
<1>3. frames_ \in [DOMAIN stages -> Nat] /\ drawn = [i \in DOMAIN stages |-> drawn[i]]
      /\ \A i \in DOMAIN stages : drawn[i] = <<>> /\ frames_[i] = 0
  BY DEF FilterInit
<1>4. \A i \in DOMAIN stages : Salted(drawn[i], frames_[i])
  <2>1. Salted(<<>>, 0)
    BY DEF Salted
  <2> QED
    BY <1>3, <2>1
<1>5. SoFar(pic, got, pos)
  <2>1. SoFar(Fresh(0), Fresh(0), pos)
    BY FreshIs, AsReceived
  <2> QED
    BY <2>1 DEF FilterInit
<1> QED
  BY <1>1, <1>2, <1>3, <1>4, <1>5 DEF FilterInv

\* One filter more.
LEMMA OneMore ==
  ASSUME NEW to \in Nat, NEW p, NEW g, NEW q, SoFar(p, g, to),
         Makes(stages[to + 1], q, p, Size(g.cb))
  PROVE  SoFar(q, g, to + 1)
<1>1. PICK s, n : s = stages[to + 1] /\ n = Size(g.cb)
  OBVIOUS
<1>2. to + 1 \in 1 .. to + 1 /\ \A i \in 1 .. to : i \in 1 .. to + 1
  OBVIOUS
<1>3. n \in Nat /\ g \in PixelLines(n) /\ q \in PixelLines(n) /\ (Legal(g) => Legal(q))
  BY <1>1, Zenon DEF SoFar, Makes, Keeps
<1>4. ASSUME Legal(g), \A i \in 1 .. to + 1 : Neutral(stages[i]) PROVE q = g
  BY <1>1, <1>2, <1>4, Zenon DEF SoFar, Makes, Keeps
<1>5. ASSUME \A i \in 1 .. to + 1 : LumaOnly(stages[i]) PROVE q.cb = g.cb /\ q.cr = g.cr
  BY <1>1, <1>2, <1>5, Zenon DEF SoFar, Makes, Keeps
<1>6. ASSUME \A i \in 1 .. to + 1 : stages[i].kind = "grain",
             NEW x \in DOMAIN g.y, g.y[x] \in {64, 940}
      PROVE  q.y[x] = g.y[x]
  <2>1. p.y[x] = g.y[x]
    BY <1>2, <1>6 DEF SoFar
  <2>2. p \in PixelLines(n) /\ 2 * n \in Nat /\ p.y \in Plane(2 * n) /\ g.y \in Plane(2 * n)
    BY <1>1, <1>3, LineIs DEF SoFar
  <2>3. DOMAIN p.y = DOMAIN g.y
    BY <2>2, PlaneIs
  <2>4. stages[to + 1].kind = "grain"
    BY <1>2, <1>6
  <2> QED
    BY <1>6, <2>1, <2>3, <2>4 DEF Makes
<1>7. ASSUME \A i \in 1 .. to + 1 : stages[i].kind # "grain"
      PROVE  /\ Flat(g.y) => Flat(q.y)
             /\ Flat(g.cb) /\ Flat(g.cr) => Flat(q.cb) /\ Flat(q.cr)
  <2>1. stages[to + 1].kind # "grain" /\ \A i \in 1 .. to : stages[i].kind # "grain"
    BY <1>2, <1>7
  <2>2. /\ Flat(g.y) => Flat(p.y)
        /\ Flat(g.cb) /\ Flat(g.cr) => Flat(p.cb) /\ Flat(p.cr)
    BY <2>1 DEF SoFar
  <2>3. /\ Flat(p.y) => Flat(q.y)
        /\ Flat(p.cb) /\ Flat(p.cr) => Flat(q.cb) /\ Flat(q.cr)
    BY <2>1 DEF Makes
  <2> QED
    BY <2>2, <2>3
<1> QED
  BY <1>1, <1>3, <1>4, <1>5, <1>6, <1>7 DEF SoFar

LEMMA SoFarStays ==
  ASSUME stages' = stages, NEW p, NEW g, NEW to, SoFar(p, g, to)
  PROVE  SoFar(p, g, to)'
BY DEF SoFar

LEMMA FilterStep == FilterInv /\ [FilterNext]_filterVars => FilterInv'
<1> SUFFICES ASSUME FilterInv, [FilterNext]_filterVars PROVE FilterInv'
  OBVIOUS
<1>1. ASSUME NEW p \in Pictures, Receives(p) PROVE FilterInv'
  <2>1. stages' = stages /\ frames_' = frames_ /\ drawn' = drawn /\ got' = p /\ pic' = p /\ pos' = 0
    BY <1>1 DEF Receives
  <2>2. SoFar(p, p, 0)
    BY PictureAssumption, AsReceived
  <2>3. SoFar(p, p, 0)'
    BY <2>1, <2>2, SoFarStays
  <2>4. SoFar(pic, got, pos)'
    BY <2>1, <2>3 DEF SoFar
  <2>5. stages \in Seq(FilterSettings) /\ stages # <<>> /\ 0 \in 0 .. Len(stages)
    BY DEF FilterInv
  <2> QED
    BY <2>1, <2>4, <2>5 DEF FilterInv
<1>2. ASSUME NEW field \in Fields, Computes(field) PROVE FilterInv'
  <2>1. PICK i, s, dst, f :
          /\ i = pos + 1 /\ s = stages[i] /\ f = frames_[i]
          /\ dst = Filtered(s, Ensured(pool[i], Size(pic.cb))[idx[i]], pic, field)
    OBVIOUS
  <2>2. /\ pos < Len(stages) /\ stages' = stages /\ got' = got /\ pic' = dst /\ pos' = i
        /\ frames_' = [frames_ EXCEPT ![i] = @ + 1]
        /\ drawn' = [drawn EXCEPT ![i] =
             IF s.kind # "grain" THEN @
             ELSE @ \o <<Salt(frames_[i], 3)>> \o
                  (IF s.color THEN <<Salt(frames_[i], 0), Salt(frames_[i], 1)>> ELSE <<>>)]
    BY <1>2, <2>1 DEF Computes
  <2>3. /\ stages \in Seq(FilterSettings) /\ stages # <<>> /\ pos \in 0 .. Len(stages)
        /\ Len(stages) \in Nat /\ DOMAIN stages = 1 .. Len(stages)
        /\ frames_ \in [DOMAIN stages -> Nat] /\ drawn = [k \in DOMAIN stages |-> drawn[k]]
        /\ \A k \in DOMAIN stages : Salted(drawn[k], frames_[k])
        /\ SoFar(pic, got, pos)
    BY DEF FilterInv
  <2>4. i \in DOMAIN stages /\ i \in 0 .. Len(stages) /\ pos \in Nat
    BY <2>1, <2>2, <2>3
  <2>5. s \in FilterSettings
    BY <2>1, <2>3, <2>4
  <2>6. Makes(s, dst, pic, Size(got.cb))
    <3>1. field.y \in Int /\ field.cb \in Int /\ field.cr \in Int
      BY PictureAssumption
    <3>2. Size(got.cb) \in Nat /\ pic \in PixelLines(Size(got.cb))
      BY <2>3 DEF SoFar
    <3>3. PICK old : old = Ensured(pool[i], Size(pic.cb))[idx[i]]
      OBVIOUS
    <3> QED
      BY <2>1, <2>5, <3>1, <3>2, <3>3, FilterMakes, Zenon
  <2>7. SoFar(pic, got, pos)'
    <3>1. PICK p, g, to : p = pic /\ g = got /\ to = pos
      OBVIOUS
    <3>2. SoFar(dst, g, to + 1)
      BY <2>1, <2>3, <2>4, <2>6, <3>1, OneMore
    <3>3. SoFar(dst, g, to + 1)'
      BY <2>2, <3>2, SoFarStays
    <3>4. pic' = dst /\ got' = g /\ pos' = to + 1
      BY <2>1, <2>2, <3>1
    <3> QED
      BY <3>3, <3>4 DEF SoFar
  <2>8. /\ frames_' \in [DOMAIN stages' -> Nat] /\ drawn' = [k \in DOMAIN stages' |-> drawn'[k]]
        /\ \A k \in DOMAIN stages : Salted(drawn'[k], frames_'[k])
    <3>1. f \in Nat /\ Salted(drawn[i], f)
      BY <2>1, <2>3, <2>4
    <3>2. frames_' \in [DOMAIN stages -> Nat] /\ frames_'[i] = f + 1
      BY <2>1, <2>2, <2>3, <2>4
    <3>3. \A k \in DOMAIN stages : k # i => drawn'[k] = drawn[k] /\ frames_'[k] = frames_[k]
      BY <2>2, <2>3
    <3>4. drawn' = [k \in DOMAIN stages |-> drawn'[k]]
      BY <2>2, <2>3
    <3>5. Salted(drawn'[i], f + 1)
      <4>1. PICK q : q = drawn[i]
        OBVIOUS
      <4>2. drawn'[i] = IF s.kind # "grain" THEN q
                        ELSE q \o <<Salt(f, 3)>> \o (IF s.color THEN <<Salt(f, 0), Salt(f, 1)>> ELSE <<>>)
        BY <2>1, <2>2, <2>3, <2>4, <4>1
      <4>3. Salt(f, 3) = 4 * f + 3 /\ Salt(f, 0) = 4 * f /\ Salt(f, 1) = 4 * f + 1
        BY <3>1 DEF Salt
      <4>4. \/ drawn'[i] = q
            \/ drawn'[i] = q \o <<4 * f + 3>> \o <<>>
            \/ drawn'[i] = q \o <<4 * f + 3>> \o <<4 * f, 4 * f + 1>>
        BY <4>2, <4>3, Zenon
      <4>5. /\ Salted(q, f + 1)
            /\ Salted(q \o <<4 * f + 3>> \o <<>>, f + 1)
            /\ Salted(q \o <<4 * f + 3>> \o <<4 * f, 4 * f + 1>>, f + 1)
        BY <3>1, <4>1, SaltMore
      <4> QED
        BY <4>4, <4>5, Zenon
    <3> QED
      BY <2>2, <2>3, <2>4, <3>2, <3>3, <3>4, <3>5
  <2> QED
    BY <2>2, <2>3, <2>4, <2>7, <2>8 DEF FilterInv
<1>3. CASE UNCHANGED filterVars
  <2>1. /\ stages' = stages /\ frames_' = frames_ /\ drawn' = drawn /\ got' = got /\ pic' = pic /\ pos' = pos
    BY <1>3 DEF filterVars
  <2> QED
    BY <2>1 DEF FilterInv, SoFar
<1> QED
  BY <1>1, <1>2, <1>3 DEF FilterNext

LEMMA FilteredIs == FilterInv => FilteredRight
<1> SUFFICES ASSUME FilterInv, pos = Len(stages) PROVE FilteredRight
  BY DEF FilteredRight
<1>1. /\ stages \in Seq(FilterSettings) /\ DOMAIN stages = 1 .. pos
      /\ SoFar(pic, got, pos)
      /\ \A i \in DOMAIN stages : Salted(drawn[i], frames_[i])
  BY DEF FilterInv
<1>2. DOMAIN pic.y = DOMAIN got.y /\ DOMAIN pic.cb = DOMAIN got.cb
  <2>1. PICK n \in Nat : got \in PixelLines(n) /\ pic \in PixelLines(n)
    BY <1>1 DEF SoFar
  <2>2. /\ 2 * n \in Nat /\ pic.y \in Plane(2 * n) /\ got.y \in Plane(2 * n)
        /\ pic.cb \in Plane(n) /\ got.cb \in Plane(n)
    BY <2>1, LineIs
  <2> QED
    BY <2>2, PlaneIs
<1>3. Legal(got) => Legal(pic) /\ ((\A i \in DOMAIN stages : Neutral(stages[i])) => pic = got)
  BY <1>1, Zenon DEF SoFar
<1>4. (\A i \in DOMAIN stages : LumaOnly(stages[i])) => pic.cb = got.cb /\ pic.cr = got.cr
  BY <1>1, Zenon DEF SoFar
<1>5. Kinds = {"grain"} => \A x \in DOMAIN got.y : got.y[x] \in {64, 940} => pic.y[x] = got.y[x]
  <2>1. Kinds = {"grain"} => \A i \in DOMAIN stages : stages[i].kind = "grain"
    BY DEF Kinds
  <2> QED
    BY <1>1, <2>1 DEF SoFar
<1>6. "grain" \notin Kinds => (Flat(got.y) => Flat(pic.y)) /\ (Flat(got.cb) /\ Flat(got.cr) => Flat(pic.cb))
  <2>1. "grain" \notin Kinds => \A i \in DOMAIN stages : stages[i].kind # "grain"
    BY DEF Kinds
  <2> QED
    BY <1>1, <2>1 DEF SoFar
<1>7. \A i \in DOMAIN stages : \A j, k \in DOMAIN drawn[i] : j # k => drawn[i][j] # drawn[i][k]
  BY <1>1 DEF Salted
<1> QED
  BY <1>2, <1>3, <1>4, <1>5, <1>6, <1>7 DEF FilteredRight

-----------------------------------------------------------------------------
(* The operator that runs *)

\* The parts that do not run stand still; nothing is said of a running motion part.
PictureInv == ScaleInv /\ FilterInv /\ (part # "motion" => built = 0)

LEMMA PictureInductive ==
  (PictureInit => PictureInv) /\ (PictureInv /\ [PictureNext]_pictureVars => PictureInv')
<1>1. PictureInit => PictureInv
  BY ScaleInitInv, FilterInitInv DEF PictureInit, PictureInv, MotionInit
<1>2. ASSUME PictureInv, [PictureNext]_pictureVars PROVE PictureInv'
  <2>1. [ScaleNext]_scaleVars /\ [FilterNext]_filterVars
    BY <1>2 DEF PictureNext, pictureVars
  <2>2. ScaleInv' /\ FilterInv'
    BY <1>2, <2>1, ScaleStep, FilterStep DEF PictureInv
  <2>3. (part # "motion" => built = 0)'
    <3>1. part' = part /\ (part # "motion" => built' = built)
      BY <1>2 DEF PictureNext, pictureVars, motionVars
    <3> QED
      BY <1>2, <3>1 DEF PictureInv
  <2> QED
    BY <2>2, <2>3 DEF PictureInv
<1> QED
  BY <1>1, <1>2

\* The scaler and the filters make the picture they should, whatever the net and its
\* blob, the sizes, the chain of filters and their settings, the pictures and the random
\* fields: an engine that loads a net computes that net, however its convolutions were
\* fused and in whichever buffer they passed, a frame is complete or not shown, and what
\* comes out of the filters is made of the picture that went in.
THEOREM PicturesAreRight == PictureSpec => [](part # "motion" => PicturesRight)
<1>1. PictureInit => PictureInv
  BY PictureInductive
<1>2. PictureInv /\ [PictureNext]_pictureVars => PictureInv'
  BY PictureInductive
<1>3. PictureInv => (part # "motion" => PicturesRight)
  <2>1. part # "motion" /\ PictureInv => MidRight
    BY DEF PictureInv, MidRight
  <2> QED
    BY <2>1, ScaledIs, FilteredIs DEF PictureInv, PicturesRight
<1> QED
  BY <1>1, <1>2, <1>3, PTL DEF PictureSpec
=============================================================================
