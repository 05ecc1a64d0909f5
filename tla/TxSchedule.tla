----------------------------- MODULE TxSchedule -----------------------------
(***************************************************************************)
(* St2110TxOp::compute (st2110_tx.cpp): when the packets of a frame leave. *)
(*                                                                         *)
(* A frame reaches the operator some time after its capture.  The operator *)
(* decides whether it is sent, at which instant of the NIC clock its first *)
(* packet leaves (schedule_base_ns_), and which RTP time stamp it carries  *)
(* (media_ts_ns_), and then blocks until nearly all packets fit the pacing *)
(* horizon.  A configuration selects one of four schedules:                *)
(*   fixed    capture + latency_ns; a late frame is not sent               *)
(*   genlock  capture + a calibrated offset, with skips, re-anchors, trim  *)
(*   servo    frames without a capture time, held near a target lead       *)
(*   grid     frames without a capture time, one every frame interval      *)
(*                                                                         *)
(* Time is kept relative to the NIC clock at the last frame, so that there *)
(* is no absolute clock: "age" is now - capture, "ahead" is                *)
(* schedule_base_ns_ - now.  One unit stands for any number of ns.         *)
(*                                                                         *)
(* Abstracted: packets between the first and the last of a frame, byte     *)
(* counts, statistics (trim_total_ns_, skipped_late_), the audio relay.    *)
(*                                                                         *)
(* An operator Bug... is a wrong variant of the operator after it.         *)
(***************************************************************************)
EXTENDS Integers, Sequences, FiniteSets

CONSTANTS
  Modes,      \* the schedules a configuration may select
  Interval,   \* frame_interval_ns_
  Active,     \* from the first packet of a frame to the last
  Horizon,    \* eff_horizon_ns_
  Preload,    \* pacing_horizon_ns_, as configured
  SpinCap,    \* longest wait for one packet (50 ms)
  Latency,    \* latency_ns_
  SkipFloor,  \* kFixedSkipFloorNs
  Lead,       \* reanchor_lead_ns_
  Trim,       \* trim_ns_
  Window,     \* frames per bucket of the skip-rate window (64)
  Clip,       \* clipped frames in two buckets that are tolerated (32)
  Streak,     \* consecutive skips that are tolerated (32)
  Arm, ArmMax,\* first and longest re-arm delay of the trim (512, 8192)
  BackMin,    \* least back-off of the trim (4 ms)
  Ages,       \* delays of the pipeline in front of the operator
  MaxJump,    \* bound: source frames from one frame to the next that arrives
  Far,        \* bound: further back or apart than this is all the same
  Unsteady

ASSUME TxAssumption ==
  /\ Modes \subseteq {"fixed", "genlock", "servo", "grid"}
  /\ {Interval, Active, Horizon, Preload, SpinCap, Latency, SkipFloor, Lead,
      Trim, Window, Clip, Streak, Arm, ArmMax, BackMin, MaxJump, Far} \subseteq Nat
  /\ Ages \subseteq Nat /\ Unsteady \notin Ages
  /\ Interval > 0 /\ Lead > 0 /\ Window > 0 /\ MaxJump > 0
  /\ Lead <= 2 * Interval /\ Trim <= Lead \div 4
  /\ Active + Trim <= Interval
  /\ Arm <= ArmMax

VARIABLES
  mode,     \* the schedule in use
  offset,   \* genlock_offset_; 0: not calibrated
  servo,    \* state of the skip guards and of the trim
  begun,    \* schedule_base_ns_ and media_ts_ns_ are set
  ahead,    \* schedule_base_ns_ - now
  skew,     \* schedule_base_ns_ - media_ts_ns_ (read in genlock mode only)
  throttle, \* throttle_enabled_
  age,      \* now - capture of the last frame
  busy,     \* how long compute() blocked after that "now"
  last,     \* what became of the last frame
  clips,    \* the last Window frames since a re-anchor: clipped or not
  steady    \* Unsteady, or the pipeline delay of every frame from now on

vars == <<mode, offset, servo, begun, ahead, skew, throttle, age, busy, last,
          clips, steady>>
-----------------------------------------------------------------------------
Greater(x, y) == IF x >= y THEN x ELSE y
Lesser(x, y) == IF x <= y THEN x ELSE y

\* C++ division: toward zero.
Divided(x, n) == IF x >= 0 THEN x \div n ELSE -((-x) \div n)

Within(x, limit) == Lesser(Greater(x, -limit), limit)

FreshServo == [streak |-> 0, count |-> 0, skips |-> 0, prev |-> 0,
               since |-> 0, arm |-> Arm, shaved |-> 0]
NoClips == [i \in 1 .. Window |-> FALSE]

Init ==
  /\ mode \in Modes
  /\ offset = 0
  /\ servo = FreshServo
  /\ begun = FALSE
  /\ ahead = 0 /\ skew = 0
  /\ throttle = TRUE
  /\ age \in Ages
  /\ busy = 0
  /\ last = [kind |-> "none", lead |-> 0, gap |-> 0, anchored |-> FALSE]
  /\ clips = NoClips
  /\ steady = Unsteady

\* The source frame k after the last one, with pipeline delay a, is taken: not
\* before compute() has returned from the last one.
NextAge(a, k) == Greater(a, age + busy - k * Interval)
Passed(a, k) == k * Interval + NextAge(a, k) - age

\* What all frames have in common; ahead at the moment a frame is looked at.
Arrive(a, k) ==
  /\ steady # Unsteady => a = steady /\ k = 1
  /\ age' = NextAge(a, k)
  /\ UNCHANGED <<mode, steady>>
AheadNow(a, k) == ahead - Passed(a, k)

\* compute() returns without sending.
Unsent(a, k) ==
  /\ ahead' = Greater(AheadNow(a, k), -(Far + NextAge(a, k)))
  /\ busy' = 0
  /\ last' = [kind |-> "skipped", lead |-> 0, gap |-> 0, anchored |-> FALSE]
  /\ UNCHANGED <<begun, throttle>>
-----------------------------------------------------------------------------
(* Sending *)

\* The closed-loop throttle: the wait for the first packet may hit the cap.
BugCapHit(lead) == throttle /\ lead > SpinCap
CapHit(lead) == throttle /\ lead - Horizon > SpinCap
BlockedFor(lead) ==
  IF ~throttle THEN 0
  ELSE IF CapHit(lead) THEN SpinCap
  ELSE Greater(0, lead + Active - Horizon)

\* The media clock slews toward the wire base by at most Trim per frame.
BugSlewed(x) == x
Slewed(x) == x - Within(x, Trim)

\* The packet loop: the first packet leaves lead after "now".
Send(lead, a, k, anchored) ==
  LET gap == IF begun THEN lead - AheadNow(a, k) ELSE 0 IN
  /\ ahead' = lead + Interval
  /\ skew' = IF mode = "genlock" /\ begun THEN Within(Slewed(skew + gap), Far) ELSE skew
  /\ begun' = TRUE
  /\ throttle' = (throttle /\ ~CapHit(lead))
  /\ busy' = BlockedFor(lead)
  /\ last' = [kind |-> "sent", lead |-> lead, gap |-> gap, anchored |-> anchored]
-----------------------------------------------------------------------------
(* Fixed latency *)

FixedLate(lead) == lead < SkipFloor

FixedFrame(a, k) ==
  LET lead == Latency - NextAge(a, k) IN
  /\ mode = "fixed"
  /\ Arrive(a, k)
  /\ IF FixedLate(lead)
     THEN Unsent(a, k) /\ UNCHANGED <<offset, skew>>
     ELSE Send(lead, a, k, FALSE) /\ offset' = Latency
  /\ UNCHANGED <<servo, clips>>
-----------------------------------------------------------------------------
(* Genlock *)

\* The first frame calibrates the offset.
Calibrated(a, k) == IF offset = 0 THEN NextAge(a, k) + Lead ELSE offset
GenlockLead(a, k) == Calibrated(a, k) - NextAge(a, k)

\* The skip-rate window moves on.
Rotated ==
  IF servo.count + 1 >= Window
  THEN [servo EXCEPT !.prev = servo.skips, !.skips = 0, !.count = 0]
  ELSE [servo EXCEPT !.count = @ + 1]

BugChronic == Rotated.skips > Clip
Chronic == Rotated.skips + Rotated.prev > Clip

BugStreakNext == servo.streak
StreakNext == servo.streak + 1
MaySkip == servo.streak < Streak /\ ~Chronic

Late(lead) == lead < Lead \div 4
Shallow(lead) == lead > -Interval
Armed == Trim > 0 /\ servo.since > servo.arm

\* The skip of an armed trim has probed the floor: give latency back.
BugBackOff(lead) == 3 * Interval - lead
BackOff(lead) == Greater(Greater(2 * Lead - lead, servo.shaved \div 2), BackMin)

\* Saturates where nothing tells it from more (bound: ArmMax + 1).
SinceNext(n) == Lesser(n + 1, ArmMax + 1)

Clipped(b) == Append(Tail(clips), b)

Skipped(lead) ==
  [Rotated EXCEPT !.streak = StreakNext, !.since = 0,
                  !.skips = @ + IF Shallow(lead) THEN 1 ELSE 0]

GenlockSkip(a, k) ==
  LET lead == GenlockLead(a, k) IN
  /\ mode = "genlock"
  /\ Arrive(a, k)
  /\ Late(lead) /\ MaySkip
  /\ IF Armed
     THEN /\ offset' = Calibrated(a, k) + BackOff(lead)
          /\ servo' = [Skipped(lead) EXCEPT !.shaved = 0, !.arm = Lesser(2 * @, ArmMax)]
     ELSE offset' = Calibrated(a, k) /\ servo' = Skipped(lead)
  /\ skew' = IF begun THEN Within(skew - Interval, Far) ELSE skew
  /\ clips' = Clipped(Shallow(lead))
  /\ Unsent(a, k)

BugTooEarly(lead) == FALSE
TooEarly(lead) == lead > 2 * Interval
OutOfBand(lead) == Late(lead) \/ TooEarly(lead)

\* A new offset, and the guards start afresh.
GenlockReanchor(a, k) ==
  LET lead == GenlockLead(a, k) IN
  /\ mode = "genlock"
  /\ Arrive(a, k)
  /\ OutOfBand(lead) /\ ~(Late(lead) /\ MaySkip)
  /\ offset' = NextAge(a, k) + Lead
  /\ servo' = [FreshServo EXCEPT !.since = SinceNext(0)]
  /\ clips' = NoClips
  /\ Send(Lead, a, k, TRUE)

\* A frame in the band is sent; an armed trim shaves the offset.
BugShave == IF Armed THEN 2 * Trim ELSE 0
Shave == IF Armed THEN Trim ELSE 0

GenlockSend(a, k) ==
  LET lead == GenlockLead(a, k) IN
  /\ mode = "genlock"
  /\ Arrive(a, k)
  /\ ~OutOfBand(lead)
  /\ offset' = Calibrated(a, k) - Shave
  /\ servo' = [Rotated EXCEPT !.streak = 0, !.since = SinceNext(@), !.shaved = @ + Shave]
  /\ clips' = Clipped(FALSE)
  /\ Send(lead - Shave, a, k, FALSE)
-----------------------------------------------------------------------------
(* Frames without a capture time *)

\* A fraction of the error per frame, or a resync after a stall.
ServoFrame(a, k) ==
  LET err == Lead - AheadNow(a, k)
      stall == begun /\ (err > Interval \/ err < -Interval)
  IN
  /\ mode = "servo"
  /\ Arrive(a, k)
  /\ IF ~begun \/ stall THEN Send(Lead, a, k, stall)
     ELSE Send(AheadNow(a, k) + Divided(err, 8), a, k, FALSE)
  /\ UNCHANGED <<offset, servo, clips>>

GridFrame(a, k) ==
  LET stall == begun /\ AheadNow(a, k) + Interval < 0 IN
  /\ mode = "grid"
  /\ Arrive(a, k)
  /\ IF ~begun \/ stall THEN Send(Preload, a, k, stall)
     ELSE Send(AheadNow(a, k), a, k, FALSE)
  /\ UNCHANGED <<offset, servo, clips>>
-----------------------------------------------------------------------------
\* Source and pipeline become steady: every frame comes, after the same delay,
\* or as soon as compute() has returned.
Settle ==
  /\ steady = Unsteady /\ steady' \in Ages
  /\ UNCHANGED <<mode, offset, servo, begun, ahead, skew, throttle, age, busy,
                 last, clips>>

Frame(a, k) ==
  \/ FixedFrame(a, k)
  \/ GenlockSkip(a, k) \/ GenlockReanchor(a, k) \/ GenlockSend(a, k)
  \/ ServoFrame(a, k) \/ GridFrame(a, k)

Next == Settle \/ \E a \in Ages, k \in 1 .. MaxJump : Frame(a, k)
Spec == Init /\ [][Next]_vars
\* Frames keep coming.
FairSpec == Spec /\ WF_vars(\E a \in Ages, k \in 1 .. MaxJump : Frame(a, k))
-----------------------------------------------------------------------------
(* Properties *)

TypeOK ==
  /\ mode \in Modes /\ offset \in Nat
  /\ servo \in [streak : 0 .. Streak, count : 0 .. Window - 1, skips : 0 .. Clip + 1,
                prev : 0 .. Clip + 1, since : 0 .. ArmMax + 1, arm : Arm .. ArmMax,
                shaved : Nat]
  /\ begun \in BOOLEAN /\ throttle \in BOOLEAN
  /\ ahead \in Int /\ skew \in -Far .. Far
  /\ age \in Nat /\ busy \in Nat
  /\ last \in [kind : {"none", "sent", "skipped"}, lead : Int, gap : Int, anchored : BOOLEAN]
  /\ steady \in Ages \cup {Unsteady}

\* A frame that is sent leaves neither in the past nor so early that it waits
\* in the NIC for long, whatever calibration, trim, back-off and re-anchor
\* have made of the offset before (compute(): the four schedules).
SendBand ==
  last.kind = "sent" =>
    CASE mode = "fixed"   -> last.lead >= SkipFloor
      [] mode = "genlock" -> Lead \div 4 - Trim <= last.lead /\ last.lead <= 2 * Interval
      [] mode = "servo"   -> Lead - Interval <= last.lead /\ last.lead <= Lead + Interval
      [] mode = "grid"    -> -Interval <= last.lead

\* The windows of two frames do not overlap on the wire: the first packet of a
\* frame leaves at most one trim step before the end of the interval of the
\* frame sent before it, unless the schedule was anchored anew.  (The servo
\* for frames without a capture time gives up to an eighth of an interval.)
WireOrdered ==
  last.kind = "sent" /\ ~last.anchored =>
    last.gap >= IF mode = "servo" THEN -Divided(Interval, 8) ELSE -Trim

\* Between two re-anchors, at most Clip + 1 frames of any Window consecutive
\* ones are clipped by a schedule that sits too low: beyond that the latency
\* floor has risen, and the offset follows it (win_skips_, win_skips_prev_).
ClipBounded == Cardinality({i \in 1 .. Window : clips[i]}) <= Clip + 1

\* The throttle waits until packets are due; its cap is for a clock in the wrong
\* unit (the comments at the wait), so that with a clock that is right it stays
\* enabled.  The fixed schedule breaks this: a latency far beyond the horizon
\* makes the first frame wait that long.
ThrottleStaysOn == throttle

\* It is lost in the fixed schedule only, and only at the first frame or at the
\* first after some that were not sent: compute() blocks for every frame it
\* sends, so that the next comes no earlier than the cap allows.
ThrottleKept ==
  throttle /\ ~throttle' => mode = "fixed" /\ (~begun \/ (last'.kind = "sent" /\ last'.gap > 0))

\* What that asks of the configuration: the cap is longer than the part of an
\* interval without packets, and where the schedule is not fixed no frame is
\* wanted further ahead than horizon and cap reach.  The latency is free.
CapFits ==
  LET reach == Horizon + SpinCap IN
  /\ Modes \cap {"fixed", "grid"} # {} => Interval - Active <= SpinCap
  /\ "genlock" \in Modes => 2 * Interval <= reach
  /\ "servo" \in Modes => Lead + Interval <= reach
  /\ "grid" \in Modes => Preload <= reach

\* No frame breaks the limits of the two corrections.
WithinLimits == [][ClipBounded' /\ ThrottleKept]_vars

\* Whatever delays the pipeline has, genlock sends a frame again and again.
KeepsSending == mode = "genlock" => []<>(last.kind = "sent")

\* Once source and pipeline are steady, the RTP time stamps and the wire
\* schedule meet again and again, however far re-anchors, skips and lost
\* frames had driven them apart.
MediaFollows ==
  mode = "genlock" => [](steady # Unsteady => []<>(last.kind = "sent" /\ skew = 0))

\* Once source and pipeline are steady, the offset is not anchored anew
\* forever: trim and back-off come to rest inside the band.
ReanchorsEnd == steady # Unsteady ~> [](~last.anchored)

\* Genlock neither falls silent nor keeps hunting.
ComesToRest == KeepsSending /\ ReanchorsEnd
=============================================================================
