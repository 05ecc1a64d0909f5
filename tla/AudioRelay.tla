----------------------------- MODULE AudioRelay -----------------------------
(***************************************************************************)
(* The companion audio stream and the clock it shares with the video.      *)
(*                                                                         *)
(* The receive operator turns the 32-bit RTP stamp of an audio packet or   *)
(* of a video frame into an absolute capture time, as the instant with     *)
(* that stamp nearest to its arrival, and guards itself against a sender   *)
(* whose stamps are off the PTP epoch (audio_ingest, video_capture_ns,     *)
(* rtp_time.hpp).  Audio packets go through the AudioBridge, a bounded     *)
(* queue, to the relay thread of the transmit operator (audio_loop), which *)
(* holds each until capture + latency + A/V offset and adds the same shift *)
(* to its stamp.  Video leaves at capture + latency.                       *)
(*                                                                         *)
(* Time is discrete and relative.  The state keeps the distance of every   *)
(* instant from now, never an absolute time, so the model is finite and    *)
(* runs for ever.  One tick stands for the tick of either media clock: the *)
(* truncation of less than a tick in the conversions is left out.          *)
(***************************************************************************)
EXTENDS Integers, Sequences

CONSTANTS
    M,              \* values of a stamp (2^32)
    Period,         \* per stream: time between two captures
    MaxLag,         \* per stream: longest time from capture to arrival
    Sane,           \* per stream: kSaneNs
    Epochs,         \* per stream: errors of the sender's epoch, 0 if correct
    Latency,        \* latency_ns
    AvOffset,       \* av_offset_ns
    Horizon,        \* kHorizonNs
    LateDrop,       \* kLateDropNs
    Cap,            \* AudioBridge::kCap
    MaxStall        \* longest time the host keeps a ready relay from running

Streams == {"audio", "video"}

(* The stamp range is even and wide enough for the guards, the schedule is *)
(* fixed (start() refuses audio without a latency), and no wrong epoch     *)
(* puts a stamp so near to the edge of the guard that the jitter of the    *)
(* arrivals decides on which side it lies.                                 *)
ASSUME RelayAssumption ==
    /\ M \in Nat \ {0} /\ M % 2 = 0
    /\ Period \in [Streams -> Nat \ {0}]
    /\ MaxLag \in [Streams -> Nat]
    /\ Sane \in [Streams -> Nat]
    /\ \A s \in Streams : /\ 2 * (Sane[s] + MaxLag[s]) < M
                          /\ 0 \in Epochs[s]
                          /\ Epochs[s] \subseteq 0 .. M - 1
                          /\ \A e \in Epochs[s] \ {0}, l \in -MaxLag[s] .. MaxLag[s] :
                                 e # (M - Sane[s] + l) % M
    /\ Latency \in Nat \ {0} /\ AvOffset \in Int
    /\ Horizon \in Nat /\ LateDrop \in Nat /\ MaxStall \in Nat
    /\ Cap \in Nat \ {0}

VARIABLES
    age,        \* per stream: now - capture time of the latest packet sent
    epoch,      \* per stream: what the sender adds to its stamps
    delta,      \* audio_ts_delta_, video_ts_delta_
    video,      \* the latest video frame: error of its capture time, epoch right
    q,          \* AudioBridge::q_
    pc, hand,   \* audio_loop: where it is, the packet it holds
    stop,       \* stop_audio_
    stall,      \* how long the relay has been ready without waiting
    out,        \* stamp last emitted, relative to the time it was due
    drops,      \* a packet was dropped, by the bridge or by the relay
    hopped      \* an audio packet came with a wrong epoch too small for the guard

vars == <<age, epoch, delta, video, q, pc, hand, stop, stall, out, drops, hopped>>
relayVars == <<q, pc, hand, stall, out, drops>>
source == <<age, epoch, delta, video, hopped>>

\* A packet of the bridge: the time left until it is due (no longer counted
\* once it is late enough to be dropped), its stamp relative to its capture
\* time, the delta RX latched, the error of the capture time, epoch right.
Packet == [left : Int, raw : 0 .. M - 1, delta : 0 .. M - 1, off : Int, on : BOOLEAN]
NoPacket == [left |-> 0, raw |-> 0, delta |-> 0, off |-> 0, on |-> TRUE]

Shift == Latency + AvOffset

\* No delivery stall beyond the tolerance of the guards.
HealthyNetwork == \A s \in Streams : MaxLag[s] <= Sane[s]

\* Times that are left at least to the packets of the bridge and the relay
\* when the relay begins to be kept from running: to the packet it held, to one
\* that was captured later, to one that arrives meanwhile.
LeastLeft == {Horizon, Horizon - MaxLag["audio"] + Period["audio"], Shift - MaxLag["audio"]}

\* A relay kept from running for MaxStall still sends in time, and the bridge
\* has room for what it should have taken out by then.
RelayInTime ==
    \A k \in LeastLeft :
        /\ k - MaxStall >= -LateDrop
        /\ Cap * Period["audio"] > Shift + MaxLag["audio"] + MaxStall - k

-----------------------------------------------------------------------------
(* The clock of a stream.  Stamps are relative to the arrival time.        *)

Signed(u) == IF u < M \div 2 THEN u ELSE u - M

\* rtp_unwrap_ns: the distance from the arrival to the nearest instant with
\* stamp o.
Nearest(o) == -Signed((-o) % M)

BugWithin(s, err) == TRUE
Within(s, err) == err \in -Sane[s] .. Sane[s]

\* rtp_restamp_delta: puts stamp o on the arrival.
Restamp(o) == (-o) % M

BugReturns(s, o) == FALSE
Returns(s, o) == delta[s] # 0 /\ Within(s, Nearest(o))

DeltaAfter(s, o) ==
    IF Within(s, Nearest(o + delta[s])) THEN delta[s]
    ELSE IF Returns(s, o) THEN 0
    ELSE Restamp(o)

\* The stamp of the next packet of s if it arrives now, its capture time and
\* the error of that capture time.
Lag(s) == age[s] - Period[s]
Stamp(s) == epoch[s] - Lag(s)
Captured(s) == Nearest(Stamp(s) + DeltaAfter(s, Stamp(s)))
Off(s) == Captured(s) + Lag(s)

\* The sender stamps with a wrong epoch which the guard cannot tell from
\* another one.
Near(s) ==
    /\ epoch[s] # 0
    /\ \E e \in Epochs[s] \ {epoch[s]} :
           Nearest(epoch[s] - e) \in -(Sane[s] + MaxLag[s]) .. Sane[s] + MaxLag[s]

-----------------------------------------------------------------------------
(* The state in which start() leaves the two operators.                    *)

Init ==
    /\ age = [s \in Streams |-> 0]
    /\ epoch \in [Streams -> UNION {Epochs[s] : s \in Streams}]
    /\ \A s \in Streams : epoch[s] \in Epochs[s]
    /\ delta = [s \in Streams |-> 0]
    /\ video = [off |-> 0, on |-> FALSE]
    /\ q = <<>>
    /\ pc = "head" /\ hand = NoPacket
    /\ stop = FALSE
    /\ stall = 0
    /\ out = 0
    /\ drops = FALSE /\ hopped = FALSE

-----------------------------------------------------------------------------
(* Senders and network.                                                    *)

\* The sender of s is off its epoch, or recovers.
EpochStep(s) ==
    /\ \E e \in Epochs[s] \ {epoch[s]} : epoch' = [epoch EXCEPT ![s] = e]
    /\ UNCHANGED <<age, delta, video, hopped, stop, relayVars>>

\* A packet that is lost, or that has no RTP version 2 header.
Lose(s) ==
    /\ Lag(s) >= 0
    /\ age' = [age EXCEPT ![s] = Lag(s)]
    /\ UNCHANGED <<epoch, delta, video, hopped, stop, relayVars>>

\* A video frame is complete: video_capture_ns on its first packet.
VideoArrives ==
    /\ Lag("video") >= 0
    /\ age' = [age EXCEPT !["video"] = Lag("video")]
    /\ delta' = [delta EXCEPT !["video"] = DeltaAfter("video", Stamp("video"))]
    /\ video' = [off |-> Off("video"), on |-> epoch["video"] = 0]
    /\ UNCHANGED <<epoch, hopped, stop, relayVars>>

HasSpace == Len(q) < Cap

\* An audio packet arrives: audio_ingest and AudioBridge::push.
AudioArrives ==
    LET d == DeltaAfter("audio", Stamp("audio"))
        p == [left  |-> Captured("audio") + Shift,
              raw   |-> (Stamp("audio") - Captured("audio")) % M,
              delta |-> d,
              off   |-> Off("audio"),
              on    |-> epoch["audio"] = 0]
    IN  /\ Lag("audio") >= 0
        /\ age' = [age EXCEPT !["audio"] = Lag("audio")]
        /\ delta' = [delta EXCEPT !["audio"] = d]
        /\ q' = IF HasSpace THEN Append(q, p) ELSE q
        /\ drops' = (drops \/ ~HasSpace)
        /\ hopped' = (hopped \/ Near("audio"))
        /\ UNCHANGED <<epoch, video, pc, hand, stop, stall, out>>

-----------------------------------------------------------------------------
(* The relay thread.                                                       *)

BugLeavesLoop == stop /\ q = <<>>
LeavesLoop == stop

\* while (!stop_audio_)
RelayHead ==
    /\ pc = "head"
    /\ pc' = IF LeavesLoop THEN "done" ELSE "pop"
    /\ UNCHANGED <<q, hand, stop, stall, out, drops, source>>

RelayPop ==
    /\ pc = "pop" /\ q # <<>>
    /\ hand' = Head(q)
    /\ q' = Tail(q)
    /\ pc' = "hold"
    /\ UNCHANGED <<stop, stall, out, drops, source>>

\* 100 ms without a packet
RelayTimeout ==
    /\ pc = "pop" /\ q = <<>>
    /\ pc' = "head"
    /\ UNCHANGED <<q, hand, stop, stall, out, drops, source>>

TooLate == hand.left < -LateDrop

\* The stamp the relay writes, relative to the time the packet is due.
BugOutStamp == (hand.raw + delta["audio"]) % M
OutStamp == (hand.raw + hand.delta) % M

Woken == pc = "hold" /\ hand.left <= Horizon

RelayDrops ==
    /\ Woken /\ TooLate
    /\ drops' = TRUE
    /\ pc' = "head" /\ hand' = NoPacket
    /\ UNCHANGED <<q, stop, stall, out, source>>

\* Paced by the NIC, or back to back if the packet is already due.
RelaySubmits ==
    /\ Woken /\ ~TooLate
    /\ out' = OutStamp
    /\ pc' = "head" /\ hand' = NoPacket
    /\ UNCHANGED <<q, stop, stall, drops, source>>

\* St2110TxOp::stop, which then joins the relay thread.
StopAudio ==
    /\ ~stop
    /\ stop' = TRUE
    /\ UNCHANGED <<source, relayVars>>

RelayStep == RelayHead \/ RelayPop \/ RelayTimeout \/ RelayDrops \/ RelaySubmits

-----------------------------------------------------------------------------
(* Time passes.                                                            *)

RelayReady == \/ pc = "head"
              \/ pc = "pop" /\ q # <<>>
              \/ Woken

\* One tick nearer to the time a packet is due.
Later(p) == [p EXCEPT !.left = IF @ < -LateDrop THEN @ ELSE @ - 1]

Elapse ==
    /\ \A s \in Streams : age[s] < Period[s] + MaxLag[s]
    /\ RelayReady => stall < MaxStall
    /\ stall' = IF RelayReady THEN stall + 1 ELSE 0
    /\ age' = [s \in Streams |-> age[s] + 1]
    /\ q' = [i \in DOMAIN q |-> Later(q[i])]
    /\ hand' = IF pc = "hold" THEN Later(hand) ELSE hand
    /\ UNCHANGED <<epoch, delta, video, pc, stop, out, drops, hopped>>

Arrives == VideoArrives \/ AudioArrives \/ \E s \in Streams : Lose(s)

Next == \/ \E s \in Streams : EpochStep(s)
        \/ Arrives
        \/ RelayStep
        \/ StopAudio
        \/ Elapse

\* The clock runs, the senders send, the host schedules the relay thread.
Spec == /\ Init /\ [][Next]_vars
        /\ WF_vars(Elapse) /\ WF_vars(Arrives) /\ WF_vars(RelayStep)

-----------------------------------------------------------------------------
(* Properties.                                                             *)

(* Every variable has its type; the bridge never holds more than kCap      *)
(* packets, not even when nobody reads it any more.                        *)
TypeOK ==
    /\ age \in [Streams -> Nat]
    /\ \A s \in Streams : age[s] <= Period[s] + MaxLag[s]
    /\ epoch \in [Streams -> 0 .. M - 1]
    /\ \A s \in Streams : epoch[s] \in Epochs[s]
    /\ delta \in [Streams -> 0 .. M - 1]
    /\ video \in [off : Int, on : BOOLEAN]
    /\ q \in Seq(Packet) /\ Len(q) <= Cap
    /\ pc \in {"head", "pop", "hold", "done"} /\ hand \in Packet
    /\ stop \in BOOLEAN /\ stall \in 0 .. MaxStall
    /\ out \in 0 .. M - 1
    /\ drops \in BOOLEAN /\ hopped \in BOOLEAN

(* The stamp on the wire names the instant the packet is scheduled for     *)
(* (shifted by the same constant as its due time), also for a packet that  *)
(* waited in the bridge while RX latched another correction.               *)
StampOnSchedule == out = 0

Held == {q[i] : i \in DOMAIN q} \cup (IF pc = "hold" THEN {hand} ELSE {})

(* Lip-sync: while the senders stamp on the PTP epoch, audio and video of  *)
(* one capture instant leave exactly the A/V offset apart, whatever the    *)
(* two guards had latched before the senders recovered.                    *)
LipSync ==
    video.on => \A p \in Held :
        p.on => (Shift + p.off) - (Latency + video.off) = AvOffset

(* A relay that is scheduled within MaxStall loses no audio: the queue     *)
(* holds the backlog of the latency, and no packet waits behind another    *)
(* until it is too late to send, even while the sender's epoch steps, as   *)
(* long as each step is large enough for the guard to see it.              *)
NothingDropped == drops => stop \/ hopped

(* stop() joins the relay thread, which must end although packets keep     *)
(* arriving and although it may be holding one.                            *)
AudioStops == stop ~> pc = "done"
=============================================================================
