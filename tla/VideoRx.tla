------------------------------- MODULE VideoRx -------------------------------
(***************************************************************************)
(* St2110RxOp in emit mode (engine/operators/st2110_rx) with its consumer  *)
(* UnpackOp (engine/operators/codec).  Three threads of control share the  *)
(* frame buffers:                                                          *)
(*                                                                         *)
(*   poll thread  receives bursts, scatters each packet into cur_buf,      *)
(*                queues the completed frame, takes the next ring buffer;  *)
(*   scheduler    pops one frame per compute and hands it to UnpackOp,     *)
(*                which launches a kernel that reads the buffer in place;  *)
(*   GPU          finishes the kernels of the unpack stream in order.      *)
(*                                                                         *)
(* A buffer is reused when only the ring refers to it (use_count = 1), and *)
(* the reference counts are read while the other threads drop references.  *)
(*                                                                         *)
(* A packet is its number k in the sender's stream: frame k \div Lines,    *)
(* region k % Lines, marker on the last region.  Audio packets take the    *)
(* other branch of the loop and touch none of this state.                  *)
(*                                                                         *)
(* Definitions named Bug... are not part of the model: each is a plausible *)
(* mistake in the definition after it, put in its place to check that a    *)
(* property notices.                                                       *)
(***************************************************************************)
EXTENDS Integers, Sequences, FiniteSets

CONSTANTS
  Lines,        \* packets of one frame
  RingInit,     \* buffers of a fresh ring (8)
  QDepth,       \* kMaxQ
  Window,       \* pushes in a window of the drain governor (32)
  Drain,        \* drain_enabled_ (SPARK_RX_DRAIN=1)
  ZeroCopy,     \* UnpackOp reads the host buffer in place
  BurstMax,     \* packets one receive() returns (256)
  DownCap,      \* capacity of the queue between st2110_rx and unpack
  SeqMod,       \* sequence numbers are modulo SeqMod (2^32)
  InOrder,      \* the network loses packets but never reorders them
  MaxPkt,       \* bound: packet numbers are below MaxPkt
  MaxBad,       \* bound: packets the depacketizer refuses
  MaxInflight   \* bound: kernels waiting on the unpack stream

ASSUME ParamsAssumption ==
  /\ Lines \in Nat \ {0} /\ RingInit \in Nat \ {0}
  /\ QDepth \in Nat /\ QDepth >= 2
  /\ Window \in Nat \ {0} /\ BurstMax \in Nat \ {0} /\ DownCap \in Nat \ {0}
  /\ SeqMod \in Nat /\ SeqMod >= 2
  /\ Drain \in BOOLEAN /\ ZeroCopy \in BOOLEAN /\ InOrder \in BOOLEAN
  /\ MaxPkt \in Nat /\ MaxBad \in Nat /\ MaxInflight \in Nat \ {0}

VARIABLES
  pc,           \* where the poll thread is
  burst,        \* packets left in the burst being handled
  stop_poll,
  last_seq,     \* sequence number of the last accounted packet; None before it
  packets, lost, bad,
  arrived,      \* history: the packets accounted so far
  nbuf,         \* ring size: the buffers are 0 .. nbuf - 1
  buf_idx, probes,
  mem,          \* mem[b][l]: the frame whose packet l was last scattered into b
  cur_buf, cur_first, cur_ts,
  fr,           \* the completed frame the poll thread holds
  frames, frame_q, q_dropped, q_drained, q_win_count, q_win_min,
  downq,        \* queue between the operators
  inflight,     \* frames UnpackOp keeps referenced until their event completes
  reading,      \* frames a GPU kernel is still reading
  emitted,      \* number of frames popped by compute
  out           \* history: the last frame popped, as its reader finds it

netVars   == <<last_seq, packets, lost, bad, arrived>>
ringVars  == <<nbuf, buf_idx, probes>>
curVars   == <<cur_buf, cur_first, cur_ts>>
queueVars == <<frame_q, q_dropped, q_drained, q_win_count, q_win_min>>
downVars  == <<downq, inflight, reading>>
outVars   == <<emitted, out>>
vars == <<pc, burst, stop_poll, netVars, ringVars, mem, curVars, fr, frames,
          queueVars, downVars, outVars>>

None  == -1
Blank == -1                       \* content of a buffer never written
Infinite == QDepth + 1            \* SIZE_MAX: above every queue length

Image == [0 .. Lines - 1 -> 0 .. MaxPkt \div Lines \cup {Blank}]
Frame == [buf : Nat, num : Nat, ts : Nat, image : Image]

FrameOf(k)  == k \div Lines
LineOf(k)   == k % Lines
IsMarker(k) == LineOf(k) = Lines - 1
FramesIn(q) == {q[i] : i \in DOMAIN q}
BufsOf(S)   == {f.buf : f \in S}
\* Frames whose buffer somebody other than the ring and the poll thread refers to.
HeldFrames  == FramesIn(frame_q) \cup FramesIn(downq) \cup inflight
-----------------------------------------------------------------------------
\* start() launches the poll thread, which fills the ring and takes its first buffer.
Init ==
  /\ pc = "head" /\ burst = 0 /\ stop_poll = FALSE
  /\ last_seq = None /\ packets = 0 /\ lost = 0 /\ bad = 0 /\ arrived = {}
  /\ nbuf = RingInit /\ buf_idx = 1 % RingInit /\ probes = 0
  /\ mem = [b \in 0 .. RingInit - 1 |-> [l \in 0 .. Lines - 1 |-> Blank]]
  /\ cur_buf = 0 /\ cur_first = TRUE /\ cur_ts = 0
  /\ fr = <<>>
  /\ frames = 0 /\ frame_q = <<>> /\ q_dropped = 0 /\ q_drained = 0
  /\ q_win_count = 0 /\ q_win_min = Infinite
  /\ downq = <<>> /\ inflight = {} /\ reading = {}
  /\ emitted = 0 /\ out = <<>>
-----------------------------------------------------------------------------
(* Poll thread *)

\* The packets the network may still deliver: packet numbers do not repeat, and without
\* reordering a packet that was overtaken is lost.
Newest == CHOOSE k \in arrived : \A j \in arrived : j <= k
NextInOrder == IF arrived = {} THEN 0 ELSE Newest + 1
ToCome == IF InOrder THEN NextInOrder .. MaxPkt - 1 ELSE (0 .. MaxPkt - 1) \ arrived

\* The loop head tests stop_poll_ and receives a burst; an empty burst loops.
PollReceive ==
  /\ pc = "head" /\ ~stop_poll
  /\ \E n \in 1 .. BurstMax :
       /\ n <= Cardinality(ToCome)
       /\ burst' = n
  /\ pc' = "pkt"
  /\ UNCHANGED <<stop_poll, netVars, ringVars, mem, curVars, fr, frames, queueVars,
                 downVars, outVars>>

BugExitWhenDrained ==
  /\ pc = "head" /\ stop_poll /\ frame_q = <<>>
  /\ pc' = "done"
  /\ UNCHANGED <<burst, stop_poll, netVars, ringVars, mem, curVars, fr, frames,
                 queueVars, downVars, outVars>>

PollExit ==
  /\ pc = "head" /\ stop_poll
  /\ pc' = "done"
  /\ UNCHANGED <<burst, stop_poll, netVars, ringVars, mem, curVars, fr, frames,
                 queueVars, downVars, outVars>>

AfterPacket(n) == IF n = 0 THEN "head" ELSE "pkt"

\* depkt_->parse refuses the packet.
PollBadPacket ==
  /\ pc = "pkt" /\ bad < MaxBad
  /\ bad' = bad + 1
  /\ burst' = burst - 1
  /\ pc' = AfterPacket(burst - 1)
  /\ UNCHANGED <<stop_poll, last_seq, packets, lost, arrived, ringVars, mem, curVars,
                 fr, frames, queueVars, downVars, outVars>>

\* The number of packets account() believes are missing before packet k.
Gap(k) ==
  IF last_seq = None THEN 0
  ELSE LET gap == ((k % SeqMod) - (last_seq + 1)) % SeqMod
       IN  IF gap < SeqMod \div 2 THEN gap ELSE 0

Account(k) ==
  /\ lost' = lost + Gap(k)
  /\ last_seq' = k % SeqMod
  /\ packets' = packets + 1
  /\ arrived' = arrived \cup {k}

\* A packet may arrive while the rest of its burst can still follow; runs of losses are
\* shorter than half the sequence space.
Arrives(k) ==
  /\ k \in ToCome
  /\ InOrder => /\ k + burst <= MaxPkt
                /\ arrived # {} => k - NextInOrder < SeqMod \div 2

\* A good packet: account, stamp a new frame, scatter; the marker completes the frame.
PollPacket ==
  /\ pc = "pkt"
  /\ \E k \in 0 .. MaxPkt - 1 :
       /\ Arrives(k)
       /\ Account(k)
       /\ cur_ts' = IF cur_first THEN FrameOf(k) ELSE cur_ts
       /\ mem' = [mem EXCEPT ![cur_buf][LineOf(k)] = FrameOf(k)]
       /\ cur_first' = FALSE
       /\ IF IsMarker(k)
            THEN /\ fr' = [buf |-> cur_buf, num |-> frames, ts |-> cur_ts',
                           image |-> mem'[cur_buf]]
                 /\ frames' = frames + 1
                 /\ burst' = burst - 1
                 /\ pc' = "push"
            ELSE /\ burst' = burst - 1
                 /\ pc' = AfterPacket(burst - 1)
                 /\ UNCHANGED <<fr, frames>>
  /\ UNCHANGED <<stop_poll, bad, ringVars, cur_buf, queueVars, downVars, outVars>>

\* The standing-queue governor, evaluated before each push when enabled.
WinMin == IF Len(frame_q) < q_win_min THEN Len(frame_q) ELSE q_win_min
WindowFull == Drain /\ q_win_count + 1 >= Window
BugShedAtEveryPush == Drain /\ Len(frame_q) >= 2
ShedOldest == WindowFull /\ WinMin >= 2 /\ frame_q # <<>>
QueueAfterGovernor == IF ShedOldest THEN Tail(frame_q) ELSE frame_q

Governor ==
  /\ q_drained' = IF ShedOldest THEN q_drained + 1 ELSE q_drained
  /\ q_win_count' = IF WindowFull \/ ~Drain THEN 0 ELSE q_win_count + 1
  /\ q_win_min' = IF WindowFull \/ ~Drain THEN Infinite ELSE WinMin

BugHasRoom == Len(QueueAfterGovernor) <= QDepth
HasRoom == Len(QueueAfterGovernor) < QDepth

Push(q, f) == Append(q, f)

\* Under q_mu_: the governor, then push or drop; the poll thread never waits for room.
PollPush ==
  /\ pc = "push"
  /\ Governor
  /\ IF HasRoom
       THEN /\ frame_q' = Push(QueueAfterGovernor, fr)
            /\ UNCHANGED q_dropped
       ELSE /\ q_dropped' = q_dropped + 1
            /\ frame_q' = QueueAfterGovernor
  /\ pc' = "next"
  /\ probes' = 0
  /\ UNCHANGED <<burst, stop_poll, netVars, nbuf, buf_idx, mem, curVars, fr, frames,
                 downVars, outVars>>

BugNeverReuse(b) == FALSE
BugReuseAny(b) == b # cur_buf

\* use_count() = 1: neither a queue, nor UnpackOp, nor cur_buf_ and f (the same buffer)
\* refers to b.
OnlyInRing(b) == b # cur_buf /\ b \notin BufsOf(HeldFrames)

BugKeepStamp(b) ==
  /\ cur_buf' = b
  /\ cur_first' = FALSE
  /\ fr' = <<>>
  /\ pc' = AfterPacket(burst)

NextPacket(b) ==
  /\ cur_buf' = b
  /\ cur_first' = TRUE
  /\ fr' = <<>>
  /\ pc' = AfterPacket(burst)

NextIdx(i) == (i + 1) % nbuf

\* One iteration of next_buffer's scan reads one use_count.
PollProbe ==
  /\ pc = "next" /\ probes < nbuf
  /\ buf_idx' = NextIdx(buf_idx)
  /\ IF OnlyInRing(buf_idx)
       THEN NextPacket(buf_idx) /\ probes' = 0
       ELSE probes' = probes + 1 /\ UNCHANGED <<cur_buf, cur_first, fr, pc>>
  /\ UNCHANGED <<burst, stop_poll, netVars, nbuf, mem, cur_ts, frames, queueVars,
                 downVars, outVars>>

\* Every probe found a buffer in use: the ring grows.
PollGrow ==
  /\ pc = "next" /\ probes = nbuf
  /\ nbuf' = nbuf + 1
  /\ mem' = [b \in 0 .. nbuf |-> IF b = nbuf THEN [l \in 0 .. Lines - 1 |-> Blank]
                                 ELSE mem[b]]
  /\ NextPacket(nbuf)
  /\ probes' = 0
  /\ UNCHANGED <<burst, stop_poll, netVars, buf_idx, cur_ts, frames, queueVars,
                 downVars, outVars>>
-----------------------------------------------------------------------------
(* Scheduler: the compute() of the two operators, and stop() *)

BugWaitForTwo == Len(frame_q) > 1
FrameReady == frame_q # <<>>

\* compute_emit_one pops a frame; the scheduler ticks it only while unpack's queue has room.
\* Its two-second timeout returns without a change of state.
Emit ==
  /\ ~stop_poll /\ FrameReady /\ Len(downq) < DownCap
  /\ frame_q' = Tail(frame_q)
  /\ downq' = Append(downq, Head(frame_q))
  /\ emitted' = emitted + 1
  /\ out' = [num |-> Head(frame_q).num, image |-> mem[Head(frame_q).buf]]
  /\ UNCHANGED <<pc, burst, stop_poll, netVars, ringVars, mem, curVars, fr, frames,
                 q_dropped, q_drained, q_win_count, q_win_min, inflight, reading>>

BugNotParked(f) == {}
Parked(f) == {f}

\* UnpackOp::compute: drain_inflight(false), then launch the kernel.  The copy path has read
\* the buffer when it returns.
Unpack ==
  /\ downq # <<>> /\ Cardinality(reading) < MaxInflight
  /\ downq' = Tail(downq)
  /\ IF ZeroCopy
       THEN /\ inflight' = (inflight \cap reading) \cup Parked(Head(downq))
            /\ reading' = reading \cup {Head(downq)}
       ELSE UNCHANGED <<inflight, reading>>
  /\ UNCHANGED <<pc, burst, stop_poll, netVars, ringVars, mem, curVars, fr, frames,
                 queueVars, outVars>>

\* The kernels of one stream finish in launch order.
GpuDone ==
  /\ \E f \in reading :
       /\ \A g \in reading : f.num <= g.num
       /\ reading' = reading \ {f}
  /\ UNCHANGED <<pc, burst, stop_poll, netVars, ringVars, mem, curVars, fr, frames,
                 queueVars, downq, inflight, outVars>>

\* stop() raises stop_poll_ and then joins the poll thread, which ends in "done".
Stop ==
  /\ ~stop_poll
  /\ stop_poll' = TRUE
  /\ UNCHANGED <<pc, burst, netVars, ringVars, mem, curVars, fr, frames, queueVars,
                 downVars, outVars>>
-----------------------------------------------------------------------------
Poll == PollReceive \/ PollExit \/ PollBadPacket \/ PollPacket \/ PollPush \/ PollProbe
        \/ PollGrow
Next == Poll \/ Emit \/ Unpack \/ GpuDone \/ Stop

Spec == Init /\ [][Next]_vars

\* The poll thread spins on its own core; nothing else is assumed to run.
PollFairSpec == Spec /\ WF_vars(Poll)
\* Everything the engine schedules keeps running.
FairSpec == PollFairSpec /\ WF_vars(Emit) /\ WF_vars(Unpack) /\ WF_vars(GpuDone)
-----------------------------------------------------------------------------
(* Properties *)

\* Type correctness of every variable, by the part of the operator it belongs to.
PollType ==
  /\ pc \in {"head", "pkt", "push", "next", "done"}
  /\ burst \in Nat /\ stop_poll \in BOOLEAN
  /\ last_seq \in 0 .. SeqMod - 1 \cup {None}
  /\ packets \in Nat /\ lost \in Nat /\ bad \in Nat /\ arrived \subseteq Nat
RingType ==
  /\ nbuf \in Nat \ {0} /\ buf_idx \in 0 .. nbuf - 1 /\ probes \in 0 .. nbuf
  /\ cur_buf \in 0 .. nbuf - 1 /\ cur_first \in BOOLEAN /\ cur_ts \in Nat
  /\ mem \in [0 .. nbuf - 1 -> Image]
  /\ fr \in Frame \cup {<<>>}
QueueType ==
  /\ frames \in Nat /\ q_dropped \in Nat /\ q_drained \in Nat
  /\ q_win_count \in Nat /\ q_win_min \in 0 .. Infinite
  /\ frame_q \in Seq(Frame)
DownType ==
  /\ downq \in Seq(Frame) /\ inflight \subseteq Frame /\ reading \subseteq Frame
  /\ emitted \in Nat /\ out \in [num : Nat, image : Image] \cup {<<>>}
TypeOK == PollType /\ RingType /\ QueueType /\ DownType

\* No frame changes after its marker: while it waits in a queue, is referenced by UnpackOp or
\* is read by a kernel, its buffer holds what was assembled (next_buffer must not hand out a
\* buffer that a backlog still refers to).
FramesIntact ==
  \A f \in HeldFrames \cup reading : f.buf < nbuf /\ mem[f.buf] = f.image

\* The inductive form: the buffer being assembled is referenced by no frame, the frame in the
\* poll thread's hand is that buffer's content, and kernels read only what UnpackOp references.
BufferInv ==
  /\ pc = "pkt" => burst > 0
  /\ pc = "push" => fr \in Frame /\ fr.buf = cur_buf /\ fr.image = mem[cur_buf]
  /\ pc \in {"head", "pkt", "push"} => cur_buf \notin BufsOf(HeldFrames)
  /\ reading \subseteq inflight
  /\ FramesIntact

\* The bounded queue never exceeds kMaxQ, and every completed frame is in exactly one place:
\* popped, queued, dropped at a full queue, shed by the governor, or in the poll thread's hand.
FramesAccounted ==
  /\ Len(frame_q) <= QDepth
  /\ frames = emitted + Len(frame_q) + q_dropped + q_drained
                + (IF pc = "push" THEN 1 ELSE 0)

\* The governor sheds at most one frame per Window completed frames (st2110_rx.cpp: "bounded
\* to 1/window").
DrainBounded == q_drained * Window <= frames

\* Its inductive form: the current window's pushes are not yet paid for.
Completed == IF pc = "push" THEN frames - 1 ELSE frames
DrainInv ==
  /\ q_drained * Window + q_win_count <= Completed
  /\ q_win_count < Window

\* The ring stops growing: it never has more buffers than the frames that can be referenced at
\* once, plus the one just refused by a full queue and the one being assembled.
RingBounded ==
  nbuf <= LET needed == QDepth + DownCap + MaxInflight + 2
          IN  IF RingInit > needed THEN RingInit ELSE needed

\* Neither the shedding nor the ring gets out of hand.
Bounded == DrainBounded /\ RingBounded

\* Without reordering, lost markers and merged frames included, frame time stamps strictly
\* increase along the queue: the TX schedule and the frame-rate converter rely on it.
StampsIncrease ==
  /\ \A i, j \in DOMAIN frame_q : i < j => frame_q[i].ts < frame_q[j].ts
  /\ \A i \in DOMAIN frame_q :
       /\ pc = "push" => frame_q[i].ts < fr.ts
       /\ \A d \in DOMAIN downq : downq[d].ts < frame_q[i].ts

\* What the receiver hands on is in order, and neither the shedding nor the ring gets out of
\* hand.
QueueSound == StampsIncrease /\ Bounded

\* stop() returns: the poll thread it joins ends once the flag is set, which
\* nobody takes back.
StopReturns == []<>(stop_poll => pc = "done")

\* A queued frame is delivered, or shed by the governor, unless the operator is stopped.
Queued(n) == \E i \in DOMAIN frame_q : frame_q[i].num = n
FramesLeave == \A n \in 0 .. MaxPkt \div Lines : []<>(~Queued(n) \/ stop_poll)

\* Nobody waits for ever: neither stop() for the poll thread nor a frame in the queue.
Leaves == StopReturns /\ FramesLeave

\* The operator implements the bounded store of immutable frames: what its reader finds in the
\* buffer when it pops a frame is what was assembled, in order, each frame at most once.
Store == INSTANCE FrameStore WITH
  Depth    <- QDepth,
  Images   <- Image,
  Shedding <- Drain,
  made     <- Completed,
  store    <- [i \in DOMAIN frame_q |-> [num |-> frame_q[i].num,
                                         image |-> mem[frame_q[i].buf]]],
  last     <- out
ImplementsStore == Store!Spec
=============================================================================
