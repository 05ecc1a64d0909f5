---------------------------- MODULE ReceiveProof ----------------------------
(***************************************************************************)
(* Proofs about a receiver while it runs and about the programs around it  *)
(* as they come up and go down, for every value of the constants.          *)
(* VideoRx: the buffer discipline needs the types of the queues and the    *)
(* types need the buffer discipline (a popped frame's buffer is in the     *)
(* ring), so TypeOK and BufferInv are one inductive invariant; the order   *)
(* of the stamps, the size of the ring and the hand-over of frames         *)
(* (OrderInv, RingInv, HandInv) rest on it, and the last one makes every   *)
(* step a step of FrameStore.  Lifecycle: LifeInv, for every program.      *)
(***************************************************************************)
EXTENDS VideoRx, Lifecycle, SequenceTheorems, FiniteSetTheorems, TLAPS

IInv == TypeOK /\ BufferInv
-----------------------------------------------------------------------------
(* Lemmas on the operators of the model *)

\* A packet is a line of a frame, and the last line is followed by the next frame.
LEMMA PacketParts ==
  ASSUME NEW k \in Nat
  PROVE  /\ FrameOf(k) \in Nat /\ LineOf(k) \in 0 .. Lines - 1
         /\ k = Lines * FrameOf(k) + LineOf(k)
BY ParamsAssumption DEF FrameOf, LineOf

\* Packets in the order of their numbers belong to frames in the order of theirs.
LEMMA FrameMonotone ==
  ASSUME NEW j \in Nat, NEW k \in Nat, j <= k
  PROVE  FrameOf(j) <= FrameOf(k)
<1> DEFINE a == FrameOf(j)  b == FrameOf(k)
<1>1. /\ a \in Nat /\ b \in Nat /\ Lines \in Nat \ {0}
      /\ Lines * a <= j /\ k < Lines * b + Lines
  <2>1. /\ a \in Nat /\ LineOf(j) \in 0 .. Lines - 1 /\ j = Lines * a + LineOf(j)
    BY PacketParts
  <2>2. /\ b \in Nat /\ LineOf(k) \in 0 .. Lines - 1 /\ k = Lines * b + LineOf(k)
    BY PacketParts
  <2>3. Lines \in Nat \ {0}
    BY ParamsAssumption
  <2> HIDE DEF a, b
  <2>4. Lines * a \in Int /\ Lines * b \in Int
    BY <2>1, <2>2, <2>3
  <2> QED
    BY <2>1, <2>2, <2>3, <2>4
<1> HIDE DEF a, b
<1>2. SUFFICES ASSUME a >= b + 1 PROVE FALSE
  BY <1>1 DEF a, b
<1>3. Lines * a = Lines * (b + 1) + Lines * (a - (b + 1)) /\ Lines * (a - (b + 1)) >= 0
  BY <1>1, <1>2
<1>4. Lines * (b + 1) = Lines * b + Lines
  BY <1>1
<1>5. Lines * a \in Int /\ Lines * b \in Int
  BY <1>1
<1> QED
  BY <1>1, <1>3, <1>4, <1>5

\* Region and frame of a packet are well typed.
LEMMA PacketType ==
  ASSUME NEW k \in 0 .. MaxPkt - 1
  PROVE  /\ FrameOf(k) \in Nat /\ FrameOf(k) \in 0 .. MaxPkt \div Lines
         /\ LineOf(k) \in 0 .. Lines - 1
<1>1. k \in Nat /\ MaxPkt \in Nat /\ k <= MaxPkt
  BY ParamsAssumption
<1>2. FrameOf(k) \in Nat /\ LineOf(k) \in 0 .. Lines - 1 /\ FrameOf(MaxPkt) \in Nat
  BY <1>1, PacketParts
<1>3. FrameOf(k) <= FrameOf(MaxPkt)
  BY <1>1, FrameMonotone
<1>4. FrameOf(MaxPkt) = MaxPkt \div Lines
  BY DEF FrameOf
<1> QED
  BY <1>2, <1>3, <1>4

\* The frames of a queue are frames.
LEMMA FramesInType ==
  ASSUME NEW S, NEW q \in Seq(S)
  PROVE  FramesIn(q) \subseteq S
BY LenProperties DEF FramesIn

\* Appending adds one frame to a queue.
LEMMA FramesInAppend ==
  ASSUME NEW S, NEW q \in Seq(S), NEW f \in S
  PROVE  FramesIn(Append(q, f)) = FramesIn(q) \cup {f}
<1>1. /\ Append(q, f) \in Seq(S)
      /\ Len(Append(q, f)) = Len(q) + 1
      /\ \A i \in 1 .. Len(q) : Append(q, f)[i] = q[i]
      /\ Append(q, f)[Len(q) + 1] = f
  BY AppendProperties
<1>2. Len(q) \in Nat /\ DOMAIN q = 1 .. Len(q)
      /\ DOMAIN Append(q, f) = 1 .. Len(q) + 1
  BY <1>1, LenProperties
<1>3. QED
  BY <1>1, <1>2 DEF FramesIn

\* Popping removes at most the head.
LEMMA FramesInTail ==
  ASSUME NEW S, NEW q \in Seq(S), q # <<>>
  PROVE  /\ FramesIn(Tail(q)) \subseteq FramesIn(q)
         /\ Head(q) \in FramesIn(q) /\ Head(q) \in S
<1>1. /\ Tail(q) \in Seq(S) /\ Head(q) \in S
      /\ Len(Tail(q)) = Len(q) - 1
      /\ \A i \in 1 .. Len(Tail(q)) : Tail(q)[i] = q[i + 1]
  BY HeadTailProperties
<1>2. /\ Len(q) \in Nat \ {0} /\ DOMAIN q = 1 .. Len(q)
      /\ DOMAIN Tail(q) = 1 .. Len(q) - 1
  BY <1>1, LenProperties, EmptySeq
<1>3. Head(q) = q[1]
  OBVIOUS
<1>4. QED
  BY <1>1, <1>2, <1>3 DEF FramesIn

\* The queue the governor leaves holds nothing new.
LEMMA GovernorQueue ==
  ASSUME frame_q \in Seq(Frame)
  PROVE  /\ QueueAfterGovernor \in Seq(Frame)
         /\ FramesIn(QueueAfterGovernor) \subseteq FramesIn(frame_q)
<1>1. CASE ShedOldest
  BY <1>1, FramesInTail, HeadTailProperties DEF QueueAfterGovernor, ShedOldest
<1>2. CASE ~ShedOldest
  BY <1>2 DEF QueueAfterGovernor
<1>3. QED
  BY <1>1, <1>2
-----------------------------------------------------------------------------
(* The inductive invariant *)

LEMMA InitIInv == Init => IInv
<1> SUFFICES ASSUME Init PROVE IInv
  OBVIOUS
<1> USE ParamsAssumption DEF Init
<1>1. HeldFrames = {}
  BY DEF HeldFrames, FramesIn
<1>2. TypeOK
  <2>1. PollType
    BY DEF PollType, None
  <2>2. RingType
    <3>1. 1 % RingInit \in 0 .. RingInit - 1
      OBVIOUS
    <3>2. mem \in [0 .. RingInit - 1 -> Image]
      BY DEF Image, Blank
    <3>3. QED
      BY <3>1, <3>2 DEF RingType
  <2>3. QueueType
    BY EmptySeq DEF QueueType, Infinite
  <2>4. DownType
    BY EmptySeq DEF DownType
  <2>5. QED
    BY <2>1, <2>2, <2>3, <2>4 DEF TypeOK
<1>3. BufferInv
  BY <1>1 DEF BufferInv, FramesIntact, BufsOf
<1>4. QED
  BY <1>2, <1>3 DEF IInv

\* Every step preserves it.
LEMMA NextIInv ==
  ASSUME IInv, [Next]_vars
  PROVE  IInv'
<1> USE DEF IInv, TypeOK, netVars, ringVars, curVars, queueVars, downVars, outVars
<1>h. HeldFrames \subseteq Frame
  BY FramesInType DEF HeldFrames, QueueType, DownType
<1>1. CASE PollReceive
  <2> USE <1>1 DEF PollReceive
  <2>1. PollType'
    BY ParamsAssumption DEF PollType
  <2>2. RingType' /\ QueueType' /\ DownType'
    BY DEF RingType, QueueType, DownType, Infinite
  <2>3. BufferInv'
    BY ParamsAssumption DEF BufferInv, FramesIntact, HeldFrames
  <2>4. QED
    BY <2>1, <2>2, <2>3
<1>2. CASE PollExit
  <2> USE <1>2 DEF PollExit
  <2>1. PollType'
    BY DEF PollType
  <2>2. RingType' /\ QueueType' /\ DownType'
    BY DEF RingType, QueueType, DownType, Infinite
  <2>3. BufferInv'
    BY DEF BufferInv, FramesIntact, HeldFrames
  <2>4. QED
    BY <2>1, <2>2, <2>3
<1>3. CASE PollBadPacket
  <2> USE <1>3 DEF PollBadPacket
  <2>1. burst \in Nat \ {0} /\ burst - 1 \in Nat
    BY DEF BufferInv, PollType
  <2>2. PollType'
    BY <2>1 DEF PollType, AfterPacket
  <2>3. RingType' /\ QueueType' /\ DownType'
    BY DEF RingType, QueueType, DownType, Infinite
  <2>4. BufferInv'
    BY <2>1 DEF BufferInv, FramesIntact, HeldFrames, AfterPacket
  <2>5. QED
    BY <2>2, <2>3, <2>4
<1>4. CASE PollPacket
  <2>1. PICK k \in 0 .. MaxPkt - 1 :
          /\ Account(k)
          /\ cur_ts' = IF cur_first THEN FrameOf(k) ELSE cur_ts
          /\ mem' = [mem EXCEPT ![cur_buf][LineOf(k)] = FrameOf(k)]
          /\ cur_first' = FALSE
          /\ IF IsMarker(k)
               THEN /\ fr' = [buf |-> cur_buf, num |-> frames, ts |-> cur_ts',
                              image |-> mem'[cur_buf]]
                    /\ frames' = frames + 1
                    /\ burst' = burst - 1
                    /\ pc' = "push"
               ELSE /\ burst' = burst - 1
                    /\ pc' = AfterPacket(burst - 1)
                    /\ UNCHANGED <<fr, frames>>
    BY <1>4 DEF PollPacket
  <2>2. /\ pc = "pkt"
        /\ UNCHANGED <<stop_poll, bad, ringVars, cur_buf, queueVars, downVars, outVars>>
    BY <1>4 DEF PollPacket
  <2>3. /\ k \in Nat /\ FrameOf(k) \in Nat /\ LineOf(k) \in 0 .. Lines - 1
        /\ FrameOf(k) \in 0 .. MaxPkt \div Lines
    BY PacketType, ParamsAssumption
  <2>4. burst \in Nat \ {0} /\ burst - 1 \in Nat
    BY <2>2 DEF BufferInv, PollType
  <2>5. PollType'
    <3>1. Gap(k) \in Nat
      BY <2>3, ParamsAssumption DEF Gap, PollType, None
    <3>2. k % SeqMod \in 0 .. SeqMod - 1
      BY <2>3, ParamsAssumption
    <3>3. QED
      BY <2>1, <2>2, <2>3, <2>4, <3>1, <3>2 DEF PollType, Account, AfterPacket
  <2>6. /\ mem' \in [0 .. nbuf - 1 -> Image]
        /\ \A b \in 0 .. nbuf - 1 : b # cur_buf => mem'[b] = mem[b]
    BY <2>1, <2>3 DEF RingType, Image
  <2>7. cur_ts' \in Nat
    BY <2>1, <2>3 DEF RingType
  <2>8. fr' \in Frame \cup {<<>>} /\ (pc' = "push" => fr' \in Frame)
    <3>1. mem'[cur_buf] \in Image
      BY <2>6 DEF RingType
    <3>2. CASE IsMarker(k)
      <4>1. cur_buf \in Nat /\ frames \in Nat
        BY DEF RingType, QueueType
      <4>2. [buf |-> cur_buf, num |-> frames, ts |-> cur_ts', image |-> mem'[cur_buf]]
              \in Frame
        BY <2>7, <3>1, <4>1 DEF Frame
      <4>3. QED
        BY <2>1, <3>2, <4>2
    <3>3. CASE ~IsMarker(k)
      BY <2>1, <3>3 DEF RingType, AfterPacket
    <3>4. QED
      BY <3>2, <3>3
  <2>9. RingType'
    BY <2>1, <2>2, <2>6, <2>7, <2>8 DEF RingType
  <2>10. QueueType' /\ DownType'
    BY <2>1, <2>2 DEF QueueType, DownType, Infinite
  <2>11. HeldFrames' = HeldFrames /\ reading' = reading /\ nbuf' = nbuf /\ cur_buf' = cur_buf
    BY <2>2 DEF HeldFrames
  <2>12. \A f \in HeldFrames \cup reading : f.buf # cur_buf /\ f.buf \in 0 .. nbuf - 1
    <3>1. HeldFrames \cup reading = HeldFrames
      BY DEF BufferInv, HeldFrames
    <3>2. \A f \in HeldFrames : f.buf \in Nat
      BY <1>h DEF Frame
    <3>3. QED
      BY <2>2, <3>1, <3>2 DEF BufferInv, BufsOf, FramesIntact, RingType
  <2>13. FramesIntact'
    BY <2>6, <2>11, <2>12 DEF FramesIntact, BufferInv
  <2>14. BufferInv'
    BY <2>1, <2>2, <2>4, <2>8, <2>11, <2>13 DEF BufferInv, AfterPacket
  <2>15. QED
    BY <2>5, <2>9, <2>10, <2>14
<1>5. CASE PollPush
  <2>1. /\ pc = "push" /\ pc' = "next" /\ probes' = 0
        /\ UNCHANGED <<burst, stop_poll, netVars, nbuf, buf_idx, mem, curVars, fr, frames,
                       downVars, outVars>>
    BY <1>5 DEF PollPush, Push
  <2>2. fr \in Frame /\ fr.buf = cur_buf /\ fr.image = mem[cur_buf]
    BY <2>1 DEF BufferInv
  <2>3. PollType' /\ RingType' /\ DownType'
    BY <2>1 DEF PollType, RingType, DownType
  <2>4. /\ frame_q' \in Seq(Frame)
        /\ FramesIn(frame_q') \subseteq FramesIn(frame_q) \cup {fr}
    <3> DEFINE q == QueueAfterGovernor
    <3>1. q \in Seq(Frame) /\ FramesIn(q) \subseteq FramesIn(frame_q)
      BY GovernorQueue DEF QueueType
    <3>2. Append(q, fr) \in Seq(Frame) /\ FramesIn(Append(q, fr)) = FramesIn(q) \cup {fr}
      BY <2>2, <3>1, FramesInAppend, AppendProperties
    <3>3. frame_q' = Append(q, fr) \/ frame_q' = q
      BY <1>5 DEF PollPush, Push
    <3>4. QED
      BY <3>1, <3>2, <3>3
  <2>5. QueueType'
    <3>1. /\ q_dropped' \in Nat /\ q_drained' \in Nat
      BY <1>5 DEF PollPush, Governor, QueueType
    <3>2. WinMin \in 0 .. Infinite
      BY LenProperties, ParamsAssumption DEF WinMin, QueueType, Infinite
    <3>3. q_win_count' \in Nat /\ q_win_min' \in 0 .. Infinite
      BY <1>5, <3>2, ParamsAssumption DEF PollPush, Governor, QueueType, Infinite
    <3>4. QED
      BY <2>1, <2>4, <3>1, <3>3 DEF QueueType, Infinite
  <2>6. HeldFrames' \subseteq HeldFrames \cup {fr}
    BY <2>1, <2>4 DEF HeldFrames
  <2>7. BufferInv'
    BY <2>1, <2>2, <2>6 DEF BufferInv, FramesIntact, RingType
  <2>8. QED
    BY <2>3, <2>5, <2>7
<1>6. CASE PollProbe
  <2>1. /\ pc = "next" /\ probes < nbuf
        /\ buf_idx' = (buf_idx + 1) % nbuf
        /\ UNCHANGED <<burst, stop_poll, netVars, nbuf, mem, cur_ts, frames, queueVars,
                       downVars, outVars>>
    BY <1>6 DEF PollProbe, NextIdx
  <2>2. \/ /\ OnlyInRing(buf_idx) /\ cur_buf' = buf_idx /\ cur_first' = TRUE
           /\ fr' = <<>> /\ pc' = AfterPacket(burst) /\ probes' = 0
        \/ /\ probes' = probes + 1
           /\ UNCHANGED <<cur_buf, cur_first, fr, pc>>
    BY <1>6 DEF PollProbe, NextPacket
  <2>3. PollType' /\ QueueType' /\ DownType'
    BY <2>1, <2>2 DEF PollType, QueueType, DownType, AfterPacket, Infinite
  <2>4. RingType'
    <3>1. buf_idx' \in 0 .. nbuf - 1
      BY <2>1 DEF RingType
    <3>2. probes' \in 0 .. nbuf /\ cur_buf' \in 0 .. nbuf - 1
      BY <2>1, <2>2 DEF RingType
    <3>3. QED
      BY <2>1, <2>2, <3>1, <3>2 DEF RingType
  <2>5. HeldFrames' = HeldFrames
    BY <2>1 DEF HeldFrames
  <2>6. BufferInv'
    BY <2>1, <2>2, <2>5 DEF BufferInv, FramesIntact, OnlyInRing, AfterPacket, PollType
  <2>7. QED
    BY <2>3, <2>4, <2>6
<1>7. CASE PollGrow
  <2>1. /\ pc = "next" /\ nbuf' = nbuf + 1 /\ probes' = 0
        /\ mem' = [b \in 0 .. nbuf |-> IF b = nbuf THEN [l \in 0 .. Lines - 1 |-> Blank]
                                       ELSE mem[b]]
        /\ cur_buf' = nbuf /\ cur_first' = TRUE /\ fr' = <<>> /\ pc' = AfterPacket(burst)
        /\ UNCHANGED <<burst, stop_poll, netVars, buf_idx, cur_ts, frames, queueVars,
                       downVars, outVars>>
    BY <1>7 DEF PollGrow, NextPacket
  <2>2. PollType' /\ QueueType' /\ DownType'
    BY <2>1 DEF PollType, QueueType, DownType, AfterPacket, Infinite
  <2>3. mem' \in [0 .. nbuf -> Image] /\ \A b \in 0 .. nbuf - 1 : mem'[b] = mem[b]
    <3>1. [l \in 0 .. Lines - 1 |-> Blank] \in Image
      BY DEF Image
    <3>2. \A b \in 0 .. nbuf : b # nbuf => b \in 0 .. nbuf - 1
      BY DEF RingType
    <3>3. QED
      BY <2>1, <3>1, <3>2 DEF RingType
  <2>4. RingType'
    <3>1. 0 .. nbuf' - 1 = 0 .. nbuf /\ nbuf' \in Nat \ {0}
      BY <2>1 DEF RingType
    <3>2. buf_idx' \in 0 .. nbuf /\ probes' \in 0 .. nbuf' /\ cur_buf' \in 0 .. nbuf
      BY <2>1 DEF RingType
    <3>3. QED
      BY <2>1, <2>3, <3>1, <3>2 DEF RingType
  <2>5. HeldFrames' = HeldFrames
    BY <2>1 DEF HeldFrames
  <2>6. \A f \in HeldFrames \cup reading : f.buf \in 0 .. nbuf - 1 /\ f.buf # nbuf
    <3>1. HeldFrames \cup reading = HeldFrames
      BY DEF BufferInv, HeldFrames
    <3>2. QED
      BY <1>h, <3>1 DEF BufferInv, FramesIntact, RingType, Frame
  <2>7. FramesIntact'
    BY <2>1, <2>3, <2>5, <2>6 DEF FramesIntact, BufferInv, RingType
  <2>8. BufferInv'
    BY <2>1, <2>5, <2>6, <2>7 DEF BufferInv, BufsOf, AfterPacket, PollType
  <2>9. QED
    BY <2>2, <2>4, <2>8
<1>8. CASE Emit
  <2>1. /\ frame_q # <<>> /\ frame_q' = Tail(frame_q) /\ downq' = Append(downq, Head(frame_q))
        /\ emitted' = emitted + 1
        /\ out' = [num |-> Head(frame_q).num, image |-> mem[Head(frame_q).buf]]
        /\ UNCHANGED <<pc, burst, stop_poll, netVars, ringVars, mem, curVars, fr, frames,
                       q_dropped, q_drained, q_win_count, q_win_min, inflight, reading>>
    BY <1>8 DEF Emit, FrameReady
  <2>2. /\ Head(frame_q) \in Frame /\ Head(frame_q) \in FramesIn(frame_q)
        /\ Tail(frame_q) \in Seq(Frame) /\ FramesIn(Tail(frame_q)) \subseteq FramesIn(frame_q)
    BY <2>1, FramesInTail, HeadTailProperties DEF QueueType
  <2>3. /\ Append(downq, Head(frame_q)) \in Seq(Frame)
        /\ FramesIn(Append(downq, Head(frame_q))) = FramesIn(downq) \cup {Head(frame_q)}
    BY <2>2, FramesInAppend, AppendProperties DEF DownType
  <2>4. mem[Head(frame_q).buf] \in Image
    BY <2>2 DEF BufferInv, FramesIntact, HeldFrames, RingType, Frame
  <2>5. out' \in [num : Nat, image : Image]
    BY <2>1, <2>2, <2>4 DEF Frame
  <2>6. PollType' /\ RingType'
    BY <2>1 DEF PollType, RingType
  <2>7. QueueType' /\ DownType'
    BY <2>1, <2>2, <2>3, <2>5 DEF QueueType, DownType, Infinite
  <2>8. HeldFrames' \subseteq HeldFrames
    BY <2>1, <2>2, <2>3 DEF HeldFrames
  <2>9. BufferInv'
    BY <2>1, <2>8 DEF BufferInv, FramesIntact, BufsOf
  <2>10. QED
    BY <2>6, <2>7, <2>9
<1>9. CASE Unpack
  <2>1. /\ downq # <<>> /\ downq' = Tail(downq)
        /\ UNCHANGED <<pc, burst, stop_poll, netVars, ringVars, mem, curVars, fr, frames,
                       queueVars, outVars>>
        /\ \/ /\ inflight' = (inflight \cap reading) \cup {Head(downq)}
              /\ reading' = reading \cup {Head(downq)}
           \/ UNCHANGED <<inflight, reading>>
    BY <1>9 DEF Unpack, Parked
  <2>2. /\ Head(downq) \in Frame /\ Head(downq) \in FramesIn(downq)
        /\ Tail(downq) \in Seq(Frame) /\ FramesIn(Tail(downq)) \subseteq FramesIn(downq)
    BY <2>1, FramesInTail, HeadTailProperties DEF DownType
  <2>3. PollType' /\ RingType' /\ QueueType'
    BY <2>1 DEF PollType, RingType, QueueType, Infinite
  <2>4. DownType'
    BY <2>1, <2>2 DEF DownType
  <2>5. HeldFrames' \subseteq HeldFrames /\ reading' \subseteq inflight'
    BY <2>1, <2>2 DEF HeldFrames, BufferInv
  <2>6. reading' \subseteq HeldFrames
    BY <2>1, <2>2 DEF HeldFrames, BufferInv
  <2>7. BufferInv'
    BY <2>1, <2>5, <2>6 DEF BufferInv, FramesIntact, BufsOf
  <2>8. QED
    BY <2>3, <2>4, <2>7
<1>10. CASE GpuDone
  <2>1. /\ reading' \subseteq reading
        /\ UNCHANGED <<pc, burst, stop_poll, netVars, ringVars, mem, curVars, fr, frames,
                       queueVars, downq, inflight, outVars>>
    BY <1>10 DEF GpuDone
  <2>2. TypeOK'
    BY <2>1 DEF PollType, RingType, QueueType, DownType, Infinite
  <2>3. BufferInv'
    BY <2>1 DEF BufferInv, FramesIntact, HeldFrames
  <2>4. QED
    BY <2>2, <2>3
<1>11. CASE Stop
  <2> USE <1>11 DEF Stop
  <2>1. TypeOK'
    BY DEF PollType, RingType, QueueType, DownType, Infinite
  <2>2. BufferInv'
    BY DEF BufferInv, FramesIntact, HeldFrames
  <2>3. QED
    BY <2>1, <2>2
<1>12. CASE UNCHANGED vars
  <2> USE <1>12 DEF vars
  <2>1. TypeOK'
    BY DEF PollType, RingType, QueueType, DownType, Infinite
  <2>2. BufferInv'
    BY DEF BufferInv, FramesIntact, HeldFrames
  <2>3. QED
    BY <2>1, <2>2
<1>13. QED
  BY <1>1, <1>2, <1>3, <1>4, <1>5, <1>6, <1>7, <1>8, <1>9, <1>10, <1>11, <1>12
  DEF Next, Poll

\* Every variable of the receive operator keeps its type.
THEOREM TypeCorrect == Spec => []TypeOK
<1>1. Init => IInv
  BY InitIInv
<1>2. IInv /\ [Next]_vars => IInv'
  BY NextIInv
<1>3. IInv => TypeOK
  BY DEF IInv
<1>4. QED
  BY <1>1, <1>2, <1>3, PTL DEF Spec

\* A completed frame is never overwritten while a queue, UnpackOp or a kernel refers to it,
\* for every ring size, queue depth and backlog: next_buffer's promise.
THEOREM FramesStayIntact == Spec => []FramesIntact
<1>1. Init => IInv
  BY InitIInv
<1>2. IInv /\ [Next]_vars => IInv'
  BY NextIInv
<1>3. IInv => FramesIntact
  BY DEF IInv, BufferInv
<1>4. QED
  BY <1>1, <1>2, <1>3, PTL DEF Spec
-----------------------------------------------------------------------------
(* Counting: no frame is lost or duplicated between the NIC and compute() *)

\* The length of the queue after the governor, in terms of the shed count.
LEMMA GovernorLength ==
  ASSUME frame_q \in Seq(Frame), q_drained \in Nat, Governor
  PROVE  /\ QueueAfterGovernor \in Seq(Frame)
         /\ Len(QueueAfterGovernor) \in Nat
         /\ Len(QueueAfterGovernor) + q_drained' = Len(frame_q) + q_drained
         /\ q_drained' >= q_drained
<1>1. QueueAfterGovernor \in Seq(Frame) /\ Len(frame_q) \in Nat
  BY GovernorQueue, LenProperties
<1>2. CASE ShedOldest
  <2>1. frame_q # <<>> /\ QueueAfterGovernor = Tail(frame_q) /\ q_drained' = q_drained + 1
    BY <1>2 DEF ShedOldest, QueueAfterGovernor, Governor
  <2>2. Len(Tail(frame_q)) = Len(frame_q) - 1 /\ Len(Tail(frame_q)) \in Nat
    BY <1>1, <2>1, HeadTailProperties, LenProperties
  <2>3. QED
    BY <1>1, <2>1, <2>2
<1>3. CASE ~ShedOldest
  BY <1>1, <1>3 DEF QueueAfterGovernor, Governor
<1>4. QED
  BY <1>2, <1>3

LEMMA NextAccounted ==
  ASSUME IInv, FramesAccounted, [Next]_vars
  PROVE  FramesAccounted'
<1> USE DEF netVars, ringVars, curVars, queueVars, downVars, outVars
<1>t. /\ frame_q \in Seq(Frame) /\ Len(frame_q) \in Nat
      /\ frames \in Nat /\ emitted \in Nat /\ q_dropped \in Nat /\ q_drained \in Nat
  BY LenProperties DEF IInv, TypeOK, QueueType, DownType
<1>1. CASE PollPacket
  <2>1. /\ pc = "pkt"
        /\ \/ frames' = frames + 1 /\ pc' = "push"
           \/ frames' = frames /\ pc' # "push"
        /\ UNCHANGED <<queueVars, outVars>>
    BY <1>1 DEF PollPacket, AfterPacket
  <2>2. QED
    BY <1>t, <2>1 DEF FramesAccounted
<1>2. CASE PollPush
  <2> DEFINE q == QueueAfterGovernor
  <2>1. /\ q \in Seq(Frame) /\ Len(q) \in Nat
        /\ Len(q) + q_drained' = Len(frame_q) + q_drained /\ q_drained' >= q_drained
    BY <1>2, <1>t, GovernorLength DEF PollPush
  <2>2. /\ pc = "push" /\ pc' = "next" /\ emitted' = emitted /\ frames' = frames
    BY <1>2 DEF PollPush
  <2>3. q_drained' \in Nat
    BY <1>2, <1>t DEF PollPush, Governor
  <2>4. CASE Len(q) < QDepth
    <3>1. fr \in Frame
      BY <2>2 DEF IInv, BufferInv
    <3>2. Len(frame_q') = Len(q) + 1 /\ q_dropped' = q_dropped
      BY <1>2, <2>1, <2>4, <3>1, AppendProperties DEF PollPush, HasRoom, Push
    <3>3. QED
      BY <1>t, <2>1, <2>2, <2>3, <2>4, <3>2, ParamsAssumption DEF FramesAccounted
  <2>5. CASE ~(Len(q) < QDepth)
    <3>1. frame_q' = q /\ q_dropped' = q_dropped + 1
      BY <1>2, <2>5 DEF PollPush, HasRoom
    <3>2. QED
      BY <1>t, <2>1, <2>2, <2>3, <2>5, <3>1, ParamsAssumption DEF FramesAccounted
  <2>6. QED
    BY <2>4, <2>5
<1>3. CASE Emit
  <2>1. Len(frame_q') = Len(frame_q) - 1
    BY <1>3, <1>t, HeadTailProperties DEF Emit, FrameReady
  <2>2. UNCHANGED <<pc, frames, q_dropped, q_drained>> /\ emitted' = emitted + 1
    BY <1>3 DEF Emit
  <2>3. QED
    BY <1>t, <2>1, <2>2, ParamsAssumption DEF FramesAccounted
<1>4. CASE \/ PollReceive \/ PollExit \/ PollBadPacket \/ PollProbe \/ PollGrow
           \/ Unpack \/ GpuDone \/ Stop \/ UNCHANGED vars
  <2>1. /\ UNCHANGED <<frames, emitted, frame_q, q_dropped, q_drained>>
        /\ pc' = "push" <=> pc = "push"
    BY <1>4 DEF PollReceive, PollExit, PollBadPacket, PollProbe, PollGrow, NextPacket,
                AfterPacket, Unpack, GpuDone, Stop, vars
  <2>2. QED
    BY <2>1 DEF FramesAccounted
<1>5. QED
  BY <1>1, <1>2, <1>3, <1>4 DEF Next, Poll

\* The queue is bounded by kMaxQ and every completed frame is popped, queued, dropped, shed or
\* in the poll thread's hand: q_dropped_ and q_drained_ explain every missing frame.
THEOREM EveryFrameAccounted == Spec => []FramesAccounted
<1>1. Init => IInv /\ FramesAccounted
  BY InitIInv, EmptySeq, ParamsAssumption DEF Init, FramesAccounted
<1>2. IInv /\ FramesAccounted /\ [Next]_vars => IInv' /\ FramesAccounted'
  BY NextIInv, NextAccounted
<1>3. QED
  BY <1>1, <1>2, PTL DEF Spec

LEMMA NextDrain ==
  ASSUME IInv, DrainInv, [Next]_vars
  PROVE  DrainInv'
<1> USE DEF netVars, ringVars, curVars, queueVars, downVars, outVars
<1>t. frames \in Nat /\ q_drained \in Nat /\ q_win_count \in Nat /\ Window \in Nat \ {0}
  BY ParamsAssumption DEF IInv, TypeOK, QueueType
<1>1. CASE PollPacket
  <2>1. /\ pc = "pkt"
        /\ \/ frames' = frames + 1 /\ pc' = "push"
           \/ frames' = frames /\ pc' # "push"
        /\ UNCHANGED <<q_drained, q_win_count>>
    BY <1>1 DEF PollPacket, AfterPacket
  <2>2. QED
    BY <1>t, <2>1 DEF DrainInv, Completed
<1>2. CASE PollPush
  <2>1. pc = "push" /\ pc' = "next" /\ frames' = frames
    BY <1>2 DEF PollPush
  <2>2. Completed' = Completed + 1 /\ Completed \in Int
    BY <1>t, <2>1 DEF Completed
  <2>3. /\ q_drained' = IF ShedOldest THEN q_drained + 1 ELSE q_drained
        /\ q_win_count' = IF WindowFull \/ ~Drain THEN 0 ELSE q_win_count + 1
    BY <1>2 DEF PollPush, Governor
  <2>4. (q_drained + 1) * Window = q_drained * Window + Window /\ q_drained * Window \in Nat
    BY <1>t
  <2>5. CASE ShedOldest
    <3>1. q_drained' = q_drained + 1 /\ q_win_count' = 0 /\ q_win_count + 1 >= Window
      BY <2>3, <2>5 DEF ShedOldest, WindowFull
    <3>2. QED
      BY <1>t, <2>2, <2>4, <3>1 DEF DrainInv
  <2>6. CASE ~ShedOldest
    <3>1. q_drained' = q_drained
      BY <2>3, <2>6
    <3>2. q_win_count' = 0 \/ (q_win_count' = q_win_count + 1 /\ ~(q_win_count + 1 >= Window))
      BY <2>3 DEF WindowFull
    <3>3. QED
      BY <1>t, <2>2, <2>4, <3>1, <3>2 DEF DrainInv
  <2>7. QED
    BY <2>5, <2>6
<1>3. CASE \/ PollReceive \/ PollExit \/ PollBadPacket \/ PollProbe \/ PollGrow
           \/ Emit \/ Unpack \/ GpuDone \/ Stop \/ UNCHANGED vars
  <2>1. /\ UNCHANGED <<frames, q_drained, q_win_count>>
        /\ pc' = "push" <=> pc = "push"
    BY <1>3 DEF PollReceive, PollExit, PollBadPacket, PollProbe, PollGrow, NextPacket,
                AfterPacket, Emit, Unpack, GpuDone, Stop, vars
  <2>2. QED
    BY <2>1 DEF DrainInv, Completed
<1>4. QED
  BY <1>1, <1>2, <1>3 DEF Next, Poll

\* The drain governor sheds at most one frame in any Window completed frames.
THEOREM DrainIsBounded == Spec => []DrainBounded
<1>1. Init => IInv /\ DrainInv
  BY InitIInv, ParamsAssumption DEF Init, DrainInv, Completed
<1>2. IInv /\ DrainInv /\ [Next]_vars => IInv' /\ DrainInv'
  BY NextIInv, NextDrain
<1>3. IInv /\ DrainInv => DrainBounded
  <2> SUFFICES ASSUME IInv, DrainInv PROVE DrainBounded
    OBVIOUS
  <2>1. frames \in Nat /\ q_drained \in Nat /\ q_win_count \in Nat /\ Window \in Nat
    BY ParamsAssumption DEF IInv, TypeOK, QueueType
  <2>2. q_drained * Window \in Nat
    BY <2>1
  <2>3. QED
    BY <2>1, <2>2 DEF DrainInv, Completed, DrainBounded
<1>4. QED
  BY <1>1, <1>2, <1>3, PTL DEF Spec
-----------------------------------------------------------------------------
(* Order: the stamps of the frames on a network that keeps the order *)

\* The stamps of a queue increase.
Ordered(q) == \A i, j \in DOMAIN q : i < j => q[i].ts < q[j].ts

\* The first stamps the frames that are waiting are before.
Limit ==
  CASE pc = "push" -> fr.ts
    [] pc # "push" /\ (pc = "next" \/ cur_first) -> FrameOf(NextInOrder)
    [] OTHER -> cur_ts
Waiting == FramesIn(frame_q) \cup FramesIn(downq)

\* The inductive form: what waits is before what is assembled or in the poll thread's hand, and
\* that before every packet still to come.
OrderInv ==
  /\ arrived # {} => Newest \in arrived /\ \A j \in arrived : j <= Newest
  /\ \A f \in Waiting : f.ts < Limit
  /\ pc = "push" => fr.ts < FrameOf(NextInOrder)
  /\ ~cur_first => cur_ts <= FrameOf(NextInOrder)
  /\ Ordered(frame_q)
  /\ \A f \in FramesIn(downq), g \in FramesIn(frame_q) : f.ts < g.ts

\* A queue without its head is ordered, and the head is before it.
LEMMA OrderedTail ==
  ASSUME NEW q \in Seq(Frame), q # <<>>, Ordered(q)
  PROVE  Ordered(Tail(q)) /\ \A g \in FramesIn(Tail(q)) : Head(q).ts < g.ts
<1>1. /\ Len(q) \in Nat \ {0} /\ DOMAIN q = 1 .. Len(q)
      /\ DOMAIN Tail(q) = 1 .. Len(q) - 1 /\ Head(q) = q[1]
      /\ \A i \in 1 .. Len(q) - 1 : Tail(q)[i] = q[i + 1]
  BY HeadTailProperties, LenProperties, EmptySeq
<1> QED
  BY <1>1 DEF Ordered, FramesIn

\* A queue with a later frame behind it is ordered.
LEMMA OrderedAppend ==
  ASSUME NEW q \in Seq(Frame), NEW f \in Frame, Ordered(q),
         \A g \in FramesIn(q) : g.ts < f.ts
  PROVE  Ordered(Append(q, f))
<1>1. /\ Len(q) \in Nat /\ DOMAIN q = 1 .. Len(q) /\ DOMAIN Append(q, f) = 1 .. Len(q) + 1
      /\ \A i \in 1 .. Len(q) : Append(q, f)[i] = q[i]
      /\ Append(q, f)[Len(q) + 1] = f
  BY AppendProperties, LenProperties
<1>2. \A i \in 1 .. Len(q) : q[i].ts < f.ts
  BY <1>1 DEF FramesIn
<1> QED
  BY <1>1, <1>2 DEF Ordered

\* The number of the next packet is a number.
LEMMA NextInOrderType ==
  ASSUME IInv, OrderInv
  PROVE  NextInOrder \in Nat /\ \A j \in arrived : j < NextInOrder
<1>1. arrived \subseteq Nat
  BY DEF IInv, TypeOK, PollType
<1>2. CASE arrived = {}
  BY <1>2 DEF NextInOrder
<1>3. CASE arrived # {}
  <2>1. Newest \in Nat /\ \A j \in arrived : j <= Newest
    BY <1>1, <1>3 DEF OrderInv
  <2>2. NextInOrder = Newest + 1
    BY <1>3 DEF NextInOrder
  <2> HIDE DEF Newest, NextInOrder
  <2> QED
    BY <1>1, <2>1, <2>2
<1> QED
  BY <1>2, <1>3

LEMMA NextOrder ==
  ASSUME InOrder, IInv, OrderInv, [Next]_vars
  PROVE  OrderInv'
<1> USE DEF netVars, ringVars, curVars, queueVars, downVars, outVars
<1>t. /\ frame_q \in Seq(Frame) /\ downq \in Seq(Frame) /\ cur_first \in BOOLEAN
      /\ cur_ts \in Nat /\ arrived \subseteq Nat
  BY DEF IInv, TypeOK, QueueType, DownType, RingType, PollType
<1>w. Waiting \subseteq Frame /\ \A f \in Frame : f.ts \in Nat
  BY <1>t, FramesInType DEF Waiting, Frame
<1>n. NextInOrder \in Nat /\ \A j \in arrived : j < NextInOrder
  BY NextInOrderType
<1>1. CASE PollPacket
  <2>1. PICK k \in 0 .. MaxPkt - 1 :
          /\ Arrives(k) /\ Account(k)
          /\ cur_ts' = IF cur_first THEN FrameOf(k) ELSE cur_ts
          /\ cur_first' = FALSE
          /\ IF IsMarker(k)
               THEN /\ fr' = [buf |-> cur_buf, num |-> frames, ts |-> cur_ts',
                              image |-> mem'[cur_buf]]
                    /\ pc' = "push"
               ELSE pc' = AfterPacket(burst - 1) /\ UNCHANGED fr
    BY <1>1 DEF PollPacket
  <2>2. pc = "pkt" /\ UNCHANGED <<frame_q, downq>>
    BY <1>1 DEF PollPacket
  <2>3. k \in Nat /\ k >= NextInOrder
    BY <2>1, <1>n, ParamsAssumption DEF Arrives, ToCome
  <2>4. arrived' = arrived \cup {k} /\ \A j \in arrived' : j <= k
    BY <2>1, <2>3, <1>n, <1>t DEF Account
  <2>5. Newest' = k
    <3>1. k \in arrived' /\ arrived' \subseteq Nat
      BY <2>3, <2>4, <1>t
    <3>2. \A j \in arrived' : (\A i \in arrived' : i <= j) => j = k
      BY <2>4, <3>1
    <3>3. \E j \in arrived' : \A i \in arrived' : i <= j
      BY <2>4, <3>1
    <3> QED
      BY <3>1, <3>2, <3>3, <2>4 DEF Newest
  <2>6. NextInOrder' = k + 1
    BY <2>4, <2>5 DEF NextInOrder
  <2>7. /\ FrameOf(NextInOrder) <= FrameOf(k) /\ FrameOf(k) <= FrameOf(k + 1)
        /\ FrameOf(NextInOrder) \in Nat /\ FrameOf(k) \in Nat /\ FrameOf(k + 1) \in Nat
    BY <2>3, <1>n, FrameMonotone, PacketParts
  <2>8. cur_ts' \in Nat /\ cur_ts' <= FrameOf(k)
    BY <2>1, <2>7, <1>t DEF OrderInv
  <2>9. \A f \in Waiting : f.ts < cur_ts'
    <3>1. Limit = IF cur_first THEN FrameOf(NextInOrder) ELSE cur_ts
      BY <2>2 DEF Limit
    <3>2. Limit \in Nat /\ Limit <= cur_ts'
      BY <3>1, <2>1, <2>7, <1>t
    <3> QED
      BY <3>2, <2>8, <1>w DEF OrderInv
  <2>10. Limit' = cur_ts'
    <3>1. CASE IsMarker(k)
      <4>1. fr'.ts = cur_ts' /\ pc' = "push"
        BY <2>1, <3>1
      <4> QED
        BY <4>1 DEF Limit
    <3>2. CASE ~IsMarker(k)
      BY <2>1, <3>2 DEF Limit, AfterPacket
    <3> QED
      BY <3>1, <3>2
  <2>11. pc' = "push" => fr'.ts < FrameOf(k + 1)
    <3> SUFFICES ASSUME pc' = "push" PROVE fr'.ts < FrameOf(k + 1)
      OBVIOUS
    <3>1. IsMarker(k) /\ fr'.ts = cur_ts'
      BY <2>1 DEF AfterPacket
    <3>2. FrameOf(k) < FrameOf(k + 1)
      <4>1. k + 1 = Lines * (FrameOf(k) + 1)
        <5>1. /\ LineOf(k) = Lines - 1 /\ k = Lines * FrameOf(k) + LineOf(k)
              /\ Lines \in Nat \ {0}
          BY <3>1, <2>3, PacketParts, ParamsAssumption DEF IsMarker
        <5>2. Lines * FrameOf(k) \in Int /\ Lines * (FrameOf(k) + 1) = Lines * FrameOf(k) + Lines
          BY <5>1, <2>7
        <5> QED
          BY <5>1, <5>2
      <4>2. FrameOf(k) + 1 = FrameOf(k + 1)
        BY <4>1, <2>7, ParamsAssumption DEF FrameOf
      <4> QED
        BY <4>2, <2>7
    <3> QED
      BY <3>1, <3>2, <2>7, <2>8
  <2>12. Waiting' = Waiting
    BY <2>2 DEF Waiting
  <2>13. cur_ts' <= FrameOf(k + 1)
    BY <2>7, <2>8
  <2> QED
    BY <2>1, <2>2, <2>4, <2>5, <2>6, <2>9, <2>10, <2>11, <2>12, <2>13 DEF OrderInv
<1>2. CASE PollPush
  <2> DEFINE q == QueueAfterGovernor
  <2>1. /\ pc = "push" /\ pc' = "next" /\ UNCHANGED <<arrived, curVars, fr, downq>>
        /\ frame_q' = Append(q, fr) \/ frame_q' = q
    BY <1>2 DEF PollPush, Push
  <2>2. fr \in Frame
    BY <2>1 DEF IInv, BufferInv
  <2>3. q \in Seq(Frame) /\ FramesIn(q) \subseteq FramesIn(frame_q)
    BY <1>t, GovernorQueue
  <2>4. Ordered(q)
    BY <1>t, OrderedTail DEF OrderInv, QueueAfterGovernor, ShedOldest
  <2>5. \A f \in Waiting : f.ts < fr.ts
    BY <2>1 DEF OrderInv, Limit
  <2>6. \A f \in FramesIn(q) \cup FramesIn(downq) : f.ts < fr.ts
    BY <2>3, <2>5 DEF Waiting
  <2> HIDE DEF q
  <2>7. Ordered(frame_q') /\ FramesIn(frame_q') \subseteq FramesIn(q) \cup {fr}
    <3>1. FramesIn(Append(q, fr)) = FramesIn(q) \cup {fr}
      BY <2>2, <2>3, FramesInAppend
    <3>2. Ordered(Append(q, fr))
      BY <2>2, <2>3, <2>4, <2>6, OrderedAppend
    <3> QED
      BY <2>1, <2>4, <3>1, <3>2
  <2>8. NextInOrder' = NextInOrder /\ Newest' = Newest
    BY <2>1 DEF NextInOrder, Newest
  <2>9. Limit' = FrameOf(NextInOrder) /\ fr.ts < FrameOf(NextInOrder)
    BY <2>1, <2>8 DEF Limit, OrderInv
  <2>10. Waiting' \subseteq Waiting \cup {fr} /\ fr.ts \in Nat /\ FrameOf(NextInOrder) \in Nat
    BY <2>1, <2>2, <2>3, <2>7, <1>w, <1>n, PacketParts DEF Waiting
  <2>11. \A f \in Waiting' : f.ts < Limit'
    BY <2>5, <2>9, <2>10, <1>w
  <2>12. \A f \in FramesIn(downq'), g \in FramesIn(frame_q') : f.ts < g.ts
    BY <2>1, <2>3, <2>6, <2>7 DEF OrderInv
  <2> QED
    BY <2>1, <2>7, <2>8, <2>11, <2>12 DEF OrderInv
<1>3. CASE Emit
  <2>1. /\ frame_q # <<>> /\ frame_q' = Tail(frame_q) /\ downq' = Append(downq, Head(frame_q))
        /\ UNCHANGED <<pc, arrived, curVars, fr>>
    BY <1>3 DEF Emit, FrameReady
  <2>2. /\ Head(frame_q) \in Frame /\ Head(frame_q) \in FramesIn(frame_q)
        /\ FramesIn(Tail(frame_q)) \subseteq FramesIn(frame_q)
    BY <2>1, <1>t, FramesInTail
  <2>3. FramesIn(downq') = FramesIn(downq) \cup {Head(frame_q)}
    BY <2>1, <2>2, <1>t, FramesInAppend
  <2>4. Ordered(frame_q') /\ \A g \in FramesIn(frame_q') : Head(frame_q).ts < g.ts
    BY <2>1, <1>t, OrderedTail DEF OrderInv
  <2>5. NextInOrder' = NextInOrder /\ Newest' = Newest /\ Limit' = Limit
    BY <2>1 DEF NextInOrder, Newest, Limit
  <2>6. Waiting' \subseteq Waiting
    BY <2>1, <2>2, <2>3 DEF Waiting
  <2>7. \A f \in FramesIn(downq'), g \in FramesIn(frame_q') : f.ts < g.ts
    BY <2>1, <2>2, <2>3, <2>4 DEF OrderInv
  <2> QED
    BY <2>1, <2>4, <2>5, <2>6, <2>7 DEF OrderInv
<1>4. CASE Unpack
  <2>1. /\ downq # <<>> /\ downq' = Tail(downq)
        /\ UNCHANGED <<pc, arrived, curVars, fr, frame_q>>
    BY <1>4 DEF Unpack
  <2>2. FramesIn(downq') \subseteq FramesIn(downq)
    BY <2>1, <1>t, FramesInTail
  <2>3. /\ NextInOrder' = NextInOrder /\ Newest' = Newest /\ Limit' = Limit
        /\ Waiting' \subseteq Waiting
    BY <2>1, <2>2 DEF NextInOrder, Newest, Limit, Waiting
  <2> QED
    BY <2>1, <2>2, <2>3 DEF OrderInv
<1>5. CASE PollProbe \/ PollGrow
  <2>1. /\ pc = "next" /\ UNCHANGED <<arrived, frame_q, downq, cur_ts>>
        /\ \/ pc' \in {"head", "pkt"} /\ cur_first' = TRUE
           \/ UNCHANGED <<pc, fr, cur_first>>
    BY <1>5 DEF PollProbe, PollGrow, NextPacket, AfterPacket
  <2>2. NextInOrder' = NextInOrder /\ Newest' = Newest /\ Waiting' = Waiting
    BY <2>1 DEF NextInOrder, Newest, Waiting
  <2>3. Limit' = Limit
    BY <2>1, <2>2 DEF Limit
  <2> QED
    BY <2>1, <2>2, <2>3 DEF OrderInv
<1>6. CASE PollReceive \/ PollExit \/ PollBadPacket \/ GpuDone \/ Stop \/ UNCHANGED vars
  <2>1. /\ UNCHANGED <<arrived, frame_q, downq, curVars, fr>>
        /\ (pc' = "push") <=> (pc = "push")
        /\ (pc' = "next") <=> (pc = "next")
    BY <1>6 DEF PollReceive, PollExit, PollBadPacket, AfterPacket, GpuDone, Stop, vars
  <2>2. NextInOrder' = NextInOrder /\ Newest' = Newest /\ Waiting' = Waiting
    BY <2>1 DEF NextInOrder, Newest, Waiting
  <2>3. Limit' = Limit
    BY <2>1, <2>2 DEF Limit
  <2> QED
    BY <2>1, <2>2, <2>3 DEF OrderInv
<1> QED
  BY <1>1, <1>2, <1>3, <1>4, <1>5, <1>6 DEF Next, Poll

LEMMA InitOrder == Init => OrderInv
<1> SUFFICES ASSUME Init PROVE OrderInv
  OBVIOUS
<1>1. Waiting = {} /\ DOMAIN frame_q = {}
  BY DEF Init, Waiting, FramesIn
<1> QED
  BY <1>1 DEF Init, OrderInv, Ordered, Waiting

\* OrderInv is about sets of frames, StampsIncrease about positions.
LEMMA OrderStamps == IInv /\ OrderInv => StampsIncrease
<1> SUFFICES ASSUME IInv, OrderInv PROVE StampsIncrease
  OBVIOUS
<1>1. /\ \A i \in DOMAIN frame_q : frame_q[i] \in FramesIn(frame_q)
      /\ \A i \in DOMAIN downq : downq[i] \in FramesIn(downq)
  BY DEF FramesIn
<1>2. pc = "push" => \A i \in DOMAIN frame_q : frame_q[i].ts < fr.ts
  BY <1>1 DEF OrderInv, Limit, Waiting
<1> QED
  BY <1>1, <1>2 DEF OrderInv, Ordered, StampsIncrease

\* On a network that loses packets but keeps their order, the time stamps of waiting frames
\* increase from the oldest in unpack's queue to the one in the poll thread's hand, lost
\* markers and merged frames included.
THEOREM StampsStayOrdered == InOrder => (Spec => []StampsIncrease)
<1>1. Init => IInv /\ OrderInv
  BY InitIInv, InitOrder
<1>2. InOrder /\ IInv /\ OrderInv /\ [Next]_vars => IInv' /\ OrderInv'
  BY NextIInv, NextOrder
<1>3. IInv /\ OrderInv => StampsIncrease
  BY OrderStamps
<1> QED
  <2> SUFFICES ASSUME InOrder PROVE Spec => []StampsIncrease
    OBVIOUS
  <2>1. IInv /\ OrderInv /\ [Next]_vars => IInv' /\ OrderInv'
    BY <1>2
  <2> QED
    BY <1>1, <2>1, <1>3, PTL DEF Spec
-----------------------------------------------------------------------------
(* The ring stops growing *)

\* How far the probe at buf_idx is ahead of buffer b, and the buffers this scan has probed.
Behind(b) == IF b < buf_idx THEN buf_idx - b ELSE (buf_idx - b) + nbuf
Probed == {b \in 0 .. nbuf - 1 : Behind(b) <= probes}

\* The buffers a scan may find in use, and how many they can be.
InUse == Probed \cup BufsOf(HeldFrames) \cup {cur_buf}
Reach == QDepth + DownCap + MaxInflight + 1

\* The inductive form: the frames that can be referenced are few, and all that a scan finds in
\* use was in use when the scan began.
RingInv ==
  /\ Len(downq) <= DownCap
  /\ IsFiniteSet(inflight) /\ Cardinality(inflight) <= MaxInflight
  /\ pc = "next" => \E H \in SUBSET (0 .. nbuf - 1) : InUse \subseteq H /\ Cardinality(H) <= Reach
  /\ RingBounded

\* A queue holds no more frames than its length.
LEMMA FewFrames ==
  ASSUME NEW q \in Seq(Frame)
  PROVE  IsFiniteSet(FramesIn(q)) /\ Cardinality(FramesIn(q)) <= Len(q)
<1>1. Len(q) \in Nat /\ DOMAIN q = 1 .. Len(q)
  BY LenProperties
<1>2. [i \in 1 .. Len(q) |-> q[i]] \in Surjection(1 .. Len(q), FramesIn(q))
  BY <1>1 DEF Surjection, FramesIn
<1>3. IsFiniteSet(1 .. Len(q)) /\ Cardinality(1 .. Len(q)) = Len(q)
  BY <1>1, FS_Interval
<1> QED
  BY <1>2, <1>3, FS_Surjection

\* Frames refer to no more buffers than there are frames.
LEMMA FewBufs ==
  ASSUME NEW S, IsFiniteSet(S)
  PROVE  IsFiniteSet(BufsOf(S)) /\ Cardinality(BufsOf(S)) <= Cardinality(S)
<1>1. [f \in S |-> f.buf] \in Surjection(S, BufsOf(S))
  BY DEF Surjection, BufsOf
<1> QED
  BY <1>1, FS_Surjection

\* Sets of known sizes together are no bigger than the sum.
LEMMA FewTogether ==
  ASSUME NEW S, IsFiniteSet(S), NEW T, IsFiniteSet(T)
  PROVE  /\ IsFiniteSet(S \cup T)
         /\ Cardinality(S \cup T) <= Cardinality(S) + Cardinality(T)
<1>1. IsFiniteSet(S \cap T)
  BY FS_Intersection
<1>2. Cardinality(S) \in Nat /\ Cardinality(T) \in Nat /\ Cardinality(S \cap T) \in Nat
  BY <1>1, FS_CardinalityType
<1>3. /\ IsFiniteSet(S \cup T)
      /\ Cardinality(S \cup T) = Cardinality(S) + Cardinality(T) - Cardinality(S \cap T)
  BY FS_Union
<1> QED
  BY <1>2, <1>3

\* One more probe adds the buffer it probed.
LEMMA OneMoreProbed ==
  ASSUME RingType, probes < nbuf, buf_idx' = NextIdx(buf_idx), nbuf' = nbuf,
         probes' = probes + 1
  PROVE  Probed' = Probed \cup {buf_idx}
<1>1. /\ nbuf \in Nat \ {0} /\ buf_idx \in 0 .. nbuf - 1 /\ probes \in 0 .. nbuf
  BY DEF RingType
<1>2. buf_idx' = IF buf_idx + 1 = nbuf THEN 0 ELSE buf_idx + 1
  BY <1>1 DEF NextIdx
<1>3. \A b \in 0 .. nbuf - 1 : b # buf_idx => Behind(b)' = Behind(b) + 1 /\ Behind(b) \in Nat
  BY <1>1, <1>2 DEF Behind
<1>4. Behind(buf_idx) = nbuf
  BY <1>1 DEF Behind
<1>5. (IF buf_idx < buf_idx' THEN buf_idx' - buf_idx ELSE (buf_idx' - buf_idx) + nbuf') = 1
  BY <1>1, <1>2
<1> QED
  BY <1>1, <1>3, <1>4, <1>5 DEF Probed, Behind

\* Two queues and a set of frames, and the buffers these and the one being assembled are in.
LEMMA FewHeld ==
  ASSUME NEW q \in Seq(Frame), NEW d \in Seq(Frame), NEW S, IsFiniteSet(S), NEW b,
         Len(q) <= QDepth, Len(d) <= DownCap, Cardinality(S) <= MaxInflight
  PROVE  LET used == BufsOf((FramesIn(q) \cup FramesIn(d)) \cup S) \cup {b}
         IN  IsFiniteSet(used) /\ Cardinality(used) <= Reach
<1> DEFINE A == FramesIn(q)  D == FramesIn(d)
<1>1. /\ IsFiniteSet(A) /\ Cardinality(A) <= Len(q) /\ Len(q) \in Nat
      /\ IsFiniteSet(D) /\ Cardinality(D) <= Len(d) /\ Len(d) \in Nat
  BY FewFrames, LenProperties
<1> HIDE DEF A, D
<1> DEFINE held == (A \cup D) \cup S
<1>2. IsFiniteSet(A \cup D) /\ Cardinality(A \cup D) <= Cardinality(A) + Cardinality(D)
  BY <1>1, FewTogether
<1>3. IsFiniteSet(held) /\ Cardinality(held) <= Cardinality(A \cup D) + Cardinality(S)
  BY <1>2, FewTogether
<1> HIDE DEF held
<1>4. IsFiniteSet(BufsOf(held)) /\ Cardinality(BufsOf(held)) <= Cardinality(held)
  BY <1>3, FewBufs
<1>5. /\ IsFiniteSet(BufsOf(held) \cup {b})
      /\ \/ Cardinality(BufsOf(held) \cup {b}) = Cardinality(BufsOf(held))
         \/ Cardinality(BufsOf(held) \cup {b}) = Cardinality(BufsOf(held)) + 1
  BY <1>4, FS_AddElement
<1>6. /\ Cardinality(A) \in Nat /\ Cardinality(D) \in Nat /\ Cardinality(A \cup D) \in Nat
      /\ Cardinality(S) \in Nat /\ Cardinality(held) \in Nat
      /\ Cardinality(BufsOf(held)) \in Nat
  BY <1>1, <1>2, <1>3, <1>4, FS_CardinalityType
<1>7. Cardinality(BufsOf(held) \cup {b}) <= Reach
  BY <1>1, <1>2, <1>3, <1>4, <1>5, <1>6, ParamsAssumption DEF Reach
<1> QED
  BY <1>5, <1>7 DEF held, A, D

\* What others refer to only shrinks during a scan, so the scan's bound stays.
LEMMA ScanKeeps ==
  ASSUME RingInv, UNCHANGED <<nbuf, buf_idx, probes, cur_buf>>, pc' = "next" => pc = "next",
         BufsOf(HeldFrames') \subseteq BufsOf(HeldFrames)
  PROVE  pc' = "next" => \E H \in SUBSET (0 .. nbuf' - 1) : InUse' \subseteq H /\ Cardinality(H) <= Reach
<1> SUFFICES ASSUME pc' = "next"
             PROVE  \E H \in SUBSET (0 .. nbuf' - 1) : InUse' \subseteq H /\ Cardinality(H) <= Reach
  OBVIOUS
<1>1. PICK H \in SUBSET (0 .. nbuf - 1) : InUse \subseteq H /\ Cardinality(H) <= Reach
  BY DEF RingInv
<1>2. Probed' = Probed
  BY DEF Probed, Behind
<1>3. BufsOf(HeldFrames)' = BufsOf(HeldFrames')
  BY DEF BufsOf
<1>4. InUse' \subseteq InUse
  BY <1>2, <1>3 DEF InUse
<1> QED
  BY <1>1, <1>4

LEMMA NextRing ==
  ASSUME IInv, IInv', FramesAccounted, FramesAccounted', RingInv, [Next]_vars
  PROVE  RingInv'
<1> USE DEF netVars, ringVars, curVars, queueVars, downVars, outVars
<1>t. /\ frame_q \in Seq(Frame) /\ downq \in Seq(Frame) /\ Len(downq) \in Nat
      /\ frame_q' \in Seq(Frame) /\ Len(frame_q') <= QDepth
      /\ RingType /\ nbuf \in Nat \ {0}
  BY LenProperties
  DEF IInv, TypeOK, QueueType, DownType, RingType, FramesAccounted
<1>1. CASE PollPush
  <2>1. /\ pc = "push" /\ pc' = "next" /\ probes' = 0
        /\ UNCHANGED <<nbuf, buf_idx, cur_buf, downq, inflight>>
    BY <1>1 DEF PollPush
  <2> DEFINE H == BufsOf(HeldFrames') \cup {cur_buf}
  <2>2. IsFiniteSet(H) /\ Cardinality(H) <= Reach
    BY <2>1, <1>t, FewHeld DEF RingInv, HeldFrames
  <2>3. Probed' = {}
    BY <2>1, <1>t DEF Probed, Behind, RingType
  <2>4. InUse' = H
    BY <2>1, <2>3 DEF InUse, BufsOf
  <2>5. H \subseteq 0 .. nbuf - 1
    <3>1. \A f \in HeldFrames' : f \in Frame /\ f.buf < nbuf
      BY <2>1, FramesInType
      DEF IInv, TypeOK, BufferInv, FramesIntact, HeldFrames, QueueType, DownType
    <3> QED
      BY <3>1, <1>t DEF BufsOf, Frame, RingType
  <2> QED
    BY <2>1, <2>2, <2>4, <2>5 DEF RingInv, RingBounded
<1>2. CASE PollProbe
  <2>1. /\ pc = "next" /\ probes < nbuf /\ buf_idx' = NextIdx(buf_idx)
        /\ UNCHANGED <<nbuf, frame_q, downq, inflight>>
        /\ \/ pc' # "next"
           \/ /\ ~OnlyInRing(buf_idx) /\ probes' = probes + 1 /\ UNCHANGED <<cur_buf, pc>>
    BY <1>2 DEF PollProbe, NextPacket, AfterPacket
  <2>2. CASE pc' = "next"
    <3>1. ~OnlyInRing(buf_idx) /\ probes' = probes + 1 /\ UNCHANGED <<cur_buf, pc>>
      BY <2>1, <2>2
    <3>2. PICK H \in SUBSET (0 .. nbuf - 1) : InUse \subseteq H /\ Cardinality(H) <= Reach
      BY <2>1 DEF RingInv
    <3>3. Probed' = Probed \cup {buf_idx}
      BY <2>1, <3>1, <1>t, OneMoreProbed
    <3>4. buf_idx \in BufsOf(HeldFrames) \cup {cur_buf}
      BY <3>1 DEF OnlyInRing
    <3>5. BufsOf(HeldFrames)' = BufsOf(HeldFrames)
      BY <2>1 DEF BufsOf, HeldFrames
    <3>6. InUse' = InUse
      BY <3>1, <3>3, <3>4, <3>5 DEF InUse
    <3> QED
      BY <2>1, <3>2, <3>6 DEF RingInv, RingBounded
  <2>3. CASE pc' # "next"
    BY <2>1, <2>3 DEF RingInv, RingBounded
  <2> QED
    BY <2>2, <2>3
<1>3. CASE PollGrow
  <2>1. /\ pc = "next" /\ probes = nbuf /\ nbuf' = nbuf + 1 /\ pc' # "next"
        /\ UNCHANGED <<downq, inflight>>
    BY <1>3 DEF PollGrow, NextPacket, AfterPacket
  <2>2. PICK H \in SUBSET (0 .. nbuf - 1) : InUse \subseteq H /\ Cardinality(H) <= Reach
    BY <2>1 DEF RingInv
  <2>3. Probed = 0 .. nbuf - 1
    BY <2>1, <1>t DEF Probed, Behind, RingType
  <2>4. H = 0 .. nbuf - 1
    BY <2>2, <2>3 DEF InUse
  <2>5. Cardinality(H) = nbuf
    BY <2>4, <1>t, FS_Interval
  <2>6. RingBounded'
    BY <2>1, <2>2, <2>5, <1>t, ParamsAssumption DEF RingBounded, Reach
  <2> QED
    BY <2>1, <2>6 DEF RingInv
<1>4. CASE Emit
  <2>1. /\ frame_q # <<>> /\ Len(downq) < DownCap
        /\ frame_q' = Tail(frame_q) /\ downq' = Append(downq, Head(frame_q))
        /\ UNCHANGED <<pc, nbuf, buf_idx, probes, cur_buf, inflight>>
    BY <1>4 DEF Emit, FrameReady
  <2>2. /\ Head(frame_q) \in Frame /\ Head(frame_q) \in FramesIn(frame_q)
        /\ FramesIn(Tail(frame_q)) \subseteq FramesIn(frame_q)
    BY <2>1, <1>t, FramesInTail
  <2>3. FramesIn(downq') = FramesIn(downq) \cup {Head(frame_q)} /\ Len(downq') = Len(downq) + 1
    BY <2>1, <2>2, <1>t, FramesInAppend, AppendProperties
  <2>4. BufsOf(HeldFrames') \subseteq BufsOf(HeldFrames)
    BY <2>1, <2>2, <2>3 DEF HeldFrames, BufsOf
  <2>5. Len(downq') <= DownCap
    BY <2>1, <2>3, <1>t, ParamsAssumption
  <2> QED
    BY <2>1, <2>4, <2>5, ScanKeeps DEF RingInv, RingBounded
<1>5. CASE Unpack
  <2>1. /\ downq # <<>> /\ Cardinality(reading) < MaxInflight /\ downq' = Tail(downq)
        /\ UNCHANGED <<pc, nbuf, buf_idx, probes, cur_buf, frame_q>>
        /\ \/ inflight' = (inflight \cap reading) \cup {Head(downq)}
           \/ UNCHANGED inflight
    BY <1>5 DEF Unpack, Parked
  <2>2. /\ Head(downq) \in FramesIn(downq) /\ FramesIn(Tail(downq)) \subseteq FramesIn(downq)
        /\ Len(downq') = Len(downq) - 1
    BY <2>1, <1>t, FramesInTail, HeadTailProperties
  <2>3. BufsOf(HeldFrames') \subseteq BufsOf(HeldFrames)
    BY <2>1, <2>2 DEF HeldFrames, BufsOf
  <2>4. IsFiniteSet(inflight') /\ Cardinality(inflight') <= MaxInflight
    <3>1. inflight \cap reading = reading /\ IsFiniteSet(reading)
      BY FS_Subset DEF RingInv, IInv, BufferInv
    <3>2. /\ IsFiniteSet(reading \cup {Head(downq)})
          /\ \/ Cardinality(reading \cup {Head(downq)}) = Cardinality(reading)
             \/ Cardinality(reading \cup {Head(downq)}) = Cardinality(reading) + 1
      BY <3>1, FS_AddElement
    <3>3. Cardinality(reading) \in Nat
      BY <3>1, FS_CardinalityType
    <3>4. Cardinality(reading \cup {Head(downq)}) <= MaxInflight
      BY <2>1, <3>2, <3>3, ParamsAssumption
    <3>5. inflight' = reading \cup {Head(downq)} \/ inflight' = inflight
      BY <2>1, <3>1
    <3> QED
      BY <3>2, <3>4, <3>5 DEF RingInv
  <2>5. Len(downq') <= DownCap
    BY <2>2, <1>t, ParamsAssumption DEF RingInv
  <2> QED
    BY <2>1, <2>3, <2>4, <2>5, ScanKeeps DEF RingInv, RingBounded
<1>6. CASE \/ PollReceive \/ PollExit \/ PollBadPacket \/ PollPacket
           \/ GpuDone \/ Stop \/ UNCHANGED vars
  <2>1. /\ UNCHANGED <<nbuf, buf_idx, probes, cur_buf, frame_q, downq, inflight>>
        /\ pc' = "next" => pc = "next"
    BY <1>6 DEF PollReceive, PollExit, PollBadPacket, PollPacket, AfterPacket, GpuDone, Stop, vars
  <2>2. HeldFrames' = HeldFrames
    BY <2>1 DEF HeldFrames
  <2> QED
    BY <2>1, <2>2, ScanKeeps DEF RingInv, RingBounded
<1> QED
  BY <1>1, <1>2, <1>3, <1>4, <1>5, <1>6 DEF Next, Poll

LEMMA InitRing == Init => RingInv
<1> SUFFICES ASSUME Init PROVE RingInv
  OBVIOUS
<1>1. Len(downq) = 0 /\ IsFiniteSet(inflight) /\ Cardinality(inflight) = 0
  BY EmptySeq, FS_EmptySet DEF Init
<1> QED
  BY <1>1, ParamsAssumption DEF Init, RingInv, RingBounded

\* The ring never has more buffers than the frames that the bounded queue, unpack's queue and
\* the unpack stream can refer to, plus the one assembled and the one refused: every scan of
\* next_buffer that finds no free buffer met only buffers in use when it began.
THEOREM RingStopsGrowing == Spec => []RingBounded
<1>1. Init => IInv /\ FramesAccounted /\ RingInv
  BY InitIInv, InitRing, EmptySeq, ParamsAssumption DEF Init, FramesAccounted
<1>2. IInv /\ FramesAccounted /\ RingInv /\ [Next]_vars
        => IInv' /\ FramesAccounted' /\ RingInv'
  BY NextIInv, NextAccounted, NextRing
<1>3. RingInv => RingBounded
  BY DEF RingInv
<1> QED
  BY <1>1, <1>2, <1>3, PTL DEF Spec

\* What the receive run checks of the queue, for every value of the constants: order, the
\* bound on what the governor sheds, and the bound on the ring.
THEOREM QueueStaysSound == InOrder => (Spec => []QueueSound)
<1>1. StampsIncrease /\ DrainBounded /\ RingBounded => QueueSound
  BY DEF QueueSound, Bounded
<1> QED
  <2> SUFFICES ASSUME InOrder PROVE Spec => []QueueSound
    OBVIOUS
  <2>1. Spec => []StampsIncrease
    BY StampsStayOrdered
  <2> QED
    BY <1>1, <2>1, DrainIsBounded, RingStopsGrowing, PTL
-----------------------------------------------------------------------------
(* The operator implements FrameStore *)

\* What the frames of a queue say of themselves: number and image, without the buffer.
Content(f) == [num |-> f.num, image |-> f.image]
Shelf(q) == [i \in DOMAIN q |-> Content(q[i])]
Contents == [num : Nat, image : Image]

\* The frame in the poll thread's hand is the one completed last.
HandInv == pc = "push" => fr.num = frames - 1

LEMMA ShelfType ==
  ASSUME NEW q \in Seq(Frame)
  PROVE  Shelf(q) \in Seq(Contents) /\ Len(Shelf(q)) = Len(q)
<1>1. /\ Len(q) \in Nat /\ DOMAIN q = 1 .. Len(q)
      /\ \A i \in 1 .. Len(q) : q[i] \in Frame
  BY LenProperties
<1>2. \A f \in Frame : Content(f) \in Contents
  BY DEF Frame, Content, Contents
<1>3. \A i \in 1 .. Len(q) : Shelf(q)[i] \in Contents
  BY <1>1, <1>2 DEF Shelf
<1> HIDE DEF Contents
<1>4. Shelf(q) \in Seq(Contents)
  BY <1>1, <1>3, IsASeq DEF Shelf
<1> QED
  BY <1>1, <1>4, LenProperties DEF Shelf

LEMMA ShelfAppend ==
  ASSUME NEW q \in Seq(Frame), NEW f \in Frame
  PROVE  Shelf(Append(q, f)) = Append(Shelf(q), Content(f))
<1> DEFINE a == Shelf(Append(q, f))  b == Append(Shelf(q), Content(f))
<1>1. /\ Append(q, f) \in Seq(Frame) /\ Len(Append(q, f)) = Len(q) + 1 /\ Len(q) \in Nat
      /\ \A i \in 1 .. Len(q) : Append(q, f)[i] = q[i]
      /\ Append(q, f)[Len(q) + 1] = f
      /\ DOMAIN q = 1 .. Len(q) /\ DOMAIN Append(q, f) = 1 .. Len(q) + 1
  BY AppendProperties, LenProperties
<1>2. Content(f) \in Contents
  BY DEF Frame, Content, Contents
<1>3. Shelf(q) \in Seq(Contents) /\ Len(Shelf(q)) = Len(q)
  BY ShelfType
<1>4. /\ b \in Seq(Contents) /\ Len(b) = Len(q) + 1
      /\ \A i \in 1 .. Len(q) : b[i] = Shelf(q)[i]
      /\ b[Len(q) + 1] = Content(f)
  BY <1>2, <1>3, AppendProperties
<1>5. /\ a \in Seq(Contents) /\ Len(a) = Len(q) + 1
      /\ \A i \in 1 .. Len(q) : a[i] = Content(q[i])
      /\ a[Len(q) + 1] = Content(f)
  <2>1. a \in Seq(Contents) /\ Len(a) = Len(q) + 1
    BY <1>1, ShelfType
  <2>2. \A i \in 1 .. Len(q) + 1 : a[i] = Content(Append(q, f)[i])
    BY <1>1 DEF Shelf
  <2>3. \A i \in 1 .. Len(q) : a[i] = Content(q[i])
    <3> SUFFICES ASSUME NEW i \in 1 .. Len(q) PROVE a[i] = Content(q[i])
      OBVIOUS
    <3>1. i \in 1 .. Len(q) + 1 /\ Append(q, f)[i] = q[i]
      BY <1>1
    <3> QED
      BY <2>2, <3>1
  <2>4. a[Len(q) + 1] = Content(f)
    <3>1. Len(q) + 1 \in 1 .. Len(q) + 1
      BY <1>1
    <3> QED
      BY <1>1, <2>2, <3>1
  <2> QED
    BY <2>1, <2>3, <2>4
<1>6. \A i \in 1 .. Len(q) : Shelf(q)[i] = Content(q[i])
  BY <1>1 DEF Shelf
<1> HIDE DEF a, b
<1>7. \A i \in 1 .. Len(a) : a[i] = b[i]
  BY <1>1, <1>4, <1>5, <1>6
<1>8. a = b
  BY <1>4, <1>5, <1>7, SeqEqual
<1> QED
  BY <1>8 DEF a, b

LEMMA ShelfTail ==
  ASSUME NEW q \in Seq(Frame), q # <<>>
  PROVE  /\ Shelf(q) # <<>> /\ Shelf(Tail(q)) = Tail(Shelf(q))
         /\ Head(Shelf(q)) = Content(Head(q))
<1> DEFINE a == Shelf(Tail(q))  b == Tail(Shelf(q))
<1>1. /\ Tail(q) \in Seq(Frame) /\ Len(Tail(q)) = Len(q) - 1 /\ Len(q) \in Nat \ {0}
      /\ \A i \in 1 .. Len(q) - 1 : Tail(q)[i] = q[i + 1]
      /\ DOMAIN q = 1 .. Len(q) /\ DOMAIN Tail(q) = 1 .. Len(q) - 1 /\ Head(q) = q[1]
  BY HeadTailProperties, LenProperties, EmptySeq
<1>2. Shelf(q) \in Seq(Contents) /\ Len(Shelf(q)) = Len(q)
  BY ShelfType
<1>3. Shelf(q) # <<>>
  BY <1>1, <1>2, EmptySeq
<1>4. /\ b \in Seq(Contents) /\ Len(b) = Len(q) - 1
      /\ \A i \in 1 .. Len(q) - 1 : b[i] = Shelf(q)[i + 1]
      /\ Head(Shelf(q)) = Shelf(q)[1]
  BY <1>2, <1>3, HeadTailProperties
<1>5. /\ a \in Seq(Contents) /\ Len(a) = Len(q) - 1
      /\ \A i \in 1 .. Len(q) - 1 : a[i] = Content(q[i + 1])
  BY <1>1, ShelfType DEF Shelf
<1>6. \A i \in 1 .. Len(q) : Shelf(q)[i] = Content(q[i])
  BY <1>1 DEF Shelf
<1> HIDE DEF a, b
<1>7. \A i \in 1 .. Len(a) : a[i] = b[i]
  BY <1>1, <1>4, <1>5, <1>6
<1>8. a = b
  BY <1>4, <1>5, <1>7, SeqEqual
<1>9. Head(Shelf(q)) = Content(Head(q))
  BY <1>1, <1>4, <1>6
<1> QED
  BY <1>3, <1>8, <1>9 DEF a, b

\* The abstract store: because queued frames are intact, the buffers of the queue hold exactly
\* what the frames say.
Held == [i \in DOMAIN frame_q |-> [num |-> frame_q[i].num, image |-> mem[frame_q[i].buf]]]

LEMMA HeldIsShelf == FramesIntact => Held = Shelf(frame_q)
<1> SUFFICES ASSUME FramesIntact PROVE Held = Shelf(frame_q)
  OBVIOUS
<1>1. \A i \in DOMAIN frame_q : mem[frame_q[i].buf] = frame_q[i].image
  BY DEF FramesIntact, HeldFrames, FramesIn
<1> QED
  BY <1>1 DEF Held, Shelf, Content

LEMMA HeldIsShelfAfter == FramesIntact' => Held' = Shelf(frame_q')
<1> SUFFICES ASSUME FramesIntact' PROVE Held' = Shelf(frame_q')
  OBVIOUS
<1>1. \A i \in DOMAIN frame_q' : mem'[frame_q'[i].buf] = frame_q'[i].image
  BY DEF FramesIntact, HeldFrames, FramesIn
<1> QED
  BY <1>1 DEF Held, Shelf, Content

LEMMA NextHand ==
  ASSUME IInv, HandInv, [Next]_vars
  PROVE  HandInv'
<1> USE DEF netVars, ringVars, curVars, queueVars, downVars, outVars
<1>1. CASE PollPacket
  <2>1. frames \in Nat
    BY DEF IInv, TypeOK, QueueType
  <2>2. \/ fr'.num = frames /\ frames' = frames + 1
        \/ pc' # "push"
    BY <1>1 DEF PollPacket, AfterPacket
  <2> QED
    BY <2>1, <2>2 DEF HandInv
<1>2. CASE PollPush \/ PollProbe \/ PollGrow
  BY <1>2 DEF PollPush, PollProbe, PollGrow, NextPacket, AfterPacket, HandInv
<1>3. CASE \/ PollReceive \/ PollExit \/ PollBadPacket
           \/ Emit \/ Unpack \/ GpuDone \/ Stop \/ UNCHANGED vars
  <2>1. UNCHANGED <<frames, fr>> /\ (pc' = "push" => pc = "push")
    BY <1>3 DEF PollReceive, PollExit, PollBadPacket, AfterPacket, Emit, Unpack, GpuDone, Stop,
                vars
  <2> QED
    BY <2>1 DEF HandInv
<1> QED
  BY <1>1, <1>2, <1>3 DEF Next, Poll

LEMMA StoreInit == Init => Store!Init
BY EmptySeq DEF Init, Store!Init, Completed

\* Each step completes a frame, delivers one or leaves the store as it is.
LEMMA StoreNext ==
  ASSUME IInv, IInv', FramesAccounted, HandInv, [Next]_vars
  PROVE  [Store!Next]_<<Completed, Held, out>>
<1> USE DEF netVars, ringVars, curVars, queueVars, downVars, outVars
<1>h. Held = Shelf(frame_q) /\ Held' = Shelf(frame_q')
  BY HeldIsShelf, HeldIsShelfAfter DEF IInv, BufferInv
<1>t. /\ frame_q \in Seq(Frame) /\ Len(frame_q) \in Nat /\ frames \in Nat
      /\ Len(frame_q) <= QDepth /\ QDepth \in Nat
      /\ Len(Shelf(frame_q)) = Len(frame_q)
  BY LenProperties, ShelfType, ParamsAssumption DEF IInv, TypeOK, QueueType, FramesAccounted
<1>1. CASE PollPush
  <2>1. pc = "push" /\ pc' = "next" /\ frames' = frames /\ out' = out
    BY <1>1 DEF PollPush
  <2>2. fr \in Frame /\ fr.num = frames - 1
    BY <2>1 DEF IInv, BufferInv, HandInv
  <2>3. Completed = fr.num /\ Completed' = Completed + 1 /\ fr.num \in Nat
    BY <1>t, <2>1, <2>2 DEF Completed, Frame
  <2>4. Content(fr) = [num |-> Completed, image |-> fr.image] /\ fr.image \in Image
    BY <2>2, <2>3 DEF Content, Frame
  <2>5. \/ Len(frame_q) < QDepth /\ Held' = Append(Held, Content(fr))
        \/ Len(frame_q) = QDepth /\ Held' = Held
        \/ Drain /\ Len(frame_q) >= 2 /\ Held' = Append(Tail(Held), Content(fr))
    <3>1. CASE ShedOldest
      <4>1. frame_q # <<>> /\ Drain /\ Len(frame_q) >= 2 /\ QueueAfterGovernor = Tail(frame_q)
        <5>1. frame_q # <<>> /\ Drain /\ WinMin >= 2 /\ QueueAfterGovernor = Tail(frame_q)
          BY <3>1 DEF ShedOldest, WindowFull, QueueAfterGovernor
        <5>2. q_win_min \in Nat
          BY ParamsAssumption DEF IInv, TypeOK, QueueType, Infinite
        <5> QED
          BY <5>1, <5>2, <1>t DEF WinMin
      <4>2. Tail(frame_q) \in Seq(Frame) /\ Len(Tail(frame_q)) = Len(frame_q) - 1
        BY <4>1, <1>t, HeadTailProperties
      <4>3. frame_q' = Append(Tail(frame_q), fr)
        BY <1>1, <1>t, <4>1, <4>2 DEF PollPush, HasRoom, Push
      <4>4. Shelf(frame_q') = Append(Tail(Shelf(frame_q)), Content(fr))
        BY <1>t, <2>2, <4>1, <4>2, <4>3, ShelfAppend, ShelfTail
      <4> QED
        BY <1>h, <4>1, <4>4
    <3>2. CASE ~ShedOldest /\ Len(frame_q) < QDepth
      <4>1. frame_q' = Append(frame_q, fr)
        BY <1>1, <3>2 DEF PollPush, HasRoom, Push, QueueAfterGovernor
      <4> QED
        BY <1>t, <1>h, <2>2, <3>2, <4>1, ShelfAppend
    <3>3. CASE ~ShedOldest /\ ~(Len(frame_q) < QDepth)
      <4>1. frame_q' = frame_q /\ Len(frame_q) = QDepth
        BY <1>1, <1>t, <3>3 DEF PollPush, HasRoom, QueueAfterGovernor
      <4> QED
        BY <1>h, <4>1
    <3> QED
      BY <3>1, <3>2, <3>3
  <2>6. Store!Complete
    <3>1. Len(Held) = Len(frame_q)
      BY <1>h, <1>t
    <3> QED
      BY <2>1, <2>3, <2>4, <2>5, <3>1 DEF Store!Complete, Held
  <2> QED
    BY <2>6 DEF Store!Next
<1>2. CASE Emit
  <2>1. /\ frame_q # <<>> /\ frame_q' = Tail(frame_q)
        /\ out' = [num |-> Head(frame_q).num, image |-> mem[Head(frame_q).buf]]
        /\ UNCHANGED <<pc, frames>>
    BY <1>2 DEF Emit, FrameReady
  <2>2. mem[Head(frame_q).buf] = Head(frame_q).image
    BY <1>t, <2>1, FramesInTail DEF IInv, BufferInv, FramesIntact, HeldFrames
  <2>3. Held # <<>> /\ Held' = Tail(Held) /\ out' = Head(Held)
    BY <1>t, <1>h, <2>1, <2>2, ShelfTail DEF Content
  <2>4. Completed' = Completed
    BY <2>1 DEF Completed
  <2> QED
    BY <2>3, <2>4 DEF Store!Next, Store!Deliver, Held
<1>3. CASE \/ PollReceive \/ PollExit \/ PollBadPacket \/ PollPacket \/ PollProbe \/ PollGrow
           \/ Unpack \/ GpuDone \/ Stop \/ UNCHANGED vars
  <2>1. /\ frame_q' = frame_q /\ out' = out
        /\ \/ frames' = frames /\ (pc' = "push" <=> pc = "push")
           \/ frames' = frames + 1 /\ pc' = "push" /\ pc = "pkt"
    BY <1>3 DEF PollReceive, PollExit, PollBadPacket, PollPacket, PollProbe, PollGrow, NextPacket,
                AfterPacket, Unpack, GpuDone, Stop, vars
  <2>2. Completed' = Completed
    BY <1>t, <2>1 DEF Completed
  <2> QED
    BY <1>h, <2>1, <2>2
<1> QED
  BY <1>1, <1>2, <1>3 DEF Next, Poll

\* What the operator hands its consumer is a bounded first-in first-out store of immutable
\* frames: completing a frame and popping one are the store's two steps, the rest of the three
\* threads' work is invisible to it.
THEOREM ReceiverImplementsStore == Spec => ImplementsStore
<1>1. Init => IInv /\ FramesAccounted /\ HandInv
  BY InitIInv, EmptySeq, ParamsAssumption DEF Init, FramesAccounted, HandInv
<1>2. IInv /\ FramesAccounted /\ HandInv /\ [Next]_vars
        => IInv' /\ FramesAccounted' /\ HandInv'
  BY NextIInv, NextAccounted, NextHand
<1>3. IInv /\ IInv' /\ FramesAccounted /\ HandInv /\ [Next]_vars
        => [Store!Next]_<<Completed, Held, out>>
  BY StoreNext
<1> QED
  BY <1>1, <1>2, <1>3, StoreInit, PTL
  DEF Spec, ImplementsStore, Store!Spec, Store!storeVars, Held

-----------------------------------------------------------------------------
(* Lifecycle: BackendsSafe, for every program and every bound of the counter *)

LifeSpec == LifeInit /\ [][LifeNext]_lifeVars

AllThreads == {"poll", "stats", "audio"}
Running    == {"ready", "busy"}

LifeTypeOK ==
  /\ app.shared \in BOOLEAN /\ app.emit \in BOOLEAN
  /\ port \in [Ops -> [state : {"down", "configured", "up", "closed"}, queues : 0 .. 2]]
  /\ backend \in [Ops -> [on : BOOLEAN, port : BOOLEAN, eal : BOOLEAN, audio : BOOLEAN]]
  /\ life \in [Ops -> {"composing", "new", "started", "failed", "stopping", "stopped", "gone"}]
  /\ thread \in [AllThreads -> {"none", "ready", "busy", "left"}]
  /\ flag \in [AllThreads -> BOOLEAN]
  /\ work \in [Ops -> BOOLEAN]

\* A program with an EAL of an operator's own has no other operator.
Alone ==
  /\ ~app.shared => app.rx = "none" \/ app.tx = "none"
  /\ app.rx = "none" => life["rx"] = "gone" /\ port["rx"].state = "down"
  /\ app.tx = "none" => life["tx"] = "gone" /\ port["tx"].state = "down"

\* What a backend holds for its port, and who may clean the EAL up.
Holdings ==
  \A o \in Ops : /\ port[o].state = "up" => Up /\ backend[o].port
                 /\ backend[o].eal => ~app.shared

\* A thread runs between start() and the join, compute() before stop(), and the
\* backend is there for both.
Spans ==
  /\ \A t \in AllThreads : thread[t] \in Running =>
       /\ life[Owner(t)] \in {"started", "stopping"}
       /\ backend[Owner(t)].on /\ port[Owner(t)].state = "up"
  /\ \A o \in Ops : /\ work[o] => life[o] = "started"
                    /\ life[o] = "started" => backend[o].on /\ port[o].state = "up"
  /\ thread["audio"] \in Running => backend["tx"].audio /\ port["tx"].queues = 2

LastLine == life["rx"] = "stopped" /\ HasLine("rx") => line = count

\* compose() makes all the operators before one starts.
Together ==
  \A o \in Ops : life[o] = "composing" => \A p \in Ops : life[p] \in {"composing", "gone"}

LifeInv == LifeTypeOK /\ Alone /\ Holdings /\ Spans /\ LastLine /\ Together

-----------------------------------------------------------------------------
(* The programs that own their EAL have one operator.                      *)
LEMMA ProgramsAlone ==
    ASSUME LifeInit
    PROVE  /\ app.shared \in BOOLEAN /\ app.emit \in BOOLEAN
           /\ ~app.shared => app.rx = "none" \/ app.tx = "none"
<1>1. app \in Programs
  BY DEF LifeInit
<1>2. CASE app \in Pipelines
  <2> DEFINE P(audio, fixed) == Program("video", "video", TRUE, TRUE, audio /\ fixed, fixed)
  <2>1. Pipelines = {P(audio, fixed) : audio, fixed \in BOOLEAN}
    BY DEF Pipelines
  <2>2. \A audio, fixed \in BOOLEAN :
          P(audio, fixed).shared = TRUE /\ P(audio, fixed).emit = TRUE
    BY Zenon DEF Program
  <2> HIDE DEF P
  <2>3. \E audio, fixed \in BOOLEAN : app = P(audio, fixed)
    BY <1>2, <2>1
  <2> QED
    BY <2>2, <2>3
<1>3. CASE app \in {Loopback, Passthrough, AudioPassthrough, TxSmoke, RxSmoke}
  <2>1. CASE app = Loopback
    BY <2>1 DEF Loopback, Program
  <2>2. CASE app = Passthrough
    BY <2>2 DEF Passthrough, Program
  <2>3. CASE app = AudioPassthrough
    BY <2>3 DEF AudioPassthrough, Program
  <2>4. CASE app = TxSmoke
    BY <2>4 DEF TxSmoke, Program
  <2>5. CASE app = RxSmoke
    BY <2>5 DEF RxSmoke, Program
  <2> QED
    BY <1>3, <2>1, <2>2, <2>3, <2>4, <2>5
<1>4. app \in Pipelines \/ app \in {Loopback, Passthrough, AudioPassthrough, TxSmoke, RxSmoke}
  BY <1>1 DEF Programs
<1> QED
  BY <1>2, <1>3, <1>4

(* The invariant holds before compose().                                   *)
LEMMA LifeStarts == LifeInit => LifeInv
<1> SUFFICES ASSUME LifeInit PROVE LifeInv
  OBVIOUS
<1> USE DEF LifeInit
<1>1. LifeTypeOK
  <2>1. app.shared \in BOOLEAN /\ app.emit \in BOOLEAN
    BY ProgramsAlone
  <2>2. 0 \in 0 .. 2
    OBVIOUS
  <2>3. port \in [Ops -> [state : {"down", "configured", "up", "closed"}, queues : 0 .. 2]]
    BY <2>2, Zenon
  <2>4. backend \in [Ops -> [on : BOOLEAN, port : BOOLEAN, eal : BOOLEAN, audio : BOOLEAN]]
    BY Zenon
  <2>5. life \in [Ops -> {"composing", "new", "started", "failed", "stopping", "stopped", "gone"}]
    OBVIOUS
  <2>6. /\ thread \in [AllThreads -> {"none", "ready", "busy", "left"}]
        /\ flag \in [AllThreads -> BOOLEAN] /\ work \in [Ops -> BOOLEAN]
    BY DEF AllThreads
  <2> QED
    BY <2>1, <2>3, <2>4, <2>5, <2>6 DEF LifeTypeOK
<1>2. Alone
  BY ProgramsAlone DEF Alone, Ops
<1>3. Holdings
  BY DEF Holdings, Ops
<1>4. Spans
  BY DEF Spans, Ops, AllThreads, Running, Owner
<1>5. LastLine /\ Together
  BY DEF LastLine, Together, Ops
<1> QED
  BY <1>1, <1>2, <1>3, <1>4, <1>5 DEF LifeInv

(* compose() leaves what runs alone: nothing does yet.                     *)
LEMMA ComposeKeeps == LifeInv /\ Compose => LifeInv'
<1> SUFFICES ASSUME LifeInv, Compose PROVE LifeInv'
  OBVIOUS
<1> USE DEF LifeInv, Compose
<1>0. \A o \in Ops : life[o] \in {"composing", "gone"}
  BY DEF Together
<1>1. LifeTypeOK'
  BY DEF LifeTypeOK, Ops
<1>2. Alone'
  BY DEF Alone, Ops
<1>3. Holdings'
  BY DEF Holdings, Up
<1>4. Spans'
  <2>1. \A t \in AllThreads : thread[t] \notin Running
    BY <1>0 DEF Spans, Owner, Ops, AllThreads
  <2>2. \A o \in Ops : ~work[o] /\ life'[o] # "started"
    BY <1>0 DEF Spans
  <2> QED
    BY <2>1, <2>2 DEF Spans, AllThreads
<1>5. LastLine' /\ Together'
  BY <1>0 DEF LastLine, Together, Ops
<1> QED
  BY <1>1, <1>2, <1>3, <1>4, <1>5

(* start() of an operator, wherever its init() throws.                     *)
LEMMA StartKeeps ==
    ASSUME LifeInv, NEW o \in Ops, NEW at \in Reached(o), Start(o, at)
    PROVE  LifeInv'
<1> USE DEF LifeInv
<1>1. PICK n \in Queues(o, at, app.audio) :
        /\ port' = [port EXCEPT ![o] = [state |-> PortAfter(at), queues |-> n]]
        /\ backend' = [backend EXCEPT ![o] =
                         [on |-> TRUE, port |-> at \in {"port", "configured", "up", "done"},
                          eal |-> OwnsEal(at), audio |-> n = 2]]
        /\ thread' = IF at # "done" THEN thread
                     ELSE [t \in DOMAIN thread |->
                             IF t \in Threads(o, n = 2) THEN "ready" ELSE thread[t]]
  BY DEF Start
<1>2. /\ life[o] = "new" /\ (at # "nothing" => IF app.shared THEN Up ELSE ~Up)
      /\ eal' = IF ~app.shared /\ at # "nothing" THEN o ELSE eal
      /\ life' = [life EXCEPT ![o] = IF at = "done" THEN "started" ELSE "failed"]
      /\ UNCHANGED <<app, flag, work, count, line>>
  BY DEF Start
<1>3. n \in 0 .. 2
  BY DEF Queues
<1>4. PortAfter(at) \in {"down", "configured", "up"} /\ OwnsEal(at) \in BOOLEAN
  BY DEF PortAfter, OwnsEal, LifeTypeOK
<1>5. app[o] # "none" /\ app.rx = app["rx"] /\ app.tx = app["tx"]
  BY <1>2 DEF Alone, Ops
<1>6. LifeTypeOK'
  BY <1>1, <1>2, <1>3, <1>4 DEF LifeTypeOK, AllThreads
<1>7. Alone'
  BY <1>1, <1>2, <1>5 DEF Alone, Ops, LifeTypeOK
<1>8. Holdings'
  <2>1. PortAfter(at) = "up" => at \in {"up", "done"}
    BY DEF PortAfter
  <2>2. Up => Up'
    BY <1>2 DEF Up, Ops
  <2>3. at # "nothing" => Up'
    BY <1>2 DEF Up, Ops
  <2> QED
    BY <1>1, <1>2, <1>4, <2>1, <2>2, <2>3 DEF Holdings, LifeTypeOK, OwnsEal
<1>9. Spans'
  <2>1. \A t \in AllThreads : Owner(t) = o => thread[t] \notin Running
    BY <1>2 DEF Spans
  <2>2. \A t \in Threads(o, n = 2) : Owner(t) = o
    BY DEF Threads, Owner, Ops
  <2>3. at = "done" => PortAfter(at) = "up"
    BY DEF PortAfter
  <2>4. ~work[o]
    BY <1>2 DEF Spans
  <2>5. "audio" \in Threads(o, n = 2) => o = "tx" /\ n = 2
    BY DEF Threads, Ops
  <2>6. \A t \in AllThreads : Owner(t) \in Ops
    BY DEF Owner, Ops
  <2>7. Owner("audio") = "tx" /\ "audio" \in AllThreads
    BY DEF Owner, AllThreads
  <2>8. \A t \in AllThreads : thread'[t] \in Running =>
          \/ thread[t] \in Running /\ Owner(t) # o
          \/ at = "done" /\ t \in Threads(o, n = 2)
    BY <1>1, <2>1 DEF LifeTypeOK
  <2>9. \A t \in AllThreads : thread'[t] \in Running =>
          /\ life'[Owner(t)] \in {"started", "stopping"}
          /\ backend'[Owner(t)].on /\ port'[Owner(t)].state = "up"
    BY <1>1, <1>2, <2>2, <2>3, <2>6, <2>8 DEF Spans, LifeTypeOK
  <2>10. \A p \in Ops : /\ work'[p] => life'[p] = "started"
                        /\ life'[p] = "started" => backend'[p].on /\ port'[p].state = "up"
    BY <1>1, <1>2, <2>3, <2>4 DEF Spans, LifeTypeOK
  <2>11. thread'["audio"] \in Running => backend'["tx"].audio /\ port'["tx"].queues = 2
    BY <1>1, <2>5, <2>7, <2>8 DEF Spans, LifeTypeOK, Ops
  <2> QED
    BY <2>9, <2>10, <2>11 DEF Spans
<1>10. LastLine' /\ Together'
  BY <1>2 DEF LastLine, Together, LifeTypeOK, HasLine, Ops
<1> QED
  BY <1>6, <1>7, <1>8, <1>9, <1>10

(* A turn of a thread: it stays in its states, and a busy one is of a      *)
(* living receiver when it counts.                                         *)
LEMMA TurnKeeps ==
    ASSUME LifeInv, NEW t \in AllThreads,
           UNCHANGED <<app, eal, port, backend, life, flag, work, line>>,
           thread[t] \in Running,
           NEW s \in {"ready", "busy", "left"}, thread' = [thread EXCEPT ![t] = s],
           count' # count => t = "poll"
    PROVE  LifeInv'
<1> USE DEF LifeInv
<1>1. LifeTypeOK' /\ Alone' /\ Together'
  BY DEF LifeTypeOK, Alone, Together
<1>2. Holdings'
  BY DEF Holdings, Up
<1>3. \A u \in AllThreads : thread'[u] \in Running => thread[u] \in Running
  BY DEF LifeTypeOK
<1>4. Spans'
  BY <1>3 DEF Spans, AllThreads
<1>5. LastLine'
  BY DEF LastLine, HasLine, Spans, Owner
<1> QED
  BY <1>1, <1>2, <1>4, <1>5

(* A turn of the poll thread, the statistics thread or the relay.          *)
LEMMA ThreadsKeep == LifeInv /\ (PollTurn \/ StatsTurn \/ AudioTurn) => LifeInv'
<1> SUFFICES ASSUME LifeInv, PollTurn \/ StatsTurn \/ AudioTurn PROVE LifeInv'
  OBVIOUS
<1>1. \E t \in AllThreads : \/ Begins(t) \/ Leaves_(t) \/ Ends(t, count)
                            \/ t = "poll" /\ \E n \in 0 .. 1 : Ends(t, count + n)
  BY DEF PollTurn, StatsTurn, AudioTurn, AllThreads
<1> PICK t \in AllThreads : \/ Begins(t) \/ Leaves_(t) \/ Ends(t, count)
                            \/ t = "poll" /\ \E n \in 0 .. 1 : Ends(t, count + n)
  BY <1>1
<1>2. CASE Begins(t)
  BY <1>2, TurnKeeps DEF Begins, Running
<1>3. CASE Leaves_(t)
  BY <1>3, TurnKeeps DEF Leaves_, Running
<1>4. CASE Ends(t, count)
  BY <1>4, TurnKeeps DEF Ends, Running
<1>5. CASE t = "poll" /\ \E n \in 0 .. 1 : Ends(t, count + n)
  BY <1>5, TurnKeeps DEF Ends, Running
<1> QED
  BY <1>1, <1>2, <1>3, <1>4, <1>5

(* compute() runs within the started state of its operator.                *)
LEMMA ComputeKeeps ==
    ASSUME LifeInv, NEW o \in Ops, ComputeBegins(o) \/ ComputeEnds(o)
    PROVE  LifeInv'
<1> USE DEF LifeInv
<1>1. /\ UNCHANGED <<app, eal, port, backend, life, thread, flag>>
      /\ life[o] = "started"
      /\ \E b \in BOOLEAN : work' = [work EXCEPT ![o] = b]
  BY DEF ComputeBegins, ComputeEnds, Spans
<1>2. LifeTypeOK' /\ Alone' /\ Together'
  BY <1>1 DEF LifeTypeOK, Alone, Together
<1>3. Holdings'
  BY <1>1 DEF Holdings, Up
<1>4. Spans'
  BY <1>1 DEF Spans, LifeTypeOK
<1>5. LastLine'
  BY <1>1 DEF LastLine, HasLine, ComputeBegins, ComputeEnds, Ops
<1> QED
  BY <1>2, <1>3, <1>4, <1>5

(* The flags of an operator are set when no compute() of it runs.          *)
LEMMA StopKeeps == ASSUME LifeInv, NEW o \in Ops, Stop_(o) PROVE LifeInv'
<1> USE DEF LifeInv, Stop_
<1>1. LifeTypeOK'
  BY DEF LifeTypeOK
<1>2. Alone'
  BY DEF Alone, LifeTypeOK
<1>3. Holdings'
  BY DEF Holdings, Up
<1>4. Spans'
  <2>1. \A t \in AllThreads : thread[t] \in Running => life'[Owner(t)] \in {"started", "stopping"}
    BY DEF Spans, LifeTypeOK, Owner, Ops
  <2>2. \A p \in Ops : life'[p] = "started" => life[p] = "started" /\ p # o
    BY DEF LifeTypeOK
  <2>3. \A p \in Ops : work[p] => life'[p] = "started"
    BY DEF LifeTypeOK, Spans
  <2> QED
    BY <2>1, <2>2, <2>3 DEF Spans
<1>5. LastLine' /\ Together'
  BY DEF LastLine, HasLine, Together, LifeTypeOK, Ops
<1> QED
  BY <1>1, <1>2, <1>3, <1>4, <1>5

(* A backend that goes after its threads takes nothing from another: only  *)
(* an operator that is alone cleans the EAL up.                            *)
LEMMA ShutdownKeeps ==
    ASSUME LifeInv, NEW o \in Ops, Shutdown(o),
           UNCHANGED <<app, thread, flag, work, count>>,
           NEW s \in {"stopped", "gone"}, life' = [life EXCEPT ![o] = s],
           ~work[o], \A t \in AllThreads : Owner(t) = o => thread[t] \notin Running,
           life[o] \notin {"composing", "gone"}, LastLine'
    PROVE  LifeInv'
<1> USE DEF LifeInv
<1>1. LifeTypeOK'
  BY DEF LifeTypeOK, Shutdown
<1>2. Alone'
  BY DEF Alone, LifeTypeOK, Shutdown, Holdings, Ops
<1>3. \A p \in Ops : p # o => port'[p] = port[p] /\ backend'[p] = backend[p] /\ life'[p] = life[p]
  BY DEF LifeTypeOK, Shutdown
<1>4. port'[o].state # "up" /\ ~backend'[o].eal
  BY DEF LifeTypeOK, Shutdown, Holdings
<1>5. Holdings'
  <2>1. ASSUME NEW p \in Ops, port'[p].state = "up" PROVE Up' /\ backend'[p].port
    <3>1. p # o /\ port[p].state = "up" /\ Up /\ backend'[p].port
      BY <1>3, <1>4, <2>1 DEF Holdings
    <3>2. backend[o].eal => FALSE
      BY <3>1 DEF Holdings, Alone, Ops
    <3> QED
      BY <3>1, <3>2 DEF Shutdown, Up
  <2> QED
    BY <1>3, <1>4, <2>1 DEF Holdings
<1>6. Spans'
  <2>1. \A t \in AllThreads : Owner(t) \in Ops
    BY DEF Owner, Ops
  <2>2. thread["audio"] \in Running => o # "tx" /\ "tx" \in Ops
    BY DEF Owner, AllThreads, Ops
  <2>3. life'[o] = s
    BY DEF LifeTypeOK
  <2> QED
    BY <1>3, <2>1, <2>2, <2>3 DEF Spans
<1>7. Together'
  BY DEF Together, LifeTypeOK
<1> QED
  BY <1>1, <1>2, <1>5, <1>6, <1>7

(* stop() shuts down after it has joined the threads, and takes the last   *)
(* counters for its line.                                                  *)
LEMMA StoppedKeeps == ASSUME LifeInv, NEW o \in Ops, Stopped(o) PROVE LifeInv'
<1>1. ~work[o] /\ life[o] = "stopping"
  BY DEF Stopped, LifeInv, Spans
<1>2. \A t \in AllThreads : Owner(t) = o => thread[t] \notin Running
  BY DEF Stopped, Joined, Own, Owner, AllThreads, Running, Ops
<1>3. LastLine'
  BY DEF Stopped, LastLine, HasLine, LifeInv, LifeTypeOK, Ops
<1> QED
  BY <1>1, <1>2, <1>3, ShutdownKeeps DEF Stopped

(* A destructor shuts down what no thread uses.                            *)
LEMMA DestroyKeeps == ASSUME LifeInv, NEW o \in Ops, Destroy(o) PROVE LifeInv'
<1>1. ~work[o] /\ life[o] \in {"new", "failed", "stopped"}
  BY DEF Destroy, LifeInv, Spans
<1>2. \A t \in AllThreads : Owner(t) = o => thread[t] \notin Running
  BY <1>1 DEF LifeInv, Spans
<1>3. LastLine'
  BY DEF Destroy, LastLine, HasLine, LifeInv, LifeTypeOK, Ops
<1> QED
  BY <1>1, <1>2, <1>3, ShutdownKeeps DEF Destroy

(* Every step keeps the invariant.                                         *)
LEMMA LifeKeeps == LifeInv /\ [LifeNext]_lifeVars => LifeInv'
<1> SUFFICES ASSUME LifeInv, [LifeNext]_lifeVars PROVE LifeInv'
  OBVIOUS
<1>1. CASE UNCHANGED lifeVars
  BY <1>1 DEF lifeVars, LifeInv, LifeTypeOK, Alone, Holdings, Up, Spans, LastLine, HasLine,
              Together
<1>2. CASE Compose
  BY <1>2, ComposeKeeps
<1>3. CASE Finish
  BY <1>3 DEF Finish, LifeInv, LifeTypeOK, Alone, Holdings, Up, Spans, LastLine, HasLine,
              Together
<1>4. CASE PollTurn \/ StatsTurn \/ AudioTurn
  BY <1>4, ThreadsKeep
<1>5. ASSUME NEW o \in Ops, NEW at \in Reached(o), Start(o, at) PROVE LifeInv'
  BY <1>5, StartKeeps
<1>6. ASSUME NEW o \in Ops, ComputeBegins(o) \/ ComputeEnds(o) PROVE LifeInv'
  BY <1>6, ComputeKeeps
<1>7. ASSUME NEW o \in Ops, Stop_(o) \/ Stopped(o) \/ Destroy(o) PROVE LifeInv'
  BY <1>7, StopKeeps, StoppedKeeps, DestroyKeeps
<1> QED
  BY <1>1, <1>2, <1>3, <1>4, <1>5, <1>6, <1>7 DEF LifeNext

(* The invariant says that backends are used safely.                       *)
LEMMA LifeSafe == LifeInv => BackendsSafe
<1> SUFFICES ASSUME LifeInv PROVE BackendsSafe
  OBVIOUS
<1> USE DEF LifeInv
<1>1. \A t \in AllThreads : thread[t] = "busy" =>
        backend[Owner(t)].on /\ port[Owner(t)].state = "up" /\ Up
  BY DEF Spans, Running, Holdings, Owner, Ops
<1>2. thread["audio"] = "busy" => backend["tx"].audio /\ port["tx"].queues = 2
  BY DEF Spans, Running
<1>3. ASSUME NEW o \in Ops
      PROVE  /\ OnNic(o) => backend[o].on /\ port[o].state = "up" /\ Up
             /\ port[o].state = "up" => Up
             /\ life[o] = "gone" => \A t \in Own(o) : thread[t] \in {"none", "left"}
  <2>1. OnNic(o) => backend[o].on /\ port[o].state = "up" /\ Up
    BY DEF OnNic, Spans, Holdings
  <2>2. \A t \in Own(o) : t \in AllThreads /\ Owner(t) = o
    BY DEF Own, Owner, AllThreads, Ops
  <2>3. life[o] = "gone" => \A t \in Own(o) : thread[t] \in {"none", "left"}
    BY <2>2 DEF Spans, Running, LifeTypeOK
  <2> QED
    BY <2>1, <2>3 DEF Holdings
<1>4. DOMAIN thread = AllThreads
  BY DEF LifeTypeOK
<1> QED
  BY <1>1, <1>2, <1>3, <1>4 DEF BackendsSafe, LastLine

(* Whatever fails to start and whenever a program ends, its threads and    *)
(* compute() only use backends that live, on ports and an EAL that are up, *)
(* nobody cleans the EAL up under a port, and the last live line has the   *)
(* final counters (start() and stop() of St2110RxOp and St2110TxOp).       *)
THEOREM BackendsStaySafe == LifeSpec => []BackendsSafe
<1>1. LifeSpec => []LifeInv
  BY LifeStarts, LifeKeeps, PTL DEF LifeSpec
<1> QED
  BY <1>1, LifeSafe, PTL
=============================================================================
