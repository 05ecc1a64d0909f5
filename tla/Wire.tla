-------------------------------- MODULE Wire --------------------------------
(***************************************************************************)
(* From the samples PackOp packs to those UnpackOp unpacks: the pixel or   *)
(* IP10 codec, a frame of St2110TxOp on its way to St2110RxOp, the loop of *)
(* compute(), the DPDK transmit backend with its batch, the two queues of  *)
(* the NIC and the packet buffers they share, the audio relay's submit,    *)
(* and the receiver's parse, account and scatter.  When a packet is sent   *)
(* is TxSchedule's matter; here only that it is, once, and in order.       *)
(***************************************************************************)
EXTENDS Packetizer, PixelCodec, FiniteSets

CONSTANTS Picture(_, _), \* the samples of a pixel group of a frame
          Pools,     \* numbers of packet buffers           (kMbufCount, 65536)
          Batch,     \* packets handed to the NIC at once   (kBurst, 32)
          Txd,       \* descriptors of the video queue      (txd)
          AudioTxd,  \* descriptors of the audio queue      (512)
          Spins,     \* tries on a full video queue         (1000000)
          Tries,     \* tries on a full audio queue         (1000)
          MaxFrames, MaxAudio, MaxLost \* bounds: frames, audio packets, network losses

ASSUME WireAssumption ==
  /\ {Batch, Txd, AudioTxd, Spins, Tries, MaxFrames, MaxAudio, MaxLost} \subseteq Nat
  /\ Batch > 0 /\ Pools \subseteq Nat
  /\ \A ts \in 1 .. MaxFrames : \A f \in Formats : \A g \in Groups(f) :
       Picture(ts, g) \in [1 .. 4 -> Samples]

\* Both queues full, a batch, and one audio packet on its way.
Needed == Txd + Batch + AudioTxd + 1

VARIABLES fmt, pool, \* the format and the number of packet buffers, fixed
          txpc,     \* video thread: "idle", "send" or "drain"
          cursor, active, frame, seq, \* Packetizer: walk, frame time, next sequence number
          pending,  \* packets of the batch
          ring,     \* video queue of the NIC
          spin,     \* tries since the queue last took a packet
          free,     \* packet buffers in the pool
          died,     \* the pool was found empty
          apc, tries, aring, amade, \* audio thread, its tries, its queue and packets
          lost,     \* receiver: packets missing, as account() counts them
          last,     \* receiver: last sequence number, -1 at first
          seen,     \* the first and the last packet received, by number
          mem,      \* receiver: the buffer of the frame in progress
          got,      \* receiver: groups scattered since the last marker
          shown,    \* the last completed frame
          gone      \* packets dropped by the backend or the network, by number
txVars == <<txpc, cursor, active, frame, seq, pending, spin>>
audioVars == <<apc, tries, aring, amade>>
rxVars == <<lost, last, seen, mem, got, shown>>
setupVars == <<fmt, pool>>
vars == <<setupVars, txVars, ring, free, died, audioVars, rxVars, gone>>

\* IP10 codewords travel as groups of four octets.
Ip10(f) == f.pg = 4

\* The lines of each frame: the samples, and the octets PackOp makes of them.
Pictures == [f \in Formats |-> [ts \in 1 .. MaxFrames |-> [l \in 0 .. f.height - 1 |->
               [k \in 1 .. f.pgs |-> Picture(ts, l * f.pgs + k - 1)]]]]
Packed == [f \in Formats |-> [ts \in 1 .. MaxFrames |-> [l \in 0 .. f.height - 1 |->
             EncodeLine(Ip10(f), Pictures[f][ts][l])]]]
Sources == [f \in Formats |-> [ts \in 1 .. MaxFrames |->
              [g \in Groups(f) |-> Packed[f][ts][g \div f.pgs][(g % f.pgs) + 1]]]]
Source(ts) == Sources[fmt][ts]

\* The lines UnpackOp gets right from a received frame.
RightLines(ts, octets) ==
  LET right(l) ==
        LET sent == Pictures[fmt][ts][l]
            out  == DecodeLine(Ip10(fmt), [k \in 1 .. fmt.pgs |-> octets[l * fmt.pgs + k - 1]])
        IN  \A k \in 1 .. fmt.pgs : \A c \in 1 .. 4 :
              Distance(out[k][c], sent[k][c]) <= Tolerance(Ip10(fmt))
  IN  {l \in 0 .. fmt.height - 1 : right(l)}

Blank == [g \in Groups(fmt) |-> [o \in 1 .. fmt.pg |-> 0]]
NoFrame == [ts |-> 0, first |-> 0, number |-> -1, right |-> {}, groups |-> 0]

Init ==
  /\ fmt \in Formats /\ pool \in Pools
  /\ txpc = "idle" /\ cursor = [line |-> 0, octet |-> 0] /\ active = FALSE
  /\ frame = 0 /\ seq = 0 /\ pending = <<>> /\ ring = <<>> /\ spin = 0
  /\ free = pool /\ died = FALSE
  /\ apc = "idle" /\ tries = 0 /\ aring = 0 /\ amade = 0
  /\ lost = 0 /\ last = -1 /\ seen = <<-1, -1>> /\ mem = Blank /\ got = 0
  /\ shown = NoFrame /\ gone = {}

-----------------------------------------------------------------------------
(* The video thread *)

StartFrame ==
  /\ txpc = "idle" /\ frame < MaxFrames
  /\ frame' = frame + 1 /\ cursor' = [line |-> 0, octet |-> 0] /\ active' = TRUE
  /\ txpc' = "send"
  /\ UNCHANGED <<setupVars, seq, pending, spin, ring, free, died, audioVars, rxVars, gone>>

\* next(), reserve_packet(), write_payload() and submit(): the packet joins the
\* batch, which goes to the NIC when it is full or the frame ends.
SendPacket ==
  LET plan == Plans[fmt][cursor]
      p    == Written(fmt, seq, frame, plan, Source(frame))
  IN  /\ txpc = "send" /\ active /\ free > 0
      /\ free' = free - 1
      /\ pending' = Append(pending, [n |-> seq, pkt |-> p])
      /\ seq' = seq + 1 /\ cursor' = plan.at /\ active' = ~p.marker
      /\ txpc' = IF Len(pending) + 1 = Batch \/ p.marker THEN "drain" ELSE "send"
      /\ UNCHANGED <<setupVars, frame, spin, ring, died, audioVars, rxVars, gone>>

\* An empty pool ends the process.
PoolEmpty ==
  /\ free = 0 /\ (txpc = "send" \/ apc = "reserve")
  /\ died' = TRUE
  /\ UNCHANGED <<setupVars, txVars, ring, free, audioVars, rxVars, gone>>

AfterDrain(rest) == IF rest # <<>> THEN "drain" ELSE IF active THEN "send" ELSE "idle"

\* The queue takes the first packets of the batch.
DrainSome(n) ==
  /\ txpc = "drain" /\ n \in 1 .. Len(pending) /\ Len(ring) + n <= Txd
  /\ ring' = ring \o SubSeq(pending, 1, n)
  /\ pending' = SubSeq(pending, n + 1, Len(pending))
  /\ spin' = 0 /\ txpc' = AfterDrain(pending')
  /\ UNCHANGED <<setupVars, cursor, active, frame, seq, free, died, audioVars, rxVars, gone>>

\* The queue is full: try again, and past the limit give up the rest.  The
\* count stays where it is until the queue takes a packet.
BugPatient == TRUE  \* a bug: no limit
Patient == spin < Spins
DrainFull ==
  /\ txpc = "drain" /\ Len(ring) = Txd
  /\ spin' = IF spin < Spins THEN spin + 1 ELSE spin
  /\ IF Patient THEN UNCHANGED <<pending, free, gone, txpc>>
     ELSE /\ free' = free + Len(pending)
          /\ gone' = gone \cup {pending[k].n : k \in DOMAIN pending}
          /\ pending' = <<>> /\ txpc' = AfterDrain(<<>>)
  /\ UNCHANGED <<setupVars, cursor, active, frame, seq, ring, died, audioVars, rxVars>>

-----------------------------------------------------------------------------
(* The audio relay thread, on its own queue *)

AudioStart ==
  /\ apc = "idle" /\ amade < MaxAudio
  /\ apc' = "reserve" /\ amade' = amade + 1 /\ tries' = 0
  /\ UNCHANGED <<setupVars, txVars, ring, free, died, aring, rxVars, gone>>

AudioReserve ==
  /\ apc = "reserve" /\ free > 0
  /\ free' = free - 1 /\ apc' = "try"
  /\ UNCHANGED <<setupVars, txVars, ring, died, tries, aring, amade, rxVars, gone>>

\* A packet the full queue refuses for too long is freed.
BugGivenBack == 0  \* a bug: the packet is dropped but not freed
GivenBack == 1
AudioTry ==
  /\ apc = "try"
  /\ IF aring < AudioTxd THEN /\ aring' = aring + 1 /\ apc' = "idle"
                              /\ UNCHANGED <<tries, free>>
     ELSE IF tries + 1 < Tries THEN tries' = tries + 1 /\ UNCHANGED <<apc, aring, free>>
     ELSE /\ free' = free + GivenBack /\ apc' = "idle" /\ UNCHANGED <<tries, aring>>
  /\ UNCHANGED <<setupVars, txVars, ring, died, amade, rxVars, gone>>

-----------------------------------------------------------------------------
(* The NIC, the network and the receiver *)

\* account(): a forward jump of the sequence number is a loss.
BugAccount(s) ==  \* a bug: one off
  LET gap == (s - last) % (LoMod * HiMod)
  IN  /\ lost' = IF last # -1 /\ gap < (LoMod * HiMod) \div 2 THEN lost + gap ELSE lost
      /\ last' = s
Account(s) ==
  LET gap == (s - (last + 1)) % (LoMod * HiMod)
  IN  /\ lost' = IF last # -1 /\ gap < (LoMod * HiMod) \div 2 THEN lost + gap ELSE lost
      /\ last' = s

\* A packet that parses is accounted and scattered; the marker completes the frame.
Receive(e) ==
  LET info == Parsed(e.pkt)
      now  == Scattered(fmt, e.pkt, mem)
      sum  == got + Len(Targets(fmt, info.srds))
  IN  IF ~Accepted(fmt, e.pkt) THEN UNCHANGED rxVars
      ELSE /\ Account(info.seq) /\ seen' = <<IF seen[1] = -1 THEN e.n ELSE seen[1], e.n>>
           /\ mem' = now
           /\ got' = IF info.marker THEN 0 ELSE sum
           /\ shown' = IF ~info.marker THEN shown
                       ELSE [ts |-> info.ts, first |-> shown.number + 1, number |-> e.n,
                             right |-> RightLines(info.ts, now), groups |-> sum]

\* The NIC sends the oldest packet, frees its buffer, and it arrives.
NicSend ==
  /\ ring # <<>> /\ ring' = Tail(ring) /\ free' = free + 1
  /\ Receive(Head(ring))
  /\ UNCHANGED <<setupVars, txVars, died, audioVars, gone>>

NicLose ==
  /\ ring # <<>> /\ ring' = Tail(ring) /\ free' = free + 1
  /\ Cardinality(gone) < MaxLost /\ gone' = gone \cup {Head(ring).n}
  /\ UNCHANGED <<setupVars, txVars, died, audioVars, rxVars>>

NicAudio ==
  /\ aring > 0 /\ aring' = aring - 1 /\ free' = free + 1
  /\ UNCHANGED <<setupVars, txVars, ring, died, apc, tries, amade, rxVars, gone>>

Drain == DrainFull \/ \E n \in 1 .. Batch : DrainSome(n)
Video == StartFrame \/ SendPacket \/ Drain
Audio == AudioStart \/ AudioReserve \/ AudioTry
Next == ~died /\ (Video \/ Audio \/ PoolEmpty \/ NicSend \/ NicLose \/ NicAudio)

\* The thread that drains the batch runs; nothing is asked of the NIC.
Spec == Init /\ [][Next]_vars /\ WF_vars(~died /\ Drain)

-----------------------------------------------------------------------------
(* Properties *)

TypeOK ==
  /\ fmt \in Formats /\ pool \in Pools /\ txpc \in {"idle", "send", "drain"} /\ active \in BOOLEAN
  /\ frame \in 0 .. MaxFrames /\ seq \in Nat /\ spin \in 0 .. Spins
  /\ Len(pending) <= Batch /\ Len(ring) <= Txd
  /\ apc \in {"idle", "reserve", "try"} /\ tries \in 0 .. Tries /\ aring \in 0 .. AudioTxd
  /\ amade \in 0 .. MaxAudio /\ free \in Nat /\ died \in BOOLEAN
  /\ lost \in Nat /\ last \in -1 .. LoMod * HiMod - 1 /\ got \in Nat

\* The lines of the completed frame that packet n was to carry.
LinesLost(n) ==
  LET plans == FramePlans[fmt]
      plan  == plans[(n % Len(plans)) + 1]
  IN  IF (n \div Len(plans)) + 1 # shown.ts THEN {}
      ELSE {plan.srds[i].line : i \in DOMAIN plan.srds}

\* A packet buffer is in the pool, in the batch, in a queue or with the audio
\* thread: none leaks, whatever is dropped, so the pool never runs out although
\* both threads draw on it and the process would end (dpdk_tx_backend.cpp:54).
BuffersKept ==
  /\ free + Len(pending) + Len(ring) + aring + (IF apc = "try" THEN 1 ELSE 0) = pool
  /\ pool >= Needed => ~died

\* A dropped packet damages only the lines it carries pixels of: every other
\* line of a completed frame is decoded to the samples that were packed, exactly
\* or, with IP10, within three, although a line's codewords depend on each other
\* and its old octets stay where a packet is missing (ip10_codec.hpp:9).  Without
\* a drop since the last marker each pixel group came exactly once; and no packet
\* is larger than the budget (rtp_st2110.cpp:28).
FrameWhole ==
  /\ shown.number >= 0 =>
       /\ \A l \in 0 .. fmt.height - 1 : (\A n \in gone : l \notin LinesLost(n)) => l \in shown.right
       /\ gone \cap shown.first .. shown.number = {} => shown.groups = fmt.pgs * fmt.height
  /\ \A k \in DOMAIN pending : PayloadLen(fmt, pending[k].pkt) <= fmt.payload

\* The receiver counts as lost exactly what was dropped, by the backend or on
\* the way, between the first packet it saw and the last, while less than half
\* the sequence numbers go missing in a row (st2110_rx.cpp:120).
LossExact ==
  LET half == (LoMod * HiMod) \div 2
  IN  (\A n \in gone : \E k \in 1 .. half - 1 : n + k \notin gone) =>
        lost = Cardinality({n \in gone : seen[1] < n /\ n < seen[2]})

\* What arrives is right, and what does not is counted.
Delivered == FrameWhole /\ LossExact

\* compute() returns although the NIC may stop taking packets.
SendReturns == txpc = "drain" ~> (txpc # "drain" \/ died)
=============================================================================
