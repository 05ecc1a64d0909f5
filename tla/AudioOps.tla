------------------------------ MODULE AudioOps ------------------------------
(***************************************************************************)
(* The stand-alone audio chain of apps/audio_passthrough.cpp: AudioRxOp    *)
(* with its poll thread, AudioDelayOp with its AudioDelayLine, and         *)
(* AudioTxOp.  The three operators run on the scheduler's threads and pass *)
(* blocks through connections of one message; the poll thread goes on by   *)
(* itself.  A block is the number of its packet, which stands for its RTP  *)
(* timestamp, and a slot of the buffer ring, which holds the samples.      *)
(*                                                                         *)
(* An operator Bug... is a wrong variant of the operator after it.         *)
(***************************************************************************)
EXTENDS Integers, Sequences

CONSTANTS Slots,      \* buffers of the ring                 (64)
          MaxQ,       \* blocks in the queue                 (kMaxQ, 256)
          Delay,      \* blocks held: delay_ms / packet time
          BurstMax,   \* packets of one receive()            (256)
          PacketTime, \* packet_time_ns_
          PacingHorizon,    \* pacing_horizon_ns
          MaxPackets, MaxTime \* bounds: packets, time

ASSUME AudioOpsAssumption ==
  /\ {MaxQ, Delay, PacingHorizon, MaxPackets} \subseteq Nat
  /\ {Slots, BurstMax, PacketTime, MaxTime} \subseteq Nat \ {0}

VARIABLES burst,   \* packets of the last receive() not yet looked at
          block,   \* poll thread: the block it has filled and not yet queued
          made,    \* packets parsed
          ring,    \* what each slot holds: the number of a packet, 0 at first
          queue,   \* q_
          dropped, \* dropped_
          toDelay, toTx, \* the connections
          line,    \* AudioDelayLine::q_
          now,     \* the NIC clock
          base,    \* schedule_base_ns_
          sent,    \* packets_sent_ and the last packet: stamp, samples, send time
          stop_poll \* stop_poll_
opsVars == <<burst, block, made, ring, queue, dropped, toDelay, toTx, line, now, base, sent, stop_poll>>
txVars == <<base, sent>>
opVars == <<toDelay, toTx, line>>

None == <<>>

OpsInit ==
  /\ burst = 0 /\ block = None /\ made = 0 /\ ring = [i \in 0 .. Slots - 1 |-> 0]
  /\ queue = <<>> /\ dropped = 0 /\ toDelay = <<>> /\ toTx = <<>> /\ line = <<>>
  /\ now = 1 /\ base = 0
  /\ sent = [count |-> 0, stamp |-> 0, samples |-> 0, at |-> 0]
  /\ stop_poll = FALSE
-----------------------------------------------------------------------------
(* AudioRxOp: the poll thread *)

Poll ==
  /\ burst = 0 /\ block = None /\ ~stop_poll
  /\ burst' \in 1 .. BurstMax
  /\ UNCHANGED <<block, made, ring, queue, dropped, opVars, now, txVars, stop_poll>>

\* parse() refuses the packet.
Refuse ==
  /\ burst > 0 /\ block = None /\ burst' = burst - 1
  /\ UNCHANGED <<block, made, ring, queue, dropped, opVars, now, txVars, stop_poll>>

\* next_buffer(), whoever still has that buffer, and the copy into it.
Fill ==
  LET slot == made % Slots
  IN  /\ burst > 0 /\ block = None /\ made < MaxPackets
      /\ burst' = burst - 1 /\ made' = made + 1
      /\ ring' = [ring EXCEPT ![slot] = made + 1]
      /\ block' = <<[stamp |-> made + 1, slot |-> slot]>>
      /\ UNCHANGED <<queue, dropped, opVars, now, txVars, stop_poll>>

\* a bug: one block more.
BugHasRoom == Len(queue) <= MaxQ
HasRoom == Len(queue) < MaxQ

Queue ==
  /\ block # None /\ block' = None
  /\ IF HasRoom THEN queue' = queue \o block /\ UNCHANGED dropped
                      ELSE dropped' = dropped + 1 /\ UNCHANGED queue
  /\ UNCHANGED <<burst, made, ring, opVars, now, txVars, stop_poll>>

\* stop(): the poll thread leaves its loop after the burst.
Stop ==
  /\ ~stop_poll /\ stop_poll' = TRUE
  /\ UNCHANGED <<burst, block, made, ring, queue, dropped, opVars, now, txVars>>

-----------------------------------------------------------------------------
(* The operators.  The scheduler runs one when its input has a message and  *)
(* its output has room; none any more when the application stops.           *)

RxEmit ==
  /\ ~stop_poll /\ queue # <<>> /\ toDelay = <<>>
  /\ toDelay' = <<Head(queue)>> /\ queue' = Tail(queue)
  /\ UNCHANGED <<burst, block, made, ring, dropped, toTx, line, now, txVars, stop_poll>>

\* a bug: one block short.
BugPush(held, b) ==
  LET all == Append(held, b)
  IN  IF Len(all) < Delay THEN [held |-> all, out |-> <<>>]
                          ELSE [held |-> Tail(all), out |-> <<Head(all)>>]
\* AudioDelayLine::push: the line with the new block, and what it releases.
Push(held, b) ==
  LET all == Append(held, b)
  IN  IF Len(all) <= Delay THEN [held |-> all, out |-> <<>>]
                           ELSE [held |-> Tail(all), out |-> <<Head(all)>>]

DelayPass ==
  /\ ~stop_poll /\ toDelay # <<>> /\ toTx = <<>>
  /\ LET step == Push(line, Head(toDelay))
     IN  line' = step.held /\ toTx' = step.out
  /\ toDelay' = <<>>
  /\ UNCHANGED <<burst, block, made, ring, queue, dropped, now, txVars, stop_poll>>

\* On the grid of the packet time; one horizon ahead after falling behind.
SendAt == IF base = 0 \/ now > base THEN now + PacingHorizon ELSE base

Transmit ==
  /\ ~stop_poll /\ toTx # <<>> /\ toTx' = <<>>
  /\ base' = SendAt + PacketTime
  /\ sent' = [count |-> sent.count + 1, stamp |-> Head(toTx).stamp,
              samples |-> ring[Head(toTx).slot], at |-> SendAt]
  /\ UNCHANGED <<burst, block, made, ring, queue, dropped, toDelay, line, now, stop_poll>>

Tick ==
  /\ now < MaxTime /\ now' = now + 1
  /\ UNCHANGED <<burst, block, made, ring, queue, dropped, opVars, txVars, stop_poll>>

OpsNext ==
  \/ Poll \/ Refuse \/ Fill \/ Queue \/ Stop
  \/ RxEmit \/ DelayPass \/ Transmit \/ Tick

OpsSpec == OpsInit /\ [][OpsNext]_opsVars
-----------------------------------------------------------------------------
Blocks == [stamp : 1 .. MaxPackets, slot : 0 .. Slots - 1]

OpsTypeOK ==
  /\ burst \in 0 .. BurstMax /\ made \in 0 .. MaxPackets /\ dropped \in 0 .. MaxPackets
  /\ ring \in [0 .. Slots - 1 -> 0 .. MaxPackets]
  /\ {queue, line} \subseteq Seq(Blocks)
  /\ \A s \in {block, toDelay, toTx} : s \in Seq(Blocks) /\ Len(s) <= 1
  /\ now \in 1 .. MaxTime /\ base \in Nat
  /\ sent \in [count : Nat, stamp : Nat, samples : Nat, at : Nat]
  /\ stop_poll \in BOOLEAN

\* On their way, oldest first.
Underway == toTx \o line \o toDelay \o queue \o block

\* Between the parser and the wire no block is lost, doubled or overtaken: each is
\* sent, under way in the order received, or counted in dropped_; and from the
\* first block released on the delay is exactly Delay blocks (audio_rx.cpp 73-80,
\* AudioDelayLine::push).
DelayedInOrder ==
  /\ sent.count + Len(Underway) + dropped = made
  /\ \A i \in 1 .. Len(Underway) :
       Underway[i].stamp > (IF i = 1 THEN sent.stamp ELSE Underway[i - 1].stamp)
  /\ Len(line) <= Delay
  /\ sent.count + Len(toTx) > 0 => Len(line) = Delay

\* The ring knows nothing of the blocks that others hold.  One buffer for each
\* place a block can be in is enough until the queue overflows, whatever the three
\* operators and the poll thread do: a packet then leaves with the samples it came
\* with (next_buffer, audio_rx.cpp 47-55; "holds audio by a fixed lip-sync delay",
\* audio_delay.hpp 4).  The places are the poll thread, the queue, the two
\* connections and the line.
Places == MaxQ + Delay + 3
SamplesKept == Slots >= Places /\ dropped = 0 => sent.samples = sent.stamp

\* The blocks keep their order and their samples.
BlocksKept == DelayedInOrder /\ SamplesKept
=============================================================================
