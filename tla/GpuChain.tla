------------------------------ MODULE GpuChain ------------------------------
(***************************************************************************)
(* The GPU part of the pipeline: the operators between RX and TX, composed *)
(* from the filter list (st2110_pipeline.cpp), each on its own CUDA stream *)
(* with its own pool of frames handed out round-robin, and the bounded     *)
(* queues between them.  An operator's compute() only launches kernels; a  *)
(* kernel runs when the one before it on its stream has run and the frames *)
(* it reads are ready.  PackOp alone waits for its stream.                 *)
(*                                                                         *)
(* A buffer <<i, s>> is slot s in the pool of operator i.  Its content is  *)
(* the number of kernels that have written it.                             *)
(***************************************************************************)
EXTENDS UniformGrid, Sequences, FiniteSets

CONSTANTS Setups,     \* the environments: [mode, filters, identity, gaps, frames]
          Ring,       \* pool of unpack, resize and the filters   (kRing, kPool)
          FrcSpare,   \* pool of FRC beyond two bursts
          Hosts,      \* host buffers of PackOp at first
          Interval,   \* output interval of the uniform grid
          StallTicks, \* a bracket of more intervals is a stall
          MaxBack     \* capture times that step back

ASSUME ChainAssumption ==
  /\ Ring \in Nat \ {0} /\ FrcSpare \in Nat /\ Hosts \in Nat \ {0}
  /\ Interval \in Nat \ {0} /\ StallTicks \in Nat
  /\ MaxBack \in Nat
  /\ \A s \in Setups :
       s.filters \in Seq(STRING) /\ s.gaps \subseteq Int \ {0} /\ s.frames \in Nat

Filters == {"nr", "sharpen", "procamp", "grain"}
Real    == Filters \cup {"frc", "scale"}

\* Frames one compute() of FRC may emit.
EmitBurst(mode) == CASE mode = "uniform" -> 4 [] mode = "double" -> 2 [] OTHER -> 1

-----------------------------------------------------------------------------
(* Composition *)

\* The name of the i-th token: a repeated token gets a number.
NameOf(toks, i) == <<toks[i], Cardinality({j \in 1 .. i : toks[j] = toks[i]})>>

\* The names, in order, of the tokens at the given positions.
NamesAt(toks, at) ==
  [k \in 1 .. Cardinality(at) |->
     NameOf(toks, CHOOSE i \in at : Cardinality({j \in at : j <= i}) = k)]

\* The operator announced to receive FRC's burst.
BurstSink(ss) ==
  LET toks   == ss.filters
      real   == {i \in DOMAIN toks : toks[i] \in Real}
      frcs   == {i \in real : toks[i] = "frc"}
      behind == {i \in real : \E f \in frcs : f < i}
  IN  IF ss.mode = "off" \/ frcs = {} THEN <<>>
      ELSE IF behind = {} THEN <<"pack", 1>>
      ELSE NameOf(toks, CHOOSE i \in behind : \A j \in behind : i <= j)

\* The operators that are made: FRC only when its mode is on, a scaler at the
\* end when none is listed.
Composed(ss) ==
  LET toks  == ss.filters
      made  == {i \in DOMAIN toks : toks[i] \in Real /\ (toks[i] = "frc" => ss.mode # "off")}
      scale == IF \E i \in DOMAIN toks : toks[i] = "scale" THEN <<>> ELSE <<<<"scale", 1>>>>
  IN  <<<<"unpack", 1>>>> \o NamesAt(toks, made) \o scale \o <<<<"pack", 1>>>>

BugAllShallow(ss, name) == 1  \* a bug: the announcement is never read
\* Input capacity of an operator: only the announced one is burst-deep, and
\* FRC and unpack never ask.
QueueCap(ss, name) ==
  IF name = BurstSink(ss) /\ name[1] # "frc" THEN EmitBurst(ss.mode) ELSE 1

-----------------------------------------------------------------------------
VARIABLES setup,     \* the environment, fixed
          chain,     \* operator names, unpack first and pack last
          q,         \* q[i]: input queue of operator i
          slot,      \* slot[i]: next index of its pool
          launched,  \* kernels launched per buffer
          written,   \* kernels finished per buffer
          stream,    \* stream[i]: kernels launched by operator i, not yet run
          frc,       \* frc[i]: what FrcOp keeps
          packing,   \* the frame PackOp waits for, and its host buffer
          hosts,     \* size of PackOp's host pool
          txq,       \* input queue of TX
          tx,        \* the frame TX is sending
          made, backs, cap, high \* received frames, steps back, last and latest capture time
chainVars == <<setup, chain, q, slot, launched, written, stream, frc, packing, hosts,
          txq, tx, made, backs, cap, high>>

N == Len(chain)
Op(i) == chain[i][1]
NoFrame == [buf |-> <<0, 0>>, ver |-> 0, stamp |-> 0]
Idle == [src |-> NoFrame, host |-> NoFrame]
Room(i) == QueueCap(setup, chain[i]) - Len(q[i])
BugPool(i) == IF Op(i) = "frc" THEN EmitBurst(setup.mode) ELSE Ring - 1  \* a bug: too few
Pool(i) == IF Op(i) = "frc" THEN 2 * EmitBurst(setup.mode) + FrcSpare ELSE Ring
MaxHosts == Hosts + 3  \* in use at once: one queued, one sent, one packed
Buffers(ops) ==
  {<<i, s>> : i \in 1 .. Len(ops) - 1, s \in 0 .. Ring + 8 + FrcSpare}
    \cup {<<Len(ops), s>> : s \in 0 .. MaxHosts}
NoFrc == [prev |-> NoFrame, src |-> 0, next |-> 0, anchor |-> 0, ticks |-> 0, lost |-> 0]

ChainInit ==
  /\ setup \in Setups /\ chain = Composed(setup)
  /\ q = [i \in DOMAIN chain |-> <<>>] /\ slot = [i \in DOMAIN chain |-> 0]
  /\ launched = [b \in Buffers(chain) |-> 0] /\ written = launched
  /\ stream = [i \in DOMAIN chain |-> <<>>] /\ frc = [i \in DOMAIN chain |-> NoFrc]
  /\ packing = Idle /\ hosts = Hosts /\ txq = <<>> /\ tx = NoFrame
  /\ made = 0 /\ backs = 0 /\ cap = 0 /\ high = 0

-----------------------------------------------------------------------------
(* Launching and emitting *)

\* The k-th buffer operator i hands out next, whoever still uses it.
Slot(i, k) == <<i, (slot[i] + k - 1) % Pool(i)>>

GpuFrame(b, stamp) == [buf |-> b, ver |-> launched[b] + 1, stamp |-> stamp]

\* Operator i takes its first message, launches a kernel into each buffer of
\* dsts that reads the frames in reads, and emits out.
Compute(i, dsts, reads, out) ==
  /\ q' = [q EXCEPT ![i] = Tail(@), ![i + 1] = @ \o out]
  /\ slot' = [slot EXCEPT ![i] = (@ + Len(dsts)) % Pool(i)]
  /\ launched' = [b \in DOMAIN launched |->
                    launched[b] + Cardinality({k \in DOMAIN dsts : dsts[k] = b})]
  /\ stream' = [stream EXCEPT
       ![i] = @ \o [k \in DOMAIN dsts |-> [dst |-> dsts[k], reads |-> reads]]]
  /\ UNCHANGED <<setup, chain, written, packing, hosts, txq, tx, made, backs, cap, high>>

Ready(i, burst) == i < N /\ q[i] # <<>> /\ Room(i + 1) >= burst

\* unpack reads the received buffer, a filter and the scaler read the frame.
Filter(i) ==
  LET m == Head(q[i])
  IN  /\ Ready(i, 1) /\ Op(i) # "frc" /\ ~(Op(i) = "scale" /\ setup.identity)
      /\ Compute(i, <<Slot(i, 1)>>, IF i = 1 THEN {} ELSE {m}, <<GpuFrame(Slot(i, 1), m.stamp)>>)
      /\ UNCHANGED frc

\* A scaler with nothing to scale forwards the frame itself.
HandOn(i) ==
  /\ Ready(i, 1) /\ Op(i) = "scale" /\ setup.identity
  /\ Compute(i, <<>>, {}, <<Head(q[i])>>)
  /\ UNCHANGED frc

\* FRC runs only with room for its whole burst.  A frame it cannot bracket
\* passes through: the first one, and on the grid one whose capture time does
\* not advance.
FrcPass(i) ==
  LET m == Head(q[i])
  IN  /\ Ready(i, EmitBurst(setup.mode)) /\ Op(i) = "frc"
      /\ frc[i].prev = NoFrame \/ (setup.mode = "uniform" /\ m.stamp <= frc[i].src)
      /\ Compute(i, <<>>, {}, <<m>>)
      /\ frc' = [frc EXCEPT ![i] = [@ EXCEPT !.prev = m, !.src = m.stamp]]

\* The time between two frames; the later one's when they are not in order.
BugMidStamp(p, m) == m.stamp  \* a bug: the time of the pair's second frame
MidStamp(p, m) ==
  IF p.stamp # 0 /\ m.stamp > p.stamp THEN m.stamp - (m.stamp - p.stamp) \div 2 ELSE m.stamp

\* Retime and up-convert: the midpoint, and in up-convert the frame behind it.
FrcMid(i) ==
  LET m   == Head(q[i])
      p   == frc[i].prev
      mid == GpuFrame(Slot(i, 1), MidStamp(p, m))
  IN  /\ Ready(i, EmitBurst(setup.mode)) /\ Op(i) = "frc"
      /\ p # NoFrame /\ setup.mode # "uniform"
      /\ Compute(i, <<Slot(i, 1)>>, {p, m},
                 IF setup.mode = "double" THEN <<mid, m>> ELSE <<mid>>)
      /\ frc' = [frc EXCEPT ![i] = [@ EXCEPT !.prev = m, !.src = m.stamp]]

\* The grid: one frame per tick of the bracket, interpolated into the pool,
\* but for a last tick at the received frame, which is that frame re-stamped.
FrcUniform(i) ==
  LET m    == Head(q[i])
      st   == frc[i]
      grid == Ticks(Interval, StallTicks * Interval, EmitBurst(setup.mode),
                    st.next, st.src, m.stamp)
      n    == Len(grid.out)
      k    == IF n > 0 /\ IsReal(grid.out[n], st.src, m.stamp) THEN n - 1 ELSE n
  IN  /\ Ready(i, EmitBurst(setup.mode)) /\ Op(i) = "frc"
      /\ st.prev # NoFrame /\ setup.mode = "uniform" /\ m.stamp > st.src
      /\ Compute(i, [j \in 1 .. k |-> Slot(i, j)], {st.prev, m},
                 [j \in 1 .. n |-> IF j <= k THEN GpuFrame(Slot(i, j), grid.out[j])
                                   ELSE [m EXCEPT !.stamp = grid.out[n]]])
      /\ frc' = [frc EXCEPT ![i] =
           [prev |-> m, src |-> m.stamp, next |-> grid.next,
            anchor |-> IF st.next = 0 THEN m.stamp ELSE st.anchor,
            ticks |-> st.ticks + n, lost |-> st.lost + grid.lost]]

-----------------------------------------------------------------------------
(* The GPU, PackOp, RX and TX *)

\* The kernel at the head of a stream runs once the frames it reads are ready.
KernelRuns(i) ==
  /\ stream[i] # <<>>
  /\ \A r \in Head(stream[i]).reads : written[r.buf] >= r.ver
  /\ written' = [written EXCEPT ![Head(stream[i]).dst] = @ + 1]
  /\ stream' = [stream EXCEPT ![i] = Tail(@)]
  /\ UNCHANGED <<setup, chain, q, slot, launched, frc, packing, hosts, txq, tx,
                 made, backs, cap, high>>

\* A host buffer only the pool refers to.
HostFree(s) == \A m \in {txq[k] : k \in DOMAIN txq} \cup {tx} : m.buf # <<N, s>>

\* PackOp packs into the next free host buffer, or into a new one.
PackLaunch ==
  LET m    == Head(q[N])
      free == {k \in 0 .. hosts - 1 : HostFree((slot[N] + k) % hosts)}
      s    == IF free = {} THEN hosts
              ELSE (slot[N] + (CHOOSE k \in free : \A j \in free : k <= j)) % hosts
  IN  /\ q[N] # <<>> /\ packing = Idle /\ txq = <<>>
      /\ packing' = [src |-> m, host |-> GpuFrame(<<N, s>>, m.stamp)]
      /\ hosts' = IF free = {} THEN hosts + 1 ELSE hosts
      /\ slot' = [slot EXCEPT ![N] = IF free = {} THEN @ ELSE (s + 1) % hosts]
      /\ q' = [q EXCEPT ![N] = Tail(@)]
      /\ launched' = [launched EXCEPT ![<<N, s>>] = @ + 1]
      /\ stream' = [stream EXCEPT ![N] = Append(@, [dst |-> <<N, s>>, reads |-> {m}])]
      /\ UNCHANGED <<setup, chain, written, frc, txq, tx, made, backs, cap, high>>

\* The blocking synchronisation returns and the buffer goes to TX.
PackEmit ==
  /\ packing # Idle /\ stream[N] = <<>>
  /\ txq' = Append(txq, packing.host) /\ packing' = Idle
  /\ UNCHANGED <<setup, chain, q, slot, launched, written, stream, frc, hosts, tx,
                 made, backs, cap, high>>

\* RX emits the next frame of the source into unpack's queue.
Receive(gap) ==
  /\ made < setup.frames /\ q[1] = <<>> /\ cap + gap > 0
  /\ gap < 0 => backs < MaxBack
  /\ made' = made + 1 /\ backs' = IF gap < 0 THEN backs + 1 ELSE backs
  /\ cap' = cap + gap /\ high' = IF cap' > high THEN cap' ELSE high
  /\ q' = [q EXCEPT ![1] = <<[NoFrame EXCEPT !.stamp = cap + gap]>>]
  /\ UNCHANGED <<setup, chain, slot, launched, written, stream, frc, packing, hosts, txq, tx>>

\* TX sends one frame at a time and keeps its buffer while it does.
TxTake ==
  /\ tx.ver = 0 /\ txq # <<>>
  /\ tx' = Head(txq) /\ txq' = Tail(txq)
  /\ UNCHANGED <<setup, chain, q, slot, launched, written, stream, frc, packing, hosts,
                 made, backs, cap, high>>

TxSent ==
  /\ tx.ver > 0 /\ tx' = [NoFrame EXCEPT !.stamp = tx.stamp]
  /\ UNCHANGED <<setup, chain, q, slot, launched, written, stream, frc, packing, hosts, txq,
                 made, backs, cap, high>>

Operator(i) == Filter(i) \/ HandOn(i) \/ FrcPass(i) \/ FrcMid(i) \/ FrcUniform(i)

ChainNext ==
  \/ \E gap \in setup.gaps : Receive(gap)
  \/ \E i \in DOMAIN chain : Operator(i) \/ KernelRuns(i)
  \/ PackLaunch \/ PackEmit \/ TxTake \/ TxSent

\* While an operator's conditions hold, a kernel is launched, a frame is being
\* sent or the source has more, something goes on.  No more is needed: every
\* step brings some frame nearer to the wire.
ChainSpec == ChainInit /\ [][ChainNext]_chainVars /\ WF_chainVars(ChainNext)

-----------------------------------------------------------------------------
(* Properties *)

Messages == [buf : DOMAIN launched \cup {<<0, 0>>}, ver : Nat, stamp : Nat]

ChainTypeOK ==
  /\ setup \in Setups /\ chain = Composed(setup)
  /\ \A i \in DOMAIN chain :
       /\ slot[i] \in Nat /\ frc[i].prev \in Messages
       /\ Len(q[i]) <= QueueCap(setup, chain[i])
       /\ \A k \in DOMAIN q[i] : q[i][k] \in Messages
  /\ launched \in [Buffers(chain) -> Nat] /\ written \in [Buffers(chain) -> Nat]
  /\ packing \in [src : Messages, host : Messages]
  /\ Len(txq) <= 1 /\ \A k \in DOMAIN txq : txq[k] \in Messages
  /\ tx \in Messages /\ hosts \in Hosts .. MaxHosts
  /\ made \in 0 .. setup.frames /\ backs \in 0 .. MaxBack /\ {cap, high} \subseteq Nat

\* The frames in the pools somebody still needs: queued, remembered by FRC or
\* being packed.
Held ==
  (UNION {{q[i][k] : k \in DOMAIN q[i]} : i \in DOMAIN chain})
    \cup {frc[i].prev : i \in DOMAIN chain} \cup {packing.src}

PendingReads ==
  UNION {UNION {stream[i][k].reads : k \in DOMAIN stream[i]} : i \in DOMAIN chain}

\* Every pool is handed out blindly, yet no frame is overwritten while it is
\* held, nor while a launched kernel has still to read it (codec_ops.cpp:19,
\* resize.cpp:98, filters.cpp:13, frc.cpp:65).
FramesSafe ==
  /\ \A m \in Held : m.ver > 0 => launched[m.buf] = m.ver
  /\ \A r \in PendingReads : r.ver > 0 => written[r.buf] <= r.ver

\* A host buffer is neither packed into again nor handed out early: what TX has,
\* or is about to get, is still in its buffer and has been packed, although nobody
\* but PackOp waits for the GPU; and PackOp's growing pool "settles at the
\* working depth" (codec_ops.cpp:198): one buffer queued, one sent and one packed.
HostsSafe ==
  /\ packing.host.ver > 0 => launched[packing.host.buf] = packing.host.ver
  /\ \A m \in {tx} \cup {txq[k] : k \in DOMAIN txq} :
       m.ver > 0 => launched[m.buf] = m.ver /\ written[m.buf] = m.ver
  /\ hosts <= Hosts \/ hosts <= 3

\* No buffer, on the device or on the host, is reused too early.
BuffersSafe == FramesSafe /\ HostsSafe

\* What the pools must hold for that in the modes that emit a fixed number of frames
\* for one: the frames from an operator to the end of the chain, and behind a single
\* FRC, which may be one ahead, one more.
DeepPools ==
  /\ setup.mode # "uniform"
  /\ \A i, j \in DOMAIN chain : Op(i) = "frc" /\ Op(j) = "frc" => i = j
  /\ \A i \in 1 .. N - 1 :
       IF Op(i) = "frc" THEN N - i < Pool(i)
       ELSE N + (IF \E j \in DOMAIN chain : Op(j) = "frc" THEN 1 ELSE 0) <= Pool(i)

\* The grid never shifts: its next tick is a whole number of intervals from
\* the anchor, each of them sent or counted as lost, it is ahead of the frame
\* the grid has seen last and at most one interval ahead of the latest.
GridRigid ==
  \A i \in DOMAIN chain :
    LET st == frc[i]
    IN  st.next # 0 =>
          /\ st.next = st.anchor + Interval * (st.ticks + st.lost)
          /\ st.src < st.next /\ st.next <= high + Interval

\* Room for a midpoint: where the rate is doubled, once, no two captures are one unit apart.
Spaced ==
  \A s \in Setups : s.mode = "double" =>
    /\ 1 \notin s.gaps
    /\ \A i, j \in DOMAIN Composed(s) :
         Composed(s)[i][1] = "frc" /\ Composed(s)[j][1] = "frc" => i = j

\* While the capture times advance, the frames on the wire have strictly
\* increasing times: a midpoint never shares the time of its pair.
WireIncreases ==
  [][(tx.ver = 0 /\ tx'.ver > 0 /\ backs = 0) => tx'.stamp > tx.stamp]_chainVars

\* Every frame of the source passes: the bounded queues and FRC's demand for
\* room never leave the operators waiting on each other.
Flows ==
  <>[](/\ made = setup.frames /\ txq = <<>> /\ tx.ver = 0 /\ packing = Idle
       /\ \A i \in DOMAIN chain : q[i] = <<>> /\ stream[i] = <<>>)
=============================================================================
