# A formal model of the Spark Video Processor

TLA+ specifications of the Spark Video Processor, their TLC configurations, and
TLAPS proofs about them. Paths are relative to the root of the repository
(`st2110_rx.cpp` stands for `engine/operators/st2110_rx/st2110_rx.cpp`, and so
on).

1. [The system](#1-the-system): components, state, operations, interactions
2. [Modules](#2-modules): how the models correspond to the code
3. [Runs](#3-runs): what TLC checks, bounds, fairness
4. [Proofs](#4-proofs): what TLAPS proves, and how
5. [Where code and comments disagree](#5-where-code-and-comments-disagree)
6. [Limits](#6-limits): what is only model-checked, what is not modelled
7. [Plan](#7-plan)

## 1. The system

The product receives uncompressed SMPTE ST 2110 video and audio from the network,
changes size and frame rate on the GPU, and sends the result, paced by the NIC. The
*engine* (`engine/`) is one process, a Holoscan graph of operators. A *control
daemon* (`control/daemon.cpp`) starts and stops it. Two clients drive the daemon and
do not know of each other: an *NMOS node* (`control/nmos/spark_node.cpp`) that turns
IS-05 connections into configurations, and the *dashboard* (`web/app.js`).

```
 NMOS controller --IS-05--> spark_node --HTTP--+
                                               v
 operator's browser ---------HTTP/gRPC--> spark_controld --fork/exec, SIGTERM--> engine
                                               ^---------- log file --------------+

 engine:  NIC -> st2110_rx -> unpack -> [noise, resize, FRC, filters] -> pack -> st2110_tx -> NIC
                     \---------------- AudioBridge (relay) -----------------------^
```

### Components

| component | state | operations | hard behaviour | correct means |
|---|---|---|---|---|
| **St2110RxOp** `st2110_rx.cpp` | frame ring with reference counts, frame being assembled, bounded queue, loss counter, governor window | poll thread: receive, account, scatter, complete, shed, push, next buffer; scheduler: emit; start, stop | two threads and the GPU share buffers; lost and reordered packets; backlog; shutdown | a completed frame never changes; every frame is delivered, queued, shed or dropped once; `stop()` returns |
| **UnpackOp / PackOp** `codec_ops.cpp` | references parked until a copy event has passed; rings of GPU and host buffers | compute, drain | kernels read host buffers after `compute()` returned; blind rings | no buffer is reused while somebody reads it |
| **packetizer, depacketizer** `rtp_st2110.cpp`, **codecs** `pixel_codec.cu`, `ip10_codec.*` | plan of a frame; tables of a lane | plan, next, write, parse; pack, encode, decode | packets that span lines; a codeword depends on the samples before it; lost packets leave old octets | each octet exactly once; damage stays in its line; losses are counted |
| **DPDK backends** `dpdk_tx_backend.cpp`, `dpdk_rx_backend.cpp`, `dpdk_eal.cpp` | batch, spin counter, buffer pool, header templates; steering, memberships; port, EAL | init, reserve, submit, drain, receive, shutdown | full descriptor rings; switches that forget; a port shared with the kernel; failing starts | a full ring is backpressure; nothing leaks; a joined stream keeps coming and only it; everything taken is given back |
| **St2110TxOp** `st2110_tx.cpp` | schedule base, media clock, genlock offset, skip window, trim, throttle; audio and statistics threads | decide to send, skip or re-anchor; pace; throttle | five mechanisms change one offset; stalls; jitter | every sent frame leaves inside its band, in order; the media clock stays on the wire schedule |
| **media time** `rtp_time.hpp`, **audio relay** `audio_ingest`, `audio_bridge.hpp`, `audio_loop` | latched deltas; queue of packets with due times | unwrap, latch, release; push, pop, sleep until due, send or drop | 32-bit wrap, wrong epochs, stalls; a queue at its limit | audio leaves at capture + shift, in order, in step with video |
| **stand-alone audio** `engine/operators/audio/` | ring of 64 blocks, queue of 256, delay line | poll, compute | a blind ring; a full queue | order, delay and samples kept |
| **resize and super-resolution** `resize.cpp`, `sr_net.cu`, `sr_model.cpp` | filter, launch plan, two work buffers | compute, build the engine | fusion depends on the shape of the net; the engine may not be built | a frame went through each convolution once |
| **FRC** `frc.cpp`, `frc_grid.hpp`, `nvof_flow.cpp`, `frc_kernels.cu` | output grid, held frame, flow fields, splat sums | ticks of a pair, flow, splat, warp | stalls, capture steps; occlusion; buffers used again | output times uniform; a made frame shows things where they are at its time |
| **filters** `filters.cpp`, `filter_kernels.cu` | pools of frames never cleared | compute | a plane neither computed nor copied | what leaves is made of what came in |
| **pipeline composition** `apps/st2110_pipeline.cpp` and the other programs | none after start | environment to parameters, wiring | queue room against bursts; delays against queues | no operator waits for ever; parameters fit together |
| **spark_controld** `daemon.cpp` | `State` under a mutex: lifecycle, pid, configuration, statistics | GetStatus, SetConfig, Start, Stop over gRPC and HTTP; proxy | concurrent clients; engine hangs, dies, fails to exec; `Stop` holds the mutex; restarts | at most one engine, with the configuration shown; final statistics; `Stop` returns |
| **EngineController** `spark_node.cpp` | wanted connections under a mutex, dirty flag, last applied body | activation, worker: read, stop, configure, start | three requests that are not atomic, each may fail | once quiet, the engine runs the route of the last activations |
| **NodeStateSync, transport files** `spark_node.cpp` | advertised formats, grandmaster, SDPs | poll of the daemon, activation, SDP rewriting | two threads write one file | advertised SDP = what the engine sends |
| **dashboard** `app.js`, **`/x-nmos` proxy** `daemon.cpp` | form, staged edits, filter rows; routing panel | save, start, poll; connect, refresh | answers out of order, other clients, cut replies | what is shown is what runs; receivers get whole SDPs |

Interaction: the receiver's poll thread and the scheduler share `frame_q_` under
`q_mu_`, and share buffers only through `shared_ptr::use_count()`; operators pass
messages through bounded queues, whose fullness stops the upstream operator from
ticking; capture times travel with the frame into the transmit schedule; audio and video
threads draw on one pool of packet buffers; the daemon and the engine share a process
table and a log file; the NMOS worker and the dashboard share the daemon's configuration,
which both replace as a whole; the node and the engine each derive the output format
from it.

`PROJECT.json` lists every component with its status, and under "hazards" each place
of the code where a test would hardly notice a mistake.

## 2. Modules

| module | models | kind |
|---|---|---|
| `VideoRx` | poll thread, scheduler, UnpackOp, GPU | specification |
| `FrameStore` | what the receiver promises: a bounded FIFO of immutable frames | abstract specification |
| `Lifecycle` | the programs: start with its failures, threads, `stop()`, backends, ports and EAL | specification |
| `GpuChain` | the operators from unpack to TX with streams, pools and queues, composed from a filter list | composition |
| `UniformGrid` | the output grid of FRC, used by `GpuChain` | operators |
| `Scaler` | ResizeOp and the super-resolution engine | specification |
| `Motion` | optical flow and the kernels that make a frame between two others | specification |
| `PictureFilters` | the four filters on samples | specification |
| `Pictures` | scaler, made frames or filters | composition |
| `Packetizer`, `PixelCodec` | framing of packets; pixel groups and IP10 | operators |
| `Wire` | from packed samples over both backends to unpacked ones, with `Packetizer`, `PixelCodec` | composition |
| `Ingress` | headers, switch, steering and classification of streams | specification |
| `TxSchedule` | `St2110TxOp::compute()` | specification |
| `AudioRelay` | both epoch guards, AudioBridge, audio relay thread | specification |
| `AudioOps` | the stand-alone audio operators | specification |
| `Audio` | the relay or the stand-alone operators | composition |
| `ControlDaemon` | `spark_controld` and its child process | specification |
| `EngineHost` | what the daemon promises: a host with one slot | abstract specification |
| `NmosControl` | EXTENDS `ControlDaemon`: NMOS worker, dashboard, restarts | composition |
| `NodeState` | advertised flow, clock and SDPs of the node | specification |
| `EnginePlan` | from source and configuration over environment and composition to packets, and what the node says of it | specification |
| `Dashboard`, `Routing` | the two panels of the page with daemon, proxy and registry | specifications |
| `ReceiveProof` | theorems about `VideoRx` and `Lifecycle` | proofs |
| `ControlProof` | theorems about `ControlDaemon` and `NmosControl` | proofs |
| `AudioProof` | theorems about `AudioRelay`, `AudioOps` and `Audio` | proofs |
| `VideoProof` | theorems about `Pictures` (scaler and filters) and `TxSchedule` | proofs |
| `GpuChainProof`, `WireProof`, `IngressProof` | theorems about the module of that name | proofs |
| `ConfigProof` | theorems about `NodeState`, `Dashboard`, `EnginePlan` and `Routing` | proofs |
| `MCNmosControl`, `MCTxSchedule`, `MCGpuChain`, `MCWire`, `MCIngress`, `MCAudio` | values of constants for TLC | model checking |
| `MCFrames` (`VideoRx`, `Pictures`), `MCReceive` (`VideoRx`, `Lifecycle`, `MCGpuChain`), `MCConfig` (`NodeState`, `EnginePlan`, `Dashboard`, `Routing`) | the same for modules without common state, checked in one run: a behaviour is one of one of them, the others stand still | model checking |

Definitions have the names of the source where they have one there. An operator
`BugX` before `X` is a plausible wrong version of `X`; it is used by nothing and is
put in the place of `X` to see that a property notices (`PROJECT.json`, "mutants").
`PROJECT.json`, "map", gives the lines each definition stands for.

### VideoRx

`pc` is the place of the poll thread in `poll_loop()`: `head` (stop test and
`receive()`), `pkt` (one packet of the burst), `push` (under `q_mu_`), `next` (one
probe of the ring scan in `next_buffer()`), `done`. Emission, unpacking, the end of a
kernel and `stop()` may happen between any two of these steps. In particular each
`use_count()` is one step, because references are dropped meanwhile by other threads;
the count is derived, as in the code, from who refers to the buffer: the queue, the
queue between the operators, `inflight` of UnpackOp, and the frame in hand.

A packet is its number in the sender's stream, so that the frame and the line it
belongs to, its marker and its sequence number (modulo `SeqMod`) follow from it. The
network may deliver any packet that has not been delivered (`InOrder = FALSE`), or lose
packets but keep the order (`InOrder = TRUE`). `mem[b][l]` is the frame whose line `l`
was last scattered into buffer `b`: enough to see a buffer change under a reader. A
frame carries, as history, the image it had at its marker; `FramesIntact` compares.

### Lifecycle

`app` is the program: which operators it makes, whether the receiver has a poll thread,
whether the EAL is shared. `Start(o, at)` is `start()` with an `init()` that throws at
step `at`, so that port, EAL and backend are left as the code leaves them. A thread is
`ready` between two turns of its loop, `busy` in one that uses the backend, `left` after
its stop flag was seen. `stop()` is two steps, setting the flags and what follows the
joins, and `Destroy` is the destructor, which shuts down what nobody stopped. The
framework decides when to begin with it; it is assumed not to run `compute()` and
`stop()` of one operator at once, and to stop what it started. The counter of frames is
read by the live line without a lock, at any time.

### GpuChain and UniformGrid

`Composed` makes the operators from a filter list as `compose()` does, with the announced
burst operator, the queue capacities and the appended scaler. An operator's `compute()`
only launches kernels; a kernel runs once its predecessor on the stream has run and its
inputs are written. Buffer `<<i, s>>` is slot `s` of operator `i`, its content the number
of kernels that have written it, so a message names a buffer and the version it needs:
an overwritten frame shows as a version too many. FRC holds its frame, makes midpoints,
or walks the grid of `UniformGrid`, whose counting loop is given in closed form.

### Wire, Packetizer, PixelCodec

A frame of samples is packed by `PixelCodec` (raw groups of five octets or IP10 lanes),
cut by the plan of `Packetizer`, which `FramePlans` holds for each format, and sent
packet by packet: a buffer from the pool, the batch, `drain_pending()` with its spin
counter, the NIC's queue, the network, `parse`, `account` and `scatter`. The audio thread
takes buffers from the same pool. Loss, a full queue that drops, and an empty pool happen
in the model. `FrameWhole` decodes the received octets again.

### Ingress

Addresses are numbers, groups those from `MulticastBase` on, and several groups share a
MAC. The transmit side writes headers from templates cached for one length and one
destination. A switch forwards a group to a port that has reported it, until it forgets;
the receiving NIC is isolated or not, and sorts by rules, by its MAC filter or not at
all; the receiver classifies by the fields the code compares. Reports are renewed from
`receive()` by a clock that may be stepped.

### TxSchedule

`compute()` has no clock of its own: it compares a NIC time, the capture time of the
frame, and the schedule left by earlier frames. The model keeps differences: `age` is
now - capture, `ahead` is `schedule_base_ns_` - now, both at the last frame, and `skew`
is `schedule_base_ns_` - `media_ts_ns_`. Frame k after the last one, with a pipeline delay
`a`, is looked at `k * Interval + NextAge - age` later, where `NextAge` accounts for
`compute()` still blocking in the throttle when it arrives. So there is no absolute time
to bound, and the state space is finite but for `ahead` of a stalled schedule and `skew`,
which saturate at `Far`.

The four schedules are the actions: `FixedFrame`; `GenlockSkip`, `GenlockReanchor` and
`GenlockSend`; `ServoFrame`; `GridFrame`. They call `Send` or `Unsent`, in which the
media clock, the throttle and the next base are updated as after the branches in the
code. `servo` holds the skip streak, the rotating skip window, frames since a skip,
re-arm delay and what was shaved. `Settle` starts a phase in which every frame comes
with the same delay: the premise of the liveness properties.

### AudioRelay and AudioOps

Both streams read the same clock, so both guards are in one module: `delta` is
`audio_ts_delta_` and `video_ts_delta_`, `DeltaAfter` the decision of `audio_ingest` and
`video_capture_ns` (keep, return to verbatim, latch anew), `Nearest` the signed
difference of `rtp_unwrap_ns` on `M` stamp values. The sender's mistake is `epoch`, what
it adds to every stamp, and it may change at any time. As in TxSchedule no absolute time
exists: stamps are relative to the arrival, and a packet in the bridge carries the time
left until it is due, which `Elapse` counts down. `off` is the error of a capture time,
history only. The relay thread is `pc` and `hand`: `head`, `pop` (waiting on the bridge),
`hold` (asleep until `kHorizonNs` before the packet is due), `done`. The host may keep it
from running for up to `MaxStall` in all.

In `AudioOps` a block is the number of its packet and the slot of the ring that holds its
samples; the poll thread goes on while the three operators pass blocks on, so a slot may
be written again while its block waits.

### Scaler, Motion, PictureFilters

In `Scaler` a plane is the sequence of operations that have made it, a net a list of
convolutions; the plan fuses them as `sr_net.cu` does, and every step reads and writes
the two work buffers in turn, which have the size computed while planning. In `Motion`
frames are one line with a moving object; vectors come from the external flow engine,
which finds the motion where there is one to find and reports anything elsewhere; each
kernel is one action, on buffers kept between phases and pairs. `PictureFilters` computes
the four filters on samples, from pools that are never cleared. The three have no common
state; a behaviour of `Pictures` is one of one of them.

### ControlDaemon and NmosControl

`d` is `g_state`; `procs` is the kernel's process table for the daemon's children, from
`fork()` (`forked`) over the opening of the log (`ready`) and `execl` (`running`) to the
exit (`zombie`) and `waitpid`. Handlers are one step each, because they hold
`g_state.mu`. `Stop` is the exception: it holds the mutex while it polls, so `held`
locks the other handlers out, and the engine's own steps go on. Every handler reaps
first (`Reaped`), as in the code. A child that fails to open the log keeps the old log.
The service restart kills the control group, the default of systemd.

`NmosControl` adds the worker of `EngineController`, one step per HTTP request, and
`dirty`, `last` (`last_applied_`) and `want`, which activations change at any moment. A
configuration is a record of the operator's choices, the video source, the input format
and the groups of the other legs. `Overlay` writes the route over what was read,
`Parsed` is the JSON parser of the daemon, which gives absent fields their defaults. The
dashboard polls, keeps what it saw (`seen`) and posts it back as a whole with new
choices. A failed request, a lost answer, a restart of either service and everything the
dashboard does count as an upset, bounded by `MaxUpsets`. `alone` is history: nobody but
the worker has changed what the daemon does.

### NodeState and EnginePlan

`NodeState` has the resources of the node (flow, clock, one transport file per sender
with its dirty mark), activations, which resolve a destination and write a raw file, and
the poll thread with its fetch and its application. What it reads is the daemon's
configuration as another client left it.

`EnginePlan` follows one configuration both ways: `Overlay` (a source's SDP becomes
configuration), the environment the daemon makes, the chain, rates and delays of
`compose()`, queue sizes, and the window and ring of the transmitter; and what the node
concludes from the same configuration, which `AdvertTrue` compares with what is on the wire.

### Dashboard and Routing

Requests travel: the answer of a poll shows the daemon as it was when it answered, however
late it arrives. `Dashboard` keeps rows, staged edits and the form, and the engine composes
from what a client has written. Two history variables say what the page does not know:
`unsaved` has the keys that were edited and are in no save the daemon has taken, `late`
those edited since the form was read for a save that is under way. `Routing` has the
operations of the routing panel beside the refresh, the registry that hears late, and the
daemon's proxy, which reads a reply in pieces and may stop early.

## 3. Runs

| run | question | distinct states |
|---|---|---|
| `frames` | with reordered and lost packets, do frames stay intact, ordered and accounted, and does the receiver implement `FrameStore`? Scaler and its engine, made frames, filters: is the picture the right one? | 2 135 841 |
| `engine` | receiver in order, with the governor: increasing stamps, bounded shedding and ring, `stop()` returns, frames leave; every filter list and FRC mode, jitter, stalls, capture times that step back: no frame overwritten, grid rigid, stamps increase, every frame gets through; every program: no thread on a backend that is down, everything comes down | 87 690 |
| `chain_burst` | (violated) do all frames get through when FRC is last in a list without a scaler? | |
| `wire` | packing, packets, batch, full queues, losses and audio: no buffer leaks, damage stays in its line, losses counted, the sender never hangs | 376 181 |
| `ingress` | forgetful switches, lost reports, a clock that steps, restarts: streams go on, every joined stream arrives, each packet at its handler | 603 555 |
| `tx_schedule` | all four schedules under any delays: band, order, bounded clipping, where the throttle may be lost; genlock keeps sending, the media clock catches up, re-anchoring ends | 89 892 |
| `default_latency` | (violated) does the throttle stay on with a right clock and the default latency? | |
| `audio` | relay: epochs that step, jitter, loss, a stalled host, stop at any time; operators: bursts, full queues, refused packets: stamps match, lip-sync, nothing lost, `stop()` returns | 820 032 |
| `control` | NMOS worker, dashboard, engine and restarts on the daemon: one engine, shown configuration, final statistics, last route applied, `EngineHost` implemented, termination | 327 086 |
| `config` | activations, polls, changes and a restart: clean SDPs are current and everything follows the daemon; sources, saves, starts: the engine does as asked, the SDP says what is sent; edits, saves, polls and other clients, connections, refreshes, replies in pieces: the panels tell the truth and get it done | 754 492 |
| `staged_mode` | (violated) is the rate of the SDP the rate that is sent, whatever is saved? | |
| `late_edit` | (violated) does an unsaved edit survive every answer? | |

### Properties and what they would catch

- `FramesIntact`, `ImplementsStore`: a reference dropped before the kernel has read
  the buffer; a ring that hands out a queued buffer; a scan that reads a count too early.
- `FramesAccounted`: a frame counted twice or lost between governor, full queue and push.
- `QueueSound` (stamps, shedding, ring): a frame without its marker that passes its stamp
  to the next one; a governor that sheds more than once per window; a ring that grows for
  ever. `Leaves`: a poll thread that waits for a consumer that no longer runs.
- `BackendsSafe`: a thread not joined before the port is closed; an EAL cleaned up by one
  that does not own it, or under a running port; a relay without its queue; a last live
  line that lacks the last frames. `ComesDown`: a thread whose flag nobody sets, a port
  kept after a start that failed.
- `BuffersSafe`: a pool that is shorter than the frames that queues and streams behind it
  can hold. `GridRigid`: a grid that shifts at a stall or starts again; `WireIncreases`:
  a made frame with the time of its pair. `ChainFlows` (`Flows`, of the behaviours of `engine`
  that are the chain's): operators waiting on each other for room.
- `PicturesRight` (scaler, made frames, filters): a convolution fused twice or left out, a
  work buffer that is too small, sums kept from the phase before, a blend that takes the
  covered side, a plane left from an older picture.
- `BuffersKept`: a packet buffer that is not given back on one of five ways out.
  `Delivered`: a segment cut short or twice, an encoder whose table the decoder does not
  see, a gap off by one. `SendReturns`: an unbounded spin.
- `StreamsKept`, `Reached`: a renewal that stops when the clock goes back; a join or rule
  forgotten for one stream, one way of steering or after a restart. `RightPlace`: a header
  template used for the other stream; a rule and a classification that differ.
- `SendBand`, `WireOrdered`, `WithinLimits`: an offset driven out of the band or frames
  overlapping on the wire after any sequence of skips, re-anchors, trims and back-offs; a
  throttle that switches itself off anywhere but where the latency of a first frame makes it
  (`ThrottleKept`; section 5). `MediaFollows`, `ComesToRest`: a media clock that
  never meets the wire again, genlock that skips for ever, trim and back-off that chase
  each other.
- `StampOnSchedule`: a relay that adds the correction in force when it sends, not the one
  the packet was scheduled with. `LipSync`: a guard that does not return to verbatim
  stamps. `AudioKept`: a wait or a limit too short for the backlog; a block overtaken or
  overwritten. `AudioStops`: a relay that drains its queue before it looks at its flag.
- `OneEngine`, `FinalStats`, `ImplementsHost`: a second engine, a forgotten child,
  `kill()` of a reaped pid, a configuration that changes under a running engine, counters
  lost at exit. `RouteApplied`: activations lost between the copy and the end of a
  reconcile. `Settles`: a mutex never given back, a worker that stops trying.
- `CleanMeansCurrent`, `SettlesOnDaemon`: an SDP written with values that have changed
  meanwhile and not marked; a mark cleared without a rewrite.
- `EngineAsAsked` (input, rates, delays, window, ring): a format taken from the sender
  before, a rate doubled twice, a delay that outgrows its queue, a frame that does not end
  before the next. `AdvertTrue`: a size, rate or codec worked out differently by the node.
  For a staged mode (`StagedMode`) it asks that the rate is exactly doubled, which is what the
  code does and what `RateMirrored` denies (section 5).
- `PanelRight`, `EditsHonoured`: a save that changes what nobody touched, an answer that
  overwrites an edit in the list, a list emptied by another answer than that of a save sent before
  the edit, START before SAVE has been answered. What the list loses is counted on (`unsaved`):
  it may be overwritten only by the first fill or while an engine runs and nothing is edited;
  that it is overwritten then is `late_edit`. `RepliesRight`: a part of a reply given to a
  receiver as all of it. `PageSettles`: a form or a panel that stays wrong.

### Bounds

- **VideoRx.** Two lines per frame give frames whose first and last packet differ; three
  frames out of order (`MaxPkt = 6`), four in order (`MaxPkt = 8`). Two or three ring
  buffers with a queue of two, a queue of one between the operators and one kernel on the
  stream let the ring be exhausted and grow several times, and the queue be full. A
  window of three pushes is completed before the last frame, `SeqMod = 4` wraps. A
  loss of half the sequence space or more is excluded when the order is kept: the code
  cannot tell it from a step back.
- **Lifecycle.** Every program, every step at which `init()` can fail; `MaxCount = 2`
  frames, so that a live line can be old.
- **GpuChain.** Pools of `Ring = 5` instead of 10: with 4 a frame is overwritten (a chain of
  one operator more than the pools hold breaks `BuffersSafe`), so the instance is at the
  limit, as `FrcSpare = 0` is for FRC; nine setups with up to six frames, stalls longer and
  shorter than `StallTicks`, one step back.
- **Scaler.** The three nets of the program, all nets of up to three convolutions of the
  sizes the kernels exist for, and blobs that must be refused; three frames, two queued.
  **Motion.** One line of 24 pixels, one object, shifts of -4, 0 and 4, wild vectors of
  -40 and 40, cells of one and two pixels, all three quarters. **PictureFilters.** Eleven
  settings alone and in pairs, three pictures of two sizes, pools of two.
- **Wire.** Three formats (packets over line ends, more short lines than segments, aligned
  IP10), three frames, queues of three and one with a batch of two, pools of seven (what
  both queues, batch and audio need) and of six (one too few), two drops, sequence numbers
  modulo 8 that wrap in both halves.
- **Ingress.** Groups that share a MAC, one that PTP uses, one or two ports, with and
  without source filters, unicast; a switch that forgets after 8 where a report is due
  every 1 and one in a row may be lost; clock steps of -2 and 1; one restart.
- **TxSchedule.** Units are scaled: `Interval = 6`, `Lead = 4`, `Trim = 1`; delays 2, 4 and
  15, the last of which is longer than the band and than two intervals; window, streak and
  clip limits of 3, 3 and 1 instead of 64, 32 and 32; re-arm delays of 2 and 4 frames
  instead of 512 and 8192. The latency of 15 is beyond horizon and cap, as the default is,
  so that the throttle is lost on a first frame. `default_latency` has the fixed schedule in
  milliseconds: intervals of 17, a latency of 105, a horizon of 8 and a cap of 50. Up to one
  source frame in a row may be missing (`MaxJump = 2`). `Far` is beyond every comparison of
  the code.
- **AudioRelay.** `M = 64` stamp values, so that stamps wrap and a wrong epoch can be
  ahead of the arrival, behind it, inside the tolerance or outside. Audio comes every 3
  ticks and is held for 5, so that two packets wait in the bridge of three.
  `MaxStall = LateDrop + Horizon` is the longest stall after which nothing is late; one
  tick more drops a packet. `RelayAssumption` leaves out wrong epochs that lie within the
  jitter of the edge of a guard. **AudioOps.** Eight blocks, seven slots (one for each
  place a block can be in), a queue of two, a delay of two.
- **NmosControl.** Two process ids (the daemon never has more than one child: the second
  shows that a second one would be seen), one poll before SIGKILL instead of thirty (a
  poll changes nothing but the count), one report in the log, two groups of which one has
  a format in its SDP, one upset per behaviour, the video receiver only (`Legs = {}`):
  each leg multiplies the configurations.
- **NodeState.** Two clocks, two groups, no source or one, two changes, one upset.
  **EnginePlan.** Four sources, seven settings, one of them with a staged mode, four
  machines; lines, descriptors and blanking are 1/45 of the real ones, rates and delays are
  real; three routes, saves or starts.
- **Dashboard.** Three stages of which the built-in catalog lacks one, four configurations
  written by others, one poll under way, three edits or presses, one upset. **Routing.**
  Four senders (one whose manifest is empty, one of unknown kind) with replies framed in
  all three ways, two operations, one refresh at a time, one trouble.

`CHECK_DEADLOCK FALSE` is set where the system may stop: after `stop()`, at the end of a
program, when the bounded input is over, or when the bounded changes are used up.

### Fairness

- *Receiver* (`WF Poll`): it spins on its own core; packets keep coming only while the
  bound allows, so nothing is assumed of the network. *Emit*, *Unpack*, *GpuDone* (`WF`):
  the scheduler ticks an operator whose condition holds, and kernels end. `stop()` is
  never forced.
- *Lifecycle*: a turn of a loop ends and the loop looks at its flag again (`TurnEnds`);
  `compute()` returns and the framework carries through a stop it has begun (`GoesOn`).
  Nothing makes a program end.
- *GpuChain* (`WF ChainNext`): while anything can go on, something does; no operator is preferred.
- *Wire* (`WF Drain`): the sending thread runs. The NIC may stop taking packets for ever.
- *Ingress*: time goes on and `receive()` keeps being called.
- *Stop's loop* (`WF StopContinues`) is a running thread; *SIGKILL* (`WF SignalEnds` with
  the kill signal) cannot be ignored. SIGTERM may be ignored for ever.
- *NMOS worker* (`SF WorkerStep`): its request needs `g_state.mu`, which is free again
  and again, not all the time; a mutex that is free infinitely often is granted at last.
  No fairness for the engine, the dashboard or restarts.
- *NodeState*: the resources are inserted, the poll thread fetches and applies. Nobody has
  to activate anything.
- *TxSchedule* (`WF` of a frame): the source keeps sending. Which frames arrive and with
  which delay is never constrained, except after `Settle`.
- *AudioRelay*: `WF Elapse` (the clock runs), `WF Arrives` (the senders send; every packet
  may be lost), `WF RelayStep` (the host schedules the thread).
- *Dashboard*, *Routing*: the catalog is loaded, polls and refreshes go on and are answered,
  operations end and the registry hears of them.

## 4. Proofs

TLAPS proves, for every value of the constants that meets the named assumption of the
module (`ParamsAssumption`, `DaemonAssumption`, `TxAssumption`, `RelayAssumption` and so
on; TLC evaluates each of them on the values of the runs):

| module | theorems | invariants of the runs |
|---|---|---|
| `ReceiveProof` | `TypeCorrect`, `FramesStayIntact`, `EveryFrameAccounted`, `DrainIsBounded`, `StampsStayOrdered`, `RingStopsGrowing`, `QueueStaysSound`, `ReceiverImplementsStore`, `BackendsStaySafe` | `FramesIntact`, `FramesAccounted`, `QueueSound`, `ImplementsStore`, `BackendsSafe` |
| `ControlProof` | `DaemonTypeCorrect`, `OneEngineAlways`, `EngineHasConfig`, `StatsAreFinal`, `DaemonImplementsHost`; of the composition `NodeUsesDaemon`, `OneEngineForBoth`, `StatsFinalForBoth`, `HostForBoth`, `NmosTypeCorrect`, `RouteAlwaysApplied` | `OneEngine`, `FinalStats`, `ImplementsHost`, `RouteApplied` |
| `VideoProof` | `SpecTypeOK`, `SpecSendBand`, `SpecWireOrdered`, `SpecClipBounded`, `SpecWithinLimits`, `PicturesAreRight` | `SendBand`, `WireOrdered`, `WithinLimits`, `PicturesRight` |
| `AudioProof` | `RelayTypeCorrect`, `StampsOnSchedule`, `LipSyncKept`, `OperatorsKeepBlocks`, `AudioIsKept` | `StampOnSchedule`, `LipSync`, `AudioKept` |
| `GpuChainProof` | `GridStaysRigid`, `TimesIncrease`, `HostsStaySafe`, `PoolsStaySafe` | `GridRigid`, `WireIncreases`, `BuffersSafe` |
| `WireProof` | `SpecBuffersKept`, `LossesCounted`, `SpecDelivered` | `BuffersKept`, `Delivered` |
| `IngressProof` | `MembershipsLast`, `PacketsInPlace` | `StreamsKept`, `RightPlace` |
| `ConfigProof` | `SpecTypeOK`, `CleanFilesCurrent`, `EditsAreHonoured`, `EngineDoesAsAsked`, `AdvertIsTrue`, `RepliesAreRight`, `PanelIsRight` | `CleanMeansCurrent`, `EditsHonoured`, `EngineAsAsked`, `AdvertTrue`, `RepliesRight`, `PanelRight` |

Some hold under a premise that the theorem states. Each premise is a named operator, and
the instances of the runs satisfy it:

- `InOrder` (`StampsStayOrdered`, `QueueStaysSound`): the network loses packets but does
  not reorder them. With reordering a packet of an old frame can open a new one.
- `CapFits` (`SpecWithinLimits`): the cap of the throttle, 50 ms, is longer than the part of an
  interval without packets, and in the schedules that are not fixed the lead is within what
  horizon and cap reach together. It asks nothing of the latency of the fixed schedule, whose
  default is beyond. `MCTxSchedule` assumes it, so TLC checks it.
- `HealthyNetwork` (`LipSyncKept`, `AudioIsKept`): lags within the tolerance of the guard
  (section 5); `MCAudio` assumes it.
- `RelayInTime` (`AudioIsKept`): a relay that was kept from running for `MaxStall` still has
  the packet that waited longest before its limit, and the bridge has room for what arrived
  meanwhile. In the code the limit is 50 ms (`kLateDrop`) behind a horizon of 4 ms, and the
  bridge holds 16384 packets, more than a second of them. `MCAudio` assumes it, with a stall
  that is just in time.
- `StreamsApart` (`PacketsInPlace`): the addresses tell the streams apart; `MCIngress`
  assumes it, so TLC checks it. Two streams sent to one address and port cannot be told
  apart by any receiver.
- `Spaced` (`TimesIncrease`): a chain that doubles the rate does so once, and no two
  captures are a single nanosecond apart, so that there is a time between them;
  `MCGpuChain` assumes it.
- `DeepPools` (`PoolsStaySafe`): the pools hold the frames of the chain, and FRC does not run
  on the uniform grid. With the pools of the code (`kRing` = `kPool` = 10, FRC `2 * burst + 6`)
  it holds for every list that names no operator twice, which makes at most eight
  operators; see section 5 for longer ones. It holds for the setups of `MCGpuChain` that are
  not on the grid.
- `BridgeReaches` (`EngineDoesAsAsked`): latency and offset of the environment leave the
  audio bridge the second a chain can ask for. `PacketsCounted` (also `AdvertIsTrue`):
  frames have packets, and those of IP10 take whole lines apart. `LinesHaveTime`: a line has
  a nanosecond at least. `RingsDeep`: the ring that was chosen holds what the pacing
  leaves in it, at every rate a chain can have. `HeadersFit` (`AdvertIsTrue`): IP10 packets
  are 1200 octets or more on average. These are conditions on the lists of
  sources, settings and machines, not on what is done with them; `MCConfig` assumes them,
  section 5 names a width and a raster beyond them.
- `NoEndInside` (`RepliesAreRight`): no SDP served in chunks has a line `0`. The lines of an
  SDP are a letter, an equals sign and a value; `MCConfig` assumes it. See section 5 for a
  body that has one.
- `part # "motion"` (`PicturesAreRight`): nothing is said of a running frame-rate conversion.
  What `MidRight` asks of a made frame depends on how far the object moves next to the size
  of its cells and its own, so it is a question about one instance.
- `ListsMeanFrc` (`PanelIsRight`): of the lists others write, one the panel cannot express (a
  token twice or an unknown one) names `frc` only together with a mode. Such a list rides
  through a save as it is, while the mode of the form, which is never 0, is posted with
  it. `MCConfig` assumes it, with a list of this kind that does name `frc`. See section 5 for
  one without a mode.

`PacketAssumption` asks of a format only that its budget has room for the headers of a
packet and of one segment and for one group (`IsFormat`): with less, `plan_one()` makes
no packet.

**VideoRx.** `FramesIntact` says nothing about the buffer being written, so it is not
inductive. `BufferInv` adds that this buffer is referenced by no frame (which is what the
`use_count()` test establishes, and what nobody can undo, since only the poll thread
creates references), that the frame in the poll thread's hand is that buffer's content,
and that kernels read only what UnpackOp still refers to. Then a scatter writes a buffer
of no frame, and everything else only moves references. `DrainBounded` needs the pushes
of the current window (`DrainInv`): each shed frame was paid for by a whole window.

Three more invariants rest on that one. `OrderInv` puts every frame that waits before a
`Limit` (the frame in the poll thread's hand, else the one being assembled, else the one
the next packet belongs to), so that a push keeps the queue increasing; `Newest` carries
what "in order" means over the gaps that losses leave. `RingInv` counts: a scan that finds
every buffer in use has found each of them referenced at some moment since it began, and
although references are dropped meanwhile nobody adds one, so all probed buffers lie in
one set of at most `Reach` (queue, downstream queue, kernels under way, the buffer in
hand). For `ImplementsStore`, a frame of the store is a queued frame without its buffer
(`Shelf`), and `HandInv` says that the frame in hand is the one completed last: `PollPush`
then is the store's accept, shed or refuse, `Emit` its removal, and all other steps leave
the shelf alone, scatters by `FramesIntact`.

**Lifecycle.** `BackendsSafe` says what a thread may use, but not why it is there. `Spans`
ties threads and `compute()` to the life of their operator, from the end of `start()` to
the joins of `stop()`, and an operator that has started to its backend and its port.
`Holdings` and `Alone` are about the other operator: only a backend with an EAL of its own
cleans the EAL up, such a program has one operator, and so no other port is up
(`ShutdownKeeps`, used for `stop()` and for the destructor). `LifeSpec` has no fairness.

**ControlDaemon.** `Agree` relates `g_state` to the process table: the only used entry is
`State::pid`, its configuration is the one shown, the log is final once nothing runs.
`LockOK` says what a `Stop` between two steps may rely on: the state is RUNNING, and the
child it signalled is still there. Every handler first reaps; the lemma `ReapKeeps` shows
that reaping keeps `Agree`, and the actions build on it. `DaemonImplementsHost` maps each
step to a step of `EngineHost` or a stutter: the refinement needs the invariant, since
only with it the slot is known to be empty when `Start` forks.

**NmosControl.** Every step of worker, dashboard, engine and service restarts is a step of
`ControlDaemon` or leaves its variables alone (`NodeUsesDaemon`, from one lemma per client
action). The theorems about the daemon carry over by that simulation. `RouteApplied` needs
`RouteInv`: while nobody else has interfered, what the worker believes it last posted is
what the daemon holds (`Believed`), and either a new activation is pending or, at every
program counter of the worker, its job is the wanted route and its body overlays it
(`Serving`).

**TxSchedule.** `SendBand` and `WireOrdered` compare a frame with the last one that was
sent, and between them any number of frames may have been skipped, each of which may have
raised the offset. `BaseKept` carries the order across them: the base of the last sent
frame never is later than the current offset (or the fixed latency) puts the frame after
the last one. A skip only raises the offset and lets at least one interval pass, a send
sets the base to its own place, and a trim step lowers the offset by at most `Trim`:
hence the tolerance in `WireOrdered`. The servo's order follows from the division by
eight of an error of at most one interval.

`ClipBounded` is about a window that slides by one frame, while the code counts in two
buckets. `ClipInv` splits the window where the counter was last zero: the clipped frames
behind that point are covered by the current bucket's counter, those before it by the
previous one's, and both counters together never exceed what `MaySkip` tolerates by more
than one.

`ThrottleKept` says where a throttle with a right clock can be lost. After a frame sent with the
throttle on, `compute()` has blocked until little more than the horizon is left (`Slack`), and
the next frame is not looked at earlier (`NotBefore`). So it is wanted one interval further
ahead at most, which `CapFits` leaves below the cap: `ThrottleInv` is this slack, for the grid
after every frame, for the fixed schedule after every sent one. A first frame, and one after
frames that were not sent, has no block behind it, and its latency may exceed the cap.

**Scaler.** `ScaledRight` speaks of frames whose kernels have all run, and the kernels of up
to `MaxQueued` frames, of different sizes, may be in the stream when one runs. `InLine` says
how kernels follow each other: step by step through the luma of a frame, then its chroma,
then the first kernel of the next frame. Those of the net are for the one engine there is
(`EngineOK`, `KernelOK`), since a new one is built only when the stream is empty. `HeadOK`
and `WorkOK` say what the work buffer in front of the first kernel holds: what the net has
made of the frame up to the convolutions the steps before it have done (`Through`). That
fused steps do not do a convolution twice or leave it out is about the plan alone:
`StepsOfNet` shows that the convolutions of the steps are those of the net one after the
other, for every net that parses, and that a kernel with a size built in is chosen only
where the net has it.

**PictureFilters.** `SoFar` is `FilteredRight` with the filters passed so far in the place of
all. Each kernel keeps the planes' domains and makes no protected code word, is neutral at its
neutral setting and leaves a flat plane flat (the lemmas before it, one for each kernel:
a weighted mean of equal samples is that sample, the weight of the grain is zero in black
and white). What is kept is kept by the copies, whatever the slot of the pool held.
`Salted` bounds the salts a filter has drawn by those of its next frame.

**AudioRelay.** `LipSync` needs to know which deltas can be in force when a sender comes
back to its epoch. `FromWrong` says it: a delta other than 0 was latched for a stamp that
was itself outside the guard. The lemma `Border` then shows, modulo `M`, that such a delta
puts a correct stamp outside the guard as well, so the first correct packet releases it
(`Releases`); this is where the assumption about epochs at the edge of the guard is used.
`StampsOnSchedule` rests on `RawMatches`: stamp minus capture
time is the inverse of the delta that gave the capture time. `HeldInv` carries both facts
through the bridge.

That nothing is dropped (`AudioIsKept`) is a bound in time. `InTime` gives each packet a
`Due`, the time left to it without the error of its capture time: the packets of the bridge
are due at least a packet time apart (`Spaced`), the newest has been there since the last
arrival. So the length of the bridge bounds how far its first packet is ahead of its
newest one. How late that first packet can be is `Sound`: when the relay last ran, it had one
of `LeastLeft` left, and has since lost no more than the stall. A relay that waits for a packet
is not stalled and starts the count anew. Both ends are in `RelayInTime`. What an epoch that
steps does to a capture time is bounded by `OffBounded`, from the lemmas of `LipSync`.

**AudioOps.** `OpsInv` looks at all places at once: the blocks on the way to TX, in the
delay line, on the way to it, queued and in hand are one sequence (`Underway`). Its
stamps increase and, together with the sent and the dropped blocks, account for all that
were made. Poll thread, operators and pacing append to it, take its first or its last
element, or leave it as it is. That each block still has its samples is a count: with no
drop, fewer than `Places` blocks were made since the oldest one under way, so a ring of
`Places` slots has not come round to it. `Audio` puts relay and operators side by
side, so that `AudioIsKept` speaks of both.

**GpuChain.** `GridStep` is what `Ticks` promises of one bracket, for any interval, stall
limit and room: the times it writes lie in the bracket, the next tick is ahead of the
received frame, at most one interval ahead unless it did not move, and a whole number of
intervals, written plus lost, from where it was. That the brackets join needs the times of
the frames in every queue, since a frame may have been re-stamped by a grid before it:
`GridInv` bounds them all by the latest capture time, which is why `GridRigid` speaks of
`high`. The capture times themselves may step back at any moment.

`TimesIncrease` needs an order along the whole line. `OrderInv` gives each operator the time
of the frame it took last; the frames in front of it lie between that time and the one its
predecessor took last, at least `Spacing` apart, and the frame that FRC holds is the one it
took last. A step moves a single one of these times. Where the rate is doubled the
distance before FRC is two, so the midpoint falls strictly between.

`BuffersSafe` is a property of the host buffers, which `PackOp` searches by reference count,
and one of the pools on the device, which are handed out round-robin without a look. For
the first (`HostsStaySafe`, for every chain and mode) `HostInv` says which buffer is being
packed, queued and sent, that they differ, and that what is queued or sent has been packed,
since `PackOp` waits for its stream. The second is a count. `PoolInv` numbers the frames:
`t[i]` is how many operator i has taken, `d[i]` how many of its kernels have run. `Item`
says that the k-th frame in front of an operator is the result of a certain launch
(`Origin`) of the nearest operator before it that makes frames, looking through scalers
that hand on and through an FRC that hands on the frame it received; `Copy` gives the
buffer and the content of a launch, `Filled` how often a buffer has been written after x
launches. `Lag` bounds how far an operator may be ahead of another by the queues between
them, `Done` orders the kernels: one runs only after those that made what it reads. A
frame that is queued, kept, packed or still to be read is at most as old as the one pack
waits for, so by `AgeBound` the launch that made it is within one round of its pool, and the
buffer has not come round. That the announced queue is the only one of two, and that it
is there only with FRC, follows from the names `Composed` gives: no two operators share
one (`NamesOnce`), which is an argument about positions in a list (`RankChosen`). A grid
whose source is slower or faster emits up to a burst for a frame or none, so counts of
frames do not bound it; it stays with TLC.

**Wire.** `BufferInv` says where each packet buffer is: in the pool, the batch, a queue of
the NIC or with the audio thread. The batch has room while a packet is made, and the
queues are no longer than the hardware's. With `Needed` buffers the pool then cannot be
empty when one is asked for (`NeverEmpty`).

That losses are counted exactly (`LossesCounted`) is about every packet between the two
counters. `LossInv` takes batch and queue as one sequence (`Way`): its packets are in
order, newer than the last one received and not dropped (`OnWay`, `InOrder`), and what was
sent since that one is on its way or dropped (`Accounted`). So the numbers between two
packets received one after the other are exactly those dropped there. `GapCounts` turns
the gap of `account()`, computed modulo all sequence numbers, into their number;
`HalvesJoin` shows that the two halves the packet carries make that sequence number. The
condition on runs of losses can only become false as packets are dropped, so the
count is right at each state at which it holds.

`SpecDelivered` adds the pixels, for every format, picture and loss. The prover has no
induction over data, and `EncodeLine`, `Plan`, `Targets` and `FramePlans` recurse over a
lane, the segments of a packet and the packets of a frame. What it does have is that a
set of numbers has a least one (`WFMin`): the least place at which a claim fails has a place
before it where it holds (`UpTo`). A recursive function is a `CHOOSE` of a function with that
equation, and `Unrolled` shows there is one, by `UpTo` over how far it has been built.
With these two,

- `SampleBack` and `NextIsTable`: encoder and decoder, which never see each other, go on
  with the same table, so that `LaneBack` and `LineBack` give back each sample within half a
  step (IP10) or exactly (raw, `GroupBack`);
- `SegmentCuts`, `MakingAfter` and `PlanIs`: a packet carries the groups between two cursors,
  one after the other (`Carries`), at least one, in segments `parse()` lets through
  (`WrittenParses`), within the budget (`PayloadFits`);
- `FrameIsCutUp`: the packets of a frame begin where the one before ended, the last one ends
  behind the last line; `AtCovers`, `AtApart`: each group is in exactly one of them;
- `ScatterIs`: a packet fills its groups in the buffer and no others.

The invariant over the steps is `FrameInv`. `Sending` says where the packetizer is: packet
`n` is packet `IndexOf(n)` of frame `TimeOf(n)`, and the cursor stands at its begin.
`Carrying`: what is on its way was written so. `Keeping`: the receiver's buffer
holds the groups of each packet of the frame in progress that was not dropped. It says nothing
of the other groups, which still are those of an older frame, as after a lost marker
those of two frames share the buffer. `Counting` ties the count
of groups to the position in the frame, as long as nothing was dropped since the last completed
one. `Completed` is the claim. `LossInv` is needed for each packet that arrives, since it
says that exactly the packets between it and the last one were dropped (`BeforeHead`).

**Ingress.** A membership's age is no bound on itself: the next report may be lost and the
clock may leap. `KeptInv` gives each membership a budget: its age plus the time left to
the next report is at most one renewal period for each report lost in a row and each leap
so far. A tick moves one unit from the time left to the age, a lost report or a leap earns a
period, a report heard resets both. `PlaceInv` says that the cached header templates and
the steering rules are those of the configuration whenever they are used; with
`StreamsApart` a frame that passes the rules of a stream is then one of that stream.

**NodeState.** That a clean file is current is not inductive: `Apply` rebuilds only the
files whose destination is resolved. `FileHasDest` says that no file exists without one,
`ReadConfigured` that what the polling thread took along between its two steps is the
status of a configured daemon.

**Dashboard.** `PowerPost` follows the save that a START rides on: once it is answered with
success its body is what the daemon holds, until someone else writes. That the catalog's
arrival touches no edit rests on there being no rows to edit before it (`HistoryInv`). For
`EditsHonoured` one lemma (`StepKeepsEdits`) goes through the steps that are not edits: a
fill skips the keys in the list and comes only at first or with nothing edited, and only
`Acknowledge` takes a key out, of whose save `late` knows what came after it.

`PanelInv` is what `PanelRight` needs of the rest of the page. The rows have no
repetitions and the scaler is on (`RowsOK`). Every configuration under way (daemon, answer of
a poll, post, last one seen) is one the panel can hand back (`Around`). A form as filled has
the rows of its configuration on, in the order of its chain (`FreshOK`). The
rest is about lists: `Rank`, `Nth` and `At` take members of a sequence by their positions,
so that what a `filter` of the code does is a function and not a recursion. `OnlyIs` and
`LaidIs` say that a row list laid out for a chain has the chain as the rows that are on;
`DerivedIs`, that the chain of the panel is the engine's but for what the panel cannot
express; `PostedRuns` and `RiddenRuns`, that what is posted is derived to the same chain again.

**EnginePlan.** Only a route changes the input, and it restarts the engine with it; a save
keeps the input and is refused while an engine runs. So the environment, the plan and the
pacing are those of some setting and of an input that is the connected source's (`PlanInv`),
and `EngineAsAsked` becomes a statement about the functions between them. A chain is a set
of stages with distinct names, so its delay and its rate are those of the tokens in the
list, in whatever order (`DelaysAreMet`, `RateIsKept`). `PacedInTime` follows the divisions:
the gap of a line is floored, so that the last packet of the last line is due inside the
window, the window inside the interval. For `AdvertTrue` the node's rate and the engine's
come from the same mode, but for a staged one, and a line of IP10 is cut apart from the
others, so that headers are counted per line (`HeadersCovered`).

**Routing.** That a receiver is told the whole SDP is the end of three steps of one operation,
with others in between. `OpRight` says what each of them may rely on: one that waits has read
a part of a reply its sender gives, one that is about to patch has the whole SDP or was cut
short. The rest is about replies. Between chunks, in whatever pieces it arrives, the only
`0` that stands alone is the one of the end chunk (`EndsAt`), so `Complete` holds from the line
end behind it on and not before (`CompleteAt`); and what `BodyRead` makes of such a reply is the
body (`TokensRead`, `PairRead`). `BodyRead` recurses towards the end of what was read, where
`Unrolled` only builds upwards: `Descent` builds such a function place by place from the end.

Each invariant was checked with TLC before it was proved.

## 5. Where code and comments disagree

Four disagreements are runs that TLC finds violated.

- `chain_burst`: `compose()` announces the operator that gets the burst of FRC
  (`st2110_pipeline.cpp:267`) before it appends a missing scaler, although "appending one is
  always safe" (`:389-390`): the scaler keeps an input queue of one, FRC waits for room for its
  whole burst, and nothing reaches the wire. (A list with `frc` twice stops the same way.)
- `staged_mode`: `output_rate()` doubles the rate by the mode alone (`spark_node.cpp:790`),
  and "the out rate mirrors the engine" (`:777`). The engine doubles only with `frc` in its
  list, else "the mode is staged but inactive" (`st2110_pipeline.cpp:239-244`), and the page
  keeps the mode when the FRC row is switched off (`app.js:335-336`). The SDP then names
  twice the rate that is sent.
- `late_edit`: the answer to a save clears the whole list of edits (`app.js:454-457`), also those
  made while the request was under way. The next poll of a running engine fills the form over
  them, although "the poll must not clobber them" (`app.js:33`).
- `default_latency`: the cap of 50 ms is there for "a now_ns() unit mismatch"
  (`st2110_tx.cpp:600-602`), and fixed mode, whose lead "can be most of L (tens of ms)", "always
  sleeps long waits" (`:619-621`). With the default latency of 105 ms and a horizon of 8 ms (59.94
  fps; 50 fps likewise) the first frame waits longer than the cap (`:607-613`), and the throttle
  stays off for good. At 29.97 fps the horizon is 29 ms and the cap is not reached.

Others were met while modelling. The models keep the code's behaviour, and the properties
or the assumptions of the modules leave the cases out as said here.

*Receiver and media time*
- `st2110_rx.cpp:123`: a reordered packet sets `last_seq_` back, and the next packet in
  order is counted as a loss (the comment: "ignore reorder"). `LossExact` is about
  networks that keep the order.
- `st2110_rx.cpp:202`: a stall of 150 to about 168 ms latches a delta (the first frame
  after it is 160 ms late, say, so the delta moves it 160 ms back); the next frames, on
  time again, are then 150 ms or less early and inside the tolerance. The comment says the
  guard "self-corrects on the next sane frame". `LipSync` assumes `HealthyNetwork`.
- `st2110_rx.cpp:153`: an audio epoch 155 to 500 ms behind is inside the tolerance of the
  guard but later than latency + 50 ms, so the relay drops all audio, which the guard is
  there to prevent.

*Transmitter*
- `st2110_tx.cpp:456`: the first skip of a stall after a long clean run is taken for a
  probe of the floor and raises the offset.
- `st2110_tx.cpp:647`: the "final live snapshot" takes the NIC's error counters from a
  cache that is up to a second old. `BackendsSafe` asks for the final counters of the
  receiver only.
- `dpdk_tx_backend.cpp:340`: the spin counter is not reset when packets are dropped, so
  that each full queue afterwards drops at once.
- A late burst leaves the stand-alone audio transmitter ahead by more than its horizon,
  and the lead never decays (`audio_tx.cpp`).

*Audio operators*: the ring has 64 slots, the queue 256 places, and a delay of 40 ms of
0.125 ms blocks holds 320 blocks: with these numbers `SamplesKept`'s premise (a slot for
each place) is false, and a consumer that falls behind plays overwritten samples.

*GPU operators*
- A chain of more than ten operators, unpack, scaler and pack included, laps a pool of ten
  (`codec_ops.cpp:19`) while the GPU is behind: repeated filters make one (`DeepPools`).
- The fused tails drop the activation of the last convolution of a retrained net
  (`sr_net.cu:557-596`), where `sr_net.cu:26-27` says "correct, just slower". `Plain`
  excludes such nets.
- A small object that moves faster than it is wide: two vectors of equal confidence are
  averaged, where the comment says the more confident one wins. One wrong cell is mended
  by the median only among agreeing neighbours.
- Two grain filters in one chain draw the same field; salts repeat after 2^30 frames.

*Control*
- `spark_node.cpp:376`: "already running with this exact config" holds of what was last
  posted, not of what runs: activate, let the engine die, activate the same connection
  again, and nothing happens. `RouteApplied` asks that nobody interfered.
- `spark_node.cpp:366`: "set when our matching sender is activated, else clear": a sender
  released by `master_enable` keeps its group in the engine's configuration.
- `spark_node.cpp:378`: the worker reads the configuration, the dashboard saves, the worker
  posts: the choices just saved are lost.
- `SetConfig` is accepted in state ERRORED.
- `spark_node.cpp:735`: re-activating a sender while IP10 stays on leaves the raw SDP in
  place, where `:255-257` says it is rebuilt within seconds. `CleanMeansCurrent` and
  `SettlesOnDaemon` therefore speak of flow, clock and destination, not of the codec.
- `spark_node.cpp:361`: an SDP without a width leaves the input format of the sender before,
  although it is to be "set (not preserved)".
- The node parses a decimal frame rate as a whole number, the engine as a fraction.
- The bandwidth line of IP10 covers headers only for widths that are multiples of 640. A
  3840x1600 raw picture overfills the ring of 8192, which is chosen by the height.

*Dashboard and proxy*
- Other clients may write a list the panel cannot express that names `frc` without a mode
  (`frc,frc,scale`): the engine skips the token, the panel shows FRC off, and an untouched save
  posts the list with the mode of the form, which switches FRC on (`ListsMeanFrc`). Spaces
  between tokens are trimmed by the panel (`app.js:238`) and not by the engine: an untouched
  save then changes the chain too. `Foreign` has neither.
- A catalog that fails to load once leaves the built-in one for good.
- The proxy looks for the end chunk in the whole of what it has read
  (`daemon.cpp:543`), so a chunked body that has a line `0` is cut there (`NoEndInside`).
- The proxy takes a reply that is cut before its `Content-Length` as complete; the comment
  says one redirect, the code follows two.
- If only the list of our receivers fails to load, they are shown as destinations.

*Receive backend*
- Keepalive, joins and the queue for reports depend on the video group alone: unicast video
  with multicast audio never renews the audio (`IngressAssumption`).
- Rules are narrowed by the members of the video stream instead of the arguments
  (`dpdk_rx_backend.cpp:250`); video without a group on the port of the audio is taken for
  audio; without isolation a group whose MAC is PTP's takes PTP from the kernel.
- No leave report is sent at shutdown.

*Documents*: M10 gives `SPARK_LATENCY_MS` 150 (105 in the code), M8 `SPARK_TX_TRIM_NS`
5000 (20000); protocol and daemon default to a fill of 0.9, the engine to 1.0.

## 6. Limits

*Only model-checked.* Liveness of all modules: fairness and ENABLED are out of the reach of
the prover. `MidRight`, the part of `PicturesRight` about frames made between two others, which
holds for the sizes and vectors of an instance and not for all. `FramesSafe` of `GpuChain`
on the uniform grid, where the frames an operator emits are not a function of those it took.

*Assumed.* `parse_stats` and the JSON parser are modelled by what they do; the kernels of
one CUDA stream end in launch order; a reference count is read atomically; no gRPC handler
is cancelled in the middle; `NmosControl` has no request that arrives twice, and `VideoRx` no
packet that does. Holoscan runs
`compute()` and `stop()` of one operator one after the other, and stops what it started.
The two ports of a program differ: the dashboard lets both be the same, and the second
backend's failing `init()` would then close the port under the receiver. Frames reach the
transmitter only once a source is routed, and a lead is shorter than an interval where the
ring is concerned. `RouteApplied` says nothing once anybody else has interfered: the code
does not reconcile again by itself after a failed request, which no comment promises.

*Claimed for less than the code meets.* `AudioKept` is about a ring with a buffer for each place,
not about 64 for 256; `PicturesRight` about one pair of frames in the run, and about nets whose
last convolution has no activation; `RepliesRight` about replies that are not broken off; `SendReturns`
does not ask that a full ring is waited for again after a drop; the frame FRC stamps anew goes
on as a copy, where the code stamps the shared one. The hazards of `PROJECT.json` say so at each
place.

*Abstracted.* The flow engine, the weights of the kernels (two values instead of an
exponential), convolutions (their order, not their arithmetic), the lattice of the grain
noise, the second dimension of pictures, the rounding between nanoseconds and ticks,
wording, layout and logging. A kernel is one action, since the stream runs one at a time.

*Not modelled.* Components with status `not_modelled` in `PROJECT.json` (message
definitions, installation scripts, experiments, tools), and of the others what their note
says: among them the weights of the nets (`sr_weights_data.cpp`, 6351 lines of numbers), the
test picture and the programs that only run GPU operators, EAL arguments, hardware time
stamps, malformed and fragmented frames, packet capture, charts and static files. They keep
no state a model could decide about.

## 7. Plan

The modules are complete as far as section 6 says. What could be proved next, in this order:

1. `GpuChain`: `FramesSafe` on the uniform grid, from a bound on the brackets between two
   operators rather than on the frames.
2. `Motion`: which sizes of objects, cells and vectors `MidRight` needs, as an assumption, and
   its proof from that.
