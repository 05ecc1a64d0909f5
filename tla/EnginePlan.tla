----------------------------- MODULE EnginePlan -----------------------------
(***************************************************************************)
(* From a source and a configuration to packets on the wire: what the      *)
(* daemon puts into the engine's environment (daemon.cpp), what compose()  *)
(* makes of it (st2110_pipeline.cpp), the receiver's format, the pacer of  *)
(* the transmitter (st2110_tx.cpp), and what the NMOS node tells the       *)
(* receivers they will get (spark_node.cpp).  The node reads the same      *)
(* configuration but works everything out again for itself.                *)
(*                                                                         *)
(* Delays are in ms, times in us, rates are fractions.  A raster is        *)
(* [w, h]; [w |-> 0, h |-> 0] is one that was not given.                   *)
(*                                                                         *)
(* An operator Bug... is a wrong variant of the operator after it.         *)
(***************************************************************************)
EXTENDS Integers, Sequences

CONSTANTS Sources,    \* what may be routed to us: raster, rate, ip10, and what the SDP says
          Settings,   \* what may be saved: out, ip10, mode, frc, filters, amounts, delayV, delayA, fill
          Machines,   \* environments: wide, latency, avOffset, lead, ip10Burst, audioRx, audioTx
          Profile,    \* raster of SPARK_PROFILE
          TotalLines, \* total lines for the heights that have blanking
          TallLines,  \* lines from which packets never span lines       (2160)
          ShortRing,  \* transmit descriptors for low rasters            (8192)
          LongRing,   \* transmit descriptors otherwise                  (16384)
          BridgeTime, \* ms of audio the bridge holds                    (kCap)
          None,
          MaxPlans    \* bound: routes, saves and starts

P == INSTANCE Packetizer WITH Formats <- {}, MaxSrd <- 3, LoMod <- 65536, HiMod <- 65536

Unset    == [w |-> 0, h |-> 0]
NoFps    == [num |-> 0, den |-> 1]
BaseFps  == [num |-> 60000, den |-> 1001]
Twice(r) == [r EXCEPT !.num = 2 * @]

\* An interval in us.
Interval(r) == (1000000 * r.den) \div r.num

Listed(list) == {list[i] : i \in DOMAIN list}

\* Modes 2 and 3 double the rate, if FRC runs.
Doubles(mode) == mode \in {2, 3}

\* Excluded are lists with two FRC stages, which cannot run.
ASSUME PlanAssumption ==
  /\ \A s \in Sources :
       /\ s.size = [w |-> s.size.w, h |-> s.size.h] /\ s.size.w \in Nat \ {0} /\ s.size.h \in Nat \ {0}
       /\ s.fps = [num |-> s.fps.num, den |-> s.fps.den]
       /\ s.fps.num \in Nat \ {0} /\ s.fps.den \in Nat \ {0}
  /\ \A s \in Settings :
       /\ s.out.w \in Nat \ {0} /\ s.out.h \in Nat \ {0} /\ s.ip10 \in BOOLEAN
       /\ s.mode \in 0 .. 3 /\ s.delayV \in Int /\ s.delayA \in Int /\ s.fill \in Int
       /\ \A i, j \in DOMAIN s.filters : s.filters[i] = "frc" /\ s.filters[j] = "frc" => i = j
  /\ \A m \in Machines : m.latency \in Nat /\ m.avOffset \in Int /\ m.lead \in Nat
  /\ \A h \in DOMAIN TotalLines : TotalLines[h] \in Nat /\ h <= TotalLines[h]
  /\ MaxPlans \in Nat

VARIABLES machine,  \* the environment both processes run in
          source,   \* the sender the video receiver is connected to
          conf,     \* the daemon's configuration
          env,      \* environment of the engine, None if it does not run
          plan,     \* what compose() made of it
          pacer,    \* what ensure_pacer() made of the first frame
          advert,   \* what the node says of the video sender
          plans

planVars == <<machine, source, conf, env, plan, pacer, advert, plans>>

-----------------------------------------------------------------------------
(* The node reads the source's SDP and overlays the configuration.         *)

parse_video_fmtp(s) ==
  [size |-> IF "size" \in s.says THEN s.size ELSE Unset,
   fps  |-> IF "rate" \in s.says THEN s.fps ELSE NoFps,
   ip10 |-> s.ip10]

BugOverlay(c, fmt) ==  \* a bug: the codec is only ever switched on
  IF fmt.size.w = 0 THEN c
  ELSE [c EXCEPT !.in = [fmt EXCEPT !.ip10 = @ \/ c.in.ip10]]
\* A width of 0 leaves the whole input format as it was.
Overlay(c, fmt) == IF fmt.size.w = 0 THEN c ELSE [c EXCEPT !.in = fmt]

\* The daemon's configuration: the input and what was saved.
Config(in, s) ==
  [in |-> in, out |-> s.out, ip10 |-> s.ip10, mode |-> s.mode, frc |-> s.frc,
   filters |-> s.filters, amounts |-> s.amounts, delayV |-> s.delayV, delayA |-> s.delayA,
   fill |-> s.fill]
NoInput == [size |-> Unset, fps |-> NoFps, ip10 |-> FALSE]

Fill(f) == IF f > 0 THEN f ELSE 100
\* The child's environment: frc_mode supersedes the old switch, and a fill of
\* 0 leaves the engine's default.
Env(c) ==
  [in |-> c.in, out |-> c.out, ip10 |-> c.ip10, filters |-> c.filters, amounts |-> c.amounts,
   delayV |-> c.delayV, delayA |-> c.delayA,
   mode |-> IF c.mode > 0 THEN c.mode ELSE IF c.frc THEN 1 ELSE 0,
   fill |-> Fill(c.fill)]

-----------------------------------------------------------------------------
(* compose()                                                               *)

\* A delay outside 0 .. 1000 ms is brought to the nearer end.
Clamped(d) == IF d < 0 THEN 0 ELSE IF d > 1000 THEN 1000 ELSE d

\* The chain: as it was asked for, or every stage that has something to do.
\* The order of the stages is GpuChain's subject; here it is what they are.
FilterList(e) ==
  IF e.filters # <<>> THEN Listed(e.filters)
  ELSE {"scale"} \cup (e.amounts \cap {"nr", "sharpen", "procamp", "grain"})
         \cup (IF e.mode # 0 THEN {"frc"} ELSE {})
         \cup (IF Clamped(e.delayV) > 0 \/ Clamped(e.delayA) > 0 THEN {"delay"} ELSE {})

\* The operators made of it: FRC only with a mode, nothing for the delay, and
\* always a scaler.
Made(list, mode) ==
  (list \cap ({"nr", "sharpen", "procamp", "grain"} \cup (IF mode # 0 THEN {"frc"} ELSE {})))
    \cup {"scale"}

\* Of the node's source the rate, else that of the 59.94 formats.
SourceFps(e) == IF e.in.fps.num > 0 THEN e.in.fps ELSE BaseFps

\* Flow vectors per pixel are affordable up to 1920x1080.
FlowGrid(in) == IF in.size.w \in 1 .. 1920 /\ in.size.h \in 1 .. 1080 THEN 1 ELSE 4

\* Delay of the video and of the audio against the video.  The delay stage
\* only works on a fixed schedule.
Delayed(e, m) == "delay" \in FilterList(e) /\ m.latency > 0
Latency(e, m) == m.latency + (IF Delayed(e, m) THEN Clamped(e.delayV) ELSE 0)
AvOffset(e, m) ==
  m.avOffset + (IF Delayed(e, m) THEN Clamped(e.delayA) - Clamped(e.delayV) ELSE 0)

\* Room in the receiver's frame queue for the frames that wait out the latency.
QueueDepth(latency, fps) ==
  LET standing == (latency * fps.num) \div (fps.den * 1000) + 4
  IN  IF latency > 0 /\ standing > 8 THEN standing ELSE 8

\* The receiver's format: what the source is said to send, else the profile.
RxFormat(in) ==
  [size |-> [w |-> IF in.size.w > 0 THEN in.size.w ELSE Profile.w,
             h |-> IF in.size.h > 0 THEN in.size.h ELSE Profile.h],
   fps  |-> IF in.fps.num > 0 THEN in.fps ELSE BaseFps,
   ip10 |-> in.ip10]

\* The rate the pack operator stamps on its frames, which the pacer follows.
OutFps(e) ==
  LET runs == e.mode # 0 /\ "frc" \in FilterList(e)
  IN  IF runs /\ Doubles(e.mode) THEN Twice(SourceFps(e)) ELSE SourceFps(e)

Ring(e)         == IF e.ip10 \/ e.out.h >= TallLines THEN LongRing ELSE ShortRing
Payload(e)      == IF e.ip10 THEN 1300 ELSE 1420
LeadHorizon(m)  == IF m.lead > 8000 THEN m.lead ELSE 8000

Plan(e, m) ==
  [rx      |-> RxFormat(e.in),
   stages  |-> Made(FilterList(e), e.mode),
   factor  |-> IF Doubles(e.mode) THEN 2 ELSE 1,
   grid    |-> FlowGrid(e.in),
   tick    |-> IF e.mode = 3 THEN Interval(OutFps(e)) ELSE 0,
   fps     |-> OutFps(e),
   latency |-> Latency(e, m),
   av      |-> AvOffset(e, m),
   audio   |-> m.audioRx /\ m.audioTx /\ m.latency > 0,
   depth   |-> QueueDepth(Latency(e, m), SourceFps(e)),
   ring    |-> Ring(e),
   payload |-> Payload(e),
   horizon |-> LeadHorizon(m)]

-----------------------------------------------------------------------------
(* ensure_pacer(): how the packets of a frame are spread over its interval. *)

\* The format of the frames that leave the chain.
TxFormat(e, p) ==
  [size |-> IF "scale" \in p.stages THEN e.out ELSE p.rx.size,
   fps  |-> p.fps, ip10 |-> e.ip10]

Framing(fmt, payload) ==
  [pgs |-> fmt.size.w \div 2, pg |-> IF fmt.ip10 THEN 4 ELSE 5, height |-> fmt.size.h,
   payload |-> payload, aligned |-> fmt.ip10 \/ fmt.size.h >= TallLines]

\* What a setting makes of it, and the packets a frame then takes.
Framings ==
  {Framing([size |-> s.out, ip10 |-> s.ip10], Payload(s)) : s \in Settings}
packets_per_frame ==
  [f \in Framings |->
     LET lines == IF f.aligned THEN 1 ELSE f.height  \* aligned lines are cut alike
         walk[k \in 0 .. lines * (P!Octets(f) \div (f.payload - 20) + 1)] ==
           IF k = 0 THEN [n |-> 0, at |-> [line |-> 0, octet |-> 0]]
           ELSE LET w == walk[k - 1]
                IN  IF w.at.line >= lines THEN w
                    ELSE [n |-> w.n + 1, at |-> P!Plan(f, w.at).at]
     IN  walk[lines * (P!Octets(f) \div (f.payload - 20) + 1)].n * (f.height \div lines)]

\* Packets of a line that shares none with another line.
LinePackets(f) == (P!Octets(f) + f.payload - 21) \div (f.payload - 20)

active_ratio(h) == IF h \in DOMAIN TotalLines THEN <<h, TotalLines[h]>> ELSE <<1, 1>>

\* The part of an interval that carries packets.
Window(interval, h, wide, fill) ==
  LET ratio == IF wide THEN <<1, 1>> ELSE active_ratio(h)
      share == IF fill \in 1 .. 100 THEN fill ELSE 100
  IN  (((interval * ratio[1]) \div ratio[2]) * share) \div 100

\* One time stamp per line, one per packet within the slot of its line, or all
\* packets evenly.
LineBurst(fmt, interval, burst) ==
  IF fmt.ip10 THEN burst = "1" \/ (burst = "unset" /\ interval < 20000)
  ELSE fmt.size.h >= TallLines
Gapped(fmt, interval, m) ==
  /\ fmt.ip10 /\ ~m.wide /\ ~LineBurst(fmt, interval, m.ip10Burst)

\* How far ahead packets are handed to the NIC: most of the interval where the
\* packets of a frame take long to hand over.
Horizon(horizon, interval, lineBurst) ==
  IF (interval > 20000 \/ lineBurst) /\ interval - 4000 > horizon THEN interval - 4000 ELSE horizon

Pacing(fmt, payload, horizon, fill, m) ==
  LET f        == Framing(fmt, payload)
      interval == Interval(fmt.fps)
      window   == Window(interval, f.height, m.wide, fill)
      slot     == window \div f.height
      ppl      == LinePackets(f)
      burst    == LineBurst(fmt, interval, m.ip10Burst)
      gapped   == Gapped(fmt, interval, m)
      ppf      == packets_per_frame[f]
  IN  [fmt |-> fmt, interval |-> interval, window |-> window, ppf |-> ppf,
       horizon |-> Horizon(horizon, interval, burst),
       kind |-> IF burst THEN "lines" ELSE IF gapped THEN "gapped" ELSE "even",
       slot |-> slot, ppl |-> ppl,
       gap |-> IF gapped /\ ppl > 1 THEN (slot * 73) \div (100 * (ppl - 1)) ELSE window \div ppf]
Pacer(e, p, m) == Pacing(TxFormat(e, p), p.payload, p.horizon, e.fill, m)

-----------------------------------------------------------------------------
(* What the node says: NodeStateSync mirrors the configuration.            *)

BugOutputRate(c) ==  \* a bug: the uniform grid is forgotten
  LET base == IF c.in.fps.num > 0 THEN c.in.fps ELSE BaseFps
  IN  IF c.mode = 2 THEN Twice(base) ELSE base
output_rate(c) ==
  LET base == IF c.in.fps.num > 0 THEN c.in.fps ELSE BaseFps
  IN  IF Doubles(c.mode) THEN Twice(base) ELSE base

\* The video sender's SDP.  IP10 also declares a bandwidth: the octets of the
\* codewords and 4 % for headers, here for one frame.
Advert(c, m) ==
  [size |-> c.out, fps |-> output_rate(c), ip10 |-> c.ip10, wide |-> m.wide,
   frame |-> IF c.ip10 THEN ((c.out.w \div 2) * c.out.h * 4 * 104) \div 100 ELSE 0]

-----------------------------------------------------------------------------
PlanInit ==
  /\ machine \in Machines /\ source = None
  /\ \E s \in Settings : conf = Config(NoInput, s)
  /\ env = None /\ plan = None /\ pacer = None /\ advert = None
  /\ plans = 0

\* IS-05 connects the video receiver: the worker stops the engine, posts the
\* configuration with the new input and starts the engine.  NmosControl has the
\* three requests one by one.
Route(s) ==
  /\ plans < MaxPlans /\ plans' = plans + 1
  /\ source' = s
  /\ conf' = Overlay(conf, parse_video_fmtp(s))
  /\ env' = Env(conf') /\ plan' = None /\ pacer' = None
  /\ UNCHANGED <<machine, advert>>

\* The dashboard saves: refused while the engine runs.
Save(s) ==
  /\ plans < MaxPlans /\ plans' = plans + 1
  /\ env = None
  /\ conf' = Config(conf.in, s)
  /\ UNCHANGED <<machine, source, env, plan, pacer, advert>>

Launch ==
  /\ plans < MaxPlans /\ plans' = plans + 1
  /\ env = None /\ env' = Env(conf)
  /\ UNCHANGED <<machine, source, conf, plan, pacer, advert>>

Compose ==
  /\ env # None /\ plan = None
  /\ plan' = Plan(env, machine)
  /\ UNCHANGED <<machine, source, conf, env, pacer, advert, plans>>

\* The first frame reaches the transmitter.
FirstFrame ==
  /\ plan # None /\ pacer = None /\ source # None
  /\ pacer' = Pacer(env, plan, machine)
  /\ UNCHANGED <<machine, source, conf, env, plan, advert, plans>>

Quit ==
  /\ env # None
  /\ env' = None /\ plan' = None /\ pacer' = None
  /\ UNCHANGED <<machine, source, conf, advert, plans>>

SyncAdvert ==
  /\ conf.out # Unset /\ advert' = Advert(conf, machine)
  /\ UNCHANGED <<machine, source, conf, env, plan, pacer, plans>>

PlanNext ==
  \/ \E s \in Sources : Route(s)
  \/ \E s \in Settings : Save(s)
  \/ Launch \/ Compose \/ FirstFrame \/ Quit \/ SyncAdvert

-----------------------------------------------------------------------------
(* The engine does what was asked for, whatever order source, settings and *)
(* starts come in.                                                         *)

\* The receiver takes apart what the source really sends, whichever sources
\* were connected before.
InputRight ==
  (source # None /\ plan # None /\ "size" \in source.says) =>
    /\ plan.rx.size = source.size /\ plan.rx.ip10 = source.ip10
    /\ "rate" \in source.says => plan.rx.fps = source.fps

\* As many frames leave the chain as the pacer sends: each FRC stage multiplies
\* them, on the grid it is given.
RateKept ==
  plan # None =>
    LET factor == IF "frc" \in plan.stages THEN plan.factor ELSE 1
    IN  /\ plan.fps = IF factor = 2 THEN Twice(plan.rx.fps) ELSE plan.rx.fps
        /\ ("frc" \in plan.stages /\ plan.tick > 0) => plan.tick = Interval(plan.fps)

\* The descriptors hold what is handed over ahead of its time, so that the
\* sender never spins on a full ring.  A lead of more than an interval, which
\* only the environment can ask for, is left out.
RoomFor(q, ring) ==
  q.horizon <= q.interval =>
    LET ahead == IF q.kind = "even" THEN q.horizon \div q.gap + 1
                 ELSE (q.horizon \div q.slot + 1) * q.ppl
    IN  ahead <= ring \/ q.ppf <= ring

\* What the numbers of the sources, settings and machines must fit.  The
\* rates frames may leave with, and how a setting's frames are then paced:
OutRates ==
  LET in == {s.fps : s \in Sources} \cup {BaseFps} IN in \cup {Twice(r) : r \in in}
Paced(s, r, m) ==
  Pacing([size |-> s.out, fps |-> r, ip10 |-> s.ip10], Payload(s), LeadHorizon(m), Fill(s.fill), m)

\* Frames have packets; those of IP10 take whole lines apart.
PacketsCounted ==
  \A f \in Framings :
    /\ packets_per_frame[f] \in Nat \ {0}
    /\ f.pg = 4 => packets_per_frame[f] = LinePackets(f) * f.height
\* There is time for each line; the descriptors hold what one line or packet
\* after the other needs.
LinesHaveTime ==
  \A s \in Settings, r \in OutRates, m \in Machines : Paced(s, r, m).window >= s.out.h
RingsDeep ==
  \A s \in Settings, r \in OutRates, m \in Machines : RoomFor(Paced(s, r, m), Ring(s))
\* Packets of IP10 are 1200 octets or more on average, so that headers of 48
\* octets are at most 4 %.
HeadersFit == \A f \in Framings : f.pg = 4 => P!Octets(f) >= 1200 * LinePackets(f)

\* The audio bridge has room for the longest delay on top of the machine's own.
BridgeReaches ==
  /\ BridgeTime \in Int
  /\ \A m \in Machines : m.latency + m.avOffset + 1000 <= BridgeTime

\* Video and audio each come out later by the delay asked for it, which the
\* audio reaches through the video's latency and its own offset; the audio
\* bridge holds as much as that takes, and the receiver's queue the frames that
\* wait so long and three more.
DelaysLand ==
  plan # None =>
    LET asked(d) == IF "delay" \in FilterList(env) /\ machine.latency > 0 THEN Clamped(d) ELSE 0
    IN  /\ plan.latency = machine.latency + asked(env.delayV)
        /\ plan.latency + plan.av = machine.latency + machine.avOffset + asked(env.delayA)
        /\ plan.audio => plan.latency + plan.av <= BridgeTime
        /\ (plan.depth - 3) * plan.rx.fps.den * 1000 >= plan.latency * plan.rx.fps.num

\* All packets of a frame are due in the part of the interval that carries
\* packets, each line's within the slot of the line.
LastDue(q) ==
  CASE q.kind = "even"   -> (q.ppf - 1) * q.gap
    [] q.kind = "lines"  -> (q.fmt.size.h - 1) * q.slot
    [] q.kind = "gapped" -> (q.fmt.size.h - 1) * q.slot + (q.ppl - 1) * q.gap
FrameInTime ==
  pacer # None =>
    /\ LastDue(pacer) < pacer.window /\ pacer.window <= pacer.interval
    /\ pacer.kind = "gapped" => /\ pacer.ppf = pacer.ppl * pacer.fmt.size.h
                                /\ (pacer.ppl - 1) * pacer.gap < pacer.slot

RingHolds == pacer # None => RoomFor(pacer, plan.ring)

EngineAsAsked == InputRight /\ RateKept /\ DelaysLand /\ FrameInTime /\ RingHolds

\* The node has seen the configuration the engine runs with.
Advertised == pacer # None /\ env = Env(conf) /\ advert = Advert(conf, machine)

\* A doubling mode is saved, but the chain does without FRC: the page keeps the
\* mode when FRC is switched off (readForm).
StagedMode(c) == Doubles(c.mode) /\ c.filters # <<>> /\ "frc" \notin Listed(c.filters)

\* The SDP then says what is on the wire: raster, codec, and for IP10 a
\* bandwidth that covers every packet with its headers; and the rate, of which
\* it names twice the one that is sent where a mode is only staged.
AdvertTrue ==
  Advertised =>
    /\ advert.size = pacer.fmt.size /\ advert.ip10 = pacer.fmt.ip10
    /\ advert.fps = IF StagedMode(conf) THEN Twice(pacer.fmt.fps) ELSE pacer.fmt.fps
    /\ ~advert.wide => pacer.window <= Window(pacer.interval, advert.size.h, FALSE, 100)
    /\ advert.ip10 => advert.frame >= (advert.size.w \div 2) * advert.size.h * 4 + 48 * pacer.ppf

\* "out rate mirrors the engine" (the comment at output_rate): it does not
\* where a mode is staged.
RateMirrored == Advertised => advert.fps = pacer.fmt.fps
=============================================================================
