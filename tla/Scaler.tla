------------------------------- MODULE Scaler -------------------------------
(***************************************************************************)
(* ResizeOp (resize.cpp) and its super-resolution engine (sr_model.cpp,    *)
(* sr_net.cu).  A net is a list of convolutions; the engine turns it into  *)
(* steps that each do one or two of them, or the final pixel shuffle too,  *)
(* and that pass their activations through two work buffers in turn.  The  *)
(* steps of a frame are launched on the operator's stream and run later.   *)
(*                                                                         *)
(* A plane is the sequence of the operations that have made it from the    *)
(* received one: the net's result is right if that is the net itself.      *)
(* Sizes are (width, height); only their ratio and the lower limit of the  *)
(* engine matter.                                                          *)
(*                                                                         *)
(* An operator Bug... is a wrong variant of the operator after it.         *)
(***************************************************************************)
EXTENDS Integers, Sequences, FiniteSets

CONSTANTS Nets,      \* the weights the operator may be given
          NoNet,     \* no weights under that name, or a file that does not open
          Targets,   \* output sizes
          Sizes,     \* sizes of received frames
          MinSize,   \* the engine's least size (32 x 16)
          MaxFrames, \* bound: frames
          MaxQueued  \* bound: frames whose kernels have not all run

Interps == {"linear", "cubic", "lanczos", "super", "auto"}

Shapes == [k : Nat, cin : Nat, cout : Nat, act : STRING]

ASSUME ScalerAssumption ==
  /\ Sizes \cup Targets \cup {MinSize} \subseteq (Nat \ {0}) \X (Nat \ {0})
  /\ Nets \subseteq [convs : Seq(Shapes), act : STRING]
  /\ MaxFrames \in Nat /\ MaxQueued \in Nat \ {0}

-----------------------------------------------------------------------------
(* Nets: net.convs is a sequence of [k, cin, cout, act], net.act the        *)
(* activation behind the shuffle.                                           *)

Odd(k) == k % 2 = 1

\* What parse_blob() lets pass.
Parses(net) ==
  /\ net.convs # <<>> /\ Len(net.convs) < 64
  /\ \A i \in DOMAIN net.convs :
       LET l == net.convs[i]
       IN  /\ l.cin = IF i = 1 THEN 1 ELSE net.convs[i - 1].cout
           /\ Odd(l.k) /\ l.k <= 9 /\ l.cin <= 256 /\ l.cout \in 1 .. 256
  /\ net.convs[Len(net.convs)].cout = 4
  /\ net.act # "prelu"

Applied(act) == IF act = "none" THEN <<>> ELSE <<act>>
Conv(i, k, act) == <<<<i, k>>>> \o Applied(act)

\* The net itself, convolution after convolution.
Through(net) ==
  LET upto[i \in 0 .. Len(net.convs)] ==
        IF i = 0 THEN <<"norm">>
        ELSE upto[i - 1] \o Conv(i, net.convs[i].k, net.convs[i].act)
  IN  upto
Reference(net) ==
  Through(net)[Len(net.convs)] \o (<<"shuffle">> \o Applied(net.act) \o <<"denorm">>)

-----------------------------------------------------------------------------
(* The plan *)

HeadFused(k, c1, c2) == k = 5 /\ <<c1, c2>> \in {<<56, 12>>, <<32, 5>>}
HeadPlain(k, c1) == k = 5 /\ c1 = 64
Conv3(k, cin, cout) == k = 3 /\ <<cin, cout>> \in {<<12, 12>>, <<5, 5>>, <<64, 32>>}
Tail11(a, b) == <<a, b>> \in {<<12, 56>>, <<5, 32>>}
\* a bug: the size of the kernel is not looked at.
BugTailK(k, cin) == cin = 32
TailK(k, cin) == k = 3 /\ cin = 32

\* How many convolutions the first step does: none, one or two.
HeadUsed(L) ==
  IF Len(L) >= 3 /\ L[2].k = 1 /\ HeadFused(L[1].k, L[1].cout, L[2].cout) THEN 2
  ELSE IF Len(L) >= 2 /\ HeadPlain(L[1].k, L[1].cout) THEN 1
  ELSE 0

\* How many of those behind it the last step does.
TailUsed(L) ==
  LET n == Len(L)
  IN  IF n >= HeadUsed(L) + 2 /\ L[n].k = 1 /\ L[n - 1].k = 1 /\ Tail11(L[n - 1].cin, L[n].cin)
      THEN 2
      ELSE IF n >= HeadUsed(L) + 1 /\ TailK(L[n].k, L[n].cin) THEN 1
      ELSE 0

\* The steps: the first from the received plane, one for each convolution in
\* between, the last into the output plane.
Steps(L) ==
  LET n    == Len(L)
      head == HeadUsed(L)
      tail == TailUsed(L)
      first == [kind |-> IF head = 0 THEN "norm-in" ELSE "head", convs |-> 1 .. head]
      mid(i) == [kind |-> IF Conv3(L[i].k, L[i].cin, L[i].cout) THEN "conv" ELSE "conv-gen",
                 convs |-> {i}]
      last == [kind |-> CASE tail = 2 -> "tail11" [] tail = 1 -> "tailk" [] OTHER -> "tail-gen",
               convs |-> n - tail + 1 .. n]
  IN  <<first>> \o [j \in 1 .. n - head - tail |-> mid(head + j)] \o <<last>>

\* Channels a step writes into a work buffer.
Channels(L, s) ==
  IF s.kind = "norm-in" THEN 1
  ELSE L[CHOOSE i \in s.convs : \A j \in s.convs : j <= i].cout

\* Step j reads work buffer (j - 2) % 2 and writes (j - 1) % 2; each buffer is
\* as large as the widest step that writes it needs.
Written(j) == (j - 1) % 2
Read(j) == (j - 2) % 2
BugWidth(L, steps, b) == Channels(L, steps[1])  \* a bug: by the first step only
Width(L, steps, b) ==
  LET all == {0} \cup {Channels(L, steps[j]) : j \in {i \in 1 .. Len(steps) - 1 : Written(i) = b}}
  IN  CHOOSE c \in all : \A o \in all : o <= c

Compiled(net, size) ==
  LET steps == Steps(net.convs)
  IN  [size |-> size, steps |-> steps,
       width |-> [b \in {0, 1} |-> Width(net.convs, steps, b)]]

\* What each kernel does to its input plane.  The kernels of the plan have their
\* size built in; the fused tails do not apply the last convolution's activation.
Act(net, i) == net.convs[i].act
Out(act) == <<"shuffle">> \o Applied(act) \o <<"denorm">>
KNormIn == <<"norm">>
KHead(net, s) ==
  <<"norm">> \o Conv(1, 5, Act(net, 1)) \o (IF 2 \in s.convs THEN Conv(2, 1, Act(net, 2)) ELSE <<>>)
KConv(net, i) == Conv(i, 3, Act(net, i))
KConvGen(net, i) == Conv(i, net.convs[i].k, Act(net, i))
KTail11(net, n) == Conv(n - 1, 1, Act(net, n - 1)) \o Conv(n, 1, "none") \o Out(net.act)
KTailK(net, n) == Conv(n, 3, "none") \o Out(net.act)
KTailGen(net) == Out(net.act)

\* run(): the kernel of a step.
KernelOps(net, s) ==
  LET n == Len(net.convs)
      i == CHOOSE i \in s.convs : TRUE
  IN  CASE s.kind = "norm-in"  -> KNormIn
        [] s.kind = "head"     -> KHead(net, s)
        [] s.kind = "conv"     -> KConv(net, i)
        [] s.kind = "conv-gen" -> KConvGen(net, i)
        [] s.kind = "tail11"   -> KTail11(net, n)
        [] s.kind = "tailk"    -> KTailK(net, n)
        [] s.kind = "tail-gen" -> KTailGen(net)

-----------------------------------------------------------------------------
VARIABLES target, net,  \* what the operator was started with, fixed
          filter,       \* interp_code_
          model,        \* sr_model_ is not empty
          engine,       \* sr_engine_
          kernels,      \* kernels launched and not yet run
          work,         \* the two work buffers: what they hold, and its channels
          taken,        \* frames received
          shown         \* the last frame whose kernels have all run
scaleVars == <<target, net, filter, model, engine, kernels, work, taken, shown>>

NoEngine == [size |-> <<0, 0>>, steps |-> <<>>, width |-> [b \in {0, 1} |-> 0]]
Empty == [ops |-> <<>>, ch |-> 0]

\* start(): an AI model scales the chroma and all other ratios with cubic.
ScaleInit ==
  /\ target \in Targets /\ net \in Nets \cup {NoNet}
  /\ \/ model = TRUE /\ filter = "cubic"
     \/ model = FALSE /\ filter \in Interps
  /\ engine = NoEngine /\ kernels = <<>> /\ work = [b \in {0, 1} |-> Empty]
  /\ taken = 0 /\ shown = [size |-> target, luma |-> <<>>, chroma |-> <<>>]

\* In both directions: SUPER cannot enlarge.
Shrinks(size) == target[1] < size[1] /\ target[2] < size[2]
Doubles(size) == target = <<2 * size[1], 2 * size[2]>>
Interp(size) ==
  CASE filter = "auto" -> IF Shrinks(size) THEN "super" ELSE "cubic"
    [] filter = "super" /\ ~Shrinks(size) -> "cubic"
    [] OTHER -> filter

\* ensure_sr(): keep the engine, or build one, which frees the old one and so
\* waits for the stream; failing that, give the model up.
Usable(size) == engine # NoEngine /\ engine.size = size
Ensure(size) ==
  \/ /\ Usable(size) /\ UNCHANGED <<model, engine>>
  \/ /\ ~Usable(size) /\ kernels = <<>>
     /\ \/ /\ net # NoNet /\ Parses(net)
           /\ size[1] >= MinSize[1] /\ size[2] >= MinSize[2]
           /\ engine' = Compiled(net, size) /\ UNCHANGED model
        \/ engine' = NoEngine /\ model' = FALSE

FramesQueued == Cardinality({kernels[i].frame : i \in DOMAIN kernels})

\* compute(): the kernels of the luma plane, then those of the chroma planes.
KernelOf(frame, size, step, plane) ==
  [frame |-> frame, size |-> size, step |-> step, op |-> Interp(size), plane |-> plane]
Scale(size) ==
  LET kernel(step, plane) == KernelOf(taken + 1, size, step, plane)
      luma == IF model /\ Doubles(size) /\ engine' # NoEngine
              THEN [j \in 1 .. Len(engine'.steps) |-> kernel(j, "luma")]
              ELSE <<kernel(0, "luma")>>
  IN  /\ taken < MaxFrames /\ FramesQueued < MaxQueued /\ size # target
      /\ taken' = taken + 1
      /\ IF model /\ Doubles(size) THEN Ensure(size) ELSE UNCHANGED <<model, engine>>
      /\ kernels' = kernels \o (luma \o <<kernel(0, "chroma")>>)
      /\ UNCHANGED <<target, net, filter, work, shown>>

\* A frame of the target size is passed on as it is.
Pass(size) ==
  /\ taken < MaxFrames /\ size = target
  /\ taken' = taken + 1
  /\ UNCHANGED <<target, net, filter, model, engine, kernels, work, shown>>

\* The kernel at the head of the stream runs.
Input(j) == IF j = 1 THEN <<>> ELSE work[Read(j)].ops
RunsKernel ==
  LET kern == kernels[1]
      j    == kern.step
      s    == engine.steps[j]
      out  == Input(j) \o KernelOps(net, s)
  IN  /\ kernels # <<>> /\ kernels' = Tail(kernels)
      /\ IF kern.plane = "chroma"
         THEN shown' = [shown EXCEPT !.size = kern.size, !.chroma = <<kern.op>>] /\ UNCHANGED work
         ELSE IF j = 0 THEN shown' = [shown EXCEPT !.luma = <<kern.op>>] /\ UNCHANGED work
         ELSE IF j = Len(engine.steps) THEN shown' = [shown EXCEPT !.luma = out] /\ UNCHANGED work
         ELSE /\ work' = [work EXCEPT ![Written(j)] = [ops |-> out, ch |-> Channels(net.convs, s)]]
              /\ UNCHANGED shown
      /\ UNCHANGED <<target, net, filter, model, engine, taken>>

ScaleNext == RunsKernel \/ \E size \in Sizes : Scale(size) \/ Pass(size)

ScaleSpec == ScaleInit /\ [][ScaleNext]_scaleVars
-----------------------------------------------------------------------------
\* The frame shown last is complete.
Complete == shown.chroma # <<>> /\ (kernels # <<>> => kernels[1].step \in {0, 1} /\ kernels[1].plane = "luma")

\* A fused tail drops the activation of the convolution before the shuffle;
\* the nets that come with the program have none there.
Plain(n) == n.convs[Len(n.convs)].act = "none"

\* Every complete frame was scaled as configured: to exactly twice the size by
\* the net, each convolution once, in order, with its own kernel size and
\* activation, whatever was fused, or by cubic once the engine could not be
\* built; to any other size by the filter, which never enlarges with SUPER (NPP
\* would fail); the chroma always by the filter.  No step outgrows the work
\* buffers ("correct, just slower", sr_net.cu:27, resize.cpp:92).
ScaledRight ==
  /\ Complete =>
       LET plain == <<Interp(shown.size)>>
       IN  /\ shown.chroma = plain
           /\ plain = <<"super">> => Shrinks(shown.size)
           /\ \/ shown.luma = plain /\ ~(model /\ Doubles(shown.size))
              \/ /\ net # NoNet /\ Doubles(shown.size)
                 /\ Plain(net) => shown.luma = Reference(net)
  /\ \A b \in {0, 1} : work[b].ch <= engine.width[b]
=============================================================================
