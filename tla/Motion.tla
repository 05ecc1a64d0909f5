-------------------------------- MODULE Motion --------------------------------
(***************************************************************************)
(* What FrcOp computes between two frames (frc.cpp, nvof_flow.cpp,         *)
(* frc_kernels.cu): the optical flow of a pair in both directions, the     *)
(* median over each field, and then, once for each phase asked for, both   *)
(* fields splatted to that phase and both frames warped and blended along  *)
(* them.  The work of a pair runs on one stream, in order; the buffers     *)
(* between the kernels are kept from phase to phase and from pair to pair. *)
(*                                                                         *)
(* A frame is one line of pixels that shows an object moving over a        *)
(* background; a pixel of the model stands for a distance that is large    *)
(* against the tolerances of the kernels, and their exponential weights    *)
(* are Strong or Weak.  Positions and vectors are in units of 1/U pixel,   *)
(* phases in quarters.  The flow engine is external: it finds the motion   *)
(* where there is one to find.                                             *)
(*                                                                         *)
(* An operator Bug... is a wrong variant of the operator after it.         *)
(***************************************************************************)
EXTENDS Integers, FiniteSets, FiniteSetsExt

CONSTANTS LineWidth,  \* of the line
          GridSizes,  \* flow cells of 1, 2 or 4 pixels
          Margin,     \* pixels between the object and the border
          Objects,    \* [at, wide]: pixels of the object in the first frame
          Shifts,     \* pixels it moves from frame to frame
          Dark, Light,\* samples of background and object
          Wild,       \* vectors the flow engine may report for one cell by mistake
          Phases,     \* quarters at which frames are made
          MaxPairs, MaxBuilt \* bounds: pairs of frames; frames made from each

U == 8  \* units of a pixel, at least twice the phases and the largest cell
Strong == 1000
Weak == 1      \* of kOcclSigma, kVecSigma and kSplatFloor
Like == 21
Unlike == 1       \* of kEdgeFloor

ASSUME MotionAssumption ==
  /\ LineWidth \in Nat /\ LineWidth % 4 = 0 /\ GridSizes \subseteq {1, 2, 4}
  /\ Shifts \subseteq Int /\ Wild \subseteq Int /\ Phases \subseteq 1 .. 3
  /\ MaxPairs \in Nat /\ MaxBuilt \in Nat

VARIABLES gs,       \* grid_size of the flow
          wide,     \* width of the object
          at,       \* where it is in prev and cur
          costs,    \* the engine reports matching costs (cost_elem # 0)
          fwd, bwd, \* the fields the kernels read, after the median
          costly,   \* cells of either field with a high matching cost
          accum,    \* ws_.accum
          fwdT, bwdT, \* ws_.fwd_t, ws_.bwd_t
          wmap,     \* wmap_
          outY, outC, \* luma and chroma of the frame that is made
          phase,    \* its phase
          next,     \* what the stream does next for it: "splat", "resolve", "luma", "chroma"
          pairs, built

motionVars == <<gs, wide, at, costs, fwd, bwd, costly, accum, fwdT, bwdT, wmap,
                outY, outC, phase, next, pairs, built>>

Luma == 0 .. LineWidth - 1
Chroma == 0 .. (LineWidth \div 2) - 1
Cells(g) == 0 .. (LineWidth \div g) - 1
Dirs == {"fwd", "bwd"}

Clamp(x, lo, hi) == IF x < lo THEN lo ELSE IF x > hi THEN hi ELSE x
RoundDiv(a, b) == (2 * a + b) \div (2 * b)
Abs(x) == IF x < 0 THEN -x ELSE x

\* A frame with the object at this pixel: samples of the line.
Covers(pos, px) == pos <= px /\ px < pos + wide
LumaOf(pos) == [px \in Luma |-> IF Covers(pos, px) THEN Light ELSE Dark]
ChromaOf(pos) == [c \in Chroma |-> IF Covers(pos, 2 * c) THEN Light ELSE Dark]
-----------------------------------------------------------------------------
(* The flow *)

\* One session of the engine, for the motion from `from` to `to`: every cell of the
\* object has its vector and every background cell that stays in sight has none; what
\* a cell reports that is partly covered or has no match is up to the engine.
Solve(from, to, unclear) ==
  [g \in Cells(gs) |->
     LET pxs == (g * gs) .. (g * gs + gs - 1)
     IN  IF \A px \in pxs : Covers(from, px) THEN (to - from) * U
         ELSE IF \A px \in pxs : ~Covers(from, px) /\ ~Covers(to, px) THEN 0
         ELSE unclear]

\* median3x3_k, over a line.
Median(field) ==
  [g \in Cells(gs) |->
     LET l == field[Clamp(g - 1, 0, LineWidth \div gs - 1)]
         r == field[Clamp(g + 1, 0, LineWidth \div gs - 1)]
         m == field[g]
     IN  CHOOSE v \in {l, m, r} : Cardinality({x \in {1, 2, 3} : <<l, m, r>>[x] <= v}) >= 2
                               /\ Cardinality({x \in {1, 2, 3} : <<l, m, r>>[x] >= v}) >= 2]

\* run_flow: both directions, each solved by a session of its own, with a mistake in at
\* most one cell, which has a high cost; then the median.  (The cell is one among
\* others that agree: the median of a line mends no other, that of a plane does.)
RunFlow ==
  /\ next = "splat" /\ pairs < MaxPairs /\ pairs' = pairs + 1 /\ built' = 0
  /\ \E v \in Shifts :
       LET to == at.cur + v
       IN  /\ Margin <= to /\ to + wide <= LineWidth - Margin
           /\ at' = [prev |-> at.cur, cur |-> to]
           /\ \E uf, ub \in {0, v * U}, dir \in Dirs, cell \in 2 .. (LineWidth \div gs) - 3, wrong \in Wild \cup {0} :
                LET flow == [fwd |-> Solve(at.cur, to, uf), bwd |-> Solve(to, at.cur, -ub)]
                    seen == IF wrong = 0 THEN flow ELSE [flow EXCEPT ![dir][cell] = wrong]
                IN  /\ wrong = 0 => dir = "fwd" /\ cell = 2
                    /\ \A g \in (cell - 2) .. (cell + 2) : flow[dir][g] = flow[dir][cell]
                    /\ fwd' = Median(seen["fwd"]) /\ bwd' = Median(seen["bwd"])
                    /\ costly' = IF costs /\ wrong # 0 THEN {<<dir, cell>>} ELSE {}
  /\ UNCHANGED <<gs, wide, costs, accum, fwdT, bwdT, wmap, outY, outC, phase, next>>
-----------------------------------------------------------------------------
(* The kernels *)

\* bilinear(): U times the sample of a plane of n samples at x.
Bilinear(p, n, x) ==
  LET c == Clamp(x, 0, (n - 1) * U)
      i == c \div U
      j == IF i + 1 < n THEN i + 1 ELSE i
  IN  p[i] * (U - (c % U)) + p[j] * (c % U)

Centre(g) == ((2 * g + 1) * gs * U - U) \div 2
\* A position in the line as one in the grid, in units of 1/U cell.
GridPos(x) == ((x + (U \div 2)) \div gs) - (U \div 2)

\* sample_flow
SampleFlow(field, x) ==
  LET n == LineWidth \div gs IN Bilinear(field, n, GridPos(x)) \div U

\* sample_flow_edge at a pixel: of the two cells around it those count that look like it
\* in both frames.
SampleEdge(field, px) ==
  LET n  == LineWidth \div gs
      g  == Clamp(GridPos(px * U), 0, (n - 1) * U)
      x0 == g \div U
      x1 == IF x0 + 1 < n THEN x0 + 1 ELSE x0
      Guide(i) == (LumaOf(at.prev)[i] \div 4) + (LumaOf(at.cur)[i] \div 4)
      Weight(x, bw) ==
        bw * (IF Guide((x * gs) + (gs \div 2)) = Guide(px) THEN Like ELSE Unlike)
      w0 == Weight(x0, U - (g % U))
      w1 == Weight(x1, g % U)
  IN  RoundDiv(w0 * field[x0] + w1 * field[x1], w0 + w1)

\* sample_cost
Cheap(dir, x) == <<dir, Clamp((x \div U) \div gs, 0, (LineWidth \div gs) - 1)>> \notin costly

\* Vectors that cancel out.
Agree(v, w) == Abs(v + w) < U

\* splat_k: every cell of a field leaves its vector where its trajectory is at q quarters
\* of the way, weighted by whether the other field agrees and by its cost.
Splat(dir, field, other, q, sums) ==
  LET Trust(g) ==
        IF Agree(field[g], SampleFlow(other, Centre(g) + field[g])) /\ <<dir, g>> \notin costly
        THEN Strong ELSE Weak
      Lands(g) == GridPos(Centre(g) + ((q * field[g]) \div 4))
      Share(g, o) == LET d == Abs(Lands(g) - (o * U)) IN IF d < U THEN U - d ELSE 0
  IN  [o \in Cells(gs) |->
         LET W(g) == Trust(g) * Share(g, o)
             V(g) == W(g) * field[g]
         IN  [v |-> sums[o].v + MapThenSumSet(V, Cells(gs)), w |-> sums[o].w + MapThenSumSet(W, Cells(gs))]]

\* splat_resolve_k
Resolve(sums, field) ==
  [g \in Cells(gs) |-> IF sums[g].w > 0 THEN RoundDiv(sums[g].v, sums[g].w) ELSE field[g]]

\* blend_weight: candidates and reliability of both sides at a pixel.
Weigh(px, q) ==
  LET prev == LumaOf(at.prev)
      cur  == LumaOf(at.cur)
      ff == SampleEdge(fwdT, px)
      fb == SampleEdge(bwdT, px)
      sf == px * U - ((q * ff) \div 4)
      sb == px * U - (((4 - q) * fb) \div 4)
      candf == Bilinear(prev, LineWidth, sf)
      candb == Bilinear(cur, LineWidth, sb)
      Rel(ok) == IF ok THEN Strong ELSE Weak
      relf == Rel(/\ 2 * Abs(candf - Bilinear(cur, LineWidth, sf + ff)) < (Light - Dark) * U
                  /\ Agree(ff, SampleFlow(bwd, sf + ff)) /\ Cheap("fwd", sf))
      relb == Rel(/\ 2 * Abs(candb - Bilinear(prev, LineWidth, sb + fb)) < (Light - Dark) * U
                  /\ Agree(fb, SampleFlow(fwd, sb + fb)) /\ Cheap("bwd", sb))
  IN  [f |-> candf, b |-> candb, wf |-> (4 - q) * relf, wb |-> q * relb]

Blend(w, f, b) == RoundDiv(w.f * f + w.b * b, (w.f + w.b) * U)

\* cudaMemsetAsync(ws.accum)
Cleared(sums) == [d \in Dirs |-> [g \in Cells(gs) |-> [v |-> 0, w |-> 0]]]

\* a bug: both fields are built as far as the phase
BugFraction(dir, q) == q

\* How far a field's vectors are followed from its own frame to the phase.
Fraction(dir, q) == IF dir = "fwd" THEN q ELSE 4 - q

\* interpolate(), kernel by kernel: both fields are splatted to phase q,
Splats(q) ==
  /\ next = "splat" /\ pairs > 0 /\ built < MaxBuilt /\ built' = built + 1
  /\ phase' = q /\ next' = "resolve"
  /\ LET zero == Cleared(accum)
     IN  accum' = [fwd |-> Splat("fwd", fwd, bwd, Fraction("fwd", q), zero["fwd"]),
                   bwd |-> Splat("bwd", bwd, fwd, Fraction("bwd", q), zero["bwd"])]
  /\ UNCHANGED <<gs, wide, at, costs, fwd, bwd, costly, fwdT, bwdT, wmap, outY, outC, pairs>>

\* the sums divided,
Resolves ==
  /\ next = "resolve" /\ next' = "luma"
  /\ fwdT' = Resolve(accum["fwd"], fwd) /\ bwdT' = Resolve(accum["bwd"], bwd)
  /\ UNCHANGED <<gs, wide, at, costs, fwd, bwd, costly, accum, wmap, outY, outC, phase, pairs, built>>

\* the luma of both frames warped and blended,
WarpLuma ==
  /\ next = "luma" /\ next' = "chroma"
  /\ LET side == [px \in Luma |-> Weigh(px, phase)]
     IN  /\ wmap' = [px \in Luma |-> [f |-> side[px].wf, b |-> side[px].wb]]
         /\ outY' = [px \in Luma |->
              LET s == side[px] IN Blend([f |-> s.wf, b |-> s.wb], s.f, s.b)]
  /\ UNCHANGED <<gs, wide, at, costs, fwd, bwd, costly, accum, fwdT, bwdT, outC, phase, pairs, built>>

\* and the chroma with the weights of the luma.
WarpChroma ==
  /\ next = "chroma" /\ next' = "splat"
  /\ LET half == LineWidth \div 2
         Sample(pos, c, way) == Bilinear(ChromaOf(pos), half, (2 * c * U - way) \div 2)
     IN  outC' = [c \in Chroma |->
           Blend(wmap[2 * c],
                 Sample(at.prev, c, (phase * SampleEdge(fwdT, 2 * c)) \div 4),
                 Sample(at.cur, c, ((4 - phase) * SampleEdge(bwdT, 2 * c)) \div 4))]
  /\ UNCHANGED <<gs, wide, at, costs, fwd, bwd, costly, accum, fwdT, bwdT, wmap, outY, phase, pairs, built>>
-----------------------------------------------------------------------------
MotionInit ==
  /\ gs \in GridSizes /\ costs \in BOOLEAN
  /\ \E o \in Objects : wide = o.wide /\ at = [prev |-> o.at, cur |-> o.at]
  /\ fwd = [g \in Cells(gs) |-> 0] /\ bwd = fwd /\ fwdT = fwd /\ bwdT = fwd /\ costly = {}
  /\ accum = [d \in Dirs |-> [g \in Cells(gs) |-> [v |-> 0, w |-> 0]]]
  /\ wmap = [px \in Luma |-> [f |-> 1, b |-> 1]]
  /\ outY = LumaOf(at.cur) /\ outC = ChromaOf(at.cur)
  /\ phase = 0 /\ next = "splat" /\ pairs = 0 /\ built = 0

MotionNext == RunFlow \/ (\E q \in Phases : Splats(q)) \/ Resolves \/ WarpLuma \/ WarpChroma
MotionSpec == MotionInit /\ [][MotionNext]_motionVars
-----------------------------------------------------------------------------
\* Where the object is at the phase of the frame, in units, and what a pixel then shows.
Place == at.prev * U + (phase * (at.cur - at.prev) * U) \div 4
Shows(px) == IF Place <= px * U /\ px * U < Place + wide * U THEN Light ELSE Dark

\* A pixel away from the edges of the object.
Clear(px) == \A near \in (px - gs) .. (px + gs) : Shows(near) = Shows(px)

\* A pixel whose content both frames show: of the object, or of the background away from
\* the object's path.
Between(px) == \E i, j \in {at.prev, at.cur} : i <= px /\ px < j + wide
InSight(px) == Clear(px) /\ (Shows(px) = Light \/ \A near \in (px - 2 * gs) .. (px + 2 * gs) : ~Between(near))

\* A frame that is made shows the object where it is at that phase, in luma and chroma,
\* and the background where it has come into sight or is about to go out of it: whatever
\* the flow engine reports where there is nothing to match, with a cell it gets wrong,
\* and whatever was made before from the same fields and buffers.  What both frames show
\* is built from both, from each the more the nearer the phase is to it.
MidRight ==
  (next = "splat" /\ built > 0) =>
    /\ \A px \in Luma : Clear(px) => Abs(outY[px] - Shows(px)) <= 8
    /\ \A c \in Chroma : Clear(2 * c) => Abs(outC[c] - Shows(2 * c)) <= 8
    /\ costly = {} => \A px \in Luma : InSight(px) => wmap[px] = [f |-> (4 - phase) * Strong, b |-> phase * Strong]
=============================================================================
