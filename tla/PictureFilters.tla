--------------------------- MODULE PictureFilters ----------------------------
(***************************************************************************)
(* The four picture filters (filters.cpp, filter_kernels.cu): proc amp,    *)
(* sharpen, noise reduction and grain.  Each has a pool of frames that it  *)
(* writes in turn and never clears, so each has to write all three planes  *)
(* of every frame, by a kernel or by a copy.                               *)
(*                                                                         *)
(* A picture is one line, with half as many samples of Cb and Cr.  Gains   *)
(* and amounts are percent, brightness thousandths of the swing, hue       *)
(* quarters of a turn; the random field of the grain is external.  How     *)
(* the filters run side by side is in GpuChain: here a frame passes all of *)
(* them before the next one comes.                                         *)
(*                                                                         *)
(* An operator Bug... is a wrong variant of the operator after it.         *)
(***************************************************************************)
EXTENDS Integers, Sequences, FiniteSetsExt

CONSTANTS Chains,   \* sequences of filters with their settings
          Pictures, \* [y, cb, cr] that may be received, of any size
          Fields,   \* random fields of the three planes, percent
          PoolSize, \* kPool
          MaxPictures \* bound

Samples(p) == {p.y[x] : x \in DOMAIN p.y} \cup {p.cb[x] : x \in DOMAIN p.cb} \cup {p.cr[x] : x \in DOMAIN p.cr}

Size(plane) == Cardinality(DOMAIN plane)

\* Samples of ten bits, and those that are not protected.
Codes == 0 .. 1023
Allowed == 4 .. 1019

\* Lines of 2 * n pixels.
Plane(m) == [0 .. m - 1 -> Codes]
PixelLines(n) == [y : Plane(2 * n), cb : Plane(n), cr : Plane(n)]

FilterSettings ==
  [kind : {"procamp"}, brightness : Int, contrast : Int, sat : Int, hue : 0 .. 3]
    \cup [kind : {"sharpen"}, amount : Int]
    \cup [kind : {"nr"}, luma : Nat, chroma : Nat]
    \cup [kind : {"grain"}, amount : Nat, color : BOOLEAN]

ASSUME PictureAssumption ==
  /\ Chains \subseteq Seq(FilterSettings) \ {<<>>} /\ PoolSize \in Nat \ {0} /\ MaxPictures \in Nat
  /\ \A p \in Pictures : Size(p.cb) \in Nat /\ p \in PixelLines(Size(p.cb))
  /\ \A f \in Fields : {f.y, f.cb, f.cr} \subseteq Int

VARIABLES stages, \* the chain
          pool,   \* of each filter
          idx,    \* idx_
          frames_, \* of each filter, which is also the seed of the grain
          got,    \* the received picture
          pic,    \* what the filters so far have made of it
          pos,    \* filters it has passed
          drawn   \* salts of the fields each filter has drawn

filterVars == <<stages, pool, idx, frames_, got, pic, pos, drawn>>

Nearest(a, b) == (2 * a + b) \div (2 * b)
Clamp10(v) == IF v < 4 THEN 4 ELSE IF v > 1019 THEN 1019 ELSE v
\* The sample at x, or the nearest of the plane.
At(plane, x) == plane[IF x < 0 THEN 0 ELSE IF x >= Size(plane) THEN Size(plane) - 1 ELSE x]
-----------------------------------------------------------------------------
(* The kernels *)

ProcampY(s, y) == [x \in DOMAIN y |->
  Clamp10(Nearest(64000 + (y[x] - 64) * 10 * s.contrast + 876 * s.brightness, 1000))]

\* Cosine and sine of minus the hue.
Turn(hue) == CASE hue = 0 -> <<1, 0>> [] hue = 1 -> <<0, -1>> [] hue = 2 -> <<-1, 0>> [] hue = 3 -> <<0, 1>>
ProcampCb(s, cb, cr) == [x \in DOMAIN cb |->
  Clamp10(512 + Nearest(s.sat * ((cb[x] - 512) * Turn(s.hue)[1] - (cr[x] - 512) * Turn(s.hue)[2]), 100))]
ProcampCr(s, cb, cr) == [x \in DOMAIN cb |->
  Clamp10(512 + Nearest(s.sat * ((cb[x] - 512) * Turn(s.hue)[2] + (cr[x] - 512) * Turn(s.hue)[1]), 100))]

\* unsharp_y_k, of a line.
Unsharp(s, y) == [x \in DOMAIN y |->
  LET blur4 == At(y, x - 1) + 2 * y[x] + At(y, x + 1)
  IN  Clamp10(Nearest(400 * y[x] + s.amount * (4 * y[x] - blur4), 400))]

\* nr_bilateral5: of the samples around one those count that are like it.
Bilateral(strength, p) == [x \in DOMAIN p |->
  LET reach == 4 + ((60 * strength) \div 100)
      W(d, w) == LET v == At(p, x + d) - p[x] IN IF v * v <= reach * reach THEN w ELSE 0
      V(d, w) == W(d, w) * At(p, x + d)
  IN  Clamp10(Nearest(V(-2, 4) + V(-1, 8) + V(0, 10) + V(1, 8) + V(2, 4),
                      W(-2, 4) + W(-1, 8) + W(0, 10) + W(1, 8) + W(2, 4)))]

\* grain_weight in percent: none in black and white, most in between.
Density(y) ==
  LET l == IF y < 64 THEN 0 ELSE IF y > 940 THEN 876 ELSE y - 64
  IN  (400 * l * (876 - l)) \div (876 * 876)
Strength(amount, swing) == (8 * (IF amount > 100 THEN 100 ELSE amount) * swing) \div 10000
Grained(v, weight, strength, field) ==
  IF weight = 0 THEN v ELSE Clamp10(v + Nearest(strength * weight * field, 10000))
GrainY(s, y, field) == [x \in DOMAIN y |-> Grained(y[x], Density(y[x]), Strength(s.amount, 876), field)]
\* Weighted by the luma at the same place.
GrainC(s, y, c, field) == [x \in DOMAIN c |-> Grained(c[x], Density(y[2 * x]), Strength(s.amount, 448), field)]

\* The salt of a field: of Cb, Cr and Y.  (It has 32 bits: the fields come again after 2^30
\* frames.)
Salt(seed, channel) == 4 * seed + channel
-----------------------------------------------------------------------------
(* The filters *)

\* a bug: nothing is written when there is nothing to filter
BugCopied(dst, src) == dst

\* cudaMemcpyAsync of a plane the filter leaves alone.
Copied(dst, src) == src

\* Frames of a new pool hold whatever the memory held.
Fresh(n) == [y |-> [x \in 0 .. (2 * n) - 1 |-> 0], cb |-> [x \in 0 .. n - 1 |-> 0], cr |-> [x \in 0 .. n - 1 |-> 0]]

\* ensure(): frames of another size make a new pool.
Ensured(p, n) == IF Size(p[0].cb) = n THEN p ELSE [i \in 0 .. PoolSize - 1 |-> Fresh(n)]

\* compute() of each filter: what it makes in dst of src.
Filtered(s, dst, src, field) ==
  CASE s.kind = "procamp" ->
         [y |-> ProcampY(s, src.y), cb |-> ProcampCb(s, src.cb, src.cr), cr |-> ProcampCr(s, src.cb, src.cr)]
    [] s.kind = "sharpen" ->
         [y |-> Unsharp(s, src.y), cb |-> Copied(dst.cb, src.cb), cr |-> Copied(dst.cr, src.cr)]
    [] s.kind = "nr" ->
         [y  |-> IF s.luma > 0 THEN Bilateral(s.luma, src.y) ELSE Copied(dst.y, src.y),
          cb |-> IF s.chroma > 0 THEN Bilateral(s.chroma, src.cb) ELSE Copied(dst.cb, src.cb),
          cr |-> IF s.chroma > 0 THEN Bilateral(s.chroma, src.cr) ELSE Copied(dst.cr, src.cr)]
    [] s.kind = "grain" ->
         [y  |-> GrainY(s, src.y, field.y),
          cb |-> IF s.color THEN GrainC(s, src.y, src.cb, field.cb) ELSE Copied(dst.cb, src.cb),
          cr |-> IF s.color THEN GrainC(s, src.y, src.cr, field.cr) ELSE Copied(dst.cr, src.cr)]

FilterInit ==
  /\ stages \in Chains
  /\ pool = [i \in DOMAIN stages |-> [j \in 0 .. PoolSize - 1 |-> Fresh(0)]]
  /\ idx = [i \in DOMAIN stages |-> 0] /\ frames_ = idx
  /\ drawn = [i \in DOMAIN stages |-> <<>>]
  /\ got = Fresh(0) /\ pic = got /\ pos = Len(stages)

\* A picture comes in.
Receives(p) ==
  /\ pos = Len(stages) /\ frames_[1] < MaxPictures
  /\ got' = p /\ pic' = p /\ pos' = 0
  /\ UNCHANGED <<stages, pool, idx, frames_, drawn>>

\* The next filter computes.
Computes(field) ==
  LET i   == pos + 1
      s   == stages[i]
      p   == Ensured(pool[i], Size(pic.cb))
      dst == Filtered(s, p[idx[i]], pic, field)
  IN  /\ pos < Len(stages)
      /\ pool' = [pool EXCEPT ![i] = [p EXCEPT ![idx[i]] = dst]]
      /\ idx' = [idx EXCEPT ![i] = (@ + 1) % PoolSize]
      /\ frames_' = [frames_ EXCEPT ![i] = @ + 1]
      /\ drawn' = [drawn EXCEPT ![i] =
           IF s.kind # "grain" THEN @
           ELSE @ \o <<Salt(frames_[i], 3)>> \o
                (IF s.color THEN <<Salt(frames_[i], 0), Salt(frames_[i], 1)>> ELSE <<>>)]
      /\ pic' = dst /\ pos' = i
      /\ UNCHANGED <<stages, got>>

FilterNext ==
  \/ \E p \in Pictures : Receives(p)
  \/ \E field \in Fields : Computes(field)
FilterSpec == FilterInit /\ [][FilterNext]_filterVars
-----------------------------------------------------------------------------
Kinds == {stages[i].kind : i \in DOMAIN stages}
Neutral(s) ==
  CASE s.kind = "procamp" -> s.brightness = 0 /\ s.contrast = 100 /\ s.sat = 100 /\ s.hue = 0
    [] s.kind = "nr" -> s.luma = 0 /\ s.chroma = 0
    [] OTHER -> s.amount = 0
LumaOnly(s) == s.kind = "sharpen" \/ (s.kind = "grain" /\ ~s.color)
Flat(plane) == \A x \in DOMAIN plane : plane[x] = plane[0]

\* No protected code word.
Legal(p) == Samples(p) \subseteq Allowed

\* What leaves a chain of filters is made of the picture that came in and of no other,
\* although the pools are never cleared and sizes change: it has its size, no protected
\* code word, and what the filters leave alone as it came (all of it with neutral
\* settings, the chroma under luma filters, black and white under grain); a flat plane
\* stays flat unless it is grained; and no two fields of grain are drawn with one salt.
FilteredRight ==
  pos = Len(stages) =>
    /\ DOMAIN pic.y = DOMAIN got.y /\ DOMAIN pic.cb = DOMAIN got.cb
    /\ Legal(got) => Legal(pic) /\ ((\A i \in DOMAIN stages : Neutral(stages[i])) => pic = got)
    /\ (\A i \in DOMAIN stages : LumaOnly(stages[i])) => pic.cb = got.cb /\ pic.cr = got.cr
    /\ Kinds = {"grain"} => \A x \in DOMAIN got.y : got.y[x] \in {64, 940} => pic.y[x] = got.y[x]
    /\ "grain" \notin Kinds => (Flat(got.y) => Flat(pic.y)) /\ (Flat(got.cb) /\ Flat(got.cr) => Flat(pic.cb))
    /\ \A i \in DOMAIN stages : \A j, k \in DOMAIN drawn[i] : j # k => drawn[i][j] # drawn[i][k]
=============================================================================
