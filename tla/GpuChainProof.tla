--------------------------- MODULE GpuChainProof ---------------------------
(***************************************************************************)
(* Proofs about the operators between RX and TX, for every chain, source,  *)
(* interval, stall limit and pool size.                                    *)
(*                                                                         *)
(* The times: what the grid promises of one bracket is a lemma about Ticks; *)
(* that the brackets join up needs the times of the frames in every queue, *)
(* so GridInv is about both.  OrderInv puts the frames in front of each    *)
(* operator between those that reached it and those it took: what is left  *)
(* of the capture times on the wire increases.                             *)
(*                                                                         *)
(* The buffers: HostInv says who has each of pack's host buffers.  PoolInv *)
(* numbers the frames: t[i] is how many operator i has taken and d[i] how  *)
(* many kernels it has run.  A buffer's content is then the launch before  *)
(* the last that went round the pool, and bounded queues keep the frames   *)
(* alive in front of an operator within one round of it.                   *)
(***************************************************************************)
EXTENDS GpuChain, SequenceTheorems, FiniteSetTheorems, TLAPS

LEMMA ChainConstants ==
  /\ Interval \in Nat \ {0} /\ StallTicks \in Nat
  /\ \A s \in Setups : s.filters \in Seq(STRING) /\ s.gaps \subseteq Int \ {0}
BY ChainAssumption
-----------------------------------------------------------------------------
(* One bracket *)

\* The number of ticks up to cur takes the grid past cur, by at most an interval.
LEMMA TicksPass ==
  ASSUME NEW d \in Nat \ {0}, NEW first \in Nat, NEW cur \in Nat
  PROVE  /\ TicksUpTo(d, first, cur) \in Nat
         /\ first + d * TicksUpTo(d, first, cur) > cur
         /\ first <= cur => first + d * TicksUpTo(d, first, cur) <= cur + d
         /\ first > cur => TicksUpTo(d, first, cur) = 0
         /\ \A k \in 1 .. TicksUpTo(d, first, cur) : first + (k - 1) * d \in first .. cur
<1> DEFINE n == TicksUpTo(d, first, cur)
<1>1. CASE first > cur
  <2>1. n = 0
    BY <1>1 DEF TicksUpTo
  <2>2. first + d * n = first
    BY <2>1
  <2> QED
    BY <1>1, <2>1, <2>2
<1>2. CASE first <= cur
  <2> DEFINE a == (cur - first) \div d
             r == (cur - first) % d
  <2>1. n = a + 1
    BY <1>2 DEF TicksUpTo
  <2>2. cur - first \in Nat
    BY <1>2
  <2>3. a \in Nat /\ r \in 0 .. d - 1 /\ cur - first = d * a + r
    BY <2>2, SMT
  <2> HIDE DEF a, r, n
  <2>4. d * n = d * a + d
    BY <2>1, <2>3, SMT
  <2>5. n \in Nat /\ first + d * n > cur /\ first + d * n <= cur + d
    BY <2>1, <2>3, <2>4
  <2>6. ASSUME NEW k \in 1 .. n
        PROVE  first + (k - 1) * d \in first .. cur
    <3>1. k - 1 \in 0 .. a
      BY <2>1, <2>3
    <3>2. PICK j \in 0 .. a : j = k - 1
      BY <3>1
    <3>3. j * d >= 0 /\ j * d <= a * d /\ j * d \in Int
      BY <2>3, <3>2, SMT
    <3>4. a * d = d * a
      BY <2>3, SMT
    <3> QED
      BY <2>3, <3>2, <3>3, <3>4
  <2> QED
    BY <1>2, <2>5, <2>6 DEF n
<1> QED
  BY <1>1, <1>2

\* What a walk over one bracket leaves.
Walked(g, d, next, prev, cur) ==
  /\ Len(g.out) \in Nat
  /\ \A k \in 1 .. Len(g.out) :
       g.out[k] \in 1 .. cur /\ g.out[k] > (IF k = 1 THEN prev ELSE g.out[k - 1])
  /\ g.next = Anchored(next, cur) + d * (Len(g.out) + g.lost)
  /\ g.next \in Nat /\ g.next > cur /\ g.lost \in Nat
  /\ g.next <= cur + d \/ g.next = next

\* What the grid writes of a bracket is in it and in order, what it leaves behind is ahead
\* of it, and the ticks between the two are sent or counted as lost.
LEMMA GridStep ==
  ASSUME NEW d \in Nat \ {0}, NEW stall \in Int, NEW room \in Nat, NEW next \in Nat,
         NEW prev \in Nat, NEW cur \in Nat, prev < cur, next # 0 => prev < next
  PROVE  Walked(Ticks(d, stall, room, next, prev, cur), d, next, prev, cur)
<1>0. PICK g : g = Ticks(d, stall, room, next, prev, cur)
  OBVIOUS
<1> DEFINE start == Anchored(next, cur)
           skip  == Jumped(d, stall, start, prev, cur)
           first == start + skip * d
           count == TicksUpTo(d, first, cur)
           n     == IF count < room THEN count ELSE room
<1>1. g = [out  |-> [k \in 1 .. n |-> first + (k - 1) * d],
           next |-> first + count * d,
           lost |-> skip + (count - n)]
  BY <1>0 DEF Ticks
<1>2. start \in Nat \ {0} /\ (next # 0 => start = next) /\ (next = 0 => start = cur)
  BY DEF Anchored
<1> HIDE DEF start
<1>3. skip \in Nat /\ first \in Nat \ {0} /\ start <= first
      /\ (first > cur => first = start /\ next # 0)
  <2>1. CASE cur - prev > stall /\ start < cur
    <3>0. PICK x \in Nat : x = cur - start
      BY <1>2, <2>1
    <3> DEFINE a == x \div d
               r == x % d
    <3>1. skip = a
      BY <2>1, <3>0 DEF Jumped
    <3> HIDE DEF skip
    <3>2. a \in Nat /\ r \in 0 .. d - 1 /\ x = d * a + r
      BY SMT
    <3>3. a \in Nat /\ r \in 0 .. d - 1 /\ cur - start = d * a + r
      BY <3>0, <3>2
    <3> HIDE DEF a, r
    <3>4. skip * d = d * a /\ d * a \in Nat
      BY <3>1, <3>3, SMT
    <3>5. first = start + d * a /\ first <= cur
      BY <1>2, <3>3, <3>4
    <3> QED
      BY <1>2, <3>1, <3>3, <3>4, <3>5
  <2>2. CASE ~(cur - prev > stall /\ start < cur)
    <3>1. skip = 0
      BY <2>2 DEF Jumped
    <3>2. first = start
      BY <1>2, <3>1
    <3> QED
      BY <1>2, <3>1, <3>2
  <2> QED
    BY <2>1, <2>2
<1>4. /\ count \in Nat /\ first + d * count > cur
      /\ (first <= cur => first + d * count <= cur + d)
      /\ (first > cur => count = 0)
      /\ \A k \in 1 .. count : first + (k - 1) * d \in first .. cur
  BY <1>3, TicksPass
<1>5. skip * d = d * skip /\ skip * d \in Nat
  BY <1>3, SMT
<1>6. first = start + d * skip
  BY <1>5
<1> HIDE DEF skip, first, count
<1>7. n \in Nat /\ n <= count
  BY <1>4
<1> HIDE DEF n
<1>8. count * d = d * count /\ d * count \in Nat
  BY <1>4, SMT
<1>9. /\ g.next = first + d * count /\ g.lost = skip + (count - n)
      /\ g.out = [k \in 1 .. n |-> first + (k - 1) * d]
  BY <1>1, <1>8
<1>10. n + g.lost = skip + count /\ g.lost \in Nat
  BY <1>3, <1>4, <1>7, <1>9
<1>11. d * (skip + count) = d * skip + d * count
  BY <1>3, <1>4, SMT
<1>12. g.next = start + d * (n + g.lost)
  BY <1>2, <1>3, <1>5, <1>6, <1>8, <1>9, <1>10, <1>11
<1>13. g.next \in Nat /\ g.next > cur
  BY <1>3, <1>4, <1>8, <1>9
<1>14. g.next <= cur + d \/ g.next = next
  <2>1. CASE first <= cur
    BY <1>4, <1>9, <2>1
  <2>2. CASE first > cur
    <3>1. d * count = 0
      BY <1>4, <2>2
    <3> QED
      BY <1>2, <1>3, <1>9, <2>2, <3>1
  <2> QED
    BY <1>3, <2>1, <2>2
<1>15. /\ Len(g.out) = n
       /\ \A k \in 1 .. n : g.out[k] = first + (k - 1) * d
  BY <1>7, <1>9
<1>16. ASSUME NEW k \in 1 .. n PROVE g.out[k] \in 1 .. cur
  <2>1. k \in 1 .. count
    BY <1>4, <1>7
  <2>2. PICK t : t = first + (k - 1) * d /\ t \in first .. cur
    BY <1>4, <2>1
  <2>3. t \in 1 .. cur
    BY <1>3, <2>2
  <2> QED
    BY <1>15, <2>2, <2>3
<1>17. ASSUME NEW k \in 1 .. n PROVE g.out[k] > (IF k = 1 THEN prev ELSE g.out[k - 1])
  <2>1. g.out[k] = first + (k - 1) * d
    BY <1>15
  <2>2. CASE k = 1
    <3>1. (k - 1) * d = 0
      BY <2>2
    <3>2. prev < start
      BY <1>2
    <3> QED
      BY <1>2, <1>3, <2>1, <2>2, <3>1, <3>2
  <2>3. CASE k # 1
    <3>1. k - 1 \in 1 .. n
      BY <1>7, <2>3
    <3>2. g.out[k - 1] = first + ((k - 1) - 1) * d
      BY <1>15, <3>1
    <3>3. PICK j \in Nat : j = (k - 1) - 1
      BY <3>1
    <3>4. (j + 1) * d = j * d + d /\ j * d \in Nat
      BY <3>3, SMT
    <3>5. k - 1 = j + 1
      BY <3>3
    <3> QED
      BY <1>3, <2>1, <2>3, <3>2, <3>3, <3>4, <3>5
  <2> QED
    BY <2>2, <2>3
<1> QED
  BY <1>0, <1>7, <1>10, <1>12, <1>13, <1>14, <1>15, <1>16, <1>17 DEF start, Walked
-----------------------------------------------------------------------------
(* Frames in a queue *)

\* A frame with a capture time up to h, and a queue of such frames.
Timed(m, h) == "stamp" \in DOMAIN m /\ m.stamp \in 1 .. h
Line(s, h) == \E S : s \in Seq(S) /\ \A m \in S : Timed(m, h)

LEMMA LineHead ==
  ASSUME NEW s, NEW h, Line(s, h), s # <<>>
  PROVE  Timed(Head(s), h) /\ Line(Tail(s), h)
<1>1. PICK S : s \in Seq(S) /\ \A m \in S : Timed(m, h)
  BY DEF Line
<1>2. Head(s) \in S /\ Tail(s) \in Seq(S)
  BY <1>1, HeadTailProperties
<1> QED
  BY <1>1, <1>2, Zenon DEF Line

LEMMA LineJoin ==
  ASSUME NEW s, NEW t, NEW h, Line(s, h), Line(t, h)
  PROVE  Line(s \o t, h)
<1>1. PICK S : s \in Seq(S) /\ \A m \in S : Timed(m, h)
  BY DEF Line
<1>2. PICK T : t \in Seq(T) /\ \A m \in T : Timed(m, h)
  BY DEF Line
<1>3. PICK U : U = S \cup T
  OBVIOUS
<1>4. s \in Seq(U) /\ t \in Seq(U)
  BY <1>1, <1>2, <1>3
<1>5. s \o t \in Seq(U)
  BY <1>4, ConcatProperties
<1>6. \A m \in U : Timed(m, h)
  BY <1>1, <1>2, <1>3
<1> QED
  BY <1>5, <1>6, Zenon DEF Line

LEMMA LineLater ==
  ASSUME NEW s, NEW h \in Nat, NEW k \in Nat, h <= k, Line(s, h)
  PROVE  Line(s, k)
<1>1. PICK S : s \in Seq(S) /\ \A m \in S : Timed(m, h)
  BY DEF Line
<1>2. \A m \in S : Timed(m, k)
  BY <1>1 DEF Timed
<1> QED
  BY <1>1, <1>2, Zenon DEF Line

LEMMA LineOf ==
  ASSUME NEW n \in Nat, NEW h, NEW s, s = [j \in 1 .. n |-> s[j]],
         \A j \in 1 .. n : Timed(s[j], h)
  PROVE  Line(s, h)
<1>1. PICK S : S = {s[j] : j \in 1 .. n}
  OBVIOUS
<1>2. s \in Seq(S)
  BY <1>1
<1>3. \A m \in S : Timed(m, h)
  BY <1>1
<1> QED
  BY <1>2, <1>3, Zenon DEF Line

LEMMA LineNone ==
  ASSUME NEW h
  PROVE  Line(<<>>, h)
<1>1. PICK s, S : s = <<>> /\ S = {}
  OBVIOUS
<1>2. s \in Seq(S)
  BY <1>1
<1>3. \A x \in S : Timed(x, h)
  BY <1>1
<1>4. Line(s, h)
  BY <1>2, <1>3, Zenon DEF Line
<1> QED
  BY <1>1, <1>4

LEMMA LineOne ==
  ASSUME NEW m, NEW h, Timed(m, h)
  PROVE  Line(<<m>>, h)
<1>1. PICK s, S : s = <<m>> /\ S = {m}
  OBVIOUS
<1>2. s \in Seq(S)
  BY <1>1
<1>3. \A x \in S : Timed(x, h)
  BY <1>1
<1>4. Line(s, h)
  BY <1>2, <1>3, Zenon DEF Line
<1> QED
  BY <1>1, <1>4

-----------------------------------------------------------------------------
(* The inductive invariant *)

\* What FRC keeps: the grid is anchored once, in uniform mode, and rigid from then on.
Memory(mode, st, h) ==
  /\ DOMAIN st = {"prev", "src", "next", "anchor", "ticks", "lost"}
  /\ st.src \in 0 .. h /\ st.next \in Nat /\ st.anchor \in Nat
  /\ st.ticks \in Nat /\ st.lost \in Nat
  /\ st.prev = NoFrame \/ Timed(st.prev, h)
  /\ st.next = 0 => st.ticks = 0 /\ st.lost = 0
  /\ st.next # 0 => /\ mode = "uniform" /\ st.prev # NoFrame
                    /\ st.next = st.anchor + Interval * (st.ticks + st.lost)
                    /\ st.src < st.next /\ st.next <= h + Interval

GridInv ==
  /\ setup \in Setups /\ DOMAIN chain \subseteq Int
  /\ cap \in Nat /\ high \in Nat /\ cap <= high
  /\ DOMAIN q = DOMAIN chain /\ \A i \in DOMAIN chain : Line(q[i], high)
  /\ DOMAIN frc = DOMAIN chain /\ \A i \in DOMAIN chain : Memory(setup.mode, frc[i], high)

LEMMA MemoryLater ==
  ASSUME NEW mode, NEW st, NEW h \in Nat, NEW k \in Nat, h <= k, Memory(mode, st, h)
  PROVE  Memory(mode, st, k)
<1>1. st.prev = NoFrame \/ Timed(st.prev, k)
  BY DEF Memory, Timed
<1>2. st.src \in 0 .. k
  BY DEF Memory
<1>3. st.next # 0 => st.next <= k + Interval
  BY ChainConstants DEF Memory
<1> QED
  BY <1>1, <1>2, <1>3 DEF Memory

-----------------------------------------------------------------------------
(* Composition *)

LEMMA NamesAreSeq ==
  ASSUME NEW toks \in Seq(STRING), NEW at \in SUBSET DOMAIN toks
  PROVE  \E S : NamesAt(toks, at) \in Seq(S)
<1>1. DOMAIN toks = 1 .. Len(toks) /\ Len(toks) \in Nat
  BY LenProperties
<1>2. IsFiniteSet(1 .. Len(toks))
  BY <1>1, FS_Interval
<1>3. IsFiniteSet(at)
  BY <1>1, <1>2, FS_Subset
<1>4. PICK n \in Nat : n = Cardinality(at)
  BY <1>3, FS_CardinalityType
<1>5. PICK f : f = [k \in 1 .. n |->
                     NameOf(toks, CHOOSE i \in at : Cardinality({j \in at : j <= i}) = k)]
  OBVIOUS
<1>6. NamesAt(toks, at) = f
  BY <1>4, <1>5 DEF NamesAt
<1>7. f \in Seq({f[k] : k \in 1 .. n})
  <2>1. f = [k \in 1 .. n |-> f[k]]
    BY <1>5
  <2> HIDE <1>5
  <2>2. PICK S : S = {f[k] : k \in 1 .. n}
    OBVIOUS
  <2>3. f \in Seq(S)
    BY <2>1, <2>2
  <2> QED
    BY <2>2, <2>3
<1> QED
  BY <1>6, <1>7, Zenon

\* Sequences of any kind, joined.
Listed(s) == \E S : s \in Seq(S)

LEMMA ListedJoin ==
  ASSUME NEW s, NEW t, Listed(s), Listed(t)
  PROVE  Listed(s \o t)
<1>1. PICK S : s \in Seq(S)
  BY DEF Listed
<1>2. PICK T : t \in Seq(T)
  BY DEF Listed
<1>3. PICK U : U = S \cup T
  OBVIOUS
<1>4. s \in Seq(U) /\ t \in Seq(U)
  BY <1>1, <1>2, <1>3
<1>5. s \o t \in Seq(U)
  BY <1>4, ConcatProperties
<1> QED
  BY <1>5, Zenon DEF Listed

\* The operators are a sequence, and pack is the last.
LEMMA ComposedIsSeq ==
  ASSUME NEW ss \in Setups
  PROVE  /\ Len(Composed(ss)) \in Nat \ {0}
         /\ DOMAIN Composed(ss) = 1 .. Len(Composed(ss))
         /\ Composed(ss)[Len(Composed(ss))][1] = "pack"
<1> DEFINE toks == ss.filters
           kept == {i \in DOMAIN toks : toks[i] \in Real /\ (toks[i] = "frc" => ss.mode # "off")}
           scale == IF \E i \in DOMAIN toks : toks[i] = "scale" THEN <<>>
                    ELSE <<<<"scale", 1>>>>
<1>1. Composed(ss) = <<<<"unpack", 1>>>> \o NamesAt(toks, kept) \o scale \o <<<<"pack", 1>>>>
  BY DEF Composed
<1>2. toks \in Seq(STRING)
  BY ChainConstants
<1>3. Listed(NamesAt(toks, kept))
  <2>1. kept \in SUBSET DOMAIN toks
    OBVIOUS
  <2> HIDE DEF toks, kept
  <2> QED
    BY <1>2, <2>1, NamesAreSeq, Zenon DEF Listed
<1>4. Listed(scale)
  <2>1. <<>> \in Seq(STRING)
    OBVIOUS
  <2>2. PICK x : x = <<"scale", 1>>
    OBVIOUS
  <2>3. <<x>> \in Seq({x})
    OBVIOUS
  <2> QED
    BY <2>1, <2>2, <2>3, Zenon DEF Listed
<1>5. \A x : Listed(<<x>>)
  <2> SUFFICES ASSUME NEW x PROVE Listed(<<x>>)
    OBVIOUS
  <2>1. <<x>> \in Seq({x})
    OBVIOUS
  <2> QED
    BY <2>1, Zenon DEF Listed
<1> HIDE DEF toks, kept, scale
<1>6. Listed(<<<<"unpack", 1>>>> \o NamesAt(toks, kept))
  BY <1>3, <1>5, ListedJoin, Zenon
<1>7. Listed((<<<<"unpack", 1>>>> \o NamesAt(toks, kept)) \o scale)
  BY <1>4, <1>6, ListedJoin, Zenon
<1>8. PICK t, x : /\ t = (<<<<"unpack", 1>>>> \o NamesAt(toks, kept)) \o scale
                  /\ x = <<"pack", 1>> /\ Composed(ss) = t \o <<x>>
  BY <1>1
<1>9. PICK S : t \in Seq(S)
  BY <1>7, <1>8, Zenon DEF Listed
<1>10. PICK U : U = S \cup {x}
  OBVIOUS
<1>11. t \in Seq(U) /\ x \in U
  BY <1>9, <1>10
<1>12. Composed(ss) = Append(t, x)
  BY <1>8, <1>11, AppendIsConcat
<1>13. Composed(ss) \in Seq(U) /\ Len(Composed(ss)) = Len(t) + 1 /\ Len(t) \in Nat
       /\ Composed(ss)[Len(t) + 1] = x
  BY <1>11, <1>12, AppendProperties, LenProperties
<1>14. DOMAIN Composed(ss) = 1 .. Len(Composed(ss))
  BY <1>13, LenProperties
<1> QED
  BY <1>8, <1>13, <1>14

LEMMA GridStarts == ChainInit => GridInv
<1> SUFFICES ASSUME ChainInit PROVE GridInv
  OBVIOUS
<1>1. setup \in Setups /\ chain = Composed(setup) /\ cap = 0 /\ high = 0
      /\ q = [i \in DOMAIN chain |-> <<>>] /\ frc = [i \in DOMAIN chain |-> NoFrc]
  BY DEF ChainInit
<1>2. DOMAIN chain \subseteq Int
  BY <1>1, ComposedIsSeq
<1>3. Line(<<>>, 0)
  BY LineNone
<1>4. Memory(setup.mode, NoFrc, 0)
  BY DEF Memory, NoFrc
<1> QED
  BY <1>1, <1>2, <1>3, <1>4 DEF GridInv

-----------------------------------------------------------------------------
(* The steps *)

\* FRC remembers the frame it has seen.
LEMMA Remembers ==
  ASSUME NEW st, NEW m, NEW mode, NEW h \in Nat, Memory(mode, st, h), Timed(m, h),
         st.next # 0 => m.stamp <= st.src
  PROVE  Memory(mode, [st EXCEPT !.prev = m, !.src = m.stamp], h)
<1>1. PICK g : g = [st EXCEPT !.prev = m, !.src = m.stamp]
  OBVIOUS
<1>2. DOMAIN st = {"prev", "src", "next", "anchor", "ticks", "lost"}
  BY DEF Memory
<1>3. /\ DOMAIN g = {"prev", "src", "next", "anchor", "ticks", "lost"}
      /\ g.prev = m /\ g.src = m.stamp
      /\ g.next = st.next /\ g.anchor = st.anchor /\ g.ticks = st.ticks /\ g.lost = st.lost
  BY <1>1, <1>2
<1>4. m # NoFrame /\ m.stamp \in 1 .. h
  BY DEF Timed, NoFrame
<1>5. g.next # 0 => g.src < g.next
  <2>1. st.next # 0 => st.src < st.next /\ m.stamp <= st.src
    BY DEF Memory
  <2>2. st.next \in Nat /\ st.src \in Nat /\ m.stamp \in Nat
    BY <1>4 DEF Memory
  <2> QED
    BY <1>3, <2>1, <2>2
<1>6. g.src \in 0 .. h
  BY <1>3, <1>4
<1>7. Memory(mode, g, h)
  BY <1>3, <1>4, <1>5, <1>6 DEF Memory
<1> QED
  BY <1>1, <1>7

\* One operator's memory changes.
LEMMA MemoryOf ==
  ASSUME GridInv, NEW i \in DOMAIN chain, NEW g, Memory(setup.mode, g, high),
         frc' = [frc EXCEPT ![i] = g]
  PROVE  DOMAIN frc' = DOMAIN chain /\ \A j \in DOMAIN chain : Memory(setup.mode, frc'[j], high)
<1>1. DOMAIN frc = DOMAIN chain
  BY DEF GridInv
<1>2. frc'[i] = g /\ \A j \in DOMAIN chain \ {i} : frc'[j] = frc[j]
  BY <1>1
<1>3. DOMAIN frc' = DOMAIN chain
  BY <1>1
<1>4. ASSUME NEW j \in DOMAIN chain PROVE Memory(setup.mode, frc'[j], high)
  <2>1. CASE j = i
    BY <1>2, <2>1
  <2>2. CASE j # i
    <3>1. Memory(setup.mode, frc[j], high)
      BY DEF GridInv
    <3> QED
      BY <1>2, <2>2, <3>1
  <2> QED
    BY <2>1, <2>2
<1> QED
  BY <1>3, <1>4

\* A step of operator i that hands frames on and leaves the rest alone.
LEMMA HandsOn ==
  ASSUME GridInv, NEW i \in DOMAIN chain, NEW out, Line(out, high), q[i] # <<>>,
         q' = [q EXCEPT ![i] = Tail(@), ![i + 1] = @ \o out],
         UNCHANGED <<setup, chain, cap, high>>,
         DOMAIN frc' = DOMAIN chain, \A j \in DOMAIN chain : Memory(setup.mode, frc'[j], high)
  PROVE  GridInv'
<1>1. i # i + 1
  BY DEF GridInv
<1>2. DOMAIN q = DOMAIN chain /\ \A j \in DOMAIN chain : Line(q[j], high)
  BY DEF GridInv
<1>3. DOMAIN q' = DOMAIN chain
  BY <1>2
<1>4. ASSUME NEW j \in DOMAIN chain PROVE Line(q'[j], high)
  <2>1. Line(q[j], high)
    BY <1>2
  <2>2. CASE j = i
    <3>1. q'[j] = Tail(q[j])
      BY <1>1, <1>2, <2>2
    <3>2. q[j] # <<>>
      BY <2>2
    <3> QED
      BY <2>1, <3>1, <3>2, LineHead
  <2>3. CASE j = i + 1
    <3>1. q'[j] = q[j] \o out
      BY <1>1, <1>2, <2>3
    <3> QED
      BY <2>1, <3>1, LineJoin
  <2>4. CASE j # i /\ j # i + 1
    <3>1. q'[j] = q[j]
      BY <1>2, <2>4
    <3> QED
      BY <2>1, <3>1
  <2> QED
    BY <2>2, <2>3, <2>4
<1> QED
  BY <1>3, <1>4 DEF GridInv

\* The next frame of a queue has its time.
LEMMA NextTimed ==
  ASSUME GridInv, NEW i \in DOMAIN chain, q[i] # <<>>
  PROVE  Timed(Head(q[i]), high)
BY LineHead DEF GridInv

LEMMA FilterStep ==
  ASSUME GridInv, NEW i \in DOMAIN chain, Filter(i) \/ HandOn(i)
  PROVE  GridInv'
<1>1. q[i] # <<>> /\ frc' = frc
  BY DEF Filter, HandOn, Ready
<1>2. Timed(Head(q[i]), high)
  BY <1>1, NextTimed
<1>3. PICK out : Line(out, high) /\ q' = [q EXCEPT ![i] = Tail(@), ![i + 1] = @ \o out]
                /\ UNCHANGED <<setup, chain, cap, high>>
  <2>1. CASE Filter(i)
    <3>1. PICK m : m = GpuFrame(Slot(i, 1), Head(q[i]).stamp)
      OBVIOUS
    <3>2. Timed(m, high)
      BY <1>2, <3>1 DEF Timed, GpuFrame
    <3>3. Line(<<m>>, high)
      BY <3>2, LineOne
    <3>4. q' = [q EXCEPT ![i] = Tail(@), ![i + 1] = @ \o <<m>>]
          /\ UNCHANGED <<setup, chain, cap, high>>
      BY <2>1, <3>1 DEF Filter, Compute
    <3> QED
      BY <3>3, <3>4
  <2>2. CASE HandOn(i)
    <3>1. Line(<<Head(q[i])>>, high)
      BY <1>2, LineOne
    <3>2. q' = [q EXCEPT ![i] = Tail(@), ![i + 1] = @ \o <<Head(q[i])>>]
          /\ UNCHANGED <<setup, chain, cap, high>>
      BY <2>2 DEF HandOn, Compute
    <3> QED
      BY <3>1, <3>2
  <2> QED
    BY <2>1, <2>2
<1>4. DOMAIN frc' = DOMAIN chain /\ \A j \in DOMAIN chain : Memory(setup.mode, frc'[j], high)
  BY <1>1 DEF GridInv
<1> QED
  BY <1>1, <1>3, <1>4, HandsOn

LEMMA FrcPassStep ==
  ASSUME GridInv, NEW i \in DOMAIN chain, FrcPass(i)
  PROVE  GridInv'
<1>1. /\ q[i] # <<>>
      /\ frc[i].prev = NoFrame \/ (setup.mode = "uniform" /\ Head(q[i]).stamp <= frc[i].src)
      /\ q' = [q EXCEPT ![i] = Tail(@), ![i + 1] = @ \o <<Head(q[i])>>]
      /\ UNCHANGED <<setup, chain, cap, high>>
      /\ frc' = [frc EXCEPT ![i] = [@ EXCEPT !.prev = Head(q[i]), !.src = Head(q[i]).stamp]]
  BY DEF FrcPass, Ready, Compute
<1>2. PICK m : m = Head(q[i]) /\ Timed(m, high)
  BY <1>1, NextTimed
<1>3. Line(<<m>>, high)
  BY <1>2, LineOne
<1>4. DOMAIN frc' = DOMAIN chain /\ \A j \in DOMAIN chain : Memory(setup.mode, frc'[j], high)
  <2>1. frc[i].next # 0 => m.stamp <= frc[i].src
    BY <1>1, <1>2 DEF GridInv, Memory
  <2>2. high \in Nat /\ Memory(setup.mode, frc[i], high)
    BY DEF GridInv
  <2>3. PICK g : g = [frc[i] EXCEPT !.prev = m, !.src = m.stamp]
    OBVIOUS
  <2>4. Memory(setup.mode, g, high)
    BY <1>2, <2>1, <2>2, <2>3, Remembers
  <2>5. frc' = [frc EXCEPT ![i] = g]
    BY <1>1, <1>2, <2>3
  <2> QED
    BY <2>4, <2>5, MemoryOf
<1> QED
  BY <1>1, <1>2, <1>3, <1>4, HandsOn

\* The midpoint of a pair is not after its second frame.
LEMMA MidTimed ==
  ASSUME NEW p, NEW m, NEW h \in Nat, p = NoFrame \/ Timed(p, h), Timed(m, h)
  PROVE  MidStamp(p, m) \in 1 .. h
<1>1. m.stamp \in 1 .. h /\ p.stamp \in Nat
  BY DEF Timed, NoFrame
<1>2. CASE p.stamp # 0 /\ m.stamp > p.stamp
  <2>1. MidStamp(p, m) = m.stamp - (m.stamp - p.stamp) \div 2
    BY <1>2 DEF MidStamp
  <2>2. PICK d \in Nat : d = m.stamp - p.stamp
    BY <1>1, <1>2
  <2>3. d \div 2 \in 0 .. d
    OBVIOUS
  <2>4. PICK e \in 0 .. d : e = d \div 2
    BY <2>3
  <2>5. MidStamp(p, m) = m.stamp - e
    BY <2>1, <2>2, <2>4
  <2> QED
    BY <1>1, <1>2, <2>2, <2>5
<1>3. CASE ~(p.stamp # 0 /\ m.stamp > p.stamp)
  BY <1>1, <1>3 DEF MidStamp
<1> QED
  BY <1>2, <1>3

LEMMA FrcMidStep ==
  ASSUME GridInv, NEW i \in DOMAIN chain, FrcMid(i)
  PROVE  GridInv'
<1>1. PICK m, p, mid :
        /\ m = Head(q[i]) /\ p = frc[i].prev /\ mid = GpuFrame(Slot(i, 1), MidStamp(p, m))
  OBVIOUS
<1>2. /\ q[i] # <<>> /\ setup.mode # "uniform"
      /\ q' = [q EXCEPT ![i] = Tail(@),
                        ![i + 1] = @ \o (IF setup.mode = "double" THEN <<mid, m>> ELSE <<mid>>)]
      /\ UNCHANGED <<setup, chain, cap, high>>
      /\ frc' = [frc EXCEPT ![i] = [@ EXCEPT !.prev = m, !.src = m.stamp]]
  BY <1>1 DEF FrcMid, Ready, Compute
<1>3. Timed(m, high)
  BY <1>1, <1>2, NextTimed
<1>4. Timed(mid, high)
  <2>1. p = NoFrame \/ Timed(p, high)
    BY <1>1 DEF GridInv, Memory
  <2>2. high \in Nat
    BY DEF GridInv
  <2>3. MidStamp(p, m) \in 1 .. high
    BY <1>3, <2>1, <2>2, MidTimed
  <2> QED
    BY <1>1, <2>3 DEF Timed, GpuFrame
<1>5. PICK out : Line(out, high)
                /\ out = IF setup.mode = "double" THEN <<mid, m>> ELSE <<mid>>
  <2>1. Line(<<mid>>, high) /\ Line(<<m>>, high)
    BY <1>3, <1>4, LineOne
  <2>2. PICK s : s = <<mid, m>>
    OBVIOUS
  <2>3. s = [j \in 1 .. 2 |-> s[j]] /\ s[1] = mid /\ s[2] = m
    BY <2>2
  <2>4. \A j \in 1 .. 2 : Timed(s[j], high)
    BY <1>3, <1>4, <2>3
  <2>5. Line(s, high)
    BY <2>3, <2>4, LineOf
  <2> QED
    BY <2>1, <2>2, <2>5
<1>6. DOMAIN frc' = DOMAIN chain /\ \A j \in DOMAIN chain : Memory(setup.mode, frc'[j], high)
  <2>1. frc[i].next # 0 => m.stamp <= frc[i].src
    BY <1>2 DEF GridInv, Memory
  <2>2. high \in Nat /\ Memory(setup.mode, frc[i], high)
    BY DEF GridInv
  <2>3. PICK g : g = [frc[i] EXCEPT !.prev = m, !.src = m.stamp]
    OBVIOUS
  <2>4. Memory(setup.mode, g, high)
    BY <1>3, <2>1, <2>2, <2>3, Remembers
  <2>5. frc' = [frc EXCEPT ![i] = g]
    BY <1>2, <2>3
  <2> QED
    BY <2>4, <2>5, MemoryOf
<1> QED
  BY <1>2, <1>5, <1>6, HandsOn

\* What a bracket adds to FRC's memory keeps the grid rigid.
LEMMA Advances ==
  ASSUME NEW st, NEW mode, NEW h \in Nat, Memory(mode, st, h), NEW m, Timed(m, h),
         mode = "uniform", m.stamp > st.src, NEW n \in Nat, NEW next \in Nat, NEW lost \in Nat,
         next = Anchored(st.next, m.stamp) + Interval * (n + lost), next > m.stamp,
         next <= m.stamp + Interval \/ next = st.next,
         NEW g, g = [prev |-> m, src |-> m.stamp, next |-> next,
                     anchor |-> IF st.next = 0 THEN m.stamp ELSE st.anchor,
                     ticks |-> st.ticks + n, lost |-> st.lost + lost]
  PROVE  Memory(mode, g, h)
<1>1. PICK anchor, ticks, skips, old, c :
        anchor = st.anchor /\ ticks = st.ticks /\ skips = st.lost /\ old = st.next /\ c = m.stamp
  OBVIOUS
<1>2. /\ anchor \in Nat /\ ticks \in Nat /\ skips \in Nat /\ old \in Nat /\ c \in 1 .. h
      /\ old = 0 => ticks = 0 /\ skips = 0
      /\ old # 0 => old = anchor + Interval * (ticks + skips) /\ old <= h + Interval
  BY <1>1 DEF Memory, Timed
<1>3. Interval \in Nat
  BY ChainConstants
<1>4. PICK a : a = IF old = 0 THEN c ELSE anchor
  OBVIOUS
<1>5. next = a + Interval * ((ticks + n) + (skips + lost))
  <2>1. CASE old = 0
    <3>1. next = c + Interval * (n + lost)
      BY <1>1, <2>1 DEF Anchored
    <3> QED
      BY <1>2, <1>4, <2>1, <3>1
  <2>2. CASE old # 0
    <3>1. next = old + Interval * (n + lost) /\ old = anchor + Interval * (ticks + skips)
      BY <1>1, <1>2, <2>2 DEF Anchored
    <3>2. PICK x \in Nat, y \in Nat : x = ticks + skips /\ y = n + lost
      BY <1>2
    <3>3. Interval * (x + y) = Interval * x + Interval * y
          /\ Interval * x \in Nat /\ Interval * y \in Nat
      BY <1>3, <3>2, SMT
    <3>4. (ticks + n) + (skips + lost) = x + y
      BY <1>2, <3>2
    <3>5. next = (anchor + Interval * x) + Interval * y
      BY <3>1, <3>2
    <3>6. next = anchor + Interval * (x + y)
      BY <1>2, <3>3, <3>5
    <3> QED
      BY <1>4, <2>2, <3>4, <3>6
  <2> QED
    BY <2>1, <2>2
<1>6. /\ g.prev = m /\ g.src = c /\ g.next = next /\ g.anchor = a
      /\ g.ticks = ticks + n /\ g.lost = skips + lost
      /\ DOMAIN g = {"prev", "src", "next", "anchor", "ticks", "lost"}
  BY <1>1, <1>4
<1>7. next <= h + Interval /\ next > c /\ next # 0
  <2>1. next <= c + Interval \/ next = old
    BY <1>1
  <2>2. next > c
    BY <1>1
  <2>3. next # 0 => (old = 0 \/ old <= h + Interval)
    BY <1>2
  <2> QED
    BY <1>2, <1>3, <2>1, <2>2, <2>3
<1>8. a \in Nat /\ ticks + n \in Nat /\ skips + lost \in Nat
  BY <1>2, <1>4
<1>9. m # NoFrame
  BY DEF Timed, NoFrame
<1> QED
  BY <1>2, <1>5, <1>6, <1>7, <1>8, <1>9 DEF Memory

\* A bracket is one of two frames in order.
LEMMA GridWalk ==
  ASSUME GridInv, NEW i \in DOMAIN chain, q[i] # <<>>, Head(q[i]).stamp > frc[i].src
  PROVE  Walked(Ticks(Interval, StallTicks * Interval, EmitBurst(setup.mode),
                      frc[i].next, frc[i].src, Head(q[i]).stamp),
                Interval, frc[i].next, frc[i].src, Head(q[i]).stamp)
<1>1. PICK d, stall, room, next, prev, cur :
        /\ d = Interval /\ stall = StallTicks * Interval /\ room = EmitBurst(setup.mode)
        /\ next = frc[i].next /\ prev = frc[i].src /\ cur = Head(q[i]).stamp
  OBVIOUS
<1>2. d \in Nat \ {0} /\ stall \in Int /\ room \in Nat
  BY <1>1, ChainConstants, SMT DEF EmitBurst
<1>3. Timed(Head(q[i]), high) /\ high \in Nat /\ Memory(setup.mode, frc[i], high)
  BY NextTimed DEF GridInv
<1>4. next \in Nat /\ prev \in Nat /\ cur \in Nat /\ prev < cur /\ (next # 0 => prev < next)
  BY <1>1, <1>3 DEF Memory, Timed
<1>5. Walked(Ticks(d, stall, room, next, prev, cur), d, next, prev, cur)
  BY <1>2, <1>4, GridStep
<1> QED
  BY <1>1, <1>5

LEMMA FrcUniformStep ==
  ASSUME GridInv, NEW i \in DOMAIN chain, FrcUniform(i)
  PROVE  GridInv'
<1>1. PICK m, st, grid, n, k :
        /\ m = Head(q[i]) /\ st = frc[i]
        /\ grid = Ticks(Interval, StallTicks * Interval, EmitBurst(setup.mode),
                        st.next, st.src, m.stamp)
        /\ n = Len(grid.out)
        /\ k = IF n > 0 /\ IsReal(grid.out[n], st.src, m.stamp) THEN n - 1 ELSE n
  OBVIOUS
<1>2. /\ q[i] # <<>> /\ setup.mode = "uniform" /\ m.stamp > st.src
      /\ UNCHANGED <<setup, chain, cap, high>>
      /\ q' = [q EXCEPT ![i] = Tail(@),
           ![i + 1] = @ \o [j \in 1 .. n |-> IF j <= k THEN GpuFrame(Slot(i, j), grid.out[j])
                                             ELSE [m EXCEPT !.stamp = grid.out[n]]]]
      /\ frc' = [frc EXCEPT ![i] =
           [prev |-> m, src |-> m.stamp, next |-> grid.next,
            anchor |-> IF st.next = 0 THEN m.stamp ELSE st.anchor,
            ticks |-> st.ticks + n, lost |-> st.lost + grid.lost]]
  BY <1>1 DEF FrcUniform, Ready, Compute
<1>3. Timed(m, high)
  BY <1>1, <1>2, NextTimed
<1>4. high \in Nat /\ Memory(setup.mode, st, high)
  BY <1>1 DEF GridInv
<1>5. /\ n \in Nat /\ \A j \in 1 .. n : grid.out[j] \in 1 .. high
      /\ grid.next = Anchored(st.next, m.stamp) + Interval * (n + grid.lost)
      /\ grid.next \in Nat /\ grid.next > m.stamp /\ grid.lost \in Nat
      /\ grid.next <= m.stamp + Interval \/ grid.next = st.next
  <2>1. Walked(grid, Interval, st.next, st.src, m.stamp)
    BY <1>1, <1>2, GridWalk
  <2>2. n \in Nat /\ \A j \in 1 .. n : grid.out[j] \in 1 .. m.stamp
    BY <1>1, <2>1 DEF Walked
  <2>3. \A j \in 1 .. n : grid.out[j] \in 1 .. high
    BY <1>3, <1>4, <2>2 DEF Timed
  <2> QED
    BY <1>1, <2>1, <2>2, <2>3 DEF Walked
<1>6. PICK out :
        out = [j \in 1 .. n |-> IF j <= k THEN GpuFrame(Slot(i, j), grid.out[j])
                                ELSE [m EXCEPT !.stamp = grid.out[n]]]
  OBVIOUS
<1>7. Line(out, high)
  <2>1. ASSUME NEW j \in 1 .. n PROVE Timed(out[j], high)
    <3>1. CASE j <= k
      <4>1. out[j] = GpuFrame(Slot(i, j), grid.out[j])
        BY <1>6, <3>1
      <4> QED
        BY <1>5, <4>1 DEF Timed, GpuFrame
    <3>2. CASE ~(j <= k)
      <4>1. out[j] = [m EXCEPT !.stamp = grid.out[n]]
        BY <1>6, <3>2
      <4>2. n \in 1 .. n
        BY <1>5
      <4>3. grid.out[n] \in 1 .. high
        BY <1>5, <4>2
      <4> QED
        BY <1>3, <4>1, <4>3 DEF Timed
    <3> QED
      BY <3>1, <3>2
  <2>2. out = [j \in 1 .. n |-> out[j]]
    BY <1>6
  <2> QED
    BY <1>5, <2>1, <2>2, LineOf
<1>8. PICK g :
        g = [prev |-> m, src |-> m.stamp, next |-> grid.next,
             anchor |-> IF st.next = 0 THEN m.stamp ELSE st.anchor,
             ticks |-> st.ticks + n, lost |-> st.lost + grid.lost]
  OBVIOUS
<1>9. Memory(setup.mode, g, high)
  BY <1>2, <1>3, <1>4, <1>5, <1>8, Advances
<1>10. DOMAIN frc' = DOMAIN chain /\ \A j \in DOMAIN chain : Memory(setup.mode, frc'[j], high)
  BY <1>2, <1>8, <1>9, MemoryOf
<1>11. q' = [q EXCEPT ![i] = Tail(@), ![i + 1] = @ \o out]
  BY <1>2, <1>6
<1> QED
  BY <1>2, <1>7, <1>10, <1>11, HandsOn

\* A received frame has the latest capture time, or an earlier one.
LEMMA ReceiveStep ==
  ASSUME GridInv, NEW gap \in setup.gaps, Receive(gap)
  PROVE  GridInv'
<1>1. /\ cap + gap > 0 /\ cap' = cap + gap
      /\ high' = IF cap' > high THEN cap' ELSE high
      /\ q' = [q EXCEPT ![1] = <<[NoFrame EXCEPT !.stamp = cap + gap]>>]
      /\ UNCHANGED <<setup, chain, frc>>
  BY DEF Receive
<1>2. cap \in Nat /\ high \in Nat /\ cap <= high /\ gap \in Int
  BY ChainConstants DEF GridInv
<1>3. cap' \in 1 .. high' /\ high' \in Nat /\ high <= high' /\ cap' \in Nat /\ cap' <= high'
  BY <1>1, <1>2
<1>4. PICK h : h = high'
  OBVIOUS
<1>5. PICK m : m = [NoFrame EXCEPT !.stamp = cap + gap]
  OBVIOUS
<1>6. Timed(m, h)
  BY <1>1, <1>3, <1>4, <1>5 DEF Timed, NoFrame
<1>7. Line(<<m>>, h)
  BY <1>6, LineOne
<1>8. DOMAIN q' = DOMAIN chain /\ \A j \in DOMAIN chain : Line(q'[j], h)
  <2>1. DOMAIN q = DOMAIN chain
    BY DEF GridInv
  <2>2. DOMAIN q' = DOMAIN chain
    BY <1>1, <2>1
  <2>3. ASSUME NEW j \in DOMAIN chain PROVE Line(q'[j], h)
    <3>1. CASE j = 1
      <4>1. q'[j] = <<m>>
        BY <1>1, <1>5, <2>1, <3>1
      <4> QED
        BY <1>7, <4>1
    <3>2. CASE j # 1
      <4>1. q'[j] = q[j]
        BY <1>1, <2>1, <3>2
      <4>2. Line(q[j], high)
        BY DEF GridInv
      <4> QED
        BY <1>2, <1>3, <1>4, <4>1, <4>2, LineLater
    <3> QED
      BY <3>1, <3>2
  <2> QED
    BY <2>2, <2>3
<1>9. DOMAIN frc' = DOMAIN chain /\ \A j \in DOMAIN chain : Memory(setup.mode, frc'[j], h)
  <2>1. DOMAIN frc = DOMAIN chain
    BY DEF GridInv
  <2>2. ASSUME NEW j \in DOMAIN chain PROVE Memory(setup.mode, frc[j], h)
    <3>1. Memory(setup.mode, frc[j], high)
      BY DEF GridInv
    <3> QED
      BY <1>2, <1>3, <1>4, <3>1, MemoryLater
  <2> QED
    BY <1>1, <2>1, <2>2
<1>10. setup' \in Setups /\ DOMAIN chain' \subseteq Int
  BY <1>1 DEF GridInv
<1> QED
  BY <1>1, <1>3, <1>4, <1>8, <1>9, <1>10 DEF GridInv

\* PackOp takes a frame from the last queue.
LEMMA PackStep ==
  ASSUME GridInv, PackLaunch
  PROVE  GridInv'
<1>1. /\ q[N] # <<>> /\ q' = [q EXCEPT ![N] = Tail(@)]
      /\ UNCHANGED <<setup, chain, cap, high, frc>>
  BY DEF PackLaunch
<1>2. DOMAIN q = DOMAIN chain
  BY DEF GridInv
<1>3. DOMAIN q' = DOMAIN chain
  BY <1>1, <1>2
<1>4. ASSUME NEW j \in DOMAIN chain PROVE Line(q'[j], high)
  <2>1. Line(q[j], high)
    BY DEF GridInv
  <2>2. CASE j = N
    <3>1. q'[j] = Tail(q[j]) /\ q[j] # <<>>
      BY <1>1, <1>2, <2>2
    <3> QED
      BY <2>1, <3>1, LineHead
  <2>3. CASE j # N
    BY <1>1, <1>2, <2>1, <2>3
  <2> QED
    BY <2>2, <2>3
<1> QED
  BY <1>1, <1>3, <1>4 DEF GridInv

LEMMA GridStays ==
  ASSUME GridInv, [ChainNext]_chainVars
  PROVE  GridInv'
<1>1. CASE UNCHANGED <<setup, chain, q, frc, cap, high>>
  BY <1>1 DEF GridInv
<1>2. ASSUME NEW i \in DOMAIN chain, Operator(i) PROVE GridInv'
  BY <1>2, FilterStep, FrcPassStep, FrcMidStep, FrcUniformStep DEF Operator
<1>3. ASSUME NEW gap \in setup.gaps, Receive(gap) PROVE GridInv'
  BY <1>3, ReceiveStep
<1>4. (\E i \in DOMAIN chain : KernelRuns(i)) => UNCHANGED <<setup, chain, q, frc, cap, high>>
  BY DEF KernelRuns
<1>5. PackEmit \/ TxTake \/ TxSent => UNCHANGED <<setup, chain, q, frc, cap, high>>
  BY DEF PackEmit, TxTake, TxSent
<1>6. UNCHANGED chainVars => UNCHANGED <<setup, chain, q, frc, cap, high>>
  BY DEF chainVars
<1> QED
  BY <1>1, <1>2, <1>3, <1>4, <1>5, <1>6, PackStep DEF ChainNext

\* The grid never shifts (frc.cpp, uniform_grid.hpp): through stalls, steps back of
\* the capture clock and full output queues its next tick stays a whole number of
\* intervals from where it was anchored, each of them sent or counted as lost, ahead
\* of the last frame seen and at most one interval ahead of the latest.
THEOREM GridStaysRigid == ChainSpec => []GridRigid
<1>1. GridInv => GridRigid
  <2> SUFFICES ASSUME GridInv, NEW i \in DOMAIN chain, frc[i].next # 0
               PROVE  /\ frc[i].next = frc[i].anchor + Interval * (frc[i].ticks + frc[i].lost)
                      /\ frc[i].src < frc[i].next /\ frc[i].next <= high + Interval
    BY DEF GridRigid
  <2> QED
    BY DEF GridInv, Memory
<1> QED
  BY <1>1, GridStarts, GridStays, PTL DEF ChainSpec
-----------------------------------------------------------------------------
(* The order of the frames *)

\* The least distance of the frames operator i takes: doubling needs room for a midpoint.
Spacing(mode, ops, i) ==
  IF mode = "double" /\ \A j \in 1 .. i - 1 : ops[j][1] # "frc" THEN 2 ELSE 1

\* Frames in order, each at least w after the one before: the first one after lo, the last
\* one not after hi.
Run(s, lo, hi, w) ==
  /\ Listed(s) /\ lo \in Nat /\ hi \in Nat /\ lo <= hi
  /\ \A k \in 1 .. Len(s) :
       /\ s[k].stamp \in Nat /\ s[k].stamp <= hi
       /\ s[k].stamp >= (IF k = 1 THEN lo ELSE s[k - 1].stamp) + w

LEMMA RunTail ==
  ASSUME NEW s, NEW lo, NEW hi, NEW w \in Nat, Run(s, lo, hi, w), s # <<>>
  PROVE  /\ Head(s).stamp \in Nat /\ Head(s).stamp >= lo + w /\ Head(s).stamp <= hi
         /\ Run(Tail(s), Head(s).stamp, hi, w)
<1>1. PICK S : s \in Seq(S)
  BY DEF Run, Listed
<1>2. /\ Len(s) \in Nat /\ Len(s) > 0 /\ Head(s) = s[1]
      /\ Tail(s) \in Seq(S) /\ Len(Tail(s)) = Len(s) - 1
      /\ \A k \in 1 .. Len(s) - 1 : Tail(s)[k] = s[k + 1]
  BY <1>1, HeadTailProperties, LenProperties, EmptySeq
<1>3. /\ s[1].stamp \in Nat /\ s[1].stamp >= lo + w /\ s[1].stamp <= hi /\ hi \in Nat
  BY <1>2 DEF Run
<1>4. ASSUME NEW k \in 1 .. Len(s) - 1
      PROVE  /\ Tail(s)[k].stamp \in Nat /\ Tail(s)[k].stamp <= hi
             /\ Tail(s)[k].stamp >= (IF k = 1 THEN s[1].stamp ELSE Tail(s)[k - 1].stamp) + w
  <2>1. k + 1 \in 1 .. Len(s) /\ k + 1 # 1 /\ (k + 1) - 1 = k
    BY <1>2
  <2>2. s[k + 1].stamp \in Nat /\ s[k + 1].stamp <= hi /\ s[k + 1].stamp >= s[k].stamp + w
    BY <2>1 DEF Run
  <2>3. Tail(s)[k] = s[k + 1]
    BY <1>2
  <2>4. k # 1 => Tail(s)[k - 1] = s[k]
    <3>1. k # 1 => k - 1 \in 1 .. Len(s) - 1 /\ (k - 1) + 1 = k
      BY <1>2
    <3> QED
      BY <1>2, <3>1
  <2> QED
    BY <2>2, <2>3, <2>4
<1>5. Listed(Tail(s))
  BY <1>2, Zenon DEF Listed
<1> QED
  BY <1>2, <1>3, <1>4, <1>5 DEF Run

LEMMA RunJoin ==
  ASSUME NEW s, NEW t, NEW a, NEW b, NEW c, NEW w \in Nat, Run(s, a, b, w), Run(t, b, c, w)
  PROVE  Run(s \o t, a, c, w)
<1>1. PICK S : s \in Seq(S)
  BY DEF Run, Listed
<1>2. PICK T : t \in Seq(T)
  BY DEF Run, Listed
<1>3. PICK U : U = S \cup T
  OBVIOUS
<1>4. s \in Seq(U) /\ t \in Seq(U)
  BY <1>1, <1>2, <1>3
<1>5. PICK j, n, p : j = s \o t /\ n = Len(s) /\ p = Len(t)
  OBVIOUS
<1>6. /\ n \in Nat /\ p \in Nat /\ Len(j) = n + p /\ j \in Seq(U)
      /\ \A k \in 1 .. n : j[k] = s[k]
      /\ \A k \in n + 1 .. n + p : j[k] = t[k - n]
  BY <1>4, <1>5, ConcatProperties, LenProperties
<1>7. a \in Nat /\ b \in Nat /\ c \in Nat /\ a <= b /\ b <= c
  BY DEF Run
<1>8. ASSUME NEW k \in 1 .. n + p
      PROVE  /\ j[k].stamp \in Nat /\ j[k].stamp <= c
             /\ j[k].stamp >= (IF k = 1 THEN a ELSE j[k - 1].stamp) + w
  <2>1. CASE k <= n
    <3>1. k \in 1 .. n /\ (k # 1 => k - 1 \in 1 .. n)
      BY <1>6, <2>1
    <3>2. j[k] = s[k] /\ (k # 1 => j[k - 1] = s[k - 1])
      BY <1>6, <3>1
    <3>3. /\ s[k].stamp \in Nat /\ s[k].stamp <= b
          /\ s[k].stamp >= (IF k = 1 THEN a ELSE s[k - 1].stamp) + w
      BY <1>5, <3>1 DEF Run
    <3> QED
      BY <1>7, <3>2, <3>3
  <2>2. CASE k = n + 1
    <3>1. 1 \in 1 .. p /\ k \in n + 1 .. n + p /\ k - n = 1
      BY <1>6, <2>2
    <3>2. j[k] = t[1]
      BY <1>6, <3>1
    <3>3. t[1].stamp \in Nat /\ t[1].stamp <= c /\ t[1].stamp >= b + w
      BY <1>5, <3>1 DEF Run
    <3>4. k # 1 => j[k - 1].stamp \in Nat /\ j[k - 1].stamp <= b
      <4>1. k # 1 => k - 1 \in 1 .. n
        BY <1>6, <2>2
      <4> QED
        BY <1>5, <1>6, <4>1 DEF Run
    <3> QED
      BY <1>7, <3>2, <3>3, <3>4
  <2>3. CASE k > n + 1
    <3>1. /\ k - n \in 1 .. p /\ k - n # 1 /\ k \in n + 1 .. n + p /\ k - 1 \in n + 1 .. n + p
          /\ (k - 1) - n = (k - n) - 1 /\ k # 1
      BY <1>6, <2>3
    <3>2. j[k] = t[k - n] /\ j[k - 1] = t[(k - n) - 1]
      BY <1>6, <3>1
    <3>3. /\ t[k - n].stamp \in Nat /\ t[k - n].stamp <= c
          /\ t[k - n].stamp >= t[(k - n) - 1].stamp + w
      BY <1>5, <3>1 DEF Run
    <3> QED
      BY <3>1, <3>2, <3>3
  <2> QED
    BY <1>6, <2>1, <2>2, <2>3
<1>9. Listed(j)
  BY <1>6, Zenon DEF Listed
<1>10. Run(j, a, c, w)
  BY <1>6, <1>7, <1>8, <1>9 DEF Run
<1> QED
  BY <1>5, <1>10

LEMMA RunNone ==
  ASSUME NEW a \in Nat, NEW b \in Nat, a <= b, NEW w
  PROVE  Run(<<>>, a, b, w)
<1>1. PICK s, S : s = <<>> /\ S = {}
  OBVIOUS
<1>2. s \in Seq(S) /\ Len(s) = 0
  BY <1>1
<1>3. Listed(s)
  BY <1>2, Zenon DEF Listed
<1>4. Run(s, a, b, w)
  BY <1>2, <1>3 DEF Run
<1> QED
  BY <1>1, <1>4

LEMMA RunOne ==
  ASSUME NEW x, NEW lo \in Nat, NEW hi \in Nat, NEW w \in Nat, x.stamp \in Nat,
         lo + w <= x.stamp, x.stamp <= hi
  PROVE  Run(<<x>>, lo, hi, w)
<1>1. PICK s, S : s = <<x>> /\ S = {x}
  OBVIOUS
<1>2. s \in Seq(S) /\ Len(s) = 1 /\ s[1] = x
  BY <1>1
<1>3. Listed(s)
  BY <1>2, Zenon DEF Listed
<1>4. lo <= hi
  OBVIOUS
<1>5. Run(s, lo, hi, w)
  BY <1>2, <1>3, <1>4 DEF Run
<1> QED
  BY <1>1, <1>5

\* A wider spacing is also a narrower one.
LEMMA SpacingNarrows ==
  ASSUME NEW mode, NEW ops, NEW i \in Nat
  PROVE  /\ Spacing(mode, ops, i) \in {1, 2} /\ Spacing(mode, ops, i + 1) \in {1, 2}
         /\ Spacing(mode, ops, i + 1) <= Spacing(mode, ops, i)
<1>1. \A j \in 1 .. i - 1 : j \in 1 .. (i + 1) - 1
  OBVIOUS
<1> QED
  BY <1>1 DEF Spacing
-----------------------------------------------------------------------------
(* The invariant *)

\* FRC remembers the frame it took last.
Seen(st, x) == st.prev = NoFrame \/ (st.src = x /\ st.prev.stamp = x)

\* The frames in front of operator i are those between what has reached it and what it has
\* taken.
Passing(b, ops, mode, qs, fs) ==
  /\ b \in [1 .. Len(ops) + 1 -> Nat]
  /\ \A i \in 1 .. Len(ops) : /\ Run(qs[i], b[i + 1], b[i], Spacing(mode, ops, i))
                              /\ ops[i][1] = "frc" => Seen(fs[i], b[i + 1])

\* One frame after pack: being packed, queued, or on the wire.
Sending(last, pack, queued, sent) ==
  /\ last \in Nat /\ sent.stamp \in Nat /\ sent.stamp <= last
  /\ pack # Idle => queued = <<>> /\ pack.host.stamp = last /\ sent.stamp < last
  /\ queued # <<>> => \E m : /\ queued = <<m>> /\ m.stamp \in Nat
                             /\ sent.stamp < m.stamp /\ m.stamp <= last

OrderInv ==
  /\ chain = Composed(setup) /\ backs \in Nat
  /\ backs = 0 => \E b : /\ Passing(b, chain, setup.mode, q, frc) /\ b[1] = cap
                         /\ Sending(b[N + 1], packing, txq, tx)

LEMMA ChainIsSeq ==
  ASSUME GridInv, OrderInv
  PROVE  N \in Nat \ {0} /\ DOMAIN chain = 1 .. N /\ Op(N) = "pack"
BY ComposedIsSeq DEF GridInv, OrderInv, N, Op

LEMMA OrderStarts == ChainInit => OrderInv
<1> SUFFICES ASSUME ChainInit PROVE OrderInv
  OBVIOUS
<1>1. /\ setup \in Setups /\ chain = Composed(setup) /\ backs = 0 /\ cap = 0
      /\ q = [i \in DOMAIN chain |-> <<>>] /\ frc = [i \in DOMAIN chain |-> NoFrc]
      /\ packing = Idle /\ txq = <<>> /\ tx = NoFrame
  BY DEF ChainInit
<1>2. N \in Nat \ {0} /\ DOMAIN chain = 1 .. N
  BY <1>1, ComposedIsSeq DEF N
<1>3. PICK b : b = [i \in 1 .. N + 1 |-> 0]
  OBVIOUS
<1>4. Sending(b[N + 1], packing, txq, tx)
  BY <1>1, <1>2, <1>3 DEF Sending, NoFrame
<1>5. ASSUME NEW i \in 1 .. N
      PROVE  Run(q[i], b[i + 1], b[i], Spacing(setup.mode, chain, i)) /\ Seen(frc[i], b[i + 1])
  <2>1. q[i] = <<>> /\ frc[i] = NoFrc /\ b[i + 1] = 0 /\ b[i] = 0
    BY <1>1, <1>2, <1>3
  <2>2. Run(<<>>, 0, 0, Spacing(setup.mode, chain, i))
    BY RunNone
  <2> QED
    BY <2>1, <2>2 DEF Seen, NoFrc
<1>6. Passing(b, chain, setup.mode, q, frc)
  BY <1>2, <1>3, <1>5 DEF Passing, N
<1>7. b[1] = cap
  BY <1>1, <1>2, <1>3
<1> QED
  BY <1>1, <1>4, <1>6, <1>7 DEF OrderInv
-----------------------------------------------------------------------------
(* The steps *)

\* Operator i takes a frame and hands on what lies between that one and the one before.
LEMMA OrderHandsOn ==
  ASSUME GridInv, OrderInv, NEW i \in DOMAIN chain, i < N, q[i] # <<>>,
         UNCHANGED <<setup, chain, cap, backs, packing, txq, tx>>,
         NEW b, Passing(b, chain, setup.mode, q, frc), b[1] = cap,
         Sending(b[N + 1], packing, txq, tx),
         NEW out, Run(out, b[i + 1], Head(q[i]).stamp, Spacing(setup.mode, chain, i + 1)),
         q' = [q EXCEPT ![i] = Tail(@), ![i + 1] = @ \o out],
         \A j \in DOMAIN chain : j # i => frc'[j] = frc[j],
         Op(i) = "frc" => Seen(frc'[i], Head(q[i]).stamp)
  PROVE  OrderInv'
<1>1. N \in Nat \ {0} /\ DOMAIN chain = 1 .. N /\ DOMAIN q = 1 .. N
  BY ChainIsSeq DEF GridInv
<1>2. PICK n, m : n = N /\ m = Head(q[i])
  OBVIOUS
<1>3. i \in 1 .. n /\ i + 1 \in 1 .. n /\ n \in Nat /\ Len(chain) = n
  BY <1>1, <1>2 DEF N
<1>4. b \in [1 .. n + 1 -> Nat]
  BY <1>3 DEF Passing
<1>5. ASSUME NEW j \in 1 .. n
      PROVE  /\ Run(q[j], b[j + 1], b[j], Spacing(setup.mode, chain, j))
             /\ Op(j) = "frc" => Seen(frc[j], b[j + 1])
  BY <1>3 DEF Passing, Op
<1>6. /\ m.stamp \in Nat /\ m.stamp <= b[i]
      /\ Run(Tail(q[i]), m.stamp, b[i], Spacing(setup.mode, chain, i))
  <2>1. Run(q[i], b[i + 1], b[i], Spacing(setup.mode, chain, i))
    BY <1>3, <1>5
  <2>2. Spacing(setup.mode, chain, i) \in Nat
    BY DEF Spacing
  <2> QED
    BY <1>2, <2>1, <2>2, RunTail
<1>7. PICK c : c = [b EXCEPT ![i + 1] = m.stamp]
  OBVIOUS
<1>8. /\ c \in [1 .. n + 1 -> Nat] /\ c[i + 1] = m.stamp
      /\ \A j \in 1 .. n + 1 : j # i + 1 => c[j] = b[j]
  BY <1>3, <1>4, <1>6, <1>7
<1>9. c[1] = cap /\ c[n + 1] = b[n + 1]
  <2>1. 1 \in 1 .. n + 1 /\ 1 # i + 1 /\ n + 1 \in 1 .. n + 1 /\ n + 1 # i + 1
    BY <1>3
  <2> QED
    BY <1>8, <2>1
<1>10. ASSUME NEW j \in 1 .. n
       PROVE  /\ Run(q'[j], c[j + 1], c[j], Spacing(setup.mode, chain, j))
              /\ Op(j) = "frc" => Seen(frc'[j], c[j + 1])
  <2>1. CASE j = i
    <3>1. q'[j] = Tail(q[j]) /\ c[j + 1] = m.stamp /\ c[j] = b[j]
      BY <1>1, <1>2, <1>3, <1>8, <2>1
    <3> QED
      BY <1>2, <1>6, <2>1, <3>1
  <2>2. CASE j = i + 1
    <3>0. j + 1 \in 1 .. n + 1 /\ j + 1 # i + 1 /\ j # i
      BY <1>3, <2>2
    <3>1. q'[j] = q[j] \o out /\ c[j] = m.stamp /\ c[j + 1] = b[j + 1] /\ frc'[j] = frc[j]
      BY <1>1, <1>2, <1>3, <1>8, <2>2, <3>0
    <3>2. Run(q[j], b[j + 1], b[j], Spacing(setup.mode, chain, j))
      BY <1>5
    <3>3. Run(out, b[j], m.stamp, Spacing(setup.mode, chain, j))
      BY <1>2, <2>2
    <3>4. Spacing(setup.mode, chain, j) \in Nat
      BY DEF Spacing
    <3>5. Run(q[j] \o out, b[j + 1], m.stamp, Spacing(setup.mode, chain, j))
      BY <3>2, <3>3, <3>4, RunJoin
    <3> QED
      BY <1>5, <3>1, <3>5
  <2>3. CASE j # i /\ j # i + 1
    <3>1. q'[j] = q[j] /\ c[j] = b[j] /\ c[j + 1] = b[j + 1] /\ frc'[j] = frc[j]
      BY <1>1, <1>2, <1>3, <1>8, <2>3
    <3> QED
      BY <1>5, <3>1
  <2> QED
    BY <2>1, <2>2, <2>3
<1>11. Passing(c, chain, setup.mode, q', frc')
  BY <1>3, <1>8, <1>10 DEF Passing, Op
<1>12. Sending(c[N + 1], packing, txq, tx)
  BY <1>2, <1>9
<1> QED
  BY <1>2, <1>9, <1>11, <1>12 DEF OrderInv, N

\* What operator i takes is between what it has taken and what it has been given.
LEMMA OrderTaken ==
  ASSUME GridInv, OrderInv, NEW i \in DOMAIN chain, i < N, q[i] # <<>>,
         NEW b, Passing(b, chain, setup.mode, q, frc)
  PROVE  /\ b[i + 1] \in Nat /\ Head(q[i]).stamp \in Nat
         /\ Head(q[i]).stamp >= b[i + 1] + Spacing(setup.mode, chain, i)
         /\ Spacing(setup.mode, chain, i + 1) \in {1, 2}
         /\ Spacing(setup.mode, chain, i) \in {1, 2}
         /\ Spacing(setup.mode, chain, i + 1) <= Spacing(setup.mode, chain, i)
         /\ Op(i) = "frc" => Seen(frc[i], b[i + 1])
<1>1. i \in 1 .. N /\ i \in Nat /\ N = Len(chain) /\ i + 1 \in 1 .. N + 1
  BY ChainIsSeq DEF N
<1>2. /\ Run(q[i], b[i + 1], b[i], Spacing(setup.mode, chain, i)) /\ b[i + 1] \in Nat
      /\ Op(i) = "frc" => Seen(frc[i], b[i + 1])
  BY <1>1 DEF Passing, Op
<1>3. /\ Spacing(setup.mode, chain, i + 1) \in {1, 2} /\ Spacing(setup.mode, chain, i) \in {1, 2}
      /\ Spacing(setup.mode, chain, i + 1) <= Spacing(setup.mode, chain, i)
  BY <1>1, SpacingNarrows
<1>4. Head(q[i]).stamp \in Nat /\ Head(q[i]).stamp >= b[i + 1] + Spacing(setup.mode, chain, i)
  <2>1. PICK w \in Nat : w = Spacing(setup.mode, chain, i)
    BY <1>3
  <2>2. Run(q[i], b[i + 1], b[i], w)
    BY <1>2, <2>1
  <2> QED
    BY <2>1, <2>2, RunTail
<1> QED
  BY <1>2, <1>3, <1>4

LEMMA OrderUndone ==
  ASSUME OrderInv, UNCHANGED <<setup, chain, backs>>, backs # 0
  PROVE  OrderInv'
BY DEF OrderInv

\* One frame handed on with its own time.
LEMMA OrderSame ==
  ASSUME GridInv, OrderInv, NEW i \in DOMAIN chain, i < N, q[i] # <<>>,
         UNCHANGED <<setup, chain, cap, backs, packing, txq, tx>>,
         NEW x, x.stamp = Head(q[i]).stamp,
         q' = [q EXCEPT ![i] = Tail(@), ![i + 1] = @ \o <<x>>],
         \A j \in DOMAIN chain : j # i => frc'[j] = frc[j],
         Op(i) = "frc" => Seen(frc'[i], Head(q[i]).stamp)
  PROVE  OrderInv'
<1>1. CASE backs # 0
  BY <1>1, OrderUndone
<1>2. CASE backs = 0
  <2>1. PICK b : /\ Passing(b, chain, setup.mode, q, frc) /\ b[1] = cap
                 /\ Sending(b[N + 1], packing, txq, tx)
    BY <1>2 DEF OrderInv
  <2>2. PICK lo, hi, w : lo = b[i + 1] /\ hi = Head(q[i]).stamp
                         /\ w = Spacing(setup.mode, chain, i + 1)
    OBVIOUS
  <2>3. lo \in Nat /\ hi \in Nat /\ w \in Nat /\ lo + w <= hi
    <3>1. PICK v : v = Spacing(setup.mode, chain, i)
      OBVIOUS
    <3>2. lo \in Nat /\ hi \in Nat /\ hi >= lo + v /\ w \in {1, 2} /\ v \in {1, 2} /\ w <= v
      BY <2>1, <2>2, <3>1, OrderTaken
    <3> QED
      BY <3>2
  <2>4. x.stamp \in Nat /\ lo + w <= x.stamp /\ x.stamp <= hi
    BY <2>2, <2>3
  <2>5. Run(<<x>>, lo, hi, w)
    BY <2>3, <2>4, RunOne
  <2>6. PICK out : out = <<x>>
    OBVIOUS
  <2>7. Run(out, b[i + 1], Head(q[i]).stamp, Spacing(setup.mode, chain, i + 1))
    BY <2>2, <2>5, <2>6
  <2>8. q' = [q EXCEPT ![i] = Tail(@), ![i + 1] = @ \o out]
    BY <2>6
  <2> QED
    BY <2>1, <2>7, <2>8, OrderHandsOn
<1> QED
  BY <1>1, <1>2

LEMMA OrderFilter ==
  ASSUME GridInv, OrderInv, NEW i \in DOMAIN chain, Filter(i) \/ HandOn(i)
  PROVE  OrderInv'
<1>1. /\ q[i] # <<>> /\ i < N /\ Op(i) # "frc" /\ frc' = frc
      /\ UNCHANGED <<setup, chain, cap, backs, packing, txq, tx>>
  BY DEF Filter, HandOn, Ready, Compute
<1>2. PICK x : x.stamp = Head(q[i]).stamp
               /\ q' = [q EXCEPT ![i] = Tail(@), ![i + 1] = @ \o <<x>>]
  <2>1. CASE Filter(i)
    <3>1. PICK x : x = GpuFrame(Slot(i, 1), Head(q[i]).stamp)
      OBVIOUS
    <3>2. q' = [q EXCEPT ![i] = Tail(@), ![i + 1] = @ \o <<x>>]
      BY <2>1, <3>1 DEF Filter, Compute
    <3>3. x.stamp = Head(q[i]).stamp
      BY <3>1 DEF GpuFrame
    <3> QED
      BY <3>2, <3>3
  <2>2. CASE HandOn(i)
    BY <2>2 DEF HandOn, Compute
  <2> QED
    BY <2>1, <2>2
<1> QED
  BY <1>1, <1>2, OrderSame

LEMMA OrderPass ==
  ASSUME GridInv, OrderInv, NEW i \in DOMAIN chain, FrcPass(i)
  PROVE  OrderInv'
<1>1. /\ q[i] # <<>> /\ i < N
      /\ UNCHANGED <<setup, chain, cap, backs, packing, txq, tx>>
      /\ q' = [q EXCEPT ![i] = Tail(@), ![i + 1] = @ \o <<Head(q[i])>>]
      /\ frc' = [frc EXCEPT ![i] = [@ EXCEPT !.prev = Head(q[i]), !.src = Head(q[i]).stamp]]
  BY DEF FrcPass, Ready, Compute
<1>2. DOMAIN frc = DOMAIN chain /\ DOMAIN frc[i] = {"prev", "src", "next", "anchor", "ticks", "lost"}
  BY DEF GridInv, Memory
<1>3. /\ \A j \in DOMAIN chain : j # i => frc'[j] = frc[j]
      /\ frc'[i].prev = Head(q[i]) /\ frc'[i].src = Head(q[i]).stamp
  BY <1>1, <1>2
<1>4. Seen(frc'[i], Head(q[i]).stamp)
  BY <1>3 DEF Seen
<1> QED
  BY <1>1, <1>3, <1>4, OrderSame

\* The midpoint is after the first frame of its pair, and before the second if there is room.
LEMMA MidBetween ==
  ASSUME NEW p, NEW m, p.stamp \in Nat \ {0}, m.stamp \in Nat, p.stamp < m.stamp
  PROVE  /\ MidStamp(p, m) \in Nat /\ p.stamp < MidStamp(p, m) /\ MidStamp(p, m) <= m.stamp
         /\ p.stamp + 2 <= m.stamp => MidStamp(p, m) < m.stamp
<1>1. MidStamp(p, m) = m.stamp - (m.stamp - p.stamp) \div 2
  BY DEF MidStamp
<1>2. PICK d \in Nat : d = m.stamp - p.stamp
  OBVIOUS
<1>3. PICK e : e = d \div 2
  OBVIOUS
<1>4. e \in Nat /\ 2 * e <= d /\ d <= 2 * e + 1
  BY <1>2, <1>3, SMT
<1>5. MidStamp(p, m) = m.stamp - e
  BY <1>1, <1>2, <1>3
<1> QED
  BY <1>2, <1>4, <1>5

\* FRC doubles frames that have room for a midpoint, and what it hands on may be closer.
LEMMA FrcSpacing ==
  ASSUME Spaced, GridInv, OrderInv, NEW i \in DOMAIN chain, Op(i) = "frc"
  PROVE  /\ Spacing(setup.mode, chain, i + 1) = 1
         /\ setup.mode = "double" => Spacing(setup.mode, chain, i) = 2
<1>1. i \in 1 .. N /\ DOMAIN chain = 1 .. N /\ N \in Nat
  BY ChainIsSeq
<1>2. chain[i][1] = "frc" /\ i \in 1 .. (i + 1) - 1
  BY <1>1 DEF Op
<1>3. ASSUME setup.mode = "double", NEW j \in 1 .. i - 1 PROVE chain[j][1] # "frc"
  <2>1. j \in DOMAIN chain /\ j # i
    BY <1>1
  <2>2. chain = Composed(setup) /\ setup \in Setups
    BY DEF OrderInv, GridInv
  <2> QED
    BY <1>2, <1>3, <2>1, <2>2 DEF Spaced
<1> QED
  BY <1>2, <1>3 DEF Spacing

LEMMA RunTwo ==
  ASSUME NEW x, NEW y, NEW lo \in Nat, NEW hi \in Nat, x.stamp \in Nat, y.stamp = hi,
         lo < x.stamp, x.stamp < hi
  PROVE  Run(<<x, y>>, lo, hi, 1)
<1>1. PICK s, S : s = <<x, y>> /\ S = {x, y}
  OBVIOUS
<1>2. s \in Seq(S) /\ Len(s) = 2 /\ s[1] = x /\ s[2] = y
  BY <1>1
<1>3. Listed(s)
  BY <1>2, Zenon DEF Listed
<1>4. ASSUME NEW k \in 1 .. 2
      PROVE  /\ s[k].stamp \in Nat /\ s[k].stamp <= hi
             /\ s[k].stamp >= (IF k = 1 THEN lo ELSE s[k - 1].stamp) + 1
  <2>1. CASE k = 1
    BY <1>2, <2>1
  <2>2. CASE k = 2
    BY <1>2, <2>2
  <2> QED
    BY <2>1, <2>2
<1>5. Run(s, lo, hi, 1)
  BY <1>2, <1>3, <1>4 DEF Run
<1> QED
  BY <1>1, <1>5

LEMMA OrderMid ==
  ASSUME Spaced, GridInv, OrderInv, NEW i \in DOMAIN chain, FrcMid(i)
  PROVE  OrderInv'
<1>1. PICK m, p, mid :
        /\ m = Head(q[i]) /\ p = frc[i].prev /\ mid = GpuFrame(Slot(i, 1), MidStamp(p, m))
  OBVIOUS
<1>2. /\ q[i] # <<>> /\ i < N /\ Op(i) = "frc" /\ p # NoFrame
      /\ UNCHANGED <<setup, chain, cap, backs, packing, txq, tx>>
      /\ q' = [q EXCEPT ![i] = Tail(@),
                        ![i + 1] = @ \o (IF setup.mode = "double" THEN <<mid, m>> ELSE <<mid>>)]
      /\ frc' = [frc EXCEPT ![i] = [@ EXCEPT !.prev = m, !.src = m.stamp]]
  BY <1>1 DEF FrcMid, Ready, Compute
<1>3. DOMAIN frc = DOMAIN chain /\ DOMAIN frc[i] = {"prev", "src", "next", "anchor", "ticks", "lost"}
  BY DEF GridInv, Memory
<1>4. /\ \A j \in DOMAIN chain : j # i => frc'[j] = frc[j]
      /\ frc'[i].prev = m /\ frc'[i].src = m.stamp
  BY <1>2, <1>3
<1>5. Seen(frc'[i], Head(q[i]).stamp)
  BY <1>1, <1>4 DEF Seen
<1>6. CASE backs # 0
  BY <1>2, <1>6, OrderUndone
<1>7. CASE backs = 0
  <2>1. PICK b : /\ Passing(b, chain, setup.mode, q, frc) /\ b[1] = cap
                 /\ Sending(b[N + 1], packing, txq, tx)
    BY <1>7 DEF OrderInv
  <2>2. PICK lo, hi, v : lo = b[i + 1] /\ hi = m.stamp /\ v = Spacing(setup.mode, chain, i)
    OBVIOUS
  <2>3. /\ lo \in Nat /\ hi \in Nat /\ hi >= lo + v /\ v \in {1, 2} /\ p.stamp = lo
        /\ setup.mode = "double" => v = 2
    <3>1. setup.mode = "double" => v = 2
      BY <1>2, <2>2, FrcSpacing
    <3>2. Seen(frc[i], lo)
      BY <1>2, <2>1, <2>2, OrderTaken
    <3>3. p.stamp = lo
      BY <1>1, <1>2, <3>2 DEF Seen
    <3>4. lo \in Nat /\ hi \in Nat /\ hi >= lo + v /\ v \in {1, 2}
      BY <1>1, <1>2, <2>1, <2>2, OrderTaken
    <3> QED
      BY <3>1, <3>3, <3>4
  <2>4. lo # 0
    <3>1. Timed(p, high)
      BY <1>1, <1>2 DEF GridInv, Memory
    <3> QED
      BY <2>3, <3>1 DEF Timed
  <2>5. mid.stamp = MidStamp(p, m)
    BY <1>1 DEF GpuFrame
  <2>6. /\ mid.stamp \in Nat /\ lo < mid.stamp /\ mid.stamp <= hi
        /\ setup.mode = "double" => mid.stamp < hi
    <3>1. p.stamp \in Nat \ {0} /\ m.stamp \in Nat /\ p.stamp < m.stamp
      BY <2>2, <2>3, <2>4
    <3>2. /\ MidStamp(p, m) \in Nat /\ p.stamp < MidStamp(p, m) /\ MidStamp(p, m) <= m.stamp
          /\ p.stamp + 2 <= m.stamp => MidStamp(p, m) < m.stamp
      BY <3>1, MidBetween
    <3>3. setup.mode = "double" => p.stamp + 2 <= m.stamp
      BY <2>2, <2>3
    <3> QED
      BY <2>2, <2>3, <2>5, <3>2, <3>3
  <2>7. PICK out : out = IF setup.mode = "double" THEN <<mid, m>> ELSE <<mid>>
    OBVIOUS
  <2>8. Run(out, lo, hi, 1)
    <3>1. CASE setup.mode = "double"
      <4>1. Run(<<mid, m>>, lo, hi, 1)
        BY <2>2, <2>3, <2>6, <3>1, RunTwo
      <4> QED
        BY <2>7, <3>1, <4>1
    <3>2. CASE setup.mode # "double"
      <4>1. lo + 1 <= mid.stamp
        BY <2>3, <2>6
      <4>2. Run(<<mid>>, lo, hi, 1)
        BY <2>3, <2>6, <4>1, RunOne
      <4> QED
        BY <2>7, <3>2, <4>2
    <3> QED
      BY <3>1, <3>2
  <2>9. Run(out, b[i + 1], Head(q[i]).stamp, Spacing(setup.mode, chain, i + 1))
    BY <1>1, <1>2, <2>2, <2>8, FrcSpacing
  <2>10. q' = [q EXCEPT ![i] = Tail(@), ![i + 1] = @ \o out]
    BY <1>2, <2>7
  <2> QED
    BY <1>2, <1>4, <1>5, <2>1, <2>9, <2>10, OrderHandsOn
<1> QED
  BY <1>6, <1>7

LEMMA OrderUniform ==
  ASSUME Spaced, GridInv, OrderInv, NEW i \in DOMAIN chain, FrcUniform(i)
  PROVE  OrderInv'
<1>1. PICK m, st, grid, n, k :
        /\ m = Head(q[i]) /\ st = frc[i]
        /\ grid = Ticks(Interval, StallTicks * Interval, EmitBurst(setup.mode),
                        st.next, st.src, m.stamp)
        /\ n = Len(grid.out)
        /\ k = IF n > 0 /\ IsReal(grid.out[n], st.src, m.stamp) THEN n - 1 ELSE n
  OBVIOUS
<1>2. PICK out :
        out = [j \in 1 .. n |-> IF j <= k THEN GpuFrame(Slot(i, j), grid.out[j])
                                ELSE [m EXCEPT !.stamp = grid.out[n]]]
  OBVIOUS
<1>3. /\ q[i] # <<>> /\ i < N /\ Op(i) = "frc" /\ st.prev # NoFrame /\ m.stamp > st.src
      /\ UNCHANGED <<setup, chain, cap, backs, packing, txq, tx>>
      /\ q' = [q EXCEPT ![i] = Tail(@), ![i + 1] = @ \o out]
      /\ frc' = [frc EXCEPT ![i] =
           [prev |-> m, src |-> m.stamp, next |-> grid.next,
            anchor |-> IF st.next = 0 THEN m.stamp ELSE st.anchor,
            ticks |-> st.ticks + n, lost |-> st.lost + grid.lost]]
  BY <1>1, <1>2 DEF FrcUniform, Ready, Compute
<1>4. DOMAIN frc = DOMAIN chain
  BY DEF GridInv
<1>5. /\ \A j \in DOMAIN chain : j # i => frc'[j] = frc[j]
      /\ frc'[i].prev = m /\ frc'[i].src = m.stamp
  BY <1>3, <1>4
<1>6. Seen(frc'[i], Head(q[i]).stamp)
  BY <1>1, <1>5 DEF Seen
<1>7. /\ n \in Nat
      /\ \A j \in 1 .. n : grid.out[j] \in 1 .. m.stamp
                           /\ grid.out[j] > (IF j = 1 THEN st.src ELSE grid.out[j - 1])
  <2>1. Walked(grid, Interval, st.next, st.src, m.stamp)
    BY <1>1, <1>3, GridWalk
  <2> QED
    BY <1>1, <2>1 DEF Walked
<1>8. "stamp" \in DOMAIN m /\ m.stamp \in Nat /\ st.src \in Nat
  <2>1. Timed(m, high) /\ Memory(setup.mode, st, high)
    BY <1>1, <1>3, NextTimed DEF GridInv
  <2> QED
    BY <2>1 DEF Timed, Memory
<1>9. k \in {n - 1, n}
  BY <1>1
<1>10. ASSUME NEW j \in 1 .. n PROVE out[j].stamp = grid.out[j]
  <2>1. CASE j <= k
    <3>1. out[j] = GpuFrame(Slot(i, j), grid.out[j])
      BY <1>2, <2>1
    <3> QED
      BY <3>1 DEF GpuFrame
  <2>2. CASE ~(j <= k)
    <3>1. out[j] = [m EXCEPT !.stamp = grid.out[n]]
      BY <1>2, <2>2
    <3>2. j = n
      BY <1>7, <1>9, <2>2
    <3> QED
      BY <1>8, <3>1, <3>2
  <2> QED
    BY <2>1, <2>2
<1>11. Listed(out) /\ Len(out) = n
  <2>1. PICK S : S = {out[j] : j \in 1 .. n}
    OBVIOUS
  <2>2. out = [j \in 1 .. n |-> out[j]]
    BY <1>2
  <2>3. out \in Seq(S) /\ Len(out) = n
    BY <1>7, <2>1, <2>2
  <2> QED
    BY <2>3, Zenon DEF Listed
<1>12. Run(out, st.src, m.stamp, 1)
  <2>1. PICK g : g = grid.out
    OBVIOUS
  <2>2. ASSUME NEW j \in 1 .. n
        PROVE  /\ out[j].stamp \in Nat /\ out[j].stamp <= m.stamp
               /\ out[j].stamp >= (IF j = 1 THEN st.src ELSE out[j - 1].stamp) + 1
    <3>1. g[j] \in 1 .. m.stamp /\ g[j] > (IF j = 1 THEN st.src ELSE g[j - 1])
      BY <1>7, <2>1
    <3>2. j # 1 => j - 1 \in 1 .. n
      BY <1>7
    <3>3. out[j].stamp = g[j] /\ (j # 1 => out[j - 1].stamp = g[j - 1] /\ g[j - 1] \in 1 .. m.stamp)
      BY <1>7, <1>10, <2>1, <3>2
    <3> QED
      BY <1>8, <3>1, <3>3
  <2>3. st.src <= m.stamp
    BY <1>3, <1>8
  <2> QED
    BY <1>8, <1>11, <2>2, <2>3 DEF Run
<1>13. CASE backs # 0
  BY <1>3, <1>13, OrderUndone
<1>14. CASE backs = 0
  <2>1. PICK b : /\ Passing(b, chain, setup.mode, q, frc) /\ b[1] = cap
                 /\ Sending(b[N + 1], packing, txq, tx)
    BY <1>14 DEF OrderInv
  <2>2. Seen(st, b[i + 1])
    BY <1>1, <1>3, <2>1, OrderTaken
  <2>3. st.src = b[i + 1]
    BY <1>3, <2>2 DEF Seen
  <2>4. Run(out, b[i + 1], Head(q[i]).stamp, Spacing(setup.mode, chain, i + 1))
    BY <1>1, <1>3, <1>12, <2>3, FrcSpacing
  <2> QED
    BY <1>3, <1>5, <1>6, <2>1, <2>4, OrderHandsOn
<1> QED
  BY <1>13, <1>14

\* A received frame is further on than the last one.
LEMMA OrderReceive ==
  ASSUME Spaced, GridInv, OrderInv, NEW gap \in setup.gaps, Receive(gap)
  PROVE  OrderInv'
<1>1. /\ q[1] = <<>> /\ cap' = cap + gap /\ cap + gap > 0
      /\ backs' = IF gap < 0 THEN backs + 1 ELSE backs
      /\ q' = [q EXCEPT ![1] = <<[NoFrame EXCEPT !.stamp = cap + gap]>>]
      /\ UNCHANGED <<setup, chain, frc, packing, txq, tx>>
  BY DEF Receive
<1>2. /\ cap \in Nat /\ setup \in Setups /\ DOMAIN q = DOMAIN chain
      /\ gap \in Int /\ gap # 0 /\ (setup.mode = "double" => gap # 1)
  BY ChainConstants DEF GridInv, Spaced
<1>3. backs \in Nat /\ backs' \in Nat
  BY <1>1 DEF OrderInv
<1>4. CASE gap < 0
  <2>1. backs' # 0
    BY <1>1, <1>3, <1>4
  <2> QED
    BY <1>1, <1>3, <2>1 DEF OrderInv
<1>5. CASE backs # 0
  <2>1. backs' # 0
    BY <1>1, <1>3, <1>5
  <2> QED
    BY <1>1, <1>3, <2>1 DEF OrderInv
<1>6. CASE ~(gap < 0) /\ backs = 0
  <2>1. PICK b : /\ Passing(b, chain, setup.mode, q, frc) /\ b[1] = cap
                 /\ Sending(b[N + 1], packing, txq, tx)
    BY <1>6 DEF OrderInv
  <2>2. PICK n, x : n = N /\ x = [NoFrame EXCEPT !.stamp = cap + gap]
    OBVIOUS
  <2>3. n \in Nat \ {0} /\ DOMAIN chain = 1 .. n /\ Len(chain) = n
    BY <2>2, ChainIsSeq DEF N
  <2>4. b \in [1 .. n + 1 -> Nat]
    BY <2>1, <2>3 DEF Passing
  <2>5. ASSUME NEW j \in 1 .. n
        PROVE  /\ Run(q[j], b[j + 1], b[j], Spacing(setup.mode, chain, j))
               /\ Op(j) = "frc" => Seen(frc[j], b[j + 1])
    BY <2>1, <2>3 DEF Passing, Op
  <2>6. PICK c : c = [b EXCEPT ![1] = cap + gap]
    OBVIOUS
  <2>7. /\ c \in [1 .. n + 1 -> Nat] /\ c[1] = cap + gap
        /\ \A j \in 1 .. n : c[j + 1] = b[j + 1] /\ (j # 1 => c[j] = b[j])
    <3>1. 1 \in 1 .. n + 1 /\ \A j \in 1 .. n : j \in 1 .. n + 1 /\ j + 1 \in 1 .. n + 1 /\ j + 1 # 1
      BY <2>3
    <3>2. cap + gap \in Nat
      BY <1>1, <1>2
    <3> QED
      BY <2>4, <2>6, <3>1, <3>2
  <2>8. Run(<<x>>, b[2], cap + gap, Spacing(setup.mode, chain, 1))
    <3>1. PICK lo, hi, w : lo = b[2] /\ hi = cap + gap /\ w = Spacing(setup.mode, chain, 1)
      OBVIOUS
    <3>2. 1 \in 1 .. n /\ 1 + 1 = 2
      BY <2>3
    <3>3. Run(q[1], lo, cap, w)
      BY <2>1, <2>5, <3>1, <3>2
    <3>4. lo \in Nat /\ lo <= cap
      BY <3>3 DEF Run
    <3>5. w \in {1, 2} /\ (w = 2 => setup.mode = "double")
      BY <3>1 DEF Spacing
    <3>6. gap >= w
      BY <1>2, <1>6, <3>5
    <3>7. x.stamp = hi
      BY <2>2, <3>1 DEF NoFrame
    <3>8. hi \in Nat /\ w \in Nat /\ lo + w <= hi
      BY <1>2, <3>1, <3>4, <3>5, <3>6
    <3>9. Run(<<x>>, lo, hi, w)
      BY <3>4, <3>7, <3>8, RunOne
    <3> QED
      BY <3>1, <3>9
  <2>9. ASSUME NEW j \in 1 .. n
        PROVE  /\ Run(q'[j], c[j + 1], c[j], Spacing(setup.mode, chain, j))
               /\ Op(j) = "frc" => Seen(frc[j], c[j + 1])
    <3>1. CASE j = 1
      <4>1. q'[j] = <<x>>
        BY <1>1, <1>2, <2>2, <2>3, <3>1
      <4>2. j + 1 = 2
        BY <3>1
      <4>3. c[j + 1] = b[2] /\ c[j] = cap + gap
        BY <2>7, <3>1, <4>2
      <4>4. c[j + 1] = b[j + 1]
        BY <2>7
      <4> QED
        BY <2>5, <2>8, <3>1, <4>1, <4>3, <4>4
    <3>2. CASE j # 1
      <4>1. q'[j] = q[j] /\ c[j + 1] = b[j + 1] /\ c[j] = b[j]
        BY <1>1, <1>2, <2>3, <2>7, <3>2
      <4> QED
        BY <2>5, <4>1
    <3> QED
      BY <3>1, <3>2
  <2>10. Passing(c, chain, setup.mode, q', frc)
    BY <2>3, <2>7, <2>9 DEF Passing, Op
  <2>11. Sending(c[N + 1], packing, txq, tx)
    <3>1. n \in 1 .. n
      BY <2>3
    <3> QED
      BY <2>1, <2>2, <2>7, <3>1
  <2>12. c[1] = cap'
    BY <1>1, <2>7
  <2> QED
    BY <1>1, <1>3, <2>10, <2>11, <2>12 DEF OrderInv, N
<1> QED
  BY <1>4, <1>5, <1>6

\* PackOp takes a frame, packs it, and hands it to TX.
LEMMA OrderPack ==
  ASSUME GridInv, OrderInv, PackLaunch
  PROVE  OrderInv'
<1>1. PICK m, host : /\ q[N] # <<>> /\ packing = Idle /\ txq = <<>>
                     /\ m = Head(q[N]) /\ host.stamp = m.stamp
                     /\ packing' = [src |-> m, host |-> host]
                     /\ q' = [q EXCEPT ![N] = Tail(@)]
                     /\ UNCHANGED <<setup, chain, frc, txq, tx, cap, backs>>
  <2>1. /\ packing' = [src |-> Head(q[N]), host |-> packing'.host]
        /\ packing'.host.stamp = Head(q[N]).stamp
    BY DEF PackLaunch, GpuFrame
  <2>2. /\ q[N] # <<>> /\ packing = Idle /\ txq = <<>> /\ q' = [q EXCEPT ![N] = Tail(@)]
        /\ UNCHANGED <<setup, chain, frc, txq, tx, cap, backs>>
    BY DEF PackLaunch
  <2> QED
    BY <2>1, <2>2
<1>2. CASE backs # 0
  BY <1>1, <1>2, OrderUndone
<1>3. CASE backs = 0
  <2>1. PICK b : /\ Passing(b, chain, setup.mode, q, frc) /\ b[1] = cap
                 /\ Sending(b[N + 1], packing, txq, tx)
    BY <1>3 DEF OrderInv
  <2>2. PICK n : n = N
    OBVIOUS
  <2>3. n \in Nat \ {0} /\ DOMAIN chain = 1 .. n /\ Len(chain) = n /\ DOMAIN q = 1 .. n
        /\ Op(n) = "pack"
    BY <2>2, ChainIsSeq DEF N, GridInv
  <2>4. b \in [1 .. n + 1 -> Nat]
    BY <2>1, <2>3 DEF Passing
  <2>5. ASSUME NEW j \in 1 .. n
        PROVE  /\ Run(q[j], b[j + 1], b[j], Spacing(setup.mode, chain, j))
               /\ Op(j) = "frc" => Seen(frc[j], b[j + 1])
    BY <2>1, <2>3 DEF Passing, Op
  <2>6. /\ m.stamp \in Nat /\ b[n + 1] \in Nat /\ m.stamp >= b[n + 1] + 1
        /\ Run(Tail(q[n]), m.stamp, b[n], Spacing(setup.mode, chain, n))
    <3>1. PICK w : w = Spacing(setup.mode, chain, n)
      OBVIOUS
    <3>2. w \in {1, 2} /\ w \in Nat
      BY <3>1 DEF Spacing
    <3>3. Run(q[n], b[n + 1], b[n], w) /\ q[n] # <<>>
      BY <1>1, <2>2, <2>3, <2>5, <3>1
    <3>4. /\ Head(q[n]).stamp \in Nat /\ Head(q[n]).stamp >= b[n + 1] + w
          /\ Run(Tail(q[n]), Head(q[n]).stamp, b[n], w)
      BY <3>2, <3>3, RunTail
    <3>5. b[n + 1] \in Nat
      BY <3>3 DEF Run
    <3> QED
      BY <1>1, <2>2, <3>1, <3>2, <3>4, <3>5
  <2>7. PICK c : c = [b EXCEPT ![n + 1] = m.stamp]
    OBVIOUS
  <2>8. /\ c \in [1 .. n + 1 -> Nat] /\ c[n + 1] = m.stamp
        /\ \A j \in 1 .. n : c[j] = b[j] /\ (j # n => c[j + 1] = b[j + 1])
    <3>1. \A j \in 1 .. n : j \in 1 .. n + 1 /\ j + 1 \in 1 .. n + 1 /\ j # n + 1
                            /\ (j # n => j + 1 # n + 1)
      BY <2>3
    <3>2. n + 1 \in 1 .. n + 1
      BY <2>3
    <3> QED
      BY <2>4, <2>6, <2>7, <3>1, <3>2
  <2>9. ASSUME NEW j \in 1 .. n
        PROVE  /\ Run(q'[j], c[j + 1], c[j], Spacing(setup.mode, chain, j))
               /\ Op(j) = "frc" => Seen(frc[j], c[j + 1])
    <3>1. CASE j = n
      <4>1. q'[j] = Tail(q[n]) /\ c[j + 1] = m.stamp /\ c[j] = b[n]
        BY <1>1, <2>2, <2>3, <2>8, <3>1
      <4> QED
        BY <2>3, <2>6, <3>1, <4>1
    <3>2. CASE j # n
      <4>1. q'[j] = q[j] /\ c[j + 1] = b[j + 1] /\ c[j] = b[j]
        BY <1>1, <2>2, <2>3, <2>8, <3>2
      <4> QED
        BY <2>5, <4>1
    <3> QED
      BY <3>1, <3>2
  <2>10. Passing(c, chain, setup.mode, q', frc)
    BY <2>3, <2>8, <2>9 DEF Passing, Op
  <2>11. Sending(m.stamp, packing', txq, tx)
    <3>1. tx.stamp \in Nat /\ tx.stamp <= b[n + 1]
      BY <2>1, <2>2 DEF Sending
    <3>2. tx.stamp < m.stamp /\ tx.stamp <= m.stamp
      BY <2>6, <3>1
    <3> QED
      BY <1>1, <2>6, <3>1, <3>2 DEF Sending
  <2>12. c[1] = cap
    BY <2>1, <2>3, <2>8
  <2> QED
    BY <1>1, <2>2, <2>8, <2>10, <2>11, <2>12 DEF OrderInv, N
<1> QED
  BY <1>2, <1>3

LEMMA OrderSending ==
  ASSUME OrderInv, UNCHANGED <<setup, chain, q, frc, cap, backs>>,
         \A x : Sending(x, packing, txq, tx) => Sending(x, packing', txq', tx')
  PROVE  OrderInv'
<1>1. CASE backs # 0
  BY <1>1, OrderUndone
<1>2. CASE backs = 0
  <2>1. PICK b : /\ Passing(b, chain, setup.mode, q, frc) /\ b[1] = cap
                 /\ Sending(b[N + 1], packing, txq, tx)
    BY <1>2 DEF OrderInv
  <2>2. Sending(b[N + 1], packing', txq', tx')
    BY <2>1
  <2> QED
    BY <2>1, <2>2 DEF OrderInv, N
<1> QED
  BY <1>1, <1>2

LEMMA OrderSends ==
  ASSUME OrderInv, PackEmit \/ TxTake \/ TxSent
  PROVE  OrderInv'
<1>1. CASE PackEmit
  <2>1. /\ packing # Idle /\ txq' = Append(txq, packing.host) /\ packing' = Idle
        /\ UNCHANGED <<setup, chain, q, frc, cap, backs, tx>>
    BY <1>1 DEF PackEmit
  <2>2. ASSUME NEW x, Sending(x, packing, txq, tx) PROVE Sending(x, packing', txq', tx')
    <3>1. /\ x \in Nat /\ tx.stamp \in Nat /\ tx.stamp <= x /\ txq = <<>>
          /\ packing.host.stamp = x /\ tx.stamp < x
      BY <2>1, <2>2 DEF Sending
    <3>2. txq' = <<packing.host>>
      BY <2>1, <3>1
    <3> QED
      BY <2>1, <3>1, <3>2 DEF Sending
  <2> QED
    BY <2>1, <2>2, OrderSending
<1>2. CASE TxTake
  <2>1. /\ txq # <<>> /\ tx' = Head(txq) /\ txq' = Tail(txq)
        /\ UNCHANGED <<setup, chain, q, frc, cap, backs, packing>>
    BY <1>2 DEF TxTake
  <2>2. ASSUME NEW x, Sending(x, packing, txq, tx) PROVE Sending(x, packing', txq', tx')
    <3>1. PICK m : /\ txq = <<m>> /\ m.stamp \in Nat /\ tx.stamp < m.stamp /\ m.stamp <= x
                   /\ x \in Nat /\ packing = Idle
      BY <2>1, <2>2 DEF Sending
    <3>2. tx' = m /\ txq' = <<>>
      BY <2>1, <3>1
    <3> QED
      BY <2>1, <3>1, <3>2 DEF Sending
  <2> QED
    BY <2>1, <2>2, OrderSending
<1>3. CASE TxSent
  <2>1. /\ tx' = [NoFrame EXCEPT !.stamp = tx.stamp]
        /\ UNCHANGED <<setup, chain, q, frc, cap, backs, packing, txq>>
    BY <1>3 DEF TxSent
  <2>2. tx'.stamp = tx.stamp
    BY <2>1 DEF NoFrame
  <2>3. ASSUME NEW x, Sending(x, packing, txq, tx) PROVE Sending(x, packing', txq', tx')
    BY <2>1, <2>2, <2>3 DEF Sending
  <2> QED
    BY <2>1, <2>3, OrderSending
<1> QED
  BY <1>1, <1>2, <1>3

LEMMA OrderStays ==
  ASSUME Spaced, GridInv, OrderInv, [ChainNext]_chainVars
  PROVE  OrderInv'
<1>1. CASE UNCHANGED <<setup, chain, q, frc, cap, backs, packing, txq, tx>>
  BY <1>1, OrderSending
<1>2. ASSUME NEW i \in DOMAIN chain, Operator(i) PROVE OrderInv'
  BY <1>2, OrderFilter, OrderPass, OrderMid, OrderUniform DEF Operator
<1>3. ASSUME NEW gap \in setup.gaps, Receive(gap) PROVE OrderInv'
  BY <1>3, OrderReceive
<1>4. ASSUME NEW i \in DOMAIN chain, KernelRuns(i) PROVE OrderInv'
  <2>1. UNCHANGED <<setup, chain, q, frc, cap, backs, packing, txq, tx>>
    BY <1>4 DEF KernelRuns
  <2> QED
    BY <1>1, <2>1
<1>5. UNCHANGED chainVars => UNCHANGED <<setup, chain, q, frc, cap, backs, packing, txq, tx>>
  BY DEF chainVars
<1> QED
  BY <1>1, <1>2, <1>3, <1>4, <1>5, OrderPack, OrderSends DEF ChainNext

\* The frames on the wire have increasing times (frc.cpp, the times FRC gives
\* and the queues between the operators): with room for a midpoint where the rate is doubled, no frame is
\* sent with the time of another, or an earlier one, as long as the capture times advance.
THEOREM TimesIncrease == Spaced => (ChainSpec => WireIncreases)
<1> SUFFICES ASSUME Spaced PROVE ChainSpec => WireIncreases
  OBVIOUS
<1>1. OrderInv /\ [ChainNext]_chainVars => [(tx.ver = 0 /\ tx'.ver > 0 /\ backs = 0) => tx'.stamp > tx.stamp]_chainVars
  <2> SUFFICES ASSUME OrderInv, ChainNext, tx.ver = 0, tx'.ver > 0, backs = 0
               PROVE  tx'.stamp > tx.stamp
    OBVIOUS
  <2>1. tx' # tx
    OBVIOUS
  <2>2. CASE TxTake
    <3>1. txq # <<>> /\ tx' = Head(txq)
      BY <2>2 DEF TxTake
    <3>2. PICK x : Sending(x, packing, txq, tx)
      BY DEF OrderInv
    <3>3. PICK m : txq = <<m>> /\ m.stamp \in Nat /\ tx.stamp < m.stamp /\ tx.stamp \in Nat
      BY <3>1, <3>2 DEF Sending
    <3>4. tx' = m
      BY <3>1, <3>3
    <3> QED
      BY <3>3, <3>4
  <2>3. CASE TxSent
    BY <2>3 DEF TxSent, NoFrame
  <2>4. CASE PackLaunch \/ PackEmit
    BY <2>1, <2>4 DEF PackLaunch, PackEmit
  <2>5. ASSUME NEW gap, Receive(gap) PROVE FALSE
    BY <2>1, <2>5 DEF Receive
  <2>6. ASSUME NEW i, KernelRuns(i) PROVE FALSE
    BY <2>1, <2>6 DEF KernelRuns
  <2>7. ASSUME NEW i, Operator(i) PROVE FALSE
    <3>1. tx' = tx
      BY <2>7 DEF Operator, Filter, HandOn, FrcPass, FrcMid, FrcUniform, Compute
    <3> QED
      BY <2>1, <3>1
  <2> QED
    BY <2>2, <2>3, <2>4, <2>5, <2>6, <2>7 DEF ChainNext
<1>2. ChainSpec => [](GridInv /\ OrderInv)
  BY GridStarts, GridStays, OrderStarts, OrderStays, PTL DEF ChainSpec
<1>3. ChainSpec => [][(tx.ver = 0 /\ tx'.ver > 0 /\ backs = 0) => tx'.stamp > tx.stamp]_chainVars
  BY <1>1, <1>2, PTL DEF ChainSpec
<1> QED
  BY <1>3 DEF WireIncreases
-----------------------------------------------------------------------------
(* The host buffers of pack *)

\* Kernels that write the pool of operator i.
Into(s, i) == \E S : s \in Seq(S) /\ \A c \in S : c.dst[1] = i

LEMMA IntoTail ==
  ASSUME NEW s, NEW i, Into(s, i), s # <<>>
  PROVE  Head(s).dst[1] = i /\ Into(Tail(s), i)
<1>1. PICK S : s \in Seq(S) /\ \A c \in S : c.dst[1] = i
  BY DEF Into
<1>2. Head(s) \in S /\ Tail(s) \in Seq(S)
  BY <1>1, HeadTailProperties
<1> QED
  BY <1>1, <1>2, Zenon DEF Into

LEMMA IntoJoin ==
  ASSUME NEW s, NEW t, NEW i, Into(s, i), Into(t, i)
  PROVE  Into(s \o t, i)
<1>1. PICK S : s \in Seq(S) /\ \A c \in S : c.dst[1] = i
  BY DEF Into
<1>2. PICK T : t \in Seq(T) /\ \A c \in T : c.dst[1] = i
  BY DEF Into
<1>3. PICK U : U = S \cup T
  OBVIOUS
<1>4. s \in Seq(U) /\ t \in Seq(U) /\ \A c \in U : c.dst[1] = i
  BY <1>1, <1>2, <1>3
<1>5. s \o t \in Seq(U)
  BY <1>4, ConcatProperties
<1> QED
  BY <1>4, <1>5, Zenon DEF Into

LEMMA IntoOf ==
  ASSUME NEW n \in Nat, NEW i, NEW s, s = [k \in 1 .. n |-> s[k]],
         \A k \in 1 .. n : s[k].dst[1] = i
  PROVE  Into(s, i)
<1>1. PICK S : S = {s[k] : k \in 1 .. n}
  OBVIOUS
<1>2. s \in Seq(S) /\ \A c \in S : c.dst[1] = i
  BY <1>1
<1> QED
  BY <1>2, Zenon DEF Into

LEMMA IntoNone ==
  ASSUME NEW i
  PROVE  Into(<<>>, i)
<1>1. PICK s, S : s = <<>> /\ S = {}
  OBVIOUS
<1>2. s \in Seq(S) /\ \A c \in S : c.dst[1] = i
  BY <1>1
<1>3. Into(s, i)
  BY <1>2, Zenon DEF Into
<1> QED
  BY <1>1, <1>3

\* A frame in host buffer s that has been packed.
Whole(m, n, la, wr) ==
  \E s \in 0 .. MaxHosts : /\ m.buf = <<n, s>> /\ m.ver \in Nat \ {0}
                           /\ la[<<n, s>>] = m.ver /\ wr[<<n, s>>] = m.ver

\* A frame the host buffer holds, or will hold once the only kernel of pack has run.
Packing(pk, n, la, wr, ss) ==
  \E s \in 0 .. MaxHosts : \E R :
    /\ pk.host.buf = <<n, s>> /\ pk.host.ver \in Nat \ {0} /\ la[<<n, s>>] = pk.host.ver
    /\ \/ ss = <<>> /\ wr[<<n, s>>] = pk.host.ver
       \/ ss = <<[dst |-> <<n, s>>, reads |-> R]>> /\ wr[<<n, s>>] + 1 = pk.host.ver

\* Buffers of pack that no kernel of it is going to write.
Settled(n, la, wr, b) == \A s \in 0 .. MaxHosts : <<n, s>> # b => la[<<n, s>>] = wr[<<n, s>>]

HostInv ==
  /\ setup \in Setups /\ chain = Composed(setup)
  /\ hosts \in Nat \ {0} /\ (hosts <= Hosts \/ hosts <= 2)
  /\ DOMAIN slot = DOMAIN chain /\ slot[N] \in Nat
  /\ launched \in [Buffers(chain) -> Nat] /\ written \in [Buffers(chain) -> Nat]
  /\ DOMAIN stream = DOMAIN chain
  /\ \A i \in DOMAIN chain : i < N => Into(stream[i], i)
  /\ Settled(N, launched, written, packing.host.buf)
  /\ packing = Idle => stream[N] = <<>>
  /\ packing # Idle => /\ Packing(packing, N, launched, written, stream[N])
                       /\ txq = <<>> /\ packing.host.buf # tx.buf
  /\ txq # <<>> => \E m : txq = <<m>> /\ Whole(m, N, launched, written) /\ m.buf # tx.buf
  /\ \/ tx.ver = 0 /\ tx.buf = <<0, 0>>
     \/ Whole(tx, N, launched, written)

LEMMA HostConstants == Hosts \in Nat \ {0} /\ Ring \in Nat \ {0} /\ FrcSpare \in Nat
BY ChainAssumption

\* The buffers of the operators before pack, and those of pack.
LEMMA BufferNames ==
  ASSUME NEW ops
  PROVE  /\ \A s \in 0 .. MaxHosts : <<Len(ops), s>> \in Buffers(ops)
         /\ \A i \in 1 .. Len(ops) - 1, s \in 0 .. Ring + 8 + FrcSpare : <<i, s>> \in Buffers(ops)
<1>1. PICK n, P, R : n = Len(ops) /\ P = 0 .. MaxHosts /\ R = 0 .. Ring + 8 + FrcSpare
  OBVIOUS
<1>2. Buffers(ops) = {<<i, s>> : i \in 1 .. n - 1, s \in R} \cup {<<n, s>> : s \in P}
  BY <1>1 DEF Buffers
<1>3. \A s \in P : <<n, s>> \in {<<n, z>> : z \in P}
  OBVIOUS
<1>4. \A i \in 1 .. n - 1, s \in R : <<i, s>> \in {<<y, z>> : y \in 1 .. n - 1, z \in R}
  OBVIOUS
<1> QED
  BY <1>1, <1>2, <1>3, <1>4

LEMMA HostBuffers ==
  ASSUME HostInv
  PROVE  /\ N \in Nat \ {0} /\ N \in DOMAIN chain /\ DOMAIN chain = 1 .. N
         /\ \A s \in 0 .. MaxHosts : <<N, s>> \in Buffers(chain)
<1>1. N \in Nat \ {0} /\ N \in DOMAIN chain /\ DOMAIN chain = 1 .. N
  BY ComposedIsSeq DEF HostInv, N
<1> QED
  BY <1>1, BufferNames DEF N

LEMMA HostStarts == ChainInit => HostInv
<1> SUFFICES ASSUME ChainInit PROVE HostInv
  OBVIOUS
<1>1. /\ setup \in Setups /\ chain = Composed(setup)
      /\ slot = [i \in DOMAIN chain |-> 0] /\ stream = [i \in DOMAIN chain |-> <<>>]
      /\ launched = [b \in Buffers(chain) |-> 0] /\ written = [b \in Buffers(chain) |-> 0]
      /\ packing = Idle /\ hosts = Hosts /\ txq = <<>> /\ tx = NoFrame
  BY DEF ChainInit
<1>2. N \in Nat \ {0} /\ N \in DOMAIN chain /\ DOMAIN chain = 1 .. N
  BY <1>1, ComposedIsSeq DEF N
<1>3. \A s \in 0 .. MaxHosts : <<N, s>> \in Buffers(chain)
  BY BufferNames DEF N
<1>4. Settled(N, launched, written, packing.host.buf)
  BY <1>1, <1>3 DEF Settled
<1>5. \A i \in DOMAIN chain : Into(stream[i], i)
  BY <1>1, IntoNone
<1>6. /\ launched \in [Buffers(chain) -> Nat] /\ written \in [Buffers(chain) -> Nat]
      /\ DOMAIN slot = DOMAIN chain /\ slot[N] \in Nat /\ DOMAIN stream = DOMAIN chain
      /\ stream[N] = <<>>
  BY <1>1, <1>2
<1>7. tx.ver = 0 /\ tx.buf = <<0, 0>>
  BY <1>1 DEF NoFrame
<1> QED
  BY <1>1, <1>4, <1>5, <1>6, <1>7, HostConstants DEF HostInv

\* A step that leaves pack, its buffers and TX alone.
LEMMA HostElse ==
  ASSUME HostInv, UNCHANGED <<setup, chain, packing, hosts, txq, tx>>,
         DOMAIN slot' = DOMAIN chain, slot'[N] = slot[N],
         DOMAIN stream' = DOMAIN chain, stream'[N] = stream[N],
         \A i \in DOMAIN chain : i < N => Into(stream'[i], i),
         launched' \in [Buffers(chain) -> Nat], written' \in [Buffers(chain) -> Nat],
         \A s \in 0 .. MaxHosts :
           launched'[<<N, s>>] = launched[<<N, s>>] /\ written'[<<N, s>>] = written[<<N, s>>]
  PROVE  HostInv'
<1>1. N' = N
  BY DEF N
<1>2. ASSUME NEW b, Settled(N, launched, written, b) PROVE Settled(N, launched', written', b)
  BY <1>2 DEF Settled
<1>3. ASSUME NEW m, Whole(m, N, launched, written) PROVE Whole(m, N, launched', written')
  BY <1>3 DEF Whole
<1>4. ASSUME NEW ss, Packing(packing, N, launched, written, ss)
      PROVE  Packing(packing, N, launched', written', ss)
  BY <1>4 DEF Packing
<1>5. /\ setup \in Setups /\ chain = Composed(setup)
      /\ hosts \in Nat \ {0} /\ (hosts <= Hosts \/ hosts <= 2) /\ slot[N] \in Nat
  BY DEF HostInv
<1>6. /\ Settled(N, launched', written', packing.host.buf)
      /\ packing = Idle => stream[N] = <<>>
      /\ packing # Idle => /\ Packing(packing, N, launched', written', stream[N])
                           /\ txq = <<>> /\ packing.host.buf # tx.buf
      /\ \/ tx.ver = 0 /\ tx.buf = <<0, 0>>
         \/ Whole(tx, N, launched', written')
  BY <1>2, <1>3, <1>4 DEF HostInv
<1>7. txq # <<>> => \E m : txq = <<m>> /\ Whole(m, N, launched', written') /\ m.buf # tx.buf
  BY <1>3 DEF HostInv
<1> QED
  BY <1>1, <1>5, <1>6, <1>7 DEF HostInv

LEMMA HostCompute ==
  ASSUME HostInv, NEW i \in DOMAIN chain, i < N, NEW n \in Nat, NEW dsts,
         dsts = [k \in 1 .. n |-> dsts[k]], \A k \in 1 .. n : dsts[k][1] = i,
         NEW reads, NEW out, Compute(i, dsts, reads, out)
  PROVE  HostInv'
<1>1. PICK more : more = [k \in DOMAIN dsts |-> [dst |-> dsts[k], reads |-> reads]]
  OBVIOUS
<1>2. /\ UNCHANGED <<setup, chain, packing, hosts, txq, tx, written>>
      /\ slot' = [slot EXCEPT ![i] = (@ + Len(dsts)) % Pool(i)]
      /\ launched' = [b \in DOMAIN launched |->
                        launched[b] + Cardinality({k \in DOMAIN dsts : dsts[k] = b})]
      /\ stream' = [stream EXCEPT ![i] = @ \o more]
  BY <1>1 DEF Compute
<1>3. /\ DOMAIN slot = DOMAIN chain /\ DOMAIN stream = DOMAIN chain
      /\ launched \in [Buffers(chain) -> Nat] /\ written \in [Buffers(chain) -> Nat]
      /\ \A j \in DOMAIN chain : j < N => Into(stream[j], j)
  BY DEF HostInv
<1>4. N \in DOMAIN chain /\ N # i /\ \A s \in 0 .. MaxHosts : <<N, s>> \in Buffers(chain)
  BY HostBuffers
<1>5. DOMAIN dsts = 1 .. n
  OBVIOUS
<1>6. ASSUME NEW b
      PROVE  Cardinality({k \in DOMAIN dsts : dsts[k] = b}) \in Nat
  <2>1. IsFiniteSet(1 .. n)
    BY FS_Interval
  <2>2. {k \in DOMAIN dsts : dsts[k] = b} \in SUBSET (1 .. n)
    BY <1>5
  <2>3. IsFiniteSet({k \in DOMAIN dsts : dsts[k] = b})
    BY <2>1, <2>2, FS_Subset
  <2> QED
    BY <2>3, FS_CardinalityType
<1>7. launched' \in [Buffers(chain) -> Nat]
  <2>1. DOMAIN launched = Buffers(chain) /\ \A b \in Buffers(chain) : launched[b] \in Nat
    BY <1>3
  <2>2. \A b \in Buffers(chain) :
          launched'[b] = launched[b] + Cardinality({k \in DOMAIN dsts : dsts[k] = b})
    BY <1>2, <2>1
  <2>3. ASSUME NEW b \in Buffers(chain) PROVE launched'[b] \in Nat
    <3>1. PICK a, c : a = launched[b] /\ c = Cardinality({k \in DOMAIN dsts : dsts[k] = b})
      OBVIOUS
    <3>2. a \in Nat /\ c \in Nat
      BY <1>6, <2>1, <3>1
    <3>3. launched'[b] = a + c
      BY <2>2, <3>1
    <3> QED
      BY <3>2, <3>3
  <2>4. launched' = [b \in Buffers(chain) |-> launched'[b]]
    BY <1>2, <2>1
  <2> QED
    BY <2>3, <2>4
<1>8. ASSUME NEW s \in 0 .. MaxHosts PROVE launched'[<<N, s>>] = launched[<<N, s>>]
  <2>1. PICK b : b = <<N, s>>
    OBVIOUS
  <2>2. b[1] = N
    BY <2>1
  <2>3. {k \in DOMAIN dsts : dsts[k] = b} = {}
    BY <1>4, <1>5, <2>2
  <2>4. Cardinality({k \in DOMAIN dsts : dsts[k] = b}) = 0
    BY <2>3, FS_EmptySet
  <2>5. b \in DOMAIN launched /\ launched[b] \in Nat
    BY <1>3, <1>4, <2>1
  <2>6. launched'[b] = launched[b] + Cardinality({k \in DOMAIN dsts : dsts[k] = b})
    BY <1>2, <2>5
  <2> QED
    BY <2>1, <2>4, <2>5, <2>6
<1>9. ASSUME NEW j \in DOMAIN chain, j < N PROVE Into(stream'[j], j)
  <2>1. CASE j = i
    <3>1. \A k \in 1 .. n : more[k].dst[1] = i
      BY <1>1, <1>5
    <3>2. more = [k \in 1 .. n |-> more[k]]
      BY <1>1, <1>5
    <3>3. Into(more, i)
      BY <3>1, <3>2, IntoOf
    <3>4. stream'[i] = stream[i] \o more
      BY <1>2, <1>3
    <3>5. Into(stream[i], i)
      BY <1>3
    <3>6. Into(stream[i] \o more, i)
      BY <3>3, <3>5, IntoJoin
    <3> QED
      BY <2>1, <3>4, <3>6
  <2>2. CASE j # i
    <3>1. stream'[j] = stream[j]
      BY <1>2, <1>3, <2>2
    <3> QED
      BY <1>3, <1>9, <3>1
  <2> QED
    BY <2>1, <2>2
<1>10. /\ DOMAIN slot' = DOMAIN chain /\ slot'[N] = slot[N]
       /\ DOMAIN stream' = DOMAIN chain /\ stream'[N] = stream[N]
  BY <1>2, <1>3, <1>4
<1>11. /\ UNCHANGED <<setup, chain, packing, hosts, txq, tx>> /\ written' \in [Buffers(chain) -> Nat]
       /\ \A s \in 0 .. MaxHosts : written'[<<N, s>>] = written[<<N, s>>]
  BY <1>2, <1>3
<1> QED
  BY <1>7, <1>8, <1>9, <1>10, <1>11, HostElse

LEMMA HostOperator ==
  ASSUME GridInv, HostInv, NEW i \in DOMAIN chain, Operator(i)
  PROVE  HostInv'
<1>1. ASSUME NEW m, NEW reads, NEW out, i < N, Compute(i, <<Slot(i, m)>>, reads, out)
      PROVE  HostInv'
  <2>1. PICK dsts : dsts = <<Slot(i, m)>>
    OBVIOUS
  <2>2. dsts = [k \in 1 .. 1 |-> dsts[k]] /\ \A k \in 1 .. 1 : dsts[k][1] = i
    BY <2>1 DEF Slot
  <2> QED
    BY <1>1, <2>1, <2>2, HostCompute
<1>2. ASSUME NEW reads, NEW out, i < N, Compute(i, <<>>, reads, out)
      PROVE  HostInv'
  <2>1. PICK dsts : dsts = <<>>
    OBVIOUS
  <2>2. dsts = [k \in 1 .. 0 |-> dsts[k]] /\ \A k \in 1 .. 0 : dsts[k][1] = i
    BY <2>1
  <2> QED
    BY <1>2, <2>1, <2>2, HostCompute
<1>3. ASSUME NEW n \in Nat, NEW reads, NEW out, i < N,
             Compute(i, [j \in 1 .. n |-> Slot(i, j)], reads, out)
      PROVE  HostInv'
  <2>1. PICK dsts : dsts = [j \in 1 .. n |-> Slot(i, j)]
    OBVIOUS
  <2>2. dsts = [k \in 1 .. n |-> dsts[k]] /\ \A k \in 1 .. n : dsts[k][1] = i
    BY <2>1 DEF Slot
  <2> QED
    BY <1>3, <2>1, <2>2, HostCompute
<1>4. CASE Filter(i)
  BY <1>1, <1>4 DEF Filter, Ready
<1>5. CASE HandOn(i)
  BY <1>2, <1>5 DEF HandOn, Ready
<1>6. CASE FrcPass(i)
  BY <1>2, <1>6 DEF FrcPass, Ready
<1>7. CASE FrcMid(i)
  <2>1. i < N /\ \E reads, out : Compute(i, <<Slot(i, 1)>>, reads, out)
    BY <1>7 DEF FrcMid, Ready
  <2> QED
    BY <1>1, <2>1
<1>8. CASE FrcUniform(i)
  <2>1. PICK grid, n, k :
          /\ grid = Ticks(Interval, StallTicks * Interval, EmitBurst(setup.mode),
                          frc[i].next, frc[i].src, Head(q[i]).stamp)
          /\ n = Len(grid.out)
          /\ k = IF n > 0 /\ IsReal(grid.out[n], frc[i].src, Head(q[i]).stamp) THEN n - 1 ELSE n
    OBVIOUS
  <2>2. /\ i < N /\ q[i] # <<>> /\ Head(q[i]).stamp > frc[i].src
        /\ \E reads, out : Compute(i, [j \in 1 .. k |-> Slot(i, j)], reads, out)
    BY <1>8, <2>1 DEF FrcUniform, Ready
  <2>3. n \in Nat
    BY <1>8, <2>1, <2>2, GridWalk DEF Walked
  <2>4. k \in Nat
    BY <2>1, <2>3
  <2> QED
    BY <1>3, <2>2, <2>4
<1> QED
  BY <1>4, <1>5, <1>6, <1>7, <1>8 DEF Operator

LEMMA HostReceive ==
  ASSUME HostInv, NEW gap, Receive(gap)
  PROVE  HostInv'
<1>1. UNCHANGED <<setup, chain, packing, hosts, txq, tx, slot, stream, launched, written>>
  BY DEF Receive
<1> QED
  BY <1>1, HostElse DEF HostInv

LEMMA HostKernel ==
  ASSUME HostInv, NEW i \in DOMAIN chain, KernelRuns(i)
  PROVE  HostInv'
<1>1. PICK b : /\ b = Head(stream[i]).dst /\ stream[i] # <<>>
               /\ written' = [written EXCEPT ![b] = @ + 1]
               /\ stream' = [stream EXCEPT ![i] = Tail(@)]
               /\ UNCHANGED <<setup, chain, packing, hosts, txq, tx, slot, launched>>
  BY DEF KernelRuns
<1>2. /\ DOMAIN slot = DOMAIN chain /\ DOMAIN stream = DOMAIN chain
      /\ launched \in [Buffers(chain) -> Nat] /\ written \in [Buffers(chain) -> Nat]
      /\ \A j \in DOMAIN chain : j < N => Into(stream[j], j)
  BY DEF HostInv
<1>3. /\ N \in Nat \ {0} /\ N \in DOMAIN chain /\ DOMAIN chain = 1 .. N
      /\ \A s \in 0 .. MaxHosts : <<N, s>> \in Buffers(chain)
  BY HostBuffers
<1>4. written' \in [Buffers(chain) -> Nat]
  <2>1. PICK B : B = Buffers(chain) /\ written \in [B -> Nat]
    BY <1>2
  <2>2. \A c \in B : written'[c] \in {written[c], written[c] + 1}
    BY <1>1, <2>1
  <2>3. \A c \in B : written'[c] \in Nat
    BY <2>1, <2>2
  <2>4. written' = [c \in B |-> written'[c]]
    BY <1>1, <2>1
  <2>5. written' \in [B -> Nat]
    BY <2>3, <2>4
  <2> QED
    BY <2>1, <2>5
<1>5. CASE i # N
  <2>1. i < N
    BY <1>3, <1>5
  <2>2. b[1] = i /\ Into(Tail(stream[i]), i)
    BY <1>1, <1>2, <2>1, IntoTail
  <2>3. ASSUME NEW j \in DOMAIN chain, j < N PROVE Into(stream'[j], j)
    BY <1>1, <1>2, <2>2, <2>3
  <2>4. stream'[N] = stream[N] /\ DOMAIN stream' = DOMAIN chain
    BY <1>1, <1>2, <1>3, <1>5
  <2>5. ASSUME NEW s \in 0 .. MaxHosts PROVE written'[<<N, s>>] = written[<<N, s>>]
    <3>1. PICK c : c = <<N, s>>
      OBVIOUS
    <3>2. c[1] = N /\ c \in Buffers(chain)
      BY <1>3, <3>1
    <3>3. c # b
      BY <1>5, <2>2, <3>2
    <3> QED
      BY <1>1, <1>2, <3>1, <3>2, <3>3
  <2> QED
    BY <1>1, <1>2, <1>4, <2>3, <2>4, <2>5, HostElse
<1>6. CASE i = N
  <2>1. packing # Idle
    BY <1>1, <1>6 DEF HostInv
  <2>2. Packing(packing, N, launched, written, stream[N])
    BY <2>1 DEF HostInv
  <2>3. PICK s, R : /\ s \in 0 .. MaxHosts
                    /\ packing.host.buf = <<N, s>> /\ packing.host.ver \in Nat \ {0}
                    /\ launched[<<N, s>>] = packing.host.ver
                    /\ stream[N] = <<[dst |-> <<N, s>>, reads |-> R]>>
                    /\ written[<<N, s>>] + 1 = packing.host.ver
    BY <1>1, <1>6, <2>2 DEF Packing
  <2>4. b = <<N, s>>
    BY <1>1, <1>6, <2>3
  <2>5. stream'[N] = <<>> /\ \A j \in DOMAIN chain : j < N => stream'[j] = stream[j]
    BY <1>1, <1>2, <1>3, <1>6, <2>3
  <2>6. /\ written'[<<N, s>>] = packing.host.ver
        /\ \A z \in 0 .. MaxHosts : <<N, z>> # <<N, s>> => written'[<<N, z>>] = written[<<N, z>>]
    BY <1>1, <1>2, <1>3, <2>3, <2>4
  <2>7. Packing(packing, N, launched, written', stream'[N])
    BY <2>3, <2>5, <2>6 DEF Packing
  <2>8. Settled(N, launched, written', packing.host.buf)
    BY <2>3, <2>6 DEF HostInv, Settled
  <2>9. txq = <<>> /\ packing.host.buf # tx.buf
    BY <2>1 DEF HostInv
  <2>10. \/ tx.ver = 0 /\ tx.buf = <<0, 0>>
         \/ Whole(tx, N, launched, written')
    <3>1. CASE Whole(tx, N, launched, written)
      <4>1. Whole(tx, N, launched, written')
        BY <2>3, <2>6, <2>9, <3>1 DEF Whole
      <4> QED
        BY <4>1
    <3> QED
      BY <3>1 DEF HostInv
  <2>11. /\ setup \in Setups /\ chain = Composed(setup)
         /\ hosts \in Nat \ {0} /\ (hosts <= Hosts \/ hosts <= 2) /\ slot[N] \in Nat
    BY DEF HostInv
  <2>12. N' = N /\ DOMAIN stream' = DOMAIN chain
    BY <1>1, <1>2 DEF N
  <2>13. \A j \in DOMAIN chain : j < N => Into(stream'[j], j)
    BY <1>2, <2>5
  <2> QED
    BY <1>1, <1>2, <1>4, <2>1, <2>7, <2>8, <2>9, <2>10, <2>11, <2>12, <2>13 DEF HostInv
<1> QED
  BY <1>5, <1>6

\* The next buffer of a ring of more than one is another one.
LEMMA NextSlot ==
  ASSUME NEW h \in Nat \ {0}, NEW a \in Nat
  PROVE  /\ (a + 0) % h \in 0 .. h - 1 /\ (a + 1) % h \in 0 .. h - 1
         /\ h > 1 => (a + 0) % h # (a + 1) % h
<1>1. PICK u, r : u = a \div h /\ r = a % h
  OBVIOUS
<1>2. u \in Nat /\ r \in 0 .. h - 1 /\ a = h * u + r
  BY <1>1
<1>3. (a + 0) % h = r
  BY <1>1
<1>4. PICK v, z : v = (a + 1) \div h /\ z = (a + 1) % h
  OBVIOUS
<1>5. v \in Nat /\ z \in 0 .. h - 1 /\ a + 1 = h * v + z
  BY <1>4
<1>6. h > 1 => r # z
  <2> SUFFICES ASSUME h > 1, r = z PROVE FALSE
    OBVIOUS
  <2>1. h * v = h * u + 1
    BY <1>2, <1>5
  <2>2. PICK e \in Int : e = v - u
    BY <1>2, <1>5
  <2>3. h * e = 1
    BY <1>2, <1>5, <2>1, <2>2
  <2> QED
    BY <2>2, <2>3
<1> QED
  BY <1>2, <1>3, <1>4, <1>5, <1>6

LEMMA LeastOf ==
  ASSUME NEW T \in SUBSET Nat, T # {}
  PROVE  \E k \in T : \A j \in T : k <= j
<1>1. PICK k \in T : \A j \in T : ~(<<j, k>> \in OpToRel(<, Nat))
  BY NatLessThanWellFounded, WFMin
<1>2. \A j \in T : ~(j < k)
  BY <1>1 DEF OpToRel
<1> QED
  BY <1>2

\* The buffers pack finds free, and the one it takes.
Candidates == {k \in 0 .. hosts - 1 : HostFree((slot[N] + k) % hosts)}
Chosen ==
  IF Candidates = {} THEN hosts
  ELSE (slot[N] + (CHOOSE k \in Candidates : \A j \in Candidates : k <= j)) % hosts

\* Of the buffers pack looks at, it takes one that TX has not got, or a new one.
LEMMA HostChosen ==
  ASSUME HostInv, txq = <<>>
  PROVE  /\ Chosen \in 0 .. hosts /\ <<N, Chosen>> # tx.buf
         /\ Candidates = {} => Chosen = hosts /\ hosts = 1
         /\ Candidates # {} => Chosen < hosts
<1> PICK free, s : free = Candidates /\ s = Chosen
  OBVIOUS
<1>1. PICK h, a : h = hosts /\ a = slot[N] /\ h \in Nat \ {0} /\ a \in Nat
  BY DEF HostInv
<1>2. \A z : HostFree(z) <=> tx.buf # <<N, z>>
  BY DEF HostFree
<1>3. CASE free = {}
  <2>1. \A k \in 0 .. h - 1 : tx.buf = <<N, (a + k) % h>>
    BY <1>1, <1>2, <1>3 DEF Candidates
  <2>2. h > 1 => FALSE
    <3> SUFFICES ASSUME h > 1 PROVE FALSE
      OBVIOUS
    <3>1. tx.buf = <<N, (a + 0) % h>> /\ tx.buf = <<N, (a + 1) % h>>
      BY <1>1, <2>1
    <3>2. PICK x, y : x = (a + 0) % h /\ y = (a + 1) % h
      OBVIOUS
    <3>3. x # y
      BY <1>1, <3>2, NextSlot
    <3>4. x = y
      BY <3>1, <3>2
    <3> QED
      BY <3>3, <3>4
  <2>3. h = 1
    BY <1>1, <2>2
  <2>4. (a + 0) % 1 = 0
    <3>1. (a + 0) % h \in 0 .. h - 1
      BY <1>1, NextSlot
    <3> QED
      BY <2>3, <3>1
  <2>5. tx.buf = <<N, 0>>
    BY <2>1, <2>3, <2>4
  <2>6. <<N, 1>> # tx.buf
    BY <2>5
  <2>7. s = hosts /\ hosts = 1
    BY <1>1, <1>3, <2>3 DEF Chosen
  <2>8. s = 1 /\ 1 \in 0 .. 1
    BY <2>7
  <2>9. s \in 0 .. hosts /\ <<N, s>> # tx.buf
    BY <2>6, <2>7, <2>8
  <2> QED
    BY <1>3, <2>7, <2>9
<1>4. CASE free # {}
  <2>1. free \subseteq 0 .. h - 1 /\ free \in SUBSET Nat
    BY <1>1 DEF Candidates
  <2>2. \E k \in free : \A j \in free : k <= j
    BY <1>4, <2>1, LeastOf
  <2>3. PICK k : k = CHOOSE z \in free : \A j \in free : z <= j
    OBVIOUS
  <2>4. k \in free
    BY <2>2, <2>3
  <2>5. s = (a + k) % h
    BY <1>1, <1>4, <2>3 DEF Chosen
  <2>6. k \in 0 .. h - 1 /\ HostFree((a + k) % h)
    BY <1>1, <2>4 DEF Candidates
  <2>7. <<N, s>> # tx.buf
    BY <1>2, <2>5, <2>6
  <2>8. s \in 0 .. h - 1
    <3>1. PICK b \in Nat : b = a + k
      BY <1>1, <2>6
    <3>2. b % h \in 0 .. h - 1
      BY <1>1, <3>1
    <3> QED
      BY <2>5, <3>1, <3>2
  <2> QED
    BY <1>1, <1>4, <2>7, <2>8
<1> QED
  BY <1>3, <1>4

LEMMA HostLaunch ==
  ASSUME HostInv, PackLaunch
  PROVE  HostInv'
<1>1. PICK m, free, s : m = Head(q[N]) /\ free = Candidates /\ s = Chosen
  OBVIOUS
<1>2. /\ packing = Idle /\ txq = <<>>
      /\ packing' = [src |-> m, host |-> GpuFrame(<<N, s>>, m.stamp)]
      /\ hosts' = IF free = {} THEN hosts + 1 ELSE hosts
      /\ slot' = [slot EXCEPT ![N] = IF free = {} THEN @ ELSE (s + 1) % hosts]
      /\ launched' = [launched EXCEPT ![<<N, s>>] = @ + 1]
      /\ stream' = [stream EXCEPT ![N] = Append(@, [dst |-> <<N, s>>, reads |-> {m}])]
      /\ UNCHANGED <<setup, chain, written, txq, tx>>
  <2>1. /\ packing = Idle /\ txq = <<>>
        /\ packing' = [src |-> Head(q[N]), host |-> GpuFrame(<<N, Chosen>>, Head(q[N]).stamp)]
        /\ hosts' = IF Candidates = {} THEN hosts + 1 ELSE hosts
        /\ slot' = [slot EXCEPT ![N] = IF Candidates = {} THEN @ ELSE (Chosen + 1) % hosts]
        /\ launched' = [launched EXCEPT ![<<N, Chosen>>] = @ + 1]
        /\ stream' = [stream EXCEPT
             ![N] = Append(@, [dst |-> <<N, Chosen>>, reads |-> {Head(q[N])}])]
        /\ UNCHANGED <<setup, chain, written, txq, tx>>
    BY Zenon DEF PackLaunch, Candidates, Chosen
  <2> QED
    BY <1>1, <2>1
<1>3. /\ s \in 0 .. hosts /\ <<N, s>> # tx.buf
      /\ free = {} => s = hosts /\ hosts = 1
      /\ free # {} => s < hosts
  BY <1>1, <1>2, HostChosen
<1>4. /\ DOMAIN slot = DOMAIN chain /\ DOMAIN stream = DOMAIN chain
      /\ launched \in [Buffers(chain) -> Nat] /\ written \in [Buffers(chain) -> Nat]
      /\ hosts \in Nat \ {0} /\ (hosts <= Hosts \/ hosts <= 2) /\ slot[N] \in Nat
      /\ \A j \in DOMAIN chain : j < N => Into(stream[j], j)
      /\ stream[N] = <<>>
  BY <1>2 DEF HostInv
<1>5. /\ N \in Nat \ {0} /\ N \in DOMAIN chain /\ DOMAIN chain = 1 .. N
      /\ \A z \in 0 .. MaxHosts : <<N, z>> \in Buffers(chain)
  BY HostBuffers
<1>6. s \in 0 .. MaxHosts
  BY <1>3, <1>4, HostConstants DEF MaxHosts
<1>7. hosts' \in Nat \ {0} /\ (hosts' <= Hosts \/ hosts' <= 2)
  BY <1>2, <1>3, <1>4
<1>8. DOMAIN slot' = DOMAIN chain /\ slot'[N] \in Nat
  <2>1. free # {} => (s + 1) % hosts \in Nat
    <3>1. PICK h, a : h = hosts /\ a = s + 1 /\ h \in Nat \ {0} /\ a \in Nat
      BY <1>3, <1>4
    <3>2. a % h \in 0 .. h - 1
      BY <3>1
    <3> QED
      BY <3>1, <3>2
  <2>2. slot'[N] = IF free = {} THEN slot[N] ELSE (s + 1) % hosts
    BY <1>2, <1>4, <1>5
  <2> QED
    BY <1>2, <1>4, <2>1, <2>2
<1>9. PICK l : l = launched[<<N, s>>] /\ l \in Nat
  BY <1>4, <1>5, <1>6
<1>10. /\ launched'[<<N, s>>] = l + 1 /\ launched' \in [Buffers(chain) -> Nat]
       /\ \A z \in 0 .. MaxHosts : <<N, z>> # <<N, s>> => launched'[<<N, z>>] = launched[<<N, z>>]
  <2>1. PICK B, b : B = Buffers(chain) /\ b = <<N, s>> /\ b \in B
    BY <1>5, <1>6
  <2>2. launched \in [B -> Nat] /\ launched' = [launched EXCEPT ![b] = l + 1]
    BY <1>2, <1>4, <1>9, <2>1
  <2>3. /\ launched'[b] = l + 1 /\ launched' \in [B -> Nat]
        /\ \A c \in B : c # b => launched'[c] = launched[c]
    BY <1>9, <2>1, <2>2
  <2> QED
    BY <1>5, <2>1, <2>3
<1>11. /\ packing'.host.buf = <<N, s>> /\ packing'.host.ver = l + 1
       /\ packing' # Idle
  <2>1. packing'.host.buf = <<N, s>> /\ packing'.host.ver = l + 1
    BY <1>2, <1>9 DEF GpuFrame
  <2>2. Idle.host.ver = 0
    BY DEF Idle, NoFrame
  <2> QED
    BY <1>9, <2>1, <2>2
<1>12. Settled(N, launched, written, <<0, 0>>)
  <2>1. packing.host.buf = <<0, 0>>
    BY <1>2 DEF Idle, NoFrame
  <2> QED
    BY <2>1 DEF HostInv
<1>13. written[<<N, s>>] = l
  <2>1. <<N, s>> # <<0, 0>>
    BY <1>5
  <2> QED
    BY <1>6, <1>9, <1>12, <2>1 DEF Settled
<1>14. Settled(N, launched', written, packing'.host.buf)
  <2>1. ASSUME NEW z \in 0 .. MaxHosts, <<N, z>> # <<N, s>>
        PROVE  launched'[<<N, z>>] = written[<<N, z>>]
    <3>1. <<N, z>> # <<0, 0>>
      BY <1>5
    <3> QED
      BY <1>10, <1>12, <2>1, <3>1 DEF Settled
  <2> QED
    BY <1>11, <2>1 DEF Settled
<1>15. /\ stream'[N] = <<[dst |-> <<N, s>>, reads |-> {m}]>> /\ DOMAIN stream' = DOMAIN chain
       /\ \A j \in DOMAIN chain : j < N => stream'[j] = stream[j]
  <2>1. PICK c : c = [dst |-> <<N, s>>, reads |-> {m}]
    OBVIOUS
  <2>2. stream' = [stream EXCEPT ![N] = Append(<<>>, c)]
    BY <1>2, <1>4, <2>1
  <2>3. Append(<<>>, c) = <<c>>
    OBVIOUS
  <2> QED
    <3>1. N \in DOMAIN stream /\ \A j \in DOMAIN chain : j < N => j # N
      BY <1>4, <1>5
    <3>2. stream' = [stream EXCEPT ![N] = <<c>>]
      BY <2>2, <2>3
    <3>3. /\ stream'[N] = <<c>> /\ DOMAIN stream' = DOMAIN chain
          /\ \A j \in DOMAIN chain : j # N => stream'[j] = stream[j]
      BY <1>4, <3>1, <3>2
    <3> QED
      BY <2>1, <3>1, <3>3, Zenon
<1>16. Packing(packing', N, launched', written, stream'[N])
  <2>1. launched'[<<N, s>>] = packing'.host.ver /\ written[<<N, s>>] + 1 = packing'.host.ver
        /\ packing'.host.ver \in Nat \ {0}
    BY <1>9, <1>10, <1>11, <1>13
  <2> QED
    BY <1>6, <1>11, <1>15, <2>1 DEF Packing
<1>17. \/ tx.ver = 0 /\ tx.buf = <<0, 0>>
       \/ Whole(tx, N, launched', written)
  <2>1. CASE Whole(tx, N, launched, written)
    <3>1. PICK z \in 0 .. MaxHosts : /\ tx.buf = <<N, z>> /\ tx.ver \in Nat \ {0}
                                     /\ launched[<<N, z>>] = tx.ver /\ written[<<N, z>>] = tx.ver
      BY <2>1 DEF Whole
    <3>2. launched'[<<N, z>>] = tx.ver
      BY <1>3, <1>10, <3>1
    <3> QED
      BY <3>1, <3>2 DEF Whole
  <2> QED
    BY <2>1 DEF HostInv
<1>18. N' = N /\ setup \in Setups /\ chain = Composed(setup)
  BY <1>2 DEF N, HostInv
<1>19. \A j \in DOMAIN chain : j < N => Into(stream'[j], j)
  BY <1>4, <1>15
<1>20. packing'.host.buf # tx.buf
  BY <1>3, <1>11
<1> QED
  BY <1>2, <1>4, <1>7, <1>8, <1>10, <1>11, <1>14, <1>15, <1>16, <1>17, <1>18, <1>19, <1>20 DEF HostInv

LEMMA HostSends ==
  ASSUME HostInv, PackEmit \/ TxTake \/ TxSent
  PROVE  HostInv'
<1>1. UNCHANGED <<setup, chain, slot, launched, written, stream, hosts>>
  BY DEF PackEmit, TxTake, TxSent
<1>2. /\ setup \in Setups /\ chain = Composed(setup)
      /\ hosts \in Nat \ {0} /\ (hosts <= Hosts \/ hosts <= 2)
      /\ DOMAIN slot = DOMAIN chain /\ slot[N] \in Nat
      /\ launched \in [Buffers(chain) -> Nat] /\ written \in [Buffers(chain) -> Nat]
      /\ DOMAIN stream = DOMAIN chain
      /\ \A i \in DOMAIN chain : i < N => Into(stream[i], i)
      /\ Settled(N, launched, written, packing.host.buf)
      /\ packing = Idle => stream[N] = <<>>
      /\ packing # Idle => /\ Packing(packing, N, launched, written, stream[N])
                           /\ txq = <<>> /\ packing.host.buf # tx.buf
      /\ txq # <<>> => \E m : txq = <<m>> /\ Whole(m, N, launched, written) /\ m.buf # tx.buf
      /\ \/ tx.ver = 0 /\ tx.buf = <<0, 0>>
         \/ Whole(tx, N, launched, written)
  BY DEF HostInv
<1>3. N' = N /\ N \in Nat \ {0}
  BY <1>1, HostBuffers DEF N
<1>4. \A m : Whole(m, N, launched, written) => m.buf # <<0, 0>>
  BY <1>3 DEF Whole
<1>5. CASE PackEmit
  <2>1. /\ packing # Idle /\ stream[N] = <<>> /\ txq' = Append(txq, packing.host)
        /\ packing' = Idle /\ tx' = tx
    BY <1>5 DEF PackEmit
  <2>2. txq' = <<packing.host>>
    BY <1>2, <2>1
  <2>3. PICK s \in 0 .. MaxHosts :
          /\ packing.host.buf = <<N, s>> /\ packing.host.ver \in Nat \ {0}
          /\ launched[<<N, s>>] = packing.host.ver /\ written[<<N, s>>] = packing.host.ver
    <3>1. Packing(packing, N, launched, written, <<>>)
      BY <1>2, <2>1
    <3>2. \A c : <<c>> # <<>>
      OBVIOUS
    <3> QED
      BY <3>1, <3>2, Zenon DEF Packing
  <2>4. Whole(packing.host, N, launched, written)
    BY <2>3 DEF Whole
  <2>5. Settled(N, launched, written, packing'.host.buf)
    <3>1. ASSUME NEW z \in 0 .. MaxHosts PROVE launched[<<N, z>>] = written[<<N, z>>]
      <4>1. CASE <<N, z>> = <<N, s>>
        BY <2>3, <4>1
      <4>2. CASE <<N, z>> # <<N, s>>
        BY <1>2, <2>3, <4>2 DEF Settled
      <4> QED
        BY <4>1, <4>2
    <3> QED
      BY <3>1 DEF Settled
  <2>6. packing.host.buf # tx.buf
    BY <1>2, <2>1
  <2> QED
    BY <1>1, <1>2, <1>3, <2>1, <2>2, <2>4, <2>5, <2>6 DEF HostInv
<1>6. CASE TxTake
  <2>1. txq # <<>> /\ tx' = Head(txq) /\ txq' = Tail(txq) /\ packing' = packing
    BY <1>6 DEF TxTake
  <2>2. PICK m : txq = <<m>> /\ Whole(m, N, launched, written)
    BY <1>2, <2>1
  <2>3. tx' = m /\ txq' = <<>>
    BY <2>1, <2>2
  <2>4. packing = Idle
    BY <1>2, <2>1
  <2> QED
    BY <1>1, <1>2, <1>3, <2>1, <2>2, <2>3, <2>4 DEF HostInv
<1>7. CASE TxSent
  <2>1. tx' = [NoFrame EXCEPT !.stamp = tx.stamp] /\ txq' = txq /\ packing' = packing
    BY <1>7 DEF TxSent
  <2>2. tx'.ver = 0 /\ tx'.buf = <<0, 0>>
    BY <2>1 DEF NoFrame
  <2>3. packing # Idle => packing.host.buf # <<0, 0>>
    <3>1. packing # Idle => \E s : packing.host.buf = <<N, s>>
      BY <1>2, Zenon DEF Packing
    <3>2. \A s : <<N, s>> # <<0, 0>>
      BY <1>3
    <3> QED
      BY <3>1, <3>2
  <2>4. txq # <<>> => \E m : txq = <<m>> /\ Whole(m, N, launched, written) /\ m.buf # <<0, 0>>
    BY <1>2, <1>4
  <2>5. txq # <<>> => \E m : txq = <<m>> /\ Whole(m, N, launched, written) /\ m.buf # tx'.buf
    BY <2>2, <2>4
  <2> QED
    BY <1>1, <1>2, <1>3, <2>1, <2>2, <2>3, <2>5 DEF HostInv
<1> QED
  BY <1>5, <1>6, <1>7

LEMMA HostStays ==
  ASSUME GridInv, HostInv, [ChainNext]_chainVars
  PROVE  HostInv'
<1>1. CASE UNCHANGED chainVars
  <2>1. UNCHANGED <<setup, chain, packing, hosts, txq, tx, slot, stream, launched, written>>
    BY <1>1 DEF chainVars
  <2> QED
    BY <2>1, HostElse DEF HostInv
<1>2. ASSUME NEW i \in DOMAIN chain, Operator(i) PROVE HostInv'
  BY <1>2, HostOperator
<1>3. ASSUME NEW gap \in setup.gaps, Receive(gap) PROVE HostInv'
  BY <1>3, HostReceive
<1>4. ASSUME NEW i \in DOMAIN chain, KernelRuns(i) PROVE HostInv'
  BY <1>4, HostKernel
<1> QED
  BY <1>1, <1>2, <1>3, <1>4, HostLaunch, HostSends DEF ChainNext

LEMMA HostSound == HostInv => HostsSafe
<1> SUFFICES ASSUME HostInv PROVE HostsSafe
  OBVIOUS
<1>1. \A m : Whole(m, N, launched, written) => launched[m.buf] = m.ver /\ written[m.buf] = m.ver
  BY DEF Whole
<1>2. packing.host.ver > 0 => launched[packing.host.buf] = packing.host.ver
  <2>1. CASE packing = Idle
    BY <2>1 DEF Idle, NoFrame
  <2>2. CASE packing # Idle
    BY <2>2 DEF HostInv, Packing
  <2> QED
    BY <2>1, <2>2
<1>3. ASSUME NEW m \in {tx} \cup {txq[k] : k \in DOMAIN txq}, m.ver > 0
      PROVE  Whole(m, N, launched, written)
  <2>1. CASE m = tx
    BY <1>3, <2>1 DEF HostInv
  <2>2. CASE m # tx
    <3>1. PICK k \in DOMAIN txq : m = txq[k]
      BY <2>2
    <3>2. txq # <<>>
      BY <3>1
    <3>3. PICK x : txq = <<x>> /\ Whole(x, N, launched, written)
      BY <3>2 DEF HostInv
    <3>4. m = x
      BY <3>1, <3>3
    <3> QED
      BY <3>3, <3>4
  <2> QED
    BY <2>1, <2>2
<1>4. hosts <= Hosts \/ hosts <= 3
  BY HostConstants DEF HostInv
<1> QED
  BY <1>1, <1>2, <1>3, <1>4 DEF HostsSafe

\* The host buffers (PackOp::compute's use_count() search and stream synchronisation,
\* codec_ops.cpp): whatever the chain, the mode, the source and the size of the pool, no
\* buffer TX has or is about to get is packed into, none is sent before it has been
\* packed, and the pool does not outgrow the working depth.
THEOREM HostsStaySafe == ChainSpec => []HostsSafe
<1>1. ChainSpec => [](GridInv /\ HostInv)
  BY GridStarts, GridStays, HostStarts, HostStays, PTL DEF ChainSpec
<1> QED
  BY <1>1, HostSound, PTL

-----------------------------------------------------------------------------
(* The pools *)

\* Launch y of a pool of p buffers goes into buffer s, for the v-th time.
Copy(p, y, s, v) == s \in 0 .. p - 1 /\ v \in Nat \ {0} /\ y = p * v - p + s + 1

\* Of the first x launches of a pool, c went into buffer s.
Filled(p, x, s, c) == c \in Nat /\ p * c - p < x - s /\ x - s <= p * c

LEMMA TimesLess ==
  ASSUME NEW p \in Nat \ {0}, NEW a \in Int, NEW b \in Int, a < b
  PROVE  p * a + p <= p * b
<1>1. PICK e \in Nat : b = a + 1 + e
  BY SMT
<1>2. p * b = p * a + p + p * e
  BY <1>1
<1>3. p * e >= 0
  BY <1>1
<1> QED
  BY <1>2, <1>3

\* What the next launch does to the buffers.
LEMMA FilledNext ==
  ASSUME NEW p \in Nat \ {0}, NEW x \in Nat, NEW z, NEW v, Copy(p, x + 1, z, v),
         NEW s \in 0 .. p - 1, NEW c, Filled(p, x, s, c)
  PROVE  /\ Filled(p, x + 1, s, IF s = z THEN c + 1 ELSE c)
         /\ s = z => v = c + 1
<1>1. PICK a, b : a = p * v /\ b = p * c
  OBVIOUS
<1>2. /\ z \in 0 .. p - 1 /\ v \in Nat \ {0} /\ c \in Nat /\ a \in Nat /\ b \in Nat
      /\ x + 1 = (a - p) + z + 1 /\ b - p < x - s /\ x - s <= b
  BY <1>1 DEF Copy, Filled
<1>3. v < c + 1 => a + p <= b + p
  <2>1. v < c + 1 => v = c \/ v < c
    BY <1>2
  <2>2. v < c => a + p <= b
    BY <1>1, <1>2, TimesLess
  <2> QED
    BY <1>1, <1>2, <2>1, <2>2
<1>4. c + 1 < v => b + p + p <= a
  <2>1. p * (c + 1) = b + p
    BY <1>1, <1>2
  <2>2. c + 1 < v => p * (c + 1) + p <= p * v
    BY <1>2, TimesLess
  <2> QED
    BY <1>1, <1>2, <2>1, <2>2
<1>5. v = c + 1 => a = b + p
  BY <1>1, <1>2
<1>6. CASE s = z
  <2>1. ~(v < c + 1) /\ ~(c + 1 < v)
    BY <1>2, <1>3, <1>4, <1>6
  <2>2. v = c + 1
    BY <1>2, <2>1
  <2>3. p * (c + 1) = b + p
    BY <1>1, <1>2
  <2>4. b < x + 1 - s /\ x + 1 - s <= b + p
    BY <1>2, <1>5, <1>6, <2>2
  <2>5. Filled(p, x + 1, s, c + 1)
    BY <1>2, <2>3, <2>4 DEF Filled
  <2> QED
    BY <1>6, <2>2, <2>5
<1>7. CASE s # z
  <2>1. x - s # b
    BY <1>2, <1>3, <1>4, <1>5, <1>7
  <2>2. Filled(p, x + 1, s, c)
    BY <1>1, <1>2, <2>1 DEF Filled
  <2> QED
    BY <1>7, <2>2
<1> QED
  BY <1>6, <1>7

\* A buffer has its v-th content once launch y is among the first x, and keeps it for a
\* round of the pool.
LEMMA FilledCopy ==
  ASSUME NEW p \in Nat \ {0}, NEW x \in Nat, NEW s, NEW c, Filled(p, x, s, c),
         NEW y, NEW v, Copy(p, y, s, v)
  PROVE  /\ y <= x => c >= v
         /\ c >= v => y <= x
         /\ x < y + p => c <= v
<1>1. PICK a, b : a = p * v /\ b = p * c
  OBVIOUS
<1>2. /\ s \in 0 .. p - 1 /\ v \in Nat /\ c \in Nat /\ a \in Nat /\ b \in Nat
      /\ y = a - p + s + 1 /\ b - p < x - s /\ x - s <= b
  BY <1>1 DEF Filled, Copy
<1>3. c < v => b + p <= a
  BY <1>1, <1>2, TimesLess
<1>4. v < c => a + p <= b
  BY <1>1, <1>2, TimesLess
<1>5. v = c => a = b
  BY <1>1
<1> QED
  BY <1>2, <1>3, <1>4, <1>5

-----------------------------------------------------------------------------
(* The numbers of the frames *)

\* What is fixed about a chain: its length n, the place f of FRC (0: none), the
\* frames FRC emits for one it takes, the queue of two (0: none), the operators
\* that only hand on, and the pools.
Shape(g) ==
  /\ g.n \in Nat /\ g.n >= 2 /\ g.f \in 0 .. g.n - 1 /\ g.f # 1 /\ g.rate \in {1, 2}
  /\ g.deep \in 0 .. g.n /\ (g.f = 0 \/ g.rate = 1 => g.deep = 0)
  /\ g.pass \subseteq 2 .. g.n - 1 /\ g.f \notin g.pass
  /\ \A i \in 1 .. g.n - 1 :
       /\ g.pool[i] \in Nat \ {0}
       /\ IF i = g.f THEN g.pool[i] > g.n - i
          ELSE g.pool[i] >= g.n + (IF g.f = 0 THEN 0 ELSE 1)

Makers(g) == (1 .. g.n - 1) \ g.pass

\* The frames FRC has taken when it emits its k-th.
SourceOf(g, k) == IF g.rate = 2 THEN k \div 2 + 1 ELSE k

\* The frames operator i has emitted when it has taken x.
Emitted(g, i, x) == IF i = g.f /\ g.rate = 2 /\ x > 0 THEN 2 * x - 1 ELSE x

\* The kernels it has launched by then: FRC launches none for its first frame.
Runs(g, i, x) == IF i = g.f /\ x > 0 THEN x - 1 ELSE x

\* The launch of operator o behind the k-th frame in front of operator j.
Origin(g, o, j, k) ==
  IF g.f = 0 \/ o > g.f \/ j <= g.f THEN k
  ELSE IF o = g.f THEN SourceOf(g, k) - 1 ELSE SourceOf(g, k)

\* The latest frame launch y of operator i reads.
Latest(g, i, y) == IF i = g.f THEN y + 1 ELSE y

Slack(g, i, j) == IF i < g.deep /\ g.deep <= j THEN 1 ELSE 0

\* No operator is further ahead of another than the queues between them allow.
Near(g, t, i, j) ==
  t[j] <= Emitted(g, i, t[i]) /\ Emitted(g, i, t[i]) <= t[j] + (j - i) + Slack(g, i, j)
Lag(g, t) ==
  /\ \A i \in 1 .. g.n : t[i] \in Nat
  /\ \A i, j \in 1 .. g.n : i < j /\ (g.f = 0 \/ j <= g.f \/ i >= g.f) => Near(g, t, i, j)

\* A frame of operator j that somebody may still need.
Alive(g, t, j, k) ==
  /\ k \in Nat \ {0}
  /\ IF g.f = 0 \/ j > g.f THEN k >= t[g.n]
     ELSE t[g.n] >= 2 => k >= SourceOf(g, t[g.n] - 1)

\* The number of a frame with its buffer cannot be lapped while it is alive.
LEMMA AgeBound ==
  ASSUME NEW g, Shape(g), NEW t, Lag(g, t), NEW o \in Makers(g), NEW j \in 2 .. g.n, o < j,
         NEW k, Alive(g, t, j, k)
  PROVE  Runs(g, o, t[o]) < Origin(g, o, j, k) + g.pool[o]
<1>1. PICK n, f, r, p, a, b, c :
        n = g.n /\ f = g.f /\ r = g.rate /\ p = g.pool[o] /\ a = t[o] /\ b = t[n] /\ c = t[f]
  OBVIOUS
<1>2. /\ n \in Nat /\ n >= 2 /\ f \in 0 .. n - 1 /\ f # 1 /\ r \in {1, 2} /\ o \in 1 .. n - 1
      /\ p \in Nat /\ (o = f => p > n - o) /\ (o # f => p >= n + (IF f = 0 THEN 0 ELSE 1))
      /\ (f = 0 \/ r = 1 => g.deep = 0)
  BY <1>1 DEF Shape, Makers
<1>3. /\ a \in Nat /\ b \in Nat /\ k \in Nat \ {0}
      /\ f # 0 => c \in Nat
  BY <1>1, <1>2 DEF Lag, Alive
<1>4. ASSUME NEW x \in 1 .. n, NEW y
      PROVE  Slack(g, x, y) \in {0, 1} /\ (f = 0 \/ r = 1 => Slack(g, x, y) = 0)
  BY <1>2 DEF Slack
<1>5. ASSUME NEW x \in 1 .. n, NEW y \in 1 .. n, x < y, f = 0 \/ y <= f \/ x >= f
      PROVE  \E e \in {0, 1} : /\ t[x] \in Nat /\ t[y] \in Nat /\ (f = 0 \/ r = 1 => e = 0)
                               /\ t[y] <= Emitted(g, x, t[x])
                               /\ Emitted(g, x, t[x]) <= t[y] + (y - x) + e
  <2>1. Near(g, t, x, y) /\ t[x] \in Nat /\ t[y] \in Nat
    BY <1>1, <1>5 DEF Lag
  <2> QED
    BY <1>4, <2>1 DEF Near
<1>6. n \in 1 .. n /\ (f # 0 => f \in 1 .. n) /\ o \in 1 .. n
  BY <1>2
<1>7. CASE f = 0
  <2>1. a <= b + (n - o)
    BY <1>1, <1>2, <1>5, <1>6, <1>7 DEF Emitted
  <2>2. k >= b /\ Runs(g, o, t[o]) = a /\ Origin(g, o, j, k) = k
    BY <1>1, <1>2, <1>7 DEF Alive, Runs, Origin
  <2> QED
    BY <1>1, <1>2, <1>3, <1>7, <2>1, <2>2
<1>8. CASE f # 0 /\ o > f
  <2>1. a <= b + (n - o) + 1
    <3>1. Emitted(g, o, t[o]) = a
      BY <1>1, <1>2, <1>8 DEF Emitted
    <3>2. \E e \in {0, 1} : Emitted(g, o, t[o]) <= t[n] + (n - o) + e
      BY <1>2, <1>5, <1>6, <1>8
    <3> QED
      BY <1>1, <1>2, <1>3, <3>1, <3>2
  <2>2. k >= b /\ Runs(g, o, t[o]) = a /\ Origin(g, o, j, k) = k
    BY <1>1, <1>2, <1>8 DEF Alive, Runs, Origin
  <2> QED
    BY <1>1, <1>2, <1>3, <1>8, <2>1, <2>2
<1>9. CASE f # 0 /\ o <= f
  <2>1. PICK e \in {0, 1} : (r = 1 => e = 0) /\ b <= Emitted(g, f, c)
                             /\ Emitted(g, f, c) <= b + (n - f) + e
    BY <1>1, <1>2, <1>5, <1>6, <1>9
  <2>2. r = 1 => c <= b + (n - f)
    BY <1>1, <1>2, <1>3, <1>9, <2>1 DEF Emitted
  <2>3. r = 2 => 2 * c <= b + (n - f) + 2
    BY <1>1, <1>2, <1>3, <1>9, <2>1 DEF Emitted
  <2>4. /\ j > f => k >= b
        /\ j <= f /\ b >= 2 /\ r = 1 => k >= b - 1
        /\ j <= f /\ b >= 2 /\ r = 2 => 2 * k >= b
    <3>1. j > f => k >= b
      BY <1>1, <1>9 DEF Alive
    <3>2. j <= f /\ b >= 2 => k >= SourceOf(g, b - 1)
      BY <1>1, <1>2, <1>9 DEF Alive
    <3>3. r = 1 => SourceOf(g, b - 1) = b - 1
      BY <1>1 DEF SourceOf
    <3>4. r = 2 /\ b >= 2 => SourceOf(g, b - 1) \in Nat /\ 2 * SourceOf(g, b - 1) >= b
      BY <1>1, <1>3 DEF SourceOf
    <3> QED
      BY <1>3, <3>1, <3>2, <3>3, <3>4
  <2>5. CASE o = f
    <3>1. j > f
      BY <2>5
    <3>2. Origin(g, o, j, k) = SourceOf(g, k) - 1
      BY <1>1, <1>2, <1>9, <2>5, <3>1 DEF Origin
    <3>3. Runs(g, o, t[o]) <= IF c > 0 THEN c - 1 ELSE 0
      BY <1>1, <1>3, <1>9, <2>5 DEF Runs
    <3>4. CASE r = 1
      <4>1. SourceOf(g, k) = k
        BY <1>1, <3>4 DEF SourceOf
      <4>2. Runs(g, o, t[o]) \in Nat
        BY <1>1, <1>3, <1>9 DEF Runs
      <4> QED
        BY <1>1, <1>2, <1>3, <2>2, <2>4, <2>5, <3>1, <3>2, <3>3, <3>4, <4>1, <4>2
    <3>5. CASE r = 2
      <4>1. SourceOf(g, k) \in Nat /\ 2 * SourceOf(g, k) >= k + 1
        BY <1>1, <1>3, <3>5 DEF SourceOf
      <4>2. Runs(g, o, t[o]) \in Nat
        BY <1>1, <1>3, <1>9 DEF Runs
      <4> QED
        BY <1>1, <1>2, <1>3, <2>3, <2>4, <2>5, <3>1, <3>2, <3>3, <3>5, <4>1, <4>2
    <3> QED
      BY <1>2, <3>4, <3>5
  <2>6. CASE o < f
    <3>1. a <= c + (f - o) + 1 /\ (r = 1 => a <= c + (f - o))
      <4>1. Emitted(g, o, t[o]) = a
        BY <1>1, <1>2, <2>6 DEF Emitted
      <4>2. \E z \in {0, 1} : (r = 1 => z = 0) /\ Emitted(g, o, t[o]) <= t[f] + (f - o) + z
        BY <1>2, <1>5, <1>6, <1>9, <2>6
      <4> QED
        BY <1>1, <1>2, <1>3, <1>9, <4>1, <4>2
    <3>2. Runs(g, o, t[o]) = a
      BY <1>1, <1>2, <2>6 DEF Runs
    <3>3. Origin(g, o, j, k) = IF j <= f THEN k ELSE SourceOf(g, k)
      BY <1>1, <1>2, <1>9, <2>6 DEF Origin
    <3>4. CASE r = 1
      <4>1. Origin(g, o, j, k) = k
        BY <1>1, <3>3, <3>4 DEF SourceOf
      <4> QED
        BY <1>1, <1>2, <1>3, <1>9, <2>2, <2>4, <2>6, <3>1, <3>2, <3>4, <4>1
    <3>5. CASE r = 2
      <4>1. SourceOf(g, k) \in Nat /\ 2 * SourceOf(g, k) >= k + 1
        BY <1>1, <1>3, <3>5 DEF SourceOf
      <4> QED
        BY <1>1, <1>2, <1>3, <1>9, <2>3, <2>4, <2>6, <3>1, <3>2, <3>3, <3>5, <4>1
    <3> QED
      BY <1>2, <3>4, <3>5
  <2> QED
    BY <1>2, <1>9, <2>5, <2>6
<1> QED
  BY <1>2, <1>7, <1>8, <1>9

\* Whoever takes a frame has one in front of it and room behind it.
LEMMA LagStep ==
  ASSUME NEW g, Shape(g), NEW t, Lag(g, t), NEW i \in 1 .. g.n, NEW u,
         \A j \in 1 .. g.n : u[j] = IF j = i THEN t[i] + 1 ELSE t[j],
         i < g.n => Emitted(g, i, t[i] + 1) <= t[i + 1] + (IF g.deep = i + 1 THEN 2 ELSE 1),
         i > 1 => t[i] + 1 <= Emitted(g, i - 1, t[i - 1])
  PROVE  Lag(g, u)
<1>1. PICK n, f : n = g.n /\ f = g.f
  OBVIOUS
<1>2. /\ n \in Nat /\ f \in 0 .. n - 1 /\ g.deep \in 0 .. n /\ i \in 1 .. n /\ g.rate \in {1, 2}
      /\ \A j \in 1 .. n : t[j] \in Nat /\ u[j] \in Nat
  BY <1>1 DEF Shape, Lag
<1>3. ASSUME NEW x \in 1 .. n, NEW y \in 1 .. n, x < y, f = 0 \/ y <= f \/ x >= f
      PROVE  Near(g, u, x, y)
  <2>1. PICK e : e = Slack(g, x, y) /\ e \in {0, 1}
    BY DEF Slack
  <2>2. /\ t[x] \in Nat /\ t[y] \in Nat /\ t[y] <= Emitted(g, x, t[x])
        /\ Emitted(g, x, t[x]) <= t[y] + (y - x) + e
    BY <1>1, <1>2, <1>3, <2>1 DEF Lag, Near
  <2>3. CASE x = i
    <3>1. u[x] = t[i] + 1 /\ u[y] = t[y]
      BY <1>1, <1>2, <1>3, <2>3
    <3>2. t[y] <= Emitted(g, i, t[i] + 1) /\ Emitted(g, i, t[i] + 1) \in Nat
      BY <1>1, <1>2, <2>2, <2>3 DEF Emitted
    <3>3. PICK c \in {1, 2} : c = IF g.deep = i + 1 THEN 2 ELSE 1
      OBVIOUS
    <3>4. i + 1 \in 1 .. n /\ Emitted(g, i, t[i] + 1) <= t[i + 1] + c
      BY <1>1, <1>2, <1>3, <2>3, <3>3
    <3>5. CASE y = i + 1
      <4>1. c <= 1 + e
        BY <1>2, <2>1, <2>3, <3>3, <3>5 DEF Slack
      <4> QED
        BY <1>2, <1>3, <2>1, <2>3, <3>1, <3>2, <3>4, <3>5, <4>1 DEF Near
    <3>6. CASE y # i + 1
      <4>1. i + 1 < y /\ i + 1 # f /\ (f = 0 \/ y <= f \/ i + 1 >= f)
        BY <1>2, <1>3, <2>3, <3>6
      <4>2. PICK z : z = Slack(g, i + 1, y) /\ z \in {0, 1}
        BY DEF Slack
      <4>3. t[i + 1] <= t[y] + (y - (i + 1)) + z
        <5>1. Near(g, t, i + 1, y)
          BY <1>1, <3>4, <4>1 DEF Lag
        <5>2. Emitted(g, i + 1, t[i + 1]) = t[i + 1]
          BY <1>1, <4>1 DEF Emitted
        <5> QED
          BY <4>2, <5>1, <5>2 DEF Near
      <4>4. c + z <= 1 + e
        BY <1>2, <2>1, <2>3, <3>3, <4>1, <4>2 DEF Slack
      <4>5. t[i + 1] \in Nat
        BY <1>2, <3>4
      <4>6. Emitted(g, i, t[i] + 1) <= t[y] + (y - i) + e
        BY <1>2, <2>1, <2>2, <2>3, <3>2, <3>4, <4>2, <4>3, <4>4, <4>5
      <4> QED
        BY <2>1, <2>3, <3>1, <3>2, <4>6 DEF Near
    <3> QED
      BY <3>5, <3>6
  <2>4. CASE y = i
    <3>1. u[x] = t[x] /\ u[y] = t[i] + 1
      BY <1>1, <1>2, <1>3, <2>4
    <3>2. t[i] + 1 <= Emitted(g, i - 1, t[i - 1]) /\ i - 1 \in 1 .. n
      BY <1>2, <1>3, <2>4
    <3>3. CASE x = i - 1
      <4>1. Emitted(g, x, t[x]) \in Nat
        BY <2>2, <3>2 DEF Emitted
      <4>2. PICK m : m = Emitted(g, x, t[x]) /\ m \in Nat
        BY <4>1
      <4>3. t[i] + 1 <= m /\ m <= t[i] + (i - x) + e /\ t[i] \in Nat
        BY <1>2, <2>2, <2>4, <3>2, <3>3, <4>2
      <4>4. m <= t[i] + 1 + (i - x) + e
        BY <1>2, <1>3, <2>1, <4>2, <4>3
      <4> QED
        BY <2>1, <2>4, <3>1, <4>2, <4>3, <4>4 DEF Near
    <3>4. CASE x # i - 1
      <4>1. x < i - 1 /\ i - 1 # f /\ (f = 0 \/ i - 1 <= f \/ x >= f)
        BY <1>2, <1>3, <2>4, <3>4
      <4>2. t[i - 1] <= Emitted(g, x, t[x])
        BY <1>1, <3>2, <4>1 DEF Lag, Near
      <4>3. Emitted(g, i - 1, t[i - 1]) = t[i - 1]
        BY <1>1, <4>1 DEF Emitted
      <4>4. t[i - 1] \in Nat /\ Emitted(g, x, t[x]) \in Nat
        BY <1>2, <2>2, <3>2 DEF Emitted
      <4>5. t[i] + 1 <= Emitted(g, x, t[x])
        BY <1>2, <3>2, <4>2, <4>3, <4>4
      <4> QED
        BY <1>2, <2>1, <2>2, <2>4, <3>1, <4>4, <4>5 DEF Near
    <3> QED
      BY <3>3, <3>4
  <2>5. CASE x # i /\ y # i
    BY <1>1, <1>2, <2>1, <2>2, <2>5 DEF Near
  <2> QED
    BY <2>3, <2>4, <2>5
<1> QED
  BY <1>1, <1>2, <1>3 DEF Lag

LEMMA SourceFacts ==
  ASSUME NEW g, g.rate \in {1, 2}, NEW k \in Nat
  PROVE  /\ SourceOf(g, k) \in Nat /\ SourceOf(g, k) <= SourceOf(g, k + 1)
         /\ k >= 1 => SourceOf(g, k) >= 1
         /\ g.rate = 2 => SourceOf(g, 2 * k) = k + 1 /\ SourceOf(g, 2 * k + 1) = k + 1
BY DEF SourceOf

LEMMA SourceNat ==
  ASSUME NEW g, g.rate \in {1, 2}, NEW k \in Nat
  PROVE  SourceOf(g, k) \in Nat
BY DEF SourceOf

LEMMA SourceGrows ==
  ASSUME NEW g, g.rate \in {1, 2}, NEW a \in Nat, NEW b \in Nat, a <= b
  PROVE  SourceOf(g, a) <= SourceOf(g, b)
BY DEF SourceOf

\* The origin of a frame's origin is a launch behind that frame.
LEMMA OriginJoins ==
  ASSUME NEW g, Shape(g), NEW r \in 1 .. g.n - 1, NEW o \in 1 .. g.n - 1, NEW i \in 1 .. g.n,
         r < o, o < i, NEW k \in Nat \ {0}
  PROVE  /\ Origin(g, o, i, k) \in Nat
         /\ Origin(g, r, o, Latest(g, o, Origin(g, o, i, k))) = Origin(g, r, i, k)
<1>1. g.f \in Nat /\ g.n \in Nat /\ g.rate \in {1, 2}
  BY DEF Shape
<1>2. SourceOf(g, k) \in Nat \ {0}
  BY <1>1 DEF SourceOf
<1> QED
  BY <1>1, <1>2 DEF Origin, Latest

LEMMA OriginGrows ==
  ASSUME NEW g, Shape(g), NEW r \in 1 .. g.n - 1, NEW o \in 1 .. g.n,
         NEW a \in Nat, NEW b \in Nat, a <= b
  PROVE  Origin(g, r, o, a) <= Origin(g, r, o, b) /\ Origin(g, r, o, a) \in Int
<1>1. g.f \in Nat /\ g.n \in Nat /\ g.rate \in {1, 2}
  BY DEF Shape
<1>2. SourceOf(g, a) \in Nat /\ SourceOf(g, b) \in Nat /\ SourceOf(g, a) <= SourceOf(g, b)
  BY <1>1, SourceGrows DEF SourceOf
<1> QED
  BY <1>1, <1>2 DEF Origin
-----------------------------------------------------------------------------
(* The invariant *)

\* The environment and the chain are those of g.
Wired(g) ==
  /\ g.n = N /\ DOMAIN chain = 1 .. g.n /\ setup.mode # "uniform"
  /\ EmitBurst(setup.mode) = g.rate /\ (g.rate = 2 <=> setup.mode = "double")
  /\ \A i \in 1 .. g.n : /\ Op(i) = "frc" <=> i = g.f
                         /\ Op(i) = "scale" /\ setup.identity <=> i \in g.pass
                         /\ QueueCap(setup, chain[i]) <= (IF g.deep = i THEN 2 ELSE 1)
  /\ \A i \in 1 .. g.n - 1 : g.pool[i] = Pool(i)

\* Content v of buffer s of operator o is the k-th frame in front of operator j: only
\* operators that hand it on are in between, and FRC, if it is, has handed on a frame
\* it took.
Made(g, t, j, k, o, s, v) ==
  /\ o \in Makers(g) /\ o < j /\ \A r \in o + 1 .. j - 1 : r \in g.pass \/ r = g.f
  /\ o < g.f /\ g.f < j => k = 1 \/ SourceOf(g, k) = SourceOf(g, k - 1)
  /\ Copy(g.pool[o], Origin(g, o, j, k), s, v)
  /\ Origin(g, o, j, k) <= Runs(g, o, t[o])

\* The k-th frame in front of operator j is m.
Item(g, t, j, k, m) ==
  IF j = 1 THEN m.ver = 0
  ELSE \E o, s : m.buf = <<o, s>> /\ Made(g, t, j, k, o, s, m.ver)

\* Launch y of operator i.
Kernel(g, t, i, y, c) ==
  /\ i < g.n => \E s, v : c.dst = <<i, s>> /\ Copy(g.pool[i], y, s, v)
  /\ i = 1 => c.reads = {}
  /\ i > 1 => \E m \in c.reads : Item(g, t, i, Latest(g, i, y), m)
  /\ \A m \in c.reads : \E k \in {y, Latest(g, i, y)} : Item(g, t, i, k, m)

Queues(g, t) ==
  /\ \A i \in 1 .. g.n - 1 : Emitted(g, i, t[i]) = t[i + 1] + Len(q[i + 1])
  /\ \A j \in 1 .. g.n : \A x \in 1 .. Len(q[j]) : Item(g, t, j, t[j] + x, q[j][x])
  /\ \A i \in 1 .. g.n :
       IF i = g.f /\ t[i] > 0 THEN frc[i].prev # NoFrame /\ Item(g, t, i, t[i], frc[i].prev)
       ELSE frc[i].prev = NoFrame

Kernels(g, t, d) ==
  /\ \A i \in Makers(g) \cup {g.n} :
       /\ d[i] \in Nat /\ Listed(stream[i]) /\ d[i] + Len(stream[i]) = Runs(g, i, t[i])
       /\ \A x \in 1 .. Len(stream[i]) : Kernel(g, t, i, d[i] + x, stream[i][x])
  /\ \A i \in g.pass : stream[i] = <<>>

Pools(g, t, d) ==
  \A i \in Makers(g) :
    /\ \E v : Copy(g.pool[i], Runs(g, i, t[i]) + 1, slot[i], v)
    /\ \A s \in 0 .. g.pool[i] - 1 :
         /\ Filled(g.pool[i], Runs(g, i, t[i]), s, launched[<<i, s>>])
         /\ Filled(g.pool[i], d[i], s, written[<<i, s>>])

\* A kernel runs after those that made what it reads.
Done(g, d) ==
  \A r \in Makers(g), j \in Makers(g) \cup {g.n} :
    r < j /\ d[j] > 0 => d[r] >= Origin(g, r, j, Latest(g, j, d[j]))

Packed(g, t, d) ==
  IF packing = Idle THEN stream[g.n] = <<>>
  ELSE t[g.n] > 0 /\ d[g.n] >= t[g.n] - 1 /\ Item(g, t, g.n, t[g.n], packing.src)

PoolInv(g, t, d) ==
  /\ Shape(g) /\ Wired(g) /\ Lag(g, t) /\ Queues(g, t)
  /\ Kernels(g, t, d) /\ Pools(g, t, d) /\ Done(g, d) /\ Packed(g, t, d)
-----------------------------------------------------------------------------
(* Items *)

LEMMA RunsGrow ==
  ASSUME NEW g, NEW i, NEW a \in Nat, NEW b \in Nat, a <= b
  PROVE  Runs(g, i, a) \in Nat /\ Runs(g, i, a) <= Runs(g, i, b)
BY DEF Runs

LEMMA ItemLater ==
  ASSUME NEW g, Shape(g), NEW t, NEW u, \A i \in 1 .. g.n : t[i] \in Nat /\ u[i] \in Nat /\ t[i] <= u[i],
         NEW j, NEW k, NEW m, Item(g, t, j, k, m)
  PROVE  Item(g, u, j, k, m)
<1>1. CASE j = 1
  BY <1>1 DEF Item
<1>2. CASE j # 1
  <2>1. PICK o, s : m.buf = <<o, s>> /\ Made(g, t, j, k, o, s, m.ver)
    BY <1>2 DEF Item
  <2>2. Made(g, u, j, k, o, s, m.ver)
    <3>1. PICK a, b, c : /\ a = Runs(g, o, t[o]) /\ b = Runs(g, o, u[o]) /\ c = Origin(g, o, j, k)
      OBVIOUS
    <3>2. o \in Makers(g) /\ c <= a /\ Copy(g.pool[o], c, s, m.ver)
      BY <2>1, <3>1 DEF Made
    <3>3. o \in 1 .. g.n
      BY <3>2 DEF Makers, Shape
    <3>4. a \in Nat /\ b \in Nat /\ a <= b
      BY <3>1, <3>3, RunsGrow
    <3>5. c \in Int
      <4>1. g.pool[o] \in Nat
        BY <3>2 DEF Shape, Makers
      <4> QED
        BY <3>2, <4>1 DEF Copy
    <3>6. c <= b
      BY <3>2, <3>4, <3>5
    <3> QED
      BY <2>1, <3>1, <3>6 DEF Made
  <2> QED
    BY <1>2, <2>1, <2>2 DEF Item
<1> QED
  BY <1>1, <1>2

\* What comes out of a launch.
LEMMA ItemOfLaunch ==
  ASSUME NEW g, Shape(g), NEW u, NEW i \in Makers(g), NEW k, NEW s, NEW m, m.buf = <<i, s>>,
         Copy(g.pool[i], Origin(g, i, i + 1, k), s, m.ver), Origin(g, i, i + 1, k) <= Runs(g, i, u[i])
  PROVE  Item(g, u, i + 1, k, m)
<1>1. i \in 1 .. g.n - 1 /\ g.f \in Nat /\ i < i + 1 /\ i + 1 # 1
  BY DEF Makers, Shape
<1>2. i + 1 .. (i + 1) - 1 = {}
  BY <1>1
<1>3. ~(i < g.f /\ g.f < i + 1)
  BY <1>1
<1>4. Made(g, u, i + 1, k, i, s, m.ver)
  BY <1>1, <1>2, <1>3 DEF Made
<1> QED
  BY <1>1, <1>4 DEF Item

\* What is handed on: by an operator with nothing to do, or by FRC.
LEMMA ItemHandedOn ==
  ASSUME NEW g, Shape(g), NEW t, NEW i \in 2 .. g.n - 1, NEW k \in Nat \ {0}, NEW l \in Nat \ {0},
         NEW m, Item(g, t, i, k, m),
         \/ i \in g.pass /\ l = k
         \/ i = g.f /\ l = Emitted(g, i, k) /\ (g.rate = 2 \/ k = 1)
  PROVE  Item(g, t, i + 1, l, m)
<1>1. PICK n, f : n = g.n /\ f = g.f /\ n \in Nat /\ f \in 0 .. n - 1 /\ f # 1 /\ g.rate \in {1, 2}
                  /\ f \notin g.pass
  BY DEF Shape
<1>2. PICK o, s : m.buf = <<o, s>> /\ Made(g, t, i, k, o, s, m.ver)
  BY DEF Item
<1>3. /\ o \in Makers(g) /\ o < i /\ \A r \in o + 1 .. i - 1 : r \in g.pass \/ r = f
      /\ o < f /\ f < i => k = 1 \/ SourceOf(g, k) = SourceOf(g, k - 1)
      /\ Copy(g.pool[o], Origin(g, o, i, k), s, m.ver)
      /\ Origin(g, o, i, k) <= Runs(g, o, t[o])
  BY <1>1, <1>2 DEF Made
<1>4. o \in 1 .. n - 1
  BY <1>1, <1>3 DEF Makers
<1>5. /\ Origin(g, o, i + 1, l) = Origin(g, o, i, k)
      /\ o < f /\ f < i + 1 => l = 1 \/ SourceOf(g, l) = SourceOf(g, l - 1)
  <2>1. CASE i \in g.pass /\ l = k
    <3>1. i # f
      BY <1>1, <2>1
    <3> QED
      BY <1>1, <1>3, <1>4, <2>1, <3>1 DEF Origin
  <2>2. CASE i = f /\ l = Emitted(g, i, k) /\ (g.rate = 2 \/ k = 1)
    <3>1. CASE g.rate = 1
      <4>1. l = 1 /\ k = 1
        BY <1>1, <2>2, <3>1 DEF Emitted
      <4> QED
        BY <1>1, <1>3, <1>4, <2>2, <3>1, <4>1 DEF Origin, SourceOf
    <3>2. CASE g.rate = 2
      <4>1. l = 2 * (k - 1) + 1
        BY <1>1, <2>2, <3>2 DEF Emitted
      <4>2. SourceOf(g, l) = k /\ SourceOf(g, l - 1) = k
        BY <3>2, <4>1 DEF SourceOf
      <4> QED
        BY <1>1, <1>3, <1>4, <2>2, <3>2, <4>1, <4>2 DEF Origin
    <3> QED
      BY <1>1, <3>1, <3>2
  <2> QED
    BY <1>1, <2>1, <2>2
<1>6. o < i + 1 /\ \A r \in o + 1 .. (i + 1) - 1 : r \in g.pass \/ r = f
  <2>1. i \in g.pass \/ i = f
    BY <1>1
  <2>2. \A r \in o + 1 .. (i + 1) - 1 : r = i \/ r \in o + 1 .. i - 1
    BY <1>4
  <2> QED
    BY <1>3, <1>4, <2>1, <2>2
<1>7. Made(g, t, i + 1, l, o, s, m.ver)
  BY <1>1, <1>3, <1>5, <1>6 DEF Made
<1> QED
  BY <1>2, <1>7 DEF Item

LEMMA ItemIsFrame ==
  ASSUME NEW g, NEW t, NEW j, j # 1, NEW k, NEW m, Item(g, t, j, k, m)
  PROVE  m.ver \in Nat \ {0} /\ m # NoFrame
<1>1. PICK o, s : Made(g, t, j, k, o, s, m.ver)
  BY DEF Item
<1>2. m.ver \in Nat \ {0}
  BY <1>1 DEF Made, Copy
<1> QED
  BY <1>2 DEF NoFrame

LEMMA ListedFacts ==
  ASSUME NEW s, Listed(s)
  PROVE  /\ Len(s) \in Nat /\ DOMAIN s = 1 .. Len(s)
         /\ s # <<>> => /\ Len(s) >= 1 /\ Head(s) = s[1] /\ Listed(Tail(s))
                        /\ Len(Tail(s)) = Len(s) - 1
                        /\ \A x \in 1 .. Len(s) - 1 : Tail(s)[x] = s[x + 1]
<1>1. PICK S : s \in Seq(S)
  BY DEF Listed
<1>2. Len(s) \in Nat /\ DOMAIN s = 1 .. Len(s)
  BY <1>1
<1>3. ASSUME s # <<>>
      PROVE  /\ Len(s) >= 1 /\ Head(s) = s[1] /\ Listed(Tail(s))
             /\ Len(Tail(s)) = Len(s) - 1
             /\ \A x \in 1 .. Len(s) - 1 : Tail(s)[x] = s[x + 1]
  <2>1. /\ Head(s) = s[1] /\ Tail(s) \in Seq(S) /\ Len(Tail(s)) = Len(s) - 1
        /\ \A x \in 1 .. Len(s) - 1 : Tail(s)[x] = s[x + 1] /\ Len(s) >= 1
    BY <1>1, <1>3, HeadTailProperties
  <2>2. Len(s) >= 1
    BY <1>1, <1>3
  <2>3. Listed(Tail(s))
    BY <2>1, Zenon DEF Listed
  <2> QED
    BY <2>1, <2>2, <2>3
<1> QED
  BY <1>2, <1>3

LEMMA ListedJoined ==
  ASSUME NEW s, NEW t, Listed(s), Listed(t)
  PROVE  /\ Listed(s \o t) /\ Len(s \o t) = Len(s) + Len(t)
         /\ \A x \in 1 .. Len(s) + Len(t) :
              (s \o t)[x] = IF x <= Len(s) THEN s[x] ELSE t[x - Len(s)]
<1>1. PICK S : s \in Seq(S)
  BY DEF Listed
<1>2. PICK T : t \in Seq(T)
  BY DEF Listed
<1>3. PICK U : U = S \cup T
  OBVIOUS
<1>4. s \in Seq(U) /\ t \in Seq(U)
  BY <1>1, <1>2, <1>3
<1> QED
  BY <1>4, ListedJoin, ConcatProperties

\* Operator i takes the next frame and hands out on: t becomes u.
Step(g, t, i, u) == \A j \in 1 .. g.n : u[j] = IF j = i THEN t[i] + 1 ELSE t[j]
Handing(g, t, i, u, out) ==
  /\ i \in 1 .. g.n - 1 /\ q[i] # <<>> /\ Step(g, t, i, u) /\ Listed(out)
  /\ Emitted(g, i, t[i] + 1) = Emitted(g, i, t[i]) + Len(out)
  /\ Len(q[i + 1]) + Len(out) <= (IF g.deep = i + 1 THEN 2 ELSE 1)
  /\ \A x \in 1 .. Len(out) : Item(g, u, i + 1, Emitted(g, i, t[i]) + x, out[x])
  /\ q' = [q EXCEPT ![i] = Tail(@), ![i + 1] = @ \o out]
  /\ \A j \in 1 .. g.n : j # i => frc'[j].prev = frc[j].prev
  /\ frc'[i].prev = IF i = g.f THEN Head(q[i]) ELSE frc[i].prev

\* The frames in the queues when operator i hands on what it made of the next one.
LEMMA QueueStep ==
  ASSUME GridInv, NEW g, NEW t, Shape(g), Wired(g), Lag(g, t), Queues(g, t),
         NEW i, NEW u, NEW out, Handing(g, t, i, u, out)
  PROVE  Lag(g, u) /\ Queues(g, u)'
<1>1. PICK n, f : /\ n = g.n /\ f = g.f /\ n \in Nat /\ f \in 0 .. n - 1 /\ f # 1
                  /\ g.rate \in {1, 2} /\ n >= 2
  BY DEF Shape
<1>0. /\ i \in 1 .. n - 1 /\ q[i] # <<>> /\ Listed(out)
      /\ \A j \in 1 .. n : u[j] = IF j = i THEN t[i] + 1 ELSE t[j]
  BY <1>1 DEF Handing, Step
<1>2. /\ i \in 1 .. n /\ i + 1 \in 1 .. n /\ i < n
      /\ \A j \in 1 .. n : t[j] \in Nat /\ u[j] \in Nat /\ t[j] <= u[j]
  BY <1>0, <1>1 DEF Lag
<1>3. DOMAIN q = 1 .. n /\ \A j \in 1 .. n : Listed(q[j])
  <2>1. DOMAIN q = 1 .. n /\ \A j \in 1 .. n : Line(q[j], high)
    BY <1>1 DEF GridInv, Wired
  <2> QED
    BY <2>1 DEF Line, Listed
<1>4. /\ \A j \in 1 .. n : Len(q[j]) \in Nat
      /\ Len(q[i]) >= 1 /\ Head(q[i]) = q[i][1] /\ Len(Tail(q[i])) = Len(q[i]) - 1
      /\ \A x \in 1 .. Len(q[i]) - 1 : Tail(q[i])[x] = q[i][x + 1]
  BY <1>0, <1>2, <1>3, ListedFacts
<1>5. /\ q'[i] = Tail(q[i]) /\ q'[i + 1] = q[i + 1] \o out
      /\ \A j \in 1 .. n : j # i /\ j # i + 1 => q'[j] = q[j]
  <2>1. q' = [q EXCEPT ![i] = Tail(@), ![i + 1] = @ \o out]
    BY DEF Handing
  <2>2. i + 1 # i
    BY <1>2
  <2> QED
    BY <1>2, <1>3, <2>1, <2>2
<1>6. Len(out) \in Nat /\ Len(q'[i + 1]) = Len(q[i + 1]) + Len(out)
  BY <1>0, <1>2, <1>3, <1>5, ListedFacts, ListedJoined
<1>7. ASSUME NEW j \in 1 .. n - 1
      PROVE  Emitted(g, j, t[j]) = t[j + 1] + Len(q[j + 1])
  BY <1>1 DEF Queues
<1>8. Lag(g, u)
  <2>1. i > 1 => t[i] + 1 <= Emitted(g, i - 1, t[i - 1])
    <3>1. i > 1 => i - 1 \in 1 .. n - 1 /\ (i - 1) + 1 = i
      BY <1>1, <1>2
    <3>2. i > 1 => Emitted(g, i - 1, t[i - 1]) = t[i] + Len(q[i])
      BY <1>7, <3>1
    <3> QED
      BY <1>2, <1>4, <3>2
  <2>2. Emitted(g, i, t[i] + 1) <= t[i + 1] + (IF g.deep = i + 1 THEN 2 ELSE 1)
    <3>1. PICK c : c \in Nat /\ c = IF g.deep = i + 1 THEN 2 ELSE 1
      OBVIOUS
    <3>2. Emitted(g, i, t[i] + 1) = t[i + 1] + Len(q[i + 1]) + Len(out)
      <4>1. Emitted(g, i, t[i] + 1) = Emitted(g, i, t[i]) + Len(out)
        BY DEF Handing
      <4>2. Emitted(g, i, t[i]) = t[i + 1] + Len(q[i + 1])
        BY <1>0, <1>7
      <4> QED
        BY <1>2, <1>4, <1>6, <4>1, <4>2
    <3>3. t[i + 1] \in Nat /\ Len(q[i + 1]) \in Nat /\ Len(q[i + 1]) + Len(out) <= c
      BY <1>1, <1>2, <1>4, <3>1 DEF Handing
    <3> QED
      BY <1>6, <3>1, <3>2, <3>3
  <2> QED
    BY <1>0, <1>1, <1>2, <2>1, <2>2, LagStep
<1>9. ASSUME NEW j \in 1 .. n - 1
      PROVE  Emitted(g, j, u[j]) = u[j + 1] + Len(q'[j + 1])
  <2>1. j \in 1 .. n /\ j + 1 \in 1 .. n
    BY <1>1
  <2>2. CASE j = i
    <3>1. u[j] = t[i] + 1 /\ u[j + 1] = t[i + 1]
      BY <1>0, <1>2, <2>2
    <3>2. Emitted(g, i, t[i] + 1) = Emitted(g, i, t[i]) + Len(out)
      BY DEF Handing
    <3>3. Emitted(g, i, t[i]) = t[i + 1] + Len(q[i + 1])
      BY <1>0, <1>7
    <3> QED
      BY <1>2, <1>4, <1>6, <2>2, <3>1, <3>2, <3>3
  <2>3. CASE j + 1 = i
    <3>1. u[j] = t[j] /\ u[j + 1] = t[i] + 1 /\ Len(q'[j + 1]) = Len(q[i]) - 1
      <4>1. j # i
        BY <1>0, <2>3
      <4>2. u[j] = t[j] /\ u[i] = t[i] + 1
        BY <1>0, <1>2, <2>1, <4>1
      <4>3. Len(q'[i]) = Len(q[i]) - 1
        BY <1>4, <1>5
      <4> QED
        BY <2>3, <4>2, <4>3
    <3>2. Emitted(g, j, t[j]) = t[i] + Len(q[i])
      BY <1>7, <2>3
    <3>3. PICK a, b : a = t[i] /\ b = Len(q[i]) /\ a \in Nat /\ b \in Nat
      BY <1>2, <1>4
    <3>4. a + b = (a + 1) + (b - 1)
      BY <3>3
    <3> QED
      BY <3>1, <3>2, <3>3, <3>4
  <2>4. CASE j # i /\ j + 1 # i
    <3>1. u[j] = t[j] /\ u[j + 1] = t[j + 1] /\ q'[j + 1] = q[j + 1]
      BY <1>0, <1>2, <1>5, <2>1, <2>4
    <3> QED
      BY <1>7, <3>1
  <2> QED
    BY <2>2, <2>3, <2>4
<1>10. ASSUME NEW j \in 1 .. n, NEW x \in 1 .. Len(q[j])
       PROVE  Item(g, u, j, t[j] + x, q[j][x])
  <2>1. Item(g, t, j, t[j] + x, q[j][x])
    BY <1>1 DEF Queues
  <2> QED
    BY <1>1, <1>2, <2>1, ItemLater
<1>11. ASSUME NEW j \in 1 .. n, NEW x \in 1 .. Len(q'[j])
       PROVE  Item(g, u, j, u[j] + x, q'[j][x])
  <2>1. CASE j = i
    <3>1. Len(q'[j]) = Len(q[i]) - 1
      BY <1>4, <1>5, <2>1
    <3>2. x \in 1 .. Len(q[i]) - 1 /\ x + 1 \in 1 .. Len(q[i])
      BY <1>2, <1>4, <3>1
    <3>3. q'[j][x] = q[i][x + 1]
      BY <1>4, <1>5, <2>1, <3>2
    <3>4. u[j] + x = t[i] + (x + 1)
      <4>1. u[j] = t[i] + 1 /\ t[i] \in Nat /\ x \in Nat
        BY <1>0, <1>2, <2>1, <3>2
      <4> QED
        BY <4>1
    <3>5. Item(g, u, i, t[i] + (x + 1), q[i][x + 1])
      BY <1>2, <1>10, <3>2
    <3> QED
      BY <2>1, <3>3, <3>4, <3>5
  <2>2. CASE j = i + 1
    <3>1. PICK l : l = Len(q[i + 1]) /\ l \in Nat /\ x \in 1 .. l + Len(out) /\ u[j] = t[i + 1]
      <4>1. u[j] = t[i + 1]
        BY <1>0, <1>2, <2>2
      <4>2. Len(q'[j]) = Len(q[i + 1]) + Len(out) /\ Len(q[i + 1]) \in Nat
        BY <1>2, <1>4, <1>6, <2>2
      <4> QED
        BY <4>1, <4>2
    <3>2. q'[j][x] = IF x <= l THEN q[i + 1][x] ELSE out[x - l]
      BY <1>0, <1>2, <1>3, <1>5, <2>2, <3>1, ListedJoined
    <3>3. CASE x <= l
      <4>1. x \in 1 .. Len(q[i + 1])
        BY <3>1, <3>3
      <4>2. Item(g, u, i + 1, t[i + 1] + x, q[i + 1][x])
        BY <1>2, <1>10, <4>1
      <4> QED
        BY <2>2, <3>1, <3>2, <3>3, <4>2
    <3>4. CASE ~(x <= l)
      <4>1. x - l \in 1 .. Len(out)
        BY <1>6, <3>1, <3>4
      <4>2. Item(g, u, i + 1, Emitted(g, i, t[i]) + (x - l), out[x - l])
        BY <4>1 DEF Handing
      <4>3. Emitted(g, i, t[i]) = t[i + 1] + l
        BY <1>0, <1>7, <3>1
      <4>4. Emitted(g, i, t[i]) + (x - l) = t[i + 1] + x
        <5>1. PICK e : e = Emitted(g, i, t[i])
          OBVIOUS
        <5>2. e = t[i + 1] + l /\ t[i + 1] \in Nat /\ l \in Nat /\ x \in Nat
          BY <1>2, <3>1, <4>3, <5>1
        <5>3. e + (x - l) = t[i + 1] + x
          BY <5>2
        <5> QED
          BY <5>1, <5>3
      <4> QED
        BY <2>2, <3>1, <3>2, <3>4, <4>2, <4>4
    <3> QED
      BY <3>3, <3>4
  <2>3. CASE j # i /\ j # i + 1
    <3>1. q'[j] = q[j] /\ u[j] = t[j]
      BY <1>0, <1>5, <2>3
    <3> QED
      BY <1>10, <3>1
  <2> QED
    BY <2>1, <2>2, <2>3
<1>12. ASSUME NEW j \in 1 .. n
       PROVE  IF j = f /\ u[j] > 0 THEN frc'[j].prev # NoFrame /\ Item(g, u, j, u[j], frc'[j].prev)
              ELSE frc'[j].prev = NoFrame
  <2>1. IF j = f /\ t[j] > 0 THEN frc[j].prev # NoFrame /\ Item(g, t, j, t[j], frc[j].prev)
        ELSE frc[j].prev = NoFrame
    BY <1>1 DEF Queues
  <2>2. CASE j = i /\ j = f
    <3>1. frc'[j].prev = q[j][1] /\ u[j] = t[j] + 1 /\ 1 \in 1 .. Len(q[j])
      BY <1>0, <1>1, <1>2, <1>4, <2>2 DEF Handing
    <3>2. Item(g, u, j, u[j], frc'[j].prev)
      BY <1>10, <3>1
    <3>3. frc'[j].prev # NoFrame
      BY <1>1, <2>2, <3>2, ItemIsFrame
    <3>4. u[j] > 0
      BY <1>2, <3>1
    <3> QED
      BY <2>2, <3>2, <3>3, <3>4
  <2>3. CASE j = i /\ j # f
    BY <1>1, <2>1, <2>3 DEF Handing
  <2>4. CASE j # i
    <3>1. u[j] = t[j] /\ frc'[j].prev = frc[j].prev
      BY <1>0, <1>1, <2>4 DEF Handing
    <3>2. Item(g, t, j, t[j], frc[j].prev) => Item(g, u, j, t[j], frc[j].prev)
      BY <1>1, <1>2, ItemLater
    <3> QED
      BY <2>1, <3>1, <3>2
  <2> QED
    BY <2>2, <2>3, <2>4
<1>13. Queues(g, u)'
  BY <1>1, <1>9, <1>11, <1>12 DEF Queues
<1> QED
  BY <1>8, <1>13
-----------------------------------------------------------------------------
(* Launching and running *)

LEMMA PoolBuffers ==
  ASSUME HostInv, NEW g, Shape(g), Wired(g)
  PROVE  /\ DOMAIN slot = 1 .. g.n /\ DOMAIN stream = 1 .. g.n
         /\ \A i \in 1 .. g.n - 1 : \A s \in 0 .. g.pool[i] - 1 :
              /\ <<i, s>> \in DOMAIN launched /\ <<i, s>> \in DOMAIN written
              /\ launched[<<i, s>>] \in Nat /\ written[<<i, s>>] \in Nat
<1>1. /\ DOMAIN slot = 1 .. g.n /\ DOMAIN stream = 1 .. g.n
      /\ launched \in [Buffers(chain) -> Nat] /\ written \in [Buffers(chain) -> Nat]
  BY DEF HostInv, Wired
<1>2. ASSUME NEW i \in 1 .. g.n - 1, NEW s \in 0 .. g.pool[i] - 1
      PROVE  <<i, s>> \in Buffers(chain)
  <2>1. g.n = Len(chain) /\ g.n \in Nat
    BY DEF Wired, Shape, N
  <2>2. g.pool[i] \in Nat /\ g.pool[i] <= Ring + 8 + FrcSpare
    <3>1. g.pool[i] = Pool(i) /\ EmitBurst(setup.mode) \in {1, 2} /\ g.pool[i] \in Nat
      BY DEF Wired, Shape
    <3>2. Pool(i) \in {Ring, 2 * EmitBurst(setup.mode) + FrcSpare}
      BY DEF Pool
    <3> QED
      BY <3>1, <3>2, HostConstants
  <2>3. s \in 0 .. Ring + 8 + FrcSpare
    BY <2>2, HostConstants
  <2> QED
    BY <2>1, <2>3, BufferNames
<1> QED
  BY <1>1, <1>2

LEMMA KernelLater ==
  ASSUME NEW g, Shape(g), NEW t, NEW u, \A i \in 1 .. g.n : t[i] \in Nat /\ u[i] \in Nat /\ t[i] <= u[i],
         NEW i, NEW y, NEW c, Kernel(g, t, i, y, c)
  PROVE  Kernel(g, u, i, y, c)
<1>1. \A k, m : Item(g, t, i, k, m) => Item(g, u, i, k, m)
  BY ItemLater
<1> QED
  BY <1>1 DEF Kernel

LEMMA StepGrows ==
  ASSUME NEW g, NEW t, Lag(g, t), NEW i \in 1 .. g.n, NEW u, Step(g, t, i, u)
  PROVE  /\ \A j \in 1 .. g.n : t[j] \in Nat /\ u[j] \in Nat /\ t[j] <= u[j]
         /\ u[i] = t[i] + 1 /\ \A j \in 1 .. g.n : j # i => u[j] = t[j]
BY DEF Lag, Step

\* The buffers are handed out in turn.
LEMMA CopyNext ==
  ASSUME NEW p \in Nat \ {0}, NEW y \in Int, NEW s, NEW v, Copy(p, y, s, v)
  PROVE  \E w : Copy(p, y + 1, (s + 1) % p, w)
<1>1. s \in 0 .. p - 1 /\ v \in Nat \ {0} /\ y = p * v - p + s + 1
  BY DEF Copy
<1>2. CASE s + 1 < p
  <2>1. (s + 1) % p = s + 1
    BY <1>1, <1>2
  <2>2. PICK a : a = p * v /\ a \in Int
    BY <1>1
  <2>3. y + 1 = (a - p) + (s + 1) + 1
    BY <1>1, <2>2
  <2>4. Copy(p, y + 1, s + 1, v)
    BY <1>1, <1>2, <2>2, <2>3 DEF Copy
  <2> QED
    BY <2>1, <2>4
<1>3. CASE s + 1 = p
  <2>1. (s + 1) % p = 0
    BY <1>3
  <2>2. p * (v + 1) = p * v + p
    BY <1>1
  <2>3. PICK a : a = p * v /\ a \in Int
    BY <1>1
  <2>4. y + 1 = (a + p) - p + 0 + 1
    BY <1>1, <1>3, <2>3
  <2>5. Copy(p, y + 1, 0, v + 1)
    BY <1>1, <2>2, <2>3, <2>4 DEF Copy
  <2> QED
    BY <2>1, <2>5
<1> QED
  BY <1>1, <1>2, <1>3

\* What a launch writes is the next content of its buffer.
LEMMA LaunchedNext ==
  ASSUME HostInv, NEW g, NEW t, NEW d, Shape(g), Wired(g), Lag(g, t), Pools(g, t, d),
         NEW i \in Makers(g)
  PROVE  /\ slot[i] \in 0 .. g.pool[i] - 1
         /\ Copy(g.pool[i], Runs(g, i, t[i]) + 1, slot[i], launched[<<i, slot[i]>>] + 1)
<1>1. PICK v : Copy(g.pool[i], Runs(g, i, t[i]) + 1, slot[i], v)
  BY DEF Pools
<1>2. PICK p, x, s : p = g.pool[i] /\ x = Runs(g, i, t[i]) /\ s = slot[i]
  OBVIOUS
<1>3. p \in Nat \ {0} /\ x \in Nat
  <2>1. i \in 1 .. g.n - 1 /\ i \in 1 .. g.n
    BY DEF Makers, Shape
  <2> QED
    BY <1>2, <2>1 DEF Shape, Lag, Runs
<1>4. Copy(p, x + 1, s, v)
  BY <1>1, <1>2
<1>5. s \in 0 .. p - 1
  BY <1>4 DEF Copy
<1>6. Filled(p, x, s, launched[<<i, s>>])
  BY <1>2, <1>5 DEF Pools
<1>7. v = launched[<<i, s>>] + 1
  BY <1>3, <1>4, <1>5, <1>6, FilledNext
<1> QED
  BY <1>2, <1>4, <1>5, <1>7

\* Operator i launches a kernel that reads R: t becomes u.
Launching(g, t, i, u, R) ==
  /\ i \in Makers(g) /\ Step(g, t, i, u) /\ Runs(g, i, u[i]) = Runs(g, i, t[i]) + 1
  /\ i = 1 => R = {}
  /\ i > 1 => \E m \in R : Item(g, u, i, Latest(g, i, Runs(g, i, u[i])), m)
  /\ \A m \in R : \E k \in {Runs(g, i, u[i]), Latest(g, i, Runs(g, i, u[i]))} : Item(g, u, i, k, m)
  /\ slot' = [slot EXCEPT ![i] = (@ + 1) % g.pool[i]]
  /\ launched' = [launched EXCEPT ![<<i, slot[i]>>] = @ + 1]
  /\ stream' = [stream EXCEPT ![i] = @ \o <<[dst |-> <<i, slot[i]>>, reads |-> R]>>]
  /\ written' = written

LEMMA LaunchStep ==
  ASSUME HostInv, NEW g, NEW t, NEW d, Shape(g), Wired(g), Lag(g, t),
         Kernels(g, t, d), Pools(g, t, d), NEW i, NEW u, NEW R, Launching(g, t, i, u, R)
  PROVE  Kernels(g, u, d)' /\ Pools(g, u, d)'
<1>1. PICK n, p, x, s : n = g.n /\ p = g.pool[i] /\ x = Runs(g, i, t[i]) /\ s = slot[i]
  OBVIOUS
<1>2. i \in Makers(g) /\ i \in 1 .. n - 1 /\ i \in 1 .. n /\ n \in Nat /\ p \in Nat \ {0}
  BY <1>1 DEF Launching, Makers, Shape
<1>3. /\ \A j \in 1 .. n : t[j] \in Nat /\ u[j] \in Nat /\ t[j] <= u[j]
      /\ \A j \in 1 .. n : j # i => u[j] = t[j]
  BY <1>1, <1>2, StepGrows DEF Launching
<1>4. x \in Nat
  BY <1>1, <1>2, <1>3 DEF Runs
<1>5. s \in 0 .. p - 1 /\ Copy(p, x + 1, s, launched[<<i, s>>] + 1)
  BY <1>1, <1>2, LaunchedNext
<1>6. /\ DOMAIN slot = 1 .. n /\ DOMAIN stream = 1 .. n
      /\ \A j \in 1 .. n - 1 : \A z \in 0 .. g.pool[j] - 1 :
           <<j, z>> \in DOMAIN launched /\ launched[<<j, z>>] \in Nat
  BY <1>1, PoolBuffers
<1>7. PICK c : c = [dst |-> <<i, s>>, reads |-> R]
  OBVIOUS
<1>8. /\ slot' = [slot EXCEPT ![i] = (s + 1) % p]
      /\ launched' = [launched EXCEPT ![<<i, s>>] = @ + 1]
      /\ stream' = [stream EXCEPT ![i] = @ \o <<c>>]
      /\ written' = written /\ Runs(g, i, u[i]) = x + 1
  BY <1>1, <1>2, <1>6, <1>7 DEF Launching
<1>9. /\ slot'[i] = (s + 1) % p /\ stream'[i] = stream[i] \o <<c>>
      /\ \A j \in 1 .. n : j # i => slot'[j] = slot[j] /\ stream'[j] = stream[j]
  BY <1>2, <1>6, <1>8
<1>10. ASSUME NEW j \in 1 .. n - 1, NEW z \in 0 .. g.pool[j] - 1
       PROVE  launched'[<<j, z>>] = IF j = i /\ z = s THEN launched[<<j, z>>] + 1
                                    ELSE launched[<<j, z>>]
  <2>1. <<j, z>> \in DOMAIN launched
    BY <1>6
  <2> QED
    BY <1>8, <2>1
<1>11. Kernel(g, u, i, x + 1, c)
  <2>1. i < g.n => \E z, v : c.dst = <<i, z>> /\ Copy(g.pool[i], x + 1, z, v)
    BY <1>1, <1>5, <1>7
  <2>2. /\ i = 1 => R = {}
        /\ i > 1 => \E m \in R : Item(g, u, i, Latest(g, i, x + 1), m)
        /\ \A m \in R : \E k \in {x + 1, Latest(g, i, x + 1)} : Item(g, u, i, k, m)
    BY <1>8 DEF Launching
  <2>3. c.reads = R
    BY <1>7
  <2> QED
    BY <2>1, <2>2, <2>3 DEF Kernel
<1>12. ASSUME NEW j \in Makers(g) \cup {n}
       PROVE  /\ d[j] \in Nat /\ Listed(stream'[j]) /\ d[j] + Len(stream'[j]) = Runs(g, j, u[j])
              /\ \A y \in 1 .. Len(stream'[j]) : Kernel(g, u, j, d[j] + y, stream'[j][y])
  <2>1. /\ d[j] \in Nat /\ Listed(stream[j]) /\ d[j] + Len(stream[j]) = Runs(g, j, t[j])
        /\ \A y \in 1 .. Len(stream[j]) : Kernel(g, t, j, d[j] + y, stream[j][y])
    BY <1>1 DEF Kernels
  <2>2. \A y \in 1 .. Len(stream[j]) : Kernel(g, u, j, d[j] + y, stream[j][y])
    BY <1>1, <1>3, <2>1, KernelLater
  <2>3. CASE j # i
    <3>1. j \in 1 .. n
      BY <1>1, <1>2 DEF Makers
    <3>2. stream'[j] = stream[j] /\ u[j] = t[j]
      BY <1>3, <1>9, <2>3, <3>1
    <3> QED
      BY <2>1, <2>2, <3>2
  <2>4. CASE j = i
    <3>1. Listed(<<c>>) /\ Len(<<c>>) = 1 /\ <<c>>[1] = c
      <4>1. <<c>> \in Seq({c})
        OBVIOUS
      <4> QED
        BY <4>1 DEF Listed
    <3>2. PICK l : l = Len(stream[j]) /\ l \in Nat
      BY <2>1, ListedFacts
    <3>3. /\ Listed(stream'[j]) /\ Len(stream'[j]) = l + 1
          /\ \A y \in 1 .. l + 1 : stream'[j][y] = IF y <= l THEN stream[j][y] ELSE <<c>>[y - l]
      <4>1. stream'[j] = stream[j] \o <<c>>
        BY <1>9, <2>4
      <4>2. /\ Listed(stream[j] \o <<c>>) /\ Len(stream[j] \o <<c>>) = Len(stream[j]) + Len(<<c>>)
            /\ \A y \in 1 .. Len(stream[j]) + Len(<<c>>) :
                 (stream[j] \o <<c>>)[y] = IF y <= Len(stream[j]) THEN stream[j][y]
                                          ELSE <<c>>[y - Len(stream[j])]
        BY <2>1, <3>1, ListedJoined
      <4>3. Len(stream[j]) = l /\ Len(<<c>>) = 1
        BY <3>1, <3>2
      <4> QED
        BY <4>1, <4>2, <4>3
    <3>4. d[j] + l = x
      BY <1>1, <2>1, <2>4, <3>2
    <3>5. d[j] + (l + 1) = x + 1
      BY <1>4, <2>1, <3>2, <3>4
    <3>6. ASSUME NEW y \in 1 .. l + 1
          PROVE  Kernel(g, u, j, d[j] + y, stream'[j][y])
      <4>1. CASE y <= l
        <5>1. y \in 1 .. Len(stream[j]) /\ stream'[j][y] = stream[j][y]
          BY <3>2, <3>3, <4>1
        <5> QED
          BY <2>2, <5>1
      <4>2. CASE ~(y <= l)
        <5>1. y = l + 1 /\ y - l = 1
          BY <3>2, <4>2
        <5>2. stream'[j][y] = c
          BY <3>1, <3>3, <4>2, <5>1
        <5> QED
          BY <1>11, <2>4, <3>5, <5>1, <5>2
      <4> QED
        BY <4>1, <4>2
    <3> QED
      BY <1>8, <2>1, <2>4, <3>3, <3>5, <3>6
  <2> QED
    BY <2>3, <2>4
<1>13. Kernels(g, u, d)'
  <2>1. ASSUME NEW j \in g.pass
        PROVE  stream'[j] = <<>>
    <3>1. j \in 1 .. n /\ j # i
      BY <1>1, <1>2 DEF Shape, Makers
    <3>2. stream[j] = <<>>
      BY DEF Kernels
    <3> QED
      BY <1>9, <3>1, <3>2
  <2> QED
    BY <1>1, <1>12, <2>1 DEF Kernels
<1>14. ASSUME NEW j \in Makers(g)
       PROVE  /\ \E v : Copy(g.pool[j], Runs(g, j, u[j]) + 1, slot'[j], v)
              /\ \A z \in 0 .. g.pool[j] - 1 :
                   /\ Filled(g.pool[j], Runs(g, j, u[j]), z, launched'[<<j, z>>])
                   /\ Filled(g.pool[j], d[j], z, written[<<j, z>>])
  <2>1. /\ \E v : Copy(g.pool[j], Runs(g, j, t[j]) + 1, slot[j], v)
        /\ \A z \in 0 .. g.pool[j] - 1 :
             /\ Filled(g.pool[j], Runs(g, j, t[j]), z, launched[<<j, z>>])
             /\ Filled(g.pool[j], d[j], z, written[<<j, z>>])
    BY DEF Pools
  <2>2. j \in 1 .. n - 1 /\ j \in 1 .. n
    BY <1>1, <1>2 DEF Makers
  <2>3. CASE j # i
    <3>1. slot'[j] = slot[j] /\ u[j] = t[j]
      BY <1>3, <1>9, <2>2, <2>3
    <3>2. \A z \in 0 .. g.pool[j] - 1 : launched'[<<j, z>>] = launched[<<j, z>>]
      BY <1>10, <2>2, <2>3
    <3> QED
      BY <2>1, <3>1, <3>2
  <2>4. CASE j = i
    <3>1. \E v : Copy(p, x + 1 + 1, slot'[i], v)
      <4>1. x + 1 \in Int
        BY <1>4
      <4> QED
        BY <1>2, <1>5, <1>9, <4>1, CopyNext
    <3>2. ASSUME NEW z \in 0 .. p - 1
          PROVE  Filled(p, x + 1, z, launched'[<<i, z>>])
      <4>1. Filled(p, x, z, launched[<<i, z>>])
        BY <1>1, <2>1, <2>4
      <4>2. Filled(p, x + 1, z, IF z = s THEN launched[<<i, z>>] + 1 ELSE launched[<<i, z>>])
        BY <1>2, <1>4, <1>5, <4>1, FilledNext
      <4>3. launched'[<<i, z>>] = IF z = s THEN launched[<<i, z>>] + 1 ELSE launched[<<i, z>>]
        BY <1>1, <1>2, <1>10
      <4> QED
        BY <4>2, <4>3
    <3> QED
      BY <1>1, <1>8, <2>1, <2>4, <3>1, <3>2
  <2> QED
    BY <2>3, <2>4
<1>15. Pools(g, u, d)'
  BY <1>8, <1>14 DEF Pools
<1> QED
  BY <1>13, <1>15

\* Operator i hands the next frame on as it is.
Resting(g, t, i, u) ==
  /\ i \in 2 .. g.n - 1 /\ Step(g, t, i, u) /\ (i \in g.pass \/ (i = g.f /\ t[i] = 0))
  /\ \A j \in Makers(g) : slot'[j] = slot[j]
  /\ UNCHANGED <<launched, written>> /\ \A j \in 1 .. g.n : stream'[j] = stream[j]

LEMMA RestStep ==
  ASSUME HostInv, NEW g, NEW t, NEW d, Shape(g), Wired(g), Lag(g, t),
         Kernels(g, t, d), Pools(g, t, d), NEW i, NEW u, Resting(g, t, i, u)
  PROVE  Kernels(g, u, d)' /\ Pools(g, u, d)'
<1>1. PICK n : n = g.n /\ n \in Nat /\ i \in 1 .. n /\ g.f \notin g.pass
  BY DEF Shape, Resting
<1>2. /\ \A j \in 1 .. n : t[j] \in Nat /\ u[j] \in Nat /\ t[j] <= u[j]
      /\ u[i] = t[i] + 1 /\ \A j \in 1 .. n : j # i => u[j] = t[j]
  BY <1>1, StepGrows DEF Resting
<1>3. ASSUME NEW j \in Makers(g)
      PROVE  Runs(g, j, u[j]) = Runs(g, j, t[j]) /\ slot'[j] = slot[j]
  <2>1. j \in 1 .. n
    BY <1>1 DEF Makers, Shape
  <2>2. slot'[j] = slot[j]
    BY DEF Resting
  <2>3. CASE j # i
    BY <1>2, <2>1, <2>2, <2>3
  <2>4. CASE j = i
    <3>1. i = g.f /\ t[i] = 0
      BY <2>4 DEF Resting, Makers
    <3>2. Runs(g, i, u[i]) = 0 /\ Runs(g, i, t[i]) = 0
      BY <1>2, <3>1 DEF Runs
    <3> QED
      BY <2>2, <2>4, <3>2
  <2> QED
    BY <2>3, <2>4
<1>4. n \notin Makers(g) => Runs(g, n, u[n]) = Runs(g, n, t[n])
  <2>1. n # i /\ n \in 1 .. n
    BY <1>1 DEF Resting
  <2> QED
    BY <1>2, <2>1
<1>5. n \notin Makers(g)
  BY <1>1 DEF Makers
<1>6. \A j \in Makers(g) \cup {n} : Runs(g, j, u[j]) = Runs(g, j, t[j])
  BY <1>3, <1>4, <1>5
<1>7. /\ launched' = launched /\ written' = written
      /\ \A j \in Makers(g) \cup {n} \cup g.pass : stream'[j] = stream[j]
  <2>1. Makers(g) \cup {n} \cup g.pass \subseteq 1 .. n
    BY <1>1 DEF Makers, Shape
  <2> QED
    BY <1>1, <2>1 DEF Resting
<1>8. \A j, y, c : Kernel(g, t, j, y, c) => Kernel(g, u, j, y, c)
  BY <1>1, <1>2, KernelLater
<1>9. Kernels(g, u, d)'
  <2>1. ASSUME NEW j \in Makers(g) \cup {n}
        PROVE  /\ d[j] \in Nat /\ Listed(stream'[j]) /\ d[j] + Len(stream'[j]) = Runs(g, j, u[j])
               /\ \A y \in 1 .. Len(stream'[j]) : Kernel(g, u, j, d[j] + y, stream'[j][y])
    BY <1>1, <1>6, <1>7, <1>8 DEF Kernels
  <2>2. \A j \in g.pass : stream'[j] = <<>>
    BY <1>7 DEF Kernels
  <2> QED
    BY <1>1, <2>1, <2>2 DEF Kernels
<1>10. Pools(g, u, d)'
  BY <1>3, <1>7 DEF Pools
<1> QED
  BY <1>9, <1>10

\* What operator i does to the pools is what it hands on.
LEMMA PoolCompute ==
  ASSUME GridInv, HostInv, NEW g, NEW t, NEW d, PoolInv(g, t, d), NEW i, NEW u, NEW out,
         Handing(g, t, i, u, out), Resting(g, t, i, u) \/ \E R : Launching(g, t, i, u, R),
         UNCHANGED <<setup, chain, packing>>
  PROVE  PoolInv(g, u, d)'
<1>1. /\ Shape(g) /\ Wired(g) /\ Lag(g, t) /\ Queues(g, t)
      /\ Kernels(g, t, d) /\ Pools(g, t, d) /\ Done(g, d) /\ Packed(g, t, d)
  BY DEF PoolInv
<1>2. Lag(g, u) /\ Queues(g, u)'
  BY <1>1, QueueStep
<1>3. Kernels(g, u, d)' /\ Pools(g, u, d)'
  BY <1>1, LaunchStep, RestStep
<1>4. Wired(g)'
  BY <1>1 DEF Wired, N, Op, Pool, QueueCap
<1>5. Packed(g, u, d)'
  <2>1. PICK n : n = g.n /\ n \in Nat /\ i \in 1 .. n - 1 /\ i \in 1 .. n /\ n \in 1 .. n
    BY <1>1 DEF Shape, Handing
  <2>2. u[n] = t[n] /\ \A j \in 1 .. n : t[j] \in Nat /\ u[j] \in Nat /\ t[j] <= u[j]
    <3>1. Step(g, t, i, u)
      BY DEF Handing
    <3> QED
      BY <1>1, <2>1, <3>1, StepGrows
  <2>3. stream'[n] = stream[n]
    <3>1. DOMAIN stream = 1 .. n
      BY <1>1, <2>1, PoolBuffers
    <3>2. \/ \A j \in 1 .. n : stream'[j] = stream[j]
          \/ \E c : stream' = [stream EXCEPT ![i] = c]
      BY <2>1 DEF Resting, Launching
    <3> QED
      BY <2>1, <3>1, <3>2
  <2>4. Item(g, t, n, t[n], packing.src) => Item(g, u, n, t[n], packing.src)
    BY <1>1, <2>1, <2>2, ItemLater
  <2> QED
    BY <1>1, <2>1, <2>2, <2>3, <2>4 DEF Packed, Idle, NoFrame
<1> QED
  BY <1>1, <1>2, <1>3, <1>4, <1>5 DEF PoolInv

\* A compute() that launches one kernel, and one that launches none.
LEMMA ComputeOne ==
  ASSUME HostInv, NEW i \in DOMAIN chain, NEW p \in Nat \ {0}, p = Pool(i), slot[i] \in 0 .. p - 1,
         NEW reads, NEW out, Compute(i, <<Slot(i, 1)>>, reads, out)
  PROVE  /\ Slot(i, 1) = <<i, slot[i]>>
         /\ slot' = [slot EXCEPT ![i] = (@ + 1) % p]
         /\ launched' = [launched EXCEPT ![<<i, slot[i]>>] = @ + 1]
         /\ stream' = [stream EXCEPT ![i] = @ \o <<[dst |-> <<i, slot[i]>>, reads |-> reads]>>]
         /\ written' = written /\ UNCHANGED <<setup, chain, packing>>
<1>1. Slot(i, 1) = <<i, slot[i]>>
  <2>1. (slot[i] + 1 - 1) % p = slot[i]
    OBVIOUS
  <2> QED
    BY <2>1 DEF Slot
<1>2. PICK b, dsts : b = <<i, slot[i]>> /\ dsts = <<b>>
  OBVIOUS
<1>3. Len(dsts) = 1 /\ DOMAIN dsts = {1} /\ dsts[1] = b
  BY <1>2
<1>4. /\ slot' = [slot EXCEPT ![i] = (@ + Len(dsts)) % Pool(i)]
      /\ launched' = [z \in DOMAIN launched |->
                        launched[z] + Cardinality({k \in DOMAIN dsts : dsts[k] = z})]
      /\ stream' = [stream EXCEPT
           ![i] = @ \o [k \in DOMAIN dsts |-> [dst |-> dsts[k], reads |-> reads]]]
      /\ written' = written /\ UNCHANGED <<setup, chain, packing>>
  BY <1>1, <1>2 DEF Compute
<1>5. [k \in DOMAIN dsts |-> [dst |-> dsts[k], reads |-> reads]] = <<[dst |-> b, reads |-> reads]>>
  BY <1>3
<1>6. launched' = [launched EXCEPT ![b] = @ + 1]
  <2>1. launched \in [Buffers(chain) -> Nat]
    BY DEF HostInv
  <2>2. ASSUME NEW z \in DOMAIN launched
        PROVE  launched[z] + Cardinality({k \in DOMAIN dsts : dsts[k] = z})
                 = IF z = b THEN launched[z] + 1 ELSE launched[z]
    <3>1. launched[z] \in Nat
      BY <2>1
    <3>2. CASE z = b
      <4>1. {k \in DOMAIN dsts : dsts[k] = z} = {1}
        BY <1>3, <3>2
      <4>2. Cardinality({k \in DOMAIN dsts : dsts[k] = z}) = 1
        BY <4>1, FS_Singleton
      <4> QED
        BY <3>2, <4>2
    <3>3. CASE z # b
      <4>1. {k \in DOMAIN dsts : dsts[k] = z} = {}
        BY <1>3, <3>3
      <4>2. Cardinality({k \in DOMAIN dsts : dsts[k] = z}) = 0
        BY <4>1, FS_EmptySet
      <4> QED
        BY <3>1, <3>3, <4>2
    <3> QED
      BY <3>2, <3>3
  <2>3. launched' = [z \in DOMAIN launched |-> IF z = b THEN launched[z] + 1 ELSE launched[z]]
    BY <1>4, <2>2
  <2> QED
    BY <2>3
<1> QED
  BY <1>1, <1>2, <1>3, <1>4, <1>5, <1>6

LEMMA ComputeNone ==
  ASSUME HostInv, NEW i \in DOMAIN chain, NEW p \in Nat \ {0}, p = Pool(i), Listed(stream[i]),
         NEW reads, NEW out, Compute(i, <<>>, reads, out)
  PROVE  /\ slot' = [slot EXCEPT ![i] = (@ + 0) % p]
         /\ UNCHANGED <<launched, written>> /\ UNCHANGED <<setup, chain, packing>>
         /\ \A j \in DOMAIN chain : stream'[j] = stream[j]
<1>1. PICK dsts : dsts = <<>>
  OBVIOUS
<1>2. Len(dsts) = 0 /\ DOMAIN dsts = {}
  BY <1>1
<1>3. /\ slot' = [slot EXCEPT ![i] = (@ + Len(dsts)) % Pool(i)]
      /\ launched' = [z \in DOMAIN launched |->
                        launched[z] + Cardinality({k \in DOMAIN dsts : dsts[k] = z})]
      /\ stream' = [stream EXCEPT
           ![i] = @ \o [k \in DOMAIN dsts |-> [dst |-> dsts[k], reads |-> reads]]]
      /\ written' = written /\ UNCHANGED <<setup, chain, packing>>
  BY <1>1 DEF Compute
<1>4. launched' = launched
  <2>1. launched \in [Buffers(chain) -> Nat]
    BY DEF HostInv
  <2>2. ASSUME NEW z \in DOMAIN launched
        PROVE  launched[z] + Cardinality({k \in DOMAIN dsts : dsts[k] = z}) = launched[z]
    <3>1. {k \in DOMAIN dsts : dsts[k] = z} = {}
      BY <1>2
    <3>2. Cardinality({k \in DOMAIN dsts : dsts[k] = z}) = 0
      BY <3>1, FS_EmptySet
    <3>3. launched[z] \in Nat
      BY <2>1
    <3> QED
      BY <3>2, <3>3
  <2>3. launched' = [z \in DOMAIN launched |-> launched[z]]
    BY <1>3, <2>2
  <2> QED
    BY <2>1, <2>3
<1>5. \A j \in DOMAIN chain : stream'[j] = stream[j]
  <2>1. PICK more : more = [k \in DOMAIN dsts |-> [dst |-> dsts[k], reads |-> reads]]
    OBVIOUS
  <2>2. more = <<>>
    BY <1>2, <2>1
  <2>3. PICK S : stream[i] \in Seq(S)
    BY DEF Listed
  <2>4. stream[i] \o <<>> = stream[i]
    BY <2>3, ConcatEmptySeq
  <2>5. stream' = [stream EXCEPT ![i] = stream[i]]
    BY <1>3, <2>1, <2>2, <2>4
  <2>6. DOMAIN stream = DOMAIN chain
    BY DEF HostInv
  <2> QED
    BY <2>5, <2>6
<1>6. slot' = [slot EXCEPT ![i] = (@ + 0) % p]
  <2>1. slot[i] + Len(dsts) = slot[i] + 0
    BY <1>2
  <2>2. slot' = [slot EXCEPT ![i] = (slot[i] + Len(dsts)) % Pool(i)]
    BY <1>3
  <2> QED
    BY <2>1, <2>2
<1> QED
  BY <1>3, <1>4, <1>5, <1>6
-----------------------------------------------------------------------------
(* The operators *)

\* Operator i, before it takes the next frame.
LEMMA Taking ==
  ASSUME GridInv, HostInv, NEW g, NEW t, NEW d, PoolInv(g, t, d), NEW i \in 1 .. g.n - 1,
         q[i] # <<>>, NEW u, Step(g, t, i, u)
  PROVE  /\ i \in DOMAIN chain /\ i \in 1 .. g.n /\ i + 1 \in 1 .. g.n
         /\ t[i] \in Nat /\ u[i] = t[i] + 1
         /\ g.pool[i] \in Nat \ {0} /\ g.pool[i] = Pool(i) /\ Listed(stream[i])
         /\ Item(g, u, i, t[i] + 1, Head(q[i]))
<1>1. /\ Shape(g) /\ Wired(g) /\ Lag(g, t) /\ Queues(g, t)
      /\ Kernels(g, t, d) /\ Pools(g, t, d)
  BY DEF PoolInv
<1>2. PICK n : n = g.n /\ n \in Nat /\ i \in 1 .. n /\ i + 1 \in 1 .. n
  BY <1>1 DEF Shape
<1>3. /\ \A j \in 1 .. n : t[j] \in Nat /\ u[j] \in Nat /\ t[j] <= u[j]
      /\ u[i] = t[i] + 1
  BY <1>1, <1>2, StepGrows
<1>4. DOMAIN chain = 1 .. n /\ g.pool[i] \in Nat \ {0} /\ g.pool[i] = Pool(i)
  BY <1>1, <1>2 DEF Wired, Shape
<1>5. Listed(q[i])
  <2>1. Line(q[i], high)
    BY <1>2, <1>4 DEF GridInv
  <2> QED
    BY <2>1 DEF Line, Listed
<1>6. Len(q[i]) >= 1 /\ Head(q[i]) = q[i][1] /\ Len(q[i]) \in Nat
  BY <1>5, ListedFacts
<1>7. 1 \in 1 .. Len(q[i])
  BY <1>6
<1>8. Item(g, t, i, t[i] + 1, Head(q[i]))
  BY <1>1, <1>2, <1>6, <1>7 DEF Queues
<1>9. Item(g, u, i, t[i] + 1, Head(q[i]))
  BY <1>1, <1>2, <1>3, <1>8, ItemLater
<1>10. Listed(stream[i])
  <2>1. CASE i \in Makers(g)
    BY <1>1, <2>1 DEF Kernels
  <2>2. CASE i \notin Makers(g)
    <3>1. i \in g.pass
      BY <2>2 DEF Makers
    <3>2. stream[i] = <<>>
      BY <1>1, <3>1 DEF Kernels
    <3>3. <<>> \in Seq({})
      OBVIOUS
    <3> QED
      BY <3>2, <3>3 DEF Listed
  <2> QED
    BY <2>1, <2>2
<1> QED
  BY <1>2, <1>3, <1>4, <1>9, <1>10

\* Room behind operator i.
LEMMA RoomBehind ==
  ASSUME GridInv, NEW g, Shape(g), Wired(g), NEW i \in 1 .. g.n - 1, NEW b \in {1, 2},
         Room(i + 1) >= b
  PROVE  Len(q[i + 1]) \in Nat /\ Len(q[i + 1]) + b <= (IF g.deep = i + 1 THEN 2 ELSE 1)
<1>1. i + 1 \in 1 .. g.n
  BY DEF Shape
<1>2. Len(q[i + 1]) \in Nat
  <2>1. Line(q[i + 1], high)
    BY <1>1 DEF GridInv, Wired
  <2>2. Listed(q[i + 1])
    BY <2>1 DEF Line, Listed
  <2> QED
    BY <2>2, ListedFacts
<1>3. PICK c : c = QueueCap(setup, chain[i + 1]) /\ c \in Nat
  <2>1. EmitBurst(setup.mode) \in {1, 2}
    BY DEF Wired, Shape
  <2> QED
    BY <2>1 DEF QueueCap
<1>4. c <= (IF g.deep = i + 1 THEN 2 ELSE 1)
  BY <1>1, <1>3 DEF Wired
<1>5. PICK e : e \in {1, 2} /\ e = IF g.deep = i + 1 THEN 2 ELSE 1
  OBVIOUS
<1>6. c - Len(q[i + 1]) >= b
  BY <1>3 DEF Room
<1> QED
  BY <1>2, <1>3, <1>4, <1>5, <1>6

\* The next counts.
LEMMA StepExists ==
  ASSUME NEW g, NEW t, NEW i
  PROVE  \E u : Step(g, t, i, u)
<1>1. Step(g, t, i, [j \in 1 .. g.n |-> IF j = i THEN t[i] + 1 ELSE t[j]])
  BY DEF Step
<1> QED
  BY <1>1

LEMMA FilterPools ==
  ASSUME GridInv, HostInv, NEW g, NEW t, NEW d, PoolInv(g, t, d), NEW i \in 1 .. g.n - 1, Filter(i)
  PROVE  \E u : PoolInv(g, u, d)'
<1>1. PICK u : Step(g, t, i, u)
  BY StepExists
<1>2. PICK m, R, b, s : /\ m = Head(q[i]) /\ R = IF i = 1 THEN {} ELSE {m}
                        /\ b = [buf |-> <<i, s>>, ver |-> launched[<<i, s>>] + 1, stamp |-> m.stamp]
                        /\ s = slot[i]
  OBVIOUS
<1>3. /\ q[i] # <<>> /\ Room(i + 1) >= 1 /\ Op(i) # "frc" /\ ~(Op(i) = "scale" /\ setup.identity)
      /\ Compute(i, <<Slot(i, 1)>>, R, <<GpuFrame(Slot(i, 1), m.stamp)>>) /\ frc' = frc
  BY <1>2 DEF Filter, Ready
<1>4. /\ Shape(g) /\ Wired(g) /\ Lag(g, t) /\ Pools(g, t, d)
  BY DEF PoolInv
<1>5. /\ i \in DOMAIN chain /\ i \in 1 .. g.n /\ i + 1 \in 1 .. g.n
      /\ t[i] \in Nat /\ u[i] = t[i] + 1
      /\ g.pool[i] \in Nat \ {0} /\ g.pool[i] = Pool(i) /\ Listed(stream[i])
      /\ Item(g, u, i, t[i] + 1, m)
  BY <1>1, <1>2, <1>3, Taking
<1>6. i # g.f /\ i \in Makers(g)
  BY <1>3, <1>4, <1>5 DEF Wired, Makers
<1>7. PICK x : x = t[i] /\ x \in Nat
  BY <1>5
<1>8. /\ Runs(g, i, t[i]) = x /\ Runs(g, i, u[i]) = x + 1 /\ Latest(g, i, x + 1) = x + 1
      /\ Emitted(g, i, t[i]) = x /\ Emitted(g, i, t[i] + 1) = x + 1
  BY <1>5, <1>6, <1>7 DEF Runs, Latest, Emitted
<1>9. s \in 0 .. g.pool[i] - 1 /\ Copy(g.pool[i], x + 1, s, b.ver)
  <2>1. Copy(g.pool[i], Runs(g, i, t[i]) + 1, slot[i], launched[<<i, slot[i]>>] + 1)
        /\ slot[i] \in 0 .. g.pool[i] - 1
    BY <1>4, <1>6, LaunchedNext
  <2> QED
    BY <1>2, <1>8, <2>1
<1>10. /\ Slot(i, 1) = <<i, s>>
       /\ slot' = [slot EXCEPT ![i] = (@ + 1) % g.pool[i]]
       /\ launched' = [launched EXCEPT ![<<i, slot[i]>>] = @ + 1]
       /\ stream' = [stream EXCEPT ![i] = @ \o <<[dst |-> <<i, slot[i]>>, reads |-> R]>>]
       /\ written' = written /\ UNCHANGED <<setup, chain, packing>>
  <2>1. PICK p : p = g.pool[i] /\ p \in Nat \ {0} /\ p = Pool(i) /\ slot[i] \in 0 .. p - 1
    BY <1>2, <1>5, <1>9
  <2>2. PICK out : out = <<GpuFrame(Slot(i, 1), m.stamp)>> /\ Compute(i, <<Slot(i, 1)>>, R, out)
    BY <1>3
  <2>3. /\ Slot(i, 1) = <<i, slot[i]>>
        /\ slot' = [slot EXCEPT ![i] = (@ + 1) % p]
        /\ launched' = [launched EXCEPT ![<<i, slot[i]>>] = @ + 1]
        /\ stream' = [stream EXCEPT ![i] = @ \o <<[dst |-> <<i, slot[i]>>, reads |-> R]>>]
        /\ written' = written /\ UNCHANGED <<setup, chain, packing>>
    BY <1>5, <2>1, <2>2, ComputeOne
  <2> QED
    BY <1>2, <2>1, <2>2, <2>3
<1>11. GpuFrame(Slot(i, 1), m.stamp) = b
  BY <1>2, <1>10 DEF GpuFrame
<1>12. Item(g, u, i + 1, x + 1, b)
  <2>1. Origin(g, i, i + 1, x + 1) = x + 1
    <3>1. g.f \in Nat /\ i \in Nat
      BY <1>4 DEF Shape
    <3>2. g.f = 0 \/ i > g.f \/ i + 1 <= g.f
      BY <1>6, <3>1
    <3> QED
      BY <3>2 DEF Origin
  <2>2. b.buf = <<i, s>>
    BY <1>2
  <2>3. x + 1 <= x + 1
    BY <1>7
  <2> QED
    BY <1>4, <1>6, <1>8, <1>9, <2>1, <2>2, <2>3, ItemOfLaunch
<1>13. Handing(g, t, i, u, <<b>>)
  <2>1. Listed(<<b>>) /\ Len(<<b>>) = 1 /\ <<b>>[1] = b
    <3>1. <<b>> \in Seq({b})
      OBVIOUS
    <3> QED
      BY <3>1 DEF Listed
  <2>2. Len(q[i + 1]) + 1 <= (IF g.deep = i + 1 THEN 2 ELSE 1)
    BY <1>3, <1>4, RoomBehind
  <2>3. \A y \in 1 .. Len(<<b>>) : Item(g, u, i + 1, Emitted(g, i, t[i]) + y, <<b>>[y])
    <3>1. \A y \in 1 .. Len(<<b>>) : y = 1
      BY <2>1
    <3> QED
      BY <1>8, <1>12, <2>1, <3>1
  <2>4. q' = [q EXCEPT ![i] = Tail(@), ![i + 1] = @ \o <<b>>]
    <3>1. Compute(i, <<Slot(i, 1)>>, R, <<b>>)
      BY <1>3, <1>11
    <3> QED
      BY <3>1 DEF Compute
  <2> QED
    BY <1>1, <1>3, <1>6, <1>8, <2>1, <2>2, <2>3, <2>4 DEF Handing
<1>14. Launching(g, t, i, u, R)
  <2>1. /\ i = 1 => R = {}
        /\ i > 1 => \E z \in R : Item(g, u, i, Latest(g, i, Runs(g, i, u[i])), z)
        /\ \A z \in R : \E k \in {Runs(g, i, u[i]), Latest(g, i, Runs(g, i, u[i]))} : Item(g, u, i, k, z)
    BY <1>2, <1>5, <1>7, <1>8
  <2> QED
    BY <1>1, <1>6, <1>8, <1>10, <2>1 DEF Launching
<1>15. PoolInv(g, u, d)'
  BY <1>10, <1>13, <1>14, PoolCompute
<1> QED
  BY <1>15

LEMMA SlotKept ==
  ASSUME NEW p \in Nat \ {0}, NEW s \in 0 .. p - 1
  PROVE  (s + 0) % p = s
OBVIOUS

\* A frame handed on as it is.
LEMMA HandedOn ==
  ASSUME GridInv, HostInv, NEW g, NEW t, NEW d, PoolInv(g, t, d), NEW i \in 2 .. g.n - 1, NEW b \in {1, 2},
         q[i] # <<>>, Room(i + 1) >= b, Compute(i, <<>>, {}, <<Head(q[i])>>),
         i \in g.pass \/ (i = g.f /\ t[i] = 0),
         \A j \in 1 .. g.n : j # i => frc'[j].prev = frc[j].prev,
         frc'[i].prev = IF i = g.f THEN Head(q[i]) ELSE frc[i].prev
  PROVE  \E u : PoolInv(g, u, d)'
<1>1. PICK u : Step(g, t, i, u)
  BY StepExists
<1>2. PICK m, x : m = Head(q[i]) /\ x = t[i]
  OBVIOUS
<1>3. Shape(g) /\ Wired(g) /\ Lag(g, t) /\ Pools(g, t, d) /\ i \in 1 .. g.n - 1 /\ g.f \notin g.pass
  BY DEF PoolInv, Shape
<1>4. /\ i \in DOMAIN chain /\ i \in 1 .. g.n /\ i + 1 \in 1 .. g.n
      /\ x \in Nat /\ u[i] = x + 1
      /\ g.pool[i] \in Nat \ {0} /\ g.pool[i] = Pool(i) /\ Listed(stream[i])
      /\ Item(g, u, i, x + 1, m)
  BY <1>1, <1>2, <1>3, Taking
<1>5. /\ slot' = [slot EXCEPT ![i] = (@ + 0) % g.pool[i]]
      /\ UNCHANGED <<launched, written>> /\ UNCHANGED <<setup, chain, packing>>
      /\ \A j \in DOMAIN chain : stream'[j] = stream[j]
  <2>1. PICK p : p = g.pool[i] /\ p \in Nat \ {0} /\ p = Pool(i)
    BY <1>4
  <2>2. PICK out : out = <<m>> /\ Compute(i, <<>>, {}, out)
    BY <1>2
  <2>3. /\ slot' = [slot EXCEPT ![i] = (@ + 0) % p]
        /\ UNCHANGED <<launched, written>> /\ UNCHANGED <<setup, chain, packing>>
        /\ \A j \in DOMAIN chain : stream'[j] = stream[j]
    BY <1>4, <2>1, <2>2, ComputeNone
  <2> QED
    BY <2>1, <2>2, <2>3
<1>6. Emitted(g, i, x + 1) = Emitted(g, i, x) + 1 /\ Emitted(g, i, x + 1) = x + 1
  <2>1. CASE i \in g.pass
    BY <1>3, <1>4, <2>1 DEF Emitted
  <2>2. CASE i = g.f /\ x = 0
    BY <2>2 DEF Emitted
  <2> QED
    BY <1>2, <2>1, <2>2
<1>7. Item(g, u, i + 1, x + 1, m)
  <2>1. \/ i \in g.pass /\ x + 1 = x + 1
        \/ i = g.f /\ x + 1 = Emitted(g, i, x + 1) /\ (g.rate = 2 \/ x + 1 = 1)
    BY <1>2, <1>6
  <2>2. x + 1 \in Nat \ {0}
    BY <1>4
  <2> QED
    BY <1>3, <1>4, <2>1, <2>2, ItemHandedOn
<1>8. Handing(g, t, i, u, <<m>>)
  <2>1. Listed(<<m>>) /\ Len(<<m>>) = 1 /\ <<m>>[1] = m
    <3>1. <<m>> \in Seq({m})
      OBVIOUS
    <3> QED
      BY <3>1 DEF Listed
  <2>2. Len(q[i + 1]) + 1 <= (IF g.deep = i + 1 THEN 2 ELSE 1)
    <3>1. PICK e : e \in {1, 2} /\ e = IF g.deep = i + 1 THEN 2 ELSE 1
      OBVIOUS
    <3>2. Len(q[i + 1]) \in Nat /\ Len(q[i + 1]) + b <= e
      BY <1>3, <3>1, RoomBehind
    <3> QED
      BY <3>1, <3>2
  <2>3. \A y \in 1 .. Len(<<m>>) : Item(g, u, i + 1, Emitted(g, i, t[i]) + y, <<m>>[y])
    <3>1. \A y \in 1 .. Len(<<m>>) : y = 1
      BY <2>1
    <3> QED
      BY <1>2, <1>6, <1>7, <2>1, <3>1
  <2>4. q' = [q EXCEPT ![i] = Tail(@), ![i + 1] = @ \o <<m>>]
    BY <1>2 DEF Compute
  <2> QED
    BY <1>1, <1>2, <1>3, <1>6, <2>1, <2>2, <2>3, <2>4 DEF Handing
<1>9. Resting(g, t, i, u)
  <2>1. DOMAIN chain = 1 .. g.n
    BY <1>3 DEF Wired
  <2>2. ASSUME NEW j \in Makers(g)
        PROVE  slot'[j] = slot[j]
    <3>1. j \in 1 .. g.n
      BY <1>3 DEF Makers, Shape
    <3>2. DOMAIN slot = 1 .. g.n
      BY <1>3, PoolBuffers
    <3>3. slot[j] \in 0 .. g.pool[j] - 1
      BY <1>3, LaunchedNext
    <3>4. CASE j = i
      <4>1. (slot[i] + 0) % g.pool[i] = slot[i]
        BY <1>4, <3>3, <3>4, SlotKept
      <4> QED
        BY <1>4, <1>5, <3>2, <3>4, <4>1
    <3> QED
      BY <1>5, <3>1, <3>2, <3>4
  <2> QED
    BY <1>1, <1>5, <2>1, <2>2 DEF Resting
<1>10. PoolInv(g, u, d)'
  BY <1>3, <1>5, <1>8, <1>9, PoolCompute
<1> QED
  BY <1>10

LEMMA MidPools ==
  ASSUME GridInv, HostInv, NEW g, NEW t, NEW d, PoolInv(g, t, d), NEW i \in 1 .. g.n - 1, FrcMid(i)
  PROVE  \E u : PoolInv(g, u, d)'
<1>1. PICK u : Step(g, t, i, u)
  BY StepExists
<1>2. PICK m, p, R, b, s, out, x :
        /\ m = Head(q[i]) /\ p = frc[i].prev /\ R = {p, m} /\ s = slot[i] /\ x = t[i]
        /\ b = [buf |-> <<i, s>>, ver |-> launched[<<i, s>>] + 1, stamp |-> MidStamp(p, m)]
        /\ out = IF g.rate = 2 THEN <<b, m>> ELSE <<b>>
  OBVIOUS
<1>3. /\ Shape(g) /\ Wired(g) /\ Lag(g, t) /\ Queues(g, t) /\ Pools(g, t, d)
      /\ g.rate \in {1, 2} /\ EmitBurst(setup.mode) = g.rate /\ (g.rate = 2 <=> setup.mode = "double")
  BY DEF PoolInv, Shape, Wired
<1>4. /\ q[i] # <<>> /\ Room(i + 1) >= g.rate /\ Op(i) = "frc" /\ p # NoFrame
      /\ Compute(i, <<Slot(i, 1)>>, R,
                 IF g.rate = 2 THEN <<GpuFrame(Slot(i, 1), MidStamp(p, m)), m>>
                 ELSE <<GpuFrame(Slot(i, 1), MidStamp(p, m))>>)
      /\ frc' = [frc EXCEPT ![i] = [@ EXCEPT !.prev = m, !.src = m.stamp]]
  BY <1>2, <1>3 DEF FrcMid, Ready
<1>5. /\ i \in DOMAIN chain /\ i \in 1 .. g.n /\ i + 1 \in 1 .. g.n
      /\ x \in Nat /\ u[i] = x + 1
      /\ g.pool[i] \in Nat \ {0} /\ g.pool[i] = Pool(i) /\ Listed(stream[i])
      /\ Item(g, u, i, x + 1, m)
  BY <1>1, <1>2, <1>4, Taking
<1>6. i = g.f /\ i \in Makers(g) /\ i \in 2 .. g.n - 1
  BY <1>3, <1>4, <1>5 DEF Wired, Makers, Shape
<1>7. x > 0 /\ Item(g, u, i, x, p)
  <2>1. x > 0 /\ Item(g, t, i, x, p)
    BY <1>2, <1>3, <1>4, <1>5 DEF Queues
  <2>2. \A j \in 1 .. g.n : t[j] \in Nat /\ u[j] \in Nat /\ t[j] <= u[j]
    BY <1>1, <1>3, <1>5, StepGrows
  <2> QED
    BY <1>3, <2>1, <2>2, ItemLater
<1>8. /\ Runs(g, i, t[i]) = x - 1 /\ Runs(g, i, u[i]) = x /\ Latest(g, i, x) = x + 1
      /\ Emitted(g, i, x) = (IF g.rate = 2 THEN 2 * x - 1 ELSE x)
      /\ Emitted(g, i, x + 1) = (IF g.rate = 2 THEN 2 * x + 1 ELSE x + 1)
  BY <1>2, <1>5, <1>6, <1>7 DEF Runs, Latest, Emitted
<1>9. s \in 0 .. g.pool[i] - 1 /\ Copy(g.pool[i], x, s, b.ver)
  <2>1. Copy(g.pool[i], Runs(g, i, t[i]) + 1, slot[i], launched[<<i, slot[i]>>] + 1)
        /\ slot[i] \in 0 .. g.pool[i] - 1
    BY <1>3, <1>6, LaunchedNext
  <2>2. (x - 1) + 1 = x
    BY <1>5
  <2> QED
    BY <1>2, <1>8, <2>1, <2>2
<1>10. /\ Slot(i, 1) = <<i, s>>
       /\ slot' = [slot EXCEPT ![i] = (@ + 1) % g.pool[i]]
       /\ launched' = [launched EXCEPT ![<<i, slot[i]>>] = @ + 1]
       /\ stream' = [stream EXCEPT ![i] = @ \o <<[dst |-> <<i, slot[i]>>, reads |-> R]>>]
       /\ written' = written /\ UNCHANGED <<setup, chain, packing>>
  <2>1. PICK z : z = g.pool[i] /\ z \in Nat \ {0} /\ z = Pool(i) /\ slot[i] \in 0 .. z - 1
    BY <1>2, <1>5, <1>9
  <2>2. PICK w : Compute(i, <<Slot(i, 1)>>, R, w)
    BY <1>4
  <2>3. /\ Slot(i, 1) = <<i, slot[i]>>
        /\ slot' = [slot EXCEPT ![i] = (@ + 1) % z]
        /\ launched' = [launched EXCEPT ![<<i, slot[i]>>] = @ + 1]
        /\ stream' = [stream EXCEPT ![i] = @ \o <<[dst |-> <<i, slot[i]>>, reads |-> R]>>]
        /\ written' = written /\ UNCHANGED <<setup, chain, packing>>
    BY <1>5, <2>1, <2>2, ComputeOne
  <2> QED
    BY <1>2, <2>1, <2>2, <2>3
<1>11. Compute(i, <<Slot(i, 1)>>, R, out)
  <2>1. GpuFrame(Slot(i, 1), MidStamp(p, m)) = b
    BY <1>2, <1>10 DEF GpuFrame
  <2> QED
    BY <1>2, <1>4, <2>1
<1>12. \A k \in {2 * x, x + 1} : SourceOf(g, k) - 1 = x => Item(g, u, i + 1, k, b)
  <2>1. SUFFICES ASSUME NEW k \in {2 * x, x + 1}, SourceOf(g, k) - 1 = x
                 PROVE  Item(g, u, i + 1, k, b)
    OBVIOUS
  <2>2. Origin(g, i, i + 1, k) = x
    <3>1. g.f \in Nat /\ g.f # 0 /\ ~(i > g.f) /\ ~(i + 1 <= g.f)
      BY <1>3, <1>6 DEF Shape
    <3> QED
      BY <1>6, <2>1, <3>1 DEF Origin
  <2>3. b.buf = <<i, s>> /\ x <= x
    BY <1>2, <1>5
  <2> QED
    BY <1>3, <1>6, <1>8, <1>9, <2>2, <2>3, ItemOfLaunch
<1>13. /\ Listed(out) /\ Len(q[i + 1]) + Len(out) <= (IF g.deep = i + 1 THEN 2 ELSE 1)
       /\ Emitted(g, i, x + 1) = Emitted(g, i, x) + Len(out)
       /\ \A y \in 1 .. Len(out) : Item(g, u, i + 1, Emitted(g, i, x) + y, out[y])
  <2>1. CASE g.rate = 1
    <3>1. out = <<b>> /\ Item(g, u, i + 1, x + 1, b)
      <4>1. SourceOf(g, x + 1) - 1 = x
        BY <1>5, <2>1 DEF SourceOf
      <4> QED
        BY <1>2, <1>12, <2>1, <4>1
    <3>2. Listed(out) /\ Len(out) = 1 /\ out[1] = b
      <4>1. <<b>> \in Seq({b})
        OBVIOUS
      <4> QED
        BY <3>1, <4>1 DEF Listed
    <3>3. Len(q[i + 1]) + 1 <= (IF g.deep = i + 1 THEN 2 ELSE 1)
      BY <1>3, <1>4, <2>1, RoomBehind
    <3>4. Emitted(g, i, x) = x /\ Emitted(g, i, x + 1) = x + 1
      BY <1>8, <2>1
    <3>5. \A y \in 1 .. Len(out) : Item(g, u, i + 1, Emitted(g, i, x) + y, out[y])
      <4>1. \A y \in 1 .. Len(out) : y = 1
        BY <3>2
      <4> QED
        BY <3>1, <3>2, <3>4, <4>1
    <3> QED
      BY <3>2, <3>3, <3>4, <3>5
  <2>2. CASE g.rate = 2
    <3>1. PICK e : e = Emitted(g, i, x) /\ e = 2 * x - 1 /\ e \in Nat
      BY <1>5, <1>7, <1>8, <2>2
    <3>2. e + 1 = 2 * x /\ e + 2 = 2 * x + 1 /\ Emitted(g, i, x + 1) = e + 2
      BY <1>5, <1>8, <2>2, <3>1
    <3>3. out = <<b, m>> /\ Item(g, u, i + 1, e + 1, b)
      <4>1. SourceOf(g, 2 * x) - 1 = x
        BY <1>5, <2>2 DEF SourceOf
      <4>2. Item(g, u, i + 1, 2 * x, b)
        BY <1>12, <4>1
      <4> QED
        BY <1>2, <2>2, <3>2, <4>2
    <3>4. Item(g, u, i + 1, e + 2, m)
      <4>1. x + 1 \in Nat \ {0} /\ e + 2 \in Nat \ {0} /\ e + 2 = Emitted(g, i, x + 1)
        BY <1>5, <3>1, <3>2
      <4> QED
        BY <1>3, <1>5, <1>6, <2>2, <4>1, ItemHandedOn
    <3>5. Listed(out) /\ Len(out) = 2 /\ out[1] = b /\ out[2] = m
      <4>1. <<b, m>> \in Seq({b, m})
        OBVIOUS
      <4> QED
        BY <3>3, <4>1 DEF Listed
    <3>6. Len(q[i + 1]) + 2 <= (IF g.deep = i + 1 THEN 2 ELSE 1)
      BY <1>3, <1>4, <2>2, RoomBehind
    <3>7. \A y \in 1 .. Len(out) : Item(g, u, i + 1, Emitted(g, i, x) + y, out[y])
      <4>1. \A y \in 1 .. Len(out) : y = 1 \/ y = 2
        BY <3>5
      <4> QED
        BY <3>1, <3>3, <3>4, <3>5, <4>1
    <3> QED
      BY <3>1, <3>2, <3>5, <3>6, <3>7
  <2> QED
    BY <1>3, <2>1, <2>2
<1>14. Handing(g, t, i, u, out)
  <2>1. q' = [q EXCEPT ![i] = Tail(@), ![i + 1] = @ \o out]
    BY <1>11 DEF Compute
  <2>2. /\ \A j \in 1 .. g.n : j # i => frc'[j].prev = frc[j].prev
        /\ frc'[i].prev = m
    <3>1. DOMAIN frc = 1 .. g.n
      BY <1>3 DEF GridInv, Wired
    <3> QED
      BY <1>4, <1>5, <3>1
  <2> QED
    BY <1>1, <1>2, <1>4, <1>6, <1>13, <2>1, <2>2 DEF Handing
<1>15. Launching(g, t, i, u, R)
  <2>1. i > 1 => \E z \in R : Item(g, u, i, Latest(g, i, Runs(g, i, u[i])), z)
    BY <1>2, <1>5, <1>8
  <2>2. \A z \in R : \E k \in {Runs(g, i, u[i]), Latest(g, i, Runs(g, i, u[i]))} : Item(g, u, i, k, z)
    BY <1>2, <1>5, <1>7, <1>8
  <2>3. i # 1 /\ Runs(g, i, u[i]) = Runs(g, i, t[i]) + 1
    BY <1>5, <1>6, <1>8
  <2> QED
    BY <1>1, <1>6, <1>10, <2>1, <2>2, <2>3 DEF Launching
<1>16. PoolInv(g, u, d)'
  BY <1>10, <1>14, <1>15, PoolCompute
<1> QED
  BY <1>16

\* Every operator takes, makes and hands on as it should.
LEMMA OperatorPools ==
  ASSUME GridInv, HostInv, NEW g, NEW t, NEW d, PoolInv(g, t, d), NEW i \in DOMAIN chain, Operator(i)
  PROVE  \E u : PoolInv(g, u, d)'
<1>1. PICK n : /\ n = g.n /\ n \in Nat /\ n >= 2 /\ n = N /\ DOMAIN chain = 1 .. n /\ g.f \in 0 .. n - 1
               /\ g.f # 1 /\ g.f \notin g.pass /\ g.pass \subseteq 2 .. n - 1
  BY DEF PoolInv, Shape, Wired
<1>9. Op(i) = "frc" => i = g.f
  BY <1>1 DEF PoolInv, Wired
<1>10. Op(i) = "scale" /\ setup.identity => i \in g.pass
  BY <1>1, Zenon DEF PoolInv, Wired
<1>2. EmitBurst(setup.mode) \in {1, 2} /\ setup.mode # "uniform"
  BY DEF PoolInv, Shape, Wired
<1>3. DOMAIN frc = 1 .. n
  BY <1>1 DEF GridInv
<1>4. CASE Filter(i)
  <2>1. i \in 1 .. n - 1
    BY <1>1, <1>4 DEF Filter, Ready
  <2> QED
    BY <1>1, <1>4, <2>1, FilterPools
<1>5. CASE HandOn(i)
  <2>1. i \in g.pass /\ i \in 2 .. n - 1 /\ i # g.f
    <3>1. i \in g.pass
      BY <1>5, <1>10, Zenon DEF HandOn
    <3> QED
      BY <1>1, <3>1
  <2>2. q[i] # <<>> /\ Room(i + 1) >= 1 /\ Compute(i, <<>>, {}, <<Head(q[i])>>) /\ frc' = frc
    BY <1>5 DEF HandOn, Ready
  <2> QED
    BY <1>1, <2>1, <2>2, HandedOn
<1>6. CASE FrcPass(i)
  <2>1. i = g.f /\ i \in 2 .. n - 1 /\ i \in 1 .. n
    BY <1>1, <1>6, <1>9 DEF FrcPass
  <2>2. /\ q[i] # <<>> /\ Room(i + 1) >= EmitBurst(setup.mode) /\ frc[i].prev = NoFrame
        /\ Compute(i, <<>>, {}, <<Head(q[i])>>)
        /\ frc' = [frc EXCEPT ![i] = [@ EXCEPT !.prev = Head(q[i]), !.src = Head(q[i]).stamp]]
    BY <1>2, <1>6 DEF FrcPass, Ready
  <2>3. t[i] = 0
    <3>1. t[i] \in Nat
      BY <1>1, <2>1 DEF PoolInv, Lag
    <3>2. ~(t[i] > 0)
      BY <1>1, <2>1, <2>2 DEF PoolInv, Queues
    <3> QED
      BY <3>1, <3>2
  <2>4. /\ \A j \in 1 .. g.n : j # i => frc'[j].prev = frc[j].prev
        /\ frc'[i].prev = Head(q[i])
    BY <1>1, <1>3, <2>1, <2>2
  <2>5. PICK b : b = EmitBurst(setup.mode) /\ b \in {1, 2}
    BY <1>2
  <2> QED
    BY <1>1, <2>1, <2>2, <2>3, <2>4, <2>5, HandedOn
<1>7. CASE FrcMid(i)
  <2>1. i \in 1 .. n - 1
    BY <1>1, <1>7 DEF FrcMid, Ready
  <2> QED
    BY <1>1, <1>7, <2>1, MidPools
<1>8. ~FrcUniform(i)
  BY <1>2 DEF FrcUniform
<1> QED
  BY <1>4, <1>5, <1>6, <1>7, <1>8 DEF Operator
-----------------------------------------------------------------------------
(* The GPU, PackOp, RX and TX *)

LEMMA WiredSame ==
  ASSUME NEW g, Wired(g), UNCHANGED <<setup, chain>>
  PROVE  Wired(g)'
BY DEF Wired, N, Op, Pool, QueueCap

\* The kernels of an operator that are still to run.
LEMMA StreamFacts ==
  ASSUME NEW g, NEW t, NEW d, PoolInv(g, t, d), NEW i \in DOMAIN chain, stream[i] # <<>>
  PROVE  /\ i \in Makers(g) \cup {g.n} /\ i \in 1 .. g.n /\ d[i] \in Nat /\ Listed(stream[i])
         /\ Kernel(g, t, i, d[i] + 1, Head(stream[i]))
         /\ Len(stream[i]) >= 1 /\ Len(stream[i]) \in Nat /\ Listed(Tail(stream[i]))
         /\ Len(Tail(stream[i])) = Len(stream[i]) - 1
         /\ \A x \in 1 .. Len(stream[i]) - 1 : Tail(stream[i])[x] = stream[i][x + 1]
<1>1. i \in 1 .. g.n /\ g.n \in Nat
  BY DEF PoolInv, Wired, Shape
<1>2. i \in Makers(g) \cup {g.n}
  <2>1. i \notin g.pass
    BY DEF PoolInv, Kernels
  <2> QED
    BY <1>1, <2>1 DEF Makers
<1>3. /\ d[i] \in Nat /\ Listed(stream[i])
      /\ \A x \in 1 .. Len(stream[i]) : Kernel(g, t, i, d[i] + x, stream[i][x])
  BY <1>2 DEF PoolInv, Kernels
<1>4. /\ Len(stream[i]) >= 1 /\ Len(stream[i]) \in Nat /\ Listed(Tail(stream[i]))
      /\ Head(stream[i]) = stream[i][1] /\ Len(Tail(stream[i])) = Len(stream[i]) - 1
      /\ \A x \in 1 .. Len(stream[i]) - 1 : Tail(stream[i])[x] = stream[i][x + 1]
  BY <1>3, ListedFacts
<1>5. 1 \in 1 .. Len(stream[i])
  BY <1>4
<1> QED
  BY <1>1, <1>2, <1>3, <1>4, <1>5

\* A kernel that has run leaves nothing behind it undone.
LEMMA DoneStep ==
  ASSUME NEW g, NEW t, NEW d, PoolInv(g, t, d), NEW i \in DOMAIN chain, stream[i] # <<>>,
         \A r \in Head(stream[i]).reads : written[r.buf] >= r.ver, NEW e, Step(g, d, i, e)
  PROVE  Done(g, e)
<1>1. PICK n, f : n = g.n /\ f = g.f /\ n \in Nat /\ f \in 0 .. n - 1 /\ g.rate \in {1, 2} /\ Shape(g)
  BY DEF PoolInv, Shape
<1>2. /\ i \in Makers(g) \cup {n} /\ i \in 1 .. n /\ d[i] \in Nat
      /\ Kernel(g, t, i, d[i] + 1, Head(stream[i]))
  BY <1>1, StreamFacts
<1>3. \A j \in 1 .. n : e[j] = IF j = i THEN d[i] + 1 ELSE d[j]
  BY <1>1 DEF Step
<1>4. \A j \in Makers(g) \cup {n} : d[j] \in Nat /\ j \in 1 .. n /\ e[j] \in Nat /\ d[j] <= e[j]
  <2>1. \A j \in Makers(g) \cup {n} : d[j] \in Nat
    BY <1>1 DEF PoolInv, Kernels
  <2>2. \A j \in Makers(g) \cup {n} : j \in 1 .. n
    BY <1>1 DEF Makers
  <2> QED
    BY <1>3, <2>1, <2>2
<1>5. ASSUME NEW r \in Makers(g), NEW j \in Makers(g) \cup {n}, r < j, d[j] > 0
      PROVE  d[r] >= Origin(g, r, j, Latest(g, j, d[j]))
  BY <1>1, <1>5 DEF PoolInv, Done
<1>6. PICK y, k : y = d[i] + 1 /\ k = Latest(g, i, y) /\ y \in Nat \ {0} /\ k \in Nat \ {0}
  BY <1>2 DEF Latest
<1>7. ASSUME NEW r \in Makers(g), r < i
      PROVE  d[r] >= Origin(g, r, i, k)
  <2>1. r \in 1 .. n - 1 /\ d[r] \in Nat
    BY <1>1, <1>4 DEF Makers
  <2>2. PICK m \in Head(stream[i]).reads : Item(g, t, i, k, m)
    BY <1>2, <1>6, <1>7, <2>1 DEF Kernel
  <2>3. PICK o, s : m.buf = <<o, s>> /\ Made(g, t, i, k, o, s, m.ver)
    BY <1>7, <2>1, <2>2 DEF Item
  <2>4. /\ o \in Makers(g) /\ o < i /\ \A z \in o + 1 .. i - 1 : z \in g.pass \/ z = f
        /\ o < f /\ f < i => k = 1 \/ SourceOf(g, k) = SourceOf(g, k - 1)
        /\ Copy(g.pool[o], Origin(g, o, i, k), s, m.ver)
    BY <1>1, <2>3 DEF Made
  <2>5. o \in 1 .. n - 1 /\ g.pool[o] \in Nat \ {0} /\ d[o] \in Nat
    BY <1>1, <1>4, <2>4 DEF Makers, Shape
  <2>6. PICK p, w : p = g.pool[o] /\ w = Origin(g, o, i, k)
    OBVIOUS
  <2>7. w \in Nat \ {0} /\ w <= d[o]
    <3>1. Copy(p, w, s, m.ver) /\ s \in 0 .. p - 1
      BY <2>4, <2>6 DEF Copy
    <3>2. w \in Int
      BY <2>5, <2>6, <3>1 DEF Copy
    <3>3. w >= 1
      <4>1. PICK v, a : v = m.ver /\ a = p * v /\ v \in Nat \ {0} /\ w = a - p + s + 1
        BY <3>1 DEF Copy
      <4>2. a >= p
        <5>1. PICK b \in Nat : v = 1 + b
          BY <4>1
        <5>2. a = p + p * b /\ p * b >= 0
          BY <2>5, <2>6, <4>1, <5>1
        <5> QED
          BY <2>5, <2>6, <5>1, <5>2
      <4> QED
        BY <2>5, <2>6, <3>1, <4>1, <4>2
    <3>4. Filled(p, d[o], s, written[<<o, s>>])
      BY <1>1, <2>4, <2>6, <3>1 DEF PoolInv, Pools
    <3>5. written[<<o, s>>] >= m.ver
      BY <2>2, <2>3
    <3>6. w <= d[o]
      BY <2>5, <2>6, <3>1, <3>4, <3>5, FilledCopy
    <3> QED
      BY <3>2, <3>3, <3>6
  <2>8. CASE r = o
    BY <2>6, <2>7, <2>8
  <2>9. CASE r < o
    <3>1. d[o] > 0
      BY <2>5, <2>7
    <3>2. d[r] >= Origin(g, r, o, Latest(g, o, d[o]))
      BY <1>5, <2>4, <2>9, <3>1
    <3>3. Latest(g, o, w) \in Nat /\ Latest(g, o, d[o]) \in Nat /\ Latest(g, o, w) <= Latest(g, o, d[o])
      BY <2>5, <2>7 DEF Latest
    <3>4. /\ Origin(g, r, o, Latest(g, o, w)) <= Origin(g, r, o, Latest(g, o, d[o]))
          /\ Origin(g, r, o, Latest(g, o, w)) \in Int /\ Origin(g, r, o, Latest(g, o, d[o])) \in Int
      <4>1. o \in 1 .. g.n /\ r \in 1 .. g.n - 1
        BY <1>1, <2>1, <2>5
      <4>2. PICK a, b : a = Latest(g, o, w) /\ b = Latest(g, o, d[o]) /\ a \in Nat /\ b \in Nat /\ a <= b
        BY <3>3
      <4>3. Origin(g, r, o, a) <= Origin(g, r, o, b) /\ Origin(g, r, o, a) \in Int
        BY <1>1, <4>1, <4>2, OriginGrows
      <4>4. b <= b
        BY <4>2
      <4>5. Origin(g, r, o, b) \in Int
        BY <1>1, <4>1, <4>2, <4>4, OriginGrows
      <4> QED
        BY <4>2, <4>3, <4>5
    <3>5. Origin(g, r, o, Latest(g, o, w)) = Origin(g, r, i, k)
      BY <1>1, <1>2, <1>6, <2>1, <2>4, <2>5, <2>6, <2>9, OriginJoins
    <3> QED
      BY <2>1, <3>2, <3>4, <3>5
  <2>10. CASE o < r
    <3>1. r = f
      <4>1. r \in o + 1 .. i - 1 /\ r \notin g.pass
        BY <1>2, <1>7, <2>1, <2>5, <2>10 DEF Makers
      <4> QED
        BY <2>4, <4>1
    <3>2. Origin(g, r, i, k) = SourceOf(g, k) - 1
      BY <1>1, <1>2, <1>7, <2>1, <3>1 DEF Origin
    <3>3. CASE k = 1
      <4>1. SourceOf(g, k) = 1
        BY <1>1, <3>3 DEF SourceOf
      <4> QED
        BY <2>1, <3>2, <4>1
    <3>4. CASE k # 1
      <4>1. SourceOf(g, k) = SourceOf(g, k - 1)
        BY <1>7, <2>4, <2>10, <3>1, <3>4
      <4>2. i # f /\ k = d[i] + 1 /\ k - 1 = d[i] /\ d[i] > 0
        <5>1. i # f
          BY <1>2, <1>7, <2>1, <3>1
        <5>2. k = d[i] + 1
          BY <1>1, <1>6, <5>1 DEF Latest
        <5> QED
          BY <1>2, <1>6, <3>4, <5>1, <5>2
      <4>3. d[r] >= Origin(g, r, i, k - 1)
        <5>1. Latest(g, i, d[i]) = k - 1
          BY <1>1, <4>2 DEF Latest
        <5>2. d[r] >= Origin(g, r, i, Latest(g, i, d[i]))
          BY <1>2, <1>5, <1>7, <4>2
        <5> QED
          BY <5>1, <5>2
      <4>4. Origin(g, r, i, k - 1) = SourceOf(g, k - 1) - 1
        BY <1>1, <1>2, <1>7, <2>1, <3>1 DEF Origin
      <4> QED
        BY <3>2, <4>1, <4>3, <4>4
    <3> QED
      BY <3>3, <3>4
  <2> QED
    BY <2>1, <2>5, <2>8, <2>9, <2>10
<1>8. ASSUME NEW r \in Makers(g), NEW j \in Makers(g) \cup {n}, r < j, e[j] > 0
      PROVE  e[r] >= Origin(g, r, j, Latest(g, j, e[j]))
  <2>1. r \in 1 .. n - 1 /\ r \in Nat /\ j \in 1 .. n /\ d[r] \in Nat /\ e[r] \in Nat /\ d[r] <= e[r]
    BY <1>1, <1>4 DEF Makers
  <2>2. PICK c, w : c = Latest(g, j, e[j]) /\ w = Origin(g, r, j, c) /\ c \in Nat /\ w \in Int
    <3>1. e[j] \in Nat
      BY <1>4
    <3>2. Latest(g, j, e[j]) \in Nat
      BY <3>1 DEF Latest
    <3>3. PICK c : c = Latest(g, j, e[j]) /\ c \in Nat /\ c <= c
      BY <3>2
    <3>4. Origin(g, r, j, c) \in Int
      BY <1>1, <2>1, <3>3, OriginGrows
    <3> QED
      BY <3>3, <3>4
  <2>3. d[r] >= w
    <3>1. CASE j = i
      <4>1. e[j] = y
        BY <1>2, <1>3, <1>6, <3>1
      <4> QED
        BY <1>6, <1>7, <1>8, <2>2, <3>1, <4>1
    <3>2. CASE j # i
      <4>1. e[j] = d[j]
        BY <1>3, <2>1, <3>2
      <4> QED
        BY <1>5, <1>8, <2>2, <4>1
    <3> QED
      BY <3>1, <3>2
  <2> QED
    BY <2>1, <2>2, <2>3
<1> QED
  BY <1>1, <1>8 DEF Done

LEMMA KernelPools ==
  ASSUME HostInv, NEW g, NEW t, NEW d, PoolInv(g, t, d), NEW i \in DOMAIN chain, KernelRuns(i)
  PROVE  \E e : PoolInv(g, t, e)'
<1>1. PICK n, c, e : n = g.n /\ c = Head(stream[i]) /\ Step(g, d, i, e)
  BY StepExists
<1>2. /\ stream[i] # <<>> /\ \A r \in c.reads : written[r.buf] >= r.ver
      /\ written' = [written EXCEPT ![c.dst] = @ + 1]
      /\ stream' = [stream EXCEPT ![i] = Tail(@)]
      /\ UNCHANGED <<setup, chain, q, slot, launched, frc, packing>>
  BY <1>1 DEF KernelRuns
<1>3. /\ Shape(g) /\ Wired(g) /\ Lag(g, t) /\ Queues(g, t)
      /\ Kernels(g, t, d) /\ Pools(g, t, d) /\ Packed(g, t, d) /\ n \in Nat /\ n = N
  BY <1>1 DEF PoolInv, Shape, Wired
<1>4. /\ i \in Makers(g) \cup {n} /\ i \in 1 .. n /\ d[i] \in Nat
      /\ Kernel(g, t, i, d[i] + 1, c)
      /\ Len(stream[i]) >= 1 /\ Len(stream[i]) \in Nat /\ Listed(Tail(stream[i]))
      /\ Len(Tail(stream[i])) = Len(stream[i]) - 1
      /\ \A x \in 1 .. Len(stream[i]) - 1 : Tail(stream[i])[x] = stream[i][x + 1]
  BY <1>1, <1>2, StreamFacts
<1>5. /\ DOMAIN stream = 1 .. n
      /\ \A j \in 1 .. n - 1 : \A s \in 0 .. g.pool[j] - 1 :
           <<j, s>> \in DOMAIN written /\ written[<<j, s>>] \in Nat
  BY <1>1, <1>3, PoolBuffers
<1>6. stream'[i] = Tail(stream[i]) /\ \A j \in 1 .. n : j # i => stream'[j] = stream[j]
  BY <1>2, <1>4, <1>5
<1>7. \A j \in 1 .. n : e[j] = IF j = i THEN d[i] + 1 ELSE d[j]
  BY <1>1 DEF Step
<1>8. ASSUME NEW j \in Makers(g) \cup {n}
      PROVE  /\ e[j] \in Nat /\ Listed(stream'[j]) /\ e[j] + Len(stream'[j]) = Runs(g, j, t[j])
             /\ \A y \in 1 .. Len(stream'[j]) : Kernel(g, t, j, e[j] + y, stream'[j][y])
  <2>1. /\ d[j] \in Nat /\ Listed(stream[j]) /\ d[j] + Len(stream[j]) = Runs(g, j, t[j])
        /\ \A y \in 1 .. Len(stream[j]) : Kernel(g, t, j, d[j] + y, stream[j][y])
    BY <1>1, <1>3 DEF Kernels
  <2>2. j \in 1 .. n
    <3>1. n \in 1 .. n
      BY <1>1, <1>3 DEF Shape
    <3>2. j # n => j \in 1 .. n - 1
      BY <1>1 DEF Makers
    <3> QED
      BY <1>3, <3>1, <3>2
  <2>3. CASE j # i
    <3>1. stream'[j] = stream[j] /\ e[j] = d[j]
      BY <1>6, <1>7, <2>2, <2>3
    <3> QED
      BY <2>1, <3>1
  <2>4. CASE j = i
    <3>1. e[j] = d[j] + 1 /\ Len(stream'[j]) = Len(stream[j]) - 1
      BY <1>4, <1>6, <1>7, <2>4
    <3>2. ASSUME NEW y \in 1 .. Len(stream'[j])
          PROVE  Kernel(g, t, j, e[j] + y, stream'[j][y])
      <4>1. y \in 1 .. Len(stream[j]) - 1 /\ y + 1 \in 1 .. Len(stream[j]) /\ y \in Nat
        BY <1>4, <2>4, <3>1
      <4>2. stream'[j][y] = stream[j][y + 1]
        BY <1>4, <1>6, <2>4, <4>1
      <4>3. Kernel(g, t, j, d[j] + (y + 1), stream[j][y + 1])
        BY <2>1, <4>1
      <4>4. d[j] + (y + 1) = e[j] + y
        <5>1. d[j] \in Nat /\ y \in Nat /\ e[j] = d[j] + 1
          BY <2>1, <3>1, <4>1
        <5> QED
          BY <5>1
      <4> QED
        BY <4>2, <4>3, <4>4
    <3>3. e[j] + Len(stream'[j]) = d[j] + Len(stream[j])
      BY <1>4, <2>1, <2>4, <3>1
    <3> QED
      BY <1>4, <1>6, <2>1, <2>4, <3>1, <3>2, <3>3
  <2> QED
    BY <2>3, <2>4
<1>9. Kernels(g, t, e)'
  <2>1. ASSUME NEW j \in g.pass
        PROVE  stream'[j] = <<>>
    <3>1. j \in 1 .. n /\ stream[j] = <<>>
      BY <1>1, <1>3 DEF Shape, Kernels
    <3>2. j # i
      BY <1>2, <3>1
    <3> QED
      BY <1>6, <3>1, <3>2
  <2> QED
    BY <1>1, <1>8, <2>1 DEF Kernels
<1>10. ASSUME NEW j \in Makers(g), NEW s \in 0 .. g.pool[j] - 1
       PROVE  Filled(g.pool[j], e[j], s, written'[<<j, s>>])
  <2>1. Filled(g.pool[j], d[j], s, written[<<j, s>>])
    BY <1>3 DEF Pools
  <2>2. j \in 1 .. n - 1 /\ j \in 1 .. n /\ g.pool[j] \in Nat \ {0}
    BY <1>1, <1>3 DEF Makers, Shape
  <2>3. <<j, s>> \in DOMAIN written /\ written[<<j, s>>] \in Nat
    BY <1>5, <2>2
  <2>4. CASE i = n
    <3>1. c.dst[1] = n
      <4>1. PICK ss : ss = stream[n] /\ ss # <<>>
        BY <1>2, <2>4
      <4>2. Packing(packing, n, launched, written, ss)
        <5>1. packing # Idle
          BY <1>1, <1>3, <4>1 DEF Packed
        <5> QED
          BY <1>3, <4>1, <5>1 DEF HostInv
      <4>3. PICK z, R : ss = <<[dst |-> <<n, z>>, reads |-> R]>>
        BY <4>1, <4>2 DEF Packing
      <4>4. Head(ss) = [dst |-> <<n, z>>, reads |-> R]
        BY <4>3
      <4>5. c.dst = <<n, z>>
        BY <1>1, <2>4, <4>1, <4>4
      <4> QED
        BY <4>5
    <3>2. <<j, s>> # c.dst
      BY <1>3, <2>2, <3>1
    <3>3. written'[<<j, s>>] = written[<<j, s>>] /\ e[j] = d[j]
      BY <1>2, <1>3, <1>7, <2>2, <2>3, <2>4, <3>2
    <3> QED
      BY <2>1, <3>3
  <2>5. CASE i # n
    <3>1. i \in 1 .. n - 1 /\ i < g.n
      BY <1>1, <1>3, <1>4, <2>5
    <3>2. PICK z, v : c.dst = <<i, z>> /\ Copy(g.pool[i], d[i] + 1, z, v)
      BY <1>4, <3>1 DEF Kernel
    <3>3. CASE j = i
      <4>1. Filled(g.pool[i], d[i] + 1, s, IF s = z THEN written[<<j, s>>] + 1 ELSE written[<<j, s>>])
        BY <1>4, <2>1, <2>2, <3>2, <3>3, FilledNext
      <4>2. written'[<<j, s>>] = IF s = z THEN written[<<j, s>>] + 1 ELSE written[<<j, s>>]
        BY <1>2, <2>3, <3>2, <3>3
      <4>3. e[j] = d[i] + 1
        BY <1>7, <2>2, <3>3
      <4> QED
        BY <3>3, <4>1, <4>2, <4>3
    <3>4. CASE j # i
      <4>1. written'[<<j, s>>] = written[<<j, s>>] /\ e[j] = d[j]
        BY <1>2, <1>7, <2>2, <2>3, <3>2, <3>4
      <4> QED
        BY <2>1, <4>1
    <3> QED
      BY <3>3, <3>4
  <2> QED
    BY <2>4, <2>5
<1>11. Pools(g, t, e)'
  <2>1. slot' = slot /\ launched' = launched
    BY <1>2
  <2>2. ASSUME NEW j \in Makers(g)
        PROVE  /\ \E v : Copy(g.pool[j], Runs(g, j, t[j]) + 1, slot'[j], v)
               /\ \A s \in 0 .. g.pool[j] - 1 : Filled(g.pool[j], Runs(g, j, t[j]), s, launched'[<<j, s>>])
    BY <1>3, <2>1 DEF Pools
  <2> QED
    BY <1>10, <2>2 DEF Pools
<1>12. Done(g, e)
  BY <1>1, <1>2, DoneStep
<1>13. Packed(g, t, e)'
  <2>1. packing' = packing /\ Idle' = Idle
    BY <1>2 DEF Idle, NoFrame
  <2>2. CASE packing = Idle
    <3>1. stream[n] = <<>> /\ n # i /\ n \in 1 .. n
      BY <1>1, <1>2, <1>3, <1>4, <2>2 DEF Packed, Shape
    <3>2. stream'[n] = <<>>
      BY <1>6, <3>1
    <3> QED
      BY <1>1, <2>1, <2>2, <3>2 DEF Packed
  <2>3. CASE packing # Idle
    <3>1. t[n] > 0 /\ d[n] >= t[n] - 1 /\ Item(g, t, n, t[n], packing.src)
      BY <1>1, <1>3, <2>3 DEF Packed
    <3>2. e[n] >= t[n] - 1
      <4>1. n \in 1 .. n /\ t[n] \in Nat /\ d[n] \in Nat
        BY <1>1, <1>3 DEF Shape, Lag, Kernels
      <4>2. e[n] \in {d[n], d[n] + 1}
        BY <1>7, <4>1
      <4> QED
        BY <3>1, <4>1, <4>2
    <3> QED
      BY <1>1, <2>1, <2>3, <3>1, <3>2 DEF Packed
  <2> QED
    BY <2>2, <2>3
<1>14. Queues(g, t)' /\ Wired(g)'
  BY <1>2, <1>3, WiredSame DEF Queues
<1>15. PoolInv(g, t, e)'
  BY <1>3, <1>9, <1>11, <1>12, <1>13, <1>14 DEF PoolInv
<1> QED
  BY <1>15

\* A step that none of this notices.
LEMMA PoolsSame ==
  ASSUME NEW g, NEW t, NEW d, PoolInv(g, t, d),
         UNCHANGED <<setup, chain, q, slot, launched, written, stream, frc, packing>>
  PROVE  PoolInv(g, t, d)'
<1>1. Wired(g)'
  BY WiredSame DEF PoolInv
<1>2. Queues(g, t)' /\ Kernels(g, t, d)' /\ Pools(g, t, d)' /\ Packed(g, t, d)'
  BY DEF PoolInv, Queues, Kernels, Pools, Packed, Idle, NoFrame
<1> QED
  BY <1>1, <1>2 DEF PoolInv

LEMMA EmitPools ==
  ASSUME NEW g, NEW t, NEW d, PoolInv(g, t, d), PackEmit
  PROVE  PoolInv(g, t, d)'
<1>1. /\ stream[N] = <<>> /\ packing' = Idle
      /\ UNCHANGED <<setup, chain, q, slot, launched, written, stream, frc>>
  BY DEF PackEmit
<1>2. Wired(g)'
  BY <1>1, WiredSame DEF PoolInv
<1>3. Queues(g, t)' /\ Kernels(g, t, d)' /\ Pools(g, t, d)'
  BY <1>1 DEF PoolInv, Queues, Kernels, Pools
<1>4. Packed(g, t, d)'
  <2>1. g.n = N
    BY DEF PoolInv, Wired
  <2> QED
    BY <1>1, <2>1 DEF Packed, Idle, NoFrame
<1> QED
  BY <1>2, <1>3, <1>4 DEF PoolInv

LEMMA ReceivePools ==
  ASSUME GridInv, NEW g, NEW t, NEW d, PoolInv(g, t, d), NEW gap, Receive(gap)
  PROVE  PoolInv(g, t, d)'
<1>1. PICK m : /\ m = [NoFrame EXCEPT !.stamp = cap + gap] /\ q' = [q EXCEPT ![1] = <<m>>]
               /\ UNCHANGED <<setup, chain, slot, launched, written, stream, frc, packing>>
  BY DEF Receive
<1>2. m.ver = 0
  BY <1>1 DEF NoFrame
<1>3. PICK n : n = g.n /\ n \in Nat /\ n >= 2 /\ DOMAIN chain = 1 .. n
  BY DEF PoolInv, Shape, Wired
<1>4. q'[1] = <<m>> /\ \A j \in 1 .. n : j # 1 => q'[j] = q[j]
  <2>1. DOMAIN q = 1 .. n
    BY <1>3 DEF GridInv
  <2> QED
    BY <1>1, <1>3, <2>1
<1>5. Wired(g)'
  BY <1>1, WiredSame DEF PoolInv
<1>6. Kernels(g, t, d)' /\ Pools(g, t, d)' /\ Packed(g, t, d)'
  BY <1>1 DEF PoolInv, Kernels, Pools, Packed, Idle, NoFrame
<1>7. Queues(g, t)'
  <2>1. Queues(g, t)
    BY DEF PoolInv
  <2>2. \A i \in 1 .. n - 1 : Emitted(g, i, t[i]) = t[i + 1] + Len(q'[i + 1])
    <3>1. \A i \in 1 .. n - 1 : q'[i + 1] = q[i + 1]
      BY <1>3, <1>4
    <3> QED
      BY <1>3, <2>1, <3>1 DEF Queues
  <2>3. ASSUME NEW j \in 1 .. n, NEW x \in 1 .. Len(q'[j])
        PROVE  Item(g, t, j, t[j] + x, q'[j][x])
    <3>1. CASE j = 1
      <4>1. Len(q'[j]) = 1 /\ x = 1 /\ q'[j][x] = m
        <5>1. q'[j] = <<m>>
          BY <1>4, <3>1
        <5>2. Len(<<m>>) = 1 /\ <<m>>[1] = m
          OBVIOUS
        <5>3. x \in 1 .. 1
          BY <5>1, <5>2
        <5>4. x = 1
          BY <5>3
        <5> QED
          BY <5>1, <5>2, <5>4
      <4> QED
        BY <1>2, <3>1, <4>1 DEF Item
    <3>2. CASE j # 1
      BY <1>3, <1>4, <2>1, <3>2 DEF Queues
    <3> QED
      BY <3>1, <3>2
  <2>4. \A i \in 1 .. n :
          IF i = g.f /\ t[i] > 0 THEN frc'[i].prev # NoFrame /\ Item(g, t, i, t[i], frc'[i].prev)
          ELSE frc'[i].prev = NoFrame
    BY <1>1, <1>3, <2>1 DEF Queues
  <2> QED
    BY <1>3, <2>2, <2>3, <2>4 DEF Queues
<1> QED
  BY <1>5, <1>6, <1>7 DEF PoolInv

LEMMA LaunchPools ==
  ASSUME GridInv, HostInv, NEW g, NEW t, NEW d, PoolInv(g, t, d), PackLaunch
  PROVE  \E u : PoolInv(g, u, d)'
<1>1. PICK n, m, c, s, w, u :
        /\ n = g.n /\ n = N /\ m = Head(q[n]) /\ c = [dst |-> <<n, s>>, reads |-> {m}] /\ s = Chosen
        /\ w = IF Candidates = {} THEN slot[n] ELSE (s + 1) % hosts
        /\ Step(g, t, n, u)
  BY StepExists DEF PoolInv, Wired
<1>2. /\ q[n] # <<>> /\ packing = Idle /\ packing'.src = m
      /\ slot' = [slot EXCEPT ![n] = w] /\ q' = [q EXCEPT ![n] = Tail(@)]
      /\ launched' = [launched EXCEPT ![<<n, s>>] = @ + 1]
      /\ stream' = [stream EXCEPT ![n] = Append(@, c)]
      /\ UNCHANGED <<setup, chain, written, frc>>
  <2>1. /\ q[N] # <<>> /\ packing = Idle
        /\ packing' = [src |-> Head(q[N]), host |-> GpuFrame(<<N, Chosen>>, Head(q[N]).stamp)]
        /\ slot' = [slot EXCEPT ![N] = IF Candidates = {} THEN @ ELSE (Chosen + 1) % hosts]
        /\ q' = [q EXCEPT ![N] = Tail(@)]
        /\ launched' = [launched EXCEPT ![<<N, Chosen>>] = @ + 1]
        /\ stream' = [stream EXCEPT
             ![N] = Append(@, [dst |-> <<N, Chosen>>, reads |-> {Head(q[N])}])]
        /\ UNCHANGED <<setup, chain, written, frc>>
    BY Zenon DEF PackLaunch, Candidates, Chosen
  <2> QED
    BY <1>1, <2>1
<1>3. /\ Shape(g) /\ Wired(g) /\ Lag(g, t) /\ Queues(g, t) /\ Kernels(g, t, d) /\ Pools(g, t, d)
      /\ Done(g, d) /\ Packed(g, t, d)
      /\ n \in Nat /\ n >= 2 /\ n \in 1 .. n /\ n - 1 \in 1 .. n - 1 /\ n # g.f /\ n \notin g.pass
      /\ g.f \in 0 .. n - 1
  BY <1>1 DEF PoolInv, Shape
<1>4. /\ \A j \in 1 .. n : t[j] \in Nat /\ u[j] \in Nat /\ t[j] <= u[j]
      /\ u[n] = t[n] + 1 /\ \A j \in 1 .. n : j # n => u[j] = t[j]
  <2>1. n \in 1 .. g.n /\ Step(g, t, n, u) /\ Lag(g, t)
    BY <1>1, <1>3
  <2>2. /\ \A j \in 1 .. g.n : t[j] \in Nat /\ u[j] \in Nat /\ t[j] <= u[j]
        /\ u[n] = t[n] + 1 /\ \A j \in 1 .. g.n : j # n => u[j] = t[j]
    BY <2>1, StepGrows
  <2> QED
    BY <1>1, <2>2
<1>5. DOMAIN chain = 1 .. n /\ DOMAIN q = 1 .. n /\ DOMAIN stream = 1 .. n /\ DOMAIN slot = 1 .. n
  BY <1>1, <1>3, PoolBuffers DEF Wired, GridInv
<1>6. Listed(q[n]) /\ Len(q[n]) \in Nat /\ Len(q[n]) >= 1 /\ m = q[n][1]
      /\ Len(Tail(q[n])) = Len(q[n]) - 1
      /\ \A x \in 1 .. Len(q[n]) - 1 : Tail(q[n])[x] = q[n][x + 1]
  <2>1. Listed(q[n])
    <3>1. Line(q[n], high)
      BY <1>3, <1>5 DEF GridInv
    <3> QED
      BY <3>1 DEF Line, Listed
  <2> QED
    BY <1>1, <1>2, <2>1, ListedFacts
<1>7. Emitted(g, n - 1, t[n - 1]) = t[n] + Len(q[n])
  <2>1. (n - 1) + 1 = n
    BY <1>3
  <2> QED
    BY <1>1, <1>3, <2>1 DEF Queues
<1>8. Lag(g, u)
  <2>1. t[n] + 1 <= Emitted(g, n - 1, t[n - 1])
    BY <1>3, <1>4, <1>6, <1>7
  <2>2. \A j \in 1 .. g.n : u[j] = IF j = n THEN t[n] + 1 ELSE t[j]
    BY <1>1 DEF Step
  <2>3. ~(n < g.n) /\ n \in 1 .. g.n
    BY <1>1, <1>3
  <2> QED
    BY <1>3, <2>1, <2>2, <2>3, LagStep
<1>9. ASSUME NEW j \in 1 .. n, NEW x \in 1 .. Len(q[j])
      PROVE  Item(g, u, j, t[j] + x, q[j][x])
  <2>1. Item(g, t, j, t[j] + x, q[j][x])
    BY <1>1, <1>3 DEF Queues
  <2> QED
    BY <1>1, <1>3, <1>4, <2>1, ItemLater
<1>10. q'[n] = Tail(q[n]) /\ \A j \in 1 .. n : j # n => q'[j] = q[j]
  BY <1>2, <1>3, <1>5
<1>11. Queues(g, u)'
  <2>1. ASSUME NEW j \in 1 .. n - 1
        PROVE  Emitted(g, j, u[j]) = u[j + 1] + Len(q'[j + 1])
    <3>1. j \in 1 .. n /\ j + 1 \in 1 .. n /\ j # n /\ u[j] = t[j]
      BY <1>3, <1>4
    <3>2. Emitted(g, j, t[j]) = t[j + 1] + Len(q[j + 1])
      BY <1>1, <1>3 DEF Queues
    <3>3. CASE j + 1 = n
      <4>1. PICK a, b : a = t[n] /\ b = Len(q[n]) /\ a \in Nat /\ b \in Nat
        BY <1>3, <1>4, <1>6
      <4>2. u[j + 1] = a + 1 /\ Len(q'[j + 1]) = b - 1 /\ a + b = (a + 1) + (b - 1)
        <5>1. u[j + 1] = a + 1
          BY <1>4, <3>3, <4>1
        <5>2. Len(q'[j + 1]) = b - 1
          BY <1>6, <1>10, <3>3, <4>1
        <5>3. a + b = (a + 1) + (b - 1)
          BY <4>1
        <5> QED
          BY <5>1, <5>2, <5>3
      <4>3. Emitted(g, j, u[j]) = a + b
        BY <3>1, <3>2, <3>3, <4>1
      <4> QED
        BY <4>2, <4>3
    <3>4. CASE j + 1 # n
      BY <1>4, <1>10, <3>1, <3>2, <3>4
    <3> QED
      BY <3>3, <3>4
  <2>2. ASSUME NEW j \in 1 .. n, NEW x \in 1 .. Len(q'[j])
        PROVE  Item(g, u, j, u[j] + x, q'[j][x])
    <3>1. CASE j = n
      <4>1. x \in 1 .. Len(q[n]) - 1 /\ x + 1 \in 1 .. Len(q[n]) /\ x \in Nat
        <5>1. Len(q'[j]) = Len(q[n]) - 1
          BY <1>6, <1>10, <3>1
        <5>2. x \in 1 .. Len(q[n]) - 1
          BY <5>1
        <5> QED
          BY <1>6, <5>2
      <4>2. q'[j][x] = q[n][x + 1]
        BY <1>6, <1>10, <3>1, <4>1
      <4>3. Item(g, u, n, t[n] + (x + 1), q[n][x + 1])
        BY <1>3, <1>9, <4>1
      <4>4. t[n] + (x + 1) = u[j] + x
        <5>1. t[n] \in Nat /\ u[j] = t[n] + 1
          BY <1>3, <1>4, <3>1
        <5> QED
          BY <4>1, <5>1
      <4> QED
        BY <3>1, <4>2, <4>3, <4>4
    <3>2. CASE j # n
      BY <1>4, <1>9, <1>10, <3>2
    <3> QED
      BY <3>1, <3>2
  <2>3. ASSUME NEW j \in 1 .. n
        PROVE  IF j = g.f /\ u[j] > 0 THEN frc'[j].prev # NoFrame /\ Item(g, u, j, u[j], frc'[j].prev)
               ELSE frc'[j].prev = NoFrame
    <3>1. IF j = g.f /\ t[j] > 0 THEN frc[j].prev # NoFrame /\ Item(g, t, j, t[j], frc[j].prev)
          ELSE frc[j].prev = NoFrame
      BY <1>1, <1>3 DEF Queues
    <3>2. frc'[j] = frc[j] /\ (j = g.f => u[j] = t[j])
      BY <1>2, <1>3, <1>4
    <3>3. Item(g, t, j, t[j], frc[j].prev) => Item(g, u, j, t[j], frc[j].prev)
      BY <1>1, <1>3, <1>4, ItemLater
    <3> QED
      BY <3>1, <3>2, <3>3
  <2> QED
    BY <1>1, <2>1, <2>2, <2>3 DEF Queues
<1>12. stream[n] = <<>> /\ stream'[n] = <<c>> /\ \A j \in 1 .. n : j # n => stream'[j] = stream[j]
  <2>1. stream[n] = <<>>
    BY <1>1, <1>2, <1>3 DEF Packed
  <2>2. Append(<<>>, c) = <<c>>
    OBVIOUS
  <2> QED
    BY <1>2, <1>3, <1>5, <2>1, <2>2
<1>13. d[n] = t[n] /\ d[n] \in Nat /\ n \notin Makers(g)
  <2>1. d[n] \in Nat /\ d[n] + Len(stream[n]) = Runs(g, n, t[n]) /\ Len(<<>>) = 0
    BY <1>1, <1>3 DEF Kernels
  <2>2. Runs(g, n, t[n]) = t[n]
    BY <1>3 DEF Runs
  <2>3. n \notin Makers(g)
    BY <1>1, <1>3 DEF Makers
  <2> QED
    BY <1>3, <1>4, <1>12, <2>1, <2>2, <2>3
<1>14. Item(g, u, n, u[n], m)
  <2>1. 1 \in 1 .. Len(q[n])
    BY <1>6
  <2>2. Item(g, u, n, t[n] + 1, q[n][1])
    BY <1>3, <1>9, <2>1
  <2> QED
    BY <1>4, <1>6, <2>2
<1>15. Kernel(g, u, n, u[n], c)
  <2>1. ~(n < g.n) /\ n # 1 /\ Latest(g, n, u[n]) = u[n] /\ c.reads = {m}
    BY <1>1, <1>3 DEF Latest
  <2> QED
    BY <1>14, <2>1 DEF Kernel
<1>16. Kernels(g, u, d)'
  <2>1. ASSUME NEW j \in Makers(g) \cup {n}
        PROVE  /\ d[j] \in Nat /\ Listed(stream'[j]) /\ d[j] + Len(stream'[j]) = Runs(g, j, u[j])
               /\ \A y \in 1 .. Len(stream'[j]) : Kernel(g, u, j, d[j] + y, stream'[j][y])
    <3>1. /\ d[j] \in Nat /\ Listed(stream[j]) /\ d[j] + Len(stream[j]) = Runs(g, j, t[j])
          /\ \A y \in 1 .. Len(stream[j]) : Kernel(g, t, j, d[j] + y, stream[j][y])
      BY <1>1, <1>3 DEF Kernels
    <3>2. CASE j = n
      <4>1. Listed(<<c>>) /\ Len(<<c>>) = 1 /\ <<c>>[1] = c
        <5>1. <<c>> \in Seq({c})
          OBVIOUS
        <5> QED
          BY <5>1 DEF Listed
      <4>2. d[n] + 1 = Runs(g, n, u[n]) /\ d[n] + 1 = u[n]
        BY <1>3, <1>4, <1>13 DEF Runs
      <4>3. \A y \in 1 .. Len(<<c>>) : y = 1
        BY <4>1
      <4>4. \A y \in 1 .. Len(<<c>>) : Kernel(g, u, n, d[n] + y, <<c>>[y])
        BY <1>15, <4>1, <4>2, <4>3
      <4> QED
        BY <1>12, <1>13, <3>2, <4>1, <4>2, <4>4
    <3>3. CASE j # n
      <4>1. j \in 1 .. n
        BY <1>1, <1>3, <3>3 DEF Makers
      <4>2. stream'[j] = stream[j] /\ u[j] = t[j]
        BY <1>4, <1>12, <3>3, <4>1
      <4>3. \A y \in 1 .. Len(stream[j]) : Kernel(g, u, j, d[j] + y, stream[j][y])
        BY <1>1, <1>3, <1>4, <3>1, KernelLater
      <4> QED
        BY <3>1, <4>2, <4>3
    <3> QED
      BY <3>2, <3>3
  <2>2. ASSUME NEW j \in g.pass
        PROVE  stream'[j] = <<>>
    <3>1. j \in 1 .. n /\ j # n /\ stream[j] = <<>>
      BY <1>1, <1>3 DEF Shape, Kernels
    <3> QED
      BY <1>12, <3>1
  <2> QED
    BY <1>1, <2>1, <2>2 DEF Kernels
<1>17. Pools(g, u, d)'
  <2>1. ASSUME NEW j \in Makers(g)
        PROVE  /\ \E v : Copy(g.pool[j], Runs(g, j, u[j]) + 1, slot'[j], v)
               /\ \A z \in 0 .. g.pool[j] - 1 :
                    /\ Filled(g.pool[j], Runs(g, j, u[j]), z, launched'[<<j, z>>])
                    /\ Filled(g.pool[j], d[j], z, written'[<<j, z>>])
    <3>1. j \in 1 .. n /\ j \in 1 .. n - 1 /\ j # n
      BY <1>1, <1>3 DEF Makers
    <3>2. u[j] = t[j] /\ slot'[j] = slot[j]
      BY <1>2, <1>3, <1>4, <1>5, <3>1
    <3>3. \A z \in 0 .. g.pool[j] - 1 : launched'[<<j, z>>] = launched[<<j, z>>]
      <4>1. \A z \in 0 .. g.pool[j] - 1 : <<j, z>> \in DOMAIN launched /\ <<j, z>> # <<n, s>>
        BY <1>1, <1>3, <3>1, PoolBuffers
      <4> QED
        BY <1>2, <4>1
    <3> QED
      BY <1>2, <1>3, <3>2, <3>3 DEF Pools
  <2> QED
    BY <2>1 DEF Pools
<1>18. Packed(g, u, d)'
  <2>1. packing' # Idle
    <3>1. m # NoFrame
      BY <1>3, <1>14, ItemIsFrame
    <3>2. Idle.src = NoFrame
      BY DEF Idle
    <3> QED
      BY <1>2, <3>1, <3>2
  <2>2. Idle' = Idle
    BY DEF Idle, NoFrame
  <2>3. u[n] > 0 /\ d[n] >= u[n] - 1
    BY <1>3, <1>4, <1>13
  <2> QED
    BY <1>1, <1>2, <1>14, <2>1, <2>2, <2>3 DEF Packed
<1>19. Wired(g)'
  BY <1>2, <1>3, WiredSame
<1>20. PoolInv(g, u, d)'
  BY <1>3, <1>8, <1>11, <1>16, <1>17, <1>18, <1>19 DEF PoolInv
<1> QED
  BY <1>20

\* Every step keeps the invariant, with other counts.
LEMMA PoolsStay ==
  ASSUME GridInv, HostInv, NEW g, NEW t, NEW d, PoolInv(g, t, d), [ChainNext]_chainVars
  PROVE  \E u, e : PoolInv(g, u, e)'
<1>1. CASE \E gap \in setup.gaps : Receive(gap)
  BY <1>1, ReceivePools
<1>2. CASE \E i \in DOMAIN chain : Operator(i)
  BY <1>2, OperatorPools
<1>3. CASE \E i \in DOMAIN chain : KernelRuns(i)
  BY <1>3, KernelPools
<1>4. CASE PackLaunch
  BY <1>4, LaunchPools
<1>5. CASE PackEmit
  BY <1>5, EmitPools
<1>6. CASE TxTake \/ TxSent \/ UNCHANGED chainVars
  <2>1. UNCHANGED <<setup, chain, q, slot, launched, written, stream, frc, packing>>
    BY <1>6 DEF TxTake, TxSent, chainVars
  <2> QED
    BY <2>1, PoolsSame
<1> QED
  BY <1>1, <1>2, <1>3, <1>4, <1>5, <1>6 DEF ChainNext
-----------------------------------------------------------------------------
(* What it says of the buffers *)

\* A frame nobody has handed on yet is alive.
LEMMA AliveFrom ==
  ASSUME NEW g, Shape(g), NEW t, Lag(g, t), NEW j \in 2 .. g.n, NEW k \in Nat \ {0}, k >= t[j]
  PROVE  Alive(g, t, j, k)
<1>1. PICK n, f, c, z : /\ n = g.n /\ f = g.f /\ c = t[f] /\ z = t[n] /\ n \in Nat /\ n >= 2 /\ f \in 0 .. n - 1
                        /\ g.rate \in {1, 2} /\ j \in 2 .. n
  BY DEF Shape
<1>2. \A i \in 1 .. n : t[i] \in Nat
  BY <1>1 DEF Lag
<1>3. z \in Nat /\ t[j] \in Nat
  BY <1>1, <1>2
<1>4. CASE f = 0 \/ j > f
  <2>1. z <= t[j]
    <3>1. CASE j = n
      BY <1>1, <1>3, <3>1
    <3>2. CASE j # n
      <4>1. j < n /\ j # f /\ n \in 1 .. n /\ j \in 1 .. n
        BY <1>1, <1>4, <3>2
      <4>2. Near(g, t, j, n)
        BY <1>1, <1>4, <4>1 DEF Lag
      <4>3. Emitted(g, j, t[j]) = t[j]
        BY <1>1, <4>1 DEF Emitted
      <4> QED
        BY <1>1, <4>2, <4>3 DEF Near
    <3> QED
      BY <3>1, <3>2
  <2>2. k >= z
    BY <1>3, <2>1
  <2> QED
    BY <1>1, <1>4, <2>2 DEF Alive
<1>5. CASE f # 0 /\ j <= f
  <2>1. c \in Nat /\ f \in 1 .. n /\ n \in 1 .. n /\ f < n
    BY <1>1, <1>2, <1>5
  <2>2. c <= t[j]
    <3>1. CASE j = f
      BY <1>1, <1>3, <3>1
    <3>2. CASE j # f
      <4>1. j < f /\ j \in 1 .. n
        BY <1>1, <1>5, <3>2
      <4>2. Near(g, t, j, f)
        BY <1>1, <2>1, <4>1 DEF Lag
      <4>3. Emitted(g, j, t[j]) = t[j]
        BY <1>1, <4>1 DEF Emitted
      <4> QED
        BY <1>1, <4>2, <4>3 DEF Near
    <3> QED
      BY <3>1, <3>2
  <2>3. z <= Emitted(g, f, c)
    <3>1. Near(g, t, f, n)
      BY <1>1, <2>1 DEF Lag
    <3> QED
      BY <1>1, <3>1 DEF Near
  <2>4. z >= 2 => SourceOf(g, z - 1) <= c /\ SourceOf(g, z - 1) \in Nat
    BY <1>1, <1>3, <2>1, <2>3 DEF Emitted, SourceOf
  <2>5. z >= 2 => k >= SourceOf(g, z - 1)
    BY <1>3, <2>1, <2>2, <2>4
  <2> QED
    BY <1>1, <1>5, <2>5 DEF Alive
<1> QED
  BY <1>1, <1>4, <1>5

\* A frame that is alive has its buffer for itself.
LEMMA AliveKept ==
  ASSUME NEW g, NEW t, NEW d, PoolInv(g, t, d), NEW j \in 2 .. g.n, NEW k, NEW m,
         Item(g, t, j, k, m), Alive(g, t, j, k)
  PROVE  launched[m.buf] = m.ver /\ written[m.buf] <= m.ver
<1>1. Shape(g) /\ Lag(g, t) /\ Kernels(g, t, d) /\ Pools(g, t, d)
  BY DEF PoolInv
<1>2. PICK o, s, v : m.buf = <<o, s>> /\ v = m.ver /\ Made(g, t, j, k, o, s, v)
  <2>1. j # 1
    BY <1>1 DEF Shape
  <2> QED
    BY <2>1 DEF Item
<1>3. PICK p, x, y, c, w : /\ p = g.pool[o] /\ x = Runs(g, o, t[o]) /\ y = Origin(g, o, j, k)
                           /\ c = launched[<<o, s>>] /\ w = written[<<o, s>>]
  OBVIOUS
<1>4. o \in Makers(g) /\ o < j /\ Copy(p, y, s, v) /\ y <= x
  BY <1>2, <1>3 DEF Made
<1>5. p \in Nat \ {0} /\ o \in 1 .. g.n /\ g.n \in Nat
  BY <1>1, <1>3, <1>4 DEF Shape, Makers
<1>6. x \in Nat /\ d[o] \in Nat /\ d[o] <= x
  <2>1. d[o] \in Nat /\ Listed(stream[o]) /\ d[o] + Len(stream[o]) = x
    BY <1>1, <1>3, <1>4 DEF Kernels
  <2>2. Len(stream[o]) \in Nat
    BY <2>1, ListedFacts
  <2> QED
    BY <2>1, <2>2
<1>7. s \in 0 .. p - 1 /\ v \in Nat /\ y \in Int
  BY <1>4, <1>5 DEF Copy
<1>8. Filled(p, x, s, c) /\ Filled(p, d[o], s, w)
  BY <1>1, <1>3, <1>4, <1>7 DEF Pools
<1>9. x < y + p
  BY <1>1, <1>3, <1>4, AgeBound
<1>10. d[o] < y + p
  BY <1>5, <1>6, <1>7, <1>9
<1>11. c >= v /\ c <= v
  BY <1>4, <1>5, <1>6, <1>8, <1>9, FilledCopy
<1>12. w <= v
  BY <1>4, <1>5, <1>6, <1>8, <1>10, FilledCopy
<1>13. c \in Nat
  BY <1>8 DEF Filled
<1> QED
  BY <1>2, <1>3, <1>7, <1>11, <1>12, <1>13

LEMMA PoolsSafe ==
  ASSUME GridInv, NEW g, NEW t, NEW d, PoolInv(g, t, d)
  PROVE  FramesSafe
<1>1. PICK n, f : n = g.n /\ f = g.f /\ n \in Nat /\ n >= 2 /\ f \in 0 .. n - 1 /\ f # 1 /\ g.rate \in {1, 2}
                  /\ DOMAIN chain = 1 .. n
  BY DEF PoolInv, Shape, Wired
<1>2. /\ Shape(g) /\ Wired(g) /\ Lag(g, t) /\ Queues(g, t) /\ Kernels(g, t, d) /\ Pools(g, t, d)
      /\ Done(g, d) /\ Packed(g, t, d)
  BY DEF PoolInv
<1>3. \A j \in 1 .. n : t[j] \in Nat
  BY <1>1, <1>2 DEF Lag
<1>4. ASSUME NEW j \in 1 .. n, NEW k \in Nat \ {0}, k >= t[j], NEW m, Item(g, t, j, k, m), m.ver > 0
      PROVE  launched[m.buf] = m.ver
  <2>1. j # 1
    BY <1>4 DEF Item
  <2>2. j \in 2 .. g.n
    BY <1>1, <2>1
  <2> QED
    BY <1>2, <1>4, <2>2, AliveFrom, AliveKept
<1>5. ASSUME NEW m \in Held, m.ver > 0
      PROVE  launched[m.buf] = m.ver
  <2>1. CASE \E i \in DOMAIN chain : \E x \in DOMAIN q[i] : m = q[i][x]
    <3>1. PICK i \in 1 .. n : \E x \in DOMAIN q[i] : m = q[i][x]
      BY <1>1, <2>1
    <3>2. Listed(q[i])
      <4>1. Line(q[i], high)
        BY <1>1 DEF GridInv
      <4> QED
        BY <4>1 DEF Line, Listed
    <3>3. PICK x \in 1 .. Len(q[i]) : m = q[i][x]
      BY <3>1, <3>2, ListedFacts
    <3>4. Item(g, t, i, t[i] + x, m)
      BY <1>1, <1>2, <3>3 DEF Queues
    <3>5. t[i] + x \in Nat \ {0} /\ t[i] + x >= t[i]
      <4>1. t[i] \in Nat /\ x \in Nat \ {0}
        BY <1>3, <3>2, ListedFacts
      <4> QED
        BY <4>1
    <3> QED
      BY <1>4, <1>5, <3>4, <3>5
  <2>2. CASE \E i \in DOMAIN chain : m = frc[i].prev
    <3>1. PICK i \in 1 .. n : m = frc[i].prev
      BY <1>1, <2>2
    <3>2. frc[i].prev # NoFrame
      BY <1>5, <3>1 DEF NoFrame
    <3>3. t[i] > 0 /\ Item(g, t, i, t[i], m)
      BY <1>1, <1>2, <3>1, <3>2 DEF Queues
    <3>4. t[i] \in Nat \ {0} /\ t[i] >= t[i]
      BY <1>3, <3>3
    <3> QED
      BY <1>4, <1>5, <3>3, <3>4
  <2>3. CASE m = packing.src
    <3>1. packing # Idle
      BY <1>5, <2>3 DEF Idle, NoFrame
    <3>2. t[n] > 0 /\ Item(g, t, n, t[n], m)
      BY <1>1, <1>2, <2>3, <3>1 DEF Packed
    <3>3. n \in 1 .. n /\ t[n] \in Nat \ {0} /\ t[n] >= t[n]
      BY <1>1, <1>3, <3>2
    <3> QED
      BY <1>4, <1>5, <3>2, <3>3
  <2>4. \/ m \in UNION {{q[i][k] : k \in DOMAIN q[i]} : i \in DOMAIN chain}
        \/ m \in {frc[i].prev : i \in DOMAIN chain} \/ m = packing.src
    <3>1. m \in Held
      OBVIOUS
    <3> QED
      BY <3>1, Zenon DEF Held
  <2>5. m \in UNION {{q[i][k] : k \in DOMAIN q[i]} : i \in DOMAIN chain}
          => \E i \in DOMAIN chain : \E x \in DOMAIN q[i] : m = q[i][x]
    OBVIOUS
  <2>6. m \in {frc[i].prev : i \in DOMAIN chain} => \E i \in DOMAIN chain : m = frc[i].prev
    OBVIOUS
  <2> QED
    BY <2>1, <2>2, <2>3, <2>4, <2>5, <2>6, Zenon
<1>6. ASSUME NEW m \in PendingReads, m.ver > 0
      PROVE  written[m.buf] <= m.ver
  <2>1. PICK i \in 1 .. n : \E x \in DOMAIN stream[i] : m \in stream[i][x].reads
    BY <1>1 DEF PendingReads
  <2>2. i \in Makers(g) \cup {n}
    <3>1. <<>> \in Seq({}) /\ DOMAIN <<>> = {}
      OBVIOUS
    <3>2. i \in g.pass => stream[i] = <<>>
      BY <1>2 DEF Kernels
    <3>3. i \notin g.pass
      BY <2>1, <3>1, <3>2
    <3> QED
      BY <1>1, <3>3 DEF Makers
  <2>3. /\ d[i] \in Nat /\ Listed(stream[i])
        /\ \A x \in 1 .. Len(stream[i]) : Kernel(g, t, i, d[i] + x, stream[i][x])
    BY <1>1, <1>2, <2>2 DEF Kernels
  <2>4. PICK x \in 1 .. Len(stream[i]) : m \in stream[i][x].reads
    BY <2>1, <2>3, ListedFacts
  <2>5. PICK y : y = d[i] + x /\ y \in Nat /\ y >= d[i] + 1 /\ Kernel(g, t, i, y, stream[i][x])
    <3>1. Len(stream[i]) \in Nat /\ x \in Nat /\ x >= 1
      BY <2>3, ListedFacts
    <3>2. PICK y : y = d[i] + x
      OBVIOUS
    <3>3. y \in Nat /\ y >= d[i] + 1
      BY <2>3, <3>1, <3>2
    <3>4. Kernel(g, t, i, y, stream[i][x])
      BY <2>3, <3>2
    <3> QED
      BY <3>2, <3>3, <3>4
  <2>6. PICK k : k \in Nat \ {0} /\ k >= d[i] + 1 /\ Item(g, t, i, k, m)
    <3>1. PICK k \in {y, Latest(g, i, y)} : Item(g, t, i, k, m)
      BY <2>4, <2>5 DEF Kernel
    <3>2. k \in {y, y + 1}
      BY <3>1 DEF Latest
    <3> QED
      BY <2>3, <2>5, <3>1, <3>2
  <2>7. i \in 2 .. n
    <3>1. i # 1
      BY <1>6, <2>6 DEF Item
    <3> QED
      BY <1>1, <3>1
  <2>8. PICK a, b : a = t[n] /\ b = d[n] /\ a \in Nat /\ b \in Nat /\ b >= a - 1
    <3>1. n \in 1 .. n /\ n # f
      BY <1>1
    <3>2. d[n] \in Nat /\ Listed(stream[n]) /\ d[n] + Len(stream[n]) = t[n]
      BY <1>1, <1>2, <3>1 DEF Kernels, Runs
    <3>3. packing = Idle => stream[n] = <<>> /\ Len(<<>>) = 0
      BY <1>1, <1>2 DEF Packed
    <3>4. packing # Idle => d[n] >= t[n] - 1
      BY <1>1, <1>2 DEF Packed
    <3>5. Len(stream[n]) \in Nat /\ t[n] \in Nat
      BY <1>3, <3>1, <3>2, ListedFacts
    <3> QED
      BY <3>2, <3>3, <3>4, <3>5
  <2>9. i < n /\ b > 0 => d[i] >= Origin(g, i, n, b)
    <3>1. Latest(g, n, b) = b
      BY <1>1 DEF Latest
    <3>2. i < n => i \in Makers(g)
      BY <1>1, <2>2
    <3> QED
      BY <1>1, <1>2, <2>8, <3>1, <3>2 DEF Done
  <2>10. Alive(g, t, i, k)
    <3>1. CASE f = 0 \/ i > f
      <4>1. i < n => Origin(g, i, n, b) = b
        BY <1>1, <2>7, <2>8, <3>1 DEF Origin
      <4>2. d[i] >= b \/ b = 0
        <5>1. CASE i = n
          BY <2>8, <5>1
        <5>2. CASE i < n
          BY <2>8, <2>9, <4>1, <5>2
        <5> QED
          BY <1>1, <2>7, <5>1, <5>2
      <4>3. k >= a
        BY <2>3, <2>6, <2>8, <4>2
      <4> QED
        BY <1>1, <2>6, <2>8, <3>1, <4>3 DEF Alive
    <3>2. CASE f # 0 /\ i <= f
      <4>1. ASSUME a >= 2
            PROVE  k >= SourceOf(g, a - 1)
        <5>1. a - 1 \in Nat /\ a - 1 <= b /\ b > 0 /\ i < n
          BY <1>1, <2>7, <2>8, <3>2, <4>1
        <5>2. SourceOf(g, a - 1) <= SourceOf(g, b) /\ SourceOf(g, a - 1) \in Nat /\ SourceOf(g, b) \in Nat
          <6>1. PICK e : e = a - 1 /\ e \in Nat /\ e <= b
            BY <5>1
          <6>2. SourceOf(g, e) <= SourceOf(g, b)
            BY <1>1, <2>8, <6>1, SourceGrows
          <6>3. SourceOf(g, e) \in Nat /\ SourceOf(g, b) \in Nat
            <7>1. g.rate \in {1, 2} /\ e \in Nat /\ b \in Nat
              BY <1>1, <2>8, <6>1
            <7> QED
              BY <7>1, SourceNat
          <6> QED
            BY <2>8, <6>1, <6>2, <6>3
        <5>3. Origin(g, i, n, b) >= SourceOf(g, b) - 1
          BY <1>1, <2>7, <3>2, <5>2 DEF Origin
        <5>4. Origin(g, i, n, b) \in Int
          BY <1>1, <2>7, <2>8, <3>2, <5>2 DEF Origin
        <5> QED
          BY <2>3, <2>6, <2>9, <5>1, <5>2, <5>3, <5>4
      <4> QED
        BY <1>1, <2>6, <2>8, <3>2, <4>1 DEF Alive
    <3> QED
      BY <1>1, <2>7, <3>1, <3>2
  <2> QED
    BY <1>1, <2>6, <2>7, <2>10, AliveKept
<1> QED
  BY <1>5, <1>6 DEF FramesSafe

-----------------------------------------------------------------------------
(* The names of a chain *)

\* How many of the positions at are not behind i.
Rank(at, i) == Cardinality({j \in at : j <= i})

LEMMA RankSteps ==
  ASSUME NEW m \in Nat, NEW at \in SUBSET (1 .. m)
  PROVE  /\ \A i \in 0 .. m : Rank(at, i) \in Nat
         /\ Rank(at, 0) = 0 /\ Rank(at, m) = Cardinality(at)
         /\ \A i \in 1 .. m : Rank(at, i) = Rank(at, i - 1) + (IF i \in at THEN 1 ELSE 0)
<1>0. \A x \in at : x \in 1 .. m /\ x \in Int
  OBVIOUS
<1>1. IsFiniteSet(1 .. m)
  BY FS_Interval
<1>2. IsFiniteSet(at)
  BY <1>1, FS_Subset
<1>3. ASSUME NEW i
      PROVE  IsFiniteSet({j \in at : j <= i}) /\ Rank(at, i) \in Nat
  <2>1. {j \in at : j <= i} \in SUBSET at
    OBVIOUS
  <2>2. IsFiniteSet({j \in at : j <= i})
    BY <1>2, <2>1, FS_Subset
  <2> QED
    BY <2>2, FS_CardinalityType DEF Rank
<1>4. Rank(at, 0) = 0
  <2>1. {j \in at : j <= 0} = {}
    <3>1. \A j \in at : ~(j <= 0)
      BY <1>0
    <3> QED
      BY <3>1, Zenon
  <2> QED
    BY <2>1, FS_EmptySet DEF Rank
<1>5. Rank(at, m) = Cardinality(at)
  <2>1. {j \in at : j <= m} = at
    <3>1. \A j \in at : j <= m
      BY <1>0
    <3> QED
      BY <3>1, Zenon
  <2> QED
    BY <2>1 DEF Rank
<1>6. ASSUME NEW i \in 1 .. m
      PROVE  Rank(at, i) = Rank(at, i - 1) + (IF i \in at THEN 1 ELSE 0)
  <2>1. CASE i \in at
    <3>1. {j \in at : j <= i} = {j \in at : j <= i - 1} \cup {i}
      <4>1. i \in at /\ \A j \in at : j <= i <=> j <= i - 1 \/ j = i
        BY <1>0, <2>1
      <4> QED
        BY <4>1, Zenon
    <3>2. i \notin {j \in at : j <= i - 1}
      OBVIOUS
    <3>3. IsFiniteSet({j \in at : j <= i - 1})
      BY <1>3
    <3> QED
      BY <2>1, <3>1, <3>2, <3>3, FS_AddElement DEF Rank
  <2>2. CASE i \notin at
    <3>1. {j \in at : j <= i} = {j \in at : j <= i - 1}
      <4>1. \A j \in at : j <= i <=> j <= i - 1
        BY <1>0, <2>2
      <4> QED
        BY <4>1, Zenon
    <3>2. Rank(at, i - 1) \in Nat
      BY <1>3
    <3> QED
      BY <2>2, <3>1, <3>2 DEF Rank
  <2> QED
    BY <2>1, <2>2
<1> QED
  BY <1>3, <1>4, <1>5, <1>6

LEMMA RankGrows ==
  ASSUME NEW m \in Nat, NEW at \in SUBSET (1 .. m), NEW i \in 0 .. m, NEW j \in at, i < j
  PROVE  Rank(at, i) < Rank(at, j)
<1>0. \A x \in at : x \in 1 .. m /\ x \in Int
  OBVIOUS
<1>1. j \in 1 .. m /\ j - 1 \in 0 .. m /\ i <= j - 1
  BY <1>0
<1>2. {x \in at : x <= i} \in SUBSET {x \in at : x <= j - 1}
  <2>1. \A x \in at : x <= i => x <= j - 1
    BY <1>0, <1>1
  <2> QED
    BY <2>1, Zenon
<1>3. IsFiniteSet({x \in at : x <= j - 1})
  <2>1. IsFiniteSet(1 .. m)
    BY FS_Interval
  <2>2. {x \in at : x <= j - 1} \in SUBSET (1 .. m)
    BY <1>0
  <2> QED
    BY <2>1, <2>2, FS_Subset
<1>4. Rank(at, i) <= Rank(at, j - 1)
  BY <1>2, <1>3, FS_Subset DEF Rank
<1>5. Rank(at, i) \in Nat /\ Rank(at, j - 1) \in Nat /\ Rank(at, j) = Rank(at, j - 1) + 1
  BY <1>1, RankSteps
<1> QED
  BY <1>4, <1>5

LEMMA RankOnto ==
  ASSUME NEW m \in Nat, NEW at \in SUBSET (1 .. m), NEW k \in 1 .. Cardinality(at)
  PROVE  \E i \in at : Rank(at, i) = k
<1>1. /\ \A i \in 0 .. m : Rank(at, i) \in Nat
      /\ Rank(at, 0) = 0 /\ Rank(at, m) = Cardinality(at)
      /\ \A i \in 1 .. m : Rank(at, i) = Rank(at, i - 1) + (IF i \in at THEN 1 ELSE 0)
  BY RankSteps
<1>2. PICK T : T = {i \in 0 .. m : Rank(at, i) >= k}
  OBVIOUS
<1>3. T \in SUBSET Nat /\ m \in T
  BY <1>1, <1>2
<1>4. PICK i \in T : \A j \in T : i <= j
  BY <1>3, LeastOf
<1>5. i \in 1 .. m /\ Rank(at, i) >= k
  <2>1. i \in 0 .. m /\ Rank(at, i) >= k
    BY <1>2, <1>4
  <2>2. i # 0
    BY <1>1, <2>1
  <2> QED
    BY <2>1, <2>2
<1>6. i - 1 \in 0 .. m /\ Rank(at, i - 1) \in Nat /\ Rank(at, i - 1) < k
  <2>1. i - 1 \in 0 .. m /\ i - 1 \notin T
    BY <1>4, <1>5
  <2>2. Rank(at, i - 1) \in Nat
    BY <1>1, <2>1
  <2> QED
    BY <1>2, <2>1, <2>2
<1>7. Rank(at, i) = Rank(at, i - 1) + (IF i \in at THEN 1 ELSE 0)
  BY <1>1, <1>5
<1> QED
  BY <1>5, <1>6, <1>7

\* The k-th of the positions, and the place of a position.
LEMMA RankChosen ==
  ASSUME NEW m \in Nat, NEW at \in SUBSET (1 .. m)
  PROVE  /\ Cardinality(at) \in Nat
         /\ \A k \in 1 .. Cardinality(at) :
              \E i \in at : /\ Rank(at, i) = k
                            /\ i = CHOOSE z \in at : Cardinality({j \in at : j <= z}) = k
         /\ \A i \in at : Rank(at, i) \in 1 .. Cardinality(at)
         /\ \A i \in at, j \in at : Rank(at, i) = Rank(at, j) => i = j
<1>0. \A x \in at : x \in 1 .. m /\ x \in Int
  OBVIOUS
<1>1. Cardinality(at) \in Nat
  <2>1. m \in 0 .. m
    OBVIOUS
  <2> QED
    BY <2>1, RankSteps
<1>2. ASSUME NEW k \in 1 .. Cardinality(at)
      PROVE  \E i \in at : /\ Rank(at, i) = k
                           /\ i = CHOOSE z \in at : Cardinality({j \in at : j <= z}) = k
  <2>1. \E i \in at : Cardinality({j \in at : j <= i}) = k
    BY RankOnto DEF Rank
  <2>2. PICK i : i = CHOOSE z \in at : Cardinality({j \in at : j <= z}) = k
    OBVIOUS
  <2>3. i \in at /\ Cardinality({j \in at : j <= i}) = k
    BY <2>1, <2>2
  <2> QED
    BY <2>2, <2>3 DEF Rank
<1>3. ASSUME NEW i \in at
      PROVE  Rank(at, i) \in 1 .. Cardinality(at)
  <2>1. i \in 1 .. m /\ m \in 0 .. m /\ Rank(at, i) \in Nat /\ Rank(at, m) = Cardinality(at)
    BY <1>0, RankSteps
  <2>2. 0 \in 0 .. m /\ Rank(at, 0) = 0 /\ Rank(at, 0) < Rank(at, i)
    BY <2>1, RankSteps, RankGrows
  <2>3. Rank(at, i) <= Rank(at, m)
    <3>1. {x \in at : x <= i} \in SUBSET at /\ {x \in at : x <= m} = at
      <4>1. \A x \in at : x <= m
        BY <1>0, <2>1
      <4> QED
        BY <4>1, Zenon
    <3>2. IsFiniteSet(at)
      <4>1. IsFiniteSet(1 .. m)
        BY FS_Interval
      <4> QED
        BY <4>1, FS_Subset
    <3> QED
      BY <3>1, <3>2, FS_Subset DEF Rank
  <2> QED
    BY <1>1, <2>1, <2>2, <2>3
<1>4. ASSUME NEW i \in at, NEW j \in at, Rank(at, i) = Rank(at, j)
      PROVE  i = j
  <2>1. i \in 0 .. m /\ j \in 0 .. m
    BY <1>0
  <2>2. Rank(at, i) \in Nat
    BY <2>1, RankSteps
  <2>3. ~(i < j) /\ ~(j < i)
    BY <1>4, <2>1, <2>2, RankGrows
  <2> QED
    BY <1>0, <2>3
<1> QED
  BY <1>1, <1>2, <1>3, <1>4

\* No two tokens have the same name.
LEMMA NameOnce ==
  ASSUME NEW toks \in Seq(STRING), NEW i \in DOMAIN toks, NEW j \in DOMAIN toks,
         NameOf(toks, i) = NameOf(toks, j)
  PROVE  i = j
<1>1. PICK m \in Nat : m = Len(toks) /\ DOMAIN toks = 1 .. m
  BY LenProperties
<1>2. toks[i] = toks[j]
  BY DEF NameOf
<1>3. PICK at : at = {x \in 1 .. m : toks[x] = toks[i]}
  OBVIOUS
<1>4. at \in SUBSET (1 .. m) /\ i \in at /\ j \in at
  BY <1>1, <1>2, <1>3
<1>5. /\ {x \in 1 .. i : toks[x] = toks[i]} = {x \in at : x <= i}
      /\ {x \in 1 .. j : toks[x] = toks[j]} = {x \in at : x <= j}
  BY <1>1, <1>2, <1>3
<1>6. Rank(at, i) = Rank(at, j)
  BY <1>5 DEF NameOf, Rank
<1> QED
  BY <1>4, <1>6, RankChosen

\* The tokens whose operators are made.
MadeOf(ss) ==
  {i \in DOMAIN ss.filters :
     ss.filters[i] \in Real /\ (ss.filters[i] = "frc" => ss.mode # "off")}
Scales(ss) == \E i \in DOMAIN ss.filters : ss.filters[i] = "scale"

LEMMA JoinedAt ==
  ASSUME NEW s, NEW t, Listed(s), Listed(t)
  PROVE  /\ Listed(s \o t) /\ Len(s \o t) = Len(s) + Len(t)
         /\ \A x \in 1 .. Len(s) : (s \o t)[x] = s[x]
         /\ \A x \in 1 .. Len(t) : (s \o t)[Len(s) + x] = t[x]
<1>1. PICK k, l, a : k = Len(s) /\ l = Len(t) /\ a = s \o t
  OBVIOUS
<1>2. k \in Nat /\ l \in Nat
  BY <1>1, ListedFacts
<1>3. /\ Listed(a) /\ Len(a) = k + l
      /\ \A x \in 1 .. k + l : a[x] = IF x <= k THEN s[x] ELSE t[x - k]
  BY <1>1, ListedJoined
<1>4. ASSUME NEW x \in 1 .. l PROVE a[k + x] = t[x]
  <2>1. PICK y : y = k + x /\ y \in 1 .. k + l /\ ~(y <= k) /\ y - k = x
    BY <1>2
  <2> QED
    BY <1>3, <2>1
<1> QED
  BY <1>1, <1>2, <1>3, <1>4

\* Unpack, the operators of the tokens, a scaler where no token asks for one, pack.
Shaped(ss, c, e) ==
  /\ c \in Nat /\ Len(Composed(ss)) = c + e + 2
  /\ Composed(ss)[1] = <<"unpack", 1>>
  /\ \A k \in 1 .. c : Composed(ss)[k + 1] = NamesAt(ss.filters, MadeOf(ss))[k]
  /\ e = 1 => Composed(ss)[c + 2] = <<"scale", 1>>
  /\ Composed(ss)[c + e + 2] = <<"pack", 1>>

LEMMA ComposedShape ==
  ASSUME NEW ss \in Setups, NEW c, c = Cardinality(MadeOf(ss)), NEW e,
         e = IF Scales(ss) THEN 0 ELSE 1
  PROVE  Shaped(ss, c, e)
<1>1. ss.filters \in Seq(STRING)
  BY ChainConstants
<1>2. PICK toks, at : toks = ss.filters /\ at = MadeOf(ss)
  OBVIOUS
<1>3. at \in SUBSET DOMAIN toks
  BY <1>2 DEF MadeOf
<1>4. PICK m \in Nat : m = Len(toks) /\ DOMAIN toks = 1 .. m
  BY <1>1, <1>2, LenProperties
<1>5. c \in Nat
  <2>1. m \in 0 .. m /\ at \in SUBSET (1 .. m)
    BY <1>3, <1>4
  <2> QED
    BY <1>2, <2>1, RankSteps
<1>6. PICK mid, scale, first, last :
         /\ mid = NamesAt(toks, at) /\ first = <<<<"unpack", 1>>>> /\ last = <<<<"pack", 1>>>>
         /\ scale = IF e = 0 THEN <<>> ELSE <<<<"scale", 1>>>>
  OBVIOUS
<1>7. Composed(ss) = ((first \o mid) \o scale) \o last
  <2>1. scale = IF \E i \in DOMAIN ss.filters : ss.filters[i] = "scale" THEN <<>>
                ELSE <<<<"scale", 1>>>>
    BY <1>6 DEF Scales
  <2>2. mid = NamesAt(ss.filters, {i \in DOMAIN ss.filters :
                 ss.filters[i] \in Real /\ (ss.filters[i] = "frc" => ss.mode # "off")})
    BY <1>2, <1>6 DEF MadeOf
  <2> QED
    BY <1>6, <2>1, <2>2, Zenon DEF Composed
<1>8. Listed(mid) /\ Len(mid) = c
  <2>1. Listed(mid)
    BY <1>1, <1>2, <1>3, <1>6, NamesAreSeq, Zenon DEF Listed
  <2>2. DOMAIN mid = 1 .. c
    BY <1>2, <1>6 DEF NamesAt
  <2>3. Len(mid) \in Nat /\ DOMAIN mid = 1 .. Len(mid)
    BY <2>1, ListedFacts
  <2> QED
    BY <1>5, <2>1, <2>2, <2>3
<1>9. ASSUME NEW x
      PROVE  Listed(<<x>>) /\ Len(<<x>>) = 1 /\ <<x>>[1] = x
  <2>1. <<x>> \in Seq({x})
    OBVIOUS
  <2>2. Listed(<<x>>)
    BY <2>1, Zenon DEF Listed
  <2> QED
    BY <2>2
<1>10. /\ Listed(first) /\ Len(first) = 1 /\ first[1] = <<"unpack", 1>>
       /\ Listed(last) /\ Len(last) = 1 /\ last[1] = <<"pack", 1>>
  <2>1. PICK x, y : x = <<"unpack", 1>> /\ y = <<"pack", 1>>
    OBVIOUS
  <2>2. first = <<x>> /\ last = <<y>>
    BY <1>6, <2>1
  <2> QED
    BY <1>9, <2>1, <2>2
<1>11. /\ Listed(scale) /\ Len(scale) = e /\ e \in {0, 1}
       /\ e = 1 => scale[1] = <<"scale", 1>>
  <2>1. CASE e = 0
    <3>1. <<>> \in Seq(STRING) /\ Len(<<>>) = 0
      OBVIOUS
    <3>2. scale = <<>>
      BY <1>6, <2>1
    <3>3. Listed(scale)
      BY <3>1, <3>2, Zenon DEF Listed
    <3> QED
      BY <2>1, <3>1, <3>2, <3>3
  <2>2. CASE e = 1
    <3>1. PICK x : x = <<"scale", 1>>
      OBVIOUS
    <3>2. scale = <<x>>
      BY <1>6, <2>2, <3>1
    <3> QED
      BY <1>9, <2>2, <3>1, <3>2
  <2> QED
    BY <2>1, <2>2
<1>12. PICK a, b, w : a = first \o mid /\ b = a \o scale /\ w = b \o last /\ w = Composed(ss)
  BY <1>7
<1>13. e \in Nat /\ e \in {0, 1} /\ 1 + c \in Nat /\ 1 + c + e \in Nat
  BY <1>5, <1>11
<1>14. /\ Listed(a) /\ Len(a) = 1 + c
       /\ \A x \in 1 .. 1 : a[x] = first[x]
       /\ \A x \in 1 .. c : a[1 + x] = mid[x]
  <2>0. Listed(first) /\ Listed(mid)
    BY <1>8, <1>10
  <2>1. /\ Listed(first \o mid) /\ Len(first \o mid) = Len(first) + Len(mid)
        /\ \A x \in 1 .. Len(first) : (first \o mid)[x] = first[x]
        /\ \A x \in 1 .. Len(mid) : (first \o mid)[Len(first) + x] = mid[x]
    BY <2>0, JoinedAt
  <2> QED
    BY <2>1, <1>5, <1>8, <1>10, <1>12
<1>15. /\ Listed(b) /\ Len(b) = 1 + c + e
       /\ \A x \in 1 .. 1 + c : b[x] = a[x]
       /\ \A x \in 1 .. e : b[1 + c + x] = scale[x]
  <2>0. Listed(a) /\ Listed(scale)
    BY <1>11, <1>14
  <2>1. /\ Listed(a \o scale) /\ Len(a \o scale) = Len(a) + Len(scale)
        /\ \A x \in 1 .. Len(a) : (a \o scale)[x] = a[x]
        /\ \A x \in 1 .. Len(scale) : (a \o scale)[Len(a) + x] = scale[x]
    BY <2>0, JoinedAt
  <2> QED
    BY <2>1, <1>11, <1>12, <1>13, <1>14
<1>16. /\ Len(w) = 1 + c + e + 1
       /\ \A x \in 1 .. 1 + c + e : w[x] = b[x]
       /\ \A x \in 1 .. 1 : w[1 + c + e + x] = last[x]
  <2>0. Listed(b) /\ Listed(last)
    BY <1>10, <1>15
  <2>1. /\ Listed(b \o last) /\ Len(b \o last) = Len(b) + Len(last)
        /\ \A x \in 1 .. Len(b) : (b \o last)[x] = b[x]
        /\ \A x \in 1 .. Len(last) : (b \o last)[Len(b) + x] = last[x]
    BY <2>0, JoinedAt
  <2> QED
    BY <2>1, <1>10, <1>12, <1>13, <1>15
<1>17. w[1] = first[1]
  <2>1. 1 \in 1 .. 1 /\ 1 \in 1 .. 1 + c /\ 1 \in 1 .. 1 + c + e
    BY <1>5, <1>13
  <2> QED
    BY <1>14, <1>15, <1>16, <2>1
<1>18. Len(w) = c + e + 2 /\ w[c + e + 2] = last[1]
  <2>1. 1 \in 1 .. 1 /\ 1 + c + e + 1 = c + e + 2
    BY <1>5, <1>13
  <2> QED
    BY <1>16, <2>1
<1>19. ASSUME NEW k \in 1 .. c
       PROVE  w[k + 1] = mid[k]
  <2>1. 1 + k \in 1 .. 1 + c /\ 1 + k \in 1 .. 1 + c + e /\ k + 1 = 1 + k
    BY <1>5, <1>13
  <2> QED
    BY <1>14, <1>15, <1>16, <2>1
<1>20. ASSUME e = 1
       PROVE  w[c + 2] = scale[1]
  <2>1. 1 \in 1 .. e /\ 1 + c + 1 \in 1 .. 1 + c + e /\ c + 2 = 1 + c + 1
    BY <1>5, <1>13, <1>20
  <2> QED
    BY <1>15, <1>16, <2>1
<1> QED
  BY <1>2, <1>5, <1>6, <1>10, <1>11, <1>12, <1>17, <1>18, <1>19, <1>20 DEF Shaped

\* Which operator is at place i.
Placed(ss, n, i) ==
  \/ i = 1 /\ Composed(ss)[i] = <<"unpack", 1>>
  \/ i = n /\ Composed(ss)[i] = <<"pack", 1>>
  \/ i = n - 1 /\ i \in 2 .. n - 1 /\ Composed(ss)[i] = <<"scale", 1>> /\ ~Scales(ss)
  \/ i \in 2 .. n - 1 /\ \E z \in MadeOf(ss) : /\ Composed(ss)[i] = NameOf(ss.filters, z)
                                               /\ Rank(MadeOf(ss), z) = i - 1

LEMMA ComposedNames ==
  ASSUME NEW ss \in Setups, NEW n, n = Len(Composed(ss))
  PROVE  /\ n \in Nat /\ n >= 2
         /\ \A i \in 1 .. n : Placed(ss, n, i)
         /\ \A z \in MadeOf(ss) : \E i \in 2 .. n - 1 : Composed(ss)[i] = NameOf(ss.filters, z)
<1>1. PICK c, e : c = Cardinality(MadeOf(ss)) /\ e = IF Scales(ss) THEN 0 ELSE 1
  OBVIOUS
<1>2. PICK w, toks, at : w = Composed(ss) /\ toks = ss.filters /\ at = MadeOf(ss)
  OBVIOUS
<1>3. /\ c \in Nat /\ n = c + e + 2 /\ w[1] = <<"unpack", 1>>
      /\ \A k \in 1 .. c : w[k + 1] = NamesAt(toks, at)[k]
      /\ e = 1 => w[c + 2] = <<"scale", 1>>
      /\ w[n] = <<"pack", 1>>
  <2>1. /\ c \in Nat /\ Len(Composed(ss)) = c + e + 2
        /\ Composed(ss)[1] = <<"unpack", 1>>
        /\ \A k \in 1 .. c : Composed(ss)[k + 1] = NamesAt(ss.filters, MadeOf(ss))[k]
        /\ e = 1 => Composed(ss)[c + 2] = <<"scale", 1>>
        /\ Composed(ss)[c + e + 2] = <<"pack", 1>>
    <3>1. Shaped(ss, c, e)
      BY <1>1, ComposedShape, Zenon
    <3> QED
      BY <3>1 DEF Shaped
  <2> QED
    BY <1>2, <2>1
<1>4. e \in {0, 1} /\ (e = 1 => ~Scales(ss))
  BY <1>1
<1>5. n \in Nat /\ n >= 2
  <2>1. c \in Nat /\ n = c + e + 2
    BY <1>3
  <2> QED
    BY <1>4, <2>1
<1>6. PICK m \in Nat : m = Len(toks) /\ DOMAIN toks = 1 .. m
  <2>1. toks \in Seq(STRING)
    BY <1>2, ChainConstants
  <2> QED
    BY <2>1, LenProperties
<1>7. at \in SUBSET (1 .. m)
  BY <1>2, <1>6 DEF MadeOf
<1>8. /\ \A k \in 1 .. c :
           \E i \in at : /\ Rank(at, i) = k
                         /\ i = CHOOSE z \in at : Cardinality({j \in at : j <= z}) = k
      /\ \A i \in at : Rank(at, i) \in 1 .. c
      /\ \A i \in at, j \in at : Rank(at, i) = Rank(at, j) => i = j
  <2>1. /\ \A k \in 1 .. Cardinality(at) :
             \E i \in at : /\ Rank(at, i) = k
                           /\ i = CHOOSE z \in at : Cardinality({j \in at : j <= z}) = k
        /\ \A i \in at : Rank(at, i) \in 1 .. Cardinality(at)
        /\ \A i \in at, j \in at : Rank(at, i) = Rank(at, j) => i = j
    BY <1>7, RankChosen
  <2>2. c = Cardinality(at)
    BY <1>1, <1>2
  <2> QED
    BY <2>1, <2>2
<1>9. ASSUME NEW k \in 1 .. c
      PROVE  \E z \in at : w[k + 1] = NameOf(toks, z) /\ Rank(at, z) = k
  <2>1. PICK i \in at : /\ Rank(at, i) = k
                        /\ i = CHOOSE z \in at : Cardinality({j \in at : j <= z}) = k
    BY <1>8
  <2>2. NamesAt(toks, at)[k]
          = NameOf(toks, CHOOSE z \in at : Cardinality({j \in at : j <= z}) = k)
    BY <1>1, <1>2 DEF NamesAt
  <2>3. NamesAt(toks, at)[k] = NameOf(toks, i)
    BY <2>1, <2>2
  <2>4. w[k + 1] = NamesAt(toks, at)[k]
    BY <1>3
  <2> QED
    BY <2>1, <2>3, <2>4
<1>10. ASSUME NEW i \in 1 .. n
       PROVE  Placed(ss, n, i)
  <2>1. c \in Nat /\ n = c + e + 2
    BY <1>3
  <2>2. \/ i = 1
        \/ i = n
        \/ e = 1 /\ i = c + 2 /\ i = n - 1 /\ i \in 2 .. n - 1
        \/ i - 1 \in 1 .. c /\ i \in 2 .. n - 1
    BY <1>4, <2>1
  <2>3. CASE i = 1
    BY <1>2, <1>3, <2>3 DEF Placed
  <2>4. CASE i = n
    BY <1>2, <1>3, <2>4 DEF Placed
  <2>5. CASE e = 1 /\ i = c + 2 /\ i = n - 1 /\ i \in 2 .. n - 1
    BY <1>2, <1>3, <1>4, <2>5 DEF Placed
  <2>6. CASE i - 1 \in 1 .. c /\ i \in 2 .. n - 1
    <3>1. PICK k \in 1 .. c : k = i - 1 /\ k + 1 = i
      BY <2>6
    <3>2. \E z \in at : w[i] = NameOf(toks, z) /\ Rank(at, z) = i - 1
      BY <1>9, <3>1
    <3> QED
      BY <1>2, <2>6, <3>2 DEF Placed
  <2> QED
    BY <2>2, <2>3, <2>4, <2>5, <2>6
<1>11. ASSUME NEW z \in at
       PROVE  \E i \in 2 .. n - 1 : w[i] = NameOf(toks, z)
  <2>1. PICK k \in 1 .. c : k = Rank(at, z)
    BY <1>8
  <2>2. PICK x \in at : w[k + 1] = NameOf(toks, x) /\ Rank(at, x) = k
    BY <1>9
  <2>3. x = z
    BY <1>8, <2>1, <2>2
  <2>4. k + 1 \in 2 .. n - 1
    <3>1. c \in Nat /\ n = c + e + 2
      BY <1>3
    <3> QED
      BY <1>4, <3>1
  <2> QED
    BY <2>2, <2>3, <2>4
<1> QED
  BY <1>2, <1>5, <1>10, <1>11

\* What a name tells of a place.
LEMMA PlacedName ==
  ASSUME NEW ss \in Setups, NEW n, NEW i, Placed(ss, n, i), NEW a, a = Composed(ss)[i]
  PROVE  /\ a[1] = "unpack" => i = 1
         /\ a[1] = "pack" => i = n
         /\ a[1] \notin {"unpack", "pack"} => i \in 2 .. n - 1 /\ a[1] \in Real
         /\ i \in 2 .. n - 1 => \/ a = <<"scale", 1>> /\ i = n - 1 /\ ~Scales(ss)
                                \/ \E z \in MadeOf(ss) : a = NameOf(ss.filters, z)
                                                         /\ Rank(MadeOf(ss), z) = i - 1
<1>1. ASSUME NEW z \in MadeOf(ss)
      PROVE  NameOf(ss.filters, z)[1] \in Real
  BY DEF MadeOf, NameOf
<1>2. <<"unpack", 1>>[1] = "unpack" /\ <<"pack", 1>>[1] = "pack" /\ <<"scale", 1>>[1] = "scale"
  OBVIOUS
<1>3. "unpack" \notin Real /\ "pack" \notin Real /\ "scale" \in Real
  BY DEF Real, Filters
<1> QED
  BY <1>1, <1>2, <1>3 DEF Placed

LEMMA NamesOnce ==
  ASSUME NEW ss \in Setups, NEW n, n = Len(Composed(ss)), NEW i \in 1 .. n, NEW j \in 1 .. n,
         Composed(ss)[i] = Composed(ss)[j]
  PROVE  i = j
<1>1. PICK a, toks : a = Composed(ss)[i] /\ a = Composed(ss)[j] /\ toks = ss.filters
  OBVIOUS
<1>2. n \in Nat /\ n >= 2 /\ Placed(ss, n, i) /\ Placed(ss, n, j)
  BY ComposedNames
<1>3. CASE a[1] \in {"unpack", "pack"}
  BY <1>1, <1>2, <1>3, PlacedName
<1>4. CASE a[1] \notin {"unpack", "pack"}
  <2>1. i \in 2 .. n - 1 /\ j \in 2 .. n - 1
    BY <1>1, <1>2, <1>4, PlacedName
  <2>2. /\ \/ a = <<"scale", 1>> /\ i = n - 1 /\ ~Scales(ss)
           \/ \E z \in MadeOf(ss) : a = NameOf(toks, z) /\ Rank(MadeOf(ss), z) = i - 1
        /\ \/ a = <<"scale", 1>> /\ j = n - 1 /\ ~Scales(ss)
           \/ \E z \in MadeOf(ss) : a = NameOf(toks, z) /\ Rank(MadeOf(ss), z) = j - 1
    BY <1>1, <1>2, <2>1, PlacedName
  <2>3. ASSUME NEW z \in MadeOf(ss), a = NameOf(toks, z), a = <<"scale", 1>>
        PROVE  Scales(ss)
    <3>1. toks[z] = a[1] /\ a[1] = "scale" /\ z \in DOMAIN ss.filters
      BY <2>3 DEF NameOf, MadeOf
    <3> QED
      BY <1>1, <3>1 DEF Scales
  <2>4. ASSUME NEW x \in MadeOf(ss), NEW y \in MadeOf(ss),
               a = NameOf(toks, x), a = NameOf(toks, y)
        PROVE  x = y
    <3>1. toks \in Seq(STRING) /\ x \in DOMAIN toks /\ y \in DOMAIN toks
      BY <1>1, ChainConstants DEF MadeOf
    <3>2. NameOf(toks, x) = NameOf(toks, y)
      BY <2>4
    <3> QED
      BY <3>1, <3>2, NameOnce
  <2>5. CASE Scales(ss)
    <3>1. PICK x \in MadeOf(ss) : a = NameOf(toks, x) /\ Rank(MadeOf(ss), x) = i - 1
      BY <2>2, <2>5
    <3>2. PICK y \in MadeOf(ss) : a = NameOf(toks, y) /\ Rank(MadeOf(ss), y) = j - 1
      BY <2>2, <2>5
    <3>3. i - 1 = j - 1
      BY <2>4, <3>1, <3>2
    <3> QED
      BY <3>3
  <2>6. CASE ~Scales(ss)
    <3>1. CASE a = <<"scale", 1>>
      BY <2>2, <2>3, <2>6, <3>1
    <3>2. CASE a # <<"scale", 1>>
      <4>1. PICK x \in MadeOf(ss) : a = NameOf(toks, x) /\ Rank(MadeOf(ss), x) = i - 1
        BY <2>2, <3>2
      <4>2. PICK y \in MadeOf(ss) : a = NameOf(toks, y) /\ Rank(MadeOf(ss), y) = j - 1
        BY <2>2, <3>2
      <4>3. i - 1 = j - 1
        BY <2>4, <4>1, <4>2
      <4> QED
        BY <4>3
    <3> QED
      BY <3>1, <3>2
  <2> QED
    BY <2>5, <2>6
<1> QED
  BY <1>3, <1>4

\* A queue of two is the announced operator's, and only where FRC doubles the rate.
LEMMA DeepQueues ==
  ASSUME setup \in Setups, chain = Composed(setup), setup.mode # "uniform",
         NEW i \in 1 .. N
  PROVE  /\ QueueCap(setup, chain[i]) \in {1, 2}
         /\ QueueCap(setup, chain[i]) = 2 =>
              /\ setup.mode = "double" /\ chain[i] = BurstSink(setup)
              /\ \E j \in 2 .. N - 1 : Op(j) = "frc"
<1>1. EmitBurst(setup.mode) = IF setup.mode = "double" THEN 2 ELSE 1
  BY DEF EmitBurst
<1>2. QueueCap(setup, chain[i]) = 2 => setup.mode = "double" /\ chain[i] = BurstSink(setup)
  BY <1>1 DEF QueueCap
<1>3. ASSUME QueueCap(setup, chain[i]) = 2
      PROVE  \E j \in 2 .. N - 1 : Op(j) = "frc"
  <2>1. setup.mode = "double" /\ chain[i] = BurstSink(setup)
    BY <1>2, <1>3
  <2>2. BurstSink(setup) # <<>>
    <3>1. Placed(setup, N, i)
      BY ComposedNames DEF N
    <3>2. \A x, y : <<x, y>> # <<>>
      OBVIOUS
    <3>3. chain[i] = <<"unpack", 1>> \/ chain[i] = <<"pack", 1>> \/ chain[i] = <<"scale", 1>>
            \/ \E z : chain[i] = NameOf(setup.filters, z)
      BY <3>1 DEF Placed
    <3> QED
      BY <2>1, <3>2, <3>3, Zenon DEF NameOf
  <2>3. \E z \in DOMAIN setup.filters : setup.filters[z] \in Real /\ setup.filters[z] = "frc"
    BY <2>2, Zenon DEF BurstSink
  <2>4. PICK z \in MadeOf(setup) : setup.filters[z] = "frc"
    <3>1. setup.mode # "off"
      BY <2>1
    <3> QED
      BY <2>3, <3>1 DEF MadeOf
  <2>5. PICK j \in 2 .. N - 1 : Composed(setup)[j] = NameOf(setup.filters, z)
    BY ComposedNames DEF N
  <2>6. Op(j) = "frc"
    BY <2>4, <2>5 DEF Op, NameOf
  <2> QED
    BY <2>6
<1> QED
  BY <1>1, <1>2, <1>3 DEF QueueCap

\* Where FRC is, which queue is deep, and which operators only hand on.
LEMMA Places ==
  ASSUME setup \in Setups, chain = Composed(setup), DeepPools
  PROVE  /\ N \in Nat /\ N >= 2 /\ DOMAIN chain = 1 .. N
         /\ \E f \in 0 .. N - 1 : /\ f # 1 /\ \A i \in 1 .. N : Op(i) = "frc" <=> i = f
                                  /\ f # 0 <=> \E i \in 1 .. N : Op(i) = "frc"
         /\ \E deep \in 0 .. N :
              /\ \A i \in 1 .. N : QueueCap(setup, chain[i]) <= (IF deep = i THEN 2 ELSE 1)
              /\ deep # 0 => /\ setup.mode = "double"
                             /\ \E j \in 2 .. N - 1 : Op(j) = "frc"
         /\ \A i \in 1 .. N : Op(i) = "scale" => i \in 2 .. N - 1
<1>1. N \in Nat /\ N >= 2 /\ DOMAIN chain = 1 .. N
  BY ComposedIsSeq, ComposedNames DEF N
<1>2. ASSUME NEW i \in 1 .. N, Op(i) \in {"frc", "scale"}
      PROVE  i \in 2 .. N - 1
  <2>1. Placed(setup, N, i)
    BY ComposedNames DEF N
  <2>2. Op(i) \notin {"unpack", "pack"}
    BY <1>2
  <2> QED
    BY <2>1, <2>2, PlacedName DEF Op
<1>3. \E f \in 0 .. N - 1 : /\ f # 1 /\ \A i \in 1 .. N : Op(i) = "frc" <=> i = f
                            /\ f # 0 <=> \E i \in 1 .. N : Op(i) = "frc"
  <2>1. CASE \E i \in 1 .. N : Op(i) = "frc"
    <3>1. PICK f \in 1 .. N : Op(f) = "frc"
      BY <2>1
    <3>2. \A i \in 1 .. N : Op(i) = "frc" => i = f
      BY <1>1, <3>1 DEF DeepPools
    <3>3. f \in 2 .. N - 1
      BY <1>2, <3>1
    <3>4. f \in 0 .. N - 1 /\ f # 1 /\ f # 0
      BY <1>1, <3>3
    <3>5. \A i \in 1 .. N : Op(i) = "frc" <=> i = f
      BY <3>1, <3>2, Zenon
    <3> QED
      BY <2>1, <3>4, <3>5, Zenon
  <2>2. CASE ~\E i \in 1 .. N : Op(i) = "frc"
    <3>1. 0 \in 0 .. N - 1 /\ 0 \notin 1 .. N /\ 0 # 1
      BY <1>1
    <3>2. \A i \in 1 .. N : Op(i) = "frc" <=> i = 0
      BY <2>2, <3>1, Zenon
    <3> QED
      BY <2>2, <3>1, <3>2, Zenon
  <2> QED
    BY <2>1, <2>2
<1>4. \E deep \in 0 .. N :
        /\ \A i \in 1 .. N : QueueCap(setup, chain[i]) <= (IF deep = i THEN 2 ELSE 1)
        /\ deep # 0 => setup.mode = "double" /\ \E j \in 2 .. N - 1 : Op(j) = "frc"
  <2>1. ASSUME NEW i \in 1 .. N
        PROVE  /\ QueueCap(setup, chain[i]) \in {1, 2}
               /\ QueueCap(setup, chain[i]) = 2 =>
                    /\ setup.mode = "double" /\ chain[i] = BurstSink(setup)
                    /\ \E j \in 2 .. N - 1 : Op(j) = "frc"
    <3>1. setup.mode # "uniform"
      BY DEF DeepPools
    <3> QED
      BY <3>1, DeepQueues
  <2>2. CASE \E i \in 1 .. N : QueueCap(setup, chain[i]) = 2
    <3>1. PICK deep \in 1 .. N : QueueCap(setup, chain[deep]) = 2
      BY <2>2
    <3>2. ASSUME NEW i \in 1 .. N, QueueCap(setup, chain[i]) = 2
          PROVE  i = deep
      <4>1. Composed(setup)[i] = Composed(setup)[deep]
        BY <2>1, <3>1, <3>2
      <4> QED
        BY <4>1, NamesOnce DEF N
    <3>3. deep \in 0 .. N
      BY <1>1
    <3>4. \A i \in 1 .. N : QueueCap(setup, chain[i]) <= (IF deep = i THEN 2 ELSE 1)
      BY <2>1, <3>2
    <3> QED
      BY <2>1, <3>1, <3>3, <3>4
  <2>3. CASE ~\E i \in 1 .. N : QueueCap(setup, chain[i]) = 2
    <3>1. 0 \in 0 .. N /\ \A i \in 1 .. N : 0 # i
      BY <1>1
    <3>2. \A i \in 1 .. N : QueueCap(setup, chain[i]) <= 1
      BY <2>1, <2>3
    <3>3. \A i \in 1 .. N : QueueCap(setup, chain[i]) <= (IF 0 = i THEN 2 ELSE 1)
      BY <3>1, <3>2
    <3> QED
      BY <3>1, <3>3
  <2> QED
    BY <2>2, <2>3
<1>5. \A i \in 1 .. N : Op(i) = "scale" => i \in 2 .. N - 1
  BY <1>2
<1> QED
  BY <1>1, <1>3, <1>4, <1>5

LEMMA PoolsStart ==
  ASSUME ChainInit, HostInv, DeepPools
  PROVE  \E g, t, d : PoolInv(g, t, d)
<1>1. /\ setup \in Setups /\ chain = Composed(setup)
      /\ q = [i \in DOMAIN chain |-> <<>>] /\ slot = [i \in DOMAIN chain |-> 0]
      /\ launched = [b \in Buffers(chain) |-> 0] /\ written = [b \in Buffers(chain) |-> 0]
      /\ stream = [i \in DOMAIN chain |-> <<>>] /\ frc = [i \in DOMAIN chain |-> NoFrc]
      /\ packing = Idle
  BY DEF ChainInit
<1>2. PICK n : n = N /\ n \in Nat /\ n >= 2 /\ DOMAIN chain = 1 .. n
  BY <1>1, Places
<1>3. PICK f \in 0 .. n - 1 : /\ f # 1 /\ \A i \in 1 .. n : Op(i) = "frc" <=> i = f
                              /\ f # 0 <=> \E i \in 1 .. n : Op(i) = "frc"
  BY <1>1, <1>2, Places
<1>4. PICK deep \in 0 .. n :
        /\ \A i \in 1 .. n : QueueCap(setup, chain[i]) <= (IF deep = i THEN 2 ELSE 1)
        /\ deep # 0 => setup.mode = "double" /\ \E j \in 2 .. n - 1 : Op(j) = "frc"
  BY <1>1, <1>2, Places
<1>5. PICK pass : pass = {i \in 1 .. n : Op(i) = "scale" /\ setup.identity}
  OBVIOUS
<1>6. pass \subseteq 2 .. n - 1 /\ f \notin pass
  <2>1. \A i \in 1 .. n : Op(i) = "scale" => i \in 2 .. n - 1
    BY <1>1, <1>2, Places
  <2>2. pass \subseteq 2 .. n - 1
    BY <1>5, <2>1, Zenon
  <2>3. ASSUME f \in pass PROVE FALSE
    <3>1. f \in 1 .. n /\ Op(f) = "scale"
      BY <1>5, <2>3, Zenon
    <3>2. Op(f) = "frc"
      BY <1>3, <3>1
    <3> QED
      BY <3>1, <3>2
  <2> QED
    BY <2>2, <2>3
<1>7. PICK rate : rate = EmitBurst(setup.mode) /\ rate \in {1, 2} /\ (rate = 2 <=> setup.mode = "double")
  <2>1. EmitBurst(setup.mode) = IF setup.mode = "double" THEN 2 ELSE 1
    BY DEF EmitBurst, DeepPools
  <2> QED
    BY <2>1
<1>8. ASSUME NEW i \in 1 .. n - 1
      PROVE  /\ Pool(i) \in Nat \ {0}
             /\ IF i = f THEN Pool(i) > n - i ELSE Pool(i) >= n + (IF f = 0 THEN 0 ELSE 1)
  <2>1. i \in 1 .. n /\ (Op(i) = "frc" <=> i = f)
    BY <1>2, <1>3
  <2>2. Pool(i) \in Nat \ {0}
    <3>1. Pool(i) \in {Ring, 2 * rate + FrcSpare}
      BY <1>7 DEF Pool
    <3> QED
      BY <1>7, <3>1, HostConstants
  <2>3. IF Op(i) = "frc" THEN n - i < Pool(i)
        ELSE n + (IF \E j \in DOMAIN chain : Op(j) = "frc" THEN 1 ELSE 0) <= Pool(i)
    BY <1>2 DEF DeepPools
  <2>4. CASE i = f
    BY <1>2, <2>1, <2>2, <2>3, <2>4
  <2>5. CASE i # f
    <3>1. PICK e \in {0, 1} : e = (IF f = 0 THEN 0 ELSE 1)
                              /\ e = (IF \E j \in DOMAIN chain : Op(j) = "frc" THEN 1 ELSE 0)
      BY <1>2, <1>3
    <3>2. n + e <= Pool(i)
      BY <2>1, <2>3, <2>5, <3>1
    <3> QED
      BY <1>2, <2>2, <2>5, <3>1, <3>2
  <2> QED
    BY <2>4, <2>5
<1>9. PICK g, pool : g = [n |-> n, f |-> f, rate |-> rate, deep |-> deep, pass |-> pass, pool |-> pool]
                     /\ pool = [i \in 1 .. n - 1 |-> Pool(i)]
  OBVIOUS
<1>10. /\ g.n = n /\ g.f = f /\ g.rate = rate /\ g.deep = deep /\ g.pass = pass
       /\ \A i \in 1 .. n - 1 : g.pool[i] = Pool(i)
  BY <1>9
<1>11. Shape(g)
  <2>1. f = 0 \/ rate = 1 => deep = 0
    <3>1. deep # 0 => rate = 2
      BY <1>4, <1>7
    <3>2. deep # 0 => f # 0
      <4>1. (\E j \in 2 .. n - 1 : Op(j) = "frc") => \E j \in 1 .. n : Op(j) = "frc"
        BY <1>2
      <4> QED
        BY <1>3, <1>4, <4>1, Zenon
    <3> QED
      BY <1>7, <3>1, <3>2
  <2> QED
    BY <1>2, <1>3, <1>4, <1>6, <1>7, <1>8, <1>10, <2>1 DEF Shape
<1>12. Wired(g)
  <2>1. \A i \in 1 .. n : Op(i) = "scale" /\ setup.identity <=> i \in pass
    BY <1>5, Zenon
  <2>2. /\ g.n = N /\ DOMAIN chain = 1 .. g.n /\ setup.mode # "uniform"
        /\ EmitBurst(setup.mode) = g.rate /\ (g.rate = 2 <=> setup.mode = "double")
    BY <1>2, <1>7, <1>10 DEF DeepPools
  <2>3. \A i \in 1 .. g.n : Op(i) = "frc" <=> i = g.f
    BY <1>3, <1>10, Zenon
  <2>4. \A i \in 1 .. g.n : Op(i) = "scale" /\ setup.identity <=> i \in g.pass
    BY <1>10, <2>1, Zenon
  <2>5. \A i \in 1 .. g.n : QueueCap(setup, chain[i]) <= (IF g.deep = i THEN 2 ELSE 1)
    BY <1>4, <1>10
  <2>6. \A i \in 1 .. g.n - 1 : g.pool[i] = Pool(i)
    BY <1>10
  <2> QED
    BY <2>2, <2>3, <2>4, <2>5, <2>6, Zenon DEF Wired
<1>13. PICK t : t = [i \in 1 .. n |-> 0]
  OBVIOUS
<1>14. \A i \in 1 .. n : t[i] = 0
  BY <1>13
<1>15. \A i : Emitted(g, i, 0) = 0 /\ Runs(g, i, 0) = 0
  BY DEF Emitted, Runs
<1>16. Lag(g, t)
  <2>1. \A i, j \in 1 .. g.n : i < j => Near(g, t, i, j)
    <3> SUFFICES ASSUME NEW i \in 1 .. g.n, NEW j \in 1 .. g.n, i < j PROVE Near(g, t, i, j)
      OBVIOUS
    <3>1. PICK e \in {0, 1} : e = Slack(g, i, j)
      BY DEF Slack
    <3>2. 0 <= 0 + (j - i) + e
      BY <1>2, <1>10, <3>1
    <3> QED
      BY <1>10, <1>14, <1>15, <3>1, <3>2 DEF Near
  <2> QED
    BY <1>10, <1>14, <2>1 DEF Lag
<1>17. <<>> \in Seq(Nat) /\ Len(<<>>) = 0 /\ Listed(<<>>)
  <2>1. <<>> \in Seq(Nat) /\ Len(<<>>) = 0
    OBVIOUS
  <2> QED
    BY <2>1, Zenon DEF Listed
<1>18. \A i \in 1 .. n : q[i] = <<>> /\ stream[i] = <<>> /\ slot[i] = 0 /\ frc[i].prev = NoFrame
  BY <1>1, <1>2 DEF NoFrc
<1>19. Queues(g, t)
  <2>1. \A i \in 1 .. n - 1 : Emitted(g, i, t[i]) = t[i + 1] + Len(q[i + 1])
    <3> SUFFICES ASSUME NEW i \in 1 .. n - 1
                 PROVE  Emitted(g, i, t[i]) = t[i + 1] + Len(q[i + 1])
      OBVIOUS
    <3>1. i \in 1 .. n /\ i + 1 \in 1 .. n
      BY <1>2
    <3> QED
      BY <1>14, <1>15, <1>17, <1>18, <3>1
  <2>2. \A j \in 1 .. n : \A x \in 1 .. Len(q[j]) : Item(g, t, j, t[j] + x, q[j][x])
    BY <1>17, <1>18
  <2> QED
    BY <1>10, <1>14, <1>18, <2>1, <2>2 DEF Queues
<1>20. Kernels(g, t, t)
  <2>1. \A i \in Makers(g) \cup {n} : i \in 1 .. n
    BY <1>2, <1>10 DEF Makers
  <2>2. \A i \in g.pass : stream[i] = <<>>
    <3>1. \A i \in pass : i \in 1 .. n
      BY <1>5, Zenon
    <3> QED
      BY <1>10, <1>18, <3>1
  <2>3. \A i \in 1 .. n : /\ t[i] \in Nat /\ Listed(stream[i])
                          /\ t[i] + Len(stream[i]) = Runs(g, i, t[i])
                          /\ \A x \in 1 .. Len(stream[i]) : Kernel(g, t, i, t[i] + x, stream[i][x])
    BY <1>14, <1>15, <1>17, <1>18
  <2> QED
    BY <1>10, <2>1, <2>2, <2>3 DEF Kernels
<1>21. Pools(g, t, t)
  <2> SUFFICES ASSUME NEW i \in Makers(g)
               PROVE  /\ \E v : Copy(g.pool[i], Runs(g, i, t[i]) + 1, slot[i], v)
                      /\ \A s \in 0 .. g.pool[i] - 1 :
                           /\ Filled(g.pool[i], Runs(g, i, t[i]), s, launched[<<i, s>>])
                           /\ Filled(g.pool[i], t[i], s, written[<<i, s>>])
    BY DEF Pools
  <2>1. i \in 1 .. n - 1 /\ i \in 1 .. n
    BY <1>2, <1>10 DEF Makers
  <2>2. PICK p \in Nat \ {0} : p = g.pool[i]
    BY <1>8, <1>10, <2>1
  <2>3. t[i] = 0 /\ Runs(g, i, t[i]) = 0 /\ slot[i] = 0
    BY <1>14, <1>15, <1>18, <2>1
  <2>4. Copy(p, 1, 0, 1)
    BY DEF Copy
  <2>5. ASSUME NEW s \in 0 .. p - 1
        PROVE  Filled(p, 0, s, launched[<<i, s>>]) /\ Filled(p, 0, s, written[<<i, s>>])
    <3>1. <<i, s>> \in DOMAIN launched /\ <<i, s>> \in DOMAIN written
      BY <1>10, <1>11, <1>12, <2>1, <2>2, PoolBuffers
    <3>2. launched[<<i, s>>] = 0 /\ written[<<i, s>>] = 0
      BY <1>1, <3>1
    <3>3. Filled(p, 0, s, 0)
      BY DEF Filled
    <3> QED
      BY <3>2, <3>3
  <2>6. 0 + 1 = 1
    OBVIOUS
  <2> QED
    BY <2>2, <2>3, <2>4, <2>5, <2>6
<1>22. Done(g, t)
  <2>1. \A j \in Makers(g) \cup {g.n} : ~(t[j] > 0)
    <3>1. \A i \in Makers(g) \cup {n} : i \in 1 .. n
      BY <1>2, <1>10 DEF Makers
    <3> QED
      BY <1>10, <1>14, <3>1
  <2> QED
    BY <2>1 DEF Done
<1>23. Packed(g, t, t)
  <2>1. n \in 1 .. n
    BY <1>2
  <2> QED
    BY <1>1, <1>10, <1>18, <2>1 DEF Packed
<1> QED
  BY <1>11, <1>12, <1>16, <1>19, <1>20, <1>21, <1>22, <1>23 DEF PoolInv

\* The setup is fixed.
LEMMA PoolsDepth ==
  ASSUME [ChainNext]_chainVars, DeepPools'
  PROVE  DeepPools
<1>1. UNCHANGED <<setup, chain>>
  BY DEF chainVars, ChainNext, Receive, Operator, Filter, HandOn, FrcPass, FrcMid, FrcUniform,
         Compute, KernelRuns, PackLaunch, PackEmit, TxTake, TxSent
<1>2. (DeepPools)' = DeepPools
  BY <1>1 DEF DeepPools, Op, N, Pool
<1> QED
  BY <1>2

\* The pools of every operator (kRing, codec_ops.cpp:19; kPool, filters.cpp:15 and
\* resize.cpp; frc.cpp:65) are handed out blindly, yet where they are deep enough for the
\* chain no buffer is reused too early: no frame is overwritten that is queued, kept by
\* FRC or being packed, and no kernel overwrites one that a launched kernel has still to
\* read, in whatever order the operators and the streams go on.
THEOREM PoolsStaySafe == ChainSpec => [](DeepPools => BuffersSafe)
<1> DEFINE Inv == GridInv /\ HostInv /\ (DeepPools => \E g, t, d : PoolInv(g, t, d))
<1>1. ChainInit => Inv
  BY GridStarts, HostStarts, PoolsStart
<1>2. ASSUME Inv, [ChainNext]_chainVars
      PROVE  Inv'
  <2>1. GridInv' /\ HostInv'
    BY <1>2, GridStays, HostStays
  <2>2. ASSUME DeepPools' PROVE \E g, t, d : PoolInv(g, t, d)'
    <3>1. PICK g, t, d : PoolInv(g, t, d)
      BY <1>2, <2>2, PoolsDepth
    <3> QED
      BY <1>2, <3>1, PoolsStay
  <2> QED
    BY <2>1, <2>2
<1>3. Inv => (DeepPools => BuffersSafe)
  <2> SUFFICES ASSUME Inv, DeepPools PROVE FramesSafe /\ HostsSafe
    BY DEF BuffersSafe
  <2>1. PICK g, t, d : PoolInv(g, t, d)
    OBVIOUS
  <2> QED
    BY <2>1, PoolsSafe, HostSound
<1> HIDE DEF Inv
<1> QED
  BY <1>1, <1>2, <1>3, PTL DEF ChainSpec
=============================================================================
