---------------------------- MODULE UniformGrid -----------------------------
(***************************************************************************)
(* The output grid of frame-rate conversion (frc_grid.hpp): one tick every *)
(* interval, anchored once, walked bracket by bracket.  A bracket is the   *)
(* span (prev, cur] between two received frames.  The counting loop of     *)
(* ticks() is given in closed form: both are the multiples of the interval *)
(* from the first tick up to cur.                                          *)
(***************************************************************************)
EXTENDS Integers

\* The first tick of the bracket: the anchor, or where the last one ended.
Anchored(next, cur) == IF next = 0 THEN cur ELSE next

\* Whole intervals jumped when the source stalled for more than stall.
Jumped(interval, stall, next, prev, cur) ==
  IF cur - prev > stall /\ next < cur THEN (cur - next) \div interval ELSE 0

\* A bug: the grid restarts at the current frame.
BugTicks(interval, stall, room, next, prev, cur) ==
  [out |-> <<cur>>, next |-> cur + interval, lost |-> 0]

\* Ticks from first on that are not after cur.
TicksUpTo(interval, first, cur) ==
  IF first > cur THEN 0 ELSE (cur - first) \div interval + 1

\* What ticks() writes and leaves behind: the emitted ticks, at most room of
\* them, the next tick and how many were given up.
Ticks(interval, stall, room, next, prev, cur) ==
  LET start == Anchored(next, cur)
      skip  == Jumped(interval, stall, start, prev, cur)
      first == start + skip * interval
      count == TicksUpTo(interval, first, cur)
      n     == IF count < room THEN count ELSE room
  IN  [out  |-> [k \in 1 .. n |-> first + (k - 1) * interval],
       next |-> first + count * interval,
       lost |-> skip + (count - n)]

\* A tick within a hundredth of the bracket of cur shows the received frame.
IsReal(t, prev, cur) == 100 * (t - prev) >= 99 * (cur - prev)
=============================================================================
