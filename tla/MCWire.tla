------------------------------- MODULE MCWire -------------------------------
(* Instances of Wire: packets that span lines, packets of more short lines   *)
(* than they can announce, and packets that never span lines.                *)
EXTENDS Wire

Format(pgs, height, pg, payload, aligned) ==
  [pgs |-> pgs, height |-> height, pg |-> pg, payload |-> payload, aligned |-> aligned]

\* Edges and flat parts, other ones in each frame and lane.
MCPicture(ts, g) ==
  [c \in 1 .. 4 |-> (<<64, 509, 306, 1023, 310, 700>>[((ts + 2 * g + c) % 6) + 1] + 2 * c * (g % 2)) % 1024]

MCFormats == {Format(3, 3, 5, 46, FALSE), Format(1, 5, 5, 60, FALSE), Format(3, 2, 4, 30, TRUE)}
=============================================================================
