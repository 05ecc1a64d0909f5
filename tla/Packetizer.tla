----------------------------- MODULE Packetizer -----------------------------
(***************************************************************************)
(* ST 2110-20 / RFC 4175 framing (rtp_st2110.cpp): how a frame is cut into *)
(* packets and put together again.  A frame is a sequence of pixel groups, *)
(* line after line; an octet count is a multiple of the group's octets.    *)
(*                                                                         *)
(* fmt.pgs      pixel groups per line      fmt.height   lines              *)
(* fmt.pg       octets per pixel group     fmt.payload  UDP payload budget *)
(* fmt.aligned  a packet never spans lines (IP10, or 2160 lines and more)  *)
(***************************************************************************)
EXTENDS Integers, Sequences

CONSTANTS Formats,   \* the formats to choose from
          MaxSrd,    \* segments in a packet                     (kMaxSrd)
          LoMod,     \* sequence numbers the RTP header holds    (2^16)
          HiMod      \* extensions the payload header holds      (2^16)

\* The budget holds the headers of a packet and of one segment, and a group.
IsFormat(f) ==
  /\ f.pgs \in Nat \ {0} /\ f.height \in Nat \ {0} /\ f.pg \in {4, 5} /\ f.aligned \in BOOLEAN
  /\ f.payload \in Nat /\ f.payload >= 20 + f.pg
ASSUME PacketAssumption ==
  /\ MaxSrd \in Nat \ {0} /\ {LoMod, HiMod} \subseteq Nat \ {0}
  /\ \A f \in Formats : IsFormat(f)

Octets(fmt) == fmt.pgs * fmt.pg
Groups(fmt) == 0 .. fmt.pgs * fmt.height - 1

\* Where a segment starts in the frame.
GroupAt(fmt, s) == s.line * fmt.pgs + s.offset \div 2

\* Octets of the segment that starts at the cursor, 0 if there is none.
Segment(fmt, at, budget) ==
  LET left == Octets(fmt) - at.octet
      room == IF left < budget - 6 THEN left ELSE budget - 6
  IN  IF at.line >= fmt.height \/ room < fmt.pg THEN 0 ELSE (room \div fmt.pg) * fmt.pg

Advanced(fmt, at, seg) ==
  IF at.octet + seg >= Octets(fmt) THEN [line |-> at.line + 1, octet |-> 0]
  ELSE [at EXCEPT !.octet = @ + seg]

\* The packet that starts at the cursor, and the cursor behind it.
Plan(fmt, at) ==
  LET grow[k \in 0 .. MaxSrd] ==
        IF k = 0 THEN [at |-> at, budget |-> fmt.payload - 14, srds |-> <<>>]
        ELSE LET g   == grow[k - 1]
                 seg == Segment(fmt, g.at, g.budget)
             IN  IF seg = 0 \/ (fmt.aligned /\ k > 1) THEN g
                 ELSE [at |-> Advanced(fmt, g.at, seg), budget |-> g.budget - 6 - seg,
                       srds |-> Append(g.srds, [len |-> seg, line |-> g.at.line,
                                                offset |-> 2 * (g.at.octet \div fmt.pg)])]
  IN  grow[MaxSrd]

\* The packet that starts at each cursor of each format.
Cursors(fmt) ==
  {c \in [line : 0 .. fmt.height, octet : 0 .. Octets(fmt) - 1] : c.octet % fmt.pg = 0}
Plans == [fmt \in Formats |-> [at \in Cursors(fmt) |-> Plan(fmt, at)]]

\* The packets of a frame, in order.
FramePlans ==
  [fmt \in Formats |->
     LET walk[k \in 0 .. fmt.pgs * fmt.height] ==
           IF k = 0 THEN [at |-> [line |-> 0, octet |-> 0], plans |-> <<>>]
           ELSE LET w == walk[k - 1]
                IN  IF w.at.line >= fmt.height THEN w
                    ELSE [at |-> Plans[fmt][w.at].at, plans |-> Append(w.plans, Plans[fmt][w.at])]
     IN  walk[fmt.pgs * fmt.height].plans]

\* The pixel groups the segments stand for, in the order of the pixel data.
Targets(fmt, srds) ==
  LET all[k \in 0 .. Len(srds)] ==
        IF k = 0 THEN <<>>
        ELSE all[k - 1] \o [j \in 1 .. srds[k].len \div fmt.pg |-> GroupAt(fmt, srds[k]) + j - 1]
  IN  all[Len(srds)]

\* Every segment but the last announces another one.
BugContinues(srds, i) == FALSE  \* a bug: the bit is not set
Continues(srds, i) == i < Len(srds)

\* The packet on the wire: the sequence number in two halves, the marker when
\* no line is left, the segments with their continuation bit, the pixels.
Written(fmt, seq, ts, plan, frame) ==
  [lo |-> seq % LoMod, hi |-> (seq \div LoMod) % HiMod, ts |-> ts,
   marker |-> plan.at.line >= fmt.height,
   heads |-> [i \in DOMAIN plan.srds |-> [srd |-> plan.srds[i], cont |-> Continues(plan.srds, i)]],
   data |-> [n \in 1 .. Len(Targets(fmt, plan.srds)) |-> frame[Targets(fmt, plan.srds)[n]]]]

PayloadLen(fmt, p) == 14 + 6 * Len(p.heads) + fmt.pg * Len(p.data)

\* The segments of a received packet: up to the first without continuation.
Parsed(p) ==
  LET last == CHOOSE i \in DOMAIN p.heads :
                ~p.heads[i].cont /\ \A j \in 1 .. i - 1 : p.heads[j].cont
  IN  [seq |-> p.hi * LoMod + p.lo, ts |-> p.ts, marker |-> p.marker,
       srds |-> [i \in 1 .. last |-> p.heads[i].srd]]

\* parse() accepts it: whole groups, within the frame, and all there.
Accepted(fmt, p) ==
  /\ \E i \in DOMAIN p.heads : i <= MaxSrd /\ ~p.heads[i].cont
  /\ LET srds == Parsed(p).srds
     IN  /\ \A i \in DOMAIN srds :
              /\ srds[i].len % fmt.pg = 0 /\ srds[i].line < fmt.height
              /\ GroupAt(fmt, srds[i]) + srds[i].len \div fmt.pg <= fmt.pgs * fmt.height
         /\ Len(Targets(fmt, srds)) <= Len(p.data)

\* scatter() copies the pixels to where the segments say, in their order.
Scattered(fmt, p, frame) ==
  LET to      == Targets(fmt, Parsed(p).srds)
      from(g) == {n \in DOMAIN to : to[n] = g}
  IN  [g \in DOMAIN frame |->
         IF from(g) = {} THEN frame[g]
         ELSE p.data[CHOOSE n \in from(g) : \A m \in from(g) : m <= n]]
=============================================================================
