------------------------------- MODULE Ingress -------------------------------
(***************************************************************************)
(* How packets of a peer's transmit port reach the operator behind a       *)
(* receive port: the headers dpdk_tx_backend.cpp writes from two cached    *)
(* templates, a switch that forwards a multicast group only to ports that  *)
(* reported it (IGMP snooping), the steering of the NIC, which shares its  *)
(* port with the kernel, and the classification in dpdk_rx_backend.cpp.    *)
(* The receive port renews its reports from the polling loop, by a clock   *)
(* that PTP may step.  The switch, the steering of the NIC, the clock and  *)
(* the other senders are external.                                         *)
(*                                                                         *)
(* An address is a number, 0 is unset (as in the code); those from         *)
(* MulticastBase on are groups.  An operator Bug... is a wrong variant of  *)
(* the operator after it.                                                  *)
(***************************************************************************)
EXTENDS Integers

CONSTANTS MulticastBase, \* 224.0.0.0
          MacSpace,      \* number of multicast MACs: the low 23 bits
          OwnHost,       \* address of the receive port
          KernelGroups,  \* groups the kernel has joined on the port: PTP
          Configs,       \* [video, audio : [port, group, src, ssm]] of a receiver and its peer:
                         \* src sends, ssm is the source filter of the receiver
          Foreign,       \* frames of other senders
          Lens,          \* payload sizes of each channel
          Interval,      \* a report is due when more time than this has passed (30 s)
          Gap,           \* longest time between two looks at the clock
          Aging,         \* the switch forgets a report after this time (260 s)
          Lossy,         \* most reports lost in a row
          Leaps,         \* steps PTP makes to the clock
          MaxLeaps, MaxStarts \* bounds: clock steps; starts of the receiver

Chans == {"video", "audio"}

ASSUME IngressAssumption ==
  /\ MulticastBase \in Nat \ {0} /\ MacSpace \in Nat \ {0}
  /\ Configs \subseteq [Chans -> [port : Nat, group : Nat, src : Nat, ssm : Nat]]
  /\ Lens \in [Chans -> SUBSET (Nat \ {0})]
  \* an audio stream has a group, and comes with a video group
  /\ \A c \in Configs : c["audio"].port # 0 => c["audio"].group # 0 /\ c["video"].group # 0
  /\ Interval \in Nat \ {0} /\ Gap \in Nat \ {0} /\ Aging \in Nat
  /\ Lossy \in Nat /\ MaxLeaps \in Nat /\ MaxStarts \in Nat /\ Leaps \subseteq Int
  \* a report gets through, and a clock step delays it, before the switch forgets
  /\ (Lossy + 1 + MaxLeaps) * (Interval + Gap) + Gap < Aging

VARIABLES cfg,     \* the addresses of both streams, on both sides
          up,      \* receiver: "down", "isolated", "groups", "all" or "promiscuous"
          rules,   \* flow rules of an isolated port
          macs,    \* multicast filter of a port that is not
          armed,   \* last_igmp_ns_ # 0
          since,   \* clock - last_igmp_ns_
          gap,     \* time since receive() looked at the clock
          age,     \* switch: time since the last report of <<group, source>>
          missed,  \* reports of a channel lost in a row
          heard,   \* channels with a report that got through since the start
          cache,   \* sender: hdr_cache_ and audio_hdr_cache_
          leaps, starts

rxVars == <<up, rules, macs, armed, since>>
netVars == <<age, missed, heard>>
vars == <<cfg, rxVars, gap, netVars, cache, leaps, starts>>

\* net_addr.hpp
ipv4_is_multicast(ip) == ip >= MulticastBase
multicast_mac(group) == <<"group", group % MacSpace>>
Unicast(host) == <<"host", host>>
-----------------------------------------------------------------------------
(* The peer's transmit port *)

\* Destination MAC of a channel: create_pool_and_addrs, with dst_mac zero for a group
\* and the address of the receive port otherwise.
DstMac(c) ==
  IF ipv4_is_multicast(cfg[c].group) THEN multicast_mac(cfg[c].group) ELSE Unicast(OwnHost)

build_headers(c, len) ==
  [mac |-> DstMac(c), len |-> len, src |-> cfg[c].src, port |-> cfg[c].port,
   dst |-> IF cfg[c].group = 0 THEN OwnHost ELSE cfg[c].group]

Uncached == [len |-> 0]

\* a bug: both channels share one template
BugTemplate(c) == "video"

\* The template a channel keeps: video hdr_cache_, audio audio_hdr_cache_.
Template(c) == c

\* The header of the next packet: the template if it has this size, else a new one.
Header(c, len) ==
  IF cache[Template(c)].len = len THEN cache[Template(c)] ELSE build_headers(c, len)

\* reserve_packet, reserve_audio.
Send(c) ==
  /\ cfg[c].port # 0
  /\ \E len \in Lens[c] : cache' = [cache EXCEPT ![Template(c)] = Header(c, len)]
  /\ UNCHANGED <<cfg, rxVars, gap, netVars, leaps, starts>>
-----------------------------------------------------------------------------
(* Reports of the receive port and the switch *)

Joined == {c \in Chans : cfg[c].group # 0 /\ cfg[c].port # 0}

\* The record of build_igmpv3_join: INCLUDE{source}, or EXCLUDE{} with source 0.
Report(c) == <<cfg[c].group, cfg[c].ssm>>

\* send_igmp_join for the channels cs; those of ok reach the switch.
Reports(cs, ok) ==
  /\ ok \subseteq cs
  /\ \A c \in cs \ ok : missed[c] < Lossy
  /\ missed' = [c \in Chans |-> IF c \in ok THEN 0
                                ELSE IF c \in cs THEN missed[c] + 1 ELSE missed[c]]
  /\ age' = [r \in DOMAIN age |-> IF \E c \in ok : r = Report(c) THEN 0 ELSE age[r]]

Forwards(group, src) ==
  \/ group \in KernelGroups
  \/ \E r \in DOMAIN age : r[1] = group /\ r[2] \in {0, src} /\ age[r] < Aging

\* Does the switch send a frame with this header to the receive port?
ToPort(h) == IF ipv4_is_multicast(h.dst) THEN Forwards(h.dst, h.src) ELSE h.mac = Unicast(OwnHost)
-----------------------------------------------------------------------------
(* The receive port *)

\* install_flow_rule; 0 matches any address.  Its parameters narrow the rule, but
\* only if the video flow has a group or a source.
install_flow_rule(c) ==
  IF cfg["video"].group # 0 \/ cfg["video"].ssm # 0
  THEN [port |-> cfg[c].port, dst |-> cfg[c].group, src |-> cfg[c].ssm]
  ELSE [port |-> cfg[c].port, dst |-> 0, src |-> 0]

Fits(want, have) == want = 0 \/ want = have

Matches(rule, h) == rule.port = h.port /\ Fits(rule.dst, h.dst) /\ Fits(rule.src, h.src)

\* The channels whose reports are renewed: none without a video group.
Renewed == IF cfg["video"].group # 0 THEN Joined ELSE {}

\* The receive port sees the frame: the NIC's steering.
Steered(h) ==
  CASE up = "isolated" -> \E rule \in rules : Matches(rule, h)
    [] up = "groups" -> h.mac \in macs \cup {Unicast(OwnHost)}
    [] up = "all" -> h.mac[1] = "group" \/ h.mac = Unicast(OwnHost)
    [] up = "promiscuous" -> TRUE
    [] OTHER -> FALSE

Wanted(c) == [port |-> cfg[c].port, dst |-> cfg[c].group, src |-> cfg[c].ssm]

\* parse_udp: the class of a frame, "none" if it is freed at once.
parse_udp(h) ==
  IF Matches(Wanted("video"), h) THEN "video"
  ELSE IF cfg["audio"].port # 0 /\ Matches(Wanted("audio"), h) THEN "audio"
  ELSE "none"

\* What becomes of a frame with this header on its way to the operator.
Fate(h) ==
  IF ~ToPort(h) THEN "elsewhere" ELSE IF ~Steered(h) THEN "kernel" ELSE parse_udp(h)

\* What init() makes of a NIC that isolates flows or takes a multicast filter.
Steering(isolates, filters) ==
  IF isolates THEN "isolated"
  ELSE IF cfg["video"].group = 0 THEN "promiscuous"
  ELSE IF filters THEN "groups" ELSE "all"

\* init(): steering, one rule or filter for each stream, a report for each group.
\* (A rule that the NIC refuses ends the process, as Stop does.)
Start ==
  /\ up = "down" /\ starts < MaxStarts /\ starts' = starts + 1
  /\ \E isolates \in BOOLEAN, filters \in BOOLEAN : up' = Steering(isolates, filters)
  /\ rules' = {install_flow_rule(c) : c \in {"video"} \cup Joined}
  /\ macs' = {multicast_mac(cfg[c].group) : c \in Joined}
  /\ armed' = FALSE /\ since' = 0 /\ gap' = 0
  /\ \E ok \in SUBSET Renewed : Reports(Renewed, ok) /\ heard' = ok
  /\ UNCHANGED <<cfg, cache, leaps>>

\* shutdown(), which reports nothing; the next start is for any configuration.  A peer
\* with other addresses is another process.
Stop ==
  /\ up # "down" /\ starts < MaxStarts
  /\ up' = "down" /\ rules' = {} /\ macs' = {}
  /\ cfg' \in Configs
  /\ cache' = [c \in Chans |-> Uncached]
  /\ armed' = FALSE /\ since' = 0 /\ gap' = 0 /\ heard' = {}
  /\ UNCHANGED <<age, missed, leaps, starts>>

\* a bug: the time of the last report is taken at every look
BugDue(d) == FALSE

\* t - last_igmp_ns_ > 30 s, unsigned: a clock behind the last report is far ahead of it.
Due(d) == d < 0 \/ d > Interval

\* receive() looks at the clock, which it does every 2^18 calls if there is a group.
Look ==
  /\ up # "down" /\ Renewed # {} /\ gap' = 0
  /\ IF armed /\ Due(since)
     THEN \E ok \in SUBSET Renewed : Reports(Renewed, ok) /\ heard' = heard \cup ok
     ELSE UNCHANGED netVars
  /\ armed' = TRUE
  /\ since' = IF armed /\ ~Due(since) THEN since ELSE 0
  /\ UNCHANGED <<cfg, up, rules, macs, cache, leaps, starts>>
-----------------------------------------------------------------------------
(* Time *)

Capped(n, most) == IF n < most THEN n ELSE most

\* Time passes; a receiver with reports to renew looks at the clock in time.
Tick ==
  /\ up = "down" \/ Renewed = {} \/ gap < Gap
  /\ gap' = IF up = "down" \/ Renewed = {} THEN 0 ELSE gap + 1
  /\ since' = IF armed THEN Capped(since + 1, Interval + Gap) ELSE 0
  /\ age' = [r \in DOMAIN age |-> Capped(age[r] + 1, Aging)]
  /\ UNCHANGED <<cfg, up, rules, macs, armed, missed, heard, cache, leaps, starts>>

\* PTP steps the clock of the NIC, forwards or backwards.
Leap ==
  /\ up # "down" /\ armed /\ leaps < MaxLeaps /\ leaps' = leaps + 1
  /\ \E by \in Leaps : since' = Capped(since + by, Interval + Gap)
  /\ UNCHANGED <<cfg, up, rules, macs, armed, gap, netVars, cache, starts>>
-----------------------------------------------------------------------------
Memberships == {<<c[ch].group, c[ch].ssm>> : c \in Configs, ch \in Chans}

Init ==
  /\ cfg \in Configs
  /\ up = "down" /\ rules = {} /\ macs = {} /\ armed = FALSE /\ since = 0 /\ gap = 0
  /\ age = [r \in Memberships |-> Aging]
  /\ missed = [c \in Chans |-> 0] /\ heard = {}
  /\ cache = [c \in Chans |-> Uncached]
  /\ leaps = 0 /\ starts = 0

Next == Start \/ Stop \/ Look \/ Tick \/ Leap \/ \E c \in Chans : Send(c)

Spec == Init /\ [][Next]_vars

\* Time goes on, and a receiver that runs keeps polling.
FairSpec == Spec /\ WF_vars(Tick) /\ WF_vars(Look)
-----------------------------------------------------------------------------
\* Types of the state.
IngressTypeOK ==
  /\ cfg \in Configs /\ up \in {"down", "isolated", "groups", "all", "promiscuous"}
  /\ armed \in BOOLEAN /\ since \in Int /\ since <= Interval + Gap /\ gap \in 0..Gap
  /\ age \in [Memberships -> 0..Aging] /\ missed \in [Chans -> 0..Lossy]
  /\ heard \subseteq Chans /\ leaps \in 0..MaxLeaps /\ starts \in 0..MaxStarts

\* A group that the switch has learnt from a running receiver stays forwarded for as
\* long as it runs: every group of the configuration is renewed before it ages out,
\* whatever reports are lost within the bound and wherever PTP steps the clock that
\* renewals go by ("the stream never freezes from an aged-out membership").
StreamsKept == up # "down" => \A c \in heard : age[Report(c)] < Aging

\* Does the frame carry the addresses of stream s, as far as a receiver checks them?
Addressed(h, s) == h.port = s.port /\ Fits(s.group, h.dst) /\ Fits(s.ssm, h.src)

\* Addresses that can be told apart: a source filter names the peer, audio has not the
\* addresses of video, no other sender has those of a stream, and the kernel's groups
\* share no multicast MAC with the streams.
StreamsApart ==
  /\ \A s \in Configs : \A c \in Chans : s[c].ssm \in {0, s[c].src}
  /\ \A s \in Configs : s["audio"].port # 0 =>
       ~Addressed([port |-> s["audio"].port, dst |-> s["audio"].group, src |-> s["audio"].src],
                  s["video"])
  /\ \A h \in Foreign, s \in Configs : \A c \in Chans : ~Addressed(h, s[c])
  /\ \A g \in KernelGroups : ipv4_is_multicast(g)
  /\ \A h \in Foreign : h.dst \in KernelGroups =>
       /\ h.mac = multicast_mac(h.dst)
       /\ \A s \in Configs : \A c \in Chans : s[c].group # 0 => h.mac # multicast_mac(s[c].group)

\* The streams of the peer and of nobody else arrive, each as what it is: a frame of the
\* peer that the switch forwards comes out in its own class and with its own length,
\* whatever was sent before it on either channel; no other frame comes out in a class;
\* and the frames the kernel lives on (SSH, PTP) stay with it on a port that isolates.
RightPlace ==
  up # "down" =>
    /\ \A c \in Chans : cfg[c].port # 0 => \A len \in Lens[c] :
         LET h == Header(c, len)
         IN  /\ ToPort(h) => Fate(h) = c /\ h.len = len
             /\ c \in heard => ToPort(h)
    /\ \A h \in Foreign : Fate(h) \in {"elsewhere", "kernel", "none"}
    /\ \A h \in Foreign : up = "isolated" => Fate(h) # "none"
    /\ \A h \in Foreign : up = "groups" /\ h.dst \in KernelGroups => Fate(h) = "kernel"

\* A receiver that keeps running ends up with every group forwarded, though the reports of
\* its start are lost.
Reached == \A c \in Chans : up # "down" /\ c \in Joined ~> up = "down" \/ c \in heard
=============================================================================
