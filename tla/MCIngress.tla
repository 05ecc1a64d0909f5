----------------------------- MODULE MCIngress -----------------------------
(* Instance of Ingress: groups 9 and 13 share a multicast MAC, 12 is PTP's, *)
(* host 1 is the receive port, 2 the peer and 3 another sender.             *)
EXTENDS Ingress

Off == [port |-> 0, group |-> 0, src |-> 2, ssm |-> 0]
Stream(port, group, ssm) == [port |-> port, group |-> group, src |-> 2, ssm |-> ssm]
Both(video, audio) == [c \in Chans |-> IF c = "video" THEN video ELSE audio]

\* One port for both streams, two ports on one group, source filters, groups with the
\* same MAC, video alone, and video on the address of the receive port.
ConfigsDef ==
  {Both(Stream(1, 9, 2), Stream(1, 10, 0)), Both(Stream(1, 9, 0), Stream(2, 9, 2)),
   Both(Stream(1, 9, 0), Stream(1, 13, 2)), Both(Stream(1, 13, 0), Off),
   Both(Stream(1, 0, 0), Off)}

Frame(src, dst, port) ==
  [mac |-> IF dst >= MulticastBase THEN <<"group", dst % MacSpace>> ELSE <<"host", dst>>,
   len |-> 1, src |-> src, dst |-> dst, port |-> port]

\* PTP, a login to the host, a group with another one's MAC, a group of its own.
ForeignDef == {Frame(3, 12, 3), Frame(3, 1, 4), Frame(3, 13, 4), Frame(3, 10, 4)}

LensDef == [c \in Chans |-> IF c = "video" THEN {1, 2} ELSE {2}]
LeapsDef == {-2, 1}

\* The theorem about the places of packets speaks of this instance.
ASSUME InstanceApart == StreamsApart
=============================================================================
