------------------------------ MODULE Routing ------------------------------
(***************************************************************************)
(* The routing panel of the web page (src/web/app.js): senders of other    *)
(* nodes are connected to our receivers and our sender to receivers of     *)
(* other nodes.  All requests go through the /api/nmos forwarder of the    *)
(* daemon (src/control/daemon.cpp), whose HTTP client reads a reply in     *)
(* pieces until it takes it for complete.  A panel is drawn from what a    *)
(* registry said when it was asked; every operation runs beside the        *)
(* periodic refresh and beside the others.                                 *)
(*                                                                         *)
(* A reply is a sequence of tokens: the header, Lf for a line end, sizes   *)
(* of chunks and pieces of the body.                                       *)
(***************************************************************************)
EXTENDS Integers, SequencesExt, FiniteSets

CONSTANTS Others,     \* senders of other nodes
          Dests,      \* receivers of other nodes
          KindOf,     \* "video", "audio", or "" when the flow is not resolved
          File,       \* the SDP each sender serves; ours too
          FramedBy,   \* how its server frames the reply
          ListedBy,   \* the senders each discovery source lists
          MaxOps, MaxPresses, MaxRefreshes, MaxTroubles

Ours    == "ours"          \* our sender
Kinds   == {"video", "audio"}
Targets == Kinds \cup Dests   \* our receivers, by kind, and the others
Slots   == 1 .. MaxOps

ASSUME RoutingAssumption ==
  /\ Ours \notin Others /\ Dests \cap Kinds = {}
  /\ FramedBy \in [Others \cup {Ours} -> {"length", "chunked", "close"}]
  /\ \A s \in Others \cup {Ours} : File[s] \in Seq(ToSet(File[s]))
  /\ ListedBy \in [{"registry", "p2p"} -> SUBSET Others]
  /\ {MaxOps, MaxPresses, MaxRefreshes, MaxTroubles} \subseteq Nat

\* No chunked body has a line that looks like the end chunk.
NoEndInside ==
  \A s \in Others \cup {Ours} : FramedBy[s] = "chunked" => "0" \notin ToSet(File[s])

VARIABLES
  route,      \* at the nodes: what each receiver was told last
  reg,        \* the registry's copy of it
  via,        \* the page: which discovery source it reads
  drawn,      \* the panel as drawn last
  refreshes,  \* refreshes under way
  ops,        \* operations under way
  presses, troubles
nodes     == <<route, reg>>
routeVars == <<nodes, via, drawn, refreshes, ops, presses, troubles>>

Unrouted == [sender |-> "", sdp |-> <<>>, active |-> FALSE, cut |-> FALSE]
NoOp     == [pc |-> "idle", target |-> "", sender |-> "", reply |-> <<>>,
             got |-> 0, hops |-> 2, sdp |-> <<>>, cut |-> FALSE]
-----------------------------------------------------------------------------
(* A reply on the wire *)

Lf   == "crlf"
Header == <<"header", Lf, Lf>>
ChunkSizes == <<"1", "2">>   \* as written, of one token and of two
Size(t) == CASE t = "1" -> 1 [] t = "2" -> 2 [] OTHER -> 0   \* strtoul
Chunk(d) == <<ChunkSizes[Len(d)], Lf>> \o d \o <<Lf>>

\* Chunked bodies are sent token by token or in one chunk.
Replies(framing, body) ==
  IF framing # "chunked" THEN {Header \o body}
  ELSE LET end == <<"0", Lf, Lf>>
       IN  {Header \o FlattenSeq([i \in DOMAIN body |-> Chunk(<<body[i]>>)]) \o end}
             \cup (IF Len(body) = 2 THEN {Header \o Chunk(body) \o end} ELSE {})

HeadSeen(raw) == Len(raw) >= Len(Header)

BugComplete(framing, raw, want) ==  \* a bug: the end chunk is sought after the header only
  /\ HeadSeen(raw)
  /\ CASE framing = "chunked" ->
            \E i \in Len(Header) + 1 .. Len(raw) - 2 : SubSeq(raw, i, i + 2) = <<Lf, "0", Lf>>
       [] framing = "length" -> Len(raw) - Len(Header) >= want
       [] OTHER -> FALSE
BugShort(framing, raw, want) ==  \* a bug: the blank line counts as body
  /\ HeadSeen(raw)
  /\ CASE framing = "chunked" ->
            \E i \in Len(Header) .. Len(raw) - 2 : SubSeq(raw, i, i + 2) = <<Lf, "0", Lf>>
       [] framing = "length" -> Len(raw) - Len(Header) + 1 >= want
       [] OTHER -> FALSE
\* What is read is complete: the end chunk, whose line end may be that of the
\* header, or the announced length.
Complete(framing, raw, want) ==
  /\ HeadSeen(raw)
  /\ CASE framing = "chunked" ->
            \E i \in Len(Header) .. Len(raw) - 2 : SubSeq(raw, i, i + 2) = <<Lf, "0", Lf>>
       [] framing = "length" -> Len(raw) - Len(Header) >= want
       [] OTHER -> FALSE

\* The body of what was read, without its chunks.
BodyRead(framing, raw) ==
  LET body == SubSeq(raw, Len(Header) + 1, Len(raw))
      dechunk[p \in 1 .. Len(body) + 4] ==
        IF p >= Len(body) \/ body[p + 1] # Lf \/ Size(body[p]) = 0 THEN <<>>
        ELSE LET last == p + 1 + Size(body[p])
             IN  SubSeq(body, p + 2, IF last < Len(body) THEN last ELSE Len(body))
                   \o (IF last + 2 <= Len(body) + 4 THEN dechunk[last + 2] ELSE <<>>)
  IN  IF framing = "chunked" THEN dechunk[1] ELSE body
-----------------------------------------------------------------------------
RouteInit ==
  /\ route = [t \in Targets |-> Unrouted] /\ reg = route
  /\ via = "registry"
  /\ drawn = [routed |-> {}, sources |-> {}, fed |-> {}, dests |-> {}]
  /\ refreshes = {} /\ ops = [o \in Slots |-> NoOp]
  /\ presses = 0 /\ troubles = 0

Press   == presses < MaxPresses /\ presses' = presses + 1
Trouble == troubles < MaxTroubles /\ troubles' = troubles + 1

(* Drawing the panel *)

\* The lists are asked for: the registry's, and our own receivers and sender,
\* either of which may fail and then counts as none.
Refresh ==
  /\ Cardinality(refreshes) < MaxRefreshes
  /\ \E rx, snd \in BOOLEAN :
       /\ IF rx /\ snd THEN UNCHANGED troubles ELSE Trouble
       /\ refreshes' = refreshes \cup
            {[from |-> via, subs |-> reg, rx |-> IF rx THEN Kinds ELSE {}, snd |-> snd]}
  /\ UNCHANGED <<nodes, via, drawn, ops, presses>>

\* The receivers of a list that take the sender they name.
Subscribed(subs, s) == {t \in Targets : subs[t].active /\ subs[t].sender = s}

BugDraw(v) ==  \* a bug: a released receiver still counts as routed
  [ sources |-> ListedBy[v.from],
    routed  |-> {s \in ListedBy[v.from] : KindOf[s] \in Kinds /\ \E t \in v.rx : v.subs[t].sender = s},
    dests   |-> IF v.snd THEN Targets \ v.rx ELSE {},
    fed     |-> IF v.snd THEN Subscribed(v.subs, Ours) \ v.rx ELSE {} ]
\* loadSources: sources with a Connect or Disconnect button, destinations with
\* a Send or Release button; what a failed list leaves out is not known as ours.
Draw(v) ==
  [ sources |-> ListedBy[v.from],
    routed  |-> {s \in ListedBy[v.from] : KindOf[s] \in Kinds /\ Subscribed(v.subs, s) \cap v.rx # {}},
    dests   |-> IF v.snd THEN Targets \ v.rx ELSE {},
    fed     |-> IF v.snd THEN Subscribed(v.subs, Ours) \ v.rx ELSE {} ]

Drawn ==
  \E v \in refreshes :
    /\ refreshes' = refreshes \ {v}
    /\ drawn' = Draw(v)
    /\ UNCHANGED <<nodes, via, ops, presses, troubles>>

\* The registry is not reached: the panel is emptied.
NothingDrawn ==
  /\ Trouble
  /\ drawn' = [x \in DOMAIN drawn |-> {}]
  /\ UNCHANGED <<nodes, via, refreshes, ops, presses>>

\* The registry learns what the nodes were told.
RegistryFollows ==
  /\ reg # route /\ reg' = route
  /\ UNCHANGED <<route, via, drawn, refreshes, ops, presses, troubles>>

\* The box for discovery without a registry.
SwitchSource ==
  /\ Press
  /\ via' = IF via = "registry" THEN "p2p" ELSE "registry"
  /\ UNCHANGED <<nodes, drawn, refreshes, ops, troubles>>

-----------------------------------------------------------------------------
(* The buttons *)

Begin(op) ==
  /\ Press
  /\ \E o \in Slots : ops[o].pc = "idle" /\ ops' = [ops EXCEPT ![o] = op]
  /\ UNCHANGED <<nodes, via, drawn, refreshes, troubles>>

ConnectSource ==
  \E s \in drawn.sources \ drawn.routed :
    KindOf[s] \in Kinds /\ Begin([NoOp EXCEPT !.pc = "lists", !.target = KindOf[s], !.sender = s])

ConnectDest ==
  \E t \in drawn.dests \ drawn.fed :
    Begin([NoOp EXCEPT !.pc = "lists", !.target = t, !.sender = Ours])

\* Disconnect names our receiver of the sender's kind, Release the destination.
Disconnect ==
  \E t \in {KindOf[s] : s \in drawn.routed} \cup drawn.fed :
    Begin([NoOp EXCEPT !.pc = "patch", !.target = t])

Go(o, op) ==
  /\ ops' = [ops EXCEPT ![o] = op]
  /\ UNCHANGED <<nodes, via, drawn, refreshes, presses>>

\* The sender is looked up again, in the source of now, and its SDP asked for;
\* an unknown sender has none.
ListsRead(o) ==
  LET op == ops[o]
  IN  /\ op.pc = "lists" /\ UNCHANGED troubles
      /\ IF op.sender \in ListedBy[via] \cup {Ours}
         THEN \E r \in Replies(FramedBy[op.sender], File[op.sender]) :
                Go(o, [op EXCEPT !.pc = "sdp", !.reply = r])
         ELSE Go(o, NoOp)

Raw(op)  == SubSeq(op.reply, 1, op.got)
Whole(op) == Complete(FramedBy[op.sender], Raw(op), Len(File[op.sender]))

\* recv(): some more of the reply.
Receive(o) ==
  LET op == ops[o]
  IN  /\ op.pc = "sdp" /\ ~Whole(op) /\ UNCHANGED troubles
      /\ \E n \in op.got + 1 .. Len(op.reply) : Go(o, [op EXCEPT !.got = n])

\* The page takes what starts like an SDP, and nothing else.
Answer(o, op, body) ==
  IF body # <<>> /\ body[1] = "v=" THEN Go(o, [op EXCEPT !.pc = "patch", !.sdp = body])
  ELSE Go(o, NoOp)

\* The reply is complete, or the server closes the connection behind it.
ReplyRead(o) ==
  LET op == ops[o]
  IN  /\ op.pc = "sdp" /\ UNCHANGED troubles
      /\ Whole(op) \/ op.got = Len(op.reply)
      /\ Answer(o, op, BodyRead(FramedBy[op.sender], Raw(op)))

\* The server closes too early: what was read passes for the reply.
BreaksOff(o) ==
  LET op == ops[o]
  IN  /\ op.pc = "sdp" /\ ~Whole(op) /\ op.got < Len(op.reply) /\ Trouble
      /\ IF HeadSeen(Raw(op)) THEN Answer(o, [op EXCEPT !.cut = TRUE], BodyRead(FramedBy[op.sender], Raw(op)))
         ELSE Go(o, NoOp)

\* A redirect is followed twice at most.
Redirected(o) ==
  LET op == ops[o]
  IN  /\ op.pc = "sdp" /\ op.got = 0 /\ Trouble
      /\ IF op.hops > 0 THEN Go(o, [op EXCEPT !.hops = @ - 1]) ELSE Go(o, NoOp)

\* A request fails, or a server that has not sent all is silent for 4 s, or
\* one whose reply has no end holds the connection: the button is back.
Fails(o) ==
  LET op == ops[o]
  IN  /\ op.pc # "idle"
      /\ IF op.pc = "sdp" /\ op.got = Len(op.reply) /\ ~Whole(op) THEN UNCHANGED troubles
         ELSE Trouble
      /\ Go(o, NoOp)

\* PATCH .../staged is activated at once; its answer may be lost.
Patched(o) ==
  LET op == ops[o]
  IN  /\ op.pc = "patch"
      /\ route' = [route EXCEPT ![op.target] =
           IF op.sender = "" THEN [@ EXCEPT !.active = FALSE]
           ELSE [sender |-> op.sender, sdp |-> op.sdp, active |-> TRUE, cut |-> op.cut]]
      /\ ops' = [ops EXCEPT ![o] = NoOp]
      /\ UNCHANGED <<reg, via, drawn, refreshes, presses, troubles>>

OpStep(o) == ListsRead(o) \/ Receive(o) \/ ReplyRead(o) \/ Patched(o)

RouteNext ==
  \/ Refresh \/ Drawn \/ NothingDrawn \/ RegistryFollows \/ SwitchSource
  \/ ConnectSource \/ ConnectDest \/ Disconnect
  \/ \E o \in Slots : OpStep(o) \/ BreaksOff(o) \/ Redirected(o) \/ Fails(o)

-----------------------------------------------------------------------------
(* Properties *)

\* A receiver is given the whole SDP of the sender it is told to take, in
\* whatever pieces the reply came, unless the server broke off its reply.
HandedOver ==
  \A t \in Targets :
    route[t].active => route[t].cut \/ route[t].sdp = File[route[t].sender]

\* A reply that says where it ends is answered once all of it is there, also
\* when the server holds the connection open.
AnswerSeen ==
  \A o \in Slots :
    (ops[o].pc = "sdp" /\ ops[o].got = Len(ops[o].reply) /\ FramedBy[ops[o].sender] # "close") => Whole(ops[o])

\* No part of a reply is missed.
RepliesRight == HandedOver /\ AnswerSeen

\* Once nobody presses a button any more, the panel comes to show what the
\* receivers were told, and stays with it.
PanelSettles ==
  <>[]( /\ drawn.routed = {s \in ListedBy[via] : Subscribed(route, s) \cap Kinds # {}}
        /\ drawn.fed = Subscribed(route, Ours) \ Kinds )
=============================================================================
