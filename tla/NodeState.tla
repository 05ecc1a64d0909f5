------------------------------ MODULE NodeState ------------------------------
(***************************************************************************)
(* What the NMOS node advertises (control/nmos/spark_node.cpp): the video  *)
(* flow, the PTP clock, and the transport file (the SDP) of each sender.   *)
(* Two threads write them under the model's lock.  An IS-05 activation     *)
(* resolves the sender's destination and writes a transport file from the  *)
(* flow and the clock as they are.  NodeStateSync reads the daemon's       *)
(* status every three seconds and, with what it read by then, updates the  *)
(* flow, the clock and the transport files that this makes stale.          *)
(*                                                                         *)
(* An operator Bug... is a wrong variant of the operator after it.         *)
(***************************************************************************)
EXTENDS Integers

CONSTANTS Sizes,       \* output sizes of the daemon's configuration
          NoSize,      \* width or height 0: not configured
          Rates,       \* rates of a connected source
          NoRate,      \* inExactframerate empty: no source
          BaseRate,    \* rates::rate59_94
          FrcModes,    \* frcMode: 0 off, 1 retime, 2 up-convert, 3 uniform grid
          SeedFormat,  \* the flow as insert_spark_resources makes it
          Masters,     \* PTP grandmasters
          NoMaster,    \* pmc has not answered
          SeedMaster,  \* the clock as insert_spark_resources makes it
          Destinations, \* multicast destinations
          AutoDest,    \* "auto", not resolved yet
          NoFile,      \* no transport file
          NoRead,      \* no answer at hand
          MaxChanges,  \* bound: changes of the daemon's state
          MaxMishaps    \* bound: requests that fail, restarts of the node

Senders == {"video", "audio"}
Formats == [size : Sizes, rate : Nat]
Statuses == [size : Sizes \cup {NoSize}, in : Rates \cup {NoRate}, frc : FrcModes,
             ip10 : BOOLEAN, gm : Masters \cup {NoMaster}]
Files == [fmt : Formats, gm : Masters, ip10 : BOOLEAN, group : Destinations]

ASSUME NodeAssumption ==
  /\ Rates \subseteq Nat /\ FrcModes \subseteq 0..3 /\ BaseRate \in Nat /\ NoRate \notin Rates
  /\ SeedFormat \in Formats /\ SeedMaster \in Masters
  /\ NoSize \notin Sizes /\ NoMaster \notin Masters /\ AutoDest \notin Destinations
  /\ NoFile \notin Files
  /\ MaxChanges \in Nat /\ MaxMishaps \in Nat

VARIABLES status,   \* what GET /api/status says: config and ptpGmid
          inserted, \* insert_spark_resources has run
          flow,     \* frame_width, frame_height and grain_rate of flow_v
          clk,      \* gmid of clk0
          dest,     \* active destination_ip of each sender
          file,     \* endpoint_transportfile of each sender
          ip10,     \* ip10_
          sdpDirty, \* the senders with ..._sdp_dirty_
          read,     \* the status the thread has fetched
          pc,       \* NodeStateSync: "wait" or "apply"
          changes, mishaps

nodeVars == <<inserted, flow, clk, dest, file>>
syncVars == <<ip10, sdpDirty, read, pc>>
vars == <<status, nodeVars, syncVars, changes, mishaps>>

NoFiles == [s \in Senders |-> NoFile]
Unresolved == [s \in Senders |-> AutoDest]

Init ==
  /\ status \in Statuses
  /\ inserted = FALSE /\ flow = SeedFormat /\ clk = SeedMaster
  /\ dest = Unresolved /\ file = NoFiles
  /\ ip10 = FALSE /\ sdpDirty = {} /\ read = NoRead /\ pc = "wait"
  /\ changes = 0 /\ mishaps = 0
-----------------------------------------------------------------------------
(* The node *)

Insert ==
  /\ ~inserted /\ inserted' = TRUE
  /\ UNCHANGED <<status, flow, clk, dest, file, syncVars, changes, mishaps>>

\* build_sender_transportfile.
Build(s, codec, fl, gm, to) ==
  [fmt |-> fl, gm |-> gm, ip10 |-> codec /\ s = "video", group |-> to]

\* The library's activation: the destination (resolved if it was auto), then the
\* transport file from the setter, raw whatever ip10_ is.
Activate(s, g) ==
  /\ inserted
  /\ dest' = [dest EXCEPT ![s] = g]
  /\ file' = [file EXCEPT ![s] = Build(s, FALSE, flow, clk, g)]
  /\ UNCHANGED <<status, inserted, flow, clk, syncVars, changes, mishaps>>

-----------------------------------------------------------------------------
(* NodeStateSync *)

OutputRate(in, frc) ==
  LET base == IF in = NoRate THEN BaseRate ELSE in
  IN  IF frc \in {2, 3} THEN 2 * base ELSE base

\* sync_once() gets an answer, and the daemon's output is configured.
Fetch ==
  /\ pc = "wait" /\ status.size # NoSize
  /\ read' = status /\ pc' = "apply"
  /\ UNCHANGED <<status, nodeVars, ip10, sdpDirty, changes, mishaps>>

\* a bug: an exception ends the thread.
BugAfterError == "ended"
\* run() catches the exception and waits again.
AfterError == "wait"

FetchFails ==
  /\ pc = "wait" /\ mishaps < MaxMishaps
  /\ mishaps' = mishaps + 1 /\ pc' = AfterError
  /\ UNCHANGED <<status, nodeVars, ip10, sdpDirty, read, changes>>

\* a bug: the grandmaster is part of the video file only.
BugStale(newFlow, newClk, codec) ==
  IF newFlow \/ codec \/ newClk THEN {"video"} ELSE {}
\* The senders whose file a change touches.
Stale(newFlow, newClk, codec) ==
  (IF newFlow \/ codec \/ newClk THEN {"video"} ELSE {})
    \cup (IF newClk THEN {"audio"} ELSE {})

\* apply(), under the write lock: flow, clock and ip10_, and the files that are
\* dirty and whose destination is resolved.
Apply ==
  LET fmt     == [size |-> read.size, rate |-> OutputRate(read.in, read.frc)]
      newClk  == read.gm # NoMaster /\ read.gm # clk
      gm      == IF newClk THEN read.gm ELSE clk
      stale   == sdpDirty \cup Stale(flow # fmt, newClk, read.ip10 # ip10)
      rebuilt == {s \in stale : dest[s] # AutoDest}
  IN  /\ pc = "apply" /\ inserted
      /\ flow' = fmt /\ clk' = gm /\ ip10' = read.ip10
      /\ file' = [s \in Senders |-> IF s \in rebuilt
                                    THEN Build(s, read.ip10, fmt, gm, dest[s]) ELSE file[s]]
      /\ sdpDirty' = stale \ rebuilt
      /\ pc' = "wait" /\ read' = NoRead
      /\ UNCHANGED <<status, inserted, dest, changes, mishaps>>

\* apply() before the resources are there.
ApplyEarly ==
  /\ pc = "apply" /\ ~inserted
  /\ pc' = "wait" /\ read' = NoRead
  /\ UNCHANGED <<status, nodeVars, ip10, sdpDirty, changes, mishaps>>

-----------------------------------------------------------------------------
(* The daemon, and a restart of the node *)

\* SetConfig, a restart of the daemon, another grandmaster, pmc silent.
DaemonChanges ==
  /\ changes < MaxChanges /\ changes' = changes + 1
  /\ status' \in Statuses \ {status}
  /\ UNCHANGED <<nodeVars, syncVars, mishaps>>

NodeRestarts ==
  /\ mishaps < MaxMishaps /\ mishaps' = mishaps + 1
  /\ inserted' = FALSE /\ flow' = SeedFormat /\ clk' = SeedMaster
  /\ dest' = Unresolved /\ file' = NoFiles
  /\ ip10' = FALSE /\ sdpDirty' = {} /\ read' = NoRead /\ pc' = "wait"
  /\ UNCHANGED <<status, changes>>

Next ==
  \/ Insert \/ \E s \in Senders, g \in Destinations : Activate(s, g)
  \/ Fetch \/ FetchFails \/ Apply \/ ApplyEarly
  \/ DaemonChanges \/ NodeRestarts

Spec == Init /\ [][Next]_vars

\* The thread goes on polling, and the node comes up.  Nobody has to activate.
FairSpec == Spec /\ WF_vars(Insert) /\ WF_vars(Fetch) /\ WF_vars(Apply \/ ApplyEarly)
-----------------------------------------------------------------------------
TypeOK ==
  /\ status \in Statuses /\ read \in Statuses \cup {NoRead}
  /\ pc = "apply" => read \in Statuses
  /\ inserted \in BOOLEAN /\ ip10 \in BOOLEAN /\ sdpDirty \subseteq Senders
  /\ flow \in Formats /\ clk \in Masters
  /\ dest \in [Senders -> Destinations \cup {AutoDest}]
  /\ file \in [Senders -> Files \cup {NoFile}]
  /\ pc \in {"wait", "apply"}
  /\ changes \in 0..MaxChanges /\ mishaps \in 0..MaxMishaps

\* A sender that is not marked dirty has a transport file that agrees with the
\* flow, the clock and the destination the node itself advertises, whichever of
\* the two threads wrote it last (apply() 712-744, the setter 254-260).
CleanMeansCurrent ==
  \A s \in Senders : (s \notin sdpDirty /\ file[s] # NoFile) =>
    /\ file[s].group = dest[s] /\ file[s].gm = clk
    /\ s = "video" => file[s].fmt = flow

\* "keep the node's advertised state in step with reality" (lines 650-655): once
\* the daemon stops changing, flow, clock and every file an activation has ever
\* made show its size, its rate and its grandmaster, for ever.
Mirrored ==
  /\ status.size # NoSize =>
       flow = [size |-> status.size, rate |-> OutputRate(status.in, status.frc)]
  /\ (status.size # NoSize /\ status.gm # NoMaster) => clk = status.gm
  /\ \A s \in Senders : file[s] # NoFile =>
       /\ file[s].gm = clk
       /\ s = "video" => file[s].fmt = flow
SettlesOnDaemon == <>[]Mirrored
=============================================================================
