--------------------------- MODULE ConfigProof ---------------------------
(***************************************************************************)
(* Proofs about a configuration on its way from the page to the engine and *)
(* to the receivers: NodeState (what the node advertises), Dashboard (the  *)
(* edits of the page and what its panel shows), EnginePlan (what compose() *)
(* makes of it) and Routing (the SDP a receiver is given).                 *)
(***************************************************************************)
EXTENDS NodeState, Dashboard, EnginePlan, Routing, SequenceTheorems, FiniteSetTheorems,
        WellFoundedInduction, TLAPS

(* NodeState.  For every set of output sizes, rates, FRC modes,            *)
(* grandmasters and destinations.  That a clean transport file is current  *)
(* is not inductive alone: an update rebuilds only the files whose         *)
(* destination is resolved, so a file must never exist without one.        *)

\* A transport file is made with a resolved destination.
FileHasDest == \A s \in Senders : file[s] # NoFile => dest[s] # AutoDest

\* What the thread read is of a configured daemon.
ReadConfigured == pc = "apply" => read \in Statuses /\ read.size # NoSize

IInv == TypeOK /\ CleanMeansCurrent /\ FileHasDest /\ ReadConfigured
-----------------------------------------------------------------------------
\* The flow the daemon's status asks for is a flow.
LEMMA FormatType ==
  ASSUME NEW st \in Statuses, st.size # NoSize
  PROVE  [size |-> st.size, rate |-> OutputRate(st.in, st.frc)] \in Formats
<1>1. st.size \in Sizes /\ st.in \in Rates \cup {NoRate}
  BY DEF Statuses
<1>2. OutputRate(st.in, st.frc) \in Nat
  <2> DEFINE base == IF st.in = NoRate THEN BaseRate ELSE st.in
  <2>1. base \in Nat
    BY <1>1, NodeAssumption
  <2>2. OutputRate(st.in, st.frc) = 2 * base \/ OutputRate(st.in, st.frc) = base
    BY DEF OutputRate
  <2> HIDE DEF base
  <2> QED
    BY <2>1, <2>2
<1> QED
  BY <1>1, <1>2 DEF Formats

\* A transport file is made of a flow, a clock and a destination.
LEMMA BuildType ==
  ASSUME NEW s \in Senders, NEW codec \in BOOLEAN, NEW fl \in Formats, NEW gm \in Masters,
         NEW to \in Destinations
  PROVE  /\ Build(s, codec, fl, gm, to) \in Files /\ Build(s, codec, fl, gm, to) # NoFile
         /\ Build(s, codec, fl, gm, to).group = to /\ Build(s, codec, fl, gm, to).gm = gm
         /\ Build(s, codec, fl, gm, to).fmt = fl
<1>1. (codec /\ s = "video") \in BOOLEAN
  OBVIOUS
<1>2. Build(s, codec, fl, gm, to) \in Files
  BY <1>1, Zenon DEF Build, Files
<1> QED
  BY <1>2, NodeAssumption DEF Build

\* A node that has just started.
LEMMA FreshNode ==
  /\ Unresolved \in [Senders -> Destinations \cup {AutoDest}]
  /\ NoFiles \in [Senders -> Files \cup {NoFile}] /\ \A s \in Senders : NoFiles[s] = NoFile
  /\ SeedFormat \in Formats /\ SeedMaster \in Masters /\ FALSE \in BOOLEAN
  /\ 0 \in 0 .. MaxChanges /\ 0 \in 0 .. MaxMishaps
<1>1. Unresolved \in [Senders -> Destinations \cup {AutoDest}]
  BY Zenon DEF Unresolved
<1>2. NoFiles \in [Senders -> Files \cup {NoFile}] /\ \A s \in Senders : NoFiles[s] = NoFile
  BY Zenon DEF NoFiles
<1>3. SeedFormat \in Formats /\ SeedMaster \in Masters /\ MaxChanges \in Nat /\ MaxMishaps \in Nat
  BY NodeAssumption, Zenon
<1> QED
  BY <1>1, <1>2, <1>3

LEMMA InitIInv == Init => IInv
<1> SUFFICES ASSUME Init PROVE IInv
  OBVIOUS
<1>1. TypeOK
  BY FreshNode, Zenon DEF Init, TypeOK
<1>2. CleanMeansCurrent /\ FileHasDest /\ ReadConfigured
  BY FreshNode DEF Init, CleanMeansCurrent, FileHasDest, ReadConfigured
<1> QED
  BY <1>1, <1>2 DEF IInv

LEMMA NextIInv == IInv /\ [Next]_vars => IInv'
<1> SUFFICES ASSUME IInv, [Next]_vars PROVE IInv'
  OBVIOUS
<1> USE DEF nodeVars, syncVars
<1>i. TypeOK /\ CleanMeansCurrent /\ FileHasDest /\ ReadConfigured
  BY DEF IInv
<1>t. /\ flow \in Formats /\ clk \in Masters /\ sdpDirty \subseteq Senders
      /\ dest \in [Senders -> Destinations \cup {AutoDest}]
      /\ file \in [Senders -> Files \cup {NoFile}]
  BY <1>i, Zenon DEF TypeOK
<1>1. CASE Insert
  BY <1>1, <1>i DEF Insert, IInv, TypeOK, CleanMeansCurrent, FileHasDest, ReadConfigured
<1>2. ASSUME NEW s \in Senders, NEW g \in Destinations, Activate(s, g) PROVE IInv'
  <2> DEFINE made == Build(s, FALSE, flow, clk, g)
  <2>1. made \in Files /\ made # NoFile /\ made.group = g /\ made.gm = clk /\ made.fmt = flow
    <3>1. (FALSE /\ s = "video") \in BOOLEAN
      OBVIOUS
    <3>2. made \in Files
      BY <1>t, <3>1, Zenon DEF Build, Files
    <3> QED
      BY <3>2, NodeAssumption DEF Build
  <2>2. /\ dest' = [dest EXCEPT ![s] = g] /\ file' = [file EXCEPT ![s] = made]
        /\ UNCHANGED <<status, inserted, flow, clk, syncVars, changes, mishaps>>
    BY <1>2 DEF Activate
  <2> HIDE DEF made
  <2>3. TypeOK'
    <3>1. dest' \in [Senders -> Destinations \cup {AutoDest}] /\ file' \in [Senders -> Files \cup {NoFile}]
      BY <1>t, <2>1, <2>2
    <3> QED
      BY <1>i, <2>2, <3>1, Zenon DEF TypeOK
  <2>4. \A t \in Senders : dest'[t] = (IF t = s THEN g ELSE dest[t])
                           /\ file'[t] = (IF t = s THEN made ELSE file[t])
    BY <1>t, <2>2
  <2>5. g # AutoDest
    BY NodeAssumption, Zenon
  <2>6. UNCHANGED <<flow, clk, sdpDirty, read, pc>>
    BY <2>2
  <2>7. CleanMeansCurrent'
    BY <1>i, <2>1, <2>4, <2>6 DEF CleanMeansCurrent
  <2>8. FileHasDest'
    BY <1>i, <2>4, <2>5 DEF FileHasDest
  <2>9. ReadConfigured'
    BY <1>i, <2>6 DEF ReadConfigured
  <2> QED
    BY <2>3, <2>7, <2>8, <2>9 DEF IInv
<1>3. CASE Fetch
  BY <1>3, <1>i DEF Fetch, IInv, TypeOK, CleanMeansCurrent, FileHasDest, ReadConfigured
<1>4. CASE FetchFails
  <2>1. mishaps' \in 0 .. MaxMishaps
    BY <1>4, <1>i, NodeAssumption DEF FetchFails, TypeOK
  <2>2. pc' = "wait" /\ UNCHANGED <<status, nodeVars, ip10, sdpDirty, read, changes>>
    BY <1>4 DEF FetchFails, AfterError
  <2> QED
    BY <1>i, <2>1, <2>2, Zenon DEF IInv, TypeOK, CleanMeansCurrent, FileHasDest, ReadConfigured
<1>5. CASE Apply
  <2> DEFINE fmt == [size |-> read.size, rate |-> OutputRate(read.in, read.frc)]
             newClk == read.gm # NoMaster /\ read.gm # clk
             gm == IF newClk THEN read.gm ELSE clk
             stale == sdpDirty \cup Stale(flow # fmt, newClk, read.ip10 # ip10)
             rebuilt == {s \in stale : dest[s] # AutoDest}
             made(s) == Build(s, read.ip10, fmt, gm, dest[s])
  <2>1. /\ pc' = "wait" /\ read' = NoRead /\ flow' = fmt /\ clk' = gm /\ ip10' = read.ip10
        /\ file' = [s \in Senders |-> IF s \in rebuilt THEN made(s) ELSE file[s]]
        /\ sdpDirty' = stale \ rebuilt
        /\ UNCHANGED <<status, inserted, dest, changes, mishaps>>
    BY <1>5 DEF Apply
  <2>2. read \in Statuses /\ read.size # NoSize
    BY <1>5, <1>i DEF Apply, ReadConfigured
  <2>3. fmt \in Formats /\ gm \in Masters /\ read.ip10 \in BOOLEAN
    <3>1. fmt \in Formats
      BY <2>2, FormatType
    <3>2. read.gm \in Masters \cup {NoMaster} /\ read.ip10 \in BOOLEAN
      BY <2>2 DEF Statuses
    <3> QED
      BY <1>t, <3>1, <3>2
  <2>4. stale \subseteq Senders
    BY <1>t DEF Stale, Senders
  <2>5. \A s \in Senders : s \notin stale => s \notin sdpDirty /\ gm = clk /\ (s = "video" => flow = fmt)
    BY DEF Stale, Senders
  <2> HIDE DEF fmt, newClk, gm, stale
  <2>6. \A s \in rebuilt : /\ s \in Senders /\ made(s) \in Files
                           /\ made(s).group = dest[s] /\ made(s).gm = gm /\ made(s).fmt = fmt
    <3> SUFFICES ASSUME NEW s \in rebuilt
                 PROVE /\ s \in Senders /\ made(s) \in Files
                       /\ made(s).group = dest[s] /\ made(s).gm = gm /\ made(s).fmt = fmt
      OBVIOUS
    <3>1. s \in Senders /\ dest[s] # AutoDest
      BY <2>4
    <3>2. dest[s] \in Destinations
      BY <1>t, <3>1
    <3> QED
      BY <2>3, <3>1, <3>2, BuildType
  <2> HIDE DEF made
  <2>7. \A s \in Senders : file'[s] = IF s \in rebuilt THEN made(s) ELSE file[s]
    BY <2>1
  <2>8. file' \in [Senders -> Files \cup {NoFile}]
    BY <1>t, <2>1, <2>6
  <2>9. TypeOK'
    <3>1. sdpDirty' \subseteq Senders
      BY <2>1, <2>4
    <3> QED
      BY <1>i, <2>1, <2>3, <2>8, <3>1, Zenon DEF TypeOK
  <2>10. CleanMeansCurrent'
    <3> SUFFICES ASSUME NEW s \in Senders, s \notin sdpDirty', file'[s] # NoFile
                 PROVE  /\ file'[s].group = dest[s] /\ file'[s].gm = gm
                        /\ s = "video" => file'[s].fmt = fmt
      BY <2>1 DEF CleanMeansCurrent
    <3>1. CASE s \in rebuilt
      BY <2>6, <2>7, <3>1
    <3>2. CASE s \notin rebuilt
      <4>1. s \notin stale
        BY <2>1, <3>2
      <4> QED
        BY <1>i, <2>5, <2>7, <3>2, <4>1 DEF CleanMeansCurrent
    <3> QED
      BY <3>1, <3>2
  <2>11. FileHasDest'
    BY <1>i, <2>1, <2>7 DEF FileHasDest
  <2>12. ReadConfigured'
    BY <2>1 DEF ReadConfigured
  <2> QED
    BY <2>9, <2>10, <2>11, <2>12 DEF IInv
<1>6. CASE ApplyEarly
  BY <1>6, <1>i DEF ApplyEarly, IInv, TypeOK, CleanMeansCurrent, FileHasDest, ReadConfigured
<1>7. CASE DaemonChanges
  <2>1. changes' \in 0 .. MaxChanges
    BY <1>7, <1>i, NodeAssumption DEF DaemonChanges, TypeOK
  <2>2. status' \in Statuses /\ UNCHANGED <<nodeVars, syncVars, mishaps>>
    BY <1>7 DEF DaemonChanges
  <2> QED
    BY <1>i, <2>1, <2>2, Zenon DEF IInv, TypeOK, CleanMeansCurrent, FileHasDest, ReadConfigured
<1>8. CASE NodeRestarts
  <2>1. mishaps' \in 0 .. MaxMishaps
    BY <1>8, <1>i, NodeAssumption DEF NodeRestarts, TypeOK
  <2>2. TypeOK'
    BY <1>8, <1>i, <2>1, FreshNode, Zenon DEF NodeRestarts, TypeOK
  <2>3. CleanMeansCurrent' /\ FileHasDest' /\ ReadConfigured'
    BY <1>8, FreshNode DEF NodeRestarts, CleanMeansCurrent, FileHasDest, ReadConfigured
  <2> QED
    BY <2>2, <2>3 DEF IInv
<1>9. CASE UNCHANGED vars
  BY <1>9, <1>i DEF vars, IInv, TypeOK, CleanMeansCurrent, FileHasDest, ReadConfigured
<1> QED
  BY <1>1, <1>2, <1>3, <1>4, <1>5, <1>6, <1>7, <1>8, <1>9 DEF Next
-----------------------------------------------------------------------------
\* Flow, clock, destinations and transport files keep their types, whatever the daemon says.
THEOREM SpecTypeOK == Spec => []TypeOK
<1>1. IInv => TypeOK
  BY DEF IInv
<1> QED
  BY InitIInv, NextIInv, <1>1, PTL DEF Spec

\* A transport file that is not marked dirty agrees with the flow, the clock and the
\* destination the node advertises, whichever of the activation and the status thread wrote
\* last and however they interleave (apply() and the transport file setter of spark_node.cpp).
THEOREM CleanFilesCurrent == Spec => []CleanMeansCurrent
<1>1. IInv => CleanMeansCurrent
  BY DEF IInv
<1> QED
  BY InitIInv, NextIInv, <1>1, PTL DEF Spec
-----------------------------------------------------------------------------
(* Dashboard.  For every catalog, any edits and any number of polls,       *)
(* requests and other clients.  START rides on a save: from the answer to  *)
(* the start the body of that save must stay what the daemon holds.        *)

\* A request of the power button: what it carries once it is sent, and that START only
\* goes on with one that was taken.
PowerPost ==
  /\ post["power"].pc = "sent" => \E c : post["power"].body = <<c>>
  /\ post["power"].pc = "taken" => post["power"].ok
  /\ (post["power"].pc \in {"answered", "taken"} /\ post["power"].ok /\ ~stirred)
       => post["power"].body = <<config>>

\* Requests are requests, the page has no edits before it has rows.
DashInv ==
  /\ acts \in Nat
  /\ catalog = <<>> => edited = {}
  /\ DOMAIN post = {"save", "power"}
  /\ \A b \in {"save", "power"} : post[b] = [pc |-> post[b].pc, body |-> post[b].body, ok |-> post[b].ok]
  /\ PowerPost

\* A request that is sent.
LEMMA Sent ==
  ASSUME NEW x
  PROVE  [NoPost EXCEPT !.pc = "sent", !.body = x] = [pc |-> "sent", body |-> x, ok |-> FALSE]
<1>1. PICK no : no = FALSE
  OBVIOUS
<1>2. PICK r : r = [pc |-> "idle", body |-> Nothing, ok |-> no]
  OBVIOUS
<1>3. PICK q : q = [r EXCEPT !.pc = "sent"]
  OBVIOUS
<1>4. q = [pc |-> "sent", body |-> Nothing, ok |-> no]
  BY <1>2, <1>3
<1>5. [q EXCEPT !.body = x] = [pc |-> "sent", body |-> x, ok |-> no]
  BY <1>4
<1>6. r = NoPost
  BY <1>1, <1>2, Zenon DEF NoPost
<1> QED
  BY <1>1, <1>3, <1>5, <1>6, Zenon

LEMMA DashInitInv == DashInit => DashInv
  BY DEF DashInit, DashInv, PowerPost, NoPost

LEMMA DashNextInv == DashInv /\ [DashNext]_dashVars => DashInv'
<1> SUFFICES ASSUME DashInv, [DashNext]_dashVars PROVE DashInv'
  OBVIOUS
<1>k. UNCHANGED <<config, post, stirred>> => PowerPost'
  BY DEF DashInv, PowerPost
<1>p. ASSUME UNCHANGED <<config, stirred>>, post' = [post EXCEPT !["save"] = post'["save"]]
      PROVE  PowerPost'
  <2>1. post'["power"] = post["power"]
    BY <1>p DEF DashInv
  <2> QED
    BY <1>p, <2>1 DEF DashInv, PowerPost
<1>1. CASE LoadCatalog
  BY <1>1, <1>k DEF DashInv, LoadCatalog, daemon, asked
<1>2. CASE Toggle \/ MoveFilter \/ SetParam
  <2>1. /\ catalog # <<>> /\ catalog' = catalog /\ acts' = acts + 1
        /\ UNCHANGED <<config, post, stirred>>
    BY <1>2 DEF Toggle, MoveFilter, SetParam, Edit, Act, daemon, asked
  <2> QED
    BY <2>1, <1>k DEF DashInv
<1>3. CASE Poll \/ PollFails \/ EngineFlips
  <2>1. UNCHANGED <<config, post, stirred, acts, catalog, edited>>
    BY <1>3 DEF Poll, PollFails, EngineFlips, daemon, asked, page, counts
  <2> QED
    BY <2>1, <1>k DEF DashInv
<1>4. CASE PollAnswered
  <2>1. UNCHANGED <<config, post, stirred, acts, catalog, edited>>
    BY <1>4 DEF PollAnswered, daemon, counts
  <2> QED
    BY <2>1, <1>k DEF DashInv
<1>5. CASE PressSave
  <2>1. /\ UNCHANGED <<config, stirred, catalog, edited>> /\ acts' = acts + 1
        /\ post' = [post EXCEPT !["save"] =
                      [pc |-> "sent", body |-> <<Body(lastConfig[1])>>, ok |-> FALSE]]
    BY <1>5, Sent DEF PressSave, Posts, Act, daemon, page
  <2>2. PowerPost'
    BY <2>1, <1>p DEF DashInv
  <2> QED
    BY <2>1, <2>2 DEF DashInv
<1>6. CASE PressPower
  <2>1. UNCHANGED <<config, catalog, edited>> /\ acts' = acts + 1
    BY <1>6 DEF PressPower, Act, daemon, page
  <2>2. CASE UNCHANGED <<post, stirred>>
    BY <2>1, <2>2, <1>k DEF DashInv
  <2>3. CASE Posts("power")
    <3>1. post' = [post EXCEPT !["power"] =
                     [pc |-> "sent", body |-> <<Body(lastConfig[1])>>, ok |-> FALSE]]
      BY <2>3, Sent DEF Posts
    <3>2. PowerPost'
      BY <3>1 DEF DashInv, PowerPost
    <3> QED
      BY <2>1, <3>1, <3>2 DEF DashInv
  <2> QED
    BY <1>6, <2>2, <2>3 DEF PressPower
<1>7. ASSUME NEW b \in {"save", "power"}, ConfigPosted(b) PROVE DashInv'
  <2>1. /\ UNCHANGED <<acts, catalog, edited>> /\ post[b].pc = "sent"
        /\ post' = [post EXCEPT ![b] = [pc |-> "answered", body |-> post[b].body, ok |-> ~up]]
        /\ config' = IF up THEN config ELSE post[b].body[1]
        /\ stirred' = (stirred \/ (b # "power" /\ ~up))
    <3>1. PICK x, ok : x = post[b].body /\ ok = post[b].ok
      OBVIOUS
    <3>2. post[b] = [pc |-> "sent", body |-> x, ok |-> ok]
      BY <1>7, <3>1 DEF ConfigPosted, DashInv
    <3>3. PICK r, y : r = post[b] /\ y = ~up
      OBVIOUS
    <3>4. [[r EXCEPT !.pc = "answered"] EXCEPT !.ok = y] = [pc |-> "answered", body |-> x, ok |-> y]
      <4>1. PICK q : q = [r EXCEPT !.pc = "answered"]
        OBVIOUS
      <4>2. q = [pc |-> "answered", body |-> x, ok |-> ok]
        BY <3>2, <3>3, <4>1
      <4>3. [q EXCEPT !.ok = y] = [pc |-> "answered", body |-> x, ok |-> y]
        BY <4>2
      <4> QED
        BY <4>1, <4>3, Zenon
    <3>5. post' = [post EXCEPT ![b] = [[r EXCEPT !.pc = "answered"] EXCEPT !.ok = y]]
      BY <1>7, <3>2, <3>3 DEF ConfigPosted, DashInv
    <3> QED
      BY <1>7, <3>1, <3>3, <3>4, <3>5 DEF ConfigPosted, counts, page
  <2>2. PowerPost'
    <3>1. CASE b = "power"
      <4>1. PICK c : post["power"].body = <<c>>
        BY <2>1, <3>1 DEF DashInv, PowerPost
      <4>2. /\ post'["power"].pc = "answered" /\ post'["power"].body = <<c>>
            /\ post'["power"].ok = ~up /\ (~up => config' = c)
        BY <2>1, <3>1, <4>1 DEF DashInv
      <4> QED
        BY <4>2 DEF PowerPost
    <3>2. CASE b = "save"
      <4>1. post'["power"] = post["power"]
        BY <2>1, <3>2 DEF DashInv
      <4>2. ~stirred' => config' = config /\ ~stirred
        BY <2>1, <3>2
      <4> QED
        BY <4>1, <4>2 DEF DashInv, PowerPost
    <3> QED
      BY <3>1, <3>2
  <2> QED
    BY <2>1, <2>2 DEF DashInv
<1>8. CASE SaveAnswered
  <2>1. UNCHANGED <<config, stirred, catalog, acts>> /\ post' = [post EXCEPT !["save"] = NoPost]
    BY <1>8 DEF SaveAnswered, Acknowledge, daemon, counts
  <2>2. edited' = edited \/ edited' = {}
    BY <1>8 DEF SaveAnswered, Acknowledge
  <2>3. PowerPost'
    BY <2>1, <1>p DEF DashInv
  <2> QED
    BY <2>1, <2>2, <2>3 DEF DashInv, NoPost
<1>9. CASE PowerSaved
  <2>1. UNCHANGED <<config, stirred, catalog, acts>> /\ post["power"].pc = "answered"
    BY <1>9 DEF PowerSaved, Acknowledge, daemon, counts
  <2>2. edited' = edited \/ edited' = {}
    BY <1>9 DEF PowerSaved, Acknowledge
  <2>3. CASE post["power"].ok
    <3>1. post' = [post EXCEPT !["power"] = [pc |-> "taken", body |-> post["power"].body,
                                              ok |-> post["power"].ok]]
      BY <1>9, <2>3 DEF PowerSaved, DashInv
    <3>2. PowerPost'
      BY <2>1, <2>3, <3>1 DEF DashInv, PowerPost
    <3> QED
      BY <2>1, <2>2, <3>1, <3>2 DEF DashInv
  <2>4. CASE ~post["power"].ok
    <3>1. post' = [post EXCEPT !["power"] = NoPost]
      BY <1>9, <2>4 DEF PowerSaved
    <3>2. PowerPost'
      BY <3>1 DEF DashInv, PowerPost, NoPost
    <3> QED
      BY <2>1, <2>2, <3>1, <3>2 DEF DashInv, NoPost
  <2> QED
    BY <2>3, <2>4
<1>d. ASSUME PowerDone, UNCHANGED <<config, catalog, edited, acts>> PROVE DashInv'
  <2>1. post' = [post EXCEPT !["power"] = NoPost]
    BY <1>d DEF PowerDone
  <2>2. PowerPost'
    BY <2>1 DEF DashInv, PowerPost, NoPost
  <2> QED
    BY <1>d, <2>1, <2>2 DEF DashInv, NoPost
<1>10. CASE PowerAnswered
  BY <1>10, <1>d DEF PowerAnswered, page, counts
<1>11. CASE RequestLost
  <2>1. UNCHANGED <<config, catalog, edited, acts>>
    BY <1>11 DEF RequestLost, daemon, page
  <2>2. CASE PowerDone
    BY <2>1, <2>2, <1>d
  <2>3. CASE post' = [post EXCEPT !["save"] = NoPost] /\ UNCHANGED <<power, stirred>>
    <3>1. PowerPost'
      BY <2>1, <2>3, <1>p DEF DashInv
    <3> QED
      BY <2>1, <2>3, <3>1 DEF DashInv, NoPost
  <2> QED
    BY <1>11, <2>2, <2>3 DEF RequestLost
<1>12. CASE OtherWrites
  <2>1. stirred' = TRUE /\ UNCHANGED <<post, catalog, edited, acts>>
    BY <1>12 DEF OtherWrites, page
  <2>2. PowerPost'
    BY <2>1 DEF DashInv, PowerPost
  <2> QED
    BY <2>1, <2>2 DEF DashInv
<1>13. CASE UNCHANGED dashVars
  BY <1>13, <1>k DEF DashInv, dashVars, daemon, page, asked, counts
<1> QED
  BY <1>1, <1>2, <1>3, <1>4, <1>5, <1>6, <1>7, <1>8, <1>9, <1>10, <1>11, <1>12, <1>13
  DEF DashNext, PageStep, Requests

\* Edits are of keys of the form, and there are none before it is built.
HistoryInv == unsaved \subseteq Keys /\ (catalog = <<>> => unsaved = {})

LEMMA HistoryNext == HistoryInv /\ [DashNext]_dashVars => HistoryInv'
<1> SUFFICES ASSUME HistoryInv, [DashNext]_dashVars PROVE HistoryInv'
  OBVIOUS
<1>1. CASE LoadCatalog
  BY <1>1 DEF LoadCatalog, HistoryInv, history
<1>2. CASE Toggle \/ MoveFilter \/ SetParam
  <2>1. PICK k \in Keys : Edit(k)
    BY <1>2 DEF Toggle, MoveFilter, SetParam, Keys
  <2> QED
    BY <2>1 DEF Edit, HistoryInv
<1>3. CASE SaveAnswered \/ PowerSaved
  <2>1. PICK b \in {"save", "power"} : Acknowledge(b)
    BY <1>3 DEF SaveAnswered, PowerSaved
  <2> QED
    BY <2>1 DEF Acknowledge, HistoryInv
<1>4. CASE \/ Poll \/ PollAnswered \/ PollFails \/ PressSave \/ PressPower
           \/ \E b \in {"save", "power"} : ConfigPosted(b)
           \/ PowerAnswered \/ RequestLost \/ OtherWrites \/ EngineFlips \/ UNCHANGED dashVars
  <2>1. UNCHANGED <<unsaved, catalog>>
    BY <1>4 DEF Poll, PollAnswered, PollFails, PressSave, PressPower, ConfigPosted,
      PowerAnswered, PowerDone, RequestLost, OtherWrites, EngineFlips, dashVars, page, history
  <2> QED
    BY <2>1 DEF HistoryInv
<1> QED
  BY <1>1, <1>2, <1>3, <1>4 DEF DashNext, PageStep, Requests

\* What a step that is not the user's does to an edit that is not saved: an input in the list of
\* edits is left alone and stays listed until the answer to a save; any other is left alone
\* unless the form is filled (fillForm and saveConfig of app.js).
EditStays(k) ==
  IF k \in edited
  THEN /\ Untouched(k)
       /\ \/ k \in edited' \/ k \notin unsaved'
          \/ \E b \in {"save", "power"} : post[b].ok /\ k \in late[b]
  ELSE Untouched(k) \/ ~loaded \/ (running' /\ ~dirty)

LEMMA StepKeepsEdits ==
  ASSUME DashInv, HistoryInv, [DashNext]_dashVars, acts' = acts, NEW k \in unsaved
  PROVE  EditStays(k)
<1>k. k \in Keys /\ catalog # <<>>
  BY DEF HistoryInv
<1>u. UNCHANGED inputs => Untouched(k)
  BY DEF Untouched, inputs
<1>1. CASE LoadCatalog
  BY <1>1, <1>k DEF LoadCatalog
<1>2. CASE Toggle \/ MoveFilter \/ SetParam
  <2>1. acts' = acts + 1
    BY <1>2 DEF Toggle, MoveFilter, SetParam, Edit, Act
  <2> QED
    BY <2>1 DEF DashInv
<1>3. CASE PollAnswered
  <2>1. edited' = edited
    BY <1>3 DEF PollAnswered
  <2>2. CASE UNCHANGED inputs
    BY <1>u, <2>1, <2>2 DEF EditStays
  <2>3. CASE ~UNCHANGED inputs
    <3>1. PICK st \in polls : Fills(st) /\ FillForm(st.config) /\ running' = st.up
      BY <1>3, <1>k, <2>3 DEF PollAnswered
    <3>2. ~loaded \/ (running' /\ ~dirty)
      BY <3>1 DEF Fills
    <3>3. ASSUME k \in edited PROVE Untouched(k)
      <4> DEFINE c == st.config
      <4>1. form' = [mode |-> IF c.mode > 0 /\ "mode" \notin edited THEN c.mode ELSE form.mode,
                     amt  |-> [s \in Graded |-> IF s \in edited \/ s \notin ToSet(catalog)
                                                THEN form.amt[s] ELSE c.amt[s]]]
        BY <3>1 DEF FillForm
      <4>2. "chain" \in edited => order' = order /\ enabled' = enabled
        BY <3>1 DEF FillForm
      <4> HIDE DEF c
      <4>3. CASE k = "chain"
        BY <3>3, <4>2, <4>3 DEF Untouched
      <4>4. CASE k = "mode"
        BY <3>3, <4>1, <4>4 DEF Untouched
      <4>5. CASE k \in Graded /\ k # "chain" /\ k # "mode"
        BY <3>3, <4>1, <4>5 DEF Untouched
      <4> QED
        BY <1>k, <4>3, <4>4, <4>5 DEF Keys
    <3> QED
      BY <2>1, <3>2, <3>3 DEF EditStays
  <2> QED
    BY <2>2, <2>3
<1>4. CASE SaveAnswered \/ PowerSaved
  <2>1. PICK b \in {"save", "power"} : Acknowledge(b)
    BY <1>4 DEF SaveAnswered, PowerSaved
  <2>2. UNCHANGED inputs
    BY <2>1 DEF Acknowledge
  <2>3. k \in edited => k \in edited' \/ k \notin unsaved' \/ (post[b].ok /\ k \in late[b])
    BY <2>1 DEF Acknowledge
  <2> QED
    BY <1>u, <2>2, <2>3 DEF EditStays
<1>5. CASE \/ Poll \/ PollFails \/ PressSave \/ PressPower
           \/ \E b \in {"save", "power"} : ConfigPosted(b)
           \/ PowerAnswered \/ RequestLost \/ OtherWrites \/ EngineFlips \/ UNCHANGED dashVars
  <2>1. UNCHANGED <<inputs, edited>>
    BY <1>5 DEF Poll, PollFails, PressSave, PressPower, ConfigPosted, PowerAnswered,
      PowerDone, RequestLost, OtherWrites, EngineFlips, dashVars, page
  <2> QED
    BY <1>u, <2>1 DEF EditStays
<1> QED
  BY <1>1, <1>2, <1>3, <1>4, <1>5 DEF DashNext, PageStep, Requests

\* However late the answers of polls and requests come, no step but the user's touches an input
\* in the page's list of edits, and an edit leaves that list unsaved only on the answer to a save
\* that was sent before it was made; even then the input is not overwritten before the form is
\* first filled, or an engine runs and nothing is edited.  START with staged edits starts the
\* engine with the configuration that was saved for it, unless someone else wrote meanwhile
\* (poll, saveConfig and the power button of app.js).
THEOREM EditsAreHonoured == DashInit /\ [][DashNext]_dashVars => EditsHonoured
<1>1. ASSUME DashInv, HistoryInv, [DashNext]_dashVars
      PROVE  [acts' = acts => \A k \in unsaved : EditStays(k)]_dashVars
  BY <1>1, StepKeepsEdits
<1>2. ASSUME DashInv
      PROVE  [power = "start" /\ ~up /\ up' /\ post["power"].pc = "taken" /\ ~stirred
                => post["power"].body = <<config>>]_dashVars
  BY <1>2 DEF DashInv, PowerPost
<1>3. DashInit => HistoryInv
  BY DEF DashInit, HistoryInv
<1> QED
  BY DashInitInv, DashNextInv, HistoryNext, <1>1, <1>2, <1>3, PTL
  DEF EditsHonoured, EditsStay, StartRuns, EditStays

-----------------------------------------------------------------------------
(* EnginePlan.  For any sources, settings and machines, whatever order     *)
(* routes, saves and starts come in.  What compose() is given is what was  *)
(* saved last before the start, with the input of the source that is       *)
(* connected: only a route changes the input, and a save is refused while  *)
(* an engine runs.                                                         *)

\* What the input may be, and what it is for a source that says its raster.
Inputs == {NoInput} \cup {parse_video_fmtp(s) : s \in Sources}
InputOf(in) ==
  (source # None /\ "size" \in source.says) => in = parse_video_fmtp(source)

PlanInv ==
  /\ machine \in Machines /\ (source # None => source \in Sources)
  /\ \E s \in Settings, in \in Inputs : conf = Config(in, s) /\ InputOf(in)
  /\ env # None => \E s \in Settings, in \in Inputs : env = Env(Config(in, s)) /\ InputOf(in)
  /\ plan # None => env # None /\ plan = Plan(env, machine)
  /\ pacer # None => plan # None /\ pacer = Pacer(env, plan, machine)

LEMMA PlanInitInv == PlanInit => PlanInv
<1> SUFFICES ASSUME PlanInit PROVE PlanInv
  OBVIOUS
<1>1. PICK s \in Settings : conf = Config(NoInput, s)
  BY DEF PlanInit
<1>2. NoInput \in Inputs /\ InputOf(NoInput)
  BY DEF PlanInit, Inputs, InputOf
<1> QED
  BY <1>1, <1>2 DEF PlanInit, PlanInv

\* A configuration's parts.
LEMMA ConfigParts ==
  ASSUME NEW in, NEW s
  PROVE  /\ Config(in, s).in = in
         /\ \A x : [Config(in, s) EXCEPT !.in = x] = Config(x, s)
         /\ Env(Config(in, s)).in = in
BY DEF Config, Env

LEMMA PlanNextInv == PlanInv /\ [PlanNext]_planVars => PlanInv'
<1> SUFFICES ASSUME PlanInv, [PlanNext]_planVars PROVE PlanInv'
  OBVIOUS
<1>0. PICK o \in Settings, in \in Inputs : conf = Config(in, o) /\ InputOf(in)
  BY DEF PlanInv
<1>1. ASSUME NEW s \in Sources, Route(s) PROVE PlanInv'
  <2>1. /\ source' = s /\ conf' = Overlay(conf, parse_video_fmtp(s))
        /\ env' = Env(conf') /\ plan' = None /\ pacer' = None /\ machine' = machine
    BY <1>1 DEF Route
  <2>2. "size" \in s.says => parse_video_fmtp(s).size.w # 0
    BY PlanAssumption DEF parse_video_fmtp
  <2>3. /\ conf' = conf \/ conf' = Config(parse_video_fmtp(s), o)
        /\ "size" \in s.says => conf' = Config(parse_video_fmtp(s), o)
    BY <2>1, <2>2, <1>0, ConfigParts DEF Overlay
  <2>4. \E x \in Inputs : conf' = Config(x, o) /\ InputOf(x)'
    <3>1. CASE conf' = Config(parse_video_fmtp(s), o)
      <4>1. parse_video_fmtp(s) \in Inputs /\ InputOf(parse_video_fmtp(s))'
        BY <2>1 DEF Inputs, InputOf
      <4> QED
        BY <3>1, <4>1
    <3>2. CASE conf' # Config(parse_video_fmtp(s), o)
      <4>1. conf' = Config(in, o) /\ InputOf(in)'
        BY <2>1, <2>3, <3>2, <1>0 DEF InputOf
      <4> QED
        BY <4>1
    <3> QED
      BY <3>1, <3>2
  <2>5. PICK x \in Inputs : conf' = Config(x, o) /\ InputOf(x)'
    BY <2>4
  <2>6. env' = Env(Config(x, o))
    BY <2>1, <2>5
  <2> QED
    BY <2>1, <2>5, <2>6 DEF PlanInv
<1>2. ASSUME NEW s \in Settings, Save(s) PROVE PlanInv'
  <2>1. UNCHANGED <<machine, source, env, plan, pacer>> /\ env = None /\ conf' = Config(in, s)
    BY <1>0, <1>2, ConfigParts DEF Save
  <2>2. InputOf(in)'
    BY <1>0, <2>1 DEF InputOf
  <2> QED
    BY <2>1, <2>2 DEF PlanInv
<1>3. CASE Launch
  <2>1. UNCHANGED <<machine, source, conf, plan, pacer>> /\ env = None /\ env' = Env(Config(in, o))
    BY <1>0, <1>3 DEF Launch
  <2>2. InputOf(in)' /\ plan = None
    BY <1>0, <2>1 DEF InputOf, PlanInv
  <2> QED
    BY <1>0, <2>1, <2>2 DEF PlanInv
<1>4. CASE Compose
  <2>1. UNCHANGED <<machine, source, conf, env, pacer>> /\ env # None
        /\ plan = None /\ plan' = Plan(env, machine)
    BY <1>4 DEF Compose
  <2> QED
    BY <2>1 DEF PlanInv, InputOf
<1>5. CASE FirstFrame
  <2>1. UNCHANGED <<machine, source, conf, env, plan>> /\ plan # None
        /\ pacer' = Pacer(env, plan, machine)
    BY <1>5 DEF FirstFrame
  <2> QED
    BY <2>1 DEF PlanInv, InputOf
<1>6. CASE SyncAdvert \/ UNCHANGED planVars
  <2>1. UNCHANGED <<machine, source, conf, env, plan, pacer>>
    BY <1>6 DEF SyncAdvert, planVars
  <2> QED
    BY <2>1 DEF PlanInv, InputOf
<1>7. CASE Quit
  <2>1. UNCHANGED <<machine, source, conf>> /\ env' = None /\ plan' = None /\ pacer' = None
    BY <1>7 DEF Quit
  <2> QED
    BY <2>1 DEF PlanInv, InputOf
<1> QED
  BY <1>1, <1>2, <1>3, <1>4, <1>5, <1>6, <1>7 DEF PlanNext

\* A rate that was not given is <<0, 1>>.
IsRate(r) == r.num \in Nat /\ r.den \in Nat \ {0}

\* The engine's environment is that of a setting, and of a source or none.
LEMMA EnvParts ==
  ASSUME NEW e, NEW s \in Settings, NEW in \in Inputs, e = Env(Config(in, s))
  PROVE  /\ e.in = in /\ e.out = s.out /\ e.ip10 = s.ip10 /\ e.filters = s.filters
         /\ e.amounts = s.amounts /\ e.delayV = s.delayV /\ e.delayA = s.delayA
         /\ e.mode = (IF s.mode > 0 THEN s.mode ELSE IF s.frc THEN 1 ELSE 0)
         /\ e.fill = Fill(s.fill)
         /\ IsRate(in.fps) /\ s.delayV \in Int /\ s.delayA \in Int
         /\ SourceFps(e) \in {t.fps : t \in Sources} \cup {BaseFps}
<1>1. /\ e.in = in /\ e.out = s.out /\ e.ip10 = s.ip10 /\ e.filters = s.filters
      /\ e.amounts = s.amounts /\ e.delayV = s.delayV /\ e.delayA = s.delayA
      /\ e.mode = (IF s.mode > 0 THEN s.mode ELSE IF s.frc THEN 1 ELSE 0)
      /\ e.fill = Fill(s.fill)
  BY DEF Env, Config
<1>2. s.delayV \in Int /\ s.delayA \in Int
  BY PlanAssumption
<1>3. in.fps = NoFps \/ \E t \in Sources : in.fps = t.fps
  BY DEF Inputs, NoInput, parse_video_fmtp
<1>4. \A t \in Sources : t.fps.num \in Nat \ {0} /\ t.fps.den \in Nat \ {0}
  BY PlanAssumption
<1>5. IsRate(in.fps)
  <2>1. IsRate(NoFps)
    BY DEF IsRate, NoFps
  <2>2. \A t \in Sources : IsRate(t.fps)
    BY <1>4 DEF IsRate
  <2> QED
    BY <1>3, <2>1, <2>2
<1>6. SourceFps(e) \in {t.fps : t \in Sources} \cup {BaseFps}
  BY <1>1, <1>3 DEF SourceFps, NoFps
<1> QED
  BY <1>1, <1>2, <1>5, <1>6

\* The last of n equal parts begins before the end.
LEMMA LastPart ==
  ASSUME NEW n \in Nat \ {0}, NEW w \in Nat \ {0}
  PROVE  w \div n \in Nat /\ (n - 1) * (w \div n) < w
<1>1. PICK p \in Nat : p = w \div n /\ n * p <= w
  BY SMT
<1>2. (n - 1) * p = n * p - p
  BY <1>1, SMT
<1>3. n * p - p < w
  <2>1. n * p \in Int
    BY <1>1, SMT
  <2>2. p = 0 => n * p = 0
    BY <1>1, SMT
  <2> QED
    BY <1>1, <2>1, <2>2, SMT
<1> QED
  BY <1>1, <1>2, <1>3

\* Cutting a whole by a share of hundredths.
LEMMA ShareLess ==
  ASSUME NEW x \in Nat, NEW s \in 1 .. 100
  PROVE  (x * s) \div 100 \in Nat /\ (x * s) \div 100 <= x /\ (x * 100) \div 100 = x
<1>1. x * s \in Nat /\ x * s <= x * 100
  BY SMT
<1> QED
  BY <1>1, SMT

\* Cutting a whole by the ratio of the lines of a picture to all lines.
LEMMA RatioLess ==
  ASSUME NEW x \in Nat, NEW a \in Nat, NEW b \in Nat \ {0}, a <= b
  PROVE  (x * a) \div b \in Nat /\ (x * a) \div b <= x
<1>1. PICK y \in Nat : y = x * a /\ y <= x * b
  <2>1. x * a \in Nat /\ x * a <= x * b
    BY SMT
  <2> QED
    BY <2>1
<1>2. y \div b \in Nat /\ b * (y \div b) <= y
  BY <1>1, SMT
<1>3. PICK p \in Nat : p = y \div b
  BY <1>2
<1>4. b * p <= x * b
  BY <1>1, <1>2, <1>3, SMT
<1>5. p <= x
  <2> SUFFICES ASSUME p >= x + 1 PROVE FALSE
    BY <1>3, SMT
  <2>1. b * p >= b * (x + 1)
    BY <1>3, SMT
  <2>2. b * (x + 1) = b * x + b /\ b * x = x * b
    BY SMT
  <2> QED
    BY <1>4, <2>1, <2>2, SMT
<1> QED
  BY <1>1, <1>3, <1>5

\* The part of an interval that carries packets, filled or not.
LEMMA WindowFits ==
  ASSUME NEW i \in Nat, NEW h \in Nat \ {0}, NEW wide, NEW fill
  PROVE  /\ Window(i, h, wide, fill) \in Nat
         /\ Window(i, h, wide, fill) <= i
         /\ Window(i, h, wide, fill) <= Window(i, h, wide, 100)
<1>1. PICK a, b : a = (IF wide THEN <<1, 1>> ELSE active_ratio(h))[1]
                  /\ b = (IF wide THEN <<1, 1>> ELSE active_ratio(h))[2]
  OBVIOUS
<1>2. a \in Nat /\ b \in Nat \ {0} /\ a <= b
  <2>1. CASE wide
    BY <1>1, <2>1
  <2>2. CASE ~wide /\ h \in DOMAIN TotalLines
    <3>1. a = h /\ b = TotalLines[h]
      BY <1>1, <2>2 DEF active_ratio
    <3>2. TotalLines[h] \in Nat /\ h <= TotalLines[h]
      BY <2>2, PlanAssumption
    <3> QED
      BY <3>1, <3>2
  <2>3. CASE ~wide /\ h \notin DOMAIN TotalLines
    BY <1>1, <2>3 DEF active_ratio
  <2> QED
    BY <2>1, <2>2, <2>3
<1>3. PICK x \in Nat : x = (i * a) \div b /\ x <= i
  BY <1>2, RatioLess
<1>4. PICK s \in 1 .. 100 : s = IF fill \in 1 .. 100 THEN fill ELSE 100
  OBVIOUS
<1>5. Window(i, h, wide, fill) = (x * s) \div 100
  BY <1>1, <1>3, <1>4 DEF Window
<1>6. Window(i, h, wide, 100) = (x * 100) \div 100
  <2>1. (IF 100 \in 1 .. 100 THEN 100 ELSE 100) = 100
    OBVIOUS
  <2> QED
    BY <1>1, <1>3, <2>1 DEF Window
<1>7. (x * s) \div 100 \in Nat /\ (x * s) \div 100 <= x /\ (x * 100) \div 100 = x
  BY ShareLess
<1> QED
  BY <1>3, <1>5, <1>6, <1>7

\* Rates of the sources and twice those make intervals.
LEMMA OutRate ==
  ASSUME NEW r \in OutRates
  PROVE  r.num \in Nat \ {0} /\ r.den \in Nat \ {0} /\ Interval(r) \in Nat
<1>1. ASSUME NEW q \in {t.fps : t \in Sources} \cup {BaseFps}
      PROVE  /\ q.num \in Nat \ {0} /\ q.den \in Nat \ {0}
             /\ Twice(q).num = 2 * q.num /\ Twice(q).den = q.den
  <2>1. q = [num |-> q.num, den |-> q.den] /\ q.num \in Nat \ {0} /\ q.den \in Nat \ {0}
    <3>1. CASE q = BaseFps
      BY <3>1 DEF BaseFps
    <3>2. CASE \E t \in Sources : q = t.fps
      BY <3>2, PlanAssumption
    <3> QED
      BY <3>1, <3>2
  <2>2. Twice(q) = [q EXCEPT !.num = 2 * q.num]
    BY DEF Twice
  <2> QED
    BY <2>1, <2>2
<1>2. r.num \in Nat \ {0} /\ r.den \in Nat \ {0}
  <2>1. CASE r \in {t.fps : t \in Sources} \cup {BaseFps}
    BY <1>1, <2>1
  <2>2. CASE \E q \in {t.fps : t \in Sources} \cup {BaseFps} : r = Twice(q)
    <3>1. PICK q \in {t.fps : t \in Sources} \cup {BaseFps} : r = Twice(q)
      BY <2>2
    <3>2. q.num \in Nat \ {0} /\ q.den \in Nat \ {0} /\ r.num = 2 * q.num /\ r.den = q.den
      BY <1>1, <3>1
    <3> QED
      BY <3>2
  <2> QED
    BY <2>1, <2>2 DEF OutRates
<1>3. (1000000 * r.den) \div r.num \in Nat
  <2>1. PICK n, d : n = r.num /\ d = 1000000 * r.den
    OBVIOUS
  <2> QED
    BY <1>2, <2>1
<1> QED
  BY <1>2, <1>3 DEF Interval

\* The gap between packets of a line leaves some of the line's slot.
LEMMA GapFits ==
  ASSUME NEW slot \in Nat \ {0}, NEW k \in Nat \ {0}
  PROVE  (slot * 73) \div (100 * k) \in Nat /\ k * ((slot * 73) \div (100 * k)) < slot
<1>1. PICK y \in Nat, z \in Nat \ {0} : y = slot * 73 /\ z = 100 * k
  OBVIOUS
<1>2. y \div z \in Nat /\ z * (y \div z) <= y
  BY <1>1, SMT
<1>3. PICK g \in Nat : g = y \div z
  BY <1>2
<1>4. 100 * (k * g) <= slot * 73
  <2>1. z * g = 100 * (k * g)
    BY <1>1, <1>3, SMT
  <2> QED
    BY <1>1, <1>2, <1>3, <2>1
<1>5. k * g \in Nat
  BY <1>3, SMT
<1>6. k * g < slot
  BY <1>4, <1>5, SMT
<1> QED
  BY <1>1, <1>3, <1>6

\* How a setting's frames are paced at a rate.
PacedAs(q, f, s, r, m) ==
  /\ f = Framing([size |-> s.out, ip10 |-> s.ip10], Payload(s))
  /\ f.height = s.out.h /\ f.height \in Nat \ {0} /\ P!Octets(f) \in Nat
  /\ f.pgs = s.out.w \div 2 /\ f.pg = (IF s.ip10 THEN 4 ELSE 5)
  /\ q.fmt = [size |-> s.out, fps |-> r, ip10 |-> s.ip10]
  /\ q.interval = Interval(r) /\ q.ppf = packets_per_frame[f]
  /\ q.window = Window(q.interval, f.height, m.wide, Fill(s.fill))
  /\ q.slot = q.window \div f.height
  /\ q.ppl = LinePackets(f) /\ q.ppl \in Nat
  /\ q.kind \in {"even", "lines", "gapped"}
  /\ q.kind = "gapped" => s.ip10
  /\ q.gap = (IF q.kind = "gapped" /\ q.ppl > 1
             THEN (q.slot * 73) \div (100 * (q.ppl - 1)) ELSE q.window \div q.ppf)

LEMMA PacedParts ==
  ASSUME NEW s \in Settings, NEW r \in OutRates, NEW m \in Machines, NEW q, q = Paced(s, r, m)
  PROVE  \E f \in Framings : PacedAs(q, f, s, r, m)
<1> DEFINE fmt == [size |-> s.out, fps |-> r, ip10 |-> s.ip10]
           f   == Framing([size |-> s.out, ip10 |-> s.ip10], Payload(s))
<1>1. f \in Framings /\ Framing(fmt, Payload(s)) = f
  BY DEF Framings, Framing
<1>2. s.out.w \in Nat \ {0} /\ s.out.h \in Nat \ {0} /\ s.ip10 \in BOOLEAN
  BY PlanAssumption
<1>3. /\ f.height = s.out.h /\ f.pgs = s.out.w \div 2 /\ f.pg = (IF s.ip10 THEN 4 ELSE 5)
      /\ f.payload \in {1300, 1420}
  BY DEF Framing, Payload
<1>4. P!Octets(f) \in Nat
  <2>1. f.pgs \in Nat /\ f.pg \in Nat
    <3>1. PICK w \in Nat : w = s.out.w
      BY <1>2
    <3>2. w \div 2 \in Nat
      BY SMT
    <3> QED
      BY <1>3, <3>1, <3>2
  <2>2. f.pgs * f.pg \in Nat
    BY <2>1
  <2> QED
    BY <2>2 DEF P!Octets
<1>5. LinePackets(f) \in Nat
  <2>1. PICK o \in Nat, k \in Nat : o = P!Octets(f) /\ k = f.payload /\ k >= 1300
    BY <1>3, <1>4
  <2>2. (o + k - 21) \div (k - 20) \in Nat
    <3>1. PICK y \in Nat, z \in Nat \ {0} : y = o + k - 21 /\ z = k - 20
      BY <2>1
    <3> QED
      BY <3>1
  <2> QED
    BY <2>1, <2>2 DEF LinePackets
<1>6. fmt.fps = r /\ fmt.ip10 = s.ip10
  OBVIOUS
<1> HIDE DEF f
<1>7. q = Pacing(fmt, Payload(s), LeadHorizon(m), Fill(s.fill), m)
  BY DEF Paced
<1> DEFINE burst == LineBurst(fmt, Interval(r), m.ip10Burst)
           gapped == Gapped(fmt, Interval(r), m)
<1>8. burst => ~gapped
  BY DEF Gapped
<1>9. gapped => s.ip10
  BY <1>6 DEF Gapped
<1> HIDE DEF fmt
<1>10. /\ q.fmt = fmt /\ q.interval = Interval(r)
       /\ q.window = Window(Interval(r), f.height, m.wide, Fill(s.fill))
       /\ q.ppf = packets_per_frame[f]
       /\ q.kind = (IF burst THEN "lines" ELSE IF gapped THEN "gapped" ELSE "even")
       /\ q.slot = q.window \div f.height
       /\ q.ppl = LinePackets(f)
       /\ q.gap = (IF gapped /\ q.ppl > 1
                  THEN (q.slot * 73) \div (100 * (q.ppl - 1)) ELSE q.window \div q.ppf)
  BY <1>1, <1>6, <1>7 DEF Pacing
<1> HIDE DEF burst, gapped
<1>11. q.kind \in {"even", "lines", "gapped"} /\ (q.kind = "gapped" <=> gapped)
  BY <1>8, <1>10
<1>12. q.window = Window(q.interval, f.height, m.wide, Fill(s.fill))
  BY <1>10, Zenon
<1>13. q.kind = "gapped" => s.ip10
  BY <1>9, <1>11, Zenon
<1>14. q.gap = (IF q.kind = "gapped" /\ q.ppl > 1
               THEN (q.slot * 73) \div (100 * (q.ppl - 1)) ELSE q.window \div q.ppf)
  BY <1>10, <1>11, Zenon
<1>15. f.height \in Nat \ {0} /\ q.ppl \in Nat
  <2>1. f.height = s.out.h /\ q.ppl = LinePackets(f)
    BY <1>3, <1>10
  <2> QED
    BY <1>2, <1>5, <2>1
<1>16. f = Framing([size |-> s.out, ip10 |-> s.ip10], Payload(s))
  BY DEF f
<1>17. fmt = [size |-> s.out, fps |-> r, ip10 |-> s.ip10]
  BY DEF fmt
<1>18. q.fmt = [size |-> s.out, fps |-> r, ip10 |-> s.ip10]
  BY <1>10, <1>17, Zenon
<1>19. PacedAs(q, f, s, r, m)
  BY <1>3, <1>4, <1>10, <1>11, <1>12, <1>13, <1>14, <1>15, <1>16, <1>18, Zenon DEF PacedAs
<1> QED
  BY <1>1, <1>19, Zenon

\* Every packet of a frame is due in the part of the interval that carries packets.
LEMMA PacedInTime ==
  ASSUME PacketsCounted, LinesHaveTime,
         NEW s \in Settings, NEW r \in OutRates, NEW m \in Machines, NEW q, q = Paced(s, r, m)
  PROVE  /\ LastDue(q) < q.window /\ q.window <= q.interval
         /\ q.kind = "gapped" => /\ q.ppf = q.ppl * q.fmt.size.h
                                 /\ (q.ppl - 1) * q.gap < q.slot
<1>0. PICK f \in Framings : PacedAs(q, f, s, r, m)
  BY PacedParts
<1>1. /\ f.height = s.out.h /\ f.height \in Nat \ {0}
      /\ f.pg = (IF s.ip10 THEN 4 ELSE 5)
      /\ q.fmt = [size |-> s.out, fps |-> r, ip10 |-> s.ip10]
      /\ q.interval = Interval(r) /\ q.ppf = packets_per_frame[f]
      /\ q.window = Window(q.interval, f.height, m.wide, Fill(s.fill))
      /\ q.slot = q.window \div f.height
      /\ q.ppl = LinePackets(f) /\ q.ppl \in Nat
      /\ q.kind \in {"even", "lines", "gapped"}
      /\ q.kind = "gapped" => s.ip10
      /\ q.gap = (IF q.kind = "gapped" /\ q.ppl > 1
                 THEN (q.slot * 73) \div (100 * (q.ppl - 1)) ELSE q.window \div q.ppf)
  BY <1>0 DEF PacedAs
<1>2. /\ q.ppf \in Nat \ {0} /\ (q.kind = "gapped" => q.ppf = q.ppl * f.height)
  BY <1>1 DEF PacketsCounted
<1>3. q.window \in Nat /\ q.window <= q.interval
  BY <1>1, OutRate, WindowFits
<1>4. PICK h \in Nat \ {0}, w \in Nat, n \in Nat \ {0}, l \in Nat :
        /\ h = f.height /\ h = q.fmt.size.h /\ w = q.window /\ n = q.ppf /\ l = q.ppl
  BY <1>1, <1>2, <1>3
<1>5. w >= h
  BY <1>1, <1>4 DEF LinesHaveTime
<1>6. /\ w \div h \in Nat /\ (h - 1) * (w \div h) < w
      /\ w \div n \in Nat /\ (n - 1) * (w \div n) < w
  <2>1. w \in Nat \ {0}
    BY <1>4, <1>5, SMT
  <2> QED
    BY <1>4, <2>1, LastPart, Zenon
<1>7. PICK a \in Nat, g \in Nat : a = w \div h /\ g = w \div n
  BY <1>6
<1>8. a \in Nat \ {0} /\ h * a <= w
  BY <1>5, <1>7, SMT
<1>9. CASE q.kind = "even"
  <2>1. LastDue(q) = (n - 1) * g
    BY <1>1, <1>4, <1>7, <1>9 DEF LastDue
  <2> QED
    BY <1>3, <1>4, <1>6, <1>7, <1>9, <2>1
<1>10. CASE q.kind = "lines"
  <2>1. LastDue(q) = (h - 1) * a
    BY <1>1, <1>4, <1>7, <1>10 DEF LastDue
  <2> QED
    BY <1>3, <1>4, <1>6, <1>7, <1>10, <2>1
<1>11. CASE q.kind = "gapped"
  <2>1. PICK b : b = q.gap
    OBVIOUS
  <2>2. l \in Nat \ {0} /\ n = l * h
    <3>1. n = l * h
      BY <1>2, <1>4, <1>11
    <3> QED
      BY <1>4, <3>1, SMT
  <2>3. b \in Nat /\ (l - 1) * b < a
    <3>1. CASE l > 1
      <4>1. PICK k \in Nat \ {0} : k = l - 1
        BY <2>2, <3>1
      <4>2. b = (a * 73) \div (100 * k)
        BY <1>1, <1>4, <1>7, <1>11, <2>1, <3>1, <4>1
      <4> QED
        BY <1>8, <4>1, <4>2, GapFits
    <3>2. CASE ~(l > 1)
      <4>1. l = 1 /\ b = g
        BY <1>1, <1>4, <1>7, <1>11, <2>1, <2>2, <3>2
      <4> QED
        BY <1>7, <1>8, <4>1
    <3> QED
      BY <3>1, <3>2
  <2>4. LastDue(q) = (h - 1) * a + (l - 1) * b
    BY <1>1, <1>4, <1>7, <1>11, <2>1 DEF LastDue
  <2>5. (h - 1) * a + (l - 1) * b < w
    <3>1. PICK x \in Int : x = (l - 1) * b
      BY <2>2, <2>3
    <3>2. PICK y \in Int : y = h * a
      BY <1>8
    <3>3. (h - 1) * a = y - a
      BY <1>4, <1>8, <3>2, SMT
    <3> QED
      BY <1>4, <1>8, <2>3, <3>1, <3>2, <3>3, SMT
  <2>6. q.slot = a
    BY <1>1, <1>4, <1>7
  <2> QED
    BY <1>3, <1>4, <2>1, <2>2, <2>3, <2>4, <2>5, <2>6
<1> QED
  BY <1>1, <1>9, <1>10, <1>11

\* The receiver takes apart what the connected source really sends, whichever sources were
\* connected before and whatever was saved meanwhile (apply_rx of spark_node.cpp, the
\* environment of daemon.cpp and the receiver's format in st2110_pipeline.cpp).
LEMMA InputIsRight == PlanInv => InputRight
<1> SUFFICES ASSUME PlanInv, source # None, plan # None, "size" \in source.says
             PROVE  /\ plan.rx.size = source.size /\ plan.rx.ip10 = source.ip10
                    /\ "rate" \in source.says => plan.rx.fps = source.fps
  BY DEF InputRight
<1>1. env # None /\ plan.rx = RxFormat(env.in) /\ source \in Sources
  BY DEF PlanInv, Plan
<1>2. /\ env.in.size = source.size /\ env.in.ip10 = source.ip10
      /\ "rate" \in source.says => env.in.fps = source.fps
  <2>1. PICK s \in Settings, in \in Inputs : env = Env(Config(in, s)) /\ InputOf(in)
    BY <1>1 DEF PlanInv
  <2>2. env.in = in /\ in = parse_video_fmtp(source)
    BY <2>1, ConfigParts DEF InputOf
  <2> QED
    BY <2>2 DEF parse_video_fmtp
<1>3. /\ source.size = [w |-> source.size.w, h |-> source.size.h]
      /\ source.size.w > 0 /\ source.size.h > 0 /\ source.fps.num > 0
  <2>1. PICK t \in Sources : t = source
    BY <1>1
  <2>2. t.size = [w |-> t.size.w, h |-> t.size.h]
    BY PlanAssumption
  <2>3. t.size.w \in Nat \ {0} /\ t.size.h \in Nat \ {0} /\ t.fps.num \in Nat \ {0}
    BY PlanAssumption
  <2> QED
    BY <2>1, <2>2, <2>3
<1> QED
  BY <1>1, <1>2, <1>3 DEF RxFormat

\* The room that QueueDepth leaves beyond the frames that wait.
LEMMA DepthCovers ==
  ASSUME NEW latency \in Nat, NEW fps, fps.num \in Nat, fps.den \in Nat \ {0}
  PROVE  (QueueDepth(latency, fps) - 3) * fps.den * 1000 >= latency * fps.num
<1>1. PICK x, d : x = latency * fps.num /\ d = fps.den * 1000
  OBVIOUS
<1>2. x \in Nat /\ d \in Nat \ {0}
  BY <1>1
<1>3. PICK q : q = x \div d
  OBVIOUS
<1>4. q \in Nat /\ x <= (q + 1) * d
  BY <1>2, <1>3
<1>5. QueueDepth(latency, fps) = IF latency > 0 /\ q + 4 > 8 THEN q + 4 ELSE 8
  BY <1>1, <1>3 DEF QueueDepth
<1>6. PICK n : n = QueueDepth(latency, fps) - 3
  OBVIOUS
<1>7. n \in Nat /\ x <= n * d
  <2>1. CASE latency > 0 /\ q + 4 > 8
    BY <1>2, <1>4, <1>5, <1>6, <2>1
  <2>2. CASE ~(latency > 0)
    <3>1. x = 0 /\ n = 5
      BY <1>1, <1>5, <1>6, <2>2
    <3> QED
      BY <1>2, <3>1
  <2>3. CASE latency > 0 /\ ~(q + 4 > 8)
    <3>1. n = 5 /\ q <= 4
      BY <1>4, <1>5, <1>6, <2>3
    <3>2. (q + 1) * d <= 5 * d
      BY <1>2, <1>4, <3>1
    <3> QED
      BY <1>2, <1>4, <3>1, <3>2
  <2> QED
    BY <2>1, <2>2, <2>3
<1>8. n * fps.den * 1000 = n * d
  BY <1>1, <1>7
<1> QED
  BY <1>1, <1>2, <1>6, <1>7, <1>8

\* Video and audio come out later by what was asked for each.
LEMMA DelaysAreMet ==
  ASSUME BridgeReaches, PlanInv
  PROVE  DelaysLand
<1> SUFFICES ASSUME plan # None PROVE DelaysLand
  BY DEF DelaysLand
<1>1. /\ env # None /\ plan = Plan(env, machine) /\ machine \in Machines
      /\ IsRate(env.in.fps) /\ env.delayV \in Int /\ env.delayA \in Int
  <2>1. env # None /\ plan = Plan(env, machine) /\ machine \in Machines
    BY DEF PlanInv
  <2>2. PICK s \in Settings, in \in Inputs : env = Env(Config(in, s))
    BY <2>1 DEF PlanInv
  <2> QED
    BY <2>1, <2>2, EnvParts
<1>2. /\ machine.latency \in Nat /\ machine.avOffset \in Int
      /\ machine.latency + machine.avOffset + 1000 <= BridgeTime /\ BridgeTime \in Int
  BY <1>1, PlanAssumption DEF BridgeReaches
<1>3. PICK dv, da : dv = Clamped(env.delayV) /\ da = Clamped(env.delayA)
  OBVIOUS
<1>4. dv \in 0 .. 1000 /\ da \in 0 .. 1000
  <2>1. PICK x \in Int, y \in Int : x = env.delayV /\ y = env.delayA
    BY <1>1
  <2>2. Clamped(x) \in 0 .. 1000 /\ Clamped(y) \in 0 .. 1000
    BY DEF Clamped
  <2> QED
    BY <1>3, <2>1, <2>2
<1>5. PICK held : held <=> Delayed(env, machine)
  OBVIOUS
<1>6. /\ plan.latency = machine.latency + (IF held THEN dv ELSE 0)
      /\ plan.av = machine.avOffset + (IF held THEN da - dv ELSE 0)
  BY <1>1, <1>3, <1>5 DEF Plan, Latency, AvOffset
<1>7. /\ plan.depth = QueueDepth(plan.latency, SourceFps(env))
      /\ plan.rx.fps = SourceFps(env)
  BY <1>1 DEF Plan, RxFormat, SourceFps
<1>8. SourceFps(env).num \in Nat /\ SourceFps(env).den \in Nat \ {0}
  BY <1>1 DEF SourceFps, IsRate, BaseFps
<1>9. plan.latency \in Nat /\ plan.latency + plan.av <= BridgeTime
  BY <1>2, <1>4, <1>6
<1>10. (plan.depth - 3) * plan.rx.fps.den * 1000 >= plan.latency * plan.rx.fps.num
  BY <1>7, <1>8, <1>9, DepthCovers
<1>11. /\ plan.latency = machine.latency + (IF held THEN dv ELSE 0)
       /\ plan.latency + plan.av = machine.latency + machine.avOffset + (IF held THEN da ELSE 0)
  BY <1>2, <1>4, <1>6
<1> QED
  BY <1>3, <1>5, <1>9, <1>10, <1>11, Zenon DEF DelaysLand, Delayed

\* FRC is among the operators exactly if the pacer and the grid count on it.
LEMMA RateIsKept == PlanInv => RateKept
<1> SUFFICES ASSUME PlanInv, plan # None PROVE RateKept
  BY DEF RateKept
<1>1. plan = Plan(env, machine)
  BY DEF PlanInv
<1>2. /\ plan.stages = Made(FilterList(env), env.mode)
      /\ plan.factor = (IF Doubles(env.mode) THEN 2 ELSE 1)
      /\ plan.tick = (IF env.mode = 3 THEN Interval(OutFps(env)) ELSE 0)
      /\ plan.fps = OutFps(env) /\ plan.rx = RxFormat(env.in)
  BY <1>1 DEF Plan
<1>3. "frc" \in plan.stages <=> env.mode # 0 /\ "frc" \in FilterList(env)
  BY <1>2 DEF Made
<1>4. plan.rx.fps = SourceFps(env)
  BY <1>2 DEF RxFormat, SourceFps
<1>5. plan.fps = IF (IF "frc" \in plan.stages THEN plan.factor ELSE 1) = 2
                 THEN Twice(plan.rx.fps) ELSE plan.rx.fps
  BY <1>2, <1>3, <1>4 DEF OutFps
<1>6. plan.tick > 0 => plan.tick = Interval(plan.fps)
  BY <1>2
<1> QED
  BY <1>5, <1>6 DEF RateKept

\* The pacer is that of a setting and a rate.
LEMMA PacerIs ==
  ASSUME PlanInv, pacer # None,
         NEW s \in Settings, NEW in \in Inputs, env = Env(Config(in, s))
  PROVE  /\ pacer = Paced(s, OutFps(env), machine) /\ plan.ring = Ring(s)
         /\ OutFps(env) \in OutRates /\ machine \in Machines
<1>1. plan = Plan(env, machine) /\ pacer = Pacer(env, plan, machine) /\ machine \in Machines
  BY DEF PlanInv
<1>2. /\ env.out = s.out /\ env.ip10 = s.ip10 /\ env.fill = Fill(s.fill)
      /\ SourceFps(env) \in {t.fps : t \in Sources} \cup {BaseFps}
  BY EnvParts
<1>3. OutFps(env) \in OutRates
  BY <1>2 DEF OutFps, OutRates
<1>4. /\ plan.ring = Ring(s) /\ plan.payload = Payload(s) /\ plan.horizon = LeadHorizon(machine)
      /\ plan.fps = OutFps(env) /\ "scale" \in plan.stages
  BY <1>1, <1>2 DEF Plan, Ring, Payload, Made
<1>5. TxFormat(env, plan) = [size |-> s.out, fps |-> OutFps(env), ip10 |-> s.ip10]
  BY <1>2, <1>4 DEF TxFormat
<1> QED
  BY <1>1, <1>2, <1>3, <1>4, <1>5 DEF Pacer, Paced

\* The engine does what was asked for: it takes in what is sent to it, sends as many frames as
\* the chain makes, delays by what was asked, and every packet is due in its frame's interval
\* and fits the descriptors - whatever order sources, settings and starts come in (the
\* environment of daemon.cpp, st2110_pipeline.cpp and ensure_pacer of st2110_tx.cpp).
THEOREM EngineDoesAsAsked ==
  BridgeReaches /\ PacketsCounted /\ LinesHaveTime /\ RingsDeep
    => (PlanInit /\ [][PlanNext]_planVars => []EngineAsAsked)
<1> SUFFICES ASSUME BridgeReaches, PacketsCounted, LinesHaveTime, RingsDeep
             PROVE  PlanInit /\ [][PlanNext]_planVars => []EngineAsAsked
  OBVIOUS
<1>1. ASSUME PlanInv PROVE EngineAsAsked
  <2>1. FrameInTime /\ RingHolds
    <3> SUFFICES ASSUME pacer # None PROVE FrameInTime /\ RingHolds
      BY DEF FrameInTime, RingHolds
    <3>1. PICK s \in Settings, in \in Inputs : env = Env(Config(in, s))
      BY <1>1 DEF PlanInv
    <3>2. PICK r \in OutRates : pacer = Paced(s, r, machine)
      BY <1>1, <3>1, PacerIs
    <3>3. plan.ring = Ring(s) /\ machine \in Machines
      BY <1>1, <3>1, PacerIs
    <3>4. RoomFor(pacer, plan.ring)
      BY <3>2, <3>3 DEF RingsDeep
    <3>5. /\ LastDue(pacer) < pacer.window /\ pacer.window <= pacer.interval
          /\ pacer.kind = "gapped" => /\ pacer.ppf = pacer.ppl * pacer.fmt.size.h
                                      /\ (pacer.ppl - 1) * pacer.gap < pacer.slot
      BY <3>2, <3>3, PacedInTime, Zenon
    <3> QED
      BY <3>4, <3>5 DEF FrameInTime, RingHolds
  <2> QED
    BY <1>1, <2>1, InputIsRight, DelaysAreMet, RateIsKept DEF EngineAsAsked
<1> QED
  BY PlanInitInv, PlanNextInv, <1>1, PTL

\* Four per cent of a line's octets, of all lines, are the headers of its packets.
LEMMA HeadersCovered ==
  ASSUME NEW o \in Nat, NEW l \in Nat, NEW h \in Nat, o >= 1200 * l
  PROVE  ((o * h) * 104) \div 100 >= o * h + 48 * (l * h)
<1>1. PICK x \in Nat, y \in Nat : x = o * h /\ y = l * h
  OBVIOUS
<1>2. x >= 1200 * y
  <2>1. o * h >= (1200 * l) * h /\ (1200 * l) * h = 1200 * (l * h)
    BY SMT
  <2> QED
    BY <1>1, <2>1
<1>3. (x * 104) \div 100 >= x + 48 * y
  BY <1>2, SMT
<1> QED
  BY <1>1, <1>3

\* Whatever is saved and connected when, a video sender's SDP made from the configuration the
\* engine runs with names the raster and codec on the wire, for IP10 a bandwidth that covers every
\* packet, and the rate; where a doubling mode is saved but the chain leaves FRC out, it names
\* exactly twice the rate (output_rate and the SDP of spark_node.cpp, against ensure_pacer).
THEOREM AdvertIsTrue ==
  PacketsCounted /\ HeadersFit => (PlanInit /\ [][PlanNext]_planVars => []AdvertTrue)
<1> SUFFICES ASSUME PacketsCounted, HeadersFit
             PROVE  PlanInit /\ [][PlanNext]_planVars => []AdvertTrue
  OBVIOUS
<1>1. ASSUME PlanInv, pacer # None, env = Env(conf), advert = Advert(conf, machine)
      PROVE  /\ advert.size = pacer.fmt.size /\ advert.ip10 = pacer.fmt.ip10
             /\ advert.fps = IF StagedMode(conf) THEN Twice(pacer.fmt.fps) ELSE pacer.fmt.fps
             /\ ~advert.wide => pacer.window <= Window(pacer.interval, advert.size.h, FALSE, 100)
             /\ advert.ip10 => advert.frame >= (advert.size.w \div 2) * advert.size.h * 4 + 48 * pacer.ppf
  <2>1. PICK s \in Settings, in \in Inputs : conf = Config(in, s)
    BY <1>1 DEF PlanInv
  <2>2. /\ conf.in = in /\ conf.out = s.out /\ conf.ip10 = s.ip10 /\ conf.mode = s.mode
        /\ conf.filters = s.filters
    BY <2>1 DEF Config
  <2>3. /\ env.in = in /\ env.filters = s.filters
        /\ env.mode = (IF s.mode > 0 THEN s.mode ELSE IF s.frc THEN 1 ELSE 0)
    BY <1>1, <2>1, EnvParts
  <2>4. PICK r : r = OutFps(env)
    OBVIOUS
  <2>5. pacer = Paced(s, r, machine) /\ r \in OutRates /\ machine \in Machines
    BY <1>1, <2>1, <2>4, PacerIs
  <2>6. output_rate(conf) = IF StagedMode(conf) THEN Twice(r) ELSE r
    <3>1. s.mode \in 0 .. 3
      BY PlanAssumption
    <3>2. Doubles(env.mode) <=> Doubles(s.mode)
      BY <2>3, <3>1 DEF Doubles
    <3>3. Doubles(s.mode) => env.mode # 0
      BY <2>3, <3>1 DEF Doubles
    <3>4. ASSUME Doubles(s.mode)
          PROVE  StagedMode(conf) <=> "frc" \notin FilterList(env)
      BY <2>2, <2>3, <3>3, <3>4 DEF StagedMode, FilterList
    <3>5. CASE ~Doubles(s.mode)
      BY <2>2, <2>3, <2>4, <3>2, <3>5 DEF output_rate, OutFps, SourceFps, StagedMode
    <3>6. CASE Doubles(s.mode)
      BY <2>2, <2>3, <2>4, <3>2, <3>3, <3>4, <3>6 DEF output_rate, OutFps, SourceFps
    <3> QED
      BY <3>5, <3>6
  <2>7. /\ advert.size = s.out /\ advert.ip10 = s.ip10
        /\ advert.fps = IF StagedMode(conf) THEN Twice(r) ELSE r
        /\ advert.wide = machine.wide
        /\ advert.frame = (IF s.ip10 THEN ((s.out.w \div 2) * s.out.h * 4 * 104) \div 100 ELSE 0)
    BY <1>1, <2>2, <2>6 DEF Advert
  <2>8. PICK f \in Framings : PacedAs(pacer, f, s, r, machine)
    BY <2>5, PacedParts
  <2>9. /\ f.height = s.out.h /\ f.height \in Nat \ {0} /\ P!Octets(f) \in Nat
        /\ f.pgs = s.out.w \div 2 /\ f.pg = (IF s.ip10 THEN 4 ELSE 5)
        /\ pacer.fmt = [size |-> s.out, fps |-> r, ip10 |-> s.ip10]
        /\ pacer.interval = Interval(r) /\ pacer.ppf = packets_per_frame[f]
        /\ pacer.window = Window(pacer.interval, f.height, machine.wide, Fill(s.fill))
        /\ pacer.ppl = LinePackets(f) /\ pacer.ppl \in Nat
    BY <2>8 DEF PacedAs
  <2>10. /\ advert.size = pacer.fmt.size /\ advert.ip10 = pacer.fmt.ip10
         /\ advert.fps = IF StagedMode(conf) THEN Twice(pacer.fmt.fps) ELSE pacer.fmt.fps
    BY <2>7, <2>9
  <2>11. ~advert.wide => pacer.window <= Window(pacer.interval, advert.size.h, FALSE, 100)
    <3>1. pacer.window <= Window(pacer.interval, f.height, machine.wide, 100)
      BY <2>5, <2>9, OutRate, WindowFits
    <3> SUFFICES ASSUME ~advert.wide
                 PROVE  pacer.window <= Window(pacer.interval, advert.size.h, FALSE, 100)
      OBVIOUS
    <3>2. PICK i, h : i = pacer.interval /\ h = f.height
      OBVIOUS
    <3>3. Window(i, h, machine.wide, 100) = Window(i, h, FALSE, 100)
      BY <2>7 DEF Window
    <3>4. h = advert.size.h
      BY <2>7, <2>9, <3>2
    <3> QED
      BY <3>1, <3>2, <3>3, <3>4, Zenon
  <2>12. ASSUME advert.ip10
         PROVE  advert.frame >= (advert.size.w \div 2) * advert.size.h * 4 + 48 * pacer.ppf
    <3>1. s.ip10 /\ f.pg = 4
      BY <2>7, <2>9, <2>12
    <3>2. PICK g \in Nat, h \in Nat, l \in Nat, o \in Nat :
            g = f.pgs /\ h = f.height /\ l = LinePackets(f) /\ o = P!Octets(f)
      <4>1. f.pgs \in Nat
        <5>1. PICK w \in Nat : w = s.out.w
          BY PlanAssumption
        <5>2. w \div 2 \in Nat
          BY SMT
        <5> QED
          BY <2>9, <5>1, <5>2
      <4> QED
        BY <2>9, <4>1
    <3>3. o = g * 4
      BY <3>1, <3>2 DEF P!Octets
    <3>4. o >= 1200 * l /\ packets_per_frame[f] = l * h
      BY <3>1, <3>2 DEF HeadersFit, PacketsCounted
    <3>5. ((o * h) * 104) \div 100 >= o * h + 48 * (l * h)
      <4>1. o >= 1200 * l
        BY <3>4, Zenon
      <4> QED
        BY <4>1, HeadersCovered, Zenon
    <3>6. (g * h) * 4 = o * h
      <4>1. PICK x \in Nat, y \in Nat : x = g /\ y = h
        BY <3>2
      <4>2. (x * y) * 4 = (x * 4) * y
        OBVIOUS
      <4> QED
        BY <3>3, <4>1, <4>2
    <3>7. /\ advert.frame = ((g * h) * 4 * 104) \div 100
          /\ (advert.size.w \div 2) * advert.size.h * 4 = (g * h) * 4
      BY <2>7, <2>9, <3>1, <3>2
    <3> QED
      BY <2>9, <3>4, <3>5, <3>6, <3>7
  <2> QED
    BY <2>10, <2>11, <2>12
<1>2. PlanInv => AdvertTrue
  BY <1>1 DEF AdvertTrue, Advertised
<1> QED
  BY PlanInitInv, PlanNextInv, <1>2, PTL

-----------------------------------------------------------------------------
(* Induction and recursion *)

\* A set of natural numbers has a least one.
LEMMA Least ==
  ASSUME NEW T, T \subseteq Nat, T # {}
  PROVE  \E m \in T : \A k \in T : m <= k
<1>1. PICK R : R = OpToRel(<, Nat)
  OBVIOUS
<1>2. IsWellFoundedOn(R, Nat)
  BY <1>1, NatLessThanWellFounded, Zenon
<1>3. PICK m \in T : \A k \in T : ~(<<k, m>> \in R)
  BY <1>2, WFMin, Zenon
<1>4. \A a \in Nat, b \in Nat : a < b => <<a, b>> \in R
  BY <1>1 DEF OpToRel
<1>5. ASSUME NEW k \in T PROVE m <= k
  <2>1. k \in Nat /\ m \in Nat
    OBVIOUS
  <2>2. ~(k < m)
    BY <1>3, <1>4, <2>1
  <2> QED
    BY <2>1, <2>2
<1> QED
  BY <1>5

\* Induction up to n, over a set.
LEMMA UpTo ==
  ASSUME NEW n \in Nat, NEW T, 0 \in T, \A k \in 0 .. n - 1 : k \in T => k + 1 \in T
  PROVE  \A k \in 0 .. n : k \in T
<1> SUFFICES ASSUME NEW j \in 0 .. n, j \notin T PROVE FALSE
  OBVIOUS
<1> DEFINE U == {k \in 0 .. n : k \notin T}
<1>1. U \subseteq Nat /\ U # {}
  OBVIOUS
<1>2. PICK m \in U : \A k \in U : m <= k
  BY <1>1, Least
<1>3. m \in 0 .. n /\ m \notin T /\ m # 0
  BY <1>2
<1>4. m - 1 \in 0 .. n - 1 /\ m - 1 \in 0 .. n /\ ~(m <= m - 1) /\ (m - 1) + 1 = m
  BY <1>3
<1>5. m - 1 \in T
  BY <1>2, <1>4
<1> QED
  BY <1>3, <1>4, <1>5

\* A function that is defined from its value one below exists.
Unrolls(w, S, a, n, step) ==
  w \in [0 .. n -> S] /\ w[0] = a /\ \A k \in 1 .. n : w[k] = step[k][w[k - 1]]

LEMMA Unrolled ==
  ASSUME NEW S, NEW a \in S, NEW n \in Nat, NEW step \in [1 .. n -> [S -> S]]
  PROVE  \E w : Unrolls(w, S, a, n, step)
<1> DEFINE Good(j, w) == w \in [0 .. j -> S] /\ w[0] = a /\ \A k \in 1 .. j : w[k] = step[k][w[k - 1]]
           T == {j \in 0 .. n : \E w : Good(j, w)}
<1>1. 0 \in T
  <2>1. Good(0, [k \in 0 .. 0 |-> a])
    OBVIOUS
  <2> HIDE DEF Good
  <2>2. 0 \in 0 .. n /\ \E w : Good(0, w)
    BY <2>1
  <2> QED
    BY <2>2
<1>2. ASSUME NEW j \in 0 .. n - 1, j \in T PROVE j + 1 \in T
  <2>1. PICK w : Good(j, w)
    BY <1>2
  <2>2. j \in Nat /\ j + 1 \in 1 .. n /\ j + 1 \in 0 .. n
    OBVIOUS
  <2> DEFINE v == [k \in 0 .. j + 1 |-> IF k = j + 1 THEN step[j + 1][w[j]] ELSE w[k]]
  <2>3. w[j] \in S /\ step[j + 1][w[j]] \in S
    BY <2>1, <2>2
  <2>4. v \in [0 .. j + 1 -> S] /\ v[0] = a
    BY <2>1, <2>2, <2>3
  <2>5. ASSUME NEW k \in 1 .. j + 1 PROVE v[k] = step[k][v[k - 1]]
    <3>1. CASE k = j + 1
      BY <2>2, <3>1
    <3>2. CASE k # j + 1
      BY <2>1, <2>2, <3>2
    <3> QED
      BY <3>1, <3>2
  <2> QED
    BY <2>2, <2>4, <2>5
<1> HIDE DEF Good
<1>3. n \in T
  <2> HIDE DEF T
  <2>1. \A k \in 0 .. n - 1 : k \in T => k + 1 \in T
    BY <1>2
  <2>2. \A k \in 0 .. n : k \in T
    BY <1>1, <2>1, UpTo, Zenon
  <2> QED
    BY <2>2
<1> QED
  BY <1>3 DEF Good, Unrolls

(* Recursion downwards *)

\* A function whose value at a place is made of those further on exists.
Descends(f, S, n, step) ==
  f \in [1 .. n -> S] /\ \A p \in 1 .. n : f[p] = step[p][f]

\* What step makes of a place takes only what is further on.
LooksOn(S, n, step) ==
  \A p \in 1 .. n : \A f \in [1 .. n -> S], g \in [1 .. n -> S] :
    (\A q \in p + 1 .. n : f[q] = g[q]) => step[p][f] = step[p][g]

LEMMA Descent ==
  ASSUME NEW S, NEW a \in S, NEW n \in Nat,
         NEW step \in [1 .. n -> [[1 .. n -> S] -> S]], LooksOn(S, n, step)
  PROVE  \E f : Descends(f, S, n, step)
<1> DEFINE F == [1 .. n -> S]
           put == [k \in 1 .. n |-> [f \in F |-> [f EXCEPT ![n - k + 1] = step[n - k + 1][f]]]]
<1>1. put \in [1 .. n -> [F -> F]]
  <2>1. ASSUME NEW k \in 1 .. n, NEW f \in F PROVE [f EXCEPT ![n - k + 1] = step[n - k + 1][f]] \in F
    <3>1. n - k + 1 \in 1 .. n
      OBVIOUS
    <3> QED
      BY <3>1
  <2> QED
    BY <2>1
<1>2. [p \in 1 .. n |-> a] \in F
  OBVIOUS
<1>3. PICK w : Unrolls(w, F, [p \in 1 .. n |-> a], n, put)
  <2> HIDE DEF put, F
  <2> QED
    BY <1>1, <1>2, Unrolled, Zenon
<1>4. w \in [0 .. n -> F] /\ \A k \in 1 .. n : w[k] = put[k][w[k - 1]]
  BY <1>3 DEF Unrolls
\* Once written, a place keeps its value.
<1>5. ASSUME NEW k \in 1 .. n
      PROVE  /\ w[k] = [w[k - 1] EXCEPT ![n - k + 1] = step[n - k + 1][w[k - 1]]]
             /\ w[k] \in F /\ w[k - 1] \in F
  <2>1. k - 1 \in 0 .. n /\ k \in 0 .. n
    OBVIOUS
  <2>2. w[k - 1] \in F /\ w[k] \in F
    BY <1>4, <2>1
  <2>3. put[k][w[k - 1]] = [w[k - 1] EXCEPT ![n - k + 1] = step[n - k + 1][w[k - 1]]]
    BY <2>2
  <2> HIDE DEF put, F
  <2> QED
    BY <1>4, <2>2, <2>3
<1> HIDE DEF put
<1> DEFINE Settled(k) == /\ w[k] \in F
                         /\ \A p \in n - k + 1 .. n : w[k][p] = step[p][w[k]]
           T == {k \in 0 .. n : Settled(k)}
<1>6. 0 \in T
  <2>1. 0 \in 0 .. n /\ w[0] \in F
    BY <1>4
  <2>2. Settled(0)
    <3>1. \A p \in n - 0 + 1 .. n : FALSE
      OBVIOUS
    <3> QED
      BY <2>1, <3>1
  <2> HIDE DEF Settled
  <2> QED
    BY <2>1, <2>2
<1>7. ASSUME NEW k \in 0 .. n - 1, k \in T PROVE k + 1 \in T
  <2>1. k + 1 \in 1 .. n /\ (k + 1) - 1 = k /\ n - (k + 1) + 1 = n - k /\ n - k \in 1 .. n
    OBVIOUS
  <2>2. /\ w[k + 1] = [w[k] EXCEPT ![n - k] = step[n - k][w[k]]]
        /\ w[k + 1] \in F /\ w[k] \in F
    BY <1>5, <2>1
  <2>3. \A q \in n - k + 1 .. n : q \in 1 .. n /\ w[k + 1][q] = w[k][q]
    BY <2>1, <2>2
  <2>4. ASSUME NEW p \in n - k .. n PROVE w[k + 1][p] = step[p][w[k + 1]]
    <3>1. p \in 1 .. n /\ \A q \in p + 1 .. n : q \in n - k + 1 .. n
      BY <2>1
    <3>2. step[p][w[k + 1]] = step[p][w[k]]
      <4>1. \A q \in p + 1 .. n : w[k + 1][q] = w[k][q]
        BY <2>3, <3>1
      <4>2. w[k + 1] \in [1 .. n -> S] /\ w[k] \in [1 .. n -> S]
        BY <2>2
      <4> QED
        BY <3>1, <4>1, <4>2, Zenon DEF LooksOn
    <3>3. CASE p = n - k
      BY <2>1, <2>2, <3>2, <3>3
    <3>4. CASE p # n - k
      <4>1. p \in n - k + 1 .. n
        BY <2>1, <3>4
      <4>2. w[k][p] = step[p][w[k]]
        BY <1>7, <4>1
      <4> QED
        BY <2>3, <3>2, <4>1, <4>2
    <3> QED
      BY <3>3, <3>4
  <2>5. \A p \in n - (k + 1) + 1 .. n : w[k + 1][p] = step[p][w[k + 1]]
    BY <2>1, <2>4
  <2>6. k + 1 \in 0 .. n /\ Settled(k + 1)
    <3>1. k + 1 \in 0 .. n
      BY <2>1
    <3> QED
      BY <2>2, <2>5, <3>1
  <2> HIDE DEF Settled
  <2> QED
    BY <2>6
<1>8. n \in T
  <2> HIDE DEF T
  <2>1. \A k \in 0 .. n - 1 : k \in T => k + 1 \in T
    BY <1>7
  <2>2. \A k \in 0 .. n : k \in T
    BY <1>6, <2>1, UpTo, Zenon
  <2> QED
    BY <2>2
<1>9. w[n] \in F /\ \A p \in 1 .. n : w[n][p] = step[p][w[n]]
  BY <1>8
<1>10. Descends(w[n], S, n, step)
  BY <1>9 DEF Descends
<1> QED
  BY <1>10, Zenon

-----------------------------------------------------------------------------
(* Routing.  For every set of senders and receivers, every SDP and framing *)
(* of it, and every number of operations.  A reply is told to be complete  *)
(* by its last tokens, and what is read of it is its body without chunks.  *)

\* The end of the chunk at p, and what BodyRead makes of b from p on.
ChunkEnd(b, p) == p + 1 + Size(b[p])

Further(b, p, f) ==
  IF p >= Len(b) \/ b[p + 1] # Lf \/ Size(b[p]) = 0 THEN <<>>
  ELSE SubSeq(b, p + 2, IF ChunkEnd(b, p) < Len(b) THEN ChunkEnd(b, p) ELSE Len(b))
         \o (IF ChunkEnd(b, p) + 2 <= Len(b) + 4 THEN f[ChunkEnd(b, p) + 2] ELSE <<>>)

LEMMA FurtherType ==
  ASSUME NEW T, NEW b \in Seq(T), NEW p \in 1 .. Len(b) + 4,
         NEW f \in [1 .. Len(b) + 4 -> Seq(T)]
  PROVE  Further(b, p, f) \in Seq(T)
<1>1. PICK e : e = ChunkEnd(b, p)
  OBVIOUS
<1>2. PICK n \in Nat : n = Len(b)
  OBVIOUS
<1>3. e \in Nat /\ e + 2 > p /\ p \in Nat /\ e + 2 \in Nat /\ e + 2 >= 1
  BY <1>1, <1>2 DEF ChunkEnd, Size
<1>4. PICK l : l = IF e < n THEN e ELSE n
  OBVIOUS
<1>5. l \in Int /\ l <= n /\ \A i \in p + 2 .. l : i \in 1 .. n
  BY <1>2, <1>3, <1>4
<1>6. SubSeq(b, p + 2, l) \in Seq(T)
  <2>1. \A i \in p + 2 .. l : b[i] \in T
    BY <1>2, <1>5
  <2>2. p + 2 \in Int
    BY <1>3
  <2> QED
    BY <1>5, <2>1, <2>2, SubSeqProperties
<1>7. ASSUME e + 2 <= n + 4 PROVE f[e + 2] \in Seq(T)
  <2>1. e + 2 \in 1 .. n + 4
    BY <1>2, <1>3, <1>7
  <2> QED
    BY <1>2, <2>1
<1>8. PICK t : t = IF e + 2 <= n + 4 THEN f[e + 2] ELSE <<>>
  OBVIOUS
<1>9. t \in Seq(T)
  BY <1>7, <1>8
<1>10. SubSeq(b, p + 2, l) \o t \in Seq(T)
  BY <1>6, <1>9, ConcatProperties
<1>11. Further(b, p, f) = IF p >= n \/ b[p + 1] # Lf \/ Size(b[p]) = 0 THEN <<>>
                          ELSE SubSeq(b, p + 2, l) \o t
  BY <1>1, <1>2, <1>4, <1>8, Zenon DEF Further
<1>12. <<>> \in Seq(T)
  OBVIOUS
<1> QED
  BY <1>10, <1>11, <1>12, Zenon

LEMMA FurtherLooksOn ==
  ASSUME NEW T, NEW b \in Seq(T), NEW p \in 1 .. Len(b) + 4, NEW f, NEW g,
         \A q \in p + 1 .. Len(b) + 4 : f[q] = g[q]
  PROVE  Further(b, p, f) = Further(b, p, g)
<1>1. PICK e : e = ChunkEnd(b, p)
  OBVIOUS
<1>2. PICK n \in Nat : n = Len(b)
  OBVIOUS
<1>3. e \in Nat /\ e + 2 > p /\ p \in Nat
  BY <1>1, <1>2 DEF ChunkEnd, Size
<1>4. PICK t, u : /\ t = (IF e + 2 <= n + 4 THEN f[e + 2] ELSE <<>>)
                  /\ u = (IF e + 2 <= n + 4 THEN g[e + 2] ELSE <<>>)
  OBVIOUS
<1>5. t = u
  <2>1. CASE e + 2 <= n + 4
    <3>1. e + 2 \in p + 1 .. n + 4
      BY <1>2, <1>3, <2>1
    <3> QED
      BY <1>2, <1>4, <2>1, <3>1
  <2> QED
    BY <1>4, <2>1
<1> QED
  BY <1>1, <1>2, <1>4, <1>5, Zenon DEF Further

BehindHeader(raw) == SubSeq(raw, Len(Header) + 1, Len(raw))

Dechunks(f, b) == f = [p \in 1 .. Len(b) + 4 |-> Further(b, p, f)]

LEMMA BodyUnfolds ==
  ASSUME NEW T, NEW raw, BehindHeader(raw) \in Seq(T)
  PROVE  \E f : Dechunks(f, BehindHeader(raw)) /\ BodyRead("chunked", raw) = f[1]
<1> DEFINE b == BehindHeader(raw)
<1> HIDE DEF b
<1>0. b \in Seq(T)
  BY DEF b
<1>1. PICK n \in Nat : n = Len(b) + 4
  BY <1>0
<1>2. PICK S : S = Seq(T)
  OBVIOUS
<1> DEFINE step == [p \in 1 .. n |-> [f \in [1 .. n -> S] |-> Further(b, p, f)]]
<1>3. /\ step \in [1 .. n -> [[1 .. n -> S] -> S]]
      /\ \A p \in 1 .. n : \A f \in [1 .. n -> S] : step[p][f] = Further(b, p, f)
  <2>1. ASSUME NEW p \in 1 .. n, NEW f \in [1 .. n -> S] PROVE Further(b, p, f) \in S
    BY <1>0, <1>1, <1>2, FurtherType
  <2> QED
    BY <2>1
<1> HIDE DEF step
<1>4. LooksOn(S, n, step)
  <2>1. ASSUME NEW p \in 1 .. n, NEW f \in [1 .. n -> S], NEW g \in [1 .. n -> S],
               \A q \in p + 1 .. n : f[q] = g[q]
        PROVE  step[p][f] = step[p][g]
    <3>1. Further(b, p, f) = Further(b, p, g)
      BY <1>0, <1>1, <2>1, FurtherLooksOn
    <3> QED
      BY <1>3, <3>1
  <2> QED
    BY <2>1 DEF LooksOn
<1>5. <<>> \in S
  BY <1>2
<1>6. PICK w : Descends(w, S, n, step)
  BY <1>3, <1>4, <1>5, Descent, Zenon
<1>7. Dechunks(w, b)
  <2>1. w \in [1 .. n -> S] /\ \A p \in 1 .. n : w[p] = Further(b, p, w)
    BY <1>3, <1>6 DEF Descends
  <2>2. w = [p \in 1 .. n |-> Further(b, p, w)]
    BY <2>1
  <2> QED
    BY <1>1, <2>2 DEF Dechunks
<1>8. PICK f : /\ f = [p \in 1 .. Len(b) + 4 |->
                   IF p >= Len(b) \/ b[p + 1] # Lf \/ Size(b[p]) = 0 THEN <<>>
                   ELSE SubSeq(b, p + 2,
                               IF p + 1 + Size(b[p]) < Len(b) THEN p + 1 + Size(b[p]) ELSE Len(b))
                          \o (IF (p + 1 + Size(b[p])) + 2 <= Len(b) + 4
                              THEN f[(p + 1 + Size(b[p])) + 2] ELSE <<>>)]
               /\ BodyRead("chunked", raw) = f[1]
  <2>1. w = [p \in 1 .. Len(b) + 4 |->
               IF p >= Len(b) \/ b[p + 1] # Lf \/ Size(b[p]) = 0 THEN <<>>
               ELSE SubSeq(b, p + 2,
                           IF p + 1 + Size(b[p]) < Len(b) THEN p + 1 + Size(b[p]) ELSE Len(b))
                      \o (IF (p + 1 + Size(b[p])) + 2 <= Len(b) + 4
                          THEN w[(p + 1 + Size(b[p])) + 2] ELSE <<>>)]
    BY <1>7, Zenon DEF Dechunks, Further, ChunkEnd
  <2> QED
    BY <2>1, Zenon DEF BodyRead, BehindHeader, b
<1>9. Dechunks(f, b)
  BY <1>8, Zenon DEF Dechunks, Further, ChunkEnd
<1> QED
  BY <1>8, <1>9, Zenon DEF b

LEMMA Appended ==
  ASSUME NEW a, NEW b, NEW c, NEW d
  PROVE  <<a, b>> \o <<c>> = <<a, b, c>> /\ <<a, b, c>> \o <<d>> = <<a, b, c, d>>
<1> DEFINE S == {a, b, c, d}
<1>1. /\ <<a, b>> \in Seq(S) /\ <<c>> \in Seq(S) /\ <<a, b, c>> \in Seq(S)
      /\ <<d>> \in Seq(S) /\ <<a, b, c, d>> \in Seq(S)
  OBVIOUS
<1> HIDE DEF S
<1>2. <<a, b>> \o <<c>> = <<a, b, c>>
  <2>1. PICK s, t, u : s = <<a, b>> /\ t = <<c>> /\ u = <<a, b, c>>
    OBVIOUS
  <2>2. /\ s \o t \in Seq(S) /\ Len(s \o t) = Len(s) + Len(t)
        /\ \A i \in 1 .. Len(s) + Len(t) :
             (s \o t)[i] = IF i <= Len(s) THEN s[i] ELSE t[i - Len(s)]
    BY <1>1, <2>1, ConcatProperties
  <2>3. u \in Seq(S) /\ Len(u) = 3 /\ u[1] = a /\ u[2] = b /\ u[3] = c
    BY <1>1, <2>1
  <2>4. Len(s) = 2 /\ Len(t) = 1 /\ s[1] = a /\ s[2] = b /\ t[1] = c
    BY <2>1
  <2>5. PICK v : v = s \o t
    OBVIOUS
  <2>6. Len(v) = 3 /\ v[1] = a /\ v[2] = b /\ v[3] = c /\ v \in Seq(S)
    BY <2>2, <2>4, <2>5
  <2>7. \A i \in 1 .. 3 : v[i] = u[i]
    <3>1. \A i \in 1 .. 3 : i = 1 \/ i = 2 \/ i = 3
      OBVIOUS
    <3> QED
      BY <2>3, <2>6, <3>1
  <2>8. v = u
    BY <2>3, <2>6, <2>7, SeqEqual
  <2> QED
    BY <2>1, <2>5, <2>8
<1>3. <<a, b, c>> \o <<d>> = <<a, b, c, d>>
  <2>1. PICK s, t, u : s = <<a, b, c>> /\ t = <<d>> /\ u = <<a, b, c, d>>
    OBVIOUS
  <2>2. /\ s \o t \in Seq(S) /\ Len(s \o t) = Len(s) + Len(t)
        /\ \A i \in 1 .. Len(s) + Len(t) :
             (s \o t)[i] = IF i <= Len(s) THEN s[i] ELSE t[i - Len(s)]
    BY <1>1, <2>1, ConcatProperties
  <2>3. u \in Seq(S) /\ Len(u) = 4 /\ u[1] = a /\ u[2] = b /\ u[3] = c /\ u[4] = d
    BY <1>1, <2>1
  <2>4. Len(s) = 3 /\ Len(t) = 1 /\ s[1] = a /\ s[2] = b /\ s[3] = c /\ t[1] = d
    BY <2>1
  <2>5. PICK v : v = s \o t
    OBVIOUS
  <2>6. Len(v) = 4 /\ v[1] = a /\ v[2] = b /\ v[3] = c /\ v[4] = d /\ v \in Seq(S)
    BY <2>2, <2>4, <2>5
  <2>7. \A i \in 1 .. 4 : v[i] = u[i]
    <3>1. \A i \in 1 .. 4 : i = 1 \/ i = 2 \/ i = 3 \/ i = 4
      OBVIOUS
    <3> QED
      BY <2>3, <2>6, <3>1
  <2>8. v = u
    BY <2>3, <2>6, <2>7, SeqEqual
  <2> QED
    BY <2>1, <2>5, <2>8
<1> QED
  BY <1>2, <1>3

\* The chunks of a body that is sent token by token.
LEMMA ChunkIs ==
  ASSUME NEW x
  PROVE  Chunk(<<x>>) = <<"1", Lf, x, Lf>>
<1>1. Len(<<x>>) = 1 /\ ChunkSizes[1] = "1"
  BY DEF ChunkSizes
<1>2. Chunk(<<x>>) = <<"1", Lf>> \o <<x>> \o <<Lf>>
  BY <1>1, Zenon DEF Chunk
<1>3. <<"1", Lf>> \o <<x>> = <<"1", Lf, x>>
  BY Appended DEF Lf
<1>4. <<"1", Lf, x>> \o <<Lf>> = <<"1", Lf, x, Lf>>
  BY Appended
<1> QED
  BY <1>2, <1>3, <1>4, Zenon

BodyTokens(body) == ToSet(body) \cup {"1", Lf}

\* The first m tokens of body, a chunk each.
Spelled(f, body, m) ==
  /\ f \in Seq(BodyTokens(body)) /\ Len(f) = 4 * m
  /\ \A i \in 1 .. m :
       f[4 * i - 3] = "1" /\ f[4 * i - 2] = Lf /\ f[4 * i - 1] = body[i] /\ f[4 * i] = Lf

LEMMA SpelledMore ==
  ASSUME NEW body, body \in Seq(ToSet(body)), NEW k \in 0 .. Len(body) - 1, NEW f, Spelled(f, body, k)
  PROVE  Spelled(f \o Chunk(<<body[k + 1]>>), body, k + 1)
<1>1. PICK x, c : x = body[k + 1] /\ c = <<"1", Lf, x, Lf>>
  OBVIOUS
<1>2. k \in Nat /\ k + 1 \in 1 .. Len(body)
  OBVIOUS
<1>3. x \in ToSet(body)
  BY <1>1, <1>2 DEF ToSet
<1>4. c \in Seq(BodyTokens(body)) /\ Len(c) = 4 /\ c[1] = "1" /\ c[2] = Lf /\ c[3] = x /\ c[4] = Lf
  <2>1. x \in BodyTokens(body) /\ "1" \in BodyTokens(body) /\ Lf \in BodyTokens(body)
    BY <1>3 DEF BodyTokens
  <2> QED
    BY <1>1, <2>1
<1>5. f \in Seq(BodyTokens(body)) /\ Len(f) = 4 * k
  BY DEF Spelled
<1>6. PICK g : g = f \o c
  OBVIOUS
<1>7. /\ g \in Seq(BodyTokens(body)) /\ Len(g) = 4 * k + 4
      /\ \A i \in 1 .. 4 * k + 4 : g[i] = IF i <= 4 * k THEN f[i] ELSE c[i - 4 * k]
  <2>1. /\ f \o c \in Seq(BodyTokens(body)) /\ Len(f \o c) = Len(f) + Len(c)
        /\ \A i \in 1 .. Len(f) + Len(c) :
             (f \o c)[i] = IF i <= Len(f) THEN f[i] ELSE c[i - Len(f)]
    BY <1>4, <1>5, ConcatProperties
  <2> QED
    BY <1>4, <1>5, <1>6, <2>1
<1>8. ASSUME NEW i \in 1 .. k + 1
      PROVE  g[4 * i - 3] = "1" /\ g[4 * i - 2] = Lf /\ g[4 * i - 1] = body[i] /\ g[4 * i] = Lf
  <2>1. CASE i = k + 1
    <3>1. /\ 4 * i - 3 \in 1 .. 4 * k + 4 /\ ~(4 * i - 3 <= 4 * k) /\ (4 * i - 3) - 4 * k = 1
          /\ 4 * i - 2 \in 1 .. 4 * k + 4 /\ ~(4 * i - 2 <= 4 * k) /\ (4 * i - 2) - 4 * k = 2
          /\ 4 * i - 1 \in 1 .. 4 * k + 4 /\ ~(4 * i - 1 <= 4 * k) /\ (4 * i - 1) - 4 * k = 3
          /\ 4 * i \in 1 .. 4 * k + 4 /\ ~(4 * i <= 4 * k) /\ 4 * i - 4 * k = 4
      BY <1>2, <2>1
    <3> QED
      BY <1>1, <1>4, <1>7, <2>1, <3>1
  <2>2. CASE i # k + 1
    <3>1. i \in 1 .. k
      BY <1>2, <2>2
    <3>2. /\ 4 * i - 3 \in 1 .. 4 * k + 4 /\ 4 * i - 3 <= 4 * k
          /\ 4 * i - 2 \in 1 .. 4 * k + 4 /\ 4 * i - 2 <= 4 * k
          /\ 4 * i - 1 \in 1 .. 4 * k + 4 /\ 4 * i - 1 <= 4 * k
          /\ 4 * i \in 1 .. 4 * k + 4 /\ 4 * i <= 4 * k
      BY <1>2, <3>1
    <3>3. f[4 * i - 3] = "1" /\ f[4 * i - 2] = Lf /\ f[4 * i - 1] = body[i] /\ f[4 * i] = Lf
      BY <3>1 DEF Spelled
    <3> QED
      BY <1>7, <3>2, <3>3
  <2> QED
    BY <2>1, <2>2
<1>9. Chunk(<<body[k + 1]>>) = c
  BY <1>1, ChunkIs
<1>10. 4 * (k + 1) = 4 * k + 4
  BY <1>2
<1>11. Spelled(g, body, k + 1)
  BY <1>7, <1>8, <1>10 DEF Spelled
<1> QED
  BY <1>6, <1>9, <1>11

LEMMA ChunksAre ==
  ASSUME NEW body, body \in Seq(ToSet(body))
  PROVE  Spelled(FlattenSeq([i \in DOMAIN body |-> Chunk(<<body[i]>>)]), body, Len(body))
<1>1. PICK n \in Nat : n = Len(body) /\ DOMAIN body = 1 .. n
  BY LenProperties
<1>2. PICK S, C : S = Seq(BodyTokens(body)) /\ C = [i \in DOMAIN body |-> Chunk(<<body[i]>>)]
  OBVIOUS
<1>3. /\ C \in [1 .. n -> S] /\ C \in Seq(S) /\ Len(C) = n
      /\ \A i \in 1 .. n : C[i] = Chunk(<<body[i]>>)
  <2>1. ASSUME NEW i \in 1 .. n PROVE Chunk(<<body[i]>>) \in S
    <3>1. PICK x : x = body[i]
      OBVIOUS
    <3>2. x \in BodyTokens(body) /\ "1" \in BodyTokens(body) /\ Lf \in BodyTokens(body)
      BY <1>1, <2>1, <3>1 DEF BodyTokens, ToSet
    <3>3. <<"1", Lf, x, Lf>> \in Seq(BodyTokens(body))
      BY <3>2
    <3> QED
      BY <1>2, <3>1, <3>3, ChunkIs
  <2>2. C = [i \in 1 .. n |-> Chunk(<<body[i]>>)]
    BY <1>1, <1>2
  <2>3. C \in [1 .. n -> S] /\ \A i \in 1 .. n : C[i] = Chunk(<<body[i]>>)
    BY <2>1, <2>2
  <2> QED
    BY <2>3
<1>4. CASE n = 0
  <2>1. FlattenSeq(C) = C
    BY <1>3, <1>4, Zenon DEF FlattenSeq
  <2>2. C = <<>>
    BY <1>3, <1>4
  <2>3. Spelled(<<>>, body, 0)
    BY DEF Spelled
  <2> QED
    BY <1>1, <1>2, <1>4, <2>1, <2>2, <2>3
<1>5. CASE n # 0
  <2> DEFINE step == [k \in 1 .. n |-> [s \in S |-> s \o C[k]]]
  <2>1. /\ step \in [1 .. n -> [S -> S]]
        /\ \A k \in 1 .. n : \A s \in S : step[k][s] = s \o C[k]
    <3>1. ASSUME NEW k \in 1 .. n, NEW s \in S PROVE s \o C[k] \in S
      <4>1. C[k] \in S
        BY <1>3
      <4> QED
        BY <1>2, <4>1, ConcatProperties
    <3> QED
      BY <3>1
  <2>2. <<>> \in S
    BY <1>2
  <2>3. PICK w : Unrolls(w, S, <<>>, n, step)
    <3> HIDE DEF step
    <3> QED
      BY <2>1, <2>2, Unrolled, Zenon
  <2> HIDE DEF step
  <2>4. \A k \in 1 .. n : w[k - 1] \in S /\ w[k] = w[k - 1] \o C[k]
    <3>1. \A k \in 1 .. n : k - 1 \in 0 .. n
      OBVIOUS
    <3> QED
      BY <2>1, <2>3, <3>1 DEF Unrolls
  <2> DEFINE v == [k \in 1 .. n |-> w[k]]
  <2>5. v = [i \in 1 .. n |-> IF i = 1 THEN C[i] ELSE v[i - 1] \o C[i]]
    <3>1. ASSUME NEW i \in 1 .. n PROVE v[i] = IF i = 1 THEN C[i] ELSE v[i - 1] \o C[i]
      <4>1. CASE i = 1
        <5>1. v[1] = w[0] \o C[1] /\ w[0] = <<>> /\ C[1] \in S
          <6>1. 1 \in 1 .. n /\ 1 - 1 = 0
            BY <4>1
          <6>2. v[1] = w[1] /\ w[1] = w[1 - 1] \o C[1] /\ C[1] \in S
            BY <1>3, <2>4, <6>1
          <6> QED
            BY <2>3, <6>1, <6>2 DEF Unrolls
        <5>2. <<>> \o C[1] = C[1]
          BY <1>2, <5>1, ConcatEmptySeq
        <5> QED
          BY <4>1, <5>1, <5>2
      <4>2. CASE i # 1
        <5>1. i - 1 \in 1 .. n
          BY <4>2
        <5> QED
          BY <2>4, <4>2, <5>1
      <4> QED
        BY <4>1, <4>2
    <3> QED
      BY <3>1
  <2> HIDE DEF v
  <2>6. PICK f : /\ f = [i \in 1 .. Len(C) |-> IF i = 1 THEN C[i] ELSE f[i - 1] \o C[i]]
                 /\ FlattenSeq(C) = f[Len(C)]
    <3>1. v = [i \in 1 .. Len(C) |-> IF i = 1 THEN C[i] ELSE v[i - 1] \o C[i]]
      BY <1>3, <2>5, Zenon
    <3>2. Len(C) # 0
      BY <1>3, <1>5
    <3> QED
      BY <3>1, <3>2, Zenon DEF FlattenSeq
  <2>7. \A i \in 1 .. n : f[i] = IF i = 1 THEN C[i] ELSE f[i - 1] \o C[i]
    BY <1>3, <2>6
  <2> DEFINE T == {k \in 0 .. n : k = 0 \/ Spelled(f[k], body, k)}
  <2>8. 0 \in T
    OBVIOUS
  <2>9. ASSUME NEW k \in 0 .. n - 1, k \in T PROVE k + 1 \in T
    <3>1. k + 1 \in 1 .. n /\ k + 1 \in 0 .. n /\ (k + 1) - 1 = k /\ k \in 0 .. Len(body) - 1
      BY <1>1
    <3>2. C[k + 1] = Chunk(<<body[k + 1]>>)
      BY <1>3, <3>1
    <3>3. CASE k = 0
      <4>1. f[1] = C[1]
        BY <2>7, <3>1, <3>3
      <4>2. Spelled(<<>>, body, 0)
        BY DEF Spelled
      <4>3. Spelled(<<>> \o Chunk(<<body[k + 1]>>), body, k + 1)
        BY <3>1, <3>3, <4>2, SpelledMore
      <4>4. <<>> \o C[1] = C[1]
        <5>1. C[1] \in Seq(BodyTokens(body))
          BY <1>2, <1>3, <3>1, <3>3
        <5> QED
          BY <5>1, ConcatEmptySeq
      <4>5. k + 1 = 1
        BY <3>3
      <4> QED
        BY <3>1, <3>2, <4>1, <4>3, <4>4, <4>5
    <3>4. CASE k # 0
      <4>1. Spelled(f[k], body, k)
        BY <2>9, <3>4
      <4>2. Spelled(f[k] \o Chunk(<<body[k + 1]>>), body, k + 1)
        BY <1>1, <3>1, <4>1, SpelledMore
      <4>3. f[k + 1] = f[k] \o C[k + 1]
        <5>1. k + 1 # 1
          BY <3>4
        <5> QED
          BY <2>7, <3>1, <5>1
      <4> QED
        BY <3>1, <3>2, <4>2, <4>3
    <3> QED
      BY <3>3, <3>4
  <2> HIDE DEF T
  <2>10. \A k \in 0 .. n : k \in T
    BY <2>8, <2>9, UpTo, Zenon
  <2>11. Spelled(f[n], body, n)
    <3>1. n \in T
      BY <2>10
    <3> QED
      BY <1>5, <3>1 DEF T
  <2> QED
    BY <1>1, <1>2, <1>3, <2>6, <2>11
<1> QED
  BY <1>4, <1>5

\* A reply whose end chunk, the only "0" of it, is its token e.
EndsAt(r, e) ==
  /\ e \in Nat /\ 4 <= e /\ r \in Seq(ToSet(r)) /\ Len(r) = e + 2
  /\ r[e - 1] = Lf /\ r[e] = "0" /\ r[e + 1] = Lf /\ r[e + 2] = Lf
  /\ \A j \in 1 .. e + 2 : r[j] = "0" => j = e

LEMMA Prefix ==
  ASSUME NEW r, r \in Seq(ToSet(r)), NEW n \in 0 .. Len(r)
  PROVE  /\ SubSeq(r, 1, n) \in Seq(ToSet(r)) /\ Len(SubSeq(r, 1, n)) = n
         /\ \A i \in 1 .. n : SubSeq(r, 1, n)[i] = r[i]
<1>1. Len(r) \in Nat /\ n \in Nat /\ \A i \in 1 .. n : i \in 1 .. Len(r)
  BY LenProperties
<1>2. \A i \in 1 .. n : r[i] \in ToSet(r)
  BY <1>1, ElementOfSeq
<1>3. /\ SubSeq(r, 1, n) \in Seq(ToSet(r))
      /\ Len(SubSeq(r, 1, n)) = IF 1 <= n THEN n - 1 + 1 ELSE 0
      /\ \A i \in 1 .. n - 1 + 1 : SubSeq(r, 1, n)[i] = r[1 + i - 1]
  BY <1>1, <1>2, SubSeqProperties
<1>4. \A i \in 1 .. n : SubSeq(r, 1, n)[i] = r[i]
  <2>1. \A i \in 1 .. n : i \in 1 .. n - 1 + 1 /\ 1 + i - 1 = i
    BY <1>1
  <2> QED
    BY <1>3, <2>1
<1> QED
  BY <1>1, <1>3, <1>4

\* Such a reply is complete from its last but one token on, and not before.
LEMMA CompleteAt ==
  ASSUME NEW r, NEW e, EndsAt(r, e), NEW n \in 0 .. Len(r), NEW want
  PROVE  /\ Complete("chunked", SubSeq(r, 1, n), want) => e + 1 <= n
         /\ e + 1 <= n => Complete("chunked", SubSeq(r, 1, n), want)
<1>1. PICK raw : raw = SubSeq(r, 1, n)
  OBVIOUS
<1>2. Len(raw) = n /\ \A i \in 1 .. n : raw[i] = r[i]
  BY <1>1, Prefix DEF EndsAt
<1>3. e \in Nat /\ 4 <= e /\ n \in Nat /\ n <= e + 2
  BY DEF EndsAt
<1>4. Len(Header) = 3
  BY DEF Header
<1>5. \A i \in 3 .. n - 2 : SubSeq(raw, i, i + 2) = <<raw[i], raw[i + 1], raw[i + 2]>>
  <2>1. TAKE i \in 3 .. n - 2
  <2>2. i \in 1 .. n /\ i + 1 \in 1 .. n /\ i + 2 \in 1 .. n /\ i \in Int /\ i + 2 \in Int
    BY <1>3
  <2>3. PICK T : T = {raw[i], raw[i + 1], raw[i + 2]}
    OBVIOUS
  <2>4. \A j \in i .. i + 2 : raw[j] \in T
    <3>1. \A j \in i .. i + 2 : j = i \/ j = i + 1 \/ j = i + 2
      BY <2>2
    <3> QED
      BY <2>3, <3>1
  <2>5. PICK s : s = SubSeq(raw, i, i + 2)
    OBVIOUS
  <2>6. s \in Seq(T) /\ Len(s) = 3 /\ \A j \in 1 .. 3 : s[j] = raw[i + j - 1]
    <3>1. /\ SubSeq(raw, i, i + 2) \in Seq(T)
          /\ Len(SubSeq(raw, i, i + 2)) = IF i <= i + 2 THEN i + 2 - i + 1 ELSE 0
          /\ \A j \in 1 .. i + 2 - i + 1 : SubSeq(raw, i, i + 2)[j] = raw[i + j - 1]
      BY <2>2, <2>4, SubSeqProperties
    <3>2. i <= i + 2 /\ i + 2 - i + 1 = 3
      BY <2>2
    <3> QED
      BY <2>5, <3>1, <3>2
  <2>7. s[1] = raw[i] /\ s[2] = raw[i + 1] /\ s[3] = raw[i + 2]
    <3>1. i + 1 - 1 = i /\ i + 2 - 1 = i + 1 /\ i + 3 - 1 = i + 2
      BY <2>2
    <3> QED
      BY <2>6, <3>1
  <2>8. s = <<raw[i], raw[i + 1], raw[i + 2]>>
    BY <2>3, <2>6, <2>7
  <2> QED
    BY <2>5, <2>8
<1>6. Complete("chunked", raw, want) <=>
        3 <= n /\ \E i \in 3 .. n - 2 : raw[i] = Lf /\ raw[i + 1] = "0" /\ raw[i + 2] = Lf
  <2>1. HeadSeen(raw) <=> 3 <= n
    BY <1>2, <1>3, <1>4 DEF HeadSeen
  <2>2. Complete("chunked", raw, want) <=>
          HeadSeen(raw) /\ \E i \in Len(Header) .. Len(raw) - 2 : SubSeq(raw, i, i + 2) = <<Lf, "0", Lf>>
    BY Zenon DEF Complete
  <2>3. \A i \in 3 .. n - 2 :
          SubSeq(raw, i, i + 2) = <<Lf, "0", Lf>> <=> raw[i] = Lf /\ raw[i + 1] = "0" /\ raw[i + 2] = Lf
    <3>1. TAKE i \in 3 .. n - 2
    <3>2. SubSeq(raw, i, i + 2) = <<raw[i], raw[i + 1], raw[i + 2]>>
      BY <1>5
    <3> QED
      BY <3>2
  <2> QED
    BY <1>2, <1>4, <2>1, <2>2, <2>3
<1>7. ASSUME NEW i \in 3 .. n - 2, raw[i + 1] = "0" PROVE e + 1 <= n
  <2>1. i + 1 \in 1 .. n /\ i + 1 \in 1 .. e + 2
    BY <1>3
  <2>2. i + 1 = e
    BY <1>2, <1>7, <2>1 DEF EndsAt
  <2> QED
    BY <1>3, <2>2
<1>8. ASSUME e + 1 <= n PROVE \E i \in 3 .. n - 2 : raw[i] = Lf /\ raw[i + 1] = "0" /\ raw[i + 2] = Lf
  <2>1. /\ e - 1 \in 3 .. n - 2 /\ e - 1 \in 1 .. n /\ e \in 1 .. n /\ e + 1 \in 1 .. n
        /\ (e - 1) + 1 = e /\ (e - 1) + 2 = e + 1
    BY <1>3, <1>8
  <2>2. raw[e - 1] = Lf /\ raw[e] = "0" /\ raw[e + 1] = Lf
    BY <1>2, <2>1 DEF EndsAt
  <2> QED
    BY <2>1, <2>2
<1>9. e + 1 <= n => 3 <= n
  BY <1>3
<1>10. Complete("chunked", raw, want) => e + 1 <= n
  BY <1>6, <1>7
<1>11. e + 1 <= n => Complete("chunked", raw, want)
  BY <1>6, <1>8, <1>9
<1> QED
  BY <1>1, <1>10, <1>11

\* What is behind the header of what was read.
LEMMA Behind ==
  ASSUME NEW r, r \in Seq(ToSet(r)), NEW n \in 3 .. Len(r)
  PROVE  /\ BehindHeader(SubSeq(r, 1, n)) \in Seq(ToSet(r))
         /\ Len(BehindHeader(SubSeq(r, 1, n))) = n - 3
         /\ \A i \in 1 .. n - 3 : BehindHeader(SubSeq(r, 1, n))[i] = r[i + 3]
<1>1. PICK raw : raw = SubSeq(r, 1, n)
  OBVIOUS
<1>2. n \in 0 .. Len(r) /\ n \in Nat /\ 3 <= n
  BY LenProperties
<1>3. raw \in Seq(ToSet(r)) /\ Len(raw) = n /\ \A i \in 1 .. n : raw[i] = r[i]
  BY <1>1, <1>2, Prefix
<1>4. Len(Header) + 1 = 4
  BY DEF Header
<1>5. \A i \in 4 .. n : raw[i] \in ToSet(r)
  <2>1. \A i \in 4 .. n : i \in 1 .. Len(raw)
    BY <1>2, <1>3
  <2> QED
    BY <1>3, <2>1, ElementOfSeq
<1>6. /\ SubSeq(raw, 4, n) \in Seq(ToSet(r))
      /\ Len(SubSeq(raw, 4, n)) = IF 4 <= n THEN n - 4 + 1 ELSE 0
      /\ \A i \in 1 .. n - 4 + 1 : SubSeq(raw, 4, n)[i] = raw[4 + i - 1]
  BY <1>2, <1>5, SubSeqProperties
<1>7. BehindHeader(raw) = SubSeq(raw, 4, n)
  BY <1>3, <1>4 DEF BehindHeader
<1>8. ASSUME NEW i \in 1 .. n - 3 PROVE SubSeq(raw, 4, n)[i] = r[i + 3]
  <2>1. i \in 1 .. n - 4 + 1 /\ 4 + i - 1 = i + 3 /\ i + 3 \in 1 .. n
    BY <1>2
  <2> QED
    BY <1>3, <1>6, <2>1
<1>9. Len(SubSeq(raw, 4, n)) = n - 3
  BY <1>2, <1>6
<1> QED
  BY <1>1, <1>6, <1>7, <1>8, <1>9

\* A reply of chunks f.
Enclosed(r, f) == EndsAt(r, Len(f) + 4) /\ \A i \in 1 .. Len(f) : r[i + 3] = f[i]

LEMMA Encloses ==
  ASSUME NEW S, "0" \notin S, NEW f \in Seq(S), Len(f) # 0 => f[Len(f)] = Lf
  PROVE  Enclosed(Header \o f \o <<"0", Lf, Lf>>, f)
<1>1. PICK k \in Nat : k = Len(f)
  BY LenProperties
<1>2. PICK R : R = S \cup {"header", "0", Lf}
  OBVIOUS
<1>3. PICK h, z : h = Header /\ z = <<"0", Lf, Lf>>
  OBVIOUS
<1>4. h \in Seq(R) /\ Len(h) = 3 /\ h[1] = "header" /\ h[2] = Lf /\ h[3] = Lf
  BY <1>2, <1>3 DEF Header
<1>5. z \in Seq(R) /\ Len(z) = 3 /\ z[1] = "0" /\ z[2] = Lf /\ z[3] = Lf
  BY <1>2, <1>3
<1>6. f \in Seq(R) /\ Len(f) = k
  BY <1>1, <1>2, SeqMonotonic
<1>7. PICK g : g = h \o f
  OBVIOUS
<1>8. /\ g \in Seq(R) /\ Len(g) = 3 + k
      /\ \A i \in 1 .. 3 + k : g[i] = IF i <= 3 THEN h[i] ELSE f[i - 3]
  <2>1. /\ h \o f \in Seq(R) /\ Len(h \o f) = Len(h) + Len(f)
        /\ \A i \in 1 .. Len(h) + Len(f) :
             (h \o f)[i] = IF i <= Len(h) THEN h[i] ELSE f[i - Len(h)]
    BY <1>4, <1>6, ConcatProperties
  <2> QED
    BY <1>4, <1>6, <1>7, <2>1
<1>9. PICK r : r = g \o z
  OBVIOUS
<1>10. /\ r \in Seq(R) /\ Len(r) = k + 6
       /\ \A i \in 1 .. k + 6 : r[i] = IF i <= 3 + k THEN g[i] ELSE z[i - (3 + k)]
  <2>1. /\ g \o z \in Seq(R) /\ Len(g \o z) = Len(g) + Len(z)
        /\ \A i \in 1 .. Len(g) + Len(z) :
             (g \o z)[i] = IF i <= Len(g) THEN g[i] ELSE z[i - Len(g)]
    BY <1>5, <1>8, ConcatProperties
  <2>2. (3 + k) + 3 = k + 6
    BY <1>1
  <2> QED
    BY <1>5, <1>8, <1>9, <2>1, <2>2
<1>11. r[1] = "header" /\ r[2] = Lf /\ r[3] = Lf
  <2>1. /\ 1 \in 1 .. k + 6 /\ 2 \in 1 .. k + 6 /\ 3 \in 1 .. k + 6
        /\ 1 <= 3 + k /\ 2 <= 3 + k /\ 3 <= 3 + k
        /\ 1 \in 1 .. 3 + k /\ 2 \in 1 .. 3 + k /\ 3 \in 1 .. 3 + k
    BY <1>1
  <2> QED
    BY <1>4, <1>8, <1>10, <2>1
<1>12. \A i \in 1 .. k : r[i + 3] = f[i]
  <2>1. TAKE i \in 1 .. k
  <2>2. i + 3 \in 1 .. 3 + k /\ i + 3 \in 1 .. k + 6 /\ i + 3 <= 3 + k /\ ~(i + 3 <= 3) /\ (i + 3) - 3 = i
    BY <1>1
  <2> QED
    BY <1>8, <1>10, <2>2
<1>13. r[k + 4] = "0" /\ r[k + 5] = Lf /\ r[k + 6] = Lf
  <2>1. /\ k + 4 \in 1 .. k + 6 /\ ~(k + 4 <= 3 + k) /\ k + 4 - (3 + k) = 1
        /\ k + 5 \in 1 .. k + 6 /\ ~(k + 5 <= 3 + k) /\ k + 5 - (3 + k) = 2
        /\ k + 6 \in 1 .. k + 6 /\ ~(k + 6 <= 3 + k) /\ k + 6 - (3 + k) = 3
    BY <1>1
  <2> QED
    BY <1>5, <1>10, <2>1
<1>14. r[k + 3] = Lf
  <2>1. CASE k = 0
    BY <1>11, <2>1
  <2>2. CASE k # 0
    <3>1. k \in 1 .. k
      BY <1>1, <2>2
    <3> QED
      BY <1>1, <1>12, <2>2, <3>1
  <2> QED
    BY <2>1, <2>2
<1>15. ASSUME NEW j \in 1 .. k + 6, r[j] = "0" PROVE j = k + 4
  <2>1. CASE j <= 3
    <3>1. j = 1 \/ j = 2 \/ j = 3
      BY <1>1, <2>1
    <3> QED
      BY <1>11, <1>15, <3>1 DEF Lf
  <2>2. CASE ~(j <= 3) /\ j <= k + 3
    <3>1. j - 3 \in 1 .. k /\ (j - 3) + 3 = j
      BY <1>1, <2>2
    <3>2. f[j - 3] \in S
      BY <1>1, <3>1, ElementOfSeq
    <3> QED
      BY <1>12, <1>15, <3>1, <3>2
  <2>3. CASE ~(j <= k + 3)
    <3>1. j = k + 4 \/ j = k + 5 \/ j = k + 6
      BY <1>1, <2>3
    <3> QED
      BY <1>13, <1>15, <3>1 DEF Lf
  <2> QED
    BY <2>1, <2>2, <2>3
<1>16. r \in Seq(ToSet(r))
  <2>1. DOMAIN r = 1 .. k + 6 /\ r = [i \in 1 .. k + 6 |-> r[i]]
    BY <1>10, LenProperties
  <2>2. \A i \in 1 .. k + 6 : r[i] \in ToSet(r)
    BY <2>1 DEF ToSet
  <2> QED
    BY <1>1, <2>1, <2>2
<1>17. EndsAt(r, k + 4)
  <2>1. /\ k + 4 \in Nat /\ 4 <= k + 4 /\ (k + 4) + 2 = k + 6 /\ (k + 4) - 1 = k + 3
        /\ (k + 4) + 1 = k + 5
    BY <1>1
  <2> QED
    BY <1>10, <1>13, <1>14, <1>15, <1>16, <2>1 DEF EndsAt
<1>18. Enclosed(r, f)
  BY <1>1, <1>12, <1>17 DEF Enclosed
<1> QED
  BY <1>3, <1>7, <1>9, <1>18

\* The chunk after the last one ends the body; one with a size goes on.
LEMMA NoFurther ==
  ASSUME NEW b, NEW p, NEW f, b[p] = "0"
  PROVE  Further(b, p, f) = <<>>
BY DEF Further, Size

LEMMA OneFurther ==
  ASSUME NEW T, NEW b \in Seq(T), NEW p \in Nat \ {0}, NEW s \in {1, 2}, NEW f,
         b[p + 1] = Lf, Size(b[p]) = s, p + 1 + s < Len(b)
  PROVE  Further(b, p, f) = SubSeq(b, p + 2, p + 1 + s) \o f[p + s + 3]
<1>1. PICK n \in Nat : n = Len(b)
  BY LenProperties
<1>2. ChunkEnd(b, p) = p + 1 + s
  BY Zenon DEF ChunkEnd
<1>3. PICK e : e = p + 1 + s
  OBVIOUS
<1>4. e < n /\ ~(p >= n) /\ e + 2 <= n + 4 /\ s # 0 /\ e + 2 = p + s + 3
  BY <1>1, <1>3
<1>5. e = ChunkEnd(b, p)
  BY <1>2, <1>3
<1>6. Further(b, p, f) = IF p >= n \/ b[p + 1] # Lf \/ Size(b[p]) = 0 THEN <<>>
                         ELSE SubSeq(b, p + 2, IF e < n THEN e ELSE n)
                                \o (IF e + 2 <= n + 4 THEN f[e + 2] ELSE <<>>)
  BY <1>1, <1>5, Zenon DEF Further
<1>7. Further(b, p, f) = SubSeq(b, p + 2, e) \o f[e + 2]
  BY <1>4, <1>6, Zenon
<1> QED
  BY <1>3, <1>4, <1>7, Zenon

LEMMA TokensRead ==
  ASSUME NEW body, body \in Seq(ToSet(body)), NEW c, Spelled(c, body, Len(body)),
         NEW r, Enclosed(r, c), NEW n \in Len(c) + 5 .. Len(r)
  PROVE  BodyRead("chunked", SubSeq(r, 1, n)) = body
<1>1. PICK m \in Nat : m = Len(body)
  BY LenProperties
<1>2. /\ Len(c) = 4 * m
      /\ \A i \in 1 .. m : c[4 * i - 3] = "1" /\ c[4 * i - 2] = Lf /\ c[4 * i - 1] = body[i]
  BY <1>1 DEF Spelled
<1>3. /\ r \in Seq(ToSet(r)) /\ Len(r) = 4 * m + 6 /\ r[4 * m + 4] = "0" /\ r[4 * m + 5] = Lf
      /\ \A i \in 1 .. 4 * m : r[i + 3] = c[i]
  <2>1. EndsAt(r, 4 * m + 4) /\ \A i \in 1 .. 4 * m : r[i + 3] = c[i]
    BY <1>2 DEF Enclosed
  <2>2. (4 * m + 4) + 2 = 4 * m + 6 /\ (4 * m + 4) + 1 = 4 * m + 5
    BY <1>1
  <2> QED
    BY <2>1, <2>2 DEF EndsAt
<1>4. n \in Nat /\ 4 * m + 5 <= n /\ n <= 4 * m + 6 /\ n \in 3 .. Len(r)
  BY <1>1, <1>2, <1>3
<1>5. PICK raw, b : raw = SubSeq(r, 1, n) /\ b = BehindHeader(raw)
  OBVIOUS
<1>6. b \in Seq(ToSet(r)) /\ Len(b) = n - 3 /\ \A i \in 1 .. n - 3 : b[i] = r[i + 3]
  BY <1>3, <1>4, <1>5, Behind
<1>7. PICK f : Dechunks(f, b) /\ BodyRead("chunked", raw) = f[1]
  BY <1>5, <1>6, BodyUnfolds
<1>8. \A p \in 1 .. n + 1 : f[p] = Further(b, p, f)
  <2>1. Len(b) + 4 = n + 1
    BY <1>4, <1>6
  <2>2. f = [p \in 1 .. n + 1 |-> Further(b, p, f)]
    BY <1>7, <2>1 DEF Dechunks
  <2> QED
    BY <2>2
<1>9. f[4 * m + 1] = <<>>
  <2>1. 4 * m + 1 \in 1 .. n - 3 /\ 4 * m + 1 \in 1 .. n + 1 /\ (4 * m + 1) + 3 = 4 * m + 4
    BY <1>1, <1>4
  <2>2. b[4 * m + 1] = "0"
    BY <1>3, <1>6, <2>1
  <2> QED
    BY <1>8, <2>1, <2>2, NoFurther
<1>10. ASSUME NEW i \in 1 .. m PROVE f[4 * i - 3] = <<body[i]>> \o f[4 * i + 1]
  <2>1. PICK p : p = 4 * i - 3
    OBVIOUS
  <2>2. /\ p \in Nat \ {0} /\ p \in 1 .. n + 1 /\ p \in 1 .. n - 3 /\ p + 1 \in 1 .. n - 3
        /\ p + 2 \in 1 .. n - 3 /\ p + 1 + 1 < n - 3 /\ p + 1 + 1 = p + 2 /\ p + 1 + 3 = 4 * i + 1
        /\ p + 3 = 4 * i /\ (p + 1) + 3 = 4 * i + 1 /\ (p + 2) + 3 = 4 * i + 2
        /\ 4 * i - 3 \in 1 .. 4 * m /\ 4 * i - 2 \in 1 .. 4 * m /\ 4 * i - 1 \in 1 .. 4 * m
        /\ (4 * i - 3) + 3 = 4 * i /\ (4 * i - 2) + 3 = 4 * i + 1 /\ (4 * i - 1) + 3 = 4 * i + 2
    BY <1>1, <1>4, <2>1
  <2>3. b[p] = "1" /\ b[p + 1] = Lf /\ b[p + 2] = body[i]
    <3>1. r[4 * i] = "1" /\ r[4 * i + 1] = Lf /\ r[4 * i + 2] = body[i]
      BY <1>2, <1>3, <2>2
    <3>2. b[p] = r[p + 3] /\ b[p + 1] = r[(p + 1) + 3] /\ b[p + 2] = r[(p + 2) + 3]
      BY <1>6, <2>2, Zenon
    <3>3. p + 3 = 4 * i /\ (p + 1) + 3 = 4 * i + 1 /\ (p + 2) + 3 = 4 * i + 2
      BY <2>2, Zenon
    <3> QED
      BY <3>1, <3>2, <3>3, Zenon
  <2>4. Size(b[p]) = 1
    BY <2>3 DEF Size
  <2>5. Further(b, p, f) = SubSeq(b, p + 2, p + 1 + 1) \o f[p + 1 + 3]
    <3>1. p + 1 + 1 < Len(b)
      BY <1>6, <2>2
    <3>2. b \in Seq(ToSet(r)) /\ p \in Nat \ {0} /\ b[p + 1] = Lf
      BY <1>6, <2>2, <2>3, Zenon
    <3>3. 1 \in {1, 2}
      OBVIOUS
    <3> QED
      BY <2>4, <3>1, <3>2, <3>3, OneFurther, Zenon
  <2>6. SubSeq(b, p + 2, p + 2) = <<b[p + 2]>>
    <3>1. p + 2 \in 1 .. Len(b)
      BY <1>6, <2>2
    <3>2. SubSeq(b, p + 2, p + 2) = <<b[p + 2]>> \o SubSeq(b, p + 2 + 1, p + 2)
      <4>1. p + 2 \in p + 2 .. Len(b)
        BY <3>1, <2>2
      <4> QED
        BY <1>6, <3>1, <4>1, SubSeqRecursiveFirst
    <3>3. SubSeq(b, p + 2 + 1, p + 2) = <<>>
      BY <2>2, SubSeqEmpty
    <3>4. <<b[p + 2]>> \o <<>> = <<b[p + 2]>>
      <4>1. <<b[p + 2]>> \in Seq({b[p + 2]})
        OBVIOUS
      <4> QED
        BY <4>1, ConcatEmptySeq
    <3> QED
      BY <3>2, <3>3, <3>4
  <2>7. f[p] = Further(b, p, f)
    BY <1>8, <2>2
  <2> QED
    BY <2>1, <2>2, <2>3, <2>5, <2>6, <2>7
<1> DEFINE T == {k \in 0 .. m : f[4 * (m - k) + 1] = SubSeq(body, m - k + 1, m)}
<1>11. 0 \in T
  <2>1. m - 0 = m /\ m - 0 + 1 = m + 1 /\ 0 \in 0 .. m
    BY <1>1
  <2>2. SubSeq(body, m + 1, m) = <<>>
    BY <1>1, SubSeqEmpty
  <2> QED
    BY <1>9, <2>1, <2>2
<1>12. ASSUME NEW k \in 0 .. m - 1, k \in T PROVE k + 1 \in T
  <2>1. PICK i : i = m - k
    OBVIOUS
  <2>2. /\ i \in 1 .. m /\ k + 1 \in 0 .. m /\ m - (k + 1) + 1 = i /\ 4 * (m - (k + 1)) + 1 = 4 * i - 3
        /\ m \in i .. m
    BY <1>1, <2>1
  <2>3. f[4 * i + 1] = SubSeq(body, i + 1, m)
    BY <1>12, <2>1
  <2>4. f[4 * i - 3] = <<body[i]>> \o SubSeq(body, i + 1, m)
    BY <1>10, <2>2, <2>3
  <2>5. SubSeq(body, i, m) = <<body[i]>> \o SubSeq(body, i + 1, m)
    BY <1>1, <2>2, SubSeqRecursiveFirst
  <2> QED
    BY <2>2, <2>4, <2>5
<1>13. m \in T
  <2> HIDE DEF T
  <2>1. \A k \in 0 .. m - 1 : k \in T => k + 1 \in T
    BY <1>12
  <2>2. \A k \in 0 .. m : k \in T
    BY <1>11, <2>1, UpTo, Zenon
  <2> QED
    BY <2>2
<1>14. f[1] = SubSeq(body, 1, m)
  <2>1. 4 * (m - m) + 1 = 1 /\ m - m + 1 = 1
    BY <1>1
  <2> QED
    BY <1>13, <2>1
<1>15. SubSeq(body, 1, m) = body
  BY <1>1, SubSeqFull
<1> QED
  BY <1>5, <1>7, <1>14, <1>15

\* A body of two tokens in one chunk.
LEMMA PairIs ==
  ASSUME NEW body, body \in Seq(ToSet(body)), Len(body) = 2
  PROVE  Chunk(body) = <<"2", Lf, body[1], body[2], Lf>>
<1>1. PICK S : S = ToSet(body) \cup {"2", Lf}
  OBVIOUS
<1>2. PICK h, z, u : h = <<"2", Lf>> /\ z = <<Lf>> /\ u = <<"2", Lf, body[1], body[2], Lf>>
  OBVIOUS
<1>3. body[1] \in ToSet(body) /\ body[2] \in ToSet(body)
  <2>1. 1 \in 1 .. Len(body) /\ 2 \in 1 .. Len(body)
    OBVIOUS
  <2> QED
    BY <2>1, ElementOfSeq
<1>4. /\ h \in Seq(S) /\ Len(h) = 2 /\ h[1] = "2" /\ h[2] = Lf /\ z \in Seq(S) /\ Len(z) = 1 /\ z[1] = Lf
      /\ body \in Seq(S)
      /\ u \in Seq(S) /\ Len(u) = 5 /\ u[1] = "2" /\ u[2] = Lf /\ u[3] = body[1] /\ u[4] = body[2] /\ u[5] = Lf
  <2>1. "2" \in S /\ Lf \in S /\ body[1] \in S /\ body[2] \in S
    BY <1>1, <1>3
  <2>2. body \in Seq(S)
    BY <1>1, SeqMonotonic
  <2> QED
    BY <1>2, <2>1, <2>2
<1>5. PICK g : g = h \o body
  OBVIOUS
<1>6. g \in Seq(S) /\ Len(g) = 4 /\ g[1] = "2" /\ g[2] = Lf /\ g[3] = body[1] /\ g[4] = body[2]
  <2>1. /\ h \o body \in Seq(S) /\ Len(h \o body) = Len(h) + Len(body)
        /\ \A i \in 1 .. Len(h) + Len(body) :
             (h \o body)[i] = IF i <= Len(h) THEN h[i] ELSE body[i - Len(h)]
    BY <1>4, ConcatProperties
  <2> QED
    BY <1>4, <1>5, <2>1
<1>7. PICK v : v = g \o z
  OBVIOUS
<1>8. v \in Seq(S) /\ Len(v) = 5 /\ v[1] = "2" /\ v[2] = Lf /\ v[3] = body[1] /\ v[4] = body[2] /\ v[5] = Lf
  <2>1. /\ g \o z \in Seq(S) /\ Len(g \o z) = Len(g) + Len(z)
        /\ \A i \in 1 .. Len(g) + Len(z) :
             (g \o z)[i] = IF i <= Len(g) THEN g[i] ELSE z[i - Len(g)]
    BY <1>4, <1>6, ConcatProperties
  <2> QED
    BY <1>4, <1>6, <1>7, <2>1
<1>9. v = u
  <2>1. \A i \in 1 .. 5 : v[i] = u[i]
    <3>1. \A i \in 1 .. 5 : i = 1 \/ i = 2 \/ i = 3 \/ i = 4 \/ i = 5
      OBVIOUS
    <3> QED
      BY <1>4, <1>8, <3>1
  <2> QED
    BY <1>4, <1>8, <2>1, SeqEqual
<1>10. Chunk(body) = v
  <2>1. ChunkSizes[2] = "2"
    BY DEF ChunkSizes
  <2> QED
    BY <1>2, <1>5, <1>7, <2>1, Zenon DEF Chunk
<1> QED
  BY <1>2, <1>9, <1>10

LEMMA PairRead ==
  ASSUME NEW body, body \in Seq(ToSet(body)), Len(body) = 2,
         NEW r, Enclosed(r, Chunk(body)), NEW n \in 10 .. Len(r)
  PROVE  BodyRead("chunked", SubSeq(r, 1, n)) = body
<1>1. PICK c : c = Chunk(body) /\ c = <<"2", Lf, body[1], body[2], Lf>>
  BY PairIs
<1>2. Len(c) = 5 /\ c[1] = "2" /\ c[2] = Lf /\ c[3] = body[1] /\ c[4] = body[2] /\ c[5] = Lf
  BY <1>1
<1>3. /\ r \in Seq(ToSet(r)) /\ Len(r) = 11 /\ r[9] = "0"
      /\ r[4] = "2" /\ r[5] = Lf /\ r[6] = body[1] /\ r[7] = body[2]
  <2>1. EndsAt(r, 9) /\ \A i \in 1 .. 5 : r[i + 3] = c[i]
    <3>1. EndsAt(r, 5 + 4) /\ \A i \in 1 .. 5 : r[i + 3] = c[i]
      BY <1>1, <1>2 DEF Enclosed
    <3>2. 5 + 4 = 9
      OBVIOUS
    <3> QED
      BY <3>1, <3>2
  <2>2. r[1 + 3] = c[1] /\ r[2 + 3] = c[2] /\ r[3 + 3] = c[3] /\ r[4 + 3] = c[4]
    BY <2>1
  <2>3. 1 + 3 = 4 /\ 2 + 3 = 5 /\ 3 + 3 = 6 /\ 4 + 3 = 7 /\ 9 + 2 = 11
    OBVIOUS
  <2> QED
    BY <1>2, <2>1, <2>2, <2>3 DEF EndsAt
<1>4. n \in 3 .. Len(r) /\ (n = 10 \/ n = 11)
  BY <1>3
<1>5. PICK raw, b : raw = SubSeq(r, 1, n) /\ b = BehindHeader(raw)
  OBVIOUS
<1>6. b \in Seq(ToSet(r)) /\ Len(b) = n - 3 /\ \A i \in 1 .. n - 3 : b[i] = r[i + 3]
  BY <1>3, <1>4, <1>5, Behind
<1>7. b[1] = "2" /\ b[2] = Lf /\ b[3] = body[1] /\ b[4] = body[2] /\ b[6] = "0"
  <2>1. \A i \in 1 .. 6 : i \in 1 .. n - 3
    BY <1>4
  <2>2. b[1] = r[1 + 3] /\ b[2] = r[2 + 3] /\ b[3] = r[3 + 3] /\ b[4] = r[4 + 3] /\ b[6] = r[6 + 3]
    BY <1>6, <2>1
  <2>3. 1 + 3 = 4 /\ 2 + 3 = 5 /\ 3 + 3 = 6 /\ 4 + 3 = 7 /\ 6 + 3 = 9
    OBVIOUS
  <2> QED
    BY <1>3, <2>2, <2>3
<1>8. PICK f : Dechunks(f, b) /\ BodyRead("chunked", raw) = f[1]
  BY <1>5, <1>6, BodyUnfolds
<1>9. f[1] = Further(b, 1, f) /\ f[6] = Further(b, 6, f)
  <2>1. Len(b) + 4 = n + 1 /\ 1 \in 1 .. n + 1 /\ 6 \in 1 .. n + 1
    BY <1>4, <1>6
  <2>2. f = [p \in 1 .. n + 1 |-> Further(b, p, f)]
    BY <1>8, <2>1 DEF Dechunks
  <2> QED
    BY <2>1, <2>2
<1>10. f[6] = <<>>
  BY <1>7, <1>9, NoFurther
<1>11. f[1] = SubSeq(b, 3, 4) \o f[6]
  <2>1. 1 + 1 = 2 /\ 1 + 2 = 3 /\ 1 + 1 + 2 = 4 /\ 1 + 2 + 3 = 6 /\ 4 < Len(b)
    BY <1>4, <1>6
  <2>2. Size(b[1]) = 2
    BY <1>7 DEF Size
  <2>3. Further(b, 1, f) = SubSeq(b, 1 + 2, 1 + 1 + 2) \o f[1 + 2 + 3]
    <3>1. 1 \in Nat \ {0} /\ 2 \in {1, 2}
      OBVIOUS
    <3>2. b[1 + 1] = Lf /\ 1 + 1 + 2 < Len(b)
      BY <1>7, <2>1
    <3> QED
      BY <1>6, <2>2, <3>1, <3>2, OneFurther, Zenon
  <2> QED
    BY <1>9, <2>1, <2>3
<1>12. SubSeq(b, 3, 4) = body
  <2>1. \A i \in 3 .. 4 : b[i] \in ToSet(r)
    <3>1. \A i \in 3 .. 4 : i \in 1 .. Len(b)
      BY <1>4, <1>6
    <3> QED
      BY <1>6, <3>1, ElementOfSeq
  <2>2. PICK s : s = SubSeq(b, 3, 4)
    OBVIOUS
  <2>3. s \in Seq(ToSet(r)) /\ Len(s) = 2 /\ s[1] = b[3] /\ s[2] = b[4]
    <3>1. /\ SubSeq(b, 3, 4) \in Seq(ToSet(r))
          /\ Len(SubSeq(b, 3, 4)) = IF 3 <= 4 THEN 4 - 3 + 1 ELSE 0
          /\ \A i \in 1 .. 4 - 3 + 1 : SubSeq(b, 3, 4)[i] = b[3 + i - 1]
      BY <2>1, SubSeqProperties
    <3>2. 1 \in 1 .. 4 - 3 + 1 /\ 2 \in 1 .. 4 - 3 + 1 /\ 3 + 1 - 1 = 3 /\ 3 + 2 - 1 = 4
      OBVIOUS
    <3> QED
      BY <2>2, <3>1, <3>2
  <2>4. \A i \in 1 .. 2 : s[i] = body[i]
    <3>1. \A i \in 1 .. 2 : i = 1 \/ i = 2
      OBVIOUS
    <3> QED
      BY <1>7, <2>3, <3>1
  <2>5. PICK S : S = ToSet(r) \cup ToSet(body)
    OBVIOUS
  <2>6. s \in Seq(S) /\ body \in Seq(S)
    BY <2>3, <2>5, SeqMonotonic
  <2>7. s = body
    BY <2>3, <2>4, <2>6, SeqEqual
  <2> QED
    BY <2>2, <2>7
<1>13. body \o <<>> = body
  BY ConcatEmptySeq
<1> QED
  BY <1>5, <1>8, <1>10, <1>11, <1>12, <1>13

\* Whatever is taken for complete is the whole body, and a whole reply that
\* says where it ends is taken for complete.
LEMMA RepliesRead ==
  ASSUME NEW framing, NEW body, body \in Seq(ToSet(body)),
         framing \in {"length", "chunked", "close"},
         framing = "chunked" => "0" \notin ToSet(body),
         NEW r \in Replies(framing, body)
  PROVE  /\ Len(r) \in Nat
         /\ \A n \in 0 .. Len(r) :
              Complete(framing, SubSeq(r, 1, n), Len(body)) \/ n = Len(r) =>
                BodyRead(framing, SubSeq(r, 1, n)) = body
         /\ framing # "close" => Complete(framing, SubSeq(r, 1, Len(r)), Len(body))
<1>1. CASE framing = "chunked"
  <2>1. \E c : /\ Enclosed(r, c) /\ Len(c) \in Nat
               /\ \A n \in Len(c) + 5 .. Len(r) : BodyRead("chunked", SubSeq(r, 1, n)) = body
    <3>1. PICK T : T = ToSet(body) \cup {"1", "2", Lf}
      OBVIOUS
    <3>2. "0" \notin T
      BY <1>1, <3>1 DEF Lf
    <3>3. PICK c : c = FlattenSeq([i \in DOMAIN body |-> Chunk(<<body[i]>>)])
      OBVIOUS
    <3>4. CASE r = Header \o c \o <<"0", Lf, Lf>>
      <4>1. Spelled(c, body, Len(body))
        BY <3>3, ChunksAre
      <4>2. c \in Seq(BodyTokens(body)) /\ "0" \notin BodyTokens(body)
        BY <1>1, <4>1 DEF Spelled, BodyTokens, Lf
      <4>3. Len(c) # 0 => c[Len(c)] = Lf
        <5>1. PICK m \in Nat : m = Len(body)
          BY LenProperties
        <5>2. Len(c) = 4 * m /\ (m \in 1 .. m => c[4 * m] = Lf)
          BY <4>1, <5>1 DEF Spelled
        <5>3. 4 * m # 0 => m \in 1 .. m
          BY <5>1
        <5> QED
          BY <5>2, <5>3
      <4>4. Enclosed(r, c)
        BY <3>4, <4>2, <4>3, Encloses
      <4>5. \A n \in Len(c) + 5 .. Len(r) : BodyRead("chunked", SubSeq(r, 1, n)) = body
        BY <4>1, <4>4, TokensRead
      <4>6. Len(c) \in Nat
        BY <4>2, LenProperties
      <4> QED
        BY <4>4, <4>5, <4>6
    <3>5. CASE Len(body) = 2 /\ r = Header \o Chunk(body) \o <<"0", Lf, Lf>>
      <4>1. PICK d : d = Chunk(body) /\ d = <<"2", Lf, body[1], body[2], Lf>>
        BY <3>5, PairIs
      <4>2. d \in Seq(T) /\ Len(d) = 5 /\ d[5] = Lf
        <5>1. body[1] \in T /\ body[2] \in T /\ "2" \in T /\ Lf \in T
          <6>1. body[1] \in ToSet(body) /\ body[2] \in ToSet(body)
            <7>1. 1 \in 1 .. Len(body) /\ 2 \in 1 .. Len(body)
              BY <3>5
            <7> QED
              BY <7>1, ElementOfSeq
          <6> QED
            BY <3>1, <6>1
        <5> QED
          BY <4>1, <5>1
      <4>3. Enclosed(r, d)
        BY <3>2, <3>5, <4>1, <4>2, Encloses
      <4>4. Len(d) + 5 = 10
        BY <4>2
      <4>5. \A n \in 10 .. Len(r) : BodyRead("chunked", SubSeq(r, 1, n)) = body
        BY <3>5, <4>1, <4>3, PairRead
      <4>6. Len(d) \in Nat /\ \A n \in Len(d) + 5 .. Len(r) : BodyRead("chunked", SubSeq(r, 1, n)) = body
        BY <4>2, <4>4, <4>5
      <4> QED
        BY <4>3, <4>6
    <3>6. \/ r = Header \o c \o <<"0", Lf, Lf>>
          \/ Len(body) = 2 /\ r = Header \o Chunk(body) \o <<"0", Lf, Lf>>
      <4>1. r \in {Header \o c \o <<"0", Lf, Lf>>}
                    \cup (IF Len(body) = 2 THEN {Header \o Chunk(body) \o <<"0", Lf, Lf>>} ELSE {})
        BY <1>1, <3>3, Zenon DEF Replies
      <4> QED
        BY <4>1
    <3> QED
      BY <3>4, <3>5, <3>6
  <2>2. PICK c : /\ Enclosed(r, c) /\ Len(c) \in Nat
                 /\ \A n \in Len(c) + 5 .. Len(r) : BodyRead("chunked", SubSeq(r, 1, n)) = body
    BY <2>1
  <2>3. PICK e \in Nat : e = Len(c) + 4 /\ EndsAt(r, e) /\ Len(c) \in Nat
    BY <2>2 DEF Enclosed, EndsAt
  <2>4. Len(r) = e + 2 /\ Len(r) \in Nat /\ Len(r) \in 0 .. Len(r) /\ e + 1 <= Len(r)
    BY <2>3 DEF EndsAt
  <2>5. ASSUME NEW n \in 0 .. Len(r), Complete("chunked", SubSeq(r, 1, n), Len(body)) \/ n = Len(r)
        PROVE  BodyRead("chunked", SubSeq(r, 1, n)) = body
    <3>1. e + 1 <= n
      BY <2>3, <2>4, <2>5, CompleteAt
    <3>2. Len(c) + 5 = e + 1
      BY <2>3
    <3> QED
      BY <2>2, <2>4, <3>1, <3>2
  <2>6. Complete("chunked", SubSeq(r, 1, Len(r)), Len(body))
    BY <2>3, <2>4, CompleteAt
  <2> QED
    BY <1>1, <2>4, <2>5, <2>6
<1>2. CASE framing # "chunked"
  <2>1. r = Header \o body
    BY <1>2 DEF Replies
  <2>2. PICK k \in Nat : k = Len(body)
    BY LenProperties
  <2>3. PICK S : S = ToSet(body) \cup {"header", Lf}
    OBVIOUS
  <2>4. Header \in Seq(S) /\ Len(Header) = 3 /\ body \in Seq(S)
    <3>1. "header" \in S /\ Lf \in S
      BY <2>3
    <3>2. body \in Seq(S)
      BY <2>3, SeqMonotonic
    <3> QED
      BY <3>1, <3>2 DEF Header
  <2>5. /\ r \in Seq(S) /\ Len(r) = 3 + k
        /\ \A i \in 1 .. 3 + k : r[i] = IF i <= 3 THEN Header[i] ELSE body[i - 3]
    <3>1. PICK h : h = Header
      OBVIOUS
    <3>2. /\ h \o body \in Seq(S) /\ Len(h \o body) = Len(h) + Len(body)
          /\ \A i \in 1 .. Len(h) + Len(body) :
               (h \o body)[i] = IF i <= Len(h) THEN h[i] ELSE body[i - Len(h)]
      BY <2>4, <3>1, ConcatProperties
    <3> QED
      BY <2>1, <2>2, <2>4, <3>1, <3>2
  <2>6. SubSeq(r, 1, Len(r)) = r
    BY <2>5, SubSeqFull
  <2>7. Len(r) \in Nat
    BY <2>2, <2>5
  <2>8. BodyRead(framing, r) = body
    <3>1. PICK s : s = SubSeq(r, 4, 3 + k)
      OBVIOUS
    <3>2. \A i \in 4 .. 3 + k : r[i] \in S
      <4>1. \A i \in 4 .. 3 + k : i \in 1 .. Len(r)
        BY <2>2, <2>5
      <4> QED
        BY <2>5, <4>1, ElementOfSeq
    <3>3. s \in Seq(S) /\ Len(s) = k /\ \A i \in 1 .. k : s[i] = body[i]
      <4>1. /\ s \in Seq(S) /\ Len(s) = IF 4 <= 3 + k THEN (3 + k) - 4 + 1 ELSE 0
            /\ \A i \in 1 .. (3 + k) - 4 + 1 : s[i] = r[4 + i - 1]
        BY <2>2, <3>1, <3>2, SubSeqProperties
      <4>2. ASSUME NEW i \in 1 .. k PROVE s[i] = body[i]
        <5>1. /\ i \in 1 .. (3 + k) - 4 + 1 /\ 4 + i - 1 = i + 3 /\ i + 3 \in 1 .. 3 + k
              /\ ~(i + 3 <= 3) /\ (i + 3) - 3 = i
          BY <2>2
        <5> QED
          BY <2>5, <4>1, <5>1
      <4>3. Len(s) = k
        BY <2>2, <4>1
      <4> QED
        BY <4>1, <4>2, <4>3
    <3>4. s = body
      BY <2>2, <2>4, <3>3, SeqEqual
    <3>5. BodyRead(framing, r) = SubSeq(r, Len(Header) + 1, Len(r))
      BY <1>2, Zenon DEF BodyRead
    <3>6. Len(Header) + 1 = 4
      BY <2>4
    <3> QED
      BY <2>5, <3>1, <3>4, <3>5, <3>6
  <2>9. ASSUME NEW n \in 0 .. Len(r), Complete(framing, SubSeq(r, 1, n), Len(body)) PROVE n = Len(r)
    <3>1. Len(SubSeq(r, 1, n)) = n
      <4>1. \A i \in 1 .. n : r[i] \in S
        <5>1. \A i \in 1 .. n : i \in 1 .. Len(r)
          BY <2>7
        <5> QED
          BY <2>5, <5>1, ElementOfSeq
      <4>2. Len(SubSeq(r, 1, n)) = IF 1 <= n THEN n - 1 + 1 ELSE 0
        BY <2>7, <4>1, SubSeqProperties
      <4> QED
        BY <2>7, <4>2
    <3>2. Len(SubSeq(r, 1, n)) - Len(Header) >= Len(body)
      BY <1>2, <2>9, Zenon DEF Complete
    <3> QED
      BY <2>2, <2>4, <2>5, <3>1, <3>2
  <2>10. ASSUME framing # "close" PROVE Complete(framing, SubSeq(r, 1, Len(r)), Len(body))
    <3>1. framing = "length"
      BY <1>2, <2>10
    <3>2. HeadSeen(r) /\ Len(r) - Len(Header) >= Len(body)
      BY <2>2, <2>4, <2>5 DEF HeadSeen
    <3>3. Complete("length", r, Len(body))
      BY <3>2, Zenon DEF Complete
    <3> QED
      BY <2>6, <3>1, <3>3
  <2> QED
    BY <2>6, <2>7, <2>8, <2>9, <2>10
<1> QED
  BY <1>1, <1>2

\* An operation that waits for a reply has read part of one its sender gives;
\* one that is to tell a receiver has the whole SDP, unless it was cut short.
IsOp(op) ==
  op = [pc |-> op.pc, target |-> op.target, sender |-> op.sender, reply |-> op.reply,
        got |-> op.got, hops |-> op.hops, sdp |-> op.sdp, cut |-> op.cut]
OpRight(op) ==
  /\ op.pc = "lists" => op.got = 0
  /\ op.pc = "sdp" => /\ op.sender \in Others \cup {Ours}
                      /\ op.reply \in Replies(FramedBy[op.sender], File[op.sender])
                      /\ op.got \in 0 .. Len(op.reply)
  /\ op.pc = "patch" => op.sender = "" \/ op.cut \/ op.sdp = File[op.sender]

IsRoute(x) == x = [sender |-> x.sender, sdp |-> x.sdp, active |-> x.active, cut |-> x.cut]

OpsRight == DOMAIN ops = Slots /\ \A o \in Slots : IsOp(ops[o]) /\ OpRight(ops[o])
RoutesRight == DOMAIN route = Targets /\ \A t \in Targets : IsRoute(route[t])
RouteInv == via \in {"registry", "p2p"} /\ OpsRight /\ RoutesRight /\ HandedOver

LEMMA NoOpRight == IsOp(NoOp) /\ OpRight(NoOp)
BY DEF NoOp, IsOp, OpRight

LEMMA RouteInitInv == RouteInit => RouteInv
<1> SUFFICES ASSUME RouteInit PROVE RouteInv
  OBVIOUS
<1>1. ops = [o \in Slots |-> NoOp] /\ route = [t \in Targets |-> Unrouted] /\ via = "registry"
  BY DEF RouteInit
<1>2. OpsRight
  BY <1>1, NoOpRight DEF OpsRight
<1>3. IsRoute(Unrouted) /\ Unrouted.active = FALSE
  BY DEF IsRoute, Unrouted
<1>4. RoutesRight /\ HandedOver
  BY <1>1, <1>3 DEF RoutesRight, HandedOver
<1> QED
  BY <1>1, <1>2, <1>4 DEF RouteInv

\* The reply an operation waits for.
LEMMA OwnReply ==
  ASSUME NoEndInside, NEW op, OpRight(op), op.pc = "sdp"
  PROVE  /\ Len(op.reply) \in Nat /\ op.got \in 0 .. Len(op.reply)
         /\ Whole(op) \/ op.got = Len(op.reply) =>
              BodyRead(FramedBy[op.sender], Raw(op)) = File[op.sender]
         /\ op.got = Len(op.reply) /\ FramedBy[op.sender] # "close" => Whole(op)
<1>1. PICK s, r, n : s = op.sender /\ r = op.reply /\ n = op.got
  OBVIOUS
<1>2. s \in Others \cup {Ours} /\ r \in Replies(FramedBy[s], File[s]) /\ n \in 0 .. Len(r)
  BY <1>1 DEF OpRight
<1>3. PICK framing, body : framing = FramedBy[s] /\ body = File[s]
  OBVIOUS
<1>4. /\ body \in Seq(ToSet(body)) /\ framing \in {"length", "chunked", "close"}
      /\ framing = "chunked" => "0" \notin ToSet(body)
  BY <1>2, <1>3, RoutingAssumption DEF NoEndInside
<1>5. /\ Len(r) \in Nat
      /\ \A k \in 0 .. Len(r) :
           Complete(framing, SubSeq(r, 1, k), Len(body)) \/ k = Len(r) =>
             BodyRead(framing, SubSeq(r, 1, k)) = body
      /\ framing # "close" => Complete(framing, SubSeq(r, 1, Len(r)), Len(body))
  BY <1>2, <1>3, <1>4, RepliesRead
<1>6. Raw(op) = SubSeq(r, 1, n) /\ (Whole(op) <=> Complete(framing, SubSeq(r, 1, n), Len(body)))
  BY <1>1, <1>3, Zenon DEF Raw, Whole
<1>7. Whole(op) \/ n = Len(r) => BodyRead(framing, Raw(op)) = body
  BY <1>2, <1>5, <1>6, Zenon
<1>8. n = Len(r) /\ framing # "close" => Whole(op)
  BY <1>5, <1>6, Zenon
<1> QED
  BY <1>1, <1>2, <1>3, <1>5, <1>7, <1>8, Zenon

LEMMA RepliesAre ==
  ASSUME NoEndInside, RouteInv
  PROVE  RepliesRight
<1>1. ASSUME NEW o \in Slots, ops[o].pc = "sdp", ops[o].got = Len(ops[o].reply),
             FramedBy[ops[o].sender] # "close"
      PROVE  Whole(ops[o])
  <2>1. OpRight(ops[o])
    BY DEF RouteInv, OpsRight
  <2> QED
    BY <1>1, <2>1, OwnReply
<1>2. AnswerSeen
  BY <1>1 DEF AnswerSeen
<1> QED
  BY <1>2 DEF RouteInv, RepliesRight

\* What leaves the receivers alone, but for one operation.
LEMMA GoKeeps ==
  ASSUME RouteInv, NEW o \in Slots, NEW op, IsOp(op), OpRight(op), Go(o, op)
  PROVE  RouteInv'
<1>1. ops' = [ops EXCEPT ![o] = op] /\ route' = route /\ via' = via
  BY DEF Go, nodes
<1>2. OpsRight'
  BY <1>1 DEF RouteInv, OpsRight
<1>3. RoutesRight' /\ HandedOver'
  BY <1>1 DEF RouteInv, RoutesRight, HandedOver
<1> QED
  BY <1>1, <1>2, <1>3 DEF RouteInv

LEMMA BeginKeeps ==
  ASSUME RouteInv, NEW op, IsOp(op), OpRight(op), Begin(op)
  PROVE  RouteInv'
<1>1. PICK o \in Slots : ops' = [ops EXCEPT ![o] = op] /\ route' = route /\ via' = via
  BY DEF Begin, nodes
<1>2. OpsRight'
  BY <1>1 DEF RouteInv, OpsRight
<1>3. RoutesRight' /\ HandedOver'
  BY <1>1 DEF RouteInv, RoutesRight, HandedOver
<1> QED
  BY <1>1, <1>2, <1>3 DEF RouteInv

LEMMA RouteNextInv == NoEndInside /\ RouteInv /\ [RouteNext]_routeVars => RouteInv'
<1> SUFFICES ASSUME NoEndInside, RouteInv, [RouteNext]_routeVars PROVE RouteInv'
  OBVIOUS
<1>1. ASSUME route' = route, ops' = ops, via' \in {"registry", "p2p"} PROVE RouteInv'
  <2>1. OpsRight'
    BY <1>1 DEF RouteInv, OpsRight
  <2>2. RoutesRight' /\ HandedOver'
    BY <1>1 DEF RouteInv, RoutesRight, HandedOver
  <2> QED
    BY <1>1, <2>1, <2>2 DEF RouteInv
<1>2. via \in {"registry", "p2p"} /\ \A o \in Slots : IsOp(ops[o]) /\ OpRight(ops[o])
  BY DEF RouteInv, OpsRight
<1>3. CASE Refresh
  BY <1>1, <1>2, <1>3 DEF Refresh, nodes
<1>4. CASE Drawn
  BY <1>1, <1>2, <1>4 DEF Drawn, nodes
<1>5. CASE NothingDrawn
  BY <1>1, <1>2, <1>5 DEF NothingDrawn, nodes
<1>6. CASE RegistryFollows
  BY <1>1, <1>2, <1>6 DEF RegistryFollows
<1>7. CASE SwitchSource
  <2>1. route' = route /\ ops' = ops /\ via' \in {"registry", "p2p"}
    BY <1>7 DEF SwitchSource, nodes
  <2> QED
    BY <1>1, <2>1
<1>8. CASE ConnectSource
  <2>1. PICK s : Begin([NoOp EXCEPT !.pc = "lists", !.target = KindOf[s], !.sender = s])
    BY <1>8 DEF ConnectSource
  <2>2. PICK op : op = [NoOp EXCEPT !.pc = "lists", !.target = KindOf[s], !.sender = s]
    OBVIOUS
  <2>3. IsOp(op) /\ OpRight(op)
    BY <2>2 DEF NoOp, IsOp, OpRight
  <2> QED
    BY <2>1, <2>2, <2>3, BeginKeeps
<1>9. CASE ConnectDest
  <2>1. PICK t : Begin([NoOp EXCEPT !.pc = "lists", !.target = t, !.sender = Ours])
    BY <1>9 DEF ConnectDest
  <2>2. PICK op : op = [NoOp EXCEPT !.pc = "lists", !.target = t, !.sender = Ours]
    OBVIOUS
  <2>3. IsOp(op) /\ OpRight(op)
    BY <2>2 DEF NoOp, IsOp, OpRight
  <2> QED
    BY <2>1, <2>2, <2>3, BeginKeeps
<1>10. CASE Disconnect
  <2>1. PICK t : Begin([NoOp EXCEPT !.pc = "patch", !.target = t])
    BY <1>10 DEF Disconnect
  <2>2. PICK op : op = [NoOp EXCEPT !.pc = "patch", !.target = t]
    OBVIOUS
  <2>3. IsOp(op) /\ OpRight(op)
    BY <2>2 DEF NoOp, IsOp, OpRight
  <2> QED
    BY <2>1, <2>2, <2>3, BeginKeeps
<1>11. ASSUME NEW o \in Slots, ListsRead(o) PROVE RouteInv'
  <2>1. PICK op : op = ops[o] /\ IsOp(op) /\ OpRight(op)
    BY <1>2
  <2>2. CASE Go(o, NoOp)
    BY <2>2, NoOpRight, GoKeeps
  <2>3. ASSUME op.sender \in ListedBy[via] \cup {Ours}, op.pc = "lists",
               NEW r \in Replies(FramedBy[op.sender], File[op.sender]),
               Go(o, [op EXCEPT !.pc = "sdp", !.reply = r])
        PROVE  RouteInv'
    <3>1. op.sender \in Others \cup {Ours}
      BY <1>2, <2>3, RoutingAssumption
    <3>2. PICK x : x = [op EXCEPT !.pc = "sdp", !.reply = r]
      OBVIOUS
    <3>3. /\ x = [pc |-> "sdp", target |-> op.target, sender |-> op.sender, reply |-> r,
                  got |-> op.got, hops |-> op.hops, sdp |-> op.sdp, cut |-> op.cut]
      BY <2>1, <3>2 DEF IsOp
    <3>4. x.pc = "sdp" /\ x.sender = op.sender /\ x.reply = r /\ x.got = op.got /\ IsOp(x)
      BY <3>3 DEF IsOp
    <3>5. op.got = 0
      BY <2>1, <2>3 DEF OpRight
    <3>6. Len(r) \in Nat
      <4>1. PICK s : s = op.sender /\ s \in Others \cup {Ours}
        BY <3>1
      <4>2. /\ File[s] \in Seq(ToSet(File[s])) /\ FramedBy[s] \in {"length", "chunked", "close"}
            /\ FramedBy[s] = "chunked" => "0" \notin ToSet(File[s])
        BY <4>1, RoutingAssumption DEF NoEndInside
      <4> QED
        BY <2>3, <4>1, <4>2, RepliesRead
    <3>7. x.got \in 0 .. Len(x.reply)
      BY <3>4, <3>5, <3>6
    <3>8. OpRight(x)
      BY <2>3, <3>1, <3>4, <3>7 DEF OpRight
    <3> QED
      BY <2>3, <3>2, <3>4, <3>8, GoKeeps
  <2> QED
    BY <1>11, <2>1, <2>2, <2>3 DEF ListsRead
<1>12. ASSUME NEW o \in Slots, Receive(o) PROVE RouteInv'
  <2>1. PICK op : op = ops[o] /\ IsOp(op) /\ OpRight(op)
    BY <1>2
  <2>2. PICK n \in op.got + 1 .. Len(op.reply) : op.pc = "sdp" /\ Go(o, [op EXCEPT !.got = n])
    BY <1>12, <2>1 DEF Receive
  <2>3. PICK x : x = [op EXCEPT !.got = n]
    OBVIOUS
  <2>4. x = [pc |-> op.pc, target |-> op.target, sender |-> op.sender, reply |-> op.reply,
             got |-> n, hops |-> op.hops, sdp |-> op.sdp, cut |-> op.cut]
    BY <2>1, <2>3 DEF IsOp
  <2>5. x.pc = "sdp" /\ x.sender = op.sender /\ x.reply = op.reply /\ x.got = n /\ IsOp(x)
    BY <2>2, <2>4 DEF IsOp
  <2>6. n \in 0 .. Len(op.reply)
    <3>1. Len(op.reply) \in Nat /\ op.got \in 0 .. Len(op.reply)
      BY <2>1, <2>2, OwnReply
    <3> QED
      BY <2>2, <3>1
  <2>7. OpRight(x)
    BY <2>1, <2>2, <2>5, <2>6 DEF OpRight
  <2> QED
    BY <2>2, <2>3, <2>5, <2>7, GoKeeps
<1>13. ASSUME NEW o \in Slots, NEW op, IsOp(op), NEW body, Answer(o, op, body),
              op.cut \/ body = File[op.sender]
       PROVE  RouteInv'
  <2>1. CASE Go(o, NoOp)
    BY <2>1, NoOpRight, GoKeeps
  <2>2. CASE Go(o, [op EXCEPT !.pc = "patch", !.sdp = body])
    <3>1. PICK x : x = [op EXCEPT !.pc = "patch", !.sdp = body]
      OBVIOUS
    <3>2. x = [pc |-> "patch", target |-> op.target, sender |-> op.sender, reply |-> op.reply,
               got |-> op.got, hops |-> op.hops, sdp |-> body, cut |-> op.cut]
      BY <1>13, <3>1 DEF IsOp
    <3>3. x.pc = "patch" /\ x.sender = op.sender /\ x.sdp = body /\ x.cut = op.cut /\ IsOp(x)
      BY <3>2 DEF IsOp
    <3>4. x.cut \/ x.sdp = File[x.sender]
      BY <1>13, <3>3, Zenon
    <3>5. OpRight(x)
      BY <3>3, <3>4 DEF OpRight
    <3> QED
      BY <2>2, <3>1, <3>3, <3>5, GoKeeps
  <2> QED
    BY <1>13, <2>1, <2>2 DEF Answer
<1>14. ASSUME NEW o \in Slots, ReplyRead(o) PROVE RouteInv'
  <2>1. PICK op : op = ops[o] /\ IsOp(op) /\ OpRight(op)
    BY <1>2
  <2>2. /\ op.pc = "sdp" /\ (Whole(op) \/ op.got = Len(op.reply))
        /\ Answer(o, op, BodyRead(FramedBy[op.sender], Raw(op)))
    BY <1>14, <2>1 DEF ReplyRead
  <2>3. BodyRead(FramedBy[op.sender], Raw(op)) = File[op.sender]
    BY <2>1, <2>2, OwnReply
  <2> QED
    BY <1>13, <2>1, <2>2, <2>3
<1>15. ASSUME NEW o \in Slots, BreaksOff(o) PROVE RouteInv'
  <2>1. PICK op : op = ops[o] /\ IsOp(op) /\ OpRight(op)
    BY <1>2
  <2>2. CASE Go(o, NoOp)
    BY <2>2, NoOpRight, GoKeeps
  <2>3. CASE Answer(o, [op EXCEPT !.cut = TRUE], BodyRead(FramedBy[op.sender], Raw(op)))
    <3>1. PICK x : x = [op EXCEPT !.cut = TRUE]
      OBVIOUS
    <3>2. x = [pc |-> op.pc, target |-> op.target, sender |-> op.sender, reply |-> op.reply,
               got |-> op.got, hops |-> op.hops, sdp |-> op.sdp, cut |-> TRUE]
      BY <2>1, <3>1 DEF IsOp
    <3>3. x.cut = TRUE /\ IsOp(x)
      BY <3>2 DEF IsOp
    <3> QED
      BY <1>13, <2>3, <3>1, <3>3
  <2> QED
    BY <1>15, <2>1, <2>2, <2>3 DEF BreaksOff
<1>16. ASSUME NEW o \in Slots, Redirected(o) PROVE RouteInv'
  <2>1. PICK op : op = ops[o] /\ IsOp(op) /\ OpRight(op)
    BY <1>2
  <2>2. CASE Go(o, NoOp)
    BY <2>2, NoOpRight, GoKeeps
  <2>3. CASE Go(o, [op EXCEPT !.hops = @ - 1])
    <3>1. PICK x : x = [op EXCEPT !.hops = @ - 1]
      OBVIOUS
    <3>2. x = [pc |-> op.pc, target |-> op.target, sender |-> op.sender, reply |-> op.reply,
               got |-> op.got, hops |-> op.hops - 1, sdp |-> op.sdp, cut |-> op.cut]
      BY <2>1, <3>1 DEF IsOp
    <3>3. /\ x.pc = op.pc /\ x.sender = op.sender /\ x.reply = op.reply /\ x.got = op.got
          /\ x.sdp = op.sdp /\ x.cut = op.cut /\ IsOp(x)
      BY <3>2 DEF IsOp
    <3>4. OpRight(x)
      BY <2>1, <3>3, Zenon DEF OpRight
    <3> QED
      BY <2>3, <3>1, <3>3, <3>4, GoKeeps
  <2> QED
    BY <1>16, <2>1, <2>2, <2>3 DEF Redirected
<1>17. ASSUME NEW o \in Slots, Fails(o) PROVE RouteInv'
  <2>1. Go(o, NoOp)
    BY <1>17 DEF Fails
  <2> QED
    BY <2>1, NoOpRight, GoKeeps
<1>18. ASSUME NEW o \in Slots, Patched(o) PROVE RouteInv'
  <2>1. PICK op : op = ops[o] /\ IsOp(op) /\ OpRight(op)
    BY <1>2
  <2>2. /\ op.pc = "patch" /\ ops' = [ops EXCEPT ![o] = NoOp] /\ via' = via
        /\ route' = [route EXCEPT ![op.target] =
             IF op.sender = "" THEN [route[op.target] EXCEPT !.active = FALSE]
             ELSE [sender |-> op.sender, sdp |-> op.sdp, active |-> TRUE, cut |-> op.cut]]
    BY <1>18, <2>1 DEF Patched
  <2>3. OpsRight'
    BY <2>2, NoOpRight DEF RouteInv, OpsRight
  <2>4. DOMAIN route' = Targets
    BY <2>2 DEF RouteInv, RoutesRight
  <2>5. ASSUME NEW t \in Targets
        PROVE  IsRoute(route'[t]) /\ (route'[t].active => route'[t].cut \/ route'[t].sdp = File[route'[t].sender])
    <3>1. IsRoute(route[t]) /\ (route[t].active => route[t].cut \/ route[t].sdp = File[route[t].sender])
      BY DEF RouteInv, RoutesRight, HandedOver
    <3>2. CASE t # op.target
      <4>1. route'[t] = route[t]
        BY <2>2, <3>2 DEF RouteInv, RoutesRight
      <4> QED
        BY <3>1, <4>1, Zenon
    <3>3. CASE t = op.target /\ op.sender = ""
      <4>1. PICK x, y : x = route[t] /\ y = route'[t]
        OBVIOUS
      <4>2. y = [x EXCEPT !.active = FALSE]
        BY <2>2, <3>3, <4>1 DEF RouteInv, RoutesRight
      <4>3. y = [sender |-> x.sender, sdp |-> x.sdp, active |-> FALSE, cut |-> x.cut]
        BY <3>1, <4>1, <4>2 DEF IsRoute
      <4>4. y.active = FALSE /\ IsRoute(y)
        BY <4>3 DEF IsRoute
      <4> QED
        BY <4>1, <4>4, Zenon
    <3>4. CASE t = op.target /\ op.sender # ""
      <4>1. PICK y : y = route'[t]
        OBVIOUS
      <4>2. y = [sender |-> op.sender, sdp |-> op.sdp, active |-> TRUE, cut |-> op.cut]
        BY <2>2, <3>4, <4>1 DEF RouteInv, RoutesRight
      <4>3. y.sender = op.sender /\ y.sdp = op.sdp /\ y.cut = op.cut /\ IsRoute(y)
        BY <4>2 DEF IsRoute
      <4>4. op.cut \/ op.sdp = File[op.sender]
        BY <2>1, <2>2, <3>4 DEF OpRight
      <4> QED
        BY <4>1, <4>3, <4>4, Zenon
    <3> QED
      BY <3>2, <3>3, <3>4
  <2>6. RoutesRight'
    BY <2>4, <2>5 DEF RoutesRight
  <2>7. HandedOver'
    BY <2>5 DEF HandedOver
  <2> QED
    BY <1>2, <2>2, <2>3, <2>6, <2>7 DEF RouteInv
<1>19. CASE UNCHANGED routeVars
  BY <1>1, <1>2, <1>19 DEF routeVars, nodes
<1>20. CASE \E o \in Slots : OpStep(o) \/ BreaksOff(o) \/ Redirected(o) \/ Fails(o)
  <2>1. PICK o \in Slots : OpStep(o) \/ BreaksOff(o) \/ Redirected(o) \/ Fails(o)
    BY <1>20
  <2> QED
    BY <1>11, <1>12, <1>14, <1>15, <1>16, <1>17, <1>18, <2>1 DEF OpStep
<1> QED
  BY <1>3, <1>4, <1>5, <1>6, <1>7, <1>8, <1>9, <1>10, <1>19, <1>20 DEF RouteNext

\* A receiver is given the whole SDP of its sender in whatever pieces the
\* reply came, and a reply that says where it ends is not waited on: for
\* every SDP without a line that looks like the end chunk.
THEOREM RepliesAreRight ==
  NoEndInside => (RouteInit /\ [][RouteNext]_routeVars => []RepliesRight)
<1> SUFFICES ASSUME NoEndInside PROVE RouteInit /\ [][RouteNext]_routeVars => []RepliesRight
  OBVIOUS
<1>1. RouteInit => RouteInv
  BY RouteInitInv
<1>2. RouteInv /\ [RouteNext]_routeVars => RouteInv'
  BY RouteNextInv
<1>3. RouteInv => RepliesRight
  BY RepliesAre
<1> QED
  BY <1>1, <1>2, <1>3, PTL

-----------------------------------------------------------------------------
(* Dashboard: positions and sequences without some of their members.       *)

\* The ranks of a finite set of positions are 1 to its size, in order.
LEMMA RankIs ==
  ASSUME NEW I, I \subseteq Nat, IsFiniteSet(I)
  PROVE  /\ Cardinality(I) \in Nat
         /\ \A i \in I : Rank(I, i) \in 1 .. Cardinality(I)
         /\ \A i \in I, j \in I : i < j => Rank(I, i) < Rank(I, j)
<1>1. PICK n \in Nat : n = Cardinality(I)
  BY FS_CardinalityType
<1>2. ASSUME NEW i \in I PROVE IsFiniteSet({j \in I : j <= i}) /\ Rank(I, i) \in 1 .. n
  <2>1. PICK A : A = {j \in I : j <= i}
    OBVIOUS
  <2>2. A \in SUBSET I /\ i \in A
    BY <2>1
  <2>3. IsFiniteSet(A) /\ Cardinality(A) <= Cardinality(I)
    BY <2>2, FS_Subset
  <2>4. Cardinality(A) \in Nat /\ Cardinality(A) # 0
    BY <2>2, <2>3, FS_CardinalityType, FS_EmptySet
  <2>5. Cardinality(A) \in 1 .. n
    BY <1>1, <2>3, <2>4
  <2> QED
    BY <2>1, <2>3, <2>5 DEF Rank
<1>3. ASSUME NEW i \in I, NEW j \in I, i < j PROVE Rank(I, i) < Rank(I, j)
  <2>1. PICK A, B : A = {k \in I : k <= i} /\ B = {k \in I : k <= j}
    OBVIOUS
  <2>2. A \in SUBSET B /\ j \in B /\ j \notin A
    <3>1. \A k \in I : k \in Nat /\ i \in Nat /\ j \in Nat
      OBVIOUS
    <3>2. j <= j /\ ~(j <= i) /\ \A k \in I : k <= i => k <= j
      BY <1>3, <3>1
    <3> QED
      BY <2>1, <3>2
  <2>3. IsFiniteSet(B)
    BY <1>2, <2>1
  <2>4. Cardinality(A) <= Cardinality(B) /\ Cardinality(B) # Cardinality(A)
    BY <2>2, <2>3, FS_Subset
  <2>5. Cardinality(A) \in Nat /\ Cardinality(B) \in Nat
    BY <1>2, <2>1, FS_CardinalityType
  <2>6. Cardinality(A) < Cardinality(B)
    BY <2>2, <2>4, <2>5
  <2> QED
    BY <2>1, <2>6 DEF Rank
<1> QED
  BY <1>1, <1>2, <1>3

\* Nth undoes Rank.
LEMMA NthIs ==
  ASSUME NEW I, I \subseteq Nat, IsFiniteSet(I)
  PROVE  /\ \A k \in 1 .. Cardinality(I) : Nth(I, k) \in I /\ Rank(I, Nth(I, k)) = k
         /\ \A i \in I : Nth(I, Rank(I, i)) = i
<1>1. PICK n \in Nat : n = Cardinality(I)
  BY FS_CardinalityType
<1>2. \A i \in I : Rank(I, i) \in 1 .. n
  BY <1>1, RankIs, Zenon
<1>3. \A i \in I, j \in I : i < j => Rank(I, i) < Rank(I, j)
  BY RankIs, Zenon
<1>4. \A i \in I, j \in I : Rank(I, i) = Rank(I, j) => i = j
  BY <1>2, <1>3
<1>5. PICK f : f = [i \in I |-> Rank(I, i)]
  OBVIOUS
<1>6. f \in Injection(I, 1 .. n)
  <2>1. f \in [I -> 1 .. n]
    BY <1>2, <1>5
  <2>2. IsInjective(f)
    BY <1>4, <1>5 DEF IsInjective
  <2> QED
    BY <2>1, <2>2 DEF Injection
<1>7. IsFiniteSet(1 .. n) /\ Cardinality(1 .. n) = n
  <2>1. 1 \in Int /\ n \in Int
    OBVIOUS
  <2>2. IsFiniteSet(1 .. n) /\ Cardinality(1 .. n) = (IF 1 > n THEN 0 ELSE n - 1 + 1)
    BY <2>1, FS_Interval
  <2> QED
    BY <2>2
<1>8. f \in Surjection(I, 1 .. n)
  BY <1>1, <1>6, <1>7, FS_Injection
<1>9. \A k \in 1 .. n : \E i \in I : Rank(I, i) = k
  BY <1>5, <1>8 DEF Surjection
<1>10. \A k \in 1 .. n : Nth(I, k) \in I /\ Rank(I, Nth(I, k)) = k
  BY <1>9 DEF Nth
<1>11. \A i \in I : Nth(I, Rank(I, i)) = i
  BY <1>2, <1>4, <1>10
<1> QED
  BY <1>1, <1>10, <1>11

\* The members of a sequence at some positions.
MembersAt(T, s, I, t) ==
  /\ IsFiniteSet(I) /\ I \subseteq Nat /\ Cardinality(I) \in Nat
  /\ t \in Seq(T) /\ Len(t) = Cardinality(I)
  /\ \A i \in I : Rank(I, i) \in 1 .. Cardinality(I) /\ t[Rank(I, i)] = s[i]
  /\ \A k \in 1 .. Cardinality(I) :
       Nth(I, k) \in I /\ Rank(I, Nth(I, k)) = k /\ t[k] = s[Nth(I, k)]

LEMMA AtIs ==
  ASSUME NEW T, NEW s \in Seq(T), NEW I, I \subseteq 1 .. Len(s)
  PROVE  MembersAt(T, s, I, At(s, I))
<1>1. PICK m \in Nat : m = Len(s)
  BY LenProperties
<1>2. IsFiniteSet(I)
  <2>1. 1 \in Int /\ m \in Int /\ I \in SUBSET (1 .. m)
    BY <1>1
  <2>2. IsFiniteSet(1 .. m)
    BY <2>1, FS_Interval
  <2> QED
    BY <2>1, <2>2, FS_Subset
<1>3. I \subseteq Nat
  BY <1>1
<1>4. PICK n \in Nat : n = Cardinality(I)
  BY <1>2, FS_CardinalityType
<1>5. /\ \A k \in 1 .. n : Nth(I, k) \in I /\ Rank(I, Nth(I, k)) = k
      /\ \A i \in I : Nth(I, Rank(I, i)) = i
  BY <1>2, <1>3, <1>4, NthIs
<1>6. \A i \in I : Rank(I, i) \in 1 .. n
  BY <1>2, <1>3, <1>4, RankIs
<1>7. PICK t : t = At(s, I)
  OBVIOUS
<1>8. t = [k \in 1 .. n |-> s[Nth(I, k)]]
  BY <1>4, <1>7 DEF At
<1>9. \A i \in 1 .. m : s[i] \in T
  BY <1>1, ElementOfSeq
<1>10. t \in Seq(T)
  <2>1. \A k \in 1 .. n : s[Nth(I, k)] \in T
    BY <1>1, <1>5, <1>9
  <2>2. t \in [1 .. n -> T]
    BY <1>8, <2>1
  <2> QED
    BY <2>2
<1>11. Len(t) = n
  BY <1>8, <1>10
<1>12. \A i \in I : t[Rank(I, i)] = s[i]
  BY <1>5, <1>6, <1>8
<1>13. \A k \in 1 .. n : t[k] = s[Nth(I, k)]
  BY <1>8
<1>14. MembersAt(T, s, I, t)
  BY <1>2, <1>3, <1>4, <1>5, <1>6, <1>10, <1>11, <1>12, <1>13 DEF MembersAt
<1> QED
  BY <1>7, <1>14

\* A sequence with the right member at every rank is the one at the positions.
LEMMA AtEquals ==
  ASSUME NEW T, NEW s \in Seq(T), NEW I, I \subseteq 1 .. Len(s),
         NEW c \in Seq(T), Len(c) = Cardinality(I), \A i \in I : c[Rank(I, i)] = s[i]
  PROVE  At(s, I) = c
<1>1. PICK t : t = At(s, I)
  OBVIOUS
<1>2. MembersAt(T, s, I, t)
  BY <1>1, AtIs, Zenon
<1>3. t \in Seq(T) /\ Len(t) = Len(c) /\ \A k \in 1 .. Len(t) : t[k] = c[k]
  BY <1>2 DEF MembersAt
<1>4. t = c
  BY <1>3, SeqEqual
<1> QED
  BY <1>1, <1>4

\* The positions of the members of s that are in S.
Where(s, S) == {i \in DOMAIN s : s[i] \in S}

\* What Only makes of a sequence.
LEMMA OnlyIs ==
  ASSUME NEW T, NEW s \in Seq(T), NEW S
  PROVE  /\ Only(s, S) \in Seq(T) /\ ToSet(Only(s, S)) = ToSet(s) \cap S
         /\ IsInjective(s) => IsInjective(Only(s, S))
<1>1. PICK I, t : I = Where(s, S) /\ t = Only(s, S)
  OBVIOUS
<1>2. I \subseteq 1 .. Len(s) /\ t = At(s, I) /\ DOMAIN s = 1 .. Len(s)
  BY <1>1 DEF Where, Only
<1>3. MembersAt(T, s, I, t)
  BY <1>2, AtIs
<1>4. PICK n \in Nat : n = Cardinality(I)
  BY <1>3 DEF MembersAt
<1>5. t \in Seq(T) /\ DOMAIN t = 1 .. n
  BY <1>3, <1>4 DEF MembersAt
<1>6. /\ \A i \in I : Rank(I, i) \in 1 .. n /\ t[Rank(I, i)] = s[i]
      /\ \A k \in 1 .. n : Nth(I, k) \in I /\ Rank(I, Nth(I, k)) = k /\ t[k] = s[Nth(I, k)]
  BY <1>3, <1>4 DEF MembersAt
<1>7. \A x : x \in I <=> x \in DOMAIN s /\ s[x] \in S
  BY <1>1 DEF Where
<1>8. ASSUME NEW x \in ToSet(t) PROVE x \in ToSet(s) \cap S
  <2>1. PICK k \in 1 .. n : x = t[k]
    BY <1>5, <1>8 DEF ToSet
  <2> QED
    BY <1>6, <1>7, <2>1 DEF ToSet
<1>9. ASSUME NEW x \in ToSet(s), x \in S PROVE x \in ToSet(t)
  <2>1. PICK i \in DOMAIN s : x = s[i]
    BY DEF ToSet
  <2>2. i \in I
    BY <1>7, <1>9, <2>1
  <2> QED
    BY <1>5, <1>6, <2>1, <2>2 DEF ToSet
<1>10. ASSUME IsInjective(s) PROVE IsInjective(t)
  <2>1. ASSUME NEW a \in 1 .. n, NEW b \in 1 .. n, t[a] = t[b] PROVE a = b
    <3>1. Nth(I, a) = Nth(I, b)
      BY <1>6, <1>7, <1>10, <2>1 DEF IsInjective
    <3> QED
      BY <1>6, <3>1
  <2> QED
    BY <1>5, <2>1 DEF IsInjective
<1> QED
  BY <1>1, <1>5, <1>8, <1>9, <1>10

\* A sequence with the right member at every rank is what Only makes of s.
LEMMA OnlyEquals ==
  ASSUME NEW T, NEW s \in Seq(T), NEW S, NEW c \in Seq(T), Len(c) = Cardinality(Where(s, S)),
         \A i \in Where(s, S) : c[Rank(Where(s, S), i)] = s[i]
  PROVE  Only(s, S) = c
<1>1. PICK I : I = Where(s, S)
  OBVIOUS
<1>2. I \subseteq 1 .. Len(s) /\ Only(s, S) = At(s, I)
  BY <1>1 DEF Where, Only
<1>3. I \subseteq 1 .. Len(s)
  BY <1>2
<1>4. At(s, I) = c
  <2>1. Len(c) = Cardinality(I)
    BY <1>1, Zenon
  <2>2. \A i \in I : c[Rank(I, i)] = s[i]
    BY <1>1, Zenon
  <2> QED
    BY <1>3, <2>1, <2>2, AtEquals, Zenon
<1> QED
  BY <1>2, <1>4

\* Nothing is left out.
LEMMA OnlyAll ==
  ASSUME NEW T, NEW s \in Seq(T), NEW S, ToSet(s) \subseteq S
  PROVE  Only(s, S) = s
<1>1. PICK n \in Nat : n = Len(s)
  BY LenProperties
<1>2. Where(s, S) = 1 .. n
  <2>1. \A i \in DOMAIN s : s[i] \in S
    BY DEF ToSet
  <2>2. DOMAIN s = 1 .. n
    BY <1>1
  <2> QED
    BY <2>1, <2>2 DEF Where
<1>3. ASSUME NEW m \in Nat PROVE Cardinality(1 .. m) = m
  <2>1. 1 \in Int /\ m \in Int
    OBVIOUS
  <2>2. Cardinality(1 .. m) = (IF 1 > m THEN 0 ELSE m - 1 + 1)
    BY <2>1, FS_Interval
  <2> QED
    BY <2>2
<1>4. ASSUME NEW i \in 1 .. n PROVE Rank(1 .. n, i) = i
  <2>1. {j \in 1 .. n : j <= i} = 1 .. i /\ i \in Nat
    OBVIOUS
  <2> QED
    BY <1>3, <2>1 DEF Rank
<1>5. Len(s) = Cardinality(Where(s, S)) /\ \A i \in Where(s, S) : s[Rank(Where(s, S), i)] = s[i]
  BY <1>1, <1>2, <1>3, <1>4
<1> QED
  BY <1>5, OnlyEquals, Zenon

\* Everything is left out.
LEMMA OnlyNone ==
  ASSUME NEW T, NEW s \in Seq(T), NEW S, ToSet(s) \cap S = {}
  PROVE  Only(s, S) = <<>>
<1>1. Where(s, S) = {}
  BY DEF Where, ToSet
<1>2. Len(<<>>) = 0 /\ <<>> \in Seq(T) /\ Cardinality({}) = 0
  BY FS_EmptySet
<1>3. Len(<<>>) = Cardinality(Where(s, S))
      /\ \A i \in Where(s, S) : <<>>[Rank(Where(s, S), i)] = s[i]
  BY <1>1, <1>2
<1> QED
  BY <1>2, <1>3, OnlyEquals, Zenon

\* One member of a sequence without repetitions.
LEMMA OnlyOne ==
  ASSUME NEW T, NEW s \in Seq(T), IsInjective(s), NEW x \in ToSet(s)
  PROVE  Only(s, {x}) = <<x>>
<1>1. PICK i \in DOMAIN s : x = s[i]
  BY DEF ToSet
<1>2. Where(s, {x}) = {i}
  BY <1>1 DEF Where, IsInjective
<1>3. i \in Nat /\ x \in T
  BY <1>1
<1>4. Cardinality({i}) = 1
  BY FS_Singleton
<1>5. {j \in {i} : j <= i} = {i}
  BY <1>3
<1>6. Rank({i}, i) = 1
  BY <1>4, <1>5 DEF Rank
<1>7. PICK c : c = <<x>>
  OBVIOUS
<1>8. c \in Seq(T) /\ Len(c) = 1 /\ c[1] = x
  BY <1>3, <1>7
<1>9. Len(c) = Cardinality(Where(s, {x}))
      /\ \A j \in Where(s, {x}) : c[Rank(Where(s, {x}), j)] = s[j]
  BY <1>1, <1>2, <1>4, <1>6, <1>8
<1>10. Only(s, {x}) = c
  BY <1>8, <1>9, OnlyEquals, Zenon
<1> QED
  BY <1>7, <1>10

\* Whatever follows and is left out makes no difference.
LEMMA OnlyHead ==
  ASSUME NEW T, NEW s \in Seq(T), NEW u \in Seq(T), NEW S, ToSet(u) \cap S = {}
  PROVE  Only(s \o u, S) = Only(s, S)
<1>1. PICK r, I, c : r = s \o u /\ I = Where(s, S) /\ c = Only(s, S)
  OBVIOUS
<1>2. PICK m \in Nat, n \in Nat : m = Len(s) /\ n = Len(u)
  BY LenProperties
<1>3. /\ r \in Seq(T) /\ Len(r) = m + n
      /\ \A i \in 1 .. m : r[i] = s[i]
      /\ \A i \in m + 1 .. m + n : r[i] = u[i - m]
  BY <1>1, <1>2
<1>4. \A i \in 1 .. n : u[i] \notin S
  BY <1>2 DEF ToSet
<1>5. Where(r, S) = I
  <2>1. DOMAIN r = 1 .. m + n /\ DOMAIN s = 1 .. m
    BY <1>2, <1>3
  <2>2. ASSUME NEW i \in 1 .. m + n, i > m PROVE r[i] \notin S
    <3>1. i \in m + 1 .. m + n /\ i - m \in 1 .. n
      BY <2>2
    <3> QED
      BY <1>3, <1>4, <3>1
  <2>3. \A i \in 1 .. m + n : ~(i > m) => i \in 1 .. m
    OBVIOUS
  <2>4. \A i \in 1 .. m : i \in 1 .. m + n
    OBVIOUS
  <2> QED
    BY <1>1, <1>3, <2>1, <2>2, <2>3, <2>4 DEF Where
<1>6. I \subseteq 1 .. Len(s) /\ c = At(s, I)
  BY <1>1, <1>2 DEF Where, Only
<1>7. MembersAt(T, s, I, c)
  BY <1>6, AtIs
<1>8. c \in Seq(T) /\ Len(c) = Cardinality(I) /\ \A i \in I : c[Rank(I, i)] = s[i]
  BY <1>7 DEF MembersAt
<1>9. \A i \in I : c[Rank(I, i)] = r[i]
  BY <1>2, <1>3, <1>6, <1>8
<1>10. Len(c) = Cardinality(Where(r, S)) /\ \A i \in Where(r, S) : c[Rank(Where(r, S), i)] = r[i]
  BY <1>5, <1>8, <1>9, Zenon
<1>11. Only(r, S) = c
  <2>1. r \in Seq(T) /\ c \in Seq(T)
    BY <1>3, <1>8, Zenon
  <2> QED
    BY <1>10, <2>1, OnlyEquals, Zenon
<1> QED
  BY <1>1, <1>11

\* What is not in the sequence makes no difference.
LEMMA OnlySame ==
  ASSUME NEW s, NEW R, NEW S, \A x \in ToSet(s) : x \in R <=> x \in S
  PROVE  Only(s, R) = Only(s, S)
<1>1. {i \in DOMAIN s : s[i] \in R} = {i \in DOMAIN s : s[i] \in S}
  BY DEF ToSet
<1> QED
  BY <1>1, Zenon DEF Only

\* A sequence without repetitions is as long as it has members.
LEMMA Lengths ==
  ASSUME NEW T, NEW s \in Seq(T), IsInjective(s)
  PROVE  /\ IsFiniteSet(ToSet(s)) /\ Cardinality(ToSet(s)) = Len(s)
<1>1. PICK n \in Nat : n = Len(s)
  BY LenProperties
<1>2. s \in Bijection(1 .. n, ToSet(s))
  <2>1. DOMAIN s = 1 .. n
    BY <1>1
  <2>2. s \in [1 .. n -> ToSet(s)]
    BY <1>1, <2>1 DEF ToSet
  <2>3. \A x \in ToSet(s) : \E i \in 1 .. n : s[i] = x
    BY <2>1 DEF ToSet
  <2> QED
    BY <2>2, <2>3 DEF Bijection, Injection, Surjection
<1>3. IsFiniteSet(1 .. n) /\ Cardinality(1 .. n) = n
  <2>1. 1 \in Int /\ n \in Int
    OBVIOUS
  <2>2. IsFiniteSet(1 .. n) /\ Cardinality(1 .. n) = (IF 1 > n THEN 0 ELSE n - 1 + 1)
    BY <2>1, FS_Interval
  <2> QED
    BY <2>2
<1>4. ExistsBijection(1 .. n, ToSet(s))
  BY <1>2 DEF ExistsBijection
<1> QED
  BY <1>1, <1>3, <1>4, FS_Bijection

\* A sequence without what is unknown and without repetitions.
LEMMA KnownIs ==
  ASSUME NEW T, NEW s \in Seq(T), NEW cat
  PROVE  /\ Known(cat, s) \in Seq(T) /\ ToSet(Known(cat, s)) = ToSet(s) \cap ToSet(cat)
         /\ IsInjective(Known(cat, s))
         /\ IsInjective(s) /\ ToSet(s) \subseteq ToSet(cat) => Known(cat, s) = s
<1>1. PICK I : I = {i \in DOMAIN s : s[i] \in ToSet(cat) /\ \A j \in 1 .. i - 1 : s[j] # s[i]}
  OBVIOUS
<1>2. PICK t : t = Known(cat, s)
  OBVIOUS
<1>3. PICK m \in Nat : m = Len(s)
  BY LenProperties
<1>4. DOMAIN s = 1 .. m
  BY <1>3
<1>5. I \subseteq 1 .. Len(s) /\ t = At(s, I)
  BY <1>1, <1>2, <1>3, <1>4 DEF Known
<1>6. MembersAt(T, s, I, t)
  BY <1>5, AtIs
<1>7. PICK n \in Nat : n = Cardinality(I)
  BY <1>6 DEF MembersAt
<1>8. t \in Seq(T) /\ DOMAIN t = 1 .. n
  BY <1>6, <1>7 DEF MembersAt
<1>9. /\ \A i \in I : Rank(I, i) \in 1 .. n /\ t[Rank(I, i)] = s[i]
      /\ \A k \in 1 .. n : Nth(I, k) \in I /\ Rank(I, Nth(I, k)) = k /\ t[k] = s[Nth(I, k)]
  BY <1>6, <1>7 DEF MembersAt
<1>10. ASSUME NEW x \in ToSet(t) PROVE x \in ToSet(s) \cap ToSet(cat)
  <2>1. PICK k \in 1 .. n : x = t[k]
    BY <1>8, <1>10 DEF ToSet
  <2>2. PICK i \in I : x = s[i]
    BY <1>9, <2>1
  <2>3. i \in DOMAIN s /\ s[i] \in ToSet(cat)
    BY <1>1, <2>2
  <2>4. s[i] \in ToSet(s)
    BY <2>3 DEF ToSet
  <2> QED
    BY <2>2, <2>3, <2>4
<1>11. ASSUME NEW x \in ToSet(s), x \in ToSet(cat) PROVE x \in ToSet(t)
  <2>1. PICK O : O = {i \in 1 .. m : s[i] = x}
    OBVIOUS
  <2>2. O \subseteq Nat /\ O # {}
    BY <1>4, <2>1 DEF ToSet
  <2>3. PICK i \in O : \A k \in O : i <= k
    BY <2>2, Least, Zenon
  <2>4. i \in 1 .. m /\ s[i] = x
    BY <2>1, <2>3
  <2>5. \A j \in 1 .. i - 1 : s[j] # x
    <3>1. \A j \in 1 .. i - 1 : j \in 1 .. m /\ ~(i <= j)
      BY <2>4
    <3> QED
      BY <2>1, <2>3, <3>1
  <2>6. i \in I
    BY <1>1, <1>4, <1>11, <2>4, <2>5
  <2> QED
    BY <1>8, <1>9, <2>4, <2>6 DEF ToSet
<1>12. IsInjective(t)
  <2>1. ASSUME NEW i \in I, NEW j \in I, s[i] = s[j] PROVE i = j
    <3>1. i \in 1 .. m /\ j \in 1 .. m
      BY <1>1, <1>4
    <3>2. (i < j => i \in 1 .. j - 1) /\ (j < i => j \in 1 .. i - 1) /\ (i < j \/ j < i \/ i = j)
      BY <3>1
    <3>3. ~(i \in 1 .. j - 1) /\ ~(j \in 1 .. i - 1)
      BY <1>1, <2>1
    <3> QED
      BY <3>2, <3>3
  <2>2. ASSUME NEW a \in 1 .. n, NEW b \in 1 .. n, t[a] = t[b] PROVE a = b
    <3>1. Nth(I, a) = Nth(I, b)
      BY <1>9, <2>1, <2>2
    <3> QED
      BY <1>9, <3>1
  <2> QED
    BY <1>8, <2>2 DEF IsInjective
<1>13. ASSUME IsInjective(s), ToSet(s) \subseteq ToSet(cat) PROVE t = s
  <2>1. \A i \in 1 .. m : s[i] \in ToSet(cat)
    BY <1>4, <1>13 DEF ToSet
  <2>2. ASSUME NEW i \in 1 .. m, NEW j \in 1 .. i - 1 PROVE s[j] # s[i]
    <3>1. j \in 1 .. m /\ j # i
      OBVIOUS
    <3> QED
      BY <1>4, <1>13, <3>1 DEF IsInjective
  <2>3. I = DOMAIN s
    BY <1>1, <1>4, <2>1, <2>2
  <2>4. PICK S : S = ToSet(s)
    OBVIOUS
  <2>5. {i \in DOMAIN s : s[i] \in S} = I
    BY <2>3, <2>4 DEF ToSet
  <2>6. Only(s, S) = t
    BY <1>5, <2>5 DEF Only
  <2>7. Only(s, S) = s
    BY <2>4, OnlyAll
  <2> QED
    BY <2>6, <2>7
<1> QED
  BY <1>2, <1>8, <1>10, <1>11, <1>12, <1>13

\* The rows with the chain laid over them: position by position.
LaidOut(T, r, old, chain, n, m, q) ==
  LET on == Where(old, ToSet(chain))
  IN  /\ r \in Seq(T) /\ Len(r) = n + m - q
      /\ IsFiniteSet(on) /\ on \subseteq 1 .. n /\ q = Cardinality(on)
      /\ \A i \in on : Rank(on, i) \in 1 .. q /\ r[i] = chain[Rank(on, i)]
      /\ \A i \in 1 .. n : i \notin on => r[i] = old[i] /\ old[i] \notin ToSet(chain)
      /\ \A d \in 1 .. m - q : r[n + d] = chain[q + d]

LEMMA LaidParts ==
  ASSUME NEW T, NEW old \in Seq(T), NEW chain \in Seq(T), IsInjective(old), IsInjective(chain),
         NEW n \in Nat, n = Len(old), NEW m \in Nat, m = Len(chain)
  PROVE  \E q \in 0 .. m : LaidOut(T, Laid(old, chain), old, chain, n, m, q)
<1>1. PICK C, on, r : C = ToSet(chain) /\ on = Where(old, C) /\ r = Laid(old, chain)
  OBVIOUS
<1>2. DOMAIN old = 1 .. n /\ DOMAIN chain = 1 .. m
  OBVIOUS
<1>3. on \subseteq 1 .. Len(old) /\ on \subseteq 1 .. n /\ Only(old, C) = At(old, on)
  BY <1>1, <1>2 DEF Where, Only
<1>4. PICK t : t = Only(old, C)
  OBVIOUS
<1>5. MembersAt(T, old, on, t)
  BY <1>3, <1>4, AtIs
<1>6. PICK q \in Nat : q = Cardinality(on)
  BY <1>5 DEF MembersAt
<1>7. IsFiniteSet(on) /\ Len(t) = q /\ \A i \in on : Rank(on, i) \in 1 .. q
  BY <1>5, <1>6 DEF MembersAt
<1>8. q <= m
  <2>1. t \in Seq(T) /\ IsInjective(t) /\ ToSet(t) \in SUBSET C
    BY <1>4, OnlyIs
  <2>2. Cardinality(ToSet(t)) = q
    BY <1>7, <2>1, Lengths
  <2>3. IsFiniteSet(C) /\ Cardinality(C) = m
    BY <1>1, Lengths
  <2>4. Cardinality(ToSet(t)) <= Cardinality(C)
    BY <2>1, <2>3, FS_Subset
  <2> QED
    BY <2>2, <2>3, <2>4
<1>9. \A i \in 1 .. m : chain[i] \in T
  BY ElementOfSeq
<1>10. PICK first : first = [i \in 1 .. n |-> IF i \in on THEN chain[Rank(on, i)] ELSE old[i]]
  OBVIOUS
<1>11. first \in Seq(T) /\ Len(first) = n
  <2>1. \A i \in 1 .. n : old[i] \in T
    BY ElementOfSeq
  <2>2. \A i \in on : chain[Rank(on, i)] \in T
    BY <1>7, <1>8, <1>9
  <2>3. first \in [1 .. n -> T]
    BY <1>10, <2>1, <2>2
  <2> QED
    BY <1>10, <2>3
<1>12. PICK tail : tail = SubSeq(chain, q + 1, m)
  OBVIOUS
<1>13. tail \in Seq(T) /\ Len(tail) = m - q /\ \A d \in 1 .. m - q : tail[d] = chain[q + d]
  <2>1. q + 1 \in Int /\ m \in Int /\ \A i \in q + 1 .. m : chain[i] \in T
    BY <1>9
  <2>2. /\ SubSeq(chain, q + 1, m) \in Seq(T)
        /\ Len(SubSeq(chain, q + 1, m)) = IF q + 1 <= m THEN m - (q + 1) + 1 ELSE 0
        /\ \A i \in 1 .. m - (q + 1) + 1 : SubSeq(chain, q + 1, m)[i] = chain[q + 1 + i - 1]
    BY <2>1, SubSeqProperties
  <2>3. (IF q + 1 <= m THEN m - (q + 1) + 1 ELSE 0) = m - q
    BY <1>8
  <2>4. \A d \in 1 .. m - q : d \in 1 .. m - (q + 1) + 1 /\ q + 1 + d - 1 = q + d
    OBVIOUS
  <2> QED
    BY <1>12, <2>2, <2>3, <2>4
<1>14. r = first \o tail
  BY <1>1, <1>2, <1>6, <1>10, <1>12 DEF Laid, Where
<1>15. /\ r \in Seq(T) /\ Len(r) = n + (m - q)
       /\ \A i \in 1 .. n : r[i] = first[i]
       /\ \A d \in 1 .. m - q : r[n + d] = tail[d]
  <2>1. /\ first \o tail \in Seq(T)
        /\ Len(first \o tail) = Len(first) + Len(tail)
        /\ \A i \in 1 .. Len(first) + Len(tail) : (first \o tail)[i] =
              IF i <= Len(first) THEN first[i] ELSE tail[i - Len(first)]
    BY <1>11, <1>13, ConcatProperties
  <2>2. /\ r \in Seq(T) /\ Len(r) = n + (m - q)
        /\ \A i \in 1 .. n + (m - q) : r[i] = IF i <= n THEN first[i] ELSE tail[i - n]
    BY <1>11, <1>13, <1>14, <2>1
  <2>3. \A i \in 1 .. n : i \in 1 .. n + (m - q) /\ i <= n
    BY <1>8
  <2>4. \A d \in 1 .. m - q : n + d \in 1 .. n + (m - q) /\ ~(n + d <= n) /\ n + d - n = d
    OBVIOUS
  <2>5. \A i \in 1 .. n : r[i] = first[i]
    BY <2>2, <2>3
  <2>6. ASSUME NEW d \in 1 .. m - q PROVE r[n + d] = tail[d]
    <3>1. r[n + d] = IF n + d <= n THEN first[n + d] ELSE tail[n + d - n]
      BY <2>2, <2>4
    <3> QED
      BY <2>4, <3>1
  <2> QED
    BY <2>2, <2>5, <2>6
<1>16. \A i \in on : r[i] = chain[Rank(on, i)]
  BY <1>3, <1>10, <1>15
<1>17. ASSUME NEW i \in 1 .. n, i \notin on PROVE r[i] = old[i] /\ old[i] \notin C
  <2>1. r[i] = old[i]
    BY <1>10, <1>15, <1>17
  <2> QED
    BY <1>1, <1>2, <1>17, <2>1 DEF Where
<1>18. Len(r) = n + m - q
  BY <1>8, <1>15
<1>19. \A d \in 1 .. m - q : r[n + d] = chain[q + d]
  BY <1>13, <1>15
<1>20. LaidOut(T, r, old, chain, n, m, q)
  BY <1>1, <1>3, <1>6, <1>7, <1>15, <1>16, <1>17, <1>18, <1>19 DEF LaidOut
<1> QED
  BY <1>1, <1>8, <1>20

\* The chain laid over rows without repetitions: they run in its order.
LEMMA LaidIs ==
  ASSUME NEW T, NEW old \in Seq(T), NEW chain \in Seq(T), IsInjective(old), IsInjective(chain),
         NEW r, r = Laid(old, chain)
  PROVE  /\ r \in Seq(T) /\ IsInjective(r) /\ Only(r, ToSet(chain)) = chain
         /\ ToSet(r) = ToSet(old) \cup ToSet(chain)
<1>1. PICK n \in Nat, m \in Nat : n = Len(old) /\ m = Len(chain)
  BY LenProperties
<1>2. PICK q \in 0 .. m : LaidOut(T, r, old, chain, n, m, q)
  BY <1>1, LaidParts
<1>3. PICK C, on, W : C = ToSet(chain) /\ on = Where(old, C) /\ W = on \cup (n + 1 .. n + m - q)
  OBVIOUS
<1>4. /\ r \in Seq(T) /\ Len(r) = n + m - q
      /\ IsFiniteSet(on) /\ on \subseteq 1 .. n /\ q = Cardinality(on)
      /\ \A i \in on : Rank(on, i) \in 1 .. q /\ r[i] = chain[Rank(on, i)]
      /\ \A i \in 1 .. n : i \notin on => r[i] = old[i] /\ old[i] \notin C
      /\ \A d \in 1 .. m - q : r[n + d] = chain[q + d]
  BY <1>2, <1>3 DEF LaidOut
<1>5. DOMAIN r = 1 .. n + m - q /\ DOMAIN chain = 1 .. m /\ DOMAIN old = 1 .. n
  BY <1>1, <1>4
<1>6. \A k \in 1 .. m : chain[k] \in C
  BY <1>3, <1>5 DEF ToSet
<1>7. \A i \in n + 1 .. n + m - q : i - n \in 1 .. m - q /\ n + (i - n) = i /\ q + (i - n) \in 1 .. m
                                  /\ q + (i - n) = q + i - n /\ i \notin 1 .. n
  OBVIOUS
<1>8. ASSUME NEW d \in 1 .. m - q
      PROVE  Cardinality(on \cup (n + 1 .. n + d)) = q + d
  <2>1. n + 1 \in Int /\ n + d \in Int
    OBVIOUS
  <2>2. IsFiniteSet(n + 1 .. n + d)
        /\ Cardinality(n + 1 .. n + d) = (IF n + 1 > n + d THEN 0 ELSE n + d - (n + 1) + 1)
    BY <2>1, FS_Interval
  <2>3. Cardinality(n + 1 .. n + d) = d
    BY <2>2
  <2>4. on \cap (n + 1 .. n + d) = {}
    BY <1>4
  <2>5. Cardinality(on \cup (n + 1 .. n + d))
          = Cardinality(on) + Cardinality(n + 1 .. n + d) - Cardinality(on \cap (n + 1 .. n + d))
    BY <1>4, <2>2, FS_Union
  <2>6. Cardinality(on \cap (n + 1 .. n + d)) = 0
    BY <2>4, FS_EmptySet
  <2> QED
    BY <1>4, <2>3, <2>5, <2>6
<1>9. Cardinality(W) = m
  <2>1. CASE q = m
    <3>1. W = on
      BY <1>3, <2>1
    <3> QED
      BY <1>4, <2>1, <3>1
  <2>2. CASE q # m
    <3>1. PICK d \in 1 .. m - q : d = m - q
      BY <2>2
    <3>2. W = on \cup (n + 1 .. n + d) /\ q + d = m
      BY <1>3, <3>1
    <3> QED
      BY <1>8, <3>2
  <2> QED
    BY <2>1, <2>2
<1>10. ASSUME NEW i \in on PROVE Rank(W, i) = Rank(on, i)
  <2>1. {j \in W : j <= i} = {j \in on : j <= i}
    <3>1. i \in 1 .. n
      BY <1>4
    <3>2. \A j \in n + 1 .. n + m - q : ~(j <= i)
      BY <3>1
    <3> QED
      BY <1>3, <3>2
  <2> QED
    BY <2>1 DEF Rank
<1>11. ASSUME NEW d \in 1 .. m - q PROVE Rank(W, n + d) = q + d
  <2>1. {j \in W : j <= n + d} = on \cup (n + 1 .. n + d)
    <3>1. \A j \in on : j \in 1 .. n /\ j <= n + d
      BY <1>4
    <3>2. \A j \in n + 1 .. n + m - q : j <= n + d <=> j \in n + 1 .. n + d
      OBVIOUS
    <3>3. \A j \in n + 1 .. n + d : j \in n + 1 .. n + m - q
      OBVIOUS
    <3> QED
      BY <1>3, <3>1, <3>2, <3>3
  <2> QED
    BY <1>8, <2>1 DEF Rank
<1>12. \A i \in W : Rank(W, i) \in 1 .. m /\ chain[Rank(W, i)] = r[i]
  <2>1. ASSUME NEW i \in on PROVE Rank(W, i) \in 1 .. m /\ chain[Rank(W, i)] = r[i]
    BY <1>4, <1>10
  <2>2. ASSUME NEW i \in n + 1 .. n + m - q PROVE Rank(W, i) \in 1 .. m /\ chain[Rank(W, i)] = r[i]
    <3>1. PICK d \in 1 .. m - q : i = n + d
      BY <1>7
    <3> QED
      BY <1>4, <1>11, <3>1
  <2> QED
    BY <1>3, <2>1, <2>2
<1>13. \A i \in 1 .. n + m - q : i \in W <=> r[i] \in C
  <2>1. \A i \in W : r[i] \in C
    BY <1>6, <1>12
  <2>2. \A i \in 1 .. n + m - q : i \notin W => i \in 1 .. n /\ i \notin on
    BY <1>3
  <2> QED
    BY <1>4, <2>1, <2>2
<1>14. W \subseteq 1 .. n + m - q
  BY <1>3, <1>4
<1>15. Where(r, C) = W
  BY <1>5, <1>13, <1>14 DEF Where
<1>16. Only(r, C) = chain
  <2>1. Len(chain) = Cardinality(Where(r, C))
    BY <1>1, <1>9, <1>15
  <2>2. \A i \in Where(r, C) : chain[Rank(Where(r, C), i)] = r[i]
    BY <1>12, <1>15
  <2>3. r \in Seq(T)
    BY <1>4, Zenon
  <2> QED
    BY <2>1, <2>2, <2>3, OnlyEquals, Zenon
<1>17. IsInjective(r)
  <2>1. \A i \in W, j \in W : Rank(W, i) = Rank(W, j) => i = j
    <3>1. IsFiniteSet(W) /\ W \subseteq Nat
      <4>1. IsFiniteSet(n + 1 .. n + m - q)
        <5>1. n + 1 \in Int /\ n + m - q \in Int
          OBVIOUS
        <5> QED
          BY <5>1, FS_Interval
      <4>2. IsFiniteSet(on \cup (n + 1 .. n + m - q))
        BY <1>4, <4>1, FS_Union
      <4>3. W = on \cup (n + 1 .. n + m - q)
        BY <1>3
      <4>4. W \subseteq Nat
        BY <1>14
      <4> QED
        BY <4>2, <4>3, <4>4
    <3> QED
      BY <3>1, NthIs
  <2>2. ASSUME NEW a \in DOMAIN r, NEW b \in DOMAIN r, r[a] = r[b] PROVE a = b
    <3>1. a \in 1 .. n + m - q /\ b \in 1 .. n + m - q
      BY <1>5
    <3>2. CASE a \in W /\ b \in W
      <4>1. Rank(W, a) = Rank(W, b)
        BY <1>5, <1>12, <2>2, <3>2 DEF IsInjective
      <4> QED
        BY <2>1, <3>2, <4>1
    <3>3. CASE a \notin W /\ b \notin W
      <4>1. a \in 1 .. n /\ b \in 1 .. n /\ a \notin on /\ b \notin on
        BY <1>3, <3>1, <3>3
      <4> QED
        BY <1>4, <1>5, <2>2, <4>1 DEF IsInjective
    <3>4. a \in W <=> b \in W
      BY <1>13, <2>2, <3>1
    <3> QED
      BY <3>2, <3>3, <3>4
  <2> QED
    BY <2>2 DEF IsInjective
<1>18. ToSet(r) = ToSet(old) \cup C
  <2>1. C \subseteq ToSet(r)
    BY <1>3, <1>4, <1>16, OnlyIs
  <2>2. ASSUME NEW i \in 1 .. n PROVE old[i] \in ToSet(r) \cup C
    <3>1. i \in on => old[i] \in C
      BY <1>3 DEF Where
    <3>2. i \notin on => old[i] = r[i] /\ i \in DOMAIN r
      BY <1>4, <1>5
    <3> QED
      BY <3>1, <3>2 DEF ToSet
  <2>3. ASSUME NEW i \in DOMAIN r PROVE r[i] \in ToSet(old) \cup C
    <3>1. i \notin W => i \in 1 .. n /\ i \notin on
      BY <1>3, <1>5
    <3>2. i \notin W => r[i] = old[i] /\ i \in DOMAIN old
      BY <1>4, <1>5, <3>1
    <3> QED
      BY <1>5, <1>13, <3>2 DEF ToSet
  <2>4. ToSet(old) \subseteq ToSet(r) \cup C
    BY <1>5, <2>2 DEF ToSet
  <2>5. ToSet(r) \subseteq ToSet(old) \cup C
    BY <2>3 DEF ToSet
  <2> QED
    BY <2>1, <2>4, <2>5
<1> QED
  BY <1>3, <1>4, <1>16, <1>17, <1>18

\* The stages of the two catalogs.
LEMMA StageFacts ==
  /\ "scale" \in Stages /\ Stages = ToSet(Full)
  /\ \A cat \in {Full, Fallback} :
       /\ cat \in Seq(STRING) /\ IsInjective(cat) /\ ToSet(cat) \subseteq Stages
       /\ "scale" \in ToSet(cat) /\ ("frc" \in Stages => "frc" \in ToSet(cat))
BY DashboardAssumption DEF Required, Stages

\* A list with the scaler appended when it is missing.
WithScale(s) == IF "scale" \in ToSet(s) THEN s ELSE s \o <<"scale">>

LEMMA WithScaleIs ==
  ASSUME NEW T, NEW s \in Seq(T), IsInjective(s), "scale" \in T, NEW r, r = WithScale(s)
  PROVE  r \in Seq(T) /\ IsInjective(r) /\ ToSet(r) = ToSet(s) \cup {"scale"}
<1>1. CASE "scale" \in ToSet(s)
  BY <1>1 DEF WithScale
<1>2. CASE "scale" \notin ToSet(s)
  <2>1. PICK n \in Nat : n = Len(s)
    BY LenProperties
  <2>2. r = s \o <<"scale">>
    BY <1>2 DEF WithScale
  <2>3. /\ r \in Seq(T) /\ DOMAIN r = 1 .. n + 1
        /\ \A i \in 1 .. n : r[i] = s[i]
        /\ r[n + 1] = "scale"
    <3>1. PICK u : u = <<"scale">>
      OBVIOUS
    <3>2. u \in Seq(T) /\ Len(u) = 1 /\ u[1] = "scale"
      BY <3>1
    <3>3. /\ s \o u \in Seq(T) /\ Len(s \o u) = Len(s) + Len(u)
          /\ \A i \in 1 .. Len(s) + Len(u) :
               (s \o u)[i] = IF i <= Len(s) THEN s[i] ELSE u[i - Len(s)]
      BY <3>2, ConcatProperties
    <3>4. /\ r \in Seq(T) /\ Len(r) = n + 1
          /\ \A i \in 1 .. n + 1 : r[i] = IF i <= n THEN s[i] ELSE u[i - n]
      BY <2>1, <2>2, <3>1, <3>2, <3>3
    <3>5. n + 1 \in 1 .. n + 1 /\ ~(n + 1 <= n) /\ n + 1 - n = 1
          /\ \A i \in 1 .. n : i \in 1 .. n + 1 /\ i <= n
      BY <2>1
    <3>6. r[n + 1] = u[n + 1 - n]
      BY <3>4, <3>5
    <3>7. \A i \in 1 .. n : r[i] = s[i]
      BY <3>4, <3>5
    <3>8. DOMAIN r = 1 .. n + 1
      BY <3>4
    <3> QED
      BY <3>2, <3>4, <3>5, <3>6, <3>7, <3>8
  <2>4. \A i \in 1 .. n + 1 : i \in 1 .. n \/ i = n + 1
    OBVIOUS
  <2>5. DOMAIN s = 1 .. n /\ \A i \in 1 .. n : s[i] # "scale" /\ i \in 1 .. n + 1
    BY <1>2, <2>1 DEF ToSet
  <2>6. IsInjective(r)
    BY <2>3, <2>4, <2>5 DEF IsInjective
  <2>7. ToSet(r) = ToSet(s) \cup {"scale"}
    <3>1. n + 1 \in 1 .. n + 1
      BY <2>1
    <3> QED
      BY <2>3, <2>4, <2>5, <3>1 DEF ToSet
  <2> QED
    BY <2>3, <2>6, <2>7
<1> QED
  BY <1>1, <1>2

\* The chain the engine composes, and the one the page derives from a list.
LEMMA ChainsAre ==
  ASSUME NEW c \in Configs
  PROVE  /\ Tokens(c) \in Seq(STRING)
         /\ EngineChain(c) = WithScale(Only(Tokens(c), Runs(c)))
         /\ \A cat \in {Full, Fallback} : c.filters # AutoChain =>
              DeriveChain(cat, c) = WithScale(Only(Known(cat, c.filters), Runs(c)))
<1>1. c.filters \in Seq(STRING)
  BY DEF Configs
<1>2. Tokens(c) \in Seq(STRING)
  BY <1>1, StageFacts, OnlyIs DEF Tokens
<1>3. EngineChain(c) = WithScale(Only(Tokens(c), Runs(c)))
  <2>1. PICK made : made = Only(Tokens(c), Runs(c))
    OBVIOUS
  <2>2. made \in Seq(STRING)
    BY <1>2, <2>1, OnlyIs
  <2>3. EngineChain(c) = IF "scale" \in ToSet(made) THEN made ELSE Append(made, "scale")
    BY <2>1 DEF EngineChain
  <2>4. Append(made, "scale") = made \o <<"scale">>
    BY <2>2, AppendIsConcat
  <2> QED
    BY <2>1, <2>3, <2>4 DEF WithScale
<1>4. ASSUME NEW cat \in {Full, Fallback}, c.filters # AutoChain
      PROVE  DeriveChain(cat, c) = WithScale(Only(Known(cat, c.filters), Runs(c)))
  <2>1. PICK ch : ch = Only(Known(cat, c.filters), Runs(c))
    OBVIOUS
  <2>2. cat \in Seq(STRING) /\ IsInjective(cat) /\ "scale" \in ToSet(cat)
    BY StageFacts
  <2>3. ch \in Seq(STRING)
    BY <1>1, <2>1, KnownIs, OnlyIs
  <2>4. DeriveChain(cat, c) = ch \o Only(cat, Required \ ToSet(ch))
    BY <1>4, <2>1 DEF DeriveChain
  <2>5. CASE "scale" \in ToSet(ch)
    <3>1. ToSet(cat) \cap (Required \ ToSet(ch)) = {}
      BY <2>5 DEF Required
    <3>2. Only(cat, Required \ ToSet(ch)) = <<>>
      BY <2>2, <3>1, OnlyNone
    <3>3. ch \o <<>> = ch
      BY <2>3, ConcatEmptySeq
    <3> QED
      BY <2>1, <2>4, <2>5, <3>2, <3>3 DEF WithScale
  <2>6. CASE "scale" \notin ToSet(ch)
    <3>1. Required \ ToSet(ch) = {"scale"}
      BY <2>6 DEF Required
    <3>2. Only(cat, {"scale"}) = <<"scale">>
      BY <2>2, OnlyOne
    <3> QED
      BY <2>1, <2>4, <2>6, <3>1, <3>2 DEF WithScale
  <2> QED
    BY <2>5, <2>6
<1> QED
  BY <1>2, <1>3, <1>4

\* What the page derives from a configuration.
LEMMA DerivedIs ==
  ASSUME NEW cat \in {Full, Fallback}, NEW c \in Configs, NEW chain, chain = DeriveChain(cat, c)
  PROVE  /\ chain \in Seq(STRING) /\ IsInjective(chain)
         /\ ToSet(chain) \subseteq Stages /\ "scale" \in ToSet(chain)
         /\ "frc" \in ToSet(chain) => Mode(c) > 0
         /\ c.filters # AutoChain /\ "frc" \in ToSet(c.filters) \cap Stages /\ Mode(c) > 0
              => "frc" \in ToSet(chain)
<1>1. CASE c.filters = AutoChain
  <2>1. chain = Only(Full, {s \in Stages : Takes(c, s)})
    BY <1>1 DEF DeriveChain
  <2>2. /\ chain \in Seq(STRING) /\ IsInjective(chain)
        /\ ToSet(chain) = Stages \cap {s \in Stages : Takes(c, s)}
    BY <2>1, StageFacts, OnlyIs
  <2>3. Takes(c, "scale") /\ (Takes(c, "frc") => Mode(c) > 0)
    BY DEF Takes
  <2> QED
    BY <1>1, <2>2, <2>3, StageFacts
<1>2. CASE c.filters # AutoChain
  <2>1. PICK known, ch : known = Known(cat, c.filters) /\ ch = Only(known, Runs(c))
    OBVIOUS
  <2>2. chain = WithScale(ch)
    BY <1>2, <2>1, ChainsAre
  <2>3. c.filters \in Seq(STRING)
    BY DEF Configs
  <2>4. /\ known \in Seq(STRING) /\ IsInjective(known)
        /\ ToSet(known) = ToSet(c.filters) \cap ToSet(cat)
    BY <2>1, <2>3, KnownIs
  <2>5. ch \in Seq(STRING) /\ IsInjective(ch) /\ ToSet(ch) = ToSet(known) \cap Runs(c)
    BY <2>1, <2>4, OnlyIs
  <2>6. chain \in Seq(STRING) /\ IsInjective(chain) /\ ToSet(chain) = ToSet(ch) \cup {"scale"}
    <3>1. "scale" \in STRING
      BY StageFacts, ElementOfSeq DEF ToSet
    <3> QED
      BY <2>2, <2>5, <3>1, WithScaleIs
  <2>7. "frc" \in Runs(c) <=> "frc" \in Stages /\ Mode(c) > 0
    BY DEF Runs
  <2>8. "frc" # "scale" /\ Runs(c) \subseteq Stages
    BY DEF Runs
  <2>9. "frc" \in ToSet(chain) => Mode(c) > 0
    BY <2>5, <2>6, <2>7, <2>8
  <2>10. "frc" \in ToSet(c.filters) \cap Stages /\ Mode(c) > 0 => "frc" \in ToSet(chain)
    BY <2>4, <2>5, <2>6, <2>7, StageFacts
  <2>11. ToSet(chain) \subseteq Stages /\ "scale" \in ToSet(chain)
    BY <2>5, <2>6, <2>8, StageFacts
  <2> QED
    BY <2>6, <2>9, <2>10, <2>11
<1> QED
  BY <1>1, <1>2

\* The page derives what the engine composes, unless the list is lossy.
LEMMA DerivedRuns ==
  ASSUME NEW cat \in {Full, Fallback}, NEW c \in Configs, ~Lossy(cat, c)
  PROVE  DeriveChain(cat, c) = EngineChain(c)
<1>1. EngineChain(c) = WithScale(Only(Tokens(c), Runs(c)))
  BY ChainsAre
<1>2. CASE c.filters = AutoChain
  <2>1. PICK chain : chain = DeriveChain(cat, c)
    OBVIOUS
  <2>2. Tokens(c) = chain
    BY <1>2, <2>1 DEF DeriveChain, Tokens
  <2>3. /\ chain \in Seq(STRING) /\ ToSet(chain) \subseteq Stages /\ "scale" \in ToSet(chain)
        /\ "frc" \in ToSet(chain) => Mode(c) > 0
    BY <2>1, DerivedIs
  <2>4. ToSet(chain) \subseteq Runs(c)
    BY <2>3 DEF Runs
  <2>5. Only(chain, Runs(c)) = chain
    BY <2>3, <2>4, OnlyAll
  <2> QED
    BY <1>1, <2>1, <2>2, <2>3, <2>5 DEF WithScale
<1>3. CASE c.filters # AutoChain
  <2>1. IsInjective(c.filters) /\ ToSet(c.filters) \subseteq ToSet(cat)
    BY <1>3 DEF Lossy
  <2>2. c.filters \in Seq(STRING)
    BY DEF Configs
  <2>3. Known(cat, c.filters) = c.filters
    BY <2>1, <2>2, KnownIs
  <2>4. Tokens(c) = c.filters
    BY <1>3 DEF Tokens
  <2>5. DeriveChain(cat, c) = WithScale(Only(Known(cat, c.filters), Runs(c)))
    BY <1>3, ChainsAre
  <2> QED
    BY <1>1, <2>3, <2>4, <2>5
<1> QED
  BY <1>2, <1>3

\* Rows that run are posted as the list: the engine composes them, and the page reads them back.
LEMMA PostedRuns ==
  ASSUME NEW b \in Configs, NEW chain, b.filters = chain, IsInjective(chain),
         ToSet(chain) \subseteq Stages, "scale" \in ToSet(chain),
         "frc" \in ToSet(chain) => Mode(b) > 0
  PROVE  EngineChain(b) = chain /\ DeriveChain(Full, b) = chain
<1>1. chain \in Seq(STRING)
  BY DEF Configs
<1>2. chain # AutoChain
  <2>1. ToSet(AutoChain) = {"auto"}
    BY DEF AutoChain, ToSet
  <2>2. "auto" # "scale"
    OBVIOUS
  <2> QED
    BY <2>1, <2>2
<1>3. EngineChain(b) = WithScale(Only(chain, Runs(b)))
  BY <1>2, ChainsAre DEF Tokens
<1>4. ToSet(chain) \subseteq Runs(b)
  BY DEF Runs
<1>5. Only(chain, Runs(b)) = chain
  BY <1>1, <1>4, OnlyAll
<1>6. ~Lossy(Full, b)
  BY StageFacts DEF Lossy
<1> QED
  BY <1>3, <1>5, <1>6, DerivedRuns DEF WithScale

\* A list that rides through a save with FRC on as before runs as before.
LEMMA RiddenRuns ==
  ASSUME NEW b \in Configs, NEW c \in Configs, b.filters = c.filters, c.filters # AutoChain,
         "frc" \in ToSet(c.filters) \cap Stages => (Mode(b) > 0 <=> Mode(c) > 0)
  PROVE  EngineChain(b) = EngineChain(c) /\ DeriveChain(Full, b) = DeriveChain(Full, c)
<1>1. PICK f : f = c.filters
  OBVIOUS
<1>2. f \in Seq(STRING) /\ f # AutoChain /\ b.filters = f
  BY <1>1 DEF Configs
<1>3. \A x \in ToSet(f) : x \in Runs(b) <=> x \in Runs(c)
  BY <1>1 DEF Runs
<1>4. Only(f, Runs(b)) = Only(f, Runs(c))
  BY <1>3, OnlySame
<1>5. PICK k : k = Known(Full, f)
  OBVIOUS
<1>6. ToSet(k) \subseteq ToSet(f)
  BY <1>2, <1>5, KnownIs
<1>7. Only(k, Runs(b)) = Only(k, Runs(c))
  BY <1>3, <1>6, OnlySame
<1>8. Tokens(b) = f /\ Tokens(c) = f
  BY <1>1, <1>2 DEF Tokens
<1>9. /\ EngineChain(b) = WithScale(Only(f, Runs(b))) /\ EngineChain(c) = WithScale(Only(f, Runs(c)))
      /\ DeriveChain(Full, b) = WithScale(Only(k, Runs(b)))
      /\ DeriveChain(Full, c) = WithScale(Only(k, Runs(c)))
  BY <1>1, <1>2, <1>5, <1>8, ChainsAre
<1> QED
  BY <1>4, <1>7, <1>9

\* One sequence behind another.
LEMMA Joined ==
  ASSUME NEW T, NEW s \in Seq(T), NEW u \in Seq(T), NEW r, r = s \o u,
         IsInjective(s), IsInjective(u), ToSet(s) \cap ToSet(u) = {}
  PROVE  r \in Seq(T) /\ ToSet(r) = ToSet(s) \cup ToSet(u) /\ IsInjective(r)
<1>1. PICK m \in Nat, n \in Nat : m = Len(s) /\ n = Len(u)
  BY LenProperties
<1>2. /\ s \o u \in Seq(T) /\ Len(s \o u) = Len(s) + Len(u)
      /\ \A i \in 1 .. Len(s) + Len(u) : (s \o u)[i] = IF i <= Len(s) THEN s[i] ELSE u[i - Len(s)]
  BY ConcatProperties
<1>3. /\ r \in Seq(T) /\ DOMAIN r = 1 .. m + n /\ DOMAIN s = 1 .. m /\ DOMAIN u = 1 .. n
      /\ \A i \in 1 .. m + n : r[i] = IF i <= m THEN s[i] ELSE u[i - m]
  BY <1>1, <1>2
<1>4. \A i \in 1 .. m : i \in 1 .. m + n /\ r[i] = s[i]
  BY <1>3
<1>5. ASSUME NEW i \in 1 .. n PROVE i + m \in 1 .. m + n /\ r[i + m] = u[i]
  <2>1. i + m \in 1 .. m + n /\ ~(i + m <= m) /\ i + m - m = i
    OBVIOUS
  <2>2. r[i + m] = u[i + m - m]
    BY <1>3, <2>1
  <2> QED
    BY <2>1, <2>2
<1>6. \A k \in 1 .. m + n : k \in 1 .. m \/ \E i \in 1 .. n : k = i + m
  <2>1. ASSUME NEW k \in 1 .. m + n, k \notin 1 .. m PROVE k - m \in 1 .. n /\ k = k - m + m
    BY <2>1
  <2> QED
    BY <2>1
<1>7. ToSet(r) = ToSet(s) \cup ToSet(u)
  <2>1. ASSUME NEW k \in DOMAIN r PROVE r[k] \in ToSet(s) \cup ToSet(u)
    <3>1. CASE k \in 1 .. m
      BY <1>3, <1>4, <3>1 DEF ToSet
    <3>2. ASSUME NEW i \in 1 .. n, k = i + m PROVE r[k] \in ToSet(u)
      BY <1>3, <1>5, <3>2 DEF ToSet
    <3> QED
      BY <1>3, <1>6, <3>1, <3>2
  <2>2. ASSUME NEW i \in DOMAIN s PROVE s[i] \in ToSet(r)
    BY <1>3, <1>4 DEF ToSet
  <2>3. ASSUME NEW i \in DOMAIN u PROVE u[i] \in ToSet(r)
    <3>1. i + m \in DOMAIN r /\ u[i] = r[i + m]
      BY <1>3, <1>5
    <3> QED
      BY <3>1 DEF ToSet
  <2>4. ToSet(r) \subseteq ToSet(s) \cup ToSet(u)
    BY <2>1 DEF ToSet
  <2>5. ToSet(s) \subseteq ToSet(r) /\ ToSet(u) \subseteq ToSet(r)
    BY <2>2, <2>3 DEF ToSet
  <2> QED
    BY <2>4, <2>5
<1>8. IsInjective(r)
  <2>1. \A i \in 1 .. m, j \in 1 .. n : s[i] # u[j]
    BY <1>3 DEF ToSet
  <2>2. ASSUME NEW a \in 1 .. m + n, NEW b \in 1 .. m + n, r[a] = r[b] PROVE a = b
    <3>1. CASE a \in 1 .. m /\ b \in 1 .. m
      BY <1>3, <1>4, <2>2, <3>1 DEF IsInjective
    <3>2. ASSUME NEW i \in 1 .. n, a = i + m, NEW j \in 1 .. n, b = j + m PROVE a = b
      <4>1. u[i] = u[j]
        <5>1. r[i + m] = u[i] /\ r[j + m] = u[j]
          BY <1>5
        <5> QED
          BY <2>2, <3>2, <5>1, Zenon
      <4> QED
        BY <1>3, <3>2, <4>1 DEF IsInjective
    <3>3. ASSUME a \in 1 .. m, NEW i \in 1 .. n, b = i + m PROVE FALSE
      <4>1. r[a] = s[a] /\ r[i + m] = u[i] /\ s[a] # u[i]
        BY <1>4, <1>5, <2>1, <3>3
      <4> QED
        BY <2>2, <3>3, <4>1, Zenon
    <3>4. ASSUME b \in 1 .. m, NEW i \in 1 .. n, a = i + m PROVE FALSE
      <4>1. r[b] = s[b] /\ r[i + m] = u[i] /\ s[b] # u[i]
        BY <1>4, <1>5, <2>1, <3>4
      <4> QED
        BY <2>2, <3>4, <4>1, Zenon
    <3> QED
      BY <1>6, <3>1, <3>2, <3>3, <3>4
  <2> QED
    BY <1>3, <2>2 DEF IsInjective
<1> QED
  BY <1>3, <1>7, <1>8

\* The rows a configuration is filled in as: those that are on run in the order of its chain.
LEMMA RowsAre ==
  ASSUME NEW cat \in {Full, Fallback}, NEW old \in Seq(STRING), IsInjective(old), NEW c \in Configs,
         NEW chain, chain = DeriveChain(cat, c), NEW r, r = Rows(cat, old, c)
  PROVE  /\ r \in Seq(STRING) /\ IsInjective(r) /\ Only(r, ToSet(chain)) = chain
         /\ cat = Full /\ ToSet(old) = Stages => ToSet(r) = Stages
<1>1. /\ chain \in Seq(STRING) /\ IsInjective(chain) /\ ToSet(chain) \subseteq Stages
  BY DerivedIs
<1>2. PICK saved, rest : saved = Known(cat, c.order) /\ rest = Only(cat, ToSet(cat) \ ToSet(saved))
  OBVIOUS
<1>3. r = IF saved # <<>> /\ Only(saved, ToSet(chain)) = chain THEN saved \o rest
          ELSE IF Only(old, ToSet(chain)) = chain THEN old ELSE Laid(old, chain)
  BY <1>2 DEF Rows
<1>4. CASE r = saved \o rest /\ Only(saved, ToSet(chain)) = chain
  <2>1. c.order \in Seq(STRING)
    BY DEF Configs
  <2>2. saved \in Seq(STRING) /\ IsInjective(saved) /\ ToSet(saved) \subseteq ToSet(cat)
    BY <1>2, <2>1, KnownIs
  <2>3. cat \in Seq(STRING) /\ IsInjective(cat)
    BY StageFacts
  <2>4. rest \in Seq(STRING) /\ IsInjective(rest) /\ ToSet(rest) = ToSet(cat) \ ToSet(saved)
    <3>1. /\ Only(cat, ToSet(cat) \ ToSet(saved)) \in Seq(STRING)
          /\ ToSet(Only(cat, ToSet(cat) \ ToSet(saved))) = ToSet(cat) \cap (ToSet(cat) \ ToSet(saved))
          /\ IsInjective(Only(cat, ToSet(cat) \ ToSet(saved)))
      BY <2>3, OnlyIs
    <3> QED
      BY <1>2, <3>1
  <2>5. r \in Seq(STRING) /\ IsInjective(r) /\ ToSet(r) = ToSet(cat)
    <3>1. ToSet(saved) \cap ToSet(rest) = {} /\ r = saved \o rest
      BY <1>4, <2>4
    <3>2. r \in Seq(STRING) /\ ToSet(r) = ToSet(saved) \cup ToSet(rest) /\ IsInjective(r)
      BY <2>2, <2>4, <3>1, Joined
    <3> QED
      BY <2>2, <2>4, <3>2
  <2>6. ToSet(chain) \subseteq ToSet(saved)
    BY <1>4, <2>2, OnlyIs
  <2>7. ToSet(rest) \cap ToSet(chain) = {}
    BY <2>4, <2>6
  <2>8. Only(saved \o rest, ToSet(chain)) = Only(saved, ToSet(chain))
    BY <2>2, <2>4, <2>7, OnlyHead
  <2> QED
    BY <1>4, <2>5, <2>8, StageFacts
<1>5. CASE r = old /\ Only(old, ToSet(chain)) = chain
  BY <1>5
<1>6. CASE r = Laid(old, chain)
  <2>1. /\ r \in Seq(STRING) /\ IsInjective(r) /\ Only(r, ToSet(chain)) = chain
        /\ ToSet(r) = ToSet(old) \cup ToSet(chain)
    BY <1>1, <1>6, LaidIs
  <2> QED
    BY <1>1, <2>1
<1> QED
  BY <1>3, <1>4, <1>5, <1>6

\* Saved rows that agree with the chain come back as they were saved.
LEMMA RowsSame ==
  ASSUME NEW o \in Seq(STRING), IsInjective(o), ToSet(o) = Stages, NEW b \in Configs, b.order = o,
         NEW chain, chain = DeriveChain(Full, b), Only(o, ToSet(chain)) = chain
  PROVE  Rows(Full, Full, b) = o
<1>1. Known(Full, o) = o
  BY StageFacts, KnownIs
<1>2. o # <<>>
  <2>1. ToSet(<<>>) = {}
    BY DEF ToSet
  <2> QED
    BY <2>1, StageFacts
<1>3. Only(Full, ToSet(Full) \ ToSet(o)) = <<>>
  <2>1. ToSet(Full) \cap (ToSet(Full) \ ToSet(o)) = {}
    BY StageFacts
  <2> QED
    BY <2>1, StageFacts, OnlyNone
<1>4. o \o <<>> = o
  BY ConcatEmptySeq
<1> QED
  BY <1>1, <1>2, <1>3, <1>4 DEF Rows

\* Two neighbours change places.
LEMMA SwapKeeps ==
  ASSUME NEW T, NEW s \in Seq(T), IsInjective(s), NEW i \in 1 .. Len(s) - 1,
         NEW r, r = [s EXCEPT ![i] = s[i + 1], ![i + 1] = s[i]]
  PROVE  r \in Seq(T) /\ IsInjective(r) /\ ToSet(r) = ToSet(s)
<1>1. PICK n \in Nat : n = Len(s)
  BY LenProperties
<1>2. i \in 1 .. n /\ i + 1 \in 1 .. n /\ i # i + 1 /\ DOMAIN s = 1 .. n
  BY <1>1
<1>3. PICK x, y : x = s[i] /\ y = s[i + 1]
  OBVIOUS
<1>4. x \in T /\ y \in T
  BY <1>1, <1>2, <1>3, ElementOfSeq
<1>5. /\ r \in Seq(T) /\ DOMAIN r = 1 .. n
      /\ r[i] = y /\ r[i + 1] = x /\ \A k \in 1 .. n : k # i /\ k # i + 1 => r[k] = s[k]
  BY <1>1, <1>2, <1>3, <1>4
<1>6. IsInjective(r)
  <2>1. \A a \in 1 .. n, b \in 1 .. n : s[a] = s[b] => a = b
    BY <1>2 DEF IsInjective
  <2>2. PICK j : j = i + 1
    OBVIOUS
  <2>3. \A a \in 1 .. n, b \in 1 .. n : r[a] = r[b] => a = b
    BY <1>2, <1>3, <1>5, <2>1, <2>2
  <2> QED
    BY <1>5, <2>3 DEF IsInjective
<1>7. ToSet(r) = ToSet(s)
  BY <1>2, <1>3, <1>5 DEF ToSet
<1> QED
  BY <1>5, <1>6, <1>7

-----------------------------------------------------------------------------
(* Dashboard: what the panel shows is what is saved.  Three facts carry    *)
(* it: the rows that are on run in the order of the chain derived from the *)
(* last configuration as long as the form is as filled from it; the mode   *)
(* of the form is never 0, so that what is posted with FRC on runs it; and *)
(* every configuration on its way to or from the page is one the panel can *)
(* hand back, which for a list it cannot express needs the premise.        *)

\* The rows: without repetitions, the scaler among those that are on, and all stages with the
\* daemon's catalog.  The mode of the form is never 0.
RowsOK ==
  /\ catalog \in {<<>>, Full, Fallback}
  /\ order \in Seq(STRING) /\ IsInjective(order) /\ enabled \subseteq Stages
  /\ form \in [mode : Nat \ {0}, amt : [Graded -> {0, 1}]]
  /\ catalog # <<>> => "scale" \in enabled
  /\ catalog = Full => ToSet(order) = Stages

\* A configuration that is on its way somewhere.
Fine(c) == c \in Configs /\ (catalog \in {<<>>, Full} => FrcMeant(c))

Around ==
  /\ Fine(config) /\ \A st \in polls : Fine(st.config)
  /\ lastConfig # Nothing => lastConfig = <<lastConfig[1]>> /\ Fine(lastConfig[1])
  /\ \A b \in {"save", "power"} : post[b].pc = "sent" => Fine(post[b].body[1])

\* A form as filled shows the chain of its configuration.
FreshOK ==
  fresh => /\ catalog # <<>> /\ edited = {} /\ lastConfig # Nothing
           /\ enabled = ToSet(DeriveChain(catalog, lastConfig[1]))
           /\ ChainNow = DeriveChain(catalog, lastConfig[1])

PanelInv == RowsOK /\ Around /\ FreshOK

\* What a save posts.
LEMMA BodyIs ==
  ASSUME RowsOK, NEW c \in Configs, NEW b, b = Body(c)
  PROVE  /\ b \in Configs /\ b.rest = c.rest
         /\ b.filters = (IF Lossy(catalog, c) /\ "chain" \notin edited THEN c.filters ELSE ChainNow)
         /\ b.order = (IF catalog = Full THEN order ELSE c.order)
         /\ catalog = Full => Mode(b) > 0
         /\ "frc" \in enabled => Mode(b) > 0
         /\ catalog # Full /\ "frc" \notin enabled => ~(Mode(b) > 0)
<1> DEFINE rides == Lossy(catalog, c) /\ "chain" \notin edited
           on    == "frc" \in enabled
           fi    == IF rides THEN c.filters ELSE ChainNow
           fr    == IF rides /\ catalog = Full THEN c.frc ELSE on
           mo    == IF catalog = Full \/ on THEN form.mode ELSE 0
           am    == [s \in Graded |-> IF s \in ToSet(catalog) THEN form.amt[s] ELSE c.amt[s]]
           od    == IF catalog = Full THEN order ELSE c.order
<1>1. /\ c.filters \in Seq(STRING) /\ c.order \in Seq(STRING) /\ c.mode \in Nat
      /\ c.frc \in BOOLEAN /\ c.amt \in [Graded -> {0, 1}] /\ c.rest \in {0, 1}
      /\ c = [filters |-> c.filters, order |-> c.order, mode |-> c.mode, frc |-> c.frc,
              amt |-> c.amt, rest |-> c.rest]
  BY DEF Configs
<1>2. order \in Seq(STRING) /\ form.mode \in Nat \ {0} /\ form.amt \in [Graded -> {0, 1}]
  BY DEF RowsOK
<1>3. b = [c EXCEPT !.filters = fi, !.frc = fr, !.mode = mo, !.amt = am, !.order = od]
  BY Zenon DEF Body
<1>4. ChainNow \in Seq(STRING)
  BY <1>2, OnlyIs DEF ChainNow
<1>5. fi \in Seq(STRING) /\ mo \in Nat /\ am \in [Graded -> {0, 1}] /\ od \in Seq(STRING)
  BY <1>1, <1>2, <1>4
<1>6. fr \in BOOLEAN
  <2>1. CASE rides /\ catalog = Full
    BY <1>1, <2>1
  <2>2. CASE ~(rides /\ catalog = Full)
    <3>1. on \in BOOLEAN
      OBVIOUS
    <3> HIDE DEF rides, on
    <3> QED
      BY <2>2, <3>1
  <2> QED
    BY <2>1, <2>2
<1>7. (catalog = Full => mo > 0) /\ (on => mo > 0) /\ (catalog # Full /\ ~on => mo = 0)
  BY <1>2
<1>8. ASSUME catalog # Full, ~on PROVE fr = FALSE
  <2>1. on = FALSE
    <3>1. on \in BOOLEAN
      OBVIOUS
    <3> HIDE DEF on, rides
    <3> QED
      BY <1>8, <3>1
  <2> HIDE DEF on, rides
  <2> QED
    BY <1>8, <2>1
<1> HIDE DEF fi, fr, mo, am, od
<1>9. b = [filters |-> fi, order |-> od, mode |-> mo, frc |-> fr, amt |-> am, rest |-> c.rest]
  BY <1>1, <1>3
<1>10. b.filters = fi /\ b.order = od /\ b.mode = mo /\ b.frc = fr /\ b.amt = am /\ b.rest = c.rest
  BY <1>9
<1>11. b \in Configs
  BY <1>1, <1>5, <1>6, <1>9 DEF Configs
<1>12. mo > 0 => Mode(b) > 0
  BY <1>10 DEF Mode
<1>13. mo = 0 /\ fr = FALSE => ~(Mode(b) > 0)
  BY <1>10 DEF Mode
<1> QED
  BY <1>7, <1>8, <1>10, <1>11, <1>12, <1>13 DEF fi, od

\* A body is as fine as the configuration it is made from.
LEMMA BodyFine ==
  ASSUME RowsOK, catalog # <<>>, NEW c, Fine(c)
  PROVE  Fine(Body(c))
<1>1. PICK b : b = Body(c)
  OBVIOUS
<1>2. b \in Configs /\ (catalog = Full => Mode(b) > 0)
  BY <1>1, BodyIs DEF Fine
<1>3. Fine(b)
  BY <1>2 DEF Fine, FrcMeant
<1> QED
  BY <1>1, <1>3

\* An untouched form is saved as what it was filled from.
LEMMA PanelIsTrue == PanelInv => PanelTrue
<1> SUFFICES ASSUME PanelInv, fresh
             PROVE  LET c == lastConfig[1] IN
                    EngineChain(Body(c)) = EngineChain(c) /\ Body(c).rest = c.rest
  BY DEF PanelTrue
<1>1. PICK c, b, chain : c = lastConfig[1] /\ b = Body(c) /\ chain = DeriveChain(catalog, c)
  OBVIOUS
<1>2. /\ catalog # <<>> /\ edited = {} /\ lastConfig # Nothing
      /\ enabled = ToSet(chain) /\ ChainNow = chain
  BY <1>1 DEF PanelInv, FreshOK
<1>3. catalog \in {Full, Fallback}
  BY <1>2 DEF PanelInv, RowsOK
<1>4. c \in Configs /\ (catalog = Full => FrcMeant(c))
  BY <1>1, <1>2 DEF PanelInv, Around, Fine
<1>5. /\ b \in Configs /\ b.rest = c.rest
      /\ b.filters = (IF Lossy(catalog, c) /\ "chain" \notin edited THEN c.filters ELSE ChainNow)
      /\ catalog = Full => Mode(b) > 0
      /\ "frc" \in enabled => Mode(b) > 0
      /\ catalog # Full /\ "frc" \notin enabled => ~(Mode(b) > 0)
  BY <1>1, <1>4, BodyIs DEF PanelInv
<1>6. /\ IsInjective(chain) /\ ToSet(chain) \subseteq Stages /\ "scale" \in ToSet(chain)
      /\ "frc" \in ToSet(chain) => Mode(c) > 0
      /\ c.filters # AutoChain /\ "frc" \in ToSet(c.filters) \cap Stages /\ Mode(c) > 0
           => "frc" \in ToSet(chain)
  BY <1>1, <1>3, <1>4, DerivedIs
<1>7. CASE Lossy(catalog, c)
  <2>1. b.filters = c.filters /\ c.filters # AutoChain
    BY <1>2, <1>5, <1>7 DEF Lossy
  <2>2. ASSUME "frc" \in ToSet(c.filters) \cap Stages PROVE Mode(b) > 0 <=> Mode(c) > 0
    <3>1. CASE catalog = Full
      BY <1>4, <1>5, <1>7, <2>2, <3>1 DEF FrcMeant
    <3>2. CASE catalog # Full
      BY <1>2, <1>5, <1>6, <2>1, <2>2, <3>2
    <3> QED
      BY <3>1, <3>2
  <2>3. EngineChain(b) = EngineChain(c)
    BY <1>4, <1>5, <2>1, <2>2, RiddenRuns
  <2> QED
    BY <1>1, <1>5, <2>3
<1>8. CASE ~Lossy(catalog, c)
  <2>1. b.filters = chain
    BY <1>2, <1>5, <1>8
  <2>2. EngineChain(b) = chain
    BY <1>2, <1>5, <1>6, <2>1, PostedRuns
  <2>3. EngineChain(c) = chain
    BY <1>1, <1>3, <1>4, <1>8, DerivedRuns
  <2> QED
    BY <1>1, <1>5, <2>2, <2>3
<1> QED
  BY <1>7, <1>8

\* A page opened after a save shows what was saved.
LEMMA SavedIsShown == PanelInv => Reload
<1> SUFFICES ASSUME PanelInv, catalog = Full, lastConfig # Nothing, "chain" \in edited \/ fresh
             PROVE  LET b == Body(lastConfig[1])
                    IN  Rows(Full, Full, b) = order /\ ToSet(DeriveChain(Full, b)) = enabled
  BY DEF Reload
<1>1. PICK c, b, ch : c = lastConfig[1] /\ b = Body(c) /\ ch = ChainNow
  OBVIOUS
<1>2. c \in Configs /\ FrcMeant(c)
  BY <1>1 DEF PanelInv, Around, Fine
<1>3. /\ order \in Seq(STRING) /\ IsInjective(order) /\ ToSet(order) = Stages
      /\ enabled \subseteq Stages /\ "scale" \in enabled
  <2>1. catalog # <<>>
    BY StageFacts DEF ToSet
  <2> QED
    BY <2>1 DEF PanelInv, RowsOK
<1>4. /\ b \in Configs /\ b.order = order /\ Mode(b) > 0
      /\ b.filters = (IF Lossy(Full, c) /\ "chain" \notin edited THEN c.filters ELSE ch)
  BY <1>1, <1>2, BodyIs DEF PanelInv
<1>5. ch = Only(order, enabled) /\ IsInjective(ch) /\ ToSet(ch) = enabled
  <2>1. /\ IsInjective(Only(order, enabled))
        /\ ToSet(Only(order, enabled)) = ToSet(order) \cap enabled
    BY <1>3, OnlyIs
  <2> QED
    BY <1>1, <1>3, <2>1 DEF ChainNow
<1>6. DeriveChain(Full, b) = ch
  <2>1. CASE Lossy(Full, c) /\ "chain" \notin edited
    <3>1. b.filters = c.filters /\ c.filters # AutoChain
      BY <1>4, <2>1 DEF Lossy
    <3>2. "frc" \in ToSet(c.filters) \cap Stages => (Mode(b) > 0 <=> Mode(c) > 0)
      BY <1>2, <1>4, <2>1 DEF FrcMeant
    <3>3. DeriveChain(Full, b) = DeriveChain(Full, c)
      BY <1>2, <1>4, <3>1, <3>2, RiddenRuns
    <3>4. ch = DeriveChain(Full, c)
      BY <1>1, <2>1 DEF PanelInv, FreshOK
    <3> QED
      BY <3>3, <3>4
  <2>2. CASE ~(Lossy(Full, c) /\ "chain" \notin edited)
    <3>1. b.filters = ch
      BY <1>4, <2>2
    <3> QED
      BY <1>3, <1>4, <1>5, <3>1, PostedRuns
  <2> QED
    BY <2>1, <2>2
<1>7. PICK chain : chain = DeriveChain(Full, b)
  OBVIOUS
<1>8. Only(order, ToSet(chain)) = chain
  BY <1>5, <1>6, <1>7
<1>9. Rows(Full, Full, b) = order
  BY <1>3, <1>4, <1>7, <1>8, RowsSame
<1> QED
  BY <1>1, <1>5, <1>6, <1>9

LEMMA PanelInitInv == DashInit => PanelInv
<1> SUFFICES ASSUME DashInit PROVE PanelInv
  OBVIOUS
<1>1. catalog = <<>> /\ catalog # Full
  <2>1. ToSet(<<>>) = {}
    BY DEF ToSet
  <2> QED
    BY <2>1, StageFacts DEF DashInit
<1>2. IsInjective(<<>>) /\ <<>> \in Seq(STRING)
  BY DEF IsInjective
<1>3. form \in [mode : Nat \ {0}, amt : [Graded -> {0, 1}]]
  BY DEF DashInit
<1>4. RowsOK
  BY <1>1, <1>2, <1>3 DEF DashInit, RowsOK
<1>5. DefaultConfig \in Configs
  <2>2. AutoChain \in Seq(STRING)
    BY DashboardAssumption
  <2>3. [s \in Graded |-> 0] \in [Graded -> {0, 1}]
    OBVIOUS
  <2> QED
    BY <1>2, <2>2, <2>3 DEF DefaultConfig, Configs
<1>6. FrcMeant(DefaultConfig)
  BY DEF FrcMeant, Lossy, DefaultConfig
<1>7. Around
  BY <1>5, <1>6 DEF DashInit, Around, Fine, NoPost, Nothing
<1>8. FreshOK
  BY DEF DashInit, FreshOK
<1> QED
  BY <1>4, <1>7, <1>8 DEF PanelInv

\* A step that changes nothing the rows show.
LEMMA RowsStay ==
  ASSUME RowsOK, UNCHANGED <<catalog, order, enabled, form>>
  PROVE  RowsOK'
BY DEF RowsOK

LEMMA FreshStays ==
  ASSUME FreshOK, UNCHANGED <<catalog, order, enabled, lastConfig, fresh>>,
         edited' = edited \/ edited' = {}
  PROVE  FreshOK'
<1>1. ChainNow' = ChainNow
  BY DEF ChainNow
<1> QED
  BY <1>1 DEF FreshOK

\* Nothing new is on its way.
LEMMA AroundStays ==
  ASSUME Around, UNCHANGED catalog,
         config' = config \/ Fine(config'),
         \A st \in polls' : st \in polls \/ Fine(st.config),
         UNCHANGED lastConfig \/ \E c : lastConfig' = <<c>> /\ Fine(c),
         \A b \in {"save", "power"} : post'[b].pc = "sent" => post'[b] = post[b] \/ Fine(post'[b].body[1])
  PROVE  Around'
<1>1. \A c : Fine(c)' <=> Fine(c)
  BY DEF Fine
<1>2. Fine(config)'
  BY <1>1 DEF Around, Fine
<1>3. (\A st \in polls : Fine(st.config))'
  BY DEF Around, Fine
<1>4. (lastConfig # Nothing => lastConfig = <<lastConfig[1]>> /\ Fine(lastConfig[1]))'
  <2>1. CASE UNCHANGED lastConfig
    BY <2>1 DEF Around, Fine
  <2>2. ASSUME NEW c, lastConfig' = <<c>>, Fine(c)
        PROVE  lastConfig' = <<lastConfig'[1]>> /\ lastConfig'[1] = c
    BY <2>2
  <2> QED
    BY <2>1, <2>2 DEF Fine
<1>5. ASSUME NEW b \in {"save", "power"}, post'[b].pc = "sent" PROVE Fine(post[b].body[1])'
  BY <1>5 DEF Around, Fine
<1> QED
  BY <1>2, <1>3, <1>4, <1>5 DEF Around

\* The form as filled from a configuration that is on its way.
LEMMA Filled ==
  ASSUME RowsOK, catalog # <<>>, NEW c, Fine(c), FillForm(c), UNCHANGED <<catalog, edited>>,
         lastConfig' = <<c>>
  PROVE  RowsOK' /\ FreshOK'
<1>1. c \in Configs /\ catalog \in {Full, Fallback} /\ order \in Seq(STRING) /\ IsInjective(order)
  BY DEF Fine, RowsOK
<1>2. PICK chain, rows : chain = DeriveChain(catalog, c) /\ rows = Rows(catalog, order, c)
  OBVIOUS
<1>3. ToSet(chain) \subseteq Stages /\ "scale" \in ToSet(chain)
  BY <1>1, <1>2, DerivedIs
<1>4. /\ rows \in Seq(STRING) /\ IsInjective(rows) /\ Only(rows, ToSet(chain)) = chain
      /\ catalog = Full /\ ToSet(order) = Stages => ToSet(rows) = Stages
  BY <1>1, <1>2, RowsAre
<1>5. form' \in [mode : Nat \ {0}, amt : [Graded -> {0, 1}]]
  <2>1. PICK mo, am : /\ mo = (IF c.mode > 0 /\ "mode" \notin edited THEN c.mode ELSE form.mode)
                      /\ am = [s \in Graded |-> IF s \in edited \/ s \notin ToSet(catalog)
                                                THEN form.amt[s] ELSE c.amt[s]]
    OBVIOUS
  <2>2. /\ c.mode \in Nat /\ c.amt \in [Graded -> {0, 1}]
        /\ form.mode \in Nat \ {0} /\ form.amt \in [Graded -> {0, 1}]
    BY <1>1 DEF Configs, RowsOK
  <2>3. mo \in Nat \ {0} /\ am \in [Graded -> {0, 1}]
    BY <2>1, <2>2
  <2>4. form' = [mode |-> mo, amt |-> am]
    BY <2>1 DEF FillForm
  <2> QED
    BY <2>3, <2>4
<1>6. CASE "chain" \in edited
  <2>1. UNCHANGED <<order, enabled>> /\ fresh' = FALSE
    <3>1. fresh' = (edited = {})
      BY DEF FillForm
    <3>2. UNCHANGED <<order, enabled>>
      BY <1>6 DEF FillForm
    <3> QED
      BY <1>6, <3>1, <3>2
  <2> QED
    BY <1>5, <2>1 DEF RowsOK, FreshOK
<1>7. CASE "chain" \notin edited
  <2>1. order' = rows /\ enabled' = ToSet(chain)
    BY <1>2, <1>7 DEF FillForm
  <2>2. RowsOK'
    BY <1>3, <1>4, <1>5, <2>1 DEF RowsOK
  <2>3. ChainNow' = chain
    BY <1>4, <2>1 DEF ChainNow
  <2>4. lastConfig' # Nothing /\ lastConfig'[1] = c
    BY DEF Nothing
  <2>5. fresh' => edited' = {}
    BY DEF FillForm
  <2>6. FreshOK'
    BY <1>2, <2>1, <2>3, <2>4, <2>5 DEF FreshOK
  <2> QED
    BY <2>2, <2>6
<1> QED
  BY <1>6, <1>7

\* A request that is sent carries a body made from what was polled.
LEMMA PostsAround ==
  ASSUME DashInv, RowsOK, Around, NEW b \in {"save", "power"}, Posts(b),
         UNCHANGED <<catalog, config, polls, lastConfig>>
  PROVE  Around'
<1>1. catalog # <<>> /\ lastConfig # Nothing
      /\ post' = [post EXCEPT ![b] = [pc |-> "sent", body |-> <<Body(lastConfig[1])>>, ok |-> FALSE]]
  BY Sent DEF Posts
<1>2. Fine(lastConfig[1])
  BY <1>1 DEF Around
<1>3. Fine(Body(lastConfig[1]))
  BY <1>1, <1>2, BodyFine
<1>4. PICK x : x = Body(lastConfig[1])
  OBVIOUS
<1>5. post'[b].body[1] = x
  BY <1>1, <1>4 DEF DashInv
<1>6. \A a \in {"save", "power"} : a # b => post'[a] = post[a]
  BY <1>1 DEF DashInv
<1> QED
  BY <1>3, <1>4, <1>5, <1>6, AroundStays

LEMMA PanelNextInv == ListsMeanFrc /\ DashInv /\ PanelInv /\ [DashNext]_dashVars => PanelInv'
<1> SUFFICES ASSUME ListsMeanFrc, DashInv, PanelInv, [DashNext]_dashVars PROVE PanelInv'
  OBVIOUS
<1> USE DEF PanelInv
<1>k. ASSUME UNCHANGED <<catalog, order, enabled, form, lastConfig, fresh>>,
             edited' = edited \/ edited' = {}
      PROVE  RowsOK' /\ FreshOK'
  BY <1>k, RowsStay, FreshStays
<1>p. ASSUME UNCHANGED <<catalog, config, polls, lastConfig>>,
             \A b \in {"save", "power"} : post'[b].pc = "sent" => post'[b] = post[b]
      PROVE  Around'
  BY <1>p, AroundStays
<1>1. CASE LoadCatalog
  <2>1. /\ catalog = <<>> /\ catalog' \in {Full, Fallback} /\ order' = catalog' /\ enabled' = Required
        /\ UNCHANGED <<config, polls, post, lastConfig, fresh, form>>
    BY <1>1 DEF LoadCatalog, daemon, asked
  <2>2. RowsOK'
    <3>1. order' \in Seq(STRING) /\ IsInjective(order')
      BY <2>1, StageFacts
    <3>2. enabled' = {"scale"} /\ enabled' \subseteq Stages
      BY <2>1, StageFacts DEF Required
    <3>3. catalog' = Full => ToSet(order') = Stages
      BY <2>1, StageFacts
    <3> QED
      BY <2>1, <3>1, <3>2, <3>3 DEF RowsOK
  <2>3. Around'
    <3>1. \A c : Fine(c) => Fine(c)'
      BY <2>1 DEF Fine
    <3> QED
      BY <2>1, <3>1 DEF Around
  <2>4. FreshOK'
    BY <2>1 DEF FreshOK
  <2> QED
    BY <2>2, <2>3, <2>4
<1>2. CASE Toggle \/ MoveFilter \/ SetParam
  <2>1. /\ catalog # <<>> /\ fresh' = FALSE
        /\ UNCHANGED <<catalog, config, polls, post, lastConfig>>
    BY <1>2 DEF Toggle, MoveFilter, SetParam, Edit, daemon, asked
  <2>2. Around' /\ FreshOK'
    BY <2>1, <1>p DEF FreshOK
  <2>3. CASE Toggle
    <3>1. PICK s \in ToSet(catalog) \ Required :
            enabled' = IF s \in enabled THEN enabled \ {s} ELSE enabled \cup {s}
      BY <2>3 DEF Toggle
    <3>2. s \in Stages /\ s # "scale"
      BY <2>1, StageFacts DEF RowsOK, Required
    <3>3. UNCHANGED <<order, form>>
      BY <2>3 DEF Toggle
    <3> QED
      BY <2>1, <2>2, <3>1, <3>2, <3>3 DEF RowsOK
  <2>4. CASE MoveFilter
    <3>1. PICK i \in 1 .. Len(order) - 1 :
            order' = [order EXCEPT ![i] = order[i + 1], ![i + 1] = order[i]]
      BY <2>4 DEF MoveFilter
    <3>2. order' \in Seq(STRING) /\ IsInjective(order') /\ ToSet(order') = ToSet(order)
      BY <3>1, SwapKeeps DEF RowsOK
    <3>3. UNCHANGED <<enabled, form>>
      BY <2>4 DEF MoveFilter
    <3> QED
      BY <2>1, <2>2, <3>2, <3>3 DEF RowsOK
  <2>5. CASE SetParam
    <3>1. form' \in [mode : Nat \ {0}, amt : [Graded -> {0, 1}]]
      <4>1. form \in [mode : Nat \ {0}, amt : [Graded -> {0, 1}]]
        BY DEF RowsOK
      <4>2. ASSUME NEW m \in {1, 2}, form' = [form EXCEPT !.mode = m]
            PROVE  form' \in [mode : Nat \ {0}, amt : [Graded -> {0, 1}]]
        BY <4>1, <4>2
      <4>3. ASSUME NEW s \in Graded, form' = [form EXCEPT !.amt[s] = 1 - @]
            PROVE  form' \in [mode : Nat \ {0}, amt : [Graded -> {0, 1}]]
        BY <4>1, <4>3
      <4> QED
        BY <2>5, <4>2, <4>3 DEF SetParam
    <3>2. UNCHANGED <<order, enabled>>
      BY <2>5 DEF SetParam
    <3> QED
      BY <2>1, <2>2, <3>1, <3>2 DEF RowsOK
  <2> QED
    BY <1>2, <2>3, <2>4, <2>5
<1>3. CASE Poll
  <2>1. /\ UNCHANGED <<catalog, order, enabled, form, lastConfig, fresh, edited, config, post>>
        /\ polls' = polls \cup {[config |-> config, up |-> up]}
    BY <1>3 DEF Poll, page, inputs, daemon
  <2>2. \A st \in polls' : st \in polls \/ Fine(st.config)
    BY <2>1 DEF Around
  <2>3. Around'
    BY <2>1, <2>2, AroundStays
  <2> QED
    BY <2>1, <2>3, <1>k
<1>4. CASE PollFails \/ EngineFlips
  <2>1. UNCHANGED <<catalog, order, enabled, form, lastConfig, fresh, edited, config, post, polls>>
    BY <1>4 DEF PollFails, EngineFlips, page, inputs, daemon, asked
  <2> QED
    BY <2>1, <1>k, <1>p
<1>5. CASE PollAnswered
  <2>1. PICK st \in polls :
          /\ polls' = polls \ {st} /\ lastConfig' = <<st.config>>
          /\ IF catalog # <<>> /\ Fills(st) THEN FillForm(st.config)
             ELSE fresh' = (fresh /\ lastConfig = <<st.config>>) /\ UNCHANGED <<inputs, loaded>>
          /\ UNCHANGED <<daemon, catalog, edited, dirty, post, power, stirred, counts>>
    BY <1>5 DEF PollAnswered
  <2>2. UNCHANGED <<config, catalog, edited, post>>
    BY <2>1 DEF daemon
  <2>3. PICK c : c = st.config
    OBVIOUS
  <2>4. Fine(c)
    BY <2>3 DEF Around
  <2>5. Around'
    <3>1. \A s \in polls' : s \in polls
      BY <2>1
    <3>2. lastConfig' = <<c>>
      BY <2>1, <2>3
    <3> QED
      BY <2>2, <2>4, <3>1, <3>2, AroundStays
  <2>6. CASE catalog # <<>> /\ Fills(st)
    <3>1. FillForm(c) /\ lastConfig' = <<c>>
      BY <2>1, <2>3, <2>6
    <3>2. RowsOK' /\ FreshOK'
      BY <2>2, <2>4, <2>6, <3>1, Filled
    <3> QED
      BY <2>5, <3>2
  <2>7. CASE ~(catalog # <<>> /\ Fills(st))
    <3>1. fresh' = (fresh /\ lastConfig = <<c>>) /\ lastConfig' = <<c>>
          /\ UNCHANGED <<order, enabled, form>>
      BY <2>1, <2>3, <2>7 DEF inputs
    <3>2. RowsOK'
      BY <2>2, <3>1, RowsStay
    <3>3. FreshOK'
      <4>1. CASE fresh /\ lastConfig = <<c>>
        <5>1. UNCHANGED <<lastConfig, fresh>>
          <6>1. fresh' = TRUE /\ fresh
            BY <3>1, <4>1
          <6> QED
            BY <3>1, <4>1, <6>1
        <5> QED
          BY <2>2, <3>1, <5>1, FreshStays
      <4>2. CASE ~(fresh /\ lastConfig = <<c>>)
        BY <3>1, <4>2 DEF FreshOK
      <4> QED
        BY <4>1, <4>2
    <3> QED
      BY <2>5, <3>2, <3>3
  <2> QED
    BY <2>6, <2>7
<1>6. CASE PressSave
  <2>1. Posts("save")
        /\ UNCHANGED <<catalog, order, enabled, form, lastConfig, fresh, edited, config, polls>>
    BY <1>6 DEF PressSave, page, inputs, daemon
  <2>2. Around'
    BY <2>1, PostsAround
  <2> QED
    BY <2>1, <2>2, <1>k
<1>7. CASE PressPower
  <2>1. UNCHANGED <<catalog, order, enabled, form, lastConfig, fresh, edited, config, polls>>
    BY <1>7 DEF PressPower, page, inputs, daemon
  <2>2. CASE UNCHANGED post
    BY <2>1, <2>2, <1>k, <1>p
  <2>3. CASE Posts("power")
    <3>1. Around'
      BY <2>1, <2>3, PostsAround
    <3> QED
      BY <2>1, <3>1, <1>k
  <2> QED
    BY <1>7, <2>2, <2>3 DEF PressPower
<1>8. ASSUME NEW b \in {"save", "power"}, ConfigPosted(b) PROVE PanelInv'
  <2>1. /\ UNCHANGED <<catalog, order, enabled, form, lastConfig, fresh, edited, polls>>
        /\ post[b].pc = "sent" /\ config' = IF up THEN config ELSE post[b].body[1]
        /\ post' = [post EXCEPT ![b].pc = "answered", ![b].ok = ~up]
    BY <1>8 DEF ConfigPosted, page, inputs
  <2>2. Fine(post[b].body[1])
    BY <2>1 DEF Around
  <2>3. config' = config \/ Fine(config')
    BY <2>1, <2>2
  <2>4. \A a \in {"save", "power"} : post'[a].pc = "sent" => post'[a] = post[a]
    <3>1. post'[b].pc = "answered"
      BY <2>1 DEF DashInv
    <3>2. \A a \in {"save", "power"} : a # b => post'[a] = post[a]
      BY <2>1 DEF DashInv
    <3> QED
      BY <3>1, <3>2
  <2>5. Around'
    BY <2>1, <2>3, <2>4, AroundStays
  <2> QED
    BY <2>1, <2>5, <1>k
<1>9. CASE SaveAnswered \/ PowerSaved
  <2>1. /\ UNCHANGED <<catalog, order, enabled, form, lastConfig, fresh, config, polls>>
        /\ edited' = edited \/ edited' = {}
    BY <1>9 DEF SaveAnswered, PowerSaved, Acknowledge, inputs, daemon
  <2>2. \A b \in {"save", "power"} : post'[b].pc = "sent" => post'[b] = post[b]
    <3>1. CASE SaveAnswered
      BY <3>1 DEF SaveAnswered, DashInv, NoPost
    <3>2. CASE PowerSaved
      <4>1. post' = [post EXCEPT !["power"].pc = "taken"] \/ post' = [post EXCEPT !["power"] = NoPost]
        BY <3>2 DEF PowerSaved
      <4> QED
        BY <4>1 DEF DashInv, NoPost
    <3> QED
      BY <1>9, <3>1, <3>2
  <2> QED
    BY <2>1, <2>2, <1>k, <1>p
<1>10. CASE PowerAnswered \/ RequestLost
  <2>1. UNCHANGED <<catalog, order, enabled, form, lastConfig, fresh, edited, config, polls>>
    BY <1>10 DEF PowerAnswered, RequestLost, page, inputs, daemon
  <2>2. post' = [post EXCEPT !["power"] = NoPost] \/ post' = [post EXCEPT !["save"] = NoPost]
    BY <1>10 DEF PowerAnswered, RequestLost, PowerDone
  <2>3. \A b \in {"save", "power"} : post'[b].pc = "sent" => post'[b] = post[b]
    BY <2>2 DEF DashInv, NoPost
  <2> QED
    BY <2>1, <2>3, <1>k, <1>p
<1>11. CASE OtherWrites
  <2>1. /\ UNCHANGED <<catalog, order, enabled, form, lastConfig, fresh, edited, polls, post>>
        /\ config' \in Foreign \cup {[config EXCEPT !.rest = 1 - @]}
    BY <1>11 DEF OtherWrites, page, inputs
  <2>2. Fine(config')
    <3>1. CASE config' \in Foreign
      BY <3>1, DashboardAssumption DEF ListsMeanFrc, Fine
    <3>2. CASE config' = [config EXCEPT !.rest = 1 - @]
      <4>1. config \in Configs /\ Fine(config)
        BY DEF Around, Fine
      <4>2. /\ config' \in Configs /\ config'.filters = config.filters
            /\ config'.mode = config.mode /\ config'.frc = config.frc
        BY <3>2, <4>1 DEF Configs
      <4>3. Mode(config') = Mode(config)
        BY <4>2 DEF Mode
      <4>4. FrcMeant(config) => FrcMeant(config')
        BY <4>2, <4>3 DEF FrcMeant, Lossy
      <4> QED
        BY <4>1, <4>2, <4>4 DEF Fine
    <3> QED
      BY <2>1, <3>1, <3>2
  <2>3. Around'
    BY <2>1, <2>2, AroundStays
  <2> QED
    BY <2>1, <2>3, <1>k
<1>12. CASE UNCHANGED dashVars
  <2>1. UNCHANGED <<catalog, order, enabled, form, lastConfig, fresh, edited, config, polls, post>>
    BY <1>12 DEF dashVars, daemon, page, inputs, asked
  <2> QED
    BY <2>1, <1>k, <1>p
<1> QED
  BY <1>1, <1>2, <1>3, <1>4, <1>5, <1>6, <1>7, <1>8, <1>9, <1>10, <1>11, <1>12
  DEF DashNext, PageStep, Requests

\* What the panel shows is what is saved: an untouched form is saved as the chain it was filled
\* from, and a page opened after a save shows the rows as they were saved (fillForm,
\* deriveChain and readForm of app.js, against compose()), whatever the stages are and
\* whatever others write, as long as a list the panel cannot express names FRC only to run it.
THEOREM PanelIsRight == ListsMeanFrc => (DashInit /\ [][DashNext]_dashVars => []PanelRight)
<1> SUFFICES ASSUME ListsMeanFrc PROVE DashInit /\ [][DashNext]_dashVars => []PanelRight
  OBVIOUS
<1>1. DashInit => DashInv /\ PanelInv
  BY DashInitInv, PanelInitInv
<1>2. DashInv /\ PanelInv /\ [DashNext]_dashVars => (DashInv /\ PanelInv)'
  BY DashNextInv, PanelNextInv
<1>3. DashInv /\ PanelInv => PanelRight
  BY PanelIsTrue, SavedIsShown DEF PanelRight
<1> QED
  BY <1>1, <1>2, <1>3, PTL
=============================================================================
