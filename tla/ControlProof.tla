---------------------------- MODULE ControlProof ----------------------------
(***************************************************************************)
(* Proofs about ControlDaemon and NmosControl for every set of pids,       *)
(* configurations, multicast groups and choices.                           *)
(*                                                                         *)
(* The daemon's four invariants hold each other up: the configuration an   *)
(* engine was launched with is the current one only because a process      *)
(* exists exactly while the state is RUNNING, and the log is final after   *)
(* that only because there is no second process to write it.  So they are  *)
(* one inductive invariant, stated over a g_state and a process table so   *)
(* that it can also be stated of the pair a handler sees after its reap.   *)
(*                                                                         *)
(* The NMOS node and the dashboard are clients of the daemon: every step   *)
(* of the composition is a step of ControlDaemon or invisible to it, so    *)
(* what is proved of the daemon holds of the composition.  Then the route: *)
(* what the worker remembers of its last request is what the engine runs,  *)
(* unless somebody else interfered.                                        *)
(***************************************************************************)
EXTENDS NmosControl, TLAPS

DType == [state : States, pid : Pids \cup {NoPid}, config : Configs,
          stats : 0 .. MaxStat, message : Messages]

\* g_state g, process table t and log l agree.
Agree(g, t, l) ==
  /\ g \in DType
  /\ t \in [Pids -> Procs]
  /\ l \in 0 .. MaxStat
  /\ g.state = "RUNNING" <=> g.pid # NoPid
  /\ \A p \in Pids : t[p] # NoProc <=> p = g.pid
  /\ g.state = "RUNNING" => t[g.pid].cfg = g.config
  /\ g.state # "RUNNING" /\ g.message # "idle" => g.stats = l

LockOK ==
  /\ held \in BOOLEAN
  /\ polls \in 0 .. MaxPolls
  /\ held => d.state = "RUNNING"

IInv == Agree(d, procs, log) /\ LockOK

LEMMA NoProcType == NoProc \in Procs
BY DaemonAssumption DEF NoProc, Procs

\* The invariant is the conjunction of the properties.
LEMMA IInvMeans == IInv <=> TypeOK /\ OneEngine /\ EngineRunsConfig /\ FinalStats
BY DEF IInv, Agree, LockOK, DType, TypeOK, OneEngine, EngineRunsConfig, FinalStats
-----------------------------------------------------------------------------
(* The pieces of the handlers *)

\* Reaping keeps the agreement and the configuration, and afterwards a
\* RUNNING state is the state of before.
LEMMA ReapKeeps ==
  ASSUME Agree(d, procs, log)
  PROVE  /\ Agree(Reaped, ProcsReaped, log)
         /\ Reaped.config = d.config
         /\ Running => Reaped = d /\ ProcsReaped = procs
<1> USE DaemonAssumption, NoProcType
<1>1. CASE ReapDue
  <2>1. /\ d.pid \in Pids
        /\ procs[d.pid].clean \in BOOLEAN
        /\ d.state = "RUNNING"
    BY <1>1 DEF ReapDue, Agree, DType, Procs
  <2>2. Reaped = [d EXCEPT !.state = IF procs[d.pid].clean THEN "STOPPED" ELSE "ERRORED",
                           !.pid = NoPid, !.stats = log, !.message = "exited"]
    BY <1>1 DEF Reaped, ParseStats
  <2>3. ProcsReaped = [procs EXCEPT ![d.pid] = NoProc]
    BY <1>1 DEF ProcsReaped, WaitPid, ReapDue, Exited
  <2>4. /\ Reaped \in DType
        /\ Reaped.pid = NoPid /\ Reaped.state # "RUNNING"
        /\ Reaped.stats = log /\ Reaped.config = d.config
    BY <2>1, <2>2 DEF Agree, DType, States, Messages
  <2>5. /\ ProcsReaped \in [Pids -> Procs]
        /\ \A p \in Pids : ProcsReaped[p] = NoProc
    BY <2>1, <2>3 DEF Agree
  <2>6. QED
    BY <2>4, <2>5 DEF Agree, Running
<1>2. CASE ~ReapDue
  BY <1>2 DEF Reaped, ProcsReaped
<1>3. QED
  BY <1>1, <1>2

\* A child whose entry changes without its configuration, and stays in the
\* table, changes nothing the invariant sees.
LEMMA EntryChange ==
  ASSUME Agree(d, procs, log), NEW p \in Pids, NEW e \in Procs,
         procs[p] # NoProc, e # NoProc, e.cfg = procs[p].cfg,
         NEW l \in 0 .. MaxStat
  PROVE  Agree(d, [procs EXCEPT ![p] = e], l)
<1>1. d.state = "RUNNING" /\ d.pid = p
  BY DaemonAssumption DEF Agree
<1>2. QED
  BY <1>1 DEF Agree
-----------------------------------------------------------------------------
\* A daemon without history agrees with an empty process table.
LEMMA FreshAgrees ==
  ASSUME NEW l \in 0 .. MaxStat
  PROVE  Agree(Fresh, [p \in Pids |-> NoProc], l)
<1>1. /\ Fresh \in DType
      /\ Fresh.state = "STOPPED" /\ Fresh.pid = NoPid /\ Fresh.message = "idle"
  BY DaemonAssumption DEF Fresh, DType, States, Messages
<1>2. /\ [p \in Pids |-> NoProc] \in [Pids -> Procs]
      /\ \A q \in Pids : [p \in Pids |-> NoProc][q] = NoProc
  BY NoProcType
<1>3. QED
  BY DaemonAssumption, <1>1, <1>2 DEF Agree

THEOREM InitIInv == Init => IInv
<1> SUFFICES ASSUME Init PROVE IInv
  OBVIOUS
<1>1. /\ d = Fresh /\ procs = [p \in Pids |-> NoProc]
      /\ log = 0 /\ held = FALSE /\ polls = 0
  BY DEF Init
<1>2. 0 \in 0 .. MaxStat /\ 0 \in 0 .. MaxPolls
  BY DaemonAssumption
<1>3. Agree(d, procs, log)
  BY <1>1, <1>2, FreshAgrees
<1>4. QED
  BY <1>1, <1>2, <1>3 DEF IInv, LockOK

\* Every step of the daemon and of its child keeps the invariant.
THEOREM NextIInv == IInv /\ [Next]_daemonVars => IInv'
<1> SUFFICES ASSUME IInv, [Next]_daemonVars PROVE IInv'
  OBVIOUS
<1> USE DaemonAssumption, NoProcType
<1>a. Agree(d, procs, log) /\ LockOK
  BY DEF IInv
<1>r. /\ Agree(Reaped, ProcsReaped, log)
      /\ Reaped.config = d.config
      /\ Running => Reaped = d /\ ProcsReaped = procs
  BY <1>a, ReapKeeps
<1>t. /\ procs \in [Pids -> Procs]
      /\ \A p \in Pids : procs[p] \in Procs
  BY <1>a DEF Agree
<1>1. CASE GetStatus
  <2>1. Agree(d', procs', log') /\ ~held /\ UNCHANGED <<held, polls>>
    BY <1>1, <1>r DEF GetStatus, Handler, ParseStats, Agree, DType, Running
  <2>2. QED
    BY <1>a, <2>1 DEF IInv, LockOK, Agree
<1>2. CASE \E c \in Configs : SetConfig(c)
  <2>1. Agree(d', procs', log') /\ ~held /\ UNCHANGED <<held, polls>>
    BY <1>2, <1>r DEF SetConfig, Handler, ConfigAfter, Agree, DType, Running
  <2>2. QED
    BY <1>a, <2>1 DEF IInv, LockOK, Agree
<1>3. CASE StartRefused \/ StopRefused
  <2>1. Agree(d', procs', log') /\ ~held /\ UNCHANGED <<held, polls>>
    BY <1>3, <1>r DEF StartRefused, StopRefused, Handler
  <2>2. QED
    BY <1>a, <2>1 DEF IInv, LockOK, Agree
<1>4. CASE StartForks
  <2>1. PICK p \in Pids :
          /\ procs' = [ProcsReaped EXCEPT ![p] =
                         [NoProc EXCEPT !.st = "forked", !.cfg = Reaped.config]]
          /\ d' = [Reaped EXCEPT !.pid = p, !.state = "RUNNING", !.message = "started"]
    BY <1>4 DEF StartForks, Handler
  <2> DEFINE child == [NoProc EXCEPT !.st = "forked", !.cfg = Reaped.config]
  <2>2. child \in Procs /\ child # NoProc /\ child.cfg = Reaped.config
    BY <1>r DEF NoProc, Procs, Agree, DType
  <2>3. /\ Reaped.pid = NoPid
        /\ \A q \in Pids : ProcsReaped[q] = NoProc
        /\ UNCHANGED <<log, held, polls>> /\ ~held
    BY <1>4, <1>r DEF StartForks, Handler, Running, Agree
  <2>4. /\ d' \in DType /\ d'.pid = p /\ d'.state = "RUNNING"
        /\ d'.config = Reaped.config
    BY <1>r, <2>1 DEF Agree, DType, States, Messages
  <2>5. /\ procs' \in [Pids -> Procs] /\ procs'[p] = child
        /\ \A q \in Pids \ {p} : procs'[q] = NoProc
    BY <1>r, <2>1, <2>2, <2>3 DEF Agree
  <2>6. Agree(d', procs', log')
    BY <1>a, <2>2, <2>3, <2>4, <2>5 DEF Agree
  <2>7. QED
    BY <1>a, <2>3, <2>6 DEF IInv, LockOK, Agree
<1>5. CASE StopSignals
  <2>1. /\ d.state = "RUNNING" /\ d.pid \in Pids /\ procs[d.pid] # NoProc
        /\ UNCHANGED <<d, log>> /\ held' = TRUE /\ polls' = 0
        /\ procs' = [procs EXCEPT ![d.pid] = [procs[d.pid] EXCEPT !.sig = "term"]]
    BY <1>a, <1>r, <1>5 DEF StopSignals, Running, Agree, DType
  <2>2. /\ [procs[d.pid] EXCEPT !.sig = "term"] \in Procs
        /\ [procs[d.pid] EXCEPT !.sig = "term"] # NoProc
        /\ [procs[d.pid] EXCEPT !.sig = "term"].cfg = procs[d.pid].cfg
    BY <1>t, <2>1 DEF Procs, NoProc
  <2>3. Agree(d', procs', log')
    BY <1>a, <2>1, <2>2, EntryChange DEF Agree
  <2>4. QED
    BY <1>a, <2>1, <2>3 DEF IInv, LockOK, Agree
<1>6. CASE StopPollMisses
  BY <1>a, <1>6 DEF StopPollMisses, IInv, Agree, LockOK
<1>7. CASE StopKills
  <2>1. /\ d.state = "RUNNING" /\ d.pid \in Pids /\ procs[d.pid] # NoProc
        /\ UNCHANGED <<d, log, held, polls>>
        /\ procs' = [procs EXCEPT ![d.pid] = [procs[d.pid] EXCEPT !.sig = "kill"]]
    BY <1>a, <1>7 DEF StopKills, KillSignal, Agree, DType, LockOK
  <2>2. /\ [procs[d.pid] EXCEPT !.sig = "kill"] \in Procs
        /\ [procs[d.pid] EXCEPT !.sig = "kill"] # NoProc
        /\ [procs[d.pid] EXCEPT !.sig = "kill"].cfg = procs[d.pid].cfg
    BY <1>t, <2>1 DEF Procs, NoProc
  <2>3. Agree(d', procs', log')
    BY <1>a, <2>1, <2>2, EntryChange DEF Agree
  <2>4. QED
    BY <1>a, <2>1, <2>3 DEF IInv, LockOK, Agree
<1>8. CASE StopReaps
  <2>1. /\ d.pid \in Pids /\ held' = FALSE /\ polls' = 0 /\ UNCHANGED log
        /\ procs' = [procs EXCEPT ![d.pid] = NoProc]
        /\ d' = [d EXCEPT !.state = "STOPPED", !.pid = NoPid, !.stats = log,
                          !.message = "stopped"]
    BY <1>a, <1>8 DEF StopReaps, WaitPid, Exited, ParseStats, Agree, DType, LockOK
  <2>2. /\ d' \in DType /\ d'.pid = NoPid /\ d'.state = "STOPPED" /\ d'.stats = log
    BY <1>a, <2>1 DEF Agree, DType, States, Messages
  <2>3. procs' \in [Pids -> Procs] /\ \A p \in Pids : procs'[p] = NoProc
    BY <1>a, <2>1 DEF Agree
  <2>4. Agree(d', procs', log')
    BY <1>a, <2>1, <2>2, <2>3 DEF Agree
  <2>5. polls' \in 0 .. MaxPolls
    BY <2>1
  <2>6. LockOK'
    BY <2>1, <2>5, Zenon DEF LockOK
  <2>7. QED
    BY <2>4, <2>6 DEF IInv, Agree
<1>9. ASSUME NEW p \in Pids,
             \/ ChildOpensLog(p) \/ ChildExecs(p) \/ EngineReports(p)
             \/ EngineExits(p) \/ SignalEnds(p)
      PROVE  IInv'
  <2>1. /\ procs[p].st # "none" /\ procs[p] # NoProc
        /\ UNCHANGED <<d, held, polls>>
    BY <1>9 DEF ChildOpensLog, ChildExecs, EngineReports, EngineExits, SignalEnds,
                Alive, NoProc
  <2>2. log' \in 0 .. MaxStat
    BY <1>a, <1>9 DEF ChildOpensLog, ChildExecs, EngineReports, EngineExits,
                      SignalEnds, Agree
  <2>3. \E e \in Procs : /\ e.st # "none" /\ e.cfg = procs[p].cfg
                         /\ procs' = [procs EXCEPT ![p] = e]
    <3>1. CASE ChildOpensLog(p)
      <4>1. CASE procs' = [procs EXCEPT ![p].st = "ready", ![p].opened = TRUE]
        <5> DEFINE e == [[procs[p] EXCEPT !.st = "ready"] EXCEPT !.opened = TRUE]
        <5>1. e \in Procs /\ e.st # "none" /\ e.cfg = procs[p].cfg
          BY <1>t DEF Procs
        <5>2. procs' = [procs EXCEPT ![p] = e]
          BY <1>t, <4>1
        <5>3. QED
          BY <5>1, <5>2
      <4>2. CASE procs' = [procs EXCEPT ![p].st = "ready"]
        <5> DEFINE e == [procs[p] EXCEPT !.st = "ready"]
        <5>1. e \in Procs /\ e.st # "none" /\ e.cfg = procs[p].cfg
          BY <1>t DEF Procs
        <5>2. QED
          BY <4>2, <5>1
      <4>3. QED
        BY <3>1, <4>1, <4>2 DEF ChildOpensLog
    <3>2. CASE ChildExecs(p) \/ SignalEnds(p)
      <4>1. PICK s \in {"running", "zombie"} : procs' = [procs EXCEPT ![p].st = s]
        BY <3>2 DEF ChildExecs, SignalEnds
      <4> DEFINE e == [procs[p] EXCEPT !.st = s]
      <4>2. e \in Procs /\ e.st # "none" /\ e.cfg = procs[p].cfg
        BY <1>t DEF Procs
      <4>3. QED
        BY <4>1, <4>2
    <3>3. CASE EngineReports(p)
      <4>1. procs' = [procs EXCEPT ![p] = procs[p]]
        BY <3>3, <1>t DEF EngineReports
      <4>2. QED
        BY <1>t, <2>1, <4>1
    <3>4. CASE EngineExits(p)
      <4>1. PICK c \in BOOLEAN : procs' = [procs EXCEPT ![p].st = "zombie", ![p].clean = c]
        BY <3>4 DEF EngineExits
      <4> DEFINE e == [[procs[p] EXCEPT !.st = "zombie"] EXCEPT !.clean = c]
      <4>2. e \in Procs /\ e.st # "none" /\ e.cfg = procs[p].cfg
        BY <1>t DEF Procs
      <4>3. procs' = [procs EXCEPT ![p] = e]
        BY <1>t, <4>1
      <4>4. QED
        BY <4>2, <4>3
    <3>5. QED
      BY <1>9, <3>1, <3>2, <3>3, <3>4
  <2>4. PICK e \in Procs : /\ e.st # "none" /\ e.cfg = procs[p].cfg
                           /\ procs' = [procs EXCEPT ![p] = e]
    BY <2>3
  <2>5. e # NoProc
    BY <2>4 DEF NoProc
  <2>6. Agree(d, [procs EXCEPT ![p] = e], log')
    BY <1>a, <2>1, <2>2, <2>4, <2>5, EntryChange
  <2>7. QED
    BY <1>a, <2>1, <2>4, <2>6 DEF IInv, LockOK
<1>10. CASE DaemonRestarts
  <2>1. /\ d' = Fresh /\ procs' = [p \in Pids |-> NoProc] /\ log' = log
        /\ held' = FALSE /\ polls' = 0
    BY <1>10 DEF DaemonRestarts
  <2>2. Agree(d', procs', log')
    BY <1>a, <2>1, FreshAgrees DEF Agree
  <2>3. polls' \in 0 .. MaxPolls
    BY <2>1
  <2>4. LockOK'
    BY <2>1, <2>3, Zenon DEF LockOK
  <2>5. QED
    BY <2>2, <2>4 DEF IInv, Agree
<1>11. CASE UNCHANGED daemonVars
  BY <1>a, <1>11 DEF daemonVars, IInv, Agree, LockOK
<1>12. QED
  BY <1>1, <1>2, <1>3, <1>4, <1>5, <1>6, <1>7, <1>8, <1>9, <1>10, <1>11
     DEF Next, ClientStep, Start, StopContinues, EngineStep
-----------------------------------------------------------------------------
LEMMA SpecIInv == Spec => []IInv
BY InitIInv, NextIInv, PTL DEF Spec

\* Every variable keeps its type.
THEOREM DaemonTypeCorrect == Spec => []TypeOK
BY SpecIInv, IInvMeans, PTL

\* There is never a second engine, a forgotten one, or a signal to a pid that
\* was reaped (start_locked, stop_locked, reap_locked).
THEOREM OneEngineAlways == Spec => []OneEngine
BY SpecIInv, IInvMeans, PTL

\* A running engine has the configuration GetStatus shows.
THEOREM EngineHasConfig == Spec => []EngineRunsConfig
BY SpecIInv, IInvMeans, PTL

\* The last statistics of an engine survive its end.
THEOREM StatsAreFinal == Spec => []FinalStats
BY SpecIInv, IInvMeans, PTL
-----------------------------------------------------------------------------
(* The daemon implements the one-slot host *)

\* The live engines of a process table.
LiveIn(t, p) == t[p].st \in {"forked", "ready", "running"}
LiveOf(t) == [p \in {q \in Pids : LiveIn(t, q)} |-> t[p].cfg]

LEMMA LiveIs == LiveEngines = LiveOf(procs)
BY DEF LiveEngines, LiveOf, LiveIn, Alive

\* Nothing alive: the slot is empty.
LEMMA NoneLive ==
  ASSUME NEW t, \A p \in Pids : ~LiveIn(t, p)
  PROVE  LiveOf(t) = Host!Nobody
<1>1. {q \in Pids : LiveIn(t, q)} = {}
  OBVIOUS
<1>2. QED
  BY <1>1 DEF LiveOf, Host!Nobody

\* Tables with the same live children, launched alike, look the same.
LEMMA SameLive ==
  ASSUME NEW t, NEW u,
         \A p \in Pids : LiveIn(t, p) <=> LiveIn(u, p),
         \A p \in Pids : LiveIn(t, p) => t[p].cfg = u[p].cfg
  PROVE  LiveOf(t) = LiveOf(u)
<1>1. {q \in Pids : LiveIn(t, q)} = {q \in Pids : LiveIn(u, q)}
  OBVIOUS
<1>2. QED
  BY <1>1 DEF LiveOf

\* A reap takes only a dead child out of the table.
LEMMA ReapLive ==
  ASSUME Agree(d, procs, log)
  PROVE  LiveOf(ProcsReaped) = LiveOf(procs)
<1>1. CASE ReapDue
  <2>1. /\ d.pid \in Pids /\ procs[d.pid].st = "zombie"
        /\ ProcsReaped = [procs EXCEPT ![d.pid] = NoProc]
    BY <1>1 DEF ReapDue, ProcsReaped, WaitPid, Exited, Agree, DType
  <2>2. /\ ~LiveIn(procs, d.pid) /\ ~LiveIn(ProcsReaped, d.pid)
        /\ \A p \in Pids \ {d.pid} : ProcsReaped[p] = procs[p]
    BY <2>1 DEF LiveIn, NoProc, Agree
  <2>3. QED
    BY <2>2, SameLive DEF LiveIn
<1>2. CASE ~ReapDue
  BY <1>2 DEF ProcsReaped
<1>3. QED
  BY <1>1, <1>2

\* Initially the slot is empty.
THEOREM HostInit == Init => Host!Init
<1> SUFFICES ASSUME Init PROVE Host!Init
  OBVIOUS
<1>1. \A p \in Pids : ~LiveIn(procs, p)
  BY DEF Init, LiveIn, NoProc
<1>2. QED
  BY <1>1, NoneLive, LiveIs DEF Init, Fresh, Host!Init

\* Every step is a step of the host or invisible to it.
THEOREM HostNext == IInv /\ [Next]_daemonVars => [Host!Next]_<<d.config, LiveEngines>>
<1> SUFFICES ASSUME IInv, [Next]_daemonVars
             PROVE  [Host!Next]_<<d.config, LiveEngines>>
  OBVIOUS
<1>a. Agree(d, procs, log) /\ LockOK
  BY DEF IInv
<1>r. /\ Agree(Reaped, ProcsReaped, log)
      /\ Reaped.config = d.config
      /\ Running => Reaped = d /\ ProcsReaped = procs
      /\ LiveOf(ProcsReaped) = LiveOf(procs)
  BY <1>a, ReapKeeps, ReapLive
<1>l. LiveEngines = LiveOf(procs) /\ LiveEngines' = LiveOf(procs')
  BY LiveIs DEF LiveEngines, LiveOf, LiveIn, Alive
\* Without an engine the slot is empty.
<1>n. ~Running => LiveOf(procs) = Host!Nobody
  <2>1. ASSUME ~Running PROVE \A p \in Pids : ~LiveIn(ProcsReaped, p)
    BY <1>r, <2>1, DaemonAssumption DEF Agree, Running, LiveIn, NoProc
  <2>2. QED
    BY <1>r, <2>1, NoneLive
<1>1. CASE GetStatus \/ StartRefused \/ StopRefused
  <2>1. d'.config = d.config /\ procs' = ProcsReaped
    BY <1>1, <1>r DEF GetStatus, StartRefused, StopRefused, Handler, Running, Agree, DType
  <2>2. QED
    BY <1>r, <1>l, <2>1
<1>2. ASSUME NEW c \in Configs, SetConfig(c)
      PROVE  [Host!Next]_<<d.config, LiveEngines>>
  <2>1. procs' = ProcsReaped /\ LiveEngines' = LiveEngines
    BY <1>2, <1>r, <1>l DEF SetConfig
  <2>2. CASE Running
    BY <1>2, <1>r, <2>1, <2>2 DEF SetConfig, Handler, ConfigAfter
  <2>3. CASE ~Running
    <3>1. d'.config = c
      BY <1>2, <1>r, <2>3 DEF SetConfig, Handler, ConfigAfter, Agree, DType
    <3>2. QED
      BY <1>n, <1>l, <2>1, <2>3, <3>1 DEF Host!Next, Host!Configure
  <2>4. QED
    BY <2>2, <2>3
<1>3. CASE StartForks
  <2>1. PICK p \in Pids :
          /\ ~Running
          /\ procs' = [ProcsReaped EXCEPT ![p] =
                         [NoProc EXCEPT !.st = "forked", !.cfg = Reaped.config]]
          /\ d' = [Reaped EXCEPT !.pid = p, !.state = "RUNNING", !.message = "started"]
    BY <1>3 DEF StartForks, Handler
  <2>2. d'.config = d.config
    BY <1>r, <2>1 DEF Agree, DType
  <2>3. \A q \in Pids : ProcsReaped[q] = NoProc
    BY <1>r, <2>1, DaemonAssumption DEF Agree, Running
  <2>4. /\ procs'[p].st = "forked" /\ procs'[p].cfg = d.config
        /\ \A q \in Pids \ {p} : procs'[q] = NoProc
    BY <1>r, <2>1, <2>3 DEF Agree, NoProc
  <2>5. {q \in Pids : LiveIn(procs', q)} = {p}
    BY <2>4 DEF LiveIn, NoProc
  <2>6. LiveOf(procs') = [x \in {p} |-> d.config]
    BY <2>4, <2>5 DEF LiveOf
  <2>7. QED
    BY <1>l, <1>n, <2>1, <2>2, <2>6 DEF Host!Next, Host!Launch
<1>4. CASE StopSignals \/ StopPollMisses \/ StopKills
  <2>1. /\ d' = d
        /\ \/ procs' = procs
           \/ \E s \in {"term", "kill"} : procs' = [procs EXCEPT ![d.pid].sig = s]
    BY <1>4 DEF StopSignals, StopPollMisses, StopKills, KillSignal
  <2>2. \A p \in Pids : procs'[p].st = procs[p].st /\ procs'[p].cfg = procs[p].cfg
    BY <1>a, <2>1 DEF Agree, Procs
  <2>3. LiveOf(procs') = LiveOf(procs)
    BY <2>2, SameLive DEF LiveIn
  <2>4. QED
    BY <1>l, <2>1, <2>3
<1>5. CASE StopReaps
  <2>1. /\ d'.config = d.config /\ procs[d.pid].st = "zombie" /\ d.pid \in Pids
        /\ procs' = [procs EXCEPT ![d.pid] = NoProc]
    BY <1>a, <1>5 DEF StopReaps, WaitPid, Exited, Agree, DType, LockOK
  <2>2. /\ ~LiveIn(procs, d.pid) /\ ~LiveIn(procs', d.pid)
        /\ \A p \in Pids \ {d.pid} : procs'[p] = procs[p]
    BY <1>a, <2>1 DEF LiveIn, NoProc, Agree
  <2>3. LiveOf(procs') = LiveOf(procs)
    BY <2>2, SameLive DEF LiveIn
  <2>4. QED
    BY <1>l, <2>1, <2>3
<1>6. ASSUME NEW p \in Pids, ChildOpensLog(p) \/ EngineReports(p)
      PROVE  [Host!Next]_<<d.config, LiveEngines>>
  <2>1. /\ d' = d /\ LiveIn(procs, p) /\ LiveIn(procs', p)
        /\ procs'[p].cfg = procs[p].cfg
        /\ \A q \in Pids \ {p} : procs'[q] = procs[q]
    BY <1>a, <1>6 DEF ChildOpensLog, EngineReports, LiveIn, Agree, Procs
  <2>2. LiveOf(procs') = LiveOf(procs)
    BY <2>1, SameLive DEF LiveIn
  <2>3. QED
    BY <1>l, <2>1, <2>2
<1>7. ASSUME NEW p \in Pids, ChildExecs(p) \/ EngineExits(p) \/ SignalEnds(p)
      PROVE  [Host!Next]_<<d.config, LiveEngines>>
  <2>1. /\ d' = d /\ procs[p] # NoProc
        /\ procs'[p].st \in {"running", "zombie"}
        /\ procs'[p].cfg = procs[p].cfg
        /\ LiveIn(procs, p)
        /\ \A q \in Pids \ {p} : procs'[q] = procs[q]
    BY <1>a, <1>7 DEF ChildExecs, EngineExits, SignalEnds, Alive, LiveIn, NoProc,
                      Agree, Procs
  <2>2. CASE procs'[p].st = "running"
    <3>1. LiveOf(procs') = LiveOf(procs)
      BY <2>1, <2>2, SameLive DEF LiveIn
    <3>2. QED
      BY <1>l, <2>1, <3>1
  <2>3. CASE procs'[p].st = "zombie"
    <3>1. \A q \in Pids \ {p} : procs[q] = NoProc
      BY <1>a, <2>1 DEF Agree
    <3>2. \A q \in Pids : ~LiveIn(procs', q)
      BY <2>1, <2>3, <3>1 DEF LiveIn, NoProc
    <3>3. LiveOf(procs') = Host!Nobody
      BY <3>2, NoneLive
    <3>4. QED
      BY <1>l, <2>1, <3>3 DEF Host!Next, Host!Leave
  <2>4. QED
    BY <2>1, <2>2, <2>3
<1>8. CASE DaemonRestarts
  <2>1. d'.config = Default /\ \A p \in Pids : procs'[p] = NoProc
    BY <1>8 DEF DaemonRestarts, Fresh
  <2>2. LiveOf(procs') = Host!Nobody
    BY <2>1, NoneLive DEF LiveIn, NoProc
  <2>3. QED
    BY <1>l, <2>1, <2>2 DEF Host!Next, Host!Restart
<1>9. CASE UNCHANGED daemonVars
  BY <1>9, <1>l DEF daemonVars
<1>10. QED
  BY <1>1, <1>2, <1>3, <1>4, <1>5, <1>6, <1>7, <1>8, <1>9
     DEF Next, ClientStep, Start, StopContinues, EngineStep

\* Seen from its clients the daemon is a host with one slot.
THEOREM DaemonImplementsHost == Spec => ImplementsHost
BY HostInit, HostNext, SpecIInv, PTL DEF Spec, ImplementsHost, Host!Spec, Host!hostVars
-----------------------------------------------------------------------------
(* The NMOS node and the dashboard as clients of the daemon *)

Bodies == Settings(Choices \cup {Unset, Bare})
Connections == [Resources -> [active : BOOLEAN, group : Groups \cup {NoGroup}]]
PCs == {"idle", "get", "stop", "stopping", "release", "releasing", "config", "start"}
Workers == [pc : PCs, job : Connections, body : Bodies \cup {NoBody}]

\* A receiver that is connected has a group.
Routed(c) == c["vrx"].active => c["vrx"].group \in Groups

\* What the node and the dashboard hold, whoever interfered.
DataOK ==
  /\ want \in Connections /\ Routed(want)
  /\ dirty \in BOOLEAN /\ alone \in BOOLEAN
  /\ worker \in Workers
  /\ worker.pc = "get" => worker.job["vrx"].active /\ Routed(worker.job)
  /\ worker.pc \in {"stop", "stopping", "config", "start"} => worker.body \in Bodies
  /\ last \in Bodies \cup {NoBody}
  /\ seen \in Configs
  /\ upsets \in 0 .. MaxUpsets

\* The daemon is where the worker's last requests left it.
Believed ==
  /\ held <=> worker.pc \in {"stopping", "releasing"}
  /\ d.state = "RUNNING" /\ ~held => Alive(d.pid) /\ procs[d.pid].sig = "none"
  /\ worker.pc \in {"idle", "get", "stop", "release"} =>
       IF last = NoBody THEN d.state # "RUNNING"
       ELSE d.state = "RUNNING" /\ d.config = Parsed(last)
  /\ worker.pc \in {"config", "start"} => d.state # "RUNNING"
  /\ worker.pc = "start" => d.config = Parsed(worker.body)

\* Without a new activation the worker is busy with the wanted route, or done with it.
Serving ==
  /\ worker.pc = "idle" => IF want["vrx"].active
                           THEN last # NoBody /\ last = Overlay(last, want)
                           ELSE last = NoBody
  /\ worker.pc = "get" => worker.job = want
  /\ worker.pc \in {"stop", "stopping", "config", "start"} =>
       want["vrx"].active /\ worker.body = Overlay(worker.body, want)
  /\ worker.pc \in {"release", "releasing"} => ~want["vrx"].active

RouteInv == DataOK /\ (alone => Believed /\ (dirty \/ Serving))
-----------------------------------------------------------------------------
(* Configurations *)

LEMMA ConfigsAreBodies == Configs \subseteq Bodies
BY NmosAssumption DEF Bodies, Settings

LEMMA EmptyIsBody == EmptyConfig \in Bodies
BY DEF EmptyConfig, Bodies, Settings

\* What the daemon parses out of a body is a configuration.
LEMMA ParsedType ==
  ASSUME NEW b \in Bodies
  PROVE  Parsed(b) \in Configs
BY NmosAssumption DEF Parsed, Bodies, Settings

\* A routed configuration is one a body can hold.
LEMMA OverlayType ==
  ASSUME NEW c \in Bodies, NEW job \in Connections, job["vrx"].group \in Groups
  PROVE  Overlay(c, job) \in Bodies
<1>1. \A r \in Legs : LegGroup(r, job[r]) \in Groups \cup {NoGroup}
  BY NmosAssumption DEF Connections, Resources, LegGroup
<1> QED
  BY <1>1 DEF Overlay, Bodies, Settings

\* Writing a route twice is writing it once.
LEMMA OverlayAgain ==
  ASSUME NEW c \in Bodies, NEW job
  PROVE  Overlay(Overlay(c, job), job) = Overlay(c, job)
BY DEF Overlay, Bodies, Settings

\* Parsing leaves the route alone.
LEMMA OverlayParsed ==
  ASSUME NEW b \in Bodies, NEW job, b = Overlay(b, job)
  PROVE  Parsed(b) = Overlay(Parsed(b), job)
<1>1. CASE b.choices = Bare
  <2> DEFINE f == IF FormatOf[job["vrx"].group] # NoFormat THEN FormatOf[job["vrx"].group]
                  ELSE b.fmt
             l == [r \in Legs |-> LegGroup(r, job[r])]
  <2>1. b.src = job["vrx"].group /\ b.fmt = f /\ b.legs = l
    BY DEF Overlay, Bodies, Settings
  <2>2. Parsed(b) = [b EXCEPT !.choices = Unset]
    BY <1>1 DEF Parsed
  <2> QED
    BY <2>1, <2>2 DEF Overlay, Bodies, Settings
<1>2. CASE b.choices # Bare
  BY <1>2 DEF Parsed
<1> QED
  BY <1>1, <1>2
-----------------------------------------------------------------------------
(* The composition is a daemon with two clients *)

LEMMA InitRoute == NmosInit => RouteInv
<1> SUFFICES ASSUME NmosInit PROVE RouteInv
  OBVIOUS
<1>1. /\ d = Fresh /\ held = FALSE /\ want = NoJob /\ dirty = FALSE /\ worker = Done
      /\ last = NoBody /\ seen = Default /\ upsets = 0 /\ alone = TRUE
  BY DEF NmosInit, Init
<1>2. NoJob \in Connections /\ ~NoJob["vrx"].active
  BY DEF NoJob, Connections, Released, Resources
<1>3. d.state # "RUNNING"
  BY <1>1 DEF Fresh
<1>4. DataOK
  <2>1. upsets \in 0 .. MaxUpsets
    BY <1>1, NmosAssumption
  <2>2. seen \in Configs
    BY <1>1, DaemonAssumption
  <2>3. Done.pc = "idle" /\ worker.pc = "idle"
    BY <1>1 DEF Done
  <2>4. worker \in Workers
    BY <1>1, <1>2 DEF Done, Workers, PCs
  <2> QED
    BY <1>1, <1>2, <2>1, <2>2, <2>3, <2>4 DEF DataOK, Routed
<1>5. Believed /\ Serving
  BY <1>1, <1>2, <1>3 DEF Believed, Serving, Done
<1> QED
  BY <1>4, <1>5 DEF RouteInv

\* Every step is a step of the daemon, or one it does not see.
LEMMA NmosIsDaemon ==
  ASSUME DataOK, [NmosNext]_vars
  PROVE  [Next]_daemonVars
<1>1. CASE \/ \E r \in Resources : Activate(r)
           \/ Take \/ WorkerReadFails \/ NodeRestarts
  BY <1>1 DEF Activate, Take, WorkerReadFails, NodeRestarts
<1>2. CASE WorkerReads \/ DashPolls
  BY <1>2 DEF WorkerReads, DashPolls, Next, ClientStep
<1>3. CASE WorkerStops
  BY <1>3 DEF WorkerStops, Next, ClientStep
<1>4. CASE WorkerConfigures
  <2>1. Parsed(worker.body) \in Configs
    BY <1>4, ParsedType DEF WorkerConfigures, DataOK
  <2> QED
    BY <1>4, <2>1 DEF WorkerConfigures, Next, ClientStep
<1>5. CASE WorkerStarts
  BY <1>5 DEF WorkerStarts, Next, ClientStep, Start
<1>6. CASE WorkerFails
  <2>1. CASE worker.pc = "config" /\ SetConfig(Parsed(worker.body))
    <3>1. Parsed(worker.body) \in Configs
      BY <2>1, ParsedType DEF DataOK
    <3> QED
      BY <2>1, <3>1 DEF Next, ClientStep
  <2>2. CASE UNCHANGED daemonVars \/ StopRefused \/ Start
    BY <2>2 DEF Next, ClientStep
  <2> QED
    BY <1>6, <2>1, <2>2 DEF WorkerFails
<1>7. CASE DaemonStops
  BY <1>7 DEF DaemonStops, Next
<1>8. CASE Engine
  BY <1>8 DEF Engine, Next
<1>9. CASE Restart
  BY <1>9 DEF Restart, Next
<1>10. CASE DashSaves
  <2>1. PICK c \in Choices : SetConfig([seen EXCEPT !.choices = c])
    BY <1>10 DEF DashSaves
  <2>2. [seen EXCEPT !.choices = c] \in Configs
    BY NmosAssumption DEF DataOK, Settings
  <2> QED
    BY <2>1, <2>2 DEF Next, ClientStep
<1>11. CASE DashStartsOrStops
  BY <1>11 DEF DashStartsOrStops, Next, ClientStep
<1>12. CASE UNCHANGED vars
  BY <1>12 DEF vars
<1> QED
  BY <1>1, <1>2, <1>3, <1>4, <1>5, <1>6, <1>7, <1>8, <1>9, <1>10, <1>11, <1>12
     DEF NmosNext, WorkerStep
-----------------------------------------------------------------------------
(* The node keeps its types *)

LEMMA DoneIsWorker == Done \in Workers /\ Done.pc = "idle" /\ NoJob \in Connections
BY DEF Done, Workers, PCs, NoJob, Connections, Released, Resources

\* The body of a worker that was told to route, made from a configuration.
LEMMA BodyMade ==
  ASSUME DataOK, worker.pc = "get", NEW c \in Bodies, BodyReady(c)
  PROVE  /\ Overlay(c, worker.job) \in Bodies
         /\ \/ worker' = Done /\ Overlay(c, worker.job) = last
            \/ /\ worker' \in Workers /\ worker'.pc = "stop"
               /\ worker'.body = Overlay(c, worker.job)
<1>1. worker.job \in Connections /\ worker.job["vrx"].group \in Groups
  BY DEF DataOK, Workers, Routed
<1>2. Overlay(c, worker.job) \in Bodies
  BY <1>1, OverlayType
<1>3. CASE Overlay(c, worker.job) = last
  BY <1>2, <1>3 DEF BodyReady
<1>4. CASE Overlay(c, worker.job) # last
  <2>1. worker' = [pc |-> "stop", job |-> NoJob, body |-> Overlay(c, worker.job)]
    BY <1>4 DEF BodyReady
  <2> QED
    BY <1>2, <2>1, DoneIsWorker DEF Workers, PCs
<1> QED
  BY <1>3, <1>4

LEMMA DataNext ==
  ASSUME IInv, DataOK, [NmosNext]_vars
  PROVE  DataOK'
<1>t. /\ want \in Connections /\ Routed(want) /\ dirty \in BOOLEAN /\ alone \in BOOLEAN
      /\ worker \in Workers /\ last \in Bodies \cup {NoBody} /\ seen \in Configs
      /\ upsets \in 0 .. MaxUpsets
      /\ worker.pc = "get" => worker.job["vrx"].active /\ Routed(worker.job)
      /\ worker.pc \in {"stop", "stopping", "config", "start"} => worker.body \in Bodies
  BY DEF DataOK
<1>c. d.config \in Configs
  BY DEF IInv, Agree, DType
\* It suffices to look at what changed.
<1>s. ASSUME want' \in Connections, Routed(want)', dirty' \in BOOLEAN, alone' \in BOOLEAN,
             worker' \in Workers,
             worker'.pc = "get" => worker'.job["vrx"].active /\ Routed(worker'.job),
             worker'.pc \in {"stop", "stopping", "config", "start"} => worker'.body \in Bodies,
             last' \in Bodies \cup {NoBody}, seen' \in Configs, upsets' \in 0 .. MaxUpsets
      PROVE  DataOK'
  BY <1>s DEF DataOK
<1>u. ASSUME Upset PROVE upsets' \in 0 .. MaxUpsets /\ alone' \in BOOLEAN
  <2>1. upsets < MaxUpsets /\ upsets' = upsets + 1 /\ alone' = FALSE
    BY <1>u DEF Upset
  <2>2. upsets' \in 0 .. MaxUpsets
    BY <1>t, <2>1, NmosAssumption
  <2> QED
    BY <2>1, <2>2
<1>1. ASSUME NEW r \in Resources, Activate(r) PROVE DataOK'
  <2>1. want' \in Connections /\ Routed(want)'
    <3>1. CASE \E g \in Groups : want' = [want EXCEPT ![r] = [active |-> TRUE, group |-> g]]
      BY <1>t, <3>1 DEF Connections, Routed
    <3>2. CASE want' = [want EXCEPT ![r] = Released]
      BY <1>t, <3>2 DEF Connections, Routed, Released
    <3>3. CASE r \in {"vtx", "atx"} /\ want' = [want EXCEPT ![r].active = FALSE]
      <4>1. want' = [want EXCEPT ![r] = [want[r] EXCEPT !.active = FALSE]]
        BY <3>3
      <4>2. [want[r] EXCEPT !.active = FALSE] \in [active : BOOLEAN, group : Groups \cup {NoGroup}]
        BY <1>t DEF Connections
      <4>3. want' \in Connections /\ want'["vrx"] = want["vrx"]
        BY <1>t, <3>3, <4>1, <4>2 DEF Connections
      <4> QED
        BY <1>t, <4>3 DEF Routed
    <3> QED
      BY <1>1, <3>1, <3>2, <3>3 DEF Activate
  <2>2. UNCHANGED <<worker, last, seen, upsets, alone>> /\ dirty' = TRUE
    BY <1>1 DEF Activate
  <2> QED
    BY <1>t, <1>s, <2>1, <2>2
<1>2. CASE Take
  <2>1. UNCHANGED <<want, last, seen, upsets, alone>> /\ dirty' = FALSE
    BY <1>2 DEF Take
  <2>2. CASE want["vrx"].active
    <3>1. worker' = [pc |-> "get", job |-> want, body |-> NoBody]
      BY <1>2, <2>2 DEF Take
    <3> QED
      BY <1>t, <1>s, <2>1, <2>2, <3>1 DEF Workers, PCs, Routed
  <2>3. CASE ~want["vrx"].active
    <3>1. worker' \in Workers /\ worker'.pc \in {"idle", "release"}
      BY <1>2, <2>3, DoneIsWorker DEF Take, Workers, PCs
    <3> QED
      BY <1>t, <1>s, <2>1, <3>1 DEF Routed
  <2> QED
    BY <2>2, <2>3
<1>3. CASE WorkerReads \/ WorkerReadFails
  <2>1. PICK c \in Bodies : worker.pc = "get" /\ BodyReady(c)
    BY <1>3, <1>c, ConfigsAreBodies, EmptyIsBody DEF WorkerReads, WorkerReadFails, StatusConfig
  <2>2. worker' \in Workers /\ worker'.pc \in {"idle", "stop"}
        /\ (worker'.pc = "stop" => worker'.body \in Bodies)
    BY <2>1, BodyMade, DoneIsWorker
  <2>3. UNCHANGED <<want, dirty, last, seen>> /\ upsets' \in 0 .. MaxUpsets
        /\ alone' \in BOOLEAN
    BY <1>3, <1>t, <1>u DEF WorkerReads, WorkerReadFails
  <2> QED
    BY <1>t, <1>s, <2>2, <2>3 DEF Routed
<1>g. ASSUME NEW pc \in {"stopping", "releasing", "config", "start"}, Goto(pc),
             worker.pc \in {"stop", "stopping", "config"} \/ pc = "releasing"
      PROVE  /\ worker' \in Workers /\ worker'.pc = pc
             /\ pc # "releasing" => worker'.body \in Bodies
  BY <1>t, <1>g DEF Goto, Workers, PCs
<1>p. ASSUME worker.pc \in {"stop", "stopping", "release", "releasing"}, Stopped(worker.pc)
      PROVE  /\ worker' \in Workers /\ worker'.pc \in {"idle", "config"}
             /\ worker'.pc = "config" => worker'.body \in Bodies
             /\ last' \in {last, NoBody}
  <2>1. CASE worker.pc \in {"release", "releasing"}
    BY <2>1, <1>p, DoneIsWorker DEF Stopped, LastAfterRelease
  <2>2. CASE worker.pc \in {"stop", "stopping"}
    BY <2>2, <1>p, <1>g DEF Stopped
  <2> QED
    BY <1>p, <2>1, <2>2
<1>4. CASE WorkerStops
  <2>1. UNCHANGED <<want, dirty, seen, upsets, alone>> /\ worker.pc \in {"stop", "release"}
    BY <1>4 DEF WorkerStops
  <2>2. CASE Stopped(worker.pc)
    BY <1>t, <1>s, <1>p, <2>1, <2>2 DEF Routed
  <2>3. CASE Goto(IF worker.pc = "stop" THEN "stopping" ELSE "releasing") /\ UNCHANGED last
    <3>1. worker' \in Workers /\ worker'.pc \in {"stopping", "releasing"}
          /\ (worker'.pc = "stopping" => worker'.body \in Bodies)
      BY <1>g, <2>1, <2>3
    <3> QED
      BY <1>t, <1>s, <2>1, <2>3, <3>1 DEF Routed
  <2> QED
    BY <1>4, <2>2, <2>3 DEF WorkerStops
<1>5. CASE WorkerConfigures
  <2>1. UNCHANGED <<want, dirty, last, seen, upsets, alone>> /\ worker.pc = "config"
        /\ Goto("start")
    BY <1>5 DEF WorkerConfigures
  <2>2. worker' \in Workers /\ worker'.pc = "start" /\ worker'.body \in Bodies
    BY <1>g, <2>1
  <2> QED
    BY <1>t, <1>s, <2>1, <2>2 DEF Routed
<1>6. CASE WorkerStarts
  <2>1. UNCHANGED <<want, dirty, seen, upsets>> /\ worker.pc = "start" /\ worker' = Done
        /\ last' = worker.body /\ alone' \in BOOLEAN
    BY <1>6, <1>t DEF WorkerStarts
  <2> QED
    BY <1>t, <1>s, <2>1, DoneIsWorker DEF Routed
<1>7. CASE WorkerFails
  <2>1. UNCHANGED <<want, dirty, last, seen>> /\ worker' = Done /\ Upset
    BY <1>7 DEF WorkerFails
  <2> QED
    BY <1>t, <1>s, <1>u, <2>1, DoneIsWorker DEF Routed
<1>8. CASE DaemonStops
  <2>1. UNCHANGED <<want, dirty, seen, upsets, alone>> /\ StopAnswered
    BY <1>8 DEF DaemonStops
  <2>2. CASE worker.pc \in {"stopping", "releasing"} /\ Stopped(worker.pc)
    BY <1>t, <1>s, <1>p, <2>1, <2>2 DEF Routed
  <2>3. CASE UNCHANGED <<worker, last>>
    BY <1>t, <1>s, <2>1, <2>3 DEF Routed
  <2> QED
    BY <2>1, <2>2, <2>3 DEF StopAnswered
<1>9. CASE Engine
  <2>1. UNCHANGED <<nmosVars, seen, upsets>> /\ alone' \in BOOLEAN
    BY <1>9, <1>t DEF Engine
  <2> QED
    BY <1>t, <1>s, <2>1 DEF Routed, nmosVars
<1>10. CASE Restart
  <2>1. UNCHANGED <<want, dirty, last, seen>> /\ Upset /\ worker' \in {worker, Done}
    BY <1>10 DEF Restart
  <2> QED
    BY <1>t, <1>s, <1>u, <2>1, DoneIsWorker DEF Routed
<1>11. CASE NodeRestarts
  <2>1. /\ want' = NoJob /\ dirty' = FALSE /\ worker' = Done /\ last' = NoBody
        /\ seen' = seen /\ Upset
    BY <1>11 DEF NodeRestarts
  <2>2. ~NoJob["vrx"].active
    BY DEF NoJob, Released, Resources
  <2> QED
    BY <1>t, <1>s, <1>u, <2>1, <2>2, DoneIsWorker DEF Routed
<1>12. CASE DashPolls
  <2>1. UNCHANGED <<nmosVars, upsets, alone>> /\ seen' \in Configs
    BY <1>12, <1>c DEF DashPolls, StatusConfig
  <2> QED
    BY <1>t, <1>s, <2>1 DEF Routed, nmosVars
<1>13. CASE DashSaves \/ DashStartsOrStops
  <2>1. UNCHANGED <<nmosVars, seen>> /\ Upset
    BY <1>13 DEF DashSaves, DashStartsOrStops
  <2> QED
    BY <1>t, <1>s, <1>u, <2>1 DEF Routed, nmosVars
<1>14. CASE UNCHANGED vars
  BY <1>t, <1>s, <1>14 DEF vars, nmosVars, Routed
<1> QED
  BY <1>1, <1>2, <1>3, <1>4, <1>5, <1>6, <1>7, <1>8, <1>9, <1>10, <1>11, <1>12, <1>13, <1>14
     DEF NmosNext, WorkerStep
-----------------------------------------------------------------------------
(* What the worker believes *)

\* While nobody interferes the worker holds the lock, or the engine is as it was started:
\* a handler has nothing to reap.
LEMMA NothingToReap ==
  ASSUME IInv, Believed, ~held
  PROVE  Reaped = d /\ ProcsReaped = procs /\ (Running <=> d.state = "RUNNING")
<1>1. ~ReapDue
  BY DEF ReapDue, Believed, Alive, Exited
<1> QED
  BY <1>1 DEF Reaped, ProcsReaped, Running

LEMMA BelievedNext ==
  ASSUME IInv, IInv', RouteInv, [NmosNext]_vars, alone'
  PROVE  Believed' /\ (dirty' \/ Serving')
<1>d. DataOK /\ Believed /\ (dirty \/ Serving) /\ alone
  <2>1. alone
    BY DEF NmosNext, WorkerStep, Activate, Take, WorkerReads, WorkerStops, WorkerConfigures,
           WorkerStarts, WorkerReadFails, WorkerFails, DaemonStops, Engine, Restart,
           NodeRestarts, DashPolls, DashSaves, DashStartsOrStops, Upset, vars
  <2> QED
    BY <2>1 DEF RouteInv
<1>t. /\ worker \in Workers /\ last \in Bodies \cup {NoBody} /\ NoBody \notin Bodies
      /\ d \in DType /\ procs \in [Pids -> Procs]
  BY <1>d, NmosAssumption DEF DataOK, Bodies, IInv, Agree
\* The daemon and what the node knows of it are as before.
<1>s. ASSUME UNCHANGED <<held, last, worker>>, d'.state = d.state, d'.pid = d.pid,
             d'.config = d.config, ~held => procs' = procs
      PROVE  Believed'
  BY <1>d, <1>s DEF Believed, Alive
<1>n. ~Upset
  BY DEF Upset
<1>1. ASSUME NEW r \in Resources, Activate(r) PROVE Believed' /\ dirty'
  <2>1. UNCHANGED <<daemonVars, worker, last>> /\ dirty'
    BY <1>1 DEF Activate
  <2> QED
    BY <1>s, <2>1 DEF daemonVars
<1>2. CASE Take
  <2>1. UNCHANGED <<d, procs, held, want, last>> /\ worker.pc = "idle" /\ ~dirty'
    BY <1>2 DEF Take, daemonVars
  <2>2. /\ worker'.pc \in {"idle", "get", "release"}
        /\ worker'.pc = "idle" => ~want["vrx"].active /\ last = NoBody
        /\ worker'.pc = "get" => worker'.job = want
        /\ worker'.pc = "release" => ~want["vrx"].active
    <3>1. CASE want["vrx"].active
      <4>1. worker' = [pc |-> "get", job |-> want, body |-> NoBody]
        BY <1>2, <3>1 DEF Take
      <4> QED
        BY <4>1
    <3>2. CASE ~want["vrx"].active
      <4>1. worker' = IF last = NoBody THEN Done ELSE [Done EXCEPT !.pc = "release"]
        BY <1>2, <3>2 DEF Take
      <4> QED
        BY <3>2, <4>1 DEF Done
    <3> QED
      BY <3>1, <3>2
  <2>3. Believed'
    BY <1>d, <2>1, <2>2 DEF Believed, Alive
  <2>4. Serving'
    BY <2>1, <2>2 DEF Serving
  <2> QED
    BY <2>3, <2>4
<1>3. CASE WorkerReads
  <2>1. /\ worker.pc = "get" /\ GetStatus /\ BodyReady(d.config)
        /\ UNCHANGED <<want, dirty, last>>
    BY <1>3 DEF WorkerReads, StatusConfig
  <2>2. ~held /\ UNCHANGED <<procs, held>> /\ d'.state = d.state /\ d'.config = d.config
        /\ d'.pid = d.pid
    <3>1. ~held /\ held' = held
      BY <2>1 DEF GetStatus, Handler
    <3>2. d' \in {d, [d EXCEPT !.stats = ParseStats]} /\ procs' = procs
      BY <1>d, <2>1, <3>1, NothingToReap DEF GetStatus, Handler
    <3> QED
      BY <1>t, <3>1, <3>2 DEF DType
  <2>3. d.config \in Bodies
    BY <1>t, ConfigsAreBodies DEF DType
  <2> DEFINE b == Overlay(d.config, worker.job)
  <2>4. /\ b \in Bodies
        /\ \/ worker' = Done /\ b = last
           \/ worker'.pc = "stop" /\ worker'.body = b
    BY <1>d, <2>1, <2>3, BodyMade
  <2>5. Believed'
    BY <1>d, <2>1, <2>2, <2>4, DoneIsWorker DEF Believed, Alive
  <2>6. ASSUME ~dirty PROVE Serving'
    <3>1. worker.job = want /\ want["vrx"].active
      BY <1>d, <2>1, <2>6 DEF Serving, DataOK
    <3>2. b = Overlay(b, want)
      BY <2>3, <3>1, OverlayAgain
    <3> QED
      BY <1>t, <2>1, <2>4, <3>1, <3>2, DoneIsWorker DEF Serving
  <2> QED
    BY <2>1, <2>5, <2>6
\* The worker's stop is answered: nothing runs.
<1>p. ASSUME worker.pc \in {"stop", "stopping", "release", "releasing"}, Stopped(worker.pc),
             UNCHANGED <<want, dirty>>, ~held', d'.state # "RUNNING"
      PROVE  Believed' /\ (dirty' \/ Serving')
  <2>1. CASE worker.pc \in {"release", "releasing"}
    <3>1. worker' = Done /\ last' = NoBody
      BY <1>p, <2>1 DEF Stopped, LastAfterRelease
    <3>2. Believed'
      BY <1>p, <3>1, DoneIsWorker DEF Believed
    <3>3. ~dirty => Serving'
      BY <1>d, <1>p, <2>1, <3>1, DoneIsWorker DEF Serving
    <3> QED
      BY <1>p, <3>2, <3>3
  <2>2. CASE worker.pc \in {"stop", "stopping"}
    <3>1. worker'.pc = "config" /\ worker'.body = worker.body
      BY <1>t, <1>p, <2>2 DEF Stopped, Goto, Workers
    <3>2. Believed'
      BY <1>p, <3>1 DEF Believed
    <3>3. ~dirty => Serving'
      BY <1>d, <1>p, <2>2, <3>1 DEF Serving
    <3> QED
      BY <1>p, <3>2, <3>3
  <2> QED
    BY <1>p, <2>1, <2>2
<1>4. CASE WorkerStops
  <2>1. UNCHANGED <<want, dirty>> /\ worker.pc \in {"stop", "release"}
    BY <1>4 DEF WorkerStops
  <2>2. CASE StopRefused /\ Stopped(worker.pc)
    <3>1. ~held /\ ~held'
      BY <2>2 DEF StopRefused, Handler
    <3>2. d'.state # "RUNNING"
      BY <1>d, <2>2, <3>1, NothingToReap DEF StopRefused, Handler
    <3> QED
      BY <1>p, <2>1, <2>2, <3>1, <3>2
  <2>3. CASE /\ StopSignals /\ UNCHANGED last
             /\ Goto(IF worker.pc = "stop" THEN "stopping" ELSE "releasing")
    <3>1. held' /\ d' = d
      BY <2>3 DEF StopSignals
    <3>2. /\ worker'.body = worker.body
          /\ worker'.pc = IF worker.pc = "stop" THEN "stopping" ELSE "releasing"
      BY <1>t, <2>3 DEF Goto, Workers
    <3>3. Believed'
      BY <2>1, <3>1, <3>2 DEF Believed
    <3>4. ~dirty => Serving'
      BY <1>d, <2>1, <3>2 DEF Serving
    <3> QED
      BY <2>1, <3>3, <3>4
  <2> QED
    BY <1>4, <2>2, <2>3 DEF WorkerStops
<1>5. CASE WorkerConfigures
  <2>1. /\ UNCHANGED <<want, dirty>> /\ worker.pc = "config"
        /\ SetConfig(Parsed(worker.body)) /\ Goto("start")
    BY <1>5 DEF WorkerConfigures
  <2>2. worker'.pc = "start" /\ worker'.body = worker.body
    BY <1>t, <2>1 DEF Goto, Workers
  <2>3. ~held /\ ~held' /\ d.state # "RUNNING"
    BY <1>d, <2>1 DEF SetConfig, Handler, Believed
  <2>4. d' = [d EXCEPT !.config = Parsed(worker.body)]
    BY <1>d, <2>1, <2>3, NothingToReap DEF SetConfig, Handler, ConfigAfter
  <2>5. d'.state # "RUNNING" /\ d'.config = Parsed(worker.body)
    BY <1>t, <2>3, <2>4 DEF DType
  <2>6. Believed'
    BY <2>2, <2>3, <2>5 DEF Believed
  <2>7. ~dirty => Serving'
    BY <1>d, <2>1, <2>2 DEF Serving
  <2> QED
    BY <2>1, <2>6, <2>7
<1>6. CASE WorkerStarts
  <2>1. /\ UNCHANGED <<want, dirty>> /\ worker.pc = "start" /\ worker' = Done
        /\ last' = worker.body /\ worker.body \in Bodies
    BY <1>6, <1>d DEF WorkerStarts, DataOK
  <2>2. d.state # "RUNNING" /\ d.config = Parsed(worker.body)
    BY <1>d, <2>1 DEF Believed
  <2>3. StartForks /\ ~held
    <3>1. ~held
      BY <1>6 DEF WorkerStarts, StartForks, StartRefused, Handler
    <3>2. ~Running
      BY <1>d, <2>2, <3>1, NothingToReap
    <3> QED
      BY <1>6, <3>1, <3>2 DEF WorkerStarts
  <2>4. PICK p \in Pids :
          /\ procs' = [procs EXCEPT ![p] = [NoProc EXCEPT !.st = "forked", !.cfg = d.config]]
          /\ d' = [d EXCEPT !.pid = p, !.state = "RUNNING", !.message = "started"]
          /\ ~held'
    <3>1. Reaped = d /\ ProcsReaped = procs
      BY <1>d, <2>3, NothingToReap
    <3>2. PICK p \in Pids :
            /\ procs' = [ProcsReaped EXCEPT ![p] =
                           [NoProc EXCEPT !.st = "forked", !.cfg = Reaped.config]]
            /\ d' = [Reaped EXCEPT !.pid = p, !.state = "RUNNING", !.message = "started"]
      BY <2>3 DEF StartForks, Handler
    <3>3. ~held'
      BY <2>3 DEF StartForks, Handler
    <3> QED
      BY <3>1, <3>2, <3>3
  <2>5. d'.pid = p /\ d'.state = "RUNNING" /\ d'.config = d.config
    BY <1>t, <2>4 DEF DType
  <2>6. procs'[p].st = "forked" /\ procs'[p].sig = "none"
    BY <1>t, <2>4 DEF NoProc
  <2>7. Believed'
    BY <1>t, <2>1, <2>2, <2>4, <2>5, <2>6, DoneIsWorker DEF Believed, Alive
  <2>8. ~dirty => Serving'
    BY <1>d, <1>t, <2>1, DoneIsWorker DEF Serving
  <2> QED
    BY <2>1, <2>7, <2>8
<1>7. CASE DaemonStops
  <2>1. StopContinues /\ StopAnswered /\ UNCHANGED <<want, dirty>> /\ held
    BY <1>7 DEF DaemonStops, StopContinues, StopPollMisses, StopKills, StopReaps
  <2>2. worker.pc \in {"stopping", "releasing"}
    BY <1>d, <2>1 DEF Believed
  <2>3. CASE StopReaps
    <3>1. ~held' /\ d'.state # "RUNNING"
      BY <1>t, <2>3 DEF StopReaps, DType
    <3> QED
      BY <1>p, <2>1, <2>2, <3>1 DEF StopAnswered
  <2>4. CASE StopPollMisses \/ StopKills
    <3>1. held' /\ d' = d /\ UNCHANGED <<worker, last>>
      BY <2>1, <2>4 DEF StopPollMisses, StopKills, StopAnswered
    <3> QED
      BY <1>d, <1>s, <2>1, <3>1 DEF Serving
  <2> QED
    BY <2>1, <2>3, <2>4 DEF StopContinues
<1>8. CASE Engine
  <2>1. UNCHANGED <<want, dirty, worker, last>> /\ EngineStep
        /\ \A p \in Pids : Alive(p) /\ ~Alive(p)' => procs[p].sig # "none"
    BY <1>8 DEF Engine, nmosVars
  <2>2. UNCHANGED <<d, held>> /\ \A p \in Pids : procs'[p].sig = procs[p].sig
    <3>1. PICK q \in Pids : ChildOpensLog(q) \/ ChildExecs(q) \/ EngineReports(q)
                               \/ EngineExits(q) \/ SignalEnds(q)
      BY <2>1 DEF EngineStep
    <3>2. UNCHANGED <<d, held>>
      BY <3>1 DEF ChildOpensLog, ChildExecs, EngineReports, EngineExits, SignalEnds
    <3>3. \A p \in Pids : procs'[p].sig = procs[p].sig
      BY <1>t, <3>1 DEF ChildOpensLog, ChildExecs, EngineReports, EngineExits, SignalEnds, Procs
    <3> QED
      BY <3>2, <3>3
  <2>3. d.state = "RUNNING" => d.pid \in Pids
    BY <1>t DEF IInv, Agree, DType
  <2>4. Believed'
    BY <1>d, <2>1, <2>2, <2>3 DEF Believed, Alive
  <2>5. ~dirty => Serving'
    BY <1>d, <2>1 DEF Serving
  <2> QED
    BY <2>1, <2>4, <2>5
<1>9. CASE DashPolls
  <2>1. UNCHANGED <<want, dirty, worker, last>> /\ GetStatus
    BY <1>9 DEF DashPolls, nmosVars
  <2>2. ~held /\ held' = held
    BY <2>1 DEF GetStatus, Handler
  <2>3. d' \in {d, [d EXCEPT !.stats = ParseStats]} /\ procs' = procs
    BY <1>d, <2>1, <2>2, NothingToReap DEF GetStatus, Handler
  <2>4. d'.state = d.state /\ d'.config = d.config /\ d'.pid = d.pid
    BY <1>t, <2>3 DEF DType
  <2>5. ~dirty => Serving'
    BY <1>d, <2>1 DEF Serving
  <2> QED
    BY <1>s, <2>1, <2>2, <2>3, <2>4, <2>5
<1>10. CASE UNCHANGED vars
  BY <1>d, <1>s, <1>10 DEF vars, nmosVars, daemonVars, Serving
<1> QED
  BY <1>n, <1>1, <1>2, <1>3, <1>4, <1>5, <1>6, <1>7, <1>8, <1>9, <1>10
     DEF NmosNext, WorkerStep, WorkerReadFails, WorkerFails, Restart, NodeRestarts, DashSaves,
         DashStartsOrStops
-----------------------------------------------------------------------------
(* The theorems *)

LEMMA NextRoute == IInv /\ RouteInv /\ [NmosNext]_vars => IInv' /\ RouteInv'
<1> SUFFICES ASSUME IInv, RouteInv, [NmosNext]_vars PROVE IInv' /\ RouteInv'
  OBVIOUS
<1>1. DataOK
  BY DEF RouteInv
<1>2. IInv'
  BY <1>1, NmosIsDaemon, NextIInv
<1>3. DataOK'
  BY <1>1, DataNext
<1>4. ASSUME alone' PROVE Believed' /\ (dirty' \/ Serving')
  BY <1>2, <1>4, BelievedNext
<1> QED
  BY <1>2, <1>3, <1>4 DEF RouteInv

LEMMA SpecRoute == NmosSpec => [](IInv /\ RouteInv)
<1>1. NmosInit => IInv
  BY InitIInv DEF NmosInit
<1> QED
  BY InitRoute, NextRoute, <1>1, PTL DEF NmosSpec

\* The composition is a behaviour of the daemon: node and dashboard reach g_state through its
\* handlers only, with configurations it can hold.
THEOREM NodeUsesDaemon == NmosSpec => Spec
<1>1. NmosInit => Init
  BY DEF NmosInit
<1>2. RouteInv /\ [NmosNext]_vars => [Next]_daemonVars
  BY NmosIsDaemon DEF RouteInv
<1> QED
  BY <1>1, <1>2, SpecRoute, PTL DEF NmosSpec, Spec

\* Two clients that do not know of each other never make the daemon run two engines, or
\* forget one (start_locked, stop_locked, reap_locked).
THEOREM OneEngineForBoth == NmosSpec => []OneEngine
BY NodeUsesDaemon, OneEngineAlways, PTL

\* Whoever stops the engine, the last statistics it wrote are the ones shown.
THEOREM StatsFinalForBoth == NmosSpec => []FinalStats
BY NodeUsesDaemon, StatsAreFinal, PTL

\* Seen through both clients the daemon is still a host with one slot.
THEOREM HostForBoth == NmosSpec => ImplementsHost
BY NodeUsesDaemon, DaemonImplementsHost, PTL

\* Every variable of the composition keeps its type: in particular the worker never posts a
\* configuration the daemon cannot hold.
THEOREM NmosTypeCorrect == NmosSpec => []NmosTypeOK
<1>1. IInv /\ RouteInv => NmosTypeOK
  BY IInvMeans DEF RouteInv, DataOK, NmosTypeOK, Connections, Bodies, Workers, PCs
<1> QED
  BY <1>1, SpecRoute, PTL

\* However activations and releases fall into the reconciles, the worker comes to rest with
\* the engine running the route of the last activation, or stopped after a release
\* (EngineController::run, reconcile: dirty_, last_applied_).
THEOREM RouteAlwaysApplied == NmosSpec => []RouteApplied
<1>1. ASSUME IInv, RouteInv, Settled
      PROVE  IF want["vrx"].active
             THEN d.state = "RUNNING" /\ d.config = Overlay(d.config, want)
             ELSE d.state # "RUNNING"
  <2>1. /\ DataOK /\ Believed /\ Serving /\ worker.pc = "idle"
    BY <1>1 DEF RouteInv, Settled
  <2>2. CASE want["vrx"].active
    <3>1. last \in Bodies /\ last = Overlay(last, want)
      BY <2>1, <2>2 DEF Serving, DataOK
    <3>2. d.state = "RUNNING" /\ d.config = Parsed(last)
      BY <2>1, <2>2 DEF Believed, Serving
    <3> QED
      BY <2>2, <3>1, <3>2, OverlayParsed
  <2>3. CASE ~want["vrx"].active
    BY <2>1, <2>3 DEF Believed, Serving
  <2> QED
    BY <2>2, <2>3
<1>2. IInv /\ RouteInv => RouteApplied
  BY <1>1 DEF RouteApplied
<1> QED
  BY <1>2, SpecRoute, PTL
=============================================================================
