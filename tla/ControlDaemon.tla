--------------------------- MODULE ControlDaemon ---------------------------
(***************************************************************************)
(* spark_controld (control/daemon.cpp): the daemon that holds the          *)
(* PipelineConfig and runs the engine as a child process.                  *)
(*                                                                         *)
(* gRPC threads, one HTTP thread per connection and their clients call     *)
(* GetStatus, SetConfig, Start and Stop; every handler runs under          *)
(* g_state.mu, so all but Stop are one step.  Stop keeps the mutex while   *)
(* it polls for the engine's exit, and the engine runs on meanwhile.  The  *)
(* child process is modelled from fork() to the waitpid() that reaps it.   *)
(*                                                                         *)
(* Abstracted: the content of a PipelineConfig, the statistics (a counter  *)
(* the engine writes to its log), uptime, the grandmaster poll.            *)
(*                                                                         *)
(* An operator Bug... is a wrong variant of the operator after it.         *)
(***************************************************************************)
EXTENDS Naturals

CONSTANTS Pids,     \* process ids fork() may return
          NoPid,    \* the -1 of State::pid
          Configs,  \* values of PipelineConfig
          Default,  \* the configuration set by State()
          MaxPolls, \* waitpid polls before SIGKILL (30 in the code)
          MaxStat   \* bound: reports an engine writes to the log

ASSUME DaemonAssumption ==
  /\ NoPid \notin Pids
  /\ Default \in Configs
  /\ MaxPolls \in Nat
  /\ MaxStat \in Nat

VARIABLES d,      \* g_state: state, pid, config, stats, message
          procs,  \* the child processes, by pid
          log,    \* what /tmp/spark_pipeline.log says
          held,   \* g_state.mu is held by a Stop between two steps
          polls   \* waitpid polls that Stop has done

daemonVars == <<d, procs, log, held, polls>>
-----------------------------------------------------------------------------
(* State and helpers *)

NoProc == [st |-> "none", cfg |-> Default, opened |-> FALSE,
           sig |-> "none", clean |-> FALSE]

\* State(): a daemon that has just started.
Fresh == [state |-> "STOPPED", pid |-> NoPid, config |-> Default,
          stats |-> 0, message |-> "idle"]

Init ==
  /\ d = Fresh
  /\ procs = [p \in Pids |-> NoProc]
  /\ log = 0
  /\ held = FALSE
  /\ polls = 0

\* parse_stats: the last value of each counter in the log.
ParseStats == log

\* waitpid(p) > 0, and the process table after that waitpid.
BugExited(p) == procs[p].st # "none"
Exited(p) == procs[p].st = "zombie"
WaitPid(p) == IF procs[p].st = "zombie" THEN [procs EXCEPT ![p] = NoProc] ELSE procs
Alive(p)  == procs[p].st \in {"forked", "ready", "running"}

ReapDue == d.state = "RUNNING" /\ d.pid # NoPid /\ Exited(d.pid)

\* reap_locked: g_state and the process table after it.
BugReapKeepsStats ==
  IF ReapDue
  THEN [d EXCEPT !.state = IF procs[d.pid].clean THEN "STOPPED" ELSE "ERRORED",
                 !.pid = NoPid, !.message = "exited"]
  ELSE d
Reaped ==
  IF ReapDue
  THEN [d EXCEPT !.state = IF procs[d.pid].clean THEN "STOPPED" ELSE "ERRORED",
                 !.pid = NoPid, !.stats = ParseStats, !.message = "exited"]
  ELSE d

ProcsReaped == IF ReapDue THEN WaitPid(d.pid) ELSE procs

Running == Reaped.state = "RUNNING"

\* A handler that takes the mutex, reaps and leaves g_state as g.
Handler(g) ==
  /\ ~held
  /\ d' = g
  /\ UNCHANGED <<log, held, polls>>
-----------------------------------------------------------------------------
(* Requests *)

\* GetStatus, GET /api/status: build_status_locked.
GetStatus ==
  /\ Handler(IF Running THEN [Reaped EXCEPT !.stats = ParseStats] ELSE Reaped)
  /\ procs' = ProcsReaped

\* The PipelineConfig in the reply of GetStatus.
StatusConfig == d.config

\* SetConfig, POST /api/config: refused while running.
BugConfigAfter(c) == [Reaped EXCEPT !.config = c]
ConfigAfter(c) == IF Running THEN Reaped ELSE [Reaped EXCEPT !.config = c]
SetConfig(c) ==
  /\ Handler(ConfigAfter(c))
  /\ procs' = ProcsReaped

\* Start while running ("already running"), or fork() fails.
StartRefused ==
  /\ Handler(Reaped)
  /\ procs' = ProcsReaped

\* start_locked: fork a child that has the configuration of this moment.
StartForks ==
  /\ ~Running
  /\ \E p \in Pids :
       /\ ProcsReaped[p] = NoProc
       /\ procs' = [ProcsReaped EXCEPT ![p] =
                      [NoProc EXCEPT !.st = "forked", !.cfg = Reaped.config]]
       /\ Handler([Reaped EXCEPT !.pid = p, !.state = "RUNNING",
                           !.message = "started"])

Start == StartRefused \/ StartForks

\* stop_locked when nothing runs.
StopRefused ==
  /\ ~Running
  /\ Handler(Reaped)
  /\ procs' = ProcsReaped

\* stop_locked: SIGTERM, and the mutex stays held.
StopSignals ==
  /\ ~held /\ Running
  /\ procs' = [procs EXCEPT ![d.pid].sig = "term"]
  /\ held' = TRUE
  /\ polls' = 0
  /\ UNCHANGED <<d, log>>
-----------------------------------------------------------------------------
(* The rest of stop_locked, the mutex held *)

\* One poll finds the engine still there.
StopPollMisses ==
  /\ held /\ polls < MaxPolls
  /\ ~Exited(d.pid)
  /\ polls' = polls + 1
  /\ UNCHANGED <<d, procs, log, held>>

BugKillSignal == "term"
KillSignal == "kill"

\* After the last poll: SIGKILL, then a waitpid that blocks.
StopKills ==
  /\ held /\ polls = MaxPolls
  /\ procs[d.pid].sig # KillSignal
  /\ procs' = [procs EXCEPT ![d.pid].sig = KillSignal]
  /\ UNCHANGED <<d, log, held, polls>>

\* waitpid returns the engine, by a poll or after SIGKILL.
StopReaps ==
  /\ held
  /\ Exited(d.pid)
  /\ polls = MaxPolls => procs[d.pid].sig = KillSignal
  /\ d' = [d EXCEPT !.state = "STOPPED", !.pid = NoPid, !.stats = ParseStats,
                  !.message = "stopped"]
  /\ procs' = WaitPid(d.pid)
  /\ held' = FALSE
  /\ polls' = 0
  /\ UNCHANGED log

StopContinues == StopPollMisses \/ StopKills \/ StopReaps
-----------------------------------------------------------------------------
(* The child process *)

\* Child: open(kLog, O_TRUNC); a failed open leaves the old log alone.
ChildOpensLog(p) ==
  /\ procs[p].st = "forked"
  /\ \/ /\ procs' = [procs EXCEPT ![p].st = "ready", ![p].opened = TRUE]
        /\ log' = 0
     \/ /\ procs' = [procs EXCEPT ![p].st = "ready"]
        /\ UNCHANGED log
  /\ UNCHANGED <<d, held, polls>>

\* Child: execl; exit code 127 when it fails.
ChildExecs(p) ==
  /\ procs[p].st = "ready"
  /\ \/ procs' = [procs EXCEPT ![p].st = "running"]
     \/ procs' = [procs EXCEPT ![p].st = "zombie"]
  /\ UNCHANGED <<d, log, held, polls>>

\* The engine writes its counters.
EngineReports(p) ==
  /\ procs[p].st = "running" /\ procs[p].opened
  /\ log < MaxStat
  /\ log' = log + 1
  /\ UNCHANGED <<d, procs, held, polls>>

\* The engine ends by itself, with or without an error.
EngineExits(p) ==
  /\ procs[p].st = "running"
  /\ \E clean \in BOOLEAN :
       procs' = [procs EXCEPT ![p].st = "zombie", ![p].clean = clean]
  /\ UNCHANGED <<d, log, held, polls>>

\* SIGTERM or SIGKILL takes effect.  SIGTERM may be ignored.
SignalEnds(p) ==
  /\ Alive(p) /\ procs[p].sig # "none"
  /\ procs' = [procs EXCEPT ![p].st = "zombie"]
  /\ UNCHANGED <<d, log, held, polls>>

\* The daemon dies; systemd ends its control group and starts it again.
DaemonRestarts ==
  /\ d' = Fresh
  /\ procs' = [p \in Pids |-> NoProc]
  /\ held' = FALSE
  /\ polls' = 0
  /\ UNCHANGED log

EngineStep == \E p \in Pids : ChildOpensLog(p) \/ ChildExecs(p)
                \/ EngineReports(p) \/ EngineExits(p) \/ SignalEnds(p)
ClientStep == GetStatus \/ Start \/ StopRefused \/ StopSignals
                \/ \E c \in Configs : SetConfig(c)

Next == ClientStep \/ StopContinues \/ EngineStep \/ DaemonRestarts
Spec == Init /\ [][Next]_daemonVars
-----------------------------------------------------------------------------
(* Properties *)

States == {"STOPPED", "RUNNING", "ERRORED"}
Messages == {"idle", "started", "exited", "stopped"}
Procs == [st : {"none", "forked", "ready", "running", "zombie"},
          cfg : Configs, opened : BOOLEAN,
          sig : {"none", "term", "kill"}, clean : BOOLEAN]

TypeOK ==
  /\ d \in [state : States, pid : Pids \cup {NoPid}, config : Configs,
            stats : 0 .. MaxStat, message : Messages]
  /\ procs \in [Pids -> Procs]
  /\ log \in 0 .. MaxStat
  /\ held \in BOOLEAN
  /\ polls \in 0 .. MaxPolls

\* The only child that exists, dead or alive, is the one State::pid names, and
\* it exists exactly while the state is RUNNING: no engine is forgotten, none
\* is started beside another, and kill() and waitpid() never get a pid that
\* was already reaped (start_locked, stop_locked, reap_locked).
OneEngine ==
  /\ d.state = "RUNNING" <=> d.pid # NoPid
  /\ \A p \in Pids : procs[p] # NoProc <=> p = d.pid
  /\ held => d.state = "RUNNING"

\* While the state is RUNNING the configuration that GetStatus shows is the
\* one the engine was launched with, whoever posted configurations and
\* whenever the engine exited (the RUNNING check of SetConfig).
EngineRunsConfig ==
  d.state = "RUNNING" => procs[d.pid].cfg = d.config

\* Once an engine is gone, the statistics GetStatus shows are the last ones
\* that were written: nothing the engine reported before its exit is lost.
FinalStats ==
  d.state # "RUNNING" /\ d.message # "idle" => d.stats = log

\* The daemon implements the one-slot host.
LiveEngines == [p \in {q \in Pids : Alive(q)} |-> procs[p].cfg]
Host == INSTANCE EngineHost
          WITH Slots <- Pids, settings <- d.config, engines <- LiveEngines
ImplementsHost == Host!Spec

\* What the scheduling justifies: Stop's loop goes on, SIGKILL works.
StopFairness ==
  /\ WF_daemonVars(StopContinues)
  /\ \A p \in Pids :
       WF_daemonVars(SignalEnds(p) /\ procs[p].sig = "kill")
FairSpec == Spec /\ StopFairness

\* Stop gives the mutex back, even when the engine ignores SIGTERM: the
\* other handlers are never locked out for good.
StopReturns == held ~> ~held
=============================================================================
