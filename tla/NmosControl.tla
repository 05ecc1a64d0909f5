---------------------------- MODULE NmosControl ----------------------------
(***************************************************************************)
(* Two clients of the daemon that do not know of each other.               *)
(*                                                                         *)
(* The NMOS node (control/nmos/spark_node.cpp): IS-05 activations leave    *)
(* the wanted route with EngineController, whose worker thread reads the   *)
(* daemon's configuration, overlays the route, and cycles the engine with  *)
(* three HTTP requests: stop, config, start.  Each one is a step of its    *)
(* own, answers are not looked at, and an exception ends the reconcile.    *)
(* The dashboard (web/app.js): the operator's page, which replaces the     *)
(* whole configuration, and starts and stops the engine.                   *)
(*                                                                         *)
(* A configuration is reduced to the operator's choices and to the route:  *)
(* the video source, the input format of its SDP, and one group per other  *)
(* leg (audio receiver, video sender, audio sender).                       *)
(*                                                                         *)
(* An operator Bug... is a wrong variant of the operator after it.         *)
(***************************************************************************)
EXTENDS ControlDaemon

CONSTANTS Choices,   \* what an operator may choose (output size, FRC, ...)
          Unset,     \* protobuf defaults: no choice
          Bare,      \* no choices in a body built without the daemon's status
          Groups,    \* multicast groups
          NoGroup,   \* the empty group
          FormatOf,  \* input format in the SDP of a source; NoFormat: width 0
          NoFormat,
          Legs,      \* of "arx", "vtx", "atx": the connections besides video rx
          NoBody,    \* the empty last_applied_
          MaxUpsets  \* bound: failed requests, daemon restarts, changes the
                     \* dashboard makes

Settings(choices) ==
  [choices : choices, src : Groups \cup {NoGroup},
   fmt : {FormatOf[g] : g \in Groups} \cup {NoFormat},
   legs : [Legs -> Groups \cup {NoGroup}]]

ASSUME NmosAssumption ==
  /\ Configs = Settings(Choices \cup {Unset})
  /\ Default.choices \in Choices
  /\ NoGroup \notin Groups
  /\ Legs \subseteq {"arx", "vtx", "atx"}
  /\ NoBody \notin Settings(Choices \cup {Unset, Bare})
  /\ MaxUpsets \in Nat

VARIABLES want,   \* vrx_, arx_, vtx_, atx_ under mu_
          dirty,  \* dirty_
          worker, \* the worker thread: pc, the copies it took, the body
          last,   \* last_applied_
          seen,   \* lastConfig of the dashboard
          upsets, \* failures and changes by others so far
          alone   \* nothing but the worker has changed the daemon's state

nmosVars == <<want, dirty, worker, last>>
vars == <<daemonVars, nmosVars, seen, upsets, alone>>
-----------------------------------------------------------------------------
Resources == {"vrx"} \cup Legs
Released == [active |-> FALSE, group |-> NoGroup]
NoJob == [r \in Resources |-> Released]

\* The worker waits for work.
Done == [pc |-> "idle", job |-> NoJob, body |-> NoBody]

NmosInit ==
  /\ Init
  /\ want = NoJob
  /\ dirty = FALSE
  /\ worker = Done
  /\ last = NoBody
  /\ seen = Default
  /\ upsets = 0
  /\ alone = TRUE

\* An IS-05 activation, also one that repeats the current parameters: a
\* connection to a group, or a release.  A sender released by master_enable
\* alone keeps its transport parameters (nobody reads a released receiver's).
Activate(r) ==
  /\ \/ \E g \in Groups : want' = [want EXCEPT ![r] = [active |-> TRUE, group |-> g]]
     \/ want' = [want EXCEPT ![r] = Released]
     \/ r \in {"vtx", "atx"} /\ want' = [want EXCEPT ![r].active = FALSE]
  /\ dirty' = TRUE
  /\ UNCHANGED <<daemonVars, worker, last, seen, upsets, alone>>
-----------------------------------------------------------------------------
(* EngineController::run and reconcile *)

\* Something the worker does not expect.
Upset ==
  /\ upsets < MaxUpsets
  /\ upsets' = upsets + 1
  /\ alone' = FALSE

\* The group a leg's configuration fields get.
LegGroup(r, c) == IF r = "arx" /\ ~c.active THEN NoGroup ELSE c.group

\* The route written over configuration c.
Overlay(c, job) ==
  [c EXCEPT !.src = job["vrx"].group,
            !.fmt = IF FormatOf[job["vrx"].group] # NoFormat
                    THEN FormatOf[job["vrx"].group] ELSE c.fmt,
            !.legs = [r \in Legs |-> LegGroup(r, job[r])]]

\* current_config() when the daemon cannot be reached.
EmptyConfig == [choices |-> Bare, src |-> NoGroup, fmt |-> NoFormat,
                legs |-> [r \in Legs |-> NoGroup]]

\* What the daemon parses out of a body: an absent field is the default.
Parsed(body) == IF body.choices = Bare THEN [body EXCEPT !.choices = Unset] ELSE body

Goto(pc) == worker' = [worker EXCEPT !.pc = pc]

BugPending == dirty /\ (want["vrx"].active <=> last = NoBody)
Pending == dirty

\* run(): takes a copy of the connections; reconcile: is there work at all?
Take ==
  /\ worker.pc = "idle" /\ Pending
  /\ dirty' = FALSE
  /\ worker' = IF want["vrx"].active
               THEN [pc |-> "get", job |-> want, body |-> NoBody]
               ELSE IF last = NoBody THEN Done ELSE [Done EXCEPT !.pc = "release"]
  /\ UNCHANGED <<daemonVars, want, last, seen, upsets, alone>>

\* current_config: GET /api/status; then the body, and "already running with
\* this exact config".
BodyReady(c) ==
  LET body == Overlay(c, worker.job) IN
  IF body = last THEN worker' = Done
  ELSE worker' = [pc |-> "stop", job |-> NoJob, body |-> body]

WorkerReads ==
  /\ worker.pc = "get"
  /\ GetStatus
  /\ BodyReady(StatusConfig)
  /\ UNCHANGED <<want, dirty, last, seen, upsets, alone>>

WorkerReadFails ==
  /\ worker.pc = "get"
  /\ Upset
  /\ BodyReady(EmptyConfig)
  /\ UNCHANGED <<daemonVars, want, dirty, last, seen>>

BugLastAfterRelease == last
LastAfterRelease == NoBody

\* The stop was answered: on with the next request, or the release is done.
Stopped(pc) ==
  IF pc \in {"release", "releasing"}
  THEN worker' = Done /\ last' = LastAfterRelease
  ELSE Goto("config") /\ UNCHANGED last

\* POST /api/stop.
WorkerStops ==
  /\ worker.pc \in {"stop", "release"}
  /\ \/ StopRefused /\ Stopped(worker.pc)
     \/ /\ StopSignals
        /\ Goto(IF worker.pc = "stop" THEN "stopping" ELSE "releasing")
        /\ UNCHANGED last
  /\ UNCHANGED <<want, dirty, seen, upsets, alone>>

\* POST /api/config.
WorkerConfigures ==
  /\ worker.pc = "config"
  /\ SetConfig(Parsed(worker.body))
  /\ Goto("start")
  /\ UNCHANGED <<want, dirty, last, seen, upsets, alone>>

\* POST /api/start; fork() may fail.
WorkerStarts ==
  /\ worker.pc = "start"
  /\ \/ StartForks /\ UNCHANGED alone
     \/ StartRefused /\ alone' = (alone /\ Running)
  /\ worker' = Done
  /\ last' = worker.body
  /\ UNCHANGED <<want, dirty, seen, upsets>>

\* A POST throws: it never reached the daemon, or its answer was lost.
WorkerFails ==
  /\ Upset
  /\ \/ worker.pc \in {"stop", "release", "config", "start", "stopping", "releasing"}
        /\ UNCHANGED daemonVars
     \/ worker.pc \in {"stop", "release"} /\ StopRefused
     \/ worker.pc = "config" /\ SetConfig(Parsed(worker.body))
     \/ worker.pc = "start" /\ Start
  /\ worker' = Done
  /\ UNCHANGED <<want, dirty, last, seen>>

\* The Stop in progress goes on; its end is the worker's answer if it is its.
StopAnswered ==
  IF worker.pc \in {"stopping", "releasing"} /\ ~held'
  THEN Stopped(worker.pc) ELSE UNCHANGED <<worker, last>>
DaemonStops ==
  /\ StopContinues
  /\ StopAnswered
  /\ UNCHANGED <<want, dirty, seen, upsets, alone>>
-----------------------------------------------------------------------------
(* The dashboard and the rest of the world *)

\* The page polls GET /api/status every second.
DashPolls ==
  /\ GetStatus
  /\ seen' = StatusConfig
  /\ UNCHANGED <<nmosVars, upsets, alone>>

\* The operator posts the configuration the page knows with new choices.
DashSaves ==
  /\ Upset
  /\ \E c \in Choices : SetConfig([seen EXCEPT !.choices = c])
  /\ UNCHANGED <<nmosVars, seen>>

DashStartsOrStops ==
  /\ Upset
  /\ Start \/ StopRefused \/ StopSignals
  /\ UNCHANGED <<nmosVars, seen>>

\* The child processes.  An engine that ends unasked is news to nobody.
Engine ==
  /\ EngineStep
  /\ alone' = (alone /\ \A p \in Pids : Alive(p) /\ ~Alive(p)' => procs[p].sig # "none")
  /\ UNCHANGED <<nmosVars, seen, upsets>>

\* The daemon is restarted; a request in progress throws.
Restart ==
  /\ Upset
  /\ DaemonRestarts
  /\ worker' = IF worker.pc \in {"stopping", "releasing"} THEN Done ELSE worker
  /\ UNCHANGED <<want, dirty, last, seen>>

\* The NMOS node is restarted: it knows neither route nor engine.
NodeRestarts ==
  /\ Upset
  /\ want' = NoJob /\ dirty' = FALSE /\ worker' = Done /\ last' = NoBody
  /\ UNCHANGED <<daemonVars, seen>>

WorkerStep == Take \/ WorkerReads \/ WorkerStops \/ WorkerConfigures \/ WorkerStarts

NmosNext ==
  \/ \E r \in Resources : Activate(r)
  \/ WorkerStep \/ WorkerReadFails \/ WorkerFails
  \/ DaemonStops \/ Engine \/ Restart \/ NodeRestarts
  \/ DashPolls \/ DashSaves \/ DashStartsOrStops

NmosSpec == NmosInit /\ [][NmosNext]_vars
-----------------------------------------------------------------------------
(* Properties *)

NmosTypeOK ==
  /\ TypeOK
  /\ want \in [Resources -> [active : BOOLEAN, group : Groups \cup {NoGroup}]]
  /\ dirty \in BOOLEAN /\ alone \in BOOLEAN
  /\ worker.pc \in {"idle", "get", "stop", "stopping", "release", "releasing",
                    "config", "start"}
  /\ worker.job \in [Resources -> [active : BOOLEAN, group : Groups \cup {NoGroup}]]
  /\ {worker.body, last} \subseteq
       {NoBody} \cup Settings(Choices \cup {Unset, Bare})
  /\ seen \in Configs
  /\ upsets \in 0 .. MaxUpsets

\* The worker has nothing left to do and nobody else interfered.
Settled == worker.pc = "idle" /\ ~dirty /\ alone

\* Activations that come in any order and at any moment of a reconcile end in
\* the engine running the route of the last ones, or stopped once the video
\* receiver is released (dirty_, last_applied_ and the three requests).
RouteApplied ==
  Settled => IF want["vrx"].active
             THEN d.state = "RUNNING" /\ d.config = Overlay(d.config, want)
             ELSE d.state # "RUNNING"

\* No activation is forgotten and every reconcile ends, also when requests
\* fail, the daemon restarts, or a Stop of the dashboard is in the way.
WorkerSettles ==
  /\ dirty ~> ~dirty
  /\ []<>(worker.pc = "idle")

\* Neither the daemon nor the worker is held up for good.
Settles == StopReturns /\ WorkerSettles

\* A mutex that is free again and again is granted to the worker at last.
NmosFairSpec ==
  /\ NmosSpec
  /\ SF_vars(WorkerStep)
  /\ WF_vars(DaemonStops)
  /\ \A p \in Pids : WF_vars(Engine /\ SignalEnds(p) /\ procs[p].sig = "kill")
=============================================================================
