------------------------------ MODULE Lifecycle ------------------------------
(***************************************************************************)
(* How the engine's programs come up and go down: compose() of each        *)
(* program, start() and stop() of the operators that own a NIC port, the   *)
(* ports' backends, the one DPDK environment (EAL) of the process, and the *)
(* threads that use a backend while another thread may shut it down.       *)
(*                                                                         *)
(* An operator is "rx" or "tx", and so is its port: the programs give the  *)
(* two operators different ports.  The framework is external: it starts    *)
(* every operator, runs compute() of one that is started, calls stop()     *)
(* when no compute() of it runs, also of operators whose peer failed to    *)
(* start, maybe of one that failed itself, and destroys them all in the    *)
(* end.                                                                    *)
(*                                                                         *)
(* An operator Bug... is a wrong variant of the operator after it.         *)
(***************************************************************************)
EXTENDS Integers

CONSTANT MaxCount \* bound: frames the receiver counts

Ops == {"rx", "tx"}

VARIABLES app,     \* the program
          eal,     \* the EAL: who brought it up, "none" or "cleaned"
          port,    \* of each operator: state and transmit queues
          backend, \* of each operator: exists, has its port, owns the EAL, has audio
          life,    \* of each operator
          thread,  \* the threads beside the scheduler's
          flag,    \* their stop flags
          work,    \* whether compute() of an operator runs
          ending,  \* the framework has begun to stop the operators
          count,   \* frames the receiver has completed
          line     \* the same in its last live line

lifeVars == <<app, eal, port, backend, life, thread, flag, work, ending, count, line>>

-----------------------------------------------------------------------------
(* The programs                                                            *)

\* What compose() makes: operators and their kinds, whether the receiver has a
\* poll thread (emit_frames), whether the EAL is shared, and for the transmitter
\* whether an audio group and a fixed latency are set.
Program(rx, tx, emit, shared, audio, fixed) ==
  [rx |-> rx, tx |-> tx, emit |-> emit, shared |-> shared, audio |-> audio, fixed |-> fixed]

\* Audio needs groups on both sides and a fixed latency.
Pipelines ==
  {Program("video", "video", TRUE, TRUE, audio /\ fixed, fixed) : audio, fixed \in BOOLEAN}
Loopback         == Program("video", "video", FALSE, TRUE, FALSE, FALSE)
Passthrough      == Program("video", "video", TRUE, TRUE, FALSE, FALSE)
AudioPassthrough == Program("audio", "audio", TRUE, TRUE, FALSE, FALSE)
TxSmoke          == Program("none", "video", FALSE, FALSE, FALSE, FALSE)
RxSmoke          == Program("video", "none", FALSE, FALSE, FALSE, FALSE)
Programs == Pipelines \cup {Loopback, Passthrough, AudioPassthrough, TxSmoke, RxSmoke}

LifeInit ==
  /\ app \in Programs
  /\ eal = "none"
  /\ port = [o \in Ops |-> [state |-> "down", queues |-> 0]]
  /\ backend = [o \in Ops |-> [on |-> FALSE, port |-> FALSE, eal |-> FALSE, audio |-> FALSE]]
  /\ life = [o \in Ops |-> IF app[o] = "none" THEN "gone" ELSE "composing"]
  /\ thread = [t \in {"poll", "stats", "audio"} |-> "none"]
  /\ flag = [t \in {"poll", "stats", "audio"} |-> FALSE]
  /\ work = [o \in Ops |-> FALSE]
  /\ ending = FALSE /\ count = 0 /\ line = 0

Up == eal \in {"process", "rx", "tx"}

\* compose() brings a shared EAL up before any operator starts; when that throws
\* the program ends without operators.
Compose ==
  /\ \E o \in Ops : life[o] = "composing"
  /\ \/ /\ eal' = IF app.shared THEN "process" ELSE eal
        /\ life' = [o \in Ops |-> IF life[o] = "composing" THEN "new" ELSE life[o]]
     \/ /\ app.shared /\ eal' = eal
        /\ life' = [o \in Ops |-> "gone"]
  /\ UNCHANGED <<app, port, backend, thread, flag, work, ending, count, line>>

-----------------------------------------------------------------------------
(* start()                                                                 *)

\* How far init() of a backend gets before it throws: nowhere, to the EAL of
\* its own, to its port, to a configured port, to a running one (the receiver
\* still has flow rules to install), or to the end.
Reached(o) ==
  {"nothing", "done"} \cup {"port", "configured"}
    \cup (IF app.shared THEN {} ELSE {"eal"}) \cup (IF o = "rx" THEN {"up"} ELSE {})

PortAfter(at) ==
  CASE at \in {"up", "done"} -> "up" [] at = "configured" -> "configured" [] OTHER -> "down"

BugOwnsEal(at) == at # "nothing"  \* a bug: a backend cleans up the shared EAL too
OwnsEal(at) == ~app.shared /\ at # "nothing"

\* With audio the transmitter configures two queues, or one if the card refuses
\* two; the second queue may still fail to come up.
Queues(o, at, wanted) ==
  IF o = "rx" \/ PortAfter(at) = "down" THEN {0} ELSE IF wanted THEN {1, 2} ELSE {1}

\* The threads that start() of an operator makes, after init().
Threads(o, audio_ready) ==
  CASE o = "rx" -> IF app.emit THEN {"poll"} ELSE {}
    [] o = "tx" /\ app.tx = "video" ->
         {"stats"} \cup (IF app.audio /\ app.fixed /\ audio_ready THEN {"audio"} ELSE {})
    [] OTHER -> {}

\* init() with a shared EAL that is not up, or with one of its own when there is
\* one already, throws at once.
Start(o, at) ==
  /\ life[o] = "new" /\ ~ending
  /\ at \in Reached(o) /\ (at # "nothing" => IF app.shared THEN Up ELSE ~Up)
  /\ \E n \in Queues(o, at, app.audio) :
       /\ port' = [port EXCEPT ![o] = [state |-> PortAfter(at), queues |-> n]]
       /\ backend' = [backend EXCEPT ![o] =
                        [on |-> TRUE, port |-> at \in {"port", "configured", "up", "done"},
                         eal |-> OwnsEal(at), audio |-> n = 2]]
       /\ thread' = IF at # "done" THEN thread
                    ELSE [t \in DOMAIN thread |->
                            IF t \in Threads(o, n = 2) THEN "ready" ELSE thread[t]]
  /\ eal' = IF ~app.shared /\ at # "nothing" THEN o ELSE eal
  /\ life' = [life EXCEPT ![o] = IF at = "done" THEN "started" ELSE "failed"]
  /\ ending' = (at # "done")
  /\ UNCHANGED <<app, flag, work, count, line>>

-----------------------------------------------------------------------------
(* The threads: each turn of a loop uses the backend.                      *)

Owner(t) == IF t = "poll" THEN "rx" ELSE "tx"

Begins(t) ==
  /\ thread[t] = "ready" /\ ~flag[t]
  /\ thread' = [thread EXCEPT ![t] = "busy"]
  /\ UNCHANGED <<app, eal, port, backend, life, flag, work, ending, count, line>>
Ends(t, counted) ==
  /\ thread[t] = "busy"
  /\ thread' = [thread EXCEPT ![t] = "ready"]
  /\ count' = counted
  /\ UNCHANGED <<app, eal, port, backend, life, flag, work, ending, line>>
Leaves_(t) ==
  /\ thread[t] = "ready" /\ flag[t]
  /\ thread' = [thread EXCEPT ![t] = "left"]
  /\ UNCHANGED <<app, eal, port, backend, life, flag, work, ending, count, line>>

\* A burst from the NIC, which may complete a frame.
PollTurn ==
  \/ Begins("poll") \/ Leaves_("poll")
  \/ \E n \in 0 .. 1 : count + n <= MaxCount /\ Ends("poll", count + n)
\* Once a second the counters of the NIC.
StatsTurn == Begins("stats") \/ Ends("stats", count) \/ Leaves_("stats")
\* A packet from the bridge, held until it is due and submitted to the second queue.
AudioTurn == Begins("audio") \/ Ends("audio", count) \/ Leaves_("audio")

-----------------------------------------------------------------------------
(* compute() on a thread of the scheduler                                  *)

\* The video receiver writes its counters into live lines.
HasLine(o) == o = "rx" /\ app.rx = "video"

\* Transmission of a frame, or the poll loop of a receiver without a thread of its
\* own; a live line may be due.
ComputeBegins(o) ==
  /\ life[o] = "started" /\ ~work[o] /\ ~ending
  /\ work' = [work EXCEPT ![o] = TRUE]
  /\ line' \in IF HasLine(o) THEN {line, count} ELSE {line}
  /\ UNCHANGED <<app, eal, port, backend, life, thread, flag, ending, count>>
ComputeEnds(o) ==
  /\ work[o]
  /\ work' = [work EXCEPT ![o] = FALSE]
  /\ count' \in IF o = "rx" /\ ~app.emit THEN {count, MaxCount} ELSE {count}
  /\ UNCHANGED <<app, eal, port, backend, life, thread, flag, ending, line>>

\* compute() that touches the NIC itself.
OnNic(o) == work[o] /\ (o = "tx" \/ ~app.emit)

-----------------------------------------------------------------------------
(* stop()                                                                  *)

\* The last frame, the time limit or a signal.
Finish ==
  /\ ~ending /\ \A o \in Ops : life[o] \in {"started", "gone"}
  /\ \E o \in Ops : life[o] = "started"
  /\ ending' = TRUE
  /\ UNCHANGED <<app, eal, port, backend, life, thread, flag, work, count, line>>

BugOwn(o) == IF o = "rx" THEN {} ELSE {"audio", "stats"}  \* a bug: the poll thread is forgotten
Own(o) == IF o = "rx" THEN {"poll"} ELSE {"audio", "stats"}

\* stop() sets the flags of the operator's threads ...
Stop_(o) ==
  /\ ending /\ life[o] \in {"started", "failed"} /\ ~work[o]
  /\ flag' = [t \in DOMAIN flag |-> flag[t] \/ t \in Own(o)]
  /\ life' = [life EXCEPT ![o] = "stopping"]
  /\ UNCHANGED <<app, eal, port, backend, thread, work, ending, count, line>>

\* ... waits for them ...
BugJoined(o) == o = "tx" => thread["audio"] \notin {"ready", "busy"}  \* a bug: only the relay is joined
Joined(o) == \A t \in Own(o) : thread[t] \notin {"ready", "busy"}

\* ... and shuts the backend down: the port is stopped and closed, and an EAL of
\* its own cleaned up.
Shutdown(o) ==
  /\ port' = IF backend[o].port THEN [port EXCEPT ![o].state = "closed"] ELSE port
  /\ eal' = IF backend[o].eal THEN "cleaned" ELSE eal
  /\ backend' = [backend EXCEPT ![o] = [on |-> FALSE, port |-> FALSE, eal |-> FALSE, audio |-> FALSE]]

\* A last live line tells the daemon the values at the end of the run.
Stopped(o) ==
  /\ life[o] = "stopping" /\ Joined(o)
  /\ line' = IF HasLine(o) THEN count ELSE line
  /\ Shutdown(o)
  /\ life' = [life EXCEPT ![o] = "stopped"]
  /\ UNCHANGED <<app, thread, flag, work, ending, count>>

\* The operator goes; ~DpdkTxBackend and ~DpdkRxBackend shut down what stop() has
\* not.
Destroy(o) ==
  /\ ending /\ life[o] \in {"new", "failed", "stopped"}
  /\ \A p \in Ops : life[p] \notin {"started", "stopping"}
  /\ Shutdown(o)
  /\ life' = [life EXCEPT ![o] = "gone"]
  /\ UNCHANGED <<app, thread, flag, work, ending, count, line>>

LifeNext ==
  \/ Compose \/ Finish \/ PollTurn \/ StatsTurn \/ AudioTurn
  \/ \E o \in Ops : \/ \E at \in Reached(o) : Start(o, at)
                    \/ ComputeBegins(o) \/ ComputeEnds(o)
                    \/ Stop_(o) \/ Stopped(o) \/ Destroy(o)

\* What the fairness of a program is about: loops look at their flags again, frames
\* get sent, and the framework carries through what it has begun.
TurnEnds(t) == Ends(t, count) \/ Leaves_(t)
GoesOn(o) == ComputeEnds(o) \/ Stop_(o) \/ Stopped(o) \/ Destroy(o)

-----------------------------------------------------------------------------
\* Whatever fails to start and whenever the program ends: a thread or compute()
\* only ever uses a backend that exists, with a running port and a live EAL (the
\* relay, with a second queue); nobody cleans up an EAL under a running port; no
\* operator goes while a thread of it runs; and the last live line of a receiver
\* has its final counters.
BackendsSafe ==
  LET usable(o) == backend[o].on /\ port[o].state = "up" /\ Up
  IN  /\ \A t \in DOMAIN thread : thread[t] = "busy" => usable(Owner(t))
      /\ thread["audio"] = "busy" => backend["tx"].audio /\ port["tx"].queues = 2
      /\ \A o \in Ops : /\ OnNic(o) => usable(o)
                        /\ port[o].state = "up" => Up
                        /\ life[o] = "gone" => \A t \in Own(o) : thread[t] \in {"none", "left"}
      /\ life["rx"] = "stopped" /\ HasLine("rx") => line = count

\* A program that ends, which it does for good, gets rid of everything it took:
\* threads, ports and an EAL of its own.
ComesDown ==
  []<>(ending => /\ \A o \in Ops : life[o] = "gone" /\ ~backend[o].on
                 /\ \A o \in Ops : port[o].state \in {"down", "closed"}
                 /\ \A t \in DOMAIN thread : thread[t] \in {"none", "left"}
                 /\ ~app.shared => eal \in {"none", "cleaned"})
=============================================================================
