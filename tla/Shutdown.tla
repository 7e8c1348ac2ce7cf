------------------------------ MODULE Shutdown ------------------------------
(***************************************************************************)
(* The end of the process: `core::main` from `tasks.start()` on            *)
(* (src/core.rs), the SIGHUP loop of `BackendManager::run` and its         *)
(* cancellation token (src/backend.rs), and the requests of RequestMetrics,*)
(* whose detached logging tasks hand their records to Vector.              *)
(*                                                                         *)
(* Of ic_bn_lib this takes: `tasks.stop()` cancels the token and waits for *)
(* every task that was added; a server that sees the token accepts nothing *)
(* more, lets its requests finish for a grace period, and drops the rest;  *)
(* `Vector::stop` delivers what has been sent to it, and takes no more.    *)
(***************************************************************************)
EXTENDS RequestMetrics

CONSTANT Faults         \* the environment: "sighup", "kill"
ASSUME ShutdownFaults == Faults \subseteq {"sighup", "kill"}

VARIABLES
  main,         \* starting, waiting, stopping, flushing, done or killed
  server,       \* the server tasks: serving, draining or stopped
  mgr,          \* BackendManager::run: waiting, loading or stopped
  hup,          \* a SIGHUP is pending
  vector        \* the requests whose records Vector has been sent in time

procVars == <<main, server, mgr, hup, vector>>
allVars == <<vars, procVars>>

\* The runtime is there, and with it every spawned task.
Alive == main \notin {"done", "killed"}

\* The token: tasks.stop() has been called.
Cancelled == main \in {"stopping", "flushing"}

\* A request the server is still responsible for.
Handled(q) == pc[q] \in {"inside", "once", "try", "body"}

ShutdownInit ==
  /\ Init
  /\ main = "starting"
  /\ server = "serving"
  /\ mgr = "waiting"
  /\ hup = FALSE
  /\ vector = {}
-----------------------------------------------------------------------------
(* Requests go on as long as there is a runtime to poll them.              *)

\* Mutant of Accept: a draining server goes on accepting.
AcceptAlways(q) ==
  /\ Alive
  /\ Enter(q)
  /\ UNCHANGED procVars

Accept(q) ==
  /\ Alive /\ server = "serving"
  /\ Enter(q)
  /\ UNCHANGED procVars

Serve(q) == Alive /\ Handle(q) /\ UNCHANGED procVars

\* The client goes away, or the grace period of the server is over.
Drop(q) == Alive /\ Cancel(q) /\ UNCHANGED procVars

\* The logging task runs; a record comes too late once Vector has stopped.
Record(q) ==
  /\ Alive /\ Log(q)
  /\ vector' = vector \cup {q}
  /\ UNCHANGED <<main, server, mgr, hup>>
-----------------------------------------------------------------------------
(* The process.                                                            *)

\* signal() registers the handler of SIGTERM.
Listen ==
  /\ main = "starting" /\ main' = "waiting"
  /\ UNCHANGED <<vars, server, mgr, hup, vector>>

\* SIGTERM or ctrl-C: tasks.stop() cancels the token.
Stop ==
  /\ main = "waiting" /\ main' = "stopping"
  /\ UNCHANGED <<vars, server, mgr, hup, vector>>

\* SIGTERM before there is a handler, or SIGKILL, ends the process.
Kill ==
  /\ "kill" \in Faults /\ Alive
  /\ main' = "killed"
  /\ UNCHANGED <<vars, server, mgr, hup, vector>>

Drain ==
  /\ Cancelled /\ server = "serving"
  /\ server' = "draining"
  /\ UNCHANGED <<vars, main, mgr, hup, vector>>

ServerStops ==
  /\ Alive
  /\ server = "draining" /\ \A q \in Request : ~Handled(q)
  /\ server' = "stopped"
  /\ UNCHANGED <<vars, main, mgr, hup, vector>>

Sighup ==
  /\ "sighup" \in Faults /\ Alive
  /\ ~hup /\ hup' = TRUE
  /\ UNCHANGED <<vars, main, server, mgr, vector>>

\* The loop's select takes a pending signal ...
MgrLoad ==
  /\ Alive /\ mgr = "waiting" /\ hup
  /\ mgr' = "loading" /\ hup' = FALSE
  /\ UNCHANGED <<vars, main, server, vector>>

\* ... and load_config runs to its end, whatever the token says.
MgrLoaded ==
  /\ Alive /\ mgr = "loading"
  /\ mgr' = "waiting"
  /\ UNCHANGED <<vars, main, server, hup, vector>>

\* Mutant of MgrStops: the select looks at signals first.
MgrStopsLast ==
  /\ Cancelled /\ mgr = "waiting" /\ ~hup
  /\ mgr' = "stopped"
  /\ UNCHANGED <<vars, main, server, hup, vector>>

\* The select takes the token, as well as it may take a pending signal.
MgrStops ==
  /\ Cancelled /\ mgr = "waiting"
  /\ mgr' = "stopped"
  /\ UNCHANGED <<vars, main, server, hup, vector>>

\* tasks.stop() returns.
TasksStopped ==
  /\ main = "stopping" /\ server = "stopped" /\ mgr = "stopped"
  /\ main' = "flushing"
  /\ UNCHANGED <<vars, server, mgr, hup, vector>>

\* v.stop() returns, main returns, and the runtime with its tasks is gone.
VectorStops ==
  /\ main = "flushing" /\ main' = "done"
  /\ UNCHANGED <<vars, server, mgr, hup, vector>>

Proceed ==
  \/ Listen \/ Drain \/ ServerStops \/ MgrLoad \/ MgrLoaded \/ TasksStopped
  \/ VectorStops

ShutdownNext ==
  \/ Proceed \/ Stop \/ Kill \/ Sighup \/ MgrStops
  \/ \E q \in Request : Accept(q) \/ Serve(q) \/ Drop(q) \/ Record(q)

ShutdownSpec == ShutdownInit /\ [][ShutdownNext]_allVars

\* The runtime polls whoever can go on, spawned tasks included; a reload ends
\* (its checks answer) and so do requests.  `select!` picks among its ready
\* branches at random, so that one that is ready again and again is taken.
ShutdownFairSpec ==
  /\ ShutdownSpec
  /\ WF_allVars(Drain) /\ WF_allVars(ServerStops)
  /\ WF_allVars(MgrLoaded) /\ SF_allVars(MgrStops)
  /\ WF_allVars(TasksStopped) /\ WF_allVars(VectorStops)
  /\ \A q \in Request : WF_allVars(Serve(q)) /\ WF_allVars(Record(q))
-----------------------------------------------------------------------------
(* Properties.                                                             *)

\* The type invariant.
ShutdownTypeOK ==
  /\ MetricsTypeOK
  /\ main \in {"starting", "waiting", "stopping", "flushing", "done", "killed"}
  /\ server \in {"serving", "draining", "stopped"}
  /\ mgr \in {"waiting", "loading", "stopped"}
  /\ hup \in BOOLEAN
  /\ vector \in SUBSET Request

\* "Vector should stop last to ensure that all requests are finished"
\* (core.rs:237): when it is stopped no request is being handled, none can
\* arrive any more, and no reload is under way.
FinishedBeforeFlush ==
  main \in {"flushing", "done"} =>
    /\ server = "stopped" /\ mgr = "stopped"
    /\ \A q \in Request : ~Handled(q)

\* A shutdown comes to its end, though the manager looks at the token only
\* between two reloads and SIGHUPs may keep coming (backend.rs:366).
ShutdownEnds == main = "stopping" ~> ~Alive

\* Every request that enters is recorded before the process is over, the ones
\* whose client went away included: the sender is used or dropped whichever
\* way the handler ends, also during a shutdown (metrics.rs:142).
EveryRequestRecorded ==
  \A q \in Request : pc[q] = "inside" ~> Recorded(q) \/ ~Alive

\* "Vector should stop last to ensure that all requests are finished &
\* flushed" (core.rs:237): a process that ended by itself has sent the record
\* of every request it answered.  See the findings in the README.
AllRequestsFlushed ==
  main = "done" => \A q \in Request : pc[q] = "sent" => q \in vector
=============================================================================
