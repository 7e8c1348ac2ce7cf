--------------------------- MODULE ShutdownProofs ---------------------------
(***************************************************************************)
(* Theorems about Shutdown: the process around it changes nothing of what  *)
(* RequestMetrics promises of each request, and Vector is stopped last.    *)
(***************************************************************************)
EXTENDS Shutdown, RequestMetricsProofs

\* A step of the process is a step of the middleware, or none it can see.
LEMMA ShutdownEmbeds == [ShutdownNext]_allVars => [Next]_vars
<1> SUFFICES ASSUME [ShutdownNext]_allVars PROVE Next \/ UNCHANGED vars
  OBVIOUS
<1>1. CASE UNCHANGED allVars
  BY <1>1 DEF allVars
<1>2. CASE Proceed \/ Stop \/ Kill \/ Sighup \/ MgrStops
  BY <1>2 DEF Proceed, Listen, Drain, ServerStops, MgrLoad, MgrLoaded, TasksStopped,
     VectorStops, Stop, Kill, Sighup, MgrStops
<1>3. ASSUME NEW q \in Request, Accept(q) \/ Serve(q) \/ Drop(q) \/ Record(q)
      PROVE  Next
  BY <1>3 DEF Accept, Serve, Drop, Record, Next
<1> QED BY <1>1, <1>2, <1>3 DEF ShutdownNext

\* Requests inside a process that is being stopped, or killed, behave as
\* RequestMetrics says.
THEOREM RunsTheMiddleware == ShutdownSpec => Spec
<1>1. ShutdownInit => Init
  BY DEF ShutdownInit
<1> QED BY <1>1, ShutdownEmbeds, PTL DEF ShutdownSpec, Spec

\* Where the process is, with what it has stopped waiting for.
ProcTypeOK ==
  /\ main \in {"starting", "waiting", "stopping", "flushing", "done", "killed"}
  /\ server \in {"serving", "draining", "stopped"}
  /\ mgr \in {"waiting", "loading", "stopped"}
  /\ hup \in BOOLEAN
  /\ vector \in SUBSET Request

\* A server that has stopped has no request left, and main goes on to Vector
\* only when both kinds of tasks have stopped (core.rs:235).
StopInv ==
  /\ MInv
  /\ ProcTypeOK
  /\ server = "stopped" => \A q \in Request : ~Handled(q)
  /\ main \in {"flushing", "done"} => server = "stopped" /\ mgr = "stopped"

\* The handler of a request does not touch the others.
LEMMA HandledBefore ==
  ASSUME MInv, NEW q \in Request, Handle(q) \/ Cancel(q) \/ Log(q), NEW p \in Request,
         Handled(p)'
  PROVE  Handled(p)
<1>1. pc \in [Request -> {"idle", "inside", "once", "try", "body", "sent", "gone"}]
  BY DEF MInv, MetricsTypeOK
<1>2. CASE Log(q)
  BY <1>2 DEF Log, handlerVars, Handled
<1>3. CASE Handle(q) \/ Cancel(q)
  <2>1. Handled(q)
    BY <1>3 DEF Handle, Refuse, Begin, ExecuteOnce, Execute, Fail, BufferResponse, Cancel,
       Handled
  <2>2. \E l : pc' = [pc EXCEPT ![q] = l]
    <3>1. CASE Cancel(q)
      BY <3>1 DEF Cancel, Goto
    <3>2. CASE Refuse(q) \/ Begin(q) \/ Execute(q) \/ BufferResponse(q)
      BY <3>2 DEF Refuse, Begin, Execute, BufferResponse, Reply, Goto
    <3>3. CASE ExecuteOnce(q)
      BY <3>3 DEF ExecuteOnce, Reply, Goto
    <3>4. CASE Fail(q)
      <4>1. pc' = [pc EXCEPT ![q] = "sent"] \/ pc' = pc
        BY <3>4 DEF Fail, Reply, Goto
      <4>2. pc = [pc EXCEPT ![q] = pc[q]]
        BY <1>1
      <4> QED BY <4>1, <4>2
    <3> QED BY <1>3, <3>1, <3>2, <3>3, <3>4 DEF Handle
  <2> QED BY <1>1, <2>1, <2>2 DEF Handled
<1> QED BY <1>2, <1>3

LEMMA StopInit == ShutdownInit => StopInv
BY MInit DEF ShutdownInit, StopInv, ProcTypeOK

LEMMA StopNext == StopInv /\ MInv' /\ [ShutdownNext]_allVars => StopInv'
<1> SUFFICES ASSUME StopInv, MInv', [ShutdownNext]_allVars PROVE StopInv'
  OBVIOUS
<1> USE DEF StopInv, ProcTypeOK
<1>1. CASE UNCHANGED allVars
  BY <1>1 DEF allVars, vars, procVars, handlerVars, Handled
<1>2. CASE Proceed \/ Stop \/ Kill \/ Sighup \/ MgrStops
  <2>1. \A q \in Request : Handled(q)' = Handled(q)
    BY <1>2 DEF Proceed, Listen, Drain, ServerStops, MgrLoad, MgrLoaded, TasksStopped,
       VectorStops, Stop, Kill, Sighup, MgrStops, vars, handlerVars, Handled
  <2> QED BY <1>2, <2>1 DEF Proceed, Listen, Drain, ServerStops, MgrLoad, MgrLoaded,
          TasksStopped, VectorStops, Stop, Kill, Sighup, MgrStops, Cancelled, Alive
<1>3. ASSUME NEW q \in Request, Accept(q)
      PROVE  StopInv'
  BY <1>3 DEF Accept, procVars
<1>4. ASSUME NEW q \in Request, Serve(q) \/ Drop(q) \/ Record(q)
      PROVE  StopInv'
  <2>1. /\ UNCHANGED <<main, server, mgr, hup>>
        /\ vector' = vector \/ vector' = vector \cup {q}
    BY <1>4 DEF Serve, Drop, Record, procVars
  <2>2. \A p \in Request : Handled(p)' => Handled(p)
    BY <1>4, HandledBefore DEF Serve, Drop, Record
  <2> QED BY <2>1, <2>2
<1> QED BY <1>1, <1>2, <1>3, <1>4 DEF ShutdownNext

THEOREM ShutdownInvariance == ShutdownSpec => []StopInv
<1>1. ShutdownSpec => []MInv
  BY RunsTheMiddleware, MetricsInvariance, PTL
<1> QED BY <1>1, StopInit, StopNext, PTL DEF ShutdownSpec

\* Type correctness of the process and of the requests in it.
THEOREM ShutdownTypeCorrect == ShutdownSpec => []ShutdownTypeOK
<1>1. StopInv => ShutdownTypeOK
  BY DEF StopInv, ProcTypeOK, MInv, ShutdownTypeOK
<1> QED BY <1>1, ShutdownInvariance, PTL

\* When Vector is stopped no request is handled, none can arrive, and no
\* reload runs (core.rs:235-240).
THEOREM VectorStopsLast == ShutdownSpec => []FinishedBeforeFlush
<1>1. StopInv => FinishedBeforeFlush
  BY DEF StopInv, FinishedBeforeFlush
<1> QED BY <1>1, ShutdownInvariance, PTL
-----------------------------------------------------------------------------
(* What is true of AllRequestsFlushed.                                     *)

\* Vector has been sent the records that were made, no more and no less.
RecordsReachVector == vector = {q \in Request : Recorded(q)}

\* Every record that the logging task got to make is flushed; those that
\* finding 3 loses are of requests whose logging task had not run when main
\* stopped Vector (core.rs:235-240, metrics.rs:145).
THEOREM MadeRecordsAreFlushed == ShutdownSpec => []RecordsReachVector
<1>1. ShutdownInit => RecordsReachVector
  BY DEF ShutdownInit, Init, RecordsReachVector, Recorded
<1>2. StopInv /\ RecordsReachVector /\ [ShutdownNext]_allVars => RecordsReachVector'
  <2> SUFFICES ASSUME StopInv, RecordsReachVector, [ShutdownNext]_allVars
               PROVE  RecordsReachVector'
    OBVIOUS
  <2> USE DEF RecordsReachVector, Recorded
  <2>1. CASE UNCHANGED <<record, vector>>
    BY <2>1
  <2>2. CASE Proceed \/ Stop \/ Kill \/ Sighup \/ MgrStops \/ UNCHANGED allVars
    <3>1. UNCHANGED <<record, vector>>
      BY <2>2 DEF Proceed, Listen, Drain, ServerStops, MgrLoad, MgrLoaded, TasksStopped,
         VectorStops, Stop, Kill, Sighup, MgrStops, allVars, vars, procVars
    <3> QED BY <2>1, <3>1
  <2>3. ASSUME NEW q \in Request, Accept(q) \/ Serve(q) \/ Drop(q)
        PROVE  UNCHANGED <<record, vector>>
    BY <2>3 DEF Accept, Serve, Drop, Enter, Handle, Refuse, Begin, ExecuteOnce, Execute,
       Fail, BufferResponse, Cancel, procVars
  <2>4. ASSUME NEW q \in Request, Record(q) PROVE RecordsReachVector'
    <3>1. /\ vector' = vector \cup {q}
          /\ record' = [record EXCEPT ![q] = record'[q]]
          /\ record'[q] # Nothing /\ record \in [Request -> Meta \cup {Nothing}]
      <4>1. DefaultMeta \in Meta /\ meta[q] \in Meta
        BY ContextTypes DEF StopInv, MInv, MetricsTypeOK
      <4> QED BY <2>4, <4>1, MetricsUnknown DEF Record, Log, StopInv, MInv, MetricsTypeOK
    <3> QED BY <3>1
  <2> QED BY <2>1, <2>2, <2>3, <2>4 DEF ShutdownNext
<1> QED BY <1>1, <1>2, ShutdownInvariance, PTL DEF ShutdownSpec
=============================================================================
