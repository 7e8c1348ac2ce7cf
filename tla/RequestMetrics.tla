--------------------------- MODULE RequestMetrics ---------------------------
(***************************************************************************)
(* `middleware` of src/middleware/metrics.rs around the handler: the task  *)
(* local RequestContext that the executor and the handler write, the       *)
(* extensions of the response, and the detached task that waits on a       *)
(* oneshot channel and records the request when the handler has answered - *)
(* or has been dropped.                                                    *)
(*                                                                         *)
(* Which router is used and who is healthy is RequestHandler's subject:    *)
(* here an attempt reaches some backend or none, as it may.  pc[q]:        *)
(*   idle      not arrived                                                 *)
(*   inside    in next.run, before the first attempt                       *)
(*   once      about to execute without buffering                          *)
(*   try       about to execute in the retry loop                          *)
(*   body      in buffer_response                                          *)
(*   sent      the response is on its way to the client                    *)
(*   gone      the client went away first                                  *)
(***************************************************************************)
EXTENDS Naturals

CONSTANTS
  Request,          \* the requests that come in, each once
  Backend,          \* the backends attempts can reach
  Unknown,          \* no backend, and the label it is given
  Nothing,          \* no record
  Attempts,         \* retry_attempts
  BufferResponses   \* response_body_buffer

ASSUME MetricsAttempts == Attempts \in 1 .. 255
ASSUME MetricsBuffering == BufferResponses \in BOOLEAN

Refusal == {"NoAuthority", "ServiceNotReady", "RequestBodyBufferTimeout"}
BodyError == {"BackendTimeout", "BackendBodyError"}
ErrorCause == Refusal \cup BodyError \cup {"NoHealthyBackends", "BackendRequestError"}

\* RequestContext, and what is sent to the logging task.
Context == [backend : Backend \cup {Unknown}, request : BOOLEAN, response : BOOLEAN]
NoContext == [backend |-> Unknown, request |-> FALSE, response |-> FALSE]
Meta == [ctx : Context, retries : 0 .. Attempts,
         cause : ErrorCause \cup {"none", "cancelled"}]

ASSUME MetricsUnknown == Unknown \notin Backend /\ Nothing \notin Meta

\* ResponseMeta::default: status 408, no cause, no context.
DefaultMeta == [ctx |-> NoContext, retries |-> 0, cause |-> "cancelled"]

\* The channel: not made yet, open, with a message in it, or without a sender.
Chan == {"none", "open", "sent", "dropped"}

VARIABLES
  pc,
  ctx,          \* the task local context
  retries,      \* attempts left in the loop
  chan, meta,   \* the oneshot channel, and the message sent into it
  record,       \* what the logging task counted and logged, or Nothing yet
  failed,       \* ghost: failed attempts so far
  answered      \* ghost: who gave the answer the client gets, or Unknown

handlerVars == <<pc, ctx, retries, failed, answered>>
chanVars == <<chan, meta>>
vars == <<handlerVars, chanVars, record>>

Init ==
  /\ pc = [q \in Request |-> "idle"]
  /\ ctx = [q \in Request |-> NoContext]
  /\ retries = [q \in Request |-> 0]
  /\ chan = [q \in Request |-> "none"]
  /\ meta = [q \in Request |-> DefaultMeta]
  /\ record = [q \in Request |-> Nothing]
  /\ failed = [q \in Request |-> 0]
  /\ answered = [q \in Request |-> Unknown]

Goto(q, l) == pc' = [pc EXCEPT ![q] = l]

\* The handler returns a response of cause `c` whose Retries extension is `n`
\* (0: it has none); the middleware, without another await, takes the context
\* and the extensions and sends them.
Reply(q, c, n) ==
  /\ Goto(q, "sent")
  /\ chan' = [chan EXCEPT ![q] = "sent"]
  /\ meta' = [meta EXCEPT ![q] = [ctx |-> ctx'[q], retries |-> n, cause |-> c]]
-----------------------------------------------------------------------------
\* The middleware makes the channel and spawns the logging task.
Enter(q) ==
  /\ pc[q] = "idle"
  /\ Goto(q, "inside")
  /\ chan' = [chan EXCEPT ![q] = "open"]
  /\ UNCHANGED <<ctx, retries, meta, record, failed, answered>>

\* An answer before any attempt: an error of the handler, or the API's.
Refuse(q) ==
  /\ pc[q] = "inside"
  /\ UNCHANGED <<ctx, retries, record, failed, answered>>
  /\ \E c \in Refusal \cup {"none"} : Reply(q, c, 0)

\* Mutant of Begin: retry_attempts is taken for the number of retries.
BeginMore(q) ==
  /\ pc[q] = "inside"
  /\ \/ Goto(q, "once") /\ UNCHANGED <<ctx, retries>>
     \/ /\ Goto(q, "try")
        /\ ctx' = [ctx EXCEPT ![q].request = TRUE]
        /\ retries' = [retries EXCEPT ![q] = Attempts + 1]
  /\ UNCHANGED <<chanVars, record, failed, answered>>

\* The body is buffered for the retry loop, or is not.
Begin(q) ==
  /\ pc[q] = "inside"
  /\ \/ Goto(q, "once") /\ UNCHANGED <<ctx, retries>>
     \/ /\ Goto(q, "try")
        /\ ctx' = [ctx EXCEPT ![q].request = TRUE]
        /\ retries' = [retries EXCEPT ![q] = Attempts]
  /\ UNCHANGED <<chanVars, record, failed, answered>>

\* Mutant of Reach: only the first attempt notes its backend.
ReachFirst(q, b) ==
  /\ ctx' = IF ctx[q].backend = Unknown THEN [ctx EXCEPT ![q].backend = b] ELSE ctx
  /\ answered' = [answered EXCEPT ![q] = b]

\* RequestExecutor::execute notes its backend before it does anything else.
Reach(q, b) ==
  /\ ctx' = [ctx EXCEPT ![q].backend = b]
  /\ answered' = [answered EXCEPT ![q] = b]

\* The router has no healthy node: the executor is not called.
ReachNobody(q) ==
  /\ answered' = [answered EXCEPT ![q] = Unknown]
  /\ UNCHANGED ctx

ExecuteOnce(q) ==
  /\ pc[q] = "once"
  /\ \/ ReachNobody(q) /\ Reply(q, "NoHealthyBackends", 0)
     \/ \E b \in Backend :
          /\ Reach(q, b)
          /\ \/ Goto(q, "body") /\ UNCHANGED chanVars
             \/ Reply(q, "BackendRequestError", 0)
  /\ UNCHANGED <<retries, record, failed>>

\* The attempt succeeds; `retries` keeps what is left of the attempts.
Execute(q) ==
  /\ pc[q] = "try"
  /\ \E b \in Backend : Reach(q, b)
  /\ Goto(q, "body")
  /\ UNCHANGED <<retries, chanVars, record, failed>>

\* The attempt fails, and after a sleep the loop goes on or gives up with a
\* fresh error response, which has no Retries extension.
Fail(q) ==
  /\ pc[q] = "try"
  /\ failed' = [failed EXCEPT ![q] = @ + 1]
  /\ retries' = [retries EXCEPT ![q] = @ - 1]
  /\ \E c \in {"NoHealthyBackends", "BackendRequestError"} :
       /\ IF c = "NoHealthyBackends" THEN ReachNobody(q)
                                     ELSE \E b \in Backend : Reach(q, b)
       /\ IF retries[q] = 1
          THEN Reply(q, c, 0)
          ELSE UNCHANGED <<pc, chanVars>>
  /\ UNCHANGED record

\* Mutant of Noted: the attempts left are reported, not those that failed.
NotedLeft(q) == retries[q]

\* The Retries extension of a successful response of the loop.
Noted(q) == IF ctx[q].request THEN Attempts - retries[q] ELSE 0

\* buffer_response hands the response on or buffers it; an error replaces it,
\* extensions included.
BufferResponse(q) ==
  /\ pc[q] = "body"
  /\ \/ UNCHANGED ctx /\ Reply(q, "none", Noted(q))
     \/ /\ BufferResponses
        /\ ctx' = [ctx EXCEPT ![q].response = TRUE]
        /\ Reply(q, "none", Noted(q))
     \/ /\ BufferResponses
        /\ UNCHANGED ctx
        /\ \E c \in BodyError : Reply(q, c, 0)
  /\ UNCHANGED <<retries, record, failed, answered>>

\* Mutant of Cancel: the sender outlives the handler.
CancelKeep(q) ==
  /\ pc[q] \in {"inside", "once", "try", "body"}
  /\ Goto(q, "gone")
  /\ UNCHANGED <<ctx, retries, chanVars, record, failed, answered>>

\* The client goes away: hyper drops the middleware future and the sender.
Cancel(q) ==
  /\ pc[q] \in {"inside", "once", "try", "body"}
  /\ Goto(q, "gone")
  /\ chan' = [chan EXCEPT ![q] = "dropped"]
  /\ UNCHANGED <<ctx, retries, meta, record, failed, answered>>

\* Mutant of Log: a message that was not sent is taken for one that was.
LogStale(q) ==
  /\ chan[q] \in {"sent", "dropped"} /\ record[q] = Nothing
  /\ record' = [record EXCEPT ![q] = [meta[q] EXCEPT !.cause = "none"]]
  /\ UNCHANGED <<handlerVars, chanVars>>

\* The logging task receives what was sent, or an error it turns into the
\* default; it counts and logs the request and ends.
Log(q) ==
  /\ chan[q] \in {"sent", "dropped"} /\ record[q] = Nothing
  /\ record' = [record EXCEPT ![q] = IF chan[q] = "sent" THEN meta[q] ELSE DefaultMeta]
  /\ UNCHANGED <<handlerVars, chanVars>>

Handle(q) ==
  Refuse(q) \/ Begin(q) \/ ExecuteOnce(q) \/ Execute(q) \/ Fail(q) \/ BufferResponse(q)

Next == \E q \in Request :
  Enter(q) \/ Handle(q) \/ Cancel(q) \/ Log(q)

Spec == Init /\ [][Next]_vars
-----------------------------------------------------------------------------
(* Properties.                                                             *)

\* The type invariant.
MetricsTypeOK ==
  /\ pc \in [Request -> {"idle", "inside", "once", "try", "body", "sent", "gone"}]
  /\ ctx \in [Request -> Context]
  /\ retries \in [Request -> 0 .. Attempts]
  /\ chan \in [Request -> Chan]
  /\ meta \in [Request -> Meta]
  /\ record \in [Request -> Meta \cup {Nothing}]
  /\ failed \in [Request -> 0 .. Attempts]
  /\ answered \in [Request -> Backend \cup {Unknown}]

Recorded(q) == record[q] # Nothing

\* The backend that the counters and the log name is the one whose answer, or
\* whose failure, ended the request: the context of the last attempt has
\* replaced that of the earlier ones (backend.rs:445, metrics.rs:147).
BlamesTheRightBackend ==
  \A q \in Request : Recorded(q) =>
    (record[q].cause \in {"none", "BackendRequestError"} \cup BodyError
       => record[q].ctx.backend = answered[q])

\* What is recorded of the retries is what the client's response went
\* through: a response that is handed on reports every failed attempt before
\* it, and no other response reports one (routing.rs:258, metrics.rs:259).
RetriesAreFailures ==
  \A q \in Request : Recorded(q) =>
    record[q].retries = IF record[q].cause = "none" THEN failed[q] ELSE 0

\* The 408 of ResponseMeta::default is recorded for those requests, and only
\* those, whose handler was dropped before it answered (metrics.rs:144).
TimeoutMeansCancelled ==
  \A q \in Request : Recorded(q) => (record[q].cause = "cancelled" <=> pc[q] = "gone")
=============================================================================
