--------------------------- MODULE RequestHandler ---------------------------
(***************************************************************************)
(* `handler` of src/routing.rs: proxied requests that pick a router from   *)
(* the slots the BackendManager keeps, buffer, execute, wait and retry,    *)
(* while the manager replaces routers and health checks answer.            *)
(*                                                                         *)
(* The manager takes part as the abstract specification Serving, which     *)
(* BackendManager implements, with one refinement: a request that holds    *)
(* the Arc of a router keeps its memory alive.  A stopped router that is   *)
(* still held keeps the health it had when its checks ended, for ever.     *)
(*                                                                         *)
(* pc[q] says where request q is:                                          *)
(*   idle      not arrived, or forgotten by its client                     *)
(*   main, fallback   in get_backend_router, before each of its loads      *)
(*   once      about to execute without buffering                          *)
(*   buffer    in buffer_request                                           *)
(*   try       at the top of the retry loop                                *)
(*   sleep     in the sleep after a failed attempt                         *)
(*   respond   in buffer_response                                          *)
(*   done      answered                                                    *)
(***************************************************************************)
EXTENDS Serving, Naturals

CONSTANTS
  Request,          \* requests in flight at once
  Attempts,         \* retry_attempts
  BufferRequests,   \* request_body_buffer
  BufferResponses   \* response_body_buffer

ASSUME AttemptsAssumption == Attempts \in 1 .. 255
ASSUME BufferAssumption == BufferRequests \in BOOLEAN /\ BufferResponses \in BOOLEAN

\* Whether the exact size of the body is known and within the limit.
Body == {"sized", "streamed"}

ErrorCause == {"BackendRequestError", "BackendBodyError", "BackendTimeout",
               "NoAuthority", "ServiceNotReady", "NoHealthyBackends",
               "RequestBodyBufferTimeout"}

VARIABLES
  pc,
  body,         \* the request's body
  held,         \* the Arc of backend_router in handler, or None
  retries,      \* attempts left in the loop
  cause,        \* the error of the last attempt, then of the answer, or "none"
  noted,        \* the Retries extension of the response, or None
  tried,        \* ghost: how often the request was handed to the router
  paused,       \* ghost: how often it slept because no node was healthy
  seen,         \* ghost: the main router get_backend_router loaded, or None
  calm          \* ghost: since it arrived a healthy node was always in reach

localVars == <<body, held, retries, cause, noted, tried, paused, seen>>
reqVars == <<pc, localVars>>
vars == <<servingVars, reqVars, calm>>

Pc == {"idle", "main", "fallback", "once", "buffer", "try", "sleep",
       "respond", "done"}

HandlerTypeOK ==
  /\ ServingTypeOK
  /\ pc \in [Request -> Pc]
  /\ body \in [Request -> Body]
  /\ held \in [Request -> RouterId \cup {None}]
  /\ retries \in [Request -> 0 .. Attempts]
  /\ cause \in [Request -> ErrorCause \cup {"none"}]
  /\ noted \in [Request -> (0 .. Attempts) \cup {None}]
  /\ tried \in [Request -> 0 .. Attempts]
  /\ paused \in [Request -> 0 .. Attempts]
  /\ seen \in [Request -> RouterId \cup {None}]
  /\ calm \in [Request -> BOOLEAN]

Init ==
  /\ ServingInit
  /\ pc = [q \in Request |-> "idle"]
  /\ body = [q \in Request |-> "sized"]
  /\ held = [q \in Request |-> None]
  /\ retries = [q \in Request |-> 0]
  /\ cause = [q \in Request |-> "none"]
  /\ noted = [q \in Request |-> None]
  /\ tried = [q \in Request |-> 0]
  /\ paused = [q \in Request |-> 0]
  /\ seen = [q \in Request |-> None]
  /\ calm = [q \in Request |-> FALSE]

Goto(q, l) == pc' = [pc EXCEPT ![q] = l]

\* The handler returns: it answers with `c` and lets go of the router.
Answer(q, c) ==
  /\ Goto(q, "done")
  /\ cause' = [cause EXCEPT ![q] = c]
  /\ held' = [held EXCEPT ![q] = None]

Usable(x) == x # None /\ HealthyOf(health[x]) # {}

\* Mutant of BodyBuffered: a body of unknown size is buffered as well.
AlwaysBuffered(q) == Attempts > 1 \/ BufferRequests

\* request_should_buffer: bufferable, and wanted for retries or by itself.
BodyBuffered(q) == body[q] = "sized" /\ (Attempts > 1 \/ BufferRequests)
-----------------------------------------------------------------------------
\* A request arrives, with a host or without.
Arrive(q) ==
  /\ pc[q] = "idle"
  /\ \E b \in Body : body' = [body EXCEPT ![q] = b]
  /\ \/ Goto(q, "main") /\ UNCHANGED <<held, cause>>
     \/ Answer(q, "NoAuthority")
  /\ UNCHANGED <<servingVars, retries, noted, tried, paused, seen>>

\* get_backend_router has its router: the handler goes on with it.
Route(q, x) ==
  /\ held' = [held EXCEPT ![q] = x]
  /\ Goto(q, IF BodyBuffered(q) THEN "buffer" ELSE "once")
  /\ UNCHANGED cause

\* Mutant of LoadMain: the main router is used only while all of it is up.
LoadMainAll(q) ==
  /\ pc[q] = "main"
  /\ seen' = [seen EXCEPT ![q] = slot["main"]]
  /\ IF slot["main"] # None /\ HealthyOf(health[slot["main"]]) = Members(health[slot["main"]])
     THEN Route(q, slot["main"])
     ELSE Goto(q, "fallback") /\ UNCHANGED <<held, cause>>
  /\ UNCHANGED <<servingVars, body, retries, noted, tried, paused>>

\* The main router, if it has a healthy node at this moment.
LoadMain(q) ==
  /\ pc[q] = "main"
  /\ seen' = [seen EXCEPT ![q] = slot["main"]]
  /\ IF Usable(slot["main"])
     THEN Route(q, slot["main"])
     ELSE Goto(q, "fallback") /\ UNCHANGED <<held, cause>>
  /\ UNCHANGED <<servingVars, body, retries, noted, tried, paused>>

\* Mutant of LoadFallback: the request waits until there is a router.
LoadFallbackWait(q) ==
  /\ pc[q] = "fallback"
  /\ slot["fallback"] # None
  /\ Route(q, slot["fallback"])
  /\ UNCHANGED <<servingVars, body, retries, noted, tried, paused, seen>>

\* Otherwise the fallback router, healthy or not, if there is one.
LoadFallback(q) ==
  /\ pc[q] = "fallback"
  /\ IF slot["fallback"] # None
     THEN Route(q, slot["fallback"])
     ELSE Answer(q, "ServiceNotReady")
  /\ UNCHANGED <<servingVars, body, retries, noted, tried, paused, seen>>

\* One execution by the router: it picks a healthy node, or has none; the
\* backend answers, or the connection to it fails.
Outcome(q) ==
  IF HealthyOf(health[held[q]]) = {}
  THEN {"NoHealthyBackends"}
  ELSE {"none", "BackendRequestError"}

\* Without buffering the body can be sent once only.
ExecuteOnce(q) ==
  /\ pc[q] = "once"
  /\ tried' = [tried EXCEPT ![q] = @ + 1]
  /\ \E o \in Outcome(q) :
       IF o = "none"
       THEN Goto(q, "respond") /\ UNCHANGED <<held, cause>>
       ELSE Answer(q, o)
  /\ UNCHANGED <<servingVars, body, retries, noted, paused, seen>>

\* buffer_request: any failure to read the body is one error.
BufferRequest(q) ==
  /\ pc[q] = "buffer"
  /\ \/ /\ Goto(q, "try")
        /\ retries' = [retries EXCEPT ![q] = Attempts]
        /\ UNCHANGED <<held, cause>>
     \/ /\ Answer(q, "RequestBodyBufferTimeout")
        /\ UNCHANGED retries
  /\ UNCHANGED <<servingVars, body, noted, tried, paused, seen>>

\* The retry loop executes a copy of the request on the router it holds.
Execute(q) ==
  /\ pc[q] = "try"
  /\ tried' = [tried EXCEPT ![q] = @ + 1]
  /\ \E o \in Outcome(q) :
       IF o = "none"
       THEN /\ Goto(q, "respond")
            /\ noted' = [noted EXCEPT ![q] = Attempts - retries[q]]
            /\ UNCHANGED <<cause, paused>>
       ELSE /\ Goto(q, "sleep")
            /\ cause' = [cause EXCEPT ![q] = o]
            /\ paused' = [paused EXCEPT ![q] =
                            IF o = "NoHealthyBackends" THEN @ + 1 ELSE @]
            /\ UNCHANGED noted
  /\ UNCHANGED <<servingVars, body, held, retries, seen>>

\* Mutant of Retry: the last attempt is given away.
RetryShort(q) ==
  /\ pc[q] = "sleep"
  /\ retries' = [retries EXCEPT ![q] = @ - 1]
  /\ IF retries[q] <= 2
     THEN Answer(q, cause[q])
     ELSE Goto(q, "try") /\ cause' = [cause EXCEPT ![q] = "none"] /\ UNCHANGED held
  /\ UNCHANGED <<servingVars, body, noted, tried, paused, seen>>

\* Mutant of Retry: the counter is tested before it is decremented.
RetryLate(q) ==
  /\ pc[q] = "sleep"
  /\ retries' = [retries EXCEPT ![q] = @ - 1]
  /\ IF retries[q] = 0
     THEN Answer(q, cause[q])
     ELSE Goto(q, "try") /\ cause' = [cause EXCEPT ![q] = "none"] /\ UNCHANGED held
  /\ UNCHANGED <<servingVars, body, noted, tried, paused, seen>>

\* The sleep ends; every failure sleeps first, the last one too.
Retry(q) ==
  /\ pc[q] = "sleep"
  /\ retries' = [retries EXCEPT ![q] = @ - 1]
  /\ IF retries[q] = 1
     THEN Answer(q, cause[q])
     ELSE Goto(q, "try") /\ cause' = [cause EXCEPT ![q] = "none"] /\ UNCHANGED held
  /\ UNCHANGED <<servingVars, body, noted, tried, paused, seen>>

\* buffer_response hands the response on, or reads its body first; an error
\* in doing so replaces the response and all that was attached to it.
BufferResponse(q) ==
  /\ pc[q] = "respond"
  /\ \/ Answer(q, "none") /\ UNCHANGED noted
     \/ /\ BufferResponses
        /\ \E c \in {"BackendTimeout", "BackendBodyError"} : Answer(q, c)
        /\ noted' = [noted EXCEPT ![q] = None]
  /\ UNCHANGED <<servingVars, body, retries, tried, paused, seen>>

\* The response is gone, or the client: hyper drops the handler future at
\* whatever it awaits, and with it the router it holds.
Forget(q) ==
  /\ pc[q] # "idle"
  /\ Goto(q, "idle")
  /\ held' = [held EXCEPT ![q] = None]
  /\ body' = [body EXCEPT ![q] = "sized"]
  /\ retries' = [retries EXCEPT ![q] = 0]
  /\ cause' = [cause EXCEPT ![q] = "none"]
  /\ noted' = [noted EXCEPT ![q] = None]
  /\ tried' = [tried EXCEPT ![q] = 0]
  /\ paused' = [paused EXCEPT ![q] = 0]
  /\ seen' = [seen EXCEPT ![q] = None]
  /\ UNCHANGED servingVars
-----------------------------------------------------------------------------
(* The manager, as its abstract specification.                             *)

Held(r) == \E q \in Request : held[q] = r

\* A stopped router's memory lives as long as a request holds it.
StopRouter(r) ==
  /\ Stop(r)
  /\ health' = IF Held(r) THEN health ELSE [health EXCEPT ![r] = NoTargets]

\* Mutant of DropRouter: the memory goes with the last check.
DropAnyRouter(r) == Release(r)

DropRouter(r) == ~Held(r) /\ Release(r)

Manager ==
  /\ \/ \E r \in RouterId, ms \in SUBSET Name : Build(r, ms)
     \/ \E r \in RouterId, n \in Name, v \in Verdict : Report(r, n, v)
     \/ \E s \in Slot, x \in RouterId \cup {None} : Install(s, x)
     \/ \E r \in RouterId : StopRouter(r) \/ DropRouter(r)
  /\ UNCHANGED reqVars

Handle(q) ==
  \/ LoadMain(q) \/ LoadFallback(q) \/ ExecuteOnce(q) \/ BufferRequest(q)
  \/ Execute(q) \/ Retry(q) \/ BufferResponse(q)

\* Ghost: q is calm while the main slot, and the router q holds, have a
\* healthy node.
Watch ==
  calm' = [q \in Request |->
             /\ pc'[q] # "idle"
             /\ pc[q] = "idle" \/ calm[q]
             /\ slot'["main"] # None /\ HealthyOf(health'[slot'["main"]]) # {}
             /\ held'[q] # None => HealthyOf(health'[held'[q]]) # {}]

Next ==
  /\ \/ Manager
     \/ \E q \in Request : Arrive(q) \/ Handle(q) \/ Forget(q)
  /\ Watch

Spec == Init /\ [][Next]_vars

\* Buffering, connecting and reading have timeouts and sleeps end.
FairSpec == Spec /\ \A q \in Request : WF_vars(Handle(q) /\ Watch)
-----------------------------------------------------------------------------
(* Properties.                                                             *)

\* A router a request has loaded stays what it was for as long as it holds
\* the Arc, whatever is installed, stopped or built meanwhile: it has targets
\* and knows the health of each (routing.rs:178-256).
HeldRouterIntact ==
  \A q \in Request : held[q] # None =>
    Members(health[held[q]]) # {} /\ AllKnown(health[held[q]])

\* A body that was not buffered is gone after the first attempt: it is never
\* sent twice, whatever retry_attempts says (routing.rs:200-216).
StreamedOnce ==
  \A q \in Request : body[q] = "streamed" => tried[q] <= 1 /\ noted[q] = None

\* The loop counts down without skipping: an error is answered only after all
\* the attempts, a success reports the failures before it, and the countdown
\* never passes zero (routing.rs:228-260).
EveryAttemptUsed ==
  \A q \in Request : BodyBuffered(q) =>
    /\ pc[q] = "done" /\ cause[q] \in {"BackendRequestError", "NoHealthyBackends"}
         => tried[q] = Attempts /\ noted[q] = None
    /\ pc[q] = "done" /\ cause[q] = "none" => noted[q] + 1 = tried[q]
    /\ pc[q] \in {"try", "sleep"} =>
         tried[q] + retries[q] = Attempts + (IF pc[q] = "sleep" THEN 1 ELSE 0)

\* Replacing routers interrupts nobody: a request during which the main slot
\* and the router it holds always had a healthy node is never told that the
\* service is not ready or has no healthy node (backend.rs:323-330).
SwapsDoNotInterrupt ==
  \A q \in Request : calm[q] => cause[q] \notin {"ServiceNotReady", "NoHealthyBackends"}

\* Every request is answered, however often routers are replaced meanwhile.
RequestsComplete ==
  \A q \in Request : pc[q] # "idle" ~> pc[q] \in {"done", "idle"}

\* "If there are no healthy nodes then we wait 1/4 of health_check_interval
\* instead in hope that some node would become healthy" (cli.rs:210): with
\* retries a request is not refused for lack of healthy nodes before it has
\* waited, when the main router it found has nodes at all.
WaitsForHealthyNodes ==
  \A q \in Request :
    /\ pc[q] = "done" /\ cause[q] \in {"ServiceNotReady", "NoHealthyBackends"}
    /\ BodyBuffered(q) /\ Attempts > 1 /\ seen[q] # None
    => paused[q] > 0
=============================================================================
