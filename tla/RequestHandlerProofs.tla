------------------------ MODULE RequestHandlerProofs ------------------------
(***************************************************************************)
(* Theorems about RequestHandler, for any number of requests, routers,     *)
(* backends and attempts.                                                  *)
(***************************************************************************)
EXTENDS RequestHandler, TLAPS

\* Every running router has targets, and the ones in the slots are ready: what
\* a request relies on when it loads one.
ManagerInv ==
  /\ \A r \in running : Members(health[r]) # {}
  /\ SlotsReady

\* How far a request has come, told by what it carries.
Progress(q) ==
  /\ pc[q] \in {"idle", "main", "fallback", "once", "buffer"} =>
       tried[q] = 0 /\ paused[q] = 0 /\ noted[q] = None /\ cause[q] = "none"
  /\ pc[q] \in {"once", "buffer", "try", "sleep", "respond"} => held[q] # None
  /\ pc[q] = "once" => ~BodyBuffered(q)
  /\ pc[q] \in {"buffer", "try", "sleep"} => BodyBuffered(q)
  /\ pc[q] \in {"try", "sleep"} => retries[q] >= 1 /\ noted[q] = None
  /\ pc[q] = "try" => tried[q] + retries[q] = Attempts
  /\ pc[q] = "sleep" =>
       /\ tried[q] + retries[q] = Attempts + 1
       /\ cause[q] \in {"BackendRequestError", "NoHealthyBackends"}
  /\ pc[q] \in {"try", "respond"} => cause[q] = "none"
  /\ pc[q] \in {"respond", "done"} /\ BodyBuffered(q) /\ cause[q] = "none" =>
       noted[q] + 1 = tried[q]
  /\ pc[q] = "done" /\ BodyBuffered(q)
       /\ cause[q] \in {"BackendRequestError", "NoHealthyBackends"} =>
       tried[q] = Attempts /\ noted[q] = None
  /\ ~BodyBuffered(q) => tried[q] <= 1 /\ noted[q] = None
  /\ paused[q] <= tried[q]

\* A calm request has healthy nodes in reach, never turned to the fallback,
\* and was never refused for lack of them.
Calm(q) ==
  calm[q] =>
    /\ Usable(slot["main"])
    /\ held[q] # None => HealthyOf(health[held[q]]) # {}
    /\ pc[q] # "fallback"
    /\ cause[q] \notin {"ServiceNotReady", "NoHealthyBackends"}

HInv ==
  /\ HandlerTypeOK
  /\ ManagerInv
  /\ HeldRouterIntact
  /\ \A q \in Request : Progress(q)
  /\ \A q \in Request : Calm(q)

LEMMA HandlerInit == Init => HInv
<1> SUFFICES ASSUME Init PROVE HInv
  OBVIOUS
<1>1. HandlerTypeOK
  BY AttemptsAssumption
  DEF Init, ServingInit, HandlerTypeOK, ServingTypeOK, HealthRecord, NoTargets,
      TargetState, Slot, Pc, Body
<1>2. ManagerInv /\ HeldRouterIntact
  BY DEF Init, ServingInit, ManagerInv, SlotsReady, HeldRouterIntact, Slot
<1>3. ASSUME NEW q \in Request PROVE Progress(q) /\ Calm(q)
  BY AttemptsAssumption DEF Init, Progress, Calm
<1> QED
  BY <1>1, <1>2, <1>3 DEF HInv
-----------------------------------------------------------------------------
(* The manager's steps.                                                    *)

\* What a router is known by survives every answer of a check.
LEMMA ReportKeeps ==
  ASSUME NEW r \in RouterId, NEW n \in Name, NEW v \in Verdict,
         health \in [RouterId -> HealthRecord], Report(r, n, v)
  PROVE  /\ health' \in [RouterId -> HealthRecord]
         /\ \A x \in RouterId : Members(health'[x]) = Members(health[x])
         /\ \A x \in RouterId : AllKnown(health[x]) => AllKnown(health'[x])
<1>1. health[r] \in HealthRecord
  OBVIOUS
<1>2. health'[r] = [health[r] EXCEPT ![n] = v] /\ \A x \in RouterId \ {r} : health'[x] = health[x]
  BY DEF Report
<1>3. health' \in [RouterId -> HealthRecord]
  BY <1>1 DEF Report, HealthRecord, TargetState, Verdict
<1>4. Members(health'[r]) = Members(health[r])
  BY <1>1, <1>2 DEF Report, Members, HealthRecord, Verdict
<1>5. AllKnown(health[r]) => AllKnown(health'[r])
  BY <1>1, <1>2, <1>4 DEF AllKnown, HealthRecord, Verdict, Members
<1> QED
  BY <1>2, <1>3, <1>4, <1>5

\* What a request holds, and what it can load, is left alone.
LEMMA ManagerStep ==
  ASSUME HInv, Manager
  PROVE  ServingTypeOK' /\ ManagerInv' /\ HeldRouterIntact'
<1> USE DEF HInv, HandlerTypeOK, ServingTypeOK
<1>0. UNCHANGED reqVars /\ UNCHANGED held
  BY DEF Manager, reqVars, localVars
<1>1. ASSUME NEW r \in RouterId, NEW ms \in SUBSET Name, Build(r, ms)
      PROVE  ServingTypeOK' /\ ManagerInv' /\ HeldRouterIntact'
  <2>1. NewTargets(ms) \in HealthRecord /\ Members(NewTargets(ms)) = ms
    BY DEF NewTargets, HealthRecord, Members, TargetState
  <2>2. health'[r] = NewTargets(ms) /\ \A x \in RouterId \ {r} : health'[x] = health[x]
    BY <1>1 DEF Build
  <2>3. health' \in [RouterId -> HealthRecord] /\ running' \in SUBSET RouterId
    BY <1>1, <2>1 DEF Build
  <2>4. ManagerInv'
    BY <1>1, <2>1, <2>2 DEF Build, ManagerInv, SlotsReady, Installed
  <2>5. HeldRouterIntact'
    BY <1>0, <1>1, <2>2 DEF Build, HeldRouterIntact
  <2> QED
    BY <1>1, <2>3, <2>4, <2>5 DEF Build
<1>2. ASSUME NEW r \in RouterId, NEW n \in Name, NEW v \in Verdict, Report(r, n, v)
      PROVE  ServingTypeOK' /\ ManagerInv' /\ HeldRouterIntact'
  <2>1. /\ health' \in [RouterId -> HealthRecord]
        /\ \A x \in RouterId : Members(health'[x]) = Members(health[x])
        /\ \A x \in RouterId : AllKnown(health[x]) => AllKnown(health'[x])
    BY <1>2, ReportKeeps
  <2>2. ManagerInv'
    BY <1>2, <2>1 DEF Report, ManagerInv, SlotsReady
  <2>3. HeldRouterIntact'
    BY <1>0, <2>1 DEF HeldRouterIntact
  <2> QED
    BY <1>2, <2>1, <2>2, <2>3 DEF Report
<1>3. ASSUME NEW s \in Slot, NEW x \in RouterId \cup {None}, Install(s, x)
      PROVE  ServingTypeOK' /\ ManagerInv' /\ HeldRouterIntact'
  <2>1. ServingTypeOK'
    BY <1>3 DEF Install
  <2>2. ManagerInv'
    BY <1>3 DEF Install, ManagerInv, SlotsReady
  <2>3. HeldRouterIntact'
    BY <1>0, <1>3 DEF Install, HeldRouterIntact
  <2> QED
    BY <2>1, <2>2, <2>3
<1>4. ASSUME NEW r \in RouterId, StopRouter(r) \/ DropRouter(r)
      PROVE  ServingTypeOK' /\ ManagerInv' /\ HeldRouterIntact'
  <2>1. NoTargets \in HealthRecord
    BY DEF NoTargets, HealthRecord
  <2>2. /\ r \notin Installed /\ UNCHANGED slot
        /\ running' = running \ {r}
        /\ health' \in {health, [health EXCEPT ![r] = NoTargets]}
        /\ Held(r) => health' = health
    BY <1>4 DEF StopRouter, DropRouter, Stop, Release
  <2>3. ServingTypeOK'
    BY <2>1, <2>2
  <2>4. ManagerInv'
    BY <2>2 DEF ManagerInv, SlotsReady, Installed
  <2>5. HeldRouterIntact'
    BY <1>0, <2>2 DEF HeldRouterIntact, Held
  <2> QED
    BY <2>3, <2>4, <2>5
<1> QED
  BY <1>1, <1>2, <1>3, <1>4 DEF Manager
-----------------------------------------------------------------------------
(* A request's steps.                                                      *)

Step(q) == Arrive(q) \/ Handle(q) \/ Forget(q)

Others(q) ==
  \A p \in Request \ {q} :
    /\ pc'[p] = pc[p] /\ body'[p] = body[p] /\ held'[p] = held[p]
    /\ retries'[p] = retries[p] /\ cause'[p] = cause[p] /\ noted'[p] = noted[p]
    /\ tried'[p] = tried[p] /\ paused'[p] = paused[p]

LocalTypes ==
  /\ pc \in [Request -> Pc]
  /\ body \in [Request -> Body]
  /\ held \in [Request -> RouterId \cup {None}]
  /\ retries \in [Request -> 0 .. Attempts]
  /\ cause \in [Request -> ErrorCause \cup {"none"}]
  /\ noted \in [Request -> (0 .. Attempts) \cup {None}]
  /\ tried \in [Request -> 0 .. Attempts]
  /\ paused \in [Request -> 0 .. Attempts]
  /\ seen \in [Request -> RouterId \cup {None}]

\* The steps before the first attempt.
LEMMA EarlyStep ==
  ASSUME HInv, NEW q \in Request,
         Arrive(q) \/ LoadMain(q) \/ LoadFallback(q) \/ BufferRequest(q) \/ Forget(q)
  PROVE  LocalTypes' /\ Progress(q)' /\ Others(q)
<1> USE AttemptsAssumption
    DEF HInv, HandlerTypeOK, ServingTypeOK, Pc, Body, ErrorCause, Goto, Answer,
        Slot
<1>1. CASE Arrive(q)
  BY <1>1 DEF Arrive, LocalTypes, Progress, Others, BodyBuffered
<1>2. CASE LoadMain(q)
  BY <1>2 DEF LoadMain, Route, Usable, LocalTypes, Progress, Others, BodyBuffered
<1>3. CASE LoadFallback(q)
  BY <1>3 DEF LoadFallback, Route, LocalTypes, Progress, Others, BodyBuffered
<1>4. CASE BufferRequest(q)
  BY <1>4 DEF BufferRequest, LocalTypes, Progress, Others, BodyBuffered
<1>5. CASE Forget(q)
  BY <1>5 DEF Forget, LocalTypes, Progress, Others, BodyBuffered
<1> QED
  BY <1>1, <1>2, <1>3, <1>4, <1>5

\* The attempts and what follows them.
LEMMA AttemptStep ==
  ASSUME HInv, NEW q \in Request,
         ExecuteOnce(q) \/ Execute(q) \/ Retry(q) \/ BufferResponse(q)
  PROVE  LocalTypes' /\ Progress(q)' /\ Others(q)
<1> USE AttemptsAssumption
    DEF HInv, HandlerTypeOK, ServingTypeOK, Pc, Body, ErrorCause, Goto, Answer
<1>1. CASE ExecuteOnce(q)
  BY <1>1 DEF ExecuteOnce, Outcome, LocalTypes, Progress, Others, BodyBuffered
<1>2. CASE Execute(q)
  <2>1. /\ pc[q] = "try" /\ BodyBuffered(q) /\ noted[q] = None
        /\ retries[q] \in 1 .. Attempts /\ tried[q] \in 0 .. Attempts
        /\ tried[q] + retries[q] = Attempts /\ paused[q] \in 0 .. tried[q]
        /\ cause[q] = "none"
    BY <1>2 DEF Execute, Progress
  <2>2. /\ tried' = [tried EXCEPT ![q] = @ + 1] /\ tried[q] + 1 \in 0 .. Attempts
        /\ body' = body /\ held' = held /\ retries' = retries /\ seen' = seen
    BY <1>2, <2>1 DEF Execute
  <2>3. BodyBuffered(q)'
    BY <2>1, <2>2 DEF BodyBuffered
  <2>4. CASE /\ pc' = [pc EXCEPT ![q] = "respond"]
             /\ noted' = [noted EXCEPT ![q] = Attempts - retries[q]]
             /\ cause' = cause /\ paused' = paused
    BY <2>1, <2>2, <2>3, <2>4 DEF LocalTypes, Progress, Others
  <2>5. CASE \E o \in {"NoHealthyBackends", "BackendRequestError"} :
             /\ pc' = [pc EXCEPT ![q] = "sleep"]
             /\ cause' = [cause EXCEPT ![q] = o]
             /\ paused' = [paused EXCEPT ![q] =
                             IF o = "NoHealthyBackends" THEN @ + 1 ELSE @]
             /\ noted' = noted
    BY <2>1, <2>2, <2>3, <2>5 DEF LocalTypes, Progress, Others
  <2> QED
    BY <1>2, <2>2, <2>4, <2>5 DEF Execute, Outcome
<1>3. CASE Retry(q)
  BY <1>3 DEF Retry, LocalTypes, Progress, Others, BodyBuffered
<1>4. CASE BufferResponse(q)
  BY <1>4 DEF BufferResponse, LocalTypes, Progress, Others, BodyBuffered
<1> QED
  BY <1>1, <1>2, <1>3, <1>4

LEMMA RequestStep ==
  ASSUME HInv, NEW q \in Request, Step(q)
  PROVE  LocalTypes' /\ Progress(q)' /\ Others(q) /\ UNCHANGED servingVars
<1>1. LocalTypes' /\ Progress(q)' /\ Others(q)
  BY EarlyStep, AttemptStep DEF Step, Handle
<1>2. UNCHANGED servingVars
  BY DEF Step, Handle, Arrive, LoadMain, LoadFallback, ExecuteOnce, BufferRequest,
         Execute, Retry, BufferResponse, Forget
<1> QED
  BY <1>1, <1>2

\* What a request newly holds came out of a slot.
LEMMA HoldsWhatItLoaded ==
  ASSUME HInv, NEW q \in Request, Step(q), held'[q] # None
  PROVE  held'[q] = held[q] \/ \E s \in Slot : held'[q] = slot[s]
<1> USE DEF HInv, HandlerTypeOK, ServingTypeOK
<1>1. CASE LoadMain(q)
  BY <1>1 DEF LoadMain, Route, Slot
<1>2. CASE LoadFallback(q)
  BY <1>2 DEF LoadFallback, Route, Answer, Slot
<1>3. CASE ~(LoadMain(q) \/ LoadFallback(q))
  BY <1>3 DEF Step, Handle, Arrive, ExecuteOnce, BufferRequest, Execute, Retry,
              BufferResponse, Forget, Answer
<1> QED
  BY <1>1, <1>2, <1>3

\* As long as it is calm it neither turns to the fallback nor is refused.
LEMMA CalmStep ==
  ASSUME HInv, NEW q \in Request, Step(q), calm[q] \/ pc[q] = "idle"
  PROVE  /\ pc'[q] # "fallback"
         /\ cause'[q] \notin {"ServiceNotReady", "NoHealthyBackends"}
<1> USE DEF HInv, HandlerTypeOK, ServingTypeOK, Goto, Answer, ErrorCause, Pc
<1>1. CASE Arrive(q)
  BY <1>1 DEF Arrive, Progress
<1>2. CASE LoadMain(q)
  BY <1>2 DEF LoadMain, Route, Calm
<1>3. CASE LoadFallback(q)
  BY <1>3 DEF LoadFallback, Calm
<1>4. CASE ExecuteOnce(q)
  BY <1>4 DEF ExecuteOnce, Outcome, Calm, Progress
<1>5. CASE BufferRequest(q)
  BY <1>5 DEF BufferRequest, Calm
<1>6. CASE Execute(q)
  BY <1>6 DEF Execute, Outcome, Calm, Progress
<1>7. CASE Retry(q)
  BY <1>7 DEF Retry, Calm
<1>8. CASE BufferResponse(q)
  BY <1>8 DEF BufferResponse, Calm
<1>9. CASE Forget(q)
  BY <1>9 DEF Forget
<1> QED
  BY <1>1, <1>2, <1>3, <1>4, <1>5, <1>6, <1>7, <1>8, <1>9 DEF Step, Handle
-----------------------------------------------------------------------------
LEMMA HandlerNext == HInv /\ [Next]_vars => HInv'
<1> SUFFICES ASSUME HInv, [Next]_vars PROVE HInv'
  OBVIOUS
<1>1. CASE UNCHANGED vars
  BY <1>1
  DEF HInv, HandlerTypeOK, ServingTypeOK, ManagerInv, SlotsReady, HeldRouterIntact,
      Progress, Calm, Usable, BodyBuffered, Installed, vars, servingVars, reqVars,
      localVars
<1>2. ASSUME Next PROVE calm' \in [Request -> BOOLEAN]
  BY <1>2 DEF Next, Watch
<1>3. CASE Manager /\ Watch
  <2>1. ServingTypeOK' /\ ManagerInv' /\ HeldRouterIntact'
    BY <1>3, ManagerStep
  <2>2. /\ pc' = pc /\ body' = body /\ held' = held /\ retries' = retries
        /\ cause' = cause /\ noted' = noted /\ tried' = tried /\ paused' = paused
        /\ seen' = seen
    BY <1>3 DEF Manager, reqVars, localVars
  <2>3. HandlerTypeOK'
    BY <1>2, <1>3, <2>1, <2>2 DEF HInv, HandlerTypeOK, Next
  <2>4. ASSUME NEW q \in Request PROVE Progress(q)'
    BY <2>2 DEF HInv, Progress, BodyBuffered
  <2>5. ASSUME NEW q \in Request PROVE Calm(q)'
    BY <1>3, <2>2 DEF HInv, Calm, Watch, Usable
  <2> QED
    BY <2>1, <2>3, <2>4, <2>5 DEF HInv
<1>4. ASSUME NEW q \in Request, Step(q), Watch PROVE HInv'
  <2>1. LocalTypes' /\ Progress(q)' /\ Others(q) /\ UNCHANGED servingVars
    BY <1>4, RequestStep
  <2>2. HandlerTypeOK' /\ ManagerInv'
    <3>1. Next
      BY <1>4 DEF Next, Step
    <3>2. ServingTypeOK' /\ ManagerInv'
      BY <2>1 DEF HInv, HandlerTypeOK, ServingTypeOK, ManagerInv, SlotsReady, servingVars
    <3> QED
      BY <1>2, <2>1, <3>1, <3>2 DEF HandlerTypeOK, LocalTypes
  <2>3. HeldRouterIntact'
    <3> SUFFICES ASSUME NEW p \in Request, held'[p] # None
                 PROVE  Members(health[held'[p]]) # {} /\ AllKnown(health[held'[p]])
      BY <2>1 DEF HeldRouterIntact, servingVars
    <3>1. held'[p] = held[p] \/ \E s \in Slot : held'[p] = slot[s]
      BY <1>4, <2>1, HoldsWhatItLoaded DEF Others
    <3> QED
      BY <3>1 DEF HInv, HeldRouterIntact, ManagerInv, SlotsReady
  <2>4. ASSUME NEW p \in Request PROVE Progress(p)'
    <3>1. CASE p = q
      BY <2>1, <3>1
    <3>2. CASE p # q
      BY <2>1, <3>2 DEF HInv, Progress, Others, BodyBuffered
    <3> QED
      BY <3>1, <3>2
  <2>5. ASSUME NEW p \in Request PROVE Calm(p)'
    <3>1. CASE p = q
      BY <1>4, <3>1, CalmStep DEF Calm, Watch, Usable
    <3>2. CASE p # q
      BY <1>4, <2>1, <3>2 DEF HInv, Calm, Watch, Usable, Others
    <3> QED
      BY <3>1, <3>2
  <2> QED
    BY <2>2, <2>3, <2>4, <2>5 DEF HInv
<1> QED
  BY <1>1, <1>3, <1>4 DEF Next, Step

\* The inductive invariant of the handler and the manager around it.
THEOREM HandlerInvariance == Spec => []HInv
  BY HandlerInit, HandlerNext, PTL DEF Spec

\* Every variable is of its type; the countdown of attempts stays within
\* 0 .. Attempts (routing.rs:228-252).
THEOREM HandlerTypeCorrect == Spec => []HandlerTypeOK
<1>1. HInv => HandlerTypeOK
  BY DEF HInv
<1> QED
  BY <1>1, HandlerInvariance, PTL

\* A router stays intact for whoever holds it, however many requests and
\* replacements there are (routing.rs:178-256).
THEOREM HeldRoutersStayIntact == Spec => []HeldRouterIntact
<1>1. HInv => HeldRouterIntact
  BY DEF HInv
<1> QED
  BY <1>1, HandlerInvariance, PTL

\* A body that was not buffered is sent at most once (routing.rs:200-216).
THEOREM StreamsAreSentOnce == Spec => []StreamedOnce
<1>1. HInv => StreamedOnce
  BY DEF HInv, Progress, StreamedOnce, BodyBuffered
<1> QED
  BY <1>1, HandlerInvariance, PTL

\* For every retry_attempts the loop uses its attempts exactly
\* (routing.rs:228-260).
THEOREM AttemptsAreUsed == Spec => []EveryAttemptUsed
<1>1. HInv => EveryAttemptUsed
  BY AttemptsAssumption DEF HInv, HandlerTypeOK, Progress, EveryAttemptUsed
<1> QED
  BY <1>1, HandlerInvariance, PTL

\* A request with healthy nodes in reach all the time is not refused for lack
\* of them, whatever the manager replaces (backend.rs:323-330).
THEOREM SwapsInterruptNobody == Spec => []SwapsDoNotInterrupt
<1>1. HInv => SwapsDoNotInterrupt
  BY DEF HInv, Calm, SwapsDoNotInterrupt
<1> QED
  BY <1>1, HandlerInvariance, PTL
-----------------------------------------------------------------------------
(* The manager a request sees, `Manager`, takes only steps of Serving.     *)

\* The manager beside the requests does nothing that Serving does not allow,
\* and a request changes no slot and no router: a handler only reads them
\* (routing.rs:97-111).  The memory a request keeps alive shows only in what
\* Serving leaves open.
THEOREM ManagerIsServing == Spec => ServingSpec
<1>1. Init => ServingInit
  BY DEF Init
<1>2. [Next]_vars => [ServingNext]_servingVars
  <2>1. CASE UNCHANGED vars
    BY <2>1 DEF vars
  <2>2. CASE Manager
    BY <2>2 DEF Manager, StopRouter, DropRouter, ServingNext
  <2>3. ASSUME NEW q \in Request, Step(q) PROVE UNCHANGED servingVars
    BY <2>3 DEF Step, Handle, Arrive, LoadMain, LoadFallback, ExecuteOnce,
                BufferRequest, Execute, Retry, BufferResponse, Forget
  <2> QED
    BY <2>1, <2>2, <2>3 DEF Next, Step
<1> QED
  BY <1>1, <1>2, PTL DEF Spec, ServingSpec
-----------------------------------------------------------------------------
(* The safety half of RequestsComplete.                                    *)

\* How many steps a request has before it at most: an attempt and its sleep
\* for each that is left, and a few around them.
StepsLeft(q) ==
  CASE pc[q] \in {"idle", "done"} -> 0
    [] pc[q] = "respond" -> 1
    [] pc[q] = "once" -> 2
    [] pc[q] = "sleep" -> 2 * retries[q]
    [] pc[q] = "try" -> 2 * retries[q] + 1
    [] pc[q] = "buffer" -> 2 * Attempts + 2
    [] pc[q] = "fallback" -> 2 * Attempts + 3
    [] pc[q] = "main" -> 2 * Attempts + 4

\* Nothing anybody does gives a request more to do, and its own steps leave it
\* less.
RequestsAdvance ==
  [][\A q \in Request : pc[q] \notin {"idle", "done"} =>
       \/ UNCHANGED <<pc[q], retries[q]>>
       \/ StepsLeft(q)' < StepsLeft(q)]_vars

\* The step counts, as numbers.
LEMMA StepCounts ==
  ASSUME NEW q \in Request
  PROVE  /\ pc[q] \in {"idle", "done"} => StepsLeft(q) = 0
         /\ pc[q] = "respond" => StepsLeft(q) = 1
         /\ pc[q] = "once" => StepsLeft(q) = 2
         /\ pc[q] = "sleep" => StepsLeft(q) = 2 * retries[q]
         /\ pc[q] = "try" => StepsLeft(q) = 2 * retries[q] + 1
         /\ pc[q] = "buffer" => StepsLeft(q) = 2 * Attempts + 2
         /\ pc[q] = "fallback" => StepsLeft(q) = 2 * Attempts + 3
         /\ pc[q] = "main" => StepsLeft(q) = 2 * Attempts + 4
BY DEF StepsLeft

LEMMA StepCountsNext ==
  ASSUME NEW q \in Request
  PROVE  /\ pc'[q] \in {"idle", "done"} => StepsLeft(q)' = 0
         /\ pc'[q] = "respond" => StepsLeft(q)' = 1
         /\ pc'[q] = "once" => StepsLeft(q)' = 2
         /\ pc'[q] = "sleep" => StepsLeft(q)' = 2 * retries'[q]
         /\ pc'[q] = "try" => StepsLeft(q)' = 2 * retries'[q] + 1
         /\ pc'[q] = "buffer" => StepsLeft(q)' = 2 * Attempts + 2
         /\ pc'[q] = "fallback" => StepsLeft(q)' = 2 * Attempts + 3
         /\ pc'[q] = "main" => StepsLeft(q)' = 2 * Attempts + 4
BY DEF StepsLeft

\* A request ends after at most 2 * Attempts + 4 steps of its own, however
\* often the manager replaces the routers: the loop cannot be kept going
\* (routing.rs:228-252).
THEOREM RequestsAreBounded == Spec => RequestsAdvance
<1> DEFINE A == \A q \in Request : pc[q] \notin {"idle", "done"} =>
                  \/ UNCHANGED <<pc[q], retries[q]>>
                  \/ StepsLeft(q)' < StepsLeft(q)
<1>1. HInv /\ [Next]_vars => [A]_vars
  <2> SUFFICES ASSUME HInv, [Next]_vars, NEW q \in Request, pc[q] \notin {"idle", "done"}
               PROVE  \/ UNCHANGED <<pc[q], retries[q]>>
                      \/ StepsLeft(q)' < StepsLeft(q)
    OBVIOUS
  <2>1. CASE Manager \/ UNCHANGED vars
    BY <2>1 DEF Manager, reqVars, localVars, vars
  <2>2. ASSUME NEW p \in Request, p # q, Step(p)
        PROVE  UNCHANGED <<pc[q], retries[q]>>
    BY <2>2, RequestStep DEF Others
  <2>3. ASSUME Step(q) PROVE StepsLeft(q)' < StepsLeft(q)
    <3> USE AttemptsAssumption, StepCounts, StepCountsNext
        DEF HInv, HandlerTypeOK, Pc, Goto, Answer
    <3>0. /\ pc[q] \in Pc /\ retries[q] \in 0 .. Attempts /\ Attempts \in Nat
          /\ pc[q] \in {"try", "sleep"} => retries[q] >= 1
      BY DEF Progress
    <3>1. CASE Arrive(q)
      BY <3>1 DEF Arrive
    <3>2. CASE LoadMain(q)
      BY <3>0, <3>2 DEF LoadMain, Route
    <3>3. CASE LoadFallback(q)
      BY <3>0, <3>3 DEF LoadFallback, Route
    <3>4. CASE ExecuteOnce(q)
      BY <3>0, <3>4 DEF ExecuteOnce
    <3>5. CASE BufferRequest(q)
      BY <3>0, <3>5 DEF BufferRequest
    <3>6. CASE Execute(q)
      BY <3>0, <3>6 DEF Execute
    <3>7. CASE Retry(q)
      BY <3>0, <3>7 DEF Retry
    <3>8. CASE BufferResponse(q)
      BY <3>0, <3>8 DEF BufferResponse
    <3>9. CASE Forget(q)
      BY <3>0, <3>9 DEF Forget
    <3> QED
      BY <2>3, <3>1, <3>2, <3>3, <3>4, <3>5, <3>6, <3>7, <3>8, <3>9 DEF Step, Handle
  <2> QED
    BY <2>1, <2>2, <2>3 DEF Next, Step
<1>2. Spec => [][A]_vars
  BY <1>1, HandlerInvariance, PTL DEF Spec
<1> QED
  BY <1>2 DEF RequestsAdvance
-----------------------------------------------------------------------------
(* What is true of WaitsForHealthyNodes.                                   *)

\* A buffered request that is refused because no node was healthy has waited
\* for one.
SleepsFirst ==
  \A q \in Request : BodyBuffered(q) /\ cause[q] = "NoHealthyBackends" => paused[q] > 0

\* The promise of cli.rs:210 holds once a request has got a router; what
\* finding 2 shows is a request that got none (routing.rs:236-239).
THEOREM SleepsBeforeRefusal == Spec => []SleepsFirst
<1>1. Init => SleepsFirst
  BY DEF Init, SleepsFirst
<1>2. HInv /\ SleepsFirst /\ [Next]_vars => SleepsFirst'
  <2> SUFFICES ASSUME HInv, SleepsFirst, [Next]_vars,
                      NEW q \in Request, BodyBuffered(q)', cause'[q] = "NoHealthyBackends"
               PROVE  paused'[q] > 0
    BY DEF SleepsFirst
  <2>1. CASE Manager \/ UNCHANGED vars
    BY <2>1 DEF Manager, reqVars, localVars, vars, SleepsFirst, BodyBuffered
  <2>2. ASSUME NEW p \in Request, p # q, Step(p)
        PROVE  paused'[q] > 0
    BY <2>2, RequestStep DEF Others, SleepsFirst, BodyBuffered
  <2>3. ASSUME Step(q) PROVE paused'[q] > 0
    <3> USE DEF HInv, HandlerTypeOK, Goto, Answer, BodyBuffered, SleepsFirst
    <3>1. CASE Arrive(q) \/ Forget(q)
      BY <3>1 DEF Arrive, Forget, Progress
    <3>2. CASE LoadMain(q) \/ LoadFallback(q) \/ BufferRequest(q)
      BY <3>2 DEF LoadMain, LoadFallback, Route, BufferRequest, Progress
    <3>3. CASE ExecuteOnce(q)
      BY <3>3 DEF ExecuteOnce, Progress
    <3>4. CASE Execute(q)
      BY <3>4 DEF Execute
    <3>5. CASE Retry(q) \/ BufferResponse(q)
      BY <3>5 DEF Retry, BufferResponse
    <3> QED
      BY <2>3, <3>1, <3>2, <3>3, <3>4, <3>5 DEF Step, Handle
  <2> QED
    BY <2>1, <2>2, <2>3 DEF Next, Step
<1> QED
  BY <1>1, <1>2, HandlerInvariance, PTL DEF Spec
=============================================================================
