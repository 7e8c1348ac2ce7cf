-------------------------- MODULE ControlApiProofs --------------------------
(***************************************************************************)
(* Theorems about Boot and ControlApi, for every set of options.           *)
(***************************************************************************)
EXTENDS ControlApi, TLAPS

\* What has been registered fits together, and nothing runs before the start:
\* each server is registered after what it serves from (core.rs:114-221).
BootInv ==
  /\ opts \in SUBSET Option /\ Accepted(opts)
  /\ stage \in Stage
  /\ loaded \in BOOLEAN
  /\ verdict \in {"none", "ok", "error", "panic"}
  /\ running \in {{}, added}
  /\ running # {} => stage = "up"
  /\ stage = "up" => loaded /\ verdict = "ok"
  /\ stage = "start" => loaded
  /\ loaded => "backend_manager" \in added
  /\ stage = "https" => HasProvider /\ "cert_aggregator" \in added
  /\ "server_https" \in added => HasProvider /\ "cert_aggregator" \in added
  /\ "metrics_server" \in added => "metrics_runner" \in added
  /\ "server_api" \in added => Given("api_listen")
  /\ "acme_alpn" \in added => stage \in {"https", "over"} \/ "server_https" \in added

LEMMA BootInitial == BootInit => BootInv
<1> SUFFICES ASSUME BootInit PROVE BootInv
  OBVIOUS
<1>1. opts \in SUBSET Option /\ Accepted(opts)
  BY ChoiceAssumption DEF BootInit
<1> QED BY <1>1 DEF BootInit, BootInv, Stage

\* A step that registers `ts` and goes on.
LEMMA AdvanceStep ==
  ASSUME BootInv, NEW s \in Stage, NEW next \in Stage \ {"up", "start", "over", "https"},
         NEW ts, Advance(s, next, ts),
         ts \cap {"server_https", "acme_alpn"} = {},
         s \notin {"https", "up", "over"},
         "metrics_server" \in ts => "metrics_runner" \in ts,
         "server_api" \in ts => Given("api_listen")
  PROVE  BootInv'
<1>1. /\ stage = s /\ stage' = next /\ added' = added \cup ts
      /\ UNCHANGED <<opts, running, loaded, verdict>>
  BY DEF Advance
<1>2. Accepted(opts)' /\ HasProvider' = HasProvider /\ Given("api_listen")' = Given("api_listen")
  BY <1>1 DEF BootInv, Accepted, HasProvider, Given
<1>3. running = {} \/ stage = "up"
  BY DEF BootInv
<1> QED BY <1>1, <1>2, <1>3 DEF BootInv

\* A start that fails leaves nothing running.
LEMMA EndStep ==
  ASSUME BootInv, NEW s \in Stage, NEW v \in {"error", "panic"}, End(s, v)
  PROVE  BootInv'
<1>1. /\ stage' = "over" /\ running' = {} /\ verdict' = v
      /\ UNCHANGED <<opts, added, loaded>>
  BY DEF End
<1>2. Accepted(opts)' /\ HasProvider' = HasProvider /\ Given("api_listen")' = Given("api_listen")
  BY <1>1 DEF BootInv, Accepted, HasProvider, Given
<1> QED BY <1>1, <1>2 DEF BootInv, Stage

LEMMA BootNext == BootInv /\ BootStep => BootInv'
<1> SUFFICES ASSUME BootInv, BootStep PROVE BootInv'
  OBVIOUS
<1>1. CASE SetupBase \/ SetupVector \/ SetupRouter
  <2>1. {} \cap {"server_https", "acme_alpn"} = {}
    OBVIOUS
  <2> QED BY <1>1, <2>1, AdvanceStep, EndStep DEF SetupBase, SetupVector, SetupRouter, Stage
<1>2. CASE SetupWaf \/ SetupApi \/ SetupHttp
  BY <1>2, AdvanceStep, EndStep DEF SetupWaf, SetupApi, SetupHttp, Stage
<1>3. CASE SetupApiServer
  BY <1>3, AdvanceStep, EndStep DEF SetupApiServer, Stage
<1>4. CASE SetupMetrics
  BY <1>4, AdvanceStep, EndStep DEF SetupMetrics, Stage
<1>5. CASE SetupTls
  <2>1. CASE Given("http_only") /\ Advance("tls", "load", {})
    BY <2>1, AdvanceStep DEF Stage
  <2>2. CASE End("tls", "panic") \/ End("tls", "error")
    BY <2>2, EndStep DEF Stage
  <2>3. ASSUME NEW ts, HasProvider, "cert_aggregator" \in ts, Advance("tls", "https", ts),
               ts \subseteq {"cert_aggregator", "acme_alpn", "custom_domains"}
        PROVE  BootInv'
    <3>1. /\ stage = "tls" /\ stage' = "https" /\ added' = added \cup ts
          /\ UNCHANGED <<opts, running, loaded, verdict>>
      BY <2>3 DEF Advance
    <3>2. Accepted(opts)' /\ HasProvider' /\ Given("api_listen")' = Given("api_listen")
      BY <2>3, <3>1 DEF BootInv, Accepted, HasProvider, Given
    <3>3. running = {}
      BY <3>1 DEF BootInv
    <3> QED BY <2>3, <3>1, <3>2, <3>3 DEF BootInv, Stage
  <2> DEFINE ts == {"cert_aggregator"}
                   \cup (IF Given("api_acme") THEN {"acme_alpn"} ELSE {})
                   \cup (IF Given("custom_domains") THEN {"custom_domains"} ELSE {})
  <2>4. /\ "cert_aggregator" \in ts
        /\ ts \subseteq {"cert_aggregator", "acme_alpn", "custom_domains"}
    OBVIOUS
  <2>5. CASE HasProvider /\ Advance("tls", "https", ts)
    <3> HIDE DEF ts
    <3> QED BY <2>3, <2>4, <2>5
  <2> QED BY <1>5, <2>1, <2>2, <2>5 DEF SetupTls
<1>6. CASE SetupHttps
  <2>1. CASE End("https", "error")
    BY <2>1, EndStep DEF Stage
  <2>2. CASE Advance("https", "load", {"server_https"})
    <3>1. /\ stage = "https" /\ stage' = "load" /\ added' = added \cup {"server_https"}
          /\ UNCHANGED <<opts, running, loaded, verdict>>
      BY <2>2 DEF Advance
    <3>2. Accepted(opts)' /\ HasProvider' /\ Given("api_listen")' = Given("api_listen")
      BY <3>1 DEF BootInv, Accepted, HasProvider, Given
    <3>3. running = {}
      BY <3>1 DEF BootInv
    <3> QED BY <3>1, <3>2, <3>3 DEF BootInv, Stage
  <2> QED BY <1>6, <2>1, <2>2 DEF SetupHttps
<1>7. CASE LoadConfig
  <2>1. CASE End("load", "error")
    BY <2>1, EndStep DEF Stage
  <2>2. CASE /\ stage = "load" /\ stage' = "start" /\ loaded' = TRUE
             /\ added' = added \cup {"backend_manager"}
             /\ UNCHANGED <<opts, running, verdict>>
    <3>1. Accepted(opts)' /\ HasProvider' = HasProvider
          /\ Given("api_listen")' = Given("api_listen")
      BY <2>2 DEF BootInv, Accepted, HasProvider, Given
    <3>2. running = {}
      BY <2>2 DEF BootInv
    <3> QED BY <2>2, <3>1, <3>2 DEF BootInv, Stage
  <2> QED BY <1>7, <2>1, <2>2 DEF LoadConfig
<1>8. CASE StartTasks
  <2>1. /\ stage = "start" /\ stage' = "up" /\ running' = added /\ verdict' = "ok"
        /\ UNCHANGED <<opts, added, loaded>>
    BY <1>8 DEF StartTasks
  <2>2. Accepted(opts)' /\ HasProvider' = HasProvider
        /\ Given("api_listen")' = Given("api_listen")
    BY <2>1 DEF BootInv, Accepted, HasProvider, Given
  <2> QED BY <2>1, <2>2 DEF BootInv, Stage
<1> QED BY <1>1, <1>2, <1>3, <1>4, <1>5, <1>6, <1>7, <1>8 DEF BootStep
-----------------------------------------------------------------------------
\* A request is served under the options the process came up with.
ApiInv ==
  /\ BootInv
  /\ level \in Level
  /\ current \in [req : HttpRequest, answer : Answer \cup {"none"}]
  /\ ApiStaysBehindItsName
  /\ ApiRequestsStayHere

LEMMA IdleIsCurrent == Idle \in [req : HttpRequest, answer : Answer \cup {"none"}]
BY DEF Idle, HttpRequest, Route

LEMMA ApiInitial == ApiInit => ApiInv
<1> SUFFICES ASSUME ApiInit PROVE ApiInv
  OBVIOUS
<1>1. current = Idle /\ current.answer = "none"
  BY DEF ApiInit, Idle
<1> QED BY <1>1, BootInitial, IdleIsCurrent
        DEF ApiInit, ApiInv, Level, ApiStaysBehindItsName, ApiRequestsStayHere, ByTheApi

\* One request, from its arrival to its answer.
LEMMA ReceiveStep == \A q \in HttpRequest : ApiInv /\ Receive(q) => ApiInv'
<1> SUFFICES ASSUME NEW q \in HttpRequest, ApiInv, Receive(q) PROVE ApiInv'
  OBVIOUS
<1>1. BootInv' /\ \A o : Given(o)' = Given(o)
  BY DEF Receive, bootVars, ApiInv, BootInv, Accepted, HasProvider, Given
<1>2. q.door = "server_api" => Given("api_listen")
  BY DEF Receive, ApiInv, BootInv
<1>3. CASE PassBy(q)
  <2>1. PICK a \in {"redirect", "blocked", "no_authority", "proxied"} :
          /\ current' = [req |-> q, answer |-> a]
          /\ a = "proxied" => ~ForApi(q)
          /\ a = "proxied" => q.door # "server_api"
    BY <1>3 DEF PassBy, Served
  <2>2. current'.req = q /\ current'.answer = a
    BY <2>1
  <2>3. ApiStaysBehindItsName'
    BY <2>2 DEF ApiStaysBehindItsName, ByTheApi
  <2>4. ApiRequestsStayHere'
    BY <1>1, <2>1, <2>2 DEF ApiRequestsStayHere, ForApi, ApiEnabled
  <2>5. current' \in [req : HttpRequest, answer : Answer \cup {"none"}]
    BY <2>1 DEF Answer
  <2> QED BY <1>1, <1>3, <2>3, <2>4, <2>5 DEF PassBy, ApiInv
<1>4. CASE Refuse(q) \/ Run(q)
  <2>1. PICK a \in {"unauthorized", "not_found", "bad_request", "done"} :
          current' = [req |-> q, answer |-> a]
    BY <1>4 DEF Refuse, Run, Served
  <2>2. current'.req = q /\ current'.answer = a
    BY <2>1
  <2>3. ~Redirected(q) /\ ForApi(q)
    BY <1>4 DEF Refuse, Run
  <2>4. ApiStaysBehindItsName'
    BY <1>1, <1>2, <2>2, <2>3 DEF ApiStaysBehindItsName, ForApi, Redirected
  <2>5. ApiRequestsStayHere'
    BY <2>2 DEF ApiRequestsStayHere
  <2>6. current' \in [req : HttpRequest, answer : Answer \cup {"none"}]
    BY <2>1 DEF Answer
  <2>7. level' \in Level
    BY <1>4 DEF Refuse, Run, ApiInv
  <2> QED BY <1>1, <2>4, <2>5, <2>6, <2>7 DEF ApiInv
<1> QED BY <1>3, <1>4 DEF Receive

LEMMA ApiStep == ApiInv /\ [ApiNext]_<<bootVars, apiVars>> => ApiInv'
<1> SUFFICES ASSUME ApiInv, [ApiNext]_<<bootVars, apiVars>> PROVE ApiInv'
  OBVIOUS
<1>1. CASE UNCHANGED <<bootVars, apiVars>>
  BY <1>1 DEF bootVars, apiVars, ApiInv, BootInv, Accepted, HasProvider, Given,
     ApiStaysBehindItsName, ApiRequestsStayHere
<1>2. CASE BootStep /\ UNCHANGED apiVars
  <2>1. BootInv'
    BY <1>2, BootNext DEF ApiInv
  <2>2. opts' = opts
    BY <1>2 DEF BootStep, SetupBase, SetupVector, SetupWaf, SetupApi, SetupRouter,
       SetupHttp, SetupApiServer, SetupMetrics, SetupTls, SetupHttps, LoadConfig,
       StartTasks, Advance, End
  <2> QED BY <1>2, <2>1, <2>2 DEF apiVars, ApiInv, ApiStaysBehindItsName,
          ApiRequestsStayHere, Given
<1>3. CASE Answered
  <2>1. current' = Idle /\ current'.answer = "none" /\ UNCHANGED <<bootVars, level>>
    BY <1>3 DEF Answered, Idle
  <2>2. BootInv'
    BY <2>1 DEF bootVars, ApiInv, BootInv, Accepted, HasProvider, Given
  <2> QED BY <2>1, <2>2, IdleIsCurrent
          DEF ApiInv, ApiStaysBehindItsName, ApiRequestsStayHere, ByTheApi
<1>4. ASSUME NEW q \in HttpRequest, Receive(q)
      PROVE  ApiInv'
  BY <1>4, ReceiveStep
<1> QED BY <1>1, <1>2, <1>3, <1>4 DEF ApiNext

THEOREM ApiInvariance == ApiSpec => []ApiInv
BY ApiInitial, ApiStep, PTL DEF ApiSpec

\* Type correctness; what runs is nothing or all that was registered.
THEOREM ApiTypeCorrect == ApiSpec => []ApiTypeOK
<1>1. ApiInv => ApiTypeOK
  BY DEF ApiInv, BootInv, ApiTypeOK, BootTypeOK
<1> QED BY <1>1, ApiInvariance, PTL

\* Nothing runs before the first configuration is served (core.rs:217, 224).
THEOREM LoadedBeforeServing == ApiSpec => []ReadyBeforeServing
<1>1. ApiInv => ReadyBeforeServing
  BY DEF ApiInv, BootInv, ReadyBeforeServing
<1> QED BY <1>1, ApiInvariance, PTL

\* Servers that run have what they serve from (tls.rs:54, core.rs:182).
THEOREM Supplied == ApiSpec => []ServersAreSupplied
<1>1. ApiInv => ServersAreSupplied
  BY DEF ApiInv, BootInv, ServersAreSupplied
<1> QED BY <1>1, ApiInvariance, PTL

\* The API answers on its listener and under its name only (routing.rs:323).
THEOREM BehindItsName == ApiSpec => []ApiStaysBehindItsName
<1>1. ApiInv => ApiStaysBehindItsName
  BY DEF ApiInv
<1> QED BY <1>1, ApiInvariance, PTL

\* What is sent to the API is not proxied (routing.rs:323-331).
THEOREM NotProxied == ApiSpec => []ApiRequestsStayHere
<1>1. ApiInv => ApiRequestsStayHere
  BY DEF ApiInv
<1> QED BY <1>1, ApiInvariance, PTL

\* Nothing is done for a request without the token (api.rs:33-52, 178-191).
THEOREM TokenRequired == ApiSpec => ActsOnlyForTheToken
<1> DEFINE Acts == level' # level
                   \/ (current' # current /\ current'.answer \in {"done", "bad_request"})
           Allowed == \/ current'.req.auth = "right" /\ Given("api_token")
                      \/ current'.req.route = "health" /\ level' = level
<1>1. ApiInv /\ [ApiNext]_<<bootVars, apiVars>> => [Acts => Allowed]_<<level, current>>
  <2> SUFFICES ASSUME ApiInv, ApiNext, Acts PROVE Allowed
    BY DEF apiVars
  <2>1. ~(BootStep /\ UNCHANGED apiVars) /\ ~Answered
    BY DEF apiVars, Answered, Idle
  <2>2. PICK q \in HttpRequest : Receive(q)
    BY <2>1 DEF ApiNext
  <2>3. ~PassBy(q) /\ ~Refuse(q)
    BY DEF PassBy, Refuse, Served
  <2>4. Run(q)
    BY <2>2, <2>3 DEF Receive
  <2>5. current'.req = q
    BY <2>4 DEF Run, Served
  <2>6. q.door = "server_api" => Given("api_listen")
    BY <2>2 DEF Receive, ApiInv, BootInv
  <2>7. Given("api_token")
    BY <2>4, <2>6 DEF Run, ForApi, ApiEnabled, ApiInv, BootInv, Accepted, Given
  <2>8. Open(q) => level' = level
    BY <2>4 DEF Run, Open
  <2> QED BY <2>4, <2>5, <2>7, <2>8 DEF Run, Open
<1> QED BY <1>1, ApiInvariance, PTL DEF ApiSpec, ActsOnlyForTheToken
=============================================================================
