----------------------------- MODULE ControlApi -----------------------------
(***************************************************************************)
(* Who gets at the control API once the process is up: the servers that    *)
(* Boot started, the dispatch by host in `setup_axum_router`               *)
(* (src/routing.rs), and the routes of src/api.rs with their middleware.   *)
(* From its arrival to the call of its handler a request awaits nothing,   *)
(* so serving it is one step; what the manager then does is the subject of *)
(* BackendManager, and `done` stands for that.                             *)
(***************************************************************************)
EXTENDS Boot

\* The routes of setup_api_axum_router, and one that is not there.
ManagerRoute == {"backend", "config_reload", "config_get", "config_put"}
Route == ManagerRoute \cup {"health", "log", "waf", "elsewhere"}

Level == {"warn", "debug"}      \* two of the log levels

\* What matters of a request: the server it comes to, its authority, its
\* Authorization header, the path, and whether the handler can parse the rest.
HttpRequest == [door : {"server_http", "server_https", "server_api"},
                host : {"none", "api_hostname", "other"},
                auth : {"none", "malformed", "wrong", "right"},
                route : Route,
                sound : BOOLEAN]

Answer == {"redirect", "blocked", "no_authority", "proxied", "unauthorized",
           "not_found", "bad_request", "done"}

VARIABLES
  level,        \* the level in the reload handle of the log
  current       \* the request being served with its answer, or Idle

apiVars == <<level, current>>

Idle == [req |-> [door |-> "server_http", host |-> "none", auth |-> "none",
                  route |-> "elsewhere", sound |-> FALSE],
         answer |-> "none"]

ApiInit ==
  /\ BootInit
  /\ level = "warn"
  /\ current = Idle

\* Mutant of ForApi: the request's host is not compared.
ForApiAny(q) == q.door = "server_api" \/ ApiEnabled

\* Mutant of ForApi: a process with a listener of its own for the API does
\* not answer on the hostname.
ForApiListener(q) ==
  \/ q.door = "server_api"
  \/ q.host = "api_hostname" /\ Given("api_hostname") /\ ~Given("api_listen")

\* setup_axum_router: the fallback hands a request to the API by its host.
ForApi(q) ==
  \/ q.door = "server_api"
  \/ q.host = "api_hostname" /\ Given("api_hostname") /\ ApiEnabled

\* The HTTP server redirects everything, unless it is to serve.
Redirected(q) == q.door = "server_http" /\ ~Given("http_only")

Routed(q) ==
  /\ q.route # "elsewhere"
  /\ q.route = "waf" => Given("waf_enable")

\* Mutant of Open: the layer is missing on the route of the log level.
OpenLog(q) == q.route \in {"health", "log"}

\* The routes that do not go through auth_middleware.
Open(q) == q.route = "health"

Served(q, answer) == current' = [req |-> q, answer |-> answer]

\* The request does not reach the API.
PassBy(q) ==
  /\ \/ Redirected(q) /\ Served(q, "redirect")
     \/ /\ ~Redirected(q) /\ q.door # "server_api"
        /\ \/ Given("waf_enable") /\ Served(q, "blocked")
           \/ q.host = "none" /\ Served(q, "no_authority")
           \/ q.host # "none" /\ ~ForApi(q) /\ Served(q, "proxied")
  /\ UNCHANGED level

\* It does, and is refused by the router or by the middleware.
Refuse(q) ==
  /\ ~Redirected(q) /\ ForApi(q)
  /\ \/ ~Routed(q) /\ Served(q, "not_found")
     \/ /\ Routed(q) /\ ~Open(q) /\ q.auth # "right"
        /\ Served(q, "unauthorized")
  /\ UNCHANGED level

\* Mutant of Run: the level is set to what could not be parsed.
RunUnparsed(q) ==
  /\ ~Redirected(q) /\ ForApi(q)
  /\ Routed(q) /\ (Open(q) \/ q.auth = "right")
  /\ Served(q, IF q.sound THEN "done" ELSE "bad_request")
  /\ IF q.route = "log" THEN level' \in IF q.sound THEN Level ELSE {"unparsed"}
                        ELSE UNCHANGED level

\* The handler runs.  The log level is the only state of its own.
Run(q) ==
  /\ ~Redirected(q) /\ ForApi(q)
  /\ Routed(q) /\ (Open(q) \/ q.auth = "right")
  /\ \/ /\ q.sound /\ Served(q, "done")
        /\ IF q.route = "log" THEN level' \in Level ELSE UNCHANGED level
     \/ /\ ~q.sound /\ q.route \in {"log", "backend", "config_put", "waf"}
        /\ Served(q, "bad_request")
        /\ UNCHANGED level

Receive(q) ==
  /\ stage = "up" /\ q.door \in running
  /\ current = Idle
  /\ PassBy(q) \/ Refuse(q) \/ Run(q)
  /\ UNCHANGED bootVars

Answered ==
  /\ current # Idle /\ current' = Idle
  /\ UNCHANGED <<bootVars, level>>

ApiNext ==
  \/ BootStep /\ UNCHANGED apiVars
  \/ Answered
  \/ \E q \in HttpRequest : Receive(q)

ApiSpec == ApiInit /\ [][ApiNext]_<<bootVars, apiVars>>
-----------------------------------------------------------------------------
(* Properties.                                                             *)

\* The type invariant.
ApiTypeOK ==
  /\ BootTypeOK
  /\ level \in Level
  /\ current \in [req : HttpRequest, answer : Answer \cup {"none"}]

ByTheApi(a) == a \in {"unauthorized", "not_found", "bad_request", "done"}

\* Nothing is read from or done to the manager, the WAF or the log unless the
\* request carries the token that was configured; only /health answers without
\* one.  The layer is put on route by route, and on the WAF's routes as a
\* whole (api.rs:178-191).
ActsOnlyForTheToken ==
  [][level' # level \/ (current' # current /\ current'.answer \in {"done", "bad_request"}) =>
       \/ current'.req.auth = "right" /\ Given("api_token")
       \/ current'.req.route = "health" /\ level' = level]_<<level, current>>

\* The API answers on its own listener and under its hostname, and on no other
\* host of the main servers; plain HTTP reaches it only where HTTP is what is
\* served (routing.rs:321-329, core.rs:150).
ApiStaysBehindItsName ==
  ByTheApi(current.answer) =>
    \/ current.req.door = "server_api" /\ Given("api_listen")
    \/ /\ current.req.host = "api_hostname" /\ Given("api_hostname")
       /\ current.req.door = "server_http" => Given("http_only")

\* What is addressed to the API's hostname is never passed on to a backend,
\* token and all, however the API is enabled besides (routing.rs:323).
ApiRequestsStayHere ==
  current.answer = "proxied" =>
    ~(current.req.host = "api_hostname" /\ Given("api_hostname"))
=============================================================================
