-------------------------------- MODULE Boot --------------------------------
(***************************************************************************)
(* From the command line to a serving process: what clap accepts           *)
(* (src/cli.rs), and the steps of `core::main` (src/core.rs) up to         *)
(* `tasks.start()`.  Until then tasks are only registered: `tasks.add`     *)
(* runs nothing.  A step fails when what it builds cannot be built, and    *)
(* main then returns the error; `unwrap` of an absent option panics.       *)
(*                                                                         *)
(* `stage` names the step that is next; "up" and "over" are the ends.      *)
(***************************************************************************)
EXTENDS FiniteSets

\* The options that decide what is built; each is given or is not.
\* "cert_provider" stands for files and directories together.
Option ==
  {"api_listen", "api_hostname", "api_token", "api_acme", "api_acme_cache",
   "listen_metrics", "http_only", "waf_enable", "log_vector_url",
   "cert_provider", "custom_domains"}

Stage == {"base", "vector", "waf", "api", "router", "http", "server_api",
          "metrics", "tls", "https", "load", "start", "up", "over"}

CONSTANT Choice         \* bound: the options the command lines of a run may give
ASSUME ChoiceAssumption == Choice \subseteq Option

VARIABLES
  opts,         \* the options that were given
  stage,
  added,        \* the tasks registered with the TaskManager
  running,      \* the tasks that have been started
  loaded,       \* the initial configuration has been loaded
  verdict       \* how the start ended: "none" yet, "ok", "error", "panic"

bootVars == <<opts, stage, added, running, loaded, verdict>>

\* Mutant of Accepted: `requires` is left out for api_listen.
AcceptedListen(o) ==
  /\ "api_hostname" \in o => "api_token" \in o
  /\ "api_acme" \in o => "api_acme_cache" \in o

\* Cli::parse: clap's `requires` attributes.
Accepted(o) ==
  /\ o \cap {"api_listen", "api_hostname"} # {} => "api_token" \in o
  /\ "api_acme" \in o => "api_acme_cache" \in o

BootInit ==
  /\ opts \in {o \in SUBSET Choice : Accepted(o)}
  /\ stage = "base"
  /\ added = {} /\ running = {}
  /\ loaded = FALSE
  /\ verdict = "none"

Given(o) == o \in opts

\* Mutant of Advance: a task runs as soon as it is registered.
AdvanceRunning(s, next, ts) ==
  /\ stage = s
  /\ stage' = next
  /\ added' = added \cup ts
  /\ running' = running \cup ts
  /\ UNCHANGED <<opts, loaded, verdict>>

\* The step at `s` succeeds, registers `ts` and leads to `next`.
Advance(s, next, ts) ==
  /\ stage = s
  /\ stage' = next
  /\ added' = added \cup ts
  /\ UNCHANGED <<opts, running, loaded, verdict>>

\* main ends: nothing it registered has run, or runs any more.
End(s, v) ==
  /\ stage = s
  /\ stage' = "over"
  /\ running' = {}
  /\ verdict' = v
  /\ UNCHANGED <<opts, added, loaded>>
-----------------------------------------------------------------------------
\* Logging, runtime, registry, DNS resolver and HTTP clients.
SetupBase == Advance("base", "vector", {}) \/ End("base", "error")

SetupVector ==
  \/ Advance("vector", "waf", {})
  \/ Given("log_vector_url") /\ End("vector", "error")

SetupWaf ==
  \/ Advance("waf", "api", IF Given("waf_enable") THEN {"waf"} ELSE {})
  \/ Given("waf_enable") /\ End("waf", "error")

\* The API router is built when either way of reaching it is configured.
ApiEnabled == Given("api_hostname") \/ Given("api_listen")

\* setup_api_axum_router: without a token it is an error.
SetupApi ==
  \/ /\ ApiEnabled => Given("api_token")
     /\ Advance("api", "router", {})
  \/ ApiEnabled /\ End("api", "error")

SetupRouter == Advance("router", "http", {}) \/ End("router", "error")

SetupHttp ==
  Advance("http", "server_api", {"server_http"}) \/ End("http", "error")

SetupApiServer ==
  \/ Advance("server_api", "metrics", IF Given("api_listen") THEN {"server_api"} ELSE {})
  \/ Given("api_listen") /\ End("server_api", "error")

\* metrics::setup and the server of what it snapshots.
SetupMetrics ==
  \/ Advance("metrics", "tls", IF Given("listen_metrics")
                               THEN {"metrics_runner", "metrics_server"} ELSE {})
  \/ Given("listen_metrics") /\ End("metrics", "error")

HasProvider == Given("cert_provider") \/ Given("custom_domains")

\* Mutant of SetupTls: the emptiness of cert_providers is not tested.
SetupTlsAny ==
  \/ Given("http_only") /\ Advance("tls", "load", {})
  \/ ~Given("http_only") /\ Advance("tls", "https", {"cert_aggregator"})

\* tls::setup.  ACME takes the hostname and the cache by unwrap.
SetupTls ==
  \/ Given("http_only") /\ Advance("tls", "load", {})
  \/ /\ ~Given("http_only")
     /\ \/ /\ HasProvider
           /\ Given("api_acme") => Given("api_hostname") /\ Given("api_acme_cache")
           /\ Advance("tls", "https",
                {"cert_aggregator"}
                \cup (IF Given("api_acme") THEN {"acme_alpn"} ELSE {})
                \cup (IF Given("custom_domains") THEN {"custom_domains"} ELSE {}))
        \/ /\ HasProvider /\ Given("api_acme")
           /\ ~(Given("api_hostname") /\ Given("api_acme_cache"))
           /\ End("tls", "panic")
        \/ (~HasProvider \/ Given("custom_domains")) /\ End("tls", "error")

SetupHttps == Advance("https", "load", {"server_https"}) \/ End("https", "error")

\* load_config returns only after the routers are installed.
LoadConfig ==
  \/ /\ stage = "load" /\ stage' = "start"
     /\ loaded' = TRUE
     /\ added' = added \cup {"backend_manager"}
     /\ UNCHANGED <<opts, running, verdict>>
  \/ End("load", "error")

\* tasks.start(): whatever has been registered runs.
StartTasks ==
  /\ stage = "start" /\ stage' = "up"
  /\ running' = added
  /\ verdict' = "ok"
  /\ UNCHANGED <<opts, added, loaded>>

BootStep ==
  \/ SetupBase \/ SetupVector \/ SetupWaf \/ SetupApi \/ SetupRouter \/ SetupHttp
  \/ SetupApiServer \/ SetupMetrics \/ SetupTls \/ SetupHttps \/ LoadConfig
  \/ StartTasks

\* A process that is up, or has given up, takes no further step of its own.
BootSpec == BootInit /\ [][BootStep]_bootVars
-----------------------------------------------------------------------------
(* Properties.                                                             *)

\* The type invariant.
BootTypeOK ==
  /\ opts \in SUBSET Option
  /\ stage \in Stage
  /\ running \in {{}, added}
  /\ loaded \in BOOLEAN
  /\ verdict \in {"none", "ok", "error", "panic"}

\* No server accepts a connection before every part has been built and the
\* routers of the first configuration are installed: the first request never
\* finds the slots empty for want of a load (core.rs:217 before core.rs:224).
ReadyBeforeServing ==
  running # {} => loaded /\ verdict = "ok" /\ "backend_manager" \in running

\* A server that runs has what it serves from: HTTPS a source of certificates
\* that is polled, the metrics server the runner that fills its cache, and
\* the ACME task the HTTPS server that answers its challenges.
ServersAreSupplied ==
  /\ "server_https" \in running => HasProvider /\ "cert_aggregator" \in running
  /\ "metrics_server" \in running => "metrics_runner" \in running
  /\ "acme_alpn" \in running => "server_https" \in running
=============================================================================
