---------------------------- MODULE MetricsCache ----------------------------
(***************************************************************************)
(* The path of a number from the middleware to a scrape: the detached      *)
(* tasks of src/middleware/metrics.rs count a request and then record its  *)
(* duration; every five seconds MetricsRunner of src/metrics.rs gathers    *)
(* the registry, one metric after the other, encodes what it got and       *)
(* stores it in the cache, an ArcSwap; the handler serves what is there.   *)
(***************************************************************************)
EXTENDS Naturals, FiniteSets

CONSTANTS Request,      \* the requests that are recorded, each once
          Faults        \* what may fail in an update: "memory", "encode"

ASSUME CacheFaults == Faults \subseteq {"memory", "encode"}

Metric == {"requests", "duration"}

VARIABLES
  logger,       \* per request: "idle", "counted" or "done"
  value,        \* the registry: how often each metric was incremented
  gathered,     \* the metrics this update has read so far, with their values
  busy,         \* an update is in progress
  begun,        \* ghost: the registry when this update began
  cache,        \* the snapshot in the cache; 0 for a metric not in it
  fresh,        \* ghost: the registry when the update that stored it began
  scraped       \* what the last scrape was served

vars == <<logger, value, gathered, busy, begun, cache, fresh, scraped>>

Init ==
  /\ logger = [q \in Request |-> "idle"]
  /\ value = [m \in Metric |-> 0]
  /\ gathered = <<>>
  /\ busy = FALSE
  /\ begun = value
  /\ cache = value
  /\ fresh = value
  /\ scraped = value

\* requests.inc(), then duration.observe()
Record(q) ==
  /\ \/ /\ logger[q] = "idle"
        /\ logger' = [logger EXCEPT ![q] = "counted"]
        /\ value' = [value EXCEPT !["requests"] = @ + 1]
     \/ /\ logger[q] = "counted"
        /\ logger' = [logger EXCEPT ![q] = "done"]
        /\ value' = [value EXCEPT !["duration"] = @ + 1]
  /\ UNCHANGED <<gathered, busy, begun, cache, fresh, scraped>>

\* Mutant of Tick: the buffer of the last update is gone on with.
TickKeep ==
  /\ ~busy
  /\ busy' = TRUE
  /\ begun' = value
  /\ UNCHANGED <<logger, value, gathered, cache, fresh, scraped>>

\* The interval ticks; the task manager runs one update at a time.
Tick ==
  /\ ~busy
  /\ busy' = TRUE
  /\ gathered' = <<>>
  /\ begun' = value
  /\ UNCHANGED <<logger, value, cache, fresh, scraped>>

\* The statistics cannot be read, or what was gathered not be encoded: the
\* update returns its error, which is logged, and the cache stays as it is.
Fail ==
  /\ busy
  /\ \/ "memory" \in Faults /\ gathered = <<>>
     \/ "encode" \in Faults /\ DOMAIN gathered = Metric
  /\ busy' = FALSE
  /\ UNCHANGED <<logger, value, gathered, begun, cache, fresh, scraped>>

\* registry.gather() reads the metrics in no particular order.
Gather(m) ==
  /\ busy /\ m \notin DOMAIN gathered
  /\ gathered' = [k \in DOMAIN gathered \cup {m} |->
                    IF k = m THEN value[m] ELSE gathered[k]]
  /\ UNCHANGED <<logger, value, busy, begun, cache, fresh, scraped>>

\* Mutant of Store: nothing new is stored once there is a snapshot.
StoreOnce ==
  /\ busy /\ DOMAIN gathered = Metric
  /\ cache' = IF cache["requests"] = 0 THEN gathered ELSE cache
  /\ busy' = FALSE
  /\ UNCHANGED <<logger, value, gathered, begun, fresh, scraped>>

\* Mutant of Store: what there is of the buffer is stored.
StorePartial ==
  /\ busy
  /\ cache' = gathered
  /\ fresh' = begun
  /\ busy' = FALSE
  /\ gathered' = <<>>
  /\ UNCHANGED <<logger, value, begun, scraped>>

\* The buffer is complete before it takes the place of the older one.
Store ==
  /\ busy /\ DOMAIN gathered = Metric
  /\ cache' = gathered
  /\ fresh' = begun
  /\ busy' = FALSE
  /\ UNCHANGED <<logger, value, gathered, begun, scraped>>

\* Mutant of Scrape: the buffer being filled is served.
ScrapeBuffer ==
  /\ scraped' = [m \in Metric |-> IF m \in DOMAIN gathered THEN gathered[m] ELSE cache[m]]
  /\ UNCHANGED <<logger, value, gathered, busy, begun, cache, fresh>>

\* GET /metrics
Scrape ==
  /\ scraped' = cache
  /\ UNCHANGED <<logger, value, gathered, busy, begun, cache, fresh>>

Next ==
  \/ Tick \/ Fail \/ Store \/ Scrape
  \/ \E m \in Metric : Gather(m)
  \/ \E q \in Request : Record(q)

Spec == Init /\ [][Next]_vars

\* The interval goes on ticking, and not every update fails: what an update
\* can do again and again it does in one of them.
FairSpec ==
  /\ Spec
  /\ WF_vars(Tick) /\ SF_vars(Store)
  /\ \A m \in Metric : SF_vars(Gather(m))
-----------------------------------------------------------------------------
(* Properties.                                                             *)

\* The type invariant.
CacheTypeOK ==
  /\ logger \in [Request -> {"idle", "counted", "done"}]
  /\ \A f \in {value, begun, cache, fresh, scraped} : f \in [Metric -> Nat]
  /\ DOMAIN gathered \subseteq Metric
  /\ busy \in BOOLEAN

\* Counters only grow in what Prometheus reads, whatever update fails in
\* between: a smaller number would count as a restart (metrics.rs:94, 106).
ScrapesNeverGoBack ==
  [][\A m \in Metric : scraped'[m] >= scraped[m]]_vars

\* The snapshot holds everything that had been recorded when the update that
\* stored it began, and nothing that was not: it is gathered anew each time,
\* however an earlier update ended (metrics.rs:87).
SnapshotIsFresh ==
  \A m \in Metric : fresh[m] <= cache[m] /\ cache[m] <= value[m]

\* Whatever is recorded gets into the cache sooner or later, as long as not
\* every update fails: one that failed leaves nothing behind that stops the
\* next (metrics.rs:106).
RecordsAreExported ==
  \A m \in Metric, k \in 1 .. Cardinality(Request) : value[m] = k ~> cache[m] >= k
=============================================================================
