------------------------- MODULE MetricsCacheProofs -------------------------
(***************************************************************************)
(* Theorems about MetricsCache, for any number of requests.                *)
(***************************************************************************)
EXTENDS MetricsCache, TLAPS

Counters == [Metric -> Nat]

\* A snapshot is between the registry when its update began and the registry
\* now; what is served, what is cached, and what is being gathered are in the
\* order in which they were read (metrics.rs:87-96).
CacheInv ==
  /\ value \in Counters /\ begun \in Counters /\ cache \in Counters
  /\ fresh \in Counters /\ scraped \in Counters
  /\ logger \in [Request -> {"idle", "counted", "done"}]
  /\ busy \in BOOLEAN
  /\ DOMAIN gathered \subseteq Metric
  /\ gathered = [m \in DOMAIN gathered |-> gathered[m]]
  /\ \A m \in DOMAIN gathered :
       gathered[m] \in Nat /\ gathered[m] <= value[m] /\ (busy => begun[m] <= gathered[m])
  /\ \A m \in Metric :
       /\ begun[m] <= value[m] /\ cache[m] <= value[m]
       /\ busy => cache[m] <= begun[m]
       /\ fresh[m] <= cache[m]
       /\ scraped[m] <= cache[m]

LEMMA CacheInit == Init => CacheInv
<1> SUFFICES ASSUME Init PROVE CacheInv
  OBVIOUS
<1>1. value \in Counters /\ \A m \in Metric : value[m] = 0
  BY DEF Init, Counters
<1>2. /\ DOMAIN gathered = {}
      /\ gathered = [m \in DOMAIN gathered |-> gathered[m]]
  BY DEF Init
<1>3. begun = value /\ cache = value /\ fresh = value /\ scraped = value /\ busy = FALSE
  BY DEF Init
<1>4. logger \in [Request -> {"idle", "counted", "done"}]
  BY DEF Init
<1>5. \A m \in Metric : begun[m] <= value[m] /\ cache[m] <= value[m]
                        /\ fresh[m] <= cache[m] /\ scraped[m] <= cache[m]
  BY <1>1, <1>3
<1>6. begun \in Counters /\ cache \in Counters /\ fresh \in Counters /\ scraped \in Counters
  BY <1>1, <1>3
<1> QED BY <1>1, <1>2, <1>3, <1>4, <1>5, <1>6 DEF CacheInv

\* A counter is incremented (metrics.rs:161-166 of the middleware).
LEMMA RecordStep == \A q \in Request : CacheInv /\ Record(q) => CacheInv'
<1> SUFFICES ASSUME NEW q \in Request, CacheInv, Record(q) PROVE CacheInv'
  OBVIOUS
<1>1. value' \in Counters /\ \A m \in Metric : value[m] <= value'[m]
  BY DEF Record, CacheInv, Counters, Metric
<1>2. logger' \in [Request -> {"idle", "counted", "done"}]
  BY DEF Record, CacheInv
<1>3. UNCHANGED <<gathered, busy, begun, cache, fresh, scraped>>
  BY DEF Record
<1>4. \A m \in DOMAIN gathered : gathered[m] \in Nat /\ gathered[m] <= value'[m]
  BY <1>1 DEF CacheInv, Counters
<1>5. \A m \in Metric : begun[m] <= value'[m] /\ cache[m] <= value'[m]
  BY <1>1 DEF CacheInv, Counters
<1> QED BY <1>1, <1>2, <1>3, <1>4, <1>5 DEF CacheInv

LEMMA TickStep == CacheInv /\ Tick => CacheInv'
<1> SUFFICES ASSUME CacheInv, Tick PROVE CacheInv'
  OBVIOUS
<1>1. gathered' = <<>> /\ DOMAIN gathered' = {}
  BY DEF Tick
<1>2. \A m \in Metric : value[m] <= value[m]
  BY DEF CacheInv, Counters
<1> QED BY <1>1, <1>2 DEF Tick, CacheInv

\* A failed update leaves the cache as it is (metrics.rs:106).
LEMMA FailStep == CacheInv /\ Fail => CacheInv'
BY DEF CacheInv, Fail

\* One metric is read: its counter now, which is at least what it was when
\* the update began.
LEMMA GatherStep == \A m \in Metric : CacheInv /\ Gather(m) => CacheInv'
<1> SUFFICES ASSUME NEW m \in Metric, CacheInv, Gather(m) PROVE CacheInv'
  OBVIOUS
<1>1. /\ busy /\ UNCHANGED <<logger, value, busy, begun, cache, fresh, scraped>>
      /\ gathered' = [k \in DOMAIN gathered \cup {m} |->
                        IF k = m THEN value[m] ELSE gathered[k]]
  BY DEF Gather
<1>2. /\ DOMAIN gathered' = DOMAIN gathered \cup {m}
      /\ \A k \in DOMAIN gathered' : gathered'[k] = IF k = m THEN value[m] ELSE gathered[k]
  BY <1>1
<1>3. value[m] \in Nat /\ begun[m] <= value[m] /\ value[m] <= value[m]
  BY DEF CacheInv, Counters
<1>4. \A k \in DOMAIN gathered' :
        gathered'[k] \in Nat /\ gathered'[k] <= value[k] /\ begun[k] <= gathered'[k]
  BY <1>1, <1>2, <1>3 DEF CacheInv
<1>5. DOMAIN gathered' \subseteq Metric
  BY <1>2 DEF CacheInv
<1>6. gathered' = [k \in DOMAIN gathered' |-> gathered'[k]]
  BY <1>1, <1>2
<1> QED BY <1>1, <1>4, <1>5, <1>6 DEF CacheInv

\* The buffer takes the place of the snapshot before it (metrics.rs:94).
LEMMA StoreStep == CacheInv /\ Store => CacheInv'
<1> SUFFICES ASSUME CacheInv, Store PROVE CacheInv'
  OBVIOUS
<1>1. /\ busy /\ DOMAIN gathered = Metric /\ cache' = gathered /\ fresh' = begun
      /\ busy' = FALSE /\ UNCHANGED <<logger, value, gathered, begun, scraped>>
  BY DEF Store
<1>2. gathered \in Counters
  BY <1>1 DEF CacheInv, Counters
<1>3. \A m \in Metric : scraped[m] <= gathered[m] /\ begun[m] <= gathered[m]
                        /\ gathered[m] <= value[m]
  BY <1>1, <1>2 DEF CacheInv, Counters
<1> QED BY <1>1, <1>2, <1>3 DEF CacheInv

LEMMA ScrapeStep == CacheInv /\ Scrape => CacheInv'
<1> SUFFICES ASSUME CacheInv, Scrape PROVE CacheInv'
  OBVIOUS
<1>1. \A m \in Metric : cache[m] <= cache[m]
  BY DEF CacheInv, Counters
<1> QED BY <1>1 DEF CacheInv, Scrape

LEMMA CacheNext == CacheInv /\ [Next]_vars => CacheInv'
<1> SUFFICES ASSUME CacheInv, [Next]_vars PROVE CacheInv'
  OBVIOUS
<1>1. CASE UNCHANGED vars
  BY <1>1 DEF vars, CacheInv
<1>2. CASE Next
  BY <1>2, RecordStep, TickStep, FailStep, GatherStep, StoreStep, ScrapeStep DEF Next
<1> QED BY <1>1, <1>2

THEOREM CacheInvariance == Spec => []CacheInv
BY CacheInit, CacheNext, PTL DEF Spec

\* Type correctness.
THEOREM CacheTypeCorrect == Spec => []CacheTypeOK
<1>1. CacheInv => CacheTypeOK
  BY DEF CacheInv, CacheTypeOK, Counters
<1> QED BY <1>1, CacheInvariance, PTL

\* The snapshot holds all that had been recorded when its update began, and
\* nothing that was not recorded (metrics.rs:87).
THEOREM SnapshotsAreFresh == Spec => []SnapshotIsFresh
<1>1. CacheInv => SnapshotIsFresh
  BY DEF CacheInv, SnapshotIsFresh
<1> QED BY <1>1, CacheInvariance, PTL

\* What Prometheus reads of a counter never goes back (metrics.rs:94).
THEOREM ScrapesGrow == Spec => ScrapesNeverGoBack
<1>1. CacheInv /\ [Next]_vars => [\A m \in Metric : scraped'[m] >= scraped[m]]_vars
  <2> SUFFICES ASSUME CacheInv, Next, NEW m \in Metric
               PROVE  scraped'[m] >= scraped[m]
    OBVIOUS
  <2>1. scraped[m] <= cache[m] /\ scraped[m] \in Nat /\ cache[m] \in Nat
    BY DEF CacheInv, Counters
  <2>2. scraped' = scraped \/ scraped' = cache
    BY DEF Next, Tick, Fail, Store, Scrape, Gather, Record
  <2> QED BY <2>1, <2>2
<1> QED BY <1>1, CacheInvariance, PTL DEF Spec, ScrapesNeverGoBack
=============================================================================
