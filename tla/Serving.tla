------------------------------ MODULE Serving ------------------------------
(***************************************************************************)
(* What the BackendManager promises to the requests that read its two      *)
(* router slots, `backend_router` ("main") and `backend_router_fallback`   *)
(* ("fallback"), whatever the API, SIGHUP and the disk do meanwhile:       *)
(*                                                                         *)
(*   - a slot holds no router, or a running one whose every target has     *)
(*     been checked at least once;                                         *)
(*   - the two slots never hold the same router;                           *)
(*   - a router is stopped only after the slot has let go of it, so only   *)
(*     a request that loaded it earlier can still be using it.             *)
(*                                                                         *)
(* BackendManager implements this specification; RequestHandler is built   *)
(* on top of it.                                                           *)
(***************************************************************************)
EXTENDS TargetHealth

CONSTANTS RouterId,             \* identities of LBBackendRouter instances
          None                  \* an empty ArcSwapOption

Slot == {"main", "fallback"}

VARIABLES health,               \* [RouterId -> HealthRecord]
          running,              \* the routers whose health checks are running
          slot                  \* [Slot -> RouterId or None]

servingVars == <<health, running, slot>>

Installed == {slot[s] : s \in Slot} \ {None}

ServingTypeOK ==
  /\ health \in [RouterId -> HealthRecord]
  /\ running \in SUBSET RouterId
  /\ slot \in [Slot -> RouterId \cup {None}]

ServingInit ==
  /\ health = [r \in RouterId |-> NoTargets]
  /\ running = {}
  /\ slot = [s \in Slot |-> None]
-----------------------------------------------------------------------------
\* setup_backend_router: a router over a non-empty set of backends.
Build(r, ms) ==
  /\ r \notin running \cup Installed
  /\ Members(health[r]) = {}
  /\ ms # {}
  /\ health' = [health EXCEPT ![r] = NewTargets(ms)]
  /\ running' = running \cup {r}
  /\ UNCHANGED slot

\* One health check of a running router answers.
Report(r, n, v) ==
  /\ r \in running
  /\ n \in Members(health[r])
  /\ health' = [health EXCEPT ![r][n] = v]
  /\ UNCHANGED <<running, slot>>

\* The slot `s` changes hands.
Install(s, x) ==
  /\ \/ x = None
     \/ x \in running \ Installed /\ AllKnown(health[x])
  /\ slot' = [slot EXCEPT ![s] = x]
  /\ UNCHANGED <<health, running>>

\* A router nobody can load any more is stopped: its health record freezes,
\* or is dropped at once when no request still holds the router.
Stop(r) ==
  /\ r \in running \ Installed
  /\ running' = running \ {r}
  /\ health' \in {health, [health EXCEPT ![r] = NoTargets]}
  /\ UNCHANGED slot

\* The last reference to a stopped router is dropped.
Release(r) ==
  /\ r \notin running \cup Installed
  /\ Members(health[r]) # {}
  /\ health' = [health EXCEPT ![r] = NoTargets]
  /\ UNCHANGED <<running, slot>>

\* The process ends.
Vanish ==
  /\ health' = [r \in RouterId |-> NoTargets]
  /\ running' = {}
  /\ slot' = [s \in Slot |-> None]

ServingNext ==
  \/ \E r \in RouterId, ms \in SUBSET Name : Build(r, ms)
  \/ \E r \in RouterId, n \in Name, v \in Verdict : Report(r, n, v)
  \/ \E s \in Slot, x \in RouterId \cup {None} : Install(s, x)
  \/ \E r \in RouterId : Stop(r) \/ Release(r)
  \/ Vanish

ServingSpec == ServingInit /\ [][ServingNext]_servingVars
-----------------------------------------------------------------------------
\* update_router stores a router only after wait_healthchecks returned, and
\* stops one only after it has been replaced: whatever a request loads is
\* running, has targets, and knows the health of each.
SlotsReady ==
  \A s \in Slot : slot[s] # None =>
    /\ slot[s] \in running
    /\ Members(health[slot[s]]) # {}
    /\ AllKnown(health[slot[s]])

\* Each update_router builds its own router: the fallback is never the main.
SlotsDistinct ==
  slot["main"] # None => slot["main"] # slot["fallback"]
=============================================================================
