----------------------------- MODULE HealthWatch ----------------------------
(***************************************************************************)
(* One call of `update_router` (src/backend.rs) with the watch channel that*)
(* `wait_healthchecks` reads: a router is created, its checks start at once*)
(* and publish what they find, the caller subscribes, waits for changes    *)
(* until every target is known, and installs the router.                   *)
(*                                                                         *)
(* A tokio watch channel holds one value and its version; `subscribe`      *)
(* counts the current version as seen, `changed` waits for another one.    *)
(* All that matters of the versions is whether they differ: `news`.        *)
(* Whether the health checker of ic_bn_lib publishes each answer or only   *)
(* those that change something is not known here: `republish` is either.   *)
(***************************************************************************)
EXTENDS TargetHealth

CONSTANTS Router,       \* the router that is being installed
          None          \* an empty slot

VARIABLES
  health,       \* the states in the router, which are those in the channel
  news,         \* the channel's version is not the one the subscriber saw
  phase,        \* update_router: start, created, waiting, known, installed
  republish,    \* answers that change nothing are published too
  missed        \* ghost: every target was known when the caller subscribed

vars == <<health, news, phase, republish, missed>>

Init ==
  /\ health = NoTargets
  /\ news = FALSE
  /\ phase = "start"
  /\ republish \in BOOLEAN
  /\ missed = FALSE

Goto(from, to) == phase = from /\ phase' = to

\* Mutant of Create: the record has no place for the other names.
CreatePartial ==
  /\ Goto("start", "created")
  /\ \E ms \in (SUBSET Name) \ {{}} : health' = [n \in ms |-> "Unknown"]
  /\ UNCHANGED <<news, republish, missed>>

\* create_backend_router over a non-empty list.
Create ==
  /\ Goto("start", "created")
  /\ \E ms \in (SUBSET Name) \ {{}} : health' = NewTargets(ms)
  /\ UNCHANGED <<news, republish, missed>>

\* A check answers and the snapshot is published.
Check(n, v) ==
  /\ n \in Members(health)
  /\ health' = [health EXCEPT ![n] = v]
  /\ news' = (news \/ republish \/ health[n] # v)
  /\ UNCHANGED <<phase, republish, missed>>

\* backend_router.subscribe(): what was published before counts as seen.
Subscribe ==
  /\ Goto("created", "waiting")
  /\ news' = FALSE
  /\ missed' = AllKnown(health)
  /\ UNCHANGED <<health, republish>>

\* Mutant of Changed: the loop ends as soon as anything has changed.
ChangedOnce ==
  /\ phase = "waiting" /\ news
  /\ news' = FALSE
  /\ phase' = "known"
  /\ UNCHANGED <<health, republish, missed>>

\* Mutant of Changed: each round subscribes anew.
ChangedResubscribes ==
  /\ phase = "waiting" /\ news
  /\ news' = FALSE
  /\ phase' = IF AllKnown(health) THEN "known" ELSE "created"
  /\ UNCHANGED <<health, republish, missed>>

\* rx.changed() returns, and the loop looks at the snapshot.
Changed ==
  /\ phase = "waiting" /\ news
  /\ news' = FALSE
  /\ phase' = IF AllKnown(health) THEN "known" ELSE "waiting"
  /\ UNCHANGED <<health, republish, missed>>

\* router.store(router_new)
Store ==
  /\ Goto("known", "installed")
  /\ UNCHANGED <<health, news, republish, missed>>

Next ==
  \/ Create \/ Subscribe \/ Changed \/ Store
  \/ \E n \in Name, v \in Verdict : Check(n, v)

Spec == Init /\ [][Next]_vars

\* An answer that is sure to come: the first one of each target, and, if the
\* ones that change nothing are published too, one more after those were read.
\* That a known state ever changes again is not assumed.
Answer(n) ==
  /\ \E v \in Verdict : Check(n, v)
  /\ health[n] = "Unknown" \/ (republish /\ ~news)

\* The caller is polled, and the checks run for as long as the router lives.
FairSpec ==
  /\ Spec
  /\ WF_vars(Create \/ Subscribe \/ Changed \/ Store)
  /\ \A n \in Name : WF_vars(Answer(n))
-----------------------------------------------------------------------------
(* Properties.                                                             *)

\* The type invariant.
WatchTypeOK ==
  /\ health \in HealthRecord
  /\ news \in BOOLEAN /\ republish \in BOOLEAN /\ missed \in BOOLEAN
  /\ phase \in {"start", "created", "waiting", "known", "installed"}

\* What a request finds in the slot, seen from this one router.
Slots == INSTANCE Serving WITH
  RouterId <- {Router},
  health <- [r \in {Router} |-> health],
  running <- IF phase = "start" THEN {} ELSE {Router},
  slot <- [s \in {"main", "fallback"} |->
             IF s = "main" /\ phase = "installed" THEN Router ELSE None]

\* Reading the channel keeps what Serving promises: the router is stored only
\* when every target is known, although the snapshot the loop looked at may
\* be older than the states (backend.rs:182-189).
WatchImplementsServing == Slots!ServingSpec

\* The wait ends (backend.rs:179): always if every answer is published; if
\* only changes are, then unless all targets became known before subscribe()
\* - in that case it lasts until some target changes its state.
WaitEnds ==
  phase = "waiting" /\ (republish \/ ~missed) ~> phase = "installed"
=============================================================================
