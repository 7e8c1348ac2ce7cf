---------------------------- MODULE TargetHealth ----------------------------
(***************************************************************************)
(* What one `LBBackendRouter` knows about the health of its targets.       *)
(* A router (ic_bn_lib::utils::backend_router) is built over a list of     *)
(* backends, keeps one `TargetState` per backend, and starts each at       *)
(* `Unknown`.  src/backend.rs never sees inside it; it uses only the       *)
(* snapshot of the states and the list of healthy targets.                 *)
(*                                                                         *)
(* A health record maps every backend name to a state.  "Absent" marks a   *)
(* name the router was not built over, so a router that does not exist is  *)
(* the record that is "Absent" everywhere.                                 *)
(***************************************************************************)
CONSTANT Name                   \* the backend names a configuration can use

\* Mutant of Verdict: a check that times out leaves the target Unknown.
VerdictOrUnknown == {"Unknown", "Healthy", "Degraded"}

\* What `BackendHealthChecker::check` can answer; it never answers Unknown.
Verdict == {"Healthy", "Degraded"}

TargetState == {"Unknown", "Healthy", "Degraded"}

HealthRecord == [Name -> TargetState \cup {"Absent"}]

\* The record of no router at all.
NoTargets == [n \in Name |-> "Absent"]

\* A router just built over the backends `ms`: no check has answered yet.
NewTargets(ms) == [n \in Name |-> IF n \in ms THEN "Unknown" ELSE "Absent"]

\* The backends the router was built over.
Members(h) == {n \in Name : h[n] # "Absent"}

\* What `wait_healthchecks` waits for: no target is Unknown any more.
AllKnown(h) == \A n \in Members(h) : h[n] # "Unknown"

\* What `get_healthy` lists.
HealthyOf(h) == {n \in Name : h[n] = "Healthy"}
=============================================================================
