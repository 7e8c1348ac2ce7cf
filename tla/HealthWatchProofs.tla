-------------------------- MODULE HealthWatchProofs -------------------------
(***************************************************************************)
(* The wait for health checks keeps the promise of Serving, for every set  *)
(* of backends: however the channel coalesces what is published, a router  *)
(* reaches its slot only when each of its targets is known.                *)
(***************************************************************************)
EXTENDS HealthWatch, TLAPS

\* A target that is known stays known, so what `changed` saw of the states
\* still holds when the router is stored.
WatchInv ==
  /\ WatchTypeOK
  /\ phase = "start" <=> health = NoTargets
  /\ phase # "start" => Members(health) # {}
  /\ phase \in {"known", "installed"} => AllKnown(health)

\* The records a router starts from, and what an answer makes of one.
LEMMA Records ==
  /\ NoTargets \in HealthRecord
  /\ \A ms \in (SUBSET Name) \ {{}} :
       /\ NewTargets(ms) \in HealthRecord
       /\ Members(NewTargets(ms)) = ms
       /\ NewTargets(ms) # NoTargets
<1>1. NoTargets \in HealthRecord
  BY DEF NoTargets, HealthRecord
<1>2. ASSUME NEW ms \in (SUBSET Name) \ {{}}
      PROVE  /\ NewTargets(ms) \in HealthRecord
             /\ Members(NewTargets(ms)) = ms
             /\ NewTargets(ms) # NoTargets
  <2>1. NewTargets(ms) \in HealthRecord
    BY DEF NewTargets, HealthRecord, TargetState
  <2>2. Members(NewTargets(ms)) = ms
    BY DEF NewTargets, Members
  <2>3. Members(NoTargets) = {}
    BY DEF NoTargets, Members
  <2> QED BY <2>1, <2>2, <2>3
<1> QED BY <1>1, <1>2

\* An answer: the targets are the same, and none becomes unknown.
LEMMA AnswerKeeps ==
  ASSUME NEW h \in HealthRecord, NEW n \in Members(h), NEW v \in Verdict
  PROVE  /\ [h EXCEPT ![n] = v] \in HealthRecord
         /\ Members([h EXCEPT ![n] = v]) = Members(h)
         /\ AllKnown(h) => AllKnown([h EXCEPT ![n] = v])
BY DEF HealthRecord, TargetState, Members, AllKnown, Verdict

LEMMA WatchInit == Init => WatchInv
<1> SUFFICES ASSUME Init PROVE WatchInv
  OBVIOUS
<1>1. WatchTypeOK
  BY Records DEF Init, WatchTypeOK
<1> QED BY <1>1 DEF Init, WatchInv

LEMMA WatchNext == WatchInv /\ [Next]_vars => WatchInv'
<1> SUFFICES ASSUME WatchInv, [Next]_vars PROVE WatchInv'
  OBVIOUS
<1> USE DEF WatchInv, WatchTypeOK
<1>1. CASE Create
  BY <1>1, Records DEF Create, Goto
<1>2. CASE Subscribe
  BY <1>2 DEF Subscribe, Goto, AllKnown
<1>3. CASE Changed
  BY <1>3 DEF Changed
<1>4. CASE Store
  BY <1>4 DEF Store, Goto
<1>5. ASSUME NEW n \in Name, NEW v \in Verdict, Check(n, v)
      PROVE  WatchInv'
  <2>1. /\ health' \in HealthRecord
        /\ Members(health') = Members(health)
        /\ AllKnown(health) => AllKnown(health')
    BY <1>5, AnswerKeeps DEF Check
  <2>2. Members(health') # {} /\ Members(NoTargets) = {}
    BY <1>5, <2>1 DEF Check, Members, NoTargets
  <2> QED BY <1>5, <2>1, <2>2 DEF Check
<1>6. CASE UNCHANGED vars
  BY <1>6 DEF vars, Members, AllKnown
<1> QED BY <1>1, <1>2, <1>3, <1>4, <1>5, <1>6 DEF Next

THEOREM WatchInvariant == Spec => []WatchInv
BY WatchInit, WatchNext, PTL DEF Spec

\* Type correctness (backend.rs:179-224).
THEOREM WatchTypeCorrect == Spec => []WatchTypeOK
<1>1. WatchInv => WatchTypeOK
  BY DEF WatchInv
<1> QED BY <1>1, WatchInvariant, PTL
-----------------------------------------------------------------------------

\* Nothing is in a slot before the router is stored.
LEMMA NotInstalled ==
  ASSUME phase # "installed" PROVE Slots!Installed = {}
BY DEF Slots!Installed, Slots!Slot

LEMMA WatchRefinesInit == Init => Slots!ServingInit
BY DEF Init, Slots!ServingInit, Slots!Slot, NoTargets, Slots!NoTargets

\* A step of the wait is a step of Serving, or nothing a request can see.
LEMMA WatchRefinesNext ==
  WatchInv /\ [Next]_vars => [Slots!ServingNext]_(Slots!servingVars)
<1> SUFFICES ASSUME WatchInv, [Next]_vars
             PROVE  Slots!ServingNext \/ UNCHANGED Slots!servingVars
  OBVIOUS
<1>1. CASE Create
  <2>1. PICK ms \in (SUBSET Name) \ {{}} : health' = NewTargets(ms)
    BY <1>1 DEF Create
  <2>2. phase = "start" /\ phase' = "created" /\ health = NoTargets
    BY <1>1 DEF Create, Goto, WatchInv
  <2>3. Slots!Members(health) = {} /\ Slots!NewTargets(ms) = health'
    BY <2>1, <2>2 DEF Slots!Members, NoTargets, Slots!NewTargets, NewTargets
  <2>4. Slots!Build(Router, ms)
    BY <2>1, <2>2, <2>3, NotInstalled DEF Slots!Build
  <2> QED BY <2>4 DEF Slots!ServingNext
<1>2. CASE Subscribe
  BY <1>2 DEF Subscribe, Goto, Slots!servingVars
<1>3. CASE Changed
  BY <1>3 DEF Changed, Slots!servingVars
<1>4. CASE Store
  <2>1. /\ phase = "known" /\ phase' = "installed" /\ health' = health
        /\ AllKnown(health)
    BY <1>4 DEF Store, Goto, WatchInv
  <2>2. Slots!AllKnown(health)
    BY <2>1 DEF AllKnown, Slots!AllKnown, Members, Slots!Members
  <2>3. Slots!Install("main", Router)
    BY <2>1, <2>2, NotInstalled DEF Slots!Install
  <2> QED BY <2>3 DEF Slots!ServingNext, Slots!Slot
<1>5. ASSUME NEW n \in Name, NEW v \in Verdict, Check(n, v)
      PROVE  Slots!ServingNext
  <2>1. phase # "start" /\ phase' = phase /\ n \in Members(health)
        /\ health' = [health EXCEPT ![n] = v]
    BY <1>5 DEF Check, WatchInv, Members, NoTargets
  <2>2. Slots!Report(Router, n, v)
    BY <2>1 DEF Slots!Report, Members, Slots!Members
  <2> QED BY <2>2 DEF Slots!ServingNext, Verdict, Slots!Verdict
<1>6. CASE UNCHANGED vars
  BY <1>6 DEF vars, Slots!servingVars
<1> QED BY <1>1, <1>2, <1>3, <1>4, <1>5, <1>6 DEF Next

\* wait_healthchecks over its watch channel keeps what requests rely on
\* (backend.rs:179-229).
THEOREM WatchImplements == Spec => WatchImplementsServing
BY WatchRefinesInit, WatchRefinesNext, WatchInvariant, PTL
DEF Spec, WatchImplementsServing, Slots!ServingSpec
-----------------------------------------------------------------------------
(* The safety half of WaitEnds: what the wait waits for.                   *)

\* Nothing that makes the wait go on is lost in the channel: a caller that
\* waits with nothing new to look at waits for the first answer of a target -
\* or every target was known before it subscribed.
NoLostWakeup ==
  phase = "waiting" /\ ~news => missed \/ \E n \in Name : health[n] = "Unknown"

\* The first answer of a target is always a change, so that it is published.
LEMMA FirstAnswerIsNews ==
  ASSUME WatchInv, NEW n \in Name, NEW v \in Verdict, Check(n, v), health[n] = "Unknown"
  PROVE  news'
BY DEF Check, Verdict

\* rx.changed() misses no answer that came after subscribe(), although the
\* channel keeps the last snapshot only (backend.rs:182-189).
THEOREM WakeupsAreKept == Spec => []NoLostWakeup
<1>1. Init => NoLostWakeup
  BY DEF Init, NoLostWakeup
<1>2. WatchInv /\ NoLostWakeup /\ [Next]_vars => NoLostWakeup'
  <2> SUFFICES ASSUME WatchInv, NoLostWakeup, [Next]_vars PROVE NoLostWakeup'
    OBVIOUS
  <2> USE DEF NoLostWakeup
  <2>1. CASE Create \/ Store
    BY <2>1 DEF Create, Store, Goto
  <2>2. CASE Subscribe
    BY <2>2 DEF Subscribe, Goto, AllKnown, Members
  <2>3. CASE Changed
    BY <2>3 DEF Changed, AllKnown, Members
  <2>4. ASSUME NEW n \in Name, NEW v \in Verdict, Check(n, v) PROVE NoLostWakeup'
    <3>1. CASE health[n] = "Unknown"
      BY <2>4, <3>1, FirstAnswerIsNews
    <3>2. CASE health[n] # "Unknown"
      BY <2>4, <3>2 DEF Check, WatchInv, WatchTypeOK, HealthRecord
    <3> QED BY <3>1, <3>2
  <2>5. CASE UNCHANGED vars
    BY <2>5 DEF vars
  <2> QED BY <2>1, <2>2, <2>3, <2>4, <2>5 DEF Next
<1> QED BY <1>1, <1>2, WatchInvariant, PTL DEF Spec
=============================================================================
