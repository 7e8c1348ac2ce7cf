------------------------ MODULE BackendManagerRefines ------------------------
(***************************************************************************)
(* The BackendManager implements Serving: every step of the manager is a   *)
(* step of the abstract specification that requests rely on, or leaves     *)
(* the routers and the slots alone.                                        *)
(***************************************************************************)
EXTENDS BackendManagerProofs

\* The two modules describe routers with the same operators.
LEMMA SameTerms ==
  /\ Promise!Slot = Slot /\ Promise!Installed = Installed
  /\ Promise!NoTargets = NoTargets /\ Promise!Verdict = Verdict
  /\ \A ms \in SUBSET Name : Promise!NewTargets(ms) = NewTargets(ms)
  /\ \A h : Promise!Members(h) = Members(h)
  /\ \A h : Promise!AllKnown(h) <=> AllKnown(h)
BY DEF Promise!Slot, Slot, Promise!Installed, Installed, Promise!NoTargets, NoTargets,
       Promise!Verdict, Verdict, Promise!NewTargets, NewTargets,
       Promise!Members, Members, Promise!AllKnown, AllKnown

\* BackendManager::new leaves both slots empty (backend.rs:168-169).
LEMMA RefinesInit == Init => Promise!ServingInit
BY SameTerms DEF Init, Promise!ServingInit

\* setup_backend_router (backend.rs:108), called by update_router.
LEMMA RefinesUpdate ==
  ASSUME IInv, NEW t \in Task, NEW c \in Config, NEW s \in Slot,
         UpdateRouter(t, c, s), slot' = slot
  PROVE  Promise!ServingNext \/ UNCHANGED Promise!servingVars
<1>1. CASE UNCHANGED <<health, running>>
  BY <1>1 DEF Promise!servingVars
<1>2. ASSUME NEW r \in Free, Enabled(c, s) # {},
             health' = [health EXCEPT ![r] = NewTargets(Enabled(c, s))],
             running' = running \cup {r}
      PROVE  Promise!ServingNext
  <2>1. r \in RouterId /\ r \notin running
    BY DEF Free
  <2>2. r \notin Installed /\ health[r] = NoTargets
    BY <2>1 DEF IInv, ApplyInv, RouterInv, HealthInv
  <2>3. Members(health[r]) = {}
    BY <2>2 DEF Members, NoTargets
  <2>4. Enabled(c, s) \in SUBSET Name
    BY EnabledNames
  <2>5. Promise!Build(r, Enabled(c, s))
    BY <1>2, <2>1, <2>2, <2>3, <2>4, SameTerms DEF Promise!Build
  <2> QED BY <2>1, <2>4, <2>5 DEF Promise!ServingNext
<1> QED BY <1>1, <1>2 DEF UpdateRouter

\* load_full and store (backend.rs:227-230).
LEMMA RefinesSwap ==
  ASSUME IInv, NEW t \in Task, Swap(t)
  PROVE  Promise!ServingNext
<1>1. /\ pc[t] = "swap" /\ stage[t] \in Slot /\ fresh[t] \in RouterId \cup {None}
      /\ slot' = [slot EXCEPT ![stage[t]] = fresh[t]]
      /\ UNCHANGED <<health, running>>
  BY DEF Swap, IInv, TypeInv, TypeOK
<1>2. fresh[t] # None => fresh[t] \in running \ Installed /\ AllKnown(health[fresh[t]])
  BY <1>1 DEF IInv, ApplyInv, RouterInv, HealthInv, HeldBy
<1>3. Promise!Install(stage[t], fresh[t])
  BY <1>1, <1>2, SameTerms DEF Promise!Install
<1> QED BY <1>1, <1>3, SameTerms DEF Promise!ServingNext

\* router_old.stop() (backend.rs:234).
LEMMA RefinesStop ==
  ASSUME IInv, NEW t \in Task, StopOld(t)
  PROVE  Promise!ServingNext
<1>1. /\ old[t] \in RouterId
      /\ running' = running \ {old[t]}
      /\ health' = [health EXCEPT ![old[t]] = NoTargets]
      /\ slot' = slot
  BY DEF StopOld, IInv, TypeInv, TypeOK, ApplyInv, LocalsInv
<1>2. old[t] \in running \ Installed
  BY <1>1 DEF IInv, ApplyInv, RouterInv, HeldBy
<1>3. Promise!Stop(old[t])
  BY <1>1, <1>2, SameTerms DEF Promise!Stop
<1> QED BY <1>1, <1>3 DEF Promise!ServingNext

\* A dropped handler drops the router it builds or stops, or nothing.
LEMMA RefinesCancel ==
  ASSUME IInv, NEW t \in Task, Cancel(t)
  PROVE  Promise!ServingNext \/ UNCHANGED Promise!servingVars
<1> DEFINE gone == {fresh[t], old[t]} \ {None}
<1>1. slot' = slot
  BY DEF Cancel
<1>2. CASE UNCHANGED <<health, running>>
  BY <1>1, <1>2 DEF Promise!servingVars
<1>3. CASE /\ running' = running \ gone
           /\ health' = [r \in RouterId |-> IF r \in gone THEN NoTargets ELSE health[r]]
  <2>1. CASE gone = {}
    <3>1. running' = running /\ health' = health
      BY <1>3, <2>1 DEF IInv, TypeInv, TypeOK
    <3> QED BY <1>2, <3>1
  <2>2. CASE gone # {}
    <3>1. PICK r \in RouterId : gone = {r} /\ HeldBy(t, r)
      BY <2>2 DEF IInv, TypeInv, TypeOK, ApplyInv, LocalsInv, HeldBy
    <3>2. r \in running \ Installed
      BY <3>1 DEF IInv, ApplyInv, RouterInv
    <3> HIDE DEF gone
    <3>3. running' = running \ {r} /\ health' = [health EXCEPT ![r] = NoTargets]
      BY <1>3, <3>1 DEF IInv, TypeInv, TypeOK
    <3>4. Promise!Stop(r)
      BY <1>1, <3>2, <3>3, SameTerms DEF Promise!Stop
    <3> QED BY <3>4 DEF Promise!ServingNext
  <2> QED BY <2>1, <2>2
<1> QED BY <1>2, <1>3 DEF Cancel

\* Everything else the tasks and the environment do.
LEMMA RefinesStep ==
  ASSUME IInv, [Next]_vars
  PROVE  Promise!ServingNext \/ UNCHANGED Promise!servingVars
<1> USE DEF lockVars, taskVars, routerVars, procVars, ghostVars, Promise!servingVars
<1>1. CASE Forget
  BY <1>1, SameTerms DEF Forget, Promise!Vanish, Promise!ServingNext
<1>2. CASE Start \/ Sighup \/ HupRecv \/ Crash \/ EditFile \/ UNCHANGED vars
  BY <1>1, <1>2 DEF Start, Sighup, HupRecv, Crash, EditFile, vars
<1>3. ASSUME NEW t \in Task, Arrive(t)
      PROVE  UNCHANGED Promise!servingVars
  BY <1>3 DEF Arrive, ConfigPut, ConfigReload, BackendState, ConfigGet
<1>4. ASSUME NEW t \in Task,
             ReadFile(t) \/ GetConfig(t) \/ WaitHealth(t) \/ PersistConfig(t)
             \/ Truncate(t) \/ Write(t) \/ Respond(t)
      PROVE  UNCHANGED Promise!servingVars
  BY <1>4 DEF ReadFile, GetConfig, WaitHealth, PersistConfig, Truncate, Write, Respond
<1>5. ASSUME NEW t \in Task, SetConfig(t)
      PROVE  Promise!ServingNext \/ UNCHANGED Promise!servingVars
  <2>1. cfg[t] \in Config /\ UpdateRouter(t, cfg[t], "main") /\ slot' = slot /\ "main" \in Slot
    BY <1>5 DEF SetConfig, IInv, TypeInv, PayloadOK, Slot
  <2> QED BY <2>1, RefinesUpdate
<1>6. ASSUME NEW t \in Task, SetState(t)
      PROVE  Promise!ServingNext \/ UNCHANGED Promise!servingVars
  <2> DEFINE c == SetEnabled(config, op[t].name, op[t].enabled)
  <2>1. CASE Known(config, op[t].name)
    <3>1. PICK i \in DOMAIN config.backends : config.backends[i].name = op[t].name
      BY <2>1 DEF Known
    <3>2. config.backends[i] \in BackendConf
      BY <3>1, ConfigLists DEF IInv, TypeInv, TypeOK
    <3>3. config \in Config /\ op[t].name \in Name /\ op[t].enabled \in BOOLEAN
      BY <3>1, <3>2 DEF IInv, TypeInv, TypeOK, Op, BackendConf
    <3>4. c \in Config /\ UpdateRouter(t, c, "main") /\ slot' = slot /\ "main" \in Slot
      BY <1>6, <2>1, <3>3, SetEnabledType DEF SetState, Slot
    <3> HIDE DEF c
    <3> QED BY <3>4, RefinesUpdate
  <2>2. CASE ~Known(config, op[t].name)
    BY <1>6, <2>2 DEF SetState
  <2> QED BY <2>1, <2>2
<1>7. ASSUME NEW t \in Task, Swap(t) \/ StopOld(t)
      PROVE  Promise!ServingNext
  BY <1>7, RefinesSwap, RefinesStop
<1>8. ASSUME NEW t \in Task, NextRouter(t)
      PROVE  Promise!ServingNext \/ UNCHANGED Promise!servingVars
  <2>1. slot' = slot /\ config \in Config /\ "fallback" \in Slot
    BY <1>8 DEF NextRouter, IInv, TypeInv, TypeOK, Slot
  <2>2. CASE UpdateRouter(t, config, "fallback")
    BY <2>1, <2>2, RefinesUpdate
  <2>3. CASE UNCHANGED <<health, running>>
    BY <2>1, <2>3
  <2> QED BY <1>8, <2>2, <2>3 DEF NextRouter
<1>9. ASSUME NEW t \in Task, Cancel(t)
      PROVE  Promise!ServingNext \/ UNCHANGED Promise!servingVars
  BY <1>9, RefinesCancel
<1>10. ASSUME NEW r \in RouterId, NEW n \in Name, NEW v \in Verdict, HealthReport(r, n, v)
       PROVE  Promise!ServingNext
  <2>1. Promise!Report(r, n, v)
    BY <1>10, SameTerms DEF HealthReport, Promise!Report
  <2> QED BY <2>1, SameTerms DEF Promise!ServingNext
<1> QED
  BY <1>2, <1>3, <1>4, <1>5, <1>6, <1>7, <1>8, <1>9, <1>10 DEF Next, Step

\* Whatever the API, SIGHUP, the disk and the clients do, requests meet the
\* slots of Serving: routers are built, checked, installed, replaced and
\* stopped in this order only (backend.rs:210-237).
THEOREM Implements == Spec => ImplementsServing
<1>1. IInv /\ [Next]_vars => [Promise!ServingNext]_(Promise!servingVars)
  BY RefinesStep
<1> QED
  BY <1>1, RefinesInit, Invariance, PTL DEF Spec, ImplementsServing, Promise!ServingSpec

\* What a request loads is running, has targets, and knows the health of each
\* (backend.rs:220-230).
THEOREM InstalledAreReady == Spec => []SlotsReady
<1>1. IInv => SlotsReady
  <2> SUFFICES ASSUME IInv, NEW s \in Slot, slot[s] # None
               PROVE  /\ slot[s] \in running
                      /\ Members(health[slot[s]]) # {}
                      /\ AllKnown(health[slot[s]])
    BY SameTerms DEF SlotsReady, Promise!SlotsReady
  <2>1. slot[s] \in RouterId /\ slot[s] \in Installed
    BY DEF IInv, TypeInv, TypeOK, Installed
  <2>2. slot[s] \in running
    BY <2>1 DEF IInv, ApplyInv, RouterInv
  <2> QED BY <2>2 DEF IInv, ApplyInv, HealthInv
<1> QED BY <1>1, Invariance, PTL

\* The main and the fallback router are never the same one (backend.rs:240).
THEOREM InstalledAreDistinct == Spec => []SlotsDistinct
<1>1. IInv => SlotsDistinct
  BY DEF IInv, ApplyInv, RouterInv, SlotsDistinct, Promise!SlotsDistinct
<1> QED BY <1>1, Invariance, PTL
=============================================================================
