--------------------------- MODULE BackendManager ---------------------------
(***************************************************************************)
(* `BackendManager` of src/backend.rs with the callers of src/api.rs: the  *)
(* tokio mutex around the configuration, the two ArcSwap router slots, the *)
(* configuration file, and the tasks that use them: API handlers (Call)    *)
(* and the SIGHUP loop of `Run::run` (Daemon, which also stands for the    *)
(* load `core::main` makes before it starts the loop).                     *)
(*                                                                         *)
(* Between two awaits a task runs without the others changing what it      *)
(* uses, so an action is what a task does from one await to the next; a    *)
(* file operation that runs on the blocking pool is an action per system   *)
(* call.  pc[t] says where task t is:                                      *)
(*   idle         no call in progress                                      *)
(*   read         in fs::read of load_config                               *)
(*   lock         in config.lock() of set_config, set_backend_state or     *)
(*                get_config                                               *)
(*   wait         in wait_healthchecks, holding the lock                   *)
(*   swap         about to load the old router and store the new one       *)
(*   stop         in router_old.stop(), holding the lock                   *)
(*   next         update_router returned                                   *)
(*   relock       in config.lock() of persist_config                       *)
(*   trunc, write in fs::write of persist_config                           *)
(*   ok, rejected, unpersisted   the call is about to answer               *)
(***************************************************************************)
EXTENDS TargetHealth, Naturals, FiniteSets, SequencesExt

CONSTANTS
  Offered,      \* the configurations callers and the operator may supply
  RouterId,     \* identities of LBBackendRouter instances
  Call,         \* API calls that can be in flight at once
  Daemon,       \* the task of BackendManager::run
  None,         \* no router, no configuration
  Empty,        \* content of the file after open(O_TRUNC)
  Garbage,      \* content of the file that does not parse
  Requests,     \* the operations callers use: put, reload, state, get
  Faults,       \* the environment: cancel, crash, io, edit, sighup
  MaxStray      \* bound: how many routers may be stray at once

Task == Call \cup {Daemon}
Slot == {"main", "fallback"}

BackendConf == [name : Name, enabled : BOOLEAN]
Config == [backends : Seq(BackendConf), fallback : Seq(BackendConf)]
DefaultConfig == [backends |-> <<>>, fallback |-> <<>>]

Content == Config \cup {Empty, Garbage}

ASSUME TaskAssumption == Daemon \notin Call
ASSUME OfferedAssumption == Offered \subseteq Config
ASSUME FileAssumption ==
  /\ Empty \notin Config /\ Garbage \notin Config /\ None \notin Config
  /\ Empty # Garbage
ASSUME StrayAssumption == MaxStray \in Nat
ASSUME RouterAssumption == None \notin RouterId
ASSUME RequestsAssumption == Requests \subseteq {"put", "reload", "state", "get"}
ASSUME FaultsAssumption ==
  Faults \subseteq {"cancel", "crash", "io", "edit", "sighup"}

Op == [kind : {"none", "put", "reload", "state", "get"},
       name : Name \cup {None}, enabled : BOOLEAN]
NoOp == [kind |-> "none", name |-> None, enabled |-> FALSE]
OpOf(k) == [NoOp EXCEPT !.kind = k]

Applying == {"wait", "swap", "stop", "next"}
Pc == {"idle", "read", "lock", "relock", "trunc", "write",
       "ok", "rejected", "unpersisted"} \cup Applying

VARIABLES
  config,       \* the Config inside the mutex
  lockq,        \* tasks in config.lock(), first come first served; the head
                \* holds the lock or is the next to be given it
  pc, op,       \* per task: where it is, and what it was asked to do
  cfg,          \* per task: config_new of set_config, cfg of persist_config
  stage,        \* per task: the slot update_router was called with
  fresh,        \* per task: router_new, while not installed
  old,          \* per task: router_old, while not stopped
  health, running, slot,   \* the routers, as in Serving
  disk,         \* the content of config_path
  hup,          \* a SIGHUP is pending in the signal stream
  proc,         \* the process: down, booting or up
  torn,         \* ghost: an apply was abandoned and none completed since
  stray         \* the routers dropped without stop() whose checks go on

lockVars == <<config, lockq>>
taskVars == <<pc, op, cfg, stage, fresh, old>>
routerVars == <<health, running, slot>>
procVars == <<hup, proc>>
ghostVars == <<torn, stray>>
vars == <<lockVars, taskVars, routerVars, disk, procVars, ghostVars>>
-----------------------------------------------------------------------------
\* The list of the configuration behind a slot.
ListOf(c, s) == IF s = "main" THEN c.backends ELSE c.fallback

\* The names `apply` hands to update_router: the enabled backends of a list.
Enabled(c, s) ==
  {n \in Name : \E i \in DOMAIN ListOf(c, s) :
                   ListOf(c, s)[i].name = n /\ ListOf(c, s)[i].enabled}

\* Mutant of UniqueNames: each list is tested on its own.
UniquePerList(c) ==
  \A s \in Slot : \A i, j \in DOMAIN ListOf(c, s) :
    ListOf(c, s)[i].name = ListOf(c, s)[j].name => i = j

\* set_config's test: no name twice in the two lists taken together.
UniqueNames(c) ==
  LET all == c.backends \o c.fallback
  IN  \A i, j \in DOMAIN all : all[i].name = all[j].name => i = j

\* set_backend_state's find: the backend is in the main list.
Known(c, n) == \E i \in DOMAIN c.backends : c.backends[i].name = n

\* Mutant of SetEnabled: the state is flipped instead of set.
FlipEnabled(c, n, e) ==
  [backends |-> [i \in DOMAIN c.backends |->
                   IF c.backends[i].name = n
                   THEN [c.backends[i] EXCEPT !.enabled = ~@]
                   ELSE c.backends[i]],
   fallback |-> c.fallback]

\* set_backend_state's update: the first backend of that name.
SetEnabled(c, n, e) ==
  [backends |-> [i \in DOMAIN c.backends |->
                   IF /\ c.backends[i].name = n
                      /\ \A j \in 1 .. i - 1 : c.backends[j].name # n
                   THEN [c.backends[i] EXCEPT !.enabled = e]
                   ELSE c.backends[i]],
   fallback |-> c.fallback]

MembersOf(x) == IF x = None THEN {} ELSE Members(health[x])

\* Mutant of Free: a router that is already running is taken again.
AnyRouter == RouterId

Installed == {slot[s] : s \in Slot} \ {None}
Free == RouterId \ running

Goto(t, l) == pc' = [pc EXCEPT ![t] = l]

\* Mutant of Holds: every task that asked for the lock goes on.
Asked(t) == \E i \in DOMAIN lockq : lockq[i] = t

\* The lock is fair: a task joins the end of the queue, and the head holds it.
Holds(t) == lockq # <<>> /\ Head(lockq) = t
Queue(t) == lockq' = Append(lockq, t)
Unlock == lockq' = Tail(lockq)

\* Mutant of Leave: a dropped waiter keeps its place, a dropped guard the lock.
LeaveBehind(t) == UNCHANGED lockq

\* Dropping the future of config.lock(), or the guard it returned.
Leave(t) ==
  \/ /\ \A i \in DOMAIN lockq : lockq[i] # t
     /\ UNCHANGED lockq
  \/ \E i \in DOMAIN lockq :
       /\ lockq[i] = t
       /\ lockq' = RemoveAt(lockq, i)
-----------------------------------------------------------------------------
Init ==
  /\ config = DefaultConfig
  /\ lockq = <<>>
  /\ pc = [t \in Task |-> "idle"]
  /\ op = [t \in Task |-> NoOp]
  /\ cfg = [t \in Task |-> None]
  /\ stage = [t \in Task |-> "main"]
  /\ fresh = [t \in Task |-> None]
  /\ old = [t \in Task |-> None]
  /\ health = [r \in RouterId |-> NoTargets]
  /\ running = {}
  /\ slot = [s \in Slot |-> None]
  /\ disk \in Offered
  /\ hup = FALSE
  /\ proc = "down"
  /\ torn = FALSE
  /\ stray = {}

\* The memory of the process is gone, whatever its tasks were doing.
Forget ==
  /\ config' = DefaultConfig
  /\ lockq' = <<>>
  /\ pc' = [t \in Task |-> "idle"]
  /\ op' = [t \in Task |-> NoOp]
  /\ cfg' = [t \in Task |-> None]
  /\ stage' = [t \in Task |-> "main"]
  /\ fresh' = [t \in Task |-> None]
  /\ old' = [t \in Task |-> None]
  /\ health' = [r \in RouterId |-> NoTargets]
  /\ running' = {}
  /\ slot' = [s \in Slot |-> None]
  /\ hup' = FALSE
  /\ proc' = "down"
  /\ torn' = FALSE
  /\ stray' = {}

-----------------------------------------------------------------------------
(* Calls arrive.                                                           *)

\* core::main loads the configuration before it starts any server.
Start ==
  /\ proc = "down"
  /\ proc' = "booting"
  /\ op' = [op EXCEPT ![Daemon] = OpOf("reload")]
  /\ Goto(Daemon, "read")
  /\ UNCHANGED <<lockVars, cfg, stage, fresh, old, routerVars, disk, hup, ghostVars>>

\* Signals that arrive before the loop looks again are one signal.  Before
\* the loop has subscribed to it the signal kills the process.
Sighup ==
  /\ "sighup" \in Faults
  /\ \/ /\ proc = "up"
        /\ hup' = TRUE
        /\ UNCHANGED <<lockVars, taskVars, routerVars, disk, proc, ghostVars>>
     \/ /\ proc = "booting"
        /\ Forget
        /\ UNCHANGED disk

\* Mutant of HupRecv: a signal that arrives during a reload is dropped.
HupDropped ==
  /\ proc = "up" /\ hup
  /\ hup' = FALSE
  /\ IF pc[Daemon] = "idle"
     THEN /\ op' = [op EXCEPT ![Daemon] = OpOf("reload")]
          /\ Goto(Daemon, "read")
     ELSE UNCHANGED <<op, pc>>
  /\ UNCHANGED <<lockVars, cfg, stage, fresh, old, routerVars, disk, proc, ghostVars>>

\* The select loop of run takes a signal; it runs load_config to the end
\* before it looks for the next.
HupRecv ==
  /\ proc = "up" /\ hup /\ pc[Daemon] = "idle"
  /\ hup' = FALSE
  /\ op' = [op EXCEPT ![Daemon] = OpOf("reload")]
  /\ Goto(Daemon, "read")
  /\ UNCHANGED <<lockVars, cfg, stage, fresh, old, routerVars, disk, proc, ghostVars>>

Idle(t) == proc = "up" /\ t \in Call /\ pc[t] = "idle"

\* set_config up to its lock: an unacceptable configuration is refused
\* before the lock is asked for.
SubmitConfig(t, c) ==
  IF UniqueNames(c)
  THEN /\ cfg' = [cfg EXCEPT ![t] = c]
       /\ Queue(t)
       /\ Goto(t, "lock")
  ELSE /\ Goto(t, "rejected")
       /\ UNCHANGED <<lockq, cfg>>

\* PUT /config/put with a body that parses.
ConfigPut(t) ==
  /\ "put" \in Requests /\ Idle(t)
  /\ \E c \in Offered : SubmitConfig(t, c)
  /\ op' = [op EXCEPT ![t] = OpOf("put")]
  /\ UNCHANGED <<config, stage, fresh, old, routerVars, disk, procVars, ghostVars>>

\* GET /config/reload
ConfigReload(t) ==
  /\ "reload" \in Requests /\ Idle(t)
  /\ op' = [op EXCEPT ![t] = OpOf("reload")]
  /\ Goto(t, "read")
  /\ UNCHANGED <<lockVars, cfg, stage, fresh, old, routerVars, disk, procVars, ghostVars>>

\* GET /backend/{backend}/{enable|disable}
BackendState(t) ==
  /\ "state" \in Requests /\ Idle(t)
  /\ \E n \in Name, e \in BOOLEAN :
       op' = [op EXCEPT ![t] = [kind |-> "state", name |-> n, enabled |-> e]]
  /\ Queue(t)
  /\ Goto(t, "lock")
  /\ UNCHANGED <<config, cfg, stage, fresh, old, routerVars, disk, procVars, ghostVars>>

\* GET /config/get
ConfigGet(t) ==
  /\ "get" \in Requests /\ Idle(t)
  /\ op' = [op EXCEPT ![t] = OpOf("get")]
  /\ Queue(t)
  /\ Goto(t, "lock")
  /\ UNCHANGED <<config, cfg, stage, fresh, old, routerVars, disk, procVars, ghostVars>>
-----------------------------------------------------------------------------
(* Calls proceed.                                                          *)

\* load_config reads and parses the file, then calls set_config.
ReadFile(t) ==
  /\ pc[t] = "read"
  /\ IF disk \in Config
     THEN SubmitConfig(t, disk)
     ELSE /\ Goto(t, "rejected")
          /\ UNCHANGED <<lockq, cfg>>
  /\ UNCHANGED <<config, op, stage, fresh, old, routerVars, disk, procVars, ghostVars>>

\* update_router up to its first await: nothing to wait for without backends,
\* otherwise a router over them whose health checks start.
UpdateRouter(t, c, s) ==
  /\ stage' = [stage EXCEPT ![t] = s]
  /\ \/ /\ Enabled(c, s) = {}
        /\ Goto(t, "swap")
        /\ UNCHANGED <<fresh, health, running>>
     \/ /\ Enabled(c, s) # {}
        /\ Goto(t, "wait")
        /\ \E r \in Free :
             /\ fresh' = [fresh EXCEPT ![t] = r]
             /\ health' = [health EXCEPT ![r] = NewTargets(Enabled(c, s))]
             /\ running' = running \cup {r}

\* Mutant of SetConfig: apply reads the configuration before it is replaced.
SetConfigLate(t) ==
  /\ pc[t] = "lock" /\ Holds(t) /\ op[t].kind \in {"put", "reload"}
  /\ config' = cfg[t]
  /\ UpdateRouter(t, config, "main")
  /\ UNCHANGED <<lockq, op, cfg, old, slot, disk, procVars, ghostVars>>

\* set_config is given the lock; apply begins with the main router.
SetConfig(t) ==
  /\ pc[t] = "lock" /\ Holds(t) /\ op[t].kind \in {"put", "reload"}
  /\ config' = cfg[t]
  /\ UpdateRouter(t, cfg[t], "main")
  /\ UNCHANGED <<lockq, op, cfg, old, slot, disk, procVars, ghostVars>>

\* set_backend_state is given the lock.
SetState(t) ==
  /\ pc[t] = "lock" /\ Holds(t) /\ op[t].kind = "state"
  /\ IF Known(config, op[t].name)
     THEN LET c == SetEnabled(config, op[t].name, op[t].enabled)
          IN  /\ config' = c
              /\ UpdateRouter(t, c, "main")
              /\ UNCHANGED lockq
     ELSE /\ Goto(t, "rejected")
          /\ Unlock
          /\ UNCHANGED <<config, stage, fresh, health, running>>
  /\ UNCHANGED <<op, cfg, old, slot, disk, procVars, ghostVars>>

\* get_config is given the lock, and returns it with the clone.
GetConfig(t) ==
  /\ pc[t] = "lock" /\ Holds(t) /\ op[t].kind = "get"
  /\ Unlock
  /\ Goto(t, "ok")
  /\ UNCHANGED <<config, op, cfg, stage, fresh, old, routerVars, disk, procVars, ghostVars>>

\* Mutant of WaitHealth: one known target is enough.
WaitHealthAny(t) ==
  /\ pc[t] = "wait"
  /\ \E n \in Name : health[fresh[t]][n] \in Verdict
  /\ Goto(t, "swap")
  /\ UNCHANGED <<lockVars, op, cfg, stage, fresh, old, routerVars, disk, procVars, ghostVars>>

\* wait_healthchecks returns: every target of the new router is known.
WaitHealth(t) ==
  /\ pc[t] = "wait"
  /\ AllKnown(health[fresh[t]])
  /\ Goto(t, "swap")
  /\ UNCHANGED <<lockVars, op, cfg, stage, fresh, old, routerVars, disk, procVars, ghostVars>>

\* Mutant of Swap: both calls of update_router are given the fallback slot.
SwapFallback(t) ==
  /\ pc[t] = "swap"
  /\ slot' = [slot EXCEPT !["fallback"] = fresh[t]]
  /\ old' = [old EXCEPT ![t] = slot["fallback"]]
  /\ fresh' = [fresh EXCEPT ![t] = None]
  /\ Goto(t, IF slot["fallback"] = None THEN "next" ELSE "stop")
  /\ UNCHANGED <<lockVars, op, cfg, stage, health, running, disk, procVars, ghostVars>>

\* router.load_full(); router.store(router_new).
Swap(t) ==
  /\ pc[t] = "swap"
  /\ slot' = [slot EXCEPT ![stage[t]] = fresh[t]]
  /\ old' = [old EXCEPT ![t] = slot[stage[t]]]
  /\ fresh' = [fresh EXCEPT ![t] = None]
  /\ Goto(t, IF slot[stage[t]] = None THEN "next" ELSE "stop")
  /\ UNCHANGED <<lockVars, op, cfg, stage, health, running, disk, procVars, ghostVars>>

\* Mutant of StopOld: the old router is dropped but its checks go on.
DropOld(t) ==
  /\ pc[t] = "stop"
  /\ old' = [old EXCEPT ![t] = None]
  /\ Goto(t, "next")
  /\ UNCHANGED <<lockVars, op, cfg, stage, fresh, routerVars, disk, procVars, ghostVars>>

\* router_old.stop() returns.
StopOld(t) ==
  /\ pc[t] = "stop"
  /\ running' = running \ {old[t]}
  /\ health' = [health EXCEPT ![old[t]] = NoTargets]
  /\ old' = [old EXCEPT ![t] = None]
  /\ Goto(t, "next")
  /\ UNCHANGED <<lockVars, op, cfg, stage, fresh, slot, disk, procVars, ghostVars>>

\* apply goes on with the fallback router, or returns and drops the guard.
\* config_put calls persist_config next, the other callers answer.
NextRouter(t) ==
  /\ pc[t] = "next"
  /\ \/ /\ stage[t] = "main"
        /\ UpdateRouter(t, config, "fallback")
        /\ UNCHANGED <<lockq, torn>>
     \/ /\ stage[t] = "fallback"
        /\ IF op[t].kind = "put"
           THEN Goto(t, "relock") /\ lockq' = Append(Tail(lockq), t)
           ELSE Goto(t, "ok") /\ Unlock
        /\ torn' = FALSE
        /\ UNCHANGED <<stage, fresh, health, running>>
  /\ UNCHANGED <<config, op, cfg, old, slot, disk, procVars, stray>>

\* Mutant of PersistConfig: the guard lives until the end of the function.
PersistLocked(t) ==
  /\ pc[t] = "relock" /\ Holds(t)
  /\ cfg' = [cfg EXCEPT ![t] = config]
  /\ Goto(t, "trunc")
  /\ UNCHANGED <<lockVars, op, stage, fresh, old, routerVars, disk, procVars, ghostVars>>

\* Mutant of PersistConfig: the clone is not what is written.
PersistNothing(t) ==
  /\ pc[t] = "relock" /\ Holds(t)
  /\ cfg' = [cfg EXCEPT ![t] = None]
  /\ Unlock
  /\ Goto(t, "trunc")
  /\ UNCHANGED <<config, op, stage, fresh, old, routerVars, disk, procVars, ghostVars>>

\* persist_config clones the configuration under the lock and lets go of it.
PersistConfig(t) ==
  /\ pc[t] = "relock" /\ Holds(t)
  /\ cfg' = [cfg EXCEPT ![t] = config]
  /\ Unlock
  /\ Goto(t, "trunc")
  /\ UNCHANGED <<config, op, stage, fresh, old, routerVars, disk, procVars, ghostVars>>

\* fs::write opens the file with O_TRUNC ...
Truncate(t) ==
  /\ pc[t] = "trunc"
  /\ \/ disk' = Empty /\ Goto(t, "write")
     \/ "io" \in Faults /\ Goto(t, "unpersisted") /\ UNCHANGED disk
  /\ UNCHANGED <<lockVars, op, cfg, stage, fresh, old, routerVars, procVars, ghostVars>>

\* Mutant of Write: the error of fs::write is dropped.
WriteAnyway(t) ==
  /\ pc[t] = "write"
  /\ \/ disk' \in IF disk \in {Empty, cfg[t]} THEN {cfg[t]}
                                              ELSE {cfg[t], Garbage}
     \/ "io" \in Faults /\ disk' \in {disk, Garbage}
  /\ Goto(t, "ok")
  /\ UNCHANGED <<lockVars, op, cfg, stage, fresh, old, routerVars, procVars, ghostVars>>

\* ... and writes from the start of the file: over what another fs::write
\* has put there since, whose tail remains when it is the longer one.
Write(t) ==
  /\ pc[t] = "write"
  /\ \/ /\ disk' \in IF disk \in {Empty, cfg[t]} THEN {cfg[t]}
                                                ELSE {cfg[t], Garbage}
        /\ Goto(t, "ok")
     \/ /\ "io" \in Faults
        /\ disk' \in {disk, Garbage}
        /\ Goto(t, "unpersisted")
  /\ UNCHANGED <<lockVars, op, cfg, stage, fresh, old, routerVars, procVars, ghostVars>>

\* The handler answers.  The load at boot decides whether the process goes
\* on: core::main returns its error, and starts the tasks otherwise.
Respond(t) ==
  /\ pc[t] \in {"ok", "rejected", "unpersisted"}
  /\ Goto(t, "idle")
  /\ op' = [op EXCEPT ![t] = NoOp]
  /\ cfg' = [cfg EXCEPT ![t] = None]
  /\ stage' = [stage EXCEPT ![t] = "main"]
  /\ proc' = IF proc = "booting"
             THEN IF pc[t] = "ok" THEN "up" ELSE "down"
             ELSE proc
  /\ UNCHANGED <<lockVars, fresh, old, routerVars, disk, hup, ghostVars>>
-----------------------------------------------------------------------------
(* The environment.                                                        *)

\* One health check of a running router answers.
HealthReport(r, n, v) ==
  /\ r \in running
  /\ n \in Members(health[r])
  /\ health' = [health EXCEPT ![r][n] = v]
  /\ UNCHANGED <<lockVars, taskVars, running, slot, disk, procVars, ghostVars>>

\* A client goes away and hyper drops the handler future at its await.  The
\* guard and the routers it owns go with it, which nobody calls stop() on:
\* their checks end with them or go on unseen, as ic_bn_lib has it.  What
\* fs::write has handed to the blocking pool runs on.
Cancel(t) ==
  /\ "cancel" \in Faults /\ t \in Call
  /\ pc[t] \in {"read", "lock", "wait", "stop", "relock"}
  /\ Leave(t)
  /\ LET gone == {fresh[t], old[t]} \ {None}
     IN  \/ /\ running' = running \ gone
            /\ health' = [r \in RouterId |->
                            IF r \in gone THEN NoTargets ELSE health[r]]
            /\ UNCHANGED stray
         \/ /\ Cardinality(stray \cup gone) <= MaxStray
            /\ stray' = stray \cup gone
            /\ UNCHANGED <<health, running>>
  /\ torn' = (torn \/ pc[t] = "wait" \/ (pc[t] = "stop" /\ stage[t] = "main"))
  /\ Goto(t, "idle")
  /\ op' = [op EXCEPT ![t] = NoOp]
  /\ cfg' = [cfg EXCEPT ![t] = None]
  /\ stage' = [stage EXCEPT ![t] = "main"]
  /\ fresh' = [fresh EXCEPT ![t] = None]
  /\ old' = [old EXCEPT ![t] = None]
  /\ UNCHANGED <<config, slot, disk, procVars>>

\* The process is killed at any point.
Crash ==
  /\ "crash" \in Faults /\ proc # "down"
  /\ Forget
  /\ UNCHANGED disk

\* The operator edits the file.
EditFile ==
  /\ "edit" \in Faults
  /\ \A t \in Task : pc[t] # "write"
  /\ disk' \in Offered \cup {Garbage}
  /\ UNCHANGED <<lockVars, taskVars, routerVars, procVars, ghostVars>>
-----------------------------------------------------------------------------
Arrive(t) == ConfigPut(t) \/ ConfigReload(t) \/ BackendState(t) \/ ConfigGet(t)

Step(t) ==
  \/ ReadFile(t) \/ SetConfig(t) \/ SetState(t) \/ GetConfig(t)
  \/ WaitHealth(t) \/ Swap(t) \/ StopOld(t) \/ NextRouter(t)
  \/ PersistConfig(t) \/ Truncate(t) \/ Write(t) \/ Respond(t)

Next ==
  \/ Start \/ Sighup \/ HupRecv \/ Crash \/ EditFile
  \/ \E t \in Task : Arrive(t) \/ Step(t) \/ Cancel(t)
  \/ \E r \in RouterId, n \in Name, v \in Verdict : HealthReport(r, n, v)

Spec == Init /\ [][Next]_vars

\* The runtime polls every task that can go on, the signal loop included;
\* `check` answers within check_timeout; systemd restarts the process.
FirstReport(r, n) ==
  health[r][n] = "Unknown" /\ \E v \in Verdict : HealthReport(r, n, v)

Fairness ==
  /\ \A t \in Task : WF_vars(Step(t))
  /\ WF_vars(HupRecv)
  /\ WF_vars(Start)
  /\ \A r \in RouterId, n \in Name : WF_vars(FirstReport(r, n))

FairSpec == Spec /\ Fairness
-----------------------------------------------------------------------------
(* Properties.                                                             *)

\* The type invariant.
TypeOK ==
  /\ config \in Config
  /\ lockq \in Seq(Task)
  /\ pc \in [Task -> Pc]
  /\ op \in [Task -> Op]
  /\ cfg \in [Task -> Config \cup {None}]
  /\ stage \in [Task -> Slot]
  /\ fresh \in [Task -> RouterId \cup {None}]
  /\ old \in [Task -> RouterId \cup {None}]
  /\ health \in [RouterId -> HealthRecord]
  /\ running \in SUBSET RouterId
  /\ slot \in [Slot -> RouterId \cup {None}]
  /\ disk \in Content
  /\ hup \in BOOLEAN
  /\ proc \in {"down", "booting", "up"}
  /\ torn \in BOOLEAN
  /\ stray \in SUBSET RouterId

\* No task is inside apply.
AtRest == \A t \in Task : pc[t] \notin Applying

\* apply keeps the guard across its awaits (backend.rs:240), so that nobody
\* else updates the routers: whenever no task is inside it, and the last one
\* was not abandoned by its client half way, each slot serves exactly the
\* enabled backends of its list in the configuration callers can read.
ServedMatchesConfig ==
  AtRest /\ ~torn => \A s \in Slot : MembersOf(slot[s]) = Enabled(config, s)

\* The uniqueness test of set_config (backend.rs:290) spans both lists, and
\* toggling never changes a name: no backend is in the main and in the
\* fallback router at once, except while one of them is being replaced.
ServedOnce ==
  AtRest /\ ~torn =>
    MembersOf(slot["main"]) \cap MembersOf(slot["fallback"]) = {}

\* Every running router is in a slot, in the hands of the one task that
\* builds or stops it, or was dropped with its caller: no sequence of swaps,
\* rejected calls and kills leaves health checks running for a router nobody
\* can reach, and none stops a router that is still served (backend.rs:233).
OwnedRouters ==
  LET hands == (UNION {{fresh[t], old[t]} : t \in Task}) \ {None}
  IN  /\ running = Installed \cup hands \cup stray
      /\ Installed \cap hands = {}
      /\ stray \cap (Installed \cup hands) = {}

\* update_router works from the configuration its caller has just written:
\* whenever a slot changes hands, the new content is that of the current
\* configuration, whatever calls were queued or answered meanwhile.
SwapMatchesConfig ==
  [][\A s \in Slot : slot'[s] # slot[s] /\ proc' # "down" =>
        MembersOf(slot[s])' = Enabled(config', s)]_vars

\* apply updates the main router first (backend.rs:258): the fallback router
\* is replaced only when the main slot already serves the configuration.
FallbackSwapsAfterMain ==
  [][slot'["fallback"] # slot["fallback"] /\ proc' # "down" =>
        MembersOf(slot["main"]) = Enabled(config, "main")]_vars

\* What apply has made of a call when it returns is what that call asked for,
\* not what another one has brought (backend.rs:310, 353): after a put or a
\* reload both slots serve the configuration this task came with, after a
\* toggle the main slot serves the backend exactly if it was to be enabled.
AppliesWhatWasAsked ==
  [][\A t \in Task :
       pc[t] = "next" /\ pc'[t] \in {"relock", "ok"} =>
         IF op[t].kind = "state"
         THEN op[t].name \in MembersOf(slot["main"]) <=> op[t].enabled
         ELSE \A s \in Slot : MembersOf(slot[s]) = Enabled(cfg[t], s)]_vars

\* A put is answered with 200 only when the file holds what was put: no failure
\* of a system call between the two is lost (api.rs:151), whatever the puts
\* and toggles before it have left behind.  One client at a time.
AcceptedPutsAreOnDisk ==
  \A t \in Call :
    /\ pc[t] = "ok" /\ op[t].kind = "put"
    /\ \A u \in Task \ {t} : pc[u] = "idle"
    => disk = config

\* "Persists the current config to disk" (backend.rs:312): when no call is
\* in progress the file holds the current configuration.  Two concurrent
\* puts break it; see the findings in the README.
PersistsTheCurrentConfig ==
  proc = "up" /\ (\A t \in Task : pc[t] = "idle") => disk = config

\* Task t can take its next step: the await it is in is over, and there is
\* a router left for update_router to build.
MayGoOn(t) ==
  \/ pc[t] \in {"read", "swap", "stop", "trunc", "write", "ok", "rejected", "unpersisted"}
  \/ pc[t] = "wait" /\ AllKnown(health[fresh[t]])
  \/ pc[t] = "relock" /\ Holds(t)
  \/ pc[t] \in {"lock", "next"} /\ Holds(t) /\ op[t].kind # "none" /\ Free # {}

\* Task t waits for a check that a running router still owes an answer.
AwaitsCheck(t) ==
  /\ pc[t] = "wait" /\ fresh[t] \in running
  /\ \E n \in Members(health[fresh[t]]) : health[fresh[t]][n] = "Unknown"

\* The lock is never lost: whoever waits for it stands in the queue once,
\* behind a task that can go on or waits for a check only, whichever callers
\* went away while they held the lock or waited for it (backend.rs:222, 300).
NobodyIsStuck ==
  \A t \in Task : pc[t] # "idle" =>
    \/ MayGoOn(t) \/ AwaitsCheck(t)
    \/ /\ \E i \in 2 .. Len(lockq) : lockq[i] = t
       /\ MayGoOn(Head(lockq)) \/ AwaitsCheck(Head(lockq))

\* Every call comes to an end: nobody waits for the lock for ever, because
\* its holder waits only for checks that answer within their timeout.
CallsComplete ==
  \A t \in Task : pc[t] # "idle" ~> pc[t] = "idle"

\* An edit of the file that is followed by a SIGHUP takes effect, when the
\* file then stays as it is - also when the signal arrives while the loop is
\* still busy with the reload of an older content (backend.rs:274, 372).
EditsTakeEffect ==
  \A c \in Offered : UniqueNames(c) =>
    [](hup /\ [](disk = c) => <>(config = c \/ proc = "down"))

\* What requests are promised about the slots they read.
Promise == INSTANCE Serving WITH
  health <- health, running <- running, slot <- slot

\* Every step of the manager is a step of Serving or leaves the routers
\* alone: a router is installed only when every target is known (229), and
\* stopped only after it was replaced (234).
ImplementsServing == Promise!ServingSpec

\* The invariants of Serving, read off the manager's own routers.
SlotsReady == Promise!SlotsReady
SlotsDistinct == Promise!SlotsDistinct
=============================================================================
