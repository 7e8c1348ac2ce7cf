------------------------ MODULE BackendManagerProofs ------------------------
(***************************************************************************)
(* Theorems about BackendManager, for every set of names, routers, calls,  *)
(* offered configurations and faults.                                      *)
(***************************************************************************)
EXTENDS BackendManager, SequenceTheorems, FiniteSetTheorems, TLAPS

-----------------------------------------------------------------------------
(* The operators the model is built from.                                  *)

\* A configuration is two lists of backends (Config, backend.rs:50).
LEMMA ConfigLists ==
  ASSUME NEW c \in Config
  PROVE  c.backends \in Seq(BackendConf) /\ c.fallback \in Seq(BackendConf)
BY DEF Config

\* set_backend_state (backend.rs:340) leaves a configuration a configuration.
LEMMA SetEnabledType ==
  ASSUME NEW c \in Config, NEW n \in Name, NEW e \in BOOLEAN
  PROVE  SetEnabled(c, n, e) \in Config
<1> DEFINE bs == SetEnabled(c, n, e).backends
<1>1. c.backends \in Seq(BackendConf) /\ c.fallback \in Seq(BackendConf)
  BY ConfigLists
<1>2. bs = [i \in DOMAIN c.backends |->
              IF /\ c.backends[i].name = n
                 /\ \A j \in 1 .. i - 1 : c.backends[j].name # n
              THEN [c.backends[i] EXCEPT !.enabled = e]
              ELSE c.backends[i]]
  BY DEF SetEnabled
<1>3. \A i \in DOMAIN c.backends : c.backends[i] \in BackendConf
  BY <1>1
<1>4. \A i \in DOMAIN c.backends : bs[i] \in BackendConf
  BY <1>2, <1>3 DEF BackendConf
<1>5. DOMAIN bs = 1 .. Len(c.backends) /\ Len(c.backends) \in Nat
  BY <1>1, <1>2
<1>6. bs \in Seq(BackendConf)
  <2>1. bs \in [1 .. Len(c.backends) -> BackendConf]
    BY <1>1, <1>2, <1>4, <1>5
  <2> QED BY <2>1, <1>5, SeqDef
<1> QED BY <1>1, <1>6 DEF SetEnabled, Config

\* A router just built serves exactly the backends it was built over.
LEMMA MembersNew ==
  ASSUME NEW ms \in SUBSET Name
  PROVE  Members(NewTargets(ms)) = ms
BY DEF Members, NewTargets

\* The answer of a health check does not change whom a router serves.
LEMMA MembersReport ==
  ASSUME NEW h \in HealthRecord, NEW n \in Members(h), NEW v \in Verdict
  PROVE  Members([h EXCEPT ![n] = v]) = Members(h)
BY DEF Members, Verdict, HealthRecord

\* Health records stay health records when a router is built, forgotten or
\* checked (backend.rs:108, 394).
LEMMA HealthTypes ==
  /\ NoTargets \in HealthRecord
  /\ \A ms \in SUBSET Name : NewTargets(ms) \in HealthRecord
  /\ \A h \in HealthRecord, n \in Name, v \in Verdict :
       [h EXCEPT ![n] = v] \in HealthRecord
BY DEF NoTargets, NewTargets, HealthRecord, TargetState, Verdict

\* apply's filter (backend.rs:242-255) yields names of backends.
LEMMA EnabledNames ==
  \A c, s : Enabled(c, s) \in SUBSET Name
BY DEF Enabled

\* The operations the handlers of api.rs set out on are of their type.
LEMMA OpTypes ==
  /\ NoOp \in Op
  /\ \A k \in {"put", "reload", "get"} : OpOf(k) \in Op /\ OpOf(k).kind = k
  /\ \A n \in Name, e \in BOOLEAN :
       [kind |-> "state", name |-> n, enabled |-> e] \in Op
BY DEF NoOp, Op, OpOf

\* The lock's queue stays a queue of tasks when one joins, the head leaves, or
\* one gives up.
LEMMA QueueTypes ==
  ASSUME NEW q \in Seq(Task), NEW t \in Task
  PROVE  /\ Append(q, t) \in Seq(Task)
         /\ q # <<>> => Tail(q) \in Seq(Task)
         /\ \A i \in DOMAIN q : RemoveAt(q, i) \in Seq(Task)
<1>1. Append(q, t) \in Seq(Task) /\ (q # <<>> => Tail(q) \in Seq(Task))
  OBVIOUS
<1>2. ASSUME NEW i \in DOMAIN q
      PROVE  RemoveAt(q, i) \in Seq(Task)
  <2>1. i \in 1 .. Len(q) /\ Len(q) \in Nat
    OBVIOUS
  <2>2. SubSeq(q, 1, i - 1) \in Seq(Task) /\ SubSeq(q, i + 1, Len(q)) \in Seq(Task)
    BY <2>1
  <2> QED BY <2>2 DEF RemoveAt
<1> QED BY <1>1, <1>2

\* When a task that is not the head gives up, the head stays.
LEMMA HeadStays ==
  ASSUME NEW q \in Seq(Task), NEW i \in DOMAIN q, q[i] # Head(q)
  PROVE  RemoveAt(q, i) # <<>> /\ Head(RemoveAt(q, i)) = Head(q)
<1>1. i \in 2 .. Len(q) /\ Len(q) \in Nat
  OBVIOUS
<1> DEFINE l == SubSeq(q, 1, i - 1)
           r == SubSeq(q, i + 1, Len(q))
<1>2. /\ l \in Seq(Task) /\ Len(l) = i - 1 /\ l[1] = q[1]
      /\ r \in Seq(Task) /\ Len(r) \in Nat
  <2>1. \A j \in 1 .. Len(q) : q[j] \in Task
    OBVIOUS
  <2>2. l \in Seq(Task) /\ Len(l) = i - 1 /\ l[1] = q[1]
    <3>1. /\ l \in Seq(Task)
          /\ Len(l) = IF 1 <= i - 1 THEN i - 1 - 1 + 1 ELSE 0
          /\ \A j \in 1 .. i - 1 - 1 + 1 : l[j] = q[1 + j - 1]
      <4>1. \A j \in 1 .. i - 1 : q[j] \in Task
        BY <1>1, <2>1
      <4>2. 1 \in Int /\ i - 1 \in Int
        BY <1>1
      <4> QED BY <4>1, <4>2, SubSeqProperties
    <3>2. l[1] = q[1 + 1 - 1]
      BY <1>1, <3>1
    <3> HIDE DEF l
    <3> QED BY <1>1, <3>1, <3>2
  <2>3. r \in Seq(Task)
    BY <1>1, <2>1, SubSeqProperties
  <2> QED BY <2>2, <2>3, LenProperties
<1>3. l \o r \in Seq(Task) /\ Len(l \o r) = Len(l) + Len(r) /\ (l \o r)[1] = l[1]
  <2> HIDE DEF l, r
  <2>1. /\ l \o r \in Seq(Task)
        /\ Len(l \o r) = Len(l) + Len(r)
        /\ \A j \in 1 .. Len(l) + Len(r) :
             (l \o r)[j] = IF j <= Len(l) THEN l[j] ELSE r[j - Len(l)]
    BY <1>2, ConcatProperties
  <2> QED BY <1>1, <1>2, <2>1
<1>4. l \o r # <<>> /\ Head(l \o r) = q[1] /\ Head(q) = q[1]
  BY <1>1, <1>2, <1>3
<1> QED BY <1>4 DEF RemoveAt

\* When a task joins the queue, the head stays.
LEMMA HeadJoins ==
  ASSUME NEW q \in Seq(Task), NEW t \in Task
  PROVE  q # <<>> => Append(q, t) # <<>> /\ Head(Append(q, t)) = Head(q)
<1>1. Len(Append(q, t)) = Len(q) + 1 /\ Len(q) \in Nat
  BY AppendProperties
<1>2. q # <<>> => Len(q) > 0 /\ Append(q, t)[1] = q[1] /\ Head(q) = q[1]
  BY AppendProperties, EmptySeq, LenProperties
<1> QED BY <1>1, <1>2
-----------------------------------------------------------------------------
(* Type correctness.                                                       *)

\* What a task carries to the lock or to the file is a configuration, and
\* set_config has tested it before it asked for the lock.
PayloadOK ==
  \A t \in Task :
    /\ pc[t] = "lock" /\ op[t].kind \in {"put", "reload"} =>
         cfg[t] \in Config /\ UniqueNames(cfg[t])
    /\ pc[t] \in {"trunc", "write"} => cfg[t] \in Config

\* The guard of config.lock() is handed to apply and lives until apply
\* returns (backend.rs:300-302): who updates the routers holds the lock.
Mutex == \A t \in Task : pc[t] \in Applying => Holds(t)

TypeInv == TypeOK /\ PayloadOK

\* Whatever the tasks were doing, a process that has ended leaves the state of
\* BackendManager::new behind, and the file (backend.rs:158).
LEMMA ForgetType == Forget /\ disk' = disk /\ TypeInv => TypeInv'
<1> SUFFICES ASSUME Forget, disk' = disk, TypeInv PROVE TypeInv'
  OBVIOUS
<1>1. DefaultConfig \in Config /\ <<>> \in Seq(Task)
  BY DEF DefaultConfig, Config
<1>2. /\ config' \in Config /\ lockq' \in Seq(Task)
      /\ pc' \in [Task -> Pc] /\ op' \in [Task -> Op]
      /\ cfg' \in [Task -> Config \cup {None}] /\ stage' \in [Task -> Slot]
  BY <1>1, OpTypes DEF Forget, Pc, Slot
<1>3. /\ fresh' \in [Task -> RouterId \cup {None}]
      /\ old' \in [Task -> RouterId \cup {None}]
      /\ health' \in [RouterId -> HealthRecord]
      /\ running' \in SUBSET RouterId
      /\ slot' \in [Slot -> RouterId \cup {None}]
      /\ disk' \in Content /\ hup' \in BOOLEAN /\ torn' \in BOOLEAN
      /\ stray' \in SUBSET RouterId
      /\ proc' \in {"down", "booting", "up"}
  BY HealthTypes DEF Forget, TypeInv, TypeOK
<1>4. PayloadOK'
  BY DEF Forget, PayloadOK
<1> QED BY <1>2, <1>3, <1>4 DEF TypeInv, TypeOK

\* The synchronous part of update_router (backend.rs:210).
LEMMA UpdateRouterType ==
  ASSUME TypeOK, NEW t \in Task, NEW c \in Config, NEW s \in Slot, UpdateRouter(t, c, s)
  PROVE  /\ pc' \in [Task -> Pc] /\ pc'[t] \in {"swap", "wait"}
         /\ \A u \in Task \ {t} : pc'[u] = pc[u]
         /\ stage' \in [Task -> Slot]
         /\ fresh' \in [Task -> RouterId \cup {None}]
         /\ health' \in [RouterId -> HealthRecord]
         /\ running' \in SUBSET RouterId
<1>1. pc' \in [Task -> Pc] /\ pc'[t] \in {"swap", "wait"}
  BY DEF UpdateRouter, Goto, TypeOK, Pc, Applying
<1>2. \A u \in Task \ {t} : pc'[u] = pc[u]
  BY DEF UpdateRouter, Goto, TypeOK
<1>3. stage' \in [Task -> Slot] /\ fresh' \in [Task -> RouterId \cup {None}]
  BY DEF UpdateRouter, TypeOK, Free
<1>4. health' \in [RouterId -> HealthRecord] /\ running' \in SUBSET RouterId
  BY HealthTypes, EnabledNames DEF UpdateRouter, TypeOK, Free
<1> QED BY <1>1, <1>2, <1>3, <1>4

\* BackendManager::new makes a well-typed state (backend.rs:158).
LEMMA TypeInit == Init => TypeInv
<1> SUFFICES ASSUME Init PROVE TypeInv
  OBVIOUS
<1>1. DefaultConfig \in Config /\ <<>> \in Seq(Task)
  BY DEF DefaultConfig, Config
<1>2. /\ config \in Config /\ lockq \in Seq(Task)
      /\ pc \in [Task -> Pc] /\ op \in [Task -> Op]
      /\ cfg \in [Task -> Config \cup {None}] /\ stage \in [Task -> Slot]
  BY <1>1, OpTypes DEF Init, Pc, Slot
<1>3. /\ fresh \in [Task -> RouterId \cup {None}]
      /\ old \in [Task -> RouterId \cup {None}]
      /\ health \in [RouterId -> HealthRecord]
      /\ running \in SUBSET RouterId
      /\ slot \in [Slot -> RouterId \cup {None}]
      /\ disk \in Content /\ hup \in BOOLEAN /\ torn \in BOOLEAN
      /\ stray \in SUBSET RouterId
      /\ proc \in {"down", "booting", "up"}
  BY HealthTypes, OfferedAssumption DEF Init, Content
<1>4. PayloadOK
  BY DEF Init, PayloadOK
<1> QED BY <1>2, <1>3, <1>4 DEF TypeInv, TypeOK

\* Every step of a handler, of the signal loop, of the health checks and of
\* the environment keeps types and payloads (backend.rs:210-423).
LEMMA TypeStep == TypeInv /\ Mutex /\ [Next]_vars => TypeInv'
<1> SUFFICES ASSUME TypeInv, Mutex, [Next]_vars PROVE TypeInv'
  OBVIOUS
<1> USE DEF TypeInv, TypeOK
<1>1. CASE Start
  BY <1>1, OpTypes DEF Start, Goto, Pc, PayloadOK, lockVars, routerVars, ghostVars, Task
<1>2. CASE Sighup
  BY <1>2, ForgetType DEF Sighup, PayloadOK, lockVars, taskVars, routerVars, ghostVars
<1>3. CASE HupRecv
  BY <1>3, OpTypes DEF HupRecv, Goto, Pc, PayloadOK, lockVars, routerVars, ghostVars, Task
<1>4. CASE Crash
  BY <1>4, ForgetType DEF Crash
<1>5. CASE EditFile
  BY <1>5, OfferedAssumption DEF EditFile, Content, PayloadOK, lockVars, taskVars, routerVars, procVars, ghostVars
<1>6. ASSUME NEW t \in Task, ConfigPut(t) PROVE TypeInv'
  <2>1. PICK c \in Config : SubmitConfig(t, c)
    BY <1>6, OfferedAssumption DEF ConfigPut
  <2>2. /\ op' = [op EXCEPT ![t] = OpOf("put")] /\ op' \in [Task -> Op]
        /\ UNCHANGED <<config, stage, fresh, old, routerVars, disk, procVars, ghostVars>>
    BY <1>6, OpTypes DEF ConfigPut
  <2>3. CASE UniqueNames(c)
    <3>1. lockq' \in Seq(Task)
      BY <2>1, <2>3, QueueTypes DEF SubmitConfig, Queue
    <3>2. pc' = [pc EXCEPT ![t] = "lock"] /\ cfg' = [cfg EXCEPT ![t] = c]
      BY <2>1, <2>3 DEF SubmitConfig, Goto
    <3>3. TypeOK'
      BY <2>2, <3>1, <3>2 DEF Pc, routerVars, procVars, ghostVars
    <3>4. PayloadOK'
      BY <2>2, <2>3, <3>2 DEF PayloadOK
    <3> QED BY <3>3, <3>4
  <2>4. CASE ~UniqueNames(c)
    <3>1. pc' = [pc EXCEPT ![t] = "rejected"] /\ cfg' = cfg /\ lockq' = lockq
      BY <2>1, <2>4 DEF SubmitConfig, Goto
    <3>2. TypeOK'
      BY <2>2, <3>1 DEF Pc, routerVars, procVars, ghostVars
    <3>3. PayloadOK'
      BY <2>2, <3>1 DEF PayloadOK
    <3> QED BY <3>2, <3>3
  <2> QED BY <2>3, <2>4
<1>7. ASSUME NEW t \in Task, ConfigReload(t) PROVE TypeInv'
  BY <1>7, OpTypes DEF ConfigReload, Goto, Pc, PayloadOK, lockVars, routerVars, procVars, ghostVars
<1>8. ASSUME NEW t \in Task, BackendState(t) PROVE TypeInv'
  BY <1>8, OpTypes, QueueTypes DEF BackendState, Queue, Goto, Pc, PayloadOK, routerVars, procVars, ghostVars
<1>9. ASSUME NEW t \in Task, ConfigGet(t) PROVE TypeInv'
  BY <1>9, OpTypes, QueueTypes DEF ConfigGet, Queue, Goto, Pc, PayloadOK, routerVars, procVars, ghostVars
<1>10. ASSUME NEW t \in Task, ReadFile(t) PROVE TypeInv'
  <2>1. CASE disk \in Config /\ UniqueNames(disk)
    <3>1. /\ pc' = [pc EXCEPT ![t] = "lock"]
          /\ cfg' = [cfg EXCEPT ![t] = disk]
          /\ lockq' = Append(lockq, t)
          /\ UNCHANGED <<config, op, stage, fresh, old, health, running, slot, disk, hup, proc, torn, stray>>
      BY <1>10, <2>1 DEF ReadFile, SubmitConfig, Queue, Goto, routerVars, procVars, ghostVars
    <3>2. TypeOK'
      BY <2>1, <3>1, QueueTypes DEF Pc
    <3>3. PayloadOK'
      BY <2>1, <3>1 DEF PayloadOK
    <3> QED BY <3>2, <3>3
  <2>2. CASE pc' = [pc EXCEPT ![t] = "rejected"] /\ UNCHANGED <<lockq, cfg>>
    BY <1>10, <2>2 DEF ReadFile, Pc, PayloadOK, routerVars, procVars, ghostVars
  <2> QED BY <1>10, <2>1, <2>2 DEF ReadFile, SubmitConfig, Goto
<1>11. ASSUME NEW t \in Task, SetConfig(t) PROVE TypeInv'
  <2>1. cfg[t] \in Config /\ UpdateRouter(t, cfg[t], "main")
    BY <1>11 DEF SetConfig, PayloadOK
  <2> QED BY <1>11, <2>1, UpdateRouterType DEF SetConfig, Slot, PayloadOK, procVars, ghostVars
<1>12. ASSUME NEW t \in Task, SetState(t) PROVE TypeInv'
  <2> DEFINE c == SetEnabled(config, op[t].name, op[t].enabled)
  <2>1. CASE ~Known(config, op[t].name)
    BY <1>12, <2>1, QueueTypes DEF SetState, Holds, Unlock, Goto, Pc, PayloadOK, procVars, ghostVars
  <2>2. CASE Known(config, op[t].name)
    <3>1. op[t].name \in Name /\ op[t].enabled \in BOOLEAN
      <4>1. PICK i \in DOMAIN config.backends : config.backends[i].name = op[t].name
        BY <2>2 DEF Known
      <4>2. config.backends[i] \in BackendConf
        BY <4>1, ConfigLists
      <4> QED BY <4>1, <4>2 DEF BackendConf, Op
    <3>2. c \in Config /\ config' = c /\ UpdateRouter(t, c, "main")
      BY <1>12, <2>2, <3>1, SetEnabledType DEF SetState
    <3> HIDE DEF c
    <3> QED BY <1>12, <2>2, <3>2, UpdateRouterType DEF SetState, Slot, PayloadOK, procVars, ghostVars
  <2> QED BY <2>1, <2>2
<1>13. ASSUME NEW t \in Task, GetConfig(t) PROVE TypeInv'
  BY <1>13, QueueTypes DEF GetConfig, Holds, Unlock, Goto, Pc, PayloadOK, routerVars, procVars, ghostVars
<1>14. ASSUME NEW t \in Task, WaitHealth(t) PROVE TypeInv'
  BY <1>14 DEF WaitHealth, Goto, Pc, Applying, PayloadOK, lockVars, routerVars, procVars, ghostVars
<1>15. ASSUME NEW t \in Task, Swap(t) PROVE TypeInv'
  BY <1>15 DEF Swap, Goto, Pc, Applying, PayloadOK, lockVars, procVars, ghostVars
<1>16. ASSUME NEW t \in Task, StopOld(t) PROVE TypeInv'
  BY <1>16, HealthTypes DEF StopOld, Goto, Pc, Applying, PayloadOK, lockVars, procVars, ghostVars
<1>17. ASSUME NEW t \in Task, NextRouter(t) PROVE TypeInv'
  <2>1. CASE UpdateRouter(t, config, "fallback") /\ UNCHANGED <<lockq, torn>>
    BY <1>17, <2>1, UpdateRouterType DEF NextRouter, Slot, PayloadOK, procVars, ghostVars
  <2>2. CASE stage[t] = "fallback"
    <3>1. Tail(lockq) \in Seq(Task)
      BY <1>17, QueueTypes DEF NextRouter, Mutex, Holds, Applying
    <3> QED BY <1>17, <2>2, <3>1, QueueTypes DEF NextRouter, Unlock, Goto, Pc, PayloadOK, procVars, ghostVars
  <2> QED BY <1>17, <2>1, <2>2 DEF NextRouter
<1>18. ASSUME NEW t \in Task, PersistConfig(t) PROVE TypeInv'
  BY <1>18, QueueTypes DEF PersistConfig, Holds, Unlock, Goto, Pc, PayloadOK, routerVars, procVars, ghostVars
<1>19. ASSUME NEW t \in Task, Truncate(t) PROVE TypeInv'
  BY <1>19 DEF Truncate, Goto, Pc, Content, PayloadOK, lockVars, routerVars, procVars, ghostVars
<1>20. ASSUME NEW t \in Task, Write(t) PROVE TypeInv'
  BY <1>20 DEF Write, Goto, Pc, Content, PayloadOK, lockVars, routerVars, procVars, ghostVars
<1>21. ASSUME NEW t \in Task, Respond(t) PROVE TypeInv'
  BY <1>21, OpTypes DEF Respond, Goto, Pc, Slot, PayloadOK, lockVars, routerVars, procVars, ghostVars
<1>22. ASSUME NEW t \in Task, Cancel(t) PROVE TypeInv'
  <2>1. /\ running' \in SUBSET RouterId /\ health' \in [RouterId -> HealthRecord]
        /\ stray' \in SUBSET RouterId
    BY <1>22, HealthTypes DEF Cancel
  <2>2. lockq' \in Seq(Task)
    BY <1>22, QueueTypes DEF Cancel, Leave
  <2>3. /\ pc' \in [Task -> Pc] /\ op' \in [Task -> Op]
        /\ cfg' \in [Task -> Config \cup {None}] /\ stage' \in [Task -> Slot]
        /\ fresh' \in [Task -> RouterId \cup {None}]
        /\ old' \in [Task -> RouterId \cup {None}]
    BY <1>22, OpTypes DEF Cancel, Goto, Pc, Slot
  <2>4. PayloadOK'
    BY <1>22 DEF Cancel, Goto, PayloadOK
  <2> QED BY <1>22, <2>1, <2>2, <2>3, <2>4 DEF Cancel, procVars
<1>23. ASSUME NEW r \in RouterId, NEW n \in Name, NEW v \in Verdict, HealthReport(r, n, v)
       PROVE  TypeInv'
  BY <1>23, HealthTypes DEF HealthReport, PayloadOK, lockVars, taskVars, procVars, ghostVars
<1>24. CASE UNCHANGED vars
  BY <1>24 DEF vars, lockVars, taskVars, routerVars, procVars, ghostVars, PayloadOK
<1> QED
  BY <1>1, <1>2, <1>3, <1>4, <1>5, <1>6, <1>7, <1>8, <1>9, <1>10, <1>11, <1>12,
     <1>13, <1>14, <1>15, <1>16, <1>17, <1>18, <1>19, <1>20, <1>21, <1>22, <1>23, <1>24
  DEF Next, Arrive, Step

-----------------------------------------------------------------------------
(* Mutual exclusion.                                                       *)

\* Two tasks inside apply would both be the head of the queue.
LEMMA OneApplies ==
  ASSUME Mutex, NEW t \in Task, NEW u \in Task,
         pc[t] \in Applying, pc[u] \in Applying
  PROVE  t = u
BY DEF Mutex, Holds

\* No step lets a second task into apply: the lock passes from head to head,
\* and who leaves the queue without being its head does not move it
\* (backend.rs:300-302, 342-353).
LEMMA MutexStep == TypeInv /\ Mutex /\ [Next]_vars => Mutex'
<1> SUFFICES ASSUME TypeInv, Mutex, [Next]_vars PROVE Mutex'
  OBVIOUS
<1> USE DEF TypeInv, TypeOK
<1>1. CASE Start \/ HupRecv
  BY <1>1 DEF Start, HupRecv, Goto, Mutex, Holds, Applying, lockVars
<1>2. CASE Sighup \/ Crash
  BY <1>2 DEF Sighup, Crash, Forget, Mutex, Holds, Applying, lockVars, taskVars
<1>3. CASE EditFile
  BY <1>3 DEF EditFile, Mutex, Holds, lockVars, taskVars
<1>4. ASSUME NEW t \in Task, Arrive(t) \/ ReadFile(t) PROVE Mutex'
  \* At most it joins the queue.
  <2>1. \A u \in Task : pc'[u] \in Applying => pc[u] \in Applying
    BY <1>4 DEF Arrive, ReadFile, ConfigPut, ConfigReload, BackendState, ConfigGet,
                SubmitConfig, Goto, Applying
  <2>2. lockq' \in {lockq, Append(lockq, t)}
    BY <1>4 DEF Arrive, ReadFile, ConfigPut, ConfigReload, BackendState, ConfigGet,
                SubmitConfig, Queue, lockVars
  <2>3. lockq # <<>> => lockq' # <<>> /\ Head(lockq') = Head(lockq)
    BY <2>2, HeadJoins
  <2> QED BY <2>1, <2>3 DEF Mutex, Holds
<1>5. ASSUME NEW t \in Task, SetConfig(t) \/ SetState(t) PROVE Mutex'
  <2>1. Holds(t) /\ \A u \in Task \ {t} : pc'[u] = pc[u] /\ (pc[u] \in Applying => u = t)
    BY <1>5 DEF SetConfig, SetState, UpdateRouter, Goto, Mutex, Holds
  <2>2. CASE lockq' = lockq
    BY <2>1, <2>2 DEF Mutex, Holds
  <2>3. CASE pc'[t] = "rejected"
    BY <2>1, <2>3 DEF Mutex, Applying
  <2> QED BY <1>5, <2>2, <2>3 DEF SetConfig, SetState, Goto
<1>6. ASSUME NEW t \in Task, GetConfig(t) \/ PersistConfig(t) PROVE Mutex'
  \* Who gives the lock back holds it, so that nobody is inside apply.
  BY <1>6 DEF GetConfig, PersistConfig, Goto, Mutex, Holds, Applying
<1>7. ASSUME NEW t \in Task, WaitHealth(t) \/ Swap(t) \/ StopOld(t) PROVE Mutex'
  BY <1>7 DEF WaitHealth, Swap, StopOld, Goto, Mutex, Holds, Applying, lockVars
<1>8. ASSUME NEW t \in Task, NextRouter(t) PROVE Mutex'
  <2>1. Holds(t) /\ \A u \in Task \ {t} : pc'[u] = pc[u] /\ pc[u] \notin Applying
    BY <1>8, OneApplies DEF NextRouter, UpdateRouter, Goto, Mutex, Applying
  <2>2. CASE lockq' = lockq
    BY <2>1, <2>2 DEF Mutex, Holds
  <2>3. CASE pc'[t] \in {"relock", "ok"}
    BY <2>1, <2>3 DEF Mutex, Applying
  <2> QED BY <1>8, <2>2, <2>3 DEF NextRouter, Goto
<1>9. ASSUME NEW t \in Task, Truncate(t) \/ Write(t) \/ Respond(t) PROVE Mutex'
  BY <1>9 DEF Truncate, Write, Respond, Goto, Mutex, Holds, Applying, lockVars
<1>10. ASSUME NEW t \in Task, Cancel(t) PROVE Mutex'
  <2>1. \A u \in Task : pc'[u] \in Applying => u # t /\ pc[u] \in Applying
    BY <1>10 DEF Cancel, Goto, Applying
  <2>2. ASSUME NEW u \in Task, pc'[u] \in Applying PROVE Holds(u)'
    <3>1. lockq # <<>> /\ Head(lockq) = u /\ u # t
      BY <2>1, <2>2 DEF Mutex, Holds
    <3>2. CASE lockq' = lockq
      BY <3>1, <3>2 DEF Holds
    <3>3. ASSUME NEW i \in DOMAIN lockq, lockq[i] = t, lockq' = RemoveAt(lockq, i)
          PROVE  Holds(u)'
      BY <3>1, <3>3, HeadStays DEF Holds
    <3> QED BY <1>10, <3>2, <3>3 DEF Cancel, Leave
  <2> QED BY <2>2 DEF Mutex
<1>11. ASSUME NEW r \in RouterId, NEW n \in Name, NEW v \in Verdict, HealthReport(r, n, v)
       PROVE  Mutex'
  BY <1>11 DEF HealthReport, Mutex, Holds, lockVars, taskVars
<1>12. CASE UNCHANGED vars
  BY <1>12 DEF vars, lockVars, taskVars, Mutex, Holds
<1> QED
  BY <1>1, <1>2, <1>3, <1>4, <1>5, <1>6, <1>7, <1>8, <1>9, <1>10, <1>11, <1>12
  DEF Next, Step

\* No task exists while the process is down, and no call before core::main has
\* loaded the configuration (core.rs:216-224).
ProcInv ==
  /\ proc = "down" => \A t \in Task : pc[t] = "idle"
  /\ proc = "booting" => \A t \in Call : pc[t] = "idle"

\* Tasks come and go with the process as core::main has it (core.rs:216-224).
LEMMA ProcStep == TypeInv /\ ProcInv /\ [Next]_vars => ProcInv'
<1> SUFFICES ASSUME TypeInv, ProcInv, [Next]_vars PROVE ProcInv'
  OBVIOUS
<1> USE DEF TypeInv, TypeOK, Goto, Task
<1>1. CASE Start
  BY <1>1, TaskAssumption DEF Start, ProcInv
<1>2. CASE Forget
  BY <1>2 DEF Forget, ProcInv
<1>3. CASE Sighup \/ Crash
  BY <1>2, <1>3 DEF Sighup, Crash, ProcInv, taskVars
<1>4. CASE HupRecv
  BY <1>4 DEF HupRecv, ProcInv
<1>5. CASE EditFile \/ UNCHANGED vars
  BY <1>5 DEF EditFile, ProcInv, vars, taskVars, procVars, ghostVars
<1>6. ASSUME NEW t \in Task, Arrive(t) PROVE ProcInv'
  BY <1>6 DEF Arrive, ConfigPut, ConfigReload, BackendState, ConfigGet, Idle, ProcInv, procVars, ghostVars
<1>7. ASSUME NEW t \in Task, pc[t] # "idle", proc' = proc, \A u \in Task \ {t} : pc'[u] = pc[u]
      PROVE  ProcInv'
  BY <1>7 DEF ProcInv
<1>8. ASSUME NEW t \in Task,
             ReadFile(t) \/ GetConfig(t) \/ PersistConfig(t) \/ Truncate(t) \/ Write(t)
             \/ WaitHealth(t) \/ Swap(t) \/ StopOld(t) \/ Cancel(t)
      PROVE  ProcInv'
  <2>1. pc[t] # "idle" /\ proc' = proc /\ \A u \in Task \ {t} : pc'[u] = pc[u]
    BY <1>8 DEF ReadFile, SubmitConfig, GetConfig, PersistConfig, Truncate, Write,
                WaitHealth, Swap, StopOld, Cancel, procVars, ghostVars
  <2> QED BY <2>1, <1>7
<1>9. ASSUME NEW t \in Task, SetConfig(t) \/ SetState(t) \/ NextRouter(t) PROVE ProcInv'
  <2>1. pc[t] # "idle" /\ proc' = proc /\ \A u \in Task \ {t} : pc'[u] = pc[u]
    BY <1>9 DEF SetConfig, SetState, NextRouter, UpdateRouter, procVars, ghostVars
  <2> QED BY <2>1, <1>7
<1>10. ASSUME NEW t \in Task, Respond(t) PROVE ProcInv'
  <2>1. /\ pc[t] # "idle" /\ pc' = [pc EXCEPT ![t] = "idle"]
        /\ proc' = IF proc = "booting" THEN IF pc[t] = "ok" THEN "up" ELSE "down" ELSE proc
    BY <1>10 DEF Respond
  <2>2. proc = "booting" => t = Daemon /\ \A u \in Task : pc'[u] = "idle"
    BY <2>1 DEF ProcInv
  <2> QED BY <2>1, <2>2 DEF ProcInv
<1>11. ASSUME NEW r \in RouterId, NEW n \in Name, NEW v \in Verdict, HealthReport(r, n, v)
       PROVE  ProcInv'
  BY <1>11 DEF HealthReport, ProcInv, taskVars, procVars, ghostVars
<1> QED
  BY <1>1, <1>3, <1>4, <1>5, <1>6, <1>8, <1>9, <1>10, <1>11 DEF Next, Step

\* Types, payloads and mutual exclusion together hold for ever; neither half
\* is inductive without the other (NextRouter takes the tail of a queue that
\* Mutex says is not empty).
LEMMA SafeTypes == Spec => [](TypeInv /\ Mutex)
<1>1. Init => TypeInv /\ Mutex
  BY TypeInit DEF Init, Mutex, Applying
<1> QED BY <1>1, TypeStep, MutexStep, PTL DEF Spec

\* Type correctness of the manager: what every task of src/backend.rs finds
\* in the mutex, in the slots, in its locals and in the file.
THEOREM TypeCorrect == Spec => []TypeOK
<1>1. TypeInv => TypeOK
  BY DEF TypeInv
<1> QED BY SafeTypes, <1>1, PTL
-----------------------------------------------------------------------------
(* The inductive invariant behind the safety properties.                   *)

\* The locals of update_router exist only between its steps.
LocalsInv ==
  \A t \in Task :
    /\ fresh[t] # None => pc[t] \in {"wait", "swap"}
    /\ pc[t] = "wait" => fresh[t] # None
    /\ old[t] # None <=> pc[t] = "stop"

\* Each running router has one owner: a slot, router_new or router_old; or it
\* has lost its owner, and nobody can reach it.
HeldBy(t, r) == fresh[t] = r \/ old[t] = r
RouterInv ==
  /\ \A r \in RouterId :
       r \in running <=> r \in Installed \cup stray \/ \E t \in Task : HeldBy(t, r)
  /\ \A r \in RouterId, t \in Task : HeldBy(t, r) => r \notin Installed
  /\ \A r \in stray : r \notin Installed /\ \A t \in Task : ~HeldBy(t, r)
  /\ slot["main"] # None => slot["main"] # slot["fallback"]

\* A router has targets while it runs, and all of them are known from the
\* moment wait_healthchecks returns.
HealthInv ==
  /\ \A r \in running : Members(health[r]) # {}
  /\ \A r \in RouterId \ running : health[r] = NoTargets
  /\ \A s \in Slot : slot[s] # None => AllKnown(health[slot[s]])
  /\ \A t \in Task : pc[t] = "swap" /\ fresh[t] # None => AllKnown(health[fresh[t]])

\* How far the slots have caught up with the configuration, by the stage of
\* the task inside apply.
Serves(s) == MembersOf(slot[s]) = Enabled(config, s)
MatchInv ==
  /\ AtRest /\ ~torn => Serves("main") /\ Serves("fallback")
  /\ \A t \in Task :
       /\ pc[t] \in {"wait", "swap"} => MembersOf(fresh[t]) = Enabled(config, stage[t])
       /\ pc[t] \in {"stop", "next"} => Serves(stage[t])
       /\ pc[t] \in Applying /\ stage[t] = "fallback" => Serves("main")

ApplyInv == LocalsInv /\ RouterInv /\ HealthInv /\ MatchInv /\ UniqueNames(config)

IInv == TypeInv /\ Mutex /\ ProcInv /\ ApplyInv

\* A step that leaves the routers, the configuration and apply alone.
Quiet ==
  /\ UNCHANGED <<config, fresh, old, health, running, slot, torn, stray>>
  /\ \A t \in Task : \/ pc'[t] = pc[t] /\ stage'[t] = stage[t]
                     \/ pc[t] \notin Applying /\ pc'[t] \notin Applying

\* Steps outside apply (reading, queueing, cloning, writing the file) cannot
\* disturb what apply maintains (backend.rs:272-314).
LEMMA QuietStep == TypeInv /\ ApplyInv /\ Quiet => ApplyInv'
<1> SUFFICES ASSUME TypeInv, ApplyInv, Quiet PROVE ApplyInv'
  OBVIOUS
<1>1. LocalsInv'
  BY DEF ApplyInv, LocalsInv, Quiet, Applying
<1>2. RouterInv'
  BY DEF ApplyInv, RouterInv, Quiet, HeldBy, Installed
<1>3. HealthInv'
  BY DEF ApplyInv, HealthInv, Quiet, Applying
<1>4. MatchInv'
  <2>1. \A s \in Slot : Serves(s)' <=> Serves(s)
    BY DEF Quiet, Serves, MembersOf
  <2>2. AtRest' => AtRest
    BY DEF Quiet, AtRest
  <2>3. \A t \in Task : MembersOf(fresh[t])' = MembersOf(fresh[t])
    BY DEF Quiet, MembersOf
  <2> QED BY <2>1, <2>2, <2>3 DEF ApplyInv, MatchInv, Quiet, Applying, Slot, TypeInv, TypeOK
<1>5. UniqueNames(config)'
  BY DEF ApplyInv, Quiet
<1> QED BY <1>1, <1>2, <1>3, <1>4, <1>5 DEF ApplyInv

\* The process ends: nothing runs, nothing is served, nothing is configured.
LEMMA ForgetStep == Forget => ApplyInv'
<1> SUFFICES ASSUME Forget PROVE ApplyInv'
  OBVIOUS
<1>1. LocalsInv'
  BY DEF Forget, LocalsInv
<1>2. RouterInv'
  BY RouterAssumption DEF Forget, RouterInv, HeldBy, Installed, Slot
<1>3. HealthInv'
  BY DEF Forget, HealthInv, Slot
<1>4. MatchInv'
  <2>1. \A s \in Slot : Serves(s)'
    BY DEF Forget, Serves, MembersOf, Enabled, ListOf, DefaultConfig, Slot
  <2> QED BY <2>1 DEF Forget, MatchInv, Applying, Slot
<1>5. UniqueNames(config)'
  BY DEF Forget, UniqueNames, DefaultConfig
<1> QED BY <1>1, <1>2, <1>3, <1>4, <1>5 DEF ApplyInv

\* update_router up to its await (backend.rs:210-224): the caller holds the
\* lock, has just written c, and begins with the slot s.
LEMMA UpdateRouterStep ==
  ASSUME TypeInv, Mutex, ApplyInv,
         NEW t \in Task, NEW c \in Config, NEW s \in Slot,
         Holds(t), pc[t] \in {"lock", "next"},
         UpdateRouter(t, c, s), config' = c, UniqueNames(c),
         UNCHANGED <<old, slot, torn, stray>>,
         s = "fallback" => c = config /\ Serves("main")
  PROVE  ApplyInv'
<1> USE DEF TypeInv, TypeOK
<1>1. \A u \in Task : fresh[u] = None /\ old[u] = None
  BY DEF Mutex, Holds, Applying, ApplyInv, LocalsInv
<1>2. \A u \in Task \ {t} : pc'[u] = pc[u] /\ pc'[u] \notin Applying
  BY DEF UpdateRouter, Goto, Mutex, Holds
<1>3. stage'[t] = s /\ pc'[t] \in {"wait", "swap"}
  BY DEF UpdateRouter, Goto
<1>4. UniqueNames(config)'
  OBVIOUS
<1>5. CASE Enabled(c, s) = {} /\ pc' = [pc EXCEPT ![t] = "swap"] /\ UNCHANGED <<fresh, health, running>>
  <2>1. LocalsInv'
    BY <1>1, <1>2, <1>5 DEF LocalsInv, Applying
  <2>2. RouterInv'
    BY <1>1, <1>5 DEF RouterInv, ApplyInv, HeldBy, Installed
  <2>3. HealthInv'
    BY <1>1, <1>5 DEF HealthInv, ApplyInv
  <2>4. MembersOf(fresh[t])' = Enabled(config', stage'[t])
    BY <1>1, <1>3, <1>5 DEF MembersOf
  <2>5. s = "fallback" => Serves("main")'
    BY <1>5 DEF Serves, MembersOf
  <2>6. MatchInv'
    BY <1>2, <1>3, <2>4, <2>5 DEF MatchInv, AtRest, Applying
  <2> QED BY <2>1, <2>2, <2>3, <2>6, <1>4 DEF ApplyInv
<1>6. CASE Enabled(c, s) # {} /\ pc' = [pc EXCEPT ![t] = "wait"]
  <2>1. PICK r \in Free :
          /\ fresh' = [fresh EXCEPT ![t] = r]
          /\ health' = [health EXCEPT ![r] = NewTargets(Enabled(c, s))]
          /\ running' = running \cup {r}
    BY <1>6 DEF UpdateRouter, Goto
  <2>2. r \in RouterId /\ r # None /\ r \notin running /\ r \notin Installed
    BY <2>1, RouterAssumption DEF Free, ApplyInv, RouterInv
  <2>3. Members(health'[r]) = Enabled(c, s)
    BY <2>1, <2>2, MembersNew, EnabledNames
  <2>4. \A x \in Slot : slot[x] # None => slot[x] \in RouterId /\ slot[x] # r
    BY <2>2 DEF Installed
  <2>5. LocalsInv'
    BY <1>1, <1>2, <1>6, <2>1, <2>2 DEF LocalsInv, Applying
  <2>6. RouterInv'
    <3>1. Installed' = Installed
      BY DEF Installed
    <3>2. \A u \in Task, q \in RouterId : HeldBy(u, q)' <=> u = t /\ q = r
      BY <1>1, <2>1, <2>2, RouterAssumption DEF HeldBy
    <3>3. \A q \in RouterId : q \in running <=> q \in Installed \cup stray
      BY <1>1, RouterAssumption DEF ApplyInv, RouterInv, HeldBy
    <3> QED BY <2>1, <2>2, <3>1, <3>2, <3>3 DEF ApplyInv, RouterInv
  <2>7. HealthInv'
    <3>1. \A q \in RouterId \ {r} : health'[q] = health[q]
      BY <2>1
    <3>2. \A q \in running' : Members(health'[q]) # {}
      BY <1>6, <2>1, <2>3, <3>1 DEF ApplyInv, HealthInv
    <3>3. \A u \in Task : ~(pc'[u] = "swap")
      BY <1>2, <1>6 DEF Applying
    <3> QED BY <2>1, <2>4, <3>1, <3>2, <3>3 DEF ApplyInv, HealthInv
  <2>8. MembersOf(fresh[t])' = Enabled(config', stage'[t])
    BY <1>3, <2>1, <2>2, <2>3 DEF MembersOf
  <2>9. s = "fallback" => Serves("main")'
    BY <2>1, <2>4 DEF Serves, MembersOf, Slot
  <2>10. MatchInv'
    BY <1>2, <1>3, <2>8, <2>9 DEF MatchInv, AtRest, Applying
  <2> QED BY <2>5, <2>6, <2>7, <2>10, <1>4 DEF ApplyInv
<1> QED BY <1>5, <1>6 DEF UpdateRouter, Goto

\* wait_healthchecks returns (backend.rs:179-191): from here on every target
\* of the new router is known.
LEMMA WaitHealthStep ==
  ASSUME TypeInv, Mutex, ApplyInv, NEW t \in Task, WaitHealth(t)
  PROVE  ApplyInv'
<1> USE DEF TypeInv, TypeOK
<1>1. /\ pc[t] = "wait" /\ pc' = [pc EXCEPT ![t] = "swap"]
      /\ AllKnown(health[fresh[t]])
      /\ UNCHANGED <<config, stage, fresh, old, health, running, slot, torn, stray>>
  BY DEF WaitHealth, Goto, lockVars, routerVars, ghostVars
<1>2. \A u \in Task \ {t} : pc[u] \notin Applying /\ pc'[u] = pc[u]
  BY <1>1, OneApplies DEF Applying
<1>3. LocalsInv'
  BY <1>1 DEF ApplyInv, LocalsInv
<1>4. RouterInv'
  BY <1>1 DEF ApplyInv, RouterInv, HeldBy, Installed
<1>5. HealthInv'
  BY <1>1, <1>2 DEF ApplyInv, HealthInv, Applying
<1>6. MatchInv'
  <2>1. \A s \in Slot : Serves(s)' <=> Serves(s)
    BY <1>1 DEF Serves, MembersOf
  <2>2. MembersOf(fresh[t])' = MembersOf(fresh[t])
    BY <1>1 DEF MembersOf
  <2> QED BY <1>1, <1>2, <2>1, <2>2 DEF ApplyInv, MatchInv, AtRest, Applying, Slot
<1> QED BY <1>1, <1>3, <1>4, <1>5, <1>6 DEF ApplyInv

\* load_full and store (backend.rs:227-230): the new router changes hands from
\* the task to the slot, the old one from the slot to the task.
LEMMA SwapStep ==
  ASSUME TypeInv, Mutex, ApplyInv, NEW t \in Task, Swap(t)
  PROVE  ApplyInv'
<1> USE DEF TypeInv, TypeOK
<1> DEFINE s == stage[t]
<1>1. /\ pc[t] = "swap" /\ s \in Slot
      /\ slot' = [slot EXCEPT ![s] = fresh[t]]
      /\ old' = [old EXCEPT ![t] = slot[s]]
      /\ fresh' = [fresh EXCEPT ![t] = None]
      /\ pc' = [pc EXCEPT ![t] = IF slot[s] = None THEN "next" ELSE "stop"]
      /\ UNCHANGED <<config, stage, health, running, torn, stray>>
  BY DEF Swap, Goto, lockVars, ghostVars
<1>2. \A u \in Task \ {t} : /\ pc[u] \notin Applying /\ pc'[u] = pc[u]
                            /\ fresh[u] = None /\ old[u] = None
  BY <1>1, OneApplies DEF Applying, ApplyInv, LocalsInv
<1>3. old[t] = None /\ (fresh[t] # None => fresh[t] \in RouterId /\ fresh[t] \notin Installed)
  BY <1>1 DEF ApplyInv, LocalsInv, RouterInv, HeldBy
<1>4. LocalsInv'
  BY <1>1, <1>2 DEF LocalsInv, Applying
<1>5. RouterInv'
  <2>1. PICK o \in Slot : o # s /\ Slot = {s, o}
    BY <1>1 DEF Slot
  <2>2. slot'[s] = fresh[t] /\ slot'[o] = slot[o]
    BY <1>1, <2>1
  <2>3. Installed = {slot[s], slot[o]} \ {None} /\ Installed' = {fresh[t], slot[o]} \ {None}
    BY <2>1, <2>2 DEF Installed
  <2>4. slot[s] # None => slot[s] # slot[o]
    BY <2>1 DEF ApplyInv, RouterInv, Slot
  <2>5. \A u \in Task, r \in RouterId :
           /\ HeldBy(u, r) <=> u = t /\ r = fresh[t]
           /\ HeldBy(u, r)' <=> u = t /\ r = slot[s]
    BY <1>1, <1>2, <1>3, RouterAssumption DEF HeldBy
  <2>6. \A r \in RouterId : r \in running' <=> r \in Installed' \cup stray' \/ \E u \in Task : HeldBy(u, r)'
    BY <1>1, <1>3, <2>3, <2>4, <2>5, RouterAssumption DEF ApplyInv, RouterInv
  <2>7. \A r \in RouterId, u \in Task : HeldBy(u, r)' => r \notin Installed'
    BY <1>3, <2>3, <2>4, <2>5, RouterAssumption
  <2>8. slot'["main"] # None => slot'["main"] # slot'["fallback"]
    BY <1>3, <2>1, <2>2, <2>3 DEF Slot
  <2>9. \A r \in stray' : r \notin Installed' /\ \A u \in Task : ~HeldBy(u, r)'
    BY <1>1, <2>3, <2>5, RouterAssumption DEF ApplyInv, RouterInv
  <2> QED BY <2>6, <2>7, <2>8, <2>9 DEF RouterInv
<1>6. HealthInv'
  <2>1. \A x \in Slot : slot'[x] # None => AllKnown(health'[slot'[x]])
    BY <1>1 DEF ApplyInv, HealthInv
  <2>2. \A u \in Task : pc'[u] # "swap"
    BY <1>1, <1>2 DEF Applying
  <2> QED BY <1>1, <2>1, <2>2 DEF ApplyInv, HealthInv
<1>7. MatchInv'
  <2>1. Serves(s)'
    BY <1>1 DEF ApplyInv, MatchInv, Serves, MembersOf
  <2>2. s = "fallback" => Serves("main")'
    BY <1>1 DEF ApplyInv, MatchInv, Serves, MembersOf, Applying, Slot
  <2>3. pc'[t] \in {"stop", "next"} /\ stage'[t] = s
    BY <1>1
  <2> QED BY <1>2, <2>1, <2>2, <2>3 DEF MatchInv, AtRest, Applying
<1> QED BY <1>1, <1>4, <1>5, <1>6, <1>7 DEF ApplyInv

\* Routers that nobody serves are dropped, whether stopped or abandoned.
LEMMA DropStep ==
  ASSUME TypeInv, ApplyInv, NEW gone \in SUBSET RouterId,
         gone \cap Installed = {},
         running' = running \ gone,
         health' = [r \in RouterId |-> IF r \in gone THEN NoTargets ELSE health[r]],
         slot' = slot, config' = config
  PROVE  /\ \A r \in running' : Members(health'[r]) # {}
         /\ \A r \in RouterId \ running' : health'[r] = NoTargets
         /\ \A s \in Slot : slot'[s] # None => AllKnown(health'[slot'[s]])
         /\ \A s \in Slot : Serves(s)' <=> Serves(s)
<1> USE DEF TypeInv, TypeOK
<1>1. \A s \in Slot : slot[s] # None => slot[s] \in RouterId /\ slot[s] \notin gone
  BY DEF Installed
<1>2. \A s \in Slot : slot'[s] # None => health'[slot'[s]] = health[slot[s]]
  BY <1>1
<1>3. \A s \in Slot : MembersOf(slot[s])' = MembersOf(slot[s])
  BY <1>2 DEF MembersOf
<1>4. \A s \in Slot : Serves(s)' <=> Serves(s)
  BY <1>3 DEF Serves
<1> QED BY <1>1, <1>2, <1>4 DEF ApplyInv, HealthInv

\* router_old.stop() returns (backend.rs:234): the router had no slot any more.
LEMMA StopOldStep ==
  ASSUME TypeInv, Mutex, ApplyInv, NEW t \in Task, StopOld(t)
  PROVE  ApplyInv'
<1> USE DEF TypeInv, TypeOK
<1>1. /\ pc[t] = "stop" /\ pc' = [pc EXCEPT ![t] = "next"]
      /\ running' = running \ {old[t]}
      /\ health' = [health EXCEPT ![old[t]] = NoTargets]
      /\ old' = [old EXCEPT ![t] = None]
      /\ UNCHANGED <<config, stage, fresh, slot, torn, stray>>
  BY DEF StopOld, Goto, lockVars, ghostVars
<1>2. \A u \in Task \ {t} : /\ pc[u] \notin Applying /\ pc'[u] = pc[u]
                            /\ fresh[u] = None /\ old[u] = None
  BY <1>1, OneApplies DEF Applying, ApplyInv, LocalsInv
<1>3. old[t] \in RouterId /\ old[t] \notin Installed /\ fresh[t] = None
  BY <1>1 DEF ApplyInv, LocalsInv, RouterInv, HeldBy
<1>4. /\ \A r \in running' : Members(health'[r]) # {}
      /\ \A r \in RouterId \ running' : health'[r] = NoTargets
      /\ \A s \in Slot : slot'[s] # None => AllKnown(health'[slot'[s]])
      /\ \A s \in Slot : Serves(s)' <=> Serves(s)
  <2>1. health' = [r \in RouterId |-> IF r \in {old[t]} THEN NoTargets ELSE health[r]]
    BY <1>1, <1>3
  <2>2. {old[t]} \in SUBSET RouterId /\ {old[t]} \cap Installed = {}
    BY <1>3
  <2> QED BY <1>1, <2>1, <2>2, DropStep
<1>5. LocalsInv'
  BY <1>1, <1>2, <1>3 DEF LocalsInv, Applying
<1>6. RouterInv'
  <2>1. Installed' = Installed
    BY <1>1 DEF Installed
  <2>2. \A u \in Task, r \in RouterId : /\ HeldBy(u, r) <=> u = t /\ r = old[t]
                                        /\ ~HeldBy(u, r)'
    BY <1>1, <1>2, <1>3, RouterAssumption DEF HeldBy
  <2> QED BY <1>1, <1>3, <2>1, <2>2 DEF ApplyInv, RouterInv
<1>7. HealthInv'
  BY <1>1, <1>2, <1>4 DEF HealthInv, Applying
<1>8. MatchInv'
  BY <1>1, <1>2, <1>4 DEF ApplyInv, MatchInv, AtRest, Applying, Slot
<1> QED BY <1>1, <1>5, <1>6, <1>7, <1>8 DEF ApplyInv

\* The guard is dropped at the end of apply, and both slots serve the
\* configuration (backend.rs:258-269).
LEMMA FinishStep ==
  ASSUME TypeInv, Mutex, ApplyInv, NEW t \in Task,
         pc[t] = "next", stage[t] = "fallback",
         \E l \in {"relock", "ok"} : pc' = [pc EXCEPT ![t] = l],
         UNCHANGED <<config, stage, fresh, old, health, running, slot, stray>>
  PROVE  ApplyInv'
<1> USE DEF TypeInv, TypeOK
<1>1. \A u \in Task : pc'[u] \notin Applying
  BY OneApplies DEF Applying
<1>2. \A u \in Task : fresh[u] = None /\ old[u] = None
  BY OneApplies DEF Applying, ApplyInv, LocalsInv
<1>3. Serves("main") /\ Serves("fallback")
  BY DEF ApplyInv, MatchInv, Applying
<1>4. Serves("main")' /\ Serves("fallback")'
  BY <1>3 DEF Serves, MembersOf
<1>5. LocalsInv'
  BY <1>1, <1>2 DEF LocalsInv, Applying
<1>6. RouterInv'
  BY DEF ApplyInv, RouterInv, HeldBy, Installed
<1>7. HealthInv'
  BY <1>2 DEF ApplyInv, HealthInv
<1>8. MatchInv'
  BY <1>1, <1>4 DEF MatchInv, Applying
<1> QED BY <1>5, <1>6, <1>7, <1>8 DEF ApplyInv

\* The client of a call goes away at any of its awaits.
LEMMA CancelStep ==
  ASSUME TypeInv, Mutex, ApplyInv, NEW t \in Task, Cancel(t)
  PROVE  ApplyInv'
<1> USE DEF TypeInv, TypeOK
<1> DEFINE gone == {fresh[t], old[t]} \ {None}
<1>1. /\ pc' = [pc EXCEPT ![t] = "idle"] /\ stage' = [stage EXCEPT ![t] = "main"]
      /\ fresh' = [fresh EXCEPT ![t] = None] /\ old' = [old EXCEPT ![t] = None]
      /\ torn' = (torn \/ pc[t] = "wait" \/ (pc[t] = "stop" /\ stage[t] = "main"))
      /\ UNCHANGED <<config, slot>>
  BY DEF Cancel, Goto
<1>11. \/ /\ running' = running \ gone /\ stray' = stray
          /\ health' = [r \in RouterId |-> IF r \in gone THEN NoTargets ELSE health[r]]
       \/ UNCHANGED <<running, health>> /\ stray' = stray \cup gone
  BY DEF Cancel
<1>2. gone \in SUBSET RouterId /\ gone \cap Installed = {}
  BY RouterAssumption DEF ApplyInv, RouterInv, HeldBy
<1>3. /\ \A r \in running' : Members(health'[r]) # {}
      /\ \A r \in RouterId \ running' : health'[r] = NoTargets
      /\ \A s \in Slot : slot'[s] # None => AllKnown(health'[slot'[s]])
      /\ \A s \in Slot : Serves(s)' <=> Serves(s)
  <2>1. CASE UNCHANGED <<running, health>>
    BY <1>1, <2>1 DEF ApplyInv, HealthInv, Serves, MembersOf
  <2>2. CASE /\ running' = running \ gone
             /\ health' = [r \in RouterId |-> IF r \in gone THEN NoTargets ELSE health[r]]
    <3> HIDE DEF gone
    <3> QED BY <1>1, <1>2, <2>2, DropStep
  <2> QED BY <1>11, <2>1, <2>2
<1>4. LocalsInv'
  BY <1>1 DEF ApplyInv, LocalsInv
<1>5. \A u, w \in Task, r \in RouterId : HeldBy(u, r) /\ HeldBy(w, r) => u = w
  <2>1. \A u \in Task, r \in RouterId : HeldBy(u, r) => pc[u] \in Applying
    BY RouterAssumption DEF HeldBy, ApplyInv, LocalsInv, Applying
  <2> QED BY <2>1, OneApplies
<1>6. RouterInv'
  <2>1. Installed' = Installed
    BY <1>1 DEF Installed
  <2>2. \A u \in Task, r \in RouterId : HeldBy(u, r)' <=> HeldBy(u, r) /\ u # t
    BY <1>1, RouterAssumption DEF HeldBy
  <2>3. \A r \in RouterId : r \in gone <=> HeldBy(t, r)
    BY RouterAssumption DEF HeldBy
  <2> HIDE DEF gone
  <2>4. \A r \in gone : r \notin stray
    BY <1>2, <2>3 DEF ApplyInv, RouterInv
  <2>5. \A r \in RouterId :
          r \in running' <=> r \in Installed' \cup stray' \/ \E u \in Task : HeldBy(u, r)'
    BY <1>2, <1>5, <1>11, <2>1, <2>2, <2>3, <2>4 DEF ApplyInv, RouterInv
  <2>6. \A r \in stray' : r \notin Installed' /\ \A u \in Task : ~HeldBy(u, r)'
    <3>1. \A r \in stray : r \notin Installed' /\ \A u \in Task : ~HeldBy(u, r)'
      BY <2>1, <2>2 DEF ApplyInv, RouterInv
    <3>2. \A r \in gone : r \notin Installed' /\ \A u \in Task : ~HeldBy(u, r)'
      BY <1>2, <1>5, <2>1, <2>2, <2>3
    <3> QED BY <1>11, <3>1, <3>2
  <2> QED BY <1>1, <2>1, <2>2, <2>5, <2>6 DEF ApplyInv, RouterInv
<1>7. \A u \in Task : /\ pc'[u] \in Applying => u # t /\ pc'[u] = pc[u]
                      /\ u # t => stage'[u] = stage[u] /\ fresh'[u] = fresh[u]
  BY <1>1 DEF Applying
<1>8. \A u \in Task : u # t /\ fresh[u] # None => health'[fresh'[u]] = health[fresh[u]]
  <2> SUFFICES ASSUME NEW u \in Task, u # t, fresh[u] # None
               PROVE  health'[fresh'[u]] = health[fresh[u]]
    OBVIOUS
  <2>1. fresh[u] \in RouterId /\ HeldBy(u, fresh[u])
    BY DEF HeldBy
  <2>2. fresh[u] \notin gone
    BY <1>5, <2>1 DEF HeldBy
  <2>3. fresh'[u] = fresh[u]
    BY <1>7
  <2> HIDE DEF gone
  <2> QED BY <1>11, <2>1, <2>2, <2>3
<1>9. HealthInv'
  <2>1. \A u \in Task : pc'[u] = "swap" /\ fresh'[u] # None => AllKnown(health'[fresh'[u]])
    BY <1>7, <1>8 DEF ApplyInv, HealthInv, Applying
  <2> QED BY <1>3, <2>1 DEF HealthInv
<1>10. MatchInv'
  <2>1. ASSUME AtRest', ~torn' PROVE Serves("main") /\ Serves("fallback")
    <3>1. CASE pc[t] \in Applying
      <4>1. pc[t] = "stop" /\ stage[t] = "fallback"
        BY <1>1, <2>1, <3>1 DEF Cancel, Applying, Slot
      <4> QED BY <4>1 DEF ApplyInv, MatchInv, Applying
    <3>2. CASE pc[t] \notin Applying
      BY <1>1, <2>1, <3>2 DEF AtRest, ApplyInv, MatchInv
    <3> QED BY <3>1, <3>2
  <2>2. \A u \in Task : u # t => MembersOf(fresh[u])' = MembersOf(fresh[u])
    BY <1>7, <1>8 DEF MembersOf
  <2> QED BY <1>1, <1>3, <1>7, <2>1, <2>2 DEF ApplyInv, MatchInv, Applying, Slot
<1> QED BY <1>1, <1>4, <1>6, <1>9, <1>10 DEF ApplyInv

\* BackendHealthChecker::check never answers Unknown (backend.rs:394-422).
LEMMA HealthReportStep ==
  ASSUME TypeInv, Mutex, ApplyInv,
         NEW r \in RouterId, NEW n \in Name, NEW v \in Verdict, HealthReport(r, n, v)
  PROVE  ApplyInv'
<1> USE DEF TypeInv, TypeOK
<1>1. /\ r \in running /\ n \in Members(health[r])
      /\ health' = [health EXCEPT ![r][n] = v]
      /\ UNCHANGED <<config, pc, stage, fresh, old, running, slot, torn, stray>>
  BY DEF HealthReport, lockVars, taskVars, ghostVars
<1>2. health'[r] = [health[r] EXCEPT ![n] = v] /\ \A q \in RouterId \ {r} : health'[q] = health[q]
  BY <1>1
<1>3. \A q \in RouterId : Members(health'[q]) = Members(health[q])
  <2>1. health[r] \in HealthRecord
    OBVIOUS
  <2> HIDE DEF TypeInv, TypeOK
  <2>2. Members([health[r] EXCEPT ![n] = v]) = Members(health[r])
    BY <1>1, <2>1, MembersReport
  <2> QED BY <1>2, <2>2
<1>4. \A q \in RouterId : AllKnown(health[q]) => AllKnown(health'[q])
  BY <1>1, <1>2, <1>3 DEF AllKnown, Members, Verdict, HealthRecord
<1>5. LocalsInv'
  BY <1>1 DEF ApplyInv, LocalsInv
<1>6. RouterInv'
  BY <1>1 DEF ApplyInv, RouterInv, HeldBy, Installed
<1>7. HealthInv'
  <2>1. running' = running /\ slot' = slot /\ pc' = pc /\ fresh' = fresh
    BY <1>1
  <2>2. HealthInv
    BY DEF ApplyInv
  <2>3. \A q \in running' : Members(health'[q]) # {}
    BY <1>3, <2>1, <2>2 DEF HealthInv
  <2>4. \A q \in RouterId \ running' : health'[q] = NoTargets
    BY <1>1, <1>2, <2>1, <2>2 DEF HealthInv
  <2>5. \A s \in Slot : slot'[s] # None => AllKnown(health'[slot'[s]])
    <3>1. \A s \in Slot : slot[s] # None => slot[s] \in RouterId
      OBVIOUS
    <3> QED BY <1>4, <2>1, <2>2, <3>1 DEF HealthInv
  <2>6. \A t \in Task : pc'[t] = "swap" /\ fresh'[t] # None => AllKnown(health'[fresh'[t]])
    <3>1. \A t \in Task : fresh[t] # None => fresh[t] \in RouterId
      OBVIOUS
    <3> QED BY <1>4, <2>1, <2>2, <3>1 DEF HealthInv
  <2> HIDE DEF TypeInv, TypeOK
  <2> QED BY <2>3, <2>4, <2>5, <2>6 DEF HealthInv
<1>8. MatchInv'
  <2>1. \A x \in RouterId \cup {None} : MembersOf(x)' = MembersOf(x)
    BY <1>3 DEF MembersOf
  <2>2. \A s \in Slot : Serves(s)' <=> Serves(s)
    BY <1>1, <2>1 DEF Serves
  <2> QED BY <1>1, <2>1, <2>2 DEF ApplyInv, MatchInv, AtRest, Slot
<1> QED BY <1>1, <1>5, <1>6, <1>7, <1>8 DEF ApplyInv

\* Indexing the two lists taken together, as the chain of set_config does
\* (backend.rs:290-295).
LEMMA ListLemma ==
  ASSUME NEW c \in Config
  PROVE  /\ \A i \in DOMAIN (c.backends \o c.fallback) :
              (c.backends \o c.fallback)[i] =
                IF i <= Len(c.backends) THEN c.backends[i]
                                        ELSE c.fallback[i - Len(c.backends)]
         /\ DOMAIN (c.backends \o c.fallback) = 1 .. Len(c.backends) + Len(c.fallback)
         /\ DOMAIN c.backends = 1 .. Len(c.backends) /\ Len(c.backends) \in Nat
         /\ DOMAIN c.fallback = 1 .. Len(c.fallback) /\ Len(c.fallback) \in Nat
<1>1. c.backends \in Seq(BackendConf) /\ c.fallback \in Seq(BackendConf)
  BY ConfigLists
<1> DEFINE bs == c.backends
           fs == c.fallback
<1> HIDE DEF bs, fs
<1>2. bs \in Seq(BackendConf) /\ fs \in Seq(BackendConf)
  BY <1>1 DEF bs, fs
<1>3. /\ bs \o fs \in Seq(BackendConf)
      /\ Len(bs \o fs) = Len(bs) + Len(fs)
      /\ \A i \in 1 .. Len(bs) + Len(fs) :
           (bs \o fs)[i] = IF i <= Len(bs) THEN bs[i] ELSE fs[i - Len(bs)]
  BY <1>2, ConcatProperties
<1>4. /\ DOMAIN (bs \o fs) = 1 .. Len(bs) + Len(fs)
      /\ DOMAIN bs = 1 .. Len(bs) /\ Len(bs) \in Nat
      /\ DOMAIN fs = 1 .. Len(fs) /\ Len(fs) \in Nat
  BY <1>2, <1>3, LenProperties
<1> QED BY <1>3, <1>4 DEF bs, fs

\* Toggling a backend changes no name (backend.rs:340): what set_config has
\* tested once stays true.
LEMMA SetEnabledUnique ==
  ASSUME NEW c \in Config, NEW n \in Name, NEW e \in BOOLEAN, UniqueNames(c)
  PROVE  UniqueNames(SetEnabled(c, n, e))
<1> DEFINE d == SetEnabled(c, n, e)
<1>1. d \in Config
  BY SetEnabledType
<1>2. d.fallback = c.fallback /\ DOMAIN d.backends = DOMAIN c.backends
  BY DEF SetEnabled
<1>3. \A i \in DOMAIN c.backends : d.backends[i].name = c.backends[i].name
  <2>1. \A i \in DOMAIN c.backends : c.backends[i] \in BackendConf
    BY ConfigLists
  <2> QED BY <2>1 DEF SetEnabled, BackendConf
<1> HIDE DEF d
<1>4. Len(d.backends) = Len(c.backends)
  BY <1>1, <1>2, ListLemma
<1>5. \A i \in DOMAIN (c.backends \o c.fallback) :
        /\ i \in DOMAIN (d.backends \o d.fallback)
        /\ (d.backends \o d.fallback)[i].name = (c.backends \o c.fallback)[i].name
  <2>1. /\ DOMAIN c.backends = 1 .. Len(c.backends) /\ Len(c.backends) \in Nat
        /\ DOMAIN (c.backends \o c.fallback) = 1 .. Len(c.backends) + Len(c.fallback)
        /\ Len(c.fallback) \in Nat
    BY ListLemma
  <2>2. \A i \in 1 .. Len(c.backends) + Len(c.fallback) :
          (c.backends \o c.fallback)[i] =
            IF i <= Len(c.backends) THEN c.backends[i] ELSE c.fallback[i - Len(c.backends)]
    BY <2>1, ListLemma
  <2>3. DOMAIN (d.backends \o d.fallback) = 1 .. Len(c.backends) + Len(c.fallback)
    BY <1>1, <1>2, <1>4, ListLemma
  <2>4. \A i \in 1 .. Len(c.backends) + Len(c.fallback) :
          (d.backends \o d.fallback)[i] =
            IF i <= Len(c.backends) THEN d.backends[i] ELSE c.fallback[i - Len(c.backends)]
    BY <1>1, <1>2, <1>4, <2>3, ListLemma
  <2> DEFINE dl == d.backends \o d.fallback
             cl == c.backends \o c.fallback
             m == Len(c.backends)
  <2> SUFFICES ASSUME NEW i \in 1 .. m + Len(c.fallback)
               PROVE  dl[i].name = cl[i].name
    BY <2>1, <2>3
  <2> HIDE DEF dl, cl
  <2>5. CASE i <= m
    <3>1. dl[i] = d.backends[i] /\ cl[i] = c.backends[i]
      BY <2>2, <2>4, <2>5 DEF dl, cl
    <3>2. i \in DOMAIN c.backends
      BY <2>1, <2>5
    <3> QED BY <1>3, <3>1, <3>2
  <2>6. CASE ~(i <= m)
    <3>1. dl[i] = c.fallback[i - m] /\ cl[i] = c.fallback[i - m]
      BY <2>2, <2>4, <2>6 DEF dl, cl
    <3> QED BY <3>1
  <2> QED BY <2>5, <2>6
<1>6. DOMAIN (d.backends \o d.fallback) = DOMAIN (c.backends \o c.fallback)
  BY <1>1, <1>2, <1>4, ListLemma
<1>7. UniqueNames(d)
  BY <1>5, <1>6 DEF UniqueNames
<1> QED BY <1>7 DEF d

\* No backend is enabled in both lists of an accepted configuration.
LEMMA UniqueDisjoint ==
  ASSUME NEW c \in Config, UniqueNames(c)
  PROVE  Enabled(c, "main") \cap Enabled(c, "fallback") = {}
<1> SUFFICES ASSUME NEW n \in Enabled(c, "main"), n \in Enabled(c, "fallback")
             PROVE  FALSE
  OBVIOUS
<1>1. PICK i \in DOMAIN c.backends : c.backends[i].name = n
  BY DEF Enabled, ListOf
<1>2. PICK j \in DOMAIN c.fallback : c.fallback[j].name = n
  BY DEF Enabled, ListOf
<1> DEFINE all == c.backends \o c.fallback
           k == j + Len(c.backends)
<1>3. /\ i \in DOMAIN all /\ k \in DOMAIN all /\ i # k
      /\ all[i] = c.backends[i] /\ all[k] = c.fallback[j]
  <2>1. /\ DOMAIN c.backends = 1 .. Len(c.backends) /\ Len(c.backends) \in Nat
        /\ DOMAIN c.fallback = 1 .. Len(c.fallback) /\ Len(c.fallback) \in Nat
        /\ DOMAIN all = 1 .. Len(c.backends) + Len(c.fallback)
    BY ListLemma
  <2>2. /\ i \in DOMAIN all /\ i <= Len(c.backends)
        /\ k \in DOMAIN all /\ ~(k <= Len(c.backends)) /\ k - Len(c.backends) = j
    <3> DEFINE m == Len(c.backends)
               f == Len(c.fallback)
    <3>1. i \in 1 .. m /\ j \in 1 .. f /\ m \in Nat /\ f \in Nat /\ k = j + m
      BY <1>1, <1>2, <2>1
    <3>2. DOMAIN all = 1 .. m + f
      BY <2>1
    <3> HIDE DEF all, m, f, k
    <3>3. i \in 1 .. m + f /\ i <= m /\ k \in 1 .. m + f /\ ~(k <= m) /\ k - m = j
      BY <3>1
    <3> QED BY <3>2, <3>3 DEF m
  <2>3. \A x \in DOMAIN all : all[x] = IF x <= Len(c.backends) THEN c.backends[x]
                                                           ELSE c.fallback[x - Len(c.backends)]
    BY ListLemma
  <2> HIDE DEF all
  <2>4. all[i] = c.backends[i]
    BY <2>2, <2>3
  <2>5. all[k] = c.fallback[j]
    <3> HIDE DEF k
    <3> QED BY <2>2, <2>3
  <2> QED BY <2>2, <2>4, <2>5
<1> QED BY <1>1, <1>2, <1>3 DEF UniqueNames

\* Every step keeps the ownership, the health and the match of the routers
\* (backend.rs:210-357).
LEMMA ApplyStep == TypeInv /\ Mutex /\ ProcInv /\ ApplyInv /\ [Next]_vars => ApplyInv'
<1> SUFFICES ASSUME TypeInv, Mutex, ProcInv, ApplyInv, [Next]_vars PROVE ApplyInv'
  OBVIOUS
<1> USE DEF lockVars, taskVars, routerVars, procVars, ghostVars
<1>1. CASE Start \/ HupRecv
  \* The load at boot and a reload begin outside apply.
  <2>1. pc[Daemon] = "idle"
    BY <1>1 DEF Start, HupRecv, ProcInv, Task
  <2>2. Quiet
    BY <1>1, <2>1 DEF Start, HupRecv, Goto, Quiet, Applying, TypeInv, TypeOK
  <2> QED BY <2>2, QuietStep
<1>2. CASE Sighup
  <2>1. CASE Forget
    BY <2>1, ForgetStep
  <2>2. CASE UNCHANGED <<lockVars, taskVars, routerVars, disk, proc, ghostVars>>
    <3>1. Quiet
      BY <2>2 DEF Quiet
    <3> QED BY <3>1, QuietStep
  <2> QED BY <1>2, <2>1, <2>2 DEF Sighup
<1>3. CASE Crash
  BY <1>3, ForgetStep DEF Crash
<1>4. CASE EditFile \/ UNCHANGED vars
  <2>1. Quiet
    BY <1>4 DEF EditFile, vars, Quiet
  <2> QED BY <2>1, QuietStep
<1>5. ASSUME NEW t \in Task, Arrive(t) PROVE ApplyInv'
  <2>1. Quiet
    BY <1>5 DEF Arrive, ConfigPut, ConfigReload, BackendState, ConfigGet, Idle,
                SubmitConfig, Goto, Quiet, Applying, TypeInv, TypeOK
  <2> QED BY <2>1, QuietStep
<1>6. ASSUME NEW t \in Task, ReadFile(t) \/ GetConfig(t) \/ PersistConfig(t) PROVE ApplyInv'
  <2>1. Quiet
    BY <1>6 DEF ReadFile, GetConfig, PersistConfig,
                SubmitConfig, Goto, Quiet, Applying, TypeInv, TypeOK
  <2> QED BY <2>1, QuietStep
<1>7. ASSUME NEW t \in Task, Truncate(t) \/ Write(t) \/ Respond(t) PROVE ApplyInv'
  <2>1. Quiet
    BY <1>7 DEF Truncate, Write, Respond, Goto, Quiet, Applying, TypeInv, TypeOK
  <2> QED BY <2>1, QuietStep
<1>8. ASSUME NEW t \in Task, SetConfig(t) PROVE ApplyInv'
  <2>1. cfg[t] \in Config /\ UniqueNames(cfg[t])
    BY <1>8 DEF SetConfig, TypeInv, PayloadOK
  <2>2. /\ Holds(t) /\ pc[t] \in {"lock", "next"} /\ "main" \in Slot
        /\ UpdateRouter(t, cfg[t], "main") /\ config' = cfg[t]
        /\ UNCHANGED <<old, slot, torn, stray>>
    BY <1>8 DEF SetConfig, Slot
  <2> QED BY <2>1, <2>2, UpdateRouterStep
<1>9. ASSUME NEW t \in Task, SetState(t) PROVE ApplyInv'
  <2> DEFINE c == SetEnabled(config, op[t].name, op[t].enabled)
  <2>1. CASE Known(config, op[t].name)
    <3>1. PICK i \in DOMAIN config.backends : config.backends[i].name = op[t].name
      BY <2>1 DEF Known
    <3>2. config \in Config /\ op[t].name \in Name /\ op[t].enabled \in BOOLEAN
      <4>1. config.backends[i] \in BackendConf
        BY <3>1, ConfigLists DEF TypeInv, TypeOK
      <4> QED BY <3>1, <4>1 DEF TypeInv, TypeOK, Op, BackendConf
    <3>3. c \in Config /\ UniqueNames(c)
      BY <3>2, SetEnabledType, SetEnabledUnique DEF ApplyInv
    <3>4. /\ Holds(t) /\ pc[t] \in {"lock", "next"} /\ "main" \in Slot
          /\ UpdateRouter(t, c, "main") /\ config' = c
          /\ UNCHANGED <<old, slot, torn, stray>>
      BY <1>9, <2>1 DEF SetState, Slot
    <3> HIDE DEF c
    <3> QED BY <3>3, <3>4, UpdateRouterStep
  <2>2. CASE ~Known(config, op[t].name)
    <3>1. Quiet
      BY <1>9, <2>2 DEF SetState, Goto, Quiet, Applying, TypeInv, TypeOK
    <3> QED BY <3>1, QuietStep
  <2> QED BY <2>1, <2>2
<1>10. ASSUME NEW t \in Task, WaitHealth(t) \/ Swap(t) \/ StopOld(t) PROVE ApplyInv'
  BY <1>10, WaitHealthStep, SwapStep, StopOldStep
<1>11. ASSUME NEW t \in Task, NextRouter(t) PROVE ApplyInv'
  <2>1. pc[t] = "next" /\ Holds(t)
    BY <1>11 DEF NextRouter, Mutex, Applying
  <2>2. CASE stage[t] = "main"
    <3>1. /\ UpdateRouter(t, config, "fallback") /\ config' = config
          /\ UNCHANGED <<old, slot, torn, stray>>
      BY <1>11, <2>2 DEF NextRouter
    <3>2. config \in Config /\ UniqueNames(config) /\ "fallback" \in Slot /\ Serves("main")
      BY <2>1, <2>2 DEF TypeInv, TypeOK, ApplyInv, MatchInv, Slot
    <3> QED BY <2>1, <3>1, <3>2, UpdateRouterStep
  <2>3. CASE stage[t] = "fallback"
    BY <1>11, <2>1, <2>3, FinishStep DEF NextRouter, Goto
  <2> QED BY <1>11, <2>2, <2>3 DEF NextRouter
<1>12. ASSUME NEW t \in Task, Cancel(t) PROVE ApplyInv'
  BY <1>12, CancelStep
<1>13. ASSUME NEW r \in RouterId, NEW n \in Name, NEW v \in Verdict, HealthReport(r, n, v)
       PROVE  ApplyInv'
  BY <1>13, HealthReportStep
<1> QED
  BY <1>1, <1>2, <1>3, <1>4, <1>5, <1>6, <1>7, <1>8, <1>9, <1>10, <1>11, <1>12, <1>13
  DEF Next, Step

\* The invariant of the manager holds in every reachable state.
THEOREM Invariance == Spec => []IInv
<1>1. Init => IInv
  <2>1. Init => ApplyInv
    <3> SUFFICES ASSUME Init PROVE ApplyInv
      OBVIOUS
    <3>1. LocalsInv /\ HealthInv
      BY DEF Init, LocalsInv, HealthInv, Slot
    <3>2. RouterInv
      BY RouterAssumption DEF Init, RouterInv, HeldBy, Installed, Slot
    <3>3. \A s \in Slot : Serves(s)
      BY DEF Init, Serves, MembersOf, Enabled, ListOf, DefaultConfig, Slot
    <3>4. MatchInv
      BY <3>3 DEF Init, MatchInv, Applying, Slot
    <3>5. UniqueNames(config)
      BY DEF Init, UniqueNames, DefaultConfig
    <3> QED BY <3>1, <3>2, <3>4, <3>5 DEF ApplyInv
  <2>2. Init => Mutex /\ ProcInv
    BY DEF Init, Mutex, ProcInv, Applying, Task
  <2> QED BY <2>1, <2>2, TypeInit DEF IInv
<1>2. IInv /\ [Next]_vars => IInv'
  BY TypeStep, MutexStep, ProcStep, ApplyStep DEF IInv
<1> QED BY <1>1, <1>2, PTL DEF Spec

\* Whenever nobody is inside apply, and the last apply was not abandoned,
\* the slots serve the enabled backends of the configuration that get_config
\* returns (backend.rs:240-310).
THEOREM ServesTheConfig == Spec => []ServedMatchesConfig
<1>1. IInv => ServedMatchesConfig
  BY DEF IInv, ApplyInv, MatchInv, Serves, ServedMatchesConfig, Slot
<1> QED BY <1>1, Invariance, PTL

\* No backend is in both routers at once (the test at backend.rs:290 spans
\* both lists).
THEOREM NeverServedTwice == Spec => []ServedOnce
<1>1. IInv => ServedOnce
  <2> SUFFICES ASSUME IInv, AtRest, ~torn
               PROVE  MembersOf(slot["main"]) \cap MembersOf(slot["fallback"]) = {}
    BY DEF ServedOnce
  <2>1. /\ MembersOf(slot["main"]) = Enabled(config, "main")
        /\ MembersOf(slot["fallback"]) = Enabled(config, "fallback")
    BY DEF IInv, ApplyInv, MatchInv, Serves
  <2>2. config \in Config /\ UniqueNames(config)
    BY DEF IInv, ApplyInv, TypeInv, TypeOK
  <2> QED BY <2>1, <2>2, UniqueDisjoint
<1> QED BY <1>1, Invariance, PTL

\* No router keeps running its health checks unowned, and none that is being
\* built or stopped is in a slot (backend.rs:210-237).
THEOREM NoRouterLeaks == Spec => []OwnedRouters
<1>1. IInv => OwnedRouters
  <2> SUFFICES ASSUME IInv PROVE OwnedRouters
    OBVIOUS
  <2>1. /\ running \subseteq RouterId
        /\ \A t \in Task : {fresh[t], old[t]} \subseteq RouterId \cup {None}
        /\ Installed \subseteq RouterId
    BY DEF IInv, TypeInv, TypeOK, Installed
  <2> DEFINE hands == (UNION {{fresh[t], old[t]} : t \in Task}) \ {None}
  <2>2. \A r \in hands : r \in RouterId
    BY <2>1
  <2>3. \A r \in RouterId : r \in hands <=> \E t \in Task : HeldBy(t, r)
    BY RouterAssumption DEF HeldBy
  <2> HIDE DEF hands
  <2>4. \A r \in RouterId :
          r \in running <=> r \in Installed \cup stray \/ \E t \in Task : HeldBy(t, r)
    BY DEF IInv, ApplyInv, RouterInv
  <2>5. running = Installed \cup hands \cup stray
    BY <2>1, <2>2, <2>3, <2>4 DEF IInv, TypeInv, TypeOK
  <2>6. Installed \cap hands = {}
    BY <2>1, <2>3 DEF IInv, ApplyInv, RouterInv
  <2>7. stray \cap (Installed \cup hands) = {}
    BY <2>2, <2>3 DEF IInv, ApplyInv, RouterInv
  <2> QED BY <2>5, <2>6, <2>7 DEF OwnedRouters, hands
<1> QED BY <1>1, Invariance, PTL
-----------------------------------------------------------------------------
(* What a step may do to the slots.                                        *)

\* Only the store of update_router (backend.rs:230), and the end of the
\* process, change what a slot holds.
LEMMA SlotChanges ==
  ASSUME [Next]_vars, slot' # slot
  PROVE  (Forget /\ proc' = "down") \/ \E t \in Task : Swap(t)
<1> USE DEF lockVars, taskVars, routerVars, procVars, ghostVars
<1>1. CASE Start \/ Sighup \/ HupRecv \/ Crash \/ EditFile \/ UNCHANGED vars
  BY <1>1 DEF Start, Sighup, HupRecv, Crash, Forget, EditFile, vars
<1>2. ASSUME NEW t \in Task, Arrive(t) PROVE slot' = slot
  BY <1>2 DEF Arrive, ConfigPut, ConfigReload, BackendState, ConfigGet
<1>3. ASSUME NEW t \in Task, Step(t), ~Swap(t) PROVE slot' = slot
  BY <1>3 DEF Step, ReadFile, SetConfig, SetState, GetConfig, WaitHealth, StopOld,
              NextRouter, PersistConfig, Truncate, Write, Respond
<1>4. ASSUME NEW t \in Task, Cancel(t) PROVE slot' = slot
  BY <1>4 DEF Cancel
<1>5. ASSUME NEW r \in RouterId, NEW n \in Name, NEW v \in Verdict, HealthReport(r, n, v)
      PROVE  slot' = slot
  BY <1>5 DEF HealthReport
<1> QED BY <1>1, <1>2, <1>3, <1>4, <1>5 DEF Next

\* Whenever a slot changes hands it serves, from that step on, what the
\* configuration under the lock says (backend.rs:257-266).
THEOREM SwapsFollowConfig == Spec => SwapMatchesConfig
<1> DEFINE A == \A s \in Slot : slot'[s] # slot[s] /\ proc' # "down" =>
                   MembersOf(slot[s])' = Enabled(config', s)
<1>1. IInv /\ IInv' /\ [Next]_vars => [A]_vars
  <2> SUFFICES ASSUME IInv, IInv', [Next]_vars,
                      NEW s \in Slot, slot'[s] # slot[s], proc' # "down"
               PROVE  MembersOf(slot[s])' = Enabled(config', s)
    OBVIOUS
  <2>1. PICK t \in Task : Swap(t)
    BY SlotChanges
  <2>2. s = stage[t]
    BY <2>1 DEF Swap, IInv, TypeInv, TypeOK
  <2>3. stage'[t] = s /\ pc'[t] \in {"stop", "next"}
    BY <2>1, <2>2 DEF Swap, Goto, IInv, TypeInv, TypeOK
  <2>4. Serves(s)'
    BY <2>3 DEF IInv, ApplyInv, MatchInv
  <2> QED BY <2>4 DEF Serves
<1>2. Spec => [][A]_vars
  BY <1>1, Invariance, PTL DEF Spec
<1> QED BY <1>2 DEF SwapMatchesConfig

\* The fallback router is replaced only when the main slot already serves
\* the configuration (backend.rs:258-266).
THEOREM MainBeforeFallback == Spec => FallbackSwapsAfterMain
<1> DEFINE A == slot'["fallback"] # slot["fallback"] /\ proc' # "down" =>
                   MembersOf(slot["main"]) = Enabled(config, "main")
<1>1. IInv /\ [Next]_vars => [A]_vars
  <2> SUFFICES ASSUME IInv, [Next]_vars, slot'["fallback"] # slot["fallback"], proc' # "down"
               PROVE  MembersOf(slot["main"]) = Enabled(config, "main")
    OBVIOUS
  <2>1. PICK t \in Task : Swap(t)
    BY SlotChanges
  <2>2. stage[t] = "fallback" /\ pc[t] \in Applying
    BY <2>1 DEF Swap, Applying, Slot, IInv, TypeInv, TypeOK
  <2> QED BY <2>2 DEF IInv, ApplyInv, MatchInv, Serves
<1>2. Spec => [][A]_vars
  BY <1>1, Invariance, PTL DEF Spec
<1> QED BY <1>2 DEF FallbackSwapsAfterMain
-----------------------------------------------------------------------------
(* What an accepted put leaves on disk, when one client at a time uses the *)
(* API and nobody else touches the file.  With two, finding 1 is the       *)
(* counterexample.                                                         *)

OneClient == (\E c \in Call : Call = {c}) /\ {"sighup", "edit"} \cap Faults = {}

\* The loop of signals has nothing to do once the process is up; from the clone
\* of persist_config on the configuration stays, and the file is what fs::write
\* of this one call has made of it (backend.rs:312-320).
DiskInv ==
  /\ ~hup
  /\ proc = "up" => pc[Daemon] = "idle"
  /\ pc[Daemon] # "idle" => op[Daemon].kind = "reload"
  /\ pc[Daemon] \notin {"relock", "trunc", "write"}
  /\ \A t \in Call :
       /\ pc[t] \in {"trunc", "write"} => cfg[t] = config
       /\ pc[t] = "write" => disk = Empty
       /\ pc[t] = "ok" /\ op[t].kind = "put" => disk = config

\* What the steps of a call have to do with it.
LEMMA DiskCallStep ==
  ASSUME OneClient, TypeInv, ProcInv, DiskInv,
         NEW t \in Call, Arrive(t) \/ Step(t) \/ Cancel(t)
  PROVE  DiskInv'
<1> USE DEF TypeInv, TypeOK, Task, Goto, lockVars, taskVars, routerVars, procVars,
            ghostVars
<1>1. Call = {t} /\ t # Daemon
  BY TaskAssumption DEF OneClient
<1>2. CASE Arrive(t)
  <2>1. /\ pc' = [pc EXCEPT ![t] = pc'[t]] /\ pc'[t] \in {"read", "lock", "rejected"}
        /\ op'[Daemon] = op[Daemon] /\ UNCHANGED <<hup, proc>>
    BY <1>1, <1>2 DEF Arrive, ConfigPut, ConfigReload, BackendState, ConfigGet, SubmitConfig
  <2> QED BY <1>1, <2>1 DEF DiskInv
<1>3. CASE ReadFile(t) \/ SetConfig(t) \/ SetState(t) \/ GetConfig(t) \/ WaitHealth(t)
           \/ Swap(t) \/ StopOld(t)
  <2>1. /\ pc' = [pc EXCEPT ![t] = pc'[t]]
        /\ pc'[t] \in {"lock", "rejected", "wait", "swap", "stop", "next", "ok"}
        /\ pc'[t] = "ok" => op[t].kind = "get"
        /\ op' = op /\ UNCHANGED <<hup, proc>>
    BY <1>3 DEF ReadFile, SubmitConfig, SetConfig, SetState, UpdateRouter, GetConfig,
                WaitHealth, Swap, StopOld
  <2> QED BY <1>1, <2>1 DEF DiskInv
<1>4. CASE NextRouter(t) \/ PersistConfig(t)
  <2>1. /\ pc' = [pc EXCEPT ![t] = pc'[t]]
        /\ pc'[t] \in {"wait", "swap", "relock", "trunc", "ok"}
        /\ pc'[t] = "ok" => op[t].kind # "put"
        /\ pc'[t] = "trunc" => cfg'[t] = config
        /\ op' = op /\ config' = config /\ UNCHANGED <<hup, proc>>
    BY <1>4 DEF NextRouter, UpdateRouter, PersistConfig
  <2> QED BY <1>1, <2>1 DEF DiskInv
<1>5. CASE Truncate(t) \/ Write(t)
  <2>1. /\ pc' = [pc EXCEPT ![t] = pc'[t]]
        /\ pc'[t] \in {"write", "ok", "unpersisted"}
        /\ pc'[t] = "write" => disk' = Empty
        /\ pc'[t] = "ok" => disk' = config
        /\ cfg[t] = config /\ cfg' = cfg
        /\ op' = op /\ config' = config /\ UNCHANGED <<hup, proc>>
    BY <1>1, <1>5 DEF Truncate, Write, DiskInv
  <2> QED BY <1>1, <2>1 DEF DiskInv
<1>6. CASE Respond(t) \/ Cancel(t)
  <2>1. /\ pc[t] # "idle" /\ pc' = [pc EXCEPT ![t] = "idle"]
        /\ op'[Daemon] = op[Daemon] /\ hup' = hup
        /\ proc' = IF proc = "booting" THEN proc' ELSE proc
    BY <1>1, <1>6 DEF Respond, Cancel
  <2>2. proc' = proc
    BY <2>1 DEF ProcInv
  <2> QED BY <1>1, <2>1, <2>2 DEF DiskInv
<1> QED BY <1>2, <1>3, <1>4, <1>5, <1>6 DEF Step

\* The load at boot, which ends before there is any call.
LEMMA DiskLoadStep ==
  ASSUME OneClient, TypeInv, ProcInv, DiskInv, Arrive(Daemon) \/ Step(Daemon) \/ Cancel(Daemon)
  PROVE  DiskInv'
<1> USE DEF TypeInv, TypeOK, Task, Goto, lockVars, taskVars, routerVars, procVars,
            ghostVars
<1>1. ~(Arrive(Daemon) \/ Cancel(Daemon))
  BY TaskAssumption
  DEF Arrive, ConfigPut, ConfigReload, BackendState, ConfigGet, Idle, Cancel
<1>2. pc[Daemon] # "idle"
  BY <1>1 DEF Step, ReadFile, SetConfig, SetState, GetConfig, WaitHealth, Swap, StopOld,
              NextRouter, PersistConfig, Truncate, Write, Respond
<1>3. proc = "booting" /\ \A t \in Call : pc[t] = "idle"
  BY <1>2 DEF DiskInv, ProcInv
<1>4. CASE Respond(Daemon)
  BY <1>3, <1>4, TaskAssumption DEF Respond, DiskInv
<1>5. CASE ~Respond(Daemon)
  <2>1. /\ pc' = [pc EXCEPT ![Daemon] = pc'[Daemon]]
        /\ pc'[Daemon] \notin {"idle", "relock", "trunc", "write"}
        /\ op' = op /\ UNCHANGED <<hup, proc>>
    BY <1>1, <1>5 DEF Step, ReadFile, SubmitConfig, SetConfig, SetState, UpdateRouter,
       GetConfig, WaitHealth, Swap, StopOld, NextRouter, PersistConfig, Truncate, Write,
       DiskInv
  <2>2. \A t \in Call : pc'[t] = "idle"
    BY <1>3, <2>1, TaskAssumption
  <2>3. op'[Daemon].kind = "reload" /\ pc'[Daemon] \notin {"relock", "trunc", "write"}
    BY <1>2, <2>1 DEF DiskInv
  <2>4. ~hup' /\ proc' = "booting"
    BY <1>3, <2>1 DEF DiskInv
  <2> QED BY <2>2, <2>3, <2>4 DEF DiskInv
<1> QED BY <1>4, <1>5

LEMMA DiskStep ==
  ASSUME OneClient, TypeInv, ProcInv, DiskInv, [Next]_vars
  PROVE  DiskInv'
<1> USE DEF TypeInv, TypeOK, Task, Goto, lockVars, taskVars, routerVars, procVars,
            ghostVars
<1>1. CASE Start
  BY <1>1, OpTypes, TaskAssumption DEF Start, ProcInv, DiskInv
<1>2. CASE Forget
  BY <1>2 DEF Forget, DiskInv
<1>3. CASE Sighup \/ HupRecv \/ Crash \/ EditFile
  BY <1>2, <1>3 DEF Sighup, HupRecv, Crash, EditFile, OneClient, DiskInv
<1>4. CASE UNCHANGED vars
  BY <1>4 DEF vars, DiskInv
<1>5. ASSUME NEW r \in RouterId, NEW n \in Name, NEW v \in Verdict, HealthReport(r, n, v)
      PROVE  DiskInv'
  BY <1>5 DEF HealthReport, DiskInv
<1> QED
  BY <1>1, <1>3, <1>4, <1>5, DiskCallStep, DiskLoadStep DEF Next

\* With one client a put that is answered 200 is on disk, complete, whatever
\* system calls failed and whenever the process was killed before
\* (api.rs:145-153, backend.rs:312-320).
THEOREM PutsArePersisted == OneClient => (Spec => []AcceptedPutsAreOnDisk)
<1> SUFFICES ASSUME OneClient PROVE Spec => []AcceptedPutsAreOnDisk
  OBVIOUS
<1>1. Init => DiskInv
  BY DEF Init, DiskInv, Task
<1>2. IInv /\ DiskInv /\ [Next]_vars => DiskInv'
  BY DiskStep DEF IInv
<1>3. DiskInv => AcceptedPutsAreOnDisk
  BY DEF DiskInv, AcceptedPutsAreOnDisk
<1> QED BY <1>1, <1>2, <1>3, Invariance, PTL DEF Spec
-----------------------------------------------------------------------------
(* What a call has made of the routers when it returns.                    *)

\* set_backend_state's update reaches the backend it names, and no other
\* (backend.rs:340-347).
LEMMA SetEnabledEffect ==
  ASSUME NEW c \in Config, UniqueNames(c), NEW n \in Name, Known(c, n),
         NEW e \in BOOLEAN
  PROVE  /\ n \in Enabled(SetEnabled(c, n, e), "main") <=> e
         /\ \A m \in Name \ {n} :
              m \in Enabled(SetEnabled(c, n, e), "main") <=> m \in Enabled(c, "main")
         /\ Enabled(SetEnabled(c, n, e), "fallback") = Enabled(c, "fallback")
<1> DEFINE bs == SetEnabled(c, n, e).backends
<1>1. /\ c.backends \in Seq(BackendConf)
      /\ DOMAIN c.backends = 1 .. Len(c.backends) /\ Len(c.backends) \in Nat
  BY ConfigLists, ListLemma
<1>2. \A i, j \in DOMAIN c.backends :
        c.backends[i].name = c.backends[j].name => i = j
  <2> SUFFICES ASSUME NEW i \in DOMAIN c.backends, NEW j \in DOMAIN c.backends,
                      c.backends[i].name = c.backends[j].name
               PROVE  i = j
    OBVIOUS
  <2> DEFINE all == c.backends \o c.fallback
             m == Len(c.backends)
             f == Len(c.fallback)
  <2>1. i \in 1 .. m /\ j \in 1 .. m /\ m \in Nat /\ f \in Nat /\ DOMAIN all = 1 .. m + f
    BY ListLemma
  <2>2. i \in DOMAIN all /\ j \in DOMAIN all /\ i <= m /\ j <= m
    <3> HIDE DEF all, m, f
    <3> QED BY <2>1
  <2>3. all[i] = c.backends[i] /\ all[j] = c.backends[j]
    BY <2>2, ListLemma
  <2> HIDE DEF all
  <2>4. \A k, l \in DOMAIN all : all[k].name = all[l].name => k = l
    BY DEF UniqueNames, all
  <2> QED BY <2>2, <2>3, <2>4
<1>3. bs = [i \in DOMAIN c.backends |->
              IF c.backends[i].name = n
              THEN [c.backends[i] EXCEPT !.enabled = e]
              ELSE c.backends[i]]
  <2>1. ASSUME NEW i \in DOMAIN c.backends, c.backends[i].name = n
        PROVE  \A j \in 1 .. i - 1 : c.backends[j].name # n
    <3> SUFFICES ASSUME NEW j \in 1 .. i - 1, c.backends[j].name = n PROVE FALSE
      OBVIOUS
    <3>1. j \in DOMAIN c.backends /\ j # i
      BY <1>1
    <3> QED BY <1>2, <2>1, <3>1
  <2> QED BY <2>1 DEF SetEnabled
<1>4. \A i \in DOMAIN c.backends : c.backends[i] \in BackendConf
  BY <1>1
<1>5. \A i \in DOMAIN c.backends :
        /\ bs[i].name = c.backends[i].name
        /\ bs[i].enabled = IF c.backends[i].name = n THEN e ELSE c.backends[i].enabled
  BY <1>3, <1>4 DEF BackendConf
<1>6. /\ ListOf(SetEnabled(c, n, e), "main") = bs /\ ListOf(c, "main") = c.backends
      /\ ListOf(SetEnabled(c, n, e), "fallback") = ListOf(c, "fallback")
      /\ DOMAIN bs = DOMAIN c.backends
  BY <1>3 DEF ListOf, SetEnabled
<1>7. \A m \in Name :
        m \in Enabled(SetEnabled(c, n, e), "main")
          <=> \E i \in DOMAIN c.backends : bs[i].name = m /\ bs[i].enabled
  BY <1>6 DEF Enabled
<1>8. n \in Enabled(SetEnabled(c, n, e), "main") <=> e
  <2>1. PICK k \in DOMAIN c.backends : c.backends[k].name = n
    BY DEF Known
  <2> HIDE DEF bs
  <2> QED BY <1>5, <1>7, <2>1
<1>9. ASSUME NEW m \in Name \ {n}
      PROVE  m \in Enabled(SetEnabled(c, n, e), "main") <=> m \in Enabled(c, "main")
  <2> HIDE DEF bs
  <2> QED BY <1>5, <1>6, <1>7 DEF Enabled
<1>10. Enabled(SetEnabled(c, n, e), "fallback") = Enabled(c, "fallback")
  BY <1>6 DEF Enabled
<1> QED BY <1>8, <1>9, <1>10

\* Where a task is changes with its own steps only, with those of the signal
\* loop that start one, and with the end of the process.
LEMMA PcChanges ==
  ASSUME TypeInv, [Next]_vars, NEW t \in Task, pc'[t] # pc[t]
  PROVE  \/ Forget
         \/ t = Daemon /\ (Start \/ HupRecv)
         \/ Arrive(t) \/ Step(t) \/ Cancel(t)
<1> USE DEF TypeInv, TypeOK, Goto, lockVars, taskVars, routerVars, procVars, ghostVars
<1>1. CASE Start \/ HupRecv
  BY <1>1 DEF Start, HupRecv, Task
<1>2. CASE Sighup \/ Crash
  BY <1>2 DEF Sighup, Crash
<1>3. CASE EditFile \/ UNCHANGED vars
  BY <1>3 DEF EditFile, vars
<1>4. ASSUME NEW u \in Task, Arrive(u) PROVE u = t
  BY <1>4 DEF Arrive, ConfigPut, SubmitConfig, ConfigReload, BackendState, ConfigGet
<1>5. ASSUME NEW u \in Task, Step(u) PROVE u = t
  <2>1. CASE SetConfig(u) \/ SetState(u) \/ NextRouter(u)
    BY <2>1 DEF SetConfig, SetState, NextRouter, UpdateRouter
  <2>2. CASE ~(SetConfig(u) \/ SetState(u) \/ NextRouter(u))
    BY <1>5, <2>2 DEF Step, ReadFile, SubmitConfig, GetConfig, WaitHealth, Swap, StopOld,
                      PersistConfig, Truncate, Write, Respond
  <2> QED BY <2>1, <2>2
<1>6. ASSUME NEW u \in Task, Cancel(u) PROVE u = t
  BY <1>6 DEF Cancel
<1>7. ASSUME NEW r \in RouterId, NEW n \in Name, NEW v \in Verdict, HealthReport(r, n, v)
      PROVE  FALSE
  BY <1>7 DEF HealthReport
<1> QED BY <1>1, <1>2, <1>3, <1>4, <1>5, <1>6, <1>7 DEF Next

\* While apply runs, the configuration is the one its caller came with: for a
\* put or a reload the whole of it, for a toggle what it says of one backend.
AskedInv ==
  \A t \in Task : pc[t] \in Applying =>
    /\ op[t].kind = "state" =>
         (op[t].name \in Enabled(config, "main") <=> op[t].enabled)
    /\ op[t].kind # "state" => config = cfg[t]

\* A step that changes neither the configuration nor what those inside apply
\* were asked, and lets nobody in.
LEMMA AskedKept ==
  ASSUME AskedInv, config' = config,
         \A t \in Task : pc'[t] \in Applying =>
           pc[t] \in Applying /\ op'[t] = op[t] /\ cfg'[t] = cfg[t]
  PROVE  AskedInv'
BY DEF AskedInv

\* Who is given the lock finds nobody inside apply, and does with the
\* configuration what it was asked (backend.rs:300, 340).
LEMMA AskedEnters ==
  ASSUME IInv, NEW t \in Task, SetConfig(t) \/ SetState(t)
  PROVE  AskedInv'
<1> USE DEF IInv, TypeInv, TypeOK, Goto
<1>1. \A u \in Task \ {t} : pc[u] \notin Applying
  BY DEF SetConfig, SetState, Mutex, Holds
<1>2. op' = op /\ cfg' = cfg
  BY DEF SetConfig, SetState
<1>3. \A u \in Task \ {t} : pc'[u] \notin Applying
  BY <1>1 DEF SetConfig, SetState, UpdateRouter
<1>4. CASE SetConfig(t)
  BY <1>2, <1>3, <1>4 DEF SetConfig, AskedInv
<1>5. CASE SetState(t) /\ ~Known(config, op[t].name)
  <2>1. pc'[t] \notin Applying
    BY <1>5 DEF SetState, Applying
  <2> QED BY <1>3, <2>1 DEF AskedInv
<1>6. CASE SetState(t) /\ Known(config, op[t].name)
  <2> DEFINE n == op[t].name
             e == op[t].enabled
  <2>1. PICK i \in DOMAIN config.backends : config.backends[i].name = n
    BY <1>6 DEF Known
  <2>2. config \in Config /\ n \in Name /\ e \in BOOLEAN /\ UniqueNames(config)
    <3>1. config.backends[i] \in BackendConf
      BY <2>1, ConfigLists
    <3> QED BY <2>1, <3>1 DEF Op, BackendConf, ApplyInv
  <2>3. config' = SetEnabled(config, n, e) /\ op[t].kind = "state"
    BY <1>6 DEF SetState
  <2>4. n \in Enabled(config', "main") <=> e
    BY <1>6, <2>2, <2>3, SetEnabledEffect
  <2> QED BY <1>2, <1>3, <2>3, <2>4 DEF AskedInv
<1> QED BY <1>4, <1>5, <1>6

LEMMA AskedStep == IInv /\ AskedInv /\ [Next]_vars => AskedInv'
<1> SUFFICES ASSUME IInv, AskedInv, [Next]_vars PROVE AskedInv'
  OBVIOUS
<1> USE DEF IInv, TypeInv, TypeOK, Goto, lockVars, taskVars, routerVars, procVars, ghostVars
<1>1. CASE Forget
  BY <1>1 DEF Forget, AskedInv, Applying
<1>2. CASE Start \/ HupRecv
  <2>1. /\ config' = config /\ cfg' = cfg /\ pc' = [pc EXCEPT ![Daemon] = pc'[Daemon]]
        /\ pc'[Daemon] \notin Applying /\ op' = [op EXCEPT ![Daemon] = op'[Daemon]]
    BY <1>2 DEF Start, HupRecv, Applying, Task
  <2> QED BY <2>1, AskedKept
<1>3. CASE Sighup \/ Crash \/ EditFile \/ UNCHANGED vars
  <2>1. Forget \/ UNCHANGED <<config, pc, op, cfg>>
    BY <1>3 DEF Sighup, Crash, EditFile, vars
  <2> QED BY <1>1, <2>1, AskedKept
<1>4. ASSUME NEW t \in Task, config' = config, pc' = [pc EXCEPT ![t] = pc'[t]],
             pc'[t] \notin Applying,
             \A u \in Task \ {t} : op'[u] = op[u] /\ cfg'[u] = cfg[u]
      PROVE  AskedInv'
  BY <1>4, AskedKept
<1>5. ASSUME NEW t \in Task, Arrive(t) \/ ReadFile(t) PROVE AskedInv'
  <2>1. /\ config' = config /\ pc' = [pc EXCEPT ![t] = pc'[t]]
        /\ pc'[t] \notin Applying
        /\ \A u \in Task \ {t} : op'[u] = op[u] /\ cfg'[u] = cfg[u]
    BY <1>5 DEF Arrive, ConfigPut, SubmitConfig, ConfigReload, BackendState, ConfigGet,
                ReadFile, Queue, Applying
  <2> QED BY <1>4, <2>1
<1>6. ASSUME NEW t \in Task, SetConfig(t) \/ SetState(t) PROVE AskedInv'
  BY <1>6, AskedEnters
<1>7. ASSUME NEW t \in Task,
             WaitHealth(t) \/ Swap(t) \/ StopOld(t) \/ NextRouter(t)
      PROVE  AskedInv'
  <2>1. /\ config' = config /\ op' = op /\ cfg' = cfg /\ pc[t] \in Applying
        /\ pc' = [pc EXCEPT ![t] = pc'[t]]
    BY <1>7 DEF WaitHealth, Swap, StopOld, NextRouter, UpdateRouter, Applying
  <2> QED BY <2>1, AskedKept
<1>8. ASSUME NEW t \in Task,
             GetConfig(t) \/ PersistConfig(t) \/ Truncate(t) \/ Write(t) \/ Respond(t)
             \/ Cancel(t)
      PROVE  AskedInv'
  <2>1. /\ config' = config /\ pc' = [pc EXCEPT ![t] = pc'[t]]
        /\ pc'[t] \notin Applying
        /\ \A u \in Task \ {t} : op'[u] = op[u] /\ cfg'[u] = cfg[u]
    BY <1>8 DEF GetConfig, PersistConfig, Truncate, Write, Respond, Cancel, Applying
  <2> QED BY <1>4, <2>1
<1>9. ASSUME NEW r \in RouterId, NEW n \in Name, NEW v \in Verdict, HealthReport(r, n, v)
      PROVE  AskedInv'
  BY <1>9, AskedKept DEF HealthReport
<1> QED
  BY <1>2, <1>3, <1>5, <1>6, <1>7, <1>8, <1>9 DEF Next, Step

LEMMA AskedInvariance == Spec => []AskedInv
<1>1. Init => AskedInv
  BY DEF Init, AskedInv, Applying
<1> QED BY <1>1, AskedStep, Invariance, PTL DEF Spec

\* When apply returns to its caller the routers serve what that caller asked
\* for, however many others wait for the lock with something else
\* (backend.rs:300-310, 340-353).
THEOREM AppliesTheRequest == Spec => AppliesWhatWasAsked
<1> DEFINE A == \A t \in Task :
                  pc[t] = "next" /\ pc'[t] \in {"relock", "ok"} =>
                    IF op[t].kind = "state"
                    THEN op[t].name \in MembersOf(slot["main"]) <=> op[t].enabled
                    ELSE \A s \in Slot : MembersOf(slot[s]) = Enabled(cfg[t], s)
<1>1. IInv /\ AskedInv /\ [Next]_vars => [A]_vars
  <2> SUFFICES ASSUME IInv, AskedInv, [Next]_vars,
                      NEW t \in Task, pc[t] = "next", pc'[t] \in {"relock", "ok"}
               PROVE  IF op[t].kind = "state"
                      THEN op[t].name \in MembersOf(slot["main"]) <=> op[t].enabled
                      ELSE \A s \in Slot : MembersOf(slot[s]) = Enabled(cfg[t], s)
    OBVIOUS
  <2> USE DEF IInv, TypeInv, TypeOK, Goto
  <2>1. Arrive(t) \/ Step(t) \/ Cancel(t)
    <3>1. ~Forget /\ ~Start /\ ~(HupRecv /\ t = Daemon)
      BY DEF Forget, Start, HupRecv, Task
    <3> QED BY <3>1, PcChanges
  <2>2. NextRouter(t)
    BY <2>1 DEF Arrive, ConfigPut, ConfigReload, BackendState, ConfigGet, Idle, Cancel,
       Step, ReadFile, SetConfig, SetState, GetConfig, WaitHealth, Swap, StopOld,
       PersistConfig, Truncate, Write, Respond
  <2>3. stage[t] = "fallback"
    BY <2>2 DEF NextRouter, UpdateRouter
  <2>4. Serves("main") /\ Serves("fallback")
    BY <2>3 DEF ApplyInv, MatchInv, Applying
  <2>5. /\ op[t].kind = "state" =>
              (op[t].name \in Enabled(config, "main") <=> op[t].enabled)
        /\ op[t].kind # "state" => config = cfg[t]
    BY DEF AskedInv, Applying
  <2> QED BY <2>4, <2>5 DEF Serves, Slot
<1>2. Spec => [][A]_vars
  BY <1>1, Invariance, AskedInvariance, PTL DEF Spec
<1> QED BY <1>2 DEF AppliesWhatWasAsked
-----------------------------------------------------------------------------
(* The queue of the lock.                                                  *)

\* Where task u stands in a queue.
Stands(q, u) == \E i \in DOMAIN q : q[i] = u
Once(q) == \A i, j \in DOMAIN q : q[i] = q[j] => i = j

\* Nobody behind is passed by: whoever stood at a place still stands there, or
\* nearer to the head.
MovesUp(q, r, u) ==
  \A i \in DOMAIN q : q[i] = u => \E j \in 1 .. i : j \in DOMAIN r /\ r[j] = u

\* A waiter joins at the end.
LEMMA QueueJoins ==
  ASSUME NEW q \in Seq(Task), NEW t \in Task, Once(q), ~Stands(q, t)
  PROVE  LET r == Append(q, t)
         IN  /\ Once(r)
             /\ \A u \in Task : Stands(r, u) <=> Stands(q, u) \/ u = t
             /\ \A u \in Task : MovesUp(q, r, u)
<1> DEFINE r == Append(q, t)
           n == Len(q)
<1>1. /\ n \in Nat /\ DOMAIN q = 1 .. n /\ DOMAIN r = 1 .. n + 1
      /\ \A i \in 1 .. n : r[i] = q[i]
      /\ r[n + 1] = t
  BY AppendProperties, LenProperties
<1> HIDE DEF r, n
<1>2. \A i \in DOMAIN r : i \in DOMAIN q \/ i = n + 1
  BY <1>1
<1>3. Once(r)
  BY <1>1, <1>2 DEF Once, Stands
<1>4. \A u \in Task : Stands(r, u) <=> Stands(q, u) \/ u = t
  <2>1. n + 1 \in DOMAIN r
    BY <1>1
  <2> QED BY <1>1, <1>2, <2>1 DEF Stands
<1>5. \A u \in Task : MovesUp(q, r, u)
  BY <1>1 DEF MovesUp
<1> QED BY <1>3, <1>4, <1>5 DEF r

\* What is left of a queue when the one at place k leaves it.
Closes(q, k, r) ==
  /\ DOMAIN r = 1 .. Len(q) - 1
  /\ \A i \in 1 .. Len(q) - 1 : r[i] = IF i < k THEN q[i] ELSE q[i + 1]

\* The head leaves (the guard is dropped).
LEMMA HeadLeaves ==
  ASSUME NEW q \in Seq(Task), q # <<>>
  PROVE  1 \in DOMAIN q /\ Head(q) = q[1] /\ Closes(q, 1, Tail(q))
<1>1. /\ Len(q) \in Nat \ {0} /\ DOMAIN q = 1 .. Len(q) /\ Tail(q) \in Seq(Task)
      /\ Len(Tail(q)) = Len(q) - 1
      /\ \A i \in 1 .. Len(q) - 1 : Tail(q)[i] = q[i + 1]
  BY EmptySeq, LenProperties, HeadTailProperties
<1>2. DOMAIN Tail(q) = 1 .. Len(q) - 1
  BY <1>1, LenProperties
<1>3. Head(q) = q[1]
  OBVIOUS
<1> DEFINE r == Tail(q)
<1>4. DOMAIN r = 1 .. Len(q) - 1 /\ \A i \in 1 .. Len(q) - 1 : r[i] = q[i + 1]
  BY <1>1, <1>2
<1> HIDE DEF r
<1>5. Closes(q, 1, r)
  BY <1>4 DEF Closes
<1> QED BY <1>1, <1>3, <1>5 DEF r

\* A waiter, or a holder who is not polled any more, leaves (its future is dropped).
LEMMA WaiterLeaves ==
  ASSUME NEW q \in Seq(Task), NEW k \in DOMAIN q
  PROVE  Closes(q, k, RemoveAt(q, k))
<1> DEFINE n == Len(q)
           l == SubSeq(q, 1, k - 1)
           s == SubSeq(q, k + 1, n)
<1>1. n \in Nat /\ DOMAIN q = 1 .. n /\ k \in 1 .. n /\ \A i \in 1 .. n : q[i] \in Task
  BY LenProperties, ElementOfSeq
<1>2. /\ l \in Seq(Task) /\ Len(l) = k - 1
      /\ \A i \in 1 .. k - 1 : l[i] = q[i]
  <2>1. 1 \in Int /\ k - 1 \in Int /\ \A i \in 1 .. k - 1 : q[i] \in Task
    BY <1>1
  <2>2. /\ l \in Seq(Task)
        /\ Len(l) = IF 1 <= k - 1 THEN k - 1 - 1 + 1 ELSE 0
        /\ \A i \in 1 .. k - 1 - 1 + 1 : l[i] = q[1 + i - 1]
    BY <2>1, SubSeqProperties
  <2> HIDE DEF l
  <2> QED BY <1>1, <2>2
<1>3. /\ s \in Seq(Task) /\ Len(s) = n - k
      /\ \A i \in 1 .. n - k : s[i] = q[k + i]
  <2>1. k + 1 \in Int /\ n \in Int /\ \A i \in k + 1 .. n : q[i] \in Task
    BY <1>1
  <2>2. /\ s \in Seq(Task)
        /\ Len(s) = IF k + 1 <= n THEN n - (k + 1) + 1 ELSE 0
        /\ \A i \in 1 .. n - (k + 1) + 1 : s[i] = q[k + 1 + i - 1]
    BY <2>1, SubSeqProperties
  <2> HIDE DEF s, n
  <2>3. Len(s) = n - k
    BY <1>1, <2>2
  <2>4. ASSUME NEW i \in 1 .. n - k PROVE s[i] = q[k + i]
    <3>1. i \in 1 .. n - (k + 1) + 1 /\ k + 1 + i - 1 = k + i
      BY <1>1
    <3> QED BY <2>2, <3>1
  <2> QED BY <2>2, <2>3, <2>4
<1> DEFINE r == l \o s
<1>4. /\ r \in Seq(Task) /\ Len(r) = Len(l) + Len(s)
      /\ \A i \in 1 .. Len(l) + Len(s) : r[i] = IF i <= Len(l) THEN l[i] ELSE s[i - Len(l)]
  <2> HIDE DEF l, s
  <2> QED BY <1>2, <1>3, ConcatProperties
<1>5. r = RemoveAt(q, k)
  BY DEF RemoveAt
<1> HIDE DEF l, s, n, r
<1>6. DOMAIN r = 1 .. Len(r)
  BY <1>4, LenProperties
<1>7. Len(r) = n - 1
  BY <1>1, <1>2, <1>3, <1>4
<1>8. ASSUME NEW i \in 1 .. n - 1 PROVE r[i] = IF i < k THEN q[i] ELSE q[i + 1]
  <2>1. i \in 1 .. Len(l) + Len(s)
    BY <1>1, <1>2, <1>3
  <2>2. CASE i < k
    BY <1>1, <1>2, <1>4, <2>1, <2>2
  <2>3. CASE ~(i < k)
    <3>1. /\ ~(i <= Len(l)) /\ i - Len(l) = i - (k - 1) /\ i - (k - 1) \in 1 .. n - k
          /\ k + (i - (k - 1)) = i + 1
      BY <1>1, <1>2, <2>3
    <3>2. r[i] = s[i - (k - 1)]
      BY <1>4, <2>1, <3>1
    <3> QED BY <1>3, <2>3, <3>1, <3>2
  <2> QED BY <2>2, <2>3
<1>9. Closes(q, k, r)
  BY <1>6, <1>7, <1>8 DEF Closes, n
<1> QED BY <1>5, <1>9

\* Those who stay are those who were there, in the same order.
LEMMA QueueCloses ==
  ASSUME NEW q \in Seq(Task), Once(q), NEW k \in DOMAIN q, NEW r, Closes(q, k, r)
  PROVE  /\ Once(r)
         /\ \A u \in Task : Stands(r, u) <=> Stands(q, u) /\ u # q[k]
         /\ \A u \in Task : u # q[k] => MovesUp(q, r, u)
<1> DEFINE n == Len(q)
<1>1. n \in Nat /\ DOMAIN q = 1 .. n /\ k \in 1 .. n
  BY LenProperties
<1>2. /\ DOMAIN r = 1 .. n - 1
      /\ \A i \in 1 .. n - 1 : r[i] = IF i < k THEN q[i] ELSE q[i + 1]
  BY DEF Closes
<1> HIDE DEF n
<1>3. ASSUME NEW i \in 1 .. n - 1
      PROVE  \E h \in 1 .. n : h = (IF i < k THEN i ELSE i + 1) /\ h # k /\ r[i] = q[h]
  BY <1>1, <1>2
<1>4. Once(r)
  <2> SUFFICES ASSUME NEW i \in 1 .. n - 1, NEW j \in 1 .. n - 1, r[i] = r[j]
               PROVE  i = j
    BY <1>2 DEF Once
  <2>1. PICK g \in 1 .. n : g = (IF i < k THEN i ELSE i + 1) /\ r[i] = q[g]
    BY <1>3
  <2>2. PICK h \in 1 .. n : h = (IF j < k THEN j ELSE j + 1) /\ r[j] = q[h]
    BY <1>3
  <2>3. g = h
    BY <1>1, <2>1, <2>2 DEF Once
  <2> QED BY <1>1, <2>1, <2>2, <2>3
<1>5. ASSUME NEW i \in DOMAIN q, i # k
      PROVE  \E j \in 1 .. i : j \in DOMAIN r /\ r[j] = q[i]
  <2>1. CASE i < k
    <3>1. i \in 1 .. i /\ i \in 1 .. n - 1 /\ r[i] = q[i]
      BY <1>1, <1>2, <2>1
    <3> QED BY <1>2, <3>1
  <2>2. CASE k < i
    <3>1. i - 1 \in 1 .. i /\ i - 1 \in 1 .. n - 1 /\ ~(i - 1 < k) /\ i - 1 + 1 = i
      BY <1>1, <2>2
    <3>2. r[i - 1] = q[i]
      BY <1>2, <3>1
    <3> QED BY <1>2, <3>1, <3>2
  <2> QED BY <1>1, <1>5, <2>1, <2>2
<1>6. \A u \in Task : Stands(r, u) => Stands(q, u) /\ u # q[k]
  <2> SUFFICES ASSUME NEW u \in Task, NEW i \in 1 .. n - 1, r[i] = u
               PROVE  Stands(q, u) /\ u # q[k]
    BY <1>2 DEF Stands
  <2>1. PICK h \in 1 .. n : h # k /\ r[i] = q[h]
    BY <1>3
  <2> QED BY <1>1, <2>1 DEF Stands, Once
<1>7. \A u \in Task : u # q[k] => MovesUp(q, r, u)
  BY <1>5 DEF MovesUp
<1>8. \A u \in Task : Stands(q, u) /\ u # q[k] => Stands(r, u)
  BY <1>5 DEF Stands
<1> QED BY <1>4, <1>6, <1>7, <1>8
-----------------------------------------------------------------------------
(* Who stands in it: the safety half of CallsComplete.                     *)

\* Who waits for the lock or holds it stands in its queue, and stands there
\* once; every call knows what it was asked to do.
Queued == {"lock", "relock"} \cup Applying
QueueInv ==
  /\ \A t \in Task : pc[t] \in Queued <=> Stands(lockq, t)
  /\ Once(lockq)
OpInv == \A t \in Task : pc[t] # "idle" => op[t].kind # "none"

\* The ways a step of task t treats the queue: it leaves it alone ...
LEMMA QueueKept ==
  ASSUME QueueInv, lockq' = lockq,
         \A u \in Task : pc'[u] \in Queued <=> pc[u] \in Queued
  PROVE  QueueInv'
BY DEF QueueInv, Stands, Once

\* ... it joins it ...
LEMMA QueueJoined ==
  ASSUME TypeInv, QueueInv, NEW t \in Task, lockq' = Append(lockq, t),
         pc[t] \notin Queued, pc'[t] \in Queued,
         \A u \in Task \ {t} : pc'[u] = pc[u]
  PROVE  QueueInv'
<1>1. lockq \in Seq(Task) /\ Once(lockq) /\ ~Stands(lockq, t)
  BY DEF TypeInv, TypeOK, QueueInv
<1>2. /\ Once(lockq')
      /\ \A u \in Task : Stands(lockq', u) <=> Stands(lockq, u) \/ u = t
  BY <1>1, QueueJoins
<1> QED BY <1>2 DEF QueueInv, Stands, Once

\* ... it gives the lock back, which is the head's to do ...
LEMMA QueueUnlocked ==
  ASSUME TypeInv, QueueInv, NEW t \in Task, Holds(t), lockq' = Tail(lockq),
         pc'[t] \notin Queued, \A u \in Task \ {t} : pc'[u] = pc[u]
  PROVE  QueueInv'
<1>1. lockq \in Seq(Task) /\ lockq # <<>> /\ Head(lockq) = t
  BY DEF TypeInv, TypeOK, Holds
<1>2. 1 \in DOMAIN lockq /\ lockq[1] = t /\ Closes(lockq, 1, lockq')
  BY <1>1, HeadLeaves
<1>3. /\ Once(lockq')
      /\ \A u \in Task : Stands(lockq', u) <=> Stands(lockq, u) /\ u # t
  BY <1>1, <1>2, QueueCloses DEF QueueInv
<1> QED BY <1>3 DEF QueueInv, Stands, Once

\* ... it gives the lock back and asks for it again ...
LEMMA QueueRejoined ==
  ASSUME TypeInv, QueueInv, NEW t \in Task, Holds(t), lockq' = Append(Tail(lockq), t),
         pc'[t] \in Queued, \A u \in Task \ {t} : pc'[u] = pc[u]
  PROVE  QueueInv'
<1>1. lockq \in Seq(Task) /\ lockq # <<>> /\ Head(lockq) = t
  BY DEF TypeInv, TypeOK, Holds
<1>2. 1 \in DOMAIN lockq /\ lockq[1] = t /\ Closes(lockq, 1, Tail(lockq))
  BY <1>1, HeadLeaves
<1>3. /\ Once(Tail(lockq)) /\ Tail(lockq) \in Seq(Task)
      /\ \A u \in Task : Stands(Tail(lockq), u) <=> Stands(lockq, u) /\ u # t
  BY <1>1, <1>2, QueueCloses, QueueTypes DEF QueueInv
<1>4. /\ Once(lockq')
      /\ \A u \in Task : Stands(lockq', u) <=> Stands(Tail(lockq), u) \/ u = t
  BY <1>3, QueueJoins
<1> QED BY <1>3, <1>4 DEF QueueInv, Stands, Once

\* ... or it is dropped.
LEMMA QueueLeft ==
  ASSUME TypeInv, QueueInv, NEW t \in Task, Leave(t),
         pc'[t] \notin Queued, \A u \in Task \ {t} : pc'[u] = pc[u]
  PROVE  QueueInv'
<1>1. lockq \in Seq(Task) /\ Once(lockq)
  BY DEF TypeInv, TypeOK, QueueInv
<1>2. CASE ~Stands(lockq, t)
  <2>1. lockq' = lockq
    BY <1>2 DEF Leave, Stands
  <2> QED BY <1>2, <2>1, QueueKept DEF QueueInv
<1>3. ASSUME NEW i \in DOMAIN lockq, lockq[i] = t, lockq' = RemoveAt(lockq, i)
      PROVE  QueueInv'
  <2>1. Closes(lockq, i, lockq')
    BY <1>1, <1>3, WaiterLeaves
  <2>2. /\ Once(lockq')
        /\ \A u \in Task : Stands(lockq', u) <=> Stands(lockq, u) /\ u # t
    BY <1>1, <1>3, <2>1, QueueCloses
  <2> QED BY <2>2 DEF QueueInv, Stands, Once
<1> QED BY <1>2, <1>3 DEF Leave, Stands

LEMMA QueueStep == IInv /\ QueueInv /\ [Next]_vars => QueueInv'
<1> SUFFICES ASSUME IInv, QueueInv, [Next]_vars PROVE QueueInv'
  OBVIOUS
<1>0. TypeInv /\ pc \in [Task -> Pc]
  BY DEF IInv, TypeInv, TypeOK
<1>1. CASE Forget
  BY <1>1 DEF Forget, QueueInv, Queued, Applying, Stands, Once
<1>2. CASE Start \/ HupRecv
  <2>1. pc[Daemon] = "idle" /\ pc' = [pc EXCEPT ![Daemon] = "read"] /\ lockq' = lockq
    BY <1>2 DEF Start, HupRecv, Goto, IInv, ProcInv, lockVars, Task
  <2>2. \A u \in Task : pc'[u] \in Queued <=> pc[u] \in Queued
    BY <1>0, <2>1 DEF Queued, Applying
  <2> QED BY <2>1, <2>2, QueueKept
<1>3. CASE Sighup \/ Crash \/ EditFile \/ UNCHANGED vars
  <2>1. Forget \/ UNCHANGED <<lockq, pc>>
    BY <1>3 DEF Sighup, Crash, EditFile, vars, lockVars, taskVars
  <2> QED BY <1>1, <2>1, QueueKept
<1>4. ASSUME NEW t \in Task, Arrive(t) \/ ReadFile(t) PROVE QueueInv'
  <2>1. /\ pc[t] \notin Queued
        /\ \A u \in Task \ {t} : pc'[u] = pc[u]
    BY <1>0, <1>4 DEF Arrive, ReadFile, ConfigPut, ConfigReload, BackendState, ConfigGet,
       SubmitConfig, Goto, Queued, Applying, Idle
  <2>2. \/ lockq' = Append(lockq, t) /\ pc'[t] \in Queued
        \/ lockq' = lockq /\ pc'[t] \notin Queued
    BY <1>0, <1>4 DEF Arrive, ReadFile, ConfigPut, ConfigReload, BackendState, ConfigGet,
       SubmitConfig, Goto, Queue, Queued, Applying, lockVars
  <2> QED BY <1>0, <2>1, <2>2, QueueJoined, QueueKept
<1>5. ASSUME NEW t \in Task,
             SetConfig(t) \/ SetState(t) \/ GetConfig(t) \/ PersistConfig(t)
      PROVE  QueueInv'
  <2>1. /\ Holds(t) /\ pc[t] \in Queued
        /\ \A u \in Task \ {t} : pc'[u] = pc[u]
    BY <1>0, <1>5 DEF SetConfig, SetState, GetConfig, PersistConfig, UpdateRouter, Goto, Queued
  <2>2. \/ lockq' = Tail(lockq) /\ pc'[t] \notin Queued
        \/ lockq' = lockq /\ pc'[t] \in Queued
    BY <1>0, <1>5 DEF SetConfig, SetState, GetConfig, PersistConfig, UpdateRouter, Goto,
       Unlock, Queued, Applying, lockVars
  <2> QED BY <1>0, <2>1, <2>2, QueueUnlocked, QueueKept
<1>6. ASSUME NEW t \in Task, WaitHealth(t) \/ Swap(t) \/ StopOld(t) PROVE QueueInv'
  <2>1. lockq' = lockq /\ \A u \in Task : pc'[u] \in Queued <=> pc[u] \in Queued
    BY <1>0, <1>6 DEF WaitHealth, Swap, StopOld, Goto, Queued, Applying, lockVars
  <2> QED BY <2>1, QueueKept
<1>7. ASSUME NEW t \in Task, NextRouter(t) PROVE QueueInv'
  <2>1. /\ Holds(t) /\ pc[t] \in Queued
        /\ \A u \in Task \ {t} : pc'[u] = pc[u]
    BY <1>0, <1>7 DEF NextRouter, UpdateRouter, Goto, Queued, Applying, IInv, Mutex
  <2>2. \/ lockq' = Tail(lockq) /\ pc'[t] \notin Queued
        \/ lockq' = Append(Tail(lockq), t) /\ pc'[t] \in Queued
        \/ lockq' = lockq /\ pc'[t] \in Queued
    BY <1>0, <1>7 DEF NextRouter, UpdateRouter, Goto, Unlock, Queued, Applying
  <2> QED BY <1>0, <2>1, <2>2, QueueUnlocked, QueueRejoined, QueueKept
<1>8. ASSUME NEW t \in Task, Truncate(t) \/ Write(t) \/ Respond(t) PROVE QueueInv'
  <2>1. lockq' = lockq /\ \A u \in Task : pc'[u] \in Queued <=> pc[u] \in Queued
    BY <1>0, <1>8 DEF Truncate, Write, Respond, Goto, Queued, Applying, lockVars
  <2> QED BY <2>1, QueueKept
<1>9. ASSUME NEW t \in Task, Cancel(t) PROVE QueueInv'
  <2>1. Leave(t) /\ pc'[t] \notin Queued /\ \A u \in Task \ {t} : pc'[u] = pc[u]
    BY <1>0, <1>9 DEF Cancel, Goto, Queued, Applying
  <2> QED BY <1>0, <2>1, QueueLeft
<1>10. ASSUME NEW r \in RouterId, NEW n \in Name, NEW v \in Verdict, HealthReport(r, n, v)
       PROVE  QueueInv'
  BY <1>10, QueueKept DEF HealthReport, lockVars, taskVars
<1> QED
  BY <1>2, <1>3, <1>4, <1>5, <1>6, <1>7, <1>8, <1>9, <1>10 DEF Next, Step

\* A call is forgotten when it is answered, and not before.
LEMMA OpStep == TypeInv /\ OpInv /\ [Next]_vars => OpInv'
<1> SUFFICES ASSUME TypeInv, OpInv, [Next]_vars PROVE OpInv'
  OBVIOUS
<1> USE DEF TypeInv, TypeOK, Goto, lockVars, taskVars, routerVars, procVars, ghostVars
<1>1. CASE Forget
  BY <1>1 DEF Forget, OpInv
<1>2. CASE Start \/ HupRecv
  BY <1>2, OpTypes DEF Start, HupRecv, OpInv, OpOf
<1>3. CASE Sighup \/ Crash \/ EditFile \/ UNCHANGED vars
  BY <1>1, <1>3 DEF Sighup, Crash, EditFile, vars, OpInv
<1>4. ASSUME NEW t \in Task, Arrive(t) PROVE OpInv'
  BY <1>4, OpTypes DEF Arrive, ConfigPut, SubmitConfig, ConfigReload, BackendState, ConfigGet, OpInv
<1>5. ASSUME NEW t \in Task, Step(t) \/ Cancel(t) PROVE OpInv'
  <2>1. pc[t] # "idle" \/ UNCHANGED <<pc, op>>
    BY <1>5 DEF Step, ReadFile, SetConfig, SetState, GetConfig, WaitHealth, Swap, StopOld,
       NextRouter, PersistConfig, Truncate, Write, Respond, Cancel
  <2>2. \A u \in Task \ {t} : pc'[u] = pc[u] /\ op'[u] = op[u]
    <3>1. CASE SetConfig(t) \/ SetState(t) \/ NextRouter(t)
      BY <3>1 DEF SetConfig, SetState, NextRouter, UpdateRouter
    <3>2. CASE ~(SetConfig(t) \/ SetState(t) \/ NextRouter(t))
      BY <1>5, <3>2 DEF Step, ReadFile, SubmitConfig, GetConfig, WaitHealth, Swap, StopOld,
         PersistConfig, Truncate, Write, Respond, Cancel
    <3> QED BY <3>1, <3>2
  <2>3. pc'[t] = "idle" \/ op'[t] = op[t]
    BY <1>5 DEF Step, ReadFile, SetConfig, SetState, GetConfig, WaitHealth, Swap, StopOld,
       NextRouter, PersistConfig, Truncate, Write, Respond, Cancel
  <2> QED BY <2>1, <2>2, <2>3 DEF OpInv
<1>6. ASSUME NEW r \in RouterId, NEW n \in Name, NEW v \in Verdict, HealthReport(r, n, v)
      PROVE  OpInv'
  BY <1>6 DEF HealthReport, OpInv
<1> QED BY <1>2, <1>3, <1>4, <1>5, <1>6 DEF Next

LEMMA QueueInvariance == Spec => [](QueueInv /\ OpInv)
<1>1. Init => QueueInv /\ OpInv
  BY DEF Init, QueueInv, OpInv, Queued, Applying, Stands, Once
<1>2. IInv /\ OpInv /\ [Next]_vars => OpInv'
  BY OpStep DEF IInv
<1> QED BY <1>1, <1>2, QueueStep, Invariance, PTL DEF Spec
-----------------------------------------------------------------------------
(* Nobody is stuck.                                                        *)

\* The bound on the routers dropped unstopped, which Cancel keeps.
StrayInv == IsFiniteSet(stray) /\ Cardinality(stray) <= MaxStray

LEMMA StrayStep == TypeInv /\ StrayInv /\ [Next]_vars => StrayInv'
<1> SUFFICES ASSUME TypeInv, StrayInv, [Next]_vars PROVE StrayInv'
  OBVIOUS
<1>1. CASE stray' = stray
  BY <1>1 DEF StrayInv
<1>2. CASE stray' = {}
  BY <1>2, FS_EmptySet, StrayAssumption DEF StrayInv
<1>3. ASSUME NEW t \in Task, Cancel(t) PROVE StrayInv'
  <2> DEFINE gone == {fresh[t], old[t]} \ {None}
  <2>1. CASE stray' = stray
    BY <1>1, <2>1
  <2>2. CASE stray' = stray \cup gone /\ Cardinality(stray \cup gone) <= MaxStray
    <3>1. IsFiniteSet({fresh[t]} \cup {old[t]})
      <4>1. IsFiniteSet({fresh[t]}) /\ IsFiniteSet({old[t]})
        BY FS_Singleton
      <4> QED BY <4>1, FS_Union
    <3>2. gone \in SUBSET ({fresh[t]} \cup {old[t]})
      OBVIOUS
    <3>3. IsFiniteSet(gone)
      BY <3>1, <3>2, FS_Subset
    <3> HIDE DEF gone
    <3>4. IsFiniteSet(stray \cup gone)
      BY <3>3, FS_Union DEF StrayInv
    <3> QED BY <2>2, <3>4 DEF StrayInv
  <2> QED BY <1>3, <2>1, <2>2 DEF Cancel
<1>4. stray' \in {stray, {}} \/ \E t \in Task : Cancel(t)
  <2> USE DEF lockVars, taskVars, routerVars, procVars, ghostVars
  <2>1. CASE Start \/ Sighup \/ HupRecv \/ Crash \/ EditFile \/ UNCHANGED vars
    BY <2>1 DEF Start, Sighup, HupRecv, Crash, Forget, EditFile, vars
  <2>2. ASSUME NEW t \in Task, Arrive(t) PROVE stray' = stray
    BY <2>2 DEF Arrive, ConfigPut, ConfigReload, BackendState, ConfigGet
  <2>3. ASSUME NEW t \in Task, Step(t) PROVE stray' = stray
    BY <2>3 DEF Step, ReadFile, SetConfig, SetState, GetConfig, WaitHealth, Swap, StopOld,
       NextRouter, PersistConfig, Truncate, Write, Respond
  <2>4. ASSUME NEW r \in RouterId, NEW n \in Name, NEW v \in Verdict, HealthReport(r, n, v)
        PROVE  stray' = stray
    BY <2>4 DEF HealthReport
  <2> QED BY <2>1, <2>2, <2>3, <2>4 DEF Next
<1> QED BY <1>1, <1>2, <1>3, <1>4

LEMMA StrayInvariance == Spec => []StrayInv
<1>1. Init => StrayInv
  BY FS_EmptySet, StrayAssumption DEF Init, StrayInv
<1>2. IInv /\ StrayInv /\ [Next]_vars => StrayInv'
  BY StrayStep DEF IInv
<1> QED BY <1>1, <1>2, Invariance, PTL DEF Spec

\* update_router can always build one router more: the bound on the number of
\* routers is never what stops it.  In the code routers are allocated, and
\* this holds because there is no such bound.
EnoughRouters == IsFiniteSet(RouterId) => Cardinality(RouterId) > 2 + MaxStray

\* The two slots hold two routers at most, and who is about to build one has
\* no other in its hands: there is a router that does not run.
LEMMA RoutersSuffice ==
  ASSUME EnoughRouters, IInv, StrayInv,
         \A t \in Task : fresh[t] = None /\ old[t] = None
  PROVE  Free # {}
<1> SUFFICES ASSUME Free = {} PROVE FALSE
  OBVIOUS
<1> DEFINE served == {slot["main"]} \cup {slot["fallback"]}
<1>1. RouterId \subseteq served \cup stray
  <2>1. \A r \in RouterId : r \in running
    BY DEF Free
  <2>2. ASSUME NEW r \in RouterId PROVE r \in Installed \cup stray
    <3>1. \A t \in Task : ~HeldBy(t, r)
      BY RouterAssumption DEF HeldBy
    <3> QED BY <2>1, <3>1 DEF IInv, ApplyInv, RouterInv
  <2> QED BY <2>2 DEF Installed, Slot
<1>2. IsFiniteSet(served) /\ Cardinality(served) <= 2 /\ Cardinality(served) \in Nat
  <2>1. /\ IsFiniteSet({slot["main"]}) /\ Cardinality({slot["main"]}) = 1
        /\ IsFiniteSet({slot["fallback"]}) /\ Cardinality({slot["fallback"]}) = 1
    BY FS_Singleton
  <2>2. /\ IsFiniteSet(served)
        /\ Cardinality(served) =
             Cardinality({slot["main"]}) + Cardinality({slot["fallback"]})
               - Cardinality({slot["main"]} \cap {slot["fallback"]})
    BY <2>1, FS_Union
  <2>3. /\ IsFiniteSet({slot["main"]} \cap {slot["fallback"]})
        /\ Cardinality({slot["main"]} \cap {slot["fallback"]}) \in Nat
        /\ Cardinality(served) \in Nat
    BY <2>1, <2>2, FS_Intersection, FS_CardinalityType
  <2> QED BY <2>1, <2>2, <2>3
<1> HIDE DEF served
<1>3. /\ IsFiniteSet(served \cup stray)
      /\ Cardinality(served \cup stray) <= 2 + MaxStray
      /\ Cardinality(served \cup stray) \in Nat
  <2>1. /\ IsFiniteSet(served \cup stray)
        /\ Cardinality(served \cup stray) =
             Cardinality(served) + Cardinality(stray) - Cardinality(served \cap stray)
    BY <1>2, FS_Union DEF StrayInv
  <2>2. /\ IsFiniteSet(served \cap stray) /\ Cardinality(served \cap stray) \in Nat
        /\ Cardinality(stray) \in Nat /\ Cardinality(served \cup stray) \in Nat
    BY <1>2, <2>1, FS_Intersection, FS_CardinalityType DEF StrayInv
  <2> QED BY <1>2, <2>1, <2>2, StrayAssumption DEF StrayInv
<1>4. IsFiniteSet(RouterId) /\ Cardinality(RouterId) <= Cardinality(served \cup stray)
  BY <1>1, <1>3, FS_Subset
<1>5. Cardinality(RouterId) \in Nat
  BY <1>4, FS_CardinalityType
<1> QED BY <1>3, <1>4, <1>5, StrayAssumption DEF EnoughRouters

\* Who waits for the health checks of its new router, waits for one of them
\* (backend.rs:222, 229).
LEMMA WaiterAwaits ==
  ASSUME IInv, NEW t \in Task, pc[t] = "wait"
  PROVE  AllKnown(health[fresh[t]]) \/ AwaitsCheck(t)
<1>1. fresh[t] \in RouterId /\ HeldBy(t, fresh[t])
  BY DEF IInv, TypeInv, TypeOK, ApplyInv, LocalsInv, HeldBy
<1>2. fresh[t] \in running
  BY <1>1 DEF IInv, ApplyInv, RouterInv
<1> QED BY <1>2 DEF AwaitsCheck, AllKnown

\* Who holds the lock can go on, or waits for a check.
LEMMA HolderGoesOn ==
  ASSUME EnoughRouters, IInv, QueueInv, OpInv, StrayInv, NEW t \in Task, Holds(t)
  PROVE  MayGoOn(t) \/ AwaitsCheck(t)
<1>1. pc[t] \in Queued
  <2>1. lockq \in Seq(Task) /\ lockq # <<>> /\ Head(lockq) = t
    BY DEF IInv, TypeInv, TypeOK, Holds
  <2>2. 1 \in DOMAIN lockq /\ lockq[1] = t
    BY <2>1, HeadLeaves
  <2> QED BY <2>2 DEF QueueInv, Stands
<1>2. CASE pc[t] \in {"lock", "next"}
  <2>1. \A u \in Task \ {t} : pc[u] \notin Applying
    BY DEF IInv, Mutex, Holds
  <2>2. \A u \in Task : fresh[u] = None /\ old[u] = None
    BY <1>2, <2>1 DEF IInv, ApplyInv, LocalsInv, Applying
  <2>3. Free # {}
    BY <2>2, RoutersSuffice
  <2> QED BY <1>2, <2>3 DEF MayGoOn, OpInv
<1>3. CASE pc[t] = "wait"
  BY <1>3, WaiterAwaits DEF MayGoOn
<1>4. CASE pc[t] \in {"relock", "swap", "stop"}
  BY <1>4 DEF MayGoOn
<1> QED BY <1>1, <1>2, <1>3, <1>4 DEF Queued, Applying

\* Whatever callers go away, while they wait for the lock or while they hold
\* it, the lock is never lost and never left to a task that cannot go on
\* (backend.rs:222, 300, 340).
THEOREM LockIsNeverLost == EnoughRouters => (Spec => []NobodyIsStuck)
<1> SUFFICES ASSUME EnoughRouters PROVE Spec => []NobodyIsStuck
  OBVIOUS
<1>1. IInv /\ QueueInv /\ OpInv /\ StrayInv => NobodyIsStuck
  <2> SUFFICES ASSUME IInv, QueueInv, OpInv, StrayInv, NEW t \in Task, pc[t] # "idle"
               PROVE  \/ MayGoOn(t) \/ AwaitsCheck(t)
                      \/ /\ \E i \in 2 .. Len(lockq) : lockq[i] = t
                         /\ MayGoOn(Head(lockq)) \/ AwaitsCheck(Head(lockq))
    BY DEF NobodyIsStuck
  <2>1. lockq \in Seq(Task) /\ pc[t] \in Pc
    BY DEF IInv, TypeInv, TypeOK
  <2>2. CASE pc[t] \notin {"wait", "lock", "relock", "next"}
    BY <2>1, <2>2 DEF MayGoOn, Pc, Applying
  <2>3. CASE pc[t] = "wait"
    BY <2>3, WaiterAwaits DEF MayGoOn
  <2>4. CASE pc[t] \in {"lock", "relock", "next"}
    <3>1. PICK i \in DOMAIN lockq : lockq[i] = t
      BY <2>4 DEF QueueInv, Queued, Applying, Stands
    <3>2. lockq # <<>> /\ i \in 1 .. Len(lockq) /\ Len(lockq) \in Nat
      BY <2>1, <3>1, EmptySeq, LenProperties
    <3>3. Head(lockq) = lockq[1] /\ Head(lockq) \in Task
      BY <2>1, <3>2, HeadLeaves, HeadTailProperties
    <3>4. MayGoOn(Head(lockq)) \/ AwaitsCheck(Head(lockq))
      BY <3>2, <3>3, HolderGoesOn DEF Holds
    <3>5. i = 1 \/ i \in 2 .. Len(lockq)
      BY <3>2
    <3> QED BY <3>1, <3>3, <3>4, <3>5
  <2> QED BY <2>2, <2>3, <2>4
<1> QED BY <1>1, Invariance, QueueInvariance, StrayInvariance, PTL
-----------------------------------------------------------------------------
(* The lock is fair.                                                       *)

\* The steps that move the queue.
LEMMA QueueMoves ==
  ASSUME TypeInv, Mutex, [Next]_vars, ~Forget, lockq' # lockq
  PROVE  \E u \in Task :
           \/ lockq' = Append(lockq, u) /\ pc[u] \notin Queued
           \/ /\ pc'[u] # pc[u] /\ Holds(u)
              /\ lockq' \in {Tail(lockq), Append(Tail(lockq), u)}
           \/ pc'[u] # pc[u] /\ Leave(u)
<1> USE DEF TypeInv, TypeOK, Goto, lockVars, taskVars, routerVars, procVars, ghostVars
<1>1. \E u \in Task : Arrive(u) \/ Step(u) \/ Cancel(u)
  BY DEF Next, Start, Sighup, HupRecv, Crash, EditFile, HealthReport, vars
<1>2. PICK u \in Task : Arrive(u) \/ Step(u) \/ Cancel(u)
  BY <1>1
<1>3. CASE Arrive(u) \/ ReadFile(u)
  BY <1>3 DEF Arrive, ReadFile, ConfigPut, ConfigReload, BackendState, ConfigGet, Idle,
     SubmitConfig, Queue, Queued, Applying
<1>4. CASE SetConfig(u) \/ SetState(u) \/ GetConfig(u) \/ PersistConfig(u)
  BY <1>4 DEF SetConfig, SetState, GetConfig, PersistConfig, UpdateRouter, Unlock
<1>5. CASE NextRouter(u)
  <2>1. Holds(u)
    BY <1>5 DEF NextRouter, Mutex, Applying
  <2>2. pc'[u] # pc[u] /\ lockq' \in {Tail(lockq), Append(Tail(lockq), u)}
    BY <1>5 DEF NextRouter, UpdateRouter, Unlock
  <2> QED BY <2>1, <2>2
<1>6. CASE WaitHealth(u) \/ Swap(u) \/ StopOld(u) \/ Truncate(u) \/ Write(u) \/ Respond(u)
  BY <1>6 DEF WaitHealth, Swap, StopOld, Truncate, Write, Respond
<1>7. CASE Cancel(u)
  <2>1. pc'[u] # pc[u] /\ Leave(u)
    BY <1>7 DEF Cancel
  <2> QED BY <2>1
<1> QED BY <1>2, <1>3, <1>4, <1>5, <1>6, <1>7 DEF Step

\* Nobody who asks for the lock later is served before, and nobody who goes
\* away or comes back pushes a waiter to the rear.
WaitersMoveUp ==
  [][\A t \in Task : pc[t] \in {"lock", "relock"} /\ pc'[t] = pc[t] =>
       MovesUp(lockq, lockq', t)]_vars

\* The mutex is fair (backend.rs:300, 309, 314, 342): as long as a caller waits, its
\* place in the queue only ever comes nearer to the head.
THEOREM LockIsFair == Spec => WaitersMoveUp
<1> DEFINE A == \A t \in Task : pc[t] \in {"lock", "relock"} /\ pc'[t] = pc[t] =>
                  MovesUp(lockq, lockq', t)
<1>1. IInv /\ QueueInv /\ [Next]_vars => [A]_vars
  <2> SUFFICES ASSUME IInv, QueueInv, [Next]_vars,
                      NEW t \in Task, pc[t] \in {"lock", "relock"}, pc'[t] = pc[t]
               PROVE  MovesUp(lockq, lockq', t)
    OBVIOUS
  <2>1. TypeInv /\ Mutex /\ lockq \in Seq(Task) /\ Once(lockq)
    BY DEF IInv, TypeInv, TypeOK, QueueInv
  <2>2. ~Forget
    BY DEF Forget
  <2>3. DOMAIN lockq \subseteq Nat \ {0}
    BY <2>1, LenProperties
  <2>4. CASE lockq' = lockq
    BY <2>3, <2>4 DEF MovesUp
  <2>5. ASSUME NEW u \in Task, lockq' = Append(lockq, u), pc[u] \notin Queued
        PROVE  MovesUp(lockq, lockq', t)
    BY <2>1, <2>5, QueueJoins DEF QueueInv
  <2>6. ASSUME NEW u \in Task, u # t, Holds(u)
        PROVE  /\ Tail(lockq) \in Seq(Task) /\ Once(Tail(lockq)) /\ ~Stands(Tail(lockq), u)
               /\ MovesUp(lockq, Tail(lockq), t)
    <3>1. lockq # <<>> /\ Head(lockq) = u
      BY <2>6 DEF Holds
    <3>2. 1 \in DOMAIN lockq /\ lockq[1] = u /\ Closes(lockq, 1, Tail(lockq))
      BY <2>1, <3>1, HeadLeaves
    <3> QED BY <2>1, <2>6, <3>1, <3>2, QueueCloses, QueueTypes
  <2>7. ASSUME NEW u \in Task, u # t, Holds(u), lockq' = Append(Tail(lockq), u)
        PROVE  MovesUp(lockq, lockq', t)
    <3>1. MovesUp(Tail(lockq), lockq', t)
      BY <2>6, <2>7, QueueJoins
    <3>2. ASSUME NEW i \in DOMAIN lockq, lockq[i] = t
          PROVE  \E j \in 1 .. i : j \in DOMAIN lockq' /\ lockq'[j] = t
      <4>1. PICK j \in 1 .. i : j \in DOMAIN Tail(lockq) /\ Tail(lockq)[j] = t
        BY <2>6, <2>7, <3>2 DEF MovesUp
      <4>2. PICK k \in 1 .. j : k \in DOMAIN lockq' /\ lockq'[k] = t
        BY <3>1, <4>1 DEF MovesUp
      <4>3. k \in 1 .. i
        BY <2>3, <4>1, <4>2
      <4> QED BY <4>2, <4>3
    <3> QED BY <3>2 DEF MovesUp
  <2>8. ASSUME NEW u \in Task, u # t, NEW i \in DOMAIN lockq, lockq[i] = u,
               lockq' = RemoveAt(lockq, i)
        PROVE  MovesUp(lockq, lockq', t)
    BY <2>1, <2>8, WaiterLeaves, QueueCloses
  <2>9. CASE lockq' # lockq
    <3>1. PICK u \in Task :
            \/ lockq' = Append(lockq, u) /\ pc[u] \notin Queued
            \/ /\ pc'[u] # pc[u] /\ Holds(u)
               /\ lockq' \in {Tail(lockq), Append(Tail(lockq), u)}
            \/ pc'[u] # pc[u] /\ Leave(u)
      BY <2>1, <2>2, <2>9, QueueMoves
    <3> QED BY <2>5, <2>6, <2>7, <2>8, <2>9, <3>1 DEF Leave
  <2> QED BY <2>4, <2>9
<1>2. Spec => [][A]_vars
  BY <1>1, Invariance, QueueInvariance, PTL DEF Spec
<1> QED BY <1>2 DEF WaitersMoveUp
-----------------------------------------------------------------------------
(* How much a call has left to do.                                         *)

\* How many steps a call has before it at most.  An apply has four steps for
\* each of its two slots.
StepsFrom(l) ==
  CASE l = "idle" -> 0
    [] l \in {"ok", "rejected", "unpersisted"} -> 1
    [] l = "write" -> 2
    [] l = "trunc" -> 3
    [] l = "relock" -> 4
    [] l = "next" -> 5
    [] l = "stop" -> 6
    [] l = "swap" -> 7
    [] l = "wait" -> 8
    [] l = "lock" -> 13
    [] l = "read" -> 14
StepsLeft(t) ==
  StepsFrom(pc[t]) + IF pc[t] \in Applying /\ stage[t] = "main" THEN 4 ELSE 0

\* What any step of the system leaves to a call is what it had before it, or
\* less.
CallsAdvance ==
  [][\A t \in Task : pc[t] # "idle" =>
       \/ pc'[t] = pc[t] /\ stage'[t] = stage[t]
       \/ StepsLeft(t)' < StepsLeft(t)]_vars

\* The step counts, as numbers.
LEMMA StepCounts ==
  /\ StepsFrom("idle") = 0
  /\ StepsFrom("ok") = 1 /\ StepsFrom("rejected") = 1 /\ StepsFrom("unpersisted") = 1
  /\ StepsFrom("write") = 2 /\ StepsFrom("trunc") = 3 /\ StepsFrom("relock") = 4
  /\ StepsFrom("next") = 5 /\ StepsFrom("stop") = 6 /\ StepsFrom("swap") = 7
  /\ StepsFrom("wait") = 8 /\ StepsFrom("lock") = 13 /\ StepsFrom("read") = 14
  /\ \A l \in Pc \ {"idle"} : StepsFrom(l) \in 1 .. 14
BY DEF StepsFrom, Pc, Applying

\* No call ever runs in circles: from wherever it is, it ends after at most
\* StepsLeft of its own steps, fourteen for a reload or a put, and no step of
\* another call gives it more to do.  That leaves only waiting (for the lock,
\* LockIsNeverLost and LockIsFair; for a check) to keep it from its end.
THEOREM CallsAreBounded == Spec => CallsAdvance
<1> DEFINE A == \A t \in Task : pc[t] # "idle" =>
                  \/ pc'[t] = pc[t] /\ stage'[t] = stage[t]
                  \/ StepsLeft(t)' < StepsLeft(t)
<1>1. IInv /\ [Next]_vars => [A]_vars
  <2> SUFFICES ASSUME IInv, [Next]_vars, NEW t \in Task, pc[t] # "idle"
               PROVE  \/ pc'[t] = pc[t] /\ stage'[t] = stage[t]
                      \/ StepsLeft(t)' < StepsLeft(t)
    OBVIOUS
  <2> USE DEF IInv, TypeInv, TypeOK, Goto, lockVars, taskVars, routerVars, procVars, ghostVars
  <2>0. /\ pc[t] \in Pc /\ stage[t] \in {"main", "fallback"}
        /\ StepsLeft(t) = StepsFrom(pc[t]) +
             (IF pc[t] \in Applying /\ stage[t] = "main" THEN 4 ELSE 0)
        /\ StepsLeft(t)' = StepsFrom(pc'[t]) +
             (IF pc'[t] \in Applying /\ stage'[t] = "main" THEN 4 ELSE 0)
    BY DEF StepsLeft, Slot
  <2>1. CASE pc'[t] = "idle"
    <3>1. StepsLeft(t)' = 0
      BY <2>0, <2>1, StepCounts DEF Applying
    <3>2. StepsFrom(pc[t]) \in 1 .. 14
      <4>1. pc[t] \in Pc \ {"idle"}
        BY <2>0
      <4> QED BY <4>1, StepCounts
    <3> QED BY <2>0, <3>1, <3>2
  <2>2. CASE pc'[t] # pc[t] /\ pc'[t] # "idle"
    <3>1. Step(t)
      <4>1. ~Forget
        BY <2>2 DEF Forget
      <4>2. ~(t = Daemon /\ (Start \/ HupRecv))
        BY DEF Start, HupRecv, ProcInv, Task
      <4>3. ~Arrive(t)
        BY DEF Arrive, ConfigPut, ConfigReload, BackendState, ConfigGet, Idle
      <4>4. ~Cancel(t)
        BY <2>2 DEF Cancel
      <4> QED BY <2>2, <4>1, <4>2, <4>3, <4>4, PcChanges
    <3>2. CASE ReadFile(t)
      BY <2>0, <3>2, StepCounts DEF ReadFile, SubmitConfig, Applying
    <3>3. CASE SetConfig(t) \/ SetState(t)
      <4>1. /\ pc[t] = "lock"
            /\ pc'[t] \in {"wait", "swap", "rejected"}
        BY <3>3 DEF SetConfig, SetState, UpdateRouter
      <4> QED BY <2>0, <4>1, StepCounts DEF Applying
    <3>4. CASE GetConfig(t)
      BY <2>0, <3>4, StepCounts DEF GetConfig, Applying
    <3>5. CASE WaitHealth(t) \/ StopOld(t)
      BY <2>0, <3>5, StepCounts DEF WaitHealth, StopOld, Applying
    <3>6. CASE Swap(t)
      BY <2>0, <3>6, StepCounts DEF Swap, Applying
    <3>7. CASE NextRouter(t)
      <4>1. CASE stage[t] = "main" /\ stage'[t] = "fallback" /\ pc'[t] \in {"wait", "swap"}
        BY <2>0, <3>7, <4>1, StepCounts DEF NextRouter, Applying
      <4>2. CASE pc'[t] \in {"relock", "ok"}
        BY <2>0, <3>7, <4>2, StepCounts DEF NextRouter, Applying
      <4> QED BY <3>7, <4>1, <4>2 DEF NextRouter, UpdateRouter
    <3>8. CASE PersistConfig(t) \/ Truncate(t) \/ Write(t) \/ Respond(t)
      BY <2>0, <3>8, StepCounts DEF PersistConfig, Truncate, Write, Respond, Applying
    <3> QED BY <3>1, <3>2, <3>3, <3>4, <3>5, <3>6, <3>7, <3>8 DEF Step
  <2>3. CASE pc'[t] = pc[t] /\ pc'[t] # "idle"
    <3>1. CASE Forget
      BY <2>3, <3>1 DEF Forget
    <3>2. CASE Start \/ Sighup \/ HupRecv \/ Crash \/ EditFile \/ UNCHANGED vars
      BY <2>3, <3>1, <3>2 DEF Start, Sighup, HupRecv, Crash, EditFile, vars
    <3>3. ASSUME NEW u \in Task, Arrive(u) PROVE stage' = stage
      BY <3>3 DEF Arrive, ConfigPut, ConfigReload, BackendState, ConfigGet
    <3>4. ASSUME NEW u \in Task, Step(u) \/ Cancel(u)
          PROVE  stage'[t] = stage[t]
      <4>1. u # t
        <5>1. ASSUME Step(t) PROVE FALSE
          <6>1. CASE SetConfig(t) \/ SetState(t) \/ NextRouter(t)
            BY <2>3, <6>1 DEF SetConfig, SetState, NextRouter, UpdateRouter
          <6>2. CASE ~(SetConfig(t) \/ SetState(t) \/ NextRouter(t))
            BY <2>3, <5>1, <6>2 DEF Step, ReadFile, SubmitConfig, GetConfig, WaitHealth,
               Swap, StopOld, PersistConfig, Truncate, Write, Respond
          <6> QED BY <6>1, <6>2
        <5>2. ~Cancel(t)
          BY <2>3 DEF Cancel
        <5> QED BY <3>4, <5>1, <5>2
      <4>2. stage' = stage \/ stage' = [stage EXCEPT ![u] = stage'[u]]
        <5>1. CASE SetConfig(u) \/ SetState(u) \/ NextRouter(u)
          BY <5>1 DEF SetConfig, SetState, NextRouter, UpdateRouter
        <5>2. CASE ~(SetConfig(u) \/ SetState(u) \/ NextRouter(u))
          BY <3>4, <5>2 DEF Step, ReadFile, GetConfig, WaitHealth,
             Swap, StopOld, PersistConfig, Truncate, Write, Respond, Cancel
        <5> QED BY <5>1, <5>2
      <4> QED BY <4>1, <4>2
    <3>5. ASSUME NEW r \in RouterId, NEW n \in Name, NEW v \in Verdict, HealthReport(r, n, v)
          PROVE  stage' = stage
      BY <3>5 DEF HealthReport
    <3> QED BY <2>3, <3>2, <3>3, <3>4, <3>5 DEF Next
  <2> QED BY <2>1, <2>2, <2>3
<1>2. Spec => [][A]_vars
  BY <1>1, Invariance, PTL DEF Spec
<1> QED BY <1>2 DEF CallsAdvance

-----------------------------------------------------------------------------
(* The file.                                                               *)

\* What persist_config has cloned can be loaded.
CloneInv == \A t \in Task : pc[t] \in {"trunc", "write"} => UniqueNames(cfg[t])

LEMMA CloneStep == IInv /\ CloneInv /\ [Next]_vars => CloneInv'
<1> SUFFICES ASSUME IInv, CloneInv, [Next]_vars,
                    NEW t \in Task, pc'[t] \in {"trunc", "write"}
             PROVE  UniqueNames(cfg'[t])
  BY DEF CloneInv
<1> USE DEF IInv, TypeInv, TypeOK, Goto, lockVars, taskVars, routerVars, procVars, ghostVars
<1>1. CASE pc'[t] # pc[t]
  <2>1. Step(t)
    BY <1>1, PcChanges DEF Forget, Start, HupRecv, Arrive, ConfigPut, SubmitConfig,
       ConfigReload, BackendState, ConfigGet, Cancel, Task
  <2>2. PersistConfig(t) \/ Truncate(t)
    <3>1. CASE SetConfig(t) \/ SetState(t) \/ NextRouter(t)
      BY <3>1 DEF SetConfig, SetState, NextRouter, UpdateRouter
    <3>2. CASE ~(SetConfig(t) \/ SetState(t) \/ NextRouter(t))
      BY <2>1, <3>2 DEF Step, ReadFile, SubmitConfig, GetConfig, WaitHealth, Swap, StopOld,
         Write, Respond
    <3> QED BY <3>1, <3>2
  <2> QED BY <2>2 DEF PersistConfig, Truncate, ApplyInv, CloneInv
<1>2. CASE pc'[t] = pc[t]
  <2>1. cfg'[t] = cfg[t]
    <3>1. ~Forget
      BY DEF Forget
    <3>2. CASE Start \/ Sighup \/ HupRecv \/ Crash \/ EditFile \/ UNCHANGED vars
      BY <3>1, <3>2 DEF Start, Sighup, HupRecv, Crash, EditFile, vars
    <3>3. ASSUME NEW u \in Task, Arrive(u) \/ ReadFile(u) \/ PersistConfig(u) \/ Respond(u)
                                 \/ Cancel(u)
          PROVE  cfg'[t] = cfg[t]
      BY <1>2, <3>3 DEF Arrive, ConfigPut, SubmitConfig, ConfigReload, BackendState,
         ConfigGet, Idle, ReadFile, PersistConfig, Respond, Cancel
    <3>4. ASSUME NEW u \in Task,
                 Step(u), ~(ReadFile(u) \/ PersistConfig(u) \/ Respond(u))
          PROVE  cfg' = cfg
      BY <3>4 DEF Step, SetConfig, SetState, GetConfig, WaitHealth, Swap, StopOld,
         NextRouter, Truncate, Write
    <3>5. ASSUME NEW r \in RouterId, NEW n \in Name, NEW v \in Verdict, HealthReport(r, n, v)
          PROVE  cfg' = cfg
      BY <3>5 DEF HealthReport
    <3> QED BY <3>2, <3>3, <3>4, <3>5 DEF Next
  <2> QED BY <1>2, <2>1 DEF CloneInv
<1> QED BY <1>1, <1>2

\* What a put writes, set_config accepts when the file is read again - unless
\* the puts of two clients have mixed in it.
WritesLoad ==
  [][\A t \in Task : pc[t] = "write" /\ pc'[t] = "ok" =>
       disk' = Garbage \/ (disk' \in Config /\ UniqueNames(disk'))]_vars

\* A write that has completed never keeps the next start from loading the file
\* (backend.rs:290, 312-320), except when somebody else wrote in between.
THEOREM WrittenFilesLoad == Spec => WritesLoad
<1> DEFINE A == \A t \in Task : pc[t] = "write" /\ pc'[t] = "ok" =>
                  disk' = Garbage \/ (disk' \in Config /\ UniqueNames(disk'))
<1>1. IInv /\ CloneInv /\ [Next]_vars => [A]_vars
  <2> SUFFICES ASSUME IInv, CloneInv, [Next]_vars,
                      NEW t \in Task, pc[t] = "write", pc'[t] = "ok"
               PROVE  disk' = Garbage \/ (disk' \in Config /\ UniqueNames(disk'))
    OBVIOUS
  <2> USE DEF IInv, TypeInv, TypeOK, Goto
  <2>1. Write(t)
    BY PcChanges DEF Forget, Start, HupRecv, Arrive, ConfigPut, ConfigReload, BackendState,
       ConfigGet, Idle, Cancel, Step, ReadFile, SetConfig, SetState, GetConfig, WaitHealth,
       Swap, StopOld, NextRouter, PersistConfig, Truncate, Respond
  <2>2. disk' \in {cfg[t], Garbage}
    BY <2>1 DEF Write
  <2> QED BY <2>2 DEF PayloadOK, CloneInv
<1>2. Init => CloneInv
  BY DEF Init, CloneInv
<1>3. Spec => [][A]_vars
  BY <1>1, <1>2, CloneStep, Invariance, PTL DEF Spec
<1> QED BY <1>3 DEF WritesLoad
-----------------------------------------------------------------------------
(* What callers read.                                                      *)

\* The configuration that is read, to answer /config/get or to be written to
\* the file, is one whose routers serve, not one that is being applied.
ReadsSeeWhatIsServed ==
  [][\A t \in Task :
       \/ pc[t] = "lock" /\ pc'[t] = "ok"
       \/ pc[t] = "relock" /\ pc'[t] = "trunc"
       => torn \/ \A s \in Slot : MembersOf(slot[s]) = Enabled(config, s)]_vars

\* Reading takes the lock, which apply keeps to its end (backend.rs:240, 309,
\* 314): nobody is told or persists a configuration ahead of the routers.
THEOREM ReadersWaitForApply == Spec => ReadsSeeWhatIsServed
<1> DEFINE A == \A t \in Task :
                  \/ pc[t] = "lock" /\ pc'[t] = "ok"
                  \/ pc[t] = "relock" /\ pc'[t] = "trunc"
                  => torn \/ \A s \in Slot : MembersOf(slot[s]) = Enabled(config, s)
<1>1. IInv /\ [Next]_vars => [A]_vars
  <2> SUFFICES ASSUME IInv, [Next]_vars, NEW t \in Task, ~torn,
                      \/ pc[t] = "lock" /\ pc'[t] = "ok"
                      \/ pc[t] = "relock" /\ pc'[t] = "trunc"
               PROVE  \A s \in Slot : MembersOf(slot[s]) = Enabled(config, s)
    OBVIOUS
  <2> USE DEF IInv, TypeInv, TypeOK, Goto
  <2>1. GetConfig(t) \/ PersistConfig(t)
    <3>1. Step(t)
      BY PcChanges DEF Forget, Start, HupRecv, Arrive, ConfigPut, ConfigReload,
         BackendState, ConfigGet, Idle, Cancel, Task
    <3>2. CASE SetConfig(t) \/ SetState(t) \/ NextRouter(t)
      BY <3>2 DEF SetConfig, SetState, NextRouter, UpdateRouter
    <3>3. CASE ~(SetConfig(t) \/ SetState(t) \/ NextRouter(t))
      BY <3>1, <3>3 DEF Step, ReadFile, WaitHealth, Swap, StopOld, Truncate, Write, Respond
    <3> QED BY <3>2, <3>3
  <2>2. Holds(t) /\ pc[t] \notin Applying
    BY <2>1 DEF GetConfig, PersistConfig, Applying
  <2>3. AtRest
    BY <2>2 DEF Mutex, Holds, AtRest
  <2> QED BY <2>3 DEF ApplyInv, MatchInv, Serves, Slot
<1>2. Spec => [][A]_vars
  BY <1>1, Invariance, PTL DEF Spec
<1> QED BY <1>2 DEF ReadsSeeWhatIsServed
=============================================================================
