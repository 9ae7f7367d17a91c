------------------------- MODULE BoundedAgentProofs -------------------------
(***************************************************************************)
(* Theorems about BoundedAgent for every value of its constants: any set   *)
(* of tasks, workers and heartbeats, any dependencies, bounds and faults.  *)
(* First the types, as an inductive invariant of the whole specification;  *)
(* then, on top of them, the two properties that say what is never run.    *)
(***************************************************************************)
EXTENDS BoundedAgent, SequenceTheorems, TLAPS

TypeInv == TypeOK /\ BusyHasTask

-----------------------------------------------------------------------------
(***************************************************************************)
(* Lemmas on the helpers the actions are built from.                       *)
(***************************************************************************)

\* A step that leaves the variables of a part alone keeps their types.
LEMMA Frames ==
  /\ EnvTypes /\ UNCHANGED <<envVars, crashes>> => EnvTypes'
  /\ StoreTypes /\ UNCHANGED storeVars => StoreTypes'
  /\ MemoryTypes /\ UNCHANGED <<up, restoring, taskTables, askVars>> => MemoryTypes'
  /\ CallTypes /\ UNCHANGED callVars => CallTypes'
  /\ AgentTypes /\ UNCHANGED agentVars => AgentTypes'
  /\ BusyHasTask /\ UNCHANGED agentVars => BusyHasTask'
  BY DEF EnvTypes, StoreTypes, MemoryTypes, CallTypes, AgentTypes, BusyHasTask,
         envVars, storeVars, taskTables, askVars, callVars, agentVars, passVars

\* The key of a task is one of the keys.
LEMMA KeyInKeys == \A t \in Tasks : Key[t] \in Keys
  BY DEF Keys

\* Take: the head of the lane is a task, and what is left is a lane.
LEMMA QueueTasks ==
  ASSUME MemoryTypes, queue # <<>>
  PROVE  Head(queue) \in Tasks /\ Tail(queue) \in Seq(Tasks)
  BY DEF MemoryTypes

\* A busy worker has a task in hand.
LEMMA BusyTask ==
  ASSUME BusyHasTask, NEW w \in Workers, pc[w] \in Busy
  PROVE  cur[w] \in Tasks
  BY DEF BusyHasTask

\* A step that holds or releases may count an exception.
LEMMA RaiseCounted == EnvTypes /\ CountRaise /\ UNCHANGED crashes => EnvTypes'
  BY DEF EnvTypes, CountRaise

\* store.save leaves a well-typed row.
LEMMA SaveKeepsTypes ==
  ASSUME StoreTypes, NEW t \in Tasks, NEW s \in Stage, Save(t, s),
         UNCHANGED <<receipts, finished>>, count' \in [Tasks -> Counters]
  PROVE  StoreTypes'
  BY DEF StoreTypes, Save

\* The counters of a task stay natural numbers when one of them is raised.
LEMMA CountersGrow ==
  ASSUME StoreTypes, NEW w \in Workers, cur[w] \in Tasks
  PROVE  /\ [count EXCEPT ![cur[w]].attempt = @ + 1] \in [Tasks -> Counters]
         /\ [count EXCEPT ![cur[w]] = Counted(w)] \in [Tasks -> Counters]
<1>1. count \in [Tasks -> Counters]
  BY DEF StoreTypes
<1>2. Counted(w) \in Counters
  BY <1>1 DEF Counted, Counters
<1>3. [count[cur[w]] EXCEPT !.attempt = @ + 1] \in Counters
  BY <1>1 DEF Counters
<1>. QED
  BY <1>1, <1>2, <1>3

\* A worker goes to another label, keeping its task, or lets go of it.
LEMMA WorkerGoes ==
  ASSUME AgentTypes, BusyHasTask, NEW w \in Workers, NEW l \in Labels,
         Goto(w, l), l # "aware", outcome' \in [Workers -> Verdict], UNCHANGED passVars,
         \/ UNCHANGED cur /\ (l \in Busy => cur[w] \in Tasks)
         \/ l \notin Busy /\ cur' = [cur EXCEPT ![w] = NoTask]
  PROVE  AgentTypes' /\ BusyHasTask'
<1>1. w \in Agents /\ Workers \subseteq Agents
  BY DEF Agents
<1>2. pc' \in [Agents -> Labels] /\ cur' \in [Workers -> Tasks \cup {NoTask}]
  BY <1>1 DEF AgentTypes, Goto
<1>3. AgentTypes'
  BY <1>2 DEF AgentTypes, passVars
<1>4. ASSUME NEW v \in Workers
      PROVE  /\ pc'[v] \in Busy => cur'[v] \in Tasks
             /\ pc'[v] = "aware" => noted'[v] \in Tasks
  BY <1>1, <1>4 DEF AgentTypes, BusyHasTask, Goto, passVars
<1>. QED
  BY <1>3, <1>4 DEF BusyHasTask

\* A worker holds a task and goes on to record that.
LEMMA WorkerHolds ==
  ASSUME AgentTypes, BusyHasTask, NEW w \in Workers, NEW t \in Tasks, NEW s,
         HoldForPause(w, t, s), UNCHANGED outcome
  PROVE  AgentTypes' /\ BusyHasTask'
<1>1. w \in Agents /\ Workers \subseteq Agents /\ "aware" \in Labels /\ "aware" \notin Busy
  BY DEF Agents, Labels, Busy
<1>2. AgentTypes'
  BY <1>1 DEF AgentTypes, HoldForPause, Goto
<1>3. ASSUME NEW v \in Workers
      PROVE  /\ pc'[v] \in Busy => cur'[v] \in Tasks
             /\ pc'[v] = "aware" => noted'[v] \in Tasks
  BY <1>1, <1>3 DEF AgentTypes, BusyHasTask, HoldForPause, Goto
<1>. QED
  BY <1>2, <1>3 DEF BusyHasTask

\* It is done with that, or treats the task as failed.
LEMMA WorkerNoted ==
  ASSUME AgentTypes, BusyHasTask, NEW w \in Workers, pc[w] = "aware",
         noted' = [noted EXCEPT ![w] = NoTask],
         UNCHANGED <<outcome, todo, released, resolves>>,
         \/ Goto(w, "idle") /\ UNCHANGED cur
         \/ Goto(w, "except") /\ cur' = [cur EXCEPT ![w] = noted[w]]
  PROVE  AgentTypes' /\ BusyHasTask'
<1>1. /\ w \in Agents /\ Workers \subseteq Agents /\ {"idle", "except"} \subseteq Labels
      /\ "idle" \notin Busy /\ noted[w] \in Tasks
  BY DEF Agents, Labels, Busy, BusyHasTask
<1>2. AgentTypes'
  BY <1>1 DEF AgentTypes, Goto
<1>3. ASSUME NEW v \in Workers
      PROVE  /\ pc'[v] \in Busy => cur'[v] \in Tasks
             /\ pc'[v] = "aware" => noted'[v] \in Tasks
  BY <1>1, <1>3 DEF AgentTypes, BusyHasTask, Goto
<1>. QED
  BY <1>2, <1>3 DEF BusyHasTask

\* _try_release_held begins with a snapshot of the held table.
LEMMA PassBegins ==
  ASSUME AgentTypes, BusyHasTask, held \subseteq Tasks, NEW a \in Agents,
         NEW set \in SUBSET Tasks, StartPass(a, set), UNCHANGED <<cur, outcome>>,
         a \in Workers => cur[a] \in Tasks
  PROVE  AgentTypes' /\ BusyHasTask'
<1>1. Workers \subseteq Agents /\ "release" \in Labels
  BY DEF Agents, Labels, Busy
<1>2. pc' \in [Agents -> Labels]
  BY <1>1 DEF AgentTypes, StartPass, Goto
<1>3. AgentTypes'
  BY <1>2 DEF AgentTypes, StartPass
<1>4. ASSUME NEW v \in Workers
      PROVE  /\ pc'[v] \in Busy => cur'[v] \in Tasks
             /\ pc'[v] = "aware" => noted'[v] \in Tasks
  BY <1>1, <1>4 DEF AgentTypes, BusyHasTask, StartPass, Goto
<1>. QED
  BY <1>3, <1>4 DEF BusyHasTask

\* A pass ends: a worker lets go of its task or goes to its handler.
LEMMA PassCloses ==
  ASSUME AgentTypes, BusyHasTask, NEW a \in Agents, NEW l \in Labels,
         Goto(a, l), l # "aware", ClearPass(a), UNCHANGED outcome,
         \/ UNCHANGED cur /\ (a \in Workers /\ l \in Busy => cur[a] \in Tasks)
         \/ l \notin Busy /\ cur' = [cur EXCEPT ![a] = NoTask]
  PROVE  AgentTypes' /\ BusyHasTask'
<1>1. Workers \subseteq Agents
  BY DEF Agents
<1>2. pc' \in [Agents -> Labels] /\ cur' \in [Workers -> Tasks \cup {NoTask}]
  BY <1>1 DEF AgentTypes, Goto
<1>3. AgentTypes'
  BY <1>2 DEF AgentTypes, ClearPass
<1>4. ASSUME NEW v \in Workers
      PROVE  /\ pc'[v] \in Busy => cur'[v] \in Tasks
             /\ pc'[v] = "aware" => noted'[v] \in Tasks
  BY <1>1, <1>4 DEF AgentTypes, BusyHasTask, Goto, ClearPass
<1>. QED
  BY <1>3, <1>4 DEF BusyHasTask

\* The tables a result is published in keep their types.
LEMMA PublishKeepsTypes ==
  ASSUME MemoryTypes, AgentTypes, NEW w \in Workers, cur[w] \in Tasks,
         PublishTables(w), UNCHANGED <<bootVars, taskTables>>
  PROVE  MemoryTypes' /\ Awaiting(cur[w]) \subseteq Tasks
<1>1. outcome[w] \in Verdict /\ Key[cur[w]] \in Keys
  BY KeyInKeys DEF AgentTypes
<1>2. results' \in [Tasks -> Verdict \cup {"none"}]
  BY <1>1 DEF MemoryTypes, PublishTables
<1>3. recent' \in [Keys -> Verdict \cup {"none"}]
  BY <1>1 DEF MemoryTypes, PublishTables
<1>4. futures' \subseteq Tasks /\ aliases' \subseteq Tasks \X Tasks
  BY DEF MemoryTypes, PublishTables
<1>. QED
  BY <1>2, <1>3, <1>4 DEF MemoryTypes, bootVars, taskTables, Awaiting

\* Resolving futures keeps the type of their values.
LEMMA ResolvedTypes ==
  ASSUME CallTypes, NEW set, NEW v \in Verdict
  PROVE  Resolved(set, v) \in [Tasks -> Verdict \cup {"none", "pending"}]
  BY DEF CallTypes, Resolved

-----------------------------------------------------------------------------
(***************************************************************************)
(* Type correctness.                                                       *)
(***************************************************************************)

\* Every action of submit keeps the types.
LEMMA SubmitTypes ==
  ASSUME TypeInv, NEW t \in Tasks,
         \/ SubmitLiveDuplicate(t) \/ SubmitRecentDuplicate(t) \/ SubmitFresh(t)
         \/ SubmitOnward(t)
  PROVE  TypeInv'
<1>0. EnvTypes /\ StoreTypes /\ MemoryTypes /\ CallTypes /\ AgentTypes /\ BusyHasTask
  BY DEF TypeInv, TypeOK
<1>. USE <1>0 DEF envVars, storeVars, bootVars, taskTables, askVars, callVars
<1>1. EnvTypes' /\ AgentTypes' /\ BusyHasTask'
  BY Frames DEF SubmitLiveDuplicate, SubmitRecentDuplicate, SubmitFresh,
     SubmitOnward, SubmitCheckDependencies, SubmitHold, SubmitAware, SubmitEnqueue
<1>2. ASSUME SubmitLiveDuplicate(t)
      PROVE  StoreTypes' /\ MemoryTypes' /\ CallTypes'
  <2>1. PICK e \in LiveDuplicates(t) :
          IF e \in futures
          THEN waits' = [waits EXCEPT ![t] = e] /\ UNCHANGED <<aliases, fut>>
          ELSE /\ waits' = [waits EXCEPT ![t] = t]
               /\ fut' = [fut EXCEPT ![t] = "pending"]
               /\ aliases' = aliases \cup {<<t, e>>}
    BY <1>2 DEF SubmitLiveDuplicate
  <2>2. e \in Tasks
    BY <2>1 DEF LiveDuplicates, MemoryTypes
  <2>3. StoreTypes'
    BY <1>2, Frames DEF SubmitLiveDuplicate
  <2>4. aliases' \subseteq Tasks \X Tasks
    BY <2>1, <2>2 DEF MemoryTypes
  <2>5. MemoryTypes'
    BY <1>2, <2>4 DEF SubmitLiveDuplicate, MemoryTypes
  <2>6. CallTypes'
    BY <1>2, <2>1, <2>2 DEF SubmitLiveDuplicate, CallTypes
  <2>. QED
    BY <2>3, <2>5, <2>6
<1>3. ASSUME SubmitRecentDuplicate(t)
      PROVE  StoreTypes' /\ MemoryTypes' /\ CallTypes'
  <2>1. recent[Key[t]] \in Verdict
    BY <1>3, KeyInKeys DEF SubmitRecentDuplicate, MemoryTypes
  <2>2. CallTypes'
    BY <1>3, <2>1 DEF SubmitRecentDuplicate, CallTypes
  <2>. QED
    BY <1>3, <2>2, Frames DEF SubmitRecentDuplicate
<1>4. ASSUME SubmitFresh(t)
      PROVE  StoreTypes' /\ MemoryTypes' /\ CallTypes'
  <2>1. StoreTypes'
    <3>1. CASE GuardHolds(t) \/ PauseHolds(t)
      BY <1>4, <3>1, SaveKeepsTypes DEF SubmitFresh, StoreTypes, Stage
    <3>2. CASE ~(GuardHolds(t) \/ PauseHolds(t))
      BY <1>4, <3>2, Frames DEF SubmitFresh
    <3>. QED
      BY <3>1, <3>2
  <2>2. MemoryTypes'
    BY <1>4 DEF SubmitFresh, MemoryTypes, Hold
  <2>3. sub' \in [Tasks -> {"idle", "checking", "hold", "enqueue", "aware", "done"}]
    BY <1>4 DEF SubmitFresh, CallTypes
  <2>4. CallTypes'
    BY <1>4, <2>3 DEF SubmitFresh, CallTypes
  <2>. QED
    BY <2>1, <2>2, <2>4
<1>5. ASSUME SubmitCheckDependencies(t)
      PROVE  StoreTypes' /\ MemoryTypes' /\ CallTypes'
  BY <1>5, Frames DEF SubmitCheckDependencies, CallTypes
<1>6. ASSUME SubmitHold(t) \/ SubmitEnqueue(t)
      PROVE  StoreTypes' /\ MemoryTypes' /\ CallTypes'
  <2>1. StoreTypes'
    BY <1>6, SaveKeepsTypes DEF SubmitHold, SubmitEnqueue, StoreTypes, Stage
  <2>2. MemoryTypes'
    <3>1. CASE SubmitHold(t)
      BY <3>1 DEF SubmitHold, Hold, MemoryTypes
    <3>2. CASE SubmitEnqueue(t)
      BY <3>2 DEF SubmitEnqueue, Enqueue, MemoryTypes
    <3>. QED
      BY <1>6, <3>1, <3>2
  <2>3. CallTypes'
    BY <1>6 DEF SubmitHold, SubmitEnqueue, CallTypes
  <2>. QED
    BY <2>1, <2>2, <2>3
<1>7. ASSUME SubmitAware(t)
      PROVE  StoreTypes' /\ MemoryTypes' /\ CallTypes'
  <2>1. StoreTypes'
    BY <1>7, SaveKeepsTypes DEF SubmitAware, StoreTypes
  <2>2. CallTypes'
    BY <1>7 DEF SubmitAware, CallTypes
  <2>. QED
    BY <1>7, <2>1, <2>2, Frames DEF SubmitAware
<1>. QED
  BY <1>1, <1>2, <1>3, <1>4, <1>5, <1>6, <1>7 DEF SubmitOnward, TypeInv, TypeOK

\* So does every action of a worker, up to the release pass.
LEMMA WorkerTypes ==
  ASSUME TypeInv, NEW w \in Workers, WorkerStep(w)
  PROVE  TypeInv'
<1>0. EnvTypes /\ StoreTypes /\ MemoryTypes /\ CallTypes /\ AgentTypes /\ BusyHasTask
  BY DEF TypeInv, TypeOK
<1>. USE <1>0 DEF envVars, storeVars, bootVars, taskTables, askVars, callVars
<1>1. ASSUME TakeAndHold(w)
      PROVE  TypeInv'
  <2>1. MemoryTypes' /\ Head(queue) \in Tasks
    BY <1>1, QueueTasks DEF TakeAndHold, HoldForPause, MemoryTypes
  <2>2. StoreTypes'
    BY <1>1, <2>1, SaveKeepsTypes DEF TakeAndHold, HoldForPause, StoreTypes
  <2>3. AgentTypes' /\ BusyHasTask'
    BY <1>1, <2>1, WorkerHolds DEF TakeAndHold
  <2>. QED
    BY <1>1, <2>1, <2>2, <2>3, Frames DEF TakeAndHold, TypeInv, TypeOK
<1>2. ASSUME Take(w)
      PROVE  TypeInv'
  <2>1. MemoryTypes' /\ Head(queue) \in Tasks
    BY <1>2, QueueTasks DEF Take, MemoryTypes
  <2>2. pc' \in [Agents -> Labels] /\ Workers \subseteq Agents
    BY <1>2 DEF Take, Goto, AgentTypes, Agents, Labels, Busy
  <2>3. AgentTypes'
    BY <1>2, <2>1, <2>2 DEF Take, AgentTypes, passVars
  <2>4. BusyHasTask'
    BY <1>2, <2>1, <2>2 DEF Take, Goto, AgentTypes, BusyHasTask, passVars
  <2>. QED
    BY <1>2, <2>1, <2>3, <2>4, Frames DEF Take, TypeInv, TypeOK
<1>3. ASSUME pc[w] \in Busy, Plan(w) \/ Begin(w)
      PROVE  TypeInv'
  <2>1. cur[w] \in Tasks
    BY <1>3, BusyTask
  <2>2. count' \in [Tasks -> Counters]
    BY <1>3, <2>1, CountersGrow DEF Plan, Begin, StoreTypes
  <2>3. StoreTypes'
    BY <1>3, <2>1, <2>2, SaveKeepsTypes DEF Plan, Begin, Stage
  <2>4. outcome' \in [Workers -> Verdict] /\ UNCHANGED passVars
    BY <1>3 DEF Plan, Begin, AgentTypes
  <2>5. AgentTypes' /\ BusyHasTask'
    <3>1. CASE cur[w] \in held
      <4>1. Goto(w, "idle") /\ cur' = [cur EXCEPT ![w] = NoTask]
        BY <1>3, <3>1 DEF Plan, Begin, Drop
      <4>2. "idle" \in Labels /\ "idle" \notin Busy
        BY DEF Labels, Busy
      <4>. QED
        BY <2>4, <4>1, <4>2, WorkerGoes
    <3>2. CASE cur[w] \notin held
      <4>1. UNCHANGED cur /\ (Goto(w, "execute") \/ Goto(w, "run"))
        BY <1>3, <3>2 DEF Plan, Begin
      <4>2. {"execute", "run"} \subseteq Labels
        BY DEF Labels, Busy
      <4>. QED
        BY <2>1, <2>4, <4>1, <4>2, WorkerGoes
    <3>. QED
      BY <3>1, <3>2
  <2>. QED
    BY <1>3, <2>3, <2>5, Frames DEF Plan, Begin, TypeInv, TypeOK
<1>4. ASSUME pc[w] \in Busy, NEW l \in Busy, Goto(w, l), UNCHANGED <<cur, passVars>>,
             Refused(w) \/ Raise(w)
      PROVE  TypeInv'
  <2>1. AgentTypes' /\ BusyHasTask'
    BY <1>4, BusyTask, WorkerGoes DEF Refused, Raise, Labels, Busy, AgentTypes
  <2>. QED
    BY <1>4, <2>1, Frames DEF Refused, Raise, TypeInv, TypeOK
<1>5. ASSUME NEW s \in Stage, NEW l \in Busy, NEW v \in Verdict, RunEnd(w, s, l, v)
      PROVE  TypeInv'
  <2>1. cur[w] \in Tasks
    BY <1>5, BusyTask DEF RunEnd, Busy
  <2>2. StoreTypes'
    BY <1>5, <2>1, SaveKeepsTypes DEF RunEnd, StoreTypes
  <2>3. outcome' \in [Workers -> Verdict]
    BY <1>5 DEF RunEnd, AgentTypes
  <2>4. AgentTypes' /\ BusyHasTask'
    BY <1>5, <2>1, <2>3, WorkerGoes DEF RunEnd, Labels, Busy
  <2>. QED
    BY <1>5, <2>2, <2>4, Frames DEF RunEnd, TypeInv, TypeOK
<1>6. ASSUME Exhaust(w)
      PROVE  TypeInv'
  <2>1. cur[w] \in Tasks /\ "failed" \in Stage /\ "terminal" \in Labels
    BY <1>6, BusyTask DEF Exhaust, Busy, Labels, Stage
  <2>2. StoreTypes'
    BY <1>6, <2>1, CountersGrow, SaveKeepsTypes DEF Exhaust
  <2>3. outcome' \in [Workers -> Verdict]
    BY <1>6 DEF Exhaust, AgentTypes, Verdict
  <2>4. AgentTypes' /\ BusyHasTask'
    BY <1>6, <2>1, <2>3, WorkerGoes DEF Exhaust
  <2>. QED
    BY <1>6, <2>2, <2>4, Frames DEF Exhaust, TypeInv, TypeOK
<1>7. ASSUME Requeue(w)
      PROVE  TypeInv'
  <2>1. cur[w] \in Tasks /\ "queued" \in Stage /\ w \in Agents
    BY <1>7, BusyTask DEF Requeue, Busy, Stage, Agents
  <2>2. StoreTypes'
    <3>1. Save(cur[w], "queued") /\ UNCHANGED <<receipts, finished>>
      BY <1>7 DEF Requeue, HoldForPause
    <3>. QED
      BY <1>7, <2>1, <3>1, CountersGrow, SaveKeepsTypes DEF Requeue
  <2>3. MemoryTypes'
    <3>1. queue' \in Seq(Tasks) /\ held' \subseteq Tasks /\ live' \subseteq Tasks
      BY <1>7, <2>1, SMTT(30) DEF Requeue, HoldForPause, MemoryTypes
    <3>. QED
      BY <1>7, <3>1 DEF Requeue, MemoryTypes
  <2>4. AgentTypes' /\ BusyHasTask'
    <3>1. CASE PauseHolds(cur[w])
      BY <1>7, <2>1, <3>1, WorkerHolds DEF Requeue
    <3>2. CASE ~PauseHolds(cur[w])
      BY <1>7, <2>1, <3>2, PassBegins DEF Requeue, MemoryTypes
    <3>. QED
      BY <3>1, <3>2
  <2>. QED
    BY <1>7, <2>2, <2>3, <2>4, Frames DEF Requeue, TypeInv, TypeOK
<1>8. ASSUME Retire(w)
      PROVE  TypeInv'
  <2>1. cur[w] \in Tasks /\ Target(w) \in Stage
    BY <1>8, BusyTask DEF Retire, Busy, Target, Stage
  <2>2. StoreTypes'
    <3>1. CASE Save(cur[w], Target(w))
      BY <1>8, <2>1, <3>1, SaveKeepsTypes DEF Retire, StoreTypes
    <3>2. CASE UNCHANGED <<stage, stored>>
      BY <1>8, <3>2, Frames DEF Retire
    <3>. QED
      BY <1>8, <3>1, <3>2 DEF Retire
  <2>3. MemoryTypes'
    BY <1>8 DEF Retire, MemoryTypes
  <2>4. AgentTypes' /\ BusyHasTask'
    <3>1. PICK l \in {"record", "except"} : Goto(w, l)
      BY <1>8 DEF Retire
    <3>2. l \in Labels /\ outcome' \in [Workers -> Verdict]
      BY <1>8 DEF Labels, Busy, Retire, AgentTypes
    <3>. QED
      BY <1>8, <2>1, <3>1, <3>2, WorkerGoes DEF Retire
  <2>. QED
    BY <1>8, <2>2, <2>3, <2>4, Frames DEF Retire, TypeInv, TypeOK
<1>9. ASSUME Record(w) \/ Receipt(w)
      PROVE  TypeInv'
  <2>1. cur[w] \in Tasks
    BY <1>9, BusyTask DEF Record, Receipt, Busy
  <2>2. outcome[w] \in Verdict /\ UNCHANGED outcome
    BY <1>9 DEF AgentTypes, Record, Receipt
  <2>3. StoreTypes'
    BY <1>9, <2>1, <2>2 DEF Record, Receipt, SaveResult, StoreTypes, Stage
  <2>4. AgentTypes' /\ BusyHasTask'
    <3>1. PICK l \in {"receipt", "xreceipt", "publish", "xpublish"} : Goto(w, l)
      BY <1>9 DEF Record, Receipt
    <3>2. l \in Labels /\ outcome' \in [Workers -> Verdict]
      BY <2>2 DEF Labels, Busy, AgentTypes
    <3>. QED
      BY <1>9, <2>1, <3>1, <3>2, WorkerGoes DEF Record, Receipt
  <2>. QED
    BY <1>9, <2>3, <2>4, Frames DEF Record, Receipt, TypeInv, TypeOK
<1>10. ASSUME Publish(w)
       PROVE  TypeInv'
  <2>1. cur[w] \in Tasks /\ w \in Agents
    BY <1>10, BusyTask DEF Publish, Busy, Agents
  <2>2. MemoryTypes' /\ Awaiting(cur[w]) \subseteq Tasks
    BY <1>10, <2>1, PublishKeepsTypes DEF Publish
  <2>3. AgentTypes' /\ BusyHasTask'
    BY <1>10, <2>1, <2>2, PassBegins DEF Publish, MemoryTypes
  <2>. QED
    BY <1>10, <2>2, <2>3, Frames DEF Publish, TypeInv, TypeOK
<1>11. ASSUME HandleException(w)
       PROVE  TypeInv'
  <2>1. cur[w] \in Tasks /\ "failed" \in Stage /\ "xrecord" \in Labels
    BY <1>11, BusyTask DEF HandleException, Busy, Stage, Labels
  <2>2. StoreTypes'
    BY <1>11, <2>1, SaveKeepsTypes DEF HandleException, StoreTypes
  <2>3. MemoryTypes'
    BY <1>11 DEF HandleException, MemoryTypes
  <2>4. outcome' \in [Workers -> Verdict]
    BY <1>11 DEF HandleException, AgentTypes, Verdict
  <2>5. AgentTypes' /\ BusyHasTask'
    BY <1>11, <2>1, <2>4, WorkerGoes DEF HandleException
  <2>. QED
    BY <1>11, <2>2, <2>3, <2>5, Frames DEF HandleException, TypeInv, TypeOK
<1>12. ASSUME PublishException(w) \/ WorkerDies(w)
       PROVE  TypeInv'
  <2>1. cur[w] \in Tasks
    BY <1>12, BusyTask DEF PublishException, WorkerDies, Busy
  <2>2. MemoryTypes'
    BY <1>12, <2>1, PublishKeepsTypes, Frames DEF PublishException, WorkerDies
  <2>3. CallTypes'
    BY <1>12, ResolvedTypes DEF PublishException, WorkerDies, CallTypes, Verdict
  <2>4. PICK l \in {"idle", "dead"} : Goto(w, l)
    BY <1>12 DEF PublishException, WorkerDies, Drop
  <2>5. AgentTypes' /\ BusyHasTask'
    <3>1. /\ l \in Labels /\ l \notin Busy /\ outcome' \in [Workers -> Verdict]
          /\ cur' = [cur EXCEPT ![w] = NoTask]
      BY <1>12 DEF PublishException, WorkerDies, Drop, Labels, Busy, AgentTypes
    <3>. QED
      BY <1>12, <2>4, <3>1, WorkerGoes DEF PublishException, WorkerDies
  <2>. QED
    BY <1>12, <2>2, <2>3, <2>5, Frames DEF PublishException, WorkerDies, TypeInv, TypeOK
<1>13. ASSUME WorkerAware(w) \/ HoldRaises(w)
       PROVE  TypeInv'
  <2>1. noted[w] \in Tasks
    BY <1>13 DEF WorkerAware, HoldRaises, BusyHasTask
  <2>2. StoreTypes'
    <3>1. CASE WorkerAware(w)
      BY <2>1, <3>1, SaveKeepsTypes DEF WorkerAware, StoreTypes
    <3>2. CASE HoldRaises(w)
      BY <3>2, Frames DEF HoldRaises
    <3>. QED
      BY <1>13, <3>1, <3>2
  <2>3. EnvTypes'
    BY <1>13, RaiseCounted, Frames DEF WorkerAware, HoldRaises
  <2>4. AgentTypes' /\ BusyHasTask'
    BY <1>13, WorkerNoted DEF WorkerAware, HoldRaises
  <2>. QED
    BY <1>13, <2>2, <2>3, <2>4, Frames DEF WorkerAware, HoldRaises, TypeInv, TypeOK
<1>. QED
  <2>1. Plan(w) \/ Begin(w) => pc[w] \in Busy
    BY DEF Plan, Begin, Busy
  <2>2. Refused(w) \/ Raise(w) =>
          pc[w] \in Busy /\ Goto(w, "except") /\ UNCHANGED <<cur, passVars>>
    BY DEF Refused, Raise, Busy
  <2>3. "except" \in Busy /\ {"terminal", "retry", "progress"} \subseteq Busy
    BY DEF Busy
  <2>4. {"done", "failed", "recovering"} \subseteq Stage /\ {"ok", "fail"} \subseteq Verdict
    BY DEF Stage, Verdict
  <2>5. RunDone(w) \/ RunFail(w) \/ RunRetry(w) \/ RunProgress(w) => TypeInv'
    BY <1>5, <2>3, <2>4 DEF RunDone, RunFail, RunRetry, RunProgress
  <2>6. Refused(w) \/ Raise(w) => TypeInv'
    BY <1>4, <2>2, <2>3
  <2>. QED
    BY <1>1, <1>2, <1>3, <1>6, <1>7, <1>8, <1>9, <1>10, <1>11, <1>12, <1>13, <2>1,
       <2>5, <2>6 DEF WorkerStep

\* So does a release pass, whoever runs it.
LEMMA PassTypes ==
  ASSUME TypeInv, NEW a \in Agents,
         PassStep(a) \/ (a \in Heartbeats /\ HeartbeatStart(a))
  PROVE  TypeInv'
<1>0. EnvTypes /\ StoreTypes /\ MemoryTypes /\ CallTypes /\ AgentTypes /\ BusyHasTask
  BY DEF TypeInv, TypeOK
<1>. USE <1>0 DEF envVars, storeVars, bootVars, taskTables, askVars, callVars
<1>1. ASSUME a \in Heartbeats, HeartbeatStart(a)
      PROVE  TypeInv'
  <2>1. a \notin Workers
    BY <1>1, ConstantsAssumption DEF ConstantsAssumption
  <2>2. AgentTypes' /\ BusyHasTask'
    BY <1>1, <2>1, PassBegins DEF HeartbeatStart, MemoryTypes
  <2>. QED
    BY <1>1, <2>2, Frames DEF HeartbeatStart, TypeInv, TypeOK
<1>2. ASSUME NEW t \in Tasks, ExamineHeld(a, t)
      PROVE  TypeInv'
  <2>1. StoreTypes'
    <3>1. CASE Save(t, stage[t])
      BY <1>2, <3>1, SaveKeepsTypes DEF ExamineHeld, StoreTypes
    <3>2. CASE UNCHANGED <<stage, stored>>
      BY <1>2, <3>2, Frames DEF ExamineHeld
    <3>. QED
      BY <1>2, <3>1, <3>2 DEF ExamineHeld
  <2>2. queue' \in Seq(Tasks)
    <3>1. UNCHANGED queue \/ queue' = Append(queue, t)
      BY <1>2 DEF ExamineHeld
    <3>. QED
      BY <3>1 DEF MemoryTypes
  <2>3. MemoryTypes'
    BY <1>2, <2>2 DEF ExamineHeld, MemoryTypes
  <2>4. todo' \in [Agents -> SUBSET Tasks]
    BY <1>2 DEF ExamineHeld, AgentTypes
  <2>5. released' \in [Agents -> SUBSET Tasks]
    <3>1. \/ UNCHANGED released
          \/ released' = [released EXCEPT ![a] = released[a] \cup {t}]
      BY <1>2 DEF ExamineHeld, AgentTypes
    <3>. QED
      BY <3>1 DEF AgentTypes
  <2>6. AgentTypes' /\ BusyHasTask'
    BY <1>2, <2>4, <2>5 DEF ExamineHeld, AgentTypes, BusyHasTask
  <2>. QED
    BY <1>2, <2>1, <2>3, <2>6, Frames DEF ExamineHeld, TypeInv, TypeOK
<1>3. ASSUME EndPass(a)
      PROVE  TypeInv'
  <2>1. MemoryTypes'
    BY <1>3 DEF EndPass, MemoryTypes
  <2>2. CallTypes'
    BY <1>3, ResolvedTypes DEF EndPass, CallTypes, AgentTypes
  <2>3. "idle" \in Labels /\ "idle" \notin Busy
    BY DEF Labels, Busy
  <2>4. AgentTypes' /\ BusyHasTask'
    BY <1>3, <2>3, PassCloses DEF EndPass, Drop
  <2>. QED
    BY <1>3, <2>1, <2>2, <2>4, Frames DEF EndPass, TypeInv, TypeOK
<1>4. ASSUME EndPassKeyError(a)
      PROVE  TypeInv'
  <2>1. MemoryTypes'
    BY <1>4 DEF EndPassKeyError, MemoryTypes
  <2>2. PICK l \in {"idle", "except"} :
          Goto(a, l) /\ (a \notin Workers => l = "idle")
    BY <1>4 DEF EndPassKeyError
  <2>3. l \in Labels /\ (a \in Workers => cur[a] \in Tasks)
    BY <1>4, BusyTask DEF EndPassKeyError, Labels, Busy
  <2>4. AgentTypes' /\ BusyHasTask'
    BY <1>4, <2>2, <2>3, PassCloses DEF EndPassKeyError
  <2>. QED
    BY <1>4, <2>1, <2>4, Frames DEF EndPassKeyError, TypeInv, TypeOK
<1>5. ASSUME PassRaises(a)
      PROVE  TypeInv'
  <2>1. PICK l \in {"idle", "except"} :
          Goto(a, l) /\ (a \notin Workers => l = "idle")
    BY <1>5 DEF PassRaises
  <2>2. l \in Labels /\ (a \in Workers => cur[a] \in Tasks)
    BY <1>5, BusyTask DEF PassRaises, Labels, Busy
  <2>3. AgentTypes' /\ BusyHasTask'
    BY <1>5, <2>1, <2>2, PassCloses DEF PassRaises
  <2>. QED
    BY <1>5, <2>3, RaiseCounted, Frames DEF PassRaises, TypeInv, TypeOK
<1>. QED
  BY <1>1, <1>2, <1>3, <1>4, <1>5 DEF PassStep

\* So do crash, start and the environment.
LEMMA OutsideTypes ==
  ASSUME TypeInv, BootStep \/ Environment
  PROVE  TypeInv'
<1>0. EnvTypes /\ StoreTypes /\ MemoryTypes /\ CallTypes /\ AgentTypes /\ BusyHasTask
  BY DEF TypeInv, TypeOK
<1>. USE <1>0 DEF envVars, storeVars, bootVars, taskTables, askVars, callVars
<1>1. ASSUME Crash
      PROVE  TypeInv'
  <2>1. EnvTypes' /\ StoreTypes'
    BY <1>1 DEF Crash, EnvTypes, StoreTypes
  <2>2. MemoryTypes'
    BY <1>1 DEF Crash, MemoryTypes
  <2>3. CallTypes'
    BY <1>1 DEF Crash, CallTypes
  <2>4. AgentTypes' /\ BusyHasTask'
    BY <1>1 DEF Crash, AgentTypes, BusyHasTask, Labels, Busy, Agents, Verdict
  <2>. QED
    BY <2>1, <2>2, <2>3, <2>4 DEF TypeInv, TypeOK
<1>2. ASSUME Start
      PROVE  TypeInv'
  <2>1. Pending \subseteq Tasks
    BY DEF Pending
  <2>2. recent' \in [Keys -> Verdict \cup {"none"}] /\ restoring' \subseteq Tasks
    BY <1>2, <2>1 DEF Start
  <2>3. MemoryTypes'
    BY <1>2, <2>1, <2>2 DEF Start, MemoryTypes
  <2>. QED
    BY <1>2, <2>3, Frames DEF Start, TypeInv, TypeOK
<1>3. ASSUME NEW t \in Tasks, Restore(t)
      PROVE  TypeInv'
  <2>1. StoreTypes'
    BY <1>3, SaveKeepsTypes DEF Restore, StoreTypes, Stage
  <2>2. queue' \in Seq(Tasks) /\ held' \subseteq Tasks /\ live' \subseteq Tasks
    <3>1. Hold(t) \/ Enqueue(t)
      BY <1>3 DEF Restore
    <3>2. CASE Hold(t)
      BY <3>2 DEF Hold, MemoryTypes
    <3>3. CASE Enqueue(t)
      <4>1. queue' = Append(queue, t) /\ queue \in Seq(Tasks)
        BY <3>3 DEF Enqueue, MemoryTypes
      <4>2. Append(queue, t) \in Seq(Tasks)
        BY <4>1
      <4>. QED
        BY <3>3, <4>1, <4>2 DEF Enqueue, MemoryTypes
    <3>. QED
      BY <3>1, <3>2, <3>3
  <2>3. MemoryTypes'
    BY <1>3, <2>2 DEF Restore, MemoryTypes
  <2>4. CallTypes'
    BY <1>3 DEF Restore, CallTypes
  <2>. QED
    BY <1>3, <2>1, <2>3, <2>4, Frames DEF Restore, TypeInv, TypeOK
<1>4. ASSUME Started
      PROVE  TypeInv'
  BY <1>4, Frames DEF Started, MemoryTypes, TypeInv, TypeOK
<1>5. ASSUME Pause \/ Unpause \/ \E t \in Tasks : Accept(t)
      PROVE  TypeInv'
  <2>1. EnvTypes'
    <3>1. CASE Pause \/ Unpause
      <4>1. paused' \in BOOLEAN
        BY <3>1, Zenon DEF Pause, Unpause
      <4>2. pauses' = pauses + 1 \/ UNCHANGED pauses
        BY <3>1 DEF Pause, Unpause
      <4>3. UNCHANGED <<accepted, raises, crashes>>
        BY <3>1 DEF Pause, Unpause
      <4>. QED
        BY <4>1, <4>2, <4>3 DEF EnvTypes
    <3>2. CASE \E t \in Tasks : Accept(t)
      BY <3>2 DEF Accept, EnvTypes
    <3>. QED
      BY <1>5, <3>1, <3>2
  <2>. QED
    BY <1>5, <2>1, Frames DEF Pause, Unpause, Accept, TypeInv, TypeOK
<1>6. ASSUME NEW t \in Tasks, ResolveHold(t)
      PROVE  TypeInv'
  <2>1. StoreTypes'
    <3>1. (\E s \in Stage : Save(t, s)) \/ UNCHANGED <<stage, stored>>
      BY <1>6 DEF ResolveHold, StoreTypes, Stage
    <3>2. UNCHANGED <<receipts, finished, count>>
      BY <1>6 DEF ResolveHold
    <3>. QED
      BY <3>1, <3>2, SaveKeepsTypes DEF StoreTypes
  <2>2. MemoryTypes'
    <3>1. /\ held' \subseteq held
          /\ (live' = live \cup {t} /\ queue' = Append(queue, t)) \/ UNCHANGED <<live, queue>>
      BY <1>6 DEF ResolveHold
    <3>. QED
      BY <1>6, <3>1 DEF ResolveHold, MemoryTypes
  <2>. QED
    BY <1>6, <2>1, <2>2, Frames DEF ResolveHold, TypeInv, TypeOK
<1>7. ASSUME \E x \in Works : WorkReady(x)
      PROVE  TypeInv'
  BY <1>7, Frames DEF WorkReady, StoreTypes, TypeInv, TypeOK
<1>8. ASSUME NEW k \in Keys, Expire(k)
      PROVE  TypeInv'
  <2>1. MemoryTypes'
    BY <1>8 DEF Expire, MemoryTypes
  <2>. QED
    BY <1>8, <2>1, Frames DEF Expire, TypeInv, TypeOK
<1>. QED
  BY <1>1, <1>2, <1>3, <1>4, <1>5, <1>6, <1>7, <1>8 DEF BootStep, Environment

\* The types hold at the start.
LEMMA InitTypes == Init => TypeInv
<1>. SUFFICES ASSUME Init PROVE TypeInv
  OBVIOUS
<1>1. EnvTypes /\ StoreTypes
  BY DEF Init, EnvTypes, StoreTypes, Stage, Counters
<1>2. MemoryTypes
  BY DEF Init, MemoryTypes
<1>3. CallTypes
  BY DEF Init, CallTypes
<1>4. AgentTypes /\ BusyHasTask
  BY DEF Init, AgentTypes, BusyHasTask, Labels, Busy, Verdict, Agents
<1>. QED
  BY <1>1, <1>2, <1>3, <1>4 DEF TypeInv, TypeOK

\* Type correctness: every variable keeps its type, and a worker that is in
\* the middle of _run_bounded or of its handler always has a task in hand.
THEOREM TypeCorrect == Spec => [](TypeOK /\ BusyHasTask)
<1>1. TypeInv /\ [Next]_vars => TypeInv'
  <2>1. TypeInv /\ Next => TypeInv'
    BY SubmitTypes, WorkerTypes, PassTypes, OutsideTypes DEF Next, Agents
  <2>2. TypeInv /\ UNCHANGED vars => TypeInv'
    BY Frames DEF TypeInv, TypeOK, vars, bootVars
  <2>. QED
    BY <2>1, <2>2
<1>. QED
  BY InitTypes, <1>1, PTL DEF Spec, TypeInv

-----------------------------------------------------------------------------
(***************************************************************************)
(* Nothing runs unchecked.                                                 *)
(***************************************************************************)
SafeInv == /\ QueueCleared /\ WorkerCleared /\ RunCleared
           /\ SubmitCleared /\ ResultKnown /\ PublishKnown

Grows == accepted \subseteq accepted' /\ finished \subseteq finished'

\* No step takes back a commitment or a recorded result, a crash included.
LEMMA StepGrows == [Next]_vars => Grows
<1>. USE DEF Grows, envVars, storeVars
<1>1. ASSUME NEW t \in Tasks,
             \/ SubmitLiveDuplicate(t) \/ SubmitRecentDuplicate(t) \/ SubmitFresh(t)
             \/ SubmitOnward(t)
      PROVE  Grows
  BY <1>1 DEF SubmitLiveDuplicate, SubmitRecentDuplicate, SubmitFresh, SubmitOnward,
     SubmitCheckDependencies, SubmitHold, SubmitAware, SubmitEnqueue
<1>2. ASSUME NEW w \in Workers, WorkerStep(w)
      PROVE  Grows
  BY <1>2 DEF WorkerStep, TakeAndHold, WorkerAware, HoldRaises, CountRaise, Take, Plan,
     Begin, Refused, RunDone, RunFail,
     RunRetry, RunProgress, RunEnd, Raise, Exhaust, Requeue, Retire, Record,
     SaveResult, Receipt, Publish, HandleException, PublishException, WorkerDies
<1>3. ASSUME NEW a \in Agents, PassStep(a) \/ HeartbeatStart(a)
      PROVE  Grows
  BY <1>3 DEF PassStep, ExamineHeld, EndPass, EndPassKeyError, PassRaises, CountRaise,
     HeartbeatStart
<1>4. ASSUME BootStep \/ Environment
      PROVE  Grows
  BY <1>4 DEF BootStep, Start, Restore, Started, Environment, Crash, Pause, Unpause,
     Accept, ResolveHold, WorkReady, Expire
<1>5. ASSUME UNCHANGED vars
      PROVE  Grows
  BY <1>5 DEF vars
<1>. QED
  BY <1>1, <1>2, <1>3, <1>4, <1>5 DEF Next, Agents

\* So a task that passed its checks has passed them for good.
LEMMA ClearedStays ==
  ASSUME Grows, NEW t, Cleared(t)
  PROVE  Cleared(t)'
  BY DEF Grows, Cleared, GuardHolds

\* _dependencies_ready: a result in memory or in the store is a recorded one.
LEMMA ReadyIsCleared ==
  ASSUME ResultKnown, NEW t \in Tasks, ~GuardHolds(t), DependenciesReady(t)
  PROVE  Cleared(t)
<1>1. Deps[t] \subseteq Tasks \cup Works
  BY ConstantsAssumption DEF ConstantsAssumption
<1>. QED
  BY <1>1 DEF Cleared, DependenciesReady, ResultKnown

\* What a step must leave alone for each part of the invariant to stay.
LEMMA SafeFrames ==
  ASSUME Grows
  PROVE  /\ QueueCleared /\ UNCHANGED queue => QueueCleared'
         /\ WorkerCleared /\ UNCHANGED <<cur, noted>> => WorkerCleared'
         /\ RunCleared /\ UNCHANGED count => RunCleared'
         /\ SubmitCleared /\ UNCHANGED sub => SubmitCleared'
         /\ ResultKnown /\ UNCHANGED <<results, stored>> => ResultKnown'
         /\ PublishKnown /\ UNCHANGED <<pc, cur>> => PublishKnown'
<1>. USE ClearedStays DEF Grows
<1>1. QueueCleared /\ UNCHANGED queue => QueueCleared'
  BY DEF QueueCleared
<1>2. WorkerCleared /\ UNCHANGED <<cur, noted>> => WorkerCleared'
  BY DEF WorkerCleared
<1>3. RunCleared /\ UNCHANGED count => RunCleared'
  BY DEF RunCleared
<1>4. SubmitCleared /\ UNCHANGED sub => SubmitCleared'
  BY DEF SubmitCleared, GuardHolds
<1>5. ResultKnown /\ UNCHANGED <<results, stored>> => ResultKnown'
  BY DEF ResultKnown
<1>6. PublishKnown /\ UNCHANGED <<pc, cur>> => PublishKnown'
  BY DEF PublishKnown
<1>. QED
  BY <1>1, <1>2, <1>3, <1>4, <1>5, <1>6

\* A cleared task may be put at the end of the lane.
LEMMA QueueGrows ==
  ASSUME Grows, QueueCleared, queue \in Seq(Tasks), NEW t \in Tasks, Cleared(t),
         queue' = Append(queue, t)
  PROVE  QueueCleared'
<1>1. ASSUME NEW i \in DOMAIN queue', NEW e, e = queue'[i]
      PROVE  Cleared(e)'
  <2>1. e = t \/ \E j \in DOMAIN queue : e = queue[j]
    BY <1>1
  <2>2. Cleared(e)
    BY <2>1 DEF QueueCleared
  <2>. QED
    BY <2>2, ClearedStays
<1>. QED
  BY <1>1 DEF QueueCleared, Cleared, GuardHolds

\* The head of the lane is cleared, and so is what a worker leaves in it.
LEMMA QueueTaken ==
  ASSUME Grows, QueueCleared, queue \in Seq(Tasks), queue # <<>>
  PROVE  Cleared(Head(queue)) /\ (queue' = Tail(queue) => QueueCleared')
<1>1. Cleared(Head(queue))
  <2>1. 1 \in DOMAIN queue /\ Head(queue) = queue[1]
    OBVIOUS
  <2>. QED
    BY <2>1 DEF QueueCleared
<1>2. ASSUME queue' = Tail(queue), NEW i \in DOMAIN queue', NEW e, e = queue'[i]
      PROVE  Cleared(e)'
  <2>1. i + 1 \in DOMAIN queue /\ e = queue[i + 1]
    BY <1>2
  <2>2. Cleared(e)
    BY <2>1 DEF QueueCleared
  <2>. QED
    BY <2>2, ClearedStays
<1>3. queue' = Tail(queue) => QueueCleared'
  BY <1>2 DEF QueueCleared, Cleared, GuardHolds
<1>. QED
  BY <1>1, <1>3

\* A save clears the stored result of one task.
LEMMA SaveKeepsKnown ==
  ASSUME StoreTypes, ResultKnown, Grows, NEW t \in Tasks, NEW s, Save(t, s),
         UNCHANGED results
  PROVE  ResultKnown'
  BY DEF StoreTypes, ResultKnown, Grows, Save

\* submit queues a task only after its checks, however stale they are by then.
LEMMA SubmitSafe ==
  ASSUME TypeInv, SafeInv, Grows, NEW t \in Tasks,
         \/ SubmitLiveDuplicate(t) \/ SubmitRecentDuplicate(t) \/ SubmitFresh(t)
         \/ SubmitOnward(t)
  PROVE  SafeInv'
<1>0. StoreTypes /\ MemoryTypes /\ CallTypes
  BY DEF TypeInv, TypeOK
<1>. USE <1>0 DEF SafeInv, envVars, storeVars, bootVars, taskTables, askVars,
         callVars, agentVars, passVars
<1>1. WorkerCleared' /\ RunCleared' /\ PublishKnown'
  BY SafeFrames DEF SubmitLiveDuplicate, SubmitRecentDuplicate, SubmitFresh,
     SubmitOnward, SubmitCheckDependencies, SubmitHold, SubmitAware, SubmitEnqueue
<1>2. ASSUME SubmitLiveDuplicate(t) \/ SubmitRecentDuplicate(t)
      PROVE  QueueCleared' /\ SubmitCleared' /\ ResultKnown'
  <2>1. QueueCleared' /\ ResultKnown'
    BY <1>2, SafeFrames DEF SubmitLiveDuplicate, SubmitRecentDuplicate
  <2>2. sub' = [sub EXCEPT ![t] = "done"]
    BY <1>2 DEF SubmitLiveDuplicate, SubmitRecentDuplicate
  <2>3. SubmitCleared'
    BY <2>2, ClearedStays DEF SubmitCleared, CallTypes, Grows, GuardHolds
  <2>. QED
    BY <2>1, <2>3
<1>3. ASSUME SubmitFresh(t)
      PROVE  QueueCleared' /\ SubmitCleared' /\ ResultKnown'
  <2>1. QueueCleared'
    BY <1>3, SafeFrames DEF SubmitFresh, Hold
  <2>2. ResultKnown'
    <3>1. CASE GuardHolds(t) \/ PauseHolds(t)
      BY <1>3, <3>1, SaveKeepsKnown DEF SubmitFresh
    <3>2. CASE ~(GuardHolds(t) \/ PauseHolds(t))
      BY <1>3, <3>2, SafeFrames DEF SubmitFresh
    <3>. QED
      BY <3>1, <3>2
  <2>3. \/ sub' = [sub EXCEPT ![t] = "aware"]
        \/ ~GuardHolds(t) /\ sub' = [sub EXCEPT ![t] = "checking"]
    BY <1>3 DEF SubmitFresh
  <2>4. SubmitCleared'
    BY <2>3, ClearedStays DEF SubmitCleared, CallTypes, Grows, GuardHolds
  <2>. QED
    BY <2>1, <2>2, <2>4
<1>4. ASSUME SubmitCheckDependencies(t)
      PROVE  QueueCleared' /\ SubmitCleared' /\ ResultKnown'
  <2>1. QueueCleared' /\ ResultKnown'
    BY <1>4, SafeFrames DEF SubmitCheckDependencies
  <2>2. DependenciesReady(t) => Cleared(t)
    BY <1>4, ReadyIsCleared DEF SubmitCheckDependencies, SubmitCleared
  <2>3. \/ sub' = [sub EXCEPT ![t] = "hold"]
        \/ Cleared(t) /\ sub' = [sub EXCEPT ![t] = "enqueue"]
    BY <1>4, <2>2 DEF SubmitCheckDependencies
  <2>4. SubmitCleared'
    BY <2>3, ClearedStays DEF SubmitCleared, CallTypes, Grows, GuardHolds
  <2>. QED
    BY <2>1, <2>4
<1>5. ASSUME SubmitHold(t) \/ SubmitAware(t) \/ SubmitEnqueue(t)
      PROVE  QueueCleared' /\ SubmitCleared' /\ ResultKnown'
  <2>1. ResultKnown'
    BY <1>5, SaveKeepsKnown DEF SubmitHold, SubmitAware, SubmitEnqueue
  <2>2. QueueCleared'
    <3>1. CASE SubmitHold(t) \/ SubmitAware(t)
      BY <3>1, SafeFrames DEF SubmitHold, SubmitAware, Hold
    <3>2. CASE SubmitEnqueue(t)
      <4>1. Cleared(t) /\ queue' = Append(queue, t)
        BY <3>2 DEF SubmitEnqueue, Enqueue, SubmitCleared
      <4>. QED
        BY <4>1, QueueGrows DEF MemoryTypes
    <3>. QED
      BY <1>5, <3>1, <3>2
  <2>3. sub' = [sub EXCEPT ![t] = "done"] \/ sub' = [sub EXCEPT ![t] = "aware"]
    BY <1>5 DEF SubmitHold, SubmitAware, SubmitEnqueue
  <2>4. SubmitCleared'
    BY <2>3, ClearedStays DEF SubmitCleared, CallTypes, Grows, GuardHolds
  <2>. QED
    BY <2>1, <2>2, <2>4
<1>. QED
  BY <1>1, <1>2, <1>3, <1>4, <1>5 DEF SubmitOnward

\* A worker that moves on keeps its task, or lets go of it.
LEMMA WorkerKeeps ==
  ASSUME AgentTypes, Grows, WorkerCleared, PublishKnown, NEW w \in Workers,
         NEW l \in Labels, Goto(w, l), l \notin Recorded,
         UNCHANGED cur \/ cur' = [cur EXCEPT ![w] = NoTask],
         UNCHANGED noted
  PROVE  WorkerCleared' /\ PublishKnown'
<1>1. NoTask \notin Tasks /\ Workers \subseteq Agents
  BY ConstantsAssumption DEF ConstantsAssumption, Agents
<1>2. WorkerCleared'
  BY <1>1, ClearedStays DEF WorkerCleared, AgentTypes
<1>3. ASSUME NEW v \in Workers, pc'[v] \in Recorded
      PROVE  cur'[v] \in finished'
  <2>1. v # w /\ pc[v] \in Recorded
    BY <1>1, <1>3 DEF AgentTypes, Goto
  <2>2. cur'[v] = cur[v]
    BY <2>1 DEF AgentTypes
  <2>. QED
    BY <2>1, <2>2 DEF PublishKnown, Grows
<1>. QED
  BY <1>2, <1>3 DEF PublishKnown

\* A worker that holds its task keeps it in mind until that is recorded.
LEMMA HoldKeeps ==
  ASSUME AgentTypes, Grows, WorkerCleared, PublishKnown, NEW w \in Workers,
         NEW t \in Tasks, Cleared(t), NEW s, HoldForPause(w, t, s)
  PROVE  WorkerCleared' /\ PublishKnown'
<1>1. /\ NoTask \notin Tasks /\ Workers \subseteq Agents /\ "aware" \notin Recorded
  BY ConstantsAssumption DEF ConstantsAssumption, Agents, Recorded
<1>2. WorkerCleared'
  BY <1>1, ClearedStays DEF WorkerCleared, AgentTypes, HoldForPause
<1>3. ASSUME NEW v \in Workers, pc'[v] \in Recorded
      PROVE  cur'[v] \in finished'
  <2>1. v # w /\ pc[v] \in Recorded
    BY <1>1, <1>3 DEF AgentTypes, HoldForPause, Goto
  <2>2. cur'[v] = cur[v]
    BY <2>1 DEF AgentTypes, HoldForPause
  <2>. QED
    BY <2>1, <2>2 DEF PublishKnown, Grows
<1>. QED
  BY <1>2, <1>3 DEF PublishKnown

\* Then it is done with the task, or treats it as failed.
LEMMA NotedKeeps ==
  ASSUME AgentTypes, BusyHasTask, Grows, WorkerCleared, PublishKnown, NEW w \in Workers,
         pc[w] = "aware", noted' = [noted EXCEPT ![w] = NoTask],
         \/ Goto(w, "idle") /\ UNCHANGED cur
         \/ Goto(w, "except") /\ cur' = [cur EXCEPT ![w] = noted[w]]
  PROVE  WorkerCleared' /\ PublishKnown'
<1>1. /\ NoTask \notin Tasks /\ Workers \subseteq Agents /\ noted[w] \in Tasks
      /\ {"idle", "except"} \cap Recorded = {}
  BY ConstantsAssumption DEF ConstantsAssumption, Agents, Recorded, BusyHasTask
<1>2. WorkerCleared'
  BY <1>1, ClearedStays DEF WorkerCleared, AgentTypes
<1>3. ASSUME NEW v \in Workers, pc'[v] \in Recorded
      PROVE  cur'[v] \in finished'
  <2>1. v # w /\ pc[v] \in Recorded
    BY <1>1, <1>3 DEF AgentTypes, Goto
  <2>2. cur'[v] = cur[v]
    BY <2>1 DEF AgentTypes
  <2>. QED
    BY <2>1, <2>2 DEF PublishKnown, Grows
<1>. QED
  BY <1>2, <1>3 DEF PublishKnown

\* A worker runs only what it took from the lane.
LEMMA WorkerSafe ==
  ASSUME TypeInv, SafeInv, Grows, NEW w \in Workers, WorkerStep(w)
  PROVE  SafeInv'
<1>0. StoreTypes /\ MemoryTypes /\ CallTypes /\ AgentTypes /\ BusyHasTask
  BY DEF TypeInv, TypeOK
<1>. USE <1>0 DEF SafeInv, envVars, storeVars, bootVars, taskTables, askVars,
         callVars, passVars
<1>1. SubmitCleared'
  BY SafeFrames DEF WorkerStep, TakeAndHold, WorkerAware, HoldRaises, Take, Plan, Begin,
     Refused, RunDone,
     RunFail, RunRetry, RunProgress, RunEnd, Raise, Exhaust, Requeue, Retire,
     Record, Receipt, Publish, HandleException, PublishException, WorkerDies
<1>2. ASSUME TakeAndHold(w)
      PROVE  SafeInv'
  <2>1. QueueCleared'
    BY <1>2, QueueTaken DEF TakeAndHold, MemoryTypes
  <2>2. ResultKnown'
    BY <1>2, QueueTasks, SaveKeepsKnown DEF TakeAndHold, HoldForPause
  <2>3. WorkerCleared' /\ PublishKnown'
    <3>1. Head(queue) \in Tasks /\ Cleared(Head(queue))
      BY <1>2, QueueTasks, QueueTaken DEF TakeAndHold, MemoryTypes
    <3>. QED
      BY <1>2, <3>1, HoldKeeps DEF TakeAndHold
  <2>. QED
    BY <1>1, <1>2, <2>1, <2>2, <2>3, SafeFrames DEF TakeAndHold
<1>3. ASSUME Take(w)
      PROVE  SafeInv'
  <2>1. QueueCleared' /\ Cleared(Head(queue))
    BY <1>3, QueueTaken DEF Take, MemoryTypes
  <2>2. WorkerCleared'
    BY <1>3, <2>1, ClearedStays DEF Take, WorkerCleared, AgentTypes
  <2>3. PublishKnown'
    <3>1. "plan" \notin Recorded /\ w \in Agents /\ Workers \subseteq Agents
      BY DEF Recorded, Agents
    <3>. QED
      BY <1>3, <3>1 DEF Take, Goto, PublishKnown, AgentTypes
  <2>. QED
    BY <1>1, <1>3, <2>1, <2>2, <2>3, SafeFrames DEF Take
<1>4. ASSUME Plan(w) \/ Begin(w)
      PROVE  SafeInv'
  <2>1. cur[w] \in Tasks
    BY <1>4, BusyTask DEF Plan, Begin, Busy
  <2>2. QueueCleared'
    BY <1>4, SafeFrames DEF Plan, Begin
  <2>3. ResultKnown'
    BY <1>4, <2>1, SaveKeepsKnown DEF Plan, Begin
  <2>4. RunCleared'
    <3>1. UNCHANGED count \/ count' = [count EXCEPT ![cur[w]].attempt = @ + 1]
      BY <1>4 DEF Plan, Begin
    <3>2. Cleared(cur[w])
      BY <2>1 DEF WorkerCleared
    <3>3. ASSUME NEW t \in Tasks, t # cur[w]
          PROVE  count'[t] = count[t]
      BY <3>1, <3>3 DEF StoreTypes
    <3>. QED
      BY <3>2, <3>3, ClearedStays DEF RunCleared
  <2>5. WorkerCleared' /\ PublishKnown'
    <3>1. PICK l \in {"idle", "execute", "run"} :
            /\ Goto(w, l) /\ (UNCHANGED cur \/ cur' = [cur EXCEPT ![w] = NoTask])
            /\ UNCHANGED noted
      BY <1>4 DEF Plan, Begin, Drop
    <3>2. l \in Labels /\ l \notin Recorded
      BY DEF Labels, Busy, Recorded
    <3>. QED
      BY <3>1, <3>2, WorkerKeeps
  <2>. QED
    BY <1>1, <2>2, <2>3, <2>4, <2>5
<1>5. ASSUME Refused(w) \/ Raise(w) \/ WorkerDies(w)
      PROVE  SafeInv'
  <2>1. PICK l \in {"except", "dead"} :
          /\ Goto(w, l) /\ (UNCHANGED cur \/ cur' = [cur EXCEPT ![w] = NoTask])
          /\ UNCHANGED noted
    BY <1>5 DEF Refused, Raise, WorkerDies
  <2>2. l \in Labels /\ l \notin Recorded
    BY DEF Labels, Busy, Recorded
  <2>3. WorkerCleared' /\ PublishKnown'
    BY <2>1, <2>2, WorkerKeeps
  <2>. QED
    BY <1>1, <1>5, <2>3, SafeFrames DEF Refused, Raise, WorkerDies
<1>6. ASSUME NEW s, NEW l \in Busy \ Recorded, NEW v, RunEnd(w, s, l, v)
      PROVE  SafeInv'
  <2>1. cur[w] \in Tasks
    BY <1>6, BusyTask DEF RunEnd, Busy
  <2>2. ResultKnown'
    BY <1>6, <2>1, SaveKeepsKnown DEF RunEnd
  <2>3. WorkerCleared' /\ PublishKnown'
    BY <1>6, WorkerKeeps DEF RunEnd, Labels
  <2>. QED
    BY <1>1, <1>6, <2>2, <2>3, SafeFrames DEF RunEnd
<1>7. ASSUME Exhaust(w) \/ Requeue(w)
      PROVE  SafeInv'
  <2>1. cur[w] \in Tasks /\ Cleared(cur[w])
    BY <1>7, BusyTask DEF Exhaust, Requeue, Busy, WorkerCleared
  <2>2. ResultKnown'
    BY <1>7, <2>1, SaveKeepsKnown DEF Exhaust, Requeue, HoldForPause
  <2>3. QueueCleared'
    <3>1. UNCHANGED queue \/ queue' = Append(queue, cur[w])
      BY <1>7 DEF Exhaust, Requeue
    <3>. QED
      BY <2>1, <3>1, QueueGrows, SafeFrames DEF MemoryTypes
  <2>4. RunCleared'
    <3>1. ASSUME NEW t \in Tasks, t # cur[w]
          PROVE  count'[t] = count[t]
      BY <1>7, <3>1 DEF Exhaust, Requeue, StoreTypes
    <3>. QED
      BY <2>1, <3>1, ClearedStays DEF RunCleared
  <2>5. WorkerCleared' /\ PublishKnown'
    <3>1. CASE Requeue(w) /\ PauseHolds(cur[w])
      BY <2>1, <3>1, HoldKeeps DEF Requeue
    <3>2. CASE Exhaust(w) \/ ~PauseHolds(cur[w])
      <4>1. PICK l \in {"terminal", "release"} : Goto(w, l) /\ UNCHANGED <<cur, noted>>
        BY <1>7, <3>2 DEF Exhaust, Requeue, StartPass
      <4>2. l \in Labels /\ l \notin Recorded
        BY DEF Labels, Busy, Recorded
      <4>. QED
        BY <4>1, <4>2, WorkerKeeps
    <3>. QED
      BY <1>7, <3>1, <3>2
  <2>. QED
    BY <1>1, <2>2, <2>3, <2>4, <2>5
<1>8. ASSUME Retire(w) \/ HandleException(w)
      PROVE  SafeInv'
  <2>1. cur[w] \in Tasks
    BY <1>8, BusyTask DEF Retire, HandleException, Busy
  <2>2. ResultKnown'
    <3>1. (\E s \in Stage : Save(cur[w], s)) \/ UNCHANGED <<stage, stored>>
      BY <1>8 DEF Retire, HandleException, Target, Stage
    <3>2. UNCHANGED results
      BY <1>8 DEF Retire, HandleException
    <3>. QED
      BY <2>1, <3>1, <3>2, SaveKeepsKnown, SafeFrames
  <2>3. WorkerCleared' /\ PublishKnown'
    <3>1. PICK l \in {"record", "except", "xrecord"} : Goto(w, l) /\ UNCHANGED <<cur, noted>>
      BY <1>8 DEF Retire, HandleException
    <3>2. l \in Labels /\ l \notin Recorded
      BY DEF Labels, Busy, Recorded
    <3>. QED
      BY <3>1, <3>2, WorkerKeeps
  <2>. QED
    BY <1>1, <1>8, <2>2, <2>3, SafeFrames DEF Retire, HandleException
<1>9. ASSUME Record(w) \/ Receipt(w)
      PROVE  SafeInv'
  <2>1. cur[w] \in Tasks
    BY <1>9, BusyTask DEF Record, Receipt, Busy
  <2>2. cur[w] \in finished' /\ UNCHANGED cur
    BY <1>9 DEF Record, Receipt, SaveResult, PublishKnown, Recorded
  <2>3. ResultKnown'
    BY <1>9, <2>1 DEF Record, Receipt, SaveResult, ResultKnown, StoreTypes, Grows
  <2>4. PublishKnown'
    <3>1. \A v \in Workers \ {w} : pc'[v] = pc[v]
      BY <1>9 DEF Record, Receipt, Goto, AgentTypes, Agents
    <3>. QED
      BY <2>2, <3>1 DEF PublishKnown, Grows
  <2>. QED
    BY <1>1, <1>9, <2>2, <2>3, <2>4, SafeFrames DEF Record, Receipt
<1>10. ASSUME Publish(w) \/ PublishException(w)
       PROVE  SafeInv'
  <2>1. cur[w] \in Tasks /\ cur[w] \in finished
    BY <1>10, BusyTask DEF Publish, PublishException, Busy, PublishKnown, Recorded
  <2>2. ResultKnown'
    BY <1>10, <2>1 DEF Publish, PublishException, PublishTables, MemoryTypes,
       ResultKnown, Grows
  <2>3. WorkerCleared' /\ PublishKnown'
    <3>1. PICK l \in {"release", "idle"} :
            /\ Goto(w, l) /\ (UNCHANGED cur \/ cur' = [cur EXCEPT ![w] = NoTask])
            /\ UNCHANGED noted
      BY <1>10 DEF Publish, PublishException, StartPass, Drop
    <3>2. l \in Labels /\ l \notin Recorded
      BY DEF Labels, Busy, Recorded
    <3>. QED
      BY <3>1, <3>2, WorkerKeeps
  <2>. QED
    BY <1>1, <1>10, <2>2, <2>3, SafeFrames DEF Publish, PublishException
<1>11. ASSUME WorkerAware(w) \/ HoldRaises(w)
       PROVE  SafeInv'
  <2>1. noted[w] \in Tasks
    BY <1>11 DEF WorkerAware, HoldRaises, BusyHasTask
  <2>2. ResultKnown'
    <3>1. Save(noted[w], stage[noted[w]]) \/ UNCHANGED stored
      BY <1>11 DEF WorkerAware, HoldRaises
    <3>2. UNCHANGED results
      BY <1>11 DEF WorkerAware, HoldRaises
    <3>. QED
      BY <2>1, <3>1, <3>2, SaveKeepsKnown, SafeFrames
  <2>3. WorkerCleared' /\ PublishKnown'
    BY <1>11, NotedKeeps DEF WorkerAware, HoldRaises
  <2>. QED
    BY <1>1, <1>11, <2>2, <2>3, SafeFrames DEF WorkerAware, HoldRaises
<1>. QED
  <2>1. {"terminal", "retry", "progress"} \subseteq Busy \ Recorded
    BY DEF Busy, Recorded
  <2>2. RunDone(w) \/ RunFail(w) \/ RunRetry(w) \/ RunProgress(w) => SafeInv'
    BY <1>6, <2>1 DEF RunDone, RunFail, RunRetry, RunProgress
  <2>. QED
    BY <1>2, <1>3, <1>4, <1>5, <1>7, <1>8, <1>9, <1>10, <1>11, <2>2 DEF WorkerStep

\* A release pass queues only tasks that pass the checks now.
LEMMA PassSafe ==
  ASSUME TypeInv, SafeInv, Grows, NEW a \in Agents,
         PassStep(a) \/ (a \in Heartbeats /\ HeartbeatStart(a))
  PROVE  SafeInv'
<1>0. StoreTypes /\ MemoryTypes /\ AgentTypes
  BY DEF TypeInv, TypeOK
<1>. USE <1>0 DEF SafeInv, envVars, storeVars, bootVars, taskTables, askVars,
         callVars, passVars
<1>1. RunCleared' /\ SubmitCleared'
  BY SafeFrames DEF PassStep, ExamineHeld, EndPass, EndPassKeyError, PassRaises,
     HeartbeatStart
<1>2. ASSUME NEW t \in Tasks, ExamineHeld(a, t)
      PROVE  SafeInv'
  <2>1. QueueCleared'
    <3>1. \/ UNCHANGED queue
          \/ ~GuardHolds(t) /\ DependenciesReady(t) /\ queue' = Append(queue, t)
      BY <1>2 DEF ExamineHeld
    <3>. QED
      BY <3>1, ReadyIsCleared, QueueGrows, SafeFrames DEF MemoryTypes
  <2>2. ResultKnown'
    <3>1. (Save(t, stage[t]) \/ UNCHANGED <<stage, stored>>) /\ UNCHANGED results
      BY <1>2 DEF ExamineHeld
    <3>. QED
      BY <3>1, SaveKeepsKnown, SafeFrames
  <2>. QED
    BY <1>1, <1>2, <2>1, <2>2, SafeFrames DEF ExamineHeld
<1>3. ASSUME HeartbeatStart(a) \/ EndPass(a) \/ EndPassKeyError(a) \/ PassRaises(a)
      PROVE  QueueCleared' /\ ResultKnown'
  BY <1>3, SafeFrames DEF HeartbeatStart, EndPass, EndPassKeyError, PassRaises
<1>4. ASSUME HeartbeatStart(a) \/ EndPass(a) \/ EndPassKeyError(a) \/ PassRaises(a)
      PROVE  WorkerCleared' /\ PublishKnown'
  <2>1. CASE a \in Workers
    <3>1. PICK l \in {"release", "idle", "except"} :
            /\ Goto(a, l) /\ (UNCHANGED cur \/ cur' = [cur EXCEPT ![a] = NoTask])
            /\ UNCHANGED noted
      BY <1>4 DEF HeartbeatStart, StartPass, EndPass, EndPassKeyError, PassRaises,
         ClearPass,
         Drop
    <3>2. l \in Labels /\ l \notin Recorded
      BY DEF Labels, Busy, Recorded
    <3>. QED
      BY <2>1, <3>1, <3>2, WorkerKeeps
  <2>2. CASE a \notin Workers
    <3>1. UNCHANGED <<cur, noted>> /\ \E l : Goto(a, l)
      BY <1>4, <2>2 DEF HeartbeatStart, StartPass, EndPass, EndPassKeyError, PassRaises,
         ClearPass
    <3>2. \A w \in Workers : pc'[w] = pc[w]
      BY <2>2, <3>1 DEF Goto, AgentTypes, Agents
    <3>. QED
      BY <3>1, <3>2, SafeFrames DEF PublishKnown, Grows
  <2>. QED
    BY <2>1, <2>2
<1>. QED
  BY <1>1, <1>2, <1>3, <1>4 DEF PassStep

\* A crash empties what was checked; the restart checks again.
LEMMA OutsideSafe ==
  ASSUME TypeInv, SafeInv, Grows, BootStep \/ Environment
  PROVE  SafeInv'
<1>0. StoreTypes /\ MemoryTypes /\ CallTypes /\ AgentTypes
  BY DEF TypeInv, TypeOK
<1>. USE <1>0 DEF SafeInv, envVars, storeVars, bootVars, taskTables, askVars,
         callVars, agentVars, passVars
<1>1. ASSUME Crash
      PROVE  SafeInv'
  <2>1. QueueCleared'
    BY <1>1 DEF Crash, QueueCleared
  <2>2. WorkerCleared' /\ PublishKnown'
    BY <1>1, ConstantsAssumption DEF Crash, WorkerCleared, PublishKnown, Recorded,
       ConstantsAssumption, Agents
  <2>3. RunCleared'
    BY <1>1, SafeFrames DEF Crash
  <2>4. SubmitCleared'
    BY <1>1 DEF Crash, SubmitCleared
  <2>5. ResultKnown'
    BY <1>1 DEF Crash, ResultKnown
  <2>. QED
    BY <2>1, <2>2, <2>3, <2>4, <2>5
<1>2. ASSUME NEW t \in Tasks, Restore(t)
      PROVE  SafeInv'
  <2>1. QueueCleared'
    <3>1. \/ UNCHANGED queue
          \/ ~GuardHolds(t) /\ DependenciesReady(t) /\ queue' = Append(queue, t)
      BY <1>2 DEF Restore, Hold, Enqueue
    <3>. QED
      BY <3>1, ReadyIsCleared, QueueGrows, SafeFrames DEF MemoryTypes
  <2>2. ResultKnown'
    BY <1>2, SaveKeepsKnown DEF Restore
  <2>. QED
    BY <1>2, <2>1, <2>2, SafeFrames DEF Restore
<1>3. ASSUME NEW t \in Tasks, ResolveHold(t)
      PROVE  SafeInv'
  <2>1. QueueCleared'
    <3>1. UNCHANGED queue \/ (~GuardHolds(t) /\ queue' = Append(queue, t))
      BY <1>3 DEF ResolveHold
    <3>2. ~GuardHolds(t) => Cleared(t)
      BY <1>3 DEF ResolveHold, Cleared
    <3>. QED
      BY <3>1, <3>2, QueueGrows, SafeFrames DEF MemoryTypes
  <2>2. ResultKnown'
    <3>1. (\E s \in Stage : Save(t, s)) \/ UNCHANGED <<stage, stored>>
      BY <1>3 DEF ResolveHold, StoreTypes, Stage
    <3>. QED
      BY <1>3, <3>1, SaveKeepsKnown, SafeFrames DEF ResolveHold
  <2>. QED
    BY <1>3, <2>1, <2>2, SafeFrames DEF ResolveHold
<1>4. ASSUME \/ Start \/ Started \/ Pause \/ Unpause \/ \E t \in Tasks : Accept(t)
             \/ (\E x \in Works : WorkReady(x)) \/ \E k \in Keys : Expire(k)
      PROVE  SafeInv'
  BY <1>4, SafeFrames DEF Start, Started, Pause, Unpause, Accept, WorkReady, Expire
<1>. QED
  BY <1>1, <1>2, <1>3, <1>4 DEF BootStep, Environment

\* IInv is inductive, and so it holds in every reachable state.
LEMMA SafeInvHolds == Spec => []SafeInv
<1>1. Init => SafeInv
  <2>1. Init => QueueCleared
    BY DEF Init, QueueCleared
  <2>2. Init => WorkerCleared /\ PublishKnown
    BY ConstantsAssumption DEF Init, WorkerCleared, PublishKnown, Recorded,
       ConstantsAssumption, Agents
  <2>3. Init => RunCleared /\ SubmitCleared /\ ResultKnown
    BY DEF Init, RunCleared, SubmitCleared, ResultKnown
  <2>. QED
    BY <2>1, <2>2, <2>3 DEF SafeInv
<1>2. TypeInv /\ SafeInv /\ [Next]_vars => SafeInv'
  <2>1. ASSUME TypeInv, SafeInv, Grows, Next
        PROVE  SafeInv'
    BY <2>1, SubmitSafe, WorkerSafe, PassSafe, OutsideSafe DEF Next, Agents
  <2>2. ASSUME SafeInv, Grows, UNCHANGED vars
        PROVE  SafeInv'
    BY <2>2, SafeFrames DEF vars, SafeInv, storeVars, taskTables, askVars, callVars,
       agentVars, passVars
  <2>. QED
    BY <2>1, <2>2, StepGrows
<1>3. Spec => []TypeInv
  BY TypeCorrect, PTL DEF TypeInv
<1>. QED
  BY <1>1, <1>2, <1>3, PTL DEF Spec

\* The context guard holds: no task of the reflective lane is ever executed
\* before its proposal is committed, whatever path took it to the lane.
THEOREM GuardAlwaysRespected == Spec => []GuardRespected
<1>1. TypeInv /\ SafeInv => GuardRespected
  <2>. SUFFICES ASSUME TypeInv, SafeInv, NEW t \in Reflective \ accepted
                PROVE  count[t].attempt = 0
    BY DEF GuardRespected
  <2>1. t \in Tasks
    BY ConstantsAssumption DEF ConstantsAssumption
  <2>2. ~(count[t].attempt > 0)
    BY <2>1 DEF SafeInv, RunCleared, Cleared, GuardHolds
  <2>3. count[t].attempt \in Nat
    BY <2>1 DEF TypeInv, TypeOK, StoreTypes, Counters
  <2>. QED
    BY <2>2, <2>3
<1>2. Spec => []TypeInv
  BY TypeCorrect, PTL DEF TypeInv
<1>. QED
  BY <1>1, <1>2, SafeInvHolds, PTL

\* Dependencies come first: no task is executed before each thing it depends
\* on has had a result, unless an operator resolved its hold.
THEOREM DependenciesAlwaysFirst == Spec => []DependenciesFirst
<1>1. SafeInv => DependenciesFirst
  BY DEF SafeInv, RunCleared, Cleared, DependenciesFirst
<1>. QED
  BY <1>1, SafeInvHolds, PTL
=============================================================================
