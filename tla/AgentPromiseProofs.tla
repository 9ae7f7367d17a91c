------------------------- MODULE AgentPromiseProofs -------------------------
(***************************************************************************)
(* The bounded agent keeps the safety part of its promise to the callers   *)
(* of submit, for every value of the constants: each step of BoundedAgent, *)
(* seen through the refinement mapping of Promise, is a step of            *)
(* TaskPromise or leaves the phases alone.                                 *)
(***************************************************************************)
EXTENDS BoundedAgentProofs

-----------------------------------------------------------------------------
(***************************************************************************)
(* The inductive invariant behind the mapping.  A future in the table is   *)
(* not answered yet; what a worker has taken out to answer, and what a     *)
(* restart will restore, is in no table that a submission could join.      *)
(***************************************************************************)
Queued(t) == \E i \in DOMAIN queue : queue[i] = t

\* A task that was never submitted is nowhere.
Unsubmitted ==
  \A t \in Tasks : sub[t] = "idle" =>
    /\ stage[t] = "new" /\ waits[t] = NoTask /\ t \notin futures
    /\ t \notin held /\ ~Queued(t)
    /\ \A a \in Agents : t \notin todo[a]
    /\ \A w \in Workers : cur[w] # t /\ noted[w] # t
FuturesOpen  == \A t \in futures : fut[t] = "pending"
WaitsKnown   == \A t \in Tasks : waits[t] # NoTask => sub[waits[t]] # "idle"
AliasesKnown == \A p \in aliases : sub[p[1]] # "idle" /\ p[1] \notin futures
ResolvesTaken ==
  \A a \in Agents : \A t \in resolves[a] : sub[t] # "idle" /\ t \notin futures
\* Workers run only while the agent is up; a dead agent remembers nothing.
Booting ==
  /\ up # "up" => /\ \A w \in Workers : pc[w] = "idle"
                  /\ \A a \in Agents : resolves[a] = {}
  /\ up = "down" => /\ futures = {} /\ aliases = {}
                    /\ \A t \in Tasks : /\ waits[t] = NoTask
                                        /\ sub[t] \in {"idle", "done"}
  /\ restoring # {} => up = "starting"
RestoringApart ==
  \A t \in restoring : /\ sub[t] # "idle" /\ t \notin futures
                       /\ \A c \in Tasks : waits[c] # t
                       /\ \A p \in aliases : p[1] # t

PromiseInv ==
  /\ Unsubmitted /\ FuturesOpen /\ WaitsKnown /\ AliasesKnown /\ ResolvesTaken
  /\ Booting /\ RestoringApart

-----------------------------------------------------------------------------
(***************************************************************************)
(* Lemmas: the lane, and what a step must leave alone.                     *)
(***************************************************************************)

\* Appending to the lane queues one task more; taking its head, none.
LEMMA QueuedAppend ==
  ASSUME queue \in Seq(Tasks), NEW t \in Tasks, queue' = Append(queue, t)
  PROVE  \A u \in Tasks : Queued(u)' => Queued(u) \/ u = t
<1>. SUFFICES ASSUME NEW u \in Tasks, NEW i \in DOMAIN queue', queue'[i] = u, u # t
              PROVE  Queued(u)
  BY DEF Queued
<1>1. i \in 1 .. Len(queue) + 1
  OBVIOUS
<1>2. i # Len(queue) + 1
  OBVIOUS
<1>3. i \in DOMAIN queue /\ queue[i] = u
  BY <1>1, <1>2
<1>. QED
  BY <1>3 DEF Queued

\* The head of the lane is queued, and taking it queues nothing.
LEMMA QueuedTail ==
  ASSUME queue \in Seq(Tasks), queue # <<>>
  PROVE  /\ Queued(Head(queue))
         /\ queue' = Tail(queue) => \A u \in Tasks : Queued(u)' => Queued(u)
<1>1. Queued(Head(queue))
  BY DEF Queued
<1>2. ASSUME queue' = Tail(queue), NEW u \in Tasks, NEW i \in DOMAIN queue',
             queue'[i] = u
      PROVE  Queued(u)
  <2>1. i + 1 \in DOMAIN queue /\ queue[i + 1] = u
    BY <1>2
  <2>. QED
    BY <2>1 DEF Queued
<1>. QED
  BY <1>1, <1>2 DEF Queued

\* Unsubmitted is kept by a step that only touches submitted tasks.
LEMMA UnsubmittedStays ==
  ASSUME Unsubmitted,
         \A t \in Tasks : sub'[t] = "idle" => sub[t] = "idle",
         \A t \in Tasks : sub'[t] = "idle" =>
           /\ stage'[t] = stage[t]
           /\ waits'[t] \in {waits[t], NoTask}
           /\ t \in futures' => t \in futures
           /\ t \in held' => t \in held
           /\ Queued(t)' => Queued(t)
           /\ \A a \in Agents : t \in todo'[a] => t \in todo[a] \/ t \in held
           /\ \A w \in Workers :
                cur'[w] = t \/ noted'[w] = t =>
                  cur[w] = t \/ noted[w] = t \/ Queued(t)
  PROVE  Unsubmitted'
<1>. SUFFICES ASSUME NEW t \in Tasks, sub'[t] = "idle"
              PROVE  /\ stage'[t] = "new" /\ waits'[t] = NoTask /\ t \notin futures'
                     /\ t \notin held' /\ ~Queued(t)'
                     /\ \A a \in Agents : t \notin todo'[a]
                     /\ \A w \in Workers : cur'[w] # t /\ noted'[w] # t
  BY DEF Unsubmitted
<1>1. /\ stage[t] = "new" /\ waits[t] = NoTask /\ t \notin futures
      /\ t \notin held /\ ~Queued(t)
      /\ \A a \in Agents : t \notin todo[a]
      /\ \A w \in Workers : cur[w] # t /\ noted[w] # t
  BY DEF Unsubmitted
<1>. QED
  BY <1>1

\* What a step must leave alone for each part of the invariant to stay.
LEMMA PromiseFrames ==
  /\ FuturesOpen /\ UNCHANGED <<futures, fut>> => FuturesOpen'
  /\ WaitsKnown /\ UNCHANGED <<waits, sub>> => WaitsKnown'
  /\ AliasesKnown /\ UNCHANGED <<aliases, sub, futures>> => AliasesKnown'
  /\ ResolvesTaken /\ UNCHANGED <<resolves, sub, futures>> => ResolvesTaken'
  /\ Booting /\ UNCHANGED <<up, pc, resolves, futures, aliases, waits, sub,
                             restoring>> => Booting'
  /\ RestoringApart /\ UNCHANGED <<restoring, sub, futures, waits, aliases>>
       => RestoringApart'
  BY DEF FuturesOpen, WaitsKnown, AliasesKnown, ResolvesTaken, Booting,
         RestoringApart

\* A task an agent has in hand, or that waits in a table, was submitted.
LEMMA InHandSubmitted ==
  ASSUME Unsubmitted, NEW t \in Tasks,
         \/ stage[t] # "new" \/ t \in futures \/ t \in held \/ Queued(t)
         \/ (\E a \in Agents : t \in todo[a])
         \/ \E w \in Workers : cur[w] = t \/ noted[w] = t
  PROVE  sub[t] # "idle"
  BY DEF Unsubmitted

-----------------------------------------------------------------------------
(***************************************************************************)
(* The invariant, action by action.                                        *)
(***************************************************************************)
LEMMA SubmitPromise ==
  ASSUME TypeInv, PromiseInv, NEW t \in Tasks,
         \/ SubmitLiveDuplicate(t) \/ SubmitRecentDuplicate(t) \/ SubmitFresh(t)
         \/ SubmitOnward(t)
  PROVE  PromiseInv'
<1>0. /\ StoreTypes /\ MemoryTypes /\ CallTypes /\ AgentTypes
      /\ Unsubmitted /\ FuturesOpen /\ WaitsKnown /\ AliasesKnown /\ ResolvesTaken
      /\ Booting /\ RestoringApart
  BY DEF TypeInv, TypeOK, PromiseInv
<1>. USE <1>0
<1>1. CASE SubmitLiveDuplicate(t)
  <2>1. PICK e \in LiveDuplicates(t) :
          IF e \in futures
          THEN waits' = [waits EXCEPT ![t] = e] /\ UNCHANGED <<aliases, fut>>
          ELSE /\ waits' = [waits EXCEPT ![t] = t]
               /\ fut' = [fut EXCEPT ![t] = "pending"]
               /\ aliases' = aliases \cup {<<t, e>>}
    BY <1>1 DEF SubmitLiveDuplicate
  <2>2. /\ sub[t] = "idle" /\ sub' = [sub EXCEPT ![t] = "done"] /\ up # "down"
        /\ UNCHANGED <<stage, queue, held, todo, cur, noted, futures, up, pc, resolves,
                       restoring>>
    BY <1>1 DEF SubmitLiveDuplicate, storeVars, bootVars, taskTables, agentVars,
       passVars
  <2>3. t \notin futures /\ sub'[t] = "done" /\ e \in Tasks
    BY <2>1, <2>2 DEF Unsubmitted, CallTypes, LiveDuplicates, MemoryTypes
  <2>4. Unsubmitted'
    BY <2>1, <2>2, UnsubmittedStays DEF Queued, CallTypes
  <2>5. FuturesOpen'
    BY <2>1, <2>2, <2>3 DEF FuturesOpen, CallTypes, MemoryTypes
  <2>6. WaitsKnown'
    <3>1. CASE e \in futures
      <4>1. sub[e] # "idle" /\ waits' = [waits EXCEPT ![t] = e]
        BY <2>1, <2>3, <3>1 DEF Unsubmitted
      <4>. QED
        BY <2>2, <2>3, <4>1 DEF WaitsKnown, CallTypes
    <3>2. CASE e \notin futures
      BY <2>1, <2>2, <2>3, <3>2 DEF WaitsKnown, CallTypes
    <3>. QED
      BY <3>1, <3>2
  <2>7. AliasesKnown'
    BY <2>1, <2>2, <2>3 DEF AliasesKnown, CallTypes, MemoryTypes
  <2>8. ResolvesTaken'
    BY <2>2, <2>3 DEF ResolvesTaken, CallTypes, AgentTypes
  <2>9. Booting'
    BY <2>2 DEF Booting
  <2>10. RestoringApart'
    BY <2>1, <2>2, <2>3 DEF RestoringApart, CallTypes, MemoryTypes
  <2>. QED
    BY <2>4, <2>5, <2>6, <2>7, <2>8, <2>9, <2>10 DEF PromiseInv
<1>2. CASE SubmitRecentDuplicate(t)
  <2>2. /\ sub[t] = "idle" /\ sub' = [sub EXCEPT ![t] = "done"] /\ up # "down"
        /\ waits' = [waits EXCEPT ![t] = t]
        /\ fut' = [fut EXCEPT ![t] = recent[Key[t]]]
        /\ UNCHANGED <<stage, queue, held, todo, cur, noted, futures, up, pc, resolves,
                       restoring, aliases>>
    BY <1>2 DEF SubmitRecentDuplicate, storeVars, bootVars, taskTables, askVars,
       agentVars, passVars
  <2>3. t \notin futures /\ sub'[t] = "done"
    BY <2>2 DEF Unsubmitted, CallTypes
  <2>4. Unsubmitted'
    BY <2>2, UnsubmittedStays DEF Queued, CallTypes
  <2>5. FuturesOpen'
    BY <2>2, <2>3 DEF FuturesOpen, CallTypes, MemoryTypes
  <2>6. WaitsKnown'
    BY <2>2, <2>3 DEF WaitsKnown, CallTypes
  <2>7. AliasesKnown' /\ ResolvesTaken'
    BY <2>2, <2>3 DEF AliasesKnown, ResolvesTaken, CallTypes, MemoryTypes, AgentTypes
  <2>8. Booting'
    BY <2>2 DEF Booting
  <2>9. RestoringApart'
    BY <2>2, <2>3 DEF RestoringApart, CallTypes, MemoryTypes
  <2>. QED
    BY <2>4, <2>5, <2>6, <2>7, <2>8, <2>9 DEF PromiseInv
<1>3. CASE SubmitFresh(t)
  <2>2. /\ sub[t] = "idle" /\ up # "down"
        /\ waits' = [waits EXCEPT ![t] = t]
        /\ fut' = [fut EXCEPT ![t] = "pending"]
        /\ futures' = futures \cup {t}
        /\ UNCHANGED <<todo, cur, noted, up, pc, resolves, restoring, aliases,
                       queue>>
    BY <1>3 DEF SubmitFresh, bootVars, taskTables, agentVars, passVars, Hold
  <2>3. /\ sub' \in [Tasks -> {"idle", "checking", "hold", "enqueue", "aware",
                            "done"}]
        /\ sub'[t] # "idle" /\ \A u \in Tasks \ {t} : sub'[u] = sub[u]
    BY <1>3 DEF SubmitFresh, CallTypes
  <2>4. \A u \in Tasks \ {t} : stage'[u] = stage[u] /\ (u \in held' => u \in held)
    BY <1>3 DEF SubmitFresh, Hold, Save, StoreTypes, taskTables
  <2>5. Unsubmitted'
    BY <2>2, <2>3, <2>4, UnsubmittedStays DEF Queued, CallTypes
  <2>6. FuturesOpen'
    BY <2>2 DEF FuturesOpen, CallTypes, MemoryTypes
  <2>7. WaitsKnown'
    BY <2>2, <2>3 DEF WaitsKnown, CallTypes
  <2>8. AliasesKnown'
    BY <2>2, <2>3 DEF AliasesKnown, MemoryTypes
  <2>9. ResolvesTaken'
    BY <2>2, <2>3 DEF ResolvesTaken, AgentTypes
  <2>10. Booting'
    BY <2>2 DEF Booting
  <2>11. RestoringApart'
    BY <2>2, <2>3 DEF RestoringApart, CallTypes, MemoryTypes
  <2>. QED
    BY <2>5, <2>6, <2>7, <2>8, <2>9, <2>10, <2>11 DEF PromiseInv
<1>4. CASE SubmitOnward(t)
  <2>1. /\ UNCHANGED <<futures, aliases, waits, fut, up, pc, resolves, restoring,
                       todo, cur, noted>>
        /\ sub[t] # "idle"
    BY <1>4 DEF SubmitOnward, SubmitCheckDependencies, SubmitHold, SubmitAware,
       SubmitEnqueue,
       askVars, bootVars, agentVars, passVars
  <2>2. /\ sub'[t] # "idle"
        /\ \A u \in Tasks \ {t} : sub'[u] = sub[u]
    BY <1>4 DEF SubmitOnward, SubmitCheckDependencies, SubmitHold, SubmitAware,
       SubmitEnqueue,
       CallTypes
  <2>3. \A u \in Tasks \ {t} : stage'[u] = stage[u] /\ (u \in held' => u \in held)
    BY <1>4 DEF SubmitOnward, SubmitCheckDependencies, SubmitHold, SubmitAware,
       SubmitEnqueue,
       Hold, Enqueue, Save, StoreTypes, taskTables, storeVars
  <2>4. UNCHANGED queue \/ queue' = Append(queue, t)
    BY <1>4 DEF SubmitOnward, SubmitCheckDependencies, SubmitHold, SubmitAware,
       SubmitEnqueue,
       Hold, Enqueue, taskTables
  <2>5. \A u \in Tasks \ {t} : Queued(u)' => Queued(u)
    BY <2>4, QueuedAppend DEF Queued, MemoryTypes
  <2>6. Unsubmitted'
    BY <2>1, <2>2, <2>3, <2>5, UnsubmittedStays
  <2>7. \A u \in Tasks : sub[u] # "idle" => sub'[u] # "idle"
    BY <2>2
  <2>8. FuturesOpen'
    BY <2>1, PromiseFrames
  <2>9. WaitsKnown'
    BY <2>1, <2>7 DEF WaitsKnown, CallTypes
  <2>10. AliasesKnown'
    BY <2>1, <2>7 DEF AliasesKnown, MemoryTypes
  <2>11. ResolvesTaken'
    BY <2>1, <2>7 DEF ResolvesTaken, AgentTypes
  <2>12. RestoringApart'
    BY <2>1, <2>7 DEF RestoringApart, MemoryTypes
  <2>13. Booting'
    <3>1. sub[t] \notin {"idle", "done"}
      BY <1>4 DEF SubmitOnward, SubmitCheckDependencies, SubmitHold, SubmitAware,
         SubmitEnqueue
    <3>2. up # "down"
      BY <3>1 DEF Booting
    <3>. QED
      BY <2>1, <3>2 DEF Booting
  <2>. QED
    BY <2>6, <2>8, <2>9, <2>10, <2>11, <2>12, <2>13 DEF PromiseInv
<1>. QED
  BY <1>1, <1>2, <1>3, <1>4

\* What every step of a worker has in common: the agent is up, and neither
\* submissions nor the boot sequence move.
LEMMA WorkerCommon ==
  ASSUME TypeInv, PromiseInv, NEW w \in Workers, WorkerStep(w)
  PROVE  /\ up = "up" /\ restoring = {}
         /\ UNCHANGED <<up, restoring, sub, waits>>
         /\ Booting' /\ RestoringApart' /\ WaitsKnown'
<1>1. Booting /\ WaitsKnown
  BY DEF PromiseInv
<1>2. UNCHANGED <<up, restoring, sub, waits>> /\ (pc[w] # "idle" \/ up = "up")
  BY DEF WorkerStep, TakeAndHold, WorkerAware, HoldRaises, HoldForPause, Take, Plan,
     Begin, Refused, RunDone,
     RunFail, RunRetry, RunProgress, RunEnd, Raise, Exhaust, Requeue, Retire,
     Record, Receipt, Publish, HandleException, PublishException, WorkerDies,
     callVars, bootVars
<1>3. up = "up" /\ restoring = {}
  BY <1>1, <1>2 DEF Booting
<1>. QED
  BY <1>1, <1>2, <1>3 DEF Booting, RestoringApart, WaitsKnown

\* The other steps of a worker touch its own task only.
LEMMA WorkerTouches ==
  ASSUME TypeInv, PromiseInv, NEW w \in Workers, WorkerStep(w),
         ~TakeAndHold(w), ~Take(w), ~WorkerAware(w), ~HoldRaises(w)
  PROVE  /\ cur[w] \in Tasks /\ sub[cur[w]] # "idle"
         /\ Unsubmitted'
<1>0. /\ StoreTypes /\ MemoryTypes /\ CallTypes /\ AgentTypes /\ BusyHasTask
      /\ Unsubmitted
  BY DEF TypeInv, TypeOK, PromiseInv
<1>. USE <1>0
<1>1. pc[w] \in Busy
  BY DEF WorkerStep, HoldForPause, Plan, Begin, Refused, RunDone,
     RunFail, RunRetry, RunProgress, RunEnd, Raise, Exhaust, Requeue, Retire,
     Record, Receipt, Publish, HandleException, PublishException, WorkerDies, Busy
<1>2. cur[w] \in Tasks /\ sub[cur[w]] # "idle"
  BY <1>1, BusyTask, InHandSubmitted
<1>3. UNCHANGED cur \/ cur' = [cur EXCEPT ![w] = NoTask]
  BY DEF WorkerStep, HoldForPause, Plan, Begin, Refused, RunDone,
     RunFail, RunRetry, RunProgress, RunEnd, Raise, Exhaust, Requeue, Retire,
     Record, Receipt, Publish, HandleException, PublishException, WorkerDies, Drop,
     agentVars
<1>3a. UNCHANGED noted \/ noted' = [noted EXCEPT ![w] = cur[w]]
  BY DEF WorkerStep, HoldForPause, StartPass, Plan, Begin, Refused, RunDone,
     RunFail, RunRetry, RunProgress, RunEnd, Raise, Exhaust, Requeue, Retire,
     Record, Receipt, Publish, HandleException, PublishException, WorkerDies,
     agentVars, passVars
<1>4. \A u \in Tasks \ {cur[w]} : stage'[u] = stage[u]
  BY <1>2 DEF WorkerStep, HoldForPause, Plan, Begin, Refused, RunDone,
     RunFail, RunRetry, RunProgress, RunEnd, Raise, Exhaust, Requeue, Retire,
     Record, Receipt, Publish, HandleException, PublishException, WorkerDies,
     storeVars, Save, SaveResult, StoreTypes
<1>5. held' \subseteq held \cup {cur[w]} /\ futures' \subseteq futures
  BY DEF WorkerStep, HoldForPause, Plan, Begin, Refused, RunDone,
     RunFail, RunRetry, RunProgress, RunEnd, Raise, Exhaust, Requeue, Retire,
     Record, Receipt, Publish, HandleException, PublishException, WorkerDies,
     taskTables, askVars, Hold, PublishTables
<1>6. UNCHANGED queue \/ queue' = Append(queue, cur[w])
  BY DEF WorkerStep, HoldForPause, Plan, Begin, Refused, RunDone,
     RunFail, RunRetry, RunProgress, RunEnd, Raise, Exhaust, Requeue, Retire,
     Record, Receipt, Publish, HandleException, PublishException, WorkerDies,
     taskTables, Hold
<1>7. UNCHANGED todo \/ todo' = [todo EXCEPT ![w] = held]
  BY DEF WorkerStep, HoldForPause, Plan, Begin, Refused, RunDone,
     RunFail, RunRetry, RunProgress, RunEnd, Raise, Exhaust, Requeue, Retire,
     Record, Receipt, Publish, HandleException, PublishException, WorkerDies,
     agentVars, passVars, StartPass
<1>8. \A u \in Tasks \ {cur[w]} : Queued(u)' => Queued(u)
  BY <1>2, <1>6, QueuedAppend DEF Queued, MemoryTypes
<1>9. UNCHANGED <<sub, waits>>
  BY WorkerCommon
<1>10. \A u \in Tasks : \A v \in Workers :
         cur'[v] = u \/ noted'[v] = u => cur[v] = u \/ noted[v] = u
  BY <1>3, <1>3a, ConstantsAssumption DEF AgentTypes, ConstantsAssumption
<1>11. \A u \in Tasks : \A a \in Agents : u \in todo'[a] => u \in todo[a] \/ u \in held
  BY <1>7 DEF AgentTypes
<1>12. Unsubmitted'
  BY <1>2, <1>4, <1>5, <1>8, <1>9, <1>10, <1>11, UnsubmittedStays
<1>. QED
  BY <1>2, <1>12

\* The futures of a task's callers: its own, if open, and its aliases'.
LEMMA AwaitingTaken ==
  ASSUME TypeInv, PromiseInv, NEW w \in Workers, cur[w] \in Tasks, PublishTables(w)
  PROVE  /\ Awaiting(cur[w]) \subseteq Tasks
         /\ \A r \in Awaiting(cur[w]) : sub[r] # "idle" /\ r \notin futures'
<1>1. MemoryTypes /\ Unsubmitted /\ AliasesKnown
  BY DEF TypeInv, TypeOK, PromiseInv
<1>2. ASSUME NEW r \in Awaiting(cur[w])
      PROVE  r \in Tasks /\ sub[r] # "idle" /\ r \notin futures'
  <2>1. CASE r \in futures \cap {cur[w]}
    BY <1>1, <2>1 DEF PublishTables, Unsubmitted
  <2>2. CASE r \in Tasks /\ <<r, cur[w]>> \in aliases
    BY <1>1, <2>2 DEF PublishTables, AliasesKnown
  <2>. QED
    BY <1>2, <2>1, <2>2 DEF Awaiting
<1>. QED
  BY <1>2

\* A worker keeps what the promise rests on.
LEMMA WorkerPromise ==
  ASSUME TypeInv, PromiseInv, NEW w \in Workers, WorkerStep(w)
  PROVE  PromiseInv'
<1>0. /\ StoreTypes /\ MemoryTypes /\ CallTypes /\ AgentTypes
      /\ Unsubmitted /\ FuturesOpen /\ WaitsKnown /\ AliasesKnown /\ ResolvesTaken
      /\ Booting /\ RestoringApart
  BY DEF TypeInv, TypeOK, PromiseInv
<1>. USE <1>0
<1>1. Booting' /\ RestoringApart' /\ WaitsKnown' /\ UNCHANGED <<sub, waits>>
  BY WorkerCommon
<1>2. Unsubmitted'
  <2>1. CASE TakeAndHold(w) \/ Take(w)
    <3>1. /\ Queued(Head(queue)) /\ Head(queue) \in Tasks
          /\ queue' = Tail(queue) => \A u \in Tasks : Queued(u)' => Queued(u)
      BY <2>1, QueuedTail, QueueTasks DEF TakeAndHold, Take, MemoryTypes
    <3>2. sub[Head(queue)] # "idle"
      BY <3>1, InHandSubmitted
    <3>3. /\ queue' = Tail(queue) /\ held' \subseteq held \cup {Head(queue)}
          /\ UNCHANGED <<futures, todo>>
      BY <2>1 DEF TakeAndHold, HoldForPause, Take, askVars, agentVars, passVars
    <3>4. \A u \in Tasks \ {Head(queue)} : stage'[u] = stage[u]
      BY <2>1, <3>1 DEF TakeAndHold, HoldForPause, Take, Save, storeVars, StoreTypes
    <3>5. /\ \E x \in {NoTask, Head(queue)} : cur' = [cur EXCEPT ![w] = x]
          /\ UNCHANGED noted \/ noted' = [noted EXCEPT ![w] = Head(queue)]
      BY <2>1 DEF TakeAndHold, HoldForPause, Take, agentVars, passVars
    <3>6. \A u \in Tasks : \A v \in Workers :
            cur'[v] = u \/ noted'[v] = u => cur[v] = u \/ noted[v] = u \/ Queued(u)
      BY <3>1, <3>5, ConstantsAssumption DEF AgentTypes, ConstantsAssumption
    <3>. QED
      BY <1>1, <3>1, <3>2, <3>3, <3>4, <3>6, UnsubmittedStays
  <2>2. CASE WorkerAware(w) \/ HoldRaises(w)
    <3>1. /\ UNCHANGED <<held, queue, futures, todo>>
          /\ \E x \in {cur[w], noted[w]} : cur' = [cur EXCEPT ![w] = x]
          /\ noted' = [noted EXCEPT ![w] = NoTask]
      <4>1. UNCHANGED <<held, queue, futures, todo>> /\ noted' = [noted EXCEPT ![w] = NoTask]
        BY <2>2 DEF WorkerAware, HoldRaises, taskTables, askVars
      <4>2. UNCHANGED cur \/ cur' = [cur EXCEPT ![w] = noted[w]]
        BY <2>2 DEF WorkerAware, HoldRaises
      <4>. QED
        BY <4>1, <4>2 DEF AgentTypes
    <3>2. UNCHANGED stage
      BY <2>2 DEF WorkerAware, HoldRaises, Save, storeVars, StoreTypes
    <3>3. \A u \in Tasks : \A v \in Workers :
            cur'[v] = u \/ noted'[v] = u => cur[v] = u \/ noted[v] = u
      BY <3>1, ConstantsAssumption DEF AgentTypes, ConstantsAssumption
    <3>4. \A u \in Tasks : Queued(u)' => Queued(u)
      BY <3>1 DEF Queued
    <3>. QED
      BY <1>1, <3>1, <3>2, <3>3, <3>4, UnsubmittedStays
  <2>3. CASE ~TakeAndHold(w) /\ ~Take(w) /\ ~WorkerAware(w) /\ ~HoldRaises(w)
    BY <2>3, WorkerTouches
  <2>. QED
    BY <2>1, <2>2, <2>3
<1>3. CASE Publish(w) \/ PublishException(w)
  <2>1. cur[w] \in Tasks /\ PublishTables(w)
    BY <1>3, BusyTask DEF Publish, PublishException, TypeInv, Busy
  <2>2. /\ Awaiting(cur[w]) \subseteq Tasks
        /\ \A r \in Awaiting(cur[w]) : sub[r] # "idle" /\ r \notin futures'
    BY <2>1, AwaitingTaken
  <2>3. futures' \subseteq futures /\ aliases' \subseteq aliases
    BY <2>1 DEF PublishTables
  <2>4. UNCHANGED fut \/ fut' = Resolved(Awaiting(cur[w]), "fail")
    BY <1>3 DEF Publish, PublishException, callVars
  <2>5. FuturesOpen'
    BY <2>2, <2>3, <2>4 DEF FuturesOpen, Resolved, MemoryTypes
  <2>6. AliasesKnown'
    BY <1>1, <2>3 DEF AliasesKnown
  <2>7. UNCHANGED resolves \/ resolves' = [resolves EXCEPT ![w] = Awaiting(cur[w])]
    BY <1>3 DEF Publish, PublishException, StartPass, passVars
  <2>8. ResolvesTaken'
    BY <1>1, <2>2, <2>3, <2>7 DEF ResolvesTaken, AgentTypes
  <2>. QED
    BY <1>1, <1>2, <2>5, <2>6, <2>8 DEF PromiseInv
<1>4. CASE ~Publish(w) /\ ~PublishException(w)
  <2>1. UNCHANGED <<futures, aliases, fut>>
    BY <1>4 DEF WorkerStep, TakeAndHold, WorkerAware, HoldRaises, HoldForPause, Take,
       Plan, Begin, Refused, RunDone,
       RunFail, RunRetry, RunProgress, RunEnd, Raise, Exhaust, Requeue, Retire,
       Record, Receipt, HandleException, WorkerDies, callVars, askVars
  <2>2. UNCHANGED resolves \/ resolves' = [resolves EXCEPT ![w] = {}]
    BY <1>4 DEF WorkerStep, TakeAndHold, WorkerAware, HoldRaises, HoldForPause, Take,
       Plan, Begin, Refused, RunDone,
       RunFail, RunRetry, RunProgress, RunEnd, Raise, Exhaust, Requeue, Retire,
       Record, Receipt, HandleException, WorkerDies, StartPass, agentVars, passVars
  <2>3. ResolvesTaken'
    BY <1>1, <2>1, <2>2 DEF ResolvesTaken, AgentTypes
  <2>. QED
    BY <1>1, <1>2, <2>1, <2>3, PromiseFrames DEF PromiseInv
<1>. QED
  BY <1>3, <1>4

\* So does a release pass, however many race.
LEMMA PassPromise ==
  ASSUME TypeInv, PromiseInv, NEW a \in Agents,
         PassStep(a) \/ (a \in Heartbeats /\ HeartbeatStart(a))
  PROVE  PromiseInv'
<1>0. /\ StoreTypes /\ MemoryTypes /\ CallTypes /\ AgentTypes
      /\ Unsubmitted /\ FuturesOpen /\ WaitsKnown /\ AliasesKnown /\ ResolvesTaken
      /\ Booting /\ RestoringApart
  BY DEF TypeInv, TypeOK, PromiseInv
<1>. USE <1>0
<1>1. UNCHANGED <<sub, waits, futures, aliases, up, restoring>>
  BY DEF PassStep, ExamineHeld, EndPass, EndPassKeyError, PassRaises, HeartbeatStart,
     callVars,
     askVars, bootVars
<1>2. WaitsKnown' /\ AliasesKnown' /\ RestoringApart'
  BY <1>1, PromiseFrames
<1>3. UNCHANGED resolves \/ resolves' = [resolves EXCEPT ![a] = {}]
  BY DEF PassStep, ExamineHeld, EndPass, EndPassKeyError, PassRaises, HeartbeatStart,
     StartPass,
     ClearPass
<1>4. ResolvesTaken'
  BY <1>1, <1>3 DEF ResolvesTaken, AgentTypes
<1>5. Booting'
  <2>1. ASSUME NEW w \in Workers, up # "up"
        PROVE  pc'[w] = "idle"
    <3>1. pc[w] = "idle" /\ Workers \subseteq Agents /\ Workers \cap Heartbeats = {}
      BY <2>1, ConstantsAssumption DEF Booting, Agents, ConstantsAssumption
    <3>2. PassStep(a) => pc[a] = "release"
      BY DEF PassStep, ExamineHeld, EndPass, EndPassKeyError, PassRaises
    <3>3. a # w
      BY <3>1, <3>2
    <3>4. UNCHANGED pc \/ \E l : Goto(a, l)
      BY DEF PassStep, ExamineHeld, EndPass, EndPassKeyError, PassRaises, HeartbeatStart,
         StartPass, Drop
    <3>. QED
      BY <3>1, <3>3, <3>4 DEF Goto, AgentTypes
  <2>2. up # "up" => \A b \in Agents : resolves'[b] = {}
    BY <1>3 DEF Booting, AgentTypes
  <2>. QED
    BY <1>1, <2>1, <2>2 DEF Booting
<1>6. Unsubmitted'
  <2>1. held' \subseteq held /\ (UNCHANGED cur \/ cur' = [cur EXCEPT ![a] = NoTask])
    BY DEF PassStep, ExamineHeld, EndPass, EndPassKeyError, PassRaises, HeartbeatStart,
       Drop,
       taskTables
  <2>1a. UNCHANGED noted
    BY DEF PassStep, ExamineHeld, EndPass, EndPassKeyError, PassRaises, HeartbeatStart,
       StartPass, ClearPass
  <2>2. \A u \in Tasks : \A v \in Workers :
          cur'[v] = u \/ noted'[v] = u => cur[v] = u \/ noted[v] = u
    BY <2>1, <2>1a, ConstantsAssumption DEF AgentTypes, ConstantsAssumption
  <2>3. \A u \in Tasks : \A b \in Agents : u \in todo'[b] => u \in todo[b] \/ u \in held
    BY DEF PassStep, ExamineHeld, EndPass, EndPassKeyError, PassRaises, HeartbeatStart,
       StartPass,
       ClearPass, AgentTypes
  <2>4. \A u \in Tasks : sub'[u] = "idle" =>
          /\ stage'[u] = stage[u]
          /\ Queued(u)' => Queued(u)
    <3>1. CASE HeartbeatStart(a) \/ EndPass(a) \/ EndPassKeyError(a) \/ PassRaises(a)
      BY <3>1 DEF HeartbeatStart, EndPass, EndPassKeyError, PassRaises, storeVars,
         taskTables, Queued
    <3>2. ASSUME NEW t \in Tasks, ExamineHeld(a, t)
          PROVE  \A u \in Tasks : sub'[u] = "idle" =>
                   stage'[u] = stage[u] /\ (Queued(u)' => Queued(u))
      <4>1. sub[t] # "idle"
        BY <3>2, InHandSubmitted DEF ExamineHeld
      <4>2. UNCHANGED stage
        BY <3>2 DEF ExamineHeld, Save, StoreTypes
      <4>3. UNCHANGED queue \/ queue' = Append(queue, t)
        BY <3>2 DEF ExamineHeld
      <4>. QED
        BY <1>1, <4>1, <4>2, <4>3, QueuedAppend DEF Queued, MemoryTypes
    <3>. QED
      BY <3>1, <3>2 DEF PassStep
  <2>. QED
    BY <1>1, <2>1, <2>2, <2>3, <2>4, UnsubmittedStays
<1>7. FuturesOpen'
  <2>1. UNCHANGED fut \/ (a \in Agents /\ fut' = Resolved(resolves[a], outcome[a]))
    BY DEF PassStep, ExamineHeld, EndPass, EndPassKeyError, PassRaises, HeartbeatStart,
       callVars
  <2>2. \A t \in futures : t \in Tasks /\ t \notin resolves[a]
    BY DEF ResolvesTaken, MemoryTypes
  <2>. QED
    BY <1>1, <2>1, <2>2 DEF FuturesOpen, Resolved
<1>. QED
  BY <1>2, <1>4, <1>5, <1>6, <1>7 DEF PromiseInv

\* So do a crash, a restart and the environment.
LEMMA OutsidePromise ==
  ASSUME TypeInv, PromiseInv, BootStep \/ Environment
  PROVE  PromiseInv'
<1>0. /\ StoreTypes /\ MemoryTypes /\ CallTypes /\ AgentTypes
      /\ Unsubmitted /\ FuturesOpen /\ WaitsKnown /\ AliasesKnown /\ ResolvesTaken
      /\ Booting /\ RestoringApart
  BY DEF TypeInv, TypeOK, PromiseInv
<1>. USE <1>0
<1>1. CASE Crash
  <2>1. /\ up' = "down" /\ restoring' = {} /\ queue' = <<>> /\ held' = {}
        /\ futures' = {} /\ aliases' = {} /\ UNCHANGED stage
        /\ sub' = [t \in Tasks |-> IF sub[t] = "idle" THEN "idle" ELSE "done"]
        /\ waits' = [t \in Tasks |-> NoTask]
        /\ pc' = [a \in Agents |-> "idle"]
        /\ cur' = [w \in Workers |-> NoTask]
        /\ noted' = [w \in Workers |-> NoTask]
        /\ todo' = [a \in Agents |-> {}]
        /\ resolves' = [a \in Agents |-> {}]
    BY <1>1 DEF Crash, storeVars
  <2>2. Unsubmitted'
    BY <2>1, ConstantsAssumption DEF Unsubmitted, Queued, ConstantsAssumption
  <2>3. FuturesOpen' /\ WaitsKnown' /\ AliasesKnown' /\ ResolvesTaken' /\ RestoringApart'
    BY <2>1 DEF FuturesOpen, WaitsKnown, AliasesKnown, ResolvesTaken, RestoringApart
  <2>4. Booting'
    BY <2>1 DEF Booting, Agents
  <2>. QED
    BY <2>2, <2>3, <2>4 DEF PromiseInv
<1>2. CASE Start
  <2>1. /\ up = "down" /\ up' = "starting" /\ restoring' \subseteq Pending
        /\ UNCHANGED <<stage, futures, aliases, sub, waits, fut, held, queue, todo,
                       cur, noted, pc, resolves>>
    BY <1>2 DEF Start, storeVars, callVars, agentVars, passVars
  <2>2. Unsubmitted'
    BY <2>1, UnsubmittedStays DEF Queued
  <2>3. FuturesOpen' /\ WaitsKnown' /\ AliasesKnown' /\ ResolvesTaken'
    BY <2>1, PromiseFrames
  <2>4. Booting'
    BY <2>1 DEF Booting
  <2>5. RestoringApart'
    <3>1. futures = {} /\ aliases = {} /\ \A t \in Tasks : waits[t] = NoTask
      BY <2>1 DEF Booting
    <3>2. \A t \in Pending : t \in Tasks /\ sub[t] # "idle"
      BY InHandSubmitted DEF Pending
    <3>. QED
      BY <2>1, <3>1, <3>2, ConstantsAssumption DEF RestoringApart, ConstantsAssumption
  <2>. QED
    BY <2>2, <2>3, <2>4, <2>5 DEF PromiseInv
<1>3. ASSUME NEW t \in Tasks, Restore(t)
      PROVE  PromiseInv'
  <2>1. /\ up = "starting" /\ t \in restoring /\ restoring' = restoring \ {t}
        /\ futures' = futures \cup {t} /\ fut' = [fut EXCEPT ![t] = "pending"]
        /\ UNCHANGED <<up, aliases, sub, waits, todo, cur, noted, pc, resolves>>
    BY <1>3 DEF Restore, agentVars, passVars
  <2>2. /\ sub[t] # "idle" /\ t \notin futures
        /\ \A c \in Tasks : waits[c] # t
        /\ \A p \in aliases : p[1] # t
        /\ \A a \in Agents : resolves[a] = {}
    BY <2>1 DEF RestoringApart, Booting
  <2>3. Unsubmitted'
    <3>1. \A u \in Tasks \ {t} : stage'[u] = stage[u] /\ (u \in held' => u \in held)
      BY <1>3 DEF Restore, Save, Hold, Enqueue, StoreTypes
    <3>2. UNCHANGED queue \/ queue' = Append(queue, t)
      BY <1>3 DEF Restore, Hold, Enqueue
    <3>3. \A u \in Tasks \ {t} : Queued(u)' => Queued(u)
      BY <3>2, QueuedAppend DEF Queued, MemoryTypes
    <3>. QED
      BY <2>1, <2>2, <3>1, <3>3, UnsubmittedStays
  <2>4. FuturesOpen'
    BY <2>1 DEF FuturesOpen, CallTypes, MemoryTypes
  <2>5. WaitsKnown' /\ AliasesKnown' /\ ResolvesTaken'
    BY <2>1, <2>2 DEF WaitsKnown, AliasesKnown, ResolvesTaken
  <2>6. Booting'
    BY <2>1 DEF Booting
  <2>7. RestoringApart'
    BY <2>1 DEF RestoringApart
  <2>. QED
    BY <2>3, <2>4, <2>5, <2>6, <2>7 DEF PromiseInv
<1>4. ASSUME NEW t \in Tasks, ResolveHold(t)
      PROVE  PromiseInv'
  <2>1. /\ t \in held /\ held' \subseteq held
        /\ UNCHANGED <<up, pc, resolves, futures, aliases, waits, restoring, sub,
                       fut, todo, cur, noted>>
    BY <1>4 DEF ResolveHold, bootVars, askVars, callVars, agentVars, passVars,
       taskTables
  <2>2. sub[t] # "idle"
    BY <2>1, InHandSubmitted
  <2>3. \A u \in Tasks \ {t} : stage'[u] = stage[u]
    BY <1>4 DEF ResolveHold, Save, StoreTypes
  <2>4. UNCHANGED queue \/ queue' = Append(queue, t)
    BY <1>4 DEF ResolveHold, taskTables
  <2>5. \A u \in Tasks \ {t} : Queued(u)' => Queued(u)
    BY <2>4, QueuedAppend DEF Queued, MemoryTypes
  <2>6. Unsubmitted'
    BY <2>1, <2>2, <2>3, <2>5, UnsubmittedStays
  <2>. QED
    BY <2>1, <2>6, PromiseFrames DEF PromiseInv
<1>5. CASE \/ Started \/ Pause \/ Unpause \/ (\E t \in Tasks : Accept(t))
           \/ (\E x \in Works : WorkReady(x)) \/ \E k \in Keys : Expire(k)
  <2>1. UNCHANGED <<stage, futures, aliases, sub, waits, fut, held, queue, todo,
                    cur, noted, pc, resolves, restoring>>
    BY <1>5 DEF Started, Pause, Unpause, Accept, WorkReady, Expire, storeVars,
       bootVars, taskTables, askVars, callVars, agentVars, passVars
  <2>2. UNCHANGED up \/ (restoring = {} /\ up = "starting" /\ up' = "up")
    BY <1>5 DEF Started, Pause, Unpause, Accept, WorkReady, Expire, bootVars
  <2>3. Unsubmitted'
    BY <2>1, UnsubmittedStays DEF Queued
  <2>4. Booting'
    BY <2>1, <2>2 DEF Booting
  <2>. QED
    BY <2>1, <2>3, <2>4, PromiseFrames DEF PromiseInv
<1>. QED
  BY <1>1, <1>2, <1>3, <1>4, <1>5 DEF BootStep, Environment

\* What the promise rests on holds always.
LEMMA PromiseInvHolds == Spec => []PromiseInv
<1>1. Init => PromiseInv
  <2>. SUFFICES ASSUME Init PROVE PromiseInv
    OBVIOUS
  <2>1. Unsubmitted
    BY ConstantsAssumption DEF Init, Unsubmitted, Queued, ConstantsAssumption
  <2>2. /\ FuturesOpen /\ WaitsKnown /\ AliasesKnown /\ ResolvesTaken
        /\ RestoringApart
    BY DEF Init, FuturesOpen, WaitsKnown, AliasesKnown, ResolvesTaken, RestoringApart
  <2>3. Booting
    BY DEF Init, Booting
  <2>. QED
    BY <2>1, <2>2, <2>3 DEF PromiseInv
<1>2. TypeInv /\ PromiseInv /\ [Next]_vars => PromiseInv'
  <2>1. ASSUME TypeInv, PromiseInv, Next
        PROVE  PromiseInv'
    BY <2>1, SubmitPromise, WorkerPromise, PassPromise, OutsidePromise
    DEF Next, Agents
  <2>2. ASSUME PromiseInv, UNCHANGED vars
        PROVE  PromiseInv'
    <3>1. UNCHANGED <<stage, futures, aliases, sub, waits, fut, held, queue, todo,
                      cur, noted, pc, resolves, restoring, up>>
      BY <2>2 DEF vars, storeVars, bootVars, taskTables, askVars, callVars,
         agentVars, passVars
    <3>2. Unsubmitted'
      BY <2>2, <3>1, UnsubmittedStays DEF Queued, PromiseInv
    <3>. QED
      BY <2>2, <3>1, <3>2, PromiseFrames DEF PromiseInv
  <2>. QED
    BY <2>1, <2>2
<1>3. Spec => []TypeInv
  BY TypeCorrect, PTL DEF TypeInv
<1>. QED
  BY <1>1, <1>2, <1>3, PTL DEF Spec

-----------------------------------------------------------------------------
(***************************************************************************)
(* The steps of the agent as steps of the promise.                         *)
(***************************************************************************)
\* The refinement mapping of Promise.
Phase == [ t \in Tasks |-> IF waits[t] # NoTask THEN fut[waits[t]]
                           ELSE IF sub[t] = "idle" THEN "idle" ELSE "gone" ]

\* A phase is "idle" exactly while the task was never submitted.
LEMMA IdlePhase ==
  ASSUME TypeInv, PromiseInv, NEW c \in Tasks
  PROVE  Phase[c] = "idle" <=> sub[c] = "idle"
<1>1. CallTypes /\ Unsubmitted
  BY DEF TypeInv, TypeOK, PromiseInv
<1>2. waits[c] # NoTask => fut[waits[c]] \in {"ok", "fail", "none", "pending"}
  BY <1>1 DEF CallTypes, Verdict
<1>. QED
  BY <1>1, <1>2 DEF Phase, Unsubmitted

\* A step that changes no future anyone waits for is a stutter.
LEMMA PhaseStays ==
  ASSUME UNCHANGED waits,
         \A c \in Tasks : sub'[c] = "idle" <=> sub[c] = "idle",
         \A c \in Tasks : waits[c] # NoTask => fut'[waits[c]] = fut[waits[c]]
  PROVE  UNCHANGED Phase
  BY DEF Phase

\* A submission asks.
LEMMA SubmitAsks ==
  ASSUME TypeInv, PromiseInv, NEW t \in Tasks,
         SubmitLiveDuplicate(t) \/ SubmitRecentDuplicate(t) \/ SubmitFresh(t)
  PROVE  /\ Phase[t] = "idle"
         /\ \E p \in {"ok", "fail", "pending"} : Phase' = [Phase EXCEPT ![t] = p]
<1>0. /\ MemoryTypes /\ CallTypes /\ Unsubmitted /\ FuturesOpen /\ WaitsKnown
  BY DEF TypeInv, TypeOK, PromiseInv
<1>. USE <1>0
<1>1. sub[t] = "idle"
  BY DEF SubmitLiveDuplicate, SubmitRecentDuplicate, SubmitFresh
<1>2. Phase[t] = "idle"
  BY <1>1, IdlePhase
<1>3. \A c \in Tasks \ {t} : sub'[c] = sub[c] /\ waits'[c] = waits[c]
  BY DEF SubmitLiveDuplicate, SubmitRecentDuplicate, SubmitFresh, CallTypes
<1>4. \A c \in Tasks : c # t => fut'[c] = fut[c]
  BY DEF SubmitLiveDuplicate, SubmitRecentDuplicate, SubmitFresh, CallTypes
<1>5. \A c \in Tasks \ {t} : waits[c] # NoTask => waits[c] \in Tasks \ {t}
  BY <1>1 DEF WaitsKnown, CallTypes
<1>6. \A c \in Tasks \ {t} : Phase'[c] = Phase[c]
  BY <1>3, <1>4, <1>5 DEF Phase
<1>7. waits'[t] \in Tasks /\ fut'[waits'[t]] \in {"ok", "fail", "pending"}
  <2>1. CASE SubmitLiveDuplicate(t)
    <3>1. PICK e \in LiveDuplicates(t) :
            IF e \in futures
            THEN waits' = [waits EXCEPT ![t] = e] /\ UNCHANGED <<aliases, fut>>
            ELSE /\ waits' = [waits EXCEPT ![t] = t]
                 /\ fut' = [fut EXCEPT ![t] = "pending"]
                 /\ aliases' = aliases \cup {<<t, e>>}
      BY <2>1 DEF SubmitLiveDuplicate
    <3>2. e \in Tasks
      BY DEF LiveDuplicates, MemoryTypes
    <3>. QED
      BY <3>1, <3>2 DEF FuturesOpen, CallTypes
  <2>2. CASE SubmitRecentDuplicate(t)
    <3>1. recent[Key[t]] \in {"ok", "fail"}
      BY <2>2, KeyInKeys DEF SubmitRecentDuplicate, MemoryTypes, Verdict
    <3>. QED
      BY <2>2, <3>1 DEF SubmitRecentDuplicate, CallTypes
  <2>3. CASE SubmitFresh(t)
    BY <2>3 DEF SubmitFresh, CallTypes
  <2>. QED
    BY <2>1, <2>2, <2>3
<1>8. Phase'[t] = fut'[waits'[t]]
  BY <1>7, ConstantsAssumption DEF Phase, ConstantsAssumption
<1>9. Phase' = [Phase EXCEPT ![t] = fut'[waits'[t]]]
  BY <1>6, <1>8 DEF Phase
<1>. QED
  BY <1>2, <1>7, <1>9

\* Resolving a set of futures answers everyone who waits for one of them and
\* has had no answer yet, all at once and with one verdict.
LEMMA ResolvedAnswers ==
  ASSUME TypeInv, PromiseInv, NEW set, NEW v \in Verdict,
         fut' = Resolved(set, v), UNCHANGED <<sub, waits>>
  PROVE  \/ UNCHANGED Phase
         \/ \E group \in SUBSET Tasks :
              /\ group # {} /\ \A c \in group : Phase[c] = "pending"
              /\ Phase' = [c \in Tasks |-> IF c \in group THEN v ELSE Phase[c]]
<1>. DEFINE Group == { c \in Tasks : /\ waits[c] # NoTask /\ waits[c] \in set
                                     /\ fut[waits[c]] = "pending" }
<1>1. CallTypes
  BY DEF TypeInv, TypeOK
<1>2. \A c \in Group : Phase[c] = "pending" /\ Phase'[c] = v
  BY <1>1 DEF Phase, Resolved, CallTypes
<1>3. \A c \in Tasks \ Group : Phase'[c] = Phase[c]
  BY <1>1 DEF Phase, Resolved, CallTypes
<1>4. Phase' = [c \in Tasks |-> IF c \in Group THEN v ELSE Phase[c]]
  <2>1. Phase' = [c \in Tasks |-> Phase'[c]]
    BY DEF Phase
  <2>2. \A c \in Tasks : Phase'[c] = IF c \in Group THEN v ELSE Phase[c]
    BY <1>2, <1>3
  <2>. HIDE DEF Phase, Group
  <2>. QED
    BY <2>1, <2>2
<1>5. CASE Group = {}
  <2>1. Phase' = [c \in Tasks |-> Phase[c]]
    BY <1>4, <1>5
  <2>. QED
    BY <2>1 DEF Phase
<1>6. CASE Group # {}
  BY <1>2, <1>4, <1>6
<1>. QED
  BY <1>5, <1>6

\* Every step of the agent is a step of the promise, or a stutter.
LEMMA StepKeepsPromise ==
  ASSUME TypeInv, PromiseInv, [Next]_vars
  PROVE  [Promise!Next]_Phase
<1>0. /\ MemoryTypes /\ CallTypes /\ AgentTypes /\ Unsubmitted /\ WaitsKnown
      /\ Booting /\ RestoringApart
  BY DEF TypeInv, TypeOK, PromiseInv
<1>. USE <1>0
<1>1. ASSUME NEW t \in Tasks,
             SubmitLiveDuplicate(t) \/ SubmitRecentDuplicate(t) \/ SubmitFresh(t)
      PROVE  Promise!Next
  BY <1>1, SubmitAsks DEF Phase, Promise!Next, Promise!Ask, Promise!Verdicts
<1>2. ASSUME NEW set, NEW v \in Verdict, fut' = Resolved(set, v),
             UNCHANGED <<sub, waits>>
      PROVE  [Promise!Next]_Phase
  <2>1. \/ UNCHANGED Phase
        \/ \E group \in SUBSET Tasks :
             /\ group # {} /\ \A c \in group : Phase[c] = "pending"
             /\ Phase' = [c \in Tasks |-> IF c \in group THEN v ELSE Phase[c]]
    BY <1>2, ResolvedAnswers
  <2>. QED
    BY <2>1, ZenonT(60) DEF Phase, Promise!Next, Promise!Answer, Promise!Verdicts, Verdict
<1>3. ASSUME NEW w \in Workers, PublishException(w)
      PROVE  [Promise!Next]_Phase
  <2>1. fut' = Resolved(Awaiting(cur[w]), "fail") /\ UNCHANGED <<sub, waits>>
    BY <1>3 DEF PublishException
  <2>. QED
    BY <1>2, <2>1 DEF Verdict
<1>4. ASSUME NEW a \in Workers, EndPass(a)
      PROVE  [Promise!Next]_Phase
  <2>1. fut' = Resolved(resolves[a], outcome[a]) /\ UNCHANGED <<sub, waits>>
    BY <1>4 DEF EndPass
  <2>2. outcome[a] \in Verdict
    BY DEF AgentTypes
  <2>. QED
    BY <1>2, <2>1, <2>2
<1>5. CASE Crash
  <2>1. /\ sub' = [t \in Tasks |-> IF sub[t] = "idle" THEN "idle" ELSE "done"]
        /\ waits' = [t \in Tasks |-> NoTask]
    BY <1>5 DEF Crash
  <2>2. \A c \in Tasks : Phase'[c] = IF sub[c] = "idle" THEN "idle" ELSE "gone"
    BY <2>1 DEF Phase
  <2>3. \A c \in Tasks : Phase'[c] = IF Phase[c] = "idle" THEN "idle" ELSE "gone"
    BY <2>2, IdlePhase
  <2>4. Phase' = [c \in Tasks |-> IF Phase[c] = "idle" THEN "idle" ELSE "gone"]
    <3>1. Phase' = [c \in Tasks |-> Phase'[c]]
      BY DEF Phase
    <3>. HIDE DEF Phase
    <3>. QED
      BY <2>3, <3>1
  <2>. QED
    BY <2>4 DEF Phase, Promise!Next, Promise!Die
<1>6. ASSUME NEW t \in Tasks, Restore(t)
      PROVE  UNCHANGED Phase
  <2>1. /\ fut' = [fut EXCEPT ![t] = "pending"] /\ UNCHANGED <<sub, waits>>
        /\ \A c \in Tasks : waits[c] # t
    BY <1>6 DEF Restore, RestoringApart
  <2>. QED
    BY <2>1, PhaseStays DEF CallTypes
<1>7. ASSUME NEW t \in Tasks, SubmitOnward(t)
      PROVE  UNCHANGED Phase
  <2>1. UNCHANGED <<waits, fut>> /\ \A c \in Tasks : sub'[c] = "idle" <=> sub[c] = "idle"
    BY <1>7 DEF SubmitOnward, SubmitCheckDependencies, SubmitHold, SubmitAware,
       SubmitEnqueue,
       CallTypes
  <2>. QED
    BY <2>1, PhaseStays
<1>8. ASSUME UNCHANGED callVars
      PROVE  UNCHANGED Phase
  BY <1>8, PhaseStays DEF callVars
<1>9. ASSUME NEW w \in Workers, WorkerStep(w), ~PublishException(w)
      PROVE  UNCHANGED callVars
  BY <1>9 DEF WorkerStep, TakeAndHold, WorkerAware, HoldRaises, HoldForPause, Take,
     Plan, Begin, Refused, RunDone,
     RunFail, RunRetry, RunProgress, RunEnd, Raise, Exhaust, Requeue, Retire,
     Record, Receipt, Publish, HandleException, WorkerDies
<1>10. ASSUME NEW a \in Agents, PassStep(a) \/ HeartbeatStart(a),
              ~(a \in Workers /\ EndPass(a))
       PROVE  UNCHANGED callVars
  BY <1>10 DEF PassStep, ExamineHeld, EndPass, EndPassKeyError, PassRaises, HeartbeatStart,
     callVars
<1>11. ASSUME \/ Start \/ Started \/ Pause \/ Unpause
              \/ (\E t \in Tasks : Accept(t) \/ ResolveHold(t))
              \/ (\E x \in Works : WorkReady(x)) \/ \E k \in Keys : Expire(k)
       PROVE  UNCHANGED callVars
  BY <1>11 DEF Start, Started, Pause, Unpause, Accept, ResolveHold, WorkReady, Expire
<1>12. CASE UNCHANGED vars
  BY <1>8, <1>12 DEF vars
<1>13. CASE Next
  <2>1. ASSUME NEW w \in Workers, WorkerStep(w)
        PROVE  [Promise!Next]_Phase
    BY <1>3, <1>8, <1>9, <2>1 DEF Phase
  <2>2. ASSUME NEW a \in Agents, PassStep(a) \/ HeartbeatStart(a)
        PROVE  [Promise!Next]_Phase
    BY <1>4, <1>8, <1>10, <2>2 DEF Phase
  <2>3. BootStep \/ Environment => [Promise!Next]_Phase
    BY <1>5, <1>6, <1>8, <1>11 DEF BootStep, Environment, Phase
  <2>. QED
    BY <1>1, <1>7, <1>13, <2>1, <2>2, <2>3 DEF Next, Agents, Phase
<1>. QED
  BY <1>12, <1>13

\* The agent implements what TaskPromise says may happen to a caller: it is
\* asked once, answered once with one verdict together with everyone who
\* shares the future, or goes with the process; no answer is ever changed or
\* taken back, whatever crashes, restarts, retries and exceptions come between.
THEOREM PromiseNeverBroken == Spec => Promise!Safety
<1>1. Init => Promise!Init
  BY DEF Init, Promise!Init
<1>2. TypeInv /\ PromiseInv /\ [Next]_vars => [Promise!Next]_Phase
  BY StepKeepsPromise
<1>3. Spec => []TypeInv
  BY TypeCorrect, PTL DEF TypeInv
<1>. QED
  BY <1>1, <1>2, <1>3, PromiseInvHolds, PTL DEF Spec, Promise!Safety, Phase

=============================================================================
