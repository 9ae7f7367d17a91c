---------------------------- MODULE BoundedAgent ----------------------------
(***************************************************************************)
(* The bounded assistant agent (opencas/execution/baa.py): callers submit  *)
(* tasks and get futures, a task whose preconditions are not met is held,  *)
(* a pool of workers takes tasks from the lane's queue, runs them, records *)
(* the result durably and resolves the future, and any worker or the       *)
(* scheduler's heartbeat may move held tasks to the lane.  The process may *)
(* crash and restart from the task store.                                  *)
(*                                                                         *)
(* An action is the code between two awaits at which another coroutine can *)
(* change what the action reads.  A write of a task to the store is part   *)
(* of the action that changes the task, so one variable "stage" stands for *)
(* both task.stage and the stage column of the row.                        *)
(***************************************************************************)
EXTENDS Naturals, Sequences, FiniteSets, TaskLifecycle

CONSTANTS
  Tasks,            \* task ids; each is submitted at most once
  Works,            \* work objects a task may depend on (the work store)
  Workers,          \* worker coroutines of the lane
  Heartbeats,       \* coroutines that call try_release_held
  NoTask,
  Deps,             \* task.depends_on
  Key,              \* the duplicate key: objective, project and commitment
  Reflective,       \* tasks that originate in the reflective context lane
  Manual,           \* tasks an executive pause does not hold
  Operated,         \* tasks for which an operator may call resolve_hold
  MaxAttempts,      \* task.max_attempts
  ProgressCap,      \* _ARTIFACT_PROGRESS_RECOVERY_CAP
  RestoreLimit,     \* the limit of list_pending
  Faults,           \* where an exception may be raised
  MaxRaises,        \* bound on exceptions while tasks are held or released
  MaxPauses, MaxCrashes   \* bounds on environment steps

Agents == Workers \cup Heartbeats
Keys == { Key[t] : t \in Tasks }

ASSUME ConstantsAssumption ==
  /\ NoTask \notin Tasks
  /\ Tasks \cap Works = {}
  /\ Workers \cap Heartbeats = {}
  /\ Deps \in [Tasks -> SUBSET (Tasks \cup Works)]
  /\ Reflective \subseteq Tasks
  /\ Manual \subseteq Tasks
  /\ Operated \subseteq Tasks
  /\ MaxAttempts \in Nat \ {0}
  /\ ProgressCap \in Nat \ {0}
  /\ RestoreLimit \in Nat
  /\ Faults \subseteq {"run", "record", "handler"}
  /\ MaxRaises \in Nat
  /\ MaxPauses \in Nat
  /\ MaxCrashes \in Nat

VARIABLES
  \* the environment
  paused,     \* executive.recommend_pause()
  accepted,   \* reflective tasks whose proposal is committed
  finished,   \* history: tasks with a recorded result, work objects ready
  pauses, raises, crashes,
  \* the task store
  stage, stored, count, receipts,
  \* the agent's memory
  up, restoring, queue, held, live, futures, aliases, results, recent,
  \* callers: progress of submit, the future it returned, future values
  sub, waits, fut,
  \* workers and heartbeats: position, task in hand, its outcome, and the
  \* locals of a release pass, of the end of _run_bounded and of a hold
  pc, cur, outcome, todo, released, resolves, noted

envVars    == <<paused, accepted, pauses, raises>>
storeVars  == <<stage, stored, count, receipts, finished>>
bootVars   == <<up, restoring, crashes>>
taskTables == <<queue, held, live>>
askVars    == <<futures, aliases, results, recent>>
callVars   == <<sub, waits, fut>>
passVars   == <<todo, released, resolves, noted>>
agentVars  == <<pc, cur, outcome, passVars>>
vars == <<envVars, storeVars, bootVars, taskTables, askVars, callVars, agentVars>>

Stage   == {"new", "queued", "planning", "executing", "recovering", "done", "failed"}
Verdict == {"ok", "fail"}
Busy    == {"plan", "execute", "run", "retry", "progress", "terminal", "record",
            "receipt", "publish", "release", "except", "xrecord", "xreceipt",
            "xpublish"}
Labels   == Busy \cup {"idle", "dead", "aware"}
Counters == [attempt : Nat, recovery : Nat, boundary : Nat]

StoreTypes ==
  /\ stage \in [Tasks -> Stage]
  /\ stored \in [Tasks -> Verdict \cup {"none"}]
  /\ count \in [Tasks -> Counters]
  /\ receipts \subseteq Tasks
  /\ finished \subseteq Tasks \cup Works

MemoryTypes ==
  /\ up \in {"down", "starting", "up"} /\ restoring \subseteq Tasks
  /\ queue \in Seq(Tasks)
  /\ held \subseteq Tasks /\ live \subseteq Tasks /\ futures \subseteq Tasks
  /\ aliases \subseteq Tasks \X Tasks
  /\ results \in [Tasks -> Verdict \cup {"none"}]
  /\ recent \in [Keys -> Verdict \cup {"none"}]

CallTypes ==
  /\ sub \in [Tasks -> {"idle", "checking", "hold", "enqueue", "aware", "done"}]
  /\ waits \in [Tasks -> Tasks \cup {NoTask}]
  /\ fut \in [Tasks -> Verdict \cup {"none", "pending"}]

AgentTypes ==
  /\ pc \in [Agents -> Labels]
  /\ cur \in [Workers -> Tasks \cup {NoTask}]
  /\ outcome \in [Workers -> Verdict]
  /\ todo \in [Agents -> SUBSET Tasks]
  /\ released \in [Agents -> SUBSET Tasks]
  /\ resolves \in [Agents -> SUBSET Tasks]
  /\ noted \in [Workers -> Tasks \cup {NoTask}]

EnvTypes ==
  /\ paused \in BOOLEAN /\ accepted \subseteq Reflective
  /\ pauses \in Nat /\ raises \in Nat /\ crashes \in Nat

TypeOK == EnvTypes /\ StoreTypes /\ MemoryTypes /\ CallTypes /\ AgentTypes

Init ==
  /\ paused = FALSE /\ pauses = 0 /\ raises = 0 /\ crashes = 0
  /\ accepted = {} /\ finished = {}
  /\ stage = [t \in Tasks |-> "new"]
  /\ stored = [t \in Tasks |-> "none"]
  /\ count = [t \in Tasks |-> [attempt |-> 0, recovery |-> 0, boundary |-> 0]]
  /\ receipts = {}
  /\ up = "up" /\ restoring = {}
  /\ queue = <<>> /\ held = {} /\ live = {} /\ futures = {} /\ aliases = {}
  /\ results = [t \in Tasks |-> "none"]
  /\ recent = [k \in Keys |-> "none"]
  /\ sub = [t \in Tasks |-> "idle"]
  /\ waits = [t \in Tasks |-> NoTask]
  /\ fut = [t \in Tasks |-> "none"]
  /\ pc = [a \in Agents |-> "idle"]
  /\ cur = [w \in Workers |-> NoTask]
  /\ outcome = [w \in Workers |-> "fail"]
  /\ todo = [a \in Agents |-> {}]
  /\ released = [a \in Agents |-> {}]
  /\ resolves = [a \in Agents |-> {}]
  /\ noted = [w \in Workers |-> NoTask]

-----------------------------------------------------------------------------
(***************************************************************************)
(* Helpers.                                                                *)
(***************************************************************************)

\* store.save writes the whole row and clears its result columns.
Save(t, s) ==
  /\ stage' = [stage EXCEPT ![t] = s]
  /\ stored' = [stored EXCEPT ![t] = "none"]

\* (Slips that the properties must tell from the code follow the pattern
\* "Wrong: ...", each next to the operator it stands in for.)
\* Wrong: the stage's name goes into the result column.
SaveResultAsStage(t, v) ==
  /\ stage' = [stage EXCEPT ![t] = IF v = "ok" THEN "done" ELSE "failed"]
  /\ stored' = [stored EXCEPT ![t] = stage'[t]]
  /\ finished' = finished \cup {t}

\* store.save_result writes the result, and with it the stage.
SaveResult(t, v) ==
  /\ stored' = [stored EXCEPT ![t] = v]
  /\ stage' = [stage EXCEPT ![t] = IF v = "ok" THEN "done" ELSE "failed"]
  /\ finished' = finished \cup {t}

\* _transition_task reads RECOVERING as EXECUTING and refuses, with a
\* ValueError, what the lifecycle table does not list; staying is allowed.
FromStage(t) == IF stage[t] = "recovering" THEN "executing"
                ELSE IF stage[t] = "new" THEN "queued" ELSE stage[t]
\* Wrong: staying in a stage is looked up in the table too.
CanOnlyMove(t, to) == IsValid(FromStage(t), to)
CanTransition(t, to) == FromStage(t) = to \/ IsValid(FromStage(t), to)

\* Wrong: a task that has been held once is let through.
GuardHoldsOnce(t) == t \in (Reflective \ accepted) \ held
\* _context_guard_hold_reason: a reflective task is held until committed.
GuardHolds(t) == t \in Reflective \ accepted

\* _executive_pause_hold_reason
PauseHolds(t) == paused /\ t \notin Manual

\* Wrong: a dependency that is not live any more, or not yet, is ready.
DependenciesNotLive(t) == Deps[t] \cap live = {}
\* _dependencies_ready: any result counts, in memory or in the store.
DependenciesReady(t) ==
  \A d \in Deps[t] :
    IF d \in Works THEN d \in finished
                   ELSE results[d] # "none" \/ stored[d] # "none"

Hold(t) == held' = held \cup {t} /\ live' = live \cup {t} /\ UNCHANGED queue
Enqueue(t) ==
  queue' = Append(queue, t) /\ live' = live \cup {t} /\ UNCHANGED held

-----------------------------------------------------------------------------
(***************************************************************************)
(* submit.                                                                 *)
(***************************************************************************)
LiveDuplicates(t) == { e \in live \ {t} : Key[e] = Key[t] }

\* A live task with the same key answers: its future if it has one, else an
\* alias that is resolved with it.
SubmitLiveDuplicate(t) ==
  /\ up # "down" /\ sub[t] = "idle"
  /\ \E e \in LiveDuplicates(t) :
       IF e \in futures
       THEN /\ waits' = [waits EXCEPT ![t] = e]
            /\ UNCHANGED <<aliases, fut>>
       ELSE /\ waits' = [waits EXCEPT ![t] = t]
            /\ fut' = [fut EXCEPT ![t] = "pending"]
            /\ aliases' = aliases \cup {<<t, e>>}
  /\ sub' = [sub EXCEPT ![t] = "done"]
  /\ UNCHANGED <<envVars, storeVars, bootVars, taskTables, futures, results,
                 recent, agentVars>>

\* A recent result with the same key answers at once: a success always, a
\* failure when the retry governor refused another attempt (data here).
SubmitRecentDuplicate(t) ==
  /\ up # "down" /\ sub[t] = "idle"
  /\ LiveDuplicates(t) = {} /\ recent[Key[t]] # "none"
  /\ waits' = [waits EXCEPT ![t] = t]
  /\ fut' = [fut EXCEPT ![t] = recent[Key[t]]]
  /\ sub' = [sub EXCEPT ![t] = "done"]
  /\ UNCHANGED <<envVars, storeVars, bootVars, taskTables, askVars, agentVars>>

\* A task that is no duplicate gets a future.  It is held at once by the
\* context guard or a pause, and submit goes on to record the hold for the
\* agent's awareness; otherwise it goes on to the task's dependencies.
SubmitFresh(t) ==
  /\ up # "down" /\ sub[t] = "idle"
  /\ LiveDuplicates(t) = {} /\ recent[Key[t]] # "ok"
  /\ futures' = futures \cup {t}
  /\ waits' = [waits EXCEPT ![t] = t]
  /\ fut' = [fut EXCEPT ![t] = "pending"]
  /\ IF GuardHolds(t) \/ PauseHolds(t)
     THEN /\ Hold(t) /\ Save(t, "queued")
          /\ sub' = [sub EXCEPT ![t] = "aware"]
     ELSE /\ sub' = [sub EXCEPT ![t] = "checking"]
          /\ UNCHANGED <<taskTables, stage, stored>>
  /\ UNCHANGED <<envVars, count, receipts, finished, bootVars, aliases, results,
                 recent, agentVars>>

\* The dependency check awaits the stores; what it saw may be stale when
\* the task is held or queued.
SubmitCheckDependencies(t) ==
  /\ sub[t] = "checking"
  /\ sub' = [sub EXCEPT ![t] = IF DependenciesReady(t) THEN "enqueue" ELSE "hold"]
  /\ UNCHANGED <<envVars, storeVars, bootVars, taskTables, askVars, waits, fut,
                 agentVars>>

SubmitHold(t) ==
  /\ sub[t] = "hold"
  /\ Hold(t) /\ Save(t, "queued")
  /\ sub' = [sub EXCEPT ![t] = "aware"]
  /\ UNCHANGED <<envVars, count, receipts, finished, bootVars, askVars, waits,
                 fut, agentVars>>

\* _record_baa_awareness(status = held) saves the task once more when the
\* message is written.  By then the task may have been released, run and
\* recorded, and the save clears its result.
SubmitAware(t) ==
  /\ sub[t] = "aware"
  /\ Save(t, stage[t])
  /\ sub' = [sub EXCEPT ![t] = "done"]
  /\ UNCHANGED <<envVars, count, receipts, finished, bootVars, taskTables,
                 askVars, waits, fut, agentVars>>

SubmitEnqueue(t) ==
  /\ sub[t] = "enqueue"
  /\ Enqueue(t) /\ Save(t, "queued")
  /\ sub' = [sub EXCEPT ![t] = "done"]
  /\ UNCHANGED <<envVars, count, receipts, finished, bootVars, askVars, waits,
                 fut, agentVars>>

-----------------------------------------------------------------------------
(***************************************************************************)
(* Workers: _worker_coro, _run_bounded, _handle_worker_exception.          *)
(***************************************************************************)
Goto(a, label) == pc' = [pc EXCEPT ![a] = label]

\* The worker lets go of its task and waits for the next one.
Drop(w) == cur' = [cur EXCEPT ![w] = NoTask] /\ Goto(w, "idle")

\* _hold_task_for_executive_pause: the worker holds a task, saves it, and
\* goes on to record the hold for the agent's awareness.
HoldForPause(w, t, s) ==
  /\ Save(t, s)
  /\ held' = held \cup {t} /\ live' = live \cup {t}
  /\ cur' = [cur EXCEPT ![w] = NoTask]
  /\ noted' = [noted EXCEPT ![w] = t] /\ Goto(w, "aware")
  /\ UNCHANGED <<todo, released, resolves>>

\* The same late save as in submit.
WorkerAware(w) ==
  /\ pc[w] = "aware"
  /\ Save(noted[w], stage[noted[w]])
  /\ noted' = [noted EXCEPT ![w] = NoTask] /\ Goto(w, "idle")
  /\ UNCHANGED <<envVars, count, receipts, finished, bootVars, taskTables,
                 askVars, callVars, cur, outcome, todo, released, resolves>>

CountRaise ==
  raises < MaxRaises /\ raises' = raises + 1 /\ UNCHANGED <<paused, accepted, pauses>>

\* A save of the task the worker has put in the held table fails.
HoldRaises(w) ==
  /\ pc[w] = "aware" /\ CountRaise
  /\ cur' = [cur EXCEPT ![w] = noted[w]]
  /\ noted' = [noted EXCEPT ![w] = NoTask] /\ Goto(w, "except")
  /\ UNCHANGED <<storeVars, bootVars, taskTables, askVars, callVars, outcome,
                 todo, released, resolves>>

\* The task taken from the lane is held again when the executive is paused.
TakeAndHold(w) ==
  /\ up = "up" /\ pc[w] = "idle" /\ queue # <<>>
  /\ LET t == Head(queue) IN
       /\ PauseHolds(t)
       /\ queue' = Tail(queue)
       /\ HoldForPause(w, t, stage[t])
  /\ UNCHANGED <<envVars, count, receipts, finished, bootVars, askVars, callVars,
                 outcome>>

Take(w) ==
  /\ up = "up" /\ pc[w] = "idle" /\ queue # <<>>
  /\ ~PauseHolds(Head(queue))
  /\ queue' = Tail(queue)
  /\ cur' = [cur EXCEPT ![w] = Head(queue)]
  /\ Goto(w, "plan")
  /\ UNCHANGED <<envVars, storeVars, bootVars, held, live, askVars, callVars,
                 outcome, passVars>>

\* A RECOVERING result counts one recovery, kept in the task's meta; at the
\* cap the task fails.
Counted(w) ==
  IF pc[w] = "progress"
  THEN [count[cur[w]] EXCEPT !.boundary = @ + 1]
  ELSE [count[cur[w]] EXCEPT !.recovery = @ + 1]
\* Wrong: the cap on continuations is off by one.
AtCapLate(w) ==
  IF pc[w] = "progress" THEN Counted(w).boundary > ProgressCap
                        ELSE Counted(w).recovery >= MaxAttempts
AtCap(w) ==
  IF pc[w] = "progress" THEN Counted(w).boundary >= ProgressCap
                        ELSE Counted(w).recovery >= MaxAttempts

\* The stage the worker's next transition asks for; a refused transition
\* raises ValueError into the worker's handler.
AsksFor(w) == CASE pc[w] = "plan"    -> "planning"
                [] pc[w] = "execute" -> "executing"
                [] OTHER -> IF AtCap(w) THEN "failed" ELSE "queued"

Refused(w) ==
  /\ pc[w] \in {"plan", "execute", "retry", "progress"}
  /\ ~CanTransition(cur[w], AsksFor(w))
  /\ Goto(w, "except")
  /\ UNCHANGED <<envVars, storeVars, bootVars, taskTables, askVars, callVars,
                 cur, outcome, passVars>>

\* PLANNING; a task that is (still) in the held table is dropped here.
Plan(w) ==
  /\ pc[w] = "plan" /\ CanTransition(cur[w], "planning")
  /\ Save(cur[w], "planning")
  /\ IF cur[w] \in held THEN Drop(w) ELSE Goto(w, "execute") /\ UNCHANGED cur
  /\ UNCHANGED <<envVars, count, receipts, finished, bootVars, taskTables,
                 askVars, callVars, outcome, passVars>>

\* EXECUTING, the same test, and the start of executor.run, which counts
\* and persists the attempt.
Begin(w) ==
  /\ pc[w] = "execute" /\ CanTransition(cur[w], "executing")
  /\ Save(cur[w], "executing")
  /\ IF cur[w] \in held
     THEN Drop(w) /\ UNCHANGED count
     ELSE /\ count' = [count EXCEPT ![cur[w]].attempt = @ + 1]
          /\ Goto(w, "run") /\ UNCHANGED cur
  /\ UNCHANGED <<envVars, receipts, finished, bootVars, taskTables, askVars,
                 callVars, outcome, passVars>>

\* How executor.run ends.  It asks for another run while attempts are left
\* or after artifact progress; which of the two it was, _run_bounded judges
\* anew from the result and the task's meta, so either label may follow.
RunEnd(w, s, label, v) ==
  /\ pc[w] = "run"
  /\ Save(cur[w], s) /\ Goto(w, label)
  /\ outcome' = [outcome EXCEPT ![w] = v]
  /\ UNCHANGED <<envVars, count, receipts, finished, bootVars, taskTables,
                 askVars, callVars, cur, passVars>>

RunDone(w)     == RunEnd(w, "done", "terminal", "ok")
RunFail(w)     == RunEnd(w, "failed", "terminal", "fail")
RunRetry(w)    == RunEnd(w, "recovering", "retry", "fail")
RunProgress(w) == RunEnd(w, "recovering", "progress", "fail")

\* An exception out of a transition or executor.run, or out of the
\* bookkeeping after a terminal result (for its transition, see Retire).
Raise(w) ==
  /\ \/ /\ pc[w] \in {"plan", "execute", "run", "retry", "progress"}
        /\ "run" \in Faults
     \/ pc[w] \in {"record", "receipt", "publish"} /\ "record" \in Faults
  /\ Goto(w, "except")
  /\ UNCHANGED <<envVars, storeVars, bootVars, taskTables, askVars, callVars,
                 cur, outcome, passVars>>

Exhaust(w) ==
  /\ pc[w] \in {"retry", "progress"} /\ AtCap(w)
  /\ CanTransition(cur[w], "failed")
  /\ count' = [count EXCEPT ![cur[w]] = Counted(w)]
  /\ Save(cur[w], "failed") /\ Goto(w, "terminal")
  /\ outcome' = [outcome EXCEPT ![w] = "fail"]
  /\ UNCHANGED <<envVars, receipts, finished, bootVars, taskTables, askVars,
                 callVars, cur, passVars>>

\* The start of _try_release_held: a snapshot of the held table.
StartPass(a, toResolve) ==
  /\ todo' = [todo EXCEPT ![a] = held]
  /\ released' = [released EXCEPT ![a] = {}]
  /\ resolves' = [resolves EXCEPT ![a] = toResolve]
  /\ UNCHANGED noted
  /\ Goto(a, "release")

\* Below the cap the task goes back to its lane, unless the executive is
\* paused, and the worker looks for held tasks to release.
Requeue(w) ==
  /\ pc[w] \in {"retry", "progress"} /\ ~AtCap(w)
  /\ CanTransition(cur[w], "queued")
  /\ count' = [count EXCEPT ![cur[w]] = Counted(w)]
  /\ IF PauseHolds(cur[w])
     THEN HoldForPause(w, cur[w], "queued") /\ UNCHANGED queue
     ELSE /\ Save(cur[w], "queued")
          /\ queue' = Append(queue, cur[w])
          /\ StartPass(w, {}) /\ UNCHANGED <<held, live, cur>>
  /\ UNCHANGED <<envVars, receipts, finished, bootVars, askVars, callVars, outcome>>

\* A terminal result: the task stops being live, then its stage is set;
\* a failure already staged is not transitioned again.
Target(w) == IF outcome[w] = "ok" THEN "done" ELSE "failed"

Retire(w) ==
  /\ pc[w] = "terminal"
  /\ live' = live \ {cur[w]}
  /\ \/ /\ CanTransition(cur[w], Target(w))
        /\ IF Target(w) = "failed" /\ stage[cur[w]] = "failed"
           THEN UNCHANGED <<stage, stored>>
           ELSE Save(cur[w], Target(w))
        /\ Goto(w, "record")
     \/ /\ ~CanTransition(cur[w], Target(w)) \/ "record" \in Faults
        /\ Goto(w, "except") /\ UNCHANGED <<stage, stored>>
  /\ UNCHANGED <<envVars, count, receipts, finished, bootVars, queue, held,
                 askVars, callVars, cur, outcome, passVars>>

\* The durable record of a terminal result, from _run_bounded and (labels
\* with an x) from _handle_worker_exception.
Record(w) ==
  /\ pc[w] \in {"record", "xrecord"}
  /\ SaveResult(cur[w], outcome[w])
  /\ Goto(w, IF pc[w] = "record" THEN "receipt" ELSE "xreceipt")
  /\ UNCHANGED <<envVars, count, receipts, bootVars, taskTables, askVars,
                 callVars, cur, outcome, passVars>>

Receipt(w) ==
  /\ pc[w] \in {"receipt", "xreceipt"}
  /\ receipts' = receipts \cup {cur[w]}
  /\ Goto(w, IF pc[w] = "receipt" THEN "publish" ELSE "xpublish")
  /\ UNCHANGED <<envVars, stage, stored, count, finished, bootVars, taskTables,
                 askVars, callVars, cur, outcome, passVars>>

\* _results, _futures, _duplicate_aliases and _recent_terminal.  A result
\* older than the remembered one does not replace it.
PublishTables(w) ==
  /\ results' = [results EXCEPT ![cur[w]] = outcome[w]]
  /\ futures' = futures \ {cur[w]}
  /\ aliases' = { p \in aliases : p[2] # cur[w] }
  /\ \/ recent' = [recent EXCEPT ![Key[cur[w]]] = outcome[w]]
     \/ recent[Key[cur[w]]] # "none" /\ UNCHANGED recent

\* Wrong: only the task's own future, or only its aliases.
AwaitingOwn(t) == futures \cap {t}
AwaitingAliases(t) == { r \in Tasks : <<r, t>> \in aliases }
Awaiting(t) == (futures \cap {t}) \cup { r \in Tasks : <<r, t>> \in aliases }

Resolved(set, v) ==
  [r \in Tasks |-> IF r \in set /\ fut[r] = "pending" THEN v ELSE fut[r]]

\* _run_bounded takes the futures out of the tables, but resolves them only
\* after a release pass.
Publish(w) ==
  /\ pc[w] = "publish"
  /\ PublishTables(w)
  /\ StartPass(w, Awaiting(cur[w]))
  /\ UNCHANGED <<envVars, storeVars, bootVars, taskTables, callVars, cur, outcome>>

\* Wrong: the handler records the outcome the run had.
HandleKeepsOutcome(w) ==
  /\ pc[w] = "except"
  /\ Save(cur[w], "failed")
  /\ live' = live \ {cur[w]}
  /\ Goto(w, "xrecord")
  /\ UNCHANGED <<envVars, count, receipts, finished, bootVars, queue, held,
                 askVars, callVars, cur, outcome, passVars>>

\* _handle_worker_exception: whatever the table says, the task is FAILED.
HandleException(w) ==
  /\ pc[w] = "except"
  /\ Save(cur[w], "failed")
  /\ live' = live \ {cur[w]}
  /\ outcome' = [outcome EXCEPT ![w] = "fail"]
  /\ Goto(w, "xrecord")
  /\ UNCHANGED <<envVars, count, receipts, finished, bootVars, queue, held,
                 askVars, callVars, cur, passVars>>

\* The handler resolves the futures at once and releases nothing.
PublishException(w) ==
  /\ pc[w] = "xpublish"
  /\ PublishTables(w)
  /\ fut' = Resolved(Awaiting(cur[w]), "fail")
  /\ Drop(w)
  /\ UNCHANGED <<envVars, storeVars, bootVars, taskTables, sub, waits, outcome,
                 passVars>>

\* An exception inside the handler ends the worker coroutine.
WorkerDies(w) ==
  /\ pc[w] \in {"except", "xrecord", "xreceipt", "xpublish"}
  /\ "handler" \in Faults
  /\ cur' = [cur EXCEPT ![w] = NoTask] /\ Goto(w, "dead")
  /\ UNCHANGED <<envVars, storeVars, bootVars, taskTables, askVars, callVars,
                 outcome, passVars>>

-----------------------------------------------------------------------------
(***************************************************************************)
(* Releasing held tasks: _try_release_held, run by the workers and by the  *)
(* scheduler's heartbeat, and resolve_hold.                                *)
(***************************************************************************)
\* try_release_held, the scheduler's hook; a pass over no task does nothing.
HeartbeatStart(h) ==
  /\ up # "down" /\ pc[h] = "idle" /\ held # {}
  /\ StartPass(h, {})
  /\ UNCHANGED <<envVars, storeVars, bootVars, taskTables, askVars, callVars,
                 cur, outcome>>

\* One task of the snapshot.  The held table is not read again, and a task
\* that is released stays in it until the end of the pass.
ExamineHeld(a, t) ==
  /\ pc[a] = "release" /\ t \in todo[a]
  /\ todo' = [todo EXCEPT ![a] = @ \ {t}]
  /\ \/ /\ PauseHolds(t) \/ GuardHolds(t)
        /\ Save(t, stage[t])
        /\ UNCHANGED <<queue, released>>
     \/ /\ ~PauseHolds(t) /\ ~GuardHolds(t) /\ DependenciesReady(t)
        /\ Save(t, stage[t])
        /\ queue' = Append(queue, t)
        /\ released' = [released EXCEPT ![a] = @ \cup {t}]
     \/ /\ ~PauseHolds(t) /\ ~GuardHolds(t) /\ ~DependenciesReady(t)
        /\ UNCHANGED <<stage, stored, queue, released>>
  /\ UNCHANGED <<envVars, count, receipts, finished, bootVars, held, live,
                 askVars, callVars, pc, cur, outcome, resolves, noted>>

ClearPass(a) ==
  /\ released' = [released EXCEPT ![a] = {}]
  /\ resolves' = [resolves EXCEPT ![a] = {}]
  /\ todo' = [todo EXCEPT ![a] = {}]
  /\ UNCHANGED noted

\* Wrong: the released tasks stay in the held table.
EndPassHolding(a) ==
  /\ pc[a] = "release" /\ todo[a] = {} /\ released[a] \subseteq held
  /\ fut' = IF a \in Workers THEN Resolved(resolves[a], outcome[a]) ELSE fut
  /\ ClearPass(a)
  /\ IF a \in Workers THEN Drop(a) ELSE Goto(a, "idle") /\ UNCHANGED cur
  /\ UNCHANGED <<envVars, storeVars, bootVars, queue, held, live, askVars, sub,
                 waits, outcome>>

\* The released tasks leave the held table, and a worker resolves the
\* futures it took out when it published.
EndPass(a) ==
  /\ pc[a] = "release" /\ todo[a] = {} /\ released[a] \subseteq held
  /\ held' = held \ released[a]
  /\ fut' = IF a \in Workers THEN Resolved(resolves[a], outcome[a]) ELSE fut
  /\ ClearPass(a)
  /\ IF a \in Workers THEN Drop(a) ELSE Goto(a, "idle") /\ UNCHANGED cur
  /\ UNCHANGED <<envVars, storeVars, bootVars, queue, live, askVars, sub, waits,
                 outcome>>

\* A task another pass already removed raises KeyError.  The deletions
\* before it stand, the futures taken out are forgotten; the heartbeat
\* swallows the exception, a worker treats its own task as failed.
EndPassKeyError(a) ==
  /\ pc[a] = "release" /\ todo[a] = {} /\ ~(released[a] \subseteq held)
  /\ \E gone \in SUBSET (released[a] \cap held) : held' = held \ gone
  /\ ClearPass(a)
  /\ Goto(a, IF a \in Workers THEN "except" ELSE "idle")
  /\ UNCHANGED <<envVars, storeVars, bootVars, queue, live, askVars, callVars,
                 cur, outcome>>

\* A store fails under the pass.  What it has put in the lane so far stays
\* in the held table as well, the futures taken out are forgotten, and a
\* worker treats its own task as failed, even if that is back in the lane.
PassRaises(a) ==
  /\ pc[a] = "release" /\ todo[a] # {} /\ CountRaise
  /\ ClearPass(a)
  /\ Goto(a, IF a \in Workers THEN "except" ELSE "idle")
  /\ UNCHANGED <<storeVars, bootVars, taskTables, askVars, callVars, cur, outcome>>

\* resolve_hold checks the context guard only; it takes the task out of the
\* held table before the transition to QUEUED, which may be refused.
ResolveHold(t) ==
  /\ up # "down" /\ t \in held \cap Operated
  /\ \/ /\ GuardHolds(t)
        /\ Save(t, stage[t]) /\ UNCHANGED taskTables
     \/ /\ ~GuardHolds(t) /\ CanTransition(t, "queued")
        /\ held' = held \ {t}
        /\ Save(t, "queued")
        /\ live' = live \cup {t} /\ queue' = Append(queue, t)
     \/ /\ ~GuardHolds(t) /\ ~CanTransition(t, "queued")
        /\ held' = held \ {t}
        /\ UNCHANGED <<stage, stored, live, queue>>
  /\ UNCHANGED <<envVars, count, receipts, finished, bootVars, askVars, callVars,
                 agentVars>>

-----------------------------------------------------------------------------
(***************************************************************************)
(* Crash, start, and the environment.                                      *)
(***************************************************************************)

Crash ==
  /\ up # "down" /\ crashes < MaxCrashes
  /\ crashes' = crashes + 1 /\ up' = "down" /\ restoring' = {}
  /\ queue' = <<>> /\ held' = {} /\ live' = {} /\ futures' = {} /\ aliases' = {}
  /\ results' = [t \in Tasks |-> "none"]
  /\ recent' = [k \in Keys |-> "none"]
  /\ sub' = [t \in Tasks |-> IF sub[t] = "idle" THEN "idle" ELSE "done"]
  /\ waits' = [t \in Tasks |-> NoTask]
  /\ fut' = [t \in Tasks |-> "none"]
  /\ pc' = [a \in Agents |-> "idle"]
  /\ cur' = [w \in Workers |-> NoTask]
  /\ outcome' = [w \in Workers |-> "fail"]
  /\ todo' = [a \in Agents |-> {}]
  /\ released' = [a \in Agents |-> {}]
  /\ resolves' = [a \in Agents |-> {}]
  /\ noted' = [w \in Workers |-> NoTask]
  /\ UNCHANGED <<envVars, storeVars>>

\* Wrong: a restart resumes whatever was submitted.
Submitted == { t \in Tasks : stage[t] # "new" }
\* The rows list_pending selects.
Pending == { t \in Tasks : stage[t] \notin {"new", "done", "failed"} }
StoredVerdicts(k) ==
  { stored[t] : t \in { u \in Tasks : /\ Key[u] = k /\ stored[u] # "none"
                                      /\ stage[u] \in {"done", "failed"} } }

\* start: duplicate state from the history (the latest result of a key is
\* remembered), then the page of pending tasks to restore.
Start ==
  /\ up = "down" /\ up' = "starting"
  /\ live' = live \cup Pending
  /\ recent' \in { r \in [Keys -> Verdict \cup {"none"}] :
                     \A k \in Keys : IF StoredVerdicts(k) = {} THEN r[k] = "none"
                                     ELSE r[k] \in StoredVerdicts(k) }
  /\ restoring' \in { p \in SUBSET Pending :
                        \/ p = Pending /\ Cardinality(p) <= RestoreLimit
                        \/ Cardinality(p) = RestoreLimit }
  /\ UNCHANGED <<envVars, storeVars, crashes, queue, held, futures, aliases,
                 results, callVars, agentVars>>

Restore(t) ==
  /\ up = "starting" /\ t \in restoring
  /\ restoring' = restoring \ {t}
  /\ futures' = futures \cup {t}
  /\ fut' = [fut EXCEPT ![t] = "pending"]
  /\ Save(t, "queued")
  /\ IF GuardHolds(t) \/ PauseHolds(t) \/ ~DependenciesReady(t)
     THEN Hold(t) ELSE Enqueue(t)
  /\ UNCHANGED <<envVars, count, receipts, finished, up, crashes, aliases,
                 results, recent, sub, waits, agentVars>>

Started ==
  /\ up = "starting" /\ restoring = {} /\ up' = "up"
  /\ UNCHANGED <<envVars, storeVars, restoring, crashes, taskTables, askVars,
                 callVars, agentVars>>

Pause ==
  /\ ~paused /\ pauses < MaxPauses
  /\ paused' = TRUE /\ pauses' = pauses + 1
  /\ UNCHANGED <<accepted, raises, storeVars, bootVars, taskTables, askVars, callVars,
                 agentVars>>

Unpause ==
  /\ paused /\ paused' = FALSE
  /\ UNCHANGED <<accepted, pauses, raises, storeVars, bootVars, taskTables, askVars,
                 callVars, agentVars>>

\* The proposal behind a reflective task is accepted and committed.
Accept(t) ==
  /\ t \in Reflective \ accepted /\ accepted' = accepted \cup {t}
  /\ UNCHANGED <<paused, pauses, raises, storeVars, bootVars, taskTables, askVars,
                 callVars, agentVars>>

\* A work object reaches a stage that satisfies a dependency.
WorkReady(x) ==
  /\ x \in Works \ finished /\ finished' = finished \cup {x}
  /\ UNCHANGED <<envVars, stage, stored, count, receipts, bootVars, taskTables,
                 askVars, callVars, agentVars>>

\* The duplicate cooldown of a remembered result passes.
Expire(k) ==
  /\ recent[k] # "none" /\ recent' = [recent EXCEPT ![k] = "none"]
  /\ UNCHANGED <<envVars, storeVars, bootVars, taskTables, futures, aliases,
                 results, callVars, agentVars>>

-----------------------------------------------------------------------------
SubmitOnward(t) ==
  \/ SubmitCheckDependencies(t)
  \/ SubmitHold(t) \/ SubmitAware(t) \/ SubmitEnqueue(t)

WorkerStep(w) ==
  \/ TakeAndHold(w) \/ WorkerAware(w) \/ HoldRaises(w) \/ Take(w)
  \/ Plan(w) \/ Begin(w) \/ Refused(w)
  \/ RunDone(w) \/ RunFail(w) \/ RunRetry(w) \/ RunProgress(w) \/ Raise(w)
  \/ Exhaust(w) \/ Requeue(w)
  \/ Retire(w) \/ Record(w) \/ Receipt(w) \/ Publish(w)
  \/ HandleException(w) \/ PublishException(w) \/ WorkerDies(w)

PassStep(a) ==
  \/ \E t \in Tasks : ExamineHeld(a, t)
  \/ EndPass(a) \/ EndPassKeyError(a) \/ PassRaises(a)

BootStep == Start \/ (\E t \in Tasks : Restore(t)) \/ Started

Environment ==
  \/ Crash \/ Pause \/ Unpause
  \/ \E t \in Tasks : Accept(t) \/ ResolveHold(t)
  \/ \E x \in Works : WorkReady(x)
  \/ \E k \in Keys : Expire(k)

Next ==
  \/ \E t \in Tasks :
       \/ SubmitLiveDuplicate(t) \/ SubmitRecentDuplicate(t) \/ SubmitFresh(t)
       \/ SubmitOnward(t)
  \/ \E w \in Workers : WorkerStep(w)
  \/ \E h \in Heartbeats : HeartbeatStart(h)
  \/ \E a \in Agents : PassStep(a)
  \/ BootStep
  \/ Environment

Spec == Init /\ [][Next]_vars

(***************************************************************************)
(* The event loop runs every coroutine that is ready: submit, a worker and *)
(* the boot sequence, once begun, go on; the heartbeat is a timer.  Nothing *)
(* obliges a caller to submit, an operator to act, or a pause to end.      *)
(***************************************************************************)
Fairness ==
  /\ \A t \in Tasks : WF_vars(SubmitOnward(t))
  /\ \A w \in Workers : WF_vars(WorkerStep(w) \/ PassStep(w))
  /\ \A h \in Heartbeats : WF_vars(HeartbeatStart(h)) /\ WF_vars(PassStep(h))
  /\ WF_vars(BootStep)

FairSpec == Spec /\ Fairness

-----------------------------------------------------------------------------
(***************************************************************************)
(* The inductive invariant behind GuardRespected and DependenciesFirst:    *)
(* whatever is in the lane, with a worker or about to be queued has passed *)
(* its checks, and no step takes a check back.                             *)
(***************************************************************************)
Cleared(t) ==
  ~GuardHolds(t) /\ (t \in Operated \/ Deps[t] \subseteq finished)

BusyHasTask   == \A w \in Workers : /\ pc[w] \in Busy => cur[w] \in Tasks
                                    /\ pc[w] = "aware" => noted[w] \in Tasks
QueueCleared  == \A i \in DOMAIN queue : Cleared(queue[i])
WorkerCleared == \A w \in Workers : /\ cur[w] \in Tasks => Cleared(cur[w])
                                    /\ noted[w] \in Tasks => Cleared(noted[w])
RunCleared    == \A t \in Tasks : count[t].attempt > 0 => Cleared(t)
SubmitCleared == \A t \in Tasks :
                   /\ sub[t] = "checking" => ~GuardHolds(t)
                   /\ sub[t] = "enqueue" => Cleared(t)
ResultKnown   == \A t \in Tasks :
                   results[t] # "none" \/ stored[t] # "none" => t \in finished
Recorded      == {"receipt", "xreceipt", "publish", "xpublish"}
PublishKnown  == \A w \in Workers : pc[w] \in Recorded => cur[w] \in finished

IInv == /\ TypeOK /\ BusyHasTask /\ QueueCleared /\ WorkerCleared /\ RunCleared
        /\ SubmitCleared /\ ResultKnown /\ PublishKnown

-----------------------------------------------------------------------------
(***************************************************************************)
(* Properties.                                                             *)
(***************************************************************************)
InQueue(t) == { i \in DOMAIN queue : queue[i] = t }
AtWorker(t) == { w \in Workers : cur[w] = t /\ pc[w] # "release" }

\* The context guard: a task that comes from reflection is never executed
\* before its proposal is committed, whichever of submit, the release
\* passes, the operator or a restart moves it (_context_guard_hold_reason).
GuardRespected ==
  \A t \in Reflective \ accepted : count[t].attempt = 0

\* No task is executed before every dependency has had a result, or has
\* become ready as a work object; only resolve_hold overrides it.
DependenciesFirst ==
  \A t \in Tasks \ Operated :
    count[t].attempt > 0 => Deps[t] \subseteq finished

\* A task is in the lane or with a worker at most once, so it is never run
\* by two workers (_run_bounded assumes it owns its task).
AtMostOneCopy ==
  \A t \in Tasks : Cardinality(InQueue(t)) + Cardinality(AtWorker(t)) <= 1

\* While the agent is up, every unfinished task is in the lane, with a
\* worker, held, or about to be placed by its submitter: "pending tasks are
\* auto-resumed on start" and a release moves a task, never loses it.
NothingLost ==
  up = "up" => \A t \in Pending :
                 \/ InQueue(t) # {} \/ AtWorker(t) # {} \/ t \in held
                 \/ sub[t] \in {"checking", "hold", "enqueue"}

\* Every task has one place: it is neither doubled nor dropped by submissions,
\* retries, exceptions, pauses, releases and restarts.
InOnePlace == AtMostOneCopy /\ NothingLost

\* A task that may be held, whose late save may clear its result.
Holdable(t) ==
  t \in Reflective \/ Deps[t] # {} \/ (t \notin Manual /\ MaxPauses > 0)
RecordedAs(t, v) == stored[t] = v \/ (Holdable(t) /\ stored[t] = "none")

\* A caller is told what the store records: the answer a submitted task's
\* own future carries is its recorded result, with a receipt on file,
\* whatever exceptions the bookkeeping met on the way.  Only for a task that
\* may be held can the row be without a result (SubmitAware).
AnswerMatchesRecord ==
  \A t \in Tasks : (fut[t] \in Verdict /\ stage[t] # "new") =>
                   RecordedAs(t, fut[t]) /\ t \in receipts

\* A result that is in the results table has no future left waiting for it
\* unless a worker is still on the way to resolve it: "results ... can be
\* awaited via futures returned at submission time".
NoOrphanFuture ==
  \A t \in Tasks :
    (results[t] # "none" /\ fut[t] = "pending") =>
      \/ AtWorker(t) # {} \/ InQueue(t) # {}
      \/ \E w \in Workers : t \in resolves[w]

\* Executions are bounded: the attempts, the continuations of artifact
\* progress below its cap, and one for each crash that interrupted a run.
RetriesBounded ==
  \A t \in Tasks :
    count[t].attempt <= MaxAttempts + (ProgressCap - 1) + crashes

\* A recorded result is never changed, and never cleared by a release, a
\* worker's late save, a restart or a second run: the one save that may take
\* it away is that of a submit that held the task and is still on the way
\* to record the hold.
RecordedForGood ==
  [][ \A t \in Tasks : stored[t] # "none" =>
        \/ stored'[t] = stored[t]
        \/ sub[t] = "aware" /\ stored'[t] = "none" /\ stage'[t] = stage[t] ]_vars

\* Nothing leaves DONE: the lifecycle table has no transition out of it.
DoneIsFinal ==
  [][ \A t \in Tasks : stage[t] = "done" => stage'[t] = "done" ]_vars

\* The agent keeps the promise of TaskPromise to every caller.
Promise == INSTANCE TaskPromise
  WITH Callers <- Tasks,
       phase <- [ t \in Tasks |-> IF waits[t] # NoTask THEN fut[waits[t]]
                                  ELSE IF sub[t] = "idle" THEN "idle" ELSE "gone" ]
PromiseKept == Promise!Spec
=============================================================================
