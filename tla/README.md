# OpenCAS runtime in TLA+

Specifications of the concurrent core of the OpenCAS runtime, with TLC
instances and TLAPS proofs. Modelled are the *bounded assistant agent* (BAA),
the pool of asyncio workers that executes tasks; the *schedule service* and the
*work cycle* that feed it; the *project orchestrator* on top of both; and the
services around them whose difficulty is order and failure: the tool-use loop,
conversation turns and their recovery, the consolidation worker, episode
maintenance, the Telegram bot and the provider circuit breaker. Everything is
translated from the Python code under `opencas/`.

## 1. The system

One process, one asyncio event loop, and a worker process for consolidation.
Coroutines interleave at every `await`; state lives in dictionaries in memory,
in SQLite stores and in small JSON files. There is no lock around most of it, so
almost every hard behaviour has the form *read, await, act on what was read*.

| Component | State | Operations | Talks to | Correct when |
|---|---|---|---|---|
| Task lifecycle (`execution/lifecycle.py`) | a table of transitions | `is_valid`, `transition` | BAA | nothing leaves DONE |
| BAA (`execution/baa.py`) | `_held`, `_live_tasks`, `_futures`, `_duplicate_aliases`, `_results`, `_recent_terminal`, `_running` | `submit`, `start`, `stop`, `resolve_hold`, `try_release_held`, the workers | lanes, task store, executor, receipts, event bus, executive, context proposals | a task has one place, is never lost, runs only when cleared; a future gets the recorded answer |
| Lanes (`execution/lanes.py`) | a queue and workers per lane | `submit`, `get`, `start`, `stop`, `drain` | BAA | each item is taken once; stop ends the workers it meant to end |
| Task store (`execution/store.py`) | a row per task, with its result | `save`, `save_result`, `list_pending`, `list_all` | BAA | a result is not erased |
| Executor (`execution/executor.py`) | the task in hand | `run` | task store, tools, models | attempts are bounded |
| Schedule service and store (`scheduling/`) | items, runs | `process_due`, `trigger`, recovery, creation, edits | BAA, API, tools, commitments | an occurrence fires once, work is not erased, a claim is settled |
| Scheduler loops (`runtime/scheduler.py`) | timers, focus mode, readiness | heartbeat, schedule, cycle and consolidation loops | all | the loops go on |
| Executive, ladder, work cycle (`autonomy/`, `runtime/cycle_phases.py`) | queue, ladder, rows of work objects | `restore_queue`, `enqueue`, `dequeue`, `run_cycle` and its phases | work store, BAA | work is carried out once, retired work stays retired, the queue is drained |
| Project orchestrator (`autonomy/project_orchestrator.py`) | rows of subtasks, `blocked_by` | `decompose`, `_on_baa_completed` | work store, BAA, event bus | subtasks run in the order of the plan, each is unblocked |
| Tool-use loop (`tools/loop.py`, its two guards) | messages, counters, focus mode | `run`, evidence requirements and retries | model client, tools, scheduler | every stored call has a result, the turn ends, guards stop it in time |
| Conversation turns (`runtime/agent_loop.py`, `conversation_recovery.py`, `lifecycle.py`) | marker files, context store, run lock | `converse`, recovery at boot | context store, tool loop, file system | a request is answered or announced as interrupted, at any crash |
| Consolidation worker (`runtime/consolidation_worker.py`, `consolidation_state.py`, `maintenance_runtime.py`) | status, result and timing files | launch, collect, time out, cancel, persist, retry | scheduler loop, user turns | preemption is no failure, one engine works at a time, consolidation comes |
| Episode maintenance (`memory/`, `compaction/`, `consolidation/`) | episode rows, memories | compaction after a turn, backlog sweep, the consolidation cycle | context builder | nothing leaves the context without a memory that cites it |
| Telegram bot (`telegram_integration.py`) | offset and its file, the batch | poll, handle, deliver | Telegram, conversation turns | no message lost or overtaken |
| Provider circuit breaker (`api/`) | failures, open since | record, is_open | model clients | opens at the threshold, closes after the timeout |
| Single instance lock (`runtime/single_instance.py`) | a locked file | acquire, release | the operating system | one holder |
| Context proposals, truth arbiter (`context/`) | proposal status; epoch and hash | accept, reject, stale; `issue_snapshot` | BAA, executive | a decision is final; epochs follow the order of states |
| Supervisors (`execution/*_supervisor.py`) | processes, output buffers, threads | start, poll, kill | tools | output is not lost |
| Buses (`infra/`) | subscribers | emit | all | a failing subscriber stops nobody else |

The remaining packages are listed in `PROJECT.json` with the reason they are not
modelled; see *Not modelled* below.

**Where it is hard.** A released task is for a while both in the lane and in the
held table; several coroutines run release passes over their own snapshots; the
end of a task is five writes with awaits between them; an exception in any of
them, or in the release pass behind them, enters a second path that writes the
same things in another way; a task that was held is saved once more when the
hold has been written down, however far it has got by then; a crash may come
between any two. The scheduler and the orchestrator work on rows they
read earlier and write them back whole. A work object lives in a row, on the
ladder and in a queue at once. A guard may stop the tool loop in the middle of a
batch. A user turn kills the consolidation worker while its parent collects what
it wrote. `PROJECT.json` lists these hazards one by one, each with its line and
the properties that would notice it.

## 2. Modules

| Module | Role |
|---|---|
| `TaskLifecycle` | The transition table. |
| `BoundedAgent` | The agent: environment, task store, memory, submit, workers, release passes, crash and restart; invariants. |
| `TaskPromise` | Abstract: what a caller of `submit` is promised. `BoundedAgent` implements it (`PromiseKept`). |
| `ScheduleService` | The schedule service, the callers and editors around it. |
| `SchedulePromise` | Abstract: one occurrence after the other, up to the limit. `ScheduleService` implements it (`FiredAsPromised`). |
| `WorkCycle` | The cycle loop, the executive's queue, the ladder and the phases of a cycle, over an abstract agent. |
| `ProjectFlow` | The subtasks of a project: planner, workers, the handler of completed tasks. |
| `ToolUseLoop` | A turn of the tool-use loop, its guards, evidence requirements, retries and focus mode; several turns share focus mode. |
| `ConversationTurn` | `converse` as four writes, the markers of turns in progress, the boot that announces them, the run lock. |
| `ConsolidationWorker` | The main process, worker processes, the files between them, a user turn that cancels. |
| `MemoryMaintenance` | Compaction and consolidation over the same episodes. |
| `TelegramPoll` | The poll loop with its offset, the server, delivery in parts. |
| `Inbox` | Abstract: messages answered in order and acknowledged only then. `TelegramPoll` implements it (`InboxKept`). |
| `ProviderCircuit` | The breaker, and calls in flight when it opens. |
| `MCBoundedAgent`, `MCScheduleService`, `MCServices` | Values of the constants for TLC. |
| `BoundedAgentProofs` | Theorems about `BoundedAgent`: types, and what must be so before a task runs. |
| `AgentPromiseProofs` | `BoundedAgent` implements the safety part of `TaskPromise`. |
| `AgentPlaceProofs` | The places of a task, its answer, its executions, its record. |
| `ScheduleServiceProofs` | Types, submissions and occurrences of `ScheduleService`; it implements `SchedulePromise`. |
| `WorkProofs` | `WorkCycle` and `ProjectFlow`. |
| `ToolUseLoopProofs` | `ToolUseLoop`, its guard included. |
| `ServiceProofs` | `ProviderCircuit`, `TelegramPoll` with the safety part of `Inbox`, `ConversationTurn`, `ConsolidationWorker` and `MemoryMaintenance`. |
| `CompositionProofs` | The services of `MCServices` side by side. |

`MCServices` checks eight modules together. An initial state picks a
`component`, and only that component moves; what the code lets them share is
part of each module (the agent inside `WorkCycle` and `ProjectFlow`, the user
turn inside `ConsolidationWorker`), so the state space is the sum of theirs and
not the product. `Services` uses the view `Moving`, which leaves out of a
fingerprint the variables that keep their initial values.

Definitions with a comment "Wrong: ..." are deliberate slips. No action uses
them; each stands next to the operator it could replace and shows, when put in
its place, that a property tells the two apart.

An action is the code between two awaits at which another coroutine can change
what the action reads. Writing a row or a file is part of the action that
changes it, unless something else can come between.

### BoundedAgent and the code

| State | Code |
|---|---|
| `stage`, `stored`, `receipts` | task row, its result columns, receipt store |
| `count` | `task.attempt`, `meta.recovery_count`, `meta.progress_boundary_recovery_count` |
| `queue`, `held`, `live` | the lane's queue, `_held`, `_live_tasks` |
| `futures`, `aliases`, `results`, `recent` | `_futures`, `_duplicate_aliases`, `_results`, `_recent_terminal` |
| `sub`, `waits`, `fut` | progress of a `submit`, the future it returned, the values of futures |
| `pc`, `cur`, `outcome` | position, task and result of a worker's `_run_bounded` or handler |
| `todo`, `released`, `resolves` | locals of `_try_release_held` and of the end of `_run_bounded` |
| `noted` | the task a worker has held for a pause and has yet to write down for awareness |
| `paused`, `accepted`, `finished` | `recommend_pause()`, committed proposals, and (history) tasks with a result and work objects that were ready |

| Actions | Code |
|---|---|
| `SubmitLiveDuplicate`, `SubmitRecentDuplicate`, `SubmitFresh`, `SubmitCheckDependencies`, `SubmitHold`, `SubmitEnqueue` | `submit`, `_duplicate_future` |
| `SubmitAware`, `WorkerAware` | the save at the end of `_record_baa_awareness(status="held")`, in `submit` and in a worker |
| `Take`, `TakeAndHold`, `HoldForPause` | `_worker_coro`, start of `_run_bounded`, `_hold_task_for_executive_pause` |
| `Plan`, `Begin`, `Refused` | the two transitions before `executor.run`, with the test of `_held` after each |
| `RunDone`, `RunFail`, `RunRetry`, `RunProgress` | how `executor.run` ends |
| `Raise`, `HoldRaises`, `PassRaises` | an exception in `_run_bounded`: in a transition, the run or the bookkeeping, under a hold, inside a release pass |
| `Exhaust`, `Requeue` | the branch for RECOVERING |
| `Retire`, `Record`, `Receipt`, `Publish` | the branch for DONE and FAILED |
| `HandleException`, `Record`, `Receipt`, `PublishException`, `WorkerDies` | `_handle_worker_exception` |
| `HeartbeatStart`, `ExamineHeld`, `EndPass`, `EndPassKeyError` | `try_release_held`, `_try_release_held` |
| `ResolveHold` | `resolve_hold` |
| `Crash`, `Start`, `Restore`, `Started` | loss of memory, `start` |
| `Pause`, `Unpause`, `Accept`, `WorkReady`, `Expire` | the environment |

Abstractions. One lane. What a task does is data: `executor.run` ends in any of
its ways. The retry governor's decision on a duplicate failure is free. Which of
two pending tasks a full restore page leaves out is free. A work object that has
become ready stays ready and an accepted proposal stays accepted; in the code a
dependency that is withdrawn again only holds more. Follow-up tasks that the
agent creates itself are further submissions. Of awareness records only their
saves of a held task are kept; the save of `start` after it holds a task (561,
583) is over before the workers take anything, and is part of `Restore`. Not
modelled: `stop`, the status column beside the stage, commitment repair, and an
exception that `submit`, `resolve_hold` or `start` raises to its caller.

Where exceptions may come from is a constant. `Faults` names the places `"run"`
(transitions and the run), `"record"` (the bookkeeping of a terminal result) and
`"handler"` (the handler of exceptions). `MaxRaises` bounds the failures of a
store under a hold or inside a release pass (`HoldRaises`, `PassRaises`), which
need held tasks to happen.

### ScheduleService and the code

| State | Code |
|---|---|
| `rows` | `ScheduleItem` rows: `status`, `next_run_at`, `occurrence_count` |
| `runs`, `submits` | `ScheduleRun` rows; how often a run was submitted (history) |
| `due`, `claims` | the rows and the old claims a pass still has to look at |
| `pc`, `item`, `copy`, `rec`, `idx`, `at` | a `trigger` in progress: position, item, its copy of the row, its run, its clock |
| `change`, `read` | an edit in progress and the row it read |
| `written` | history: items somebody else than the scheduler wrote |

`PassBegin`, `RecoverSubmit`, `RecoverRecord`, `ListDue`, `TriggerDue`,
`PassEnd` are `process_due` with `_recover_claimed_runs`. `TriggerManual`,
`Check`, `Record`, `SaveCompleted`, `Advance`, `Defer`, `Notify`, `Submit`,
`Settle` are `trigger` and what it calls, for the scheduler and for callers of
the API. `EditRead` and `EditSave` are the get-then-save editors
(`workflow_tasking.py`, the API's cancel, project bookkeeping). `LatestDue` and
`NextRun` are the catch-up loops as functions of time in ticks.

Not modelled: creation and deduplication, PATCH of the start, weekday and
daylight-saving recurrences (a period is a number of ticks), the limit of 50
items per pass, the readiness gate in front of the loop.

### WorkCycle and the code

| State | Code |
|---|---|
| `row`, `task` | rows of `work_objects`; what the agent last made of the work's objective |
| `page` | works with a success among the 500 tasks that `_work_already_completed` looks at |
| `ladder`, `queued` | `CreativeLadder._ladder`; how often a work object is in `ExecutiveState._task_queue` |
| `recalled` | successes in `_recent_terminal` that are still within the cooldown |
| `place`, `unseen`, `hand` | where `_cycle_loop` and `run_cycle` are, what their present loop has still to look at, the dequeued work |
| `wasPaused`, `degraded`, `tired` | `_last_executive_pause`, readiness, `fatigue > 0.7` |
| `successes`, `launched`, `retired` | history |

| Actions | Code |
|---|---|
| `Wake`, `Gate` | `_cycle_loop`, `_should_run_cycle`, `_background_llm_block_reason` |
| `RestoreOne`, `RestoreEnds` | `restore_queue`, at boot, after a pause and in every cycle |
| `Climb`, `Dreamt` | `hydrate_from_store`, `CreativeLadder.run_cycle`, `add` |
| `EnqueueOne`, `Enqueues`, `EnqueueEnds` | `enqueue_promoted_cycle_work` |
| `Completed`, `Retires` | `_work_already_completed`, `_retire_completed_cycle_work` |
| `Intervene` | `evaluate_workspace_intervention` with its two effects |
| `Drain`, `Check`, `SubmitWork` | `drain_executive_cycle_queue`, `_dispatch_dequeued_work`, `_resolve_immediate_dispatch_intention` |
| `CycleFails`, `Tires`, `Rests`, `Reboot` | an exception in `run_cycle`, fatigue, a restart of the process |
| `TaskEnds`, `CooledDown`, `Ages` | the agent, as far as the cycle sees it; newer tasks push a success out of `page` |

Of stages only *low* (spark, note, artifact) and *ready* are told apart. Scores,
goals, commitments and the order of the queue are data: any entry may be taken,
any row passed over. The lookup of completed work fails open: when it raises, or
does not see the success any more, the work is queued or submitted again. A
retirement is two deletions, each of which may fail and be passed over;
`retired` has the works for which both succeeded. `MaxMishaps` bounds these
failures together with exceptions in a cycle, fatigues and restarts. Edits
through the operations routes are not modelled.

### ProjectFlow and the code

| State | Code |
|---|---|
| `subrow` | stage, `blocked_by` and `meta.repair_task_submitted` of a subtask's row |
| `waiting` | copies of a subtask in the agent's lane |
| `duty`, `image`, `listed`, `due` | locals of `decompose`, of `_on_baa_completed` and of `unblock_dependencies` in each worker |
| `asked`, `won`, `freed` | history: submissions, subtasks carried out, removals that were completed |

`SubmitTask`, `ReadToMark`, `Mark`, `SubmissionEnds` are the submitting loops of
`decompose` and `_submit_ready_project_tasks`; `TakeUp`, `CarriedOut` a worker up
to its event; `Find`, `SaveOutcome`, `SelectBlocked`, `Unblock`, `SubmitReady`
the handler, which runs inside the worker because `EventBus.emit` awaits it.
`CycleTakes` is what the work cycle does to a row of the project while the agent
is quiet: an artifact is promoted from the ladder again, a ready row is carried
out under another task's id and retired.

### ToolUseLoop and the code

`turn[t]` is a record with the locals of `ToolUseLoop.run` and of the evidence
retries in `conversation_turns.py`, its fields named in the module; `focus` is
`AgentScheduler._focus_mode`. `Begin` starts a run; `ModelCallsTools`,
`AskForEvidence`, `RouteEvidence`, `Answer` and `ModelFails` are what follows an
answer of the model; `ToolsReturn` and `ToolReturns` are the parallel read-only
calls and the serial ones, with the guards (`Trips`) after each;
`RetryForEvidence` and `Store` end a run; `FocusExpires` is the timeout of focus
mode. Messages are the calls of each batch and the results it has; contents,
arguments, budgets of characters and tool choice are data.

### ConversationTurn and the code

| State | Code |
|---|---|
| `lock` | `run.lock`, held by a process |
| `life`, `pending`, `telling` | of a process: boot or serving, markers it has to announce, the one announced and not yet completed |
| `at`, `host` | where a `converse` is, in which process |
| `active`, `completed`, `said`, `answered`, `notices` | the marker files, the user messages, answers and notices in the context store |

`Boot`, `Skipped`, `Announce`, `Recover`, `Serve` are the boot with
`recover_interrupted_turns`; `Receive`, `StoreRequest`, `StoreAnswer`, `Finish`,
`Fail` the writes of a turn; `Crash` ends a process between any two of them.

### ConsolidationWorker and the code

| State | Code |
|---|---|
| `loop`, `run`, `outcome`, `attempts` | the consolidation loop and its run |
| `status`, `result`, `timing` | the worker's status file, the result files, how the last run in the timing state ended |
| `ripe`, `barred` | `consolidation_interval` has passed since that run; something else puts the loop off |
| `worker` | the processes |
| `talk`, `target`, `quiet` | a user turn that cancels a run; no user turn of late |

`Launch`, `CancelSeen`, `Collect`, `CollectLate`, `Timeout`, `Persist`, `Settle`,
`Sleep`, `Stop` and `ParentCrash` are the main process; `WorkerStarts`,
`Heartbeat`, `WriteResult`, `WriteStatus`, `WorkerExits` the worker; `Talk`,
`KillWorker`, `WriteCancelResult`, `WriteCancelStatus`, `EndTalk`, `Quieten` the
user turn. `Due` is `consolidation_delay_until_due`: a failed run is due again at
once (its back-off is a sleep), any other after a whole interval, one that made
way for a user turn included. `Blocked` is what `_should_run_consolidation` and
`_background_llm_block_reason` ask: the worker's status file and the user turn
are in the model, and `barred`, which `Bars` turns on and off as it likes, is the
rest of it, focus mode, a degraded readiness, the executive's pause, a busy agent
and another activity. A retry asks none of this.

### MemoryMaintenance and the code

`rows`, `compacted`, `core`, `faded` are the columns of `episodes`; `summed` and
`distilled` the episodes that a memory cites; `job`, `queue`, `inflight`,
`cooling` the compactors; `phase`, `cand`, `candCore`, `candFaded`, `consumed`,
`todo`, `fresh` the consolidation engine with the copies it read. `AfterTurn`,
`Sweep`, `SweepNext`, `Summarise`, `MarkCompacted`, `CompactionFails` are
`compactor.py` and its callers; `Gather` to `Prune` are the steps of
`NightlyConsolidationEngine.run` on episodes, in order. A copy is saved whole
(`Upsert`), as `save_episode` does.

### TelegramPoll and ProviderCircuit and the code

`offset`, `disk`, `batch`, `step`, `part` are the poll loop, its file and the
answer being sent; `arrived` and `confirmed` are the server; `begun` and
`delivered` are history. `Poll`, `Ignore`, `Converse`, `Deliver`, `SendFails`,
`StartBot`, `StopBot` are the steps of `_poll_loop`, `handle_update` and
`_deliver_response`. `ProviderCircuit` has the breaker's `failures` and
`circuit`, the callers inside a call (`calling`), and the embeddings that were
refused without a call (`embedless`).

## 3. Runs

Pass:

| Run | Question | Bounds, and why they are enough |
|---|---|---|
| `PlainAgent` | answer = record, bounded retries, and refinement of `TaskPromise` with liveness | 2 workers, 2 tasks with one duplicate key, 2 attempts, 1 crash, exceptions in the run and after it: two submissions of the same work, both workers busy, retry, cap and restart all occur. |
| `SerialAgent` | every task in one place and no future orphaned, with holds; what is recorded stays, and dependencies first across a restart | 3 tasks: held for a dependency, for a work object and the context guard, and one a pause does not hold; 1 pause, 1 crash; 1 worker and no heartbeat, so that one release pass runs at a time. |
| `RacingAgent` | what holds however releases interleave | heartbeat and worker, an operator, a worker that may die, 1 failure of a store under a hold or a pass, 1 pause that holds the dependent task; the guarded task, which an operator may release, is what the other depends on. No crash, for size: restarts are in `SerialAgent` and in the theorems. |
| `ScheduledWork` | occurrences: each once, the latest, bounded, and refinement of `SchedulePromise` | a task every tick, limited to 2, and a mail check every 2 ticks, 3 instants, 1 crash, 1 cancellation, refused submissions and failed checks. A recovered run is given up at its first refusal here, at its second in `SettledWork`. A pass may be late by one or two ticks, which is what catch-up needs. |
| `SettledWork` | liveness of schedules | a task every 2 ticks and a reminder, 1 manual trigger, refused submissions, a linked commitment that finishes. The page of recent runs (4) holds every run of this instance. |
| `Services` | safety of the services | tool loop: one long turn (3 iterations, 3 evidence rounds) and two turns at once with 2 tools and batches of 2; 2 processes with 2 requests, one never asked for an answer; 3 worker runs with 2 attempts, 1 user turn, 1 stop; 3 episodes of one session with a compaction, a sweep and a consolidation cycle; 4 updates, one ignored, one answered in two parts, 2 faults; 3 callers at a threshold of 2; 2 work objects, a queue of 2, one of an exception, a failed lookup or deletion, a success out of sight, a fatigue or a restart; 3 subtasks, one waiting for the other two, 2 workers. |
| `LiveServices` | liveness of the services, for Telegram as refinement of `Inbox` | the same for one turn of the tool loop or two runs of it, conversation turns, the worker with one faulty run and one user turn, and Telegram with 2 faults. |

The queue of two stands for the real cap of five: what matters is that it can be
full while both works are in it, or while one is in it twice. Two workers are
what the runtime configures (`runtime_setup.py:278`). Three subtasks are enough
for two workers to meet at one dependent while a third submitter is at work.

Violations. Each one shows a disagreement between what the repository says and
what the code does; the finding in `PROJECT.json` quotes the line.

| Run | What TLC finds |
|---|---|
| `LostCancel` | A cancellation during a scheduler pass is overwritten by the pass's copy of the row. |
| `UndoneMark` | The reweighting step of a consolidation cycle saves copies read before the cycle marked their episodes: the marks are gone. |
| `OpenReplay` | A guard stops the tool loop in the middle of a batch; an evidence retry then shows the model a call without a result. |
| `StuckOverloaded` | A full queue makes the executive recommend a pause; the pause stops the cycle, and only a cycle takes anything from the queue. Two ready rows at boot are enough for a queue of two, five for the real one. |
| `LostUnblock` | Two workers remove two blockers of one subtask from the same reading of its list; one removal is undone and the subtask stays blocked for good. |

Further disagreements that the models have and that no run states, because each
is another face of the races above or follows from one line:

- A heartbeat queues a held task, a worker takes it before the heartbeat deletes
  it from `_held`, sees it there and drops it; the deletion then loses it
  (baa.py:514-524).
- A submission that holds its task writes the hold down for awareness and then
  saves the task again (baa.py:1137, 1203). If a pass has released it by
  then and a worker has run and recorded it, the save clears the recorded result
  (store.py:187-190): the caller has its answer, a task that depends on this one
  and is looked at after a restart finds no result and waits.
- A store that fails inside a release pass sends the worker into the handler of
  exceptions. The futures it had taken out of the table are never resolved
  (baa.py:980-1000), tasks queued by the pass stay held, and a task that the same
  worker has just put back into the lane (913, 924) is recorded as failed while
  it waits there for another run.
- With two release passes at once a task is in the lane twice, the second `del`
  raises KeyError, and the future of the finished task, already taken out of the
  table, is never resolved.
- An exception in the bookkeeping of a DONE task turns it into FAILED, past the
  lifecycle table.
- A schedule item that runs once is completed before its task is submitted; when
  the agent refuses the task three times more, nothing is left to run.
- Pausing a schedule item clears its next run and resuming does not set it.
- A subtask is listed as ready between its submission and its mark, and is
  submitted twice; the agent does not take equal ids for duplicates.

Because of the races and failures of release passes, `InOnePlace`,
`NoOrphanFuture` and the properties of answers, executions and records are
checked only where one release pass runs at a time and no store fails under it
(the instance of `SerialAgent`) or nothing is held (that of `PlainAgent`), and
`PromiseKept`, which also says that every caller is answered in the end, where
nothing is held. What survives both is what `RacingAgent` checks and, of the
promise, its safety part, which the proofs establish whatever races. Likewise
`OncePerOccurrence`, `FiresLatest` and `OccurrencesBounded` are stated for items
that no crash and no other writer came between: with a crash between claim and
advance an occurrence has two runs. Because of the late save `RecordedForGood`
lets a submission that has yet to write its hold down clear a result, and
nothing else; and `AnswerMatchesRecord` lets the row of a task that may be held
be without one. `DoneOnce` leaves out works that an intervention launched, since
a launch does not look whether the work was carried out, and counts the
successes since a lookup could last not see one. `ConsolidationComes` has two
conditions: from some moment on nothing else bars consolidation, and a run that
made way for a user turn is followed by intervals that pass. The first cannot be
had for nothing: the pause of `StuckOverloaded` never ends, and bars
consolidation as well. `OneEngine` is about one main process: a worker outlives
a main process that dies.

Deadlock detection is off everywhere: the environment may stop, and a system
with no task and no time left is at rest.

All the catch-up guards are larger than the outage of the instance; the real
guard (1000 steps) can be exceeded with small intervals, see the hazards.

### Fairness

`BoundedAgent`: weak fairness of a `submit` that has begun, of each worker, of
the heartbeat and its pass, and of the boot sequence. asyncio runs every ready
coroutine, and the heartbeat is a timer in a loop that swallows exceptions. A
worker that has a task goes on with it, since `executor.run` ends; callers need
not submit, operators need not act, a pause need not end, proposals need not be
accepted. Only `PlainAgent` uses it.

`ScheduleService`: weak fairness of the scheduler's pass and of each caller's
trigger. `_schedule_loop` sleeps, runs a pass, catches what it raises, and
repeats. Time need not advance and editors need not act.

`ToolUseLoop`: weak fairness of each turn that has begun: a model call and a
tool call return or raise. Which of the two, and what the model says, is free.
Turns need not begin.

`ConversationTurn`: weak fairness of booting when no process serves (the
program is started again), of a boot that has begun, and of a
turn that has begun. Crashes are bounded and not fair.

`ConsolidationWorker`: weak fairness of the worker's steps and of its heartbeat
thread, of the main loop, of a user turn that has begun, and of time passing
without another one. `Bars` and `Ripens` have none: nothing obliges the rest of
the program to let the loop run, and the interval that must pass after a
preempted run is a condition of the property. Faulty runs, user turns and stops
are bounded: with failures forever there is nothing to promise.

`TelegramPoll`: weak fairness of the poll loop, whose exceptions are caught
and which is started with the process. Failures of requests are bounded.

`WorkCycle`: weak fairness of the loop and of the end of each execution; the
loop is a timer that catches what the cycle raises. Only `StuckOverloaded` uses
it, where nothing fails and nobody is tired, so that overload is the only pause
there is.

## 4. Proofs

Every theorem holds for every value of the constants that satisfies the named
assumption of its module (`ConstantsAssumption`, `LoopAssumption` and so on:
distinct ids, finite sets where something is counted, positive caps and
periods); further hypotheses are in the theorem, and listed here. No invariant
below was inductive as it stood. Each section names what had to be added.

### The agent

`BoundedAgentProofs`. No hypothesis: any number of workers, heartbeats, crashes
and pauses, and release passes that race.

| Theorem | States |
|---|---|
| `TypeCorrect` | `TypeOK` |
| `GuardAlwaysRespected` | `GuardRespected`: a reflective task is not executed before its proposal is committed |
| `DependenciesAlwaysFirst` | `DependenciesFirst`: a task is not executed before its dependencies, unless an operator released it |

Both safety properties speak of executed tasks and forget how a task got to the
worker. The invariant `IInv` follows the task. Call a task *cleared* when the
guard does not hold it and its dependencies are finished (or an operator may
override them). Then whatever is in the queue (`QueueCleared`), with a worker
(`WorkerCleared`), executed (`RunCleared`) or about to be queued by `submit`
(`SubmitCleared`) is cleared, and clearance is never taken back, because
`accepted` and `finished` only grow. That a dependency seen in `results` or in
the store is finished needs `ResultKnown`, and `PublishKnown` carries it through
the end of a run. The races of the release passes do not break the argument,
since they duplicate or lose only tasks already cleared.

`AgentPromiseProofs`. No hypothesis.

| Theorem | States |
|---|---|
| `PromiseNeverBroken` | `Spec => Promise!Safety`: every step of the agent is a step of `TaskPromise` under the refinement mapping, or a stutter |

Needed is `PromiseInv`: a future in the table is unanswered, one that a worker
has taken out to answer or that a restart will restore is in no table that a
submission could join, an alias was submitted, a dead agent remembers nothing.
The other half of `PromiseKept`, that the answer comes, is liveness.

`AgentPlaceProofs`. Hypothesis `Unraced`: nothing is ever held, or one coroutine
takes, runs and releases, no operator resolves holds and no store fails under a
hold or a release pass (`MaxRaises` is 0). Without it the properties are false, as
section 3 says: two release passes, or one that is broken off, leave a task in
two places and forget futures. Failures of everything else, by `Faults`, are
within the theorems unless the table names them.

| Theorem | States | Further hypotheses |
|---|---|---|
| `TasksNeverDoubled` | a task is in the lane or with a worker once at most | |
| `TasksInOnePlace` | `InOnePlace`, which adds that none is lost | no exception inside the handler of exceptions, which kills the worker; the table fits the page a restart reads |
| `ExecutionsBounded` | `RetriesBounded` | |
| `CallersToldTheRecord` | `AnswerMatchesRecord`: the record of a task that may be held is the answer or was cleared by a late save, and is never another answer | |
| `NoFutureOrphaned` | `NoOrphanFuture` | |
| `ResultsKeptForGood` | `RecordedForGood`, an action property: only the late save of a submission that held its task clears a result | recording and what follows it raise nothing |
| `DoneIsForGood` | `DoneIsFinal`, an action property | the same |

The two hypotheses on `Faults` name what the code does when they fail: a worker
whose handler raises dies with its task, and an exception in the bookkeeping of
a DONE task turns it into FAILED. The invariants build on each other. `PlaceInv`
says where a task is: the lane has no doubles, no two workers share a task, what
a worker has is neither queued nor held, a task is both held and queued only in
the middle of the one pass, and the stage says which of these it is. `Survives`
adds that every unfinished task is somewhere. `RetryInv` compares executions
with what was paid for them (a recovery, a boundary, a crash) and tells whether
the next one has been paid already. `HoldReasons` says that a submission with a
late save to come had a reason to hold its task, and `NotedHeld` that the task
of a worker with one is still held. `AnswerInv` says that a task with an answer
is over and nobody works on it; `ResultsOut` and `FutureKept` that a task with a
result has no future in the table and that an open future is in the table or
with the worker that answers it; `RecordInv` that a recorded task is not run.

### Schedules

`ScheduleServiceProofs`: any items, callers, editors, crashes and recoveries.

| Theorem | States | Hypothesis |
|---|---|---|
| `ScheduleTypesCorrect` | `TypeOK` | |
| `WorkSubmittedOnce` | `SubmittedOnce` | |
| `RunsAreForTheLatest` | `FiresLatest` | `EnoughCatchUp`: the loop's guard covers the time there is |
| `OccurrencesFireOnce` | `OncePerOccurrence` | |
| `OccurrencesAreBounded` | `OccurrencesBounded` | no item has the limit zero: the source fires such an item once before it looks at the limit |
| `ServiceKeepsPromise` | `FiredAsPromised`: every step is a step of `SchedulePromise` or a stutter | |

For `SubmittedOnce`, `RunInv` says that a driver's run is the recorded one, that
only the scheduler submits a scheduled run, and that the submissions of a run
found claimed are paid for by crashes. For the occurrences, `OccurrencesInv`
says of an item that nobody else has written, step by step, what its row
promises (`Standing`): an active row is ahead of every run fired and its count
covers them, except between the record of a run and the advance, where the row
is at the occurrence just fired. The lemma `LatestDueIsLatest` says what the
catch-up loop returns, and where its guard stops it.

`SchedulePromise` sees an item's fired occurrences only: those of its scheduled
runs that are claimed, submitted or recorded, and of those given up after a
recovery has tried them (`Fired`). Whoever else writes an item *disturbs* it, a
crash all of them, and an item once disturbed may be fired for any occurrence;
an item with the limit zero is mapped to one without a limit. The refinement
needs `FiredStays`, that no step forgets what was fired, and `Tried`: a recovery
counts its attempt in the run before it records how the attempt ended, so that a
run it gives up is still among the fired.

### Work

`WorkProofs`: any works, capacity, mishaps; any plan (cycles too), any workers.

| Theorem | States |
|---|---|
| `RetiredStaysRetired` | `RetiredForGood` |
| `WorkIsDoneOnce` | `DoneOnce` |
| `WorkTypesCorrect` | `WorkTypeOK` |
| `ProjectTypesCorrect` | `ProjectTypeOK` |
| `SubtasksInOrder` | `InOrder` |

`WorkTypeOK` bounds the executive's queue by its capacity. The length of the
queue is the number of its `Entries`, pairs of a work and the number of its
copy, so that putting one in and taking one out are facts about cardinalities
(`WorkTypeInv`). `RetireInv` says that what a phase has still to look at is as
it was listed; it speaks of works of which both deletions succeeded. `OnceInv`
says that outside an intervention nothing of the agent's moves while a cycle
runs (the gate waits for a quiet agent), so that a check is still true at the
submission, and that a success counted by `successes` is still in the sight of a
lookup. `OrderInv` says that whatever blocks a subtask, in its row, in an image
a handler will save whole, or in a list it has read, names every dependency not
carried out: a stale image may bring a removed blocker back (which `LostUnblock`
shows) and can never lose one.

### The tool-use loop

`ToolUseLoopProofs`: any turns, tools, batches, limits and windows.

| Theorem | States |
|---|---|
| `LoopTypesCorrect` | `LoopTypeOK` |
| `CallsAnswered` | `OwnCallsAnswered` |
| `HistoryStaysPaired` | `HistoryPaired` |
| `FocusAlwaysOwned` | `FocusOwned` |
| `NeverRunsAway` | `NoRunaway` |

`LoopInv` says of each turn that its messages are `Sound`: the batches of a run
before the last are answered, the last one lacks exactly the calls under way and
those queued, results fit their batch (an index, once), and what was kept for
the turn is well formed. `NoRunaway` needs more, since the guard remembers the
last calls only: `GuardInv` adds that its memory is the end of the calls made
together with those under way, and that these have no run of `Window` equal
calls; `GuardExtends` shows that looking at a window is enough to go on. The
repair of open calls before a history is stored is a recursion over messages.
`RepairStepwise` and `RanStepwise` say what one step of it does, and
`RepairedHistory` follows step by step: the repaired history has the calls that
were made and no other.

### Memory, conversation, consolidation, Telegram, the circuit

`ServiceProofs`.

| Theorem | States | Because |
|---|---|---|
| `MemoryTypesCorrect` | `MemoryTypeOK` | |
| `SummariesComeFirst` | `SummaryFirst` | `CitedInv`: whoever is about to mark an episode knows a memory that cites it, and a stale copy is only written back as compacted if it was |
| `TailIsKept` | `TailKept` | `BatchesHaveTail`: what a compactor listed has a tail, and tails grow |
| `TurnsAreRemembered` | `TurnRemembered` | `TurnInv`: a turn that goes on has its marker, what a boot has found is over, one process holds the lock |
| `NoticesMeanOver` | `NoticeMeansOver` | the same |
| `PreemptionNeverFails` | `PreemptionIsNoFailure` | `WorkerInv`: a run a turn stopped has its result or the turn is about to write it; only a faulty worker reports a failure |
| `EnginesWorkAlone` | `OneEngine` | `AwaitedAlone`: the worker that lives is the one the loop waits for, and only a stop or a death of the main process leaves it |
| `TelegramSkipsNothing` | `NothingSkipped` | `TelegramInv`: the batch is a run of consecutive updates and what lies below it is settled |
| `TelegramKeepsOrder` | `MessagesInOrder` | the same |
| `InboxNeverLost` | `Promise!Safety` of `Inbox`: every step of the bot is a step of the abstract inbox or a stutter | `TakenUp`: who waits for the rest of an answer was taken up; `TelegramInv` gives that all before it are settled |
| `CircuitBoundsFailures` | `FailuresBounded` | `CircuitInv`: a closed circuit is below its threshold, and each call under way may fail once more |

### The services side by side

`CompositionProofs`: the whole of `MCServices`, whichever of its components move.

| Theorem | States |
|---|---|
| `ServiceTypesCorrect` | `TypesOK` |
| `ServicesStaySafe` | every safety property that the run `Services` checks, in the whole |

A step of the whole is a step of one service or of none (`PartsMove`), so that
the conjunction of their inductive invariants (`ServicesInv`) is one of the whole.

### How the proofs are laid out

Each action has a lemma of its own, under it one step per part of the invariant
that the action can disturb; the theorem combines them. The induction theorems of
the library take an operator as a parameter and are of no use to the provers at
hand, so induction over numbers is done first-order: `CountingUp` is about a set
of numbers, and is proved from a least number outside it. The recursions of
`ToolUseLoop` are functions, and each has a lemma that says it is defined and
what a step of it does (`ReadsStepwise`, `JudgedStepwise`, `RepairStepwise`,
`RanStepwise`).

### Only model-checked

- Liveness, since it rests on fairness: that every caller is answered
  (`PromiseKept` beyond its safety part), `DueIsServed`, `ClaimsSettle`,
  `TurnEnds`, `InterruptedIsTold`, `ConsolidationComes`, and `InboxKept` beyond its
  safety part.
- The five runs that end in a violation: a counterexample needs no proof.

## 5. What the code does beside the properties

Seen while modelling, without a property of their own:

- `enqueue` never looks for an entry that is already queued, `restore_queue`
  does: copies of one work object use up the five places of the queue.
- An exception in `run_cycle` degrades readiness with a reason nothing recovers
  (only failures of consolidation and of schedules are): cycle, daydream and
  consolidation stand still until a restart (scheduler.py:253-289, 381).
- A failed subtask is a ready row like any other. The cycle submits it under
  another id, whose end no row is found for; what waits for the subtask is never
  unblocked.
- A finished subtask is an *artifact*, which the ladder may promote to a task
  again; a subtask already in the agent that depends on its row is then held.
- A project on the ladder is decomposed anew in every cycle.
- `UserInputRequired` raised by one of several parallel tool calls is turned into
  a result by `gather`.
- The first deep run of the tool loop to end takes focus mode from one that goes
  on.
- A consolidation run that made way for a user turn is persisted as the last run
  and is not due before a whole interval (maintenance_runtime.py:233).
- A crash between a notice of an interrupted turn and the completion of its
  marker repeats the notice; a Telegram update handled but not confirmed is
  handled again.
- Embeddings asked of a provider that has none count toward opening the circuit
  of its chat calls (llm.py:885). There is no trial call when the circuit expires:
  all callers are let through.

## 6. Not modelled

The repository has more than 160 000 lines; most of them are not behaviour a
model checker has a use for, and the models above cover a small share of the
lines although they cover most of the steps at which coroutines, processes and
crashes meet.

- *Text and numbers*: affect, somatic state, daydream, reflection, identity,
  values, scoring, retrieval, prompts, rendering. Their results enter the models
  as free choices.
- *Adapters*: telephone, mobile, desktop, browser, shell, files, mail, the HTTP
  routes and the dashboard. They are input and output with services outside; the
  routes that write schedule items are in `ScheduleService`.
- *Stores* with single statements and no protocol of their own: plans,
  commitments, threads, receipts, telemetry, diagnostics.
- *Threads of the supervisors*: output between the two locks of `poll` can be
  lost (process_supervisor.py:114). The model would be one of operating-system
  pipes rather than of this code's states.
- *Left for later*: `stop` of lanes and agent, creation and deduplication of
  schedule items, context proposals and the truth arbiter, commitments, edits of
  work objects.

## 7. Plan

Done are the models of section 2 with their runs, a theorem for every safety
property the passing runs check, three refinements and the composition of the
services. Left, in order of weight:

1. Orderly stop: `LaneManager` with sentinels, `BAA.stop` and a later `start` in
   the same process.
2. Schedule creation and deduplication.
3. Composition with the detailed agent: schedule runs and cycles that become its
   tasks, across a crash.
4. Context proposals, the truth arbiter and commitments.
