------------------------- MODULE ConsolidationWorker -------------------------
(***************************************************************************)
(* Nightly consolidation in a worker process: the scheduler's loop with    *)
(* its retries (opencas/runtime/scheduler.py), the parent's and the        *)
(* worker's side of runtime/consolidation_worker.py, the state file of     *)
(* runtime/consolidation_state.py, and the user turn that cancels a        *)
(* running worker from a thread (AgentRuntime.converse).                   *)
(*                                                                         *)
(* The three sides meet in files and signals only, so every file written   *)
(* and every signal is a step of its own.  A run is one worker process.    *)
(* Of time only what matters is left: a sleep ends, an interval passes.    *)
(***************************************************************************)
EXTENDS Naturals, FiniteSets

CONSTANTS
  Runs,             \* worker processes that may be started
  NoRun,
  MaxAttempts,      \* consolidation_retry_attempts
  WorkerFaults,     \* bound: runs that fail, do not start, or hang
  MaxTalks,         \* bound: user turns
  MaxStops          \* bound: stops and crashes of the main process

ASSUME WorkerAssumption ==
  /\ NoRun \notin Runs /\ WorkerFaults \subseteq Runs
  /\ MaxAttempts \in Nat \ {0} /\ {MaxTalks, MaxStops} \subseteq Nat

VARIABLES
  \* the main process: where its loop is, its run, the run's outcome, attempts
  loop, run, outcome, attempts,
  \* the files: worker status, results, how the last run persisted has ended
  status, result, timing,
  \* consolidation_interval has passed since that run was persisted; the rest
  \* of what the loop asks before it starts a run stands against it
  ripe, barred,
  \* the worker processes
  worker,
  \* the user turn: where it is, the run it cancels; quiet long enough
  talk, target, quiet,
  talks, stops, signalled   \* bounds, and the runs a turn has stopped (history)

parentVars == <<loop, run, outcome, attempts>>
fileVars   == <<status, result, timing>>
talkVars   == <<talk, target, quiet, talks, signalled>>
gateVars   == <<ripe, barred>>
workerVars == <<parentVars, fileVars, gateVars, worker, talkVars, stops>>

Failures == {"start_failed", "timeout", "failed", "no_result"}
RunOutcomes == {"none", "ok", "cancelled"} \cup Failures

WorkerTypeOK ==
  /\ loop \in {"sleep", "await", "brief", "persist", "settle", "retry"}
  /\ run \in Runs \cup {NoRun} /\ outcome \in RunOutcomes /\ attempts \in 0..MaxAttempts
  /\ status \in [run : Runs \cup {NoRun},
                 says : {"none", "starting", "running", "completed", "failed",
                         "timeout_killed", "cancelled"}]
  /\ result \in [Runs -> {"none", "ok", "failed", "cancelled"}]
  /\ timing \in RunOutcomes /\ {ripe, barred} \subseteq BOOLEAN
  /\ worker \in [Runs -> {"unborn", "begun", "starting", "running", "ok", "failed",
                          "over", "dead"}]
  /\ talk \in {"idle", "found", "killed", "written", "talking"}
  /\ target \in Runs \cup {NoRun} /\ quiet \in BOOLEAN
  /\ talks \in 0..MaxTalks /\ stops \in 0..MaxStops /\ signalled \subseteq Runs

WorkerInit ==
  /\ loop = "sleep" /\ run = NoRun /\ outcome = "none" /\ attempts = 0
  /\ status = [run |-> NoRun, says |-> "none"]
  /\ result = [r \in Runs |-> "none"]
  /\ timing = "none" /\ ripe = FALSE /\ barred = FALSE
  /\ worker = [r \in Runs |-> "unborn"]
  /\ talk = "idle" /\ target = NoRun /\ quiet = TRUE
  /\ talks = 0 /\ stops = 0 /\ signalled = {}

Live(r) == worker[r] \notin {"unborn", "dead"}
Reported(r, says) == status' = [run |-> r, says |-> says]

-----------------------------------------------------------------------------
(***************************************************************************)
(* The worker: _run_cli and its heartbeat.                                 *)
(***************************************************************************)
WorkerStarts(r) ==
  /\ worker[r] = "begun"
  /\ worker' = [worker EXCEPT ![r] = "starting"] /\ Reported(r, "starting")
  /\ UNCHANGED <<parentVars, result, timing, gateVars, talkVars, stops>>

Heartbeat(r) ==
  /\ worker[r] \in {"starting", "running"}
  /\ worker' = [worker EXCEPT ![r] = "running"] /\ Reported(r, "running")
  /\ UNCHANGED <<parentVars, result, timing, gateVars, talkVars, stops>>

\* The engine returns or raises: first the result file ...
WriteResult(r) ==
  /\ worker[r] = "running"
  /\ \E end \in {"ok", "failed"} :
       /\ end = "failed" => r \in WorkerFaults
       /\ worker' = [worker EXCEPT ![r] = end] /\ result' = [result EXCEPT ![r] = end]
  /\ UNCHANGED <<parentVars, status, timing, gateVars, talkVars, stops>>

\* ... then the status file ...
WriteStatus(r) ==
  /\ worker[r] \in {"ok", "failed"}
  /\ Reported(r, IF worker[r] = "ok" THEN "completed" ELSE "failed")
  /\ worker' = [worker EXCEPT ![r] = "over"]
  /\ UNCHANGED <<parentVars, result, timing, gateVars, talkVars, stops>>

\* ... and the process exits; a faulty one may die at any moment.
WorkerExits(r) ==
  /\ Live(r) /\ (worker[r] = "over" \/ r \in WorkerFaults)
  /\ worker' = [worker EXCEPT ![r] = "dead"]
  /\ UNCHANGED <<parentVars, fileVars, gateVars, talkVars, stops>>

-----------------------------------------------------------------------------
(***************************************************************************)
(* The main process.                                                       *)
(***************************************************************************)
\* _consolidation_worker_active: the status file and the process itself.
WorkerActive == status.says = "running" /\ Live(status.run)

\* consolidation_delay_until_due: at once without a run or after one that
\* failed (its back-off is a sleep), else a whole interval after the last.
Due == timing \in Failures \cup {"none"} \/ ripe

\* _should_run_consolidation and _background_llm_block_reason, as
\* _consolidation_loop asks for them.  "barred" is what other parts of the
\* program decide: focus mode, a readiness degraded by something else, the
\* executive's pause, a busy assistant agent, another activity.
Blocked == barred \/ WorkerActive \/ ~ quiet \/ talk # "idle"

\* A first attempt, or a retry after its pause: nothing is asked again then.
Launch ==
  /\ loop = "retry" \/ (loop = "sleep" /\ Due /\ ~ Blocked)
  /\ attempts < MaxAttempts
  /\ \E r \in Runs :
       /\ worker[r] = "unborn"
       /\ run' = r /\ attempts' = attempts + 1
       /\ \/ /\ worker' = [worker EXCEPT ![r] = "begun"]
             /\ loop' = "await" /\ UNCHANGED outcome
          \/ /\ r \in WorkerFaults /\ worker' = [worker EXCEPT ![r] = "dead"]
             /\ loop' = "persist" /\ outcome' = "start_failed"
  /\ UNCHANGED <<fileVars, gateVars, talkVars, stops>>

Ends(how) == loop' = "persist" /\ outcome' = how

CancelSeen == status.run = run /\ status.says = "cancelled"

\* Wrong: a missing result is a failure at once.
CollectAtOnce ==
  /\ loop = "await" /\ worker[run] = "dead"
  /\ Ends(IF result[run] # "none" THEN result[run] ELSE "no_result")
  /\ UNCHANGED <<run, attempts, fileVars, gateVars, worker, talkVars, stops>>

\* communicate() returns: the result file, or word of a cancellation, else a
\* brief wait.
Collect ==
  /\ loop = "await" /\ worker[run] = "dead"
  /\ \/ result[run] # "none" /\ Ends(result[run])
     \/ result[run] = "none" /\ CancelSeen /\ Ends("cancelled")
     \/ result[run] = "none" /\ ~ CancelSeen /\ loop' = "brief" /\ UNCHANGED outcome
  /\ UNCHANGED <<run, attempts, fileVars, gateVars, worker, talkVars, stops>>

\* The brief wait ends with the result of a cancellation that is under way:
\* a canceller that has seen the worker dead writes it well within the wait.
CollectLate ==
  /\ loop = "brief"
  /\ ~ (talk = "killed" /\ target = run)
  /\ Ends(IF result[run] # "none" THEN result[run]
          ELSE IF CancelSeen THEN "cancelled" ELSE "no_result")
  /\ UNCHANGED <<run, attempts, fileVars, gateVars, worker, talkVars, stops>>

\* Wrong: the worker is given up and reported, and goes on.
TimeoutLeaves ==
  /\ loop = "await" /\ run \in WorkerFaults /\ Live(run)
  /\ Reported(run, "timeout_killed")
  /\ Ends("timeout")
  /\ UNCHANGED <<run, attempts, result, timing, gateVars, worker, talkVars, stops>>

\* wait_for runs out: the worker is killed and reported.
Timeout ==
  /\ loop = "await" /\ run \in WorkerFaults /\ Live(run)
  /\ worker' = [worker EXCEPT ![run] = "dead"]
  /\ Reported(run, "timeout_killed")
  /\ Ends("timeout")
  /\ UNCHANGED <<run, attempts, result, timing, gateVars, talkVars, stops>>

\* run_runtime_consolidation persists whatever came back as the last run, one
\* that made way for a user turn as well.
Persist ==
  /\ loop = "persist"
  /\ timing' = outcome /\ ripe' = FALSE
  /\ loop' = "settle"
  /\ UNCHANGED <<run, outcome, attempts, status, result, barred, worker, talkVars, stops>>

\* _consolidation_result_requires_retry: never after a foreground turn.
RequiresRetry == outcome \in Failures

\* Wrong: the attempts of the last round count in the next.
SleepSpent == loop' = "sleep" /\ UNCHANGED attempts

\* The next round starts with a fresh helper and its count.
Sleep == loop' = "sleep" /\ attempts' = 0

\* The retry helper and the loop behind it: pause and retry, or sleep after a
\* run that is over, was deferred, or failed for the last time.
Settle ==
  /\ loop = "settle"
  /\ IF RequiresRetry /\ attempts < MaxAttempts
     THEN loop' = "retry" /\ UNCHANGED attempts
     ELSE Sleep
  /\ UNCHANGED <<run, outcome, fileVars, gateVars, worker, talkVars, stops>>

Down(kill) ==
  /\ stops < MaxStops /\ stops' = stops + 1
  /\ loop' = "sleep" /\ run' = NoRun /\ outcome' = "none" /\ attempts' = 0
  /\ talk' = "idle" /\ target' = NoRun /\ quiet' = TRUE
  /\ UNCHANGED <<result, timing, gateVars, talks, signalled>>
  /\ IF kill /\ loop = "await"
     THEN worker' = [worker EXCEPT ![run] = "dead"] /\ Reported(run, "cancelled")
     ELSE UNCHANGED <<worker, status>>

\* The scheduler is stopped while it waits for the worker: kill and report.
Stop == Down(TRUE)

\* The main process dies; its worker goes on.
ParentCrash == Down(FALSE)

-----------------------------------------------------------------------------
(***************************************************************************)
(* The user turn: cancel_active_consolidation_worker in a thread.          *)
(***************************************************************************)
unmoved == <<parentVars, timing, gateVars, stops>>

\* The status says running and the process exists, or there is nothing to do.
Talk ==
  /\ talk = "idle" /\ talks < MaxTalks
  /\ talks' = talks + 1 /\ quiet' = FALSE
  /\ IF WorkerActive THEN talk' = "found" /\ target' = status.run
     ELSE talk' = "talking" /\ target' = NoRun
  /\ UNCHANGED <<unmoved, status, result, worker, signalled>>

\* SIGTERM, then SIGKILL when the grace is over.
KillWorker ==
  /\ talk = "found" /\ talk' = "killed"
  /\ worker' = [worker EXCEPT ![target] = "dead"]
  /\ signalled' = IF Live(target) THEN signalled \cup {target} ELSE signalled
  /\ UNCHANGED <<unmoved, status, result, target, quiet, talks>>

WriteCancelResult ==
  /\ talk = "killed" /\ talk' = "written"
  /\ result' = [result EXCEPT ![target] = "cancelled"]
  /\ UNCHANGED <<unmoved, status, worker, target, quiet, talks, signalled>>

WriteCancelStatus ==
  /\ talk = "written" /\ talk' = "talking"
  /\ Reported(target, "cancelled")
  /\ UNCHANGED <<unmoved, result, worker, target, quiet, talks, signalled>>

EndTalk ==
  /\ talk = "talking" /\ talk' = "idle" /\ target' = NoRun
  /\ UNCHANGED <<unmoved, status, result, worker, quiet, talks, signalled>>

\* conversation_quiet_seconds have passed.
Quieten ==
  /\ ~ quiet /\ quiet' = TRUE
  /\ UNCHANGED <<unmoved, status, result, worker, talk, target, talks, signalled>>

\* consolidation_interval has passed.
Ripens ==
  /\ ~ ripe /\ ripe' = TRUE
  /\ UNCHANGED <<parentVars, fileVars, barred, worker, talkVars, stops>>

\* The rest of the program bars consolidation, or does so no longer.
Bars ==
  /\ barred' = ~ barred
  /\ UNCHANGED <<parentVars, fileVars, ripe, worker, talkVars, stops>>

-----------------------------------------------------------------------------
WorkerStep(r) == WorkerStarts(r) \/ WriteResult(r) \/ WriteStatus(r) \/ WorkerExits(r)
ParentStep == Launch \/ Collect \/ CollectLate \/ Timeout \/ Persist \/ Settle
TalkStep == KillWorker \/ WriteCancelResult \/ WriteCancelStatus \/ EndTalk

WorkerNext ==
  \/ \E r \in Runs : WorkerStep(r) \/ Heartbeat(r)
  \/ ParentStep \/ Stop \/ ParentCrash \/ Talk \/ TalkStep \/ Quieten \/ Ripens \/ Bars

\* The processes and threads are scheduled, sleeps and turns end.  Nothing says
\* that the rest of the program ever stops barring consolidation.
WorkerFairness ==
  /\ \A r \in Runs : WF_workerVars(WorkerStep(r)) /\ WF_workerVars(Heartbeat(r))
  /\ WF_workerVars(ParentStep) /\ WF_workerVars(TalkStep) /\ WF_workerVars(Quieten)

WorkerSpec == WorkerInit /\ [][WorkerNext]_workerVars /\ WorkerFairness

-----------------------------------------------------------------------------
(***************************************************************************)
(* Properties.                                                             *)
(***************************************************************************)
\* A run that a user turn stopped is reported as cancelled or, when it was
\* just finished, as what it was: never as a failure, which would be retried
\* under the user's turn and degrade readiness.
PreemptionIsNoFailure ==
  loop \in {"settle", "retry"} /\ run \in signalled =>
    ~ RequiresRetry \/ result[run] = "failed" \/ run \in WorkerFaults

\* Two consolidation engines never work on the memories at once: a retry, before
\* which nothing is asked again, starts when the worker before it is gone,
\* whether it ended, hung or was cancelled by a user turn.  A main process that
\* dies leaves its worker behind; the property is about one main process.
OneEngine ==
  stops = 0 => \A r, s \in Runs : Live(r) /\ Live(s) => r = s

\* Consolidation succeeds in the end, in spite of runs that fail or hang and of
\* user turns that stop it, if the rest of the program bars it no longer from
\* some moment on; no interval need pass but after a run that made way for a
\* user turn, which counts as the last run.
Consolidates ==
  (<>[](~ barred) /\ []<>(ripe \/ timing # "cancelled"))
    => <>(\E r \in Runs : result[r] = "ok")
=============================================================================
