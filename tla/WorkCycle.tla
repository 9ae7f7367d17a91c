------------------------------ MODULE WorkCycle ------------------------------
(***************************************************************************)
(* How the agent gives itself work: the cycle loop of the scheduler        *)
(* (opencas/runtime/scheduler.py) runs AgentRuntime.run_cycle, which fills *)
(* the queue of ExecutiveState (autonomy/executive.py) from the work store *)
(* and from the creative ladder, may intervene, and gives one work object  *)
(* to the bounded assistant agent (runtime/cycle_phases.py).               *)
(*                                                                         *)
(* A work object exists in up to three copies: its row, its object on the  *)
(* ladder and its entries in the queue.  Each copy is what another step of *)
(* the cycle goes by.  Of stages only "low" (spark, note, artifact) and    *)
(* "ready" (a task) are told apart; projects are in ProjectFlow.  What the *)
(* queue is sorted by is data: any entry may be its head.                  *)
(***************************************************************************)
EXTENDS Naturals, FiniteSets

CONSTANTS
  Works,          \* work objects, of different contents
  Stored,         \* those that have a row at the start
  Capacity,       \* ExecutiveState.queue_hard_cap
  Fatigues,       \* what "fatigue > 0.7" may be; the start is rested
  NoWork,
  MaxMishaps      \* bound: exceptions in the cycle, lookups and deletions that
                  \* fail, successes out of a lookup's sight, fatigues, restarts

ASSUME WorkAssumption ==
  /\ IsFiniteSet(Works) /\ Stored \subseteq Works /\ NoWork \notin Works
  /\ Capacity \in Nat \ {0}
  /\ FALSE \in Fatigues /\ Fatigues \subseteq BOOLEAN
  /\ MaxMishaps \in Nat

VARIABLES
  \* the stores: rows of work_objects; by their objective the agent's last
  \* tasks, and which have a success among the 500 tasks written last
  row, task, page,
  \* memory: the ladder, how often a work object is in the queue, successes
  \* within the cooldown of _recent_terminal
  ladder, queued, recalled,
  \* the loop: where it is, what it has still to look at, the work in hand,
  \* whether the executive was paused when it last looked, readiness
  place, unseen, hand, wasPaused, degraded,
  tired, mishaps,
  \* history: successes since a lookup could last not see one (two stand for
  \* more), works an intervention launched, works retired from both places
  successes, launched, retired

storedVars  == <<row, task, page>>
heldVars    == <<ladder, queued, recalled>>
loopState   == <<place, unseen, hand, wasPaused, degraded>>
boundVars   == <<tired, mishaps>>
historyVars == <<successes, launched, retired>>
cycleVars   == <<storedVars, heldVars, loopState, boundVars, historyVars>>

Cycling   == {"restore", "climb", "enqueue", "intervene", "drain", "check", "submit"}
Restoring == {"boot", "resume", "restore"}

\* The entries of the queue: a work object may have several.
Entries == UNION {{w} \X (1..queued[w]) : w \in Works}
QueueLength == Cardinality(Entries)
Full == QueueLength >= Capacity

\* recommend_pause
Paused == Full \/ tired

\* list_ready, of which the loop of restore_queue uses these.
ReadyRows == {w \in Works : row[w] = "ready"}

WorkTypeOK ==
  /\ row \in [Works -> {"new", "none", "low", "ready", "blocked"}]
  /\ task \in [Works -> {"none", "live", "done", "failed"}]
  /\ page \subseteq Works
  /\ ladder \in [Works -> {"out", "low", "ready"}]
  /\ queued \in [Works -> Nat] /\ QueueLength <= Capacity
  /\ recalled \subseteq Works
  /\ place \in Cycling \cup {"boot", "sleep", "resume", "gate"}
  /\ unseen \subseteq Works /\ hand \in Works \cup {NoWork}
  /\ {wasPaused, degraded, tired} \subseteq BOOLEAN
  /\ mishaps \in 0..MaxMishaps
  /\ successes \in [Works -> 0..2] /\ launched \subseteq Works /\ retired \subseteq Works

CycleInit ==
  /\ row = [w \in Works |-> IF w \in Stored THEN "ready" ELSE "new"]
  /\ task = [w \in Works |-> "none"] /\ page = {}
  /\ ladder = [w \in Works |-> "out"] /\ queued = [w \in Works |-> 0]
  /\ recalled = {}
  /\ place = "boot" /\ unseen = Stored /\ hand = NoWork
  /\ wasPaused = FALSE /\ degraded = FALSE
  /\ tired = FALSE /\ mishaps = 0
  /\ successes = [w \in Works |-> 0] /\ launched = {} /\ retired = {}

-----------------------------------------------------------------------------
(* The agent, as the cycle sees it. *)

\* submit: a live duplicate is an alias; a success of late is answered at once;
\* a failure may be answered likewise (the governor's decision is data).
Submits(w) ==
  IF task[w] = "live" \/ w \in recalled THEN UNCHANGED task
  ELSE \/ task' = [task EXCEPT ![w] = "live"]
       \/ task[w] = "failed" /\ UNCHANGED task

TaskEnds(w) ==
  /\ task[w] = "live"
  /\ \/ /\ task' = [task EXCEPT ![w] = "done"] /\ page' = page \cup {w}
        /\ successes' = [successes EXCEPT ![w] = IF @ < 2 THEN @ + 1 ELSE @]
        /\ recalled' = recalled \cup {w}
     \/ /\ task' = [task EXCEPT ![w] = "failed"]
        /\ UNCHANGED <<page, successes, recalled>>
  /\ UNCHANGED <<row, ladder, queued, loopState, boundVars, launched, retired>>

\* _DUPLICATE_SUCCESS_COOLDOWN_SECONDS have passed.
CooledDown(w) ==
  /\ w \in recalled
  /\ recalled' = recalled \ {w}
  /\ UNCHANGED <<storedVars, ladder, queued, loopState, boundVars, historyVars>>

Mishap == mishaps < MaxMishaps /\ mishaps' = mishaps + 1

\* list_all(limit = 500) takes the tasks updated last; others push a success out.
Ages(w) ==
  /\ w \in page /\ Mishap
  /\ page' = page \ {w} /\ successes' = [successes EXCEPT ![w] = 0]
  /\ UNCHANGED <<row, task, heldVars, loopState, tired, launched, retired>>

-----------------------------------------------------------------------------
(* The loop: _cycle_loop. *)

\* After the pause and the sleep; the end of a pause restores deferred work.
Wake ==
  /\ place = "sleep"
  /\ wasPaused' = Paused
  /\ IF wasPaused /\ ~Paused
     THEN place' = "resume" /\ unseen' = ReadyRows
     ELSE place' = "gate" /\ UNCHANGED unseen
  /\ UNCHANGED <<storedVars, heldVars, hand, degraded, boundVars, historyVars>>

\* Wrong: the cycle runs beside tasks the agent still works on.
AdmittedWhileBusy == ~degraded /\ ~Paused

\* _should_run_cycle and _background_llm_block_reason(require_quiet_baa=True)
Admitted == ~degraded /\ ~Paused /\ \A w \in Works : task[w] # "live"

Gate ==
  /\ place = "gate"
  /\ IF Admitted
     THEN place' = "restore" /\ unseen' = ReadyRows
     ELSE place' = "sleep" /\ UNCHANGED unseen
  /\ UNCHANGED <<storedVars, heldVars, hand, wasPaused, degraded, boundVars, historyVars>>

\* restore_queue, for one row: rejected by goal hygiene, passed over (its
\* commitment is not active, or it is in the queue already), or appended; a
\* full queue ends the loop.
RestoreOne(w) ==
  /\ place \in Restoring /\ w \in unseen
  /\ \/ /\ row' = [row EXCEPT ![w] = "blocked"]
        /\ unseen' = unseen \ {w} /\ UNCHANGED queued
     \/ unseen' = unseen \ {w} /\ UNCHANGED <<row, queued>>
     \/ ~Full /\ queued[w] = 0
        /\ queued' = [queued EXCEPT ![w] = 1]
        /\ unseen' = unseen \ {w} /\ UNCHANGED row
     \/ Full /\ unseen' = {} /\ UNCHANGED <<row, queued>>
  /\ UNCHANGED <<task, page, ladder, recalled, place, hand, wasPaused, degraded, boundVars,
                 historyVars>>

RestoreEnds ==
  /\ place \in Restoring /\ unseen = {}
  /\ place' = CASE place = "boot" -> "sleep" [] place = "resume" -> "gate"
                [] place = "restore" -> "climb"
  /\ UNCHANGED <<storedVars, heldVars, unseen, hand, wasPaused, degraded, boundVars,
                 historyVars>>

-----------------------------------------------------------------------------
(* The cycle: run_cycle. *)

\* hydrate_from_store and CreativeLadder.run_cycle: low rows come onto the
\* ladder; whatever is promoted or demoted is saved whole.  Which, is data.
Climb ==
  /\ place = "climb"
  /\ LET onto == [w \in Works |-> IF ladder[w] = "out" /\ row[w] = "low"
                                  THEN "low" ELSE ladder[w]]
     IN  \E moved \in SUBSET {w \in Works : onto[w] # "out"} :
           \E to \in [moved -> {"low", "ready"}] :
             /\ ladder' = [w \in Works |-> IF w \in moved THEN to[w] ELSE onto[w]]
             /\ row' = [w \in Works |-> IF w \in moved THEN to[w] ELSE row[w]]
             /\ unseen' = {w \in Works : ladder'[w] = "ready"}
  /\ place' = "enqueue"
  /\ UNCHANGED <<task, page, queued, recalled, hand, wasPaused, degraded, boundVars, historyVars>>

\* CreativeLadder.add, by the daydreams of the cycle, which come before the
\* enqueueing, and by those of another loop.
Dreamt(w) ==
  /\ place # "boot" /\ row[w] = "new"
  /\ \E s \in {"low", "ready"} :
       /\ ladder' = [ladder EXCEPT ![w] = s] /\ row' = [row EXCEPT ![w] = s]
       /\ unseen' = IF place = "enqueue" /\ s = "ready" THEN unseen \cup {w} ELSE unseen
  /\ UNCHANGED <<task, page, queued, recalled, place, hand, wasPaused, degraded, boundVars,
                 historyVars>>

\* Wrong: the object stays on the ladder.
RetiresRow(w) ==
  /\ row' = [row EXCEPT ![w] = "none"] /\ retired' = retired \cup {w}
  /\ UNCHANGED <<ladder, mishaps>>

\* _retire_completed_cycle_work: from the ladder and from the store.  Either
\* may fail, is traced, and the other goes on; what failed keeps its copy.
Retires(w) ==
  \/ /\ row' = [row EXCEPT ![w] = "none"] /\ retired' = retired \cup {w}
     /\ ladder' = [ladder EXCEPT ![w] = "out"] /\ UNCHANGED mishaps
  \/ /\ Mishap /\ UNCHANGED retired
     /\ \/ row' = [row EXCEPT ![w] = "none"] /\ UNCHANGED ladder
        \/ ladder' = [ladder EXCEPT ![w] = "out"] /\ UNCHANGED row
        \/ UNCHANGED <<row, ladder>>

\* _work_already_completed, when its lookup does not fail
Completed(w) == w \in page

\* What enqueue_promoted_cycle_work does with a work object of the ladder that
\* is not completed: passed over, rejected, refused by a full queue, or queued
\* once more.
Enqueues(w) ==
  \/ UNCHANGED <<row, queued>>
  \/ row' = [row EXCEPT ![w] = "blocked"] /\ UNCHANGED queued
  \/ /\ ~Full
     /\ queued' = [queued EXCEPT ![w] = @ + 1]
     /\ row' = [row EXCEPT ![w] = "ready"]

\* One object of the ladder; a lookup that fails says "not completed".
EnqueueOne(w) ==
  /\ place = "enqueue" /\ w \in unseen
  /\ unseen' = unseen \ {w}
  /\ \/ Completed(w) /\ Retires(w) /\ UNCHANGED queued
     \/ ~Completed(w) /\ Enqueues(w) /\ UNCHANGED <<ladder, mishaps, retired>>
     \/ Completed(w) /\ Mishap /\ Enqueues(w) /\ UNCHANGED <<ladder, retired>>
  /\ UNCHANGED <<task, page, recalled, place, hand, wasPaused, degraded, tired,
                 successes, launched>>

EnqueueEnds ==
  /\ place = "enqueue" /\ unseen = {}
  /\ place' = "intervene"
  /\ UNCHANGED <<storedVars, heldVars, unseen, hand, wasPaused, degraded, boundVars,
                 historyVars>>

\* evaluate_workspace_intervention: nothing, a launch of the focus in the
\* background, or its removal from the queue and the store.
Intervene ==
  /\ place = "intervene" /\ place' = "drain"
  /\ \/ UNCHANGED <<storedVars, queued, launched>>
     \/ \E w \in Works :
          /\ row[w] \in {"low", "ready"}
          /\ \/ /\ Submits(w) /\ launched' = launched \cup {w}
                /\ UNCHANGED <<row, queued>>
             \/ /\ queued' = [queued EXCEPT ![w] = IF @ > 0 THEN @ - 1 ELSE 0]
                /\ row' = [row EXCEPT ![w] = "none"]
                /\ UNCHANGED <<task, launched>>
  /\ UNCHANGED <<page, ladder, recalled, unseen, hand, wasPaused, degraded, boundVars,
                 successes, retired>>

\* drain_executive_cycle_queue: not when tired; overload does not stop it.
Drain ==
  /\ place = "drain"
  /\ \/ /\ tired \/ QueueLength = 0
        /\ place' = "sleep" /\ UNCHANGED <<queued, hand>>
     \/ /\ ~tired
        /\ \E w \in {v \in Works : queued[v] > 0} :
             /\ queued' = [queued EXCEPT ![w] = @ - 1]
             /\ hand' = w /\ place' = "check"
  /\ UNCHANGED <<storedVars, ladder, recalled, unseen, wasPaused, degraded, boundVars,
                 historyVars>>

Check ==
  /\ place = "check"
  /\ \/ /\ Completed(hand) /\ Retires(hand)
        /\ place' = "sleep" /\ hand' = NoWork /\ UNCHANGED successes
     \/ /\ ~Completed(hand) /\ place' = "submit"
        /\ UNCHANGED <<row, ladder, hand, mishaps, successes, retired>>
     \/ /\ Completed(hand) /\ Mishap /\ place' = "submit"
        /\ successes' = [successes EXCEPT ![hand] = 0]
        /\ UNCHANGED <<row, ladder, hand, retired>>
  /\ UNCHANGED <<task, page, queued, recalled, unseen, wasPaused, degraded, tired,
                 launched>>

\* _dispatch_dequeued_work and _resolve_immediate_dispatch_intention
SubmitWork ==
  /\ place = "submit" /\ place' = "sleep" /\ hand' = NoWork
  /\ Submits(hand)
  /\ IF task[hand] # "live" /\ hand \in recalled
     THEN Retires(hand) ELSE UNCHANGED <<row, ladder, mishaps, retired>>
  /\ UNCHANGED <<page, queued, recalled, unseen, wasPaused, degraded, tired, successes,
                 launched>>

\* An exception in run_cycle, which nothing sets right again.
CycleFails ==
  /\ place \in Cycling /\ Mishap
  /\ degraded' = TRUE
  /\ place' = "sleep" /\ unseen' = {} /\ hand' = NoWork
  /\ UNCHANGED <<storedVars, heldVars, wasPaused, tired, historyVars>>

-----------------------------------------------------------------------------
Tires ==
  /\ TRUE \in Fatigues /\ ~tired /\ Mishap
  /\ tired' = TRUE
  /\ UNCHANGED <<storedVars, heldVars, loopState, historyVars>>

Rests ==
  /\ tired /\ tired' = FALSE
  /\ UNCHANGED <<storedVars, heldVars, loopState, mishaps, historyVars>>

\* The process ends and starts: the queue is restored; the agent finds its
\* tasks, and of its successes of late those of the last 200, in the store again.
Reboot ==
  /\ Mishap
  /\ ladder' = [w \in Works |-> "out"] /\ queued' = [w \in Works |-> 0]
  /\ recalled' \in SUBSET recalled
  /\ place' = "boot" /\ unseen' = ReadyRows /\ hand' = NoWork
  /\ wasPaused' = FALSE /\ degraded' = FALSE
  /\ UNCHANGED <<storedVars, tired, historyVars>>

LoopStep ==
  \/ Wake \/ Gate \/ RestoreEnds \/ Climb \/ EnqueueEnds \/ Intervene \/ Drain
  \/ Check \/ SubmitWork
  \/ \E w \in Works : RestoreOne(w) \/ EnqueueOne(w)

CycleNext ==
  \/ LoopStep \/ CycleFails \/ Tires \/ Rests \/ Reboot
  \/ \E w \in Works : TaskEnds(w) \/ CooledDown(w) \/ Ages(w) \/ Dreamt(w)

\* The loop never ends, and executions end.
CycleFairness ==
  /\ WF_cycleVars(LoopStep)
  /\ \A w \in Works : WF_cycleVars(TaskEnds(w))

CycleSpec == CycleInit /\ [][CycleNext]_cycleVars /\ CycleFairness

-----------------------------------------------------------------------------
(* Properties. *)

\* What was carried out is not carried out again as long as a lookup can see
\* it: copies of a work object left in the queue, on the ladder or in the store
\* are recognised before they are submitted, also after a restart, after a
\* retirement that failed and when the agent has forgotten the success.  Each
\* lookup that raises, and each success that 500 newer tasks hide, may cost one
\* more execution.  Interventions do not look, and are left out.
DoneOnce == \A w \in Works \ launched : successes[w] <= 1

\* A work object retired as completed, its ladder object and its row deleted,
\* does not come back: no step saves it again from a copy it still has.
RetiredForGood == \A w \in retired : row[w] = "none" /\ ladder[w] = "out"

\* The executive does not stay overloaded: the loop goes slower and the cycle
\* drains its queue.
OverloadEnds == Full ~> ~Full
=============================================================================
