----------------------------- MODULE ProjectFlow -----------------------------
(***************************************************************************)
(* The subtasks of a project: autonomy/project_orchestrator.py writes one  *)
(* row for each into the work store, submits those that depend on nothing, *)
(* and submits others when the agent reports that what they waited for was *)
(* carried out.  The report is handled within the worker that ends the     *)
(* task (EventBus.emit awaits its handlers), so the handlers of two        *)
(* workers interleave with each other and with the planner that is still   *)
(* submitting.  A row is read, changed in memory and saved whole.          *)
(***************************************************************************)
EXTENDS Naturals, FiniteSets

CONSTANTS
  Subtasks,
  DependsOn,    \* what each depends on, as the plan says
  Hands,        \* the agent's workers
  Planner,      \* the cycle, in decompose
  Nothing

ASSUME ProjectAssumption ==
  /\ IsFiniteSet(Subtasks) /\ DependsOn \in [Subtasks -> SUBSET Subtasks]
  /\ Planner \notin Hands /\ Nothing \notin Subtasks

Submitters == Hands \cup {Planner}

VARIABLES
  subrow,   \* the rows: stage, what blocks it, whether marked as submitted
  waiting,  \* in the agent: copies of each subtask that wait for a worker
  duty,     \* each worker and the planner: its step, the subtask and its outcome
  image,    \* the row it has read and is going to save
  listed,   \* dependents it has read and not yet written: what blocked them
  due,      \* subtasks it is going to submit
  \* history: submissions, subtasks carried out, subtasks that were removed
  \* from the rows they blocked
  asked, won, freed

storeVars   == <<subrow, waiting>>
handlerVars == <<image, listed, due>>
outcomeVars == <<asked, won, freed>>
planVars    == <<storeVars, duty, handlerVars, outcomeVars>>

SubtaskRows == [stage : {"task", "artifact", "gone"}, blocked : SUBSET Subtasks,
                submitted : BOOLEAN]
NoImage == [stage |-> "gone", blocked |-> {}, submitted |-> FALSE]

Duty(act, s, ok) == [act |-> act, of |-> s, ok |-> ok]
Resting == Duty("idle", Nothing, FALSE)
Submitting == Duty("submit", Nothing, FALSE)
Acts == {"idle", "run", "find", "save", "select", "update", "submit", "read", "mark"}

ProjectTypeOK ==
  /\ subrow \in [Subtasks -> SubtaskRows]
  /\ waiting \in [Subtasks -> Nat]
  /\ duty \in [Submitters -> [act : Acts, of : Subtasks \cup {Nothing}, ok : BOOLEAN]]
  /\ image \in [Submitters -> SubtaskRows]
  /\ \A p \in Submitters :
       /\ DOMAIN listed[p] \subseteq Subtasks
       /\ \A u \in DOMAIN listed[p] : listed[p][u] \subseteq Subtasks
  /\ due \in [Submitters -> SUBSET Subtasks]
  /\ asked \in [Subtasks -> Nat] /\ won \subseteq Subtasks /\ freed \subseteq Subtasks

\* The rows that _create_tasks makes, saved before the first submission.
ProjectInit ==
  /\ subrow = [s \in Subtasks |->
                 [stage |-> "task", blocked |-> DependsOn[s], submitted |-> FALSE]]
  /\ waiting = [s \in Subtasks |-> 0]
  /\ duty = [p \in Submitters |-> IF p = Planner THEN Submitting ELSE Resting]
  /\ image = [p \in Submitters |-> NoImage]
  /\ listed = [p \in Submitters |-> << >>]
  /\ due = [p \in Submitters |->
              IF p = Planner THEN {s \in Subtasks : DependsOn[s] = {}} ELSE {}]
  /\ asked = [s \in Subtasks |-> 0] /\ won = {} /\ freed = {}

Becomes(p, d) == duty' = [duty EXCEPT ![p] = d]
Proceeds(p, act) == duty' = [duty EXCEPT ![p].act = act]

-----------------------------------------------------------------------------
(* Submitting and marking: decompose and _submit_ready_project_tasks. *)

\* _submit_task.  The agent sees no duplicate in a task of the same id.
SubmitTask(p, s) ==
  /\ duty[p].act = "submit" /\ s \in due[p]
  /\ due' = [due EXCEPT ![p] = @ \ {s}]
  /\ waiting' = [waiting EXCEPT ![s] = @ + 1]
  /\ asked' = [asked EXCEPT ![s] = @ + 1]
  /\ Becomes(p, Duty("read", s, FALSE))
  /\ UNCHANGED <<subrow, image, listed, won, freed>>

SubmissionEnds(p) ==
  /\ duty[p].act = "submit" /\ due[p] = {}
  /\ Becomes(p, Resting)
  /\ UNCHANGED <<storeVars, handlerVars, outcomeVars>>

\* _mark_repair_task_submitted reads the row by the task's id ...
ReadToMark(p) ==
  /\ duty[p].act = "read"
  /\ LET r == subrow[duty[p].of]
     IN  IF r.stage = "gone"
         THEN Becomes(p, Submitting) /\ UNCHANGED image
         ELSE Proceeds(p, "mark") /\ image' = [image EXCEPT ![p] = r]
  /\ UNCHANGED <<storeVars, listed, due, outcomeVars>>

\* ... and saves it.
Mark(p) ==
  /\ duty[p].act = "mark"
  /\ subrow' = [subrow EXCEPT ![duty[p].of] = [image[p] EXCEPT !.submitted = TRUE]]
  /\ Becomes(p, Submitting) /\ image' = [image EXCEPT ![p] = NoImage]
  /\ UNCHANGED <<waiting, listed, due, outcomeVars>>

-----------------------------------------------------------------------------
(* A worker of the agent, up to the event. *)

\* _work_dependency_ready: a task that names rows that are not is held back.
RowReady(s) == subrow[s].stage = "artifact" /\ subrow[s].blocked = {}

TakeUp(h, s) ==
  /\ duty[h].act = "idle" /\ waiting[s] > 0
  /\ \A d \in DependsOn[s] : RowReady(d)
  /\ waiting' = [waiting EXCEPT ![s] = @ - 1]
  /\ Becomes(h, Duty("run", s, FALSE))
  /\ UNCHANGED <<subrow, handlerVars, outcomeVars>>

CarriedOut(h, ok) ==
  /\ duty[h].act = "run"
  /\ Becomes(h, Duty("find", duty[h].of, ok))
  /\ won' = IF ok THEN won \cup {duty[h].of} ELSE won
  /\ UNCHANGED <<storeVars, handlerVars, asked, freed>>

-----------------------------------------------------------------------------
(* The handler of the event: _on_baa_completed. *)

\* _find_work_by_repair_task
Find(h) ==
  /\ duty[h].act = "find"
  /\ LET r == subrow[duty[h].of]
     IN  IF r.stage = "gone"
         THEN Becomes(h, Resting) /\ UNCHANGED image
         ELSE Proceeds(h, "save") /\ image' = [image EXCEPT ![h] = r]
  /\ UNCHANGED <<storeVars, listed, due, outcomeVars>>

\* Wrong: a failure unblocks what waits for it as well.
AfterAny(h) == [duty[h] EXCEPT !.act = "select"]

\* What follows the save of the outcome: nothing, after a failure.
AfterOutcome(h) == IF duty[h].ok THEN [duty[h] EXCEPT !.act = "select"] ELSE Resting

SaveOutcome(h) ==
  /\ duty[h].act = "save"
  /\ subrow' = [subrow EXCEPT ![duty[h].of] =
                 [image[h] EXCEPT !.stage = IF duty[h].ok THEN "artifact" ELSE "task",
                                  !.submitted = TRUE]]
  /\ Becomes(h, AfterOutcome(h)) /\ image' = [image EXCEPT ![h] = NoImage]
  /\ UNCHANGED <<waiting, listed, due, outcomeVars>>

\* unblock_dependencies: the rows that name the subtask, with what blocks them.
SelectBlocked(h) ==
  /\ duty[h].act = "select"
  /\ LET rowsNamed == {u \in Subtasks : /\ duty[h].of \in subrow[u].blocked
                                        /\ subrow[u].stage # "gone"}
     IN  /\ listed' = [listed EXCEPT ![h] = [u \in rowsNamed |-> subrow[u].blocked]]
         /\ IF rowsNamed = {}
            THEN Becomes(h, Resting) /\ freed' = freed \cup {duty[h].of}
            ELSE Proceeds(h, "update") /\ UNCHANGED freed
  /\ UNCHANGED <<storeVars, image, due, asked, won>>

\* One UPDATE for each of them, from the list that was read.
Unblock(h, u) ==
  /\ duty[h].act = "update" /\ u \in DOMAIN listed[h]
  /\ subrow' = [subrow EXCEPT ![u].blocked = listed[h][u] \ {duty[h].of}]
  /\ listed' = [listed EXCEPT ![h] = [v \in DOMAIN @ \ {u} |-> @[v]]]
  /\ UNCHANGED <<waiting, duty, image, due, outcomeVars>>

\* list_ready, and the tests of _submit_ready_project_tasks on what it returned.
SubmitReady(h) ==
  /\ duty[h].act = "update" /\ DOMAIN listed[h] = {}
  /\ due' = [due EXCEPT ![h] = {s \in Subtasks : /\ subrow[s].stage = "task"
                                                 /\ subrow[s].blocked = {}
                                                 /\ ~subrow[s].submitted}]
  /\ freed' = freed \cup {duty[h].of}
  /\ Becomes(h, Submitting)
  /\ UNCHANGED <<storeVars, image, listed, asked, won>>

-----------------------------------------------------------------------------
\* The cycle (WorkCycle), when the agent is quiet: an artifact comes back onto
\* the ladder and is promoted, and a row of a task is carried out under another
\* task's id, or found completed, and retired.
CycleTakes(s) ==
  /\ duty = [p \in Submitters |-> Resting]
  /\ waiting = [u \in Subtasks |-> 0]
  /\ subrow[s].blocked = {}
  /\ \/ subrow[s].stage = "artifact" /\ subrow' = [subrow EXCEPT ![s].stage = "task"]
     \/ subrow[s].stage = "task" /\ subrow' = [subrow EXCEPT ![s].stage = "gone"]
  /\ UNCHANGED <<waiting, duty, handlerVars, outcomeVars>>

HandStep(h) ==
  \/ \E s \in Subtasks : TakeUp(h, s) \/ Unblock(h, s)
  \/ \E ok \in BOOLEAN : CarriedOut(h, ok)
  \/ Find(h) \/ SaveOutcome(h) \/ SelectBlocked(h) \/ SubmitReady(h)

ProjectNext ==
  \/ \E h \in Hands : HandStep(h)
  \/ \E p \in Submitters :
       \/ \E s \in Subtasks : SubmitTask(p, s)
       \/ SubmissionEnds(p) \/ ReadToMark(p) \/ Mark(p)
  \/ \E s \in Subtasks : CycleTakes(s)

ProjectSpec == ProjectInit /\ [][ProjectNext]_planVars

-----------------------------------------------------------------------------
(* Properties. *)

\* No subtask is submitted or carried out before all it depends on were carried
\* out, whatever rows the handlers save from what they read before.
InOrder == \A s \in Subtasks : asked[s] > 0 \/ s \in won => DependsOn[s] \subseteq won

\* "Remove *work_id* from the blocked_by list of all work objects": once that is
\* over, no row of the project names the subtask again, whatever another worker
\* does meanwhile with the lists it has read.
Freed == \A s \in freed, u \in Subtasks : s \notin subrow[u].blocked
=============================================================================
