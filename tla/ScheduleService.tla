--------------------------- MODULE ScheduleService ---------------------------
(***************************************************************************)
(* The schedule service (opencas/scheduling/service.py): the scheduler's   *)
(* loop finds due items, records a run for each, moves the item to its     *)
(* next occurrence and submits the work to the bounded assistant agent; it *)
(* also retries runs that were claimed but never submitted.  The API may   *)
(* trigger an item at any time, and other coroutines edit items.           *)
(*                                                                         *)
(* An action is the code between two awaits at which another coroutine can *)
(* change what the action reads.  Every driver works on its own copy of an *)
(* item's row and writes the whole row back.  Time is a number of ticks.   *)
(***************************************************************************)
EXTENDS Naturals, Sequences, FiniteSetsExt

CONSTANTS
  Items,            \* schedule items, all created before the start
  Action,           \* item.action
  Period,           \* the recurrence as a number of ticks, 0 for NONE
  StartAt, EndAt, MaxOccurrences,
  Linked,           \* items with a linked commitment
  Scheduler,        \* the coroutine that runs process_due
  Callers,          \* coroutines of the API that trigger an item by hand
  Editors,          \* coroutines that change an item (API, tools, projects)
  Edits,            \* what they may do
  None,
  RecoverAfter,     \* claimed_run_recovery_seconds
  MaxRecovery,      \* claimed_run_max_recovery_attempts
  CatchUpGuard,     \* the bound of the catch-up loops
  RunPage,          \* the limit of list_runs
  DeferBy, ProbeAfter,   \* retry of a failed run, of an auth failure
  Faults,           \* which calls may fail
  MaxTime, MaxCrashes, MaxEdits, MaxManual   \* bounds on environment steps

Drivers == {Scheduler} \cup Callers
Time == Nat \cup {None}

ASSUME ConstantsAssumption ==
  /\ None \notin Nat /\ None \notin Items
  /\ Scheduler \notin Callers
  /\ Action \in [Items -> {"submit_baa", "reminder_only", "gmail_alert"}]
  /\ Period \in [Items -> Nat] /\ StartAt \in [Items -> Nat]
  /\ EndAt \in [Items -> Time] /\ MaxOccurrences \in [Items -> Time]
  /\ Linked \subseteq Items
  /\ Edits \subseteq {"cancel", "pause", "resume", "touch"}
  /\ {RecoverAfter, CatchUpGuard, RunPage} \subseteq Nat
  /\ {MaxRecovery, DeferBy, ProbeAfter} \subseteq Nat \ {0}
  /\ Faults \subseteq {"submit", "gmail"}
  /\ {MaxTime, MaxCrashes, MaxEdits, MaxManual} \subseteq Nat

VARIABLES
  \* the environment, and the items somebody else than the scheduler has
  \* written (history)
  now, finished, crashes, edits, manuals, written,
  \* the store: items, runs, and how often a run was submitted (history)
  rows, runs, submits,
  \* a pass: the rows due and the old claims it has still to look at
  due, claims,
  \* a driver: position, the item and the run in hand, its clock
  pc, item, copy, rec, idx, at,
  \* an editor: the change it is making and the row it read
  change, read

envVars    == <<now, finished, crashes, edits, manuals, written>>
storeVars  == <<rows, runs, submits>>
passVars   == <<due, claims>>
driverVars == <<pc, item, copy, rec, idx, at>>
editVars   == <<change, read>>
vars == <<envVars, storeVars, passVars, driverVars, editVars>>

Status    == {"active", "paused", "completed", "cancelled"}
RunStatus == {"claimed", "submitted", "recorded", "skipped", "failed"}
Row == [status : Status, next : Time, count : Nat]
Run == [item : Items, for : Nat, started : Nat, status : RunStatus,
        manual : BOOLEAN, attempts : 0..MaxRecovery]
Labels == {"idle", "recover", "recovered", "due", "check", "record", "save",
           "advance", "defer", "notify", "submit", "settle"}

TypeOK ==
  /\ now \in 0..MaxTime /\ finished \subseteq Linked
  /\ crashes \in Nat /\ edits \in Nat /\ manuals \in Nat /\ written \subseteq Items
  /\ rows \in [Items -> Row]
  /\ runs \in Seq(Run)
  /\ submits \in Seq(Nat) /\ Len(submits) = Len(runs)
  /\ due \in [Items -> Row \cup {None}]
  /\ claims \in SUBSET ((DOMAIN runs) \X Run)
  /\ pc \in [Drivers -> Labels]
  /\ item \in [Drivers -> Items \cup {None}]
  /\ copy \in [Drivers -> Row \cup {None}]
  /\ rec \in [Drivers -> Run \cup {None}]
  /\ idx \in [Drivers -> 0..Len(runs)]
  /\ at \in [Drivers -> Nat]
  /\ change \in [Editors -> (Items \X Edits) \cup {None}]
  /\ read \in [Editors -> Row \cup {None}]

Init ==
  /\ now = 0 /\ finished = {} /\ crashes = 0 /\ edits = 0 /\ manuals = 0
  /\ written = {}
  /\ rows = [i \in Items |-> [status |-> "active", next |-> StartAt[i], count |-> 0]]
  /\ runs = <<>> /\ submits = <<>>
  /\ due = [i \in Items |-> None] /\ claims = {}
  /\ pc = [d \in Drivers |-> "idle"]
  /\ item = [d \in Drivers |-> None]
  /\ copy = [d \in Drivers |-> None]
  /\ rec = [d \in Drivers |-> None]
  /\ idx = [d \in Drivers |-> 0]
  /\ at = [d \in Drivers |-> 0]
  /\ change = [e \in Editors |-> None]
  /\ read = [e \in Editors |-> None]

-----------------------------------------------------------------------------
(***************************************************************************)
(* Occurrences.                                                            *)
(***************************************************************************)
Ended(i, t) == EndAt[i] # None /\ t > EndAt[i]

\* Wrong: the occurrence that was missed first.
OldestDue(i, row, t) == row.next

\* latest_due_occurrence: of the occurrences missed, the last one.
LatestDue(i, row, t) ==
  LET later == { n \in 1..CatchUpGuard :
                   LET c == row.next + n * Period[i] IN c <= t /\ ~Ended(i, c) }
  IN IF Period[i] = 0 \/ later = {} THEN row.next
                                    ELSE row.next + Max(later) * Period[i]

\* Wrong: one occurrence too many.
ExhaustedLate(i, count) == MaxOccurrences[i] # None /\ count > MaxOccurrences[i]
Exhausted(i, count) == MaxOccurrences[i] # None /\ count >= MaxOccurrences[i]

\* Wrong: no catch-up after a late run.
NextRunNoCatchUp(i, row, for, t) ==
  IF Exhausted(i, row.count) \/ Period[i] = 0 \/ Ended(i, row.next + Period[i])
  THEN None ELSE row.next + Period[i]

\* compute_next_run: the first occurrence after the clock, or the one at
\* which the catch-up loop gives up.
NextRun(i, row, for, t) ==
  LET first  == for + Period[i]
      future == { n \in 0..CatchUpGuard : first + n * Period[i] > t }
      c == first + (IF future = {} THEN CatchUpGuard ELSE Min(future)) * Period[i]
  IN IF Exhausted(i, row.count) \/ Period[i] = 0 \/ Ended(i, c) THEN None ELSE c

Advanced(i, row, for, t) ==
  LET counted == [row EXCEPT !.count = @ + 1]
      next == NextRun(i, counted, for, t)
  IN [counted EXCEPT !.next = next,
                     !.status = IF next = None THEN "completed" ELSE @]

\* Reading an item validates it: an active item without a next run is
\* given its start again, in memory.
Loaded(i) ==
  IF rows[i].status = "active" /\ rows[i].next = None
  THEN [rows[i] EXCEPT !.next = StartAt[i]] ELSE rows[i]

-----------------------------------------------------------------------------
(***************************************************************************)
(* The scheduler's pass: process_due and _recover_claimed_runs.            *)
(***************************************************************************)
Goto(d, label) == pc' = [pc EXCEPT ![d] = label]

\* The recent runs that are still claimed, old enough to be given up on.
OldClaims ==
  { <<k, runs[k]>> : k \in { j \in DOMAIN runs :
      /\ j + RunPage > Len(runs)
      /\ runs[j].status = "claimed" /\ runs[j].started + RecoverAfter <= now } }

PassBegin ==
  /\ pc[Scheduler] = "idle"
  /\ at' = [at EXCEPT ![Scheduler] = now]
  /\ claims' = OldClaims
  /\ Goto(Scheduler, "recover")
  /\ UNCHANGED <<envVars, storeVars, due, item, copy, rec, idx, editVars>>

\* Wrong: a failed recovery is not counted; it ends the run at once; it is
\* counted past the cap.
RefusedAgain(r) == r
RefusedOnce(r) == [r EXCEPT !.status = "failed"]
RefusedLate(r) ==
  [r EXCEPT !.attempts = @ + 1,
            !.status = IF r.attempts + 1 > MaxRecovery THEN "failed" ELSE @]
Refused(r) ==
  [r EXCEPT !.attempts = @ + 1,
            !.status = IF r.attempts + 1 >= MaxRecovery THEN "failed" ELSE @]

Submitted(k) == submits' = [submits EXCEPT ![k] = @ + 1]

\* The work of an old claim is submitted again, whatever its item is now.
RecoverSubmit(c) ==
  /\ pc[Scheduler] = "recover" /\ c \in claims
  /\ claims' = claims \ {c}
  /\ idx' = [idx EXCEPT ![Scheduler] = c[1]]
  /\ \/ /\ Submitted(c[1])
        /\ rec' = [rec EXCEPT ![Scheduler] =
                     [c[2] EXCEPT !.attempts = @ + 1, !.status = "submitted"]]
     \/ /\ "submit" \in Faults
        /\ rec' = [rec EXCEPT ![Scheduler] = Refused(c[2])]
        /\ UNCHANGED submits
  /\ Goto(Scheduler, "recovered")
  /\ UNCHANGED <<envVars, rows, runs, due, item, copy, at, editVars>>

RecoverRecord ==
  /\ pc[Scheduler] = "recovered"
  /\ runs' = [runs EXCEPT ![idx[Scheduler]] = rec[Scheduler]]
  /\ rec' = [rec EXCEPT ![Scheduler] = None]
  /\ idx' = [idx EXCEPT ![Scheduler] = 0]
  /\ Goto(Scheduler, "recover")
  /\ UNCHANGED <<envVars, rows, submits, passVars, item, copy, at, editVars>>

\* Wrong: an item is due only after its time.
DueAfter(i, t) ==
  rows[i].status = "active" /\ rows[i].next # None /\ rows[i].next < t
Due(i, t) ==
  rows[i].status = "active" /\ rows[i].next # None /\ rows[i].next <= t

\* The rows that are due are read once, for the whole pass.
ListDue ==
  /\ pc[Scheduler] = "recover" /\ claims = {}
  /\ due' = [i \in Items |-> IF Due(i, at[Scheduler]) THEN rows[i] ELSE None]
  /\ Goto(Scheduler, "due")
  /\ UNCHANGED <<envVars, storeVars, claims, item, copy, rec, idx, at, editVars>>

NewRun(i, for, t, manual) ==
  [item |-> i, for |-> for, started |-> t, status |-> "recorded",
   manual |-> manual, attempts |-> 0]

TriggerDue(i) ==
  /\ pc[Scheduler] = "due" /\ due[i] # None
  /\ due' = [due EXCEPT ![i] = None]
  /\ item' = [item EXCEPT ![Scheduler] = i]
  /\ copy' = [copy EXCEPT ![Scheduler] = due[i]]
  /\ rec' = [rec EXCEPT ![Scheduler] =
               NewRun(i, LatestDue(i, due[i], at[Scheduler]), at[Scheduler], FALSE)]
  /\ Goto(Scheduler, "check")
  /\ UNCHANGED <<envVars, storeVars, claims, idx, at, editVars>>

PassEnd ==
  /\ pc[Scheduler] = "due" /\ \A i \in Items : due[i] = None
  /\ at' = [at EXCEPT ![Scheduler] = 0]
  /\ Goto(Scheduler, "idle")
  /\ UNCHANGED <<envVars, storeVars, passVars, item, copy, rec, idx, editVars>>

-----------------------------------------------------------------------------
(***************************************************************************)
(* trigger, by the scheduler for a due item or by a caller for any item.   *)
(***************************************************************************)
TriggerManual(c, i) ==
  /\ pc[c] = "idle" /\ manuals < MaxManual /\ manuals' = manuals + 1
  /\ item' = [item EXCEPT ![c] = i]
  /\ copy' = [copy EXCEPT ![c] = Loaded(i)]
  /\ rec' = [rec EXCEPT ![c] = NewRun(i, now, now, TRUE)]
  /\ at' = [at EXCEPT ![c] = now]
  /\ Goto(c, "check")
  /\ UNCHANGED <<now, finished, crashes, edits, written, storeVars, passVars,
                 idx, editVars>>

\* The driver is done with its run; the scheduler goes on with its pass.
Return(d) ==
  /\ item' = [item EXCEPT ![d] = None]
  /\ copy' = [copy EXCEPT ![d] = None]
  /\ rec' = [rec EXCEPT ![d] = None]
  /\ idx' = [idx EXCEPT ![d] = 0]
  /\ IF d = Scheduler THEN Goto(d, "due") /\ UNCHANGED at
                      ELSE Goto(d, "idle") /\ at' = [at EXCEPT ![d] = 0]

SetRun(d, status) == rec' = [rec EXCEPT ![d].status = status]
SetCopy(d, row) == copy' = [copy EXCEPT ![d] = row]

WrittenBy(d, i) == IF d = Scheduler THEN written ELSE written \cup {i}

\* The Gmail check saves its item.
SaveItem(d, i, row) ==
  /\ rows' = [rows EXCEPT ![i] = row]
  /\ written' = WrittenBy(d, i)

\* What the run is going to be.  A Gmail check ends well, fails (perhaps
\* after the news that its credentials are renewed was saved), or is put
\* off because they still are not.
Check(d) ==
  /\ pc[d] = "check"
  /\ LET i == item[d] IN
     \/ /\ i \in finished
        /\ SetRun(d, "skipped")
        /\ SetCopy(d, [copy[d] EXCEPT !.status = "completed", !.next = None])
        /\ UNCHANGED <<rows, written>>
     \/ /\ i \notin finished /\ Action[i] = "submit_baa"
        /\ SetRun(d, "claimed") /\ UNCHANGED <<copy, rows, written>>
     \/ /\ i \notin finished /\ Action[i] = "reminder_only"
        /\ SetRun(d, "recorded") /\ UNCHANGED <<copy, rows, written>>
     \/ /\ i \notin finished /\ Action[i] = "gmail_alert"
        /\ SetRun(d, "recorded") /\ SaveItem(d, i, copy[d]) /\ UNCHANGED copy
     \/ /\ i \notin finished /\ Action[i] = "gmail_alert" /\ "gmail" \in Faults
        /\ SetRun(d, "failed") /\ UNCHANGED copy
        /\ SaveItem(d, i, copy[d]) \/ UNCHANGED <<rows, written>>
     \/ /\ i \notin finished /\ Action[i] = "gmail_alert" /\ "gmail" \in Faults
        /\ SetRun(d, "skipped")
        /\ SetCopy(d, [copy[d] EXCEPT !.status = "active",
                                      !.next = at[d] + ProbeAfter])
        /\ SaveItem(d, i, copy'[d])
  /\ Goto(d, "record")
  /\ UNCHANGED <<now, finished, crashes, edits, manuals, runs, submits, passVars,
                 item, idx, at, editVars>>

\* store.record_run, and what follows it.
AfterRecord(d) ==
  CASE rec[d].status = "skipped" -> IF copy[d].next = None THEN "save" ELSE "end"
    [] rec[d].status = "claimed" -> IF rec[d].manual THEN "submit" ELSE "advance"
    [] rec[d].status = "failed" -> IF rec[d].manual THEN "end" ELSE "defer"
    [] OTHER -> IF rec[d].manual THEN "end" ELSE "advance"

Record(d) ==
  /\ pc[d] = "record"
  /\ runs' = Append(runs, rec[d]) /\ submits' = Append(submits, 0)
  /\ IF AfterRecord(d) = "end" THEN Return(d)
     ELSE /\ Goto(d, AfterRecord(d))
          /\ idx' = [idx EXCEPT ![d] = Len(runs) + 1]
          /\ UNCHANGED <<item, copy, rec, at>>
  /\ UNCHANGED <<envVars, rows, passVars, editVars>>

\* The end of a trigger whose linked commitment is finished.
SaveCompleted(d) ==
  /\ pc[d] = "save"
  /\ SaveItem(d, item[d], copy[d])
  /\ Return(d)
  /\ UNCHANGED <<now, finished, crashes, edits, manuals, runs, submits, passVars,
                 editVars>>

\* _advance_item: the item moves on before its work is submitted.
Advance(d) ==
  /\ pc[d] = "advance"
  /\ rows' = [rows EXCEPT ![item[d]] = Advanced(item[d], copy[d], rec[d].for, at[d])]
  /\ IF rec[d].status = "claimed"
     THEN Goto(d, "submit") /\ UNCHANGED <<item, copy, rec, idx, at>>
     ELSE Return(d)
  /\ UNCHANGED <<envVars, runs, submits, passVars, editVars>>

\* _defer_failed_item: another try in a while.
Defer(d) ==
  /\ pc[d] = "defer"
  /\ SetCopy(d, [copy[d] EXCEPT !.status = "active", !.next = at[d] + DeferBy])
  /\ rows' = [rows EXCEPT ![item[d]] = copy'[d]]
  /\ Goto(d, "notify")
  /\ UNCHANGED <<envVars, runs, submits, passVars, item, rec, idx, at, editVars>>

\* The owner is told; if it was about credentials, the item is saved again.
Notify(d) ==
  /\ pc[d] = "notify"
  /\ rows' \in {rows, [rows EXCEPT ![item[d]] = copy[d]]}
  /\ Return(d)
  /\ UNCHANGED <<envVars, runs, submits, passVars, editVars>>

\* baa.submit; an exception leaves the run claimed.
Submit(d) ==
  /\ pc[d] = "submit"
  /\ \/ /\ Submitted(idx[d]) /\ Goto(d, "settle")
        /\ UNCHANGED <<item, copy, rec, idx, at>>
     \/ /\ "submit" \in Faults /\ Return(d) /\ UNCHANGED submits
  /\ UNCHANGED <<envVars, rows, runs, passVars, editVars>>

\* Wrong: the submitted run is recorded as it was.
SettleAsClaimed(d) ==
  /\ pc[d] = "settle"
  /\ runs' = [runs EXCEPT ![idx[d]] = rec[d]]
  /\ Return(d)
  /\ UNCHANGED <<envVars, rows, submits, passVars, editVars>>

Settle(d) ==
  /\ pc[d] = "settle"
  /\ runs' = [runs EXCEPT ![idx[d]] = [rec[d] EXCEPT !.status = "submitted"]]
  /\ Return(d)
  /\ UNCHANGED <<envVars, rows, submits, passVars, editVars>>

-----------------------------------------------------------------------------
(***************************************************************************)
(* Editors, and the environment.                                           *)
(***************************************************************************)

\* store.get, then a save of the row that was read with the change applied.
EditRead(e, i, kind) ==
  /\ change[e] = None /\ edits < MaxEdits /\ edits' = edits + 1
  /\ change' = [change EXCEPT ![e] = <<i, kind>>]
  /\ read' = [read EXCEPT ![e] = Loaded(i)]
  /\ UNCHANGED <<now, finished, crashes, manuals, written, storeVars, passVars,
                 driverVars>>

Changed(row, kind) ==
  CASE kind = "cancel" -> [row EXCEPT !.status = "cancelled", !.next = None]
    [] kind = "pause"  -> [row EXCEPT !.status = "paused", !.next = None]
    [] kind = "resume" -> [row EXCEPT !.status = "active"]
    [] OTHER -> row

EditSave(e) ==
  /\ change[e] # None
  /\ LET i == change[e][1] IN
       /\ rows' = [rows EXCEPT ![i] = Changed(read[e], change[e][2])]
       /\ written' = written \cup {i}
  /\ change' = [change EXCEPT ![e] = None]
  /\ read' = [read EXCEPT ![e] = None]
  /\ UNCHANGED <<now, finished, crashes, edits, manuals, runs, submits, passVars,
                 driverVars>>

Tick ==
  /\ now < MaxTime /\ now' = now + 1
  /\ UNCHANGED <<finished, crashes, edits, manuals, written, storeVars, passVars,
                 driverVars, editVars>>

\* The commitment an item is linked to is completed or abandoned.
Finish(i) ==
  /\ i \in Linked \ finished /\ finished' = finished \cup {i}
  /\ UNCHANGED <<now, crashes, edits, manuals, written, storeVars, passVars,
                 driverVars, editVars>>

\* The process dies and starts again; only the store survives.
Crash ==
  /\ crashes < MaxCrashes /\ crashes' = crashes + 1
  /\ due' = [i \in Items |-> None] /\ claims' = {}
  /\ pc' = [d \in Drivers |-> "idle"]
  /\ item' = [d \in Drivers |-> None]
  /\ copy' = [d \in Drivers |-> None]
  /\ rec' = [d \in Drivers |-> None]
  /\ idx' = [d \in Drivers |-> 0]
  /\ at' = [d \in Drivers |-> 0]
  /\ change' = [e \in Editors |-> None]
  /\ read' = [e \in Editors |-> None]
  /\ UNCHANGED <<now, finished, edits, manuals, written, storeVars>>

-----------------------------------------------------------------------------
PassStep ==
  \/ PassBegin \/ RecoverRecord \/ ListDue \/ PassEnd
  \/ \E c \in claims : RecoverSubmit(c)
  \/ \E i \in Items : TriggerDue(i)

TriggerStep(d) ==
  \/ Check(d) \/ Record(d) \/ SaveCompleted(d) \/ Advance(d) \/ Defer(d)
  \/ Notify(d) \/ Submit(d) \/ Settle(d)

Environment ==
  \/ Tick \/ Crash
  \/ \E i \in Items : Finish(i)
  \/ \E c \in Callers, i \in Items : TriggerManual(c, i)
  \/ \E e \in Editors, i \in Items, kind \in Edits : EditRead(e, i, kind)
  \/ \E e \in Editors : EditSave(e)

Next ==
  \/ PassStep
  \/ \E d \in Drivers : TriggerStep(d)
  \/ Environment

Spec == Init /\ [][Next]_vars

(***************************************************************************)
(* The loop wakes up again after every pass, and the event loop runs every *)
(* trigger that has begun.  Time may stop, and nobody has to edit.         *)
(***************************************************************************)
Fairness ==
  /\ WF_vars(PassStep \/ TriggerStep(Scheduler))
  /\ \A c \in Callers : WF_vars(TriggerStep(c))

FairSpec == Spec /\ Fairness

-----------------------------------------------------------------------------
(***************************************************************************)
(* Properties.                                                             *)
(***************************************************************************)

\* No crash and no other writer has come between the scheduler and the item.
Undisturbed(i) == crashes = 0 /\ i \notin written

\* The runs the scheduler, not a caller, started for the item's work; one that
\* was given up counts: only a claimed run has attempts.
Fired(i) == { k \in DOMAIN runs :
                /\ runs[k].item = i /\ ~runs[k].manual
                /\ \/ runs[k].status \in {"claimed", "submitted", "recorded"}
                   \/ runs[k].attempts > 0 }

\* Catch-up fires an item once for the latest occurrence it missed, however
\* late the pass is: two runs never stand for one occurrence, and none is
\* for an occurrence when a later one was already due.
OncePerOccurrence ==
  \A i \in Items : Undisturbed(i) =>
    \A j, k \in Fired(i) : j < k => runs[j].for < runs[k].for

FiresLatest ==
  \A i \in Items : Undisturbed(i) =>
    \A k \in Fired(i) :
      /\ runs[k].for <= runs[k].started
      /\ Period[i] # 0 => \/ runs[k].for + Period[i] > runs[k].started
                          \/ Ended(i, runs[k].for + Period[i])

\* An item limited to so many occurrences is not fired more often.
OccurrencesBounded ==
  \A i \in Items : (Undisturbed(i) /\ MaxOccurrences[i] # None) =>
    Cardinality(Fired(i)) <= MaxOccurrences[i]

\* The service does what it promises: items are fired for one occurrence after
\* the other, in single steps, and nothing fired is forgotten or taken back, by
\* whatever recovery, deferral or concurrent trigger.  (A limit of zero is none:
\* the service fires such an item once.)
Promise ==
  INSTANCE SchedulePromise WITH
    Times <- 0..MaxTime,
    Limit <- [i \in Items |-> IF MaxOccurrences[i] = 0 THEN None ELSE MaxOccurrences[i]],
    fired <- [i \in Items |-> {runs[k].for : k \in Fired(i)}],
    disturbed <- {i \in Items : ~Undisturbed(i)}
FiredAsPromised == Promise!Safety

\* The work of a scheduled run is submitted again only if a crash came
\* between the submission and its record.
SubmittedOnce ==
  \A k \in DOMAIN runs : ~runs[k].manual => submits[k] <= 1 + crashes

\* An item that is due is served: run, put off, or no longer due.
Overdue(i) ==
  rows[i].status = "active" /\ rows[i].next # None /\ rows[i].next <= now
DueIsServed == \A i \in Items : Overdue(i) ~> ~Overdue(i)

\* A claimed run does not stay claimed: it is submitted in the end, or
\* given up after the permitted recoveries; as long as one page of recent
\* runs reaches it.
Stale(k) == /\ k \in DOMAIN runs /\ runs[k].status = "claimed"
            /\ runs[k].started + RecoverAfter <= now
ClaimsSettle == \A k \in 1..RunPage : Stale(k) ~> ~Stale(k)

\* "Set to cancelled to unschedule": once a cancellation is written, only
\* another edit makes the item active again.
CancelSticks ==
  [][ \A i \in Items : (rows[i].status = "cancelled" /\ change' = change)
        => rows'[i].status = "cancelled" ]_vars
=============================================================================
