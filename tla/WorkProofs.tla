------------------------------ MODULE WorkProofs ------------------------------
(***************************************************************************)
(* Theorems about the two that feed the agent with work, for every value   *)
(* of their constants: the work cycle (WorkCycle) with any number of work  *)
(* objects, any capacity and any number of mishaps, and the subtasks of a  *)
(* project (ProjectFlow) with any plan, cycles too, any number of subtasks *)
(* and of workers.                                                         *)
(***************************************************************************)
EXTENDS WorkCycle, ProjectFlow, FiniteSetTheorems, TLAPS

-----------------------------------------------------------------------------
(***************************************************************************)
(* The work cycle.  Its types come first, without how long the queue is:   *)
(* what is retired and what is done does not hang on that.                 *)
(***************************************************************************)
CycleTypes ==
  /\ row \in [Works -> {"new", "none", "low", "ready", "blocked"}]
  /\ task \in [Works -> {"none", "live", "done", "failed"}] /\ page \subseteq Works
  /\ ladder \in [Works -> {"out", "low", "ready"}]
  /\ queued \in [Works -> Nat]
  /\ place \in Cycling \cup {"boot", "sleep", "resume", "gate"}
  /\ unseen \subseteq Works /\ hand \in Works \cup {NoWork}
  /\ successes \in [Works -> 0..2] /\ launched \subseteq Works /\ retired \subseteq Works
  /\ place \in {"check", "submit"} => hand \in Works

\* What a loop has still to look at is as it was when the loop began: a row that
\* is ready, or an object of the ladder.
RowsSeen == place \in Restoring => \A w \in unseen : row[w] = "ready"
LadderSeen == place = "enqueue" => \A w \in unseen : ladder[w] = "ready"
NewIsOut == \A w \in Works : row[w] = "new" => ladder[w] = "out"
RetireInv == CycleTypes /\ RowsSeen /\ LadderSeen /\ NewIsOut /\ RetiredForGood

\* A cycle runs beside tasks of interventions only, so that nothing changes a
\* task between its check and its submission.
QuietCycle == place \in Cycling => \A w \in Works \ launched : task[w] # "live"
HandUndone == place = "submit" /\ hand \notin launched => successes[hand] = 0

\* A success that counts is one a lookup sees, and no other task is under way.
SuccessStands ==
  \A w \in Works \ launched : /\ successes[w] <= 1
                              /\ successes[w] > 0 => w \in page /\ task[w] # "live"
OnceInv == CycleTypes /\ QuietCycle /\ HandUndone /\ SuccessStands

\* No work has been carried out or retired in the beginning.
LEMMA CycleInitially == CycleInit => RetireInv /\ OnceInv
<1>. SUFFICES ASSUME CycleInit PROVE RetireInv /\ OnceInv
  OBVIOUS
<1>1. CycleTypes
  BY WorkAssumption DEF WorkAssumption, CycleInit, CycleTypes, Cycling
<1>2. RowsSeen /\ LadderSeen /\ NewIsOut /\ RetiredForGood
  BY WorkAssumption DEF WorkAssumption, CycleInit, RowsSeen, LadderSeen, NewIsOut,
     RetiredForGood
<1>3. QuietCycle /\ HandUndone /\ SuccessStands
  BY DEF CycleInit, QuietCycle, HandUndone, SuccessStands, Cycling
<1>. QED
  BY <1>1, <1>2, <1>3 DEF RetireInv, OnceInv

-----------------------------------------------------------------------------
(* Types. *)

\* A submission touches the task of one work object.
LEMMA SubmitsKeeps ==
  ASSUME CycleTypes, NEW w \in Works, Submits(w)
  PROVE  /\ task' \in [Works -> {"none", "live", "done", "failed"}]
         /\ \A v \in Works \ {w} : task'[v] = task[v]
         /\ task'[w] = task[w] \/ (task'[w] = "live" /\ task[w] # "live" /\ w \notin recalled)
  BY DEF CycleTypes, Submits

\* Every step of the cycle keeps the types.
LEMMA CycleTypesStep == CycleTypes /\ [CycleNext]_cycleVars => CycleTypes'
<1>. SUFFICES ASSUME CycleTypes, [CycleNext]_cycleVars
              PROVE  CycleTypes'
  OBVIOUS
<1>. USE DEF CycleTypes, Cycling, Restoring, storedVars, heldVars, loopState, boundVars,
     historyVars
<1>1. CASE UNCHANGED cycleVars
  BY <1>1 DEF cycleVars
<1>2. CASE Wake \/ Gate
  BY <1>2 DEF Wake, Gate, ReadyRows
<1>3. CASE RestoreEnds \/ EnqueueEnds
  BY <1>3 DEF RestoreEnds, EnqueueEnds
<1>4. CASE Climb
  <2>. DEFINE onto == [w \in Works |-> IF ladder[w] = "out" /\ row[w] = "low"
                                       THEN "low" ELSE ladder[w]]
  <2>1. PICK moved \in SUBSET {w \in Works : onto[w] # "out"} :
        \E to \in [moved -> {"low", "ready"}] :
          /\ ladder' = [w \in Works |-> IF w \in moved THEN to[w] ELSE onto[w]]
          /\ row' = [w \in Works |-> IF w \in moved THEN to[w] ELSE row[w]]
          /\ unseen' = {w \in Works : ladder'[w] = "ready"}
    BY <1>4 DEF Climb
  <2>2. PICK to \in [moved -> {"low", "ready"}] :
          /\ ladder' = [w \in Works |-> IF w \in moved THEN to[w] ELSE onto[w]]
          /\ row' = [w \in Works |-> IF w \in moved THEN to[w] ELSE row[w]]
          /\ unseen' = {w \in Works : ladder'[w] = "ready"}
    BY <2>1
  <2>3. onto \in [Works -> {"out", "low", "ready"}]
    OBVIOUS
  <2>. HIDE DEF onto
  <2>. QED
    BY <1>4, <2>2, <2>3 DEF Climb
<1>5. CASE Intervene
  <2>1. task' \in [Works -> {"none", "live", "done", "failed"}]
    BY <1>5, SubmitsKeeps DEF Intervene
  <2>. QED
    BY <1>5, <2>1 DEF Intervene
<1>6. CASE Drain
  BY <1>6 DEF Drain
<1>7. CASE Check
  BY <1>7 DEF Check, Retires, Mishap
<1>8. CASE SubmitWork
  <2>1. task' \in [Works -> {"none", "live", "done", "failed"}]
    BY <1>8, SubmitsKeeps DEF SubmitWork
  <2>. QED
    BY <1>8, <2>1 DEF SubmitWork, Retires, Mishap
<1>9. ASSUME NEW w \in Works, RestoreOne(w)
      PROVE  CycleTypes'
  BY <1>9 DEF RestoreOne
<1>10. ASSUME NEW w \in Works, EnqueueOne(w)
       PROVE  CycleTypes'
  BY <1>10 DEF EnqueueOne, Retires, Enqueues, Mishap
<1>11. CASE CycleFails \/ Tires \/ Rests
  BY <1>11 DEF CycleFails, Tires, Rests
<1>12. CASE Reboot
  BY <1>12 DEF Reboot, ReadyRows
<1>13. ASSUME NEW w \in Works, TaskEnds(w)
       PROVE  CycleTypes'
  BY <1>13 DEF TaskEnds
<1>14. ASSUME NEW w \in Works, CooledDown(w) \/ Dreamt(w)
       PROVE  CycleTypes'
  BY <1>14 DEF CooledDown, Dreamt
<1>15. ASSUME NEW w \in Works, Ages(w)
       PROVE  CycleTypes'
  BY <1>15 DEF Ages
<1>. QED
  BY <1>1, <1>2, <1>3, <1>4, <1>5, <1>6, <1>7, <1>8, <1>9, <1>10, <1>11, <1>12, <1>13,
     <1>14,
     <1>15
     DEF CycleNext, LoopStep

-----------------------------------------------------------------------------
(***************************************************************************)
(* How long the queue is.  Its entries are a finite set from the start, by *)
(* one more or one less in every step that touches them; every step that   *)
(* adds one has looked at the capacity just before.                        *)
(***************************************************************************)
QueueFits == IsFiniteSet(Entries) /\ QueueLength <= Capacity
LoopTypes ==
  /\ recalled \subseteq Works
  /\ wasPaused \in BOOLEAN /\ degraded \in BOOLEAN /\ tired \in BOOLEAN
  /\ mishaps \in 0..MaxMishaps
WorkTypeInv == CycleTypes /\ LoopTypes /\ QueueFits

\* A queue nothing is in is as short as can be.
LEMMA EmptyQueue ==
  ASSUME NEW q, q = [w \in Works |-> 0]
  PROVE  UNION {{w} \X (1..q[w]) : w \in Works} = {}
  OBVIOUS

\* An entry more makes a finite queue longer by one.
LEMMA EntryAdded ==
  ASSUME queued \in [Works -> Nat], NEW w \in Works, IsFiniteSet(Entries),
         queued' = [queued EXCEPT ![w] = queued[w] + 1]
  PROVE  IsFiniteSet(Entries') /\ QueueLength' = QueueLength + 1
<1>1. \A v \in Works : \A n : <<v, n>> \in Entries <=> n \in 1..queued[v]
  BY DEF Entries
<1>. DEFINE e == <<w, queued[w] + 1>>
<1>2. e \notin Entries
  BY <1>1
<1>3. Entries' = Entries \cup {e}
  <2>1. ASSUME NEW v \in Works
        PROVE  {v} \X (1..queued'[v]) = IF v = w THEN ({v} \X (1..queued[v])) \cup {e}
                                                 ELSE {v} \X (1..queued[v])
    <3>1. CASE v = w
      <4>1. 1..queued'[w] = (1..queued[w]) \cup {queued[w] + 1}
        OBVIOUS
      <4>. QED
        BY <3>1, <4>1
    <3>. QED
      BY <3>1
  <2>. QED
    BY <2>1 DEF Entries
<1>. QED
  BY <1>2, <1>3, FS_AddElement DEF QueueLength

\* An entry less makes it shorter by one.
LEMMA EntryRemoved ==
  ASSUME queued \in [Works -> Nat], NEW w \in Works, IsFiniteSet(Entries), queued[w] > 0,
         queued' = [queued EXCEPT ![w] = queued[w] - 1]
  PROVE  IsFiniteSet(Entries') /\ QueueLength' = QueueLength - 1
<1>1. \A v \in Works : \A n : <<v, n>> \in Entries <=> n \in 1..queued[v]
  BY DEF Entries
<1>. DEFINE e == <<w, queued[w]>>
<1>2. e \in Entries
  BY <1>1
<1>3. Entries' = Entries \ {e}
  <2>1. ASSUME NEW v \in Works
        PROVE  {v} \X (1..queued'[v]) = ({v} \X (1..queued[v])) \ {e}
    <3>1. CASE v = w
      <4>1. 1..queued'[w] = (1..queued[w]) \ {queued[w]}
        OBVIOUS
      <4>. QED
        BY <3>1, <4>1
    <3>. QED
      BY <3>1
  <2>. QED
    BY <2>1 DEF Entries
<1>. QED
  BY <1>2, <1>3, FS_RemoveElement DEF QueueLength

\* What is finite is as long as a number says.
LEMMA QueueLengthNumber == IsFiniteSet(Entries) => QueueLength \in Nat
  BY FS_CardinalityType DEF QueueLength

\* Nothing is queued, recalled or wrong in the beginning.
LEMMA QueueInitially == CycleInit => WorkTypeInv
<1>. SUFFICES ASSUME CycleInit PROVE WorkTypeInv
  OBVIOUS
<1>1. CycleTypes
  BY CycleInitially DEF RetireInv
<1>2. LoopTypes
  <2>1. /\ recalled = {} /\ wasPaused = FALSE /\ degraded = FALSE
        /\ tired = FALSE /\ mishaps = 0
    BY DEF CycleInit
  <2>2. 0 \in 0..MaxMishaps
    BY WorkAssumption DEF WorkAssumption
  <2>. QED
    BY <2>1, <2>2 DEF LoopTypes
<1>3. Entries = {}
  BY EmptyQueue DEF CycleInit, Entries
<1>4. QueueFits
  BY <1>3, FS_EmptySet, WorkAssumption DEF WorkAssumption, QueueFits, QueueLength
<1>. QED
  BY <1>1, <1>2, <1>4 DEF WorkTypeInv

\* A queue that is left alone, refused a further entry by its capacity, taken
\* from or emptied still fits.
LEMMA QueueStep ==
  ASSUME WorkTypeInv, [CycleNext]_cycleVars
  PROVE  QueueFits'
<1>. USE DEF WorkTypeInv, storedVars, heldVars, loopState, boundVars, historyVars
<1>0. Capacity \in Nat /\ QueueLength \in Nat
  BY QueueLengthNumber, WorkAssumption DEF WorkAssumption, QueueFits
<1>1. ASSUME queued' = queued PROVE QueueFits'
  BY <1>1 DEF QueueFits, QueueLength, Entries
<1>2. ASSUME NEW w \in Works, ~Full, queued' = [queued EXCEPT ![w] = queued[w] + 1]
      PROVE  QueueFits'
  <2>1. IsFiniteSet(Entries') /\ QueueLength' = QueueLength + 1
    BY <1>2, EntryAdded DEF QueueFits, CycleTypes
  <2>2. ~(QueueLength >= Capacity)
    BY <1>2 DEF Full
  <2>. QED
    BY <1>0, <2>1, <2>2, WorkAssumption DEF QueueFits
<1>3. ASSUME NEW w \in Works, queued[w] > 0, queued' = [queued EXCEPT ![w] = queued[w] - 1]
      PROVE  QueueFits'
  <2>1. IsFiniteSet(Entries') /\ QueueLength' = QueueLength - 1
    BY <1>3, EntryRemoved DEF QueueFits, CycleTypes
  <2>. QED
    BY <1>0, <2>1 DEF QueueFits
<1>4. CASE UNCHANGED cycleVars \/ Wake \/ Gate \/ RestoreEnds \/ Climb \/ EnqueueEnds
           \/ Check \/ SubmitWork \/ CycleFails \/ Tires \/ Rests
  <2>1. queued' = queued
    BY <1>4 DEF cycleVars, Wake, Gate, RestoreEnds, Climb, EnqueueEnds, Check, SubmitWork,
       CycleFails, Tires, Rests
  <2>. QED
    BY <2>1, <1>1
<1>5. CASE \E w \in Works : TaskEnds(w) \/ CooledDown(w) \/ Ages(w) \/ Dreamt(w)
  <2>1. queued' = queued
    BY <1>5 DEF TaskEnds, CooledDown, Ages, Dreamt
  <2>. QED
    BY <2>1, <1>1
<1>6. CASE Intervene
  <2>1. CASE queued' = queued
    BY <2>1, <1>1
  <2>2. ASSUME NEW w \in Works, queued' = [queued EXCEPT ![w] = IF @ > 0 THEN @ - 1 ELSE 0]
        PROVE  QueueFits'
    <3>1. CASE queued[w] > 0
      BY <3>1, <2>2, <1>3
    <3>2. CASE ~(queued[w] > 0)
      <4>1. queued[w] = 0 /\ queued' = queued
        BY <3>2, <2>2 DEF CycleTypes
      <4>. QED
        BY <4>1, <1>1
    <3>. QED
      BY <3>1, <3>2
  <2>. QED
    BY <1>6, <2>1, <2>2 DEF Intervene
<1>7. CASE Drain
  <2>1. CASE queued' = queued
    BY <2>1, <1>1
  <2>2. ASSUME NEW w \in {v \in Works : queued[v] > 0}, queued' = [queued EXCEPT ![w] = @ - 1]
        PROVE  QueueFits'
    BY <2>2, <1>3
  <2>. QED
    BY <1>7, <2>1, <2>2 DEF Drain
<1>8. ASSUME NEW w \in Works, RestoreOne(w)
      PROVE  QueueFits'
  <2>1. CASE queued' = queued
    BY <2>1, <1>1
  <2>2. ASSUME ~Full, queued[w] = 0, queued' = [queued EXCEPT ![w] = 1]
        PROVE  QueueFits'
    <3>1. queued' = [queued EXCEPT ![w] = queued[w] + 1]
      <4>1. queued[w] + 1 = 1
        BY <2>2
      <4>. QED
        BY <2>2, <4>1
    <3>. QED
      BY <3>1, <2>2, <1>2
  <2>. QED
    BY <1>8, <2>1, <2>2 DEF RestoreOne
<1>9. ASSUME NEW w \in Works, EnqueueOne(w)
      PROVE  QueueFits'
  <2>1. CASE queued' = queued
    BY <2>1, <1>1
  <2>2. ASSUME ~Full, queued' = [queued EXCEPT ![w] = @ + 1]
        PROVE  QueueFits'
    BY <2>2, <1>2
  <2>. QED
    BY <1>9, <2>1, <2>2 DEF EnqueueOne, Enqueues
<1>10. CASE Reboot
  <2>1. Entries' = {}
    BY <1>10, EmptyQueue DEF Reboot, Entries
  <2>. QED
    BY <2>1, FS_EmptySet, <1>0 DEF QueueFits, QueueLength
<1>. QED
  BY <1>4, <1>5, <1>6, <1>7, <1>8, <1>9, <1>10 DEF CycleNext, LoopStep

\* What the loop remembers stays within its types.
LEMMA LoopTypesStep ==
  ASSUME WorkTypeInv, [CycleNext]_cycleVars
  PROVE  LoopTypes'
<1>. USE DEF LoopTypes, storedVars, heldVars, loopState, boundVars, historyVars
<1>1. CASE UNCHANGED cycleVars
  BY <1>1 DEF WorkTypeInv, cycleVars
<1>2. CASE Wake
  BY <1>2 DEF WorkTypeInv, Wake, Paused, Full
<1>3. CASE Gate \/ RestoreEnds \/ Climb \/ EnqueueEnds \/ Intervene \/ Drain
  BY <1>3 DEF WorkTypeInv, Gate, RestoreEnds, Climb, EnqueueEnds, Intervene, Drain
<1>4. CASE \E w \in Works : RestoreOne(w) \/ Dreamt(w)
  BY <1>4 DEF WorkTypeInv, RestoreOne, Dreamt
<1>5. CASE \E w \in Works : TaskEnds(w) \/ CooledDown(w)
  BY <1>5 DEF WorkTypeInv, TaskEnds, CooledDown
<1>6. CASE \/ CycleFails \/ Tires \/ Rests \/ Reboot \/ Check \/ SubmitWork
           \/ \E w \in Works : EnqueueOne(w) \/ Ages(w)
  <2>1. MaxMishaps \in Nat /\ mishaps \in 0..MaxMishaps
    BY WorkAssumption DEF WorkAssumption, WorkTypeInv
  <2>2. mishaps' = mishaps \/ (mishaps < MaxMishaps /\ mishaps' = mishaps + 1)
    BY <1>6 DEF CycleFails, Tires, Rests, Reboot, Check, SubmitWork, EnqueueOne, Ages,
       Retires,
       Mishap
  <2>3. mishaps' \in 0..MaxMishaps
    BY <2>1, <2>2
  <2>. QED
    BY <1>6, <2>3 DEF WorkTypeInv, CycleFails, Tires, Rests, Reboot, Check, SubmitWork,
       EnqueueOne, Ages
<1>. QED
  BY <1>1, <1>2, <1>3, <1>4, <1>5, <1>6 DEF CycleNext, LoopStep

\* Every step keeps the types and a queue within its capacity.
LEMMA WorkTypeStep == WorkTypeInv /\ [CycleNext]_cycleVars => WorkTypeInv'
  BY CycleTypesStep, QueueStep, LoopTypesStep DEF WorkTypeInv

\* The invariant says more than the types.
LEMMA WorkTypesFollow == WorkTypeInv => WorkTypeOK
  BY DEF WorkTypeInv, CycleTypes, LoopTypes, QueueFits, WorkTypeOK

\* Every variable of the work cycle stays within its type, and the queue never
\* holds more than queue_hard_cap entries: the restore at a boot, the restore
\* after a pause, that of a cycle and the enqueueing of a cycle each look at the
\* length before every entry they add.
THEOREM WorkTypesCorrect == CycleSpec => []WorkTypeOK
<1>. QED
  BY QueueInitially, WorkTypeStep, WorkTypesFollow, PTL DEF CycleSpec

-----------------------------------------------------------------------------
(***************************************************************************)
(* Retired for good.  A step that writes a row of another work object than *)
(* one new, ready or on the ladder would bring a retired one back.         *)
(***************************************************************************)
LEMMA RetireStep == RetireInv /\ [CycleNext]_cycleVars => RetireInv'
<1>. SUFFICES ASSUME RetireInv, [CycleNext]_cycleVars
              PROVE  RetireInv'
  OBVIOUS
<1>0. CycleTypes'
  BY CycleTypesStep DEF RetireInv
<1>. SUFFICES (RowsSeen /\ LadderSeen /\ NewIsOut /\ RetiredForGood)'
  BY <1>0 DEF RetireInv
<1>. USE DEF RetireInv, CycleTypes, RowsSeen, LadderSeen, NewIsOut, RetiredForGood, Cycling,
     Restoring, storedVars, heldVars, loopState, boundVars, historyVars
<1>1. CASE UNCHANGED cycleVars
  BY <1>1 DEF cycleVars
<1>2. CASE Wake \/ Gate
  BY <1>2 DEF Wake, Gate, ReadyRows
<1>3. CASE RestoreEnds \/ EnqueueEnds
  BY <1>3 DEF RestoreEnds, EnqueueEnds
<1>4. CASE Climb
  <2>. DEFINE onto == [w \in Works |-> IF ladder[w] = "out" /\ row[w] = "low"
                                       THEN "low" ELSE ladder[w]]
  <2>0. PICK moved \in SUBSET {w \in Works : onto[w] # "out"} :
        \E to \in [moved -> {"low", "ready"}] :
          /\ ladder' = [w \in Works |-> IF w \in moved THEN to[w] ELSE onto[w]]
          /\ row' = [w \in Works |-> IF w \in moved THEN to[w] ELSE row[w]]
          /\ unseen' = {w \in Works : ladder'[w] = "ready"}
    BY <1>4 DEF Climb
  <2>1. PICK to \in [moved -> {"low", "ready"}] :
          /\ ladder' = [w \in Works |-> IF w \in moved THEN to[w] ELSE onto[w]]
          /\ row' = [w \in Works |-> IF w \in moved THEN to[w] ELSE row[w]]
          /\ unseen' = {w \in Works : ladder'[w] = "ready"}
          /\ place' = "enqueue" /\ retired' = retired
    BY <1>4, <2>0 DEF Climb
  <2>2. \A w \in Works : \/ w \in moved /\ row'[w] = to[w] /\ ladder'[w] = to[w]
                         \/ w \notin moved /\ row'[w] = row[w] /\ ladder'[w] = onto[w]
    BY <2>1
  <2>3. \A w \in moved : to[w] \in {"low", "ready"}
    BY <2>1
  <2>4. \A w \in retired : w \notin moved /\ onto[w] = "out"
    BY <2>1
  <2>5. \A w \in Works : row[w] = "new" => onto[w] = "out"
    OBVIOUS
  <2>. HIDE DEF onto
  <2>. QED
    BY <2>1, <2>2, <2>3, <2>4, <2>5
<1>5. CASE Intervene
  BY <1>5 DEF Intervene
<1>6. CASE Drain
  BY <1>6 DEF Drain
<1>7. CASE Check
  BY <1>7 DEF Check, Retires
<1>8. CASE SubmitWork
  BY <1>8 DEF SubmitWork, Retires
<1>9. ASSUME NEW w \in Works, RestoreOne(w)
      PROVE  (RowsSeen /\ LadderSeen /\ NewIsOut /\ RetiredForGood)'
  BY <1>9 DEF RestoreOne
<1>10. ASSUME NEW w \in Works, EnqueueOne(w)
       PROVE  (RowsSeen /\ LadderSeen /\ NewIsOut /\ RetiredForGood)'
  BY <1>10 DEF EnqueueOne, Retires, Enqueues
<1>11. CASE CycleFails \/ Tires \/ Rests
  BY <1>11 DEF CycleFails, Tires, Rests
<1>12. CASE Reboot
  BY <1>12 DEF Reboot, ReadyRows
<1>13. ASSUME NEW w \in Works, TaskEnds(w) \/ CooledDown(w) \/ Ages(w)
       PROVE  (RowsSeen /\ LadderSeen /\ NewIsOut /\ RetiredForGood)'
  BY <1>13 DEF TaskEnds, CooledDown, Ages
<1>14. ASSUME NEW w \in Works, Dreamt(w)
       PROVE  (RowsSeen /\ LadderSeen /\ NewIsOut /\ RetiredForGood)'
  BY <1>14 DEF Dreamt
<1>. QED
  BY <1>1, <1>2, <1>3, <1>4, <1>5, <1>6, <1>7, <1>8, <1>9, <1>10, <1>11, <1>12, <1>13, <1>14
     DEF CycleNext, LoopStep

\* A work object of which both copies, its row and its ladder object, were
\* deleted has none ever again: no step saves it from a copy the loops have
\* still to look at, and a restart restores none.  Nothing is said of a
\* retirement of which a deletion failed.
THEOREM RetiredStaysRetired == CycleSpec => []RetiredForGood
<1>1. CycleInit => RetireInv
  BY CycleInitially
<1>2. RetireInv => RetiredForGood
  BY DEF RetireInv
<1>. QED
  BY <1>1, <1>2, RetireStep, PTL DEF CycleSpec

-----------------------------------------------------------------------------
(***************************************************************************)
(* Done once.                                                              *)
(***************************************************************************)
LEMMA OnceStep == OnceInv /\ [CycleNext]_cycleVars => OnceInv'
<1>. SUFFICES ASSUME OnceInv, [CycleNext]_cycleVars
              PROVE  OnceInv'
  OBVIOUS
<1>0. CycleTypes /\ CycleTypes'
  BY CycleTypesStep DEF OnceInv
<1>. SUFFICES (QuietCycle /\ HandUndone /\ SuccessStands)'
  BY <1>0 DEF OnceInv
<1>. USE DEF OnceInv, CycleTypes, QuietCycle, HandUndone, SuccessStands, Cycling, storedVars,
     heldVars, loopState, boundVars, historyVars
<1>1. CASE UNCHANGED cycleVars
  BY <1>1 DEF cycleVars
<1>2. CASE Wake \/ Gate
  BY <1>2 DEF Wake, Gate, Admitted
<1>3. CASE RestoreEnds \/ EnqueueEnds
  BY <1>3 DEF RestoreEnds, EnqueueEnds, Restoring
<1>4. CASE Climb \/ Drain
  BY <1>4 DEF Climb, Drain
<1>5. CASE Intervene
  <2>1. CASE UNCHANGED <<task, launched>>
    BY <1>5, <2>1 DEF Intervene
  <2>2. ASSUME NEW w \in Works, Submits(w), launched' = launched \cup {w}
        PROVE  (QuietCycle /\ HandUndone /\ SuccessStands)'
    <3>1. \A v \in Works \ {w} : task'[v] = task[v]
      BY <2>2, <1>0, SubmitsKeeps
    <3>. QED
      BY <1>5, <2>2, <3>1 DEF Intervene
  <2>. QED
    BY <1>5, <2>1, <2>2 DEF Intervene
<1>6. CASE Check
  BY <1>6 DEF Check, Completed
<1>7. CASE SubmitWork
  <2>1. hand \in Works /\ Submits(hand) /\ place = "submit" /\ place' = "sleep"
        /\ successes' = successes /\ launched' = launched /\ page' = page
    BY <1>7 DEF SubmitWork
  <2>2. /\ \A v \in Works \ {hand} : task'[v] = task[v]
        /\ task'[hand] = task[hand] \/ task'[hand] = "live"
    BY <2>1, <1>0, SubmitsKeeps
  <2>. QED
    BY <2>1, <2>2
<1>8. ASSUME NEW w \in Works, RestoreOne(w) \/ EnqueueOne(w)
      PROVE  (QuietCycle /\ HandUndone /\ SuccessStands)'
  BY <1>8 DEF RestoreOne, EnqueueOne
<1>9. CASE CycleFails \/ Tires \/ Rests \/ Reboot
  BY <1>9 DEF CycleFails, Tires, Rests, Reboot
<1>10. ASSUME NEW w \in Works, TaskEnds(w)
       PROVE  (QuietCycle /\ HandUndone /\ SuccessStands)'
  BY <1>10 DEF TaskEnds
<1>11. ASSUME NEW w \in Works, CooledDown(w) \/ Ages(w) \/ Dreamt(w)
       PROVE  (QuietCycle /\ HandUndone /\ SuccessStands)'
  BY <1>11 DEF CooledDown, Ages, Dreamt
<1>. QED
  BY <1>1, <1>2, <1>3, <1>4, <1>5, <1>6, <1>7, <1>8, <1>9, <1>10, <1>11
     DEF CycleNext, LoopStep

\* Work that no intervention launched is carried out at most once while a lookup
\* can see that it was, although its copies in the queue, on the ladder and in
\* the store outlive the success and the agent forgets it: the check comes
\* before the submission, and no task of the cycle's own is under way meanwhile.
\* A lookup that raises and a success that 500 newer tasks hide each cost one
\* more execution at most, however many of either there are.
THEOREM WorkIsDoneOnce == CycleSpec => []DoneOnce
<1>1. CycleInit => OnceInv
  BY CycleInitially
<1>2. OnceInv => DoneOnce
  BY DEF OnceInv, SuccessStands, DoneOnce
<1>. QED
  BY <1>1, <1>2, OnceStep, PTL DEF CycleSpec

-----------------------------------------------------------------------------
(***************************************************************************)
(* Projects.                                                               *)
(***************************************************************************)
\* The type invariant, with what a list is and what a duty is about.
Lists == UNION {[D -> SUBSET Subtasks] : D \in SUBSET Subtasks}
ProjectTypes ==
  /\ ProjectTypeOK
  /\ listed \in [Submitters -> Lists]
  /\ \A p \in Submitters : duty[p].act \notin {"idle", "submit"} => duty[p].of \in Subtasks

\* B, a set that is or may become what blocks subtask u, names every dependency
\* of u that was not carried out.
Covers(B, u) == DependsOn[u] \ won \subseteq B

\* Whatever blocks a subtask - in its row, in an image a handler will save whole,
\* in a list it read - covers it.
RowsCover  == \A u \in Subtasks : Covers(subrow[u].blocked, u)
ImageCovers ==
  \A p \in Submitters : duty[p].act \in {"save", "mark"} => Covers(image[p].blocked, duty[p].of)
ListsCover == \A p \in Submitters : \A u \in DOMAIN listed[p] : Covers(listed[p][u], u)

\* A handler that unblocks reports a subtask that was carried out.
ReportsWon ==
  \A p \in Submitters :
    /\ duty[p].act \in {"select", "update"} => duty[p].ok
    /\ duty[p].ok => duty[p].of \in won

\* What is about to be submitted has its dependencies carried out, and what
\* waits or runs was submitted.
DueInOrder == \A p \in Submitters : \A s \in due[p] : DependsOn[s] \subseteq won
KnownAsked ==
  /\ \A s \in Subtasks : waiting[s] > 0 => asked[s] > 0
  /\ \A p \in Submitters : duty[p].act = "run" => asked[duty[p].of] > 0

OrderInv == /\ ProjectTypes /\ RowsCover /\ ImageCovers /\ ListsCover /\ ReportsWon
            /\ DueInOrder /\ KnownAsked /\ InOrder

\* What an EXCEPT makes of a duty.
LEMMA DutyStep ==
  ASSUME NEW A, NEW O, NEW d \in [act : A, of : O, ok : BOOLEAN], NEW a
  PROVE  [d EXCEPT !.act = a] = [act |-> a, of |-> d.of, ok |-> d.ok]
  OBVIOUS

\* Nothing has been submitted in the beginning.
LEMMA ProjectInitially == ProjectInit => OrderInv
<1>. SUFFICES ASSUME ProjectInit PROVE OrderInv
  OBVIOUS
<1>1. ProjectTypeOK
  BY ProjectAssumption DEF ProjectAssumption, ProjectInit, ProjectTypeOK, SubtaskRows,
     NoImage, Duty, Resting, Submitting, Acts
<1>2. << >> \in Lists
  <2>1. << >> \in [{} -> SUBSET Subtasks]
    OBVIOUS
  <2>. QED
    BY <2>1 DEF Lists
<1>3. ProjectTypes
  BY <1>1, <1>2 DEF ProjectTypes, ProjectInit, Duty, Resting, Submitting
<1>4. RowsCover /\ ListsCover
  BY DEF ProjectInit, RowsCover, ListsCover, Covers
<1>5. ImageCovers /\ ReportsWon /\ DueInOrder /\ KnownAsked /\ InOrder
  BY DEF ProjectInit, ImageCovers, ReportsWon, DueInOrder, KnownAsked, InOrder, Duty,
     Resting, Submitting
<1>. QED
  BY <1>3, <1>4, <1>5 DEF OrderInv

-----------------------------------------------------------------------------
(***************************************************************************)
(* Steps.  Nothing takes a subtask back out of won, so what covers goes on *)
(* covering until the row itself is written.                               *)
(***************************************************************************)
LEMMA SubmissionKeeps ==
  ASSUME OrderInv, NEW p \in Submitters,
         SubmissionEnds(p) \/ \E s \in Subtasks : SubmitTask(p, s)
  PROVE  OrderInv'
<1>. USE DEF OrderInv, ProjectTypes, ProjectTypeOK, RowsCover, ImageCovers, ListsCover, Covers,
     ReportsWon, DueInOrder, KnownAsked, InOrder, Duty, Resting, Submitting, Acts, Becomes
<1>1. ASSUME NEW s \in Subtasks, SubmitTask(p, s)
      PROVE  OrderInv'
  <2>1. duty' = [duty EXCEPT ![p] = [act |-> "read", of |-> s, ok |-> FALSE]]
    BY <1>1 DEF SubmitTask
  <2>2. ProjectTypes'
    BY <1>1, <2>1 DEF SubmitTask
  <2>3. RowsCover' /\ ListsCover' /\ ImageCovers' /\ ReportsWon'
    BY <1>1, <2>1 DEF SubmitTask
  <2>4. DueInOrder' /\ KnownAsked' /\ InOrder'
    BY <1>1, <2>1 DEF SubmitTask
  <2>. QED
    BY <2>2, <2>3, <2>4
<1>2. CASE SubmissionEnds(p)
  BY <1>2 DEF SubmissionEnds, storeVars, handlerVars, outcomeVars
<1>. QED
  BY <1>1, <1>2

\* Reading a row takes an image that covers; writing it leaves a row that does.
LEMMA ReadKeeps ==
  ASSUME OrderInv, NEW p \in Submitters, ReadToMark(p) \/ (p \in Hands /\ Find(p))
  PROVE  OrderInv'
<1>0. /\ ProjectTypes /\ RowsCover /\ ImageCovers /\ ListsCover /\ ReportsWon /\ DueInOrder
      /\ KnownAsked /\ InOrder
  BY DEF OrderInv
<1>. DEFINE s == duty[p].of
            r == subrow[s]
            step == IF duty[p].act = "read" THEN "mark" ELSE "save"
            quits == IF duty[p].act = "read" THEN "submit" ELSE "idle"
<1>1. /\ duty[p].act \in {"read", "find"}
      /\ UNCHANGED <<subrow, waiting, listed, due, asked, won, freed>>
      /\ \/ /\ duty' = [duty EXCEPT ![p] = [act |-> quits, of |-> Nothing, ok |-> FALSE]]
            /\ image' = image
         \/ /\ duty' = [duty EXCEPT ![p].act = step]
            /\ image' = [image EXCEPT ![p] = r]
  BY DEF ReadToMark, Find, Becomes, Proceeds, Duty, Resting, Submitting, storeVars,
     outcomeVars
<1>2. s \in Subtasks /\ r \in SubtaskRows
  BY <1>0, <1>1 DEF ProjectTypes, ProjectTypeOK
<1>3. /\ duty \in [Submitters -> [act : Acts, of : Subtasks \cup {Nothing}, ok : BOOLEAN]]
      /\ image \in [Submitters -> SubtaskRows]
  BY <1>0 DEF ProjectTypes, ProjectTypeOK
<1>4. Covers(r.blocked, s)
  BY <1>0, <1>2 DEF RowsCover
<1>. HIDE DEF s, r
<1>5. /\ \A q \in Submitters \ {p} : duty'[q] = duty[q] /\ image'[q] = image[q]
      /\ \/ duty'[p] = [act |-> quits, of |-> Nothing, ok |-> FALSE]
         \/ /\ duty'[p].act = step /\ duty'[p].of = s /\ duty'[p].ok = duty[p].ok
            /\ image'[p] = r
      /\ duty' \in [Submitters -> [act : Acts, of : Subtasks \cup {Nothing}, ok : BOOLEAN]]
      /\ image' \in [Submitters -> SubtaskRows]
  <2>1. CASE duty' = [duty EXCEPT ![p] = [act |-> quits, of |-> Nothing, ok |-> FALSE]]
             /\ image' = image
    BY <1>3, <2>1 DEF Acts
  <2>2. CASE duty' = [duty EXCEPT ![p].act = step] /\ image' = [image EXCEPT ![p] = r]
    <3>1. duty' = [duty EXCEPT ![p] = [act |-> step, of |-> s, ok |-> duty[p].ok]]
      <4>1. [duty[p] EXCEPT !.act = step] = [act |-> step, of |-> s, ok |-> duty[p].ok]
        BY <1>3, DutyStep DEF s
      <4>. QED
        BY <2>2, <4>1
    <3>2. duty'[p] = [act |-> step, of |-> s, ok |-> duty[p].ok]
      BY <1>3, <3>1
    <3>3. [act |-> step, of |-> s, ok |-> duty[p].ok]
            \in [act : Acts, of : Subtasks \cup {Nothing}, ok : BOOLEAN]
      BY <1>2, <1>3 DEF Acts
    <3>. HIDE DEF step, quits
    <3>. QED
      BY <1>2, <1>3, <2>2, <3>1, <3>2, <3>3
  <2>. QED
    BY <1>1, <2>1, <2>2
<1>. HIDE DEF step, quits
<1>6. ProjectTypes'
  BY <1>0, <1>1, <1>2, <1>5 DEF ProjectTypes, ProjectTypeOK, quits
<1>7. RowsCover' /\ ListsCover'
  BY <1>0, <1>1 DEF RowsCover, ListsCover, Covers
<1>8. ImageCovers'
  BY <1>0, <1>1, <1>4, <1>5 DEF ImageCovers, Covers, quits
<1>9. ReportsWon'
  BY <1>0, <1>1, <1>5 DEF ReportsWon, quits, step, s
<1>10. DueInOrder' /\ KnownAsked' /\ InOrder'
  BY <1>0, <1>1, <1>5 DEF DueInOrder, KnownAsked, InOrder, quits, step
<1>. QED
  BY <1>6, <1>7, <1>8, <1>9, <1>10 DEF OrderInv

\* Writing back a row that was read gives up no blocker that was not carried out.
LEMMA WriteKeeps ==
  ASSUME OrderInv, NEW p \in Submitters, Mark(p) \/ (p \in Hands /\ SaveOutcome(p))
  PROVE  OrderInv'
<1>0. /\ ProjectTypes /\ RowsCover /\ ImageCovers /\ ListsCover /\ ReportsWon /\ DueInOrder
      /\ KnownAsked /\ InOrder
  BY DEF OrderInv
<1>. DEFINE s == duty[p].of
            r == IF duty[p].act = "mark"
                 THEN [image[p] EXCEPT !.submitted = TRUE]
                 ELSE [image[p] EXCEPT !.stage = IF duty[p].ok THEN "artifact" ELSE "task",
                                       !.submitted = TRUE]
            next == IF duty[p].act = "mark" THEN [act |-> "submit", of |-> Nothing, ok |-> FALSE]
                    ELSE AfterOutcome(p)
<1>1. /\ image[p] \in SubtaskRows
      /\ duty[p] \in [act : Acts, of : Subtasks \cup {Nothing}, ok : BOOLEAN]
  BY <1>0 DEF ProjectTypes, ProjectTypeOK
<1>2. /\ duty[p].act \in {"mark", "save"}
      /\ UNCHANGED <<waiting, listed, due, asked, won, freed>>
      /\ subrow' = [subrow EXCEPT ![s] = r]
      /\ duty' = [duty EXCEPT ![p] = next]
      /\ image' = [image EXCEPT ![p] = NoImage]
  <2>1. CASE Mark(p)
    BY <2>1 DEF Mark, Becomes, Duty, Submitting, outcomeVars
  <2>2. CASE SaveOutcome(p)
    BY <2>2 DEF SaveOutcome, Becomes, outcomeVars
  <2>. QED
    BY <2>1, <2>2
<1>3. /\ s \in Subtasks /\ NoImage \in SubtaskRows
      /\ r \in SubtaskRows /\ r.blocked = image[p].blocked
  <2>1. s \in Subtasks /\ NoImage \in SubtaskRows
    BY <1>0, <1>2 DEF ProjectTypes, SubtaskRows, NoImage
  <2>2. CASE duty[p].act = "mark"
    <3>1. /\ [image[p] EXCEPT !.submitted = TRUE] \in SubtaskRows
          /\ [image[p] EXCEPT !.submitted = TRUE].blocked = image[p].blocked
      BY <1>1 DEF SubtaskRows
    <3>. QED
      BY <2>1, <2>2, <3>1
  <2>3. CASE duty[p].act # "mark"
    <3>1. ASSUME NEW st \in {"task", "artifact"}
          PROVE  /\ [image[p] EXCEPT !.stage = st, !.submitted = TRUE] \in SubtaskRows
                 /\ [image[p] EXCEPT !.stage = st, !.submitted = TRUE].blocked
                      = image[p].blocked
      BY <1>1 DEF SubtaskRows
    <3>. QED
      BY <2>1, <2>3, <3>1
  <2>. QED
    BY <2>2, <2>3
<1>4. Covers(r.blocked, s)
  <2>1. Covers(image[p].blocked, s)
    BY <1>0, <1>2 DEF ImageCovers
  <2>. QED
    BY <1>3, <2>1
<1>5. /\ next \in [act : Acts, of : Subtasks \cup {Nothing}, ok : BOOLEAN]
      /\ \/ next.act = "select" /\ next.ok /\ next.of = s /\ duty[p].ok
         \/ next.act \in {"idle", "submit"} /\ ~next.ok
  BY <1>1, <1>2 DEF AfterOutcome, Resting, Duty, Acts
<1>. HIDE DEF s, r, next
<1>6. ProjectTypes'
  BY <1>0, <1>2, <1>3, <1>5 DEF ProjectTypes, ProjectTypeOK
<1>7. RowsCover'
  BY <1>0, <1>2, <1>3, <1>4 DEF ProjectTypes, ProjectTypeOK, RowsCover, Covers
<1>8. ListsCover' /\ DueInOrder'
  BY <1>0, <1>2 DEF ListsCover, Covers, DueInOrder
<1>9. /\ \A q \in Submitters \ {p} : duty'[q] = duty[q] /\ image'[q] = image[q]
      /\ duty'[p] = next
  BY <1>0, <1>2 DEF ProjectTypes, ProjectTypeOK
<1>10. ImageCovers'
  BY <1>0, <1>2, <1>5, <1>9 DEF ImageCovers, Covers
<1>11. ReportsWon'
  BY <1>0, <1>2, <1>5, <1>9 DEF ReportsWon, s
<1>12. KnownAsked' /\ InOrder'
  BY <1>0, <1>2, <1>5, <1>9 DEF KnownAsked, InOrder
<1>. QED
  BY <1>6, <1>7, <1>8, <1>10, <1>11, <1>12 DEF OrderInv

\* A worker takes a task that waited, and carries it out: won grows by a subtask
\* whose dependencies are in it.
LEMMA WorkKeeps ==
  ASSUME OrderInv, NEW h \in Hands,
         (\E s \in Subtasks : TakeUp(h, s)) \/ (\E ok \in BOOLEAN : CarriedOut(h, ok))
  PROVE  OrderInv'
<1>. USE DEF OrderInv, ProjectTypes, ProjectTypeOK, RowsCover, ImageCovers, ListsCover, Covers,
     ReportsWon, DueInOrder, KnownAsked, InOrder, Duty, Resting, Submitting, Acts, Becomes,
     Submitters, handlerVars, outcomeVars, storeVars
<1>1. ASSUME NEW s \in Subtasks, TakeUp(h, s)
      PROVE  OrderInv'
  BY <1>1 DEF TakeUp
<1>2. ASSUME NEW ok \in BOOLEAN, CarriedOut(h, ok)
      PROVE  OrderInv'
  BY <1>2 DEF CarriedOut
<1>. QED
  BY <1>1, <1>2

\* Unblocking removes from a list that covers a subtask that was carried out.
LEMMA SelectKeeps ==
  ASSUME OrderInv, NEW h \in Hands, SelectBlocked(h)
  PROVE  OrderInv'
<1>0. /\ ProjectTypes /\ RowsCover /\ ImageCovers /\ ListsCover /\ ReportsWon /\ DueInOrder
      /\ KnownAsked /\ InOrder
  BY DEF OrderInv
<1>1. h \in Submitters
  BY DEF Submitters
<1>. DEFINE s == duty[h].of
            rowsNamed == {u \in Subtasks : s \in subrow[u].blocked /\ subrow[u].stage # "gone"}
            list == [u \in rowsNamed |-> subrow[u].blocked]
<1>2. /\ duty[h].act = "select"
      /\ listed' = [listed EXCEPT ![h] = list]
      /\ UNCHANGED <<subrow, waiting, image, due, asked, won>>
      /\ \/ /\ duty' = [duty EXCEPT ![h] = [act |-> "idle", of |-> Nothing, ok |-> FALSE]]
            /\ freed' = freed \cup {s}
         \/ duty' = [duty EXCEPT ![h].act = "update"] /\ freed' = freed
  BY DEF SelectBlocked, Becomes, Proceeds, Duty, Resting, storeVars
<1>3. /\ duty[h] \in [act : Acts, of : Subtasks \cup {Nothing}, ok : BOOLEAN]
      /\ s \in Subtasks /\ duty[h].ok
  BY <1>0, <1>1, <1>2 DEF ProjectTypes, ProjectTypeOK, ReportsWon
<1>4. \A u \in Subtasks : subrow[u].blocked \in SUBSET Subtasks /\ Covers(subrow[u].blocked, u)
  BY <1>0 DEF ProjectTypes, ProjectTypeOK, SubtaskRows, RowsCover
<1>5. list \in [rowsNamed -> SUBSET Subtasks] /\ rowsNamed \in SUBSET Subtasks
  BY <1>4
<1>6. /\ list \in Lists /\ DOMAIN list \subseteq Subtasks
      /\ \A u \in DOMAIN list : list[u] \subseteq Subtasks /\ Covers(list[u], u)
  BY <1>4, <1>5 DEF Lists
<1>. HIDE DEF s, rowsNamed, list
<1>7. /\ \A q \in Submitters \ {h} : duty'[q] = duty[q]
      /\ \/ duty'[h] = [act |-> "idle", of |-> Nothing, ok |-> FALSE]
         \/ duty'[h].act = "update" /\ duty'[h].of = s /\ duty'[h].ok
      /\ duty' \in [Submitters -> [act : Acts, of : Subtasks \cup {Nothing}, ok : BOOLEAN]]
  <2>0. duty \in [Submitters -> [act : Acts, of : Subtasks \cup {Nothing}, ok : BOOLEAN]]
    BY <1>0 DEF ProjectTypes, ProjectTypeOK
  <2>1. CASE duty' = [duty EXCEPT ![h] = [act |-> "idle", of |-> Nothing, ok |-> FALSE]]
    BY <1>1, <2>0, <2>1 DEF Acts
  <2>2. CASE duty' = [duty EXCEPT ![h].act = "update"]
    <3>1. duty' = [duty EXCEPT ![h] = [act |-> "update", of |-> s, ok |-> duty[h].ok]]
      <4>0. duty[h] \in [act : Acts, of : Subtasks \cup {Nothing}, ok : BOOLEAN]
        BY <1>3
      <4>1. [duty[h] EXCEPT !.act = "update"] = [act |-> "update", of |-> s, ok |-> duty[h].ok]
        BY <4>0, DutyStep DEF s
      <4>. QED
        BY <2>2, <4>1
    <3>2. [act |-> "update", of |-> s, ok |-> duty[h].ok]
            \in [act : Acts, of : Subtasks \cup {Nothing}, ok : BOOLEAN]
      BY <1>3 DEF Acts
    <3>. QED
      BY <1>1, <1>3, <2>0, <3>1, <3>2
  <2>. QED
    BY <1>2, <2>1, <2>2
<1>8. ProjectTypes'
  BY <1>0, <1>1, <1>2, <1>3, <1>6, <1>7 DEF ProjectTypes, ProjectTypeOK
<1>9. ListsCover'
  BY <1>0, <1>1, <1>2, <1>6 DEF ProjectTypes, ListsCover, Covers
<1>10. RowsCover' /\ DueInOrder'
  BY <1>0, <1>2 DEF RowsCover, Covers, DueInOrder
<1>11. ImageCovers'
  BY <1>0, <1>2, <1>7 DEF ImageCovers, Covers
<1>12. ReportsWon'
  BY <1>0, <1>1, <1>2, <1>3, <1>7 DEF ReportsWon, s
<1>13. KnownAsked' /\ InOrder'
  BY <1>0, <1>2, <1>7 DEF KnownAsked, InOrder
<1>. QED
  BY <1>8, <1>9, <1>10, <1>11, <1>12, <1>13 DEF OrderInv

\* A blocker is removed when it was carried out.
LEMMA UnblockKeeps ==
  ASSUME OrderInv, NEW h \in Hands, NEW u \in Subtasks, Unblock(h, u)
  PROVE  OrderInv'
<1>0. /\ ProjectTypes /\ RowsCover /\ ImageCovers /\ ListsCover /\ ReportsWon /\ DueInOrder
      /\ KnownAsked /\ InOrder
  BY DEF OrderInv
<1>1. h \in Submitters
  BY DEF Submitters
<1>. DEFINE rest == [v \in DOMAIN listed[h] \ {u} |-> listed[h][v]]
            cleared == listed[h][u] \ {duty[h].of}
<1>2. /\ duty[h].act = "update" /\ u \in DOMAIN listed[h]
      /\ subrow' = [subrow EXCEPT ![u].blocked = cleared]
      /\ listed' = [listed EXCEPT ![h] = rest]
      /\ UNCHANGED <<waiting, duty, image, due, asked, won, freed>>
  BY <1>0, <1>1 DEF Unblock, outcomeVars, ProjectTypes
<1>3. /\ DOMAIN listed[h] \subseteq Subtasks
      /\ \A v \in DOMAIN listed[h] : listed[h][v] \subseteq Subtasks /\ Covers(listed[h][v], v)
  BY <1>0, <1>1 DEF ProjectTypes, ProjectTypeOK, ListsCover
<1>4. /\ rest \in [DOMAIN listed[h] \ {u} -> SUBSET Subtasks]
      /\ DOMAIN listed[h] \ {u} \in SUBSET Subtasks
  BY <1>3
<1>5. /\ rest \in Lists /\ DOMAIN rest \subseteq Subtasks
      /\ \A v \in DOMAIN rest : rest[v] \subseteq Subtasks /\ Covers(rest[v], v)
  BY <1>3, <1>4 DEF Lists
<1>6. duty[h].of \in won
  BY <1>0, <1>1, <1>2 DEF ReportsWon
<1>7. cleared \subseteq Subtasks /\ Covers(cleared, u)
  BY <1>2, <1>3, <1>6 DEF Covers
<1>. HIDE DEF rest, cleared
<1>8. /\ subrow' \in [Subtasks -> SubtaskRows]
      /\ subrow'[u].blocked = cleared
      /\ \A v \in Subtasks \ {u} : subrow'[v] = subrow[v]
  BY <1>0, <1>2, <1>7 DEF ProjectTypes, ProjectTypeOK, SubtaskRows
<1>9. ProjectTypes'
  BY <1>0, <1>1, <1>2, <1>5, <1>8 DEF ProjectTypes, ProjectTypeOK
<1>10. RowsCover'
  BY <1>0, <1>2, <1>7, <1>8 DEF RowsCover, Covers
<1>11. ListsCover'
  BY <1>0, <1>1, <1>2, <1>5 DEF ProjectTypes, ListsCover, Covers
<1>12. ImageCovers' /\ ReportsWon' /\ DueInOrder' /\ KnownAsked' /\ InOrder'
  BY <1>0, <1>2 DEF ImageCovers, Covers, ReportsWon, DueInOrder, KnownAsked, InOrder
<1>. QED
  BY <1>9, <1>10, <1>11, <1>12 DEF OrderInv

\* A row that nothing blocks has its dependencies carried out.
LEMMA ReadyKeeps ==
  ASSUME OrderInv, (\E h \in Hands : SubmitReady(h)) \/ \E s \in Subtasks : CycleTakes(s)
  PROVE  OrderInv'
<1>. USE DEF OrderInv, ProjectTypes, ProjectTypeOK, RowsCover, ImageCovers, ListsCover, Covers,
     ReportsWon, DueInOrder, KnownAsked, InOrder, Duty, Resting, Submitting, Acts, Becomes,
     Submitters, SubtaskRows, handlerVars, outcomeVars, storeVars
<1>1. ASSUME NEW h \in Hands, SubmitReady(h)
      PROVE  OrderInv'
  BY <1>1 DEF SubmitReady
<1>2. ASSUME NEW s \in Subtasks, CycleTakes(s)
      PROVE  OrderInv'
  <2>1. PICK st \in {"task", "artifact", "gone"} :
          /\ subrow' = [subrow EXCEPT ![s].stage = st]
          /\ UNCHANGED <<waiting, duty, image, listed, due, asked, won, freed>>
    BY <1>2 DEF CycleTakes
  <2>2. /\ subrow' \in [Subtasks -> SubtaskRows]
        /\ \A u \in Subtasks : subrow'[u].blocked = subrow[u].blocked
    <3>1. subrow \in [Subtasks -> SubtaskRows]
      OBVIOUS
    <3>. QED
      BY ONLY <2>1, <3>1 DEF SubtaskRows
  <2>3. ProjectTypes' /\ RowsCover'
    BY <2>1, <2>2
  <2>4. ImageCovers' /\ ListsCover' /\ ReportsWon' /\ DueInOrder' /\ KnownAsked' /\ InOrder'
    BY <2>1
  <2>. QED
    BY <2>2, <2>3, <2>4
<1>. QED
  BY <1>1, <1>2

\* Every step keeps the plan's order.
LEMMA ProjectStep == OrderInv /\ [ProjectNext]_planVars => OrderInv'
<1>1. ASSUME OrderInv, UNCHANGED planVars
      PROVE  OrderInv'
  BY <1>1 DEF OrderInv, ProjectTypes, ProjectTypeOK, RowsCover, ImageCovers, ListsCover,
     Covers,
     ReportsWon, DueInOrder, KnownAsked, InOrder, planVars, storeVars, handlerVars,
     outcomeVars
<1>2. Hands \subseteq Submitters
  BY DEF Submitters
<1>. QED
  BY <1>1, <1>2, SubmissionKeeps, ReadKeeps, WriteKeeps, WorkKeeps, SelectKeeps,
     UnblockKeeps, ReadyKeeps
     DEF ProjectNext, HandStep

\* OrderInv is inductive.
LEMMA OrderInvHolds == ProjectSpec => []OrderInv
  BY ProjectInitially, ProjectStep, PTL DEF ProjectSpec

\* Every variable of the project's store and of its handlers keeps its type.
THEOREM ProjectTypesCorrect == ProjectSpec => []ProjectTypeOK
<1>1. OrderInv => ProjectTypeOK
  BY DEF OrderInv, ProjectTypes
<1>. QED
  BY <1>1, OrderInvHolds, PTL

\* No subtask is submitted or carried out before all it depends on were carried
\* out, whatever stale rows and lists the handlers of any number of workers and
\* the planner write over each other.
THEOREM SubtasksInOrder == ProjectSpec => []InOrder
<1>1. OrderInv => InOrder
  BY DEF OrderInv
<1>. QED
  BY <1>1, OrderInvHolds, PTL
=============================================================================
