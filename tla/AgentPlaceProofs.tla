-------------------------- MODULE AgentPlaceProofs --------------------------
(***************************************************************************)
(* Where a task of the bounded agent is, and what follows from it: its     *)
(* place, its recorded result, its executions and its future.  All of it   *)
(* breaks when two release passes, or a pass and an operator, interleave,  *)
(* because a pass works on a snapshot of the held table.  The theorems are *)
(* about the agents that cannot race that way: those that never hold a     *)
(* task, with any number of workers, and those with one coroutine that     *)
(* releases, no operator, and no exception while tasks are held or         *)
(* released.                                                               *)
(***************************************************************************)
EXTENDS AgentPromiseProofs, FiniteSetTheorems

\* Nothing is ever held: no reflective task, no pause, no dependency.
NothingHeld == Reflective = {} /\ MaxPauses = 0 /\ \A t \in Tasks : Deps[t] = {}
\* One coroutine takes, runs and releases, no operator resolves holds, and
\* no store fails under a hold or a release pass.
Serial  == (\A a, b \in Agents : a = b) /\ Operated = {} /\ MaxRaises = 0
Unraced == NothingHeld \/ Serial

-----------------------------------------------------------------------------
(***************************************************************************)
(* The inductive invariant of places.                                      *)
(***************************************************************************)
Ended == {"done", "failed"}
AtEnd == {"terminal", "record", "receipt", "publish", "xrecord", "xreceipt",
          "xpublish"}

\* What never being held means for the state.
Calm ==
  NothingHeld => /\ held = {} /\ ~paused
                 /\ \A a \in Agents : todo[a] = {} /\ released[a] = {}
                 /\ \A t \in Tasks : sub[t] \notin {"hold", "aware"}

QueueOnce == \A i, j \in DOMAIN queue : queue[i] = queue[j] => i = j
WorkerOnce ==
  \A v, w \in Workers :
    (cur[v] = cur[w] /\ cur[v] # NoTask /\ pc[v] # "release" /\ pc[w] # "release")
      => v = w
WorkerApart ==
  \A w \in Workers : (cur[w] # NoTask /\ pc[w] # "release") =>
                     ~Queued(cur[w]) /\ cur[w] \notin held
\* Only a pass that is not over yet has a task both held and queued.
HeldApart == \A t \in held : Queued(t) => \E a \in Agents : t \in released[a]
Passes ==
  \A a \in Agents :
    /\ todo[a] \subseteq held /\ released[a] \subseteq held
    /\ \A t \in released[a] : Queued(t)
    /\ \A t \in todo[a] : ~Queued(t)
    /\ pc[a] # "release" => todo[a] = {} /\ released[a] = {}

\* The stage of a task says where it is.
WaitingStages == \A t \in Tasks : Queued(t) \/ t \in held => stage[t] = "queued"
WorkerStages ==
  \A w \in Workers :
    /\ pc[w] = "plan" => stage[cur[w]] = "queued"
    /\ pc[w] = "execute" => stage[cur[w]] = "planning"
    /\ pc[w] = "run" => stage[cur[w]] = "executing"
    /\ pc[w] \in {"retry", "progress"} => stage[cur[w]] = "recovering"
    /\ pc[w] \in AtEnd => stage[cur[w]] = Target(w)
    /\ cur[w] # NoTask => stage[cur[w]] # "new"
NewBefore == \A t \in Tasks : sub[t] \notin {"aware", "done"} => stage[t] = "new"
IdleHand  == \A w \in Workers : pc[w] \in {"idle", "dead", "aware"} => cur[w] = NoTask
\* A task whose hold a worker goes on to record is still held.
NotedHeld == \A w \in Workers : pc[w] = "aware" => noted[w] \in held
BootPlaces ==
  /\ up = "down" => queue = <<>> /\ held = {}
  /\ \A t \in restoring : /\ stage[t] \notin {"new"} \cup Ended
                          /\ ~Queued(t) /\ t \notin held

PlaceInv ==
  /\ Calm /\ QueueOnce /\ WorkerOnce /\ WorkerApart /\ HeldApart /\ Passes
  /\ WaitingStages /\ WorkerStages /\ NewBefore /\ IdleHand /\ NotedHeld
  /\ BootPlaces

(***************************************************************************)
(* On top of the places: answers, executions, survival, futures, records.  *)
(***************************************************************************)
Published == {"publish", "xpublish"}

\* A task that was answered is over, and nobody works on it any more.
Over(t) == /\ t \in receipts /\ stage[t] \in Ended
           /\ \A w \in Workers : cur[w] = t => pc[w] = "release"
Answered ==
  \A t \in Tasks : (fut[t] \in Verdict /\ stage[t] # "new") =>
                   RecordedAs(t, fut[t]) /\ Over(t)
WorkerResults ==
  \A w \in Workers :
    /\ pc[w] \in Recorded => RecordedAs(cur[w], outcome[w])
    /\ pc[w] \in Published => cur[w] \in receipts
    /\ pc[w] \in {"xrecord", "xreceipt", "xpublish"} => outcome[w] = "fail"
\* What a worker is about to answer besides its aliases is its own task.
ResolvesOver ==
  \A w \in Workers :
    /\ pc[w] # "release" => resolves[w] = {}
    /\ \A t \in resolves[w] : stage[t] # "new" =>
         RecordedAs(t, outcome[w]) /\ Over(t)
\* An alias stands for a submission that never became a task of its own.
AliasNew == \A p \in aliases : stage[p[1]] = "new" /\ sub[p[1]] = "done"

AnswerInv == Answered /\ WorkerResults /\ ResolvesOver /\ AliasNew

\* Executions of a task that a later step or a crash has accounted for.
Used(t) == count[t].recovery + count[t].boundary + crashes
WillRun(t) ==
  \/ stage[t] = "new" \/ Queued(t) \/ t \in held \/ up # "up"
  \/ \E w \in Workers : cur[w] = t /\ pc[w] \in {"plan", "execute"}
Counting ==
  \A t \in Tasks : stage[t] \notin Ended =>
    /\ count[t].recovery < MaxAttempts /\ count[t].boundary < ProgressCap
    /\ count[t].attempt <= Used(t) + 1
    /\ WillRun(t) => count[t].attempt <= Used(t)
RetryInv == Counting /\ RetriesBounded

\* Every unfinished task is somewhere a running agent will look.
Placed(t) ==
  \/ Queued(t) \/ t \in held \/ t \in restoring
  \/ \E w \in Workers : cur[w] = t /\ pc[w] # "release"
Survives == up # "down" => \A t \in Pending : Placed(t)

\* A pending future is in the table, or with the worker that answers it.
ResultsOut ==
  /\ \A t \in Tasks : results[t] # "none" => t \notin futures /\ stage[t] # "new"
  /\ up # "up" => \A t \in Tasks : results[t] = "none"
FutureKept ==
  \A t \in Tasks : (fut[t] = "pending" /\ stage[t] # "new") =>
                   t \in futures \/ \E w \in Workers : t \in resolves[w]
Submitting == {"checking", "hold", "enqueue"}
SubmitterKeeps == \A t \in Tasks : sub[t] \in Submitting => t \in futures

\* Without an exception in the bookkeeping, what is recorded is left alone.
ExceptRuns ==
  \A w \in Workers : pc[w] = "except" => stage[cur[w]] \notin Ended
StoredOver ==
  \A t \in Tasks : stored[t] # "none" =>
    /\ stage[t] \in Ended
    /\ \A w \in Workers : cur[w] = t => pc[w] \in Recorded \cup {"release"}
RecordInv == ExceptRuns /\ StoredOver

\* Why a task is held: its submitter's late save is of a task that may be.
HoldReasons ==
  /\ paused => MaxPauses > 0
  /\ \A t \in Tasks : /\ sub[t] = "hold" => Deps[t] # {}
                      /\ sub[t] = "aware" => Holdable(t)
\* The save with which submit records a hold, possibly of a task that is over.
LateSave(t) == sub[t] = "aware" /\ stored'[t] = "none" /\ stage'[t] = stage[t]

-----------------------------------------------------------------------------
(***************************************************************************)
(* Lemmas on the lane, the passes and what is excluded.                    *)
(***************************************************************************)
Base == TypeInv /\ PromiseInv /\ PlaceInv

\* A task put in the lane for the first time is there once.
LEMMA LaneAppend ==
  ASSUME queue \in Seq(Tasks), QueueOnce, NEW t \in Tasks, ~Queued(t),
         queue' = Append(queue, t)
  PROVE  QueueOnce' /\ \A u \in Tasks : Queued(u)' <=> Queued(u) \/ u = t
<1>1. /\ DOMAIN queue' = 1 .. Len(queue) + 1 /\ queue'[Len(queue) + 1] = t
      /\ \A i \in 1 .. Len(queue) : queue'[i] = queue[i]
      /\ DOMAIN queue = 1 .. Len(queue) /\ Len(queue) \in Nat
  OBVIOUS
<1>2. \A i \in 1 .. Len(queue) : queue[i] # t
  BY <1>1 DEF Queued
<1>3. QueueOnce'
  <2>1. ASSUME NEW i \in DOMAIN queue', NEW j \in DOMAIN queue', queue'[i] = queue'[j]
        PROVE  i = j
    <3>1. CASE i = Len(queue) + 1 \/ j = Len(queue) + 1
      BY <1>1, <1>2, <2>1, <3>1
    <3>2. CASE i # Len(queue) + 1 /\ j # Len(queue) + 1
      <4>1. i \in 1 .. Len(queue) /\ j \in 1 .. Len(queue)
        BY <1>1, <3>2
      <4>2. queue[i] = queue[j]
        BY <1>1, <2>1, <4>1
      <4>. QED
        BY <1>1, <4>1, <4>2 DEF QueueOnce
    <3>. QED
      BY <3>1, <3>2
  <2>. QED
    BY <2>1 DEF QueueOnce
<1>4. ASSUME NEW u \in Tasks
      PROVE  Queued(u)' <=> Queued(u) \/ u = t
  <2>1. Queued(u)' => Queued(u) \/ u = t
    BY QueuedAppend
  <2>2. Queued(u) => Queued(u)'
    BY <1>1 DEF Queued
  <2>3. Queued(t)'
    BY <1>1 DEF Queued
  <2>. QED
    BY <2>1, <2>2, <2>3
<1>. QED
  BY <1>3, <1>4

\* Taking the head removes it, and nothing else, from the lane.
LEMMA LaneTail ==
  ASSUME queue \in Seq(Tasks), QueueOnce, queue # <<>>, queue' = Tail(queue)
  PROVE  /\ QueueOnce' /\ Queued(Head(queue)) /\ Head(queue) \in Tasks
         /\ \A u \in Tasks : Queued(u)' <=> Queued(u) /\ u # Head(queue)
<1>1. /\ Len(queue) \in Nat /\ Len(queue) >= 1 /\ DOMAIN queue = 1 .. Len(queue)
      /\ DOMAIN queue' = 1 .. Len(queue) - 1 /\ Head(queue) = queue[1]
      /\ \A i \in 1 .. Len(queue) - 1 : queue'[i] = queue[i + 1]
  OBVIOUS
<1>2. QueueOnce'
  <2>1. ASSUME NEW i \in DOMAIN queue', NEW j \in DOMAIN queue', queue'[i] = queue'[j]
        PROVE  i = j
    <3>1. /\ i + 1 \in DOMAIN queue /\ j + 1 \in DOMAIN queue
          /\ queue[i + 1] = queue[j + 1]
      BY <1>1, <2>1
    <3>2. i + 1 = j + 1
      BY <3>1 DEF QueueOnce
    <3>. QED
      BY <1>1, <3>2
  <2>. QED
    BY <2>1 DEF QueueOnce
<1>3. Queued(Head(queue)) /\ Head(queue) \in Tasks
  BY <1>1 DEF Queued
<1>4. ASSUME NEW u \in Tasks
      PROVE  Queued(u)' <=> Queued(u) /\ u # Head(queue)
  <2>1. ASSUME Queued(u)'
        PROVE  Queued(u) /\ u # Head(queue)
    <3>1. PICK i \in DOMAIN queue' : queue'[i] = u
      BY <2>1 DEF Queued
    <3>2. i + 1 \in DOMAIN queue /\ queue[i + 1] = u /\ i + 1 # 1 /\ 1 \in DOMAIN queue
      BY <1>1, <3>1
    <3>3. queue[1] # u
      BY <3>2 DEF QueueOnce
    <3>. QED
      BY <1>1, <3>2, <3>3 DEF Queued
  <2>2. ASSUME Queued(u), u # Head(queue)
        PROVE  Queued(u)'
    <3>1. PICK i \in DOMAIN queue : queue[i] = u
      BY <2>2 DEF Queued
    <3>2. i - 1 \in DOMAIN queue' /\ queue'[i - 1] = u
      BY <1>1, <2>2, <3>1
    <3>. QED
      BY <3>2 DEF Queued
  <2>. QED
    BY <2>1, <2>2
<1>. QED
  BY <1>2, <1>3, <1>4

\* What a step must leave alone for each part of the invariant to stay.
LEMMA PlaceFrames ==
  /\ Calm /\ UNCHANGED <<held, paused, todo, released, sub>> => Calm'
  /\ QueueOnce /\ UNCHANGED queue => QueueOnce'
  /\ WorkerOnce /\ UNCHANGED <<cur, pc>> => WorkerOnce'
  /\ WorkerApart /\ UNCHANGED <<cur, pc, queue, held>> => WorkerApart'
  /\ HeldApart /\ UNCHANGED <<held, queue, released>> => HeldApart'
  /\ Passes /\ UNCHANGED <<todo, released, held, queue, pc>> => Passes'
  /\ WaitingStages /\ UNCHANGED <<queue, held, stage>> => WaitingStages'
  /\ WorkerStages /\ UNCHANGED <<pc, cur, stage, outcome>> => WorkerStages'
  /\ NewBefore /\ UNCHANGED <<sub, stage>> => NewBefore'
  /\ IdleHand /\ UNCHANGED <<pc, cur>> => IdleHand'
  /\ NotedHeld /\ UNCHANGED <<pc, noted, held>> => NotedHeld'
  /\ BootPlaces /\ UNCHANGED <<up, queue, held, restoring, stage>> => BootPlaces'
<1>1. /\ Calm /\ UNCHANGED <<held, paused, todo, released, sub>> => Calm'
      /\ QueueOnce /\ UNCHANGED queue => QueueOnce'
      /\ WorkerOnce /\ UNCHANGED <<cur, pc>> => WorkerOnce'
      /\ NewBefore /\ UNCHANGED <<sub, stage>> => NewBefore'
      /\ IdleHand /\ UNCHANGED <<pc, cur>> => IdleHand'
      /\ NotedHeld /\ UNCHANGED <<pc, noted, held>> => NotedHeld'
  BY DEF Calm, NothingHeld, QueueOnce, WorkerOnce, NewBefore, IdleHand, NotedHeld
<1>2. UNCHANGED queue => \A t : Queued(t)' <=> Queued(t)
  BY DEF Queued
<1>3. WorkerApart /\ UNCHANGED <<cur, pc, queue, held>> => WorkerApart'
  BY <1>2 DEF WorkerApart
<1>4. HeldApart /\ UNCHANGED <<held, queue, released>> => HeldApart'
  BY <1>2 DEF HeldApart
<1>5. Passes /\ UNCHANGED <<todo, released, held, queue, pc>> => Passes'
  BY <1>2 DEF Passes
<1>6. WaitingStages /\ UNCHANGED <<queue, held, stage>> => WaitingStages'
  BY <1>2 DEF WaitingStages
<1>7. WorkerStages /\ UNCHANGED <<pc, cur, stage, outcome>> => WorkerStages'
  BY DEF WorkerStages, Target
<1>8. BootPlaces /\ UNCHANGED <<up, queue, held, restoring, stage>> => BootPlaces'
  BY <1>2 DEF BootPlaces
<1>. QED
  BY <1>1, <1>3, <1>4, <1>5, <1>6, <1>7, <1>8

\* While an agent is not in a pass, no task is both held and queued.
LEMMA Solo ==
  ASSUME Unraced, Base, NEW a \in Agents, pc[a] # "release"
  PROVE  /\ \A t \in held : ~Queued(t)
         /\ \A b \in Agents : todo[b] = {} /\ released[b] = {}
<1>1. Calm /\ HeldApart /\ Passes
  BY DEF Base, PlaceInv
<1>2. CASE NothingHeld
  BY <1>1, <1>2 DEF Calm
<1>3. CASE Serial
  BY <1>1, <1>3 DEF Serial, HeldApart, Passes
<1>. QED
  BY <1>2, <1>3 DEF Unraced

\* An agent that is never made to hold a task lets every task through.
LEMMA LetsThrough ==
  ASSUME NothingHeld, Calm, NEW t \in Tasks
  PROVE  ~GuardHolds(t) /\ ~PauseHolds(t) /\ DependenciesReady(t)
  BY DEF NothingHeld, Calm, GuardHolds, PauseHolds, DependenciesReady

\* What the lifecycle table lets a task do from the stages of a worker's task.
LEMMA TableMoves ==
  ASSUME NEW t \in Tasks
  PROVE  /\ stage[t] = "queued" => CanTransition(t, "planning")
         /\ stage[t] = "planning" => CanTransition(t, "executing")
         /\ stage[t] = "recovering" => CanTransition(t, "failed") /\ CanTransition(t, "queued")
         /\ stage[t] \in Ended => CanTransition(t, stage[t])
  BY DEF CanTransition, FromStage, IsValid, VALID_TRANSITIONS, LifecycleStage, Ended

\* A worker with a task in hand is the only one, and the task is nowhere else.
LEMMA OwnTask ==
  ASSUME Unraced, Base, NEW w \in Workers, pc[w] \in Busy, pc[w] # "release"
  PROVE  /\ cur[w] \in Tasks /\ cur[w] # NoTask
         /\ ~Queued(cur[w]) /\ cur[w] \notin held /\ stage[cur[w]] # "new"
         /\ \A v \in Workers : v # w /\ pc[v] # "release" => cur[v] # cur[w]
         /\ up = "up" /\ restoring = {}
<1>1. BusyHasTask /\ WorkerApart /\ WorkerOnce /\ WorkerStages /\ Booting
  BY DEF Base, TypeInv, PromiseInv, PlaceInv
<1>2. cur[w] \in Tasks /\ cur[w] # NoTask
  BY <1>1, ConstantsAssumption DEF BusyHasTask, ConstantsAssumption
<1>3. pc[w] # "idle"
  BY DEF Busy
<1>. QED
  BY <1>1, <1>2, <1>3 DEF WorkerApart, WorkerOnce, WorkerStages, Booting

\* What cannot happen: a refused transition, a pass that misses a task or
\* fails, an operator at the held table, a worker whose task is held under its
\* hands.
LEMMA Excluded ==
  ASSUME Unraced, Base
  PROVE  /\ \A w \in Workers : ~Refused(w)
         /\ \A w \in Workers : pc[w] \in {"plan", "execute"} => cur[w] \notin held
         /\ \A w \in Workers : pc[w] = "terminal" => CanTransition(cur[w], Target(w))
         /\ \A a \in Agents : ~EndPassKeyError(a) /\ ~PassRaises(a)
         /\ \A w \in Workers : ~HoldRaises(w)
         /\ \A t \in Tasks : ~ResolveHold(t)
<1>0. Calm /\ Passes /\ WorkerStages /\ NotedHeld /\ EnvTypes
  BY DEF Base, PlaceInv, TypeInv, TypeOK
<1>1. ASSUME NEW w \in Workers, pc[w] \in {"plan", "execute", "retry", "progress"}
      PROVE  cur[w] \notin held /\ CanTransition(cur[w], AsksFor(w))
  <2>1. cur[w] \in Tasks /\ cur[w] \notin held
    BY <1>1, OwnTask DEF Busy
  <2>. QED
    BY <1>0, <1>1, <2>1, TableMoves DEF WorkerStages, AsksFor
<1>2. ASSUME NEW w \in Workers, pc[w] = "terminal"
      PROVE  CanTransition(cur[w], Target(w))
  <2>1. cur[w] \in Tasks
    BY <1>2, OwnTask DEF Busy
  <2>2. stage[cur[w]] = Target(w) /\ Target(w) \in Ended
    BY <1>0, <1>2 DEF WorkerStages, AtEnd, Target, Ended
  <2>. QED
    BY <2>1, <2>2, TableMoves
<1>3. \A w \in Workers : ~Refused(w)
  BY <1>1 DEF Refused
<1>4. \A a \in Agents : ~EndPassKeyError(a)
  BY <1>0 DEF EndPassKeyError, Passes
<1>5. \A t \in Tasks : ~ResolveHold(t)
  BY <1>0 DEF ResolveHold, Unraced, Serial, Calm
<1>6. CountRaise => NothingHeld
  BY <1>0 DEF CountRaise, Unraced, Serial, EnvTypes
<1>7. \A a \in Agents : ~PassRaises(a)
  BY <1>0, <1>6 DEF PassRaises, Calm
<1>8. \A w \in Workers : ~HoldRaises(w)
  BY <1>0, <1>6 DEF HoldRaises, Calm, NotedHeld
<1>. QED
  BY <1>1, <1>2, <1>3, <1>4, <1>5, <1>7, <1>8

\* The steps of a worker on the task it has in hand.
OnTask(w) == ~TakeAndHold(w) /\ ~Take(w) /\ ~WorkerAware(w) /\ ~HoldRaises(w)

\* The late save of submit clears a result and moves nothing.
LEMMA SubmitSaves ==
  ASSUME Base, NEW t \in Tasks, SubmitAware(t)
  PROVE  /\ sub[t] = "aware" /\ LateSave(t)
         /\ sub' = [sub EXCEPT ![t] = "done"]
         /\ stored' = [stored EXCEPT ![t] = "none"]
         /\ UNCHANGED <<envVars, stage, count, receipts, finished, bootVars,
                        taskTables, askVars, waits, fut, agentVars>>
<1>1. StoreTypes
  BY DEF Base, TypeInv, TypeOK
<1>. QED
  BY <1>1 DEF SubmitAware, LateSave, Save, StoreTypes

\* The late save of a worker is of a held task, which has no result.
LEMMA WorkerSaves ==
  ASSUME Unraced, Base, NEW w \in Workers, WorkerAware(w)
  PROVE  /\ noted[w] \in held /\ noted[w] \in Tasks /\ cur[w] = NoTask
         /\ pc[w] = "aware" /\ Goto(w, "idle")
         /\ stage[noted[w]] = "queued" /\ stored' = [stored EXCEPT ![noted[w]] = "none"]
         /\ noted' = [noted EXCEPT ![w] = NoTask]
         /\ UNCHANGED <<envVars, stage, count, receipts, finished, bootVars,
                        taskTables, askVars, callVars, cur, outcome, todo, released,
                        resolves>>
<1>1. StoreTypes /\ MemoryTypes /\ IdleHand /\ NotedHeld /\ WaitingStages
  BY DEF Base, PlaceInv, TypeInv, TypeOK
<1>2. pc[w] = "aware" /\ cur[w] = NoTask /\ noted[w] \in held
  BY <1>1 DEF WorkerAware, IdleHand, NotedHeld
<1>3. noted[w] \in Tasks /\ stage[noted[w]] = "queued"
  BY <1>1, <1>2 DEF MemoryTypes, WaitingStages
<1>. QED
  BY <1>1, <1>2, <1>3 DEF WorkerAware, Save, StoreTypes

-----------------------------------------------------------------------------
(***************************************************************************)
(* The invariant, effect by effect.                                        *)
(***************************************************************************)

\* A task that was nowhere is put in the lane or in the held table.
LEMMA PutKeeps ==
  ASSUME Unraced, Base, NEW t \in Tasks,
         ~Queued(t), t \notin held, \A w \in Workers : cur[w] # t,
         up # "down", restoring' \subseteq restoring \ {t},
         stage' = [stage EXCEPT ![t] = "queued"],
         UNCHANGED <<up, paused, pc, cur, outcome, todo, released, noted>>,
         sub'[t] \in {"aware", "done"}, NothingHeld => sub'[t] = "done",
         \A u \in Tasks \ {t} : sub'[u] = sub[u],
         \/ ~NothingHeld /\ held' = held \cup {t} /\ UNCHANGED queue
         \/ UNCHANGED held /\ queue' = Append(queue, t)
  PROVE  PlaceInv'
<1>0. /\ StoreTypes /\ MemoryTypes /\ AgentTypes /\ Calm /\ QueueOnce
      /\ WorkerOnce /\ WorkerApart /\ HeldApart /\ Passes /\ WaitingStages
      /\ WorkerStages /\ NewBefore /\ IdleHand /\ NotedHeld /\ BootPlaces
  BY DEF Base, PlaceInv, TypeInv, TypeOK
<1>. USE <1>0
<1>1. /\ \A u \in Tasks : u \in held' => u \in held \/ u = t
      /\ held \subseteq held' /\ held' \subseteq Tasks
      /\ NothingHeld => held' = held
  BY DEF MemoryTypes
<1>2. QueueOnce' /\ \A u \in Tasks : /\ Queued(u) => Queued(u)'
                                     /\ Queued(u)' => Queued(u) \/ u = t
  BY LaneAppend, PlaceFrames DEF Queued, MemoryTypes
<1>3. Calm'
  BY <1>1 DEF Calm, NothingHeld
<1>4. WorkerOnce' /\ IdleHand'
  BY PlaceFrames
<1>5. WorkerApart'
  BY <1>1, <1>2, ConstantsAssumption DEF WorkerApart, AgentTypes, ConstantsAssumption
<1>6. HeldApart'
  <2>1. CASE held' = held \cup {t} /\ UNCHANGED queue
    BY <1>1, <2>1 DEF HeldApart, Queued, MemoryTypes
  <2>2. CASE UNCHANGED held /\ queue' = Append(queue, t)
    BY <1>2, <2>2 DEF HeldApart, MemoryTypes
  <2>. QED
    BY <2>1, <2>2
<1>7. Passes'
  BY <1>1, <1>2 DEF Passes, AgentTypes, MemoryTypes
<1>8. WaitingStages'
  BY <1>1, <1>2 DEF WaitingStages, StoreTypes
<1>9. WorkerStages'
  <2>1. \A w \in Workers : cur[w] # NoTask => stage'[cur[w]] = stage[cur[w]]
    BY DEF StoreTypes, AgentTypes
  <2>2. \A w \in Workers : pc[w] \in Busy => cur[w] # NoTask
    BY ConstantsAssumption DEF ConstantsAssumption, BusyHasTask, Base, TypeInv
  <2>3. {"plan", "execute", "run", "retry", "progress"} \cup AtEnd \subseteq Busy
    BY DEF Busy, AtEnd
  <2>. QED
    BY <2>1, <2>2, <2>3 DEF WorkerStages, Target
<1>10. NewBefore'
  BY DEF NewBefore, StoreTypes
<1>11. BootPlaces' /\ NotedHeld'
  BY <1>1, <1>2 DEF BootPlaces, StoreTypes, MemoryTypes, NotedHeld
<1>. QED
  BY <1>2, <1>3, <1>4, <1>5, <1>6, <1>7, <1>8, <1>9, <1>10, <1>11 DEF PlaceInv

\* A worker goes on with the task it has in hand, and changes no other.
LEMMA MoveKeeps ==
  ASSUME Unraced, Base, NEW w \in Workers, pc[w] \in Busy, pc[w] # "release",
         NEW l \in Busy, l # "release", Goto(w, l),
         \A t \in Tasks \ {cur[w]} : stage'[t] = stage[t],
         \A v \in Workers \ {w} : outcome'[v] = outcome[v],
         UNCHANGED <<up, paused, queue, held, cur, todo, released, noted, sub,
                     restoring>>,
         l = "execute" => stage'[cur[w]] = "planning",
         l = "run" => stage'[cur[w]] = "executing",
         l \in {"retry", "progress"} => stage'[cur[w]] = "recovering",
         l \in AtEnd => stage'[cur[w]] = Target(w)',
         l # "plan", stage'[cur[w]] # "new"
  PROVE  PlaceInv'
<1>0. /\ StoreTypes /\ MemoryTypes /\ AgentTypes /\ Calm /\ QueueOnce
      /\ WorkerOnce /\ WorkerApart /\ HeldApart /\ Passes /\ WaitingStages
      /\ WorkerStages /\ NewBefore /\ IdleHand /\ NotedHeld /\ BootPlaces
  BY DEF Base, PlaceInv, TypeInv, TypeOK
<1>. USE <1>0
<1>1. /\ cur[w] \in Tasks /\ cur[w] # NoTask
      /\ ~Queued(cur[w]) /\ cur[w] \notin held /\ stage[cur[w]] # "new"
      /\ \A v \in Workers : v # w /\ pc[v] # "release" => cur[v] # cur[w]
      /\ up = "up" /\ restoring = {}
  BY OwnTask
<1>2. pc' = [pc EXCEPT ![w] = l] /\ w \in Agents /\ Workers \subseteq Agents
  BY DEF Goto, Agents
<1>3. \A u \in Tasks : Queued(u)' <=> Queued(u)
  BY DEF Queued
<1>4. Calm' /\ QueueOnce' /\ HeldApart'
  BY PlaceFrames
<1>5. WorkerOnce' /\ WorkerApart'
  BY <1>1, <1>2, <1>3 DEF WorkerOnce, WorkerApart, AgentTypes
<1>6. Passes'
  BY <1>2, <1>3 DEF Passes, AgentTypes, MemoryTypes
<1>7. WaitingStages'
  BY <1>1, <1>3 DEF WaitingStages
<1>8. WorkerStages'
  <2>1. ASSUME NEW v \in Workers, v # w
        PROVE  /\ pc'[v] = pc[v] /\ Target(v)' = Target(v)
               /\ pc[v] # "release" /\ cur[v] # NoTask => stage'[cur[v]] = stage[cur[v]]
               /\ cur[v] # NoTask => stage'[cur[v]] # "new"
    BY <1>1, <1>2, <2>1 DEF AgentTypes, Target, WorkerStages
  <2>2. \A v \in Workers : pc[v] \in Busy => cur[v] # NoTask
    BY ConstantsAssumption DEF ConstantsAssumption, BusyHasTask, Base, TypeInv
  <2>3. {"plan", "execute", "run", "retry", "progress"} \cup AtEnd \subseteq Busy \ {"release"}
    BY DEF Busy, AtEnd
  <2>4. pc'[w] = l
    BY <1>2 DEF AgentTypes
  <2>5. ASSUME NEW v \in Workers
        PROVE  /\ pc'[v] = "plan" => stage'[cur[v]] = "queued"
               /\ pc'[v] = "execute" => stage'[cur[v]] = "planning"
               /\ pc'[v] = "run" => stage'[cur[v]] = "executing"
               /\ pc'[v] \in {"retry", "progress"} => stage'[cur[v]] = "recovering"
               /\ pc'[v] \in AtEnd => stage'[cur[v]] = Target(v)'
               /\ cur[v] # NoTask => stage'[cur[v]] # "new"
    BY <2>1, <2>2, <2>3, <2>4 DEF WorkerStages
  <2>. QED
    BY <2>5 DEF WorkerStages
<1>9. NewBefore'
  BY <1>1 DEF NewBefore
<1>10. IdleHand' /\ NotedHeld'
  <2>1. l \notin {"idle", "dead", "aware"}
    BY DEF Busy
  <2>. QED
    BY <1>2, <2>1 DEF IdleHand, NotedHeld, AgentTypes
<1>11. BootPlaces'
  BY <1>1 DEF BootPlaces
<1>. QED
  BY <1>4, <1>5, <1>6, <1>7, <1>8, <1>9, <1>10, <1>11 DEF PlaceInv

\* A worker lets go of the task it has in hand.
LEMMA LetGoKeeps ==
  ASSUME Unraced, Base, NEW w \in Workers, pc[w] # "release",
         NEW l \in {"idle", "dead"}, Goto(w, l), cur' = [cur EXCEPT ![w] = NoTask],
         UNCHANGED noted \/ noted' = [noted EXCEPT ![w] = NoTask],
         UNCHANGED <<up, paused, queue, held, todo, released, sub, restoring, stage,
                     outcome>>
  PROVE  PlaceInv'
<1>0. /\ StoreTypes /\ MemoryTypes /\ AgentTypes /\ Calm /\ QueueOnce
      /\ WorkerOnce /\ WorkerApart /\ HeldApart /\ Passes /\ WaitingStages
      /\ WorkerStages /\ NewBefore /\ IdleHand /\ NotedHeld /\ BootPlaces
  BY DEF Base, PlaceInv, TypeInv, TypeOK
<1>. USE <1>0
<1>1. pc' = [pc EXCEPT ![w] = l] /\ w \in Agents /\ Workers \subseteq Agents
  BY DEF Goto, Agents
<1>2. \A u : Queued(u)' <=> Queued(u)
  BY DEF Queued
<1>3. /\ Calm' /\ QueueOnce' /\ HeldApart' /\ WaitingStages' /\ NewBefore'
      /\ BootPlaces'
  BY PlaceFrames
<1>4. WorkerOnce' /\ WorkerApart'
  BY <1>1, <1>2 DEF WorkerOnce, WorkerApart, AgentTypes
<1>5. Passes'
  BY <1>1, <1>2 DEF Passes, AgentTypes
<1>6. WorkerStages'
  <2>1. \A v \in Workers \ {w} : pc'[v] = pc[v] /\ cur'[v] = cur[v]
    BY <1>1 DEF AgentTypes
  <2>2. pc'[w] = l /\ cur'[w] = NoTask
    BY <1>1 DEF AgentTypes
  <2>. QED
    BY <2>1, <2>2 DEF WorkerStages, AtEnd, Target
<1>7. IdleHand' /\ NotedHeld'
  BY <1>1 DEF IdleHand, NotedHeld, AgentTypes
<1>. QED
  BY <1>3, <1>4, <1>5, <1>6, <1>7 DEF PlaceInv

\* A worker takes the head of the lane, or holds it when there is a pause.
LEMMA TakeKeeps ==
  ASSUME Unraced, Base, NEW w \in Workers, TakeAndHold(w) \/ Take(w)
  PROVE  PlaceInv'
<1>0. /\ StoreTypes /\ MemoryTypes /\ AgentTypes /\ Calm /\ QueueOnce
      /\ WorkerOnce /\ WorkerApart /\ HeldApart /\ Passes /\ WaitingStages
      /\ WorkerStages /\ NewBefore /\ IdleHand /\ NotedHeld
      /\ BootPlaces /\ Booting
  BY DEF Base, PlaceInv, TypeInv, TypeOK, PromiseInv
<1>. USE <1>0
<1>1. /\ up = "up" /\ pc[w] = "idle" /\ queue # <<>> /\ queue' = Tail(queue)
      /\ UNCHANGED <<up, paused, sub, restoring, outcome, todo, released>>
    BY DEF TakeAndHold, HoldForPause, Take, envVars, bootVars, callVars, agentVars,
       passVars
<1>2. w \in Agents /\ Workers \subseteq Agents
  BY DEF Agents
<1>3. /\ \A t \in held : ~Queued(t)
      /\ \A b \in Agents : todo[b] = {} /\ released[b] = {}
  BY <1>1, <1>2, Solo
<1>. DEFINE h == Head(queue)
<1>4. /\ QueueOnce' /\ Queued(h) /\ h \in Tasks
      /\ \A u \in Tasks : Queued(u)' <=> Queued(u) /\ u # h
  BY <1>1, LaneTail DEF MemoryTypes
<1>. HIDE DEF h
<1>5. /\ h \notin held /\ stage[h] = "queued" /\ h # NoTask
      /\ \A v \in Workers : pc[v] # "release" => cur[v] # h
  BY <1>3, <1>4, ConstantsAssumption DEF WaitingStages, WorkerApart, ConstantsAssumption
<1>6. NewBefore' /\ BootPlaces'
  <2>1. UNCHANGED stage
    BY <1>4 DEF TakeAndHold, HoldForPause, Take, Save, h, storeVars, StoreTypes
  <2>2. restoring = {}
    BY <1>1 DEF Booting
  <2>. QED
    BY <1>1, <2>1, <2>2 DEF NewBefore, BootPlaces
<1>7. CASE TakeAndHold(w)
  <2>1. /\ held' = held \cup {h} /\ PauseHolds(h) /\ UNCHANGED <<stage, cur>>
        /\ pc' = [pc EXCEPT ![w] = "aware"] /\ noted' = [noted EXCEPT ![w] = h]
    <3>1. cur[w] = NoTask
      BY <1>1 DEF IdleHand
    <3>. QED
      BY <1>4, <1>7, <3>1 DEF TakeAndHold, HoldForPause, Goto, Save, h, StoreTypes,
         AgentTypes
  <2>1a. /\ pc'[w] = "aware" /\ noted'[w] = h /\ cur[w] = NoTask
         /\ \A v \in Agents \ {w} : pc'[v] = pc[v]
         /\ \A v \in Workers \ {w} : noted'[v] = noted[v]
    BY <1>1, <2>1 DEF AgentTypes, Agents, IdleHand
  <2>2. Calm'
    BY <1>4, <2>1, LetsThrough DEF Calm, NothingHeld
  <2>3. WorkerOnce' /\ IdleHand' /\ NotedHeld'
    BY <1>2, <2>1, <2>1a DEF WorkerOnce, IdleHand, NotedHeld
  <2>3a. WorkerStages'
    <3>1. "aware" \notin AtEnd
      BY DEF AtEnd
    <3>2. \A v : Target(v)' = Target(v)
      BY <1>1 DEF Target
    <3>. QED
      BY <1>2, <2>1, <2>1a, <3>1, <3>2 DEF WorkerStages
  <2>4. WorkerApart'
    BY <1>2, <1>4, <1>5, <2>1, <2>1a DEF WorkerApart, AgentTypes
  <2>5. HeldApart'
    BY <1>3, <1>4, <2>1 DEF HeldApart, MemoryTypes
  <2>6. Passes'
    BY <1>1, <1>3, <2>1, <2>1a DEF Passes
  <2>7. WaitingStages'
    BY <1>4, <1>5, <2>1 DEF WaitingStages
  <2>. QED
    BY <1>4, <1>6, <2>2, <2>3, <2>3a, <2>4, <2>5, <2>6, <2>7 DEF PlaceInv
<1>8. CASE Take(w)
  <2>1. /\ cur' = [cur EXCEPT ![w] = h] /\ pc' = [pc EXCEPT ![w] = "plan"]
        /\ UNCHANGED <<held, stage, noted>>
    BY <1>8 DEF Take, Goto, h, storeVars, passVars
  <2>2. /\ cur'[w] = h /\ pc'[w] = "plan"
        /\ \A v \in Workers \ {w} : cur'[v] = cur[v] /\ pc'[v] = pc[v]
    BY <1>2, <2>1 DEF AgentTypes
  <2>3. Calm'
    BY <1>1, <2>1, PlaceFrames
  <2>4. WorkerOnce'
    BY <1>5, <2>2 DEF WorkerOnce
  <2>5. WorkerApart'
    BY <1>4, <1>5, <2>1, <2>2 DEF WorkerApart, AgentTypes
  <2>6. HeldApart' /\ Passes'
    BY <1>1, <1>3, <1>4, <2>1 DEF HeldApart, Passes, MemoryTypes
  <2>7. WaitingStages'
    BY <1>4, <2>1 DEF WaitingStages
  <2>8. WorkerStages' /\ IdleHand' /\ NotedHeld'
    <3>1. \A v \in Workers \ {w} : Target(v)' = Target(v)
      BY <1>1 DEF Target
    <3>2. "plan" \notin AtEnd
      BY DEF AtEnd
    <3>3. WorkerStages'
      BY <1>5, <2>1, <2>2, <3>1, <3>2 DEF WorkerStages
    <3>4. IdleHand' /\ NotedHeld'
      BY <2>1, <2>2 DEF IdleHand, NotedHeld
    <3>. QED
      BY <3>3, <3>4
  <2>. QED
    BY <1>4, <1>6, <2>3, <2>4, <2>5, <2>6, <2>7, <2>8 DEF PlaceInv
<1>. QED
  BY <1>7, <1>8

\* A pass begins: after a requeue, after a publication, or by the heartbeat.
LEMMA BeginPassKeeps ==
  ASSUME Unraced, Base, NEW a \in Agents, pc[a] # "release",
         pc' = [pc EXCEPT ![a] = "release"],
         todo' = [todo EXCEPT ![a] = held], released' = [released EXCEPT ![a] = {}],
         UNCHANGED <<up, paused, held, cur, outcome, noted, sub, restoring>>,
         \/ UNCHANGED <<queue, stage>>
         \/ /\ a \in Workers /\ pc[a] \in Busy /\ queue' = Append(queue, cur[a])
            /\ stage' = [stage EXCEPT ![cur[a]] = "queued"]
  PROVE  PlaceInv'
<1>0. /\ StoreTypes /\ MemoryTypes /\ AgentTypes /\ Calm /\ QueueOnce
      /\ WorkerOnce /\ WorkerApart /\ HeldApart /\ Passes /\ WaitingStages
      /\ WorkerStages /\ NewBefore /\ IdleHand /\ NotedHeld
      /\ BootPlaces /\ Booting
  BY DEF Base, PlaceInv, TypeInv, TypeOK, PromiseInv
<1>. USE <1>0
<1>1. Workers \subseteq Agents
  BY DEF Agents
<1>2. /\ \A t \in held : ~Queued(t)
      /\ \A b \in Agents : todo[b] = {} /\ released[b] = {}
  BY Solo
<1>. DEFINE Back == a \in Workers /\ pc[a] \in Busy /\ queue' = Append(queue, cur[a])
                    /\ stage' = [stage EXCEPT ![cur[a]] = "queued"]
<1>3. Back => /\ cur[a] \in Tasks /\ cur[a] # NoTask
              /\ ~Queued(cur[a]) /\ cur[a] \notin held /\ stage[cur[a]] # "new"
              /\ \A v \in Workers : v # a /\ pc[v] # "release" => cur[v] # cur[a]
              /\ up = "up" /\ restoring = {}
  BY OwnTask
<1>4. \/ UNCHANGED <<queue, stage>> /\ QueueOnce' /\ \A u \in Tasks : Queued(u)' <=> Queued(u)
      \/ Back /\ QueueOnce' /\ \A u \in Tasks : Queued(u)' <=> Queued(u) \/ u = cur[a]
  BY <1>3, LaneAppend, PlaceFrames DEF Queued, MemoryTypes
<1>5. \A u \in Tasks : /\ Queued(u)' => Queued(u) \/ (Back /\ u = cur[a])
                       /\ Queued(u) => Queued(u)'
  BY <1>4
<1>6. \A u \in Tasks : stage'[u] # stage[u] => Back /\ u = cur[a] /\ stage'[u] = "queued"
  BY <1>3, <1>4 DEF StoreTypes
<1>7. Back => stage'[cur[a]] = "queued"
  BY <1>3 DEF StoreTypes
<1>8. QueueOnce'
  BY <1>4
<1>. HIDE DEF Back
<1>9. pc'[a] = "release" /\ \A v \in Agents \ {a} : pc'[v] = pc[v]
  BY DEF AgentTypes
<1>10. Calm'
  BY <1>2 DEF Calm, AgentTypes, NothingHeld
<1>11. WorkerOnce'
  BY <1>1, <1>9 DEF WorkerOnce
<1>12. WorkerApart'
  BY <1>1, <1>3, <1>5, <1>9 DEF WorkerApart, AgentTypes
<1>13. HeldApart'
  BY <1>2, <1>3, <1>5 DEF HeldApart, MemoryTypes
<1>14. Passes'
  <2>1. \A b \in Agents : /\ todo'[b] = IF b = a THEN held ELSE {}
                          /\ released'[b] = {}
    BY <1>2 DEF AgentTypes
  <2>2. \A t \in held : ~Queued(t)'
    BY <1>2, <1>3, <1>5 DEF MemoryTypes
  <2>. QED
    BY <1>9, <2>1, <2>2 DEF Passes
<1>15. WaitingStages'
  BY <1>5, <1>6, <1>7 DEF WaitingStages
<1>16. WorkerStages'
  <2>1. \A v \in Workers : pc[v] \in Busy => cur[v] # NoTask
    BY ConstantsAssumption DEF ConstantsAssumption, BusyHasTask, Base, TypeInv
  <2>2. {"plan", "execute", "run", "retry", "progress"} \cup AtEnd \subseteq Busy \ {"release"}
    BY DEF Busy, AtEnd
  <2>3. ASSUME NEW v \in Workers, v # a, cur[v] # NoTask, pc[v] # "release"
        PROVE  stage'[cur[v]] = stage[cur[v]]
    BY <1>3, <1>6, <2>3 DEF AgentTypes
  <2>4. \A v \in Workers : cur[v] # NoTask => stage'[cur[v]] # "new"
    BY <1>6 DEF WorkerStages, AgentTypes
  <2>5. ASSUME NEW v \in Workers
        PROVE  /\ pc'[v] = "plan" => stage'[cur[v]] = "queued"
               /\ pc'[v] = "execute" => stage'[cur[v]] = "planning"
               /\ pc'[v] = "run" => stage'[cur[v]] = "executing"
               /\ pc'[v] \in {"retry", "progress"} => stage'[cur[v]] = "recovering"
               /\ pc'[v] \in AtEnd => stage'[cur[v]] = Target(v)
    BY <1>1, <1>9, <2>1, <2>2, <2>3 DEF WorkerStages
  <2>6. \A v : Target(v)' = Target(v)
    BY DEF Target
  <2>. QED
    BY <2>4, <2>5, <2>6 DEF WorkerStages
<1>17. NewBefore'
  BY <1>3, <1>6 DEF NewBefore
<1>18. IdleHand' /\ NotedHeld'
  BY <1>1, <1>9 DEF IdleHand, NotedHeld
<1>19. BootPlaces'
  <2>1. Back => up = "up" /\ restoring = {}
    BY <1>3
  <2>2. CASE Back
    BY <2>1, <2>2 DEF BootPlaces
  <2>3. CASE ~Back
    BY <1>4, <2>3, PlaceFrames
  <2>. QED
    BY <2>2, <2>3
<1>. QED
  BY <1>8, <1>10, <1>11, <1>12, <1>13, <1>14, <1>15, <1>16, <1>17, <1>18, <1>19
  DEF PlaceInv

\* A requeue that finds the executive paused: the task is held instead.
LEMMA HoldAgainKeeps ==
  ASSUME Unraced, Base, NEW w \in Workers, Requeue(w), PauseHolds(cur[w])
  PROVE  PlaceInv'
<1>0. /\ StoreTypes /\ MemoryTypes /\ AgentTypes /\ Calm /\ QueueOnce
      /\ WorkerOnce /\ WorkerApart /\ HeldApart /\ Passes /\ WaitingStages
      /\ WorkerStages /\ NewBefore /\ IdleHand /\ NotedHeld /\ BootPlaces
  BY DEF Base, PlaceInv, TypeInv, TypeOK
<1>. USE <1>0
<1>1. pc[w] \in Busy /\ pc[w] # "release"
  BY DEF Requeue, Busy
<1>2. /\ cur[w] \in Tasks /\ cur[w] # NoTask
      /\ ~Queued(cur[w]) /\ cur[w] \notin held /\ stage[cur[w]] # "new"
      /\ \A v \in Workers : v # w /\ pc[v] # "release" => cur[v] # cur[w]
      /\ up = "up" /\ restoring = {}
  BY <1>1, OwnTask
<1>. DEFINE t == cur[w]
<1>3. /\ held' = held \cup {t} /\ UNCHANGED queue
      /\ cur' = [cur EXCEPT ![w] = NoTask] /\ pc' = [pc EXCEPT ![w] = "aware"]
      /\ stage' = [stage EXCEPT ![t] = "queued"] /\ noted' = [noted EXCEPT ![w] = t]
      /\ UNCHANGED <<up, paused, sub, restoring, outcome, todo, released>>
  BY DEF Requeue, HoldForPause, Goto, Save, envVars, bootVars, callVars, passVars
<1>4. t \in Tasks /\ ~Queued(t) /\ t \notin held /\ stage[t] # "new"
  BY <1>2
<1>5. /\ cur'[w] = NoTask /\ pc'[w] = "aware" /\ noted'[w] = t
      /\ \A v \in Workers \ {w} : noted'[v] = noted[v]
      /\ \A v \in Agents \ {w} : pc'[v] = pc[v]
      /\ \A v \in Workers \ {w} : cur'[v] = cur[v]
      /\ w \in Agents /\ Workers \subseteq Agents
  BY <1>3 DEF AgentTypes, Agents
<1>6. \A v \in Workers \ {w} : pc[v] # "release" => cur[v] # t
  BY <1>2
<1>7. \A u : Queued(u)' <=> Queued(u)
  BY <1>3 DEF Queued
<1>8. stage'[t] = "queued" /\ \A u \in Tasks \ {t} : stage'[u] = stage[u]
  BY <1>3, <1>4 DEF StoreTypes
<1>9. Calm'
  BY <1>3, <1>4, LetsThrough DEF Calm, NothingHeld
<1>. HIDE DEF t
<1>10. QueueOnce'
  BY <1>3, PlaceFrames
<1>11. WorkerOnce' /\ IdleHand' /\ NotedHeld'
  BY <1>3, <1>5 DEF WorkerOnce, IdleHand, NotedHeld
<1>12. WorkerApart'
  BY <1>3, <1>5, <1>6, <1>7 DEF WorkerApart
<1>13. HeldApart'
  BY <1>3, <1>4, <1>7 DEF HeldApart
<1>14. Passes'
  BY <1>1, <1>3, <1>5, <1>7 DEF Passes
<1>15. WaitingStages'
  BY <1>3, <1>7, <1>8 DEF WaitingStages
<1>16. WorkerStages'
  <2>1. \A v \in Workers : pc[v] \in Busy => cur[v] # NoTask
    BY ConstantsAssumption DEF ConstantsAssumption, BusyHasTask, Base, TypeInv
  <2>2. {"plan", "execute", "run", "retry", "progress"} \cup AtEnd \subseteq Busy \ {"release"}
    BY DEF Busy, AtEnd
  <2>3. \A v \in Workers \ {w} : (cur[v] # NoTask /\ pc[v] # "release") =>
                                  stage'[cur[v]] = stage[cur[v]]
    BY <1>6, <1>8 DEF AgentTypes
  <2>4. \A v \in Workers \ {w} : cur[v] # NoTask => stage'[cur[v]] # "new"
    BY <1>8 DEF WorkerStages, AgentTypes
  <2>5. \A v : Target(v)' = Target(v)
    BY <1>3 DEF Target
  <2>6. "aware" \notin AtEnd
    BY DEF AtEnd
  <2>. QED
    BY <1>5, <2>1, <2>2, <2>3, <2>4, <2>5, <2>6 DEF WorkerStages
<1>17. NewBefore'
  BY <1>3, <1>4, <1>8 DEF NewBefore
<1>18. BootPlaces'
  BY <1>2, <1>3 DEF BootPlaces
<1>. QED
  BY <1>9, <1>10, <1>11, <1>12, <1>13, <1>14, <1>15, <1>16, <1>17, <1>18 DEF PlaceInv

\* A pass looks at one held task: it leaves it held or puts it in the lane.
LEMMA ExamineKeeps ==
  ASSUME Unraced, Base, NEW a \in Agents, NEW t \in Tasks, ExamineHeld(a, t)
  PROVE  PlaceInv'
<1>0. /\ StoreTypes /\ MemoryTypes /\ AgentTypes /\ Calm /\ QueueOnce
      /\ WorkerOnce /\ WorkerApart /\ HeldApart /\ Passes /\ WaitingStages
      /\ WorkerStages /\ NewBefore /\ IdleHand /\ NotedHeld /\ BootPlaces
  BY DEF Base, PlaceInv, TypeInv, TypeOK
<1>. USE <1>0
<1>1. /\ pc[a] = "release" /\ t \in todo[a] /\ todo' = [todo EXCEPT ![a] = @ \ {t}]
      /\ UNCHANGED <<up, paused, held, pc, cur, outcome, noted, sub, restoring, stage>>
  BY DEF ExamineHeld, Save, envVars, bootVars, callVars, StoreTypes
<1>2. t \in held /\ ~Queued(t) /\ ~NothingHeld
  BY <1>1 DEF Passes, Calm
<1>3. \A b \in Agents : b = a
  BY <1>2 DEF Unraced, Serial
<1>4. /\ Calm' /\ WorkerOnce' /\ WorkerStages' /\ NewBefore' /\ IdleHand'
      /\ NotedHeld'
  BY <1>1, <1>2, PlaceFrames DEF Calm, NothingHeld
<1>5. todo'[a] = todo[a] \ {t}
  BY <1>1 DEF AgentTypes
<1>6. CASE UNCHANGED <<queue, released>>
  <2>1. \A u : Queued(u)' <=> Queued(u)
    BY <1>6 DEF Queued
  <2>2. Passes'
    BY <1>1, <1>3, <1>5, <1>6, <2>1 DEF Passes
  <2>. QED
    BY <1>1, <1>4, <1>6, <2>2, PlaceFrames DEF PlaceInv
<1>7. CASE /\ queue' = Append(queue, t)
           /\ released' = [released EXCEPT ![a] = @ \cup {t}]
  <2>1. QueueOnce' /\ \A u \in Tasks : Queued(u)' <=> Queued(u) \/ u = t
    BY <1>2, <1>7, LaneAppend DEF MemoryTypes
  <2>2. released'[a] = released[a] \cup {t}
    BY <1>7 DEF AgentTypes
  <2>3. WorkerApart'
    BY <1>1, <1>2, <2>1 DEF WorkerApart, AgentTypes
  <2>4. HeldApart'
    BY <1>1, <1>3, <2>1, <2>2 DEF HeldApart, MemoryTypes
  <2>5. Passes'
    BY <1>1, <1>2, <1>3, <1>5, <2>1, <2>2 DEF Passes, AgentTypes
  <2>6. WaitingStages'
    BY <1>1, <1>2, <2>1 DEF WaitingStages
  <2>7. BootPlaces'
    <3>1. \A u \in restoring : u \in Tasks /\ u # t
      BY <1>2 DEF BootPlaces, MemoryTypes
    <3>2. up # "down"
      BY <1>2 DEF BootPlaces
    <3>. QED
      BY <1>1, <2>1, <3>1, <3>2 DEF BootPlaces
  <2>. QED
    BY <1>4, <2>1, <2>3, <2>4, <2>5, <2>6, <2>7 DEF PlaceInv
<1>. QED
  BY <1>6, <1>7 DEF ExamineHeld

\* A pass ends: what it put in the lane leaves the held table.
LEMMA EndPassKeeps ==
  ASSUME Unraced, Base, NEW a \in Agents, EndPass(a)
  PROVE  PlaceInv'
<1>0. /\ StoreTypes /\ MemoryTypes /\ AgentTypes /\ Calm /\ QueueOnce
      /\ WorkerOnce /\ WorkerApart /\ HeldApart /\ Passes /\ WaitingStages
      /\ WorkerStages /\ NewBefore /\ IdleHand /\ NotedHeld /\ BootPlaces
  BY DEF Base, PlaceInv, TypeInv, TypeOK
<1>. USE <1>0
<1>1. /\ pc[a] = "release" /\ todo[a] = {} /\ held' = held \ released[a]
      /\ released' = [released EXCEPT ![a] = {}] /\ pc' = [pc EXCEPT ![a] = "idle"]
      /\ todo' = [todo EXCEPT ![a] = {}]
      /\ UNCHANGED <<up, paused, queue, outcome, noted, sub, restoring, stage>>
      /\ \/ a \in Workers /\ cur' = [cur EXCEPT ![a] = NoTask]
         \/ a \notin Workers /\ UNCHANGED cur
  BY DEF EndPass, ClearPass, Drop, Goto, envVars, bootVars, storeVars
<1>2. /\ pc'[a] = "idle" /\ released'[a] = {} /\ Workers \subseteq Agents
      /\ UNCHANGED todo
      /\ \A b \in Agents \ {a} : pc'[b] = pc[b] /\ released'[b] = released[b]
      /\ \A v \in Workers \ {a} : cur'[v] = cur[v]
      /\ a \in Workers => cur'[a] = NoTask
  BY <1>1 DEF AgentTypes, Agents
<1>3. \A u : Queued(u)' <=> Queued(u)
  BY <1>1 DEF Queued
<1>4. held' \subseteq held
  BY <1>1
<1>5. (\A b \in Agents : b = a) \/ (held = {} /\ \A b \in Agents : released[b] = {})
  BY DEF Unraced, Serial, Calm
<1>6. Calm'
  BY <1>1, <1>2 DEF Calm, NothingHeld
<1>7. QueueOnce' /\ NewBefore'
  BY <1>1, PlaceFrames
<1>8. WorkerOnce' /\ IdleHand' /\ NotedHeld'
  BY <1>1, <1>2, <1>5 DEF WorkerOnce, IdleHand, NotedHeld
<1>9. WorkerApart'
  BY <1>2, <1>3, <1>4 DEF WorkerApart
<1>10. HeldApart'
  BY <1>1, <1>2, <1>3, <1>5 DEF HeldApart
<1>11. Passes'
  BY <1>1, <1>2, <1>3, <1>5 DEF Passes
<1>12. WaitingStages' /\ BootPlaces'
  BY <1>1, <1>3, <1>4 DEF WaitingStages, BootPlaces
<1>13. WorkerStages'
  <2>1. \A v : Target(v)' = Target(v)
    BY <1>1 DEF Target
  <2>2. "idle" \notin AtEnd
    BY DEF AtEnd
  <2>. QED
    BY <1>1, <1>2, <2>1, <2>2 DEF WorkerStages
<1>. QED
  BY <1>6, <1>7, <1>8, <1>9, <1>10, <1>11, <1>12, <1>13 DEF PlaceInv

-----------------------------------------------------------------------------
(***************************************************************************)
(* The invariant, action by action.                                        *)
(***************************************************************************)

\* A task that is not submitted yet, or is to be restored, is nowhere.
LEMMA Nowhere ==
  ASSUME Unraced, Base, NEW t \in Tasks, 
         sub[t] \notin {"aware", "done"} \/ t \in restoring
  PROVE  /\ ~Queued(t) /\ t \notin held /\ \A w \in Workers : cur[w] # t
         /\ up # "down"  \/ sub[t] = "idle"
         /\ sub[t] \notin {"aware", "done"} => stage[t] = "new" /\ t \notin restoring
<1>1. /\ WaitingStages /\ WorkerStages /\ NewBefore /\ IdleHand /\ BootPlaces
      /\ Booting
  BY DEF Base, PlaceInv, PromiseInv
<1>2. t # NoTask
  BY ConstantsAssumption DEF ConstantsAssumption
<1>3. CASE sub[t] \notin {"aware", "done"}
  BY <1>1, <1>2, <1>3 DEF WaitingStages, WorkerStages, NewBefore, BootPlaces, Booting
<1>4. CASE t \in restoring
  <2>1. up = "starting" /\ \A w \in Workers : cur[w] = NoTask
    BY <1>1, <1>4 DEF Booting, IdleHand
  <2>2. ~Queued(t) /\ t \notin held /\ stage[t] # "new"
    BY <1>1, <1>4 DEF BootPlaces
  <2>. QED
    BY <1>1, <1>2, <2>1, <2>2 DEF NewBefore
<1>. QED
  BY <1>3, <1>4

\* Submitting keeps tasks in one place.
LEMMA SubmitPlace ==
  ASSUME Unraced, Base, NEW t \in Tasks,
         \/ SubmitLiveDuplicate(t) \/ SubmitRecentDuplicate(t) \/ SubmitFresh(t)
         \/ SubmitOnward(t)
  PROVE  PlaceInv'
<1>0. StoreTypes /\ CallTypes /\ Calm /\ NewBefore /\ PlaceInv
  BY DEF Base, PlaceInv, TypeInv, TypeOK
<1>. USE <1>0
<1>0a. CASE SubmitAware(t)
  <2>1. /\ UNCHANGED <<up, paused, queue, held, pc, cur, outcome, todo, released, noted,
                       restoring, stage>>
        /\ sub' = [sub EXCEPT ![t] = "done"] /\ sub[t] = "aware"
    BY <1>0a, SubmitSaves DEF envVars, bootVars, taskTables, agentVars, passVars
  <2>2. Calm' /\ NewBefore'
    BY <2>1 DEF Calm, NothingHeld, NewBefore, CallTypes
  <2>. QED
    BY <2>1, <2>2, PlaceFrames DEF PlaceInv
<1>. SUFFICES ASSUME ~SubmitAware(t) PROVE PlaceInv'
  BY <1>0a
<1>1. /\ sub[t] \notin {"aware", "done"}
      /\ UNCHANGED <<up, paused, pc, cur, outcome, todo, released, noted, restoring>>
  BY DEF SubmitLiveDuplicate, SubmitRecentDuplicate, SubmitFresh, SubmitOnward,
     SubmitCheckDependencies, SubmitHold, SubmitAware, SubmitEnqueue, envVars, bootVars,
     agentVars, passVars
<1>2. /\ ~Queued(t) /\ t \notin held /\ \A w \in Workers : cur[w] # t
      /\ t \notin restoring /\ stage[t] = "new"
  BY <1>1, Nowhere
<1>3. \A u \in Tasks \ {t} : sub'[u] = sub[u]
  BY DEF SubmitLiveDuplicate, SubmitRecentDuplicate, SubmitFresh, SubmitOnward,
     SubmitCheckDependencies, SubmitHold, SubmitAware, SubmitEnqueue, CallTypes
<1>4. ASSUME UNCHANGED <<stage, queue, held>>, 
             NothingHeld => sub'[t] \notin {"hold", "aware"}
      PROVE  PlaceInv'
  <2>1. Calm'
    BY <1>1, <1>3, <1>4 DEF Calm, NothingHeld
  <2>2. NewBefore'
    BY <1>2, <1>3, <1>4 DEF NewBefore
  <2>. QED
    BY <1>1, <1>4, <2>1, <2>2, PlaceFrames DEF PlaceInv
<1>5. ASSUME sub'[t] \in {"aware", "done"}, NothingHeld => sub'[t] = "done",
            stage' = [stage EXCEPT ![t] = "queued"],
            \/ ~NothingHeld /\ held' = held \cup {t} /\ UNCHANGED queue
            \/ UNCHANGED held /\ queue' = Append(queue, t)
      PROVE  PlaceInv'
  <2>1. up # "down"
    <3>1. sub[t] = "idle" => up # "down"
      BY DEF SubmitLiveDuplicate, SubmitRecentDuplicate, SubmitFresh, SubmitOnward,
         SubmitCheckDependencies, SubmitHold, SubmitAware, SubmitEnqueue
    <3>. QED
      BY <1>1, <3>1, Nowhere
  <2>2. restoring' \subseteq restoring \ {t}
    BY <1>1, <1>2
  <2>. QED
    BY <1>1, <1>2, <1>3, <1>5, <2>1, <2>2, PutKeeps
<1>6. CASE SubmitLiveDuplicate(t) \/ SubmitRecentDuplicate(t)
  BY <1>4, <1>6 DEF SubmitLiveDuplicate, SubmitRecentDuplicate, storeVars, taskTables,
     CallTypes
<1>7. CASE SubmitFresh(t)
  <2>1. CASE GuardHolds(t) \/ PauseHolds(t)
    BY <1>5, <1>7, <2>1, LetsThrough DEF SubmitFresh, Hold, Save, CallTypes
  <2>2. CASE ~(GuardHolds(t) \/ PauseHolds(t))
    BY <1>4, <1>7, <2>2 DEF SubmitFresh, taskTables, CallTypes
  <2>. QED
    BY <2>1, <2>2
<1>8. CASE SubmitCheckDependencies(t)
  BY <1>4, <1>8, LetsThrough DEF SubmitCheckDependencies, storeVars, taskTables,
     CallTypes
<1>9. CASE SubmitHold(t)
  BY <1>5, <1>9 DEF SubmitHold, Hold, Save, CallTypes, Calm
<1>10. CASE SubmitEnqueue(t)
  BY <1>5, <1>10 DEF SubmitEnqueue, Enqueue, Save, CallTypes
<1>. QED
  BY <1>6, <1>7, <1>8, <1>9, <1>10 DEF SubmitOnward

\* So does a step of a worker: what it takes leaves the lane, what it requeues left its hands.
LEMMA WorkerPlace ==
  ASSUME Unraced, Base, NEW w \in Workers, WorkerStep(w)
  PROVE  PlaceInv'
<1>0. StoreTypes /\ AgentTypes /\ WorkerStages
  BY DEF Base, PlaceInv, TypeInv, TypeOK
<1>. USE <1>0
<1>1. ASSUME OnTask(w)
      PROVE  /\ pc[w] \in Busy /\ pc[w] # "release" /\ cur[w] \in Tasks
             /\ cur[w] \notin held /\ stage[cur[w]] # "new"
  <2>1. pc[w] \in Busy /\ pc[w] # "release"
    BY <1>1 DEF WorkerStep, OnTask, Plan, Begin, Refused, RunDone, RunFail, RunRetry,
       RunProgress, RunEnd, Raise, Exhaust, Requeue, Retire, Record, Receipt, Publish,
       HandleException, PublishException, WorkerDies, Busy
  <2>. QED
    BY <2>1, OwnTask
<1>2. CASE TakeAndHold(w) \/ Take(w)
  BY <1>2, TakeKeeps
<1>2a. CASE WorkerAware(w)
  <2>1. cur' = [cur EXCEPT ![w] = NoTask]
    BY <1>2a, WorkerSaves DEF AgentTypes
  <2>2. pc[w] = "aware" /\ Goto(w, "idle") /\ noted' = [noted EXCEPT ![w] = NoTask]
    BY <1>2a, WorkerSaves
  <2>3. UNCHANGED <<up, paused, queue, held, stage, outcome, todo, released, sub,
                    restoring>>
    BY <1>2a, WorkerSaves DEF WorkerAware, Save, envVars, bootVars, taskTables, callVars,
       StoreTypes
  <2>. QED
    BY <2>1, <2>2, <2>3, LetGoKeeps
<1>3. ASSUME OnTask(w), NEW l \in Busy, l # "release", Goto(w, l),
             \A t \in Tasks \ {cur[w]} : stage'[t] = stage[t],
             \A v \in Workers \ {w} : outcome'[v] = outcome[v],
             UNCHANGED <<up, paused, queue, held, cur, todo, released, noted, sub,
                         restoring>>,
             l = "execute" => stage'[cur[w]] = "planning",
             l = "run" => stage'[cur[w]] = "executing",
             l \in {"retry", "progress"} => stage'[cur[w]] = "recovering",
             l \in AtEnd => stage'[cur[w]] = Target(w)',
             l # "plan", stage'[cur[w]] # "new"
      PROVE  PlaceInv'
  BY <1>1, <1>3, MoveKeeps
<1>. USE DEF envVars, bootVars, storeVars, taskTables, callVars, agentVars, passVars
<1>4. CASE Plan(w) /\ OnTask(w)
  <2>1. "execute" \in Busy /\ "execute" \notin AtEnd
    BY DEF Busy, AtEnd
  <2>2. Save(cur[w], "planning") /\ Goto(w, "execute") /\ UNCHANGED <<cur, outcome>>
    BY <1>1, <1>4 DEF Plan
  <2>3. stage'[cur[w]] = "planning" /\ \A t \in Tasks \ {cur[w]} : stage'[t] = stage[t]
    BY <1>1, <1>4, <2>2 DEF Save, StoreTypes
  <2>. QED
    BY <1>3, <1>4, <2>1, <2>2, <2>3 DEF Plan
<1>5. CASE Begin(w) /\ OnTask(w)
  <2>1. "run" \in Busy /\ "run" \notin AtEnd
    BY DEF Busy, AtEnd
  <2>2. Save(cur[w], "executing") /\ Goto(w, "run") /\ UNCHANGED <<cur, outcome>>
    BY <1>1, <1>5 DEF Begin
  <2>3. stage'[cur[w]] = "executing" /\ \A t \in Tasks \ {cur[w]} : stage'[t] = stage[t]
    BY <1>1, <1>5, <2>2 DEF Save, StoreTypes
  <2>. QED
    BY <1>3, <1>5, <2>1, <2>2, <2>3 DEF Begin
<1>6. ASSUME OnTask(w), NEW s, NEW l, NEW v, RunEnd(w, s, l, v),
             s # "new", l \in {"terminal", "retry", "progress"},
             l = "terminal" => s = IF v = "ok" THEN "done" ELSE "failed",
             l # "terminal" => s = "recovering"
      PROVE  PlaceInv'
  <2>1. {"terminal", "retry", "progress"} \subseteq Busy
    BY DEF Busy
  <2>2. stage'[cur[w]] = s /\ \A t \in Tasks \ {cur[w]} : stage'[t] = stage[t]
    BY <1>1, <1>6 DEF RunEnd, Save, StoreTypes
  <2>3. outcome'[w] = v /\ \A u \in Workers \ {w} : outcome'[u] = outcome[u]
    BY <1>6 DEF RunEnd, AgentTypes
  <2>4. l # "terminal" => l \notin AtEnd
    BY <1>6 DEF AtEnd
  <2>. QED
    BY <1>3, <1>6, <2>1, <2>2, <2>3, <2>4 DEF RunEnd, Target
<1>7. CASE RunDone(w) \/ RunFail(w) \/ RunRetry(w) \/ RunProgress(w)
  <2>1. OnTask(w)
    BY <1>7 DEF RunDone, RunFail, RunRetry, RunProgress, RunEnd, TakeAndHold, Take, OnTask,
       WorkerAware, HoldRaises
  <2>. QED
    BY <1>6, <1>7, <2>1 DEF RunDone, RunFail, RunRetry, RunProgress
<1>8. CASE Raise(w) /\ OnTask(w)
  <2>1. "except" \in Busy /\ "except" \notin AtEnd
    BY DEF Busy, AtEnd
  <2>. QED
    BY <1>1, <1>3, <1>8, <2>1 DEF Raise
<1>9. CASE Exhaust(w) /\ OnTask(w)
  <2>1. "terminal" \in Busy
    BY DEF Busy
  <2>2. stage'[cur[w]] = "failed" /\ \A t \in Tasks \ {cur[w]} : stage'[t] = stage[t]
    BY <1>1, <1>9 DEF Exhaust, Save, StoreTypes
  <2>3. outcome'[w] = "fail" /\ \A v \in Workers \ {w} : outcome'[v] = outcome[v]
    BY <1>9 DEF Exhaust, AgentTypes
  <2>. QED
    BY <1>3, <1>9, <2>1, <2>2, <2>3 DEF Exhaust, Target
<1>10. CASE Requeue(w) /\ OnTask(w)
  <2>1. CASE PauseHolds(cur[w])
    BY <1>10, <2>1, HoldAgainKeeps
  <2>2. CASE ~PauseHolds(cur[w])
    <3>1. w \in Agents
      BY DEF Agents
    <3>2. StartPass(w, {}) /\ queue' = Append(queue, cur[w]) /\ Save(cur[w], "queued")
      BY <1>10, <2>2 DEF Requeue
    <3>3. UNCHANGED <<up, paused, held, cur, outcome, noted, sub, restoring>>
      BY <1>10, <2>2 DEF Requeue, StartPass
    <3>. QED
      BY <1>1, <1>10, <3>1, <3>2, <3>3, BeginPassKeeps DEF StartPass, Goto, Save
  <2>. QED
    BY <2>1, <2>2
<1>11. CASE Retire(w) /\ OnTask(w)
  <2>1. "record" \in Busy /\ "record" \in AtEnd /\ "terminal" \in AtEnd
    BY DEF Busy, AtEnd
  <2>2. pc[w] = "terminal" /\ stage[cur[w]] = Target(w)
    BY <1>11, <2>1 DEF Retire, WorkerStages
  <2>3. stage'[cur[w]] = Target(w) /\ \A t \in Tasks \ {cur[w]} : stage'[t] = stage[t]
    BY <1>1, <1>11, <2>2 DEF Retire, Save, StoreTypes
  <2>4. CASE Goto(w, "record")
    BY <1>3, <1>11, <2>1, <2>2, <2>3, <2>4 DEF Retire, Target
  <2>5. CASE Goto(w, "except")
    <3>1. "except" \in Busy /\ "except" \notin AtEnd
      BY DEF Busy, AtEnd
    <3>2. stage'[cur[w]] # "new"
      BY <2>3 DEF Target
    <3>. QED
      BY <1>3, <1>11, <2>3, <2>5, <3>1, <3>2 DEF Retire
  <2>. QED
    BY <1>11, <2>4, <2>5 DEF Retire
<1>12. CASE (Record(w) \/ Receipt(w)) /\ OnTask(w)
  <2>1. PICK l \in {"receipt", "xreceipt", "publish", "xpublish"} : Goto(w, l)
    BY <1>12 DEF Record, Receipt
  <2>2. l \in Busy /\ l \in AtEnd /\ pc[w] \in AtEnd
    BY <1>12 DEF Busy, AtEnd, Record, Receipt
  <2>3. stage[cur[w]] = Target(w)
    BY <2>2 DEF WorkerStages
  <2>4. stage'[cur[w]] = Target(w) /\ \A t \in Tasks \ {cur[w]} : stage'[t] = stage[t]
    BY <1>1, <1>12, <2>3 DEF Record, Receipt, SaveResult, Target, StoreTypes
  <2>. QED
    BY <1>3, <1>12, <2>1, <2>2, <2>4 DEF Record, Receipt, Target
<1>13. CASE Publish(w) /\ OnTask(w)
  <2>1. w \in Agents
    BY DEF Agents
  <2>. QED
    BY <1>1, <1>13, <2>1, BeginPassKeeps DEF Publish, StartPass, Goto
<1>14. CASE HandleException(w) /\ OnTask(w)
  <2>1. "xrecord" \in Busy
    BY DEF Busy
  <2>2. stage'[cur[w]] = "failed" /\ \A t \in Tasks \ {cur[w]} : stage'[t] = stage[t]
    BY <1>1, <1>14 DEF HandleException, Save, StoreTypes
  <2>3. outcome'[w] = "fail" /\ \A v \in Workers \ {w} : outcome'[v] = outcome[v]
    BY <1>14 DEF HandleException, AgentTypes
  <2>. QED
    BY <1>3, <1>14, <2>1, <2>2, <2>3 DEF HandleException, Target
<1>15. CASE (PublishException(w) \/ WorkerDies(w)) /\ OnTask(w)
  <2>1. PICK l \in {"idle", "dead"} : Goto(w, l) /\ cur' = [cur EXCEPT ![w] = NoTask]
    BY <1>15 DEF PublishException, WorkerDies, Drop
  <2>. QED
    BY <1>1, <1>15, <2>1, LetGoKeeps DEF PublishException, WorkerDies
<1>. QED
  BY <1>2, <1>2a, <1>4, <1>5, <1>7, <1>8, <1>9, <1>10, <1>11, <1>12, <1>13, <1>14,
     <1>15, Excluded DEF WorkerStep, OnTask

\* So does a release pass, of which there is one at a time.
LEMMA PassPlace ==
  ASSUME Unraced, Base, NEW a \in Agents,
         PassStep(a) \/ (a \in Heartbeats /\ HeartbeatStart(a))
  PROVE  PlaceInv'
<1>1. CASE HeartbeatStart(a)
  BY <1>1, BeginPassKeeps DEF HeartbeatStart, StartPass, Goto, envVars, bootVars,
     storeVars, taskTables, callVars
<1>2. ~EndPassKeyError(a) /\ ~PassRaises(a)
  BY Excluded
<1>. QED
  BY <1>1, <1>2, ExamineKeeps, EndPassKeeps DEF PassStep

\* So do a crash, a restart and the environment.
LEMMA OutsidePlace ==
  ASSUME Unraced, Base, BootStep \/ Environment
  PROVE  PlaceInv'
<1>0. /\ StoreTypes /\ MemoryTypes /\ CallTypes /\ AgentTypes /\ Calm /\ QueueOnce
      /\ WorkerOnce /\ WorkerApart /\ HeldApart /\ Passes /\ WaitingStages
      /\ WorkerStages /\ NewBefore /\ IdleHand /\ NotedHeld
      /\ BootPlaces /\ Booting
      /\ RestoringApart /\ EnvTypes
  BY DEF Base, PlaceInv, TypeInv, TypeOK, PromiseInv
<1>. USE <1>0
<1>1. CASE Crash
  <2>1. /\ up' = "down" /\ restoring' = {} /\ queue' = <<>> /\ held' = {}
        /\ UNCHANGED <<stage, paused>>
        /\ sub' = [t \in Tasks |-> IF sub[t] = "idle" THEN "idle" ELSE "done"]
        /\ pc' = [a \in Agents |-> "idle"]
        /\ cur' = [w \in Workers |-> NoTask]
        /\ todo' = [a \in Agents |-> {}]
        /\ released' = [a \in Agents |-> {}]
    BY <1>1 DEF Crash, storeVars, envVars
  <2>2. Calm' /\ QueueOnce' /\ WorkerOnce' /\ WorkerApart' /\ HeldApart' /\ Passes'
    BY <2>1 DEF Calm, NothingHeld, QueueOnce, WorkerOnce, WorkerApart, HeldApart, Passes
  <2>3. WaitingStages' /\ BootPlaces'
    BY <2>1 DEF WaitingStages, BootPlaces, Queued
  <2>4. WorkerStages'
    BY <2>1 DEF WorkerStages, AtEnd, Agents
  <2>5. NewBefore' /\ IdleHand' /\ NotedHeld'
    BY <2>1 DEF NewBefore, IdleHand, NotedHeld, Agents
  <2>. QED
    BY <2>2, <2>3, <2>4, <2>5 DEF PlaceInv
<1>2. CASE Start
  <2>1. /\ up = "down" /\ up' = "starting" /\ restoring' \subseteq Pending
        /\ UNCHANGED <<stage, queue, held, sub, pc, cur, outcome, todo, released, noted,
                       paused>>
    BY <1>2 DEF Start, storeVars, envVars, callVars, agentVars, passVars
  <2>2. BootPlaces'
    BY <2>1 DEF BootPlaces, Queued, Pending, Ended
  <2>. QED
    BY <2>1, <2>2, PlaceFrames DEF PlaceInv
<1>3. ASSUME NEW t \in Tasks, Restore(t)
      PROVE  PlaceInv'
  <2>1. t \in restoring /\ sub[t] \in {"aware", "done"} /\ up = "starting"
    BY <1>3, Nowhere DEF Restore
  <2>1a. NothingHeld => sub[t] = "done"
    BY <2>1 DEF Calm
  <2>2. /\ UNCHANGED <<up, paused, sub, pc, cur, outcome, todo, released, noted>>
        /\ restoring' = restoring \ {t} /\ stage' = [stage EXCEPT ![t] = "queued"]
    BY <1>3 DEF Restore, Save, envVars, agentVars, passVars
  <2>3. \/ ~NothingHeld /\ held' = held \cup {t} /\ UNCHANGED queue
        \/ UNCHANGED held /\ queue' = Append(queue, t)
    BY <1>3, LetsThrough DEF Restore, Hold, Enqueue
  <2>. QED
    BY <2>1, <2>1a, <2>2, <2>3, Nowhere, PutKeeps
<1>4. CASE Started
  <2>1. /\ up' = "up" /\ restoring = {} /\ restoring' = {}
        /\ UNCHANGED <<stage, queue, held, sub, pc, cur, outcome, todo, released, noted,
                       paused>>
    BY <1>4 DEF Started, storeVars, envVars, callVars, agentVars, passVars, taskTables
  <2>2. BootPlaces'
    BY <2>1 DEF BootPlaces
  <2>. QED
    BY <2>1, <2>2, PlaceFrames DEF PlaceInv
<1>5. CASE Pause
  <2>1. ~NothingHeld
    BY <1>5 DEF Pause, NothingHeld, EnvTypes
  <2>2. UNCHANGED <<up, restoring, stage, queue, held, sub, pc, cur, outcome, todo,
                    released, noted>>
    BY <1>5 DEF Pause, storeVars, bootVars, callVars, agentVars, passVars, taskTables
  <2>3. Calm'
    BY <2>1 DEF Calm, NothingHeld
  <2>. QED
    BY <2>2, <2>3, PlaceFrames DEF PlaceInv
<1>6. CASE \/ Unpause \/ (\E t \in Tasks : Accept(t))
           \/ (\E x \in Works : WorkReady(x)) \/ \E k \in Keys : Expire(k)
  <2>1. /\ UNCHANGED <<up, restoring, stage, queue, held, sub, pc, cur, outcome, todo,
                       released, noted>>
        /\ UNCHANGED paused \/ paused' = FALSE
    BY <1>6 DEF Unpause, Accept, WorkReady, Expire, storeVars, bootVars, callVars,
       agentVars, passVars, taskTables, envVars
  <2>2. Calm'
    BY <2>1 DEF Calm, NothingHeld
  <2>. QED
    BY <2>1, <2>2, PlaceFrames DEF PlaceInv
<1>. QED
  BY <1>1, <1>2, <1>3, <1>4, <1>5, <1>6, Excluded DEF BootStep, Environment

\* Tasks have one place at most, always.
LEMMA PlaceInvHolds == ASSUME Unraced PROVE Spec => []PlaceInv
<1>1. Init => PlaceInv
  <2>. SUFFICES ASSUME Init PROVE PlaceInv
    OBVIOUS
  <2>1. /\ queue = <<>> /\ held = {} /\ paused = FALSE /\ up = "up" /\ restoring = {}
        /\ stage = [t \in Tasks |-> "new"] /\ sub = [t \in Tasks |-> "idle"]
        /\ pc = [a \in Agents |-> "idle"] /\ cur = [w \in Workers |-> NoTask]
        /\ todo = [a \in Agents |-> {}] /\ released = [a \in Agents |-> {}]
    BY DEF Init
  <2>2. Calm /\ QueueOnce /\ WorkerOnce /\ WorkerApart /\ HeldApart /\ Passes
    BY <2>1 DEF Calm, QueueOnce, WorkerOnce, WorkerApart, HeldApart, Passes
  <2>3. WaitingStages /\ BootPlaces
    BY <2>1 DEF WaitingStages, BootPlaces, Queued
  <2>4. WorkerStages
    BY <2>1 DEF WorkerStages, AtEnd, Agents
  <2>5. NewBefore /\ IdleHand /\ NotedHeld
    BY <2>1 DEF NewBefore, IdleHand, NotedHeld, Agents
  <2>. QED
    BY <2>2, <2>3, <2>4, <2>5 DEF PlaceInv
<1>2. Base /\ [Next]_vars => PlaceInv'
  <2>1. ASSUME Base, Next
        PROVE  PlaceInv'
    BY <2>1, SubmitPlace, WorkerPlace, PassPlace, OutsidePlace DEF Next, Agents
  <2>2. ASSUME Base, UNCHANGED vars
        PROVE  PlaceInv'
    BY <2>2, PlaceFrames DEF vars, storeVars, bootVars, taskTables, envVars, callVars,
       agentVars, passVars, Base, PlaceInv
  <2>. QED
    BY <2>1, <2>2
<1>3. Spec => []TypeInv
  BY TypeCorrect, PTL DEF TypeInv
<1>. QED
  BY <1>1, <1>2, <1>3, PromiseInvHolds, PTL DEF Spec, Base

\* The invariants that the following arguments start from.
LEMMA BaseHolds == ASSUME Unraced PROVE Spec => []Base
<1>1. Spec => []TypeInv
  BY TypeCorrect, PTL DEF TypeInv
<1>. QED
  BY <1>1, PromiseInvHolds, PlaceInvHolds, PTL DEF Base

-----------------------------------------------------------------------------
(***************************************************************************)
(* One place per task.                                                     *)
(***************************************************************************)

\* A set with at most one element has at most cardinality one.
LEMMA AtMostOne ==
  ASSUME NEW S, \A x, y \in S : x = y
  PROVE  Cardinality(S) \in {0, 1} /\ (Cardinality(S) = 1 => S # {})
<1>1. CASE S = {}
  BY <1>1, FS_EmptySet
<1>2. CASE S # {}
  <2>1. PICK x : S = {x}
    BY <1>2
  <2>. QED
    BY <2>1, FS_Singleton
<1>. QED
  BY <1>1, <1>2

\* One place at most, counted: a task is in the lane or with a worker once.
LEMMA OneCopy == ASSUME Unraced, Base PROVE AtMostOneCopy
<1>0. QueueOnce /\ WorkerOnce /\ WorkerApart
  BY DEF Base, PlaceInv
<1>. SUFFICES ASSUME NEW t \in Tasks
              PROVE  Cardinality(InQueue(t)) + Cardinality(AtWorker(t)) <= 1
  BY DEF AtMostOneCopy
<1>1. t # NoTask
  BY ConstantsAssumption DEF ConstantsAssumption
<1>2. \A i, j \in InQueue(t) : i = j
  BY <1>0 DEF InQueue, QueueOnce
<1>3. \A v, w \in AtWorker(t) : v = w
  BY <1>0, <1>1 DEF AtWorker, WorkerOnce
<1>4. InQueue(t) = {} \/ AtWorker(t) = {}
  BY <1>0, <1>1 DEF InQueue, AtWorker, WorkerApart, Queued
<1>. HIDE DEF InQueue, AtWorker
<1>5. /\ Cardinality(InQueue(t)) \in {0, 1}
      /\ Cardinality(InQueue(t)) = 1 => InQueue(t) # {}
      /\ Cardinality(AtWorker(t)) \in {0, 1}
      /\ Cardinality(AtWorker(t)) = 1 => AtWorker(t) # {}
  BY <1>2, <1>3, AtMostOne
<1>. QED
  BY <1>4, <1>5

\* No step loses an unfinished task, if no worker dies and a restart reads
\* the whole table.
Kept == /\ "handler" \notin Faults
        /\ IsFiniteSet(Tasks) /\ Cardinality(Tasks) <= RestoreLimit

\* No unfinished task is lost by a submission.
LEMMA SubmitSurvives ==
  ASSUME Unraced, Base, Survives, NEW t \in Tasks,
         \/ SubmitLiveDuplicate(t) \/ SubmitRecentDuplicate(t) \/ SubmitFresh(t)
         \/ SubmitOnward(t)
  PROVE  Survives'
<1>0. StoreTypes /\ MemoryTypes /\ QueueOnce
  BY DEF Base, PlaceInv, TypeInv, TypeOK
<1>. USE <1>0
<1>0a. CASE SubmitAware(t)
  BY <1>0a, SubmitSaves DEF Survives, Pending, Placed, Queued, bootVars, taskTables,
     agentVars
<1>. SUFFICES ASSUME ~SubmitAware(t) PROVE Survives'
  BY <1>0a
<1>1. sub[t] \notin {"aware", "done"} /\ UNCHANGED <<up, restoring, pc, cur>>
  BY DEF SubmitLiveDuplicate, SubmitRecentDuplicate, SubmitFresh, SubmitOnward,
     SubmitCheckDependencies, SubmitHold, SubmitAware, SubmitEnqueue, bootVars, agentVars
<1>2. ~Queued(t) /\ stage[t] = "new"
  BY <1>1, Nowhere
<1>3. \/ UNCHANGED <<stage, queue, held>>
      \/ /\ stage' = [stage EXCEPT ![t] = "queued"]
         /\ \/ held' = held \cup {t} /\ UNCHANGED queue
            \/ UNCHANGED held /\ queue' = Append(queue, t)
  BY DEF SubmitLiveDuplicate, SubmitRecentDuplicate, SubmitFresh, SubmitOnward,
     SubmitCheckDependencies, SubmitHold, SubmitAware, SubmitEnqueue, Hold, Enqueue, Save,
     storeVars, taskTables
<1>4. \A u \in Tasks : Queued(u) => Queued(u)'
  BY <1>2, <1>3, LaneAppend DEF Queued, MemoryTypes
<1>5. held \subseteq held' /\ \A u \in Tasks \ {t} : stage'[u] = stage[u]
  BY <1>3 DEF StoreTypes
<1>6. stage'[t] = "new" \/ Queued(t)' \/ t \in held'
  BY <1>2, <1>3, LaneAppend DEF MemoryTypes
<1>. QED
  BY <1>1, <1>4, <1>5, <1>6 DEF Survives, Pending, Placed

\* None is lost by a worker that does not die in its handler.
LEMMA WorkerSurvives ==
  ASSUME Unraced, Kept, Base, Survives, NEW w \in Workers, WorkerStep(w)
  PROVE  Survives'
<1>0. /\ StoreTypes /\ MemoryTypes /\ AgentTypes /\ QueueOnce /\ WorkerStages
  BY DEF Base, PlaceInv, TypeInv, TypeOK
<1>. USE <1>0
<1>. USE DEF storeVars, taskTables, agentVars
<1>1. UNCHANGED <<up, restoring>> /\ up = "up"
  BY WorkerCommon DEF Base
<1>2. w \in Agents /\ Workers \subseteq Agents /\ NoTask \notin Tasks
  BY ConstantsAssumption DEF Agents, ConstantsAssumption
<1>3. ASSUME NEW c \in Tasks,
             \A u \in Tasks \ {c} : stage'[u] = stage[u],
             \A u \in Tasks \ {c} : Queued(u) => Queued(u)',
             held \subseteq held',
             \A v \in Workers \ {w} : pc'[v] = pc[v] /\ cur'[v] = cur[v],
             cur[w] \in {c, NoTask},
             c \in Pending' => Placed(c)'
      PROVE  Survives'
  <2>. SUFFICES ASSUME NEW u \in Pending' PROVE Placed(u)'
    BY DEF Survives
  <2>1. CASE u = c
    BY <1>3, <2>1
  <2>2. CASE u # c
    <3>1. u \in Tasks /\ stage'[u] = stage[u]
      BY <1>3, <2>2 DEF Pending
    <3>2. u \in Pending
      BY <3>1 DEF Pending
    <3>3. Placed(u)
      BY <1>1, <3>2 DEF Survives
    <3>. QED
      BY <1>1, <1>2, <1>3, <2>2, <3>1, <3>3 DEF Placed
  <2>. QED
    BY <2>1, <2>2
<1>4. CASE TakeAndHold(w) \/ Take(w)
  <2>1. pc[w] = "idle" /\ cur[w] = NoTask /\ queue # <<>> /\ queue' = Tail(queue)
    BY <1>4 DEF TakeAndHold, HoldForPause, Take, Base, PlaceInv, IdleHand
  <2>2. PICK h \in Tasks : h = Head(queue) /\ Queued(h)
    BY <2>1, LaneTail DEF MemoryTypes
  <2>3. \A u \in Tasks : Queued(u)' <=> Queued(u) /\ u # h
    BY <2>1, <2>2, LaneTail DEF MemoryTypes
  <2>4. UNCHANGED stage
    BY <1>4, <2>2 DEF TakeAndHold, HoldForPause, Take, Save, StoreTypes
  <2>5. held \subseteq held'
    BY <1>4 DEF TakeAndHold, HoldForPause, Take
  <2>6. \A v \in Workers \ {w} : pc'[v] = pc[v] /\ cur'[v] = cur[v]
    BY <1>2, <1>4 DEF TakeAndHold, HoldForPause, Take, Goto, AgentTypes
  <2>7. h \in held' \/ (cur'[w] = h /\ pc'[w] = "plan")
    BY <1>2, <1>4, <2>2 DEF TakeAndHold, HoldForPause, Take, Goto, AgentTypes
  <2>8. Placed(h)'
    BY <2>7 DEF Placed
  <2>. QED
    BY <1>2, <1>3, <2>1, <2>3, <2>4, <2>5, <2>6, <2>8
<1>4a. CASE WorkerAware(w)
  <2>1. /\ UNCHANGED <<up, restoring, stage, queue, held, cur>> /\ cur[w] = NoTask
        /\ \A v \in Workers \ {w} : pc'[v] = pc[v]
    BY <1>2, <1>4a, WorkerSaves DEF bootVars, Goto, AgentTypes
  <2>. QED
    BY <1>2, <2>1 DEF Survives, Pending, Placed, Queued
<1>5. ASSUME OnTask(w)
      PROVE  /\ pc[w] \in Busy /\ pc[w] # "release" /\ cur[w] \in Tasks
  <2>1. pc[w] \in Busy /\ pc[w] # "release"
    BY <1>5 DEF WorkerStep, OnTask, HoldForPause, Plan, Begin, Refused, RunDone,
       RunFail, RunRetry,
       RunProgress, RunEnd, Raise, Exhaust, Requeue, Retire, Record, Receipt, Publish,
       HandleException, PublishException, WorkerDies, Busy
  <2>. QED
    BY <2>1, OwnTask
<1>6. ASSUME OnTask(w),
             \/ UNCHANGED queue
             \/ queue' = Append(queue, cur[w]),
             held \subseteq held', UNCHANGED cur \/ cur' = [cur EXCEPT ![w] = NoTask],
             NEW l, Goto(w, l), \A u \in Tasks \ {cur[w]} : stage'[u] = stage[u],
             \/ l # "release" /\ UNCHANGED cur
             \/ queue' = Append(queue, cur[w])
             \/ cur[w] \in held'
             \/ stage'[cur[w]] \in Ended
      PROVE  Survives'
  <2>1. PICK c \in Tasks : c = cur[w]
    BY <1>5, <1>6
  <2>2. ~Queued(c)
    BY <1>5, <1>6, <2>1, OwnTask
  <2>3. /\ \A u \in Tasks : Queued(u) => Queued(u)'
        /\ queue' = Append(queue, c) => Queued(c)'
    BY <1>6, <2>1, <2>2, LaneAppend DEF Queued, MemoryTypes
  <2>4. pc'[w] = l /\ \A v \in Workers \ {w} : pc'[v] = pc[v] /\ cur'[v] = cur[v]
    BY <1>2, <1>6 DEF Goto, AgentTypes
  <2>5. c \in Pending' => Placed(c)'
    BY <1>6, <2>1, <2>3, <2>4 DEF Placed, Pending, Ended
  <2>. QED
    BY <1>3, <1>6, <2>1, <2>3, <2>4, <2>5
<1>7. CASE OnTask(w)
  <2>1. cur[w] \in Tasks
    BY <1>5, <1>7
  <2>2. \A u \in Tasks \ {cur[w]} : stage'[u] = stage[u]
    BY <1>7, <2>1 DEF WorkerStep, OnTask, HoldForPause, Plan, Begin, Refused, RunDone,
       RunFail, RunRetry, RunProgress, RunEnd, Raise, Exhaust, Requeue, Retire,
       Record, Receipt, Publish, HandleException, PublishException, WorkerDies,
       Save, SaveResult, StoreTypes
  <2>3. ASSUME \/ Begin(w) \/ Plan(w) \/ Raise(w) \/ Exhaust(w) \/ Retire(w)
               \/ Record(w) \/ Receipt(w) \/ HandleException(w)
        PROVE  Survives'
    <3>1. PICK l \in {"execute", "run", "except", "terminal", "record", "receipt",
                      "xreceipt", "publish", "xpublish", "xrecord"} :
            Goto(w, l) /\ UNCHANGED <<cur, queue, held>>
      BY <2>3, Excluded DEF Begin, Plan, Raise, Exhaust, Retire, Record, Receipt,
         HandleException
    <3>. QED
      BY <1>6, <1>7, <2>2, <3>1
  <2>4. ASSUME RunDone(w) \/ RunFail(w) \/ RunRetry(w) \/ RunProgress(w)
        PROVE  Survives'
    <3>1. PICK l \in {"terminal", "retry", "progress"} :
            Goto(w, l) /\ UNCHANGED <<cur, queue, held>>
      BY <2>4 DEF RunDone, RunFail, RunRetry, RunProgress, RunEnd
    <3>. QED
      BY <1>6, <1>7, <2>2, <3>1
  <2>5. ASSUME Requeue(w)
        PROVE  Survives'
    <3>1. /\ held \subseteq held'
          /\ UNCHANGED cur \/ cur' = [cur EXCEPT ![w] = NoTask]
          /\ \E l : Goto(w, l)
          /\ \/ queue' = Append(queue, cur[w])
             \/ UNCHANGED queue /\ cur[w] \in held'
      BY <2>5 DEF Requeue, HoldForPause, StartPass
    <3>. QED
      BY <1>6, <1>7, <2>2, <3>1
  <2>6. ASSUME Publish(w) \/ PublishException(w)
        PROVE  Survives'
    <3>1. /\ UNCHANGED <<held, queue, stage>>
          /\ UNCHANGED cur \/ cur' = [cur EXCEPT ![w] = NoTask]
          /\ \E l : Goto(w, l)
      BY <2>6 DEF Publish, PublishException, Drop, StartPass
    <3>2. stage[cur[w]] \in Ended
      BY <2>6 DEF Publish, PublishException, WorkerStages, AtEnd, Target, Ended
    <3>. QED
      BY <1>6, <1>7, <2>2, <3>1, <3>2
  <2>7. ~WorkerDies(w) /\ ~Refused(w)
    BY Excluded DEF WorkerDies, Kept
  <2>. QED
    BY <1>7, <2>3, <2>4, <2>5, <2>6, <2>7 DEF WorkerStep, OnTask
<1>. QED
  BY <1>4, <1>4a, <1>7, Excluded DEF OnTask

\* None is lost by a release pass.
LEMMA PassSurvives ==
  ASSUME Unraced, Base, Survives, NEW a \in Agents,
         PassStep(a) \/ (a \in Heartbeats /\ HeartbeatStart(a))
  PROVE  Survives'
<1>0. /\ StoreTypes /\ MemoryTypes /\ AgentTypes /\ QueueOnce /\ Passes
  BY DEF Base, PlaceInv, TypeInv, TypeOK
<1>. USE <1>0
<1>1. UNCHANGED <<up, restoring, stage>> /\ ~PassRaises(a)
  BY Excluded DEF PassStep, ExamineHeld, EndPass, EndPassKeyError, HeartbeatStart, Save,
     storeVars, bootVars, StoreTypes
<1>2. \A u \in Tasks : Queued(u) => Queued(u)'
  <2>1. CASE HeartbeatStart(a) \/ EndPass(a) \/ EndPassKeyError(a)
    BY <2>1 DEF HeartbeatStart, EndPass, EndPassKeyError, Queued, taskTables
  <2>2. ASSUME NEW t \in Tasks, ExamineHeld(a, t)
        PROVE  \A u \in Tasks : Queued(u) => Queued(u)'
    <3>1. ~Queued(t)
      BY <2>2 DEF ExamineHeld, Passes
    <3>2. UNCHANGED queue \/ queue' = Append(queue, t)
      BY <2>2 DEF ExamineHeld
    <3>. QED
      BY <3>1, <3>2, LaneAppend DEF Queued, MemoryTypes
  <2>. QED
    BY <1>1, <2>1, <2>2 DEF PassStep
<1>3. \A u \in held : u \in held' \/ Queued(u)
  BY Excluded DEF PassStep, ExamineHeld, EndPass, HeartbeatStart, Passes, taskTables
<1>4. ASSUME NEW v \in Workers, cur[v] # NoTask, pc[v] # "release"
      PROVE  cur'[v] = cur[v] /\ pc'[v] # "release"
  <2>1. PassStep(a) => pc[a] = "release"
    BY DEF PassStep, ExamineHeld, EndPass, EndPassKeyError, PassRaises
  <2>2. HeartbeatStart(a) /\ a \in Heartbeats => UNCHANGED cur /\ a \notin Workers
    BY ConstantsAssumption DEF HeartbeatStart, ConstantsAssumption
  <2>3. a # v
    BY <1>4, <2>1, <2>2
  <2>4. UNCHANGED cur \/ cur' = [cur EXCEPT ![a] = NoTask]
    BY DEF PassStep, ExamineHeld, EndPass, EndPassKeyError, PassRaises, HeartbeatStart, Drop
  <2>5. UNCHANGED pc \/ \E l : Goto(a, l)
    BY DEF PassStep, ExamineHeld, EndPass, EndPassKeyError, PassRaises, HeartbeatStart,
       StartPass, Drop
  <2>. QED
    BY <1>4, <2>3, <2>4, <2>5 DEF Goto, AgentTypes, Agents
<1>. QED
  <2>. SUFFICES ASSUME NEW u \in Pending, up # "down" PROVE Placed(u)'
    BY <1>1 DEF Survives, Pending
  <2>1. Placed(u) /\ u \in Tasks /\ u # NoTask
    BY ConstantsAssumption DEF Survives, Pending, ConstantsAssumption
  <2>. QED
    BY <1>1, <1>2, <1>3, <1>4, <2>1 DEF Placed

\* None is lost by a crash and a restart that reads the whole table.
LEMMA OutsideSurvives ==
  ASSUME Unraced, Kept, Base, Survives, BootStep \/ Environment
  PROVE  Survives'
<1>0. /\ StoreTypes /\ MemoryTypes /\ AgentTypes /\ QueueOnce /\ EnvTypes /\ Booting
  BY DEF Base, PlaceInv, TypeInv, TypeOK, PromiseInv
<1>. USE <1>0
<1>1. CASE Crash
  BY <1>1 DEF Crash, Survives
<1>2. CASE Start
  <2>1. UNCHANGED stage /\ restoring' = Pending
    <3>1. IsFiniteSet(Pending) /\ Cardinality(Pending) <= Cardinality(Tasks)
      BY FS_Subset DEF Kept, Pending
    <3>2. Cardinality(Pending) \in Nat /\ Cardinality(Tasks) \in Nat
      BY <3>1, FS_CardinalityType DEF Kept
    <3>3. CASE restoring' = Pending
      BY <1>2, <3>3 DEF Start, storeVars
    <3>4. CASE restoring' \in SUBSET Pending /\ Cardinality(restoring') = RestoreLimit
      <4>1. RestoreLimit \in Nat
        BY ConstantsAssumption DEF ConstantsAssumption
      <4>2. Cardinality(restoring') = Cardinality(Pending)
        <5>1. Cardinality(restoring') <= Cardinality(Pending)
          BY <3>1, <3>4, FS_Subset
        <5>. QED
          BY <3>1, <3>2, <3>4, <4>1, <5>1 DEF Kept
      <4>3. restoring' = Pending
        BY <3>1, <3>4, <4>2, FS_Subset
      <4>. QED
        BY <1>2, <4>3 DEF Start, storeVars
    <3>. QED
      BY <1>2, <3>3, <3>4 DEF Start
  <2>. QED
    BY <2>1 DEF Survives, Pending, Placed
<1>3. ASSUME NEW t \in Tasks, Restore(t)
      PROVE  Survives'
  <2>1. /\ up = "starting" /\ UNCHANGED <<up, pc, cur>> /\ restoring' = restoring \ {t}
        /\ held \subseteq held' /\ \A u \in Tasks \ {t} : stage'[u] = stage[u]
    BY <1>3 DEF Restore, Save, Hold, Enqueue, StoreTypes, agentVars
  <2>2. ~Queued(t)
    BY <1>3, Nowhere DEF Restore
  <2>3. (UNCHANGED queue /\ t \in held') \/ queue' = Append(queue, t)
    BY <1>3 DEF Restore, Hold, Enqueue
  <2>4. /\ \A u \in Tasks : Queued(u) => Queued(u)'
        /\ t \in held' \/ Queued(t)'
    BY <2>2, <2>3, LaneAppend DEF Queued, MemoryTypes
  <2>. QED
    BY <2>1, <2>4 DEF Survives, Pending, Placed
<1>4. CASE \/ Started \/ Pause \/ Unpause \/ (\E t \in Tasks : Accept(t))
           \/ (\E x \in Works : WorkReady(x)) \/ \E k \in Keys : Expire(k)
  <2>1. /\ UNCHANGED <<stage, held, queue, cur, pc, restoring>>
        /\ up' # "down" => up # "down"
    BY <1>4 DEF Started, Pause, Unpause, Accept, WorkReady, Expire, storeVars,
       bootVars, taskTables, agentVars
  <2>. QED
    BY <2>1 DEF Survives, Pending, Placed, Queued
<1>. QED
  BY <1>1, <1>2, <1>3, <1>4, Excluded DEF BootStep, Environment

\* Every task has one place: it is never in the lane or with a worker twice,
\* and while the agent is up an unfinished task is in the lane, with a worker,
\* held or with its submitter, through retries, exceptions of a run and of the
\* bookkeeping, pauses, releases, crashes and restarts.  A restart must be able
\* to read all of its tasks.  An exception inside a release pass breaks it, as
\* PassRaises does: an agent that holds tasks is taken without one (Serial).
THEOREM TasksInOnePlace ==
  ASSUME Unraced, "handler" \notin Faults,
         IsFiniteSet(Tasks), Cardinality(Tasks) <= RestoreLimit
  PROVE  Spec => []InOnePlace
<1>1. Init => Survives
  BY DEF Init, Survives, Pending
<1>2. Base /\ Survives /\ [Next]_vars => Survives'
  <2>1. ASSUME Base, Survives, Next
        PROVE  Survives'
    BY <2>1, SubmitSurvives, WorkerSurvives, PassSurvives, OutsideSurvives
    DEF Next, Agents, Kept
  <2>2. ASSUME Survives, UNCHANGED vars
        PROVE  Survives'
    BY <2>2 DEF vars, storeVars, bootVars, taskTables, agentVars, Survives, Pending,
       Placed, Queued
  <2>. QED
    BY <2>1, <2>2
<1>3. Base /\ Survives => InOnePlace
  <2>. SUFFICES ASSUME Base, Survives, up = "up", NEW t \in Pending
                PROVE  \/ InQueue(t) # {} \/ AtWorker(t) # {} \/ t \in held
    BY OneCopy DEF InOnePlace, NothingLost
  <2>1. restoring = {}
    BY DEF Base, PromiseInv, Booting
  <2>. QED
    BY <2>1 DEF Survives, Placed, Queued, InQueue, AtWorker
<1>. QED
  BY <1>1, <1>2, <1>3, BaseHolds, PTL DEF Spec

\* A task is never doubled, even when workers die in their handler and a restart
\* reads one page only.  The exception is a store that fails under a release
\* pass, which Unraced rules out: it leaves a task in the lane and held, or, of
\* the worker's own, in the lane and with the worker.
THEOREM TasksNeverDoubled ==
  ASSUME Unraced
  PROVE  Spec => []AtMostOneCopy
<1>1. Base => AtMostOneCopy
  BY OneCopy
<1>. QED
  BY <1>1, BaseHolds, PTL

-----------------------------------------------------------------------------
(***************************************************************************)
(* What is over stays over.                                                *)
(***************************************************************************)

\* The steps of a worker after it has taken a task work on that task.
LEMMA WorkerOwns ==
  ASSUME Unraced, Base, NEW w \in Workers, WorkerStep(w),
         OnTask(w)
  PROVE  /\ pc[w] \in Busy /\ pc[w] # "release" /\ cur[w] \in Tasks
         /\ \A t \in Tasks \ {cur[w]} : /\ stage'[t] = stage[t]
                                        /\ stored'[t] = stored[t]
         /\ UNCHANGED cur \/ cur' = [cur EXCEPT ![w] = NoTask]
         /\ \E l \in Labels \ {"plan"} : Goto(w, l)
         /\ receipts \subseteq receipts'
<1>1. StoreTypes
  BY DEF Base, TypeInv, TypeOK
<1>2. pc[w] \in Busy /\ pc[w] # "release"
  BY DEF WorkerStep, OnTask, HoldForPause, Plan, Begin, Refused, RunDone, RunFail, RunRetry,
     RunProgress, RunEnd, Raise, Exhaust, Requeue, Retire, Record, Receipt, Publish,
     HandleException, PublishException, WorkerDies, Busy
<1>3. cur[w] \in Tasks
  BY <1>2, OwnTask
<1>4. \A t \in Tasks \ {cur[w]} : stage'[t] = stage[t] /\ stored'[t] = stored[t]
  BY <1>1, <1>3 DEF WorkerStep, OnTask, HoldForPause, Plan, Begin, Refused, RunDone,
     RunFail, RunRetry,
     RunProgress, RunEnd, Raise, Exhaust, Requeue, Retire, Record, Receipt, Publish,
     HandleException, PublishException, WorkerDies, Save, SaveResult, StoreTypes,
     storeVars
<1>5. UNCHANGED cur \/ cur' = [cur EXCEPT ![w] = NoTask]
  BY DEF WorkerStep, OnTask, HoldForPause, Plan, Begin, Refused, RunDone, RunFail, RunRetry,
     RunProgress, RunEnd, Raise, Exhaust, Requeue, Retire, Record, Receipt, Publish,
     HandleException, PublishException, WorkerDies, Drop
<1>6. \E l \in Labels \ {"plan"} : Goto(w, l)
  <2>1. \E l \in {"execute", "run", "retry", "progress", "terminal", "record",
                  "receipt", "publish", "release", "except", "xrecord", "xreceipt",
                  "xpublish", "idle", "dead", "aware"} : Goto(w, l)
    BY DEF WorkerStep, OnTask, HoldForPause, Plan, Begin, Refused, RunDone, RunFail,
       RunRetry,
       RunProgress, RunEnd, Raise, Exhaust, Requeue, Retire, Record, Receipt, Publish,
       HandleException, PublishException, WorkerDies, Drop, StartPass
  <2>. QED
    BY <2>1 DEF Labels, Busy
<1>7. receipts \subseteq receipts'
  BY DEF WorkerStep, OnTask, HoldForPause, Plan, Begin, Refused, RunDone, RunFail, RunRetry,
     RunProgress, RunEnd, Raise, Exhaust, Requeue, Retire, Record, Receipt, Publish,
     HandleException, PublishException, WorkerDies, storeVars
<1>. QED
  BY <1>2, <1>3, <1>4, <1>5, <1>6, <1>7

\* The stage of an ended task only moves between DONE and FAILED, and only
\* by the worker that has it in hand; its result may be lost to a late save.
LEMMA EndedStays ==
  ASSUME Unraced, Base, Next, NEW t \in Tasks, stage[t] \in Ended
  PROVE  /\ stage'[t] \in Ended /\ \A w \in Workers : cur'[w] = t => cur[w] = t
         /\ (\A w \in Workers : cur[w] = t => pc[w] = "release") =>
              /\ stage'[t] = stage[t] /\ (stored'[t] = stored[t] \/ LateSave(t))
              /\ \A w \in Workers : cur'[w] = t => cur[w] = t /\ pc[w] = "release"
<1>0. /\ StoreTypes /\ MemoryTypes /\ AgentTypes /\ WaitingStages /\ WorkerStages
      /\ BootPlaces /\ Passes
  BY DEF Base, PlaceInv, TypeInv, TypeOK
<1>. USE <1>0 DEF Ended
<1>1. ~Queued(t) /\ t \notin held /\ t # NoTask /\ t \notin restoring
  BY ConstantsAssumption DEF WaitingStages, BootPlaces, ConstantsAssumption
<1>2. ASSUME stage'[t] = stage[t], stored'[t] = stored[t] \/ LateSave(t),
             \A w \in Workers : cur'[w] = t => cur[w] = t
      PROVE  /\ stage'[t] \in Ended /\ \A w \in Workers : cur'[w] = t => cur[w] = t
             /\ (\A w \in Workers : cur[w] = t => pc[w] = "release") =>
                  /\ stage'[t] = stage[t] /\ (stored'[t] = stored[t] \/ LateSave(t))
                  /\ \A w \in Workers : cur'[w] = t => cur[w] = t /\ pc[w] = "release"
  BY <1>2
<1>3. ASSUME NEW u \in Tasks,
             \/ SubmitLiveDuplicate(u) \/ SubmitRecentDuplicate(u) \/ SubmitFresh(u)
             \/ SubmitOnward(u)
      PROVE  /\ stage'[t] = stage[t] /\ (stored'[t] = stored[t] \/ LateSave(t))
             /\ UNCHANGED cur
  <2>0. CASE SubmitAware(u)
    BY <2>0, SubmitSaves DEF StoreTypes, agentVars
  <2>. SUFFICES ASSUME ~SubmitAware(u)
                PROVE  stage'[t] = stage[t] /\ stored'[t] = stored[t] /\ UNCHANGED cur
    BY <2>0
  <2>1. sub[u] \notin {"aware", "done"}
    BY <1>3 DEF SubmitLiveDuplicate, SubmitRecentDuplicate, SubmitFresh, SubmitOnward,
       SubmitCheckDependencies, SubmitHold, SubmitEnqueue
  <2>2. u # t
    BY <2>1, Nowhere
  <2>. QED
    BY <1>3, <2>2 DEF SubmitLiveDuplicate, SubmitRecentDuplicate, SubmitFresh,
       SubmitOnward, SubmitCheckDependencies, SubmitHold, SubmitAware, SubmitEnqueue, Save,
       StoreTypes, storeVars, agentVars
<1>4. ASSUME NEW w \in Workers, TakeAndHold(w) \/ Take(w)
      PROVE  /\ stage'[t] = stage[t] /\ stored'[t] = stored[t]
             /\ \A v \in Workers : cur'[v] = t => cur[v] = t
  <2>1. Head(queue) # t /\ Head(queue) \in Tasks
    BY <1>1, <1>4, QueueTasks, QueuedTail DEF TakeAndHold, HoldForPause, Take, MemoryTypes
  <2>. QED
    BY <1>1, <1>4, <2>1 DEF TakeAndHold, HoldForPause, Take, Save, StoreTypes, storeVars,
       agentVars, AgentTypes
<1>4a. ASSUME NEW w \in Workers, WorkerAware(w)
       PROVE  /\ stage'[t] = stage[t] /\ stored'[t] = stored[t]
              /\ \A v \in Workers : cur'[v] = t => cur[v] = t
  BY <1>1, <1>4a, WorkerSaves DEF StoreTypes
<1>5. ASSUME NEW w \in Workers, WorkerStep(w), OnTask(w), cur[w] # t
      PROVE  /\ stage'[t] = stage[t] /\ stored'[t] = stored[t]
             /\ \A v \in Workers : cur'[v] = t => cur[v] = t
  BY <1>1, <1>5, WorkerOwns DEF AgentTypes
<1>6. ASSUME NEW w \in Workers, WorkerStep(w), OnTask(w), cur[w] = t
      PROVE  /\ stage'[t] \in Ended /\ pc[w] # "release"
             /\ \A v \in Workers : cur'[v] = t => cur[v] = t
  <2>1. pc[w] # "release" /\ pc[w] \in Busy
    BY <1>6, WorkerOwns
  <2>2. pc[w] \notin {"plan", "execute", "run", "retry", "progress"}
    BY <1>6 DEF WorkerStages
  <2>3. UNCHANGED stage \/ (\E s \in Ended : Save(t, s)) \/ \E v : SaveResult(t, v)
    BY <1>6, <2>2 DEF WorkerStep, OnTask, HoldForPause, Plan, Begin, Refused, RunDone,
       RunFail, RunRetry,
       RunProgress, RunEnd, Raise, Exhaust, Requeue, Retire, Record, Receipt, Publish,
       HandleException, PublishException, WorkerDies, storeVars, Target
  <2>4. UNCHANGED cur \/ cur' = [cur EXCEPT ![w] = NoTask]
    BY <1>6, WorkerOwns
  <2>. QED
    BY <1>1, <2>1, <2>3, <2>4 DEF Save, SaveResult, StoreTypes, AgentTypes
<1>7. ASSUME NEW a \in Agents, PassStep(a) \/ (a \in Heartbeats /\ HeartbeatStart(a))
      PROVE  /\ stage'[t] = stage[t] /\ stored'[t] = stored[t]
             /\ \A v \in Workers : cur'[v] = t => cur[v] = t
  <2>1. ASSUME NEW u \in Tasks, ExamineHeld(a, u)
        PROVE  stage'[t] = stage[t] /\ stored'[t] = stored[t]
    <3>1. u # t
      BY <1>1, <2>1 DEF ExamineHeld, Passes
    <3>. QED
      BY <2>1, <3>1 DEF ExamineHeld, Save, StoreTypes
  <2>2. HeartbeatStart(a) \/ EndPass(a) \/ EndPassKeyError(a) => UNCHANGED <<stage, stored>>
    BY DEF HeartbeatStart, EndPass, EndPassKeyError, storeVars
  <2>3. UNCHANGED cur \/ cur' = [cur EXCEPT ![a] = NoTask]
    BY <1>7 DEF PassStep, ExamineHeld, EndPass, EndPassKeyError, PassRaises,
       HeartbeatStart, Drop
  <2>. QED
    BY <1>1, <1>7, <2>1, <2>2, <2>3, Excluded DEF PassStep, AgentTypes
<1>8. ASSUME BootStep \/ Environment
      PROVE  /\ stage'[t] = stage[t] /\ stored'[t] = stored[t]
             /\ \A v \in Workers : cur'[v] = t => cur[v] = t
  <2>1. ASSUME NEW u \in Tasks, Restore(u)
        PROVE  stage'[t] = stage[t] /\ stored'[t] = stored[t] /\ UNCHANGED cur
    <3>1. u # t
      BY <1>1, <2>1 DEF Restore
    <3>. QED
      BY <2>1, <3>1 DEF Restore, Save, StoreTypes, agentVars
  <2>2. ASSUME Crash
        PROVE  /\ stage'[t] = stage[t] /\ stored'[t] = stored[t]
               /\ \A v \in Workers : cur'[v] = t => cur[v] = t
    BY <1>1, <2>2 DEF Crash, storeVars
  <2>3. ASSUME \/ Start \/ Started \/ Pause \/ Unpause \/ (\E u \in Tasks : Accept(u))
               \/ (\E x \in Works : WorkReady(x)) \/ \E k \in Keys : Expire(k)
        PROVE  UNCHANGED <<stage, stored, cur>>
    BY <2>3 DEF Start, Started, Pause, Unpause, Accept, WorkReady, Expire, storeVars,
       agentVars
  <2>. QED
    BY <1>8, <2>1, <2>2, <2>3, Excluded DEF BootStep, Environment
<1>9. ASSUME NEW w \in Workers, WorkerStep(w)
      PROVE  /\ stage'[t] \in Ended /\ \A v \in Workers : cur'[v] = t => cur[v] = t
             /\ (\A v \in Workers : cur[v] = t => pc[v] = "release") =>
                  /\ stage'[t] = stage[t] /\ (stored'[t] = stored[t] \/ LateSave(t))
                  /\ \A v \in Workers : cur'[v] = t => cur[v] = t /\ pc[v] = "release"
  BY <1>2, <1>4, <1>4a, <1>5, <1>6, <1>9, Excluded DEF OnTask
<1>. QED
  BY <1>2, <1>3, <1>7, <1>8, <1>9 DEF Next, Agents

-----------------------------------------------------------------------------
(***************************************************************************)
(* Executions are bounded.  A run raises the attempt counter first and is  *)
(* paid for later, by a recovery, by a continuation or by a crash, so a    *)
(* task that is going to run has no unpaid attempt.                        *)
(***************************************************************************)

\* A task that is going to run was already going to, but for a requeue or a
\* crash.
LEMMA WillRunSubmit ==
  ASSUME Unraced, Base, NEW u \in Tasks,
         \/ SubmitLiveDuplicate(u) \/ SubmitRecentDuplicate(u) \/ SubmitFresh(u)
         \/ SubmitOnward(u),
         NEW t \in Tasks, WillRun(t)'
  PROVE  WillRun(t)
<1>0. /\ StoreTypes /\ MemoryTypes
  BY DEF Base, TypeInv, TypeOK
<1>. USE <1>0
<1>1. UNCHANGED <<pc, cur, up>>
  BY DEF SubmitLiveDuplicate, SubmitRecentDuplicate, SubmitFresh, SubmitOnward,
     SubmitCheckDependencies, SubmitHold, SubmitAware, SubmitEnqueue, agentVars, bootVars
<1>1a. CASE SubmitAware(u)
  BY <1>1a, SubmitSaves DEF WillRun, Queued, bootVars, taskTables, agentVars
<1>. SUFFICES ASSUME ~SubmitAware(u) PROVE WillRun(t)
  BY <1>1a
<1>2. sub[u] \notin {"aware", "done"}
  BY DEF SubmitLiveDuplicate, SubmitRecentDuplicate, SubmitFresh, SubmitOnward,
     SubmitCheckDependencies, SubmitHold, SubmitAware, SubmitEnqueue
<1>3. stage[u] = "new"
  BY <1>2, Nowhere
<1>4. CASE t = u
  BY <1>3, <1>4 DEF WillRun
<1>5. CASE t # u
  <2>1. stage'[t] = stage[t] /\ (t \in held' => t \in held)
    BY <1>5 DEF SubmitLiveDuplicate, SubmitRecentDuplicate, SubmitFresh, SubmitOnward,
       SubmitCheckDependencies, SubmitHold, SubmitAware, SubmitEnqueue, Hold, Enqueue, Save,
       StoreTypes, storeVars, taskTables
  <2>2. UNCHANGED queue \/ queue' = Append(queue, u)
    BY DEF SubmitLiveDuplicate, SubmitRecentDuplicate, SubmitFresh, SubmitOnward,
       SubmitCheckDependencies, SubmitHold, SubmitAware, SubmitEnqueue, Hold, Enqueue,
       taskTables
  <2>3. Queued(t)' => Queued(t)
    BY <1>5, <2>2, QueuedAppend DEF Queued, MemoryTypes
  <2>. QED
    BY <1>1, <2>1, <2>3 DEF WillRun
<1>. QED
  BY <1>4, <1>5

\* A worker makes no task run again except by requeueing it.
LEMMA WillRunWorker ==
  ASSUME Unraced, Base, NEW w \in Workers, WorkerStep(w), ~Requeue(w),
         NEW t \in Tasks, WillRun(t)'
  PROVE  WillRun(t)
<1>0. /\ StoreTypes /\ MemoryTypes /\ AgentTypes /\ t # NoTask
  BY ConstantsAssumption DEF ConstantsAssumption, Base, TypeInv, TypeOK
<1>. USE <1>0
<1>1. UNCHANGED up
  BY DEF WorkerStep, TakeAndHold, HoldForPause, WorkerAware, HoldRaises, Take, Plan,
     Begin, Refused, RunDone, RunFail,
     RunRetry, RunProgress, RunEnd, Raise, Exhaust, Requeue, Retire, Record, Receipt,
     Publish, HandleException, PublishException, WorkerDies, bootVars
<1>2. CASE TakeAndHold(w) \/ Take(w)
  <2>1. PICK h \in Tasks : h = Head(queue)
    BY <1>2, QueueTasks DEF TakeAndHold, HoldForPause, Take
  <2>2. Queued(h) /\ (Queued(t)' => Queued(t))
    BY <1>2, <2>1, QueuedTail DEF TakeAndHold, HoldForPause, Take, MemoryTypes
  <2>3. t \in held' => t \in held \/ t = h
    BY <1>2, <2>1 DEF TakeAndHold, HoldForPause, Take
  <2>4. stage'[t] = stage[t]
    BY <1>2, <2>1 DEF TakeAndHold, HoldForPause, Take, Save, StoreTypes, storeVars
  <2>5. ASSUME NEW v \in Workers, cur'[v] = t, pc'[v] \in {"plan", "execute"}
        PROVE  t = h \/ (cur[v] = t /\ pc[v] \in {"plan", "execute"})
    BY <1>2, <2>1, <2>5 DEF TakeAndHold, HoldForPause, Take, Goto, AgentTypes, Agents,
       agentVars
  <2>. QED
    BY <1>1, <2>2, <2>3, <2>4, <2>5 DEF WillRun
<1>2a. CASE WorkerAware(w)
  <2>1. UNCHANGED <<stage, queue, held, up, cur>> /\ pc' = [pc EXCEPT ![w] = "idle"]
    BY <1>2a, WorkerSaves DEF taskTables, bootVars, Goto
  <2>. QED
    BY <2>1 DEF WillRun, Queued, AgentTypes, Agents
<1>3. CASE OnTask(w)
  <2>1. UNCHANGED <<queue, held>>
    BY <1>3 DEF WorkerStep, OnTask, HoldForPause, Plan, Begin, Refused, RunDone, RunFail,
       RunRetry, RunProgress, RunEnd, Raise, Exhaust, Retire, Record, Receipt,
       Publish, HandleException, PublishException, WorkerDies, taskTables
  <2>2. cur[w] \in Tasks /\ stage[cur[w]] # "new"
    BY <1>3, WorkerOwns, OwnTask
  <2>3. stage'[t] = "new" => stage[t] = "new"
    <3>1. CASE t # cur[w]
      BY <1>3, <3>1, WorkerOwns
    <3>2. CASE t = cur[w]
      <4>1. \/ UNCHANGED stage \/ (\E s \in Stage \ {"new"} : Save(t, s))
            \/ \E v : SaveResult(t, v)
        BY <1>3, <3>2 DEF WorkerStep, OnTask, HoldForPause, Plan, Begin, Refused,
           RunDone, RunFail,
           RunRetry, RunProgress, RunEnd, Raise, Exhaust, Retire, Record, Receipt,
           Publish, HandleException, PublishException, WorkerDies, Target, Stage,
           storeVars
      <4>. QED
        BY <2>2, <3>2, <4>1 DEF Save, SaveResult, StoreTypes
    <3>. QED
      BY <3>1, <3>2
  <2>4. /\ UNCHANGED cur \/ cur' = [cur EXCEPT ![w] = NoTask]
        /\ \/ pc[w] = "plan" /\ \E l : Goto(w, l)
           \/ \E l \in Labels \ {"plan", "execute"} : Goto(w, l)
    <3>1. \/ pc[w] = "plan" /\ \E l : Goto(w, l)
          \/ \E l \in {"run", "retry", "progress", "terminal", "record",
                  "receipt", "publish", "release", "except", "xrecord", "xreceipt",
                  "xpublish", "idle", "dead", "aware"} : Goto(w, l)
      BY <1>3 DEF WorkerStep, OnTask, HoldForPause, Plan, Begin, Refused, RunDone,
         RunFail, RunRetry,
         RunProgress, RunEnd, Raise, Exhaust, Retire, Record, Receipt, Publish,
         HandleException, PublishException, WorkerDies, Drop, StartPass
    <3>. QED
      BY <1>3, <3>1, WorkerOwns DEF Labels, Busy
  <2>5. ASSUME NEW v \in Workers, cur'[v] = t, pc'[v] \in {"plan", "execute"}
        PROVE  cur[v] = t /\ pc[v] \in {"plan", "execute"}
    BY <2>4, <2>5 DEF Goto, AgentTypes, Agents
  <2>. QED
    BY <1>1, <2>1, <2>3, <2>5 DEF WillRun, Queued
<1>. QED
  BY <1>2, <1>2a, <1>3, Excluded DEF OnTask

\* A step that counts nothing, and after which a task only runs that was
\* going to, keeps the count.
LEMMA CountStays ==
  ASSUME Unraced, Base, RetryInv, Next, UNCHANGED <<count, crashes>>,
         \A t \in Tasks : WillRun(t)' => WillRun(t)
  PROVE  RetryInv'
<1>1. \A t \in Tasks : stage'[t] \notin Ended => stage[t] \notin Ended
  BY EndedStays
<1>2. Counting'
  BY <1>1 DEF RetryInv, Counting, Used
<1>. QED
  BY <1>2 DEF RetryInv, RetriesBounded

\* A release pass lets run only what was to run anyway.
LEMMA WillRunPass ==
  ASSUME Unraced, Base, NEW a \in Agents,
         PassStep(a) \/ (a \in Heartbeats /\ HeartbeatStart(a)),
         NEW t \in Tasks, WillRun(t)'
  PROVE  WillRun(t)
<1>0. /\ StoreTypes /\ MemoryTypes /\ AgentTypes /\ Passes /\ t # NoTask
  BY ConstantsAssumption DEF ConstantsAssumption, Base, PlaceInv, TypeInv, TypeOK
<1>. USE <1>0
<1>1. UNCHANGED <<up, stage>> /\ held' \subseteq held
  BY DEF PassStep, ExamineHeld, EndPass, EndPassKeyError, PassRaises, HeartbeatStart, Save,
     storeVars, bootVars, taskTables, StoreTypes
<1>2. Queued(t)' => Queued(t) \/ t \in held
  <2>1. CASE HeartbeatStart(a) \/ EndPass(a) \/ EndPassKeyError(a) \/ PassRaises(a)
    BY <2>1 DEF HeartbeatStart, EndPass, EndPassKeyError, PassRaises, Queued, taskTables
  <2>2. ASSUME NEW u \in Tasks, ExamineHeld(a, u)
        PROVE  Queued(t)' => Queued(t) \/ t \in held
    <3>1. u \in held /\ (UNCHANGED queue \/ queue' = Append(queue, u))
      BY <2>2 DEF ExamineHeld, Passes
    <3>. QED
      BY <3>1, QueuedAppend DEF Queued, MemoryTypes
  <2>. QED
    BY <2>1, <2>2 DEF PassStep
<1>3. ASSUME NEW v \in Workers, cur'[v] = t, pc'[v] \in {"plan", "execute"}
      PROVE  cur[v] = t /\ pc[v] \in {"plan", "execute"}
  <2>1. UNCHANGED cur \/ cur' = [cur EXCEPT ![a] = NoTask]
    BY DEF PassStep, ExamineHeld, EndPass, EndPassKeyError, PassRaises, HeartbeatStart, Drop
  <2>2. UNCHANGED pc \/ \E l \in {"idle", "except", "release"} : Goto(a, l)
    BY DEF PassStep, ExamineHeld, EndPass, EndPassKeyError, PassRaises, HeartbeatStart,
       StartPass, Drop
  <2>. QED
    BY <1>3, <2>1, <2>2 DEF Goto, AgentTypes, Agents
<1>. QED
  BY <1>1, <1>2, <1>3 DEF WillRun

\* The environment makes no task run again except by a crash.
LEMMA WillRunOutside ==
  ASSUME Unraced, Base, BootStep \/ Environment, ~Crash,
         NEW t \in Tasks, WillRun(t)'
  PROVE  WillRun(t)
<1>1. CASE up # "up"
  BY <1>1 DEF WillRun
<1>2. CASE up = "up"
  <2>1. UNCHANGED <<stage, queue, held, pc, cur, up>>
    BY <1>2, Excluded DEF BootStep, Start, Restore, Started, Environment, Pause,
       Unpause, Accept, WorkReady, Expire, storeVars, bootVars, taskTables, agentVars
  <2>. QED
    BY <2>1 DEF WillRun, Queued
<1>. QED
  BY <1>1, <1>2

\* The steps that count: a run begins, and a worker accounts for it.
LEMMA BeginCounts ==
  ASSUME Unraced, Base, RetryInv, NEW w \in Workers, Begin(w)
  PROVE  RetryInv'
<1>0. /\ StoreTypes /\ AgentTypes /\ EnvTypes /\ Counting /\ RetriesBounded
  BY DEF Base, TypeInv, TypeOK, RetryInv
<1>. USE <1>0
<1>1. PICK c \in Tasks : c = cur[w]
  BY OwnTask DEF Begin, Busy
<1>2. /\ pc[w] = "execute" /\ c \notin held /\ ~Queued(c) /\ up = "up"
      /\ stage[c] = "planning"
      /\ \A v \in Workers : v # w /\ pc[v] # "release" => cur[v] # c
  BY <1>1, OwnTask DEF Begin, Busy, Base, PlaceInv, WorkerStages
<1>3. /\ stage' = [stage EXCEPT ![c] = "executing"] /\ Goto(w, "run")
      /\ count' = [count EXCEPT ![c].attempt = @ + 1]
      /\ UNCHANGED <<queue, held, up, cur, crashes>>
  BY <1>1, <1>2 DEF Begin, Save, taskTables, bootVars
<1>4. /\ count'[c].attempt = count[c].attempt + 1
      /\ count'[c].recovery = count[c].recovery
      /\ count'[c].boundary = count[c].boundary
      /\ count[c].attempt \in Nat /\ crashes \in Nat
      /\ count[c].recovery \in Nat /\ count[c].boundary \in Nat
      /\ \A t \in Tasks \ {c} : count'[t] = count[t]
  BY <1>3 DEF StoreTypes, Counters, EnvTypes
<1>5. /\ count[c].recovery < MaxAttempts /\ count[c].boundary < ProgressCap
      /\ count[c].attempt <= Used(c)
  BY <1>1, <1>2 DEF Counting, WillRun, Ended
<1>6. ~WillRun(c)'
  BY <1>2, <1>3 DEF WillRun, Queued, Goto, AgentTypes, StoreTypes, Agents
<1>7. \A t \in Tasks \ {c} : stage'[t] = stage[t] /\ (WillRun(t)' => WillRun(t))
  BY <1>3 DEF WillRun, Queued, Goto, AgentTypes, StoreTypes, Agents
<1>8. Used(c)' = Used(c) /\ \A t \in Tasks \ {c} : Used(t)' = Used(t)
  BY <1>3, <1>4 DEF Used
<1>9. Counting'
  <2>1. ASSUME NEW t \in Tasks, stage'[t] \notin Ended
        PROVE  /\ count'[t].recovery < MaxAttempts /\ count'[t].boundary < ProgressCap
               /\ count'[t].attempt <= Used(t)' + 1
               /\ WillRun(t)' => count'[t].attempt <= Used(t)'
    <3>1. CASE t = c
      BY <1>4, <1>5, <1>6, <1>8, <3>1 DEF Used
    <3>2. CASE t # c
      BY <1>4, <1>7, <1>8, <2>1, <3>2 DEF Counting
    <3>. QED
      BY <3>1, <3>2
  <2>. QED
    BY <2>1 DEF Counting
<1>10. RetriesBounded'
  <2>1. MaxAttempts \in Nat /\ ProgressCap \in Nat /\ MaxAttempts # 0 /\ ProgressCap # 0
    BY ConstantsAssumption DEF ConstantsAssumption
  <2>2. count'[c].attempt <= MaxAttempts + (ProgressCap - 1) + crashes
    BY <1>4, <1>5, <2>1 DEF Used
  <2>. QED
    BY <1>3, <1>4, <2>2 DEF RetriesBounded
<1>. QED
  BY <1>9, <1>10 DEF RetryInv

\* Each requeue is paid for by one of the two counters of recoveries.
LEMMA RequeueCounts ==
  ASSUME Unraced, Base, RetryInv, NEW w \in Workers, Requeue(w) \/ Exhaust(w)
  PROVE  RetryInv'
<1>0. /\ StoreTypes /\ MemoryTypes /\ AgentTypes /\ EnvTypes /\ Counting
      /\ RetriesBounded
  BY DEF Base, TypeInv, TypeOK, RetryInv
<1>. USE <1>0
<1>1. PICK c \in Tasks : c = cur[w]
  BY OwnTask DEF Requeue, Exhaust, Busy
<1>2. /\ stage[c] = "recovering" /\ UNCHANGED crashes
      /\ count' = [count EXCEPT ![c] = Counted(w)]
      /\ \A t \in Tasks \ {c} : stage'[t] = stage[t]
  BY <1>1 DEF Requeue, HoldForPause, Exhaust, Base, PlaceInv, WorkerStages, Save,
     StoreTypes, bootVars
<1>3. /\ count[c].attempt \in Nat /\ crashes \in Nat
      /\ count[c].recovery \in Nat /\ count[c].boundary \in Nat
      /\ count'[c].attempt = count[c].attempt
      /\ \/ /\ count'[c].recovery = count[c].recovery + 1
            /\ count'[c].boundary = count[c].boundary
            /\ pc[w] # "progress"
         \/ /\ count'[c].recovery = count[c].recovery
            /\ count'[c].boundary = count[c].boundary + 1
            /\ pc[w] = "progress"
      /\ \A t \in Tasks \ {c} : count'[t] = count[t]
      /\ count'[c] = Counted(w)
  BY <1>1, <1>2 DEF StoreTypes, Counters, EnvTypes, Counted
<1>4. /\ count[c].recovery < MaxAttempts /\ count[c].boundary < ProgressCap
      /\ count[c].attempt <= Used(c) + 1
  BY <1>2 DEF Counting, Ended
<1>5. RetriesBounded'
  BY <1>2, <1>3 DEF RetriesBounded
<1>6. Used(c)' = Used(c) + 1 /\ \A t \in Tasks \ {c} : Used(t)' = Used(t)
  BY <1>2, <1>3 DEF Used
<1>7. ASSUME stage'[c] \notin Ended
      PROVE  count'[c].recovery < MaxAttempts /\ count'[c].boundary < ProgressCap
  <2>1. ~AtCap(w)
    BY <1>1, <1>7 DEF Requeue, Exhaust, Save, StoreTypes, Ended
  <2>2. MaxAttempts \in Nat /\ ProgressCap \in Nat
    BY ConstantsAssumption DEF ConstantsAssumption
  <2>. QED
    BY <1>3, <1>4, <2>1, <2>2 DEF AtCap
<1>8. ASSUME NEW t \in Tasks \ {c}, WillRun(t)'
      PROVE  WillRun(t)
  <2>1. /\ UNCHANGED up /\ (t \in held' => t \in held)
        /\ UNCHANGED queue \/ queue' = Append(queue, c)
        /\ UNCHANGED cur \/ cur' = [cur EXCEPT ![w] = NoTask]
        /\ \E l \in {"aware", "release", "terminal"} : Goto(w, l)
    BY <1>1 DEF Requeue, Exhaust, HoldForPause, StartPass, bootVars, taskTables
  <2>2. Queued(t)' => Queued(t)
    BY <2>1, QueuedAppend DEF Queued, MemoryTypes
  <2>3. t # NoTask
    BY ConstantsAssumption DEF ConstantsAssumption
  <2>4. ASSUME NEW v \in Workers, cur'[v] = t, pc'[v] \in {"plan", "execute"}
        PROVE  cur[v] = t /\ pc[v] \in {"plan", "execute"}
    BY <2>1, <2>3, <2>4 DEF Goto, AgentTypes, Agents
  <2>. QED
    BY <1>2, <1>8, <2>1, <2>2, <2>4 DEF WillRun
<1>9. Counting'
  <2>1. ASSUME NEW t \in Tasks, stage'[t] \notin Ended
        PROVE  /\ count'[t].recovery < MaxAttempts /\ count'[t].boundary < ProgressCap
               /\ count'[t].attempt <= Used(t)' + 1
               /\ WillRun(t)' => count'[t].attempt <= Used(t)'
    <3>1. CASE t = c
      BY <1>3, <1>4, <1>6, <1>7, <2>1, <3>1 DEF Used
    <3>2. CASE t # c
      BY <1>2, <1>3, <1>6, <1>8, <2>1, <3>2 DEF Counting
    <3>. QED
      BY <3>1, <3>2
  <2>. QED
    BY <2>1 DEF Counting
<1>. QED
  BY <1>5, <1>9 DEF RetryInv

\* A crash pays for the execution it makes possible.
LEMMA CrashCounts == ASSUME Base, RetryInv, Crash PROVE RetryInv'
<1>1. /\ UNCHANGED <<stage, count>> /\ crashes' = crashes + 1
      /\ StoreTypes /\ EnvTypes /\ MaxAttempts \in Nat /\ ProgressCap \in Nat
  BY ConstantsAssumption DEF Crash, storeVars, Base, TypeInv, TypeOK, ConstantsAssumption
<1>2. \A t \in Tasks : count[t] \in Counters
  BY <1>1 DEF StoreTypes
<1>3. Counting'
  BY <1>1, <1>2 DEF RetryInv, Counting, Used, Counters, EnvTypes
<1>4. RetriesBounded'
  BY <1>1, <1>2 DEF RetryInv, RetriesBounded, Counters, EnvTypes
<1>. QED
  BY <1>3, <1>4 DEF RetryInv

\* A task is executed at most MaxAttempts + ProgressCap - 1 times, and once
\* more for each crash: nothing that holds, releases, requeues or restores it
\* gives it a run that is not accounted for.
THEOREM ExecutionsBounded ==
  ASSUME Unraced
  PROVE  Spec => []RetriesBounded
<1>1. Init => RetryInv
  <2>1. MaxAttempts \in Nat \ {0} /\ ProgressCap \in Nat \ {0}
    BY ConstantsAssumption DEF ConstantsAssumption
  <2>. QED
    BY <2>1 DEF Init, RetryInv, Counting, RetriesBounded, Used
<1>2. Base /\ RetryInv /\ [Next]_vars => RetryInv'
  <2>1. ASSUME Base, RetryInv, Next
        PROVE  RetryInv'
    <3>1. ASSUME NEW t \in Tasks,
                 \/ SubmitLiveDuplicate(t) \/ SubmitRecentDuplicate(t)
                 \/ SubmitFresh(t) \/ SubmitOnward(t)
          PROVE  RetryInv'
      <4>1. UNCHANGED <<count, crashes>>
        BY <3>1 DEF SubmitLiveDuplicate, SubmitRecentDuplicate, SubmitFresh,
           SubmitOnward, SubmitCheckDependencies, SubmitHold, SubmitAware, SubmitEnqueue,
           storeVars, bootVars
      <4>. QED
        BY <2>1, <3>1, <4>1, WillRunSubmit, CountStays
    <3>2. ASSUME NEW w \in Workers, WorkerStep(w)
          PROVE  RetryInv'
      <4>1. CASE ~Begin(w) /\ ~Requeue(w) /\ ~Exhaust(w)
        <5>1. UNCHANGED <<count, crashes>>
          BY <3>2, <4>1 DEF WorkerStep, TakeAndHold, HoldForPause, WorkerAware,
             HoldRaises, Take, Plan, Refused, RunDone,
             RunFail, RunRetry, RunProgress, RunEnd, Raise, Retire, Record, Receipt,
             Publish, HandleException, PublishException, WorkerDies, storeVars, bootVars
        <5>. QED
          BY <2>1, <3>2, <4>1, <5>1, WillRunWorker, CountStays
      <4>. QED
        BY <2>1, <4>1, BeginCounts, RequeueCounts
    <3>3. ASSUME NEW a \in Agents, PassStep(a) \/ (a \in Heartbeats /\ HeartbeatStart(a))
          PROVE  RetryInv'
      <4>1. UNCHANGED <<count, crashes>>
        BY <3>3 DEF PassStep, ExamineHeld, EndPass, EndPassKeyError, PassRaises,
           HeartbeatStart,
           storeVars, bootVars
      <4>. QED
        BY <2>1, <3>3, <4>1, WillRunPass, CountStays
    <3>4. ASSUME BootStep \/ Environment, ~Crash
          PROVE  RetryInv'
      <4>1. UNCHANGED <<count, crashes>>
        BY <2>1, <3>4, Excluded DEF BootStep, Start, Restore, Started, Environment,
           Pause, Unpause, Accept, WorkReady, Expire, storeVars, bootVars
      <4>. QED
        BY <2>1, <3>4, <4>1, WillRunOutside, CountStays
    <3>. QED
      BY <2>1, <3>1, <3>2, <3>3, <3>4, CrashCounts DEF Next, Agents
  <2>2. ASSUME RetryInv, UNCHANGED vars
        PROVE  RetryInv'
    BY <2>2 DEF vars, storeVars, bootVars, taskTables, agentVars, RetryInv, Counting,
       RetriesBounded, Used, WillRun, Queued
  <2>. QED
    BY <2>1, <2>2
<1>3. RetryInv => RetriesBounded
  BY DEF RetryInv
<1>. QED
  BY <1>1, <1>2, <1>3, BaseHolds, PTL DEF Spec

-----------------------------------------------------------------------------
(***************************************************************************)
(* Futures and answers: who takes a future out of the table, who answers   *)
(* it, and what the other steps leave alone.                               *)
(***************************************************************************)

\* A future leaves the table when its task is published, or in a crash.
LEMMA FuturesLeave ==
  ASSUME Next, NEW t \in Tasks, t \in futures, t \notin futures'
  PROVE  Crash \/ \E w \in Workers : cur[w] = t /\ (Publish(w) \/ PublishException(w))
<1>1. ASSUME NEW u \in Tasks,
             \/ SubmitLiveDuplicate(u) \/ SubmitRecentDuplicate(u) \/ SubmitFresh(u)
             \/ SubmitOnward(u)
      PROVE  FALSE
  BY <1>1 DEF SubmitLiveDuplicate, SubmitRecentDuplicate, SubmitFresh, SubmitOnward,
     SubmitCheckDependencies, SubmitHold, SubmitAware, SubmitEnqueue, askVars
<1>2. ASSUME NEW w \in Workers, WorkerStep(w)
      PROVE  cur[w] = t /\ (Publish(w) \/ PublishException(w))
  BY <1>2 DEF WorkerStep, TakeAndHold, HoldForPause, WorkerAware, HoldRaises, Take,
     Plan, Begin, Refused, RunDone, RunFail,
     RunRetry, RunProgress, RunEnd, Raise, Exhaust, Requeue, Retire, Record,
     Receipt, Publish, HandleException, PublishException, PublishTables, WorkerDies,
     askVars
<1>3. ASSUME NEW a \in Agents, PassStep(a) \/ HeartbeatStart(a)
      PROVE  FALSE
  BY <1>3 DEF PassStep, ExamineHeld, EndPass, EndPassKeyError, PassRaises,
     HeartbeatStart, askVars
<1>4. ASSUME BootStep \/ Environment
      PROVE  Crash
  BY <1>4 DEF BootStep, Start, Restore, Started, Environment, Pause, Unpause,
     Accept, ResolveHold, WorkReady, Expire, askVars
<1>. QED
  BY <1>1, <1>2, <1>3, <1>4 DEF Next, Agents

\* submit goes forward, from a fresh task with a future to a placed one.
LEMMA SubmitForward ==
  ASSUME Unraced, Base, Next, NEW t \in Tasks
  PROVE  /\ sub[t] = "done" => sub'[t] = "done"
         /\ sub'[t] \in Submitting =>
              sub[t] \in Submitting \/ t \in futures'
         /\ sub'[t] \in Submitting => ~Crash
         /\ stage[t] = "new" /\ stage'[t] # "new" =>
              sub[t] \in Submitting \/ t \in futures'
<1>0. CallTypes /\ StoreTypes /\ AgentTypes /\ MemoryTypes
  BY DEF Base, TypeInv, TypeOK
<1>. USE <1>0 DEF Submitting
<1>1. ASSUME NEW u \in Tasks,
             \/ SubmitLiveDuplicate(u) \/ SubmitRecentDuplicate(u) \/ SubmitFresh(u)
             \/ SubmitOnward(u)
      PROVE  /\ sub[t] = "done" => sub'[t] = "done"
             /\ sub'[t] \in Submitting =>
                  sub[t] \in Submitting \/ t \in futures'
             /\ stage[t] = "new" /\ stage'[t] # "new" =>
                  sub[t] \in Submitting \/ t \in futures'
  BY <1>1 DEF SubmitLiveDuplicate, SubmitRecentDuplicate, SubmitFresh, SubmitOnward,
     SubmitCheckDependencies, SubmitHold, SubmitAware, SubmitEnqueue, CallTypes,
     askVars, Save,
     StoreTypes, storeVars
<1>2. ASSUME NEW w \in Workers, WorkerStep(w)
      PROVE  UNCHANGED sub /\ (stage[t] = "new" => stage'[t] = "new")
  <2>1. UNCHANGED sub
    BY <1>2, WorkerCommon DEF Base
  <2>2. CASE TakeAndHold(w) \/ Take(w)
    <3>1. Head(queue) \in Tasks
      BY <2>2, QueueTasks DEF TakeAndHold, HoldForPause, Take
    <3>. QED
      BY <2>1, <2>2, <3>1 DEF TakeAndHold, HoldForPause, Take, Save, StoreTypes, storeVars
  <2>3. CASE OnTask(w)
    BY <1>2, <2>1, <2>3, WorkerOwns, OwnTask
  <2>4. CASE WorkerAware(w)
    BY <2>1, <2>4, WorkerSaves
  <2>. QED
    BY <1>2, <2>2, <2>3, <2>4, Excluded DEF OnTask
<1>3. ASSUME NEW a \in Agents, PassStep(a) \/ HeartbeatStart(a)
      PROVE  UNCHANGED <<sub, stage>>
  BY <1>3 DEF PassStep, ExamineHeld, EndPass, EndPassKeyError, PassRaises,
     HeartbeatStart, Save,
     StoreTypes, callVars, storeVars
<1>4. ASSUME BootStep \/ Environment
      PROVE  /\ sub[t] = "done" => sub'[t] = "done"
             /\ sub'[t] \in Submitting =>
                  sub[t] \in Submitting
             /\ stage[t] = "new" /\ stage'[t] # "new" => t \in futures'
  <2>1. CASE Crash
    BY <2>1 DEF Crash, CallTypes, storeVars
  <2>2. ASSUME NEW u \in Tasks, Restore(u)
        PROVE  UNCHANGED sub /\ (stage[t] = "new" /\ stage'[t] # "new" => t \in futures')
    BY <2>2 DEF Restore, Save, StoreTypes
  <2>3. ASSUME \/ Start \/ Started \/ Pause \/ Unpause \/ (\E u \in Tasks : Accept(u))
               \/ (\E x \in Works : WorkReady(x)) \/ \E k \in Keys : Expire(k)
        PROVE  UNCHANGED <<sub, stage>>
    BY <2>3 DEF Start, Started, Pause, Unpause, Accept, WorkReady, Expire, callVars,
       storeVars
  <2>. QED
    BY <1>4, <2>1, <2>2, <2>3, Excluded DEF BootStep, Environment
<1>5. Crash => \A u \in Tasks : sub'[u] \in {"idle", "done"}
  BY DEF Crash
<1>. QED
  BY <1>1, <1>2, <1>3, <1>4, <1>5 DEF Next, Agents

\* A submission in progress has its future in the table.
LEMMA SubmitterHolds == ASSUME Unraced PROVE Spec => []SubmitterKeeps
<1>1. Init => SubmitterKeeps
  BY DEF Init, SubmitterKeeps, Submitting
<1>2. Base /\ SubmitterKeeps /\ [Next]_vars => SubmitterKeeps'
  <2>1. ASSUME Base, SubmitterKeeps, Next, NEW t \in Tasks, sub'[t] \in Submitting
        PROVE  t \in futures'
    <3>1. CASE t \in futures'
      BY <3>1
    <3>2. CASE t \notin futures'
      <4>1. sub[t] \in Submitting /\ ~Crash
        BY <2>1, <3>2, SubmitForward
      <4>2. t \in futures
        BY <2>1, <4>1 DEF SubmitterKeeps
      <4>3. PICK w \in Workers : cur[w] = t
        BY <2>1, <3>2, <4>1, <4>2, FuturesLeave
      <4>. QED
        BY <2>1, <4>1, <4>3, Nowhere DEF Submitting
    <3>. QED
      BY <3>1, <3>2
  <2>2. SubmitterKeeps /\ UNCHANGED vars => SubmitterKeeps'
    BY DEF SubmitterKeeps, vars, callVars, askVars
  <2>. QED
    BY <2>1, <2>2 DEF SubmitterKeeps
<1>. QED
  BY <1>1, <1>2, BaseHolds, PTL DEF Spec

\* A task that enters the store has an open future.
LEMMA BornPending ==
  ASSUME Unraced, Base, SubmitterKeeps, Next, NEW t \in Tasks,
         stage[t] = "new", stage'[t] # "new"
  PROVE  t \in futures'
<1>1. CASE sub[t] \notin Submitting
  BY <1>1, SubmitForward
<1>2. CASE sub[t] \in Submitting
  <2>1. t \in futures
    BY <1>2 DEF SubmitterKeeps
  <2>2. ~Crash
    BY DEF Crash, storeVars
  <2>3. \A w \in Workers : cur[w] # t
    BY <1>2, Nowhere DEF Submitting
  <2>. QED
    BY <2>1, <2>2, <2>3, FuturesLeave
<1>. QED
  BY <1>1, <1>2

\* What the steps of others leave to a worker that has a task in hand.
LEMMA HandsOff ==
  ASSUME Unraced, Base, Next, ~Crash, NEW w \in Workers, pc[w] \in Busy,
         pc[w] # "release", ~WorkerStep(w)
  PROVE  /\ pc'[w] = pc[w] /\ cur'[w] = cur[w] /\ outcome'[w] = outcome[w]
         /\ stage'[cur[w]] = stage[cur[w]]
         /\ stored'[cur[w]] = stored[cur[w]] \/ LateSave(cur[w])
         /\ receipts \subseteq receipts' /\ resolves'[w] = resolves[w]
<1>0. /\ StoreTypes /\ MemoryTypes /\ AgentTypes /\ Passes /\ w \in Agents
  BY DEF Base, PlaceInv, TypeInv, TypeOK, Agents
<1>. USE <1>0
<1>1. PICK c \in Tasks : c = cur[w]
  BY OwnTask
<1>2. /\ ~Queued(c) /\ c \notin held /\ up = "up" /\ restoring = {}
      /\ \A v \in Workers : v # w /\ pc[v] # "release" => cur[v] # c
  BY <1>1, OwnTask
<1>3. ASSUME NEW u \in Tasks,
             \/ SubmitLiveDuplicate(u) \/ SubmitRecentDuplicate(u) \/ SubmitFresh(u)
             \/ SubmitOnward(u)
      PROVE  /\ stage'[c] = stage[c] /\ (stored'[c] = stored[c] \/ LateSave(c))
             /\ UNCHANGED receipts /\ UNCHANGED agentVars
  <2>0. CASE SubmitAware(u)
    BY <2>0, SubmitSaves DEF StoreTypes
  <2>. SUFFICES ASSUME ~SubmitAware(u)
                PROVE  /\ stage'[c] = stage[c] /\ stored'[c] = stored[c]
                       /\ UNCHANGED receipts /\ UNCHANGED agentVars
    BY <2>0
  <2>1. sub[u] \notin {"aware", "done"}
    BY <1>3 DEF SubmitLiveDuplicate, SubmitRecentDuplicate, SubmitFresh, SubmitOnward,
       SubmitCheckDependencies, SubmitHold, SubmitEnqueue
  <2>2. u # c
    BY <1>1, <2>1, Nowhere
  <2>. QED
    BY <1>3, <2>2 DEF SubmitLiveDuplicate, SubmitRecentDuplicate, SubmitFresh,
       SubmitOnward, SubmitCheckDependencies, SubmitHold, SubmitAware, SubmitEnqueue, Save,
       StoreTypes, storeVars
<1>4. ASSUME NEW v \in Workers, WorkerStep(v)
      PROVE  /\ pc'[w] = pc[w] /\ cur'[w] = cur[w] /\ outcome'[w] = outcome[w]
             /\ stage'[c] = stage[c] /\ stored'[c] = stored[c]
             /\ receipts \subseteq receipts' /\ resolves'[w] = resolves[w]
  <2>0. v # w /\ v \in Agents
    BY <1>4 DEF Agents
  <2>1. CASE TakeAndHold(v) \/ Take(v)
    <3>1. Head(queue) \in Tasks /\ Head(queue) # c
      BY <1>2, <2>1, QueueTasks, QueuedTail DEF TakeAndHold, HoldForPause, Take, MemoryTypes
    <3>. QED
      BY <2>0, <2>1, <3>1 DEF TakeAndHold, HoldForPause, Take, Save, StoreTypes,
         storeVars, agentVars,
         AgentTypes, Goto, passVars
  <2>2. CASE OnTask(v)
    <3>1. /\ cur[v] # c /\ stage'[c] = stage[c] /\ stored'[c] = stored[c]
          /\ receipts \subseteq receipts' /\ cur'[w] = cur[w] /\ pc'[w] = pc[w]
      BY <1>2, <1>4, <2>0, <2>2, WorkerOwns DEF Goto, AgentTypes
    <3>2. \/ UNCHANGED outcome \/ \E x : outcome' = [outcome EXCEPT ![v] = x]
      BY <1>4, <2>2 DEF WorkerStep, OnTask, HoldForPause, Plan, Begin, Refused, RunDone,
         RunFail, RunRetry,
         RunProgress, RunEnd, Raise, Exhaust, Requeue, Retire, Record, Receipt, Publish,
         HandleException, PublishException, WorkerDies
    <3>3. UNCHANGED resolves \/ \E x : resolves' = [resolves EXCEPT ![v] = x]
      BY <1>4, <2>2 DEF WorkerStep, OnTask, HoldForPause, Plan, Begin, Refused, RunDone,
         RunFail, RunRetry,
         RunProgress, RunEnd, Raise, Exhaust, Requeue, Retire, Record, Receipt, Publish,
         HandleException, PublishException, WorkerDies, StartPass, passVars
    <3>. QED
      BY <2>0, <3>1, <3>2, <3>3 DEF AgentTypes
  <2>3. CASE WorkerAware(v)
    <3>1. noted[v] # c /\ UNCHANGED <<cur, outcome, resolves, stage, receipts>>
      BY <1>2, <2>3, WorkerSaves
    <3>. QED
      BY <2>0, <2>3, <3>1, WorkerSaves DEF Goto, AgentTypes, StoreTypes
  <2>. QED
    BY <1>4, <2>1, <2>2, <2>3, Excluded DEF OnTask
<1>5. ASSUME NEW a \in Agents, PassStep(a) \/ (a \in Heartbeats /\ HeartbeatStart(a))
      PROVE  /\ pc'[w] = pc[w] /\ cur'[w] = cur[w] /\ outcome'[w] = outcome[w]
             /\ stage'[c] = stage[c] /\ stored'[c] = stored[c]
             /\ receipts \subseteq receipts' /\ resolves'[w] = resolves[w]
  <2>1. a # w
    <3>1. PassStep(a) => pc[a] = "release"
      BY DEF PassStep, ExamineHeld, EndPass, EndPassKeyError, PassRaises
    <3>. QED
      BY <1>5, <3>1, ConstantsAssumption DEF ConstantsAssumption
  <2>2. ASSUME NEW u \in Tasks, ExamineHeld(a, u)
        PROVE  /\ stage'[c] = stage[c] /\ stored'[c] = stored[c]
               /\ UNCHANGED <<receipts, pc, cur, outcome, resolves>>
    <3>1. u # c
      BY <1>2, <2>2 DEF ExamineHeld, Passes
    <3>. QED
      BY <2>2, <3>1 DEF ExamineHeld, Save, StoreTypes
  <2>3. ASSUME HeartbeatStart(a) \/ EndPass(a)
        PROVE  /\ UNCHANGED <<stage, stored, receipts, outcome>>
               /\ pc'[w] = pc[w] /\ cur'[w] = cur[w] /\ resolves'[w] = resolves[w]
    BY <2>1, <2>3 DEF HeartbeatStart, EndPass, StartPass, ClearPass, Drop, Goto,
       AgentTypes, storeVars
  <2>. QED
    BY <1>5, <2>2, <2>3, Excluded DEF PassStep
<1>6. ASSUME BootStep \/ Environment
      PROVE  UNCHANGED <<stage, stored, receipts, agentVars>>
  BY <1>2, <1>6, Excluded DEF BootStep, Start, Restore, Started, Environment, Pause,
     Unpause, Accept, WorkReady, Expire, storeVars
<1>7. UNCHANGED agentVars => UNCHANGED <<pc, cur, outcome, resolves>>
  BY DEF agentVars, passVars
<1>. QED
  BY <1>1, <1>3, <1>4, <1>5, <1>6, <1>7 DEF Next, Agents

\* A worker in its release pass stays in it until it lets go of its task.
LEMMA ReleaseStays ==
  ASSUME Unraced, Base, Next, NEW w \in Workers, pc[w] = "release"
  PROVE  \/ /\ pc'[w] = "release" /\ cur'[w] = cur[w] /\ outcome'[w] = outcome[w]
            /\ resolves'[w] = resolves[w]
         \/ cur'[w] = NoTask /\ resolves'[w] = {} /\ (EndPass(w) \/ Crash)
<1>0. AgentTypes /\ w \in Agents
  BY DEF Base, TypeInv, TypeOK, Agents
<1>. USE <1>0
<1>1. ASSUME NEW u \in Tasks,
             \/ SubmitLiveDuplicate(u) \/ SubmitRecentDuplicate(u) \/ SubmitFresh(u)
             \/ SubmitOnward(u)
      PROVE  UNCHANGED <<pc, cur, outcome, resolves>>
  BY <1>1 DEF SubmitLiveDuplicate, SubmitRecentDuplicate, SubmitFresh, SubmitOnward,
     SubmitCheckDependencies, SubmitHold, SubmitAware, SubmitEnqueue, agentVars, passVars
<1>2. ASSUME NEW v \in Workers, WorkerStep(v)
      PROVE  /\ pc'[w] = pc[w] /\ cur'[w] = cur[w] /\ outcome'[w] = outcome[w]
             /\ resolves'[w] = resolves[w]
  <2>1. v # w
    BY <1>2 DEF WorkerStep, TakeAndHold, HoldForPause, WorkerAware, HoldRaises, Take,
       Plan, Begin, Refused, RunDone, RunFail,
       RunRetry, RunProgress, RunEnd, Raise, Exhaust, Requeue, Retire, Record, Receipt,
       Publish, HandleException, PublishException, WorkerDies
  <2>2. /\ UNCHANGED pc \/ \E x : Goto(v, x)
        /\ UNCHANGED cur \/ \E x : cur' = [cur EXCEPT ![v] = x]
    BY <1>2 DEF WorkerStep, TakeAndHold, HoldForPause, WorkerAware, HoldRaises, Take,
       Plan, Begin, Refused, RunDone, RunFail,
       RunRetry, RunProgress, RunEnd, Raise, Exhaust, Requeue, Retire, Record, Receipt,
       Publish, HandleException, PublishException, WorkerDies, StartPass, Drop,
       agentVars
  <2>3. /\ UNCHANGED outcome \/ \E x : outcome' = [outcome EXCEPT ![v] = x]
        /\ UNCHANGED resolves \/ \E x : resolves' = [resolves EXCEPT ![v] = x]
    BY <1>2 DEF WorkerStep, TakeAndHold, HoldForPause, WorkerAware, HoldRaises, Take,
       Plan, Begin, Refused, RunDone, RunFail,
       RunRetry, RunProgress, RunEnd, Raise, Exhaust, Requeue, Retire, Record, Receipt,
       Publish, HandleException, PublishException, WorkerDies, StartPass, agentVars,
       passVars
  <2>. QED
    BY <2>1, <2>2, <2>3 DEF Goto, AgentTypes
<1>3. ASSUME NEW a \in Agents, PassStep(a) \/ (a \in Heartbeats /\ HeartbeatStart(a))
      PROVE  \/ /\ pc'[w] = "release" /\ cur'[w] = cur[w] /\ outcome'[w] = outcome[w]
                /\ resolves'[w] = resolves[w]
             \/ cur'[w] = NoTask /\ resolves'[w] = {} /\ EndPass(w)
  <2>1. CASE \E u \in Tasks : ExamineHeld(a, u)
    BY <2>1 DEF ExamineHeld
  <2>2. CASE EndPass(a)
    BY <2>2 DEF EndPass, ClearPass, Drop, Goto, AgentTypes
  <2>3. CASE a \in Heartbeats /\ HeartbeatStart(a)
    <3>1. a # w
      BY <2>3 DEF HeartbeatStart
    <3>. QED
      BY <2>3, <3>1 DEF HeartbeatStart, StartPass, Goto, AgentTypes
  <2>. QED
    BY <1>3, <2>1, <2>2, <2>3, Excluded DEF PassStep
<1>4. ASSUME BootStep \/ Environment, ~Crash
      PROVE  UNCHANGED <<pc, cur, outcome, resolves>>
  BY <1>4, Excluded DEF BootStep, Start, Restore, Started, Environment, Pause,
     Unpause, Accept, WorkReady, Expire, agentVars, passVars
<1>5. Crash => cur'[w] = NoTask /\ resolves'[w] = {}
  BY DEF Crash
<1>. QED
  BY <1>1, <1>2, <1>3, <1>4, <1>5 DEF Next, Agents

\* A worker that has no task in hand is given none by others.
LEMMA Elsewhere ==
  ASSUME Unraced, Base, Next, NEW w \in Workers, ~WorkerStep(w),
         pc[w] \notin Busy \/ pc[w] = "release"
  PROVE  pc'[w] \in {"idle", "release", pc[w]}
<1>0. AgentTypes /\ w \in Agents
  BY DEF Base, TypeInv, TypeOK, Agents
<1>. USE <1>0
<1>1. ASSUME NEW u \in Tasks,
             \/ SubmitLiveDuplicate(u) \/ SubmitRecentDuplicate(u) \/ SubmitFresh(u)
             \/ SubmitOnward(u)
      PROVE  UNCHANGED pc
  BY <1>1 DEF SubmitLiveDuplicate, SubmitRecentDuplicate, SubmitFresh, SubmitOnward,
     SubmitCheckDependencies, SubmitHold, SubmitAware, SubmitEnqueue, agentVars
<1>2. ASSUME NEW v \in Workers, WorkerStep(v)
      PROVE  pc'[w] = pc[w]
  <2>1. UNCHANGED pc \/ \E x : Goto(v, x)
    BY <1>2 DEF WorkerStep, TakeAndHold, HoldForPause, WorkerAware, HoldRaises, Take,
       Plan, Begin, Refused, RunDone, RunFail,
       RunRetry, RunProgress, RunEnd, Raise, Exhaust, Requeue, Retire, Record, Receipt,
       Publish, HandleException, PublishException, WorkerDies, StartPass, Drop,
       agentVars
  <2>. QED
    BY <1>2, <2>1 DEF Goto, AgentTypes
<1>3. ASSUME NEW a \in Agents, PassStep(a) \/ HeartbeatStart(a)
      PROVE  pc'[w] \in {"idle", "release", pc[w]}
  BY <1>3, Excluded DEF PassStep, ExamineHeld, EndPass, HeartbeatStart, StartPass, Drop,
     Goto, AgentTypes
<1>4. ASSUME BootStep \/ Environment
      PROVE  pc'[w] \in {"idle", pc[w]}
  BY <1>4 DEF BootStep, Start, Restore, Started, Environment, Crash, Pause, Unpause,
     Accept, ResolveHold, WorkReady, Expire, agentVars
<1>. QED
  BY <1>1, <1>2, <1>3, <1>4 DEF Next, Agents

\* Receipts are kept.
LEMMA ReceiptsGrow == ASSUME Unraced, Base, Next PROVE receipts \subseteq receipts'
<1>1. ASSUME NEW u \in Tasks,
             \/ SubmitLiveDuplicate(u) \/ SubmitRecentDuplicate(u) \/ SubmitFresh(u)
             \/ SubmitOnward(u)
      PROVE  UNCHANGED receipts
  BY <1>1 DEF SubmitLiveDuplicate, SubmitRecentDuplicate, SubmitFresh, SubmitOnward,
     SubmitCheckDependencies, SubmitHold, SubmitAware, SubmitEnqueue, storeVars
<1>2. ASSUME NEW w \in Workers, WorkerStep(w)
      PROVE  receipts \subseteq receipts'
  BY <1>2, WorkerOwns, WorkerSaves, Excluded
  DEF OnTask, TakeAndHold, HoldForPause, Take, storeVars
<1>3. ASSUME NEW a \in Agents, PassStep(a) \/ HeartbeatStart(a)
      PROVE  UNCHANGED receipts
  BY <1>3 DEF PassStep, ExamineHeld, EndPass, EndPassKeyError, PassRaises,
     HeartbeatStart, storeVars
<1>4. ASSUME BootStep \/ Environment
      PROVE  UNCHANGED receipts
  BY <1>4 DEF BootStep, Start, Restore, Started, Environment, Crash, Pause, Unpause,
     Accept, ResolveHold, WorkReady, Expire, storeVars
<1>. QED
  BY <1>1, <1>2, <1>3, <1>4 DEF Next, Agents

\* A submit that holds a task has a reason to.
LEMMA HoldReasonsHold == Spec => []HoldReasons
<1>1. Init => HoldReasons
  BY DEF Init, HoldReasons
<1>2. TypeInv /\ HoldReasons /\ [Next]_vars => HoldReasons'
  <2>. SUFFICES ASSUME TypeInv, HoldReasons, [Next]_vars PROVE HoldReasons'
    OBVIOUS
  <2>0. CallTypes /\ EnvTypes /\ MaxPauses \in Nat
    BY ConstantsAssumption DEF TypeInv, TypeOK, ConstantsAssumption
  <2>. USE <2>0 DEF HoldReasons
  <2>1. ASSUME NEW t \in Tasks,
               \/ SubmitLiveDuplicate(t) \/ SubmitRecentDuplicate(t)
               \/ SubmitEnqueue(t) \/ SubmitAware(t)
        PROVE  HoldReasons'
    BY <2>1 DEF SubmitLiveDuplicate, SubmitRecentDuplicate, SubmitEnqueue, SubmitAware,
       Holdable, CallTypes, envVars
  <2>2. ASSUME NEW t \in Tasks, SubmitFresh(t)
        PROVE  HoldReasons'
    <3>1. UNCHANGED paused /\ \A u \in Tasks \ {t} : sub'[u] = sub[u]
      BY <2>2 DEF SubmitFresh, CallTypes, envVars
    <3>2. sub'[t] = "checking" \/ (sub'[t] = "aware" /\ (GuardHolds(t) \/ PauseHolds(t)))
      BY <2>2 DEF SubmitFresh, CallTypes
    <3>3. GuardHolds(t) \/ PauseHolds(t) => Holdable(t)
      BY DEF GuardHolds, PauseHolds, Holdable
    <3>. QED
      BY <3>1, <3>2, <3>3 DEF Holdable
  <2>3. ASSUME NEW t \in Tasks, SubmitCheckDependencies(t)
        PROVE  HoldReasons'
    <3>1. ~DependenciesReady(t) => Deps[t] # {}
      BY DEF DependenciesReady
    <3>. QED
      BY <2>3, <3>1 DEF SubmitCheckDependencies, Holdable, envVars
  <2>4. ASSUME NEW t \in Tasks, SubmitHold(t)
        PROVE  HoldReasons'
    BY <2>4 DEF SubmitHold, Holdable, envVars
  <2>5. ASSUME NEW w \in Workers, WorkerStep(w)
        PROVE  UNCHANGED <<paused, sub>>
    BY <2>5 DEF WorkerStep, TakeAndHold, WorkerAware, HoldRaises, CountRaise, Take, Plan,
       Begin, Refused, RunDone, RunFail, RunRetry, RunProgress, RunEnd, Raise, Exhaust,
       Requeue, Retire, Record, Receipt, Publish, HandleException, PublishException,
       WorkerDies, envVars, callVars
  <2>6. ASSUME NEW a \in Agents, PassStep(a) \/ HeartbeatStart(a)
        PROVE  UNCHANGED <<paused, sub>>
    BY <2>6 DEF PassStep, ExamineHeld, EndPass, EndPassKeyError, PassRaises, CountRaise,
       HeartbeatStart, envVars, callVars
  <2>7. CASE BootStep
    BY <2>7 DEF BootStep, Start, Restore, Started, envVars, callVars
  <2>8. CASE Environment
    <3>0. Pause => MaxPauses > 0
      BY DEF Pause, EnvTypes
    <3>1. paused' => paused \/ Pause
      BY <2>8 DEF Environment, Crash, Unpause, Accept, ResolveHold, WorkReady, Expire,
         envVars
    <3>2. \A t \in Tasks : sub'[t] \in {"idle", "done", sub[t]}
      BY <2>8 DEF Environment, Crash, Pause, Unpause, Accept, ResolveHold, WorkReady,
         Expire, callVars
    <3>. QED
      BY <3>0, <3>1, <3>2 DEF Holdable
  <2>9. CASE UNCHANGED vars
    BY <2>9 DEF vars, envVars, callVars
  <2>. QED
    BY <2>1, <2>2, <2>3, <2>4, <2>5, <2>6, <2>7, <2>8, <2>9
    DEF Next, SubmitOnward, Holdable, Agents
<1>3. Spec => []TypeInv
  BY TypeCorrect, PTL DEF TypeInv
<1>. QED
  BY <1>1, <1>2, <1>3, PTL DEF Spec

\* A late save leaves a result, or none for a task that may be held.
LEMMA RecordedStays ==
  ASSUME HoldReasons, NEW t \in Tasks, NEW v, RecordedAs(t, v),
         stored'[t] = stored[t] \/ LateSave(t)
  PROVE  stored'[t] = v \/ (Holdable(t) /\ stored'[t] = "none")
  BY DEF HoldReasons, RecordedAs, LateSave

\* What is over stays over, with the same result unless a late save loses it.
LEMMA OverStays ==
  ASSUME Unraced, Base, Next, NEW t \in Tasks, Over(t)
  PROVE  Over(t)' /\ (stored'[t] = stored[t] \/ LateSave(t))
<1>1. /\ stage'[t] \in Ended /\ (stored'[t] = stored[t] \/ LateSave(t))
      /\ \A w \in Workers : cur'[w] = t => cur[w] = t /\ pc[w] = "release"
  BY EndedStays DEF Over
<1>2. t # NoTask
  BY ConstantsAssumption DEF ConstantsAssumption
<1>3. \A w \in Workers : cur'[w] = t => pc'[w] = "release"
  BY <1>1, <1>2, ReleaseStays
<1>. QED
  BY <1>1, <1>3, ReceiptsGrow DEF Over

\* A future is answered by the exception handler, or at the end of a pass.
LEMMA FutureAnswered ==
  ASSUME Unraced, Base, Next, NEW t \in Tasks, sub[t] # "idle",
         fut'[t] \in Verdict, fut'[t] # fut[t]
  PROVE  \E w \in Workers :
           \/ PublishException(w) /\ t \in Awaiting(cur[w]) /\ fut'[t] = "fail"
           \/ EndPass(w) /\ t \in resolves[w] /\ fut'[t] = outcome[w]
<1>0. CallTypes
  BY DEF Base, TypeInv, TypeOK
<1>. USE <1>0
<1>1. ASSUME NEW u \in Tasks,
             \/ SubmitLiveDuplicate(u) \/ SubmitRecentDuplicate(u) \/ SubmitFresh(u)
             \/ SubmitOnward(u)
      PROVE  FALSE
  BY <1>1 DEF SubmitLiveDuplicate, SubmitRecentDuplicate, SubmitFresh, SubmitOnward,
     SubmitCheckDependencies, SubmitHold, SubmitAware, SubmitEnqueue, CallTypes, callVars
<1>2. ASSUME NEW w \in Workers, WorkerStep(w)
      PROVE  PublishException(w) /\ t \in Awaiting(cur[w]) /\ fut'[t] = "fail"
  <2>1. PublishException(w)
    BY <1>2 DEF WorkerStep, TakeAndHold, HoldForPause, WorkerAware, HoldRaises, Take,
       Plan, Begin, Refused, RunDone, RunFail,
       RunRetry, RunProgress, RunEnd, Raise, Exhaust, Requeue, Retire, Record, Receipt,
       Publish, HandleException, WorkerDies, callVars
  <2>. QED
    BY <2>1 DEF PublishException, Resolved
<1>3. ASSUME NEW a \in Agents, PassStep(a) \/ HeartbeatStart(a)
      PROVE  a \in Workers /\ EndPass(a) /\ t \in resolves[a] /\ fut'[t] = outcome[a]
  <2>1. EndPass(a)
    BY <1>3 DEF PassStep, ExamineHeld, EndPassKeyError, PassRaises, HeartbeatStart, callVars
  <2>. QED
    BY <2>1 DEF EndPass, Resolved
<1>4. ASSUME BootStep \/ Environment
      PROVE  FALSE
  <2>1. ~Crash
    BY DEF Crash, Verdict
  <2>2. ~\E u \in Tasks : Restore(u)
    BY DEF Restore, Verdict, CallTypes
  <2>. QED
    BY <1>4, <2>1, <2>2 DEF BootStep, Start, Started, Environment, Pause, Unpause,
       Accept, ResolveHold, WorkReady, Expire, callVars
<1>. QED
  BY <1>1, <1>2, <1>3, <1>4 DEF Next, Agents

\* Only Publish gives a worker futures to answer.
LEMMA NothingToResolve ==
  ASSUME Unraced, Base, Next, NEW w \in Workers, pc[w] # "release",
         resolves[w] = {}, ~Publish(w)
  PROVE  resolves'[w] = {}
<1>0. AgentTypes /\ w \in Agents
  BY DEF Base, TypeInv, TypeOK, Agents
<1>. USE <1>0
<1>1. ASSUME NEW u \in Tasks,
             \/ SubmitLiveDuplicate(u) \/ SubmitRecentDuplicate(u) \/ SubmitFresh(u)
             \/ SubmitOnward(u)
      PROVE  UNCHANGED resolves
  BY <1>1 DEF SubmitLiveDuplicate, SubmitRecentDuplicate, SubmitFresh, SubmitOnward,
     SubmitCheckDependencies, SubmitHold, SubmitAware, SubmitEnqueue, agentVars, passVars
<1>2. ASSUME NEW v \in Workers, WorkerStep(v)
      PROVE  resolves'[w] = {}
  <2>1. CASE v = w
    BY <1>2, <2>1 DEF WorkerStep, TakeAndHold, HoldForPause, WorkerAware, HoldRaises,
       Take, Plan, Begin, Refused, RunDone,
       RunFail, RunRetry, RunProgress, RunEnd, Raise, Exhaust, Requeue, Retire, Record,
       Receipt, HandleException, PublishException, WorkerDies, StartPass, AgentTypes,
       agentVars, passVars
  <2>2. CASE v # w
    <3>1. UNCHANGED resolves \/ \E x : resolves' = [resolves EXCEPT ![v] = x]
      BY <1>2 DEF WorkerStep, TakeAndHold, HoldForPause, WorkerAware, HoldRaises, Take,
         Plan, Begin, Refused, RunDone, RunFail,
         RunRetry, RunProgress, RunEnd, Raise, Exhaust, Requeue, Retire, Record, Receipt,
         Publish, HandleException, PublishException, WorkerDies, StartPass, agentVars,
         passVars
    <3>. QED
      BY <2>2, <3>1 DEF AgentTypes
  <2>. QED
    BY <2>1, <2>2
<1>3. ASSUME NEW a \in Agents, PassStep(a) \/ HeartbeatStart(a)
      PROVE  resolves'[w] = {}
  BY <1>3 DEF PassStep, ExamineHeld, EndPass, EndPassKeyError, PassRaises, HeartbeatStart,
     StartPass, ClearPass, AgentTypes
<1>4. ASSUME BootStep \/ Environment
      PROVE  resolves'[w] = {}
  BY <1>4 DEF BootStep, Start, Restore, Started, Environment, Crash, Pause, Unpause,
     Accept, ResolveHold, WorkReady, Expire, agentVars, passVars
<1>. QED
  BY <1>1, <1>2, <1>3, <1>4 DEF Next, Agents

\* What a worker brings about when it answers for its own task.
LEMMA OwnOver ==
  ASSUME Unraced, Base, AnswerInv, NEW w \in Workers, pc[w] \in Published,
         NEW c, c = cur[w], UNCHANGED <<stage, stored, receipts>>,
         pc'[w] = "release" \/ cur'[w] = NoTask,
         \A v \in Workers \ {w} : pc'[v] = pc[v] /\ cur'[v] = cur[v]
  PROVE  /\ Over(c)'
         /\ stored'[c] = outcome[w] \/ (Holdable(c) /\ stored'[c] = "none")
<1>1. /\ stage[c] \in Ended /\ c # NoTask
      /\ \A v \in Workers : v # w /\ pc[v] # "release" => cur[v] # c
      /\ RecordedAs(c, outcome[w]) /\ c \in receipts
  BY OwnTask DEF Published, Busy, Base, PlaceInv, WorkerStages, AtEnd, Target,
     Ended, AnswerInv, WorkerResults, Recorded
<1>. QED
  BY <1>1 DEF Over, RecordedAs

\* A task with an answer stays over.
LEMMA AnsweredStays ==
  ASSUME Unraced, Base, Base', HoldReasons, SubmitterKeeps, AnswerInv, Next
  PROVE  Answered'
<1>. SUFFICES ASSUME NEW t \in Tasks, fut'[t] \in Verdict, stage'[t] # "new"
              PROVE  /\ stored'[t] = fut'[t] \/ (Holdable(t) /\ stored'[t] = "none")
                     /\ Over(t)'
  BY DEF Answered, RecordedAs, Holdable
<1>1. t \notin futures'
  BY DEF Base, PromiseInv, FuturesOpen, Verdict
<1>2. stage[t] # "new"
  BY <1>1, BornPending
<1>3. sub[t] # "idle"
  BY <1>2 DEF Base, PromiseInv, Unsubmitted
<1>4. CASE fut'[t] = fut[t]
  <2>1. RecordedAs(t, fut[t]) /\ Over(t)
    BY <1>2, <1>4 DEF AnswerInv, Answered
  <2>. QED
    BY <1>4, <2>1, OverStays, RecordedStays
<1>5. CASE fut'[t] # fut[t]
  <2>1. PICK w \in Workers :
           \/ PublishException(w) /\ t \in Awaiting(cur[w]) /\ fut'[t] = "fail"
           \/ EndPass(w) /\ t \in resolves[w] /\ fut'[t] = outcome[w]
    BY <1>3, <1>5, FutureAnswered
  <2>2. CASE PublishException(w) /\ t \in Awaiting(cur[w]) /\ fut'[t] = "fail"
    <3>1. t = cur[w]
      BY <1>2, <2>2 DEF Awaiting, AnswerInv, AliasNew
    <3>2. AgentTypes /\ outcome[w] = "fail" /\ pc[w] \in Published
      BY <2>2 DEF PublishException, AnswerInv, WorkerResults, Published, Base, TypeInv,
         TypeOK
    <3>3. /\ UNCHANGED <<stage, stored, receipts>> /\ cur'[w] = NoTask
          /\ \A v \in Workers \ {w} : pc'[v] = pc[v] /\ cur'[v] = cur[v]
      BY <2>2, <3>2 DEF PublishException, Drop, Goto, storeVars, AgentTypes, Agents
    <3>. QED
      BY <2>2, <3>1, <3>2, <3>3, OwnOver
  <2>3. CASE EndPass(w) /\ t \in resolves[w] /\ fut'[t] = outcome[w]
    <3>1. RecordedAs(t, outcome[w]) /\ Over(t)
      BY <1>2, <2>3 DEF AnswerInv, ResolvesOver
    <3>. QED
      BY <2>3, <3>1, OverStays, RecordedStays
  <2>. QED
    BY <2>1, <2>2, <2>3
<1>. QED
  BY <1>4, <1>5

\* The futures a worker is about to answer belong to a task that is over.
LEMMA ResolvesStay ==
  ASSUME Unraced, Base, Base', HoldReasons, SubmitterKeeps, AnswerInv, Next
  PROVE  ResolvesOver'
<1>. SUFFICES ASSUME NEW w \in Workers
              PROVE  /\ pc'[w] # "release" => resolves'[w] = {}
                     /\ \A t \in resolves'[w] : stage'[t] # "new" =>
                          /\ \/ stored'[t] = outcome'[w]
                             \/ Holdable(t) /\ stored'[t] = "none"
                          /\ Over(t)'
  BY DEF ResolvesOver, RecordedAs, Holdable
<1>0. AgentTypes /\ AgentTypes' /\ w \in Agents
  BY DEF Base, TypeInv, TypeOK, Agents
<1>1. CASE pc[w] = "release"
  <2>1. CASE cur'[w] = NoTask /\ resolves'[w] = {}
    BY <2>1
  <2>2. CASE /\ pc'[w] = "release" /\ cur'[w] = cur[w] /\ outcome'[w] = outcome[w]
             /\ resolves'[w] = resolves[w]
    <3>1. ASSUME NEW t \in resolves'[w], stage'[t] # "new"
          PROVE  /\ stored'[t] = outcome'[w] \/ (Holdable(t) /\ stored'[t] = "none")
                 /\ Over(t)'
      <4>1. t \in Tasks /\ t \notin futures'
        BY <1>0, <3>1 DEF AgentTypes, Base, PromiseInv, ResolvesTaken
      <4>2. stage[t] # "new"
        BY <3>1, <4>1, BornPending
      <4>3. RecordedAs(t, outcome[w]) /\ Over(t)
        BY <2>2, <3>1, <4>2 DEF AnswerInv, ResolvesOver
      <4>. QED
        BY <2>2, <4>1, <4>3, OverStays, RecordedStays
    <3>. QED
      BY <2>2, <3>1
  <2>. QED
    BY <1>1, <2>1, <2>2, ReleaseStays
<1>2. CASE pc[w] # "release" /\ ~Publish(w)
  BY <1>2, NothingToResolve DEF AnswerInv, ResolvesOver
<1>3. CASE Publish(w)
  <2>1. /\ pc[w] \in Published /\ pc'[w] = "release"
        /\ UNCHANGED <<stage, stored, receipts, cur, outcome>>
        /\ \A v \in Workers \ {w} : pc'[v] = pc[v]
        /\ resolves'[w] = Awaiting(cur[w])
    BY <1>0, <1>3 DEF Publish, StartPass, Goto, storeVars, AgentTypes, Agents, Published
  <2>2. ASSUME NEW c, c = cur[w]
        PROVE  /\ Over(c)'
               /\ stored'[c] = outcome'[w] \/ (Holdable(c) /\ stored'[c] = "none")
    BY <2>1, <2>2, OwnOver
  <2>3. \A t \in Awaiting(cur[w]) : t = cur[w] \/ stage[t] = "new"
    BY DEF Awaiting, AnswerInv, AliasNew
  <2>. QED
    BY <2>1, <2>2, <2>3
<1>. QED
  BY <1>1, <1>2, <1>3

\* A worker at its end has the result it recorded.
LEMMA ResultsStay ==
  ASSUME Unraced, Base, HoldReasons, AnswerInv, Next
  PROVE  WorkerResults'
<1>. SUFFICES ASSUME NEW w \in Workers
              PROVE  /\ pc'[w] \in Recorded =>
                          \/ stored'[cur'[w]] = outcome'[w]
                          \/ Holdable(cur'[w]) /\ stored'[cur'[w]] = "none"
                     /\ pc'[w] \in Published => cur'[w] \in receipts'
                     /\ pc'[w] \in {"xrecord", "xreceipt", "xpublish"} =>
                          outcome'[w] = "fail"
  BY DEF WorkerResults, RecordedAs, Holdable
<1>0. AgentTypes /\ StoreTypes /\ w \in Agents
  BY DEF Base, TypeInv, TypeOK, Agents
<1>. USE <1>0
<1>. DEFINE Late == Recorded \cup {"xrecord"}
<1>1. Late \subseteq Busy \ {"release"} /\ Published \subseteq Recorded
  BY DEF Recorded, Busy, Published
<1>2. CASE ~WorkerStep(w)
  <2>1. pc'[w] \in Late => pc[w] = pc'[w] /\ ~Crash
    <3>1. CASE pc[w] \in Busy /\ pc[w] # "release" /\ ~Crash
      BY <1>2, <3>1, HandsOff
    <3>2. CASE Crash
      BY <3>2 DEF Crash, Recorded
    <3>3. CASE pc[w] \notin Busy \/ pc[w] = "release"
      <4>1. pc'[w] \in {"idle", "release", pc[w]}
        BY <1>2, <3>3, Elsewhere
      <4>2. pc'[w] \notin Late
        BY <1>1, <3>3, <4>1 DEF Recorded
      <4>. QED
        BY <4>2
    <3>. QED
      BY <3>1, <3>2, <3>3
  <2>2. ASSUME pc'[w] \in Late
        PROVE  /\ pc'[w] = pc[w] /\ cur'[w] = cur[w] /\ outcome'[w] = outcome[w]
               /\ stored'[cur[w]] = stored[cur[w]] \/ LateSave(cur[w])
               /\ cur[w] \in Tasks /\ receipts \subseteq receipts'
    BY <1>1, <1>2, <2>1, <2>2, HandsOff, OwnTask
  <2>3. pc'[w] \in Recorded => RecordedAs(cur[w], outcome[w])
    BY <2>2 DEF AnswerInv, WorkerResults
  <2>4. pc'[w] \in Recorded =>
          \/ stored'[cur'[w]] = outcome'[w]
          \/ Holdable(cur'[w]) /\ stored'[cur'[w]] = "none"
    BY <1>1, <2>2, <2>3, RecordedStays
  <2>. QED
    BY <1>1, <2>2, <2>4 DEF AnswerInv, WorkerResults, Recorded
<1>3. CASE WorkerStep(w)
  <2>1. CASE Record(w) \/ Receipt(w)
    <3>1. cur[w] \in Tasks
      BY <2>1, OwnTask DEF Record, Receipt, Busy
    <3>. QED
      BY <2>1, <3>1 DEF Record, Receipt, SaveResult, Goto, Recorded, Published,
         AgentTypes, StoreTypes, AnswerInv, WorkerResults, RecordedAs
  <2>2. CASE HandleException(w)
    BY <2>2 DEF HandleException, Goto, Recorded, Published, AgentTypes
  <2>3. CASE ~Record(w) /\ ~Receipt(w) /\ ~HandleException(w)
    <3>1. PICK l \in {"plan", "execute", "run", "retry", "progress", "terminal",
                      "record", "release", "except", "idle", "dead", "aware"} : Goto(w, l)
      BY <1>3, <2>3 DEF WorkerStep, TakeAndHold, HoldForPause, WorkerAware, HoldRaises,
         Take, Plan, Begin, Refused, RunDone, RunFail, RunRetry, RunProgress, RunEnd,
         Raise, Exhaust, Requeue, Retire, Publish, PublishException, WorkerDies,
         StartPass, Drop
    <3>. QED
      BY <3>1 DEF Goto, AgentTypes, Recorded, Published
  <2>. QED
    BY <2>1, <2>2, <2>3
<1>. QED
  BY <1>2, <1>3

\* A duplicate is never worked on itself.
LEMMA AliasesStay ==
  ASSUME Unraced, Base, Base', SubmitterKeeps, AnswerInv, Next
  PROVE  AliasNew'
<1>. SUFFICES ASSUME NEW p \in aliases'
              PROVE  stage'[p[1]] = "new" /\ sub'[p[1]] = "done"
  BY DEF AliasNew
<1>1. PICK t \in Tasks : t = p[1]
  BY DEF Base, TypeInv, TypeOK, MemoryTypes
<1>2. t \notin futures'
  BY <1>1 DEF Base, PromiseInv, AliasesKnown
<1>3. CASE stage[t] = "new" /\ sub[t] = "done"
  BY <1>1, <1>2, <1>3, BornPending, SubmitForward
<1>4. CASE \E u \in Tasks : SubmitLiveDuplicate(u)
  <2>1. PICK u \in Tasks : SubmitLiveDuplicate(u)
    BY <1>4
  <2>2. CASE t = u
    <3>1. stage[u] = "new" /\ UNCHANGED stage /\ sub'[u] = "done"
      BY <2>1, Nowhere DEF SubmitLiveDuplicate, storeVars, Base, TypeInv, TypeOK, CallTypes
    <3>. QED
      BY <1>1, <2>2, <3>1
  <2>3. CASE t # u
    <3>1. p \in aliases
      BY <1>1, <2>1, <2>3 DEF SubmitLiveDuplicate
    <3>. QED
      BY <1>1, <1>3, <3>1 DEF AnswerInv, AliasNew
  <2>. QED
    BY <2>2, <2>3
<1>5. CASE ~\E u \in Tasks : SubmitLiveDuplicate(u)
  <2>1. aliases' \subseteq aliases
    <3>1. ASSUME NEW u \in Tasks,
                 SubmitRecentDuplicate(u) \/ SubmitFresh(u) \/ SubmitOnward(u)
          PROVE  UNCHANGED aliases
      BY <3>1 DEF SubmitRecentDuplicate, SubmitFresh, SubmitOnward,
         SubmitCheckDependencies, SubmitHold, SubmitAware, SubmitEnqueue, askVars
    <3>2. ASSUME NEW w \in Workers, WorkerStep(w)
          PROVE  aliases' \subseteq aliases
      BY <3>2 DEF WorkerStep, TakeAndHold, HoldForPause, WorkerAware, HoldRaises, Take,
         Plan, Begin, Refused, RunDone, RunFail,
         RunRetry, RunProgress, RunEnd, Raise, Exhaust, Requeue, Retire, Record,
         Receipt, Publish, HandleException, PublishException, PublishTables, WorkerDies,
         askVars
    <3>3. ASSUME NEW a \in Agents, PassStep(a) \/ HeartbeatStart(a)
          PROVE  UNCHANGED aliases
      BY <3>3 DEF PassStep, ExamineHeld, EndPass, EndPassKeyError, PassRaises,
         HeartbeatStart, askVars
    <3>4. ASSUME BootStep \/ Environment
          PROVE  aliases' \subseteq aliases
      BY <3>4 DEF BootStep, Start, Restore, Started, Environment, Crash, Pause, Unpause,
         Accept, ResolveHold, WorkReady, Expire, askVars
    <3>. QED
      BY <1>5, <3>1, <3>2, <3>3, <3>4 DEF Next, Agents
  <2>. QED
    BY <1>1, <1>3, <2>1 DEF AnswerInv, AliasNew
<1>. QED
  BY <1>4, <1>5

\* Answers, in the hands of a worker or given, agree with the store.
LEMMA AnswerInvHolds == ASSUME Unraced PROVE Spec => []AnswerInv
<1>1. Init => AnswerInv
  <2>1. Init => Answered /\ AliasNew
    BY DEF Init, Answered, AliasNew
  <2>2. Init => WorkerResults /\ ResolvesOver
    BY DEF Init, WorkerResults, ResolvesOver, Recorded, Published, Agents
  <2>. QED
    BY <2>1, <2>2 DEF AnswerInv
<1>2. Base /\ Base' /\ HoldReasons /\ SubmitterKeeps /\ AnswerInv /\ [Next]_vars
      => AnswerInv'
  <2>1. ASSUME Base, Base', HoldReasons, SubmitterKeeps, AnswerInv, Next
        PROVE  AnswerInv'
    BY <2>1, AnsweredStays, ResultsStay, ResolvesStay, AliasesStay DEF AnswerInv
  <2>2. ASSUME AnswerInv, UNCHANGED vars
        PROVE  AnswerInv'
    BY <2>2 DEF vars, storeVars, askVars, callVars, agentVars, passVars, AnswerInv,
       Answered, Over, WorkerResults, ResolvesOver, AliasNew, RecordedAs, Holdable
  <2>. QED
    BY <2>1, <2>2
<1>. QED
  BY <1>1, <1>2, BaseHolds, HoldReasonsHold, SubmitterHolds, PTL DEF Spec

\* A caller is told what the store records: when the future of a task is
\* answered, the answer is the task's recorded result and its receipt is on
\* file, and both stay so, whatever the bookkeeping raised and whether the
\* answer came from the worker or from its exception handler.  For a task that
\* may be held the row may have lost the result again, to the late save of its
\* submit; it never has another one.
THEOREM CallersToldTheRecord ==
  ASSUME Unraced
  PROVE  Spec => []AnswerMatchesRecord
<1>1. AnswerInv => AnswerMatchesRecord
  BY DEF AnswerInv, Answered, Over, AnswerMatchesRecord
<1>. QED
  BY <1>1, AnswerInvHolds, PTL

-----------------------------------------------------------------------------
(***************************************************************************)
(* No orphaned future: an open future is in the table, or with the worker  *)
(* that took it out to answer it.                                          *)
(***************************************************************************)

\* A task that was placed once is never new again.
LEMMA PlacedOnce ==
  ASSUME Unraced, Base, Next, NEW t \in Tasks, stage[t] # "new"
  PROVE  stage'[t] # "new"
<1>0. StoreTypes
  BY DEF Base, TypeInv, TypeOK
<1>. USE <1>0
<1>1. ASSUME NEW u \in Tasks,
             \/ SubmitLiveDuplicate(u) \/ SubmitRecentDuplicate(u) \/ SubmitFresh(u)
             \/ SubmitOnward(u)
      PROVE  stage'[t] # "new"
  BY <1>1 DEF SubmitLiveDuplicate, SubmitRecentDuplicate, SubmitFresh, SubmitOnward,
     SubmitCheckDependencies, SubmitHold, SubmitAware, SubmitEnqueue, Save, StoreTypes,
     storeVars
<1>2. ASSUME NEW w \in Workers, WorkerStep(w)
      PROVE  stage'[t] # "new"
  <2>1. \/ UNCHANGED stage \/ (\E u : Save(u, stage[u])) \/ (\E u, v : SaveResult(u, v))
        \/ \E u : \E s \in Stage \ {"new"} : Save(u, s)
    BY <1>2 DEF WorkerStep, TakeAndHold, HoldForPause, WorkerAware, HoldRaises, Take,
       Plan, Begin, Refused, RunDone, RunFail,
       RunRetry, RunProgress, RunEnd, Raise, Exhaust, Requeue, Retire, Record, Receipt,
       Publish, HandleException, PublishException, WorkerDies, Target, Stage, storeVars
  <2>. QED
    BY <2>1 DEF Save, SaveResult, StoreTypes
<1>3. ASSUME NEW a \in Agents, PassStep(a) \/ HeartbeatStart(a)
      PROVE  UNCHANGED stage
  BY <1>3 DEF PassStep, ExamineHeld, EndPass, EndPassKeyError, PassRaises,
     HeartbeatStart, Save,
     StoreTypes, storeVars
<1>4. ASSUME BootStep \/ Environment
      PROVE  stage'[t] # "new"
  BY <1>4, Excluded DEF BootStep, Start, Restore, Started, Environment, Crash, Pause,
     Unpause, Accept, WorkReady, Expire, Save, StoreTypes, storeVars
<1>. QED
  BY <1>1, <1>2, <1>3, <1>4 DEF Next, Agents

\* Where results come from, and futures.
LEMMA ResultsCome ==
  ASSUME Unraced, Base, Next, NEW t \in Tasks
  PROVE  /\ results'[t] \notin {"none", results[t]} =>
              \E w \in Workers : cur[w] = t /\ (Publish(w) \/ PublishException(w))
         /\ t \in futures' \ futures => stage[t] = "new" \/ up = "starting"
         /\ fut'[t] = "pending" /\ fut[t] # "pending" =>
              t \in futures' \/ (stage[t] = "new" /\ stage'[t] = "new")
         /\ up' # up => Crash \/ up # "up"
<1>0. StoreTypes /\ MemoryTypes /\ CallTypes
  BY DEF Base, TypeInv, TypeOK
<1>. USE <1>0
<1>1. ASSUME NEW u \in Tasks,
             \/ SubmitLiveDuplicate(u) \/ SubmitRecentDuplicate(u) \/ SubmitFresh(u)
             \/ SubmitOnward(u)
      PROVE  /\ UNCHANGED <<results, up>>
             /\ t \in futures' \ futures => stage[t] = "new"
             /\ fut'[t] = "pending" /\ fut[t] # "pending" =>
                  t \in futures' \/ (stage[t] = "new" /\ stage'[t] = "new")
  <2>0. CASE SubmitAware(u)
    BY <2>0, SubmitSaves DEF askVars, bootVars
  <2>. SUFFICES ASSUME ~SubmitAware(u)
                PROVE  /\ UNCHANGED <<results, up>>
                       /\ t \in futures' \ futures => stage[t] = "new"
                       /\ fut'[t] = "pending" /\ fut[t] # "pending" =>
                            t \in futures' \/ (stage[t] = "new" /\ stage'[t] = "new")
    BY <2>0
  <2>1. stage[u] = "new"
    BY <1>1, Nowhere DEF SubmitLiveDuplicate, SubmitRecentDuplicate, SubmitFresh,
       SubmitOnward, SubmitCheckDependencies, SubmitHold, SubmitAware, SubmitEnqueue
  <2>2. CASE SubmitLiveDuplicate(u)
    BY <2>1, <2>2 DEF SubmitLiveDuplicate, CallTypes, storeVars, bootVars
  <2>3. CASE SubmitRecentDuplicate(u)
    BY <2>1, <2>3, KeyInKeys DEF SubmitRecentDuplicate, CallTypes, MemoryTypes, Verdict,
       storeVars, bootVars, askVars
  <2>4. CASE SubmitFresh(u)
    BY <2>1, <2>4 DEF SubmitFresh, CallTypes, bootVars
  <2>5. CASE SubmitOnward(u)
    BY <2>5 DEF SubmitOnward, SubmitCheckDependencies, SubmitHold, SubmitAware,
       SubmitEnqueue,
       askVars, bootVars, callVars
  <2>. QED
    BY <1>1, <2>2, <2>3, <2>4, <2>5
<1>2. ASSUME NEW w \in Workers, WorkerStep(w)
      PROVE  /\ UNCHANGED up /\ futures' \subseteq futures
             /\ fut'[t] = "pending" => fut[t] = "pending"
             /\ results'[t] # results[t] =>
                  cur[w] = t /\ (Publish(w) \/ PublishException(w))
  BY <1>2 DEF WorkerStep, TakeAndHold, HoldForPause, WorkerAware, HoldRaises, Take,
     Plan, Begin, Refused, RunDone, RunFail,
     RunRetry, RunProgress, RunEnd, Raise, Exhaust, Requeue, Retire, Record, Receipt,
     Publish, HandleException, PublishException, PublishTables, WorkerDies, Resolved,
     MemoryTypes, askVars, bootVars, callVars
<1>3. ASSUME NEW a \in Agents, PassStep(a) \/ HeartbeatStart(a)
      PROVE  /\ UNCHANGED <<results, futures, up>>
             /\ fut'[t] = "pending" => fut[t] = "pending"
  <2>1. UNCHANGED fut \/ (fut' = Resolved(resolves[a], outcome[a]) /\ a \in Workers)
    BY <1>3 DEF PassStep, ExamineHeld, EndPass, EndPassKeyError, PassRaises,
       HeartbeatStart, callVars
  <2>2. \A w \in Workers : outcome[w] # "pending"
    BY DEF Base, TypeInv, TypeOK, AgentTypes, Verdict
  <2>3. UNCHANGED <<results, futures, up>>
    BY <1>3 DEF PassStep, ExamineHeld, EndPass, EndPassKeyError, PassRaises,
       HeartbeatStart, askVars,
       bootVars
  <2>. QED
    BY <2>1, <2>2, <2>3 DEF Resolved
<1>4. ASSUME BootStep \/ Environment
      PROVE  /\ results'[t] \in {"none", results[t]}
             /\ t \in futures' \ futures => up = "starting"
             /\ fut'[t] = "pending" /\ fut[t] # "pending" => t \in futures'
             /\ up' # up => Crash \/ up # "up"
  BY <1>4, Excluded DEF BootStep, Start, Restore, Started, Environment, Crash, Pause,
     Unpause, Accept, WorkReady, Expire, CallTypes, askVars, bootVars, callVars
<1>. QED
  BY <1>1, <1>2, <1>3, <1>4 DEF Next, Agents

\* An open future stays in the table or with the worker that answers it.
LEMMA FuturesStayKept ==
  ASSUME Unraced, Base, SubmitterKeeps, AnswerInv, FutureKept, Next
  PROVE  FutureKept'
<1>0. AgentTypes
  BY DEF Base, TypeInv, TypeOK
<1>. SUFFICES ASSUME NEW t \in Tasks, fut'[t] = "pending", stage'[t] # "new",
                     t \notin futures'
              PROVE  \E w \in Workers : t \in resolves'[w]
  BY DEF FutureKept
<1>1. stage[t] # "new"
  BY BornPending
<1>2. fut[t] = "pending"
  BY <1>1, ResultsCome
<1>3. CASE t \in futures
  <2>1. ~Crash
    BY DEF Crash
  <2>2. PICK w \in Workers : cur[w] = t /\ (Publish(w) \/ PublishException(w))
    BY <1>3, <2>1, FuturesLeave
  <2>3. t \in Awaiting(cur[w])
    BY <1>3, <2>2 DEF Awaiting
  <2>4. ~PublishException(w)
    BY <1>2, <2>3 DEF PublishException, Resolved
  <2>. QED
    BY <1>0, <2>2, <2>3, <2>4 DEF Publish, StartPass, Agents, AgentTypes
<1>4. CASE t \notin futures
  <2>1. PICK w \in Workers : t \in resolves[w]
    BY <1>1, <1>2, <1>4 DEF FutureKept
  <2>2. pc[w] = "release"
    BY <2>1 DEF AnswerInv, ResolvesOver
  <2>3. ~Crash
    BY DEF Crash
  <2>4. ~EndPass(w)
    <3>1. outcome[w] # "pending"
      BY <1>0 DEF AgentTypes, Verdict
    <3>. QED
      BY <1>2, <2>1, <3>1 DEF EndPass, Resolved
  <2>5. resolves'[w] = resolves[w]
    BY <2>2, <2>3, <2>4, ReleaseStays
  <2>. QED
    BY <2>1, <2>5
<1>. QED
  BY <1>3, <1>4

\* A task with a result has no future in the table.
LEMMA ResultsStayOut ==
  ASSUME Unraced, Base, ResultsOut, Next
  PROVE  ResultsOut'
<1>0. MemoryTypes
  BY DEF Base, TypeInv, TypeOK
<1>1. ASSUME NEW t \in Tasks, results'[t] # "none"
      PROVE  t \notin futures' /\ stage'[t] # "new" /\ up' = "up"
  <2>1. CASE results'[t] = results[t]
    <3>1. t \notin futures /\ stage[t] # "new" /\ up = "up"
      BY <1>1, <2>1 DEF ResultsOut
    <3>2. ~Crash
      BY <1>1 DEF Crash
    <3>. QED
      BY <3>1, <3>2, ResultsCome, PlacedOnce
  <2>2. CASE results'[t] # results[t]
    <3>1. PICK w \in Workers : cur[w] = t /\ (Publish(w) \/ PublishException(w))
      BY <1>1, <2>2, ResultsCome
    <3>2. stage[t] # "new" /\ up = "up"
      BY <3>1, OwnTask DEF Publish, PublishException, Busy
    <3>3. ~Crash
      BY <1>1 DEF Crash
    <3>4. t \notin futures'
      BY <3>1 DEF Publish, PublishException, PublishTables
    <3>. QED
      BY <3>2, <3>3, <3>4, ResultsCome, PlacedOnce
  <2>. QED
    BY <2>1, <2>2
<1>. QED
  BY <1>1 DEF ResultsOut

\* A result in the table leaves no caller behind: a future of the task that is
\* still open is in the hands of a worker that is on its way to answer it.  A
\* release pass that fails forgets the futures its worker took out, and two
\* racing passes may: both are what Unraced rules out for agents that hold tasks.
THEOREM NoFutureOrphaned ==
  ASSUME Unraced
  PROVE  Spec => []NoOrphanFuture
<1>1. Init => ResultsOut /\ FutureKept
  BY DEF Init, ResultsOut, FutureKept
<1>2. /\ Base /\ SubmitterKeeps /\ AnswerInv /\ ResultsOut /\ FutureKept
      /\ [Next]_vars
      => (ResultsOut /\ FutureKept)'
  <2>1. ASSUME Base, SubmitterKeeps, AnswerInv, ResultsOut, FutureKept, Next
        PROVE  (ResultsOut /\ FutureKept)'
    BY <2>1, ResultsStayOut, FuturesStayKept
  <2>2. ASSUME ResultsOut, FutureKept, UNCHANGED vars
        PROVE  (ResultsOut /\ FutureKept)'
    BY <2>2 DEF vars, storeVars, askVars, callVars, agentVars, passVars, bootVars,
       ResultsOut, FutureKept
  <2>. QED
    BY <2>1, <2>2
<1>3. ResultsOut /\ FutureKept => NoOrphanFuture
  BY DEF ResultsOut, FutureKept, NoOrphanFuture
<1>. QED
  BY <1>1, <1>2, <1>3, BaseHolds, SubmitterHolds, AnswerInvHolds, PTL DEF Spec

-----------------------------------------------------------------------------
(***************************************************************************)
(* What is recorded is recorded for good, as long as no exception is       *)
(* raised by the bookkeeping itself: the handler of such an exception      *)
(* records a failure over whatever was recorded.                           *)
(***************************************************************************)

\* A result enters the store by Record only.
LEMMA RecordStores ==
  ASSUME Unraced, Base, Next, NEW t \in Tasks, stored[t] = "none", stored'[t] # "none"
  PROVE  \E w \in Workers : cur[w] = t /\ Record(w)
<1>0. StoreTypes
  BY DEF Base, TypeInv, TypeOK
<1>. USE <1>0
<1>1. ASSUME NEW u \in Tasks,
             \/ SubmitLiveDuplicate(u) \/ SubmitRecentDuplicate(u) \/ SubmitFresh(u)
             \/ SubmitOnward(u)
      PROVE  FALSE
  BY <1>1 DEF SubmitLiveDuplicate, SubmitRecentDuplicate, SubmitFresh, SubmitOnward,
     SubmitCheckDependencies, SubmitHold, SubmitAware, SubmitEnqueue, Save, StoreTypes,
     storeVars
<1>2. ASSUME NEW w \in Workers, WorkerStep(w)
      PROVE  cur[w] = t /\ Record(w)
  <2>1. Record(w) \/ UNCHANGED stored \/ \E u, s : Save(u, s)
    BY <1>2 DEF WorkerStep, TakeAndHold, HoldForPause, WorkerAware, HoldRaises, Take,
       Plan, Begin, Refused, RunDone, RunFail,
       RunRetry, RunProgress, RunEnd, Raise, Exhaust, Requeue, Retire, Receipt, Publish,
       HandleException, PublishException, WorkerDies, storeVars
  <2>2. Record(w)
    BY <2>1 DEF Save, StoreTypes
  <2>. QED
    BY <2>2 DEF Record, SaveResult, StoreTypes
<1>3. ASSUME NEW a \in Agents, PassStep(a) \/ HeartbeatStart(a)
      PROVE  FALSE
  BY <1>3 DEF PassStep, ExamineHeld, EndPass, EndPassKeyError, PassRaises,
     HeartbeatStart, Save,
     StoreTypes, storeVars
<1>4. ASSUME BootStep \/ Environment
      PROVE  FALSE
  BY <1>4, Excluded DEF BootStep, Start, Restore, Started, Environment, Crash, Pause,
     Unpause, Accept, WorkReady, Expire, Save, StoreTypes, storeVars
<1>. QED
  BY <1>1, <1>2, <1>3, <1>4 DEF Next, Agents

\* After the result is recorded a worker only goes on to publish it.
LEMMA RecordedGoesOn ==
  ASSUME Unraced, "record" \notin Faults, Base, Next, NEW w \in Workers,
         pc[w] \in Recorded
  PROVE  /\ stored'[cur[w]] = stored[cur[w]] \/ LateSave(cur[w])
         /\ cur'[w] = NoTask \/ (cur'[w] = cur[w] /\ pc'[w] \in Recorded \cup {"release"})
<1>0. AgentTypes /\ w \in Agents /\ pc[w] \in Busy /\ pc[w] # "release"
  BY DEF Base, TypeInv, TypeOK, Agents, Recorded, Busy
<1>. USE <1>0
<1>1. CASE Crash
  BY <1>1 DEF Crash, storeVars
<1>2. CASE WorkerStep(w)
  <2>1. Receipt(w) \/ Publish(w) \/ PublishException(w) \/ WorkerDies(w)
    BY <1>2 DEF WorkerStep, TakeAndHold, HoldForPause, WorkerAware, HoldRaises, Take,
       Plan, Begin, Refused, RunDone, RunFail,
       RunRetry, RunProgress, RunEnd, Raise, Exhaust, Requeue, Retire, Record,
       HandleException, Recorded
  <2>. QED
    BY <2>1 DEF Receipt, Publish, StartPass, PublishException, WorkerDies, Drop, Goto,
       Recorded, AgentTypes, storeVars
<1>3. CASE ~Crash /\ ~WorkerStep(w)
  BY <1>3, HandsOff
<1>. QED
  BY <1>1, <1>2, <1>3

\* The two action properties hold of every step from the invariant.
LEMMA StoredStays ==
  ASSUME Unraced, "record" \notin Faults, Base, RecordInv, Next, NEW t \in Tasks,
         stored[t] # "none"
  PROVE  stored'[t] = stored[t] \/ LateSave(t)
<1>1. /\ stage[t] \in Ended
      /\ \A w \in Workers : cur[w] = t => pc[w] \in Recorded \cup {"release"}
  BY DEF RecordInv, StoredOver
<1>2. CASE \E w \in Workers : cur[w] = t /\ pc[w] \in Recorded
  BY <1>2, RecordedGoesOn
<1>3. CASE \A w \in Workers : cur[w] = t => pc[w] = "release"
  BY <1>1, <1>3, EndedStays
<1>. QED
  BY <1>1, <1>2, <1>3

\* No step takes a task out of DONE.
LEMMA DoneStays ==
  ASSUME Unraced, Base, RecordInv, Next, NEW t \in Tasks, stage[t] = "done"
  PROVE  stage'[t] = "done"
<1>0. StoreTypes /\ WorkerStages /\ IdleHand /\ t # NoTask /\ AgentTypes
  BY ConstantsAssumption DEF Base, PlaceInv, TypeInv, TypeOK, ConstantsAssumption
<1>. USE <1>0
<1>1. CASE \A w \in Workers : cur[w] = t => pc[w] = "release"
  BY <1>1, EndedStays DEF Ended
<1>2. CASE \E w \in Workers : cur[w] = t /\ pc[w] # "release"
  <2>1. PICK w \in Workers : cur[w] = t /\ pc[w] # "release"
    BY <1>2
  <2>2. pc[w] \in Busy
    BY <2>1 DEF IdleHand, AgentTypes, Labels, Agents
  <2>3. CASE Crash
    BY <2>3 DEF Crash, storeVars
  <2>4. CASE WorkerStep(w)
    <3>1. /\ pc[w] \notin {"plan", "execute", "run", "retry", "progress", "except"}
          /\ pc[w] \in AtEnd => Target(w) = "done" /\ outcome[w] = "ok"
      BY <2>1 DEF WorkerStages, RecordInv, ExceptRuns, Target, Ended
    <3>2. UNCHANGED stage \/ Save(t, "done") \/ SaveResult(t, "ok")
      BY <2>1, <2>2, <2>4, <3>1 DEF WorkerStep, TakeAndHold, HoldForPause, WorkerAware,
         HoldRaises, Take, Plan, Begin, Refused,
         RunDone, RunFail, RunRetry, RunProgress, RunEnd, Raise, Exhaust, Requeue,
         Retire, Record, Receipt, Publish, HandleException, PublishException,
         WorkerDies, AtEnd, Busy, storeVars
    <3>. QED
      BY <3>2 DEF Save, SaveResult, StoreTypes
  <2>5. CASE ~Crash /\ ~WorkerStep(w)
    BY <2>1, <2>2, <2>5, HandsOff
  <2>. QED
    BY <2>3, <2>4, <2>5
<1>. QED
  BY <1>1, <1>2

\* A stored result is of a task that is over, or on its way to be published.
LEMMA RecordInvHolds ==
  ASSUME Unraced, "record" \notin Faults
  PROVE  Spec => []RecordInv
<1>1. Init => RecordInv
  BY DEF Init, RecordInv, ExceptRuns, StoredOver, Agents
<1>2. ASSUME Base, RecordInv, Next
      PROVE  RecordInv'
  <2>0. AgentTypes /\ StoreTypes /\ WorkerStages
    BY <1>2 DEF Base, PlaceInv, TypeInv, TypeOK
  <2>1. ExceptRuns'
    <3>. SUFFICES ASSUME NEW w \in Workers, pc'[w] = "except"
                  PROVE  stage'[cur'[w]] \notin Ended
      BY DEF ExceptRuns
    <3>1. ~Crash /\ w \in Agents
      BY DEF Crash, Agents
    <3>2. CASE WorkerStep(w)
      <4>1. Raise(w)
        <5>1. ASSUME NEW l, Goto(w, l)
              PROVE  l = "except"
          BY <2>0, <3>1, <5>1 DEF Goto, AgentTypes
        <5>2. ~Retire(w)
          <6>1. pc[w] = "terminal" => stage[cur[w]] = Target(w)
            BY <2>0 DEF WorkerStages, AtEnd
          <6>2. pc[w] = "terminal" => cur[w] \in Tasks
            BY <1>2, OwnTask DEF Busy
          <6>. QED
            BY <1>2, <5>1, <6>1, <6>2, TableMoves DEF Retire, Target, Ended
        <5>. QED
          BY <1>2, <3>2, <5>1, <5>2, Excluded DEF WorkerStep, TakeAndHold, HoldForPause,
             WorkerAware, Take, Plan, Begin, RunDone, RunFail, RunRetry, RunProgress,
             RunEnd, Exhaust, Requeue, Record, Receipt, Publish, HandleException,
             PublishException, WorkerDies, StartPass, Drop
      <4>2. pc[w] \in {"plan", "execute", "run", "retry", "progress"}
        BY <4>1 DEF Raise
      <4>3. stage[cur[w]] \in {"queued", "planning", "executing", "recovering"}
        BY <2>0, <4>2 DEF WorkerStages
      <4>. QED
        BY <4>1, <4>3 DEF Raise, Ended, storeVars
    <3>3. CASE ~WorkerStep(w)
      <4>1. pc[w] \in Busy /\ pc[w] # "release"
        BY <1>2, <3>3, Elsewhere DEF Busy
      <4>. QED
        BY <1>2, <3>1, <3>3, <4>1, HandsOff DEF RecordInv, ExceptRuns
    <3>. QED
      BY <3>2, <3>3
  <2>2. StoredOver'
    <3>. SUFFICES ASSUME NEW t \in Tasks, stored'[t] # "none"
                  PROVE  /\ stage'[t] \in Ended
                         /\ \A w \in Workers : cur'[w] = t =>
                              pc'[w] \in Recorded \cup {"release"}
      BY DEF StoredOver
    <3>1. t # NoTask
      BY ConstantsAssumption DEF ConstantsAssumption
    <3>2. CASE stored[t] # "none"
      <4>1. /\ stage[t] \in Ended
            /\ \A w \in Workers : cur[w] = t => pc[w] \in Recorded \cup {"release"}
        BY <1>2, <3>2 DEF RecordInv, StoredOver
      <4>2. stage'[t] \in Ended /\ \A w \in Workers : cur'[w] = t => cur[w] = t
        BY <1>2, <4>1, EndedStays
      <4>3. \A w \in Workers : cur'[w] = t => pc'[w] \in Recorded \cup {"release"}
        BY <1>2, <3>1, <4>1, <4>2, RecordedGoesOn, ReleaseStays
      <4>. QED
        BY <4>2, <4>3
    <3>3. CASE stored[t] = "none"
      <4>1. PICK w \in Workers : cur[w] = t /\ Record(w)
        BY <1>2, <3>3, RecordStores
      <4>2. /\ stage'[t] \in Ended /\ pc'[w] \in Recorded /\ UNCHANGED cur
            /\ \A v \in Workers \ {w} : pc'[v] = pc[v]
        BY <2>0, <4>1 DEF Record, SaveResult, Goto, Recorded, Ended, StoreTypes,
           AgentTypes, Agents
      <4>3. \A v \in Workers : v # w /\ cur[v] = t => pc[v] = "release"
        BY <1>2, <4>1, OwnTask DEF Record, Busy
      <4>. QED
        BY <4>2, <4>3
    <3>. QED
      BY <3>2, <3>3
  <2>. QED
    BY <2>1, <2>2 DEF RecordInv
<1>3. RecordInv /\ UNCHANGED vars => RecordInv'
  BY DEF vars, storeVars, agentVars, RecordInv, ExceptRuns, StoredOver
<1>. QED
  BY <1>1, <1>2, <1>3, BaseHolds, PTL DEF Spec

\* A recorded result is never changed, and one save alone can clear it: that of
\* a submit that held the task and has yet to record the hold.  No save of a
\* worker or a pass, no second run and no restart touches it, if no exception
\* is raised in the bookkeeping, or under a hold or a release pass.
THEOREM ResultsKeptForGood ==
  ASSUME Unraced, "record" \notin Faults
  PROVE  Spec => RecordedForGood
<1>1. Base /\ RecordInv /\ [Next]_vars =>
        [ \A t \in Tasks : stored[t] # "none" =>
            \/ stored'[t] = stored[t]
            \/ sub[t] = "aware" /\ stored'[t] = "none" /\ stage'[t] = stage[t] ]_vars
  BY StoredStays DEF LateSave
<1>. QED
  BY <1>1, BaseHolds, RecordInvHolds, PTL DEF Spec, RecordedForGood

\* Nothing leaves DONE, as the lifecycle table says: neither a save that skips
\* the table nor the exception handler reaches a task that is done.
THEOREM DoneIsForGood ==
  ASSUME Unraced, "record" \notin Faults
  PROVE  Spec => DoneIsFinal
<1>1. Base /\ RecordInv /\ [Next]_vars =>
        [ \A t \in Tasks : stage[t] = "done" => stage'[t] = "done" ]_vars
  BY DoneStays
<1>. QED
  BY <1>1, BaseHolds, RecordInvHolds, PTL DEF Spec, DoneIsFinal

=============================================================================
