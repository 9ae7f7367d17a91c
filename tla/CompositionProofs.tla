-------------------------- MODULE CompositionProofs --------------------------
(***************************************************************************)
(* The services side by side: what the run of MCServices checks of all of  *)
(* them holds of the whole they make, for every value of the constants and *)
(* whichever of them moves.  A step of the whole is a step of one service  *)
(* and leaves the variables of the others alone, so that the invariants of *)
(* the services, each proved of its own specification, hold together.      *)
(***************************************************************************)
EXTENDS MCServices, ToolUseLoopProofs, ServiceProofs, WorkProofs, TLAPS

-----------------------------------------------------------------------------
(* The steps of the whole are steps of its parts. *)

\* In every service a step of the whole is a step or nothing.
LEMMA PartsMove ==
  ASSUME [Next]_vars
  PROVE  /\ [LoopNext]_loopVars /\ [TurnNext]_turnVars /\ [WorkerNext]_workerVars
         /\ [MemoryNext]_memoryVars /\ [TelegramNext]_pollVars /\ [CircuitNext]_circuitVars
         /\ [CycleNext]_cycleVars /\ [ProjectNext]_planVars
<1>1. CASE UNCHANGED vars
  BY <1>1 DEF vars
<1>2. ASSUME NEW t \in Turns, InTools(t, Begin(t) \/ Work(t) \/ FocusExpires)
      PROVE  /\ [LoopNext]_loopVars
             /\ UNCHANGED <<turnVars, workerVars, memoryVars, pollVars, circuitVars,
                            cycleVars, planVars>>
  BY <1>2 DEF InTools, LoopNext
<1>3. CASE InConversation(TurnNext)
  BY <1>3 DEF InConversation
<1>4. CASE InWorker(WorkerNext)
  BY <1>4 DEF InWorker
<1>5. CASE InMemory(MemoryNext)
  BY <1>5 DEF InMemory
<1>6. CASE InTelegram(TelegramNext)
  BY <1>6 DEF InTelegram
<1>7. CASE InCircuit(CircuitNext)
  BY <1>7 DEF InCircuit
<1>8. CASE InWork(CycleNext)
  BY <1>8 DEF InWork
<1>9. CASE InProject(ProjectNext)
  BY <1>9 DEF InProject
<1>. QED
  BY <1>1, <1>2, <1>3, <1>4, <1>5, <1>6, <1>7, <1>8, <1>9 DEF Next

-----------------------------------------------------------------------------
(* The invariant of the whole. *)

MemoryInv == CitedInv /\ TailInv
CycleInv  == WorkTypeInv /\ RetireInv /\ OnceInv

ServicesInv ==
  /\ GuardInv /\ TurnInv /\ WorkerInv /\ MemoryInv /\ TelegramInv /\ CircuitInv
  /\ CycleInv /\ OrderInv /\ AwaitedAlone

\* All of them hold in the beginning.
LEMMA ServicesInitially == Init => ServicesInv
<1>. SUFFICES ASSUME Init PROVE ServicesInv
  OBVIOUS
<1>1. GuardInv
  BY GuardInvInit DEF Init
<1>2. TurnInv /\ WorkerInv /\ AwaitedAlone
  BY TurnInitially, WorkerInitially, AwaitedInitially DEF Init
<1>3. MemoryInv
  BY CitedInitially, TailInitially DEF Init, MemoryInv
<1>4. TelegramInv /\ CircuitInv
  BY TelegramInitially, CircuitInitially DEF Init
<1>5. CycleInv
  BY QueueInitially, CycleInitially DEF Init, CycleInv
<1>6. OrderInv
  BY ProjectInitially DEF Init
<1>. QED
  BY <1>1, <1>2, <1>3, <1>4, <1>5, <1>6 DEF ServicesInv

\* A step of the whole keeps what holds of each part.
LEMMA ServicesStep == ServicesInv /\ [Next]_vars => ServicesInv'
<1>. SUFFICES ASSUME ServicesInv, [Next]_vars PROVE ServicesInv'
  OBVIOUS
<1>0. /\ [LoopNext]_loopVars /\ [TurnNext]_turnVars /\ [WorkerNext]_workerVars
      /\ [MemoryNext]_memoryVars /\ [TelegramNext]_pollVars /\ [CircuitNext]_circuitVars
      /\ [CycleNext]_cycleVars /\ [ProjectNext]_planVars
  BY PartsMove
<1>1. GuardInv'
  BY <1>0, GuardStepInv DEF ServicesInv
<1>2. TurnInv' /\ WorkerInv' /\ AwaitedAlone'
  BY <1>0, TurnNextKeeps, WorkerNextKeeps, AwaitedStep DEF ServicesInv
<1>3. MemoryInv'
  BY <1>0, CitedStep, TailStep DEF ServicesInv, MemoryInv
<1>4. TelegramInv' /\ CircuitInv'
  BY <1>0, TelegramStep, CircuitStep DEF ServicesInv
<1>5. CycleInv'
  BY <1>0, WorkTypeStep, RetireStep, OnceStep DEF ServicesInv, CycleInv
<1>6. OrderInv'
  BY <1>0, ProjectStep DEF ServicesInv
<1>. QED
  BY <1>1, <1>2, <1>3, <1>4, <1>5, <1>6 DEF ServicesInv

\* They hold as long as the whole runs.
LEMMA ServicesInvHolds == Spec => []ServicesInv
<1>. QED
  BY ServicesInitially, ServicesStep, PTL DEF Spec

-----------------------------------------------------------------------------
(* What it means. *)

\* The types of all services, moving or not.
LEMMA TypesFollow ==
  ServicesInv => /\ LoopTypeOK /\ TurnTypeOK /\ WorkerTypeOK /\ MemoryTypeOK
                 /\ TelegramTypeOK /\ CircuitTypeOK /\ WorkTypeOK /\ ProjectTypeOK
<1>. SUFFICES ASSUME ServicesInv
              PROVE  /\ LoopTypeOK /\ TurnTypeOK /\ WorkerTypeOK /\ MemoryTypeOK
                     /\ TelegramTypeOK /\ CircuitTypeOK /\ WorkTypeOK /\ ProjectTypeOK
  OBVIOUS
<1>1. LoopTypeOK
  BY DEF ServicesInv, GuardInv, LoopInv
<1>2. TurnTypeOK /\ WorkerTypeOK
  BY DEF ServicesInv, TurnInv, WorkerInv
<1>3. MemoryTypeOK
  BY DEF ServicesInv, MemoryInv, CitedInv, Shapes
<1>4. TelegramTypeOK /\ CircuitTypeOK
  BY DEF ServicesInv, TelegramInv, CircuitInv
<1>5. WorkTypeOK
  BY WorkTypesFollow DEF ServicesInv, CycleInv
<1>6. ProjectTypeOK
  BY DEF ServicesInv, OrderInv, ProjectTypes
<1>. QED
  BY <1>1, <1>2, <1>3, <1>4, <1>5, <1>6

\* Every variable of every service stays within its type, whichever of them
\* moves: the tool loop's logs and counters, the markers, the worker's files, the
\* episodes, the batch of updates, the circuit, the queue of work and the plan.
THEOREM ServiceTypesCorrect == Spec => []TypesOK
<1>1. ServicesInv => TypesOK
  BY TypesFollow DEF TypesOK
<1>. QED
  BY <1>1, ServicesInvHolds, PTL

\* What the services promise, all at once.
Safe ==
  /\ OwnCallsAnswered /\ HistoryPaired /\ NoRunaway /\ FocusOwned
  /\ TurnRemembered /\ NoticeMeansOver /\ PreemptionIsNoFailure /\ OneEngine
  /\ SummaryFirst /\ TailKept /\ NothingSkipped /\ MessagesInOrder /\ FailuresBounded
  /\ DoneOnce /\ RetiredForGood /\ InOrder

\* The invariants of the services say what they promise.
LEMMA SafetyFollows == ServicesInv => Safe
<1>. SUFFICES ASSUME ServicesInv PROVE Safe
  OBVIOUS
<1>1. OwnCallsAnswered
  BY CallsFollow DEF ServicesInv, GuardInv
<1>2. HistoryPaired /\ FocusOwned
  BY DEF ServicesInv, GuardInv, LoopInv, Sound, History, HistoryPaired
<1>3. NoRunaway
  BY DEF ServicesInv, GuardInv, Guarded, Varied, MyCalls, Mine, NoRunaway
<1>4. TurnRemembered /\ NoticeMeansOver
  BY DEF ServicesInv, TurnInv, AnnouncedOver, NoticeMeansOver, Over, Underway
<1>5. PreemptionIsNoFailure /\ OneEngine
  BY DEF ServicesInv, WorkerInv, NoFalseFailure, PreemptionIsNoFailure, RequiresRetry,
     AwaitedAlone, OneEngine
<1>6. SummaryFirst /\ TailKept
  BY DEF ServicesInv, MemoryInv, CitedInv, TailInv
<1>7. NothingSkipped /\ MessagesInOrder
  BY DEF ServicesInv, TelegramInv
<1>8. FailuresBounded
  BY CallsCounted, CircuitAssumption
     DEF CircuitAssumption, ServicesInv, CircuitInv, CircuitTypeOK, FailuresToCome,
         FailuresBounded
<1>9. DoneOnce /\ RetiredForGood
  BY DEF ServicesInv, CycleInv, RetireInv, OnceInv, SuccessStands, DoneOnce
<1>10. InOrder
  BY DEF ServicesInv, OrderInv
<1>. QED
  BY <1>1, <1>2, <1>3, <1>4, <1>5, <1>6, <1>7, <1>8, <1>9, <1>10 DEF Safe

\* Side by side the services keep, at every moment and together, each promise
\* that was proved of it alone: no step of one reaches what another goes by.
THEOREM ServicesStaySafe == Spec => []Safe
<1>. QED
  BY SafetyFollows, ServicesInvHolds, PTL

=============================================================================
