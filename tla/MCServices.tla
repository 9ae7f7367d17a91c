----------------------------- MODULE MCServices -----------------------------
(***************************************************************************)
(* Small instances of the services around the agent, checked together: an  *)
(* initial state picks the component whose steps are taken and the others  *)
(* keep still, so the state space is the sum of theirs.  Nothing they do   *)
(* in these modules touches another component's state.                     *)
(***************************************************************************)
EXTENDS ToolUseLoop, ConversationTurn, ConsolidationWorker, MemoryMaintenance,
        TelegramPoll, ProviderCircuit, WorkCycle, ProjectFlow, TLC

CONSTANTS
  Components,      \* the components of this run
  long, left, right,  \* turns of the tool loop
  last                \* a subtask that depends on the others

VARIABLE component
vars == <<component, loopVars, turnVars, workerVars, memoryVars, pollVars, circuitVars,
          cycleVars, planVars>>

Iterations == [t \in Turns |-> IF t = long THEN 3 ELSE 2]
Rounds == [t \in Turns |-> IF t = long THEN 3 ELSE 1]
Batches == [t \in Turns |-> IF t = right THEN 1 ELSE 2]
Retries == [t \in Turns |-> IF t = left THEN 1 ELSE 0]
Cast == [longTurn |-> {long}, twoTurns |-> {left, right}, leftTurn |-> {left}]
OneSession == [e \in Episodes |-> CHOOSE s \in Sessions : TRUE]
Messages == [u \in Updates |-> CASE u = 2 -> "ignored" [] u = 3 -> "notice" [] OTHER -> "chat"]
Join == [s \in Subtasks |-> IF s = last THEN Subtasks \ {last} ELSE {}]
Answers == [u \in Updates |-> IF u = 1 THEN 2 ELSE 1]

Init ==
  /\ component \in Components
  /\ LoopInit /\ TurnInit /\ WorkerInit /\ MemoryInit /\ TelegramInit /\ CircuitInit
  /\ CycleInit /\ ProjectInit

InTools(t, A) ==
  /\ component \in DOMAIN Cast /\ t \in Cast[component] /\ A
  /\ UNCHANGED <<component, turnVars, workerVars, memoryVars, pollVars, circuitVars, cycleVars,
                 planVars>>
InConversation(A) ==
  /\ component = "conversation" /\ A
  /\ UNCHANGED <<component, loopVars, workerVars, memoryVars, pollVars, circuitVars, cycleVars,
                 planVars>>
InWorker(A) ==
  /\ component = "worker" /\ A
  /\ UNCHANGED <<component, loopVars, turnVars, memoryVars, pollVars, circuitVars, cycleVars,
                 planVars>>
InMemory(A) ==
  /\ component = "memory" /\ A
  /\ UNCHANGED <<component, loopVars, turnVars, workerVars, pollVars, circuitVars, cycleVars,
                 planVars>>
InTelegram(A) ==
  /\ component = "telegram" /\ A
  /\ UNCHANGED <<component, loopVars, turnVars, workerVars, memoryVars, circuitVars, cycleVars,
                 planVars>>
InCircuit(A) ==
  /\ component = "circuit" /\ A
  /\ UNCHANGED <<component, loopVars, turnVars, workerVars, memoryVars, pollVars, cycleVars,
                 planVars>>
InWork(A) ==
  /\ component = "cycle" /\ A
  /\ UNCHANGED <<component, loopVars, turnVars, workerVars, memoryVars, pollVars, circuitVars,
                 planVars>>
InProject(A) ==
  /\ component = "project" /\ A
  /\ UNCHANGED <<component, loopVars, turnVars, workerVars, memoryVars, pollVars, circuitVars,
                 cycleVars>>

Next ==
  \/ \E t \in Turns : InTools(t, Begin(t) \/ Work(t) \/ FocusExpires)
  \/ InConversation(TurnNext) \/ InWorker(WorkerNext) \/ InMemory(MemoryNext)
  \/ InTelegram(TelegramNext) \/ InCircuit(CircuitNext)
  \/ InWork(CycleNext) \/ InProject(ProjectNext)

Spec == Init /\ [][Next]_vars

\* The fairness of each component's own specification.
Fairness ==
  /\ \A t \in Turns : WF_vars(InTools(t, Work(t)))
  /\ WF_vars(InConversation(\E p \in Processes : Boot(p)))
  /\ \A p \in Processes : WF_vars(InConversation(BootStep(p)))
  /\ \A m \in Requests : WF_vars(InConversation(TurnStep(m)))
  /\ \A r \in Runs : /\ WF_vars(InWorker(WorkerStep(r)))
                     /\ WF_vars(InWorker(Heartbeat(r)))
  /\ WF_vars(InWorker(ParentStep)) /\ WF_vars(InWorker(TalkStep))
  /\ WF_vars(InWorker(Quieten))
  /\ WF_vars(InTelegram(BotStep))

FairSpec == Spec /\ Fairness

\* The worker's promise, where the worker is the component that moves: no
\* fairness makes the rest of the program stop barring it or an interval pass.
ConsolidationComes == component = "worker" => Consolidates

\* What moves: the rest of a state is as it was in the beginning.
Moving ==
  <<component,
    CASE component \in DOMAIN Cast -> loopVars
      [] component = "conversation" -> turnVars
      [] component = "worker" -> workerVars
      [] component = "memory" -> memoryVars
      [] component = "telegram" -> pollVars
      [] component = "circuit" -> circuitVars
      [] component = "cycle" -> cycleVars
      [] component = "project" -> planVars>>

\* The type of what moves; the others keep their initial values.
TypesOK ==
  /\ component \in DOMAIN Cast => LoopTypeOK
  /\ component = "conversation" => TurnTypeOK
  /\ component = "worker" => WorkerTypeOK
  /\ component = "memory" => MemoryTypeOK
  /\ component = "telegram" => TelegramTypeOK
  /\ component = "circuit" => CircuitTypeOK
  /\ component = "cycle" => WorkTypeOK
  /\ component = "project" => ProjectTypeOK
=============================================================================
