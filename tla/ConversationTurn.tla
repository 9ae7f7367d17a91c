-------------------------- MODULE ConversationTurn --------------------------
(***************************************************************************)
(* A conversation turn and what is left of it after a crash:               *)
(* AgentRuntime.converse (opencas/runtime/agent_loop.py), the durable      *)
(* markers of runtime/conversation_recovery.py, the persisting helpers of  *)
(* runtime/conversation_turns.py, and the boot order of                    *)
(* runtime/lifecycle.py under the instance lock.                           *)
(*                                                                         *)
(* A turn is one user message.  How its answer is made is ToolUseLoop's    *)
(* subject; here the answer comes or an exception does.  What is on disk   *)
(* survives a crash: the markers and the context store.                    *)
(***************************************************************************)
EXTENDS Naturals, FiniteSets

CONSTANTS
  Processes,        \* OpenCAS processes started on one state directory
  Requests,         \* user messages
  AuditOnly,        \* messages of audit-only turns
  Nobody,
  DiskFaults,       \* marker files whose write or unlink may fail
  MaxLives          \* bound: crashes

ASSUME ConversationAssumption ==
  /\ AuditOnly \subseteq Requests /\ Nobody \notin Processes \cup Requests
  /\ DiskFaults \subseteq {"start", "complete"} /\ MaxLives \in Nat

VARIABLES
  lock,             \* who holds run.lock
  life, pending,    \* of a process: its phase, the markers it has to announce,
  telling,          \* ... and the one it has announced and not yet completed
  at, host,         \* of a turn: its phase, the process that runs it
  active, completed,\* the marker files
  said, answered,   \* the context store: user messages, answers to them
  notices,          \* ... and how often a turn was announced as interrupted
  unmarked,         \* turns whose marker could not be written (history)
  crashed           \* how many crashes there were (bound)

diskVars == <<active, completed, said, answered, notices>>
turnVars == <<lock, life, pending, telling, at, host, diskVars, unmarked, crashed>>

Underway == {"marked", "refusing", "asked", "answered"}

TurnTypeOK ==
  /\ lock \in Processes \cup {Nobody}
  /\ life \in [Processes -> {"down", "recovering", "serving"}]
  /\ pending \in [Processes -> SUBSET Requests]
  /\ telling \in [Processes -> Requests \cup {Nobody}]
  /\ at \in [Requests -> {"new", "done", "failed", "lost"} \cup Underway]
  /\ host \in [Requests -> Processes \cup {Nobody}]
  /\ {active, completed, said, answered, unmarked} \subseteq SUBSET Requests
  /\ notices \in [Requests -> Nat] /\ crashed \in 0..MaxLives

TurnInit ==
  /\ lock = Nobody
  /\ life = [p \in Processes |-> "down"] /\ pending = [p \in Processes |-> {}]
  /\ telling = [p \in Processes |-> Nobody]
  /\ at = [m \in Requests |-> "new"] /\ host = [m \in Requests |-> Nobody]
  /\ active = {} /\ completed = {} /\ said = {} /\ answered = {}
  /\ notices = [m \in Requests |-> 0]
  /\ unmarked = {} /\ crashed = 0

-----------------------------------------------------------------------------
(***************************************************************************)
(* The markers.                                                            *)
(***************************************************************************)
\* start_conversation_turn_marker; converse goes on when it fails.
StartMarker(m) ==
  \/ active' = active \cup {m} /\ UNCHANGED unmarked
  \/ "start" \in DiskFaults /\ unmarked' = unmarked \cup {m} /\ UNCHANGED active

\* complete_conversation_turn_marker: nothing without an active file; the
\* completed file is written, the active one unlinked, which may fail.
CompleteMarker(m) ==
  \/ m \in active /\ active' = active \ {m} /\ completed' = completed \cup {m}
  \/ m \notin active /\ UNCHANGED <<active, completed>>
  \/ /\ "complete" \in DiskFaults /\ m \in active
     /\ completed' = completed \cup {m} /\ UNCHANGED active

-----------------------------------------------------------------------------
(***************************************************************************)
(* Boot and recovery.                                                      *)
(***************************************************************************)
\* Wrong: the process starts whoever holds the lock.
MayBootAnyway(p) == life[p] = "down"

\* SingleInstanceLock.acquire, else the process gives up.
MayBoot(p) == life[p] = "down" /\ lock = Nobody

\* The process takes the lock and loads the active markers.
Boot(p) ==
  /\ MayBoot(p)
  /\ lock' = p
  /\ life' = [life EXCEPT ![p] = "recovering"]
  /\ pending' = [pending EXCEPT ![p] = active]
  /\ UNCHANGED <<telling, at, host, diskVars, unmarked, crashed>>

\* Wrong: a turn whose message was stored needs no notice.
SkippedStored == AuditOnly \cup said

\* Turns that are recovered without a notice.
Skipped == AuditOnly

\* The notice of an interrupted turn is appended to its session ...
Announce(p) ==
  /\ life[p] = "recovering" /\ telling[p] = Nobody
  /\ \E m \in pending[p] \ Skipped :
       /\ notices' = [notices EXCEPT ![m] = @ + 1]
       /\ telling' = [telling EXCEPT ![p] = m]
  /\ UNCHANGED <<lock, life, pending, at, host, active, completed, said, answered,
                 unmarked, crashed>>

\* ... and then its marker is completed.
Recover(p) ==
  /\ life[p] = "recovering"
  /\ \E m \in pending[p] :
       /\ telling[p] = m \/ (telling[p] = Nobody /\ m \in Skipped)
       /\ CompleteMarker(m)
       /\ pending' = [pending EXCEPT ![p] = @ \ {m}]
  /\ telling' = [telling EXCEPT ![p] = Nobody]
  /\ UNCHANGED <<lock, life, at, host, said, answered, notices, unmarked, crashed>>

\* Wrong: the program is started before the markers are looked at.
ServeAtOnce(p) ==
  /\ life[p] = "recovering"
  /\ life' = [life EXCEPT ![p] = "serving"]
  /\ UNCHANGED <<lock, pending, telling, at, host, diskVars, unmarked, crashed>>

\* The scheduler, Telegram and the server start when recovery is over.
Serve(p) ==
  /\ life[p] = "recovering" /\ pending[p] = {}
  /\ life' = [life EXCEPT ![p] = "serving"]
  /\ UNCHANGED <<lock, pending, telling, at, host, diskVars, unmarked, crashed>>

\* The process dies: the system drops its lock, its turns are gone.
Crash(p) ==
  /\ life[p] # "down" /\ crashed < MaxLives
  /\ crashed' = crashed + 1
  /\ lock' = IF lock = p THEN Nobody ELSE lock
  /\ life' = [life EXCEPT ![p] = "down"]
  /\ pending' = [pending EXCEPT ![p] = {}]
  /\ telling' = [telling EXCEPT ![p] = Nobody]
  /\ at' = [m \in Requests |-> IF host[m] = p /\ at[m] \in Underway THEN "lost" ELSE at[m]]
  /\ UNCHANGED <<host, diskVars, unmarked>>

-----------------------------------------------------------------------------
(***************************************************************************)
(* A turn.                                                                 *)
(***************************************************************************)
bootVars == <<lock, life, pending, telling, crashed>>

Move(m, from, to) == at[m] \in from /\ at' = [at EXCEPT ![m] = to]
Alive(m) == host[m] # Nobody /\ at[m] \in Underway

\* converse: the marker comes before anything is stored.
Receive(p, m) ==
  /\ life[p] = "serving"
  /\ Move(m, {"new"}, "marked")
  /\ host' = [host EXCEPT ![m] = p]
  /\ StartMarker(m)
  /\ UNCHANGED <<bootVars, completed, said, answered, notices>>

\* persist_user_turn, or handle_refusal_turn when the refusal gate says so.
StoreRequest(m) ==
  /\ Alive(m) /\ (Move(m, {"marked"}, "asked") \/ Move(m, {"marked"}, "refusing"))
  /\ said' = said \cup {m}
  /\ UNCHANGED <<bootVars, host, active, completed, answered, notices, unmarked>>

\* The end of handle_refusal_turn, or finalize_assistant_turn's first append.
StoreAnswer(m) ==
  /\ Alive(m) /\ Move(m, {"asked", "refusing"}, "answered")
  /\ answered' = answered \cup {m}
  /\ UNCHANGED <<bootVars, host, active, completed, said, notices, unmarked>>

\* The marker is completed when the answer is stored; a failure is traced.
Finish(m) ==
  /\ Alive(m) /\ Move(m, {"answered"}, "done")
  /\ \/ m \notin unmarked /\ CompleteMarker(m)
     \/ /\ m \in unmarked \/ "complete" \in DiskFaults
        /\ UNCHANGED <<active, completed>>
  /\ UNCHANGED <<bootVars, host, said, answered, notices, unmarked>>

\* An exception of the gate, the loop, a store or the rest of finalize leaves
\* converse; its marker stays.
Fail(m) ==
  /\ Alive(m) /\ Move(m, Underway, "failed")
  /\ UNCHANGED <<bootVars, host, active, completed, said, answered, notices, unmarked>>

TurnStep(m) == StoreRequest(m) \/ StoreAnswer(m) \/ Finish(m) \/ Fail(m)
BootStep(p) == Announce(p) \/ Recover(p) \/ Serve(p)

TurnNext ==
  \/ \E p \in Processes : Boot(p) \/ BootStep(p) \/ Crash(p)
  \/ \E p \in Processes, m \in Requests : Receive(p, m)
  \/ \E m \in Requests : TurnStep(m)

\* Someone starts the program again, a boot goes on, and a turn's awaits end.
TurnFairness ==
  /\ WF_turnVars(\E p \in Processes : Boot(p))
  /\ \A p \in Processes : WF_turnVars(BootStep(p))
  /\ \A m \in Requests : WF_turnVars(TurnStep(m))

TurnSpec == TurnInit /\ [][TurnNext]_turnVars /\ TurnFairness

-----------------------------------------------------------------------------
(***************************************************************************)
(* Properties.                                                             *)
(***************************************************************************)
\* A stored message whose turn is over was answered, announced as interrupted,
\* or will be at the next boot: its marker is active.  Only a turn without a
\* marker or an audit-only turn may be forgotten, whenever the process dies.
TurnRemembered ==
  \A m \in said : at[m] \notin Underway =>
    m \in answered \cup active \cup unmarked \cup AuditOnly \/ notices[m] > 0

\* No turn is announced as interrupted while it goes on, though a second
\* process may be started at any moment.
NoticeMeansOver == \A m \in Requests : notices[m] > 0 => at[m] \notin Underway

\* A stored message is in the end answered, or its turn raised, or the user is
\* told that it was interrupted.
InterruptedIsTold ==
  \A m \in Requests \ AuditOnly :
    (m \in said) ~> (m \in answered \cup unmarked \/ at[m] = "failed" \/ notices[m] > 0)
=============================================================================
