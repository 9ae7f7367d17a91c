-------------------------- MODULE MemoryMaintenance --------------------------
(***************************************************************************)
(* The episodes of the memory store and the two jobs that work them off:   *)
(* conversation compaction (opencas/compaction/compactor.py), started      *)
(* after a response (runtime/conversation_turns.py) and by the backlog     *)
(* sweeps (runtime/maintenance_runtime.py), and the nightly consolidation  *)
(* engine (consolidation/engine.py, consolidation/signal_maintenance.py),  *)
(* which runs in a process of its own on the same SQLite file.             *)
(*                                                                         *)
(* An action runs from one await to the next.  A memory is reduced to the  *)
(* episodes it cites; a salience to whether it is below the threshold of   *)
(* pruning.                                                                *)
(***************************************************************************)
EXTENDS Integers, FiniteSets

CONSTANTS
  Episodes,       \* 1..n, in the order of their creation
  Sessions,
  SessionOf,      \* [Episodes -> Sessions]
  AfterResponse,  \* compactions scheduled after responses
  Sweeps,         \* backlog sweeps
  TailSize,       \* what a compaction leaves alone: tail_size
  MinRemoved,     \* _COMPACTION_MIN_REMOVED_COUNT
  MinLag,         \* min_session_lag
  MaxCycles       \* bound: consolidation cycles

Compactors == AfterResponse \cup Sweeps

ASSUME MemoryAssumption ==
  /\ IsFiniteSet(Episodes) /\ Episodes = 1..Cardinality(Episodes)
  /\ SessionOf \in [Episodes -> Sessions]
  /\ AfterResponse \cap Sweeps = {}
  /\ {TailSize, MinRemoved, MinLag, MaxCycles} \subseteq Nat /\ MinRemoved > 0

VARIABLES
  appended,       \* how many episodes were ever saved
  rows,           \* the episodes that have a row, and of these
  compacted, core, faded,
  summed,         \* episodes cited by a memory of a compaction
  distilled,      \* episodes cited by a memory of consolidation
  job,            \* of a compactor: its step, its session, what it listed
  queue,          \* sessions a sweep has still to compact
  inflight,       \* _session_compaction_inflight
  cooling,        \* sessions within the cooldown
  phase,          \* where the consolidation engine is
  cand, candCore, candFaded,  \* its candidates: copies of rows
  consumed,       \* those it put into a memory
  todo,           \* candidates the present step has still to visit
  fresh,          \* the row read for an identity-core promotion
  cycles          \* how many cycles there were (bound)

rowVars == <<rows, compacted, core, faded>>
jobVars == <<job, queue, inflight, cooling>>
copyVars == <<cand, candCore, candFaded>>
engineVars == <<phase, copyVars, consumed, todo, fresh, cycles>>
memoryVars == <<appended, rowVars, summed, distilled, jobVars, engineVars>>

NoRow == [of |-> 0, compacted |-> FALSE, faded |-> FALSE]

MemoryTypeOK ==
  /\ appended \in 0..Cardinality(Episodes)
  /\ {rows, summed, distilled, cand} \subseteq SUBSET (1..appended)
  /\ {compacted, core, faded} \subseteq SUBSET rows
  /\ \A c \in Compactors : /\ job[c].step \in {"idle", "summarising", "saved"}
                           /\ job[c].batch \subseteq 1..appended
  /\ queue \in [Sweeps -> SUBSET Sessions]
  /\ inflight \subseteq Sessions /\ cooling \subseteq Sessions
  /\ phase \in {"off", "clusters", "signals", "core", "reweigh", "prune"}
  /\ {candCore, candFaded, consumed, todo} \subseteq SUBSET cand
  /\ fresh.of \in cand \cup {0} /\ cycles \in 0..MaxCycles

Idle == [step |-> "idle", in |-> {}, batch |-> {}]

MemoryInit ==
  /\ appended = 0 /\ rows = {} /\ compacted = {} /\ core = {} /\ faded = {}
  /\ summed = {} /\ distilled = {}
  /\ job = [c \in Compactors |-> Idle] /\ queue = [c \in Sweeps |-> {}]
  /\ inflight = {} /\ cooling = {}
  /\ phase = "off" /\ cand = {} /\ candCore = {} /\ candFaded = {}
  /\ consumed = {} /\ todo = {} /\ fresh = NoRow /\ cycles = 0

-----------------------------------------------------------------------------
(***************************************************************************)
(* Conversation compaction.                                                *)
(***************************************************************************)
\* Wrong: a row that is gone is marked too.
MarkedMissing(S) == compacted \cup S

\* mark_compacted: an UPDATE of the rows that are still there.
Marked(S) == compacted \cup (S \cap rows)

\* A turn records an episode.
RecordEpisode ==
  /\ appended + 1 \in Episodes
  /\ appended' = appended + 1 /\ rows' = rows \cup {appended + 1}
  /\ UNCHANGED <<compacted, core, faded, summed, distilled, jobVars, engineVars>>

\* list_non_compacted_episodes(session_id=s)
Backlog(s) == {e \in rows \ compacted : SessionOf[e] = s}

\* Wrong: one of the tail goes too.
OldOverlapping(s) ==
  {e \in Backlog(s) : Cardinality({x \in Backlog(s) : x > e}) + 1 >= TailSize}

\* episodes[: len(episodes) - tail_size]
Old(s) == {e \in Backlog(s) : Cardinality({x \in Backlog(s) : x > e}) >= TailSize}

\* compact_session lists the session; too little, and it returns None.
List(c, s, least) ==
  job' = [job EXCEPT ![c] =
    IF Cardinality(Old(s)) < least THEN Idle
    ELSE [step |-> "summarising", in |-> {s}, batch |-> Old(s)]]

\* _maybe_compact_manifest after a response: not while one of the same
\* session is in flight or cooling down.
AfterTurn(c) ==
  /\ job[c].step = "idle"
  /\ \E s \in Sessions \ (inflight \cup cooling) :
       /\ List(c, s, MinRemoved)
       /\ inflight' = inflight \cup job'[c].in
  /\ UNCHANGED <<appended, rowVars, summed, distilled, queue, cooling, engineVars>>

\* compact_runtime_backlog selects the sessions that lag ...
Sweep(c) ==
  /\ job[c].step = "idle" /\ queue[c] = {}
  /\ queue' = [queue EXCEPT ![c] =
       {s \in Sessions : /\ Cardinality(Backlog(s)) >= MinLag
                         /\ Cardinality(Backlog(s)) > TailSize}]
  /\ queue' # queue
  /\ UNCHANGED <<appended, rowVars, summed, distilled, job, inflight, cooling, engineVars>>

\* ... and compacts them one after the other, in flight elsewhere or not.
SweepNext(c) ==
  /\ job[c].step = "idle"
  /\ \E s \in queue[c] :
       /\ List(c, s, 1)
       /\ queue' = [queue EXCEPT ![c] = @ \ {s}]
  /\ UNCHANGED <<appended, rowVars, summed, distilled, inflight, cooling, engineVars>>

\* Wrong: the episodes are marked before the summary is stored.
SummariseMarked(c) ==
  /\ job[c].step = "summarising"
  /\ job' = [job EXCEPT ![c].step = "saved"]
  /\ compacted' = Marked(job[c].batch)
  /\ UNCHANGED <<appended, rows, core, faded, summed, distilled, queue, inflight,
                 cooling, engineVars>>

\* The summary comes back and save_memory stores it ...
Summarise(c) ==
  /\ job[c].step = "summarising"
  /\ job' = [job EXCEPT ![c].step = "saved"]
  /\ summed' = summed \cup job[c].batch
  /\ UNCHANGED <<appended, rowVars, distilled, queue, inflight, cooling, engineVars>>

\* ... then mark_compacted, and the compaction is recorded.
MarkCompacted(c) ==
  /\ job[c].step = "saved"
  /\ compacted' = Marked(job[c].batch)
  /\ job' = [job EXCEPT ![c] = Idle]
  /\ IF c \in AfterResponse
     THEN inflight' = inflight \ job[c].in /\ cooling' = cooling \cup job[c].in
     ELSE UNCHANGED <<inflight, cooling>>
  /\ UNCHANGED <<appended, rows, core, faded, summed, distilled, queue, engineVars>>

\* The summary or a write raises: a sweep gives up the rest of its sessions.
CompactionFails(c) ==
  /\ job[c].step # "idle"
  /\ job' = [job EXCEPT ![c] = Idle]
  /\ inflight' = IF c \in AfterResponse THEN inflight \ job[c].in ELSE inflight
  /\ queue' = [d \in Sweeps |-> IF d = c THEN {} ELSE queue[d]]
  /\ UNCHANGED <<appended, rowVars, summed, distilled, cooling, engineVars>>

\* _COMPACTION_COOLDOWN_SECONDS have passed.
CoolDown ==
  /\ \E s \in cooling : cooling' = cooling \ {s}
  /\ UNCHANGED <<appended, rowVars, summed, distilled, job, queue, inflight, engineVars>>

-----------------------------------------------------------------------------
(***************************************************************************)
(* NightlyConsolidationEngine.run.                                         *)
(***************************************************************************)
\* save_episode: the upsert writes every column of the copy, and inserts a
\* row that is gone.
Upsert(e, isCompacted, isCore, isFaded) ==
  LET set(S, b) == IF b THEN S \cup {e} ELSE S \ {e}
  IN  /\ rows' = rows \cup {e}
      /\ compacted' = set(compacted, isCompacted)
      /\ core' = set(core, isCore)
      /\ faded' = set(faded, isFaded)

\* 1. The candidates are read: copies of rows that are not compacted.
Gather ==
  /\ phase = "off" /\ cycles < MaxCycles
  /\ cand' = rows \ compacted
  /\ candCore' = cand' \cap core /\ candFaded' = cand' \cap faded
  /\ phase' = "clusters" /\ consumed' = {} /\ todo' = cand' /\ cycles' = cycles + 1
  /\ UNCHANGED <<appended, rowVars, summed, distilled, jobVars, fresh>>

\* A candidate without a current embedding gets one, and its copy is saved
\* (_reembed_episode before the clusters, rebuild before the edges).
Reembed ==
  /\ phase \in {"clusters", "core"}
  /\ \E e \in todo : Upsert(e, FALSE, e \in candCore, e \in candFaded)
  /\ UNCHANGED <<appended, summed, distilled, jobVars, engineVars>>

\* 3. A cluster becomes a memory.
DistilCluster ==
  /\ phase = "clusters"
  /\ \E C \in SUBSET (cand \ consumed) :
       /\ Cardinality(C) >= 2
       /\ distilled' = distilled \cup C /\ consumed' = consumed \cup C
  /\ UNCHANGED <<appended, rowVars, summed, jobVars, phase, copyVars, todo, fresh, cycles>>

ClustersDone ==
  /\ phase = "clusters" /\ phase' = "signals"
  /\ UNCHANGED <<appended, rowVars, summed, distilled, jobVars, copyVars, consumed, todo,
                 fresh, cycles>>

\* 3b. A strong signal becomes a memory of its own, or does not.
PromoteSignal ==
  /\ phase = "signals"
  /\ \E e \in todo :
       /\ todo' = todo \ {e}
       /\ \/ e \notin consumed /\ distilled' = distilled \cup {e} /\ consumed' = consumed \cup {e}
          \/ UNCHANGED <<distilled, consumed>>
  /\ UNCHANGED <<appended, rowVars, summed, jobVars, phase, copyVars, fresh, cycles>>

SignalsDone ==
  /\ phase = "signals" /\ todo = {}
  /\ phase' = "core" /\ todo' = cand
  /\ UNCHANGED <<appended, rowVars, summed, distilled, jobVars, copyVars, consumed, fresh,
                 cycles>>

\* promote_identity_core reads the row anew ...
ReadForCore ==
  /\ phase = "core" /\ fresh = NoRow
  /\ \E e \in todo :
       /\ todo' = todo \ {e}
       /\ fresh' = IF e \in rows \ core
                   THEN [of |-> e, compacted |-> e \in compacted, faded |-> e \in faded]
                   ELSE NoRow
  /\ UNCHANGED <<appended, rowVars, summed, distilled, jobVars, phase, copyVars, consumed,
                 cycles>>

\* ... and saves it, or the episode does not qualify.
PromoteCore ==
  /\ fresh # NoRow
  /\ Upsert(fresh.of, fresh.compacted, TRUE, fresh.faded) \/ UNCHANGED rowVars
  /\ fresh' = NoRow
  /\ UNCHANGED <<appended, summed, distilled, jobVars, phase, copyVars, consumed, todo,
                 cycles>>

\* cluster_consumed_ids | promoted_ids are marked compacted.
MarkConsumed ==
  /\ phase = "core" /\ todo = {} /\ fresh = NoRow
  /\ compacted' = Marked(consumed)
  /\ phase' = "reweigh" /\ todo' = cand
  /\ UNCHANGED <<appended, rows, core, faded, summed, distilled, jobVars, copyVars,
                 consumed, fresh, cycles>>

\* 5. reweight_episode_salience: a copy whose salience changes is saved.  A
\* consumed episode gains at least what it can lose.
Reweigh ==
  /\ phase = "reweigh"
  /\ \E e \in todo :
       /\ todo' = todo \ {e}
       /\ \/ \E isFaded \in BOOLEAN :
               /\ isFaded /\ e \in consumed => e \in candFaded
               /\ Upsert(e, FALSE, e \in candCore, isFaded)
          \/ UNCHANGED rowVars
  /\ UNCHANGED <<appended, summed, distilled, jobVars, phase, copyVars, consumed, fresh,
                 cycles>>

ReweighDone ==
  /\ phase = "reweigh" /\ todo = {} /\ phase' = "prune"
  /\ UNCHANGED <<appended, rowVars, summed, distilled, jobVars, copyVars, consumed, todo,
                 fresh, cycles>>

\* The engine is over, or its process is gone.
EngineOff ==
  /\ phase' = "off" /\ cand' = {} /\ candCore' = {} /\ candFaded' = {}
  /\ consumed' = {} /\ todo' = {} /\ fresh' = NoRow /\ UNCHANGED cycles

\* 7. prune_episodes_by_salience, the last step on episodes.
Prune ==
  /\ phase = "prune"
  /\ rows' = rows \ faded /\ compacted' = compacted \ faded /\ core' = core \ faded
  /\ faded' = {}
  /\ EngineOff
  /\ UNCHANGED <<appended, summed, distilled, jobVars>>

\* A step raises, or the worker is killed.
EngineDies ==
  /\ phase # "off" /\ EngineOff
  /\ UNCHANGED <<appended, rowVars, summed, distilled, jobVars>>

\* The runtime goes down; its worker process does not survive it.
MemoryCrash ==
  /\ job' = [c \in Compactors |-> Idle] /\ queue' = [c \in Sweeps |-> {}]
  /\ inflight' = {} /\ cooling' = {} /\ EngineOff
  /\ UNCHANGED <<appended, rowVars, summed, distilled>>

CompactorStep(c) == Summarise(c) \/ MarkCompacted(c) \/ CompactionFails(c)
EngineStep ==
  \/ Gather \/ Reembed \/ DistilCluster \/ ClustersDone \/ PromoteSignal \/ SignalsDone
  \/ ReadForCore \/ PromoteCore \/ MarkConsumed \/ Reweigh \/ ReweighDone \/ Prune
  \/ EngineDies

MemoryNext ==
  \/ RecordEpisode \/ CoolDown \/ EngineStep \/ MemoryCrash
  \/ \E c \in AfterResponse : AfterTurn(c)
  \/ \E c \in Sweeps : Sweep(c) \/ SweepNext(c)
  \/ \E c \in Compactors : CompactorStep(c)

MemorySpec == MemoryInit /\ [][MemoryNext]_memoryVars

-----------------------------------------------------------------------------
(***************************************************************************)
(* Properties.                                                             *)
(***************************************************************************)
\* An episode that has left the context for good is cited by a memory, at
\* whatever await the compactor, the engine or the whole runtime stopped, and
\* however many of them work on the same session: save_memory comes before
\* mark_compacted everywhere, and no stale copy marks an episode compacted
\* that was not.
SummaryFirst == compacted \subseteq summed \cup distilled

\* The TailSize newest episodes of a session are not summarised by a
\* compaction, although consolidation marks and unmarks episodes of the
\* session while two compactions of it run.
TailKept ==
  \A e \in summed :
    Cardinality({x \in 1..appended : x > e /\ SessionOf[x] = SessionOf[e]}) >= TailSize

\* Episodes that a cycle has put into a memory are compacted when it is
\* done: "Mark consumed/promoted episodes as compacted so health checks stay
\* clean" (consolidation/engine.py).  The reweighting that follows saves the
\* copies read at the start of the cycle, in which they are not.
ConsumedStaysCompacted == phase = "prune" => consumed \cap rows \subseteq compacted

=============================================================================
