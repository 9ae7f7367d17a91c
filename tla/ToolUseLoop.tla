---------------------------- MODULE ToolUseLoop ----------------------------
(***************************************************************************)
(* How a conversation turn gets its answer: the tool-use loop              *)
(* (opencas/tools/loop.py, ToolUseLoop.run) with its two guards, and the   *)
(* evidence retries that execute_conversation_tool_loop                    *)
(* (runtime/conversation_turns.py) runs around it.  Several turns may run  *)
(* at once; they share the scheduler's focus mode.                         *)
(*                                                                         *)
(* An action is the code between two awaits.  A call is a tool with its    *)
(* arguments; what is said in messages is left out, what was asked of      *)
(* tools and in which order the results came in is kept.  The batch of     *)
(* read-only calls that asyncio.gather runs ends in one step: its results  *)
(* are looked at together, in the order of the calls.                      *)
(***************************************************************************)
EXTENDS Integers, Sequences, SequencesExt

CONSTANTS
  Turns,            \* conversation turns
  Tools,            \* a tool with its arguments
  Readonly,         \* the calls of risk tier READONLY
  Evidence,         \* calls that satisfy an evidence requirement
  Search,           \* the call the loop makes itself: web_search
  MaxIterations,    \* ctx.max_iterations, of each turn
  MaxRounds,        \* tool_call_budget, of each turn
  MaxRetries,       \* bound: reviews of each turn that ask for evidence
  MaxBatch,         \* bound: calls in one answer of the model, in each turn
  Window,           \* ToolLoopGuard._RECENT_WINDOW
  FocusDepth,       \* ToolLoopGuard.FOCUS_MODE_DEPTH
  StallLimit,       \* max_consecutive_no_progress
  RepeatLimit       \* repeated_evidence_limit

ASSUME LoopAssumption ==
  /\ Readonly \subseteq Tools /\ Evidence \subseteq Tools
  /\ Search \in Readonly \cap Evidence
  /\ {MaxIterations, MaxRounds, MaxBatch} \subseteq [Turns -> Nat \ {0}]
  /\ MaxRetries \in [Turns -> 0..2]
  /\ {Window, FocusDepth, StallLimit, RepeatLimit} \subseteq Nat \ {0}

VARIABLES
  turn,             \* the state of each turn, see Turn
  focus             \* AgentScheduler._focus_mode

loopVars == <<turn, focus>>

Batch   == [calls : Seq(Tools), answered : Seq(Nat)]
Needs   == {"none", "evidence", "web"}
Running == {"model", "tools", "call"}

Turn ==
  [at       : {"idle", "review", "stored"} \cup Running,
   need     : Needs,         \* evidence_requirement of this run
   asked    : BOOLEAN,       \* evidence_retry_used
   iter     : Nat,           \* iterations
   count    : Nat,           \* calls the loop guard has counted
   recent   : Seq(Tools),    \* the last calls it has seen
   stalls   : Nat,           \* consecutive_no_progress
   seen     : [Tools -> Nat],\* _evidence_counts
   queue    : SUBSET Nat,    \* serial calls of the batch still to make
   deep     : BOOLEAN,       \* _in_focus_mode
   log      : Seq(Batch),    \* the tool calls and results of messages
   first    : Nat,           \* where in log this run began
   end      : {"none", "answer", "guard", "limit", "error"},
   kept     : Seq(Batch),    \* loop_result.messages
   returned : BOOLEAN,       \* loop_result is not None
   tries    : Nat,           \* evidence_retry_attempts
   stored   : Seq(Batch)]    \* what the context store was given

LoopTypeOK == turn \in [Turns -> Turn] /\ focus \in BOOLEAN

Fresh ==
  [at |-> "idle", need |-> "none", asked |-> FALSE, iter |-> 0, count |-> 0,
   recent |-> <<>>, stalls |-> 0, seen |-> [c \in Tools |-> 0], queue |-> {},
   deep |-> FALSE, log |-> <<>>, first |-> 0, end |-> "none", kept |-> <<>>,
   returned |-> FALSE, tries |-> 0, stored |-> <<>>]

LoopInit == turn = [t \in Turns |-> Fresh] /\ focus = FALSE

-----------------------------------------------------------------------------
(***************************************************************************)
(* A batch, and the two guards.                                            *)
(***************************************************************************)
Answered(b) == Range(b.answered)
Open(b) == DOMAIN b.calls \ Answered(b)
Made(b) == [i \in DOMAIN b.answered |-> b.calls[b.answered[i]]]

\* The calls of cs that run together, in their order, and the positions of those
\* that run one by one.
Reads(cs) ==
  LET upto[n \in 0..Len(cs)] ==
        IF n = 0 THEN <<>>
        ELSE IF cs[n] \in Readonly THEN Append(upto[n - 1], cs[n]) ELSE upto[n - 1]
  IN  upto[Len(cs)]
Serial(cs) == {i \in DOMAIN cs : cs[i] \notin Readonly}

Latest(s) == SubSeq(s, IF Len(s) > Window THEN Len(s) - Window + 1 ELSE 1, Len(s))
AllAlike(s) == Len(s) >= Window /\ \A i, j \in DOMAIN s : s[i] = s[j]

\* Wrong: the guard compares a call with the calls of its own batch only.
TripsAlone(t, r, cs) ==
  \E n \in 1..Len(cs) :
    r.count + n > MaxRounds[t] \/ AllAlike(Latest(SubSeq(cs, 1, n)))

\* ToolLoopGuard.record_call for each of cs: does one of them break the loop?
Trips(t, r, cs) ==
  \E n \in 1..Len(cs) :
    \/ r.count + n > MaxRounds[t]
    \/ AllAlike(Latest(r.recent \o SubSeq(cs, 1, n)))

Counted(r, cs) ==
  [r EXCEPT !.count = @ + Len(cs), !.recent = Latest(@ \o cs)]

\* What a result may be worth to assess_result; only a call that observes
\* yields evidence, and the same call yields the same evidence.
Outcomes(c) ==
  {"progress", "nothing", "blocker"} \cup (IF c \in Readonly THEN {"evidence"} ELSE {})

\* MeaningfulProgressGuard.record_result: the counters, then the verdict.
Assessed(r, c, outcome) ==
  [r EXCEPT
     !.stalls = CASE outcome = "blocker" -> @ [] outcome = "nothing" -> @ + 1 [] OTHER -> 0,
     !.seen[c] = IF outcome = "evidence" THEN @ + 1 ELSE @]

Stops(r, c, outcome) ==
  \/ outcome = "blocker"
  \/ outcome = "nothing" /\ r.stalls >= StallLimit
  \/ outcome = "evidence" /\ r.seen[c] >= RepeatLimit

-----------------------------------------------------------------------------
(***************************************************************************)
(* What the loop does between two awaits, as functions of a turn.          *)
(***************************************************************************)
\* The end of a run: the guards' counters go with it.
Ended(r, how) ==
  [r EXCEPT !.at = "review", !.end = how, !.count = 0, !.recent = <<>>, !.stalls = 0,
            !.seen = [c \in Tools |-> 0], !.queue = {}]

\* A run returns a result; the caller keeps its messages.
Return(r, how) == [Ended(r, how) EXCEPT !.kept = r.log, !.returned = TRUE]

\* The head of the while loop.
Iterate(t, r) ==
  IF r.iter < MaxIterations[t] THEN [r EXCEPT !.iter = @ + 1, !.at = "model"]
  ELSE Return(r, "limit")

\* The next serial call, or the end of the batch: a deep run enters focus mode.
NextCall(t, r) ==
  IF r.queue = {} THEN Iterate(t, [r EXCEPT !.deep = @ \/ r.count >= FocusDepth])
  ELSE LET call == <<Last(r.log).calls[Min(r.queue)]>>
       IN  IF Trips(t, r, call) THEN Return(r, "guard")
           ELSE [Counted(r, call) EXCEPT !.at = "call"]

\* A batch of calls cs: the read-only ones together, then the others in turn.
Dispatch(t, r, cs) ==
  LET s == [r EXCEPT !.log = Append(@, [calls |-> cs, answered |-> <<>>]),
                     !.queue = Serial(cs)]
  IN  IF Reads(cs) = <<>> THEN NextCall(t, s)
      ELSE IF Trips(t, s, Reads(cs)) THEN Return(s, "guard")
      ELSE [Counted(s, Reads(cs)) EXCEPT !.at = "tools"]

\* Wrong: a result that brings nothing is judged and not appended.
RecordUseful(r, i, outcome) ==
  IF r.end = "guard" THEN r
  ELSE LET c == Last(r.log).calls[i]
           heard == IF outcome = "nothing" THEN r
                    ELSE [r EXCEPT !.log[Len(r.log)].answered = Append(@, i)]
           s == Assessed(heard, c, outcome)
       IN  IF Stops(s, c, outcome) THEN Return(s, "guard") ELSE s

\* One result: it is appended to messages, then judged; after a verdict to
\* stop the results that follow are dropped.
Record(r, i, outcome) ==
  IF r.end = "guard" THEN r
  ELSE LET c == Last(r.log).calls[i]
           s == Assessed([r EXCEPT !.log[Len(r.log)].answered = Append(@, i)], c, outcome)
       IN  IF Stops(s, c, outcome) THEN Return(s, "guard") ELSE s

\* The results of the calls that ran together, in the order of the calls.
Judged(r, outcome) ==
  LET calls == Last(r.log).calls
      after[n \in 0..Len(calls)] ==
        IF n = 0 THEN r
        ELSE IF n \in DOMAIN outcome THEN Record(after[n - 1], n, outcome[n])
        ELSE after[n - 1]
  IN  after[Len(calls)]

UsedEvidence(r) ==
  \E i \in DOMAIN r.log : i > r.first /\ Range(r.log[i].calls) \cap Evidence # {}

Unmet(t, r) == r.need # "none" /\ ~ UsedEvidence(r) /\ r.iter < MaxIterations[t]

\* Wrong: the count of the retries begins anew with every run.
StartedAnew(t, r, log, need) ==
  Iterate(t, [Fresh EXCEPT !.need = need, !.log = log, !.first = Len(log),
                           !.kept = r.kept, !.returned = r.returned])

\* A run begins with the messages log: a new guard, no budget spent.
Started(t, r, log, need) ==
  Iterate(t, [Fresh EXCEPT !.need = need, !.log = log, !.first = Len(log),
                           !.kept = r.kept, !.returned = r.returned, !.tries = r.tries])

\* Wrong: whole batches are dropped from the history.
RepairBatches(log) == SelectSeq(log, LAMBDA b : Open(b) = {})

\* repair_tool_message_sequence: calls without a result are stripped, and a
\* message without calls left is no tool message.
Repair(log) ==
  LET kept(b) == [calls |-> Made(b), answered |-> [i \in DOMAIN b.answered |-> i]]
      upto[n \in 0..Len(log)] ==
        IF n = 0 THEN <<>>
        ELSE IF log[n].answered = <<>> THEN upto[n - 1] ELSE Append(upto[n - 1], kept(log[n]))
  IN  upto[Len(log)]

\* persist_tool_loop_messages: nothing is stored of a turn without a result.
Saved(r) ==
  [Fresh EXCEPT !.at = "stored", !.kept = r.kept, !.returned = r.returned,
                !.stored = IF r.returned THEN Repair(r.kept) ELSE <<>>]

-----------------------------------------------------------------------------
(***************************************************************************)
(* The actions.                                                            *)
(***************************************************************************)
\* Wrong: the loop leaves focus mode to time out.
FocusForgotten(r, s) == focus \/ (s.deep /\ ~ r.deep)

\* on_focus_enter when the run becomes deep, on_focus_exit in its finally.
FocusAfter(r, s) ==
  IF s.at \in Running THEN focus \/ (s.deep /\ ~ r.deep)
  ELSE focus /\ ~ r.deep /\ ~ s.deep

Step(t, s) ==
  /\ turn' = [turn EXCEPT ![t] = s]
  /\ focus' = FocusAfter(turn[t], s)

Begin(t) ==
  /\ turn[t].at = "idle"
  /\ \E need \in Needs : Step(t, Started(t, turn[t], <<>>, need))

ModelCallsTools(t) ==
  /\ turn[t].at = "model"
  /\ \E cs \in UNION {[1..n -> Tools] : n \in 1..MaxBatch[t]} : Step(t, Dispatch(t, turn[t], cs))

\* An answer without calls is asked for evidence once ...
AskForEvidence(t) ==
  /\ turn[t].at = "model"
  /\ Unmet(t, turn[t]) /\ ~ turn[t].asked
  /\ Step(t, Iterate(t, [turn[t] EXCEPT !.asked = TRUE]))

\* ... then the loop searches by itself, when the requirement is web research.
RouteEvidence(t) ==
  /\ turn[t].at = "model"
  /\ Unmet(t, turn[t]) /\ turn[t].asked /\ turn[t].need = "web"
  /\ Step(t, Dispatch(t, turn[t], <<Search>>))

MayAnswer(t, r) == ~ Unmet(t, r) \/ (r.asked /\ r.need # "web")

Answer(t) ==
  /\ turn[t].at = "model"
  /\ MayAnswer(t, turn[t])
  /\ Step(t, Return(turn[t], "answer"))

\* chat_completion raises: the first run's error becomes the text to review;
\* an error in a retry ends the retries.
ModelFails(t) ==
  /\ turn[t].at = "model"
  /\ LET r == turn[t]
     IN  IF r.tries = 0 THEN Step(t, Ended(r, "error"))
         ELSE Step(t, Saved(r))

ToolsReturn(t) ==
  /\ turn[t].at = "tools"
  /\ LET r == turn[t]
         calls == Last(r.log).calls
     IN  \E outcome \in [DOMAIN calls \ r.queue -> {"progress", "nothing", "blocker", "evidence"}] :
           /\ \A i \in DOMAIN outcome : outcome[i] \in Outcomes(calls[i])
           /\ LET s == Judged(r, outcome)
              IN  Step(t, IF s.end = "guard" THEN s ELSE NextCall(t, s))

ToolReturns(t) ==
  /\ turn[t].at = "call"
  /\ LET r == turn[t]
         i == Min(r.queue)
     IN  \E outcome \in Outcomes(Last(r.log).calls[i]) :
           LET s == Record([r EXCEPT !.queue = @ \ {i}], i, outcome)
           IN  Step(t, IF s.end = "guard" THEN s ELSE NextCall(t, s))

\* The review of the answer asks for evidence: the loop runs again on the
\* messages of the last result, or on the turn's own when there is none.
RetryForEvidence(t) ==
  /\ turn[t].at = "review" /\ turn[t].tries < MaxRetries[t]
  /\ LET r == [turn[t] EXCEPT !.tries = @ + 1]
     IN  \E need \in Needs : Step(t, Started(t, r, IF r.returned THEN r.kept ELSE r.log, need))

\* The review lets the answer pass.
Store(t) ==
  /\ turn[t].at = "review"
  /\ turn' = [turn EXCEPT ![t] = Saved(@)]
  /\ UNCHANGED focus

\* _should_run_cycle: a background loop finds focus mode too old.
FocusExpires == focus /\ focus' = FALSE /\ UNCHANGED turn

Work(t) ==
  \/ ModelCallsTools(t) \/ AskForEvidence(t) \/ RouteEvidence(t) \/ Answer(t)
  \/ ModelFails(t) \/ ToolsReturn(t) \/ ToolReturns(t) \/ RetryForEvidence(t) \/ Store(t)

LoopNext == FocusExpires \/ \E t \in Turns : Begin(t) \/ Work(t)

\* A model call and a tool return or raise, and the review comes to an end.
LoopFairness == \A t \in Turns : WF_loopVars(Work(t))

LoopSpec == LoopInit /\ [][LoopNext]_loopVars /\ LoopFairness

-----------------------------------------------------------------------------
(***************************************************************************)
(* Properties.                                                             *)
(***************************************************************************)
\* Whenever a run asks the model, every call it made itself has its result in
\* messages, whatever order the two kinds of calls ran in.
OwnCallsAnswered ==
  \A t \in Turns : turn[t].at = "model" =>
    \A i \in DOMAIN turn[t].log : i > turn[t].first => Open(turn[t].log[i]) = {}

\* The calls of log that were made, in the order they were made.
Ran(log) ==
  LET upto[n \in 0..Len(log)] == IF n = 0 THEN <<>> ELSE upto[n - 1] \o Made(log[n])
  IN  upto[Len(log)]

\* The stored history of a turn that a guard stopped in the middle of a batch
\* has a result for every call, and still has every result that came in.
HistoryPaired ==
  \A t \in Turns : turn[t].at = "stored" =>
    /\ \A i \in DOMAIN turn[t].stored : Open(turn[t].stored[i]) = {}
    /\ turn[t].returned => Ran(turn[t].stored) = Ran(turn[t].kept)

\* The model cannot make the agent do the same thing Window times in a row,
\* however it spreads the calls over batches, kinds of calls and answers.
NoRunaway ==
  \A t \in Turns : LET ran == Ran(SubSeq(turn[t].log, turn[t].first + 1, Len(turn[t].log))) IN
    \A i \in 1..(Len(ran) + 1 - Window) : ~ AllAlike(SubSeq(ran, i, i + Window - 1))

\* Background loops are held back only while some deep run is in progress:
\* no end of a run, by answer, guard, limit or error, leaves focus mode on.
FocusOwned == focus => \E t \in Turns : turn[t].deep /\ turn[t].at \in Running

\* Every turn that began ends: the loop, the guards and the retries are bounded.
TurnEnds == \A t \in Turns : (turn[t].at # "idle") ~> (turn[t].at = "stored")

\* "Provider APIs require every assistant tool_calls entry to be matched by a
\* subsequent tool message": no model call of a turn replays an open call.
ReplayPaired ==
  \A t \in Turns : turn[t].at = "model" =>
    \A i \in DOMAIN turn[t].log : Open(turn[t].log[i]) = {}
=============================================================================
