---------------------------- MODULE ServiceProofs ----------------------------
(***************************************************************************)
(* Theorems about the services a message passes on its way in and out, for *)
(* every value of their constants: the circuit breaker in front of the     *)
(* model (ProviderCircuit), the Telegram poll (TelegramPoll), the turn     *)
(* with its durable markers (ConversationTurn), the worker process that    *)
(* the turn stops (ConsolidationWorker), and what the worker and the       *)
(* compactions do to the episodes (MemoryMaintenance).                     *)
(***************************************************************************)
EXTENDS ProviderCircuit, TelegramPoll, ConversationTurn, ConsolidationWorker,
        MemoryMaintenance, FiniteSetTheorems, TLAPS

-----------------------------------------------------------------------------
(***************************************************************************)
(* The circuit breaker.                                                    *)
(***************************************************************************)
\* A closed circuit has not yet seen the failure that trips it, and every call
\* still under way may fail once more.
ClosedBelow == circuit = "closed" => failures < FailureThreshold
FailuresToCome ==
  failures - embedless + Cardinality(calling) < FailureThreshold + Cardinality(Callers)

CircuitInv == CircuitTypeOK /\ ClosedBelow /\ FailuresToCome

\* Starting and ending a call changes how many are under way by one.
LEMMA CallsCounted ==
  ASSUME CircuitTypeOK
  PROVE  /\ Cardinality(calling) \in Nat
         /\ Cardinality(calling) <= Cardinality(Callers)
         /\ Cardinality(Callers) \in Nat
         /\ \A c \in Callers : c \notin calling =>
              /\ Cardinality(calling \cup {c}) = Cardinality(calling) + 1
              /\ Cardinality(calling) + 1 <= Cardinality(Callers)
         /\ \A c \in calling : Cardinality(calling \ {c}) = Cardinality(calling) - 1
<1>1. IsFiniteSet(Callers) /\ calling \subseteq Callers
  BY CircuitAssumption DEF CircuitAssumption, CircuitTypeOK
<1>2. IsFiniteSet(calling) /\ Cardinality(calling) <= Cardinality(Callers)
  BY <1>1, FS_Subset
<1>3. Cardinality(calling) \in Nat /\ Cardinality(Callers) \in Nat
  BY <1>1, <1>2, FS_CardinalityType
<1>4. ASSUME NEW c \in Callers, c \notin calling
      PROVE  /\ Cardinality(calling \cup {c}) = Cardinality(calling) + 1
             /\ Cardinality(calling) + 1 <= Cardinality(Callers)
  <2>1. Cardinality(calling \cup {c}) = Cardinality(calling) + 1
    BY <1>2, <1>4, FS_AddElement
  <2>2. Cardinality(calling \cup {c}) <= Cardinality(Callers)
    BY <1>1, FS_Subset
  <2>. QED
    BY <2>1, <2>2
<1>5. ASSUME NEW c \in calling
      PROVE  Cardinality(calling \ {c}) = Cardinality(calling) - 1
  BY <1>2, FS_RemoveElement
<1>. QED
  BY <1>2, <1>3, <1>4, <1>5

\* The circuit is closed in the beginning.
LEMMA CircuitInitially == CircuitInit => CircuitInv
<1>. SUFFICES ASSUME CircuitInit PROVE CircuitInv
  OBVIOUS
<1>1. CircuitTypeOK
  BY CircuitAssumption DEF CircuitAssumption, CircuitInit, CircuitTypeOK
<1>2. Cardinality({}) = 0
  BY FS_EmptySet
<1>. QED
  BY <1>1, <1>2, CallsCounted, CircuitAssumption
     DEF CircuitAssumption, CircuitInit, CircuitInv, ClosedBelow, FailuresToCome

\* Forgetting the provider's state leaves room for a failure of every caller.
LEMMA ForgetKeeps ==
  ASSUME CircuitInv, Forget, calling' \subseteq Callers
  PROVE  CircuitInv'
<1>1. CircuitTypeOK'
  BY CircuitAssumption DEF CircuitAssumption, CircuitInv, CircuitTypeOK, Forget
<1>2. Cardinality(calling)' <= Cardinality(Callers) /\ Cardinality(calling)' \in Nat
      /\ Cardinality(Callers) \in Nat
  BY <1>1, CircuitAssumption, FS_Subset, FS_CardinalityType
     DEF CircuitAssumption, CircuitTypeOK
<1>. QED
  BY <1>1, <1>2, CircuitAssumption
     DEF CircuitAssumption, CircuitInv, Forget, ClosedBelow, FailuresToCome

\* A call is let through by a closed circuit, and then counted as one that may fail.
LEMMA CallKeeps ==
  ASSUME CircuitInv, NEW c \in Callers, Call(c)
  PROVE  CircuitInv'
<1>1. CASE circuit = "expired" /\ Forget
  BY <1>1, ForgetKeeps DEF CircuitInv, CircuitTypeOK, Call
<1>2. CASE circuit = "closed" /\ UNCHANGED <<failures, circuit, embedless>>
  \* failures is below the threshold, and no more than the callers are calling.
  BY <1>2, CallsCounted, CircuitAssumption
     DEF CircuitAssumption, CircuitInv, CircuitTypeOK, ClosedBelow, FailuresToCome, Call
<1>. QED
  BY <1>1, <1>2 DEF Call

\* A failed call turns a failure to come into one that came.
LEMMA CallFailsKeeps ==
  ASSUME CircuitInv, NEW c \in Callers, CallFails(c)
  PROVE  CircuitInv'
  BY CallsCounted, CircuitAssumption
     DEF CircuitAssumption, CircuitInv, CircuitTypeOK, ClosedBelow, FailuresToCome,
         CallFails, RecordFailure, Tripped

\* Every step of the callers keeps the bound.
LEMMA CircuitStep == CircuitInv /\ [CircuitNext]_circuitVars => CircuitInv'
<1>1. ASSUME CircuitInv, NEW c \in Callers, Call(c)
      PROVE  CircuitInv'
  BY <1>1, CallKeeps
<1>2. ASSUME CircuitInv, NEW c \in Callers, Succeed(c)
      PROVE  CircuitInv'
  BY <1>2, ForgetKeeps DEF Succeed, CircuitInv, CircuitTypeOK
<1>3. ASSUME CircuitInv, NEW c \in Callers, CallFails(c)
      PROVE  CircuitInv'
  BY <1>3, CallFailsKeeps
<1>4. ASSUME CircuitInv, NEW c \in Callers, Abandon(c)
      PROVE  CircuitInv'
  BY <1>4, CallsCounted, CircuitAssumption
     DEF CircuitAssumption, CircuitInv, CircuitTypeOK, ClosedBelow, FailuresToCome, Abandon
<1>5. ASSUME CircuitInv, EmbedUnsupported
      PROVE  CircuitInv'
  BY <1>5, CallsCounted, CircuitAssumption
     DEF CircuitAssumption, CircuitInv, CircuitTypeOK, ClosedBelow, FailuresToCome,
         EmbedUnsupported, RecordFailure, Tripped
<1>6. ASSUME CircuitInv, Expire \/ UNCHANGED circuitVars
      PROVE  CircuitInv'
  BY <1>6 DEF CircuitInv, CircuitTypeOK, ClosedBelow, FailuresToCome, Expire, circuitVars
<1>. QED
  BY <1>1, <1>2, <1>3, <1>4, <1>5, <1>6 DEF CircuitNext

\* Between two resets a provider fails at most FailureThreshold - 1 calls and
\* those let through before the circuit opened, for any number of callers: late
\* failures, abandoned calls and renewed timeouts add nothing.
THEOREM CircuitBoundsFailures == CircuitSpec => []FailuresBounded
<1>1. CircuitInv => FailuresBounded
  BY CallsCounted, CircuitAssumption
     DEF CircuitAssumption, CircuitInv, CircuitTypeOK, FailuresToCome, FailuresBounded
<1>. QED
  BY <1>1, CircuitInitially, CircuitStep, PTL DEF CircuitSpec

-----------------------------------------------------------------------------
(***************************************************************************)
(* The Telegram poll.                                                      *)
(***************************************************************************)
Settled(u) == Kind[u] = "ignored" \/ u \in delivered

\* What is left of a batch is a run of consecutive updates: it was the end of
\* what had arrived, and it is worked off from the front.
BatchInterval == \E lo, hi \in Nat : batch = lo..hi

\* What lies below the batch is settled.
BelowBatch == \A u \in batch : \A v \in 1..(u - 1) : v \in batch \/ Settled(v)

TelegramInv ==
  TelegramTypeOK /\ BatchInterval /\ BelowBatch /\ NothingSkipped /\ MessagesInOrder

\* Updates are numbers, and so is what has arrived.
LEMMA ArrivedNumber ==
  ASSUME TelegramTypeOK
  PROVE  arrived \in Nat
<1>1. Cardinality(Updates) \in Nat
  BY TelegramAssumption, FS_CardinalityType DEF TelegramAssumption
<1>. QED
  BY <1>1, TelegramAssumption DEF TelegramAssumption, TelegramTypeOK

\* The oldest update is the front of the batch.
LEMMA FrontOfBatch ==
  ASSUME TelegramTypeOK, BatchInterval, batch # {}
  PROVE  /\ arrived \in Nat
         /\ Oldest \in batch /\ Oldest \in 1..arrived
         /\ \A v \in batch : Oldest <= v
         /\ \E hi \in Nat : batch = Oldest..hi /\ batch \ {Oldest} = (Oldest + 1)..hi
<1>1. arrived \in Nat
  BY ArrivedNumber
<1>2. PICK lo \in Nat, hi \in Nat : batch = lo..hi
  BY DEF BatchInterval
<1>3. lo \in batch /\ \A v \in batch : lo <= v
  BY <1>2
<1>4. Oldest \in batch /\ \A v \in batch : Oldest <= v
  BY <1>3 DEF Oldest
<1>5. Oldest = lo /\ lo \in Nat
  BY <1>2, <1>3, <1>4
<1>6. batch \ {lo} = (lo + 1)..hi
  BY <1>2
<1>7. batch = Oldest..hi /\ batch \ {Oldest} = (Oldest + 1)..hi
  BY <1>2, <1>5, <1>6
<1>. QED
  BY <1>1, <1>4, <1>7 DEF TelegramTypeOK

\* Nothing has been polled in the beginning.
LEMMA TelegramInitially == TelegramInit => TelegramInv
<1>. SUFFICES ASSUME TelegramInit PROVE TelegramInv
  OBVIOUS
<1>1. TelegramTypeOK
  BY TelegramAssumption DEF TelegramAssumption, TelegramInit, TelegramTypeOK
<1>2. BatchInterval
  <2>1. batch = 1..0
    BY DEF TelegramInit
  <2>. QED
    BY <2>1 DEF BatchInterval
<1>. QED
  BY <1>1, <1>2 DEF TelegramInv, TelegramInit, BelowBatch, NothingSkipped, MessagesInOrder

\* Moving past the oldest update keeps the invariant, if that update is
\* settled when it happens: what is below it is settled already.
LEMMA AdvanceKeeps ==
  ASSUME TelegramInv, batch # {}, NEW u, u = Oldest, Advance(u),
         UNCHANGED <<arrived, confirmed, begun>>,
         delivered \subseteq delivered', delivered' \subseteq 1..arrived,
         Settled(u)'
  PROVE  TelegramInv'
<1>1. /\ arrived \in Nat /\ u \in batch /\ u \in 1..arrived
      /\ \E hi \in Nat : batch = u..hi /\ batch \ {u} = (u + 1)..hi
  BY FrontOfBatch DEF TelegramInv
<1>2. offset' \in 0..(arrived + 1) /\ disk' \in 0..(arrived + 1)
      /\ offset' \in {offset, u + 1} /\ disk' \in {0, offset, u + 1}
  BY <1>1 DEF TelegramInv, TelegramTypeOK, Advance, Biggest
<1>3. batch' = batch \ {u} \/ batch' = {}
  BY DEF Advance
<1>4. TelegramTypeOK'
  <2>1. step' \in {"polling", "down"} /\ part' = 1
    BY DEF Advance
  <2>2. faults' \in 0..MaxFaults
    BY TelegramAssumption DEF TelegramAssumption, TelegramInv, TelegramTypeOK, Advance
  <2>3. /\ arrived' \in Updates \cup {0} /\ {begun, delivered}' \subseteq SUBSET (1..arrived')
        /\ confirmed' \in 0..(arrived' + 1) /\ batch' \subseteq 1..arrived'
    BY <1>3 DEF TelegramInv, TelegramTypeOK
  <2>. QED
    BY <1>2, <2>1, <2>2, <2>3 DEF TelegramTypeOK
<1>5. BatchInterval'
  <2>1. {} = 1..0
    OBVIOUS
  <2>2. PICK hi \in Nat : batch \ {u} = (u + 1)..hi
    BY <1>1
  <2>3. u + 1 \in Nat
    BY <1>1
  <2>. QED
    BY <1>3, <2>1, <2>2, <2>3 DEF BatchInterval
<1>6. \A v \in 1..u : Settled(v)'
  <2>1. \A v \in 1..(u - 1) : v \notin batch
    <3>. SUFFICES ASSUME NEW v \in 1..(u - 1) PROVE v \notin batch
      OBVIOUS
    <3>1. PICK hi \in Nat : batch = u..hi
      BY <1>1
    <3>. QED
      BY <1>1, <3>1
  <2>2. \A v \in 1..(u - 1) : Settled(v)
    BY <1>1, <2>1 DEF TelegramInv, BelowBatch
  <2>. QED
    BY <1>1, <2>2 DEF Settled
<1>7. BelowBatch'
  BY <1>1, <1>3, <1>6 DEF TelegramInv, BelowBatch, Settled
<1>8. NothingSkipped'
  BY <1>1, <1>2, <1>6 DEF TelegramInv, TelegramTypeOK, NothingSkipped, Settled
<1>9. MessagesInOrder'
  BY DEF TelegramInv, MessagesInOrder
<1>. QED
  BY <1>4, <1>5, <1>7, <1>8, <1>9 DEF TelegramInv

\* A poll acknowledges what is before the offset, and brings what follows.
LEMMA PollKeeps == ASSUME TelegramInv, Poll PROVE TelegramInv'
<1>1. arrived \in Nat /\ {confirmed, offset} \subseteq 0..(arrived + 1)
  BY ArrivedNumber DEF TelegramInv, TelegramTypeOK
<1>2. confirmed' \in {confirmed, offset} /\ confirmed' \in 0..(arrived + 1)
  BY <1>1 DEF Poll, AskFor, Biggest
<1>3. TelegramTypeOK'
  BY <1>1, <1>2, TelegramAssumption
     DEF TelegramAssumption, TelegramInv, TelegramTypeOK, Poll
<1>4. BatchInterval'
  <2>1. batch' = (IF confirmed' = 0 THEN 1 ELSE confirmed')..arrived
    BY <1>1, <1>2 DEF Poll
  <2>. QED
    BY <1>1, <1>2, <2>1 DEF BatchInterval
<1>5. NothingSkipped'
  BY <1>2 DEF TelegramInv, NothingSkipped, Poll
<1>6. BelowBatch'
  \* What was not returned is below confirmed', and that is not skipped.
  BY <1>1, <1>2, <1>5 DEF Poll, BelowBatch, NothingSkipped, Settled
<1>. QED
  BY <1>3, <1>4, <1>5, <1>6 DEF TelegramInv, MessagesInOrder, Poll

\* Handling the front of the batch keeps what follows it.
LEMMA HandleKeeps == ASSUME TelegramInv, Handle PROVE TelegramInv'
<1>1. /\ arrived \in Nat /\ Oldest \in batch /\ Oldest \in 1..arrived
      /\ \A v \in batch : Oldest <= v
  BY FrontOfBatch DEF TelegramInv, Handle
<1>2. CASE Kind[Oldest] = "ignored"
  <2>1. Ignore(Oldest) /\ UNCHANGED <<arrived, confirmed, begun, delivered>>
    BY <1>2 DEF Handle
  <2>. QED
    BY <1>1, <1>2, <2>1, AdvanceKeeps
       DEF Handle, Ignore, Settled, TelegramInv, TelegramTypeOK
<1>3. CASE Kind[Oldest] # "ignored"
  <2>1. /\ step' \in {"asking", "answering"} /\ begun' \in {begun, begun \cup {Oldest}}
        /\ UNCHANGED <<arrived, confirmed, offset, disk, batch, part, delivered, faults>>
    BY <1>3 DEF Handle
  <2>2. TelegramTypeOK'
    BY <1>1, <2>1, TelegramAssumption DEF TelegramAssumption, TelegramInv, TelegramTypeOK
  <2>3. \A v \in 1..(Oldest - 1) : Settled(v)
    BY <1>1 DEF TelegramInv, BelowBatch
  <2>4. MessagesInOrder'
    BY <2>1, <2>3 DEF TelegramInv, MessagesInOrder, Settled
  <2>. QED
    BY <2>1, <2>2, <2>4
       DEF TelegramInv, BatchInterval, BelowBatch, NothingSkipped, Settled
<1>. QED
  BY <1>2, <1>3

\* The offset moves past an update when its last part is delivered.
LEMMA DeliverKeeps == ASSUME TelegramInv, Deliver PROVE TelegramInv'
<1>1. batch # {}
  BY DEF TelegramInv, TelegramTypeOK, Deliver
<1>2. Oldest \in 1..arrived
  BY <1>1, FrontOfBatch DEF TelegramInv
<1>3. CASE part < Parts[Oldest]
  BY <1>3, SMTT(30) DEF TelegramInv, TelegramTypeOK, BatchInterval, BelowBatch,
     NothingSkipped,
     MessagesInOrder, Settled, Deliver
<1>4. CASE ~(part < Parts[Oldest])
  <2>1. /\ Advance(Oldest) /\ delivered' = delivered \cup {Oldest}
        /\ UNCHANGED <<arrived, confirmed, begun>>
    BY <1>4 DEF Deliver
  <2>. QED
    BY <1>1, <1>2, <2>1, AdvanceKeeps DEF Settled, TelegramInv, TelegramTypeOK
<1>. QED
  BY <1>3, <1>4

\* Arrivals, starts, stops and failed requests move no update out of order:
\* they leave the offsets alone or bring back the one on disk.
LEMMA OtherPollSteps ==
  ASSUME TelegramInv, Arrive \/ StartBot \/ Converse \/ SendFails \/ StopBot
  PROVE  TelegramInv'
<1>1. arrived \in Nat /\ batch \subseteq 1..arrived
  BY ArrivedNumber DEF TelegramInv, TelegramTypeOK
<1>2. {} = 1..0
  OBVIOUS
<1>3. CASE Arrive
  <2>1. TelegramTypeOK'
    BY <1>1, <1>3, TelegramAssumption
       DEF TelegramAssumption, TelegramInv, TelegramTypeOK, Arrive
  <2>2. NothingSkipped'
    \* Nothing was confirmed or stored that had not arrived.
    BY <1>1, <1>3 DEF TelegramInv, TelegramTypeOK, NothingSkipped, Arrive
  <2>. QED
    BY <1>3, <2>1, <2>2
       DEF TelegramInv, BatchInterval, BelowBatch, MessagesInOrder, Settled, Arrive
<1>4. CASE StartBot \/ Converse
  BY <1>4 DEF TelegramInv, TelegramTypeOK, BatchInterval, BelowBatch, NothingSkipped,
     MessagesInOrder, Settled, StartBot, Converse
<1>5. CASE SendFails \/ StopBot
  <2>1. batch' = {} /\ UNCHANGED <<arrived, confirmed, offset, disk, begun, delivered>>
    BY <1>5 DEF SendFails, StopBot, Rest
  <2>2. TelegramTypeOK'
    BY <1>5, <2>1, TelegramAssumption
       DEF TelegramAssumption, TelegramInv, TelegramTypeOK, SendFails, StopBot
  <2>. QED
    BY <1>2, <2>1, <2>2 DEF TelegramInv, BatchInterval, BelowBatch, NothingSkipped,
       MessagesInOrder
<1>. QED
  BY <1>3, <1>4, <1>5

\* Every step of the bot keeps order and misses nothing.
LEMMA TelegramStep == TelegramInv /\ [TelegramNext]_pollVars => TelegramInv'
<1>1. ASSUME TelegramInv, UNCHANGED pollVars
      PROVE  TelegramInv'
  BY <1>1 DEF TelegramInv, TelegramTypeOK, BatchInterval, BelowBatch, NothingSkipped,
     MessagesInOrder, Settled, pollVars
<1>. QED
  BY <1>1, PollKeeps, HandleKeeps, DeliverKeeps, OtherPollSteps DEF TelegramNext, BotStep

\* TelegramInv is inductive.
LEMMA TelegramInvHolds == TelegramSpec => []TelegramInv
  BY TelegramInitially, TelegramStep, PTL DEF TelegramSpec

\* No message is acknowledged to the server or on disk before its answer was
\* delivered in full, for any messages and any number of failed requests, stops,
\* crashes and torn offset files.
THEOREM TelegramSkipsNothing == TelegramSpec => []NothingSkipped
<1>1. TelegramInv => NothingSkipped
  BY DEF TelegramInv
<1>. QED
  BY <1>1, TelegramInvHolds, PTL

\* No turn is begun for a message before every earlier one is answered,
\* whatever was polled again in between.
THEOREM TelegramKeepsOrder == TelegramSpec => []MessagesInOrder
<1>1. TelegramInv => MessagesInOrder
  BY DEF TelegramInv
<1>. QED
  BY <1>1, TelegramInvHolds, PTL

\* What is answered has been taken up: it needs an answer, and a turn if it is chat.
TakenUp ==
  step \in {"asking", "answering"} =>
    /\ Kind[Oldest] # "ignored"
    /\ Kind[Oldest] = "chat" => Oldest \in begun

\* Only Handle takes an update up, and the batch stays until it is done with.
LEMMA TakenUpStep == ASSUME TakenUp, [TelegramNext]_pollVars PROVE TakenUp'
<1>1. CASE step' \notin {"asking", "answering"}
  BY <1>1 DEF TakenUp
<1>2. CASE UNCHANGED <<batch, step, begun>>
  BY <1>2 DEF TakenUp, Oldest
<1>3. CASE Handle /\ step' \in {"asking", "answering"}
  <2>1. Kind[Oldest] # "ignored"
    BY <1>3 DEF Handle, Ignore, Advance
  <2>2. Kind[Oldest] = "chat" => Oldest \in begun'
    BY <1>3 DEF Handle
  <2>3. batch' = batch
    BY <1>3, <2>1 DEF Handle
  <2>4. Oldest' = Oldest
    BY <2>3 DEF Oldest
  <2>. QED
    BY <2>1, <2>2, <2>4 DEF TakenUp
<1>4. CASE Converse
  <2>1. UNCHANGED <<batch, begun>> /\ step = "asking"
    BY <1>4 DEF Converse
  <2>. QED
    BY <2>1 DEF TakenUp, Oldest
<1>5. CASE Deliver /\ step' \in {"asking", "answering"}
  <2>1. UNCHANGED <<batch, step, begun>>
    BY <1>5 DEF Deliver, Advance
  <2>. QED
    BY <1>2, <2>1
<1>. QED
  BY <1>1, <1>2, <1>3, <1>4, <1>5
     DEF TelegramNext, BotStep, Arrive, StartBot, Poll, SendFails, StopBot, pollVars

\* What is below the oldest update is settled, so that its time has come.
LEMMA OldestMayBeHandled ==
  ASSUME TelegramInv, batch # {}
  PROVE  Oldest \in Updates /\ Promise!MayHandle(Oldest)
<1>1. /\ arrived \in Nat /\ Oldest \in batch /\ Oldest \in 1..arrived
      /\ \A v \in batch : Oldest <= v
  BY FrontOfBatch DEF TelegramInv
<1>2. arrived \in Updates /\ Updates = 1..Cardinality(Updates) /\ Cardinality(Updates) \in Nat
  BY <1>1, TelegramAssumption, FS_CardinalityType
     DEF TelegramAssumption, TelegramInv, TelegramTypeOK
<1>3. Oldest \in Updates
  BY <1>1, <1>2
<1>4. \A v \in 1..(Oldest - 1) : Settled(v)
  BY <1>1 DEF TelegramInv, BelowBatch
<1>5. \A e \in Updates : e < Oldest => Settled(e)
  BY <1>1, <1>2, <1>4
<1>. QED
  BY <1>1, <1>3, <1>5 DEF Promise!MayHandle, Promise!Settled, Settled

\* Every step of the bot is one the inbox allows, or one it does not see.
LEMMA InboxStep ==
  ASSUME TelegramInv, TelegramInv', TakenUp, [TelegramNext]_pollVars
  PROVE  [Promise!Next]_(Promise!inboxVars)
<1>1. CASE UNCHANGED <<arrived, begun, delivered, confirmed>>
  BY <1>1 DEF Promise!inboxVars
<1>2. CASE Arrive
  <2>1. Promise!Write
    BY <1>2 DEF Arrive, Promise!Write
  <2>. QED
    BY <2>1 DEF Promise!Next
<1>3. CASE Poll /\ confirmed' # confirmed
  <2>1. /\ arrived \in Nat /\ confirmed \in 0..(arrived + 1)
        /\ confirmed' \in 0..(arrived + 1) /\ confirmed' >= confirmed
        /\ UNCHANGED <<arrived, begun, delivered>>
    BY <1>3, ArrivedNumber DEF TelegramInv, TelegramTypeOK, Poll, AskFor, Biggest
  <2>2. Updates = 1..Cardinality(Updates) /\ Cardinality(Updates) \in Nat /\ arrived \in Updates \cup {0}
    BY TelegramAssumption, FS_CardinalityType DEF TelegramAssumption, TelegramInv,
       TelegramTypeOK
  <2>3. \A m \in Updates : m < confirmed' => m <= arrived /\ Settled(m)
    BY <2>1, <2>2 DEF TelegramInv, NothingSkipped, Settled
  <2>4. Promise!Acknowledge(confirmed')
    BY <2>1, <2>3 DEF Promise!Acknowledge, Promise!Settled, Settled
  <2>5. PICK m \in Updates \cup {0} : confirmed' = m + 1
    <3>. DEFINE c == confirmed'
    <3>0. c \in Int /\ confirmed \in Int /\ c # confirmed /\ c >= confirmed
          /\ confirmed >= 0 /\ c <= arrived + 1
      BY <1>3, <2>1
    <3>. HIDE DEF c
    <3>1. c - 1 \in 0..arrived /\ c = (c - 1) + 1
      BY <2>1, <3>0
    <3>2. 0..arrived \subseteq Updates \cup {0}
      BY <2>1, <2>2
    <3>. QED
      BY <3>1, <3>2 DEF c
  <2>. QED
    BY <2>4, <2>5 DEF Promise!Next
<1>4. CASE Handle
  <2>1. CASE Kind[Oldest] = "chat"
    <3>1. /\ begun' = begun \cup {Oldest} /\ batch # {}
          /\ UNCHANGED <<arrived, delivered, confirmed>>
      BY <1>4, <2>1 DEF Handle
    <3>2. Promise!Begin(Oldest)
      BY <2>1, <3>1, OldestMayBeHandled DEF Promise!Begin
    <3>. QED
      BY <3>1, <3>2, OldestMayBeHandled DEF Promise!Next
  <2>2. CASE Kind[Oldest] # "chat"
    <3>1. Kind[Oldest] \in {"ignored", "notice"}
      BY <1>4, <2>2, OldestMayBeHandled, TelegramAssumption DEF TelegramAssumption, Handle
    <3>. QED
      BY <1>1, <1>4, <3>1 DEF Handle
  <2>. QED
    BY <2>1, <2>2
<1>5. CASE Deliver
  <2>1. CASE part < Parts[Oldest]
    BY <1>1, <1>5, <2>1 DEF Deliver
  <2>2. CASE ~(part < Parts[Oldest])
    <3>1. /\ delivered' = delivered \cup {Oldest} /\ batch # {}
          /\ Kind[Oldest] # "ignored" /\ (Kind[Oldest] = "chat" => Oldest \in begun)
          /\ UNCHANGED <<arrived, begun, confirmed>>
      BY <1>5, <2>2 DEF Deliver, TakenUp, TelegramInv, TelegramTypeOK
    <3>2. Promise!Answer(Oldest)
      BY <3>1, OldestMayBeHandled DEF Promise!Answer
    <3>. QED
      BY <3>1, <3>2, OldestMayBeHandled DEF Promise!Next
  <2>. QED
    BY <2>1, <2>2
<1>6. CASE StartBot \/ Converse \/ SendFails \/ StopBot \/ UNCHANGED pollVars
  BY <1>1, <1>6 DEF StartBot, Converse, SendFails, StopBot, pollVars
<1>7. Poll => UNCHANGED <<arrived, begun, delivered>>
  BY DEF Poll
<1>. QED
  BY <1>1, <1>2, <1>3, <1>4, <1>5, <1>6, <1>7 DEF TelegramNext, BotStep

\* The bot implements what Inbox says may happen to a message: a turn is begun
\* and an answer given only when every earlier message is settled, an answer is
\* never forgotten, and the server is told to forget a message only when it needs
\* none any more; whatever is repeated after a failed request, a stop, a crash or
\* a torn offset file cannot be told from silence.
THEOREM InboxNeverLost == TelegramSpec => Promise!Safety
<1>1. TelegramInit => Promise!Init /\ TakenUp
  BY DEF TelegramInit, Promise!Init, TakenUp
<1>2. TelegramInv /\ TelegramInv' /\ TakenUp /\ [TelegramNext]_pollVars
        => [Promise!Next]_(Promise!inboxVars) /\ TakenUp'
  BY InboxStep, TakenUpStep
<1>. QED
  BY <1>1, <1>2, TelegramInvHolds, PTL DEF TelegramSpec, Promise!Safety

-----------------------------------------------------------------------------
(***************************************************************************)
(* The turn and its marker.                                                *)
(***************************************************************************)
Over == {"done", "failed", "lost"}

\* Whoever is up holds the instance lock, so one process at most is up.
HolderUp == \A p \in Processes : life[p] # "down" => lock = p

\* A turn goes on only in a process that serves.
HostServes ==
  \A m \in Requests : at[m] \in Underway => host[m] \in Processes /\ life[host[m]] = "serving"

\* A marker was written by a turn that began; what a boot has found, and what
\* was ever announced, is over.
MarkerBegun   == \A m \in active : at[m] # "new"
PendingOver   == \A p \in Processes : \A m \in pending[p] : at[m] \in Over
AnnouncedOver == \A m \in Requests : notices[m] > 0 => at[m] \in Over

\* A turn that goes on has its marker, unless writing it failed; a turn that
\* may finish has its answer; what is being announced was announced.
UnderwayMarked == \A m \in Requests : at[m] \in Underway => m \in active \cup unmarked
AnsweredStored == \A m \in Requests : at[m] = "answered" => m \in answered
TellingTold    == \A p \in Processes : telling[p] \in Requests => notices[telling[p]] > 0

TurnInv ==
  /\ TurnTypeOK /\ HolderUp /\ HostServes /\ MarkerBegun /\ PendingOver /\ AnnouncedOver
  /\ UnderwayMarked /\ AnsweredStored /\ TellingTold /\ TurnRemembered

\* No turn has begun in the beginning.
LEMMA TurnInitially == TurnInit => TurnInv
<1>. SUFFICES ASSUME TurnInit PROVE TurnInv
  OBVIOUS
<1>1. TurnTypeOK
  BY ConversationAssumption DEF ConversationAssumption, TurnInit, TurnTypeOK, Underway
<1>2. HolderUp /\ HostServes /\ MarkerBegun /\ PendingOver /\ AnnouncedOver
  BY DEF TurnInit, HolderUp, HostServes, MarkerBegun, PendingOver, AnnouncedOver, Underway
<1>3. UnderwayMarked /\ AnsweredStored /\ TellingTold /\ TurnRemembered
  BY ConversationAssumption DEF ConversationAssumption, TurnInit, UnderwayMarked,
     AnsweredStored, TellingTold, TurnRemembered, Underway
<1>. QED
  BY <1>1, <1>2, <1>3 DEF TurnInv

\* While a process recovers, no turn goes on: nobody else is up.
LEMMA NobodyServes ==
  ASSUME TurnInv, NEW p \in Processes, life[p] = "recovering" \/ lock = Nobody
  PROVE  \A m \in Requests : at[m] \notin Underway
<1>. SUFFICES ASSUME NEW m \in Requests, at[m] \in Underway PROVE FALSE
  OBVIOUS
<1>1. host[m] \in Processes /\ life[host[m]] = "serving"
  BY DEF TurnInv, HostServes
<1>2. lock = host[m]
  BY <1>1 DEF TurnInv, HolderUp
<1>. QED
  BY <1>1, <1>2, ConversationAssumption DEF ConversationAssumption, TurnInv, HolderUp

\* A boot finds the markers of turns that are over: their processes are gone.
LEMMA BootKeeps == ASSUME TurnInv, NEW p \in Processes, Boot(p) PROVE TurnInv'
<1>1. \A q \in Processes : life[q] = "down"
  BY ConversationAssumption
     DEF ConversationAssumption, TurnInv, TurnTypeOK, HolderUp, Boot, MayBoot
<1>2. \A m \in Requests : at[m] \notin Underway
  BY NobodyServes DEF Boot, MayBoot
<1>3. \A m \in active : at[m] \in Over
  BY <1>2 DEF TurnInv, TurnTypeOK, MarkerBegun, Over
<1>4. TurnTypeOK'
  BY DEF TurnInv, TurnTypeOK, Boot, diskVars
<1>5. HolderUp'
  BY <1>1 DEF TurnInv, TurnTypeOK, HolderUp, Boot
<1>6. HostServes' /\ UnderwayMarked'
  BY <1>2 DEF HostServes, UnderwayMarked, Boot, diskVars
<1>7. PendingOver'
  BY <1>3 DEF TurnInv, TurnTypeOK, PendingOver, Boot
<1>. QED
  BY <1>4, <1>5, <1>6, <1>7 DEF TurnInv, MarkerBegun, AnnouncedOver, AnsweredStored,
     TellingTold, TurnRemembered, Boot, diskVars

\* A boot announces turns of processes that are gone.
LEMMA AnnounceKeeps == ASSUME TurnInv, NEW p \in Processes, Announce(p) PROVE TurnInv'
<1>1. PICK m \in pending[p] \ Skipped :
        /\ notices' = [notices EXCEPT ![m] = @ + 1]
        /\ telling' = [telling EXCEPT ![p] = m]
  BY DEF Announce
<1>2. m \in Requests /\ at[m] \in Over
  BY DEF TurnInv, TurnTypeOK, PendingOver
<1>3. TurnTypeOK'
  BY <1>1, <1>2 DEF TurnInv, TurnTypeOK, Announce
<1>4. AnnouncedOver'
  BY <1>1, <1>2 DEF TurnInv, TurnTypeOK, AnnouncedOver, Announce
<1>5. TellingTold'
  BY <1>1, <1>2 DEF TurnInv, TurnTypeOK, TellingTold, Announce
<1>6. TurnRemembered'
  BY <1>1, <1>2 DEF TurnInv, TurnTypeOK, TurnRemembered, Announce
<1>. QED
  BY <1>3, <1>4, <1>5, <1>6 DEF TurnInv, HolderUp, HostServes, MarkerBegun, PendingOver,
     UnderwayMarked, AnsweredStored, Announce

\* Recovery takes away the marker of a turn that was told, or need not be.
LEMMA RecoverKeeps == ASSUME TurnInv, NEW p \in Processes, Recover(p) PROVE TurnInv'
<1>1. PICK m \in pending[p] :
        /\ telling[p] = m \/ (telling[p] = Nobody /\ m \in Skipped)
        /\ CompleteMarker(m)
        /\ pending' = [pending EXCEPT ![p] = @ \ {m}]
  BY DEF Recover
<1>2. m \in Requests /\ at[m] \in Over
  BY DEF TurnInv, TurnTypeOK, PendingOver
<1>3. active' \in {active, active \ {m}} /\ completed' \in SUBSET Requests
  BY <1>1, <1>2 DEF CompleteMarker, TurnInv, TurnTypeOK
<1>4. notices[m] > 0 \/ m \in AuditOnly
  BY <1>1, <1>2 DEF TurnInv, TellingTold, Skipped
<1>5. TurnTypeOK'
  BY <1>1, <1>3 DEF TurnInv, TurnTypeOK, Recover
<1>6. UnderwayMarked'
  BY <1>2, <1>3 DEF TurnInv, UnderwayMarked, Recover, Over, Underway
<1>7. TurnRemembered'
  BY <1>3, <1>4 DEF TurnInv, TurnRemembered, Recover
<1>8. PendingOver' /\ MarkerBegun'
  BY <1>1, <1>3 DEF TurnInv, TurnTypeOK, PendingOver, MarkerBegun, Recover
<1>9. TellingTold'
  BY ConversationAssumption DEF ConversationAssumption, TurnInv, TurnTypeOK,
     TellingTold, Recover
<1>. QED
  BY <1>5, <1>6, <1>7, <1>8, <1>9 DEF TurnInv, HolderUp, HostServes, AnnouncedOver,
     AnsweredStored, Recover

\* A crash ends the turns of its process; their markers stay.
LEMMA CrashKeeps == ASSUME TurnInv, NEW p \in Processes, Crash(p) PROVE TurnInv'
<1>1. \A m \in Requests : /\ at'[m] \in Underway => at[m] = at'[m] /\ host[m] # p
                          /\ at[m] \in Over => at'[m] = at[m]
                          /\ at'[m] = "answered" => at[m] = "answered"
                          /\ at'[m] = "new" => at[m] = "new"
  BY DEF TurnInv, TurnTypeOK, Crash, Underway, Over
<1>2. TurnTypeOK'
  BY ConversationAssumption DEF ConversationAssumption, TurnInv, TurnTypeOK, Crash, diskVars
<1>3. HolderUp' /\ HostServes'
  BY <1>1 DEF TurnInv, TurnTypeOK, HolderUp, HostServes, Crash
<1>4. MarkerBegun' /\ PendingOver' /\ AnnouncedOver'
  BY <1>1 DEF TurnInv, TurnTypeOK, MarkerBegun, PendingOver, AnnouncedOver, Crash, diskVars
<1>5. UnderwayMarked' /\ AnsweredStored'
  BY <1>1 DEF TurnInv, UnderwayMarked, AnsweredStored, Crash, diskVars
<1>6. TellingTold'
  BY ConversationAssumption
     DEF ConversationAssumption, TurnInv, TurnTypeOK, TellingTold, Crash, diskVars
<1>7. TurnRemembered'
  \* A turn that is lost was underway, and so it was marked.
  BY <1>1 DEF TurnInv, TurnTypeOK, UnderwayMarked, TurnRemembered, Crash, diskVars
<1>. QED
  BY <1>2, <1>3, <1>4, <1>5, <1>6, <1>7 DEF TurnInv

\* A process serves when it has announced them all.
LEMMA ServeKeeps == ASSUME TurnInv, NEW p \in Processes, Serve(p) PROVE TurnInv'
<1>1. \A m \in Requests : at[m] \notin Underway
  BY NobodyServes DEF Serve
<1>2. TurnTypeOK' /\ HolderUp'
  BY DEF TurnInv, TurnTypeOK, HolderUp, Serve, diskVars
<1>. QED
  BY <1>1, <1>2 DEF TurnInv, HostServes, MarkerBegun, PendingOver, AnnouncedOver,
     UnderwayMarked, AnsweredStored, TellingTold, TurnRemembered, Serve, diskVars

\* A turn that begins is new, so nothing was said of it before.
LEMMA ReceiveKeeps ==
  ASSUME TurnInv, NEW p \in Processes, NEW m \in Requests, Receive(p, m)
  PROVE  TurnInv'
<1>1. at[m] = "new" /\ at' = [at EXCEPT ![m] = "marked"] /\ m \notin active
  BY DEF Receive, Move, TurnInv, MarkerBegun
<1>2. active \subseteq active' /\ active' \subseteq active \cup {m}
      /\ unmarked \subseteq unmarked' /\ unmarked' \subseteq unmarked \cup {m}
      /\ m \in active' \cup unmarked'
  BY DEF Receive, StartMarker
<1>3. TurnTypeOK'
  BY <1>1, <1>2 DEF TurnInv, TurnTypeOK, Receive, bootVars, Underway
<1>4. HolderUp' /\ HostServes'
  BY <1>1 DEF TurnInv, TurnTypeOK, HolderUp, HostServes, Receive, bootVars
<1>5. MarkerBegun' /\ PendingOver' /\ AnnouncedOver'
  BY <1>1, <1>2 DEF TurnInv, TurnTypeOK, MarkerBegun, PendingOver, AnnouncedOver, Receive,
     bootVars, Over
<1>6. UnderwayMarked' /\ AnsweredStored' /\ TurnRemembered'
  BY <1>1, <1>2 DEF TurnInv, TurnTypeOK, UnderwayMarked, AnsweredStored, TurnRemembered,
     Receive, Underway
<1>7. TellingTold'
  BY DEF TurnInv, TellingTold, Receive, bootVars
<1>. QED
  BY <1>3, <1>4, <1>5, <1>6, <1>7 DEF TurnInv

\* A turn that goes on stores more, and ends only with its answer stored or its
\* marker left where it is.
LEMMA TurnStepKeeps == ASSUME TurnInv, NEW m \in Requests, TurnStep(m) PROVE TurnInv'
<1>1. /\ at[m] \in Underway /\ UNCHANGED <<bootVars, host, notices, unmarked>>
      /\ at' = [at EXCEPT ![m] = at'[m]] /\ at'[m] \in Underway \cup Over
      /\ said \subseteq said' /\ said' \subseteq said \cup {m}
      /\ answered \subseteq answered' /\ answered' \subseteq answered \cup {m}
      /\ active' \in {active, active \ {m}} /\ completed' \in {completed, completed \cup {m}}
  <2>. USE DEF Move, Alive, TurnInv, TurnTypeOK, Over, Underway
  <2>1. CASE StoreRequest(m)
    BY <2>1 DEF StoreRequest
  <2>2. CASE StoreAnswer(m)
    BY <2>2 DEF StoreAnswer
  <2>3. CASE Finish(m)
    BY <2>3 DEF Finish, CompleteMarker
  <2>4. CASE Fail(m)
    BY <2>4 DEF Fail
  <2>. QED
    BY <2>1, <2>2, <2>3, <2>4 DEF TurnStep
<1>2. /\ at'[m] = "answered" => m \in answered'
      /\ at'[m] \in Underway \cup {"failed"} => active' = active
      /\ at'[m] = "done" => m \in answered'
      /\ at'[m] # "lost"
  <2>. USE DEF Move, Alive, TurnInv, TurnTypeOK, AnsweredStored, Over, Underway
  <2>1. CASE StoreRequest(m)
    BY <2>1 DEF StoreRequest
  <2>2. CASE StoreAnswer(m)
    BY <2>2 DEF StoreAnswer
  <2>3. CASE Finish(m)
    BY <2>3 DEF Finish, CompleteMarker
  <2>4. CASE Fail(m)
    BY <2>4 DEF Fail
  <2>. QED
    BY <2>1, <2>2, <2>3, <2>4 DEF TurnStep
<1>3. TurnTypeOK'
  BY <1>1 DEF TurnInv, TurnTypeOK, bootVars, Over, Underway
<1>4. HolderUp' /\ HostServes' /\ TellingTold'
  BY <1>1 DEF TurnInv, TurnTypeOK, HolderUp, HostServes, TellingTold, bootVars
<1>5. MarkerBegun' /\ PendingOver' /\ AnnouncedOver'
  BY <1>1 DEF TurnInv, TurnTypeOK, MarkerBegun, PendingOver, AnnouncedOver, bootVars, Over,
     Underway
<1>6. UnderwayMarked' /\ AnsweredStored'
  BY <1>1, <1>2 DEF TurnInv, TurnTypeOK, UnderwayMarked, AnsweredStored
<1>7. TurnRemembered'
  BY <1>1, <1>2 DEF TurnInv, TurnTypeOK, UnderwayMarked, TurnRemembered, Over
<1>. QED
  BY <1>3, <1>4, <1>5, <1>6, <1>7 DEF TurnInv

\* Every step keeps unanswered requests marked.
LEMMA TurnNextKeeps == TurnInv /\ [TurnNext]_turnVars => TurnInv'
<1>1. ASSUME TurnInv, UNCHANGED turnVars
      PROVE  TurnInv'
  BY <1>1 DEF TurnInv, TurnTypeOK, HolderUp, HostServes, MarkerBegun, PendingOver,
     AnnouncedOver, UnderwayMarked, AnsweredStored, TellingTold, TurnRemembered, turnVars,
     diskVars
<1>. QED
  BY <1>1, BootKeeps, AnnounceKeeps, RecoverKeeps, ServeKeeps, CrashKeeps, ReceiveKeeps,
     TurnStepKeeps DEF TurnNext, BootStep

\* TurnInv is inductive.
LEMMA TurnInvHolds == TurnSpec => []TurnInv
  BY TurnInitially, TurnNextKeeps, PTL DEF TurnSpec

\* A stored message whose turn is over was answered, announced as interrupted, or
\* will be at the next boot, unless it had no marker or was audit-only: for any
\* number of processes, turns, crashes and failing marker files.
THEOREM TurnsAreRemembered == TurnSpec => []TurnRemembered
<1>1. TurnInv => TurnRemembered
  BY DEF TurnInv
<1>. QED
  BY <1>1, TurnInvHolds, PTL

\* No turn is announced as interrupted while it goes on, however many processes
\* are started on one state directory.
THEOREM NoticesMeanOver == TurnSpec => []NoticeMeansOver
<1>1. TurnInv => NoticeMeansOver
  BY DEF TurnInv, AnnouncedOver, NoticeMeansOver, Over, Underway
<1>. QED
  BY <1>1, TurnInvHolds, PTL

-----------------------------------------------------------------------------
(***************************************************************************)
(* The consolidation worker.                                               *)
(***************************************************************************)
\* A name of a run stands for a worker process.
RunsNamed ==
  /\ status.says # "none" => status.run \in Runs
  /\ talk \in {"found", "killed", "written"} => target \in Runs
  /\ loop # "sleep" => run \in Runs

\* What the parent has collected of a run is the end of its process.
CollectedDead == loop \in {"brief", "persist", "settle", "retry"} => worker[run] = "dead"

\* Only a faulty worker reports a failure.
FailedFaulty ==
  \A r \in Runs : worker[r] = "failed" \/ result[r] = "failed" => r \in WorkerFaults

\* A run that a turn has stopped has its result, or the turn is about to write
\* it, unless the parent is gone that waited for it.
SignalledTold ==
  \A r \in signalled : /\ worker[r] # "unborn"
                       /\ \/ result[r] # "none" \/ run # r
                          \/ talk = "killed" /\ target = r

NoFalseFailure ==
  loop \in {"persist", "settle", "retry"} /\ run \in signalled /\ outcome \in Failures
    => run \in WorkerFaults

WorkerInv ==
  /\ WorkerTypeOK /\ RunsNamed /\ CollectedDead /\ FailedFaulty /\ SignalledTold
  /\ NoFalseFailure

\* No worker runs in the beginning.
LEMMA WorkerInitially == WorkerInit => WorkerInv
<1>. SUFFICES ASSUME WorkerInit PROVE WorkerInv
  OBVIOUS
<1>1. {ripe, barred} \subseteq BOOLEAN
  <2>1. ripe = FALSE /\ barred = FALSE
    BY DEF WorkerInit
  <2>. QED
    BY <2>1
<1>. QED
  BY <1>1, WorkerAssumption DEF WorkerAssumption, WorkerInit, WorkerInv, WorkerTypeOK,
     RunsNamed,
     CollectedDead, FailedFaulty, SignalledTold, NoFalseFailure, RunOutcomes, Failures

\* A worker fails only when it is faulty, and writes what it did.
LEMMA WorkerKeeps ==
  ASSUME WorkerInv, NEW r \in Runs, WorkerStep(r) \/ Heartbeat(r)
  PROVE  WorkerInv'
<1>1. WorkerTypeOK'
  BY DEF WorkerInv, WorkerTypeOK, WorkerStep, WorkerStarts, Heartbeat, WriteResult,
     WriteStatus, WorkerExits, Reported, parentVars, talkVars, fileVars, gateVars
<1>2. RunsNamed' /\ CollectedDead'
  BY DEF WorkerInv, WorkerTypeOK, RunsNamed, CollectedDead, WorkerStep, WorkerStarts,
     Heartbeat,
     WriteResult, WriteStatus, WorkerExits, Live, Reported, parentVars, talkVars,
     fileVars, gateVars
<1>3. FailedFaulty' /\ SignalledTold'
  BY DEF WorkerInv, WorkerTypeOK, FailedFaulty, SignalledTold, WorkerStep, WorkerStarts,
     Heartbeat, WriteResult, WriteStatus, WorkerExits, parentVars, talkVars, fileVars,
     gateVars
<1>4. NoFalseFailure'
  BY DEF WorkerInv, NoFalseFailure, WorkerStep, WorkerStarts,
     Heartbeat, WriteResult, WriteStatus, WorkerExits, parentVars, talkVars, fileVars,
     gateVars
<1>. QED
  BY <1>1, <1>2, <1>3, <1>4 DEF WorkerInv

\* A launch names its run anew, so that old files are not taken for its own.
LEMMA LaunchKeeps ==
  ASSUME WorkerInv, Launch
  PROVE  WorkerInv'
<1>1. PICK r \in Runs :
        /\ worker[r] = "unborn" /\ run' = r /\ attempts' = attempts + 1
        /\ \/ /\ worker' = [worker EXCEPT ![r] = "begun"]
              /\ loop' = "await" /\ UNCHANGED outcome
           \/ /\ r \in WorkerFaults /\ worker' = [worker EXCEPT ![r] = "dead"]
              /\ loop' = "persist" /\ outcome' = "start_failed"
  BY DEF Launch
<1>2. UNCHANGED <<fileVars, gateVars, talkVars, stops>> /\ attempts < MaxAttempts
  BY DEF Launch
<1>3. WorkerTypeOK'
  BY <1>1, <1>2, WorkerAssumption DEF WorkerAssumption, WorkerInv, WorkerTypeOK,
     RunOutcomes,
     Failures, fileVars, gateVars, talkVars
<1>4. RunsNamed' /\ CollectedDead' /\ FailedFaulty' /\ SignalledTold'
  BY <1>1, <1>2 DEF WorkerInv, WorkerTypeOK, RunsNamed, CollectedDead, FailedFaulty,
     SignalledTold, fileVars, gateVars, talkVars
<1>5. NoFalseFailure'
  BY <1>1, <1>2 DEF WorkerInv, NoFalseFailure, fileVars,
     talkVars
<1>. QED
  BY <1>3, <1>4, <1>5 DEF WorkerInv

\* Collecting: a stopped run has a result, and no other comes without a fault.
LEMMA CollectKeeps ==
  ASSUME WorkerInv, Collect \/ CollectLate \/ Timeout
  PROVE  WorkerInv'
<1>0. run \in Runs /\ result[run] \in {"none", "ok", "failed", "cancelled"}
  BY DEF WorkerInv, WorkerTypeOK, RunsNamed, Collect, CollectLate, Timeout
<1>1. WorkerTypeOK'
  BY <1>0 DEF WorkerInv, WorkerTypeOK, Collect, CollectLate, Timeout, Ends, Reported,
     RunOutcomes, Failures, fileVars, gateVars, talkVars
<1>2. RunsNamed' /\ CollectedDead'
  BY <1>0 DEF WorkerInv, WorkerTypeOK, RunsNamed, CollectedDead, Collect, CollectLate,
     Timeout,
     Ends, Reported, fileVars, gateVars, talkVars
<1>3. FailedFaulty' /\ SignalledTold'
  BY <1>0 DEF WorkerInv, WorkerTypeOK, FailedFaulty, SignalledTold, Collect, CollectLate,
     Timeout, Ends, Reported, fileVars, gateVars, talkVars
<1>4. NoFalseFailure'
  BY <1>0 DEF WorkerInv, WorkerTypeOK, FailedFaulty, SignalledTold, NoFalseFailure, Collect,
     CollectLate, Timeout, Ends, Failures, fileVars, gateVars, talkVars
<1>. QED
  BY <1>1, <1>2, <1>3, <1>4 DEF WorkerInv

\* The outcome is persisted and settled as it was collected.
LEMMA SettleKeeps ==
  ASSUME WorkerInv, Persist \/ Settle
  PROVE  WorkerInv'
<1>1. WorkerTypeOK'
  <2>1. timing' \in RunOutcomes /\ ripe' \in BOOLEAN
    BY DEF WorkerInv, WorkerTypeOK, Persist, Settle, fileVars, gateVars
  <2>2. attempts' \in 0..MaxAttempts
    BY WorkerAssumption DEF WorkerAssumption, WorkerInv, WorkerTypeOK, Persist, Settle,
       Sleep
  <2>3. loop' \in {"sleep", "settle", "retry"}
    BY DEF Persist, Settle, Sleep
  <2>. QED
    BY <2>1, <2>2, <2>3 DEF WorkerInv, WorkerTypeOK, Persist, Settle, fileVars,
       gateVars, talkVars
<1>2. /\ RunsNamed' /\ CollectedDead' /\ FailedFaulty' /\ SignalledTold' /\ NoFalseFailure'
  BY DEF WorkerInv, RunsNamed, CollectedDead, FailedFaulty, SignalledTold, NoFalseFailure,
     Persist, Settle, Sleep, fileVars, gateVars, talkVars
<1>. QED
  BY <1>1, <1>2 DEF WorkerInv

\* A stop or a crash of the main process leaves the files.
LEMMA DownKeeps ==
  ASSUME WorkerInv, Stop \/ ParentCrash
  PROVE  WorkerInv'
<1>1. WorkerTypeOK'
  <2>1. /\ worker' \in [Runs -> {"unborn", "begun", "starting", "running", "ok", "failed", "over",
                               "dead"}]
        /\ status' \in [run : Runs \cup {NoRun},
                       says : {"none", "starting", "running", "completed", "failed",
                               "timeout_killed", "cancelled"}]
    BY DEF WorkerInv, WorkerTypeOK, Stop, ParentCrash, Down, Reported
  <2>2. /\ loop' \in {"sleep"} /\ run' = NoRun /\ outcome' \in RunOutcomes /\ attempts' = 0
        /\ talk' = "idle" /\ target' = NoRun /\ quiet' = TRUE /\ stops' \in 0..MaxStops
        /\ UNCHANGED <<result, timing, gateVars, talks, signalled>>
    BY WorkerAssumption DEF WorkerAssumption, WorkerInv, WorkerTypeOK, Stop,
       ParentCrash, Down,
       RunOutcomes
  <2>3. 0 \in 0..MaxAttempts
    BY WorkerAssumption DEF WorkerAssumption
  <2>. QED
    BY <2>1, <2>2, <2>3 DEF WorkerInv, WorkerTypeOK, gateVars
<1>2. RunsNamed' /\ CollectedDead'
  BY DEF WorkerInv, RunsNamed, CollectedDead, Stop, ParentCrash, Down, Reported
<1>3. FailedFaulty' /\ SignalledTold'
  BY WorkerAssumption DEF WorkerAssumption, WorkerInv, WorkerTypeOK, FailedFaulty,
     SignalledTold, Stop, ParentCrash, Down
<1>4. NoFalseFailure'
  BY DEF WorkerInv, WorkerTypeOK, NoFalseFailure, Stop,
     ParentCrash, Down
<1>. QED
  BY <1>1, <1>2, <1>3, <1>4 DEF WorkerInv

\* A user turn that kills a worker says so in its files.
LEMMA TalkKeeps ==
  ASSUME WorkerInv, Talk \/ TalkStep \/ Quieten
  PROVE  WorkerInv'
<1>0. /\ talk' \in {"found", "killed", "written"} => target' \in Runs
      /\ target' \in Runs \cup {NoRun}
  BY DEF WorkerInv, WorkerTypeOK, RunsNamed, Talk, TalkStep, KillWorker, WriteCancelResult,
     WriteCancelStatus, EndTalk, Quieten, WorkerActive
<1>1. WorkerTypeOK' /\ RunsNamed'
  <2>1. /\ status' \in [run : Runs \cup {NoRun},
                       says : {"none", "starting", "running", "completed", "failed",
                               "timeout_killed", "cancelled"}]
        /\ status'.says # "none" => status'.run \in Runs
    BY DEF WorkerInv, WorkerTypeOK, RunsNamed, Talk, TalkStep, KillWorker,
       WriteCancelResult,
       WriteCancelStatus, EndTalk, Quieten, Reported, unmoved
  <2>2. /\ worker' \in [Runs -> {"unborn", "begun", "starting", "running", "ok", "failed", "over",
                               "dead"}]
        /\ result' \in [Runs -> {"none", "ok", "failed", "cancelled"}]
    BY DEF WorkerInv, WorkerTypeOK, Talk, TalkStep, KillWorker, WriteCancelResult,
       WriteCancelStatus, EndTalk, Quieten, unmoved
  <2>3. /\ talk' \in {"idle", "found", "killed", "written", "talking"} /\ quiet' \in BOOLEAN
        /\ signalled' \subseteq Runs /\ UNCHANGED <<parentVars, timing, gateVars, stops>>
    BY DEF WorkerInv, WorkerTypeOK, RunsNamed, Talk, TalkStep, KillWorker,
       WriteCancelResult,
       WriteCancelStatus, EndTalk, Quieten, unmoved
  <2>4. talks' \in 0..MaxTalks
    <3>1. MaxTalks \in Nat /\ talks \in 0..MaxTalks
      BY WorkerAssumption DEF WorkerAssumption, WorkerInv, WorkerTypeOK
    <3>. QED
      BY <3>1 DEF Talk, TalkStep, KillWorker, WriteCancelResult, WriteCancelStatus, EndTalk,
         Quieten
  <2>. QED
    BY <1>0, <2>1, <2>2, <2>3, <2>4 DEF WorkerInv, WorkerTypeOK, RunsNamed, parentVars,
       gateVars
<1>2. CollectedDead' /\ FailedFaulty' /\ SignalledTold'
  BY DEF WorkerInv, WorkerTypeOK, RunsNamed, CollectedDead, FailedFaulty, SignalledTold,
     Talk,
     TalkStep, KillWorker, WriteCancelResult, WriteCancelStatus, EndTalk, Quieten, Live,
     unmoved, parentVars
<1>3. NoFalseFailure'
  BY DEF WorkerInv, CollectedDead, NoFalseFailure, Talk, TalkStep, KillWorker,
     WriteCancelResult, WriteCancelStatus, EndTalk, Quieten, Live, unmoved, parentVars
<1>. QED
  BY <1>1, <1>2, <1>3 DEF WorkerInv

\* What bars consolidation and how long ago it ran is nothing to its runs.
LEMMA GateKeeps ==
  ASSUME WorkerInv, Ripens \/ Bars
  PROVE  WorkerInv'
<1>1. /\ UNCHANGED <<parentVars, fileVars, worker, talkVars, stops>>
      /\ ripe' \in BOOLEAN /\ barred' \in BOOLEAN
  BY DEF WorkerInv, WorkerTypeOK, Ripens, Bars
<1>. QED
  BY <1>1 DEF WorkerInv, WorkerTypeOK, RunsNamed, CollectedDead, FailedFaulty,
     SignalledTold,
     NoFalseFailure, parentVars, fileVars, gateVars, talkVars

\* WorkerInv is inductive.
LEMMA WorkerNextKeeps == WorkerInv /\ [WorkerNext]_workerVars => WorkerInv'
<1>1. WorkerInv /\ UNCHANGED workerVars => WorkerInv'
  BY DEF WorkerInv, WorkerTypeOK, RunsNamed, CollectedDead, FailedFaulty, SignalledTold,
     NoFalseFailure, workerVars, parentVars, fileVars, gateVars, talkVars
<1>2. WorkerInv /\ WorkerNext => WorkerInv'
  BY WorkerKeeps, LaunchKeeps, CollectKeeps, SettleKeeps, DownKeeps, TalkKeeps, GateKeeps
  DEF WorkerNext, ParentStep
<1>. QED
  BY <1>1, <1>2

\* It holds as long as the worker is used.
LEMMA WorkerInvHolds == WorkerSpec => []WorkerInv
<1>. QED
  BY WorkerNextKeeps, WorkerInitially, PTL DEF WorkerSpec

\* A run that a user turn stopped is not reported as a failure, between whatever
\* two steps of the worker, the parent and the turn the signal came: unless the
\* worker was faulty of itself.
THEOREM PreemptionNeverFails == WorkerSpec => []PreemptionIsNoFailure
<1>1. WorkerInv => PreemptionIsNoFailure
  BY DEF WorkerInv, NoFalseFailure, PreemptionIsNoFailure, RequiresRetry
<1>. QED
  BY <1>1, WorkerInvHolds, PTL

\* The one worker that lives is the one the main process waits for.
AwaitedAlone == stops = 0 => \A r \in Runs : Live(r) => loop = "await" /\ run = r

\* A step of the worker, the user turn or time brings no worker to life.
LEMMA OthersKeepAwaited ==
  ASSUME AwaitedAlone, WorkerTypeOK,
         \/ \E r \in Runs : WorkerStep(r) \/ Heartbeat(r)
         \/ Talk \/ TalkStep \/ Quieten \/ Ripens \/ Bars
  PROVE  AwaitedAlone'
<1>1. /\ UNCHANGED <<stops, loop, run>>
      /\ \A r \in Runs : worker'[r] \notin {"unborn", "dead"} => Live(r)
  <2>1. CASE \E r \in Runs : WorkerStep(r) \/ Heartbeat(r)
    BY <2>1 DEF WorkerStep, WorkerStarts, Heartbeat, WriteResult, WriteStatus, WorkerExits,
       parentVars, Live, WorkerTypeOK
  <2>2. CASE Talk \/ TalkStep \/ Quieten \/ Ripens \/ Bars
    BY <2>2 DEF Talk, TalkStep, KillWorker, WriteCancelResult, WriteCancelStatus, EndTalk,
       Quieten, Ripens, Bars, unmoved, parentVars, Live, WorkerTypeOK
  <2>. QED
    BY <2>1, <2>2
<1>. QED
  BY <1>1 DEF AwaitedAlone, Live

\* The main process starts a worker when none lives, and leaves one behind only
\* when it ends.
LEMMA AwaitedStep == WorkerInv /\ AwaitedAlone /\ [WorkerNext]_workerVars => AwaitedAlone'
<1>. SUFFICES ASSUME WorkerInv, AwaitedAlone, [WorkerNext]_workerVars PROVE AwaitedAlone'
  OBVIOUS
<1>1. WorkerTypeOK
  BY DEF WorkerInv
<1>2. CASE Launch \/ Collect \/ CollectLate \/ Timeout \/ Persist \/ Settle
  BY <1>1, <1>2 DEF Launch, Collect, CollectLate, Timeout, Persist, Settle, Sleep, Ends,
     AwaitedAlone, Live, WorkerTypeOK
<1>3. CASE Stop \/ ParentCrash
  BY <1>1, <1>3 DEF Stop, ParentCrash, Down, AwaitedAlone, WorkerTypeOK
<1>4. CASE UNCHANGED workerVars
  BY <1>4 DEF workerVars, parentVars, AwaitedAlone, Live
<1>. QED
  BY <1>1, <1>2, <1>3, <1>4, OthersKeepAwaited DEF WorkerNext, ParentStep

\* No worker lives in the beginning.
LEMMA AwaitedInitially == WorkerInit => AwaitedAlone
<1>. QED
  BY DEF WorkerInit, AwaitedAlone, Live

\* Two consolidation engines never work at once, through timeouts, retries,
\* cancellations and faults of the worker, as long as the main process is
\* neither stopped nor dies.
THEOREM EnginesWorkAlone == WorkerSpec => []OneEngine
<1>1. AwaitedAlone => OneEngine
  BY DEF AwaitedAlone, OneEngine
<1>2. WorkerInit => WorkerInv /\ AwaitedAlone
  BY WorkerInitially, AwaitedInitially
<1>3. WorkerInv /\ AwaitedAlone /\ [WorkerNext]_workerVars => WorkerInv' /\ AwaitedAlone'
  BY WorkerNextKeeps, AwaitedStep
<1>. QED
  BY <1>1, <1>2, <1>3, PTL DEF WorkerSpec

-----------------------------------------------------------------------------
(***************************************************************************)
(* Episode maintenance: any number of episodes, sessions, compactions      *)
(* after responses, sweeps and consolidation cycles.                       *)
(***************************************************************************)
\* The type invariant, with the session a compactor works on.
JobShape == job \in [Compactors -> [step : {"idle", "summarising", "saved"},
                                    in : SUBSET Sessions, batch : SUBSET (1..appended)]]
FreshShape ==
  /\ fresh \in [of : cand, compacted : BOOLEAN, faded : BOOLEAN] \cup {NoRow}
  /\ fresh # NoRow => phase = "core"
Shapes == MemoryTypeOK /\ JobShape /\ FreshShape

\* Whoever is about to mark an episode compacted knows a memory that cites it:
\* a compactor its summary, the engine the memories of its cycle; and a row read
\* for the identity core is only written back as compacted if it was.
SavedSummed == \A c \in Compactors : job[c].step = "saved" => job[c].batch \subseteq summed
ConsumedDistilled == consumed \subseteq distilled
FreshCited == fresh.compacted => fresh.of \in summed \cup distilled

CitedInv == Shapes /\ SavedSummed /\ ConsumedDistilled /\ FreshCited /\ SummaryFirst

\* An episode has TailSize newer ones of its session.
Newer(e) == {x \in 1..appended : x > e /\ SessionOf[x] = SessionOf[e]}
HasTail(e) == Cardinality(Newer(e)) >= TailSize
BatchesHaveTail ==
  \A c \in Compactors : job[c].step # "idle" => \A e \in job[c].batch : HasTail(e)

-----------------------------------------------------------------------------
(***************************************************************************)
(* Lemmas on numbers of episodes and on the helpers of the actions.        *)
(***************************************************************************)
\* Episodes are numbered, and so is what was appended.
LEMMA AppendedNumber == MemoryTypeOK => appended \in Nat /\ Cardinality(Episodes) \in Nat
  BY MemoryAssumption, FS_CardinalityType DEF MemoryAssumption, MemoryTypeOK

\* save_episode of a candidate writes a well-typed row and marks nothing
\* compacted that the copy does not say is.
LEMMA UpsertTypes ==
  ASSUME NEW e \in 1..appended, NEW isCompacted, NEW isCore, NEW isFaded,
         Upsert(e, isCompacted, isCore, isFaded),
         rows \subseteq 1..appended, {compacted, core, faded} \subseteq SUBSET rows
  PROVE  /\ rows' \subseteq 1..appended
         /\ {compacted, core, faded}' \subseteq SUBSET rows'
         /\ compacted' \subseteq IF isCompacted THEN compacted \cup {e} ELSE compacted
  BY DEF Upsert

\* What is old has a tail: the episodes of the backlog that follow it are
\* episodes of the session.
LEMMA OldHasTail ==
  ASSUME MemoryTypeOK, NEW s \in Sessions
  PROVE  /\ Old(s) \subseteq 1..appended
         /\ \A e \in Old(s) : HasTail(e)
<1>1. Old(s) \subseteq 1..appended
  BY DEF MemoryTypeOK, Old, Backlog
<1>2. ASSUME NEW e \in Old(s)
      PROVE  HasTail(e)
  <2>. DEFINE after == {x \in Backlog(s) : x > e}
  <2>1. after \subseteq Newer(e)
    BY DEF MemoryTypeOK, Old, Backlog, Newer
  <2>2. IsFiniteSet(1..appended)
    BY AppendedNumber, FS_Interval
  <2>3. IsFiniteSet(Newer(e))
    BY <2>2, FS_Subset DEF Newer
  <2>4. IsFiniteSet(after) /\ Cardinality(after) <= Cardinality(Newer(e))
    BY <2>1, <2>3, FS_Subset
  <2>5. Cardinality(after) \in Nat /\ Cardinality(Newer(e)) \in Nat
    BY <2>3, <2>4, FS_CardinalityType
  <2>6. Cardinality(after) >= TailSize
    BY DEF Old
  <2>. QED
    BY <2>4, <2>5, <2>6, MemoryAssumption DEF MemoryAssumption, HasTail
<1>. QED
  BY <1>1, <1>2

\* A tail only grows: no later episode is taken out of a session.
LEMMA TailGrows ==
  ASSUME MemoryTypeOK, appended' \in {appended, appended + 1},
         NEW e, HasTail(e)
  PROVE  Cardinality(Newer(e)') >= TailSize
<1>1. appended \in Nat /\ appended' \in Nat
  BY AppendedNumber
<1>2. IsFiniteSet(1..appended')
  BY <1>1, FS_Interval
<1>3. Newer(e) \subseteq Newer(e)'
  BY <1>1 DEF Newer
<1>4. IsFiniteSet(Newer(e)')
  BY <1>2, FS_Subset DEF Newer
<1>5. IsFiniteSet(Newer(e)) /\ Cardinality(Newer(e)) <= Cardinality(Newer(e)')
  BY <1>3, <1>4, FS_Subset
<1>6. Cardinality(Newer(e)) \in Nat /\ Cardinality(Newer(e)') \in Nat
  BY <1>4, <1>5, FS_CardinalityType
<1>. QED
  BY <1>5, <1>6, MemoryAssumption DEF MemoryAssumption, HasTail

\* A job that is listed is idle or holds what is old of its session.
LEMMA ListTypes ==
  ASSUME Shapes, NEW c \in Compactors, NEW s \in Sessions, NEW least \in Nat,
         List(c, s, least)
  PROVE  /\ job' \in [Compactors -> [step : {"idle", "summarising", "saved"},
                                     in : SUBSET Sessions, batch : SUBSET (1..appended)]]
         /\ \A d \in Compactors : d # c => job'[d] = job[d]
         /\ job'[c].step # "saved"
         /\ job'[c].step # "idle" => job'[c].batch = Old(s)
         /\ job'[c].in \subseteq Sessions
<1>1. Old(s) \subseteq 1..appended
  BY OldHasTail DEF Shapes
<1>. QED
  BY <1>1 DEF Shapes, JobShape, List, Idle

-----------------------------------------------------------------------------
(***************************************************************************)
(* Every step keeps the types and the citations.                           *)
(***************************************************************************)
LEMMA CitedInitially == MemoryInit => CitedInv
<1>. SUFFICES ASSUME MemoryInit PROVE CitedInv
  OBVIOUS
<1>1. Cardinality(Episodes) \in Nat
  BY MemoryAssumption, FS_CardinalityType DEF MemoryAssumption
<1>2. Shapes
  BY <1>1, MemoryAssumption DEF MemoryAssumption, MemoryInit, Shapes, MemoryTypeOK,
     JobShape, FreshShape, Idle, NoRow
<1>. QED
  BY <1>2 DEF CitedInv, MemoryInit, SavedSummed, ConsumedDistilled, FreshCited,
     SummaryFirst, Idle, NoRow

\* Recording an episode, or the end of a cooldown.
LEMMA RecordCited == ASSUME CitedInv, RecordEpisode \/ CoolDown PROVE CitedInv'
<1>1. appended \in Nat
  BY AppendedNumber DEF CitedInv, Shapes
<1>2. CASE RecordEpisode
  <2>1. 1..appended \subseteq 1..appended' /\ appended' \in 1..appended'
    BY <1>1, <1>2 DEF RecordEpisode
  <2>2. MemoryTypeOK'
    BY <1>1, <1>2, <2>1, AppendedNumber, MemoryAssumption, SMTT(30)
       DEF MemoryAssumption, CitedInv, Shapes, MemoryTypeOK, RecordEpisode, jobVars,
           engineVars, copyVars
  <2>3. JobShape' /\ FreshShape'
    BY <1>2, <2>1 DEF CitedInv, Shapes, JobShape, FreshShape, RecordEpisode, jobVars,
       engineVars, copyVars
  <2>. QED
    BY <1>2, <2>2, <2>3 DEF CitedInv, Shapes, SavedSummed, ConsumedDistilled, FreshCited,
       SummaryFirst, RecordEpisode, jobVars, engineVars
<1>3. CASE CoolDown
  BY <1>3 DEF CitedInv, Shapes, MemoryTypeOK, JobShape, FreshShape, SavedSummed,
     ConsumedDistilled, FreshCited, SummaryFirst, CoolDown, rowVars, engineVars, copyVars
<1>. QED
  BY <1>2, <1>3

\* Compactions begin: a session is listed.
LEMMA ListCited ==
  ASSUME CitedInv, NEW c \in Compactors,
         (c \in AfterResponse /\ AfterTurn(c)) \/ (c \in Sweeps /\ (Sweep(c) \/ SweepNext(c)))
  PROVE  CitedInv'
<1>. USE DEF CitedInv, Shapes
<1>1. CASE c \in AfterResponse /\ AfterTurn(c)
  <2>1. PICK s \in Sessions : /\ List(c, s, MinRemoved)
                              /\ inflight' = inflight \cup job'[c].in
    BY <1>1 DEF AfterTurn
  <2>2. MinRemoved \in Nat
    BY MemoryAssumption DEF MemoryAssumption
  <2>. QED
    BY <1>1, <2>1, <2>2, ListTypes DEF AfterTurn, MemoryTypeOK, JobShape, FreshShape,
       SavedSummed, ConsumedDistilled, FreshCited, SummaryFirst, rowVars, engineVars,
       copyVars
<1>2. CASE c \in Sweeps /\ Sweep(c)
  BY <1>2 DEF Sweep, MemoryTypeOK, JobShape, FreshShape,
     SavedSummed, ConsumedDistilled, FreshCited, SummaryFirst, rowVars, engineVars, copyVars
<1>3. CASE c \in Sweeps /\ SweepNext(c)
  <2>1. PICK s \in queue[c] : List(c, s, 1) /\ queue' = [queue EXCEPT ![c] = @ \ {s}]
    BY <1>3 DEF SweepNext
  <2>2. s \in Sessions /\ queue' \in [Sweeps -> SUBSET Sessions]
    BY <1>3, <2>1 DEF MemoryTypeOK
  <2>. QED
    BY <1>3, <2>1, <2>2, ListTypes DEF SweepNext, MemoryTypeOK, JobShape, FreshShape,
       SavedSummed, ConsumedDistilled, FreshCited, SummaryFirst, rowVars, engineVars,
       copyVars
<1>. QED
  BY <1>1, <1>2, <1>3

\* Compactions end: the summary is stored, then its episodes are marked.
LEMMA CompactorCited ==
  ASSUME CitedInv, NEW c \in Compactors, CompactorStep(c)
  PROVE  CitedInv'
<1>. USE DEF CitedInv, Shapes, JobShape
<1>1. CASE Summarise(c)
  BY <1>1 DEF Summarise, MemoryTypeOK, FreshShape, SavedSummed, ConsumedDistilled,
     FreshCited, SummaryFirst, rowVars, engineVars, copyVars
<1>2. CASE MarkCompacted(c)
  <2>1. inflight' \subseteq Sessions /\ cooling' \subseteq Sessions
    BY <1>2 DEF MarkCompacted, MemoryTypeOK
  <2>2. compacted' = compacted \cup (job[c].batch \cap rows) /\ job[c].batch \subseteq summed
    BY <1>2 DEF MarkCompacted, Marked, SavedSummed
  <2>. QED
    BY <1>2, <2>1, <2>2 DEF MarkCompacted, Idle, MemoryTypeOK, FreshShape, SavedSummed,
       ConsumedDistilled, FreshCited, SummaryFirst, engineVars, copyVars
<1>3. CASE CompactionFails(c)
  <2>1. inflight' \subseteq Sessions /\ queue' \in [Sweeps -> SUBSET Sessions]
    BY <1>3 DEF CompactionFails, MemoryTypeOK
  <2>. QED
    BY <1>3, <2>1 DEF CompactionFails, Idle, MemoryTypeOK, FreshShape, SavedSummed,
       ConsumedDistilled, FreshCited, SummaryFirst, rowVars, engineVars, copyVars
<1>. QED
  BY <1>1, <1>2, <1>3 DEF CompactorStep

\* The steps of the engine that write no episode.
LEMMA EngineCopiesCited ==
  ASSUME CitedInv,
         Gather \/ DistilCluster \/ ClustersDone \/ PromoteSignal \/ SignalsDone \/ ReadForCore
           \/ ReweighDone \/ EngineDies
  PROVE  CitedInv'
<1>. USE DEF CitedInv, Shapes, JobShape, MemoryTypeOK, FreshShape, SavedSummed,
     ConsumedDistilled, FreshCited, SummaryFirst, rowVars, jobVars, copyVars
<1>1. CASE Gather
  <2>1. cycles' \in 0..MaxCycles
    BY <1>1, MemoryAssumption DEF MemoryAssumption, Gather
  <2>2. fresh = NoRow
    BY <1>1 DEF Gather
  <2>. QED
    BY <1>1, <2>1, <2>2 DEF Gather, NoRow
<1>2. CASE DistilCluster
  BY <1>2 DEF DistilCluster
<1>3. CASE ClustersDone \/ SignalsDone \/ ReweighDone
  BY <1>3 DEF ClustersDone, SignalsDone, ReweighDone
<1>4. CASE PromoteSignal
  BY <1>4 DEF PromoteSignal
<1>5. CASE ReadForCore
  <2>1. PICK e \in todo :
          /\ todo' = todo \ {e}
          /\ fresh' = IF e \in rows \ core
                      THEN [of |-> e, compacted |-> e \in compacted, faded |-> e \in faded]
                      ELSE NoRow
    BY <1>5 DEF ReadForCore
  <2>2. e \in cand /\ fresh'.of \in cand \cup {0}
        /\ fresh' \in [of : cand, compacted : BOOLEAN, faded : BOOLEAN] \cup {NoRow}
    BY <2>1 DEF NoRow
  <2>3. fresh'.compacted => fresh'.of \in compacted
    BY <2>1 DEF NoRow
  <2>. QED
    BY <1>5, <2>1, <2>2, <2>3 DEF ReadForCore
<1>6. CASE EngineDies
  BY <1>6 DEF EngineDies, EngineOff, NoRow
<1>. QED
  BY <1>1, <1>2, <1>3, <1>4, <1>5, <1>6

\* The steps of the engine that write episodes.  Only a row read anew is saved
\* as compacted, and the candidates consumed are cited by what was distilled.
LEMMA EngineWritesCited ==
  ASSUME CitedInv, Reembed \/ PromoteCore \/ MarkConsumed \/ Reweigh \/ Prune
  PROVE  CitedInv'
<1>. USE DEF CitedInv, Shapes, JobShape
<1>1. CASE Reembed
  <2>1. PICK e \in todo : Upsert(e, FALSE, e \in candCore, e \in candFaded)
    BY <1>1 DEF Reembed
  <2>2. e \in 1..appended
    BY DEF MemoryTypeOK
  <2>3. /\ rows' \subseteq 1..appended /\ {compacted, core, faded}' \subseteq SUBSET rows'
        /\ compacted' \subseteq compacted
    BY <2>1, <2>2, UpsertTypes DEF MemoryTypeOK
  <2>. QED
    BY <1>1, <2>3 DEF Reembed, MemoryTypeOK, FreshShape, SavedSummed, ConsumedDistilled,
       FreshCited, SummaryFirst, jobVars, engineVars, copyVars
<1>2. CASE PromoteCore
  <2>1. rows' \subseteq 1..appended /\ {compacted, core, faded}' \subseteq SUBSET rows'
        /\ compacted' \subseteq summed \cup distilled
    <3>1. CASE UNCHANGED rowVars
      BY <3>1 DEF rowVars, MemoryTypeOK, SummaryFirst
    <3>2. CASE Upsert(fresh.of, fresh.compacted, TRUE, fresh.faded)
      <4>1. fresh.of \in 1..appended
        BY <1>2 DEF PromoteCore, FreshShape, MemoryTypeOK
      <4>. QED
        BY <3>2, <4>1, UpsertTypes DEF FreshShape, FreshCited, MemoryTypeOK, SummaryFirst
    <3>. QED
      BY <1>2, <3>1, <3>2 DEF PromoteCore
  <2>. QED
    BY <1>2, <2>1 DEF PromoteCore, NoRow, MemoryTypeOK, FreshShape, SavedSummed,
       ConsumedDistilled, FreshCited, SummaryFirst, jobVars, copyVars
<1>3. CASE MarkConsumed
  <2>1. compacted' = compacted \cup (consumed \cap rows)
    BY <1>3 DEF MarkConsumed, Marked
  <2>. QED
    BY <1>3, <2>1 DEF MarkConsumed, MemoryTypeOK, FreshShape, SavedSummed,
       ConsumedDistilled, FreshCited, SummaryFirst, jobVars, copyVars
<1>4. CASE Reweigh
  <2>1. PICK e \in todo :
          /\ todo' = todo \ {e}
          /\ \/ \E isFaded \in BOOLEAN : Upsert(e, FALSE, e \in candCore, isFaded)
             \/ UNCHANGED rowVars
    BY <1>4 DEF Reweigh
  <2>2. e \in 1..appended
    BY DEF MemoryTypeOK
  <2>3. /\ rows' \subseteq 1..appended /\ {compacted, core, faded}' \subseteq SUBSET rows'
        /\ compacted' \subseteq compacted
    BY <2>1, <2>2, UpsertTypes DEF MemoryTypeOK, rowVars
  <2>. QED
    BY <1>4, <2>1, <2>3 DEF Reweigh, MemoryTypeOK, FreshShape, SavedSummed,
       ConsumedDistilled, FreshCited, SummaryFirst, jobVars, copyVars
<1>5. CASE Prune
  BY <1>5 DEF Prune, EngineOff, NoRow, MemoryTypeOK, FreshShape, SavedSummed,
     ConsumedDistilled, FreshCited, SummaryFirst, jobVars
<1>. QED
  BY <1>1, <1>2, <1>3, <1>4, <1>5

\* A crash forgets jobs and copies, never what is stored.
LEMMA CrashCited == ASSUME CitedInv, MemoryCrash PROVE CitedInv'
  BY DEF CitedInv, Shapes, MemoryCrash, EngineOff, Idle, NoRow, MemoryTypeOK, JobShape,
     FreshShape, SavedSummed, ConsumedDistilled, FreshCited, SummaryFirst, rowVars

\* Every step keeps what is marked cited.
LEMMA CitedStep == CitedInv /\ [MemoryNext]_memoryVars => CitedInv'
<1>1. ASSUME CitedInv, UNCHANGED memoryVars
      PROVE  CitedInv'
  BY <1>1 DEF CitedInv, Shapes, MemoryTypeOK, JobShape, FreshShape, SavedSummed,
     ConsumedDistilled, FreshCited, SummaryFirst, memoryVars, rowVars, jobVars, engineVars,
     copyVars
<1>2. AfterResponse \subseteq Compactors /\ Sweeps \subseteq Compactors
  BY DEF Compactors
<1>. QED
  BY <1>1, <1>2, RecordCited, ListCited, CompactorCited, EngineCopiesCited,
     EngineWritesCited, CrashCited DEF MemoryNext, EngineStep

\* CitedInv is inductive.
LEMMA CitedInvHolds == MemorySpec => []CitedInv
  BY CitedInitially, CitedStep, PTL DEF MemorySpec

\* Every variable of the memory store and of its two jobs keeps its type.
THEOREM MemoryTypesCorrect == MemorySpec => []MemoryTypeOK
<1>1. CitedInv => MemoryTypeOK
  BY DEF CitedInv, Shapes
<1>. QED
  BY <1>1, CitedInvHolds, PTL

\* An episode that has left the context for good is cited by a memory, wherever
\* compactors, engine and process stop, and however many work on one session.
THEOREM SummariesComeFirst == MemorySpec => []SummaryFirst
<1>1. CitedInv => SummaryFirst
  BY DEF CitedInv
<1>. QED
  BY <1>1, CitedInvHolds, PTL

-----------------------------------------------------------------------------
(***************************************************************************)
(* The tail of a session.                                                  *)
(***************************************************************************)
TailInv == BatchesHaveTail /\ TailKept

\* No compaction has a batch in the beginning.
LEMMA TailInitially == MemoryInit => TailInv
  BY DEF MemoryInit, TailInv, BatchesHaveTail, TailKept, Idle

\* What is listed, and so what is summarised, has a tail, and a tail grows.
LEMMA TailStep == CitedInv /\ TailInv /\ [MemoryNext]_memoryVars => TailInv'
<1>. SUFFICES ASSUME CitedInv, TailInv, [MemoryNext]_memoryVars PROVE TailInv'
  OBVIOUS
<1>1. appended' \in {appended, appended + 1}
  BY DEF MemoryNext, EngineStep, CompactorStep, RecordEpisode, CoolDown, MemoryCrash,
     AfterTurn, Sweep, SweepNext, Summarise, MarkCompacted, CompactionFails, Gather,
     Reembed,
     DistilCluster, ClustersDone, PromoteSignal, SignalsDone, ReadForCore, PromoteCore,
     MarkConsumed, Reweigh, ReweighDone, Prune, EngineDies, memoryVars
<1>2. \A e : HasTail(e) => HasTail(e)'
  BY <1>1, TailGrows DEF CitedInv, Shapes, HasTail
<1>3. ASSUME NEW d \in Compactors, job'[d].step # "idle"
      PROVE  \/ job[d].step # "idle" /\ job'[d].batch = job[d].batch
             \/ \E s \in Sessions : job'[d].batch = Old(s)
  <2>1. CASE \E c \in Compactors :
               \/ c \in AfterResponse /\ AfterTurn(c)
               \/ c \in Sweeps /\ SweepNext(c)
    <3>1. PICK c \in Compactors, s \in Sessions, least \in Nat : List(c, s, least)
      BY <2>1, MemoryAssumption
         DEF MemoryAssumption, CitedInv, Shapes, MemoryTypeOK, AfterTurn, SweepNext
    <3>. QED
      BY <1>3, <3>1, ListTypes DEF CitedInv
  <2>2. CASE \E c \in Compactors : CompactorStep(c)
    BY <1>3, <2>2 DEF CitedInv, Shapes, JobShape, CompactorStep, Summarise, MarkCompacted,
       CompactionFails, Idle
  <2>3. CASE MemoryCrash
    BY <1>3, <2>3 DEF MemoryCrash, Idle
  <2>4. CASE \/ UNCHANGED memoryVars \/ RecordEpisode \/ CoolDown \/ EngineStep
             \/ \E c \in Sweeps : Sweep(c)
    <3>1. UNCHANGED job
      BY <2>4 DEF EngineStep, RecordEpisode, CoolDown, Sweep, Gather, Reembed,
         DistilCluster,
         ClustersDone, PromoteSignal, SignalsDone, ReadForCore, PromoteCore, MarkConsumed,
         Reweigh, ReweighDone, Prune, EngineDies, memoryVars, jobVars
    <3>. QED
      BY <1>3, <3>1
  <2>. QED
    BY <2>1, <2>2, <2>3, <2>4 DEF MemoryNext, Compactors
<1>4. ASSUME summed' # summed
      PROVE  \E c \in Compactors : /\ job[c].step = "summarising"
                                    /\ summed' = summed \cup job[c].batch
  BY <1>4 DEF MemoryNext, EngineStep, CompactorStep, RecordEpisode, CoolDown, MemoryCrash,
     AfterTurn, Sweep, SweepNext, Summarise, MarkCompacted, CompactionFails, Gather,
     Reembed,
     DistilCluster, ClustersDone, PromoteSignal, SignalsDone, ReadForCore, PromoteCore,
     MarkConsumed, Reweigh, ReweighDone, Prune, EngineDies, memoryVars
<1>5. BatchesHaveTail'
  <2>. SUFFICES ASSUME NEW d \in Compactors, (job[d].step # "idle")', NEW e \in (job[d].batch)'
                PROVE  HasTail(e)'
    BY DEF BatchesHaveTail
  <2>1. HasTail(e)
    BY <1>3, OldHasTail DEF TailInv, BatchesHaveTail, CitedInv, Shapes
  <2>. QED
    BY <1>2, <2>1
<1>6. TailKept'
  <2>. SUFFICES ASSUME NEW e \in summed' PROVE HasTail(e)'
    BY DEF TailKept, HasTail, Newer
  <2>1. HasTail(e)
    BY <1>4 DEF TailInv, BatchesHaveTail, TailKept, HasTail, Newer
  <2>. QED
    BY <1>2, <2>1
<1>. QED
  BY <1>5, <1>6 DEF TailInv

\* The TailSize newest episodes of a session are not summarised, although
\* consolidation marks and unmarks its episodes while compactions of it run.
THEOREM TailIsKept == MemorySpec => []TailKept
<1>1. TailInv => TailKept
  BY DEF TailInv
<1>. QED
  BY <1>1, TailInitially, CitedInvHolds, TailStep, PTL DEF MemorySpec

=============================================================================
