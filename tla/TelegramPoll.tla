----------------------------- MODULE TelegramPoll -----------------------------
(***************************************************************************)
(* The Telegram bot's long poll (opencas/telegram_integration.py): updates *)
(* are handled one by one, each is acknowledged only after it was          *)
(* answered, and the offset is kept in a file.  A failure leaves the loop  *)
(* at the offset reached; a stop or a crash may come at any await.         *)
(*                                                                         *)
(* The Telegram server is external: it keeps an update until it is asked   *)
(* for a higher one.                                                       *)
(***************************************************************************)
EXTENDS Naturals, FiniteSets

CONSTANTS
  Updates,     \* 1..n, by update_id
  Kind,        \* [Updates -> {"ignored", "notice", "chat"}]
  Parts,       \* [Updates -> Nat]: messages its answer is cut into
  MaxFaults    \* bound: failed requests, stops and crashes

ASSUME TelegramAssumption ==
  /\ IsFiniteSet(Updates) /\ Updates = 1..Cardinality(Updates)
  /\ Kind \in [Updates -> {"ignored", "notice", "chat"}]
  /\ Parts \in [Updates -> Nat \ {0}]
  /\ MaxFaults \in Nat

VARIABLES
  arrived, confirmed,  \* of the server: the latest update, the oldest it keeps
  offset, disk,        \* _last_update_id, update_offset.json (0: none or torn)
  batch,               \* updates of the last getUpdates that are left
  step,                \* "down", "polling", "asking" or "answering"
  part,                \* the part of the answer to be sent next
  begun, delivered,    \* updates a turn was begun for, updates answered in full
  faults

pollVars == <<arrived, confirmed, offset, disk, batch, step, part, begun,
              delivered, faults>>

Biggest(a, b) == IF a >= b THEN a ELSE b
Oldest == CHOOSE u \in batch : \A v \in batch : u <= v

TelegramTypeOK ==
  /\ arrived \in Updates \cup {0}
  /\ {confirmed, offset, disk} \subseteq 0..(arrived + 1)
  /\ batch \subseteq 1..arrived /\ (step \in {"asking", "answering"} => batch # {})
  /\ step \in {"down", "polling", "asking", "answering"}
  /\ part \in Nat
  /\ {begun, delivered} \subseteq SUBSET (1..arrived)
  /\ faults \in 0..MaxFaults

TelegramInit ==
  /\ arrived = 0 /\ confirmed = 0 /\ offset = 0 /\ disk = 0
  /\ batch = {} /\ step = "down" /\ part = 1
  /\ begun = {} /\ delivered = {} /\ faults = 0

\* Somebody writes to the bot.
Arrive ==
  /\ arrived + 1 \in Updates /\ arrived' = arrived + 1
  /\ UNCHANGED <<confirmed, offset, disk, batch, step, part, begun, delivered,
                 faults>>

\* start: a new service loads the offset.
StartBot ==
  /\ step = "down" /\ step' = "polling" /\ offset' = disk
  /\ UNCHANGED <<arrived, confirmed, disk, batch, part, begun, delivered, faults>>

\* Wrong: fetching a batch acknowledges it.
AskForFetched == Biggest(offset, arrived)

\* What getUpdates asks for: self._last_update_id.
AskFor == offset

\* getUpdates confirms what is below the offset and returns the rest.
Poll ==
  /\ step = "polling" /\ batch = {}
  /\ confirmed' = Biggest(confirmed, AskFor)
  /\ batch' = {u \in 1..arrived : u >= confirmed'}
  /\ UNCHANGED <<arrived, offset, disk, step, part, begun, delivered, faults>>

\* The update was handled: the offset moves past it, in memory and on disk.
\* The file is not replaced but rewritten, and a process that dies in between
\* leaves it unreadable.
Advance(u) ==
  /\ offset' = Biggest(offset, u + 1)
  /\ part' = 1
  /\ \/ disk' = offset' /\ batch' = batch \ {u} /\ step' = "polling" /\ UNCHANGED faults
     \/ faults < MaxFaults /\ faults' = faults + 1
        /\ disk' = 0 /\ batch' = {} /\ step' = "down"

\* Wrong: an update with nothing to answer ends the batch.
IgnoreAll(u) ==
  /\ u \in batch /\ batch' = {} /\ step' = "polling" /\ part' = 1
  /\ UNCHANGED <<offset, disk, faults>>

\* An update handle_update returns from at once.
Ignore(u) == Advance(u)

\* handle_update takes the next update: nothing to do, a notice to send (a
\* pairing code, a command's reply, media it cannot read), or a turn.
Handle ==
  /\ step = "polling" /\ batch # {}
  /\ CASE Kind[Oldest] = "ignored" -> Ignore(Oldest) /\ UNCHANGED begun
       [] Kind[Oldest] = "notice" ->
            step' = "answering" /\ UNCHANGED <<offset, disk, batch, part, begun, faults>>
       [] OTHER ->
            /\ step' = "asking" /\ begun' = begun \cup {Oldest}
            /\ UNCHANGED <<offset, disk, batch, part, faults>>
  /\ UNCHANGED <<arrived, confirmed, delivered>>

\* converse has an answer or raised: either is text to deliver.
Converse ==
  /\ step = "asking" /\ step' = "answering"
  /\ UNCHANGED <<arrived, confirmed, offset, disk, batch, part, begun, delivered, faults>>

\* _deliver_response sends the next part.
Deliver ==
  /\ step = "answering"
  /\ IF part < Parts[Oldest]
     THEN /\ part' = part + 1
          /\ UNCHANGED <<offset, disk, batch, step, delivered, faults>>
     ELSE Advance(Oldest) /\ delivered' = delivered \cup {Oldest}
  /\ UNCHANGED <<arrived, confirmed, begun>>

\* Wrong: the loop goes on with the next update.
RestAfterSkipping == batch \ {Oldest}

\* The exception leaves the loop over the batch.
Rest == {}

\* A request fails: the update and the rest of the batch are polled for again.
SendFails ==
  /\ step = "answering" /\ faults < MaxFaults /\ faults' = faults + 1
  /\ batch' = Rest /\ step' = "polling" /\ part' = 1
  /\ UNCHANGED <<arrived, confirmed, offset, disk, begun, delivered>>

\* stop() cancels the loop, or the process dies.
StopBot ==
  /\ step # "down" /\ faults < MaxFaults /\ faults' = faults + 1
  /\ step' = "down" /\ batch' = {} /\ part' = 1
  /\ UNCHANGED <<arrived, confirmed, offset, disk, begun, delivered>>

BotStep == StartBot \/ Poll \/ Handle \/ Converse \/ Deliver
TelegramNext == Arrive \/ BotStep \/ SendFails \/ StopBot
TelegramSpec == TelegramInit /\ [][TelegramNext]_pollVars

\* The loop runs whenever it can, and the service is started again.
TelegramFair == WF_pollVars(BotStep)

-----------------------------------------------------------------------------
(***************************************************************************)
(* Properties.                                                             *)
(***************************************************************************)
\* No message is acknowledged, to the server or on disk, before its answer
\* was delivered in full: a failed request, a stop and a crash only repeat it.
NothingSkipped ==
  \A u \in 1..arrived :
    u < confirmed \/ u < offset \/ u < disk => Kind[u] = "ignored" \/ u \in delivered

\* Messages are taken in order: no turn is begun for a message before every
\* earlier one is answered, whatever was polled again in between.
MessagesInOrder ==
  \A u \in begun : \A v \in 1..(u - 1) : Kind[v] = "ignored" \/ v \in delivered

\* Everybody who writes is answered, in the order of writing, if the faults stop:
\* a message that failed is not forgotten, one that is ignored holds up nobody,
\* and no poll, stop, crash or torn file takes back what was answered.
Promise ==
  INSTANCE Inbox WITH
    Messages <- Updates,
    Wanted <- {u \in Updates : Kind[u] # "ignored"},
    Asked <- {u \in Updates : Kind[u] = "chat"},
    written <- arrived, begun <- begun, answered <- delivered, acked <- confirmed
InboxKept == Promise!Spec
=============================================================================
