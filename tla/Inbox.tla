-------------------------------- MODULE Inbox --------------------------------
(***************************************************************************)
(* What the Telegram bot promises to those who write: their messages are   *)
(* taken up and answered one after the other, an answer is not forgotten,  *)
(* and a message is acknowledged only when it needs none any more.  That   *)
(* an answer may be sent twice cannot be seen here.                        *)
(***************************************************************************)
EXTENDS Naturals

CONSTANTS
  Messages,   \* numbers, in the order of writing
  Wanted,     \* messages that get an answer
  Asked       \* those of them that take a turn
VARIABLES written, begun, answered, acked
inboxVars == <<written, begun, answered, acked>>

Init == written = 0 /\ begun = {} /\ answered = {} /\ acked = 0

Settled(m) == m \in Wanted => m \in answered

\* A message whose time has come: it was written, and all before it are settled.
MayHandle(m) == m <= written /\ \A e \in Messages : e < m => Settled(e)

Write ==
  /\ written + 1 \in Messages /\ written' = written + 1
  /\ UNCHANGED <<begun, answered, acked>>

Begin(m) ==
  /\ m \in Asked /\ MayHandle(m) /\ begun' = begun \cup {m}
  /\ UNCHANGED <<written, answered, acked>>

Answer(m) ==
  /\ m \in Wanted /\ MayHandle(m) /\ (m \in Asked => m \in begun)
  /\ answered' = answered \cup {m}
  /\ UNCHANGED <<written, begun, acked>>

\* What is below n is acknowledged, for ever.
Acknowledge(n) ==
  /\ acked <= n /\ \A m \in Messages : m < n => m <= written /\ Settled(m)
  /\ acked' = n
  /\ UNCHANGED <<written, begun, answered>>

Next ==
  \/ Write
  \/ \E m \in Messages : Begin(m) \/ Answer(m)
  \/ \E m \in Messages \cup {0} : Acknowledge(m + 1)

\* What never happens, and what must happen as well.
Safety == Init /\ [][Next]_inboxVars
Spec == Safety /\ \A m \in Messages : WF_inboxVars(Begin(m)) /\ WF_inboxVars(Answer(m))
=============================================================================
