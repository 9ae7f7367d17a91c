--------------------------- MODULE SchedulePromise ---------------------------
(***************************************************************************)
(* What the schedule service promises of its items: each is fired for one  *)
(* occurrence after the other, always for a later one than before and no   *)
(* more often than its limit, and what was fired is not forgotten.  Where  *)
(* another writer or a crash has come between, only the last is left.      *)
(***************************************************************************)
EXTENDS Naturals, FiniteSets

CONSTANTS Items, Times, Limit, None
VARIABLES fired, disturbed

Init == fired = [i \in Items |-> {}] /\ disturbed = {}

FireFor(i, t) ==
  /\ fired' = [fired EXCEPT ![i] = @ \cup {t}]
  /\ UNCHANGED disturbed

\* An item is fired for an occurrence after all the others.
FireNext(i, t) ==
  /\ i \notin disturbed
  /\ \A f \in fired[i] : f < t
  /\ Limit[i] # None => Cardinality(fired[i]) < Limit[i]
  /\ FireFor(i, t)

\* One that somebody else wrote may be fired for any.
FireAny(i, t) == i \in disturbed /\ FireFor(i, t)

\* Somebody else writes some items; a crash counts for all.
Disturb(others) == disturbed' = disturbed \cup others /\ UNCHANGED fired

Next ==
  \/ \E i \in Items, t \in Times : FireNext(i, t) \/ FireAny(i, t)
  \/ \E others \in SUBSET Items : Disturb(others)

Safety == Init /\ [][Next]_<<fired, disturbed>>
=============================================================================
