--------------------------- MODULE MCBoundedAgent ---------------------------
(* Small instances of BoundedAgent for TLC. *)
EXTENDS BoundedAgent, TLC

CONSTANTS a, b, c, x

\* b waits for a, c for the work object x.
HeldDeps == [t \in Tasks |-> CASE t = b -> {a} [] t = c -> {x} [] OTHER -> {}]
\* b waits for c.
RaceDeps == [t \in Tasks |-> IF t = b THEN {c} ELSE {}]
NoDeps == [t \in Tasks |-> {}]
\* b repeats a's objective.
PairKey == [t \in Tasks |-> IF t = b THEN a ELSE t]
OwnKey == [t \in Tasks |-> t]
=============================================================================
