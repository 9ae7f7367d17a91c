--------------------------- MODULE ProviderCircuit ---------------------------
(***************************************************************************)
(* The circuit breaker in front of one model provider:                     *)
(* ProviderCircuitBreaker (opencas/api/provider_circuit_breaker.py) as the *)
(* calls of LLMClient use it (opencas/api/llm.py).  Each method holds the  *)
(* breaker's lock; the call itself runs between two of them, beside other  *)
(* calls that were let through before.                                     *)
(***************************************************************************)
EXTENDS Integers, FiniteSets

CONSTANTS
  Callers,           \* concurrent calls to the provider
  FailureThreshold,  \* failure_threshold
  MaxEmbedless       \* bound: failures without a call, see EmbedUnsupported

ASSUME CircuitAssumption == /\ IsFiniteSet(Callers) /\ FailureThreshold \in Nat \ {0}
                            /\ MaxEmbedless \in Nat

VARIABLES
  failures,   \* of the provider's CircuitState; no state counts as 0
  circuit,    \* "closed"; "open" within recovery_timeout of open_since; "expired"
  calling,    \* calls under way
  embedless   \* how many of the failures were recorded without a call

circuitVars == <<failures, circuit, calling, embedless>>

CircuitTypeOK ==
  /\ failures \in Nat
  /\ circuit \in {"closed", "open", "expired"}
  /\ calling \subseteq Callers
  /\ embedless \in 0..MaxEmbedless

CircuitInit == failures = 0 /\ circuit = "closed" /\ calling = {} /\ embedless = 0

\* Wrong: the circuit opens one failure late.
TrippedLate(n) == n > FailureThreshold

\* failures >= failure_threshold
Tripped(n) == n >= FailureThreshold

\* The provider's CircuitState is popped.
Forget == failures' = 0 /\ circuit' = "closed" /\ embedless' = 0

\* record_failure: a failure of an open circuit restarts its timeout.
RecordFailure ==
  /\ failures' = failures + 1
  /\ circuit' = IF Tripped(failures + 1) THEN "open" ELSE circuit

\* _raise_if_circuit_open lets the call through; an expired state is popped.
Call(c) ==
  /\ c \notin calling /\ circuit # "open"
  /\ calling' = calling \cup {c}
  /\ \/ circuit = "expired" /\ Forget
     \/ circuit = "closed" /\ UNCHANGED <<failures, circuit, embedless>>

\* record_success pops the state, also one that other calls have opened.
Succeed(c) ==
  /\ c \in calling /\ calling' = calling \ {c}
  /\ Forget

CallFails(c) ==
  /\ c \in calling /\ calling' = calling \ {c}
  /\ RecordFailure
  /\ UNCHANGED embedless

\* A call that is cancelled, or a stream nobody reads to its end, records
\* neither.
Abandon(c) ==
  /\ c \in calling /\ calling' = calling \ {c}
  /\ UNCHANGED <<failures, circuit, embedless>>

\* embed_batch of a provider that has no embeddings: a failure is recorded
\* although nothing was called, and the circuit was not asked.
EmbedUnsupported ==
  /\ embedless < MaxEmbedless /\ embedless' = embedless + 1
  /\ RecordFailure
  /\ UNCHANGED calling

\* recovery_timeout passes.
Expire == circuit = "open" /\ circuit' = "expired" /\ UNCHANGED <<failures, calling, embedless>>

CircuitNext ==
  \/ Expire \/ EmbedUnsupported
  \/ \E c \in Callers : Call(c) \/ Succeed(c) \/ CallFails(c) \/ Abandon(c)

CircuitSpec == CircuitInit /\ [][CircuitNext]_circuitVars

-----------------------------------------------------------------------------
(***************************************************************************)
(* Properties.                                                             *)
(***************************************************************************)
\* Between two resets of the circuit a provider fails at most
\* FailureThreshold - 1 calls and the calls that were let through before the
\* circuit opened: calls that race the opening, late failures that restart the
\* timeout and abandoned calls that count for nothing do not add up to more.
\* Only failures that were no calls may come on top.
FailuresBounded ==
  failures - embedless < FailureThreshold + Cardinality(Callers)

=============================================================================
