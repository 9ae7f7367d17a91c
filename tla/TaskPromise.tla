----------------------------- MODULE TaskPromise -----------------------------
(***************************************************************************)
(* What the bounded assistant agent promises to the callers of submit: a   *)
(* future that is answered once, with one verdict, unless the process that *)
(* holds it dies first.  Callers that share a future are answered at once. *)
(***************************************************************************)
CONSTANT Callers
VARIABLE phase
Verdicts == {"ok", "fail"}

Init == phase = [c \in Callers |-> "idle"]

\* A caller submits a task; a recent result of the same task answers now.
Ask(c) ==
  /\ phase[c] = "idle"
  /\ \E p \in Verdicts \cup {"pending"} : phase' = [phase EXCEPT ![c] = p]

Answer(group, v) ==
  /\ group # {} /\ \A c \in group : phase[c] = "pending"
  /\ phase' = [c \in Callers |-> IF c \in group THEN v ELSE phase[c]]

\* The process dies and with it every caller that had asked.
Die == phase' = [c \in Callers |-> IF phase[c] = "idle" THEN "idle" ELSE "gone"]

Next ==
  \/ \E c \in Callers : Ask(c)
  \/ \E group \in SUBSET Callers, v \in Verdicts : Answer(group, v)
  \/ Die

AnswerEventually(c) ==
  \E group \in SUBSET Callers, v \in Verdicts : c \in group /\ Answer(group, v)

\* What never happens, and what must happen as well.
Safety == Init /\ [][Next]_phase
Spec == Safety /\ \A c \in Callers : WF_phase(AnswerEventually(c))
=============================================================================
