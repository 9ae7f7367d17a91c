--------------------------- MODULE TaskLifecycle ---------------------------
(***************************************************************************)
(* The stage machine of opencas/execution/lifecycle.py: a table of the     *)
(* stages a task or work object may move to from each stage.  DONE has no  *)
(* entry in the table, so nothing may leave it.                            *)
(***************************************************************************)

LifecycleStage ==
  { "spark", "note", "artifact", "queued", "planning", "executing",
    "verifying", "reporting", "done", "failed", "needs_approval",
    "needs_clarification" }

VALID_TRANSITIONS ==
  [ from \in LifecycleStage |->
      CASE from = "spark"     -> {"note", "artifact", "queued", "failed"}
        [] from = "note"      -> {"artifact", "queued", "failed"}
        [] from = "artifact"  -> {"queued", "failed"}
        [] from = "queued"    -> {"planning", "executing", "needs_approval",
                                  "needs_clarification", "failed"}
        [] from = "planning"  -> {"executing", "needs_clarification", "failed"}
        [] from = "executing" -> {"verifying", "needs_approval", "failed",
                                  "needs_clarification", "queued", "done"}
        [] from = "verifying" -> {"reporting", "failed", "executing"}
        [] from = "reporting" -> {"done", "failed"}
        [] from = "failed"    -> {"queued"}
        [] from = "needs_approval" -> {"queued", "executing", "failed"}
        [] from = "needs_clarification" ->
             {"queued", "planning", "executing", "failed"}
        [] OTHER -> {} ]

IsValid(from, to) == to \in VALID_TRANSITIONS[from]
=============================================================================
