--------------------------- MODULE WorkflowPhase ---------------------------
(***************************************************************************)
(* What a workflow template may rely on of a phase it gives to the         *)
(* scheduler: the reports WorkflowScheduler::run_phase_controlled can end  *)
(* with, given the number of tasks and whether by then the run was         *)
(* cancelled or its budget used up.  WorkflowScheduler is shown to end     *)
(* with one of them; WorkflowRun takes a phase for a step that does.       *)
(***************************************************************************)
EXTENDS Naturals

PhaseStatuses == {"pending", "running", "completed", "failed", "cancelled", "skipped"}
PhaseOver == {"completed", "failed", "cancelled", "skipped"}

PhaseReports(total, cancelled, over) ==
  {r \in [completed: 0 .. total, failed: 0 .. total, skipped: 0 .. total, phase: PhaseOver] :
     /\ r.completed + r.failed + r.skipped = total
     /\ r.phase = "cancelled" <=> cancelled
     /\ r.phase = "completed" => r.completed = total /\ total > 0
     /\ r.phase = "skipped" => total = 0
     /\ r.phase = "failed" => total > 0 /\ (r.failed > 0 \/ over)
     /\ r.skipped > 0 => cancelled \/ over}
=============================================================================
