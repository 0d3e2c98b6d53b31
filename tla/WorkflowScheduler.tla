------------------------- MODULE WorkflowScheduler -------------------------
(***************************************************************************)
(* One phase of a workflow: WorkflowScheduler::run_inner, with the         *)
(* cancellation it listens to and the budget controller it asks            *)
(* (src/runtime/workflow/scheduler.rs).                                    *)
(*                                                                         *)
(* The scheduler runs Total tasks, at most MaxConcurrency at a time.  The  *)
(* tasks run in parallel; a request to cancel and the exhaustion of the    *)
(* budget come at any moment.  Tasks are interchangeable here, so the      *)
(* JoinSet is a count of those still running and of those that have ended  *)
(* and wait to be joined; the order of the outputs, sorted at the end, is  *)
(* left out.  Its names differ from those of WorkflowRun, so that the two  *)
(* can be reasoned about side by side.                                     *)
(***************************************************************************)
EXTENDS Integers, WorkflowPhase

CONSTANTS Total,          \* tasks of the phase
          MaxConcurrency  \* DeepSearchLimits.max_concurrency

ASSUME TotalAssumption == Total \in Nat
ASSUME MaxConcurrencyAssumption == MaxConcurrency \in Nat \ {0}

VARIABLES
  taken,      \* tasks task_iter has given out
  calls,      \* agent_calls
  completed,  \* completed_agent_calls, the length of outputs
  failed,     \* failed_agent_calls
  skipped,    \* skipped_agent_calls
  running,    \* tasks of the JoinSet that still run
  ok, err,    \* tasks of the JoinSet that ended well, or failed or panicked
  finished,   \* scheduling_finished
  stopped,    \* control_stopped
  cancelFlag, \* WorkflowCancellationInner.cancelled
  notifying,  \* cancel has stored the flag and not yet called notify_waiters
  listening,  \* the select waits on a Notified of the cancellation
  woken,      \* that Notified has been notified
  overBudget, \* the budget is used up: the controller says no from now on
  place,      \* where run_inner is
  published,  \* the counts last given to the progress sink
  phase,      \* the status of the phase at the sink
  late        \* calls begun although the run was already cancelled

tasks == <<running, ok, err>>
counts == <<taken, calls, completed, failed, skipped>>
control == <<finished, stopped>>
signal == <<cancelFlag, notifying, listening, woken>>
sink == <<published, phase>>
phaseVars == <<counts, tasks, control, signal, overBudget, place, sink, late>>

\* What update_phase_counts is called with.
CountsOf(c, f, s) == [completed |-> c, failed |-> f, skipped |-> s]

PhaseInit ==
  /\ taken = 0 /\ calls = 0 /\ completed = 0 /\ failed = 0 /\ skipped = 0
  /\ running = 0 /\ ok = 0 /\ err = 0
  /\ finished = FALSE /\ stopped = FALSE
  /\ cancelFlag \in BOOLEAN /\ notifying = FALSE /\ listening = FALSE /\ woken = FALSE
  /\ overBudget \in BOOLEAN
  /\ place = "schedule" /\ published = CountsOf(0, 0, 0) /\ phase = "running" /\ late = 0

Remaining == Total - taken
InSet == running + ok + err

\* update_phase_counts, with the counters as this step leaves them.
Publish == published' = CountsOf(completed', failed', skipped') /\ UNCHANGED phase

-----------------------------------------------------------------------------
(* The world around the scheduler.                                         *)

\* WorkflowCancellation::cancel stores the flag ...
Cancel ==
  /\ ~cancelFlag
  /\ cancelFlag' = TRUE /\ notifying' = TRUE
  /\ UNCHANGED <<counts, tasks, control, listening, woken, overBudget, place, sink, late>>

\* ... and then wakes those that listen by now, and nobody else later.
NotifyWaiters ==
  /\ notifying
  /\ notifying' = FALSE /\ woken' = listening
  /\ UNCHANGED <<counts, tasks, control, cancelFlag, listening, overBudget, place, sink, late>>

\* Time or tokens run out, and never come back.
BudgetEnds ==
  /\ ~overBudget /\ overBudget' = TRUE
  /\ UNCHANGED <<counts, tasks, control, signal, place, sink, late>>

TaskEnds ==
  /\ running > 0 /\ running' = running - 1
  /\ \/ ok' = ok + 1 /\ UNCHANGED err
     \/ err' = err + 1 /\ UNCHANGED ok
  /\ UNCHANGED <<counts, control, signal, overBudget, place, sink, late>>

-----------------------------------------------------------------------------
(* The loop that schedules.                                                *)

\* What is left is skipped and nothing more is scheduled.
SkipRest ==
  /\ skipped' = skipped + Remaining
  /\ finished' = TRUE

\* A variant of the scheduling loop that never asks whether the run was cancelled.
CheckNothing ==
  /\ place = "schedule" /\ ~finished /\ InSet < MaxConcurrency
  /\ place' = "pick"
  /\ UNCHANGED <<counts, tasks, control, signal, overBudget, sink, late>>

CheckCancelled ==
  /\ place = "schedule" /\ ~finished /\ InSet < MaxConcurrency
  /\ \/ /\ ~cancelFlag /\ place' = "pick"
        /\ UNCHANGED <<skipped, finished, sink>>
     \/ /\ cancelFlag /\ SkipRest /\ place' = "join"
        /\ UNCHANGED <<completed, failed>> /\ Publish
  /\ UNCHANGED <<taken, calls, completed, failed, tasks, stopped, signal, overBudget, late>>

PickNone ==
  /\ place = "pick" /\ Remaining = 0
  /\ finished' = TRUE /\ place' = "join"
  /\ UNCHANGED <<counts, tasks, stopped, signal, overBudget, sink, late>>

\* should_schedule says no: the task just taken is skipped with the rest.
PickRefused ==
  /\ place = "pick" /\ Remaining > 0 /\ overBudget
  /\ taken' = taken + 1
  /\ skipped' = skipped + (Total - taken') + 1
  /\ finished' = TRUE /\ stopped' = TRUE /\ place' = "join"
  /\ UNCHANGED <<calls, completed, failed>> /\ Publish
  /\ UNCHANGED <<tasks, signal, overBudget, late>>

Spawn ==
  /\ place = "pick" /\ Remaining > 0 /\ ~overBudget
  /\ taken' = taken + 1 /\ calls' = calls + 1
  /\ running' = running + 1
  /\ late' = IF cancelFlag THEN late + 1 ELSE late
  /\ place' = "schedule"
  /\ UNCHANGED <<completed, failed, skipped, ok, err, control, signal, overBudget, sink>>

Full ==
  /\ place = "schedule" /\ (finished \/ InSet >= MaxConcurrency)
  /\ place' = "join"
  /\ UNCHANGED <<counts, tasks, control, signal, overBudget, sink, late>>

-----------------------------------------------------------------------------
(* Waiting for a task.                                                     *)

\* With an empty set the loop is left; otherwise it waits, and while there is more to
\* schedule it also listens for a cancellation.
Join ==
  /\ place = "join"
  /\ place' = IF InSet = 0 THEN "end" ELSE IF finished THEN "wait" ELSE "poll"
  /\ UNCHANGED <<counts, tasks, control, signal, overBudget, sink, late>>

\* cancelled() reads the flag first ...
PollFlag ==
  /\ place = "poll" /\ ~cancelFlag
  /\ place' = "listen"
  /\ UNCHANGED <<counts, tasks, control, signal, overBudget, sink, late>>

\* ... and only then creates the Notified that a cancel will wake.
Listen ==
  /\ place = "listen"
  /\ listening' = TRUE /\ place' = "wait"
  /\ UNCHANGED <<counts, tasks, control, cancelFlag, notifying, woken, overBudget, sink, late>>

\* The cancellation is seen by the select: the rest is skipped.
SeeCancel ==
  /\ \/ place = "poll" /\ cancelFlag
     \/ place = "wait" /\ woken
  /\ SkipRest /\ place' = "schedule"
  /\ listening' = FALSE /\ woken' = FALSE
  /\ UNCHANGED <<completed, failed>> /\ Publish
  /\ UNCHANGED <<taken, calls, tasks, stopped, cancelFlag, notifying, overBudget, late>>

\* A variant that joins only while there is more to schedule.
JoiningWhileScheduling ==
  /\ place \in {"poll", "wait"} /\ ~finished
  /\ place' = "schedule" /\ listening' = FALSE /\ woken' = FALSE
  /\ UNCHANGED <<taken, calls, running, cancelFlag, notifying, overBudget, late>>

\* The select polls its branches in any order, so a task may be joined before the
\* cancellation is looked at.
Joining ==
  /\ place \in {"poll", "wait"}
  /\ place' = "schedule" /\ listening' = FALSE /\ woken' = FALSE
  /\ UNCHANGED <<taken, calls, running, cancelFlag, notifying, overBudget, late>>

\* A task gave its output; its tokens may use up the budget, which skips the rest.
JoinOutput ==
  /\ Joining /\ ok > 0
  /\ ok' = ok - 1 /\ completed' = completed + 1
  /\ IF ~finished /\ overBudget
     THEN SkipRest /\ stopped' = TRUE
     ELSE UNCHANGED <<skipped, control>>
  /\ UNCHANGED <<failed, err>> /\ Publish

\* A variant that publishes only what succeeds.
JoinFailureQuiet ==
  /\ Joining /\ err > 0
  /\ err' = err - 1 /\ failed' = failed + 1
  /\ UNCHANGED <<completed, skipped, ok, control, sink>>

JoinFailure ==
  /\ Joining /\ err > 0
  /\ err' = err - 1 /\ failed' = failed + 1
  /\ UNCHANGED <<completed, skipped, ok, control>> /\ Publish

PhaseOutcome ==
  IF cancelFlag THEN "cancelled"
  ELSE IF stopped \/ failed > 0 THEN "failed"
  ELSE IF Total = 0 THEN "skipped"
  ELSE "completed"

End ==
  /\ place = "end"
  /\ phase' = PhaseOutcome /\ place' = "done"
  /\ UNCHANGED <<counts, tasks, control, signal, overBudget, published, late>>

-----------------------------------------------------------------------------
Loop ==
  \/ CheckCancelled \/ PickNone \/ PickRefused \/ Spawn \/ Full
  \/ Join \/ PollFlag \/ Listen \/ SeeCancel \/ JoinOutput \/ JoinFailure \/ End

PhaseNext == Cancel \/ NotifyWaiters \/ BudgetEnds \/ TaskEnds \/ Loop

PhaseSpec == PhaseInit /\ [][PhaseNext]_phaseVars

\* The scheduler's task and those of the JoinSet are polled; tasks end.
FairPhaseSpec == PhaseSpec /\ WF_phaseVars(Loop) /\ WF_phaseVars(TaskEnds)

-----------------------------------------------------------------------------
NumbersOK ==
  /\ taken \in 0 .. Total /\ calls \in Nat /\ completed \in Nat /\ failed \in Nat
  /\ skipped \in Nat /\ running \in Nat /\ ok \in Nat /\ err \in Nat
  /\ InSet <= MaxConcurrency
  /\ published \in [completed: Nat, failed: Nat, skipped: Nat]
  /\ late \in Nat

FlagsOK ==
  /\ finished \in BOOLEAN /\ stopped \in BOOLEAN /\ overBudget \in BOOLEAN
  /\ cancelFlag \in BOOLEAN /\ notifying \in BOOLEAN /\ listening \in BOOLEAN
  /\ woken \in BOOLEAN

PlacesOK ==
  /\ place \in {"schedule", "pick", "join", "poll", "listen", "wait", "end", "done"}
  /\ phase \in {"running", "completed", "failed", "cancelled", "skipped"}

(* The shape of the state, and the bound on what runs at once              *)
(* (scheduler.rs:217).                                                     *)
PhaseTypeOK == NumbersOK /\ FlagsOK /\ PlacesOK

(* Every task of the phase is in the report exactly once: an output, a     *)
(* failure or a skip, by whichever of the four ways the scheduling ended   *)
(* (scheduler.rs:216-331).                                                 *)
EveryTaskReported ==
  place = "done" => completed + failed + skipped = Total /\ completed + failed = calls

(* The counts the progress sink was last given are those of the report, so *)
(* a reader of the finished phase sees what the report says                *)
(* (scheduler.rs:221-231, 281-330).                                        *)
PublishedIsReport == place = "done" => published = CountsOf(completed, failed, skipped)

(* A phase shown as completed lost nothing: no task failed, none was       *)
(* skipped; and one that skipped tasks says why, cancelled or failed       *)
(* (scheduler.rs:336-348).                                                 *)
CompletedMeansAll ==
  place = "done" => /\ phase = "completed" => completed = Total
                    /\ skipped > 0 => phase \in {"cancelled", "failed"}

(* What a template builds on: the phase ends with a report that fits the   *)
(* flags as they are when it ends, so tasks are skipped only for a cancel  *)
(* or an exhausted budget, and a phase that lost tasks never looks         *)
(* completed; and the sink shows that report (scheduler.rs:333-358).       *)
PhaseContract ==
  [][phase' # phase =>
       /\ published = CountsOf(completed, failed, skipped)
       /\ [completed |-> completed, failed |-> failed, skipped |-> skipped, phase |-> phase']
            \in PhaseReports(Total, cancelFlag, overBudget)]_phaseVars

(* Cancelling is prompt although the flag is read and the task spawned in  *)
(* two steps: at most one more agent call begins                           *)
(* (scheduler.rs:218-262).                                                 *)
AtMostOneLateCall == late <= 1

(* A phase ends if its tasks do, also when the cancel falls between the    *)
(* look at the flag and the registration of the waiter, where notify_      *)
(* waiters wakes nobody (scheduler.rs:37-41).                              *)
PhaseEnds == <>(place = "done")
=============================================================================
