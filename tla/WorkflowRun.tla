---------------------------- MODULE WorkflowRun ----------------------------
(***************************************************************************)
(* One workflow run: the deep-research template on top of the scheduler    *)
(* (src/runtime/workflow/templates/deep_search.rs), the run state behind   *)
(* its lock (src/runtime/workflow/runtime.rs), and the requests that       *)
(* start, read and cancel it and keep its last state in the rollout        *)
(* (src/app_server/request_processors/workflow_processor.rs).              *)
(*                                                                         *)
(* The background task of the run, the clients that read and cancel it,    *)
(* the exhaustion of the budget and the end of the process interleave at   *)
(* every point where the code takes the run's lock or awaits.  A phase of  *)
(* parallel calls is one step that ends with any report the scheduler can  *)
(* give (WorkflowPhase).  Sources, claims and votes are counts.            *)
(***************************************************************************)
EXTENDS Naturals, FiniteSets, WorkflowPhase

CONSTANTS Clients,
          MaxAngles, MaxSources, MaxClaims,  \* DeepSearchLimits
          VotesPerClaim, RefutationsRequired,
          MaxRestarts, MaxRequests           \* bounds of the model

ASSUME LimitsAssumption ==
  {MaxAngles, MaxSources, MaxClaims, VotesPerClaim, RefutationsRequired} \subseteq Nat

PhaseIds == {"scope", "search", "extract", "verify", "synthesize"}
RunOver == {"completed", "failed", "cancelled"}

VARIABLES
  run,        \* the WorkflowRunState, or Absent when the registry has no entry
  disk,       \* the newest WorkflowRun item of the rollout, or Absent
  cancelled,  \* the flag of the run's WorkflowCancellation
  over,       \* WorkflowBudgetGuard::ensure_within_limits fails from now on
  pc,         \* where the background task is
  found,      \* what the task carries: sources, claims, the report of the last phase, verdicts
  error,      \* the error the template returned
  asking,     \* per client: where its workflow_cancel is
  told,       \* the last ended run a client was answered with
  asked,      \* requests so far
  restarts

vars == <<run, disk, cancelled, over, pc, found, error, asking, told, asked, restarts>>
clientVars == <<asking, told, asked>>

Absent == [status |-> "absent"]
NoError == [kind |-> "none", phase |-> "none", cause |-> "none"]
Counts(c, f, s) == [completed |-> c, failed |-> f, skipped |-> s]
Idle == Counts(0, 0, 0)

-----------------------------------------------------------------------------
(* The run state.  Every method of it leaves an ended run alone, and an    *)
(* ended phase.                                                            *)

IsTerminal(r) == r.status \in RunOver
Open(r, p) == ~IsTerminal(r) /\ r.phases[p].status \in {"pending", "running"}

\* WorkflowRunState::new, and declare_phase for the phases of the template.
NewRun == [status |-> "queued", phases |-> [p \in {} |-> 0], summary |-> "none", stop |-> FALSE]
Declared(r) ==
  IF IsTerminal(r) THEN r
  ELSE [r EXCEPT !.phases = [p \in PhaseIds |-> [status |-> "pending", counts |-> Idle]]]
Started(r) == IF IsTerminal(r) THEN r ELSE [r EXCEPT !.status = "running"]
PhaseStarted(r, p) == IF Open(r, p) THEN [r EXCEPT !.phases[p].status = "running"] ELSE r
\* update_phase_counts and then complete_phase, fail_phase, cancel_phase or skip_phase.
PhaseEnded(r, p, c, status) ==
  IF Open(r, p) THEN [r EXCEPT !.phases[p] = [status |-> status, counts |-> c]] ELSE r
\* The phases of S that are not over end as given, with the counts they have.
PhasesClosed(r, S, status) ==
  IF IsTerminal(r) THEN r
  ELSE [r EXCEPT !.phases = [p \in DOMAIN r.phases |->
          IF p \in S /\ Open(r, p) THEN [r.phases[p] EXCEPT !.status = status] ELSE r.phases[p]]]
Noted(r, summary, stop) ==
  IF IsTerminal(r) THEN r ELSE [r EXCEPT !.summary = summary, !.stop = stop]

\* A variant in which the end of a run is not final.
RunReended(r, status) == [r EXCEPT !.status = status]

RunEnded(r, status) == IF IsTerminal(r) THEN r ELSE [r EXCEPT !.status = status]
RunCancelled(r) == RunEnded(PhasesClosed(r, PhaseIds, "cancelled"), "cancelled")

-----------------------------------------------------------------------------
NothingFound == [sources |-> 0, claims |-> 0, report |-> Idle, killed |-> 0, unverified |-> 0]

Init ==
  /\ run = Absent /\ disk = Absent /\ cancelled = FALSE /\ over = FALSE /\ pc = "none"
  /\ found = NothingFound /\ error = NoError
  /\ asking = [c \in Clients |-> "idle"] /\ told = Absent /\ asked = 0 /\ restarts = 0

\* workflow_start: the registry has the entry, the task is spawned.
StartWorkflow ==
  /\ pc = "none" /\ run = Absent
  /\ run' = NewRun /\ pc' = "spawned"
  /\ UNCHANGED <<disk, cancelled, over, found, error, clientVars, restarts>>

\* Time or tokens run out.
RunOut ==
  /\ pc \notin {"none", "gone", "returned"} /\ ~over /\ over' = TRUE
  /\ UNCHANGED <<run, disk, cancelled, pc, found, error, clientVars, restarts>>

-----------------------------------------------------------------------------
(* The template.                                                           *)

\* The task's steps touch the run, what it has found, its error and its place.
TaskStep == UNCHANGED <<disk, cancelled, over, clientVars, restarts>>

Begin ==
  /\ pc = "spawned"
  /\ IF IsTerminal(run) THEN pc' = "returned" /\ UNCHANGED run
     ELSE pc' = "scope" /\ run' = Declared(Started(run))
  /\ UNCHANGED <<found, error>> /\ TaskStep

\* The phase ensure_can_continue names at each place that begins with it.
CheckedFor ==
  [scope |-> "scope", startSearch |-> "search", endSearch |-> "search",
   startExtract |-> "extract", endExtract |-> "extract", startVerify |-> "verify",
   endVerify |-> "verify", startSynthesize |-> "synthesize", endSynthesize |-> "synthesize"]
\* A variant that looks at the cancellation only.
CanContinueOverBudget == ~cancelled
CanContinue == ~cancelled /\ ~over

Raise(kind, p, cause) ==
  /\ error' = [kind |-> kind, phase |-> p, cause |-> cause] /\ pc' = "failing"
  /\ UNCHANGED <<run, found>>
\* The error of ensure_can_continue: the cancellation is looked at first.
StopCauseNow == IF cancelled THEN "cancelled" ELSE "stopped"
AllSearchesFailed == found.report.completed = 0 /\ found.report.failed > 0

StopHere ==
  /\ pc \in DOMAIN CheckedFor /\ ~CanContinue
  /\ ~(pc = "endSearch" /\ AllSearchesFailed)
  /\ Raise(StopCauseNow, CheckedFor[pc], StopCauseNow) /\ TaskStep

StartScope ==
  /\ pc = "scope" /\ CanContinue
  /\ run' = PhaseStarted(run, "scope") /\ pc' = "scoping"
  /\ UNCHANGED <<found, error>> /\ TaskStep

\* The agent call fails, or ends too late; either is wrapped as an error of the phase.
ScopeFails ==
  /\ pc = "scoping"
  /\ \/ Raise("phase", "scope", "call")
     \/ ~CanContinue /\ Raise("phase", "scope", StopCauseNow)
  /\ TaskStep

ScopeEnds ==
  /\ pc = "scoping" /\ CanContinue
  /\ run' = PhaseEnded(run, "scope", Counts(1, 0, 0), "completed") /\ pc' = "startSearch"
  /\ UNCHANGED <<found, error>> /\ TaskStep

StartSearch ==
  /\ pc = "startSearch" /\ CanContinue
  /\ run' = PhaseStarted(run, "search") /\ pc' = "search"
  /\ UNCHANGED <<found, error>> /\ TaskStep

\* A phase of parallel calls, with the number of its tasks.
RunPhase(p, totals, next) ==
  /\ pc = p
  /\ \E n \in totals : \E r \in PhaseReports(n, cancelled, over) :
       LET c == Counts(r.completed, r.failed, r.skipped)
       IN  /\ run' = PhaseEnded(run, p, c, r.phase)
           /\ found' = [found EXCEPT !.report = c]
  /\ pc' = next /\ UNCHANGED error /\ TaskStep

Search == RunPhase("search", 0 .. MaxAngles, "endSearch")
Extract == RunPhase("extract", {found.sources}, "endExtract")
Verify == RunPhase("verify", {found.claims * VotesPerClaim}, "endVerify")

\* Searches that all failed are an error of the phase, whatever else happened.
SearchFails ==
  /\ pc = "endSearch" /\ AllSearchesFailed
  /\ Raise("phase", "search", "call") /\ TaskStep

\* dedupe_search_results_by_angle keeps some of what the searches that ended well found.
EndSearch ==
  /\ pc = "endSearch" /\ CanContinue /\ ~AllSearchesFailed
  /\ \E n \in 0 .. MaxSources :
       /\ n > 0 => found.report.completed > 0
       /\ found' = [found EXCEPT !.sources = n]
  /\ pc' = "startExtract" /\ UNCHANGED <<run, error>> /\ TaskStep

\* The phases that are left are skipped, and the template has its report.
SkipTo(r, S) == PhasesClosed(r, S, "skipped")

StartExtract ==
  /\ pc = "startExtract" /\ CanContinue
  /\ IF found.sources = 0
     THEN run' = SkipTo(run, {"extract", "verify", "synthesize"}) /\ pc' = "reported"
     ELSE run' = PhaseStarted(run, "extract") /\ pc' = "extract"
  /\ UNCHANGED <<found, error>> /\ TaskStep

EndExtract ==
  /\ pc = "endExtract" /\ CanContinue
  /\ \E n \in 0 .. MaxClaims :
       /\ n > 0 => found.report.completed > 0
       /\ found' = [found EXCEPT !.claims = n]
  /\ pc' = "startVerify" /\ UNCHANGED <<run, error>> /\ TaskStep

AllExtractionsFailed == found.report.completed = 0 /\ found.report.failed > 0

NoClaims ==
  /\ pc = "startVerify" /\ CanContinue /\ found.claims = 0
  /\ IF AllExtractionsFailed THEN Raise("phase", "extract", "call")
     ELSE /\ run' = SkipTo(run, {"verify", "synthesize"}) /\ pc' = "reported"
          /\ UNCHANGED <<found, error>>
  /\ TaskStep

StartVerify ==
  /\ pc = "startVerify" /\ CanContinue /\ found.claims > 0
  /\ run' = PhaseStarted(run, "verify") /\ pc' = "verify"
  /\ UNCHANGED <<found, error>> /\ TaskStep

Threshold == IF RefutationsRequired = 0 THEN 1 ELSE RefutationsRequired
\* aggregate_verdicts: a claim with enough votes is killed or survives, one with fewer is
\* unverified; the votes the phase brought in bound how many there are of each.
Verdicts(claims, votes) ==
  {v \in [killed: 0 .. claims, unverified: 0 .. claims] :
     LET judged == claims - v.unverified
     IN  /\ v.killed + v.unverified <= claims
         /\ judged * Threshold <= votes
         /\ votes <= judged * VotesPerClaim + v.unverified * (Threshold - 1)}

EndVerify ==
  /\ pc = "endVerify" /\ CanContinue
  /\ \E v \in Verdicts(found.claims, found.report.completed) :
       found' = [found EXCEPT !.killed = v.killed, !.unverified = v.unverified]
  /\ pc' = "startSynthesize" /\ UNCHANGED <<run, error>> /\ TaskStep

\* With every claim refuted, or none judged, there is nothing to write.
StartSynthesize ==
  /\ pc = "startSynthesize" /\ CanContinue
  /\ IF found.claims \in {found.killed, found.unverified}
     THEN /\ run' = PhaseEnded(run, "synthesize", Counts(0, 0, 1), "skipped")
          /\ pc' = "reported"
     ELSE run' = PhaseStarted(run, "synthesize") /\ pc' = "synthesizing"
  /\ UNCHANGED <<found, error>> /\ TaskStep

Synthesized ==
  /\ pc = "synthesizing" /\ CanContinue
  /\ run' = PhaseEnded(run, "synthesize", Counts(1, 0, 0), "completed")
  /\ pc' = "endSynthesize" /\ UNCHANGED <<found, error>> /\ TaskStep

\* A failed call, and one that ended too late, leave the report without a synthesis.
SynthesisFails ==
  /\ pc = "synthesizing"
  /\ run' = PhaseEnded(run, "synthesize", Counts(0, 0, 1), "skipped")
  /\ pc' = "endSynthesize" /\ UNCHANGED <<found, error>> /\ TaskStep

EndSynthesize ==
  /\ pc = "endSynthesize" /\ CanContinue
  /\ pc' = "reported" /\ UNCHANGED <<run, found, error>> /\ TaskStep

Template ==
  \/ Begin \/ StopHere \/ StartScope \/ ScopeFails \/ ScopeEnds \/ StartSearch \/ Search
  \/ SearchFails \/ EndSearch \/ StartExtract \/ Extract \/ EndExtract \/ NoClaims
  \/ StartVerify \/ Verify \/ EndVerify \/ StartSynthesize \/ Synthesized
  \/ SynthesisFails \/ EndSynthesize

-----------------------------------------------------------------------------
(* What the task does with the outcome.                                    *)

Outcome(from, r, to) ==
  /\ pc = from /\ run' = r /\ pc' = to /\ UNCHANGED <<found, error>> /\ TaskStep

\* Nothing is recorded for a run that has ended meanwhile.
LookAtRun ==
  \/ Outcome("reported", run, IF IsTerminal(run) THEN "returned" ELSE "recording")
  \/ /\ error.kind # "cancelled"
     /\ Outcome("failing", run, IF IsTerminal(run) THEN "returned" ELSE "noting")

\* record_deep_search_success.  It also projects the counts of the phases, which by now
\* are all over and keep what they have (PhasesEndWithRun).
RecordSuccess == Outcome("recording", Noted(run, "report", FALSE), "completing")
CompleteRun == Outcome("completing", RunEnded(run, "completed"), "persisting")

\* record_deep_search_failure, in three stretches of the run's lock.
NoteFailure == Outcome("noting", Noted(run, "failed", error.cause = "stopped"), "closing")

\* A variant that closes only the phase that failed.
CloseOnePhase == Outcome("closing", PhasesClosed(run, {error.phase}, "failed"), "ending")

ClosePhases ==
  Outcome("closing", PhasesClosed(PhasesClosed(run, {error.phase}, "failed"), PhaseIds, "skipped"),
          "ending")
FailRun == Outcome("ending", RunEnded(run, "failed"), "persisting")

\* A variant that leaves it to workflow_cancel to mark the run, whose request may be dropped
\* between the signal and the mark.
CancelLeftToClient ==
  /\ error.kind = "cancelled" /\ cancelled
  /\ Outcome("failing", run, "persisting")

\* Only the cancellation itself, not one that a phase has wrapped, ends the run as cancelled.
CancelRun ==
  /\ error.kind = "cancelled" /\ cancelled
  /\ Outcome("failing", RunCancelled(run), "persisting")

\* persist_terminal_workflow_run; the task ignores that the write failed.
PersistRun ==
  /\ pc = "persisting" /\ pc' = "returned"
  /\ \/ disk' = IF IsTerminal(run) THEN run ELSE disk
     \/ UNCHANGED disk
  /\ UNCHANGED <<run, found, error, cancelled, over, clientVars, restarts>>

Ending ==
  LookAtRun \/ RecordSuccess \/ CompleteRun \/ NoteFailure \/ ClosePhases \/ FailRun
    \/ CancelRun \/ PersistRun

-----------------------------------------------------------------------------
(* The clients.                                                            *)

ClientStep == UNCHANGED <<over, pc, found, error, restarts>>
Answered(r) == told' = IF IsTerminal(r) THEN r ELSE told

\* workflow_read, and a workflow_cancel that finds no entry.
Read(c) ==
  /\ asking[c] = "idle" /\ asked < MaxRequests /\ pc # "none"
  /\ asked' = asked + 1
  /\ Answered(IF run = Absent THEN disk ELSE run)
  /\ UNCHANGED <<run, disk, cancelled, asking>> /\ ClientStep

AskCancel(c) ==
  /\ asking[c] = "idle" /\ asked < MaxRequests /\ run # Absent
  /\ asked' = asked + 1
  /\ asking' = [asking EXCEPT ![c] = IF IsTerminal(run) THEN "view" ELSE "signal"]
  /\ UNCHANGED <<run, disk, cancelled, told>> /\ ClientStep

SignalCancel(c) ==
  /\ asking[c] = "signal" /\ cancelled' = TRUE
  /\ asking' = [asking EXCEPT ![c] = "mark"]
  /\ UNCHANGED <<run, disk, told, asked>> /\ ClientStep

MarkCancelled(c) ==
  /\ asking[c] = "mark" /\ run' = RunCancelled(run)
  /\ asking' = [asking EXCEPT ![c] = "view"]
  /\ UNCHANGED <<disk, cancelled, told, asked>> /\ ClientStep

\* The answer is the run with its snapshot written, or an error.
AnswerCancel(c) ==
  /\ asking[c] = "view" /\ asking' = [asking EXCEPT ![c] = "idle"]
  /\ \/ disk' = run /\ Answered(run)
     \/ UNCHANGED <<disk, told>>
  /\ UNCHANGED <<run, cancelled, asked>> /\ ClientStep

\* The process ends: only the rollout is left.
Restart ==
  /\ pc \notin {"none", "gone"} /\ restarts < MaxRestarts /\ restarts' = restarts + 1
  /\ run' = Absent /\ pc' = "gone" /\ cancelled' = FALSE /\ over' = FALSE
  /\ found' = NothingFound /\ error' = NoError
  /\ asking' = [c \in Clients |-> "idle"]
  /\ UNCHANGED <<disk, told, asked>>

Next ==
  \/ StartWorkflow \/ RunOut \/ Template \/ Ending \/ Restart
  \/ \E c \in Clients :
       Read(c) \/ AskCancel(c) \/ SignalCancel(c) \/ MarkCancelled(c) \/ AnswerCancel(c)

Spec == Init /\ [][Next]_vars

\* The task is polled, and its agent calls end.
FairSpec == Spec /\ WF_vars(Template \/ Ending)

-----------------------------------------------------------------------------
PhaseViews == [status: PhaseStatuses, counts: [completed: Nat, failed: Nat, skipped: Nat]]
IsRun(r) ==
  \/ r = Absent
  \/ /\ r.status \in {"queued", "running"} \cup RunOver
     /\ DOMAIN r.phases \in {{}, PhaseIds}
     /\ \A p \in DOMAIN r.phases : r.phases[p] \in PhaseViews
     /\ r.summary \in {"none", "report", "failed"} /\ r.stop \in BOOLEAN
     /\ r.status = "completed" => r.summary = "report"

(* The shape of the state; a completed run has its report, and what is on  *)
(* disk or was told is the state of a run that has ended                   *)
(* (workflow_processor.rs:224-228).                                        *)
TypeOK ==
  /\ IsRun(run) /\ IsRun(disk) /\ IsRun(told)
  /\ disk # Absent => IsTerminal(disk)
  /\ cancelled \in BOOLEAN /\ over \in BOOLEAN
  /\ found.sources \in 0 .. MaxSources /\ found.claims \in 0 .. MaxClaims
  /\ found.killed + found.unverified <= found.claims

(* A client that was told that a run has ended is told the same ever       *)
(* after, in every detail: whatever the background task still does, and    *)
(* after a restart (runtime.rs:186-450, workflow_processor.rs:325-398).    *)
AnswersAgree == [][told # Absent => told' = told]_vars

(* A run shown as completed did all it set out to do: no call of it was    *)
(* skipped for a cancel or an exhausted budget (deep_search.rs:613-620,    *)
(* 687-690, 793-797, 896).                                                 *)
CompletedSkippedNothing ==
  run.status = "completed" =>
    \A p \in {"search", "extract", "verify"} : run.phases[p].counts.skipped = 0

(* A run that failed by itself says why: it ran out of budget, or one of   *)
(* its phases is shown as failed (workflow_processor.rs:667-716).          *)
FailedSaysWhy ==
  run.status = "failed" /\ ~cancelled =>
    run.stop \/ \E p \in PhaseIds : run.phases[p].status = "failed"

(* No phase is left running or pending in a run that has ended, nor when   *)
(* its counts are projected (workflow_processor.rs:586-716).               *)
PhasesEndWithRun ==
  IsTerminal(run) \/ pc = "completing" =>
    \A p \in DOMAIN run.phases : run.phases[p].status \in PhaseOver

(* A run ends, whatever its calls return and wherever the request that     *)
(* cancels it is dropped, unless the process ends first                    *)
(* (workflow_processor.rs:325-398, 422-452).                               *)
RunEnds == pc = "spawned" ~> (pc = "gone" \/ (pc = "returned" /\ IsTerminal(run)))

(* A run that stopped because a client cancelled it is not shown as failed *)
(* (workflow_processor.rs:436-444).  Refuted: a cancel during the scope     *)
(* call is wrapped as an error of the phase.                               *)
CancelIsNoFailure == error.cause = "cancelled" => run.status # "failed"

(* What a client was told has ended can be read after a restart            *)
(* (workflow_processor.rs:426-432).  Refuted: it is told before it is on    *)
(* disk.                                                                   *)
ToldIsDurable == pc = "gone" /\ told # Absent => disk # Absent
=============================================================================
