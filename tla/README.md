# ExAgent: specifications, model checks and proofs

ExAgent is an agent runtime in Rust: an app-server that hosts *threads* (conversations of an
agent with a model), runs their turns and tools, records everything in an append-only rollout
per thread, and keeps a SQLite index beside the rollouts. This directory models the parts where
its concurrency lives. Paths in this file are relative to the repository's `src/` crate
directory unless they begin with `docs/`.

1. [The system](#1-the-system)
2. [The modules](#2-the-modules)
3. [What the runs check](#3-what-the-runs-check)
4. [What is proved](#4-what-is-proved)
5. [Findings](#5-findings)
6. [What is not modelled](#6-what-is-not-modelled)
7. [Plan](#7-plan)

## 1. The system

A request of a client enters the app-server, which finds or loads the runtime of the thread
(`RuntimeLoader`) and submits an operation to it. A thread runtime is an actor: one task that
takes operations from a bounded channel and runs each to its end, so a turn, with its model calls
and tools, is one operation. Tools call back into the app-server, to spawn, message and close
child agents, to start workflows, and into the index database, for goals and reviews. Clients
learn what happens from an event stream that is replayed from the rollout and then followed live.

| component | state it keeps | operations | where it is hard | what makes it correct |
|---|---|---|---|---|
| Thread runtime actor (`runtime/thread_runtime/`) | the turn slot and next turn index (`TurnReservations`), the op channel, pending interrupt, the inbox flag | user input (waiting or not), compaction, control operations, effects, mail, interrupt, shutdown; after an operation the actor looks for mail and for a goal to continue | callers reserve, send and wait in separate steps; the actor sends to its own channel; interrupts race with the end of the turn | the slot is taken exactly while one submission carries its guard; no caller, mail or interrupt is forgotten; ids of turns are never used twice |
| Turn handlers (`runtime/thread_session/`) | the snapshot of the session, live state, context, the event recorder | start, record the input, sample and run tools, drain the inbox, finish, fail, be interrupted | only some stretches race with the interrupt; errors after sampling | every started turn is recorded and ends at most once |
| Runtime loader and gate (`app_server/runtime_loader.rs`, `request_processors/`) | `loaded_threads`, load locks, operation locks, `runtime_ops` and `restoring` per workspace | load, turn start, approval decision, compaction, fork, restore, delivery, close | many tasks take locks in different orders, guards travel with submissions, clients hang up | one runtime per thread, a restore meets no turn, guards are neither lost nor dropped twice |
| Subagents (`app_server/services.rs`, `runtime/subagent.rs`, `tools/agents/`) | the tree of agents, reserved paths, the spawn-edge file, inboxes | spawn, message, follow up, wait, close a subtree | the parent's turn loads and stops other threads while they run | one agent per path, depth limit, a close reaches the subtree, tokens are counted once |
| Workflow scheduler (`runtime/workflow/scheduler.rs`) | counters of a phase, the `JoinSet`, the cancellation | run a phase, cancel | flag and `Notify` are two things; budget, cancel and failures end the scheduling in different places | every task reported once; a cancel begins at most one more call; the phase ends |
| Workflow run (`runtime/workflow/runtime.rs`, `workflow_processor.rs`) | the registry of runs, the phases shown, the terminal snapshot on disk | start, read, cancel, complete, persist | completion, cancel and persistence are separate steps | a terminal run stays terminal and survives a restart |
| Review gate (`runtime/forge/`, `tools/planning/submit_review.rs`, `defer_question.rs`) | review tickets, open questions, goal modes, the notified rejections | `update_goal(complete)`, `submit_review`, `defer_question`, answers, escalation | a decision of many statements while the files, tickets, goal and mode change | a reviewed goal is completed only on a reviewer's approval, never over an open question |
| Goal runtime (`runtime/goal/runtime.rs`, `state/index_db/goal_store.rs`) | the goal row, accounting of the running turn, suppression, pending effects | create, update, set, clear, account, continue, suppress, report | the accounting lock does not cover the client's writes; reads and writes are two statements | no usage is charged twice or lost, an active goal continues, an idle one stops |
| Approvals and user input (`runtime/policy.rs`, `thread_session/turn/external_input.rs`) | pending approvals and questions: in the policy, in the thread's overlay, in the rollout | request, decide, answer, interrupt, restore from the rollout | three views of one set; decisions run commands | a request is decided once, and a restart loses none |
| Event log and replay (`thread_session/events.rs`, `events_processor.rs`, `state/rollout.rs`) | the rollout file, the live buffer, the next event id | append, live-only event, subscribe, replay | replay and subscription are two steps; ids after a restart | a subscriber sees every durable event once and in order |
| Exec sessions (`runtime/exec_session.rs`) | processes, their output buffers and status | start, write, poll, terminate | output tasks and the reaper run beside the calls | a status is final, output is not lost before the exit is seen |
| Workspace checkpoints (`workspace_checkpoint.rs`) | git objects under a private ref | create, list, restore, prune | exclusion against turns (in the gate) | a restore gives back what was recorded |
| Fork history (`state/fork_history.rs`) | none | what a fork keeps of a rollout | a running turn | the copy replays |
| Memory store (`state/memory/`) | entries with a status and an audit trail | propose, confirm, reject, supersede, search | one transaction per operation | a status moves along its machine, with its trail |
| Index database (`state/index_db/`) | a cache of the rollouts, thread rows | upsert, reindex | none: rebuilt from rollouts | agrees with the rollouts |
| Context and compaction (`runtime/context.rs`, `runtime/compaction.rs`) | the messages given to the model | append, cut, summarise | pairs of tool call and result | a cut keeps pairs together |
| Desktop client's session store (`apps/desktop/src/stores/workbenchStore.ts`, `apps/desktop/src-tauri/src/state.rs`) | the session shown, its transcript and applied event ids, the agent viewer, cleanups of listeners; the shell's forwarding tasks | open a session or an agent, start, archive, compact, close; subscribe, unsubscribe | every call is answered late, the user does not wait, one subscription replaces another | a screen shows its own thread, all of it; listeners and tasks do not outlive their use |
| Tools, model providers, MCP, skills, prompts, configuration, entry points, the rest of the desktop shell | files, processes, network, text | | | |

PROJECT.json lists the same components with their sources and status, and under `hazards` every
place where this code is hard to test, with the property that watches it or the reason why none
does yet.

## 2. The modules

Every module is a plain transition system: one action per operation, handler or step between two
awaits, `UNCHANGED` for the rest, bounds as constants that begin with `Max`. Variables carry the
name of the field they stand for; history variables (used only by properties) are marked as such.
Operators called `...Short`, `...Quiet`, `Any...`, `Read...` and the like, commented "A variant
that...", are plausible mistakes, kept beside the definition they would replace: each property of
a passing run is known to fail under one of them.

### ThreadRuntime (with TurnLifecycle)

`ThreadRuntime.tla` is one thread: any number of callers of the facade (`facade.rs`), the turn
slot (`reservation.rs`), the channel of `THREAD_OP_CHANNEL_CAPACITY` places, and the actor with
the phases of a turn it can tell apart.

* *Callers.* `Acquire`, `SubmitTurn`, `SubmitCompaction`, `SubmitPlain` follow
  `send_user_input_parts` and `submit_and_wait_internal`: a permit of the channel is awaited
  first, then the turn is reserved and sent in one step (no await in between), then the caller
  waits on its one-shots. `CheckBusy` is the delivery of mail by another agent (`services.rs:528`).
  `InterruptRead`, `InterruptSend`, `InterruptReturn` are `signal_interrupt`, which copies the
  active record, takes its sender under another lock, and awaits the turn's `Notify`.
* *Actor.* `Receive` takes a submission, the turn's actions walk through start, user message,
  sampling and finish; `CheckMail`, `ReserveMailTurn`, `CheckGoal`, `ReserveGoalTurn` and `SendOwn`
  are what `ThreadRuntimeLoop` does after an operation. `Shutdown` and `Exit` drop the receiver
  while permits may still be out.
* *Requests.* A turn may leave a request for an approval or an answer (`AskUser`) and end as completed:
  `waiting` says that the overlay has one, `pending` that the file shows one (the storage may refuse either
  record). `Decide` is a decision or an answer, `InterruptWait` the interrupt of a thread that waits, which
  writes `turn_interrupted` for a recorded turn, also one that had ended ("abandoned" in `ended`).
* *Restart* is the end of the process at any point: memory is gone, `starts`, `ended` and `pending` (the
  rollout) stay, and the next index and the overlay are made from them.

The channel is a sequence of submissions; a guard is the `turn` field of the submission that
carries it, wherever that is. How many requests are open, what a turn says and why something fails is
left out.

`TurnLifecycle.tla` is the abstract specification: one owner at a time, growing ids, and a record
per turn that only moves forward, except that a thread that waits may be interrupted, which takes its
requests with it and follows a recorded turn with one more end. `ThreadRuntime!LifecycleSpec` is the
refinement: `next` is the next turn index, `owner` the slot, `record` what the rollout says, `waits` that a
request is open in the overlay or in the file.

### RuntimeLoader

`RuntimeLoader.tla` is one workspace with its threads: the map of loaded runtimes, the load lock
and operation lock of each thread, the guard count and the restore flag, requests as tasks that
take these in the order of their handler, and runtimes reduced to slot, queue and mail. A request
is a path through `pc`: `TakeOpLock`, `Lookup`, `TakeLoadLock`, `Recheck`, `Spawn`, `Insert`, `Gate`,
`Submit`, `Wake`, ..., as its `kind` goes. Tools of a running turn are tasks too (`Enqueue`,
`Followup`, `Remove`, `SendStop`), executed by the runtime that runs the turn. `Hangup` is a client
that goes away: the request's future is dropped with the locks and guards it holds, at any await.
A submission is two steps, as in the facade: the permit of the channel (`Submit`), then the reservation and
the send (`Send`), which may find that the runtime has stopped meanwhile. A decision is handled with the
command it runs to its end (`FinishOther`), or leaves a persistent one in `background` (`CommandEnds`).

### WorkflowScheduler

`WorkflowScheduler.tla` is `run_inner`. Tasks are interchangeable, so the `JoinSet` is three counts.
The cancellation is split as in the code: the flag (`Cancel`), the wake-up (`NotifyWaiters`), the
look at the flag (`PollFlag`) and the registration of the waiter (`Listen`), so a wake-up may fall
between. The four ways to stop scheduling are four actions (`CheckCancelled`, `PickRefused`,
`SeeCancel`, `JoinOutput`).

### ReviewGate

`ReviewGate.tla` is one thread with a reviewed goal. `AskComplete`, `ReadMode`, `ReadQuestions`,
`TakeHash`, `ReadTicket`, `Mint` and `UpdateGoal` are the hook and the handler of
`update_goal(complete)` statement by statement; between any two of them a reviewer may resolve a
ticket (`Submit`, `ResolveTicket`), any agent may change the files (`Write`), the client may set,
clear or resume the goal (`SetRead` ... `ApplyNew`, `ClearGoal`) or answer a question. `LookAtGoal`,
`ReadRejection`, `ReadOpen`, `Decide` (the three statements of `decision_for_goal`; the last one with the
mark in the actor's memory), `Escalate` and `Stop` are the idle actor's reaction to a rejection. Tickets keep their order
of insertion and, separately, the order number of the process that made them, because a restart
resets the counter and not the table. `approvals` and `settled` are history variables.

### ThreadGoal

`ThreadGoal.tla` is the goal of one thread under the turns that charge it. `row` is the row of
`thread_goals`; each SQL statement is a step, so `ChargeRead`, `ChargeWrite`, `ChargeReread` are
`account_thread_goal_usage`, and between them the client sets (`SetRead`, `SetCreate`, `SetReread`,
`SetUpdate`) or clears (`ClearStart`, `DeleteGoal`) the goal without the accounting lock. `acct`,
`wall`, `pending` and `reported` are the maps of `GoalRuntimeState`, `job` the holder of the
accounting lock with what it has read. The actor's part is the life of a turn as far as the goal sees
it (`TurnStarted`, `Sample`, tools, `TurnFinished`, `FinishTurn`), a turn that is dropped at any await
(`TurnDropped`), the effects (`ApplyEffect`, `SendEffect`), and the look at an idle goal (`Look`,
`Escalate`, `ReserveContinuation`). Whether a goal is reviewed is left to ReviewGate: `Escalate` may
take any of its outcomes.

### WorkflowRun (with WorkflowPhase)

`WorkflowRun.tla` is one run of the deep-research template from `workflow_start` to the snapshot on
disk: the background task walks through scope, search, extraction, verification and synthesis with the
checks of the cancellation and the budget between them, and projects the outcome into the run
(`RecordSuccess`, `CompleteRun`, `NoteFailure`, `ClosePhases`, `FailRun`), while clients read, cancel
in the steps of `workflow_cancel`, and the process may end. Its parallel phases are one step, `RunPhase`,
that ends with any report of `PhaseReports` (WorkflowPhase.tla). That this is sound is not an
assumption: `PhaseContract` of WorkflowScheduler says that the scheduler ends only with such a report, TLC
checks it, and theorem `SchedulerContract` proves it. (The two are checked apart: the product of the two
state spaces would check nothing more. WorkflowRun_proofs extends both and reasons about each, which is why
the scheduler's specification is named `PhaseSpec` and its cancellation, budget and place `cancelFlag`,
`overBudget` and `place`.)

### EventLog

`EventLog.tla` is the path of an event. The session records in the steps of `record_snapshot` (take the
id, append to the file, push to the buffer, send), the output sink of an exec session does the same
beside it without the file (`Output`, `PushOutput`, `SendOutput`, `Delta`, ...), and the handler that answers
an open question appends to the same file under ids of another counter, past the buffer and the channel
(`AppendAnswer`; its ids are negative here, because `parse_event_index` ignores them). A client of
`/events/subscribe` opens (`Subscribe`, then `Replay`), receives, loses its connection and comes back with the
id of the last event it got. `Restart` and `Load` rebuild the buffer and the counter from the file, with the
error that closes an unfinished turn.

Any write may fail (`AppendFails`, `AnswerFails`, `LoadFails`). The session's line is two writes, the text
(`AppendItem`) and the newline (`EndLine`), so `line` says whether the lines of the file are whole, the last
one lacks its newline ("open"), or one cannot be parsed ("broken"; then the thread does not load). An event
whose newline failed is in the file and was never published; `silent` remembers those.

### Approvals

`Approvals.tla` is a request in its three places: `policy` (the two maps of the PolicyManager, shared by
all threads), `live` (the overlay of a thread) and `stored` (what the overlay would be if it were made
from the rollout now). A decision is `Submit` and `Restore` in the handler of a client, then `TakeOp`,
`Take`, `RunFails` or `RecordDecision` in the actor; an interrupt of a waiting thread is `ClearOverlay`,
`CancelCommands`, `CancelQuestions`, `RecordInterrupt`; one of a running turn is `InterruptTurn`. Every record
may be refused by the storage (`RefuseRequest`, `RefuseInterrupt`, `RefuseDecision`): the overlay is changed
before the append, so what a refused decision or interrupt took out of it is still pending in the file. The
history variable `lost` has those requests until the process ends.

### WorkbenchStore

`WorkbenchStore.tla` is the desktop client. Each call of `openSession` and `openAgentThread` is a record
of `opens` with its place (`pc`), its buffer and the queue of its batcher; closures are such records too,
so a listener that was never removed goes on hearing. `Serve` is the shell answering a call, `Reply` the
continuation after the await with its `isCurrentOpen` test, `Refuse` the catch, `Frame` the batcher's
frame, `Forward` the shell's task that emits to the window, skips what it was too late for (`Lag`) and ends
with its runtime (`ForwardEnds`), `Unsubscribe` the call nobody waits for. One
window and one project; `listen` answers at once; an event is the message it adds to the transcript. `Fresh`,
the events a screen does not have yet, picks them by their rank among the kept ones (`Kept`, `Picked`)
rather than by a recursive selection, which could not be reasoned about. The
other fields folded over the same events, the debounced refreshes, `selectProject` and `sendPrompt` are
left out, and so is an `openSession` that begins while `startSession` still waits.

### MC modules

`MCThreadRuntime` and `MCReviewGate` add symmetry sets; runs of liveness properties use none.
`MCRuntimeLoader` restricts a behaviour to a hang-up or to closes and deliveries, not both, and takes the
first of two idle clients, which are alike. `MCEventLog` allows more events and faults as long as no client has
received anything.
`MCReviewScenarios` and `MCWorkbenchStore` choose one of two scenarios at the start of a behaviour (a
variable of the MC module), because the product of the two is out of TLC's reach; each scenario is a
predicate on the bounds and removes no step of the modules otherwise, except that in "switching" the client's
runtimes go on and some session stays open, and that in "reviewing" the idle actor does not look at
rejections (no client is there to resume a goal it stopped). `MCApprovals` stops where an id of
an earlier process is given again.

## 3. What the runs check

`CHECK_DEADLOCK FALSE` is set everywhere because the bounds, and in the code the stop of an actor or
the end of a phase, let the system really stop; that nobody is stuck is a liveness property instead.
The runs check no type invariants: each is a theorem (section 4; that of Approvals is stated in
Approvals_proofs).

| run | module, cfg | shows |
|---|---|---|
| `thread` | MCThreadRuntime | with goal turns, failures, a restart and fair scheduling: `SlotHasOneHolder`, `NoStrandedMail`, `InterruptReachesTurn`, `EndedTurnIsFinal`, `LifecycleSpec` (refinement), `CallsAreAnswered`, `MailIsDrained` |
| `interrupt_is_recorded` | MCThreadRuntime, MCThreadInterrupt.cfg | violated: finding 1 |
| `loader` | MCRuntimeLoader | with a delivery, a close or a hang-up: `LoadedIsLive`, `OneRuntimePerThread`, `RestoreSeesGatedTurns`, `DecisionsExcludeRestore`, `ForkSeesNoClientTurn`; with fair scheduling, `RequestsEnd` |
| `loader_two_turns` | MCRuntimeLoader, MCLoaderTwoTurns.cfg | violated: finding 2 |
| `phase` | WorkflowScheduler | `AtMostOneLateCall`, `PhaseContract`, `PhaseEnds` |
| `workflow` | WorkflowRun | `CompletedSkippedNothing`, `PhasesEndWithRun`, `AnswersAgree`, `RunEnds` |
| `review` | MCReviewScenarios | `GateNeedsApproval`, `NoOpenQuestionAtCompletion`, `GateFollowsNewest`, `ResumeSticks` |
| `review_restart` | MCReviewGate, MCReviewRestart.cfg | violated: finding 3 |
| `goal` | ThreadGoal | `ChargedOnce`, `QuietStops`, `ForgottenOnlyFor`, `ReportsArrive` |
| `events` | MCEventLog | a client, an answer, a failed write or a restart: `SeenIsStored`, `RecordedIdsGrow`, `StreamComplete`; without a client more events and faults: `DeltaBeforeEnd` |
| `approvals` | MCApprovals | `RanAsAsked`, `RunsOnce`, `StoredIsLive`, `DecidedIsFinal` |
| `client` | MCWorkbenchStore | `ShowsOwnThread`, `ViewerComplete`, `MissesOnlyTheOpening`, `NothingLeaks` |

A run without a cfg in the table has `MC<module>.cfg`, or the cfg of its MC module's name.

What the properties say, in words:

* *ThreadRuntime.* `SlotHasOneHolder`: the slot is taken exactly while one submission carries its
  guard, so the guard's drop, which clears the slot without looking, never frees another turn.
  `NoStrandedMail`, `MailIsDrained`: mail that asks for a turn is not slept on.
  `InterruptReachesTurn`: an interrupt that was accepted reaches its turn, or the turn slipped past its
  last interruptible point (finding 1 is about that exception). `EndedTurnIsFinal`, `LifecycleSpec`: what
  the rollout says of a turn only moves forward, restarts included; a second end is written only when a
  thread that waits is interrupted (`docs/protocol/app-server-boundary-v2.md:870`), and closes what it waits
  for. `CallsAreAnswered`.
* *RuntimeLoader.* `OneRuntimePerThread`: one rollout has one session that records its turns. `LoadedIsLive`: what the map offers
  has not been asked to stop. `RestoreSeesGatedTurns`, `DecisionsExcludeRestore`, `ForkSeesNoClientTurn`:
  what must not overlap does not; of a decision this covers the command that runs to its end in its handler.
  `RequestsEnd`: no mixture of locks, guards and waits on other runtimes deadlocks, unless a submission is
  abandoned (finding 4). (`GuardsCounted`, that `runtime_ops` is the number of guards alive, in requests and in turns,
  held on the same bounds too; no run repeats it, for it is a theorem.)
* *WorkflowScheduler.* `PhaseContract`: the phase ends with a report that fits the cancellation and the
  budget as they are then, and what is shown is that report. `AtMostOneLateCall`: cancelling is prompt.
  `PhaseEnds`: also when the wake-up is missed.
* *WorkflowRun.* `AnswersAgree`: a client told that a run has ended is told the same ever after, whatever
  the background task still writes, and after a restart. `CompletedSkippedNothing`: a run shown as
  completed skipped no call. `PhasesEndWithRun`: no phase is left running in a run that has ended.
  `RunEnds`.
* *ReviewGate.* `GateNeedsApproval`: a reviewed goal is completed only if a reviewer approved, for this
  goal, the files the call found. `NoOpenQuestionAtCompletion`. `GateFollowsNewest`: the newest ticket
  decides, both ways. `ResumeSticks`: a goal the client resumes is not stopped again for the same
  rejection.
* *ThreadGoal.* `ChargedOnce`: a goal is charged no token twice, and none spent before it existed,
  whatever is dropped, compacted or restarted. `QuietStops`: a continuation without activity is the last
  until somebody moves the goal. `ForgottenOnlyFor`: an active goal is left alone by an idle actor only
  for the reasons the code gives. `ReportsArrive`: a report marked as given is told once, is on its way,
  or is one of those the code drops.
* *EventLog.* `SeenIsStored`: an event a restart must reproduce is in the file before any reader has it.
  `RecordedIdsGrow`: the ids the session gives to stored events grow, restarts included. `StreamComplete`:
  within a connection no event the session recorded is skipped. `DeltaBeforeEnd`: no replay shows output of
  a tool after its end.
* *Approvals.* `RanAsAsked`: a decision runs the command its thread asked for. `RunsOnce`: once per
  attempt that was not finished and recorded. `DecidedIsFinal`: a recorded decision stops every late
  restore. `StoredIsLive`: what the file shows as pending can be decided, except what was `lost`.
* *WorkbenchStore.* `ShowsOwnThread`: no late answer gets onto another thread's screen.
  `ViewerComplete`: a viewer shows every event of its agent, in order. `MissesOnlyTheOpening`: a session
  may miss what happened while it was opened, and nothing else (finding 9 is why it is not complete). Both
  speak of a subscription that skipped nothing (finding 11).
  `NothingLeaks`: no listener or forwarding task is left without somebody who could remove it.

**Bounds, and why they are enough.**
*ThreadRuntime*: the hazards are between two callers and the actor; a third caller repeats one of
them. Two calls of each let an interrupt meet the end of one turn and the start of another, or the request it
has left; six turn ids leave room for mail turns, a goal turn and a retry. Capacity is 3, because with fewer places than
the actor and all callers need the actor waits for itself (hazard `actor.rs:212`; the code's 64 places are
fewer than an unbounded number of callers may fill).
*RuntimeLoader*: two clients and two threads (a root and its child) make every pair of handlers
meet on one thread and on two, with a delivery, a close or a hang-up as the third; three runtimes are a
reload after a close. `loader_two_turns` needs a third request.
*WorkflowScheduler*: five tasks with two at a time fill the set, drain it and refill it; the
theorems do not depend on it.
*WorkflowRun*: two angles, sources, claims and votes separate none, some and all failed in each phase,
and a claim killed, kept and unverified; two requests are a read and a cancel, or two cancels.
*ReviewGate*: two tickets distinguish newest from oldest, two contents fresh from stale, two goals
one from its successor, two reviewers a resolve over a resolve. The scenario "reviewing" has no client
and asks about files and tickets, of which there are two, or one while a question is open; "serving" has
one ticket and one reviewer, two goals and a restart, at most one request or restart while a question is
open, and asks about the identity of the goal and what a resume undoes. `review_restart` needs a third ticket.
*ThreadGoal*: two goals and two turns let the accounting of one turn meet the goal of another; one token
and a budget of none or one reach the limit; one client call falls between any two statements.
*EventLog*: a buffer of three and a channel of two overflow within the four events a client may see; one answer
falls between any two statements of the session; one fault is a failed write, a lost connection or a restart,
and without a client there may be two. What the buffer
shows of a tool needs five events (turn, tool, end, output and its late copy) and one to spare, which no client need watch.
*Approvals*: two threads, two clients, two requests: two decisions of one request, or one of each thread;
a command fails or is not recorded once, one restart.
*WorkbenchStore*: two threads; "switching" has three opens (an open that overtakes one that overtook
another) and an event of each thread, "interrupting" two opens, two events of each thread, the end of a runtime, and
a refused call, a compaction or a task that lags.

**Preconditions stated in the properties.** `OneRuntimePerThread` says nothing once a
thread was closed (finding 2 is why), `DecisionsExcludeRestore` nothing once a client hung up, which
drops the guard of a command that runs on, and nothing of a persistent command, which goes on when the decision
that started it is answered and its guard dropped (`CommandsExcludeRestore`, refuted).
`RequestsEnd` excepts behaviours with an abandoned submission: its sender keeps the operation lock of its
thread, and whoever wants that lock waits too (finding 4). `NoStrandedMail` allows mail the gate refused (`actor.rs:194`).
`CallsAreAnswered` excepts a submission through a permit that outlived the receiver (hazard
`facade.rs:298`): it is really never answered. `GateFollowsNewest` is checked without a restart: with one
it fails, which is finding 3. `ResumeSticks` is checked over a restart with one ticket: with tickets of
two processes the same order breaks it too, for a new ticket that sorts before the rejected one changes
the count in the key under which the rejection is remembered. The properties of Approvals say nothing
once an id of an earlier process was given again (`reused`): the counter starts at 1 and pending requests
keep their ids, so a decision may then run another thread's command (`RanAsAskedAlways`, refuted).
`StoredIsLive` excepts what clear_approval or an interrupt took out of the overlay before the storage refused
the record: it stays pending in the file, on the list of every client that reads it, and cannot be decided
until the process starts again (`StoredIsLiveAlways`, refuted).
`StreamComplete` excepts a connection that overflowed the channel, which skips events silently, an event whose
record failed at the newline, which is in the file and was reported as an error, and the answers of the
other writer, which no connection gets (finding 5); `RecordedIdsGrow` leaves out the ids of those answers, which
start again at `approval_evt_1` with each process (`StoredIdsDiffer`, refuted).
`ViewerComplete` and `MissesOnlyTheOpening` speak of an open whose own subscription still runs (finding 10)
and has skipped no event (finding 11): the shell's task goes on after `Lagged` (`commands.rs:1085`) and the
window is not told.

**Fairness.** Tokio polls every task that is ready, so each task has weak fairness on the steps it can
take once it has begun: `WF(ActorStep)` and, per caller, `WF(CallerStep)` in ThreadRuntime; per
request, task, tool and loop in RuntimeLoader; the scheduler's loop and the tasks of the `JoinSet`
(agent calls end, by their own timeouts) in WorkflowScheduler; the background task of the run in
WorkflowRun. Nothing obliges a client to call, to interrupt, to cancel or to hang up, nor the process to
restart, and no strong fairness is used. Tokio's mutexes and channels serve waiters in order, which is
more than is assumed. In ThreadRuntime turns that fail before they drain their mail are bounded
(`MaxFailures`): an error that persists makes the actor start failing turns for ever (hazard
`actor.rs:171`).

ReviewGate, ThreadGoal, EventLog, Approvals and WorkbenchStore have safety properties only: what they
wait for is an agent, a user or a client that need not act. That a goal continues is stated as a
safety property of the idle actor (`ForgottenOnlyFor`).

## 4. What is proved

TLAPS checks these for every value of the constants under the named assumptions beside their
declarations. They say that capacities, limits and bounds are natural numbers, positive where the code
cannot do with zero (the channels, a turn index, `MaxConcurrency`, a first request), that `Nobody` is none
of the callers, that the clients of a loader are no runtimes and its root is a thread, that Approvals and
the desktop client have finitely many threads, that `NoThread` is none of them, and that a client asks for a goal status the protocol has. The code justifies each: they are lengths, counters and names.

Each proof has the same form. `IInv` is the inductive invariant of the module, a conjunction of named
facts; TLC checked it on the bounds of section 3 before it was proved; one lemma for each action or group
of actions shows that it is kept; and each theorem is a consequence of it, or of it and the step.

**ThreadRuntime_proofs**: `TypeCorrect`, `SlotSafety`, `MailSafety` (`Spec => []TypeOK`,
`[]SlotHasOneHolder`, `[]NoStrandedMail`), for any set of callers. None of the three is inductive. The
invariant is `IInv == TypeOK /\ Carried /\ OneGuardNow /\ MailKept`:

* `Carried` ties the operation of a submission to the guard it carries, and the stage of the actor
  to what it holds; without it nothing is known of the guard a step drops.
* `OneGuardNow` restates the slot property by cases (free and no guard; or one guard, in the channel
  at exactly one place, or at the actor, or in its unsent submission). The set of holders of
  `SlotHasOneHolder` is awkward to reason about under `Append` and `Tail`; lemma
  `OneGuardIsSlotHasOneHolder` goes back to it.
* `MailKept` says why mail cannot be left behind at any stage of the actor, not only when it is
  about to sleep: it is between the end of an operation and the check, or something is queued, or
  the sender is still delivering.

There is one step per action, with lemmas for the kinds of step that recur (a guard submitted,
received, dropped; a step that leaves the slot alone).

The second part of the module proves `TurnsAreFinal` (`EndedTurnIsFinal`), `ImplementsLifecycle`
(`Spec => LifecycleSpec`) and `InterruptsArrive` (`InterruptReachesTurn`). The argument adds `Ledger`: ids
not yet handed out are blank in the rollout, the owner of the slot is blank until its turn starts and open
until it ends. Each action is first classified (`Reserving`, `Starting`, `Ending`, `Releasing`, ..., `CallerKinds` and `ActorKinds`),
and each kind is shown to keep the ledger and to be a step of TurnLifecycle or a stutter. `InterruptsArrive`
adds `Signals`: the one-shot of a turn can be armed or fired only while the turn owns the slot and its
handler has not come to its end, and a caller that interrupts read its turn from the slot, so the turn was
handed out. The copy that the caller made may be stale when it signals; what the theorem says is that
it then meets a turn that is recorded or past its last interruptible point, never a later one.

**ReviewGate_proofs**: `TypeCorrect`, `ApprovalNeeded`, `QuestionsAnswered` (`GateNeedsApproval`,
`NoOpenQuestionAtCompletion`), for any reviewers, contents, goals, tickets and restarts; `GateFollows` and
`ResumedStays` (`GateFollowsNewest`, `ResumeSticks`) for any number of them within one process.
`IInv == TypeOK /\ Backed /\ Asked /\ Named`. A completion is the last of the five steps of a call, so
the facts must be carried from one to the next while the client and the reviewers move: `Asked` says
what the call knows at each place (no open question once it has looked, an approval of the very hash
it took once it has seen the ticket). `Backed`, that every approved ticket was approved by a reviewer
for its goal with its hash, gives the approval when the ticket is read; it survives a second verdict
on the ticket because approvals are never forgotten. `Named` says which goal or ticket a request or a
review in flight holds. The only assumption used is that the bounds are natural numbers: the gate is
sound in this sense outside a git work tree too, where every hash is `NoHash`. What it does not say
there is that the files are still those the reviewer saw; no hash can tell.

`GateFollows` and `ResumedStays` have the hypothesis `[][~Restart]_vars` beside `Spec`: with a restart they
are false (finding 3, and the precondition of `ResumeSticks` in section 3). Their invariant adds `Ordered`
(within a process the order numbers grow with the insertions, so the latest ticket of a goal is the one
inserted last), `Settled` (a rejection that was acted on stays among the notified ones as long as it
is the newest review of the goal) and `Looked` (between its statements the idle actor's ticket stays the
newest one, for only the thread itself opens tickets, and still rejects if the goal counts as settled).

**RuntimeLoader_proofs**: `TypeCorrect`, `GuardsAreCounted` (`GuardsCounted`), `LoadedRuntimesAreLive`
(`LoadedIsLive`), `OneRuntimeEach` (`OneRuntimePerThread`), `RestoreMeetsNoGatedTurn`
(`RestoreSeesGatedTurns`), `RestoreMeetsNoDecision` (`DecisionsExcludeRestore`) and `ForkMeetsNoClientTurn`
(`ForkSeesNoClientTurn`), for any clients, threads, runtimes and hang-ups. None can be proved alone: that a
restore meets no turn needs the count of guards, the count needs to know which submission carries one, and
that needs to know that a runtime in the map is fed by no one else. The invariant has a part per mechanism:

* who is where: a request takes only the steps of its kind (`CallsOK`), with a runtime of its own
  thread (`RuntimesOK`);
* the map: whoever looks again or inserts has the load lock, and what it inserts has never been sent
  anything (`LoadsOK`); what was told to stop is out of the map (`DoomedUnloaded`); with no close, every
  runtime is in the map or about to be (`NoneClosed`);
* the slot: one submission at most reserves it (`SlotsOK`), and only turns carry guards (`CarriedAreTurns`);
* the gate: the count is that of the requests that hold a guard and of the runtimes whose turn carries one
  (`GuardsOK`); a restore begins at zero and keeps it there (`RestoresOK`), so a runtime it has looked at
  gets no gated turn after (`ScanOK`);
* the operation lock: a turn start and a fork of one thread exclude each other (`OpLocksOK`, `ForksOK`);
* while no client hung up, the sender of a decision still waits with its guard until the decision is answered
  (`DecisionsOK`).

**WorkflowRun_proofs**: `TypeCorrect`, `AnswersAgreeAlways` (`AnswersAgree`), `NothingSkipped`
(`CompletedSkippedNothing`) and `PhasesEnd` (`PhasesEndWithRun`), for every limit of the template and any
clients and restarts. Lemma `EndedStays` is why the end is final: every method of the run state leaves an
ended run as it is. So the invariant speaks of a run that goes on (`Progress`: the phases behind
the task are over, and a phase that skipped a call leaves the task at a check that must refuse),
of one that has ended (`Closed`), and of the copies on disk and at the clients (`Agreed`: while the run
is in memory they are it, and after a restart they are each other's). `Carried` is what the task knows of
claims and verdicts. `NothingSkipped` uses of a phase only what WorkflowPhase allows it to report, which
the scheduler is proved to keep.

The second part of the module is that proof, about WorkflowScheduler: `SchedulerTypeCorrect`,
`PhaseAccounting`, `PhasePublishing`, `PhaseTruthful`, `PromptCancel` (`AtMostOneLateCall`) and
`SchedulerContract` (`PhaseContract`), for every number of tasks and every bound. The last holds the facts
about the report together and is what WorkflowRun builds on.
`SchedIInv == PhaseTypeOK /\ Counted /\ Placed /\ Shown`: the counters add up at every step, and every
way to stop accounts at once for all that is left (`Counted`); what each place of the loop knows (`Placed`),
among it that a place from which a task can be spawned after a cancel has seen no late call; the status
given at the end (`Shown`). `SchedulerContract` adds `StopCause`: only an exhausted budget sets
`control_stopped`.

**EventLog_proofs**: `TypeCorrect`, `SeenIsDurable` (`SeenIsStored`), `FileIdsGrow` (`RecordedIdsGrow`),
`ConnectionComplete` (`StreamComplete`) and `NoLateDelta` (`DeltaBeforeEnd`), for buffers and channels of any
capacity and any number of events, answers, faults and restarts. The idea is that a set of events is closed:
with a recorded event it has every later one the session recorded, except those it has yet to push or to send
and those whose newline failed, `silent` (`BufferClosed`, `StreamClosed`). That is kept when the buffer drops its oldest event and when a replay is
cut out of it, and makes the replay and the live events fit together. `FileOrdered`, `Counted` and
`WriterAhead` say that the session's event comes after all it has recorded, answers in between or not, which
fails only if ids are used again; `ToolOpen` is for `NoLateDelta`, which is about the sink beside the session.

**Approvals_proofs**: `TypeCorrect`, `DecisionRunsTheRequest` (`RanAsAsked`), `StartedOnce` (`RunsOnce`),
`DecisionIsFinal` (`DecidedIsFinal`) and `FileCanBeDecided` (`StoredIsLive`), for any finite set of threads,
any clients, requests, failing commands and restarts. `Coherent` says that a key and the request behind it
determine each other wherever they are: in the overlay, the file, the policy, the actor, or a client that
is restoring it. With it a restore that comes late can only put back what is there, or what the overlay
no longer has and nobody will take (`TakesLive`). `OverlayHasFile` excepts the interrupt that is on its way
and what a refused record lost. A refused record of a command that ran counts as a run that failed
(`Attempts`).
`RanAsAsked`, `RunsOnce` and `DecidedIsFinal` keep their precondition that no id was given again.

**ThreadGoal_proofs**: `TypeCorrect`, `TokensChargedOnce` (`ChargedOnce`), `QuietGoalsStop` (`QuietStops`),
`GoalsForgottenOnlyFor` (`ForgottenOnlyFor`) and `ReportsAlwaysArrive` (`ReportsArrive`), for any budgets
and any number of goals, turns, tokens, calls and restarts. The code reads, computes and writes in separate
statements, so most of `IInv` is about what a step will still do:

* `ChargedOnce` needs to know that what is yet to be charged fits below the tokens spent since the goal was
  created: what the turn at hand has not charged (`BaselineFits`), until the lock's holder has written it, and
  what the holder is about to write (`ChargeFits`). A client that takes the lock during a turn is harmless
  because it charges no token (`job.delta = 0`), and the row it overwrites has not been charged since it read
  it, because the lock has one holder (`Locked`). A row that is replaced or deleted in between has another id.
* `Quieted`: the quiet goal is suppressed while it is there, and neither an operation in the queue nor the
  one at hand continues it. A continuation cannot be in the queue while a turn that becomes quiet ends,
  because both have the only slot (`Slots`). `Called` is why a client's set cannot lift the suppression
  without naming the goal.
* `Placed` and `Telling`: a report that is on its way is in one place, the client's call, one operation of
  the queue or the actor's, and was marked; every step leaves it there, moves it on, tells it or drops it.
* `ForgottenOnlyFor` is inductive beside `Slots` (an idle look with an empty queue finds the slot free) and
  `Called`.

**WorkbenchStore_proofs**: `OwnThread` (`ShowsOwnThread`), `NoGapInViewer` (`ViewerComplete`), `OpeningOnly`
(`MissesOnlyTheOpening`), `NoLeak` (`NothingLeaks`) and `TypeCorrect`, for any finite set of threads and any
number of events, opens, refused calls and compactions. Every open that was ever begun is kept, with the
answers it still waits for, so the invariant says what each of them may hold and who may still act for it:

* `Pointed`, `OpensOK` and `CompactsOK`: what the store points at, and that whatever an open or a compaction
  has been answered, has buffered or has queued is of its own thread and was emitted by now.
* `EarsOwned`, `TaskOwned`: a listener is at its own open until the open hands it to one of the two
  cleanups, and the shell's task forwards for an open that listens or whose unsubscribe is on its way.
  `NoLeak` follows. The hard steps are those where one open takes the cleanup of another (lemma `SweepStep`)
  and where the catch of a superseded open runs (`SupersededStep`).
* `SessionOwn`, `SessionApplied`, `SessionHeard`: the transcript has the view the session was opened with and,
  but for what is queued, everything the task has forwarded; an applied event newer than the subscription is
  in the transcript. The events of the replay that count as applied and are not shown (finding 9) are not
  newer, and that is the whole of what `MissesOnlyTheOpening` excepts.
* `ViewerOwn`, `ViewerBuffered`, `ViewerShown`: while a viewer waits for its replay its buffer is anything up
  to some event `s`, then every event after `s` up to the task's place (`RunsTo`), unless the task has lagged, and the replay reaches
  `s`; once it is open, it shows a first part of the agent's log and its queue continues there, possibly
  repeating some of it. That view, replay, buffer and frames make one run without a gap is lemmas
  `FreshRun`, `ShowUpto`, `LiveAfter` and `ReplayShown`.

`TypeCorrect` says more than shapes: no more calls to unsubscribe are on their way than opens were begun. It
has an invariant of its own, `CallsBound`: an open that stops listening sends one such call at most, and
never listens again.

**Only model-checked.** The five liveness properties (`CallsAreAnswered`, `MailIsDrained`, `RequestsEnd`,
`PhaseEnds`, `RunEnds`): liveness under fairness and `ENABLED` are beyond the prover. So are induction over
data and recursive operators; the modules declare none. Every safety property and action property a run
checks, and the refinement of TurnLifecycle, is a theorem.

## 5. Findings

The first three are runs that must end in a counterexample.

1. `interrupt_is_recorded`. An interrupt accepted while the turn is storing the user message or
   finishing is neither recorded nor answered: the turn is recorded as completed and the caller
   waits on. `docs/protocol/app-server-boundary-v2.md:869` says "For an active turn, the runtime sends
   an interrupt to the running turn and records `turn_interrupted`".
2. `loader_two_turns`. Closing a child takes its runtime out of the map while its turn still runs; the
   next request loads a second one. `docs/protocol/app-server-boundary-v2.md:650`: "Only one active
   turn is allowed per loaded thread in one app-server process."
3. `review_restart`. The order of review tickets is a counter of the process, the tickets are durable:
   after a restart an old ticket is "the latest" and a new approval does not open the gate, against
   the test `latest_fresh_approval_only_returns_newest_matching_approval` (`runtime/forge/review.rs:437`).

The others are formulas of the modules that TLC refutes when they are given to it as an invariant or a
property; no run of the project repeats them.

4. `TurnStartReturns` (RuntimeLoader). A submission awaits a permit of the channel and then reserves the turn and sends
   (`facade.rs:289`): if the runtime is closed in between, the submission stays in a channel nobody reads and
   nobody drops. `/turn/start` on a child that the root's turn closes then waits for ever, with the operation
   lock of the thread and the workspace guard, so that no restore can begin again.
   `docs/protocol/app-server-boundary-v2.md:73`: "Returns after the turn is accepted, not after completion".
5. `AnswersReachStream` (EventLog). The answer to an open question is appended to the rollout by the handler itself
   (`approvals_processor.rs:195`) and neither pushed nor sent: a connected client gets what comes before it and
   after it, and not the answer, without any overflow. `docs/protocol/app-server-boundary-v2.md:77`: "Return an SSE stream of replayed
   gap events followed by live events"; `:880` has `open_question_resolved` among them.
6. `RestoreStartsQuiet` (RuntimeLoader). The scan for active turns asks one runtime after the other while
   a delivery starts a turn outside the gate. `docs/protocol/app-server-boundary-v2.md:545`: "Restore is
   rejected as an invalid request if any loaded runtime in the target workspace has an active turn".
7. `ModeAsAnswered` (ReviewGate). A reviewed goal created by `thread_goal_set` on a loaded thread is made a
   standard goal by `external_set` (`runtime/goal/runtime.rs:737`), while "The response returns both the
   goal and the resolved mode" (`docs/protocol/app-server-boundary-v2.md:217`).
8. `AccountedGoalExists` (ThreadGoal). `account_thread_goal_usage` updates the row and reads it again in two
   statements, and `thread_goal_clear` deletes it in between without the accounting lock: the task of the
   actor panics on `.expect("accounted goal should still exist")` (`state/index_db/goal_store.rs:309`).
9. `SessionComplete` (WorkbenchStore). `openSession` marks the events of the replay as applied and shows
   only the view and what it buffered: an event between the two is never shown (`workbenchStore.ts:575`,
   `:633`). `openAgentThread` shows the replay too, and `ViewerComplete` holds of it.
10. `SessionStaysLive` (WorkbenchStore). A subscription aborts the forwarding of every other thread of the
   window (`src-tauri/src/state.rs:77`): opening a viewer silences the session, and closing it does not
   bring it back, against the "live transcript" of the repository's README (line 36).
11. `ViewerCompleteAlways` (WorkbenchStore). The shell's task skips events when it lags behind the broadcast
   channel (`src-tauri/src/commands.rs:1085`) and emits nothing that says so: a viewer, or a session, that
   listens all the time has a gap until it is opened again, against the same "live transcript".
12. `NothingMissed` (EventLog). Push and broadcast are two steps taken by two tasks side by side, so the
   order in the buffer and on the wire differ: a client that reconnects after the event it got last misses a
   stored event in front of it. `docs/protocol/app-server-boundary-v2.md:672`: "The server reads persisted
   events after `after_event_id`, if provided."
13. `InboxLists` (Approvals). A thread loaded after a restart waits for an approval the inbox does not list,
   because loading refills the overlay and not the PolicyManager: `docs/protocol/app-server-boundary-v2.md:470`,
   "the Approval Inbox lists pending approvals from loaded runtimes".
14. `ToldIsDurable` (WorkflowRun). A run is answered as completed before its snapshot is written, and a failed
   write is ignored: a process that ends in between forgets it, while "Completed, failed, and
   cancelled `WorkflowRunView` snapshots are appended to the root thread rollout"
   (`docs/protocol/app-server-boundary-v2.md:277`).
15. `CancelIsNoFailure` (WorkflowRun). A cancel during the scope call comes back wrapped as an error of the
   phase (`deep_search.rs:561`), which the background task does not recognise as a cancellation
   (`workflow_processor.rs:436`): if it records its outcome before `workflow_cancel` marks the run, the run
   the client cancelled is shown as failed.
16. `FileReadable` (EventLog). `writeln!` on a file is two writes (`state/rollout.rs:375`): an answer that another
   handler appends between a line and its newline, a crash there, or a newline that fails joins two lines, and
   `read_items` refuses the whole file. The repository's README (line 98): "each thread has a `rollout.jsonl`
   ledger".
17. `StoredIdsDiffer` (EventLog). The ids of those answers start again with the process
   (`runtime/policy.rs:367`): a rollout answered in two processes has `approval_evt_1` twice, and a cursor or
   an applied id that names one names both.

Three more things the model has and no formula reports. The files may change after the gate has hashed
them and before the goal is updated, so `GateNeedsApproval` speaks of the files the call found, not of
those at the moment of completion. `update_goal` completes whatever goal the thread has when the
statement runs, not the one the gate looked at (`expected_goal_id: None`). `update_thread_goal` checks
the expected goal in one statement and writes the thread's row in another.

## 6. What is not modelled

Model providers, MCP, tools on files and the web, skills, prompts, configuration, the entry points, the
settings and the rendering of the desktop shell are I/O and text, with no state that interleavings could
break; by lines they are most of the repository. The index database is a cache rebuilt from rollouts. Git
plumbing of checkpoints, the search of memories, the cut of a fork, the projection of a thread and the
prompts of a compaction are functions of data, often text, with nothing concurrent in them. The modules
therefore map to a small part of the source: the part that keeps state between awaits.

Of what does keep state, these are left out and in the plan: the tree of agents (paths, depth, the tokens
of a child that are read before it stops, `services.rs:463`, an edge closed whose runtime stays loaded,
`services.rs:443`), and the exec sessions (`terminate` writes over the status of a process that has ended,
`exec_session.rs:214`). In the shell, `rebuild_facade_from_settings` (`src-tauri/src/state.rs:36`) replaces
the app-server while runtimes of the old one go on: no module has two app-servers.

Inside the modelled components: what a turn says; Plan-mode turns and mail turns of a goal, its time and
what its reports contain; what is asked and answered in a question, the approvals of hooks; redaction,
limits and kinds of a replay; the order of the outputs of a phase, which is sorted at the end; sources,
claims and verdicts other than as counts; errors of the database, which abort the request they happen in.

## 7. Plan

Each module is written to be proved about as well as checked (constants with named assumptions, one
action per operation, no recursive operators).

1. **AgentTree**: reservation of paths, spawn, delivery, wait and close of a subtree, spawn edges and
   token rollup. Properties: one live agent per path, no agent outlives the closed parent, tokens charged
   once.
2. **ExecSession**: status, output and exit of a process under poll, write and terminate.
