----------------------------- MODULE ThreadGoal -----------------------------
(***************************************************************************)
(* The goal of one thread: the row of the index database                   *)
(* (state/index_db/goal_store.rs), the memory of GoalRuntime               *)
(* (runtime/goal/runtime.rs), the turns and idle looks of the thread's      *)
(* actor that charge the goal, continue it and report it, and a client's    *)
(* thread_goal_set and thread_goal_clear, which change the row while the    *)
(* actor runs.  A statement of the database is one step; a function of      *)
(* several statements is several steps.  Times, objectives, the number of   *)
(* turns and the changed files of a report, and the review modes (see       *)
(* ReviewGate) are left out.                                               *)
(***************************************************************************)
EXTENDS Naturals, Sequences, FiniteSets

CONSTANTS
  Budgets,      \* the token budgets a goal may be given; 0 stands for none
  Statuses,     \* the statuses a client asks for
  MaxGoals,     \* bound: goals ever created
  MaxTurns,     \* bound: turn ids ever reserved
  MaxSpent,     \* bound: tokens the provider ever reports
  MaxCalls,     \* bound: client calls
  MaxRestarts,  \* bound: restarts of the process
  Clears        \* whether the client clears the goal

ASSUME BoundsAssumption ==
  /\ Budgets \subseteq Nat /\ Budgets # {}
  /\ Statuses \subseteq {"active", "paused", "blocked", "complete"}
  /\ {MaxGoals, MaxTurns, MaxSpent, MaxCalls, MaxRestarts} \subseteq Nat
  /\ Clears \in BOOLEAN

VARIABLES
  row,       \* the row of thread_goals, or NoRow
  slot,      \* the reserved turn, 0 when the slot is free
  queue,     \* the operations sent to the actor
  pc,        \* where the actor is
  op,        \* the operation it works on
  hand,      \* the row its last statement read
  job,       \* the holder of the accounting lock with its locals, or NoJob
  acct,      \* turn_accounting of the thread, or NoAcct
  wall,      \* the goal of the wall clock, 0 for none
  pending,   \* pending_status_effects of the thread, 0 or the goal
  reported,  \* reported_goal_statuses
  usage,     \* the cumulative token usage of the context manager
  cpc,       \* where the client's call is
  call,      \* the call: the status and budget asked for, the row it read
  calls,     \* calls made
  turns,     \* turn ids given out
  goals,     \* goals created
  restarts,
  spent,     \* history: tokens the provider ever reported
  born,      \* history: spent when each goal was created
  told,      \* history: reports recorded since the process started
  missed,    \* history: reports marked as given and then dropped
  quiet,     \* history: goal whose last continuation showed no activity, 0
  stalled    \* history: why an idle look did not continue the goal

actor == <<pc, op, hand>>
client == <<cpc, call, calls>>
memory == <<acct, wall, pending, reported>>
history == <<spent, born, told, missed, quiet, stalled>>
counters == <<turns, goals, restarts>>
vars == <<row, slot, queue, actor, job, memory, usage, client, counters, history>>

NoRow == [id |-> 0, status |-> "none", used |-> 0, budget |-> 0, suppressed |-> FALSE]
NoJob == [by |-> "none", step |-> "done", goal |-> 0, delta |-> 0, now |-> 0,
          mark |-> FALSE, any |-> FALSE, seen |-> NoRow]
NoAcct == [turn |-> 0, continuation |-> FALSE, last |-> 0, goal |-> 0, counted |-> FALSE]
NoOp == [kind |-> "none", turn |-> 0, goal |-> 0, report |-> <<0, "none">>]
NoReport == <<0, "none">>
NoCall == [status |-> "none", budget |-> 0, seen |-> NoRow, goal |-> 0, report |-> NoReport]
Final == {"blocked", "complete", "limited"}

Active(r) == r.status = "active"
\* A variant that does not look at the suppression.
MayContinueSuppressed(r) == Active(r)
MayContinue(r) == Active(r) /\ ~r.suppressed
Effect(report) == [NoOp EXCEPT !.kind = "effect", !.report = report]
NewRow(status, budget) ==
  [id |-> goals + 1, status |-> status, used |-> 0, budget |-> budget, suppressed |-> FALSE]

Init ==
  /\ row = NoRow /\ slot = 0 /\ queue = <<>>
  /\ pc = "idle" /\ op = NoOp /\ hand = NoRow
  /\ job = NoJob /\ acct = NoAcct /\ wall = 0 /\ pending = 0 /\ reported = {}
  /\ usage = 0
  /\ cpc = "idle" /\ call = NoCall /\ calls = 0
  /\ turns = 0 /\ goals = 0 /\ restarts = 0
  /\ spent = 0 /\ born = <<>> /\ told = {} /\ missed = {} /\ quiet = 0
  /\ stalled = "nothing"

(***************************************************************************)
(* Helpers of the database.                                                *)
(***************************************************************************)
\* reset_thread_goal_continuation_suppression: of the expected goal, or of
\* whichever goal is there when none is expected (0).
Unsuppress(r, expected) ==
  IF r # NoRow /\ expected \in {0, r.id} THEN [r EXCEPT !.suppressed = FALSE] ELSE r

\* What account_thread_goal_usage writes over the row it read.
Charged(r, delta) ==
  [r EXCEPT !.used = @ + delta,
            !.status = IF r.budget # 0 /\ r.used + delta >= r.budget THEN "limited" ELSE @]

MayCharge(r, goal, any) == r # NoRow /\ r.id = goal /\ (any \/ Active(r))

CreateRow(status, budget) ==
  /\ goals < MaxGoals
  /\ row' = NewRow(status, budget)
  /\ goals' = goals + 1
  /\ born' = Append(born, spent)

(***************************************************************************)
(* Reports: the first effect that carries a final status takes the report. *)
(***************************************************************************)
\* A variant that reports a status each time it is reached.
ReportAgain(goal, status) == IF status \in Final THEN <<goal, status>> ELSE NoReport
ReportOf(goal, status) ==
  IF status \in Final /\ <<goal, status>> \notin reported THEN <<goal, status>> ELSE NoReport

\* budget_limit_effect: what an accounting that reached the budget reports.
BudgetReport(r) == IF r.status = "limited" THEN ReportOf(r.id, r.status) ELSE NoReport

MarkReported(report) == reported' = reported \cup ({report} \ {NoReport})

Record(report) == told' = told \cup ({report} \ {NoReport})

(***************************************************************************)
(* Accounting, under accounting_lock.  The variable job is the lock: its   *)
(* holder, the goal and tokens it charges, and the row it read.            *)
(***************************************************************************)
Others == <<queue, usage, calls, counters, history>>

\* The permit ends with the accounting, except that the actor's is kept until it
\* has used the outcome.
Accounted(by, outcome) ==
  IF by = "client" THEN NoJob ELSE [NoJob EXCEPT !.by = by, !.seen = outcome]

\* account_turn_progress_locked up to its first statement: a turn without
\* accounting charges nothing, one without a goal only moves its baseline.
StartAccounting(by, turn, now, mark, any) ==
  LET mine  == acct # NoAcct /\ acct.turn = turn
      delta == IF now > acct.last THEN now - acct.last ELSE 0
  IN /\ job = NoJob
     /\ job' = IF mine /\ acct.goal # 0
               THEN [by |-> by, step |-> "read", goal |-> acct.goal, delta |-> delta, now |-> now,
                     mark |-> mark \/ delta > 0, any |-> any, seen |-> NoRow]
               ELSE Accounted(by, NoRow)
     /\ acct' = IF mine /\ acct.goal = 0 THEN [acct EXCEPT !.last = now] ELSE acct

\* A variant that leaves the baseline of the turn where it was.
EndAccountingKeepsBaseline(outcome) ==
  /\ acct' = IF acct = NoAcct THEN acct ELSE [acct EXCEPT !.counted = @ \/ job.mark]
  /\ job' = Accounted(job.by, outcome)

\* The baseline moves and the activity counts, whatever the outcome was.
EndAccounting(outcome) ==
  /\ acct' = IF acct = NoAcct THEN acct
             ELSE [acct EXCEPT !.last = job.now, !.counted = @ \/ job.mark]
  /\ job' = Accounted(job.by, outcome)

\* account_thread_goal_usage reads the row ...
ChargeRead ==
  /\ job.step = "read"
  /\ IF MayCharge(row, job.goal, job.any)
     THEN job' = [job EXCEPT !.seen = row, !.step = "write"] /\ UNCHANGED acct
     ELSE EndAccounting(NoRow)
  /\ UNCHANGED <<row, slot, actor, wall, pending, reported, cpc, call, Others>>

\* ... writes what it computed from it, the status included, over whatever the
\* row of the same goal holds by now ...
ChargeWrite ==
  /\ job.step = "write"
  /\ LET new == Charged(job.seen, job.delta)
     IN row' = IF row.id = job.goal
               THEN [row EXCEPT !.used = new.used, !.status = new.status] ELSE row
  /\ job' = [job EXCEPT !.step = "reread"]
  /\ UNCHANGED <<slot, actor, memory, cpc, call, Others>>

\* ... and expects to read a row again: when there is none the task panics.
ChargeReread ==
  /\ job.step = "reread" /\ row # NoRow
  /\ EndAccounting(row)
  /\ UNCHANGED <<row, slot, actor, wall, pending, reported, cpc, call, Others>>

ChargePanics ==
  /\ job.step = "reread" /\ row = NoRow
  /\ job' = NoJob
  /\ pc' = IF job.by = "actor" THEN "dead" ELSE pc
  /\ slot' = IF job.by = "actor" THEN 0 ELSE slot
  /\ cpc' = IF job.by = "client" THEN "idle" ELSE cpc
  /\ UNCHANGED <<row, op, hand, memory, call, Others>>

Done == job.by = "actor" /\ job.step = "done"

\* GoalAccountingOutcome: the row it left, NoRow when nothing was charged.
Outcome == job.seen

(***************************************************************************)
(* The actor: a turn.                                                      *)
(***************************************************************************)
Reserve(t) == slot = 0 /\ turns < MaxTurns /\ t = turns + 1 /\ slot' = t /\ turns' = t

\* A client's message takes the slot and joins the queue.
SubmitUser ==
  /\ pc \notin {"dead", "unloaded"}
  /\ Reserve(turns + 1)
  /\ queue' = Append(queue, [NoOp EXCEPT !.kind = "user", !.turn = turns + 1])
  /\ UNCHANGED <<row, actor, job, memory, usage, client, goals, restarts, history>>

\* An operation that looks at no goal afterwards: an interrupt of an idle
\* thread, an approval decision, an answer, a compaction.
SubmitOther ==
  /\ pc \notin {"dead", "unloaded"} /\ NoOp \notin {queue[i] : i \in DOMAIN queue}
  /\ queue' = Append(queue, NoOp)
  /\ UNCHANGED <<row, slot, actor, job, memory, usage, client, counters, history>>

Receive ==
  /\ pc = "idle" /\ queue # <<>>
  /\ op' = Head(queue) /\ queue' = Tail(queue)
  /\ pc' = CASE Head(queue).kind = "user" -> "start"
             [] Head(queue).kind = "continuation" -> "candidate"
             [] Head(queue).kind = "effect" -> "effect"
             [] OTHER -> "idle"
  /\ stalled' = IF Head(queue).kind = "none" THEN "no look after it" ELSE "nothing"
  /\ UNCHANGED <<row, slot, hand, job, memory, usage, client, counters,
                 spent, born, told, missed, quiet>>

\* A continuation runs only when its goal is still the active one.
CheckCandidate ==
  /\ pc = "candidate"
  /\ pc' = IF row.id = op.goal /\ Active(row) THEN "start" ELSE "release"
  /\ UNCHANGED <<row, slot, queue, op, hand, job, memory, usage, client, counters, history>>

\* What comes before TurnStarted may fail or be interrupted (user turns only:
\* modalities, the model, compaction).
StartFails ==
  /\ pc = "start" /\ op.kind = "user" /\ pc' = "release"
  /\ UNCHANGED <<row, slot, queue, op, hand, job, memory, usage, client, counters, history>>

\* turn_started, under the lock: the row is read ...
TurnStartedRead ==
  /\ pc = "start" /\ job = NoJob
  /\ job' = [NoJob EXCEPT !.by = "actor", !.step = "started", !.seen = row,
                          !.goal = IF Active(row) THEN row.id ELSE 0]
  /\ pc' = "starting"
  /\ UNCHANGED <<row, slot, queue, op, hand, memory, usage, client, counters, history>>

\* ... a user's turn lifts the suppression, and the accounting of the turn begins.
TurnStarted ==
  /\ pc = "starting"
  /\ row' = IF op.kind = "user" THEN Unsuppress(row, job.goal) ELSE row
  /\ wall' = job.goal
  /\ acct' = [turn |-> op.turn, continuation |-> op.kind = "continuation", last |-> usage,
              goal |-> job.goal, counted |-> FALSE]
  /\ job' = NoJob
  /\ pc' = "sample"
  /\ quiet' = IF op.kind = "user" THEN 0 ELSE quiet
  /\ UNCHANGED <<slot, queue, op, hand, pending, reported, usage, client, counters,
                 spent, born, told, missed, stalled>>

\* The provider answers and reports n tokens; the answer calls create_goal,
\* update_goal or another tool, or ends the turn.
Sample(n, next) ==
  /\ pc = "sample" /\ spent + n <= MaxSpent
  /\ usage' = usage + n /\ spent' = spent + n
  /\ pc' = next
  /\ UNCHANGED <<row, slot, queue, op, hand, job, memory, client, counters,
                 born, told, missed, quiet, stalled>>

\* A full context window: the history is replaced and its token usage forgotten.
CompactInTurn ==
  /\ pc = "sample" /\ usage > 0
  /\ usage' = 0
  /\ UNCHANGED <<row, slot, queue, actor, job, memory, client, counters, history>>

\* create_goal inserts a row when there is none; the turn's accounting keeps its goal.
CreateGoal(b) ==
  /\ pc = "create"
  /\ IF row = NoRow
     THEN CreateRow("active", b) /\ wall' = goals + 1
     ELSE UNCHANGED <<row, goals, born, wall>>
  /\ pc' = "tool done"
  /\ UNCHANGED <<slot, queue, op, hand, job, acct, pending, reported, usage, client, turns, restarts,
                 spent, told, missed, quiet, stalled>>

\* update_goal: update_thread_goal without an expected goal.
UpdateGoalRead ==
  /\ pc = "update"
  /\ hand' = row
  /\ pc' = IF row = NoRow THEN "goal tool done" ELSE "update goal"
  /\ UNCHANGED <<row, slot, queue, op, job, memory, usage, client, counters, history>>

UpdateGoal(status) ==
  /\ pc = "update goal"
  /\ row' = IF row = NoRow THEN row ELSE [row EXCEPT !.status = status, !.budget = hand.budget]
  /\ IF row = NoRow THEN UNCHANGED <<wall, pending>>
     ELSE wall' = 0 /\ pending' = row.id
  /\ pc' = "goal tool done" /\ hand' = NoRow
  /\ UNCHANGED <<slot, queue, op, job, acct, reported, usage, client, counters, history>>

\* ToolCompletedGoal and ToolCompleted: the progress of the turn is charged.
ToolCompletedGoal ==
  /\ pc = "goal tool done"
  /\ StartAccounting("actor", op.turn, usage, FALSE, pending # 0)
  /\ pc' = "goal tool charged"
  /\ UNCHANGED <<row, slot, op, hand, wall, pending, reported, cpc, call, Others>>

ToolCompleted ==
  /\ pc = "tool done"
  /\ StartAccounting("actor", op.turn, usage, TRUE, FALSE)
  /\ pc' = "tool charged"
  /\ UNCHANGED <<row, slot, op, hand, wall, pending, reported, cpc, call, Others>>

\* An update_goal call's accounting is silent; another tool's reports a reached
\* budget, and lifts the suppression of the goal of the turn.
GoalToolCharged ==
  /\ pc = "goal tool charged" /\ Done
  /\ job' = NoJob /\ pc' = "sample"
  /\ UNCHANGED <<row, slot, op, hand, memory, cpc, call, Others>>

ToolCharged ==
  /\ pc = "tool charged" /\ Done
  /\ MarkReported(BudgetReport(Outcome))
  /\ op' = [op EXCEPT !.report = BudgetReport(Outcome)]
  /\ row' = Unsuppress(row, acct.goal)
  /\ quiet' = 0
  /\ job' = NoJob /\ pc' = "tell"
  /\ UNCHANGED <<slot, queue, hand, acct, wall, pending, usage, client, counters,
                 spent, born, told, missed, stalled>>

\* apply_goal_effect: the effect's events are recorded, after the report's
\* summary has been asked of the model.
Tell ==
  /\ pc = "tell"
  /\ Record(op.report) /\ op' = [op EXCEPT !.report = NoReport]
  /\ pc' = "sample"
  /\ UNCHANGED <<row, slot, queue, hand, job, memory, usage, client, counters,
                 spent, born, missed, quiet, stalled>>

\* The turn's future is dropped wherever it waits, or a call of it fails:
\* no TurnFinished, and the accounting of the turn stays.
InTurn == {"sample", "create", "update", "tool done", "tool charged", "update goal",
           "goal tool done", "goal tool charged", "tell"}

TurnDropped ==
  /\ pc \in InTurn
  /\ job' = IF job.by = "actor" THEN NoJob ELSE job
  /\ missed' = missed \cup ({op.report} \ {NoReport})
  /\ pc' = "release" /\ op' = [op EXCEPT !.report = NoReport] /\ hand' = NoRow
  /\ UNCHANGED <<row, slot, queue, memory, usage, client, counters,
                 spent, born, told, quiet, stalled>>

(***************************************************************************)
(* The actor: the end of a turn.                                           *)
(***************************************************************************)
\* turn_finished charges the last answer; active says whether the answer had
\* text, reasoning or tool calls.
TurnFinished(active) ==
  /\ pc = "finish"
  /\ StartAccounting("actor", op.turn, usage, active, pending # 0)
  /\ pc' = "finished"
  /\ UNCHANGED <<row, slot, op, hand, wall, pending, reported, cpc, call, Others>>

\* The effect of the accounting is dropped, after the report of a budget it
\* reached was marked as given.  The accounting of the turn is removed.  A
\* status set by update_goal is reported as the row now has it; a continuation
\* that showed no activity suppresses the next one.
FinishTurn ==
  /\ pc = "finished" /\ Done
  /\ LET mine    == pending # 0
         dropped == BudgetReport(Outcome)
         report  == IF mine /\ row.id = pending /\ ReportOf(row.id, row.status) # dropped
                    THEN ReportOf(row.id, row.status) ELSE NoReport
         idle    == /\ ~mine /\ acct.goal # 0 /\ row.id = acct.goal /\ Active(row)
                    /\ acct.continuation /\ ~acct.counted
     IN /\ reported' = (reported \cup {dropped, report}) \ {NoReport}
        /\ missed' = missed \cup ({dropped} \ {NoReport})
        /\ op' = [op EXCEPT !.report = report]
        /\ row' = IF idle THEN [row EXCEPT !.suppressed = TRUE] ELSE row
        /\ quiet' = IF idle THEN row.id ELSE quiet
  /\ acct' = NoAcct /\ pending' = 0
  /\ job' = NoJob /\ pc' = "tell end"
  /\ UNCHANGED <<slot, queue, hand, wall, usage, client, counters, spent, born, told, stalled>>

TellEnd ==
  /\ pc = "tell end"
  /\ Record(op.report)
  /\ op' = [op EXCEPT !.report = NoReport]
  /\ pc' = "release"
  /\ UNCHANGED <<row, slot, queue, hand, job, memory, usage, client, counters,
                 spent, born, missed, quiet, stalled>>

ReleaseTurn ==
  /\ pc = "release"
  /\ slot' = 0 /\ pc' = "look" /\ op' = NoOp
  /\ UNCHANGED <<row, queue, hand, job, memory, usage, client, counters, history>>

\* An effect sent to the actor is recorded, and the goal is looked at.
ApplyEffect ==
  /\ pc = "effect"
  /\ Record(op.report)
  /\ pc' = "look" /\ op' = NoOp
  /\ UNCHANGED <<row, slot, queue, hand, job, memory, usage, client, counters,
                 spent, born, missed, quiet, stalled>>

(***************************************************************************)
(* The actor: the idle look.                                               *)
(***************************************************************************)
Stay(why) ==
  /\ pc' = "idle" /\ stalled' = why
  /\ UNCHANGED <<op, hand, slot, queue, usage, job, client, counters, acct, wall, pending,
                 spent, born, told, quiet>>

\* More operations wait, the workspace gate refuses, or a turn is reserved.
SkipLook ==
  /\ pc = "look"
  /\ \/ (queue # <<>> \/ slot # 0) /\ Stay("more to do")
     \/ queue = <<>> /\ Stay("gated")
  /\ UNCHANGED <<row, reported, missed>>

\* maybe_continue_if_idle: accounting that was left counts as an active turn.
Look ==
  /\ pc = "look" /\ queue = <<>> /\ slot = 0
  /\ \/ /\ acct # NoAcct /\ Stay("a turn left its accounting")
     \/ /\ acct = NoAcct /\ ~MayContinue(row) /\ Stay("nothing")
     \/ /\ acct = NoAcct /\ MayContinue(row)
        /\ pc' = "reserve"
        /\ UNCHANGED <<slot, queue, op, hand, job, usage, client, counters, acct, wall, pending,
                       spent, born, told, quiet, stalled>>
  /\ UNCHANGED <<row, reported, missed>>

\* The escalation of a rejected review (see ReviewGate): guidance, a pause or a
\* block.  Its effect is not the one the look waits for, and is dropped.
Escalate(status) ==
  /\ pc = "look" /\ queue = <<>> /\ slot = 0
  /\ acct = NoAcct /\ MayContinue(row)
  /\ row' = [row EXCEPT !.status = status]
  /\ LET report == IF status = "active" THEN NoReport
                   ELSE <<row.id, status>>
         new == report # NoReport /\ report \notin reported
     IN /\ reported' = reported \cup ({report} \ {NoReport})
        /\ missed' = IF new THEN missed \cup {report} ELSE missed
  /\ Stay("escalated")

\* The goal is read again, and the turn is reserved and sent.
ReserveContinuation ==
  /\ pc = "reserve"
  /\ IF MayContinue(row) /\ slot = 0
     THEN /\ Reserve(turns + 1)
          /\ queue' = Append(queue, [NoOp EXCEPT !.kind = "continuation", !.turn = turns + 1, !.goal = row.id])
          /\ pc' = "idle" /\ stalled' = "nothing"
          /\ UNCHANGED <<op, hand, usage, job, client, goals, restarts, acct, wall, pending, spent, born, told, quiet>>
     ELSE Stay(IF slot # 0 THEN "more to do" ELSE "nothing")
  /\ UNCHANGED <<row, reported, missed>>

(***************************************************************************)
(* The client's thread_goal_set and thread_goal_clear.                     *)
(***************************************************************************)
Client == <<slot, op, hand, usage, turns, restarts>>

\* account_before_external_mutation: in the turn the slot holds, no token is
\* new; without one only time is charged, to the goal of the wall clock.
\* A thread that is not loaded has nothing to account.
StartMutation ==
  IF pc # "unloaded" /\ slot # 0
  THEN StartAccounting("client", slot, acct.last, FALSE, FALSE)
  ELSE /\ job = NoJob /\ acct' = acct
       /\ job' = IF wall = 0 THEN NoJob
                 ELSE [NoJob EXCEPT !.by = "client", !.step = "read", !.goal = wall, !.now = acct.last]

SetRead(status, budget) ==
  /\ cpc = "idle" /\ calls < MaxCalls
  /\ calls' = calls + 1
  /\ call' = [NoCall EXCEPT !.status = status, !.budget = budget, !.seen = row]
  /\ cpc' = "set account"
  /\ UNCHANGED <<row, queue, pc, job, memory, goals, Client, history>>

AccountBefore ==
  /\ cpc \in {"set account", "clear account"}
  /\ StartMutation
  /\ cpc' = IF cpc = "set account" THEN "set accounted" ELSE "clear accounted"
  /\ UNCHANGED <<row, queue, pc, wall, pending, reported, call, calls, goals, Client, history>>

\* replace_thread_goal overwrites whatever is there by now; update_thread_goal
\* reads the row and checks that the goal is the one first read.
SetCreate ==
  /\ cpc = "set accounted" /\ job.by # "client" /\ call.seen = NoRow
  /\ CreateRow(call.status, call.budget)
  /\ call' = [call EXCEPT !.goal = goals + 1] /\ cpc' = "apply set"
  /\ UNCHANGED <<queue, pc, job, memory, calls, Client, spent, told, missed, quiet, stalled>>

SetReread ==
  /\ cpc = "set accounted" /\ job.by # "client" /\ call.seen # NoRow
  /\ IF row.id = call.seen.id
     THEN cpc' = "update" /\ call' = [call EXCEPT !.goal = row.id]
     ELSE cpc' = "idle" /\ call' = NoCall
  /\ UNCHANGED <<row, queue, pc, job, memory, calls, goals, Client, history>>

SetUpdate ==
  /\ cpc = "update"
  /\ row' = IF row = NoRow THEN row ELSE [row EXCEPT !.status = call.status, !.budget = call.budget]
  /\ IF row = NoRow THEN cpc' = "idle" /\ call' = NoCall ELSE cpc' = "apply set" /\ call' = call
  /\ UNCHANGED <<queue, pc, job, memory, calls, goals, Client, history>>

\* external_set: the suppression is lifted and the clock marked; a status that
\* became final takes its report.  A thread that is not loaded hears nothing.
ExternalSet ==
  /\ cpc = "apply set"
  /\ IF pc = "unloaded"
     THEN /\ cpc' = "idle" /\ call' = NoCall
          /\ UNCHANGED <<row, memory, quiet>>
     ELSE LET report == IF call.seen.status # call.status
                        THEN ReportOf(call.goal, call.status) ELSE NoReport
          IN /\ row' = Unsuppress(row, call.goal)
             /\ quiet' = IF row.id = call.goal THEN 0 ELSE quiet
             /\ wall' = IF call.status = "active" THEN call.goal ELSE 0
             /\ MarkReported(report)
             /\ call' = [NoCall EXCEPT !.report = report] /\ cpc' = "send"
             /\ UNCHANGED <<acct, pending>>
  /\ UNCHANGED <<queue, pc, job, calls, goals, Client, spent, born, told, missed, stalled>>

\* A variant that sends only an effect with a report.
SendReportOnly ==
  /\ cpc = "send"
  /\ queue' = IF call.report = NoReport THEN queue ELSE Append(queue, Effect(call.report))
  /\ cpc' = "idle" /\ call' = NoCall
  /\ UNCHANGED <<row, pc, job, memory, calls, goals, Client, history>>

\* enqueue_goal_runtime_effect: the effect joins the queue of a live actor.
SendEffect ==
  /\ cpc = "send"
  /\ IF pc \in {"dead", "unloaded"}
     THEN missed' = missed \cup ({call.report} \ {NoReport}) /\ UNCHANGED queue
     ELSE queue' = Append(queue, Effect(call.report)) /\ UNCHANGED missed
  /\ cpc' = "idle" /\ call' = NoCall
  /\ UNCHANGED <<row, pc, job, memory, calls, goals, Client, spent, born, told, quiet, stalled>>

ClearStart ==
  /\ Clears /\ cpc = "idle" /\ calls < MaxCalls
  /\ calls' = calls + 1 /\ cpc' = "clear account"
  /\ UNCHANGED <<row, queue, pc, job, memory, call, goals, Client, history>>

DeleteGoal ==
  /\ cpc = "clear accounted" /\ job.by # "client"
  /\ row' = NoRow
  /\ cpc' = IF pc = "unloaded" THEN "idle" ELSE "apply clear"
  /\ UNCHANGED <<queue, pc, job, memory, call, calls, goals, Client, history>>

\* external_clear removes the accounting without taking the lock.
ExternalClear ==
  /\ cpc = "apply clear"
  /\ acct' = NoAcct /\ wall' = 0 /\ cpc' = "send"
  /\ UNCHANGED <<row, queue, pc, job, pending, reported, call, calls, goals, Client, history>>

(***************************************************************************)
(* The process stops at any point; the thread is loaded again when a client *)
(* asks for it.  ThreadResumed marks the clock; that it asks for a          *)
(* continuation is ignored by the actor (thread_runtime/actor.rs:58).       *)
(***************************************************************************)
Restart ==
  /\ restarts < MaxRestarts /\ restarts' = restarts + 1
  /\ slot' = 0 /\ queue' = <<>>
  /\ pc' = "unloaded" /\ op' = NoOp /\ hand' = NoRow
  /\ job' = NoJob /\ acct' = NoAcct /\ wall' = 0 /\ pending' = 0 /\ reported' = {}
  /\ cpc' = "idle" /\ call' = NoCall
  /\ told' = {} /\ missed' = {} /\ stalled' = "nothing"
  /\ UNCHANGED <<row, usage, calls, turns, goals, spent, born, quiet>>

ThreadResumed ==
  /\ pc = "unloaded"
  /\ wall' = IF Active(row) THEN row.id ELSE 0
  /\ pc' = "idle" /\ stalled' = "resumed"
  /\ UNCHANGED <<row, slot, queue, op, hand, job, acct, pending, reported, usage, client, counters,
                 spent, born, told, missed, quiet>>

Account == ChargeRead \/ ChargeWrite \/ ChargeReread \/ ChargePanics

Turn ==
  \/ CheckCandidate \/ StartFails \/ TurnStartedRead \/ TurnStarted
  \/ \E n \in 0..1, next \in {"create", "update", "tool done", "finish"} : Sample(n, next)
  \/ CompactInTurn \/ UpdateGoalRead
  \/ \E b \in Budgets : CreateGoal(b)
  \/ \E s \in {"complete", "blocked"} : UpdateGoal(s)
  \/ ToolCompleted \/ ToolCompletedGoal \/ ToolCharged \/ GoalToolCharged
  \/ Tell \/ TurnDropped
  \/ \E a \in BOOLEAN : TurnFinished(a)
  \/ FinishTurn \/ TellEnd \/ ReleaseTurn

Idle ==
  \/ Receive \/ ApplyEffect \/ SkipLook \/ Look \/ ReserveContinuation
  \/ \E s \in {"active", "paused", "blocked"} : Escalate(s)

Calling ==
  \/ \E s \in Statuses, b \in Budgets : SetRead(s, b)
  \/ AccountBefore \/ SetCreate \/ SetReread \/ SetUpdate \/ ExternalSet \/ SendEffect
  \/ ClearStart \/ DeleteGoal \/ ExternalClear

Next ==
  \/ Account \/ Turn \/ Idle \/ Calling
  \/ SubmitUser \/ SubmitOther \/ Restart \/ ThreadResumed

Spec == Init /\ [][Next]_vars

-----------------------------------------------------------------------------
(***************************************************************************)
(* Properties.                                                             *)
(***************************************************************************)
Row == [id : 0..MaxGoals, status : {"none", "active", "paused", "blocked", "complete", "limited"},
        used : 0..MaxSpent, budget : Budgets \cup {0}, suppressed : BOOLEAN]

\* The state keeps its types; the lock is held by the process that waits for it.
TypeOK ==
  /\ row \in Row /\ hand \in Row /\ call.seen \in Row /\ job.seen \in Row
  /\ (row = NoRow <=> row.id = 0) /\ row.id <= goals
  /\ slot \in 0..turns /\ turns \in 0..MaxTurns /\ goals \in 0..MaxGoals
  /\ acct.turn \in 0..turns /\ acct.goal \in 0..goals
  /\ wall \in 0..goals /\ pending \in 0..goals /\ quiet \in 0..goals
  /\ usage \in 0..spent /\ spent \in 0..MaxSpent /\ Len(born) = goals
  /\ job.by \in {"none", "actor", "client"}
  /\ job.by = "client" => cpc \in {"set accounted", "clear accounted"}

\* No token is charged to a goal twice, nor charged to it when it was spent
\* before the goal existed: turn progress, the end of a turn, a turn dropped in
\* the middle of its accounting, a client's accounting, a compaction that resets
\* the usage and a restart included.
ChargedOnce == row # NoRow => row.used <= spent - born[row.id]

\* A continuation that showed no activity is the last one until the user, a
\* client's set or a tool of another turn moves the goal again.
QuietStops ==
  op.kind = "continuation" /\ pc \in InTurn \cup {"start", "starting"} => op.goal # quiet

\* An active goal that may continue is forgotten by an actor with nothing to do
\* only for the reasons the code gives: the gate refused, an earlier turn left
\* its accounting, an escalation was dropped, the last operation looks at no
\* goal, or the thread was just loaded.
ForgottenOnlyFor ==
  /\ pc = "idle" /\ queue = <<>> /\ cpc = "idle" /\ MayContinue(row)
  => stalled \notin {"nothing", "more to do"}

OnTheWay == {op.report, call.report} \cup {queue[i].report : i \in DOMAIN queue}

\* A report marked as given is on its way, told, or one of those the code drops:
\* a status told by an effect is never both told and still to be told.
ReportsArrive ==
  /\ reported \subseteq told \cup missed \cup OnTheWay
  /\ (told \cup missed) \cap OnTheWay = {}
  /\ told \cap missed = {}

\* account_thread_goal_usage expects the row it updated to be there still: refuted,
\* a client's clear does not take the accounting lock.
AccountedGoalExists == job.step = "reread" => row # NoRow
=============================================================================
