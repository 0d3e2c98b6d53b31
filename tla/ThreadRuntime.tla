--------------------------- MODULE ThreadRuntime ---------------------------
(***************************************************************************)
(* The per-thread actor: src/runtime/thread_runtime/{facade,actor,op,      *)
(* reservation}.rs, with the phases of the turn handlers it runs           *)
(* (src/runtime/thread_session/turn/mod.rs).                               *)
(*                                                                         *)
(* Any number of callers use the facade ThreadRuntime at the same time.    *)
(* They reserve the thread's only turn slot (TurnReservations), put a      *)
(* submission on a bounded channel and wait on one-shot channels; the      *)
(* actor (ThreadRuntimeLoop) receives submissions one at a time and also   *)
(* submits turns to itself, for pending mail and for goal continuation.    *)
(*                                                                         *)
(* Abstractions: what a turn says is left out; of the requests that wait   *)
(* for an approval or an answer (Approvals has them one by one) only       *)
(* whether the overlay and the rollout show any.  The three control        *)
(* operations (interrupt of a wait, approval decision, user-input answer)  *)
(* have one name in the channel, where they are treated alike; the outcome *)
(* of the goal runtime, of the workspace gate, of validation, of sampling  *)
(* and of storage is a nondeterministic choice.                            *)
(***************************************************************************)
EXTENDS Integers, Sequences, FiniteSets

CONSTANTS Callers,      \* tasks that call the facade
          Nobody,       \* the submitter of a submission the actor sends itself
          Capacity,     \* THREAD_OP_CHANNEL_CAPACITY
          MaxTurn,      \* bound: largest turn index
          MaxCalls,     \* bound: calls begun, over all callers
          MaxGoalTurns, \* bound: goal continuations scheduled
          MaxFailures,  \* bound: turns that fail before sampling ends
          MaxRestarts,  \* bound: restarts of the process
          GateMayRefuse \* can a checkpoint restore hold the workspace gate?

ASSUME CapacityAssumption == Capacity \in Nat \ {0}
ASSUME MaxTurnAssumption == MaxTurn \in Nat \ {0}
ASSUME NobodyAssumption == Nobody \notin Callers

Turns == 1 .. MaxTurn
NoTurn == -1            \* the slot is free / the submission carries no guard
Compaction == 0         \* reserved with public_turn_id = None

TurnCalls == {"UserInput", "UserInputAndWait", "DeliverMail"}
PlainCalls == {"Control", "Effect", "Shutdown"}
Calls == TurnCalls \cup PlainCalls \cup {"Compact", "Interrupt"}

\* A submission: turn names the reservation its ActiveRuntimeTurnGuard frees, from
\* the caller that still waits on its one-shot channels.
Ops == {"UserInput", "GoalContinuation", "ManualCompaction", "Control", "Effect", "Shutdown"}
Submissions == [op : Ops,
                turn : {NoTurn, Compaction} \cup Turns,
                from : Callers \cup {Nobody}]
NoSubmission == [op |-> "None", turn |-> NoTurn, from |-> Nobody]

VARIABLES
  nextTurn,  \* TurnReservationState.next_turn_index
  active,    \* TurnReservationState.active_turn
  itx,       \* per turn, the interrupt one-shot: unused, armed, fired, dead
  notified,  \* per turn, the permit of its Notify
  queue,     \* the op channel
  rxOpen,    \* the actor still holds the receiver
  stage,     \* where the actor is
  current,   \* the submission the actor is handling
  own,       \* the submission the actor is sending to itself
  check,     \* check_goal_continuation
  trigger,   \* the inbox holds mail that asks for a turn
  skipped,   \* the gate refused the turn for the mail now pending
  pc,        \* per caller, where it is in its call
  intent,    \* per caller, the call
  mine,      \* per caller, the turn it interrupts
  starts,    \* rollout: TurnStarted events per turn
  ended,     \* rollout: the last terminal event of a turn
  waiting,   \* the overlay holds a request for an approval or an answer ...
  pending,   \* ... and so does the overlay that a restart makes of the rollout
  calls, goalTurns, failures, restarts   \* how much of the bounds is used

slot == <<nextTurn, active>>
signals == <<itx, notified>>
actorVars == <<stage, current, own, check>>
mailVars == <<trigger, skipped>>
callers == <<pc, intent, mine>>
requests == <<waiting, pending>>
rollout == <<starts, ended, requests>>
bounds == <<calls, goalTurns, failures, restarts>>
vars == <<slot, signals, queue, rxOpen, actorVars, mailVars, callers, rollout, bounds>>

Init ==
  /\ nextTurn = 1 /\ active = NoTurn
  /\ itx = [t \in Turns |-> "unused"] /\ notified = [t \in Turns |-> FALSE]
  /\ queue = <<>> /\ rxOpen = TRUE
  /\ stage = "recv" /\ current = NoSubmission /\ own = NoSubmission /\ check = FALSE
  /\ trigger = FALSE /\ skipped = FALSE
  /\ pc = [c \in Callers |-> "idle"]
  /\ intent = [c \in Callers |-> "Control"]
  /\ mine = [c \in Callers |-> NoTurn]
  /\ starts = [t \in Turns |-> 0] /\ ended = [t \in Turns |-> "none"]
  /\ waiting = FALSE /\ pending = FALSE
  /\ calls = 0 /\ goalTurns = 0 /\ failures = 0 /\ restarts = 0

-----------------------------------------------------------------------------
(* The reservation: TurnReservations and the guard's Drop.                 *)

\* A variant without the check that the slot is free.
ReserveNextUnchecked(t) ==
  /\ t = nextTurn /\ t \in Turns
  /\ active' = t
  /\ nextTurn' = nextTurn + 1
  /\ itx' = [itx EXCEPT ![t] = "armed"]
  /\ UNCHANGED notified

\* reserve_next succeeds: the slot is taken by a fresh turn id.
ReserveNext(t) ==
  /\ active = NoTurn
  /\ t = nextTurn /\ t \in Turns
  /\ active' = t
  /\ nextTurn' = nextTurn + 1
  /\ itx' = [itx EXCEPT ![t] = "armed"]
  /\ UNCHANGED notified

\* A variant that frees the slot when any submission is dropped.
DropAnything(s) == active' = NoTurn

\* Dropping a submission drops its guard, which clears the slot whatever it holds.
DropGuard(s) == active' = IF s.turn = NoTurn THEN active ELSE NoTurn

\* active_turn_id(): a manual compaction holds the slot but has no public id.
ActiveTurnId == IF active \in Turns THEN active ELSE NoTurn

Holding == {c \in Callers : pc[c] = "permit"}
HasRoom == Len(queue) + Cardinality(Holding) < Capacity

-----------------------------------------------------------------------------
(* Callers of the facade.                                                  *)

Goto(c, where) == pc' = [pc EXCEPT ![c] = where]

\* A call begins; delivering mail puts it in the inbox before anything else.
Call(c) ==
  /\ pc[c] = "idle" /\ calls < MaxCalls
  /\ calls' = calls + 1
  /\ \E o \in Calls \ {"Interrupt"} :
       /\ intent' = [intent EXCEPT ![c] = o]
       /\ IF o = "DeliverMail"
          THEN trigger' = TRUE /\ skipped' = FALSE /\ Goto(c, "checkBusy")
          ELSE Goto(c, "sending") /\ UNCHANGED mailVars
  /\ UNCHANGED <<slot, signals, queue, rxOpen, actorVars, mine, rollout, goalTurns, failures, restarts>>

\* deliver_inter_agent_message: only an idle target is sent a turn.
CheckBusy(c) ==
  /\ pc[c] = "checkBusy"
  /\ Goto(c, IF ActiveTurnId = NoTurn THEN "sending" ELSE "idle")
  /\ UNCHANGED <<slot, signals, queue, rxOpen, actorVars, mailVars, intent, mine, rollout, bounds>>

\* A variant in which the channel never closes.
AcquireOpen(c) ==
  /\ pc[c] = "sending"
  /\ rxOpen /\ HasRoom /\ Goto(c, "permit")
  /\ UNCHANGED <<slot, signals, queue, rxOpen, actorVars, mailVars, intent, mine, rollout, bounds>>

\* op_tx.reserve().await, explicit or inside op_tx.send(..).await.
Acquire(c) ==
  /\ pc[c] = "sending"
  /\ \/ rxOpen /\ HasRoom /\ Goto(c, "permit")
     \/ ~rxOpen /\ Goto(c, "idle")
  /\ UNCHANGED <<slot, signals, queue, rxOpen, actorVars, mailVars, intent, mine, rollout, bounds>>

\* send_user_input_parts after the permit: reserve the turn, then permit.send.
\* The permit outlives the receiver, so a late submission is still accepted.
SubmitTurn(c) ==
  /\ pc[c] = "permit" /\ intent[c] \in TurnCalls
  /\ \/ /\ active # NoTurn                                   \* ThreadBusy
        /\ Goto(c, "idle")
        /\ UNCHANGED <<slot, signals, queue>>
     \/ \E t \in Turns :
          /\ ReserveNext(t)
          /\ queue' = Append(queue, [op |-> "UserInput", turn |-> t, from |-> c])
          /\ Goto(c, "starting")
  /\ UNCHANGED <<rxOpen, actorVars, mailVars, intent, mine, rollout, bounds>>

\* compact_now after the permit: reserve_record without a public turn id.
SubmitCompaction(c) ==
  /\ pc[c] = "permit" /\ intent[c] = "Compact"
  /\ \/ /\ active # NoTurn
        /\ Goto(c, "idle")
        /\ UNCHANGED <<active, queue>>
     \/ /\ active = NoTurn
        /\ active' = Compaction
        /\ queue' = Append(queue, [op |-> "ManualCompaction", turn |-> Compaction, from |-> c])
        /\ Goto(c, "completing")
  /\ UNCHANGED <<nextTurn, signals, rxOpen, actorVars, mailVars, intent, mine, rollout, bounds>>

\* submit_and_wait_internal and enqueue_goal_runtime_effect, which does not wait.
SubmitPlain(c) ==
  /\ pc[c] = "permit" /\ intent[c] \in PlainCalls
  /\ queue' = Append(queue, [op |-> intent[c], turn |-> NoTurn,
                             from |-> IF intent[c] = "Effect" THEN Nobody ELSE c])
  /\ Goto(c, IF intent[c] = "Effect" THEN "idle" ELSE "completing")
  /\ UNCHANGED <<slot, signals, rxOpen, actorVars, mailVars, intent, mine, rollout, bounds>>

\* signal_interrupt copies the active record under one lock ...
InterruptRead(c) ==
  /\ pc[c] = "idle" /\ calls < MaxCalls /\ ActiveTurnId # NoTurn
  /\ calls' = calls + 1
  /\ intent' = [intent EXCEPT ![c] = "Interrupt"]
  /\ mine' = [mine EXCEPT ![c] = ActiveTurnId]
  /\ Goto(c, "signalling")
  /\ UNCHANGED <<slot, signals, queue, rxOpen, actorVars, mailVars, rollout, goalTurns, failures, restarts>>

\* ... takes the sender under another, and is refused if it is gone or unheard.
InterruptSend(c) ==
  /\ pc[c] = "signalling"
  /\ LET t == mine[c] IN
       \/ /\ itx[t] = "armed"
          /\ itx' = [itx EXCEPT ![t] = "fired"]
          /\ Goto(c, "signalled")
       \/ /\ itx[t] # "armed"
          /\ Goto(c, "idle")
          /\ UNCHANGED itx
  /\ UNCHANGED <<slot, notified, queue, rxOpen, actorVars, mailVars, intent, mine, rollout, bounds>>

\* record.interrupted.notified().await
InterruptReturn(c) ==
  /\ pc[c] = "signalled" /\ notified[mine[c]]
  /\ Goto(c, "idle")
  /\ UNCHANGED <<slot, signals, queue, rxOpen, actorVars, mailVars, intent, mine, rollout, bounds>>

-----------------------------------------------------------------------------
(* The actor: ThreadRuntimeLoop::run and the handlers it calls.            *)

Answer(c) == pc' = IF c = Nobody THEN pc ELSE [pc EXCEPT ![c] = "idle"]

\* A submission whose caller no longer waits.
Heard(s) == [op |-> s.op, turn |-> s.turn, from |-> Nobody]

TurnOps == {"UserInput", "GoalContinuation"}

Receive ==
  /\ stage = "recv" /\ queue # <<>>
  /\ current' = Head(queue) /\ queue' = Tail(queue)
  /\ stage' = IF Head(queue).op \in TurnOps THEN "start" ELSE Head(queue).op
  /\ check' = FALSE
  /\ UNCHANGED <<slot, signals, rxOpen, own, mailVars, callers, rollout, bounds>>

\* The handler returns: its interrupt receiver is dropped, the guard is still held.
HandlerReturns ==
  /\ stage' = "notify"
  /\ itx' = [itx EXCEPT ![current.turn] = "dead"]
  /\ UNCHANGED <<slot, queue, rxOpen, own, check, calls, goalTurns, restarts, intent, mine>>

Fails == failures < MaxFailures /\ failures' = failures + 1

Ends(kind) == ended' = [ended EXCEPT ![current.turn] = kind]

\* The input is invalid, or TurnStarted cannot be stored: the start is refused.
\* A refused continuation still tries to record a runtime error.
RefuseStart ==
  /\ stage = "start"
  /\ HandlerReturns /\ Fails
  /\ \/ UNCHANGED ended
     \/ current.op = "GoalContinuation" /\ Ends("failed")
  /\ Answer(current.from)
  /\ current' = Heard(current)
  /\ UNCHANGED <<notified, mailVars, starts, requests>>

\* TurnStarted is stored and the start is acknowledged.
StartTurn ==
  /\ stage = "start"
  /\ starts' = [starts EXCEPT ![current.turn] = @ + 1]
  /\ stage' = "before"
  /\ IF current.from # Nobody /\ intent[current.from] = "UserInputAndWait"
     THEN Goto(current.from, "completing") /\ UNCHANGED current
     ELSE Answer(current.from) /\ current' = Heard(current)
  /\ UNCHANGED <<slot, signals, queue, rxOpen, own, check, mailVars, intent, mine, ended, requests, bounds>>

\* Agent set-up and compaction before a user turn; the goal is checked again
\* and its context stored before a continuation.
PrepareTurn ==
  /\ stage = "before"
  /\ stage' = IF current.op = "UserInput" THEN "record" ELSE "running"
  /\ UNCHANGED <<slot, signals, queue, rxOpen, current, own, check, mailVars, callers, rollout, bounds>>

InboxDrained == trigger' = FALSE /\ skipped' = FALSE

\* record_user_turn_start drains the inbox and stores mail and user message; it is
\* not raced with the interrupt.
RecordInput ==
  /\ stage = "record"
  /\ stage' = "running"
  /\ InboxDrained
  /\ UNCHANGED <<slot, signals, queue, rxOpen, current, own, check, callers, rollout, bounds>>

\* run_session_turn drains the inbox at the head of each round ...
DrainInbox ==
  /\ stage = "running" /\ trigger
  /\ InboxDrained
  /\ UNCHANGED <<slot, signals, queue, rxOpen, actorVars, callers, rollout, bounds>>

\* A tool leaves a request in the overlay and in the rollout and does not wait for it.
AskUser ==
  /\ stage = "running" /\ ~(waiting /\ pending)
  /\ waiting' = TRUE /\ pending' = TRUE
  /\ UNCHANGED <<slot, signals, queue, rxOpen, actorVars, mailVars, callers, starts, ended, bounds>>

\* ... and returns once the model asks for no tool and the inbox is empty.
SampleDone ==
  /\ stage = "running" /\ ~trigger
  /\ stage' = "finishing"
  /\ UNCHANGED <<slot, signals, queue, rxOpen, current, own, check, mailVars, callers, rollout, bounds>>

\* An error before the end of sampling is recorded as the turn's end, if the storage
\* takes the record; record_user_turn_start may have drained the inbox by then, and a
\* request that cannot be stored stays in the overlay.
FailTurn ==
  /\ stage \in {"before", "record", "running"}
  /\ HandlerReturns /\ Fails
  /\ Ends("failed") \/ UNCHANGED ended
  /\ UNCHANGED mailVars \/ (stage = "record" /\ InboxDrained)
  /\ UNCHANGED waiting \/ (stage = "running" /\ waiting' = TRUE)
  /\ UNCHANGED <<notified, current, pc, starts, pending>>

\* A variant that records the interrupt and wakes nobody.
InterruptSilently ==
  /\ \/ stage = "before" /\ current.op = "UserInput"
     \/ stage = "running"
  /\ itx[current.turn] = "fired"
  /\ HandlerReturns /\ Ends("interrupted")
  /\ pending' = FALSE
  /\ UNCHANGED <<notified, current, mailVars, pc, starts, waiting, failures>>

\* tokio::select! takes the interrupt; record_turn_interrupted stores it and wakes its
\* caller, or fails to store it and wakes nobody.  The overlay keeps what the turn asked,
\* which the rollout does not show any more.
InterruptTurn ==
  /\ \/ stage = "before" /\ current.op = "UserInput"
     \/ stage = "running"
  /\ itx[current.turn] = "fired"
  /\ HandlerReturns
  /\ \/ /\ Ends("interrupted")
        /\ notified' = [notified EXCEPT ![current.turn] = TRUE]
        /\ pending' = FALSE
        /\ UNCHANGED failures
     \/ /\ Fails
        /\ \/ UNCHANGED ended
           \/ current.op = "GoalContinuation" /\ Ends("failed")
        /\ UNCHANGED <<notified, pending>>
  /\ UNCHANGED <<current, mailVars, pc, starts, waiting>>

\* Goal accounting, then TurnCompleted. If either fails, a user turn ends with no
\* terminal event and a continuation tries to record a runtime error.
FinishTurn ==
  /\ stage = "finishing"
  /\ HandlerReturns
  /\ \/ Ends("completed")
     \/ UNCHANGED ended
     \/ current.op = "GoalContinuation" /\ Ends("failed")
  /\ UNCHANGED <<notified, current, mailVars, pc, starts, requests, failures>>

\* A variant that does not look for mail after a turn.
ReleaseTurnOnly ==
  /\ stage = "notify"
  /\ DropGuard(current) /\ Answer(current.from)
  /\ current' = NoSubmission
  /\ stage' = "goal" /\ check' = TRUE
  /\ UNCHANGED <<nextTurn, signals, queue, rxOpen, own, mailVars, intent, mine, rollout, bounds>>

\* The parent is told, the guard dropped, the caller answered.
ReleaseTurn ==
  /\ stage = "notify"
  /\ DropGuard(current) /\ Answer(current.from)
  /\ current' = NoSubmission
  /\ stage' = "mail" /\ check' = TRUE
  /\ UNCHANGED <<nextTurn, signals, queue, rxOpen, own, mailVars, intent, mine, rollout, bounds>>

\* A handler that is no turn returns: its guard is dropped, its caller answered.
OperationDone ==
  /\ DropGuard(current) /\ Answer(current.from)
  /\ current' = NoSubmission
  /\ stage' = "mail"
  /\ UNCHANGED <<nextTurn, signals, queue, rxOpen, own, mailVars, intent, mine, starts, bounds>>

\* Manual compaction or a goal effect ends; only the effect chooses whether the goal is
\* checked afterwards.
FinishOther ==
  /\ stage \in {"ManualCompaction", "Effect"}
  /\ OperationDone
  /\ check' \in IF stage = "Effect" THEN BOOLEAN ELSE {FALSE}
  /\ UNCHANGED <<ended, requests>>

\* A control operation finds no request to work on; or an approval decision, an answer to
\* a question works on one and it leaves the overlay, the rollout, both or neither.
Decide ==
  /\ stage = "Control"
  /\ OperationDone
  /\ check' = FALSE
  /\ \/ UNCHANGED requests
     \/ waiting /\ waiting' \in {TRUE, FALSE} /\ pending' \in {pending, FALSE}
  /\ UNCHANGED ended

Recorded == {t \in Turns : starts[t] > 0 \/ ended[t] # "none"}

\* handle_interrupt: the requests leave the overlay, then TurnInterrupted is stored for the
\* turn of the latest live event (a recorded turn, not always the last one: what an open
\* exec session prints is recorded under the turn that opened it), also when that turn
\* has ended; or it cannot be stored.  "abandoned" marks an end recorded in this way.
InterruptWait ==
  /\ stage = "Control" /\ waiting
  /\ OperationDone
  /\ check' = FALSE
  /\ waiting' = FALSE
  /\ \/ /\ \E t \in Recorded : ended' = [ended EXCEPT ![t] = "abandoned"]
        /\ pending' = FALSE
     \/ UNCHANGED <<ended, pending>>

AfterMail == IF check THEN "goal" ELSE "recv"

\* A variant that leaves the mail to the next operation.
SkipMail ==
  /\ stage = "mail"
  /\ stage' = AfterMail
  /\ UNCHANGED <<slot, signals, queue, rxOpen, current, own, check, mailVars, callers, rollout, bounds>>

\* maybe_start_turn_for_pending_mail up to the gate, which a restore may refuse.
CheckMail ==
  /\ stage = "mail"
  /\ IF queue # <<>> \/ ActiveTurnId # NoTurn \/ ~trigger
     THEN stage' = AfterMail /\ UNCHANGED skipped
     ELSE \/ stage' = "mailReserve" /\ UNCHANGED skipped
          \/ GateMayRefuse /\ stage' = AfterMail /\ skipped' = TRUE
  /\ UNCHANGED <<slot, signals, queue, rxOpen, current, own, check, trigger, callers, rollout, bounds>>

\* Its reservation, which a caller may have won since the check.
ReserveMailTurn ==
  /\ stage = "mailReserve"
  /\ \/ /\ active # NoTurn
        /\ stage' = AfterMail
        /\ UNCHANGED <<slot, signals, own>>
     \/ \E t \in Turns :
          /\ ReserveNext(t)
          /\ own' = [op |-> "UserInput", turn |-> t, from |-> Nobody]
          /\ stage' = "mailSend"
  /\ UNCHANGED <<queue, rxOpen, current, check, mailVars, callers, rollout, bounds>>

\* maybe_enqueue_goal_continuation: give up, or find a goal to continue.
CheckGoal ==
  /\ stage = "goal"
  /\ \/ stage' = "recv"
     \/ /\ queue = <<>> /\ ActiveTurnId = NoTurn
        /\ goalTurns < MaxGoalTurns
        /\ stage' = "goalReserve"
  /\ UNCHANGED <<slot, signals, queue, rxOpen, current, own, check, mailVars, callers, rollout, bounds>>

ReserveGoalTurn ==
  /\ stage = "goalReserve"
  /\ \/ /\ active # NoTurn
        /\ stage' = "recv"
        /\ UNCHANGED <<slot, signals, own, goalTurns>>
     \/ \E t \in Turns :
          /\ ReserveNext(t)
          /\ own' = [op |-> "GoalContinuation", turn |-> t, from |-> Nobody]
          /\ goalTurns' = goalTurns + 1
          /\ stage' = "goalSend"
  /\ UNCHANGED <<queue, rxOpen, current, check, mailVars, callers, rollout, calls, failures, restarts>>

\* The actor waits for room on the channel that only it empties.
SendOwn ==
  /\ stage \in {"mailSend", "goalSend"} /\ HasRoom
  /\ queue' = Append(queue, own)
  /\ own' = NoSubmission
  /\ stage' = IF stage = "mailSend" THEN AfterMail ELSE "recv"
  /\ UNCHANGED <<slot, signals, rxOpen, current, check, mailVars, callers, rollout, bounds>>

\* Shutdown is acknowledged ...
Shutdown ==
  /\ stage = "Shutdown"
  /\ Answer(current.from)
  /\ current' = NoSubmission
  /\ stage' = "exiting"
  /\ UNCHANGED <<slot, signals, queue, rxOpen, own, check, mailVars, intent, mine, rollout, bounds>>

Queued == {queue[i] : i \in DOMAIN queue}

\* ... then the loop's state is dropped: receiver, queued submissions, their guards.
Exit ==
  /\ stage = "exiting"
  /\ stage' = "stopped" /\ rxOpen' = FALSE /\ queue' = <<>>
  /\ active' = IF \E s \in Queued : s.turn # NoTurn THEN NoTurn ELSE active
  /\ itx' = [t \in Turns |-> IF \E s \in Queued : s.turn = t THEN "dead" ELSE itx[t]]
  /\ pc' = [c \in Callers |-> IF \E s \in Queued : s.from = c THEN "idle" ELSE pc[c]]
  /\ UNCHANGED <<nextTurn, notified, current, own, check, mailVars, intent, mine, rollout, bounds>>

-----------------------------------------------------------------------------
(* A new process: ThreadSession::new over the rollout, an empty channel.   *)

\* A variant that hands the last recorded id out again.
LastSeed(last) == IF last = 0 THEN 1 ELSE last

\* next_turn_index_from_rollout_items, given the last turn the rollout knows.
NextSeed(last) == last + 1

\* The next turn index is seeded from the rollout, the overlay is made from it, and an
\* unfinished last turn is marked failed, unless the thread waits for an approval or an
\* answer.
Restart ==
  /\ restarts < MaxRestarts
  /\ restarts' = restarts + 1
  /\ \E last \in 0 .. MaxTurn :
       /\ \A t \in Recorded : t <= last
       /\ last = 0 \/ last \in Recorded
       /\ nextTurn' = NextSeed(last)
       /\ ended' \in {ended} \cup {[ended EXCEPT ![t] = "failed"] :
                        t \in {u \in Turns : /\ u = last /\ ~pending
                                            /\ starts[u] > 0 /\ ended[u] = "none"}}
  /\ waiting' = pending
  /\ active' = NoTurn
  /\ itx' = [t \in Turns |-> "unused"] /\ notified' = [t \in Turns |-> FALSE]
  /\ queue' = <<>> /\ rxOpen' = TRUE
  /\ stage' = "recv" /\ current' = NoSubmission /\ own' = NoSubmission /\ check' = FALSE
  /\ trigger' = FALSE /\ skipped' = FALSE
  /\ pc' = [c \in Callers |-> "idle"]
  /\ UNCHANGED <<intent, mine, starts, pending, calls, goalTurns, failures>>

CallerStep(c) ==
  \/ CheckBusy(c) \/ Acquire(c) \/ SubmitTurn(c) \/ SubmitCompaction(c)
  \/ SubmitPlain(c) \/ InterruptSend(c) \/ InterruptReturn(c)

ActorStep ==
  \/ Receive \/ RefuseStart \/ StartTurn \/ PrepareTurn \/ RecordInput
  \/ DrainInbox \/ AskUser \/ SampleDone \/ FailTurn \/ InterruptTurn \/ FinishTurn
  \/ ReleaseTurn \/ FinishOther \/ Decide \/ InterruptWait \/ CheckMail \/ ReserveMailTurn \/ CheckGoal
  \/ ReserveGoalTurn \/ SendOwn \/ Shutdown \/ Exit

Next ==
  \/ \E c \in Callers : Call(c) \/ InterruptRead(c) \/ CallerStep(c)
  \/ ActorStep
  \/ Restart

Spec == Init /\ [][Next]_vars

\* The runtime polls every ready task; a call, an interrupt, a restart may never come.
Fairness == WF_vars(ActorStep) /\ \A c \in Callers : WF_vars(CallerStep(c))
FairSpec == Spec /\ Fairness

-----------------------------------------------------------------------------
(* Properties.                                                             *)

Stages == {"recv", "start", "before", "record", "running", "finishing", "notify",
           "ManualCompaction", "Control", "Effect", "mail", "mailReserve", "mailSend",
           "goal", "goalReserve", "goalSend", "Shutdown", "exiting", "stopped"}
CallerStates == {"idle", "checkBusy", "sending", "permit", "starting", "completing",
                 "signalling", "signalled"}
SignalStates == {"unused", "armed", "fired", "dead"}
Outcomes == {"none", "completed", "interrupted", "failed", "abandoned"}

\* Types of the state of the actor, its callers and the rollout.
TypeOK ==
  /\ nextTurn \in 1 .. MaxTurn + 1
  /\ active \in {NoTurn, Compaction} \cup Turns
  /\ itx \in [Turns -> SignalStates]
  /\ notified \in [Turns -> BOOLEAN]
  /\ queue \in Seq(Submissions) /\ rxOpen \in BOOLEAN
  /\ stage \in Stages
  /\ current \in Submissions \cup {NoSubmission}
  /\ own \in Submissions \cup {NoSubmission} /\ check \in BOOLEAN
  /\ trigger \in BOOLEAN /\ skipped \in BOOLEAN
  /\ pc \in [Callers -> CallerStates]
  /\ intent \in [Callers -> Calls]
  /\ mine \in [Callers -> {NoTurn} \cup Turns]
  /\ starts \in [Turns -> Nat]
  /\ ended \in [Turns -> Outcomes]
  /\ waiting \in BOOLEAN /\ pending \in BOOLEAN
  /\ calls \in Nat /\ goalTurns \in Nat /\ failures \in Nat /\ restarts \in Nat

\* The guards in the channel, in the actor's hands and in its unsent submission:
\* where each one is, and the turn it would free.
Holders ==
  {<<"queue", i, queue[i].turn>> : i \in {j \in DOMAIN queue : queue[j].turn # NoTurn}}
    \cup (IF current.turn # NoTurn THEN {<<"current", 0, current.turn>>} ELSE {})
    \cup (IF own.turn # NoTurn THEN {<<"own", 0, own.turn>>} ELSE {})

\* The slot is taken exactly while one submission, wherever it is, carries its guard:
\* a guard's drop, which clears the slot blindly, never frees another's reservation,
\* and a reservation is never leaked.
SlotHasOneHolder ==
  /\ active = NoTurn <=> Holders = {}
  /\ \A h \in Holders : h[3] = active
  /\ \A g, h \in Holders : g = h

\* A caller that waits for the start or the end of its operation has its submission
\* in the channel or in the actor, so that answering or dropping it wakes the caller.
WaiterHasSubmission ==
  \A c \in Callers : pc[c] \in {"starting", "completing"} =>
    Cardinality({i \in DOMAIN queue : queue[i].from = c})
      + (IF current.from = c THEN 1 ELSE 0) = 1

\* Mail that asks for a turn is never left behind by an actor about to sleep: its
\* sender is still delivering, an operation is queued, or the gate refused the turn.
NoStrandedMail ==
  trigger /\ ~skipped /\ stage = "recv" /\ queue = <<>> =>
    \E c \in Callers : intent[c] = "DeliverMail" /\ pc[c] \in {"checkBusy", "sending", "permit"}

\* An interrupted caller is woken or its turn is still there to be interrupted, or
\* the turn slipped past its last interruptible point.
InterruptReachesTurn ==
  \A c \in Callers : pc[c] = "signalled" =>
    LET t == mine[c] IN
      \/ notified[t]
      \/ itx[t] = "fired" /\ active = t
      \/ itx[t] = "dead" /\ ended[t] # "interrupted"

\* A turn id is started at most once, restarts included; a turn that ended is never
\* started again, and its end is replaced only by the interrupt of a thread that waits
\* for an approval or an answer, which takes the requests with it.
EndedTurnIsFinal ==
  [][\A t \in Turns :
       /\ starts'[t] <= 1
       /\ ended[t] # "none" =>
            /\ starts'[t] = starts[t]
            /\ \/ ended'[t] = ended[t]
               \/ ended'[t] = "abandoned" /\ waiting /\ ~waiting' /\ ~pending']_vars

\* The runtime implements the life of its turns: whatever the interleaving, a turn is
\* started and ended in the rollout only while it owns the slot, and only forward; all
\* that can follow is the interrupt of a thread that waits.
Record(t) == IF ended[t] # "none" THEN ended[t]
             ELSE IF starts[t] > 0 THEN "started" ELSE "none"
Lifecycle == INSTANCE TurnLifecycle WITH next <- nextTurn, owner <- active,
                                         record <- [t \in Turns |-> Record(t)],
                                         waits <- waiting \/ pending
LifecycleSpec == Lifecycle!Spec

\* boundary-v2: "the runtime sends an interrupt to the running turn and records
\* turn_interrupted": an interrupt that was accepted ends the turn as interrupted.
AcceptedInterruptIsRecorded ==
  [][\A t \in Turns : itx[t] = "fired" /\ ended[t] = "none" /\ restarts' = restarts
       => ended'[t] \in {"none", "interrupted"}]_vars

\* A caller that submitted to a live actor is answered; one whose permit outlived the
\* receiver is not.
LateSubmission(c) == ~rxOpen /\ pc[c] \in {"starting", "completing"}
CallsAreAnswered ==
  \A c \in Callers : pc[c] \in {"sending", "permit", "starting", "completing"}
    ~> pc[c] = "idle" \/ LateSubmission(c)

\* Mail that asks for a turn is eventually drained, unless the runtime stops or a
\* restore held the gate.
MailIsDrained == trigger ~> ~trigger \/ skipped \/ stage = "stopped"
=============================================================================
