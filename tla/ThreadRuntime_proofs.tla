----------------------- MODULE ThreadRuntime_proofs -----------------------
(***************************************************************************)
(* Theorems about ThreadRuntime, for every number of callers and every     *)
(* value of the capacity and of the bounds.                                *)
(***************************************************************************)
EXTENDS ThreadRuntime, TLAPS

(* What the parts of the actions produce. *)

\* A submission built from its parts is a submission.
LEMMA SubmissionType ==
  ASSUME NEW o \in Ops, NEW t \in {NoTurn, Compaction} \cup Turns, NEW f \in Callers \cup {Nobody}
  PROVE  [op |-> o, turn |-> t, from |-> f] \in Submissions
BY DEF Submissions

\* A submission whose caller was answered is a submission; so is none.
LEMMA HeardType ==
  ASSUME NEW s \in Submissions \cup {NoSubmission}
  PROVE  Heard(s) \in Submissions \cup {NoSubmission}
BY DEF Heard, Submissions, NoSubmission

\* Reserving a turn keeps the slot and the signals in their types.
LEMMA ReserveNextType ==
  ASSUME TypeOK, NEW t \in Turns, ReserveNext(t)
  PROVE  /\ nextTurn' \in 1 .. MaxTurn + 1
         /\ active' \in {NoTurn, Compaction} \cup Turns
         /\ itx' \in [Turns -> SignalStates]
         /\ notified' \in [Turns -> BOOLEAN]
BY MaxTurnAssumption DEF TypeOK, ReserveNext, Turns, SignalStates

\* Answering a caller keeps the program counters in their type.
LEMMA AnswerType ==
  ASSUME TypeOK, NEW c, Answer(c)
  PROVE  pc' \in [Callers -> CallerStates]
BY DEF TypeOK, Answer, CallerStates

\* So does moving a caller.
LEMMA GotoType ==
  ASSUME TypeOK, NEW c, NEW where \in CallerStates, Goto(c, where)
  PROVE  pc' \in [Callers -> CallerStates]
BY DEF TypeOK, Goto

\* A handler that returns keeps what it changes in its type.
LEMMA HandlerReturnsType ==
  ASSUME TypeOK, HandlerReturns
  PROVE  itx' \in [Turns -> SignalStates]
BY DEF TypeOK, HandlerReturns, SignalStates

\* So does the record of a turn's end.
LEMMA EndsType ==
  ASSUME TypeOK, NEW kind \in Outcomes, Ends(kind)
  PROVE  ended' \in [Turns -> Outcomes]
BY DEF TypeOK, Ends

\* Every step of a caller keeps the types.
LEMMA CallerType ==
  ASSUME TypeOK, NEW c \in Callers, Call(c) \/ InterruptRead(c) \/ CallerStep(c)
  PROVE  TypeOK'
<1> USE DEF CallerStates
<1>1. CASE Call(c)
  <2>1. pc' \in [Callers -> CallerStates]
    BY <1>1, GotoType DEF Call
  <2>2. intent' \in [Callers -> Calls] /\ trigger' \in BOOLEAN /\ skipped' \in BOOLEAN
    BY <1>1 DEF TypeOK, Call, mailVars
  <2>3. QED
    BY <1>1, <2>1, <2>2 DEF TypeOK, Call, slot, signals, actorVars, rollout, requests
<1>2. CASE InterruptRead(c)
  <2>1. intent' \in [Callers -> Calls] /\ mine' \in [Callers -> {NoTurn} \cup Turns]
    BY <1>2 DEF TypeOK, InterruptRead, ActiveTurnId, Calls
  <2>2. QED
    BY <1>2, <2>1, GotoType DEF TypeOK, InterruptRead, slot, signals, actorVars, mailVars, rollout, requests
<1>3. CASE CheckBusy(c)
  <2>1. pc' \in [Callers -> CallerStates]
    BY <1>3, GotoType DEF CheckBusy
  <2>2. QED
    BY <1>3, <2>1 DEF TypeOK, CheckBusy, slot, signals, actorVars, mailVars, rollout, requests, bounds
<1>4. CASE Acquire(c)
  <2>1. pc' \in [Callers -> CallerStates]
    BY <1>4, GotoType DEF Acquire
  <2>2. QED
    BY <1>4, <2>1 DEF TypeOK, Acquire, slot, signals, actorVars, mailVars, rollout, requests, bounds
<1>5. CASE SubmitTurn(c)
  <2>1. pc' \in [Callers -> CallerStates]
    BY <1>5, GotoType DEF SubmitTurn
  <2>2. CASE UNCHANGED <<slot, signals, queue>>
    BY <1>5, <2>1, <2>2
    DEF TypeOK, SubmitTurn, slot, signals, actorVars, mailVars, rollout, requests, bounds
  <2>3. ASSUME NEW t \in Turns, ReserveNext(t),
               queue' = Append(queue, [op |-> "UserInput", turn |-> t, from |-> c])
        PROVE  TypeOK'
    <3>1. queue' \in Seq(Submissions)
      BY <2>3, SubmissionType DEF TypeOK, Ops
    <3>2. QED
      BY <1>5, <2>1, <2>3, <3>1, ReserveNextType
      DEF TypeOK, SubmitTurn, actorVars, mailVars, rollout, requests, bounds
  <2>4. QED
    BY <1>5, <2>2, <2>3 DEF SubmitTurn
<1>6. CASE SubmitCompaction(c)
  <2>1. queue' \in Seq(Submissions)
    <3>1. [op |-> "ManualCompaction", turn |-> Compaction, from |-> c] \in Submissions
      BY SubmissionType DEF Ops
    <3>2. CASE active # NoTurn
      <4>1. queue' = queue
        BY <1>6, <3>2 DEF SubmitCompaction
      <4>2. QED
        BY <4>1 DEF TypeOK
    <3>3. CASE active = NoTurn
      <4>1. queue' = Append(queue, [op |-> "ManualCompaction", turn |-> Compaction, from |-> c])
        BY <1>6, <3>3 DEF SubmitCompaction
      <4>2. QED
        BY <3>1, <4>1 DEF TypeOK
    <3>4. QED
      BY <3>2, <3>3
  <2>2. pc' \in [Callers -> CallerStates] /\ active' \in {NoTurn, Compaction} \cup Turns
    BY <1>6, GotoType DEF TypeOK, SubmitCompaction
  <2>3. QED
    BY <1>6, <2>1, <2>2 DEF TypeOK, SubmitCompaction, signals, actorVars, mailVars, rollout, requests, bounds
<1>7. CASE SubmitPlain(c)
  <2>1. queue' \in Seq(Submissions)
    <3> DEFINE s == [op |-> intent[c], turn |-> NoTurn,
                     from |-> IF intent[c] = "Effect" THEN Nobody ELSE c]
    <3>1. s \in Submissions
      BY <1>7, SubmissionType DEF SubmitPlain, PlainCalls, Ops
    <3>2. QED
      BY <1>7, <3>1 DEF TypeOK, SubmitPlain
  <2>2. pc' \in [Callers -> CallerStates]
    BY <1>7, GotoType DEF SubmitPlain
  <2>3. QED
    BY <1>7, <2>1, <2>2
    DEF TypeOK, SubmitPlain, slot, signals, actorVars, mailVars, rollout, requests, bounds
<1>8. CASE InterruptSend(c)
  <2>1. pc' \in [Callers -> CallerStates] /\ itx' \in [Turns -> SignalStates]
    <3>1. pc' \in [Callers -> CallerStates]
      BY <1>8, GotoType DEF InterruptSend
    <3>2. itx' \in [Turns -> SignalStates]
      BY <1>8 DEF TypeOK, InterruptSend, SignalStates
    <3>3. QED
      BY <3>1, <3>2
  <2>2. QED
    BY <1>8, <2>1 DEF TypeOK, InterruptSend, slot, actorVars, mailVars, rollout, requests, bounds
<1>9. CASE InterruptReturn(c)
  <2>1. pc' \in [Callers -> CallerStates]
    BY <1>9, GotoType DEF InterruptReturn
  <2>2. QED
    BY <1>9, <2>1 DEF TypeOK, InterruptReturn, slot, signals, actorVars, mailVars, rollout, requests, bounds
<1>10. QED
  BY <1>1, <1>2, <1>3, <1>4, <1>5, <1>6, <1>7, <1>8, <1>9 DEF CallerStep

\* The actor sends a submission only when it holds one.
OwnHeld == stage \in {"mailSend", "goalSend"} => own \in Submissions

\* So does the end of a handler that is no turn, in all that it changes.
LEMMA DoneType ==
  ASSUME TypeOK, OperationDone
  PROVE  /\ nextTurn' \in 1 .. MaxTurn + 1 /\ active' \in {NoTurn, Compaction} \cup Turns
         /\ itx' \in [Turns -> SignalStates] /\ notified' \in [Turns -> BOOLEAN]
         /\ queue' \in Seq(Submissions) /\ rxOpen' \in BOOLEAN
         /\ stage' \in Stages
         /\ current' \in Submissions \cup {NoSubmission}
         /\ own' \in Submissions \cup {NoSubmission}
         /\ trigger' \in BOOLEAN /\ skipped' \in BOOLEAN
         /\ pc' \in [Callers -> CallerStates]
         /\ intent' \in [Callers -> Calls]
         /\ mine' \in [Callers -> {NoTurn} \cup Turns]
         /\ starts' \in [Turns -> Nat]
         /\ calls' \in Nat /\ goalTurns' \in Nat /\ failures' \in Nat /\ restarts' \in Nat
<1>1. pc' \in [Callers -> CallerStates]
  BY AnswerType DEF OperationDone
<1>2. active' \in {NoTurn, Compaction} \cup Turns /\ stage' \in Stages
  BY DEF TypeOK, OperationDone, DropGuard, Stages
<1>3. QED
  BY <1>1, <1>2 DEF TypeOK, OperationDone, signals, mailVars, bounds

\* Every step of the actor keeps the types.
LEMMA ActorType ==
  ASSUME TypeOK, OwnHeld, ActorStep
  PROVE  TypeOK'
<1> USE DEF Stages
<1>1. CASE Receive
  <2>1. current' \in Submissions /\ queue' \in Seq(Submissions)
    BY <1>1 DEF TypeOK, Receive
  <2>2. stage' \in Stages
    BY <1>1, <2>1 DEF Receive, TurnOps, Submissions, Ops
  <2>3. QED
    BY <1>1, <2>1, <2>2 DEF TypeOK, Receive, slot, signals, mailVars, callers, rollout, requests, bounds
<1>2. CASE RefuseStart
  <2>1. pc' \in [Callers -> CallerStates] /\ current' \in Submissions \cup {NoSubmission}
    BY <1>2, AnswerType, HeardType DEF TypeOK, RefuseStart
  <2>2. ended' \in [Turns -> Outcomes]
    BY <1>2, EndsType DEF TypeOK, RefuseStart, Outcomes
  <2>3. itx' \in [Turns -> SignalStates] /\ failures' \in Nat
    BY <1>2, HandlerReturnsType DEF TypeOK, RefuseStart, Fails
  <2>4. QED
    BY <1>2, <2>1, <2>2, <2>3 DEF TypeOK, RefuseStart, HandlerReturns, slot, mailVars, requests
<1>3. CASE StartTurn
  <2>1. current' \in Submissions \cup {NoSubmission}
    BY <1>3, HeardType DEF TypeOK, StartTurn
  <2>2. pc' \in [Callers -> CallerStates]
    BY <1>3, AnswerType, GotoType DEF StartTurn, CallerStates
  <2>3. starts' \in [Turns -> Nat]
    <3>1. starts' = [starts EXCEPT ![current.turn] = starts[current.turn] + 1]
      BY <1>3 DEF StartTurn
    <3>2. ASSUME NEW t \in Turns PROVE starts'[t] \in Nat
      BY <3>1 DEF TypeOK
    <3>3. QED
      BY <3>1, <3>2 DEF TypeOK
  <2>4. QED
    BY <1>3, <2>1, <2>2, <2>3 DEF TypeOK, StartTurn, slot, signals, mailVars, requests, bounds
<1>4. CASE PrepareTurn
  BY <1>4 DEF TypeOK, PrepareTurn, slot, signals, mailVars, callers, rollout, requests, bounds
<1>5. CASE RecordInput
  BY <1>5 DEF TypeOK, RecordInput, InboxDrained, slot, signals, callers, rollout, requests, bounds
<1>6. CASE DrainInbox
  BY <1>6 DEF TypeOK, DrainInbox, InboxDrained, slot, signals, actorVars, callers, rollout, requests, bounds
<1>7. CASE SampleDone
  BY <1>7 DEF TypeOK, SampleDone, slot, signals, mailVars, callers, rollout, requests, bounds
<1>8. CASE FailTurn
  <2>1. itx' \in [Turns -> SignalStates] /\ failures' \in Nat
    BY <1>8, HandlerReturnsType DEF TypeOK, FailTurn, Fails
  <2>2. ended' \in [Turns -> Outcomes]
    BY <1>8, EndsType DEF TypeOK, FailTurn, Outcomes
  <2>3. trigger' \in BOOLEAN /\ skipped' \in BOOLEAN /\ waiting' \in BOOLEAN
    BY <1>8 DEF TypeOK, FailTurn, InboxDrained, mailVars
  <2>4. QED
    BY <1>8, <2>1, <2>2, <2>3 DEF TypeOK, FailTurn, HandlerReturns, slot
<1>9. CASE InterruptTurn
  <2>1. notified' \in [Turns -> BOOLEAN] /\ itx' \in [Turns -> SignalStates]
    BY <1>9, HandlerReturnsType DEF TypeOK, InterruptTurn
  <2>5. pending' \in BOOLEAN
    BY <1>9 DEF TypeOK, InterruptTurn
  <2>2. ended' \in [Turns -> Outcomes]
    BY <1>9, EndsType DEF TypeOK, InterruptTurn, Outcomes
  <2>3. failures' \in Nat
    BY <1>9 DEF TypeOK, InterruptTurn, Fails
  <2>4. QED
    BY <1>9, <2>1, <2>2, <2>3, <2>5 DEF TypeOK, InterruptTurn, HandlerReturns, slot, mailVars
<1>10. CASE FinishTurn
  <2>1. itx' \in [Turns -> SignalStates] /\ ended' \in [Turns -> Outcomes]
    BY <1>10, HandlerReturnsType, EndsType DEF TypeOK, FinishTurn, Outcomes
  <2>2. QED
    BY <1>10, <2>1 DEF TypeOK, FinishTurn, HandlerReturns, slot, mailVars, requests
<1>11. CASE ReleaseTurn
  <2>1. pc' \in [Callers -> CallerStates] /\ active' \in {NoTurn, Compaction} \cup Turns
    BY <1>11, AnswerType DEF TypeOK, ReleaseTurn, DropGuard
  <2>2. QED
    BY <1>11, <2>1 DEF TypeOK, ReleaseTurn, signals, mailVars, rollout, requests, bounds
<1>12. CASE FinishOther
  BY <1>12, DoneType DEF TypeOK, FinishOther, requests
<1>20. CASE Decide
  BY <1>20, DoneType DEF TypeOK, Decide, requests
<1>21. CASE InterruptWait
  <2>1. ended' \in [Turns -> Outcomes]
    BY <1>21 DEF TypeOK, InterruptWait, Outcomes
  <2>2. waiting' \in BOOLEAN /\ pending' \in BOOLEAN /\ check' \in BOOLEAN
    BY <1>21 DEF TypeOK, InterruptWait
  <2>3. QED
    BY <1>21, <2>1, <2>2, DoneType DEF TypeOK, InterruptWait
<1>22. CASE AskUser
  BY <1>22 DEF TypeOK, AskUser, slot, signals, actorVars, mailVars, callers, bounds
<1>13. CASE CheckMail
  <2>1. stage' \in Stages /\ skipped' \in BOOLEAN
    BY <1>13 DEF TypeOK, CheckMail, AfterMail
  <2>2. QED
    BY <1>13, <2>1 DEF TypeOK, CheckMail, slot, signals, callers, rollout, requests, bounds
<1>14. CASE ReserveMailTurn
  <2>1. CASE UNCHANGED <<slot, signals, own>> /\ stage' = AfterMail
    BY <1>14, <2>1
    DEF TypeOK, ReserveMailTurn, AfterMail, slot, signals, mailVars, callers, rollout, requests, bounds
  <2>2. ASSUME NEW t \in Turns, ReserveNext(t), stage' = "mailSend",
               own' = [op |-> "UserInput", turn |-> t, from |-> Nobody]
        PROVE  TypeOK'
    <3>1. own' \in Submissions
      BY <2>2, SubmissionType DEF Ops
    <3>2. QED
      BY <1>14, <2>2, <3>1, ReserveNextType
      DEF TypeOK, ReserveMailTurn, mailVars, callers, rollout, requests, bounds
  <2>3. QED
    BY <1>14, <2>1, <2>2 DEF ReserveMailTurn
<1>15. CASE CheckGoal
  BY <1>15 DEF TypeOK, CheckGoal, slot, signals, mailVars, callers, rollout, requests, bounds
<1>16. CASE ReserveGoalTurn
  <2>1. CASE UNCHANGED <<slot, signals, own, goalTurns>> /\ stage' = "recv"
    BY <1>16, <2>1 DEF TypeOK, ReserveGoalTurn, slot, signals, mailVars, callers, rollout, requests
  <2>2. ASSUME NEW t \in Turns, ReserveNext(t), stage' = "goalSend", goalTurns' = goalTurns + 1,
               own' = [op |-> "GoalContinuation", turn |-> t, from |-> Nobody]
        PROVE  TypeOK'
    <3>1. own' \in Submissions
      BY <2>2, SubmissionType DEF Ops
    <3>2. QED
      BY <1>16, <2>2, <3>1, ReserveNextType
      DEF TypeOK, ReserveGoalTurn, mailVars, callers, rollout, requests
  <2>3. QED
    BY <1>16, <2>1, <2>2 DEF ReserveGoalTurn
<1>17. CASE SendOwn
  <2>1. stage' \in Stages
    BY <1>17 DEF SendOwn, AfterMail
  <2>2. queue' \in Seq(Submissions)
    BY <1>17 DEF TypeOK, OwnHeld, SendOwn
  <2>3. QED
    BY <1>17, <2>1, <2>2 DEF TypeOK, SendOwn, slot, signals, mailVars, callers, rollout, requests, bounds
<1>18. CASE Shutdown
  <2>1. pc' \in [Callers -> CallerStates]
    BY <1>18, AnswerType DEF Shutdown
  <2>2. QED
    BY <1>18, <2>1 DEF TypeOK, Shutdown, slot, signals, mailVars, rollout, requests, bounds
<1>19. CASE Exit
  <2>1. itx' \in [Turns -> SignalStates]
    BY <1>19 DEF TypeOK, Exit, SignalStates
  <2>2. pc' \in [Callers -> CallerStates]
    BY <1>19 DEF TypeOK, Exit, CallerStates
  <2>3. queue' \in Seq(Submissions) /\ active' \in {NoTurn, Compaction} \cup Turns
    BY <1>19 DEF TypeOK, Exit
  <2>4. QED
    BY <1>19, <2>1, <2>2, <2>3 DEF TypeOK, Exit, mailVars, rollout, requests, bounds
<1>23. QED
  BY <1>1, <1>2, <1>3, <1>4, <1>5, <1>6, <1>7, <1>8, <1>9, <1>10, <1>11, <1>12, <1>13,
     <1>14, <1>15, <1>16, <1>17, <1>18, <1>19, <1>20, <1>21, <1>22
  DEF ActorStep

\* So does a restart of the process.
LEMMA RestartType == TypeOK /\ Restart => TypeOK'
<1> SUFFICES ASSUME TypeOK, Restart PROVE TypeOK'
  OBVIOUS
<1>1. nextTurn' \in 1 .. MaxTurn + 1 /\ active' \in {NoTurn, Compaction} \cup Turns
  BY MaxTurnAssumption DEF TypeOK, Restart, NextSeed
<1>2. ended' \in [Turns -> Outcomes]
  BY DEF TypeOK, Restart, Outcomes
<1>3. /\ itx' \in [Turns -> SignalStates] /\ notified' \in [Turns -> BOOLEAN]
      /\ pc' \in [Callers -> CallerStates]
  BY DEF Restart, SignalStates, CallerStates
<1>4. queue' \in Seq(Submissions)
  BY DEF Restart
<1>5. /\ stage' = "recv" /\ current' = NoSubmission /\ own' = NoSubmission
      /\ restarts' = restarts + 1 /\ rxOpen' = TRUE /\ check' = FALSE
      /\ trigger' = FALSE /\ skipped' = FALSE
  BY DEF Restart
<1>6. UNCHANGED <<intent, mine, starts, calls, goalTurns, failures>>
  BY DEF Restart
<1>7. /\ stage' \in Stages /\ rxOpen' \in BOOLEAN /\ check' \in BOOLEAN
      /\ trigger' \in BOOLEAN /\ skipped' \in BOOLEAN
  BY <1>5, Zenon DEF Stages
<1>10. waiting' \in BOOLEAN /\ pending' \in BOOLEAN
  BY DEF TypeOK, Restart
<1>8. restarts' \in Nat
  BY <1>5 DEF TypeOK
<1>9. QED
  BY <1>1, <1>2, <1>3, <1>4, <1>5, <1>6, <1>7, <1>8, <1>10, Zenon DEF TypeOK

-----------------------------------------------------------------------------
(* Where a submission's guard is, stage by stage.                          *)

SendStages == {"mailSend", "goalSend"}
TurnStages == {"start", "before", "record", "running", "finishing", "notify"}

\* The operation of a submission says what its guard can be.
Shaped(s) ==
  \/ s.op \in TurnOps /\ s.turn \in Turns
  \/ s.op = "ManualCompaction" /\ s.turn = Compaction
  \/ s.op \in {"Control", "Effect", "Shutdown"} /\ s.turn = NoTurn

\* The stage of the actor says which guards it holds, and the receiver is gone
\* exactly when it has stopped.
Carried ==
  /\ \A i \in DOMAIN queue : Shaped(queue[i])
  /\ stage \in SendStages => own \in Submissions /\ own.op \in TurnOps /\ own.turn \in Turns
  /\ stage \notin SendStages => own.turn = NoTurn
  /\ stage \in TurnStages => current.turn \in Turns
  /\ stage = "ManualCompaction" => current.turn = Compaction
  /\ stage \notin TurnStages \cup {"ManualCompaction"} => current.turn = NoTurn
  /\ stage = "stopped" <=> rxOpen = FALSE

\* The slot a is taken exactly while one guard exists: in the channel q, in the
\* actor's hands (the turn c) or in what it is about to send (the turn o).
OneGuard(a, q, c, o) ==
  /\ c # NoTurn => a = c /\ o = NoTurn
  /\ o # NoTurn => a = o
  /\ \A i \in DOMAIN q : q[i].turn # NoTurn => a = q[i].turn /\ c = NoTurn /\ o = NoTurn
  /\ \A i, j \in DOMAIN q : q[i].turn # NoTurn /\ q[j].turn # NoTurn => i = j
  /\ a # NoTurn => c # NoTurn \/ o # NoTurn \/ \E i \in DOMAIN q : q[i].turn # NoTurn

OneGuardNow == OneGuard(active, queue, current.turn, own.turn)

\* The markers of the slot are not turn ids.
LEMMA TurnValues == NoTurn \notin Turns /\ Compaction \notin Turns /\ Compaction # NoTurn
BY DEF NoTurn, Compaction, Turns

\* Where the elements of an appended channel come from.
LEMMA AppendFacts ==
  ASSUME NEW q \in Seq(Submissions), NEW s \in Submissions
  PROVE  \E n \in DOMAIN Append(q, s) :
           /\ Append(q, s)[n] = s
           /\ \A i \in DOMAIN Append(q, s) : i = n \/ i \in DOMAIN q
           /\ \A i \in DOMAIN q : i \in DOMAIN Append(q, s) /\ i # n /\ Append(q, s)[i] = q[i]
<1>1. Len(q) + 1 \in DOMAIN Append(q, s)
  OBVIOUS
<1>2. QED
  BY <1>1

\* Appending a submission with a guard to the channel of a free slot.
LEMMA GuardSubmitted ==
  ASSUME NEW q \in Seq(Submissions), NEW s \in Submissions, NEW c, NEW o,
         OneGuard(NoTurn, q, c, o), s.turn # NoTurn
  PROVE  OneGuard(s.turn, Append(q, s), c, o)
<1> DEFINE r == Append(q, s)
<1>1. PICK n \in DOMAIN r :
        /\ r[n] = s
        /\ \A i \in DOMAIN r : i = n \/ i \in DOMAIN q
        /\ \A i \in DOMAIN q : i \in DOMAIN r /\ i # n /\ r[i] = q[i]
  BY AppendFacts
<1> HIDE DEF r
<1>2. OneGuard(s.turn, r, c, o)
  BY <1>1 DEF OneGuard
<1>3. QED
  BY <1>2 DEF r

\* Appending one without a guard.
LEMMA PlainSubmitted ==
  ASSUME NEW q \in Seq(Submissions), NEW s \in Submissions, NEW a, NEW c, NEW o,
         OneGuard(a, q, c, o), s.turn = NoTurn
  PROVE  OneGuard(a, Append(q, s), c, o)
<1> DEFINE r == Append(q, s)
<1>1. PICK n \in DOMAIN r :
        /\ r[n] = s
        /\ \A i \in DOMAIN r : i = n \/ i \in DOMAIN q
        /\ \A i \in DOMAIN q : i \in DOMAIN r /\ i # n /\ r[i] = q[i]
  BY AppendFacts
<1> HIDE DEF r
<1>2. OneGuard(a, r, c, o)
  BY <1>1 DEF OneGuard
<1>3. QED
  BY <1>2 DEF r

\* The actor's own submission moves into the channel.
LEMMA OwnSubmitted ==
  ASSUME NEW q \in Seq(Submissions), NEW s \in Submissions, NEW a,
         OneGuard(a, q, NoTurn, s.turn), s.turn # NoTurn
  PROVE  OneGuard(a, Append(q, s), NoTurn, NoTurn)
<1> DEFINE r == Append(q, s)
<1>1. PICK n \in DOMAIN r :
        /\ r[n] = s
        /\ \A i \in DOMAIN r : i = n \/ i \in DOMAIN q
        /\ \A i \in DOMAIN q : i \in DOMAIN r /\ i # n /\ r[i] = q[i]
  BY AppendFacts
<1> HIDE DEF r
<1>2. OneGuard(a, r, NoTurn, NoTurn)
  BY <1>1 DEF OneGuard
<1>3. QED
  BY <1>2 DEF r

\* The head of the channel moves into the actor's hands.
LEMMA GuardReceived ==
  ASSUME NEW q \in Seq(Submissions), q # <<>>, NEW a, NEW o, OneGuard(a, q, NoTurn, o)
  PROVE  OneGuard(a, Tail(q), Head(q).turn, o)
<1> DEFINE r == Tail(q)
           h == Head(q)
           up(i) == i + 1
           down(i) == i - 1
<1>1. \A i \in DOMAIN r : r[i] = q[up(i)] /\ up(i) \in DOMAIN q /\ up(i) # 1
  OBVIOUS
<1>2. 1 \in DOMAIN q /\ h = q[1]
  OBVIOUS
<1>3. \A i \in DOMAIN q : i = 1 \/ (down(i) \in DOMAIN r /\ r[down(i)] = q[i])
  OBVIOUS
<1>4. \A i, j \in DOMAIN r : up(i) = up(j) => i = j
  OBVIOUS
<1> HIDE DEF r, h, up, down
<1>5. OneGuard(a, r, h.turn, o)
  BY <1>1, <1>2, <1>3, <1>4 DEF OneGuard
<1>6. QED
  BY <1>5 DEF r, h

\* Dropping what the actor holds frees the slot if that held the guard.
LEMMA GuardDropped ==
  ASSUME NEW q, NEW a, NEW c, NEW o, OneGuard(a, q, c, o)
  PROVE  OneGuard(IF c = NoTurn THEN a ELSE NoTurn, q, NoTurn, o)
BY DEF OneGuard

\* Dropping the channel frees the slot if a queued submission held the guard.
LEMMA ChannelDropped ==
  ASSUME NEW q \in Seq(Submissions), NEW a, OneGuard(a, q, NoTurn, NoTurn)
  PROVE  OneGuard(IF \E i \in DOMAIN q : q[i].turn # NoTurn THEN NoTurn ELSE a,
                  <<>>, NoTurn, NoTurn)
BY DEF OneGuard

\* The flat form of the invariant is the stated one.
LEMMA OneGuardIsSlotHasOneHolder == OneGuardNow => SlotHasOneHolder
<1> SUFFICES ASSUME OneGuardNow PROVE SlotHasOneHolder
  OBVIOUS
<1> DEFINE Q == {<<"queue", i, queue[i].turn>> : i \in {j \in DOMAIN queue : queue[j].turn # NoTurn}}
           C == IF current.turn # NoTurn THEN {<<"current", 0, current.turn>>} ELSE {}
           O == IF own.turn # NoTurn THEN {<<"own", 0, own.turn>>} ELSE {}
<1>1. Holders = Q \cup C \cup O
  BY DEF Holders
<1>2. ASSUME NEW h \in Q
      PROVE  h[3] = active /\ current.turn = NoTurn /\ own.turn = NoTurn /\ \A g \in Q : g = h
  BY DEF OneGuardNow, OneGuard
<1>3. ASSUME NEW h \in C PROVE h[3] = active /\ own.turn = NoTurn /\ \A g \in C : g = h
  BY <1>3 DEF OneGuardNow, OneGuard
<1>4. ASSUME NEW h \in O PROVE h[3] = active /\ \A g \in O : g = h
  BY <1>4 DEF OneGuardNow, OneGuard
<1>5. active = NoTurn => Q = {} /\ C = {} /\ O = {}
  BY DEF OneGuardNow, OneGuard
<1>6. active # NoTurn => Q # {} \/ C # {} \/ O # {}
  <2>1. active # NoTurn =>
          current.turn # NoTurn \/ own.turn # NoTurn \/ \E i \in DOMAIN queue : queue[i].turn # NoTurn
    BY DEF OneGuardNow, OneGuard
  <2>2. \A i \in DOMAIN queue : queue[i].turn # NoTurn => <<"queue", i, queue[i].turn>> \in Q
    OBVIOUS
  <2>3. QED
    BY <2>1, <2>2
<1>7. /\ Q # {} => C = {} /\ O = {}
      /\ C # {} => O = {}
  BY <1>2, <1>3
<1>8. QED
  <2> HIDE DEF Q, C, O
  <2>1. \A h \in Holders : h[3] = active
    BY <1>1, <1>2, <1>3, <1>4
  <2>2. \A g, h \in Holders : g = h
    BY <1>1, <1>2, <1>3, <1>4, <1>7
  <2>3. active = NoTurn <=> Holders = {}
    BY <1>1, <1>5, <1>6
  <2>4. QED
    BY <2>1, <2>2, <2>3 DEF SlotHasOneHolder

\* Mail that asks for a turn, once the actor has looked for mail, is still being
\* delivered or has something on its way that makes the actor look again.
Delivering == \E c \in Callers : intent[c] = "DeliverMail"
                                 /\ pc[c] \in {"checkBusy", "sending", "permit"}
MailKept ==
  trigger /\ ~skipped /\ stage \in {"recv", "goal", "goalReserve", "goalSend"} =>
    queue # <<>> \/ own.turn # NoTurn \/ Delivering

\* The inductive invariant.
IInv == TypeOK /\ Carried /\ OneGuardNow /\ MailKept

\* It holds initially.
LEMMA InitIInv == Init => IInv
<1> SUFFICES ASSUME Init PROVE IInv
  OBVIOUS
<1>1. TypeOK
  <2>1. /\ nextTurn \in 1 .. MaxTurn + 1 /\ active \in {NoTurn, Compaction} \cup Turns
        /\ starts \in [Turns -> Nat]
        /\ calls \in Nat /\ goalTurns \in Nat /\ failures \in Nat /\ restarts \in Nat
    BY MaxTurnAssumption DEF Init
  <2>2. /\ itx \in [Turns -> SignalStates] /\ notified \in [Turns -> BOOLEAN]
        /\ pc \in [Callers -> CallerStates] /\ intent \in [Callers -> Calls]
        /\ mine \in [Callers -> {NoTurn} \cup Turns] /\ ended \in [Turns -> Outcomes]
    BY DEF Init, SignalStates, CallerStates, Calls, PlainCalls, Outcomes
  <2>3. queue \in Seq(Submissions)
    BY DEF Init
  <2>4. QED
    BY <2>1, <2>2, <2>3, Zenon DEF TypeOK, Init, Stages
<1>2. Carried
  BY DEF Init, Carried, SendStages, TurnStages, NoSubmission
<1>3. OneGuardNow
  BY DEF Init, OneGuardNow, OneGuard, NoSubmission
<1>4. MailKept
  BY DEF Init, MailKept
<1>5. QED
  BY <1>1, <1>2, <1>3, <1>4 DEF IInv

\* A step that leaves the channel, the actor's hands and the slot alone.
LEMMA Untouched ==
  ASSUME Carried, OneGuardNow, UNCHANGED <<queue, rxOpen, stage, current, own, active>>
  PROVE  Carried' /\ OneGuardNow'
BY DEF Carried, OneGuardNow, OneGuard, Shaped

\* A taken slot seen while the actor handles nothing: its guard is in the channel or
\* in what the actor is about to send.
LEMMA SlotSeen ==
  ASSUME Carried, OneGuardNow, active # NoTurn, queue \in Seq(Submissions),
         stage \notin TurnStages \cup {"ManualCompaction"}
  PROVE  queue # <<>> \/ own.turn # NoTurn
<1>1. own.turn # NoTurn \/ \E i \in DOMAIN queue : queue[i].turn # NoTurn
  BY DEF Carried, OneGuardNow, OneGuard
<1>2. queue = <<>> => DOMAIN queue = {}
  OBVIOUS
<1>3. QED
  BY <1>1, <1>2

\* A caller that moves while delivering, or moves without having been delivering,
\* leaves a delivery in flight in flight.
LEMMA StillDelivering ==
  ASSUME TypeOK, NEW c \in Callers, NEW where, Goto(c, where), UNCHANGED intent, Delivering,
         \/ where \in {"checkBusy", "sending", "permit"}
         \/ ~(intent[c] = "DeliverMail" /\ pc[c] \in {"checkBusy", "sending", "permit"})
  PROVE  Delivering'
<1>1. pc \in [Callers -> CallerStates]
  BY DEF TypeOK
<1>2. PICK d \in Callers : intent[d] = "DeliverMail" /\ pc[d] \in {"checkBusy", "sending", "permit"}
  BY DEF Delivering
<1>3. QED
  BY <1>1, <1>2 DEF Goto, Delivering

\* An appended channel is not empty.
LEMMA AppendNonEmpty ==
  ASSUME NEW s \in Submissions, queue \in Seq(Submissions)
  PROVE  Append(queue, s) # <<>>
<1>1. Len(Append(queue, s)) = Len(queue) + 1 /\ Len(queue) \in Nat
  OBVIOUS
<1>2. ASSUME Append(queue, s) = <<>> PROVE FALSE
  <2>1. Len(<<>>) = 0
    OBVIOUS
  <2>2. Len(queue) + 1 = 0
    BY <1>1, <1>2, <2>1
  <2>3. QED
    BY <1>1, <2>2
<1>3. QED
  BY <1>2

\* Appending a submission of the right shape keeps the guards where the stage says.
LEMMA CarriedAppend ==
  ASSUME Carried, queue \in Seq(Submissions), NEW s \in Submissions, Shaped(s),
         queue' = Append(queue, s), UNCHANGED <<rxOpen, stage, current, own>>
  PROVE  Carried' /\ queue' # <<>>
<1>1. \A i \in DOMAIN queue' : Shaped(queue'[i])
  <2>1. PICK n \in DOMAIN queue' :
          /\ queue'[n] = s
          /\ \A i \in DOMAIN queue' : i = n \/ i \in DOMAIN queue
          /\ \A i \in DOMAIN queue : queue'[i] = queue[i]
    BY AppendFacts
  <2>2. QED
    BY <2>1 DEF Carried
<1>2. queue' # <<>>
  BY AppendNonEmpty
<1>3. QED
  BY <1>1, <1>2 DEF Carried

\* The steps of a caller preserve the invariant.
LEMMA CallerPreserves ==
  ASSUME IInv, NEW c \in Callers, Call(c) \/ InterruptRead(c) \/ CallerStep(c)
  PROVE  Carried' /\ OneGuardNow' /\ MailKept'
<1> USE DEF IInv
<1>0. TypeOK /\ queue \in Seq(Submissions)
  BY DEF TypeOK
<1>1. CASE Call(c)
  <2>1. Carried' /\ OneGuardNow'
    BY <1>1, Untouched DEF Call, slot, actorVars
  <2>2. CASE intent' = [intent EXCEPT ![c] = "DeliverMail"] /\ Goto(c, "checkBusy")
    <3>1. intent'[c] = "DeliverMail" /\ pc'[c] = "checkBusy"
      BY <2>2, <1>0 DEF TypeOK, Goto
    <3>2. QED
      BY <2>1, <3>1 DEF MailKept, Delivering
  <2>3. ASSUME NEW o \in Calls \ {"Interrupt", "DeliverMail"},
               intent' = [intent EXCEPT ![c] = o], Goto(c, "sending"), UNCHANGED mailVars
        PROVE  MailKept'
    <3>1. Delivering => Delivering'
      BY <1>0, <1>1, <2>3 DEF TypeOK, Delivering, Call, Goto
    <3>2. QED
      BY <1>1, <2>3, <3>1 DEF MailKept, Call, mailVars, actorVars
  <2>4. QED
    BY <1>1, <2>1, <2>2, <2>3 DEF Call
<1>2. CASE InterruptRead(c)
  <2>1. Delivering => Delivering'
    BY <1>0, <1>2 DEF TypeOK, Delivering, InterruptRead, Goto
  <2>2. QED
    BY <1>2, <2>1, Untouched DEF InterruptRead, slot, actorVars, MailKept, mailVars
<1>3. CASE CheckBusy(c)
  <2>1. Carried' /\ OneGuardNow'
    BY <1>3, Untouched DEF CheckBusy, slot, actorVars
  <2>2. CASE active = NoTurn
    <3>1. Goto(c, "sending")
      BY <1>3, <2>2, TurnValues DEF CheckBusy, ActiveTurnId
    <3>2. Delivering => Delivering'
      BY <1>0, <1>3, <3>1, StillDelivering DEF CheckBusy
    <3>3. QED
      BY <1>3, <2>1, <3>2 DEF CheckBusy, actorVars, MailKept, mailVars
  <2>3. CASE active = Compaction
    <3>1. Goto(c, "sending")
      BY <1>3, <2>3, TurnValues DEF CheckBusy, ActiveTurnId
    <3>2. Delivering => Delivering'
      BY <1>0, <1>3, <3>1, StillDelivering DEF CheckBusy
    <3>3. QED
      BY <1>3, <2>1, <3>2 DEF CheckBusy, actorVars, MailKept, mailVars
  <2>4. CASE active \in Turns
    <3>1. stage \in {"recv", "goal", "goalReserve", "goalSend"} => queue # <<>> \/ own.turn # NoTurn
      BY <1>0, <2>4, TurnValues, SlotSeen DEF TurnStages
    <3>2. QED
      BY <1>3, <2>1, <3>1 DEF CheckBusy, actorVars, MailKept
  <2>5. QED
    BY <1>0, <2>2, <2>3, <2>4 DEF TypeOK
<1>4. CASE Acquire(c)
  <2>1. Carried' /\ OneGuardNow'
    BY <1>4, Untouched DEF Acquire, slot, actorVars
  <2>2. CASE Goto(c, "permit")
    <3>1. Delivering => Delivering'
      BY <1>0, <1>4, <2>2, StillDelivering DEF Acquire
    <3>2. QED
      BY <1>4, <2>1, <3>1 DEF Acquire, actorVars, MailKept, mailVars
  <2>3. CASE ~rxOpen
    <3>1. stage = "stopped"
      BY <1>0, <2>3 DEF Carried, TypeOK
    <3>2. QED
      BY <1>4, <2>1, <3>1 DEF Acquire, actorVars, MailKept
  <2>4. QED
    BY <1>4, <2>2, <2>3 DEF Acquire
<1>5. CASE SubmitTurn(c)
  <2>1. CASE active # NoTurn
    <3>1. UNCHANGED <<slot, signals, queue>> /\ Goto(c, "idle")
      BY <1>5, <2>1 DEF SubmitTurn, ReserveNext
    <3>2. Carried' /\ OneGuardNow'
      BY <1>5, <3>1, Untouched DEF SubmitTurn, slot, actorVars
    <3>3. stage \in {"recv", "goal", "goalReserve", "goalSend"} => queue # <<>> \/ own.turn # NoTurn
      BY <1>0, <2>1, SlotSeen DEF TurnStages
    <3>4. QED
      BY <1>5, <3>1, <3>2, <3>3 DEF SubmitTurn, MailKept, actorVars
  <2>2. ASSUME active = NoTurn, NEW t \in Turns, ReserveNext(t),
               queue' = Append(queue, [op |-> "UserInput", turn |-> t, from |-> c])
        PROVE  Carried' /\ OneGuardNow' /\ MailKept'
    <3> DEFINE s == [op |-> "UserInput", turn |-> t, from |-> c]
    <3>1. s \in Submissions /\ Shaped(s) /\ s.turn = t /\ t # NoTurn
      BY SubmissionType, TurnValues DEF Ops, Shaped, TurnOps
    <3>2. UNCHANGED <<rxOpen, stage, current, own>>
      BY <1>5 DEF SubmitTurn, actorVars
    <3>3. active' = t
      BY <2>2 DEF ReserveNext
    <3> HIDE DEF s
    <3>4. queue' = Append(queue, s)
      BY <2>2 DEF s
    <3>5. Carried' /\ queue' # <<>>
      BY <1>0, <3>1, <3>2, <3>4, CarriedAppend
    <3>6. OneGuardNow'
      BY <1>0, <2>2, <3>1, <3>2, <3>3, <3>4, GuardSubmitted DEF OneGuardNow
    <3>7. QED
      BY <3>5, <3>6 DEF MailKept
  <2>3. QED
    BY <1>5, <2>1, <2>2 DEF SubmitTurn
<1>6. CASE SubmitCompaction(c)
  <2>1. UNCHANGED <<rxOpen, stage, current, own, trigger, skipped, intent>> /\ intent[c] = "Compact"
    BY <1>6 DEF SubmitCompaction, actorVars, mailVars
  <2>2. CASE active # NoTurn
    <3>1. UNCHANGED <<active, queue>> /\ Goto(c, "idle")
      BY <1>6, <2>2 DEF SubmitCompaction
    <3>2. Carried' /\ OneGuardNow'
      BY <2>1, <3>1, Untouched
    <3>3. Delivering => Delivering'
      BY <1>0, <2>1, <3>1, StillDelivering
    <3>4. QED
      BY <2>1, <3>1, <3>2, <3>3 DEF MailKept
  <2>3. CASE active = NoTurn
    <3> DEFINE s == [op |-> "ManualCompaction", turn |-> Compaction, from |-> c]
    <3>1. s \in Submissions /\ Shaped(s) /\ s.turn = Compaction
      BY SubmissionType DEF Ops, Shaped
    <3>2. active' = Compaction /\ queue' = Append(queue, s)
      BY <1>6, <2>3 DEF SubmitCompaction
    <3> HIDE DEF s
    <3>3. Carried' /\ queue' # <<>>
      BY <1>0, <2>1, <3>1, <3>2, CarriedAppend
    <3>4. OneGuardNow'
      BY <1>0, <2>1, <2>3, <3>1, <3>2, TurnValues, GuardSubmitted DEF OneGuardNow
    <3>5. QED
      BY <3>3, <3>4 DEF MailKept
  <2>4. QED
    BY <2>2, <2>3
<1>7. CASE SubmitPlain(c)
  <2> DEFINE s == [op |-> intent[c], turn |-> NoTurn,
                   from |-> IF intent[c] = "Effect" THEN Nobody ELSE c]
  <2>1. s \in Submissions /\ Shaped(s) /\ s.turn = NoTurn
    BY <1>7, SubmissionType DEF SubmitPlain, PlainCalls, Ops, Shaped
  <2>2. queue' = Append(queue, s) /\ UNCHANGED <<rxOpen, stage, current, own, active>>
    BY <1>7 DEF SubmitPlain, slot, actorVars
  <2> HIDE DEF s
  <2>3. Carried' /\ queue' # <<>>
    BY <1>0, <2>1, <2>2, CarriedAppend
  <2>4. OneGuardNow'
    BY <1>0, <2>1, <2>2, PlainSubmitted DEF OneGuardNow
  <2>5. QED
    BY <2>3, <2>4 DEF MailKept
<1>8. CASE InterruptSend(c)
  <2>1. Delivering => Delivering'
    BY <1>0, <1>8, StillDelivering DEF InterruptSend
  <2>2. QED
    BY <1>8, <2>1, Untouched DEF InterruptSend, slot, actorVars, MailKept, mailVars
<1>9. CASE InterruptReturn(c)
  <2>1. Delivering => Delivering'
    BY <1>0, <1>9, StillDelivering DEF InterruptReturn
  <2>2. QED
    BY <1>9, <2>1, Untouched DEF InterruptReturn, slot, actorVars, MailKept, mailVars
<1>10. QED
  BY <1>1, <1>2, <1>3, <1>4, <1>5, <1>6, <1>7, <1>8, <1>9 DEF CallerStep

\* A step inside a turn leaves the guards where they are.
LEMMA TurnStep ==
  ASSUME Carried, OneGuardNow, stage \in TurnStages, stage' \in TurnStages,
         UNCHANGED <<queue, rxOpen, own, active>>, current'.turn = current.turn
  PROVE  Carried' /\ OneGuardNow' /\ MailKept'
<1>1. stage \notin SendStages /\ stage' \notin SendStages /\ stage # "stopped" /\ stage' # "stopped"
      /\ stage' # "ManualCompaction" /\ stage' \notin {"recv", "goal", "goalReserve", "goalSend"}
  BY DEF TurnStages, SendStages
<1>2. QED
  BY <1>1 DEF Carried, OneGuardNow, OneGuard, Shaped, MailKept

\* The stages of the actor between operations.
IdleStages == {"recv", "mail", "mailReserve", "goal", "goalReserve", "Control", "Effect",
               "Shutdown", "exiting"}

\* So does a step of the actor between operations.
LEMMA IdleStep ==
  ASSUME Carried, OneGuardNow, stage \in IdleStages, stage' \in IdleStages,
         UNCHANGED <<queue, rxOpen, own, active>>, current'.turn = NoTurn
  PROVE  Carried' /\ OneGuardNow'
<1>1. /\ stage \notin SendStages \cup TurnStages \cup {"ManualCompaction"} /\ stage # "stopped"
      /\ stage' \notin SendStages \cup TurnStages \cup {"ManualCompaction"} /\ stage' # "stopped"
  BY DEF IdleStages, TurnStages, SendStages
<1>2. QED
  BY <1>1 DEF Carried, OneGuardNow, OneGuard, Shaped

\* Dropping the operation at hand frees its guard.
LEMMA DropStep ==
  ASSUME Carried, OneGuardNow, stage \in TurnStages \cup {"ManualCompaction", "Control", "Effect"},
         DropGuard(current), current' = NoSubmission, stage' = "mail", UNCHANGED <<queue, rxOpen, own>>
  PROVE  Carried' /\ OneGuardNow' /\ MailKept'
<1>1. /\ stage \notin SendStages /\ stage # "stopped"
      /\ stage' \notin SendStages \cup TurnStages \cup {"ManualCompaction"} /\ stage' # "stopped"
      /\ current'.turn = NoTurn
  BY DEF TurnStages, SendStages, NoSubmission
<1>2. Carried'
  BY <1>1 DEF Carried, Shaped
<1>3. OneGuardNow'
  BY <1>1, GuardDropped DEF OneGuardNow, DropGuard
<1>4. QED
  BY <1>2, <1>3 DEF MailKept

\* The actor reserves a turn for itself.
LEMMA ReserveOwn ==
  ASSUME Carried, OneGuardNow, stage \in {"mailReserve", "goalReserve"}, stage' \in SendStages,
         NEW t \in Turns, ReserveNext(t), NEW o \in TurnOps,
         own' = [op |-> o, turn |-> t, from |-> Nobody], UNCHANGED <<queue, rxOpen, current>>
  PROVE  Carried' /\ OneGuardNow' /\ own'.turn # NoTurn
<1>1. own' \in Submissions /\ own'.op \in TurnOps /\ own'.turn = t /\ t # NoTurn
  BY SubmissionType, TurnValues DEF TurnOps, Ops
<1>2. /\ stage \notin SendStages \cup TurnStages \cup {"ManualCompaction"} /\ stage # "stopped"
      /\ stage' \notin TurnStages \cup {"ManualCompaction"} /\ stage' # "stopped"
  BY DEF TurnStages, SendStages
<1>3. active = NoTurn /\ active' = t
  BY DEF ReserveNext
<1>4. Carried'
  BY <1>1, <1>2 DEF Carried, Shaped
<1>5. OneGuardNow'
  BY <1>1, <1>2, <1>3 DEF Carried, OneGuardNow, OneGuard
<1>6. QED
  BY <1>1, <1>4, <1>5

\* The steps of the actor preserve the invariant.
LEMMA ActorPreserves ==
  ASSUME IInv, ActorStep
  PROVE  Carried' /\ OneGuardNow' /\ MailKept'
<1> USE DEF IInv
<1>0. TypeOK /\ queue \in Seq(Submissions)
  BY DEF TypeOK
<1>1. CASE Receive
  <2>1. /\ stage = "recv" /\ queue # <<>> /\ current' = Head(queue) /\ queue' = Tail(queue)
        /\ stage' = IF Head(queue).op \in TurnOps THEN "start" ELSE Head(queue).op
        /\ UNCHANGED <<active, own, rxOpen>>
    BY <1>1 DEF Receive, slot
  <2>2. current.turn = NoTurn /\ own.turn = NoTurn /\ stage \notin SendStages
    BY <2>1 DEF Carried, TurnStages, SendStages
  <2>3. OneGuardNow'
    BY <1>0, <2>1, <2>2, GuardReceived DEF OneGuardNow
  <2>4. Shaped(Head(queue)) /\ \A i \in DOMAIN Tail(queue) : Shaped(Tail(queue)[i])
    <3>1. 1 \in DOMAIN queue /\ Head(queue) = queue[1]
      BY <1>0, <2>1
    <3>2. \A i \in DOMAIN Tail(queue) : i + 1 \in DOMAIN queue /\ Tail(queue)[i] = queue[i + 1]
      BY <1>0, <2>1
    <3>3. QED
      BY <3>1, <3>2 DEF Carried
  <2>5. /\ stage' \notin SendStages /\ stage' # "stopped" /\ stage # "stopped"
        /\ stage' \in TurnStages => current'.turn \in Turns
        /\ stage' = "ManualCompaction" => current'.turn = Compaction
        /\ stage' \notin TurnStages \cup {"ManualCompaction"} => current'.turn = NoTurn
        /\ stage' \notin {"recv", "goal", "goalReserve", "goalSend"}
    BY <2>1, <2>4 DEF Shaped, TurnOps, TurnStages, SendStages
  <2>6. Carried'
    BY <2>1, <2>2, <2>4, <2>5 DEF Carried
  <2>7. QED
    BY <2>3, <2>5, <2>6 DEF MailKept
<1>2. CASE RefuseStart \/ FailTurn \/ InterruptTurn \/ FinishTurn
  <2>1. /\ stage \in TurnStages /\ stage' \in TurnStages /\ UNCHANGED <<queue, rxOpen, own, active>>
        /\ current' = current \/ current' = Heard(current)
    BY <1>2 DEF RefuseStart, FailTurn, InterruptTurn, FinishTurn, HandlerReturns, slot, TurnStages
  <2>2. QED
    BY <2>1, TurnStep DEF Heard
<1>3. CASE StartTurn
  <2>1. /\ stage \in TurnStages /\ stage' \in TurnStages /\ UNCHANGED <<queue, rxOpen, own, active>>
        /\ current' = current \/ current' = Heard(current)
    BY <1>3 DEF StartTurn, slot, TurnStages
  <2>2. QED
    BY <2>1, TurnStep DEF Heard
<1>4. CASE PrepareTurn \/ RecordInput \/ DrainInbox \/ AskUser \/ SampleDone
  <2>1. /\ stage \in TurnStages /\ stage' \in TurnStages
        /\ UNCHANGED <<queue, rxOpen, own, active, current>>
    BY <1>4 DEF PrepareTurn, RecordInput, DrainInbox, AskUser, SampleDone, slot, actorVars, TurnStages
  <2>2. QED
    BY <2>1, TurnStep
<1>5. CASE ReleaseTurn
  BY <1>5, DropStep DEF ReleaseTurn, TurnStages
<1>6. CASE FinishOther \/ Decide \/ InterruptWait
  BY <1>6, DropStep DEF FinishOther, Decide, InterruptWait, OperationDone
<1>7. CASE CheckMail
  <2>1. /\ stage = "mail" /\ stage' \in {"mailReserve", "goal", "recv"}
        /\ UNCHANGED <<queue, rxOpen, own, active, current>>
    BY <1>7 DEF CheckMail, AfterMail, slot
  <2>2. current.turn = NoTurn
    BY <2>1 DEF Carried, TurnStages
  <2>3. Carried' /\ OneGuardNow'
    BY <2>1, <2>2, IdleStep DEF IdleStages
  <2>4. MailKept'
    <3>1. CASE stage' = "mailReserve"
      BY <3>1 DEF MailKept
    <3>2. CASE ActiveTurnId # NoTurn
      <4>1. active # NoTurn
        BY <3>2 DEF ActiveTurnId
      <4>2. queue # <<>> \/ own.turn # NoTurn
        BY <1>0, <2>1, <4>1, SlotSeen DEF TurnStages
      <4>3. QED
        BY <2>1, <4>2 DEF MailKept
    <3>3. CASE queue # <<>>
      BY <2>1, <3>3 DEF MailKept
    <3>4. CASE ~trigger
      BY <1>7, <3>4 DEF CheckMail, MailKept
    <3>5. CASE skipped' = TRUE
      BY <3>5 DEF MailKept
    <3>6. QED
      BY <1>7, <3>1, <3>2, <3>3, <3>4, <3>5 DEF CheckMail
  <2>5. QED
    BY <2>3, <2>4
<1>8. CASE ReserveMailTurn
  <2>1. CASE active # NoTurn
    <3>1. /\ stage = "mailReserve" /\ stage' \in {"goal", "recv"}
          /\ UNCHANGED <<queue, rxOpen, own, active, current>>
      BY <1>8, <2>1 DEF ReserveMailTurn, ReserveNext, AfterMail, slot
    <3>2. current.turn = NoTurn
      BY <3>1 DEF Carried, TurnStages
    <3>3. Carried' /\ OneGuardNow'
      BY <3>1, <3>2, IdleStep DEF IdleStages
    <3>4. queue # <<>> \/ own.turn # NoTurn
      BY <1>0, <2>1, <3>1, SlotSeen DEF TurnStages
    <3>5. QED
      BY <3>1, <3>3, <3>4 DEF MailKept
  <2>2. CASE active = NoTurn
    <3>1. PICK t \in Turns : /\ ReserveNext(t)
                             /\ own' = [op |-> "UserInput", turn |-> t, from |-> Nobody]
                             /\ stage' = "mailSend"
      BY <1>8, <2>2 DEF ReserveMailTurn
    <3>2. stage = "mailReserve" /\ UNCHANGED <<queue, rxOpen, current>>
      BY <1>8 DEF ReserveMailTurn
    <3>3. Carried' /\ OneGuardNow'
      BY <3>1, <3>2, ReserveOwn DEF SendStages, TurnOps
    <3>4. QED
      BY <3>1, <3>3 DEF MailKept
  <2>3. QED
    BY <2>1, <2>2
<1>9. CASE CheckGoal
  <2>1. /\ stage = "goal" /\ stage' \in {"goalReserve", "recv"}
        /\ UNCHANGED <<queue, rxOpen, own, active, current, trigger, skipped, pc, intent>>
    BY <1>9 DEF CheckGoal, slot, mailVars, callers
  <2>2. current.turn = NoTurn
    BY <2>1 DEF Carried, TurnStages
  <2>3. Carried' /\ OneGuardNow'
    BY <2>1, <2>2, IdleStep DEF IdleStages
  <2>4. QED
    BY <2>1, <2>3 DEF MailKept, Delivering
<1>10. CASE ReserveGoalTurn
  <2>1. CASE active # NoTurn
    <3>1. /\ stage = "goalReserve" /\ stage' = "recv"
          /\ UNCHANGED <<queue, rxOpen, own, active, current>>
      BY <1>10, <2>1 DEF ReserveGoalTurn, ReserveNext, slot
    <3>2. current.turn = NoTurn
      BY <3>1 DEF Carried, TurnStages
    <3>3. Carried' /\ OneGuardNow'
      BY <3>1, <3>2, IdleStep DEF IdleStages
    <3>4. queue # <<>> \/ own.turn # NoTurn
      BY <1>0, <2>1, <3>1, SlotSeen DEF TurnStages
    <3>5. QED
      BY <3>1, <3>3, <3>4 DEF MailKept
  <2>2. CASE active = NoTurn
    <3>1. PICK t \in Turns : /\ ReserveNext(t)
                             /\ own' = [op |-> "GoalContinuation", turn |-> t, from |-> Nobody]
                             /\ stage' = "goalSend"
      BY <1>10, <2>2 DEF ReserveGoalTurn
    <3>2. stage = "goalReserve" /\ UNCHANGED <<queue, rxOpen, current>>
      BY <1>10 DEF ReserveGoalTurn
    <3>3. Carried' /\ OneGuardNow' /\ own'.turn # NoTurn
      BY <3>1, <3>2, ReserveOwn DEF SendStages, TurnOps
    <3>4. QED
      BY <3>3 DEF MailKept
  <2>3. QED
    BY <2>1, <2>2
<1>11. CASE SendOwn
  <2>1. /\ stage \in SendStages /\ stage' \in {"goal", "recv"} /\ queue' = Append(queue, own)
        /\ own' = NoSubmission /\ UNCHANGED <<active, rxOpen, current>>
    BY <1>11 DEF SendOwn, AfterMail, slot, SendStages
  <2>2. /\ own \in Submissions /\ Shaped(own) /\ own.turn # NoTurn
        /\ current.turn = NoTurn /\ own'.turn = NoTurn
    BY <2>1, TurnValues DEF Carried, Shaped, SendStages, TurnStages, NoSubmission
  <2>3. queue' # <<>>
    BY <1>0, <2>1, <2>2, AppendNonEmpty
  <2>4. OneGuardNow'
    BY <1>0, <2>1, <2>2, OwnSubmitted DEF OneGuardNow
  <2>5. \A i \in DOMAIN queue' : Shaped(queue'[i])
    <3>1. PICK n \in DOMAIN queue' :
            /\ queue'[n] = own
            /\ \A i \in DOMAIN queue' : i = n \/ i \in DOMAIN queue
            /\ \A i \in DOMAIN queue : queue'[i] = queue[i]
      BY <1>0, <2>1, <2>2, AppendFacts
    <3>2. QED
      BY <2>2, <3>1 DEF Carried
  <2>6. Carried'
    BY <2>1, <2>2, <2>5 DEF Carried, SendStages, TurnStages
  <2>7. QED
    BY <2>3, <2>4, <2>6 DEF MailKept
<1>12. CASE Shutdown
  <2>1. /\ stage = "Shutdown" /\ stage' = "exiting" /\ current' = NoSubmission
        /\ UNCHANGED <<queue, rxOpen, own, active>>
    BY <1>12 DEF Shutdown, slot
  <2>2. QED
    BY <2>1, IdleStep DEF IdleStages, NoSubmission, MailKept
<1>13. CASE Exit
  <2>1. /\ stage = "exiting" /\ stage' = "stopped" /\ rxOpen' = FALSE /\ queue' = <<>>
        /\ active' = IF \E s \in Queued : s.turn # NoTurn THEN NoTurn ELSE active
        /\ UNCHANGED <<own, current>>
    BY <1>13 DEF Exit
  <2>2. current.turn = NoTurn /\ own.turn = NoTurn
    BY <2>1 DEF Carried, TurnStages, SendStages
  <2>3. OneGuardNow'
    <3>1. (\E s \in Queued : s.turn # NoTurn) <=> \E i \in DOMAIN queue : queue[i].turn # NoTurn
      BY DEF Queued
    <3>2. QED
      BY <1>0, <2>1, <2>2, <3>1, ChannelDropped DEF OneGuardNow
  <2>4. Carried'
    BY <2>1, <2>2 DEF Carried, TurnStages, SendStages
  <2>5. QED
    BY <2>1, <2>3, <2>4 DEF MailKept
<1>14. QED
  BY <1>1, <1>2, <1>3, <1>4, <1>5, <1>6, <1>7, <1>8, <1>9, <1>10, <1>11, <1>12, <1>13
  DEF ActorStep

\* So does a restart, which drops everything in memory.
LEMMA RestartPreserves == ASSUME Restart PROVE Carried' /\ OneGuardNow' /\ MailKept'
<1>1. /\ active' = NoTurn /\ queue' = <<>> /\ rxOpen' = TRUE /\ stage' = "recv"
      /\ current' = NoSubmission /\ own' = NoSubmission /\ trigger' = FALSE
  BY DEF Restart
<1>2. Carried'
  BY <1>1 DEF Carried, SendStages, TurnStages, NoSubmission
<1>3. OneGuardNow'
  BY <1>1 DEF OneGuardNow, OneGuard, NoSubmission
<1>4. MailKept'
  BY <1>1 DEF MailKept
<1>5. QED
  BY <1>2, <1>3, <1>4

\* Every step preserves the invariant.
LEMMA NextIInv == IInv /\ [Next]_vars => IInv'
<1> SUFFICES ASSUME IInv, [Next]_vars PROVE IInv'
  OBVIOUS
<1>1. ASSUME NEW c \in Callers, Call(c) \/ InterruptRead(c) \/ CallerStep(c) PROVE IInv'
  BY <1>1, CallerType, CallerPreserves DEF IInv
<1>2. CASE ActorStep
  <2>1. OwnHeld
    BY DEF IInv, Carried, OwnHeld, SendStages
  <2>2. QED
    BY <1>2, <2>1, ActorType, ActorPreserves DEF IInv
<1>3. CASE Restart
  BY <1>3, RestartType, RestartPreserves DEF IInv
<1>4. CASE UNCHANGED vars
  <2>1. TypeOK'
    BY <1>4 DEF IInv, TypeOK, vars, slot, signals, actorVars, mailVars, callers, rollout, requests, bounds
  <2>2. Carried' /\ OneGuardNow' /\ MailKept'
    BY <1>4 DEF IInv, Carried, Shaped, OneGuardNow, OneGuard, MailKept, Delivering, vars, slot,
                actorVars, mailVars, callers
  <2>3. QED
    BY <2>1, <2>2 DEF IInv
<1>5. QED
  BY <1>1, <1>2, <1>3, <1>4 DEF Next

\* The invariant holds in every behaviour.
LEMMA Invariance == Spec => []IInv
BY InitIInv, NextIInv, PTL DEF Spec

\* The state of the runtime keeps its types.
THEOREM TypeCorrect == Spec => []TypeOK
<1>1. IInv => TypeOK
  BY DEF IInv
<1>2. QED
  BY <1>1, Invariance, PTL

\* One guard exists for a taken slot and none for a free one, so that the guard's
\* blind drop never frees the reservation of another turn and no reservation leaks.
THEOREM SlotSafety == Spec => []SlotHasOneHolder
<1>1. IInv => SlotHasOneHolder
  BY OneGuardIsSlotHasOneHolder DEF IInv
<1>2. QED
  BY <1>1, Invariance, PTL

\* The actor never goes to sleep on mail that asks for a turn, unless the workspace
\* gate refused it.
THEOREM MailSafety == Spec => []NoStrandedMail
<1>1. IInv => NoStrandedMail
  BY DEF IInv, MailKept, NoStrandedMail, Delivering, Carried, SendStages
<1>2. QED
  BY <1>1, Invariance, PTL

-----------------------------------------------------------------------------
(***************************************************************************)
(* ThreadRuntime implements TurnLifecycle, what the rollout says of a turn *)
(* that ended is final, and an accepted interrupt reaches its turn.  On    *)
(* top of the invariant above, the first two need what the rollout says of *)
(* the turn that owns the slot (Ledger), the third also which turn the     *)
(* interrupt one-shots belong to (Signals).                                *)
(***************************************************************************)

Live == {"before", "record", "running", "finishing"}

\* A turn id that was handed out and not yet used.
Fresh(t) == t < nextTurn /\ starts[t] = 0 /\ ended[t] = "none"

\* Turn ids not handed out are blank, the owner of the slot is blank until its turn
\* starts and started until it ends.
Ledger ==
  /\ \A t \in Turns : starts[t] \in {0, 1}
  /\ \A t \in Turns : t >= nextTurn => starts[t] = 0 /\ ended[t] = "none"
  /\ active \in Turns /\ stage \notin Live \cup {"notify"} => Fresh(active)
  /\ stage \in Live => active < nextTurn /\ starts[active] = 1 /\ ended[active] = "none"

LedgerInv == IInv /\ Ledger

\* During a turn the slot holds the turn at hand.
LEMMA TurnOwnsSlot ==
  ASSUME IInv, stage \in TurnStages
  PROVE  active = current.turn /\ active \in Turns
BY TurnValues DEF IInv, Carried, OneGuardNow, OneGuard

\* What one step does to the rollout, to the slot and to the requests that wait.
Held == UNCHANGED <<waiting, pending>>
Still ==
  \/ stage' = stage
  \/ stage \in Live /\ stage' \in Live \cup {"notify"}
  \/ stage \notin Live \cup {"notify"} /\ stage' \notin Live \cup {"notify"}
Quiet == UNCHANGED <<nextTurn, active, starts, ended>> /\ Held /\ Still
Reserving == active = NoTurn /\ nextTurn \in Turns /\ active' = nextTurn /\ nextTurn' = nextTurn + 1
             /\ UNCHANGED <<starts, ended>> /\ Held /\ stage' \notin Live \cup {"notify"}
Compacting == active = NoTurn /\ active' = Compaction /\ UNCHANGED <<nextTurn, starts, ended, stage>>
              /\ Held
Starting == stage = "start" /\ stage' \in Live /\ UNCHANGED <<nextTurn, active, ended>> /\ Held
            /\ starts' = [starts EXCEPT ![active] = starts[active] + 1]
Asking == stage = "running" /\ UNCHANGED <<nextTurn, active, starts, ended, stage>> /\ waiting' = TRUE
Ending == stage \in Live \cup {"start"} /\ stage' = "notify" /\ UNCHANGED <<nextTurn, active, starts>>
          /\ \/ UNCHANGED ended /\ (Held \/ (stage = "running" /\ waiting' = TRUE))
             \/ /\ ended' = [ended EXCEPT ![active] = "failed"]
                /\ Held \/ (stage = "running" /\ waiting' = TRUE)
             \/ stage \in Live /\ ended' = [ended EXCEPT ![active] = "completed"] /\ Held
             \/ /\ stage \in Live /\ ended' = [ended EXCEPT ![active] = "interrupted"]
                /\ UNCHANGED waiting /\ pending' = FALSE
\* The handler of a turn returned.
Ended == current.turn = active /\ stage' = "notify" /\ UNCHANGED <<nextTurn, active, starts>>
Releasing == active' = NoTurn /\ UNCHANGED <<nextTurn, starts, ended>> /\ Held
             /\ stage' \notin Live \cup {"notify"}
Deciding == /\ UNCHANGED <<nextTurn, active, starts, ended>> /\ Still
            /\ waiting /\ (pending' = pending \/ pending' = FALSE)
            /\ waiting' \in BOOLEAN
Abandoning == /\ UNCHANGED <<nextTurn, active, starts>> /\ Still /\ stage = "Control"
              /\ waiting /\ waiting' = FALSE /\ pending' = FALSE
              /\ \E t \in Recorded : ended' = [ended EXCEPT ![t] = "abandoned"]

\* Every step of a caller is one of these.
LEMMA CallerKinds ==
  ASSUME IInv, NEW c \in Callers, Call(c) \/ InterruptRead(c) \/ CallerStep(c)
  PROVE  Quiet \/ Reserving \/ Compacting
<1>1. CASE Call(c) \/ InterruptRead(c)
  BY <1>1 DEF Call, InterruptRead, slot, actorVars, rollout, requests, Quiet, Held, Still
<1>2. CASE CheckBusy(c) \/ Acquire(c) \/ SubmitPlain(c) \/ InterruptSend(c) \/ InterruptReturn(c)
  BY <1>2 DEF CheckBusy, Acquire, SubmitPlain, InterruptSend, InterruptReturn, slot, actorVars,
              rollout, requests, Quiet, Held, Still
<1>3. CASE SubmitTurn(c)
  <2>1. UNCHANGED <<starts, ended, stage>> /\ Held
    BY <1>3 DEF SubmitTurn, rollout, requests, actorVars, Held
  <2>2. CASE active # NoTurn
    BY <1>3, <2>1, <2>2 DEF SubmitTurn, ReserveNext, slot, Quiet, Still
  <2>3. CASE active = NoTurn
    <3>1. active' = nextTurn /\ nextTurn \in Turns /\ nextTurn' = nextTurn + 1
      BY <1>3, <2>3 DEF SubmitTurn, ReserveNext
    <3>2. stage \notin TurnStages
      BY <2>3, TurnOwnsSlot, TurnValues
    <3>3. QED
      BY <2>1, <2>3, <3>1, <3>2 DEF Reserving, Live, TurnStages
  <2>4. QED
    BY <2>2, <2>3
<1>4. CASE SubmitCompaction(c)
  BY <1>4 DEF SubmitCompaction, rollout, requests, actorVars, Compacting, Quiet, Held, Still
<1>5. QED
  BY <1>1, <1>2, <1>3, <1>4 DEF CallerStep

\* Every step of the actor is one of these.
LEMMA ActorKinds ==
  ASSUME IInv, ActorStep
  PROVE  Quiet \/ Reserving \/ Starting \/ Asking \/ Ending \/ Releasing \/ Deciding \/ Abandoning
<1> USE DEF Live, Held, Still, requests
<1>0. stage \in TurnStages => active = current.turn /\ active \in Turns
  BY TurnOwnsSlot
<1>1. CASE Receive
  <2>1. stage' \notin Live \cup {"notify"}
    <3>1. Head(queue) \in Submissions
      BY <1>1 DEF Receive, IInv, TypeOK
    <3>2. QED
      BY <1>1, <3>1 DEF Receive, Submissions, Ops, TurnOps
  <2>2. QED
    BY <1>1, <2>1 DEF Receive, slot, rollout, Quiet
<1>2. CASE RefuseStart
  <2>1. Ended /\ stage = "start"
    BY <1>0, <1>2 DEF RefuseStart, HandlerReturns, slot, TurnStages, Ended
  <2>2. Held /\ (ended' = ended \/ ended' = [ended EXCEPT ![active] = "failed"])
    BY <1>2, <2>1 DEF RefuseStart, Ends, Ended
  <2>3. QED
    BY <2>1, <2>2 DEF Ended, Ending
<1>3. CASE StartTurn
  BY <1>0, <1>3 DEF StartTurn, slot, TurnStages, Starting
<1>4. CASE PrepareTurn \/ RecordInput \/ DrainInbox \/ SampleDone
  BY <1>4 DEF PrepareTurn, RecordInput, DrainInbox, SampleDone, slot, rollout, actorVars, Quiet
<1>5. CASE FailTurn
  <2>1. Ended /\ stage \in Live
    BY <1>0, <1>5 DEF FailTurn, HandlerReturns, slot, TurnStages, Ended
  <2>2. /\ ended' = ended \/ ended' = [ended EXCEPT ![active] = "failed"]
        /\ Held \/ (stage = "running" /\ waiting' = TRUE)
    BY <1>5, <2>1 DEF FailTurn, Ends, Ended
  <2>3. QED
    BY <2>1, <2>2 DEF Ended, Ending
<1>6. CASE InterruptTurn
  <2>1. Ended /\ stage \in Live
    BY <1>0, <1>6 DEF InterruptTurn, HandlerReturns, slot, TurnStages, Ended
  <2>2. \/ ended' = [ended EXCEPT ![active] = "interrupted"] /\ UNCHANGED waiting /\ pending' = FALSE
        \/ Held /\ (ended' = ended \/ ended' = [ended EXCEPT ![active] = "failed"])
    BY <1>6, <2>1 DEF InterruptTurn, Ends, Ended
  <2>3. QED
    BY <2>1, <2>2 DEF Ended, Ending
<1>7. CASE FinishTurn
  <2>1. Ended /\ stage \in Live
    BY <1>0, <1>7 DEF FinishTurn, HandlerReturns, slot, TurnStages, Ended
  <2>2. /\ Held
        /\ \/ ended' = ended \/ ended' = [ended EXCEPT ![active] = "failed"]
           \/ ended' = [ended EXCEPT ![active] = "completed"]
    BY <1>7, <2>1 DEF FinishTurn, Ends, Ended
  <2>3. QED
    BY <2>1, <2>2 DEF Ended, Ending
<1>8. CASE ReleaseTurn
  BY <1>0, <1>8, TurnValues DEF ReleaseTurn, DropGuard, rollout, TurnStages, Releasing
<1>9. CASE FinishOther
  BY <1>9 DEF FinishOther, OperationDone, DropGuard, Releasing, Quiet
<1>16. CASE Decide \/ InterruptWait
  <2>1. current.turn = NoTurn
    BY <1>16, TurnValues DEF Decide, InterruptWait, IInv, Carried, TurnStages
  <2>2. UNCHANGED <<nextTurn, active, starts>> /\ Still
    BY <1>16, <2>1 DEF Decide, InterruptWait, OperationDone, DropGuard
  <2>3. CASE Decide
    BY <2>2, <2>3 DEF Decide, Deciding, Quiet
  <2>4. CASE InterruptWait
    BY <2>2, <2>4 DEF InterruptWait, Deciding, Abandoning
  <2>5. QED
    BY <1>16, <2>3, <2>4
<1>17. CASE AskUser
  BY <1>17 DEF AskUser, slot, actorVars, Asking
<1>10. CASE CheckMail \/ CheckGoal \/ SendOwn
  BY <1>10 DEF CheckMail, CheckGoal, SendOwn, AfterMail, slot, rollout, Quiet
<1>11. CASE ReserveMailTurn
  BY <1>11 DEF ReserveMailTurn, ReserveNext, AfterMail, slot, rollout, Quiet, Reserving
<1>12. CASE ReserveGoalTurn
  BY <1>12 DEF ReserveGoalTurn, ReserveNext, slot, rollout, Quiet, Reserving
<1>13. CASE Shutdown
  BY <1>13 DEF Shutdown, slot, rollout, Quiet
<1>14. CASE Exit
  BY <1>14 DEF Exit, rollout, Quiet, Releasing
<1>15. QED
  BY <1>1, <1>2, <1>3, <1>4, <1>5, <1>6, <1>7, <1>8, <1>9, <1>10, <1>11, <1>12, <1>13, <1>14,
     <1>16, <1>17
  DEF ActorStep

-----------------------------------------------------------------------------
(* Each kind of step keeps the ledger, leaves a turn that ended alone but    *)
(* for the interrupt of a wait, and is a step of TurnLifecycle or a stutter. *)

Final(t) ==
  ended[t] # "none" =>
    /\ starts'[t] = starts[t]
    /\ \/ ended'[t] = ended[t]
       \/ ended'[t] = "abandoned" /\ waiting /\ ~waiting' /\ ~pending'
Kept == Ledger' /\ (\A t \in Turns : Final(t)) /\ [Lifecycle!Next]_(Lifecycle!vars)

\* A step that leaves the slot and the rollout alone.
LEMMA QuietKept == ASSUME LedgerInv, Quiet PROVE Kept
<1>1. Ledger'
  BY DEF LedgerInv, Ledger, Quiet, Still, Fresh, Live
<1>2. \A t \in Turns : Final(t)
  BY DEF Quiet, Final
<1>3. UNCHANGED Lifecycle!vars
  BY DEF Quiet, Held, Lifecycle!vars, Record
<1>4. QED
  BY <1>1, <1>2, <1>3 DEF Kept

\* A turn id is reserved.
LEMMA ReservingKept == ASSUME LedgerInv, Reserving PROVE Kept
<1>1. nextTurn \in Nat /\ \A t \in Turns : t \in Nat
  BY DEF LedgerInv, IInv, TypeOK, Turns
<1>2. Ledger'
  <2>1. \A t \in Turns : t >= nextTurn' => t >= nextTurn
    BY <1>1 DEF Reserving
  <2>2. nextTurn < nextTurn' /\ starts[nextTurn] = 0 /\ ended[nextTurn] = "none"
    BY <1>1 DEF LedgerInv, Ledger, Reserving
  <2>3. Fresh(active)'
    BY <2>2 DEF Reserving, Fresh
  <2>4. QED
    BY <2>1, <2>3 DEF LedgerInv, Ledger, Reserving
<1>3. \A t \in Turns : Final(t)
  BY DEF Reserving, Final
<1>4. Lifecycle!Reserve
  BY DEF Held, Reserving, Record, Lifecycle!Reserve, Lifecycle!NoTurn, NoTurn, Lifecycle!Turns, Turns
<1>5. QED
  BY <1>2, <1>3, <1>4 DEF Kept, Lifecycle!Next

\* A manual compaction takes the slot.
LEMMA CompactingKept == ASSUME LedgerInv, Compacting PROVE Kept
<1>1. stage \notin TurnStages
  BY TurnOwnsSlot, TurnValues DEF LedgerInv, Compacting
<1>2. Ledger'
  BY <1>1, TurnValues DEF LedgerInv, Ledger, Compacting, Live, TurnStages
<1>3. \A t \in Turns : Final(t)
  BY DEF Compacting, Final
<1>4. Lifecycle!ReserveCompaction
  BY DEF Held, Compacting, Record, Lifecycle!ReserveCompaction, Lifecycle!NoTurn, NoTurn,
         Lifecycle!Compaction, Compaction
<1>5. QED
  BY <1>2, <1>3, <1>4 DEF Kept, Lifecycle!Next

\* The turn that owns the slot starts.
LEMMA StartingKept == ASSUME LedgerInv, Starting PROVE Kept
<1>1. active \in Turns /\ Fresh(active)
  BY TurnOwnsSlot DEF LedgerInv, Ledger, Starting, Live, TurnStages
<1>2. starts \in [Turns -> Nat] /\ ended \in [Turns -> Outcomes] /\ active' = active
  BY DEF LedgerInv, IInv, TypeOK, Starting
<1>3. starts'[active] = 1 /\ \A t \in Turns : t # active => starts'[t] = starts[t]
  BY <1>1, <1>2 DEF Starting, Fresh
<1>4. Ledger'
  <2>1. \A t \in Turns : starts'[t] \in {0, 1}
    BY <1>3 DEF LedgerInv, Ledger
  <2>2. \A t \in Turns : t >= nextTurn => t # active
    BY <1>1 DEF LedgerInv, IInv, TypeOK, Turns, Fresh
  <2>3. \A t \in Turns : t >= nextTurn' => starts'[t] = 0 /\ ended'[t] = "none"
    BY <1>3, <2>2 DEF LedgerInv, Ledger, Starting
  <2>4. active' < nextTurn' /\ starts'[active'] = 1 /\ ended'[active'] = "none"
    BY <1>1, <1>2, <1>3 DEF Starting, Fresh
  <2>5. QED
    BY <2>1, <2>3, <2>4 DEF Ledger, Starting
<1>5. \A t \in Turns : Final(t)
  BY <1>1, <1>3 DEF Starting, Final, Fresh
<1>6. Lifecycle!Start
  <2>1. Record(active) = "none"
    BY <1>1 DEF Record, Fresh
  <2>2. ASSUME NEW t \in Turns
        PROVE  Record(t)' = IF t = active THEN "started" ELSE Record(t)
    <3>1. CASE t = active
      BY <1>1, <1>3, <3>1 DEF Record, Starting, Fresh
    <3>2. CASE t # active
      BY <1>3, <3>2 DEF Record, Starting
    <3>3. QED
      BY <3>1, <3>2
  <2>3. [t \in Turns |-> Record(t)]' = [[t \in Turns |-> Record(t)] EXCEPT ![active] = "started"]
    BY <2>2
  <2>4. QED
    BY <1>1, <2>1, <2>3 DEF Starting, Held, Lifecycle!Start, Lifecycle!Turns, Turns
<1>7. QED
  BY <1>4, <1>5, <1>6 DEF Kept, Lifecycle!Next

\* The turn that owns the slot ends, or stops without a word to the rollout.
LEMMA EndingKept == ASSUME LedgerInv, Ending PROVE Kept
<1>1. active \in Turns /\ active < nextTurn /\ ended[active] = "none" /\ starts[active] \in {0, 1}
      /\ (stage \in Live => starts[active] = 1)
  <2>1. active \in Turns
    BY TurnOwnsSlot DEF LedgerInv, Ending, Live, TurnStages
  <2>2. QED
    BY <2>1 DEF LedgerInv, Ledger, Ending, Live, Fresh
<1>2. starts \in [Turns -> Nat] /\ ended \in [Turns -> Outcomes]
  BY DEF LedgerInv, IInv, TypeOK
<1>3. \A t \in Turns : t # active => ended'[t] = ended[t]
  BY <1>2 DEF Ending
<1>4. Ledger'
  <2>1. \A t \in Turns : t >= nextTurn => t # active
    BY <1>1 DEF LedgerInv, IInv, TypeOK, Turns
  <2>2. QED
    BY <1>1, <1>3, <2>1 DEF LedgerInv, Ledger, Ending, Live
<1>5. \A t \in Turns : Final(t)
  BY <1>1, <1>3 DEF Ending, Final
<1>6. [Lifecycle!Next]_(Lifecycle!vars)
  <2>1. CASE UNCHANGED ended /\ (Held \/ (stage = "running" /\ waiting' = TRUE))
    <3>1. [t \in Turns |-> Record(t)]' = [t \in Turns |-> Record(t)]
      BY <2>1 DEF Ending, Record
    <3>2. CASE Held
      BY <2>1, <3>1, <3>2 DEF Ending, Held, Lifecycle!vars
    <3>3. CASE stage = "running" /\ waiting' = TRUE
      <4>1. Record(active) = "started"
        BY <1>1, <3>3 DEF Record, Live
      <4>2. Lifecycle!Ask
        BY <1>1, <3>1, <3>3, <4>1 DEF Ending, Lifecycle!Ask, Lifecycle!Turns, Turns
      <4>3. QED
        BY <4>2 DEF Lifecycle!Next
    <3>4. QED
      BY <2>1, <3>2, <3>3
  <2>2. ASSUME NEW how \in {"completed", "interrupted", "failed"},
               ended' = [ended EXCEPT ![active] = how],
               \/ how = "failed" /\ (Held \/ (stage = "running" /\ waiting' = TRUE))
               \/ how = "completed" /\ stage \in Live /\ Held
               \/ how = "interrupted" /\ stage \in Live /\ UNCHANGED waiting /\ pending' = FALSE
        PROVE  Lifecycle!End
    <3>1. /\ Record(active) = "none" \/ Record(active) = "started"
          /\ stage \in Live => Record(active) = "started"
      BY <1>1 DEF Record
    <3>2. ASSUME NEW t \in Turns
          PROVE  Record(t)' = IF t = active THEN how ELSE Record(t)
      <4>1. CASE t = active
        BY <1>2, <2>2, <4>1 DEF Record
      <4>2. CASE t # active
        BY <1>3, <4>2 DEF Record, Ending
      <4>3. QED
        BY <4>1, <4>2
    <3>3. [t \in Turns |-> Record(t)]' = [[t \in Turns |-> Record(t)] EXCEPT ![active] = how]
      BY <3>2
    <3>5. /\ how = "failed" /\ stage \notin Live => (waiting \/ pending)' = (waiting \/ pending)
          /\ how = "completed" => (waiting \/ pending)' = (waiting \/ pending)
          /\ how = "failed" => (waiting \/ pending)' \in {(waiting \/ pending), TRUE}
          /\ how = "interrupted" => (waiting \/ pending)' \in {(waiting \/ pending), FALSE}
      BY <2>2 DEF Held, Live, LedgerInv, IInv, TypeOK
    <3>4. QED
      BY <1>1, <2>2, <3>1, <3>3, <3>5 DEF Ending, Lifecycle!End, Lifecycle!Turns, Turns
  <2>3. QED
    BY <2>1, <2>2 DEF Ending, Lifecycle!Next
<1>7. QED
  BY <1>4, <1>5, <1>6 DEF Kept

\* The turn that runs leaves a request.
LEMMA AskingKept == ASSUME LedgerInv, Asking PROVE Kept
<1>1. Ledger'
  BY DEF LedgerInv, Ledger, Asking, Fresh
<1>2. \A t \in Turns : Final(t)
  BY DEF Asking, Final
<1>3. active \in Turns /\ Record(active) = "started"
  BY TurnOwnsSlot DEF LedgerInv, Ledger, Asking, Live, TurnStages, Record
<1>4. [t \in Turns |-> Record(t)]' = [t \in Turns |-> Record(t)]
  BY DEF Asking, Record
<1>5. Lifecycle!Ask
  BY <1>3, <1>4 DEF Asking, Lifecycle!Ask, Lifecycle!Turns, Turns
<1>6. QED
  BY <1>1, <1>2, <1>5 DEF Kept, Lifecycle!Next

\* A request leaves the overlay, the rollout, both or neither.
LEMMA DecidingKept == ASSUME LedgerInv, Deciding PROVE Kept
<1>1. Ledger'
  BY DEF LedgerInv, Ledger, Deciding, Still, Fresh, Live
<1>2. \A t \in Turns : Final(t)
  BY DEF Deciding, Final
<1>3. [t \in Turns |-> Record(t)]' = [t \in Turns |-> Record(t)]
  BY DEF Deciding, Record
<1>4. ASSUME waiting' \/ pending' PROVE UNCHANGED Lifecycle!vars
  <2>1. (waiting \/ pending)' = (waiting \/ pending)
    BY <1>4 DEF Deciding
  <2>2. QED
    BY <1>3, <2>1 DEF Deciding, Lifecycle!vars
<1>5. CASE ~(waiting' \/ pending')
  <2>1. Lifecycle!Resolve
    BY <1>3, <1>5 DEF Deciding, Lifecycle!Resolve
  <2>2. QED
    BY <1>1, <1>2, <2>1 DEF Kept, Lifecycle!Next
<1>6. CASE waiting' \/ pending'
  BY <1>1, <1>2, <1>4, <1>6 DEF Kept
<1>7. QED
  BY <1>5, <1>6

\* A thread that waits is interrupted: a turn that was recorded is no turn that owns the
\* slot before its start.
LEMMA AbandoningKept == ASSUME LedgerInv, Abandoning PROVE Kept
<1>1. PICK r \in Recorded : ended' = [ended EXCEPT ![r] = "abandoned"]
  BY DEF Abandoning
<1>2. r \in Turns /\ (starts[r] > 0 \/ ended[r] # "none")
  BY DEF Recorded
<1>3. \A t \in Turns : ended'[t] = IF t = r THEN "abandoned" ELSE ended[t]
  BY <1>1 DEF LedgerInv, IInv, TypeOK
<1>4. Ledger'
  <2>1. ~(r >= nextTurn)
    BY <1>2 DEF LedgerInv, Ledger
  <2>2. active \in Turns /\ stage \notin Live \cup {"notify"} => active # r
    BY <1>2 DEF LedgerInv, Ledger, Fresh
  <2>3. stage' \notin Live
    BY DEF Abandoning, Still, Live
  <2>4. QED
    BY <1>3, <2>1, <2>2, <2>3 DEF LedgerInv, Ledger, Abandoning, Still, Fresh
<1>5. \A t \in Turns : Final(t)
  BY <1>3 DEF Abandoning, Final
<1>6. Lifecycle!Abandon
  <2>1. Record(r) # "none"
    BY <1>2 DEF Record
  <2>2. ASSUME NEW t \in Turns
        PROVE  Record(t)' = IF t = r THEN "abandoned" ELSE Record(t)
    BY <1>3 DEF Record, Abandoning
  <2>3. [t \in Turns |-> Record(t)]' = [[t \in Turns |-> Record(t)] EXCEPT ![r] = "abandoned"]
    BY <2>2
  <2>4. QED
    BY <1>2, <2>1, <2>3 DEF Abandoning, Lifecycle!Abandon, Lifecycle!Turns, Turns
<1>7. QED
  BY <1>4, <1>5, <1>6 DEF Kept, Lifecycle!Next

\* The slot is freed.
LEMMA ReleasingKept == ASSUME LedgerInv, Releasing PROVE Kept
<1>1. Ledger'
  BY TurnValues DEF LedgerInv, Ledger, Releasing, Live
<1>2. \A t \in Turns : Final(t)
  BY DEF Releasing, Final
<1>3. [Lifecycle!Next]_(Lifecycle!vars)
  BY DEF Releasing, Held, Record, Lifecycle!Next, Lifecycle!Release, Lifecycle!NoTurn, NoTurn, Lifecycle!vars
<1>4. QED
  BY <1>1, <1>2, <1>3 DEF Kept

\* A restart forgets what is in memory and closes at most the last turn.
LEMMA RestartKept == ASSUME LedgerInv, Restart PROVE Kept
<1>1. PICK last \in 0 .. MaxTurn :
        /\ \A t \in Recorded : t <= last
        /\ last = 0 \/ last \in Recorded
        /\ nextTurn' = last + 1
        /\ ended' \in {ended} \cup {[ended EXCEPT ![t] = "failed"] :
                         t \in {u \in Turns : /\ u = last /\ ~pending
                                             /\ starts[u] > 0 /\ ended[u] = "none"}}
  BY DEF Restart, NextSeed
<1>2. active' = NoTurn /\ stage' = "recv" /\ starts' = starts
  BY DEF Restart
<1>3. \/ ended' = ended
      \/ /\ last \in Turns /\ starts[last] > 0 /\ ended[last] = "none" /\ ~pending
         /\ ended' = [ended EXCEPT ![last] = "failed"]
  BY <1>1
<1>4. /\ last \in Nat /\ (last \in Turns <=> last # 0) /\ \A t \in Turns : t \in Nat
      /\ ended \in [Turns -> Outcomes] /\ starts \in [Turns -> Nat]
  BY MaxTurnAssumption DEF Turns, LedgerInv, IInv, TypeOK
<1>5. \A t \in Turns : Final(t)
  BY <1>2, <1>3, <1>4 DEF Final
<1>6. Ledger'
  <2>1. ASSUME NEW t \in Turns, t >= nextTurn' PROVE starts'[t] = 0 /\ ended'[t] = "none"
    <3>1. ~(t <= last) /\ t # last
      BY <1>1, <1>4, <2>1
    <3>2. t \notin Recorded
      BY <1>1, <3>1
    <3>3. QED
      BY <1>2, <1>3, <1>4, <3>1, <3>2 DEF Recorded
  <2>2. QED
    BY <1>2, <2>1, TurnValues DEF LedgerInv, Ledger, Live
<1>7. Lifecycle!Restart
  <2>1. \A t \in Turns : Record(t) # "none" <=> t \in Recorded
    BY <1>4 DEF Record, Recorded
  <2>2. \/ \A t \in Turns : Record(t)' = Record(t)
        \/ /\ last > 0 /\ last \in Turns /\ Record(last) = "started"
           /\ \A t \in Turns : Record(t)' = IF t = last THEN "failed" ELSE Record(t)
           /\ ~pending
    <3>1. CASE ended' = ended
      BY <1>2, <3>1 DEF Record
    <3>2. CASE /\ last \in Turns /\ starts[last] > 0 /\ ended[last] = "none" /\ ~pending
               /\ ended' = [ended EXCEPT ![last] = "failed"]
      <4>1. \A t \in Turns : ended'[t] = IF t = last THEN "failed" ELSE ended[t]
        BY <1>4, <3>2
      <4>2. QED
        BY <1>2, <1>4, <3>2, <4>1 DEF Record
    <3>3. QED
      BY <1>3, <3>1, <3>2
  <2> DEFINE rec == [t \in Turns |-> Record(t)]
             new == [t \in Turns |-> Record(t)']
  <2>3. new = rec \/ (last > 0 /\ rec[last] = "started" /\ new = [rec EXCEPT ![last] = "failed"]
                    /\ ~pending)
    BY <2>2
  <2>6. waiting' = pending /\ pending' = pending /\ pending \in BOOLEAN /\ waiting \in BOOLEAN
    BY DEF Restart, LedgerInv, IInv, TypeOK
  <2>7. /\ (waiting \/ pending)' \in {(waiting \/ pending), FALSE}
        /\ ~pending => ~(waiting \/ pending)'
    BY <2>6
  <2>4. (\A t \in Turns : rec[t] # "none" => t <= last) /\ (last = 0 \/ rec[last] # "none")
    BY <1>1, <1>4, <2>1
  <2>5. QED
    BY <1>1, <1>2, <2>3, <2>4, <2>7
    DEF Lifecycle!Restart, Lifecycle!Turns, Turns, Lifecycle!NoTurn, NoTurn
<1>8. QED
  BY <1>5, <1>6, <1>7 DEF Kept, Lifecycle!Next

-----------------------------------------------------------------------------
(* Together.                                                               *)

\* An empty rollout is a ledger, and the initial state of TurnLifecycle.
LEMMA InitLedger == Init => LedgerInv /\ Lifecycle!Init
<1> SUFFICES ASSUME Init PROVE LedgerInv /\ Lifecycle!Init
  OBVIOUS
<1>1. Ledger
  BY TurnValues DEF Init, Ledger, Live
<1>2. Lifecycle!Init
  BY DEF Init, Record, Lifecycle!Init, Lifecycle!NoTurn, NoTurn, Lifecycle!Turns, Turns
<1>3. QED
  BY <1>1, <1>2, InitIInv DEF LedgerInv

\* Every step keeps the ledger and is a step of TurnLifecycle.
LEMMA StepKept == ASSUME LedgerInv, [Next]_vars PROVE LedgerInv' /\ Kept
<1>1. IInv'
  BY NextIInv DEF LedgerInv
<1>2. Kept
  <2>1. CASE UNCHANGED vars
    BY <2>1, QuietKept DEF vars, slot, actorVars, rollout, requests, Quiet, Held, Still
  <2>2. ASSUME NEW c \in Callers, Call(c) \/ InterruptRead(c) \/ CallerStep(c) PROVE Kept
    BY <2>2, CallerKinds, QuietKept, ReservingKept, CompactingKept DEF LedgerInv
  <2>3. CASE ActorStep
    BY <2>3, ActorKinds, QuietKept, ReservingKept, StartingKept, AskingKept, EndingKept,
       ReleasingKept, DecidingKept, AbandoningKept
    DEF LedgerInv
  <2>4. CASE Restart
    BY <2>4, RestartKept
  <2>5. QED
    BY <2>1, <2>2, <2>3, <2>4 DEF Next
<1>3. QED
  BY <1>1, <1>2 DEF Kept, LedgerInv

\* The ledger is kept in every behaviour.
LEMMA LedgerInvariance == Spec => []LedgerInv
<1>1. Init => LedgerInv
  BY InitLedger
<1>2. LedgerInv /\ [Next]_vars => LedgerInv'
  BY StepKept
<1>3. QED
  BY <1>1, <1>2, PTL DEF Spec

\* A turn id is started at most once, restarts included; a turn that ended is never
\* started again, and its end is replaced only by the interrupt of a thread that waits.
THEOREM TurnsAreFinal == Spec => EndedTurnIsFinal
<1>1. LedgerInv /\ [Next]_vars =>
        [\A t \in Turns :
           /\ starts'[t] <= 1
           /\ ended[t] # "none" =>
                /\ starts'[t] = starts[t]
                /\ \/ ended'[t] = ended[t]
                   \/ ended'[t] = "abandoned" /\ waiting /\ ~waiting' /\ ~pending']_vars
  <2> SUFFICES ASSUME LedgerInv, [Next]_vars, NEW t \in Turns
               PROVE  starts'[t] <= 1 /\ Final(t)
    BY DEF Final
  <2>1. Ledger' /\ Final(t)
    BY StepKept DEF Kept
  <2>2. QED
    BY <2>1 DEF Ledger
<1>2. QED
  BY <1>1, LedgerInvariance, PTL DEF Spec, EndedTurnIsFinal

\* The runtime implements the life of its turns: a turn is started and ended in the rollout
\* only while it owns the slot, and only forward; all that can follow is the interrupt of
\* a thread that waits.
THEOREM ImplementsLifecycle == Spec => LifecycleSpec
<1>1. Init => Lifecycle!Init
  BY InitLedger
<1>2. LedgerInv /\ [Next]_vars => [Lifecycle!Next]_(Lifecycle!vars)
  BY StepKept DEF Kept
<1>3. QED
  BY <1>1, <1>2, LedgerInvariance, PTL DEF Spec, LifecycleSpec, Lifecycle!Spec
-----------------------------------------------------------------------------
(* An accepted interrupt reaches its turn.  The one-shot of a turn can hold *)
(* a signal only while the turn owns the slot and its handler still runs,   *)
(* and whoever interrupts a turn read it from the slot (Signals).           *)

Armed(t) == itx[t] \in {"armed", "fired"}
Interrupting(c) == pc[c] \in {"signalling", "signalled"}

Signals ==
  /\ active \in Turns => active < nextTurn
  /\ \A t \in Turns : Armed(t) => active = t /\ stage # "notify"
  /\ \A c \in Callers : Interrupting(c) => mine[c] \in Turns /\ mine[c] < nextTurn

SignalInv == LedgerInv /\ Signals /\ InterruptReachesTurn
SignalsKept == Signals' /\ InterruptReachesTurn'

\* No caller begins to interrupt, or changes the turn it interrupts.
NoNewInterrupt ==
  /\ mine' = mine
  /\ \A c \in Callers : Interrupting(c)' => pc'[c] = pc[c]

\* Moving a caller elsewhere, or answering it, is no new interrupt.
LEMMA GotoNoInterrupt ==
  ASSUME TypeOK, NEW c, NEW where \in CallerStates \ {"signalling", "signalled"},
         Goto(c, where) \/ Answer(c), mine' = mine
  PROVE  NoNewInterrupt
BY DEF TypeOK, Goto, Answer, NoNewInterrupt, Interrupting

\* A step that leaves slot and signals alone and interrupts no turn.
LEMMA SignalsKeptBy ==
  ASSUME SignalInv, NoNewInterrupt, UNCHANGED <<slot, signals>>,
         \A t \in Turns : ended'[t] = "interrupted" => ended[t] = "interrupted",
         stage' = "notify" => stage = "notify"
  PROVE  SignalsKept
<1>1. \A t \in Turns : Armed(t)' <=> Armed(t)
  BY DEF signals, Armed
<1>2. Signals'
  BY <1>1 DEF SignalInv, Signals, NoNewInterrupt, Interrupting, slot
<1>3. InterruptReachesTurn'
  <2> SUFFICES ASSUME NEW c \in Callers, pc'[c] = "signalled"
               PROVE  \/ notified'[mine'[c]]
                      \/ itx'[mine'[c]] = "fired" /\ active' = mine'[c]
                      \/ itx'[mine'[c]] = "dead" /\ ended'[mine'[c]] # "interrupted"
    BY DEF InterruptReachesTurn
  <2>1. pc[c] = "signalled" /\ mine'[c] = mine[c] /\ mine[c] \in Turns
    BY DEF SignalInv, Signals, NoNewInterrupt, Interrupting
  <2>2. \/ notified[mine[c]]
        \/ itx[mine[c]] = "fired" /\ active = mine[c]
        \/ itx[mine[c]] = "dead" /\ ended[mine[c]] # "interrupted"
    BY <2>1 DEF SignalInv, InterruptReachesTurn
  <2>3. QED
    BY <2>1, <2>2 DEF slot, signals
<1>4. QED
  BY <1>2, <1>3 DEF SignalsKept

\* In particular one that leaves the rollout alone.
LEMMA SignalsUntouched ==
  ASSUME SignalInv, NoNewInterrupt, UNCHANGED <<slot, signals, ended>>,
         stage' = "notify" => stage = "notify"
  PROVE  SignalsKept
BY SignalsKeptBy

\* A turn id is reserved: it is not the turn of any interrupt.
LEMMA SignalsReserved ==
  ASSUME SignalInv, NoNewInterrupt, NEW u \in Turns, ReserveNext(u), ended' = ended,
         stage' # "notify"
  PROVE  SignalsKept
<1>1. /\ active = NoTurn /\ u = nextTurn /\ active' = u /\ nextTurn' = nextTurn + 1
      /\ itx' = [itx EXCEPT ![u] = "armed"] /\ notified' = notified
      /\ nextTurn \in Nat /\ itx \in [Turns -> SignalStates]
      /\ \A t \in Turns : t \in Nat
  BY DEF ReserveNext, SignalInv, LedgerInv, IInv, TypeOK, Turns
<1>2. \A t \in Turns : t # u => ~Armed(t) /\ itx'[t] = itx[t]
  BY <1>1, TurnValues DEF SignalInv, Signals
<1>3. Signals'
  <2>1. \A t \in Turns : Armed(t)' => active' = t
    BY <1>1, <1>2 DEF Armed
  <2>2. \A c \in Callers : Interrupting(c)' => mine'[c] \in Turns /\ mine'[c] < nextTurn'
    <3>1. \A c \in Callers : Interrupting(c)' => mine'[c] \in Turns /\ mine'[c] < nextTurn
      BY DEF SignalInv, Signals, NoNewInterrupt, Interrupting
    <3>2. \A t \in Turns : t < nextTurn => t < nextTurn'
      BY <1>1
    <3>3. QED
      BY <3>1, <3>2
  <2>3. QED
    BY <1>1, <2>1, <2>2 DEF Signals
<1>4. InterruptReachesTurn'
  <2> SUFFICES ASSUME NEW c \in Callers, pc'[c] = "signalled"
               PROVE  \/ notified'[mine'[c]]
                      \/ itx'[mine'[c]] = "fired" /\ active' = mine'[c]
                      \/ itx'[mine'[c]] = "dead" /\ ended'[mine'[c]] # "interrupted"
    BY DEF InterruptReachesTurn
  <2>1. pc[c] = "signalled" /\ mine'[c] = mine[c] /\ mine[c] \in Turns /\ mine[c] < nextTurn
    BY DEF SignalInv, Signals, NoNewInterrupt, Interrupting
  <2>2. mine[c] # u
    BY <1>1, <2>1
  <2>3. \/ notified[mine[c]]
        \/ itx[mine[c]] = "dead" /\ ended[mine[c]] # "interrupted"
    BY <1>2, <2>1, <2>2 DEF SignalInv, InterruptReachesTurn, Armed
  <2>4. QED
    BY <1>1, <1>2, <2>1, <2>2, <2>3
<1>5. QED
  BY <1>3, <1>4 DEF SignalsKept

\* The handler of a turn returns: it woke the caller, or did not record an interrupt.
LEMMA SignalsHandled ==
  ASSUME SignalInv, NoNewInterrupt, HandlerReturns, current.turn = active, active \in Turns,
         \A t \in Turns : t # active => ended'[t] = ended[t],
         \A t \in Turns : notified[t] => notified'[t],
         notified'[active] \/ ended'[active] # "interrupted"
  PROVE  SignalsKept
<1>1. /\ stage' = "notify" /\ itx' = [itx EXCEPT ![active] = "dead"]
      /\ UNCHANGED <<active, nextTurn>> /\ itx \in [Turns -> SignalStates]
  BY DEF HandlerReturns, slot, SignalInv, LedgerInv, IInv, TypeOK
<1>2. itx'[active] = "dead" /\ \A t \in Turns : t # active => ~Armed(t) /\ itx'[t] = itx[t]
  BY <1>1 DEF SignalInv, Signals
<1>3. Signals'
  <2>1. \A t \in Turns : ~Armed(t)'
    BY <1>2 DEF Armed
  <2>2. QED
    BY <1>1, <2>1 DEF SignalInv, Signals, NoNewInterrupt, Interrupting
<1>4. InterruptReachesTurn'
  <2> SUFFICES ASSUME NEW c \in Callers, pc'[c] = "signalled"
               PROVE  \/ notified'[mine'[c]]
                      \/ itx'[mine'[c]] = "dead" /\ ended'[mine'[c]] # "interrupted"
    BY DEF InterruptReachesTurn
  <2>1. pc[c] = "signalled" /\ mine'[c] = mine[c] /\ mine[c] \in Turns
    BY DEF SignalInv, Signals, NoNewInterrupt, Interrupting
  <2>2. CASE mine[c] = active
    BY <1>2, <2>1, <2>2
  <2>3. CASE mine[c] # active
    <3>1. \/ notified[mine[c]]
          \/ itx[mine[c]] = "dead" /\ ended[mine[c]] # "interrupted"
      BY <2>1, <2>3 DEF SignalInv, InterruptReachesTurn
    <3>2. QED
      BY <1>2, <2>1, <2>3, <3>1
  <2>4. QED
    BY <2>2, <2>3
<1>5. QED
  BY <1>3, <1>4 DEF SignalsKept

\* The slot passes from a turn to nobody, or to a compaction: the turn hears nothing more.
LEMMA SignalsGone ==
  ASSUME SignalInv, NoNewInterrupt, active' \notin Turns,
         UNCHANGED <<nextTurn, notified, ended>>,
         \A t \in Turns : itx'[t] = itx[t] \/ itx'[t] = "dead",
         \A t \in Turns : Armed(t) => itx'[t] = "dead" /\ ended[t] # "interrupted"
  PROVE  SignalsKept
<1>1. \A t \in Turns : ~Armed(t)'
  BY DEF Armed
<1>2. Signals'
  BY <1>1 DEF SignalInv, Signals, NoNewInterrupt, Interrupting
<1>3. InterruptReachesTurn'
  <2> SUFFICES ASSUME NEW c \in Callers, pc'[c] = "signalled"
               PROVE  \/ notified'[mine'[c]]
                      \/ itx'[mine'[c]] = "dead" /\ ended'[mine'[c]] # "interrupted"
    BY DEF InterruptReachesTurn
  <2>1. pc[c] = "signalled" /\ mine'[c] = mine[c] /\ mine[c] \in Turns
    BY DEF SignalInv, Signals, NoNewInterrupt, Interrupting
  <2>2. QED
    BY <2>1 DEF SignalInv, InterruptReachesTurn, Armed
<1>4. QED
  BY <1>2, <1>3 DEF SignalsKept

\* Every step of a caller keeps the promise.
LEMMA CallerSignals ==
  ASSUME SignalInv, NEW c \in Callers, Call(c) \/ InterruptRead(c) \/ CallerStep(c)
  PROVE  SignalsKept
<1>0. TypeOK /\ pc \in [Callers -> CallerStates]
  BY DEF SignalInv, LedgerInv, IInv, TypeOK
<1>1. CASE Call(c)
  <2>1. NoNewInterrupt
    BY <1>0, <1>1, GotoNoInterrupt DEF Call, CallerStates
  <2>2. QED
    BY <1>1, <2>1, SignalsUntouched DEF Call, rollout, actorVars
<1>2. CASE InterruptRead(c)
  <2>1. /\ active \in Turns /\ active < nextTurn /\ mine' = [mine EXCEPT ![c] = active]
        /\ pc' = [pc EXCEPT ![c] = "signalling"]
    BY <1>2, TurnValues DEF InterruptRead, ActiveTurnId, Goto, SignalInv, Signals
  <2>2. mine \in [Callers -> {NoTurn} \cup Turns]
    BY <1>0 DEF TypeOK
  <2>3. UNCHANGED <<slot, signals, stage, ended>>
    BY <1>2 DEF InterruptRead, actorVars, rollout
  <2>4. Signals'
    <3>1. \A t \in Turns : Armed(t)' <=> Armed(t)
      BY <2>3 DEF signals, Armed
    <3>2. \A d \in Callers : Interrupting(d)' => mine'[d] \in Turns /\ mine'[d] < nextTurn
      BY <1>0, <2>1, <2>2 DEF SignalInv, Signals, Interrupting
    <3>3. QED
      BY <2>3, <3>1, <3>2 DEF SignalInv, Signals, slot
  <2>5. InterruptReachesTurn'
    BY <1>0, <2>1, <2>2, <2>3 DEF SignalInv, InterruptReachesTurn, slot, signals
  <2>6. QED
    BY <2>4, <2>5 DEF SignalsKept
<1>3. CASE CheckBusy(c) \/ Acquire(c) \/ SubmitPlain(c) \/ InterruptReturn(c)
  <2>1. NoNewInterrupt
    BY <1>0, <1>3, GotoNoInterrupt
    DEF CheckBusy, Acquire, SubmitPlain, InterruptReturn, CallerStates
  <2>2. QED
    BY <1>3, <2>1, SignalsUntouched
    DEF CheckBusy, Acquire, SubmitPlain, InterruptReturn, rollout, actorVars
<1>4. CASE SubmitTurn(c)
  <2>1. NoNewInterrupt
    BY <1>0, <1>4, GotoNoInterrupt DEF SubmitTurn, CallerStates
  <2>2. stage' = stage /\ ended' = ended
    BY <1>4 DEF SubmitTurn, rollout, actorVars
  <2>3. CASE active # NoTurn
    BY <1>4, <2>1, <2>2, <2>3, SignalsUntouched DEF SubmitTurn, ReserveNext
  <2>4. CASE active = NoTurn
    <3>1. PICK u \in Turns : ReserveNext(u)
      BY <1>4, <2>4 DEF SubmitTurn
    <3>2. stage' # "notify"
      BY <2>2, <2>4, TurnOwnsSlot, TurnValues DEF SignalInv, LedgerInv, TurnStages
    <3>3. QED
      BY <2>1, <2>2, <3>1, <3>2, SignalsReserved
  <2>5. QED
    BY <2>3, <2>4
<1>5. CASE SubmitCompaction(c)
  <2>1. NoNewInterrupt
    BY <1>0, <1>5, GotoNoInterrupt DEF SubmitCompaction, CallerStates
  <2>2. UNCHANGED <<nextTurn, signals, stage, ended>>
    BY <1>5 DEF SubmitCompaction, rollout, actorVars
  <2>3. CASE active # NoTurn
    BY <1>5, <2>1, <2>2, <2>3, SignalsUntouched DEF SubmitCompaction, slot
  <2>4. CASE active = NoTurn
    <3>1. active' = Compaction
      BY <1>5, <2>4 DEF SubmitCompaction
    <3>2. \A t \in Turns : ~Armed(t)
      BY <2>4, TurnValues DEF SignalInv, Signals
    <3>3. QED
      BY <2>1, <2>2, <3>1, <3>2, TurnValues, SignalsGone DEF signals
  <2>5. QED
    BY <2>3, <2>4
<1>6. CASE InterruptSend(c)
  <2> DEFINE t == mine[c]
  <2>1. UNCHANGED <<slot, notified, stage, mine, ended>> /\ pc[c] = "signalling" /\ t \in Turns
    BY <1>6 DEF InterruptSend, actorVars, rollout, SignalInv, Signals, Interrupting
  <2>2. CASE itx[t] # "armed"
    <3>1. Goto(c, "idle") /\ itx' = itx
      BY <1>6, <2>2 DEF InterruptSend
    <3>2. NoNewInterrupt
      BY <1>0, <2>1, <3>1, GotoNoInterrupt DEF CallerStates
    <3>3. QED
      BY <2>1, <3>1, <3>2, SignalsUntouched DEF signals
  <2>3. CASE itx[t] = "armed"
    <3>1. itx' = [itx EXCEPT ![t] = "fired"] /\ pc' = [pc EXCEPT ![c] = "signalled"]
      BY <1>6, <2>3 DEF InterruptSend, Goto
    <3>2. itx \in [Turns -> SignalStates] /\ active = t
      BY <1>0, <2>1, <2>3 DEF TypeOK, SignalInv, Signals, Armed
    <3>3. Signals'
      <4>1. \A u \in Turns : Armed(u)' => Armed(u)
        BY <2>3, <3>1, <3>2 DEF Armed
      <4>2. \A d \in Callers : Interrupting(d)' => Interrupting(d)
        BY <1>0, <2>1, <3>1 DEF Interrupting
      <4>3. QED
        BY <2>1, <4>1, <4>2 DEF SignalInv, Signals, slot
    <3>4. InterruptReachesTurn'
      <4> SUFFICES ASSUME NEW d \in Callers, pc'[d] = "signalled"
                   PROVE  \/ notified'[mine'[d]]
                          \/ itx'[mine'[d]] = "fired" /\ active' = mine'[d]
                          \/ itx'[mine'[d]] = "dead" /\ ended'[mine'[d]] # "interrupted"
        BY DEF InterruptReachesTurn
      <4>1. CASE mine[d] = t
        BY <2>1, <3>1, <3>2, <4>1 DEF slot
      <4>2. CASE mine[d] # t
        <5>1. pc[d] = "signalled"
          BY <1>0, <3>1, <4>2
        <5>2. itx'[mine[d]] = itx[mine[d]]
          BY <3>1, <3>2, <4>2, <5>1 DEF SignalInv, Signals, Interrupting
        <5>3. QED
          BY <2>1, <5>1, <5>2 DEF SignalInv, InterruptReachesTurn, slot
      <4>3. QED
        BY <4>1, <4>2
    <3>5. QED
      BY <3>3, <3>4 DEF SignalsKept
  <2>4. QED
    BY <2>2, <2>3
<1>7. QED
  BY <1>1, <1>2, <1>3, <1>4, <1>5, <1>6 DEF CallerStep

\* So does every step of the actor.
LEMMA ActorSignals ==
  ASSUME SignalInv, ActorStep
  PROVE  SignalsKept
<1>0. /\ TypeOK /\ itx \in [Turns -> SignalStates] /\ notified \in [Turns -> BOOLEAN]
      /\ ended \in [Turns -> Outcomes] /\ pc \in [Callers -> CallerStates]
  BY DEF SignalInv, LedgerInv, IInv, TypeOK
<1>1. stage \in TurnStages => current.turn = active /\ active \in Turns
  BY TurnOwnsSlot DEF SignalInv, LedgerInv
<1>2. active \in Turns /\ stage # "notify" => ended[active] = "none"
  BY DEF SignalInv, LedgerInv, Ledger, Fresh
<1>3. ASSUME mine' = mine /\ (pc' = pc \/ \E c : Answer(c)) PROVE NoNewInterrupt
  BY <1>0, <1>3, GotoNoInterrupt DEF NoNewInterrupt, CallerStates
<1>4. ASSUME NEW kind \in Outcomes, Ends(kind), stage \in TurnStages
      PROVE  ended'[active] = kind /\ \A t \in Turns : t # active => ended'[t] = ended[t]
  BY <1>0, <1>1, <1>4 DEF Ends
<1>5. CASE Receive
  <2>1. Head(queue) \in Submissions
    BY <1>0, <1>5 DEF Receive, TypeOK
  <2>2. stage' # "notify"
    BY <1>5, <2>1 DEF Receive, TurnOps, Submissions, Ops
  <2>3. NoNewInterrupt
    BY <1>3, <1>5 DEF Receive, callers
  <2>4. QED
    BY <1>5, <2>2, <2>3, SignalsUntouched DEF Receive, rollout
<1>6. CASE StartTurn
  <2>1. NoNewInterrupt
    BY <1>0, <1>6, GotoNoInterrupt DEF StartTurn, CallerStates
  <2>2. QED
    BY <1>6, <2>1, SignalsUntouched DEF StartTurn
<1>7. CASE PrepareTurn \/ RecordInput \/ DrainInbox \/ SampleDone \/ CheckMail \/ CheckGoal \/ SendOwn
  <2>1. NoNewInterrupt
    BY <1>3, <1>7
    DEF PrepareTurn, RecordInput, DrainInbox, SampleDone, CheckMail, CheckGoal, SendOwn, callers
  <2>2. QED
    BY <1>7, <2>1, SignalsUntouched
    DEF PrepareTurn, RecordInput, DrainInbox, SampleDone, CheckMail, CheckGoal, SendOwn,
        AfterMail, rollout, actorVars
<1>8. CASE RefuseStart
  <2>1. NoNewInterrupt
    BY <1>3, <1>8 DEF RefuseStart, HandlerReturns
  <2>2. stage = "start" /\ (ended' = ended \/ Ends("failed")) /\ notified' = notified /\ HandlerReturns
    BY <1>8 DEF RefuseStart
  <2>3. QED
    BY <1>1, <1>2, <1>4, <2>1, <2>2, SignalsHandled DEF TurnStages, Outcomes
<1>9. CASE FailTurn
  <2>1. NoNewInterrupt
    BY <1>3, <1>9 DEF FailTurn, HandlerReturns
  <2>2. /\ stage \in {"before", "record", "running"} /\ HandlerReturns
        /\ (ended' = ended \/ Ends("failed")) /\ notified' = notified
    BY <1>9 DEF FailTurn
  <2>3. QED
    BY <1>1, <1>2, <1>4, <2>1, <2>2, SignalsHandled DEF TurnStages, Outcomes
<1>10. CASE InterruptTurn
  <2>1. NoNewInterrupt
    BY <1>3, <1>10 DEF InterruptTurn, HandlerReturns
  <2>2. stage \in {"before", "running"} /\ HandlerReturns
    BY <1>10 DEF InterruptTurn
  <2>3. \/ Ends("interrupted") /\ notified' = [notified EXCEPT ![active] = TRUE]
        \/ (ended' = ended \/ Ends("failed")) /\ notified' = notified
    BY <1>1, <1>10, <2>2 DEF InterruptTurn, TurnStages
  <2>4. QED
    BY <1>0, <1>1, <1>2, <1>4, <2>1, <2>2, <2>3, SignalsHandled DEF TurnStages, Outcomes
<1>11. CASE FinishTurn
  <2>1. NoNewInterrupt
    BY <1>3, <1>11 DEF FinishTurn, HandlerReturns
  <2>2. /\ stage = "finishing" /\ HandlerReturns /\ notified' = notified
        /\ Ends("completed") \/ ended' = ended \/ Ends("failed")
    BY <1>11 DEF FinishTurn
  <2>3. QED
    BY <1>1, <1>2, <1>4, <2>1, <2>2, SignalsHandled DEF TurnStages, Outcomes
<1>12. CASE ReleaseTurn
  <2>1. NoNewInterrupt
    BY <1>3, <1>12 DEF ReleaseTurn
  <2>2. active' = NoTurn /\ UNCHANGED <<nextTurn, signals, ended>> /\ stage = "notify"
    BY <1>1, <1>12, TurnValues DEF ReleaseTurn, DropGuard, TurnStages, rollout
  <2>3. \A t \in Turns : ~Armed(t)
    BY <2>2 DEF SignalInv, Signals
  <2>4. QED
    BY <2>1, <2>2, <2>3, TurnValues, SignalsGone DEF signals
<1>13. CASE FinishOther
  <2>1. NoNewInterrupt
    BY <1>3, <1>13 DEF FinishOther, OperationDone
  <2>2. UNCHANGED <<nextTurn, signals, ended>> /\ stage' = "mail"
    BY <1>13 DEF FinishOther, OperationDone
  <2>3. CASE current.turn = NoTurn
    BY <1>13, <2>1, <2>2, <2>3, SignalsUntouched DEF FinishOther, OperationDone, DropGuard, slot
  <2>4. CASE current.turn # NoTurn
    <3>1. active' = NoTurn /\ active = Compaction
      BY <1>13, <2>4
      DEF FinishOther, OperationDone, DropGuard, SignalInv, LedgerInv, IInv, Carried, OneGuardNow, OneGuard, TurnStages
    <3>2. \A t \in Turns : ~Armed(t)
      BY <3>1, TurnValues DEF SignalInv, Signals
    <3>3. QED
      BY <2>1, <2>2, <3>1, <3>2, TurnValues, SignalsGone DEF signals
  <2>5. QED
    BY <2>3, <2>4
<1>14. CASE ReserveMailTurn \/ ReserveGoalTurn
  <2>1. NoNewInterrupt /\ ended' = ended /\ stage' # "notify"
    BY <1>3, <1>14 DEF ReserveMailTurn, ReserveGoalTurn, AfterMail, callers, rollout
  <2>2. UNCHANGED <<slot, signals>> \/ \E u \in Turns : ReserveNext(u)
    BY <1>14 DEF ReserveMailTurn, ReserveGoalTurn
  <2>3. QED
    BY <2>1, <2>2, SignalsUntouched, SignalsReserved
<1>15. CASE Shutdown
  <2>1. NoNewInterrupt
    BY <1>3, <1>15 DEF Shutdown
  <2>2. QED
    BY <1>15, <2>1, SignalsUntouched DEF Shutdown, rollout
<1>16. CASE Exit
  <2>1. NoNewInterrupt
    BY <1>0, <1>16 DEF Exit, NoNewInterrupt, Interrupting
  <2>2. /\ UNCHANGED <<nextTurn, notified, ended>> /\ stage = "exiting" /\ stage' = "stopped"
        /\ active' = IF \E s \in Queued : s.turn # NoTurn THEN NoTurn ELSE active
        /\ \A t \in Turns : itx'[t] = IF \E s \in Queued : s.turn = t THEN "dead" ELSE itx[t]
    BY <1>16 DEF Exit, rollout
  <2>3. CASE \E s \in Queued : s.turn # NoTurn
    <3>1. PICK s \in Queued : s.turn # NoTurn
      BY <2>3
    <3>2. s.turn = active
      BY <3>1 DEF Queued, SignalInv, LedgerInv, IInv, OneGuardNow, OneGuard
    <3>3. \A t \in Turns : Armed(t) => itx'[t] = "dead" /\ ended[t] # "interrupted"
      BY <1>2, <2>2, <3>2 DEF SignalInv, Signals
    <3>4. QED
      BY <2>1, <2>2, <2>3, <3>3, TurnValues, SignalsGone
  <2>4. CASE \A s \in Queued : s.turn = NoTurn
    <3>1. \A t \in Turns : itx'[t] = itx[t]
      BY <2>2, <2>4, TurnValues
    <3>2. itx' = itx
      BY <1>0, <1>16, <3>1 DEF Exit
    <3>3. QED
      BY <2>1, <2>2, <2>4, <3>2, SignalsUntouched DEF slot, signals
  <2>5. QED
    BY <2>3, <2>4
<1>17. CASE Decide \/ InterruptWait
  <2>1. NoNewInterrupt
    BY <1>3, <1>17 DEF Decide, InterruptWait, OperationDone
  <2>2. current.turn = NoTurn
    BY <1>17, TurnValues DEF Decide, InterruptWait, SignalInv, LedgerInv, IInv, Carried, TurnStages
  <2>3. UNCHANGED <<slot, signals>> /\ stage' = "mail"
    BY <1>17, <2>2 DEF Decide, InterruptWait, OperationDone, DropGuard, slot
  <2>4. \A t \in Turns : ended'[t] = "interrupted" => ended[t] = "interrupted"
    BY <1>0, <1>17 DEF Decide, InterruptWait
  <2>5. QED
    BY <2>1, <2>3, <2>4, SignalsKeptBy
<1>18. CASE AskUser
  <2>1. NoNewInterrupt
    BY <1>3, <1>18 DEF AskUser, callers
  <2>2. QED
    BY <1>18, <2>1, SignalsUntouched DEF AskUser, actorVars
<1>19. QED
  BY <1>5, <1>6, <1>7, <1>8, <1>9, <1>10, <1>11, <1>12, <1>13, <1>14, <1>15, <1>16, <1>17, <1>18
  DEF ActorStep

\* Nobody interrupts at the start, and after a restart every caller is new.
LEMMA FreshSignals ==
  /\ Init => Signals /\ InterruptReachesTurn
  /\ Restart => SignalsKept
<1>1. ASSUME Init PROVE Signals /\ InterruptReachesTurn
  BY <1>1, TurnValues DEF Init, Signals, Armed, Interrupting, InterruptReachesTurn
<1>2. ASSUME Restart PROVE SignalsKept
  <2>1. active' = NoTurn /\ (\A t \in Turns : itx'[t] = "unused") /\ \A c \in Callers : pc'[c] = "idle"
    BY <1>2 DEF Restart
  <2>2. QED
    BY <2>1, TurnValues DEF Signals, Armed, Interrupting, InterruptReachesTurn, SignalsKept
<1>3. QED
  BY <1>1, <1>2

\* An interrupted caller is woken or its turn is still there to be interrupted, or the
\* turn slipped past its last interruptible point.
THEOREM InterruptsArrive == Spec => []InterruptReachesTurn
<1>1. Init => SignalInv
  BY InitLedger, FreshSignals DEF SignalInv
<1>2. SignalInv /\ [Next]_vars => SignalInv'
  <2> SUFFICES ASSUME SignalInv, [Next]_vars PROVE SignalInv'
    OBVIOUS
  <2>1. LedgerInv'
    BY StepKept DEF SignalInv
  <2>2. SignalsKept
    <3>1. CASE UNCHANGED vars
      BY <3>1, SignalsUntouched DEF vars, callers, actorVars, rollout, NoNewInterrupt
    <3>2. CASE Restart
      BY <3>2, FreshSignals
    <3>3. QED
      BY <3>1, <3>2, CallerSignals, ActorSignals DEF Next
  <2>3. QED
    BY <2>1, <2>2 DEF SignalInv, SignalsKept
<1>3. SignalInv => InterruptReachesTurn
  BY DEF SignalInv
<1>4. QED
  BY <1>1, <1>2, <1>3, PTL DEF Spec

=============================================================================
