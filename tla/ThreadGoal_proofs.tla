-------------------------- MODULE ThreadGoal_proofs --------------------------
(***************************************************************************)
(* Theorems about ThreadGoal, for any budgets, any statuses a client asks  *)
(* for and any number of goals, turns, tokens, calls and restarts.         *)
(***************************************************************************)
EXTENDS ThreadGoal, TLAPS

(* The inductive invariant.                                                *)

RowStatuses == {"none", "active", "paused", "blocked", "complete", "limited"}
Reports == (0 .. MaxGoals) \X RowStatuses
TurnKinds == {"user", "continuation"}
OpType == [kind : TurnKinds \cup {"effect", "none"}, turn : 0 .. MaxTurns,
           goal : 0 .. MaxGoals, report : Reports]

JobSteps == {"read", "write", "reread"}
JobType == [by : {"none", "actor", "client"}, step : JobSteps \cup {"done", "started"},
            goal : 0 .. MaxGoals, delta : Nat, now : Nat, mark : BOOLEAN, any : BOOLEAN, seen : Row]
AcctType == [turn : 0 .. MaxTurns, continuation : BOOLEAN, last : Nat, goal : 0 .. MaxGoals,
             counted : BOOLEAN]
CallType == [status : Statuses \cup {"none"}, budget : Budgets \cup {0}, seen : Row,
             goal : 0 .. MaxGoals, report : Reports]

\* Where the actor waits for an accounting, and where a turn has the slot.
Charging == {"tool charged", "goal tool charged", "finished"}
TurnStages ==
  InTurn \cup {"candidate", "start", "starting", "finish", "finished", "tell end", "release"}
ActorPlaces == TurnStages \cup {"idle", "effect", "look", "reserve", "dead", "unloaded"}
ClientPlaces == {"idle", "set account", "set accounted", "update", "apply set", "send",
                 "clear account", "clear accounted", "apply clear"}

Types ==
  /\ row \in Row /\ hand \in Row
  /\ slot \in 0 .. MaxTurns /\ queue \in Seq(OpType) /\ pc \in ActorPlaces /\ op \in OpType
  /\ job \in JobType /\ acct \in AcctType /\ wall \in 0 .. MaxGoals /\ pending \in 0 .. MaxGoals
  /\ reported \subseteq Reports /\ usage \in Nat /\ cpc \in ClientPlaces /\ call \in CallType
  /\ turns \in 0 .. MaxTurns /\ goals \in 0 .. MaxGoals
  /\ spent \in 0 .. MaxSpent /\ born \in Seq(0 .. MaxSpent) /\ Len(born) = goals
  /\ told \subseteq Reports /\ missed \subseteq Reports /\ quiet \in 0 .. MaxGoals

\* A goal was created when some of the tokens were spent, and the ids are those given out.
Spent == usage <= spent /\ \A g \in 1 .. goals : born[g] <= spent
KnownGoals ==
  /\ (row = NoRow <=> row.id = 0) /\ row.id <= goals
  /\ {wall, pending, quiet, acct.goal, job.goal, call.seen.id} \subseteq 0 .. goals
KnownTurns ==
  /\ {slot, acct.turn, op.turn} \subseteq 0 .. turns
  /\ \A i \in DOMAIN queue : queue[i].turn <= turns

\* The lock is held by the actor where it waits for it, or by the client where it does.
Locked ==
  /\ job.by = "none" => job.step = "done"
  /\ job.by = "actor" => \/ pc \in Charging /\ job.step # "started"
                         \/ pc = "starting" /\ job.step = "started"
  /\ job.by = "client" => cpc \in {"set accounted", "clear accounted"} /\ job.step \in JobSteps
  /\ pc = "starting" => job.by = "actor"
  /\ job.step \in JobSteps => job.goal # 0

\* The goal a client's call read first is there until the call has updated it.
Called ==
  /\ cpc \in {"set account", "set accounted"} /\ call.seen # NoRow =>
       row # NoRow /\ row.id = call.seen.id
  /\ cpc = "update" => row # NoRow /\ row.id = call.goal
  /\ cpc \in {"update", "apply set"} => call.goal \in 1 .. goals

\* The tokens spent since the baseline of the turn's accounting.
Over(last) == IF usage > last THEN usage - last ELSE 0
Room(tokens) == row.used + tokens <= spent - born[row.id]

\* The turn is at work between its start and its end.
Working == InTurn \cup {"finish", "finished"}

\* What the turn at hand may still charge to the goal fits as well ...
BaselineFits ==
  /\ row # NoRow /\ acct # NoAcct /\ acct.goal = row.id
  /\ pc \in Working /\ ~(job.by = "actor" /\ job.step = "reread")
  => Room(Over(acct.last))

\* ... and so does what the holder of the lock is about to charge.
ChargeFits ==
  /\ job.by = "actor" /\ job.step \in JobSteps =>
       /\ job.now = usage /\ (acct = NoAcct \/ acct.goal = job.goal)
       /\ job.step # "reread" /\ row.id = job.goal => Room(job.delta)
  /\ job.by = "client" => job.delta = 0 /\ (acct = NoAcct \/ job.now = acct.last)
  /\ job.step = "write" => job.seen.id = job.goal /\ (row.id = job.goal => row.used = job.seen.used)

\* The slot is that of the turn at work or of the one operation in the queue that has one.
IsTurn(o) == o.kind \in TurnKinds
Slots ==
  /\ pc \in TurnStages => slot # 0
  /\ \A i \in DOMAIN queue : IsTurn(queue[i]) =>
       /\ slot # 0 /\ pc \notin TurnStages
       /\ \A j \in DOMAIN queue : IsTurn(queue[j]) => j = i
  /\ slot # 0 => pc \in TurnStages \/ \E i \in DOMAIN queue : IsTurn(queue[i])

\* A goal whose continuation showed no activity is suppressed, and none of its
\* continuations is on its way.
Wanted(o) == o.kind = "continuation" => o.goal # 0 /\ o.goal # quiet
Quieted ==
  /\ quiet # 0 /\ row.id = quiet => row.suppressed
  /\ \A i \in DOMAIN queue : Wanted(queue[i])
  /\ pc \in InTurn \cup {"candidate", "start", "starting"} => Wanted(op)

\* A report that is on its way is with the operation that carries it ...
Placed ==
  /\ \A i \in DOMAIN queue : queue[i].kind # "effect" => queue[i].report = NoReport
  /\ \A i, j \in DOMAIN queue : queue[i].report = queue[j].report /\ i # j => queue[i].report = NoReport
  /\ op.report # NoReport => pc \in {"tell", "tell end", "effect"}
  /\ call.report # NoReport => cpc = "send"

\* ... in one place only, and was marked as given.
Sent == {queue[i].report : i \in DOMAIN queue}
Telling ==
  /\ op.report # NoReport => op.report \notin Sent \cup {call.report}
  /\ call.report # NoReport => call.report \notin Sent
  /\ told \cup missed \cup (OnTheWay \ {NoReport}) \subseteq reported /\ NoReport \notin reported

Money == ChargedOnce /\ BaselineFits /\ ChargeFits

IInv ==
  /\ Types /\ Spent /\ KnownGoals /\ KnownTurns /\ Locked /\ Called /\ Money
  /\ Slots /\ Quieted /\ ForgottenOnlyFor /\ Placed /\ Telling /\ ReportsArrive

-----------------------------------------------------------------------------
(* Facts about the operators of the model.                                 *)

LEMMA Numbers ==
  /\ MaxGoals \in Nat /\ MaxTurns \in Nat /\ MaxSpent \in Nat /\ Budgets \subseteq Nat
  /\ Statuses \subseteq RowStatuses
BY BoundsAssumption DEF RowStatuses

LEMMA Blanks ==
  /\ NoRow \in Row /\ NoJob \in JobType /\ NoAcct \in AcctType /\ NoOp \in OpType
  /\ NoCall \in CallType /\ NoReport \in Reports
  /\ ~Active(NoRow) /\ NoRow.id = 0
<1>1. NoRow \in Row /\ NoReport \in Reports /\ ~Active(NoRow) /\ NoRow.id = 0
  BY Numbers DEF NoRow, Row, NoReport, Reports, RowStatuses, Active
<1>2. NoJob \in JobType
  BY <1>1, Numbers DEF NoJob, JobType, JobSteps
<1>3. NoAcct \in AcctType
  BY Numbers DEF NoAcct, AcctType
<1>4. NoOp \in OpType
  BY <1>1, Numbers DEF NoOp, OpType, NoReport, TurnKinds
<1>5. NoCall \in CallType
  BY <1>1, Numbers DEF NoCall, CallType
<1> QED BY <1>1, <1>2, <1>3, <1>4, <1>5

\* Lifting the suppression touches nothing else.
LEMMA UnsuppressFacts ==
  ASSUME NEW r \in Row, r = NoRow <=> r.id = 0, NEW expected
  PROVE  LET u == Unsuppress(r, expected) IN
         /\ u \in Row /\ u.id = r.id /\ u.status = r.status /\ u.used = r.used
         /\ (u = NoRow <=> u.id = 0) /\ (u.suppressed => r.suppressed)
         /\ expected \notin {0, r.id} => u = r
<1>1. CASE r # NoRow /\ expected \in {0, r.id}
  <2> DEFINE u == [r EXCEPT !.suppressed = FALSE]
  <2>1. u \in Row /\ u.id = r.id /\ u.status = r.status /\ u.used = r.used /\ ~u.suppressed
    BY DEF Row
  <2>2. u # NoRow
    BY <1>1, <2>1, Blanks
  <2> QED BY <1>1, <2>1, <2>2 DEF Unsuppress
<1>2. CASE ~(r # NoRow /\ expected \in {0, r.id})
  BY <1>2 DEF Unsuppress
<1> QED BY <1>1, <1>2

\* A goal's row keeps its goal when its status, budget, tokens or suppression change.
LEMMA RowFacts ==
  ASSUME NEW r \in Row, r.id # 0
  PROVE  /\ \A s \in RowStatuses, b \in Budgets \cup {0} :
              LET u == [r EXCEPT !.status = s, !.budget = b] IN
              /\ u \in Row /\ u.id = r.id /\ u.used = r.used /\ u.status = s /\ u # NoRow
              /\ u.suppressed = r.suppressed
         /\ \A s \in RowStatuses :
              LET u == [r EXCEPT !.status = s] IN
              /\ u \in Row /\ u.id = r.id /\ u.used = r.used /\ u.status = s /\ u # NoRow
              /\ u.suppressed = r.suppressed
         /\ \A s \in RowStatuses, n \in 0 .. MaxSpent :
              LET u == [r EXCEPT !.used = n, !.status = s] IN
              /\ u \in Row /\ u.id = r.id /\ u.used = n /\ u.status = s /\ u # NoRow
              /\ u.suppressed = r.suppressed
         /\ LET u == [r EXCEPT !.suppressed = TRUE] IN
              /\ u \in Row /\ u.id = r.id /\ u.used = r.used /\ u.status = r.status /\ u # NoRow
              /\ u.suppressed
<1>1. \A u : u.id = r.id => u # NoRow
  BY Blanks
<1> QED BY <1>1 DEF Row, RowStatuses

\* What is charged is added to the tokens, and may limit the goal.
LEMMA ChargedFacts ==
  ASSUME NEW r \in Row, NEW delta \in Nat
  PROVE  /\ Charged(r, delta).used = r.used + delta
         /\ Charged(r, delta).status \in {r.status, "limited"}
BY DEF Charged, Row

\* A report is of a final status, and was not marked before.
LEMMA ReportFacts ==
  ASSUME NEW g \in 0 .. MaxGoals, NEW s \in RowStatuses
  PROVE  /\ <<g, s>> \in Reports /\ ReportOf(g, s) \in Reports
         /\ ReportOf(g, s) # NoReport => ReportOf(g, s) = <<g, s>> /\ ReportOf(g, s) \notin reported
         /\ s # "none" => <<g, s>> # NoReport
BY Blanks DEF ReportOf, Reports, NoReport, RowStatuses

LEMMA BudgetReportFacts ==
  ASSUME NEW r \in Row
  PROVE  /\ BudgetReport(r) \in Reports
         /\ BudgetReport(r) # NoReport => BudgetReport(r) \notin reported
<1>1. r.id \in 0 .. MaxGoals /\ r.status \in RowStatuses
  BY DEF Row, RowStatuses
<1> QED BY <1>1, ReportFacts, Blanks DEF BudgetReport

\* An operation that joins the queue, and one that leaves it.
LEMMA AppendFacts ==
  ASSUME NEW S, NEW q \in Seq(S), NEW e \in S
  PROVE  /\ Append(q, e) \in Seq(S) /\ Append(q, e) # <<>>
         /\ DOMAIN q = 1 .. Len(q) /\ Len(q) \in Nat
         /\ DOMAIN Append(q, e) = 1 .. (Len(q) + 1) /\ Append(q, e)[Len(q) + 1] = e
         /\ Len(Append(q, e)) = Len(q) + 1
         /\ \A i \in DOMAIN q : Append(q, e)[i] = q[i]
OBVIOUS

LEMMA TailFacts ==
  ASSUME NEW S, NEW q \in Seq(S), q # <<>>
  PROVE  /\ Head(q) \in S /\ Tail(q) \in Seq(S)
         /\ DOMAIN q = 1 .. Len(q) /\ Len(q) \in Nat \ {0} /\ Head(q) = q[1] /\ 1 \in DOMAIN q
         /\ DOMAIN Tail(q) = 1 .. (Len(q) - 1)
         /\ \A i \in DOMAIN Tail(q) : i + 1 \in DOMAIN q /\ i + 1 # 1 /\ Tail(q)[i] = q[i + 1]
OBVIOUS

\* The operations the code sends.
LEMMA OpFacts ==
  /\ \A t \in 0 .. MaxTurns : [NoOp EXCEPT !.kind = "user", !.turn = t] \in OpType
  /\ \A t \in 0 .. MaxTurns, g \in 0 .. MaxGoals :
       [NoOp EXCEPT !.kind = "continuation", !.turn = t, !.goal = g] \in OpType
  /\ \A r \in Reports : Effect(r) \in OpType
  /\ \A o \in OpType, r \in Reports : [o EXCEPT !.report = r] \in OpType
BY Blanks, Numbers DEF OpType, NoOp, Effect, NoReport, TurnKinds

\* A goal that is created is new, and charged nothing yet.
LEMMA CreateFacts ==
  ASSUME row \in Row, goals \in 0 .. MaxGoals, spent \in 0 .. MaxSpent, born \in Seq(0 .. MaxSpent),
         Len(born) = goals, NEW s \in RowStatuses, NEW b \in Budgets \cup {0}, CreateRow(s, b)
  PROVE  /\ row' \in Row /\ row'.id = goals + 1 /\ row' # NoRow /\ row'.used = 0
         /\ row'.status = s /\ ~row'.suppressed
         /\ goals' = goals + 1 /\ goals' \in 0 .. MaxGoals
         /\ born' \in Seq(0 .. MaxSpent) /\ Len(born') = goals'
         /\ \A g \in 1 .. goals : born'[g] = born[g]
         /\ born'[goals + 1] = spent
<1>1. goals < MaxGoals /\ row' = NewRow(s, b) /\ goals' = goals + 1 /\ born' = Append(born, spent)
  BY DEF CreateRow
<1>2. row' \in Row /\ row'.id = goals + 1 /\ row'.used = 0 /\ row'.status = s /\ ~row'.suppressed
  BY <1>1, Numbers DEF NewRow, Row, RowStatuses
<1>3. row' # NoRow
  BY <1>2, Blanks
<1>4. /\ born' \in Seq(0 .. MaxSpent) /\ Len(born') = goals' /\ born'[goals + 1] = spent
      /\ \A g \in 1 .. goals : born'[g] = born[g]
  BY <1>1, AppendFacts
<1> QED BY <1>1, <1>2, <1>3, <1>4, Numbers

-----------------------------------------------------------------------------
(* Types.                                                                  *)

\* An accounting that starts charges the goal of the turn, or nothing.
ChargesGoal(by, now) ==
  /\ acct.goal # 0 /\ acct # NoAcct /\ acct' = acct
  /\ job'.by = by /\ job'.step = "read" /\ job'.goal = acct.goal /\ job'.now = now
  /\ job'.delta = IF now > acct.last THEN now - acct.last ELSE 0
ChargesNothing(by, now) ==
  /\ job' = IF by = "client" THEN NoJob ELSE [NoJob EXCEPT !.by = by, !.seen = NoRow]
  /\ acct.goal # 0 => acct' = acct
  /\ acct' # acct => acct' = [acct EXCEPT !.last = now]

\* One that starts moves at most the baseline ...
LEMMA StartFacts ==
  ASSUME Types, NEW by \in {"actor", "client"}, NEW turn, NEW now \in Nat,
         NEW mark \in BOOLEAN, NEW any \in BOOLEAN,
         StartAccounting(by, turn, now, mark, any)
  PROVE  /\ job = NoJob /\ job' \in JobType /\ acct' \in AcctType
         /\ acct'.goal = acct.goal /\ acct'.turn = acct.turn
         /\ ChargesGoal(by, now) \/ ChargesNothing(by, now)
<1> DEFINE mine == acct # NoAcct /\ acct.turn = turn
           delta == IF now > acct.last THEN now - acct.last ELSE 0
<1>1. job = NoJob /\ acct \in AcctType /\ delta \in Nat /\ acct.goal \in 0 .. MaxGoals
  BY DEF StartAccounting, Types, AcctType
<1>2. acct' \in AcctType /\ acct'.goal = acct.goal /\ acct'.turn = acct.turn
  BY <1>1 DEF StartAccounting, AcctType
<1>3. CASE mine /\ acct.goal # 0
  <2>1. job' = [by |-> by, step |-> "read", goal |-> acct.goal, delta |-> delta, now |-> now,
                mark |-> mark \/ delta > 0, any |-> any, seen |-> NoRow]
    BY <1>3 DEF StartAccounting
  <2>2. acct' = acct
    BY <1>3 DEF StartAccounting
  <2>3. job' \in JobType
    BY <2>1, <1>1, Blanks DEF JobType, JobSteps
  <2>4. ChargesGoal(by, now)
    BY <1>3, <2>1, <2>2 DEF ChargesGoal
  <2> QED BY <1>1, <1>2, <2>3, <2>4
<1>4. CASE ~(mine /\ acct.goal # 0)
  <2>1. job' = IF by = "client" THEN NoJob ELSE [NoJob EXCEPT !.by = by, !.seen = NoRow]
    BY <1>4 DEF StartAccounting, Accounted
  <2>2. job' \in JobType
    BY <2>1, Blanks DEF JobType
  <2>3. ChargesNothing(by, now)
    BY <1>4, <2>1 DEF StartAccounting, ChargesNothing
  <2> QED BY <1>1, <1>2, <2>1, <2>2, <2>3
<1> QED BY <1>3, <1>4

\* ... and one that ends leaves its outcome to the actor.
LEMMA EndFacts ==
  ASSUME Types, NEW outcome \in Row, EndAccounting(outcome)
  PROVE  /\ job' = IF job.by = "client" THEN NoJob ELSE [NoJob EXCEPT !.by = job.by, !.seen = outcome]
         /\ job' \in JobType /\ job'.goal = 0 /\ job'.step = "done"
         /\ acct' \in AcctType /\ acct'.goal = acct.goal /\ acct'.turn = acct.turn
         /\ acct = NoAcct => acct' = acct
         /\ acct # NoAcct => acct'.last = job.now
<1>1. job' = IF job.by = "client" THEN NoJob ELSE [NoJob EXCEPT !.by = job.by, !.seen = outcome]
  BY DEF EndAccounting, Accounted
<1>2. job' \in JobType /\ job'.goal = 0 /\ job'.step = "done"
  <2>1. job.by \in {"none", "actor", "client"} /\ NoJob \in JobType /\ NoJob.goal = 0 /\ NoJob.step = "done"
    BY Blanks DEF Types, JobType, NoJob
  <2>2. CASE job.by = "client"
    BY <1>1, <2>1, <2>2
  <2>3. CASE job.by # "client"
    <3>1. job' = [NoJob EXCEPT !.by = job.by, !.seen = outcome]
      BY <1>1, <2>3
    <3>2. job' \in JobType
      BY <2>1, <3>1 DEF JobType
    <3>3. job'.goal = 0 /\ job'.step = "done"
      BY <3>1 DEF NoJob
    <3> QED BY <3>2, <3>3
  <2> QED BY <2>2, <2>3
<1>3. CASE acct = NoAcct
  BY <1>1, <1>2, <1>3 DEF EndAccounting, Types
<1>4. CASE acct # NoAcct
  <2>1. acct' = [acct EXCEPT !.last = job.now, !.counted = @ \/ job.mark]
    BY <1>4 DEF EndAccounting
  <2> QED BY <1>1, <1>2, <1>4, <2>1 DEF Types, AcctType, JobType
<1> QED BY <1>3, <1>4

\* An element of a sequence.
LEMMA ElementFacts == \A S : \A q \in Seq(S) : \A i \in 1 .. Len(q) : q[i] \in S /\ i \in DOMAIN q
OBVIOUS

\* A goal was born when some tokens were spent.
LEMMA BornFacts ==
  ASSUME Types, NEW g \in 1 .. goals
  PROVE  born[g] \in 0 .. MaxSpent
<1>1. born \in Seq(0 .. MaxSpent) /\ Len(born) = goals
  BY DEF Types
<1>2. g \in 1 .. Len(born)
  BY <1>1
<1> QED BY <1>1, <1>2, ElementFacts

LEMMA AccountTypes ==
  ASSUME IInv, Account
  PROVE  Types'
<1> USE DEF IInv
<1>1. CASE ChargeRead
  <2>1. job' \in JobType /\ acct' \in AcctType
    <3>1. CASE MayCharge(row, job.goal, job.any)
      <4>1. job' = [job EXCEPT !.seen = row, !.step = "write"] /\ acct' = acct
        BY <1>1, <3>1 DEF ChargeRead
      <4>2. job \in JobType /\ row \in Row /\ acct \in AcctType
        BY DEF Types
      <4> QED BY <4>1, <4>2 DEF JobType, JobSteps
    <3>2. CASE ~MayCharge(row, job.goal, job.any)
      BY <1>1, <3>2, EndFacts, Blanks DEF ChargeRead
    <3> QED BY <3>1, <3>2
  <2> QED BY <1>1, <2>1 DEF ChargeRead, Types, Others, actor, counters, history
<1>2. CASE ChargeWrite
  <2>1. job' \in JobType
    BY <1>2 DEF ChargeWrite, Types, JobType, JobSteps
  <2>2. row' \in Row
    <3>1. CASE row.id = job.goal
      <4> DEFINE new == Charged(job.seen, job.delta)
      <4>1. job.seen \in Row /\ job.delta \in Nat /\ job.seen.used = row.used /\ row.id # 0
        BY <1>2, <3>1 DEF ChargeWrite, Types, JobType, Money, ChargeFits, Locked, JobSteps
      <4>2. new.used = row.used + job.delta /\ new.status \in RowStatuses
        BY <4>1, ChargedFacts DEF Row, RowStatuses
      <4>3. Room(job.delta)
        <5>1. CASE job.by = "actor"
          BY <5>1, <1>2, <3>1 DEF ChargeWrite, Money, ChargeFits, JobSteps
        <5>2. CASE job.by # "actor"
          <6>1. job.delta = 0
            BY <5>2, <1>2 DEF ChargeWrite, Money, ChargeFits, Locked, Types, JobType
          <6> QED BY <6>1, <4>1, Blanks DEF Money, ChargedOnce, Room, Row, Types
        <5> QED BY <5>1, <5>2
      <4>4. new.used \in 0 .. MaxSpent
        <5>1. row.id \in 1 .. goals
          BY <4>1 DEF Types, KnownGoals, Row
        <5>2. born[row.id] \in 0 .. MaxSpent
          BY <5>1, BornFacts
        <5>3. spent \in 0 .. MaxSpent /\ row.used \in Nat
          BY DEF Types, Row
        <5> QED BY <4>1, <4>2, <4>3, <5>2, <5>3, Numbers DEF Room
      <4>5. row' = [row EXCEPT !.used = new.used, !.status = new.status]
        BY <1>2, <3>1 DEF ChargeWrite
      <4> HIDE DEF new
      <4> QED BY <4>1, <4>2, <4>4, <4>5, RowFacts DEF Types
    <3>2. CASE row.id # job.goal
      BY <1>2, <3>2 DEF ChargeWrite, Types
    <3> QED BY <3>1, <3>2
  <2> QED BY <1>2, <2>1, <2>2 DEF ChargeWrite, Types, memory, Others, actor, counters, history
<1>3. CASE ChargeReread
  <2>1. job' \in JobType /\ acct' \in AcctType
    BY <1>3, EndFacts DEF ChargeReread, Types
  <2> QED BY <1>3, <2>1 DEF ChargeReread, Types, Others, actor, counters, history
<1>4. CASE ChargePanics
  <2>1. job' \in JobType /\ pc' \in ActorPlaces /\ slot' \in 0 .. MaxTurns /\ cpc' \in ClientPlaces
    <3>1. job' \in JobType
      BY <1>4, Blanks DEF ChargePanics
    <3>2. pc' \in ActorPlaces /\ cpc' \in ClientPlaces
      BY <1>4 DEF ChargePanics, Types, ActorPlaces, ClientPlaces
    <3>3. slot' \in 0 .. MaxTurns
      BY <1>4, Numbers DEF ChargePanics, Types
    <3> QED BY <3>1, <3>2, <3>3
  <2> QED BY <1>4, <2>1 DEF ChargePanics, Types, Others, memory, counters, history
<1> QED BY <1>1, <1>2, <1>3, <1>4 DEF Account

\* What an action leaves alone keeps its type.
LEMMA TurnTypes ==
  ASSUME IInv, Turn
  PROVE  Types'
<1> USE DEF IInv
<1>a. op.turn \in 0 .. MaxTurns /\ op.report \in Reports /\ op.goal \in 0 .. MaxGoals
  BY DEF Types, OpType
<1>b. row.id \in 0 .. MaxGoals /\ row.status \in RowStatuses
  BY DEF Types, Row, RowStatuses
<1>c. usage \in Nat /\ acct.goal \in 0 .. MaxGoals
  BY DEF Types, AcctType
<1>d. usage \in Nat
  BY DEF Types
<1>1. CASE CheckCandidate \/ StartFails
  BY <1>1 DEF CheckCandidate, StartFails, Types, memory, client, counters, history,
              ActorPlaces, TurnStages
<1>2. CASE TurnStartedRead
  <2>1. job' \in JobType
    BY <1>2, <1>b DEF TurnStartedRead, JobType, NoJob, Types
  <2> QED BY <1>2, <2>1 DEF TurnStartedRead, Types, memory, client, counters, history,
                            ActorPlaces, TurnStages
<1>3. CASE TurnStarted
  <2>1. row' \in Row
    BY <1>3, UnsuppressFacts DEF TurnStarted, Types, KnownGoals
  <2>2. acct' \in AcctType /\ wall' \in 0 .. MaxGoals
    BY <1>3, <1>a, Blanks DEF TurnStarted, Types, JobType, AcctType
  <2>3. job' = NoJob /\ quiet' \in {0, quiet}
    BY <1>3 DEF TurnStarted
  <2> QED BY <1>3, <2>1, <2>2, <2>3, Blanks, Numbers DEF TurnStarted, Types, client, counters, ActorPlaces, TurnStages, InTurn
<1>4. CASE \E n \in 0..1, next \in {"create", "update", "tool done", "finish"} : Sample(n, next)
  <2>1. usage' \in Nat /\ spent' \in 0 .. MaxSpent
    <3>1. \E n \in 0 .. 1 : usage' = usage + n /\ spent' = spent + n /\ spent + n <= MaxSpent
      BY <1>4 DEF Sample
    <3>2. spent \in 0 .. MaxSpent
      BY DEF Types
    <3> QED BY <3>1, <3>2, <1>d, Numbers
  <2>2. pc' \in ActorPlaces
    BY <1>4 DEF Sample, ActorPlaces, TurnStages, InTurn
  <2> QED BY <1>4, <2>1, <2>2 DEF Sample, Types, memory, client, counters
<1>5. CASE CompactInTurn
  BY <1>5 DEF CompactInTurn, Types, actor, memory, client, counters, history
<1>6. CASE \E b \in Budgets : CreateGoal(b)
  <2>1. PICK b \in Budgets : CreateGoal(b)
    BY <1>6
  <2>2. CASE row = NoRow
    <3>1. CreateRow("active", b) /\ wall' = goals + 1
      BY <2>1, <2>2 DEF CreateGoal
    <3>2. row' \in Row /\ goals' \in 0 .. MaxGoals /\ born' \in Seq(0 .. MaxSpent) /\ Len(born') = goals'
          /\ wall' \in 0 .. MaxGoals
      BY <3>1, CreateFacts DEF RowStatuses, Types
    <3> QED BY <2>1, <2>2, <3>2 DEF CreateGoal, Types, client, ActorPlaces, TurnStages, InTurn
  <2>3. CASE row # NoRow
    BY <2>1, <2>3 DEF CreateGoal, Types, client, ActorPlaces, TurnStages, InTurn
  <2> QED BY <2>2, <2>3
<1>7. CASE UpdateGoalRead
  BY <1>7 DEF UpdateGoalRead, Types, memory, client, counters, history, ActorPlaces, TurnStages, InTurn
<1>8. CASE \E s \in {"complete", "blocked"} : UpdateGoal(s)
  <2>1. PICK s \in {"complete", "blocked"} : UpdateGoal(s)
    BY <1>8
  <2>2. row' \in Row
    <3>1. hand.budget \in Budgets \cup {0} /\ s \in RowStatuses
      BY DEF Types, Row, RowStatuses
    <3>2. row # NoRow => row.id # 0
      BY DEF KnownGoals
    <3> QED BY <2>1, <3>1, <3>2, RowFacts DEF UpdateGoal, Types
  <2>3. wall' \in 0 .. MaxGoals /\ pending' \in 0 .. MaxGoals
    <3>1. CASE row = NoRow
      BY <2>1, <3>1 DEF UpdateGoal, Types
    <3>2. CASE row # NoRow
      <4>1. wall' = 0 /\ pending' = row.id
        BY <2>1, <3>2 DEF UpdateGoal
      <4> QED BY <4>1, <1>b, Numbers
    <3> QED BY <3>1, <3>2
  <2>4. pc' \in ActorPlaces /\ hand' = NoRow
    BY <2>1 DEF UpdateGoal, ActorPlaces, TurnStages, InTurn
  <2>5. UNCHANGED <<slot, queue, op, job, acct, reported, usage, client, counters, history>>
    BY <2>1 DEF UpdateGoal
  <2> QED BY <2>2, <2>3, <2>4, <2>5, Blanks DEF Types, client, counters, history
<1>9. CASE ToolCompleted \/ ToolCompletedGoal \/ \E a \in BOOLEAN : TurnFinished(a)
  <2>1. job' \in JobType /\ acct' \in AcctType
    BY <1>9, <1>c, StartFacts DEF ToolCompleted, ToolCompletedGoal, TurnFinished
  <2> QED BY <1>9, <2>1 DEF ToolCompleted, ToolCompletedGoal, TurnFinished, Types, Others, counters,
                            history, ActorPlaces, TurnStages, InTurn
<1>10. CASE ToolCharged
  <2>1. row' \in Row
    BY <1>10, UnsuppressFacts DEF ToolCharged, Types, KnownGoals
  <2>2. BudgetReport(Outcome) \in Reports
    BY BudgetReportFacts DEF Outcome, Types, JobType
  <2>3. op' \in OpType
    BY <1>10, <2>2, OpFacts DEF ToolCharged, Types
  <2>4. reported' \subseteq Reports
    BY <1>10, <2>2 DEF ToolCharged, Types, MarkReported
  <2>5. pc' \in ActorPlaces
    BY <1>10 DEF ToolCharged, ActorPlaces, TurnStages, InTurn
  <2>6. job' = NoJob /\ quiet' = 0
    BY <1>10 DEF ToolCharged
  <2>7. UNCHANGED <<slot, queue, hand, acct, wall, pending, usage, client, counters,
                    spent, born, told, missed>>
    BY <1>10 DEF ToolCharged
  <2> QED BY <2>1, <2>3, <2>4, <2>5, <2>6, <2>7, Blanks, Numbers DEF Types, client, counters
<1>11. CASE GoalToolCharged
  BY <1>11, Blanks DEF GoalToolCharged, Types, Others, memory, counters, history, ActorPlaces, TurnStages, InTurn
<1>12. CASE Tell \/ TellEnd \/ TurnDropped
  <2>1. op' \in OpType
    BY <1>12, OpFacts, Blanks DEF Tell, TellEnd, TurnDropped, Types
  <2>2. told' \subseteq Reports /\ missed' \subseteq Reports
    BY <1>12, <1>a DEF Tell, TellEnd, TurnDropped, Types, Record
  <2>3. job' \in JobType /\ hand' \in Row
    BY <1>12, Blanks DEF Tell, TellEnd, TurnDropped, Types
  <2> QED BY <1>12, <2>1, <2>2, <2>3 DEF Tell, TellEnd, TurnDropped, Types, memory, client,
                                         counters, ActorPlaces, TurnStages, InTurn
<1>13. CASE FinishTurn
  <2> DEFINE dropped == BudgetReport(Outcome)
             report  == IF pending # 0 /\ row.id = pending /\ ReportOf(row.id, row.status) # dropped
                        THEN ReportOf(row.id, row.status) ELSE NoReport
  <2>1. dropped \in Reports /\ report \in Reports
    BY <1>b, BudgetReportFacts, ReportFacts, Blanks DEF Outcome, Types, JobType
  <2>2. /\ reported' = (reported \cup {dropped, report}) \ {NoReport}
        /\ missed' = missed \cup ({dropped} \ {NoReport})
        /\ op' = [op EXCEPT !.report = report]
    BY <1>13 DEF FinishTurn
  <2> HIDE DEF dropped, report
  <2>3. reported' \subseteq Reports /\ missed' \subseteq Reports /\ op' \in OpType
    BY <2>1, <2>2, OpFacts DEF Types
  <2>4. row' \in Row
    BY <1>13, RowFacts DEF FinishTurn, Types, KnownGoals, Active
  <2>5. quiet' \in 0 .. MaxGoals
    BY <1>13, <1>b DEF FinishTurn, Types
  <2>6. pc' \in ActorPlaces
    BY <1>13 DEF FinishTurn, ActorPlaces, TurnStages
  <2>8. job' = NoJob /\ acct' = NoAcct /\ pending' = 0
    BY <1>13 DEF FinishTurn
  <2>7. UNCHANGED <<slot, queue, hand, wall, usage, client, counters, spent, born, told>>
    BY <1>13 DEF FinishTurn
  <2> QED BY <2>3, <2>4, <2>5, <2>6, <2>7, <2>8, Blanks, Numbers DEF Types, client, counters
<1>14. CASE ReleaseTurn
  BY <1>14, Blanks, Numbers DEF ReleaseTurn, Types, memory, client, counters, history, ActorPlaces
<1> QED BY <1>1, <1>2, <1>3, <1>4, <1>5, <1>6, <1>7, <1>8, <1>9, <1>10, <1>11, <1>12, <1>13, <1>14
        DEF Turn

LEMMA IdleTypes ==
  ASSUME IInv, Idle
  PROVE  Types'
<1> USE DEF IInv
<1>a. op.report \in Reports /\ row.id \in 0 .. MaxGoals /\ row.status \in RowStatuses
  BY DEF Types, OpType, Row, RowStatuses
<1>1. CASE Receive
  <2>1. op' \in OpType /\ queue' \in Seq(OpType)
    BY <1>1, TailFacts DEF Receive, Types
  <2>2. pc' \in ActorPlaces
    BY <1>1 DEF Receive, ActorPlaces, TurnStages
  <2> QED BY <1>1, <2>1, <2>2 DEF Receive, Types, memory, client, counters
<1>2. CASE ApplyEffect
  BY <1>2, <1>a, Blanks DEF ApplyEffect, Record, Types, memory, client, counters, ActorPlaces
<1>3. CASE SkipLook
  BY <1>3 DEF SkipLook, Stay, Types, client, counters, ActorPlaces
<1>4. CASE Look
  BY <1>4 DEF Look, Stay, Types, client, counters, ActorPlaces
<1>5. CASE \E s \in {"active", "paused", "blocked"} : Escalate(s)
  <2>1. PICK s \in {"active", "paused", "blocked"} : Escalate(s)
    BY <1>5
  <2> DEFINE report == IF s = "active" THEN NoReport ELSE <<row.id, s>>
  <2>2. report \in Reports
    BY <1>a, Blanks, ReportFacts DEF RowStatuses
  <2>3. row' = [row EXCEPT !.status = s] /\ row.id # 0
    BY <2>1, Blanks DEF Escalate, MayContinue, KnownGoals
  <2>4. row' \in Row
    <3>1. row \in Row /\ s \in RowStatuses
      BY DEF Types, RowStatuses
    <3> QED BY <2>3, <3>1, RowFacts
  <2>5. reported' = reported \cup ({report} \ {NoReport}) /\ missed' \in {missed, missed \cup {report}}
    BY <2>1 DEF Escalate
  <2> HIDE DEF report
  <2>6. reported' \subseteq Reports /\ missed' \subseteq Reports
    BY <2>2, <2>5 DEF Types
  <2>7. Stay("escalated")
    BY <2>1 DEF Escalate
  <2> QED BY <2>4, <2>6, <2>7 DEF Stay, Types, client, counters, ActorPlaces
<1>6. CASE ReserveContinuation
  <2>1. CASE MayContinue(row) /\ slot = 0
    <3> DEFINE o == [NoOp EXCEPT !.kind = "continuation", !.turn = turns + 1, !.goal = row.id]
    <3>1. slot' = turns + 1 /\ turns' = turns + 1 /\ turns < MaxTurns /\ queue' = Append(queue, o)
      BY <1>6, <2>1 DEF ReserveContinuation, Reserve
    <3>2. turns + 1 \in 0 .. MaxTurns
      BY <3>1, Numbers DEF Types
    <3>3. queue' \in Seq(OpType)
      BY <3>1, <3>2, <1>a, OpFacts, AppendFacts DEF Types
    <3>4. /\ pc' = "idle"
          /\ UNCHANGED <<row, op, hand, usage, job, client, goals, acct, wall, pending, spent, born,
                         told, quiet, reported, missed>>
      BY <1>6, <2>1 DEF ReserveContinuation
    <3> QED BY <3>1, <3>2, <3>3, <3>4 DEF Types, client, ActorPlaces
  <2>2. CASE ~(MayContinue(row) /\ slot = 0)
    <3>1. \E why : Stay(why)
      BY <1>6, <2>2 DEF ReserveContinuation
    <3> QED BY <1>6, <3>1 DEF ReserveContinuation, Stay, Types, client, counters, ActorPlaces
  <2> QED BY <2>1, <2>2
<1> QED BY <1>1, <1>2, <1>3, <1>4, <1>5, <1>6 DEF Idle

LEMMA CallTypes ==
  /\ \A s \in Statuses, b \in Budgets, r \in Row :
       [NoCall EXCEPT !.status = s, !.budget = b, !.seen = r] \in CallType
  /\ \A c \in CallType, g \in 0 .. MaxGoals : [c EXCEPT !.goal = g] \in CallType
  /\ \A r \in Reports : [NoCall EXCEPT !.report = r] \in CallType
BY Blanks DEF CallType, NoCall

LEMMA CallingTypes ==
  ASSUME IInv, Calling
  PROVE  Types'
<1> USE DEF IInv
<1>a. /\ call.status \in RowStatuses /\ call.budget \in Budgets \cup {0} /\ call.report \in Reports
      /\ call.seen \in Row /\ call.goal \in 0 .. MaxGoals
  BY Numbers DEF Types, CallType, RowStatuses
<1>b. row.id \in 0 .. MaxGoals
  BY DEF Types, Row
<1>c. acct.last \in Nat
  BY DEF Types, AcctType
<1>1. CASE \E s \in Statuses, b \in Budgets : SetRead(s, b)
  <2>1. PICK s \in Statuses, b \in Budgets : SetRead(s, b)
    BY <1>1
  <2>2. call' \in CallType
    BY <2>1, CallTypes DEF SetRead, Types
  <2> QED BY <2>1, <2>2 DEF SetRead, Types, memory, Client, history, ClientPlaces
<1>2. CASE AccountBefore
  <2>1. job' \in JobType /\ acct' \in AcctType
    <3>1. CASE pc # "unloaded" /\ slot # 0
      BY <1>2, <3>1, <1>c, StartFacts DEF AccountBefore, StartMutation
    <3>2. CASE ~(pc # "unloaded" /\ slot # 0)
      <4>1. acct' = acct /\ (job' = NoJob \/
              job' = [NoJob EXCEPT !.by = "client", !.step = "read", !.goal = wall, !.now = acct.last])
        BY <1>2, <3>2 DEF AccountBefore, StartMutation
      <4>2. [NoJob EXCEPT !.by = "client", !.step = "read", !.goal = wall, !.now = acct.last] \in JobType
        BY <1>c, Blanks DEF Types, JobType, JobSteps
      <4> QED BY <4>1, <4>2, Blanks DEF Types
    <3> QED BY <3>1, <3>2
  <2> QED BY <1>2, <2>1 DEF AccountBefore, Types, Client, history, ClientPlaces
<1>3. CASE SetCreate
  <2>1. CreateRow(call.status, call.budget)
    BY <1>3 DEF SetCreate
  <2>2. row' \in Row /\ goals' \in 0 .. MaxGoals /\ goals' = goals + 1
        /\ born' \in Seq(0 .. MaxSpent) /\ Len(born') = goals'
    BY <2>1, <1>a, CreateFacts DEF Types
  <2>3. call' \in CallType /\ cpc' \in ClientPlaces
    BY <1>3, <2>2, CallTypes DEF SetCreate, Types, ClientPlaces
  <2> QED BY <1>3, <2>2, <2>3 DEF SetCreate, Types, memory, Client
<1>4. CASE SetReread
  <2>1. call' \in CallType /\ cpc' \in ClientPlaces
    BY <1>4, <1>b, CallTypes, Blanks DEF SetReread, Types, ClientPlaces
  <2> QED BY <1>4, <2>1 DEF SetReread, Types, memory, Client, history
<1>5. CASE SetUpdate
  <2>1. row' \in Row
    BY <1>5, <1>a, RowFacts DEF SetUpdate, Types, KnownGoals
  <2>2. call' \in CallType /\ cpc' \in ClientPlaces
    BY <1>5, Blanks DEF SetUpdate, Types, ClientPlaces
  <2> QED BY <1>5, <2>1, <2>2 DEF SetUpdate, Types, memory, Client, history
<1>6. CASE ExternalSet
  <2>1. CASE pc = "unloaded"
    BY <1>6, <2>1, Blanks DEF ExternalSet, Types, memory, Client, ClientPlaces
  <2>2. CASE pc # "unloaded"
    <3> DEFINE report == IF call.seen.status # call.status THEN ReportOf(call.goal, call.status)
                         ELSE NoReport
    <3>1. report \in Reports
      BY <1>a, ReportFacts, Blanks
    <3>2. /\ row' = Unsuppress(row, call.goal) /\ wall' \in {call.goal, 0} /\ quiet' \in {0, quiet}
          /\ MarkReported(report) /\ call' = [NoCall EXCEPT !.report = report] /\ cpc' = "send"
          /\ UNCHANGED <<acct, pending>>
      BY <1>6, <2>2 DEF ExternalSet
    <3> HIDE DEF report
    <3>3. row' \in Row
      BY <3>2, UnsuppressFacts DEF Types, KnownGoals
    <3>4. reported' \subseteq Reports /\ call' \in CallType
      BY <3>1, <3>2, CallTypes DEF MarkReported, Types
    <3>5. wall' \in 0 .. MaxGoals /\ quiet' \in 0 .. MaxGoals
      <4>1. quiet \in 0 .. MaxGoals /\ call.goal \in 0 .. MaxGoals /\ 0 \in 0 .. MaxGoals
        BY <1>a, Numbers DEF Types
      <4> QED BY <3>2, <4>1
    <3>6. UNCHANGED <<queue, pc, job, goals, Client, spent, born, told, missed>>
      BY <1>6 DEF ExternalSet
    <3> QED BY <3>2, <3>3, <3>4, <3>5, <3>6 DEF Types, Client, ClientPlaces
  <2> QED BY <2>1, <2>2
<1>7. CASE SendEffect
  <2>1. queue' \in Seq(OpType)
    <3>1. Effect(call.report) \in OpType
      BY <1>a, OpFacts
    <3>2. Append(queue, Effect(call.report)) \in Seq(OpType)
      BY <3>1, AppendFacts DEF Types
    <3>3. queue' \in {queue, Append(queue, Effect(call.report))}
      BY <1>7 DEF SendEffect
    <3> QED BY <3>2, <3>3 DEF Types
  <2>2. missed' \subseteq Reports
    BY <1>7, <1>a DEF SendEffect, Types
  <2> QED BY <1>7, <2>1, <2>2, Blanks DEF SendEffect, Types, memory, Client, ClientPlaces
<1>8. CASE ClearStart
  BY <1>8 DEF ClearStart, Types, memory, Client, history, ClientPlaces
<1>9. CASE DeleteGoal
  BY <1>9, Blanks DEF DeleteGoal, Types, memory, Client, history, ClientPlaces
<1>10. CASE ExternalClear
  <2>1. acct' = NoAcct /\ wall' = 0 /\ cpc' \in ClientPlaces
    BY <1>10 DEF ExternalClear, ClientPlaces
  <2>2. UNCHANGED <<row, queue, pc, job, pending, reported, call, goals, Client, history>>
    BY <1>10 DEF ExternalClear
  <2> QED BY <2>1, <2>2, Blanks, Numbers DEF Types, Client, history
<1> QED BY <1>1, <1>2, <1>3, <1>4, <1>5, <1>6, <1>7, <1>8, <1>9, <1>10 DEF Calling

LEMMA OutsideTypes ==
  ASSUME IInv, SubmitUser \/ SubmitOther \/ Restart \/ ThreadResumed
  PROVE  Types'
<1> USE DEF IInv
<1>1. CASE SubmitUser
  <2> DEFINE o == [NoOp EXCEPT !.kind = "user", !.turn = turns + 1]
  <2>1. slot' = turns + 1 /\ turns' = turns + 1 /\ turns < MaxTurns /\ queue' = Append(queue, o)
    BY <1>1 DEF SubmitUser, Reserve
  <2>2. turns + 1 \in 0 .. MaxTurns
    BY <2>1, Numbers DEF Types
  <2>3. queue' \in Seq(OpType)
    BY <2>1, <2>2, OpFacts, AppendFacts DEF Types
  <2>4. UNCHANGED <<row, actor, job, memory, usage, client, goals, history>>
    BY <1>1 DEF SubmitUser
  <2> QED BY <2>1, <2>2, <2>3, <2>4 DEF Types, actor, memory, client, history
<1>2. CASE SubmitOther
  <2>1. queue' \in Seq(OpType)
    BY <1>2, Blanks, AppendFacts DEF SubmitOther, Types
  <2> QED BY <1>2, <2>1 DEF SubmitOther, Types, actor, memory, client, counters, history
<1>3. CASE Restart
  <2>1. /\ slot' = 0 /\ queue' = <<>> /\ op' = NoOp /\ hand' = NoRow
        /\ job' = NoJob /\ acct' = NoAcct /\ wall' = 0 /\ pending' = 0 /\ reported' = {}
        /\ call' = NoCall /\ told' = {} /\ missed' = {}
        /\ UNCHANGED <<row, usage, turns, goals, spent, born, quiet>>
    BY <1>3 DEF Restart
  <2>2. pc' \in ActorPlaces /\ cpc' \in ClientPlaces
    BY <1>3 DEF Restart, ActorPlaces, ClientPlaces
  <2>3. queue' \in Seq(OpType)
    BY <2>1
  <2> QED BY <2>1, <2>2, <2>3, Blanks, Numbers DEF Types
<1>4. CASE ThreadResumed
  <2>1. wall' \in 0 .. MaxGoals
    BY <1>4, Numbers DEF ThreadResumed, Types, Row
  <2> QED BY <1>4, <2>1 DEF ThreadResumed, Types, client, counters, ActorPlaces
<1> QED BY <1>1, <1>2, <1>3, <1>4

LEMMA TypesKept ==
  ASSUME IInv, Next
  PROVE  Types'
BY AccountTypes, TurnTypes, IdleTypes, CallingTypes, OutsideTypes DEF Next

-----------------------------------------------------------------------------
(* The bounds.                                                             *)

\* Tokens are spent by an answer of the provider, and forgotten by a compaction.
Spending ==
  /\ \E n \in 0 .. 1 : usage' = usage + n /\ spent' = spent + n
  /\ pc = "sample" /\ UNCHANGED <<acct, job>>
Compacting == pc = "sample" /\ usage' = 0 /\ UNCHANGED <<spent, acct, job, pc>>
TokensStay == UNCHANGED <<usage, spent>>

LEMMA TokenSteps ==
  ASSUME Next
  PROVE  TokensStay \/ Spending \/ Compacting
<1>1. CASE UNCHANGED <<usage, spent>>
  BY <1>1 DEF TokensStay
<1>7. CASE Account
  BY <1>7, <1>1 DEF Account, ChargeRead, ChargeWrite, ChargeReread, ChargePanics, Others, counters, history
<1>8. CASE Turn
  <2>1. CASE \/ CheckCandidate \/ StartFails \/ TurnStartedRead \/ TurnStarted \/ UpdateGoalRead
             \/ \E b \in Budgets : CreateGoal(b)
             \/ \E s \in {"complete", "blocked"} : UpdateGoal(s)
             \/ ToolCompleted \/ ToolCompletedGoal \/ ToolCharged \/ GoalToolCharged
             \/ \E a \in BOOLEAN : TurnFinished(a)
    BY <2>1, <1>1 DEF CheckCandidate, StartFails, TurnStartedRead, TurnStarted, UpdateGoalRead,
       UpdateGoal, CreateGoal, CreateRow, ToolCompleted, ToolCompletedGoal, ToolCharged, GoalToolCharged, TurnFinished,
       Others, counters, history
  <2>2. CASE Tell \/ TurnDropped \/ FinishTurn \/ TellEnd \/ ReleaseTurn
    BY <2>2, <1>1 DEF Tell, TurnDropped, FinishTurn, TellEnd, ReleaseTurn, counters, history
  <2>3. CASE \E n \in 0..1, next \in {"create", "update", "tool done", "finish"} : Sample(n, next)
    BY <2>3 DEF Sample, Spending, memory
  <2>4. CASE CompactInTurn
    BY <2>4 DEF CompactInTurn, Compacting, memory, counters, history, actor
  <2> QED BY <1>8, <2>1, <2>2, <2>3, <2>4 DEF Turn
<1>9. CASE Idle
  BY <1>9, <1>1 DEF Idle, Receive, ApplyEffect, SkipLook, Look, ReserveContinuation, Escalate, Stay,
                    counters
<1>10. CASE Calling
  BY <1>10, <1>1 DEF Calling, SetRead, AccountBefore, SetCreate, SetReread, SetUpdate, ExternalSet,
       SendEffect, ClearStart, DeleteGoal, ExternalClear, Client, history
<1>11. CASE SubmitUser \/ SubmitOther \/ Restart \/ ThreadResumed
  BY <1>11, <1>1 DEF SubmitUser, SubmitOther, Restart, ThreadResumed, counters, history
<1> QED BY <1>7, <1>8, <1>9, <1>10, <1>11 DEF Next

\* What a step does to the row: it stays the row of its goal, or is charged, or is that of a
\* new goal, or is gone.
SameGoal == row'.id = row.id /\ (row' = NoRow <=> row'.id = 0) /\ UNCHANGED <<goals, born>>
RowKept == SameGoal /\ row'.used = row.used
RowCharged == ChargeWrite /\ row.id = job.goal /\ SameGoal
RowCreated ==
  /\ row'.id = goals + 1 /\ row' # NoRow /\ row'.used = 0 /\ ~row'.suppressed
  /\ goals' = goals + 1 /\ born'[goals + 1] = spent /\ \A g \in 1 .. goals : born'[g] = born[g]
  /\ UNCHANGED <<spent, quiet>>
  /\ row = NoRow \/ SetCreate
RowDeleted == DeleteGoal /\ row' = NoRow /\ UNCHANGED <<goals, born>>

LEMMA RowSteps ==
  ASSUME IInv, Next
  PROVE  RowKept \/ RowCharged \/ RowCreated \/ RowDeleted
<1> USE DEF IInv
<1>a. row \in Row /\ (row = NoRow <=> row.id = 0)
  BY DEF Types, KnownGoals
<1>b. goals \in 0 .. MaxGoals /\ spent \in 0 .. MaxSpent /\ born \in Seq(0 .. MaxSpent) /\ Len(born) = goals
  BY DEF Types
<1>1. CASE UNCHANGED <<row, goals, born>>
  BY <1>1, <1>a DEF RowKept, SameGoal
<1>2. ASSUME NEW expected, row' = Unsuppress(row, expected), UNCHANGED <<goals, born>>
      PROVE  RowKept
  BY <1>2, <1>a, UnsuppressFacts DEF RowKept, SameGoal
<1>c. ASSUME row # NoRow, row'.id = row.id, row'.used = row.used, UNCHANGED <<goals, born>>
      PROVE  RowKept
  BY <1>c, <1>a, Blanks DEF RowKept, SameGoal
<1>3. CASE Account
  <2>1. CASE ChargeWrite
    <3>1. CASE row.id = job.goal
      <4>1. row.id # 0 /\ job.seen \in Row /\ job.delta \in Nat
        BY <2>1, <3>1 DEF ChargeWrite, Locked, JobSteps, Types, JobType
      <4>2. row'.id = row.id
        BY <2>1, <3>1, <1>a DEF ChargeWrite, Row
      <4> QED BY <2>1, <3>1, <4>1, <4>2, Blanks DEF RowCharged, SameGoal, ChargeWrite, Others, counters, history
    <3>2. CASE row.id # job.goal
      BY <2>1, <3>2, <1>1 DEF ChargeWrite, Others, counters, history
    <3> QED BY <3>1, <3>2
  <2>2. CASE ChargeRead \/ ChargeReread \/ ChargePanics
    BY <2>2, <1>1 DEF ChargeRead, ChargeReread, ChargePanics, Others, counters, history
  <2> QED BY <1>3, <2>1, <2>2 DEF Account
<1>4. CASE Turn
  <2>1. CASE \/ CheckCandidate \/ StartFails \/ TurnStartedRead \/ CompactInTurn \/ UpdateGoalRead
             \/ \E n \in 0..1, next \in {"create", "update", "tool done", "finish"} : Sample(n, next)
             \/ ToolCompleted \/ ToolCompletedGoal \/ GoalToolCharged
             \/ Tell \/ TurnDropped \/ TellEnd \/ ReleaseTurn
             \/ \E a \in BOOLEAN : TurnFinished(a)
    BY <2>1, <1>1 DEF CheckCandidate, StartFails, TurnStartedRead, CompactInTurn, UpdateGoalRead,
       Sample, ToolCompleted, ToolCompletedGoal, GoalToolCharged, Tell, TurnDropped, TellEnd,
       ReleaseTurn, TurnFinished, Others, counters, history
  <2>2. CASE TurnStarted
    <3>1. row' = Unsuppress(row, job.goal) \/ row' = row
      BY <2>2 DEF TurnStarted
    <3> QED BY <2>2, <3>1, <1>1, <1>2 DEF TurnStarted, counters
  <2>3. CASE ToolCharged
    BY <2>3, <1>2 DEF ToolCharged, counters
  <2>4. CASE \E b \in Budgets : CreateGoal(b)
    <3>1. PICK b \in Budgets : CreateGoal(b)
      BY <2>4
    <3>2. CASE row = NoRow
      <4>1. CreateRow("active", b) /\ UNCHANGED <<spent, quiet>>
        BY <3>1, <3>2 DEF CreateGoal
      <4> QED BY <3>2, <4>1, <1>a, <1>b, CreateFacts DEF RowCreated, RowStatuses
    <3>3. CASE row # NoRow
      BY <3>1, <3>3, <1>1 DEF CreateGoal
    <3> QED BY <3>2, <3>3
  <2>5. CASE \E s \in {"complete", "blocked"} : UpdateGoal(s)
    <3>1. PICK s \in {"complete", "blocked"} : UpdateGoal(s)
      BY <2>5
    <3>2. hand.budget \in Budgets \cup {0} /\ s \in RowStatuses
      BY DEF Types, Row, RowStatuses
    <3>3. CASE row # NoRow
      <4>1. row' = [row EXCEPT !.status = s, !.budget = hand.budget] /\ UNCHANGED <<goals, born>>
        BY <3>1, <3>3 DEF UpdateGoal, counters, history
      <4>2. row'.id = row.id /\ row'.used = row.used
          BY <4>1, <1>a DEF Row
        <4> QED BY <3>3, <4>1, <4>2, <1>c
    <3>4. CASE row = NoRow
      BY <3>1, <3>4, <1>1 DEF UpdateGoal, counters, history
    <3> QED BY <3>3, <3>4
  <2>6. CASE FinishTurn
    <3>1. /\ UNCHANGED <<goals, born>>
          /\ row' = row \/ (row' = [row EXCEPT !.suppressed = TRUE] /\ Active(row))
      BY <2>6 DEF FinishTurn, counters
    <3>2. row' = row \/ (row # NoRow /\ row'.id = row.id /\ row'.used = row.used)
      BY <3>1, <1>a, Blanks DEF Row
    <3> QED BY <3>1, <3>2, <1>1, <1>c
  <2> QED BY <1>4, <2>1, <2>2, <2>3, <2>4, <2>5, <2>6 DEF Turn
<1>5. CASE Idle
  <2>1. CASE Receive \/ ApplyEffect \/ SkipLook \/ Look \/ ReserveContinuation
    BY <2>1, <1>1 DEF Receive, ApplyEffect, SkipLook, Look, ReserveContinuation, Stay, counters
  <2>2. CASE \E s \in {"active", "paused", "blocked"} : Escalate(s)
    <3>1. PICK s \in {"active", "paused", "blocked"} : Escalate(s)
      BY <2>2
    <3>2. row' = [row EXCEPT !.status = s] /\ Active(row) /\ UNCHANGED <<goals, born>>
      BY <3>1 DEF Escalate, MayContinue, Stay, counters
    <3>3. row # NoRow /\ row'.id = row.id /\ row'.used = row.used
      BY <3>2, <1>a, Blanks DEF Row
    <3> QED BY <3>2, <3>3, <1>c
  <2> QED BY <1>5, <2>1, <2>2 DEF Idle
<1>6. CASE Calling
  <2>a. call.status \in RowStatuses /\ call.budget \in Budgets \cup {0}
    BY Numbers DEF Types, CallType, RowStatuses
  <2>1. CASE \/ \E s \in Statuses, b \in Budgets : SetRead(s, b)
             \/ AccountBefore \/ SetReread \/ SendEffect \/ ClearStart \/ ExternalClear
    BY <2>1, <1>1 DEF SetRead, AccountBefore, SetReread, SendEffect, ClearStart, ExternalClear, history
  <2>2. CASE SetCreate
    <3>1. CreateRow(call.status, call.budget) /\ UNCHANGED <<spent, quiet>>
      BY <2>2 DEF SetCreate
    <3> QED BY <2>2, <3>1, <2>a, <1>a, <1>b, CreateFacts DEF RowCreated
  <2>3. CASE SetUpdate
    <3>1. /\ UNCHANGED <<goals, born>>
          /\ row' = row \/ (row # NoRow /\ row' = [row EXCEPT !.status = call.status, !.budget = call.budget])
      BY <2>3 DEF SetUpdate, history
    <3>2. row' = row \/ (row # NoRow /\ row'.id = row.id /\ row'.used = row.used)
      BY <3>1, <1>a DEF Row
    <3> QED BY <3>1, <3>2, <1>1, <1>c
  <2>4. CASE ExternalSet
    <3>1. UNCHANGED <<goals, born>> /\ (row' = row \/ row' = Unsuppress(row, call.goal))
      BY <2>4 DEF ExternalSet
    <3> QED BY <3>1, <1>1, <1>2
  <2>5. CASE DeleteGoal
    BY <2>5 DEF DeleteGoal, RowDeleted, history
  <2> QED BY <1>6, <2>1, <2>2, <2>3, <2>4, <2>5 DEF Calling
<1>7. CASE SubmitUser \/ SubmitOther \/ Restart \/ ThreadResumed
  BY <1>7, <1>1 DEF SubmitUser, SubmitOther, Restart, ThreadResumed, counters, history
<1> QED BY <1>3, <1>4, <1>5, <1>6, <1>7 DEF Next

LEMMA SpentKept ==
  ASSUME IInv, Next
  PROVE  Spent' /\ spent' \in Nat /\ spent <= spent'
<1>1. /\ usage \in Nat /\ spent \in Nat /\ goals \in Nat
      /\ usage <= spent /\ \A g \in 1 .. goals : born[g] <= spent
  BY DEF IInv, Types, Spent
<1>2. \A g \in 1 .. goals : born[g] \in Nat
  BY BornFacts DEF IInv
<1>3. usage' <= spent' /\ spent' \in Nat /\ spent <= spent'
  BY <1>1, TokenSteps DEF TokensStay, Spending, Compacting
<1>4. \A g \in 1 .. goals' : born'[g] <= spent
  BY <1>1, RowSteps DEF RowKept, RowCharged, RowCreated, RowDeleted, SameGoal
<1>5. goals' \in Nat /\ \A g \in 1 .. goals' : born'[g] \in Nat
  BY <1>1, <1>2, RowSteps DEF RowKept, RowCharged, RowCreated, RowDeleted, SameGoal
<1> QED BY <1>1, <1>3, <1>4, <1>5 DEF Spent

\* The ids of goals.
LEMMA KnownGoalsKept ==
  ASSUME IInv, Next
  PROVE  KnownGoals'
<1> USE DEF IInv
<1> DEFINE Ids == {wall, pending, quiet, acct.goal, job.goal, call.seen.id}
<1>a. goals \in Nat /\ goals' \in Nat /\ goals <= goals' /\ row.id \in 0 .. goals
  <2>1. goals \in Nat /\ row.id \in 0 .. goals
    BY DEF Types, KnownGoals, Row
  <2>2. goals' = goals \/ goals' = goals + 1
    BY RowSteps DEF RowKept, RowCharged, RowCreated, RowDeleted, SameGoal
  <2> QED BY <2>1, <2>2
<1>b. (row' = NoRow <=> row'.id = 0) /\ row'.id \in 0 .. goals'
  BY <1>a, RowSteps, Blanks DEF RowKept, RowCharged, RowCreated, RowDeleted, SameGoal
<1>c. NoJob.goal = 0 /\ NoAcct.goal = 0 /\ NoCall.seen.id = 0
  BY DEF NoJob, NoAcct, NoCall, NoRow
<1>d. Ids \subseteq 0 .. goals /\ 0 \in 0 .. goals
  BY <1>a DEF KnownGoals
<1>e. ASSUME Ids' \subseteq 0 .. goals'
      PROVE  KnownGoals'
  BY <1>b, <1>e DEF KnownGoals
<1>f. ASSUME Ids' \subseteq 0 .. goals
      PROVE  KnownGoals'
  BY <1>f, <1>a, <1>e
<1>1. CASE Account
  <2>1. CASE ChargeRead
    <3>1. job'.goal \in {job.goal, 0} /\ acct'.goal = acct.goal
      <4>1. CASE MayCharge(row, job.goal, job.any)
        BY <2>1, <4>1 DEF ChargeRead, Types, JobType
      <4>2. CASE ~MayCharge(row, job.goal, job.any)
        BY <2>1, <4>2, EndFacts, Blanks DEF ChargeRead
      <4> QED BY <4>1, <4>2
    <3> QED BY <2>1, <3>1, <1>d, <1>f DEF ChargeRead, Others, history
  <2>2. CASE ChargeWrite
    <3>1. job'.goal = job.goal
      BY <2>2 DEF ChargeWrite, Types, JobType
    <3> QED BY <2>2, <3>1, <1>d, <1>f DEF ChargeWrite, Others, memory, history
  <2>3. CASE ChargeReread
    <3>1. job'.goal = 0 /\ acct'.goal = acct.goal
      BY <2>3, EndFacts DEF ChargeReread, Types
    <3> QED BY <2>3, <3>1, <1>d, <1>f DEF ChargeReread, Others, history
  <2>4. CASE ChargePanics
    BY <2>4, <1>c, <1>d, <1>f DEF ChargePanics, Others, memory, history
  <2> QED BY <1>1, <2>1, <2>2, <2>3, <2>4 DEF Account
<1>2. CASE Turn
  <2>1. CASE \/ CheckCandidate \/ StartFails \/ CompactInTurn \/ UpdateGoalRead
             \/ \E n \in 0..1, next \in {"create", "update", "tool done", "finish"} : Sample(n, next)
             \/ GoalToolCharged \/ Tell \/ TurnDropped \/ TellEnd \/ ReleaseTurn
    BY <2>1, <1>c, <1>d, <1>f DEF CheckCandidate, StartFails, CompactInTurn, UpdateGoalRead,
       Sample, GoalToolCharged, Tell, TurnDropped, TellEnd, ReleaseTurn, Others, history, memory, client
  <2>2. CASE TurnStartedRead
    <3>1. job'.goal \in {row.id, 0}
      BY <2>2 DEF TurnStartedRead, NoJob
    <3> QED BY <2>2, <3>1, <1>a, <1>d, <1>f DEF TurnStartedRead, memory, client, history
  <2>3. CASE TurnStarted
    <3>1. acct'.goal = job.goal /\ wall' = job.goal /\ job'.goal = 0 /\ quiet' \in {0, quiet}
      BY <2>3, <1>c DEF TurnStarted
    <3> QED BY <2>3, <3>1, <1>d, <1>f DEF TurnStarted, client
  <2>4. CASE \E b \in Budgets : CreateGoal(b)
    <3>1. PICK b \in Budgets : CreateGoal(b)
      BY <2>4
    <3>2. wall' \in {wall, goals'} /\ UNCHANGED <<pending, quiet, acct, job, call>>
      BY <3>1 DEF CreateGoal, CreateRow, client
    <3> QED BY <3>2, <1>a, <1>d, <1>e
  <2>5. CASE \E s \in {"complete", "blocked"} : UpdateGoal(s)
    BY <2>5, <1>a, <1>d, <1>f DEF UpdateGoal, client, history
  <2>6. CASE ToolCompleted \/ ToolCompletedGoal \/ \E a \in BOOLEAN : TurnFinished(a)
    <3>1. \E mark, any \in BOOLEAN : StartAccounting("actor", op.turn, usage, mark, any)
      BY <2>6 DEF ToolCompleted, ToolCompletedGoal, TurnFinished
    <3>2. usage \in Nat
      BY DEF Types
    <3>3. acct'.goal = acct.goal /\ job'.goal \in {0, acct.goal}
      BY <3>1, <3>2, <1>c, StartFacts DEF NoJob, ChargesGoal, ChargesNothing
    <3> QED BY <2>6, <3>3, <1>d, <1>f DEF ToolCompleted, ToolCompletedGoal, TurnFinished, Others, history
  <2>7. CASE ToolCharged
    BY <2>7, <1>c, <1>d, <1>f DEF ToolCharged, client
  <2>8. CASE FinishTurn
    <3>1. quiet' \in {quiet, row.id} /\ acct' = NoAcct /\ job' = NoJob /\ pending' = 0
          /\ UNCHANGED <<wall, call>>
      BY <2>8 DEF FinishTurn, client
    <3> QED BY <3>1, <1>a, <1>c, <1>d, <1>f
  <2> QED BY <1>2, <2>1, <2>2, <2>3, <2>4, <2>5, <2>6, <2>7, <2>8 DEF Turn
<1>3. CASE Idle
  BY <1>3, <1>d, <1>f DEF Idle, Receive, ApplyEffect, SkipLook, Look, ReserveContinuation, Escalate, Stay,
                          memory, client
<1>4. CASE Calling
  <2>1. CASE \E s \in Statuses, b \in Budgets : SetRead(s, b)
    <3>1. call'.seen = row
      BY <2>1 DEF SetRead, NoCall
    <3> QED BY <2>1, <3>1, <1>a, <1>d, <1>f DEF SetRead, memory, history
  <2>2. CASE AccountBefore
    <3>1. CASE pc # "unloaded" /\ slot # 0
      <4>1. acct.last \in Nat
        BY DEF Types, AcctType
      <4>2. StartAccounting("client", slot, acct.last, FALSE, FALSE)
        BY <2>2, <3>1 DEF AccountBefore, StartMutation
      <4>3. acct'.goal = acct.goal /\ job'.goal \in {0, acct.goal}
        BY <4>1, <4>2, <1>c, StartFacts DEF ChargesGoal, ChargesNothing
      <4> QED BY <2>2, <4>3, <1>d, <1>f DEF AccountBefore, history
    <3>2. CASE ~(pc # "unloaded" /\ slot # 0)
      <4>1. acct' = acct /\ job'.goal \in {0, wall}
        <5> DEFINE j == [NoJob EXCEPT !.by = "client", !.step = "read", !.goal = wall, !.now = acct.last]
        <5>1. acct' = acct /\ (job' = NoJob \/ job' = j)
          BY <2>2, <3>2 DEF AccountBefore, StartMutation
        <5>2. j.goal = wall
          BY DEF NoJob
        <5> HIDE DEF j
        <5> QED BY <5>1, <5>2, <1>c
      <4> QED BY <2>2, <4>1, <1>d, <1>f DEF AccountBefore, history
    <3> QED BY <3>1, <3>2
  <2>3. CASE SetCreate
    <3>1. call'.seen = call.seen
      <4>1. call' = [call EXCEPT !.goal = goals + 1]
        BY <2>3 DEF SetCreate
      <4>2. call \in CallType
        BY DEF Types
      <4> QED BY <4>1, <4>2 DEF CallType
    <3>2. UNCHANGED <<wall, pending, quiet, acct, job>>
      BY <2>3 DEF SetCreate, memory
    <3> QED BY <3>1, <3>2, <1>a, <1>d, <1>e
  <2>4. CASE SetReread \/ SetUpdate
    <3>1. call'.seen \in {call.seen, NoRow}
      <4>1. call' \in {call, NoCall, [call EXCEPT !.goal = row.id]}
        BY <2>4 DEF SetReread, SetUpdate
      <4> QED BY <4>1 DEF NoCall, Types, CallType
    <3> QED BY <2>4, <3>1, <1>d, <1>f, Blanks DEF SetReread, SetUpdate, memory, history
  <2>5. CASE ExternalSet
    <3>1. call'.seen.id = 0
      BY <2>5, <1>c DEF ExternalSet, NoCall
    <3>2. CASE pc = "unloaded"
      BY <2>5, <3>1, <3>2, <1>d, <1>f DEF ExternalSet, memory
    <3>3. CASE pc # "unloaded"
      <4>1. wall' \in {call.goal, 0} /\ quiet' \in {0, quiet} /\ UNCHANGED <<acct, pending, job>>
        BY <2>5, <3>3 DEF ExternalSet
      <4>2. call.goal \in 0 .. goals
        <5>1. call.goal \in 1 .. goals
          BY <2>5 DEF ExternalSet, Called
        <5> QED BY <5>1, <1>a
      <4> QED BY <3>1, <4>1, <4>2, <1>d, <1>f
    <3> QED BY <3>2, <3>3
  <2>6. CASE SendEffect \/ ClearStart \/ DeleteGoal \/ ExternalClear
    BY <2>6, <1>c, <1>d, <1>f DEF SendEffect, ClearStart, DeleteGoal, ExternalClear, memory, history
  <2> QED BY <1>4, <2>1, <2>2, <2>3, <2>4, <2>5, <2>6 DEF Calling
<1>5. CASE SubmitUser \/ SubmitOther \/ Restart \/ ThreadResumed
  BY <1>5, <1>a, <1>c, <1>d, <1>f DEF SubmitUser, SubmitOther, Restart, ThreadResumed, memory, client, history
<1> QED BY <1>1, <1>2, <1>3, <1>4, <1>5 DEF Next

\* The ids of turns.
LEMMA KnownTurnsKept ==
  ASSUME IInv, Next
  PROVE  KnownTurns'
<1> USE DEF IInv
<1>a. turns \in Nat /\ slot \in 0 .. turns /\ acct.turn \in 0 .. turns /\ op.turn \in 0 .. turns
  BY DEF Types, KnownTurns
<1>b. NoAcct.turn = 0 /\ NoOp.turn = 0 /\ \A r \in Reports : Effect(r).turn = 0
  BY DEF NoAcct, NoOp, Effect
<1>c. \A o \in OpType, r \in Reports : [o EXCEPT !.report = r].turn = o.turn
  BY DEF OpType
<1>1. CASE UNCHANGED <<slot, acct, op, queue, turns>>
  BY <1>1 DEF KnownTurns
<1>2. ASSUME slot' \in {0, slot}, acct'.turn \in {0, acct.turn, op.turn}, op'.turn \in {0, op.turn},
             UNCHANGED <<queue, turns>>
      PROVE  KnownTurns'
  BY <1>2, <1>a DEF KnownTurns
<1>3. ASSUME NEW o \in OpType, queue' = Append(queue, o), o.turn = 0, UNCHANGED <<slot, acct, op, turns>>
      PROVE  KnownTurns'
  BY <1>3, <1>a, AppendFacts DEF KnownTurns, Types
<1>4. ASSUME NEW o \in OpType, queue' = Append(queue, o), o.turn = turns + 1, slot' = turns + 1,
             turns' = turns + 1, UNCHANGED <<acct, op>>
      PROVE  KnownTurns'
  <2>1. queue \in Seq(OpType)
    BY DEF Types
  <2>2. \A i \in DOMAIN queue' : queue'[i].turn <= turns'
    <3>1. \A i \in DOMAIN queue' : (i \in DOMAIN queue /\ queue'[i] = queue[i]) \/ queue'[i] = o
      BY <1>4, <2>1, AppendFacts
    <3>2. \A i \in DOMAIN queue : queue[i].turn \in Nat
      <4>1. \A i \in DOMAIN queue : queue[i] \in OpType
        BY <2>1, ElementFacts
      <4> QED BY <4>1 DEF OpType
    <3> QED BY <1>4, <1>a, <3>1, <3>2 DEF KnownTurns
  <2> QED BY <1>4, <1>a, <2>2 DEF KnownTurns
<1>5. CASE Account
  <2>1. CASE ChargeRead \/ ChargeReread
    <3>1. acct'.turn = acct.turn
      BY <2>1, EndFacts, Blanks DEF ChargeRead, ChargeReread, Types
    <3> QED BY <2>1, <3>1, <1>2 DEF ChargeRead, ChargeReread, actor, Others, counters
  <2>2. CASE ChargeWrite \/ ChargePanics
    BY <2>2, <1>2 DEF ChargeWrite, ChargePanics, actor, memory, Others, counters
  <2> QED BY <1>5, <2>1, <2>2 DEF Account
<1>6. CASE Turn
  <2>a. op.report \in Reports /\ op \in OpType
    BY DEF Types, OpType
  <2>1. CASE \/ CheckCandidate \/ StartFails \/ TurnStartedRead \/ CompactInTurn \/ UpdateGoalRead
             \/ \E n \in 0..1, next \in {"create", "update", "tool done", "finish"} : Sample(n, next)
    BY <2>1, <1>1 DEF CheckCandidate, StartFails, TurnStartedRead, CompactInTurn, UpdateGoalRead,
       Sample, actor, memory, counters
  <2>8. CASE GoalToolCharged
    BY <2>8, <1>1 DEF GoalToolCharged, Others, memory, counters
  <2>7. CASE (\E b \in Budgets : CreateGoal(b)) \/ \E s \in {"complete", "blocked"} : UpdateGoal(s)
    BY <2>7, <1>1 DEF CreateGoal, UpdateGoal, counters
  <2>2. CASE TurnStarted \/ ReleaseTurn
    BY <2>2, <1>b, <1>2 DEF TurnStarted, ReleaseTurn, memory, counters
  <2>3. CASE ToolCompleted \/ ToolCompletedGoal \/ \E a \in BOOLEAN : TurnFinished(a)
    <3>1. \E mark, any \in BOOLEAN : StartAccounting("actor", op.turn, usage, mark, any)
      BY <2>3 DEF ToolCompleted, ToolCompletedGoal, TurnFinished
    <3>2. usage \in Nat
      BY DEF Types
    <3>3. acct'.turn = acct.turn
      BY <3>1, <3>2, StartFacts DEF ChargesGoal, ChargesNothing
    <3> QED BY <2>3, <3>3, <1>2 DEF ToolCompleted, ToolCompletedGoal, TurnFinished, Others, counters
  <2>4. CASE Tell \/ TellEnd \/ TurnDropped
    <3>1. op'.turn = op.turn
      BY <2>4, <2>a, <1>c, Blanks DEF Tell, TellEnd, TurnDropped
    <3> QED BY <2>4, <3>1, <1>2 DEF Tell, TellEnd, TurnDropped, memory, counters
  <2>5. CASE ToolCharged
    <3>1. BudgetReport(Outcome) \in Reports
      BY BudgetReportFacts DEF Outcome, Types, JobType
    <3>2. op'.turn = op.turn
      BY <2>5, <3>1, <2>a, <1>c DEF ToolCharged
    <3> QED BY <2>5, <3>2, <1>2 DEF ToolCharged, counters
  <2>6. CASE FinishTurn
    <3>1. \E r : op' = [op EXCEPT !.report = r]
      BY <2>6 DEF FinishTurn
    <3>2. op'.turn = op.turn
      BY <3>1 DEF Types, OpType
    <3> QED BY <2>6, <3>2, <1>b, <1>2 DEF FinishTurn, counters
  <2> QED BY <1>6, <2>1, <2>2, <2>3, <2>4, <2>5, <2>6, <2>7, <2>8 DEF Turn
<1>7. CASE Idle
  <2>1. CASE Receive
    <3>1. /\ op' = Head(queue) /\ queue' = Tail(queue) /\ queue # <<>> /\ queue \in Seq(OpType)
          /\ UNCHANGED <<slot, acct, turns>>
      BY <2>1 DEF Receive, Types, memory, counters
    <3>2. op'.turn \in 0 .. turns /\ \A i \in DOMAIN queue' : queue'[i].turn <= turns
      <4>1. op' = queue[1] /\ 1 \in DOMAIN queue /\ op' \in OpType
        BY <3>1, TailFacts
      <4>2. \A i \in DOMAIN queue' : i + 1 \in DOMAIN queue /\ queue'[i] = queue[i + 1]
        BY <3>1, TailFacts
      <4> QED BY <4>1, <4>2 DEF KnownTurns, OpType
    <3> QED BY <3>1, <3>2, <1>a DEF KnownTurns
  <2>2. CASE ApplyEffect \/ SkipLook \/ Look \/ \E s \in {"active", "paused", "blocked"} : Escalate(s)
    BY <2>2, <1>b, <1>2 DEF ApplyEffect, SkipLook, Look, Escalate, Stay, memory, counters
  <2>3. CASE ReserveContinuation
    <3>1. CASE MayContinue(row) /\ slot = 0
      <4> DEFINE o == [NoOp EXCEPT !.kind = "continuation", !.turn = turns + 1, !.goal = row.id]
      <4>1. /\ slot' = turns + 1 /\ turns' = turns + 1 /\ turns < MaxTurns /\ queue' = Append(queue, o)
            /\ UNCHANGED <<acct, op>>
        BY <2>3, <3>1 DEF ReserveContinuation, Reserve
      <4>2. turns + 1 \in 0 .. MaxTurns /\ row.id \in 0 .. MaxGoals
        BY <4>1, Numbers DEF Types, Row
      <4>3. o \in OpType /\ o.turn = turns + 1
        BY <4>2, OpFacts DEF NoOp
      <4> QED BY <4>1, <4>3, <1>4
    <3>2. CASE ~(MayContinue(row) /\ slot = 0)
      BY <2>3, <3>2, <1>1 DEF ReserveContinuation, Stay, counters
    <3> QED BY <3>1, <3>2
  <2> QED BY <1>7, <2>1, <2>2, <2>3 DEF Idle
<1>8. CASE Calling
  <2>1. CASE AccountBefore
    <3>1. acct'.turn = acct.turn
      <4>1. acct.last \in Nat
        BY DEF Types, AcctType
      <4> QED BY <2>1, <4>1, StartFacts DEF AccountBefore, StartMutation, ChargesGoal, ChargesNothing
    <3> QED BY <2>1, <3>1, <1>2 DEF AccountBefore, Client
  <2>2. CASE SendEffect
    <3>1. queue' = queue \/ queue' = Append(queue, Effect(call.report))
      BY <2>2 DEF SendEffect
    <3>2. call.report \in Reports
      BY DEF Types, CallType
    <3>3. Effect(call.report) \in OpType /\ Effect(call.report).turn = 0
      BY <3>2, <1>b, OpFacts
    <3> QED BY <2>2, <3>1, <3>3, <1>1, <1>3 DEF SendEffect, memory, Client
  <2>3. CASE \/ \E s \in Statuses, b \in Budgets : SetRead(s, b)
             \/ SetCreate \/ SetReread \/ SetUpdate \/ ExternalSet
             \/ ClearStart \/ DeleteGoal \/ ExternalClear
    BY <2>3, <1>1, <1>2, <1>b DEF SetRead, SetCreate, SetReread, SetUpdate, ExternalSet, ClearStart,
       DeleteGoal, ExternalClear, memory, Client
  <2> QED BY <1>8, <2>1, <2>2, <2>3 DEF Calling
<1>9. CASE SubmitUser
  <2> DEFINE o == [NoOp EXCEPT !.kind = "user", !.turn = turns + 1]
  <2>1. /\ slot' = turns + 1 /\ turns' = turns + 1 /\ turns < MaxTurns /\ queue' = Append(queue, o)
        /\ UNCHANGED <<acct, op>>
    BY <1>9 DEF SubmitUser, Reserve, actor, memory
  <2>2. turns + 1 \in 0 .. MaxTurns
    BY <2>1, Numbers DEF Types
  <2>3. o \in OpType /\ o.turn = turns + 1
    BY <2>2, OpFacts DEF NoOp
  <2> QED BY <2>1, <2>3, <1>4
<1>10. CASE SubmitOther
  BY <1>10, <1>b, <1>3, Blanks DEF SubmitOther, actor, memory, counters
<1>11. CASE Restart \/ ThreadResumed
  BY <1>11, <1>a, <1>b, <1>1 DEF Restart, ThreadResumed, KnownTurns, counters
<1> QED BY <1>5, <1>6, <1>7, <1>8, <1>9, <1>10, <1>11 DEF Next

-----------------------------------------------------------------------------
(* The lock and the client's call.                                         *)

LEMMA LockedKept ==
  ASSUME IInv, Next
  PROVE  Locked'
<1> USE DEF IInv
<1>a. NoJob.by = "none" /\ NoJob.step = "done"
  BY DEF NoJob
<1>b. job \in JobType
  BY DEF Types
<1>1. ASSUME job' = job, pc' = pc \/ (pc \notin Charging \cup {"starting"} /\ pc' # "starting"),
             cpc' = cpc \/ cpc \notin {"set accounted", "clear accounted"} \/ job.by # "client"
      PROVE  Locked'
  BY <1>1 DEF Locked
<1>2. ASSUME job' = NoJob, pc' # "starting"
      PROVE  Locked'
  BY <1>2, <1>a DEF Locked, JobSteps
<1>3. CASE Account
  <2>1. ASSUME NEW outcome \in Row, EndAccounting(outcome), job.step \in JobSteps, UNCHANGED <<pc, cpc>>
        PROVE  Locked'
    <3>1. CASE job.by = "client"
      BY <2>1, <3>1, <1>2, EndFacts DEF Locked
    <3>2. CASE job.by # "client"
      <4>1. job.by = "actor" /\ pc \in Charging
        BY <2>1, <3>2, <1>b DEF Locked, JobType, JobSteps
      <4>2. job'.by = "actor" /\ job'.step = "done"
        BY <2>1, <3>2, <4>1, EndFacts DEF NoJob
      <4> QED BY <2>1, <4>1, <4>2 DEF Locked, JobSteps, Charging
    <3> QED BY <3>1, <3>2
  <2>2. CASE ChargeRead
    <3>1. CASE MayCharge(row, job.goal, job.any)
      <4>1. job'.by = job.by /\ job'.step = "write" /\ job'.goal = job.goal /\ job.step = "read"
        BY <2>2, <3>1, <1>b DEF ChargeRead, JobType
      <4> QED BY <2>2, <4>1 DEF ChargeRead, Locked, JobSteps, actor
    <3>2. CASE ~MayCharge(row, job.goal, job.any)
      BY <2>1, <2>2, <3>2, Blanks DEF ChargeRead, JobSteps, actor
    <3> QED BY <3>1, <3>2
  <2>3. CASE ChargeWrite
    <3>1. job'.by = job.by /\ job'.step = "reread" /\ job'.goal = job.goal /\ job.step = "write"
      BY <2>3, <1>b DEF ChargeWrite, JobType
    <3> QED BY <2>3, <3>1 DEF ChargeWrite, Locked, JobSteps, actor
  <2>4. CASE ChargeReread
    BY <2>1, <2>4 DEF ChargeReread, JobSteps, actor, Types
  <2>5. CASE ChargePanics
    <3>1. pc = "starting" => job.step = "started"
      BY DEF Locked, Charging
    <3> QED BY <2>5, <3>1, <1>2 DEF ChargePanics
  <2> QED BY <1>3, <2>2, <2>3, <2>4, <2>5 DEF Account
<1>4. CASE Turn
  <2>1. CASE \/ CheckCandidate \/ StartFails \/ CompactInTurn \/ UpdateGoalRead
             \/ \E n \in 0..1, next \in {"create", "update", "tool done", "finish"} : Sample(n, next)
             \/ Tell \/ TellEnd \/ ReleaseTurn
    BY <2>1, <1>1 DEF CheckCandidate, StartFails, CompactInTurn, UpdateGoalRead, Sample, Tell, TellEnd,
                      ReleaseTurn, Charging, client, actor
  <2>2. CASE (\E b \in Budgets : CreateGoal(b)) \/ \E s \in {"complete", "blocked"} : UpdateGoal(s)
    BY <2>2, <1>1 DEF CreateGoal, UpdateGoal, Charging, client
  <2>3. CASE TurnStarted \/ GoalToolCharged \/ ToolCharged \/ FinishTurn
    BY <2>3, <1>2 DEF TurnStarted, GoalToolCharged, ToolCharged, FinishTurn
  <2>4. CASE TurnStartedRead
    <3>1. job'.by = "actor" /\ job'.step = "started"
      BY <2>4 DEF TurnStartedRead, NoJob
    <3> QED BY <2>4, <3>1 DEF TurnStartedRead, Locked, JobSteps, Charging
  <2>5. CASE TurnDropped
    <3>1. CASE job.by = "actor"
      BY <2>5, <3>1, <1>2 DEF TurnDropped
    <3>2. CASE job.by # "actor"
      BY <2>5, <3>2 DEF TurnDropped, Locked, client
    <3> QED BY <3>1, <3>2
  <2>6. CASE ToolCompleted \/ ToolCompletedGoal \/ \E a \in BOOLEAN : TurnFinished(a)
    <3>1. pc' \in Charging /\ \E mark, any \in BOOLEAN : StartAccounting("actor", op.turn, usage, mark, any)
      BY <2>6 DEF ToolCompleted, ToolCompletedGoal, TurnFinished, Charging
    <3>2. usage \in Nat
      BY DEF Types
    <3>3. job'.by = "actor" /\ (job'.step = "done" \/ (job'.step = "read" /\ job'.goal # 0))
      <4>1. \/ job'.by = "actor" /\ job'.step = "read" /\ job'.goal = acct.goal /\ acct.goal # 0
            \/ job' = [NoJob EXCEPT !.by = "actor", !.seen = NoRow]
        BY <3>1, <3>2, StartFacts DEF ChargesGoal, ChargesNothing
      <4> QED BY <4>1 DEF NoJob
    <3> QED BY <3>1, <3>3 DEF Locked, JobSteps, Charging
  <2> QED BY <1>4, <2>1, <2>2, <2>3, <2>4, <2>5, <2>6 DEF Turn
<1>5. CASE Idle
  BY <1>5, <1>1 DEF Idle, Receive, ApplyEffect, SkipLook, Look, ReserveContinuation, Escalate, Stay,
                    Charging, client
<1>6. CASE Calling
  <2>1. CASE AccountBefore
    <3>1. job = NoJob /\ (job' = NoJob \/ (job'.by = "client" /\ job'.step = "read" /\ job'.goal # 0))
      <4>1. acct.last \in Nat
        BY DEF Types, AcctType
      <4>2. CASE pc # "unloaded" /\ slot # 0
        BY <2>1, <4>1, <4>2, StartFacts DEF AccountBefore, StartMutation, ChargesGoal, ChargesNothing
      <4>3. CASE ~(pc # "unloaded" /\ slot # 0)
        <5> DEFINE j == [NoJob EXCEPT !.by = "client", !.step = "read", !.goal = wall, !.now = acct.last]
        <5>1. job = NoJob /\ (job' = NoJob \/ (job' = j /\ wall # 0))
          BY <2>1, <4>3 DEF AccountBefore, StartMutation
        <5>2. j.by = "client" /\ j.step = "read" /\ j.goal = wall
          BY DEF NoJob
        <5> HIDE DEF j
        <5> QED BY <5>1, <5>2
      <4> QED BY <4>2, <4>3
    <3>2. pc' = pc /\ cpc' \in {"set accounted", "clear accounted"}
      BY <2>1 DEF AccountBefore
    <3>3. pc # "starting"
      BY <3>1, <1>a DEF Locked
    <3> QED BY <3>1, <3>2, <3>3, <1>a DEF Locked, JobSteps
  <2>2. CASE \/ \E s \in Statuses, b \in Budgets : SetRead(s, b)
             \/ SetCreate \/ SetReread \/ SetUpdate \/ ExternalSet \/ SendEffect
             \/ ClearStart \/ DeleteGoal \/ ExternalClear
    BY <2>2, <1>1 DEF SetRead, SetCreate, SetReread, SetUpdate, ExternalSet, SendEffect, ClearStart,
                      DeleteGoal, ExternalClear
  <2> QED BY <1>6, <2>1, <2>2 DEF Calling
<1>7. CASE SubmitUser \/ SubmitOther \/ ThreadResumed
  BY <1>7, <1>1 DEF SubmitUser, SubmitOther, ThreadResumed, Charging, actor, client
<1>8. CASE Restart
  BY <1>8, <1>2 DEF Restart
<1> QED BY <1>3, <1>4, <1>5, <1>6, <1>7, <1>8 DEF Next

LEMMA CalledKept ==
  ASSUME IInv, Next
  PROVE  Called'
<1> USE DEF IInv
<1>a. goals \in Nat /\ row.id \in 0 .. goals /\ (row = NoRow <=> row.id = 0)
  BY DEF Types, KnownGoals, Row
<1>b. NoRow.id = 0 /\ NoCall.seen = NoRow
  BY DEF NoRow, NoCall
<1>c. call \in CallType
  BY DEF Types
<1>1. ASSUME cpc' \notin {"set account", "set accounted", "update", "apply set"}
      PROVE  Called'
  BY <1>1 DEF Called
<1>2. ASSUME UNCHANGED <<call, cpc>>, ~DeleteGoal, ~SetCreate
      PROVE  Called'
  <2>1. CASE SameGoal
    BY <2>1, <1>2, <1>a DEF Called, SameGoal
  <2>2. CASE RowCreated
    <3>1. row = NoRow /\ goals' = goals + 1
      BY <2>2, <1>2 DEF RowCreated
    <3>2. 1 .. goals \subseteq 1 .. goals'
      BY <3>1, <1>a
    <3> QED BY <3>1, <3>2, <1>2 DEF Called
  <2> QED BY <2>1, <2>2, <1>2, RowSteps DEF RowKept, RowCharged, RowDeleted
<1>3. CASE Calling
  <2>1. CASE \E s \in Statuses, b \in Budgets : SetRead(s, b)
    <3>1. call'.seen = row /\ row' = row /\ cpc' = "set account"
      BY <2>1 DEF SetRead, NoCall
    <3> QED BY <3>1 DEF Called
  <2>2. CASE AccountBefore
    BY <2>2 DEF AccountBefore, Called
  <2>3. CASE SetCreate
    <3>1. call'.goal = goals + 1 /\ goals' = goals + 1 /\ cpc' = "apply set"
      <4>1. call' = [call EXCEPT !.goal = goals + 1]
        BY <2>3 DEF SetCreate
      <4>2. call'.goal = goals + 1
        BY <4>1, <1>c DEF CallType
      <4> QED BY <2>3, <4>2 DEF SetCreate, CreateRow
    <3>2. goals + 1 \in 1 .. goals + 1
      BY <1>a
    <3> QED BY <3>1, <3>2 DEF Called
  <2>4. CASE SetReread
    <3>1. CASE row.id = call.seen.id
      <4>1. call' = [call EXCEPT !.goal = row.id] /\ cpc' = "update" /\ UNCHANGED <<row, goals>>
        BY <2>4, <3>1 DEF SetReread
      <4>2. call'.goal = row.id
        BY <4>1, <1>c DEF CallType
      <4>3. row # NoRow
        BY <2>4 DEF SetReread, Called
      <4>4. row.id \in 1 .. goals
        BY <4>3, <1>a
      <4> QED BY <4>1, <4>2, <4>3, <4>4 DEF Called
    <3>2. CASE row.id # call.seen.id
      BY <2>4, <3>2, <1>1 DEF SetReread
    <3> QED BY <3>1, <3>2
  <2>5. CASE SetUpdate
    <3>1. CASE row = NoRow
      BY <2>5, <3>1, <1>1 DEF SetUpdate
    <3>2. CASE row # NoRow
      BY <2>5, <3>2 DEF SetUpdate, Called
    <3> QED BY <3>1, <3>2
  <2>6. CASE ExternalSet
    BY <2>6, <1>1 DEF ExternalSet
  <2>7. CASE SendEffect \/ ClearStart \/ DeleteGoal \/ ExternalClear
    BY <2>7, <1>1 DEF SendEffect, ClearStart, DeleteGoal, ExternalClear
  <2> QED BY <1>3, <2>1, <2>2, <2>3, <2>4, <2>5, <2>6, <2>7 DEF Calling
<1>4. CASE ~Calling /\ (UNCHANGED <<call, cpc>> \/ cpc' = "idle")
  BY <1>4, <1>1, <1>2 DEF Calling
<1>5. CASE Account
  BY <1>3, <1>4, <1>5 DEF Account, ChargeRead, ChargeWrite, ChargeReread, ChargePanics
<1>6. CASE Turn
  <2>1. CASE \/ CheckCandidate \/ StartFails \/ TurnStartedRead \/ TurnStarted \/ UpdateGoalRead
             \/ \E s \in {"complete", "blocked"} : UpdateGoal(s)
             \/ ToolCompleted \/ ToolCompletedGoal \/ ToolCharged \/ GoalToolCharged
             \/ \E a \in BOOLEAN : TurnFinished(a)
    BY <2>1, <1>3, <1>4 DEF CheckCandidate, StartFails, TurnStartedRead, TurnStarted, UpdateGoalRead,
       UpdateGoal, ToolCompleted, ToolCompletedGoal, ToolCharged, GoalToolCharged, TurnFinished, client
  <2>2. CASE \/ \E n \in 0..1, next \in {"create", "update", "tool done", "finish"} : Sample(n, next)
             \/ CompactInTurn \/ \E b \in Budgets : CreateGoal(b)
             \/ Tell \/ TurnDropped \/ FinishTurn \/ TellEnd \/ ReleaseTurn
    BY <2>2, <1>3, <1>4 DEF Sample, CompactInTurn, CreateGoal, Tell, TurnDropped, FinishTurn, TellEnd,
                            ReleaseTurn, client
  <2> QED BY <1>6, <2>1, <2>2 DEF Turn
<1>7. CASE Idle
  BY <1>7, <1>3, <1>4 DEF Idle, Receive, ApplyEffect, SkipLook, Look, ReserveContinuation, Escalate, Stay,
                          client
<1>8. CASE SubmitUser \/ SubmitOther \/ Restart \/ ThreadResumed
  BY <1>8, <1>3, <1>4 DEF SubmitUser, SubmitOther, Restart, ThreadResumed, client
<1> QED BY <1>3, <1>5, <1>6, <1>7, <1>8 DEF Next

-----------------------------------------------------------------------------
(* Tokens.                                                                 *)

LEMMA ChargeRoom ==
  ASSUME IInv, ChargeWrite, row.id = job.goal
  PROVE  Room(job.delta) /\ row'.used = row.used + job.delta
<1> USE DEF IInv
<1>1. /\ job.seen \in Row /\ job.delta \in Nat /\ job.seen.used = row.used /\ row.id # 0
      /\ row \in Row /\ row # NoRow
  BY DEF ChargeWrite, Types, JobType, Money, ChargeFits, Locked, JobSteps, KnownGoals
<1>2. Room(job.delta)
  <2>1. CASE job.by = "actor"
    BY <2>1 DEF ChargeWrite, Money, ChargeFits, JobSteps
  <2>2. CASE job.by # "actor"
    <3>1. job.delta = 0 /\ row.used <= spent - born[row.id]
      BY <2>2, <1>1 DEF ChargeWrite, Money, ChargeFits, ChargedOnce, Locked, Types, JobType
    <3>2. row.used \in Nat
      BY <1>1 DEF Row
    <3> QED BY <3>1, <3>2 DEF Room
  <2> QED BY <2>1, <2>2
<1>3. row'.used = row.used + job.delta
  <2> DEFINE new == Charged(job.seen, job.delta)
  <2>1. new.used = row.used + job.delta
    BY <1>1, ChargedFacts
  <2>2. row' = [row EXCEPT !.used = new.used, !.status = new.status]
    BY DEF ChargeWrite
  <2> HIDE DEF new
  <2> QED BY <1>1, <2>1, <2>2 DEF Row
<1> QED BY <1>2, <1>3

LEMMA ChargedOnceKept ==
  ASSUME IInv, Next
  PROVE  ChargedOnce'
<1> USE DEF IInv
<1>a. spent \in Nat /\ spent' \in Nat /\ spent <= spent'
  BY SpentKept DEF Types
<1>b. row.id \in Nat /\ row.used \in Nat /\ row.id <= goals /\ goals \in Nat /\ (row = NoRow <=> row.id = 0)
  BY DEF Types, KnownGoals, Row
<1>c. \A g \in 1 .. goals : born[g] \in Nat
  BY BornFacts
<1>1. CASE RowKept
  <2>1. row' # NoRow => row # NoRow /\ row.used <= spent - born[row.id] /\ row.id \in 1 .. goals
    BY <1>1, <1>b DEF RowKept, SameGoal, Money, ChargedOnce
  <2>2. row'.id = row.id /\ row'.used = row.used /\ born' = born
    BY <1>1 DEF RowKept, SameGoal
  <2> QED BY <2>1, <2>2, <1>a, <1>b, <1>c DEF ChargedOnce
<1>2. CASE RowCharged
  <2>1. row'.used <= spent - born[row.id] /\ row'.id = row.id /\ born' = born /\ spent' = spent
    BY <1>2, ChargeRoom DEF RowCharged, SameGoal, Room, ChargeWrite, Others, history
  <2> QED BY <2>1 DEF ChargedOnce
<1>3. CASE RowCreated
  BY <1>3, <1>a DEF RowCreated, ChargedOnce
<1>4. CASE RowDeleted
  BY <1>4 DEF RowDeleted, ChargedOnce
<1> QED BY <1>1, <1>2, <1>3, <1>4, RowSteps

LEMMA FitsKept ==
  ASSUME IInv, Next
  PROVE  BaselineFits' /\ ChargeFits'
<1> USE DEF IInv
<1>a. /\ spent \in Nat /\ usage \in Nat /\ row.id \in 0 .. goals /\ row.used \in Nat /\ goals \in Nat
      /\ (row = NoRow <=> row.id = 0) /\ acct.goal \in 0 .. goals /\ job.goal \in 0 .. goals
      /\ acct.last \in Nat
  BY DEF Types, KnownGoals, Row, AcctType
<1>b. \A g \in 1 .. goals : born[g] \in Nat
  BY BornFacts
<1>c. /\ NoJob.by = "none" /\ NoJob.step = "done" /\ NoAcct.goal = 0 /\ NoAcct.last = 0
  BY DEF NoJob, NoAcct
<1>d. row' # NoRow => /\ row'.id \in 1 .. goals' /\ Room(0)'
                      /\ row'.used \in Nat /\ born'[row'.id] \in Nat /\ spent' \in Nat
  <2>1. row' # NoRow => row'.id \in 1 .. goals'
    BY <1>a, KnownGoalsKept, RowSteps DEF KnownGoals, RowKept, RowCharged, RowCreated, RowDeleted, SameGoal
  <2>2. row'.used \in Nat /\ spent' \in Nat
    BY TypesKept DEF Types, Row
  <2>3. row' # NoRow => born'[row'.id] \in Nat
    BY <1>a, <1>b, <2>1, RowSteps DEF RowKept, RowCharged, RowCreated, RowDeleted, SameGoal
  <2>4. row' # NoRow => row'.used <= spent' - born'[row'.id]
    BY ChargedOnceKept DEF ChargedOnce
  <2> QED BY <2>1, <2>2, <2>3, <2>4 DEF Room
<1>1. ASSUME TokensStay, acct' \in {acct, NoAcct}, job' \in {job, NoJob},
             pc' \in Working => pc \in Working /\ (job' = job \/ job.step # "reread")
      PROVE  BaselineFits' /\ ChargeFits'
  <2>1. ~ChargeWrite
    BY <1>1, <1>c DEF ChargeWrite, Types, JobType
  <2>2. CASE RowKept
    <3>1. row'.id = row.id /\ row'.used = row.used /\ (row' # NoRow => row # NoRow)
          /\ UNCHANGED <<usage, spent, born>>
      BY <2>2, <1>a, <1>1 DEF RowKept, SameGoal, TokensStay
    <3>2. BaselineFits'
      BY <3>1, <1>1, <1>c DEF BaselineFits, Money, Room, Over
    <3>3. ChargeFits'
      BY <3>1, <1>1, <1>c DEF ChargeFits, Money, Room, JobSteps
    <3> QED BY <3>2, <3>3
  <2>3. CASE RowCreated \/ RowDeleted
    <3>1. (row' # NoRow => row'.id > goals) /\ UNCHANGED <<usage, spent>> /\ row'.id \in {0, goals + 1}
      BY <2>3, <1>a, <1>1, Blanks DEF RowCreated, RowDeleted, TokensStay
    <3>2. BaselineFits'
      BY <3>1, <1>1, <1>a, <1>c DEF BaselineFits
    <3>3. job'.step \in JobSteps => row'.id # job'.goal
      <4>1. job.step \in JobSteps => job.goal \in 1 .. goals
        <5>1. job.step \in JobSteps => job.goal # 0
          BY DEF Locked
        <5> QED BY <5>1, <1>a
      <4>2. job'.step \in JobSteps => job' = job
        BY <1>1, <1>c DEF JobSteps
      <4>3. \A g \in 1 .. goals : row'.id # g
        BY <3>1, <1>a
      <4> QED BY <4>1, <4>2, <4>3
    <3>4. ChargeFits'
      BY <3>1, <3>3, <1>1, <1>c DEF ChargeFits, Money, JobSteps
    <3> QED BY <3>2, <3>4
  <2> QED BY <2>1, <2>2, <2>3, RowSteps DEF RowCharged

\* An accounting that starts charges what fits ...
<1>2. ASSUME NEW now \in Nat, NEW by \in {"actor", "client"}, NEW turn, NEW mark \in BOOLEAN, NEW any \in BOOLEAN,
             StartAccounting(by, turn, now, mark, any), UNCHANGED <<row, usage, spent, born>>,
             by = "actor" => now = usage /\ pc \in Working,
             by = "client" => now = acct.last /\ pc' = pc
      PROVE  BaselineFits' /\ ChargeFits'
  <2>1. job = NoJob
    BY <1>2 DEF StartAccounting
  <2>2. CASE ChargesGoal(by, now)
    <3>b. /\ acct.goal # 0 /\ acct # NoAcct /\ acct' = acct /\ job'.by = by /\ job'.step = "read"
          /\ job'.goal = acct.goal /\ job'.now = now
          /\ job'.delta = IF now > acct.last THEN now - acct.last ELSE 0
      BY <2>2 DEF ChargesGoal
    <3>1. BaselineFits'
      BY <1>2, <2>1, <3>b, <1>c DEF BaselineFits, Money, Room, Over
    <3>2. CASE by = "actor"
      <4>1. row.id = acct.goal => Room(Over(acct.last))
        BY <1>2, <2>1, <3>b, <3>2, <1>a, <1>c DEF Money, BaselineFits
      <4>2. job'.delta = Over(acct.last)
        BY <1>2, <3>b, <3>2 DEF Over
      <4> QED BY <1>2, <3>b, <3>1, <3>2, <4>1, <4>2 DEF ChargeFits, Room, JobSteps
    <3>3. CASE by = "client"
      BY <1>2, <3>b, <3>1, <3>3, <1>a DEF ChargeFits, JobSteps
    <3> QED BY <3>2, <3>3
  <2>3. CASE ChargesNothing(by, now)
    <3>b. /\ job' = IF by = "client" THEN NoJob ELSE [NoJob EXCEPT !.by = by, !.seen = NoRow]
          /\ acct.goal # 0 => acct' = acct
      BY <2>3 DEF ChargesNothing
    <3>a. acct'.goal = acct.goal
      BY <1>2, StartFacts
    <3>1. job'.step = "done" /\ job'.by # "client"
      BY <3>b, <3>a, <1>2 DEF NoJob
    <3>2. ChargeFits'
      BY <3>1 DEF ChargeFits, JobSteps
    <3>3. CASE acct.goal = 0
      BY <3>2, <3>3, <3>b, <3>a, <1>d DEF BaselineFits
    <3>4. CASE acct.goal # 0
      BY <3>2, <3>4, <2>1, <3>b, <3>a, <1>2, <1>c DEF BaselineFits, Money, Room, Over
    <3> QED BY <3>3, <3>4
  <2>4. ChargesGoal(by, now) \/ ChargesNothing(by, now)
    BY <1>2, StartFacts
  <2> QED BY <2>2, <2>3, <2>4
\* ... and one that ends moves the baseline to where it charged.
<1>3. ASSUME NEW outcome \in Row, EndAccounting(outcome), job.step \in JobSteps,
             UNCHANGED <<row, usage, spent, born, pc>>
      PROVE  BaselineFits' /\ ChargeFits'
  <2>1. /\ job'.step = "done" /\ job'.by # "client"
        /\ acct'.goal = acct.goal /\ (acct = NoAcct => acct' = acct) /\ (acct # NoAcct => acct'.last = job.now)
    BY <1>3, EndFacts, <1>c DEF NoJob
  <2>2. ChargeFits'
    BY <2>1 DEF ChargeFits, JobSteps
  <2>3. CASE job.by = "actor"
    <3>1. acct # NoAcct => acct'.last = usage'
      BY <1>3, <2>1, <2>3 DEF Money, ChargeFits
    <3>2. acct' # NoAcct => Over(acct.last)' = 0
      BY <3>1, <2>1, <1>a, <1>3 DEF Over
    <3> QED BY <2>2, <3>2, <1>d DEF BaselineFits, Room
  <2>4. CASE job.by # "actor"
    <3>1. job.by = "client"
      BY <2>4, <1>3 DEF Locked, Types, JobType, JobSteps
    <3>2. acct # NoAcct => acct'.last = acct.last
      BY <2>1, <3>1 DEF Money, ChargeFits
    <3> QED BY <1>3, <2>1, <2>2, <2>4, <3>2 DEF BaselineFits, Money, Room, Over
  <2> QED BY <2>3, <2>4
<1>4. CASE Account
  <2>1. CASE ChargeRead
    <3>1. CASE MayCharge(row, job.goal, job.any)
      <4>1. /\ job' = [job EXCEPT !.seen = row, !.step = "write"] /\ row.id = job.goal
            /\ UNCHANGED <<row, acct, usage, spent, born, pc>> /\ job.step = "read"
        BY <2>1, <3>1 DEF ChargeRead, MayCharge, Others, history, actor
      <4>2. /\ job'.by = job.by /\ job'.step = "write" /\ job'.goal = job.goal /\ job'.seen = row
            /\ job'.delta = job.delta /\ job'.now = job.now
        BY <4>1 DEF Types, JobType
      <4>3. BaselineFits'
        BY <4>1, <4>2 DEF BaselineFits, Money, Room, Over
      <4>4. ChargeFits'
        BY <4>1, <4>2 DEF ChargeFits, Money, Room, JobSteps
      <4> QED BY <4>3, <4>4
    <3>2. CASE ~MayCharge(row, job.goal, job.any)
      BY <2>1, <3>2, <1>3, Blanks DEF ChargeRead, JobSteps, actor, Others, history
    <3> QED BY <3>1, <3>2
  <2>2. CASE ChargeWrite
    <3>1. /\ job' = [job EXCEPT !.step = "reread"] /\ job.step = "write"
          /\ UNCHANGED <<acct, usage, spent, born, pc>> /\ (row.id # job.goal => row' = row)
      BY <2>2 DEF ChargeWrite, Others, memory, history, actor
    <3>2. /\ job'.by = job.by /\ job'.step = "reread" /\ job'.goal = job.goal /\ job'.seen = job.seen
          /\ job'.delta = job.delta /\ job'.now = job.now
      BY <3>1 DEF Types, JobType
    <3>3. ChargeFits'
      BY <3>1, <3>2 DEF ChargeFits, Money, JobSteps
    <3>4. CASE job.by = "actor"
      BY <3>2, <3>3, <3>4 DEF BaselineFits
    <3>5. CASE job.by # "actor"
      <4>1. job.delta = 0
        BY <3>1, <3>5 DEF Money, ChargeFits, Locked, Types, JobType, JobSteps
      <4>2. row'.id = row.id /\ row'.used = row.used /\ (row' # NoRow => row # NoRow)
        <5>1. CASE row.id = job.goal
          <6>1. row'.id = row.id
            BY <2>2, <5>1 DEF ChargeWrite, Types, Row
          <6>2. row'.used = row.used
            BY <2>2, <5>1, <4>1, <1>a, ChargeRoom
          <6>3. row.id # 0
            BY <3>1, <5>1 DEF Locked, JobSteps
          <6> QED BY <6>1, <6>2, <6>3, <1>a
        <5>2. CASE row.id # job.goal
          BY <3>1, <5>2
        <5> QED BY <5>1, <5>2
      <4> QED BY <3>1, <3>2, <3>3, <3>5, <4>2 DEF BaselineFits, Money, Room, Over
    <3> QED BY <3>4, <3>5
  <2>3. CASE ChargeReread
    BY <2>3, <1>3 DEF ChargeReread, JobSteps, actor, Others, history, Types
  <2>4. CASE ChargePanics
    <3>1. /\ TokensStay /\ acct' = acct /\ job' = NoJob /\ row = NoRow /\ row' = row
          /\ pc' \in {"dead", pc}
      BY <2>4 DEF ChargePanics, TokensStay, Others, memory, history
    <3> QED BY <3>1, <1>c DEF BaselineFits, ChargeFits, JobSteps
  <2> QED BY <1>4, <2>1, <2>2, <2>3, <2>4 DEF Account
<1>5. CASE Turn
  <2>1. CASE \/ CheckCandidate \/ StartFails \/ UpdateGoalRead
             \/ Tell \/ TellEnd \/ ReleaseTurn
    BY <2>1, <1>1 DEF CheckCandidate, StartFails, UpdateGoalRead, Tell, TellEnd, ReleaseTurn, Working, InTurn,
                      TokensStay, memory, history, actor
  <2>2. CASE (\E b \in Budgets : CreateGoal(b)) \/ \E s \in {"complete", "blocked"} : UpdateGoal(s)
    BY <2>2, <1>1 DEF CreateGoal, CreateRow, UpdateGoal, Working, InTurn, TokensStay, history
  <2>3. CASE GoalToolCharged \/ ToolCharged
    BY <2>3, <1>1 DEF GoalToolCharged, ToolCharged, Done, Working, InTurn, TokensStay, Others, memory, history
  <2>4. CASE FinishTurn \/ TurnDropped
    BY <2>4, <1>1 DEF FinishTurn, TurnDropped, Working, InTurn, TokensStay, memory
  <2>5. CASE TurnStartedRead
    <3>1. /\ job'.step = "started" /\ job'.by = "actor" /\ pc' = "starting"
      BY <2>5 DEF TurnStartedRead, NoJob
    <3> QED BY <3>1 DEF BaselineFits, ChargeFits, JobSteps, Working, InTurn
  <2>6. CASE TurnStarted
    <3>1. job' = NoJob /\ acct'.last = usage /\ usage' = usage
      BY <2>6 DEF TurnStarted
    <3>2. Over(acct.last)' = 0
      BY <3>1, <1>a DEF Over
    <3> QED BY <3>1, <3>2, <1>c, <1>d DEF BaselineFits, ChargeFits, JobSteps
  <2>7. CASE \E n \in 0..1, next \in {"create", "update", "tool done", "finish"} : Sample(n, next)
    <3>1. PICK n \in 0 .. 1 : usage' = usage + n /\ spent' = spent + n
      BY <2>7 DEF Sample
    <3>2. pc = "sample" /\ UNCHANGED <<row, acct, job, born>>
      BY <2>7 DEF Sample, memory
    <3>3. job.by # "actor" /\ pc \in Working
      BY <3>2 DEF Locked, Charging, Working, InTurn
    <3>4. ChargeFits'
      BY <3>2, <3>3 DEF ChargeFits, Money, JobSteps, Locked
    <3>5. CASE row # NoRow /\ acct # NoAcct /\ acct.goal = row.id
      <4>1. Room(Over(acct.last))
        BY <3>3, <3>5 DEF Money, BaselineFits
      <4>2. row.id \in 1 .. goals
        BY <3>5, <1>a
      <4>3. Over(acct.last)' <= Over(acct.last) + n /\ Over(acct.last)' \in Nat /\ Over(acct.last) \in Nat
        BY <3>1, <3>2, <1>a DEF Over
      <4>4. Room(Over(acct.last))'
        BY <3>1, <3>2, <4>1, <4>2, <4>3, <1>a, <1>b DEF Room
      <4> QED BY <3>4, <4>4 DEF BaselineFits
    <3>6. CASE ~(row # NoRow /\ acct # NoAcct /\ acct.goal = row.id)
      BY <3>2, <3>4, <3>6 DEF BaselineFits
    <3> QED BY <3>5, <3>6
  <2>8. CASE CompactInTurn
    <3>1. usage' = 0 /\ pc = "sample" /\ UNCHANGED <<row, acct, job, born, spent>>
      BY <2>8 DEF CompactInTurn, memory, history
    <3>2. job.by # "actor"
      BY <3>1 DEF Locked, Charging
    <3>3. ChargeFits'
      BY <3>1, <3>2 DEF ChargeFits, Money, JobSteps, Locked
    <3>4. Over(acct.last)' = 0
      BY <3>1, <1>a DEF Over
    <3> QED BY <3>3, <3>4, <1>d DEF BaselineFits
  <2>9. CASE ToolCompleted \/ ToolCompletedGoal \/ \E a \in BOOLEAN : TurnFinished(a)
    <3>1. \E mark, any \in BOOLEAN : StartAccounting("actor", op.turn, usage, mark, any)
      BY <2>9 DEF ToolCompleted, ToolCompletedGoal, TurnFinished
    <3>2. UNCHANGED <<row, usage, spent, born>> /\ pc \in Working
      BY <2>9 DEF ToolCompleted, ToolCompletedGoal, TurnFinished, Others, history, Working, InTurn
    <3> QED BY <3>1, <3>2, <1>2, <1>a
  <2> QED BY <1>5, <2>1, <2>2, <2>3, <2>4, <2>5, <2>6, <2>7, <2>8, <2>9 DEF Turn
<1>6. CASE Idle
  BY <1>6, <1>1 DEF Idle, Receive, ApplyEffect, SkipLook, Look, ReserveContinuation, Escalate, Stay,
                    Working, InTurn, memory, TokensStay
<1>7. CASE Calling
  <2>1. CASE AccountBefore
    <3>1. UNCHANGED <<row, usage, spent, born, pc>>
      BY <2>1 DEF AccountBefore, Client, history
    <3>2. CASE pc # "unloaded" /\ slot # 0
      <4>1. StartAccounting("client", slot, acct.last, FALSE, FALSE)
        BY <2>1, <3>2 DEF AccountBefore, StartMutation
      <4> QED BY <3>1, <4>1, <1>2, <1>a
    <3>3. CASE ~(pc # "unloaded" /\ slot # 0)
      <4> DEFINE j == [NoJob EXCEPT !.by = "client", !.step = "read", !.goal = wall, !.now = acct.last]
      <4>1. job = NoJob /\ acct' = acct /\ (job' = NoJob \/ job' = j)
        BY <2>1, <3>3 DEF AccountBefore, StartMutation
      <4>2. CASE job' = NoJob
        BY <3>1, <4>1, <4>2, <1>1 DEF TokensStay
      <4>3. CASE job' = j
        <5>1. job'.by = "client" /\ job'.step = "read" /\ job'.now = acct.last /\ job'.delta = 0
          BY <4>3 DEF NoJob
        <5>2. ChargeFits'
          BY <4>1, <5>1 DEF ChargeFits
        <5>3. BaselineFits'
          BY <3>1, <4>1, <5>1, <1>c DEF BaselineFits, Money, Room, Over
        <5> QED BY <5>2, <5>3
      <4> QED BY <4>1, <4>2, <4>3
    <3> QED BY <3>2, <3>3
  <2>2. CASE \/ \E s \in Statuses, b \in Budgets : SetRead(s, b)
             \/ SetCreate \/ SetReread \/ SetUpdate \/ ExternalSet \/ SendEffect
             \/ ClearStart \/ DeleteGoal \/ ExternalClear
    BY <2>2, <1>1 DEF SetRead, SetCreate, SetReread, SetUpdate, ExternalSet, SendEffect, ClearStart,
                      DeleteGoal, ExternalClear, Client, memory, history, TokensStay
  <2> QED BY <1>7, <2>1, <2>2 DEF Calling
<1>8. CASE SubmitUser \/ SubmitOther \/ Restart \/ ThreadResumed
  BY <1>8, <1>1 DEF SubmitUser, SubmitOther, Restart, ThreadResumed, Working, InTurn, TokensStay, memory,
                    actor, history
<1> QED BY <1>4, <1>5, <1>6, <1>7, <1>8 DEF Next

-----------------------------------------------------------------------------
(* The slot and the continuations.                                         *)

LEMMA SlotsKept ==
  ASSUME IInv, Next
  PROVE  Slots'
<1> USE DEF IInv
<1>a. queue \in Seq(OpType)
  BY DEF Types
<1>b. ~IsTurn(NoOp) /\ \A r \in Reports : ~IsTurn(Effect(r))
  BY DEF IsTurn, NoOp, Effect, TurnKinds
<1>1. ASSUME UNCHANGED <<queue, slot>>, pc' \in TurnStages <=> pc \in TurnStages
      PROVE  Slots'
  BY <1>1 DEF Slots, IsTurn
\* An operation without a turn is sent ...
<1>2. ASSUME NEW o \in OpType, ~IsTurn(o), queue' = Append(queue, o), UNCHANGED <<slot, pc>>
      PROVE  Slots'
  <2>1. /\ \A i \in DOMAIN queue' : IsTurn(queue'[i]) => i \in DOMAIN queue /\ queue'[i] = queue[i]
        /\ \A i \in DOMAIN queue : i \in DOMAIN queue' /\ queue'[i] = queue[i]
    BY <1>2, <1>a, AppendFacts
  <2> QED BY <1>2, <2>1 DEF Slots, IsTurn
\* ... one with a turn takes the free slot ...
<1>3. ASSUME NEW o \in OpType, IsTurn(o), queue' = Append(queue, o), slot = 0, slot' # 0,
             pc' \notin TurnStages
      PROVE  Slots'
  <2>1. \A i \in DOMAIN queue' : IsTurn(queue'[i]) => i = Len(queue) + 1
    BY <1>3, <1>a, AppendFacts DEF Slots
  <2>2. Len(queue) + 1 \in DOMAIN queue' /\ queue'[Len(queue) + 1] = o
    BY <1>3, <1>a, AppendFacts
  <2> QED BY <1>3, <2>1, <2>2 DEF Slots, IsTurn
\* ... and its turn frees it.
<1>4. ASSUME UNCHANGED queue, slot' = 0, pc \in TurnStages, pc' \notin TurnStages
      PROVE  Slots'
  BY <1>4 DEF Slots, IsTurn
<1>5. CASE Account
  <2>1. CASE ChargeRead \/ ChargeWrite \/ ChargeReread
    BY <2>1, <1>1 DEF ChargeRead, ChargeWrite, ChargeReread, actor, Others
  <2>2. CASE ChargePanics
    <3>1. CASE job.by = "actor"
      <4>1. pc \in Charging /\ pc' = "dead" /\ slot' = 0 /\ queue' = queue
        BY <2>2, <3>1 DEF ChargePanics, Locked, Others
      <4> QED BY <4>1, <1>4 DEF Charging, TurnStages, InTurn
    <3>2. CASE job.by # "actor"
      BY <2>2, <3>2, <1>1 DEF ChargePanics, Others
    <3> QED BY <3>1, <3>2
  <2> QED BY <1>5, <2>1, <2>2 DEF Account
<1>6. CASE Turn
  <2>1. CASE \/ CheckCandidate \/ StartFails \/ TurnStartedRead \/ TurnStarted \/ UpdateGoalRead
             \/ \E n \in 0..1, next \in {"create", "update", "tool done", "finish"} : Sample(n, next)
             \/ CompactInTurn \/ \E b \in Budgets : CreateGoal(b)
             \/ \E s \in {"complete", "blocked"} : UpdateGoal(s)
    BY <2>1, <1>1 DEF CheckCandidate, StartFails, TurnStartedRead, TurnStarted, UpdateGoalRead, Sample,
                      CompactInTurn, CreateGoal, UpdateGoal, TurnStages, InTurn, actor
  <2>2. CASE \/ ToolCompleted \/ ToolCompletedGoal \/ ToolCharged \/ GoalToolCharged
             \/ \E a \in BOOLEAN : TurnFinished(a)
             \/ Tell \/ TurnDropped \/ FinishTurn \/ TellEnd
    BY <2>2, <1>1 DEF ToolCompleted, ToolCompletedGoal, ToolCharged, GoalToolCharged, TurnFinished,
                      Tell, TurnDropped, FinishTurn, TellEnd, TurnStages, InTurn, Others
  <2>3. CASE ReleaseTurn
    BY <2>3, <1>4 DEF ReleaseTurn, TurnStages, InTurn
  <2> QED BY <1>6, <2>1, <2>2, <2>3 DEF Turn
<1>7. CASE Idle
  <2>1. CASE Receive
    <3>1. /\ pc = "idle" /\ queue # <<>> /\ queue' = Tail(queue) /\ slot' = slot
          /\ pc' = CASE Head(queue).kind = "user" -> "start"
                     [] Head(queue).kind = "continuation" -> "candidate"
                     [] Head(queue).kind = "effect" -> "effect"
                     [] OTHER -> "idle"
      BY <2>1 DEF Receive
    <3>2. pc' \in TurnStages <=> IsTurn(Head(queue))
      BY <3>1 DEF IsTurn, TurnKinds, TurnStages, InTurn
    <3>3. /\ Head(queue) = queue[1] /\ 1 \in DOMAIN queue
          /\ \A i \in DOMAIN queue' : i + 1 \in DOMAIN queue /\ i + 1 # 1 /\ queue'[i] = queue[i + 1]
                                      /\ i \in Nat
          /\ \A i \in DOMAIN queue : i = 1 \/ (i - 1 \in DOMAIN queue' /\ queue'[i - 1] = queue[i])
      BY <3>1, <1>a, TailFacts
    <3>4. \A i, j \in DOMAIN queue' : i + 1 = j + 1 => i = j
      BY <3>3
    <3>5. IsTurn(Head(queue)) => slot # 0 /\ \A i \in DOMAIN queue' : ~IsTurn(queue'[i])
      BY <3>3 DEF Slots, IsTurn
    <3>6. ~IsTurn(Head(queue)) /\ slot # 0 => \E i \in DOMAIN queue' : IsTurn(queue'[i])
      <4>1. pc \notin TurnStages
        BY <3>1 DEF TurnStages, InTurn
      <4> QED BY <4>1, <3>3 DEF Slots
    <3>7. \A i \in DOMAIN queue' : IsTurn(queue'[i]) =>
            slot # 0 /\ ~IsTurn(Head(queue)) /\ \A j \in DOMAIN queue' : IsTurn(queue'[j]) => j = i
      BY <3>3, <3>4 DEF Slots
    <3> QED BY <3>1, <3>2, <3>5, <3>6, <3>7 DEF Slots, IsTurn
  <2>2. CASE ApplyEffect \/ SkipLook \/ Look \/ \E s \in {"active", "paused", "blocked"} : Escalate(s)
    BY <2>2, <1>1 DEF ApplyEffect, SkipLook, Look, Escalate, Stay, TurnStages, InTurn
  <2>3. CASE ReserveContinuation
    <3>1. CASE MayContinue(row) /\ slot = 0
      <4> DEFINE o == [NoOp EXCEPT !.kind = "continuation", !.turn = turns + 1, !.goal = row.id]
      <4>1. /\ slot = 0 /\ slot' = turns + 1 /\ turns < MaxTurns /\ queue' = Append(queue, o)
            /\ pc' = "idle"
        BY <2>3, <3>1 DEF ReserveContinuation, Reserve
      <4>2. turns + 1 \in 0 .. MaxTurns /\ turns + 1 # 0 /\ row.id \in 0 .. MaxGoals
        BY <4>1, Numbers DEF Types, Row
      <4>3. o \in OpType /\ IsTurn(o)
        BY <4>2, OpFacts DEF NoOp, IsTurn, TurnKinds
      <4> QED BY <4>1, <4>2, <4>3, <1>3 DEF TurnStages, InTurn
    <3>2. CASE ~(MayContinue(row) /\ slot = 0)
      BY <2>3, <3>2, <1>1 DEF ReserveContinuation, Stay, TurnStages, InTurn
    <3> QED BY <3>1, <3>2
  <2> QED BY <1>7, <2>1, <2>2, <2>3 DEF Idle
<1>8. CASE Calling
  <2>1. CASE SendEffect
    <3>1. queue' = queue \/ queue' = Append(queue, Effect(call.report))
      BY <2>1 DEF SendEffect
    <3>2. call.report \in Reports
      BY DEF Types, CallType
    <3>3. Effect(call.report) \in OpType /\ ~IsTurn(Effect(call.report))
      BY <3>2, <1>b, OpFacts
    <3> QED BY <2>1, <3>1, <3>3, <1>1, <1>2 DEF SendEffect, Client
  <2>2. CASE \/ \E s \in Statuses, b \in Budgets : SetRead(s, b)
             \/ AccountBefore \/ SetCreate \/ SetReread \/ SetUpdate \/ ExternalSet
             \/ ClearStart \/ DeleteGoal \/ ExternalClear
    BY <2>2, <1>1 DEF SetRead, AccountBefore, SetCreate, SetReread, SetUpdate, ExternalSet, ClearStart,
                      DeleteGoal, ExternalClear, Client
  <2> QED BY <1>8, <2>1, <2>2 DEF Calling
<1>9. CASE SubmitUser
  <2> DEFINE o == [NoOp EXCEPT !.kind = "user", !.turn = turns + 1]
  <2>1. /\ slot = 0 /\ slot' = turns + 1 /\ turns < MaxTurns /\ queue' = Append(queue, o) /\ pc' = pc
    BY <1>9 DEF SubmitUser, Reserve, actor
  <2>2. turns + 1 \in 0 .. MaxTurns /\ turns + 1 # 0
    BY <2>1, Numbers DEF Types
  <2>3. o \in OpType /\ IsTurn(o)
    BY <2>2, OpFacts DEF NoOp, IsTurn, TurnKinds
  <2>4. pc \notin TurnStages
    BY <2>1 DEF Slots
  <2> QED BY <2>1, <2>2, <2>3, <2>4, <1>3
<1>10. CASE SubmitOther
  BY <1>10, <1>b, <1>2, Blanks DEF SubmitOther, actor
<1>11. CASE Restart
  <2>1. queue' = <<>> /\ slot' = 0 /\ pc' = "unloaded"
    BY <1>11 DEF Restart
  <2>2. DOMAIN queue' = {}
    BY <2>1
  <2>3. pc' \notin TurnStages
    BY <2>1 DEF TurnStages, InTurn
  <2> QED BY <2>1, <2>2, <2>3 DEF Slots
<1>12. CASE ThreadResumed
  BY <1>12, <1>1 DEF ThreadResumed, TurnStages, InTurn
<1> QED BY <1>5, <1>6, <1>7, <1>8, <1>9, <1>10, <1>11, <1>12 DEF Next

LEMMA ForgottenKept ==
  ASSUME IInv, Next
  PROVE  ForgottenOnlyFor'
<1> USE DEF IInv
<1>a. ~MayContinue(NoRow) /\ (row = NoRow <=> row.id = 0)
  BY Blanks DEF MayContinue, KnownGoals
<1>1. ASSUME \/ pc' # "idle" \/ queue' # <<>> \/ cpc' # "idle" \/ row' = NoRow
             \/ stalled' \notin {"nothing", "more to do"}
             \/ UNCHANGED <<pc, queue, cpc, row, stalled>>
      PROVE  ForgottenOnlyFor'
  BY <1>1, <1>a DEF ForgottenOnlyFor
<1>2. CASE Account
  <2>1. CASE ChargeRead \/ ChargeReread
    BY <2>1, <1>1 DEF ChargeRead, ChargeReread, actor, Others, history
  <2>2. CASE ChargeWrite
    <3>1. job.by # "none"
      BY <2>2 DEF ChargeWrite, Locked
    <3>2. CASE job.by = "actor"
      BY <2>2, <3>2, <1>1 DEF ChargeWrite, Locked, Charging, actor
    <3>3. CASE job.by = "client"
      BY <2>2, <3>3, <1>1 DEF ChargeWrite, Locked
    <3> QED BY <3>1, <3>2, <3>3 DEF Types, JobType
  <2>3. CASE ChargePanics
    BY <2>3, <1>1 DEF ChargePanics
  <2> QED BY <1>2, <2>1, <2>2, <2>3 DEF Account
<1>3. CASE Turn
  <2>1. CASE \/ CheckCandidate \/ StartFails \/ TurnStartedRead \/ TurnStarted \/ UpdateGoalRead
             \/ \E n \in 0..1, next \in {"create", "update", "tool done", "finish"} : Sample(n, next)
             \/ CompactInTurn \/ \E b \in Budgets : CreateGoal(b)
             \/ \E s \in {"complete", "blocked"} : UpdateGoal(s)
    BY <2>1, <1>1 DEF CheckCandidate, StartFails, TurnStartedRead, TurnStarted, UpdateGoalRead, Sample,
                      CompactInTurn, CreateGoal, UpdateGoal, actor
  <2>2. CASE \/ ToolCompleted \/ ToolCompletedGoal \/ ToolCharged \/ GoalToolCharged
             \/ \E a \in BOOLEAN : TurnFinished(a)
             \/ Tell \/ TurnDropped \/ FinishTurn \/ TellEnd \/ ReleaseTurn
    BY <2>2, <1>1 DEF ToolCompleted, ToolCompletedGoal, ToolCharged, GoalToolCharged, TurnFinished,
                      Tell, TurnDropped, FinishTurn, TellEnd, ReleaseTurn
  <2> QED BY <1>3, <2>1, <2>2 DEF Turn
<1>4. CASE Idle
  <2>a. pc \in {"look", "reserve"} /\ queue = <<>> => slot = 0
    <3>1. queue = <<>> => DOMAIN queue = {}
      OBVIOUS
    <3>2. pc \in {"look", "reserve"} => pc \notin TurnStages
      BY DEF TurnStages, InTurn
    <3> QED BY <3>1, <3>2 DEF Slots
  <2>1. CASE Receive
    <3>1. /\ pc' = CASE Head(queue).kind = "user" -> "start"
                     [] Head(queue).kind = "continuation" -> "candidate"
                     [] Head(queue).kind = "effect" -> "effect"
                     [] OTHER -> "idle"
          /\ stalled' = IF Head(queue).kind = "none" THEN "no look after it" ELSE "nothing"
      BY <2>1 DEF Receive
    <3>2. Head(queue).kind \in TurnKinds \cup {"effect", "none"}
      <4>1. Head(queue) \in OpType
        BY <2>1, TailFacts DEF Receive, Types
      <4> QED BY <4>1 DEF OpType
    <3>3. pc' # "idle" \/ stalled' = "no look after it"
      BY <3>1, <3>2 DEF TurnKinds
    <3> QED BY <3>3, <1>1
  <2>2. CASE ApplyEffect \/ \E s \in {"active", "paused", "blocked"} : Escalate(s)
    BY <2>2, <1>1 DEF ApplyEffect, Escalate, Stay
  <2>3. CASE SkipLook
    BY <2>3, <2>a, <1>1 DEF SkipLook, Stay
  <2>4. CASE Look
    <3>1. CASE MayContinue(row)
      BY <2>4, <3>1, <1>1 DEF Look, Stay
    <3>2. CASE ~MayContinue(row)
      BY <2>4, <3>2 DEF Look, ForgottenOnlyFor
    <3> QED BY <3>1, <3>2
  <2>5. CASE ReserveContinuation
    <3>1. CASE MayContinue(row) /\ slot = 0
      <4>1. \E o : queue' = Append(queue, o)
        BY <2>5, <3>1 DEF ReserveContinuation
      <4>2. queue' # <<>>
        BY <4>1 DEF Types
      <4> QED BY <4>2, <1>1
    <3>2. CASE slot # 0
      BY <2>5, <3>2, <2>a, <1>1 DEF ReserveContinuation, Stay
    <3>3. CASE ~MayContinue(row)
      BY <2>5, <3>3 DEF ReserveContinuation, ForgottenOnlyFor
    <3> QED BY <3>1, <3>2, <3>3
  <2> QED BY <1>4, <2>1, <2>2, <2>3, <2>4, <2>5 DEF Idle
<1>5. CASE Calling
  <2>1. CASE \/ \E s \in Statuses, b \in Budgets : SetRead(s, b)
             \/ AccountBefore \/ SetCreate \/ ClearStart \/ ExternalClear
    BY <2>1, <1>1 DEF SetRead, AccountBefore, SetCreate, ClearStart, ExternalClear
  <2>2. CASE SetReread
    BY <2>2, <1>1 DEF SetReread, Called
  <2>3. CASE SetUpdate \/ DeleteGoal
    BY <2>3, <1>1 DEF SetUpdate, DeleteGoal
  <2>4. CASE ExternalSet
    <3>1. CASE pc = "unloaded"
      BY <2>4, <3>1, <1>1 DEF ExternalSet
    <3>2. CASE pc # "unloaded"
      BY <2>4, <3>2, <1>1 DEF ExternalSet
    <3> QED BY <3>1, <3>2
  <2>5. CASE SendEffect
    <3>1. CASE pc \in {"dead", "unloaded"}
      BY <2>5, <3>1, <1>1 DEF SendEffect
    <3>2. CASE pc \notin {"dead", "unloaded"}
      <4>1. queue' = Append(queue, Effect(call.report))
        BY <2>5, <3>2 DEF SendEffect
      <4>2. queue' # <<>>
        BY <4>1 DEF Types
      <4> QED BY <4>2, <1>1
    <3> QED BY <3>1, <3>2
  <2> QED BY <1>5, <2>1, <2>2, <2>3, <2>4, <2>5 DEF Calling
<1>6. CASE SubmitUser \/ SubmitOther
  <2>1. \E o : queue' = Append(queue, o)
    BY <1>6 DEF SubmitUser, SubmitOther
  <2>2. queue' # <<>>
    BY <2>1 DEF Types
  <2> QED BY <2>2, <1>1
<1>7. CASE Restart \/ ThreadResumed
  BY <1>7, <1>1 DEF Restart, ThreadResumed
<1> QED BY <1>2, <1>3, <1>4, <1>5, <1>6, <1>7 DEF Next

\* Every step but the end of a turn keeps the quiet goal or forgets it.
LEMMA QuietedKept ==
  ASSUME IInv, Next
  PROVE  Quieted'
<1> USE DEF IInv
<1> DEFINE Stages == InTurn \cup {"candidate", "start", "starting"}
           Suppressed == quiet # 0 /\ row.id = quiet => row.suppressed
<1>a. queue \in Seq(OpType) /\ row \in Row /\ (row = NoRow <=> row.id = 0) /\ row.id \in 0 .. goals
      /\ quiet \in 0 .. goals /\ goals \in Nat /\ op \in OpType
  BY DEF Types, KnownGoals, Row
<1>b. Suppressed
  BY DEF Quieted
<1>c. Suppressed' /\ (\A i \in DOMAIN queue' : Wanted(queue[i])') /\ (pc' \in Stages => Wanted(op)')
      => Quieted'
  BY DEF Quieted
<1>d. ~(pc \in {"idle", "dead", "unloaded", "look", "reserve", "release", "effect", "tell end", "finish", "finished"}
        /\ pc \in Stages)
  BY DEF InTurn
\* The operations stay as they are.
<1>1. ASSUME UNCHANGED queue, quiet' \in {quiet, 0}, Suppressed',
             pc' \in Stages => pc \in Stages /\ op'.kind = op.kind /\ op'.goal = op.goal
      PROVE  Quieted'
  <2>1. \A i \in DOMAIN queue' : Wanted(queue[i])'
    BY <1>1 DEF Quieted, Wanted
  <2>2. pc' \in Stages => Wanted(op)'
    BY <1>1 DEF Quieted, Wanted
  <2> QED BY <1>1, <2>1, <2>2, <1>c
\* An operation joins the queue.
<1>2. ASSUME NEW o \in OpType, Wanted(o), queue' = Append(queue, o), UNCHANGED <<row, quiet, op>>,
             pc' \in Stages => pc \in Stages
      PROVE  Quieted'
  <2>1. \A i \in DOMAIN queue' : queue'[i] = o \/ (i \in DOMAIN queue /\ queue'[i] = queue[i])
    BY <1>2, <1>a, AppendFacts
  <2>2. \A i \in DOMAIN queue' : Wanted(queue[i])'
    BY <1>2, <2>1 DEF Quieted, Wanted
  <2>3. pc' \in Stages => Wanted(op)'
    BY <1>2 DEF Quieted, Wanted
  <2> QED BY <1>b, <1>2, <2>2, <2>3, <1>c
<1>3. ASSUME UNCHANGED <<row, quiet>> PROVE Suppressed'
  BY <1>3, <1>b
<1>4. ASSUME NEW s, NEW b, CreateRow(s, b), UNCHANGED quiet PROVE Suppressed'
  <2>1. row'.id = goals + 1
    BY <1>4 DEF CreateRow, NewRow
  <2> QED BY <1>4, <2>1, <1>a
<1>5. CASE Account
  <2>1. CASE ChargeRead \/ ChargeReread
    BY <2>1, <1>1, <1>3 DEF ChargeRead, ChargeReread, actor, Others, history
  <2>2. CASE ChargeWrite
    <3>1. row'.id = row.id /\ row'.suppressed = row.suppressed
      BY <2>2, <1>a DEF ChargeWrite, Row
    <3>2. Suppressed'
      BY <2>2, <3>1, <1>b DEF ChargeWrite, Others, history
    <3> QED BY <2>2, <3>2, <1>1 DEF ChargeWrite, actor, Others, history
  <2>3. CASE ChargePanics
    <3>1. UNCHANGED <<row, quiet, queue, op>> /\ pc' \in {"dead", pc}
      BY <2>3 DEF ChargePanics, Others, history
    <3>2. "dead" \notin Stages
      BY DEF InTurn
    <3> QED BY <3>1, <3>2, <1>1, <1>3
  <2> QED BY <1>5, <2>1, <2>2, <2>3 DEF Account
<1>6. CASE Turn
  <2>1. CASE \/ CheckCandidate \/ StartFails \/ TurnStartedRead \/ UpdateGoalRead
             \/ \E n \in 0..1, next \in {"create", "update", "tool done", "finish"} : Sample(n, next)
             \/ CompactInTurn
    BY <2>1, <1>1, <1>3 DEF CheckCandidate, StartFails, TurnStartedRead, UpdateGoalRead, Sample,
                      CompactInTurn, InTurn, actor, history
  <2>2. CASE TurnStarted
    <3>1. CASE op.kind = "user"
      <4>1. quiet' = 0
        BY <2>2, <3>1 DEF TurnStarted
      <4> QED BY <2>2, <4>1, <1>1 DEF TurnStarted, InTurn
    <3>2. CASE op.kind # "user"
      BY <2>2, <3>2, <1>1, <1>3 DEF TurnStarted, InTurn
    <3> QED BY <3>1, <3>2
  <2>3. CASE \E b \in Budgets : CreateGoal(b)
    <3>1. PICK b \in Budgets : CreateGoal(b)
      BY <2>3
    <3>2. quiet' = quiet
      BY <3>1 DEF CreateGoal
    <3>3. Suppressed'
      BY <3>1, <3>2, <1>3, <1>4 DEF CreateGoal
    <3> QED BY <3>1, <3>2, <3>3, <1>1 DEF CreateGoal, InTurn
  <2>4. CASE \E s \in {"complete", "blocked"} : UpdateGoal(s)
    <3>1. row'.id = row.id /\ row'.suppressed = row.suppressed
      BY <2>4, <1>a DEF UpdateGoal, Row
    <3>2. quiet' = quiet
      BY <2>4 DEF UpdateGoal, history
    <3>3. Suppressed'
      BY <3>1, <3>2, <1>b
    <3> QED BY <2>4, <3>2, <3>3, <1>1 DEF UpdateGoal, InTurn
  <2>5. CASE ToolCompleted \/ ToolCompletedGoal \/ GoalToolCharged \/ \E a \in BOOLEAN : TurnFinished(a)
    BY <2>5, <1>1, <1>3 DEF ToolCompleted, ToolCompletedGoal, GoalToolCharged, TurnFinished, InTurn, Others, history
  <2>6. CASE ToolCharged
    <3>1. quiet' = 0 /\ queue' = queue /\ pc = "tool charged"
      BY <2>6 DEF ToolCharged
    <3>2. op'.kind = op.kind /\ op'.goal = op.goal
      BY <2>6, <1>a DEF ToolCharged, OpType
    <3> QED BY <3>1, <3>2, <1>1 DEF InTurn
  <2>7. CASE Tell \/ TurnDropped \/ TellEnd
    <3>1. op'.kind = op.kind /\ op'.goal = op.goal
      BY <2>7, <1>a DEF Tell, TurnDropped, TellEnd, OpType
    <3>2. UNCHANGED <<row, queue, quiet>> /\ (pc' \in Stages => pc \in Stages)
      BY <2>7 DEF Tell, TurnDropped, TellEnd, InTurn
    <3> QED BY <3>1, <3>2, <1>1, <1>3
  <2>8. CASE ReleaseTurn
    <3>1. UNCHANGED <<row, queue, quiet>> /\ pc' \notin Stages
      BY <2>8 DEF ReleaseTurn, history, InTurn
    <3> QED BY <3>1, <1>1, <1>3
  \* No continuation is in the queue while a turn ends.
  <2>9. CASE FinishTurn
    <3>1. pc \in TurnStages /\ queue' = queue /\ pc' = "tell end"
      BY <2>9 DEF FinishTurn, TurnStages
    <3>2. \A i \in DOMAIN queue' : Wanted(queue[i])'
      BY <3>1 DEF Slots, IsTurn, TurnKinds, Wanted
    <3>3. pc' \notin Stages
      BY <3>1 DEF InTurn
    <3>4. \/ row' = row /\ quiet' = quiet
          \/ row' = [row EXCEPT !.suppressed = TRUE]
      BY <2>9 DEF FinishTurn
    <3>5. Suppressed'
      BY <3>4, <1>a, <1>b DEF Row
    <3> QED BY <3>2, <3>3, <3>5, <1>c
  <2> QED BY <1>6, <2>1, <2>2, <2>3, <2>4, <2>5, <2>6, <2>7, <2>8, <2>9 DEF Turn
<1>7. CASE Idle
  <2>1. CASE Receive
    <3>1. /\ queue # <<>> /\ op' = Head(queue) /\ queue' = Tail(queue) /\ UNCHANGED <<row, quiet>>
      BY <2>1 DEF Receive
    <3>2. Head(queue) = queue[1] /\ 1 \in DOMAIN queue
          /\ \A i \in DOMAIN queue' : i + 1 \in DOMAIN queue /\ queue'[i] = queue[i + 1]
      BY <3>1, <1>a, TailFacts
    <3>3. \A i \in DOMAIN queue' : Wanted(queue[i])'
      BY <3>1, <3>2 DEF Quieted, Wanted
    <3>4. Wanted(op)'
      BY <3>1, <3>2 DEF Quieted, Wanted
    <3> QED BY <3>1, <3>3, <3>4, <1>3, <1>c
  <2>2. CASE ApplyEffect \/ SkipLook \/ Look
    <3>1. UNCHANGED <<row, queue, quiet>> /\ pc' \notin Stages
      BY <2>2 DEF ApplyEffect, SkipLook, Look, Stay, InTurn
    <3> QED BY <3>1, <1>1, <1>3
  <2>3. CASE \E s \in {"active", "paused", "blocked"} : Escalate(s)
    <3>1. row'.id = row.id /\ row'.suppressed = row.suppressed
      BY <2>3, <1>a DEF Escalate, Row
    <3>2. UNCHANGED <<queue, quiet>> /\ pc' \notin Stages
      BY <2>3 DEF Escalate, Stay, InTurn
    <3> QED BY <3>1, <3>2, <1>b, <1>1
  <2>4. CASE ReserveContinuation
    <3>1. CASE MayContinue(row) /\ slot = 0
      <4> DEFINE o == [NoOp EXCEPT !.kind = "continuation", !.turn = turns + 1, !.goal = row.id]
      <4>1. /\ turns < MaxTurns /\ queue' = Append(queue, o) /\ pc' = "idle" /\ UNCHANGED <<row, quiet, op>>
        BY <2>4, <3>1 DEF ReserveContinuation, Reserve
      <4>2. turns + 1 \in 0 .. MaxTurns /\ row.id \in 0 .. MaxGoals
        BY <4>1, Numbers DEF Types, Row
      <4>3. o \in OpType /\ o.goal = row.id
        BY <4>2, OpFacts DEF NoOp
      <4>4. row.id # 0 /\ ~row.suppressed
        BY <3>1, <1>a, Blanks DEF MayContinue
      <4>5. Wanted(o)
        BY <4>3, <4>4, <1>b DEF Wanted
      <4>6. pc' \notin Stages
        BY <4>1 DEF InTurn
      <4> HIDE DEF o
      <4> QED BY <4>1, <4>3, <4>5, <4>6, <1>2
    <3>2. CASE ~(MayContinue(row) /\ slot = 0)
      <4>1. UNCHANGED <<row, queue, quiet>> /\ pc' \notin Stages
        BY <2>4, <3>2 DEF ReserveContinuation, Stay, InTurn
      <4> QED BY <4>1, <1>1, <1>3
    <3> QED BY <3>1, <3>2
  <2> QED BY <1>7, <2>1, <2>2, <2>3, <2>4 DEF Idle
<1>8. CASE Calling
  <2>1. CASE SendEffect
    <3>1. UNCHANGED <<row, quiet, op, pc>> /\ (queue' = queue \/ queue' = Append(queue, Effect(call.report)))
      BY <2>1 DEF SendEffect, Client
    <3>2. call.report \in Reports
      BY DEF Types, CallType
    <3>3. Effect(call.report) \in OpType /\ Effect(call.report).kind = "effect"
      BY <3>2, OpFacts DEF Effect, NoOp
    <3> QED BY <3>1, <3>3, <1>1, <1>2, <1>3 DEF Wanted
  <2>2. CASE SetCreate
    <3>1. UNCHANGED <<queue, quiet, op, pc>> /\ CreateRow(call.status, call.budget)
      BY <2>2 DEF SetCreate, Client
    <3> QED BY <3>1, <1>1, <1>4
  <2>3. CASE SetUpdate
    <3>1. row'.id = row.id /\ row'.suppressed = row.suppressed
      BY <2>3, <1>a DEF SetUpdate, Row
    <3>2. UNCHANGED <<queue, quiet, op, pc>>
      BY <2>3 DEF SetUpdate, Client, history
    <3> QED BY <3>1, <3>2, <1>b, <1>1
  <2>4. CASE ExternalSet
    <3>1. UNCHANGED <<queue, op, pc>>
      BY <2>4 DEF ExternalSet, Client
    <3>2. CASE pc = "unloaded"
      BY <2>4, <3>1, <3>2, <1>1, <1>3 DEF ExternalSet
    <3>3. CASE pc # "unloaded" /\ row.id = call.goal
      <4>1. quiet' = 0
        BY <2>4, <3>3 DEF ExternalSet
      <4> QED BY <3>1, <4>1, <1>1
    <3>4. CASE pc # "unloaded" /\ row.id # call.goal
      <4>1. call.goal # 0
        <5>1. cpc = "apply set"
          BY <2>4 DEF ExternalSet
        <5>2. call.goal \in 1 .. goals
          BY <5>1 DEF Called
        <5> QED BY <5>2, <1>a
      <4>2. row' = Unsuppress(row, call.goal) /\ quiet' = quiet
        BY <2>4, <3>4 DEF ExternalSet
      <4>3. row' = row
        BY <3>4, <4>1, <4>2 DEF Unsuppress
      <4> QED BY <3>1, <4>2, <4>3, <1>1, <1>3
    <3> QED BY <3>2, <3>3, <3>4
  <2>5. CASE DeleteGoal
    <3>1. row'.id = 0 /\ UNCHANGED <<queue, quiet, op, pc>>
      BY <2>5, Blanks DEF DeleteGoal, Client, history
    <3> QED BY <3>1, <1>1
  <2>6. CASE \/ \E s \in Statuses, b \in Budgets : SetRead(s, b)
             \/ AccountBefore \/ SetReread \/ ClearStart \/ ExternalClear
    <3>1. UNCHANGED <<row, queue, quiet, op, pc>>
      BY <2>6 DEF SetRead, AccountBefore, SetReread, ClearStart, ExternalClear, Client, history
    <3> QED BY <3>1, <1>1, <1>3
  <2> QED BY <1>8, <2>1, <2>2, <2>3, <2>4, <2>5, <2>6 DEF Calling
<1>9. CASE SubmitUser
  <2> DEFINE o == [NoOp EXCEPT !.kind = "user", !.turn = turns + 1]
  <2>1. /\ turns < MaxTurns /\ queue' = Append(queue, o) /\ UNCHANGED <<row, quiet, op, pc>>
    BY <1>9 DEF SubmitUser, Reserve, actor, history
  <2>2. turns + 1 \in 0 .. MaxTurns
    BY <2>1, Numbers DEF Types
  <2>3. o \in OpType /\ o.kind = "user"
    BY <2>2, OpFacts DEF NoOp
  <2> HIDE DEF o
  <2> QED BY <2>1, <2>3, <1>2 DEF Wanted
<1>10. CASE SubmitOther
  <2>1. queue' = Append(queue, NoOp) /\ UNCHANGED <<row, quiet, op, pc>> /\ NoOp.kind = "none"
    BY <1>10 DEF SubmitOther, actor, history, NoOp
  <2> QED BY <2>1, <1>2, Blanks DEF Wanted
<1>11. CASE Restart
  <2>1. queue' = <<>> /\ UNCHANGED <<row, quiet>> /\ pc' = "unloaded"
    BY <1>11 DEF Restart
  <2>2. DOMAIN queue' = {}
    BY <2>1
  <2>3. pc' \notin Stages
    BY <2>1 DEF InTurn
  <2> QED BY <2>1, <2>2, <2>3, <1>3, <1>c
<1>12. CASE ThreadResumed
  <2>1. UNCHANGED <<row, quiet, queue>> /\ pc' = "idle"
    BY <1>12 DEF ThreadResumed
  <2>2. pc' \notin Stages
    BY <2>1 DEF InTurn
  <2> QED BY <2>1, <2>2, <1>1, <1>3
<1> QED BY <1>5, <1>6, <1>7, <1>8, <1>9, <1>10, <1>11, <1>12 DEF Next

-----------------------------------------------------------------------------
(* The reports.                                                            *)

LEMMA PlacedKept ==
  ASSUME IInv, Next
  PROVE  Placed'
<1> USE DEF IInv
<1> DEFINE Telling3 == {"tell", "tell end", "effect"}
           InQueue == /\ \A i \in DOMAIN queue : queue[i].kind # "effect" => queue[i].report = NoReport
                      /\ \A i, j \in DOMAIN queue :
                           queue[i].report = queue[j].report /\ i # j => queue[i].report = NoReport
           OfActor == op.report # NoReport => pc \in Telling3
           OfClient == call.report # NoReport => cpc = "send"
<1>a. queue \in Seq(OpType) /\ op \in OpType /\ call \in CallType
  BY DEF Types
<1>b. NoOp.report = NoReport /\ NoCall.report = NoReport /\ NoOp.kind = "none"
  BY DEF NoOp, NoCall, NoReport
<1>c. InQueue /\ OfActor /\ OfClient
  BY DEF Placed
<1>d. InQueue' /\ OfActor' /\ OfClient' => Placed'
  BY DEF Placed
<1>1. ASSUME queue' = queue PROVE InQueue'
  BY <1>1, <1>c
<1>2. ASSUME NEW o \in OpType, queue' = Append(queue, o), o.kind # "effect" => o.report = NoReport,
             o.report # NoReport => o.report \notin Sent
      PROVE  InQueue'
  <2>1. \A i \in DOMAIN queue' : \/ i = Len(queue) + 1 /\ queue'[i] = o
                                 \/ i \in DOMAIN queue /\ queue'[i] = queue[i]
    BY <1>2, <1>a, AppendFacts
  <2>2. \A i \in DOMAIN queue' : queue'[i].kind # "effect" => queue'[i].report = NoReport
    BY <2>1, <1>2, <1>c
  <2>3. \A i \in DOMAIN queue : queue[i].report \in Sent
    BY DEF Sent
  <2>4. ASSUME NEW i \in DOMAIN queue', NEW j \in DOMAIN queue', i # j,
               queue'[i].report = queue'[j].report
        PROVE  queue'[i].report = NoReport
    <3>1. CASE i \in DOMAIN queue /\ j \in DOMAIN queue /\ queue'[i] = queue[i] /\ queue'[j] = queue[j]
      BY <2>4, <3>1, <1>c
    <3>2. CASE queue'[i] = o /\ j \in DOMAIN queue /\ queue'[j] = queue[j]
      BY <2>3, <2>4, <3>2, <1>2
    <3>3. CASE queue'[j] = o /\ i \in DOMAIN queue /\ queue'[i] = queue[i]
      BY <2>3, <2>4, <3>3, <1>2
    <3> QED BY <2>1, <2>4, <3>1, <3>2, <3>3
  <2> QED BY <2>2, <2>4
<1>3. ASSUME op' = op, pc' = pc \/ pc \notin Telling3 PROVE OfActor'
  BY <1>3, <1>c
<1>4. ASSUME op'.report = NoReport PROVE OfActor'
  BY <1>4
<1>5. ASSUME call' = call, cpc' = cpc \/ cpc # "send" PROVE OfClient'
  BY <1>5, <1>c
<1>6. CASE Account
  <2>1. UNCHANGED <<queue, op, call>>
    BY <1>6 DEF Account, ChargeRead, ChargeWrite, ChargeReread, ChargePanics, actor, Others
  <2>2. pc' = pc \/ pc \notin Telling3
    <3>1. CASE ChargePanics
      BY <3>1 DEF ChargePanics, Locked, Charging, JobSteps
    <3>2. CASE ChargeRead \/ ChargeWrite \/ ChargeReread
      BY <3>2 DEF ChargeRead, ChargeWrite, ChargeReread, actor
    <3> QED BY <1>6, <3>1, <3>2 DEF Account
  <2>3. cpc' = cpc \/ cpc # "send"
    <3>1. CASE ChargePanics
      BY <3>1 DEF ChargePanics, Locked
    <3>2. CASE ChargeRead \/ ChargeWrite \/ ChargeReread
      BY <3>2 DEF ChargeRead, ChargeWrite, ChargeReread
    <3> QED BY <1>6, <3>1, <3>2 DEF Account
  <2> QED BY <2>1, <2>2, <2>3, <1>1, <1>3, <1>5, <1>d
<1>7. CASE Turn
  <2>1. UNCHANGED <<queue, cpc, call>>
    BY <1>7 DEF Turn, CheckCandidate, StartFails, TurnStartedRead, TurnStarted, Sample, CompactInTurn,
                CreateGoal, UpdateGoalRead, UpdateGoal, ToolCompletedGoal, ToolCompleted, GoalToolCharged,
                ToolCharged, Tell, TurnDropped, TurnFinished, FinishTurn, TellEnd, ReleaseTurn, client, Others
  <2>2. OfActor'
    <3>1. CASE \/ CheckCandidate \/ StartFails \/ TurnStartedRead \/ TurnStarted \/ UpdateGoalRead
               \/ \E n \in 0..1, next \in {"create", "update", "tool done", "finish"} : Sample(n, next)
               \/ CompactInTurn \/ \E b \in Budgets : CreateGoal(b)
               \/ \E s \in {"complete", "blocked"} : UpdateGoal(s)
               \/ ToolCompleted \/ ToolCompletedGoal \/ GoalToolCharged
               \/ \E a \in BOOLEAN : TurnFinished(a)
      <4>1. op' = op /\ pc \notin Telling3
        BY <3>1 DEF CheckCandidate, StartFails, TurnStartedRead, TurnStarted, Sample, CompactInTurn,
                    CreateGoal, UpdateGoalRead, UpdateGoal, ToolCompletedGoal, ToolCompleted, GoalToolCharged,
                    TurnFinished, actor
      <4> QED BY <4>1, <1>3
    <3>2. CASE ToolCharged \/ FinishTurn
      BY <3>2 DEF ToolCharged, FinishTurn
    <3>3. CASE Tell \/ TurnDropped \/ TellEnd
      <4>1. op'.report = NoReport
        BY <3>3, <1>a DEF Tell, TurnDropped, TellEnd, OpType
      <4> QED BY <4>1
    <3>4. CASE ReleaseTurn
      <4>1. op'.report = NoReport
        BY <3>4, <1>b DEF ReleaseTurn
      <4> QED BY <4>1
    <3> QED BY <1>7, <3>1, <3>2, <3>3, <3>4 DEF Turn
  <2> QED BY <2>1, <2>2, <1>1, <1>5, <1>d
<1>8. CASE Idle
  <2>1. UNCHANGED <<cpc, call>>
    BY <1>8 DEF Idle, Receive, ApplyEffect, SkipLook, Look, Escalate, ReserveContinuation, Stay, client
  <2>2. CASE Receive
    <3>1. /\ queue # <<>> /\ op' = Head(queue) /\ queue' = Tail(queue)
          /\ pc' = CASE Head(queue).kind = "user" -> "start"
                     [] Head(queue).kind = "continuation" -> "candidate"
                     [] Head(queue).kind = "effect" -> "effect"
                     [] OTHER -> "idle"
      BY <2>2 DEF Receive
    <3>2. Head(queue) = queue[1] /\ 1 \in DOMAIN queue
          /\ \A i \in DOMAIN queue' : i + 1 \in DOMAIN queue /\ queue'[i] = queue[i + 1] /\ i \in Nat
      BY <3>1, <1>a, TailFacts
    <3>3. \A i, j \in DOMAIN queue' : i + 1 = j + 1 => i = j
      BY <3>2
    <3>4. InQueue'
      <4>1. \A i \in DOMAIN queue' : queue'[i].kind # "effect" => queue'[i].report = NoReport
        <5>1. \A i \in DOMAIN queue : queue[i].kind # "effect" => queue[i].report = NoReport
          BY <1>c
        <5> QED BY <3>2, <5>1
      <4>2. ASSUME NEW i \in DOMAIN queue', NEW j \in DOMAIN queue', i # j,
                   queue'[i].report = queue'[j].report
            PROVE  queue'[i].report = NoReport
        <5>1. i + 1 \in DOMAIN queue /\ j + 1 \in DOMAIN queue /\ i + 1 # j + 1
          BY <3>2, <3>3, <4>2
        <5>2. queue'[i] = queue[i + 1] /\ queue'[j] = queue[j + 1]
          BY <3>2
        <5> QED BY <4>2, <5>1, <5>2, <1>c
      <4> QED BY <4>1, <4>2
    <3>5. OfActor'
      <4>1. CASE Head(queue).kind = "effect"
        BY <3>1, <4>1
      <4>2. CASE Head(queue).kind # "effect"
        BY <3>1, <3>2, <4>2, <1>c
      <4> QED BY <4>1, <4>2
    <3> QED BY <2>1, <3>4, <3>5, <1>5, <1>d
  <2>3. CASE ApplyEffect
    <3>1. op'.report = NoReport /\ queue' = queue
      BY <2>3, <1>b DEF ApplyEffect
    <3> QED BY <2>1, <3>1, <1>1, <1>4, <1>5, <1>d
  <2>4. CASE SkipLook \/ Look \/ \E s \in {"active", "paused", "blocked"} : Escalate(s)
    <3>1. UNCHANGED <<queue, op>> /\ pc \notin Telling3
      BY <2>4 DEF SkipLook, Look, Escalate, Stay
    <3> QED BY <2>1, <3>1, <1>1, <1>3, <1>5, <1>d
  <2>5. CASE ReserveContinuation
    <3>1. op' = op /\ pc \notin Telling3
      BY <2>5 DEF ReserveContinuation, Stay
    <3>2. CASE MayContinue(row) /\ slot = 0
      <4> DEFINE o == [NoOp EXCEPT !.kind = "continuation", !.turn = turns + 1, !.goal = row.id]
      <4>1. turns < MaxTurns /\ queue' = Append(queue, o)
        BY <2>5, <3>2 DEF ReserveContinuation, Reserve
      <4>2. turns + 1 \in 0 .. MaxTurns /\ row.id \in 0 .. MaxGoals
        BY <4>1, Numbers DEF Types, Row
      <4>3. o \in OpType /\ o.report = NoReport
        BY <4>2, OpFacts, <1>b DEF NoOp
      <4> HIDE DEF o
      <4>4. InQueue'
        BY <4>1, <4>3, <1>2
      <4> QED BY <2>1, <3>1, <4>4, <1>3, <1>5, <1>d
    <3>3. CASE ~(MayContinue(row) /\ slot = 0)
      <4>1. queue' = queue
        BY <2>5, <3>3 DEF ReserveContinuation, Stay
      <4> QED BY <2>1, <3>1, <4>1, <1>1, <1>3, <1>5, <1>d
    <3> QED BY <3>2, <3>3
  <2> QED BY <1>8, <2>2, <2>3, <2>4, <2>5 DEF Idle
<1>9. CASE Calling
  <2>1. UNCHANGED <<op, pc>>
    BY <1>9 DEF Calling, SetRead, AccountBefore, SetCreate, SetReread, SetUpdate, ExternalSet, SendEffect,
                ClearStart, DeleteGoal, ExternalClear, Client
  <2>2. CASE SendEffect
    <3>1. call'.report = NoReport /\ (queue' = queue \/ queue' = Append(queue, Effect(call.report)))
      BY <2>2, <1>b DEF SendEffect
    <3>2. call.report \in Reports
      BY <1>a DEF CallType
    <3>3. Effect(call.report) \in OpType /\ Effect(call.report).kind = "effect"
          /\ Effect(call.report).report = call.report
      BY <3>2, OpFacts DEF Effect, NoOp
    <3>4. call.report # NoReport => call.report \notin Sent
      BY DEF Telling
    <3>5. InQueue'
      BY <3>1, <3>3, <3>4, <1>1, <1>2
    <3> QED BY <2>1, <3>1, <3>5, <1>3, <1>d
  <2>3. CASE \/ \E s \in Statuses, b \in Budgets : SetRead(s, b)
             \/ AccountBefore \/ SetCreate \/ SetReread \/ SetUpdate \/ ExternalSet
             \/ ClearStart \/ DeleteGoal \/ ExternalClear
    <3>1. queue' = queue
      BY <2>3 DEF SetRead, AccountBefore, SetCreate, SetReread, SetUpdate, ExternalSet, ClearStart,
                  DeleteGoal, ExternalClear
    <3>2. CASE \E s \in Statuses, b \in Budgets : SetRead(s, b)
      <4>1. call'.report = NoReport
        BY <3>2, <1>b DEF SetRead, NoCall
      <4> QED BY <2>1, <3>1, <4>1, <1>1, <1>3, <1>d
    <3>3. CASE SetCreate
      <4>1. call'.report = call.report /\ cpc # "send"
        BY <3>3, <1>a DEF SetCreate, CallType
      <4> QED BY <2>1, <3>1, <4>1, <1>1, <1>3, <1>c, <1>d
    <3>4. CASE SetReread
      <4>1. (call'.report = call.report \/ call' = NoCall) /\ cpc # "send"
        BY <3>4, <1>a DEF SetReread, CallType
      <4> QED BY <2>1, <3>1, <4>1, <1>b, <1>1, <1>3, <1>c, <1>d
    <3>5. CASE SetUpdate
      <4>1. (call' = call \/ call' = NoCall) /\ cpc # "send"
        BY <3>5 DEF SetUpdate
      <4> QED BY <2>1, <3>1, <4>1, <1>b, <1>1, <1>3, <1>c, <1>d
    <3>6. CASE ExternalSet
      <4>1. call' = NoCall \/ cpc' = "send"
        BY <3>6 DEF ExternalSet
      <4> QED BY <2>1, <3>1, <4>1, <1>b, <1>1, <1>3, <1>c, <1>d
    <3>7. CASE AccountBefore \/ ClearStart \/ DeleteGoal \/ ExternalClear
      <4>1. call' = call /\ cpc # "send"
        BY <3>7 DEF AccountBefore, ClearStart, DeleteGoal, ExternalClear
      <4> QED BY <2>1, <3>1, <4>1, <1>1, <1>3, <1>5, <1>d
    <3> QED BY <2>3, <3>2, <3>3, <3>4, <3>5, <3>6, <3>7
  <2> QED BY <1>9, <2>2, <2>3 DEF Calling
<1>10. CASE SubmitUser
  <2> DEFINE o == [NoOp EXCEPT !.kind = "user", !.turn = turns + 1]
  <2>1. turns < MaxTurns /\ queue' = Append(queue, o) /\ UNCHANGED <<op, pc, call, cpc>>
    BY <1>10 DEF SubmitUser, Reserve, actor, client
  <2>2. turns + 1 \in 0 .. MaxTurns
    BY <2>1, Numbers DEF Types
  <2>3. o \in OpType /\ o.report = NoReport
    BY <2>2, OpFacts, <1>b DEF NoOp
  <2> HIDE DEF o
  <2>4. InQueue'
    BY <2>1, <2>3, <1>2
  <2> QED BY <2>1, <2>4, <1>3, <1>5, <1>d
<1>11. CASE SubmitOther
  <2>1. queue' = Append(queue, NoOp) /\ UNCHANGED <<op, pc, call, cpc>>
    BY <1>11 DEF SubmitOther, actor, client
  <2>2. InQueue'
    BY <2>1, <1>2, <1>b, Blanks
  <2> QED BY <2>1, <2>2, <1>3, <1>5, <1>d
<1>12. CASE Restart
  <2>1. queue' = <<>> /\ op' = NoOp /\ call' = NoCall
    BY <1>12 DEF Restart
  <2>2. DOMAIN queue' = {}
    BY <2>1
  <2> QED BY <2>1, <2>2, <1>b, <1>d
<1>13. CASE ThreadResumed
  <2>1. UNCHANGED <<queue, op, call, cpc>> /\ pc = "unloaded"
    BY <1>13 DEF ThreadResumed, client
  <2> QED BY <2>1, <1>1, <1>3, <1>5, <1>d
<1> QED BY <1>6, <1>7, <1>8, <1>9, <1>10, <1>11, <1>12, <1>13 DEF Next

\* A step leaves the reports where they are, marks one, or moves one on.
LEMMA ReportsKept ==
  ASSUME IInv, Next
  PROVE  Telling' /\ ReportsArrive'
<1> USE DEF IInv
<1> DEFINE N == NoReport
           Goal == Telling' /\ ReportsArrive'
<1>a. /\ queue \in Seq(OpType) /\ op \in OpType /\ call \in CallType
      /\ NoOp.report = NoReport /\ NoCall.report = NoReport
  BY DEF Types, NoOp, NoCall, NoReport
<1>b. OnTheWay = Sent \cup {op.report, call.report} /\ OnTheWay' = Sent' \cup {op'.report, call'.report}
  BY DEF OnTheWay, Sent
<1>c. /\ op.report # N => op.report \notin Sent \cup {call.report}
      /\ call.report # N => call.report \notin Sent
      /\ told \cup missed \cup ((Sent \cup {op.report, call.report}) \ {N}) \subseteq reported
      /\ N \notin reported
      /\ reported \subseteq told \cup missed \cup Sent \cup {op.report, call.report}
      /\ (told \cup missed) \cap (Sent \cup {op.report, call.report}) = {}
      /\ told \cap missed = {}
  BY <1>b DEF Telling, ReportsArrive
<1>d. ASSUME /\ op'.report # N => op'.report \notin Sent' \cup {call'.report}
             /\ call'.report # N => call'.report \notin Sent'
             /\ told' \cup missed' \cup ((Sent' \cup {op'.report, call'.report}) \ {N}) \subseteq reported'
             /\ N \notin reported'
             /\ reported' \subseteq told' \cup missed' \cup Sent' \cup {op'.report, call'.report}
             /\ (told' \cup missed') \cap (Sent' \cup {op'.report, call'.report}) = {}
             /\ told' \cap missed' = {}
      PROVE  Goal
  BY <1>b, <1>d DEF Telling, ReportsArrive
<1>e. \A x : x \in Sent <=> \E i \in DOMAIN queue : queue[i].report = x
  BY DEF Sent
<1>f. \A x : x \in Sent' <=> \E i \in DOMAIN queue' : queue'[i].report = x
  BY DEF Sent
<1> DEFINE Stay3 == UNCHANGED <<reported, told, missed>>
\* The queue stays, or an operation joins it.
<1>1. ASSUME queue' = queue PROVE Sent' = Sent
  BY <1>1 DEF Sent
<1>2. ASSUME NEW o \in OpType, queue' = Append(queue, o) PROVE Sent' = Sent \cup {o.report}
  <2>1. /\ \A i \in DOMAIN queue' : queue'[i] = o \/ (i \in DOMAIN queue /\ queue'[i] = queue[i])
        /\ \A i \in DOMAIN queue : i \in DOMAIN queue' /\ queue'[i] = queue[i]
        /\ \E i \in DOMAIN queue' : queue'[i] = o
    BY <1>2, <1>a, AppendFacts
  <2>2. \A x \in Sent' : x \in Sent \cup {o.report}
    BY <2>1, <1>e, <1>f
  <2>3. \A x \in Sent \cup {o.report} : x \in Sent'
    BY <2>1, <1>e, <1>f
  <2> QED BY <2>2, <2>3
\* Nothing is reported.
<1>3. ASSUME Stay3, Sent' = Sent \/ Sent' = Sent \cup {N}, op'.report = op.report, call'.report = call.report
      PROVE  Goal
  BY <1>3, <1>c, <1>d
\* A report is marked with the actor's operation or with the client's call ...
<1>4. ASSUME NEW x, x = N \/ x \notin reported, op.report = N, op'.report = x,
             reported' = reported \cup ({x} \ {N}), UNCHANGED <<told, missed>>,
             Sent' = Sent, call'.report = call.report
      PROVE  Goal
  BY <1>4, <1>c, <1>d
<1>5. ASSUME NEW x, x = N \/ x \notin reported, call.report = N, call'.report = x,
             reported' = reported \cup ({x} \ {N}), UNCHANGED <<told, missed>>,
             Sent' = Sent, op'.report = op.report
      PROVE  Goal
  BY <1>5, <1>c, <1>d
\* ... is told or dropped ...
<1>6. ASSUME op'.report = N, UNCHANGED reported, Sent' = Sent, call'.report = call.report,
             \/ told' = told \cup ({op.report} \ {N}) /\ missed' = missed
             \/ missed' = missed \cup ({op.report} \ {N}) /\ told' = told
      PROVE  Goal
  BY <1>6, <1>c, <1>d
\* ... and goes from the client to the actor.
<1>7. ASSUME call'.report = N, UNCHANGED <<reported, told>>, op'.report = op.report,
             \/ Sent' = Sent \cup {call.report} /\ missed' = missed
             \/ Sent' = Sent /\ missed' = missed \cup ({call.report} \ {N})
      PROVE  Goal
  BY <1>7, <1>c, <1>d
<1>8. CASE Account
  <2>1. UNCHANGED <<queue, op, call, reported, told, missed>>
    BY <1>8 DEF Account, ChargeRead, ChargeWrite, ChargeReread, ChargePanics, actor, memory, Others, history
  <2> QED BY <2>1, <1>1, <1>3
<1>9. CASE Turn
  <2>1. CASE \/ CheckCandidate \/ StartFails \/ TurnStartedRead \/ TurnStarted \/ UpdateGoalRead
             \/ \E n \in 0..1, next \in {"create", "update", "tool done", "finish"} : Sample(n, next)
             \/ CompactInTurn \/ \E b \in Budgets : CreateGoal(b)
             \/ \E s \in {"complete", "blocked"} : UpdateGoal(s)
             \/ ToolCompleted \/ ToolCompletedGoal \/ GoalToolCharged
             \/ \E a \in BOOLEAN : TurnFinished(a)
    <3>1. UNCHANGED <<queue, op, call, reported, told, missed>>
      BY <2>1 DEF CheckCandidate, StartFails, TurnStartedRead, TurnStarted, Sample, CompactInTurn,
                  CreateGoal, UpdateGoalRead, UpdateGoal, ToolCompletedGoal, ToolCompleted, GoalToolCharged,
                  TurnFinished, actor, memory, client, Others, history
    <3> QED BY <3>1, <1>1, <1>3
  <2>2. CASE ToolCharged
    <3> DEFINE x == BudgetReport(Outcome)
    <3>1. op' = [op EXCEPT !.report = x] /\ reported' = reported \cup ({x} \ {N})
          /\ UNCHANGED <<queue, told, missed, call>> /\ pc = "tool charged"
      BY <2>2 DEF ToolCharged, MarkReported, client
    <3>2. x = N \/ x \notin reported
      BY BudgetReportFacts DEF Outcome, Types, JobType
    <3>3. op.report = N
      BY <3>1 DEF Placed
    <3>4. op'.report = x
      BY <3>1, <1>a DEF OpType
    <3> HIDE DEF x
    <3> QED BY <3>1, <3>2, <3>3, <3>4, <1>1, <1>4
  <2>3. CASE Tell \/ TellEnd
    <3>1. UNCHANGED <<queue, reported, call, missed>> /\ told' = told \cup ({op.report} \ {N})
          /\ op' = [op EXCEPT !.report = N]
      BY <2>3 DEF Tell, TellEnd, Record, memory, client
    <3>2. op'.report = N
      BY <3>1, <1>a DEF OpType
    <3> QED BY <3>1, <3>2, <1>1, <1>6
  <2>4. CASE TurnDropped
    <3>1. UNCHANGED <<queue, reported, call, told>> /\ missed' = missed \cup ({op.report} \ {N})
          /\ op' = [op EXCEPT !.report = N]
      BY <2>4 DEF TurnDropped, memory, client
    <3>2. op'.report = N
      BY <3>1, <1>a DEF OpType
    <3> QED BY <3>1, <3>2, <1>1, <1>6
  <2>5. CASE FinishTurn
    <3> DEFINE dropped == BudgetReport(Outcome)
               own == ReportOf(row.id, row.status)
    <3>1. \E x \in {N, own} :
            /\ x # N => own # dropped
            /\ reported' = (reported \cup {dropped, x}) \ {N}
            /\ missed' = missed \cup ({dropped} \ {N})
            /\ op' = [op EXCEPT !.report = x]
      BY <2>5 DEF FinishTurn
    <3>2. UNCHANGED <<queue, told, call>> /\ pc = "finished"
      BY <2>5 DEF FinishTurn, client
    <3>3. dropped = N \/ dropped \notin reported
      BY BudgetReportFacts DEF Outcome, Types, JobType
    <3>4. own = N \/ own \notin reported
      BY ReportFacts DEF Types, Row, RowStatuses
    <3>5. op.report = N
      BY <3>2 DEF Placed
    <3> HIDE DEF dropped, own
    <3>6. PICK x \in {N, own} :
            /\ x # N => x # dropped /\ x \notin reported
            /\ reported' = (reported \cup {dropped, x}) \ {N}
            /\ missed' = missed \cup ({dropped} \ {N})
            /\ op' = [op EXCEPT !.report = x]
      BY <3>1, <3>4
    <3>7. op'.report = x
      BY <3>6, <1>a DEF OpType
    <3>8. Sent' = Sent /\ call'.report = call.report
      BY <3>2, <1>1
    <3> QED BY <3>2, <3>3, <3>5, <3>6, <3>7, <3>8, <1>c, <1>d
  <2>6. CASE ReleaseTurn
    <3>1. UNCHANGED <<queue, call, reported, told, missed>> /\ op' = NoOp /\ pc = "release"
      BY <2>6 DEF ReleaseTurn, memory, client, history
    <3>2. op.report = N
      BY <3>1 DEF Placed
    <3> QED BY <3>1, <3>2, <1>a, <1>1, <1>3
  <2> QED BY <1>9, <2>1, <2>2, <2>3, <2>4, <2>5, <2>6 DEF Turn
<1>10. CASE Idle
  <2>1. CASE Receive
    <3>1. /\ queue # <<>> /\ op' = Head(queue) /\ queue' = Tail(queue) /\ pc = "idle"
          /\ UNCHANGED <<call, reported, told, missed>>
      BY <2>1 DEF Receive, memory, client
    <3>2. /\ Head(queue) = queue[1] /\ 1 \in DOMAIN queue
          /\ \A i \in DOMAIN queue' : i + 1 \in DOMAIN queue /\ i + 1 # 1 /\ queue'[i] = queue[i + 1]
          /\ \A i \in DOMAIN queue : i = 1 \/ (i - 1 \in DOMAIN queue' /\ queue'[i - 1] = queue[i])
      BY <3>1, <1>a, TailFacts
    <3>3. op.report = N
      BY <3>1 DEF Placed
    <3>4. \A x \in Sent : x = op'.report \/ x \in Sent'
      BY <3>1, <3>2, <1>e, <1>f
    <3>5. \A x \in Sent' : x \in Sent
      BY <3>2, <1>e, <1>f
    <3>6. op'.report \in Sent
      BY <3>1, <3>2, <1>e
    <3>7. op'.report # N => op'.report \notin Sent'
      <4>1. \A i \in DOMAIN queue' : queue'[i].report = op'.report => op'.report = N
        BY <3>1, <3>2 DEF Placed
      <4> QED BY <4>1, <1>f
    <3> QED BY <3>1, <3>3, <3>4, <3>5, <3>6, <3>7, <1>c, <1>d
  <2>2. CASE ApplyEffect
    <3>1. UNCHANGED <<queue, reported, call, missed>> /\ told' = told \cup ({op.report} \ {N}) /\ op' = NoOp
      BY <2>2 DEF ApplyEffect, Record, memory, client
    <3> QED BY <3>1, <1>a, <1>1, <1>6
  <2>3. CASE SkipLook \/ Look
    <3>1. UNCHANGED <<queue, op, call, reported, told, missed>>
      BY <2>3 DEF SkipLook, Look, Stay, client
    <3> QED BY <3>1, <1>1, <1>3
  <2>4. CASE \E s \in {"active", "paused", "blocked"} : Escalate(s)
    <3>1. \E x :
            /\ reported' = reported \cup ({x} \ {N})
            /\ missed' = IF x # N /\ x \notin reported THEN missed \cup {x} ELSE missed
      BY <2>4 DEF Escalate
    <3>2. PICK x :
            /\ reported' = reported \cup ({x} \ {N})
            /\ missed' = IF x # N /\ x \notin reported THEN missed \cup {x} ELSE missed
      BY <3>1
    <3>3. UNCHANGED <<queue, op, call, told>>
      BY <2>4 DEF Escalate, Stay, client
    <3>4. Sent' = Sent
      BY <3>3, <1>1
    <3>5. CASE x # N /\ x \notin reported
      BY <3>2, <3>3, <3>4, <3>5, <1>c, <1>d
    <3>6. CASE ~(x # N /\ x \notin reported)
      <4>1. reported' = reported /\ missed' = missed
        BY <3>2, <3>6
      <4> QED BY <3>3, <3>4, <4>1, <1>3
    <3> QED BY <3>5, <3>6
  <2>5. CASE ReserveContinuation
    <3>1. UNCHANGED <<op, call, reported, told, missed>>
      BY <2>5 DEF ReserveContinuation, Stay, client
    <3>2. CASE MayContinue(row) /\ slot = 0
      <4> DEFINE o == [NoOp EXCEPT !.kind = "continuation", !.turn = turns + 1, !.goal = row.id]
      <4>1. turns < MaxTurns /\ queue' = Append(queue, o)
        BY <2>5, <3>2 DEF ReserveContinuation, Reserve
      <4>2. turns + 1 \in 0 .. MaxTurns /\ row.id \in 0 .. MaxGoals
        BY <4>1, Numbers DEF Types, Row
      <4>3. o \in OpType /\ o.report = NoReport
        BY <4>2, OpFacts, <1>a DEF NoOp
      <4> HIDE DEF o
      <4> QED BY <3>1, <4>1, <4>3, <1>2, <1>3
    <3>3. CASE ~(MayContinue(row) /\ slot = 0)
      <4>1. queue' = queue
        BY <2>5, <3>3 DEF ReserveContinuation, Stay
      <4> QED BY <3>1, <4>1, <1>1, <1>3
    <3> QED BY <3>2, <3>3
  <2> QED BY <1>10, <2>1, <2>2, <2>3, <2>4, <2>5 DEF Idle
<1>11. CASE Calling
  <2>1. op' = op /\ told' = told
    BY <1>11 DEF Calling, SetRead, AccountBefore, SetCreate, SetReread, SetUpdate, ExternalSet, SendEffect,
                 ClearStart, DeleteGoal, ExternalClear, Client, history
  <2>2. CASE SendEffect
    <3>1. call'.report = N /\ reported' = reported
      BY <2>2, <1>a DEF SendEffect, memory
    <3>2. CASE pc \in {"dead", "unloaded"}
      <4>1. queue' = queue /\ missed' = missed \cup ({call.report} \ {N})
        BY <2>2, <3>2 DEF SendEffect
      <4> QED BY <2>1, <3>1, <4>1, <1>1, <1>7
    <3>3. CASE pc \notin {"dead", "unloaded"}
      <4>1. queue' = Append(queue, Effect(call.report)) /\ missed' = missed
        BY <2>2, <3>3 DEF SendEffect
      <4>2. Effect(call.report) \in OpType /\ Effect(call.report).report = call.report
        BY <1>a, OpFacts DEF Effect, NoOp, CallType
      <4>3. Sent' = Sent \cup {call.report}
        BY <4>1, <4>2, <1>2
      <4> QED BY <2>1, <3>1, <4>1, <4>3, <1>7
    <3> QED BY <3>2, <3>3
  <2>3. CASE ExternalSet
    <3>1. cpc = "apply set" /\ UNCHANGED <<queue, missed>>
      BY <2>3 DEF ExternalSet
    <3>2. call.report = N
      BY <3>1 DEF Placed
    <3>3. CASE pc = "unloaded"
      <4>1. call' = NoCall /\ reported' = reported
        BY <2>3, <3>3 DEF ExternalSet, memory
      <4> QED BY <2>1, <3>1, <3>2, <4>1, <1>a, <1>1, <1>3
    <3>4. CASE pc # "unloaded"
      <4> DEFINE x == IF call.seen.status # call.status THEN ReportOf(call.goal, call.status) ELSE NoReport
      <4>1. reported' = reported \cup ({x} \ {N}) /\ call' = [NoCall EXCEPT !.report = x]
        BY <2>3, <3>4 DEF ExternalSet, MarkReported
      <4>2. call'.report = x
        BY <4>1 DEF NoCall
      <4>3. x = N \/ x \notin reported
        BY DEF ReportOf
      <4> HIDE DEF x
      <4> QED BY <2>1, <3>1, <3>2, <4>1, <4>2, <4>3, <1>1, <1>5
    <3> QED BY <3>3, <3>4
  <2>4. CASE \E s \in Statuses, b \in Budgets : SetRead(s, b)
    <3>1. cpc = "idle" /\ call'.report = N /\ UNCHANGED <<queue, reported, missed>>
      BY <2>4, <1>a DEF SetRead, NoCall, memory, history
    <3>2. call.report = N
      BY <3>1 DEF Placed
    <3> QED BY <2>1, <3>1, <3>2, <1>1, <1>3
  <2>5. CASE SetCreate
    <3>1. call'.report = call.report
      BY <2>5, <1>a DEF SetCreate, CallType
    <3>2. UNCHANGED <<queue, reported, missed>>
      BY <2>5 DEF SetCreate, memory
    <3> QED BY <2>1, <3>1, <3>2, <1>1, <1>3
  <2>6. CASE SetReread \/ SetUpdate
    <3>1. cpc # "send" /\ UNCHANGED <<queue, reported, missed>>
      BY <2>6 DEF SetReread, SetUpdate, memory, history
    <3>2. call.report = N
      BY <3>1 DEF Placed
    <3>3. call' = NoCall \/ call'.report = call.report
      BY <2>6, <1>a DEF SetReread, SetUpdate, CallType
    <3> QED BY <2>1, <3>1, <3>2, <3>3, <1>a, <1>1, <1>3
  <2>7. CASE AccountBefore \/ ClearStart \/ DeleteGoal \/ ExternalClear
    <3>1. UNCHANGED <<queue, call, reported, missed>>
      BY <2>7 DEF AccountBefore, ClearStart, DeleteGoal, ExternalClear, memory, history
    <3> QED BY <2>1, <3>1, <1>1, <1>3
  <2> QED BY <1>11, <2>2, <2>3, <2>4, <2>5, <2>6, <2>7 DEF Calling
<1>12. CASE SubmitUser
  <2> DEFINE o == [NoOp EXCEPT !.kind = "user", !.turn = turns + 1]
  <2>1. turns < MaxTurns /\ queue' = Append(queue, o) /\ UNCHANGED <<op, call, reported, told, missed>>
    BY <1>12 DEF SubmitUser, Reserve, actor, client, memory, history
  <2>2. turns + 1 \in 0 .. MaxTurns
    BY <2>1, Numbers DEF Types
  <2>3. o \in OpType /\ o.report = NoReport
    BY <2>2, OpFacts, <1>a DEF NoOp
  <2> HIDE DEF o
  <2> QED BY <2>1, <2>3, <1>2, <1>3
<1>13. CASE SubmitOther
  <2>1. queue' = Append(queue, NoOp) /\ UNCHANGED <<op, call, reported, told, missed>>
    BY <1>13 DEF SubmitOther, actor, client, memory, history
  <2> QED BY <2>1, <1>a, <1>2, <1>3, Blanks
<1>14. CASE Restart
  <2>1. /\ queue' = <<>> /\ op' = NoOp /\ call' = NoCall
        /\ reported' = {} /\ told' = {} /\ missed' = {}
    BY <1>14 DEF Restart
  <2>2. DOMAIN queue' = {}
    BY <2>1
  <2>3. Sent' = {}
    BY <2>2 DEF Sent
  <2> QED BY <2>1, <2>3, <1>a, <1>d
<1>15. CASE ThreadResumed
  <2>1. UNCHANGED <<queue, op, call, reported, told, missed>>
    BY <1>15 DEF ThreadResumed, client
  <2> QED BY <2>1, <1>1, <1>3
<1> QED BY <1>8, <1>9, <1>10, <1>11, <1>12, <1>13, <1>14, <1>15 DEF Next

-----------------------------------------------------------------------------
(* The theorems.                                                           *)

LEMMA InitIInv ==
  ASSUME Init
  PROVE  IInv
<1>a. DOMAIN queue = {} /\ queue \in Seq(OpType) /\ born \in Seq(0 .. MaxSpent) /\ Len(born) = 0
  BY DEF Init
<1>1. Types
  <2>1. /\ row \in Row /\ hand \in Row /\ op \in OpType /\ job \in JobType /\ acct \in AcctType
        /\ call \in CallType
    BY Blanks DEF Init
  <2>2. pc \in ActorPlaces /\ cpc \in ClientPlaces
    BY DEF Init, ActorPlaces, ClientPlaces
  <2>3. {slot, turns} \subseteq 0 .. MaxTurns /\ {wall, pending, goals, quiet} \subseteq 0 .. MaxGoals
        /\ spent \in 0 .. MaxSpent /\ usage \in Nat
    BY Numbers DEF Init
  <2>4. reported = {} /\ told = {} /\ missed = {} /\ goals = 0
    BY DEF Init
  <2> QED BY <1>a, <2>1, <2>2, <2>3, <2>4 DEF Types
<1>2. Spent
  BY DEF Init, Spent
<1>3. KnownGoals /\ KnownTurns
  <2>1. /\ row = NoRow /\ row.id = 0 /\ acct.goal = 0 /\ job.goal = 0 /\ call.seen.id = 0
        /\ acct.turn = 0 /\ op.turn = 0
    BY DEF Init, NoRow, NoAcct, NoJob, NoCall, NoOp
  <2>2. wall = 0 /\ pending = 0 /\ quiet = 0 /\ goals = 0 /\ slot = 0 /\ turns = 0
    BY DEF Init
  <2>3. KnownGoals
    BY <2>1, <2>2 DEF KnownGoals
  <2>4. KnownTurns
    BY <1>a, <2>1, <2>2 DEF KnownTurns
  <2> QED BY <2>3, <2>4
<1>4. Locked /\ Money
  <2>1. job.by = "none" /\ job.step = "done" /\ row = NoRow /\ pc = "idle"
    BY DEF Init, NoJob
  <2> QED BY <2>1 DEF Locked, JobSteps, Money, ChargedOnce, BaselineFits, ChargeFits
<1>5. Called
  BY DEF Init, Called
<1>6. Slots /\ Quieted
  <2>1. pc = "idle" /\ slot = 0 /\ quiet = 0
    BY DEF Init
  <2>2. Slots
    BY <1>a, <2>1 DEF Slots, TurnStages, InTurn
  <2>3. Quieted
    BY <1>a, <2>1 DEF Quieted, InTurn
  <2> QED BY <2>2, <2>3
<1>7. ForgottenOnlyFor
  BY Blanks DEF Init, ForgottenOnlyFor, MayContinue
<1>8. Placed /\ Telling /\ ReportsArrive
  <2>1. op.report = NoReport /\ call.report = NoReport /\ reported = {} /\ told = {} /\ missed = {}
    BY DEF Init, NoOp, NoCall, NoReport
  <2>2. OnTheWay = {NoReport}
    BY <1>a, <2>1 DEF OnTheWay
  <2>3. Placed
    BY <1>a, <2>1 DEF Placed
  <2>4. Telling /\ ReportsArrive
    BY <2>1, <2>2 DEF Telling, ReportsArrive
  <2> QED BY <2>3, <2>4
<1> QED BY <1>1, <1>2, <1>3, <1>4, <1>5, <1>6, <1>7, <1>8 DEF IInv

LEMMA NextIInv ==
  ASSUME IInv, [Next]_vars
  PROVE  IInv'
<1>1. CASE Next
  <2>1. Types' /\ Spent' /\ KnownGoals' /\ KnownTurns' /\ Locked' /\ Called'
    BY <1>1, TypesKept, SpentKept, KnownGoalsKept, KnownTurnsKept, LockedKept, CalledKept
  <2>2. Money'
    BY <1>1, ChargedOnceKept, FitsKept DEF Money
  <2>3. Slots' /\ Quieted' /\ ForgottenOnlyFor'
    BY <1>1, SlotsKept, QuietedKept, ForgottenKept
  <2>4. Placed' /\ Telling' /\ ReportsArrive'
    BY <1>1, PlacedKept, ReportsKept
  <2> QED BY <2>1, <2>2, <2>3, <2>4 DEF IInv
<1>2. CASE UNCHANGED vars
  <2>1. /\ UNCHANGED <<row, slot, queue, pc, op, hand, job, acct, wall, pending, reported, usage, cpc, call>>
        /\ UNCHANGED <<turns, goals, spent, born, told, missed, quiet, stalled>>
    BY <1>2 DEF vars, actor, client, memory, history, counters
  <2>2. Types' /\ Spent' /\ KnownGoals' /\ KnownTurns'
    BY <2>1 DEF IInv, Types, Spent, KnownGoals, KnownTurns
  <2>3. Locked' /\ Called'
    BY <2>1 DEF IInv, Locked, Called
  <2>4. Money'
    BY <2>1 DEF IInv, Money, ChargedOnce, BaselineFits, ChargeFits, Over, Room
  <2>5. Slots' /\ Quieted' /\ ForgottenOnlyFor'
    BY <2>1 DEF IInv, Slots, IsTurn, Quieted, Wanted, ForgottenOnlyFor
  <2>6. Placed' /\ Telling' /\ ReportsArrive'
    <3>1. Sent' = Sent /\ OnTheWay' = OnTheWay
      BY <2>1 DEF Sent, OnTheWay
    <3>2. Placed'
      BY <2>1 DEF IInv, Placed
    <3> QED BY <2>1, <3>1, <3>2 DEF IInv, Telling, ReportsArrive
  <2> QED BY <2>2, <2>3, <2>4, <2>5, <2>6 DEF IInv
<1> QED BY <1>1, <1>2

LEMMA Invariance == Spec => []IInv
BY InitIInv, NextIInv, PTL DEF Spec

\* The state of the goal runtime keeps its types, its goals and turns are those given out,
\* and the accounting lock is held by the process that waits for it.
THEOREM TypeCorrect == Spec => []TypeOK
<1>1. ASSUME IInv PROVE TypeOK
  <2>1. /\ row \in Row /\ hand \in Row /\ call.seen \in Row /\ job.seen \in Row
        /\ job.by \in {"none", "actor", "client"}
    BY <1>1 DEF IInv, Types, CallType, JobType
  <2>2. /\ (row = NoRow <=> row.id = 0) /\ row.id <= goals /\ acct.goal \in 0 .. goals
        /\ wall \in 0 .. goals /\ pending \in 0 .. goals /\ quiet \in 0 .. goals
        /\ slot \in 0 .. turns /\ acct.turn \in 0 .. turns
    BY <1>1 DEF IInv, KnownGoals, KnownTurns
  <2>3. /\ turns \in 0 .. MaxTurns /\ goals \in 0 .. MaxGoals /\ spent \in 0 .. MaxSpent
        /\ Len(born) = goals /\ usage \in Nat
    BY <1>1 DEF IInv, Types
  <2>4. usage \in 0 .. spent
    BY <1>1, <2>3 DEF IInv, Spent
  <2>5. job.by = "client" => cpc \in {"set accounted", "clear accounted"}
    BY <1>1 DEF IInv, Locked
  <2> QED BY <2>1, <2>2, <2>3, <2>4, <2>5 DEF TypeOK
<1> QED BY <1>1, Invariance, PTL

\* account_turn_progress_locked and account_thread_goal_usage charge no token to a goal
\* twice, nor one spent before the goal existed, however a client's accounting, a replaced
\* or deleted goal, a dropped turn, a compaction or a restart comes between their steps.
THEOREM TokensChargedOnce == Spec => []ChargedOnce
<1>1. IInv => ChargedOnce
  BY DEF IInv, Money
<1> QED BY <1>1, Invariance, PTL

\* No continuation of a goal whose last continuation showed no activity starts
\* (turn_finished suppresses it, maybe_continue_if_idle looks), until something lifts it.
THEOREM QuietGoalsStop == Spec => []QuietStops
<1>1. ASSUME IInv PROVE QuietStops
  BY <1>1 DEF IInv, Quieted, Wanted, QuietStops
<1> QED BY <1>1, Invariance, PTL

\* An actor with nothing to do forgets an active goal only for the reasons the code gives.
THEOREM GoalsForgottenOnlyFor == Spec => []ForgottenOnlyFor
<1>1. IInv => ForgottenOnlyFor
  BY DEF IInv
<1> QED BY <1>1, Invariance, PTL

\* A report that reported_goal_statuses marks as given is told once, on its way, or dropped
\* where the code drops it: whichever of the turn and the client's set takes it first.
THEOREM ReportsAlwaysArrive == Spec => []ReportsArrive
<1>1. IInv => ReportsArrive
  BY DEF IInv
<1> QED BY <1>1, Invariance, PTL
=============================================================================
