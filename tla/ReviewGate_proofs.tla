-------------------------- MODULE ReviewGate_proofs --------------------------
(***************************************************************************)
(* For any number of reviewers, contents, goals, tickets and restarts, and *)
(* whatever the client does meanwhile: a reviewed goal is completed only   *)
(* on an approval of the files the call found, with no question open.  As  *)
(* long as the process lives, the newest ticket decides, and a rejection   *)
(* stops its goal once.                                                    *)
(***************************************************************************)
EXTENDS ReviewGate, TLAPS

(* An approved ticket was approved by a reviewer.                          *)
Backed ==
  \A i \in DOMAIN tickets :
    tickets[i].verdict = "approved" => <<tickets[i].goal, tickets[i].reviewed>> \in approvals

(* What the thread's call knows at each of its places.                     *)
Asked ==
  /\ call.pc \notin {"idle", "update"} => call.goal # 0
  /\ call.pc = "mode" => ~call.gated
  /\ call.pc \in {"hash", "ticket", "mint"} => open[call.goal] = 0
  /\ call.pc = "update" /\ call.gated =>
       /\ call.goal # 0
       /\ open[call.goal] = 0
       /\ <<call.goal, call.hash>> \in approvals
  /\ call.pc = "defer" => open[call.goal] < MaxQuestions
  /\ call.pc \in {"escalate", "stop"} => call.to \in {"blocked", "paused"}
  /\ call.pc = "count" => call.to # "none"

(* What the client's request and the reviews in flight know.               *)
Named ==
  /\ client.pc \in {"update", "replaceModes", "insertMode", "updateMode"} => client.goal # 0
  /\ client.pc = "update" => client.status # "keep"
  /\ \A r \in Reviewers : review[r].pc = "resolve" => review[r].ticket # 0

IInv == TypeOK /\ Backed /\ Asked /\ Named

-----------------------------------------------------------------------------
(* The thread: each of its actions keeps the invariant.                    *)

\* The thread's step moves its call, and perhaps what it remembers of rejections.
CallMoves == UNCHANGED <<rows, store, others, approvals>>

LEMMA GoalType == ASSUME TypeOK PROVE goal.id \in 0 .. goals /\ (goal.id # 0 => goal.status \in Statuses)
BY DEF TypeOK, NoGoal

\* Such a step keeps the invariant if the call keeps its type and its facts.
LEMMA CallMoved ==
  ASSUME IInv, CallMoves, call' \in CallType(goals), Asked', settled' \in 0 .. goals
  PROVE  IInv'
<1>1. TypeOK'
  BY DEF IInv, TypeOK, CallMoves, rows, store, others, requests
<1>2. Backed' /\ Named'
  BY DEF IInv, Backed, Named, CallMoves, rows, store, others, requests
<1> QED BY <1>1, <1>2 DEF IInv

LEMMA AskCompleteKeeps == ASSUME IInv, AskComplete PROVE IInv'
<1>1. CallMoves /\ settled' = settled
  BY DEF AskComplete, CallMoves, history
<1>2. call' \in CallType(goals)
  BY GoalType DEF AskComplete, IInv, TypeOK, Asked, CallType, Idle, Hashes, ToolPlaces, Free
<1>3. Asked'
  BY GoalType DEF AskComplete, IInv, TypeOK, Asked, Backed, CallType, Idle, CallMoves, rows, store, others, Free, Goals
<1>4. settled' \in 0 .. goals
  BY <1>1 DEF IInv, TypeOK
<1> QED BY <1>1, <1>2, <1>3, <1>4, CallMoved

LEMMA ReadModeKeeps == ASSUME IInv, ReadMode PROVE IInv'
<1>1. CallMoves /\ settled' = settled
  BY DEF ReadMode, CallMoves, history
<1>2. call' \in CallType(goals)
  BY DEF ReadMode, IInv, TypeOK, CallType, ToolPlaces
<1>3. Asked'
  BY GoalType DEF ReadMode, IInv, TypeOK, Asked, Backed, CallType, Idle, CallMoves, rows, store, others, Free, Goals
<1>4. settled' \in 0 .. goals
  BY <1>1 DEF IInv, TypeOK
<1> QED BY <1>1, <1>2, <1>3, <1>4, CallMoved

LEMMA ReadQuestionsKeeps == ASSUME IInv, ReadQuestions PROVE IInv'
<1>1. CallMoves /\ settled' = settled
  BY DEF ReadQuestions, CallMoves, history
<1>2. call' \in CallType(goals) /\ Asked'
  <2>1. call.goal \in Goals /\ open[call.goal] \in Nat
    BY BoundsAssumption DEF ReadQuestions, IInv, TypeOK, Asked, CallType, Goals
  <2>2. CASE open[call.goal] > 0
    <3>1. call' = Idle
      BY <2>2 DEF ReadQuestions
    <3> QED BY <3>1 DEF IInv, TypeOK, CallType, Idle, Hashes, Asked
  <2>3. CASE open[call.goal] = 0
    <3>1. call' = [call EXCEPT !.pc = "hash"]
      BY <2>3 DEF ReadQuestions
    <3>2. call' \in CallType(goals) /\ call'.pc = "hash" /\ call'.goal = call.goal
      BY <3>1 DEF IInv, TypeOK, CallType, ToolPlaces
    <3> QED BY <1>1, <2>1, <2>3, <3>2 DEF Asked, CallMoves, store, Goals
  <2> QED BY <2>1, <2>2, <2>3
<1>3. settled' \in 0 .. goals
  BY <1>1 DEF IInv, TypeOK
<1> QED BY <1>1, <1>2, <1>3, CallMoved

LEMMA TakeHashKeeps == ASSUME IInv, TakeHash PROVE IInv'
<1>1. CallMoves /\ settled' = settled
  BY DEF TakeHash, CallMoves, history
<1>2. call' \in CallType(goals)
  BY GoalType DEF TakeHash, IInv, TypeOK, Asked, CallType, Idle, Hashes, ToolPlaces, Free, HashOf
<1>3. Asked'
  BY GoalType DEF TakeHash, IInv, TypeOK, Asked, Backed, CallType, Idle, CallMoves, rows, store, others, Free, Goals, HashOf
<1>4. settled' \in 0 .. goals
  BY <1>1 DEF IInv, TypeOK
<1> QED BY <1>1, <1>2, <1>3, <1>4, CallMoved

LEMMA ReadTicketKeeps == ASSUME IInv, ReadTicket PROVE IInv'
<1>1. CallMoves /\ settled' = settled
  BY DEF ReadTicket, CallMoves, history
<1>2. call' \in CallType(goals)
  BY DEF ReadTicket, IInv, TypeOK, CallType, ToolPlaces
<1>3. Asked'
  <2>1. call.goal # 0 /\ open[call.goal] = 0
    BY DEF ReadTicket, IInv, Asked
  <2>2. call'.goal = call.goal /\ call'.hash = call.hash /\ open' = open /\ approvals' = approvals
    BY DEF ReadTicket, IInv, TypeOK, CallType, store, history
  <2>3. CASE FreshApproval(call.goal, call.hash)
    <3>1. PICK i \in DOMAIN tickets : /\ tickets[i].goal = call.goal /\ tickets[i].verdict = "approved"
                                      /\ tickets[i].reviewed = call.hash
      BY <2>3 DEF FreshApproval, TicketsOf
    <3>2. <<call.goal, call.hash>> \in approvals
      BY <3>1 DEF IInv, Backed
    <3>3. call'.pc = "update"
      BY <2>3 DEF ReadTicket, IInv, TypeOK, CallType
    <3> QED BY <2>1, <2>2, <3>2, <3>3 DEF Asked
  <2>4. CASE ~FreshApproval(call.goal, call.hash)
    <3>1. call'.pc = "mint"
      BY <2>4 DEF ReadTicket, IInv, TypeOK, CallType
    <3> QED BY <2>1, <2>2, <3>1 DEF Asked
  <2> QED BY <2>3, <2>4
<1>4. settled' \in 0 .. goals
  BY <1>1 DEF IInv, TypeOK
<1> QED BY <1>1, <1>2, <1>3, <1>4, CallMoved

LEMMA AskDeferKeeps == ASSUME IInv, AskDefer PROVE IInv'
<1>1. CallMoves /\ settled' = settled
  BY DEF AskDefer, CallMoves, history
<1>2. call' \in CallType(goals)
  BY GoalType DEF AskDefer, IInv, TypeOK, Asked, CallType, Idle, Hashes, ToolPlaces, Free
<1>3. Asked'
  BY GoalType DEF AskDefer, IInv, TypeOK, Asked, Backed, CallType, Idle, CallMoves, rows, store, others, Free, Goals
<1>4. settled' \in 0 .. goals
  BY <1>1 DEF IInv, TypeOK
<1> QED BY <1>1, <1>2, <1>3, <1>4, CallMoved

LEMMA DropCallKeeps == ASSUME IInv, DropCall PROVE IInv'
<1>1. CallMoves /\ settled' = settled
  BY DEF DropCall, CallMoves, history
<1>2. call' \in CallType(goals)
  BY GoalType DEF DropCall, IInv, TypeOK, Asked, CallType, Idle, Hashes, ToolPlaces, Free
<1>3. Asked'
  BY GoalType DEF DropCall, IInv, TypeOK, Asked, Backed, CallType, Idle, CallMoves, rows, store, others, Free, Goals
<1>4. settled' \in 0 .. goals
  BY <1>1 DEF IInv, TypeOK
<1> QED BY <1>1, <1>2, <1>3, <1>4, CallMoved

LEMMA LookAtGoalKeeps == ASSUME IInv, LookAtGoal PROVE IInv'
<1>1. CallMoves /\ settled' = settled
  BY DEF LookAtGoal, CallMoves, history
<1>2. call' \in CallType(goals)
  BY GoalType DEF LookAtGoal, IInv, TypeOK, Asked, CallType, Idle, Hashes, ToolPlaces, Free, NoGoal
<1>3. Asked'
  BY GoalType DEF LookAtGoal, IInv, TypeOK, Asked, Backed, CallType, Idle, CallMoves, rows, store, others, Free, Goals, NoGoal
<1>4. settled' \in 0 .. goals
  BY <1>1 DEF IInv, TypeOK
<1> QED BY <1>1, <1>2, <1>3, <1>4, CallMoved

LEMMA EscalateKeeps == ASSUME IInv, Escalate PROVE IInv'
<1>1. CallMoves /\ settled' = settled
  BY DEF Escalate, CallMoves, history
<1>2. call' \in CallType(goals) /\ Asked'
  <2>1. CASE goal.id = call.goal
    <3>1. call' = [call EXCEPT !.pc = "stop"]
      BY <2>1 DEF Escalate
    <3>2. call' \in CallType(goals)
      BY <3>1 DEF IInv, TypeOK, CallType
    <3>3. call'.pc = "stop" /\ call'.goal = call.goal /\ call'.to = call.to
      BY <3>1 DEF IInv, TypeOK, CallType
    <3> QED BY <3>2, <3>3 DEF Escalate, IInv, Asked
  <2>2. CASE goal.id # call.goal
    <3>1. call' = Idle
      BY <2>2 DEF Escalate
    <3> QED BY <3>1 DEF IInv, TypeOK, CallType, Idle, Hashes, Asked
  <2> QED BY <2>1, <2>2
<1>3. settled' \in 0 .. goals
  BY <1>1 DEF IInv, TypeOK
<1> QED BY <1>1, <1>2, <1>3, CallMoved

LEMMA ReadRejectionKeeps == ASSUME IInv, ReadRejection PROVE IInv'
<1>1. CallMoves /\ settled' = settled /\ call.goal # 0
  BY DEF ReadRejection, CallMoves, history, IInv, Asked
<1>2. CASE call' = Idle
  BY <1>1, <1>2, CallMoved DEF IInv, TypeOK, CallType, Idle, Hashes, Asked
<1>3. ASSUME NEW t \in DOMAIN tickets, tickets[t].verdict \in Rejections,
             call' = [call EXCEPT !.ticket = t, !.category = tickets[t].verdict, !.pc = "open"]
      PROVE  IInv'
  <2>1. t \in Nat
    BY DEF IInv, TypeOK
  <2>2. call' \in CallType(goals) /\ call'.pc = "open" /\ call'.goal = call.goal
    BY <1>3, <2>1 DEF IInv, TypeOK, CallType
  <2>3. Asked'
    BY <1>1, <2>2 DEF Asked
  <2>4. settled' \in 0 .. goals
    BY <1>1 DEF IInv, TypeOK
  <2> QED BY <1>1, <2>2, <2>3, <2>4, CallMoved
<1> QED BY <1>2, <1>3 DEF ReadRejection, Rejects

LEMMA ReadOpenKeeps == ASSUME IInv, ReadOpen PROVE IInv'
<1>1. CallMoves /\ settled' = settled /\ call.goal # 0
  BY DEF ReadOpen, CallMoves, history, IInv, Asked
<1>2. PICK to \in {"active", "blocked", "paused"} : call' = [call EXCEPT !.pc = "count", !.to = to]
  BY DEF ReadOpen
<1>3. call' \in CallType(goals) /\ call'.pc = "count" /\ call'.goal = call.goal /\ call'.to # "none"
  BY <1>2 DEF IInv, TypeOK, CallType
<1>4. Asked'
  BY <1>1, <1>3 DEF Asked
<1>5. settled' \in 0 .. goals
  BY <1>1 DEF IInv, TypeOK
<1> QED BY <1>1, <1>3, <1>4, <1>5, CallMoved

LEMMA DecideKeeps == ASSUME IInv, Decide PROVE IInv'
<1>1. CallMoves
  BY DEF Decide, CallMoves
<1>2. call.goal \in 0 .. goals /\ call.goal # 0 /\ settled \in 0 .. goals /\ call.to # "none"
  BY DEF Decide, IInv, TypeOK, CallType, Asked
<1>3. settled' \in 0 .. goals
  BY <1>2 DEF Decide
<1>4. CASE call' = Idle
  BY <1>1, <1>3, <1>4, CallMoved DEF IInv, TypeOK, CallType, Idle, Hashes, Asked
<1>5. CASE call' = [call EXCEPT !.pc = "escalate"] /\ call.to # "active"
  <2>1. /\ call' \in CallType(goals) /\ call'.pc = "escalate" /\ call'.goal = call.goal
        /\ call'.to \in {"blocked", "paused"}
    BY <1>2, <1>5 DEF IInv, TypeOK, CallType
  <2>2. Asked'
    BY <1>2, <2>1 DEF Asked
  <2> QED BY <1>1, <1>3, <2>1, <2>2, CallMoved
<1> QED BY <1>4, <1>5 DEF Decide

LEMMA MintKeeps == ASSUME IInv, Mint PROVE IInv'
<1>1. call.goal \in Goals /\ call.hash \in Hashes
  BY BoundsAssumption DEF Mint, IInv, TypeOK, Asked, CallType, Goals
<1> DEFINE t == [goal |-> call.goal, order |-> nextOrder, verdict |-> "pending",
                 baseline |-> call.hash, reviewed |-> NoHash]
<1>2. t \in TicketType /\ tickets' = Append(tickets, t)
  BY <1>1 DEF Mint, IInv, TypeOK, TicketType, Hashes
<1>3. tickets' \in Seq(TicketType) /\ Len(tickets') = Len(tickets) + 1
  BY <1>2 DEF IInv, TypeOK
<1>4. review' \in [Reviewers -> ReviewType(Len(tickets'))]
  BY <1>3 DEF Mint, IInv, TypeOK, ReviewType, others
<1>5. TypeOK'
  BY <1>3, <1>4 DEF Mint, IInv, TypeOK, CallType, Idle, Hashes, rows, others, requests, history
<1>6. Backed'
  BY <1>2 DEF Mint, IInv, TypeOK, Backed, history
<1>7. Asked' /\ Named'
  BY DEF Mint, IInv, Asked, Named, Idle, others, requests
<1> QED BY <1>5, <1>6, <1>7 DEF IInv

LEMMA UpdateGoalKeeps == ASSUME IInv, UpdateGoal PROVE IInv'
<1>1. TypeOK'
  BY DEF UpdateGoal, IInv, TypeOK, CallType, Idle, Hashes, Statuses, NoGoal, store, others, requests, history
<1>2. Backed' /\ Asked' /\ Named'
  BY DEF UpdateGoal, IInv, Backed, Asked, Named, Idle, store, others, requests, history
<1> QED BY <1>1, <1>2 DEF IInv

LEMMA BlockKeeps == ASSUME IInv, Block PROVE IInv'
<1>1. TypeOK'
  BY DEF Block, IInv, TypeOK, Statuses, NoGoal, store, others, requests, history
<1>2. Backed' /\ Asked' /\ Named'
  BY DEF Block, IInv, Backed, Asked, Named, store, others, requests, history
<1> QED BY <1>1, <1>2 DEF IInv

LEMMA StopKeeps == ASSUME IInv, Stop PROVE IInv'
<1>1. call.to \in {"blocked", "paused"}
  BY DEF Stop, IInv, TypeOK, CallType, Asked
<1>2. TypeOK'
  BY <1>1 DEF Stop, IInv, TypeOK, CallType, Idle, Hashes, Statuses, NoGoal, store, others, requests, history
<1>3. Backed' /\ Asked' /\ Named'
  BY DEF Stop, IInv, Backed, Asked, Named, Idle, store, others, requests, history
<1> QED BY <1>2, <1>3 DEF IInv

LEMMA RecordQuestionKeeps == ASSUME IInv, RecordQuestion PROVE IInv'
<1>1. call.goal \in Goals /\ open[call.goal] + 1 \in 0 .. MaxQuestions
  BY BoundsAssumption DEF RecordQuestion, IInv, TypeOK, Asked, CallType, Goals
<1>2. open' \in [Goals -> 0 .. MaxQuestions]
  BY <1>1 DEF RecordQuestion, IInv, TypeOK
<1>3. TypeOK'
  BY <1>2 DEF RecordQuestion, IInv, TypeOK, CallType, Idle, Hashes, rows, others, requests, history
<1>4. Backed' /\ Asked' /\ Named'
  BY DEF RecordQuestion, IInv, Backed, Asked, Named, Idle, others, requests, history
<1> QED BY <1>3, <1>4 DEF IInv

LEMMA CreateGoalKeeps ==
  ASSUME IInv, NEW reviewed \in BOOLEAN, CreateGoal(reviewed) PROVE IInv'
<1>1. goals \in Nat /\ goals' = goals + 1 /\ goals' \in 1 .. MaxGoals
  BY BoundsAssumption DEF CreateGoal, IInv, TypeOK
<1>2. goal' \in [id : 1 .. goals', status : Statuses]
  BY <1>1 DEF CreateGoal, Statuses
<1>3. /\ call' = [pc |-> "clearModes", goal |-> goals', hash |-> NoHash, gated |-> reviewed,
                       ticket |-> 0, category |-> "none", to |-> "none"]
      /\ call' \in CallType(goals')
  <2>1. call' = [pc |-> "clearModes", goal |-> goals', hash |-> NoHash, gated |-> reviewed,
                       ticket |-> 0, category |-> "none", to |-> "none"]
    BY DEF CreateGoal, Idle
  <2>2. goals' \in 0 .. goals' /\ NoHash \in Hashes /\ "clearModes" \in ToolPlaces
    BY <1>1 DEF Hashes, ToolPlaces
  <2> QED BY <2>1, <2>2 DEF CallType
<1>4. client' \in ClientType(goals') /\ gated' \subseteq 1 .. goals' /\ settled' \in 0 .. goals'
  BY <1>1 DEF CreateGoal, IInv, TypeOK, ClientType, store, others, requests, history
<1>5. TypeOK'
  BY <1>1, <1>2, <1>3, <1>4 DEF CreateGoal, IInv, TypeOK, store, others, requests, history
<1>6. Backed' /\ Asked' /\ Named'
  BY <1>1, <1>3 DEF CreateGoal, IInv, Backed, Asked, Named, store, others, requests, history
<1> QED BY <1>5, <1>6 DEF IInv

LEMMA ClearModesKeeps == ASSUME IInv, ClearModes PROVE IInv'
<1>1. call.goal # 0
  BY DEF ClearModes, IInv, Asked
<1>2. CASE call' = Idle
  BY <1>2 DEF ClearModes, IInv, TypeOK, CallType, Idle, Hashes, Backed, Asked, Named, rows, others, requests, history
<1>3. CASE call' = [call EXCEPT !.pc = "setMode"]
  <2>1. call' \in CallType(goals) /\ call'.pc = "setMode" /\ call'.goal = call.goal
    BY <1>3 DEF IInv, TypeOK, CallType, ToolPlaces
  <2>2. TypeOK'
    BY <2>1 DEF ClearModes, IInv, TypeOK, rows, others, requests, history
  <2>3. Backed' /\ Asked' /\ Named'
    BY <1>1, <2>1 DEF ClearModes, IInv, Backed, Asked, Named, rows, others, requests, history
  <2> QED BY <2>2, <2>3 DEF IInv
<1> QED BY <1>2, <1>3 DEF ClearModes

LEMMA SetModeKeeps == ASSUME IInv, SetMode PROVE IInv'
<1>1. call.goal \in 1 .. goals
  BY DEF SetMode, IInv, TypeOK, CallType, Asked
<1>2. gated' \subseteq 1 .. goals'
  BY <1>1 DEF SetMode, IInv, TypeOK, rows
<1>3. call' \in CallType(goals')
  BY DEF SetMode, IInv, TypeOK, CallType, Idle, Hashes, rows
<1>4. TypeOK'
  BY <1>2, <1>3 DEF SetMode, IInv, TypeOK, rows, others, requests, history
<1>5. Backed' /\ Asked' /\ Named'
  BY DEF SetMode, IInv, Backed, Asked, Named, Idle, rows, others, requests, history
<1> QED BY <1>4, <1>5 DEF IInv

-----------------------------------------------------------------------------
(* The client.                                                             *)

\* A step of a request that leaves the goal's row alone keeps the invariant if the
\* request keeps its type and its facts, and the mode rows stay those of created goals.
LEMMA RequestMoved ==
  ASSUME IInv, UNCHANGED <<rows, thread>>, client' \in ClientType(goals), gated' \subseteq 1 .. goals,
         sets' \in 0 .. MaxSets,
         client'.pc \in {"update", "replaceModes", "insertMode", "updateMode"} => client'.goal # 0,
         client'.pc = "update" => client'.status # "keep"
  PROVE  IInv'
<1>1. TypeOK'
  BY DEF IInv, TypeOK, rows, thread, history
<1>2. Backed' /\ Asked' /\ Named'
  BY DEF IInv, Backed, Asked, Named, rows, thread, history
<1> QED BY <1>1, <1>2 DEF IInv

\* So does one that writes the goal's row and perhaps creates a goal.
LEMMA RowWritten ==
  ASSUME IInv, UNCHANGED <<gated, thread>>, goals' \in 0 .. MaxGoals, goals \in Nat, goals <= goals',
         goal' \in {NoGoal} \cup [id : 1 .. goals', status : Statuses],
         client' \in ClientType(goals'), sets' \in 0 .. MaxSets,
         client'.pc \in {"update", "replaceModes", "insertMode", "updateMode"} => client'.goal # 0,
         client'.pc = "update" => client'.status # "keep"
  PROVE  IInv'
<1>1. goals' \in Nat /\ 0 .. goals \subseteq 0 .. goals' /\ 1 .. goals \subseteq 1 .. goals'
  BY BoundsAssumption
<1>2. call' \in CallType(goals') /\ settled' \in 0 .. goals' /\ gated' \subseteq 1 .. goals'
  BY <1>1 DEF IInv, TypeOK, CallType, thread, history
<1>3. TypeOK'
  BY <1>2 DEF IInv, TypeOK, thread, history
<1>4. Backed' /\ Asked' /\ Named'
  BY DEF IInv, Backed, Asked, Named, thread, history
<1> QED BY <1>3, <1>4 DEF IInv

LEMMA SetReadKeeps ==
  ASSUME IInv, NEW status \in {"keep", "active", "paused", "complete"},
         NEW mode \in {"keep", "standard", "reviewed"}, SetRead(status, mode)
  PROVE  IInv'
<1>1. client' = [pc |-> "write", goal |-> goal.id, status |-> status, mode |-> mode]
  BY DEF SetRead
<1>2. client' \in ClientType(goals)
  BY <1>1, GoalType DEF IInv, ClientType, Statuses
<1>3. gated' \subseteq 1 .. goals /\ sets' \in 0 .. MaxSets
  BY BoundsAssumption DEF SetRead, IInv, TypeOK
<1> QED BY <1>1, <1>2, <1>3, RequestMoved DEF SetRead

LEMMA SetCreateKeeps == ASSUME IInv, SetCreate PROVE IInv'
<1>1. goals \in Nat /\ goals' = goals + 1 /\ goals' \in 1 .. MaxGoals
  BY BoundsAssumption DEF SetCreate, IInv, TypeOK
<1>2. client.status \in {"keep"} \cup Statuses /\ client.mode \in {"keep", "standard", "reviewed"}
  BY DEF IInv, TypeOK, ClientType
<1>3. goal' \in [id : 1 .. goals', status : Statuses]
  BY <1>1, <1>2 DEF SetCreate, Statuses
<1>4. client' \in ClientType(goals') /\ client'.pc = "replaceModes" /\ client'.goal = goals'
  <2>1. client' = [pc |-> "replaceModes", goal |-> goals', status |-> client.status,
                   mode |-> IF client.mode = "keep" THEN "standard" ELSE client.mode]
    BY DEF SetCreate, IInv, TypeOK, ClientType
  <2>2. goals' \in 0 .. goals'
    BY <1>1
  <2> QED BY <1>2, <2>1, <2>2 DEF ClientType
<1>5. sets' \in 0 .. MaxSets
  BY DEF SetCreate, IInv, TypeOK
<1>6. UNCHANGED <<gated, thread>>
  BY DEF SetCreate
<1> QED BY <1>1, <1>3, <1>4, <1>5, <1>6, RowWritten

LEMMA SetRereadKeeps == ASSUME IInv, SetReread PROVE IInv'
<1>1. gated' \subseteq 1 .. goals /\ sets' \in 0 .. MaxSets /\ UNCHANGED <<rows, thread>>
  BY DEF SetReread, IInv, TypeOK
<1>2. CASE goal.id # client.goal
  <2>1. client' = NoRequest
    BY <1>2 DEF SetReread
  <2>2. client' \in ClientType(goals)
    BY <2>1, BoundsAssumption DEF NoRequest, ClientType, IInv, TypeOK
  <2>3. client'.pc = "idle"
    BY <2>1 DEF NoRequest
  <2> QED BY <1>1, <2>2, <2>3, RequestMoved
<1>3. CASE goal.id = client.goal
  <2>1. client.goal # 0 /\ goal.status \in Statuses
    BY <1>3, GoalType DEF SetReread, IInv
  <2>2. client' = [client EXCEPT !.pc = "update",
                                 !.status = IF client.status = "keep" THEN goal.status ELSE client.status]
    BY <1>3 DEF SetReread
  <2>3. /\ client' \in ClientType(goals)
        /\ client'.pc = "update" /\ client'.goal = client.goal /\ client'.status # "keep"
    BY <2>1, <2>2 DEF IInv, TypeOK, ClientType, Statuses
  <2> QED BY <1>1, <2>1, <2>3, RequestMoved
<1> QED BY <1>2, <1>3

LEMMA SetUpdateKeeps == ASSUME IInv, SetUpdate PROVE IInv'
<1>1. UNCHANGED <<gated, thread>> /\ goals' = goals /\ goals \in 0 .. MaxGoals /\ sets' \in 0 .. MaxSets
  BY DEF SetUpdate, IInv, TypeOK
<1>2. goals \in Nat /\ goals <= goals'
  BY <1>1, BoundsAssumption
<1>3. CASE goal.id = 0
  <2>1. client' = NoRequest /\ goal' = goal
    BY <1>3 DEF SetUpdate
  <2>2. client' \in ClientType(goals')
    BY <1>2, <2>1 DEF NoRequest, ClientType, SetUpdate
  <2>3. goal' \in {NoGoal} \cup [id : 1 .. goals', status : Statuses]
    BY <1>1, <2>1 DEF IInv, TypeOK
  <2> QED BY <1>1, <1>2, <2>1, <2>2, <2>3, RowWritten DEF NoRequest
<1>4. CASE goal.id # 0
  <2>1. /\ goal' = [goal EXCEPT !.status = client.status]
        /\ client' = [client EXCEPT !.pc = "updateMode", !.goal = goal.id]
    BY <1>4 DEF SetUpdate
  <2>2. goal \in [id : 1 .. goals, status : Statuses] /\ client.status \in Statuses
    BY <1>4 DEF SetUpdate, IInv, TypeOK, Named, NoGoal, ClientType
  <2>3. goal' \in [id : 1 .. goals', status : Statuses]
    BY <1>1, <2>1, <2>2
  <2>4. client \in ClientType(goals') /\ goal.id \in 0 .. goals'
    BY <1>1, GoalType DEF IInv, TypeOK
  <2>5. client' \in ClientType(goals') /\ client'.pc = "updateMode" /\ client'.goal # 0
    BY <1>4, <2>1, <2>4 DEF ClientType
  <2> QED BY <1>1, <1>2, <2>3, <2>5, RowWritten
<1> QED BY <1>3, <1>4

LEMMA ReplaceModesKeeps == ASSUME IInv, ReplaceModes PROVE IInv'
<1>1. gated' \subseteq 1 .. goals /\ sets' \in 0 .. MaxSets /\ UNCHANGED <<rows, thread>>
  BY DEF ReplaceModes, IInv, TypeOK
<1>2. /\ client' \in ClientType(goals) /\ client'.goal = client.goal /\ client.goal # 0
      /\ client'.pc \in {"insertMode", "applyNew"}
  BY DEF ReplaceModes, IInv, TypeOK, ClientType, Named
<1> QED BY <1>1, <1>2, RequestMoved

LEMMA InsertModeKeeps == ASSUME IInv, InsertMode PROVE IInv'
<1>1. client.goal \in 1 .. goals
  BY DEF InsertMode, IInv, TypeOK, ClientType, Named
<1>2. gated' \subseteq 1 .. goals /\ sets' \in 0 .. MaxSets /\ UNCHANGED <<rows, thread>>
  BY <1>1 DEF InsertMode, IInv, TypeOK
<1>3. client' \in ClientType(goals) /\ client'.pc = "applyNew"
  BY DEF InsertMode, IInv, TypeOK, ClientType
<1> QED BY <1>2, <1>3, RequestMoved

LEMMA UpdateModeKeeps == ASSUME IInv, UpdateMode PROVE IInv'
<1>1. client.goal \in 1 .. goals
  BY DEF UpdateMode, IInv, TypeOK, ClientType, Named
<1>2. gated' \in {gated \cup {client.goal}, gated \ {client.goal}, gated}
  BY DEF UpdateMode
<1>3. gated' \subseteq 1 .. goals /\ sets' \in 0 .. MaxSets /\ UNCHANGED <<rows, thread>>
  BY <1>1, <1>2 DEF UpdateMode, IInv, TypeOK
<1>4. client' \in ClientType(goals) /\ client'.pc = "updated"
  BY DEF UpdateMode, IInv, TypeOK, ClientType
<1> QED BY <1>3, <1>4, RequestMoved

LEMMA ApplyNewKeeps == ASSUME IInv, ApplyNew PROVE IInv'
<1>1. gated' \subseteq 1 .. goals /\ sets' \in 0 .. MaxSets /\ UNCHANGED <<rows, thread>>
  BY DEF ApplyNew, IInv, TypeOK
<1>2. client' \in ClientType(goals) /\ client'.pc = "created"
  BY DEF ApplyNew, IInv, TypeOK, ClientType
<1> QED BY <1>1, <1>2, RequestMoved

LEMMA ClearGoalKeeps == ASSUME IInv, ClearGoal PROVE IInv'
<1>1. goals \in 0 .. MaxGoals /\ goals' = goals /\ UNCHANGED <<gated, thread>>
  BY DEF ClearGoal, IInv, TypeOK
<1>2. goals \in Nat /\ goals <= goals' /\ sets' \in 0 .. MaxSets
  BY <1>1, BoundsAssumption DEF ClearGoal, IInv, TypeOK
<1>3. client' \in ClientType(goals') /\ client'.pc = "cleared"
  BY <1>1, <1>2 DEF ClearGoal, NoRequest, ClientType
<1>4. goal' \in {NoGoal} \cup [id : 1 .. goals', status : Statuses]
  BY DEF ClearGoal
<1> QED BY <1>1, <1>2, <1>3, <1>4, RowWritten

LEMMA ClearGoalModesKeeps == ASSUME IInv, ClearGoalModes PROVE IInv'
<1>1. gated' \subseteq 1 .. goals /\ sets' \in 0 .. MaxSets /\ UNCHANGED <<rows, thread>>
  BY DEF ClearGoalModes, IInv, TypeOK
<1>2. client' \in ClientType(goals) /\ client'.pc \in {"idle", "applyClear"}
  BY DEF ClearGoalModes, IInv, TypeOK, ClientType, NoRequest
<1> QED BY <1>1, <1>2, RequestMoved

LEMMA ResolveQuestionKeeps ==
  ASSUME IInv, NEW g \in Goals, ResolveQuestion(g) PROVE IInv'
<1>1. open[g] \in 1 .. MaxQuestions /\ open[g] - 1 \in 0 .. MaxQuestions
  BY BoundsAssumption DEF ResolveQuestion, IInv, TypeOK
<1>2. open' \in [Goals -> 0 .. MaxQuestions]
  BY <1>1 DEF ResolveQuestion, IInv, TypeOK
<1>3. TypeOK'
  BY <1>2 DEF ResolveQuestion, IInv, TypeOK, rows, others, requests, history
<1>4. Backed' /\ Named' /\ call' = call /\ approvals' = approvals
  BY DEF ResolveQuestion, IInv, Backed, Named, others, requests, history
<1>5. \A h \in Goals : open'[h] <= open[h] /\ open[h] \in Nat /\ open'[h] \in Nat
  BY <1>1, <1>2, BoundsAssumption DEF ResolveQuestion, IInv, TypeOK
<1>6. call.goal # 0 => call.goal \in Goals
  BY BoundsAssumption DEF IInv, TypeOK, CallType, Goals
<1>7. Asked'
  BY <1>4, <1>5, <1>6, BoundsAssumption DEF IInv, Asked
<1> QED BY <1>3, <1>4, <1>7 DEF IInv

-----------------------------------------------------------------------------
(* Reviewers, writers and the process.                                     *)

\* A step that leaves goals, rows and tickets alone and sets reviews keeps the invariant
\* if the reviews keep their type and name a ticket.
LEMMA ReviewMoved ==
  ASSUME IInv, UNCHANGED <<rows, store, call, content, loaded, restarts, requests, history>>,
         review' \in [Reviewers -> ReviewType(Len(tickets))],
         \A r \in Reviewers : review'[r].pc = "resolve" => review'[r].ticket # 0
  PROVE  IInv'
<1>1. TypeOK'
  BY DEF IInv, TypeOK, rows, store, requests, history
<1>2. Backed' /\ Asked' /\ Named'
  BY DEF IInv, Backed, Asked, Named, rows, store, requests, history
<1> QED BY <1>1, <1>2 DEF IInv

LEMMA SubmitKeeps ==
  ASSUME IInv, NEW r \in Reviewers, NEW t \in DOMAIN tickets, NEW verdict \in Verdicts, Submit(r, t, verdict)
  PROVE  IInv'
<1>1. t \in 0 .. Len(tickets) /\ t # 0
  BY DEF IInv, TypeOK
<1>2. HashOf(content) \in Hashes
  BY DEF IInv, TypeOK, HashOf, Hashes
<1> DEFINE new == [pc |-> "resolve", ticket |-> t, verdict |-> verdict, hash |-> HashOf(content)]
<1>3. new \in ReviewType(Len(tickets)) /\ review' = [review EXCEPT ![r] = new]
  BY <1>1, <1>2 DEF Submit, ReviewType
<1>4. review' \in [Reviewers -> ReviewType(Len(tickets))]
  BY <1>3 DEF IInv, TypeOK
<1>5. \A q \in Reviewers : review'[q].pc = "resolve" => review'[q].ticket # 0
  BY <1>1, <1>3 DEF IInv, TypeOK, Named
<1> QED BY <1>4, <1>5, ReviewMoved DEF Submit

LEMMA SubmitFailsKeeps == ASSUME IInv, NEW r \in Reviewers, SubmitFails(r) PROVE IInv'
<1>1. NoReview \in ReviewType(Len(tickets))
  BY DEF NoReview, ReviewType, Verdicts, Hashes, IInv, TypeOK
<1>2. review' \in [Reviewers -> ReviewType(Len(tickets))]
  BY <1>1 DEF SubmitFails, IInv, TypeOK
<1>3. \A q \in Reviewers : review'[q].pc = "resolve" => review'[q].ticket # 0
  BY DEF SubmitFails, IInv, TypeOK, Named, NoReview
<1> QED BY <1>2, <1>3, ReviewMoved DEF SubmitFails

LEMMA ResolveTicketKeeps == ASSUME IInv, NEW r \in Reviewers, ResolveTicket(r) PROVE IInv'
<1> DEFINE t == review[r].ticket
<1> DEFINE new == [tickets[t] EXCEPT !.verdict = review[r].verdict, !.reviewed = review[r].hash]
<1>1. t \in DOMAIN tickets /\ review[r].verdict \in Verdicts /\ review[r].hash \in Hashes
  BY DEF ResolveTicket, IInv, TypeOK, Named, ReviewType
<1>2. tickets[t] \in TicketType /\ new \in TicketType
  <2>1. tickets \in Seq(TicketType)
    BY DEF IInv, TypeOK
  <2>2. tickets[t] \in TicketType
    BY <1>1, <2>1
  <2> QED BY <1>1, <2>2 DEF TicketType
<1>3. tickets' = [tickets EXCEPT ![t] = new]
  BY <1>1 DEF ResolveTicket, IInv, TypeOK
<1>4. tickets' \in Seq(TicketType) /\ Len(tickets') = Len(tickets) /\ DOMAIN tickets' = DOMAIN tickets
  <2>1. tickets \in Seq(TicketType)
    BY DEF IInv, TypeOK
  <2> HIDE DEF t, new
  <2> QED BY <1>1, <1>2, <1>3, <2>1
<1>5. approvals' \subseteq Goals \X Hashes /\ approvals \subseteq approvals'
  BY <1>1, <1>2 DEF ResolveTicket, IInv, TypeOK, TicketType
<1>6. review' \in [Reviewers -> ReviewType(Len(tickets'))]
  <2>1. NoReview \in ReviewType(Len(tickets))
    BY DEF NoReview, ReviewType, Verdicts, Hashes, IInv, TypeOK
  <2> QED BY <1>4, <2>1 DEF ResolveTicket, IInv, TypeOK
<1>7. TypeOK'
  <2>1. settled' \in 0 .. goals'
    BY BoundsAssumption DEF ResolveTicket, IInv, TypeOK, rows
  <2> QED BY <1>4, <1>5, <1>6, <2>1 DEF ResolveTicket, IInv, TypeOK, rows, requests
<1>8. Backed'
  <2> SUFFICES ASSUME NEW i \in DOMAIN tickets, tickets'[i].verdict = "approved"
               PROVE  <<tickets'[i].goal, tickets'[i].reviewed>> \in approvals'
    BY <1>4 DEF Backed
  <2>1. CASE i = t
    <3>1. tickets'[i] = new
      BY <1>1, <1>3, <2>1 DEF IInv, TypeOK
    <3>2. new.goal = tickets[t].goal /\ new.verdict = review[r].verdict /\ new.reviewed = review[r].hash
      BY <1>2 DEF TicketType
    <3>3. review[r].verdict = "approved"
      BY <3>1, <3>2
    <3>4. <<tickets[t].goal, review[r].hash>> \in approvals'
      BY <3>3 DEF ResolveTicket
    <3> QED BY <3>1, <3>2, <3>4
  <2>2. CASE i # t
    <3>1. tickets'[i] = tickets[i]
      BY <1>3, <2>2 DEF IInv, TypeOK
    <3> QED BY <1>5, <3>1 DEF IInv, Backed
  <2> QED BY <2>1, <2>2
<1>9. Asked'
  BY <1>5 DEF ResolveTicket, IInv, Asked, rows, requests
<1>10. Named'
  BY DEF ResolveTicket, IInv, TypeOK, Named, NoReview, rows, requests
<1> QED BY <1>7, <1>8, <1>9, <1>10 DEF IInv

LEMMA WriteKeeps == ASSUME IInv, NEW c \in Contents, Write(c) PROVE IInv'
<1>1. TypeOK'
  BY DEF Write, IInv, TypeOK, rows, store, requests, history
<1>2. Backed' /\ Asked' /\ Named'
  BY DEF Write, IInv, Backed, Asked, Named, rows, store, requests, history
<1> QED BY <1>1, <1>2 DEF IInv

LEMMA LoadKeeps == ASSUME IInv, Load PROVE IInv'
<1>1. TypeOK'
  BY DEF Load, IInv, TypeOK, rows, store, requests, history
<1>2. Backed' /\ Asked' /\ Named'
  BY DEF Load, IInv, Backed, Asked, Named, rows, store, requests, history
<1> QED BY <1>1, <1>2 DEF IInv

\* The call of a thread that is not in the process.
LEMMA IdleType == ASSUME TypeOK PROVE Idle \in CallType(goals) /\ 0 \in 0 .. goals
BY BoundsAssumption DEF TypeOK, Idle, CallType, Hashes

LEMMA UnloadKeeps == ASSUME IInv, Unload PROVE IInv'
<1>1. restarts' \in 0 .. MaxRestarts
  BY BoundsAssumption DEF Unload, IInv, TypeOK
<1>2. TypeOK'
  BY <1>1, IdleType DEF Unload, IInv, TypeOK, rows, store, requests
<1>3. Backed' /\ Asked' /\ Named'
  BY DEF Unload, IInv, Backed, Asked, Named, Idle, rows, store, requests
<1> QED BY <1>2, <1>3 DEF IInv

LEMMA RestartKeeps == ASSUME IInv, Restart PROVE IInv'
<1>1. restarts' \in 0 .. MaxRestarts /\ nextOrder' \in Nat \ {0}
  BY BoundsAssumption DEF Restart, IInv, TypeOK
<1>2. client' \in ClientType(goals) /\ review' \in [Reviewers -> ReviewType(Len(tickets))]
  <2>1. NoReview \in ReviewType(Len(tickets))
    BY DEF NoReview, ReviewType, Verdicts, Hashes, IInv, TypeOK
  <2>2. NoRequest \in ClientType(goals)
    BY IdleType DEF NoRequest, ClientType, IInv
  <2> QED BY <2>1, <2>2 DEF Restart
<1>3. TypeOK'
  BY <1>1, <1>2, IdleType DEF Restart, IInv, TypeOK, rows
<1>4. Backed' /\ Asked' /\ Named'
  BY DEF Restart, IInv, Backed, Asked, Named, Idle, NoRequest, NoReview, rows
<1> QED BY <1>3, <1>4 DEF IInv

-----------------------------------------------------------------------------
(* The invariant.                                                          *)

LEMMA InitIInv == ASSUME Init PROVE IInv
<1>1. goals = 0 /\ 0 \in 0 .. goals /\ goals \in 0 .. MaxGoals /\ 0 \in 0 .. MaxQuestions
      /\ sets \in 0 .. MaxSets /\ restarts \in 0 .. MaxRestarts
  BY BoundsAssumption DEF Init
<1>2. call \in CallType(goals) /\ client \in ClientType(goals)
  BY <1>1 DEF Init, Idle, NoRequest, CallType, ClientType, Hashes
<1>3. tickets = << >> /\ tickets \in Seq(TicketType) /\ Len(tickets) = 0
  BY DEF Init
<1>4. review \in [Reviewers -> ReviewType(Len(tickets))]
  BY <1>3 DEF Init, NoReview, ReviewType, Verdicts, Hashes
<1>5. TypeOK
  BY <1>1, <1>2, <1>3, <1>4 DEF Init, TypeOK
<1>6. Backed /\ Asked /\ Named
  BY <1>3 DEF Init, Backed, Asked, Named, Idle, NoRequest, NoReview
<1> QED BY <1>5, <1>6 DEF IInv

LEMMA ThreadStepKeeps == ASSUME IInv, ThreadStep PROVE IInv'
BY AskCompleteKeeps, ReadModeKeeps, ReadQuestionsKeeps, TakeHashKeeps, ReadTicketKeeps, MintKeeps,
   UpdateGoalKeeps, BlockKeeps, AskDeferKeeps, RecordQuestionKeeps, CreateGoalKeeps, ClearModesKeeps,
   SetModeKeeps, DropCallKeeps, LookAtGoalKeeps, ReadRejectionKeeps, ReadOpenKeeps, DecideKeeps, EscalateKeeps, StopKeeps DEF ThreadStep

LEMMA ClientStepKeeps == ASSUME IInv, ClientStep PROVE IInv'
BY SetReadKeeps, SetCreateKeeps, SetRereadKeeps, SetUpdateKeeps, ReplaceModesKeeps, InsertModeKeeps,
   UpdateModeKeeps, ApplyNewKeeps, ClearGoalKeeps, ClearGoalModesKeeps, ResolveQuestionKeeps DEF ClientStep

LEMMA ReviewerStepKeeps == ASSUME IInv, ReviewerStep PROVE IInv'
BY SubmitKeeps, ResolveTicketKeeps, SubmitFailsKeeps DEF ReviewerStep

LEMMA NextIInv == ASSUME IInv, [Next]_vars PROVE IInv'
<1>1. CASE Next
  BY <1>1, ThreadStepKeeps, ClientStepKeeps, ReviewerStepKeeps, WriteKeeps, LoadKeeps, UnloadKeeps,
     RestartKeeps DEF Next
<1>2. CASE UNCHANGED vars
  BY <1>2, ReviewMoved DEF IInv, TypeOK, Named, vars, store, rows, history
<1> QED BY <1>1, <1>2

\* What the call, the request and the reviews know holds in every reachable state.
THEOREM Invariance == Spec => []IInv
<1>1. Init => IInv
  BY InitIInv
<1>2. IInv /\ [Next]_vars => IInv'
  BY NextIInv
<1> QED BY <1>1, <1>2, PTL DEF Spec

\* Type correctness: in particular no ticket, question or mode row names a goal that was
\* never created, and no review in flight a ticket that was never opened.
THEOREM TypeCorrect == Spec => []TypeOK
<1>1. IInv => TypeOK
  BY DEF IInv
<1> QED BY <1>1, Invariance, PTL

-----------------------------------------------------------------------------
(* The gate.                                                               *)

\* The completion of the goal that the call asked about, when that goal was reviewed.
LEMMA Completion ==
  ASSUME IInv, Completes, call.gated, goal.id = call.goal
  PROVE  <<goal.id, call.hash>> \in approvals /\ open[goal.id] = 0
BY DEF Completes, IInv, Asked

\* ForgeGateHooks (gate.rs:58-89): whatever the client, other agents and reviewers do
\* between the awaits of the hook and of the handler, a call that found the goal reviewed
\* completes it only if a reviewer approved the files the call hashed, for that goal.
THEOREM ApprovalNeeded == Spec => GateNeedsApproval
<1>1. IInv /\ [Next]_vars => [Completes /\ call.gated /\ goal.id = call.goal
                                => <<goal.id, call.hash>> \in approvals]_vars
  BY Completion
<1> QED BY <1>1, Invariance, PTL DEF Spec, GateNeedsApproval

\* ... and no question of the goal is open then: only the thread itself, busy with the
\* call, could have opened one.
THEOREM QuestionsAnswered == Spec => NoOpenQuestionAtCompletion
<1>1. IInv /\ [Next]_vars => [Completes /\ call.gated /\ goal.id = call.goal
                                => open[goal.id] = 0]_vars
  BY Completion
<1> QED BY <1>1, Invariance, PTL DEF Spec, NoOpenQuestionAtCompletion
-----------------------------------------------------------------------------
(* The order of the tickets.  REVIEW_TICKET_COUNTER gives it, so within a  *)
(* process the newest ticket is the one inserted last.  A restart sets the *)
(* counter back: the theorems below are about behaviours without one.      *)

Ordered ==
  /\ \A i \in DOMAIN tickets : tickets[i].order < nextOrder
  /\ \A i, j \in DOMAIN tickets : i < j => tickets[i].order < tickets[j].order
  /\ \A g \in Goals : TicketsOf(g) # {} =>
       \E i \in TicketsOf(g) : \A j \in TicketsOf(g) : j <= i

(* A goal that a rejection stopped is remembered with that rejection, as   *)
(* long as it is the newest review of the goal.                            *)
Settled ==
  \A t \in DOMAIN tickets : settled # 0 /\ Rejects(settled, t) => Key(settled, t) \in notified

(* The rejection the actor is deciding about stays the newest review: only *)
(* the thread itself opens tickets.  Its verdict may change meanwhile, but *)
(* not while the goal counts as settled.                                   *)
Looked ==
  call.pc \in {"open", "count"} =>
    /\ call.ticket \in DOMAIN tickets
    /\ IsLatest(call.goal, call.ticket)
    /\ settled = call.goal => Rejects(call.goal, call.ticket)

OrderInv == IInv /\ Ordered /\ Settled /\ Looked

LEMMA TicketTypes ==
  ASSUME TypeOK
  PROVE  \A i \in DOMAIN tickets : i \in Nat /\ tickets[i].goal \in Goals /\ tickets[i].order \in Nat
<1>1. \A i \in DOMAIN tickets : i \in Nat /\ tickets[i] \in TicketType
  BY DEF TypeOK
<1> QED BY <1>1 DEF TicketType

\* Among ordered tickets the latest is the one inserted last.
LEMMA LatestIsLast ==
  ASSUME TypeOK, Ordered, NEW g \in Goals
  PROVE  /\ \A i \in TicketsOf(g) : IsLatest(g, i) <=> \A j \in TicketsOf(g) : j <= i
         /\ TicketsOf(g) # {} => \E i \in TicketsOf(g) : IsLatest(g, i)
<1>1. ASSUME NEW i \in DOMAIN tickets, NEW j \in DOMAIN tickets
      PROVE  Before(j, i) <=> j < i
  BY <1>1, TicketTypes DEF Before, Ordered
<1>2. ASSUME NEW i \in TicketsOf(g)
      PROVE  IsLatest(g, i) <=> \A j \in TicketsOf(g) : j <= i
  <2>1. \A j \in TicketsOf(g) \ {i} : Before(j, i) <=> j <= i
    BY <1>1, <1>2, TicketTypes DEF TicketsOf
  <2> QED BY <1>2, <2>1, TicketTypes DEF IsLatest, TicketsOf
<1>3. TicketsOf(g) # {} => \E i \in TicketsOf(g) : IsLatest(g, i)
  BY <1>2 DEF Ordered
<1> QED BY <1>2, <1>3

\* There is only one.
LEMMA LatestIs ==
  ASSUME TypeOK, Ordered, NEW g \in Goals, NEW i \in TicketsOf(g), IsLatest(g, i)
  PROVE  Latest(g) = i /\ Newest(g) = i
<1>1. ASSUME NEW k \in TicketsOf(g), \A j \in TicketsOf(g) : j <= k PROVE k = i
  BY <1>1, LatestIsLast, TicketTypes DEF TicketsOf
<1>2. ASSUME NEW k \in TicketsOf(g), IsLatest(g, k) PROVE k = i
  BY <1>1, <1>2, LatestIsLast
<1>3. Latest(g) = i
  BY <1>2 DEF Latest, IsLatest
<1>4. \A j \in TicketsOf(g) : j <= i
  BY LatestIsLast
<1>5. Newest(g) = i
  BY <1>1, <1>4 DEF Newest
<1> QED BY <1>3, <1>5

\* The key of a rejection changes only with the tickets of its goal.
LEMMA KeyKept ==
  ASSUME TypeOK, Ordered, TypeOK', Ordered', NEW g \in Goals, NEW t,
         TicketsOf(g)' = TicketsOf(g), \A i \in TicketsOf(g) : tickets'[i] = tickets[i],
         Rejects(g, t)'
  PROVE  Rejects(g, t) /\ Key(g, t)' = Key(g, t)
<1>1. t \in TicketsOf(g) /\ IsLatest(g, t)'
  BY DEF Rejects, IsLatest
<1>2. \A j, k \in TicketsOf(g) : Before(j, k)' <=> Before(j, k)
  BY DEF Before
<1>3. IsLatest(g, t)
  BY <1>1, <1>2 DEF IsLatest
<1>4. Latest(g) = t
  BY <1>1, <1>3, LatestIs
<1>5. Latest(g)' = t
  <2>1. \A k \in TicketsOf(g) : IsLatest(g, k)' <=> IsLatest(g, k)
    BY <1>2 DEF IsLatest
  <2>2. \A k \in TicketsOf(g) : IsLatest(g, k) => k = t
    BY <1>1, <1>3, LatestIs
  <2>3. \A k : IsLatest(g, k)' => k = t
    BY <2>1, <2>2 DEF IsLatest
  <2> QED BY <1>1, <2>3 DEF Latest
<1>6. StuckCount(g)' = StuckCount(g)
  BY <1>1, <1>2, <1>4, <1>5 DEF StuckCount
<1> QED BY <1>1, <1>3, <1>6 DEF Key, Rejects

\* A step that leaves the tickets and what is remembered alone, and no look begins or goes on.
Remembered == UNCHANGED <<tickets, nextOrder, notified, settled>>
NoLook == call' = call \/ call'.pc \notin {"open", "count"}

\* With the same tickets, everything read from them is the same.
LEMMA SameTickets ==
  ASSUME tickets' = tickets
  PROVE  /\ \A g : TicketsOf(g)' = TicketsOf(g) /\ StuckCount(g)' = StuckCount(g)
         /\ \A g, t : IsLatest(g, t)' = IsLatest(g, t) /\ Rejects(g, t)' = Rejects(g, t)
         /\ \A g, t : Key(g, t)' = Key(g, t)
BY DEF Rejects, Key, Latest, IsLatest, TicketsOf, Before, StuckCount

LEMMA OrderUntouched ==
  ASSUME OrderInv, TypeOK', Remembered, NoLook
  PROVE  Ordered' /\ Settled' /\ Looked'
<1>1. Ordered'
  BY DEF OrderInv, Ordered, Remembered, TicketsOf
<1>2. Settled'
  BY SameTickets DEF OrderInv, Settled, Remembered
<1>3. Looked'
  BY SameTickets DEF OrderInv, Looked, Remembered, NoLook
<1> QED BY <1>1, <1>2, <1>3

\* A new ticket comes last, and is no rejection.
LEMMA OrderMint ==
  ASSUME OrderInv, TypeOK', Mint
  PROVE  Ordered' /\ Settled' /\ Looked'
<1>1. PICK n \in Nat :
        /\ n = Len(tickets) + 1 /\ n \in DOMAIN tickets' /\ n \notin DOMAIN tickets
        /\ \A i \in DOMAIN tickets' : i = n \/ i \in DOMAIN tickets
        /\ \A i \in DOMAIN tickets : i \in DOMAIN tickets' /\ i < n /\ tickets'[i] = tickets[i]
  <2>1. tickets \in Seq(TicketType) /\ \E t \in TicketType : tickets' = Append(tickets, t)
    <3>1. tickets' \in Seq(TicketType) /\ tickets \in Seq(TicketType)
      BY DEF OrderInv, IInv, TypeOK
    <3> QED BY <3>1 DEF Mint
  <2> QED BY <2>1
<1>2. /\ tickets'[n].goal = call.goal /\ tickets'[n].order = nextOrder /\ tickets'[n].verdict = "pending"
      /\ nextOrder' = nextOrder + 1 /\ nextOrder \in Nat /\ settled' = settled /\ notified' = notified
  BY <1>1 DEF Mint, OrderInv, IInv, TypeOK, history
<1>3. Ordered'
  <2>1. \A i \in DOMAIN tickets' : tickets'[i].order < nextOrder'
    BY <1>1, <1>2, TicketTypes DEF OrderInv, IInv, Ordered
  <2>2. \A i, j \in DOMAIN tickets' : i < j => tickets'[i].order < tickets'[j].order
    BY <1>1, <1>2, TicketTypes DEF OrderInv, IInv, Ordered
  <2>3. ASSUME NEW g \in Goals, TicketsOf(g)' # {}
        PROVE  \E i \in TicketsOf(g)' : \A j \in TicketsOf(g)' : j <= i
    <3>1. CASE g = call.goal
      <4>1. n \in TicketsOf(g)' /\ \A j \in TicketsOf(g)' : j <= n
        BY <1>1, <1>2, <3>1, TicketTypes DEF TicketsOf, OrderInv, IInv
      <4> QED BY <4>1
    <3>2. CASE g # call.goal
      <4>1. TicketsOf(g)' = TicketsOf(g)
        BY <1>1, <1>2, <3>2 DEF TicketsOf
      <4> QED BY <2>3, <4>1 DEF OrderInv, Ordered
    <3> QED BY <3>1, <3>2
  <2> QED BY <2>1, <2>2, <2>3 DEF Ordered
<1>4. Settled'
  <2> SUFFICES ASSUME settled' # 0, NEW t \in DOMAIN tickets', Rejects(settled, t)'
               PROVE  Key(settled, t)' \in notified'
    BY DEF Settled
  <2>1. settled \in Goals /\ settled' = settled /\ settled # 0
    BY <1>2, BoundsAssumption DEF OrderInv, IInv, TypeOK, Goals
  <2>2. settled # call.goal
    <3> SUFFICES ASSUME settled = call.goal PROVE FALSE
      OBVIOUS
    <3>1. n \in TicketsOf(settled)'
      BY <1>1, <1>2 DEF TicketsOf
    <3>2. \A j \in TicketsOf(settled)' : j = n \/ (Before(j, n)' /\ ~Before(n, j)')
      <4>1. \A j \in DOMAIN tickets : tickets'[j].order < tickets'[n].order /\ tickets'[j].order \in Nat
        BY <1>1, <1>2, TicketTypes DEF OrderInv, IInv, Ordered
      <4>2. tickets'[n].order \in Nat
        BY <1>2
      <4>3. \A j \in DOMAIN tickets : Before(j, n)' /\ ~Before(n, j)'
        BY <4>1, <4>2 DEF Before
      <4> QED BY <1>1, <4>3 DEF TicketsOf
    <3>3. t = n
      BY <2>1, <3>1, <3>2 DEF Rejects, IsLatest
    <3> QED BY <1>2, <3>3, RejectionsAssumption DEF Rejects
  <2>3. TicketsOf(settled)' = TicketsOf(settled) /\ \A i \in TicketsOf(settled) : tickets'[i] = tickets[i]
    BY <1>1, <1>2, <2>1, <2>2 DEF TicketsOf
  <2>4. Rejects(settled, t) /\ Key(settled, t)' = Key(settled, t)
    BY <1>3, <2>1, <2>3, KeyKept DEF OrderInv, IInv
  <2>5. t \in DOMAIN tickets
    BY <2>4 DEF Rejects, IsLatest, TicketsOf
  <2> QED BY <1>2, <2>1, <2>4, <2>5 DEF OrderInv, Settled
<1>5. Looked'
  BY DEF Mint, Looked, Idle
<1> QED BY <1>3, <1>4, <1>5

\* A verdict leaves every ticket in its place, and no goal settled.
LEMMA OrderResolve ==
  ASSUME OrderInv, NEW r \in Reviewers, ResolveTicket(r)
  PROVE  Ordered' /\ Settled' /\ Looked'
<1>1. /\ DOMAIN tickets' = DOMAIN tickets
      /\ \A i \in DOMAIN tickets : tickets'[i].goal = tickets[i].goal /\ tickets'[i].order = tickets[i].order
  <2> DEFINE new == [tickets[review[r].ticket] EXCEPT !.verdict = review[r].verdict, !.reviewed = review[r].hash]
  <2>1. /\ tickets' = [tickets EXCEPT ![review[r].ticket] = new]
        /\ tickets \in Seq(TicketType)
    BY DEF ResolveTicket, OrderInv, IInv, TypeOK
  <2>2. \A i \in DOMAIN tickets : i = review[r].ticket =>
          new.goal = tickets[i].goal /\ new.order = tickets[i].order
    BY <2>1 DEF TicketType
  <2> HIDE DEF new
  <2> QED BY <2>1, <2>2
<1>2. settled' = 0 /\ nextOrder' = nextOrder
  BY DEF ResolveTicket
<1>3. \A g : TicketsOf(g)' = TicketsOf(g)
  BY <1>1 DEF TicketsOf
<1>4. \A g, t : IsLatest(g, t)' = IsLatest(g, t)
  BY <1>1, <1>3 DEF IsLatest, Before, TicketsOf
<1>5. call' = call /\ (call.pc \in {"open", "count"} => call.goal # 0)
  BY DEF ResolveTicket, OrderInv, IInv, Asked
<1> QED BY <1>1, <1>2, <1>3, <1>4, <1>5 DEF OrderInv, Ordered, Settled, Looked

\* The look takes the newest review, if it is a rejection, and goes on with it.
LEMMA OrderLook ==
  ASSUME OrderInv, ReadRejection \/ ReadOpen
  PROVE  Ordered' /\ Settled' /\ Looked'
<1>1. Remembered
  BY DEF ReadRejection, ReadOpen, Remembered, store, history
<1>2. Ordered'
  BY <1>1 DEF OrderInv, Ordered, Remembered, TicketsOf
<1>3. Settled'
  BY <1>1, SameTickets DEF OrderInv, Settled, Remembered
<1>4. call \in CallType(goals)
  BY DEF OrderInv, IInv, TypeOK
<1>5. \/ call'.pc = "idle"
      \/ /\ call'.goal = call.goal /\ call'.ticket \in DOMAIN tickets
         /\ IsLatest(call.goal, call'.ticket)
         /\ settled = call.goal => Rejects(call.goal, call'.ticket)
  <2>1. CASE ReadRejection
    <3>1. CASE call' = Idle
      BY <3>1 DEF Idle
    <3>2. ASSUME NEW t \in DOMAIN tickets, Rejects(call.goal, t),
                 call' = [call EXCEPT !.ticket = t, !.category = tickets[t].verdict, !.pc = "open"]
          PROVE  call'.goal = call.goal /\ call'.ticket = t /\ IsLatest(call.goal, t)
      BY <1>4, <3>2 DEF CallType, Rejects
    <3> QED BY <2>1, <3>1, <3>2 DEF ReadRejection
  <2>2. CASE ReadOpen
    BY <1>4, <2>2 DEF ReadOpen, CallType, OrderInv, Looked
  <2> QED BY <2>1, <2>2
<1>6. Looked'
  BY <1>1, <1>5, SameTickets DEF Looked, Remembered
<1> QED BY <1>2, <1>3, <1>6

\* What is decided is remembered.
LEMMA OrderDecide ==
  ASSUME OrderInv, TypeOK', Decide
  PROVE  /\ Ordered' /\ Settled' /\ Looked'
         /\ call'.pc = "escalate" => settled # call.goal
<1>1. UNCHANGED <<tickets, nextOrder>> /\ call.goal # 0 /\ call.goal \in Goals
  <2>1. UNCHANGED <<tickets, nextOrder>> /\ call.goal # 0
    BY DEF Decide, store, OrderInv, IInv, Asked
  <2>2. call.goal \in 0 .. goals /\ goals \in 0 .. MaxGoals
    BY DEF OrderInv, IInv, TypeOK, CallType
  <2> QED BY <2>1, <2>2, BoundsAssumption DEF Goals
<1>2. Ordered'
  BY <1>1 DEF OrderInv, Ordered, TicketsOf
<1>3. /\ IsLatest(call.goal, call.ticket)
      /\ settled = call.goal => Rejects(call.goal, call.ticket) /\ call.ticket \in DOMAIN tickets
  BY DEF OrderInv, Looked, Decide
<1>4. /\ notified \subseteq notified' /\ Key(call.goal, call.ticket) \in notified'
      /\ settled' \in {settled, call.goal}
  BY DEF Decide
<1>5. ASSUME NEW t \in DOMAIN tickets, Rejects(call.goal, t) PROVE t = call.ticket
  BY <1>1, <1>3, <1>5, LatestIs DEF OrderInv, IInv, Rejects, IsLatest
<1>6. Settled'
  BY <1>1, <1>4, <1>5, SameTickets DEF OrderInv, Settled
<1>7. call'.pc # "escalate" \/ Key(call.goal, call.ticket) \notin notified
  BY DEF Decide, Idle
<1>8. call'.pc = "escalate" => settled # call.goal
  BY <1>1, <1>3, <1>7 DEF OrderInv, Settled
<1>9. Looked'
  <2>1. call'.pc \in {"idle", "escalate"}
    BY DEF Decide, Idle, OrderInv, IInv, TypeOK, CallType
  <2> QED BY <2>1 DEF Looked
<1> QED BY <1>2, <1>6, <1>8, <1>9

\* What the gate does with the ticket it reads.
Follows ==
  call.pc = "ticket" /\ call'.pc \in {"update", "mint"}
    => (call'.pc = "update" <=>
          /\ TicketsOf(call.goal) # {}
          /\ tickets[Newest(call.goal)].verdict = "approved"
          /\ tickets[Newest(call.goal)].reviewed = call.hash)

\* What the idle actor does with a goal it stopped before.
Sticks == call.pc = "count" /\ call'.pc = "escalate" => settled # call.goal

\* The ticket the gate finds fresh is the newest.
LEMMA GateReads == ASSUME OrderInv, ReadTicket PROVE Follows
<1>1. call.goal \in Goals /\ call \in CallType(goals)
  BY BoundsAssumption DEF ReadTicket, OrderInv, IInv, TypeOK, Asked, CallType, Goals
<1>2. call'.pc = "update" <=> FreshApproval(call.goal, call.hash)
  BY <1>1 DEF ReadTicket, CallType
<1>3. CASE TicketsOf(call.goal) = {}
  BY <1>2, <1>3 DEF FreshApproval, Follows
<1>4. CASE TicketsOf(call.goal) # {}
  <2>1. PICK i \in TicketsOf(call.goal) : IsLatest(call.goal, i)
    BY <1>1, <1>4, LatestIsLast DEF OrderInv, IInv
  <2>2. Newest(call.goal) = i
    BY <1>1, <2>1, LatestIs DEF OrderInv, IInv
  <2>3. \A k \in TicketsOf(call.goal) : IsLatest(call.goal, k) => k = i
    BY <1>1, <2>1, LatestIs DEF OrderInv, IInv
  <2>4. FreshApproval(call.goal, call.hash) <=>
          tickets[i].verdict = "approved" /\ tickets[i].reviewed = call.hash
    BY <2>1, <2>3 DEF FreshApproval
  <2> QED BY <1>2, <1>4, <2>2, <2>4 DEF Follows
<1> QED BY <1>3, <1>4

\* Every step but a restart keeps the order, and what it does to the call is right.
LEMMA OrderKept ==
  ASSUME OrderInv, [Next]_vars, [~Restart]_vars
  PROVE  OrderInv' /\ (Follows \/ UNCHANGED vars) /\ (Sticks \/ UNCHANGED vars)
<1>1. IInv' /\ TypeOK'
  BY NextIInv DEF OrderInv, IInv
<1>2. CASE UNCHANGED vars
  <2>1. Remembered /\ NoLook
    BY <1>2 DEF vars, Remembered, NoLook, history
  <2> QED BY <1>1, <1>2, <2>1, OrderUntouched DEF OrderInv
<1>3. CASE Mint
  BY <1>1, <1>3, OrderMint DEF OrderInv, Mint, Idle, Follows, Sticks
<1>4. CASE Decide
  BY <1>1, <1>4, OrderDecide DEF OrderInv, Decide, Follows, Sticks
<1>5. CASE ReadTicket
  <2>1. Remembered /\ NoLook
    BY <1>5 DEF ReadTicket, Remembered, NoLook, store, history, OrderInv, IInv, TypeOK, CallType
  <2> QED BY <1>1, <1>5, <2>1, OrderUntouched, GateReads DEF OrderInv, ReadTicket, Sticks
<1>6. CASE AskComplete \/ ReadMode \/ ReadQuestions \/ TakeHash \/ UpdateGoal \/ Block \/ AskDefer
  <2>1. Remembered
    BY <1>6 DEF AskComplete, ReadMode, ReadQuestions, TakeHash, UpdateGoal, Block, AskDefer,
                Remembered, store, history
  <2>2. call.pc \notin {"ticket", "count"} \/ call' = call
    BY <1>6 DEF AskComplete, ReadMode, ReadQuestions, TakeHash, UpdateGoal, Block, AskDefer, Free
  <2>3. NoLook
    <3>1. \A c \in CallType(goals), x \in {"questions", "update", "hash"} :
            [c EXCEPT !.pc = x].pc = x
      BY DEF CallType
    <3>2. call \in CallType(goals)
      BY DEF OrderInv, IInv, TypeOK
    <3>3. CASE TakeHash
      BY <3>2, <3>3 DEF TakeHash, NoLook, CallType
    <3>4. CASE ReadMode
      BY <3>2, <3>4 DEF ReadMode, NoLook, CallType
    <3>5. CASE ReadQuestions
      BY <3>1, <3>2, <3>5 DEF ReadQuestions, NoLook, Idle
    <3>6. CASE UpdateGoal \/ Block
      BY <3>6 DEF UpdateGoal, Block, NoLook, Idle
    <3>7. CASE AskComplete
      BY <3>7 DEF AskComplete, NoLook, Idle
    <3>8. CASE AskDefer
      BY <3>8 DEF AskDefer, NoLook, Idle
    <3> QED BY <1>6, <3>3, <3>4, <3>5, <3>6, <3>7, <3>8
  <2> QED BY <1>1, <2>1, <2>2, <2>3, OrderUntouched DEF OrderInv, Follows, Sticks
<1>7. CASE RecordQuestion \/ ClearModes \/ SetMode \/ LookAtGoal \/ Escalate \/ Stop
           \/ \E reviewed \in BOOLEAN : CreateGoal(reviewed)
  <2>1. Remembered
    BY <1>7 DEF RecordQuestion, ClearModes, SetMode, LookAtGoal, Escalate, Stop, CreateGoal,
                Remembered, store, history
  <2>2. call.pc \notin {"ticket", "count"}
    BY <1>7 DEF RecordQuestion, ClearModes, SetMode, LookAtGoal, Escalate, Stop, CreateGoal, Free
  <2>3. NoLook
    <3>1. \A c \in CallType(goals), x \in {"setMode", "stop"} : [c EXCEPT !.pc = x].pc = x
      BY DEF CallType
    <3>2. call \in CallType(goals)
      BY DEF OrderInv, IInv, TypeOK
    <3>3. CASE ClearModes
      BY <3>1, <3>2, <3>3 DEF ClearModes, NoLook, Idle
    <3>4. CASE RecordQuestion \/ SetMode \/ Stop
      BY <3>4 DEF RecordQuestion, SetMode, Stop, NoLook, Idle
    <3>5. CASE Escalate
      BY <3>1, <3>2, <3>5 DEF Escalate, NoLook, Idle
    <3>6. CASE LookAtGoal
      BY <3>6 DEF LookAtGoal, NoLook, Idle
    <3>7. CASE \E reviewed \in BOOLEAN : CreateGoal(reviewed)
      BY <3>7 DEF CreateGoal, NoLook, Idle
    <3> QED BY <1>7, <3>3, <3>4, <3>5, <3>6, <3>7
  <2> QED BY <1>1, <2>1, <2>2, <2>3, OrderUntouched DEF OrderInv, Follows, Sticks
<1>8. CASE DropCall
  <2>1. Remembered /\ NoLook /\ call'.pc = "idle"
    BY <1>8 DEF DropCall, Remembered, NoLook, store, history, Idle
  <2> QED BY <1>1, <2>1, OrderUntouched DEF OrderInv, Follows, Sticks
<1>9. CASE ClientStep
  <2>1. CASE \E g \in Goals : ResolveQuestion(g)
    <3>1. Remembered /\ call' = call
      BY <2>1 DEF ResolveQuestion, Remembered, history
    <3> QED BY <1>1, <3>1, OrderUntouched DEF OrderInv, Follows, Sticks, NoLook
  <2>2. CASE UNCHANGED thread
    <3>1. Remembered /\ call' = call
      BY <2>2 DEF thread, Remembered, history
    <3> QED BY <1>1, <3>1, OrderUntouched DEF OrderInv, Follows, Sticks, NoLook
  <2> QED BY <1>9, <2>1, <2>2
          DEF ClientStep, SetRead, SetCreate, SetReread, SetUpdate, ReplaceModes, InsertMode,
              UpdateMode, ApplyNew, ClearGoal, ClearGoalModes
<1>10. ASSUME NEW r \in Reviewers, ResolveTicket(r)
       PROVE  OrderInv' /\ Follows /\ Sticks
  <2>1. call' = call
    BY <1>10 DEF ResolveTicket
  <2> QED BY <1>1, <1>10, <2>1, OrderResolve DEF OrderInv, Follows, Sticks
<1>11. ASSUME NEW r \in Reviewers,
              SubmitFails(r) \/ \E t \in DOMAIN tickets, verdict \in Verdicts : Submit(r, t, verdict)
       PROVE  OrderInv' /\ Follows /\ Sticks
  <2>1. Remembered /\ call' = call
    BY <1>11 DEF SubmitFails, Submit, Remembered, store, history
  <2> QED BY <1>1, <2>1, OrderUntouched DEF OrderInv, Follows, Sticks, NoLook
<1>12. CASE Load \/ \E c \in Contents : Write(c)
  <2>1. Remembered /\ call' = call
    BY <1>12 DEF Load, Write, Remembered, store, history
  <2> QED BY <1>1, <2>1, OrderUntouched DEF OrderInv, Follows, Sticks, NoLook
<1>13. CASE Unload
  <2>1. UNCHANGED <<tickets, nextOrder>> /\ settled' = 0 /\ call'.pc = "idle"
    BY <1>13 DEF Unload, store, Idle
  <2>2. Ordered' /\ Settled' /\ Looked'
    BY <2>1 DEF OrderInv, Ordered, Settled, Looked, TicketsOf
  <2> QED BY <1>1, <2>1, <2>2 DEF OrderInv, Follows, Sticks
<1>14. CASE ReadRejection \/ ReadOpen
  <2>1. call.pc \notin {"ticket", "count"}
    BY <1>14 DEF ReadRejection, ReadOpen
  <2> QED BY <1>1, <1>14, <2>1, OrderLook DEF OrderInv, Follows, Sticks
<1> QED BY <1>2, <1>3, <1>4, <1>5, <1>6, <1>7, <1>8, <1>9, <1>10, <1>11, <1>12, <1>13, <1>14
        DEF Next, ThreadStep, ReviewerStep

\* The order holds as long as the process lives.
LEMMA OrderInvariance == Spec /\ [][~Restart]_vars => []OrderInv
<1>1. Init => OrderInv
  BY InitIInv DEF Init, OrderInv, Ordered, Settled, Looked, TicketsOf, Idle
<1>2. OrderInv /\ [Next]_vars /\ [~Restart]_vars => OrderInv'
  BY OrderKept
<1> QED BY <1>1, <1>2, PTL DEF Spec

\* latest_fresh_approval (review.rs:155-170): as long as the process lives, the gate lets a
\* call pass exactly when the ticket opened last for the goal approves the files.  Over a
\* restart, which sets the counter back and keeps the tickets, it does not.
THEOREM GateFollows == Spec /\ [][~Restart]_vars => GateFollowsNewest
<1>1. OrderInv /\ [Next]_vars /\ [~Restart]_vars
        => [call.pc = "ticket" /\ call'.pc \in {"update", "mint"}
              => (call'.pc = "update" <=>
                    /\ TicketsOf(call.goal) # {}
                    /\ tickets[Newest(call.goal)].verdict = "approved"
                    /\ tickets[Newest(call.goal)].reviewed = call.hash)]_vars
  BY OrderKept DEF Follows
<1> QED BY <1>1, OrderInvariance, PTL DEF Spec, GateFollowsNewest

\* forge_escalation_notified_keys (goal/runtime.rs:909-912): as long as the process lives, a
\* goal that was resumed is not stopped again for the rejection that stopped it.
THEOREM ResumedStays == Spec /\ [][~Restart]_vars => ResumeSticks
<1>1. OrderInv /\ [Next]_vars /\ [~Restart]_vars
        => [call.pc = "count" /\ call'.pc = "escalate" => settled # call.goal]_vars
  BY OrderKept DEF Sticks
<1> QED BY <1>1, OrderInvariance, PTL DEF Spec, ResumeSticks

=============================================================================
