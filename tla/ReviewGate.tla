----------------------------- MODULE ReviewGate -----------------------------
(***************************************************************************)
(* The gate in front of the completion of a reviewed goal (src/runtime/    *)
(* forge): the thread's calls of update_goal, defer_question and           *)
(* create_goal, the reviewers' submit_review, the actor's look at the      *)
(* newest review when it is idle, and the client's thread_goal_set,        *)
(* thread_goal_clear and answers to open questions.                        *)
(*                                                                         *)
(* One thread with its goal row, its mode rows, its review tickets and its *)
(* questions, all in the index database.  A statement on the database is a *)
(* step; the row a write reads back is taken with it.  Agents of the       *)
(* workspace, and the user, write files while the thread is in a call.     *)
(* "reviewed" and "intensive" are one mode: the gate treats them alike.    *)
(* Budgets, usage and suppression of the goal are left out.                *)
(***************************************************************************)
EXTENDS Integers, Sequences, FiniteSets

CONSTANTS Contents,      \* what the workspace may hold
          NoHash,        \* the hash of a workspace that is no git work tree
          InWorkTree,    \* whether the workspace is inside a git work tree
          Reviewers,     \* agents with the reviewer profile
          Rejections,    \* bound: the categories with which they reject
          MaxGoals,      \* bound: goals ever created for the thread
          MaxTickets,    \* bound: review tickets
          MaxQuestions,  \* bound: open questions of one goal
          MaxSets,       \* bound: thread_goal_set and thread_goal_clear requests
          MaxRestarts    \* bound: restarts of the process and unloadings of the thread

ASSUME NoHashAssumption == NoHash \notin Contents
ASSUME RejectionsAssumption == Rejections \subseteq {"retriable_gap", "needs_user", "external_blocker"}
ASSUME InWorkTreeAssumption == InWorkTree \in BOOLEAN
ASSUME BoundsAssumption == {MaxGoals, MaxTickets, MaxQuestions, MaxSets, MaxRestarts} \subseteq Nat

Goals == 1 .. MaxGoals
NoGoal == [id |-> 0, status |-> "none"]
Statuses == {"active", "paused", "blocked", "complete"}
Verdicts == Rejections \cup {"approved"}
Hashes == Contents \cup {NoHash}

VARIABLES
  content,    \* the files of the workspace
  goal,       \* the thread's row of thread_goals
  goals,      \* goals created so far: new_goal_id never repeats
  gated,      \* goals whose row of forge_goal_modes is not standard
  tickets,    \* forge_review_tickets, in the order of insertion
  nextOrder,  \* REVIEW_TICKET_COUNTER, a static of the process
  open,       \* unresolved rows of forge_open_questions, by goal
  loaded,     \* the thread's runtime is in the process
  call,       \* what the thread is doing
  client,     \* the client's request
  review,     \* what each reviewer is doing
  notified,   \* forge_escalation_notified_keys, in memory
  sets, restarts,
  approvals,  \* history: every approval given, as goal and hash
  settled     \* history: the goal a rejection stopped, with no verdict since

requests == <<client, sets>>
history == <<approvals, settled>>
vars == <<content, goal, goals, gated, tickets, nextOrder, open, loaded, call, review,
          notified, restarts, requests, history>>

Idle == [pc |-> "idle", goal |-> 0, hash |-> NoHash, gated |-> FALSE,
         ticket |-> 0, category |-> "none", to |-> "none"]
NoRequest == [pc |-> "idle", goal |-> 0, status |-> "keep", mode |-> "keep"]
NoReview == [pc |-> "idle", ticket |-> 0, verdict |-> "approved", hash |-> NoHash]

Init ==
  /\ content \in Contents
  /\ goal = NoGoal /\ goals = 0 /\ gated = {} /\ tickets = << >> /\ nextOrder = 1
  /\ open = [g \in Goals |-> 0] /\ loaded \in BOOLEAN
  /\ call = Idle /\ client = NoRequest /\ review = [r \in Reviewers |-> NoReview]
  /\ notified = {} /\ sets = 0 /\ restarts = 0 /\ approvals = {} /\ settled = 0

\* workspace_content_hash: equal for equal files; none outside a git work tree.
HashOf(c) == IF InWorkTree THEN c ELSE NoHash

-----------------------------------------------------------------------------
(* The review store.                                                       *)

TicketsOf(g) == {i \in DOMAIN tickets : tickets[i].goal = g}

\* ORDER BY ticket_order; rows of equal order come in the order of insertion.
Before(i, j) ==
  \/ tickets[i].order < tickets[j].order
  \/ tickets[i].order = tickets[j].order /\ i < j

\* A variant that takes the oldest ticket for the latest.
IsOldest(g, i) == i \in TicketsOf(g) /\ \A j \in TicketsOf(g) \ {i} : Before(i, j)

IsLatest(g, i) == i \in TicketsOf(g) /\ \A j \in TicketsOf(g) \ {i} : Before(j, i)

Latest(g) == CHOOSE i \in TicketsOf(g) : IsLatest(g, i)

\* A variant that forgets to compare the hash.
AnyApproval(g, hash) == \E i \in TicketsOf(g) : IsLatest(g, i) /\ tickets[i].verdict = "approved"

\* latest_fresh_approval is some ticket.
FreshApproval(g, hash) ==
  \E i \in TicketsOf(g) :
    IsLatest(g, i) /\ tickets[i].verdict = "approved" /\ tickets[i].reviewed = hash

\* How many of the latest tickets, without a gap, reject the same baseline.
StuckCount(g) ==
  LET same(i) == /\ tickets[i].verdict \in Rejections
                 /\ tickets[i].baseline = tickets[Latest(g)].baseline
  IN  Cardinality({i \in TicketsOf(g) :
        \A j \in TicketsOf(g) : j = i \/ Before(i, j) => same(j)})

\* The newest review is a rejection, and the key by which it is remembered.
Rejects(g, t) == IsLatest(g, t) /\ tickets[t].verdict \in Rejections
Key(g, t) == <<g, t, StuckCount(g)>>

-----------------------------------------------------------------------------
(* The thread: one tool call, or one look of the idle actor, at a time.    *)

Free == loaded /\ call.pc = "idle"
store == <<gated, tickets, nextOrder, open>>
rows == <<goal, goals>>
others == <<content, loaded, review, restarts, requests>>

\* update_goal(complete): the hook reads the goal; without one it lets the call pass.
AskComplete ==
  /\ Free
  /\ call' = [Idle EXCEPT !.goal = goal.id, !.pc = IF goal.id = 0 THEN "update" ELSE "mode"]
  /\ UNCHANGED <<rows, store, others, notified, history>>

ReadMode ==
  /\ call.pc = "mode"
  /\ IF call.goal \in gated
       THEN call' = [call EXCEPT !.gated = TRUE, !.pc = "questions"]
       ELSE call' = [call EXCEPT !.pc = "update"]
  /\ UNCHANGED <<rows, store, others, notified, history>>

\* A variant of the hook that does not ask for open questions.
ReadNoQuestions ==
  /\ call.pc = "questions"
  /\ call' = [call EXCEPT !.pc = "hash"]
  /\ UNCHANGED <<rows, store, others, notified, history>>

ReadQuestions ==
  /\ call.pc = "questions"
  /\ call' = IF open[call.goal] > 0 THEN Idle ELSE [call EXCEPT !.pc = "hash"]
  /\ UNCHANGED <<rows, store, others, notified, history>>

TakeHash ==
  /\ call.pc = "hash"
  /\ call' = [call EXCEPT !.hash = HashOf(content), !.pc = "ticket"]
  /\ UNCHANGED <<rows, store, others, notified, history>>

ReadTicket ==
  /\ call.pc = "ticket"
  /\ call' = [call EXCEPT !.pc = IF FreshApproval(call.goal, call.hash) THEN "update" ELSE "mint"]
  /\ UNCHANGED <<rows, store, others, notified, history>>

\* The call is refused and its result names the new ticket.
Mint ==
  /\ call.pc = "mint" /\ Len(tickets) < MaxTickets
  /\ tickets' = Append(tickets, [goal |-> call.goal, order |-> nextOrder, verdict |-> "pending",
                                 baseline |-> call.hash, reviewed |-> NoHash])
  /\ nextOrder' = nextOrder + 1
  /\ call' = Idle
  /\ UNCHANGED <<rows, gated, open, others, notified, history>>

\* The handler updates whatever goal the thread has now (expected_goal_id is None); what
\* update_thread_goal reads first does not matter, for it only sets the status.
UpdateGoal ==
  /\ call.pc = "update"
  /\ goal' = IF goal.id = 0 THEN goal ELSE [goal EXCEPT !.status = "complete"]
  /\ call' = Idle
  /\ UNCHANGED <<goals, store, others, notified, history>>

\* update_goal(blocked) passes every hook.
Block ==
  /\ Free /\ goal.id # 0
  /\ goal' = [goal EXCEPT !.status = "blocked"]
  /\ UNCHANGED <<goals, store, others, call, notified, history>>

\* defer_question: the goal is read, then the question is stored for it.
AskDefer ==
  /\ Free /\ goal.id # 0 /\ open[goal.id] < MaxQuestions
  /\ call' = [Idle EXCEPT !.goal = goal.id, !.pc = "defer"]
  /\ UNCHANGED <<rows, store, others, notified, history>>

RecordQuestion ==
  /\ call.pc = "defer"
  /\ open' = [open EXCEPT ![call.goal] = @ + 1]
  /\ call' = Idle
  /\ UNCHANGED <<rows, gated, tickets, nextOrder, others, notified, history>>

\* create_goal: INSERT OR IGNORE, then the mode rows of the thread are replaced.
CreateGoal(reviewed) ==
  /\ Free /\ goal.id = 0 /\ goals < MaxGoals
  /\ goals' = goals + 1 /\ goal' = [id |-> goals', status |-> "active"]
  /\ call' = [Idle EXCEPT !.goal = goals', !.gated = reviewed, !.pc = "clearModes"]
  /\ UNCHANGED <<store, others, notified, history>>

ClearModes ==
  /\ call.pc = "clearModes"
  /\ gated' = {}
  /\ call' = IF call.gated THEN [call EXCEPT !.pc = "setMode"] ELSE Idle
  /\ UNCHANGED <<rows, tickets, nextOrder, open, others, notified, history>>

SetMode ==
  /\ call.pc = "setMode"
  /\ gated' = gated \cup {call.goal}
  /\ call' = Idle
  /\ UNCHANGED <<rows, tickets, nextOrder, open, others, notified, history>>

ToolPlaces == {"mode", "questions", "hash", "ticket", "mint", "update", "defer", "clearModes", "setMode"}

\* An interrupt of the turn drops the call between two awaits.
DropCall ==
  /\ call.pc \in ToolPlaces
  /\ call' = Idle
  /\ UNCHANGED <<rows, store, others, notified, history>>

\* MaybeContinueIfIdle looks at the newest review of an active goal.
LookAtGoal ==
  /\ Free /\ goal.status = "active"
  /\ call' = [Idle EXCEPT !.goal = goal.id, !.pc = "decide"]
  /\ UNCHANGED <<rows, store, others, notified, history>>

\* decision_for_goal is three statements: the latest ticket, which must be a rejection ...
ReadRejection ==
  /\ call.pc = "decide"
  /\ \/ \E t \in DOMAIN tickets :
           /\ Rejects(call.goal, t)
           /\ call' = [call EXCEPT !.ticket = t, !.category = tickets[t].verdict, !.pc = "open"]
     \/ /\ \A t \in DOMAIN tickets : ~Rejects(call.goal, t)
        /\ call' = Idle
  /\ UNCHANGED <<rows, store, others, notified, history>>

\* ... the open questions, which with the category tell what becomes of the goal ...
ReadOpen ==
  /\ call.pc = "open"
  /\ call' = [call EXCEPT !.pc = "count",
                !.to = CASE call.category = "external_blocker" -> "blocked"
                         [] call.category = "needs_user" /\ open[call.goal] > 0 -> "paused"
                         [] OTHER -> "active"]
  /\ UNCHANGED <<rows, store, others, notified, history>>

\* A variant that remembers only the rejections it gave guidance for.
DecideUnmarked ==
  /\ call.pc = "count"
  /\ notified' = IF call.to = "active" THEN notified \cup {Key(call.goal, call.ticket)} ELSE notified
  /\ IF Key(call.goal, call.ticket) \in notified \/ call.to = "active"
       THEN call' = Idle /\ UNCHANGED settled
       ELSE call' = [call EXCEPT !.pc = "escalate"] /\ settled' = call.goal
  /\ UNCHANGED <<rows, store, others, approvals>>

\* ... and the count of rejections.  The key it completes is marked at once, in the actor's
\* memory: each rejection is acted upon once, and guidance leaves the goal as it is.
Decide ==
  /\ call.pc = "count"
  /\ notified' = notified \cup {Key(call.goal, call.ticket)}
  /\ IF Key(call.goal, call.ticket) \in notified \/ call.to = "active"
       THEN call' = Idle /\ UNCHANGED settled
       ELSE call' = [call EXCEPT !.pc = "escalate"] /\ settled' = call.goal
  /\ UNCHANGED <<rows, store, others, approvals>>

\* update_thread_goal looks whether it is still the thread's goal ...
Escalate ==
  /\ call.pc = "escalate"
  /\ call' = IF goal.id = call.goal THEN [call EXCEPT !.pc = "stop"] ELSE Idle
  /\ UNCHANGED <<rows, store, others, notified, history>>

\* ... and then writes the row of the thread, whichever goal it holds.
Stop ==
  /\ call.pc = "stop"
  /\ goal' = IF goal.id = 0 THEN goal ELSE [goal EXCEPT !.status = call.to]
  /\ call' = Idle
  /\ UNCHANGED <<goals, store, others, notified, history>>

-----------------------------------------------------------------------------
(* The client.                                                             *)

Answered == {"idle", "created", "updated"}
thread == <<content, tickets, nextOrder, open, loaded, call, review, notified, restarts, history>>

\* thread_goal_set reads the goal it is about to create or to change.
SetRead(status, mode) ==
  /\ client.pc \in Answered /\ sets < MaxSets
  /\ client' = [pc |-> "write", goal |-> goal.id, status |-> status, mode |-> mode]
  /\ sets' = sets + 1
  /\ UNCHANGED <<rows, gated, thread>>

\* There was none: replace_thread_goal writes a new one over whatever is there now.
SetCreate ==
  /\ client.pc = "write" /\ client.goal = 0 /\ goals < MaxGoals
  /\ goals' = goals + 1
  /\ goal' = [id |-> goals', status |-> IF client.status = "keep" THEN "active" ELSE client.status]
  /\ client' = [client EXCEPT !.goal = goals', !.pc = "replaceModes",
                              !.mode = IF @ = "keep" THEN "standard" ELSE @]
  /\ UNCHANGED <<gated, thread, sets>>

\* There was one: update_thread_goal reads it again, refuses another goal, and takes the
\* status found for the one to keep ...
SetReread ==
  /\ client.pc = "write" /\ client.goal # 0
  /\ client' = IF goal.id # client.goal THEN NoRequest
                ELSE [client EXCEPT !.pc = "update", !.status = IF @ = "keep" THEN goal.status ELSE @]
  /\ UNCHANGED <<rows, gated, thread, sets>>

\* ... and writes the row of the thread: a goal that came in between gets the status, and
\* is the one the request goes on with.
SetUpdate ==
  /\ client.pc = "update"
  /\ IF goal.id = 0
       THEN client' = NoRequest /\ UNCHANGED goal
       ELSE /\ goal' = [goal EXCEPT !.status = client.status]
            /\ client' = [client EXCEPT !.pc = "updateMode", !.goal = goal.id]
  /\ UNCHANGED <<goals, gated, thread, sets>>

\* replace_for_thread_goal: the thread's rows go, then the new one comes.
ReplaceModes ==
  /\ client.pc = "replaceModes"
  /\ gated' = {}
  /\ client' = [client EXCEPT !.pc = IF client.mode = "reviewed" THEN "insertMode" ELSE "applyNew"]
  /\ UNCHANGED <<rows, thread, sets>>

InsertMode ==
  /\ client.pc = "insertMode"
  /\ gated' = gated \cup {client.goal}
  /\ client' = [client EXCEPT !.pc = "applyNew"]
  /\ UNCHANGED <<rows, thread, sets>>

\* set_mode, or mode_for_goal when the request names no mode.
UpdateMode ==
  /\ client.pc = "updateMode"
  /\ gated' = CASE client.mode = "reviewed" -> gated \cup {client.goal}
                [] client.mode = "standard" -> gated \ {client.goal}
                [] OTHER -> gated
  /\ client' = [client EXCEPT !.pc = "updated",
                  !.mode = IF client.goal \in gated' THEN "reviewed" ELSE "standard"]
  /\ UNCHANGED <<rows, thread, sets>>

\* A loaded runtime is told of the new goal: external_set replaces the mode rows again.
ApplyNew ==
  /\ client.pc = "applyNew"
  /\ gated' = IF loaded THEN {} ELSE gated
  /\ client' = [client EXCEPT !.pc = "created"]
  /\ UNCHANGED <<rows, thread, sets>>

\* thread_goal_clear deletes the goal and then its mode rows.
ClearGoal ==
  /\ client.pc \in Answered /\ sets < MaxSets
  /\ goal' = NoGoal
  /\ client' = [NoRequest EXCEPT !.pc = "cleared"]
  /\ sets' = sets + 1
  /\ UNCHANGED <<goals, gated, thread>>

\* A loaded runtime deletes them once more.
ClearGoalModes ==
  /\ client.pc \in {"cleared", "applyClear"}
  /\ gated' = {}
  /\ client' = IF client.pc = "cleared" /\ loaded THEN [client EXCEPT !.pc = "applyClear"] ELSE NoRequest
  /\ UNCHANGED <<rows, thread, sets>>

ResolveQuestion(g) ==
  /\ open[g] > 0
  /\ open' = [open EXCEPT ![g] = @ - 1]
  /\ UNCHANGED <<rows, gated, tickets, nextOrder, others, call, notified, history>>

-----------------------------------------------------------------------------
(* Reviewers, writers and the process.                                     *)

\* submit_review: the hash is that of the files now, whatever the reviewer read.
Submit(r, t, verdict) ==
  /\ loaded /\ review[r].pc = "idle"
  /\ review' = [review EXCEPT ![r] = [pc |-> "resolve", ticket |-> t, verdict |-> verdict,
                                      hash |-> HashOf(content)]]
  /\ UNCHANGED <<rows, store, call, content, loaded, restarts, requests, notified, history>>

\* A ticket can be resolved again: the last verdict stays.
ResolveTicket(r) ==
  /\ review[r].pc = "resolve"
  /\ tickets' = [tickets EXCEPT ![review[r].ticket].verdict = review[r].verdict,
                                ![review[r].ticket].reviewed = review[r].hash]
  /\ approvals' = IF review[r].verdict = "approved"
                    THEN approvals \cup {<<tickets[review[r].ticket].goal, review[r].hash>>}
                    ELSE approvals
  /\ review' = [review EXCEPT ![r] = NoReview] /\ settled' = 0
  /\ UNCHANGED <<rows, gated, nextOrder, open, call, content, loaded, restarts, requests, notified>>

\* The checkpoint cannot be made, or the reviewer is closed.
SubmitFails(r) ==
  /\ review[r].pc = "resolve"
  /\ review' = [review EXCEPT ![r] = NoReview]
  /\ UNCHANGED <<rows, store, call, content, loaded, restarts, requests, notified, history>>

Write(c) ==
  /\ c # content /\ content' = c
  /\ UNCHANGED <<rows, store, call, review, loaded, restarts, requests, notified, history>>

\* A loaded thread has a GoalRuntime of its own, with no rejection remembered.
Load ==
  /\ ~loaded /\ loaded' = TRUE
  /\ UNCHANGED <<rows, store, call, review, content, restarts, requests, notified, history>>

\* Closing or archiving the thread drops its runtime, and the call it is in.
Unload ==
  /\ loaded /\ restarts < MaxRestarts /\ restarts' = restarts + 1
  /\ loaded' = FALSE /\ call' = Idle /\ notified' = {} /\ settled' = 0
  /\ UNCHANGED <<content, rows, store, review, requests, approvals>>

\* The database stays; everything in memory starts anew.
Restart ==
  /\ restarts < MaxRestarts /\ restarts' = restarts + 1
  /\ loaded' = FALSE /\ nextOrder' = 1 /\ notified' = {} /\ settled' = 0
  /\ call' = Idle /\ client' = NoRequest /\ review' = [r \in Reviewers |-> NoReview]
  /\ UNCHANGED <<content, rows, gated, tickets, open, sets, approvals>>

-----------------------------------------------------------------------------

ThreadStep ==
  \/ AskComplete \/ ReadMode \/ ReadQuestions \/ TakeHash \/ ReadTicket \/ Mint
  \/ UpdateGoal \/ Block \/ AskDefer \/ RecordQuestion
  \/ \E reviewed \in BOOLEAN : CreateGoal(reviewed)
  \/ ClearModes \/ SetMode \/ DropCall \/ LookAtGoal \/ ReadRejection \/ ReadOpen \/ Decide \/ Escalate \/ Stop

ClientStep ==
  \/ \E status \in {"keep", "active", "paused", "complete"}, mode \in {"keep", "standard", "reviewed"} :
        SetRead(status, mode)
  \/ SetCreate \/ SetReread \/ SetUpdate \/ ReplaceModes \/ InsertMode \/ UpdateMode \/ ApplyNew
  \/ ClearGoal \/ ClearGoalModes
  \/ \E g \in Goals : ResolveQuestion(g)

ReviewerStep ==
  \E r \in Reviewers :
    \/ \E t \in DOMAIN tickets, verdict \in Verdicts : Submit(r, t, verdict)
    \/ ResolveTicket(r) \/ SubmitFails(r)

Next ==
  \/ ThreadStep \/ ClientStep \/ ReviewerStep \/ \E c \in Contents : Write(c)
  \/ Load \/ Unload \/ Restart

Spec == Init /\ [][Next]_vars

-----------------------------------------------------------------------------
(* Properties.                                                             *)

\* A row of forge_review_tickets; the category of a rejection stands for its verdict.
TicketType == [goal : Goals, order : Nat \ {0}, verdict : Verdicts \cup {"pending"},
               baseline : Hashes, reviewed : Hashes]

CallType(n) == [pc : {"idle", "decide", "open", "count", "escalate", "stop"} \cup ToolPlaces,
                goal : 0 .. n, hash : Hashes, gated : BOOLEAN, ticket : Nat,
                category : {"none"} \cup Rejections, to : {"none", "active", "blocked", "paused"}]
ClientType(n) == [pc : {"idle", "write", "update", "replaceModes", "insertMode", "updateMode",
                        "applyNew", "created", "updated", "cleared", "applyClear"},
                  goal : 0 .. n, status : {"keep"} \cup Statuses,
                  mode : {"keep", "standard", "reviewed"}]
ReviewType(n) == [pc : {"idle", "resolve"}, ticket : 0 .. n, verdict : Verdicts, hash : Hashes]

\* The variables hold what the code's types allow (the rows of the index database, the
\* tool call in progress, the request, the reviews in flight).
TypeOK ==
  /\ content \in Contents
  /\ goals \in 0 .. MaxGoals
  /\ goal \in {NoGoal} \cup [id : 1 .. goals, status : Statuses]
  /\ gated \subseteq 1 .. goals
  /\ tickets \in Seq(TicketType) /\ nextOrder \in Nat \ {0}
  /\ open \in [Goals -> 0 .. MaxQuestions]
  /\ loaded \in BOOLEAN
  /\ call \in CallType(goals) /\ client \in ClientType(goals)
  /\ review \in [Reviewers -> ReviewType(Len(tickets))]
  /\ sets \in 0 .. MaxSets /\ restarts \in 0 .. MaxRestarts
  /\ approvals \subseteq Goals \X Hashes /\ settled \in 0 .. goals

\* The tool completes the goal.
Completes ==
  /\ call.pc = "update" /\ call' = Idle
  /\ goal.status # "complete" /\ goal'.status = "complete"

\* A goal that was reviewed when the call asked is completed only if a reviewer approved
\* exactly the files the call found, for this goal (ForgeGateHooks, gate.rs:58-89).
GateNeedsApproval ==
  [][Completes /\ call.gated /\ goal.id = call.goal => <<goal.id, call.hash>> \in approvals]_vars

\* ... and never while a question is open, whoever answers or asks in the meantime.
NoOpenQuestionAtCompletion ==
  [][Completes /\ call.gated /\ goal.id = call.goal => open[goal.id] = 0]_vars

Newest(g) == CHOOSE i \in TicketsOf(g) : \A j \in TicketsOf(g) : j <= i

\* The gate follows the ticket opened last: it lets the call pass when that one approves
\* the files, and only then (latest_fresh_approval, review.rs:155-170).
GateFollowsNewest ==
  [][call.pc = "ticket" /\ call'.pc \in {"update", "mint"}
       => (call'.pc = "update" <=>
             /\ TicketsOf(call.goal) # {}
             /\ tickets[Newest(call.goal)].verdict = "approved"
             /\ tickets[Newest(call.goal)].reviewed = call.hash)]_vars

\* A goal the client resumes is not stopped again for the same rejection: that takes a new
\* verdict, or a new GoalRuntime (forge_escalation_notified_keys, goal/runtime.rs:909-912).
\* Tickets whose order is that of another process break this too: a new one that sorts
\* before the rejected one changes the count in its key.
ResumeSticks ==
  [][call.pc = "count" /\ call'.pc = "escalate" => settled # call.goal]_vars

\* A goal that thread_goal_set created has the mode the request was answered with
\* ("The response returns both the goal and the resolved mode"): refuted, external_set makes
\* a new goal of a loaded thread a standard one.
ModeAsAnswered ==
  client.pc = "created" /\ goal.id = client.goal
    => (goal.id \in gated <=> client.mode = "reviewed")
=============================================================================
