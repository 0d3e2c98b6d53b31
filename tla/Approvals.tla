----------------------------- MODULE Approvals -----------------------------
(***************************************************************************)
(* Approvals of commands and questions to the user.  A tool of a turn      *)
(* leaves a request in the PolicyManager, which all threads of the process *)
(* share, and then in the thread's overlay and rollout file.  A client's   *)
(* decision goes through three of them: the handler reads the file, puts   *)
(* what it read (back) into the PolicyManager, and sends an op; the actor  *)
(* looks at the overlay, takes the request from the PolicyManager, runs    *)
(* the command and records the decision.                                   *)
(*                                                                         *)
(* Of a request only its id and its body matter; stored[t] is what         *)
(* RuntimeOverlay::from_events makes of the file, live[t] the overlay of   *)
(* the loaded runtime.  The workspace gate is in RuntimeLoader.            *)
(***************************************************************************)
EXTENDS Integers, FiniteSets

CONSTANTS Threads, Clients,
          MaxMade,     \* bound: requests made
          MaxFails,    \* bound: runs of an approved command that fail or are not recorded
          MaxRestarts  \* bound: restarts of the process

ASSUME ThreadsAssumption == IsFiniteSet(Threads)
ASSUME BoundsAssumption == MaxMade \in Nat \ {0} /\ MaxFails \in Nat /\ MaxRestarts \in Nat

Kinds == {"command", "question"}
\* PolicyManager::pending and ::pending_user_input are one map with these keys.
Keys == Kinds \X (1 .. MaxMade)
Bodies == 1 .. MaxMade
Nobody == "nobody"

VARIABLES
  loaded,   \* [Threads -> BOOLEAN]: the thread has a runtime
  stored,   \* the pending requests in the file, with their bodies
  live,     \* those of the overlay (requested_event_id tells the body)
  policy,   \* the requests of the PolicyManager
  nextId,   \* APPROVAL_COUNTER
  actor,    \* what the actor of each thread does
  request,  \* what each client's request does
  made, restarts,
  lost,     \* history: what left the overlay of each thread while the file kept it
  ran,      \* history: the bodies that were started, and what the thread had asked
  runs,     \* history: how often each body was started ...
  cut,      \* ... and how often that failed or died with the process
  decided,  \* history: the bodies whose decision is recorded
  old,      \* history: earlier processes gave the ids below this ...
  reused    \* ... and whether one of them was given again

ids == <<made, old, reused>>
history == <<ran, runs, cut, decided>>
faults == <<restarts, lost>>
vars == <<loaded, stored, live, policy, nextId, actor, request, faults, ids, history>>

Empty == [k \in {} |-> 0]
With(f, k, v) == [x \in DOMAIN f \cup {k} |-> IF x = k THEN v ELSE f[x]]
Without(f, S) == [k \in DOMAIN f \ S |-> f[k]]
Idle == [pc |-> "idle", key |-> <<"command", 1>>, body |-> 0, client |-> Nobody]
NoRequest == [pc |-> "idle", thread |-> Nobody, key |-> <<"command", 1>>,
              accept |-> FALSE, body |-> 0]

Init ==
  /\ loaded = [t \in Threads |-> TRUE]
  /\ stored = [t \in Threads |-> Empty] /\ live = [t \in Threads |-> Empty]
  /\ policy = Empty /\ nextId = 1
  /\ actor = [t \in Threads |-> Idle] /\ request = [c \in Clients |-> NoRequest]
  /\ made = 0 /\ restarts = 0 /\ lost = [t \in Threads |-> {}]
  /\ ran = {} /\ runs = [b \in Bodies |-> 0] /\ cut = [b \in Bodies |-> 0]
  /\ decided = {} /\ old = 1 /\ reused = FALSE

At(t, pc) == loaded[t] /\ actor[t].pc = pc
Goto(t, pc) == actor' = [actor EXCEPT ![t].pc = pc]
Rest(t) == actor' = [actor EXCEPT ![t] = Idle]

-----------------------------------------------------------------------------
(* A turn asks.                                                            *)

StartTurn(t) ==
  /\ At(t, "idle") /\ Goto(t, "turn")
  /\ UNCHANGED <<loaded, stored, live, policy, nextId, request, faults, ids, history>>

EndTurn(t) ==
  /\ At(t, "turn") /\ Rest(t)
  /\ UNCHANGED <<loaded, stored, live, policy, nextId, request, faults, ids, history>>

\* ask_user looks for a question of its thread, under a lock of its own.
MayAsk(t) ==
  /\ At(t, "turn")
  /\ ~ \E k \in DOMAIN policy : k[1] = "question" /\ policy[k].thread = t
  /\ Goto(t, "asking")
  /\ UNCHANGED <<loaded, stored, live, policy, nextId, request, faults, ids, history>>

\* A variant in which an id is made from the number of pending requests.
NewIdByCount == Cardinality(DOMAIN policy) + 1

\* new_approval_id
NewId == nextId

\* create_command_approval, create_user_input_request
Create(t, kind) ==
  /\ At(t, IF kind = "command" THEN "turn" ELSE "asking")
  /\ made < MaxMade /\ made' = made + 1
  /\ LET key == <<kind, NewId>>
     IN  /\ policy' = With(policy, key, [thread |-> t, body |-> made', answered |-> FALSE])
         /\ actor' = [actor EXCEPT ![t] = [@ EXCEPT !.pc = "created", !.key = key, !.body = made']]
         /\ reused' = (reused \/ NewId < old)
  /\ nextId' = nextId + 1
  /\ UNCHANGED <<loaded, stored, live, request, faults, old, history>>

\* apply_approval_update / apply_user_input_update: Requested
RecordRequest(t) ==
  /\ At(t, "created")
  /\ live' = [live EXCEPT ![t] = With(@, actor[t].key, actor[t].body)]
  /\ stored' = [stored EXCEPT ![t] = With(@, actor[t].key, actor[t].body)]
  /\ actor' = [actor EXCEPT ![t] = [Idle EXCEPT !.pc = "turn"]]
  /\ UNCHANGED <<loaded, policy, nextId, request, faults, ids, history>>

\* The storage refuses the record (`?`): the turn ends, the overlay keeps the request.
RefuseRequest(t) ==
  /\ At(t, "created") /\ Rest(t)
  /\ live' = [live EXCEPT ![t] = With(@, actor[t].key, actor[t].body)]
  /\ UNCHANGED <<loaded, stored, policy, nextId, request, faults, ids, history>>

\* The turn is dropped where it waits; only the file forgets what it asked, unless the
\* storage refuses the record.
InterruptTurn(t) ==
  /\ \/ At(t, "turn") \/ At(t, "asking")
     \/ At(t, "created") /\ actor[t].key[1] = "command"
  /\ stored' \in {stored, [stored EXCEPT ![t] = Empty]}
  /\ Rest(t)
  /\ UNCHANGED <<loaded, live, policy, nextId, request, faults, ids, history>>

-----------------------------------------------------------------------------
(* The interrupt of a thread that waits for input.                         *)

ClearOverlay(t) ==
  /\ At(t, "idle") /\ DOMAIN live[t] # {}
  /\ live' = [live EXCEPT ![t] = Empty]
  /\ Goto(t, "cancelCommands")
  /\ UNCHANGED <<loaded, stored, policy, nextId, request, faults, ids, history>>

OfThread(t, kind) == {k \in DOMAIN policy : k[1] = kind /\ policy[k].thread = t}

CancelCommands(t) ==
  /\ At(t, "cancelCommands")
  /\ policy' = Without(policy, OfThread(t, "command"))
  /\ Goto(t, "cancelQuestions")
  /\ UNCHANGED <<loaded, stored, live, nextId, request, faults, ids, history>>

CancelQuestions(t) ==
  /\ At(t, "cancelQuestions")
  /\ policy' = Without(policy, OfThread(t, "question"))
  /\ Goto(t, "interrupted")
  /\ UNCHANGED <<loaded, stored, live, nextId, request, faults, ids, history>>

RecordInterrupt(t) ==
  /\ At(t, "interrupted") /\ Rest(t)
  /\ stored' = [stored EXCEPT ![t] = Empty]
  /\ UNCHANGED <<loaded, live, policy, nextId, request, faults, ids, history>>

\* The storage refuses it: the overlay is cleared, the file still shows the requests.
RefuseInterrupt(t) ==
  /\ At(t, "interrupted") /\ Rest(t)
  /\ lost' = [lost EXCEPT ![t] = @ \cup DOMAIN stored[t]]
  /\ UNCHANGED <<loaded, stored, live, policy, nextId, request, restarts, ids, history>>

-----------------------------------------------------------------------------
(* A client decides.                                                       *)

\* What a client can know of a thread's requests: the file, the overlay, the inbox.
Shown(t) ==
  DOMAIN live[t] \cup DOMAIN stored[t] \cup {k \in DOMAIN policy : policy[k].thread = t}

\* approval_decision, submit_user_input: the handler reads the file; of a thread that has
\* no runtime the request must be pending there.
Submit(c, t, k, accept) ==
  /\ request[c].pc = "idle" /\ k \in Shown(t)
  /\ loaded[t] \/ k \in DOMAIN stored[t]
  /\ request' = [request EXCEPT ![c] =
       [pc |-> IF k \in DOMAIN stored[t] THEN "restore"
               ELSE IF k[1] = "question" /\ accept THEN "answer" ELSE "sent",
        thread |-> t, key |-> k, accept |-> accept,
        body |-> IF k \in DOMAIN stored[t] THEN stored[t][k] ELSE 0]]
  /\ UNCHANGED <<loaded, stored, live, policy, nextId, actor, faults, ids, history>>

\* restore_command_approval, restore_user_input_request: what is there is overwritten.
Restore(c) ==
  /\ request[c].pc = "restore"
  /\ policy' = With(policy, request[c].key, [thread |-> request[c].thread,
                                             body |-> request[c].body, answered |-> FALSE])
  /\ request' = [request EXCEPT ![c].body = 0,
       ![c].pc = IF request[c].key[1] = "question" /\ request[c].accept THEN "answer" ELSE "sent"]
  /\ UNCHANGED <<loaded, stored, live, nextId, actor, faults, ids, history>>

\* submit_user_input_answers
Answer(c) ==
  /\ request[c].pc = "answer"
  /\ LET k == request[c].key IN
       IF k \in DOMAIN policy
       THEN /\ policy' = [policy EXCEPT ![k].answered = TRUE]
            /\ request' = [request EXCEPT ![c].pc = "sent"]
       ELSE request' = [request EXCEPT ![c] = NoRequest] /\ UNCHANGED policy
  /\ UNCHANGED <<loaded, stored, live, nextId, actor, faults, ids, history>>

\* The op reaches the actor of the runtime, which the handler loads if need be (Load):
\* resolve_pending_approval, resolve_pending_user_input.
Pending(t, k) == k \in DOMAIN live[t]

Leave(t, c) == Rest(t) /\ request' = [request EXCEPT ![c] = NoRequest]

TakeOp(t, c) ==
  /\ At(t, "idle") /\ request[c].pc = "sent" /\ request[c].thread = t
  /\ IF Pending(t, request[c].key)
     THEN /\ actor' = [actor EXCEPT ![t] = [pc |-> "take", key |-> request[c].key, body |-> 0,
                                            client |-> c]]
          /\ request' = [request EXCEPT ![c].pc = "served"]
     ELSE Leave(t, c)
  /\ UNCHANGED <<loaded, stored, live, policy, nextId, faults, ids, history>>

\* take_pending_command, take_pending_user_input; an approved command starts.
Take(t) ==
  /\ At(t, "take")
  /\ LET k == actor[t].key
         c == actor[t].client
         starts == k[1] = "command" /\ request[c].accept
     IN  /\ k \in DOMAIN policy
         /\ policy' = Without(policy, {k})
         /\ actor' = [actor EXCEPT ![t].pc = IF starts THEN "running" ELSE "record",
                                   ![t].body = policy[k].body]
         /\ ran' = IF starts THEN ran \cup {[body |-> policy[k].body, asked |-> live[t][k]]}
                   ELSE ran
         /\ runs' = IF starts THEN [runs EXCEPT ![policy[k].body] = @ + 1] ELSE runs
  /\ UNCHANGED <<loaded, stored, live, nextId, request, faults, ids, cut, decided>>

TakeNothing(t) ==
  /\ At(t, "take") /\ actor[t].key \notin DOMAIN policy
  /\ Leave(t, actor[t].client)
  /\ UNCHANGED <<loaded, stored, live, policy, nextId, faults, ids, history>>

\* The command cannot be run to its end: no decision is recorded.
RunFails(t) ==
  /\ At(t, "running") /\ cut[actor[t].body] < MaxFails
  /\ cut' = [cut EXCEPT ![actor[t].body] = @ + 1]
  /\ Leave(t, actor[t].client)
  /\ UNCHANGED <<loaded, stored, live, policy, nextId, faults, ids, ran, runs, decided>>

\* A variant that leaves the request in the overlay.
RecordDecisionOnly(t) ==
  /\ At(t, "running") \/ At(t, "record")
  /\ stored' = [stored EXCEPT ![t] = Without(@, {actor[t].key})]
  /\ decided' = decided \cup {actor[t].body}
  /\ Leave(t, actor[t].client)
  /\ UNCHANGED <<loaded, live, policy, nextId, faults, ids, ran, runs, cut>>

\* apply_approval_update: Approved, Denied; apply_user_input_update: Resolved
RecordDecision(t) ==
  /\ At(t, "running") \/ At(t, "record")
  /\ live' = [live EXCEPT ![t] = Without(@, {actor[t].key})]
  /\ stored' = [stored EXCEPT ![t] = Without(@, {actor[t].key})]
  /\ decided' = decided \cup {actor[t].body}
  /\ Leave(t, actor[t].client)
  /\ UNCHANGED <<loaded, policy, nextId, faults, ids, ran, runs, cut>>

\* The storage refuses it, after clear_approval: a command that ran has no decision.
RefuseDecision(t) ==
  /\ At(t, "running") \/ At(t, "record")
  /\ cut[actor[t].body] < MaxFails
  /\ live' = [live EXCEPT ![t] = Without(@, {actor[t].key})]
  /\ lost' = [lost EXCEPT ![t] = @ \cup ({actor[t].key} \cap DOMAIN stored[t])]
  /\ cut' = IF At(t, "running") THEN [cut EXCEPT ![actor[t].body] = @ + 1] ELSE cut
  /\ Leave(t, actor[t].client)
  /\ UNCHANGED <<loaded, stored, policy, nextId, restarts, ids, ran, runs, decided>>

-----------------------------------------------------------------------------
(* The process.                                                            *)

Restart ==
  /\ restarts < MaxRestarts /\ restarts' = restarts + 1 /\ lost' = [t \in Threads |-> {}]
  /\ loaded' = [t \in Threads |-> FALSE] /\ live' = [t \in Threads |-> Empty]
  /\ policy' = Empty /\ nextId' = 1 /\ old' = IF nextId > old THEN nextId ELSE old
  /\ actor' = [t \in Threads |-> Idle] /\ request' = [c \in Clients |-> NoRequest]
  /\ cut' = [b \in Bodies |->
               cut[b] + Cardinality({t \in Threads : actor[t].pc = "running" /\ actor[t].body = b})]
  /\ UNCHANGED <<stored, made, reused, ran, runs, decided>>

\* A variant that loads a thread without its pending requests.
LoadBare(t) ==
  /\ ~loaded[t]
  /\ loaded' = [loaded EXCEPT ![t] = TRUE]
  /\ UNCHANGED <<stored, live, policy, nextId, actor, request, faults, ids, history>>

\* ThreadSession::new takes the overlay from the file; the PolicyManager learns nothing.
Load(t) ==
  /\ ~loaded[t]
  /\ loaded' = [loaded EXCEPT ![t] = TRUE]
  /\ live' = [live EXCEPT ![t] = stored[t]]
  /\ UNCHANGED <<stored, policy, nextId, actor, request, faults, ids, history>>

-----------------------------------------------------------------------------

TurnStep(t) ==
  \/ StartTurn(t) \/ EndTurn(t) \/ MayAsk(t) \/ RecordRequest(t) \/ RefuseRequest(t)
  \/ InterruptTurn(t)
  \/ \E kind \in Kinds : Create(t, kind)
InterruptStep(t) ==
  \/ ClearOverlay(t) \/ CancelCommands(t) \/ CancelQuestions(t)
  \/ RecordInterrupt(t) \/ RefuseInterrupt(t)
RequestStep(c) ==
  \/ \E t \in Threads, k \in Keys, accept \in BOOLEAN : Submit(c, t, k, accept)
  \/ Restore(c) \/ Answer(c)
DecisionStep(t) ==
  \/ \E c \in Clients : TakeOp(t, c)
  \/ Take(t) \/ TakeNothing(t) \/ RunFails(t) \/ RecordDecision(t) \/ RefuseDecision(t)

Next ==
  \/ \E t \in Threads : TurnStep(t) \/ InterruptStep(t) \/ DecisionStep(t) \/ Load(t)
  \/ \E c \in Clients : RequestStep(c)
  \/ Restart

Spec == Init /\ [][Next]_vars

-----------------------------------------------------------------------------
(* Properties.                                                             *)

\* A decision runs the command its thread asked for, also when clients of two threads
\* restore and take in between: the ids of pending requests differ (new_approval_id, one
\* counter for all threads), unless the counter of a new process has given an id again.
RanAsAsked == ~reused => \A r \in ran : r.body = r.asked

\* An approved command runs once for every attempt that was not finished and recorded:
\* neither a second decision nor a late restore_command_approval runs it again.
RunsOnce == ~reused => \A b \in Bodies : runs[b] <= 1 + cut[b]

\* Once a decision is recorded its command does not start any more, whatever clients
\* restored meanwhile; a denied command never starts.
DecidedIsFinal == [][~reused => \A b \in decided : runs'[b] = runs[b]]_vars

\* A request that the file shows as pending can be decided: the overlay of an idle runtime
\* has it, over interrupts, refused records of requests and restarts.  The exception is what
\* clear_approval or an interrupt took out of the overlay before the storage refused the
\* record: that cannot be decided until the process starts again, when it can.
StoredIsLive ==
  \A t \in Threads : At(t, "idle") => DOMAIN stored[t] \subseteq DOMAIN live[t] \cup lost[t]

\* Without that exception: refuted, the decision is taken out of the overlay first.
StoredIsLiveAlways ==
  \A t \in Threads : At(t, "idle") => DOMAIN stored[t] \subseteq DOMAIN live[t]

\* RanAsAsked without its exception: refuted, by an id that a new process gives again.
RanAsAskedAlways == \A r \in ran : r.body = r.asked

\* "The Approval Inbox lists pending approvals from loaded runtimes": while no decision is
\* under way, the PolicyManager has what the overlay of a loaded runtime shows as pending.
\* Refuted: loading a thread after a restart does not fill the PolicyManager.
InboxLists ==
  \A t \in Threads :
    At(t, "idle") /\ (\A c \in Clients : request[c].pc = "idle")
      => {k \in DOMAIN live[t] : k[1] = "command"} \subseteq DOMAIN policy
=============================================================================
