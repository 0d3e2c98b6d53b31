--------------------------- MODULE RuntimeLoader ---------------------------
(***************************************************************************)
(* One workspace of the app server: which thread has a runtime             *)
(* (src/app_server/runtime_loader.rs), the requests that load runtimes and *)
(* submit operations to them (src/app_server/request_processors/), and the *)
(* checkpoint restore that must not meet them.                             *)
(*                                                                         *)
(* Requests run as tasks of their own (Clients); a runtime runs its        *)
(* submissions one at a time, and while it runs a turn it calls the loader *)
(* itself, to deliver mail to another agent, to spawn a child or to close  *)
(* one.  Of a runtime only what the loader and the gate depend on is kept: *)
(* the turn slot, the submissions and the mail; ThreadRuntime is the       *)
(* detailed model.  The channel has room for every request, and the        *)
(* outcome of storage, of validation and of the turn itself is not         *)
(* determined.                                                             *)
(***************************************************************************)
EXTENDS Integers, Sequences, FiniteSets

CONSTANTS Clients,      \* tasks that handle a request
          Threads,      \* threads of the workspace
          Root,         \* the root agent; the others are its children
          Nobody,       \* no task
          MaxRuntimes,  \* bound: runtimes spawned
          MaxRequests,  \* bound: requests begun
          MaxToolCalls, \* bound: deliveries and spawns by the tools of turns
          MaxCloses,    \* bound: children closed by the tools of turns
          MaxHangups    \* bound: requests whose client goes away

ASSUME RootAssumption == Root \in Threads
ASSUME NobodyAssumption == Nobody \notin Clients /\ Nobody \notin Nat
ASSUME ClientsAssumption == Clients \cap Nat = {}
ASSUME MaxRuntimesAssumption == MaxRuntimes \in Nat
ASSUME BoundsAssumption ==
  MaxRequests \in Nat /\ MaxToolCalls \in Nat /\ MaxCloses \in Nat /\ MaxHangups \in Nat

None == 0                       \* no runtime
Runtimes == 1 .. MaxRuntimes
Procs == Clients \cup Runtimes
Requests == {"Turn", "Decide", "Compact", "Load", "Fork", "Restore"}

\* gate: the sender held a WorkspaceRuntimeOpGuard, the submission carries one itself,
\* or the workspace gate was never asked.
Submissions == [op : {"UserInput", "Compaction", "Decision", "Shutdown"},
                for : Procs \cup {Nobody},
                gate : {"ungated", "passed", "carried"}]
NoSubmission == [op |-> "None", for |-> Nobody, gate |-> "ungated"]

VARIABLES
  loaded,     \* loaded_threads
  loadLock,   \* loading_threads: the holder of each thread's load lock
  opLock,     \* thread_operation_locks: the holder of each thread's operation lock
  restoring,  \* WorkspaceRestoreState.restoring has the workspace
  ops,        \* WorkspaceRestoreState.runtime_ops of the workspace
  spawned,    \* runtimes spawned so far
  of,         \* per runtime, its thread
  slot,       \* per runtime, TurnReservationState.active_turn
  queue,      \* per runtime, its op channel
  hand,       \* per runtime, the submission it is handling
  phase,      \* per runtime, where its loop is
  mail,       \* per runtime, the inbox holds mail that asks for a turn
  pc,         \* per task, where it is in its call
  kind,       \* per task, the call
  target,     \* per task, the thread the call names
  rt,         \* per task, the runtime it got from the loader
  holds,      \* the clients that hold a WorkspaceRuntimeOpGuard
  scan,       \* the runtimes a restore has yet to look at
  background, \* the runtimes with an approved command that runs on in an exec session
  requests, toolCalls, closes, hangups   \* how much of the bounds is used

loader == <<loaded, loadLock, spawned, of>>
gate == <<restoring, ops, holds, scan>>
runtimes == <<slot, queue, hand, phase, mail>>
tasks == <<pc, kind, target, rt>>
others == <<requests, toolCalls, closes, hangups, background>>
vars == <<loader, opLock, gate, runtimes, tasks, others>>

Init ==
  /\ loaded = [t \in Threads |-> None]
  /\ loadLock = [t \in Threads |-> Nobody] /\ opLock = [t \in Threads |-> Nobody]
  /\ restoring = FALSE /\ ops = 0 /\ holds = {} /\ scan = {}
  /\ spawned = 0 /\ of = [i \in Runtimes |-> Root]
  /\ slot = [i \in Runtimes |-> "free"] /\ queue = [i \in Runtimes |-> <<>>]
  /\ hand = [i \in Runtimes |-> NoSubmission] /\ phase = [i \in Runtimes |-> "recv"]
  /\ mail = [i \in Runtimes |-> FALSE]
  /\ pc = [p \in Procs |-> "idle"] /\ kind = [p \in Procs |-> "Load"]
  /\ target = [p \in Procs |-> Root] /\ rt = [p \in Procs |-> None]
  /\ requests = 0 /\ toolCalls = 0 /\ closes = 0 /\ hangups = 0
  /\ background = {}

Goto(p, where) == pc' = [pc EXCEPT ![p] = where]

\* A call returns: its workspace guard and its operation lock are dropped.
End(p) ==
  /\ Goto(p, "idle")
  /\ holds' = holds \ {p}
  /\ ops' = IF p \in holds THEN ops - 1 ELSE ops
  /\ opLock' = [t \in Threads |-> IF opLock[t] = p THEN Nobody ELSE opLock[t]]

-----------------------------------------------------------------------------
(* A request arrives; one that starts or forks a thread takes its          *)
(* operation lock first.                                                   *)

FirstStep == [k \in Requests |->
  CASE k \in {"Turn", "Fork"} -> "opLock"
    [] k = "Decide" -> "resolve"
    [] k = "Restore" -> "restore"
    [] OTHER -> "lookup"]

Begin(c) ==
  /\ pc[c] = "idle" /\ requests < MaxRequests
  /\ requests' = requests + 1
  /\ \E k \in Requests, t \in Threads :
       /\ kind' = [kind EXCEPT ![c] = k] /\ target' = [target EXCEPT ![c] = t]
       /\ Goto(c, FirstStep[k])
  /\ rt' = [rt EXCEPT ![c] = None]
  /\ UNCHANGED <<loader, opLock, gate, runtimes, toolCalls, closes, hangups, background>>

\* A variant that does not wait for the thread's other request.
TakeOpLockAnyway(c) ==
  /\ pc[c] = "opLock"
  /\ opLock' = [opLock EXCEPT ![target[c]] = c]
  /\ Goto(c, IF kind[c] = "Fork" THEN "forkCheck" ELSE "lookup")
  /\ UNCHANGED <<loader, gate, runtimes, kind, target, rt, others>>

\* begin_thread_runtime_op
TakeOpLock(c) ==
  /\ pc[c] = "opLock" /\ opLock[target[c]] = Nobody
  /\ opLock' = [opLock EXCEPT ![target[c]] = c]
  /\ Goto(c, IF kind[c] = "Fork" THEN "forkCheck" ELSE "lookup")
  /\ UNCHANGED <<loader, gate, runtimes, kind, target, rt, others>>

-----------------------------------------------------------------------------
(* ensure_runtime_loaded                                                   *)

AfterLookup(p) ==
  CASE kind[p] = "Turn" -> "gate"
    [] kind[p] \in {"Decide", "Compact"} -> "submit"
    [] kind[p] = "Deliver" -> "enqueue"
    [] OTHER -> "return"

\* The thread is in the map: the runtime there is the one to use.
Found(p) ==
  /\ loaded[target[p]] # None
  /\ rt' = [rt EXCEPT ![p] = loaded[target[p]]]
  /\ Goto(p, AfterLookup(p))

\* The look without the load lock.
Lookup(p) ==
  /\ pc[p] = "lookup"
  /\ \/ Found(p)
     \/ loaded[target[p]] = None /\ Goto(p, "loadLock") /\ UNCHANGED rt
  /\ UNCHANGED <<loader, opLock, gate, runtimes, kind, target, others>>

TakeLoadLock(p) ==
  /\ pc[p] = "loadLock" /\ loadLock[target[p]] = Nobody
  /\ loadLock' = [loadLock EXCEPT ![target[p]] = p]
  /\ Goto(p, "recheck")
  /\ UNCHANGED <<loaded, spawned, of, opLock, gate, runtimes, kind, target, rt, others>>

DropLoadLock(p) == loadLock' = [loadLock EXCEPT ![target[p]] = Nobody]

\* The look with the load lock: somebody else may have loaded the thread meanwhile.
Recheck(p) ==
  /\ pc[p] = "recheck" /\ Found(p)
  /\ DropLoadLock(p)
  /\ UNCHANGED <<loaded, spawned, of, opLock, gate, runtimes, kind, target, others>>

\* A variant that spawns without the second look.
SpawnUnchecked(p) ==
  /\ pc[p] = "recheck"
  /\ spawned < MaxRuntimes
  /\ spawned' = spawned + 1
  /\ of' = [of EXCEPT ![spawned + 1] = target[p]]
  /\ rt' = [rt EXCEPT ![p] = spawned + 1]
  /\ Goto(p, "insert")
  /\ UNCHANGED <<loaded, loadLock, opLock, gate, runtimes, kind, target, others>>

\* Still not in the map: ThreadRuntime::spawn reads the rollout and starts the loop.
Spawn(p) ==
  /\ pc[p] = "recheck" /\ loaded[target[p]] = None
  /\ spawned < MaxRuntimes
  /\ spawned' = spawned + 1
  /\ of' = [of EXCEPT ![spawned + 1] = target[p]]
  /\ rt' = [rt EXCEPT ![p] = spawned + 1]
  /\ Goto(p, "insert")
  /\ UNCHANGED <<loaded, loadLock, opLock, gate, runtimes, kind, target, others>>

\* The control or the rollout cannot be had: nothing is inserted, the request fails.
SpawnFails(p) ==
  /\ pc[p] = "recheck" /\ loaded[target[p]] = None
  /\ DropLoadLock(p) /\ End(p)
  /\ UNCHANGED <<loaded, spawned, of, restoring, scan, runtimes, kind, target, rt, others>>

Insert(p) ==
  /\ pc[p] = "insert"
  /\ loaded' = [loaded EXCEPT ![target[p]] = rt[p]]
  /\ DropLoadLock(p)
  /\ Goto(p, AfterLookup(p))
  /\ UNCHANGED <<spawned, of, opLock, gate, runtimes, kind, target, rt, others>>

\* thread/start, thread/resume and events/subscribe want the runtime and nothing else.
Return(p) ==
  /\ pc[p] = "return" /\ End(p)
  /\ UNCHANGED <<loader, restoring, scan, runtimes, kind, target, rt, others>>

-----------------------------------------------------------------------------
(* Submitting to a runtime under the workspace gate.                       *)

\* An approval decision or a user-input answer looks for the runtime first, and loads
\* the thread only under the gate and for an approval that storage still has pending.
Resolve(c) ==
  /\ pc[c] = "resolve"
  /\ \/ /\ rt' = [rt EXCEPT ![c] = loaded[target[c]]]
        /\ Goto(c, "gate")
        /\ UNCHANGED <<opLock, ops, holds>>
     \/ loaded[target[c]] = None /\ End(c) /\ UNCHANGED rt
  /\ UNCHANGED <<loader, restoring, scan, runtimes, kind, target, others>>

Enter(c) ==
  /\ ops' = ops + 1 /\ holds' = holds \cup {c}
  /\ Goto(c, IF kind[c] = "Decide" /\ rt[c] = None THEN "lookup" ELSE "submit")
  /\ UNCHANGED opLock

\* A variant of begin_workspace_runtime_op that does not look for a restore.
GateOpen(c) ==
  /\ pc[c] = "gate" /\ Enter(c)
  /\ UNCHANGED <<loader, restoring, scan, runtimes, kind, target, rt, others>>

\* begin_workspace_runtime_op
Gate(c) ==
  /\ pc[c] = "gate"
  /\ IF restoring THEN End(c) ELSE Enter(c)
  /\ UNCHANGED <<loader, restoring, scan, runtimes, kind, target, rt, others>>

Append1(i, s) == queue' = [queue EXCEPT ![i] = Append(@, s)]

\* The reservation succeeds and the submission that frees it is sent.
ReserveAndSend(i, what, s) ==
  /\ slot[i] = "free"
  /\ slot' = [slot EXCEPT ![i] = what]
  /\ Append1(i, s)

Sent(p) ==
  \/ /\ kind[p] = "Turn"
     /\ ReserveAndSend(rt[p], "turn", [op |-> "UserInput", for |-> p, gate |-> "passed"])
     /\ Goto(p, "waitStart")
  \/ /\ kind[p] = "Deliver"
     /\ ReserveAndSend(rt[p], "turn", [op |-> "UserInput", for |-> p, gate |-> "ungated"])
     /\ Goto(p, "waitStart")
  \/ /\ kind[p] = "Compact"
     /\ ReserveAndSend(rt[p], "compaction",
                       [op |-> "Compaction", for |-> p, gate |-> "ungated"])
     /\ Goto(p, "waitDone")
  \/ /\ kind[p] = "Decide"
     /\ Append1(rt[p], [op |-> "Decision", for |-> p, gate |-> "passed"])
     /\ Goto(p, "waitDone") /\ UNCHANGED slot

\* The request gets a permit of the channel, or fails: the runtime has stopped, or the
\* context, the answers or the approval are not valid.
Submit(p) ==
  /\ pc[p] = "submit"
  /\ \/ phase[rt[p]] # "stopped" /\ Goto(p, "send") /\ UNCHANGED <<opLock, ops, holds>>
     \/ End(p)
  /\ UNCHANGED <<loader, restoring, scan, runtimes, kind, target, rt, others>>

\* With the permit the slot is reserved and the submission sent, unless the thread is busy.
\* The runtime may have stopped meanwhile: then the submission stays where nobody takes it.
Send(p) ==
  /\ pc[p] = "send"
  /\ \/ Sent(p) /\ UNCHANGED <<opLock, ops, holds>>
     \/ kind[p] # "Decide" /\ slot[rt[p]] # "free" /\ End(p) /\ UNCHANGED <<slot, queue>>
  /\ UNCHANGED <<loader, restoring, scan, hand, phase, mail, kind, target, rt, others>>

Queued(p) == \E k \in 1 .. Len(queue[rt[p]]) : queue[rt[p]][k].for = p

\* The turn has started or will not start; the operation has completed or never will.
Answered(p) ==
  \/ pc[p] = "waitStart" /\ ~Queued(p)
  \/ pc[p] = "waitDone" /\ ~Queued(p) /\ hand[rt[p]].for # p

Wake(p) ==
  /\ Answered(p) /\ End(p)
  /\ UNCHANGED <<loader, restoring, scan, runtimes, kind, target, rt, others>>

\* The client goes away, or the turn is interrupted during the call of its tool: the
\* task is dropped where it waits, with what it holds, and nobody waits any more for
\* what it submitted.
Disown(p, s) == IF s.for = p THEN [s EXCEPT !.for = Nobody] ELSE s

Hangup(p) ==
  /\ hangups < MaxHangups
  /\ pc[p] \in {"opLock", "submit", "waitStart", "waitDone"}
  /\ p \in Runtimes => phase[p] = "working"
  /\ hangups' = hangups + 1
  /\ queue' = [i \in Runtimes |-> [k \in DOMAIN queue[i] |-> Disown(p, queue[i][k])]]
  /\ hand' = [i \in Runtimes |-> Disown(p, hand[i])]
  /\ End(p)
  /\ UNCHANGED <<loader, restoring, scan, slot, phase, mail, kind, target, rt,
                 requests, toolCalls, closes, background>>

-----------------------------------------------------------------------------
(* thread_fork: the parent must have no active turn when its history is    *)
(* read.                                                                   *)

Active(i) == slot[i] = "turn"
ActiveTurn(t) == loaded[t] # None /\ Active(loaded[t])

ForkCheck(c) ==
  /\ pc[c] = "forkCheck"
  /\ IF ActiveTurn(target[c])
     THEN End(c)
     ELSE Goto(c, "copying") /\ UNCHANGED <<opLock, ops, holds>>
  /\ UNCHANGED <<loader, restoring, scan, runtimes, kind, target, rt, others>>

Copied(c) ==
  /\ pc[c] = "copying" /\ End(c)
  /\ UNCHANGED <<loader, restoring, scan, runtimes, kind, target, rt, others>>

-----------------------------------------------------------------------------
(* checkpoint_restore                                                      *)

\* A variant that does not look for operations under way.
BeginRestoreAnyway(c) ==
  /\ pc[c] = "restore"
  /\ IF restoring
     THEN End(c) /\ UNCHANGED restoring
     ELSE restoring' = TRUE /\ Goto(c, "list") /\ UNCHANGED <<opLock, ops, holds>>
  /\ UNCHANGED <<loader, scan, runtimes, kind, target, rt, others>>

BeginRestore(c) ==
  /\ pc[c] = "restore"
  /\ IF restoring \/ ops > 0
     THEN End(c) /\ UNCHANGED restoring
     ELSE restoring' = TRUE /\ Goto(c, "list") /\ UNCHANGED <<opLock, ops, holds>>
  /\ UNCHANGED <<loader, scan, runtimes, kind, target, rt, others>>

\* active_turn_in_workspace copies the map under its lock ...
List(c) ==
  /\ pc[c] = "list"
  /\ scan' = {loaded[t] : t \in Threads} \ {None}
  /\ Goto(c, "scan")
  /\ UNCHANGED <<loader, opLock, restoring, ops, holds, runtimes, kind, target, rt, others>>

\* ... and then asks one runtime after the other.
Look(c) ==
  /\ pc[c] = "scan"
  /\ \E i \in scan :
       IF Active(i)
       THEN scan' = {} /\ restoring' = FALSE /\ End(c)
       ELSE scan' = scan \ {i} /\ UNCHANGED <<pc, opLock, restoring, ops, holds>>
  /\ UNCHANGED <<loader, runtimes, kind, target, rt, others>>

StartWriting(c) ==
  /\ pc[c] = "scan" /\ scan = {}
  /\ Goto(c, "writing")
  /\ UNCHANGED <<loader, opLock, gate, runtimes, kind, target, rt, others>>

\* restore_checkpoint has returned: the guard is dropped.
EndRestore(c) ==
  /\ pc[c] = "writing" /\ restoring' = FALSE /\ End(c)
  /\ UNCHANGED <<loader, scan, runtimes, kind, target, rt, others>>

-----------------------------------------------------------------------------
(* A runtime's loop.                                                       *)

Proceed(i, where) == phase' = [phase EXCEPT ![i] = where]
PutDown(i) == hand' = [hand EXCEPT ![i] = NoSubmission]

\* The loop takes up a submission; a turn begins by draining the inbox.
Take(i) ==
  /\ phase[i] = "recv" /\ queue[i] # <<>> /\ Head(queue[i]).op # "Shutdown"
  /\ hand' = [hand EXCEPT ![i] = Head(queue[i])]
  /\ queue' = [queue EXCEPT ![i] = Tail(@)]
  /\ Proceed(i, "working")
  /\ mail' = [mail EXCEPT ![i] = @ /\ Head(queue[i]).op # "UserInput"]
  /\ UNCHANGED <<loader, opLock, gate, slot, tasks, others>>

Carried(i) == {k \in 1 .. Len(queue[i]) : queue[i][k].gate = "carried"}

\* Shutdown: the loop ends and what is still on the channel is dropped, guards and all.
Stop(i) ==
  /\ phase[i] = "recv" /\ queue[i] # <<>> /\ Head(queue[i]).op = "Shutdown"
  /\ Proceed(i, "stopped")
  /\ queue' = [queue EXCEPT ![i] = <<>>]
  /\ slot' = [slot EXCEPT ![i] = "free"]
  /\ ops' = ops - Cardinality(Carried(i))
  /\ UNCHANGED <<loader, opLock, restoring, holds, scan, hand, mail, tasks, others>>

Turning(i) == phase[i] = "working" /\ hand[i].op = "UserInput" /\ pc[i] = "idle"

StartCall(i, k, t, where) ==
  /\ kind' = [kind EXCEPT ![i] = k] /\ target' = [target EXCEPT ![i] = t]
  /\ rt' = [rt EXCEPT ![i] = None]
  /\ Goto(i, where)

\* A tool of the turn sends mail that asks for a turn of another agent.
CallTool(i) ==
  /\ Turning(i) /\ toolCalls < MaxToolCalls
  /\ toolCalls' = toolCalls + 1
  /\ \E t \in Threads \ {of[i]} : StartCall(i, "Deliver", t, "lookup")
  /\ UNCHANGED <<loader, opLock, gate, runtimes, requests, closes, hangups, background>>

\* deliver_inter_agent_message: the mail is in the inbox before anything else.
Enqueue(i) ==
  /\ pc[i] = "enqueue"
  /\ mail' = [mail EXCEPT ![rt[i]] = TRUE]
  /\ Goto(i, "followup")
  /\ UNCHANGED <<loader, opLock, gate, slot, queue, hand, phase, kind, target, rt, others>>

\* A variant that waits for the turn of a busy thread to end.
FollowupWaits(i) ==
  /\ pc[i] = "followup"
  /\ \/ /\ slot[rt[i]] = "free" /\ phase[rt[i]] # "stopped"
        /\ Goto(i, "send") /\ UNCHANGED <<opLock, ops, holds>>
     \/ phase[rt[i]] = "stopped" /\ End(i)
  /\ UNCHANGED <<loader, restoring, scan, runtimes, kind, target, rt, others>>

\* The turn that should read it starts at once, unless the thread is busy or stopped.
\* No operation lock and no workspace gate here.
Followup(i) ==
  /\ pc[i] = "followup"
  /\ \/ /\ slot[rt[i]] # "turn" /\ phase[rt[i]] # "stopped"
        /\ Goto(i, "send") /\ UNCHANGED <<opLock, ops, holds>>
     \/ (slot[rt[i]] = "turn" \/ phase[rt[i]] = "stopped") /\ End(i)
  /\ UNCHANGED <<loader, restoring, scan, runtimes, kind, target, rt, others>>

\* A tool of the root's turn closes a child.
CloseChild(i) ==
  /\ Turning(i) /\ of[i] = Root /\ closes < MaxCloses
  /\ closes' = closes + 1
  /\ \E t \in Threads \ {Root} : StartCall(i, "Close", t, "remove")
  /\ UNCHANGED <<loader, opLock, gate, runtimes, requests, toolCalls, hangups, background>>

\* A variant of shutdown_and_remove that leaves the runtime in the map.
RemoveLate(i) ==
  /\ pc[i] = "remove"
  /\ \/ /\ loaded[target[i]] # None
        /\ rt' = [rt EXCEPT ![i] = loaded[target[i]]]
        /\ Goto(i, "stop")
        /\ UNCHANGED <<loaded, opLock, ops, holds>>
     \/ loaded[target[i]] = None /\ End(i) /\ UNCHANGED <<loaded, rt>>
  /\ UNCHANGED <<loadLock, spawned, of, restoring, scan, runtimes, kind, target, others>>

\* shutdown_and_remove takes the runtime out of the map first ...
Remove(i) ==
  /\ pc[i] = "remove"
  /\ \/ /\ loaded[target[i]] # None
        /\ rt' = [rt EXCEPT ![i] = loaded[target[i]]]
        /\ loaded' = [loaded EXCEPT ![target[i]] = None]
        /\ Goto(i, "stop")
        /\ UNCHANGED <<opLock, ops, holds>>
     \/ loaded[target[i]] = None /\ End(i) /\ UNCHANGED <<loaded, rt>>
  /\ UNCHANGED <<loadLock, spawned, of, restoring, scan, runtimes, kind, target, others>>

\* ... and then queues the shutdown behind whatever the runtime is doing.
SendStop(i) ==
  /\ pc[i] = "stop"
  /\ Append1(rt[i], [op |-> "Shutdown", for |-> i, gate |-> "ungated"])
  /\ Goto(i, "waitDone")
  /\ UNCHANGED <<loader, opLock, gate, slot, hand, phase, mail, kind, target, rt, others>>

\* Mail that arrives during a turn is read before the next request to the model.
DrainInbox(i) ==
  /\ Turning(i) /\ mail[i]
  /\ mail' = [mail EXCEPT ![i] = FALSE]
  /\ UNCHANGED <<loader, opLock, gate, slot, queue, hand, phase, tasks, others>>

\* The turn has its terminal event; a child then tells the root, with the slot still
\* taken, unless the turn waits for an approval.
EndTurn(i) ==
  /\ Turning(i)
  /\ Proceed(i, "ending")
  /\ \/ of[i] # Root /\ StartCall(i, "Deliver", Root, "lookup")
     \/ UNCHANGED tasks
  /\ UNCHANGED <<loader, opLock, gate, slot, queue, hand, mail, others>>

\* The slot is freed and the guard that came with the turn is dropped.
ReleaseTurn(i) ==
  /\ phase[i] = "ending" /\ pc[i] = "idle"
  /\ slot' = [slot EXCEPT ![i] = "free"]
  /\ ops' = IF hand[i].gate = "carried" THEN ops - 1 ELSE ops
  /\ PutDown(i) /\ Proceed(i, "mail")
  /\ UNCHANGED <<loader, opLock, restoring, holds, scan, queue, mail, tasks, others>>

\* A compaction or an approval decision is done; the command a decision lets run has ended,
\* or is a persistent one that was started and goes on.
FinishOther(i) ==
  /\ phase[i] = "working" /\ hand[i].op \in {"Compaction", "Decision"}
  /\ slot' = IF hand[i].op = "Compaction" THEN [slot EXCEPT ![i] = "free"] ELSE slot
  /\ \/ UNCHANGED background
     \/ hand[i].op = "Decision" /\ background' = background \cup {i}
  /\ PutDown(i) /\ Proceed(i, "mail")
  /\ UNCHANGED <<loader, opLock, gate, queue, mail, tasks, requests, toolCalls, closes, hangups>>

\* A persistent command ends, by itself or with its runtime.
CommandEnds(i) ==
  /\ i \in background /\ background' = background \ {i}
  /\ UNCHANGED <<loader, opLock, gate, runtimes, tasks, requests, toolCalls, closes, hangups>>

\* maybe_start_turn_for_pending_mail: with nothing queued, no turn and mail that asks
\* for one, a turn is reserved under the gate, whose guard the submission carries.  (A
\* goal continuation passes the gate in the same way, on its own condition.)
CheckMail(i) ==
  /\ phase[i] = "mail"
  /\ Proceed(i, "recv")
  /\ IF queue[i] = <<>> /\ slot[i] = "free" /\ mail[i] /\ ~restoring
     THEN /\ ReserveAndSend(i, "turn",
                            [op |-> "UserInput", for |-> Nobody, gate |-> "carried"])
          /\ ops' = ops + 1
     ELSE UNCHANGED <<slot, queue, ops>>
  /\ UNCHANGED <<loader, opLock, restoring, holds, scan, hand, mail, tasks, others>>

-----------------------------------------------------------------------------
TaskStep(p) ==
  \/ Lookup(p) \/ TakeLoadLock(p) \/ Recheck(p) \/ Spawn(p) \/ SpawnFails(p)
  \/ Insert(p) \/ Return(p) \/ Submit(p) \/ Send(p) \/ Wake(p)

RequestStep(c) ==
  \/ TakeOpLock(c) \/ Resolve(c) \/ Gate(c) \/ ForkCheck(c) \/ Copied(c)
  \/ BeginRestore(c) \/ List(c) \/ Look(c) \/ StartWriting(c) \/ EndRestore(c)

ToolStep(i) == Enqueue(i) \/ Followup(i) \/ Remove(i) \/ SendStop(i)

LoopStep(i) ==
  \/ Take(i) \/ Stop(i) \/ EndTurn(i) \/ ReleaseTurn(i) \/ FinishOther(i) \/ CheckMail(i)

Next ==
  \/ \E c \in Clients : Begin(c) \/ RequestStep(c)
  \/ \E p \in Procs : TaskStep(p) \/ Hangup(p)
  \/ \E i \in Runtimes : ToolStep(i) \/ LoopStep(i) \/ CallTool(i) \/ CloseChild(i)
                         \/ DrainInbox(i) \/ CommandEnds(i)

Spec == Init /\ [][Next]_vars

\* Every task that can go on does, and so does every loop; turns end.
Fairness ==
  /\ \A c \in Clients : WF_vars(RequestStep(c))
  /\ \A p \in Procs : WF_vars(TaskStep(p))
  /\ \A i \in Runtimes : WF_vars(ToolStep(i)) /\ WF_vars(LoopStep(i))

FairSpec == Spec /\ Fairness

-----------------------------------------------------------------------------
TaskSteps == {"idle", "opLock", "resolve", "restore", "lookup", "loadLock", "recheck",
              "insert", "gate", "submit", "send", "waitStart", "waitDone", "return", "forkCheck",
              "copying", "list", "scan", "writing", "enqueue", "followup", "remove", "stop"}

(* The shape of the state: the tables of the loader, the guards, the       *)
(* runtimes and the tasks (runtime_loader.rs:47-62).                       *)
TypeOK ==
  /\ loaded \in [Threads -> {None} \cup Runtimes]
  /\ loadLock \in [Threads -> Procs \cup {Nobody}]
  /\ opLock \in [Threads -> Clients \cup {Nobody}]
  /\ restoring \in BOOLEAN /\ ops \in Nat /\ holds \subseteq Clients /\ scan \subseteq Runtimes
  /\ spawned \in 0 .. MaxRuntimes /\ of \in [Runtimes -> Threads]
  /\ slot \in [Runtimes -> {"free", "turn", "compaction"}]
  /\ queue \in [Runtimes -> Seq(Submissions)]
  /\ hand \in [Runtimes -> Submissions \cup {NoSubmission}]
  /\ phase \in [Runtimes -> {"recv", "working", "ending", "mail", "stopped"}]
  /\ mail \in [Runtimes -> BOOLEAN]
  /\ pc \in [Procs -> TaskSteps]
  /\ kind \in [Procs -> Requests \cup {"Deliver", "Close"}]
  /\ target \in [Procs -> Threads] /\ rt \in [Procs -> {None} \cup Runtimes]
  /\ requests \in 0 .. MaxRequests /\ toolCalls \in 0 .. MaxToolCalls
  /\ closes \in 0 .. MaxCloses /\ hangups \in 0 .. MaxHangups
  /\ background \subseteq Runtimes

(* runtime_ops is the number of guards alive, those of requests and those  *)
(* that travel with a mail turn: one lost would refuse every restore for   *)
(* the life of the process, one dropped twice would let a restore start    *)
(* during a decision (runtime_loader.rs:388-403).                          *)
GuardsCounted ==
  ops = Cardinality(holds)
        + Cardinality({i \in Runtimes : hand[i].gate = "carried" \/ Carried(i) # {}})

(* However many requests race to load a thread, and whichever path they    *)
(* take, one runtime is spawned for it, so one rollout has one writer      *)
(* (runtime_loader.rs:154-213).  It holds while nothing closes the thread. *)
Live(i) == i <= spawned /\ phase[i] # "stopped"
OneRuntimePerThread ==
  closes = 0 => \A i, j \in Runtimes : Live(i) /\ Live(j) /\ of[i] = of[j] => i = j

(* A runtime in the map has never been asked to stop, so that whoever      *)
(* finds it there can submit to it (runtime_loader.rs:91-105).             *)
LoadedIsLive ==
  \A t \in Threads : loaded[t] # None =>
    /\ of[loaded[t]] = t /\ Live(loaded[t])
    /\ \A k \in 1 .. Len(queue[loaded[t]]) : queue[loaded[t]][k].op # "Shutdown"

Gated(i) == {s \in {hand[i]} \cup {queue[i][k] : k \in 1 .. Len(queue[i])} : s.gate # "ungated"}
Writing == \E c \in Clients : pc[c] = "writing"

(* While a restore writes the files of the workspace, no turn that came    *)
(* through the gate is queued or running in a loaded runtime, although the *)
(* guard of a client's turn is dropped as soon as the turn has started     *)
(* (turn_processor.rs:86-102, runtime_loader.rs:304-351).                  *)
RestoreSeesGatedTurns ==
  Writing => \A t \in Threads : loaded[t] # None =>
               \A s \in Gated(loaded[t]) : s.op # "UserInput"

(* An approval decision that is queued or handled, with the command it     *)
(* runs to its end, never overlaps a restore: it holds its guard until it  *)
(* is answered (turn_processor.rs:219-233).  It holds while no client      *)
(* hangs up, which would drop the guard and leave the command running, and *)
(* says nothing of a persistent command, which the decision only starts.   *)
DecisionsExcludeRestore ==
  Writing /\ hangups = 0 => \A i \in Runtimes : \A s \in Gated(i) : s.op # "Decision"

(* No command that an approval let run overlaps a restore.  Refuted: a     *)
(* persistent one runs on in its exec session when the decision is         *)
(* answered and its guard dropped (run_command.rs:208-234), and the        *)
(* restore asks for turns and guards only.                                 *)
CommandsExcludeRestore == Writing /\ hangups = 0 => background = {}

(* While a fork copies the history of a thread, no client's turn of the    *)
(* thread is under way in its runtime: the operation lock keeps a turn     *)
(* from starting between the check and the read (fork_processor.rs:20-47). *)
ForkSeesNoClientTurn ==
  \A c \in Clients : pc[c] = "copying" /\ loaded[target[c]] # None =>
    \A s \in Gated(loaded[target[c]]) : ~(s.op = "UserInput" /\ s.gate = "passed")

(* "Only one active turn is allowed per loaded thread in one app-server    *)
(* process" (docs/protocol/app-server-boundary-v2.md:650).                 *)
OneActiveTurnPerThread ==
  \A i, j \in Runtimes : Active(i) /\ Active(j) /\ of[i] = of[j] => i = j

(* "Restore is rejected as an invalid request if any loaded runtime in the *)
(* target workspace has an active turn [...] The check is conservative     *)
(* across all loaded runtimes" (docs/protocol/app-server-boundary-v2.md:   *)
(* 545-547): a restore that goes on to write met no active turn.  Refuted:  *)
(* a delivery starts a turn where the scan has already looked.             *)
RestoreStartsQuiet ==
  [][\A c \in Clients : pc[c] = "scan" /\ pc'[c] = "writing" =>
       \A t \in Threads : ~ActiveTurn(t)]_vars

(* A submission whose sender had a permit of the channel when the runtime  *)
(* stopped lies there for ever: Stop drops all that was sent before.       *)
Abandoned == \E i \in Runtimes : phase[i] = "stopped" /\ queue[i] # <<>>

(* Every request ends, whatever mixture of load locks, operation locks,    *)
(* guards and waits on other runtimes it meets (turn_processor.rs:63-151), *)
(* and also when the runtime it waits on is closed, unless a submission is *)
(* abandoned, with the operation lock and the guard of its sender.         *)
RequestsEnd == \A c \in Clients : pc[c] # "idle" ~> pc[c] = "idle" \/ Abandoned

(* "Returns after the turn is accepted, not after completion" (docs/       *)
(* protocol/app-server-boundary-v2.md:73).  Refuted: a turn start on a     *)
(* child that is being closed may never return (facade.rs:289-316).        *)
TurnStartReturns ==
  \A c \in Clients : pc[c] # "idle" /\ kind[c] = "Turn" ~> pc[c] = "idle"
=============================================================================
