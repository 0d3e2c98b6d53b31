---------------------------- MODULE WorkbenchStore ----------------------------
(* The desktop client's session: workbenchStore.ts opens a thread (resume,     *)
(* subscribe, replay, agent tree), shows its events live, and opens agents of  *)
(* the session in a viewer of its own, while the user changes his mind at any  *)
(* moment; the desktop shell forwards the events of the threads subscribed to. *)
(* Every call to the shell is served and answered in steps of their own, so a  *)
(* late answer meets whatever the user has done since.                         *)
(*                                                                             *)
(* One window and one project.  An event stands for what it shows: a message   *)
(* of the transcript.  The fields folded over the same events (active turn,    *)
(* goal, token usage, agents, inspector) are left out.                         *)
EXTENDS Naturals, FiniteSets, Sequences, SequencesExt

CONSTANTS
  Threads,     \* threads of the project: sessions and agents alike
  NoThread,    \* activeSessionId when it is null
  MaxEvents,   \* bound: runtime events of a thread
  MaxOpens,    \* bound: calls of openSession and openAgentThread
  MaxFaults,   \* bound: calls that the shell refuses
  MaxCompacts  \* bound: calls of compactActiveThread

ASSUME StoreAssumption ==
  /\ IsFiniteSet(Threads) /\ NoThread \notin Threads
  /\ {MaxEvents, MaxOpens, MaxFaults, MaxCompacts} \subseteq Nat

VARIABLES
  log,         \* [Threads -> Nat]: events each thread has emitted
  task,        \* the task that forwards events to the window, or NoTask
  unsubs,      \* [Threads -> Nat]: events_unsubscribe calls under way
  opens,       \* Seq(Open): the calls of openSession and openAgentThread
  session,     \* the open with the newest generation of a session, or None
  active,      \* activeSessionId
  transcript,  \* transcript: sequence of events
  applied,     \* appliedRuntimeEventIds
  unlisten,    \* eventUnlisten: the open whose cleanup it is, or None
  viewer,      \* the open with the newest generation of a viewer, or None
  agentView,   \* selectedAgentView.transcript
  agentIds,    \* selectedAgentAppliedEventIds
  agentOff,    \* selectedAgentUnlisten: the open whose cleanup it is, or None
  compacts,    \* Seq of the calls of compactActiveThread
  faults       \* calls refused so far

shell  == <<log, task, unsubs>>
screen == <<active, transcript, applied, session, unlisten>>
agent  == <<viewer, agentView, agentIds, agentOff>>
vars   == <<shell, opens, screen, agent, compacts, faults>>

None   == 0
NoTask == [thread |-> NoThread, at |-> 0, by |-> None, lagged |-> FALSE]
EventsOf(t, m, n) == [i \in 1..(n - m) |-> <<t, m + i>>]   \* events m+1 to n of t
Upto(t, n) == EventsOf(t, 0, n)

(* The awaits of openSession and openAgentThread, in order; "over" is an open  *)
(* that was superseded or failed.                                              *)
Calls == {"reading", "subscribing", "replaying"}
Stages == Calls \cup {"read", "subscribed", "replayed", "tree", "open", "over"}

NewOpen(kind, t) ==
  [kind |-> kind, thread |-> t, pc |-> "reading", got |-> 0, view |-> 0,
   since |-> 0, buffer |-> <<>>, queue |-> <<>>, ear |-> FALSE]

Over(open) == [NewOpen(open.kind, open.thread) EXCEPT !.pc = "over"]

Init ==
  /\ log = [t \in Threads |-> 0] /\ task = NoTask /\ unsubs = [t \in Threads |-> 0]
  /\ opens = <<>> /\ session = None /\ active = NoThread
  /\ transcript = <<>> /\ applied = {} /\ unlisten = None
  /\ viewer = None /\ agentView = <<>> /\ agentIds = {} /\ agentOff = None
  /\ compacts = <<>> /\ faults = 0

-----------------------------------------------------------------------------
(* Showing events                                                              *)

\* A variant in which any open counts as current while some session is shown.
CurrentAnyway(o) == active # NoThread \/ viewer = o

(* isCurrentOpen: the generation is the newest, and its thread the one shown.  *)
Current(o) ==
  IF opens[o].kind = "session" THEN session = o /\ active = opens[o].thread
                               ELSE viewer = o

(* What is appended: events neither known by id nor on the screen already, in  *)
(* the order they came; the kth of them is the one with k places kept up to it.*)
Kept(shown, known, events) ==
  {i \in DOMAIN events : events[i] \notin known /\ ~Contains(shown, events[i])}

Picked(events, kept) ==
  [k \in 1..Cardinality(kept) |->
    events[CHOOSE i \in kept : Cardinality({j \in kept : j <= i}) = k]]

Fresh(shown, known, events) == Picked(events, Kept(shown, known, events))

Show(shown, known, events) == shown \o Fresh(shown, known, events)

(* cleanupUnlisten of the opens os: pending frames are cancelled; a listener   *)
(* that was handed over is removed, and the shell is told without waiting.     *)
Held(os) == {o \in os \ {None} : opens[o].ear /\ opens[o].pc \notin {"subscribing", "subscribed"}}
Told(os) == [t \in Threads |-> unsubs[t] + Cardinality({o \in os : opens[o].thread = t})]
\* A variant in which the frames of every open are cancelled.
QuietedAll(os, held) ==
  [o \in DOMAIN opens |-> [opens[o] EXCEPT !.queue = <<>>, !.ear = @ /\ o \notin held]]

Quieted(os, held) ==
  [o \in DOMAIN opens |->
    [opens[o] EXCEPT !.queue = IF o \in os THEN <<>> ELSE @, !.ear = @ /\ o \notin held]]

Cleanup(os) == unsubs' = Told(Held(os)) /\ opens' = Quieted(os, Held(os))

-----------------------------------------------------------------------------
(* The user                                                                    *)

(* resetSelectedAgentThread                                                    *)
ResetViewer == viewer' = None /\ agentView' = <<>> /\ agentIds' = {} /\ agentOff' = None

(* openSession up to its first await: the transcript of the thread that was    *)
(* shown stays until the new one has been read.                                *)
OpenSession(t) ==
  /\ Len(opens) < MaxOpens
  /\ LET os == {unlisten, agentOff} IN
     /\ unsubs' = Told(Held(os))
     /\ opens' = Append(Quieted(os, Held(os)), NewOpen("session", t))
  /\ session' = Len(opens) + 1 /\ active' = t /\ applied' = {} /\ unlisten' = None
  /\ ResetViewer
  /\ UNCHANGED <<log, task, transcript, compacts, faults>>

(* startSession in the active project: an empty screen.                        *)
StartSession ==
  /\ Cleanup({unlisten, agentOff})
  /\ session' = None /\ active' = NoThread /\ transcript' = <<>> /\ applied' = {}
  /\ unlisten' = None /\ ResetViewer
  /\ UNCHANGED <<log, task, compacts, faults>>

(* archiveSession of the active thread: the listener and the generation stay.  *)
ArchiveSession ==
  /\ active # NoThread
  /\ Cleanup({agentOff})
  /\ active' = NoThread /\ transcript' = <<>> /\ applied' = {} /\ ResetViewer
  /\ UNCHANGED <<log, task, session, unlisten, compacts, faults>>

OpenAgentThread(t) ==
  /\ active # NoThread /\ t # active /\ Len(opens) < MaxOpens
  /\ unsubs' = Told(Held({agentOff}))
  /\ opens' = Append(Quieted({agentOff}, Held({agentOff})), NewOpen("viewer", t))
  /\ viewer' = Len(opens) + 1 /\ agentView' = <<>> /\ agentIds' = {} /\ agentOff' = None
  /\ UNCHANGED <<log, task, screen, compacts, faults>>

CloseAgentThread ==
  /\ viewer # None
  /\ Cleanup({agentOff}) /\ ResetViewer
  /\ UNCHANGED <<log, task, screen, compacts, faults>>

(* compactActiveThread: the compaction and the replay after it are one call    *)
(* here; what the replay holds is fixed when it is served.                     *)
CompactActiveThread ==
  /\ active # NoThread /\ Len(compacts) < MaxCompacts
  /\ compacts' = Append(compacts, [thread |-> active, got |-> 0, pc |-> "replaying"])
  /\ UNCHANGED <<shell, opens, screen, agent, faults>>

-----------------------------------------------------------------------------
(* The shell and the runtimes                                                  *)

(* A runtime records an event of its thread.                                   *)
Emit(t) ==
  /\ log[t] < MaxEvents
  /\ log' = [log EXCEPT ![t] = @ + 1]
  /\ UNCHANGED <<task, unsubs, opens, screen, agent, compacts, faults>>

(* thread_resume and thread_read answer with the view, events_replay with the  *)
(* events, of the moment; events_subscribe starts a task from that moment on   *)
(* and aborts every other task of the window and the project (the shell does   *)
(* the two one after the other; here they are one step).                       *)
Serve(o) ==
  /\ opens[o].pc \in Calls
  /\ LET t == opens[o].thread IN
     \/ /\ opens[o].pc # "subscribing"
        /\ opens' = [opens EXCEPT
             ![o].pc = IF @ = "reading" THEN "read" ELSE "replayed", ![o].got = log[t]]
        /\ UNCHANGED task
     \/ /\ opens[o].pc = "subscribing"
        /\ task' = [thread |-> t, at |-> log[t], by |-> o, lagged |-> FALSE]
        /\ opens' = [opens EXCEPT ![o].pc = "subscribed"]
  /\ UNCHANGED <<log, unsubs, screen, agent, compacts, faults>>

ServeCompact(c) ==
  /\ compacts[c].pc = "replaying"
  /\ compacts' = [compacts EXCEPT ![c].pc = "replayed", ![c].got = log[compacts[c].thread]]
  /\ UNCHANGED <<shell, opens, screen, agent, faults>>

(* events_unsubscribe names the thread only.                                   *)
Unsubscribe(t) ==
  /\ unsubs[t] > 0
  /\ unsubs' = [unsubs EXCEPT ![t] = @ - 1]
  /\ task' = IF task.thread = t THEN NoTask ELSE task
  /\ UNCHANGED <<log, opens, screen, agent, compacts, faults>>

(* The listener of an open: its own thread's events wait for the replay in the *)
(* buffer, and for the next frame after it.                                    *)
Hear(o, e) ==
  LET open == opens[o] IN
  IF open.ear /\ Current(o) /\ e[1] = open.thread
  THEN IF open.pc \in {"tree", "open"} THEN [open EXCEPT !.queue = Append(@, e)]
                                       ELSE [open EXCEPT !.buffer = Append(@, e)]
  ELSE open

(* The task emits the thread's next event to every listener of the window.     *)
Forward ==
  /\ task # NoTask /\ task.at < log[task.thread]
  /\ task' = [task EXCEPT !.at = @ + 1]
  /\ opens' = [o \in DOMAIN opens |-> Hear(o, <<task.thread, task.at + 1>>)]
  /\ UNCHANGED <<log, unsubs, screen, agent, compacts, faults>>

(* The task has fallen behind what the runtime's channel retains: it skips to  *)
(* an older event than the newest and tells nobody.  The capacity of the       *)
(* channel is left out: it may fall behind whenever two events wait.           *)
Lag ==
  /\ task # NoTask
  /\ \E n \in task.at + 1 .. log[task.thread] - 1 :
       task' = [task EXCEPT !.at = n, !.lagged = TRUE]
  /\ UNCHANGED <<log, unsubs, opens, screen, agent, compacts, faults>>

(* The runtime is gone and its channel closed: the task ends.  What a runtime  *)
(* loaded after it emits is forwarded to nobody.                               *)
ForwardEnds ==
  /\ task # NoTask /\ task' = NoTask
  /\ UNCHANGED <<log, unsubs, opens, screen, agent, compacts, faults>>

-----------------------------------------------------------------------------
(* The client's continuations                                                  *)

\* A variant in which a superseded open returns without cleaning up.
SupersededSilently(o) ==
  /\ ~Current(o)
  /\ opens' = [opens EXCEPT ![o].pc = "over"]
  /\ UNCHANGED <<shell, screen, agent, compacts, faults>>

(* A continuation of an open that is no longer current cleans up and returns.  *)
Superseded(o) ==
  /\ ~Current(o)
  /\ opens' = [opens EXCEPT ![o] = Over(@)]
  /\ unsubs' = IF opens[o].ear THEN [unsubs EXCEPT ![opens[o].thread] = @ + 1] ELSE unsubs
  /\ UNCHANGED <<log, task, screen, agent, compacts, faults>>

(* The view is shown, and the listener is registered before the shell is asked *)
(* to subscribe (listen itself is taken to answer at once); a viewer of an     *)
(* agent that has ended subscribes to nothing.                                 *)
ReadReply(o) ==
  /\ Current(o)
  /\ LET open == opens[o]
         view == Upto(open.thread, open.got) IN
     \E live \in (IF open.kind = "session" THEN {TRUE} ELSE BOOLEAN) :
       /\ opens' = [opens EXCEPT ![o].view = open.got, ![o].got = 0, ![o].ear = live,
                      ![o].pc = IF live THEN "subscribing" ELSE "replaying"]
       /\ IF open.kind = "session" THEN transcript' = view /\ applied' = ToSet(view)
                                   ELSE UNCHANGED <<transcript, applied>>
  /\ UNCHANGED <<shell, session, active, unlisten, agent, compacts, faults>>

SubscribeReply(o) ==
  /\ Current(o)
  /\ opens' = [opens EXCEPT ![o].pc = "replaying"]
  /\ IF opens[o].kind = "session" THEN unlisten' = o /\ UNCHANGED agentOff
                                  ELSE agentOff' = o /\ UNCHANGED unlisten
  /\ UNCHANGED <<shell, session, active, transcript, applied, viewer, agentView, agentIds,
                 compacts, faults>>

\* A variant in which a viewer, too, shows what was buffered and not the replay.
ReplayReplyBuffered(o) ==
  /\ Current(o)
  /\ LET open == opens[o]
         view == Upto(open.thread, open.view) IN
     IF open.kind = "session"
     THEN opens' = [opens EXCEPT ![o].pc = "tree"] /\ UNCHANGED <<agentView, agentIds>>
     ELSE /\ opens' = [opens EXCEPT ![o].pc = "open", ![o].got = 0, ![o].view = 0, ![o].buffer = <<>>]
          /\ agentView' = Show(view, ToSet(view), open.buffer)
          /\ agentIds' = ToSet(view) \cup ToSet(open.buffer) \cup ToSet(Upto(open.thread, open.got))
  /\ UNCHANGED <<shell, screen, viewer, agentOff, compacts, faults>>

(* A session awaits the agent tree before it shows anything of the replay; a   *)
(* viewer shows the view, then the replay, then what was buffered.             *)
ReplayReply(o) ==
  /\ Current(o)
  /\ LET open == opens[o]
         view == Upto(open.thread, open.view)
         replay == Upto(open.thread, open.got)
         live == Fresh(replay, {}, open.buffer) IN
     IF open.kind = "session"
     THEN opens' = [opens EXCEPT ![o].pc = "tree"] /\ UNCHANGED <<agentView, agentIds>>
     ELSE /\ opens' = [opens EXCEPT ![o].pc = "open", ![o].got = 0, ![o].view = 0, ![o].buffer = <<>>]
          /\ agentView' = Show(view, ToSet(view), replay \o live)
          /\ agentIds' = ToSet(view) \cup ToSet(replay \o live)
  /\ UNCHANGED <<shell, screen, viewer, agentOff, compacts, faults>>

(* The last step of openSession, whether the tree came or failed: the screen   *)
(* is the view and what was buffered; the replay's events count as applied.    *)
TreeReply(o) ==
  /\ Current(o)
  /\ LET open == opens[o]
         view == Upto(open.thread, open.view) IN
     /\ transcript' = Show(view, ToSet(view), open.buffer)
     /\ applied' = ToSet(view) \cup ToSet(open.buffer) \cup ToSet(Upto(open.thread, open.got))
     /\ opens' = [opens EXCEPT ![o].pc = "open", ![o].got = 0, ![o].buffer = <<>>,
                                ![o].since = log[open.thread]]
  /\ UNCHANGED <<shell, session, active, unlisten, agent, compacts, faults>>

Reply(o) ==
  \/ /\ opens[o].pc \in {"read", "subscribed", "replayed", "tree"}
     /\ Superseded(o)
  \/ opens[o].pc = "read"       /\ ReadReply(o)
  \/ opens[o].pc = "subscribed" /\ SubscribeReply(o)
  \/ opens[o].pc = "replayed"   /\ ReplayReply(o)
  \/ opens[o].pc = "tree"       /\ TreeReply(o)

(* A call is refused: the catch cleans up, and forgets the cleanup if current. *)
Refuse(o) ==
  /\ opens[o].pc \in Calls /\ faults < MaxFaults
  /\ faults' = faults + 1
  /\ opens' = [opens EXCEPT ![o] = Over(@)]
  /\ unsubs' = IF opens[o].ear /\ opens[o].pc # "subscribing"
               THEN [unsubs EXCEPT ![opens[o].thread] = @ + 1] ELSE unsubs
  /\ unlisten' = IF Current(o) /\ opens[o].kind = "session" THEN None ELSE unlisten
  /\ agentOff' = IF Current(o) /\ opens[o].kind = "viewer" THEN None ELSE agentOff
  /\ UNCHANGED <<log, task, session, active, transcript, applied, viewer, agentView, agentIds,
                 compacts>>

(* The batcher's frame: applyRuntimeEvents, applySelectedAgentRuntimeEvents.   *)
Frame(o) ==
  /\ opens[o].queue # <<>>
  /\ opens' = [opens EXCEPT ![o].queue = <<>>]
  /\ LET q == opens[o].queue IN
     CASE Current(o) /\ opens[o].kind = "session" ->
            /\ transcript' = Show(transcript, applied, q) /\ applied' = applied \cup ToSet(q)
            /\ UNCHANGED <<agentView, agentIds>>
       [] Current(o) /\ opens[o].kind = "viewer" ->
            /\ agentView' = Show(agentView, agentIds, q) /\ agentIds' = agentIds \cup ToSet(q)
            /\ UNCHANGED <<transcript, applied>>
       [] OTHER -> UNCHANGED <<transcript, applied, agentView, agentIds>>
  /\ UNCHANGED <<shell, session, active, unlisten, viewer, agentOff, compacts, faults>>

(* The replay after a compaction is applied if its thread is shown.            *)
CompactReply(c) ==
  /\ compacts[c].pc = "replayed"
  /\ compacts' = [compacts EXCEPT ![c].pc = "over"]
  /\ LET events == Upto(compacts[c].thread, compacts[c].got) IN
     IF active = compacts[c].thread
     THEN transcript' = Show(transcript, applied, events) /\ applied' = applied \cup ToSet(events)
     ELSE UNCHANGED <<transcript, applied>>
  /\ UNCHANGED <<shell, opens, session, active, unlisten, agent, faults>>

User ==
  \/ \E t \in Threads : OpenSession(t) \/ OpenAgentThread(t)
  \/ StartSession \/ ArchiveSession \/ CloseAgentThread \/ CompactActiveThread

Next ==
  \/ User
  \/ \E t \in Threads : Emit(t) \/ Unsubscribe(t)
  \/ Forward \/ Lag \/ ForwardEnds
  \/ \E o \in DOMAIN opens : Serve(o) \/ Reply(o) \/ Refuse(o) \/ Frame(o)
  \/ \E c \in DOMAIN compacts : ServeCompact(c) \/ CompactReply(c)

Spec == Init /\ [][Next]_vars

-----------------------------------------------------------------------------
(* Properties                                                                  *)

(* The types of the state.                                                     *)
TypeOK ==
  /\ log \in [Threads -> 0..MaxEvents] /\ unsubs \in [Threads -> 0..MaxOpens]
  /\ task = NoTask \/ (task.thread \in Threads /\ task.at <= log[task.thread]
                                               /\ task.by \in DOMAIN opens)
  /\ \A o \in DOMAIN opens : opens[o].pc \in Stages /\ opens[o].thread \in Threads
  /\ {session, viewer, unlisten, agentOff} \subseteq {None} \cup DOMAIN opens
  /\ active \in Threads \cup {NoThread}

(* A screen that has been loaded shows events of its own thread only: no late  *)
(* view, buffer, frame or compaction of another open gets onto it              *)
(* (isCurrentOpen after every await, workbenchStore.ts:494-590).               *)
Loaded(o) == o # None /\ Current(o) /\ opens[o].pc \in Stages \ {"reading", "read", "over"}
ShowsOwnThread ==
  /\ Loaded(session) => \A e \in ToSet(transcript) : e[1] = active
  /\ viewer # None => \A e \in ToSet(agentView) : e[1] = opens[viewer].thread

(* A viewer whose own subscription still runs and has skipped no event, and    *)
(* that has shown all frames, shows every event of its agent in the order they *)
(* happened: view, replay, buffer and frames leave no gap and overlap nowhere  *)
(* (openAgentThread).  The shell's task skips events when it lags              *)
(* (commands.rs:1085); the client is not told, and the gap stays.              *)
Subscribed(o) == o # None /\ Current(o) /\ opens[o].pc = "open" /\ opens[o].ear /\ task.by = o
Hearing(o) == Subscribed(o) /\ ~task.lagged
CaughtUp(o) == Hearing(o) /\ opens[o].queue = <<>> /\ task.at = log[task.thread]
ViewerComplete ==
  CaughtUp(viewer) => agentView = Upto(opens[viewer].thread, log[opens[viewer].thread])

(* A session may miss what happened while it was being opened, and nothing     *)
(* else: the view and every event since the end of the opening are shown, as   *)
(* long as its own subscription runs and has skipped no event.                 *)
MissesOnlyTheOpening ==
  CaughtUp(session) =>
    LET t == opens[session].thread IN
    ToSet(Upto(t, opens[session].view)) \cup ToSet(EventsOf(t, opens[session].since, log[t]))
      \subseteq ToSet(transcript)

(* A listener and a task never outlive what could remove them: each listener   *)
(* that was handed over belongs to one of the store's two cleanups, and with   *)
(* no call under way the shell forwards only to an open that listens.          *)
Settled ==
  /\ \A t \in Threads : unsubs[t] = 0
  /\ \A o \in DOMAIN opens : opens[o].pc \notin {"subscribing", "subscribed"}
NothingLeaks ==
  /\ \A o \in DOMAIN opens : Held({o}) # {} => o \in {unlisten, agentOff}
  /\ Settled /\ task # NoTask => opens[task.by].ear

(* With no call under way and no viewer open, the shell forwards the events of *)
(* the session that is shown.  Refuted: opening a viewer ends that, and so     *)
(* does the end of the runtime.                                                *)
SessionStaysLive ==
  Settled /\ viewer = None /\ session # None /\ Current(session) /\ opens[session].pc = "open"
    => task.by = session

(* A viewer that listens, whose subscription runs, with nothing left to be     *)
(* forwarded and no frame left, shows all of its agent.  Refuted: what the     *)
(* task skipped when it lagged (commands.rs:1085) is missing.                  *)
ViewerCompleteAlways ==
  Subscribed(viewer) /\ opens[viewer].queue = <<>> /\ task.at = log[task.thread]
    => agentView = Upto(opens[viewer].thread, log[opens[viewer].thread])

(* What the user sees of an opened session is all that happened in it.         *)
(* Refuted: the replay counts as applied and is not shown.                     *)
SessionComplete ==
  CaughtUp(session) => ToSet(transcript) = ToSet(Upto(active, log[active]))
=============================================================================
