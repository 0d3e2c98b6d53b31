------------------------------ MODULE EventLog ------------------------------
(***************************************************************************)
(* The events of one thread: the recorder of its session, the sink of its  *)
(* exec sessions (a task of its own), the handler that answers an open     *)
(* question (a second writer of the file), the rollout file, the bounded   *)
(* buffer and the broadcast channel of the loaded runtime, and one client  *)
(* that opens /events/subscribe, loses the connection and comes back with  *)
(* the id of the last event it has seen.                                   *)
(*                                                                         *)
(* Every statement that another task can see is a step: the id is taken    *)
(* from the counter, the event and then its newline are written to the     *)
(* file, the event is pushed to the buffer under the lock, and sent after  *)
(* the lock is dropped.                                                    *)
(***************************************************************************)
EXTENDS Integers, Sequences, FiniteSets

CONSTANTS Cap,         \* live_event_buffer_cap
          ChannelCap,  \* capacity of the broadcast channel
          MaxEvents,   \* bound: events made
          MaxAnswers,  \* bound: answers of one process
          MaxFaults    \* bound: writes that fail, connections that drop, restarts

\* A broadcast channel has room for one event at least; nothing is assumed of the buffer.
ASSUME CapAssumption == Cap \in Nat
ASSUME ChannelCapAssumption == ChannelCap \in Nat \ {0}
ASSUME BoundsAssumption ==
  MaxEvents \in Nat /\ MaxAnswers \in Nat /\ MaxFaults \in Nat

\* The kinds of events that take part: the start and the end of a turn and of a tool, exec
\* output (which stands for every live-only event), its copy for the tool, a runtime error,
\* and the answer to an open question.
Kinds == {"turn", "done", "tool", "end", "output", "delta", "error", "answer"}

\* What the session stores, and all that is stored.
Recorded == {"turn", "done", "tool", "end", "error"}
Stored == Recorded \cup {"answer"}
Closing == {"done", "error"}

VARIABLES
  rollout,   \* the events in the file
  line,      \* its lines: all whole, the last one without its newline, or one that is broken
  loaded,    \* the thread has a runtime
  nextId,    \* next_event_index
  buffer,    \* the events of the live state
  active,    \* the overlay holds the invocation of the tool
  stage,     \* where the session's turn is
  writer,    \* the event the session is recording
  sink,      \* the event the sink is recording
  conn,      \* the client's connection
  rx,        \* its receiver of the broadcast channel
  got,       \* the events the client has received, over all connections
  made,
  answers,   \* POLICY_EVENT_COUNTER: ids this process has given to answers
  faults,
  silent,    \* history: events in the file whose record failed at the newline
  opened,    \* history: how many it had received when the connection began
  lagged,    \* history: this connection has lost events to the channel's capacity
  excused    \* history: events may be missing for a reason the client could know

session == <<active, stage, writer>>
other == <<answers, silent>>
stream == <<conn, rx, got, opened, lagged, excused>>
vars == <<rollout, line, loaded, nextId, buffer, session, sink, stream, made, other, faults>>

None == [pc |-> "idle", event |-> [id |-> 0, n |-> 0, kind |-> "output"]]

Last(s) == s[Len(s)]
IdsOf(s) == {s[i].id : i \in DOMAIN s}
MaxOf(S) == CHOOSE x \in S : \A y \in S : y <= x

EventsIn(s) == {s[i] : i \in DOMAIN s}

\* A variant that numbers the next event by the events of the file.
NextByCount(log) == Len(log) + 1

\* next_event_index: one more than the highest id of the file.  The ids of answers are of
\* another form, approval_evt_k, which parse_event_index ignores: here they are negative.
NextIndex(log) == 1 + MaxOf({0} \cup IdsOf(log))

\* The buffer keeps the newest events.
Trim(s) == IF Len(s) > Cap THEN SubSeq(s, Len(s) - Cap + 1, Len(s)) ELSE s

Init ==
  /\ rollout = << >> /\ line = "whole" /\ loaded = TRUE /\ nextId = 1 /\ buffer = << >>
  /\ active = FALSE /\ stage = "idle" /\ writer = None /\ sink = None
  /\ conn = "off" /\ rx = << >> /\ got = << >>
  /\ made = 0 /\ answers = 0 /\ faults = 0 /\ silent = {}
  /\ opened = 0 /\ lagged = FALSE /\ excused = FALSE

\* reserve_event_id; n tells apart two events that get the same id.
Fresh(kind) == [id |-> nextId, n |-> made + 1, kind |-> kind]
Reserve == made < MaxEvents /\ made' = made + 1 /\ nextId' = nextId + 1

Fault == faults < MaxFaults /\ faults' = faults + 1

Push(e) == buffer' = Trim(Append(buffer, e))

\* The channel keeps the newest events of a slow receiver.
Send(e) ==
  IF conn = "off" THEN UNCHANGED <<rx, lagged, excused>>
  ELSE LET full == Len(rx) = ChannelCap IN
       /\ rx' = Append(IF full THEN Tail(rx) ELSE rx, e)
       /\ lagged' = (lagged \/ full) /\ excused' = (excused \/ full)

\* Text after a line without its newline makes one line of two, which no reader can parse.
Joined == IF line = "whole" THEN "whole" ELSE "broken"

-----------------------------------------------------------------------------
(* The session: one record at a time.                                      *)

\* What the turn records next, and where that takes it.
Follows(kind) ==
  CASE stage = "idle" -> kind = "turn"
    [] stage = "turn" -> kind \in {"tool", "done"}
    [] stage = "ended" -> kind = "end"
    [] OTHER -> FALSE
StageAfter(kind) == CASE kind = "tool" -> "mark" [] kind = "done" -> "idle" [] OTHER -> "turn"

Record(kind) ==
  /\ loaded /\ writer.pc = "idle" /\ Follows(kind)
  /\ Reserve
  /\ writer' = [pc |-> IF kind \in Stored THEN "append" ELSE "push", event |-> Fresh(kind)]
  /\ stage' = StageAfter(kind)
  /\ UNCHANGED <<rollout, line, loaded, buffer, active, sink, stream, other, faults>>

\* append_items_blocking: writeln! on a file is two writes, the text ...
AppendItem ==
  /\ writer.pc = "append"
  /\ rollout' = Append(rollout, writer.event)
  /\ line' = IF line = "whole" THEN "open" ELSE "broken"
  /\ writer' = [writer EXCEPT !.pc = "newline"]
  /\ UNCHANGED <<loaded, nextId, buffer, active, stage, sink, stream, made, other, faults>>

\* ... and its newline, before which the other writer may have come.
EndLine ==
  /\ writer.pc = "newline"
  /\ line' = IF line = "open" THEN "whole" ELSE line
  /\ writer' = [writer EXCEPT !.pc = "push"]
  /\ UNCHANGED <<rollout, loaded, nextId, buffer, active, stage, sink, stream, made, other,
                 faults>>

\* A variant that goes on when the file cannot be written.
AppendFailsQuietly ==
  /\ writer.pc \in {"append", "newline"} /\ Fault
  /\ writer' = [writer EXCEPT !.pc = "push"]
  /\ UNCHANGED <<rollout, line, loaded, nextId, buffer, active, stage, sink, stream, made,
                 other>>

\* The error goes up: the id is lost, and so is the turn that could not be started or ended.
\* A write of the text may leave a part of it; where only the newline fails the event is in
\* the file and is never published.
AppendFails ==
  /\ writer.pc \in {"append", "newline"} /\ Fault
  /\ writer' = None
  /\ stage' = IF writer.event.kind \in {"turn", "done"} THEN "idle" ELSE "turn"
  /\ \/ writer.pc = "append" /\ line' \in {line, "broken"} /\ silent' = silent
     \/ writer.pc = "newline" /\ line' = line /\ silent' = silent \cup {writer.event}
  /\ UNCHANGED <<rollout, loaded, nextId, buffer, active, sink, stream, made, answers>>

PushRecord ==
  /\ writer.pc = "push"
  /\ Push(writer.event)
  /\ writer' = [writer EXCEPT !.pc = "send"]
  /\ UNCHANGED <<rollout, line, loaded, nextId, active, stage, sink, stream, made, other, faults>>

SendRecord ==
  /\ writer.pc = "send"
  /\ Send(writer.event)
  /\ writer' = None
  /\ UNCHANGED <<rollout, line, loaded, nextId, buffer, active, stage, sink, conn, got, opened,
                 made, other, faults>>

\* mark_tool_invocation_active, after the start of the tool is recorded ...
MarkActive ==
  /\ stage = "mark" /\ writer.pc = "idle"
  /\ active' = TRUE /\ stage' = "tool"
  /\ UNCHANGED <<rollout, line, loaded, nextId, buffer, writer, sink, stream, made, other, faults>>

\* ... and clear_tool_invocation, before its end is.
ClearActive ==
  /\ stage = "tool"
  /\ active' = FALSE /\ stage' = "ended"
  /\ UNCHANGED <<rollout, line, loaded, nextId, buffer, writer, sink, stream, made, other, faults>>

-----------------------------------------------------------------------------
(* The sink: output of a process, at any time.                             *)

\* record_live_only takes its id before it takes the lock.
Output ==
  /\ loaded /\ sink.pc = "idle"
  /\ Reserve
  /\ sink' = [pc |-> "push", event |-> Fresh("output")]
  /\ UNCHANGED <<rollout, line, loaded, buffer, session, stream, other, faults>>

PushOutput ==
  /\ sink.pc = "push"
  /\ Push(sink.event)
  /\ sink' = [sink EXCEPT !.pc = "send"]
  /\ UNCHANGED <<rollout, line, loaded, nextId, session, stream, made, other, faults>>

SendOutput ==
  /\ sink.pc = "send"
  /\ Send(sink.event)
  /\ sink' = [sink EXCEPT !.pc = "delta"]
  /\ UNCHANGED <<rollout, line, loaded, nextId, buffer, session, conn, got, opened, made,
                 other, faults>>

\* A variant that does not ask the overlay.
DeltaUnchecked ==
  /\ sink.pc = "delta"
  /\ Reserve /\ Push(Fresh("delta"))
  /\ sink' = [pc |-> "sendDelta", event |-> Fresh("delta")]
  /\ UNCHANGED <<rollout, line, loaded, session, stream, other, faults>>

\* record_invocation_output_delta_if_active: the look, the id and the push under one lock.
Delta ==
  /\ sink.pc = "delta" /\ active
  /\ Reserve /\ Push(Fresh("delta"))
  /\ sink' = [pc |-> "sendDelta", event |-> Fresh("delta")]
  /\ UNCHANGED <<rollout, line, loaded, session, stream, other, faults>>

\* The overlay is asked for the invocation of the output, which another one may have followed.
NoDelta ==
  /\ sink.pc = "delta"
  /\ sink' = None
  /\ UNCHANGED <<rollout, line, loaded, nextId, buffer, session, stream, made, other, faults>>

SendDelta ==
  /\ sink.pc = "sendDelta"
  /\ Send(sink.event)
  /\ sink' = None
  /\ UNCHANGED <<rollout, line, loaded, nextId, buffer, session, conn, got, opened, made,
                 other, faults>>

-----------------------------------------------------------------------------
(* The answer to an open question.                                         *)

\* append_open_question_resolved_event writes to the file of the thread, loaded or not, one
\* write for the line, under an id of a counter of the process; it does not go through the
\* recorder, so no buffer and no receiver gets the event.
AppendAnswer ==
  /\ made < MaxEvents /\ made' = made + 1
  /\ answers < MaxAnswers /\ answers' = answers + 1
  /\ rollout' = Append(rollout, [id |-> -answers', n |-> made', kind |-> "answer"])
  /\ line' = Joined
  /\ UNCHANGED <<loaded, nextId, buffer, session, sink, stream, silent, faults>>

\* The write may fail, and leave a part of the line.
AnswerFails ==
  /\ Fault
  /\ answers < MaxAnswers /\ answers' = answers + 1
  /\ line' \in {line, "broken"}
  /\ UNCHANGED <<rollout, loaded, nextId, buffer, session, sink, stream, made, silent>>

-----------------------------------------------------------------------------
(* The client.                                                             *)

Cursor == IF got = << >> THEN 0 ELSE Last(got).id

\* filter_replay_events: what follows the first event with the cursor's id; everything if
\* no event has it.
ReplayAfter(s, cursor) ==
  LET places == {i \in DOMAIN s : s[i].id = cursor}
  IN  IF places = {} THEN s
      ELSE SubSeq(s, 1 + (CHOOSE i \in places : \A j \in places : i <= j), Len(s))

log == <<rollout, line, loaded, nextId, buffer, session, sink, made, other>>

\* events_subscribe takes a receiver of the loaded runtime ...
Subscribe ==
  /\ loaded /\ conn = "off"
  /\ conn' = "replay" /\ rx' = << >> /\ opened' = Len(got) /\ lagged' = FALSE
  /\ UNCHANGED <<log, faults, got, excused>>

\* ... then it reads what the client has missed, and streams what the receiver gets.
Replay ==
  /\ conn = "replay"
  /\ conn' = "stream"
  /\ got' = got \o ReplayAfter(buffer, Cursor)
  /\ excused' = (excused \/ (got # << >> /\ Cursor \notin IdsOf(buffer)))
  /\ UNCHANGED <<log, faults, rx, opened, lagged>>

\* A variant that reads first and takes the receiver afterwards.
ReplayFirst ==
  /\ loaded /\ conn = "off"
  /\ conn' = "late" /\ rx' = << >> /\ opened' = Len(got) /\ lagged' = FALSE
  /\ got' = got \o ReplayAfter(buffer, Cursor)
  /\ UNCHANGED <<log, faults, excused>>
OpenLate ==
  \/ ReplayFirst
  \/ conn = "late" /\ conn' = "stream" /\ rx' = << >>
     /\ UNCHANGED <<log, faults, got, opened, lagged, excused>>

Open == Subscribe \/ Replay

Deliver ==
  /\ conn = "stream" /\ rx # << >>
  /\ got' = Append(got, Head(rx)) /\ rx' = Tail(rx)
  /\ UNCHANGED <<log, faults, conn, opened, lagged, excused>>

Disconnect ==
  /\ conn # "off" /\ Fault
  /\ conn' = "off" /\ rx' = << >>
  /\ UNCHANGED <<log, got, opened, lagged, excused>>

-----------------------------------------------------------------------------
(* The process.                                                            *)

Restart ==
  /\ Fault
  /\ loaded' = FALSE /\ buffer' = << >> /\ nextId' = 0
  /\ active' = FALSE /\ stage' = "idle" /\ writer' = None /\ sink' = None
  /\ conn' = "off" /\ rx' = << >> /\ excused' = TRUE /\ answers' = 0
  /\ UNCHANGED <<rollout, line, got, opened, lagged, made, silent>>

\* The file ends in a turn nobody ended.
Unfinished ==
  \E i \in DOMAIN rollout :
    /\ rollout[i].kind = "turn"
    /\ \A j \in i + 1 .. Len(rollout) : rollout[j].kind \notin Closing

\* ThreadSession::new: an unfinished turn is recorded as failed before the runtime is used.
\* A file with a broken line is not read at all (read_items_blocking).
Load ==
  /\ ~loaded /\ line # "broken" /\ (Unfinished => made < MaxEvents)
  /\ LET index == NextIndex(rollout)
         error == [id |-> index, n |-> made + 1, kind |-> "error"]
         repaired == IF Unfinished THEN Append(rollout, error) ELSE rollout
     IN  /\ rollout' = repaired /\ buffer' = Trim(repaired)
         /\ line' = IF Unfinished THEN Joined ELSE line
         /\ nextId' = IF Unfinished THEN index + 1 ELSE index
         /\ made' = IF Unfinished THEN made + 1 ELSE made
  /\ loaded' = TRUE
  /\ UNCHANGED <<session, sink, stream, other, faults>>

\* Where that record fails the thread is not loaded.
LoadFails ==
  /\ ~loaded /\ line # "broken" /\ Unfinished /\ Fault
  /\ line' \in {line, "broken"}
  /\ UNCHANGED <<rollout, loaded, nextId, buffer, session, sink, stream, made, other>>

-----------------------------------------------------------------------------

SessionStep ==
  \/ \E kind \in {"turn", "tool", "end", "done"} : Record(kind)
  \/ AppendItem \/ EndLine \/ AppendFails \/ PushRecord \/ SendRecord \/ MarkActive \/ ClearActive
SinkStep == Output \/ PushOutput \/ SendOutput \/ Delta \/ NoDelta \/ SendDelta
ClientStep == Open \/ Deliver \/ Disconnect

AnswerStep == AppendAnswer \/ AnswerFails

Next == SessionStep \/ SinkStep \/ AnswerStep \/ ClientStep \/ Restart \/ Load \/ LoadFails

Spec == Init /\ [][Next]_vars

-----------------------------------------------------------------------------
(* Properties.                                                             *)

EventType == [id : -MaxAnswers .. MaxEvents, n : 0 .. MaxEvents, kind : Kinds]
TaskType(places) == [pc : {"idle"} \cup places, event : EventType]

\* The variables hold what the code's types allow, the buffer and the receiver within
\* their capacities.
TypeOK ==
  /\ rollout \in Seq(EventType) /\ line \in {"whole", "open", "broken"}
  /\ loaded \in BOOLEAN /\ nextId \in 0 .. MaxEvents + 1
  /\ buffer \in Seq(EventType) /\ Len(buffer) <= Cap
  /\ active \in BOOLEAN /\ stage \in {"idle", "turn", "mark", "tool", "ended"}
  /\ writer \in TaskType({"append", "newline", "push", "send"})
  /\ sink \in TaskType({"push", "send", "delta", "sendDelta"})
  /\ conn \in {"off", "replay", "stream"} /\ rx \in Seq(EventType) /\ Len(rx) <= ChannelCap
  /\ got \in Seq(EventType) /\ opened \in 0 .. Len(got)
  /\ made \in 0 .. MaxEvents /\ answers \in 0 .. MaxAnswers /\ silent \in SUBSET EventType
  /\ faults \in 0 .. MaxFaults
  /\ lagged \in BOOLEAN /\ excused \in BOOLEAN

\* An event that a restart must reproduce is in the file before any reader can see it, in
\* the buffer, in the channel or at a client, also when a write fails (record_snapshot
\* appends before it publishes).
SeenIsStored ==
  \A e \in EventsIn(buffer) \cup EventsIn(rx) \cup EventsIn(got) :
    e.kind \in Stored => e \in EventsIn(rollout)

\* The ids the session gave to the events of the file grow, over failed writes, the ids that
\* only live events and lost records took, answers in between, and restarts that take the
\* counter from the file (next_event_index).  The ids of answers are not among them.
RecordedIdsGrow ==
  \A i, j \in DOMAIN rollout :
    i < j /\ rollout[i].kind \in Recorded /\ rollout[j].kind \in Recorded
      => rollout[i].id < rollout[j].id

\* What the client has of this connection, received or on its way.
Here == EventsIn(SubSeq(got, opened + 1, Len(got))) \cup EventsIn(rx)

\* The events the session recorded and went on to publish, between two of those in S.
RecordedOf(S) == {e \in S : e.kind \in Recorded}
Between(S) ==
  {e \in RecordedOf(EventsIn(rollout)) \ silent :
     (\E f \in S : f.n <= e.n) /\ (\E f \in S : e.n <= f.n)}

\* Within an open connection no event the session recorded is skipped, counting what waits in
\* the receiver, unless the channel overflowed or the record failed at its newline: what is
\* recorded between the subscription and the replay comes from one of the two
\* (entrypoints/api.rs subscribes before it replays).  Answers are not among them.
StreamComplete ==
  conn # "off" /\ ~lagged => Between(RecordedOf(Here)) \subseteq Here

\* A question answered through the inbox is an event of the stream as well ("Risky command
\* approvals are exposed as events and inbox items", open_question_resolved among them): an
\* open connection that has what is in the file before the answer and after it has the
\* answer.  Refuted: append_open_question_resolved_event writes to the file alone.
AnswersReachStream ==
  conn # "off" /\ ~lagged =>
    \A i, j, k \in DOMAIN rollout :
      i < j /\ j < k /\ rollout[i] \in Here /\ rollout[k] \in Here /\ rollout[j].kind = "answer"
        => rollout[j] \in Here

\* The buffer never shows output of a tool after the tool's end
\* (record_invocation_output_delta_if_active looks and pushes under one lock).
DeltaBeforeEnd ==
  \A i, j \in DOMAIN buffer :
    i < j /\ buffer[i].kind = "end" /\ buffer[j].kind = "delta"
      => \E k \in i .. j : buffer[k].kind = "tool"

\* A client that comes back with the last event it saw gets every stored event it missed
\* ("The server reads persisted events after `after_event_id`"), unless its event has left
\* the buffer, the channel overflowed or the process restarted.  Refuted: the buffer and the channel
\* do not have the events in the same order.
NothingMissed ==
  LET seen == RecordedOf(EventsIn(got))
  IN  ~excused => Between(seen) \subseteq seen

\* The file can be read back.  Refuted: a line and its newline are two writes, which the other
\* writer, a crash or a failure may separate.
FileReadable == line # "broken"

\* Two stored events of a thread have different ids.  Refuted: the counter of answers starts
\* again with the process.
StoredIdsDiffer == \A i, j \in DOMAIN rollout : i # j => rollout[i].id # rollout[j].id
=============================================================================
