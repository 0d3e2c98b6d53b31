-------------------------- MODULE EventLog_proofs --------------------------
(***************************************************************************)
(* Theorems about EventLog, for any capacity of the buffer and of the      *)
(* channel and any number of events, answers, failed writes, lost          *)
(* connections and restarts.                                                               *)
(***************************************************************************)
EXTENDS EventLog, FiniteSetTheorems, SequenceTheorems, WellFoundedInduction, TLAPS

(* The inductive invariant.                                                *)

Free(task) == task.pc = "idle"

\* The events of the file are stored ones, and those of the session in the order in which
\* their ids were taken.
FileOrdered ==
  /\ \A i \in DOMAIN rollout : rollout[i].kind \in Stored
  /\ \A i, j \in DOMAIN rollout :
       i < j /\ rollout[i].kind \in Recorded /\ rollout[j].kind \in Recorded
         => rollout[i].id < rollout[j].id /\ rollout[i].n < rollout[j].n

\* No event was made after the last one, or has an id that is still to be given.
Counted ==
  /\ nextId <= made + 1
  /\ \A i \in DOMAIN rollout : rollout[i].id <= made /\ rollout[i].n <= made
  /\ loaded => nextId >= 1 /\ \A i \in DOMAIN rollout : rollout[i].id < nextId

\* The session records its events each after all of its own that are in the file; once it is
\* written there its event is the last of them.
WriterAhead ==
  /\ ~Free(writer) => writer.event.kind \in Recorded /\ writer.event.n <= made
  /\ writer.pc = "append" =>
       /\ writer.event.id < nextId
       /\ \A i \in DOMAIN rollout : rollout[i].kind \in Recorded =>
            rollout[i].id < writer.event.id /\ rollout[i].n < writer.event.n
  /\ writer.pc \in {"newline", "push", "send"} =>
       /\ writer.event \in EventsIn(rollout)
       /\ \A e \in EventsIn(rollout) :
            e.kind \in Recorded /\ writer.event.n <= e.n => e = writer.event

\* The sink has live-only events.
SinkLive == sink.event.kind \notin Stored

\* Nothing runs in a process that has not loaded the thread.
Unloaded == ~loaded => Free(writer) /\ Free(sink) /\ conn = "off"

\* What the session has yet to push or to send.
Pending(places) == IF writer.pc \in places THEN {writer.event} ELSE {}

\* With an event the session recorded S has all that a file with the events F has of them
\* after it, except what is in X.
Closed(S, X, F) ==
  \A f \in S, e \in F :
    f.kind \in Recorded /\ e.kind \in Recorded /\ f.n <= e.n => e \in S \cup X

\* The recorded events of s are in the order of the file.
Ordered(s) ==
  \A i, j \in DOMAIN s :
    i < j /\ s[i].kind \in Recorded /\ s[j].kind \in Recorded => s[i].n < s[j].n

\* What the session recorded in the file after an event of the buffer is in the buffer as
\* well, except what it has yet to push or failed to, and in the order of the file.
BufferClosed ==
  /\ Ordered(buffer)
  /\ writer.pc \in {"newline", "push"} =>
       \A i \in DOMAIN buffer : buffer[i].kind \in Recorded => buffer[i].n < writer.event.n
  /\ Closed(EventsIn(buffer), Pending({"newline", "push"}) \cup silent, EventsIn(rollout))

\* So it is with the connection, except for what the session has yet to send.
StreamClosed ==
  /\ conn = "replay" => opened = Len(got)
  /\ conn # "off" /\ ~lagged =>
       Closed(Here, Pending({"newline", "push", "send"}) \cup silent, EventsIn(rollout))

IInv ==
  /\ TypeOK /\ FileOrdered /\ Counted /\ WriterAhead /\ SinkLive /\ Unloaded
  /\ SeenIsStored /\ BufferClosed /\ StreamClosed

\* Whatever tool of the buffer has ended, another one has started since.
ToolOpen ==
  \A i \in DOMAIN buffer :
    buffer[i].kind = "end" => \E k \in i .. Len(buffer) : buffer[k].kind = "tool"

\* The overlay holds an invocation only between the start of the tool and its end.
ToolInv ==
  /\ stage = "mark" /\ ~Free(writer) => writer.event.kind = "tool"
  /\ stage \in {"tool", "ended"} => Free(writer)
  /\ active => stage = "tool"
  /\ sink.pc = "push" => sink.event.kind = "output"
  /\ ~loaded => stage = "idle"
  /\ stage = "tool" \/ (stage = "mark" /\ writer.pc \in {"idle", "send"}) => ToolOpen

-----------------------------------------------------------------------------
(* Sequences: what trimming, replaying and the index of a file return.     *)

\* t is what is left of s without its first d elements.
Tailing(t, s, d) == Len(t) = Len(s) - d /\ \A i \in 1 .. Len(t) : t[i] = s[i + d]
Suffix(t, s) == \E d \in 0 .. Len(s) : Tailing(t, s, d)

\* A set of natural numbers that is not empty has a least element.
LEMMA Least ==
  ASSUME NEW S \in SUBSET Nat, S # {}
  PROVE  \E x \in S : \A y \in S : x <= y
<1> DEFINE T == {0 .. x : x \in S}
<1>1. T \subseteq FiniteSubsetsOf(Nat) /\ T # {}
  <2>1. ASSUME NEW x \in S PROVE IsFiniteSet(0 .. x) /\ 0 .. x \subseteq Nat
    BY FS_Interval
  <2>2. T \subseteq FiniteSubsetsOf(Nat)
    BY <2>1 DEF FiniteSubsetsOf
  <2> QED BY <2>2
<1>2. PICK X \in T : \A Y \in T : <<Y, X>> \notin StrictSubsetOrdering(Nat)
  <2> HIDE DEF T
  <2> QED BY <1>1, WFMin, FS_StrictSubsetOrderingWellFounded
<1>3. PICK x \in S : X = 0 .. x
  OBVIOUS
<1>4. ASSUME NEW y \in S, y < x
      PROVE  FALSE
  <2>1. 0 .. y \subseteq 0 .. x /\ x \in 0 .. x /\ x \notin 0 .. y
    BY <1>4
  <2>2. <<0 .. y, 0 .. x>> \in StrictSubsetOrdering(Nat)
    BY <2>1 DEF StrictSubsetOrdering
  <2> QED BY <2>2, <1>2, <1>3
<1> QED BY <1>4

\* The end of a sequence from any place on is a suffix of it.
LEMMA SubSeqIsSuffix ==
  ASSUME NEW S, NEW s \in Seq(S), NEW k \in 1 .. Len(s) + 1
  PROVE  SubSeq(s, k, Len(s)) \in Seq(S) /\ Tailing(SubSeq(s, k, Len(s)), s, k - 1)
<1>1. \A i \in k .. Len(s) : s[i] \in S
  BY ElementOfSeq
<1>2. Len(s) \in Nat
  BY LenProperties
<1>3. /\ SubSeq(s, k, Len(s)) \in Seq(S)
      /\ Len(SubSeq(s, k, Len(s))) = IF k <= Len(s) THEN Len(s) - k + 1 ELSE 0
      /\ \A i \in 1 .. Len(s) - k + 1 : SubSeq(s, k, Len(s))[i] = s[k + i - 1]
  BY <1>1, <1>2, SubSeqProperties
<1> QED BY <1>2, <1>3 DEF Tailing

\* The buffer keeps the end of what it had, within its capacity.
LEMMA TrimKeepsEnd ==
  ASSUME NEW S, NEW s \in Seq(S)
  PROVE  Trim(s) \in Seq(S) /\ Len(Trim(s)) <= Cap /\ Suffix(Trim(s), s)
<1>1. Len(s) \in Nat
  BY LenProperties
<1>2. CASE Len(s) > Cap
  <2>1. Len(s) - Cap + 1 \in 1 .. Len(s) + 1
    BY <1>1, <1>2, CapAssumption
  <2>2. Trim(s) \in Seq(S) /\ Tailing(Trim(s), s, Len(s) - Cap)
    BY <1>1, <1>2, <2>1, SubSeqIsSuffix, CapAssumption DEF Trim
  <2>3. Len(s) - Cap \in 0 .. Len(s)
    BY <1>1, <1>2, CapAssumption
  <2>4. Suffix(Trim(s), s)
    BY <2>2, <2>3 DEF Suffix
  <2>5. Len(Trim(s)) <= Cap
    BY <1>1, <2>2, CapAssumption DEF Tailing
  <2> QED BY <2>2, <2>4, <2>5
<1>3. CASE ~(Len(s) > Cap)
  <2>1. Tailing(s, s, 0)
    BY <1>1 DEF Tailing
  <2> QED BY <1>1, <1>3, <2>1, CapAssumption DEF Trim, Suffix
<1> QED BY <1>2, <1>3

\* A replay returns the end of the buffer.
LEMMA ReplayIsEnd ==
  ASSUME NEW s \in Seq(EventType), NEW cursor
  PROVE  ReplayAfter(s, cursor) \in Seq(EventType) /\ Suffix(ReplayAfter(s, cursor), s)
<1> DEFINE places == {i \in DOMAIN s : s[i].id = cursor}
<1>1. Len(s) \in Nat /\ DOMAIN s = 1 .. Len(s)
  BY LenProperties
<1>2. CASE places = {}
  <2>1. Tailing(s, s, 0)
    BY <1>1 DEF Tailing
  <2> QED BY <1>1, <1>2, <2>1 DEF ReplayAfter, Suffix
<1>3. CASE places # {}
  <2> DEFINE first == CHOOSE i \in places : \A j \in places : i <= j
  <2>1. places \in SUBSET Nat
    BY <1>1
  <2>2. \E i \in places : \A j \in places : i <= j
    <3> HIDE DEF places
    <3> QED BY <1>3, <2>1, Least
  <2>3. first \in places
    <3> HIDE DEF places
    <3> QED BY <2>2
  <2>4. first \in 1 .. Len(s)
    BY <1>1, <2>3
  <2>5. ReplayAfter(s, cursor) = SubSeq(s, 1 + first, Len(s))
    BY <1>3 DEF ReplayAfter
  <2> HIDE DEF first
  <2>6. 1 + first \in 1 .. Len(s) + 1 /\ (1 + first) - 1 = first /\ first \in 0 .. Len(s)
    BY <1>1, <2>4
  <2>7. SubSeq(s, 1 + first, Len(s)) \in Seq(EventType)
          /\ Tailing(SubSeq(s, 1 + first, Len(s)), s, first)
    BY <2>6, SubSeqIsSuffix
  <2> QED BY <2>5, <2>6, <2>7 DEF Suffix
<1> QED BY <1>2, <1>3

\* A suffix has no other elements than the sequence.
LEMMA SuffixElements ==
  ASSUME NEW S, NEW s \in Seq(S), NEW t \in Seq(S), Suffix(t, s)
  PROVE  EventsIn(t) \subseteq EventsIn(s)
<1>1. PICK d \in 0 .. Len(s) : Tailing(t, s, d)
  BY DEF Suffix
<1>2. ASSUME NEW i \in DOMAIN t
      PROVE  t[i] \in EventsIn(s)
  <2>1. i \in 1 .. Len(t) /\ Len(s) \in Nat /\ Len(t) \in Nat
    BY LenProperties
  <2>2. i + d \in DOMAIN s /\ t[i] = s[i + d]
    BY <1>1, <2>1, LenProperties DEF Tailing
  <2> QED BY <2>2 DEF EventsIn
<1> QED BY <1>2 DEF EventsIn

\* What appending adds.
LEMMA AppendElements ==
  ASSUME NEW S, NEW s \in Seq(S), NEW e \in S
  PROVE  EventsIn(Append(s, e)) = EventsIn(s) \cup {e}
<1>1. /\ Append(s, e) \in Seq(S) /\ Len(Append(s, e)) = Len(s) + 1
      /\ \A i \in 1 .. Len(s) : Append(s, e)[i] = s[i]
      /\ Append(s, e)[Len(s) + 1] = e
  BY AppendProperties
<1>2. Len(s) \in Nat /\ DOMAIN s = 1 .. Len(s) /\ DOMAIN Append(s, e) = 1 .. Len(s) + 1
  BY <1>1, LenProperties
<1> QED BY <1>1, <1>2 DEF EventsIn

\* What concatenating adds.
LEMMA ConcatElements ==
  ASSUME NEW S, NEW s \in Seq(S), NEW t \in Seq(S)
  PROVE  EventsIn(s \o t) = EventsIn(s) \cup EventsIn(t)
<1>1. /\ s \o t \in Seq(S) /\ Len(s \o t) = Len(s) + Len(t)
      /\ \A i \in 1 .. Len(s) + Len(t) : (s \o t)[i] = IF i <= Len(s) THEN s[i] ELSE t[i - Len(s)]
  BY ConcatProperties
<1>2. /\ Len(s) \in Nat /\ DOMAIN s = 1 .. Len(s) /\ Len(t) \in Nat /\ DOMAIN t = 1 .. Len(t)
      /\ DOMAIN (s \o t) = 1 .. Len(s) + Len(t)
  BY <1>1, LenProperties
<1>3. ASSUME NEW i \in DOMAIN t
      PROVE  t[i] \in EventsIn(s \o t)
  <2>1. i + Len(s) \in DOMAIN (s \o t) /\ (s \o t)[i + Len(s)] = t[i]
    BY <1>1, <1>2
  <2> QED BY <2>1 DEF EventsIn
<1>4. ASSUME NEW i \in DOMAIN s
      PROVE  s[i] \in EventsIn(s \o t)
  BY <1>1, <1>2 DEF EventsIn
<1>5. EventsIn(s \o t) \subseteq EventsIn(s) \cup EventsIn(t)
  BY <1>1, <1>2 DEF EventsIn
<1> QED BY <1>3, <1>4, <1>5 DEF EventsIn

\* What the head and the rest of a sequence have.
LEMMA TailElements ==
  ASSUME NEW S, NEW s \in Seq(S), s # << >>
  PROVE  /\ Head(s) \in S /\ Tail(s) \in Seq(S) /\ Len(Tail(s)) = Len(s) - 1
         /\ EventsIn(s) = {Head(s)} \cup EventsIn(Tail(s))
<1>1. /\ Head(s) \in S /\ Tail(s) \in Seq(S) /\ Len(Tail(s)) = Len(s) - 1
      /\ \A i \in 1 .. Len(Tail(s)) : Tail(s)[i] = s[i + 1]
  BY HeadTailProperties
<1>2. /\ Len(s) \in Nat \ {0} /\ DOMAIN s = 1 .. Len(s) /\ Head(s) = s[1]
      /\ DOMAIN Tail(s) = 1 .. Len(s) - 1
  BY <1>1, LenProperties, EmptySeq
<1>3. ASSUME NEW i \in DOMAIN s, i # 1
      PROVE  s[i] \in EventsIn(Tail(s))
  <2>1. i - 1 \in DOMAIN Tail(s) /\ Tail(s)[i - 1] = s[i]
    BY <1>1, <1>2, <1>3
  <2> QED BY <2>1 DEF EventsIn
<1>4. EventsIn(Tail(s)) \subseteq EventsIn(s)
  BY <1>1, <1>2 DEF EventsIn
<1> QED BY <1>1, <1>2, <1>3, <1>4 DEF EventsIn

\* The events of a sequence have numbers for ids.
LEMMA Numbers ==
  ASSUME NEW s \in Seq(EventType)
  PROVE  /\ Len(s) \in Nat /\ DOMAIN s = 1 .. Len(s)
         /\ \A i \in DOMAIN s : s[i] \in EventType /\ s[i].id \in Int /\ s[i].n \in Nat
<1>1. Len(s) \in Nat /\ DOMAIN s = 1 .. Len(s)
  BY LenProperties
<1>2. \A i \in DOMAIN s : s[i] \in EventType
  BY <1>1, ElementOfSeq
<1> QED BY <1>1, <1>2, BoundsAssumption DEF EventType

\* The index of a file is above every id of the file, and not above the next number.
LEMMA IndexOfFile ==
  ASSUME TypeOK, Counted
  PROVE  /\ NextIndex(rollout) \in 1 .. made + 1
         /\ \A i \in DOMAIN rollout : rollout[i].id < NextIndex(rollout)
<1> DEFINE S == {0} \cup IdsOf(rollout)
           T == {made - x : x \in S}
<1>1. made \in Nat
  BY BoundsAssumption DEF TypeOK
<1>2. \A i \in DOMAIN rollout : rollout[i].id \in Int /\ rollout[i].id <= made
  BY Numbers DEF TypeOK, Counted
<1>3. \A x \in S : x \in Int /\ x <= made
  BY <1>1, <1>2 DEF IdsOf
<1>4. 0 \in S /\ \A i \in DOMAIN rollout : rollout[i].id \in S
  BY DEF IdsOf
<1>5. NextIndex(rollout) = 1 + MaxOf(S)
  BY DEF NextIndex
<1> HIDE DEF S
<1>6. T \in SUBSET Nat /\ T # {}
  BY <1>1, <1>3, <1>4
<1>7. PICK t \in T : \A y \in T : t <= y
  <2> HIDE DEF T
  <2> QED BY <1>6, Least
<1>8. PICK m \in S : t = made - m
  OBVIOUS
<1>9. \A y \in S : y <= m
  <2>1. ASSUME NEW y \in S PROVE y <= m
    <3>1. made - y \in T
      OBVIOUS
    <3>2. made - m <= made - y
      BY <1>7, <1>8, <3>1
    <3> QED BY <1>1, <1>3, <3>2
  <2> QED BY <2>1
<1>10. MaxOf(S) \in S /\ \A y \in S : y <= MaxOf(S)
  BY <1>9 DEF MaxOf
<1> HIDE DEF T
<1>11. MaxOf(S) \in Int /\ MaxOf(S) <= made /\ 0 <= MaxOf(S)
  BY <1>3, <1>4, <1>10
<1>12. \A i \in DOMAIN rollout : rollout[i].id <= MaxOf(S)
  BY <1>4, <1>10
<1> QED BY <1>1, <1>2, <1>5, <1>11, <1>12

-----------------------------------------------------------------------------
(* What the parts of the actions produce.                                  *)

\* A new event has an id and a place of its own, within the bounds.
LEMMA FreshEvent ==
  ASSUME TypeOK, Counted, Reserve, NEW kind \in Kinds
  PROVE  /\ Fresh(kind) \in EventType /\ Fresh(kind).kind = kind
         /\ Fresh(kind).id = nextId /\ Fresh(kind).n = made'
         /\ nextId' \in 0 .. MaxEvents + 1 /\ made' \in 0 .. MaxEvents /\ made' = made + 1
         /\ nextId' = nextId + 1 /\ nextId' <= made' + 1
BY BoundsAssumption DEF TypeOK, Counted, Reserve, Fresh, EventType

\* A push leaves the end of the buffer with the event.
LEMMA PushKeepsEnd ==
  ASSUME TypeOK, NEW e \in EventType, Push(e)
  PROVE  /\ buffer' \in Seq(EventType) /\ Len(buffer') <= Cap
         /\ Suffix(buffer', Append(buffer, e))
         /\ EventsIn(buffer') \subseteq EventsIn(buffer) \cup {e}
<1>1. Append(buffer, e) \in Seq(EventType)
  BY AppendProperties DEF TypeOK
<1>2. buffer' \in Seq(EventType) /\ Len(buffer') <= Cap /\ Suffix(buffer', Append(buffer, e))
  BY <1>1, TrimKeepsEnd DEF Push
<1>3. EventsIn(buffer') \subseteq EventsIn(Append(buffer, e))
  BY <1>1, <1>2, SuffixElements
<1>4. EventsIn(Append(buffer, e)) = EventsIn(buffer) \cup {e}
  BY AppendElements DEF TypeOK
<1> QED BY <1>2, <1>3, <1>4

\* A send adds the event to what the receiver holds, unless that is full.
LEMMA SendAdds ==
  ASSUME TypeOK, NEW e \in EventType, Send(e)
  PROVE  /\ rx' \in Seq(EventType) /\ Len(rx') <= ChannelCap
         /\ lagged' \in BOOLEAN /\ excused' \in BOOLEAN
         /\ EventsIn(rx') \subseteq EventsIn(rx) \cup {e}
         /\ conn # "off" /\ ~lagged' => ~lagged /\ EventsIn(rx') = EventsIn(rx) \cup {e}
<1>1. CASE conn = "off"
  BY <1>1 DEF TypeOK, Send
<1>2. CASE conn # "off" /\ Len(rx) = ChannelCap
  <2>1. rx' = Append(Tail(rx), e) /\ lagged' = TRUE /\ excused' = TRUE
    BY <1>2 DEF Send, TypeOK
  <2>2. rx # << >>
    BY <1>2, ChannelCapAssumption
  <2>3. /\ Tail(rx) \in Seq(EventType) /\ Len(Tail(rx)) = Len(rx) - 1
        /\ EventsIn(rx) = {Head(rx)} \cup EventsIn(Tail(rx))
    BY <2>2, TailElements DEF TypeOK
  <2>4. rx' \in Seq(EventType) /\ Len(rx') = Len(Tail(rx)) + 1
    BY <2>1, <2>3, AppendProperties
  <2>5. EventsIn(rx') = EventsIn(Tail(rx)) \cup {e}
    <3> DEFINE t == Tail(rx)
    <3>1. t \in Seq(EventType)
      BY <2>3
    <3> HIDE DEF t
    <3>2. EventsIn(Append(t, e)) = EventsIn(t) \cup {e}
      BY <3>1, AppendElements
    <3> QED BY <2>1, <3>2 DEF t
  <2>6. Len(rx') = ChannelCap
    BY <1>2, <2>3, <2>4, ChannelCapAssumption
  <2> QED BY <2>1, <2>3, <2>4, <2>5, <2>6, ChannelCapAssumption
<1>3. CASE conn # "off" /\ Len(rx) # ChannelCap
  <2>1. rx' = Append(rx, e) /\ lagged' = lagged /\ excused' = excused
    BY <1>3 DEF Send, TypeOK
  <2>2. rx' \in Seq(EventType) /\ Len(rx') = Len(rx) + 1
    BY <2>1, AppendProperties DEF TypeOK
  <2>3. EventsIn(rx') = EventsIn(rx) \cup {e}
    BY <2>1, AppendElements DEF TypeOK
  <2>4. Len(rx) \in Nat /\ Len(rx) <= ChannelCap
    BY LenProperties DEF TypeOK
  <2>5. Len(rx') <= ChannelCap
    BY <1>3, <2>2, <2>4, ChannelCapAssumption
  <2> QED BY <2>1, <2>2, <2>3, <2>5 DEF TypeOK
<1> QED BY <1>1, <1>2, <1>3

\* A replay adds the end of the buffer to what the client has.
LEMMA ReplayAdds ==
  ASSUME TypeOK, Replay
  PROVE  /\ ReplayAfter(buffer, Cursor) \in Seq(EventType)
         /\ Suffix(ReplayAfter(buffer, Cursor), buffer)
         /\ got' = got \o ReplayAfter(buffer, Cursor)
         /\ got' \in Seq(EventType) /\ Len(got') >= Len(got)
         /\ EventsIn(got') = EventsIn(got) \cup EventsIn(ReplayAfter(buffer, Cursor))
<1> DEFINE new == ReplayAfter(buffer, Cursor)
<1>1. new \in Seq(EventType) /\ Suffix(new, buffer)
  BY ReplayIsEnd DEF TypeOK
<1>2. got' = got \o new
  BY DEF Replay
<1> HIDE DEF new
<1>3. got' \in Seq(EventType) /\ Len(got') = Len(got) + Len(new)
  BY <1>1, <1>2, ConcatProperties DEF TypeOK
<1>4. Len(new) \in Nat /\ Len(got) \in Nat
  BY <1>1, LenProperties DEF TypeOK
<1>5. EventsIn(got') = EventsIn(got) \cup EventsIn(new)
  BY <1>1, <1>2, ConcatElements DEF TypeOK
<1> QED BY <1>1, <1>2, <1>3, <1>4, <1>5 DEF new

\* A delivery moves the oldest event of the receiver.
LEMMA DeliverMoves ==
  ASSUME TypeOK, Deliver
  PROVE  /\ got' = Append(got, Head(rx)) /\ Head(rx) \in EventType
         /\ got' \in Seq(EventType) /\ Len(got') = Len(got) + 1
         /\ rx' \in Seq(EventType) /\ Len(rx') <= ChannelCap
         /\ EventsIn(got') = EventsIn(got) \cup {Head(rx)}
         /\ EventsIn(rx) = {Head(rx)} \cup EventsIn(rx')
<1>1. /\ Head(rx) \in EventType /\ Tail(rx) \in Seq(EventType) /\ Len(Tail(rx)) = Len(rx) - 1
      /\ EventsIn(rx) = {Head(rx)} \cup EventsIn(Tail(rx))
  BY TailElements DEF TypeOK, Deliver
<1>2. got' \in Seq(EventType) /\ Len(got') = Len(got) + 1
  BY <1>1, AppendProperties DEF TypeOK, Deliver
<1>3. EventsIn(got') = EventsIn(got) \cup {Head(rx)}
  BY <1>1, AppendElements DEF TypeOK, Deliver
<1>4. Len(rx) \in Nat /\ Len(rx) <= ChannelCap
  BY LenProperties DEF TypeOK
<1> QED BY <1>1, <1>2, <1>3, <1>4, ChannelCapAssumption DEF Deliver

\* Loading leaves the file as it is, or with one more event after all others; the buffer
\* has its end.
LEMMA LoadRepairs ==
  ASSUME TypeOK, Counted, Load
  PROVE  /\ rollout' \in Seq(EventType)
         /\ buffer' \in Seq(EventType) /\ Len(buffer') <= Cap /\ Suffix(buffer', rollout')
         /\ nextId' \in 1 .. MaxEvents + 1 /\ nextId' <= made' + 1
         /\ made' \in 0 .. MaxEvents /\ made <= made'
         /\ \/ rollout' = rollout /\ \A i \in DOMAIN rollout : rollout[i].id < nextId'
            \/ \E e \in EventType :
                 /\ rollout' = Append(rollout, e) /\ e.kind \in Recorded
                 /\ e.id + 1 = nextId' /\ e.n = made' /\ made' = made + 1
                 /\ \A i \in DOMAIN rollout : rollout[i].id < e.id
<1> DEFINE index == NextIndex(rollout)
           error == [id |-> index, n |-> made + 1, kind |-> "error"]
<1>1. /\ index \in 1 .. made + 1
      /\ \A i \in DOMAIN rollout : rollout[i].id < index
  BY IndexOfFile
<1>2. made \in 0 .. MaxEvents
  BY DEF TypeOK
<1> HIDE DEF index
<1>3. CASE Unfinished
  <2>1. made < MaxEvents
    BY <1>3 DEF Load
  <2>2. /\ rollout' = Append(rollout, error) /\ buffer' = Trim(Append(rollout, error))
        /\ nextId' = index + 1 /\ made' = made + 1
    BY <1>3 DEF Load, index
  <2>3. error \in EventType
    BY <1>1, <1>2, <2>1, BoundsAssumption DEF EventType, Kinds
  <2>4. rollout' \in Seq(EventType)
    BY <2>2, <2>3, AppendProperties DEF TypeOK
  <2>5. buffer' \in Seq(EventType) /\ Len(buffer') <= Cap /\ Suffix(buffer', rollout')
    BY <2>2, <2>4, TrimKeepsEnd
  <2>6. error.kind \in Recorded /\ error.id = index /\ error.n = made + 1
    BY DEF Recorded
  <2> HIDE DEF error
  <2>7. /\ nextId' \in 1 .. MaxEvents + 1 /\ nextId' <= made' + 1
        /\ made' \in 0 .. MaxEvents /\ made <= made'
    BY <1>1, <1>2, <2>1, <2>2, BoundsAssumption
  <2>8. /\ error.id + 1 = nextId' /\ error.n = made'
        /\ \A i \in DOMAIN rollout : rollout[i].id < error.id
    BY <1>1, <2>2, <2>6
  <2> QED BY <2>2, <2>3, <2>4, <2>5, <2>6, <2>7, <2>8
<1>4. CASE ~Unfinished
  <2>1. rollout' = rollout /\ buffer' = Trim(rollout) /\ nextId' = index /\ made' = made
    BY <1>4 DEF Load, index
  <2>2. buffer' \in Seq(EventType) /\ Len(buffer') <= Cap /\ Suffix(buffer', rollout')
    BY <2>1, TrimKeepsEnd DEF TypeOK
  <2>3. nextId' \in 1 .. MaxEvents + 1 /\ nextId' <= made' + 1
    BY <1>1, <1>2, <2>1, BoundsAssumption
  <2> QED BY <1>1, <1>2, <2>1, <2>2, <2>3 DEF TypeOK
<1> QED BY <1>3, <1>4

-----------------------------------------------------------------------------
(* The steps keep the types.                                               *)

LEMMA InitTypes == Init => TypeOK
<1> SUFFICES ASSUME Init PROVE TypeOK
  OBVIOUS
<1>1. None.event \in EventType
  BY BoundsAssumption DEF None, EventType, Kinds
<1>2. writer \in TaskType({"append", "newline", "push", "send"})
      /\ sink \in TaskType({"push", "send", "delta", "sendDelta"})
  BY <1>1 DEF Init, None, TaskType
<1>3. << >> \in Seq(EventType) /\ Len(<< >>) = 0
  BY EmptySeq
<1>6. answers \in 0 .. MaxAnswers /\ silent \in SUBSET EventType
      /\ line \in {"whole", "open", "broken"}
  BY BoundsAssumption DEF Init
<1>4. /\ rollout \in Seq(EventType) /\ buffer \in Seq(EventType) /\ Len(buffer) <= Cap
      /\ rx \in Seq(EventType) /\ Len(rx) <= ChannelCap /\ got \in Seq(EventType)
      /\ opened \in 0 .. Len(got)
  BY <1>3, CapAssumption, ChannelCapAssumption DEF Init
<1>5. nextId \in 0 .. MaxEvents + 1 /\ made \in 0 .. MaxEvents /\ faults \in 0 .. MaxFaults
  BY BoundsAssumption DEF Init
<1> QED BY <1>2, <1>4, <1>5, <1>6 DEF Init, TypeOK

LEMMA NoneType == None \in TaskType({})
<1>1. None.event \in EventType
  BY BoundsAssumption DEF None, EventType, Kinds
<1> QED BY <1>1 DEF None, TaskType

LEMMA SessionTypes ==
  ASSUME TypeOK, Counted, SessionStep
  PROVE  TypeOK'
<1> DEFINE places == {"append", "newline", "push", "send"}
<1>1. ASSUME NEW kind \in {"turn", "tool", "end", "done"}, Record(kind)
      PROVE  TypeOK'
  <2>1. kind \in Kinds /\ Reserve
    BY <1>1 DEF Record, Kinds
  <2>2. /\ Fresh(kind) \in EventType
        /\ nextId' \in 0 .. MaxEvents + 1 /\ made' \in 0 .. MaxEvents
    BY <2>1, FreshEvent
  <2>3. writer' = [pc |-> IF kind \in Stored THEN "append" ELSE "push", event |-> Fresh(kind)]
        /\ stage' \in {"idle", "mark", "turn"}
    BY <1>1 DEF Record, StageAfter
  <2>4. writer' \in TaskType(places)
    BY <2>2, <2>3 DEF TaskType
  <2> QED BY <1>1, <2>2, <2>3, <2>4 DEF TypeOK, Record, stream, other
<1>2. CASE AppendItem
  <2>1. writer.event \in EventType /\ writer' = [writer EXCEPT !.pc = "newline"]
    BY <1>2 DEF AppendItem, TypeOK, TaskType
  <2>2. writer' \in TaskType(places)
    BY <2>1 DEF TypeOK, TaskType
  <2>3. rollout' \in Seq(EventType)
    BY <1>2, <2>1, AppendProperties DEF AppendItem, TypeOK
  <2>4. line' \in {"whole", "open", "broken"}
    BY <1>2 DEF AppendItem
  <2> QED BY <1>2, <2>2, <2>3, <2>4 DEF TypeOK, AppendItem, stream, other
<1>7. CASE EndLine
  <2>1. writer' \in TaskType(places) /\ line' \in {"whole", "open", "broken"}
    BY <1>7 DEF EndLine, TypeOK, TaskType
  <2> QED BY <1>7, <2>1 DEF TypeOK, EndLine, stream, other
<1>3. CASE AppendFails
  <2>1. writer' \in TaskType(places)
    BY <1>3, NoneType DEF AppendFails, TaskType
  <2>3. silent' \in SUBSET EventType /\ line' \in {"whole", "open", "broken"}
    BY <1>3 DEF AppendFails, TypeOK, TaskType
  <2>2. faults' \in 0 .. MaxFaults /\ stage' \in {"idle", "turn"}
    BY <1>3, BoundsAssumption DEF AppendFails, Fault, TypeOK
  <2> QED BY <1>3, <2>1, <2>2, <2>3 DEF TypeOK, AppendFails, stream
<1>4. CASE PushRecord
  <2>1. writer.event \in EventType /\ writer' = [writer EXCEPT !.pc = "send"]
    BY <1>4 DEF PushRecord, TypeOK, TaskType
  <2>2. writer' \in TaskType(places)
    BY <2>1 DEF TypeOK, TaskType
  <2>3. buffer' \in Seq(EventType) /\ Len(buffer') <= Cap
    BY <1>4, <2>1, PushKeepsEnd DEF PushRecord
  <2> QED BY <1>4, <2>2, <2>3 DEF TypeOK, PushRecord, stream, other
<1>5. CASE SendRecord
  <2>1. writer.event \in EventType /\ writer' \in TaskType(places)
    BY <1>5, NoneType DEF SendRecord, TypeOK, TaskType
  <2>2. /\ rx' \in Seq(EventType) /\ Len(rx') <= ChannelCap
        /\ lagged' \in BOOLEAN /\ excused' \in BOOLEAN
    BY <1>5, <2>1, SendAdds DEF SendRecord
  <2> QED BY <1>5, <2>1, <2>2 DEF TypeOK, SendRecord, other
<1>6. CASE MarkActive \/ ClearActive
  BY <1>6 DEF TypeOK, MarkActive, ClearActive, stream, other
<1> QED BY <1>1, <1>2, <1>3, <1>4, <1>5, <1>6, <1>7 DEF SessionStep

LEMMA SinkTypes ==
  ASSUME TypeOK, Counted, SinkStep
  PROVE  TypeOK'
<1> DEFINE places == {"push", "send", "delta", "sendDelta"}
<1>1. CASE Output
  <2>1. /\ Fresh("output") \in EventType
        /\ nextId' \in 0 .. MaxEvents + 1 /\ made' \in 0 .. MaxEvents
    BY <1>1, FreshEvent DEF Output, Kinds
  <2>2. sink' \in TaskType(places)
    BY <1>1, <2>1 DEF Output, TaskType
  <2> QED BY <1>1, <2>1, <2>2 DEF TypeOK, Output, session, stream, other
<1>2. CASE PushOutput
  <2>1. sink.event \in EventType /\ sink' = [sink EXCEPT !.pc = "send"]
    BY <1>2 DEF PushOutput, TypeOK, TaskType
  <2>2. sink' \in TaskType(places)
    BY <2>1 DEF TypeOK, TaskType
  <2>3. buffer' \in Seq(EventType) /\ Len(buffer') <= Cap
    BY <1>2, <2>1, PushKeepsEnd DEF PushOutput
  <2> QED BY <1>2, <2>2, <2>3 DEF TypeOK, PushOutput, session, stream, other
<1>3. CASE SendOutput
  <2>1. sink.event \in EventType /\ sink' = [sink EXCEPT !.pc = "delta"]
    BY <1>3 DEF SendOutput, TypeOK, TaskType
  <2>2. sink' \in TaskType(places)
    BY <2>1 DEF TypeOK, TaskType
  <2>3. /\ rx' \in Seq(EventType) /\ Len(rx') <= ChannelCap
        /\ lagged' \in BOOLEAN /\ excused' \in BOOLEAN
    BY <1>3, <2>1, SendAdds DEF SendOutput
  <2> QED BY <1>3, <2>2, <2>3 DEF TypeOK, SendOutput, session, other
<1>4. CASE Delta
  <2>1. /\ Fresh("delta") \in EventType
        /\ nextId' \in 0 .. MaxEvents + 1 /\ made' \in 0 .. MaxEvents
    BY <1>4, FreshEvent DEF Delta, Kinds
  <2>2. sink' \in TaskType(places)
    BY <1>4, <2>1 DEF Delta, TaskType
  <2>3. buffer' \in Seq(EventType) /\ Len(buffer') <= Cap
    BY <1>4, <2>1, PushKeepsEnd DEF Delta
  <2> QED BY <1>4, <2>1, <2>2, <2>3 DEF TypeOK, Delta, session, stream, other
<1>5. CASE NoDelta
  <2>1. sink' \in TaskType(places)
    BY <1>5, NoneType DEF NoDelta, TaskType
  <2> QED BY <1>5, <2>1 DEF TypeOK, NoDelta, session, stream, other
<1>6. CASE SendDelta
  <2>1. sink.event \in EventType /\ sink' \in TaskType(places)
    BY <1>6, NoneType DEF SendDelta, TypeOK, TaskType
  <2>2. /\ rx' \in Seq(EventType) /\ Len(rx') <= ChannelCap
        /\ lagged' \in BOOLEAN /\ excused' \in BOOLEAN
    BY <1>6, <2>1, SendAdds DEF SendDelta
  <2> QED BY <1>6, <2>1, <2>2 DEF TypeOK, SendDelta, session, other
<1> QED BY <1>1, <1>2, <1>3, <1>4, <1>5, <1>6 DEF SinkStep

LEMMA ClientTypes ==
  ASSUME TypeOK, ClientStep
  PROVE  TypeOK'
<1>1. << >> \in Seq(EventType) /\ Len(<< >>) <= ChannelCap
  BY EmptySeq, ChannelCapAssumption
<1>2. Len(got) \in Nat
  BY LenProperties DEF TypeOK
<1>3. CASE Subscribe
  <2>1. /\ rx' \in Seq(EventType) /\ Len(rx') <= ChannelCap /\ got' = got
        /\ opened' \in 0 .. Len(got)
    BY <1>1, <1>2, <1>3 DEF Subscribe
  <2> QED BY <1>3, <2>1 DEF TypeOK, Subscribe, log, session, other
<1>4. CASE Replay
  <2>1. got' \in Seq(EventType) /\ Len(got') >= Len(got) /\ excused' \in BOOLEAN
    BY <1>4, ReplayAdds DEF TypeOK, Replay, other
  <2>2. opened' \in 0 .. Len(got')
    <3>1. Len(got') \in Nat
      BY <2>1, LenProperties
    <3> QED BY <1>2, <1>4, <2>1, <3>1 DEF TypeOK, Replay, other
  <2> QED BY <1>4, <2>1, <2>2 DEF TypeOK, Replay, log, session, other
<1>5. CASE Deliver
  <2>1. /\ got' \in Seq(EventType) /\ Len(got') = Len(got) + 1
        /\ rx' \in Seq(EventType) /\ Len(rx') <= ChannelCap
    BY <1>5, DeliverMoves
  <2>2. opened' \in 0 .. Len(got')
    BY <1>2, <1>5, <2>1 DEF TypeOK, Deliver, other
  <2> QED BY <1>5, <2>1, <2>2 DEF TypeOK, Deliver, log, session, other
<1>6. CASE Disconnect
  <2>1. faults' \in 0 .. MaxFaults
    BY <1>6, BoundsAssumption DEF Disconnect, Fault, TypeOK
  <2> QED BY <1>1, <1>6, <2>1 DEF TypeOK, Disconnect, log, session, other
<1> QED BY <1>3, <1>4, <1>5, <1>6 DEF ClientStep, Open

\* What the handler of an answer writes is an event, which the session did not record.
LEMMA AnswerEvent ==
  ASSUME TypeOK, AppendAnswer
  PROVE  /\ [id |-> -answers', n |-> made', kind |-> "answer"] \in EventType
         /\ -answers' \in Int /\ -answers' < 0 /\ made' \in Nat /\ made' = made + 1
         /\ "answer" \in Stored /\ "answer" \notin Recorded
<1>1. /\ MaxEvents \in Nat /\ MaxAnswers \in Nat
      /\ made \in 0 .. MaxEvents /\ answers \in 0 .. MaxAnswers
      /\ made < MaxEvents /\ made' = made + 1 /\ answers < MaxAnswers /\ answers' = answers + 1
  BY BoundsAssumption DEF AppendAnswer, TypeOK
<1>2. made' \in 0 .. MaxEvents /\ -answers' \in -MaxAnswers .. MaxEvents /\ -answers' < 0
  BY <1>1
<1> QED BY <1>1, <1>2 DEF EventType, Kinds, Stored, Recorded

LEMMA AnswerTypes ==
  ASSUME TypeOK, AnswerStep
  PROVE  TypeOK'
<1>1. CASE AppendAnswer
  <2>1. /\ made' \in 1 .. MaxEvents /\ answers' \in 1 .. MaxAnswers
        /\ -answers' \in -MaxAnswers .. MaxEvents
    BY <1>1, BoundsAssumption DEF AppendAnswer, TypeOK
  <2>2. [id |-> -answers', n |-> made', kind |-> "answer"] \in EventType
    BY <1>1, AnswerEvent
  <2>3. rollout' \in Seq(EventType)
    BY <1>1, <2>2, AppendProperties DEF AppendAnswer, TypeOK
  <2>4. line' \in {"whole", "open", "broken"}
    BY <1>1 DEF AppendAnswer, Joined
  <2>5. made' \in 0 .. MaxEvents /\ answers' \in 0 .. MaxAnswers
    BY <2>1, BoundsAssumption
  <2> QED BY <1>1, <2>3, <2>4, <2>5 DEF TypeOK, AppendAnswer, session, stream
<1>2. CASE AnswerFails
  <2>1. faults' \in 0 .. MaxFaults /\ answers' \in 0 .. MaxAnswers
    BY <1>2, BoundsAssumption DEF AnswerFails, Fault, TypeOK
  <2>2. line' \in {"whole", "open", "broken"}
    BY <1>2 DEF AnswerFails, TypeOK
  <2> QED BY <1>2, <2>1, <2>2 DEF TypeOK, AnswerFails, session, stream
<1> QED BY <1>1, <1>2 DEF AnswerStep

LEMMA TypesKept ==
  ASSUME TypeOK, Counted, [Next]_vars
  PROVE  TypeOK'
<1>1. CASE Restart
  <2>1. << >> \in Seq(EventType) /\ Len(<< >>) <= Cap /\ Len(<< >>) <= ChannelCap
    BY EmptySeq, CapAssumption, ChannelCapAssumption
  <2>2. writer' \in TaskType({"append", "newline", "push", "send"})
        /\ sink' \in TaskType({"push", "send", "delta", "sendDelta"})
    BY <1>1, NoneType DEF Restart, TaskType
  <2>3. /\ faults' \in 0 .. MaxFaults /\ nextId' \in 0 .. MaxEvents + 1
        /\ answers' \in 0 .. MaxAnswers
    BY <1>1, BoundsAssumption DEF Restart, Fault, TypeOK
  <2> QED BY <1>1, <2>1, <2>2, <2>3 DEF TypeOK, Restart
<1>2. CASE Load
  <2>1. /\ rollout' \in Seq(EventType)
        /\ buffer' \in Seq(EventType) /\ Len(buffer') <= Cap
        /\ nextId' \in 1 .. MaxEvents + 1 /\ made' \in 0 .. MaxEvents
    BY <1>2, LoadRepairs
  <2>2. nextId' \in 0 .. MaxEvents + 1 /\ line' \in {"whole", "open", "broken"}
    BY <1>2, <2>1, BoundsAssumption DEF Load, Joined, TypeOK
  <2> QED BY <1>2, <2>1, <2>2 DEF TypeOK, Load, session, stream, other
<1>3. CASE UNCHANGED vars
  BY <1>3 DEF TypeOK, vars, session, stream, other
<1>4. CASE LoadFails
  <2>1. faults' \in 0 .. MaxFaults /\ line' \in {"whole", "open", "broken"}
    BY <1>4, BoundsAssumption DEF LoadFails, Fault, TypeOK
  <2> QED BY <1>4, <2>1 DEF TypeOK, LoadFails, session, stream, other
<1> QED BY <1>1, <1>2, <1>3, <1>4, SessionTypes, SinkTypes, AnswerTypes, ClientTypes DEF Next

-----------------------------------------------------------------------------
(* The file: its order, the counter, and the tasks that add to it.         *)

FileInv == FileOrdered /\ Counted /\ WriterAhead /\ SinkLive /\ Unloaded

LEMMA InitFile == Init => FileInv
BY DEF Init, FileInv, FileOrdered, Counted, WriterAhead, SinkLive, Unloaded, None, Free,
       Stored, Recorded

\* One more event of the session after all of its own, or an answer, keeps a file ordered and
\* counted.
LEMMA FileGrows ==
  ASSUME TypeOK, FileOrdered, NEW e \in EventType, rollout' = Append(rollout, e), e.kind \in Stored,
         e.kind \in Recorded =>
           \A i \in DOMAIN rollout : rollout[i].kind \in Recorded =>
             rollout[i].id < e.id /\ rollout[i].n < e.n
  PROVE  /\ FileOrdered' /\ rollout' \in Seq(EventType)
         /\ EventsIn(rollout') = EventsIn(rollout) \cup {e}
         /\ \A i \in DOMAIN rollout' :
              (i \in DOMAIN rollout /\ rollout'[i] = rollout[i]) \/ rollout'[i] = e
<1>1. /\ rollout' \in Seq(EventType) /\ Len(rollout') = Len(rollout) + 1
      /\ \A i \in 1 .. Len(rollout) : rollout'[i] = rollout[i]
      /\ rollout'[Len(rollout) + 1] = e
  <2>1. rollout \in Seq(EventType)
    BY DEF TypeOK
  <2> QED BY <2>1, AppendProperties
<1>2. Len(rollout) \in Nat /\ DOMAIN rollout = 1 .. Len(rollout)
      /\ DOMAIN rollout' = 1 .. Len(rollout) + 1
  BY <1>1, Numbers DEF TypeOK
<1>3. \A i \in DOMAIN rollout' : (i \in DOMAIN rollout /\ rollout'[i] = rollout[i]) \/ rollout'[i] = e
  BY <1>1, <1>2
<1>4. \A i \in DOMAIN rollout' : rollout'[i].kind \in Stored
  BY <1>3 DEF FileOrdered
<1>5. ASSUME NEW i \in DOMAIN rollout', NEW j \in DOMAIN rollout', i < j,
             rollout'[i].kind \in Recorded, rollout'[j].kind \in Recorded
      PROVE  rollout'[i].id < rollout'[j].id /\ rollout'[i].n < rollout'[j].n
  <2>1. i \in DOMAIN rollout /\ rollout'[i] = rollout[i]
    BY <1>1, <1>2, <1>5
  <2>2. CASE j \in DOMAIN rollout
    BY <1>1, <1>2, <1>5, <2>1, <2>2 DEF FileOrdered
  <2>3. CASE j = Len(rollout) + 1
    BY <1>1, <1>5, <2>1, <2>3
  <2> QED BY <1>2, <2>2, <2>3
<1>6. EventsIn(rollout') = EventsIn(rollout) \cup {e}
  BY AppendElements DEF TypeOK
<1>7. FileOrdered'
  BY <1>4, <1>5 DEF FileOrdered
<1> QED BY <1>1, <1>3, <1>6, <1>7

\* No other action changes the file.
LEMMA FileChanges ==
  ASSUME [Next]_vars
  PROVE  AppendItem \/ AppendAnswer \/ Load \/ UNCHANGED rollout
BY DEF Next, SessionStep, Record, EndLine, AppendFails, PushRecord, SendRecord, MarkActive, ClearActive,
       SinkStep, Output, PushOutput, SendOutput, Delta, NoDelta, SendDelta, AnswerStep, AnswerFails,
       ClientStep, Open, Subscribe, Replay, Deliver, Disconnect, log, Restart, LoadFails, vars

LEMMA AppendKeepsFile ==
  ASSUME TypeOK, FileInv, AppendItem
  PROVE  FileInv'
<1> USE DEF FileInv
<1> DEFINE w == writer.event
<1>1. /\ writer.pc = "append" /\ w \in EventType /\ rollout' = Append(rollout, w)
      /\ writer'.pc = "newline" /\ writer'.event = w
      /\ loaded' = loaded /\ nextId' = nextId /\ made' = made /\ sink' = sink /\ conn' = conn
  BY DEF AppendItem, TypeOK, TaskType, stream
<1>2. /\ w.kind \in Recorded /\ w.kind \in Stored /\ w.n <= made /\ w.id < nextId
      /\ \A i \in DOMAIN rollout : rollout[i].kind \in Recorded =>
           rollout[i].id < w.id /\ rollout[i].n < w.n
  BY <1>1 DEF WriterAhead, Free, Stored
<1> HIDE DEF w
<1>3. /\ FileOrdered' /\ EventsIn(rollout') = EventsIn(rollout) \cup {w}
      /\ \A i \in DOMAIN rollout' :
           (i \in DOMAIN rollout /\ rollout'[i] = rollout[i]) \/ rollout'[i] = w
  BY <1>1, <1>2, FileGrows
<1>4. /\ w.id \in Int /\ w.n \in Nat /\ nextId \in Int /\ made \in Int /\ nextId <= made + 1
      /\ \A i \in DOMAIN rollout : rollout[i].id \in Int /\ rollout[i].n \in Nat
  <2>1. w.id \in Int /\ w.n \in Nat
    BY <1>1, BoundsAssumption DEF EventType
  <2>2. nextId \in Int /\ made \in Int /\ nextId <= made + 1
    BY BoundsAssumption DEF TypeOK, Counted
  <2> QED BY <2>1, <2>2, Numbers DEF TypeOK
<1>5. Counted'
  BY <1>1, <1>2, <1>3, <1>4 DEF Counted
<1>6. \A e \in EventsIn(rollout') : e.kind \in Recorded /\ w.n <= e.n => e = w
  <2>1. \A e \in EventsIn(rollout) : e.kind \in Recorded => e.n \in Nat /\ e.n < w.n
    BY <1>2, <1>4 DEF EventsIn
  <2> QED BY <1>3, <1>4, <2>1
<1>7. WriterAhead'
  BY <1>1, <1>2, <1>3, <1>6 DEF WriterAhead, Free
<1>8. SinkLive' /\ Unloaded'
  BY <1>1 DEF SinkLive, Unloaded, Free
<1> QED BY <1>3, <1>5, <1>7, <1>8

\* An answer is not an event of the session, and its id is below all of them.
LEMMA AnswerKeepsFile ==
  ASSUME TypeOK, FileInv, AppendAnswer
  PROVE  FileInv'
<1> USE DEF FileInv
<1> DEFINE e == [id |-> -answers', n |-> made', kind |-> "answer"]
<1>1. made' = made + 1 /\ made' \in Nat
  BY AnswerEvent
<1>2. /\ e \in EventType /\ e.kind \in Stored /\ e.kind \notin Recorded
      /\ e.id < 0 /\ e.id \in Int /\ e.n = made'
  BY AnswerEvent
<1>3. /\ rollout' = Append(rollout, e) /\ loaded' = loaded /\ nextId' = nextId
      /\ writer' = writer /\ sink' = sink /\ conn' = conn
  BY DEF AppendAnswer, session, stream
<1> HIDE DEF e
<1>4. /\ FileOrdered' /\ EventsIn(rollout') = EventsIn(rollout) \cup {e}
      /\ \A i \in DOMAIN rollout' :
           (i \in DOMAIN rollout /\ rollout'[i] = rollout[i]) \/ rollout'[i] = e
  BY <1>2, <1>3, FileGrows
<1>5. /\ nextId \in Int /\ made \in Nat
      /\ \A i \in DOMAIN rollout : rollout[i].id \in Int /\ rollout[i].n \in Nat
  BY Numbers, BoundsAssumption DEF TypeOK
<1>6. Counted'
  BY <1>1, <1>2, <1>3, <1>4, <1>5 DEF Counted
<1>7. writer.event.n \in Nat
  BY BoundsAssumption DEF TypeOK, TaskType, EventType
<1>8. WriterAhead'
  <2>1. ~Free(writer) => writer.event.kind \in Recorded /\ writer.event.n <= made'
    BY <1>1, <1>5, <1>7 DEF WriterAhead
  <2>2. writer.pc = "append" =>
          /\ writer.event.id < nextId
          /\ \A i \in DOMAIN rollout' : rollout'[i].kind \in Recorded =>
               rollout'[i].id < writer.event.id /\ rollout'[i].n < writer.event.n
    BY <1>2, <1>4 DEF WriterAhead
  <2>3. writer.pc \in {"newline", "push", "send"} =>
          /\ writer.event \in EventsIn(rollout')
          /\ \A g \in EventsIn(rollout') :
               g.kind \in Recorded /\ writer.event.n <= g.n => g = writer.event
    BY <1>2, <1>4 DEF WriterAhead
  <2> QED BY <1>3, <2>1, <2>2, <2>3 DEF WriterAhead, Free
<1>9. SinkLive' /\ Unloaded'
  BY <1>3 DEF SinkLive, Unloaded, Free
<1> QED BY <1>4, <1>6, <1>8, <1>9

LEMMA LoadKeepsFile ==
  ASSUME TypeOK, FileInv, Load
  PROVE  FileInv'
<1> USE DEF FileInv
<1>1. /\ loaded = FALSE /\ writer' = writer /\ sink' = sink /\ conn' = conn
      /\ writer.pc = "idle" /\ nextId' <= made' + 1 /\ made <= made' /\ made' \in Int /\ made \in Int
      /\ nextId' \in Int /\ nextId' >= 1
  BY LoadRepairs, BoundsAssumption DEF Load, session, stream, Unloaded, Free, TypeOK
<1>2. SinkLive' /\ Unloaded' /\ WriterAhead'
  BY <1>1 DEF SinkLive, Unloaded, WriterAhead, Free, Load
<1>3. CASE rollout' = rollout /\ \A i \in DOMAIN rollout : rollout[i].id < nextId'
  <2>1. FileOrdered'
    BY <1>3 DEF FileOrdered
  <2>2. \A i \in DOMAIN rollout : rollout[i].id \in Int /\ rollout[i].n \in Nat
    BY Numbers DEF TypeOK
  <2>3. \A i \in DOMAIN rollout : rollout[i].id <= made /\ rollout[i].n <= made
    BY DEF Counted
  <2>4. \A i \in DOMAIN rollout' : rollout'[i].id <= made' /\ rollout'[i].n <= made'
    BY <1>1, <1>3, <2>2, <2>3
  <2>5. Counted'
    BY <1>1, <1>3, <2>4 DEF Counted
  <2> QED BY <1>2, <2>1, <2>5
<1>4. ASSUME NEW e \in EventType, rollout' = Append(rollout, e), e.kind \in Recorded,
             e.id + 1 = nextId', e.n = made', made' = made + 1,
             \A i \in DOMAIN rollout : rollout[i].id < e.id
      PROVE  FileInv'
  <2>1. \A i \in DOMAIN rollout : rollout[i].id \in Int /\ rollout[i].n \in Nat /\ rollout[i].n < e.n
    <3>1. \A i \in DOMAIN rollout :
            rollout[i].id \in Int /\ rollout[i].n \in Nat /\ rollout[i].n <= made
      BY Numbers DEF TypeOK, Counted
    <3> QED BY <1>1, <1>4, <3>1
  <2>2. e.kind \in Stored
    BY <1>4 DEF Stored
  <2>3. /\ FileOrdered'
        /\ \A i \in DOMAIN rollout' :
             (i \in DOMAIN rollout /\ rollout'[i] = rollout[i]) \/ rollout'[i] = e
    BY <1>4, <2>1, <2>2, FileGrows
  <2>4. e.id \in Int /\ e.n \in Nat
    BY BoundsAssumption DEF EventType
  <2>5. \A i \in DOMAIN rollout' :
          rollout'[i].id <= made' /\ rollout'[i].n <= made' /\ rollout'[i].id < nextId'
    BY <1>1, <1>4, <2>1, <2>3, <2>4
  <2>6. Counted'
    BY <1>1, <2>5 DEF Counted
  <2> QED BY <1>2, <2>3, <2>6
<1> QED BY <1>3, <1>4, LoadRepairs

\* A step that takes a number, or none, and leaves the file alone.
LEMMA FileKept ==
  ASSUME TypeOK, FileInv, [Next]_vars
  PROVE  FileInv'
<1> USE DEF FileInv
<1>1. CASE AppendItem
  BY <1>1, AppendKeepsFile
<1>2. CASE Load
  BY <1>2, LoadKeepsFile
<1>3. ASSUME NEW kind \in {"turn", "tool", "end", "done"}, Record(kind)
      PROVE  FileInv'
  <2>1. /\ kind \in Recorded /\ kind \in Stored /\ kind \in Kinds /\ Reserve /\ loaded = TRUE /\ loaded' = TRUE
        /\ rollout' = rollout /\ sink' = sink /\ conn' = conn
    BY <1>3 DEF Record, Recorded, Stored, Kinds, stream, TypeOK
  <2>2. writer' = [pc |-> "append", event |-> Fresh(kind)]
    BY <1>3, <2>1 DEF Record
  <2>3. /\ Fresh(kind).kind = kind /\ Fresh(kind).id = nextId /\ Fresh(kind).n = made'
        /\ made' = made + 1 /\ nextId' = nextId + 1 /\ nextId' <= made' + 1
    BY <2>1, FreshEvent
  <2>4. /\ nextId \in Nat /\ made \in Nat
        /\ \A i \in DOMAIN rollout : rollout[i].id \in Int /\ rollout[i].n \in Nat
    BY Numbers, BoundsAssumption DEF TypeOK
  <2>5. \A i \in DOMAIN rollout : rollout[i].id <= made /\ rollout[i].n <= made /\ rollout[i].id < nextId
    BY <2>1 DEF Counted
  <2>6. Counted'
    BY <2>1, <2>3, <2>4, <2>5 DEF Counted
  <2>7. WriterAhead'
    BY <2>1, <2>2, <2>3, <2>4, <2>5 DEF WriterAhead, Free
  <2> QED BY <2>1, <2>2, <2>6, <2>7 DEF FileOrdered, SinkLive, Unloaded, Free
<1>4. CASE Output \/ Delta
  <2>1. PICK kind \in {"output", "delta"} :
          /\ Reserve /\ sink'.event = Fresh(kind)
          /\ loaded' = loaded /\ rollout' = rollout /\ writer' = writer /\ conn' = conn
    BY <1>4 DEF Output, Delta, session, stream
  <2>2. kind \in Kinds /\ kind \notin Stored
    BY DEF Kinds, Stored, Recorded
  <2>3. /\ Fresh(kind).kind = kind /\ made' = made + 1 /\ nextId' = nextId + 1 /\ nextId' <= made' + 1
    BY <2>1, <2>2, FreshEvent
  <2>4. /\ nextId \in Nat /\ made \in Nat
        /\ \A i \in DOMAIN rollout : rollout[i].id \in Int /\ rollout[i].n \in Nat
    BY Numbers, BoundsAssumption DEF TypeOK
  <2>5. Counted'
    BY <2>1, <2>3, <2>4 DEF Counted
  <2>6. loaded
    BY <1>4 DEF Output, Delta, Unloaded, Free
  <2>7. writer.event.id \in Int /\ writer.event.n \in Nat
    BY BoundsAssumption DEF TypeOK, TaskType, EventType
  <2>8. WriterAhead'
    BY <2>1, <2>3, <2>4, <2>7 DEF WriterAhead, Free
  <2> QED BY <2>1, <2>2, <2>3, <2>5, <2>6, <2>8 DEF FileOrdered, SinkLive, Unloaded, Free
<1>5. CASE Restart
  <2>1. made \in Nat
    BY BoundsAssumption DEF TypeOK
  <2> QED BY <1>5, <2>1 DEF Restart, FileOrdered, Counted, WriterAhead, SinkLive, Unloaded, Free,
                            None, Stored, Recorded
<1>6. CASE AppendFails \/ EndLine \/ PushRecord \/ SendRecord \/ MarkActive \/ ClearActive
  <2>1. /\ rollout' = rollout /\ nextId' = nextId /\ made' = made /\ loaded' = loaded
        /\ sink' = sink /\ conn' = conn
        /\ \/ writer' = writer
           \/ writer'.pc = "idle"
           \/ writer.pc = "newline" /\ writer' = [writer EXCEPT !.pc = "push"]
           \/ writer.pc = "push" /\ writer' = [writer EXCEPT !.pc = "send"]
    BY <1>6 DEF AppendFails, EndLine, PushRecord, SendRecord, MarkActive, ClearActive, stream, None
  <2>2. writer \in [pc : {"idle", "append", "newline", "push", "send"}, event : EventType]
    BY DEF TypeOK, TaskType
  <2> QED BY <2>1, <2>2 DEF FileOrdered, Counted, WriterAhead, SinkLive, Unloaded, Free
<1>7. CASE PushOutput \/ SendOutput \/ NoDelta \/ SendDelta
  <2>1. /\ rollout' = rollout /\ nextId' = nextId /\ made' = made /\ loaded' = loaded
        /\ writer' = writer /\ conn' = conn
        /\ sink'.event.kind \notin Stored
    BY <1>7 DEF PushOutput, SendOutput, NoDelta, SendDelta, session, stream, None, Stored, Recorded,
                SinkLive, TypeOK, TaskType
  <2>2. loaded
    BY <1>7 DEF PushOutput, SendOutput, NoDelta, SendDelta, Unloaded, Free
  <2> QED BY <2>1, <2>2 DEF FileOrdered, Counted, WriterAhead, SinkLive, Unloaded, Free
<1>8. CASE ClientStep \/ AnswerFails \/ LoadFails \/ UNCHANGED vars
  <2>1. /\ rollout' = rollout /\ nextId' = nextId /\ made' = made /\ loaded' = loaded
        /\ writer' = writer /\ sink' = sink
        /\ conn' = conn \/ loaded \/ conn' = "off"
    BY <1>8 DEF ClientStep, Open, Subscribe, Replay, Deliver, Disconnect, log, session, vars, stream,
                Unloaded, AnswerFails, LoadFails
  <2> QED BY <2>1 DEF FileOrdered, Counted, WriterAhead, SinkLive, Unloaded, Free
<1>9. CASE AppendAnswer
  BY <1>9, AnswerKeepsFile
<1> QED BY <1>1, <1>2, <1>3, <1>4, <1>5, <1>6, <1>7, <1>8, <1>9
        DEF Next, SessionStep, SinkStep, AnswerStep

-----------------------------------------------------------------------------
(* What readers can see is in the file.                                    *)

Seen == EventsIn(buffer) \cup EventsIn(rx) \cup EventsIn(got)

\* What the session pushes and sends is its last event of the file.
LEMMA WriterInFile ==
  ASSUME TypeOK, FileInv, writer.pc \in {"newline", "push", "send"}
  PROVE  /\ writer.event \in EventsIn(rollout) /\ writer.event \in EventType
         /\ writer.event.kind \in Recorded
         /\ \A e \in EventsIn(rollout) :
              e.kind \in Recorded /\ writer.event.n <= e.n => e = writer.event
BY DEF FileInv, WriterAhead, Free, TypeOK, TaskType

\* The file only grows.
LEMMA FileOnlyGrows ==
  ASSUME TypeOK, FileInv, [Next]_vars
  PROVE  EventsIn(rollout) \subseteq EventsIn(rollout')
<1>1. CASE AppendItem
  <2>1. writer.event \in EventType /\ rollout' = Append(rollout, writer.event)
    BY <1>1 DEF AppendItem, TypeOK, TaskType
  <2>2. EventsIn(Append(rollout, writer.event)) = EventsIn(rollout) \cup {writer.event}
    BY <2>1, AppendElements DEF TypeOK
  <2> QED BY <2>1, <2>2
<1>3. CASE AppendAnswer
  <2> DEFINE e == [id |-> -answers', n |-> made', kind |-> "answer"]
  <2>1. e \in EventType
    BY <1>3, AnswerEvent
  <2>2. rollout' = Append(rollout, e)
    BY <1>3 DEF AppendAnswer
  <2> HIDE DEF e
  <2>3. EventsIn(Append(rollout, e)) = EventsIn(rollout) \cup {e}
    BY <2>1, AppendElements DEF TypeOK
  <2> QED BY <2>2, <2>3
<1>2. CASE Load
  <2>1. CASE rollout' = rollout
    BY <2>1
  <2>2. ASSUME NEW e \in EventType, rollout' = Append(rollout, e)
        PROVE  EventsIn(rollout) \subseteq EventsIn(rollout')
    <3>1. EventsIn(Append(rollout, e)) = EventsIn(rollout) \cup {e}
      BY AppendElements DEF TypeOK
    <3> QED BY <2>2, <3>1
  <2>3. FileOrdered /\ Counted
    BY DEF FileInv
  <2> QED BY <1>2, <2>1, <2>2, <2>3, LoadRepairs
<1> QED BY <1>1, <1>2, <1>3, FileChanges

\* Whatever comes to be seen was seen before, or is in the file, or is live-only.
LEMMA SeenFrom ==
  ASSUME TypeOK, FileInv, [Next]_vars, NEW e \in Seen'
  PROVE  e \in Seen \/ e \in EventsIn(rollout') \/ e.kind \notin Stored
<1> USE DEF Seen
<1>1. CASE PushRecord \/ SendRecord
  <2>1. writer.event \in EventsIn(rollout) /\ writer.event \in EventType /\ rollout' = rollout
    BY <1>1, WriterInFile DEF PushRecord, SendRecord
  <2>2. CASE PushRecord
    BY <2>1, <2>2, PushKeepsEnd DEF PushRecord, stream
  <2>3. CASE SendRecord
    BY <2>1, <2>3, SendAdds DEF SendRecord
  <2> QED BY <1>1, <2>2, <2>3
<1>2. CASE PushOutput \/ SendOutput \/ SendDelta
  <2>1. sink.event \in EventType /\ sink.event.kind \notin Stored
    BY DEF TypeOK, TaskType, FileInv, SinkLive
  <2>2. CASE PushOutput
    BY <2>1, <2>2, PushKeepsEnd DEF PushOutput, stream
  <2>3. CASE SendOutput \/ SendDelta
    BY <2>1, <2>3, SendAdds DEF SendOutput, SendDelta
  <2> QED BY <1>2, <2>2, <2>3
<1>3. CASE Delta
  <2>1. Fresh("delta") \in EventType /\ Fresh("delta").kind \notin Stored
    BY <1>3, FreshEvent DEF Delta, Kinds, Stored, Recorded, FileInv
  <2> QED BY <1>3, <2>1, PushKeepsEnd DEF Delta, stream
<1>4. CASE Subscribe \/ Disconnect
  <2>1. rx' = << >> /\ buffer' = buffer /\ got' = got
    BY <1>4 DEF Subscribe, Disconnect, log
  <2> QED BY <2>1 DEF EventsIn
<1>5. CASE Replay
  <2>1. EventsIn(ReplayAfter(buffer, Cursor)) \subseteq EventsIn(buffer)
    BY <1>5, ReplayAdds, SuffixElements DEF TypeOK
  <2>2. EventsIn(got') = EventsIn(got) \cup EventsIn(ReplayAfter(buffer, Cursor))
    BY <1>5, ReplayAdds
  <2> QED BY <1>5, <2>1, <2>2 DEF Replay, log
<1>6. CASE Deliver
  BY <1>6, DeliverMoves DEF Deliver, log
<1>7. CASE Restart
  BY <1>7 DEF Restart, EventsIn
<1>8. CASE Load
  <2>1. /\ rollout' \in Seq(EventType) /\ buffer' \in Seq(EventType) /\ Suffix(buffer', rollout')
    BY <1>8, LoadRepairs DEF FileInv
  <2>2. EventsIn(buffer') \subseteq EventsIn(rollout')
    BY <2>1, SuffixElements
  <2> QED BY <1>8, <2>2 DEF Load, stream
<1>9. CASE \/ UNCHANGED vars \/ AppendItem \/ EndLine \/ AppendFails \/ MarkActive \/ ClearActive
           \/ Output \/ NoDelta \/ AnswerStep \/ LoadFails
           \/ \E kind \in {"turn", "tool", "end", "done"} : Record(kind)
  BY <1>9 DEF vars, stream, AppendItem, EndLine, AppendFails, MarkActive, ClearActive, Output, NoDelta,
              Record, AnswerStep, AppendAnswer, AnswerFails, LoadFails
<1> QED BY <1>1, <1>2, <1>3, <1>4, <1>5, <1>6, <1>7, <1>8, <1>9
        DEF Next, SessionStep, SinkStep, ClientStep, Open

LEMMA SeenKept ==
  ASSUME TypeOK, FileInv, SeenIsStored, [Next]_vars
  PROVE  SeenIsStored'
<1> SUFFICES ASSUME NEW e \in Seen', e.kind \in Stored
             PROVE  e \in EventsIn(rollout')
  BY DEF SeenIsStored, Seen
<1> QED BY SeenFrom, FileOnlyGrows DEF SeenIsStored, Seen

-----------------------------------------------------------------------------
(* The buffer and the connection have no gaps.                             *)

\* The end of an ordered sequence without gaps is ordered and has no gaps.
LEMMA EndIsClosed ==
  ASSUME NEW s \in Seq(EventType), NEW t \in Seq(EventType), Suffix(t, s), Ordered(s),
         NEW X, NEW F, Closed(EventsIn(s), X, F)
  PROVE  Ordered(t) /\ Closed(EventsIn(t), X, F)
<1>1. PICK d \in 0 .. Len(s) : Len(t) = Len(s) - d /\ \A i \in 1 .. Len(t) : t[i] = s[i + d]
  BY DEF Suffix, Tailing
<1>2. /\ Len(s) \in Nat /\ DOMAIN s = 1 .. Len(s) /\ Len(t) \in Nat /\ DOMAIN t = 1 .. Len(t)
      /\ \A i \in DOMAIN s : s[i].n \in Nat
  BY Numbers
<1>3. \A i \in DOMAIN t : i + d \in DOMAIN s /\ t[i] = s[i + d]
  BY <1>1, <1>2
<1>4. Ordered(t)
  <2>1. ASSUME NEW i \in DOMAIN t, NEW j \in DOMAIN t, i < j,
               t[i].kind \in Recorded, t[j].kind \in Recorded
        PROVE  t[i].n < t[j].n
    <3>1. i + d < j + d
      BY <1>2, <2>1
    <3> QED BY <1>3, <2>1, <3>1 DEF Ordered
  <2> QED BY <2>1 DEF Ordered
<1>5. ASSUME NEW f \in EventsIn(t), NEW e \in F, f.kind \in Recorded, e.kind \in Recorded, f.n <= e.n
      PROVE  e \in EventsIn(t) \cup X
  <2>1. PICK i \in DOMAIN t : f = t[i]
    BY DEF EventsIn
  <2>2. i + d \in DOMAIN s /\ f = s[i + d]
    BY <1>3, <2>1
  <2>3. e \in EventsIn(s) \cup X
    BY <1>5, <2>2 DEF Closed, EventsIn
  <2>4. SUFFICES ASSUME NEW j \in DOMAIN s, e = s[j]
                 PROVE  e \in EventsIn(t)
    BY <2>3 DEF EventsIn
  <2>5. e.kind \in Recorded
    BY <1>5
  <2>6. ~(j < i + d)
    <3> SUFFICES ASSUME j < i + d
                 PROVE  FALSE
      OBVIOUS
    <3>1. s[j].n < s[i + d].n
      BY <1>5, <2>2, <2>4, <2>5 DEF Ordered
    <3> QED BY <1>2, <1>5, <2>2, <2>4, <3>1
  <2>7. j - d \in DOMAIN t /\ t[j - d] = s[j]
    <3>1. j - d \in DOMAIN t
      BY <1>1, <1>2, <2>1, <2>6
    <3>2. (j - d) + d = j
      BY <1>1, <1>2
    <3> QED BY <1>3, <3>1, <3>2
  <2> QED BY <2>4, <2>7 DEF EventsIn
<1> QED BY <1>4, <1>5 DEF Closed

\* A push of an event that is live-only, or that all in the buffer precede and that has what
\* the file has after it.
LEMMA PushIsClosed ==
  ASSUME TypeOK, FileOrdered, NEW e \in EventType, Push(e), NEW X,
         Ordered(buffer), Closed(EventsIn(buffer), X \cup {e}, EventsIn(rollout)),
         e.kind \in Recorded => \A i \in DOMAIN buffer : buffer[i].kind \in Recorded => buffer[i].n < e.n,
         e.kind \in Recorded =>
           \A g \in EventsIn(rollout) : g.kind \in Recorded /\ e.n <= g.n => g = e
  PROVE  Ordered(buffer') /\ Closed(EventsIn(buffer'), X, EventsIn(rollout))
<1> DEFINE s == Append(buffer, e)
<1>1. /\ s \in Seq(EventType) /\ Len(s) = Len(buffer) + 1
      /\ \A i \in 1 .. Len(buffer) : s[i] = buffer[i]
      /\ s[Len(buffer) + 1] = e
  BY AppendProperties DEF TypeOK
<1>2. EventsIn(s) = EventsIn(buffer) \cup {e}
  BY AppendElements DEF TypeOK
<1>3. buffer' \in Seq(EventType) /\ Suffix(buffer', s)
  BY PushKeepsEnd
<1>4. Len(buffer) \in Nat /\ DOMAIN buffer = 1 .. Len(buffer) /\ DOMAIN s = 1 .. Len(buffer) + 1
  BY <1>1, Numbers DEF TypeOK
<1> HIDE DEF s
<1>5. Ordered(s)
  <2>1. ASSUME NEW i \in DOMAIN s, NEW j \in DOMAIN s, i < j,
               s[i].kind \in Recorded, s[j].kind \in Recorded
        PROVE  s[i].n < s[j].n
    <3>1. i \in DOMAIN buffer /\ s[i] = buffer[i]
      BY <1>1, <1>4, <2>1
    <3>2. CASE j \in DOMAIN buffer
      BY <1>1, <1>4, <2>1, <3>1, <3>2 DEF Ordered
    <3>3. CASE j = Len(buffer) + 1
      BY <1>1, <2>1, <3>1, <3>3
    <3> QED BY <1>4, <3>2, <3>3
  <2> QED BY <2>1 DEF Ordered
<1>6. Closed(EventsIn(s), X, EventsIn(rollout))
  BY <1>2 DEF Closed
<1> QED BY <1>1, <1>3, <1>5, <1>6, EndIsClosed

LEMMA PushRecordClosed ==
  ASSUME TypeOK, FileInv, BufferClosed, PushRecord
  PROVE  BufferClosed'
<1> DEFINE w == writer.event
<1>1. /\ writer.pc = "push" /\ Push(w) /\ writer'.pc = "send" /\ rollout' = rollout /\ silent' = silent
  BY DEF PushRecord, TypeOK, TaskType, other
<1>2. /\ w \in EventType
      /\ \A g \in EventsIn(rollout) : g.kind \in Recorded /\ w.n <= g.n => g = w
  BY <1>1, WriterInFile
<1>3. Closed(EventsIn(buffer), silent \cup {w}, EventsIn(rollout))
  BY <1>1 DEF BufferClosed, Pending, Closed
<1>4. Ordered(buffer) /\ \A i \in DOMAIN buffer : buffer[i].kind \in Recorded => buffer[i].n < w.n
  BY <1>1 DEF BufferClosed
<1> HIDE DEF w
<1>5. Ordered(buffer') /\ Closed(EventsIn(buffer'), silent, EventsIn(rollout))
  BY <1>1, <1>2, <1>3, <1>4, PushIsClosed DEF FileInv
<1> QED BY <1>1, <1>5 DEF BufferClosed, Closed, Pending, Ordered

\* A push of the sink adds nothing stored.
LEMMA PushLiveClosed ==
  ASSUME TypeOK, FileInv, BufferClosed, SeenIsStored, NEW e \in EventType, e.kind \notin Stored, Push(e),
         UNCHANGED <<rollout, writer, silent>>
  PROVE  BufferClosed'
<1> DEFINE X == Pending({"newline", "push"}) \cup silent
<1>1. Closed(EventsIn(buffer), X \cup {e}, EventsIn(rollout)) /\ e.kind \notin Recorded
  BY DEF BufferClosed, Closed, Stored
<1> HIDE DEF X
<1>2. Ordered(buffer') /\ Closed(EventsIn(buffer'), X, EventsIn(rollout))
  BY <1>1, PushIsClosed DEF FileInv, BufferClosed
<1>3. /\ buffer' \in Seq(EventType) /\ EventsIn(buffer') \subseteq EventsIn(buffer) \cup {e}
  BY PushKeepsEnd
<1>4. writer.pc \in {"newline", "push"} =>
        \A i \in DOMAIN buffer' : buffer'[i].kind \in Recorded => buffer'[i].n < writer.event.n
  BY <1>1, <1>3 DEF BufferClosed, EventsIn
<1>5. X' = X
  BY DEF X, Pending
<1> QED BY <1>2, <1>4, <1>5 DEF BufferClosed, Closed, Pending, Ordered, X

LEMMA LoadClosed ==
  ASSUME TypeOK, FileInv, BufferClosed, Load
  PROVE  BufferClosed'
<1>1. FileOrdered' /\ writer'.pc = "idle"
  BY LoadKeepsFile DEF FileInv, Load, session, Unloaded, Free
<1>2. rollout' \in Seq(EventType) /\ buffer' \in Seq(EventType) /\ Suffix(buffer', rollout')
  BY LoadRepairs DEF FileInv
<1>3. Ordered(rollout') /\ Closed(EventsIn(rollout'), {}, EventsIn(rollout'))
  BY <1>1 DEF Ordered, FileOrdered, Closed
<1>4. Ordered(buffer') /\ Closed(EventsIn(buffer'), {}, EventsIn(rollout'))
  BY <1>2, <1>3, EndIsClosed
<1> QED BY <1>1, <1>4 DEF BufferClosed, Closed, Pending, Ordered

\* No other action changes the buffer.
LEMMA BufferChanges ==
  ASSUME [Next]_vars
  PROVE  PushRecord \/ PushOutput \/ Delta \/ Restart \/ Load \/ UNCHANGED buffer
BY DEF Next, SessionStep, Record, AppendItem, EndLine, AppendFails, SendRecord, MarkActive, ClearActive,
       SinkStep, Output, SendOutput, NoDelta, SendDelta, AnswerStep, AppendAnswer, AnswerFails,
       ClientStep, Open, Subscribe, Replay, Deliver, Disconnect, log, LoadFails, vars

\* An answer adds no event of the session to the file.
LEMMA AnswerAdds ==
  ASSUME TypeOK, AppendAnswer
  PROVE  \A e \in EventsIn(rollout') : e \in EventsIn(rollout) \/ e.kind \notin Recorded
<1> DEFINE e == [id |-> -answers', n |-> made', kind |-> "answer"]
<1>1. e \in EventType
  BY AnswerEvent
<1>2. rollout' = Append(rollout, e) /\ e.kind \notin Recorded
  BY DEF AppendAnswer, Recorded
<1> HIDE DEF e
<1>3. EventsIn(Append(rollout, e)) = EventsIn(rollout) \cup {e}
  BY <1>1, AppendElements DEF TypeOK
<1> QED BY <1>2, <1>3

LEMMA BufferKept ==
  ASSUME TypeOK, FileInv, SeenIsStored, BufferClosed, [Next]_vars
  PROVE  BufferClosed'
<1>1. CASE PushRecord
  BY <1>1, PushRecordClosed
<1>2. CASE PushOutput
  <2>1. sink.event \in EventType /\ sink.event.kind \notin Stored
    BY DEF TypeOK, TaskType, FileInv, SinkLive
  <2> QED BY <1>2, <2>1, PushLiveClosed DEF PushOutput, session, other
<1>3. CASE Delta
  <2>1. Fresh("delta") \in EventType /\ Fresh("delta").kind \notin Stored
    BY <1>3, FreshEvent DEF Delta, Kinds, Stored, Recorded, FileInv
  <2> QED BY <1>3, <2>1, PushLiveClosed DEF Delta, session, other
<1>4. CASE Load
  BY <1>4, LoadClosed
<1>5. CASE Restart
  BY <1>5 DEF Restart, BufferClosed, Ordered, Closed, EventsIn, None
<1>6. CASE AppendItem
  <2>1. /\ writer.event \in EventType /\ rollout' = Append(rollout, writer.event) /\ buffer' = buffer
        /\ writer.pc = "append" /\ writer'.pc = "newline" /\ writer'.event = writer.event
        /\ silent' = silent
    BY <1>6 DEF AppendItem, TypeOK, TaskType, other
  <2>2. EventsIn(rollout') = EventsIn(rollout) \cup {writer.event}
    BY <2>1, AppendElements DEF TypeOK
  <2>3. \A i \in DOMAIN buffer : buffer[i].kind \in Recorded => buffer[i].n < writer.event.n
    BY <2>1 DEF SeenIsStored, EventsIn, FileInv, WriterAhead, Stored
  <2> QED BY <2>1, <2>2, <2>3 DEF BufferClosed, Closed, Pending, Ordered
<1>8. CASE AppendAnswer
  <2>1. /\ buffer' = buffer /\ writer' = writer /\ silent' = silent
        /\ \A e \in EventsIn(rollout') : e \in EventsIn(rollout) \/ e.kind \notin Recorded
    BY <1>8, AnswerAdds DEF AppendAnswer, session
  <2> QED BY <2>1 DEF BufferClosed, Closed, Pending, Ordered
<1>9. CASE AppendFails
  <2>1. /\ buffer' = buffer /\ rollout' = rollout /\ writer'.pc = "idle"
        /\ Pending({"newline", "push"}) \cup silent \subseteq silent'
    BY <1>9 DEF AppendFails, None, Pending
  <2> QED BY <2>1 DEF BufferClosed, Closed, Pending, Ordered
<1>10. CASE EndLine
  <2>1. /\ buffer' = buffer /\ rollout' = rollout /\ silent' = silent
        /\ writer.pc = "newline" /\ writer'.pc = "push" /\ writer'.event = writer.event
    BY <1>10 DEF EndLine, TypeOK, TaskType, other
  <2> QED BY <2>1 DEF BufferClosed, Closed, Pending, Ordered
<1>7. CASE /\ UNCHANGED <<buffer, rollout>> /\ ~AppendItem /\ ~AppendAnswer /\ ~AppendFails
           /\ ~EndLine /\ ~PushRecord /\ ~Restart /\ ~Load
  <2>1. /\ silent' = silent
        /\ writer'.pc \in {"newline", "push"} \/ writer.pc \in {"newline", "push"} => writer' = writer
    BY <1>7 DEF Next, SessionStep, Record, SendRecord, MarkActive, ClearActive,
         SinkStep, Output, PushOutput, SendOutput, Delta, NoDelta, SendDelta, AnswerStep, AnswerFails,
         ClientStep, Open, Subscribe, Replay, Deliver, Disconnect, log, LoadFails, session, other, vars,
         None, Stored, Recorded
  <2> QED BY <1>7, <2>1 DEF BufferClosed, Closed, Pending, Ordered
<1> QED BY <1>1, <1>2, <1>3, <1>4, <1>5, <1>6, <1>7, <1>8, <1>9, <1>10, BufferChanges, FileChanges

\* The events from a place of a sequence on.
LEMMA EndElements ==
  ASSUME NEW S, NEW s \in Seq(S), NEW k \in 0 .. Len(s)
  PROVE  EventsIn(SubSeq(s, k + 1, Len(s))) = {s[i] : i \in k + 1 .. Len(s)}
<1> DEFINE t == SubSeq(s, k + 1, Len(s))
<1>1. Len(s) \in Nat
  BY LenProperties
<1>2. k + 1 \in 1 .. Len(s) + 1
  BY <1>1
<1>3. t \in Seq(S) /\ Tailing(t, s, (k + 1) - 1)
  BY <1>2, SubSeqIsSuffix
<1> HIDE DEF t
<1>4. /\ Len(t) = Len(s) - k /\ DOMAIN t = 1 .. Len(t)
      /\ \A i \in 1 .. Len(t) : t[i] = s[i + k]
  BY <1>1, <1>3, LenProperties DEF Tailing
<1>5. ASSUME NEW i \in k + 1 .. Len(s)
      PROVE  s[i] \in EventsIn(t)
  <2>1. i - k \in DOMAIN t /\ t[i - k] = s[i]
    BY <1>1, <1>4
  <2> QED BY <2>1 DEF EventsIn
<1>6. ASSUME NEW i \in DOMAIN t
      PROVE  t[i] \in {s[j] : j \in k + 1 .. Len(s)}
  <2>1. i + k \in k + 1 .. Len(s) /\ t[i] = s[i + k]
    BY <1>1, <1>4
  <2> QED BY <2>1
<1> QED BY <1>5, <1>6 DEF EventsIn, t

\* What is here when the connection has replayed the buffer.
LEMMA ReplayHere ==
  ASSUME TypeOK, StreamClosed, Replay
  PROVE  Here' = EventsIn(ReplayAfter(buffer, Cursor)) \cup EventsIn(rx)
<1> DEFINE new == ReplayAfter(buffer, Cursor)
<1>1. new \in Seq(EventType) /\ got' = got \o new /\ got' \in Seq(EventType)
  BY ReplayAdds
<1>2. opened = Len(got) /\ opened' = opened /\ rx' = rx
  BY DEF Replay, StreamClosed
<1> HIDE DEF new
<1>3. /\ Len(got') = Len(got) + Len(new)
      /\ \A i \in 1 .. Len(got) + Len(new) :
           got'[i] = IF i <= Len(got) THEN got[i] ELSE new[i - Len(got)]
  BY <1>1, ConcatProperties DEF TypeOK
<1>4. Len(got) \in Nat /\ Len(new) \in Nat /\ DOMAIN new = 1 .. Len(new)
  BY <1>1, LenProperties DEF TypeOK
<1>5. EventsIn(SubSeq(got', opened' + 1, Len(got'))) = {got'[i] : i \in Len(got) + 1 .. Len(got')}
  <2> DEFINE s == got'
             k == Len(got)
  <2>1. s \in Seq(EventType) /\ k \in 0 .. Len(s)
    BY <1>1, <1>3, <1>4
  <2> HIDE DEF s, k
  <2>2. EventsIn(SubSeq(s, k + 1, Len(s))) = {s[i] : i \in k + 1 .. Len(s)}
    BY <2>1, EndElements
  <2> QED BY <1>2, <2>2 DEF s, k
<1>6. ASSUME NEW i \in Len(got) + 1 .. Len(got')
      PROVE  got'[i] \in EventsIn(new)
  <2>1. i - Len(got) \in DOMAIN new /\ got'[i] = new[i - Len(got)]
    BY <1>3, <1>4
  <2> QED BY <2>1 DEF EventsIn
<1>7. ASSUME NEW i \in DOMAIN new
      PROVE  new[i] \in {got'[j] : j \in Len(got) + 1 .. Len(got')}
  <2>1. i + Len(got) \in Len(got) + 1 .. Len(got') /\ got'[i + Len(got)] = new[i]
    BY <1>3, <1>4
  <2> QED BY <2>1
<1>8. EventsIn(new) = {got'[i] : i \in Len(got) + 1 .. Len(got')}
  BY <1>6, <1>7 DEF EventsIn
<1> QED BY <1>2, <1>5, <1>8 DEF Here, new

\* A delivery leaves what is here.
LEMMA DeliverHere ==
  ASSUME TypeOK, Deliver
  PROVE  Here' = Here
<1>1. /\ got' = Append(got, Head(rx)) /\ Head(rx) \in EventType /\ got' \in Seq(EventType)
      /\ EventsIn(rx) = {Head(rx)} \cup EventsIn(rx') /\ opened' = opened
  BY DeliverMoves DEF Deliver
<1>2. Len(got) \in Nat /\ opened \in 0 .. Len(got) /\ got \in Seq(EventType)
  BY LenProperties DEF TypeOK
<1>3. /\ Len(got') = Len(got) + 1 /\ got'[Len(got) + 1] = Head(rx)
      /\ \A i \in 1 .. Len(got) : got'[i] = got[i]
  BY <1>1, <1>2, AppendProperties
<1>4. opened \in 0 .. Len(got')
  BY <1>2, <1>3
<1>5. EventsIn(SubSeq(got, opened + 1, Len(got))) = {got[i] : i \in opened + 1 .. Len(got)}
  BY <1>2, EndElements
<1>6. EventsIn(SubSeq(got', opened + 1, Len(got'))) = {got'[i] : i \in opened + 1 .. Len(got')}
  <2> DEFINE s == got'
  <2>1. s \in Seq(EventType) /\ opened \in 0 .. Len(s)
    BY <1>1, <1>4
  <2> HIDE DEF s
  <2>2. EventsIn(SubSeq(s, opened + 1, Len(s))) = {s[i] : i \in opened + 1 .. Len(s)}
    BY <2>1, EndElements
  <2> QED BY <2>2 DEF s
<1>7. {got'[i] : i \in opened + 1 .. Len(got')} = {got[i] : i \in opened + 1 .. Len(got)} \cup {Head(rx)}
  <2>1. Len(got) + 1 \in opened + 1 .. Len(got')
    BY <1>2, <1>3
  <2>2. \A i \in opened + 1 .. Len(got) : i \in opened + 1 .. Len(got') /\ got'[i] = got[i]
    BY <1>2, <1>3
  <2>3. \A i \in opened + 1 .. Len(got') : i \in opened + 1 .. Len(got) \/ i = Len(got) + 1
    BY <1>2, <1>3
  <2> QED BY <1>3, <2>1, <2>2, <2>3
<1> QED BY <1>1, <1>5, <1>6, <1>7 DEF Here

\* What is sent is here, unless the channel overflowed.
LEMMA SendHere ==
  ASSUME TypeOK, NEW e \in EventType, Send(e), UNCHANGED <<got, opened, conn>>, conn # "off", ~lagged'
  PROVE  ~lagged /\ Here' = Here \cup {e}
BY SendAdds DEF Here

\* What is pending when the session has sent, or when it is at another place.
Unsent == Pending({"newline", "push", "send"}) \cup silent

LEMMA StreamKept ==
  ASSUME TypeOK, FileInv, SeenIsStored, BufferClosed, StreamClosed, [Next]_vars
  PROVE  StreamClosed'
<1>1. CASE SendRecord
  <2> SUFFICES ASSUME conn' # "off", ~lagged'
               PROVE  Closed(Here, Unsent, EventsIn(rollout))'
    BY <1>1 DEF SendRecord, StreamClosed, Unsent
  <2>1. writer.event \in EventType /\ writer.pc = "send" /\ writer'.pc = "idle"
    BY <1>1 DEF SendRecord, TypeOK, TaskType, None
  <2>2. /\ ~lagged /\ Here' = Here \cup {writer.event} /\ conn # "off" /\ rollout' = rollout
        /\ silent' = silent
    BY <1>1, <2>1, SendHere DEF SendRecord, other
  <2>3. \A e \in EventsIn(rollout) : e.kind \in Recorded /\ writer.event.n <= e.n => e = writer.event
    BY <2>1, WriterInFile
  <2>4. Closed(Here, {writer.event} \cup silent, EventsIn(rollout))
    BY <2>1, <2>2 DEF StreamClosed, Pending
  <2>5. Closed(Here', silent, EventsIn(rollout'))
    BY <2>2, <2>3, <2>4 DEF Closed
  <2> QED BY <2>1, <2>2, <2>5 DEF Closed, Unsent
<1>2. CASE SendOutput \/ SendDelta
  <2> SUFFICES ASSUME conn' # "off", ~lagged'
               PROVE  Closed(Here, Unsent, EventsIn(rollout))'
    BY <1>2 DEF SendOutput, SendDelta, StreamClosed, Unsent
  <2>1. sink.event \in EventType /\ sink.event.kind \notin Stored
    BY DEF TypeOK, TaskType, FileInv, SinkLive
  <2>2. /\ ~lagged /\ Here' = Here \cup {sink.event} /\ conn # "off" /\ rollout' = rollout
        /\ writer' = writer /\ silent' = silent
    BY <1>2, <2>1, SendHere DEF SendOutput, SendDelta, session, other
  <2>3. sink.event.kind \notin Recorded
    BY <2>1 DEF Stored
  <2>4. Closed(Here, Unsent, EventsIn(rollout))
    BY <2>2 DEF StreamClosed, Unsent
  <2>5. Unsent' = Unsent
    BY <2>2 DEF Unsent, Pending
  <2> QED BY <2>2, <2>3, <2>4, <2>5 DEF Closed
<1>3. CASE Subscribe
  <2>1. rx' = << >> /\ opened' = Len(got) /\ got' = got
    BY <1>3 DEF Subscribe
  <2>2. Here' = {}
    <3>1. Len(got) \in 0 .. Len(got) /\ Len(got) + 1 .. Len(got) = {}
      BY LenProperties DEF TypeOK
    <3>2. EventsIn(SubSeq(got, Len(got) + 1, Len(got))) = {}
      BY <3>1, EndElements DEF TypeOK
    <3> QED BY <2>1, <3>2 DEF Here, EventsIn
  <2> QED BY <2>1, <2>2 DEF StreamClosed, Closed
<1>4. CASE Replay
  <2>1. /\ Here' = EventsIn(ReplayAfter(buffer, Cursor)) \cup EventsIn(rx) /\ conn' = "stream"
        /\ rollout' = rollout /\ writer' = writer /\ conn = "replay" /\ lagged' = lagged
        /\ silent' = silent
    BY <1>4, ReplayHere DEF Replay, log, session, other
  <2>2. Closed(EventsIn(ReplayAfter(buffer, Cursor)),
              Pending({"newline", "push"}) \cup silent, EventsIn(rollout))
    <3>1. /\ ReplayAfter(buffer, Cursor) \in Seq(EventType)
          /\ Suffix(ReplayAfter(buffer, Cursor), buffer)
      BY <1>4, ReplayAdds
    <3> DEFINE t == ReplayAfter(buffer, Cursor)
               X == Pending({"newline", "push"}) \cup silent
    <3>2. Ordered(buffer) /\ Closed(EventsIn(buffer), X, EventsIn(rollout)) /\ buffer \in Seq(EventType)
      BY DEF BufferClosed, TypeOK
    <3> HIDE DEF t, X
    <3> QED BY <3>1, <3>2, EndIsClosed DEF t, X
  <2>3. ~lagged => Closed(EventsIn(rx), Unsent, EventsIn(rollout))
    <3>1. Here = EventsIn(rx)
      <4>1. opened = Len(got)
        BY <2>1 DEF StreamClosed
      <4>2. Len(got) \in 0 .. Len(got) /\ Len(got) + 1 .. Len(got) = {}
        BY LenProperties DEF TypeOK
      <4>3. EventsIn(SubSeq(got, Len(got) + 1, Len(got))) = {}
        BY <4>2, EndElements DEF TypeOK
      <4> QED BY <4>1, <4>3 DEF Here
    <3> QED BY <2>1, <3>1 DEF StreamClosed, Unsent
  <2> QED BY <2>1, <2>2, <2>3 DEF StreamClosed, Closed, Pending, Unsent
<1>5. CASE Deliver
  <2>1. Here' = Here
    BY <1>5, DeliverHere
  <2> QED BY <1>5, <2>1 DEF Deliver, StreamClosed, Closed, Pending, log, session, other
<1>6. CASE Disconnect \/ Restart
  BY <1>6 DEF Disconnect, Restart, StreamClosed
<1>7. CASE AppendItem
  <2>1. /\ writer.event \in EventType /\ rollout' = Append(rollout, writer.event)
        /\ writer.pc = "append" /\ writer'.pc = "newline" /\ writer'.event = writer.event
        /\ UNCHANGED stream /\ silent' = silent
    BY <1>7 DEF AppendItem, TypeOK, TaskType, other
  <2>2. EventsIn(rollout') = EventsIn(rollout) \cup {writer.event}
    BY <2>1, AppendElements DEF TypeOK
  <2> QED BY <2>1, <2>2 DEF StreamClosed, Closed, Pending, Here, stream
<1>8. CASE Load
  <2>1. conn' = "off"
    BY <1>8 DEF Load, stream, FileInv, Unloaded
  <2> QED BY <2>1 DEF StreamClosed
<1>9. CASE AppendFails
  <2>1. UNCHANGED <<stream, rollout>> /\ Unsent \subseteq silent'
    <3>1. CASE writer.pc = "append"
      BY <1>9, <3>1 DEF AppendFails, Unsent, Pending
    <3>2. CASE writer.pc = "newline"
      BY <1>9, <3>2 DEF AppendFails, Unsent, Pending
    <3> QED BY <1>9, <3>1, <3>2 DEF AppendFails
  <2>2. UNCHANGED <<conn, lagged, opened, got, rx, rollout>>
    BY <2>1 DEF stream
  <2> QED BY <2>1, <2>2 DEF StreamClosed, Closed, Here, Unsent
<1>10. CASE AppendAnswer
  <2>1. /\ writer' = writer /\ silent' = silent /\ UNCHANGED stream
        /\ \A e \in EventsIn(rollout') : e \in EventsIn(rollout) \/ e.kind \notin Recorded
    BY <1>10, AnswerAdds DEF AppendAnswer, session
  <2> QED BY <2>1 DEF StreamClosed, Closed, Pending, Here, stream
<1>11. CASE \/ UNCHANGED vars \/ EndLine \/ PushRecord \/ MarkActive \/ ClearActive
            \/ Output \/ PushOutput \/ Delta \/ NoDelta \/ AnswerFails \/ LoadFails
            \/ \E kind \in {"turn", "tool", "end", "done"} : Record(kind)
  <2>1. /\ UNCHANGED <<stream, rollout, silent>>
        /\ \/ writer' = writer
           \/ writer.pc = "idle" /\ writer'.pc = "append"
           \/ writer.pc = "newline" /\ writer' = [writer EXCEPT !.pc = "push"]
           \/ writer.pc = "push" /\ writer' = [writer EXCEPT !.pc = "send"]
    BY <1>11 DEF vars, EndLine, PushRecord, MarkActive, ClearActive, Output, PushOutput, Delta,
                NoDelta, Record, AnswerFails, LoadFails, session, other, Stored, Recorded
  <2>2. writer \in [pc : {"idle", "append", "newline", "push", "send"}, event : EventType]
    BY DEF TypeOK, TaskType
  <2>3. Unsent' = Unsent
    BY <2>1, <2>2 DEF Pending, Unsent
  <2>4. UNCHANGED <<conn, lagged, opened, got, rx, rollout>>
    BY <2>1 DEF stream
  <2> QED BY <2>3, <2>4 DEF StreamClosed, Closed, Here, Unsent
<1> QED BY <1>1, <1>2, <1>3, <1>4, <1>5, <1>6, <1>7, <1>8, <1>9, <1>10, <1>11
        DEF Next, SessionStep, SinkStep, AnswerStep, ClientStep, Open

-----------------------------------------------------------------------------
(* The order of a tool's events in the buffer.                             *)

\* Every end in s is followed by another start.
Reopened(s) == \A i \in DOMAIN s : s[i].kind = "end" => \E k \in i .. Len(s) : s[k].kind = "tool"
Orderly(s) ==
  \A i, j \in DOMAIN s :
    i < j /\ s[i].kind = "end" /\ s[j].kind = "delta" => \E k \in i .. j : s[k].kind = "tool"

\* A suffix is as orderly as the sequence.
LEMMA EndIsOrderly ==
  ASSUME NEW s \in Seq(EventType), NEW t \in Seq(EventType), Suffix(t, s)
  PROVE  (Reopened(s) => Reopened(t)) /\ (Orderly(s) => Orderly(t))
<1>1. PICK d \in 0 .. Len(s) : Len(t) = Len(s) - d /\ \A i \in 1 .. Len(t) : t[i] = s[i + d]
  BY DEF Suffix, Tailing
<1>2. /\ Len(s) \in Nat /\ DOMAIN s = 1 .. Len(s) /\ Len(t) \in Nat /\ DOMAIN t = 1 .. Len(t)
  BY Numbers
<1>3. \A i \in DOMAIN t : i + d \in DOMAIN s /\ t[i] = s[i + d]
  BY <1>1, <1>2
<1>4. ASSUME Reopened(s), NEW i \in DOMAIN t, t[i].kind = "end"
      PROVE  \E k \in i .. Len(t) : t[k].kind = "tool"
  <2>1. PICK k \in i + d .. Len(s) : s[k].kind = "tool"
    BY <1>3, <1>4 DEF Reopened
  <2>2. k - d \in i .. Len(t) /\ k - d \in DOMAIN t /\ (k - d) + d = k
    BY <1>1, <1>2, <1>4
  <2>3. t[k - d] = s[k]
    BY <1>3, <2>2
  <2> QED BY <2>1, <2>2, <2>3
<1>5. ASSUME Orderly(s), NEW i \in DOMAIN t, NEW j \in DOMAIN t, i < j,
             t[i].kind = "end", t[j].kind = "delta"
      PROVE  \E k \in i .. j : t[k].kind = "tool"
  <2>1. i + d < j + d
    BY <1>2, <1>5
  <2>2. PICK k \in i + d .. j + d : s[k].kind = "tool"
    BY <1>3, <1>5, <2>1 DEF Orderly
  <2>3. k - d \in i .. j /\ k - d \in DOMAIN t /\ (k - d) + d = k
    BY <1>1, <1>2, <1>5
  <2>4. t[k - d] = s[k]
    BY <1>3, <2>3
  <2> QED BY <2>2, <2>3, <2>4
<1> QED BY <1>4, <1>5 DEF Reopened, Orderly

\* What a push does to the order of the buffer.
LEMMA PushOrderly ==
  ASSUME TypeOK, NEW e \in EventType, Push(e), Orderly(buffer),
         e.kind = "delta" => Reopened(buffer)
  PROVE  /\ Orderly(buffer')
         /\ e.kind = "tool" \/ (e.kind # "end" /\ Reopened(buffer)) => Reopened(buffer')
<1> DEFINE s == Append(buffer, e)
<1>1. /\ s \in Seq(EventType) /\ Len(s) = Len(buffer) + 1
      /\ \A i \in 1 .. Len(buffer) : s[i] = buffer[i]
      /\ s[Len(buffer) + 1] = e
  BY AppendProperties DEF TypeOK
<1>2. buffer' \in Seq(EventType) /\ Suffix(buffer', s)
  BY PushKeepsEnd
<1>3. Len(buffer) \in Nat /\ DOMAIN buffer = 1 .. Len(buffer) /\ DOMAIN s = 1 .. Len(buffer) + 1
  BY <1>1, Numbers DEF TypeOK
<1> HIDE DEF s
<1>4. ASSUME NEW i \in DOMAIN s, NEW j \in DOMAIN s, i < j, s[i].kind = "end", s[j].kind = "delta"
      PROVE  \E k \in i .. j : s[k].kind = "tool"
  <2>1. i \in DOMAIN buffer /\ s[i] = buffer[i]
    BY <1>1, <1>3, <1>4
  <2>2. CASE j \in DOMAIN buffer
    <3>1. PICK k \in i .. j : buffer[k].kind = "tool"
      BY <1>1, <1>3, <1>4, <2>1, <2>2 DEF Orderly
    <3> QED BY <1>1, <1>3, <2>1, <2>2, <3>1
  <2>3. CASE j = Len(buffer) + 1
    <3>1. PICK k \in i .. Len(buffer) : buffer[k].kind = "tool"
      BY <1>1, <1>4, <2>1, <2>3 DEF Reopened
    <3>2. k \in i .. j /\ s[k] = buffer[k]
      BY <1>1, <1>3, <2>1, <2>3, <3>1
    <3> QED BY <3>1, <3>2
  <2> QED BY <1>3, <2>2, <2>3
<1>5. ASSUME e.kind = "tool" \/ (e.kind # "end" /\ Reopened(buffer)),
             NEW i \in DOMAIN s, s[i].kind = "end"
      PROVE  \E k \in i .. Len(s) : s[k].kind = "tool"
  <2>1. CASE e.kind = "tool"
    <3>1. Len(buffer) + 1 \in i .. Len(s)
      BY <1>1, <1>3
    <3> QED BY <1>1, <2>1, <3>1
  <2>2. CASE e.kind # "end" /\ Reopened(buffer)
    <3>1. i \in DOMAIN buffer /\ s[i] = buffer[i]
      BY <1>1, <1>3, <1>5, <2>2
    <3>2. PICK k \in i .. Len(buffer) : buffer[k].kind = "tool"
      BY <1>5, <2>2, <3>1 DEF Reopened
    <3>3. k \in i .. Len(s) /\ s[k] = buffer[k]
      BY <1>1, <1>3, <3>1, <3>2
    <3> QED BY <3>2, <3>3
  <2> QED BY <1>5, <2>1, <2>2
<1>6. Orderly(s)
  BY <1>4 DEF Orderly
<1>7. e.kind = "tool" \/ (e.kind # "end" /\ Reopened(buffer)) => Reopened(s)
  BY <1>5 DEF Reopened
<1> QED BY <1>1, <1>2, <1>6, <1>7, EndIsOrderly

LEMMA PushRecordOrderly ==
  ASSUME TypeOK, FileInv, ToolInv, DeltaBeforeEnd, PushRecord
  PROVE  ToolInv' /\ DeltaBeforeEnd'
<1> DEFINE w == writer.event
<1>1. /\ w \in EventType /\ w.kind \in Recorded /\ Push(w) /\ writer.pc = "push"
      /\ writer'.pc = "send" /\ writer'.event = w /\ stage' = stage /\ active' = active
      /\ sink' = sink /\ loaded' = loaded
  BY WriterInFile DEF PushRecord, TypeOK, TaskType
<1>2. w.kind # "delta" /\ Orderly(buffer)
  BY <1>1 DEF Recorded, DeltaBeforeEnd, Orderly
<1>3. stage = "mark" => w.kind = "tool"
  BY <1>1 DEF ToolInv, Free
<1>4. stage \notin {"tool", "ended"}
  BY <1>1 DEF ToolInv, Free
<1> HIDE DEF w
<1>5. Orderly(buffer') /\ (w.kind = "tool" => Reopened(buffer'))
  BY <1>1, <1>2, PushOrderly
<1> QED BY <1>1, <1>3, <1>4, <1>5 DEF ToolInv, ToolOpen, Reopened, Orderly, DeltaBeforeEnd, Free

\* A push of the sink: output of the process, or its copy for the tool while it runs.
LEMMA PushLiveOrderly ==
  ASSUME TypeOK, ToolInv, DeltaBeforeEnd, NEW e \in EventType, Push(e),
         UNCHANGED <<session, loaded>>, sink'.pc # "push",
         e.kind = "output" \/ (e.kind = "delta" /\ active)
  PROVE  ToolInv' /\ DeltaBeforeEnd'
<1>1. Orderly(buffer) /\ (e.kind = "delta" => Reopened(buffer))
  BY DEF DeltaBeforeEnd, Orderly, ToolInv, ToolOpen, Reopened
<1>2. Orderly(buffer') /\ (Reopened(buffer) => Reopened(buffer'))
  BY <1>1, PushOrderly
<1> QED BY <1>2 DEF ToolInv, ToolOpen, Reopened, Orderly, DeltaBeforeEnd, Free, session

LEMMA ToolsKept ==
  ASSUME TypeOK, FileInv, ToolInv, DeltaBeforeEnd, [Next]_vars
  PROVE  ToolInv' /\ DeltaBeforeEnd'
<1>1. CASE PushRecord
  BY <1>1, PushRecordOrderly
<1>2. CASE PushOutput
  <2>1. sink.event \in EventType /\ sink.event.kind = "output"
    BY <1>2 DEF PushOutput, TypeOK, TaskType, ToolInv
  <2> QED BY <1>2, <2>1, PushLiveOrderly DEF PushOutput, TypeOK, TaskType
<1>3. CASE Delta
  <2>1. Fresh("delta") \in EventType /\ Fresh("delta").kind = "delta"
    BY <1>3, FreshEvent DEF Delta, Kinds, FileInv
  <2> QED BY <1>3, <2>1, PushLiveOrderly DEF Delta
<1>4. CASE Restart
  BY <1>4 DEF Restart, ToolInv, DeltaBeforeEnd, None, Free
<1>5. CASE Load
  <2>1. FileOrdered' /\ rollout' \in Seq(EventType) /\ buffer' \in Seq(EventType) /\ Suffix(buffer', rollout')
    BY <1>5, LoadRepairs, LoadKeepsFile DEF FileInv
  <2>2. EventsIn(buffer') \subseteq EventsIn(rollout')
    BY <2>1, SuffixElements
  <2>3. \A i \in DOMAIN buffer' : buffer'[i].kind # "delta"
    BY <2>1, <2>2 DEF FileOrdered, EventsIn, Stored, Recorded
  <2>4. stage' = "idle" /\ active' = FALSE /\ sink' = sink
    BY <1>5 DEF Load, session, ToolInv, TypeOK
  <2> QED BY <2>3, <2>4 DEF ToolInv, DeltaBeforeEnd, Free
<1>6. ASSUME UNCHANGED <<buffer, loaded>>, sink' = sink,
             stage' = "mark" /\ ~Free(writer') => writer'.event.kind = "tool",
             stage' \in {"tool", "ended"} => Free(writer'), active' => stage' = "tool",
             ~loaded => stage' = "idle",
             stage' = "tool" \/ (stage' = "mark" /\ writer'.pc \in {"idle", "send"}) => ToolOpen
      PROVE  ToolInv' /\ DeltaBeforeEnd'
  BY <1>6 DEF ToolInv, ToolOpen, DeltaBeforeEnd, Free
<1>7. CASE AppendItem \/ EndLine
  <2>1. /\ UNCHANGED <<buffer, loaded, sink, stage, active>> /\ ~Free(writer)
        /\ writer'.pc \in {"newline", "push"} /\ writer'.event = writer.event
    BY <1>7 DEF AppendItem, EndLine, TypeOK, TaskType, Free
  <2> QED BY <1>6, <2>1 DEF ToolInv
<1>8. CASE AppendFails
  <2>1. /\ UNCHANGED <<buffer, loaded, sink, active>> /\ ~Free(writer)
        /\ Free(writer') /\ stage' \in {"idle", "turn"}
    BY <1>8 DEF AppendFails, None, Free
  <2>2. loaded /\ ~active
    BY <2>1 DEF FileInv, Unloaded, ToolInv
  <2> QED BY <1>6, <2>1, <2>2
<1>9. CASE SendRecord
  <2>1. /\ UNCHANGED <<buffer, loaded, sink, stage, active>>
        /\ writer.pc = "send" /\ Free(writer')
    BY <1>9 DEF SendRecord, None, Free
  <2> QED BY <1>6, <2>1 DEF ToolInv, Free
<1>10. CASE MarkActive
  <2>1. /\ UNCHANGED <<buffer, loaded, sink, writer>>
        /\ stage = "mark" /\ stage' = "tool" /\ writer.pc = "idle"
    BY <1>10 DEF MarkActive
  <2> QED BY <1>6, <2>1 DEF ToolInv, Free
<1>11. CASE ClearActive
  <2>1. /\ UNCHANGED <<buffer, loaded, sink, writer>>
        /\ stage = "tool" /\ stage' = "ended" /\ active' = FALSE
    BY <1>11 DEF ClearActive
  <2> QED BY <1>6, <2>1 DEF ToolInv, Free
<1>12. ASSUME NEW kind \in {"turn", "tool", "end", "done"}, Record(kind)
       PROVE  ToolInv' /\ DeltaBeforeEnd'
  BY <1>12 DEF Record, Follows, StageAfter, Stored, Recorded, Fresh, ToolInv, ToolOpen, DeltaBeforeEnd, Free
<1>13. CASE \/ ClientStep \/ Output \/ SendOutput \/ NoDelta \/ SendDelta
            \/ AnswerStep \/ LoadFails \/ UNCHANGED vars
  <2>1. /\ UNCHANGED <<buffer, session, loaded>>
        /\ sink'.pc = "push" => sink' = sink \/ sink'.event.kind = "output"
    BY <1>13 DEF ClientStep, Open, Subscribe, Replay, Deliver, Disconnect, log, Output, SendOutput,
                NoDelta, SendDelta, AnswerStep, AppendAnswer, AnswerFails, LoadFails, vars, Fresh,
                None, TypeOK, TaskType
  <2> QED BY <2>1 DEF session, ToolInv, ToolOpen, DeltaBeforeEnd, Free
<1> QED BY <1>1, <1>2, <1>3, <1>4, <1>5, <1>7, <1>8, <1>9, <1>10, <1>11, <1>12, <1>13
       DEF Next, SessionStep, SinkStep

-----------------------------------------------------------------------------
(* Theorems.                                                               *)

LEMMA InitInv == Init => IInv
<1> SUFFICES ASSUME Init PROVE IInv
  OBVIOUS
<1>1. SeenIsStored
  BY DEF Init, SeenIsStored, EventsIn
<1>2. BufferClosed
  BY DEF Init, BufferClosed, Ordered, Closed, EventsIn, None
<1>3. StreamClosed
  BY DEF Init, StreamClosed
<1> QED BY <1>1, <1>2, <1>3, InitTypes, InitFile DEF IInv, FileInv

LEMMA NextInv == IInv /\ [Next]_vars => IInv'
BY TypesKept, FileKept, SeenKept, BufferKept, StreamKept DEF IInv, FileInv

LEMMA Invariance == Spec => []IInv
BY InitInv, NextInv, PTL DEF Spec

\* Type correctness: in particular the buffer and the receiver never exceed their
\* capacities and no id outruns the number of events made.
THEOREM TypeCorrect == Spec => []TypeOK
BY Invariance, PTL DEF IInv

\* record_snapshot (runtime/thread_session/events.rs) appends before it publishes: a stored
\* event that any reader has seen is in the file, also after a failed write or a restart.
THEOREM SeenIsDurable == Spec => []SeenIsStored
BY Invariance, PTL DEF IInv

\* next_event_index: the ids the session gave to the events of the file grow, whatever ids
\* live-only events and failed writes took, whatever answers were written between, and however
\* often the counter was taken from the file again.
THEOREM FileIdsGrow == Spec => []RecordedIdsGrow
<1>1. IInv => RecordedIdsGrow
  BY DEF IInv, FileOrdered, RecordedIdsGrow
<1> QED BY <1>1, Invariance, PTL

\* Subscribing before replaying (entrypoints/api.rs): an open connection that has not lost
\* events to the capacity of its channel skips no event that the session recorded and went on
\* to publish.
THEOREM ConnectionComplete == Spec => []StreamComplete
<1>1. ASSUME IInv
      PROVE  StreamComplete
  <2> SUFFICES ASSUME conn # "off", ~lagged,
                      NEW e \in EventsIn(rollout), e.kind \in Recorded, e \notin silent,
                      NEW f \in RecordedOf(Here), NEW g \in RecordedOf(Here),
                      f.n <= e.n, e.n <= g.n
               PROVE  e \in Here
    BY DEF StreamComplete, Between, RecordedOf
  <2>1. f \in Here /\ f.kind \in Recorded /\ g \in Here /\ g.kind \in Recorded
    BY DEF RecordedOf
  <2>2. e \in Here \/ e \in Pending({"newline", "push", "send"})
    BY <1>1, <2>1 DEF IInv, StreamClosed, Closed
  <2>3. CASE e \in Pending({"newline", "push", "send"})
    <3>1. writer.pc \in {"newline", "push", "send"} /\ e = writer.event
      BY <2>3 DEF Pending
    <3>2. g \in EventsIn(rollout)
      <4>1. g \in EventsIn(rx) \cup EventsIn(got)
        <5>1. opened \in 0 .. Len(got) /\ got \in Seq(EventType)
          BY <1>1 DEF IInv, TypeOK
        <5>2. EventsIn(SubSeq(got, opened + 1, Len(got))) \subseteq EventsIn(got)
          <6>1. EventsIn(SubSeq(got, opened + 1, Len(got))) = {got[i] : i \in opened + 1 .. Len(got)}
            BY <5>1, EndElements
          <6>2. \A i \in opened + 1 .. Len(got) : i \in DOMAIN got
            BY <5>1, Numbers
          <6> QED BY <6>1, <6>2 DEF EventsIn
        <5> QED BY <2>1, <5>2 DEF Here
      <4> QED BY <1>1, <2>1, <4>1 DEF IInv, SeenIsStored, Stored
    <3>3. g = e
      BY <1>1, <2>1, <3>1, <3>2, WriterInFile DEF IInv, FileInv
    <3> QED BY <2>1, <3>3
  <2> QED BY <2>2, <2>3
<1> QED BY <1>1, Invariance, PTL

\* record_invocation_output_delta_if_active looks and pushes under one lock: the buffer never
\* shows output of a tool after its end, whatever the exec session still writes.
THEOREM NoLateDelta == Spec => []DeltaBeforeEnd
<1>1. Init => ToolInv /\ DeltaBeforeEnd
  BY DEF Init, ToolInv, ToolOpen, DeltaBeforeEnd, None, Free
<1>2. IInv /\ ToolInv /\ DeltaBeforeEnd /\ [Next]_vars => (ToolInv /\ DeltaBeforeEnd)'
  BY ToolsKept DEF IInv, FileInv
<1> QED BY <1>1, <1>2, Invariance, PTL DEF Spec
=============================================================================
