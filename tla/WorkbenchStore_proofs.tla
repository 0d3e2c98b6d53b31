------------------------ MODULE WorkbenchStore_proofs ------------------------
(***************************************************************************)
(* For any number of threads, events, opens, refused calls and             *)
(* compactions: a screen shows its own thread, a viewer that hears its     *)
(* agent shows all of it, a session misses only its own opening, and no    *)
(* listener and no task is left behind.                                    *)
(***************************************************************************)
EXTENDS WorkbenchStore, FiniteSetTheorems, TLAPS

Events == Threads \X Nat

OpenRecords ==
  [kind : {"session", "viewer"}, thread : Threads, pc : Stages, got : Nat, view : Nat,
   since : Nat, buffer : Seq(Events), queue : Seq(Events), ear : BOOLEAN]

CompactRecords == [thread : Threads, got : Nat, pc : {"replaying", "replayed", "over"}]

Tasks == [thread : Threads, at : Nat, by : Nat, lagged : BOOLEAN]

ShellShape ==
  /\ log \in [Threads -> Nat] /\ \A t \in Threads : log[t] <= MaxEvents
  /\ unsubs \in [Threads -> Nat]
  /\ task \in Tasks \cup {NoTask} /\ (task # NoTask => task.by \in DOMAIN opens)

OpensShape == opens \in Seq(OpenRecords) /\ compacts \in Seq(CompactRecords)

ScreenShape ==
  /\ active \in Threads \cup {NoThread}
  /\ transcript \in Seq(Events) /\ applied \subseteq Events

AgentShape == agentView \in Seq(Events) /\ agentIds \subseteq Events

\* The opens that the store points at, and what it points at them for.
Pointed ==
  /\ {session, viewer, unlisten, agentOff} \subseteq {None} \cup DOMAIN opens
  /\ session # None => opens[session].kind = "session"
  /\ viewer # None => opens[viewer].kind = "viewer"
  /\ unlisten # None => unlisten = session
  /\ agentOff # None => agentOff = viewer

Early == {"reading", "read", "subscribing", "subscribed"}
Deaf == {"reading", "read", "over"}
Asking == {"subscribing", "subscribed"}

(* What an open holds, of the n events its thread has emitted by now.      *)
OpenOK(r, n) ==
  /\ r.got <= n /\ r.view <= n /\ r.since <= n
  /\ r.buffer \in Seq({r.thread} \X (1..n)) /\ r.queue \in Seq({r.thread} \X (1..n))
  /\ r.pc \in Asking => r.ear
  /\ r.pc \in Deaf => ~r.ear
  /\ r.pc \notin {"tree", "open"} => r.queue = <<>>
  /\ r.pc = "replayed" => r.view <= r.got
  /\ r.pc = "tree" => r.kind = "session"

OpensOK == \A o \in DOMAIN opens : OpenOK(opens[o], log[opens[o].thread])

CompactsOK == \A c \in DOMAIN compacts : compacts[c].got <= log[compacts[c].thread]

(* A listener that was handed over is in one of the two cleanups, and a    *)
(* cleanup is of an open that has handed its listener over.                *)
EarsOwned ==
  /\ \A o \in {unlisten, agentOff} \ {None} : opens[o].pc \notin Early
  /\ \A o \in DOMAIN opens :
       opens[o].ear /\ opens[o].pc \notin Asking => o \in {unlisten, agentOff}

(* The task forwards for an open that listens, or is about to be ended.    *)
TaskOwned ==
  task # NoTask =>
    /\ task.thread = opens[task.by].thread /\ task.at <= log[task.thread]
    /\ opens[task.by].pc \notin {"reading", "read", "subscribing"}
    /\ opens[task.by].ear \/ unsubs[task.thread] > 0

SessionOwn ==
  Loaded(session) =>
    /\ transcript \in Seq({active} \X Nat)
    /\ ToSet(Upto(active, opens[session].view)) \subseteq ToSet(transcript)

SessionApplied ==
  Loaded(session) /\ opens[session].pc = "open" =>
    \A e \in applied : e[2] > opens[session].since => e \in ToSet(transcript)

SessionHeard ==
  Hearing(session) =>
    ToSet(EventsOf(opens[session].thread, opens[session].since, task.at))
      \subseteq ToSet(transcript) \cup ToSet(opens[session].queue)

ViewerOwn == viewer # None => agentView \in Seq({opens[viewer].thread} \X Nat)

(* buffer: anything up to event s, and from there on every event up to a.  *)
RunsTo(buffer, t, s, a) ==
  \E n \in 0 .. Len(buffer) :
    /\ Len(buffer) = n + (a - s)
    /\ \A i \in 1 .. n : buffer[i][2] <= s
    /\ \A i \in 1 .. (a - s) : buffer[n + i] = <<t, s + i>>

Waiting(o) ==
  /\ o # None /\ opens[o].kind = "viewer" /\ viewer = o /\ opens[o].ear
  /\ task.by = o /\ ~task.lagged
  /\ opens[o].pc \in {"subscribed", "replaying", "replayed"}

ViewerBuffered ==
  Waiting(viewer) =>
    \E s \in 0 .. task.at :
      /\ RunsTo(opens[viewer].buffer, opens[viewer].thread, s, task.at)
      /\ opens[viewer].pc = "replayed" => s <= opens[viewer].got

ViewerShown ==
  Hearing(viewer) =>
    \E m \in 0 .. log[opens[viewer].thread] : \E q \in 0 .. m :
      /\ q <= task.at
      /\ agentView = Upto(opens[viewer].thread, m)
      /\ agentIds = ToSet(Upto(opens[viewer].thread, m))
      /\ opens[viewer].queue = EventsOf(opens[viewer].thread, q, task.at)

SessionFacts == SessionOwn /\ SessionApplied /\ SessionHeard
ViewerFacts == ViewerOwn /\ ViewerBuffered /\ ViewerShown

IInv ==
  /\ ShellShape /\ OpensShape /\ ScreenShape /\ AgentShape /\ Pointed
  /\ OpensOK /\ CompactsOK /\ EarsOwned /\ TaskOwned
  /\ SessionFacts /\ ViewerFacts

-----------------------------------------------------------------------------
(* Sequences and the screen.                                               *)

\* The kept places up to one of them: how many, and how that grows.
RankOf(kept, i) == Cardinality({j \in kept : j <= i})

LEMMA RankFacts ==
  ASSUME NEW n \in Nat, NEW kept \in SUBSET (1 .. n)
  PROVE  /\ IsFiniteSet(kept) /\ Cardinality(kept) \in Nat
         /\ \A i \in kept : RankOf(kept, i) \in 1 .. Cardinality(kept)
         /\ \A i \in kept, j \in kept : i < j => RankOf(kept, i) < RankOf(kept, j)
<1>1. IsFiniteSet(kept) /\ Cardinality(kept) \in Nat
  <2>1. IsFiniteSet(1 .. n)
    BY FS_Interval
  <2>2. IsFiniteSet(kept)
    BY <2>1, FS_Subset
  <2> QED BY <2>2, FS_CardinalityType
<1>2. \A i \in kept : RankOf(kept, i) \in 1 .. Cardinality(kept)
  <2> SUFFICES ASSUME NEW i \in kept PROVE RankOf(kept, i) \in 1 .. Cardinality(kept)
    OBVIOUS
  <2> DEFINE upto == {j \in kept : j <= i}
  <2>1. upto \in SUBSET kept /\ i \in upto
    OBVIOUS
  <2>2. IsFiniteSet(upto) /\ Cardinality(upto) <= Cardinality(kept) /\ Cardinality(upto) \in Nat
    BY <1>1, <2>1, FS_Subset, FS_CardinalityType
  <2>3. Cardinality(upto) # 0
    BY <2>1, <2>2, FS_EmptySet
  <2> HIDE DEF upto
  <2>4. Cardinality(upto) \in 1 .. Cardinality(kept)
    BY <1>1, <2>2, <2>3
  <2> QED BY <2>4 DEF RankOf, upto
<1>3. \A i \in kept, j \in kept : i < j => RankOf(kept, i) < RankOf(kept, j)
  <2> SUFFICES ASSUME NEW i \in kept, NEW j \in kept, i < j
               PROVE  RankOf(kept, i) < RankOf(kept, j)
    OBVIOUS
  <2> DEFINE low == {k \in kept : k <= i}
             high == {k \in kept : k <= j}
  <2>0. kept \subseteq Nat /\ i \in Nat /\ j \in Nat
    OBVIOUS
  <2>1. low \in SUBSET high /\ high \in SUBSET kept /\ j \in high /\ j \notin low
    <3>1. \A k \in kept : k <= i => k <= j
      BY <2>0
    <3>2. ~(j <= i) /\ j <= j
      BY <2>0
    <3> QED BY <3>1, <3>2
  <2>2. IsFiniteSet(high) /\ IsFiniteSet(low)
    BY <1>1, <2>1, FS_Subset
  <2>3. Cardinality(high) \in Nat /\ Cardinality(low) \in Nat
    BY <2>2, FS_CardinalityType
  <2>4. Cardinality(low) <= Cardinality(high) /\ Cardinality(high) # Cardinality(low)
    <3> HIDE DEF low, high
    <3> QED BY <2>1, <2>2, FS_Subset
  <2> HIDE DEF low, high
  <2>5. Cardinality(low) < Cardinality(high)
    BY <2>3, <2>4
  <2> QED BY <2>5 DEF RankOf, low, high
<1> QED BY <1>1, <1>2, <1>3

(* Each kept place has its own rank, and each rank up to their number is   *)
(* the rank of one kept place.                                             *)
LEMMA RankBijection ==
  ASSUME NEW n \in Nat, NEW kept \in SUBSET (1 .. n)
  PROVE  /\ \A i \in kept, j \in kept : RankOf(kept, i) = RankOf(kept, j) => i = j
         /\ \A k \in 1 .. Cardinality(kept) : \E i \in kept : RankOf(kept, i) = k
<1>1. /\ IsFiniteSet(kept) /\ Cardinality(kept) \in Nat
      /\ \A i \in kept : RankOf(kept, i) \in 1 .. Cardinality(kept)
      /\ \A i \in kept, j \in kept : i < j => RankOf(kept, i) < RankOf(kept, j)
  BY RankFacts
<1>2. \A i \in kept, j \in kept : RankOf(kept, i) = RankOf(kept, j) => i = j
  <2> SUFFICES ASSUME NEW i \in kept, NEW j \in kept, RankOf(kept, i) = RankOf(kept, j)
               PROVE  i = j
    OBVIOUS
  <2>1. i \in Nat /\ j \in Nat
    OBVIOUS
  <2>2. RankOf(kept, i) \in Nat /\ RankOf(kept, j) \in Nat
    BY <1>1
  <2>3. ~(i < j) /\ ~(j < i)
    BY <1>1, <2>2
  <2> QED BY <2>1, <2>3
<1>3. \A k \in 1 .. Cardinality(kept) : \E i \in kept : RankOf(kept, i) = k
  <2> DEFINE m == Cardinality(kept)
             f == [i \in kept |-> RankOf(kept, i)]
  <2>1. f \in [kept -> 1 .. m] /\ \A i \in kept, j \in kept : f[i] = f[j] => i = j
    BY <1>1, <1>2
  <2>2. f \in Injection(kept, 1 .. m)
    BY <2>1 DEF Injection, IsInjective
  <2>3. IsFiniteSet(1 .. m) /\ Cardinality(1 .. m) = m
    BY <1>1, FS_Interval
  <2>4. f \in Surjection(kept, 1 .. m)
    <3> HIDE DEF f
    <3> QED BY <2>2, <2>3, FS_Injection
  <2>5. \A k \in 1 .. m : \E i \in kept : f[i] = k
    BY <2>4 DEF Surjection
  <2> QED BY <2>5
<1> QED BY <1>2, <1>3

(* What is picked: the events at the kept places, all of them and nothing  *)
(* else.                                                                   *)
LEMMA PickedFacts ==
  ASSUME NEW S, NEW events \in Seq(S), NEW kept \in SUBSET (DOMAIN events)
  PROVE  /\ Picked(events, kept) \in Seq(S)
         /\ \A k \in DOMAIN Picked(events, kept) : \E i \in kept : Picked(events, kept)[k] = events[i]
         /\ \A i \in kept : events[i] \in ToSet(Picked(events, kept))
<1> DEFINE m == Cardinality(kept)
           At(k) == CHOOSE i \in kept : Cardinality({j \in kept : j <= i}) = k
<1>1. Len(events) \in Nat /\ kept \in SUBSET (1 .. Len(events)) /\ DOMAIN events = 1 .. Len(events)
  OBVIOUS
<1>2. m \in Nat /\ \A i \in kept : RankOf(kept, i) \in 1 .. m
  BY <1>1, RankFacts
<1>3. \A k \in 1 .. m : At(k) \in kept /\ RankOf(kept, At(k)) = k
  <2> SUFFICES ASSUME NEW k \in 1 .. m PROVE At(k) \in kept /\ RankOf(kept, At(k)) = k
    OBVIOUS
  <2> HIDE DEF At
  <2>1. \E i \in kept : RankOf(kept, i) = k
    <3>1. \A l \in 1 .. Cardinality(kept) : \E i \in kept : RankOf(kept, i) = l
      BY ONLY <1>1, RankBijection
    <3> QED BY <3>1
  <2>2. \E i \in kept : Cardinality({j \in kept : j <= i}) = k
    BY ONLY <2>1 DEF RankOf
  <2>3. At(k) \in kept /\ Cardinality({j \in kept : j <= At(k)}) = k
    BY ONLY <2>2 DEF At
  <2> QED BY <2>3 DEF RankOf
<1>4. Picked(events, kept) = [k \in 1 .. m |-> events[At(k)]]
  BY DEF Picked
<1> HIDE DEF m, At
<1>5. \A k \in 1 .. m : events[At(k)] \in S
  BY <1>1, <1>3
<1>6. Picked(events, kept) \in Seq(S) /\ DOMAIN Picked(events, kept) = 1 .. m
  BY <1>2, <1>4, <1>5
<1>7. \A k \in 1 .. m : \E i \in kept : Picked(events, kept)[k] = events[i]
  BY <1>3, <1>4
<1>8. ASSUME NEW i \in kept PROVE events[i] \in ToSet(Picked(events, kept))
  <2> DEFINE k == RankOf(kept, i)
  <2>1. k \in 1 .. m
    BY <1>2
  <2>2. At(k) \in kept /\ RankOf(kept, At(k)) = RankOf(kept, i)
    BY <1>3, <2>1
  <2>3. At(k) = i
    BY <1>1, <2>2, RankBijection
  <2>4. Picked(events, kept)[k] = events[i]
    BY <1>4, <2>1, <2>3
  <2> QED BY <1>6, <2>1, <2>4 DEF ToSet
<1> QED BY <1>6, <1>7, <1>8

(* Two sequences that agree at every place, one joined to another, and the *)
(* set of what a sequence holds.                                           *)
LEMMA SameSequence ==
  ASSUME NEW S, NEW x \in Seq(S), NEW y \in Seq(S), Len(x) = Len(y),
         \A i \in 1 .. Len(x) : x[i] = y[i]
  PROVE  x = y
OBVIOUS

LEMMA ConcatFacts ==
  ASSUME NEW S, NEW x \in Seq(S), NEW y \in Seq(S)
  PROVE  /\ x \o y \in Seq(S) /\ Len(x) \in Nat /\ Len(y) \in Nat
         /\ Len(x \o y) = Len(x) + Len(y)
         /\ DOMAIN (x \o y) = 1 .. (Len(x) + Len(y))
         /\ \A i \in 1 .. Len(x) : (x \o y)[i] = x[i]
         /\ \A i \in 1 .. Len(y) : (x \o y)[Len(x) + i] = y[i]
OBVIOUS

LEMMA ConcatSet ==
  ASSUME NEW S, NEW x \in Seq(S), NEW y \in Seq(S)
  PROVE  ToSet(x \o y) = ToSet(x) \cup ToSet(y)
<1>1. /\ DOMAIN x = 1 .. Len(x) /\ DOMAIN y = 1 .. Len(y)
  OBVIOUS
<1>2. /\ Len(x) \in Nat /\ Len(y) \in Nat
      /\ DOMAIN (x \o y) = 1 .. (Len(x) + Len(y))
      /\ \A i \in 1 .. Len(x) : (x \o y)[i] = x[i]
      /\ \A i \in 1 .. Len(y) : (x \o y)[Len(x) + i] = y[i]
  BY ConcatFacts
<1>3. ASSUME NEW i \in DOMAIN (x \o y) PROVE (x \o y)[i] \in ToSet(x) \cup ToSet(y)
  <2>1. CASE i \in 1 .. Len(x)
    BY <1>1, <1>2, <2>1 DEF ToSet
  <2>2. CASE i \notin 1 .. Len(x)
    <3>1. i - Len(x) \in 1 .. Len(y) /\ Len(x) + (i - Len(x)) = i
      BY <1>2, <2>2
    <3>2. (x \o y)[i] = y[i - Len(x)]
      BY <1>2, <3>1
    <3> QED BY <1>1, <3>1, <3>2 DEF ToSet
  <2> QED BY <2>1, <2>2
<1>4. ASSUME NEW i \in 1 .. Len(x) PROVE x[i] \in ToSet(x \o y)
  <2>1. i \in DOMAIN (x \o y)
    BY <1>2
  <2> QED BY <1>2, <2>1 DEF ToSet
<1>5. ASSUME NEW i \in 1 .. Len(y) PROVE y[i] \in ToSet(x \o y)
  <2>1. Len(x) + i \in DOMAIN (x \o y)
    BY <1>2
  <2> QED BY <1>2, <2>1 DEF ToSet
<1>6. ToSet(x \o y) \subseteq ToSet(x) \cup ToSet(y)
  BY <1>3 DEF ToSet
<1>7. ToSet(x) \subseteq ToSet(x \o y)
  BY <1>1, <1>4 DEF ToSet
<1>8. ToSet(y) \subseteq ToSet(x \o y)
  BY <1>1, <1>5 DEF ToSet
<1> QED BY <1>6, <1>7, <1>8

(* Events m+1 to n of a thread.                                            *)
LEMMA EventsOfFacts ==
  ASSUME NEW t, NEW m \in Nat, NEW n \in Nat, m <= n
  PROVE  /\ EventsOf(t, m, n) \in Seq({t} \X (1 .. n)) /\ EventsOf(t, m, n) \in Seq({t} \X Nat)
         /\ Len(EventsOf(t, m, n)) = n - m /\ DOMAIN EventsOf(t, m, n) = 1 .. (n - m)
         /\ \A i \in 1 .. (n - m) : EventsOf(t, m, n)[i] = <<t, m + i>>
<1>1. n - m \in Nat
  OBVIOUS
<1>2. \A i \in 1 .. (n - m) : m + i \in 1 .. n /\ m + i \in Nat
  OBVIOUS
<1>3. \A i \in 1 .. (n - m) : <<t, m + i>> \in {t} \X (1 .. n) /\ <<t, m + i>> \in {t} \X Nat
  BY <1>2
<1> QED BY <1>1, <1>3 DEF EventsOf

LEMMA EventsOfSet ==
  ASSUME NEW t, NEW m \in Nat, NEW n \in Nat
  PROVE  \A e : e \in ToSet(EventsOf(t, m, n)) <=> \E k \in Nat : m < k /\ k <= n /\ e = <<t, k>>
<1>1. CASE m <= n
  <2> SUFFICES ASSUME NEW e
               PROVE  e \in ToSet(EventsOf(t, m, n)) <=> \E k \in Nat : m < k /\ k <= n /\ e = <<t, k>>
    OBVIOUS
  <2>1. /\ DOMAIN EventsOf(t, m, n) = 1 .. (n - m)
        /\ \A i \in 1 .. (n - m) : EventsOf(t, m, n)[i] = <<t, m + i>>
    BY <1>1, EventsOfFacts
  <2>2. ASSUME e \in ToSet(EventsOf(t, m, n))
        PROVE  \E k \in Nat : m < k /\ k <= n /\ e = <<t, k>>
    <3>1. \E i \in 1 .. (n - m) : e = <<t, m + i>>
      BY <2>1, <2>2 DEF ToSet
    <3>2. \A i \in 1 .. (n - m) : m + i \in Nat /\ m < m + i /\ m + i <= n
      BY <1>1
    <3> QED BY <3>1, <3>2
  <2>3. ASSUME NEW k \in Nat, m < k, k <= n, e = <<t, k>>
        PROVE  e \in ToSet(EventsOf(t, m, n))
    <3>1. k - m \in 1 .. (n - m) /\ m + (k - m) = k
      BY <2>3
    <3>2. EventsOf(t, m, n)[k - m] = e
      BY <2>1, <2>3, <3>1
    <3> QED BY <2>1, <3>1, <3>2 DEF ToSet
  <2> QED BY <2>2, <2>3
<1>2. CASE ~(m <= n)
  <2>1. 1 .. (n - m) = {}
    BY <1>2
  <2>2. DOMAIN EventsOf(t, m, n) = {}
    BY <2>1 DEF EventsOf
  <2>3. ToSet(EventsOf(t, m, n)) = {}
    BY <2>2 DEF ToSet
  <2>4. \A k \in Nat : ~(m < k /\ k <= n)
    BY <1>2
  <2> QED BY <2>3, <2>4
<1> QED BY <1>1, <1>2

LEMMA EventsOfNext ==
  ASSUME NEW t, NEW m \in Nat, NEW n \in Nat, m <= n
  PROVE  EventsOf(t, m, n + 1) = Append(EventsOf(t, m, n), <<t, n + 1>>)
<1> DEFINE s == EventsOf(t, m, n)
           z == EventsOf(t, m, n + 1)
           d == n - m
<1>1. d \in Nat /\ (n + 1) - m = d + 1 /\ m + (d + 1) = n + 1 /\ n + 1 \in Nat /\ m <= n + 1
  OBVIOUS
<1>2. s \in Seq({t} \X Nat) /\ Len(s) = d /\ \A i \in 1 .. d : s[i] = <<t, m + i>>
  BY EventsOfFacts
<1>3. /\ z \in Seq({t} \X Nat) /\ Len(z) = (n + 1) - m
      /\ \A i \in 1 .. ((n + 1) - m) : z[i] = <<t, m + i>>
  BY <1>1, EventsOfFacts
<1> HIDE DEF s, z, d
<1>4. <<t, n + 1>> \in {t} \X Nat
  OBVIOUS
<1> DEFINE w == Append(s, <<t, n + 1>>)
<1>5. w \in Seq({t} \X Nat) /\ Len(w) = d + 1 /\ w[d + 1] = <<t, n + 1>>
      /\ \A i \in 1 .. d : w[i] = s[i]
  BY <1>1, <1>2, <1>4
<1> HIDE DEF w
<1>6. \A i \in 1 .. (d + 1) : w[i] = z[i]
  <2> SUFFICES ASSUME NEW i \in 1 .. (d + 1) PROVE w[i] = z[i]
    OBVIOUS
  <2>1. CASE i \in 1 .. d
    BY <1>1, <1>2, <1>3, <1>5, <2>1
  <2>2. CASE i = d + 1
    BY <1>1, <1>3, <1>5, <2>2
  <2> QED BY <1>1, <2>1, <2>2
<1>7. w = z
  BY <1>1, <1>3, <1>5, <1>6, SameSequence
<1> QED BY <1>7 DEF w, z, s

LEMMA EventsOfJoin ==
  ASSUME NEW t, NEW a \in Nat, NEW b \in Nat, NEW c \in Nat, a <= b, b <= c
  PROVE  EventsOf(t, a, b) \o EventsOf(t, b, c) = EventsOf(t, a, c)
<1> DEFINE x == EventsOf(t, a, b)
           y == EventsOf(t, b, c)
           z == EventsOf(t, a, c)
           d == b - a
           e == c - b
<1>1. d \in Nat /\ e \in Nat /\ c - a = d + e /\ a <= c /\ a + d = b
  OBVIOUS
<1>2. x \in Seq({t} \X Nat) /\ Len(x) = d /\ \A i \in 1 .. d : x[i] = <<t, a + i>>
  BY EventsOfFacts
<1>3. y \in Seq({t} \X Nat) /\ Len(y) = e /\ \A i \in 1 .. e : y[i] = <<t, b + i>>
  BY EventsOfFacts
<1>4. z \in Seq({t} \X Nat) /\ Len(z) = c - a /\ \A i \in 1 .. (c - a) : z[i] = <<t, a + i>>
  BY <1>1, EventsOfFacts
<1> HIDE DEF x, y, z, d, e
<1>5. /\ x \o y \in Seq({t} \X Nat) /\ Len(x \o y) = d + e
      /\ \A i \in 1 .. d : (x \o y)[i] = x[i]
      /\ \A i \in 1 .. e : (x \o y)[d + i] = y[i]
  <2>1. /\ x \o y \in Seq({t} \X Nat) /\ Len(x \o y) = Len(x) + Len(y)
        /\ \A i \in 1 .. Len(x) : (x \o y)[i] = x[i]
        /\ \A i \in 1 .. Len(y) : (x \o y)[Len(x) + i] = y[i]
    <3> DEFINE S == {t} \X Nat
    <3>1. x \in Seq(S) /\ y \in Seq(S)
      BY <1>2, <1>3
    <3> HIDE DEF S
    <3>2. /\ x \o y \in Seq(S) /\ Len(x \o y) = Len(x) + Len(y)
          /\ \A i \in 1 .. Len(x) : (x \o y)[i] = x[i]
          /\ \A i \in 1 .. Len(y) : (x \o y)[Len(x) + i] = y[i]
      BY <3>1, ConcatFacts
    <3> QED BY <3>2 DEF S
  <2> QED BY <1>2, <1>3, <2>1
<1>6. \A i \in 1 .. (d + e) : (x \o y)[i] = z[i]
  <2> SUFFICES ASSUME NEW i \in 1 .. (d + e) PROVE (x \o y)[i] = z[i]
    OBVIOUS
  <2>1. CASE i \in 1 .. d
    BY <1>1, <1>2, <1>4, <1>5, <2>1
  <2>2. CASE i \notin 1 .. d
    <3> DEFINE j == i - d
    <3>1. j \in 1 .. e /\ d + j = i /\ b + j = a + i
      BY <1>1, <2>2
    <3> HIDE DEF j
    <3>2. (x \o y)[i] = y[j]
      BY <1>5, <3>1
    <3>3. y[j] = <<t, a + i>>
      BY <1>3, <3>1
    <3> QED BY <1>1, <1>4, <3>2, <3>3
  <2> QED BY <2>1, <2>2
<1>7. x \o y = z
  BY <1>1, <1>4, <1>5, <1>6, SameSequence
<1> QED BY <1>7 DEF x, y, z

\* A screen that contains an event has it at some place.
LEMMA ContainsFacts ==
  ASSUME NEW S, NEW s \in Seq(S), NEW e
  PROVE  Contains(s, e) <=> e \in ToSet(s)
<1>1. DOMAIN s = 1 .. Len(s)
  OBVIOUS
<1> QED BY <1>1 DEF Contains, ToSet

LEMMA RangeFacts ==
  ASSUME NEW S, NEW s \in Seq(S)
  PROVE  /\ ToSet(s) \subseteq S
         /\ \A T : ToSet(s) \subseteq T => s \in Seq(T)
         /\ (\A e \in ToSet(s) : e \in S)
<1>1. DOMAIN s = 1 .. Len(s) /\ Len(s) \in Nat /\ \A i \in 1 .. Len(s) : s[i] \in S
  OBVIOUS
<1>2. ToSet(s) \subseteq S
  BY <1>1 DEF ToSet
<1>3. ASSUME NEW T, ToSet(s) \subseteq T PROVE s \in Seq(T)
  <2>1. \A i \in 1 .. Len(s) : s[i] \in T
    BY <1>1, <1>3 DEF ToSet
  <2>2. s = [i \in 1 .. Len(s) |-> s[i]]
    BY <1>1
  <2> QED BY <1>1, <2>1, <2>2
<1> QED BY <1>2, <1>3

(* What showing events does to a screen: it keeps what it has, and gets    *)
(* every event that is not known already, and nothing else.                *)
LEMMA FreshFacts ==
  ASSUME NEW S, NEW events \in Seq(S), NEW shown \in Seq(S), NEW known
  PROVE  /\ Fresh(shown, known, events) \in Seq(S)
         /\ ToSet(Fresh(shown, known, events)) \subseteq ToSet(events)
         /\ \A e \in ToSet(events) :
              e \in known \/ e \in ToSet(shown) \/ e \in ToSet(Fresh(shown, known, events))
<1> DEFINE kept == Kept(shown, known, events)
           f == Picked(events, kept)
<1>1. DOMAIN events = 1 .. Len(events) /\ kept \in SUBSET (DOMAIN events)
  BY DEF Kept
<1>2. \A i \in DOMAIN events : i \notin kept => events[i] \in known \/ events[i] \in ToSet(shown)
  BY ContainsFacts DEF Kept
<1> HIDE DEF kept
<1>3. f \in Seq(S) /\ \A i \in kept : events[i] \in ToSet(f)
  BY <1>1, PickedFacts
<1>4. \A k \in DOMAIN f : \E i \in kept : f[k] = events[i]
  BY <1>1, PickedFacts
<1> HIDE DEF f
<1>5. ToSet(f) \subseteq ToSet(events)
  BY <1>1, <1>4 DEF ToSet
<1>6. \A e \in ToSet(events) : e \in known \/ e \in ToSet(shown) \/ e \in ToSet(f)
  BY <1>2, <1>3 DEF ToSet
<1>7. Fresh(shown, known, events) = f
  BY DEF Fresh, f, kept
<1> QED BY <1>3, <1>5, <1>6, <1>7

LEMMA ShowFacts ==
  ASSUME NEW S, NEW events \in Seq(S), NEW shown \in Seq(S), NEW known
  PROVE  /\ Show(shown, known, events) \in Seq(S)
         /\ ToSet(shown) \subseteq ToSet(Show(shown, known, events))
         /\ \A e \in ToSet(events) : e \in known \/ e \in ToSet(Show(shown, known, events))
         /\ ToSet(Show(shown, known, events)) \subseteq ToSet(shown) \cup ToSet(events)
<1>1. /\ Fresh(shown, known, events) \in Seq(S)
      /\ ToSet(Fresh(shown, known, events)) \subseteq ToSet(events)
      /\ \A e \in ToSet(events) :
           e \in known \/ e \in ToSet(shown) \/ e \in ToSet(Fresh(shown, known, events))
  BY FreshFacts
<1> DEFINE f == Fresh(shown, known, events)
<1> HIDE DEF f
<1>2. shown \o f \in Seq(S) /\ ToSet(shown \o f) = ToSet(shown) \cup ToSet(f)
  BY <1>1, ConcatFacts, ConcatSet DEF f
<1>3. Show(shown, known, events) = shown \o f
  BY DEF Show, f
<1> QED BY <1>1, <1>2, <1>3 DEF f

(* When what is kept is all that comes after some place, it is the rest of *)
(* the sequence.                                                           *)
LEMMA PickedSuffix ==
  ASSUME NEW S, NEW events \in Seq(S), NEW p \in 0 .. Len(events), NEW kept,
         kept = (p + 1) .. Len(events)
  PROVE  Picked(events, kept) = [k \in 1 .. (Len(events) - p) |-> events[p + k]]
<1> DEFINE n == Len(events)
<1>1. n \in Nat /\ DOMAIN events = 1 .. n /\ p \in Nat /\ p <= n
  OBVIOUS
<1> HIDE DEF n
<1>2. kept = (p + 1) .. n
  BY DEF n
<1>3. Cardinality(kept) = n - p
  <2>1. p + 1 \in Int /\ n \in Int
    BY <1>1
  <2>2. Cardinality((p + 1) .. n) = IF p + 1 > n THEN 0 ELSE n - (p + 1) + 1
    BY <2>1, FS_Interval
  <2> QED BY <1>1, <1>2, <2>2
<1>4. \A i \in kept : Cardinality({j \in kept : j <= i}) = i - p
  <2> SUFFICES ASSUME NEW i \in kept PROVE Cardinality({j \in kept : j <= i}) = i - p
    OBVIOUS
  <2>1. i \in Int /\ p + 1 \in Int /\ p + 1 <= i /\ i <= n
    BY <1>1, <1>2
  <2>2. {j \in kept : j <= i} = (p + 1) .. i
    BY <1>1, <1>2, <2>1
  <2>3. Cardinality((p + 1) .. i) = IF p + 1 > i THEN 0 ELSE i - (p + 1) + 1
    BY <2>1, FS_Interval
  <2>4. ~(p + 1 > i) /\ i - (p + 1) + 1 = i - p
    BY <1>1, <2>1
  <2>5. Cardinality((p + 1) .. i) = i - p
    BY <2>3, <2>4
  <2> QED BY <2>2, <2>5
<1>5. ASSUME NEW k \in 1 .. (n - p)
      PROVE  (CHOOSE i \in kept : Cardinality({j \in kept : j <= i}) = k) = p + k
  <2> DEFINE At == CHOOSE i \in kept : Cardinality({j \in kept : j <= i}) = k
  <2>1. p + k \in kept /\ (p + k) - p = k
    BY <1>1, <1>2
  <2>2. \E i \in kept : Cardinality({j \in kept : j <= i}) = k
    BY <1>4, <2>1
  <2>3. At \in kept /\ Cardinality({j \in kept : j <= At}) = k
    BY <2>2
  <2> HIDE DEF At
  <2>4. At - p = k /\ At \in Int
    BY <1>1, <1>2, <1>4, <2>3
  <2>5. At = p + k
    BY <1>1, <2>4
  <2> QED BY <2>5 DEF At
<1>6. Picked(events, kept) =
        [k \in 1 .. (n - p) |->
          events[CHOOSE i \in kept : Cardinality({j \in kept : j <= i}) = k]]
  BY <1>3 DEF Picked
<1>7. Picked(events, kept) = [k \in 1 .. (n - p) |-> events[p + k]]
  BY <1>5, <1>6
<1> QED BY <1>7 DEF n

LEMMA UptoFacts ==
  ASSUME NEW t, NEW n \in Nat
  PROVE  /\ Upto(t, n) \in Seq({t} \X (1 .. n)) /\ Upto(t, n) \in Seq({t} \X Nat)
         /\ \A e : e \in ToSet(Upto(t, n)) <=> \E k \in Nat : 0 < k /\ k <= n /\ e = <<t, k>>
<1>1. 0 \in Nat /\ 0 <= n
  OBVIOUS
<1>2. EventsOf(t, 0, n) \in Seq({t} \X (1 .. n)) /\ EventsOf(t, 0, n) \in Seq({t} \X Nat)
  BY <1>1, EventsOfFacts
<1>3. \A e : e \in ToSet(EventsOf(t, 0, n)) <=> \E k \in Nat : 0 < k /\ k <= n /\ e = <<t, k>>
  BY <1>1, EventsOfSet
<1> QED BY <1>2, <1>3 DEF Upto

(* What a screen has of some events is the first p of them; and those      *)
(* after the first p are the events of a thread from a on.                 *)
KnownUpto(shown, known, events, p) ==
  \A i \in 1 .. Len(events) : (events[i] \in known \/ Contains(shown, events[i])) <=> i <= p
GoesOn(events, p, t, a) == \A k \in 1 .. (Len(events) - p) : events[p + k] = <<t, a + k>>

(* Of a run of events, the fresh ones are those that come after what is    *)
(* known.                                                                  *)
LEMMA FreshRun ==
  ASSUME NEW S, NEW events \in Seq(S), NEW shown, NEW known, NEW t, NEW a \in Nat,
         NEW p \in 0 .. Len(events), KnownUpto(shown, known, events, p), GoesOn(events, p, t, a)
  PROVE  Fresh(shown, known, events) = EventsOf(t, a, a + (Len(events) - p))
<1> USE DEF KnownUpto, GoesOn
<1>1. DOMAIN events = 1 .. Len(events) /\ Len(events) \in Nat
  OBVIOUS
<1>2. Kept(shown, known, events) = (p + 1) .. Len(events)
  <2>1. \A i \in 1 .. Len(events) : i <= p <=> ~(i \in (p + 1) .. Len(events))
    BY <1>1
  <2>2. (p + 1) .. Len(events) \subseteq 1 .. Len(events)
    BY <1>1
  <2>3. \A i \in 1 .. Len(events) :
          i \in (p + 1) .. Len(events) <=> ~(events[i] \in known \/ Contains(shown, events[i]))
    BY <2>1
  <2> QED BY <1>1, <2>2, <2>3 DEF Kept
<1>3. Fresh(shown, known, events) = [k \in 1 .. (Len(events) - p) |-> events[p + k]]
  BY <1>2, PickedSuffix DEF Fresh
<1>4. Fresh(shown, known, events) = [k \in 1 .. (Len(events) - p) |-> <<t, a + k>>]
  BY <1>3
<1>5. (a + (Len(events) - p)) - a = Len(events) - p
  BY <1>1
<1> QED BY <1>4, <1>5 DEF EventsOf

LEMMA ShowUpto ==
  ASSUME NEW t, NEW m \in Nat, NEW q \in Nat, NEW a \in Nat, q <= m, q <= a
  PROVE  Show(Upto(t, m), ToSet(Upto(t, m)), EventsOf(t, q, a)) = Upto(t, IF m < a THEN a ELSE m)
<1> DEFINE events == EventsOf(t, q, a)
           shown == Upto(t, m)
           known == ToSet(shown)
           p == IF m < a THEN m - q ELSE a - q
           b == q + p
           S == {t} \X Nat
<1>1. /\ events \in Seq(S) /\ Len(events) = a - q
      /\ \A i \in 1 .. (a - q) : events[i] = <<t, q + i>>
  BY EventsOfFacts
<1>2. shown \in Seq(S)
  BY UptoFacts
<1>3. \A e : e \in known <=> \E k \in Nat : 0 < k /\ k <= m /\ e = <<t, k>>
  BY EventsOfSet DEF Upto
<1>4. \A e : Contains(shown, e) <=> e \in known
  BY <1>2, ContainsFacts
<1>5. /\ p \in 0 .. (a - q) /\ b \in Nat /\ b + ((a - q) - p) = a
      /\ \A i \in 1 .. (a - q) : q + i <= m <=> i <= p
      /\ \A k \in 1 .. ((a - q) - p) : p + k \in 1 .. (a - q) /\ q + (p + k) = b + k
  OBVIOUS
<1>6. m < a => b = m
  OBVIOUS
<1>7. ~(m < a) => b = a
  OBVIOUS
<1> HIDE DEF events, shown, known, p, b, S
<1>8. \A i \in 1 .. Len(events) : (events[i] \in known \/ Contains(shown, events[i])) <=> i <= p
  <2> SUFFICES ASSUME NEW i \in 1 .. (a - q) PROVE <<t, q + i>> \in known <=> i <= p
    BY <1>1, <1>4
  <2>1. q + i \in Nat /\ 0 < q + i
    OBVIOUS
  <2>2. <<t, q + i>> \in known <=> q + i <= m
    BY <1>3, <2>1
  <2> QED BY <1>5, <2>2
<1>9. \A k \in 1 .. (Len(events) - p) : events[p + k] = <<t, b + k>>
  <2> SUFFICES ASSUME NEW k \in 1 .. ((a - q) - p) PROVE events[p + k] = <<t, b + k>>
    BY <1>1
  <2>1. p + k \in 1 .. (a - q) /\ q + (p + k) = b + k
    BY <1>5
  <2>2. events[p + k] = <<t, q + (p + k)>>
    BY <1>1, <2>1
  <2> QED BY <2>1, <2>2
<1>10. Fresh(shown, known, events) = EventsOf(t, b, b + (Len(events) - p))
  <2>1. p \in 0 .. Len(events)
    BY <1>1, <1>5
  <2>2. events \in Seq(S) /\ b \in Nat
    BY <1>1, <1>5
  <2>3. KnownUpto(shown, known, events, p) /\ GoesOn(events, p, t, b)
    BY ONLY <1>8, <1>9 DEF KnownUpto, GoesOn
  <2> QED BY ONLY <2>1, <2>2, <2>3, FreshRun
<1>11. Fresh(shown, known, events) = EventsOf(t, b, a)
  BY <1>1, <1>5, <1>10
<1>12. CASE m < a
  <2>0. 0 \in Nat /\ 0 <= m /\ m <= a
    BY <1>12
  <2>1. EventsOf(t, 0, m) \o EventsOf(t, m, a) = EventsOf(t, 0, a)
    BY <2>0, EventsOfJoin
  <2> QED BY <1>6, <1>11, <1>12, <2>1 DEF Show, shown, events, known, Upto
<1>13. CASE ~(m < a)
  <2>1. 1 .. (a - a) = {}
    OBVIOUS
  <2>2. EventsOf(t, a, a) = <<>>
    BY <2>1 DEF EventsOf
  <2>3. shown \o <<>> = shown
    BY <1>2
  <2> QED BY <1>7, <1>11, <1>13, <2>2, <2>3 DEF Show, shown, events, known
<1> QED BY <1>12, <1>13

(* Of a buffer that runs to event a, what a replay up to g leaves fresh.   *)
LEMMA LiveAfter ==
  ASSUME NEW t, NEW buffer \in Seq({t} \X (Nat \ {0})), NEW s \in Nat, NEW a \in Nat, NEW g \in Nat,
         RunsTo(buffer, t, s, a), s <= a, s <= g
  PROVE  Fresh(Upto(t, g), {}, buffer) = EventsOf(t, g, IF g < a THEN a ELSE g)
<1>1. PICK n \in 0 .. Len(buffer) :
        /\ Len(buffer) = n + (a - s)
        /\ \A i \in 1 .. n : buffer[i][2] <= s
        /\ \A i \in 1 .. (a - s) : buffer[n + i] = <<t, s + i>>
  BY DEF RunsTo
<1> DEFINE shown == Upto(t, g)
           L == Len(buffer)
           p == IF g < a THEN n + (g - s) ELSE L
           S == {t} \X (Nat \ {0})
<1>2. L \in Nat /\ n \in Nat /\ L = n + (a - s) /\ \A i \in 1 .. L : buffer[i] \in S
  BY <1>1
<1>3. shown \in Seq({t} \X Nat)
  BY UptoFacts
<1>4. \A e : Contains(shown, e) <=> \E k \in Nat : 0 < k /\ k <= g /\ e = <<t, k>>
  <2>1. \A e : Contains(shown, e) <=> e \in ToSet(shown)
    BY <1>3, ContainsFacts
  <2>2. \A e : e \in ToSet(shown) <=> \E k \in Nat : 0 < k /\ k <= g /\ e = <<t, k>>
    BY EventsOfSet DEF Upto
  <2> QED BY <2>1, <2>2
<1>5. \A k \in Nat \ {0} : Contains(shown, <<t, k>>) <=> k <= g
  <2> HIDE DEF shown
  <2> QED BY <1>4
<1>6. /\ p \in 0 .. L
      /\ \A i \in 1 .. (a - s) : s + i <= g <=> n + i <= p
      /\ \A i \in 1 .. n : i <= p
  BY <1>2
<1>7. g < a => g + (L - p) = a /\ \A k \in 1 .. (L - p) : (g - s) + k \in 1 .. (a - s)
                               /\ n + ((g - s) + k) = p + k /\ s + ((g - s) + k) = g + k
  BY <1>2
<1>8. ~(g < a) => g + (L - p) = g /\ 1 .. (L - p) = {}
  BY <1>2
<1> HIDE DEF shown, p, S, L
<1>9. \A i \in 1 .. L : (buffer[i] \in {} \/ Contains(shown, buffer[i])) <=> i <= p
  <2> SUFFICES ASSUME NEW i \in 1 .. L PROVE Contains(shown, buffer[i]) <=> i <= p
    OBVIOUS
  <2>1. CASE i \in 1 .. n
    <3>1. buffer[i] \in S /\ buffer[i][2] <= s
      BY <1>1, <1>2, <2>1
    <3>2. buffer[i] = <<t, buffer[i][2]>> /\ buffer[i][2] \in Nat \ {0}
      BY <3>1 DEF S
    <3>3. buffer[i][2] <= g
      BY <3>1, <3>2
    <3>4. Contains(shown, buffer[i])
      BY <1>5, <3>2, <3>3
    <3> QED BY <1>6, <2>1, <3>4
  <2>2. CASE i \notin 1 .. n
    <3> DEFINE j == i - n
    <3>1. j \in 1 .. (a - s) /\ n + j = i /\ s + j \in Nat \ {0}
      BY <1>2, <2>2
    <3> HIDE DEF j
    <3>2. buffer[i] = <<t, s + j>>
      BY <1>1, <3>1
    <3>3. Contains(shown, buffer[i]) <=> s + j <= g
      BY <1>5, <3>1, <3>2
    <3> QED BY <1>6, <3>1, <3>3
  <2> QED BY <2>1, <2>2
<1>10. \A k \in 1 .. (L - p) : buffer[p + k] = <<t, g + k>>
  <2>1. CASE g < a
    <3> SUFFICES ASSUME NEW k \in 1 .. (L - p) PROVE buffer[p + k] = <<t, g + k>>
      OBVIOUS
    <3>1. /\ (g - s) + k \in 1 .. (a - s) /\ n + ((g - s) + k) = p + k
          /\ s + ((g - s) + k) = g + k
      BY <1>7, <2>1
    <3>2. buffer[n + ((g - s) + k)] = <<t, s + ((g - s) + k)>>
      BY <1>1, <3>1
    <3> QED BY <3>1, <3>2
  <2> QED BY <1>8, <2>1
<1>11. Fresh(shown, {}, buffer) = EventsOf(t, g, g + (L - p))
  <2>1. buffer \in Seq(S) /\ L = Len(buffer) /\ p \in 0 .. Len(buffer)
    BY <1>6 DEF L, S
  <2> DEFINE none == {}
  <2>2. KnownUpto(shown, none, buffer, p)
    BY <1>9, <2>1 DEF KnownUpto
  <2>3. GoesOn(buffer, p, t, g)
    BY <1>10, <2>1 DEF GoesOn
  <2> HIDE DEF none
  <2>4. Fresh(shown, none, buffer) = EventsOf(t, g, g + (Len(buffer) - p))
    BY ONLY <2>1, <2>2, <2>3, g \in Nat, FreshRun
  <2> QED BY <2>1, <2>4 DEF none
<1>12. CASE g < a
  BY <1>7, <1>11, <1>12 DEF shown
<1>13. CASE ~(g < a)
  BY <1>8, <1>11, <1>13 DEF shown
<1> QED BY <1>12, <1>13

LEMMA UptoSet ==
  \A t : \A n \in Nat : \A k : <<t, k>> \in ToSet(Upto(t, n)) <=> k \in 1 .. n
<1> SUFFICES ASSUME NEW t, NEW n \in Nat, NEW k
             PROVE  <<t, k>> \in ToSet(Upto(t, n)) <=> k \in 1 .. n
  OBVIOUS
<1>1. <<t, k>> \in ToSet(Upto(t, n)) <=> \E j \in Nat : 0 < j /\ j <= n /\ <<t, k>> = <<t, j>>
  BY UptoFacts
<1> QED BY <1>1

LEMMA UptoOnly ==
  \A t : \A n \in Nat : ToSet(Upto(t, n)) \subseteq {t} \X (1 .. n)
<1> SUFFICES ASSUME NEW t, NEW n \in Nat PROVE ToSet(Upto(t, n)) \subseteq {t} \X (1 .. n)
  OBVIOUS
<1> QED BY UptoFacts, RangeFacts

-----------------------------------------------------------------------------
(* The opens.                                                              *)

LEMMA RecordFacts ==
  ASSUME NEW r \in OpenRecords
  PROVE  /\ r.kind \in {"session", "viewer"} /\ r.thread \in Threads /\ r.pc \in Stages
         /\ r.got \in Nat /\ r.view \in Nat /\ r.since \in Nat
         /\ r.buffer \in Seq(Events) /\ r.queue \in Seq(Events) /\ r.ear \in BOOLEAN
BY DEF OpenRecords

\* One open gets a new record, the others keep theirs.
LEMMA OneOpen ==
  ASSUME NEW s \in Seq(OpenRecords), NEW o \in DOMAIN s, NEW r \in OpenRecords
  PROVE  /\ [s EXCEPT ![o] = r] \in Seq(OpenRecords)
         /\ DOMAIN [s EXCEPT ![o] = r] = DOMAIN s
         /\ [s EXCEPT ![o] = r][o] = r
         /\ \A p \in DOMAIN s : p # o => [s EXCEPT ![o] = r][p] = s[p]
OBVIOUS

LEMMA DomainFacts ==
  ASSUME OpensShape
  PROVE  /\ DOMAIN opens = 1 .. Len(opens) /\ Len(opens) \in Nat
         /\ \A o \in DOMAIN opens : opens[o] \in OpenRecords /\ o # None /\ o \in Nat
BY DEF OpensShape, None

\* A call of openSession or openAgentThread, and one that is over.
LEMMA NewOpenFacts ==
  ASSUME NEW k \in {"session", "viewer"}, NEW t \in Threads
  PROVE  LET r == NewOpen(k, t) IN
         /\ r \in OpenRecords /\ r.kind = k /\ r.thread = t /\ r.pc = "reading" /\ r.got = 0
         /\ r.view = 0 /\ r.since = 0 /\ r.buffer = <<>> /\ r.queue = <<>> /\ ~r.ear
<1>1. <<>> \in Seq(Events)
  OBVIOUS
<1> QED BY <1>1 DEF NewOpen, OpenRecords, Stages, Calls

LEMMA OverFacts ==
  ASSUME NEW r \in OpenRecords
  PROVE  LET s == Over(r) IN
         /\ s \in OpenRecords /\ s.kind = r.kind /\ s.thread = r.thread /\ s.pc = "over"
         /\ s.got = 0 /\ s.view = 0 /\ s.since = 0
         /\ s.buffer = <<>> /\ s.queue = <<>> /\ ~s.ear
<1>1. <<>> \in Seq(Events)
  OBVIOUS
<1> QED BY <1>1 DEF Over, NewOpen, OpenRecords, Stages, Calls

\* What an open may hold grows with its thread.
LEMMA OpenOKGrows ==
  ASSUME NEW r \in OpenRecords, NEW m \in Nat, NEW n \in Nat, m <= n, OpenOK(r, m)
  PROVE  OpenOK(r, n)
<1>1. 1 .. m \subseteq 1 .. n
  OBVIOUS
<1>2. {r.thread} \X (1 .. m) \subseteq {r.thread} \X (1 .. n)
  BY <1>1
<1>3. ASSUME NEW s \in Seq({r.thread} \X (1 .. m)) PROVE s \in Seq({r.thread} \X (1 .. n))
  BY <1>2, RangeFacts
<1>4. r.got <= n /\ r.view <= n /\ r.since <= n
  BY RecordFacts DEF OpenOK
<1> QED BY <1>3, <1>4 DEF OpenOK

LEMMA OpenOKNew ==
  ASSUME NEW k \in {"session", "viewer"}, NEW t \in Threads, NEW n \in Nat
  PROVE  OpenOK(NewOpen(k, t), n)
<1> DEFINE r == NewOpen(k, t)
<1>1. /\ r.thread = t /\ r.pc = "reading" /\ r.got = 0 /\ r.view = 0 /\ r.since = 0
      /\ r.buffer = <<>> /\ r.queue = <<>> /\ ~r.ear
  BY NewOpenFacts
<1> HIDE DEF r
<1>2. <<>> \in Seq({t} \X (1 .. n))
  OBVIOUS
<1>3. OpenOK(r, n)
  BY <1>1, <1>2 DEF OpenOK, Asking
<1> QED BY <1>3 DEF r

LEMMA OpenOKOver ==
  ASSUME NEW r \in OpenRecords, NEW n \in Nat
  PROVE  OpenOK(Over(r), n)
<1> DEFINE s == Over(r)
<1>1. /\ s.thread = r.thread /\ s.pc = "over" /\ s.got = 0 /\ s.view = 0 /\ s.since = 0
      /\ s.buffer = <<>> /\ s.queue = <<>> /\ ~s.ear
  BY OverFacts
<1> HIDE DEF s
<1>2. <<>> \in Seq({r.thread} \X (1 .. n))
  OBVIOUS
<1>3. OpenOK(s, n)
  BY <1>1, <1>2 DEF OpenOK, Asking
<1> QED BY <1>3 DEF s

(* Cleaning up: nothing but the frames and the ear of an open changes.     *)
LEMMA QuietedFacts ==
  ASSUME OpensShape, NEW os, NEW held
  PROVE  LET q == Quieted(os, held) IN
         /\ q \in Seq(OpenRecords) /\ DOMAIN q = DOMAIN opens /\ Len(q) = Len(opens)
         /\ \A o \in DOMAIN opens :
              /\ q[o].kind = opens[o].kind /\ q[o].thread = opens[o].thread
              /\ q[o].pc = opens[o].pc /\ q[o].got = opens[o].got /\ q[o].view = opens[o].view
              /\ q[o].since = opens[o].since /\ q[o].buffer = opens[o].buffer
              /\ q[o].queue = (IF o \in os THEN <<>> ELSE opens[o].queue)
              /\ q[o].ear = (opens[o].ear /\ o \notin held)
<1> DEFINE Q(o) == [opens[o] EXCEPT !.queue = IF o \in os THEN <<>> ELSE @, !.ear = @ /\ o \notin held]
<1>1. \A o \in DOMAIN opens :
        /\ Q(o) \in OpenRecords /\ Q(o).kind = opens[o].kind /\ Q(o).thread = opens[o].thread
        /\ Q(o).pc = opens[o].pc /\ Q(o).got = opens[o].got /\ Q(o).view = opens[o].view
        /\ Q(o).since = opens[o].since /\ Q(o).buffer = opens[o].buffer
        /\ Q(o).queue = (IF o \in os THEN <<>> ELSE opens[o].queue)
        /\ Q(o).ear = (opens[o].ear /\ o \notin held)
  <2> SUFFICES ASSUME NEW o \in DOMAIN opens, NEW r \in OpenRecords, r = opens[o]
        PROVE LET p == [r EXCEPT !.queue = IF o \in os THEN <<>> ELSE @, !.ear = @ /\ o \notin held] IN
          /\ p \in OpenRecords /\ p.kind = r.kind /\ p.thread = r.thread
          /\ p.pc = r.pc /\ p.got = r.got /\ p.view = r.view
          /\ p.since = r.since /\ p.buffer = r.buffer
          /\ p.queue = (IF o \in os THEN <<>> ELSE r.queue)
          /\ p.ear = (r.ear /\ o \notin held)
    BY DomainFacts
  <2>1. <<>> \in Seq(Events)
    OBVIOUS
  <2> QED BY <2>1 DEF OpenRecords
<1>2. Quieted(os, held) = [o \in DOMAIN opens |-> Q(o)]
  BY DEF Quieted
<1> HIDE DEF Q
<1>3. DOMAIN opens = 1 .. Len(opens) /\ Len(opens) \in Nat
  BY DomainFacts
<1>4. [o \in DOMAIN opens |-> Q(o)] \in Seq(OpenRecords)
  BY <1>1, <1>3
<1>5. Len([o \in DOMAIN opens |-> Q(o)]) = Len(opens)
  BY <1>3
<1> QED BY <1>1, <1>2, <1>4, <1>5

-----------------------------------------------------------------------------
(* The user's steps that clean up the opens os, and may begin another.     *)

Sweep(os) ==
  /\ log' = log /\ task' = task /\ compacts' = compacts /\ unsubs' = Told(Held(os))
  /\ \/ opens' = Quieted(os, Held(os))
     \/ \E k \in {"session", "viewer"}, t \in Threads :
          opens' = Append(Quieted(os, Held(os)), NewOpen(k, t))

\* What the records of the opens are afterwards.
Swept(os) ==
  /\ opens' \in Seq(OpenRecords) /\ DOMAIN opens \subseteq DOMAIN opens'
  /\ \A o \in DOMAIN opens :
       /\ opens'[o].kind = opens[o].kind /\ opens'[o].thread = opens[o].thread
       /\ opens'[o].pc = opens[o].pc /\ opens'[o].got = opens[o].got
       /\ opens'[o].view = opens[o].view /\ opens'[o].since = opens[o].since
       /\ opens'[o].buffer = opens[o].buffer
       /\ opens'[o].queue = (IF o \in os THEN <<>> ELSE opens[o].queue)
       /\ opens'[o].ear = (opens[o].ear /\ o \notin Held(os))
  /\ \A o \in DOMAIN opens' \ DOMAIN opens :
       \E k \in {"session", "viewer"}, t \in Threads : opens'[o] = NewOpen(k, t)

LEMMA SweepOpens ==
  ASSUME OpensShape, NEW os, Sweep(os)
  PROVE  Swept(os)
<1> DEFINE q == Quieted(os, Held(os))
<1>1. /\ q \in Seq(OpenRecords) /\ DOMAIN q = DOMAIN opens /\ Len(q) = Len(opens)
      /\ \A o \in DOMAIN opens :
           /\ q[o].kind = opens[o].kind /\ q[o].thread = opens[o].thread
           /\ q[o].pc = opens[o].pc /\ q[o].got = opens[o].got /\ q[o].view = opens[o].view
           /\ q[o].since = opens[o].since /\ q[o].buffer = opens[o].buffer
           /\ q[o].queue = (IF o \in os THEN <<>> ELSE opens[o].queue)
           /\ q[o].ear = (opens[o].ear /\ o \notin Held(os))
  BY QuietedFacts
<1>2. opens' = q \/ \E k \in {"session", "viewer"}, t \in Threads : opens' = Append(q, NewOpen(k, t))
  BY DEF Sweep
<1> HIDE DEF q
<1>3. CASE opens' = q
  BY <1>1, <1>3 DEF Swept
<1>4. ASSUME NEW k \in {"session", "viewer"}, NEW t \in Threads, opens' = Append(q, NewOpen(k, t))
      PROVE  Swept(os)
  <2> DEFINE r == NewOpen(k, t)
  <2>1. r \in OpenRecords
    BY NewOpenFacts
  <2> HIDE DEF r
  <2>2. opens' = Append(q, r)
    BY <1>4 DEF r
  <2>3. /\ opens' \in Seq(OpenRecords) /\ DOMAIN opens' = DOMAIN q \cup {Len(q) + 1}
        /\ \A o \in DOMAIN q : opens'[o] = q[o]
        /\ opens'[Len(q) + 1] = r
    BY <1>1, <2>1, <2>2
  <2>4. \A o \in DOMAIN opens' \ DOMAIN opens : opens'[o] = r
    BY <1>1, <2>3
  <2>5. \A o \in DOMAIN opens : opens'[o] = q[o]
    BY <1>1, <2>3
  <2> QED BY <1>1, <2>3, <2>4, <2>5 DEF Swept, r
<1> QED BY <1>2, <1>3, <1>4

LEMMA ToldFacts ==
  ASSUME ShellShape, OpensShape, NEW a, NEW b
  PROVE  /\ Told(Held({a, b})) \in [Threads -> Nat]
         /\ \A t \in Threads : unsubs[t] > 0 => Told(Held({a, b}))[t] > 0
         /\ \A o \in Held({a, b}) \cap DOMAIN opens : Told(Held({a, b}))[opens[o].thread] > 0
<1> DEFINE H == Held({a, b})
           Of(t) == {o \in H : opens[o].thread = t}
<1>1. \A t : Of(t) \in SUBSET {a, b}
  BY DEF Held
<1>2. IsFiniteSet({a, b})
  <2>1. IsFiniteSet({a} \cup {b})
    BY FS_Singleton, FS_Union
  <2>2. {a, b} = {a} \cup {b}
    OBVIOUS
  <2> QED BY <2>1, <2>2
<1>3. \A t : IsFiniteSet(Of(t))
  <2> HIDE DEF Of
  <2> QED BY <1>1, <1>2, FS_Subset
<1>4. \A t : Cardinality(Of(t)) \in Nat /\ (Cardinality(Of(t)) = 0 <=> Of(t) = {})
  <2> HIDE DEF Of
  <2> QED BY <1>3, FS_CardinalityType, FS_EmptySet
<1>5. Told(H) = [t \in Threads |-> unsubs[t] + Cardinality(Of(t))]
  BY DEF Told
<1>6. \A o \in H : o \in Of(opens[o].thread)
  OBVIOUS
<1>7. \A o \in DOMAIN opens : opens[o].thread \in Threads
  BY DomainFacts, RecordFacts
<1> HIDE DEF Of, H
<1>8. \A t \in Threads : unsubs[t] \in Nat
  BY DEF ShellShape
<1>9. Told(H) \in [Threads -> Nat] /\ \A t \in Threads : unsubs[t] > 0 => Told(H)[t] > 0
  BY <1>4, <1>5, <1>8
<1>10. \A o \in H \cap DOMAIN opens : Told(H)[opens[o].thread] > 0
  <2> SUFFICES ASSUME NEW o \in H \cap DOMAIN opens PROVE Told(H)[opens[o].thread] > 0
    OBVIOUS
  <2> DEFINE t == opens[o].thread
  <2>1. Cardinality(Of(t)) \in Nat /\ Cardinality(Of(t)) # 0
    BY <1>4, <1>6
  <2>2. t \in Threads /\ unsubs[t] \in Nat
    BY <1>7, <1>8
  <2>3. Told(H)[t] = unsubs[t] + Cardinality(Of(t))
    BY <1>5, <2>2
  <2> QED BY <2>1, <2>2, <2>3
<1> QED BY <1>9, <1>10 DEF H

LEMMA SweepStep ==
  ASSUME ShellShape, OpensShape, OpensOK, CompactsOK, EarsOwned, TaskOwned,
         NEW a \in {unlisten, agentOff}, NEW b \in {unlisten, agentOff}, Sweep({a, b})
  PROVE  /\ ShellShape' /\ OpensShape' /\ OpensOK' /\ CompactsOK' /\ TaskOwned'
         /\ \A o \in DOMAIN opens' : opens'[o].ear /\ opens'[o].pc \notin Asking
              => o \in {unlisten, agentOff} \ {a, b}
<1>1. Swept({a, b})
  BY SweepOpens
<1>2. log' = log /\ task' = task /\ compacts' = compacts /\ unsubs' = Told(Held({a, b}))
  BY DEF Sweep
<1>3. /\ unsubs' \in [Threads -> Nat]
      /\ \A t \in Threads : unsubs[t] > 0 => unsubs'[t] > 0
      /\ \A o \in Held({a, b}) \cap DOMAIN opens : unsubs'[opens[o].thread] > 0
  BY <1>2, ToldFacts
<1>4. ShellShape'
  BY <1>1, <1>2, <1>3 DEF ShellShape, Swept
<1>5. OpensShape'
  BY <1>1, <1>2 DEF OpensShape, Swept
<1>6. \A o \in DOMAIN opens : opens[o] \in OpenRecords /\ o # None
  BY DomainFacts
<1>7. \A o \in DOMAIN opens : o \in Held({a, b}) <=> o \in {a, b} /\ opens[o].ear /\ opens[o].pc \notin Asking
  BY <1>6 DEF Held, Asking
<1>8. OpensOK'
  <2> SUFFICES ASSUME NEW o \in DOMAIN opens' PROVE OpenOK(opens'[o], log[opens'[o].thread])
    BY <1>2 DEF OpensOK
  <2>1. CASE o \in DOMAIN opens
    <3>1. OpenOK(opens[o], log[opens[o].thread])
      BY <2>1 DEF OpensOK
    <3>2. /\ opens'[o].thread = opens[o].thread /\ opens'[o].pc = opens[o].pc
          /\ opens'[o].kind = opens[o].kind
          /\ opens'[o].got = opens[o].got /\ opens'[o].view = opens[o].view
          /\ opens'[o].since = opens[o].since /\ opens'[o].buffer = opens[o].buffer
          /\ opens'[o].queue \in {<<>>, opens[o].queue}
          /\ (opens'[o].ear => opens[o].ear) /\ (opens[o].ear /\ opens[o].pc \in Asking => opens'[o].ear)
      BY <1>1, <1>7, <2>1 DEF Swept
    <3>3. <<>> \in Seq({opens[o].thread} \X (1 .. log[opens[o].thread]))
      OBVIOUS
    <3> QED BY <3>1, <3>2, <3>3 DEF OpenOK
  <2>2. CASE o \notin DOMAIN opens
    <3>1. PICK k \in {"session", "viewer"}, t \in Threads : opens'[o] = NewOpen(k, t)
      BY <1>1, <2>2 DEF Swept
    <3>2. opens'[o].thread = t /\ log[t] \in Nat
      BY <3>1, NewOpenFacts DEF ShellShape
    <3> QED BY <3>1, <3>2, OpenOKNew
  <2> QED BY <2>1, <2>2
<1>9. CompactsOK'
  BY <1>2 DEF CompactsOK
<1>10. TaskOwned'
  <2> SUFFICES ASSUME task # NoTask
               PROVE  /\ task.thread = opens'[task.by].thread /\ task.at <= log[task.thread]
                      /\ opens'[task.by].pc \notin {"reading", "read", "subscribing"}
                      /\ opens'[task.by].ear \/ unsubs'[task.thread] > 0
    BY <1>2 DEF TaskOwned
  <2>1. /\ task.by \in DOMAIN opens /\ task.thread = opens[task.by].thread
        /\ task.at <= log[task.thread] /\ opens[task.by].pc \notin {"reading", "read", "subscribing"}
        /\ opens[task.by].ear \/ unsubs[task.thread] > 0
    BY DEF ShellShape, TaskOwned
  <2>2. /\ opens'[task.by].thread = opens[task.by].thread /\ opens'[task.by].pc = opens[task.by].pc
        /\ opens'[task.by].ear = (opens[task.by].ear /\ task.by \notin Held({a, b}))
    BY <1>1, <2>1 DEF Swept
  <2>3. task.thread \in Threads
    BY <1>6, <2>1, RecordFacts
  <2>4. CASE task.by \in Held({a, b})
    <3>1. unsubs'[task.thread] > 0
      BY <1>3, <2>1, <2>4
    <3> QED BY <2>1, <2>2, <3>1
  <2>5. CASE task.by \notin Held({a, b})
    BY <1>3, <2>1, <2>2, <2>3, <2>5
  <2> QED BY <2>4, <2>5
<1>11. ASSUME NEW o \in DOMAIN opens', opens'[o].ear, opens'[o].pc \notin Asking
       PROVE  o \in {unlisten, agentOff} \ {a, b}
  <2>1. o \in DOMAIN opens
    <3> SUFFICES ASSUME o \notin DOMAIN opens PROVE FALSE
      OBVIOUS
    <3>1. PICK k \in {"session", "viewer"}, t \in Threads : opens'[o] = NewOpen(k, t)
      BY <1>1 DEF Swept
    <3>2. ~opens'[o].ear
      BY <3>1, NewOpenFacts
    <3> QED BY <1>11, <3>2
  <2>2. opens[o].ear /\ o \notin Held({a, b}) /\ opens[o].pc \notin Asking
    BY <1>1, <1>11, <2>1 DEF Swept
  <2>3. o \in {unlisten, agentOff}
    BY <2>1, <2>2 DEF EarsOwned
  <2> QED BY <1>7, <2>1, <2>2, <2>3
<1> QED BY <1>4, <1>5, <1>8, <1>9, <1>10, <1>11

-----------------------------------------------------------------------------
(* What a step that does not touch a screen leaves as it is.               *)

\* An open that a step leaves alone, but for its ear.
Keeps(o) ==
  /\ opens'[o].kind = opens[o].kind /\ opens'[o].thread = opens[o].thread
  /\ opens'[o].pc = opens[o].pc /\ opens'[o].got = opens[o].got
  /\ opens'[o].view = opens[o].view /\ opens'[o].since = opens[o].since
  /\ opens'[o].buffer = opens[o].buffer /\ opens'[o].queue = opens[o].queue
  /\ (opens'[o].ear => opens[o].ear)

LEMMA SessionKept ==
  ASSUME SessionFacts, Pointed,
         session' = session, active' = active, transcript' = transcript, applied' = applied,
         session # None => /\ opens'[session].kind = opens[session].kind
                           /\ opens'[session].thread = opens[session].thread,
         session # None /\ Current(session) => Keeps(session),
         session # None /\ task'.by = session => task' = task \/ task'.lagged
  PROVE  SessionFacts'
<1>1. session # None => opens[session].kind = "session"
  BY DEF Pointed
<1>2. session # None => (Current(session)' <=> Current(session))
  BY <1>1 DEF Current
<1>3. SessionOwn'
  <2>1. Loaded(session)' => Loaded(session) /\ opens'[session].view = opens[session].view
    BY <1>2 DEF Loaded, Keeps
  <2> QED BY <2>1 DEF SessionFacts, SessionOwn
<1>4. SessionApplied'
  <2>1. Loaded(session)' => /\ Loaded(session) /\ opens'[session].pc = opens[session].pc
                            /\ opens'[session].since = opens[session].since
    BY <1>2 DEF Loaded, Keeps
  <2> QED BY <2>1 DEF SessionFacts, SessionApplied
<1>5. SessionHeard'
  <2>1. Hearing(session)' => /\ Hearing(session) /\ task' = task
                             /\ opens'[session].thread = opens[session].thread
                             /\ opens'[session].since = opens[session].since
                             /\ opens'[session].queue = opens[session].queue
    BY <1>2 DEF Hearing, Subscribed, Keeps
  <2> QED BY <2>1 DEF SessionFacts, SessionHeard
<1> QED BY <1>3, <1>4, <1>5 DEF SessionFacts

LEMMA ViewerKept ==
  ASSUME ViewerFacts, Pointed, ShellShape, OpensShape, log' \in [Threads -> Nat],
         \A t \in Threads : log[t] <= log'[t],
         viewer' = viewer, agentView' = agentView, agentIds' = agentIds,
         viewer # None => Keeps(viewer),
         viewer # None /\ task'.by = viewer => task' = task \/ task'.lagged
  PROVE  ViewerFacts'
<1>1. viewer # None => opens[viewer].kind = "viewer"
  BY DEF Pointed
<1>2. viewer # None => (Current(viewer)' <=> Current(viewer))
  BY <1>1 DEF Current, Keeps
<1>3. ViewerOwn'
  BY DEF ViewerFacts, ViewerOwn, Keeps
<1>4. ViewerBuffered'
  <2>1. Waiting(viewer)' => /\ Waiting(viewer) /\ task' = task
                            /\ opens'[viewer].thread = opens[viewer].thread
                            /\ opens'[viewer].buffer = opens[viewer].buffer
                            /\ opens'[viewer].pc = opens[viewer].pc
                            /\ opens'[viewer].got = opens[viewer].got
    BY DEF Waiting, Keeps
  <2> QED BY <2>1 DEF ViewerFacts, ViewerBuffered
<1>5. ViewerShown'
  <2> SUFFICES ASSUME Hearing(viewer)' PROVE ViewerShown'
    BY DEF ViewerShown
  <2> DEFINE t == opens[viewer].thread
  <2>1. /\ Hearing(viewer) /\ task' = task /\ opens'[viewer].thread = t
        /\ opens'[viewer].queue = opens[viewer].queue /\ viewer # None
    BY <1>2 DEF Hearing, Subscribed, Keeps
  <2>2. t \in Threads
    BY <2>1, DomainFacts, RecordFacts DEF Pointed
  <2>3. log[t] \in Nat /\ log'[t] \in Nat /\ log[t] <= log'[t]
    BY <2>2 DEF ShellShape
  <2>4. \E m \in 0 .. log[t] : \E q \in 0 .. m :
          /\ q <= task.at
          /\ agentView = Upto(t, m)
          /\ agentIds = ToSet(Upto(t, m))
          /\ opens[viewer].queue = EventsOf(t, q, task.at)
    BY <2>1 DEF ViewerFacts, ViewerShown
  <2>5. \A m \in 0 .. log[t] : m \in 0 .. log'[t]
    BY <2>3
  <2> HIDE DEF t
  <2>6. \E m \in 0 .. log'[t] : \E q \in 0 .. m :
          /\ q <= task.at
          /\ agentView = Upto(t, m)
          /\ agentIds = ToSet(Upto(t, m))
          /\ opens[viewer].queue = EventsOf(t, q, task.at)
    BY <2>4, <2>5
  <2> QED BY <2>1, <2>6 DEF ViewerShown
<1> QED BY <1>3, <1>4, <1>5 DEF ViewerFacts

\* Without a viewer, or with one that has only begun, there is nothing to say of it.
LEMMA NoViewer ==
  ASSUME viewer' = None PROVE ViewerFacts'
BY DEF ViewerFacts, ViewerOwn, ViewerBuffered, ViewerShown, Waiting, Hearing, Subscribed

\* A session that is not the one on the screen.
LEMMA NoSession ==
  ASSUME session' # None => opens'[session'].kind = "session" /\ active' # opens'[session'].thread
  PROVE  SessionFacts'
<1>1. session' # None => ~Current(session)'
  BY DEF Current
<1>2. ~Loaded(session)' /\ ~Hearing(session)'
  BY <1>1 DEF Loaded, Hearing, Subscribed
<1> QED BY <1>2 DEF SessionFacts, SessionOwn, SessionApplied, SessionHeard

LEMMA NewSession ==
  ASSUME session' # None => opens'[session'].pc = "reading"
  PROVE  SessionFacts'
<1>1. ~Loaded(session)' /\ ~Hearing(session)'
  BY DEF Loaded, Hearing, Subscribed, Stages, Calls
<1> QED BY <1>1 DEF SessionFacts, SessionOwn, SessionApplied, SessionHeard

-----------------------------------------------------------------------------
(* The user's steps.                                                       *)

\* The place of an open that has just been begun.
LEMMA BegunFacts ==
  ASSUME OpensShape, NEW os, NEW k \in {"session", "viewer"}, NEW t \in Threads,
         opens' = Append(Quieted(os, Held(os)), NewOpen(k, t))
  PROVE  /\ Len(opens) + 1 \in DOMAIN opens' /\ Len(opens) + 1 # None
         /\ opens'[Len(opens) + 1].kind = k /\ opens'[Len(opens) + 1].thread = t
         /\ opens'[Len(opens) + 1].pc = "reading"
<1> DEFINE q == Quieted(os, Held(os))
           r == NewOpen(k, t)
<1>1. q \in Seq(OpenRecords) /\ Len(q) = Len(opens)
  BY QuietedFacts
<1>2. r \in OpenRecords /\ r.kind = k /\ r.thread = t /\ r.pc = "reading"
  BY NewOpenFacts
<1>3. opens' = Append(q, r)
  OBVIOUS
<1> HIDE DEF q, r
<1>4. Len(q) + 1 \in DOMAIN opens' /\ opens'[Len(q) + 1] = r
  BY <1>1, <1>2, <1>3
<1>5. Len(opens) \in Nat
  BY DomainFacts
<1> QED BY <1>1, <1>2, <1>4, <1>5 DEF None

\* What a sweep leaves of an open that is not swept.
LEMMA SweepKeeps ==
  ASSUME OpensShape, NEW os, Sweep(os), NEW o \in DOMAIN opens, o \notin os
  PROVE  Keeps(o)
<1>1. Swept(os)
  BY SweepOpens
<1> QED BY <1>1 DEF Swept, Keeps

LEMMA OpenSessionStep ==
  ASSUME IInv, NEW t \in Threads, OpenSession(t)
  PROVE  IInv'
<1>1. /\ opens' = Append(Quieted({unlisten, agentOff}, Held({unlisten, agentOff})), NewOpen("session", t))
      /\ unsubs' = Told(Held({unlisten, agentOff}))
  BY DEF OpenSession
<1>2. /\ session' = Len(opens) + 1 /\ active' = t /\ applied' = {} /\ unlisten' = None
      /\ viewer' = None /\ agentView' = <<>> /\ agentIds' = {} /\ agentOff' = None
      /\ log' = log /\ task' = task /\ transcript' = transcript /\ compacts' = compacts
  BY DEF OpenSession, ResetViewer
<1>3. Sweep({unlisten, agentOff})
  BY <1>1, <1>2 DEF Sweep
<1>4. /\ ShellShape' /\ OpensShape' /\ OpensOK' /\ CompactsOK' /\ TaskOwned'
      /\ \A o \in DOMAIN opens' : opens'[o].ear /\ opens'[o].pc \notin Asking
           => o \in {unlisten, agentOff} \ {unlisten, agentOff}
  BY <1>3, SweepStep DEF IInv
<1>5. /\ session' \in DOMAIN opens' /\ session' # None
      /\ opens'[session'].kind = "session" /\ opens'[session'].pc = "reading"
  BY <1>1, <1>2, BegunFacts DEF IInv
<1>6. ScreenShape'
  BY <1>2 DEF IInv, ScreenShape
<1>7. AgentShape'
  BY <1>2 DEF AgentShape
<1>8. Pointed'
  BY <1>2, <1>5 DEF Pointed
<1>9. EarsOwned'
  BY <1>2, <1>4 DEF EarsOwned
<1>10. SessionFacts'
  BY <1>5, NewSession
<1>11. ViewerFacts'
  BY <1>2, NoViewer
<1> QED BY <1>4, <1>6, <1>7, <1>8, <1>9, <1>10, <1>11 DEF IInv

LEMMA StartSessionStep ==
  ASSUME IInv, StartSession
  PROVE  IInv'
<1>1. /\ opens' = Quieted({unlisten, agentOff}, Held({unlisten, agentOff}))
      /\ unsubs' = Told(Held({unlisten, agentOff}))
  BY DEF StartSession, Cleanup
<1>2. /\ session' = None /\ active' = NoThread /\ transcript' = <<>> /\ applied' = {}
      /\ unlisten' = None /\ viewer' = None /\ agentView' = <<>> /\ agentIds' = {} /\ agentOff' = None
      /\ log' = log /\ task' = task /\ compacts' = compacts
  BY DEF StartSession, ResetViewer
<1>3. Sweep({unlisten, agentOff})
  BY <1>1, <1>2 DEF Sweep
<1>4. /\ ShellShape' /\ OpensShape' /\ OpensOK' /\ CompactsOK' /\ TaskOwned'
      /\ \A o \in DOMAIN opens' : opens'[o].ear /\ opens'[o].pc \notin Asking
           => o \in {unlisten, agentOff} \ {unlisten, agentOff}
  BY <1>3, SweepStep DEF IInv
<1>5. ScreenShape'
  BY <1>2 DEF ScreenShape
<1>6. AgentShape'
  BY <1>2 DEF AgentShape
<1>7. Pointed'
  BY <1>2 DEF Pointed
<1>8. EarsOwned'
  BY <1>2, <1>4 DEF EarsOwned
<1>9. SessionFacts'
  BY <1>2, NoSession
<1>10. ViewerFacts'
  BY <1>2, NoViewer
<1> QED BY <1>4, <1>5, <1>6, <1>7, <1>8, <1>9, <1>10 DEF IInv

\* After the viewer's cleanup only the session's is left, and its open goes on.
LEMMA ViewerSwept ==
  ASSUME IInv, Sweep({agentOff}), session' = session, unlisten' = unlisten
  PROVE  /\ ShellShape' /\ OpensShape' /\ OpensOK' /\ CompactsOK' /\ TaskOwned'
         /\ \A o \in DOMAIN opens' : opens'[o].ear /\ opens'[o].pc \notin Asking
              => o = unlisten /\ unlisten # agentOff
         /\ unlisten # None => opens'[unlisten].pc \notin Early
         /\ {session, unlisten} \subseteq {None} \cup DOMAIN opens'
         /\ session # None => opens'[session].kind = "session" /\ Keeps(session)
<1>1. {agentOff} = {agentOff, agentOff}
  OBVIOUS
<1>2. Sweep({agentOff, agentOff})
  BY <1>1
<1>3. /\ ShellShape' /\ OpensShape' /\ OpensOK' /\ CompactsOK' /\ TaskOwned'
      /\ \A o \in DOMAIN opens' : opens'[o].ear /\ opens'[o].pc \notin Asking
           => o \in {unlisten, agentOff} \ {agentOff, agentOff}
  BY <1>2, SweepStep DEF IInv
<1>4. Swept({agentOff})
  BY SweepOpens DEF IInv
<1>5. {session, unlisten} \subseteq {None} \cup DOMAIN opens
  BY DEF IInv, Pointed
<1>6. {session, unlisten} \subseteq {None} \cup DOMAIN opens'
  BY <1>4, <1>5 DEF Swept
<1>7. unlisten # None => opens'[unlisten].pc \notin Early
  BY <1>4, <1>5 DEF Swept, IInv, EarsOwned
<1>8. session # None => opens'[session].kind = "session" /\ Keeps(session)
  <2> SUFFICES ASSUME session # None PROVE opens'[session].kind = "session" /\ Keeps(session)
    OBVIOUS
  <2>1. session \in DOMAIN opens /\ opens[session].kind = "session"
    BY <1>5 DEF IInv, Pointed
  <2>2. session # agentOff
    BY <2>1 DEF IInv, Pointed
  <2>3. Keeps(session)
    BY <2>1, <2>2, SweepKeeps DEF IInv
  <2> QED BY <2>1, <2>3 DEF Keeps
<1> QED BY <1>3, <1>6, <1>7, <1>8

LEMMA ArchiveSessionStep ==
  ASSUME IInv, ArchiveSession
  PROVE  IInv'
<1>1. opens' = Quieted({agentOff}, Held({agentOff})) /\ unsubs' = Told(Held({agentOff}))
  BY DEF ArchiveSession, Cleanup
<1>2. /\ active' = NoThread /\ transcript' = <<>> /\ applied' = {}
      /\ viewer' = None /\ agentView' = <<>> /\ agentIds' = {} /\ agentOff' = None
      /\ log' = log /\ task' = task /\ session' = session /\ unlisten' = unlisten /\ compacts' = compacts
  BY DEF ArchiveSession, ResetViewer
<1>3. Sweep({agentOff})
  BY <1>1, <1>2 DEF Sweep
<1>4. /\ ShellShape' /\ OpensShape' /\ OpensOK' /\ CompactsOK' /\ TaskOwned'
      /\ \A o \in DOMAIN opens' : opens'[o].ear /\ opens'[o].pc \notin Asking
           => o = unlisten /\ unlisten # agentOff
      /\ unlisten # None => opens'[unlisten].pc \notin Early
      /\ {session, unlisten} \subseteq {None} \cup DOMAIN opens'
      /\ session # None => opens'[session].kind = "session" /\ Keeps(session)
  BY <1>2, <1>3, ViewerSwept
<1>5. ScreenShape'
  BY <1>2 DEF ScreenShape
<1>6. AgentShape'
  BY <1>2 DEF AgentShape
<1>7. Pointed'
  BY <1>2, <1>4 DEF IInv, Pointed
<1>8. EarsOwned'
  BY <1>2, <1>4 DEF EarsOwned
<1>9. SessionFacts'
  <2>1. ASSUME session' # None PROVE opens'[session'].thread \in Threads
    <3>1. session \in DOMAIN opens /\ session # None
      BY <1>2, <2>1 DEF IInv, Pointed
    <3>2. opens[session].thread \in Threads /\ opens'[session].thread = opens[session].thread
      BY <1>4, <3>1, DomainFacts, RecordFacts DEF IInv, Keeps
    <3> QED BY <1>2, <3>2
  <2> QED BY <1>2, <1>4, <2>1, NoSession, StoreAssumption
<1>10. ViewerFacts'
  BY <1>2, NoViewer
<1> QED BY <1>4, <1>5, <1>6, <1>7, <1>8, <1>9, <1>10 DEF IInv

LEMMA CloseAgentThreadStep ==
  ASSUME IInv, CloseAgentThread
  PROVE  IInv'
<1>1. opens' = Quieted({agentOff}, Held({agentOff})) /\ unsubs' = Told(Held({agentOff}))
  BY DEF CloseAgentThread, Cleanup
<1>2. /\ viewer' = None /\ agentView' = <<>> /\ agentIds' = {} /\ agentOff' = None
      /\ log' = log /\ task' = task /\ compacts' = compacts
      /\ session' = session /\ unlisten' = unlisten /\ active' = active
      /\ transcript' = transcript /\ applied' = applied
  BY DEF CloseAgentThread, ResetViewer, screen
<1>3. Sweep({agentOff})
  BY <1>1, <1>2 DEF Sweep
<1>4. /\ ShellShape' /\ OpensShape' /\ OpensOK' /\ CompactsOK' /\ TaskOwned'
      /\ \A o \in DOMAIN opens' : opens'[o].ear /\ opens'[o].pc \notin Asking
           => o = unlisten /\ unlisten # agentOff
      /\ unlisten # None => opens'[unlisten].pc \notin Early
      /\ {session, unlisten} \subseteq {None} \cup DOMAIN opens'
      /\ session # None => opens'[session].kind = "session" /\ Keeps(session)
  BY <1>2, <1>3, ViewerSwept
<1>5. ScreenShape'
  BY <1>2 DEF IInv, ScreenShape
<1>6. AgentShape'
  BY <1>2 DEF AgentShape
<1>7. Pointed'
  BY <1>2, <1>4 DEF IInv, Pointed
<1>8. EarsOwned'
  BY <1>2, <1>4 DEF EarsOwned
<1>9. SessionFacts'
  BY <1>2, <1>4, SessionKept DEF IInv, Keeps
<1>10. ViewerFacts'
  BY <1>2, NoViewer
<1> QED BY <1>4, <1>5, <1>6, <1>7, <1>8, <1>9, <1>10 DEF IInv

LEMMA OpenAgentThreadStep ==
  ASSUME IInv, NEW t \in Threads, OpenAgentThread(t)
  PROVE  IInv'
<1>1. /\ opens' = Append(Quieted({agentOff}, Held({agentOff})), NewOpen("viewer", t))
      /\ unsubs' = Told(Held({agentOff}))
  BY DEF OpenAgentThread
<1>2. /\ viewer' = Len(opens) + 1 /\ agentView' = <<>> /\ agentIds' = {} /\ agentOff' = None
      /\ log' = log /\ task' = task /\ compacts' = compacts
      /\ session' = session /\ unlisten' = unlisten /\ active' = active
      /\ transcript' = transcript /\ applied' = applied
  BY DEF OpenAgentThread, screen
<1>3. Sweep({agentOff})
  BY <1>1, <1>2 DEF Sweep
<1>4. /\ ShellShape' /\ OpensShape' /\ OpensOK' /\ CompactsOK' /\ TaskOwned'
      /\ \A o \in DOMAIN opens' : opens'[o].ear /\ opens'[o].pc \notin Asking
           => o = unlisten /\ unlisten # agentOff
      /\ unlisten # None => opens'[unlisten].pc \notin Early
      /\ {session, unlisten} \subseteq {None} \cup DOMAIN opens'
      /\ session # None => opens'[session].kind = "session" /\ Keeps(session)
  BY <1>2, <1>3, ViewerSwept
<1>5. /\ viewer' \in DOMAIN opens' /\ viewer' # None
      /\ opens'[viewer'].kind = "viewer" /\ opens'[viewer'].pc = "reading"
  BY <1>1, <1>2, BegunFacts DEF IInv
<1>6. ScreenShape'
  BY <1>2 DEF IInv, ScreenShape
<1>7. AgentShape'
  BY <1>2 DEF AgentShape
<1>8. Pointed'
  BY <1>2, <1>4, <1>5 DEF IInv, Pointed
<1>9. EarsOwned'
  BY <1>2, <1>4 DEF EarsOwned
<1>10. SessionFacts'
  BY <1>2, <1>4, SessionKept DEF IInv, Keeps
<1>11. ViewerFacts'
  <2>1. ~Waiting(viewer)' /\ ~Hearing(viewer)'
    BY <1>5 DEF Waiting, Hearing, Subscribed
  <2>2. ViewerOwn'
    BY <1>2 DEF ViewerOwn
  <2> QED BY <2>1, <2>2 DEF ViewerFacts, ViewerBuffered, ViewerShown
<1> QED BY <1>4, <1>6, <1>7, <1>8, <1>9, <1>10, <1>11 DEF IInv

-----------------------------------------------------------------------------
(* The steps of one open.                                                  *)

\* What holds of the opens and of what points at them after a step of o alone.
Touches(o) ==
  /\ opens' \in Seq(OpenRecords) /\ DOMAIN opens' = DOMAIN opens
  /\ opens'[o].kind = opens[o].kind /\ opens'[o].thread = opens[o].thread
  /\ \A p \in DOMAIN opens : p # o => opens'[p] = opens[p]

LEMMA TouchesRecord ==
  ASSUME OpensShape, NEW o \in DOMAIN opens, NEW r \in OpenRecords,
         r.kind = opens[o].kind, r.thread = opens[o].thread, opens' = [opens EXCEPT ![o] = r]
  PROVE  Touches(o) /\ opens'[o] = r
<1>1. opens \in Seq(OpenRecords)
  BY DEF OpensShape
<1> QED BY <1>1, OneOpen DEF Touches

LEMMA TouchedOpens ==
  ASSUME OpensShape, OpensOK, CompactsOK, NEW o \in DOMAIN opens, Touches(o),
         log' = log, compacts' = compacts, OpenOK(opens'[o], log[opens[o].thread])
  PROVE  OpensShape' /\ OpensOK' /\ CompactsOK'
<1>1. OpensShape'
  BY DEF OpensShape, Touches
<1>2. OpensOK'
  BY DEF OpensOK, Touches
<1>3. CompactsOK'
  BY DEF CompactsOK
<1> QED BY <1>1, <1>2, <1>3

LEMMA TouchedPointed ==
  ASSUME Pointed, NEW o \in DOMAIN opens, Touches(o), session' = session, viewer' = viewer,
         unlisten' \in {unlisten, None}, agentOff' \in {agentOff, None}
  PROVE  Pointed'
<1>1. {session', viewer', unlisten', agentOff'} \subseteq {None} \cup DOMAIN opens'
  BY DEF Pointed, Touches
<1>2. \A p \in DOMAIN opens : opens'[p].kind = opens[p].kind
  BY DEF Touches
<1>3. session' # None => opens'[session'].kind = "session"
  BY <1>2 DEF Pointed
<1>4. viewer' # None => opens'[viewer'].kind = "viewer"
  BY <1>2 DEF Pointed
<1> QED BY <1>1, <1>3, <1>4 DEF Pointed

\* The other open's screens.
LEMMA TouchedKeeps ==
  ASSUME NEW o \in DOMAIN opens, Touches(o), NEW p \in DOMAIN opens, p # o
  PROVE  Keeps(p)
BY DEF Touches, Keeps

(* An open that ends: its ear is gone, and the shell was told if it had    *)
(* heard of it.                                                            *)
LEMMA EndedTask ==
  ASSUME ShellShape, OpensShape, TaskOwned, NEW o \in DOMAIN opens, Touches(o),
         log' = log, task' = task, opens'[o].pc = "over",
         unsubs' \in {unsubs, [unsubs EXCEPT ![opens[o].thread] = @ + 1]},
         opens[o].ear /\ opens[o].pc # "subscribing"
           => unsubs' = [unsubs EXCEPT ![opens[o].thread] = @ + 1]
  PROVE  ShellShape' /\ TaskOwned'
<1>1. opens[o].thread \in Threads /\ unsubs \in [Threads -> Nat]
  BY DomainFacts, RecordFacts DEF ShellShape
<1>2. unsubs' \in [Threads -> Nat] /\ \A t \in Threads : unsubs[t] > 0 => unsubs'[t] > 0
  BY <1>1
<1>3. ShellShape'
  BY <1>2 DEF ShellShape, Touches
<1>4. TaskOwned'
  <2> SUFFICES ASSUME task # NoTask
               PROVE  /\ task.thread = opens'[task.by].thread /\ task.at <= log[task.thread]
                      /\ opens'[task.by].pc \notin {"reading", "read", "subscribing"}
                      /\ opens'[task.by].ear \/ unsubs'[task.thread] > 0
    BY DEF TaskOwned
  <2>1. /\ task.by \in DOMAIN opens /\ task.thread = opens[task.by].thread
        /\ task.at <= log[task.thread] /\ opens[task.by].pc \notin {"reading", "read", "subscribing"}
        /\ opens[task.by].ear \/ unsubs[task.thread] > 0
    BY DEF ShellShape, TaskOwned
  <2>2. task.thread \in Threads
    BY <2>1, DomainFacts, RecordFacts
  <2>3. CASE task.by # o
    <3>1. opens'[task.by] = opens[task.by]
      BY <2>1, <2>3 DEF Touches
    <3> QED BY <1>2, <2>1, <2>2, <3>1
  <2>4. CASE task.by = o
    <3>1. opens'[o].thread = opens[o].thread
      BY DEF Touches
    <3>2. CASE opens[o].ear
      <4>1. unsubs' = [unsubs EXCEPT ![opens[o].thread] = @ + 1]
        BY <2>1, <2>4, <3>2
      <4>2. unsubs'[task.thread] = unsubs[task.thread] + 1 /\ unsubs[task.thread] \in Nat
        BY <1>1, <2>1, <2>4, <4>1
      <4>3. unsubs'[task.thread] > 0
        BY <4>2
      <4> QED BY <2>1, <2>4, <3>1, <4>3
    <3>3. CASE ~opens[o].ear
      BY <1>2, <2>1, <2>2, <2>4, <3>1, <3>3
    <3> QED BY <3>2, <3>3
  <2> QED BY <2>3, <2>4
<1> QED BY <1>3, <1>4

LEMMA SupersededStep ==
  ASSUME IInv, NEW o \in DOMAIN opens, Superseded(o)
  PROVE  IInv'
<1> DEFINE r == Over(opens[o])
<1>1. opens[o] \in OpenRecords /\ o # None
  BY DomainFacts DEF IInv
<1>2. /\ r \in OpenRecords /\ r.kind = opens[o].kind /\ r.thread = opens[o].thread /\ r.pc = "over"
      /\ ~r.ear
  BY <1>1, OverFacts
<1>3. opens' = [opens EXCEPT ![o] = r]
  BY DEF Superseded
<1>4. OpenOK(r, log[opens[o].thread])
  <2>1. log[opens[o].thread] \in Nat
    BY <1>1, RecordFacts DEF IInv, ShellShape
  <2> QED BY <1>1, <2>1, OpenOKOver
<1> HIDE DEF r
<1>5. Touches(o) /\ opens'[o] = r
  BY <1>2, <1>3, TouchesRecord DEF IInv
<1>6. /\ ~Current(o) /\ log' = log /\ task' = task /\ active' = active /\ transcript' = transcript
      /\ applied' = applied /\ session' = session /\ unlisten' = unlisten /\ viewer' = viewer
      /\ agentView' = agentView /\ agentIds' = agentIds /\ agentOff' = agentOff /\ compacts' = compacts
      /\ unsubs' = (IF opens[o].ear THEN [unsubs EXCEPT ![opens[o].thread] = @ + 1] ELSE unsubs)
  BY DEF Superseded, screen, agent
<1>7. OpensShape' /\ OpensOK' /\ CompactsOK'
  BY <1>4, <1>5, <1>6, TouchedOpens DEF IInv
<1>8. Pointed'
  BY <1>5, <1>6, TouchedPointed DEF IInv
<1>9. ShellShape' /\ TaskOwned'
  BY <1>2, <1>5, <1>6, EndedTask DEF IInv
<1>10. ScreenShape' /\ AgentShape'
  BY <1>6 DEF IInv, ScreenShape, AgentShape
<1>11. EarsOwned'
  BY <1>2, <1>5, <1>6 DEF IInv, Pointed, EarsOwned, Touches, Early
<1>12. SessionFacts'
  <2>1. session # None => /\ session \in DOMAIN opens /\ opens'[session].kind = opens[session].kind
                          /\ opens'[session].thread = opens[session].thread
    BY <1>5 DEF IInv, Pointed, Touches
  <2>2. session # None /\ Current(session) => Keeps(session)
    BY <1>5, <1>6, <2>1, TouchedKeeps
  <2> QED BY <1>6, <2>1, <2>2, SessionKept DEF IInv
<1>13. ViewerFacts'
  <2>1. viewer # None => viewer \in DOMAIN opens /\ viewer # o
    BY <1>6 DEF IInv, Pointed, Current
  <2>2. viewer # None => Keeps(viewer)
    BY <1>5, <2>1, TouchedKeeps
  <2>3. log' \in [Threads -> Nat] /\ \A t \in Threads : log[t] <= log'[t]
    BY <1>6 DEF IInv, ShellShape
  <2> QED BY <1>6, <2>2, <2>3, ViewerKept DEF IInv
<1> QED BY <1>7, <1>8, <1>9, <1>10, <1>11, <1>12, <1>13 DEF IInv

LEMMA RefuseStep ==
  ASSUME IInv, NEW o \in DOMAIN opens, Refuse(o)
  PROVE  IInv'
<1> DEFINE r == Over(opens[o])
<1>1. opens[o] \in OpenRecords /\ o # None
  BY DomainFacts DEF IInv
<1>2. /\ r \in OpenRecords /\ r.kind = opens[o].kind /\ r.thread = opens[o].thread /\ r.pc = "over"
      /\ ~r.ear
  BY <1>1, OverFacts
<1>3. opens' = [opens EXCEPT ![o] = r]
  BY DEF Refuse
<1>4. OpenOK(r, log[opens[o].thread])
  <2>1. log[opens[o].thread] \in Nat
    BY <1>1, RecordFacts DEF IInv, ShellShape
  <2> QED BY <1>1, <2>1, OpenOKOver
<1> HIDE DEF r
<1>5. Touches(o) /\ opens'[o] = r
  BY <1>2, <1>3, TouchesRecord DEF IInv
<1>6. /\ log' = log /\ task' = task /\ active' = active /\ transcript' = transcript
      /\ applied' = applied /\ session' = session /\ viewer' = viewer
      /\ agentView' = agentView /\ agentIds' = agentIds /\ compacts' = compacts
      /\ unsubs' = (IF opens[o].ear /\ opens[o].pc # "subscribing"
                    THEN [unsubs EXCEPT ![opens[o].thread] = @ + 1] ELSE unsubs)
  BY DEF Refuse
<1>7. /\ unlisten' = (IF Current(o) /\ opens[o].kind = "session" THEN None ELSE unlisten)
      /\ agentOff' = (IF Current(o) /\ opens[o].kind = "viewer" THEN None ELSE agentOff)
  BY DEF Refuse
<1>8. OpensShape' /\ OpensOK' /\ CompactsOK'
  BY <1>4, <1>5, <1>6, TouchedOpens DEF IInv
<1>9. Pointed'
  BY <1>5, <1>6, <1>7, TouchedPointed DEF IInv
<1>10. ShellShape' /\ TaskOwned'
  BY <1>2, <1>5, <1>6, EndedTask DEF IInv
<1>11. ScreenShape' /\ AgentShape'
  BY <1>6 DEF IInv, ScreenShape, AgentShape
<1>12. EarsOwned'
  <2>1. \A p \in {unlisten, agentOff} \ {o} : p # None => p \in {unlisten', agentOff'}
    BY <1>7 DEF IInv, Pointed, Current
  <2>2. \A p \in {unlisten', agentOff'} \ {None} : p \in DOMAIN opens /\ p \in {unlisten, agentOff}
    BY <1>7 DEF IInv, Pointed
  <2>3. \A p \in {unlisten', agentOff'} \ {None} : opens'[p].pc \notin Early
    BY <1>2, <1>5, <2>2 DEF IInv, EarsOwned, Touches, Early
  <2>4. ASSUME NEW p \in DOMAIN opens, opens'[p].ear, opens'[p].pc \notin Asking
        PROVE  p \in {unlisten', agentOff'}
    <3>1. p # o /\ opens'[p] = opens[p]
      BY <1>2, <1>5, <2>4 DEF Touches
    <3>2. p \in {unlisten, agentOff} /\ p # None
      BY <2>4, <3>1, DomainFacts DEF IInv, EarsOwned
    <3> QED BY <2>1, <3>1, <3>2
  <2> QED BY <1>5, <2>3, <2>4 DEF EarsOwned, Touches
<1>13. SessionFacts'
  <2>1. CASE session = o
    <3>1. ~Loaded(session)' /\ ~Hearing(session)'
      BY <1>2, <1>5, <1>6, <2>1 DEF Loaded, Hearing, Subscribed
    <3> QED BY <3>1 DEF SessionFacts, SessionOwn, SessionApplied, SessionHeard
  <2>2. CASE session # o
    <3>1. session # None => session \in DOMAIN opens
      BY DEF IInv, Pointed
    <3>2. session # None => Keeps(session)
      BY <1>5, <2>2, <3>1, TouchedKeeps
    <3> QED BY <1>6, <3>2, SessionKept DEF IInv, Keeps
  <2> QED BY <2>1, <2>2
<1>14. ViewerFacts'
  <2>1. CASE viewer = o
    <3>1. ~Waiting(viewer)' /\ ~Hearing(viewer)'
      BY <1>2, <1>5, <1>6, <2>1 DEF Waiting, Hearing, Subscribed
    <3>2. ViewerOwn'
      BY <1>2, <1>5, <1>6, <2>1 DEF IInv, ViewerFacts, ViewerOwn
    <3> QED BY <3>1, <3>2 DEF ViewerFacts, ViewerBuffered, ViewerShown
  <2>2. CASE viewer # o
    <3>1. viewer # None => viewer \in DOMAIN opens
      BY DEF IInv, Pointed
    <3>2. viewer # None => Keeps(viewer)
      BY <1>5, <2>2, <3>1, TouchedKeeps
    <3>3. log' \in [Threads -> Nat] /\ \A t \in Threads : log[t] <= log'[t]
      BY <1>6 DEF IInv, ShellShape
    <3> QED BY <1>6, <3>2, <3>3, ViewerKept DEF IInv
  <2> QED BY <2>1, <2>2
<1> QED BY <1>8, <1>9, <1>10, <1>11, <1>12, <1>13, <1>14 DEF IInv

\* A step of an open that goes on hearing what it heard.
LEMMA TouchedTask ==
  ASSUME ShellShape, OpensShape, TaskOwned, NEW o \in DOMAIN opens, Touches(o),
         log' = log, task' = task, unsubs' = unsubs,
         opens[o].pc \notin {"reading", "read", "subscribing"} =>
           /\ opens'[o].ear = opens[o].ear
           /\ opens'[o].pc \notin {"reading", "read", "subscribing"}
  PROVE  ShellShape' /\ TaskOwned'
<1>1. ShellShape'
  BY DEF ShellShape, Touches
<1>2. TaskOwned'
  <2> SUFFICES ASSUME task # NoTask
               PROVE  /\ task.thread = opens'[task.by].thread /\ task.at <= log[task.thread]
                      /\ opens'[task.by].pc \notin {"reading", "read", "subscribing"}
                      /\ opens'[task.by].ear \/ unsubs[task.thread] > 0
    BY DEF TaskOwned
  <2>1. /\ task.by \in DOMAIN opens /\ task.thread = opens[task.by].thread
        /\ task.at <= log[task.thread] /\ opens[task.by].pc \notin {"reading", "read", "subscribing"}
        /\ opens[task.by].ear \/ unsubs[task.thread] > 0
    BY DEF ShellShape, TaskOwned
  <2>2. CASE task.by # o
    BY <2>1, <2>2 DEF Touches
  <2>3. CASE task.by = o
    BY <2>1, <2>3 DEF Touches
  <2> QED BY <2>2, <2>3
<1> QED BY <1>1, <1>2

\* The session, when its open has changed and nothing of it is on the screen yet.
LEMMA SessionUntouched ==
  ASSUME SessionFacts, Pointed, NEW o \in DOMAIN opens, Touches(o), session # o,
         session' = session, active' = active, transcript' = transcript, applied' = applied,
         task'.by = session => task' = task
  PROVE  SessionFacts'
<1>1. session # None => session \in DOMAIN opens
  BY DEF Pointed
<1>2. session # None => Keeps(session)
  BY <1>1, TouchedKeeps
<1> QED BY <1>2, SessionKept DEF Keeps

LEMMA ViewerUntouched ==
  ASSUME ViewerFacts, Pointed, ShellShape, OpensShape, NEW o \in DOMAIN opens, Touches(o),
         viewer # o, log' = log,
         viewer' = viewer, agentView' = agentView, agentIds' = agentIds,
         task'.by = viewer => task' = task
  PROVE  ViewerFacts'
<1>1. viewer # None => viewer \in DOMAIN opens
  BY DEF Pointed
<1>2. viewer # None => Keeps(viewer)
  BY <1>1, TouchedKeeps
<1>3. log' \in [Threads -> Nat] /\ \A t \in Threads : log[t] <= log'[t]
  BY DEF ShellShape
<1> QED BY <1>2, <1>3, ViewerKept

(* The shell answers a read or a replay with the events of the moment.     *)
LEMMA ServeReadStep ==
  ASSUME IInv, NEW o \in DOMAIN opens, Serve(o), opens[o].pc # "subscribing"
  PROVE  IInv'
<1> DEFINE x == opens[o]
           n == log[x.thread]
           r == [x EXCEPT !.pc = IF @ = "reading" THEN "read" ELSE "replayed", !.got = n]
<1>1. x \in OpenRecords /\ o # None /\ x.thread \in Threads
  BY DomainFacts, RecordFacts DEF IInv
<1>2. n \in Nat
  BY <1>1 DEF IInv, ShellShape
<1>3. x.pc \in {"reading", "replaying"}
  BY DEF Serve, Calls
<1> HIDE DEF x, n
<1>4. /\ r \in OpenRecords /\ r.kind = x.kind /\ r.thread = x.thread
      /\ r.pc = (IF x.pc = "reading" THEN "read" ELSE "replayed") /\ r.got = n /\ r.view = x.view
      /\ r.since = x.since /\ r.buffer = x.buffer /\ r.queue = x.queue /\ r.ear = x.ear
  BY <1>1, <1>2 DEF OpenRecords, Stages, Calls
<1> HIDE DEF r
<1>5. opens' = [opens EXCEPT ![o] = r]
  BY DEF Serve, r, x, n
<1>6. Touches(o) /\ opens'[o] = r
  BY <1>4, <1>5, TouchesRecord DEF IInv, x
<1>7. /\ log' = log /\ task' = task /\ unsubs' = unsubs /\ active' = active /\ transcript' = transcript
      /\ applied' = applied /\ session' = session /\ unlisten' = unlisten /\ viewer' = viewer
      /\ agentView' = agentView /\ agentIds' = agentIds /\ agentOff' = agentOff /\ compacts' = compacts
  BY DEF Serve, screen, agent
<1>8. OpenOK(x, n)
  BY DEF IInv, OpensOK, x, n
<1>9. OpenOK(r, log[opens[o].thread])
  <2>1. OpenOK(r, n)
    <3>1. n <= n /\ x.view <= n
      BY <1>2, <1>8 DEF OpenOK
    <3>2. x.ear <=> r.ear
      BY <1>4
    <3>3. r.pc \in {"read", "replayed"} /\ (r.pc = "read" => ~x.ear)
      BY <1>3, <1>4, <1>8 DEF OpenOK, Deaf
    <3>4. x.queue = <<>>
      BY <1>3, <1>8 DEF OpenOK
    <3> QED BY <1>4, <1>8, <3>1, <3>2, <3>3, <3>4 DEF OpenOK, Asking, Deaf
  <2> QED BY <2>1 DEF x, n
<1>10. OpensShape' /\ OpensOK' /\ CompactsOK'
  BY <1>6, <1>7, <1>9, TouchedOpens DEF IInv
<1>11. Pointed'
  BY <1>6, <1>7, TouchedPointed DEF IInv
<1>12. ShellShape' /\ TaskOwned'
  <2>1. x.pc \notin {"reading", "read", "subscribing"} =>
           /\ r.ear = x.ear /\ r.pc \notin {"reading", "read", "subscribing"}
    BY <1>3, <1>4
  <2> QED BY <1>6, <1>7, <2>1, TouchedTask DEF IInv, x
<1>13. ScreenShape' /\ AgentShape'
  BY <1>7 DEF IInv, ScreenShape, AgentShape
<1>14. EarsOwned'
  <2>1. o \in {unlisten, agentOff} => x.pc \notin Early
    BY <1>1 DEF IInv, EarsOwned, x
  <2>2. o \in {unlisten, agentOff} => r.pc \notin Early
    BY <1>3, <1>4, <2>1 DEF Early
  <2>3. r.ear /\ r.pc \notin Asking => o \in {unlisten, agentOff}
    <3>1. x.ear /\ x.pc \notin Asking => o \in {unlisten, agentOff}
      BY DEF IInv, EarsOwned, x
    <3> QED BY <1>3, <1>4, <3>1 DEF Asking
  <2>4. {unlisten, agentOff} \subseteq {None} \cup DOMAIN opens
    BY DEF IInv, Pointed
  <2> QED BY <1>6, <1>7, <2>2, <2>3, <2>4 DEF IInv, EarsOwned, Touches
<1>15. SessionFacts'
  <2>1. CASE session = o
    <3>1. Current(session)' <=> Current(session)
      BY <1>6, <1>7, <2>1 DEF Current, Touches
    <3>2. Loaded(session)' => Loaded(session) /\ r.view = x.view
      BY <1>3, <1>4, <1>6, <1>7, <2>1, <3>1 DEF Loaded, Stages, Calls, x
    <3>3. SessionOwn'
      BY <1>6, <1>7, <2>1, <3>2 DEF IInv, SessionFacts, SessionOwn, x
    <3>4. r.pc # "open"
      BY <1>4
    <3>5. SessionApplied' /\ SessionHeard'
      BY <1>6, <1>7, <2>1, <3>4 DEF SessionApplied, SessionHeard, Hearing, Subscribed
    <3> QED BY <3>3, <3>5 DEF SessionFacts
  <2>2. CASE session # o
    BY <1>6, <1>7, <2>2, SessionUntouched DEF IInv
  <2> QED BY <2>1, <2>2
<1>16. ViewerFacts'
  <2>1. CASE viewer = o
    <3>1. ViewerOwn'
      BY <1>6, <1>7, <2>1 DEF IInv, ViewerFacts, ViewerOwn, Touches
    <3>2. ~Hearing(viewer)'
      BY <1>4, <1>6, <1>7, <2>1 DEF Hearing, Subscribed
    <3>3. ViewerBuffered'
      <4> SUFFICES ASSUME Waiting(viewer)' PROVE ViewerBuffered'
        BY DEF ViewerBuffered
      <4>1. Waiting(viewer) /\ x.pc = "replaying" /\ task.by = o
        BY <1>3, <1>4, <1>6, <1>7, <2>1 DEF Waiting, Touches, x
      <4>2. PICK s \in 0 .. task.at : RunsTo(x.buffer, x.thread, s, task.at)
        BY <2>1, <4>1 DEF IInv, ViewerFacts, ViewerBuffered, x
      <4>3. task # NoTask
        BY <1>1, <4>1 DEF NoTask
      <4>4. task.thread = x.thread /\ task.at <= n /\ task.at \in Nat
        BY <4>1, <4>3 DEF IInv, TaskOwned, ShellShape, Tasks, x, n
      <4>5. s <= r.got
        BY <1>2, <1>4, <4>4
      <4>6. RunsTo(r.buffer, r.thread, s, task.at)
        BY <1>4, <4>2
      <4> QED BY <1>6, <1>7, <2>1, <4>5, <4>6 DEF ViewerBuffered
    <3> QED BY <3>1, <3>2, <3>3 DEF ViewerFacts, ViewerShown
  <2>2. CASE viewer # o
    BY <1>6, <1>7, <2>2, ViewerUntouched DEF IInv
  <2> QED BY <2>1, <2>2
<1> QED BY <1>10, <1>11, <1>12, <1>13, <1>14, <1>15, <1>16 DEF IInv

(* The shell starts a task for an open, which aborts every other.          *)
LEMMA ServeSubscribeStep ==
  ASSUME IInv, NEW o \in DOMAIN opens, Serve(o), opens[o].pc = "subscribing"
  PROVE  IInv'
<1> DEFINE x == opens[o]
           n == log[x.thread]
           r == [x EXCEPT !.pc = "subscribed"]
<1>1. x \in OpenRecords /\ o # None /\ o \in Nat /\ x.thread \in Threads
  BY DomainFacts, RecordFacts DEF IInv
<1>2. n \in Nat /\ n <= n
  BY <1>1 DEF IInv, ShellShape
<1>3. x.pc = "subscribing"
  OBVIOUS
<1> HIDE DEF x, n
<1>4. /\ r \in OpenRecords /\ r.kind = x.kind /\ r.thread = x.thread
      /\ r.pc = "subscribed" /\ r.got = x.got /\ r.view = x.view
      /\ r.since = x.since /\ r.buffer = x.buffer /\ r.queue = x.queue /\ r.ear = x.ear
  BY <1>1 DEF OpenRecords, Stages, Calls
<1> HIDE DEF r
<1>5. opens' = [opens EXCEPT ![o] = r] /\ task' = [thread |-> x.thread, at |-> n, by |-> o, lagged |-> FALSE]
  BY DEF Serve, r, x, n
<1>6. Touches(o) /\ opens'[o] = r
  BY <1>4, <1>5, TouchesRecord DEF IInv, x
<1>7. /\ log' = log /\ unsubs' = unsubs /\ active' = active /\ transcript' = transcript
      /\ applied' = applied /\ session' = session /\ unlisten' = unlisten /\ viewer' = viewer
      /\ agentView' = agentView /\ agentIds' = agentIds /\ agentOff' = agentOff /\ compacts' = compacts
  BY DEF Serve, screen, agent
<1>8. OpenOK(x, n)
  BY DEF IInv, OpensOK, x, n
<1>9. OpenOK(r, log[opens[o].thread])
  <2>1. OpenOK(r, n)
    <3>1. x.ear /\ x.queue = <<>>
      BY <1>3, <1>8 DEF OpenOK, Asking
    <3> QED BY <1>4, <1>8, <3>1 DEF OpenOK, Deaf
  <2> QED BY <2>1 DEF x, n
<1>10. OpensShape' /\ OpensOK' /\ CompactsOK'
  BY <1>6, <1>7, <1>9, TouchedOpens DEF IInv
<1>11. Pointed'
  BY <1>6, <1>7, TouchedPointed DEF IInv
<1>12. task'.thread = x.thread /\ task'.at = n /\ task'.by = o /\ task' \in Tasks
  BY <1>1, <1>2, <1>5 DEF Tasks
<1>13. ShellShape'
  BY <1>6, <1>7, <1>12 DEF IInv, ShellShape, Touches
<1>14. TaskOwned'
  <2>1. r.ear
    BY <1>3, <1>4, <1>8 DEF OpenOK, Asking
  <2> QED BY <1>2, <1>4, <1>6, <1>7, <1>12, <2>1 DEF TaskOwned, n
<1>15. ScreenShape' /\ AgentShape'
  BY <1>7 DEF IInv, ScreenShape, AgentShape
<1>16. EarsOwned'
  <2>1. o \notin {unlisten, agentOff}
    BY <1>1, <1>3 DEF IInv, EarsOwned, x, Early
  <2>2. {unlisten, agentOff} \subseteq {None} \cup DOMAIN opens
    BY DEF IInv, Pointed
  <2>3. r.pc \in Asking
    BY <1>4 DEF Asking
  <2> QED BY <1>6, <1>7, <2>1, <2>2, <2>3 DEF IInv, EarsOwned, Touches
<1>17. SessionFacts'
  <2>1. CASE session = o
    <3>1. Current(session)' <=> Current(session)
      BY <1>6, <1>7, <2>1 DEF Current, Touches
    <3>2. Loaded(session)' => Loaded(session) /\ r.view = x.view
      BY <1>3, <1>4, <1>6, <1>7, <2>1, <3>1 DEF Loaded, Stages, Calls, x
    <3>3. SessionOwn'
      BY <1>6, <1>7, <2>1, <3>2 DEF IInv, SessionFacts, SessionOwn, x
    <3>4. r.pc # "open"
      BY <1>4
    <3>5. SessionApplied' /\ SessionHeard'
      BY <1>6, <1>7, <2>1, <3>4 DEF SessionApplied, SessionHeard, Hearing, Subscribed
    <3> QED BY <3>3, <3>5 DEF SessionFacts
  <2>2. CASE session # o
    BY <1>6, <1>7, <1>12, <2>2, SessionUntouched DEF IInv
  <2> QED BY <2>1, <2>2
<1>18. ViewerFacts'
  <2>1. CASE viewer = o
    <3>1. ViewerOwn'
      BY <1>6, <1>7, <2>1 DEF IInv, ViewerFacts, ViewerOwn, Touches
    <3>2. ~Hearing(viewer)'
      BY <1>4, <1>6, <1>7, <2>1 DEF Hearing, Subscribed
    <3>3. RunsTo(r.buffer, r.thread, n, n)
      <4>1. x.buffer \in Seq({x.thread} \X (1 .. n))
        BY <1>8 DEF OpenOK
      <4>2. Len(x.buffer) \in Nat /\ \A i \in 1 .. Len(x.buffer) : x.buffer[i] \in {x.thread} \X (1 .. n)
        BY <4>1
      <4>3. \A i \in 1 .. Len(x.buffer) : x.buffer[i][2] <= n
        BY <1>2, <4>2
      <4>4. n - n = 0 /\ 1 .. (n - n) = {} /\ Len(x.buffer) = Len(x.buffer) + (n - n)
        BY <1>2, <4>2
      <4>5. Len(x.buffer) \in 0 .. Len(x.buffer)
        BY <4>2
      <4> QED BY <1>4, <4>3, <4>4, <4>5 DEF RunsTo
    <3>4. n \in 0 .. n
      BY <1>2
    <3>5. ViewerBuffered'
      BY <1>4, <1>6, <1>7, <1>12, <2>1, <3>3, <3>4 DEF ViewerBuffered
    <3> QED BY <3>1, <3>2, <3>5 DEF ViewerFacts, ViewerShown
  <2>2. CASE viewer # o
    BY <1>6, <1>7, <1>12, <2>2, ViewerUntouched DEF IInv
  <2> QED BY <2>1, <2>2
<1> QED BY <1>10, <1>11, <1>13, <1>14, <1>15, <1>16, <1>17, <1>18 DEF IInv

(* The session's batcher shows what is queued.                             *)
LEMMA SessionShows ==
  ASSUME IInv, session # None, Current(session), NEW events,
         events \in Seq({opens[session].thread} \X Nat),
         transcript' = Show(transcript, applied, events), applied' = applied \cup ToSet(events),
         session' = session, active' = active,
         opens'[session].kind = opens[session].kind, opens'[session].thread = opens[session].thread,
         opens'[session].pc = opens[session].pc, opens'[session].view = opens[session].view,
         opens'[session].since = opens[session].since
  PROVE  /\ ScreenShape' /\ SessionOwn' /\ SessionApplied'
         /\ ToSet(transcript) \subseteq ToSet(transcript')
         /\ Loaded(session) /\ opens[session].pc = "open" =>
              \A e \in ToSet(events) : e[2] > opens[session].since => e \in ToSet(transcript')
<1>1. opens[session].kind = "session" /\ session \in DOMAIN opens
  BY DEF IInv, Pointed
<1>2. active = opens[session].thread /\ active \in Threads
  BY <1>1, DomainFacts, RecordFacts DEF IInv, Current
<1>3. {active} \X Nat \subseteq Events
  BY <1>2 DEF Events
<1>4. /\ events \in Seq({active} \X Nat) /\ events \in Seq(Events)
      /\ ToSet(events) \subseteq {active} \X Nat /\ ToSet(events) \subseteq Events
  BY <1>2, <1>3, RangeFacts
<1>5. transcript \in Seq(Events)
  BY DEF IInv, ScreenShape
<1>6. /\ transcript' \in Seq(Events) /\ ToSet(transcript) \subseteq ToSet(transcript')
      /\ \A e \in ToSet(events) : e \in applied \/ e \in ToSet(transcript')
  BY <1>4, <1>5, ShowFacts
<1>7. ScreenShape'
  BY <1>4, <1>6 DEF IInv, ScreenShape
<1>8. Loaded(session)' <=> Loaded(session)
  BY <1>1 DEF Loaded, Current
<1>9. SessionOwn'
  <2> SUFFICES ASSUME Loaded(session)' PROVE SessionOwn'
    BY DEF SessionOwn
  <2>1. /\ transcript \in Seq({active} \X Nat)
        /\ ToSet(Upto(active, opens[session].view)) \subseteq ToSet(transcript)
    BY <1>8 DEF IInv, SessionFacts, SessionOwn
  <2>2. transcript' \in Seq({active} \X Nat)
    BY <1>4, <2>1, ShowFacts
  <2> QED BY <1>6, <2>1, <2>2 DEF SessionOwn
<1>10. Loaded(session) /\ opens[session].pc = "open" =>
         /\ \A e \in applied : e[2] > opens[session].since => e \in ToSet(transcript')
         /\ \A e \in ToSet(events) : e[2] > opens[session].since => e \in ToSet(transcript')
  BY <1>6 DEF IInv, SessionFacts, SessionApplied
<1>11. SessionApplied'
  BY <1>8, <1>10 DEF SessionApplied
<1> QED BY <1>6, <1>7, <1>9, <1>10, <1>11

(* The frames of an open: what is queued goes on the screen, or nowhere.   *)
LEMMA FrameOpens ==
  ASSUME IInv, NEW o \in DOMAIN opens, Frame(o)
  PROVE  /\ Touches(o) /\ opens'[o].pc = opens[o].pc /\ opens'[o].got = opens[o].got
         /\ opens'[o].view = opens[o].view /\ opens'[o].since = opens[o].since
         /\ opens'[o].buffer = opens[o].buffer /\ opens'[o].queue = <<>>
         /\ opens'[o].ear = opens[o].ear
         /\ opens[o].pc \in {"tree", "open"}
         /\ opens[o].queue \in Seq({opens[o].thread} \X (1 .. log[opens[o].thread]))
         /\ opens[o].queue \in Seq({opens[o].thread} \X Nat)
         /\ ShellShape' /\ OpensShape' /\ OpensOK' /\ CompactsOK'
         /\ Pointed' /\ EarsOwned' /\ TaskOwned'
<1> DEFINE x == opens[o]
           n == log[x.thread]
           r == [x EXCEPT !.queue = <<>>]
<1>1. x \in OpenRecords /\ o # None /\ x.thread \in Threads
  BY DomainFacts, RecordFacts DEF IInv
<1>2. n \in Nat
  BY <1>1 DEF IInv, ShellShape
<1>3. x.queue # <<>> /\ OpenOK(x, n)
  BY DEF Frame, IInv, OpensOK
<1> HIDE DEF x, n
<1>4. x.pc \in {"tree", "open"} /\ x.queue \in Seq({x.thread} \X (1 .. n))
  BY <1>3 DEF OpenOK
<1>5. x.queue \in Seq({x.thread} \X Nat)
  <2>1. {x.thread} \X (1 .. n) \subseteq {x.thread} \X Nat
    BY <1>2
  <2>2. ToSet(x.queue) \subseteq {x.thread} \X Nat
    BY <1>4, <2>1, RangeFacts
  <2> QED BY <1>4, <2>2, RangeFacts
<1>6. <<>> \in Seq(Events) /\ <<>> \in Seq({x.thread} \X (1 .. n))
  OBVIOUS
<1>7. /\ r \in OpenRecords /\ r.kind = x.kind /\ r.thread = x.thread /\ r.pc = x.pc /\ r.got = x.got
      /\ r.view = x.view /\ r.since = x.since /\ r.buffer = x.buffer /\ r.queue = <<>> /\ r.ear = x.ear
  BY <1>1, <1>6 DEF OpenRecords
<1> HIDE DEF r
<1>8. opens' = [opens EXCEPT ![o] = r]
  BY DEF Frame, r, x
<1>9. Touches(o) /\ opens'[o] = r
  BY <1>7, <1>8, TouchesRecord DEF IInv, x
<1>10. /\ log' = log /\ task' = task /\ unsubs' = unsubs /\ compacts' = compacts
       /\ session' = session /\ unlisten' = unlisten /\ viewer' = viewer /\ agentOff' = agentOff
  BY DEF Frame, shell
<1>11. OpenOK(r, log[opens[o].thread])
  <2>1. OpenOK(r, n)
    BY <1>3, <1>6, <1>7 DEF OpenOK
  <2> QED BY <2>1 DEF x, n
<1>12. OpensShape' /\ OpensOK' /\ CompactsOK'
  BY <1>9, <1>10, <1>11, TouchedOpens DEF IInv
<1>13. Pointed'
  BY <1>9, <1>10, TouchedPointed DEF IInv
<1>14. ShellShape' /\ TaskOwned'
  <2>1. r.ear = x.ear /\ r.pc \notin {"reading", "read", "subscribing"}
    BY <1>4, <1>7
  <2> QED BY <1>9, <1>10, <2>1, TouchedTask DEF IInv, x
<1>15. EarsOwned'
  <2>1. {unlisten, agentOff} \subseteq {None} \cup DOMAIN opens
    BY DEF IInv, Pointed
  <2>2. \A p \in DOMAIN opens : opens'[p].pc = opens[p].pc /\ opens'[p].ear = opens[p].ear
    BY <1>7, <1>9 DEF Touches, x
  <2> QED BY <1>9, <1>10, <2>1, <2>2 DEF IInv, EarsOwned, Touches
<1> QED BY <1>4, <1>5, <1>7, <1>9, <1>12, <1>13, <1>14, <1>15 DEF x, n

\* What the session has heard since it was opened is shown once nothing is queued.
LEMMA FrameSession ==
  ASSUME IInv, NEW o \in DOMAIN opens, Frame(o), Current(o), opens[o].kind = "session"
  PROVE  IInv'
<1> DEFINE q == opens[o].queue
<1>1. /\ Touches(o) /\ opens'[o].pc = opens[o].pc
      /\ opens'[o].view = opens[o].view /\ opens'[o].since = opens[o].since
      /\ opens'[o].queue = <<>> /\ opens'[o].ear = opens[o].ear
      /\ opens[o].pc \in {"tree", "open"} /\ q \in Seq({opens[o].thread} \X Nat)
      /\ ShellShape' /\ OpensShape' /\ OpensOK' /\ CompactsOK' /\ Pointed' /\ EarsOwned' /\ TaskOwned'
  BY FrameOpens
<1>2. session = o /\ o # None /\ opens'[o].kind = "session" /\ opens'[o].thread = opens[o].thread
  BY <1>1, DomainFacts DEF IInv, Current, Touches
<1>3. /\ transcript' = Show(transcript, applied, q) /\ applied' = applied \cup ToSet(q)
      /\ agentView' = agentView /\ agentIds' = agentIds
      /\ session' = session /\ active' = active /\ viewer' = viewer /\ log' = log /\ task' = task
  BY DEF Frame, shell
<1> HIDE DEF q
<1>4. /\ ScreenShape' /\ SessionOwn' /\ SessionApplied'
      /\ ToSet(transcript) \subseteq ToSet(transcript')
      /\ Loaded(session) /\ opens[session].pc = "open" =>
           \A e \in ToSet(q) : e[2] > opens[session].since => e \in ToSet(transcript')
  BY <1>1, <1>2, <1>3, SessionShows
<1>5. AgentShape'
  BY <1>3 DEF IInv, AgentShape
<1>6. SessionHeard'
  <2> SUFFICES ASSUME Hearing(session)' PROVE SessionHeard'
    BY DEF SessionHeard
  <2> DEFINE t == opens[o].thread
             s == opens[o].since
  <2>1. Hearing(session) /\ Loaded(session) /\ opens[session].pc = "open" /\ task.by = o
    BY <1>1, <1>2, <1>3 DEF Hearing, Subscribed, Loaded, Stages, Calls
  <2>2. ToSet(EventsOf(t, s, task.at)) \subseteq ToSet(transcript) \cup ToSet(q)
    BY <1>2, <2>1 DEF IInv, SessionFacts, SessionHeard, q
  <2>3. s \in Nat /\ t \in Threads
    BY DomainFacts, RecordFacts DEF IInv
  <2>4. task.at \in Nat
    <3>1. task # NoTask
      BY <1>2, <2>1 DEF NoTask
    <3> QED BY <3>1 DEF IInv, ShellShape, Tasks
  <2>5. \A e \in ToSet(EventsOf(t, s, task.at)) : e[2] > s
    <3> HIDE DEF t, s
    <3> SUFFICES ASSUME NEW e \in ToSet(EventsOf(t, s, task.at)) PROVE e[2] > s
      OBVIOUS
    <3>1. PICK k \in Nat : s < k /\ k <= task.at /\ e = <<t, k>>
      BY <2>3, <2>4, EventsOfSet
    <3> QED BY <2>3, <3>1
  <2>6. ToSet(EventsOf(t, s, task.at)) \subseteq ToSet(transcript')
    <3> SUFFICES ASSUME NEW e \in ToSet(EventsOf(t, s, task.at)) PROVE e \in ToSet(transcript')
      OBVIOUS
    <3>1. e[2] > opens[session].since
      BY <1>2, <2>5
    <3> HIDE DEF t, s
    <3> QED BY <1>4, <2>1, <2>2, <3>1
  <2>7. opens'[session'].thread = t /\ opens'[session'].since = s /\ task'.at = task.at
    BY <1>1, <1>2, <1>3
  <2> HIDE DEF t, s
  <2> QED BY <2>6, <2>7 DEF SessionHeard
<1>7. ViewerFacts'
  <2>1. viewer # o
    BY <1>2 DEF IInv, Pointed
  <2> QED BY <1>1, <1>3, <2>1, ViewerUntouched DEF IInv
<1> QED BY <1>1, <1>4, <1>5, <1>6, <1>7 DEF IInv, SessionFacts

\* A viewer shows the run of events it has queued; those it has already, once.
LEMMA FrameViewer ==
  ASSUME IInv, NEW o \in DOMAIN opens, Frame(o), Current(o), opens[o].kind = "viewer"
  PROVE  IInv'
<1> DEFINE f == opens[o].queue
           t == opens[o].thread
<1>1. /\ Touches(o) /\ opens'[o].pc = opens[o].pc
      /\ opens'[o].queue = <<>> /\ opens'[o].ear = opens[o].ear
      /\ opens[o].pc \in {"tree", "open"} /\ f \in Seq({t} \X Nat)
      /\ ShellShape' /\ OpensShape' /\ OpensOK' /\ CompactsOK' /\ Pointed' /\ EarsOwned' /\ TaskOwned'
  BY FrameOpens
<1>2. /\ viewer = o /\ o # None /\ opens'[o].kind = "viewer" /\ opens'[o].thread = t /\ t \in Threads
  BY <1>1, DomainFacts, RecordFacts DEF IInv, Current, Touches
<1>3. /\ agentView' = Show(agentView, agentIds, f) /\ agentIds' = agentIds \cup ToSet(f)
      /\ transcript' = transcript /\ applied' = applied
      /\ session' = session /\ active' = active /\ viewer' = viewer /\ log' = log /\ task' = task
  BY DEF Frame, shell
<1> HIDE DEF f, t
<1>4. agentView \in Seq({t} \X Nat)
  BY <1>2 DEF IInv, ViewerFacts, ViewerOwn, t
<1>5. agentView' \in Seq({t} \X Nat)
  BY <1>1, <1>3, <1>4, ShowFacts
<1>6. {t} \X Nat \subseteq Events
  BY <1>2 DEF Events
<1>7. AgentShape'
  <2>1. ToSet(f) \subseteq Events /\ ToSet(agentView') \subseteq Events
    BY <1>1, <1>5, <1>6, RangeFacts
  <2>2. agentView' \in Seq(Events)
    BY <1>5, <2>1, RangeFacts
  <2> QED BY <1>3, <2>1, <2>2 DEF IInv, AgentShape
<1>8. ViewerOwn'
  BY <1>2, <1>3, <1>5 DEF ViewerOwn
<1>9. ViewerBuffered'
  BY <1>1, <1>2, <1>3 DEF ViewerBuffered, Waiting
<1>10. ViewerShown'
  <2> SUFFICES ASSUME Hearing(viewer)' PROVE ViewerShown'
    BY DEF ViewerShown
  <2>1. Hearing(viewer) /\ task.by = o
    BY <1>1, <1>2, <1>3 DEF Hearing, Subscribed, Current
  <2>2. task # NoTask
    BY <1>2, <2>1 DEF NoTask
  <2>3. task.at \in Nat /\ task.at <= log[t] /\ log[t] \in Nat
    BY <1>2, <2>1, <2>2 DEF IInv, ShellShape, Tasks, TaskOwned, t
  <2> DEFINE a == task.at
             n == log[t]
  <2>4. PICK m \in 0 .. n : \E q \in 0 .. m :
          q <= a /\ agentView = Upto(t, m) /\ agentIds = ToSet(Upto(t, m)) /\ f = EventsOf(t, q, a)
    BY <1>2, <2>1 DEF IInv, ViewerFacts, ViewerShown, t, f
  <2>5. PICK q \in 0 .. m :
          q <= a /\ agentView = Upto(t, m) /\ agentIds = ToSet(Upto(t, m)) /\ f = EventsOf(t, q, a)
    BY <2>4
  <2>a. /\ a \in Nat /\ a <= n /\ n \in Nat
    BY <2>3
  <2> HIDE DEF a, n
  <2> DEFINE w == IF m < a THEN a ELSE m
  <2>6. m \in Nat /\ q \in Nat /\ q <= m /\ w \in 0 .. n /\ a \in 0 .. w /\ w \in Nat
    BY <2>a
  <2>7. agentView' = Upto(t, w)
    BY <1>3, <2>a, <2>5, <2>6, ShowUpto
  <2>8. agentIds' = ToSet(Upto(t, w))
    <3>1. \A e : e \in ToSet(f) <=> \E k \in Nat : q < k /\ k <= a /\ e = <<t, k>>
      BY <2>a, <2>5, <2>6, EventsOfSet
    <3>2. agentIds' = ToSet(Upto(t, m)) \cup ToSet(f)
      BY <1>3, <2>5
    <3>3. \A k : k \in 1 .. w <=> k \in 1 .. m \/ (k \in Nat /\ q < k /\ k <= a)
      BY <2>a, <2>5, <2>6
    <3>4. /\ m \in Nat /\ w \in Nat
          /\ ToSet(Upto(t, m)) \subseteq {t} \X (1 .. m) /\ ToSet(Upto(t, w)) \subseteq {t} \X (1 .. w)
          /\ \A k : <<t, k>> \in ToSet(Upto(t, m)) <=> k \in 1 .. m
          /\ \A k : <<t, k>> \in ToSet(Upto(t, w)) <=> k \in 1 .. w
      BY <2>6, UptoSet, UptoOnly
    <3> HIDE DEF w
    <3>5. ASSUME NEW e \in agentIds' PROVE e \in ToSet(Upto(t, w))
      <4>1. PICK k : e = <<t, k>> /\ k \in 1 .. w
        BY <3>1, <3>2, <3>3, <3>4, <3>5
      <4> QED BY <3>4, <4>1
    <3>6. ASSUME NEW e \in ToSet(Upto(t, w)) PROVE e \in agentIds'
      <4>1. PICK k \in 1 .. w : e = <<t, k>>
        BY <3>4, <3>6
      <4> QED BY <3>1, <3>2, <3>3, <3>4, <4>1
    <3> QED BY <3>5, <3>6
  <2>9. EventsOf(t, a, a) = <<>>
    <3>1. EventsOf(t, a, a) \in Seq({t} \X Nat) /\ Len(EventsOf(t, a, a)) = a - a /\ a - a = 0
      <4>1. a \in Nat /\ a <= a /\ a - a = 0
        BY <2>a
      <4> QED BY <4>1, EventsOfFacts
    <3> QED BY <3>1
  <2>10. opens'[viewer'].thread = t /\ opens'[viewer'].queue = EventsOf(t, a, task'.at) /\ log'[t] = n
    BY <1>1, <1>2, <1>3, <2>9 DEF a, n
  <2>11. a <= task'.at
    BY <1>3, <2>3 DEF a
  <2> HIDE DEF w
  <2> QED BY <2>6, <2>7, <2>8, <2>10, <2>11 DEF ViewerShown
<1>11. ScreenShape'
  BY <1>3 DEF IInv, ScreenShape
<1>12. SessionFacts'
  <2>1. session # o
    BY <1>2 DEF IInv, Pointed
  <2> QED BY <1>1, <1>3, <2>1, SessionUntouched DEF IInv
<1> QED BY <1>1, <1>7, <1>8, <1>9, <1>10, <1>11, <1>12 DEF IInv, ViewerFacts

LEMMA FrameStep ==
  ASSUME IInv, NEW o \in DOMAIN opens, Frame(o)
  PROVE  IInv'
<1>1. opens[o].kind \in {"session", "viewer"}
  BY DomainFacts, RecordFacts DEF IInv
<1>2. CASE Current(o)
  BY <1>1, <1>2, FrameSession, FrameViewer
<1>3. CASE ~Current(o)
  <2>1. /\ Touches(o) /\ ShellShape' /\ OpensShape' /\ OpensOK' /\ CompactsOK'
        /\ Pointed' /\ EarsOwned' /\ TaskOwned'
    BY FrameOpens
  <2>2. /\ agentView' = agentView /\ agentIds' = agentIds /\ transcript' = transcript
        /\ applied' = applied /\ session' = session /\ active' = active /\ viewer' = viewer
        /\ log' = log /\ task' = task
    BY <1>3 DEF Frame, shell
  <2>3. ScreenShape' /\ AgentShape'
    BY <2>2 DEF IInv, ScreenShape, AgentShape
  <2>4. SessionFacts'
    <3>1. session # None => /\ session \in DOMAIN opens /\ opens'[session].kind = opens[session].kind
                            /\ opens'[session].thread = opens[session].thread
      BY <2>1 DEF IInv, Pointed, Touches
    <3>2. session # None /\ Current(session) => Keeps(session)
      BY <1>3, <2>1, <3>1, TouchedKeeps
    <3> QED BY <2>2, <3>1, <3>2, SessionKept DEF IInv
  <2>5. ViewerFacts'
    <3>1. viewer # o
      <4>1. viewer # None => opens[viewer].kind = "viewer"
        BY DEF IInv, Pointed
      <4>2. o # None
        BY DomainFacts DEF IInv
      <4> QED BY <1>3, <4>1, <4>2 DEF Current
    <3> QED BY <2>1, <2>2, <3>1, ViewerUntouched DEF IInv
  <2> QED BY <2>1, <2>3, <2>4, <2>5 DEF IInv
<1> QED BY <1>2, <1>3

(* The read is answered: the view is shown, and the open begins to listen. *)
LEMMA ReadReplyStep ==
  ASSUME IInv, NEW o \in DOMAIN opens, opens[o].pc = "read", ReadReply(o)
  PROVE  IInv'
<1> DEFINE x == opens[o]
           n == log[x.thread]
           view == Upto(x.thread, x.got)
           R(live) == [x EXCEPT !.view = x.got, !.got = 0, !.ear = live,
                                !.pc = IF live THEN "subscribing" ELSE "replaying"]
<1>1. x \in OpenRecords /\ o # None /\ x.thread \in Threads /\ x.got \in Nat /\ x.pc = "read"
  BY DomainFacts, RecordFacts DEF IInv
<1>2. n \in Nat
  BY <1>1 DEF IInv, ShellShape
<1>3. PICK live \in BOOLEAN : opens' = [opens EXCEPT ![o] = R(live)]
  BY DEF ReadReply
<1> DEFINE r == R(live)
<1>4. Current(o)
  BY DEF ReadReply
<1> HIDE DEF x, n
<1>5. /\ r \in OpenRecords /\ r.kind = x.kind /\ r.thread = x.thread /\ r.view = x.got /\ r.got = 0
      /\ r.since = x.since /\ r.buffer = x.buffer /\ r.queue = x.queue /\ r.ear = live
      /\ r.pc = (IF live THEN "subscribing" ELSE "replaying")
  BY <1>1, <1>3 DEF OpenRecords, Stages, Calls
<1>6. opens' = [opens EXCEPT ![o] = r]
  BY <1>3
<1> HIDE DEF R, r
<1>7. Touches(o) /\ opens'[o] = r
  BY <1>5, <1>6, TouchesRecord DEF IInv, x
<1>8. /\ log' = log /\ task' = task /\ unsubs' = unsubs /\ compacts' = compacts
      /\ session' = session /\ active' = active /\ unlisten' = unlisten /\ viewer' = viewer
      /\ agentView' = agentView /\ agentIds' = agentIds /\ agentOff' = agentOff
      /\ IF x.kind = "session" THEN transcript' = view /\ applied' = ToSet(view)
                               ELSE transcript' = transcript /\ applied' = applied
  BY DEF ReadReply, shell, agent, x
<1> HIDE DEF view
<1>9. OpenOK(x, n)
  BY DEF IInv, OpensOK, x, n
<1>10. OpenOK(r, log[opens[o].thread])
  <2>1. 0 <= n
    BY <1>2
  <2>2. x.queue = <<>> /\ x.got <= n
    BY <1>1, <1>9 DEF OpenOK
  <2>3. OpenOK(r, n)
    BY <1>5, <1>9, <2>1, <2>2 DEF OpenOK, Asking, Deaf
  <2> QED BY <2>3 DEF x, n
<1>11. OpensShape' /\ OpensOK' /\ CompactsOK'
  BY <1>7, <1>8, <1>10, TouchedOpens DEF IInv
<1>12. Pointed'
  BY <1>7, <1>8, TouchedPointed DEF IInv
<1>13. ShellShape' /\ TaskOwned'
  BY <1>1, <1>7, <1>8, TouchedTask DEF IInv, x
<1>14. EarsOwned'
  <2>1. o \notin {unlisten, agentOff}
    BY <1>1 DEF IInv, EarsOwned, x, Early
  <2>2. {unlisten, agentOff} \subseteq {None} \cup DOMAIN opens
    BY DEF IInv, Pointed
  <2>3. r.ear => r.pc \in Asking
    BY <1>5 DEF Asking
  <2> QED BY <1>7, <1>8, <2>1, <2>2, <2>3 DEF IInv, EarsOwned, Touches
<1>15. AgentShape'
  BY <1>8 DEF IInv, AgentShape
<1>16. view \in Seq({x.thread} \X Nat) /\ {x.thread} \X Nat \subseteq Events
  BY <1>1, UptoFacts DEF view, Events
<1>17. ScreenShape'
  <2>1. view \in Seq(Events) /\ ToSet(view) \subseteq Events
    BY <1>16, RangeFacts
  <2> QED BY <1>8, <2>1 DEF IInv, ScreenShape
<1>18. r.pc # "open" /\ r.pc \notin {"subscribed", "replayed"} /\ (r.ear => r.pc # "replaying")
  BY <1>5
<1>19. SessionFacts'
  <2>1. CASE session = o
    <3>1. x.kind = "session" /\ active = x.thread
      BY <1>1, <1>4, <2>1 DEF IInv, Pointed, Current, x
    <3>2. transcript' = view /\ active' = x.thread /\ opens'[session'].view = x.got
      BY <1>5, <1>7, <1>8, <2>1, <3>1
    <3>3. ToSet(Upto(active', opens'[session'].view)) \subseteq ToSet(transcript')
      BY <3>2 DEF view
    <3>4. SessionOwn'
      BY <1>16, <3>2, <3>3 DEF SessionOwn
    <3>5. SessionApplied' /\ SessionHeard'
      BY <1>7, <1>8, <1>18, <2>1 DEF SessionApplied, SessionHeard, Hearing, Subscribed
    <3> QED BY <3>4, <3>5 DEF SessionFacts
  <2>2. CASE session # o
    <3>1. x.kind # "session"
      BY <1>4, <2>2 DEF Current, x
    <3> QED BY <1>7, <1>8, <2>2, <3>1, SessionUntouched DEF IInv
  <2> QED BY <2>1, <2>2
<1>20. ViewerFacts'
  <2>1. CASE viewer = o
    <3>1. ViewerOwn'
      BY <1>7, <1>8, <2>1 DEF IInv, ViewerFacts, ViewerOwn, Touches
    <3>2. ~Waiting(viewer)' /\ ~Hearing(viewer)'
      BY <1>7, <1>8, <1>18, <2>1 DEF Waiting, Hearing, Subscribed
    <3> QED BY <3>1, <3>2 DEF ViewerFacts, ViewerBuffered, ViewerShown
  <2>2. CASE viewer # o
    BY <1>7, <1>8, <2>2, ViewerUntouched DEF IInv
  <2> QED BY <2>1, <2>2
<1> QED BY <1>11, <1>12, <1>13, <1>14, <1>15, <1>17, <1>19, <1>20 DEF IInv

(* The subscription is answered: the cleanup that holds the listener is    *)
(* handed over to the store.                                               *)
LEMMA SubscribeReplyStep ==
  ASSUME IInv, NEW o \in DOMAIN opens, opens[o].pc = "subscribed", SubscribeReply(o)
  PROVE  IInv'
<1> DEFINE x == opens[o]
           n == log[x.thread]
           r == [x EXCEPT !.pc = "replaying"]
<1>1. x \in OpenRecords /\ o # None /\ x.pc = "subscribed" /\ x.kind \in {"session", "viewer"}
  BY DomainFacts, RecordFacts DEF IInv
<1>2. Current(o) /\ opens' = [opens EXCEPT ![o] = r]
  BY DEF SubscribeReply
<1> HIDE DEF x, n
<1>3. /\ r \in OpenRecords /\ r.kind = x.kind /\ r.thread = x.thread /\ r.view = x.view /\ r.got = x.got
      /\ r.since = x.since /\ r.buffer = x.buffer /\ r.queue = x.queue /\ r.ear = x.ear
      /\ r.pc = "replaying"
  BY <1>1 DEF OpenRecords, Stages, Calls
<1> HIDE DEF r
<1>4. Touches(o) /\ opens'[o] = r
  BY <1>2, <1>3, TouchesRecord DEF IInv, x
<1>5. /\ log' = log /\ task' = task /\ unsubs' = unsubs /\ compacts' = compacts
      /\ session' = session /\ active' = active /\ transcript' = transcript /\ applied' = applied
      /\ viewer' = viewer /\ agentView' = agentView /\ agentIds' = agentIds
      /\ IF x.kind = "session" THEN unlisten' = o /\ agentOff' = agentOff
                               ELSE agentOff' = o /\ unlisten' = unlisten
  BY DEF SubscribeReply, shell, x
<1>6. OpenOK(x, n)
  BY DEF IInv, OpensOK, x, n
<1>7. OpenOK(r, log[opens[o].thread])
  <2>1. x.queue = <<>>
    BY <1>1, <1>6 DEF OpenOK
  <2>2. OpenOK(r, n)
    BY <1>3, <1>6, <2>1 DEF OpenOK, Asking, Deaf
  <2> QED BY <2>2 DEF x, n
<1>8. OpensShape' /\ OpensOK' /\ CompactsOK'
  BY <1>4, <1>5, <1>7, TouchedOpens DEF IInv
<1>9. x.kind = "session" => session = o
  BY <1>2 DEF Current, x
<1>10. x.kind = "viewer" => viewer = o
  BY <1>2 DEF Current, x
<1>11. unlisten \in {None, session} /\ agentOff \in {None, viewer}
  BY DEF IInv, Pointed
<1>12. Pointed'
  <2>1. /\ {session, viewer, unlisten, agentOff} \subseteq {None} \cup DOMAIN opens
        /\ session # None => opens[session].kind = "session"
        /\ viewer # None => opens[viewer].kind = "viewer"
    BY DEF IInv, Pointed
  <2>2. \A p \in DOMAIN opens : opens'[p].kind = opens[p].kind
    BY <1>4 DEF Touches
  <2>3. {session', viewer', unlisten', agentOff'} \subseteq {None} \cup DOMAIN opens'
    BY <1>4, <1>5, <2>1 DEF Touches
  <2>4. /\ session' # None => opens'[session'].kind = "session"
        /\ viewer' # None => opens'[viewer'].kind = "viewer"
    BY <1>5, <2>1, <2>2
  <2>5. (unlisten' # None => unlisten' = session') /\ (agentOff' # None => agentOff' = viewer')
    BY <1>1, <1>5, <1>9, <1>10, <1>11
  <2> QED BY <2>3, <2>4, <2>5 DEF Pointed
<1>13. ShellShape' /\ TaskOwned'
  BY <1>3, <1>4, <1>5, TouchedTask DEF IInv, x
<1>14. EarsOwned'
  <2>1. \A p \in {unlisten, agentOff, o} \ {None} : p \in {unlisten', agentOff'}
    BY <1>1, <1>5, <1>9, <1>10, <1>11
  <2>2. \A p \in {unlisten', agentOff'} \ {None} :
          p \in DOMAIN opens /\ (p # o => p \in {unlisten, agentOff})
    BY <1>5 DEF IInv, Pointed
  <2>3. r.pc \notin Early
    BY <1>3 DEF Early
  <2>4. \A p \in {unlisten', agentOff'} \ {None} : opens'[p].pc \notin Early
    BY <1>4, <2>2, <2>3 DEF IInv, EarsOwned, Touches
  <2>5. ASSUME NEW p \in DOMAIN opens, opens'[p].ear, opens'[p].pc \notin Asking
        PROVE  p \in {unlisten', agentOff'}
    <3>1. p # None
      BY DomainFacts DEF IInv
    <3>2. p # o => p \in {unlisten, agentOff}
      BY <1>4, <2>5 DEF IInv, EarsOwned, Touches
    <3> QED BY <2>1, <3>1, <3>2
  <2> QED BY <1>4, <2>4, <2>5 DEF EarsOwned, Touches
<1>15. ScreenShape' /\ AgentShape'
  BY <1>5 DEF IInv, ScreenShape, AgentShape
<1>16. SessionFacts'
  <2>1. CASE session = o
    <3>1. Loaded(session)' => Loaded(session) /\ opens'[session'].view = x.view
      BY <1>1, <1>2, <1>3, <1>4, <1>5, <2>1 DEF Loaded, Stages, Calls, x
    <3>2. SessionOwn'
      BY <1>5, <2>1, <3>1 DEF IInv, SessionFacts, SessionOwn, x
    <3>3. SessionApplied' /\ SessionHeard'
      BY <1>3, <1>4, <1>5, <2>1 DEF SessionApplied, SessionHeard, Hearing, Subscribed
    <3> QED BY <3>2, <3>3 DEF SessionFacts
  <2>2. CASE session # o
    BY <1>4, <1>5, <2>2, SessionUntouched DEF IInv
  <2> QED BY <2>1, <2>2
<1>17. ViewerFacts'
  <2>1. CASE viewer = o
    <3>1. ViewerOwn'
      BY <1>4, <1>5, <2>1 DEF IInv, ViewerFacts, ViewerOwn, Touches
    <3>2. ~Hearing(viewer)'
      BY <1>3, <1>4, <1>5, <2>1 DEF Hearing, Subscribed
    <3>3. ViewerBuffered'
      <4> SUFFICES ASSUME Waiting(viewer)' PROVE ViewerBuffered'
        BY DEF ViewerBuffered
      <4>1. Waiting(viewer)
        BY <1>1, <1>3, <1>4, <1>5, <2>1 DEF Waiting, x
      <4>2. PICK s \in 0 .. task.at : RunsTo(x.buffer, x.thread, s, task.at)
        BY <2>1, <4>1 DEF IInv, ViewerFacts, ViewerBuffered, x
      <4>3. /\ opens'[viewer'].buffer = x.buffer /\ opens'[viewer'].thread = x.thread
            /\ opens'[viewer'].pc # "replayed" /\ task' = task
        BY <1>3, <1>4, <1>5, <2>1
      <4> QED BY <4>2, <4>3 DEF ViewerBuffered
    <3> QED BY <3>1, <3>2, <3>3 DEF ViewerFacts, ViewerShown
  <2>2. CASE viewer # o
    BY <1>4, <1>5, <2>2, ViewerUntouched DEF IInv
  <2> QED BY <2>1, <2>2
<1> QED BY <1>8, <1>12, <1>13, <1>14, <1>15, <1>16, <1>17 DEF IInv

(* The replay is answered: a session goes on to await the agent tree.      *)
LEMMA ReplaySession ==
  ASSUME IInv, NEW o \in DOMAIN opens, opens[o].pc = "replayed", ReplayReply(o),
         opens[o].kind = "session"
  PROVE  IInv'
<1> DEFINE x == opens[o]
           n == log[x.thread]
           r == [x EXCEPT !.pc = "tree"]
<1>1. x \in OpenRecords /\ o # None /\ x.pc = "replayed" /\ x.kind = "session"
  BY DomainFacts DEF IInv
<1>2. Current(o) /\ opens' = [opens EXCEPT ![o] = r]
  BY DEF ReplayReply
<1> HIDE DEF x, n
<1>3. /\ r \in OpenRecords /\ r.kind = x.kind /\ r.thread = x.thread /\ r.view = x.view /\ r.got = x.got
      /\ r.since = x.since /\ r.buffer = x.buffer /\ r.queue = x.queue /\ r.ear = x.ear
      /\ r.pc = "tree"
  BY <1>1 DEF OpenRecords, Stages, Calls
<1> HIDE DEF r
<1>4. Touches(o) /\ opens'[o] = r
  BY <1>2, <1>3, TouchesRecord DEF IInv, x
<1>5. /\ log' = log /\ task' = task /\ unsubs' = unsubs /\ compacts' = compacts
      /\ session' = session /\ active' = active /\ transcript' = transcript /\ applied' = applied
      /\ viewer' = viewer /\ agentView' = agentView /\ agentIds' = agentIds
      /\ unlisten' = unlisten /\ agentOff' = agentOff
  BY <1>1 DEF ReplayReply, shell, screen, x
<1>6. OpenOK(x, n)
  BY DEF IInv, OpensOK, x, n
<1>7. OpenOK(r, log[opens[o].thread])
  <2>1. OpenOK(r, n)
    BY <1>1, <1>3, <1>6 DEF OpenOK, Asking, Deaf
  <2> QED BY <2>1 DEF x, n
<1>8. OpensShape' /\ OpensOK' /\ CompactsOK'
  BY <1>4, <1>5, <1>7, TouchedOpens DEF IInv
<1>9. Pointed'
  BY <1>4, <1>5, TouchedPointed DEF IInv
<1>10. ShellShape' /\ TaskOwned'
  BY <1>3, <1>4, <1>5, TouchedTask DEF IInv, x
<1>11. EarsOwned'
  <2>1. {unlisten, agentOff} \subseteq {None} \cup DOMAIN opens
    BY DEF IInv, Pointed
  <2>2. r.pc \notin Early /\ x.pc \notin Asking
    BY <1>1, <1>3 DEF Early, Asking
  <2>3. r.ear => o \in {unlisten, agentOff}
    BY <1>3, <2>2 DEF IInv, EarsOwned, x
  <2> QED BY <1>4, <1>5, <2>1, <2>2, <2>3 DEF IInv, EarsOwned, Touches
<1>12. ScreenShape' /\ AgentShape'
  BY <1>5 DEF IInv, ScreenShape, AgentShape
<1>13. session = o
  BY <1>1, <1>2 DEF Current, x
<1>14. SessionFacts'
  <2>1. Loaded(session)' => Loaded(session) /\ opens'[session'].view = x.view
    BY <1>1, <1>2, <1>3, <1>4, <1>5, <1>13 DEF Loaded, Stages, Calls, x
  <2>2. SessionOwn'
    BY <1>5, <1>13, <2>1 DEF IInv, SessionFacts, SessionOwn, x
  <2>3. SessionApplied' /\ SessionHeard'
    BY <1>3, <1>4, <1>5, <1>13 DEF SessionApplied, SessionHeard, Hearing, Subscribed
  <2> QED BY <2>2, <2>3 DEF SessionFacts
<1>15. ViewerFacts'
  <2>1. viewer # o
    BY <1>1, <1>13 DEF IInv, Pointed, x
  <2> QED BY <1>4, <1>5, <2>1, ViewerUntouched DEF IInv
<1> QED BY <1>8, <1>9, <1>10, <1>11, <1>12, <1>14, <1>15 DEF IInv

\* The view, the replay and what was heard after it make one run of events.
LEMMA ReplayShown ==
  \A t : \A v \in Nat, g \in Nat, h \in Nat : v <= g /\ g <= h =>
    /\ Show(Upto(t, v), ToSet(Upto(t, v)), Upto(t, g) \o EventsOf(t, g, h)) = Upto(t, h)
    /\ ToSet(Upto(t, v)) \cup ToSet(Upto(t, g) \o EventsOf(t, g, h)) = ToSet(Upto(t, h))
<1> SUFFICES ASSUME NEW t, NEW v \in Nat, NEW g \in Nat, NEW h \in Nat, v <= g, g <= h
             PROVE  /\ Show(Upto(t, v), ToSet(Upto(t, v)), Upto(t, g) \o EventsOf(t, g, h)) = Upto(t, h)
                    /\ ToSet(Upto(t, v)) \cup ToSet(Upto(t, g) \o EventsOf(t, g, h)) = ToSet(Upto(t, h))
  OBVIOUS
<1>1. v <= h /\ 0 \in Nat /\ 0 <= g /\ 0 <= v /\ 0 <= h
  OBVIOUS
<1>2. EventsOf(t, 0, g) \o EventsOf(t, g, h) = EventsOf(t, 0, h)
  BY <1>1, EventsOfJoin
<1>3. Upto(t, g) \o EventsOf(t, g, h) = EventsOf(t, 0, h)
  BY <1>2 DEF Upto
<1>4. Show(Upto(t, v), ToSet(Upto(t, v)), EventsOf(t, 0, h)) = Upto(t, IF v < h THEN h ELSE v)
  BY <1>1, ShowUpto
<1>5. (IF v < h THEN h ELSE v) = h
  BY <1>1
<1>6. ToSet(Upto(t, v)) \subseteq ToSet(Upto(t, h))
  <2> SUFFICES ASSUME NEW e \in ToSet(Upto(t, v)) PROVE e \in ToSet(Upto(t, h))
    OBVIOUS
  <2>1. PICK k \in 1 .. v : e = <<t, k>>
    BY UptoOnly
  <2>2. k \in 1 .. h
    BY <1>1, <2>1
  <2> QED BY <2>1, <2>2, UptoSet
<1>7. Upto(t, h) = EventsOf(t, 0, h)
  BY DEF Upto
<1> QED BY <1>3, <1>4, <1>5, <1>6, <1>7

(* The replay is answered: a viewer shows the agent from its first event.  *)
LEMMA ReplayViewer ==
  ASSUME IInv, NEW o \in DOMAIN opens, opens[o].pc = "replayed", ReplayReply(o),
         opens[o].kind = "viewer"
  PROVE  IInv'
<1> DEFINE x == opens[o]
           t == x.thread
           n == log[t]
           r == [x EXCEPT !.pc = "open", !.got = 0, !.view = 0, !.buffer = <<>>]
           view == Upto(t, x.view)
           replay == Upto(t, x.got)
           live == Fresh(replay, {}, x.buffer)
<1>1. /\ x \in OpenRecords /\ o # None /\ x.pc = "replayed" /\ x.kind = "viewer" /\ t \in Threads
      /\ x.view \in Nat /\ x.got \in Nat
  BY DomainFacts, RecordFacts DEF IInv
<1>2. n \in Nat
  BY <1>1 DEF IInv, ShellShape
<1>3. Current(o) /\ opens' = [opens EXCEPT ![o] = r]
  BY DEF ReplayReply
<1>4. agentView' = Show(view, ToSet(view), replay \o live) /\ agentIds' = ToSet(view) \cup ToSet(replay \o live)
  BY DEF ReplayReply
<1>5. OpenOK(x, n)
  BY DEF IInv, OpensOK
<1> HIDE DEF x, n
<1>6. /\ r \in OpenRecords /\ r.kind = x.kind /\ r.thread = t /\ r.view = 0 /\ r.got = 0
      /\ r.since = x.since /\ r.buffer = <<>> /\ r.queue = x.queue /\ r.ear = x.ear
      /\ r.pc = "open"
  <2>1. <<>> \in Seq(Events)
    OBVIOUS
  <2> QED BY <1>1, <2>1 DEF OpenRecords, Stages, Calls
<1> HIDE DEF r
<1>7. Touches(o) /\ opens'[o] = r
  BY <1>3, <1>6, TouchesRecord DEF IInv, x
<1>8. /\ log' = log /\ task' = task /\ unsubs' = unsubs /\ compacts' = compacts
      /\ session' = session /\ active' = active /\ transcript' = transcript /\ applied' = applied
      /\ viewer' = viewer /\ unlisten' = unlisten /\ agentOff' = agentOff
  BY DEF ReplayReply, shell, screen
<1> HIDE DEF view, replay, live, t
<1>9. x.queue = <<>> /\ x.view <= x.got /\ x.got <= n /\ x.buffer \in Seq({t} \X (1 .. n))
  BY <1>1, <1>5 DEF OpenOK, t
<1>10. OpenOK(r, log[opens[o].thread])
  <2>1. 0 <= n /\ <<>> \in Seq({t} \X (1 .. n))
    BY <1>2
  <2>2. OpenOK(r, n)
    BY <1>5, <1>6, <1>9, <2>1 DEF OpenOK, Asking, Deaf
  <2> QED BY <2>2 DEF x, n, t
<1>11. OpensShape' /\ OpensOK' /\ CompactsOK'
  BY <1>7, <1>8, <1>10, TouchedOpens DEF IInv
<1>12. Pointed'
  BY <1>7, <1>8, TouchedPointed DEF IInv
<1>13. ShellShape' /\ TaskOwned'
  BY <1>6, <1>7, <1>8, TouchedTask DEF IInv, x
<1>14. EarsOwned'
  <2>1. {unlisten, agentOff} \subseteq {None} \cup DOMAIN opens
    BY DEF IInv, Pointed
  <2>2. r.pc \notin Early /\ x.pc \notin Asking
    BY <1>1, <1>6 DEF Early, Asking
  <2>3. r.ear => o \in {unlisten, agentOff}
    BY <1>6, <2>2 DEF IInv, EarsOwned, x
  <2> QED BY <1>7, <1>8, <2>1, <2>2, <2>3 DEF IInv, EarsOwned, Touches
<1>15. ScreenShape'
  BY <1>8 DEF IInv, ScreenShape
<1>16. viewer = o
  BY <1>1, <1>3 DEF Current, x
<1>17. /\ x.buffer \in Seq({t} \X Nat) /\ x.buffer \in Seq({t} \X (Nat \ {0}))
       /\ view \in Seq({t} \X Nat) /\ replay \in Seq({t} \X Nat)
  <2>1. 1 .. n \subseteq Nat /\ 1 .. n \subseteq Nat \ {0}
    BY <1>2
  <2>2. {t} \X (1 .. n) \subseteq {t} \X Nat /\ {t} \X (1 .. n) \subseteq {t} \X (Nat \ {0})
    BY <2>1
  <2>3. ToSet(x.buffer) \subseteq {t} \X (1 .. n)
    BY <1>9, RangeFacts
  <2>4. ToSet(x.buffer) \subseteq {t} \X Nat /\ ToSet(x.buffer) \subseteq {t} \X (Nat \ {0})
    BY <2>2, <2>3
  <2>5. x.buffer \in Seq({t} \X Nat) /\ x.buffer \in Seq({t} \X (Nat \ {0}))
    BY <1>9, <2>4, RangeFacts
  <2>6. view \in Seq({t} \X Nat)
    BY <1>1, UptoFacts DEF view
  <2>7. replay \in Seq({t} \X Nat)
    BY <1>1, UptoFacts DEF replay
  <2> QED BY <2>5, <2>6, <2>7
<1>18. replay \o live \in Seq({t} \X Nat)
  <2>1. live \in Seq({t} \X Nat)
    BY <1>17, FreshFacts DEF live
  <2> QED BY <1>17, <2>1, ConcatFacts
<1>19. agentView' \in Seq({t} \X Nat)
  <2> DEFINE events == replay \o live
  <2>1. events \in Seq({t} \X Nat) /\ agentView' = Show(view, ToSet(view), events)
    BY <1>4, <1>18
  <2> HIDE DEF events
  <2> QED BY <1>17, <2>1, ShowFacts
<1>20. AgentShape'
  <2>1. {t} \X Nat \subseteq Events
    BY <1>1 DEF Events
  <2>2. ToSet(view) \subseteq {t} \X Nat /\ ToSet(replay \o live) \subseteq {t} \X Nat
        /\ ToSet(agentView') \subseteq {t} \X Nat
    BY <1>17, <1>18, <1>19, RangeFacts
  <2>3. agentView' \in Seq(Events)
    BY <1>19, <2>1, <2>2, RangeFacts
  <2>4. agentIds' \subseteq Events
    BY <1>4, <2>1, <2>2
  <2> QED BY <2>3, <2>4 DEF AgentShape
<1>21. SessionFacts'
  <2>1. session # o
    BY <1>1, <1>16 DEF IInv, Pointed, x
  <2> QED BY <1>7, <1>8, <2>1, SessionUntouched DEF IInv
<1>22. ViewerOwn'
  BY <1>6, <1>7, <1>8, <1>16, <1>19 DEF ViewerOwn
<1>23. ViewerBuffered'
  BY <1>6, <1>7, <1>8, <1>16 DEF ViewerBuffered, Waiting
<1>24. ViewerShown'
  <2> SUFFICES ASSUME Hearing(viewer)' PROVE ViewerShown'
    BY DEF ViewerShown
  <2>1. Waiting(viewer) /\ task.by = o
    BY <1>1, <1>6, <1>7, <1>8, <1>16 DEF Hearing, Subscribed, Waiting, x
  <2>2. task # NoTask
    BY <1>1, <2>1 DEF NoTask
  <2>3. task.at \in Nat /\ task.at <= n
    BY <2>1, <2>2 DEF IInv, ShellShape, Tasks, TaskOwned, t, n, x
  <2>4. PICK s \in 0 .. task.at : RunsTo(x.buffer, t, s, task.at) /\ s <= x.got
    BY <1>1, <1>16, <2>1 DEF IInv, ViewerFacts, ViewerBuffered, t, x
  <2> DEFINE a == task.at
             g == x.got
             h == IF g < a THEN a ELSE g
  <2>5. h \in 0 .. n /\ a \in 0 .. h /\ a \in Nat /\ a <= a /\ s \in Nat /\ s <= a
    BY <1>1, <1>2, <1>9, <2>3, <2>4
  <2>6. agentView' = Upto(t, h) /\ agentIds' = ToSet(Upto(t, h))
    <3> DEFINE v == x.view
               b == x.buffer
    <3>1. /\ v \in Nat /\ g \in Nat /\ a \in Nat /\ s \in Nat /\ b \in Seq({t} \X (Nat \ {0}))
          /\ RunsTo(b, t, s, a) /\ s <= a /\ s <= g /\ v <= g
      BY <1>1, <1>9, <1>17, <2>4, <2>5
    <3>2. live = EventsOf(t, g, h)
      <4>1. live = Fresh(Upto(t, g), {}, b)
        BY DEF live, replay
      <4> HIDE DEF v, g, a, b
      <4> QED BY <3>1, <4>1, LiveAfter
    <3>3. h \in Nat /\ g <= h
      BY <3>1
    <3>4. /\ agentView' = Show(Upto(t, v), ToSet(Upto(t, v)), Upto(t, g) \o EventsOf(t, g, h))
          /\ agentIds' = ToSet(Upto(t, v)) \cup ToSet(Upto(t, g) \o EventsOf(t, g, h))
      BY <1>4, <3>2 DEF view, replay
    <3> HIDE DEF v, g, h
    <3> QED BY <3>1, <3>3, <3>4, ReplayShown
  <2> HIDE DEF a, h
  <2>7. EventsOf(t, a, a) = <<>>
    <3>1. EventsOf(t, a, a) \in Seq({t} \X Nat) /\ Len(EventsOf(t, a, a)) = a - a
      BY <2>5, EventsOfFacts
    <3>2. a - a = 0
      BY <2>5
    <3> QED BY <3>1, <3>2
  <2>8. /\ opens'[viewer'].thread = t /\ opens'[viewer'].queue = EventsOf(t, a, task'.at) /\ log'[t] = n
        /\ a <= task'.at
    BY <1>6, <1>7, <1>8, <1>9, <1>16, <2>5, <2>7 DEF a, n
  <2> QED BY <2>5, <2>6, <2>8 DEF ViewerShown
<1> QED BY <1>11, <1>12, <1>13, <1>14, <1>15, <1>20, <1>21, <1>22, <1>23, <1>24 DEF IInv, ViewerFacts

LEMMA ReplayReplyStep ==
  ASSUME IInv, NEW o \in DOMAIN opens, opens[o].pc = "replayed", ReplayReply(o)
  PROVE  IInv'
<1>1. opens[o].kind \in {"session", "viewer"}
  BY DomainFacts, RecordFacts DEF IInv
<1> QED BY <1>1, ReplaySession, ReplayViewer

(* The agent tree is answered: the view and what was heard are shown, the  *)
(* replay counts as applied.                                               *)
LEMMA TreeReplyStep ==
  ASSUME IInv, NEW o \in DOMAIN opens, opens[o].pc = "tree", TreeReply(o)
  PROVE  IInv'
<1> DEFINE x == opens[o]
           t == x.thread
           n == log[t]
           r == [x EXCEPT !.pc = "open", !.got = 0, !.buffer = <<>>, !.since = n]
           view == Upto(t, x.view)
<1>1. /\ x \in OpenRecords /\ o # None /\ x.pc = "tree" /\ t \in Threads
      /\ x.view \in Nat /\ x.got \in Nat /\ x.kind \in {"session", "viewer"}
  BY DomainFacts, RecordFacts DEF IInv
<1>2. n \in Nat
  BY <1>1 DEF IInv, ShellShape
<1>3. Current(o) /\ opens' = [opens EXCEPT ![o] = r]
  BY DEF TreeReply
<1>4. /\ transcript' = Show(view, ToSet(view), x.buffer)
      /\ applied' = ToSet(view) \cup ToSet(x.buffer) \cup ToSet(Upto(t, x.got))
  BY DEF TreeReply
<1>5. OpenOK(x, n)
  BY DEF IInv, OpensOK
<1> HIDE DEF x, n
<1>6. /\ r \in OpenRecords /\ r.kind = x.kind /\ r.thread = t /\ r.view = x.view /\ r.got = 0
      /\ r.since = n /\ r.buffer = <<>> /\ r.queue = x.queue /\ r.ear = x.ear
      /\ r.pc = "open"
  <2>1. <<>> \in Seq(Events)
    OBVIOUS
  <2> QED BY <1>1, <1>2, <2>1 DEF OpenRecords, Stages, Calls
<1> HIDE DEF r
<1>7. Touches(o) /\ opens'[o] = r
  BY <1>3, <1>6, TouchesRecord DEF IInv, x
<1>8. /\ log' = log /\ task' = task /\ unsubs' = unsubs /\ compacts' = compacts
      /\ session' = session /\ active' = active /\ agentView' = agentView /\ agentIds' = agentIds
      /\ viewer' = viewer /\ unlisten' = unlisten /\ agentOff' = agentOff
  BY DEF TreeReply, shell, agent
<1> HIDE DEF view, t
<1>9. x.got <= n /\ x.view <= n /\ x.buffer \in Seq({t} \X (1 .. n))
  BY <1>1, <1>5 DEF OpenOK, t
<1>10. OpenOK(r, log[opens[o].thread])
  <2>1. 0 <= n /\ n <= n /\ <<>> \in Seq({t} \X (1 .. n))
    BY <1>2
  <2>2. OpenOK(r, n)
    BY <1>5, <1>6, <1>9, <2>1 DEF OpenOK, Asking, Deaf, t
  <2> QED BY <2>2 DEF x, n, t
<1>11. OpensShape' /\ OpensOK' /\ CompactsOK'
  BY <1>7, <1>8, <1>10, TouchedOpens DEF IInv
<1>12. Pointed'
  BY <1>7, <1>8, TouchedPointed DEF IInv
<1>13. ShellShape' /\ TaskOwned'
  BY <1>6, <1>7, <1>8, TouchedTask DEF IInv, x
<1>14. EarsOwned'
  <2>1. {unlisten, agentOff} \subseteq {None} \cup DOMAIN opens
    BY DEF IInv, Pointed
  <2>2. r.pc \notin Early /\ x.pc \notin Asking
    BY <1>1, <1>6 DEF Early, Asking
  <2>3. r.ear => o \in {unlisten, agentOff}
    BY <1>6, <2>2 DEF IInv, EarsOwned, x
  <2> QED BY <1>7, <1>8, <2>1, <2>2, <2>3 DEF IInv, EarsOwned, Touches
<1>15. AgentShape'
  BY <1>8 DEF IInv, AgentShape
<1>16. /\ ToSet(view) \subseteq {t} \X (1 .. n) /\ ToSet(x.buffer) \subseteq {t} \X (1 .. n)
       /\ ToSet(Upto(t, x.got)) \subseteq {t} \X (1 .. n)
  <2>1. ToSet(x.buffer) \subseteq {t} \X (1 .. n)
    BY <1>9, RangeFacts
  <2>2. \A v \in Nat : v <= n => {t} \X (1 .. v) \subseteq {t} \X (1 .. n)
    BY <1>2
  <2>3. ToSet(view) \subseteq {t} \X (1 .. x.view) /\ ToSet(Upto(t, x.got)) \subseteq {t} \X (1 .. x.got)
    BY <1>1, UptoOnly DEF view
  <2>4. /\ {t} \X (1 .. x.view) \subseteq {t} \X (1 .. n)
        /\ {t} \X (1 .. x.got) \subseteq {t} \X (1 .. n)
    BY <1>1, <1>9, <2>2
  <2> QED BY <2>1, <2>3, <2>4
<1>17. {t} \X (1 .. n) \subseteq {t} \X Nat /\ {t} \X Nat \subseteq Events
  BY <1>1, <1>2 DEF Events
<1>18. transcript' \in Seq({t} \X Nat) /\ ToSet(view) \subseteq ToSet(transcript')
  <2>1. view \in Seq({t} \X Nat)
    BY <1>1, UptoFacts DEF view
  <2>2. ToSet(x.buffer) \subseteq {t} \X Nat
    BY <1>16, <1>17
  <2>3. x.buffer \in Seq({t} \X Nat)
    BY <1>9, <2>2, RangeFacts
  <2> QED BY <1>4, <2>1, <2>3, ShowFacts
<1>19. ScreenShape'
  <2>1. ToSet(transcript') \subseteq {t} \X Nat
    BY <1>18, RangeFacts
  <2>2. transcript' \in Seq(Events)
    BY <1>17, <1>18, <2>1, RangeFacts
  <2>3. applied' \subseteq Events
    BY <1>4, <1>16, <1>17
  <2> QED BY <1>8, <2>2, <2>3 DEF IInv, ScreenShape
<1>20. SessionFacts'
  <2>1. CASE session = o
    <3>1. active = t
      BY <1>1, <1>3, <2>1 DEF IInv, Pointed, Current, x, t
    <3>2. SessionOwn'
      BY <1>6, <1>7, <1>8, <1>18, <2>1, <3>1 DEF SessionOwn, view
    <3>3. \A e \in applied' : ~(e[2] > n)
      <4>1. applied' \subseteq {t} \X (1 .. n)
        BY <1>4, <1>16
      <4>2. \A e \in {t} \X (1 .. n) : ~(e[2] > n)
        BY <1>2
      <4> QED BY <4>1, <4>2
    <3>4. SessionApplied'
      BY <1>6, <1>7, <1>8, <2>1, <3>3 DEF SessionApplied
    <3>5. SessionHeard'
      <4> SUFFICES ASSUME Hearing(session)' PROVE SessionHeard'
        BY DEF SessionHeard
      <4>1. task.by = o
        BY <1>8, <2>1 DEF Hearing, Subscribed
      <4>2. task # NoTask
        BY <1>1, <4>1 DEF NoTask
      <4>3. task.at \in Nat /\ task.at <= n
        BY <4>1, <4>2 DEF IInv, ShellShape, Tasks, TaskOwned, t, n, x
      <4>4. ToSet(EventsOf(t, n, task.at)) = {}
        <5>1. \A e : e \in ToSet(EventsOf(t, n, task.at)) <=> \E k \in Nat : n < k /\ k <= task.at /\ e = <<t, k>>
          BY <1>2, <4>3, EventsOfSet
        <5>2. \A k \in Nat : ~(n < k /\ k <= task.at)
          BY <1>2, <4>3
        <5> QED BY <5>1, <5>2
      <4> QED BY <1>6, <1>7, <1>8, <2>1, <4>4 DEF SessionHeard
    <3> QED BY <3>2, <3>4, <3>5 DEF SessionFacts
  <2>2. session = o
    BY <1>1, <1>3, <1>5 DEF OpenOK, Current, x
  <2> QED BY <2>1, <2>2
<1>21. ViewerFacts'
  <2>1. viewer # o
    BY <1>1, <1>5 DEF IInv, Pointed, OpenOK, x
  <2> QED BY <1>7, <1>8, <2>1, ViewerUntouched DEF IInv
<1> QED BY <1>11, <1>12, <1>13, <1>14, <1>15, <1>19, <1>20, <1>21 DEF IInv

-----------------------------------------------------------------------------
(* The steps that leave the opens alone.                                   *)

LEMMA StillFacts ==
  ASSUME IInv, opens' = opens, session' = session, active' = active, transcript' = transcript,
         applied' = applied, unlisten' = unlisten, viewer' = viewer, agentView' = agentView,
         agentIds' = agentIds, agentOff' = agentOff, task' \in {task, NoTask} \/ task'.lagged,
         log' \in [Threads -> Nat], \A t \in Threads : log[t] <= log'[t]
  PROVE  Pointed' /\ EarsOwned' /\ ScreenShape' /\ AgentShape' /\ SessionFacts' /\ ViewerFacts'
<1>1. Pointed' /\ EarsOwned' /\ ScreenShape' /\ AgentShape'
  BY DEF IInv, Pointed, EarsOwned, ScreenShape, AgentShape
<1>2. \A o : o # None /\ task'.by = o => task' = task \/ task'.lagged
  BY DEF NoTask
<1>3. SessionFacts'
  BY <1>2, SessionKept DEF IInv, Keeps
<1>4. ViewerFacts'
  BY <1>2, ViewerKept DEF IInv, Keeps
<1> QED BY <1>1, <1>3, <1>4

LEMMA CompactFacts ==
  ASSUME OpensShape, CompactsOK, NEW c \in DOMAIN compacts
  PROVE  /\ compacts \in Seq(CompactRecords)
         /\ compacts[c].thread \in Threads /\ compacts[c].got \in Nat
         /\ compacts[c].pc \in {"replaying", "replayed", "over"}
         /\ compacts[c].got <= log[compacts[c].thread]
<1>1. compacts[c] \in CompactRecords
  BY DEF OpensShape
<1> QED BY <1>1 DEF OpensShape, CompactsOK, CompactRecords

LEMMA CompactActiveThreadStep ==
  ASSUME IInv, CompactActiveThread
  PROVE  IInv'
<1> DEFINE r == [thread |-> active, got |-> 0, pc |-> "replaying"]
<1>1. /\ active \in Threads /\ compacts' = Append(compacts, r) /\ compacts \in Seq(CompactRecords)
  BY DEF IInv, ScreenShape, CompactActiveThread, OpensShape
<1>2. /\ opens' = opens /\ session' = session /\ active' = active /\ transcript' = transcript
      /\ applied' = applied /\ unlisten' = unlisten /\ viewer' = viewer /\ agentView' = agentView
      /\ agentIds' = agentIds /\ agentOff' = agentOff /\ task' = task /\ log' = log /\ unsubs' = unsubs
  BY DEF CompactActiveThread, shell, screen, agent
<1>3. log' \in [Threads -> Nat] /\ \A t \in Threads : log[t] <= log'[t]
  BY <1>2 DEF IInv, ShellShape
<1>4. Pointed' /\ EarsOwned' /\ ScreenShape' /\ AgentShape' /\ SessionFacts' /\ ViewerFacts'
  BY <1>2, <1>3, StillFacts
<1>5. ShellShape' /\ OpensOK' /\ TaskOwned'
  BY <1>2 DEF IInv, ShellShape, OpensOK, TaskOwned
<1>6. r \in CompactRecords /\ r.got = 0 /\ r.thread = active
  BY <1>1 DEF CompactRecords
<1> HIDE DEF r
<1>7. /\ compacts' \in Seq(CompactRecords) /\ DOMAIN compacts' = DOMAIN compacts \cup {Len(compacts) + 1}
      /\ \A c \in DOMAIN compacts : compacts'[c] = compacts[c]
      /\ compacts'[Len(compacts) + 1] = r
  BY <1>1, <1>6
<1>8. CompactsOK'
  <2>1. log[active] \in Nat
    BY <1>1 DEF IInv, ShellShape
  <2>2. 0 <= log[active]
    BY <2>1
  <2> QED BY <1>2, <1>6, <1>7, <2>2 DEF IInv, CompactsOK
<1>9. OpensShape'
  BY <1>2, <1>7 DEF IInv, OpensShape
<1> QED BY <1>4, <1>5, <1>8, <1>9 DEF IInv

LEMMA ServeCompactStep ==
  ASSUME IInv, NEW c \in DOMAIN compacts, ServeCompact(c)
  PROVE  IInv'
<1> DEFINE x == compacts[c]
           n == log[x.thread]
           r == [x EXCEPT !.pc = "replayed", !.got = n]
<1>1. x \in CompactRecords /\ x.thread \in Threads /\ compacts \in Seq(CompactRecords)
  <2>1. compacts[c] \in CompactRecords
    BY DEF IInv, OpensShape
  <2> QED BY <2>1, CompactFacts DEF IInv
<1>2. n \in Nat /\ n <= n
  BY <1>1 DEF IInv, ShellShape
<1>3. /\ opens' = opens /\ session' = session /\ active' = active /\ transcript' = transcript
      /\ applied' = applied /\ unlisten' = unlisten /\ viewer' = viewer /\ agentView' = agentView
      /\ agentIds' = agentIds /\ agentOff' = agentOff /\ task' = task /\ log' = log /\ unsubs' = unsubs
  BY DEF ServeCompact, shell, screen, agent
<1>4. log' \in [Threads -> Nat] /\ \A t \in Threads : log[t] <= log'[t]
  BY <1>3 DEF IInv, ShellShape
<1>5. Pointed' /\ EarsOwned' /\ ScreenShape' /\ AgentShape' /\ SessionFacts' /\ ViewerFacts'
  BY <1>3, <1>4, StillFacts
<1>6. ShellShape' /\ OpensOK' /\ TaskOwned'
  BY <1>3 DEF IInv, ShellShape, OpensOK, TaskOwned
<1> HIDE DEF x, n
<1>7. r \in CompactRecords /\ r.got = n /\ r.thread = x.thread
  BY <1>1, <1>2 DEF CompactRecords
<1> HIDE DEF r
<1>8. compacts' = [compacts EXCEPT ![c] = r]
  BY DEF ServeCompact, r, x, n
<1>9. /\ compacts' \in Seq(CompactRecords) /\ DOMAIN compacts' = DOMAIN compacts
      /\ \A d \in DOMAIN compacts : compacts'[d] = IF d = c THEN r ELSE compacts[d]
  BY <1>1, <1>7, <1>8
<1>10. CompactsOK'
  BY <1>2, <1>3, <1>7, <1>9 DEF IInv, CompactsOK, n
<1>11. OpensShape'
  BY <1>3, <1>9 DEF IInv, OpensShape
<1> QED BY <1>5, <1>6, <1>10, <1>11 DEF IInv

(* The replay after a compaction goes on the screen of its own thread.     *)
LEMMA CompactReplyStep ==
  ASSUME IInv, NEW c \in DOMAIN compacts, CompactReply(c)
  PROVE  IInv'
<1> DEFINE x == compacts[c]
           r == [x EXCEPT !.pc = "over"]
           events == Upto(x.thread, x.got)
<1>1. /\ x \in CompactRecords /\ compacts \in Seq(CompactRecords)
      /\ x.thread \in Threads /\ x.got \in Nat /\ x.got <= log[x.thread]
  <2>1. compacts[c] \in CompactRecords
    BY DEF IInv, OpensShape
  <2> QED BY <2>1, CompactFacts DEF IInv
<1>2. /\ opens' = opens /\ session' = session /\ active' = active
      /\ unlisten' = unlisten /\ viewer' = viewer /\ agentView' = agentView
      /\ agentIds' = agentIds /\ agentOff' = agentOff /\ task' = task /\ log' = log /\ unsubs' = unsubs
  BY DEF CompactReply, shell, agent
<1>3. IF active = x.thread
      THEN transcript' = Show(transcript, applied, events) /\ applied' = applied \cup ToSet(events)
      ELSE transcript' = transcript /\ applied' = applied
  BY DEF CompactReply
<1> HIDE DEF x
<1>4. r \in CompactRecords /\ r.got = x.got /\ r.thread = x.thread
  BY <1>1 DEF CompactRecords
<1> HIDE DEF r
<1>5. compacts' = [compacts EXCEPT ![c] = r]
  BY DEF CompactReply, r, x
<1>6. /\ compacts' \in Seq(CompactRecords) /\ DOMAIN compacts' = DOMAIN compacts
      /\ \A d \in DOMAIN compacts : compacts'[d] = IF d = c THEN r ELSE compacts[d]
  BY <1>1, <1>4, <1>5
<1>7. OpensShape' /\ CompactsOK'
  BY <1>1, <1>2, <1>4, <1>6 DEF IInv, OpensShape, CompactsOK
<1>8. ShellShape' /\ OpensOK' /\ TaskOwned' /\ Pointed' /\ EarsOwned' /\ AgentShape'
  BY <1>2 DEF IInv, ShellShape, OpensOK, TaskOwned, Pointed, EarsOwned, AgentShape
<1>9. log' \in [Threads -> Nat] /\ \A t \in Threads : log[t] <= log'[t]
  BY <1>2 DEF IInv, ShellShape
<1>10. ViewerFacts'
  BY <1>2, <1>9, ViewerKept DEF IInv, Keeps
<1>11. events \in Seq({x.thread} \X Nat)
  BY <1>1, UptoFacts
<1> HIDE DEF events
<1>12. CASE active # x.thread
  <2>1. ScreenShape'
    BY <1>2, <1>3, <1>12 DEF IInv, ScreenShape
  <2>2. SessionFacts'
    BY <1>2, <1>3, <1>12, SessionKept DEF IInv, Keeps
  <2> QED BY <1>7, <1>8, <1>10, <2>1, <2>2 DEF IInv
<1>13. CASE active = x.thread /\ session # None /\ Current(session)
  <2>1. opens[session].thread = active
    BY <1>13 DEF IInv, Pointed, Current
  <2>2. events \in Seq({opens[session].thread} \X Nat)
    BY <1>11, <1>13, <2>1
  <2>3. transcript' = Show(transcript, applied, events) /\ applied' = applied \cup ToSet(events)
    BY <1>3, <1>13
  <2>4. /\ ScreenShape' /\ SessionOwn' /\ SessionApplied'
        /\ ToSet(transcript) \subseteq ToSet(transcript')
    BY <1>2, <1>13, <2>2, <2>3, SessionShows
  <2>5. SessionHeard'
    <3>1. Hearing(session)' => Hearing(session)
      BY <1>2 DEF Hearing, Subscribed, Current
    <3> QED BY <1>2, <2>4, <3>1 DEF IInv, SessionFacts, SessionHeard
  <2> QED BY <1>7, <1>8, <1>10, <2>4, <2>5 DEF IInv, SessionFacts
<1>14. CASE active = x.thread /\ ~(session # None /\ Current(session))
  <2>1. ToSet(events) \subseteq Events /\ events \in Seq(Events)
    <3>1. {x.thread} \X Nat \subseteq Events
      BY <1>1 DEF Events
    <3>2. ToSet(events) \subseteq {x.thread} \X Nat
      BY <1>11, RangeFacts
    <3>3. ToSet(events) \subseteq Events
      BY <3>1, <3>2
    <3> QED BY <1>11, <3>3, RangeFacts
  <2>2. transcript \in Seq(Events) /\ applied \subseteq Events
    BY DEF IInv, ScreenShape
  <2>3. transcript' \in Seq(Events)
    BY <1>3, <1>14, <2>1, <2>2, ShowFacts
  <2>4. ScreenShape'
    BY <1>2, <1>3, <1>14, <2>1, <2>2, <2>3 DEF IInv, ScreenShape
  <2>5. ~(session # None /\ Current(session))'
    BY <1>2, <1>14 DEF Current
  <2>6. ~Loaded(session)' /\ ~Hearing(session)'
    BY <2>5 DEF Loaded, Hearing, Subscribed
  <2>7. SessionFacts'
    BY <2>6 DEF SessionFacts, SessionOwn, SessionApplied, SessionHeard
  <2> QED BY <1>7, <1>8, <1>10, <2>4, <2>7 DEF IInv
<1> QED BY <1>12, <1>13, <1>14

LEMMA EmitStep ==
  ASSUME IInv, NEW t \in Threads, Emit(t)
  PROVE  IInv'
<1>1. /\ opens' = opens /\ session' = session /\ active' = active /\ transcript' = transcript
      /\ applied' = applied /\ unlisten' = unlisten /\ viewer' = viewer /\ agentView' = agentView
      /\ agentIds' = agentIds /\ agentOff' = agentOff /\ task' = task /\ unsubs' = unsubs
      /\ compacts' = compacts
  BY DEF Emit, screen, agent
<1>2. log \in [Threads -> Nat] /\ (\A u \in Threads : log[u] <= MaxEvents) /\ MaxEvents \in Nat
  BY StoreAssumption DEF IInv, ShellShape
<1>3. log' = [log EXCEPT ![t] = @ + 1] /\ log[t] < MaxEvents
  BY DEF Emit
<1>4. /\ log' \in [Threads -> Nat] /\ \A u \in Threads : log[u] <= log'[u] /\ log'[u] <= MaxEvents
      /\ \A u \in Threads : log[u] \in Nat /\ log'[u] \in Nat
  BY <1>2, <1>3
<1>5. Pointed' /\ EarsOwned' /\ ScreenShape' /\ AgentShape' /\ SessionFacts' /\ ViewerFacts'
  BY <1>1, <1>4, StillFacts
<1>6. ShellShape'
  BY <1>1, <1>4 DEF IInv, ShellShape
<1>7. OpensShape'
  BY <1>1 DEF IInv, OpensShape
<1>8. OpensOK'
  <2> SUFFICES ASSUME NEW o \in DOMAIN opens PROVE OpenOK(opens[o], log'[opens[o].thread])
    BY <1>1 DEF OpensOK
  <2>1. opens[o] \in OpenRecords /\ opens[o].thread \in Threads
    BY DomainFacts, RecordFacts DEF IInv
  <2>2. OpenOK(opens[o], log[opens[o].thread])
    BY DEF IInv, OpensOK
  <2> QED BY <1>4, <2>1, <2>2, OpenOKGrows
<1>9. CompactsOK'
  <2> SUFFICES ASSUME NEW c \in DOMAIN compacts PROVE compacts[c].got <= log'[compacts[c].thread]
    BY <1>1 DEF CompactsOK
  <2>1. /\ compacts[c].thread \in Threads /\ compacts[c].got \in Nat
        /\ compacts[c].got <= log[compacts[c].thread]
    BY CompactFacts DEF IInv
  <2> QED BY <1>4, <2>1
<1>10. TaskOwned'
  <2> SUFFICES ASSUME task # NoTask
               PROVE  /\ task.thread = opens[task.by].thread /\ task.at <= log'[task.thread]
                      /\ opens[task.by].pc \notin {"reading", "read", "subscribing"}
                      /\ opens[task.by].ear \/ unsubs[task.thread] > 0
    BY <1>1 DEF TaskOwned
  <2>1. /\ task.thread \in Threads /\ task.at \in Nat /\ task.thread = opens[task.by].thread
        /\ task.at <= log[task.thread]
        /\ opens[task.by].pc \notin {"reading", "read", "subscribing"}
        /\ opens[task.by].ear \/ unsubs[task.thread] > 0
    BY DEF IInv, ShellShape, TaskOwned, Tasks
  <2>2. task.at <= log'[task.thread]
    BY <1>4, <2>1
  <2> QED BY <2>1, <2>2
<1> QED BY <1>5, <1>6, <1>7, <1>8, <1>9, <1>10 DEF IInv

(* The task of a thread ends with the first call that names the thread.    *)
LEMMA UnsubscribeStep ==
  ASSUME IInv, NEW t \in Threads, Unsubscribe(t)
  PROVE  IInv'
<1>1. /\ opens' = opens /\ session' = session /\ active' = active /\ transcript' = transcript
      /\ applied' = applied /\ unlisten' = unlisten /\ viewer' = viewer /\ agentView' = agentView
      /\ agentIds' = agentIds /\ agentOff' = agentOff /\ log' = log /\ compacts' = compacts
  BY DEF Unsubscribe, screen, agent
<1>2. /\ unsubs[t] > 0 /\ unsubs' = [unsubs EXCEPT ![t] = @ - 1]
      /\ task' = IF task.thread = t THEN NoTask ELSE task
  BY DEF Unsubscribe
<1>3. unsubs \in [Threads -> Nat] /\ unsubs[t] \in Nat
  BY DEF IInv, ShellShape
<1>4. unsubs' \in [Threads -> Nat] /\ \A u \in Threads : u # t => unsubs'[u] = unsubs[u]
  BY <1>2, <1>3
<1>5. task' \in {task, NoTask} /\ (task' # NoTask => task' = task /\ task.thread # t)
  BY <1>2
<1>6. log' \in [Threads -> Nat] /\ \A u \in Threads : log[u] <= log'[u]
  BY <1>1 DEF IInv, ShellShape
<1>7. Pointed' /\ EarsOwned' /\ ScreenShape' /\ AgentShape' /\ SessionFacts' /\ ViewerFacts'
  BY <1>1, <1>5, <1>6, StillFacts
<1>8. ShellShape'
  BY <1>1, <1>4, <1>5 DEF IInv, ShellShape
<1>9. OpensShape' /\ OpensOK' /\ CompactsOK'
  BY <1>1 DEF IInv, OpensShape, OpensOK, CompactsOK
<1>10. TaskOwned'
  <2> SUFFICES ASSUME task' # NoTask
               PROVE  /\ task.thread = opens[task.by].thread /\ task.at <= log[task.thread]
                      /\ opens[task.by].pc \notin {"reading", "read", "subscribing"}
                      /\ opens[task.by].ear \/ unsubs'[task.thread] > 0
    BY <1>1, <1>5 DEF TaskOwned
  <2>1. task # NoTask /\ task.thread # t /\ task.thread \in Threads
    BY <1>5 DEF IInv, ShellShape, Tasks
  <2>2. unsubs'[task.thread] = unsubs[task.thread]
    BY <1>4, <2>1
  <2> QED BY <2>1, <2>2 DEF IInv, TaskOwned
<1> QED BY <1>7, <1>8, <1>9, <1>10 DEF IInv

-----------------------------------------------------------------------------
(* The task skips what it missed, or ends with its runtime.                *)

LEMMA LagStep ==
  ASSUME IInv, Lag
  PROVE  IInv'
<1>1. /\ log' = log /\ unsubs' = unsubs /\ opens' = opens /\ session' = session /\ active' = active
      /\ transcript' = transcript /\ applied' = applied /\ unlisten' = unlisten /\ viewer' = viewer
      /\ agentView' = agentView /\ agentIds' = agentIds /\ agentOff' = agentOff /\ compacts' = compacts
  BY DEF Lag, screen, agent
<1>2. PICK n \in task.at + 1 .. log[task.thread] - 1 : task' = [task EXCEPT !.at = n, !.lagged = TRUE]
  BY DEF Lag
<1>3. /\ task # NoTask /\ task \in Tasks /\ task.at \in Nat /\ log[task.thread] \in Nat
      /\ task.by \in DOMAIN opens /\ log \in [Threads -> Nat]
  BY DEF Lag, IInv, ShellShape, Tasks
<1>4. n \in Nat /\ n <= log[task.thread]
  BY <1>2, <1>3
<1>5. task' \in Tasks /\ task'.thread = task.thread /\ task'.at = n /\ task'.by = task.by /\ task'.lagged
  BY <1>2, <1>3, <1>4 DEF Tasks
<1>6. Pointed' /\ EarsOwned' /\ ScreenShape' /\ AgentShape' /\ SessionFacts' /\ ViewerFacts'
  <2>1. log' \in [Threads -> Nat] /\ \A t \in Threads : log[t] <= log'[t]
    BY <1>1, <1>3
  <2> QED BY <1>1, <1>5, <2>1, StillFacts
<1>7. ShellShape'
  BY <1>1, <1>3, <1>5 DEF IInv, ShellShape
<1>8. OpensShape' /\ OpensOK' /\ CompactsOK'
  BY <1>1 DEF IInv, OpensShape, OpensOK, CompactsOK
<1>9. TaskOwned'
  BY <1>1, <1>3, <1>4, <1>5 DEF IInv, TaskOwned
<1> QED BY <1>6, <1>7, <1>8, <1>9 DEF IInv

LEMMA ForwardEndsStep ==
  ASSUME IInv, ForwardEnds
  PROVE  IInv'
<1>1. /\ log' = log /\ unsubs' = unsubs /\ opens' = opens /\ session' = session /\ active' = active
      /\ transcript' = transcript /\ applied' = applied /\ unlisten' = unlisten /\ viewer' = viewer
      /\ agentView' = agentView /\ agentIds' = agentIds /\ agentOff' = agentOff /\ compacts' = compacts
      /\ task' = NoTask
  BY DEF ForwardEnds, screen, agent
<1>2. log' \in [Threads -> Nat] /\ \A t \in Threads : log[t] <= log'[t]
  BY <1>1 DEF IInv, ShellShape
<1>3. Pointed' /\ EarsOwned' /\ ScreenShape' /\ AgentShape' /\ SessionFacts' /\ ViewerFacts'
  BY <1>1, <1>2, StillFacts
<1>4. ShellShape' /\ OpensShape' /\ OpensOK' /\ CompactsOK' /\ TaskOwned'
  BY <1>1 DEF IInv, ShellShape, OpensShape, OpensOK, CompactsOK, TaskOwned
<1> QED BY <1>3, <1>4 DEF IInv

-----------------------------------------------------------------------------
(* The task forwards an event.                                             *)

LEMMA AppendFacts ==
  ASSUME NEW S, NEW s \in Seq(S), NEW e \in S
  PROVE  /\ Append(s, e) \in Seq(S) /\ Len(Append(s, e)) = Len(s) + 1 /\ Len(s) \in Nat
         /\ \A i \in 1 .. Len(s) : Append(s, e)[i] = s[i]
         /\ Append(s, e)[Len(s) + 1] = e
         /\ ToSet(Append(s, e)) = ToSet(s) \cup {e}
<1>1. /\ Append(s, e) \in Seq(S) /\ Len(Append(s, e)) = Len(s) + 1 /\ Len(s) \in Nat
      /\ \A i \in 1 .. Len(s) : Append(s, e)[i] = s[i]
      /\ Append(s, e)[Len(s) + 1] = e
      /\ DOMAIN s = 1 .. Len(s) /\ DOMAIN Append(s, e) = 1 .. (Len(s) + 1)
  OBVIOUS
<1>2. \A i \in 1 .. (Len(s) + 1) : i \in 1 .. Len(s) \/ i = Len(s) + 1
  BY <1>1
<1>3. 1 .. Len(s) \subseteq 1 .. (Len(s) + 1) /\ Len(s) + 1 \in 1 .. (Len(s) + 1)
  BY <1>1
<1>4. ToSet(Append(s, e)) = ToSet(s) \cup {e}
  <2> DEFINE y == Append(s, e)
  <2> HIDE DEF y
  <2>1. ASSUME NEW d \in ToSet(y) PROVE d \in ToSet(s) \cup {e}
    <3>1. PICK i \in DOMAIN y : d = y[i]
      BY <2>1 DEF ToSet
    <3>2. i \in 1 .. Len(s) \/ i = Len(s) + 1
      BY <1>1, <1>2, <3>1 DEF y
    <3> QED BY <1>1, <3>1, <3>2 DEF ToSet, y
  <2>2. ASSUME NEW d \in ToSet(s) PROVE d \in ToSet(y)
    <3>1. PICK i \in 1 .. Len(s) : d = s[i]
      BY <1>1, <2>2 DEF ToSet
    <3>2. i \in DOMAIN y /\ y[i] = d
      BY <1>1, <1>3, <3>1 DEF y
    <3> QED BY <3>2 DEF ToSet
  <2>3. e \in ToSet(y)
    <3>1. Len(s) + 1 \in DOMAIN y /\ y[Len(s) + 1] = e
      BY <1>1, <1>3 DEF y
    <3> QED BY <3>1 DEF ToSet
  <2>4. ToSet(y) = ToSet(s) \cup {e}
    BY <2>1, <2>2, <2>3
  <2> QED BY <2>4 DEF y
<1> QED BY <1>1, <1>4

LEMMA RunsToNext ==
  ASSUME NEW t, NEW buffer \in Seq({t} \X Nat), NEW a \in Nat, NEW s \in 0 .. a, RunsTo(buffer, t, s, a)
  PROVE  RunsTo(Append(buffer, <<t, a + 1>>), t, s, a + 1)
<1> DEFINE y == Append(buffer, <<t, a + 1>>)
           L == Len(buffer)
<1>1. PICK n \in 0 .. Len(buffer) :
        /\ Len(buffer) = n + (a - s)
        /\ \A i \in 1 .. n : buffer[i][2] <= s
        /\ \A i \in 1 .. (a - s) : buffer[n + i] = <<t, s + i>>
  BY DEF RunsTo
<1>2. <<t, a + 1>> \in {t} \X Nat
  OBVIOUS
<1>3. Len(y) = L + 1 /\ L \in Nat /\ (\A i \in 1 .. L : y[i] = buffer[i]) /\ y[L + 1] = <<t, a + 1>>
  BY <1>2, AppendFacts
<1>4. L = n + (a - s)
  BY <1>1
<1> HIDE DEF y, L
<1>5. n \in 0 .. Len(y) /\ Len(y) = n + ((a + 1) - s) /\ n \in Nat
  BY <1>1, <1>3, <1>4 DEF L
<1>6. \A i \in 1 .. n : y[i][2] <= s
  <2> SUFFICES ASSUME NEW i \in 1 .. n PROVE y[i][2] <= s
    OBVIOUS
  <2>1. i \in 1 .. L
    BY <1>3, <1>4, <1>5
  <2> QED BY <1>1, <1>3, <2>1
<1>7. \A i \in 1 .. ((a + 1) - s) : y[n + i] = <<t, s + i>>
  <2> SUFFICES ASSUME NEW i \in 1 .. ((a + 1) - s) PROVE y[n + i] = <<t, s + i>>
    OBVIOUS
  <2>1. CASE i \in 1 .. (a - s)
    <3>1. n + i \in 1 .. L
      BY <1>3, <1>4, <1>5, <2>1
    <3> QED BY <1>1, <1>3, <2>1, <3>1
  <2>2. CASE i = (a + 1) - s
    <3>1. n + i = L + 1 /\ s + i = a + 1
      BY <1>3, <1>4, <1>5, <2>2
    <3> QED BY <1>3, <3>1
  <2>3. i \in 1 .. (a - s) \/ i = (a + 1) - s
    OBVIOUS
  <2> QED BY <2>1, <2>2, <2>3
<1>8. RunsTo(y, t, s, a + 1)
  BY <1>5, <1>6, <1>7 DEF RunsTo
<1> QED BY <1>8 DEF y

\* Who takes the event into its frames, and who into its buffer.
Takes(o, e) == opens[o].ear /\ Current(o) /\ e[1] = opens[o].thread
Heard(r, s, o, e) ==
  /\ r \in OpenRecords /\ r.kind = s.kind /\ r.thread = s.thread /\ r.pc = s.pc /\ r.got = s.got
  /\ r.view = s.view /\ r.since = s.since /\ r.ear = s.ear
  /\ r.queue = (IF Takes(o, e) /\ s.pc \in {"tree", "open"} THEN Append(s.queue, e) ELSE s.queue)
  /\ r.buffer = (IF Takes(o, e) /\ s.pc \notin {"tree", "open"} THEN Append(s.buffer, e) ELSE s.buffer)

LEMMA HearFacts ==
  ASSUME OpensShape, NEW o \in DOMAIN opens, NEW e \in Events
  PROVE  Heard(Hear(o, e), opens[o], o, e)
<1> DEFINE x == opens[o]
<1>1. x \in OpenRecords
  BY DomainFacts
<1>2. x.queue \in Seq(Events) /\ x.buffer \in Seq(Events)
  BY <1>1, RecordFacts
<1>3. Append(x.queue, e) \in Seq(Events) /\ Append(x.buffer, e) \in Seq(Events)
  BY <1>2
<1>4. CASE ~Takes(o, e)
  <2>1. Hear(o, e) = x
    BY <1>4 DEF Hear, Takes
  <2> QED BY <1>1, <1>4, <2>1 DEF Heard
<1>5. CASE Takes(o, e) /\ x.pc \in {"tree", "open"}
  <2>1. Hear(o, e) = [x EXCEPT !.queue = Append(@, e)]
    BY <1>5 DEF Hear, Takes
  <2> HIDE DEF x
  <2>2. Heard([x EXCEPT !.queue = Append(@, e)], x, o, e)
    BY <1>1, <1>3, <1>5 DEF Heard, OpenRecords
  <2> QED BY <2>1, <2>2 DEF x
<1>6. CASE Takes(o, e) /\ x.pc \notin {"tree", "open"}
  <2>1. Hear(o, e) = [x EXCEPT !.buffer = Append(@, e)]
    BY <1>6 DEF Hear, Takes
  <2> HIDE DEF x
  <2>2. Heard([x EXCEPT !.buffer = Append(@, e)], x, o, e)
    BY <1>1, <1>3, <1>6 DEF Heard, OpenRecords
  <2> QED BY <2>1, <2>2 DEF x
<1> QED BY <1>4, <1>5, <1>6

LEMMA ForwardStep ==
  ASSUME IInv, Forward
  PROVE  IInv'
<1> DEFINE T == task.thread
           a == task.at
           e == <<T, a + 1>>
<1>1. task # NoTask /\ a < log[T] /\ task' = [task EXCEPT !.at = @ + 1]
  BY DEF Forward
<1>2. /\ log' = log /\ unsubs' = unsubs /\ compacts' = compacts
      /\ session' = session /\ active' = active /\ transcript' = transcript /\ applied' = applied
      /\ viewer' = viewer /\ agentView' = agentView /\ agentIds' = agentIds
      /\ unlisten' = unlisten /\ agentOff' = agentOff
  BY DEF Forward, screen, agent
<1>3. opens' = [o \in DOMAIN opens |-> Hear(o, e)]
  BY DEF Forward
<1>4. /\ task \in Tasks /\ T \in Threads /\ a \in Nat /\ log[T] \in Nat /\ task.by \in DOMAIN opens
      /\ T = opens[task.by].thread /\ task.by \in Nat
  BY <1>1 DEF IInv, ShellShape, Tasks, TaskOwned
<1>5. /\ task' \in Tasks /\ task'.thread = T /\ task'.at = a + 1 /\ task'.by = task.by
      /\ task'.lagged = task.lagged
      /\ a + 1 \in Nat
  BY <1>1, <1>4 DEF Tasks
<1>6. e \in Events /\ e[1] = T /\ a + 1 \in 1 .. log[T]
  BY <1>1, <1>4 DEF Events
<1> HIDE DEF T, a, e
<1>7. DOMAIN opens' = DOMAIN opens /\ \A o \in DOMAIN opens : Heard(opens'[o], opens[o], o, e)
  BY <1>3, <1>6, HearFacts DEF IInv
<1>8. OpensShape'
  <2>1. DOMAIN opens = 1 .. Len(opens) /\ Len(opens) \in Nat
    BY DomainFacts DEF IInv
  <2>2. \A o \in 1 .. Len(opens) : Hear(o, e) \in OpenRecords
    BY <1>6, <2>1, HearFacts DEF IInv, Heard
  <2>3. opens' \in Seq(OpenRecords)
    BY <1>3, <2>1, <2>2
  <2> QED BY <1>2, <2>3 DEF IInv, OpensShape
<1>9. \A o \in DOMAIN opens :
        /\ opens'[o].kind = opens[o].kind /\ opens'[o].thread = opens[o].thread
        /\ opens'[o].pc = opens[o].pc /\ opens'[o].got = opens[o].got
        /\ opens'[o].view = opens[o].view /\ opens'[o].since = opens[o].since
        /\ opens'[o].ear = opens[o].ear
  BY <1>7 DEF Heard
<1>10. OpensOK'
  <2> SUFFICES ASSUME NEW o \in DOMAIN opens PROVE OpenOK(opens'[o], log[opens[o].thread])
    BY <1>2, <1>7, <1>9 DEF OpensOK
  <2> DEFINE x == opens[o]
             n == log[x.thread]
             S == {x.thread} \X (1 .. n)
  <2>1. OpenOK(x, n) /\ Heard(opens'[o], x, o, e)
    BY <1>7 DEF IInv, OpensOK
  <2>2. Takes(o, e) => e \in S
    BY <1>6 DEF Takes, e
  <2> HIDE DEF x, n
  <2>3. x.queue \in Seq(S) /\ x.buffer \in Seq(S)
    BY <2>1 DEF OpenOK
  <2>4. Takes(o, e) => Append(x.queue, e) \in Seq(S) /\ Append(x.buffer, e) \in Seq(S)
    BY <2>2, <2>3
  <2>5. opens'[o].queue \in Seq(S) /\ opens'[o].buffer \in Seq(S)
    BY <2>1, <2>3, <2>4 DEF Heard
  <2>6. opens'[o].pc \notin {"tree", "open"} => opens'[o].queue = x.queue
    BY <2>1 DEF Heard
  <2>7. OpenOK(opens'[o], n)
    BY <2>1, <2>5, <2>6 DEF OpenOK, Heard
  <2> QED BY <2>7 DEF x, n
<1>11. CompactsOK'
  BY <1>2 DEF IInv, CompactsOK
<1>12. ShellShape'
  BY <1>2, <1>4, <1>5, <1>7 DEF IInv, ShellShape
<1>13. Pointed'
  BY <1>2, <1>7, <1>9 DEF IInv, Pointed
<1>14. EarsOwned'
  <2>1. {unlisten, agentOff} \subseteq {None} \cup DOMAIN opens
    BY DEF IInv, Pointed
  <2> QED BY <1>2, <1>7, <1>9, <2>1 DEF IInv, EarsOwned
<1>15. TaskOwned'
  <2>1. /\ opens[task.by].pc \notin {"reading", "read", "subscribing"}
        /\ opens[task.by].ear \/ unsubs[T] > 0
    BY <1>1 DEF IInv, TaskOwned, T
  <2>2. a + 1 <= log[T]
    BY <1>4, <1>6 DEF T
  <2> QED BY <1>2, <1>4, <1>5, <1>9, <2>1, <2>2 DEF TaskOwned, T
<1>16. ScreenShape' /\ AgentShape'
  BY <1>2 DEF IInv, ScreenShape, AgentShape
<1>17. SessionFacts'
  <2>1. session # None => session \in DOMAIN opens /\ opens[session].kind = "session"
    BY DEF IInv, Pointed
  <2>2. session # None => (Current(session)' <=> Current(session))
    BY <1>2, <1>9, <2>1 DEF Current
  <2>3. SessionOwn'
    <3>1. Loaded(session)' => Loaded(session) /\ opens'[session].view = opens[session].view
      BY <1>2, <1>9, <2>1, <2>2 DEF Loaded
    <3> QED BY <1>2, <3>1 DEF IInv, SessionFacts, SessionOwn
  <2>4. SessionApplied'
    <3>1. Loaded(session)' => /\ Loaded(session) /\ opens'[session].pc = opens[session].pc
                              /\ opens'[session].since = opens[session].since
      BY <1>2, <1>9, <2>1, <2>2 DEF Loaded
    <3> QED BY <1>2, <3>1 DEF IInv, SessionFacts, SessionApplied
  <2>5. SessionHeard'
    <3> SUFFICES ASSUME Hearing(session)' PROVE SessionHeard'
      BY DEF SessionHeard
    <3>1. Hearing(session) /\ session # None /\ task.by = session /\ opens[session].ear
          /\ Current(session) /\ opens[session].pc = "open"
      BY <1>2, <1>5, <1>9, <2>1, <2>2 DEF Hearing, Subscribed
    <3> DEFINE t == opens[session].thread
               s == opens[session].since
               f == opens[session].queue
    <3>2. t = T /\ Takes(session, e) /\ f \in Seq(Events) /\ s \in Nat
      BY <1>4, <1>6, <2>1, <3>1, DomainFacts, RecordFacts DEF IInv, Takes
    <3>3. opens'[session].queue = Append(f, e)
      BY <1>7, <2>1, <3>1, <3>2 DEF Heard
    <3>4. ToSet(EventsOf(t, s, a)) \subseteq ToSet(transcript) \cup ToSet(f)
      BY <3>1 DEF IInv, SessionFacts, SessionHeard, a
    <3>5. opens'[session].thread = t /\ opens'[session].since = s
      BY <1>9, <2>1, <3>1
    <3> HIDE DEF t, s, f
    <3>6. ToSet(Append(f, e)) = ToSet(f) \cup {e}
      BY <1>6, <3>2, AppendFacts
    <3>7. ASSUME NEW d \in ToSet(EventsOf(t, s, a + 1)) PROVE d \in ToSet(EventsOf(t, s, a)) \cup {e}
      <4>1. PICK k \in Nat : s < k /\ k <= a + 1 /\ d = <<t, k>>
        BY <1>4, <1>5, <3>2, <3>7, EventsOfSet
      <4>2. CASE k <= a
        BY <1>4, <3>2, <4>1, <4>2, EventsOfSet
      <4>3. CASE k = a + 1
        BY <3>2, <4>1, <4>3 DEF e
      <4> QED BY <1>4, <4>1, <4>2, <4>3
    <3>8. ToSet(EventsOf(t, s, a + 1)) \subseteq ToSet(transcript) \cup ToSet(Append(f, e))
      BY <3>4, <3>6, <3>7
    <3> QED BY <1>2, <1>5, <3>3, <3>5, <3>8 DEF SessionHeard
  <2> QED BY <2>3, <2>4, <2>5 DEF SessionFacts
<1>18. ViewerFacts'
  <2>1. viewer # None => viewer \in DOMAIN opens /\ opens[viewer].kind = "viewer" /\ Current(viewer)
    BY DEF IInv, Pointed, Current
  <2>2. ViewerOwn'
    BY <1>2, <1>9, <2>1 DEF IInv, ViewerFacts, ViewerOwn
  <2> DEFINE t == opens[viewer].thread
  <2>3. ViewerBuffered'
    <3> SUFFICES ASSUME Waiting(viewer)' PROVE ViewerBuffered'
      BY DEF ViewerBuffered
    <3> DEFINE b == opens[viewer].buffer
    <3>1. /\ Waiting(viewer) /\ viewer # None /\ task.by = viewer /\ opens[viewer].ear
          /\ opens[viewer].pc \in {"subscribed", "replaying", "replayed"}
      BY <1>2, <1>5, <1>9, <2>1 DEF Waiting
    <3>2. t = T /\ Takes(viewer, e)
      BY <1>4, <1>6, <2>1, <3>1 DEF Takes
    <3>3. opens'[viewer].buffer = Append(b, e)
      BY <1>7, <2>1, <3>1, <3>2 DEF Heard
    <3>4. PICK s \in 0 .. a : RunsTo(b, t, s, a) /\ (opens[viewer].pc = "replayed" => s <= opens[viewer].got)
      BY <3>1 DEF IInv, ViewerFacts, ViewerBuffered, a
    <3>5. b \in Seq({t} \X Nat)
      <4>1. OpenOK(opens[viewer], log[t]) /\ log[t] \in Nat
        BY <1>4, <2>1, <3>1, <3>2 DEF IInv, OpensOK, T
      <4>2. b \in Seq({t} \X (1 .. log[t]))
        BY <4>1 DEF OpenOK
      <4>3. {t} \X (1 .. log[t]) \subseteq {t} \X Nat
        BY <4>1
      <4> HIDE DEF t, b
      <4>4. ToSet(b) \subseteq {t} \X Nat
        BY <4>2, <4>3, RangeFacts
      <4> QED BY <4>2, <4>4, RangeFacts
    <3>6. /\ opens'[viewer'].thread = t /\ opens'[viewer'].pc = opens[viewer].pc
          /\ opens'[viewer'].got = opens[viewer].got /\ opens'[viewer'].buffer = Append(b, e)
      BY <1>2, <1>9, <2>1, <3>1, <3>3
    <3> HIDE DEF t, b
    <3>7. RunsTo(Append(b, e), t, s, a + 1)
      BY <1>4, <3>2, <3>4, <3>5, RunsToNext DEF e
    <3>8. s \in 0 .. (a + 1)
      BY <1>4, <3>4
    <3> QED BY <1>5, <3>4, <3>6, <3>7, <3>8 DEF ViewerBuffered
  <2>4. ViewerShown'
    <3> SUFFICES ASSUME Hearing(viewer)' PROVE ViewerShown'
      BY DEF ViewerShown
    <3> DEFINE f == opens[viewer].queue
    <3>1. /\ Hearing(viewer) /\ viewer # None /\ task.by = viewer /\ opens[viewer].ear
          /\ opens[viewer].pc = "open"
      BY <1>2, <1>5, <1>9, <2>1 DEF Hearing, Subscribed
    <3>2. t = T /\ Takes(viewer, e)
      BY <1>4, <1>6, <2>1, <3>1 DEF Takes
    <3>3. opens'[viewer].queue = Append(f, e)
      BY <1>7, <2>1, <3>1, <3>2 DEF Heard
    <3>4. PICK m \in 0 .. log[t] : \E q \in 0 .. m :
            q <= a /\ agentView = Upto(t, m) /\ agentIds = ToSet(Upto(t, m)) /\ f = EventsOf(t, q, a)
      BY <3>1 DEF IInv, ViewerFacts, ViewerShown, a
    <3>5. PICK q \in 0 .. m :
            q <= a /\ agentView = Upto(t, m) /\ agentIds = ToSet(Upto(t, m)) /\ f = EventsOf(t, q, a)
      BY <3>4
    <3>6. /\ opens'[viewer'].thread = t /\ opens'[viewer'].queue = Append(f, e) /\ log' = log
          /\ agentView' = agentView /\ agentIds' = agentIds
      BY <1>2, <1>9, <2>1, <3>1, <3>3
    <3> HIDE DEF t, f
    <3>7. q \in Nat /\ q <= a /\ q <= a + 1
      BY <1>4, <3>5
    <3>8. EventsOf(t, q, a + 1) = Append(EventsOf(t, q, a), <<t, a + 1>>)
      BY <1>4, <3>7, EventsOfNext
    <3>9. Append(f, e) = EventsOf(t, q, a + 1)
      BY <3>2, <3>5, <3>8 DEF e
    <3> QED BY <1>5, <3>4, <3>5, <3>6, <3>7, <3>9 DEF ViewerShown
  <2> QED BY <2>2, <2>3, <2>4 DEF ViewerFacts
<1> QED BY <1>8, <1>10, <1>11, <1>12, <1>13, <1>14, <1>15, <1>16, <1>17, <1>18 DEF IInv

-----------------------------------------------------------------------------
(* The invariant.                                                          *)

LEMMA InitIInv ==
  ASSUME Init PROVE IInv
<1>1. /\ log = [t \in Threads |-> 0] /\ task = NoTask /\ unsubs = [t \in Threads |-> 0]
      /\ opens = <<>> /\ session = None /\ active = NoThread
      /\ transcript = <<>> /\ applied = {} /\ unlisten = None
      /\ viewer = None /\ agentView = <<>> /\ agentIds = {} /\ agentOff = None
      /\ compacts = <<>>
  BY DEF Init
<1>2. \A t \in Threads : 0 <= MaxEvents
  BY StoreAssumption
<1>3. ShellShape
  BY <1>1, <1>2 DEF ShellShape
<1>4. OpensShape /\ ScreenShape /\ AgentShape
  BY <1>1 DEF OpensShape, ScreenShape, AgentShape
<1>5. Pointed
  BY <1>1 DEF Pointed
<1>6. DOMAIN opens = {} /\ DOMAIN compacts = {}
  BY <1>1
<1>7. OpensOK /\ CompactsOK /\ EarsOwned /\ TaskOwned
  BY <1>1, <1>6 DEF OpensOK, CompactsOK, EarsOwned, TaskOwned
<1>8. SessionFacts
  BY <1>1 DEF SessionFacts, SessionOwn, SessionApplied, SessionHeard, Loaded, Hearing, Subscribed
<1>9. ViewerFacts
  BY <1>1 DEF ViewerFacts, ViewerOwn, ViewerBuffered, ViewerShown, Waiting, Hearing, Subscribed
<1> QED BY <1>3, <1>4, <1>5, <1>7, <1>8, <1>9 DEF IInv

LEMMA ReplyStep ==
  ASSUME IInv, NEW o \in DOMAIN opens, Reply(o) PROVE IInv'
<1>1. CASE Superseded(o)
  BY <1>1, SupersededStep
<1>2. CASE opens[o].pc = "read" /\ ReadReply(o)
  BY <1>2, ReadReplyStep
<1>3. CASE opens[o].pc = "subscribed" /\ SubscribeReply(o)
  BY <1>3, SubscribeReplyStep
<1>4. CASE opens[o].pc = "replayed" /\ ReplayReply(o)
  BY <1>4, ReplayReplyStep
<1>5. CASE opens[o].pc = "tree" /\ TreeReply(o)
  BY <1>5, TreeReplyStep
<1> QED BY <1>1, <1>2, <1>3, <1>4, <1>5 DEF Reply

LEMMA NextIInv ==
  ASSUME IInv, [Next]_vars PROVE IInv'
<1>1. ASSUME NEW t \in Threads, OpenSession(t) PROVE IInv'
  BY <1>1, OpenSessionStep
<1>2. ASSUME NEW t \in Threads, OpenAgentThread(t) PROVE IInv'
  BY <1>2, OpenAgentThreadStep
<1>3. CASE StartSession
  BY <1>3, StartSessionStep
<1>4. CASE ArchiveSession
  BY <1>4, ArchiveSessionStep
<1>5. CASE CloseAgentThread
  BY <1>5, CloseAgentThreadStep
<1>6. CASE CompactActiveThread
  BY <1>6, CompactActiveThreadStep
<1>7. CASE User
  BY <1>1, <1>2, <1>3, <1>4, <1>5, <1>6, <1>7 DEF User
<1>8. ASSUME NEW t \in Threads, Emit(t) PROVE IInv'
  BY <1>8, EmitStep
<1>9. ASSUME NEW t \in Threads, Unsubscribe(t) PROVE IInv'
  BY <1>9, UnsubscribeStep
<1>10. CASE Forward \/ Lag \/ ForwardEnds
  BY <1>10, ForwardStep, LagStep, ForwardEndsStep
<1>11. ASSUME NEW o \in DOMAIN opens, Serve(o) PROVE IInv'
  BY <1>11, ServeReadStep, ServeSubscribeStep
<1>12. ASSUME NEW o \in DOMAIN opens, Reply(o) PROVE IInv'
  BY <1>12, ReplyStep
<1>13. ASSUME NEW o \in DOMAIN opens, Refuse(o) PROVE IInv'
  BY <1>13, RefuseStep
<1>14. ASSUME NEW o \in DOMAIN opens, Frame(o) PROVE IInv'
  BY <1>14, FrameStep
<1>15. ASSUME NEW c \in DOMAIN compacts, ServeCompact(c) PROVE IInv'
  BY <1>15, ServeCompactStep
<1>16. ASSUME NEW c \in DOMAIN compacts, CompactReply(c) PROVE IInv'
  BY <1>16, CompactReplyStep
<1>17. CASE UNCHANGED vars
  <2>1. /\ log' = log /\ task' = task /\ unsubs' = unsubs /\ opens' = opens /\ session' = session
        /\ active' = active /\ transcript' = transcript /\ applied' = applied /\ unlisten' = unlisten
        /\ viewer' = viewer /\ agentView' = agentView /\ agentIds' = agentIds /\ agentOff' = agentOff
        /\ compacts' = compacts
    BY <1>17 DEF vars, shell, screen, agent
  <2>2. log' \in [Threads -> Nat] /\ \A t \in Threads : log[t] <= log'[t]
    BY <2>1 DEF IInv, ShellShape
  <2>3. Pointed' /\ EarsOwned' /\ ScreenShape' /\ AgentShape' /\ SessionFacts' /\ ViewerFacts'
    BY <2>1, <2>2, StillFacts
  <2>4. ShellShape' /\ OpensShape' /\ OpensOK' /\ CompactsOK' /\ TaskOwned'
    BY <2>1 DEF IInv, ShellShape, OpensShape, OpensOK, CompactsOK, TaskOwned
  <2> QED BY <2>3, <2>4 DEF IInv
<1> QED
  BY <1>7, <1>8, <1>9, <1>10, <1>11, <1>12, <1>13, <1>14, <1>15, <1>16, <1>17 DEF Next

LEMMA Invariance == Spec => []IInv
<1>1. Init => IInv
  BY InitIInv
<1>2. IInv /\ [Next]_vars => IInv'
  BY NextIInv
<1> QED BY <1>1, <1>2, PTL DEF Spec

(* No late view, buffer, frame or compaction of another thread gets onto   *)
(* the screen of a session or a viewer (isCurrentOpen after every await).  *)
THEOREM OwnThread == Spec => []ShowsOwnThread
<1>1. IInv => ShowsOwnThread
  <2> SUFFICES ASSUME IInv PROVE ShowsOwnThread
    OBVIOUS
  <2>1. ASSUME Loaded(session), NEW e \in ToSet(transcript) PROVE e[1] = active
    <3>1. transcript \in Seq({active} \X Nat)
      BY <2>1 DEF IInv, SessionFacts, SessionOwn
    <3>2. e \in {active} \X Nat
      BY <2>1, <3>1, RangeFacts
    <3> QED BY <3>2
  <2>2. ASSUME viewer # None, NEW e \in ToSet(agentView) PROVE e[1] = opens[viewer].thread
    <3> DEFINE t == opens[viewer].thread
    <3>1. agentView \in Seq({t} \X Nat)
      BY <2>2 DEF IInv, ViewerFacts, ViewerOwn
    <3> HIDE DEF t
    <3>2. e \in {t} \X Nat
      BY <2>2, <3>1, RangeFacts
    <3> QED BY <3>2 DEF t
  <2> QED BY <2>1, <2>2 DEF ShowsOwnThread
<1> QED BY <1>1, Invariance, PTL

(* A viewer that hears its agent and has shown its frames shows every      *)
(* event of the agent once and in order: view, replay, buffer and frames   *)
(* of openAgentThread neither leave a gap nor overlap.                     *)
THEOREM NoGapInViewer == Spec => []ViewerComplete
<1>1. IInv => ViewerComplete
  <2> SUFFICES ASSUME IInv, CaughtUp(viewer)
               PROVE  agentView = Upto(opens[viewer].thread, log[opens[viewer].thread])
    BY DEF ViewerComplete
  <2> DEFINE t == opens[viewer].thread
             n == log[t]
             a == task.at
  <2>1. Hearing(viewer) /\ opens[viewer].queue = <<>> /\ a = log[task.thread] /\ viewer # None
        /\ task.by = viewer
    BY DEF CaughtUp, Hearing, Subscribed
  <2>2. task # NoTask
    BY <2>1 DEF NoTask
  <2>3. task.thread = t /\ a = n /\ n \in Nat
    BY <2>1, <2>2 DEF IInv, TaskOwned, ShellShape, Tasks
  <2>4. PICK m \in 0 .. n : \E q \in 0 .. m :
          q <= a /\ agentView = Upto(t, m) /\ opens[viewer].queue = EventsOf(t, q, a)
    BY <2>1 DEF IInv, ViewerFacts, ViewerShown
  <2>5. PICK q \in 0 .. m : q <= a /\ agentView = Upto(t, m) /\ opens[viewer].queue = EventsOf(t, q, a)
    BY <2>4
  <2> HIDE DEF t, n, a
  <2>6. q \in Nat /\ a \in Nat /\ q <= a
    BY <2>3, <2>5
  <2>7. Len(EventsOf(t, q, a)) = a - q
    BY <2>6, EventsOfFacts
  <2>8. a - q = 0
    BY <2>1, <2>5, <2>7
  <2>9. m = n
    BY <2>3, <2>4, <2>5, <2>6, <2>8
  <2> QED BY <2>5, <2>9 DEF t, n
<1> QED BY <1>1, Invariance, PTL

(* An opened session that hears its thread shows the view it was opened    *)
(* with and every event since the end of the opening (openSession).        *)
THEOREM OpeningOnly == Spec => []MissesOnlyTheOpening
<1>1. IInv => MissesOnlyTheOpening
  <2> SUFFICES ASSUME IInv, CaughtUp(session)
               PROVE  LET t == opens[session].thread IN
                      ToSet(Upto(t, opens[session].view)) \cup
                      ToSet(EventsOf(t, opens[session].since, log[t])) \subseteq ToSet(transcript)
    BY DEF MissesOnlyTheOpening
  <2> DEFINE t == opens[session].thread
             s == opens[session].since
             v == opens[session].view
  <2>1. /\ Hearing(session) /\ opens[session].queue = <<>> /\ task.at = log[task.thread]
        /\ session # None /\ task.by = session /\ Current(session) /\ opens[session].pc = "open"
    BY DEF CaughtUp, Hearing, Subscribed
  <2>2. task # NoTask
    BY <2>1 DEF NoTask
  <2>3. task.thread = t
    BY <2>1, <2>2 DEF IInv, TaskOwned
  <2>4. Loaded(session) /\ active = t
    BY <2>1 DEF IInv, Pointed, Loaded, Current, Stages, Calls
  <2>5. ToSet(Upto(t, v)) \subseteq ToSet(transcript)
    BY <2>4 DEF IInv, SessionFacts, SessionOwn
  <2>6. ToSet(EventsOf(t, s, task.at)) \subseteq ToSet(transcript) \cup ToSet(opens[session].queue)
    BY <2>1 DEF IInv, SessionFacts, SessionHeard
  <2>7. ToSet(opens[session].queue) = {}
    BY <2>1 DEF ToSet
  <2> QED BY <2>1, <2>3, <2>5, <2>6, <2>7
<1> QED BY <1>1, Invariance, PTL

(* A listener that was handed over belongs to one of the two cleanups, and *)
(* with no call under way the shell forwards only to an open that listens  *)
(* (cleanupUnlisten, and the aborted tasks of events_subscribe).           *)
THEOREM NoLeak == Spec => []NothingLeaks
<1>1. IInv => NothingLeaks
  <2> SUFFICES ASSUME IInv PROVE NothingLeaks
    OBVIOUS
  <2>1. ASSUME NEW o \in DOMAIN opens, Held({o}) # {} PROVE o \in {unlisten, agentOff}
    <3>1. opens[o].ear /\ opens[o].pc \notin Asking
      BY <2>1 DEF Held, Asking
    <3> QED BY <3>1 DEF IInv, EarsOwned
  <2>2. ASSUME Settled, task # NoTask PROVE opens[task.by].ear
    <3>1. task.thread \in Threads /\ (opens[task.by].ear \/ unsubs[task.thread] > 0)
      BY <2>2 DEF IInv, ShellShape, Tasks, TaskOwned
    <3>2. unsubs[task.thread] = 0
      BY <2>2, <3>1 DEF Settled
    <3> QED BY <3>1, <3>2
  <2> QED BY <2>1, <2>2 DEF NothingLeaks
<1> QED BY <1>1, Invariance, PTL

-----------------------------------------------------------------------------
(* How many calls of events_unsubscribe can be under way: one for each     *)
(* open that has stopped listening.                                        *)

Silent(s) == {o \in DOMAIN s : ~s[o].ear /\ s[o].pc \notin {"reading", "read"}}

CallsBound ==
  /\ Len(opens) <= MaxOpens
  /\ \A t \in Threads : unsubs[t] <= Cardinality(Silent(opens))

LEMMA SilentFacts ==
  ASSUME NEW s \in Seq(OpenRecords)
  PROVE  /\ IsFiniteSet(Silent(s)) /\ Cardinality(Silent(s)) \in Nat
         /\ Cardinality(Silent(s)) <= Len(s)
<1>1. Len(s) \in Nat /\ Silent(s) \subseteq 1 .. Len(s)
  BY DEF Silent
<1>2. IsFiniteSet(1 .. Len(s)) /\ Cardinality(1 .. Len(s)) = Len(s)
  <2>1. 1 \in Int /\ Len(s) \in Int
    BY <1>1
  <2>2. /\ IsFiniteSet(1 .. Len(s))
        /\ Cardinality(1 .. Len(s)) = (IF 1 > Len(s) THEN 0 ELSE Len(s) - 1 + 1)
    BY <2>1, FS_Interval
  <2> QED BY <1>1, <2>2
<1>3. IsFiniteSet(Silent(s)) /\ Cardinality(Silent(s)) <= Cardinality(1 .. Len(s))
  BY <1>1, <1>2, FS_Subset
<1> QED BY <1>2, <1>3, FS_CardinalityType

\* The opens H stop listening, and no more calls begin than that.
LEMMA BoundStep ==
  ASSUME IInv, IInv', CallsBound, Len(opens') <= MaxOpens, NEW H,
         Silent(opens) \subseteq Silent(opens'), H \subseteq Silent(opens') \ Silent(opens),
         \A t \in Threads : unsubs'[t] <= unsubs[t] + Cardinality(H)
  PROVE  CallsBound'
<1> DEFINE A == Silent(opens)
           B == Silent(opens')
<1>1. /\ IsFiniteSet(A) /\ Cardinality(A) \in Nat /\ IsFiniteSet(B) /\ Cardinality(B) \in Nat
  BY SilentFacts DEF IInv, OpensShape
<1>2. \A t \in Threads : unsubs[t] <= Cardinality(A)
  BY DEF CallsBound
<1> HIDE DEF A, B
<1>3. H \subseteq B /\ A \subseteq B /\ A \cap H = {} /\ A \cup H \subseteq B
  BY DEF A, B
<1>4. IsFiniteSet(H) /\ Cardinality(H) \in Nat
  BY <1>1, <1>3, FS_Subset, FS_CardinalityType
<1>5. Cardinality(A \cup H) = Cardinality(A) + Cardinality(H)
  <2>1. Cardinality(A \cup H) = Cardinality(A) + Cardinality(H) - Cardinality(A \cap H)
    BY <1>1, <1>4, FS_Union
  <2>2. Cardinality(A \cap H) = 0
    BY <1>3, FS_EmptySet
  <2> QED BY <1>1, <1>4, <2>1, <2>2
<1>6. Cardinality(A \cup H) <= Cardinality(B)
  BY <1>1, <1>3, FS_Subset
<1>7. \A t \in Threads : unsubs[t] \in Nat /\ unsubs'[t] \in Nat
  BY DEF IInv, ShellShape
<1>8. \A t \in Threads : unsubs'[t] <= Cardinality(B)
  <2> SUFFICES ASSUME NEW t \in Threads PROVE unsubs'[t] <= Cardinality(B)
    OBVIOUS
  <2>1. unsubs'[t] <= unsubs[t] + Cardinality(H) /\ unsubs[t] <= Cardinality(A)
    BY <1>2
  <2> QED BY <1>1, <1>4, <1>5, <1>6, <1>7, <2>1
<1> QED BY <1>8 DEF CallsBound, B

\* No call begins, and who has stopped listening stays so.
LEMMA BoundKept ==
  ASSUME IInv, IInv', CallsBound, DOMAIN opens' = DOMAIN opens,
         \A p \in DOMAIN opens : p \in Silent(opens) => ~opens'[p].ear /\ opens'[p].pc \notin {"reading", "read"},
         \A t \in Threads : unsubs'[t] <= unsubs[t]
  PROVE  CallsBound'
<1>1. Silent(opens) \subseteq Silent(opens')
  BY DEF Silent
<1>2. Len(opens') <= MaxOpens
  BY DEF IInv, OpensShape, CallsBound
<1>3. {} \subseteq Silent(opens') \ Silent(opens)
  OBVIOUS
<1>4. Cardinality({}) = 0
  BY FS_EmptySet
<1>5. \A t \in Threads : unsubs[t] \in Nat
  BY DEF IInv, ShellShape
<1>6. \A t \in Threads : unsubs'[t] <= unsubs[t] + Cardinality({})
  BY <1>4, <1>5
<1> QED BY <1>1, <1>2, <1>3, <1>6, BoundStep

\* The opens stay as they are.
LEMMA BoundStill ==
  ASSUME IInv, IInv', CallsBound, opens' = opens, \A t \in Threads : unsubs'[t] <= unsubs[t]
  PROVE  CallsBound'
BY BoundKept DEF Silent

\* One open takes a step of its own.
LEMMA BoundOne ==
  ASSUME IInv, IInv', CallsBound, NEW o \in DOMAIN opens, NEW r, opens' = [opens EXCEPT ![o] = r],
         o \in Silent(opens) => ~r.ear /\ r.pc \notin {"reading", "read"}, unsubs' = unsubs
  PROVE  CallsBound'
<1>1. DOMAIN opens' = DOMAIN opens /\ \A p \in DOMAIN opens : opens'[p] = IF p = o THEN r ELSE opens[p]
  OBVIOUS
<1>2. \A p \in DOMAIN opens : p \in Silent(opens) => ~opens'[p].ear /\ opens'[p].pc \notin {"reading", "read"}
  BY <1>1 DEF Silent
<1>3. \A t \in Threads : unsubs[t] \in Nat
  BY DEF IInv, ShellShape
<1>4. \A t \in Threads : unsubs'[t] <= unsubs[t]
  BY <1>3
<1> QED BY <1>1, <1>2, <1>4, BoundKept

\* One open ends, and names its thread to the shell if it was listening.
LEMMA BoundOver ==
  ASSUME IInv, IInv', CallsBound, NEW o \in DOMAIN opens, opens' = [opens EXCEPT ![o] = Over(@)],
         unsubs' = unsubs \/ (opens[o].ear /\ unsubs' = [unsubs EXCEPT ![opens[o].thread] = @ + 1])
  PROVE  CallsBound'
<1> DEFINE r == Over(opens[o])
<1>1. opens[o] \in OpenRecords /\ opens[o].thread \in Threads
  BY DomainFacts, RecordFacts DEF IInv
<1>2. ~r.ear /\ r.pc = "over"
  BY <1>1, OverFacts
<1>3. opens' = [opens EXCEPT ![o] = r]
  OBVIOUS
<1> HIDE DEF r
<1>4. CASE unsubs' = unsubs
  BY <1>2, <1>3, <1>4, BoundOne
<1>5. CASE opens[o].ear /\ unsubs' = [unsubs EXCEPT ![opens[o].thread] = @ + 1]
  <2>1. DOMAIN opens' = DOMAIN opens /\ \A p \in DOMAIN opens : opens'[p] = IF p = o THEN r ELSE opens[p]
    BY <1>3
  <2>2. Silent(opens) \subseteq Silent(opens') /\ {o} \subseteq Silent(opens') \ Silent(opens)
    BY <1>2, <1>5, <2>1 DEF Silent
  <2>3. Len(opens') <= MaxOpens
    BY <2>1 DEF IInv, OpensShape, CallsBound
  <2>4. Cardinality({o}) = 1
    BY FS_Singleton
  <2>5. unsubs \in [Threads -> Nat]
    BY DEF IInv, ShellShape
  <2>6. \A t \in Threads : unsubs'[t] <= unsubs[t] + 1
    BY <1>1, <1>5, <2>5
  <2>7. \A t \in Threads : unsubs'[t] <= unsubs[t] + Cardinality({o})
    BY <2>4, <2>6
  <2> QED BY <2>2, <2>3, <2>7, BoundStep
<1> QED BY <1>4, <1>5

\* A cleanup tells the shell of the listeners it removes.
LEMMA BoundSweep ==
  ASSUME IInv, IInv', CallsBound, NEW a \in {unlisten, agentOff}, NEW b \in {unlisten, agentOff},
         Sweep({a, b}), Len(opens') <= MaxOpens
  PROVE  CallsBound'
<1> DEFINE H == Held({a, b})
           Of(t) == {o \in H : opens[o].thread = t}
<1>1. Swept({a, b})
  BY SweepOpens DEF IInv
<1>2. H \subseteq DOMAIN opens
  BY DEF IInv, Pointed, Held
<1>3. \A o \in H : opens[o].ear /\ opens[o].pc \notin {"reading", "read"}
  BY <1>2 DEF Held, IInv, OpensOK, OpenOK, Deaf
<1>4. Silent(opens) \subseteq Silent(opens')
  BY <1>1 DEF Silent, Swept
<1>5. H \subseteq Silent(opens') \ Silent(opens)
  BY <1>1, <1>2, <1>3 DEF Silent, Swept
<1>6. IsFiniteSet(H)
  <2>1. IsFiniteSet(Silent(opens'))
    BY SilentFacts DEF IInv, OpensShape
  <2> QED BY <1>5, <2>1, FS_Subset
<1> HIDE DEF H
<1>7. \A t : Of(t) \subseteq H
  OBVIOUS
<1>8. Cardinality(H) \in Nat
  BY <1>6, FS_CardinalityType
<1>9. \A t : Cardinality(Of(t)) \in Nat /\ Cardinality(Of(t)) <= Cardinality(H)
  <2> HIDE DEF Of
  <2> QED BY <1>6, <1>7, FS_Subset, FS_CardinalityType
<1>10. \A t \in Threads : unsubs'[t] = unsubs[t] + Cardinality(Of(t))
  <2>1. unsubs' = Told(H)
    BY DEF Sweep, H
  <2> QED BY <2>1 DEF Told
<1>11. \A t \in Threads : unsubs[t] \in Nat
  BY DEF IInv, ShellShape
<1> HIDE DEF Of
<1>12. \A t \in Threads : unsubs'[t] <= unsubs[t] + Cardinality(H)
  <2> SUFFICES ASSUME NEW t \in Threads PROVE unsubs'[t] <= unsubs[t] + Cardinality(H)
    OBVIOUS
  <2>1. Cardinality(Of(t)) \in Nat /\ Cardinality(Of(t)) <= Cardinality(H)
    BY <1>9
  <2> QED BY <1>8, <1>10, <1>11, <2>1
<1> QED BY <1>4, <1>5, <1>12, BoundStep

LEMMA BoundBegun ==
  ASSUME IInv, IInv', CallsBound, NEW a \in {unlisten, agentOff}, NEW b \in {unlisten, agentOff},
         NEW k \in {"session", "viewer"}, NEW t \in Threads, Len(opens) < MaxOpens,
         unsubs' = Told(Held({a, b})), log' = log, task' = task, compacts' = compacts,
         opens' = Append(Quieted({a, b}, Held({a, b})), NewOpen(k, t))
  PROVE  CallsBound'
<1> DEFINE q == Quieted({a, b}, Held({a, b}))
           r == NewOpen(k, t)
<1>1. Sweep({a, b})
  BY DEF Sweep
<1>2. q \in Seq(OpenRecords) /\ Len(q) = Len(opens)
  BY QuietedFacts DEF IInv
<1>3. opens' = Append(q, r)
  OBVIOUS
<1>4. Len(opens) \in Nat /\ MaxOpens \in Nat
  BY DomainFacts, StoreAssumption DEF IInv
<1> HIDE DEF q, r
<1>5. Len(opens') = Len(opens) + 1
  BY <1>2, <1>3
<1>6. Len(opens') <= MaxOpens
  BY <1>4, <1>5
<1> QED BY <1>1, <1>6, BoundSweep

LEMMA BoundCleanup ==
  ASSUME IInv, IInv', CallsBound, NEW a \in {unlisten, agentOff}, NEW b \in {unlisten, agentOff},
         Cleanup({a, b}), log' = log, task' = task, compacts' = compacts
  PROVE  CallsBound'
<1>1. Sweep({a, b}) /\ opens' = Quieted({a, b}, Held({a, b}))
  BY DEF Sweep, Cleanup
<1>2. Len(opens') = Len(opens)
  BY <1>1, QuietedFacts DEF IInv
<1>3. Len(opens') <= MaxOpens
  BY <1>2 DEF CallsBound
<1> QED BY <1>1, <1>3, BoundSweep

LEMMA BoundServe ==
  ASSUME IInv, IInv', CallsBound, NEW o \in DOMAIN opens, Serve(o)
  PROVE  CallsBound'
<1> DEFINE x == opens[o]
<1>1. x \in OpenRecords
  BY DomainFacts DEF IInv
<1>2. unsubs' = unsubs
  BY DEF Serve
<1>3. CASE x.pc # "subscribing"
  <2> DEFINE n == log[x.thread]
             r == [x EXCEPT !.pc = IF @ = "reading" THEN "read" ELSE "replayed", !.got = n]
  <2>1. opens' = [opens EXCEPT ![o] = r]
    BY <1>3 DEF Serve
  <2>2. o \in Silent(opens) => ~x.ear /\ x.pc # "reading"
    BY DEF Silent
  <2> HIDE DEF x, n
  <2>3. r.ear = x.ear /\ r.pc = (IF x.pc = "reading" THEN "read" ELSE "replayed")
    BY <1>1 DEF OpenRecords
  <2> HIDE DEF r
  <2> QED BY <1>2, <2>1, <2>2, <2>3, BoundOne
<1>4. CASE x.pc = "subscribing"
  <2> DEFINE r == [x EXCEPT !.pc = "subscribed"]
  <2>1. opens' = [opens EXCEPT ![o] = r]
    BY <1>4 DEF Serve
  <2>2. o \in Silent(opens) => ~x.ear
    BY DEF Silent
  <2> HIDE DEF x
  <2>3. r.ear = x.ear /\ r.pc = "subscribed"
    BY <1>1 DEF OpenRecords
  <2> HIDE DEF r
  <2> QED BY <1>2, <2>1, <2>2, <2>3, BoundOne
<1> QED BY <1>3, <1>4

LEMMA BoundReply ==
  ASSUME IInv, IInv', CallsBound, NEW o \in DOMAIN opens, Reply(o)
  PROVE  CallsBound'
<1> DEFINE x == opens[o]
<1>1. x \in OpenRecords
  BY DomainFacts DEF IInv
<1>2. o \in Silent(opens) => ~x.ear /\ x.pc \notin {"reading", "read"}
  BY DEF Silent
<1>3. CASE Superseded(o)
  <2>1. /\ opens' = [opens EXCEPT ![o] = Over(@)]
        /\ unsubs' = IF opens[o].ear THEN [unsubs EXCEPT ![opens[o].thread] = @ + 1] ELSE unsubs
    BY <1>3 DEF Superseded
  <2> QED BY <2>1, BoundOver
<1>4. CASE x.pc = "read" /\ ReadReply(o)
  <2>1. PICK live \in BOOLEAN :
          opens' = [opens EXCEPT ![o] = [x EXCEPT !.view = x.got, !.got = 0, !.ear = live,
                                         !.pc = IF live THEN "subscribing" ELSE "replaying"]]
    BY <1>4 DEF ReadReply
  <2> DEFINE r == [x EXCEPT !.view = x.got, !.got = 0, !.ear = live,
                            !.pc = IF live THEN "subscribing" ELSE "replaying"]
  <2>2. unsubs' = unsubs /\ opens' = [opens EXCEPT ![o] = r]
    BY <1>4, <2>1 DEF ReadReply, shell
  <2> HIDE DEF r
  <2> QED BY <1>2, <1>4, <2>2, BoundOne
<1>5. CASE x.pc = "subscribed" /\ SubscribeReply(o)
  <2> DEFINE r == [x EXCEPT !.pc = "replaying"]
  <2>1. unsubs' = unsubs /\ opens' = [opens EXCEPT ![o] = r]
    BY <1>5 DEF SubscribeReply, shell
  <2> HIDE DEF x
  <2>2. r.ear = x.ear /\ r.pc = "replaying"
    BY <1>1 DEF OpenRecords
  <2> HIDE DEF r
  <2> QED BY <1>2, <2>1, <2>2, BoundOne
<1>6. CASE x.pc = "replayed" /\ ReplayReply(o)
  <2>1. unsubs' = unsubs
    BY <1>6 DEF ReplayReply, shell
  <2>2. CASE x.kind = "session"
    <3> DEFINE r == [x EXCEPT !.pc = "tree"]
    <3>1. opens' = [opens EXCEPT ![o] = r]
      BY <1>6, <2>2 DEF ReplayReply
    <3> HIDE DEF x
    <3>2. r.ear = x.ear /\ r.pc = "tree"
      BY <1>1 DEF OpenRecords
    <3> HIDE DEF r
    <3> QED BY <1>2, <2>1, <3>1, <3>2, BoundOne
  <2>3. CASE x.kind # "session"
    <3> DEFINE r == [x EXCEPT !.pc = "open", !.got = 0, !.view = 0, !.buffer = <<>>]
    <3>1. opens' = [opens EXCEPT ![o] = r]
      BY <1>6, <2>3 DEF ReplayReply
    <3> HIDE DEF x
    <3>2. r.ear = x.ear /\ r.pc = "open"
      BY <1>1 DEF OpenRecords
    <3> HIDE DEF r
    <3> QED BY <1>2, <2>1, <3>1, <3>2, BoundOne
  <2> QED BY <2>2, <2>3
<1>7. CASE x.pc = "tree" /\ TreeReply(o)
  <2> DEFINE n == log[x.thread]
             r == [x EXCEPT !.pc = "open", !.got = 0, !.buffer = <<>>, !.since = n]
  <2>1. unsubs' = unsubs /\ opens' = [opens EXCEPT ![o] = r]
    BY <1>7 DEF TreeReply, shell
  <2> HIDE DEF x, n
  <2>2. r.ear = x.ear /\ r.pc = "open"
    BY <1>1 DEF OpenRecords
  <2> HIDE DEF r
  <2> QED BY <1>2, <2>1, <2>2, BoundOne
<1> QED BY <1>3, <1>4, <1>5, <1>6, <1>7 DEF Reply

LEMMA BoundOthers ==
  ASSUME IInv, IInv', CallsBound, NEW o \in DOMAIN opens, Refuse(o) \/ Frame(o)
  PROVE  CallsBound'
<1>1. CASE Refuse(o)
  <2>1. /\ opens' = [opens EXCEPT ![o] = Over(@)]
        /\ unsubs' = (IF opens[o].ear /\ opens[o].pc # "subscribing"
                      THEN [unsubs EXCEPT ![opens[o].thread] = @ + 1] ELSE unsubs)
    BY <1>1 DEF Refuse
  <2>2. unsubs' = unsubs \/ (opens[o].ear /\ unsubs' = [unsubs EXCEPT ![opens[o].thread] = @ + 1])
    BY <2>1
  <2> QED BY <2>1, <2>2, BoundOver
<1>2. CASE Frame(o)
  <2> DEFINE x == opens[o]
             r == [x EXCEPT !.queue = <<>>]
  <2>1. unsubs' = unsubs /\ opens' = [opens EXCEPT ![o] = r]
    BY <1>2 DEF Frame, shell
  <2>2. x \in OpenRecords /\ (o \in Silent(opens) => ~x.ear /\ x.pc \notin {"reading", "read"})
    BY DomainFacts DEF IInv, Silent
  <2> HIDE DEF x
  <2>3. r.ear = x.ear /\ r.pc = x.pc
    BY <2>2 DEF OpenRecords
  <2> HIDE DEF r
  <2> QED BY <2>1, <2>2, <2>3, BoundOne
<1> QED BY <1>1, <1>2

LEMMA BoundUser ==
  ASSUME IInv, IInv', CallsBound, User
  PROVE  CallsBound'
<1>1. \A s : {s, s} = {s}
  OBVIOUS
<1>2. ASSUME NEW t \in Threads, OpenSession(t) PROVE CallsBound'
  <2>1. /\ Len(opens) < MaxOpens /\ unsubs' = Told(Held({unlisten, agentOff}))
        /\ log' = log /\ task' = task /\ compacts' = compacts
        /\ opens' = Append(Quieted({unlisten, agentOff}, Held({unlisten, agentOff})), NewOpen("session", t))
    BY <1>2 DEF OpenSession
  <2> QED BY <2>1, BoundBegun
<1>3. ASSUME NEW t \in Threads, OpenAgentThread(t) PROVE CallsBound'
  <2>1. /\ Len(opens) < MaxOpens /\ unsubs' = Told(Held({agentOff}))
        /\ log' = log /\ task' = task /\ compacts' = compacts
        /\ opens' = Append(Quieted({agentOff}, Held({agentOff})), NewOpen("viewer", t))
    BY <1>3 DEF OpenAgentThread
  <2>2. /\ unsubs' = Told(Held({agentOff, agentOff}))
        /\ opens' = Append(Quieted({agentOff, agentOff}, Held({agentOff, agentOff})), NewOpen("viewer", t))
    BY <1>1, <2>1
  <2> QED BY <2>1, <2>2, BoundBegun
<1>4. CASE StartSession
  BY <1>4, BoundCleanup DEF StartSession
<1>5. CASE ArchiveSession \/ CloseAgentThread
  <2>1. Cleanup({agentOff}) /\ log' = log /\ task' = task /\ compacts' = compacts
    BY <1>5 DEF ArchiveSession, CloseAgentThread
  <2>2. Cleanup({agentOff, agentOff})
    BY <1>1, <2>1
  <2> QED BY <2>1, <2>2, BoundCleanup
<1>6. CASE CompactActiveThread
  <2>1. opens' = opens /\ unsubs' = unsubs /\ \A t \in Threads : unsubs[t] \in Nat
    BY <1>6 DEF CompactActiveThread, shell, IInv, ShellShape
  <2> QED BY <2>1, BoundStill
<1> QED BY <1>2, <1>3, <1>4, <1>5, <1>6 DEF User

LEMMA BoundNext ==
  ASSUME IInv, IInv', CallsBound, [Next]_vars
  PROVE  CallsBound'
<1>1. \A t \in Threads : unsubs[t] \in Nat
  BY DEF IInv, ShellShape
<1>2. CASE User
  BY <1>2, BoundUser
<1>3. ASSUME NEW t \in Threads, Emit(t) PROVE CallsBound'
  BY <1>1, <1>3, BoundStill DEF Emit
<1>4. ASSUME NEW t \in Threads, Unsubscribe(t) PROVE CallsBound'
  <2>1. unsubs \in [Threads -> Nat]
    BY DEF IInv, ShellShape
  <2>2. opens' = opens /\ unsubs' = [unsubs EXCEPT ![t] = @ - 1]
    BY <1>4 DEF Unsubscribe
  <2>3. \A u \in Threads : unsubs'[u] <= unsubs[u]
    BY <2>1, <2>2
  <2> QED BY <2>2, <2>3, BoundStill
<1>5. CASE Forward
  <2> DEFINE e == <<task.thread, task.at + 1>>
  <2>1. opens' = [o \in DOMAIN opens |-> Hear(o, e)] /\ unsubs' = unsubs
    BY <1>5 DEF Forward
  <2>2. e \in Events
    <3>1. task \in Tasks
      BY <1>5 DEF Forward, IInv, ShellShape
    <3> QED BY <3>1 DEF Tasks, Events
  <2> HIDE DEF e
  <2>3. \A o \in DOMAIN opens : opens'[o].ear = opens[o].ear /\ opens'[o].pc = opens[o].pc
    BY <2>1, <2>2, HearFacts DEF IInv, Heard
  <2>4. DOMAIN opens' = DOMAIN opens
    BY <2>1
  <2>5. \A o \in DOMAIN opens : o \in Silent(opens) => ~opens'[o].ear /\ opens'[o].pc \notin {"reading", "read"}
    BY <2>3 DEF Silent
  <2>6. \A t \in Threads : unsubs'[t] <= unsubs[t]
    BY <1>1, <2>1
  <2> QED BY <2>4, <2>5, <2>6, BoundKept
<1>6. ASSUME NEW o \in DOMAIN opens, Serve(o) \/ Reply(o) \/ Refuse(o) \/ Frame(o) PROVE CallsBound'
  BY <1>6, BoundServe, BoundReply, BoundOthers
<1>7. ASSUME NEW c \in DOMAIN compacts, ServeCompact(c) \/ CompactReply(c) PROVE CallsBound'
  BY <1>1, <1>7, BoundStill DEF ServeCompact, CompactReply, shell
<1>8. CASE Lag \/ ForwardEnds
  <2>1. opens' = opens /\ unsubs' = unsubs
    BY <1>8 DEF Lag, ForwardEnds
  <2>2. \A t \in Threads : unsubs'[t] <= unsubs[t]
    BY <1>1, <2>1
  <2> QED BY <2>1, <2>2, BoundStill
<1>9. CASE UNCHANGED vars
  BY <1>1, <1>9, BoundStill DEF vars, shell
<1> QED BY <1>2, <1>3, <1>4, <1>5, <1>6, <1>7, <1>8, <1>9 DEF Next

LEMMA Boundedness == Spec => []CallsBound
<1>1. Init => CallsBound
  <2> SUFFICES ASSUME Init PROVE CallsBound
    OBVIOUS
  <2>1. opens = <<>> /\ unsubs = [t \in Threads |-> 0] /\ 0 <= MaxOpens
    BY StoreAssumption DEF Init
  <2>2. Silent(opens) = {}
    BY <2>1 DEF Silent
  <2>3. Cardinality(Silent(opens)) = 0
    BY <2>2, FS_EmptySet
  <2> QED BY <2>1, <2>3 DEF CallsBound
<1>2. IInv /\ IInv' /\ CallsBound /\ [Next]_vars => CallsBound'
  BY BoundNext
<1> QED BY <1>1, <1>2, Invariance, PTL DEF Spec

(* The types of the state; no thread is ever named by more calls of        *)
(* events_unsubscribe than there were opens (cleanupUnlisten).             *)
THEOREM TypeCorrect == Spec => []TypeOK
<1>1. IInv /\ CallsBound => TypeOK
  <2> SUFFICES ASSUME IInv, CallsBound PROVE TypeOK
    OBVIOUS
  <2>1. opens \in Seq(OpenRecords) /\ Len(opens) \in Nat /\ MaxOpens \in Nat /\ MaxEvents \in Nat
    BY DomainFacts, StoreAssumption DEF IInv, OpensShape
  <2>2. Cardinality(Silent(opens)) \in Nat /\ Cardinality(Silent(opens)) <= MaxOpens
    <3>1. Cardinality(Silent(opens)) \in Nat /\ Cardinality(Silent(opens)) <= Len(opens)
      BY <2>1, SilentFacts
    <3> QED BY <2>1, <3>1 DEF CallsBound
  <2>3. \A t \in Threads : unsubs[t] \in 0 .. MaxOpens /\ log[t] \in 0 .. MaxEvents
    <3> SUFFICES ASSUME NEW t \in Threads PROVE unsubs[t] \in 0 .. MaxOpens /\ log[t] \in 0 .. MaxEvents
      OBVIOUS
    <3>1. unsubs[t] \in Nat /\ unsubs[t] <= Cardinality(Silent(opens))
      BY DEF IInv, ShellShape, CallsBound
    <3>2. log[t] \in Nat /\ log[t] <= MaxEvents
      BY DEF IInv, ShellShape
    <3> QED BY <2>1, <2>2, <3>1, <3>2
  <2>4. log \in [Threads -> 0 .. MaxEvents] /\ unsubs \in [Threads -> 0 .. MaxOpens]
    BY <2>3 DEF IInv, ShellShape
  <2>5. task = NoTask \/ (task.thread \in Threads /\ task.at <= log[task.thread]
                                                  /\ task.by \in DOMAIN opens)
    BY DEF IInv, ShellShape, TaskOwned, Tasks
  <2>6. \A o \in DOMAIN opens : opens[o].pc \in Stages /\ opens[o].thread \in Threads
    BY DomainFacts, RecordFacts DEF IInv
  <2> QED BY <2>4, <2>5, <2>6 DEF TypeOK, IInv, Pointed, ScreenShape
<1> QED BY <1>1, Invariance, Boundedness, PTL
=============================================================================
