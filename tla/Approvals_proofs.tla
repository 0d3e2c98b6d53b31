-------------------------- MODULE Approvals_proofs --------------------------
(***************************************************************************)
(* Theorems about Approvals, for any finite set of threads, any clients    *)
(* and any number of requests, failed commands, refused records and        *)
(* restarts.                                                               *)
(***************************************************************************)
EXTENDS Approvals, FiniteSetTheorems, TLAPS

(* The inductive invariant.                                                *)

ActorStates == {"idle", "turn", "asking", "created", "cancelCommands", "cancelQuestions",
                "interrupted", "take", "running", "record"}
Working == {"created", "running", "record"}
ActorType == [pc : ActorStates, key : Keys, body : Bodies \cup {0}, client : Clients \cup {Nobody}]

RequestStates == {"idle", "restore", "answer", "sent", "served"}
RequestType == [pc : RequestStates, thread : Threads \cup {Nobody}, key : Keys,
                accept : BOOLEAN, body : Bodies \cup {0}]

\* The maps from some keys to values of S.
MapsTo(S) == UNION {[D -> S] : D \in SUBSET Keys}
Entry == [thread : Threads, body : Bodies, answered : BOOLEAN]

\* The variables hold what the code's types allow; what an actor has created, runs or records
\* has a body, and so has what a client restores.
TypeOK ==
  /\ loaded \in [Threads -> BOOLEAN]
  /\ stored \in [Threads -> MapsTo(Bodies)] /\ live \in [Threads -> MapsTo(Bodies)]
  /\ policy \in MapsTo(Entry)
  /\ made \in 0 .. MaxMade /\ nextId \in 1 .. made + 1 /\ old \in 1 .. made + 1
  /\ actor \in [Threads -> ActorType]
  /\ \A t \in Threads : actor[t].pc \in Working => actor[t].body \in Bodies
  /\ request \in [Clients -> RequestType]
  /\ \A c \in Clients : request[c].pc = "restore" =>
       request[c].thread \in Threads /\ request[c].body \in Bodies
  /\ restarts \in 0 .. MaxRestarts /\ reused \in BOOLEAN /\ lost \in [Threads -> SUBSET Keys]
  /\ ran \subseteq [body : Bodies, asked : Bodies]
  /\ runs \in [Bodies -> Nat] /\ cut \in [Bodies -> Nat]
  /\ decided \subseteq Bodies

\* The actor takes a request that the overlay shows, and only of a loaded thread.
TakesLive ==
  \A t \in Threads : actor[t].pc = "take" => loaded[t] /\ actor[t].key \in DOMAIN live[t]

\* The overlay has what the file shows, except what was lost to a refused record, and while an
\* interrupt is on its way.
Cancelling == {"cancelCommands", "cancelQuestions", "interrupted"}
OverlayHasFile ==
  \A t \in Threads :
    loaded[t] /\ actor[t].pc \notin Cancelling =>
      DOMAIN stored[t] \subseteq DOMAIN live[t] \cup lost[t]

\* Where the request of thread t with key k and body b may be.
In(f, k, b) == k \in DOMAIN f /\ f[k] = b
Shared(k, t, b) == k \in DOMAIN policy /\ policy[k].thread = t /\ policy[k].body = b
AtActor(k, t, b, states) == actor[t].pc \in states /\ actor[t].key = k /\ actor[t].body = b
AtClient(k, t, b) ==
  \E c \in Clients :
    request[c].pc = "restore" /\ request[c].key = k /\ request[c].thread = t /\ request[c].body = b

Known(k, t, b) ==
  \/ In(live[t], k, b) \/ In(stored[t], k, b) \/ Shared(k, t, b)
  \/ AtActor(k, t, b, Working) \/ AtClient(k, t, b)

\* Still to be decided: in the overlay, in the file, or on its way there.
Open(k, t, b) ==
  In(live[t], k, b) \/ In(stored[t], k, b) \/ AtActor(k, t, b, {"created"})

\* A key stands for one request of one thread, and so does a body; none has an id or a body
\* that is still to be given.
Coherent ==
  \A k \in Keys, t \in Threads, b \in Bodies :
    Known(k, t, b) =>
      /\ b <= made /\ (k[2] < nextId \/ k[2] < old)
      /\ \A l \in Keys, u \in Threads, d \in Bodies :
           Known(l, u, d) /\ (l = k \/ d = b) => l = k /\ u = t /\ d = b

\* What is decided is not open, and was made.
Settled ==
  /\ \A k \in Keys, t \in Threads, b \in Bodies : Open(k, t, b) => b \notin decided
  /\ \A b \in decided : b <= made

Running(b) == \E t \in Threads : actor[t].pc = "running" /\ actor[t].body = b

\* A body that is neither decided nor running has been cut off as often as it was started.
Attempts ==
  \A b \in Bodies : runs[b] <= 1 + cut[b] /\ (b \notin decided /\ ~Running(b) => runs[b] <= cut[b])

\* So it is unless an id was given again.
Sound == ~reused => Coherent /\ Settled /\ Attempts

IInv == TypeOK /\ TakesLive /\ OverlayHasFile /\ Sound /\ RanAsAsked

-----------------------------------------------------------------------------
(* Maps, and the records of the actors and the clients.                    *)

LEMMA Numbers == MaxMade \in Nat \ {0} /\ MaxRestarts \in Nat /\ Bodies \subseteq Nat
BY BoundsAssumption DEF Bodies

LEMMA MapFacts ==
  ASSUME NEW S, NEW f
  PROVE  f \in MapsTo(S) <=> DOMAIN f \subseteq Keys /\ f \in [DOMAIN f -> S]
BY DEF MapsTo

LEMMA EmptyMap == ASSUME NEW S PROVE Empty \in MapsTo(S) /\ DOMAIN Empty = {}
<1>1. DOMAIN Empty = {} /\ Empty \in [{} -> S]
  BY DEF Empty
<1> QED BY <1>1, MapFacts

\* With puts one value into a map ...
LEMMA WithMap ==
  ASSUME NEW S, NEW f \in MapsTo(S), NEW k \in Keys, NEW v \in S
  PROVE  /\ With(f, k, v) \in MapsTo(S) /\ DOMAIN With(f, k, v) = DOMAIN f \cup {k}
         /\ With(f, k, v)[k] = v
         /\ \A l \in DOMAIN f : l # k => With(f, k, v)[l] = f[l]
<1>1. DOMAIN f \subseteq Keys /\ f \in [DOMAIN f -> S]
  BY MapFacts
<1>2. DOMAIN With(f, k, v) = DOMAIN f \cup {k}
  BY DEF With
<1>3. /\ With(f, k, v)[k] = v
      /\ \A l \in DOMAIN f : l # k => With(f, k, v)[l] = f[l]
  BY DEF With
<1>4. With(f, k, v) \in [DOMAIN f \cup {k} -> S]
  BY <1>1 DEF With
<1> QED BY <1>1, <1>2, <1>3, <1>4, MapFacts

\* ... and Without takes some out.
LEMMA WithoutMap ==
  ASSUME NEW S, NEW f \in MapsTo(S), NEW D
  PROVE  /\ Without(f, D) \in MapsTo(S) /\ DOMAIN Without(f, D) = DOMAIN f \ D
         /\ \A l \in DOMAIN f \ D : Without(f, D)[l] = f[l]
<1>1. DOMAIN f \subseteq Keys /\ f \in [DOMAIN f -> S]
  BY MapFacts
<1>2. /\ DOMAIN Without(f, D) = DOMAIN f \ D
      /\ \A l \in DOMAIN f \ D : Without(f, D)[l] = f[l]
  BY DEF Without
<1>3. Without(f, D) \in [DOMAIN f \ D -> S]
  BY <1>1 DEF Without
<1> QED BY <1>1, <1>2, <1>3, MapFacts

\* What is in a map is a key with a value of the map.
LEMMA InMap ==
  ASSUME NEW S, NEW f \in MapsTo(S), NEW k \in DOMAIN f
  PROVE  k \in Keys /\ f[k] \in S
BY MapFacts

LEMMA IdleTypes == Idle \in ActorType /\ NoRequest \in RequestType
<1>1. <<"command", 1>> \in Keys
  BY Numbers DEF Keys, Kinds
<1> QED BY <1>1 DEF Idle, NoRequest, ActorType, RequestType, ActorStates, RequestStates

\* The step of one actor keeps the types of all.
LEMMA ActorKept ==
  ASSUME TypeOK, NEW t \in Threads, NEW a \in ActorType, a.pc \in Working => a.body \in Bodies,
         actor' = [actor EXCEPT ![t] = a]
  PROVE  /\ actor' \in [Threads -> ActorType]
         /\ \A u \in Threads : actor'[u].pc \in Working => actor'[u].body \in Bodies
BY DEF TypeOK

\* So does the step of one client.
LEMMA RequestKept ==
  ASSUME TypeOK, NEW c \in Clients, NEW r \in RequestType,
         r.pc = "restore" => r.thread \in Threads /\ r.body \in Bodies,
         request' = [request EXCEPT ![c] = r]
  PROVE  /\ request' \in [Clients -> RequestType]
         /\ \A d \in Clients : request'[d].pc = "restore" =>
              request'[d].thread \in Threads /\ request'[d].body \in Bodies
BY DEF TypeOK

LEMMA GotoTypes ==
  ASSUME TypeOK, NEW t \in Threads, NEW pc \in ActorStates, pc \notin Working, Goto(t, pc)
  PROVE  /\ actor' \in [Threads -> ActorType]
         /\ \A u \in Threads : actor'[u].pc \in Working => actor'[u].body \in Bodies
<1> DEFINE a == [actor[t] EXCEPT !.pc = pc]
<1>1. a \in ActorType /\ a.pc = pc
  BY DEF TypeOK, ActorType
<1>2. actor' = [actor EXCEPT ![t] = a]
  BY DEF Goto
<1> HIDE DEF a
<1> QED BY <1>1, <1>2, ActorKept

LEMMA RestTypes ==
  ASSUME TypeOK, NEW t \in Threads, Rest(t)
  PROVE  /\ actor' \in [Threads -> ActorType]
         /\ \A u \in Threads : actor'[u].pc \in Working => actor'[u].body \in Bodies
BY IdleTypes, ActorKept DEF Rest, Idle, Working

LEMMA LeaveTypes ==
  ASSUME TypeOK, NEW t \in Threads, NEW c, Leave(t, c)
  PROVE  /\ actor' \in [Threads -> ActorType]
         /\ \A u \in Threads : actor'[u].pc \in Working => actor'[u].body \in Bodies
         /\ request' \in [Clients -> RequestType]
         /\ \A d \in Clients : request'[d].pc = "restore" =>
              request'[d].thread \in Threads /\ request'[d].body \in Bodies
<1>1. request' = [request EXCEPT ![c] = NoRequest]
  BY DEF Leave
<1>2. NoRequest \in RequestType /\ NoRequest.pc = "idle"
  BY IdleTypes DEF NoRequest
<1>3. CASE c \in Clients
  BY <1>1, <1>2, <1>3, RequestKept, RestTypes DEF Leave
<1>4. CASE c \notin Clients
  <2>1. request' = request
    BY <1>1, <1>4 DEF TypeOK
  <2> QED BY <2>1, RestTypes DEF Leave, TypeOK
<1> QED BY <1>3, <1>4

LEMMA SendTypes ==
  ASSUME TypeOK, NEW c \in Clients, NEW pc \in {"answer", "sent", "served"},
         request' = [request EXCEPT ![c].pc = pc]
  PROVE  /\ request' \in [Clients -> RequestType]
         /\ \A d \in Clients : request'[d].pc = "restore" =>
              request'[d].thread \in Threads /\ request'[d].body \in Bodies
<1> DEFINE r == [request[c] EXCEPT !.pc = pc]
<1>1. r \in RequestType /\ r.pc = pc
  BY DEF TypeOK, RequestType, RequestStates
<1>2. request' = [request EXCEPT ![c] = r]
  OBVIOUS
<1> HIDE DEF r
<1> QED BY <1>1, <1>2, RequestKept

\* A handler that has restored its request keeps no body.
LEMMA RestoreMoves ==
  ASSUME TypeOK, NEW c \in Clients, Restore(c)
  PROVE  /\ request' \in [Clients -> RequestType]
         /\ request'[c].pc \in {"answer", "sent"}
         /\ \A d \in Clients \ {c} : request'[d] = request[d]
         /\ \A d \in Clients : request'[d].pc = "restore" =>
              request'[d].thread \in Threads /\ request'[d].body \in Bodies
<1>1. PICK pc \in {"answer", "sent"} :
        request' = [request EXCEPT ![c].body = 0, ![c].pc = pc]
  BY DEF Restore
<1> DEFINE r == [request[c] EXCEPT !.body = 0, !.pc = pc]
<1>2. r \in RequestType /\ r.pc = pc
  BY DEF TypeOK, RequestType, RequestStates
<1>3. request' = [request EXCEPT ![c] = r]
  BY <1>1
<1> HIDE DEF r
<1>4. request'[c] = r /\ \A d \in Clients \ {c} : request'[d] = request[d]
  BY <1>3 DEF TypeOK
<1> QED BY <1>2, <1>3, <1>4, RequestKept

\* Of the steps of a turn and of an interrupt.
LEMMA TurnTypes ==
  ASSUME TypeOK, NEW t \in Threads, TurnStep(t) \/ InterruptStep(t)
  PROVE  TypeOK'
<1> USE DEF faults, ids, history
<1>1. CASE StartTurn(t)
  BY <1>1, GotoTypes DEF StartTurn, TypeOK, ActorStates, Working
<1>2. CASE EndTurn(t)
  BY <1>2, RestTypes DEF EndTurn, TypeOK
<1>3. CASE MayAsk(t)
  BY <1>3, GotoTypes DEF MayAsk, TypeOK, ActorStates, Working
<1>4. CASE RecordRequest(t)
  <2>1. actor[t].key \in Keys /\ actor[t].body \in Bodies
    BY <1>4 DEF RecordRequest, At, TypeOK, ActorType, Working
  <2>2. /\ With(live[t], actor[t].key, actor[t].body) \in MapsTo(Bodies)
        /\ With(stored[t], actor[t].key, actor[t].body) \in MapsTo(Bodies)
    <3>1. live[t] \in MapsTo(Bodies) /\ stored[t] \in MapsTo(Bodies)
      BY DEF TypeOK
    <3> QED BY <2>1, <3>1, WithMap
  <2>3. /\ [Idle EXCEPT !.pc = "turn"] \in ActorType
        /\ [Idle EXCEPT !.pc = "turn"].pc = "turn"
    BY IdleTypes DEF ActorType, ActorStates, Idle
  <2>4. /\ actor' \in [Threads -> ActorType]
        /\ \A u \in Threads : actor'[u].pc \in Working => actor'[u].body \in Bodies
    BY <1>4, <2>3, ActorKept DEF RecordRequest, Working
  <2> QED BY <1>4, <2>2, <2>4 DEF RecordRequest, TypeOK
<1>5. CASE InterruptTurn(t)
  <2>1. stored' \in [Threads -> MapsTo(Bodies)]
    BY <1>5, EmptyMap DEF InterruptTurn, TypeOK
  <2> QED BY <1>5, <2>1, RestTypes DEF InterruptTurn, TypeOK
<1>6. ASSUME NEW kind \in Kinds, Create(t, kind)
      PROVE  TypeOK'
  <2> DEFINE key == <<kind, NewId>>
             a == [actor[t] EXCEPT !.pc = "created", !.key = key, !.body = made']
  <2>1. made + 1 \in Bodies /\ made' = made + 1 /\ key \in Keys /\ nextId' = nextId + 1
    BY <1>6, Numbers DEF Create, TypeOK, Bodies, Keys, NewId
  <2>2. [thread |-> t, body |-> made', answered |-> FALSE] \in Entry
    BY <2>1 DEF Entry
  <2>3. policy' \in MapsTo(Entry)
    BY <1>6, <2>1, <2>2, WithMap DEF Create, TypeOK
  <2>4. a \in ActorType /\ a.body = made' /\ actor' = [actor EXCEPT ![t] = a]
    <3>1. actor[t] \in ActorType /\ actor' = [actor EXCEPT ![t] = a]
      BY <1>6 DEF Create, TypeOK
    <3> QED BY <2>1, <3>1 DEF ActorType, ActorStates
  <2> HIDE DEF a, key
  <2>5. /\ actor' \in [Threads -> ActorType]
        /\ \A u \in Threads : actor'[u].pc \in Working => actor'[u].body \in Bodies
    BY <2>1, <2>4, ActorKept
  <2>6. /\ made' \in 0 .. MaxMade /\ nextId' \in 1 .. made' + 1 /\ old' \in 1 .. made' + 1
        /\ reused' \in BOOLEAN
    BY <1>6, <2>1, Numbers DEF Create, TypeOK, Bodies
  <2> QED BY <1>6, <2>3, <2>5, <2>6 DEF Create, TypeOK
<1>7. CASE ClearOverlay(t)
  BY <1>7, GotoTypes, EmptyMap DEF ClearOverlay, TypeOK, ActorStates, Working
<1>8. CASE CancelCommands(t)
  <2>1. policy' \in MapsTo(Entry)
    BY <1>8, WithoutMap DEF CancelCommands, TypeOK
  <2> QED BY <1>8, <2>1, GotoTypes DEF CancelCommands, TypeOK, ActorStates, Working
<1>9. CASE CancelQuestions(t)
  <2>1. policy' \in MapsTo(Entry)
    BY <1>9, WithoutMap DEF CancelQuestions, TypeOK
  <2> QED BY <1>9, <2>1, GotoTypes DEF CancelQuestions, TypeOK, ActorStates, Working
<1>10. CASE RecordInterrupt(t)
  BY <1>10, RestTypes, EmptyMap DEF RecordInterrupt, TypeOK
<1>11. CASE RefuseRequest(t)
  <2>1. actor[t].key \in Keys /\ actor[t].body \in Bodies /\ live[t] \in MapsTo(Bodies)
    BY <1>11 DEF RefuseRequest, At, TypeOK, ActorType, Working
  <2>2. With(live[t], actor[t].key, actor[t].body) \in MapsTo(Bodies)
    BY <2>1, WithMap
  <2> QED BY <1>11, <2>2, RestTypes DEF RefuseRequest, TypeOK
<1>12. CASE RefuseInterrupt(t)
  <2>1. DOMAIN stored[t] \subseteq Keys
    BY MapFacts DEF TypeOK
  <2>2. lost' \in [Threads -> SUBSET Keys]
    BY <1>12, <2>1 DEF RefuseInterrupt, TypeOK
  <2> QED BY <1>12, <2>2, RestTypes DEF RefuseInterrupt, TypeOK
<1> QED BY <1>1, <1>2, <1>3, <1>4, <1>5, <1>6, <1>7, <1>8, <1>9, <1>10, <1>11, <1>12
        DEF TurnStep, InterruptStep

\* Of the steps of a client, of its decision, and of the process.
LEMMA RequestTypes ==
  ASSUME TypeOK, NEW c \in Clients, RequestStep(c)
  PROVE  TypeOK'
<1> USE DEF faults, ids, history
<1>1. ASSUME NEW t \in Threads, NEW k \in Keys, NEW accept \in BOOLEAN, Submit(c, t, k, accept)
      PROVE  TypeOK'
  <2> DEFINE r == [pc |-> IF k \in DOMAIN stored[t] THEN "restore"
                          ELSE IF k[1] = "question" /\ accept THEN "answer" ELSE "sent",
                   thread |-> t, key |-> k, accept |-> accept,
                   body |-> IF k \in DOMAIN stored[t] THEN stored[t][k] ELSE 0]
  <2>1. stored[t] \in MapsTo(Bodies)
    BY DEF TypeOK
  <2>2. k \in DOMAIN stored[t] => stored[t][k] \in Bodies
    BY <2>1, InMap
  <2>3. r \in RequestType
    BY <2>2 DEF RequestType, RequestStates
  <2>4. r.pc = "restore" => r.thread \in Threads /\ r.body \in Bodies
    BY <2>2
  <2>5. request' = [request EXCEPT ![c] = r]
    BY <1>1 DEF Submit
  <2> HIDE DEF r
  <2>6. /\ request' \in [Clients -> RequestType]
        /\ \A d \in Clients : request'[d].pc = "restore" =>
             request'[d].thread \in Threads /\ request'[d].body \in Bodies
    BY <2>3, <2>4, <2>5, RequestKept
  <2> QED BY <1>1, <2>6 DEF Submit, TypeOK
<1>2. CASE Restore(c)
  <2>1. request[c].key \in Keys /\ request[c].thread \in Threads /\ request[c].body \in Bodies
    BY <1>2 DEF Restore, TypeOK, RequestType
  <2>2. [thread |-> request[c].thread, body |-> request[c].body, answered |-> FALSE] \in Entry
    BY <2>1 DEF Entry
  <2>3. policy \in MapsTo(Entry)
    BY DEF TypeOK
  <2>4. policy' \in MapsTo(Entry)
    BY <1>2, <2>1, <2>2, <2>3, WithMap DEF Restore
  <2> QED BY <1>2, <2>4, RestoreMoves DEF Restore, TypeOK
<1>3. CASE Answer(c)
  <2> DEFINE k == request[c].key
  <2>1. CASE k \in DOMAIN policy
    <3> DEFINE e == [policy[k] EXCEPT !.answered = TRUE]
    <3>1. policy \in MapsTo(Entry) /\ k \in Keys /\ policy[k] \in Entry
      BY <2>1, InMap DEF TypeOK
    <3>2. e \in Entry /\ policy' = [policy EXCEPT ![k] = e]
      BY <1>3, <2>1, <3>1 DEF Answer, Entry
    <3> HIDE DEF e
    <3>3. policy' \in MapsTo(Entry)
      BY <3>1, <3>2, MapFacts
    <3>4. request' = [request EXCEPT ![c].pc = "sent"]
      BY <1>3, <2>1 DEF Answer
    <3> QED BY <1>3, <3>3, <3>4, SendTypes DEF Answer, TypeOK
  <2>2. CASE k \notin DOMAIN policy
    <3>1. request' = [request EXCEPT ![c] = NoRequest] /\ policy' = policy
      BY <1>3, <2>2 DEF Answer
    <3>2. NoRequest \in RequestType /\ NoRequest.pc = "idle"
      BY IdleTypes DEF NoRequest
    <3>3. /\ request' \in [Clients -> RequestType]
          /\ \A d \in Clients : request'[d].pc = "restore" =>
               request'[d].thread \in Threads /\ request'[d].body \in Bodies
      BY <3>1, <3>2, RequestKept
    <3> QED BY <1>3, <3>1, <3>3 DEF Answer, TypeOK
  <2> QED BY <2>1, <2>2
<1> QED BY <1>1, <1>2, <1>3 DEF RequestStep

LEMMA DecisionTypes ==
  ASSUME TypeOK, TakesLive, NEW t \in Threads, DecisionStep(t)
  PROVE  TypeOK'
<1> USE DEF faults, ids, history
<1>1. ASSUME NEW c \in Clients, TakeOp(t, c)
      PROVE  TypeOK'
  <2>1. CASE Pending(t, request[c].key)
    <3> DEFINE a == [pc |-> "take", key |-> request[c].key, body |-> 0, client |-> c]
    <3>1. a \in ActorType /\ a.pc = "take"
      BY DEF TypeOK, ActorType, ActorStates, RequestType
    <3>2. actor' = [actor EXCEPT ![t] = a] /\ request' = [request EXCEPT ![c].pc = "served"]
      BY <1>1, <2>1 DEF TakeOp
    <3> HIDE DEF a
    <3>3. /\ actor' \in [Threads -> ActorType]
          /\ \A u \in Threads : actor'[u].pc \in Working => actor'[u].body \in Bodies
      BY <3>1, <3>2, ActorKept DEF Working
    <3> QED BY <1>1, <3>2, <3>3, SendTypes DEF TakeOp, TypeOK
  <2>2. CASE ~Pending(t, request[c].key)
    BY <1>1, <2>2, LeaveTypes DEF TakeOp, TypeOK
  <2> QED BY <2>1, <2>2
<1>2. CASE Take(t)
  <2> DEFINE k == actor[t].key
             starts == k[1] = "command" /\ request[actor[t].client].accept
             a == [actor[t] EXCEPT !.pc = IF starts THEN "running" ELSE "record",
                                   !.body = policy[k].body]
  <2>1. policy \in MapsTo(Entry) /\ live[t] \in MapsTo(Bodies) /\ k \in DOMAIN policy /\ k \in DOMAIN live[t]
    BY <1>2 DEF Take, TypeOK, TakesLive, At
  <2>2. policy[k] \in Entry /\ live[t][k] \in Bodies
    BY <2>1, InMap
  <2>3. policy[k].body \in Bodies
    BY <2>2 DEF Entry
  <2>4. policy' \in MapsTo(Entry)
    BY <1>2, <2>1, WithoutMap DEF Take
  <2>5. /\ a.pc \in {"running", "record"} /\ a.body = policy[k].body
        /\ a \in ActorType
    <3>1. actor[t] \in ActorType
      BY DEF TypeOK
    <3> QED BY <2>3, <3>1 DEF ActorType, ActorStates
  <2>6. actor' = [actor EXCEPT ![t] = a]
    BY <1>2 DEF Take
  <2> HIDE DEF a
  <2>7. /\ actor' \in [Threads -> ActorType]
        /\ \A u \in Threads : actor'[u].pc \in Working => actor'[u].body \in Bodies
    BY <2>3, <2>5, <2>6, ActorKept
  <2>8. ran' \subseteq [body : Bodies, asked : Bodies]
    BY <1>2, <2>2, <2>3 DEF Take, TypeOK
  <2>9. runs' \in [Bodies -> Nat]
    BY <1>2, <2>3 DEF Take, TypeOK
  <2> QED BY <1>2, <2>4, <2>7, <2>8, <2>9 DEF Take, TypeOK
<1>3. CASE TakeNothing(t)
  BY <1>3, LeaveTypes DEF TakeNothing, TypeOK
<1>4. CASE RunFails(t)
  <2>1. actor[t].body \in Bodies
    BY <1>4 DEF RunFails, At, TypeOK, Working
  <2>2. cut' \in [Bodies -> Nat]
    BY <1>4, <2>1 DEF RunFails, TypeOK
  <2> QED BY <1>4, <2>2, LeaveTypes DEF RunFails, TypeOK
<1>5. CASE RecordDecision(t)
  <2>1. actor[t].body \in Bodies
    BY <1>5 DEF RecordDecision, At, TypeOK, Working
  <2>2. live[t] \in MapsTo(Bodies) /\ stored[t] \in MapsTo(Bodies)
    BY DEF TypeOK
  <2>3. /\ Without(live[t], {actor[t].key}) \in MapsTo(Bodies)
        /\ Without(stored[t], {actor[t].key}) \in MapsTo(Bodies)
    BY <2>2, WithoutMap
  <2> QED BY <1>5, <2>1, <2>3, LeaveTypes DEF RecordDecision, TypeOK
<1>6. CASE RefuseDecision(t)
  <2>1. actor[t].body \in Bodies /\ live[t] \in MapsTo(Bodies) /\ actor[t].key \in Keys
    BY <1>6 DEF RefuseDecision, At, TypeOK, ActorType, Working
  <2>2. Without(live[t], {actor[t].key}) \in MapsTo(Bodies)
    BY <2>1, WithoutMap
  <2>3. cut' \in [Bodies -> Nat]
    BY <1>6, <2>1 DEF RefuseDecision, TypeOK
  <2>4. lost' \in [Threads -> SUBSET Keys]
    BY <1>6, <2>1 DEF RefuseDecision, TypeOK
  <2> QED BY <1>6, <2>2, <2>3, <2>4, LeaveTypes DEF RefuseDecision, TypeOK
<1> QED BY <1>1, <1>2, <1>3, <1>4, <1>5, <1>6 DEF DecisionStep

LEMMA RestartTypes ==
  ASSUME TypeOK, Restart
  PROVE  /\ TypeOK'
         /\ \A b \in Bodies : cut'[b] >= cut[b] /\ (Running(b) => cut'[b] >= cut[b] + 1)
<1> DEFINE S(b) == {t \in Threads : actor[t].pc = "running" /\ actor[t].body = b}
<1>1. \A b \in Bodies : cut'[b] = cut[b] + Cardinality(S(b)) /\ cut[b] \in Nat
  BY DEF Restart, TypeOK
<1>2. ASSUME NEW b \in Bodies
      PROVE  Cardinality(S(b)) \in Nat /\ (Running(b) => Cardinality(S(b)) # 0)
  <2>1. IsFiniteSet(S(b))
    BY ThreadsAssumption, FS_Subset
  <2>2. Running(b) => S(b) # {}
    BY DEF Running
  <2> QED BY <2>1, <2>2, FS_CardinalityType, FS_EmptySet
<1> HIDE DEF S
<1>3. \A b \in Bodies : cut'[b] \in Nat /\ cut'[b] >= cut[b] /\ (Running(b) => cut'[b] >= cut[b] + 1)
  BY <1>1, <1>2
<1>4. cut' = [b \in Bodies |-> cut'[b]]
  BY DEF Restart
<1>5. cut' \in [Bodies -> Nat]
  BY <1>3, <1>4
<1>6. /\ actor' \in [Threads -> ActorType]
      /\ \A t \in Threads : actor'[t].pc \in Working => actor'[t].body \in Bodies
  BY IdleTypes DEF Restart, Idle, Working
<1>7. /\ request' \in [Clients -> RequestType]
      /\ \A c \in Clients : request'[c].pc = "restore" =>
           request'[c].thread \in Threads /\ request'[c].body \in Bodies
  BY IdleTypes DEF Restart, NoRequest
<1>8. /\ nextId' \in 1 .. made' + 1 /\ old' \in 1 .. made' + 1 /\ restarts' \in 0 .. MaxRestarts
      /\ lost' \in [Threads -> SUBSET Keys]
  BY Numbers DEF Restart, TypeOK
<1>9. policy' \in MapsTo(Entry) /\ live' \in [Threads -> MapsTo(Bodies)]
  BY EmptyMap DEF Restart
<1> QED BY <1>3, <1>5, <1>6, <1>7, <1>8, <1>9 DEF Restart, TypeOK

LEMMA TypesKept ==
  ASSUME TypeOK, TakesLive, [Next]_vars
  PROVE  TypeOK'
<1>1. ASSUME NEW t \in Threads, Load(t)
      PROVE  TypeOK'
  BY <1>1 DEF Load, TypeOK, faults, ids, history
<1>2. CASE UNCHANGED vars
  BY <1>2 DEF vars, TypeOK, faults, ids, history
<1> QED BY <1>1, <1>2, TurnTypes, RequestTypes, DecisionTypes, RestartTypes DEF Next

LEMMA InitTypes == Init => TypeOK
<1> SUFFICES ASSUME Init PROVE TypeOK
  OBVIOUS
<1>1. /\ Empty \in MapsTo(Bodies) /\ Empty \in MapsTo(Entry)
      /\ Idle \in ActorType /\ Idle.pc = "idle" /\ NoRequest \in RequestType /\ NoRequest.pc = "idle"
  BY EmptyMap, IdleTypes DEF Idle, NoRequest
<1>2. 0 \in 0 .. MaxMade /\ 1 \in 1 .. 0 + 1 /\ 0 \in 0 .. MaxRestarts
  BY Numbers
<1>3. /\ stored \in [Threads -> MapsTo(Bodies)] /\ live \in [Threads -> MapsTo(Bodies)]
      /\ actor \in [Threads -> ActorType] /\ request \in [Clients -> RequestType]
  BY <1>1 DEF Init
<1>4. /\ \A t \in Threads : actor[t].pc \notin Working
      /\ \A c \in Clients : request[c].pc # "restore"
  BY <1>1 DEF Init, Working
<1>5. runs \in [Bodies -> Nat] /\ cut \in [Bodies -> Nat]
  BY DEF Init
<1> QED BY <1>1, <1>2, <1>3, <1>4, <1>5 DEF Init, TypeOK

-----------------------------------------------------------------------------
(* The overlay, the file and what the actor takes.                         *)

\* What a step does with one actor.
LEMMA GotoMoves ==
  ASSUME TypeOK, NEW t \in Threads, NEW pc, Goto(t, pc)
  PROVE  /\ actor'[t].pc = pc /\ actor'[t].key = actor[t].key /\ actor'[t].body = actor[t].body
         /\ \A u \in Threads \ {t} : actor'[u] = actor[u]
BY DEF Goto, TypeOK, ActorType

LEMMA RestMoves ==
  ASSUME TypeOK, NEW t \in Threads, Rest(t)
  PROVE  actor'[t] = Idle /\ \A u \in Threads \ {t} : actor'[u] = actor[u]
BY DEF Rest, TypeOK

\* What a step does with the maps of one thread.
LEMMA RecordPuts ==
  ASSUME TypeOK, NEW t \in Threads, RecordRequest(t)
  PROVE  /\ actor[t].key \in Keys /\ actor[t].body \in Bodies
         /\ live' = [live EXCEPT ![t] = With(live[t], actor[t].key, actor[t].body)]
         /\ stored' = [stored EXCEPT ![t] = With(stored[t], actor[t].key, actor[t].body)]
         /\ DOMAIN live'[t] = DOMAIN live[t] \cup {actor[t].key}
         /\ DOMAIN stored'[t] = DOMAIN stored[t] \cup {actor[t].key}
         /\ \A k \in DOMAIN live'[t] :
              live'[t][k] = IF k = actor[t].key THEN actor[t].body ELSE live[t][k]
         /\ \A k \in DOMAIN stored'[t] :
              stored'[t][k] = IF k = actor[t].key THEN actor[t].body ELSE stored[t][k]
<1>1. actor[t].key \in Keys /\ actor[t].body \in Bodies
  BY DEF RecordRequest, At, TypeOK, ActorType, Working
<1>2. /\ live' = [live EXCEPT ![t] = With(live[t], actor[t].key, actor[t].body)]
      /\ stored' = [stored EXCEPT ![t] = With(stored[t], actor[t].key, actor[t].body)]
  BY DEF RecordRequest
<1>3. /\ live'[t] = With(live[t], actor[t].key, actor[t].body)
      /\ stored'[t] = With(stored[t], actor[t].key, actor[t].body)
  BY <1>2 DEF TypeOK
<1> QED BY <1>1, <1>2, <1>3 DEF With

LEMMA DecisionTakesOut ==
  ASSUME TypeOK, NEW t \in Threads, RecordDecision(t)
  PROVE  /\ live' = [live EXCEPT ![t] = Without(live[t], {actor[t].key})]
         /\ stored' = [stored EXCEPT ![t] = Without(stored[t], {actor[t].key})]
         /\ DOMAIN live'[t] = DOMAIN live[t] \ {actor[t].key}
         /\ DOMAIN stored'[t] = DOMAIN stored[t] \ {actor[t].key}
         /\ \A k \in DOMAIN live'[t] : live'[t][k] = live[t][k]
         /\ \A k \in DOMAIN stored'[t] : stored'[t][k] = stored[t][k]
<1>1. /\ live' = [live EXCEPT ![t] = Without(live[t], {actor[t].key})]
      /\ stored' = [stored EXCEPT ![t] = Without(stored[t], {actor[t].key})]
  BY DEF RecordDecision
<1>2. /\ live'[t] = Without(live[t], {actor[t].key})
      /\ stored'[t] = Without(stored[t], {actor[t].key})
  BY <1>1 DEF TypeOK
<1> QED BY <1>1, <1>2 DEF Without

\* When the storage refuses the record, only the overlay changes.
LEMMA RefusalPuts ==
  ASSUME TypeOK, NEW t \in Threads, RefuseRequest(t)
  PROVE  /\ actor[t].pc = "created" /\ Rest(t) /\ UNCHANGED <<loaded, stored, policy, request, lost>>
         /\ \A u \in Threads \ {t} : live'[u] = live[u]
         /\ DOMAIN live'[t] = DOMAIN live[t] \cup {actor[t].key}
         /\ \A k \in DOMAIN live'[t] :
              live'[t][k] = IF k = actor[t].key THEN actor[t].body ELSE live[t][k]
<1>1. /\ live' = [live EXCEPT ![t] = With(live[t], actor[t].key, actor[t].body)]
      /\ actor[t].pc = "created" /\ Rest(t) /\ UNCHANGED <<loaded, stored, policy, request, lost>>
  BY DEF RefuseRequest, At, faults
<1>2. /\ live'[t] = With(live[t], actor[t].key, actor[t].body)
      /\ \A u \in Threads \ {t} : live'[u] = live[u]
  BY <1>1 DEF TypeOK
<1> QED BY <1>1, <1>2 DEF With

LEMMA RefusalTakesOut ==
  ASSUME TypeOK, NEW t \in Threads, RefuseDecision(t)
  PROVE  /\ actor[t].pc \in {"running", "record"} /\ Leave(t, actor[t].client)
         /\ UNCHANGED <<loaded, stored, policy>>
         /\ \A u \in Threads \ {t} : live'[u] = live[u] /\ lost'[u] = lost[u]
         /\ DOMAIN live'[t] = DOMAIN live[t] \ {actor[t].key}
         /\ lost'[t] = lost[t] \cup ({actor[t].key} \cap DOMAIN stored[t])
         /\ \A k \in DOMAIN live'[t] : live'[t][k] = live[t][k]
<1>1. /\ live' = [live EXCEPT ![t] = Without(live[t], {actor[t].key})]
      /\ lost' = [lost EXCEPT ![t] = lost[t] \cup ({actor[t].key} \cap DOMAIN stored[t])]
      /\ actor[t].pc \in {"running", "record"} /\ Leave(t, actor[t].client)
      /\ UNCHANGED <<loaded, stored, policy>>
  BY DEF RefuseDecision, At
<1>2. /\ live'[t] = Without(live[t], {actor[t].key})
      /\ lost'[t] = lost[t] \cup ({actor[t].key} \cap DOMAIN stored[t])
      /\ \A u \in Threads \ {t} : live'[u] = live[u] /\ lost'[u] = lost[u]
  BY <1>1 DEF TypeOK
<1> QED BY <1>1, <1>2 DEF Without

\* The overlay of a thread changes with a step of its own actor.
LEMMA OneThread ==
  ASSUME TakesLive, OverlayHasFile, NEW t \in Threads,
         \A u \in Threads \ {t} :
           /\ actor'[u] = actor[u] /\ loaded'[u] = loaded[u]
           /\ live'[u] = live[u] /\ stored'[u] = stored[u] /\ lost'[u] = lost[u],
         actor'[t].pc = "take" => loaded'[t] /\ actor'[t].key \in DOMAIN live'[t],
         loaded'[t] /\ actor'[t].pc \notin Cancelling =>
           DOMAIN stored'[t] \subseteq DOMAIN live'[t] \cup lost'[t]
  PROVE  TakesLive' /\ OverlayHasFile'
<1>1. ASSUME NEW u \in Threads
      PROVE  /\ actor'[u].pc = "take" => loaded'[u] /\ actor'[u].key \in DOMAIN live'[u]
             /\ loaded'[u] /\ actor'[u].pc \notin Cancelling =>
                  DOMAIN stored'[u] \subseteq DOMAIN live'[u] \cup lost'[u]
  <2>1. CASE u = t
    BY <2>1
  <2>2. CASE u # t
    BY <2>2 DEF TakesLive, OverlayHasFile
  <2> QED BY <2>1, <2>2
<1> QED BY <1>1 DEF TakesLive, OverlayHasFile, Cancelling

LEMMA OverlayKept ==
  ASSUME TypeOK, TakesLive, OverlayHasFile, [Next]_vars
  PROVE  TakesLive' /\ OverlayHasFile'
<1>1. ASSUME UNCHANGED <<loaded, live, stored, lost, actor>>
      PROVE  TakesLive' /\ OverlayHasFile'
  BY <1>1 DEF TakesLive, OverlayHasFile, Cancelling
<1>2. ASSUME NEW t \in Threads, UNCHANGED <<loaded, live, stored, lost>>,
             \A u \in Threads \ {t} : actor'[u] = actor[u],
             actor'[t].pc = "take" => loaded[t] /\ actor'[t].key \in DOMAIN live[t],
             actor[t].pc \in Cancelling => actor'[t].pc \in Cancelling
      PROVE  TakesLive' /\ OverlayHasFile'
  BY <1>2, OneThread DEF OverlayHasFile
<1>3. ASSUME NEW t \in Threads, TurnStep(t) \/ InterruptStep(t)
      PROVE  TakesLive' /\ OverlayHasFile'
  <2>1. CASE StartTurn(t) \/ MayAsk(t) \/ CancelCommands(t) \/ CancelQuestions(t)
    <3>1. PICK pc \in {"turn", "asking", "cancelQuestions", "interrupted"} :
            /\ Goto(t, pc) /\ UNCHANGED <<loaded, live, stored, lost>>
            /\ actor[t].pc \in Cancelling => pc \in Cancelling
      BY <2>1 DEF StartTurn, MayAsk, CancelCommands, CancelQuestions, At, Cancelling, faults
    <3> QED BY <1>2, <3>1, GotoMoves
  <2>2. CASE EndTurn(t)
    BY <1>2, <2>2, RestMoves DEF EndTurn, At, Idle, Cancelling, faults
  <2>3. ASSUME NEW kind \in Kinds, Create(t, kind)
        PROVE  TakesLive' /\ OverlayHasFile'
    <3>1. /\ actor'[t].pc = "created" /\ \A u \in Threads \ {t} : actor'[u] = actor[u]
          /\ actor[t].pc \in {"turn", "asking"} /\ UNCHANGED <<loaded, live, stored, lost>>
      BY <2>3 DEF Create, At, TypeOK, ActorType, faults
    <3> QED BY <1>2, <3>1 DEF Cancelling
  <2>4. CASE RecordRequest(t)
    <3>1. /\ DOMAIN live'[t] = DOMAIN live[t] \cup {actor[t].key}
          /\ DOMAIN stored'[t] = DOMAIN stored[t] \cup {actor[t].key}
          /\ \A u \in Threads \ {t} : live'[u] = live[u] /\ stored'[u] = stored[u]
      BY <2>4, RecordPuts DEF TypeOK
    <3>2. /\ actor[t].pc = "created" /\ actor'[t].pc = "turn" /\ UNCHANGED <<loaded, lost>>
          /\ \A u \in Threads \ {t} : actor'[u] = actor[u]
      BY <2>4 DEF RecordRequest, At, TypeOK, Idle, faults
    <3>3. loaded[t] => DOMAIN stored[t] \subseteq DOMAIN live[t] \cup lost[t]
      BY <3>2 DEF OverlayHasFile, Cancelling
    <3> QED BY <3>1, <3>2, <3>3, OneThread
  <2>5. CASE InterruptTurn(t) \/ RecordInterrupt(t)
    <3>1. /\ actor'[t].pc = "idle" /\ UNCHANGED <<loaded, live, lost>>
          /\ \A u \in Threads \ {t} : actor'[u] = actor[u] /\ stored'[u] = stored[u]
      BY <2>5, RestMoves DEF InterruptTurn, RecordInterrupt, Idle, TypeOK, faults
    <3>2. stored'[t] = Empty \/ (stored'[t] = stored[t] /\ actor[t].pc \notin Cancelling)
      BY <2>5 DEF InterruptTurn, RecordInterrupt, At, Cancelling, TypeOK
    <3>3. loaded[t] => DOMAIN stored'[t] \subseteq DOMAIN live[t] \cup lost[t]
      BY <3>2, EmptyMap DEF OverlayHasFile
    <3> QED BY <3>1, <3>3, OneThread
  <2>6. CASE ClearOverlay(t)
    <3>1. /\ actor'[t].pc = "cancelCommands" /\ UNCHANGED <<loaded, stored, lost>>
          /\ \A u \in Threads \ {t} : actor'[u] = actor[u] /\ live'[u] = live[u]
      BY <2>6, GotoMoves DEF ClearOverlay, TypeOK, faults
    <3> QED BY <3>1, OneThread DEF Cancelling
  <2>7. CASE RefuseRequest(t)
    <3>1. /\ actor[t].pc = "created" /\ actor'[t].pc = "idle" /\ UNCHANGED <<loaded, stored, lost>>
          /\ \A u \in Threads \ {t} : actor'[u] = actor[u] /\ live'[u] = live[u]
          /\ DOMAIN live[t] \subseteq DOMAIN live'[t]
      BY <2>7, RefusalPuts, RestMoves DEF Idle
    <3>2. loaded[t] => DOMAIN stored[t] \subseteq DOMAIN live[t] \cup lost[t]
      BY <3>1 DEF OverlayHasFile, Cancelling
    <3> QED BY <3>1, <3>2, OneThread
  <2>8. CASE RefuseInterrupt(t)
    <3>1. /\ actor'[t].pc = "idle" /\ UNCHANGED <<loaded, stored, live>>
          /\ \A u \in Threads \ {t} : actor'[u] = actor[u] /\ lost'[u] = lost[u]
          /\ DOMAIN stored[t] \subseteq lost'[t]
      BY <2>8, RestMoves DEF RefuseInterrupt, Idle, TypeOK
    <3> QED BY <3>1, OneThread
  <2> QED BY <1>3, <2>1, <2>2, <2>3, <2>4, <2>5, <2>6, <2>7, <2>8 DEF TurnStep, InterruptStep
<1>4. ASSUME NEW t \in Threads, DecisionStep(t)
      PROVE  TakesLive' /\ OverlayHasFile'
  <2>1. ASSUME NEW c \in Clients, TakeOp(t, c)
        PROVE  TakesLive' /\ OverlayHasFile'
    <3>1. actor[t].pc = "idle" /\ UNCHANGED <<loaded, live, stored, lost>>
      BY <2>1 DEF TakeOp, At, faults
    <3>2. /\ \A u \in Threads \ {t} : actor'[u] = actor[u]
          /\ actor'[t].pc = "take" => loaded[t] /\ actor'[t].key \in DOMAIN live[t]
      BY <2>1 DEF TakeOp, At, Leave, Rest, Idle, Pending, TypeOK
    <3> QED BY <1>2, <3>1, <3>2 DEF Cancelling
  <2>2. CASE Take(t)
    <3>1. /\ actor[t].pc = "take" /\ UNCHANGED <<loaded, live, stored, lost>>
          /\ actor'[t].pc \in {"running", "record"}
          /\ \A u \in Threads \ {t} : actor'[u] = actor[u]
      BY <2>2 DEF Take, At, TypeOK, ActorType, faults
    <3> QED BY <1>2, <3>1 DEF Cancelling
  <2>3. CASE TakeNothing(t) \/ RunFails(t)
    <3>1. /\ actor[t].pc \in {"take", "running"} /\ UNCHANGED <<loaded, live, stored, lost>> /\ Rest(t)
      BY <2>3 DEF TakeNothing, RunFails, At, Leave, faults
    <3> QED BY <1>2, <3>1, RestMoves DEF Cancelling, Idle
  <2>4. CASE RecordDecision(t)
    <3>1. /\ DOMAIN live'[t] = DOMAIN live[t] \ {actor[t].key}
          /\ DOMAIN stored'[t] = DOMAIN stored[t] \ {actor[t].key}
          /\ \A u \in Threads \ {t} : live'[u] = live[u] /\ stored'[u] = stored[u]
      BY <2>4, DecisionTakesOut DEF TypeOK
    <3>2. /\ actor[t].pc \in {"running", "record"} /\ actor'[t].pc = "idle" /\ UNCHANGED <<loaded, lost>>
          /\ \A u \in Threads \ {t} : actor'[u] = actor[u]
      BY <2>4, RestMoves DEF RecordDecision, At, Leave, Idle, faults
    <3>3. loaded[t] => DOMAIN stored[t] \subseteq DOMAIN live[t] \cup lost[t]
      BY <3>2 DEF OverlayHasFile, Cancelling
    <3> QED BY <3>1, <3>2, <3>3, OneThread
  <2>5. CASE RefuseDecision(t)
    <3>1. /\ actor'[t].pc = "idle" /\ UNCHANGED <<loaded, stored>>
          /\ actor[t].pc \in {"running", "record"}
          /\ \A u \in Threads \ {t} : actor'[u] = actor[u] /\ live'[u] = live[u] /\ lost'[u] = lost[u]
          /\ DOMAIN live'[t] = DOMAIN live[t] \ {actor[t].key}
          /\ lost'[t] = lost[t] \cup ({actor[t].key} \cap DOMAIN stored[t])
      BY <2>5, RefusalTakesOut, RestMoves DEF Leave, Idle
    <3>2. loaded[t] => DOMAIN stored[t] \subseteq DOMAIN live[t] \cup lost[t]
      BY <3>1 DEF OverlayHasFile, Cancelling
    <3>3. loaded[t] => DOMAIN stored[t] \subseteq DOMAIN live'[t] \cup lost'[t]
      BY <3>1, <3>2
    <3> QED BY <3>1, <3>3, OneThread
  <2> QED BY <1>4, <2>1, <2>2, <2>3, <2>4, <2>5 DEF DecisionStep
<1>5. ASSUME NEW c \in Clients, RequestStep(c)
      PROVE  TakesLive' /\ OverlayHasFile'
  BY <1>1, <1>5 DEF RequestStep, Submit, Restore, Answer, faults
<1>6. CASE Restart
  BY <1>6 DEF Restart, Idle, TakesLive, OverlayHasFile
<1>7. ASSUME NEW t \in Threads, Load(t)
      PROVE  TakesLive' /\ OverlayHasFile'
  <2>1. /\ live'[t] = stored[t] /\ UNCHANGED <<stored, actor, lost>>
        /\ \A u \in Threads \ {t} : live'[u] = live[u] /\ loaded'[u] = loaded[u]
    BY <1>7 DEF Load, TypeOK, faults
  <2>2. actor'[t].pc # "take"
    BY <1>7, <2>1 DEF Load, TakesLive
  <2> QED BY <2>1, <2>2, OneThread
<1> QED BY <1>1, <1>3, <1>4, <1>5, <1>6, <1>7 DEF Next, vars, faults

-----------------------------------------------------------------------------
(* Where the requests are.                                                 *)

\* One place for each way in which a request comes to be known or open.
LEMMA Places ==
  ASSUME NEW k \in Keys, NEW u \in Threads, NEW b \in Bodies,
         In(live'[u], k, b) => Open(k, u, b), In(stored'[u], k, b) => Open(k, u, b),
         Shared(k, u, b)' => Known(k, u, b),
         AtActor(k, u, b, Working)' => Known(k, u, b),
         AtActor(k, u, b, {"created"})' => Open(k, u, b),
         AtClient(k, u, b)' => Known(k, u, b)
  PROVE  (Known(k, u, b)' => Known(k, u, b)) /\ (Open(k, u, b)' => Open(k, u, b))
<1>1. Open(k, u, b) => Known(k, u, b)
  BY DEF Open, Known, AtActor, Working
<1> QED BY <1>1 DEF Known, Open

\* A step that leaves the maps alone and puts no actor to work.
LEMMA ActorPlaces ==
  ASSUME NEW k \in Keys, NEW u \in Threads, NEW b \in Bodies, NEW t \in Threads,
         UNCHANGED <<live, stored, policy>>, \A v \in Threads \ {t} : actor'[v] = actor[v],
         actor'[t].pc \notin Working, AtClient(k, u, b)' => AtClient(k, u, b)
  PROVE  (Known(k, u, b)' => Known(k, u, b)) /\ (Open(k, u, b)' => Open(k, u, b))
<1>1. \A S \in {Working, {"created"}} : AtActor(k, u, b, S)' => AtActor(k, u, b, S)
  BY DEF AtActor, Working
<1> QED BY <1>1, Places DEF Known, Open, Shared

\* What a client has is its own.
LEMMA ClientPlaces ==
  ASSUME TypeOK, NEW c \in Clients, NEW k, NEW u, NEW b,
         \/ UNCHANGED request
         \/ request' = [request EXCEPT ![c] = NoRequest]
         \/ \E pc \in {"answer", "sent", "served"} : request' = [request EXCEPT ![c].pc = pc]
  PROVE  AtClient(k, u, b)' => AtClient(k, u, b)
<1> SUFFICES ASSUME NEW d \in Clients, request'[d].pc = "restore", request'[d].key = k,
                    request'[d].thread = u, request'[d].body = b
             PROVE  AtClient(k, u, b)
  BY DEF AtClient
<1>1. request'[d] = request[d]
  BY DEF TypeOK, NoRequest, RequestType
<1> QED BY <1>1 DEF AtClient

LEMMA LeavePlaces ==
  ASSUME TypeOK, NEW t, NEW c, Leave(t, c), NEW k, NEW u, NEW b
  PROVE  AtClient(k, u, b)' => AtClient(k, u, b)
<1> SUFFICES ASSUME NEW d \in Clients, request'[d].pc = "restore", request'[d].key = k,
                    request'[d].thread = u, request'[d].body = b
             PROVE  AtClient(k, u, b)
  BY DEF AtClient
<1>1. request'[d] = request[d]
  BY DEF Leave, TypeOK, NoRequest, RequestType
<1> QED BY <1>1 DEF AtClient

LEMMA TurnPlaces ==
  ASSUME TypeOK, NEW t \in Threads, NEW k \in Keys, NEW u \in Threads, NEW b \in Bodies,
         \/ StartTurn(t) \/ EndTurn(t) \/ MayAsk(t) \/ RecordRequest(t) \/ RefuseRequest(t)
         \/ InterruptTurn(t) \/ InterruptStep(t)
  PROVE  (Known(k, u, b)' => Known(k, u, b)) /\ (Open(k, u, b)' => Open(k, u, b))
<1>1. UNCHANGED request
  BY DEF StartTurn, EndTurn, MayAsk, RecordRequest, RefuseRequest, InterruptTurn, InterruptStep,
         ClearOverlay, CancelCommands, CancelQuestions, RecordInterrupt, RefuseInterrupt
<1>2. AtClient(k, u, b)' => AtClient(k, u, b)
  BY <1>1 DEF AtClient
<1>3. CASE StartTurn(t) \/ MayAsk(t)
  <2>1. UNCHANGED <<live, stored, policy>> /\ (Goto(t, "turn") \/ Goto(t, "asking"))
    BY <1>3 DEF StartTurn, MayAsk
  <2> QED BY <1>2, <2>1, GotoMoves, ActorPlaces DEF Working
<1>4. CASE EndTurn(t)
  BY <1>2, <1>4, RestMoves, ActorPlaces DEF EndTurn, Idle, Working
<1>5. CASE RecordRequest(t)
  <2>1. /\ actor[t].pc = "created" /\ UNCHANGED policy
        /\ actor'[t].pc = "turn" /\ \A v \in Threads \ {t} : actor'[v] = actor[v]
    BY <1>5 DEF RecordRequest, At, TypeOK, Idle
  <2>2. \A S \in {Working, {"created"}} : AtActor(k, u, b, S)' => AtActor(k, u, b, S)
    BY <2>1 DEF AtActor, Working
  <2>3. \A v \in Threads \ {t} : live'[v] = live[v] /\ stored'[v] = stored[v]
    BY <1>5 DEF RecordRequest, TypeOK
  <2>4. In(live'[u], k, b) => In(live[u], k, b) \/ AtActor(k, u, b, {"created"})
    BY <1>5, <2>1, <2>3, RecordPuts DEF In, AtActor
  <2>5. In(stored'[u], k, b) => In(stored[u], k, b) \/ AtActor(k, u, b, {"created"})
    BY <1>5, <2>1, <2>3, RecordPuts DEF In, AtActor
  <2> QED BY <1>2, <2>1, <2>2, <2>4, <2>5, Places DEF Known, Open, Shared
<1>6. CASE InterruptTurn(t) \/ RecordInterrupt(t) \/ RefuseInterrupt(t)
  <2>1. /\ \A v \in Threads : stored'[v] = stored[v] \/ stored'[v] = Empty
        /\ UNCHANGED <<live, policy>> /\ Rest(t)
    BY <1>6 DEF InterruptTurn, RecordInterrupt, RefuseInterrupt, TypeOK
  <2>2. \A S \in {Working, {"created"}} : AtActor(k, u, b, S)' => AtActor(k, u, b, S)
    BY <2>1, RestMoves DEF AtActor, Working, Idle
  <2>3. In(stored'[u], k, b) => In(stored[u], k, b)
    BY <2>1, EmptyMap DEF In
  <2> QED BY <1>2, <2>1, <2>2, <2>3, Places DEF Known, Open, Shared
<1>7. CASE ClearOverlay(t)
  <2>1. /\ \A v \in Threads : live'[v] = live[v] \/ live'[v] = Empty
        /\ UNCHANGED <<stored, policy>> /\ Goto(t, "cancelCommands")
    BY <1>7 DEF ClearOverlay, TypeOK
  <2>2. \A S \in {Working, {"created"}} : AtActor(k, u, b, S)' => AtActor(k, u, b, S)
    BY <2>1, GotoMoves DEF AtActor, Working
  <2>3. In(live'[u], k, b) => In(live[u], k, b)
    BY <2>1, EmptyMap DEF In
  <2> QED BY <1>2, <2>1, <2>2, <2>3, Places DEF Known, Open, Shared
<1>8. CASE CancelCommands(t) \/ CancelQuestions(t)
  <2>1. PICK S \in {OfThread(t, "command"), OfThread(t, "question")},
             pc \in {"cancelQuestions", "interrupted"} :
          policy' = Without(policy, S) /\ Goto(t, pc) /\ UNCHANGED <<live, stored>>
    BY <1>8 DEF CancelCommands, CancelQuestions
  <2>2. Shared(k, u, b)' => Shared(k, u, b)
    BY <2>1 DEF Shared, Without
  <2>3. \A T \in {Working, {"created"}} : AtActor(k, u, b, T)' => AtActor(k, u, b, T)
    BY <2>1, GotoMoves DEF AtActor, Working
  <2> QED BY <1>2, <2>1, <2>2, <2>3, Places DEF Known, Open
<1>9. CASE RefuseRequest(t)
  <2>1. /\ actor[t].pc = "created" /\ UNCHANGED <<stored, policy>> /\ Rest(t)
        /\ \A v \in Threads \ {t} : live'[v] = live[v]
    BY <1>9, RefusalPuts
  <2>2. \A S \in {Working, {"created"}} : AtActor(k, u, b, S)' => AtActor(k, u, b, S)
    BY <2>1, RestMoves DEF AtActor, Working, Idle
  <2>3. In(live'[u], k, b) => In(live[u], k, b) \/ AtActor(k, u, b, {"created"})
    BY <1>9, <2>1, RefusalPuts DEF In, AtActor
  <2> QED BY <1>2, <2>1, <2>2, <2>3, Places DEF Known, Open, Shared
<1> QED BY <1>3, <1>4, <1>5, <1>6, <1>7, <1>8, <1>9 DEF InterruptStep

LEMMA RequestPlaces ==
  ASSUME TypeOK, NEW c \in Clients, RequestStep(c),
         NEW k \in Keys, NEW u \in Threads, NEW b \in Bodies
  PROVE  (Known(k, u, b)' => Known(k, u, b)) /\ (Open(k, u, b)' => Open(k, u, b))
<1>1. UNCHANGED <<live, stored, actor>>
  BY DEF RequestStep, Submit, Restore, Answer
<1>2. \A S \in {Working, {"created"}} : AtActor(k, u, b, S)' => AtActor(k, u, b, S)
  BY <1>1 DEF AtActor, Working
<1>3. CASE Restore(c)
  <2>2. AtClient(k, u, b)' => AtClient(k, u, b)
    BY <1>3, RestoreMoves DEF AtClient
  <2>3. Shared(k, u, b)' => Shared(k, u, b) \/ AtClient(k, u, b)
    BY <1>3 DEF Restore, Shared, With, AtClient
  <2> QED BY <1>1, <1>2, <2>2, <2>3, Places DEF Known, Open
<1>4. CASE Answer(c)
  <2>1. \/ request' = [request EXCEPT ![c] = NoRequest]
        \/ \E pc \in {"answer", "sent", "served"} : request' = [request EXCEPT ![c].pc = pc]
    BY <1>4 DEF Answer
  <2>2. AtClient(k, u, b)' => AtClient(k, u, b)
    BY <2>1, ClientPlaces
  <2>3. Shared(k, u, b)' => Shared(k, u, b)
    <3>1. \A l \in DOMAIN policy : policy[l] \in Entry
      BY InMap DEF TypeOK
    <3> QED BY <1>4, <3>1 DEF Answer, Shared, Entry
  <2> QED BY <1>1, <1>2, <2>2, <2>3, Places DEF Known, Open
<1>5. ASSUME NEW t \in Threads, NEW l \in Keys, NEW accept \in BOOLEAN, Submit(c, t, l, accept)
      PROVE  (Known(k, u, b)' => Known(k, u, b)) /\ (Open(k, u, b)' => Open(k, u, b))
  <2>1. UNCHANGED policy
    BY <1>5 DEF Submit
  <2>2. Shared(k, u, b)' => Shared(k, u, b)
    BY <2>1 DEF Shared
  <2>3. AtClient(k, u, b)' => Known(k, u, b)
    <3> SUFFICES ASSUME NEW d \in Clients, request'[d].pc = "restore", request'[d].key = k,
                        request'[d].thread = u, request'[d].body = b
                 PROVE  Known(k, u, b)
      BY DEF AtClient
    <3>1. CASE d = c
      <4>1. l \in DOMAIN stored[t] /\ k = l /\ u = t /\ b = stored[t][l]
        BY <1>5, <3>1 DEF Submit, TypeOK
      <4> QED BY <4>1 DEF Known, In
    <3>2. CASE d # c
      <4>1. request'[d] = request[d]
        BY <1>5, <3>2 DEF Submit, TypeOK
      <4> QED BY <4>1 DEF Known, AtClient
    <3> QED BY <3>1, <3>2
  <2> QED BY <1>1, <1>2, <2>2, <2>3, Places DEF Known, Open
<1> QED BY <1>3, <1>4, <1>5 DEF RequestStep

\* The request that an actor takes is the one that the overlay shows.
LEMMA TakesWhatIsShown ==
  ASSUME TypeOK, TakesLive, Coherent, NEW t \in Threads, Take(t)
  PROVE  LET k == actor[t].key
             b == policy[k].body
         IN  /\ k \in Keys /\ b \in Bodies
             /\ In(live[t], k, b) /\ Shared(k, t, b)
<1> DEFINE k == actor[t].key
           b == policy[k].body
<1>1. /\ policy \in MapsTo(Entry) /\ live[t] \in MapsTo(Bodies)
      /\ k \in DOMAIN policy /\ k \in DOMAIN live[t]
  BY DEF Take, At, TypeOK, TakesLive
<1>2. k \in Keys /\ policy[k] \in Entry /\ live[t][k] \in Bodies
  BY <1>1, InMap
<1>3. b \in Bodies /\ policy[k].thread \in Threads
  BY <1>2 DEF Entry
<1>4. Known(k, policy[k].thread, b)
  BY <1>1 DEF Known, Shared
<1>5. Known(k, t, live[t][k])
  BY <1>1 DEF Known, In
<1>6. policy[k].thread = t /\ b = live[t][k]
  <2> HIDE DEF b, k
  <2> QED BY <1>2, <1>3, <1>4, <1>5 DEF Coherent
<1> QED BY <1>1, <1>2, <1>3, <1>6 DEF In, Shared

LEMMA DecisionPlaces ==
  ASSUME TypeOK, TakesLive, Coherent, NEW t \in Threads, DecisionStep(t),
         NEW k \in Keys, NEW u \in Threads, NEW b \in Bodies
  PROVE  (Known(k, u, b)' => Known(k, u, b)) /\ (Open(k, u, b)' => Open(k, u, b))
<1>1. ASSUME NEW c \in Clients, TakeOp(t, c)
      PROVE  (Known(k, u, b)' => Known(k, u, b)) /\ (Open(k, u, b)' => Open(k, u, b))
  <2>1. AtClient(k, u, b)' => AtClient(k, u, b)
    BY <1>1, ClientPlaces DEF TakeOp, Leave
  <2>2. /\ actor'[t].pc \notin Working /\ UNCHANGED <<live, stored, policy>>
        /\ \A v \in Threads \ {t} : actor'[v] = actor[v]
    BY <1>1 DEF TakeOp, Leave, Rest, Idle, Working, TypeOK
  <2> QED BY <2>1, <2>2, ActorPlaces
<1>2. CASE Take(t)
  <2>1. /\ UNCHANGED <<live, stored, request>> /\ policy' = Without(policy, {actor[t].key})
        /\ actor'[t].pc \in {"running", "record"} /\ actor'[t].key = actor[t].key
        /\ actor'[t].body = policy[actor[t].key].body
        /\ \A v \in Threads \ {t} : actor'[v] = actor[v]
    BY <1>2 DEF Take, TypeOK, ActorType
  <2>2. Shared(k, u, b)' => Shared(k, u, b)
    BY <2>1 DEF Shared, Without
  <2>3. AtActor(k, u, b, Working)' => AtActor(k, u, b, Working) \/ Shared(k, u, b)
    BY <1>2, <2>1, TakesWhatIsShown DEF AtActor
  <2>4. AtActor(k, u, b, {"created"})' => AtActor(k, u, b, {"created"})
    BY <2>1 DEF AtActor
  <2>5. AtClient(k, u, b)' => AtClient(k, u, b)
    BY <2>1 DEF AtClient
  <2> QED BY <2>1, <2>2, <2>3, <2>4, <2>5, Places DEF Known, Open
<1>3. CASE TakeNothing(t) \/ RunFails(t)
  <2>1. \E c : Leave(t, c) /\ UNCHANGED <<live, stored, policy>>
    BY <1>3 DEF TakeNothing, RunFails
  <2>2. AtClient(k, u, b)' => AtClient(k, u, b)
    BY <2>1, LeavePlaces
  <2> QED BY <2>1, <2>2, RestMoves, ActorPlaces DEF Leave, Idle, Working
<1>4. CASE RecordDecision(t)
  <2>1. Leave(t, actor[t].client) /\ UNCHANGED policy
    BY <1>4 DEF RecordDecision
  <2>2. AtClient(k, u, b)' => AtClient(k, u, b)
    BY <2>1, LeavePlaces
  <2>3. \A S \in {Working, {"created"}} : AtActor(k, u, b, S)' => AtActor(k, u, b, S)
    BY <2>1, RestMoves DEF AtActor, Working, Leave, Idle
  <2>4. \A v \in Threads \ {t} : live'[v] = live[v] /\ stored'[v] = stored[v]
    BY <1>4 DEF RecordDecision, TypeOK
  <2>5. (In(live'[u], k, b) => In(live[u], k, b)) /\ (In(stored'[u], k, b) => In(stored[u], k, b))
    BY <1>4, <2>4, DecisionTakesOut DEF In
  <2> QED BY <2>1, <2>2, <2>3, <2>5, Places DEF Known, Open, Shared
<1>5. CASE RefuseDecision(t)
  <2>1. Leave(t, actor[t].client) /\ UNCHANGED <<stored, policy>>
        /\ \A v \in Threads \ {t} : live'[v] = live[v]
    BY <1>5, RefusalTakesOut
  <2>2. AtClient(k, u, b)' => AtClient(k, u, b)
    BY <2>1, LeavePlaces
  <2>3. \A S \in {Working, {"created"}} : AtActor(k, u, b, S)' => AtActor(k, u, b, S)
    BY <2>1, RestMoves DEF AtActor, Working, Leave, Idle
  <2>4. In(live'[u], k, b) => In(live[u], k, b)
    BY <1>5, <2>1, RefusalTakesOut DEF In
  <2> QED BY <2>1, <2>2, <2>3, <2>4, Places DEF Known, Open, Shared
<1> QED BY <1>1, <1>2, <1>3, <1>4, <1>5 DEF DecisionStep

LEMMA ProcessPlaces ==
  ASSUME TypeOK, Restart \/ (\E t \in Threads : Load(t)) \/ UNCHANGED vars,
         NEW k \in Keys, NEW u \in Threads, NEW b \in Bodies
  PROVE  (Known(k, u, b)' => Known(k, u, b)) /\ (Open(k, u, b)' => Open(k, u, b))
<1>1. CASE Restart
  <2>1. /\ \A v \in Threads : live'[v] = Empty /\ actor'[v].pc = "idle"
        /\ \A c \in Clients : request'[c].pc = "idle"
        /\ UNCHANGED stored /\ policy' = Empty
    BY <1>1 DEF Restart, Idle, NoRequest
  <2> QED BY <2>1, EmptyMap DEF Known, Open, In, Shared, AtActor, AtClient, Working
<1>2. ASSUME NEW t \in Threads, Load(t)
      PROVE  (Known(k, u, b)' => Known(k, u, b)) /\ (Open(k, u, b)' => Open(k, u, b))
  <2>1. /\ UNCHANGED <<stored, policy, actor, request>>
        /\ \A v \in Threads : live'[v] = live[v] \/ live'[v] = stored[v]
    BY <1>2 DEF Load, TypeOK
  <2> QED BY <2>1 DEF Known, Open, In, Shared, AtActor, AtClient
<1>3. CASE UNCHANGED vars
  BY <1>3 DEF vars, Known, Open, In, Shared, AtActor, AtClient
<1> QED BY <1>1, <1>2, <1>3

\* Only Create makes a request known or open that was not.
LEMMA NothingNew ==
  ASSUME TypeOK, TakesLive, Coherent, [Next]_vars,
         \A t \in Threads, kind \in Kinds : ~Create(t, kind)
  PROVE  \A k \in Keys, u \in Threads, b \in Bodies :
           (Known(k, u, b)' => Known(k, u, b)) /\ (Open(k, u, b)' => Open(k, u, b))
BY TurnPlaces, RequestPlaces, DecisionPlaces, ProcessPlaces DEF Next, TurnStep

\* Create makes one request known, with an id and a body of its own.
LEMMA CreatePlaces ==
  ASSUME TypeOK, NEW t \in Threads, NEW kind \in Kinds, Create(t, kind), ~reused',
         NEW k \in Keys, NEW u \in Threads, NEW b \in Bodies
  PROVE  /\ made' = made + 1 /\ nextId' = nextId + 1 /\ nextId >= old /\ old' = old
         /\ Known(k, u, b)' => Known(k, u, b) \/ (k = <<kind, nextId>> /\ u = t /\ b = made + 1)
         /\ Open(k, u, b)' => Open(k, u, b) \/ b = made + 1
<1> DEFINE key == <<kind, nextId>>
<1>1. /\ made' = made + 1 /\ nextId' = nextId + 1 /\ old' = old /\ ~(nextId < old)
      /\ UNCHANGED <<live, stored, request>>
      /\ policy' = With(policy, key, [thread |-> t, body |-> made', answered |-> FALSE])
  BY DEF Create, NewId
<1>2. /\ actor'[t].key = key /\ actor'[t].body = made'
      /\ \A v \in Threads \ {t} : actor'[v] = actor[v]
  BY DEF Create, NewId, TypeOK, ActorType
<1>3. nextId >= old
  BY <1>1 DEF TypeOK
<1>4. Shared(k, u, b)' => Shared(k, u, b) \/ (k = key /\ u = t /\ b = made + 1)
  BY <1>1 DEF Shared, With
<1>5. \A S \in {Working, {"created"}} :
        AtActor(k, u, b, S)' => AtActor(k, u, b, S) \/ (k = key /\ u = t /\ b = made + 1)
  BY <1>1, <1>2 DEF AtActor
<1>6. AtClient(k, u, b)' => AtClient(k, u, b)
  BY <1>1 DEF AtClient
<1> QED BY <1>1, <1>3, <1>4, <1>5, <1>6 DEF Known, Open

\* Only a new request takes an id, and only a restart sets the counter back.
LEMMA IdsKept ==
  ASSUME [Next]_vars, ~Restart, \A t \in Threads, kind \in Kinds : ~Create(t, kind)
  PROVE  UNCHANGED <<made, nextId, old, reused>>
<1>1. ASSUME NEW t \in Threads, TurnStep(t) \/ InterruptStep(t)
      PROVE  UNCHANGED <<made, nextId, old, reused>>
  BY <1>1 DEF TurnStep, InterruptStep, ids, StartTurn, EndTurn, MayAsk, RecordRequest, RefuseRequest,
              InterruptTurn, ClearOverlay, CancelCommands, CancelQuestions, RecordInterrupt,
              RefuseInterrupt
<1>2. ASSUME NEW t \in Threads, DecisionStep(t) \/ Load(t)
      PROVE  UNCHANGED <<made, nextId, old, reused>>
  BY <1>2 DEF DecisionStep, ids, TakeOp, Take, TakeNothing, RunFails, RecordDecision, RefuseDecision,
              Load
<1>3. ASSUME NEW c \in Clients, RequestStep(c)
      PROVE  UNCHANGED <<made, nextId, old, reused>>
  BY <1>3 DEF RequestStep, ids, Submit, Restore, Answer
<1> QED BY <1>1, <1>2, <1>3 DEF Next, vars, ids

LEMMA CoherentKept ==
  ASSUME TypeOK, TypeOK', TakesLive, Coherent, [Next]_vars, ~reused'
  PROVE  Coherent'
<1>1. CASE \E t \in Threads, kind \in Kinds : Create(t, kind)
  <2>1. PICK t \in Threads, kind \in Kinds : Create(t, kind)
    BY <1>1
  <2> DEFINE key == <<kind, nextId>>
  <2>2. made' = made + 1 /\ nextId' = nextId + 1 /\ nextId >= old /\ old' = old
    <3>1. made' = made + 1 /\ nextId' = nextId + 1 /\ ~(nextId < old) /\ old' = old
      BY <2>1 DEF Create, NewId
    <3> QED BY <3>1 DEF TypeOK
  <2>3. /\ made \in Nat /\ nextId \in Nat /\ old \in Nat
        /\ key[2] = nextId /\ \A k \in Keys : k[2] \in Nat
    BY Numbers DEF TypeOK, Keys
  <2> HIDE DEF key
  <2>4. ASSUME NEW k \in Keys, NEW u \in Threads, NEW b \in Bodies, Known(k, u, b)'
        PROVE  Known(k, u, b) \/ (k = key /\ u = t /\ b = made + 1)
    BY <2>1, <2>4, CreatePlaces DEF key
  <2>5. ASSUME NEW k \in Keys, NEW u \in Threads, NEW b \in Bodies, Known(k, u, b)
        PROVE  b <= made /\ k[2] < nextId
    BY <2>2, <2>3, <2>5 DEF Coherent
  <2>6. ASSUME NEW k \in Keys, NEW u \in Threads, NEW b \in Bodies, Known(k, u, b)'
        PROVE  b <= made' /\ k[2] < nextId'
    BY <2>2, <2>3, <2>4, <2>5, <2>6, Numbers
  <2>7. ASSUME NEW k \in Keys, NEW u \in Threads, NEW b \in Bodies, Known(k, u, b)',
               NEW l \in Keys, NEW v \in Threads, NEW d \in Bodies, Known(l, v, d)',
               l = k \/ d = b
        PROVE  l = k /\ v = u /\ d = b
    <3>1. k = key \/ b = made + 1 => ~Known(k, u, b)
      BY <2>3, <2>5, Numbers
    <3>2. l = key \/ d = made + 1 => ~Known(l, v, d)
      BY <2>3, <2>5, Numbers
    <3>3. CASE Known(k, u, b) /\ Known(l, v, d)
      BY <2>7, <3>3 DEF Coherent
    <3> QED BY <2>4, <2>7, <3>1, <3>2, <3>3
  <2> QED BY <2>6, <2>7 DEF Coherent
<1>2. CASE \A t \in Threads, kind \in Kinds : ~Create(t, kind)
  <2>1. /\ made' = made
        /\ \A k \in Keys : k[2] < nextId \/ k[2] < old => k[2] < nextId' \/ k[2] < old'
    <3>1. CASE Restart
      <4>1. made' = made /\ old' = IF nextId > old THEN nextId ELSE old
        BY <3>1 DEF Restart
      <4>2. nextId \in Nat /\ old \in Nat /\ \A k \in Keys : k[2] \in Nat
        BY Numbers DEF TypeOK, Keys
      <4> QED BY <4>1, <4>2
    <3>2. CASE ~Restart
      <4>1. UNCHANGED <<made, nextId, old>>
        BY <1>2, <3>2, IdsKept
      <4> QED BY <4>1
    <3> QED BY <3>1, <3>2
  <2> QED BY <1>2, <2>1, NothingNew DEF Coherent
<1> QED BY <1>1, <1>2

-----------------------------------------------------------------------------
(* What is run and what is decided.                                        *)

\* The steps that change what is run, cut off or decided.
LEMMA HistorySteps ==
  ASSUME [Next]_vars
  PROVE  \/ UNCHANGED history
         \/ Restart
         \/ \E t \in Threads : Take(t) \/ RunFails(t) \/ RecordDecision(t) \/ RefuseDecision(t)
BY DEF Next, TurnStep, InterruptStep, RequestStep, DecisionStep, vars, StartTurn, EndTurn, MayAsk,
       Create, RecordRequest, RefuseRequest, InterruptTurn, ClearOverlay, CancelCommands,
       CancelQuestions, RecordInterrupt, RefuseInterrupt, Submit, Restore, Answer, TakeOp, TakeNothing, Load

LEMMA SettledKept ==
  ASSUME TypeOK, TypeOK', TakesLive, Coherent, Settled, [Next]_vars, ~reused'
  PROVE  Settled'
<1>1. CASE \E t \in Threads, kind \in Kinds : Create(t, kind)
  <2>1. PICK t \in Threads, kind \in Kinds : Create(t, kind)
    BY <1>1
  <2>2. decided' = decided /\ made' = made + 1 /\ made \in Nat
    BY <2>1, Numbers DEF Create, history, TypeOK
  <2>3. ASSUME NEW k \in Keys, NEW u \in Threads, NEW b \in Bodies, Open(k, u, b)'
        PROVE  b \notin decided
    <3>1. Open(k, u, b) \/ b = made + 1
      BY <2>1, <2>3, CreatePlaces
    <3> QED BY <2>2, <3>1 DEF Settled
  <2>4. \A b \in decided : b <= made'
    BY <2>2, Numbers DEF Settled, TypeOK
  <2> QED BY <2>2, <2>3, <2>4 DEF Settled
<1>2. CASE \E t \in Threads : RecordDecision(t)
  <2>1. PICK t \in Threads : RecordDecision(t)
    BY <1>2
  <2> DEFINE l == actor[t].key
             d == actor[t].body
  <2>2. /\ decided' = decided \cup {d} /\ actor[t].pc \in {"running", "record"} /\ UNCHANGED made
        /\ l \in Keys /\ d \in Bodies
    BY <2>1 DEF RecordDecision, At, ids, TypeOK, ActorType, Working
  <2>3. Known(l, t, d)
    BY <2>2 DEF Known, AtActor, Working
  <2>4. \A k \in Keys, u \in Threads, b \in Bodies : Open(k, u, b)' => Open(k, u, b)
    BY <2>1, DecisionPlaces DEF DecisionStep
  <2>5. /\ actor'[t].pc = "idle"
        /\ l \notin DOMAIN live'[t] /\ l \notin DOMAIN stored'[t]
    <3>1. Rest(t)
      BY <2>1 DEF RecordDecision, Leave
    <3>2. actor'[t].pc = "idle"
      BY <3>1, RestMoves DEF Idle
    <3> QED BY <2>1, <3>2, DecisionTakesOut
  <2> HIDE DEF l, d
  <2>6. ASSUME NEW k \in Keys, NEW u \in Threads, NEW b \in Bodies, Open(k, u, b)'
        PROVE  b \notin decided'
    <3>1. Open(k, u, b) /\ b \notin decided
      BY <2>4, <2>6 DEF Settled
    <3>2. Known(k, u, b)
      BY <3>1 DEF Known, Open, AtActor, Working
    <3>3. ASSUME b = d PROVE FALSE
      <4>1. k = l /\ u = t
        BY <2>2, <2>3, <3>2, <3>3 DEF Coherent
      <4> QED BY <2>5, <2>6, <4>1 DEF Open, In, AtActor
    <3> QED BY <2>2, <3>1, <3>3
  <2>7. d <= made
    BY <2>2, <2>3 DEF Coherent
  <2> QED BY <2>2, <2>6, <2>7 DEF Settled
<1>3. CASE /\ \A t \in Threads, kind \in Kinds : ~Create(t, kind)
           /\ \A t \in Threads : ~RecordDecision(t)
  <2>1. decided' = decided
    BY <1>3, HistorySteps DEF history, Restart, Take, RunFails, RefuseDecision
  <2>2. made' = made
    BY <1>3 DEF Next, TurnStep, InterruptStep, RequestStep, DecisionStep, vars, ids, StartTurn,
              EndTurn, MayAsk, RecordRequest, RefuseRequest, InterruptTurn, ClearOverlay,
              CancelCommands, CancelQuestions, RecordInterrupt, RefuseInterrupt, Submit, Restore, Answer, TakeOp, Take, TakeNothing,
              RunFails, RefuseDecision, Load, Restart
  <2> QED BY <1>3, <2>1, <2>2, NothingNew DEF Settled
<1> QED BY <1>1, <1>2, <1>3

\* What an actor runs stays running until the run ends.
LEMMA RunningKept ==
  ASSUME TypeOK, [Next]_vars, ~Restart, NEW t \in Threads, actor[t].pc = "running",
         ~RunFails(t), ~RecordDecision(t), ~RefuseDecision(t)
  PROVE  actor'[t] = actor[t]
<1>1. ASSUME NEW u \in Threads, TurnStep(u) \/ InterruptStep(u)
      PROVE  actor'[t] = actor[t]
  <2>1. actor[u].pc # "running"
    BY <1>1 DEF TurnStep, InterruptStep, StartTurn, EndTurn, MayAsk, Create, RecordRequest,
                RefuseRequest, InterruptTurn, ClearOverlay, CancelCommands, CancelQuestions,
                RecordInterrupt, RefuseInterrupt, At
  <2>2. \E a : actor' = [actor EXCEPT ![u] = a]
    BY <1>1 DEF TurnStep, InterruptStep, StartTurn, EndTurn, MayAsk, Create, RecordRequest,
                RefuseRequest, InterruptTurn, ClearOverlay, CancelCommands, CancelQuestions,
                RecordInterrupt, RefuseInterrupt, Goto, Rest
  <2> QED BY <2>1, <2>2 DEF TypeOK
<1>2. ASSUME NEW u \in Threads, DecisionStep(u)
      PROVE  actor'[t] = actor[t]
  <2>1. CASE u = t
    BY <1>2, <2>1 DEF DecisionStep, TakeOp, Take, TakeNothing, At
  <2>2. CASE u # t
    BY <1>2, <2>2 DEF DecisionStep, TakeOp, Take, TakeNothing, RunFails, RecordDecision,
                      RefuseDecision, Leave, Rest, TypeOK
  <2> QED BY <2>1, <2>2
<1>3. CASE UNCHANGED actor
  BY <1>3
<1> QED BY <1>1, <1>2, <1>3 DEF Next, RequestStep, Submit, Restore, Answer, Load, vars

\* No other thread runs what one runs, and nobody what is open.
LEMMA RunsAlone ==
  ASSUME TypeOK, Coherent, NEW t \in Threads, NEW k \in Keys, NEW b \in Bodies, Known(k, t, b),
         NEW u \in Threads, actor[u].pc = "running", actor[u].body = b
  PROVE  u = t /\ actor[u].key = k
<1>1. actor[u].key \in Keys /\ Known(actor[u].key, u, b)
  BY DEF TypeOK, ActorType, Known, AtActor, Working
<1> QED BY <1>1 DEF Coherent

LEMMA TakeCounts ==
  ASSUME TypeOK, TakesLive, Coherent, Settled, Attempts, NEW t \in Threads, Take(t)
  PROVE  Attempts' /\ (\A b \in decided : runs'[b] = runs[b])
<1> DEFINE k == actor[t].key
           d == policy[k].body
           starts == k[1] = "command" /\ request[actor[t].client].accept
<1>1. /\ k \in Keys /\ d \in Bodies /\ In(live[t], k, d) /\ actor[t].pc = "take"
  BY TakesWhatIsShown DEF Take, At
<1>2. d \notin decided
  BY <1>1 DEF Settled, Open
<1>3. ~Running(d)
  BY <1>1, RunsAlone DEF Running, Known
<1>4. /\ UNCHANGED <<cut, decided>>
      /\ runs' = IF starts THEN [runs EXCEPT ![d] = @ + 1] ELSE runs
  BY DEF Take
<1>5. /\ actor'[t].pc = IF starts THEN "running" ELSE "record"
      /\ actor'[t].body = d /\ \A u \in Threads \ {t} : actor'[u] = actor[u]
  BY DEF Take, TypeOK, ActorType
<1> HIDE DEF k, d, starts
<1>6. ASSUME NEW b \in Bodies
      PROVE  runs'[b] <= 1 + cut'[b] /\ (b \notin decided' /\ ~Running(b)' => runs'[b] <= cut'[b])
  <2>1. runs[b] \in Nat /\ cut[b] \in Nat
    BY DEF TypeOK
  <2>2. CASE starts /\ b = d
    <3>1. Running(b)'
      BY <1>5, <2>2 DEF Running
    <3>2. runs'[b] = runs[b] + 1 /\ runs[b] <= cut[b]
      BY <1>2, <1>3, <1>4, <2>2 DEF Attempts, TypeOK
    <3> QED BY <1>4, <2>1, <3>1, <3>2
  <2>3. CASE ~(starts /\ b = d)
    <3>1. runs'[b] = runs[b]
      BY <1>4, <2>3 DEF TypeOK
    <3>2. Running(b) => Running(b)'
      BY <1>1, <1>5 DEF Running
    <3> QED BY <1>4, <2>1, <3>1, <3>2 DEF Attempts
  <2> QED BY <2>2, <2>3
<1>7. \A b \in decided : runs'[b] = runs[b]
  BY <1>2, <1>4 DEF TypeOK
<1> QED BY <1>6, <1>7 DEF Attempts

LEMMA AttemptsKept ==
  ASSUME TypeOK, TakesLive, Coherent, Settled, Attempts, [Next]_vars
  PROVE  Attempts' /\ (\A b \in decided : runs'[b] = runs[b])
<1>1. ASSUME NEW t \in Threads, Take(t)
      PROVE  Attempts' /\ (\A b \in decided : runs'[b] = runs[b])
  BY <1>1, TakeCounts
<1>2. ASSUME NEW t \in Threads, RunFails(t) \/ (RefuseDecision(t) /\ actor[t].pc = "running")
      PROVE  Attempts' /\ (\A b \in decided : runs'[b] = runs[b])
  <2> DEFINE d == actor[t].body
  <2>1. d \in Bodies /\ actor[t].pc = "running" /\ UNCHANGED <<runs, decided>>
    BY <1>2 DEF RunFails, RefuseDecision, At, TypeOK, Working
  <2>2. cut' = [cut EXCEPT ![d] = @ + 1] /\ \A u \in Threads \ {t} : actor'[u] = actor[u]
    BY <1>2, RestMoves DEF RunFails, RefuseDecision, At, Leave
  <2> HIDE DEF d
  <2>3. ASSUME NEW b \in Bodies
        PROVE  runs[b] <= 1 + cut'[b] /\ (b \notin decided /\ ~Running(b)' => runs[b] <= cut'[b])
    <3>1. runs[b] \in Nat /\ cut[b] \in Nat
      BY DEF TypeOK
    <3>2. CASE b = d
      <4>1. cut'[b] = cut[b] + 1 /\ runs[b] <= 1 + cut[b]
        BY <2>2, <3>2 DEF TypeOK, Attempts
      <4> QED BY <3>1, <4>1
    <3>3. CASE b # d
      <4>1. cut'[b] = cut[b]
        BY <2>2, <3>3 DEF TypeOK
      <4>2. Running(b) => Running(b)'
        BY <2>2, <3>3 DEF Running, d
      <4> QED BY <4>1, <4>2 DEF Attempts
    <3> QED BY <3>2, <3>3
  <2> QED BY <2>1, <2>3 DEF Attempts
<1>3. ASSUME NEW t \in Threads, RecordDecision(t)
      PROVE  Attempts' /\ (\A b \in decided : runs'[b] = runs[b])
  <2>1. UNCHANGED <<runs, cut>> /\ decided' = decided \cup {actor[t].body}
    BY <1>3 DEF RecordDecision
  <2>2. \A u \in Threads \ {t} : actor'[u] = actor[u]
    BY <1>3, RestMoves DEF RecordDecision, Leave
  <2>3. \A b \in Bodies : b \notin decided' /\ ~Running(b)' => b \notin decided /\ ~Running(b)
    BY <2>1, <2>2 DEF Running
  <2> QED BY <2>1, <2>3 DEF Attempts
<1>4. CASE Restart
  <2>1. \A b \in Bodies : cut'[b] >= cut[b] /\ (Running(b) => cut'[b] >= cut[b] + 1)
    BY <1>4, RestartTypes
  <2>2. TypeOK' /\ UNCHANGED <<runs, decided>>
    BY <1>4, RestartTypes DEF Restart
  <2>3. ASSUME NEW b \in Bodies
        PROVE  runs[b] <= 1 + cut'[b] /\ (b \notin decided => runs[b] <= cut'[b])
    <3>1. runs[b] \in Nat /\ cut[b] \in Nat /\ cut'[b] \in Nat
      BY <2>2 DEF TypeOK
    <3>2. runs[b] <= 1 + cut[b] /\ (b \notin decided /\ ~Running(b) => runs[b] <= cut[b])
      BY DEF Attempts
    <3> QED BY <2>1, <3>1, <3>2
  <2> QED BY <2>2, <2>3 DEF Attempts
<1>5. CASE ~Restart /\ \A t \in Threads : 
           ~Take(t) /\ ~RunFails(t) /\ ~RecordDecision(t) /\ ~RefuseDecision(t)
  <2>1. UNCHANGED history
    BY <1>5, HistorySteps
  <2>2. \A b \in Bodies : Running(b) => Running(b)'
    BY <1>5, RunningKept DEF Running
  <2> QED BY <2>1, <2>2 DEF Attempts, history
<1>6. ASSUME NEW t \in Threads, RefuseDecision(t), actor[t].pc # "running"
      PROVE  Attempts' /\ (\A b \in decided : runs'[b] = runs[b])
  <2>1. UNCHANGED <<runs, cut, decided>>
    BY <1>6 DEF RefuseDecision, At
  <2>2. \A u \in Threads \ {t} : actor'[u] = actor[u]
    BY <1>6, RestMoves DEF RefuseDecision, Leave
  <2>3. \A b \in Bodies : Running(b) => Running(b)'
    BY <1>6, <2>2 DEF Running
  <2> QED BY <2>1, <2>3 DEF Attempts
<1> QED BY <1>1, <1>2, <1>3, <1>4, <1>5, <1>6

\* What runs is what the thread had asked, as long as no id was given again.
LEMMA RanKept ==
  ASSUME TypeOK, TakesLive, Sound, RanAsAsked, [Next]_vars, reused' \/ ~reused
  PROVE  RanAsAsked'
<1> SUFFICES ASSUME ~reused', NEW r \in ran'
             PROVE  r.body = r.asked
  BY DEF RanAsAsked
<1>1. ~reused /\ Coherent
  BY DEF Sound
<1>2. r \in ran => r.body = r.asked
  BY <1>1 DEF RanAsAsked
<1>3. ASSUME NEW t \in Threads, Take(t), r \notin ran
      PROVE  r.body = r.asked
  <2>1. r = [body |-> policy[actor[t].key].body, asked |-> live[t][actor[t].key]]
    BY <1>3 DEF Take
  <2>2. In(live[t], actor[t].key, policy[actor[t].key].body)
    BY <1>1, <1>3, TakesWhatIsShown
  <2> QED BY <2>1, <2>2 DEF In
<1>4. (\A t \in Threads : ~Take(t)) => ran' = ran
  BY HistorySteps DEF history, Restart, RunFails, RecordDecision, RefuseDecision
<1> QED BY <1>2, <1>3, <1>4

\* That an id was given again is never forgotten.
LEMMA ReuseRemembered ==
  ASSUME TypeOK, [Next]_vars
  PROVE  ~reused' => ~reused
<1>1. ASSUME NEW t \in Threads, NEW kind \in Kinds, Create(t, kind)
      PROVE  reused' = (reused \/ NewId < old)
  BY <1>1 DEF Create
<1>2. CASE \A t \in Threads, kind \in Kinds : ~Create(t, kind)
  <2>1. CASE Restart
    BY <2>1 DEF Restart
  <2>2. CASE ~Restart
    BY <1>2, <2>2, IdsKept
  <2> QED BY <2>1, <2>2
<1> QED BY <1>1, <1>2

-----------------------------------------------------------------------------
(* Theorems.                                                               *)

LEMMA InitInv == Init => IInv
<1> SUFFICES ASSUME Init PROVE IInv
  OBVIOUS
<1>1. /\ \A t \in Threads : live[t] = Empty /\ stored[t] = Empty /\ actor[t].pc = "idle"
      /\ policy = Empty /\ \A c \in Clients : request[c].pc = "idle"
  BY DEF Init, Idle, NoRequest
<1>2. /\ DOMAIN Empty = {}
  BY EmptyMap
<1>3. \A k \in Keys, t \in Threads, b \in Bodies : ~Known(k, t, b) /\ ~Open(k, t, b)
  BY <1>1, <1>2 DEF Known, Open, In, Shared, AtActor, AtClient, Working
<1>4. TakesLive /\ OverlayHasFile
  BY <1>1, <1>2 DEF TakesLive, OverlayHasFile
<1>5. Coherent /\ Settled
  BY <1>3 DEF Coherent, Settled, Init
<1>6. Attempts
  BY DEF Init, Attempts
<1>7. RanAsAsked
  BY DEF Init, RanAsAsked
<1> QED BY <1>4, <1>5, <1>6, <1>7, InitTypes DEF IInv, Sound

LEMMA NextInv == IInv /\ [Next]_vars => IInv'
<1> SUFFICES ASSUME IInv, [Next]_vars PROVE IInv'
  OBVIOUS
<1>1. TypeOK' /\ TakesLive' /\ OverlayHasFile' /\ (~reused' => ~reused)
  BY TypesKept, OverlayKept, ReuseRemembered DEF IInv
<1>2. ASSUME ~reused'
      PROVE  Coherent' /\ Settled' /\ Attempts'
  <2>1. Coherent /\ Settled /\ Attempts
    BY <1>1, <1>2 DEF IInv, Sound
  <2> QED BY <1>1, <1>2, <2>1, CoherentKept, SettledKept, AttemptsKept DEF IInv
<1>3. RanAsAsked'
  BY <1>1, RanKept DEF IInv, RanAsAsked
<1> QED BY <1>1, <1>2, <1>3 DEF IInv, Sound

LEMMA Invariance == Spec => []IInv
BY InitInv, NextInv, PTL DEF Spec

\* Type correctness: every map holds requests of the process's counter, and what an actor
\* runs or records has a body.
THEOREM TypeCorrect == Spec => []TypeOK
BY Invariance, PTL DEF IInv

\* take_pending_command (runtime/policy.rs) gives the actor the request that its overlay
\* shows, whatever clients of any thread restored before, while no id was given again.
THEOREM DecisionRunsTheRequest == Spec => []RanAsAsked
BY Invariance, PTL DEF IInv

\* An approved command is started again only after a run that failed, was not recorded
\* (clear_approval, then an append that fails) or died with the process, however often clients
\* decide and restore_command_approval puts it back.
THEOREM StartedOnce == Spec => []RunsOnce
<1>1. IInv => RunsOnce
  BY DEF IInv, Sound, Attempts, RunsOnce
<1> QED BY <1>1, Invariance, PTL

\* The recorded decision takes the request out of the overlay and the file, and nothing puts
\* it back: its command does not start any more.
THEOREM DecisionIsFinal == Spec => DecidedIsFinal
<1>1. IInv /\ [Next]_vars => [~reused => \A b \in decided : runs'[b] = runs[b]]_vars
  BY AttemptsKept DEF IInv, Sound
<1> QED BY <1>1, Invariance, PTL DEF Spec, DecidedIsFinal

\* Whatever the storage refuses, the overlay of an idle runtime has what the file shows as
\* pending, except what clear_approval or handle_interrupt took out before the append failed.
THEOREM FileCanBeDecided == Spec => []StoredIsLive
<1>1. IInv => StoredIsLive
  BY DEF IInv, OverlayHasFile, StoredIsLive, At, Cancelling
<1> QED BY <1>1, Invariance, PTL
=============================================================================
