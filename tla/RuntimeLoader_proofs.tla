------------------------ MODULE RuntimeLoader_proofs ------------------------
(***************************************************************************)
(* Theorems about RuntimeLoader, for any clients and threads and any       *)
(* number of runtimes, requests, calls of tools, closes and hangups.       *)
(***************************************************************************)
EXTENDS RuntimeLoader, FiniteSetTheorems, SequenceTheorems, TLAPS

(* The inductive invariant.                                                *)

\* The steps of each call.
Loading == {"lookup", "loadLock", "recheck", "insert"}
StepsOf(k) ==
  {"idle"} \cup
  CASE k = "Turn" -> {"opLock", "gate", "submit", "send", "waitStart"} \cup Loading
    [] k = "Decide" -> {"resolve", "gate", "submit", "send", "waitDone"} \cup Loading
    [] k = "Compact" -> {"submit", "send", "waitDone"} \cup Loading
    [] k = "Load" -> {"return"} \cup Loading
    [] k = "Fork" -> {"opLock", "forkCheck", "copying"}
    [] k = "Restore" -> {"restore", "list", "scan", "writing"}
    [] k = "Deliver" -> {"enqueue", "followup", "send", "waitStart"} \cup Loading
    [] k = "Close" -> {"remove", "stop", "waitDone"}

\* A task takes the steps of its call; clients and tools make different calls.
CallsOK ==
  /\ \A p \in Procs : pc[p] \in StepsOf(kind[p])
  /\ \A c \in Clients : kind[c] \in Requests
  /\ \A i \in Runtimes : kind[i] \notin {"Turn", "Decide", "Compact", "Fork", "Restore"}

\* The runtime that a task has is one of its thread, and it has one where it needs it.
UsesRuntime(p) ==
  \/ pc[p] \in {"insert", "submit", "send", "waitStart", "waitDone", "enqueue", "followup", "stop"}
  \/ pc[p] = "gate" /\ kind[p] = "Turn"
RuntimesOK ==
  /\ \A p \in Procs : rt[p] # None => rt[p] <= spawned /\ of[rt[p]] = target[p]
  /\ \A p \in Procs : UsesRuntime(p) => rt[p] # None
  /\ \A t \in Threads : loaded[t] # None => loaded[t] <= spawned /\ of[loaded[t]] = t

\* Nothing has been sent to a runtime.
Clean(i) == queue[i] = << >> /\ hand[i] = NoSubmission /\ slot[i] = "free" /\ phase[i] = "recv"

\* Who looks again or inserts has the load lock; what it inserts is its own and new.
LoadsOK ==
  /\ \A p \in Procs : pc[p] \in {"recheck", "insert"} => loadLock[target[p]] = p
  /\ \A i \in Runtimes : i > spawned => Clean(i)
  /\ \A p \in Procs : pc[p] = "insert" =>
       /\ loaded[target[p]] = None /\ Clean(rt[p])
       /\ \A q \in Procs : q # p => rt[q] # rt[p]

\* What has stopped, has been told to or is about to be is not in the map.
Told(i) == phase[i] = "stopped" \/ \E k \in DOMAIN queue[i] : queue[i][k].op = "Shutdown"
Doomed(i) == Told(i) \/ \E p \in Procs : pc[p] = "stop" /\ rt[p] = i
DoomedUnloaded == \A t \in Threads : loaded[t] # None => ~Doomed(loaded[t])

\* While nothing is closed every runtime is in the map or on its way there.
NoneClosed ==
  closes = 0 =>
    /\ \A p \in Procs : pc[p] \notin {"remove", "stop"}
    /\ \A i \in Runtimes :
         i <= spawned => loaded[of[i]] = i \/ \E p \in Procs : pc[p] = "insert" /\ rt[p] = i

\* The slot is taken by one submission at most, on the channel or in the loop's hand.
Reserving(s) == s.op \in {"UserInput", "Compaction"}
SlotOK(i) ==
  /\ \A k, l \in DOMAIN queue[i] : Reserving(queue[i][k]) /\ Reserving(queue[i][l]) => k = l
  /\ Reserving(hand[i]) => \A k \in DOMAIN queue[i] : ~Reserving(queue[i][k])
  /\ slot[i] = "free" => ~Reserving(hand[i]) /\ \A k \in DOMAIN queue[i] : ~Reserving(queue[i][k])
  /\ slot[i] # "turn" =>
       hand[i].op # "UserInput" /\ \A k \in DOMAIN queue[i] : queue[i][k].op # "UserInput"
  /\ phase[i] \in {"recv", "mail", "stopped"} => hand[i] = NoSubmission
  /\ phase[i] = "ending" => hand[i].op = "UserInput"
SlotsOK == \A i \in Runtimes : SlotOK(i)

\* What came with a guard is a turn that the runtime started itself.
Subs(i) == {hand[i]} \cup {queue[i][k] : k \in DOMAIN queue[i]}
CarriedAreTurns == \A i \in Runtimes : \A s \in Subs(i) : s.gate = "carried" => s.op = "UserInput"

\* The guards alive: those of requests, and one for each turn that carries its own.
Holding(c) ==
  \/ kind[c] = "Turn" /\ pc[c] \in {"submit", "send", "waitStart"}
  \/ kind[c] = "Decide" /\ pc[c] \in {"submit", "send", "waitDone"} \cup Loading
Carriers == {i \in Runtimes : \E s \in Subs(i) : s.gate = "carried"}
GuardsOK ==
  /\ holds = {c \in Clients : Holding(c)} /\ IsFiniteSet(holds)
  /\ ops = Cardinality(holds) + Cardinality(Carriers)

\* One restore at a time, and no guard while it lasts.
Restorer(c) == pc[c] \in {"list", "scan", "writing"}
RestoresOK ==
  /\ restoring => ops = 0
  /\ \A c \in Clients : Restorer(c) => restoring
  /\ \A c, d \in Clients : Restorer(c) /\ Restorer(d) => c = d

\* A restore finds no gated turn where it has looked.
NoGatedTurn(i) == \A s \in Subs(i) : s.gate # "ungated" => s.op # "UserInput"
ScanOK ==
  \A c \in Clients, t \in Threads : loaded[t] # None =>
    /\ pc[c] = "scan" /\ loaded[t] \notin scan => NoGatedTurn(loaded[t])
    /\ pc[c] = "writing" => NoGatedTurn(loaded[t])

\* A turn and a fork have the operation lock of their thread.
HasOpLock(c) == kind[c] \in {"Turn", "Fork"} /\ pc[c] \notin {"idle", "opLock"}
OpLocksOK == \A c \in Clients : HasOpLock(c) => opLock[target[c]] = c

\* A fork that copies met no client's turn, and meets none.
NoClientTurn(i) == \A s \in Subs(i) : ~(s.op = "UserInput" /\ s.gate = "passed")
ForksOK ==
  \A c \in Clients : pc[c] = "copying" /\ loaded[target[c]] # None => NoClientTurn(loaded[target[c]])

\* While nobody hangs up, who sent a decision still waits for it.
DecisionsOK ==
  hangups = 0 =>
    \A i \in Runtimes : \A s \in Subs(i) : s.op = "Decision" =>
      s.for \in Clients /\ kind[s.for] = "Decide" /\ pc[s.for] = "waitDone" /\ rt[s.for] = i

IInv ==
  /\ TypeOK /\ CallsOK /\ RuntimesOK /\ LoadsOK /\ DoomedUnloaded /\ NoneClosed /\ SlotsOK
  /\ CarriedAreTurns /\ GuardsOK /\ RestoresOK /\ ScanOK /\ OpLocksOK /\ ForksOK /\ DecisionsOK

-----------------------------------------------------------------------------
(* Procedures and queues.                                                  *)

LEMMA Names ==
  /\ Runtimes \subseteq Nat /\ None \notin Runtimes /\ Clients \subseteq Procs /\ Runtimes \subseteq Procs
  /\ Clients \cap Runtimes = {} /\ Nobody \notin Procs
  /\ Procs \cap {Nobody} = {} /\ Clients \cap {None} = {}
BY NobodyAssumption, ClientsAssumption, MaxRuntimesAssumption DEF Runtimes, Procs, None

\* What Goto and End do with the task of a call.
LEMMA GotoMoves ==
  ASSUME TypeOK, NEW p \in Procs, NEW where, Goto(p, where)
  PROVE  pc'[p] = where /\ \A q \in Procs \ {p} : pc'[q] = pc[q]
BY DEF Goto, TypeOK

LEMMA EndMoves ==
  ASSUME TypeOK, NEW p \in Procs, End(p)
  PROVE  /\ pc'[p] = "idle" /\ \A q \in Procs \ {p} : pc'[q] = pc[q]
         /\ pc' \in [Procs -> TaskSteps] /\ opLock' \in [Threads -> Clients \cup {Nobody}]
         /\ holds' \subseteq Clients
         /\ holds' = holds \ {p} /\ ops' = IF p \in holds THEN ops - 1 ELSE ops
         /\ \A t \in Threads : opLock[t] # p => opLock'[t] = opLock[t]
<1>1. pc'[p] = "idle" /\ \A q \in Procs \ {p} : pc'[q] = pc[q]
  BY GotoMoves DEF End
<1>2. pc' \in [Procs -> TaskSteps] /\ opLock' \in [Threads -> Clients \cup {Nobody}] /\ holds' \subseteq Clients
  BY DEF End, Goto, TypeOK, TaskSteps
<1>3. /\ holds' = holds \ {p} /\ ops' = IF p \in holds THEN ops - 1 ELSE ops
      /\ \A t \in Threads : opLock[t] # p => opLock'[t] = opLock[t]
  BY DEF End
<1> QED BY <1>1, <1>2, <1>3

\* A queue with one more submission.
LEMMA AppendFacts ==
  ASSUME NEW q \in Seq(Submissions), NEW s \in Submissions
  PROVE  /\ Append(q, s) \in Seq(Submissions) /\ DOMAIN Append(q, s) = DOMAIN q \cup {Len(q) + 1}
         /\ DOMAIN q = 1 .. Len(q) /\ Len(q) \in Nat
         /\ \A k \in DOMAIN q : Append(q, s)[k] = q[k]
         /\ Append(q, s)[Len(q) + 1] = s
OBVIOUS

\* A queue without its first one.
LEMMA TailFacts ==
  ASSUME NEW q \in Seq(Submissions), q # << >>
  PROVE  /\ Head(q) \in Submissions /\ Head(q) = q[1] /\ 1 \in DOMAIN q
         /\ Tail(q) \in Seq(Submissions)
         /\ \A k \in DOMAIN Tail(q) : k + 1 \in DOMAIN q /\ Tail(q)[k] = q[k + 1]
OBVIOUS

\* What Disown makes of a submission and of a queue.
LEMMA DisownFacts ==
  ASSUME NEW p, NEW s \in Submissions \cup {NoSubmission}
  PROVE  /\ Disown(p, s).op = s.op /\ Disown(p, s).gate = s.gate
         /\ s \in Submissions => Disown(p, s) \in Submissions
         /\ s = NoSubmission => Disown(p, s) = NoSubmission
BY DEF Disown, Submissions, NoSubmission

LEMMA DisownQueue ==
  ASSUME NEW p, NEW q \in Seq(Submissions)
  PROVE  LET r == [k \in DOMAIN q |-> Disown(p, q[k])]
         IN  /\ r \in Seq(Submissions) /\ DOMAIN r = DOMAIN q
             /\ \A k \in DOMAIN q : r[k].op = q[k].op /\ r[k].gate = q[k].gate
             /\ q = << >> => r = << >>
<1> DEFINE r == [k \in DOMAIN q |-> Disown(p, q[k])]
<1>1. DOMAIN q = 1 .. Len(q) /\ Len(q) \in Nat /\ \A k \in DOMAIN q : q[k] \in Submissions
  OBVIOUS
<1>2. \A k \in DOMAIN q : /\ Disown(p, q[k]) \in Submissions
                          /\ Disown(p, q[k]).op = q[k].op /\ Disown(p, q[k]).gate = q[k].gate
  BY <1>1, DisownFacts
<1>3. r \in [1 .. Len(q) -> Submissions]
  BY <1>1, <1>2
<1>4. r \in Seq(Submissions)
  BY <1>1, <1>3, SeqDef
<1>5. q = << >> => r = << >>
  BY <1>1, <1>3, <1>4
<1> QED BY <1>2, <1>4, <1>5

-----------------------------------------------------------------------------
(* Types.                                                                  *)

\* Where a task has a runtime it is a runtime.
LEMMA HasRuntime ==
  ASSUME TypeOK, RuntimesOK, NEW p \in Procs, UsesRuntime(p)
  PROVE  rt[p] \in Runtimes /\ rt[p] <= spawned /\ of[rt[p]] = target[p]
BY DEF TypeOK, RuntimesOK

\* A submission of a request or a tool ends up at the end of a queue.
LEMMA AppendTypes ==
  ASSUME TypeOK, NEW i \in Runtimes, NEW s \in Submissions, Append1(i, s)
  PROVE  /\ queue' \in [Runtimes -> Seq(Submissions)]
         /\ queue'[i] = Append(queue[i], s)
         /\ \A j \in Runtimes \ {i} : queue'[j] = queue[j]
<1>1. queue[i] \in Seq(Submissions)
  BY DEF TypeOK
<1>2. Append(queue[i], s) \in Seq(Submissions)
  BY <1>1
<1> QED BY <1>2 DEF Append1, TypeOK

LEMMA SubmissionTypes ==
  /\ \A p \in Procs \cup {Nobody} :
       /\ [op |-> "UserInput", for |-> p, gate |-> "passed"] \in Submissions
       /\ [op |-> "UserInput", for |-> p, gate |-> "ungated"] \in Submissions
       /\ [op |-> "UserInput", for |-> p, gate |-> "carried"] \in Submissions
       /\ [op |-> "Compaction", for |-> p, gate |-> "ungated"] \in Submissions
       /\ [op |-> "Decision", for |-> p, gate |-> "passed"] \in Submissions
       /\ [op |-> "Shutdown", for |-> p, gate |-> "ungated"] \in Submissions
  /\ NoSubmission \notin Submissions
  /\ \A s \in Submissions : s.op # "None" /\ s.gate \in {"ungated", "passed", "carried"}
BY DEF Submissions, NoSubmission

LEMMA TaskTypes ==
  ASSUME TypeOK, CallsOK, RuntimesOK, NEW p \in Procs, TaskStep(p), ops' \in Nat
  PROVE  TypeOK'
<1> USE DEF loader, gate, runtimes, tasks, others
<1>1. loaded[target[p]] \in {None} \cup Runtimes /\ target[p] \in Threads
  BY DEF TypeOK
<1>2. /\ AfterLookup(p) \in TaskSteps
      /\ {"recheck", "loadLock", "insert", "send", "waitStart", "waitDone"} \subseteq TaskSteps
  BY DEF AfterLookup, TaskSteps
<1>3. CASE Lookup(p)
  <2>1. pc' \in [Procs -> TaskSteps] /\ rt' \in [Procs -> {None} \cup Runtimes]
    <3>1. pc \in [Procs -> TaskSteps] /\ rt \in [Procs -> {None} \cup Runtimes]
      BY DEF TypeOK
    <3> QED BY <1>1, <1>2, <1>3, <3>1 DEF Lookup, Found, Goto
  <2> QED BY <1>3, <2>1 DEF Lookup, TypeOK
<1>4. CASE TakeLoadLock(p)
  BY <1>1, <1>2, <1>4 DEF TakeLoadLock, Goto, TypeOK
<1>5. CASE Recheck(p)
  BY <1>1, <1>2, <1>5 DEF Recheck, Found, DropLoadLock, Goto, TypeOK
<1>6. CASE Spawn(p)
  <2>1. spawned + 1 \in Runtimes
    BY <1>6, MaxRuntimesAssumption DEF Spawn, TypeOK, Runtimes
  <2>2. spawned' \in 0 .. MaxRuntimes
    BY <1>6, MaxRuntimesAssumption DEF Spawn, TypeOK
  <2> QED BY <1>1, <1>2, <1>6, <2>1, <2>2 DEF Spawn, Goto, TypeOK
<1>7. CASE SpawnFails(p)
  BY <1>1, <1>7, EndMoves DEF SpawnFails, DropLoadLock, TypeOK
<1>8. CASE Insert(p)
  BY <1>1, <1>2, <1>8 DEF Insert, DropLoadLock, Goto, TypeOK
<1>9. CASE Return(p)
  BY <1>9, EndMoves DEF Return, TypeOK
<1>10. CASE Submit(p)
  <2>1. CASE Goto(p, "send") /\ UNCHANGED <<opLock, ops, holds>>
    BY <1>2, <1>10, <2>1 DEF Submit, Goto, TypeOK
  <2>2. CASE End(p)
    BY <1>10, <2>2, EndMoves DEF Submit, TypeOK
  <2> QED BY <1>10, <2>1, <2>2 DEF Submit
<1>12. CASE Send(p)
  <2>1. rt[p] \in Runtimes
    BY <1>12, HasRuntime DEF Send, UsesRuntime
  <2>2. ASSUME NEW s \in Submissions, NEW what \in {"turn", "compaction"}, ReserveAndSend(rt[p], what, s)
        PROVE  /\ queue' \in [Runtimes -> Seq(Submissions)]
               /\ slot' \in [Runtimes -> {"free", "turn", "compaction"}]
    BY <2>1, <2>2, AppendTypes DEF ReserveAndSend, TypeOK
  <2>3. Sent(p) => /\ queue' \in [Runtimes -> Seq(Submissions)]
                   /\ slot' \in [Runtimes -> {"free", "turn", "compaction"}]
                   /\ pc' \in [Procs -> TaskSteps]
    <3>1. CASE Sent(p) /\ kind[p] \in {"Turn", "Deliver", "Compact"}
      <4>1. pc' \in [Procs -> TaskSteps]
        BY <1>2, <3>1 DEF Sent, Goto, TypeOK
      <4> QED BY <2>2, <3>1, <4>1, SubmissionTypes DEF Sent
    <3>2. CASE Sent(p) /\ kind[p] = "Decide"
      <4>1. pc' \in [Procs -> TaskSteps] /\ slot' = slot
        BY <1>2, <3>2 DEF Sent, Goto, TypeOK
      <4>2. queue' \in [Runtimes -> Seq(Submissions)]
        BY <2>1, <3>2, SubmissionTypes, AppendTypes DEF Sent
      <4> QED BY <4>1, <4>2 DEF TypeOK
    <3> QED BY <3>1, <3>2 DEF Sent
  <2>4. CASE Sent(p) /\ UNCHANGED <<opLock, ops, holds>>
    BY <1>12, <2>3, <2>4 DEF Send, TypeOK
  <2>5. CASE End(p) /\ UNCHANGED <<slot, queue>>
    BY <1>12, <2>5, EndMoves DEF Send, TypeOK
  <2> QED BY <1>12, <2>4, <2>5 DEF Send
<1>11. CASE Wake(p)
  BY <1>11, EndMoves DEF Wake, TypeOK
<1> QED BY <1>3, <1>4, <1>5, <1>6, <1>7, <1>8, <1>9, <1>10, <1>11, <1>12 DEF TaskStep

LEMMA HangupTypes ==
  ASSUME TypeOK, NEW p \in Procs, Hangup(p), ops' \in Nat
  PROVE  TypeOK'
<1> USE DEF loader
<1>1. queue' \in [Runtimes -> Seq(Submissions)]
  <2>1. \A i \in Runtimes : queue[i] \in Seq(Submissions)
    BY DEF TypeOK
  <2> QED BY <2>1, DisownQueue DEF Hangup
<1>2. hand' \in [Runtimes -> Submissions \cup {NoSubmission}]
  <2>1. \A i \in Runtimes : hand[i] \in Submissions \cup {NoSubmission}
    BY DEF TypeOK
  <2> QED BY <2>1, DisownFacts DEF Hangup
<1>3. hangups' \in 0 .. MaxHangups
  BY BoundsAssumption DEF Hangup, TypeOK
<1> QED BY <1>1, <1>2, <1>3, EndMoves DEF Hangup, TypeOK

LEMMA RequestTypes ==
  ASSUME TypeOK, NEW c \in Clients, Begin(c) \/ RequestStep(c), ops' \in Nat
  PROVE  TypeOK'
<1> USE DEF loader, gate, runtimes, tasks, others
<1>1. /\ {"lookup", "forkCheck", "gate", "submit", "copying", "list", "scan", "writing"} \subseteq TaskSteps
      /\ c \in Procs /\ target[c] \in Threads
  BY Names DEF TaskSteps, TypeOK
<1>2. CASE Begin(c)
  <2>1. requests' \in 0 .. MaxRequests
    BY <1>2, BoundsAssumption DEF Begin, TypeOK
  <2>2. \A k \in Requests : FirstStep[k] \in TaskSteps
    BY DEF FirstStep, TaskSteps
  <2> QED BY <1>2, <2>1, <2>2, <1>1 DEF Begin, Goto, TypeOK
<1>3. CASE TakeOpLock(c)
  BY <1>1, <1>3 DEF TakeOpLock, Goto, TypeOK
<1>4. CASE Resolve(c)
  <2>1. /\ pc' \in [Procs -> TaskSteps] /\ opLock' \in [Threads -> Clients \cup {Nobody}]
        /\ holds' \subseteq Clients
    <3>1. CASE End(c)
      BY <1>1, <3>1, EndMoves
    <3>2. CASE Goto(c, "gate") /\ UNCHANGED <<opLock, ops, holds>>
      BY <1>1, <3>2 DEF Goto, TypeOK
    <3> QED BY <1>4, <3>1, <3>2 DEF Resolve
  <2>2. rt' \in [Procs -> {None} \cup Runtimes]
    BY <1>1, <1>4 DEF Resolve, TypeOK
  <2> QED BY <1>4, <2>1, <2>2 DEF Resolve, TypeOK
<1>5. CASE Gate(c)
  <2>1. /\ pc' \in [Procs -> TaskSteps] /\ opLock' \in [Threads -> Clients \cup {Nobody}]
        /\ holds' \subseteq Clients
    <3>1. CASE End(c)
      BY <1>1, <3>1, EndMoves
    <3>2. CASE Enter(c)
      BY <1>1, <3>2 DEF Enter, Goto, TypeOK
    <3> QED BY <1>5, <3>1, <3>2 DEF Gate
  <2> QED BY <1>5, <2>1 DEF Gate, TypeOK
<1>6. CASE ForkCheck(c) \/ Copied(c)
  BY <1>1, <1>6, EndMoves DEF ForkCheck, Copied, Goto, TypeOK
<1>7. CASE BeginRestore(c) \/ EndRestore(c)
  BY <1>1, <1>7, EndMoves DEF BeginRestore, EndRestore, Goto, TypeOK
<1>8. CASE List(c) \/ StartWriting(c)
  <2>1. scan' \subseteq Runtimes
    BY <1>8 DEF List, StartWriting, TypeOK
  <2>2. pc' \in [Procs -> TaskSteps]
    BY <1>1, <1>8 DEF List, StartWriting, Goto, TypeOK
  <2> QED BY <1>8, <2>1, <2>2 DEF List, StartWriting, TypeOK
<1>9. CASE Look(c)
  BY <1>1, <1>9, EndMoves DEF Look, TypeOK
<1> QED BY <1>2, <1>3, <1>4, <1>5, <1>6, <1>7, <1>8, <1>9 DEF RequestStep

LEMMA ToolTypes ==
  ASSUME TypeOK, CallsOK, RuntimesOK, NEW i \in Runtimes,
         ToolStep(i) \/ CallTool(i) \/ CloseChild(i) \/ DrainInbox(i) \/ CommandEnds(i), ops' \in Nat
  PROVE  TypeOK'
<1> USE DEF loader, gate, runtimes, tasks, others
<1>1. /\ {"followup", "send", "waitDone", "stop", "lookup", "remove"} \subseteq TaskSteps
      /\ i \in Procs /\ target[i] \in Threads
  BY Names DEF TaskSteps, TypeOK
<1>3. CASE Enqueue(i)
  BY <1>1, <1>3 DEF Enqueue, Goto, TypeOK
<1>4. CASE Followup(i)
  <2>1. CASE End(i)
    BY <1>1, <1>4, <2>1, EndMoves DEF Followup, TypeOK
  <2>2. CASE Goto(i, "send") /\ UNCHANGED <<opLock, ops, holds>>
    BY <1>1, <1>4, <2>2 DEF Followup, Goto, TypeOK
  <2> QED BY <1>4, <2>1, <2>2 DEF Followup
<1>5. CASE Remove(i)
  <2>1. CASE loaded[target[i]] = None
    BY <1>1, <1>5, <2>1, EndMoves DEF Remove, TypeOK
  <2>2. CASE loaded[target[i]] # None
    <3>1. loaded[target[i]] \in Runtimes
      BY <1>1, <2>2 DEF TypeOK
    <3>2. pc' \in [Procs -> TaskSteps]
      BY <1>1, <1>5, <2>2 DEF Remove, Goto, TypeOK
    <3> QED BY <1>1, <1>5, <2>2, <3>1, <3>2 DEF Remove, TypeOK
  <2> QED BY <2>1, <2>2
<1>6. CASE SendStop(i)
  <2>1. rt[i] \in Runtimes
    BY <1>1, <1>6, HasRuntime DEF SendStop, UsesRuntime
  <2>2. queue' \in [Runtimes -> Seq(Submissions)]
    BY <1>1, <1>6, <2>1, AppendTypes, SubmissionTypes DEF SendStop
  <2> QED BY <1>1, <1>6, <2>2 DEF SendStop, Goto, TypeOK
<1>7. CASE CallTool(i)
  <2>1. toolCalls' \in 0 .. MaxToolCalls
    BY <1>7, BoundsAssumption DEF CallTool, TypeOK
  <2> QED BY <1>1, <1>7, <2>1 DEF CallTool, StartCall, Goto, TypeOK
<1>8. CASE CloseChild(i)
  <2>1. closes' \in 0 .. MaxCloses
    BY <1>8, BoundsAssumption DEF CloseChild, TypeOK
  <2> QED BY <1>1, <1>8, <2>1 DEF CloseChild, StartCall, Goto, TypeOK
<1>9. CASE DrainInbox(i)
  BY <1>9 DEF DrainInbox, TypeOK
<1>10. CASE CommandEnds(i)
  BY <1>10 DEF CommandEnds, TypeOK
<1> QED BY <1>3, <1>4, <1>5, <1>6, <1>7, <1>8, <1>9, <1>10 DEF ToolStep

LEMMA LoopTypes ==
  ASSUME TypeOK, NEW i \in Runtimes, LoopStep(i), ops' \in Nat
  PROVE  TypeOK'
<1> USE DEF loader, gate, runtimes, tasks, others
<1>1. queue[i] \in Seq(Submissions) /\ i \in Procs /\ "lookup" \in TaskSteps
  BY Names DEF TypeOK, TaskSteps
<1>2. CASE Take(i)
  <2>1. Head(queue[i]) \in Submissions /\ Tail(queue[i]) \in Seq(Submissions)
    BY <1>1, <1>2, TailFacts DEF Take
  <2> QED BY <1>2, <2>1 DEF Take, Proceed, TypeOK
<1>3. CASE Stop(i)
  BY <1>3 DEF Stop, Proceed, TypeOK
<1>4. CASE EndTurn(i)
  <2>1. phase' \in [Runtimes -> {"recv", "working", "ending", "mail", "stopped"}]
    BY <1>4 DEF EndTurn, Proceed, TypeOK
  <2>2. CASE StartCall(i, "Deliver", Root, "lookup")
    BY <1>1, <1>4, <2>1, <2>2, RootAssumption DEF EndTurn, StartCall, Goto, TypeOK
  <2>3. CASE UNCHANGED <<tasks>>
    BY <1>4, <2>1, <2>3 DEF EndTurn, TypeOK
  <2> QED BY <1>4, <2>2, <2>3 DEF EndTurn
<1>5. CASE ReleaseTurn(i) \/ FinishOther(i)
  <2>1. /\ slot' \in [Runtimes -> {"free", "turn", "compaction"}]
        /\ hand' \in [Runtimes -> Submissions \cup {NoSubmission}]
    BY <1>5 DEF ReleaseTurn, FinishOther, PutDown, TypeOK
  <2>2. phase' \in [Runtimes -> {"recv", "working", "ending", "mail", "stopped"}]
    BY <1>5 DEF ReleaseTurn, FinishOther, Proceed, TypeOK
  <2> QED BY <1>5, <2>1, <2>2 DEF ReleaseTurn, FinishOther, TypeOK
<1>6. CASE CheckMail(i)
  <2>1. phase' \in [Runtimes -> {"recv", "working", "ending", "mail", "stopped"}]
    BY <1>6 DEF CheckMail, Proceed, TypeOK
  <2>2. CASE UNCHANGED <<slot, queue, ops>>
    BY <1>6, <2>1, <2>2 DEF CheckMail, TypeOK
  <2>3. CASE ReserveAndSend(i, "turn", [op |-> "UserInput", for |-> Nobody, gate |-> "carried"])
    <3>1. /\ queue' \in [Runtimes -> Seq(Submissions)]
          /\ slot' \in [Runtimes -> {"free", "turn", "compaction"}]
      BY <2>3, AppendTypes, SubmissionTypes DEF ReserveAndSend, TypeOK
    <3> QED BY <1>6, <2>1, <3>1 DEF CheckMail, TypeOK
  <2> QED BY <1>6, <2>2, <2>3 DEF CheckMail
<1> QED BY <1>2, <1>3, <1>4, <1>5, <1>6 DEF LoopStep

LEMMA TypesKept ==
  ASSUME TypeOK, CallsOK, RuntimesOK, [Next]_vars, ops' \in Nat
  PROVE  TypeOK'
<1>1. CASE UNCHANGED vars
  BY <1>1 DEF vars, loader, gate, runtimes, tasks, others, TypeOK
<1> QED BY <1>1, TaskTypes, HangupTypes, RequestTypes, ToolTypes, LoopTypes DEF Next

-----------------------------------------------------------------------------
(* The calls.                                                              *)

\* A step is that of one task: the calls of the others stay where they are.
Others(p) ==
  \A q \in Procs \ {p} :
    pc'[q] = pc[q] /\ kind'[q] = kind[q] /\ target'[q] = target[q] /\ rt'[q] = rt[q]

LEMMA TaskOthers ==
  ASSUME TypeOK, NEW p \in Procs, TaskStep(p) \/ Hangup(p)
  PROVE  Others(p)
BY DEF TaskStep, Hangup, Lookup, TakeLoadLock, Recheck, Spawn, SpawnFails, Insert, Return, Submit, Send,
       Wake, Found, Sent, End, Goto, Others, TypeOK

LEMMA RequestOthers ==
  ASSUME TypeOK, NEW c \in Clients, Begin(c) \/ RequestStep(c)
  PROVE  Others(c)
BY Names DEF RequestStep, Begin, TakeOpLock, Resolve, Gate, Enter, ForkCheck, Copied, BeginRestore,
       List, Look, StartWriting, EndRestore, End, Goto, Others, TypeOK

RuntimeStep(i) == ToolStep(i) \/ LoopStep(i) \/ CallTool(i) \/ CloseChild(i) \/ DrainInbox(i) \/ CommandEnds(i)

LEMMA RuntimeOthers ==
  ASSUME TypeOK, NEW i \in Runtimes, RuntimeStep(i)
  PROVE  Others(i)
BY Names DEF RuntimeStep, ToolStep, LoopStep, CallTool, CloseChild, CommandEnds, DrainInbox, StartCall, Enqueue,
       Followup, Remove, SendStop, Take, Stop, EndTurn, ReleaseTurn, FinishOther, CheckMail, tasks,
       End, Goto, Others, TypeOK

\* The kinds of call that can be at a step.
LEMMA CallsAt ==
  ASSUME CallsOK, TypeOK, NEW p \in Procs
  PROVE  /\ pc[p] \in Loading => kind[p] \in {"Turn", "Decide", "Compact", "Load", "Deliver"}
         /\ pc[p] = "return" => kind[p] = "Load"
         /\ pc[p] = "opLock" => kind[p] \in {"Turn", "Fork"}
         /\ pc[p] = "gate" => kind[p] \in {"Turn", "Decide"}
         /\ pc[p] = "resolve" => kind[p] = "Decide"
         /\ pc[p] = "submit" => kind[p] \in {"Turn", "Decide", "Compact"}
         /\ pc[p] = "send" => kind[p] \in {"Turn", "Decide", "Compact", "Deliver"}
         /\ pc[p] = "waitStart" => kind[p] \in {"Turn", "Deliver"}
         /\ pc[p] = "waitDone" => kind[p] \in {"Decide", "Compact", "Close"}
         /\ pc[p] \in {"forkCheck", "copying"} => kind[p] = "Fork"
         /\ pc[p] \in {"restore", "list", "scan", "writing"} => kind[p] = "Restore"
         /\ pc[p] \in {"enqueue", "followup"} => kind[p] = "Deliver"
         /\ pc[p] \in {"remove", "stop"} => kind[p] = "Close"
<1>1. pc[p] \in StepsOf(kind[p]) /\ kind[p] \in Requests \cup {"Deliver", "Close"}
  BY DEF CallsOK, TypeOK
<1> QED BY <1>1 DEF StepsOf, Loading, Requests

LEMMA CallsKept ==
  ASSUME TypeOK, CallsOK, [Next]_vars
  PROVE  CallsOK'
<1>1. ASSUME NEW p \in Procs, Others(p), pc'[p] \in StepsOf(kind'[p]),
             kind'[p] = kind[p] \/ (p \in Clients /\ kind'[p] \in Requests)
               \/ (p \in Runtimes /\ kind'[p] \in {"Deliver", "Close"})
      PROVE  CallsOK'
  BY <1>1, Names DEF Others, CallsOK, Requests
<1>2. ASSUME NEW p \in Procs, Others(p), kind' = kind, pc'[p] = "idle" \/ pc'[p] = pc[p]
      PROVE  CallsOK'
  BY <1>1, <1>2 DEF CallsOK, StepsOf
<1>3. ASSUME NEW p \in Procs, TaskStep(p) \/ Hangup(p)
      PROVE  CallsOK'
  <2>1. Others(p) /\ kind' = kind
    BY <1>3, TaskOthers DEF TaskStep, Hangup, Lookup, TakeLoadLock, Recheck, Spawn, SpawnFails, Insert,
                 Return, Submit, Send, Wake
  <2>2. CASE pc'[p] = "idle"
    BY <1>2, <2>1, <2>2
  <2>3. CASE pc'[p] # "idle"
    <3>1. \/ pc[p] = "lookup" /\ pc'[p] \in {"loadLock", AfterLookup(p)}
          \/ pc[p] = "loadLock" /\ pc'[p] = "recheck"
          \/ pc[p] = "recheck" /\ pc'[p] \in {"insert", AfterLookup(p)}
          \/ pc[p] = "insert" /\ pc'[p] = AfterLookup(p)
          \/ pc[p] = "submit" /\ pc'[p] = "send"
          \/ pc[p] = "send" /\ kind[p] \in {"Turn", "Deliver"} /\ pc'[p] = "waitStart"
          \/ pc[p] = "send" /\ kind[p] \in {"Compact", "Decide"} /\ pc'[p] = "waitDone"
      BY <1>3, <2>3, GotoMoves, EndMoves
         DEF TaskStep, Hangup, Lookup, Found, TakeLoadLock, Recheck, Spawn, SpawnFails, Insert, Return,
             Submit, Send, Sent, Wake
    <3>2. pc'[p] \in StepsOf(kind[p])
      BY <3>1, CallsAt DEF StepsOf, AfterLookup, Loading
    <3> QED BY <1>1, <2>1, <3>2
  <2> QED BY <2>2, <2>3
<1>4. ASSUME NEW c \in Clients, Begin(c)
      PROVE  CallsOK'
  <2>1. PICK k \in Requests : kind' = [kind EXCEPT ![c] = k] /\ Goto(c, FirstStep[k])
    BY <1>4 DEF Begin
  <2>2. c \in Procs /\ kind'[c] = k /\ pc'[c] = FirstStep[k]
    <3>1. c \in Procs /\ pc'[c] = FirstStep[k]
      BY <2>1, Names, GotoMoves
    <3>2. kind'[c] = k
      BY <2>1, <3>1 DEF TypeOK
    <3> QED BY <3>1, <3>2
  <2>3. FirstStep[k] \in StepsOf(k)
    BY DEF FirstStep, StepsOf, Requests, Loading
  <2> QED BY <1>1, <1>4, <2>2, <2>3, RequestOthers
<1>5. ASSUME NEW c \in Clients, RequestStep(c)
      PROVE  CallsOK'
  <2>1. c \in Procs /\ Others(c) /\ kind' = kind
    BY <1>5, Names, RequestOthers DEF RequestStep, TakeOpLock, Resolve, Gate, ForkCheck, Copied,
                              BeginRestore, List, Look, StartWriting, EndRestore
  <2>2. CASE pc'[c] \in {"idle", pc[c]}
    BY <1>2, <2>1, <2>2
  <2>3. CASE pc'[c] \notin {"idle", pc[c]}
    <3>1. \/ pc[c] = "opLock" /\ pc'[c] = IF kind[c] = "Fork" THEN "forkCheck" ELSE "lookup"
          \/ pc[c] = "resolve" /\ pc'[c] = "gate"
          \/ pc[c] = "gate" /\ kind[c] = "Decide" /\ pc'[c] = "lookup"
          \/ pc[c] = "gate" /\ pc'[c] = "submit"
          \/ pc[c] = "forkCheck" /\ pc'[c] = "copying"
          \/ pc[c] = "restore" /\ pc'[c] = "list"
          \/ pc[c] = "list" /\ pc'[c] = "scan"
          \/ pc[c] = "scan" /\ pc'[c] = "writing"
      BY <1>5, <2>1, <2>3, GotoMoves, EndMoves
         DEF RequestStep, TakeOpLock, Resolve, Gate, Enter, ForkCheck, Copied, BeginRestore, List, Look,
             StartWriting, EndRestore
    <3>2. pc'[c] \in StepsOf(kind[c])
      BY <2>1, <3>1, CallsAt DEF StepsOf, Loading
    <3> QED BY <1>1, <2>1, <3>2
  <2> QED BY <2>2, <2>3
<1>6. ASSUME NEW i \in Runtimes, RuntimeStep(i)
      PROVE  CallsOK'
  <2>1. i \in Procs /\ Others(i)
    BY <1>6, Names, RuntimeOthers
  <2>2. CASE UNCHANGED tasks
    BY <1>2, <2>1, <2>2 DEF tasks
  <2>3. CASE CallTool(i) \/ CloseChild(i) \/ EndTurn(i)
    <3>1. UNCHANGED tasks \/ \E t : StartCall(i, "Deliver", t, "lookup") \/ StartCall(i, "Close", t, "remove")
      BY <2>3 DEF CallTool, CloseChild, EndTurn
    <3>2. CASE ~UNCHANGED tasks
      <4>1. (kind'[i] = "Deliver" /\ pc'[i] = "lookup") \/ (kind'[i] = "Close" /\ pc'[i] = "remove")
        BY <2>1, <3>1, <3>2, GotoMoves DEF StartCall, TypeOK
      <4> QED BY <1>1, <1>6, <2>1, <4>1 DEF StepsOf, Loading
    <3> QED BY <2>2, <3>2
  <2>4. CASE ToolStep(i)
    <3>1. kind' = kind
      BY <2>4 DEF ToolStep, Enqueue, Followup, Remove, SendStop
    <3>2. CASE pc'[i] = "idle"
      BY <1>2, <2>1, <3>1, <3>2
    <3>3. CASE pc'[i] # "idle"
      <4>1. \/ pc[i] = "enqueue" /\ pc'[i] = "followup"
            \/ pc[i] = "followup" /\ pc'[i] = "send"
            \/ pc[i] = "remove" /\ pc'[i] = "stop"
            \/ pc[i] = "stop" /\ pc'[i] = "waitDone"
        BY <2>1, <2>4, <3>3, GotoMoves, EndMoves DEF ToolStep, Enqueue, Followup, Remove, SendStop
      <4>2. pc'[i] \in StepsOf(kind[i])
        BY <2>1, <4>1, CallsAt DEF StepsOf
      <4> QED BY <1>1, <2>1, <3>1, <4>2
    <3> QED BY <3>2, <3>3
  <2>5. CASE Take(i) \/ Stop(i) \/ ReleaseTurn(i) \/ FinishOther(i) \/ CheckMail(i) \/ DrainInbox(i) \/ CommandEnds(i)
    <3>1. UNCHANGED tasks
      BY <2>5 DEF Take, Stop, ReleaseTurn, FinishOther, CheckMail, DrainInbox, CommandEnds, tasks
    <3> QED BY <2>2, <3>1
  <2> QED BY <1>6, <2>3, <2>4, <2>5 DEF RuntimeStep, LoopStep
<1>7. CASE UNCHANGED vars
  BY <1>7 DEF vars, tasks, CallsOK
<1> QED BY <1>3, <1>4, <1>5, <1>6, <1>7 DEF Next, RuntimeStep

-----------------------------------------------------------------------------
(* The runtimes that tasks and the map have.                               *)

\* One task moves, and what it and the map then have are runtimes of their threads.
LEMMA RuntimesMoved ==
  ASSUME TypeOK, RuntimesOK, NEW p \in Procs, Others(p),
         spawned' \in Nat, spawned <= spawned', \A i \in Runtimes : i <= spawned => of'[i] = of[i],
         \/ rt'[p] = rt[p] /\ target'[p] = target[p]
         \/ rt'[p] # None => rt'[p] <= spawned' /\ of'[rt'[p]] = target'[p],
         UsesRuntime(p)' => rt'[p] # None,
         \A t \in Threads : \/ loaded'[t] \in {loaded[t], None}
                            \/ loaded'[t] \in Runtimes /\ loaded'[t] <= spawned /\ of[loaded'[t]] = t
  PROVE  RuntimesOK'
<1>1. spawned \in Nat /\ Runtimes \subseteq Nat
  BY Names DEF TypeOK
<1>2. ASSUME NEW i \in Runtimes, i <= spawned
      PROVE  i <= spawned' /\ of'[i] = of[i]
  BY <1>1, <1>2
<1>3. ASSUME NEW q \in Procs, rt'[q] # None
      PROVE  rt'[q] <= spawned' /\ of'[rt'[q]] = target'[q]
  <2>1. CASE rt'[q] = rt[q] /\ target'[q] = target[q]
    BY <1>2, <1>3, <2>1 DEF RuntimesOK, TypeOK
  <2> QED BY <1>3, <2>1 DEF Others
<1>4. ASSUME NEW q \in Procs, UsesRuntime(q)'
      PROVE  rt'[q] # None
  BY <1>4 DEF Others, UsesRuntime, RuntimesOK
<1>5. ASSUME NEW t \in Threads, loaded'[t] # None
      PROVE  loaded'[t] <= spawned' /\ of'[loaded'[t]] = t
  <2>1. loaded'[t] \in Runtimes /\ loaded'[t] <= spawned /\ of[loaded'[t]] = t
    BY <1>5 DEF RuntimesOK, TypeOK
  <2> QED BY <1>2, <2>1
<1> QED BY <1>3, <1>4, <1>5 DEF RuntimesOK

\* What a look at the map gives a task.
LEMMA MapFacts ==
  ASSUME TypeOK, RuntimesOK, NEW t \in Threads, loaded[t] # None
  PROVE  loaded[t] \in Runtimes /\ loaded[t] <= spawned /\ of[loaded[t]] = t
BY DEF TypeOK, RuntimesOK

LEMMA RuntimesKept ==
  ASSUME TypeOK, CallsOK, RuntimesOK, [Next]_vars
  PROVE  RuntimesOK'
<1> USE DEF loader, gate, runtimes, tasks, others
<1>1. /\ spawned \in Nat /\ Runtimes \subseteq Nat /\ Clients \subseteq Procs /\ Runtimes \subseteq Procs
      /\ target \in [Procs -> Threads] /\ rt \in [Procs -> {None} \cup Runtimes]
  BY Names DEF TypeOK
<1>2. ASSUME NEW p \in Procs, Others(p), UNCHANGED <<spawned, of, loaded>>,
             \/ rt'[p] = rt[p] /\ target'[p] = target[p]
             \/ rt'[p] = None
             \/ rt'[p] = loaded[target[p]] /\ target'[p] = target[p],
             UsesRuntime(p)' => rt'[p] # None
      PROVE  RuntimesOK'
  <2>1. rt'[p] = loaded[target[p]] /\ target'[p] = target[p] /\ rt'[p] # None
          => rt'[p] <= spawned' /\ of'[rt'[p]] = target'[p]
    BY <1>1, <1>2, MapFacts
  <2> QED BY <1>1, <1>2, <2>1, RuntimesMoved
<1>3. ASSUME NEW p \in Procs, TaskStep(p)
      PROVE  RuntimesOK'
  <2>1. Others(p)
    BY <1>3, TaskOthers
  <2>2. CASE Lookup(p) \/ Recheck(p)
    <3>1. CASE Found(p)
      <4>1. rt'[p] = loaded[target[p]] /\ rt'[p] # None
        BY <1>1, <3>1 DEF Found
      <4> QED BY <1>2, <2>1, <2>2, <4>1 DEF Lookup, Recheck
    <3>2. CASE ~Found(p)
      <4>1. pc'[p] = "loadLock" /\ UNCHANGED <<spawned, of, loaded, rt, target>>
        BY <2>2, <3>2, GotoMoves DEF Lookup, Recheck
      <4> QED BY <1>2, <2>1, <4>1 DEF UsesRuntime
    <3> QED BY <3>1, <3>2
  <2>3. CASE TakeLoadLock(p)
    <3>1. pc'[p] = "recheck" /\ UNCHANGED <<spawned, of, loaded, rt, target>>
      BY <2>3, GotoMoves DEF TakeLoadLock
    <3> QED BY <1>2, <2>1, <3>1 DEF UsesRuntime
  <2>4. CASE Spawn(p)
    <3>1. spawned' = spawned + 1 /\ rt'[p] = spawned + 1 /\ UNCHANGED <<loaded, target>>
      BY <1>1, <2>4 DEF Spawn
    <3>2. \A i \in Runtimes : i # spawned + 1 => of'[i] = of[i]
      BY <2>4 DEF Spawn, TypeOK
    <3>3. spawned + 1 \in Runtimes
      BY <2>4, MaxRuntimesAssumption DEF Spawn, TypeOK, Runtimes
    <3>4. of'[rt'[p]] = target'[p]
      BY <2>4, <3>1, <3>3 DEF Spawn, TypeOK
    <3>5. rt'[p] # None /\ rt'[p] <= spawned'
      BY <1>1, <3>1, <3>3, Names
    <3>6. \A i \in Runtimes : i <= spawned => of'[i] = of[i]
      BY <1>1, <3>2
    <3>7. spawned' \in Nat /\ spawned <= spawned' /\ \A t \in Threads : loaded'[t] \in {loaded[t], None}
      BY <1>1, <3>1
    <3> QED BY <2>1, <3>4, <3>5, <3>6, <3>7, RuntimesMoved
  <2>5. CASE SpawnFails(p) \/ Return(p) \/ Wake(p) \/ Submit(p) \/ Send(p)
    <3>1. UNCHANGED <<spawned, of, loaded, rt, target>>
      BY <2>5 DEF SpawnFails, Return, Wake, Submit, Send
    <3>2. pc'[p] = "idle" \/ pc[p] \in {"submit", "send"}
      BY <2>5, EndMoves DEF SpawnFails, Return, Wake, Submit, Send
    <3>3. UsesRuntime(p)' => rt'[p] # None
      BY <3>1, <3>2 DEF UsesRuntime, RuntimesOK
    <3> QED BY <1>2, <2>1, <3>1, <3>3
  <2>6. CASE Insert(p)
    <3>1. rt[p] \in Runtimes /\ rt[p] <= spawned /\ of[rt[p]] = target[p]
      BY <2>6, HasRuntime DEF Insert, UsesRuntime
    <3>2. UNCHANGED <<spawned, of, rt, target>>
      BY <2>6 DEF Insert
    <3>3. \A t \in Threads : \/ loaded'[t] \in {loaded[t], None}
                             \/ loaded'[t] \in Runtimes /\ loaded'[t] <= spawned /\ of[loaded'[t]] = t
      BY <2>6, <3>1 DEF Insert, TypeOK
    <3> QED BY <1>1, <2>1, <3>1, <3>2, <3>3, Names, RuntimesMoved
  <2> QED BY <1>3, <2>2, <2>3, <2>4, <2>5, <2>6 DEF TaskStep
<1>4. ASSUME NEW p \in Procs, Hangup(p)
      PROVE  RuntimesOK'
  <2>1. pc'[p] = "idle" /\ Others(p) /\ UNCHANGED <<spawned, of, loaded, rt, target>>
    BY <1>4, TaskOthers, EndMoves DEF Hangup
  <2> QED BY <1>2, <2>1 DEF UsesRuntime
<1>5. ASSUME NEW c \in Clients, Begin(c)
      PROVE  RuntimesOK'
  <2>1. rt'[c] = None /\ UNCHANGED <<spawned, of, loaded>> /\ Others(c) /\ c \in Procs
    BY <1>1, <1>5, RequestOthers DEF Begin
  <2>2. pc'[c] \in {"opLock", "resolve", "restore", "lookup"}
    BY <1>5, <2>1, GotoMoves DEF Begin, FirstStep, Requests
  <2> QED BY <1>2, <2>1, <2>2 DEF UsesRuntime
<1>6. ASSUME NEW c \in Clients, RequestStep(c)
      PROVE  RuntimesOK'
  <2>1. c \in Procs /\ Others(c) /\ UNCHANGED <<spawned, of, loaded, target>>
    BY <1>1, <1>6, RequestOthers DEF RequestStep, TakeOpLock, Resolve, Gate, ForkCheck, Copied,
                                     BeginRestore, List, Look, StartWriting, EndRestore
  <2>2. CASE Resolve(c)
    <3>1. kind[c] = "Decide" /\ kind' = kind
      BY <2>1, <2>2, CallsAt DEF Resolve
    <3>2. pc'[c] \in {"gate", "idle"} /\ (rt'[c] = loaded[target[c]] \/ rt' = rt)
      BY <1>1, <2>1, <2>2, GotoMoves, EndMoves DEF Resolve
    <3> QED BY <1>2, <2>1, <3>1, <3>2 DEF UsesRuntime
  <2>3. CASE Gate(c)
    <3>1. UNCHANGED <<kind, rt>> /\ pc[c] = "gate"
      BY <2>3 DEF Gate
    <3>2. pc'[c] = "idle" \/ pc'[c] = IF kind[c] = "Decide" /\ rt[c] = None THEN "lookup" ELSE "submit"
      BY <2>1, <2>3, GotoMoves, EndMoves DEF Gate, Enter
    <3>3. kind[c] \in {"Turn", "Decide"}
      BY <2>1, <3>1, CallsAt
    <3>4. UsesRuntime(c)' => rt'[c] # None
      BY <2>1, <3>1, <3>2, <3>3 DEF UsesRuntime, RuntimesOK
    <3> QED BY <1>2, <2>1, <3>1, <3>4
  <2>4. CASE ~Resolve(c) /\ ~Gate(c)
    <3>1. UNCHANGED rt
      BY <1>6, <2>4 DEF RequestStep, TakeOpLock, ForkCheck, Copied, BeginRestore, List, Look,
                        StartWriting, EndRestore
    <3>2. pc'[c] \in {"idle", "forkCheck", "lookup", "copying", "list", "scan", "writing"}
      BY <1>6, <2>1, <2>4, GotoMoves, EndMoves
         DEF RequestStep, TakeOpLock, ForkCheck, Copied, BeginRestore, List, Look, StartWriting, EndRestore
    <3> QED BY <1>2, <2>1, <3>1, <3>2 DEF UsesRuntime
  <2> QED BY <2>2, <2>3, <2>4
<1>7. ASSUME NEW i \in Runtimes, RuntimeStep(i)
      PROVE  RuntimesOK'
  <2>1. i \in Procs /\ Others(i) /\ UNCHANGED <<spawned, of>>
    BY <1>1, <1>7, RuntimeOthers
       DEF RuntimeStep, ToolStep, LoopStep, CallTool, CloseChild, CommandEnds, DrainInbox, Enqueue, Followup, Remove,
           SendStop, Take, Stop, EndTurn, ReleaseTurn, FinishOther, CheckMail
  <2>2. CASE UNCHANGED <<tasks, loaded>>
    BY <1>2, <2>1, <2>2 DEF UsesRuntime, RuntimesOK
  <2>3. CASE CallTool(i) \/ CloseChild(i) \/ EndTurn(i)
    <3>1. UNCHANGED loaded /\ (UNCHANGED tasks
           \/ \E t : StartCall(i, "Deliver", t, "lookup") \/ StartCall(i, "Close", t, "remove"))
      BY <2>3 DEF CallTool, CloseChild, EndTurn
    <3>2. CASE ~UNCHANGED tasks
      <4>1. rt'[i] = None /\ pc'[i] \in {"lookup", "remove"}
        BY <1>1, <2>1, <3>1, <3>2, GotoMoves DEF StartCall
      <4> QED BY <1>2, <2>1, <3>1, <4>1 DEF UsesRuntime
    <3> QED BY <2>2, <3>1, <3>2
  <2>4. CASE Remove(i)
    <3>1. CASE loaded[target[i]] = None
      <4>1. pc'[i] = "idle" /\ UNCHANGED <<loaded, rt, target>>
        BY <2>1, <2>4, <3>1, EndMoves DEF Remove
      <4> QED BY <1>2, <2>1, <4>1 DEF UsesRuntime
    <3>2. CASE loaded[target[i]] # None
      <4>1. rt'[i] = loaded[target[i]] /\ rt'[i] # None /\ UNCHANGED target
        BY <1>1, <2>1, <2>4, <3>2 DEF Remove
      <4>2. rt'[i] <= spawned' /\ of'[rt'[i]] = target'[i]
        BY <1>1, <2>1, <3>2, <4>1, MapFacts
      <4>3. \A t \in Threads : loaded'[t] \in {loaded[t], None}
        BY <2>4, <3>2 DEF Remove, TypeOK
      <4> QED BY <1>1, <2>1, <4>1, <4>2, <4>3, RuntimesMoved
    <3> QED BY <3>1, <3>2
  <2>5. CASE Enqueue(i) \/ Followup(i) \/ SendStop(i)
    <3>1. UNCHANGED <<loaded, rt, target>> /\ pc[i] \in {"enqueue", "followup", "stop"}
      BY <2>5 DEF Enqueue, Followup, SendStop
    <3>2. rt[i] # None
      BY <2>1, <3>1 DEF RuntimesOK, UsesRuntime
    <3> QED BY <1>2, <2>1, <3>1, <3>2
  <2>6. CASE Take(i) \/ Stop(i) \/ ReleaseTurn(i) \/ FinishOther(i) \/ CheckMail(i) \/ DrainInbox(i) \/ CommandEnds(i)
    <3>1. UNCHANGED <<tasks, loaded>>
      BY <2>6 DEF Take, Stop, ReleaseTurn, FinishOther, CheckMail, DrainInbox, CommandEnds
    <3> QED BY <2>2, <3>1
  <2> QED BY <1>7, <2>3, <2>4, <2>5, <2>6 DEF RuntimeStep, LoopStep, ToolStep
<1>8. CASE UNCHANGED vars
  BY <1>8 DEF vars, RuntimesOK, UsesRuntime
<1> QED BY <1>3, <1>4, <1>5, <1>6, <1>7, <1>8 DEF Next, RuntimeStep

-----------------------------------------------------------------------------
(* The channels and the slots.                                             *)

\* Task p sends s to the runtime it has.
Sends(p, s) ==
  /\ \/ pc[p] = "send" /\ kind[p] = "Turn" /\ pc'[p] = "waitStart"
        /\ s = [op |-> "UserInput", for |-> p, gate |-> "passed"]
     \/ pc[p] = "send" /\ kind[p] = "Compact" /\ pc'[p] = "waitDone"
        /\ s = [op |-> "Compaction", for |-> p, gate |-> "ungated"]
     \/ pc[p] = "send" /\ kind[p] = "Decide" /\ pc'[p] = "waitDone"
        /\ s = [op |-> "Decision", for |-> p, gate |-> "passed"]
     \/ pc[p] = "send" /\ kind[p] = "Deliver" /\ pc'[p] = "waitStart"
        /\ s = [op |-> "UserInput", for |-> p, gate |-> "ungated"]
     \/ pc[p] = "stop" /\ pc'[p] = "waitDone"
        /\ s = [op |-> "Shutdown", for |-> p, gate |-> "ungated"]
  /\ Append1(rt[p], s)
  /\ IF Reserving(s)
     THEN /\ slot[rt[p]] = "free"
          /\ slot' = [slot EXCEPT ![rt[p]] = IF s.op = "UserInput" THEN "turn" ELSE "compaction"]
     ELSE slot' = slot
  /\ UNCHANGED <<hand, phase, loader, opLock, gate, kind, target, rt, others>>

\* Nothing that a runtime's loop handles changes.
ChannelsStill == UNCHANGED <<slot, queue, hand, phase>>

LEMMA SendingTask ==
  ASSUME TypeOK, NEW p \in Procs, Send(p) \/ (p \in Runtimes /\ SendStop(p)),
         ~(End(p) /\ UNCHANGED <<slot, queue>>)
  PROVE  \E s \in Submissions : Sends(p, s)
<1> USE DEF loader, gate, tasks, others
<1>1. \A where : Goto(p, where) => pc'[p] = where
  BY GotoMoves
<1>2. CASE Send(p) /\ kind[p] = "Turn"
  <2> DEFINE s == [op |-> "UserInput", for |-> p, gate |-> "passed"]
  <2>1. s \in Submissions /\ Sends(p, s)
    BY <1>1, <1>2, SubmissionTypes DEF Send, Sent, ReserveAndSend, Sends, Reserving
  <2> QED BY <2>1
<1>3. CASE Send(p) /\ kind[p] = "Compact"
  <2> DEFINE s == [op |-> "Compaction", for |-> p, gate |-> "ungated"]
  <2>1. s \in Submissions /\ Sends(p, s)
    BY <1>1, <1>3, SubmissionTypes DEF Send, Sent, ReserveAndSend, Sends, Reserving
  <2> QED BY <2>1
<1>4. CASE Send(p) /\ kind[p] \notin {"Turn", "Compact", "Deliver"}
  <2> DEFINE s == [op |-> "Decision", for |-> p, gate |-> "passed"]
  <2>1. s \in Submissions /\ Sends(p, s)
    BY <1>1, <1>4, SubmissionTypes DEF Send, Sent, Sends, Reserving
  <2> QED BY <2>1
<1>5. CASE Send(p) /\ kind[p] = "Deliver"
  <2> DEFINE s == [op |-> "UserInput", for |-> p, gate |-> "ungated"]
  <2>1. s \in Submissions /\ Sends(p, s)
    BY <1>1, <1>5, SubmissionTypes DEF Send, Sent, ReserveAndSend, Sends, Reserving
  <2> QED BY <2>1
<1>6. CASE p \in Runtimes /\ SendStop(p)
  <2> DEFINE s == [op |-> "Shutdown", for |-> p, gate |-> "ungated"]
  <2>1. s \in Submissions /\ Sends(p, s)
    BY <1>1, <1>6, SubmissionTypes DEF SendStop, Sends, Reserving
  <2> QED BY <2>1
<1> QED BY <1>2, <1>3, <1>4, <1>5, <1>6

\* The ways in which what a loop handles changes.
LEMMA ChannelSteps ==
  ASSUME TypeOK, [Next]_vars
  PROVE  \/ ChannelsStill
         \/ \E p \in Procs, s \in Submissions : Sends(p, s)
         \/ \E p \in Procs : Hangup(p)
         \/ \E i \in Runtimes : LoopStep(i)
<1> USE DEF loader, gate, runtimes, tasks, others
<1>1. ASSUME NEW p \in Procs, TaskStep(p)
      PROVE  ChannelsStill \/ \E s \in Submissions : Sends(p, s)
  <2>1. CASE Send(p)
    <3>1. CASE End(p) /\ UNCHANGED <<slot, queue>>
      BY <2>1, <3>1 DEF Send, ChannelsStill
    <3> QED BY <2>1, <3>1, SendingTask
  <2>2. CASE ~Send(p)
    BY <1>1, <2>2 DEF TaskStep, Lookup, TakeLoadLock, Recheck, Spawn, SpawnFails, Insert, Return, Submit, Wake,
                      ChannelsStill
  <2> QED BY <2>1, <2>2
<1>2. ASSUME NEW c \in Clients, Begin(c) \/ RequestStep(c)
      PROVE  ChannelsStill
  BY <1>2 DEF RequestStep, Begin, TakeOpLock, Resolve, Gate, ForkCheck, Copied, BeginRestore, List,
              Look, StartWriting, EndRestore, ChannelsStill
<1>3. ASSUME NEW i \in Runtimes, ToolStep(i) \/ CallTool(i) \/ CloseChild(i) \/ DrainInbox(i) \/ CommandEnds(i)
      PROVE  ChannelsStill \/ \E s \in Submissions : Sends(i, s)
  <2>1. CASE SendStop(i)
    <3>1. CASE End(i) /\ UNCHANGED <<slot, queue>>
      BY <2>1, <3>1 DEF SendStop, ChannelsStill
    <3> QED BY <2>1, <3>1, SendingTask, Names
  <2>2. CASE ~SendStop(i)
    BY <1>3, <2>2 DEF ToolStep, CallTool, CloseChild, CommandEnds, DrainInbox, Enqueue, Followup, Remove,
                      ChannelsStill
  <2> QED BY <2>1, <2>2
<1>4. CASE UNCHANGED vars
  BY <1>4 DEF vars, ChannelsStill
<1> QED BY <1>1, <1>2, <1>3, <1>4, Names DEF Next

\* A step of one loop is none of the others.
LEMMA LoopOthers ==
  ASSUME TypeOK, NEW i \in Runtimes, LoopStep(i), NEW j \in Runtimes \ {i}
  PROVE  slot'[j] = slot[j] /\ queue'[j] = queue[j] /\ hand'[j] = hand[j] /\ phase'[j] = phase[j]
BY DEF LoopStep, Take, Stop, EndTurn, ReleaseTurn, FinishOther, CheckMail, Proceed, PutDown,
       ReserveAndSend, Append1, TypeOK

\* Nor does a send reach another runtime.
LEMMA SendOthers ==
  ASSUME TypeOK, RuntimesOK, NEW p \in Procs, NEW s \in Submissions, Sends(p, s)
  PROVE  /\ rt[p] \in Runtimes /\ rt[p] <= spawned /\ of[rt[p]] = target[p]
         /\ queue'[rt[p]] = Append(queue[rt[p]], s)
         /\ \A j \in Runtimes \ {rt[p]} : slot'[j] = slot[j] /\ queue'[j] = queue[j]
         /\ hand' = hand /\ phase' = phase
<1>1. rt[p] \in Runtimes /\ rt[p] <= spawned /\ of[rt[p]] = target[p]
  BY HasRuntime DEF Sends, UsesRuntime
<1>2. queue'[rt[p]] = Append(queue[rt[p]], s) /\ \A j \in Runtimes \ {rt[p]} : queue'[j] = queue[j]
  BY <1>1, AppendTypes DEF Sends
<1>3. \A j \in Runtimes \ {rt[p]} : slot'[j] = slot[j]
  BY <1>1 DEF Sends, TypeOK
<1> QED BY <1>1, <1>2, <1>3 DEF Sends

\* A submission more on the channel of a runtime, with its reservation.
LEMMA SlotAppend ==
  ASSUME TypeOK, NEW i \in Runtimes, SlotOK(i), NEW s \in Submissions,
         queue'[i] = Append(queue[i], s), hand'[i] = hand[i],
         phase'[i] = phase[i] \/ (phase[i] = "mail" /\ phase'[i] = "recv"),
         IF Reserving(s)
         THEN slot[i] = "free" /\ slot'[i] = IF s.op = "UserInput" THEN "turn" ELSE "compaction"
         ELSE slot'[i] = slot[i]
  PROVE  SlotOK(i)'
<1>1. /\ DOMAIN queue'[i] = DOMAIN queue[i] \cup {Len(queue[i]) + 1} /\ queue'[i][Len(queue[i]) + 1] = s
      /\ \A k \in DOMAIN queue[i] : queue'[i][k] = queue[i][k]
  <2>1. queue[i] \in Seq(Submissions)
    BY DEF TypeOK
  <2> QED BY <2>1, AppendFacts
<1>2. ~Reserving(s) => s.op # "UserInput"
  BY DEF Reserving
<1>3. CASE Reserving(s)
  BY <1>1, <1>3 DEF SlotOK, Reserving
<1>4. CASE ~Reserving(s)
  BY <1>1, <1>2, <1>4 DEF SlotOK, Reserving
<1> QED BY <1>3, <1>4

LEMMA SlotsKept ==
  ASSUME TypeOK, RuntimesOK, SlotsOK, [Next]_vars
  PROVE  SlotsOK'
<1>1. ASSUME ChannelsStill
      PROVE  SlotsOK'
  BY <1>1 DEF ChannelsStill, SlotsOK, SlotOK, Reserving
<1>2. ASSUME NEW p \in Procs, NEW s \in Submissions, Sends(p, s)
      PROVE  SlotsOK'
  <2>1. ASSUME NEW i \in Runtimes, i = rt[p]
        PROVE  SlotOK(i)'
    <3>1. IF Reserving(s)
          THEN slot[i] = "free" /\ slot'[i] = IF s.op = "UserInput" THEN "turn" ELSE "compaction"
          ELSE slot'[i] = slot[i]
      BY <1>2, <2>1 DEF Sends, TypeOK
    <3>2. queue'[i] = Append(queue[i], s) /\ hand'[i] = hand[i] /\ phase'[i] = phase[i] /\ SlotOK(i)
      BY <1>2, <2>1, SendOthers DEF SlotsOK
    <3> QED BY <3>1, <3>2, SlotAppend
  <2>2. ASSUME NEW j \in Runtimes, j # rt[p]
        PROVE  SlotOK(j)'
    BY <1>2, <2>2, SendOthers DEF SlotsOK, SlotOK, Reserving
  <2> QED BY <2>1, <2>2 DEF SlotsOK
<1>3. ASSUME NEW p \in Procs, Hangup(p)
      PROVE  SlotsOK'
  <2>1. ASSUME NEW i \in Runtimes
        PROVE  SlotOK(i)'
    <3>1. queue[i] \in Seq(Submissions) /\ hand[i] \in Submissions \cup {NoSubmission}
      BY DEF TypeOK
    <3>2. /\ DOMAIN queue'[i] = DOMAIN queue[i] /\ \A k \in DOMAIN queue[i] : queue'[i][k].op = queue[i][k].op
          /\ hand'[i].op = hand[i].op /\ (hand[i] = NoSubmission => hand'[i] = NoSubmission)
          /\ slot' = slot /\ phase' = phase
      BY <1>3, <3>1, DisownQueue, DisownFacts DEF Hangup
    <3> QED BY <3>2 DEF SlotsOK, SlotOK, Reserving
  <2> QED BY <2>1 DEF SlotsOK
<1>4. ASSUME NEW i \in Runtimes, LoopStep(i)
      PROVE  SlotsOK'
  <2>1. SlotOK(i) /\ queue[i] \in Seq(Submissions)
    BY DEF SlotsOK, TypeOK
  <2>2. SUFFICES SlotOK(i)'
    BY <1>4, LoopOthers DEF SlotsOK, SlotOK, Reserving
  <2>3. CASE Take(i)
    <3>1. /\ hand'[i] = queue[i][1] /\ queue'[i] = Tail(queue[i]) /\ phase'[i] = "working" /\ slot' = slot
          /\ 1 \in DOMAIN queue[i] /\ DOMAIN queue[i] \subseteq Nat /\ DOMAIN Tail(queue[i]) \subseteq Nat \ {0}
          /\ hand[i] = NoSubmission
      BY <2>1, <2>3, TailFacts DEF Take, Proceed, TypeOK, SlotOK
    <3>2. \A k \in DOMAIN queue'[i] :
            k \in Nat \ {0} /\ k + 1 \in DOMAIN queue[i] /\ queue'[i][k] = queue[i][k + 1] /\ k + 1 # 1
      <4>1. \A k \in DOMAIN queue'[i] : k + 1 \in DOMAIN queue[i] /\ queue'[i][k] = queue[i][k + 1]
        BY <2>1, <2>3, <3>1, TailFacts DEF Take
      <4> QED BY <3>1, <4>1
    <3>3. \A k, l \in DOMAIN queue'[i] : Reserving(queue'[i][k]) /\ Reserving(queue'[i][l]) => k = l
      <4>1. ASSUME NEW k \in DOMAIN queue'[i], NEW l \in DOMAIN queue'[i],
                   Reserving(queue'[i][k]), Reserving(queue'[i][l])
            PROVE  k + 1 = l + 1
        BY <3>2, <4>1, <2>1 DEF SlotOK
      <4> QED BY <3>2, <4>1
    <3>4. Reserving(hand'[i]) => \A k \in DOMAIN queue'[i] : ~Reserving(queue'[i][k])
      BY <2>1, <3>1, <3>2 DEF SlotOK
    <3> QED BY <2>1, <3>1, <3>2, <3>3, <3>4 DEF SlotOK, Reserving
  <2>4. CASE Stop(i)
    <3>1. queue'[i] = << >> /\ slot'[i] = "free" /\ hand'[i] = hand[i] /\ hand[i] = NoSubmission
          /\ phase'[i] = "stopped"
      BY <2>1, <2>4 DEF Stop, Proceed, TypeOK, SlotOK
    <3> QED BY <3>1 DEF SlotOK, Reserving, NoSubmission
  <2>5. CASE EndTurn(i)
    <3>1. queue'[i] = queue[i] /\ slot'[i] = slot[i] /\ hand'[i] = hand[i] /\ hand[i].op = "UserInput"
          /\ phase'[i] = "ending"
      BY <2>5 DEF EndTurn, Turning, Proceed, TypeOK
    <3> QED BY <2>1, <3>1 DEF SlotOK, Reserving
  <2>6. CASE ReleaseTurn(i) \/ FinishOther(i)
    <3>1. queue'[i] = queue[i] /\ hand'[i] = NoSubmission /\ phase'[i] = "mail"
      BY <2>6 DEF ReleaseTurn, FinishOther, PutDown, Proceed, TypeOK
    <3>2. slot'[i] = slot[i] \/ Reserving(hand[i])
      BY <2>1, <2>6 DEF ReleaseTurn, FinishOther, SlotOK, Reserving
    <3> QED BY <2>1, <3>1, <3>2 DEF SlotOK, Reserving, NoSubmission
  <2>7. CASE CheckMail(i)
    <3>1. phase[i] = "mail" /\ phase'[i] = "recv" /\ hand'[i] = hand[i]
      BY <2>7 DEF CheckMail, Proceed, TypeOK
    <3>2. CASE UNCHANGED <<slot, queue, ops>>
      BY <2>1, <3>1, <3>2 DEF SlotOK, Reserving
    <3>3. CASE ReserveAndSend(i, "turn", [op |-> "UserInput", for |-> Nobody, gate |-> "carried"])
      <4>1. slot[i] = "free" /\ slot'[i] = "turn"
        BY <3>3 DEF ReserveAndSend, TypeOK
      <4>2. queue'[i] = Append(queue[i], [op |-> "UserInput", for |-> Nobody, gate |-> "carried"])
        BY <3>3, SubmissionTypes, AppendTypes DEF ReserveAndSend
      <4> DEFINE s == [op |-> "UserInput", for |-> Nobody, gate |-> "carried"]
      <4>3. s \in Submissions /\ s.op = "UserInput" /\ Reserving(s)
        BY SubmissionTypes DEF Reserving
      <4> HIDE DEF s
      <4> QED BY <2>1, <3>1, <4>1, <4>2, <4>3, SlotAppend DEF s
    <3> QED BY <2>7, <3>2, <3>3 DEF CheckMail
  <2> QED BY <1>4, <2>3, <2>4, <2>5, <2>6, <2>7 DEF LoopStep
<1> QED BY <1>1, <1>2, <1>3, <1>4, ChannelSteps

-----------------------------------------------------------------------------
(* The map and the load locks.                                             *)

\* A step that spawns nothing, inserts nothing and touches no load lock.
LoadsNothing(p) ==
  /\ Others(p) /\ UNCHANGED <<loadLock, spawned, of>>
  /\ \/ loaded' = loaded /\ pc'[p] # "stop"
     \/ /\ pc[p] = "remove" /\ pc'[p] = "stop" /\ rt'[p] = loaded[target[p]]
        /\ loaded' = [loaded EXCEPT ![target[p]] = None]
  /\ pc[p] # "insert" /\ pc'[p] \notin {"recheck", "insert"}
  /\ rt'[p] \in {rt[p], None} \/ \E t \in Threads : rt'[p] = loaded[t]

\* The second look finds the runtime, or the spawn fails.
LoadsNot(p) ==
  /\ Others(p) /\ DropLoadLock(p) /\ UNCHANGED <<loaded, spawned, of>>
  /\ pc[p] = "recheck" /\ pc'[p] \notin {"recheck", "insert", "stop"}
  /\ rt'[p] = rt[p] \/ \E t \in Threads : rt'[p] = loaded[t]

LEMMA AfterLookupSteps ==
  ASSUME NEW p
  PROVE  AfterLookup(p) \in {"gate", "submit", "enqueue", "return"}
BY DEF AfterLookup

LEMMA LoadSteps ==
  ASSUME TypeOK, [Next]_vars
  PROVE  \/ UNCHANGED <<loader, tasks>>
         \/ \E p \in Procs : \/ LoadsNothing(p) \/ LoadsNot(p)
                             \/ Others(p) /\ (TakeLoadLock(p) \/ Spawn(p) \/ Insert(p))
<1> USE DEF loader, gate, runtimes, tasks, others
<1>1. /\ Clients \subseteq Procs /\ Runtimes \subseteq Procs
      /\ target \in [Procs -> Threads] /\ rt \in [Procs -> {None} \cup Runtimes]
  BY Names DEF TypeOK
<1>2. ASSUME NEW p \in Procs, TaskStep(p)
      PROVE  \/ LoadsNothing(p) \/ LoadsNot(p)
             \/ Others(p) /\ (TakeLoadLock(p) \/ Spawn(p) \/ Insert(p))
  <2>1. Others(p)
    BY <1>2, TaskOthers
  <2>2. CASE Lookup(p)
    <3>1. pc[p] = "lookup" /\ UNCHANGED <<loaded, loadLock, spawned, of>>
      BY <2>2 DEF Lookup
    <3>2. pc'[p] \in {"gate", "submit", "enqueue", "return", "loadLock"}
      BY <2>2, GotoMoves, AfterLookupSteps DEF Lookup, Found
    <3>3. rt'[p] = rt[p] \/ rt'[p] = loaded[target[p]]
      BY <1>1, <2>2 DEF Lookup, Found
    <3> QED BY <1>1, <2>1, <3>1, <3>2, <3>3 DEF LoadsNothing
  <2>3. CASE Recheck(p)
    <3>1. pc[p] = "recheck" /\ DropLoadLock(p) /\ UNCHANGED <<loaded, spawned, of>>
      BY <2>3 DEF Recheck
    <3>2. pc'[p] \in {"gate", "submit", "enqueue", "return"}
      BY <2>3, GotoMoves, AfterLookupSteps DEF Recheck, Found
    <3>3. rt'[p] = loaded[target[p]]
      BY <1>1, <2>3 DEF Recheck, Found
    <3> QED BY <1>1, <2>1, <3>1, <3>2, <3>3 DEF LoadsNot
  <2>4. CASE SpawnFails(p)
    BY <1>1, <2>1, <2>4, EndMoves DEF SpawnFails, LoadsNot
  <2>5. CASE Return(p) \/ Submit(p) \/ Send(p) \/ Wake(p)
    <3>1. UNCHANGED <<loaded, loadLock, spawned, of, rt>> /\ pc[p] # "insert"
      BY <2>5 DEF Return, Submit, Send, Wake, Answered
    <3>2. pc'[p] \in {"idle", "send", "waitStart", "waitDone"}
      BY <2>5, EndMoves, GotoMoves DEF Return, Submit, Send, Sent, Wake
    <3> QED BY <1>1, <2>1, <3>1, <3>2 DEF LoadsNothing
  <2> QED BY <1>2, <2>1, <2>2, <2>3, <2>4, <2>5 DEF TaskStep
<1>3. ASSUME NEW p \in Procs, Hangup(p)
      PROVE  LoadsNothing(p)
  BY <1>1, <1>3, TaskOthers, EndMoves DEF Hangup, LoadsNothing
<1>4. ASSUME NEW c \in Clients, Begin(c) \/ RequestStep(c)
      PROVE  LoadsNothing(c)
  <2>1. Others(c) /\ c \in Procs
    BY <1>1, <1>4, RequestOthers
  <2>2. UNCHANGED <<loaded, loadLock, spawned, of>> /\ pc[c] # "insert"
    BY <1>4 DEF RequestStep, Begin, TakeOpLock, Resolve, Gate, ForkCheck, Copied, BeginRestore, List, Look,
                StartWriting, EndRestore
  <2>3. rt'[c] \in {rt[c], None, loaded[target[c]]}
    BY <1>1, <1>4, <2>1 DEF RequestStep, Begin, TakeOpLock, Resolve, Gate, ForkCheck, Copied, BeginRestore, List,
                Look, StartWriting, EndRestore
  <2>4. pc'[c] \notin {"recheck", "insert", "stop"}
    <3>1. CASE Begin(c)
      BY <2>1, <3>1, GotoMoves DEF Begin, FirstStep, Requests
    <3>2. CASE RequestStep(c)
      BY <2>1, <3>2, GotoMoves, EndMoves
         DEF RequestStep, TakeOpLock, Resolve, Gate, Enter, ForkCheck, Copied, BeginRestore, List, Look,
             StartWriting, EndRestore
    <3> QED BY <1>4, <3>1, <3>2
  <2> QED BY <1>1, <2>1, <2>2, <2>3, <2>4 DEF LoadsNothing
<1>5. ASSUME NEW i \in Runtimes, RuntimeStep(i)
      PROVE  LoadsNothing(i) \/ UNCHANGED <<loader, tasks>>
  <2>1. Others(i) /\ i \in Procs
    BY <1>1, <1>5, RuntimeOthers
  <2>2. CASE CallTool(i) \/ CloseChild(i) \/ EndTurn(i)
    <3>1. UNCHANGED loader /\ pc[i] = "idle" /\ (UNCHANGED tasks
           \/ \E t : StartCall(i, "Deliver", t, "lookup") \/ StartCall(i, "Close", t, "remove"))
      BY <2>2 DEF CallTool, CloseChild, EndTurn, Turning
    <3>2. CASE ~UNCHANGED tasks
      <4>1. rt'[i] = None /\ pc'[i] \in {"lookup", "remove"}
        BY <1>1, <2>1, <3>1, <3>2, GotoMoves DEF StartCall
      <4> QED BY <2>1, <3>1, <4>1 DEF LoadsNothing
    <3> QED BY <3>1, <3>2
  <2>3. CASE Enqueue(i) \/ Followup(i) \/ SendStop(i)
    <3>1. UNCHANGED <<loader, rt>> /\ pc[i] \in {"enqueue", "followup", "stop"}
      BY <2>3 DEF Enqueue, Followup, SendStop
    <3>2. pc'[i] \in {"followup", "idle", "send", "waitStart", "waitDone"}
      BY <2>1, <2>3, GotoMoves, EndMoves DEF Enqueue, Followup, SendStop
    <3> QED BY <2>1, <3>1, <3>2 DEF LoadsNothing
  <2>4. CASE Remove(i)
    <3>1. UNCHANGED <<loadLock, spawned, of>> /\ pc[i] = "remove"
      BY <2>4 DEF Remove
    <3>2. CASE loaded[target[i]] = None
      <4>1. pc'[i] = "idle" /\ UNCHANGED <<loaded, rt>>
        BY <2>1, <2>4, <3>2, EndMoves DEF Remove
      <4> QED BY <2>1, <3>1, <4>1 DEF LoadsNothing
    <3>3. CASE loaded[target[i]] # None
      <4>1. /\ pc'[i] = "stop" /\ rt'[i] = loaded[target[i]] /\ target[i] \in Threads
            /\ loaded' = [loaded EXCEPT ![target[i]] = None]
        BY <1>1, <2>1, <2>4, <3>3, GotoMoves DEF Remove
      <4> QED BY <2>1, <3>1, <4>1 DEF LoadsNothing
    <3> QED BY <3>2, <3>3
  <2>5. CASE Take(i) \/ Stop(i) \/ ReleaseTurn(i) \/ FinishOther(i) \/ CheckMail(i) \/ DrainInbox(i) \/ CommandEnds(i)
    BY <2>5 DEF Take, Stop, ReleaseTurn, FinishOther, CheckMail, DrainInbox, CommandEnds
  <2> QED BY <1>5, <2>2, <2>3, <2>4, <2>5 DEF RuntimeStep, LoopStep, ToolStep
<1>6. CASE UNCHANGED vars
  BY <1>6 DEF vars
<1> QED BY <1>1, <1>2, <1>3, <1>4, <1>5, <1>6 DEF Next, RuntimeStep

\* To a clean runtime nothing happens but a send.
LEMMA CleanKept ==
  ASSUME TypeOK, RuntimesOK, [Next]_vars, NEW j \in Runtimes, Clean(j),
         j <= spawned => \E p \in Procs :
           pc[p] = "insert" /\ rt[p] = j /\ \A q \in Procs : q # p => rt[q] # rt[p]
  PROVE  Clean(j)'
<1>1. CASE ChannelsStill
  BY <1>1 DEF ChannelsStill, Clean
<1>2. ASSUME NEW p \in Procs, NEW s \in Submissions, Sends(p, s)
      PROVE  Clean(j)'
  <2>1. j # rt[p]
    <3>1. pc[p] # "insert" /\ rt[p] \in Runtimes /\ rt[p] <= spawned
      BY <1>2, SendOthers DEF Sends
    <3> QED BY <3>1
  <2> QED BY <1>2, <2>1, SendOthers DEF Clean
<1>3. ASSUME NEW p \in Procs, Hangup(p)
      PROVE  Clean(j)'
  <2>1. << >> \in Seq(Submissions)
    OBVIOUS
  <2>2. [k \in DOMAIN queue[j] |-> Disown(p, queue[j][k])] = << >> /\ Disown(p, hand[j]) = NoSubmission
    BY <2>1, DisownQueue, DisownFacts DEF Clean
  <2> QED BY <1>3, <2>2 DEF Hangup, Clean
<1>4. ASSUME NEW i \in Runtimes, LoopStep(i)
      PROVE  Clean(j)'
  <2>1. i # j
    BY <1>4 DEF LoopStep, Take, Stop, EndTurn, ReleaseTurn, FinishOther, CheckMail, Turning, Clean
  <2> QED BY <1>4, <2>1, LoopOthers DEF Clean
<1> QED BY <1>1, <1>2, <1>3, <1>4, ChannelSteps

LEMMA LoadsKept ==
  ASSUME TypeOK, RuntimesOK, LoadsOK, [Next]_vars
  PROVE  LoadsOK'
<1>1. /\ spawned \in Nat /\ Runtimes \subseteq Nat /\ None \notin Runtimes
      /\ target \in [Procs -> Threads] /\ rt \in [Procs -> {None} \cup Runtimes]
      /\ loadLock \in [Threads -> Procs \cup {Nobody}] /\ Nobody \notin Procs
  BY Names DEF TypeOK
<1>2. spawned <= spawned'
  BY <1>1, LoadSteps DEF LoadsNothing, LoadsNot, TakeLoadLock, Spawn, Insert, loader
<1>3. \A i \in Runtimes : i > spawned' => Clean(i)'
  <2>1. ASSUME NEW i \in Runtimes, i > spawned'
        PROVE  i > spawned
    BY <1>1, <1>2, <2>1, LoadSteps DEF LoadsNothing, LoadsNot, TakeLoadLock, Spawn, Insert, loader
  <2>2. \A i \in Runtimes : i > spawned => ~(i <= spawned) /\ Clean(i)
    BY <1>1 DEF LoadsOK
  <2> QED BY <2>1, <2>2, CleanKept
<1>4. ASSUME NEW p \in Procs, pc[p] = "insert"
      PROVE  Clean(rt[p])' \/ rt'[p] # rt[p]
  <2>1. Clean(rt[p]) /\ rt[p] \in Runtimes /\ \A q \in Procs : q # p => rt[q] # rt[p]
    BY <1>4, HasRuntime DEF LoadsOK, UsesRuntime
  <2>2. PICK j \in Runtimes : j = rt[p]
    BY <2>1
  <2>3. Clean(j)'
    BY <1>4, <2>1, <2>2, CleanKept
  <2> QED BY <2>2, <2>3 DEF Clean
<1> DEFINE Locked(p) == pc[p] \in {"recheck", "insert"} => loadLock[target[p]] = p
           Fresh(p) == pc[p] = "insert" => /\ loaded[target[p]] = None /\ Clean(rt[p])
                                          /\ \A q \in Procs : q # p => rt[q] # rt[p]
<1>5. \A p \in Procs : Locked(p) /\ Fresh(p)
  BY DEF LoadsOK
<1>6. SUFFICES \A p \in Procs : Locked(p)' /\ Fresh(p)'
  BY <1>3 DEF LoadsOK
<1>7. \* Who inserts and does not move: nobody comes by the runtime it inserts.
      ASSUME NEW p \in Procs, NEW q \in Procs, pc[p] = "insert", p # q, Others(q),
             rt'[q] = rt[q] \/ rt'[q] = None \/ (\E t \in Threads : rt'[q] = loaded[t]) \/ rt'[q] > spawned
      PROVE  \A r \in Procs : r # p => rt'[r] # rt'[p]
  <2>1. /\ rt[p] \in Runtimes /\ rt[p] <= spawned /\ of[rt[p]] = target[p] /\ loaded[target[p]] = None
        /\ rt'[p] = rt[p] /\ \A r \in Procs : r # p => rt[r] # rt[p]
    BY <1>5, <1>7, HasRuntime DEF Others, UsesRuntime
  <2>2. \A t \in Threads : loaded[t] # rt[p]
    BY <1>1, <2>1, MapFacts
  <2>3. ASSUME rt'[q] = rt[p]
        PROVE  FALSE
    <3>1. rt'[q] \in Nat /\ ~(rt'[q] > spawned) /\ rt'[q] # None
      <4>1. rt[p] \in Nat /\ rt[p] # None
        BY <1>1, <2>1
      <4>2. ~(rt[p] > spawned)
        BY <1>1, <2>1, <4>1
      <4> QED BY <2>3, <4>1, <4>2
    <3>2. rt[q] # rt[p] /\ \A t \in Threads : rt'[q] # loaded[t]
      BY <1>7, <2>1, <2>2, <2>3
    <3> QED BY <1>7, <2>3, <3>1, <3>2
  <2> QED BY <1>7, <2>1, <2>3 DEF Others
<1>8. CASE UNCHANGED <<loader, tasks>>
  BY <1>4, <1>5, <1>8 DEF loader, tasks
<1>9. ASSUME NEW q \in Procs, LoadsNothing(q)
      PROVE  \A p \in Procs : Locked(p)' /\ Fresh(p)'
  <2>1. ASSUME NEW p \in Procs, p # q, pc[p] = "insert"
        PROVE  loaded'[target[p]] = None
    BY <1>1, <1>5, <1>9, <2>1 DEF LoadsNothing, TypeOK
  <2>2. ASSUME NEW p \in Procs, p # q
        PROVE  Locked(p)' /\ Fresh(p)'
    <3>1. pc'[p] = pc[p] /\ target'[p] = target[p] /\ rt'[p] = rt[p] /\ loadLock' = loadLock /\ Others(q)
      BY <1>9, <2>2 DEF LoadsNothing, Others
    <3>2. pc[p] = "insert" => \A r \in Procs : r # p => rt'[r] # rt'[p]
      BY <1>7, <1>9, <2>2, <3>1 DEF LoadsNothing
    <3> QED BY <1>4, <1>5, <2>1, <2>2, <3>1, <3>2
  <2>3. Locked(q)' /\ Fresh(q)'
    BY <1>9 DEF LoadsNothing
  <2> QED BY <2>2, <2>3
<1>10. ASSUME NEW q \in Procs, LoadsNot(q)
       PROVE  \A p \in Procs : Locked(p)' /\ Fresh(p)'
  <2>1. ASSUME NEW p \in Procs, p # q
        PROVE  Locked(p)' /\ Fresh(p)'
    <3>1. pc'[p] = pc[p] /\ target'[p] = target[p] /\ rt'[p] = rt[p] /\ loaded' = loaded /\ Others(q)
      BY <1>10, <2>1 DEF LoadsNot, Others
    <3>2. Locked(p)'
      BY <1>1, <1>5, <1>10, <2>1, <3>1 DEF LoadsNot, DropLoadLock
    <3>3. pc[p] = "insert" => \A r \in Procs : r # p => rt'[r] # rt'[p]
      BY <1>7, <1>10, <2>1, <3>1 DEF LoadsNot
    <3> QED BY <1>4, <1>5, <3>1, <3>2, <3>3
  <2>2. Locked(q)' /\ Fresh(q)'
    BY <1>10 DEF LoadsNot
  <2> QED BY <2>1, <2>2
<1>11. ASSUME NEW q \in Procs, Others(q), TakeLoadLock(q)
       PROVE  \A p \in Procs : Locked(p)' /\ Fresh(p)'
  <2>1. pc'[q] = "recheck" /\ target' = target /\ rt' = rt /\ loaded' = loaded
        /\ loadLock[target[q]] = Nobody /\ loadLock' = [loadLock EXCEPT ![target[q]] = q]
    BY <1>11, GotoMoves DEF TakeLoadLock, tasks
  <2>2. ASSUME NEW p \in Procs, p # q
        PROVE  Locked(p)' /\ Fresh(p)'
    <3>1. pc'[p] = pc[p]
      BY <1>11, <2>2 DEF Others
    <3>2. Locked(p)'
      BY <1>1, <1>5, <2>1, <3>1
    <3> QED BY <1>4, <1>5, <2>1, <3>1, <3>2
  <2>3. Locked(q)' /\ Fresh(q)'
    BY <1>1, <2>1
  <2> QED BY <2>2, <2>3
<1>12. ASSUME NEW q \in Procs, Others(q), Spawn(q)
       PROVE  \A p \in Procs : Locked(p)' /\ Fresh(p)'
  <2>1. /\ pc[q] = "recheck" /\ pc'[q] = "insert" /\ target' = target /\ rt'[q] = spawned + 1 /\ loaded' = loaded
        /\ loadLock' = loadLock /\ loaded[target[q]] = None /\ spawned + 1 \in Runtimes
        /\ slot' = slot /\ queue' = queue /\ hand' = hand /\ phase' = phase
    <3>1. pc[q] = "recheck" /\ pc'[q] = "insert" /\ rt'[q] = spawned + 1
      BY <1>1, <1>12, GotoMoves DEF Spawn, TypeOK
    <3>2. spawned + 1 \in Runtimes
      BY <1>1, <1>12, MaxRuntimesAssumption DEF Spawn, Runtimes, TypeOK
    <3> QED BY <1>12, <3>1, <3>2 DEF Spawn, tasks, runtimes
  <2>2. ASSUME NEW p \in Procs, p # q
        PROVE  Locked(p)' /\ Fresh(p)'
    <3>1. pc'[p] = pc[p] /\ rt'[p] = rt[p]
      BY <1>12, <2>2 DEF Others
    <3>2. spawned + 1 > spawned
      BY <1>1
    <3>3. pc[p] = "insert" => \A r \in Procs : r # p => rt'[r] # rt'[p]
      BY <1>7, <1>12, <2>1, <2>2, <3>2
    <3> QED BY <1>4, <1>5, <2>1, <3>1, <3>3
  <2>3. Locked(q)' /\ Fresh(q)'
    <3>1. Clean(spawned + 1)
      BY <1>1, <2>1 DEF LoadsOK
    <3>2. \A p \in Procs : p # q => rt'[p] # spawned + 1
      <4>1. \A p \in Procs : rt[p] # spawned + 1
        <5>1. \A i \in Runtimes : i <= spawned => i # spawned + 1
          BY <1>1
        <5> QED BY <1>1, <2>1, <5>1 DEF RuntimesOK
      <4> QED BY <1>12, <4>1 DEF Others
    <3> QED BY <1>5, <2>1, <3>1, <3>2 DEF Clean
  <2> QED BY <2>2, <2>3
<1>13. ASSUME NEW q \in Procs, Others(q), Insert(q)
       PROVE  \A p \in Procs : Locked(p)' /\ Fresh(p)'
  <2>1. /\ pc[q] = "insert" /\ pc'[q] \notin {"recheck", "insert"} /\ target' = target /\ rt' = rt
        /\ loadLock' = [loadLock EXCEPT ![target[q]] = Nobody] /\ loaded' = [loaded EXCEPT ![target[q]] = rt[q]]
        /\ loadLock[target[q]] = q
    BY <1>5, <1>13, GotoMoves, AfterLookupSteps DEF Insert, DropLoadLock, tasks
  <2>2. ASSUME NEW p \in Procs, p # q
        PROVE  Locked(p)' /\ Fresh(p)'
    <3>1. pc'[p] = pc[p]
      BY <1>13, <2>2 DEF Others
    <3>2. Locked(p)'
      BY <1>1, <1>5, <2>1, <2>2, <3>1
    <3>3. pc[p] = "insert" => loaded'[target[p]] = None
      BY <1>1, <1>5, <2>1, <2>2 DEF TypeOK
    <3> QED BY <1>4, <1>5, <2>1, <3>1, <3>2, <3>3
  <2> QED BY <2>1, <2>2
<1> QED BY <1>8, <1>9, <1>10, <1>11, <1>12, <1>13, LoadSteps

-----------------------------------------------------------------------------
(* Closing.                                                                *)

LEMMA ToldBySend ==
  ASSUME TypeOK, RuntimesOK, [Next]_vars, NEW j \in Runtimes, Told(j)'
  PROVE  Told(j) \/ \E p \in Procs : pc[p] = "stop" /\ rt[p] = j
<1>1. queue[j] \in Seq(Submissions) /\ hand[j] \in Submissions \cup {NoSubmission}
  BY DEF TypeOK
<1>2. CASE ChannelsStill
  BY <1>2 DEF ChannelsStill, Told
<1>3. ASSUME NEW p \in Procs, NEW s \in Submissions, Sends(p, s)
      PROVE  Told(j) \/ (pc[p] = "stop" /\ rt[p] = j)
  <2>1. CASE rt[p] # j
    BY <1>3, <2>1, SendOthers DEF Told
  <2>2. CASE rt[p] = j
    <3>1. queue'[j] = Append(queue[j], s) /\ phase'[j] = phase[j]
      BY <1>3, <2>2, SendOthers
    <3>2. Told(j) \/ s.op = "Shutdown"
      BY <1>1, <3>1, AppendFacts DEF Told
    <3>3. s.op = "Shutdown" => pc[p] = "stop"
      BY <1>3 DEF Sends
    <3> QED BY <2>2, <3>2, <3>3
  <2> QED BY <2>1, <2>2
<1>4. ASSUME NEW p \in Procs, Hangup(p)
      PROVE  Told(j)
  <2>1. /\ DOMAIN queue'[j] = DOMAIN queue[j] /\ \A k \in DOMAIN queue[j] : queue'[j][k].op = queue[j][k].op
        /\ phase' = phase
    BY <1>1, <1>4, DisownQueue DEF Hangup
  <2> QED BY <2>1 DEF Told
<1>5. ASSUME NEW i \in Runtimes, LoopStep(i)
      PROVE  Told(j)
  <2>1. CASE i # j
    BY <1>5, <2>1, LoopOthers DEF Told
  <2>2. CASE i = j
    <3>1. CASE Take(j)
      <4>1. queue'[j] = Tail(queue[j]) /\ phase'[j] = "working"
        BY <3>1 DEF Take, Proceed, TypeOK
      <4>2. PICK k \in DOMAIN queue'[j] : queue'[j][k].op = "Shutdown"
        BY <4>1 DEF Told
      <4> QED BY <1>1, <3>1, <4>1, <4>2, TailFacts DEF Take, Told
    <3>2. CASE Stop(j)
      BY <1>1, <3>2, TailFacts DEF Stop, Told
    <3>3. CASE EndTurn(j) \/ ReleaseTurn(j) \/ FinishOther(j)
      BY <3>3 DEF EndTurn, ReleaseTurn, FinishOther, Proceed, Told, TypeOK
    <3>4. CASE CheckMail(j)
      <4> DEFINE s == [op |-> "UserInput", for |-> Nobody, gate |-> "carried"]
      <4>1. phase'[j] = "recv" /\ (queue'[j] = queue[j] \/ queue'[j] = Append(queue[j], s))
        BY <3>4 DEF CheckMail, Proceed, ReserveAndSend, Append1, TypeOK
      <4>2. s \in Submissions /\ s.op # "Shutdown"
        BY SubmissionTypes
      <4> HIDE DEF s
      <4>3. \A k \in DOMAIN queue'[j] : queue'[j][k].op = "Shutdown" =>
              \E l \in DOMAIN queue[j] : queue[j][l].op = "Shutdown"
        <5>1. queue[j] \in Seq(Submissions)
          BY DEF TypeOK
        <5>2. \A k \in DOMAIN Append(queue[j], s) :
                (k \in DOMAIN queue[j] /\ Append(queue[j], s)[k] = queue[j][k])
                \/ Append(queue[j], s)[k] = s
          BY <4>2, <5>1, AppendFacts
        <5> QED BY <4>1, <4>2, <5>2
      <4> QED BY <4>1, <4>3 DEF Told
    <3> QED BY <1>5, <2>2, <3>1, <3>2, <3>3, <3>4 DEF LoopStep
  <2> QED BY <2>1, <2>2
<1> QED BY <1>2, <1>3, <1>4, <1>5, ChannelSteps

\* What becomes of the map, and who sets out to stop a runtime.
LEMMA MapMoves ==
  ASSUME TypeOK, RuntimesOK, [Next]_vars, NEW t \in Threads, loaded'[t] # None
  PROVE  \/ loaded'[t] = loaded[t]
         \/ \E p \in Procs : pc[p] = "insert" /\ pc'[p] # "stop" /\ target[p] = t /\ loaded'[t] = rt[p]
                             /\ Others(p) /\ ChannelsStill
<1>1. target \in [Procs -> Threads]
  BY DEF TypeOK
<1>2. CASE UNCHANGED <<loader, tasks>>
  BY <1>2 DEF loader
<1>3. ASSUME NEW p \in Procs, LoadsNothing(p)
      PROVE  loaded'[t] = loaded[t]
  BY <1>1, <1>3 DEF LoadsNothing, TypeOK
<1>4. ASSUME NEW p \in Procs, LoadsNot(p) \/ TakeLoadLock(p) \/ Spawn(p)
      PROVE  loaded'[t] = loaded[t]
  BY <1>4 DEF LoadsNot, TakeLoadLock, Spawn
<1>5. ASSUME NEW p \in Procs, Others(p), Insert(p), loaded'[t] # loaded[t]
      PROVE  /\ pc[p] = "insert" /\ pc'[p] # "stop" /\ target[p] = t /\ loaded'[t] = rt[p]
             /\ Others(p) /\ ChannelsStill
  BY <1>1, <1>5, GotoMoves, AfterLookupSteps DEF Insert, TypeOK, ChannelsStill, runtimes
<1> QED BY <1>2, <1>3, <1>4, <1>5, LoadSteps

LEMMA StoppersMove ==
  ASSUME TypeOK, [Next]_vars, NEW p \in Procs, pc'[p] = "stop"
  PROVE  \/ pc[p] = "stop" /\ rt'[p] = rt[p]
         \/ /\ pc[p] = "remove" /\ rt'[p] = loaded[target[p]] /\ target[p] \in Threads
            /\ loaded'[target[p]] = None
<1>1. target \in [Procs -> Threads]
  BY DEF TypeOK
<1>2. CASE UNCHANGED <<loader, tasks>>
  BY <1>2 DEF tasks
<1>3. ASSUME NEW q \in Procs, q # p, Others(q)
      PROVE  pc[p] = "stop" /\ rt'[p] = rt[p]
  BY <1>3 DEF Others
<1>4. ASSUME LoadsNothing(p)
      PROVE  /\ pc[p] = "remove" /\ rt'[p] = loaded[target[p]] /\ target[p] \in Threads
             /\ loaded'[target[p]] = None
  BY <1>1, <1>4 DEF LoadsNothing, TypeOK
<1>5. ~LoadsNot(p) /\ ~TakeLoadLock(p) /\ ~Spawn(p) /\ ~Insert(p)
  BY GotoMoves, AfterLookupSteps DEF LoadsNot, TakeLoadLock, Spawn, Insert
<1> QED BY <1>2, <1>3, <1>4, <1>5, LoadSteps DEF LoadsNothing, LoadsNot

LEMMA DoomedKept ==
  ASSUME TypeOK, RuntimesOK, LoadsOK, DoomedUnloaded, TypeOK', RuntimesOK', [Next]_vars
  PROVE  DoomedUnloaded'
<1>1. SUFFICES ASSUME NEW t \in Threads, NEW j \in Runtimes, loaded'[t] = j, Doomed(j)'
               PROVE  FALSE
  <2>1. \A t \in Threads : loaded'[t] # None => loaded'[t] \in Runtimes
    BY DEF TypeOK
  <2> QED BY <1>1, <2>1 DEF DoomedUnloaded, Doomed, Told
<1>2. j # None
  BY Names
<1>3. CASE loaded[t] = j
  <2>1. ~Doomed(j) /\ of[j] = t
    BY <1>2, <1>3, MapFacts DEF DoomedUnloaded
  <2>2. ~Told(j)'
    BY <2>1, ToldBySend DEF Doomed
  <2>3. PICK p \in Procs : pc'[p] = "stop" /\ rt'[p] = j
    BY <1>1, <2>2 DEF Doomed
  <2>4. pc[p] = "remove" /\ loaded[target[p]] = j /\ target[p] \in Threads /\ loaded'[target[p]] = None
    BY <2>1, <2>3, StoppersMove DEF Doomed
  <2>5. target[p] = t
    BY <1>2, <2>1, <2>4, MapFacts
  <2> QED BY <1>1, <1>2, <2>4, <2>5
<1>4. CASE loaded[t] # j
  <2>1. PICK p \in Procs : pc[p] = "insert" /\ pc'[p] # "stop" /\ target[p] = t /\ j = rt[p]
                           /\ Others(p) /\ ChannelsStill
    BY <1>1, <1>2, <1>4, MapMoves
  <2>2. Clean(j) /\ \A q \in Procs : q # p => rt[q] # j
    BY <2>1 DEF LoadsOK
  <2>3. ~Told(j)'
    BY <2>1, <2>2 DEF Clean, Told, ChannelsStill
  <2>4. \A q \in Procs : pc'[q] = "stop" => rt'[q] # j
    BY <2>1, <2>2 DEF Others
  <2> QED BY <1>1, <2>3, <2>4 DEF Doomed
<1> QED BY <1>3, <1>4

\* What a step adds to the closes, and the runtimes on their way to the map.
LEMMA ClosesMove ==
  ASSUME TypeOK, [Next]_vars, closes' = 0
  PROVE  closes = 0 /\ \A p \in Procs : pc'[p] = "remove" => pc[p] = "remove"
<1>1. CASE UNCHANGED vars
  BY <1>1 DEF vars, tasks, others
<1>2. ASSUME NEW p \in Procs, Others(p), closes' = closes, pc'[p] # "remove"
      PROVE  closes = 0 /\ \A q \in Procs : pc'[q] = "remove" => pc[q] = "remove"
  BY <1>2 DEF Others
<1>3. ASSUME NEW p \in Procs, TaskStep(p) \/ Hangup(p)
      PROVE  Others(p) /\ closes' = closes /\ pc'[p] # "remove"
  <2>1. Others(p) /\ closes' = closes
    BY <1>3, TaskOthers DEF TaskStep, Lookup, TakeLoadLock, Recheck, Spawn, SpawnFails, Insert, Return, Submit, Send,
                            Wake, Hangup, others
  <2>2. pc'[p] \in {"loadLock", "recheck", "insert", "idle", "send", "waitStart", "waitDone"} \/ pc'[p] = AfterLookup(p)
    BY <1>3, GotoMoves, EndMoves
       DEF TaskStep, Hangup, Lookup, Found, TakeLoadLock, Recheck, Spawn, SpawnFails, Insert, Return, Submit, Send, Sent,
           Wake
  <2> QED BY <2>1, <2>2, AfterLookupSteps
<1>4. ASSUME NEW c \in Clients, Begin(c) \/ RequestStep(c)
      PROVE  c \in Procs /\ Others(c) /\ closes' = closes /\ pc'[c] # "remove"
  <2>1. c \in Procs /\ Others(c) /\ closes' = closes
    BY <1>4, Names, RequestOthers DEF RequestStep, Begin, TakeOpLock, Resolve, Gate, ForkCheck, Copied, BeginRestore,
                                      List, Look, StartWriting, EndRestore, others
  <2>2. CASE Begin(c)
    BY <2>1, <2>2, GotoMoves DEF Begin, FirstStep, Requests
  <2>3. CASE RequestStep(c)
    BY <2>1, <2>3, GotoMoves, EndMoves
       DEF RequestStep, TakeOpLock, Resolve, Gate, Enter, ForkCheck, Copied, BeginRestore, List, Look,
           StartWriting, EndRestore
  <2> QED BY <1>4, <2>1, <2>2, <2>3
<1>5. ASSUME NEW i \in Runtimes, RuntimeStep(i)
      PROVE  closes = 0 /\ \A q \in Procs : pc'[q] = "remove" => pc[q] = "remove"
  <2>1. i \in Procs /\ Others(i)
    BY <1>5, Names, RuntimeOthers
  <2>2. ~CloseChild(i)
    BY DEF CloseChild, TypeOK
  <2>3. closes' = closes
    BY <1>5, <2>2 DEF RuntimeStep, ToolStep, LoopStep, CallTool, CommandEnds, DrainInbox, Enqueue, Followup, Remove, SendStop,
                      Take, Stop, EndTurn, ReleaseTurn, FinishOther, CheckMail, others
  <2>4. UNCHANGED tasks \/ pc'[i] # "remove"
    BY <1>5, <2>1, <2>2, GotoMoves, EndMoves
       DEF RuntimeStep, ToolStep, LoopStep, CallTool, CommandEnds, StartCall, DrainInbox, Enqueue, Followup, Remove, SendStop,
           Take, Stop, EndTurn, ReleaseTurn, FinishOther, CheckMail
  <2> QED BY <1>2, <2>1, <2>3, <2>4 DEF tasks
<1> QED BY <1>1, <1>2, <1>3, <1>4, <1>5 DEF Next, RuntimeStep

LEMMA NoneClosedKept ==
  ASSUME TypeOK, RuntimesOK, LoadsOK, NoneClosed, [Next]_vars
  PROVE  NoneClosed'
<1>1. SUFFICES ASSUME closes' = 0
               PROVE  /\ \A p \in Procs : pc'[p] \notin {"remove", "stop"}
                      /\ \A i \in Runtimes : i <= spawned' =>
                           loaded'[of'[i]] = i \/ \E p \in Procs : pc'[p] = "insert" /\ rt'[p] = i
  BY DEF NoneClosed
<1>2. closes = 0 /\ \A p \in Procs : pc'[p] = "remove" => pc[p] = "remove"
  BY <1>1, ClosesMove
<1>3. \A p \in Procs : pc[p] \notin {"remove", "stop"}
  BY <1>2 DEF NoneClosed
<1>4. \A p \in Procs : pc'[p] \notin {"remove", "stop"}
  BY <1>2, <1>3, StoppersMove
<1>5. ASSUME NEW i \in Runtimes, i <= spawned'
      PROVE  loaded'[of'[i]] = i \/ \E p \in Procs : pc'[p] = "insert" /\ rt'[p] = i
  <2> DEFINE There == loaded'[of'[i]] = i \/ \E p \in Procs : pc'[p] = "insert" /\ rt'[p] = i
  <2>1. i <= spawned => loaded[of[i]] = i \/ \E p \in Procs : pc[p] = "insert" /\ rt[p] = i
    BY <1>2 DEF NoneClosed
  <2>2. spawned \in Nat /\ of \in [Runtimes -> Threads] /\ i \in Nat
    BY Names DEF TypeOK
  <2>3. CASE UNCHANGED <<loader, tasks>>
    BY <1>5, <2>1, <2>3 DEF loader, tasks
  <2>4. ASSUME NEW q \in Procs, LoadsNothing(q)
        PROVE  There
    BY <1>3, <1>5, <2>1, <2>4 DEF LoadsNothing, Others
  <2>5. ASSUME NEW q \in Procs, LoadsNot(q)
        PROVE  There
    BY <1>5, <2>1, <2>5 DEF LoadsNot, Others
  <2>6. ASSUME NEW q \in Procs, Others(q), TakeLoadLock(q)
        PROVE  There
    BY <1>5, <2>1, <2>6 DEF TakeLoadLock, Others, tasks
  <2>7. ASSUME NEW q \in Procs, Others(q), Spawn(q)
        PROVE  There
    <3>1. /\ pc[q] = "recheck" /\ pc'[q] = "insert" /\ rt'[q] = spawned + 1 /\ loaded' = loaded
          /\ spawned' = spawned + 1 /\ (i # spawned + 1 => of'[i] = of[i])
      BY <2>2, <2>7, GotoMoves DEF Spawn, TypeOK
    <3>2. i <= spawned \/ i = spawned + 1
      BY <1>5, <2>2, <3>1
    <3>3. i <= spawned => i # spawned + 1
      BY <2>2
    <3> QED BY <2>1, <2>7, <3>1, <3>2, <3>3 DEF Others
  <2>8. ASSUME NEW q \in Procs, Others(q), Insert(q)
        PROVE  There
    <3>1. /\ pc[q] = "insert" /\ of' = of /\ spawned' = spawned /\ loaded' = [loaded EXCEPT ![target[q]] = rt[q]]
          /\ rt' = rt /\ target[q] \in Threads
      BY <2>8 DEF Insert, TypeOK
    <3>2. rt[q] \in Runtimes /\ of[rt[q]] = target[q] /\ loaded[target[q]] = None /\ i # None
      BY <3>1, HasRuntime, Names DEF LoadsOK, UsesRuntime
    <3>3. CASE i = rt[q]
      BY <3>1, <3>2, <3>3 DEF TypeOK
    <3>4. CASE i # rt[q] /\ loaded[of[i]] = i
      BY <2>2, <3>1, <3>2, <3>4 DEF TypeOK
    <3>5. ASSUME NEW p \in Procs, i # rt[q], pc[p] = "insert", rt[p] = i
          PROVE  There
      <4>1. p # q
        BY <3>5
      <4> QED BY <2>8, <3>1, <3>5, <4>1 DEF Others
    <3> QED BY <1>5, <2>1, <3>1, <3>3, <3>4, <3>5
  <2> QED BY <2>3, <2>4, <2>5, <2>6, <2>7, <2>8, LoadSteps
<1> QED BY <1>4, <1>5

-----------------------------------------------------------------------------
(* The submissions of a runtime and the guards.                            *)

MailTurn == [op |-> "UserInput", for |-> Nobody, gate |-> "carried"]

LEMMA MailTurnFacts ==
  MailTurn \in Submissions /\ MailTurn.op = "UserInput" /\ MailTurn.gate = "carried" /\ Reserving(MailTurn)
BY SubmissionTypes DEF MailTurn, Reserving

LEMMA SubsTypes ==
  ASSUME TypeOK, NEW j \in Runtimes
  PROVE  /\ queue[j] \in Seq(Submissions) /\ hand[j] \in Submissions \cup {NoSubmission}
         /\ Subs(j) \subseteq Submissions \cup {NoSubmission}
<1>1. queue[j] \in Seq(Submissions) /\ hand[j] \in Submissions \cup {NoSubmission}
  BY DEF TypeOK
<1>2. \A k \in DOMAIN queue[j] : queue[j][k] \in Submissions
  BY <1>1
<1> QED BY <1>1, <1>2 DEF Subs

\* What a loop's own step does to its submissions.
LEMMA LoopSubs ==
  ASSUME TypeOK, SlotsOK, CarriedAreTurns, NEW i \in Runtimes, LoopStep(i)
  PROVE  \/ UNCHANGED <<queue, hand, ops>> \* EndTurn, or no mail turn
         \/ Take(i) /\ ops' = ops /\ Subs(i)' \subseteq Subs(i) /\ Subs(i) \ {NoSubmission} \subseteq Subs(i)'
         \/ Stop(i) /\ Subs(i)' = {NoSubmission} /\ hand[i] = NoSubmission
         \/ /\ ReleaseTurn(i) \/ FinishOther(i)
            /\ Subs(i)' = {NoSubmission} \cup {queue[i][k] : k \in DOMAIN queue[i]}
            /\ ops' = IF hand[i].gate = "carried" THEN ops - 1 ELSE ops
         \/ /\ CheckMail(i) /\ slot[i] = "free" /\ ~restoring /\ ops' = ops + 1
            /\ Subs(i)' = Subs(i) \cup {MailTurn}
<1>1. queue[i] \in Seq(Submissions) /\ SlotOK(i)
  BY DEF TypeOK, SlotsOK
<1>2. CASE Take(i)
  <2>1. /\ hand'[i] = queue[i][1] /\ queue'[i] = Tail(queue[i]) /\ hand[i] = NoSubmission /\ ops' = ops
        /\ 1 \in DOMAIN queue[i]
    BY <1>1, <1>2, TailFacts DEF Take, SlotOK, TypeOK, gate
  <2>2. \A k \in DOMAIN queue'[i] : k + 1 \in DOMAIN queue[i] /\ queue'[i][k] = queue[i][k + 1]
    BY <1>1, <1>2, <2>1, TailFacts DEF Take
  <2>3. \A k \in DOMAIN queue[i] : k = 1 \/ (k - 1 \in DOMAIN queue'[i] /\ queue'[i][k - 1] = queue[i][k])
    BY <1>1, <2>1
  <2>4. Subs(i)' \subseteq Subs(i)
    BY <2>1, <2>2 DEF Subs
  <2>5. Subs(i) \ {NoSubmission} \subseteq Subs(i)'
    BY <2>1, <2>3 DEF Subs
  <2> QED BY <1>2, <2>1, <2>4, <2>5
<1>3. CASE Stop(i)
  <2>1. queue'[i] = << >> /\ hand'[i] = hand[i] /\ hand[i] = NoSubmission
    BY <1>1, <1>3 DEF Stop, SlotOK, TypeOK
  <2> QED BY <1>3, <2>1 DEF Subs
<1>4. CASE EndTurn(i)
  BY <1>4 DEF EndTurn, gate
<1>5. CASE ReleaseTurn(i) \/ FinishOther(i)
  <2>1. queue'[i] = queue[i] /\ hand'[i] = NoSubmission
    BY <1>5 DEF ReleaseTurn, FinishOther, PutDown, TypeOK
  <2>2. FinishOther(i) => ops' = ops /\ hand[i].gate # "carried"
    BY DEF FinishOther, CarriedAreTurns, Subs, gate
  <2> QED BY <1>5, <2>1, <2>2 DEF Subs, ReleaseTurn
<1>6. CASE CheckMail(i)
  <2>1. CASE ~UNCHANGED <<slot, queue, ops>>
    <3>1. /\ slot[i] = "free" /\ ~restoring /\ ops' = ops + 1 /\ hand' = hand
          /\ queue'[i] = Append(queue[i], MailTurn)
      BY <1>6, <2>1 DEF CheckMail, ReserveAndSend, Append1, MailTurn, TypeOK
    <3>2. /\ DOMAIN queue'[i] = DOMAIN queue[i] \cup {Len(queue[i]) + 1}
          /\ queue'[i][Len(queue[i]) + 1] = MailTurn
          /\ \A k \in DOMAIN queue[i] : queue'[i][k] = queue[i][k]
      BY <1>1, <3>1, MailTurnFacts, AppendFacts
    <3>3. Subs(i)' = Subs(i) \cup {MailTurn}
      BY <3>1, <3>2 DEF Subs
    <3> QED BY <1>6, <3>1, <3>3
  <2> QED BY <1>6, <2>1 DEF CheckMail
<1> QED BY <1>2, <1>3, <1>4, <1>5, <1>6 DEF LoopStep

LEMMA SendSubs ==
  ASSUME TypeOK, RuntimesOK, NEW p \in Procs, NEW s \in Submissions, Sends(p, s)
  PROVE  \A j \in Runtimes : Subs(j)' = IF j = rt[p] THEN Subs(j) \cup {s} ELSE Subs(j)
<1>1. rt[p] \in Runtimes /\ queue'[rt[p]] = Append(queue[rt[p]], s) /\ rt' = rt /\ hand' = hand
  BY SendOthers DEF Sends
<1>2. queue[rt[p]] \in Seq(Submissions)
  BY <1>1 DEF TypeOK
<1>3. /\ DOMAIN queue'[rt[p]] = DOMAIN queue[rt[p]] \cup {Len(queue[rt[p]]) + 1}
      /\ queue'[rt[p]][Len(queue[rt[p]]) + 1] = s
      /\ \A k \in DOMAIN queue[rt[p]] : queue'[rt[p]][k] = queue[rt[p]][k]
  BY <1>1, <1>2, AppendFacts
<1>4. ASSUME NEW j \in Runtimes, j = rt[p]
      PROVE  Subs(j)' = Subs(j) \cup {s}
  <2>1. /\ DOMAIN queue'[j] = DOMAIN queue[j] \cup {Len(queue[j]) + 1} /\ queue'[j][Len(queue[j]) + 1] = s
        /\ \A k \in DOMAIN queue[j] : queue'[j][k] = queue[j][k]
    BY <1>3, <1>4
  <2> QED BY <1>1, <2>1 DEF Subs
<1>5. \A j \in Runtimes \ {rt[p]} : Subs(j)' = Subs(j)
  BY SendOthers DEF Subs
<1> QED BY <1>4, <1>5

LEMMA HangupSubs ==
  ASSUME TypeOK, NEW p \in Procs, Hangup(p), NEW j \in Runtimes
  PROVE  Subs(j)' = {Disown(p, s) : s \in Subs(j)}
<1>1. queue[j] \in Seq(Submissions)
  BY DEF TypeOK
<1>2. /\ hand'[j] = Disown(p, hand[j]) /\ DOMAIN queue'[j] = DOMAIN queue[j]
      /\ \A k \in DOMAIN queue[j] : queue'[j][k] = Disown(p, queue[j][k])
  BY <1>1 DEF Hangup
<1> QED BY <1>2 DEF Subs

\* Where a submission comes from.
LEMMA SubsFrom ==
  ASSUME TypeOK, RuntimesOK, SlotsOK, CarriedAreTurns, [Next]_vars, NEW j \in Runtimes, NEW s \in Subs(j)'
  PROVE  \/ s \in Subs(j)
         \/ s = NoSubmission
         \/ \E p \in Procs : Hangup(p) /\ \E r \in Subs(j) : s = Disown(p, r)
         \/ \E p \in Procs : Sends(p, s) /\ rt[p] = j
         \/ CheckMail(j) /\ ~restoring /\ s = MailTurn
<1>1. CASE ChannelsStill
  BY <1>1 DEF ChannelsStill, Subs
<1>2. ASSUME NEW p \in Procs, NEW r \in Submissions, Sends(p, r)
      PROVE  s \in Subs(j) \/ (Sends(p, s) /\ rt[p] = j)
  <2>1. CASE rt[p] = j
    <3>1. Subs(j)' = Subs(j) \cup {r}
      BY <1>2, <2>1, SendSubs
    <3> QED BY <1>2, <2>1, <3>1
  <2> QED BY <1>2, <2>1, SendSubs
<1>3. ASSUME NEW p \in Procs, Hangup(p)
      PROVE  \E r \in Subs(j) : s = Disown(p, r)
  BY <1>3, HangupSubs
<1>4. ASSUME NEW i \in Runtimes, LoopStep(i)
      PROVE  s \in Subs(j) \/ s = NoSubmission \/ (CheckMail(j) /\ ~restoring /\ s = MailTurn)
  <2>1. CASE i # j
    BY <1>4, <2>1, LoopOthers DEF Subs
  <2>2. CASE i = j
    <3>1. CASE UNCHANGED <<queue, hand, ops>>
      BY <3>1 DEF Subs
    <3>2. CASE ~UNCHANGED <<queue, hand, ops>>
      BY <1>4, <2>2, <3>2, LoopSubs DEF Subs
    <3> QED BY <3>1, <3>2
  <2> QED BY <2>1, <2>2
<1> QED BY <1>1, <1>2, <1>3, <1>4, ChannelSteps

LEMMA CarriedKept ==
  ASSUME TypeOK, RuntimesOK, SlotsOK, CarriedAreTurns, [Next]_vars
  PROVE  CarriedAreTurns'
<1>1. SUFFICES ASSUME NEW j \in Runtimes, NEW s \in Subs(j)', s.gate = "carried"
               PROVE  s.op = "UserInput"
  BY DEF CarriedAreTurns
<1>2. CASE s \in Subs(j)
  BY <1>1, <1>2 DEF CarriedAreTurns
<1>3. ASSUME NEW p \in Procs, NEW r \in Subs(j), s = Disown(p, r)
      PROVE  s.op = "UserInput"
  <2>1. s.op = r.op /\ s.gate = r.gate
    BY <1>3, SubsTypes, DisownFacts
  <2> QED BY <1>1, <2>1 DEF CarriedAreTurns
<1>4. ASSUME NEW p \in Procs, Sends(p, s)
      PROVE  s.gate # "carried"
  BY <1>4 DEF Sends
<1> QED BY <1>1, <1>2, <1>3, <1>4, SubsFrom, MailTurnFacts DEF NoSubmission

\* What a task's step does to the guards of requests.
GuardStep(p) ==
  /\ Others(p)
  /\ \/ End(p)
     \/ UNCHANGED <<holds, ops>> /\ (Holding(p)' <=> Holding(p))
     \/ p \in Clients /\ pc[p] = "gate" /\ ~restoring
        /\ holds' = holds \cup {p} /\ ops' = ops + 1 /\ Holding(p)'

LEMMA GuardSteps ==
  ASSUME TypeOK, CallsOK, [Next]_vars
  PROVE  \/ UNCHANGED <<holds, ops, pc, kind>>
         \/ \E p \in Procs : GuardStep(p)
         \/ \E i \in Runtimes : LoopStep(i) /\ Others(i)
<1> USE DEF gate
<1>1. /\ Clients \subseteq Procs /\ Runtimes \subseteq Procs /\ Clients \cap Runtimes = {}
  BY Names
<1>2. \A p \in Procs : ~Holding(p) \/ p \in Clients
  BY DEF Holding, CallsOK, Procs
<1>3. ASSUME NEW p \in Procs, TaskStep(p)
      PROVE  GuardStep(p)
  <2>1. Others(p) /\ kind' = kind
    BY <1>3, TaskOthers DEF TaskStep, Lookup, TakeLoadLock, Recheck, Spawn, SpawnFails, Insert, Return, Submit, Send, Wake
  <2>2. CASE End(p)
    BY <2>1, <2>2 DEF GuardStep
  <2>3. CASE ~End(p)
    <3>1. UNCHANGED <<holds, ops>>
      BY <1>3, <2>3 DEF TaskStep, Lookup, TakeLoadLock, Recheck, Spawn, SpawnFails, Insert, Return, Submit, Send, Wake
    <3>2. \/ pc[p] = "lookup" /\ pc'[p] \in {"loadLock", AfterLookup(p)}
          \/ pc[p] = "loadLock" /\ pc'[p] = "recheck"
          \/ pc[p] = "recheck" /\ pc'[p] \in {"insert", AfterLookup(p)}
          \/ pc[p] = "insert" /\ pc'[p] = AfterLookup(p)
          \/ pc[p] = "submit" /\ pc'[p] = "send"
          \/ pc[p] = "send" /\ kind[p] \in {"Turn", "Deliver"} /\ pc'[p] = "waitStart"
          \/ pc[p] = "send" /\ kind[p] \in {"Compact", "Decide"} /\ pc'[p] = "waitDone"
      BY <1>3, <2>3, GotoMoves
         DEF TaskStep, Lookup, Found, TakeLoadLock, Recheck, Spawn, SpawnFails, Insert, Return, Submit, Send, Sent, Wake
    <3>3. Holding(p)' <=> Holding(p)
      BY <2>1, <3>2, CallsAt DEF Holding, Loading, AfterLookup
    <3> QED BY <2>1, <3>1, <3>3 DEF GuardStep
  <2> QED BY <2>2, <2>3
<1>4. ASSUME NEW p \in Procs, Hangup(p)
      PROVE  GuardStep(p)
  BY <1>4, TaskOthers DEF Hangup, GuardStep
<1>5. ASSUME NEW c \in Clients, Begin(c) \/ RequestStep(c)
      PROVE  GuardStep(c)
  <2>1. Others(c) /\ c \in Procs
    BY <1>1, <1>5, RequestOthers
  <2>2. CASE End(c)
    BY <2>1, <2>2 DEF GuardStep
  <2>3. CASE Begin(c)
    <3>1. pc'[c] \in {"opLock", "resolve", "restore", "lookup"} /\ UNCHANGED <<holds, ops>> /\ pc[c] = "idle"
      BY <2>1, <2>3, GotoMoves DEF Begin, FirstStep, Requests
    <3>2. pc'[c] = "lookup" => kind'[c] # "Decide"
      BY <2>1, <2>3, GotoMoves DEF Begin, FirstStep, Requests, TypeOK
    <3> QED BY <2>1, <3>1, <3>2 DEF GuardStep, Holding, Loading
  <2>4. CASE Gate(c) /\ ~End(c)
    <3>1. /\ pc[c] = "gate" /\ ~restoring /\ holds' = holds \cup {c} /\ ops' = ops + 1 /\ kind' = kind
          /\ pc'[c] = IF kind[c] = "Decide" /\ rt[c] = None THEN "lookup" ELSE "submit"
      BY <2>1, <2>4, GotoMoves DEF Gate, Enter
    <3>2. kind[c] \in {"Turn", "Decide"}
      BY <2>1, <3>1, CallsAt
    <3> QED BY <1>5, <2>1, <3>1, <3>2 DEF GuardStep, Holding, Loading
  <2>5. CASE RequestStep(c) /\ ~Gate(c) /\ ~End(c)
    <3>1. UNCHANGED <<holds, ops, kind>>
      BY <2>5 DEF RequestStep, TakeOpLock, Resolve, Gate, ForkCheck, Copied, BeginRestore, List, Look,
                  StartWriting, EndRestore
    <3>2. \/ pc[c] = "opLock" /\ pc'[c] = IF kind[c] = "Fork" THEN "forkCheck" ELSE "lookup"
          \/ pc[c] = "resolve" /\ pc'[c] = "gate"
          \/ pc[c] = "forkCheck" /\ pc'[c] = "copying"
          \/ pc[c] = "restore" /\ pc'[c] = "list"
          \/ pc[c] = "list" /\ pc'[c] = "scan"
          \/ pc[c] = "scan" /\ pc'[c] \in {"scan", "writing"}
      BY <2>1, <2>5, GotoMoves
         DEF RequestStep, TakeOpLock, Resolve, Gate, ForkCheck, Copied, BeginRestore, List, Look, StartWriting,
             EndRestore
    <3>3. ~Holding(c)' /\ ~Holding(c)
      BY <2>1, <3>1, <3>2, CallsAt DEF Holding, Loading
    <3> QED BY <2>1, <3>1, <3>3 DEF GuardStep
  <2> QED BY <1>5, <2>2, <2>3, <2>4, <2>5
<1>6. ASSUME NEW i \in Runtimes, ToolStep(i) \/ CallTool(i) \/ CloseChild(i) \/ DrainInbox(i) \/ CommandEnds(i)
      PROVE  GuardStep(i)
  <2>1. Others(i) /\ i \in Procs
    BY <1>1, <1>6, RuntimeOthers DEF RuntimeStep
  <2>2. CASE End(i)
    BY <2>1, <2>2 DEF GuardStep
  <2>3. CASE ~End(i)
    <3>1. UNCHANGED <<holds, ops>>
      BY <1>6, <2>3 DEF ToolStep, CallTool, CloseChild, CommandEnds, DrainInbox, Enqueue, Followup, Remove, SendStop
    <3>2. ~Holding(i) /\ (kind'[i] = kind[i] \/ kind'[i] \in {"Deliver", "Close"})
      BY <1>1, <1>2, <1>6, <2>1
         DEF ToolStep, CallTool, CloseChild, CommandEnds, DrainInbox, StartCall, Enqueue, Followup, Remove, SendStop, tasks, TypeOK
    <3>3. ~Holding(i)'
      BY <3>2 DEF Holding, CallsOK
    <3> QED BY <2>1, <3>1, <3>2, <3>3 DEF GuardStep
  <2> QED BY <2>2, <2>3
<1>7. CASE UNCHANGED vars
  BY <1>7 DEF vars, tasks
<1> QED BY <1>1, <1>3, <1>4, <1>5, <1>6, <1>7, RuntimeOthers DEF Next, RuntimeStep

\* Sets of runtimes are finite; one element more or less.
LEMMA CarriersFinite == IsFiniteSet(Carriers) /\ IsFiniteSet(Carriers')
<1>1. IsFiniteSet(Runtimes)
  BY FS_Interval, MaxRuntimesAssumption DEF Runtimes
<1> QED BY <1>1, FS_Subset DEF Carriers

LEMMA OneMore ==
  ASSUME NEW S, IsFiniteSet(S), NEW x
  PROVE  /\ Cardinality(S) \in Nat
         /\ IsFiniteSet(S \cup {x}) /\ IsFiniteSet(S \ {x})
         /\ x \notin S => Cardinality(S \cup {x}) = Cardinality(S) + 1
         /\ x \in S => Cardinality(S \ {x}) = Cardinality(S) - 1 /\ Cardinality(S) > 0
         /\ x \notin S => S \ {x} = S
         /\ Cardinality(S) = 0 <=> S = {}
<1>1. Cardinality(S) \in Nat /\ (Cardinality(S) = 0 <=> S = {})
  BY FS_CardinalityType, FS_EmptySet
<1>2. IsFiniteSet(S \cup {x}) /\ (x \notin S => Cardinality(S \cup {x}) = Cardinality(S) + 1)
  BY FS_AddElement
<1>3. IsFiniteSet(S \ {x}) /\ (x \in S => Cardinality(S \ {x}) = Cardinality(S) - 1)
  BY FS_RemoveElement
<1>4. x \in S => Cardinality(S) > 0
  BY <1>1
<1>5. x \notin S => S \ {x} = S
  OBVIOUS
<1> QED BY <1>1, <1>2, <1>3, <1>4, <1>5

\* A step that is not of a loop lets every mail turn keep its guard.
LEMMA CarriersKept ==
  ASSUME TypeOK, RuntimesOK, [Next]_vars, \A i \in Runtimes : ~LoopStep(i)
  PROVE  Carriers' = Carriers
<1>1. CASE ChannelsStill
  BY <1>1 DEF ChannelsStill, Carriers, Subs
<1>2. ASSUME NEW p \in Procs, NEW s \in Submissions, Sends(p, s)
      PROVE  Carriers' = Carriers
  <2>1. s.gate # "carried"
    BY <1>2 DEF Sends
  <2>2. ASSUME NEW j \in Runtimes
        PROVE  (\E r \in Subs(j)' : r.gate = "carried") <=> (\E r \in Subs(j) : r.gate = "carried")
    BY <1>2, <2>1, SendSubs
  <2> QED BY <2>2 DEF Carriers
<1>3. ASSUME NEW p \in Procs, Hangup(p)
      PROVE  Carriers' = Carriers
  <2>1. ASSUME NEW j \in Runtimes
        PROVE  (\E r \in Subs(j)' : r.gate = "carried") <=> (\E r \in Subs(j) : r.gate = "carried")
    <3>1. Subs(j)' = {Disown(p, s) : s \in Subs(j)}
      BY <1>3, HangupSubs
    <3>2. \A s \in Subs(j) : Disown(p, s).gate = s.gate
      BY SubsTypes, DisownFacts
    <3> QED BY <3>1, <3>2
  <2> QED BY <2>1 DEF Carriers
<1> QED BY <1>1, <1>2, <1>3, ChannelSteps

\* A step of a loop takes a guard, drops one, or leaves them as they are.
LEMMA LoopCarriers ==
  ASSUME TypeOK, SlotsOK, CarriedAreTurns, NEW i \in Runtimes, LoopStep(i)
  PROVE  /\ holds' = holds
         /\ \/ ops' = ops /\ Carriers' = Carriers
            \/ ops' = ops - 1 /\ i \in Carriers /\ Carriers' = Carriers \ {i}
            \/ ops' = ops + 1 /\ i \notin Carriers /\ Carriers' = Carriers \cup {i} /\ ~restoring
<1>1. holds' = holds
  BY DEF LoopStep, Take, Stop, EndTurn, ReleaseTurn, FinishOther, CheckMail, gate
<1>2. \A j \in Runtimes \ {i} : Subs(j)' = Subs(j)
  BY LoopOthers DEF Subs
<1> DEFINE Has(j) == \E s \in Subs(j) : s.gate = "carried"
<1>3. /\ (Has(i)' <=> Has(i)) => Carriers' = Carriers
      /\ ~Has(i)' /\ Has(i) => i \in Carriers /\ Carriers' = Carriers \ {i}
      /\ Has(i)' /\ ~Has(i) => i \notin Carriers /\ Carriers' = Carriers \cup {i}
  <2>1. \A j \in Runtimes \ {i} : Has(j)' <=> Has(j)
    BY <1>2
  <2>2. Carriers = {j \in Runtimes : Has(j)} /\ Carriers' = {j \in Runtimes : Has(j)'}
    BY DEF Carriers
  <2> HIDE DEF Has
  <2> QED BY <2>1, <2>2
<1>4. \A s \in Subs(i) : s.gate = "carried" => Reserving(s)
  BY DEF CarriedAreTurns, Reserving
<1>5. queue[i] \in Seq(Submissions) /\ hand[i] \in Submissions \cup {NoSubmission} /\ SlotOK(i) /\ ops \in Nat
  BY SubsTypes DEF SlotsOK, TypeOK
<1>6. NoSubmission.gate # "carried"
  BY DEF NoSubmission
<1>7. CASE UNCHANGED <<queue, hand, ops>>
  BY <1>1, <1>3, <1>7 DEF Subs
<1>8. CASE Take(i) /\ ops' = ops /\ Subs(i)' \subseteq Subs(i) /\ Subs(i) \ {NoSubmission} \subseteq Subs(i)'
  <2>1. Has(i)' <=> Has(i)
    BY <1>6, <1>8
  <2> QED BY <1>1, <1>3, <1>8, <2>1
<1>9. CASE Stop(i) /\ Subs(i)' = {NoSubmission} /\ hand[i] = NoSubmission
  <2>1. ~Has(i)' /\ ops' = ops - Cardinality(Carried(i))
    BY <1>6, <1>9 DEF Stop
  <2>2. Has(i) <=> Carried(i) # {}
    BY <1>5, <1>6, <1>9 DEF Subs, Carried
  <2>3. \A k, l \in Carried(i) : k = l
    <3>1. \A k \in Carried(i) : k \in DOMAIN queue[i] /\ Reserving(queue[i][k])
      BY <1>4, <1>5 DEF Carried, Subs
    <3> QED BY <1>5, <3>1 DEF SlotOK
  <2>4. CASE Carried(i) = {}
    <3>1. ops' = ops
      BY <1>5, <2>1, <2>4, FS_EmptySet
    <3> QED BY <1>1, <1>3, <2>1, <2>2, <2>4, <3>1
  <2>5. CASE Carried(i) # {}
    <3>1. PICK k : k \in Carried(i)
      BY <2>5
    <3>2. Carried(i) = {k}
      BY <2>3, <3>1
    <3>3. ops' = ops - 1
      BY <2>1, <3>2, FS_Singleton
    <3> QED BY <1>1, <1>3, <2>1, <2>2, <2>5, <3>3
  <2> QED BY <2>4, <2>5
<1>10. CASE /\ ReleaseTurn(i) \/ FinishOther(i)
            /\ Subs(i)' = {NoSubmission} \cup {queue[i][k] : k \in DOMAIN queue[i]}
            /\ ops' = IF hand[i].gate = "carried" THEN ops - 1 ELSE ops
  <2>1. CASE hand[i].gate = "carried"
    <3>1. hand[i] \in Subs(i) /\ \A k \in DOMAIN queue[i] : queue[i][k] \in Subs(i)
      BY DEF Subs
    <3>2. Has(i) /\ \A k \in DOMAIN queue[i] : ~Reserving(queue[i][k])
      BY <1>4, <1>5, <2>1, <3>1 DEF SlotOK
    <3>3. ~Has(i)'
      BY <1>4, <1>6, <1>10, <3>1, <3>2
    <3> QED BY <1>1, <1>3, <1>10, <2>1, <3>2, <3>3
  <2>2. CASE hand[i].gate # "carried"
    <3>1. Has(i)' <=> Has(i)
      BY <1>6, <1>10, <2>2 DEF Subs
    <3> QED BY <1>1, <1>3, <1>10, <2>2, <3>1
  <2> QED BY <2>1, <2>2
<1>11. CASE /\ CheckMail(i) /\ slot[i] = "free" /\ ~restoring /\ ops' = ops + 1
            /\ Subs(i)' = Subs(i) \cup {MailTurn}
  <2>1. \A s \in Subs(i) : ~Reserving(s)
    BY <1>5, <1>11 DEF SlotOK, Subs
  <2>2. ~Has(i) /\ Has(i)'
    BY <1>4, <1>11, <2>1, MailTurnFacts
  <2> QED BY <1>1, <1>3, <1>11, <2>2
<1> QED BY <1>7, <1>8, <1>9, <1>10, <1>11, LoopSubs

\* The guards are counted, and none is taken while a restore lasts.
LEMMA GuardsKept ==
  ASSUME TypeOK, CallsOK, RuntimesOK, SlotsOK, CarriedAreTurns, GuardsOK, [Next]_vars
  PROVE  /\ GuardsOK' /\ ops' \in Nat
         /\ restoring => holds' \subseteq holds /\ Carriers' \subseteq Carriers
<1> DEFINE Count == ops' = Cardinality(holds') + Cardinality(Carriers')
           NoMore == restoring => holds' \subseteq holds /\ Carriers' \subseteq Carriers
<1>1. /\ IsFiniteSet(holds) /\ IsFiniteSet(Carriers) /\ ops = Cardinality(holds) + Cardinality(Carriers)
      /\ Cardinality(holds) \in Nat /\ Cardinality(Carriers) \in Nat
      /\ holds = {c \in Clients : Holding(c)} /\ Clients \subseteq Procs
  BY CarriersFinite, OneMore, Names DEF GuardsOK
<1>2. SUFFICES /\ holds' = {c \in Clients : Holding(c)'} /\ IsFiniteSet(holds') /\ Count /\ NoMore
  <2>1. IsFiniteSet(Carriers')
    BY CarriersFinite
  <2> QED BY <1>2, <2>1, FS_CardinalityType DEF GuardsOK
<1>3. ASSUME NEW i \in Runtimes, LoopStep(i), Others(i)
      PROVE  /\ holds' = {c \in Clients : Holding(c)'} /\ IsFiniteSet(holds') /\ Count /\ NoMore
  <2>1. \A c \in Clients : Holding(c)' <=> Holding(c)
    BY <1>3, Names DEF Others, Holding
  <2>2. holds' = holds
    BY <1>3, LoopCarriers
  <2>3. Count
    BY <1>1, <1>3, <2>2, LoopCarriers, OneMore
  <2>4. NoMore
    BY <1>3, LoopCarriers
  <2> QED BY <1>1, <2>1, <2>2, <2>3, <2>4
<1>4. ASSUME Carriers' = Carriers, NEW p \in Procs, GuardStep(p)
      PROVE  /\ holds' = {c \in Clients : Holding(c)'} /\ IsFiniteSet(holds') /\ Count /\ NoMore
  <2>1. \A c \in Clients \ {p} : Holding(c)' <=> Holding(c)
    BY <1>1, <1>4 DEF GuardStep, Others, Holding
  <2>2. CASE End(p)
    <3>1. ~Holding(p)' /\ holds' = holds \ {p} /\ ops' = IF p \in holds THEN ops - 1 ELSE ops
      BY <2>2, EndMoves DEF Holding, Loading
    <3>2. holds' = {c \in Clients : Holding(c)'}
      BY <1>1, <2>1, <3>1
    <3>3. /\ IsFiniteSet(holds')
          /\ Cardinality(holds') = IF p \in holds THEN Cardinality(holds) - 1 ELSE Cardinality(holds)
      BY <1>1, <3>1, OneMore
    <3>4. Cardinality(Carriers') = Cardinality(Carriers)
      BY <1>4
    <3>5. Count
      <4>1. CASE p \in holds
        <5>1. /\ ops' = ops - 1 /\ Cardinality(holds') = Cardinality(holds) - 1
              /\ ops = Cardinality(holds) + Cardinality(Carriers)
              /\ Cardinality(holds) \in Nat /\ Cardinality(Carriers) \in Nat
          BY <1>1, <3>1, <3>3, <4>1
        <5> QED BY <3>4, <5>1
      <4>2. CASE p \notin holds
        BY <1>1, <3>1, <3>3, <3>4, <4>2
      <4> QED BY <4>1, <4>2
    <3> QED BY <1>4, <3>1, <3>2, <3>3, <3>5
  <2>3. CASE UNCHANGED <<holds, ops>> /\ (Holding(p)' <=> Holding(p))
    BY <1>1, <1>4, <2>1, <2>3
  <2>4. CASE p \in Clients /\ pc[p] = "gate" /\ ~restoring
             /\ holds' = holds \cup {p} /\ ops' = ops + 1 /\ Holding(p)'
    <3>1. p \notin holds
      BY <1>1, <2>4 DEF Holding, Loading
    <3>2. holds' = {c \in Clients : Holding(c)'}
      BY <1>1, <2>1, <2>4
    <3>3. IsFiniteSet(holds') /\ Cardinality(holds') = Cardinality(holds) + 1
      BY <1>1, <2>4, <3>1, OneMore
    <3>4. Count
      BY <1>1, <1>4, <2>4, <3>3
    <3> QED BY <2>4, <3>2, <3>3, <3>4
  <2> QED BY <1>4, <2>2, <2>3, <2>4 DEF GuardStep
<1>5. CASE UNCHANGED <<holds, ops, pc, kind>> /\ Carriers' = Carriers
  BY <1>1, <1>5 DEF Holding
<1>6. ASSUME NEW i \in Runtimes, LoopStep(i)
      PROVE  Others(i)
  BY <1>6, RuntimeOthers DEF RuntimeStep
<1>7. CASE \E i \in Runtimes : LoopStep(i)
  BY <1>3, <1>6, <1>7
<1>8. CASE \A i \in Runtimes : ~LoopStep(i)
  BY <1>4, <1>5, <1>8, CarriersKept, GuardSteps
<1> QED BY <1>7, <1>8

-----------------------------------------------------------------------------
(* Restores.                                                               *)

\* What a step does to the restore under way and to what it has yet to look at.
RestoreStep(p) ==
  /\ Others(p)
  /\ \/ restoring' = restoring /\ scan' = scan /\ ~Restorer(p)'
        /\ ~Restorer(p)
     \/ pc[p] = "restore" /\ pc'[p] = "list" /\ ~restoring /\ restoring' /\ ops = 0 /\ ops' = ops /\ p \in Clients
     \/ List(p) /\ pc'[p] = "scan" /\ restoring' = restoring
     \/ \E i \in scan : pc[p] = "scan" /\ pc'[p] = "scan" /\ restoring' = restoring /\ scan' = scan \ {i}
                        /\ ~Active(i) /\ ChannelsStill
     \/ pc[p] = "scan" /\ pc'[p] = "writing" /\ scan = {} /\ restoring' = restoring /\ scan' = scan
     \/ Restorer(p) /\ ~Restorer(p)' /\ p \in Clients /\ ~restoring'

LEMMA RestoreSteps ==
  ASSUME TypeOK, CallsOK, [Next]_vars
  PROVE  UNCHANGED <<restoring, scan, pc>> \/ \E p \in Procs : RestoreStep(p)
<1> USE DEF gate
<1>1. Clients \subseteq Procs /\ Runtimes \subseteq Procs /\ restoring \in BOOLEAN
  BY Names DEF TypeOK
<1>2. ASSUME NEW p \in Procs, TaskStep(p) \/ Hangup(p)
      PROVE  RestoreStep(p)
  <2>1. UNCHANGED <<restoring, scan>>
    BY <1>2 DEF TaskStep, Hangup, Lookup, TakeLoadLock, Recheck, Spawn, SpawnFails, Insert, Return, Submit, Send, Wake
  <2>2. pc'[p] \in {"loadLock", "recheck", "insert", "idle", "send", "waitStart", "waitDone"} \/ pc'[p] = AfterLookup(p)
    BY <1>2, GotoMoves, EndMoves
       DEF TaskStep, Hangup, Lookup, Found, TakeLoadLock, Recheck, Spawn, SpawnFails, Insert, Return, Submit, Send, Sent,
           Wake
  <2>3. pc[p] \in {"lookup", "loadLock", "recheck", "insert", "return", "submit", "send", "waitStart", "waitDone",
                  "opLock"}
    BY <1>2 DEF TaskStep, Hangup, Lookup, TakeLoadLock, Recheck, Spawn, SpawnFails, Insert, Return, Submit, Send, Wake,
                Answered
  <2> QED BY <1>2, <2>1, <2>2, <2>3, AfterLookupSteps, TaskOthers DEF RestoreStep, Restorer
<1>3. ASSUME NEW c \in Clients, Begin(c) \/ RequestStep(c)
      PROVE  RestoreStep(c)
  <2>1. Others(c) /\ c \in Procs
    BY <1>1, <1>3, RequestOthers
  <2>2. CASE Begin(c)
    <3>1. pc'[c] \in {"opLock", "resolve", "restore", "lookup"} /\ UNCHANGED <<restoring, scan>> /\ pc[c] = "idle"
      BY <2>1, <2>2, GotoMoves DEF Begin, FirstStep, Requests
    <3> QED BY <2>1, <3>1 DEF RestoreStep, Restorer
  <2>3. CASE TakeOpLock(c) \/ Resolve(c) \/ Gate(c) \/ ForkCheck(c) \/ Copied(c)
    <3>1. UNCHANGED <<restoring, scan>> /\ pc[c] \in {"opLock", "resolve", "gate", "forkCheck", "copying"}
      BY <2>3 DEF TakeOpLock, Resolve, Gate, ForkCheck, Copied
    <3>2. pc'[c] \in {"idle", "lookup", "forkCheck", "gate", "submit", "copying"}
      BY <2>1, <2>3, GotoMoves, EndMoves DEF TakeOpLock, Resolve, Gate, Enter, ForkCheck, Copied
    <3> QED BY <2>1, <3>1, <3>2 DEF RestoreStep, Restorer
  <2>4. CASE BeginRestore(c)
    <3>1. CASE restoring \/ ops > 0
      <4>1. pc[c] = "restore" /\ pc'[c] = "idle" /\ UNCHANGED <<restoring, scan>>
        BY <2>1, <2>4, <3>1, EndMoves DEF BeginRestore
      <4> QED BY <2>1, <4>1 DEF RestoreStep, Restorer
    <3>2. CASE ~(restoring \/ ops > 0)
      <4>1. ops = 0
        BY <3>2 DEF TypeOK
      <4> QED BY <2>1, <2>4, <3>2, <4>1, GotoMoves DEF BeginRestore, RestoreStep
    <3> QED BY <3>1, <3>2
  <2>5. CASE List(c)
    BY <2>1, <2>5, GotoMoves DEF List, RestoreStep
  <2>6. CASE Look(c)
    <3>1. PICK i \in scan : IF Active(i)
                            THEN scan' = {} /\ restoring' = FALSE /\ End(c)
                            ELSE scan' = scan \ {i} /\ UNCHANGED <<pc, opLock, restoring, ops, holds>>
      BY <2>6 DEF Look
    <3>2. pc[c] = "scan" /\ ChannelsStill
      BY <2>6 DEF Look, runtimes, ChannelsStill
    <3>3. Active(i) => pc'[c] = "idle"
      BY <2>1, <3>1, EndMoves
    <3> QED BY <2>1, <3>1, <3>2, <3>3 DEF RestoreStep, Restorer
  <2>7. CASE StartWriting(c)
    BY <2>1, <2>7, GotoMoves DEF StartWriting, RestoreStep
  <2>8. CASE EndRestore(c)
    BY <2>1, <2>8, EndMoves DEF EndRestore, RestoreStep, Restorer
  <2> QED BY <1>3, <2>2, <2>3, <2>4, <2>5, <2>6, <2>7, <2>8 DEF RequestStep
<1>4. ASSUME NEW i \in Runtimes, RuntimeStep(i)
      PROVE  UNCHANGED <<restoring, scan, pc>> \/ RestoreStep(i)
  <2>1. UNCHANGED <<restoring, scan>> /\ i \in Procs /\ Others(i)
    BY <1>1, <1>4, RuntimeOthers
       DEF RuntimeStep, ToolStep, LoopStep, CallTool, CloseChild, CommandEnds, DrainInbox, Enqueue, Followup, Remove, SendStop,
           Take, Stop, EndTurn, ReleaseTurn, FinishOther, CheckMail
  <2>2. UNCHANGED tasks \/ pc'[i] \in {"lookup", "remove", "followup", "send", "waitStart", "waitDone", "idle", "stop"}
    BY <1>4, <2>1, GotoMoves, EndMoves
       DEF RuntimeStep, ToolStep, LoopStep, CallTool, CloseChild, CommandEnds, StartCall, DrainInbox, Enqueue, Followup, Remove,
           SendStop, Take, Stop, EndTurn, ReleaseTurn, FinishOther, CheckMail
  <2>3. ~Restorer(i)
    <3>1. Restorer(i) => kind[i] = "Restore"
      BY <2>1, CallsAt DEF Restorer
    <3> QED BY <3>1 DEF CallsOK
  <2> QED BY <2>1, <2>2, <2>3 DEF RestoreStep, Restorer, tasks
<1>5. CASE UNCHANGED vars
  BY <1>5 DEF vars, tasks
<1> QED BY <1>1, <1>2, <1>3, <1>4, <1>5 DEF Next, RuntimeStep

\* No guard while a restore lasts, and only clients restore.
LEMMA NoGuards ==
  ASSUME GuardsOK, RestoresOK, restoring
  PROVE  holds = {} /\ Carriers = {}
<1>1. /\ IsFiniteSet(holds) /\ IsFiniteSet(Carriers) /\ ops = Cardinality(holds) + Cardinality(Carriers)
      /\ Cardinality(holds) \in Nat /\ Cardinality(Carriers) \in Nat
  BY CarriersFinite, OneMore DEF GuardsOK
<1>2. Cardinality(holds) = 0 /\ Cardinality(Carriers) = 0
  BY <1>1 DEF RestoresOK
<1> QED BY <1>1, <1>2, OneMore

LEMMA RestorersAreClients ==
  ASSUME TypeOK, CallsOK, NEW p \in Procs, Restorer(p)
  PROVE  p \in Clients
<1>1. kind[p] = "Restore"
  BY CallsAt DEF Restorer
<1> QED BY <1>1 DEF CallsOK, Procs

LEMMA RestoresKept ==
  ASSUME TypeOK, CallsOK, RuntimesOK, SlotsOK, CarriedAreTurns, GuardsOK, RestoresOK, [Next]_vars
  PROVE  RestoresOK'
<1>1. Clients \subseteq Procs
  BY Names
<1>2. ASSUME restoring
      PROVE  ops' = 0
  <2>1. holds' = {} /\ Carriers' = {}
    BY <1>2, NoGuards, GuardsKept
  <2>2. ops' = Cardinality(holds') + Cardinality(Carriers')
    BY GuardsKept DEF GuardsOK
  <2> QED BY <2>1, <2>2, FS_EmptySet
<1>3. CASE UNCHANGED <<restoring, scan, pc>>
  BY <1>2, <1>3 DEF RestoresOK, Restorer
<1>4. ASSUME NEW p \in Procs, RestoreStep(p)
      PROVE  RestoresOK'
  <2>1. \A c \in Clients \ {p} : Restorer(c)' <=> Restorer(c)
    BY <1>1, <1>4 DEF RestoreStep, Others, Restorer
  <2>2. CASE restoring' = restoring /\ ~Restorer(p)' /\ ~Restorer(p)
    BY <1>2, <2>1, <2>2 DEF RestoresOK
  <2>3. CASE pc[p] = "restore" /\ pc'[p] = "list" /\ ~restoring /\ restoring' /\ ops = 0 /\ ops' = ops
    BY <2>1, <2>3 DEF RestoresOK
  <2>4. CASE Restorer(p) /\ restoring' = restoring
    <3>1. \A c \in Clients : Restorer(c)' => Restorer(c)
      BY <2>1, <2>4
    <3> QED BY <1>2, <2>4, <3>1 DEF RestoresOK
  <2>5. CASE Restorer(p) /\ ~Restorer(p)' /\ p \in Clients /\ ~restoring'
    BY <2>1, <2>5 DEF RestoresOK
  <2> QED BY <1>4, <2>2, <2>3, <2>4, <2>5 DEF RestoreStep, List, Restorer
<1> QED BY <1>3, <1>4, RestoreSteps

\* While a restore lasts no gated turn comes to a runtime.
LEMMA NoGatedTurnKept ==
  ASSUME TypeOK, CallsOK, RuntimesOK, SlotsOK, CarriedAreTurns, GuardsOK, RestoresOK, [Next]_vars,
         restoring, NEW j \in Runtimes, NoGatedTurn(j)
  PROVE  NoGatedTurn(j)'
<1>1. holds = {}
  BY NoGuards
<1>2. SUFFICES ASSUME NEW s \in Subs(j)', s.gate # "ungated", s.op = "UserInput"
               PROVE  FALSE
  BY DEF NoGatedTurn
<1>3. s \notin Subs(j)
  BY <1>2 DEF NoGatedTurn
<1>4. ASSUME NEW p \in Procs, NEW r \in Subs(j), s = Disown(p, r)
      PROVE  FALSE
  <2>1. s.op = r.op /\ s.gate = r.gate
    BY <1>4, SubsTypes, DisownFacts
  <2> QED BY <1>2, <2>1 DEF NoGatedTurn
<1>5. ASSUME NEW p \in Procs, Sends(p, s)
      PROVE  FALSE
  <2>1. pc[p] = "send" /\ kind[p] = "Turn"
    BY <1>2, <1>5 DEF Sends
  <2>2. p \in holds
    BY <2>1 DEF GuardsOK, Holding, CallsOK, Procs
  <2> QED BY <1>1, <2>2
<1> QED BY <1>2, <1>3, <1>4, <1>5, SubsFrom DEF NoSubmission

\* What comes into the map is clean.
LEMMA NewInMap ==
  ASSUME TypeOK, RuntimesOK, LoadsOK, [Next]_vars, NEW t \in Threads, loaded'[t] # None, loaded'[t] # loaded[t]
  PROVE  \E j \in Runtimes : loaded'[t] = j /\ Subs(j)' = {NoSubmission}
<1>1. PICK p \in Procs : pc[p] = "insert" /\ loaded'[t] = rt[p] /\ ChannelsStill
  BY MapMoves
<1>2. rt[p] \in Runtimes /\ Clean(rt[p])
  BY <1>1, HasRuntime DEF UsesRuntime, LoadsOK
<1>3. PICK j \in Runtimes : j = rt[p]
  BY <1>2
<1>4. queue'[j] = << >> /\ hand'[j] = NoSubmission
  BY <1>1, <1>2, <1>3 DEF Clean, ChannelsStill
<1>5. Subs(j)' = {NoSubmission}
  BY <1>4 DEF Subs
<1> QED BY <1>1, <1>3, <1>5

LEMMA ScanKept ==
  ASSUME TypeOK, CallsOK, RuntimesOK, LoadsOK, SlotsOK, CarriedAreTurns, GuardsOK, RestoresOK, ScanOK, TypeOK',
         [Next]_vars
  PROVE  ScanOK'
<1>1. SUFFICES ASSUME NEW c \in Clients, NEW t \in Threads, NEW j \in Runtimes, loaded'[t] = j,
                      \/ pc'[c] = "scan" /\ j \notin scan'
                      \/ pc'[c] = "writing"
               PROVE  NoGatedTurn(j)'
  <2>1. \A t \in Threads : loaded'[t] # None => loaded'[t] \in Runtimes
    BY DEF TypeOK
  <2> QED BY <1>1, <2>1 DEF ScanOK, NoGatedTurn, Subs
<1>2. c \in Procs /\ j # None
  BY Names
<1>3. CASE loaded[t] # j
  <2>1. Subs(j)' = {NoSubmission}
    BY <1>1, <1>2, <1>3, NewInMap
  <2> QED BY <2>1 DEF NoGatedTurn, NoSubmission
<1>4. CASE loaded[t] = j
  <2>1. ASSUME Restorer(c), NoGatedTurn(j)
        PROVE  NoGatedTurn(j)'
    BY <2>1, NoGatedTurnKept DEF RestoresOK
  <2>2. pc[c] = "scan" /\ j \notin scan => NoGatedTurn(j)
    BY <1>2, <1>4 DEF ScanOK
  <2>3. pc[c] = "writing" => NoGatedTurn(j)
    BY <1>2, <1>4 DEF ScanOK
  <2>4. CASE UNCHANGED <<restoring, scan, pc>>
    BY <1>1, <2>1, <2>2, <2>3, <2>4 DEF Restorer
  <2>5. ASSUME NEW p \in Procs, p # c, RestoreStep(p)
        PROVE  NoGatedTurn(j)'
    <3>1. pc'[c] = pc[c] /\ Restorer(c)
      BY <1>1, <1>2, <2>5 DEF RestoreStep, Others, Restorer
    <3>2. scan' = scan \/ pc[c] = "writing" \/ (p \in Clients /\ Restorer(p)) \/ ~restoring
      <4>1. Restorer(p) => p \in Clients
        BY RestorersAreClients
      <4> QED BY <2>5, <4>1 DEF RestoreStep, Restorer, List
    <3>3. scan' = scan \/ pc[c] = "writing"
      BY <2>5, <3>1, <3>2 DEF RestoresOK
    <3> QED BY <1>1, <2>1, <2>2, <2>3, <3>1, <3>3
  <2>6. CASE RestoreStep(c)
    <3>1. CASE pc[c] = "scan" /\ pc'[c] = "writing" /\ scan = {}
      BY <2>1, <2>2, <3>1 DEF Restorer
    <3>2. CASE List(c)
      BY <1>1, <1>2, <1>4, <3>2, GotoMoves DEF List
    <3>3. ASSUME NEW i \in scan, pc[c] = "scan", pc'[c] = "scan", scan' = scan \ {i}, ~Active(i), ChannelsStill
          PROVE  NoGatedTurn(j)'
      <4>1. CASE i # j
        BY <1>1, <2>1, <2>2, <3>3, <4>1 DEF Restorer
      <4>2. CASE i = j
        <5>1. slot[j] # "turn"
          BY <3>3, <4>2 DEF Active
        <5>2. \A s \in Subs(j) : s.op # "UserInput"
          BY <5>1 DEF SlotsOK, SlotOK, Subs
        <5>3. NoGatedTurn(j)
          BY <5>2 DEF NoGatedTurn
        <5> QED BY <2>1, <3>3, <5>3 DEF Restorer
      <4> QED BY <4>1, <4>2
    <3> QED BY <1>1, <2>6, <3>1, <3>2, <3>3 DEF RestoreStep, Restorer
  <2> QED BY <2>4, <2>5, <2>6, RestoreSteps
<1> QED BY <1>3, <1>4

-----------------------------------------------------------------------------
(* Operation locks, forks and decisions.                                   *)

LEMMA OpLockSteps ==
  ASSUME TypeOK, CallsOK, [Next]_vars
  PROVE  \/ UNCHANGED <<opLock, tasks>>
         \/ \E p \in Procs : /\ Others(p)
                             /\ \/ opLock' = opLock /\ (HasOpLock(p)' => HasOpLock(p) /\ target'[p] = target[p])
                                \/ End(p) \/ TakeOpLock(p)
<1> USE DEF gate
<1>1. Clients \subseteq Procs /\ Runtimes \subseteq Procs
  BY Names
<1>2. ASSUME NEW p \in Procs, TaskStep(p)
      PROVE  Others(p) /\ (End(p) \/ (opLock' = opLock /\ (HasOpLock(p)' => HasOpLock(p) /\ target'[p] = target[p])))
  <2>1. Others(p) /\ UNCHANGED <<kind, target>>
    BY <1>2, TaskOthers DEF TaskStep, Lookup, TakeLoadLock, Recheck, Spawn, SpawnFails, Insert, Return, Submit, Send, Wake
  <2>2. End(p) \/ opLock' = opLock
    BY <1>2 DEF TaskStep, Lookup, TakeLoadLock, Recheck, Spawn, SpawnFails, Insert, Return, Submit, Send, Wake
  <2>3. pc[p] \in {"lookup", "loadLock", "recheck", "insert", "return", "submit", "send", "waitStart", "waitDone"}
    BY <1>2 DEF TaskStep, Lookup, TakeLoadLock, Recheck, Spawn, SpawnFails, Insert, Return, Submit, Send, Wake, Answered
  <2> QED BY <2>1, <2>2, <2>3 DEF HasOpLock
<1>3. ASSUME NEW p \in Procs, Hangup(p)
      PROVE  Others(p) /\ End(p)
  BY <1>3, TaskOthers DEF Hangup
<1>4. ASSUME NEW c \in Clients, Begin(c) \/ RequestStep(c)
      PROVE  /\ Others(c)
             /\ \/ opLock' = opLock /\ (HasOpLock(c)' => HasOpLock(c) /\ target'[c] = target[c])
                \/ End(c) \/ TakeOpLock(c)
  <2>1. Others(c) /\ c \in Procs
    BY <1>1, <1>4, RequestOthers
  <2>2. CASE Begin(c)
    <3>1. opLock' = opLock /\ ~HasOpLock(c)'
      BY <2>1, <2>2, GotoMoves DEF Begin, FirstStep, Requests, HasOpLock, TypeOK
    <3> QED BY <2>1, <3>1
  <2>3. CASE RequestStep(c) /\ ~TakeOpLock(c) /\ ~End(c)
    <3>1. UNCHANGED <<opLock, kind, target>>
      BY <2>3 DEF RequestStep, Resolve, Gate, Enter, ForkCheck, Copied, BeginRestore, List, Look, StartWriting,
                  EndRestore
    <3>2. pc[c] \in {"resolve", "gate", "forkCheck", "copying", "restore", "list", "scan", "writing"}
      BY <2>3 DEF RequestStep, Resolve, Gate, ForkCheck, Copied, BeginRestore, List, Look, StartWriting, EndRestore
    <3> QED BY <2>1, <3>1, <3>2 DEF HasOpLock
  <2> QED BY <1>4, <2>1, <2>2, <2>3
<1>5. ASSUME NEW i \in Runtimes, RuntimeStep(i)
      PROVE  Others(i) /\ (End(i) \/ (opLock' = opLock /\ (HasOpLock(i)' => HasOpLock(i) /\ target'[i] = target[i])))
  <2>1. Others(i) /\ i \in Procs
    BY <1>1, <1>5, RuntimeOthers
  <2>2. End(i) \/ opLock' = opLock
    BY <1>5 DEF RuntimeStep, ToolStep, LoopStep, CallTool, CloseChild, CommandEnds, DrainInbox, Enqueue, Followup, Remove,
                SendStop, Take, Stop, EndTurn, ReleaseTurn, FinishOther, CheckMail
  <2>3. ~HasOpLock(i)'
    BY <2>1, CallsKept DEF CallsOK, HasOpLock
  <2> QED BY <2>1, <2>2, <2>3
<1>6. CASE UNCHANGED vars
  BY <1>6 DEF vars
<1> QED BY <1>1, <1>2, <1>3, <1>4, <1>5, <1>6 DEF Next, RuntimeStep

LEMMA OpLocksKept ==
  ASSUME TypeOK, CallsOK, OpLocksOK, [Next]_vars
  PROVE  OpLocksOK'
<1>1. /\ Clients \subseteq Procs /\ Nobody \notin Procs /\ target \in [Procs -> Threads]
      /\ opLock \in [Threads -> Clients \cup {Nobody}]
  BY Names DEF TypeOK
<1>2. CASE UNCHANGED <<opLock, tasks>>
  BY <1>2 DEF tasks, OpLocksOK, HasOpLock
<1>3. ASSUME NEW p \in Procs, Others(p)
      PROVE  \A c \in Clients \ {p} : (HasOpLock(c)' => HasOpLock(c)) /\ target'[c] = target[c]
  BY <1>1, <1>3 DEF Others, HasOpLock
<1>4. ASSUME NEW p \in Procs, Others(p), opLock' = opLock, HasOpLock(p)' => HasOpLock(p) /\ target'[p] = target[p]
      PROVE  OpLocksOK'
  BY <1>3, <1>4 DEF OpLocksOK
<1>5. ASSUME NEW p \in Procs, Others(p), End(p)
      PROVE  OpLocksOK'
  <2>1. ~HasOpLock(p)'
    BY <1>5, EndMoves DEF HasOpLock
  <2>2. \A t \in Threads : opLock[t] # p => opLock'[t] = opLock[t]
    BY <1>5, EndMoves
  <2>3. ASSUME NEW c \in Clients, c # p, HasOpLock(c)'
        PROVE  opLock'[target'[c]] = c
    BY <1>1, <1>3, <1>5, <2>2, <2>3 DEF OpLocksOK
  <2> QED BY <2>1, <2>3 DEF OpLocksOK
<1>6. ASSUME NEW p \in Procs, Others(p), TakeOpLock(p)
      PROVE  OpLocksOK'
  <2>1. /\ opLock[target[p]] = Nobody /\ opLock' = [opLock EXCEPT ![target[p]] = p] /\ target' = target
    BY <1>6 DEF TakeOpLock
  <2>2. ASSUME NEW c \in Clients, c # p, HasOpLock(c)'
        PROVE  opLock'[target'[c]] = c
    BY <1>1, <1>3, <1>6, <2>1, <2>2 DEF OpLocksOK
  <2>3. opLock'[target'[p]] = p
    BY <1>1, <2>1
  <2> QED BY <2>2, <2>3 DEF OpLocksOK
<1> QED BY <1>2, <1>4, <1>5, <1>6, OpLockSteps

\* Who begins to copy looked for a turn in the runtime of the map.
LEMMA CopiersMove ==
  ASSUME TypeOK, CallsOK, [Next]_vars, NEW c \in Clients, pc'[c] = "copying"
  PROVE  \/ pc[c] = "copying" /\ target'[c] = target[c]
         \/ ForkCheck(c) /\ ~ActiveTurn(target[c]) /\ target' = target /\ loaded' = loaded /\ ChannelsStill
<1>1. c \in Procs
  BY Names
<1>2. ASSUME NEW p \in Procs, p # c, Others(p)
      PROVE  pc[c] = "copying" /\ target'[c] = target[c]
  BY <1>1, <1>2 DEF Others
<1>3. ASSUME NEW p \in Procs, TaskStep(p) \/ Hangup(p)
      PROVE  pc[c] = "copying" /\ target'[c] = target[c]
  <2>1. pc'[p] \in {"loadLock", "recheck", "insert", "idle", "send", "waitStart", "waitDone"} \/ pc'[p] = AfterLookup(p)
    BY <1>3, GotoMoves, EndMoves
       DEF TaskStep, Hangup, Lookup, Found, TakeLoadLock, Recheck, Spawn, SpawnFails, Insert, Return, Submit, Send, Sent,
           Wake
  <2> QED BY <1>2, <1>3, <2>1, AfterLookupSteps, TaskOthers
<1>4. ASSUME NEW i \in Runtimes, RuntimeStep(i)
      PROVE  pc[c] = "copying" /\ target'[c] = target[c]
  BY <1>2, <1>4, RuntimeOthers, Names
<1>5. ASSUME NEW d \in Clients, Begin(d) \/ RequestStep(d)
      PROVE  \/ pc[c] = "copying" /\ target'[c] = target[c]
             \/ ForkCheck(c) /\ ~ActiveTurn(target[c]) /\ target' = target /\ loaded' = loaded /\ ChannelsStill
  <2>1. CASE c # d
    BY <1>2, <1>5, <2>1, RequestOthers, Names
  <2>2. CASE Begin(c)
    BY <1>1, <2>2, GotoMoves DEF Begin, FirstStep, Requests
  <2>3. CASE ForkCheck(c)
    <3>1. ~ActiveTurn(target[c])
      BY <1>1, <2>3, EndMoves DEF ForkCheck
    <3> QED BY <2>3, <3>1 DEF ForkCheck, loader, runtimes, ChannelsStill
  <2>4. CASE RequestStep(c) /\ ~ForkCheck(c)
    <3>1. Look(c) /\ pc[c] = "scan" /\ pc' = pc
      BY <1>1, <2>4, GotoMoves, EndMoves
         DEF RequestStep, TakeOpLock, Resolve, Gate, Enter, Copied, BeginRestore, List, Look, StartWriting, EndRestore
    <3> QED BY <3>1
  <2> QED BY <1>5, <2>1, <2>2, <2>3, <2>4
<1>6. CASE UNCHANGED vars
  BY <1>6 DEF vars, tasks
<1> QED BY <1>3, <1>4, <1>5, <1>6 DEF Next, RuntimeStep

LEMMA ForksKept ==
  ASSUME TypeOK, CallsOK, RuntimesOK, LoadsOK, SlotsOK, CarriedAreTurns, OpLocksOK, ForksOK, TypeOK', [Next]_vars
  PROVE  ForksOK'
<1>1. SUFFICES ASSUME NEW c \in Clients, NEW j \in Runtimes, pc'[c] = "copying", loaded'[target'[c]] = j
               PROVE  NoClientTurn(j)'
  <2>1. \A c \in Clients : loaded'[target'[c]] # None => loaded'[target'[c]] \in Runtimes
    BY Names DEF TypeOK
  <2> QED BY <1>1, <2>1 DEF ForksOK, NoClientTurn, Subs
<1>2. c \in Procs /\ j # None /\ target[c] \in Threads
  BY Names DEF TypeOK
<1>3. CASE ForkCheck(c) /\ ~ActiveTurn(target[c]) /\ target' = target /\ loaded' = loaded /\ ChannelsStill
  <2>1. slot[j] # "turn"
    BY <1>1, <1>2, <1>3 DEF ActiveTurn, Active
  <2>2. \A s \in Subs(j) : s.op # "UserInput"
    BY <2>1 DEF SlotsOK, SlotOK, Subs
  <2>3. Subs(j)' = Subs(j)
    BY <1>3 DEF ChannelsStill, Subs
  <2> QED BY <2>2, <2>3 DEF NoClientTurn
<1>4. CASE pc[c] = "copying" /\ target'[c] = target[c] /\ loaded[target[c]] # j
  <2>1. Subs(j)' = {NoSubmission}
    BY <1>1, <1>2, <1>4, NewInMap
  <2> QED BY <2>1 DEF NoClientTurn, NoSubmission
<1>5. CASE pc[c] = "copying" /\ target'[c] = target[c] /\ loaded[target[c]] = j
  <2>1. NoClientTurn(j) /\ of[j] = target[c]
    BY <1>2, <1>5, MapFacts DEF ForksOK
  <2>2. SUFFICES ASSUME NEW s \in Subs(j)', s.op = "UserInput", s.gate = "passed"
                 PROVE  FALSE
    BY DEF NoClientTurn
  <2>3. ASSUME NEW p \in Procs, NEW r \in Subs(j), s = Disown(p, r)
        PROVE  FALSE
    <3>1. s.op = r.op /\ s.gate = r.gate
      BY <2>3, SubsTypes, DisownFacts
    <3> QED BY <2>1, <2>2, <3>1 DEF NoClientTurn
  <2>4. ASSUME NEW p \in Procs, Sends(p, s), rt[p] = j
        PROVE  FALSE
    <3>1. pc[p] = "send" /\ kind[p] = "Turn"
      BY <2>2, <2>4 DEF Sends
    <3>2. p \in Clients /\ of[j] = target[p]
      BY <2>4, <3>1, HasRuntime DEF CallsOK, UsesRuntime, Procs
    <3>3. opLock[target[p]] = p
      BY <3>1, <3>2 DEF OpLocksOK, HasOpLock
    <3>4. opLock[target[c]] = c
      BY <1>2, <1>5, CallsAt DEF OpLocksOK, HasOpLock
    <3> QED BY <1>5, <2>1, <3>1, <3>2, <3>3, <3>4
  <2> QED BY <2>1, <2>2, <2>3, <2>4, SubsFrom, MailTurnFacts DEF NoClientTurn, NoSubmission
<1> QED BY <1>1, <1>3, <1>4, <1>5, CopiersMove

\* Who waits for an operation goes on only when it is done.
LEMMA WaitersMove ==
  ASSUME TypeOK, CallsOK, [Next]_vars, hangups' = 0, NEW c \in Clients, pc[c] = "waitDone"
  PROVE  \/ Wake(c)
         \/ pc'[c] = pc[c] /\ kind'[c] = kind[c] /\ rt'[c] = rt[c]
<1>1. c \in Procs
  BY Names
<1>2. ASSUME NEW p \in Procs, p # c, Others(p)
      PROVE  pc'[c] = pc[c] /\ kind'[c] = kind[c] /\ rt'[c] = rt[c]
  BY <1>1, <1>2 DEF Others
<1>3. ~TaskStep(c) \/ Wake(c)
  BY DEF TaskStep, Lookup, TakeLoadLock, Recheck, Spawn, SpawnFails, Insert, Return, Submit, Send
<1>4. ~Begin(c) /\ ~RequestStep(c)
  BY DEF Begin, RequestStep, TakeOpLock, Resolve, Gate, ForkCheck, Copied, BeginRestore, List, Look, StartWriting,
         EndRestore
<1>5. \A p \in Procs : ~Hangup(p)
  BY DEF Hangup, TypeOK
<1>6. CASE UNCHANGED vars
  BY <1>6 DEF vars, tasks
<1> QED BY <1>2, <1>3, <1>4, <1>5, <1>6, TaskOthers, RequestOthers, RuntimeOthers, Names DEF Next, RuntimeStep

LEMMA HangupsGrow ==
  ASSUME TypeOK, [Next]_vars, hangups' = 0
  PROVE  hangups = 0 /\ \A p \in Procs : ~Hangup(p)
<1> USE DEF others
<1>1. \A p \in Procs : ~Hangup(p)
  BY DEF Hangup, TypeOK
<1>2. ASSUME NEW p \in Procs, TaskStep(p)
      PROVE  hangups' = hangups
  BY <1>2 DEF TaskStep, Lookup, TakeLoadLock, Recheck, Spawn, SpawnFails, Insert, Return, Submit, Send, Wake
<1>3. ASSUME NEW c \in Clients, Begin(c) \/ RequestStep(c)
      PROVE  hangups' = hangups
  BY <1>3 DEF Begin, RequestStep, TakeOpLock, Resolve, Gate, ForkCheck, Copied, BeginRestore, List, Look, StartWriting,
              EndRestore
<1>4. ASSUME NEW i \in Runtimes, RuntimeStep(i)
      PROVE  hangups' = hangups
  BY <1>4 DEF RuntimeStep, ToolStep, LoopStep, CallTool, CloseChild, CommandEnds, DrainInbox, Enqueue, Followup, Remove, SendStop,
              Take, Stop, EndTurn, ReleaseTurn, FinishOther, CheckMail
<1>5. CASE UNCHANGED vars
  BY <1>1, <1>5 DEF vars
<1> QED BY <1>1, <1>2, <1>3, <1>4, <1>5 DEF Next, RuntimeStep

LEMMA DecisionsKept ==
  ASSUME TypeOK, CallsOK, RuntimesOK, SlotsOK, CarriedAreTurns, DecisionsOK, [Next]_vars
  PROVE  DecisionsOK'
<1>1. SUFFICES ASSUME hangups' = 0, NEW j \in Runtimes, NEW s \in Subs(j)', s.op = "Decision"
               PROVE  s.for \in Clients /\ kind'[s.for] = "Decide" /\ pc'[s.for] = "waitDone" /\ rt'[s.for] = j
  BY DEF DecisionsOK
<1>2. hangups = 0 /\ \A p \in Procs : ~Hangup(p)
  BY <1>1, HangupsGrow
<1>3. CASE s \in Subs(j)
  <2>1. s.for \in Clients /\ kind[s.for] = "Decide" /\ pc[s.for] = "waitDone" /\ rt[s.for] = j
    BY <1>1, <1>2, <1>3 DEF DecisionsOK
  <2>2. ~Wake(s.for)
    <3>1. PICK c \in Clients : c = s.for
      BY <2>1
    <3>2. hand[j].for = c \/ \E k \in DOMAIN queue[j] : queue[j][k].for = c
      BY <1>3, <3>1 DEF Subs
    <3>3. DOMAIN queue[j] = 1 .. Len(queue[j])
      BY SubsTypes
    <3>4. ~Answered(c)
      BY <2>1, <3>1, <3>2, <3>3 DEF Answered, Queued
    <3> QED BY <3>1, <3>4 DEF Wake
  <2> QED BY <1>1, <2>1, <2>2, WaitersMove
<1>4. ASSUME NEW p \in Procs, Sends(p, s), rt[p] = j
      PROVE  s.for \in Clients /\ kind'[s.for] = "Decide" /\ pc'[s.for] = "waitDone" /\ rt'[s.for] = j
  <2>1. kind[p] = "Decide" /\ pc'[p] = "waitDone" /\ s.for = p /\ kind' = kind /\ rt' = rt
    BY <1>1, <1>4 DEF Sends
  <2>2. p \in Clients
    BY <2>1 DEF CallsOK, Procs
  <2> QED BY <1>4, <2>1, <2>2
<1> QED BY <1>1, <1>2, <1>3, <1>4, SubsFrom, MailTurnFacts DEF NoSubmission

-----------------------------------------------------------------------------
(* The theorems.                                                           *)

LEMMA InitIInv == Init => IInv
<1> SUFFICES ASSUME Init PROVE IInv
  OBVIOUS
<1>1. /\ Clients \subseteq Procs /\ Runtimes \subseteq Nat /\ None \notin Runtimes
      /\ \A i \in Runtimes : Clean(i) /\ Subs(i) = {NoSubmission}
  BY Names DEF Init, Clean, Subs
<1>2. TypeOK
  <2>1. << >> \in Seq(Submissions) /\ 0 \in 0 .. MaxRuntimes /\ 0 \in 0 .. MaxRequests /\ 0 \in 0 .. MaxToolCalls
        /\ 0 \in 0 .. MaxCloses /\ 0 \in 0 .. MaxHangups
    BY MaxRuntimesAssumption, BoundsAssumption
  <2>2. "idle" \in TaskSteps /\ "Load" \in Requests /\ Root \in Threads
    BY RootAssumption DEF TaskSteps, Requests
  <2> QED BY <2>1, <2>2 DEF Init, TypeOK
<1>3. CallsOK /\ RuntimesOK /\ LoadsOK
  <2>1. CallsOK
    BY <1>1 DEF Init, CallsOK, StepsOf, Requests, Procs
  <2>2. RuntimesOK
    BY <1>1 DEF Init, RuntimesOK, UsesRuntime
  <2>3. LoadsOK
    BY <1>1 DEF Init, LoadsOK
  <2> QED BY <2>1, <2>2, <2>3
<1>4. DoomedUnloaded /\ NoneClosed
  BY <1>1 DEF Init, DoomedUnloaded, NoneClosed, Runtimes
<1>5. SlotsOK /\ CarriedAreTurns
  BY <1>1 DEF Init, SlotsOK, SlotOK, CarriedAreTurns, Reserving, NoSubmission
<1>6. GuardsOK
  <2>1. \A i \in Runtimes : ~(\E s \in Subs(i) : s.gate = "carried")
    BY <1>1 DEF NoSubmission
  <2>2. holds = {c \in Clients : Holding(c)} /\ holds = {}
    BY <1>1 DEF Init, Holding, Loading
  <2>3. Carriers = {}
    BY <2>1 DEF Carriers
  <2> QED BY <2>2, <2>3, FS_EmptySet DEF GuardsOK, Init
<1>7. RestoresOK /\ ScanOK /\ OpLocksOK /\ ForksOK
  BY <1>1 DEF Init, RestoresOK, Restorer, ScanOK, OpLocksOK, HasOpLock, ForksOK
<1>8. DecisionsOK
  BY <1>1 DEF DecisionsOK, NoSubmission
<1> QED BY <1>2, <1>3, <1>4, <1>5, <1>6, <1>7, <1>8 DEF IInv

LEMMA NextIInv == IInv /\ [Next]_vars => IInv'
<1> SUFFICES ASSUME IInv, [Next]_vars PROVE IInv'
  OBVIOUS
<1> USE DEF IInv
<1>1. CallsOK' /\ RuntimesOK' /\ LoadsOK' /\ SlotsOK' /\ CarriedAreTurns' /\ NoneClosed'
  BY CallsKept, RuntimesKept, LoadsKept, SlotsKept, CarriedKept, NoneClosedKept
<1>2. GuardsOK' /\ ops' \in Nat
  BY GuardsKept
<1>3. TypeOK'
  BY <1>2, TypesKept
<1>4. DoomedUnloaded'
  BY <1>1, <1>3, DoomedKept
<1>5. RestoresOK' /\ OpLocksOK' /\ DecisionsOK'
  BY RestoresKept, OpLocksKept, DecisionsKept
<1>6. ScanOK' /\ ForksOK'
  BY <1>3, ScanKept, ForksKept
<1> QED BY <1>1, <1>2, <1>3, <1>4, <1>5, <1>6

LEMMA Invariant == Spec => []IInv
BY InitIInv, NextIInv, PTL DEF Spec

\* What the map has is live, and a runtime of it has the submissions it has.
LEMMA GatedSubs ==
  ASSUME TypeOK, NEW i \in Runtimes
  PROVE  Gated(i) = {s \in Subs(i) : s.gate # "ungated"}
<1>1. DOMAIN queue[i] = 1 .. Len(queue[i])
  BY SubsTypes
<1> QED BY <1>1 DEF Gated, Subs

(* The tables of the loader, the guards, the runtimes and the tasks have   *)
(* the shape they are declared with (runtime_loader.rs:47-62).             *)
THEOREM TypeCorrect == Spec => []TypeOK
<1>1. IInv => TypeOK
  BY DEF IInv
<1> QED BY <1>1, Invariant, PTL

(* No guard is lost and none is dropped twice, whichever of the request,   *)
(* the turn that carries it and the closed channel drops it                *)
(* (runtime_loader.rs:388-403).                                            *)
THEOREM GuardsAreCounted == Spec => []GuardsCounted
<1>1. IInv => GuardsCounted
  <2> SUFFICES ASSUME IInv PROVE GuardsCounted
    OBVIOUS
  <2>1. ASSUME NEW i \in Runtimes
        PROVE  (hand[i].gate = "carried" \/ Carried(i) # {}) <=> \E s \in Subs(i) : s.gate = "carried"
    <3>1. DOMAIN queue[i] = 1 .. Len(queue[i])
      BY SubsTypes DEF IInv
    <3> QED BY <3>1 DEF Subs, Carried
  <2>2. Carriers = {i \in Runtimes : hand[i].gate = "carried" \/ Carried(i) # {}}
    BY <2>1 DEF Carriers
  <2> QED BY <2>2 DEF IInv, GuardsOK, GuardsCounted
<1> QED BY <1>1, Invariant, PTL

(* Whoever finds a runtime in the map can submit to it: it is of the       *)
(* thread it is kept for and has not been asked to stop                    *)
(* (runtime_loader.rs:91-105).                                             *)
THEOREM LoadedRuntimesAreLive == Spec => []LoadedIsLive
<1>1. IInv => LoadedIsLive
  <2> SUFFICES ASSUME IInv, NEW t \in Threads, loaded[t] # None
               PROVE  /\ of[loaded[t]] = t /\ Live(loaded[t])
                      /\ \A k \in 1 .. Len(queue[loaded[t]]) : queue[loaded[t]][k].op # "Shutdown"
    BY DEF LoadedIsLive
  <2>1. loaded[t] \in Runtimes /\ loaded[t] <= spawned /\ of[loaded[t]] = t
    BY MapFacts DEF IInv
  <2>2. DOMAIN queue[loaded[t]] = 1 .. Len(queue[loaded[t]])
    BY <2>1, SubsTypes DEF IInv
  <2>3. ~Told(loaded[t])
    BY DEF IInv, DoomedUnloaded, Doomed
  <2> QED BY <2>1, <2>2, <2>3 DEF Told, Live
<1> QED BY <1>1, Invariant, PTL

(* However many requests race to load a thread, one runtime is spawned for *)
(* it, while nothing closes the thread (runtime_loader.rs:154-213).        *)
THEOREM OneRuntimeEach == Spec => []OneRuntimePerThread
<1>1. IInv => OneRuntimePerThread
  <2> SUFFICES ASSUME IInv, closes = 0, NEW i \in Runtimes, NEW j \in Runtimes, Live(i), Live(j), of[i] = of[j]
               PROVE  i = j
    BY DEF OneRuntimePerThread
  <2> DEFINE Coming(r) == \E p \in Procs : pc[p] = "insert" /\ rt[p] = r
  <2>1. \A r \in {i, j} : loaded[of[r]] = r \/ Coming(r)
    BY DEF IInv, NoneClosed, Live
  <2>2. \A r \in {i, j} : r # None /\ of[r] \in Threads
    BY Names DEF IInv, TypeOK
  <2>3. \A p \in Procs : pc[p] = "insert" =>
          /\ loadLock[target[p]] = p /\ loaded[target[p]] = None /\ of[rt[p]] = target[p]
    BY HasRuntime DEF IInv, LoadsOK, UsesRuntime
  <2>4. CASE Coming(i) /\ Coming(j)
    <3>1. PICK p \in Procs : pc[p] = "insert" /\ rt[p] = i
      BY <2>4
    <3>2. PICK q \in Procs : pc[q] = "insert" /\ rt[q] = j
      BY <2>4
    <3>3. target[p] = target[q]
      BY <2>3, <3>1, <3>2
    <3>4. p = q
      BY <2>3, <3>1, <3>2, <3>3
    <3> QED BY <3>1, <3>2, <3>4
  <2>5. \A r \in {i, j} : Coming(r) => loaded[of[r]] = None
    BY <2>3
  <2> QED BY <2>1, <2>2, <2>4, <2>5
<1> QED BY <1>1, Invariant, PTL

(* While a restore writes the files of the workspace no turn that came     *)
(* through the gate is queued or running in a loaded runtime               *)
(* (turn_processor.rs:86-102, runtime_loader.rs:304-351).                  *)
THEOREM RestoreMeetsNoGatedTurn == Spec => []RestoreSeesGatedTurns
<1>1. IInv => RestoreSeesGatedTurns
  <2> SUFFICES ASSUME IInv, NEW c \in Clients, pc[c] = "writing", NEW t \in Threads, loaded[t] # None,
                      NEW s \in Gated(loaded[t])
               PROVE  s.op # "UserInput"
    BY DEF RestoreSeesGatedTurns, Writing
  <2>1. loaded[t] \in Runtimes
    BY MapFacts DEF IInv
  <2>2. s \in Subs(loaded[t]) /\ s.gate # "ungated"
    BY <2>1, GatedSubs DEF IInv
  <2> QED BY <2>2 DEF IInv, ScanOK, NoGatedTurn
<1> QED BY <1>1, Invariant, PTL

(* A command that an approval let run never overlaps a restore, while no   *)
(* client hangs up (turn_processor.rs:219-233).                            *)
THEOREM RestoreMeetsNoDecision == Spec => []DecisionsExcludeRestore
<1>1. IInv => DecisionsExcludeRestore
  <2> SUFFICES ASSUME IInv, NEW c \in Clients, pc[c] = "writing", hangups = 0, NEW i \in Runtimes,
                      NEW s \in Gated(i), s.op = "Decision"
               PROVE  FALSE
    BY DEF DecisionsExcludeRestore, Writing
  <2>1. holds = {}
    BY NoGuards DEF IInv, RestoresOK, Restorer
  <2>2. s \in Subs(i)
    BY GatedSubs DEF IInv
  <2>3. s.for \in holds
    BY <2>2 DEF IInv, DecisionsOK, GuardsOK, Holding
  <2> QED BY <2>1, <2>3
<1> QED BY <1>1, Invariant, PTL

(* While a fork copies the history of a thread no client's turn of the     *)
(* thread is under way in its runtime (fork_processor.rs:20-47).           *)
THEOREM ForkMeetsNoClientTurn == Spec => []ForkSeesNoClientTurn
<1>1. IInv => ForkSeesNoClientTurn
  <2> SUFFICES ASSUME IInv, NEW c \in Clients, pc[c] = "copying", loaded[target[c]] # None,
                      NEW s \in Gated(loaded[target[c]])
               PROVE  ~(s.op = "UserInput" /\ s.gate = "passed")
    BY DEF ForkSeesNoClientTurn
  <2>1. target[c] \in Threads
    BY Names DEF IInv, TypeOK
  <2>2. loaded[target[c]] \in Runtimes
    BY <2>1, MapFacts DEF IInv
  <2>3. s \in Subs(loaded[target[c]])
    BY <2>2, GatedSubs DEF IInv
  <2> QED BY <2>3 DEF IInv, ForksOK, NoClientTurn
<1> QED BY <1>1, Invariant, PTL
=============================================================================
