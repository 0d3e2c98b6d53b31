-------------------------- MODULE WorkflowRun_proofs --------------------------
(***************************************************************************)
(* For every limit of the template, every number of clients and of         *)
(* restarts: what a client was told of an ended run stays, a completed run *)
(* skipped no call, and no phase outlives its run.                         *)
(*                                                                         *)
(* And of the scheduler that runs each phase, for every number of tasks    *)
(* and every bound on the concurrency: a phase reports each of its tasks   *)
(* once, shows the counts it reports, never shows as completed what lost a *)
(* task, and begins at most one call after it was cancelled.               *)
(***************************************************************************)
EXTENDS WorkflowRun, WorkflowScheduler, TLAPS

View == [status : PhaseStatuses, counts : [completed : Nat, failed : Nat, skipped : Nat]]

\* The states of a run: its phases are declared all at once.
Runs == [status : {"queued", "running"} \cup RunOver,
         phases : [PhaseIds -> View] \cup [{} -> View],
         summary : {"none", "report", "failed"}, stop : BOOLEAN]

(* The places of the task, by the phases that lie behind it.               *)
BehindAll == {"endSynthesize", "reported", "recording", "completing"}
BehindVerify == {"endVerify", "startSynthesize", "synthesizing"} \cup BehindAll
BehindExtract == {"endExtract", "startVerify", "verify"} \cup BehindVerify
BehindSearch == {"endSearch", "startExtract", "extract"} \cup BehindExtract
BehindScope == {"startSearch", "search"} \cup BehindSearch
Working == {"scope", "scoping"} \cup BehindScope
Failing == {"failing", "noting", "closing", "ending", "persisting", "returned"}
Alive == {"spawned"} \cup Working \cup Failing
Unjudged ==
  {"none", "spawned", "gone"} \cup (Working \ ({"startSynthesize", "synthesizing"} \cup BehindAll))

Shape ==
  /\ pc \in Alive \cup {"none", "gone"}
  /\ IF pc \in Alive THEN run \in Runs ELSE run = Absent
  /\ disk \in Runs \cup {Absent} /\ told \in Runs \cup {Absent}
  /\ cancelled \in BOOLEAN /\ over \in BOOLEAN
  /\ asking \in [Clients -> {"idle", "signal", "mark", "view"}]

Finds == [sources : 0 .. MaxSources, claims : 0 .. MaxClaims, killed : Nat, unverified : Nat,
          report : [completed : Nat, failed : Nat, skipped : Nat]]

\* What the task carries: no verdict before the claims were voted on.
Carried ==
  /\ found \in Finds /\ found.killed + found.unverified <= found.claims
  /\ pc \in Unjudged => found.killed = 0 /\ found.unverified = 0

Parallel == {"search", "extract", "verify"}
EndOf(p) == CASE p = "search" -> "endSearch"
              [] p = "extract" -> "endExtract"
              [] p = "verify" -> "endVerify"
Over(p) == run.phases[p].status \in PhaseOver

\* As long as the run goes on, the phases behind the task are over, and a phase with calls
\* it skipped stops the task at the very next check.
Progress ==
  pc \in Working /\ ~IsTerminal(run) =>
    /\ run.phases \in [PhaseIds -> View]
    /\ pc \in BehindScope => Over("scope")
    /\ pc \in BehindSearch => Over("search")
    /\ pc \in BehindExtract => Over("extract")
    /\ pc \in BehindVerify => Over("verify")
    /\ pc \in BehindAll => Over("synthesize")
    /\ \A p \in Parallel : run.phases[p].counts.skipped # 0 => pc = EndOf(p) /\ ~CanContinue
    /\ pc = "completing" => run.summary = "report"

\* A run that has ended, or is about to fail, has no phase left open.
Closed ==
  /\ IsTerminal(run) \/ pc = "ending" => \A p \in DOMAIN run.phases : Over(p)
  /\ run.status = "completed" =>
       /\ run.phases \in [PhaseIds -> View] /\ run.summary = "report"
       /\ \A p \in Parallel : run.phases[p].counts.skipped = 0

\* What was written and what was told is the one state the run ended in.
Agreed ==
  /\ disk # Absent => IsTerminal(disk) /\ (pc \in Alive => disk = run)
  /\ told # Absent => IsTerminal(told) /\ (pc \in Alive => told = run)
  /\ disk # Absent /\ told # Absent => disk = told
  /\ pc = "none" => disk = Absent /\ told = Absent
  /\ disk.status = "completed" => disk.summary = "report"
  /\ told.status = "completed" => told.summary = "report"
  /\ \A c \in Clients : /\ asking[c] # "idle" => pc \in Alive
                        /\ asking[c] = "view" => IsTerminal(run)

IInv == Shape /\ Carried /\ Progress /\ Closed /\ Agreed

-----------------------------------------------------------------------------
(* The methods of the run state.                                           *)

\* They leave an ended run alone.
LEMMA EndedStays ==
  ASSUME NEW r, IsTerminal(r)
  PROVE  /\ Declared(r) = r /\ Started(r) = r
         /\ \A p : PhaseStarted(r, p) = r
         /\ \A p, c, status : PhaseEnded(r, p, c, status) = r
         /\ \A S, status : PhasesClosed(r, S, status) = r
         /\ \A summary, stop : Noted(r, summary, stop) = r
         /\ \A status : RunEnded(r, status) = r
         /\ RunCancelled(r) = r
BY DEF Declared, Started, Open, PhaseStarted, PhaseEnded, PhasesClosed, Noted, RunEnded, RunCancelled

\* What a phase can be.
LEMMA PhaseFacts ==
  ASSUME NEW r \in Runs
  PROVE  /\ DOMAIN r.phases \subseteq PhaseIds
         /\ \A p \in DOMAIN r.phases : r.phases[p] \in View /\ r.phases[p].status \in PhaseStatuses
BY DEF Runs, View

\* The run is set going with its phases declared.
LEMMA BeginFacts ==
  ASSUME NEW r \in Runs, ~IsTerminal(r), NEW s, s = Declared(Started(r))
  PROVE  /\ s \in Runs /\ ~IsTerminal(s) /\ s.phases \in [PhaseIds -> View]
         /\ \A p \in PhaseIds : s.phases[p].counts.skipped = 0
<1>1. [status |-> "pending", counts |-> Idle] \in View
  BY DEF View, Idle, Counts, PhaseStatuses
<1>2. Started(r) = [r EXCEPT !.status = "running"] /\ ~IsTerminal(Started(r)) /\ Started(r) \in Runs
  BY DEF Started, IsTerminal, Runs, RunOver
<1> DEFINE f == [p \in PhaseIds |-> [status |-> "pending", counts |-> Idle]]
<1>3. s = [Started(r) EXCEPT !.phases = f]
  BY <1>2 DEF Declared
<1>4. f \in [PhaseIds -> View] /\ \A p \in PhaseIds : f[p].counts.skipped = 0
  BY <1>1 DEF Idle, Counts
<1> HIDE DEF f
<1>5. s \in Runs /\ s.phases = f /\ s.status = "running"
  BY <1>2, <1>3, <1>4 DEF Runs
<1> QED BY <1>4, <1>5 DEF IsTerminal, RunOver

\* What the methods change of a run that goes on: one phase, or none.
SameRun(s, r) == s \in Runs /\ s.status = r.status /\ s.summary = r.summary
Apart(s, r, p) ==
  /\ DOMAIN s.phases = DOMAIN r.phases
  /\ \A q \in DOMAIN r.phases : q # p => s.phases[q] = r.phases[q]

LEMMA PhaseStartedFacts ==
  ASSUME NEW r \in Runs, NEW p \in DOMAIN r.phases, NEW s, s = PhaseStarted(r, p)
  PROVE  /\ SameRun(s, r) /\ Apart(s, r, p)
         /\ s.phases[p].counts = r.phases[p].counts
<1>1. CASE ~Open(r, p)
  BY <1>1 DEF PhaseStarted, SameRun, Apart
<1>2. CASE Open(r, p)
  <2> DEFINE v == [r.phases[p] EXCEPT !.status = "running"]
             f == [r.phases EXCEPT ![p] = v]
  <2>1. s = [r EXCEPT !.phases = f]
    BY <1>2 DEF PhaseStarted
  <2>2. v \in View /\ v.counts = r.phases[p].counts
    BY PhaseFacts DEF View, PhaseStatuses
  <2> HIDE DEF v
  <2>3. f \in [PhaseIds -> View] \cup [{} -> View] /\ DOMAIN f = DOMAIN r.phases
    BY <2>2 DEF Runs
  <2>4. f[p] = v /\ \A q \in DOMAIN r.phases : q # p => f[q] = r.phases[q]
    OBVIOUS
  <2> HIDE DEF f
  <2>5. s \in Runs /\ s.phases = f /\ s.status = r.status /\ s.summary = r.summary
    BY <2>1, <2>3 DEF Runs
  <2> QED BY <2>2, <2>3, <2>4, <2>5 DEF SameRun, Apart
<1> QED BY <1>1, <1>2

LEMMA PhaseEndedFacts ==
  ASSUME NEW r \in Runs, ~IsTerminal(r), NEW p \in DOMAIN r.phases, NEW status \in PhaseOver,
         NEW c \in [completed : Nat, failed : Nat, skipped : Nat], NEW s, s = PhaseEnded(r, p, c, status)
  PROVE  /\ SameRun(s, r) /\ Apart(s, r, p)
         /\ s.phases[p].status \in PhaseOver
         /\ s.phases[p].counts = c \/ s.phases[p].counts = r.phases[p].counts
<1>1. CASE ~Open(r, p)
  <2>1. r.phases[p].status \in PhaseOver
    BY <1>1, PhaseFacts DEF Open, PhaseStatuses, PhaseOver
  <2> QED BY <1>1, <2>1 DEF PhaseEnded, SameRun, Apart
<1>2. CASE Open(r, p)
  <2> DEFINE v == [status |-> status, counts |-> c]
             f == [r.phases EXCEPT ![p] = v]
  <2>1. s = [r EXCEPT !.phases = f]
    BY <1>2 DEF PhaseEnded
  <2>2. v \in View /\ v.counts = c /\ v.status = status
    BY DEF View, PhaseStatuses, PhaseOver
  <2> HIDE DEF v
  <2>3. f \in [PhaseIds -> View] \cup [{} -> View] /\ DOMAIN f = DOMAIN r.phases
    BY <2>2 DEF Runs
  <2>4. f[p] = v /\ \A q \in DOMAIN r.phases : q # p => f[q] = r.phases[q]
    OBVIOUS
  <2> HIDE DEF f
  <2>5. s \in Runs /\ s.phases = f /\ s.status = r.status /\ s.summary = r.summary
    BY <2>1, <2>3 DEF Runs
  <2> QED BY <2>2, <2>3, <2>4, <2>5 DEF SameRun, Apart
<1> QED BY <1>1, <1>2

LEMMA PhasesClosedFacts ==
  ASSUME NEW r \in Runs, ~IsTerminal(r), NEW S, NEW status \in PhaseOver,
         NEW s, s = PhasesClosed(r, S, status)
  PROVE  /\ SameRun(s, r) /\ DOMAIN s.phases = DOMAIN r.phases
         /\ \A p \in DOMAIN r.phases :
              /\ s.phases[p].counts = r.phases[p].counts
              /\ p \in S \/ r.phases[p].status \in PhaseOver => s.phases[p].status \in PhaseOver
<1> DEFINE g(p) == IF p \in S /\ Open(r, p) THEN [r.phases[p] EXCEPT !.status = status] ELSE r.phases[p]
           f == [p \in DOMAIN r.phases |-> g(p)]
<1>1. s = [r EXCEPT !.phases = f]
  BY DEF PhasesClosed
<1>2. ASSUME NEW p \in DOMAIN r.phases
      PROVE  /\ g(p) \in View /\ g(p).counts = r.phases[p].counts
             /\ p \in S \/ r.phases[p].status \in PhaseOver => g(p).status \in PhaseOver
  <2>1. r.phases[p] \in View /\ r.phases[p].status \in PhaseStatuses
    BY PhaseFacts
  <2>2. CASE p \in S /\ Open(r, p)
    BY <2>1, <2>2 DEF View, PhaseStatuses, PhaseOver
  <2>3. CASE ~(p \in S /\ Open(r, p))
    BY <2>1, <2>3 DEF Open, PhaseStatuses, PhaseOver
  <2> QED BY <2>2, <2>3
<1> HIDE DEF g
<1>3. f \in [PhaseIds -> View] \cup [{} -> View] /\ DOMAIN f = DOMAIN r.phases
  BY <1>2 DEF Runs
<1>4. \A p \in DOMAIN r.phases : f[p] = g(p)
  OBVIOUS
<1> HIDE DEF f
<1>5. s \in Runs /\ s.phases = f /\ s.status = r.status /\ s.summary = r.summary
  BY <1>1, <1>3 DEF Runs
<1> QED BY <1>2, <1>3, <1>4, <1>5 DEF SameRun

LEMMA NotedFacts ==
  ASSUME NEW r \in Runs, ~IsTerminal(r), NEW summary \in {"report", "failed"}, NEW stop \in BOOLEAN,
         NEW s, s = Noted(r, summary, stop)
  PROVE  s \in Runs /\ s.status = r.status /\ s.phases = r.phases /\ s.summary = summary
BY DEF Noted, Runs

LEMMA RunEndedFacts ==
  ASSUME NEW r \in Runs, ~IsTerminal(r), NEW status \in RunOver, NEW s, s = RunEnded(r, status)
  PROVE  s \in Runs /\ s.status = status /\ IsTerminal(s) /\ s.phases = r.phases /\ s.summary = r.summary
BY DEF RunEnded, IsTerminal, Runs

LEMMA RunCancelledFacts ==
  ASSUME NEW r \in Runs, ~IsTerminal(r), NEW s, s = RunCancelled(r)
  PROVE  /\ s \in Runs /\ s.status = "cancelled" /\ IsTerminal(s)
         /\ \A p \in DOMAIN s.phases : s.phases[p].status \in PhaseOver
<1> DEFINE q == PhasesClosed(r, PhaseIds, "cancelled")
<1>1. /\ SameRun(q, r) /\ DOMAIN q.phases = DOMAIN r.phases
      /\ \A p \in DOMAIN r.phases : p \in PhaseIds => q.phases[p].status \in PhaseOver
  BY PhasesClosedFacts DEF PhaseOver
<1>2. q \in Runs /\ ~IsTerminal(q)
  BY <1>1 DEF SameRun, IsTerminal
<1>3. s = RunEnded(q, "cancelled")
  BY DEF RunCancelled
<1> HIDE DEF q
<1>4. s \in Runs /\ s.status = "cancelled" /\ IsTerminal(s) /\ s.phases = q.phases
  BY <1>2, <1>3, RunEndedFacts DEF RunOver
<1> QED BY <1>1, <1>4, PhaseFacts

-----------------------------------------------------------------------------
(* The steps of the task.                                                  *)

LEMMA AbsentFacts == Absent \notin Runs /\ ~IsTerminal(Absent) /\ Absent.status = "absent"
BY DEF Absent, Runs, IsTerminal, RunOver

\* A step of the task keeps the invariant if it leaves an ended run alone and keeps what is
\* known of one that goes on.
LEMMA TaskKeeps ==
  ASSUME IInv, TaskStep, pc \in Alive, pc' \in Alive, run' \in Runs, Carried',
         IsTerminal(run) => run' = run,
         ~IsTerminal(run) => Progress' /\ Closed'
  PROVE  IInv'
<1>1. Shape'
  BY AbsentFacts DEF IInv, Shape, TaskStep, clientVars, Alive
<1>2. Progress' /\ Closed'
  <2>1. CASE IsTerminal(run)
    BY <2>1 DEF IInv, Progress, Closed, IsTerminal, Over
  <2> QED BY <2>1
<1>3. Agreed'
  <2>1. \A r \in {disk, told} : r # Absent => IsTerminal(r) /\ r = run /\ run' = run
    BY DEF IInv, Agreed
  <2>2. pc # "none" /\ pc' # "none"
    BY DEF Alive, Working, BehindScope, BehindSearch, BehindExtract, BehindVerify, BehindAll, Failing
  <2> QED BY <2>1, <2>2 DEF IInv, Agreed, TaskStep, clientVars
<1> QED BY <1>1, <1>2, <1>3 DEF IInv

\* A run that goes on and is not about to fail has nothing to close.
LEMMA StillOpen ==
  ASSUME run' \in Runs, ~IsTerminal(run'), pc' # "ending"
  PROVE  Closed'
BY DEF Closed, IsTerminal, RunOver

\* The task gives up: it turns to the error it has.
LEMMA GivesUp ==
  ASSUME IInv, TaskStep, pc \in Alive, pc' = "failing", UNCHANGED <<run, found>>
  PROVE  IInv'
<1> USE DEF Alive, Failing, Working, BehindScope, BehindSearch, BehindExtract, BehindVerify, BehindAll
<1>1. run \in Runs
  BY DEF IInv, Shape
<1>2. Carried'
  BY DEF IInv, Carried, Unjudged
<1>3. Progress'
  BY DEF Progress
<1>4. ~IsTerminal(run) => Closed'
  BY <1>1, StillOpen DEF IsTerminal
<1> QED BY <1>1, <1>2, <1>3, <1>4, TaskKeeps

\* A run that goes on, with the task at work: all phases are declared, and no call was
\* skipped, unless the task is about to find out.
Unskipped == \A p \in Parallel : run.phases[p].counts.skipped = 0

LEMMA AtWork ==
  ASSUME IInv, pc \in Working, ~IsTerminal(run)
  PROVE  /\ run \in Runs /\ run.phases \in [PhaseIds -> View] /\ DOMAIN run.phases = PhaseIds
         /\ CanContinue \/ pc \notin {"endSearch", "endExtract", "endVerify"} => Unskipped
<1>1. run \in Runs
  BY DEF IInv, Shape, Alive
<1>2. run.phases \in [PhaseIds -> View]
  BY DEF IInv, Progress
<1>3. \A p \in Parallel : EndOf(p) \in {"endSearch", "endExtract", "endVerify"}
  BY DEF EndOf, Parallel
<1> QED BY <1>1, <1>2, <1>3 DEF IInv, Progress, Unskipped

\* The task starts a phase that does not lie behind it.
LEMMA PhaseStarts ==
  ASSUME IInv, TaskStep, UNCHANGED found, CanContinue, NEW p \in PhaseIds, run' = PhaseStarted(run, p),
         \/ pc = "scope" /\ pc' = "scoping" /\ p = "scope"
         \/ pc = "startSearch" /\ pc' = "search" /\ p = "search"
         \/ pc = "startExtract" /\ pc' = "extract" /\ p = "extract"
         \/ pc = "startVerify" /\ pc' = "verify" /\ p = "verify"
         \/ pc = "startSynthesize" /\ pc' = "synthesizing" /\ p = "synthesize"
  PROVE  IInv'
<1> USE DEF Alive, Working, BehindScope, BehindSearch, BehindExtract, BehindVerify, BehindAll
<1>1. pc \in Working /\ pc' \in Working /\ pc' \notin {"ending", "completing"}
  OBVIOUS
<1>2. Carried'
  BY DEF IInv, Carried, Unjudged
<1>3. CASE IsTerminal(run)
  <2>1. run' = run /\ run \in Runs
    BY <1>1, <1>3, EndedStays DEF IInv, Shape
  <2> QED BY <1>1, <1>2, <1>3, <2>1, TaskKeeps
<1>4. CASE ~IsTerminal(run)
  <2>1. run \in Runs /\ DOMAIN run.phases = PhaseIds /\ run.phases \in [PhaseIds -> View] /\ Unskipped
    BY <1>1, <1>4, AtWork
  <2>2. SameRun(run', run) /\ Apart(run', run, p) /\ run'.phases[p].counts = run.phases[p].counts
    BY <2>1, PhaseStartedFacts
  <2>3. /\ run' \in Runs /\ ~IsTerminal(run') /\ DOMAIN run'.phases = PhaseIds
        /\ \A q \in PhaseIds : q # p => run'.phases[q] = run.phases[q]
    BY <1>4, <2>1, <2>2 DEF SameRun, Apart, IsTerminal
  <2>4. run'.phases \in [PhaseIds -> View] /\ Unskipped'
    <3>1. run'.phases \in [PhaseIds -> View] \/ run'.phases \in [{} -> View]
      BY <2>3 DEF Runs
    <3>2. PhaseIds # {} /\ Parallel \subseteq PhaseIds
      BY DEF PhaseIds, Parallel
    <3>3. run'.phases \in [PhaseIds -> View]
      BY <2>3, <3>1, <3>2
    <3> QED BY <2>1, <2>2, <2>3, <3>2, <3>3 DEF Unskipped
  <2>5. Progress'
    BY <1>1, <1>4, <2>3, <2>4 DEF IInv, Progress, Unskipped, Over, PhaseIds
  <2>6. Closed'
    BY <1>1, <2>3, StillOpen
  <2> QED BY <1>1, <1>2, <1>4, <2>3, <2>5, <2>6, TaskKeeps
<1> QED BY <1>3, <1>4

\* A phase of the template ends with counts c.
LEMMA PhaseStops ==
  ASSUME IInv, TaskStep, Carried', NEW p \in PhaseIds, NEW status \in PhaseOver,
         NEW c \in [completed : Nat, failed : Nat, skipped : Nat],
         run' = PhaseEnded(run, p, c, status), p \in Parallel /\ c.skipped # 0 => ~CanContinue,
         \/ pc = "scoping" /\ pc' = "startSearch" /\ p = "scope"
         \/ pc = "search" /\ pc' = "endSearch" /\ p = "search"
         \/ pc = "extract" /\ pc' = "endExtract" /\ p = "extract"
         \/ pc = "verify" /\ pc' = "endVerify" /\ p = "verify"
         \/ pc = "synthesizing" /\ pc' = "endSynthesize" /\ p = "synthesize"
         \/ pc = "startSynthesize" /\ pc' = "reported" /\ p = "synthesize" /\ CanContinue
  PROVE  IInv'
<1> USE DEF Alive, Working, BehindScope, BehindSearch, BehindExtract, BehindVerify, BehindAll
<1>1. /\ pc \in Working /\ pc' \in Working /\ pc' \notin {"ending", "completing"}
      /\ p \in Parallel => pc' = EndOf(p)
  BY DEF EndOf, Parallel
<1>2. CASE IsTerminal(run)
  <2>1. run' = run /\ run \in Runs
    BY <1>1, <1>2, EndedStays DEF IInv, Shape
  <2> QED BY <1>1, <1>2, <2>1, TaskKeeps
<1>3. CASE ~IsTerminal(run)
  <2>1. run \in Runs /\ DOMAIN run.phases = PhaseIds /\ run.phases \in [PhaseIds -> View] /\ Unskipped
    BY <1>1, <1>3, AtWork
  <2>2. /\ SameRun(run', run) /\ Apart(run', run, p) /\ run'.phases[p].status \in PhaseOver
        /\ run'.phases[p].counts = c \/ run'.phases[p].counts = run.phases[p].counts
    BY <1>3, <2>1, PhaseEndedFacts
  <2>3. /\ run' \in Runs /\ ~IsTerminal(run') /\ DOMAIN run'.phases = PhaseIds
        /\ \A q \in PhaseIds : q # p => run'.phases[q] = run.phases[q]
    BY <1>3, <2>1, <2>2 DEF SameRun, Apart, IsTerminal
  <2>4. run'.phases \in [PhaseIds -> View]
    <3>1. run'.phases \in [PhaseIds -> View] \/ run'.phases \in [{} -> View]
      BY <2>3 DEF Runs
    <3> QED BY <2>3, <3>1 DEF PhaseIds
  <2>5. \A q \in Parallel : run'.phases[q].counts.skipped # 0 => pc' = EndOf(q) /\ ~CanContinue'
    <3> SUFFICES ASSUME NEW q \in Parallel, run'.phases[q].counts.skipped # 0
                 PROVE  pc' = EndOf(q) /\ ~CanContinue'
      OBVIOUS
    <3>1. q \in PhaseIds /\ run.phases[q].counts.skipped = 0
      BY <2>1 DEF Unskipped, Parallel, PhaseIds
    <3>2. q = p /\ c.skipped # 0
      BY <2>2, <2>3, <3>1
    <3> QED BY <1>1, <3>2 DEF CanContinue, TaskStep
  <2>6. Progress'
    BY <1>1, <1>3, <2>2, <2>3, <2>4, <2>5 DEF IInv, Progress, Over, PhaseIds
  <2>7. Closed'
    BY <1>1, <2>3, StillOpen
  <2> QED BY <1>1, <1>3, <2>3, <2>6, <2>7, TaskKeeps
<1> QED BY <1>2, <1>3

\* A check passes: the task goes on to what the phase left it.
LEMMA GoesOn ==
  ASSUME IInv, TaskStep, Carried', UNCHANGED run,
         \/ pc = "endSearch" /\ pc' = "startExtract" /\ CanContinue
         \/ pc = "endExtract" /\ pc' = "startVerify" /\ CanContinue
         \/ pc = "endVerify" /\ pc' = "startSynthesize" /\ CanContinue
         \/ pc = "endSynthesize" /\ pc' = "reported"
         \/ pc = "reported" /\ pc' = "recording"
  PROVE  IInv'
<1> USE DEF Alive, Working, BehindScope, BehindSearch, BehindExtract, BehindVerify, BehindAll
<1>1. pc \in Working /\ pc' \in Working /\ pc' \notin {"ending", "completing"}
  OBVIOUS
<1>2. run \in Runs
  BY <1>1 DEF IInv, Shape
<1>3. ASSUME ~IsTerminal(run) PROVE Progress' /\ Closed'
  <2>1. Unskipped /\ run.phases \in [PhaseIds -> View]
    BY <1>1, <1>3, AtWork
  <2>2. Progress'
    BY <1>1, <1>3, <2>1 DEF IInv, Progress, Over, Unskipped
  <2>3. Closed'
    BY <1>1, <1>2, <1>3, StillOpen DEF IsTerminal
  <2> QED BY <2>2, <2>3
<1> QED BY <1>1, <1>2, <1>3, TaskKeeps

\* The phases that are left are skipped, and the task has its report.
LEMMA SkipsTo ==
  ASSUME IInv, TaskStep, UNCHANGED found, CanContinue, NEW S, run' = SkipTo(run, S), pc' = "reported",
         \/ pc = "startExtract" /\ S = {"extract", "verify", "synthesize"}
         \/ pc = "startVerify" /\ S = {"verify", "synthesize"}
  PROVE  IInv'
<1> USE DEF Alive, Working, BehindScope, BehindSearch, BehindExtract, BehindVerify, BehindAll
<1>1. pc \in Working /\ pc' \in Working /\ pc' \notin {"ending", "completing"}
  OBVIOUS
<1>2. Carried'
  BY DEF IInv, Carried, Unjudged
<1>3. CASE IsTerminal(run)
  <2>1. run' = run /\ run \in Runs
    BY <1>1, <1>3, EndedStays DEF IInv, Shape, SkipTo
  <2> QED BY <1>1, <1>2, <1>3, <2>1, TaskKeeps
<1>4. CASE ~IsTerminal(run)
  <2>1. run \in Runs /\ DOMAIN run.phases = PhaseIds /\ run.phases \in [PhaseIds -> View] /\ Unskipped
    BY <1>1, <1>4, AtWork
  <2>2. /\ SameRun(run', run) /\ DOMAIN run'.phases = PhaseIds
        /\ \A p \in PhaseIds :
             /\ run'.phases[p].counts = run.phases[p].counts
             /\ p \in S \/ run.phases[p].status \in PhaseOver => run'.phases[p].status \in PhaseOver
    <3>1. run' = PhasesClosed(run, S, "skipped") /\ "skipped" \in PhaseOver
      BY DEF SkipTo, PhaseOver
    <3> QED BY <1>4, <2>1, <3>1, PhasesClosedFacts
  <2>3. run' \in Runs /\ ~IsTerminal(run')
    BY <1>4, <2>2 DEF SameRun, IsTerminal
  <2>4. run'.phases \in [PhaseIds -> View]
    <3>1. run'.phases \in [PhaseIds -> View] \/ run'.phases \in [{} -> View]
      BY <2>3 DEF Runs
    <3> QED BY <2>2, <3>1 DEF PhaseIds
  <2>5. \A p \in PhaseIds : run'.phases[p].status \in PhaseOver
    BY <1>4, <2>2 DEF IInv, Progress, Over, PhaseIds
  <2>6. \A p \in Parallel : run'.phases[p].counts.skipped = 0
    BY <2>1, <2>2 DEF Unskipped, Parallel, PhaseIds
  <2>7. Progress'
    BY <1>1, <2>4, <2>5, <2>6 DEF Progress, Over, PhaseIds
  <2>8. Closed'
    BY <1>1, <2>3, StillOpen
  <2> QED BY <1>1, <1>2, <1>4, <2>3, <2>7, <2>8, TaskKeeps
<1> QED BY <1>3, <1>4

\* The counts of a phase of parallel calls.
LEMMA ReportFacts ==
  ASSUME NEW n, NEW r \in PhaseReports(n, cancelled, over)
  PROVE  /\ Counts(r.completed, r.failed, r.skipped) \in [completed : Nat, failed : Nat, skipped : Nat]
         /\ Counts(r.completed, r.failed, r.skipped).skipped # 0 => ~CanContinue
         /\ r.phase \in PhaseOver
BY DEF PhaseReports, Counts, CanContinue

LEMMA RunPhaseKeeps ==
  ASSUME IInv, NEW p, NEW totals, NEW next, RunPhase(p, totals, next),
         \/ p = "search" /\ next = "endSearch"
         \/ p = "extract" /\ next = "endExtract"
         \/ p = "verify" /\ next = "endVerify"
  PROVE  IInv'
<1>1. PICK n \in totals : \E r \in PhaseReports(n, cancelled, over) :
        /\ run' = PhaseEnded(run, p, Counts(r.completed, r.failed, r.skipped), r.phase)
        /\ found' = [found EXCEPT !.report = Counts(r.completed, r.failed, r.skipped)]
  BY DEF RunPhase
<1>2. PICK r \in PhaseReports(n, cancelled, over) :
        /\ run' = PhaseEnded(run, p, Counts(r.completed, r.failed, r.skipped), r.phase)
        /\ found' = [found EXCEPT !.report = Counts(r.completed, r.failed, r.skipped)]
  BY <1>1
<1> DEFINE c == Counts(r.completed, r.failed, r.skipped)
<1>3. /\ c \in [completed : Nat, failed : Nat, skipped : Nat] /\ r.phase \in PhaseOver
      /\ c.skipped # 0 => ~CanContinue
  BY ReportFacts
<1> HIDE DEF c
<1>4. /\ pc = p /\ pc' = next /\ TaskStep /\ p \in PhaseIds
      /\ pc \in Unjudged /\ pc' \in Unjudged
  BY DEF RunPhase, PhaseIds, Unjudged, Working, BehindScope, BehindSearch, BehindExtract, BehindVerify,
         BehindAll
<1>5. Carried'
  <2>1. found' = [found EXCEPT !.report = c] /\ found \in Finds
    BY <1>2 DEF c, IInv, Carried
  <2>2. found' \in Finds /\ found'.killed = found.killed /\ found'.unverified = found.unverified
        /\ found'.claims = found.claims
    BY <1>3, <2>1 DEF Finds
  <2> QED BY <1>4, <2>2 DEF IInv, Carried
<1>6. run' = PhaseEnded(run, p, c, r.phase)
  BY <1>2 DEF c
<1> QED BY <1>3, <1>4, <1>5, <1>6, PhaseStops

LEMMA CountsType ==
  ASSUME NEW c \in Nat, NEW f \in Nat, NEW s \in Nat
  PROVE  Counts(c, f, s) \in [completed : Nat, failed : Nat, skipped : Nat]
BY DEF Counts

\* Every step of the template keeps the invariant.
LEMMA TemplateKeeps == ASSUME IInv, Template PROVE IInv'
<1> USE DEF Alive, Working, BehindScope, BehindSearch, BehindExtract, BehindVerify, BehindAll, Failing
<1>0. found \in Finds /\ (UNCHANGED found /\ (pc' \in Unjudged => pc \in Unjudged) => Carried')
  BY DEF IInv, Carried
<1>1. CASE Begin
  <2>1. pc = "spawned" /\ TaskStep /\ UNCHANGED found /\ run \in Runs /\ pc \in Unjudged
    BY <1>1 DEF Begin, IInv, Shape, Unjudged
  <2>2. Carried'
    BY <1>0, <2>1
  <2>3. CASE IsTerminal(run)
    <3>1. pc' = "returned" /\ run' = run
      BY <1>1, <2>3 DEF Begin
    <3> QED BY <2>1, <2>2, <2>3, <3>1, TaskKeeps
  <2>4. CASE ~IsTerminal(run)
    <3>1. pc' = "scope" /\ run' = Declared(Started(run))
      BY <1>1, <2>4 DEF Begin
    <3>2. /\ run' \in Runs /\ ~IsTerminal(run') /\ run'.phases \in [PhaseIds -> View]
          /\ \A p \in PhaseIds : run'.phases[p].counts.skipped = 0
      BY <2>1, <2>4, <3>1, BeginFacts
    <3>3. Progress'
      BY <3>1, <3>2 DEF Progress, Parallel, PhaseIds
    <3>4. Closed'
      BY <3>1, <3>2, StillOpen
    <3> QED BY <2>1, <2>2, <2>4, <3>1, <3>2, <3>3, <3>4, TaskKeeps
  <2> QED BY <2>3, <2>4
<1>2. CASE StopHere \/ ScopeFails \/ SearchFails
  <2>1. pc \in DOMAIN CheckedFor \cup {"scoping", "endSearch"}
    BY <1>2 DEF StopHere, ScopeFails, SearchFails
  <2>2. pc \in Alive
    BY <2>1 DEF CheckedFor
  <2> QED BY <1>2, <2>2, GivesUp DEF StopHere, ScopeFails, SearchFails, Raise
<1>3. CASE StartScope
  BY <1>3, PhaseStarts DEF StartScope, PhaseIds
<1>4. CASE ScopeEnds
  <2>1. Counts(1, 0, 0) \in [completed : Nat, failed : Nat, skipped : Nat] /\ "completed" \in PhaseOver
        /\ "scope" \in PhaseIds /\ "scope" \notin Parallel
    BY CountsType DEF PhaseOver, PhaseIds, Parallel
  <2>2. Carried'
    BY <1>0, <1>4 DEF ScopeEnds, Unjudged
  <2> QED BY <1>4, <2>1, <2>2, PhaseStops DEF ScopeEnds
<1>5. CASE StartSearch
  BY <1>5, PhaseStarts DEF StartSearch, PhaseIds
<1>6. CASE Search \/ Extract \/ Verify
  BY <1>6, RunPhaseKeeps DEF Search, Extract, Verify
<1>7. CASE EndSearch
  <2>1. PICK n \in 0 .. MaxSources : found' = [found EXCEPT !.sources = n]
    BY <1>7 DEF EndSearch
  <2>2. Carried'
    BY <1>0, <1>7, <2>1 DEF EndSearch, IInv, Carried, Finds, Unjudged
  <2> QED BY <1>7, <2>2, GoesOn DEF EndSearch
<1>8. CASE StartExtract
  <2>1. CASE found.sources = 0
    BY <1>8, <2>1, SkipsTo DEF StartExtract
  <2>2. CASE found.sources # 0
    BY <1>8, <2>2, PhaseStarts DEF StartExtract, PhaseIds
  <2> QED BY <2>1, <2>2
<1>9. CASE EndExtract
  <2>1. PICK n \in 0 .. MaxClaims : found' = [found EXCEPT !.claims = n]
    BY <1>9 DEF EndExtract
  <2>2. found.killed = 0 /\ found.unverified = 0
    BY <1>9 DEF EndExtract, IInv, Carried, Unjudged
  <2>3. found' \in Finds /\ found'.claims = n /\ found'.killed = 0 /\ found'.unverified = 0
    BY <1>0, <2>1, <2>2 DEF Finds
  <2>4. Carried'
    BY <2>3 DEF Carried
  <2> QED BY <1>9, <2>4, GoesOn DEF EndExtract
<1>10. CASE NoClaims
  <2>1. CASE AllExtractionsFailed
    BY <1>10, <2>1, GivesUp DEF NoClaims, Raise
  <2>2. CASE ~AllExtractionsFailed
    BY <1>10, <2>2, SkipsTo DEF NoClaims
  <2> QED BY <2>1, <2>2
<1>11. CASE StartVerify
  BY <1>11, PhaseStarts DEF StartVerify, PhaseIds
<1>12. CASE EndVerify
  <2>1. PICK v \in Verdicts(found.claims, found.report.completed) :
          found' = [found EXCEPT !.killed = v.killed, !.unverified = v.unverified]
    BY <1>12 DEF EndVerify
  <2>2. v.killed \in Nat /\ v.unverified \in Nat /\ v.killed + v.unverified <= found.claims
    BY DEF Verdicts
  <2>3. /\ found' \in Finds /\ found'.claims = found.claims
        /\ found'.killed = v.killed /\ found'.unverified = v.unverified
    BY <1>0, <2>1, <2>2 DEF Finds
  <2>4. Carried'
    BY <1>12, <2>2, <2>3 DEF Carried, EndVerify, Unjudged
  <2> QED BY <1>12, <2>4, GoesOn DEF EndVerify
<1>13. CASE StartSynthesize
  <2>1. CASE found.claims \in {found.killed, found.unverified}
    <3>1. Counts(0, 0, 1) \in [completed : Nat, failed : Nat, skipped : Nat] /\ "skipped" \in PhaseOver
          /\ "synthesize" \in PhaseIds /\ "synthesize" \notin Parallel
      BY CountsType DEF PhaseOver, PhaseIds, Parallel
    <3>2. Carried'
      BY <1>0, <1>13, <2>1 DEF StartSynthesize, Unjudged
    <3> QED BY <1>13, <2>1, <3>1, <3>2, PhaseStops DEF StartSynthesize
  <2>2. CASE found.claims \notin {found.killed, found.unverified}
    BY <1>13, <2>2, PhaseStarts DEF StartSynthesize, PhaseIds
  <2> QED BY <2>1, <2>2
<1>14. CASE Synthesized \/ SynthesisFails
  <2>1. PICK c \in {Counts(1, 0, 0), Counts(0, 0, 1)}, status \in {"completed", "skipped"} :
          run' = PhaseEnded(run, "synthesize", c, status)
    BY <1>14 DEF Synthesized, SynthesisFails
  <2>2. c \in [completed : Nat, failed : Nat, skipped : Nat]
    <3>1. /\ Counts(1, 0, 0) \in [completed : Nat, failed : Nat, skipped : Nat]
          /\ Counts(0, 0, 1) \in [completed : Nat, failed : Nat, skipped : Nat]
      BY CountsType
    <3> QED BY <3>1
  <2>3. status \in PhaseOver /\ "synthesize" \in PhaseIds /\ "synthesize" \notin Parallel
    BY DEF PhaseOver, PhaseIds, Parallel
  <2>4. Carried'
    BY <1>0, <1>14 DEF Synthesized, SynthesisFails, Unjudged
  <2> QED BY <1>14, <2>1, <2>2, <2>3, <2>4, PhaseStops DEF Synthesized, SynthesisFails
<1>15. CASE EndSynthesize
  <2>1. Carried'
    BY <1>0, <1>15 DEF EndSynthesize, Unjudged
  <2> QED BY <1>15, <2>1, GoesOn DEF EndSynthesize
<1> QED BY <1>1, <1>2, <1>3, <1>4, <1>5, <1>6, <1>7, <1>8, <1>9, <1>10, <1>11, <1>12, <1>13, <1>14, <1>15
        DEF Template

-----------------------------------------------------------------------------
(* What the task does with the outcome, the clients and the process.       *)

LEMMA EndingKeeps == ASSUME IInv, Ending PROVE IInv'
<1> USE DEF Alive, Working, BehindScope, BehindSearch, BehindExtract, BehindVerify, BehindAll, Failing
<1>0. UNCHANGED found /\ (pc' \in Unjudged => pc \in Unjudged) => Carried'
  BY DEF IInv, Carried
<1>1. /\ pc \in Alive /\ run \in Runs /\ UNCHANGED found /\ pc' \notin Unjudged /\ Carried'
  <2>1. pc \in Alive /\ UNCHANGED found /\ pc' \notin Unjudged
    BY DEF Ending, LookAtRun, RecordSuccess, CompleteRun, NoteFailure, ClosePhases, FailRun,
           CancelRun, PersistRun, Outcome, Unjudged
  <2> QED BY <1>0, <2>1 DEF IInv, Shape
<1>2. CASE LookAtRun
  <2>1. /\ TaskStep /\ run' = run
        /\ \/ pc \in {"reported", "failing"} /\ pc' = "returned" /\ IsTerminal(run)
           \/ pc = "reported" /\ pc' = "recording"
           \/ pc = "failing" /\ pc' = "noting"
    BY <1>2 DEF LookAtRun, Outcome
  <2>2. CASE pc' = "recording"
    BY <1>1, <2>1, <2>2, GoesOn
  <2>3. CASE pc' \in {"returned", "noting"}
    <3>1. Progress'
      BY <2>3 DEF Progress
    <3>2. ~IsTerminal(run) => Closed'
      BY <1>1, <2>1, <2>3, StillOpen DEF IsTerminal
    <3> QED BY <1>1, <2>1, <2>3, <3>1, <3>2, TaskKeeps
  <2> QED BY <2>1, <2>2, <2>3
<1>3. CASE RecordSuccess
  <2>1. TaskStep /\ pc = "recording" /\ pc' = "completing" /\ run' = Noted(run, "report", FALSE)
    BY <1>3 DEF RecordSuccess, Outcome
  <2>2. CASE IsTerminal(run)
    <3>1. run' = run
      BY <2>1, <2>2 DEF Noted
    <3> QED BY <1>1, <2>1, <2>2, <3>1, TaskKeeps
  <2>3. CASE ~IsTerminal(run)
    <3>1. run' \in Runs /\ run'.status = run.status /\ run'.phases = run.phases /\ run'.summary = "report"
      BY <1>1, <2>1, <2>3, NotedFacts
    <3>2. Unskipped /\ run.phases \in [PhaseIds -> View]
      BY <2>1, <2>3, AtWork
    <3>3. Progress'
      BY <2>1, <2>3, <3>1, <3>2 DEF IInv, Progress, Over, Unskipped
    <3>4. ~IsTerminal(run')
      BY <2>3, <3>1 DEF IsTerminal
    <3>5. Closed'
      BY <2>1, <3>1, <3>4, StillOpen
    <3> QED BY <1>1, <2>1, <2>3, <3>1, <3>3, <3>5, TaskKeeps
  <2> QED BY <2>2, <2>3
<1>4. CASE CompleteRun
  <2>1. TaskStep /\ pc = "completing" /\ pc' = "persisting" /\ run' = RunEnded(run, "completed")
    BY <1>4 DEF CompleteRun, Outcome
  <2>2. CASE IsTerminal(run)
    BY <1>1, <2>1, <2>2, EndedStays, TaskKeeps
  <2>3. CASE ~IsTerminal(run)
    <3>1. run' \in Runs /\ run'.phases = run.phases /\ run'.summary = run.summary
      BY <1>1, <2>1, <2>3, RunEndedFacts DEF RunOver
    <3>2. Unskipped /\ run.phases \in [PhaseIds -> View]
      BY <2>1, <2>3, AtWork
    <3>3. run.summary = "report" /\ \A p \in PhaseIds : Over(p)
      BY <2>1, <2>3 DEF IInv, Progress, PhaseIds
    <3>4. Closed'
      BY <3>1, <3>2, <3>3 DEF Closed, Over, Unskipped
    <3>5. Progress'
      BY <2>1 DEF Progress
    <3> QED BY <1>1, <2>1, <2>3, <3>1, <3>4, <3>5, TaskKeeps
  <2> QED BY <2>2, <2>3
<1>5. CASE NoteFailure
  <2>1. /\ TaskStep /\ pc = "noting" /\ pc' = "closing"
        /\ \E stop \in BOOLEAN : run' = Noted(run, "failed", stop)
    BY <1>5 DEF NoteFailure, Outcome
  <2>2. CASE IsTerminal(run)
    BY <1>1, <2>1, <2>2, EndedStays, TaskKeeps
  <2>3. CASE ~IsTerminal(run)
    <3>1. run' \in Runs /\ run'.status = run.status
      BY <1>1, <2>1, <2>3, NotedFacts
    <3>2. ~IsTerminal(run')
      BY <2>3, <3>1 DEF IsTerminal
    <3>3. Progress' /\ Closed'
      BY <2>1, <3>1, <3>2, StillOpen DEF Progress
    <3> QED BY <1>1, <2>1, <2>3, <3>1, <3>3, TaskKeeps
  <2> QED BY <2>2, <2>3
<1>6. CASE ClosePhases
  <2> DEFINE q == PhasesClosed(run, {error.phase}, "failed")
  <2>1. TaskStep /\ pc = "closing" /\ pc' = "ending" /\ run' = PhasesClosed(q, PhaseIds, "skipped")
    BY <1>6 DEF ClosePhases, Outcome
  <2>2. CASE IsTerminal(run)
    <3>1. run' = run
      BY <2>1, <2>2, EndedStays
    <3> QED BY <1>1, <2>1, <2>2, <3>1, TaskKeeps
  <2>3. CASE ~IsTerminal(run)
    <3>1. q \in Runs /\ ~IsTerminal(q)
      BY <1>1, <2>3, PhasesClosedFacts DEF SameRun, IsTerminal, PhaseOver
    <3> HIDE DEF q
    <3>2. /\ SameRun(run', q) /\ DOMAIN run'.phases = DOMAIN q.phases
          /\ \A p \in DOMAIN q.phases : p \in PhaseIds => run'.phases[p].status \in PhaseOver
      BY <2>1, <3>1, PhasesClosedFacts DEF PhaseOver
    <3>3. run' \in Runs /\ ~IsTerminal(run')
      BY <3>1, <3>2 DEF SameRun, IsTerminal
    <3>4. \A p \in DOMAIN run'.phases : run'.phases[p].status \in PhaseOver
      BY <3>1, <3>2, PhaseFacts
    <3>5. Progress'
      BY <2>1 DEF Progress
    <3>6. Closed'
      BY <3>3, <3>4 DEF Closed, Over, IsTerminal, RunOver
    <3> QED BY <1>1, <2>1, <2>3, <3>3, <3>5, <3>6, TaskKeeps
  <2> QED BY <2>2, <2>3
<1>7. CASE FailRun
  <2>1. TaskStep /\ pc = "ending" /\ pc' = "persisting" /\ run' = RunEnded(run, "failed")
    BY <1>7 DEF FailRun, Outcome
  <2>2. CASE IsTerminal(run)
    BY <1>1, <2>1, <2>2, EndedStays, TaskKeeps
  <2>3. CASE ~IsTerminal(run)
    <3>1. run' \in Runs /\ run'.phases = run.phases /\ run'.status = "failed"
      BY <1>1, <2>1, <2>3, RunEndedFacts DEF RunOver
    <3>2. Closed'
      BY <2>1, <3>1 DEF IInv, Closed, Over
    <3>3. Progress'
      BY <2>1 DEF Progress
    <3> QED BY <1>1, <2>1, <2>3, <3>1, <3>2, <3>3, TaskKeeps
  <2> QED BY <2>2, <2>3
<1>8. CASE CancelRun
  <2>1. TaskStep /\ pc = "failing" /\ pc' = "persisting" /\ run' = RunCancelled(run)
    BY <1>8 DEF CancelRun, Outcome
  <2>2. CASE IsTerminal(run)
    BY <1>1, <2>1, <2>2, EndedStays, TaskKeeps
  <2>3. CASE ~IsTerminal(run)
    <3>1. /\ run' \in Runs /\ run'.status = "cancelled"
          /\ \A p \in DOMAIN run'.phases : run'.phases[p].status \in PhaseOver
      BY <1>1, <2>1, <2>3, RunCancelledFacts
    <3>2. Closed'
      BY <3>1 DEF Closed, Over
    <3>3. Progress'
      BY <2>1 DEF Progress
    <3> QED BY <1>1, <2>1, <2>3, <3>1, <3>2, <3>3, TaskKeeps
  <2> QED BY <2>2, <2>3
<1>9. CASE PersistRun
  <2>1. /\ pc = "persisting" /\ pc' = "returned" /\ UNCHANGED <<run, cancelled, over, told, asking>>
        /\ disk' = disk \/ (IsTerminal(run) /\ disk' = run)
    BY <1>9 DEF PersistRun, clientVars
  <2>2. Shape'
    BY <1>1, <2>1 DEF IInv, Shape
  <2>3. Progress' /\ Closed'
    BY <2>1 DEF IInv, Progress, Closed, Over, IsTerminal
  <2>4. Agreed'
    BY <1>1, <2>1, AbsentFacts DEF IInv, Agreed, Closed, IsTerminal
  <2> QED BY <1>1, <2>2, <2>3, <2>4 DEF IInv
<1> QED BY <1>2, <1>3, <1>4, <1>5, <1>6, <1>7, <1>8, <1>9 DEF Ending

\* A step that leaves the run and its task where they are.
LEMMA InPlace ==
  ASSUME IInv, UNCHANGED <<run, pc, found>>, CanContinue' => CanContinue,
         cancelled' \in BOOLEAN, over' \in BOOLEAN
  PROVE  Carried' /\ Progress' /\ Closed'
BY DEF IInv, Carried, Progress, Closed, Over, IsTerminal, Unskipped

LEMMA StartKeeps == ASSUME IInv, StartWorkflow PROVE IInv'
<1> USE DEF Alive, Working, BehindScope, BehindSearch, BehindExtract, BehindVerify, BehindAll, Failing
<1>1. /\ pc = "none" /\ pc' = "spawned" /\ run' = NewRun
      /\ UNCHANGED <<disk, told, cancelled, over, found, asking>>
  BY DEF StartWorkflow, clientVars
<1>2. [p \in {} |-> 0] \in [{} -> View]
  OBVIOUS
<1>3. NewRun \in Runs /\ ~IsTerminal(NewRun)
  BY <1>2 DEF NewRun, Runs, IsTerminal, RunOver
<1>4. disk = Absent /\ told = Absent /\ \A c \in Clients : asking[c] = "idle"
  BY <1>1 DEF IInv, Agreed
<1>5. Shape'
  BY <1>1, <1>3 DEF IInv, Shape
<1>6. Carried' /\ Progress'
  BY <1>1 DEF IInv, Carried, Progress, Unjudged
<1>7. Closed'
  BY <1>1, <1>3, StillOpen
<1>8. Agreed'
  BY <1>1, <1>4, AbsentFacts DEF Agreed
<1> QED BY <1>5, <1>6, <1>7, <1>8 DEF IInv

LEMMA RunOutKeeps == ASSUME IInv, RunOut PROVE IInv'
<1>1. over' = TRUE /\ UNCHANGED <<run, disk, told, cancelled, pc, found, asking>>
  BY DEF RunOut, clientVars
<1>2. Shape' /\ Agreed'
  BY <1>1 DEF IInv, Shape, Agreed, IsTerminal
<1>3. Carried' /\ Progress' /\ Closed'
  BY <1>1, InPlace DEF CanContinue, IInv, Shape
<1> QED BY <1>2, <1>3 DEF IInv

LEMMA NothingFacts == NothingFound \in Finds /\ NothingFound.killed = 0 /\ NothingFound.unverified = 0
                      /\ NothingFound.claims = 0
<1>1. Idle \in [completed : Nat, failed : Nat, skipped : Nat]
  BY CountsType DEF Idle
<1>2. 0 \in 0 .. MaxSources /\ 0 \in 0 .. MaxClaims
  BY LimitsAssumption
<1> QED BY <1>1, <1>2 DEF NothingFound, Finds

LEMMA RestartKeeps == ASSUME IInv, Restart PROVE IInv'
<1> USE DEF Alive, Working, BehindScope, BehindSearch, BehindExtract, BehindVerify, BehindAll, Failing
<1>1. /\ run' = Absent /\ pc' = "gone" /\ cancelled' = FALSE /\ over' = FALSE /\ found' = NothingFound
      /\ asking' = [c \in Clients |-> "idle"] /\ UNCHANGED <<disk, told>>
  BY DEF Restart
<1>2. Shape'
  BY <1>1 DEF IInv, Shape
<1>3. Carried'
  BY <1>1, NothingFacts DEF Carried
<1>4. Progress' /\ Closed'
  BY <1>1, AbsentFacts DEF Progress, Closed
<1>5. Agreed'
  BY <1>1 DEF IInv, Agreed, IsTerminal
<1> QED BY <1>2, <1>3, <1>4, <1>5 DEF IInv

\* What a client is in the middle of.
LEMMA AskingMoves ==
  ASSUME IInv, NEW c \in Clients, NEW to \in {"idle", "signal", "mark", "view"},
         asking' = [asking EXCEPT ![c] = to], UNCHANGED pc, to # "idle" => pc \in Alive,
         to = "view" => IsTerminal(run'), IsTerminal(run) => IsTerminal(run')
  PROVE  /\ asking' \in [Clients -> {"idle", "signal", "mark", "view"}]
         /\ \A d \in Clients : /\ asking'[d] # "idle" => pc' \in Alive
                               /\ asking'[d] = "view" => IsTerminal(run')
<1>1. /\ asking \in [Clients -> {"idle", "signal", "mark", "view"}]
      /\ \A d \in Clients : /\ asking[d] # "idle" => pc \in Alive
                            /\ asking[d] = "view" => IsTerminal(run)
  BY DEF IInv, Shape, Agreed
<1>2. \A d \in Clients : asking'[d] = IF d = c THEN to ELSE asking[d]
  BY <1>1
<1> QED BY <1>1, <1>2

LEMMA ClientKeeps ==
  ASSUME IInv, NEW c \in Clients,
         Read(c) \/ AskCancel(c) \/ SignalCancel(c) \/ MarkCancelled(c) \/ AnswerCancel(c)
  PROVE  IInv'
<1>0. /\ UNCHANGED <<over, pc, found>> /\ (pc \in Alive <=> run # Absent)
      /\ (pc \in Alive => run \in Runs) /\ (run.status = "completed" => run.summary = "report")
      /\ asking[c] # "idle" => pc \in Alive
  BY AbsentFacts DEF IInv, Shape, Closed, Agreed, ClientStep,
                     Read, AskCancel, SignalCancel, MarkCancelled, AnswerCancel
<1>1. CASE Read(c)
  <2>1. /\ UNCHANGED <<run, disk, cancelled, asking>> /\ pc # "none"
        /\ \/ told' = told
           \/ run # Absent /\ told' = run /\ IsTerminal(run)
           \/ run = Absent /\ told' = disk /\ IsTerminal(disk)
    BY <1>1 DEF Read, Answered
  <2>2. Carried' /\ Progress' /\ Closed'
    BY <1>0, <2>1, InPlace DEF CanContinue, IInv, Shape
  <2>3. Shape'
    BY <1>0, <2>1 DEF IInv, Shape
  <2>4. CASE told' = told
    BY <1>0, <2>1, <2>2, <2>3, <2>4 DEF IInv, Agreed, IsTerminal
  <2>5. CASE run # Absent /\ told' = run /\ IsTerminal(run)
    BY <1>0, <2>1, <2>2, <2>3, <2>5 DEF IInv, Agreed, IsTerminal
  <2>6. CASE run = Absent /\ told' = disk /\ IsTerminal(disk)
    BY <1>0, <2>1, <2>2, <2>3, <2>6 DEF IInv, Agreed, IsTerminal
  <2> QED BY <2>1, <2>4, <2>5, <2>6
<1>2. CASE AskCancel(c) \/ SignalCancel(c)
  <2>1. /\ UNCHANGED <<run, disk, told>> /\ pc \in Alive
        /\ cancelled' = cancelled \/ cancelled' = TRUE
        /\ \E to \in {"view", "signal", "mark"} :
              asking' = [asking EXCEPT ![c] = to] /\ (to = "view" => IsTerminal(run))
    BY <1>0, <1>2 DEF AskCancel, SignalCancel
  <2>2. Carried' /\ Progress' /\ Closed'
    <3>1. cancelled \in BOOLEAN /\ over \in BOOLEAN /\ over' = over
      BY <1>0 DEF IInv, Shape
    <3>2. CASE cancelled' = cancelled
      BY <2>1, <3>1, <3>2, <1>0, InPlace DEF CanContinue
    <3>3. CASE cancelled' = TRUE
      <4>1. cancelled' \in BOOLEAN /\ over' \in BOOLEAN
        BY <3>1, <3>3
      <4>2. ~CanContinue'
        BY <3>3 DEF CanContinue
      <4> QED BY <1>0, <2>1, <4>1, <4>2, InPlace
    <3> QED BY <2>1, <3>2, <3>3
  <2>3. IsTerminal(run') <=> IsTerminal(run)
    BY <2>1 DEF IsTerminal
  <2>4. /\ asking' \in [Clients -> {"idle", "signal", "mark", "view"}]
        /\ \A d \in Clients : /\ asking'[d] # "idle" => pc' \in Alive
                              /\ asking'[d] = "view" => IsTerminal(run')
    BY <1>0, <2>1, <2>3, AskingMoves
  <2>5. Shape'
    BY <1>0, <2>1, <2>4 DEF IInv, Shape
  <2>6. Agreed'
    BY <1>0, <2>1, <2>4 DEF IInv, Agreed, IsTerminal
  <2> QED BY <2>2, <2>5, <2>6 DEF IInv
<1>3. CASE MarkCancelled(c)
  <2>1. /\ UNCHANGED <<disk, told, cancelled>> /\ pc \in Alive /\ run \in Runs
        /\ run' = RunCancelled(run) /\ asking' = [asking EXCEPT ![c] = "view"]
    BY <1>0, <1>3 DEF MarkCancelled
  <2>2. IsTerminal(run) => run' = run
    BY <2>1, EndedStays
  <2>3. ~IsTerminal(run) =>
          /\ run'.status = "cancelled" /\ \A p \in DOMAIN run'.phases : run'.phases[p].status \in PhaseOver
    BY <2>1, RunCancelledFacts
  <2>4. run' \in Runs /\ IsTerminal(run')
    BY <2>1, <2>2, RunCancelledFacts DEF IsTerminal
  <2>5. /\ asking' \in [Clients -> {"idle", "signal", "mark", "view"}]
        /\ \A d \in Clients : /\ asking'[d] # "idle" => pc' \in Alive
                              /\ asking'[d] = "view" => IsTerminal(run')
    BY <1>0, <2>1, <2>4, AskingMoves
  <2>6. Shape'
    BY <1>0, <2>1, <2>4, <2>5 DEF IInv, Shape
  <2>7. Carried' /\ Progress'
    BY <1>0, <2>4 DEF IInv, Carried, Progress
  <2>8. Closed'
    <3>1. CASE IsTerminal(run)
      BY <1>0, <2>2, <3>1 DEF IInv, Closed, Over, IsTerminal
    <3>2. CASE ~IsTerminal(run)
      BY <2>3, <3>2 DEF Closed, Over
    <3> QED BY <3>1, <3>2
  <2>9. \A r \in {disk, told} : r # Absent => r = run /\ IsTerminal(run) /\ run' = run
    BY <2>1, <2>2 DEF IInv, Agreed
  <2>10. Agreed'
    BY <1>0, <2>1, <2>4, <2>5, <2>9 DEF IInv, Agreed, Alive
  <2> QED BY <2>6, <2>7, <2>8, <2>10 DEF IInv
<1>4. CASE AnswerCancel(c)
  <2>1. /\ UNCHANGED <<run, cancelled>> /\ asking[c] = "view" /\ pc \in Alive /\ IsTerminal(run)
        /\ asking' = [asking EXCEPT ![c] = "idle"]
        /\ \/ disk' = run /\ told' = run
           \/ disk' = disk /\ told' = told
    BY <1>0, <1>4 DEF AnswerCancel, Answered, IInv, Agreed
  <2>2. Carried' /\ Progress' /\ Closed'
    BY <1>0, <2>1, InPlace DEF CanContinue, IInv, Shape
  <2>3. IsTerminal(run') <=> IsTerminal(run)
    BY <2>1 DEF IsTerminal
  <2>4. /\ asking' \in [Clients -> {"idle", "signal", "mark", "view"}]
        /\ \A d \in Clients : /\ asking'[d] # "idle" => pc' \in Alive
                              /\ asking'[d] = "view" => IsTerminal(run')
    BY <1>0, <2>1, <2>3, AskingMoves
  <2>5. Shape'
    BY <1>0, <2>1, <2>4 DEF IInv, Shape
  <2>6. CASE disk' = run /\ told' = run
    <3>1. Agreed'
      BY <1>0, <2>1, <2>4, <2>6 DEF Agreed, Alive, Working, Failing, BehindScope, BehindSearch,
                                    BehindExtract, BehindVerify, BehindAll
    <3> QED BY <2>2, <2>5, <3>1 DEF IInv
  <2>7. CASE disk' = disk /\ told' = told
    <3>1. Agreed'
      BY <1>0, <2>1, <2>4, <2>7 DEF IInv, Agreed, IsTerminal
    <3> QED BY <2>2, <2>5, <3>1 DEF IInv
  <2> QED BY <2>1, <2>6, <2>7
<1> QED BY <1>1, <1>2, <1>3, <1>4

LEMMA InitIInv == Init => IInv
<1> SUFFICES ASSUME Init PROVE IInv
  OBVIOUS
<1> USE DEF Alive, Working, BehindScope, BehindSearch, BehindExtract, BehindVerify, BehindAll, Failing
<1>1. Shape
  BY DEF Init, Shape
<1>2. Carried
  BY NothingFacts DEF Init, Carried
<1>3. Progress /\ Closed
  BY AbsentFacts DEF Init, Progress, Closed
<1>4. Agreed
  BY AbsentFacts DEF Init, Agreed
<1> QED BY <1>1, <1>2, <1>3, <1>4 DEF IInv

LEMMA StutterIInv == ASSUME IInv, UNCHANGED vars PROVE IInv'
<1>1. UNCHANGED <<run, disk, cancelled, over, pc, found, asking, told>>
  BY DEF vars
<1>2. Carried' /\ Progress' /\ Closed'
  BY <1>1, InPlace DEF CanContinue, IInv, Shape
<1>3. Shape' /\ Agreed'
  BY <1>1 DEF IInv, Shape, Agreed, IsTerminal
<1> QED BY <1>2, <1>3 DEF IInv

LEMMA NextIInv == IInv /\ [Next]_vars => IInv'
BY StartKeeps, RunOutKeeps, TemplateKeeps, EndingKeeps, RestartKeeps, ClientKeeps, StutterIInv DEF Next

LEMMA Inductive == Spec => []IInv
BY InitIInv, NextIInv, PTL DEF Spec

-----------------------------------------------------------------------------
LEMMA RunsAreRuns ==
  ASSUME NEW r \in Runs \cup {Absent}, r.status = "completed" => r.summary = "report"
  PROVE  IsRun(r)
<1>1. CASE r = Absent
  BY <1>1 DEF IsRun
<1>2. CASE r \in Runs
  <2>1. DOMAIN r.phases \in {{}, PhaseIds} /\ \A p \in DOMAIN r.phases : r.phases[p] \in PhaseViews
    BY <1>2 DEF Runs, View, PhaseViews
  <2> QED BY <1>2, <2>1 DEF IsRun, Runs
<1> QED BY <1>1, <1>2

(* The shape of the state of a run, of what is on disk and of what a       *)
(* client was told: a completed run has its report, only an ended run is   *)
(* written, and the verdicts do not outnumber the claims                   *)
(* (workflow_processor.rs:224-228, deep_search.rs:1276-1317).              *)
THEOREM TypeCorrect == Spec => []TypeOK
<1>1. IInv => TypeOK
  <2> SUFFICES ASSUME IInv PROVE TypeOK
    OBVIOUS
  <2>1. run \in Runs \cup {Absent} /\ disk \in Runs \cup {Absent} /\ told \in Runs \cup {Absent}
    BY DEF IInv, Shape
  <2>2. IsRun(run) /\ IsRun(disk) /\ IsRun(told)
    BY <2>1, RunsAreRuns DEF IInv, Closed, Agreed
  <2> QED BY <2>2 DEF TypeOK, IInv, Shape, Carried, Finds, Agreed
<1> QED BY <1>1, Inductive, PTL

(* A step changes what a client was last told only while nothing has been  *)
(* told: an ended run is told once and for all, across the task's last     *)
(* steps, racing cancels and a restart of the process (runtime.rs:186-450, *)
(* workflow_processor.rs:325-398).                                         *)
THEOREM AnswersAgreeAlways == Spec => AnswersAgree
<1>1. IInv /\ IInv' /\ [Next]_vars => (told # Absent => told' = told)
  <2> SUFFICES ASSUME IInv, IInv', [Next]_vars, told # Absent PROVE told' = told
    OBVIOUS
  <2>1. CASE StartWorkflow \/ RunOut \/ Restart \/ UNCHANGED vars
    BY <2>1 DEF StartWorkflow, RunOut, Restart, clientVars, vars
  <2>2. CASE Template
    BY <2>2 DEF Template, TaskStep, clientVars, Begin, StopHere, StartScope, ScopeFails, ScopeEnds,
       StartSearch, Search, RunPhase, SearchFails, EndSearch, StartExtract, Extract, EndExtract, NoClaims,
       StartVerify, Verify, EndVerify, StartSynthesize, Synthesized, SynthesisFails, EndSynthesize
  <2>3. CASE Ending
    BY <2>3 DEF Ending, LookAtRun, RecordSuccess, CompleteRun, NoteFailure, ClosePhases, FailRun,
       CancelRun, PersistRun, Outcome, TaskStep, clientVars
  <2>4. ASSUME NEW c \in Clients,
               Read(c) \/ AskCancel(c) \/ SignalCancel(c) \/ MarkCancelled(c) \/ AnswerCancel(c)
        PROVE  told' = told
    <3>1. /\ told \in Runs
          /\ disk # Absent => disk = told
          /\ run # Absent => told = run
      BY DEF IInv, Shape, Agreed
    <3>2. /\ run = Absent => ~IsTerminal(run)
          /\ disk = Absent => ~IsTerminal(disk)
      BY AbsentFacts
    <3>3. asking[c] = "view" => run # Absent
      BY AbsentFacts DEF IInv, Shape, Agreed
    <3>4. CASE Read(c)
      BY <3>1, <3>2, <3>4 DEF Read, Answered
    <3>5. CASE AnswerCancel(c)
      BY <3>1, <3>2, <3>5 DEF AnswerCancel, Answered
    <3>6. CASE AskCancel(c) \/ SignalCancel(c) \/ MarkCancelled(c)
      BY <3>6 DEF AskCancel, SignalCancel, MarkCancelled
    <3> QED BY <2>4, <3>4, <3>5, <3>6
  <2> QED BY <2>1, <2>2, <2>3, <2>4 DEF Next
<1> QED BY <1>1, Inductive, PTL DEF Spec, AnswersAgree

(* A phase of parallel calls that skipped one of them stops the task at    *)
(* the check that follows it, so no run is completed over a skipped call   *)
(* (deep_search.rs:613-620, 687-690, 793-797, 896).                        *)
THEOREM NothingSkipped == Spec => []CompletedSkippedNothing
<1>1. IInv => CompletedSkippedNothing
  BY DEF IInv, Closed, CompletedSkippedNothing, Parallel
<1> QED BY <1>1, Inductive, PTL

(* Every phase is over once its run has ended and when the counts of a     *)
(* success are projected, whichever of the task, a failure and a cancel    *)
(* ended them (workflow_processor.rs:586-716).                             *)
THEOREM PhasesEnd == Spec => []PhasesEndWithRun
<1>1. IInv => PhasesEndWithRun
  <2> SUFFICES ASSUME IInv, IsTerminal(run) \/ pc = "completing"
               PROVE  \A p \in DOMAIN run.phases : run.phases[p].status \in PhaseOver
    BY DEF PhasesEndWithRun
  <2>1. CASE IsTerminal(run)
    BY <2>1 DEF IInv, Closed, Over
  <2>2. CASE pc = "completing" /\ ~IsTerminal(run)
    <3>1. pc \in Working /\ pc \in BehindAll /\ pc \in BehindVerify /\ pc \in BehindExtract
          /\ pc \in BehindSearch /\ pc \in BehindScope
      BY <2>2 DEF Working, BehindScope, BehindSearch, BehindExtract, BehindVerify, BehindAll
    <3> QED BY <2>2, <3>1 DEF IInv, Progress, Over, PhaseIds
  <2> QED BY <2>1, <2>2
<1> QED BY <1>1, Inductive, PTL

-----------------------------------------------------------------------------
(* The scheduler of one phase, whose variables are its own.                *)

(* The counters add up at every step, and each way to stop scheduling      *)
(* accounts at once for all that is left.                                  *)
Counted ==
  /\ completed + failed + InSet = calls
  /\ finished => calls + skipped = Total
  /\ ~finished => calls = taken /\ skipped = 0
  /\ skipped > 0 => cancelFlag \/ stopped
  /\ published = CountsOf(completed, failed, skipped)

(* What is known at each place of the loop.                                *)
Placed ==
  /\ place = "pick" => ~finished /\ InSet < MaxConcurrency /\ late = 0
  /\ place = "join" => finished \/ InSet >= MaxConcurrency
  /\ place \in {"poll", "listen"} => ~finished
  /\ listening => place = "wait" /\ ~finished
  /\ notifying => cancelFlag
  /\ woken => listening /\ cancelFlag
  /\ place \in {"end", "done"} => finished /\ InSet = 0
  /\ ~cancelFlag => late = 0
  /\ late <= 1

(* The status, once given, agrees with the counters.                       *)
Shown ==
  place = "done" =>
    /\ phase = "completed" => failed = 0 /\ skipped = 0
    /\ skipped > 0 => phase \in {"cancelled", "failed"}

SchedIInv == PhaseTypeOK /\ Counted /\ Placed /\ Shown

(* The invariant holds when a phase starts (scheduler.rs:196-218).         *)
LEMMA InitSchedIInv == PhaseInit => SchedIInv
<1> SUFFICES ASSUME PhaseInit PROVE SchedIInv
  OBVIOUS
<1> USE TotalAssumption, MaxConcurrencyAssumption DEF PhaseInit, InSet, CountsOf
<1>1. NumbersOK
  BY DEF NumbersOK
<1>2. FlagsOK
  BY DEF FlagsOK
<1>3. PlacesOK
  BY DEF PlacesOK
<1>4. Counted
  BY DEF Counted
<1>5. Placed
  BY DEF Placed
<1>6. Shown
  BY DEF Shown
<1> QED
  BY <1>1, <1>2, <1>3, <1>4, <1>5, <1>6 DEF SchedIInv, PhaseTypeOK

(* Every step of the scheduler, of its tasks and of its surroundings keeps *)
(* the invariant.                                                          *)
LEMMA NextSchedIInv == SchedIInv /\ [PhaseNext]_phaseVars => SchedIInv'
<1> SUFFICES ASSUME SchedIInv, [PhaseNext]_phaseVars PROVE SchedIInv'
  OBVIOUS
<1> USE TotalAssumption, MaxConcurrencyAssumption DEF InSet, CountsOf, Remaining, counts, tasks,
    control, signal, sink
<1>1. CASE Cancel
  <2> USE <1>1 DEF Cancel
  <2>1. NumbersOK'
    BY DEF SchedIInv, PhaseTypeOK, NumbersOK, FlagsOK, Counted, Placed
  <2>2. FlagsOK'
    BY DEF SchedIInv, PhaseTypeOK, FlagsOK
  <2>3. PlacesOK'
    BY DEF SchedIInv, PhaseTypeOK, PlacesOK
  <2>4. Counted'
    BY DEF SchedIInv, PhaseTypeOK, NumbersOK, FlagsOK, Counted, Placed
  <2>5. Placed'
    BY DEF SchedIInv, PhaseTypeOK, NumbersOK, FlagsOK, Counted, Placed
  <2>6. Shown'
    BY DEF SchedIInv, PhaseTypeOK, NumbersOK, Counted, Placed, Shown
  <2> QED
    BY <2>1, <2>2, <2>3, <2>4, <2>5, <2>6 DEF SchedIInv, PhaseTypeOK
<1>2. CASE NotifyWaiters
  <2> USE <1>2 DEF NotifyWaiters
  <2>1. NumbersOK'
    BY DEF SchedIInv, PhaseTypeOK, NumbersOK, FlagsOK, Counted, Placed
  <2>2. FlagsOK'
    BY DEF SchedIInv, PhaseTypeOK, FlagsOK
  <2>3. PlacesOK'
    BY DEF SchedIInv, PhaseTypeOK, PlacesOK
  <2>4. Counted'
    BY DEF SchedIInv, PhaseTypeOK, NumbersOK, FlagsOK, Counted, Placed
  <2>5. Placed'
    BY DEF SchedIInv, PhaseTypeOK, NumbersOK, FlagsOK, Counted, Placed
  <2>6. Shown'
    BY DEF SchedIInv, PhaseTypeOK, NumbersOK, Counted, Placed, Shown
  <2> QED
    BY <2>1, <2>2, <2>3, <2>4, <2>5, <2>6 DEF SchedIInv, PhaseTypeOK
<1>3. CASE BudgetEnds
  <2> USE <1>3 DEF BudgetEnds
  <2>1. NumbersOK'
    BY DEF SchedIInv, PhaseTypeOK, NumbersOK, FlagsOK, Counted, Placed
  <2>2. FlagsOK'
    BY DEF SchedIInv, PhaseTypeOK, FlagsOK
  <2>3. PlacesOK'
    BY DEF SchedIInv, PhaseTypeOK, PlacesOK
  <2>4. Counted'
    BY DEF SchedIInv, PhaseTypeOK, NumbersOK, FlagsOK, Counted, Placed
  <2>5. Placed'
    BY DEF SchedIInv, PhaseTypeOK, NumbersOK, FlagsOK, Counted, Placed
  <2>6. Shown'
    BY DEF SchedIInv, PhaseTypeOK, NumbersOK, Counted, Placed, Shown
  <2> QED
    BY <2>1, <2>2, <2>3, <2>4, <2>5, <2>6 DEF SchedIInv, PhaseTypeOK
<1>4. CASE TaskEnds
  <2> USE <1>4 DEF TaskEnds
  <2>1. NumbersOK'
    BY DEF SchedIInv, PhaseTypeOK, NumbersOK, FlagsOK, Counted, Placed
  <2>2. FlagsOK'
    BY DEF SchedIInv, PhaseTypeOK, FlagsOK
  <2>3. PlacesOK'
    BY DEF SchedIInv, PhaseTypeOK, PlacesOK
  <2>4. Counted'
    BY DEF SchedIInv, PhaseTypeOK, NumbersOK, FlagsOK, Counted, Placed
  <2>5. Placed'
    BY DEF SchedIInv, PhaseTypeOK, NumbersOK, FlagsOK, Counted, Placed
  <2>6. Shown'
    BY DEF SchedIInv, PhaseTypeOK, NumbersOK, Counted, Placed, Shown
  <2> QED
    BY <2>1, <2>2, <2>3, <2>4, <2>5, <2>6 DEF SchedIInv, PhaseTypeOK
<1>5. CASE CheckCancelled
  <2> USE <1>5 DEF CheckCancelled, SkipRest, Publish
  <2>1. NumbersOK'
    BY DEF SchedIInv, PhaseTypeOK, NumbersOK, FlagsOK, Counted, Placed
  <2>2. FlagsOK'
    BY DEF SchedIInv, PhaseTypeOK, FlagsOK
  <2>3. PlacesOK'
    BY DEF SchedIInv, PhaseTypeOK, PlacesOK
  <2>4. Counted'
    BY DEF SchedIInv, PhaseTypeOK, NumbersOK, FlagsOK, Counted, Placed
  <2>5. Placed'
    BY DEF SchedIInv, PhaseTypeOK, NumbersOK, FlagsOK, Counted, Placed
  <2>6. Shown'
    BY DEF SchedIInv, PhaseTypeOK, NumbersOK, Counted, Placed, Shown
  <2> QED
    BY <2>1, <2>2, <2>3, <2>4, <2>5, <2>6 DEF SchedIInv, PhaseTypeOK
<1>6. CASE PickNone
  <2> USE <1>6 DEF PickNone
  <2>1. NumbersOK'
    BY DEF SchedIInv, PhaseTypeOK, NumbersOK, FlagsOK, Counted, Placed
  <2>2. FlagsOK'
    BY DEF SchedIInv, PhaseTypeOK, FlagsOK
  <2>3. PlacesOK'
    BY DEF SchedIInv, PhaseTypeOK, PlacesOK
  <2>4. Counted'
    BY DEF SchedIInv, PhaseTypeOK, NumbersOK, FlagsOK, Counted, Placed
  <2>5. Placed'
    BY DEF SchedIInv, PhaseTypeOK, NumbersOK, FlagsOK, Counted, Placed
  <2>6. Shown'
    BY DEF SchedIInv, PhaseTypeOK, NumbersOK, Counted, Placed, Shown
  <2> QED
    BY <2>1, <2>2, <2>3, <2>4, <2>5, <2>6 DEF SchedIInv, PhaseTypeOK
<1>7. CASE PickRefused
  <2> USE <1>7 DEF PickRefused, Publish
  <2>1. NumbersOK'
    BY DEF SchedIInv, PhaseTypeOK, NumbersOK, FlagsOK, Counted, Placed
  <2>2. FlagsOK'
    BY DEF SchedIInv, PhaseTypeOK, FlagsOK
  <2>3. PlacesOK'
    BY DEF SchedIInv, PhaseTypeOK, PlacesOK
  <2>4. Counted'
    BY DEF SchedIInv, PhaseTypeOK, NumbersOK, FlagsOK, Counted, Placed
  <2>5. Placed'
    BY DEF SchedIInv, PhaseTypeOK, NumbersOK, FlagsOK, Counted, Placed
  <2>6. Shown'
    BY DEF SchedIInv, PhaseTypeOK, NumbersOK, Counted, Placed, Shown
  <2> QED
    BY <2>1, <2>2, <2>3, <2>4, <2>5, <2>6 DEF SchedIInv, PhaseTypeOK
<1>8. CASE Spawn
  <2> USE <1>8 DEF Spawn
  <2>1. NumbersOK'
    BY DEF SchedIInv, PhaseTypeOK, NumbersOK, FlagsOK, Counted, Placed
  <2>2. FlagsOK'
    BY DEF SchedIInv, PhaseTypeOK, FlagsOK
  <2>3. PlacesOK'
    BY DEF SchedIInv, PhaseTypeOK, PlacesOK
  <2>4. Counted'
    BY DEF SchedIInv, PhaseTypeOK, NumbersOK, FlagsOK, Counted, Placed
  <2>5. Placed'
    BY DEF SchedIInv, PhaseTypeOK, NumbersOK, FlagsOK, Counted, Placed
  <2>6. Shown'
    BY DEF SchedIInv, PhaseTypeOK, NumbersOK, Counted, Placed, Shown
  <2> QED
    BY <2>1, <2>2, <2>3, <2>4, <2>5, <2>6 DEF SchedIInv, PhaseTypeOK
<1>9. CASE Full
  <2> USE <1>9 DEF Full
  <2>1. NumbersOK'
    BY DEF SchedIInv, PhaseTypeOK, NumbersOK, FlagsOK, Counted, Placed
  <2>2. FlagsOK'
    BY DEF SchedIInv, PhaseTypeOK, FlagsOK
  <2>3. PlacesOK'
    BY DEF SchedIInv, PhaseTypeOK, PlacesOK
  <2>4. Counted'
    BY DEF SchedIInv, PhaseTypeOK, NumbersOK, FlagsOK, Counted, Placed
  <2>5. Placed'
    BY DEF SchedIInv, PhaseTypeOK, NumbersOK, FlagsOK, Counted, Placed
  <2>6. Shown'
    BY DEF SchedIInv, PhaseTypeOK, NumbersOK, Counted, Placed, Shown
  <2> QED
    BY <2>1, <2>2, <2>3, <2>4, <2>5, <2>6 DEF SchedIInv, PhaseTypeOK
<1>10. CASE Join
  <2> USE <1>10 DEF Join
  <2>1. NumbersOK'
    BY DEF SchedIInv, PhaseTypeOK, NumbersOK, FlagsOK, Counted, Placed
  <2>2. FlagsOK'
    BY DEF SchedIInv, PhaseTypeOK, FlagsOK
  <2>3. PlacesOK'
    BY DEF SchedIInv, PhaseTypeOK, PlacesOK
  <2>4. Counted'
    BY DEF SchedIInv, PhaseTypeOK, NumbersOK, FlagsOK, Counted, Placed
  <2>5. Placed'
    BY DEF SchedIInv, PhaseTypeOK, NumbersOK, FlagsOK, Counted, Placed
  <2>6. Shown'
    BY DEF SchedIInv, PhaseTypeOK, NumbersOK, Counted, Placed, Shown
  <2> QED
    BY <2>1, <2>2, <2>3, <2>4, <2>5, <2>6 DEF SchedIInv, PhaseTypeOK
<1>11. CASE PollFlag
  <2> USE <1>11 DEF PollFlag
  <2>1. NumbersOK'
    BY DEF SchedIInv, PhaseTypeOK, NumbersOK, FlagsOK, Counted, Placed
  <2>2. FlagsOK'
    BY DEF SchedIInv, PhaseTypeOK, FlagsOK
  <2>3. PlacesOK'
    BY DEF SchedIInv, PhaseTypeOK, PlacesOK
  <2>4. Counted'
    BY DEF SchedIInv, PhaseTypeOK, NumbersOK, FlagsOK, Counted, Placed
  <2>5. Placed'
    BY DEF SchedIInv, PhaseTypeOK, NumbersOK, FlagsOK, Counted, Placed
  <2>6. Shown'
    BY DEF SchedIInv, PhaseTypeOK, NumbersOK, Counted, Placed, Shown
  <2> QED
    BY <2>1, <2>2, <2>3, <2>4, <2>5, <2>6 DEF SchedIInv, PhaseTypeOK
<1>12. CASE Listen
  <2> USE <1>12 DEF Listen
  <2>1. NumbersOK'
    BY DEF SchedIInv, PhaseTypeOK, NumbersOK, FlagsOK, Counted, Placed
  <2>2. FlagsOK'
    BY DEF SchedIInv, PhaseTypeOK, FlagsOK
  <2>3. PlacesOK'
    BY DEF SchedIInv, PhaseTypeOK, PlacesOK
  <2>4. Counted'
    BY DEF SchedIInv, PhaseTypeOK, NumbersOK, FlagsOK, Counted, Placed
  <2>5. Placed'
    BY DEF SchedIInv, PhaseTypeOK, NumbersOK, FlagsOK, Counted, Placed
  <2>6. Shown'
    BY DEF SchedIInv, PhaseTypeOK, NumbersOK, Counted, Placed, Shown
  <2> QED
    BY <2>1, <2>2, <2>3, <2>4, <2>5, <2>6 DEF SchedIInv, PhaseTypeOK
<1>13. CASE SeeCancel
  <2> USE <1>13 DEF SeeCancel, SkipRest, Publish
  <2>1. NumbersOK'
    BY DEF SchedIInv, PhaseTypeOK, NumbersOK, FlagsOK, Counted, Placed
  <2>2. FlagsOK'
    BY DEF SchedIInv, PhaseTypeOK, FlagsOK
  <2>3. PlacesOK'
    BY DEF SchedIInv, PhaseTypeOK, PlacesOK
  <2>4. Counted'
    BY DEF SchedIInv, PhaseTypeOK, NumbersOK, FlagsOK, Counted, Placed
  <2>5. Placed'
    BY DEF SchedIInv, PhaseTypeOK, NumbersOK, FlagsOK, Counted, Placed
  <2>6. Shown'
    BY DEF SchedIInv, PhaseTypeOK, NumbersOK, Counted, Placed, Shown
  <2> QED
    BY <2>1, <2>2, <2>3, <2>4, <2>5, <2>6 DEF SchedIInv, PhaseTypeOK
<1>14. CASE JoinOutput
  <2> USE <1>14 DEF JoinOutput, Joining, SkipRest, Publish
  <2>1. NumbersOK'
    BY DEF SchedIInv, PhaseTypeOK, NumbersOK, FlagsOK, Counted, Placed
  <2>2. FlagsOK'
    BY DEF SchedIInv, PhaseTypeOK, FlagsOK
  <2>3. PlacesOK'
    BY DEF SchedIInv, PhaseTypeOK, PlacesOK
  <2>4. Counted'
    BY DEF SchedIInv, PhaseTypeOK, NumbersOK, FlagsOK, Counted, Placed
  <2>5. Placed'
    BY DEF SchedIInv, PhaseTypeOK, NumbersOK, FlagsOK, Counted, Placed
  <2>6. Shown'
    BY DEF SchedIInv, PhaseTypeOK, NumbersOK, Counted, Placed, Shown
  <2> QED
    BY <2>1, <2>2, <2>3, <2>4, <2>5, <2>6 DEF SchedIInv, PhaseTypeOK
<1>15. CASE JoinFailure
  <2> USE <1>15 DEF JoinFailure, Joining, Publish
  <2>1. NumbersOK'
    BY DEF SchedIInv, PhaseTypeOK, NumbersOK, FlagsOK, Counted, Placed
  <2>2. FlagsOK'
    BY DEF SchedIInv, PhaseTypeOK, FlagsOK
  <2>3. PlacesOK'
    BY DEF SchedIInv, PhaseTypeOK, PlacesOK
  <2>4. Counted'
    BY DEF SchedIInv, PhaseTypeOK, NumbersOK, FlagsOK, Counted, Placed
  <2>5. Placed'
    BY DEF SchedIInv, PhaseTypeOK, NumbersOK, FlagsOK, Counted, Placed
  <2>6. Shown'
    BY DEF SchedIInv, PhaseTypeOK, NumbersOK, Counted, Placed, Shown
  <2> QED
    BY <2>1, <2>2, <2>3, <2>4, <2>5, <2>6 DEF SchedIInv, PhaseTypeOK
<1>16. CASE End
  <2> USE <1>16 DEF End, PhaseOutcome
  <2>1. NumbersOK'
    BY DEF SchedIInv, PhaseTypeOK, NumbersOK, FlagsOK, Counted, Placed
  <2>2. FlagsOK'
    BY DEF SchedIInv, PhaseTypeOK, FlagsOK
  <2>3. PlacesOK'
    BY DEF SchedIInv, PhaseTypeOK, PlacesOK
  <2>4. Counted'
    BY DEF SchedIInv, PhaseTypeOK, NumbersOK, FlagsOK, Counted, Placed
  <2>5. Placed'
    BY DEF SchedIInv, PhaseTypeOK, NumbersOK, FlagsOK, Counted, Placed
  <2>6. Shown'
    BY DEF SchedIInv, PhaseTypeOK, NumbersOK, Counted, Placed, Shown
  <2> QED
    BY <2>1, <2>2, <2>3, <2>4, <2>5, <2>6 DEF SchedIInv, PhaseTypeOK
<1>17. CASE UNCHANGED phaseVars
  <2> USE <1>17 DEF phaseVars
  <2>1. NumbersOK'
    BY DEF SchedIInv, PhaseTypeOK, NumbersOK, FlagsOK, Counted, Placed
  <2>2. FlagsOK'
    BY DEF SchedIInv, PhaseTypeOK, FlagsOK
  <2>3. PlacesOK'
    BY DEF SchedIInv, PhaseTypeOK, PlacesOK
  <2>4. Counted'
    BY DEF SchedIInv, PhaseTypeOK, NumbersOK, FlagsOK, Counted, Placed
  <2>5. Placed'
    BY DEF SchedIInv, PhaseTypeOK, NumbersOK, FlagsOK, Counted, Placed
  <2>6. Shown'
    BY DEF SchedIInv, PhaseTypeOK, NumbersOK, Counted, Placed, Shown
  <2> QED
    BY <2>1, <2>2, <2>3, <2>4, <2>5, <2>6 DEF SchedIInv, PhaseTypeOK
<1> QED
  BY <1>1, <1>2, <1>3, <1>4, <1>5, <1>6, <1>7, <1>8, <1>9, <1>10, <1>11, <1>12, <1>13,
      <1>14, <1>15, <1>16, <1>17 DEF PhaseNext, Loop

(* The invariant holds of every behaviour.                                 *)
LEMMA SchedInvariance == PhaseSpec => []SchedIInv
BY InitSchedIInv, NextSchedIInv, PTL DEF PhaseSpec

(* The state has its shape and no more tasks run at once than allowed      *)
(* (scheduler.rs:217), whatever Total and MaxConcurrency are.              *)
THEOREM SchedulerTypeCorrect == PhaseSpec => []PhaseTypeOK
BY SchedInvariance, PTL DEF SchedIInv

(* Each task is an output, a failure or a skip, and only one of them       *)
(* (scheduler.rs:216-331), for any number of tasks.                        *)
THEOREM PhaseAccounting == PhaseSpec => []EveryTaskReported
<1>1. SchedIInv => EveryTaskReported
  BY TotalAssumption, MaxConcurrencyAssumption
  DEF SchedIInv, PhaseTypeOK, NumbersOK, Counted, Placed, InSet, EveryTaskReported
<1> QED
  BY <1>1, SchedInvariance, PTL

(* What the progress sink shows at the end is what the report says         *)
(* (scheduler.rs:320-330).                                                 *)
THEOREM PhasePublishing == PhaseSpec => []PublishedIsReport
<1>1. SchedIInv => PublishedIsReport
  BY DEF SchedIInv, Counted, PublishedIsReport
<1> QED
  BY <1>1, SchedInvariance, PTL

(* A phase shown as completed has an output of every task, and one that    *)
(* skipped tasks is shown as cancelled or failed (scheduler.rs:336-348).   *)
THEOREM PhaseTruthful == PhaseSpec => []CompletedMeansAll
<1>1. SchedIInv => CompletedMeansAll
  BY TotalAssumption, MaxConcurrencyAssumption
  DEF SchedIInv, PhaseTypeOK, NumbersOK, Counted, Placed, Shown, InSet,
      CompletedMeansAll
<1> QED
  BY <1>1, SchedInvariance, PTL

(* After a cancel at most one more agent call begins (scheduler.rs:218,    *)
(* 260), for any number of tasks.                                          *)
THEOREM PromptCancel == PhaseSpec => []AtMostOneLateCall
<1>1. SchedIInv => AtMostOneLateCall
  BY DEF SchedIInv, Placed, AtMostOneLateCall
<1> QED
  BY <1>1, SchedInvariance, PTL

(* Only an exhausted budget makes the controller stop the scheduling, and  *)
(* only while there are tasks (scheduler.rs:240-258, 306-312).             *)
StopCause == stopped => overBudget /\ Total > 0

(* The cause of a stop outlives every step: the budget never comes back.   *)
LEMMA StopCauseStep == SchedIInv /\ StopCause /\ [PhaseNext]_phaseVars => StopCause'
<1> SUFFICES ASSUME SchedIInv, StopCause, [PhaseNext]_phaseVars PROVE StopCause'
  OBVIOUS
<1> USE TotalAssumption, MaxConcurrencyAssumption
<1>1. CASE BudgetEnds
  BY <1>1 DEF BudgetEnds, StopCause, control
<1>2. CASE PickRefused
  BY <1>2 DEF PickRefused, StopCause, Remaining, SchedIInv, PhaseTypeOK, NumbersOK
<1>3. CASE JoinOutput
  <2>1. CASE ~finished /\ overBudget
    <3>1. /\ taken \in 0 .. Total /\ completed \in Nat /\ failed \in Nat
          /\ running \in Nat /\ ok \in Nat /\ err \in Nat /\ ok > 0
      BY <1>3 DEF JoinOutput, SchedIInv, PhaseTypeOK, NumbersOK
    <3>2. completed + failed + (running + ok + err) = taken
      BY <2>1 DEF SchedIInv, Counted, InSet
    <3>3. Total > 0
      BY <3>1, <3>2
    <3>4. overBudget'
      BY <1>3, <2>1 DEF JoinOutput, Joining
    <3> QED
      BY <3>3, <3>4 DEF StopCause
  <2>2. CASE ~(~finished /\ overBudget)
    BY <1>3, <2>2 DEF JoinOutput, Joining, StopCause, control
  <2> QED
    BY <2>1, <2>2
<1>4. CASE Cancel
  BY <1>4 DEF Cancel, StopCause, control
<1>5. CASE NotifyWaiters
  BY <1>5 DEF NotifyWaiters, StopCause, control
<1>6. CASE TaskEnds
  BY <1>6 DEF TaskEnds, StopCause, control
<1>7. CASE CheckCancelled
  BY <1>7 DEF CheckCancelled, StopCause, SkipRest
<1>8. CASE PickNone
  BY <1>8 DEF PickNone, StopCause
<1>9. CASE Spawn
  BY <1>9 DEF Spawn, StopCause, control
<1>10. CASE Full
  BY <1>10 DEF Full, StopCause, control
<1>11. CASE Join
  BY <1>11 DEF Join, StopCause, control
<1>12. CASE PollFlag
  BY <1>12 DEF PollFlag, StopCause, control
<1>13. CASE Listen
  BY <1>13 DEF Listen, StopCause, control
<1>14. CASE SeeCancel
  BY <1>14 DEF SeeCancel, StopCause, SkipRest
<1>15. CASE JoinFailure
  BY <1>15 DEF JoinFailure, StopCause, Joining, control
<1>16. CASE End
  BY <1>16 DEF End, StopCause, control
<1>17. CASE UNCHANGED phaseVars
  BY <1>17 DEF StopCause, phaseVars, control
<1> QED
  BY <1>1, <1>2, <1>3, <1>4, <1>5, <1>6, <1>7, <1>8, <1>9, <1>10,
     <1>11, <1>12, <1>13, <1>14, <1>15, <1>16, <1>17 DEF PhaseNext, Loop

(* A step that gives the phase its status gives it one of the reports a    *)
(* template counts on, and the sink shows the same counts                  *)
(* (scheduler.rs:333-358).                                                 *)
LEMMA EndKeepsContract ==
  ASSUME SchedIInv, StopCause, [PhaseNext]_phaseVars, phase' # phase
  PROVE  /\ published = CountsOf(completed, failed, skipped)
         /\ [completed |-> completed, failed |-> failed, skipped |-> skipped,
             phase |-> phase']
              \in PhaseReports(Total, cancelFlag, overBudget)
<1>1. End
  BY DEF PhaseNext, Loop, phaseVars, sink, Cancel, NotifyWaiters,
      BudgetEnds, TaskEnds, CheckCancelled, SkipRest,
    PickNone, PickRefused, Spawn, Full, Join, PollFlag,
    Listen, SeeCancel, JoinOutput, JoinFailure,
    Joining, Publish
<1>2. /\ completed \in Nat /\ failed \in Nat /\ skipped \in Nat
      /\ completed + failed + skipped = Total
  BY <1>1 DEF End, SchedIInv, PhaseTypeOK, NumbersOK, Counted, Placed, InSet
<1>3. completed \in 0 .. Total /\ failed \in 0 .. Total /\ skipped \in 0 .. Total
  BY <1>2, TotalAssumption
<1>4. skipped > 0 => cancelFlag \/ (stopped /\ overBudget)
  BY DEF SchedIInv, Counted, StopCause
<1>5. phase' = PhaseOutcome
  BY <1>1 DEF End
<1>6. /\ phase' \in PhaseOver
      /\ phase' = "cancelled" <=> cancelFlag
      /\ phase' = "completed" => ~stopped /\ failed = 0 /\ Total # 0 /\ ~cancelFlag
      /\ phase' = "skipped" => Total = 0
      /\ phase' = "failed" => stopped \/ failed > 0
  BY <1>2, <1>5 DEF PhaseOutcome, PhaseOver
<1>7. published = CountsOf(completed, failed, skipped)
  BY DEF SchedIInv, Counted
<1> QED
  BY <1>2, <1>3, <1>4, <1>6, <1>7, TotalAssumption DEF PhaseReports, StopCause

(* Every phase ends with a report its template may rely on, for any number *)
(* of tasks and any bound on the concurrency (scheduler.rs:333-358).       *)
THEOREM SchedulerContract == PhaseSpec => PhaseContract
<1>1. PhaseInit => StopCause
  BY DEF PhaseInit, StopCause
<1>2. SchedIInv /\ StopCause /\ [PhaseNext]_phaseVars =>
        [phase' # phase =>
           /\ published = CountsOf(completed, failed, skipped)
           /\ [completed |-> completed, failed |-> failed, skipped |-> skipped,
               phase |-> phase']
                \in PhaseReports(Total, cancelFlag, overBudget)]_phaseVars
  BY EndKeepsContract
<1> QED
  BY <1>1, <1>2, InitSchedIInv, NextSchedIInv, StopCauseStep, PTL DEF PhaseSpec, PhaseContract
=============================================================================
