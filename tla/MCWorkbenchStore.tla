-------------------------- MODULE MCWorkbenchStore --------------------------
(* Two scenarios of WorkbenchStore for TLC, in one run: many opens that      *)
(* overtake one another, and two opens with everything that can interrupt    *)
(* them.  The product of the two is out of TLC's reach.                      *)
EXTENDS WorkbenchStore, TLC

Symmetry == Permutations(Threads)

\* Which scenario a behaviour belongs to, chosen at its start.
VARIABLE scenario

\* Three opens; no call is refused, nothing is compacted, no runtime ends.
Switching == faults = 0 /\ compacts = <<>>

\* Two opens, and a refused call, a compaction or a task that lags or ends; beside a
\* compaction the other thread has one event.
Interrupting ==
  /\ Len(opens) <= 2
  /\ faults + Len(compacts) <= IF task.lagged THEN 0 ELSE 1
  /\ compacts # <<>> => \A t \in Threads : log[t] <= 1 \/ t = compacts[1].thread

MCInit == Init /\ scenario \in {"switching", "interrupting"}
MCNext ==
  /\ Next /\ UNCHANGED scenario
  /\ IF scenario = "switching"
     THEN Switching' /\ ~ForwardEnds /\ (active # NoThread => active' # NoThread) /\ \A t \in Threads : log'[t] <= 1
     ELSE Interrupting' /\ (ForwardEnds => compacts = <<>>)
MCSpec == MCInit /\ [][MCNext]_<<vars, scenario>>
=============================================================================
