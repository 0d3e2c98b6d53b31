--------------------------- MODULE TurnLifecycle ---------------------------
(***************************************************************************)
(* What a thread runtime promises about its turns, whatever its callers,   *)
(* its channel and its actor do: turn ids grow, one operation at a time    *)
(* owns the thread, only the owner's turn is started and ended in the      *)
(* rollout, and what the rollout says of a turn only moves forward: not    *)
(* started, started, ended.  A turn may leave requests that wait for an    *)
(* approval or an answer; while there are any, the thread may be           *)
(* interrupted, and a turn that was recorded is then abandoned.            *)
(* ThreadRuntime implements this specification                             *)
(* (ThreadRuntime!LifecycleSpec).                                          *)
(***************************************************************************)
EXTENDS Integers

CONSTANT MaxTurn   \* bound: largest turn index

VARIABLES next,    \* the next turn index
          owner,   \* the turn that owns the thread, Compaction or NoTurn
          record,  \* per turn, the last event of its life in the rollout
          waits    \* a request waits for an approval or an answer

Turns == 1 .. MaxTurn
NoTurn == -1
Compaction == 0

vars == <<next, owner, record, waits>>

Init == next = 1 /\ owner = NoTurn /\ record = [t \in Turns |-> "none"] /\ waits = FALSE

Reserve ==
  /\ owner = NoTurn
  /\ next \in Turns
  /\ owner' = next /\ next' = next + 1
  /\ UNCHANGED <<record, waits>>

ReserveCompaction ==
  /\ owner = NoTurn
  /\ owner' = Compaction
  /\ UNCHANGED <<next, record, waits>>

Start ==
  /\ owner \in Turns /\ record[owner] = "none"
  /\ record' = [record EXCEPT ![owner] = "started"]
  /\ UNCHANGED <<next, owner, waits>>

\* The turn that runs leaves a request.
Ask ==
  /\ owner \in Turns /\ record[owner] = "started"
  /\ waits' = TRUE
  /\ UNCHANGED <<next, owner, record>>

\* A turn that did not start can only fail.  One that is interrupted takes the requests
\* with it; one that cannot store its request fails and leaves it.
End ==
  /\ owner \in Turns
  /\ \/ /\ record[owner] = "none"
        /\ record' = [record EXCEPT ![owner] = "failed"]
        /\ UNCHANGED waits
     \/ /\ record[owner] = "started"
        /\ \/ record' = [record EXCEPT ![owner] = "completed"] /\ UNCHANGED waits
           \/ record' = [record EXCEPT ![owner] = "interrupted"] /\ waits' \in {waits, FALSE}
           \/ record' = [record EXCEPT ![owner] = "failed"] /\ waits' \in {waits, TRUE}
  /\ UNCHANGED <<next, owner>>

Release ==
  /\ owner # NoTurn
  /\ owner' = NoTurn
  /\ UNCHANGED <<next, record, waits>>

\* A request is decided or answered.
Resolve ==
  /\ waits' = FALSE
  /\ UNCHANGED <<next, owner, record>>

\* A thread that waits is interrupted: what was recorded of a turn, its end included,
\* is followed by one more end.
Abandon ==
  /\ waits /\ waits' = FALSE
  /\ \E t \in Turns : record[t] # "none" /\ record' = [record EXCEPT ![t] = "abandoned"]
  /\ UNCHANGED <<next, owner>>

\* Only what was recorded is remembered; the last turn may be closed as failed, if the
\* thread does not wait.
Restart ==
  /\ owner' = NoTurn
  /\ \E last \in 0 .. MaxTurn :
       /\ \A t \in Turns : record[t] # "none" => t <= last
       /\ last = 0 \/ record[last] # "none"
       /\ next' = last + 1
       /\ \/ record' = record
          \/ /\ last > 0 /\ record[last] = "started" /\ ~waits'
             /\ record' = [record EXCEPT ![last] = "failed"]
  /\ waits' \in {waits, FALSE}

Next == \/ Reserve \/ ReserveCompaction \/ Start \/ Ask \/ End \/ Release
        \/ Resolve \/ Abandon \/ Restart

Spec == Init /\ [][Next]_vars
=============================================================================
