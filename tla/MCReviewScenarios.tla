-------------------------- MODULE MCReviewScenarios --------------------------
(* The two scenarios of the gate's run: reviewers and writers of the files   *)
(* against the gate, and the client with a restart against the gate.  The    *)
(* full product of the two is out of TLC's reach.                            *)
EXTENDS MCReviewGate

\* Which scenario a behaviour belongs to, chosen at its start.
VARIABLE scenario

\* No question is open in the thread's goals.
NothingOpen == \A g \in Goals : open[g] = 0

\* Reviewers against the gate: one goal, files that change, and two tickets or one ticket
\* and an open question.  The idle actor does not look: nobody resumes a goal it stopped.
Reviewing ==
  /\ goals <= 1 /\ sets = 0 /\ restarts = 0 /\ call.pc # "decide"
  /\ Len(tickets) <= 1 \/ NothingOpen
  /\ \A r \in Reviewers : review[r].verdict # "external_blocker"

\* The client against the gate: two goals, one ticket, one reviewer, a restart; one request
\* or restart while a question is open.
Serving ==
  /\ Len(tickets) <= 1
  /\ sets + restarts <= IF NothingOpen THEN 2 ELSE 1
  /\ Cardinality({r \in Reviewers : review[r] # NoReview}) <= 1

Within == IF scenario = "reviewing" THEN Reviewing ELSE Serving

MCInit == Init /\ scenario \in {"reviewing", "serving"}
MCNext ==
  /\ Next /\ UNCHANGED scenario
  /\ Within' /\ (scenario = "serving" => UNCHANGED content)
MCSpec == MCInit /\ [][MCNext]_<<vars, scenario>>
=============================================================================
