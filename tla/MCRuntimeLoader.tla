-------------------------- MODULE MCRuntimeLoader --------------------------
(* The run of RuntimeLoader: a behaviour has a client that hangs up, or it  *)
(* has closes and deliveries; a thread is loaded again, and a persistent    *)
(* command runs on, in behaviours with less of both.  Idle clients are      *)
(* alike, so while the first is idle the next request is its own.           *)
EXTENDS RuntimeLoader

FirstClient == CHOOSE c \in Clients : TRUE

MCNext ==
  /\ Next
  /\ hangups' = 0 \/ closes' + toolCalls' = 0
  /\ spawned' < MaxRuntimes \/ toolCalls' = 0
  /\ background' = {} \/ hangups' + closes' + toolCalls' = 0
  /\ pc[FirstClient] = "idle" =>
       \A c \in Clients \ {FirstClient} : pc[c] = "idle" => pc'[c] = "idle"
MCSpec == Init /\ [][MCNext]_vars /\ Fairness
=============================================================================
