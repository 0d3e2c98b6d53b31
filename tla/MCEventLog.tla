----------------------------- MODULE MCEventLog -----------------------------
(* The run of EventLog: as long as no client has received anything, up to   *)
(* all its events and faults; with a client, fewer of both.                 *)
EXTENDS EventLog

Unwatched == conn = "off" /\ got = << >>
Watched == made <= 4 /\ faults <= 1

MCNext == Next /\ (Unwatched' \/ Watched')
MCSpec == Init /\ [][MCNext]_vars
=============================================================================
