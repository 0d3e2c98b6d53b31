---------------------------- MODULE MCApprovals ----------------------------
EXTENDS Approvals, TLC
Symmetry == Permutations(Threads) \cup Permutations(Clients)
MCNext == Next /\ ~reused' /\ ((restarts = 1) => (cut' = cut /\ lost' = lost))
MCSpec == Init /\ [][MCNext]_vars
=============================================================================
