\* Closing a child whose turn runs lets a second runtime run a turn of it.
SPECIFICATION Spec
CONSTANTS
  Clients = {c1, c2}
  Threads = {root, child}
  Root = root
  Nobody = Nobody
  MaxRuntimes = 3
  MaxRequests = 3
  MaxToolCalls = 0
  MaxCloses = 1
  MaxHangups = 0
INVARIANT OneActiveTurnPerThread
CHECK_DEADLOCK FALSE
