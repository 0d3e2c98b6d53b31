\* Two clients with two requests, a call of an agent, a close or a hangup.
SPECIFICATION MCSpec
CONSTANTS
  Clients = {c1, c2}
  Threads = {root, child}
  Root = root
  Nobody = Nobody
  MaxRuntimes = 3
  MaxRequests = 2
  MaxToolCalls = 1
  MaxCloses = 1
  MaxHangups = 1
INVARIANTS
  LoadedIsLive
  OneRuntimePerThread
  RestoreSeesGatedTurns
  DecisionsExcludeRestore
  ForkSeesNoClientTurn
PROPERTIES
  RequestsEnd
CHECK_DEADLOCK FALSE
