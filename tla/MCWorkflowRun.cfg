\* One run with up to two angles, sources and claims, two votes each, two clients.
SPECIFICATION FairSpec
CONSTANTS
  Clients = {c1, c2}
  MaxAngles = 2
  MaxSources = 2
  MaxClaims = 2
  VotesPerClaim = 2
  RefutationsRequired = 2
  MaxRestarts = 1
  MaxRequests = 2
INVARIANTS
  CompletedSkippedNothing
  PhasesEndWithRun
PROPERTIES
  AnswersAgree
  RunEnds
CHECK_DEADLOCK FALSE
