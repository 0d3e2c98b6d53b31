\* Five tasks, two at a time.
SPECIFICATION FairPhaseSpec
CONSTANTS
  Total = 5
  MaxConcurrency = 2
INVARIANTS
  AtMostOneLateCall
PROPERTIES
  PhaseContract
  PhaseEnds
CHECK_DEADLOCK FALSE
