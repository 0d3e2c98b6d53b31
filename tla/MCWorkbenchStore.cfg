\* Sessions and agent viewers of two threads, opened, closed, archived and compacted.
SPECIFICATION MCSpec
SYMMETRY Symmetry
CONSTANTS
  Threads = {a, b}
  NoThread = none
  MaxEvents = 2
  MaxOpens = 3
  MaxFaults = 1
  MaxCompacts = 1
INVARIANTS
  ShowsOwnThread
  ViewerComplete
  MissesOnlyTheOpening
  NothingLeaks
CHECK_DEADLOCK FALSE
