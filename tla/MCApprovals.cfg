\* Two threads and two clients over a restart.
SPECIFICATION MCSpec
CONSTANTS
  Threads = {t1, t2}
  Clients = {c1, c2}
  MaxMade = 2
  MaxFails = 1
  MaxRestarts = 1
SYMMETRY Symmetry
INVARIANTS RanAsAsked RunsOnce StoredIsLive
PROPERTY DecidedIsFinal
CHECK_DEADLOCK FALSE
