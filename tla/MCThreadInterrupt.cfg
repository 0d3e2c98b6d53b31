SPECIFICATION Spec
CONSTANTS
  Callers = {c1, c2}
  Nobody = nobody
  Capacity = 2
  MaxTurn = 3
  MaxCalls = 2
  MaxGoalTurns = 0
  MaxFailures = 0
  MaxRestarts = 0
  GateMayRefuse = FALSE
SYMMETRY Symmetry
PROPERTIES AcceptedInterruptIsRecorded
CHECK_DEADLOCK FALSE
