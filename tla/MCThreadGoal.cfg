\* Two goals, two turns and one restart, with a budget that runs out.
SPECIFICATION Spec
CONSTANTS
  Budgets = {0, 1}
  Statuses = {"active", "paused"}
  MaxGoals = 2
  MaxTurns = 2
  MaxSpent = 1
  MaxCalls = 1
  MaxRestarts = 1
  Clears = TRUE
INVARIANTS ChargedOnce QuietStops ForgottenOnlyFor ReportsArrive
CHECK_DEADLOCK FALSE
