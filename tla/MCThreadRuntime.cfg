\* Two callers, mail, goal turns, failures, interrupts and one restart, with
\* fair scheduling of the actor and of the sessions.
SPECIFICATION FairSpec
CONSTANTS
  Callers = {c1, c2}
  Nobody = nobody
  Capacity = 3
  MaxTurn = 6
  MaxCalls = 2
  MaxGoalTurns = 1
  MaxFailures = 1
  MaxRestarts = 1
  GateMayRefuse = TRUE
INVARIANTS
  SlotHasOneHolder
  NoStrandedMail
  InterruptReachesTurn
PROPERTIES
  EndedTurnIsFinal
  LifecycleSpec
  CallsAreAnswered
  MailIsDrained
CHECK_DEADLOCK FALSE
