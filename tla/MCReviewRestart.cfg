\* Tickets of two runs of the process.
SPECIFICATION Spec
CONSTANTS
  Contents = {a}
  NoHash = NoHash
  InWorkTree = TRUE
  Reviewers = {r1}
  Rejections = {"needs_user"}
  MaxGoals = 1
  MaxTickets = 3
  MaxQuestions = 0
  MaxSets = 0
  MaxRestarts = 1
SYMMETRY Symmetry
PROPERTIES
  GateFollowsNewest
CHECK_DEADLOCK FALSE
