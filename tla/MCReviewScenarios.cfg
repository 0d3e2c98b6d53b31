\* The gate against reviewers and writers, and against the client and a restart.
SPECIFICATION MCSpec
CONSTANTS
  Contents = {a, b}
  NoHash = NoHash
  InWorkTree = TRUE
  Reviewers = {r1, r2}
  Rejections = {"needs_user", "external_blocker"}
  MaxGoals = 2
  MaxTickets = 2
  MaxQuestions = 1
  MaxSets = 2
  MaxRestarts = 1
SYMMETRY Symmetry
PROPERTIES
  GateNeedsApproval
  NoOpenQuestionAtCompletion
  GateFollowsNewest
  ResumeSticks
CHECK_DEADLOCK FALSE
