CONSTANTS
  Jobs = {j1}
  Loops = {"supervisor", "script"}
  Sweepers = {"script"}
  User = "user"
  Requests = {q1}
  NoJob = NoJob
  MaxReviews = 1
  MaxRuns = 3
  MaxRetries = 2
  Verdicts = {"TAILORED"}
  Crashes = TRUE
SPECIFICATION Spec
INVARIANTS
  LoopAppliesOnce
  OneClaimPerReview
  HandoffFollowsSuccess
PROPERTIES
  RecordedResultIsFinal
  DecisionIsFinal
  ImplementsSlot
CHECK_DEADLOCK FALSE
