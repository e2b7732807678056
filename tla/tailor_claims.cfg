CONSTANTS
  MaxJobs = 1
  Loops = {"supervisor", "script"}
  User = "user"
  Requests = {q1}
  MaxRuns = 2
  MaxRetries = 2
  Crashes = TRUE
SPECIFICATION FairSpec
INVARIANTS
  SuccessHasReview
PROPERTIES
  ResultIsFinal
  ImplementsLease
  RunResolves JobSettles
CHECK_DEADLOCK FALSE
