CONSTANTS
  Jobs = {j1}
  Loops = {"supervisor", "script"}
  Sweepers = {"script"}
  User = "user"
  Requests = {}
  NoJob = NoJob
  MaxReviews = 2
  MaxRuns = 4
  MaxRetries = 2
  Verdicts = {"TAILORED", "NO_IMPROVEMENT"}
  Crashes = TRUE
SPECIFICATION UnattendedSpec
PROPERTIES
  ReviewSettles
CHECK_DEADLOCK FALSE
