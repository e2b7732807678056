CONSTANTS
  Base <- MCBase
  Resumes <- MCResumes
  Outputs <- MCOutputs
  PageSize = 13
  MaxRuns = 2
  MaxEdits = 1
SPECIFICATION FairSpec
INVARIANTS RewritesLand BulletsAreFoundAgain ShippedWasPreferred 
PROPERTIES EveryPipelineEnds
CHECK_DEADLOCK FALSE
