CONSTANTS
  w1 = w1
  w2 = w2
  j1 = j1
  f1 = f1
  Jobs = {j1}
  Workers = {w1, w2}
  NoOne = NoOne
  Elsewhere = Elsewhere
  Fields = {f1}
  RequestLimit = 2
  RateRetries = 1
  MaxRetries = 2
  MaxFaults = 1
SPECIFICATION FairSpec
INVARIANTS SubmittedFormIsComplete 
PROPERTIES SubmitsAreVetted EveryRunSettles
CHECK_DEADLOCK FALSE
