CONSTANTS
  j1 = j1
  j2 = j2
  w1 = w1
  w2 = w2
  Jobs = {j1, j2}
  Workers = {w1, w2}
  Nobody = Nobody
  BatchLimit = 2
  MaxRetries = 2
  Budget = 1
  MaxLosses = 1
  MaxTouches = 1
SPECIFICATION FairSpec
INVARIANTS ClaimsAreExclusive OverdraftIsBounded
PROPERTIES VerdictStands EveryJobIsDecided
CHECK_DEADLOCK FALSE
