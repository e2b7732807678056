CONSTANTS
  q1 = q1
  q2 = q2
  Requests = {q1, q2}
  MaxFlips = 2
  MaxCrashes = 1
SPECIFICATION FairSpec
INVARIANTS LoopsEndBeforeClose
PROPERTIES NoTwinLoop LoopsFollowModes ShutdownEnds
CHECK_DEADLOCK FALSE
