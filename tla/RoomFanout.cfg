SPECIFICATION FairSpec
CONSTANTS
  Batch = 2
  Overtaking = TRUE
  MaxVersion = 4
  MaxId = 3
  MaxSessions = 2
INVARIANTS TypeOK RefreshShown
PROPERTIES BoardForward CatchesUp
CHECK_DEADLOCK FALSE
