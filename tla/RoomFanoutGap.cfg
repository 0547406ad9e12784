SPECIFICATION Spec
CONSTANTS
  Batch = 2
  Overtaking = TRUE
  MaxVersion = 3
  MaxId = 3
  MaxSessions = 1
PROPERTY NothingBehindCursor
CHECK_DEADLOCK FALSE
