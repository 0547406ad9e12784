SPECIFICATION FairSpec
CONSTANTS
  Player = {host}
  Watcher = {fan}
  Sockets = 2
  Timeout = 1
  Delay = 1
  MaxSpectators = 1
  MaxRunning = 2
INVARIANTS TypeOK
PROPERTIES FinishedDeadlineStays  RoomsEnd
CHECK_DEADLOCK FALSE
