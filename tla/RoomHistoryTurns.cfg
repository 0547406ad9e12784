CONSTANTS
  Cap = 2
  MaxTurn = 3
  MaxVersion = 9
  TurnSkip = 1
SPECIFICATION Spec
INVARIANT TurnStartExact
CHECK_DEADLOCK FALSE
