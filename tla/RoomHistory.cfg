CONSTANTS
  Cap = 1
  MaxTurn = 3
  MaxVersion = 6
  TurnSkip = 2
SPECIFICATION Spec
INVARIANTS TypeOK HistoryBounded HistoryOnLine TurnStartsKeptForward ReplayIsLine TransitionHonest
PROPERTY FinishedStays
CHECK_DEADLOCK FALSE
