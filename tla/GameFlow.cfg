SPECIFICATION Spec
CONSTANTS
  Budget = 3
  None = None
INVARIANTS TypeOK NeverStuck NothingLeftBehind AnnouncedWaits GoAgainOnce DamageOnce
PROPERTIES TurnsEnd
