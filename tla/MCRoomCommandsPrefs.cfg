CONSTANTS
  c1 = c1
  c2 = c2
  c3 = c3
  Commands = {c1, c2}
  Workers = {w1, w2}
  Nobody = Nobody
  NoCommand = NoCommand
  Unsent = Unsent
  Kind <- MixedKind
  SeatOf <- MCSeat
  ModeOf <- PauseMode
  InitialPrefs <- AnyPref
  MaxRetries = 2
  MaxOther = 0
SPECIFICATION Spec
PROPERTY PreferenceStands
