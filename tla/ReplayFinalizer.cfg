CONSTANTS
  Gateways = {g1, g2}
  Versions = {1, 2, 4}
  Earning = 1
  Batch = 2
  MaxFails = 2
  Nobody = Nobody
  Dead = Dead
SPECIFICATION FairSpec
INVARIANTS TypeOK ReadyIsWhole NotesStay IInv
PROPERTY Settles
CHECK_DEADLOCK FALSE
