CONSTANTS
  Players = {p1, p2, p3}
  Rooms = {r1, r2, r3}
  MaxMoves = 7
  MaxFails = 1
  Nil = Nil
SPECIFICATION Spec
INVARIANTS TypeOK NoDoubleBooking NoneStranded NeverAgain OfferAgrees SearchEnds
CHECK_DEADLOCK FALSE
SYMMETRY Symmetry
