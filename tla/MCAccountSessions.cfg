SPECIFICATION AccountSpec
CONSTANTS
  Handlers = {r1, r2, r3}
  Pairs = {k1, k2, k3, k4}
  Leap = 3
  MaxVersion = 7
SYMMETRY Symmetry
INVARIANTS RevokedStaysRevoked LaterSignInStands
CHECK_DEADLOCK FALSE
