SPECIFICATION Spec
CONSTANTS
  Requests = {r1, r2}
  NoRequest = NoRequest
  Limits = {1, 2}
  MaxDay = 1
  MaxCharges = 4
SYMMETRY RequestSymmetry
INVARIANTS CountIsExact OverrunBounded
CHECK_DEADLOCK FALSE
