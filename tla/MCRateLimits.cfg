SPECIFICATION LimitsSpec
CONSTANTS
  Arrivals = {r1, r2}
  GateLimit = 2
  GateWindow = 3
  MaxRequests = 2
  Window = 2
  MaxDelay = 1
SYMMETRY ArrivalSymmetry
INVARIANTS LimitsTypeOK LimitsHold
PROPERTY AdviceHolds
