SPECIFICATION FairSpec
CONSTANTS
  Calls = {c1, c2, c3, c4}
  FailureThreshold = 2
  SuccessThreshold = 3
  HalfOpenMaxCalls = 2
  RecoveryTimeout = 2
INVARIANTS ProbeBound ClosedBelowThreshold IdleBreakerAdmits
PROPERTIES OpenIsLeftByProbeOrReset Recovers
