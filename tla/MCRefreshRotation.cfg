SPECIFICATION Spec
CONSTANTS
  Requests = {r1, r2, r3}
  NoOwner = NoOwner
  MaxTime = 5
  Presented = {1}
  LockTtl = 1
  RotationTtl = 2
  TokenTtl = 3
  WaitAttempts = 1
  Production = TRUE
  RedisFaults = TRUE
SYMMETRY RequestSymmetry
INVARIANTS SingleUse Exclusive
PROPERTIES LockRemovedByOwnerOrTime ImplementsExchange
