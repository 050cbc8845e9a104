SPECIFICATION CallsSpec
CONSTANTS
  Calls = {c1, c2}
  InnerRetries = 1
  OuterRetries = 1
  MaxFaults = 1
  Slots <- TwoSlots
  LockTtl = 1
  MaxTouched = 1
  Nobody = Nobody
SYMMETRY CallSymmetry
INVARIANTS CallsTypeOK SlotBookedOnce OverlapsOnlyByRace EventsAvoidBookings BookedIsStored
CHECK_DEADLOCK FALSE
