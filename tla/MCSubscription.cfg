SPECIFICATION Spec
CONSTANTS
  Handlers = {h1, h2}
  Manual = {m1}
  MaxEvents = 2
SYMMETRY SlotSymmetry
INVARIANTS EntitlementConsistent 
PROPERTY DecisionStands
CHECK_DEADLOCK FALSE
