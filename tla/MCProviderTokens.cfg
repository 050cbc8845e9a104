SPECIFICATION Spec
CONSTANTS
  Workers = {w1, w2}
  Lifetimes = {3, 4}
  Margin = 2
  Prompt = 1
  MaxTime = 3
  MaxTokens = 2
  MaxSignIns = 2
SYMMETRY WorkerSymmetry
INVARIANTS StaysConnected DisconnectStands
 
CHECK_DEADLOCK FALSE
