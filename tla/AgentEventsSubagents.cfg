SPECIFICATION Spec
CONSTANTS
  N = 2
  Completions = {}
  Calls = {1}
  Results = {2}
  Sidechain = {}
  Bad = {}
  Batch = 2
  MaxDeliveries = 2
  Stale = 5
  MaxFaults = 0
INVARIANTS
  SubagentsCounted
CHECK_DEADLOCK FALSE
