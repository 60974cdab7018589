SPECIFICATION FairSpec
CONSTANTS
  N = 3
  Completions = {1, 2, 3}
  Calls = {}
  Results = {}
  Sidechain = {3}
  Bad = {2}
  Batch = 1
  MaxDeliveries = 2
  Stale = 5
  MaxFaults = 2
INVARIANTS
  NoEventLost
  LatestCompletionWins
  CompletionSynced
PROPERTIES
  EveryEventSettles
CHECK_DEADLOCK FALSE
