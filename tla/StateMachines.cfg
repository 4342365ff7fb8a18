CONSTANTS
  stop = stop
  u1 = u1
  u2 = u2
  worker = worker
  s1 = s1
  s2 = s2
  Modes <- AllModes
  go = go
  Losses = {0}
  Trees <- AllTrees
  States <- MCStates
  Events <- MCEvents
  Targets <- Cycle
  Apps <- MCApps
  Sizes <- TwoSizes
  MaxCalls = 4
  MaxDepth = 3
SPECIFICATION FairSpec
INVARIANTS Consistent Coherent Emissions
PROPERTIES MovesFromCurrent Ends
CHECK_DEADLOCK FALSE
