SPECIFICATION FairSpec
CONSTANTS
  a = a
  b = b
  c = c
  k1 = k1
  k2 = k2
  kFree = kFree
  Clients <- MCClients
  Keys = {k1, k2}
  SwitchKeys = 1
  DpuKeys = 1
  DpuWaiters = 2
  Placements <- MCPlacements
INVARIANTS OneTableExclusion TablesTruthful
PROPERTIES EventuallyGranted
CHECK_DEADLOCK FALSE
