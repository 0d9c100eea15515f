SPECIFICATION Spec
CONSTANTS
  a = a
  b = b
  c = c
  k1 = k1
  k2 = k2
  kFree = kFree
  Clients <- MCClients
  Keys = {k1, k2}
  SwitchKeys = 1
  DpuKeys = 1
  DpuWaiters = 2
  Placements <- MCTiers
INVARIANTS MutualExclusion
