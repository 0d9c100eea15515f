SPECIFICATION FairSpec
CONSTANTS
  a = a
  b = b
  c = c
  Clients <- MCClients
  kFree = kFree
  Keys = {k1}
  MaxKeys = 1
  MaxWaiters = 2
  DefaultLease = 1
  Lease <- MCLease
  Now = 2
  Renew <- MCRenew
  Retry = FALSE
INVARIANTS MutualExclusion LeaseHonoured NotForgotten
PROPERTIES NoOvertaking EventuallyGranted
