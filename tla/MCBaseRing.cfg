CONSTANTS
  Data = {m1, m2, m3}
  NoData = NoData
  N = 2
SPECIFICATION FairSpec
INVARIANTS OwnershipWindow NoSharedAccess
PROPERTIES ImplementsChannel EveryMessageProcessed
