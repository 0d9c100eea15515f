CONSTANTS
  DMA_MAX_PENDING = 2
  MAX_ACTIVE_DESCS = 2
  MAX_DMA_SIZE = 2
  MTU = 3
  Word = 16
  Vec <- MCVec
  Units <- MCUnits
  Commands <- MCCommands
  Arrivals <- MCArrivals
  Workloads <- MCWorkloads
  Itr = 1
SPECIFICATION FairSpec
INVARIANTS TxFaithful RxFaithful CommandAnswered NoAbort
PROPERTY AllServed
CHECK_DEADLOCK FALSE
