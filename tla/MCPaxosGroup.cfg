SPECIFICATION FairSpec
CONSTANTS
  v1 = v1
  v2 = v2
  NumReplicas = 3
  Instances = {1, 2}
  Values = {v1, v2}
  Empty = none
  MaxInstances <- Tight
  Leader = 0
  Setups <- MCSetups
INVARIANTS Agreement QuorumBacked
PROPERTIES NeverBack EverybodyLearns
CHECK_DEADLOCK FALSE
