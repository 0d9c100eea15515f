SPECIFICATION Spec
CONSTANTS
  v1 = v1
  v2 = v2
  NumReplicas = 3
  Instances = {1, 2}
  Values = {v1, v2}
  Empty = none
  MaxInstances <- Tight
  Leader = 0
  Setups <- MCElection
INVARIANTS QuorumBacked
CHECK_DEADLOCK FALSE
