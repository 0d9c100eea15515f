CONSTANTS
  Nodes = {n1, n2, n3}
  Marked = {n1, n2, n3}
  Barriers = {b1}
  MaxBarriers = 1
  Participants = 3
  GenMod = 2
  MaxRound = 5
  MaxCopies = 3
SPECIFICATION FairSpec
INVARIANTS NobodyPasses
PROPERTIES StaleIgnored AllRounds
CHECK_DEADLOCK FALSE
