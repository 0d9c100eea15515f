CONSTANTS
  Hosts = {"h1", "h2"}
  BasicMems = {"b"}
  Memnics = {"m1", "m2"}
  Netmems = {"r1", "r2"}
  Cells = {0, 1}
  MaxPending = 4
  Routes <- MCRoutes
  MapTable <- MCMapTable
  Home <- MCHome
  Configs <- MCConfigs
SPECIFICATION FairSpec
INVARIANTS Matching Coherent
PROPERTY AllAnswered
CHECK_DEADLOCK FALSE
