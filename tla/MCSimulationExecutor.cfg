SPECIFICATION Spec
CONSTANTS
  Procs <- MCProcs
  Ifs <- MCIfs
  Blocking = {"mem"}
  Proxies = {"mem", "proxy"}
  External <- MCExternal
  NoProxy = NoProxy
  WaitSims = {"net"}
  Stubborn = {"mem"}
  Setups <- MCSetups
INVARIANTS ChannelsSound StartOrder NothingLeft
PROPERTIES Established RunEnds
CHECK_DEADLOCK FALSE
