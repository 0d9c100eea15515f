CONSTANTS
  Sims <- MCSims
  Peers <- MCPeers
  Nics = {"nic"}
  Latency <- MCLatency
  SyncInterval <- MCSyncInterval
  N = 2
  MaxStep = 2
  MaxEvents = 2
  Sending = {1}
  MaxCopies = 1
  Delays = {1}
  Horizon = 5
SPECIFICATION FairSpec
INVARIANTS NoMessageInThePast TimestampsMonotone BoundedSkew ForwardedOnTime SlowestIsFree
PROPERTIES AllReachHorizon
