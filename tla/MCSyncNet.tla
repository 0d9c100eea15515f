----------------------------- MODULE MCSyncNet -----------------------------
(* Three simulators, each connected with the two others: both main loops     *)
(* with two ports, a cycle of waiting, and rings small enough to fill.  The  *)
(* device's connections are slower than max_step and its timer faster, so    *)
(* that each of its reasons to stop is the first one at some time.           *)
EXTENDS SyncNet

MCSims == {"nic", "switch", "host"}
MCPeers == [s \in MCSims |-> CASE s = "nic" -> <<"switch", "host">>
                               [] s = "switch" -> <<"nic", "host">>
                               [] s = "host" -> <<"nic", "switch">>]
MCLatency == [l \in {m \in MCSims \X MCSims : m[1] # m[2]} |->
                IF "nic" \in {l[1], l[2]} THEN 3 ELSE 1]
MCSyncInterval == MCLatency   \* the longest SimbricksBaseIfInit accepts
=============================================================================
