----------------------------- MODULE MCHcopLock -----------------------------
(* Three clients: one may have the lock from the switch, one from the DPU   *)
(* and one wait.                                                            *)
EXTENDS HcopLock

CONSTANTS a, b, c, k1, k2

MCClients == {a, b, c}

\* Each client has n requests under way.
Each(n) == [d \in MCClients |-> n]

\* Three clients at one key, and cores for all their requests; one client may ask
\* again before its RELEASE has arrived.
SwitchDpu == [mode |-> "process", fallback |-> TRUE, cores |-> 9, users |-> MCClients \X {k1},
              inFlight |-> [Each(1) EXCEPT ![a] = 2]]
\* Two of them, with more on the way.
TwoClients == [SwitchDpu EXCEPT !.users = {a, b} \X {k1}, !.inFlight = Each(3)]
DpuOnly == [SwitchDpu EXCEPT !.mode = "forward", !.inFlight = Each(2)]
\* Two keys for a table of one.
SwitchOnly == [SwitchDpu EXCEPT !.fallback = FALSE, !.users = MCClients \X {k1, k2},
                                !.inFlight = Each(2)]
\* And with a single core.
DpuBusy == [DpuOnly EXCEPT !.cores = 1, !.users = {a, b} \X {k1, k2}]

\* A switch that forwards and has nowhere to forward to: nobody answers.
NoTier == [DpuOnly EXCEPT !.fallback = FALSE]

MCPlacements == {SwitchDpu, TwoClients, DpuOnly, SwitchOnly, DpuBusy, NoTier}
MCTiers == {[TwoClients EXCEPT !.inFlight = Each(2)]}
=============================================================================
