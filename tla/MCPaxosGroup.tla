---------------------------- MODULE MCPaxosGroup ----------------------------
(* PaxosGroup on three replicas. *)
EXTENDS PaxosGroup

CONSTANTS v1, v2

\* Replica 2 has room for one instance only.
Tight == [n \in 0 .. 2 |-> IF n = 2 THEN 1 ELSE 2]

\* Only the leader proposes: twice, whatever it likes, for one instance or two.
Stable == [up |-> {0, 1, 2}, slots |-> {1, 2}, values |-> {v1, v2}, proposeRounds |-> 2,
           maxRound |-> [n \in 0 .. 2 |-> 0]]
\* Replica 2 is down.  The leader proposes once; replicas 1 and 0 hold one
\* election each, with the numbers (1, 1) and (2, 0).
Takeover == [up |-> {0, 1}, slots |-> {1}, values |-> {v1}, proposeRounds |-> 1,
             maxRound |-> [n \in 0 .. 2 |-> <<2, 1, 0>>[n + 1]]]
\* All replicas run; the leader proposes once, replica 1 holds an election.
Election == [up |-> {0, 1, 2}, slots |-> {1}, values |-> {v1}, proposeRounds |-> 1,
             maxRound |-> [n \in 0 .. 2 |-> <<0, 1, 0>>[n + 1]]]

MCSetups == {Stable, Takeover}
MCElection == {Election}
=============================================================================
