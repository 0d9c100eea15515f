----------------------------- MODULE PaxosGroup -----------------------------
(***************************************************************************)
(* A group of PaxosNode replicas.  Messages overtake one another and may   *)
(* never arrive, but are not duplicated.  How the group is used is up to   *)
(* its callers: a setup says which replicas are running (the others have   *)
(* crashed before the start), what the leader may propose, and which       *)
(* replicas may call StartLeaderElection.                                  *)
(***************************************************************************)
EXTENDS PaxosNode

CONSTANTS Leader,   \* leader_id_, the one replica that calls Propose
          Setups    \* the setups to consider

\* The leader proposes up to round proposeRounds for instances of slots, and
\* replica n starts elections up to round maxRound[n].
ASSUME GroupAssumption ==
  \A s \in Setups : /\ Leader \in s.up /\ s.up \subseteq Nodes
                    /\ s.slots \subseteq Instances /\ s.values \subseteq Values
                    /\ s.proposeRounds \in Nat /\ s.maxRound \in [Nodes -> Nat]

VARIABLES setup,  \* the setup of this group
          node,   \* node[n]: the state of replica n
          msgs    \* the network: how many copies of each message are under way

vars == <<setup, node, msgs>>

Init == /\ setup \in Setups
        /\ node = [n \in Nodes |-> FreshNode] /\ msgs = [m \in {} |-> 0]

-----------------------------------------------------------------------------

\* A network without one copy of m, and with one more copy of each message in out.
Taken(net, m) == IF net[m] = 1 THEN [e \in DOMAIN net \ {m} |-> net[e]] ELSE [net EXCEPT ![m] = @ - 1]
Sent(net, out) ==
  LET had == DOMAIN net IN
  [e \in had \cup out |-> IF e \notin out THEN net[e] ELSE IF e \in had THEN net[e] + 1 ELSE 1]

\* Replica n did r; messages to crashed replicas are lost.
Did(n, r, left) ==
  \E net \in {left}, out \in {{m \in r.out : m.to \in setup.up}} :
    node' = [node EXCEPT ![n] = r.node] /\ msgs' = Sent(net, out) /\ UNCHANGED setup

DoPropose(i, v) == /\ node[Leader].round < setup.proposeRounds
                   /\ Did(Leader, Propose(Leader, node[Leader], i, v), msgs)
DoElection(n, i) == /\ node[n].round < setup.maxRound[n]
                    /\ Did(n, StartLeaderElection(n, node[n], i), msgs)
Receive(m) == Did(m.to, HandleMessage(m.to, node[m.to], m), Taken(msgs, m))

Next == \/ \E i \in setup.slots, v \in setup.values : DoPropose(i, v)
        \/ \E n \in setup.up, i \in setup.slots : DoElection(n, i)
        \/ \E m \in DOMAIN msgs : Receive(m)

Deliver == \E m \in DOMAIN msgs : Receive(m)

Spec == Init /\ [][Next]_vars

\* Messages arrive; nobody has to propose.
FairSpec == Spec /\ WF_vars(Deliver)

-----------------------------------------------------------------------------
(* Properties. *)

\* No two replicas commit different values in an instance.
Agreement == \A n, m \in Nodes, i \in Instances :
               node[n].inst[i].committed /\ node[m].inst[i].committed
               => node[n].inst[i].learned = node[m].inst[i].learned

\* A committed value is backed by a quorum of acceptors that hold it, and stays
\* so: a later quorum of promises cannot miss it.
QuorumBacked ==
  \A n \in Nodes, i \in Instances : node[n].inst[i].committed =>
    \E Q \in SUBSET Nodes :
      /\ Cardinality(Q) >= Quorum
      /\ \A q \in Q : /\ node[q].inst[i].accepted # Null
                      /\ node[q].inst[i].value = node[n].inst[i].learned

\* What a replica has committed it never changes or forgets, and what it has
\* promised it never takes back.
NeverBack == [][\A n \in Nodes, i \in Instances :
                  LET a == node[n].inst[i]
                      b == node'[n].inst[i] IN
                  /\ a.committed => b.committed /\ b.learned = a.learned
                  /\ ~Less(b.promised, a.promised) /\ ~Less(b.accepted, a.accepted)]_vars

\* Without elections, again and again every running replica with room for the
\* instances has learned the values of all that the leader has proposed.
EverybodyLearns ==
  []<>(\A i \in Instances, n \in setup.up :
         (\A m \in Nodes : setup.maxRound[m] = 0) /\ node[Leader].prop[i].known
         => node[n].inst[i].committed \/ Full(n, node[n], i))

=============================================================================
