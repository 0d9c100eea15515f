------------------------------ MODULE PaxosNode ------------------------------
(***************************************************************************)
(* paxos::PaxosNode: the replica of the Multi-Paxos library, as functions  *)
(* from the state of a replica and an event to what HandleMessage and the  *)
(* proposer calls make of it: the new state, the messages to send and the  *)
(* status returned.  A value is opaque; Empty is the value of length 0.    *)
(***************************************************************************)
EXTENDS Integers, FiniteSets

CONSTANTS NumReplicas,   \* num_replicas_
          Instances,     \* instance ids (log slots)
          Values,        \* what may be proposed
          Empty,         \* the value of length 0
          MaxInstances   \* max_instances_ of each replica

ASSUME PaxosAssumption ==
  /\ NumReplicas \in 3 .. 5 /\ Empty \notin Values
  /\ MaxInstances \in [0 .. NumReplicas - 1 -> Nat]

Nodes == 0 .. NumReplicas - 1
Quorum == NumReplicas \div 2 + 1

-----------------------------------------------------------------------------
(* Proposal numbers: <<round, node_id>>, compared lexicographically. *)

Null == <<0, 0>>
Less(p, q) == p[1] < q[1] \/ (p[1] = q[1] /\ p[2] < q[2])

-----------------------------------------------------------------------------
(* State. *)

\* InstanceState: the acceptor's view of an instance.
NoInstance == [tracked |-> FALSE, promised |-> Null, accepted |-> Null, value |-> Empty,
               committed |-> FALSE, learned |-> Empty]
\* ProposerInstanceState
NoProposer == [known |-> FALSE, proposal |-> Null, value |-> Empty, promises |-> 0,
               highest |-> Null, highestValue |-> Empty, accepts |-> 0, committed |-> FALSE]
FreshNode == [round |-> 0, inst |-> [i \in Instances |-> NoInstance],
              prop |-> [i \in Instances |-> NoProposer]]

\* GetOrCreateInstance(i) returns nullptr.
Full(n, s, i) == /\ ~s.inst[i].tracked
                 /\ Cardinality({j \in Instances : s.inst[j].tracked}) >= MaxInstances[n]
Track(s, i) == [s EXCEPT !.inst[i].tracked = TRUE]

-----------------------------------------------------------------------------
(* Messages.  A broadcast reaches every replica, the sender included. *)

Msg(type, from, to, i, p, v, acc) ==
  [type |-> type, from |-> from, to |-> to, inst |-> i, proposal |-> p, value |-> v, accepted |-> acc]
MakePrepareBroadcast(n, i, p) == {Msg("Prepare", n, d, i, p, Empty, Null) : d \in Nodes}
MakePromise(n, d, i, st) == {Msg("Promise", n, d, i, st.promised, st.value, st.accepted)}
MakeAcceptBroadcast(n, i, p, v) == {Msg("Accept", n, d, i, p, v, Null) : d \in Nodes}
MakeAccepted(n, d, i, p, v) == {Msg("Accepted", n, d, i, p, v, Null)}
MakeLearn(n, d, i, v) == {Msg("Learn", n, d, i, Null, v, Null)}
MakeNack(n, d, i, p) == {Msg("Nack", n, d, i, p, Empty, Null)}

Result(s, out, status) == [node |-> s, out |-> out, status |-> status]

-----------------------------------------------------------------------------
(* Mutants. *)

HandleAcceptAnyRound(n, s, m) ==
  LET i == m.inst IN
  IF Full(n, s, i) THEN Result(s, {}, "InstanceOverflow")
  ELSE Result([Track(s, i) EXCEPT !.inst[i].promised = m.proposal, !.inst[i].accepted = m.proposal,
                                  !.inst[i].value = m.value],
              MakeAccepted(n, m.from, i, m.proposal, m.value), "Ok")
HandleAcceptedAnyProposal(n, s, m) ==
  LET i == m.inst
      t == [s EXCEPT !.prop[i].accepts = @ + 1] IN
  IF s.prop[i].accepts + 1 < Quorum THEN Result(t, {}, "Ok")
  ELSE Result([Track(t, i) EXCEPT !.prop[i].committed = TRUE, !.inst[i].committed = TRUE,
                                  !.inst[i].learned = m.value],
              UNION {MakeLearn(n, d, i, m.value) : d \in Nodes \ {n}}, "Ok")
HandleAcceptedSilent(n, s, m) ==
  LET i == m.inst
      ps == s.prop[i]
      t == [s EXCEPT !.prop[i].accepts = @ + 1] IN
  IF ~ps.known \/ m.proposal # ps.proposal \/ ps.committed \/ ps.accepts + 1 < Quorum
  THEN Result(t, {}, "Ok")
  ELSE Result([Track(t, i) EXCEPT !.prop[i].committed = TRUE, !.inst[i].committed = TRUE,
                                  !.inst[i].learned = m.value], {}, "Ok")
UseValueOwn(ps) == ps.value

-----------------------------------------------------------------------------
(* Proposer calls. *)

Propose(n, s, i, v) ==
  LET p == <<s.round + 1, n>> IN
  IF s.inst[i].committed THEN Result(s, {}, "AlreadyCommitted")
  ELSE IF Full(n, s, i) THEN Result(s, {}, "InstanceOverflow")
  ELSE Result([Track(s, i) EXCEPT !.round = @ + 1,
                 !.prop[i] = [@ EXCEPT !.known = TRUE, !.proposal = p, !.value = v, !.accepts = 0, !.committed = FALSE]],
              MakeAcceptBroadcast(n, i, p, v), "Ok")

StartLeaderElection(n, s, i) ==
  LET p == <<s.round + 1, n>> IN
  IF Full(n, s, i) THEN Result(s, {}, "InstanceOverflow")
  ELSE Result([Track(s, i) EXCEPT !.round = @ + 1,
                 !.prop[i] = [NoProposer EXCEPT !.known = TRUE, !.proposal = p, !.value = s.prop[i].value]],
              MakePrepareBroadcast(n, i, p), "Ok")

-----------------------------------------------------------------------------
(* Message handlers. *)

HandlePrepare(n, s, m) ==
  LET i == m.inst
      t == Track(s, i) IN
  IF Full(n, s, i) THEN Result(s, {}, "InstanceOverflow")
  ELSE IF Less(s.inst[i].promised, m.proposal)
  THEN LET u == [t EXCEPT !.inst[i].promised = m.proposal] IN
       Result(u, MakePromise(n, m.from, i, u.inst[i]), "Ok")
  ELSE Result(t, MakeNack(n, m.from, i, s.inst[i].promised), "Ok")

\* The value a proposer asks for once it has a quorum of promises.
UseValue(ps) == IF ps.highest = Null THEN ps.value ELSE ps.highestValue

HandlePromise(n, s, m) ==
  LET i == m.inst
      ps == s.prop[i]
      higher == m.accepted # Null /\ Less(ps.highest, m.accepted)
      pt == [ps EXCEPT !.promises = @ + 1,
                       !.highest = IF higher THEN m.accepted ELSE @,
                       !.highestValue = IF higher THEN m.value ELSE @] IN
  IF ~ps.known \/ m.proposal # ps.proposal THEN Result(s, {}, "Ok")
  ELSE IF pt.promises < Quorum THEN Result([s EXCEPT !.prop[i] = pt], {}, "Ok")
  ELSE Result([s EXCEPT !.prop[i] = [pt EXCEPT !.accepts = 0]],
              MakeAcceptBroadcast(n, i, pt.proposal, UseValue(pt)), "Ok")

HandleAccept(n, s, m) ==
  LET i == m.inst
      t == Track(s, i)
      st == s.inst[i] IN
  IF Full(n, s, i) THEN Result(s, {}, "InstanceOverflow")
  ELSE IF st.committed THEN Result(t, MakeLearn(n, m.from, i, st.learned), "AlreadyCommitted")
  ELSE IF Less(m.proposal, st.promised) THEN Result(t, MakeNack(n, m.from, i, st.promised), "Ok")
  ELSE Result([t EXCEPT !.inst[i].promised = m.proposal, !.inst[i].accepted = m.proposal,
                        !.inst[i].value = m.value],
              MakeAccepted(n, m.from, i, m.proposal, m.value), "Ok")

HandleAccepted(n, s, m) ==
  LET i == m.inst
      ps == s.prop[i]
      t == [s EXCEPT !.prop[i].accepts = @ + 1, !.prop[i].committed = ps.accepts + 1 >= Quorum] IN
  IF ~ps.known \/ m.proposal # ps.proposal THEN Result(s, {}, "Ok")
  ELSE IF ps.committed THEN Result(s, {}, "AlreadyCommitted")
  ELSE IF ps.accepts + 1 < Quorum THEN Result(t, {}, "Ok")
  ELSE Result(IF Full(n, t, i) THEN t
              ELSE [Track(t, i) EXCEPT !.inst[i].committed = TRUE, !.inst[i].learned = m.value],
              UNION {MakeLearn(n, d, i, m.value) : d \in Nodes \ {n}}, "Ok")

HandleLearn(n, s, m) ==
  LET i == m.inst IN
  IF Full(n, s, i) THEN Result(s, {}, "InstanceOverflow")
  ELSE IF s.inst[i].committed THEN Result(s, {}, "Ok")
  ELSE Result([Track(s, i) EXCEPT !.inst[i].committed = TRUE, !.inst[i].learned = m.value], {}, "Ok")

HandleNack(n, s, m) ==
  Result([s EXCEPT !.round = IF m.proposal[1] >= @ THEN m.proposal[1] ELSE @], {}, "Ok")

HandleMessage(n, s, m) ==
  CASE m.type = "Prepare" -> HandlePrepare(n, s, m)
    [] m.type = "Promise" -> HandlePromise(n, s, m)
    [] m.type = "Accept" -> HandleAccept(n, s, m)
    [] m.type = "Accepted" -> HandleAccepted(n, s, m)
    [] m.type = "Learn" -> HandleLearn(n, s, m)
    [] m.type = "Nack" -> HandleNack(n, s, m)

=============================================================================
