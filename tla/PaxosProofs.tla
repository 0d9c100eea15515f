----------------------------- MODULE PaxosProofs -----------------------------
(***************************************************************************)
(* PaxosGroup under a stable leader: nobody calls StartLeaderElection, as  *)
(* nobody in the repository does outside the tests of the library.  The    *)
(* inductive invariant of such a group and its preservation by every step, *)
(* for any number of instances, values, proposals per instance and crashed *)
(* replicas.                                                               *)
(***************************************************************************)
EXTENDS PaxosGroup, FiniteSetTheorems, TLAPS

\* Nobody starts an election.
StableLeader == \A s \in Setups : \A n \in Nodes : s.maxRound[n] = 0

-----------------------------------------------------------------------------
(* The inductive invariant. *)

Value == Values \cup {Empty}
Number == Nat \X Nat
InstanceState == [tracked : BOOLEAN, promised : Number, accepted : Number, value : Value,
                  committed : BOOLEAN, learned : Value]
ProposerState == [known : BOOLEAN, proposal : Number, value : Value, promises : Nat,
                  highest : Number, highestValue : Value, accepts : Nat, committed : BOOLEAN]
NodeState == [round : Nat, inst : [Instances -> InstanceState], prop : [Instances -> ProposerState]]
Message == [type : {"Accept", "Accepted", "Learn", "Nack"}, from : Nodes, to : Nodes,
            inst : Instances, proposal : Number, value : Value, accepted : Number]

\* The leader's view of an instance as its proposer, and a replica's as acceptor.
P(i) == node[Leader].prop[i]
A(n, i) == node[n].inst[i]

\* p is the number of a proposal that the leader has made for i.
Proposed(p, i) == P(i).known /\ p[1] \in 1 .. P(i).proposal[1] /\ p[2] = Leader
\* It is the one the leader is counting for.
Current(p, i) == P(i).known /\ p = P(i).proposal

GroupTypes == /\ setup \in Setups /\ node \in [Nodes -> NodeState]
              /\ DOMAIN msgs \subseteq Message
              /\ \A m \in DOMAIN msgs : msgs[m] \in Nat \ {0}

\* What the leader knows of an instance.  Committing it as proposer, it commits it
\* as acceptor too, because it has the instance in its log already.
ProposerInv(i) ==
  /\ P(i).known => Proposed(P(i).proposal, i) /\ P(i).proposal[1] <= node[Leader].round
                   /\ A(Leader, i).tracked
  /\ P(i).committed => P(i).known /\ P(i).accepts >= Quorum /\ A(Leader, i).committed

\* An acceptor holds some proposal of the leader, and with the current number the
\* current value.  Whatever it has committed is what the leader has.
AcceptorInv(n, i) ==
  /\ A(n, i).promised = A(n, i).accepted
  /\ A(n, i).accepted = Null \/ Proposed(A(n, i).accepted, i)
  /\ Current(A(n, i).accepted, i) => A(n, i).value = P(i).value
  /\ A(n, i).committed => P(i).committed /\ A(n, i).learned = P(i).value

\* A message under way.  An ACCEPT of the current proposal has not been accepted,
\* an ACCEPTED of it has, and there is one of a kind.
MessageInv(m) ==
  /\ m.type \in {"Accept", "Accepted"} =>
       /\ Proposed(m.proposal, m.inst) /\ m.accepted = Null
       /\ Current(m.proposal, m.inst) => m.value = P(m.inst).value /\ msgs[m] = 1
  /\ m.type = "Accept" =>
       m.from = Leader /\ (Current(m.proposal, m.inst) => A(m.to, m.inst).accepted # m.proposal)
  /\ m.type = "Accepted" =>
       m.to = Leader /\ (Current(m.proposal, m.inst) => A(m.from, m.inst).accepted = m.proposal)
  /\ m.type = "Learn" => P(m.inst).committed /\ m.value = P(m.inst).value
  /\ m.type = "Nack" => m.to = Leader

\* An ACCEPTED of the current proposal from q is under way.
Coming(q, i) == \E m \in DOMAIN msgs : /\ m.type = "Accepted" /\ m.from = q /\ m.inst = i
                                       /\ m.proposal = P(i).proposal

\* D has k elements at least.
AtLeast(D, k) == \E d \in [1 .. k -> D] : \A x, y \in 1 .. k : d[x] = d[y] => x = y

\* D are the acceptors whose ACCEPTED the leader has counted: none twice.
Counted(i, D) == /\ D \in SUBSET Nodes /\ AtLeast(D, P(i).accepts)
                 /\ \A q \in D : A(q, i).accepted = P(i).proposal /\ ~Coming(q, i)

PaxosInv == /\ \A i \in Instances : /\ ProposerInv(i)
                                    /\ P(i).known => \E D \in SUBSET Nodes : Counted(i, D)
            /\ \A n \in Nodes, i \in Instances : AcceptorInv(n, i)
            /\ \A m \in DOMAIN msgs : MessageInv(m)

-----------------------------------------------------------------------------
(* The network. *)

\* x is taken out of B and the messages in O are put in.
LEMMA TakenSent ==
  ASSUME NEW B, \A e \in DOMAIN B : B[e] \in Nat \ {0}, NEW x \in DOMAIN B, NEW O
  PROVE  LET C == Sent(Taken(B, x), O) IN
         /\ \A e \in DOMAIN C : /\ C[e] \in Nat \ {0}
                                /\ e \in O \/ (e \in DOMAIN B /\ C[e] <= B[e])
                                /\ e \notin DOMAIN B => e \in O /\ C[e] = 1
         /\ x \notin O /\ B[x] = 1 => x \notin DOMAIN C
  <1> DEFINE L == Taken(B, x)
             C == Sent(L, O)
  <1>1. \A e : e \in DOMAIN L => /\ e \in DOMAIN B /\ L[e] \in Nat \ {0} /\ L[e] <= B[e]
                                 /\ e = x => B[x] # 1
    <2>1. CASE B[x] = 1
      BY <2>1 DEF Taken
    <2>2. CASE B[x] # 1
      BY <2>2 DEF Taken
    <2> QED
      BY <2>1, <2>2, Zenon
  <1> HIDE DEF L
  <1>2. /\ DOMAIN C = DOMAIN L \cup O
        /\ \A e \in DOMAIN C : C[e] = IF e \in O THEN IF e \in DOMAIN L THEN L[e] + 1 ELSE 1 ELSE L[e]
    BY DEF Sent
  <1> HIDE DEF C
  <1>3. ASSUME NEW e \in DOMAIN C
        PROVE  /\ C[e] \in Nat \ {0}
               /\ e \in O \/ (e \in DOMAIN B /\ C[e] <= B[e])
               /\ e \notin DOMAIN B => e \in O /\ C[e] = 1
    BY <1>1, <1>2
  <1>4. x \notin O /\ B[x] = 1 => x \notin DOMAIN C
    BY <1>1, <1>2
  <1> QED
    BY <1>3, <1>4, Zenon DEF C, L

\* The same with nothing taken out.
LEMMA OnlySent ==
  ASSUME NEW B, \A e \in DOMAIN B : B[e] \in Nat \ {0}, NEW O
  PROVE  LET C == Sent(B, O) IN
         \A e \in DOMAIN C : /\ C[e] \in Nat \ {0}
                             /\ e \in O \/ (e \in DOMAIN B /\ C[e] <= B[e])
                             /\ e \notin DOMAIN B => e \in O /\ C[e] = 1
  <1> DEFINE C == Sent(B, O)
  <1>1. /\ DOMAIN C = DOMAIN B \cup O
        /\ \A e \in DOMAIN C : C[e] = IF e \in O THEN IF e \in DOMAIN B THEN B[e] + 1 ELSE 1 ELSE B[e]
    BY DEF Sent
  <1> HIDE DEF C
  <1>2. ASSUME NEW e \in DOMAIN C
        PROVE  /\ C[e] \in Nat \ {0}
               /\ e \in O \/ (e \in DOMAIN B /\ C[e] <= B[e])
               /\ e \notin DOMAIN B => e \in O /\ C[e] = 1
    BY <1>1
  <1> QED
    BY <1>2, Zenon DEF C

\* What a replica that did a result leaves behind.
LEMMA DidResult ==
  ASSUME NEW n, NEW q, NEW out, NEW status, NEW left, Did(n, Result(q, out, status), left)
  PROVE  /\ node' = [node EXCEPT ![n] = q]
         /\ msgs' = Sent(left, {x \in out : x.to \in setup.up})
         /\ setup' = setup
  <1>1. Result(q, out, status).node = q /\ Result(q, out, status).out = out
    BY DEF Result
  <1> QED
    BY <1>1, Zenon DEF Did

-----------------------------------------------------------------------------
(* Replicas and their types. *)

\* The leader is a replica, and it is up.
LEMMA LeaderUp ==
  ASSUME GroupTypes
  PROVE  Leader \in setup.up /\ setup.up \subseteq Nodes /\ Leader \in Nodes
  BY GroupAssumption DEF GroupTypes

\* The types of a replica and of what it keeps of an instance.
LEMMA NodeTypes ==
  ASSUME GroupTypes, NEW n \in Nodes, NEW i \in Instances
  PROVE  /\ node[n] \in NodeState /\ node[n].round \in Nat
         /\ node[n].inst \in [Instances -> InstanceState]
         /\ node[n].prop \in [Instances -> ProposerState]
         /\ A(n, i) \in InstanceState /\ node[n].prop[i] \in ProposerState
  <1>1. node[n] \in NodeState
    BY Zenon DEF GroupTypes
  <1>2. /\ node[n].round \in Nat /\ node[n].inst \in [Instances -> InstanceState]
        /\ node[n].prop \in [Instances -> ProposerState]
    BY <1>1 DEF NodeState
  <1> QED
    BY <1>1, <1>2, Zenon DEF A

\* The log entry of i is replaced by a; Track is one case.
LEMMA InstanceResult ==
  ASSUME NEW s \in NodeState, NEW i \in Instances, NEW a \in InstanceState
  PROVE  LET t == [s EXCEPT !.inst[i] = a] IN
         /\ t \in NodeState /\ t.round = s.round /\ t.prop = s.prop
         /\ \A j \in Instances : t.inst[j] = IF j = i THEN a ELSE s.inst[j]
  BY DEF NodeState

\* The initial state.
LEMMA InitPaxos ==
  ASSUME Init
  PROVE  GroupTypes /\ PaxosInv
  <1>1. Null \in Number /\ Empty \in Value
    BY DEF Null, Number, Value
  <1>2. NoInstance \in InstanceState /\ NoProposer \in ProposerState
    BY <1>1 DEF NoInstance, InstanceState, NoProposer, ProposerState
  <1>3. FreshNode \in NodeState
    BY <1>2 DEF FreshNode, NodeState
  <1>4. DOMAIN msgs = {}
    BY DEF Init
  <1>5. GroupTypes
    BY <1>3, <1>4 DEF Init, GroupTypes
  <1>6. \A n \in Nodes, i \in Instances : A(n, i) = NoInstance
    BY DEF Init, A, FreshNode
  <1>7. \A i \in Instances : P(i) = NoProposer
    BY <1>5, LeaderUp DEF Init, P, FreshNode
  <1>8. \A i \in Instances : ProposerInv(i) /\ ~P(i).known
    BY <1>7 DEF ProposerInv, NoProposer
  <1>9. \A n \in Nodes, i \in Instances : AcceptorInv(n, i)
    BY <1>6, <1>8 DEF AcceptorInv, NoInstance, Current
  <1> QED
    BY <1>4, <1>5, <1>8, <1>9, Zenon DEF PaxosInv

-----------------------------------------------------------------------------
(* Steps. *)

\* Replica n takes back nothing about i in this step.
Kept(n, i) ==
  /\ A(n, i).committed => A(n, i)'.committed /\ A(n, i)'.learned = A(n, i).learned
  /\ ~Less(A(n, i)'.promised, A(n, i).promised) /\ ~Less(A(n, i)'.accepted, A(n, i).accepted)

\* What every step is shown to do.
Keeps == GroupTypes' /\ PaxosInv' /\ \A n \in Nodes, i \in Instances : Kept(n, i)

\* A log entry that stays as it is takes nothing back.
LEMMA SameKept ==
  ASSUME GroupTypes, NEW n \in Nodes, NEW i \in Instances,
         A(n, i).committed => A(n, i)'.committed /\ A(n, i)'.learned = A(n, i).learned,
         A(n, i)'.promised = A(n, i).promised, A(n, i)'.accepted = A(n, i).accepted
  PROVE  Kept(n, i)
  <1>1. A(n, i).promised \in Number /\ A(n, i).accepted \in Number
    BY NodeTypes DEF InstanceState
  <1>2. ~Less(A(n, i).promised, A(n, i).promised) /\ ~Less(A(n, i).accepted, A(n, i).accepted)
    BY <1>1 DEF Less, Number
  <1> QED
    BY <1>2, Zenon DEF Kept

\* Messages that were under way before, or are sent now and are what they should be.
OldMessage(e) == e \in DOMAIN msgs /\ msgs'[e] <= msgs[e]
NewMessage(e) ==
  /\ MessageInv(e)'
  /\ e.type = "Accepted" /\ Current(e.proposal, e.inst) =>
       ~Current(A(e.from, e.inst).accepted, e.inst)

\* A step in which the leader's proposals stay as they are, and an acceptor gives
\* up no proposal that is current.
LEMMA Passive ==
  ASSUME GroupTypes, GroupTypes', PaxosInv,
         \A j \in Instances : P(j)' = P(j), node'[Leader].round >= node[Leader].round,
         \A k \in Nodes, j \in Instances :
           /\ AcceptorInv(k, j)' /\ (A(k, j).tracked => A(k, j).tracked')
           /\ A(k, j).committed => A(k, j).committed'
           /\ Current(A(k, j).accepted, j) => A(k, j).accepted' = A(k, j).accepted,
         \A e \in DOMAIN msgs' : OldMessage(e) \/ NewMessage(e),
         \A e \in DOMAIN msgs' : e.type = "Accept" /\ Current(e.proposal, e.inst) =>
           A(e.to, e.inst).accepted' # e.proposal
  PROVE  PaxosInv'
  <1>0. Leader \in Nodes
    BY LeaderUp, Zenon
  <1>1. \A j \in Instances : \A p : (Proposed(p, j)' <=> Proposed(p, j)) /\ (Current(p, j)' <=> Current(p, j))
    BY Zenon DEF Proposed, Current
  <1>2. ASSUME NEW j \in Instances
        PROVE  ProposerInv(j)'
    <2>1. ProposerInv(j) /\ P(j)' = P(j)
      BY Zenon DEF PaxosInv
    <2>2. node[Leader].round \in Nat /\ node'[Leader].round \in Nat /\ P(j) \in ProposerState
      BY <1>0, NodeTypes DEF GroupTypes, NodeState, P
    <2>3. P(j).known => P(j).proposal[1] <= node'[Leader].round
      <3>1. P(j).proposal[1] \in Nat
        BY <2>2 DEF ProposerState, Number
      <3> QED
        BY <2>1, <2>2, <3>1 DEF ProposerInv
    <2>4. P(j).known => Proposed(P(j).proposal, j)' /\ A(Leader, j).tracked'
      BY <1>0, <1>1, <2>1, Zenon DEF ProposerInv
    <2>5. P(j).committed => P(j).known /\ P(j).accepts >= Quorum /\ A(Leader, j).committed'
      BY <1>0, <2>1, Zenon DEF ProposerInv
    <2> QED
      BY <2>1, <2>3, <2>4, <2>5 DEF ProposerInv
  <1>3. ASSUME NEW e \in DOMAIN msgs'
        PROVE  MessageInv(e)'
    <2>1. CASE NewMessage(e)
      BY <2>1, Zenon DEF NewMessage
    <2>2. CASE OldMessage(e)
      <3>1. /\ MessageInv(e) /\ msgs'[e] <= msgs[e] /\ msgs'[e] \in Nat \ {0}
            /\ e.inst \in Instances /\ e.to \in Nodes /\ e.from \in Nodes
        BY <2>2 DEF OldMessage, PaxosInv, GroupTypes, Message
      <3>2. msgs[e] = 1 => msgs'[e] = 1
        BY <3>1
      <3>3. P(e.inst)' = P(e.inst)
        BY <3>1, Zenon
      <3>4. e.type \in {"Accept", "Accepted"} =>
              /\ Proposed(e.proposal, e.inst)' /\ e.accepted = Null
              /\ Current(e.proposal, e.inst)' => e.value = P(e.inst)'.value /\ msgs'[e] = 1
        BY <1>1, <3>1, <3>2, <3>3, Zenon DEF MessageInv
      <3>5. e.type = "Accept" =>
              e.from = Leader /\ (Current(e.proposal, e.inst)' => A(e.to, e.inst).accepted' # e.proposal)
        BY <1>1, <3>1, Zenon DEF MessageInv
      <3>6. e.type = "Accepted" =>
              e.to = Leader /\ (Current(e.proposal, e.inst)' => A(e.from, e.inst).accepted' = e.proposal)
        BY <1>1, <3>1, Zenon DEF MessageInv
      <3>7. e.type = "Learn" => P(e.inst)'.committed /\ e.value = P(e.inst)'.value
        BY <3>1, <3>3, Zenon DEF MessageInv
      <3>8. e.type = "Nack" => e.to = Leader
        BY <3>1, Zenon DEF MessageInv
      <3> QED
        BY <3>4, <3>5, <3>6, <3>7, <3>8 DEF MessageInv
    <2> QED
      BY <2>1, <2>2, Zenon
  <1>4. ASSUME NEW j \in Instances, P(j)'.known
        PROVE  \E D \in SUBSET Nodes : Counted(j, D)'
    <2>1. PICK D \in SUBSET Nodes : Counted(j, D)
      BY <1>4, Zenon DEF PaxosInv
    <2>2. P(j)' = P(j) /\ P(j).known
      BY <1>4, Zenon
    <2>3. ASSUME NEW q \in D
          PROVE  A(q, j).accepted' = P(j).proposal /\ ~Coming(q, j)'
      <3>1. A(q, j).accepted = P(j).proposal /\ ~Coming(q, j) /\ q \in Nodes
        BY <2>1, Zenon DEF Counted
      <3>2. Current(A(q, j).accepted, j)
        BY <2>2, <3>1, Zenon DEF Current
      <3>3. ASSUME NEW e \in DOMAIN msgs', e.type = "Accepted", e.from = q, e.inst = j,
                   e.proposal = P(j).proposal
            PROVE  FALSE
        <4>1. Current(e.proposal, e.inst)
          BY <2>2, <3>3, Zenon DEF Current
        <4>2. CASE OldMessage(e)
          BY <3>1, <3>3, <4>2, Zenon DEF OldMessage, Coming
        <4>3. CASE NewMessage(e)
          BY <3>2, <3>3, <4>1, <4>3, Zenon DEF NewMessage
        <4> QED
          BY <4>2, <4>3, Zenon
      <3>4. ~Coming(q, j)'
        BY <2>2, <3>3, Zenon DEF Coming
      <3> QED
        BY <3>1, <3>2, <3>4, Zenon
    <2>4. Counted(j, D)'
      BY <2>1, <2>2, <2>3, Zenon DEF Counted
    <2> QED
      BY <2>4, Zenon
  <1> QED
    BY <1>2, <1>3, <1>4, Zenon DEF PaxosInv

\* What replica n may put in its log for i, on a message m.
Entry(n, i, a, m) ==
  /\ a \in InstanceState
  /\ A(n, i).tracked => a.tracked
  /\ A(n, i).committed => a.committed
  /\ a.promised = a.accepted /\ ~Less(a.promised, A(n, i).promised)
  /\ a.accepted = Null \/ Proposed(a.accepted, i)
  /\ Current(a.accepted, i) => a.value = P(i).value
  /\ a.committed => P(i).committed /\ a.learned = P(i).value
  /\ Current(A(n, i).accepted, i) => a.accepted = A(n, i).accepted
  /\ a.accepted = A(n, i).accepted \/ (m.type = "Accept" /\ a.accepted = m.proposal)

\* What it may answer.
Answer(n, i, a, x) ==
  /\ x \in Message
  /\ \/ x.type = "Learn" /\ P(x.inst).committed /\ x.value = P(x.inst).value
     \/ x.type = "Nack" /\ x.to = Leader
     \/ /\ x.type = "Accepted" /\ x.from = n /\ x.to = Leader /\ x.inst = i
        /\ x.proposal = a.accepted /\ Proposed(x.proposal, i) /\ x.accepted = Null
        /\ Current(x.proposal, i) => x.value = P(i).value /\ A(n, i).accepted # x.proposal

\* A step of an acceptor that handles a message m keeps the invariant.
LEMMA AcceptorStep ==
  ASSUME GroupTypes, PaxosInv, NEW m \in DOMAIN msgs, NEW a, NEW O,
         Entry(m.to, m.inst, a, m), \A x \in O : Answer(m.to, m.inst, a, x),
         node' = [node EXCEPT ![m.to] = [node[m.to] EXCEPT !.inst[m.inst] = a]],
         msgs' = Sent(Taken(msgs, m), O), setup' = setup
  PROVE  Keeps
  <1> DEFINE n == m.to
             i == m.inst
  <1>0. Leader \in Nodes /\ n \in Nodes /\ i \in Instances /\ m \in Message /\ MessageInv(m)
    BY LeaderUp DEF GroupTypes, Message, PaxosInv
  <1>1. node[n] \in NodeState /\ a \in InstanceState
    BY <1>0, NodeTypes, Zenon DEF Entry
  <1> DEFINE t == [node[n] EXCEPT !.inst[i] = a]
  <1>2. /\ t \in NodeState /\ t.round = node[n].round /\ t.prop = node[n].prop
        /\ \A j \in Instances : t.inst[j] = IF j = i THEN a ELSE node[n].inst[j]
    BY <1>0, <1>1, InstanceResult
  <1>3. node' \in [Nodes -> NodeState] /\ \A k \in Nodes : node'[k] = IF k = n THEN t ELSE node[k]
    BY <1>0, <1>2, Zenon DEF GroupTypes
  <1> HIDE DEF t
  <1>4. /\ \A e \in DOMAIN msgs' : /\ msgs'[e] \in Nat \ {0} /\ (e \in O \/ OldMessage(e))
                                   /\ e \notin DOMAIN msgs => e \in O /\ msgs'[e] = 1
        /\ m \notin O /\ msgs[m] = 1 => m \notin DOMAIN msgs'
    BY TakenSent DEF GroupTypes, OldMessage
  <1>5. GroupTypes'
    <2>1. \A e \in DOMAIN msgs' : e \in Message
      BY <1>4, Zenon DEF Answer, GroupTypes, OldMessage
    <2> QED
      BY <1>3, <1>4, <2>1, Zenon DEF GroupTypes
  <1>6. \A k \in Nodes, j \in Instances : A(k, j)' = IF k = n /\ j = i THEN a ELSE A(k, j)
    BY <1>2, <1>3, Zenon DEF A
  <1>7. \A j \in Instances : P(j)' = P(j)
    BY <1>0, <1>2, <1>3, Zenon DEF P
  <1>8. node'[Leader].round >= node[Leader].round
    <2>1. node'[Leader].round = node[Leader].round /\ node[Leader].round \in Nat
      BY <1>0, <1>2, <1>3, NodeTypes, Zenon
    <2> QED
      BY <2>1
  <1>9. \A j \in Instances : \A p : (Proposed(p, j)' <=> Proposed(p, j)) /\ (Current(p, j)' <=> Current(p, j))
    BY <1>7, Zenon DEF Proposed, Current
  <1>10. \A k \in Nodes, j \in Instances :
           /\ AcceptorInv(k, j)' /\ (A(k, j).tracked => A(k, j).tracked')
           /\ A(k, j).committed => A(k, j).committed'
           /\ Current(A(k, j).accepted, j) => A(k, j).accepted' = A(k, j).accepted
    <2> SUFFICES ASSUME NEW k \in Nodes, NEW j \in Instances
                 PROVE  /\ AcceptorInv(k, j)' /\ (A(k, j).tracked => A(k, j).tracked')
                        /\ A(k, j).committed => A(k, j).committed'
                        /\ Current(A(k, j).accepted, j) => A(k, j).accepted' = A(k, j).accepted
      BY Zenon
    <2>1. CASE k = n /\ j = i
      BY <1>6, <1>7, <1>9, <2>1, Zenon DEF Entry, AcceptorInv
    <2>2. CASE ~(k = n /\ j = i)
      <3>1. A(k, j)' = A(k, j) /\ AcceptorInv(k, j) /\ P(j)' = P(j)
        BY <1>6, <1>7, <2>2, Zenon DEF PaxosInv
      <3> QED
        BY <1>9, <3>1, Zenon DEF AcceptorInv
    <2> QED
      BY <2>1, <2>2, Zenon
  <1>11. ASSUME NEW e \in DOMAIN msgs', ~OldMessage(e)
         PROVE  NewMessage(e)
    <2>1. e \in O /\ e \in Message /\ Answer(n, i, a, e) /\ e.inst \in Instances
      BY <1>4, <1>5, <1>11 DEF Answer, Message
    <2>2. CASE e.type = "Learn"
      BY <1>7, <2>1, <2>2 DEF NewMessage, MessageInv, Answer
    <2>3. CASE e.type = "Nack"
      BY <2>1, <2>3 DEF NewMessage, MessageInv, Answer
    <2>4. CASE e.type = "Accepted"
      <3>1. /\ e.from = n /\ e.to = Leader /\ e.inst = i
            /\ e.proposal = a.accepted /\ Proposed(e.proposal, i) /\ e.accepted = Null
            /\ Current(e.proposal, i) => e.value = P(i).value /\ A(n, i).accepted # e.proposal
        BY <2>1, <2>4 DEF Answer
      <3>2. Current(e.proposal, i) => ~Current(A(n, i).accepted, i)
        BY <3>1, Zenon DEF Current
      <3>3. Current(e.proposal, i) => e \notin DOMAIN msgs
        BY <2>4, <3>1, ZenonT(40) DEF PaxosInv, MessageInv
      <3>4. Current(e.proposal, i) => msgs'[e] = 1
        BY <1>4, <3>3, Zenon
      <3>5. A(e.from, e.inst).accepted' = e.proposal
        BY <1>0, <1>6, <3>1, Zenon
      <3>6. MessageInv(e)'
        BY <1>0, <1>7, <1>9, <2>4, <3>1, <3>4, <3>5 DEF MessageInv
      <3> QED
        BY <3>1, <3>2, <3>6, Zenon DEF NewMessage
    <2> QED
      BY <2>1, <2>2, <2>3, <2>4, Zenon DEF Answer
  <1>12. ASSUME NEW e \in DOMAIN msgs', e.type = "Accept", Current(e.proposal, e.inst)
         PROVE  A(e.to, e.inst).accepted' # e.proposal
    <2>1. e \in DOMAIN msgs /\ e \in Message /\ e \notin O
      <3>1. e \notin O
        BY <1>12 DEF Answer
      <3> QED
        BY <1>4, <1>5, <3>1, Zenon DEF GroupTypes
    <2>2. A(e.to, e.inst).accepted # e.proposal /\ e.from = Leader /\ e.accepted = Null
          /\ e.value = P(e.inst).value /\ msgs[e] = 1 /\ e.to \in Nodes /\ e.inst \in Instances
      BY <1>12, <2>1 DEF PaxosInv, MessageInv, Message
    <2>3. CASE e.to = n /\ e.inst = i /\ a.accepted # A(n, i).accepted
      <3>1. m.type = "Accept" /\ a.accepted = m.proposal
        BY <2>3, Zenon DEF Entry
      <3>2. m.proposal # e.proposal
        <4> SUFFICES ASSUME m.proposal = e.proposal PROVE FALSE
          BY Zenon
        <4>1. m.from = Leader /\ m.accepted = Null /\ m.value = P(i).value
          BY <1>0, <1>12, <2>3, <3>1 DEF MessageInv
        <4>2. e = m
          BY <1>0, <1>12, <2>1, <2>2, <2>3, <3>1, <4>1 DEF Message
        <4> QED
          BY <1>4, <2>1, <2>2, <4>2, Zenon
      <3> QED
        BY <1>0, <1>6, <2>3, <3>1, <3>2, Zenon
    <2>4. CASE ~(e.to = n /\ e.inst = i /\ a.accepted # A(n, i).accepted)
      <3>1. A(e.to, e.inst).accepted' = A(e.to, e.inst).accepted
        BY <1>6, <2>2, <2>4, Zenon
      <3> QED
        BY <2>2, <3>1, Zenon
    <2> QED
      BY <2>3, <2>4, Zenon
  <1>13. PaxosInv'
    BY <1>5, <1>7, <1>8, <1>10, <1>11, <1>12, Passive, Zenon
  <1>14. ASSUME NEW k \in Nodes, NEW j \in Instances
         PROVE  Kept(k, j)
    <2>1. CASE k = n /\ j = i
      <3>1. A(k, j)' = a /\ AcceptorInv(k, j)
        BY <1>6, <2>1, Zenon DEF PaxosInv
      <3>2. A(k, j).committed => a.committed /\ a.learned = A(k, j).learned
        BY <2>1, <3>1, Zenon DEF Entry, AcceptorInv
      <3>3. ~Less(a.promised, A(k, j).promised) /\ ~Less(a.accepted, A(k, j).accepted)
        BY <2>1, <3>1, Zenon DEF Entry, AcceptorInv
      <3> QED
        BY <3>1, <3>2, <3>3, Zenon DEF Kept
    <2>2. CASE ~(k = n /\ j = i)
      <3>1. A(k, j)' = A(k, j)
        BY <1>6, <2>2, Zenon
      <3> QED
        BY <3>1, SameKept, Zenon
    <2> QED
      BY <2>1, <2>2, Zenon
  <1> QED
    BY <1>5, <1>13, <1>14, Zenon DEF Keeps

\* No number is smaller than itself.
LEMMA NotLess ==
  ASSUME NEW st \in InstanceState
  PROVE  ~Less(st.promised, st.promised)
  <1>1. st.promised \in Number
    BY DEF InstanceState
  <1> QED
    BY <1>1 DEF Less, Number

\* What HandleAccept makes of an entry st, and of a replica s.
AcceptedEntry(st, p, v) ==
  [st EXCEPT !.tracked = TRUE, !.promised = p, !.accepted = p, !.value = v]
AcceptedNode(s, i, p, v) ==
  [Track(s, i) EXCEPT !.inst[i].promised = p, !.inst[i].accepted = p, !.inst[i].value = v]

\* What HandleAccept does to the log is to replace one entry.
LEMMA AcceptEntry ==
  ASSUME NEW s \in NodeState, NEW i \in Instances, NEW p, NEW v
  PROVE  AcceptedNode(s, i, p, v) = [s EXCEPT !.inst[i] = AcceptedEntry(s.inst[i], p, v)]
  BY ZenonT(40) DEF NodeState, InstanceState, Track, AcceptedNode, AcceptedEntry

\* A message under way, its receiver and the entry of the receiver's log.
LEMMA Receiver ==
  ASSUME GroupTypes, PaxosInv, NEW m \in DOMAIN msgs
  PROVE  /\ m \in Message /\ MessageInv(m) /\ m.to \in Nodes /\ m.from \in Nodes
         /\ m.inst \in Instances /\ m.proposal \in Number /\ m.value \in Value
         /\ node[m.to] \in NodeState /\ A(m.to, m.inst) \in InstanceState
         /\ AcceptorInv(m.to, m.inst) /\ node[m.to].inst[m.inst] = A(m.to, m.inst)
  <1>1. /\ m \in Message /\ MessageInv(m) /\ m.to \in Nodes /\ m.from \in Nodes
        /\ m.inst \in Instances /\ m.proposal \in Number /\ m.value \in Value
    BY DEF GroupTypes, PaxosInv, Message
  <1> QED
    BY <1>1, NodeTypes, Zenon DEF PaxosInv, A

\* A message that changes nothing.
LEMMA Ignored ==
  ASSUME GroupTypes, PaxosInv, NEW m \in DOMAIN msgs,
         Did(m.to, Result(node[m.to], {}, "Ok"), Taken(msgs, m))
         \/ Did(m.to, Result(node[m.to], {}, "InstanceOverflow"), Taken(msgs, m))
         \/ Did(m.to, Result(node[m.to], {}, "AlreadyCommitted"), Taken(msgs, m))
  PROVE  Keeps
  <1> DEFINE a == A(m.to, m.inst)
  <1>1. /\ a \in InstanceState /\ AcceptorInv(m.to, m.inst) /\ node[m.to] \in NodeState
        /\ m.inst \in Instances /\ node[m.to].inst[m.inst] = a
    BY Receiver, Zenon
  <1>2. Entry(m.to, m.inst, a, m)
    BY <1>1, NotLess, Zenon DEF Entry, AcceptorInv
  <1>3. node[m.to] = [node[m.to] EXCEPT !.inst[m.inst] = a]
    BY <1>1 DEF NodeState
  <1>4. {x \in {} : x.to \in setup.up} = {}
    OBVIOUS
  <1>5. /\ node' = [node EXCEPT ![m.to] = [node[m.to] EXCEPT !.inst[m.inst] = a]]
        /\ msgs' = Sent(Taken(msgs, m), {}) /\ setup' = setup
    BY <1>3, <1>4 DEF Did, Result
  <1> DEFINE O == {}
  <1>6. msgs' = Sent(Taken(msgs, m), O) /\ \A x \in O : Answer(m.to, m.inst, a, x)
    BY <1>5, Zenon
  <1> HIDE DEF a, O
  <1> QED
    BY <1>2, <1>5, <1>6, AcceptorStep, Zenon

\* HandleAccept keeps the invariant, whether it accepts, refuses or ignores.
LEMMA AcceptKeeps ==
  ASSUME GroupTypes, PaxosInv, NEW m \in DOMAIN msgs, m.type = "Accept",
         Did(m.to, HandleAccept(m.to, node[m.to], m), Taken(msgs, m))
  PROVE  Keeps
  <1> DEFINE n == m.to
             i == m.inst
             s == node[n]
             st == A(n, i)
             left == Taken(msgs, m)
  <1>1. /\ m \in Message /\ MessageInv(m) /\ n \in Nodes
        /\ i \in Instances /\ m.proposal \in Number /\ m.value \in Value
        /\ s \in NodeState /\ st \in InstanceState /\ AcceptorInv(n, i) /\ s.inst[i] = st
    BY Receiver, Zenon
  <1>2. /\ m.from = Leader /\ Proposed(m.proposal, i) /\ m.accepted = Null
        /\ Current(m.proposal, i) => m.value = P(i).value /\ st.accepted # m.proposal
    BY <1>1 DEF MessageInv
  <1>3. Leader \in Nodes /\ Null \in Number /\ Empty \in Value
    BY LeaderUp DEF Null, Number, Value
  <1>4. CASE Full(n, s, i)
    BY <1>4, Ignored, Zenon DEF HandleAccept
  <1>5. CASE ~Full(n, s, i) /\ (st.committed \/ Less(m.proposal, st.promised))
    <2> DEFINE a == [st EXCEPT !.tracked = TRUE]
               B == IF st.committed THEN MakeLearn(n, Leader, i, st.learned)
                                    ELSE MakeNack(n, Leader, i, st.promised)
               O == {x \in B : x.to \in setup.up}
    <2>1. /\ a \in InstanceState /\ a.tracked /\ a.committed = st.committed /\ a.learned = st.learned
          /\ a.promised = st.promised /\ a.accepted = st.accepted /\ a.value = st.value
      BY <1>1, Zenon DEF InstanceState
    <2>2. Track(s, i) = [s EXCEPT !.inst[i] = a]
      BY <1>1 DEF NodeState, InstanceState, Track
    <2>3. node' = [node EXCEPT ![n] = [s EXCEPT !.inst[i] = a]] /\ msgs' = Sent(left, O) /\ setup' = setup
      BY <1>1, <1>2, <1>5, <2>2, Zenon DEF HandleAccept, Did, Result
    <2> HIDE DEF a
    <2>4. Entry(n, i, a, m)
      BY <1>1, <2>1, NotLess, Zenon DEF Entry, AcceptorInv
    <2>5. ASSUME NEW x \in O
          PROVE  Answer(n, i, a, x)
      <3>1. CASE st.committed
        <4>1. x = Msg("Learn", n, Leader, i, Null, st.learned, Null)
          BY <3>1 DEF MakeLearn
        <4>2. P(i).committed /\ st.learned = P(i).value /\ st.learned \in Value
          BY <1>1, <3>1 DEF AcceptorInv, InstanceState
        <4> QED
          BY <1>1, <1>3, <4>1, <4>2 DEF Answer, Message, Msg
      <3>2. CASE ~st.committed
        <4>1. x = Msg("Nack", n, Leader, i, st.promised, Empty, Null)
          BY <3>2 DEF MakeNack
        <4>2. st.promised \in Number
          BY <1>1 DEF InstanceState
        <4> QED
          BY <1>1, <1>3, <4>1, <4>2 DEF Answer, Message, Msg
      <3> QED
        BY <3>1, <3>2, Zenon
    <2> HIDE DEF O
    <2> QED
      BY <2>3, <2>4, <2>5, AcceptorStep, Zenon
  <1>6. CASE ~Full(n, s, i) /\ ~st.committed /\ ~Less(m.proposal, st.promised)
    <2> DEFINE a == AcceptedEntry(st, m.proposal, m.value)
               O == {x \in MakeAccepted(n, Leader, i, m.proposal, m.value) : x.to \in setup.up}
    <2>1. /\ a \in InstanceState /\ a.tracked /\ ~a.committed
          /\ a.promised = m.proposal /\ a.accepted = m.proposal /\ a.value = m.value
      BY <1>1, <1>6, Zenon DEF InstanceState, AcceptedEntry
    <2>2. AcceptedNode(s, i, m.proposal, m.value) = [s EXCEPT !.inst[i] = a]
      <3>1. AcceptedNode(s, i, m.proposal, m.value)
            = [s EXCEPT !.inst[i] = AcceptedEntry(s.inst[i], m.proposal, m.value)]
        BY <1>1, AcceptEntry
      <3> QED
        BY <1>1, <3>1
    <2> HIDE DEF a
    <2>3. node' = [node EXCEPT ![n] = [s EXCEPT !.inst[i] = a]] /\ msgs' = Sent(left, O) /\ setup' = setup
      <3>1. HandleAccept(n, s, m) = Result(AcceptedNode(s, i, m.proposal, m.value),
                                           MakeAccepted(n, Leader, i, m.proposal, m.value), "Ok")
        BY <1>1, <1>2, <1>6 DEF HandleAccept, AcceptedNode
      <3>2. Did(n, Result(AcceptedNode(s, i, m.proposal, m.value),
                          MakeAccepted(n, Leader, i, m.proposal, m.value), "Ok"), left)
        BY <1>1, <3>1, Zenon
      <3>3. /\ node' = [node EXCEPT ![n] = AcceptedNode(s, i, m.proposal, m.value)]
            /\ msgs' = Sent(left, {x \in MakeAccepted(n, Leader, i, m.proposal, m.value) : x.to \in setup.up})
            /\ setup' = setup
        <4> HIDE DEF n, s, i, left
        <4> QED
          BY <3>2, DidResult
      <3> QED
        BY <2>2, <3>3, Zenon
    <2>4. Current(st.accepted, i) => m.proposal = st.accepted
      <3> SUFFICES ASSUME Current(st.accepted, i) PROVE m.proposal = st.accepted
        BY Zenon
      <3>1. st.promised = P(i).proposal /\ st.accepted = P(i).proposal
        BY <1>1, Zenon DEF AcceptorInv, Current
      <3>2. P(i).proposal[2] = Leader /\ m.proposal[2] = Leader /\ m.proposal[1] \in 1 .. P(i).proposal[1]
        BY <1>1, <1>2, Zenon DEF PaxosInv, ProposerInv, Proposed
      <3>3. P(i).proposal \in Number
        BY <1>1, <3>1 DEF InstanceState
      <3> QED
        BY <1>1, <1>6, <3>1, <3>2, <3>3 DEF Less, Number
    <2>5. Entry(n, i, a, m)
      BY <1>1, <1>2, <1>6, <2>1, <2>4, Zenon DEF Entry
    <2>6. ASSUME NEW x \in O
          PROVE  Answer(n, i, a, x)
      <3>1. x = Msg("Accepted", n, Leader, i, m.proposal, m.value, Null)
        BY DEF MakeAccepted
      <3>2. x \in Message
        BY <1>1, <1>3, <3>1 DEF Message, Msg
      <3>3. /\ x.type = "Accepted" /\ x.from = n /\ x.to = Leader /\ x.inst = i
            /\ x.proposal = m.proposal /\ x.value = m.value /\ x.accepted = Null
        BY <3>1 DEF Msg
      <3> QED
        BY <1>2, <2>1, <3>2, <3>3, Zenon DEF Answer
    <2> HIDE DEF O
    <2> QED
      BY <2>3, <2>5, <2>6, AcceptorStep, Zenon
  <1> QED
    BY <1>4, <1>5, <1>6, Zenon

\* HandleLearn keeps the invariant: it commits what the leader has committed.
LEMMA LearnKeeps ==
  ASSUME GroupTypes, PaxosInv, NEW m \in DOMAIN msgs, m.type = "Learn",
         Did(m.to, HandleLearn(m.to, node[m.to], m), Taken(msgs, m))
  PROVE  Keeps
  <1> DEFINE n == m.to
             i == m.inst
             s == node[n]
             st == A(n, i)
  <1>1. /\ MessageInv(m) /\ n \in Nodes /\ i \in Instances /\ m.value \in Value
        /\ s \in NodeState /\ st \in InstanceState /\ AcceptorInv(n, i) /\ s.inst[i] = st
    BY Receiver, Zenon
  <1>2. P(i).committed /\ m.value = P(i).value
    BY <1>1, Zenon DEF MessageInv
  <1>3. CASE Full(n, s, i)
    BY <1>3, Ignored, Zenon DEF HandleLearn
  <1>4. CASE ~Full(n, s, i) /\ st.committed
    BY <1>1, <1>4, Ignored, Zenon DEF HandleLearn
  <1>5. CASE ~Full(n, s, i) /\ ~st.committed
    <2> DEFINE a == [st EXCEPT !.tracked = TRUE, !.committed = TRUE, !.learned = m.value]
    <2>1. /\ a \in InstanceState /\ a.tracked /\ a.committed /\ a.learned = m.value
          /\ a.promised = st.promised /\ a.accepted = st.accepted /\ a.value = st.value
      BY <1>1, Zenon DEF InstanceState
    <2>2. [Track(s, i) EXCEPT !.inst[i].committed = TRUE, !.inst[i].learned = m.value] = [s EXCEPT !.inst[i] = a]
      BY <1>1, ZenonT(40) DEF NodeState, InstanceState, Track
    <2>3. {x \in {} : x.to \in setup.up} = {}
      OBVIOUS
    <2>4. /\ node' = [node EXCEPT ![n] = [s EXCEPT !.inst[i] = a]]
          /\ msgs' = Sent(Taken(msgs, m), {}) /\ setup' = setup
      BY <1>1, <1>5, <2>2, <2>3, Zenon DEF HandleLearn, Did, Result
    <2> HIDE DEF a
    <2>5. Entry(n, i, a, m)
      BY <1>1, <1>2, <2>1, NotLess, Zenon DEF Entry, AcceptorInv
    <2> DEFINE O == {}
    <2>6. msgs' = Sent(Taken(msgs, m), O) /\ \A x \in O : Answer(n, i, a, x)
      BY <2>4, Zenon
    <2> HIDE DEF O
    <2> QED
      BY <2>4, <2>5, <2>6, AcceptorStep, Zenon
  <1> QED
    BY <1>3, <1>4, <1>5, Zenon

\* A step that changes no entry, no proposal and sends nothing.
LEMMA Quiet ==
  ASSUME GroupTypes, GroupTypes', PaxosInv,
         \A j \in Instances : P(j)' = P(j), node'[Leader].round >= node[Leader].round,
         \A k \in Nodes, j \in Instances : A(k, j)' = A(k, j),
         \A e \in DOMAIN msgs' : OldMessage(e)
  PROVE  Keeps
  <1>1. \A j \in Instances : \A p : (Proposed(p, j)' <=> Proposed(p, j)) /\ (Current(p, j)' <=> Current(p, j))
    BY Zenon DEF Proposed, Current
  <1>2. \A k \in Nodes, j \in Instances :
           /\ AcceptorInv(k, j)' /\ (A(k, j).tracked => A(k, j).tracked')
           /\ A(k, j).committed => A(k, j).committed'
           /\ Current(A(k, j).accepted, j) => A(k, j).accepted' = A(k, j).accepted
    <2> SUFFICES ASSUME NEW k \in Nodes, NEW j \in Instances
                 PROVE  /\ AcceptorInv(k, j)' /\ (A(k, j).tracked => A(k, j).tracked')
                        /\ A(k, j).committed => A(k, j).committed'
                        /\ Current(A(k, j).accepted, j) => A(k, j).accepted' = A(k, j).accepted
      BY Zenon
    <2>1. AcceptorInv(k, j) /\ A(k, j)' = A(k, j) /\ P(j)' = P(j)
      BY Zenon DEF PaxosInv
    <2> QED
      BY <1>1, <2>1, Zenon DEF AcceptorInv
  <1>3. ASSUME NEW e \in DOMAIN msgs', e.type = "Accept", Current(e.proposal, e.inst)
        PROVE  A(e.to, e.inst).accepted' # e.proposal
    <2>1. e \in DOMAIN msgs /\ e.to \in Nodes /\ e.inst \in Instances
      BY DEF OldMessage, GroupTypes, Message
    <2> QED
      BY <1>3, <2>1, Zenon DEF PaxosInv, MessageInv
  <1>4. PaxosInv'
    BY <1>2, <1>3, Passive, Zenon
  <1>5. \A k \in Nodes, j \in Instances : Kept(k, j)
    BY SameKept, Zenon
  <1> QED
    BY <1>4, <1>5, Zenon DEF Keeps

\* HandleNack keeps the invariant.
LEMMA NackKeeps ==
  ASSUME GroupTypes, PaxosInv, NEW m \in DOMAIN msgs, m.type = "Nack",
         Did(m.to, HandleNack(m.to, node[m.to], m), Taken(msgs, m))
  PROVE  Keeps
  <1> DEFINE n == m.to
             s == node[n]
             r == IF m.proposal[1] >= s.round THEN m.proposal[1] ELSE s.round
             t == [s EXCEPT !.round = r]
  <1>1. n \in Nodes /\ m.proposal \in Number /\ s \in NodeState /\ Leader \in Nodes
    BY Receiver, LeaderUp, Zenon
  <1>2. t \in NodeState /\ t.inst = s.inst /\ t.prop = s.prop /\ t.round >= s.round
    BY <1>1 DEF NodeState, Number
  <1>3. {x \in {} : x.to \in setup.up} = {}
    OBVIOUS
  <1>4. node' = [node EXCEPT ![n] = t] /\ msgs' = Sent(Taken(msgs, m), {}) /\ setup' = setup
    BY <1>3 DEF Did, HandleNack, Result
  <1> HIDE DEF t
  <1>5. node' \in [Nodes -> NodeState] /\ \A k \in Nodes : node'[k] = IF k = n THEN t ELSE node[k]
    BY <1>1, <1>2, <1>4, Zenon DEF GroupTypes
  <1>6. \A e \in DOMAIN msgs' : msgs'[e] \in Nat \ {0} /\ OldMessage(e)
    BY <1>4, TakenSent DEF GroupTypes, OldMessage
  <1>7. GroupTypes'
    BY <1>4, <1>5, <1>6 DEF GroupTypes, OldMessage
  <1>8. \A j \in Instances : P(j)' = P(j)
    BY <1>1, <1>2, <1>5, Zenon DEF P
  <1>9. \A k \in Nodes, j \in Instances : A(k, j)' = A(k, j)
    BY <1>2, <1>5, Zenon DEF A
  <1>10. node'[Leader].round >= node[Leader].round
    <2>1. node[Leader].round \in Nat
      BY <1>1 DEF GroupTypes, NodeState
    <2> QED
      BY <1>1, <1>2, <1>5, <2>1
  <1> QED
    BY <1>6, <1>7, <1>8, <1>9, <1>10, Quiet, Zenon

\* Counting elements of a set.
LEMMA AtLeastNone == AtLeast({}, 0)
  <1>1. [x \in 1 .. 0 |-> x] \in [1 .. 0 -> {}] /\ \A x, y \in 1 .. 0 : FALSE
    OBVIOUS
  <1> QED
    BY <1>1, Zenon DEF AtLeast

\* One more element makes one more to count.
LEMMA AtLeastOneMore ==
  ASSUME NEW D, NEW k \in Nat, AtLeast(D, k), NEW q, q \notin D
  PROVE  AtLeast(D \cup {q}, k + 1)
  <1>1. PICK d \in [1 .. k -> D] : \A x, y \in 1 .. k : d[x] = d[y] => x = y
    BY Zenon DEF AtLeast
  <1> DEFINE f == [x \in 1 .. k + 1 |-> IF x = k + 1 THEN q ELSE d[x]]
  <1>2. \A x \in 1 .. k + 1 : x = k + 1 \/ x \in 1 .. k
    OBVIOUS
  <1>3. f \in [1 .. k + 1 -> D \cup {q}]
    BY <1>2
  <1>4. \A x, y \in 1 .. k + 1 : f[x] = f[y] => x = y
    BY <1>1, <1>2
  <1> HIDE DEF f
  <1> QED
    BY <1>3, <1>4, Zenon DEF AtLeast

\* Messages with the same fields, and copies of a message.
LEMMA SameMessage ==
  ASSUME NEW a \in Message, NEW b \in Message, a.type = b.type, a.from = b.from, a.to = b.to,
         a.inst = b.inst, a.proposal = b.proposal, a.value = b.value, a.accepted = b.accepted
  PROVE  a = b
  BY DEF Message

\* Of a message of which there was one copy, and of which there is still some, there is one.
LEMMA LastCopy ==
  ASSUME NEW a, NEW b \in Nat \ {0}, b <= a, a = 1
  PROVE  b = 1
  OBVIOUS

\* The leader counts the ACCEPTED m; c says that it commits.
Counts(m, c) ==
  /\ c <=> P(m.inst).accepts + 1 >= Quorum
  /\ P(m.inst)' = [P(m.inst) EXCEPT !.accepts = @ + 1, !.committed = c]
  /\ \A j \in Instances \ {m.inst} : P(j)' = P(j)
  /\ node'[Leader].round = node[Leader].round
  /\ \A k \in Nodes, j \in Instances :
       A(k, j)' = IF c /\ k = Leader /\ j = m.inst
                  THEN [A(k, j) EXCEPT !.tracked = TRUE, !.committed = TRUE, !.learned = m.value]
                  ELSE A(k, j)
  /\ m \notin DOMAIN msgs'
  /\ \A e \in DOMAIN msgs' : \/ OldMessage(e)
                             \/ (c /\ e.type = "Learn" /\ e.inst = m.inst /\ e.value = m.value)

\* If the ACCEPTED is of the current proposal, that keeps the invariant.
LEMMA CountStep ==
  ASSUME GroupTypes, PaxosInv, GroupTypes', NEW m \in DOMAIN msgs, m.type = "Accepted",
         Current(m.proposal, m.inst), ~P(m.inst).committed,
         NEW c \in BOOLEAN, Counts(m, c)
  PROVE  Keeps
  <1> DEFINE i == m.inst
  <1>1. /\ m \in Message /\ MessageInv(m) /\ m.from \in Nodes /\ i \in Instances /\ Leader \in Nodes
        /\ P(i) \in ProposerState
    BY Receiver, LeaderUp, NodeTypes, Zenon DEF P
  <1>2. /\ m.value = P(i).value /\ msgs[m] = 1 /\ m.to = Leader /\ m.accepted = Null
        /\ A(m.from, i).accepted = m.proposal /\ m.proposal = P(i).proposal /\ P(i).known
    BY <1>1, Zenon DEF MessageInv, Current
  <1>3. /\ P(i)'.known /\ P(i)'.proposal = P(i).proposal /\ P(i)'.value = P(i).value
        /\ P(i)'.accepts = P(i).accepts + 1 /\ (P(i)'.committed <=> c)
    <2>1. P(i)' = [P(i) EXCEPT !.accepts = @ + 1, !.committed = c]
      BY Zenon DEF Counts
    <2> QED
      BY <1>1, <1>2, <2>1 DEF ProposerState
  <1>4. \A j \in Instances : /\ P(j)'.known = P(j).known /\ P(j)'.proposal = P(j).proposal
                             /\ P(j)'.value = P(j).value /\ (P(j).committed => P(j)'.committed)
    <2>1. P(i).known = TRUE /\ P(i)'.known = TRUE
      BY <1>1, <1>2, <1>3, Zenon DEF ProposerState
    <2>2. \A j \in Instances \ {i} : P(j)' = P(j)
      BY Zenon DEF Counts
    <2> QED
      BY <1>1, <1>2, <1>3, <2>1, <2>2, Zenon
  <1>5. \A j \in Instances : \A p : (Proposed(p, j)' <=> Proposed(p, j)) /\ (Current(p, j)' <=> Current(p, j))
    BY <1>4, Zenon DEF Proposed, Current
  <1>6. \A k \in Nodes, j \in Instances :
          /\ A(k, j)'.promised = A(k, j).promised /\ A(k, j)'.accepted = A(k, j).accepted
          /\ A(k, j)'.value = A(k, j).value /\ (A(k, j).tracked => A(k, j)'.tracked)
          /\ A(k, j).committed => A(k, j)'.committed
          /\ j # i \/ k # Leader \/ ~c => A(k, j)' = A(k, j)
    <2> SUFFICES ASSUME NEW k \in Nodes, NEW j \in Instances
                 PROVE  /\ A(k, j)'.promised = A(k, j).promised /\ A(k, j)'.accepted = A(k, j).accepted
                        /\ A(k, j)'.value = A(k, j).value /\ (A(k, j).tracked => A(k, j)'.tracked)
                        /\ A(k, j).committed => A(k, j)'.committed
                        /\ j # i \/ k # Leader \/ ~c => A(k, j)' = A(k, j)
      BY Zenon
    <2>1. A(k, j) \in InstanceState
      BY NodeTypes, Zenon
    <2>2. CASE c /\ k = Leader /\ j = i
      <3>1. A(k, j)' = [A(k, j) EXCEPT !.tracked = TRUE, !.committed = TRUE, !.learned = m.value]
        BY <2>2, Zenon DEF Counts
      <3> QED
        BY <2>1, <2>2, <3>1 DEF InstanceState
    <2>3. CASE ~(c /\ k = Leader /\ j = i)
      <3>1. A(k, j)' = A(k, j)
        BY <2>3, Zenon DEF Counts
      <3> QED
        BY <2>3, <3>1, Zenon
    <2> QED
      BY <2>2, <2>3, Zenon
  <1>7. c => A(Leader, i)'.committed /\ A(Leader, i)'.learned = P(i).value
    <2> SUFFICES ASSUME c PROVE A(Leader, i)'.committed /\ A(Leader, i)'.learned = P(i).value
      BY Zenon
    <2>1. A(Leader, i) \in InstanceState
      BY <1>1, NodeTypes, Zenon
    <2>2. A(Leader, i)' = [A(Leader, i) EXCEPT !.tracked = TRUE, !.committed = TRUE, !.learned = m.value]
      BY <1>1, Zenon DEF Counts
    <2> QED
      BY <1>2, <2>1, <2>2 DEF InstanceState
  <1>8. ASSUME NEW j \in Instances
        PROVE  ProposerInv(j)'
    <2>1. ProposerInv(j)
      BY Zenon DEF PaxosInv
    <2>2. CASE j = i
      <3>1. c => P(i).accepts + 1 >= Quorum
        BY Zenon DEF Counts
      <3>2. node'[Leader].round = node[Leader].round
        BY Zenon DEF Counts
      <3>3. P(i)'.committed => P(i)'.accepts >= Quorum
        BY <1>3, <3>1, Zenon
      <3> QED
        BY <1>1, <1>3, <1>4, <1>5, <1>6, <1>7, <2>1, <2>2, <3>2, <3>3, Zenon DEF ProposerInv
    <2>3. CASE j # i
      <3>1. P(j)' = P(j) /\ node'[Leader].round = node[Leader].round
        BY <2>3, Zenon DEF Counts
      <3> QED
        BY <1>1, <1>4, <1>5, <1>6, <2>1, <3>1, Zenon DEF ProposerInv
    <2> QED
      BY <2>2, <2>3, Zenon
  <1>9. ASSUME NEW k \in Nodes, NEW j \in Instances
        PROVE  AcceptorInv(k, j)'
    <2>1. AcceptorInv(k, j)
      BY Zenon DEF PaxosInv
    <2>2. A(k, j)'.committed => P(j)'.committed /\ A(k, j)'.learned = P(j)'.value
      <3>1. CASE c /\ k = Leader /\ j = i
        BY <1>3, <1>7, <3>1, Zenon
      <3>2. CASE ~(c /\ k = Leader /\ j = i)
        <4>1. A(k, j)' = A(k, j)
          BY <1>6, <3>2, Zenon
        <4> QED
          BY <1>4, <2>1, <4>1, Zenon DEF AcceptorInv
      <3> QED
        BY <3>1, <3>2, Zenon
    <2> QED
      BY <1>4, <1>5, <1>6, <2>1, <2>2, Zenon DEF AcceptorInv
  <1>10. ASSUME NEW e \in DOMAIN msgs'
         PROVE  MessageInv(e)'
    <2>1. CASE c /\ e.type = "Learn" /\ e.inst = i /\ e.value = m.value
      <3>1. P(e.inst)'.committed /\ e.value = P(e.inst)'.value
        BY <1>2, <1>3, <2>1, Zenon
      <3> QED
        BY <2>1, <3>1, Zenon DEF MessageInv
    <2>2. CASE OldMessage(e)
      <3>1. /\ MessageInv(e) /\ msgs'[e] <= msgs[e] /\ msgs'[e] \in Nat \ {0}
            /\ e.inst \in Instances /\ e.to \in Nodes /\ e.from \in Nodes
        BY <2>2 DEF OldMessage, PaxosInv, GroupTypes, Message
      <3>2. msgs[e] = 1 => msgs'[e] = 1
        BY <3>1, LastCopy, Zenon
      <3> QED
        BY <1>4, <1>5, <1>6, <3>1, <3>2, Zenon DEF MessageInv
    <2> QED
      BY <2>1, <2>2, Zenon DEF Counts
  <1>11. ASSUME NEW q, NEW j \in Instances, Coming(q, j)'
         PROVE  Coming(q, j) /\ ~(q = m.from /\ j = i)
    <2>1. PICK e \in DOMAIN msgs' : /\ e.type = "Accepted" /\ e.from = q /\ e.inst = j
                                    /\ e.proposal = P(j).proposal
      BY <1>4, <1>11, Zenon DEF Coming
    <2>2. e \in DOMAIN msgs
      BY <2>1, Zenon DEF Counts, OldMessage
    <2>3. ~(q = m.from /\ j = i)
      <3> SUFFICES ASSUME q = m.from, j = i PROVE FALSE
        BY Zenon
      <3>1. e \in Message /\ MessageInv(e) /\ Current(e.proposal, e.inst)
        BY <1>2, <2>1, <2>2, Receiver, Zenon DEF Current
      <3>2. e.value = P(i).value /\ e.to = Leader /\ e.accepted = Null
        BY <2>1, <3>1, Zenon DEF MessageInv
      <3>3. /\ e.type = m.type /\ e.from = m.from /\ e.to = m.to /\ e.inst = m.inst
            /\ e.proposal = m.proposal /\ e.value = m.value /\ e.accepted = m.accepted
        BY <1>2, <2>1, <3>2, Zenon
      <3>4. e = m
        BY <1>1, <3>1, <3>3, SameMessage, Zenon
      <3> QED
        BY <3>4, Zenon DEF Counts
    <2> QED
      BY <2>1, <2>2, <2>3, Zenon DEF Coming
  <1>12. ASSUME NEW j \in Instances, P(j)'.known
         PROVE  \E D \in SUBSET Nodes : Counted(j, D)'
    <2>1. PICK D \in SUBSET Nodes : Counted(j, D)
      BY <1>4, <1>12, Zenon DEF PaxosInv
    <2>2. \A q \in D : A(q, j)'.accepted = P(j)'.proposal /\ ~Coming(q, j)'
      BY <1>4, <1>6, <1>11, <2>1, Zenon DEF Counted
    <2>3. CASE j # i
      <3>1. P(j)' = P(j)
        BY <2>3, Zenon DEF Counts
      <3>2. AtLeast(D, P(j)'.accepts)
        BY <2>1, <3>1, Zenon DEF Counted
      <3>3. Counted(j, D)'
        BY <2>2, <3>2, Zenon DEF Counted
      <3> QED
        BY <3>3, Zenon
    <2>4. CASE j = i
      <3>1. Coming(m.from, i)
        BY <1>2, Zenon DEF Coming
      <3>2. m.from \notin D
        BY <2>1, <2>4, <3>1, Zenon DEF Counted
      <3>3. AtLeast(D \cup {m.from}, P(i).accepts + 1)
        <4>1. P(i).accepts \in Nat
          BY <1>1, Zenon DEF ProposerState
        <4>2. AtLeast(D, P(i).accepts)
          BY <2>1, <2>4, Zenon DEF Counted
        <4> QED
          BY <3>2, <4>1, <4>2, AtLeastOneMore, Zenon
      <3>4. A(m.from, i)'.accepted = P(i)'.proposal /\ ~Coming(m.from, i)'
        BY <1>1, <1>2, <1>3, <1>6, <1>11, Zenon
      <3>5. AtLeast(D \cup {m.from}, P(i)'.accepts)
        BY <1>3, <3>3, Zenon
      <3>6. D \cup {m.from} \in SUBSET Nodes
        BY <1>1, Zenon
      <3>7. Counted(i, D \cup {m.from})'
        BY <2>2, <2>4, <3>4, <3>5, <3>6, Zenon DEF Counted
      <3> QED
        BY <2>4, <3>6, <3>7, Zenon
    <2> QED
      BY <2>3, <2>4, Zenon
  <1>13. PaxosInv'
    BY <1>8, <1>9, <1>10, <1>12, Zenon DEF PaxosInv
  <1>14. ASSUME NEW k \in Nodes, NEW j \in Instances
         PROVE  Kept(k, j)
    <2>1. A(k, j).committed => j # i
      BY Zenon DEF PaxosInv, AcceptorInv
    <2> QED
      BY <1>6, <2>1, SameKept, Zenon
  <1> QED
    BY <1>13, <1>14, Zenon DEF Keeps

\* What HandleAccepted makes of the leader: its count and, when it commits, its log.
CountedProposer(ps) == [ps EXCEPT !.accepts = @ + 1, !.committed = ps.accepts + 1 >= Quorum]
CountedNode(s, i) ==
  [s EXCEPT !.prop[i].accepts = @ + 1, !.prop[i].committed = s.prop[i].accepts + 1 >= Quorum]
CommittedEntry(st, v) == [st EXCEPT !.tracked = TRUE, !.committed = TRUE, !.learned = v]
CommittedNode(t, i, v) == [Track(t, i) EXCEPT !.inst[i].committed = TRUE, !.inst[i].learned = v]

\* What counting one ACCEPTED leaves of the leader.
LEMMA CountResult ==
  ASSUME NEW s \in NodeState, NEW i \in Instances, NEW t, t = CountedNode(s, i)
  PROVE  /\ t \in NodeState /\ t.round = s.round /\ t.inst = s.inst
         /\ \A j \in Instances : t.prop[j] = IF j = i THEN CountedProposer(s.prop[i]) ELSE s.prop[j]
  <1> DEFINE x == CountedProposer(s.prop[i])
             b == s.prop[i].accepts + 1 >= Quorum
             k == s.prop[i].accepts + 1
  <1>1. s.prop[i] \in ProposerState
    BY DEF NodeState
  <1>2. k \in Nat /\ b \in BOOLEAN
    BY <1>1 DEF ProposerState
  <1>3. t = [s EXCEPT !.prop = [s.prop EXCEPT ![i] = x]]
    BY <1>1, Zenon DEF NodeState, ProposerState, CountedNode, CountedProposer
  <1>4. x = [s.prop[i] EXCEPT !.accepts = k, !.committed = b]
    BY <1>1 DEF ProposerState, CountedProposer
  <1> HIDE DEF k, b, x
  <1>5. x \in ProposerState
    BY <1>1, <1>2, <1>4, Zenon DEF ProposerState
  <1>6. /\ t \in NodeState /\ t.round = s.round /\ t.inst = s.inst
        /\ \A j \in Instances : t.prop[j] = IF j = i THEN x ELSE s.prop[j]
    BY <1>3, <1>5 DEF NodeState
  <1> QED
    BY <1>6, Zenon DEF x

\* What committing an instance leaves of the leader.
LEMMA CommitResult ==
  ASSUME NEW t \in NodeState, NEW i \in Instances, NEW v \in Value, NEW u, u = CommittedNode(t, i, v)
  PROVE  /\ u \in NodeState /\ u.round = t.round /\ u.prop = t.prop
         /\ \A j \in Instances : u.inst[j] = IF j = i THEN CommittedEntry(t.inst[i], v) ELSE t.inst[j]
  <1> DEFINE x == CommittedEntry(t.inst[i], v)
  <1>1. t.inst[i] \in InstanceState
    BY DEF NodeState
  <1>2. x \in InstanceState
    BY <1>1, Zenon DEF InstanceState, CommittedEntry
  <1>3. u = [t EXCEPT !.inst = [t.inst EXCEPT ![i] = x]]
    BY <1>1, ZenonT(40) DEF NodeState, InstanceState, CommittedEntry, CommittedNode, Track
  <1> HIDE DEF x
  <1>4. /\ u \in NodeState /\ u.round = t.round /\ u.prop = t.prop
        /\ \A j \in Instances : u.inst[j] = IF j = i THEN x ELSE t.inst[j]
    BY <1>2, <1>3 DEF NodeState
  <1> QED
    BY <1>4, Zenon DEF x

\* HandleAccepted keeps the invariant, below a quorum and on reaching it.
LEMMA AcceptedKeeps ==
  ASSUME GroupTypes, PaxosInv, NEW m \in DOMAIN msgs, m.type = "Accepted",
         Did(m.to, HandleAccepted(m.to, node[m.to], m), Taken(msgs, m))
  PROVE  Keeps
  <1> DEFINE i == m.inst
             s == node[Leader]
             ps == P(i)
             left == Taken(msgs, m)
  <1>1. /\ m \in Message /\ MessageInv(m) /\ i \in Instances /\ m.value \in Value /\ m.to = Leader
        /\ Leader \in Nodes /\ s \in NodeState /\ s.prop[i] = ps /\ ps \in ProposerState
    <2>1. /\ m \in Message /\ MessageInv(m) /\ i \in Instances /\ m.value \in Value /\ Leader \in Nodes
      BY Receiver, LeaderUp, Zenon
    <2>2. m.to = Leader
      BY <2>1, Zenon DEF MessageInv
    <2> QED
      BY <2>1, <2>2, NodeTypes, Zenon DEF P
  <1>2. CASE ~ps.known \/ m.proposal # ps.proposal
    BY <1>1, <1>2, Ignored, Zenon DEF HandleAccepted
  <1>3. CASE ~(~ps.known \/ m.proposal # ps.proposal) /\ ps.committed
    BY <1>1, <1>3, Ignored, Zenon DEF HandleAccepted
  <1>4. CASE ~(~ps.known \/ m.proposal # ps.proposal) /\ ~ps.committed
    <2> DEFINE c == ps.accepts + 1 >= Quorum
               t == CountedNode(s, i)
               u == CommittedNode(t, i, m.value)
               r == IF c THEN u ELSE t
               B == IF c THEN UNION {MakeLearn(Leader, d, i, m.value) : d \in Nodes \ {Leader}} ELSE {}
               O == {x \in B : x.to \in setup.up}
    <2>1. /\ t \in NodeState /\ t.round = s.round /\ t.inst = s.inst
          /\ \A j \in Instances : t.prop[j] =
               IF j = i THEN CountedProposer(ps) ELSE s.prop[j]
      BY <1>1, CountResult
    <2>2. /\ u \in NodeState /\ u.round = t.round /\ u.prop = t.prop
          /\ \A j \in Instances : u.inst[j] =
               IF j = i THEN CommittedEntry(t.inst[i], m.value) ELSE t.inst[j]
      <3>1. \A tt \in NodeState : LET w == CommittedNode(tt, i, m.value) IN
              /\ w \in NodeState /\ w.round = tt.round /\ w.prop = tt.prop
              /\ \A j \in Instances : w.inst[j] = IF j = i THEN CommittedEntry(tt.inst[i], m.value) ELSE tt.inst[j]
        BY <1>1, CommitResult
      <3> HIDE DEF t
      <3> QED
        BY <2>1, <3>1
    <2>3. A(Leader, i).tracked /\ Current(m.proposal, i) /\ msgs[m] = 1
      BY <1>1, <1>4, Zenon DEF PaxosInv, ProposerInv, MessageInv, Current
    <2>4. ~Full(Leader, t, i)
      BY <2>1, <2>3, Zenon DEF Full, A
    <2>5. Quorum \in Nat /\ ps.accepts \in Nat
      BY <1>1, PaxosAssumption DEF Quorum, ProposerState
    <2>6. \E st : HandleAccepted(Leader, s, m) = Result(r, B, st)
      <3>1. CASE c
        <4>1. ~(ps.accepts + 1 < Quorum)
          BY <2>5, <3>1
        <4>2. HandleAccepted(Leader, s, m) = Result(u, B, "Ok")
          BY <1>1, <1>4, <2>4, <3>1, <4>1, Zenon DEF HandleAccepted, t, u, CountedNode, CommittedNode
        <4> QED
          BY <3>1, <4>2, Zenon
      <3>2. CASE ~c
        <4>1. ps.accepts + 1 < Quorum
          BY <2>5, <3>2
        <4>2. HandleAccepted(Leader, s, m) = Result(t, B, "Ok")
          BY <1>1, <1>4, <3>2, <4>1 DEF HandleAccepted, t, CountedNode
        <4> QED
          BY <3>2, <4>2, Zenon
      <3> QED
        BY <3>1, <3>2, Zenon
    <2>7. node' = [node EXCEPT ![Leader] = r] /\ msgs' = Sent(left, O) /\ setup' = setup
      <3>1. PICK st : HandleAccepted(Leader, s, m) = Result(r, B, st)
        BY <2>6
      <3>2. Did(Leader, Result(r, B, st), left)
        BY <1>1, <3>1, Zenon
      <3> HIDE DEF r, B
      <3>3. /\ node' = [node EXCEPT ![Leader] = r]
            /\ msgs' = Sent(left, {x \in B : x.to \in setup.up}) /\ setup' = setup
        BY <3>2, DidResult
      <3> QED
        BY <3>3
    <2> HIDE DEF t, u
    <2>8. r \in NodeState /\ r.round = s.round /\ r.prop = t.prop
      BY <2>1, <2>2, Zenon
    <2>9. node' \in [Nodes -> NodeState] /\ \A k \in Nodes : node'[k] = IF k = Leader THEN r ELSE node[k]
      BY <1>1, <2>7, <2>8, ZenonT(40) DEF GroupTypes
    <2>10. P(i)' = [ps EXCEPT !.accepts = @ + 1, !.committed = c] /\ \A j \in Instances \ {i} : P(j)' = P(j)
      BY <1>1, <2>1, <2>8, <2>9 DEF P, CountedProposer
    <2>11. node'[Leader].round = node[Leader].round
      BY <1>1, <2>8, <2>9, Zenon
    <2>12. \A k \in Nodes, j \in Instances :
             A(k, j)' = IF c /\ k = Leader /\ j = i
                        THEN [A(k, j) EXCEPT !.tracked = TRUE, !.committed = TRUE, !.learned = m.value]
                        ELSE A(k, j)
      <3> SUFFICES ASSUME NEW k \in Nodes, NEW j \in Instances
                   PROVE  A(k, j)' = IF c /\ k = Leader /\ j = i
                            THEN [A(k, j) EXCEPT !.tracked = TRUE, !.committed = TRUE, !.learned = m.value]
                            ELSE A(k, j)
        BY Zenon
      <3>1. CASE k = Leader /\ c
        BY <1>1, <2>1, <2>2, <2>9, <3>1, ZenonT(40) DEF A, CommittedEntry
      <3>2. CASE k = Leader /\ ~c
        BY <1>1, <2>1, <2>9, <3>2, Zenon DEF A
      <3>3. CASE k # Leader
        BY <2>9, <3>3, Zenon DEF A
      <3> QED
        BY <3>1, <3>2, <3>3, Zenon
    <2>13. \A x \in O : /\ c /\ x \in Message /\ x.type = "Learn" /\ x.inst = i /\ x.value = m.value
      <3> SUFFICES ASSUME NEW x \in O
                   PROVE  c /\ x \in Message /\ x.type = "Learn" /\ x.inst = i /\ x.value = m.value
        BY Zenon
      <3>1. c
        OBVIOUS
      <3>2. PICK d \in Nodes : x = Msg("Learn", Leader, d, i, Null, m.value, Null)
        BY <3>1 DEF MakeLearn
      <3>3. Null \in Number
        BY DEF Null, Number
      <3> QED
        BY <1>1, <3>1, <3>2, <3>3 DEF Msg, Message
    <2> HIDE DEF O, B, r, c
    <2>14. /\ \A e \in DOMAIN msgs' : msgs'[e] \in Nat \ {0} /\ (e \in O \/ OldMessage(e))
           /\ m \notin O /\ msgs[m] = 1 => m \notin DOMAIN msgs'
      BY <2>7, TakenSent DEF GroupTypes, OldMessage
    <2>15. m \notin DOMAIN msgs'
      BY <2>3, <2>13, <2>14
    <2>16. GroupTypes'
      <3>1. \A e \in DOMAIN msgs' : e \in Message
        BY <2>13, <2>14, Zenon DEF GroupTypes, OldMessage
      <3> QED
        BY <2>7, <2>9, <2>14, <3>1, Zenon DEF GroupTypes
    <2>17. \A e \in DOMAIN msgs' : \/ OldMessage(e)
                                   \/ c /\ e.type = "Learn" /\ e.inst = m.inst /\ e.value = m.value
      BY <2>13, <2>14, Zenon
    <2>18. c \in BOOLEAN /\ (c <=> P(m.inst).accepts + 1 >= Quorum)
      BY DEF c
    <2>19. Counts(m, c)
      BY <1>4, <2>3, <2>10, <2>11, <2>12, <2>15, <2>17, <2>18, Zenon DEF Counts
    <2> QED
      BY <1>4, <2>3, <2>16, <2>18, <2>19, CountStep, Zenon
  <1> QED
    BY <1>2, <1>3, <1>4, Zenon

\* What Propose makes of the leader.
ProposedBy(ps, p, v) ==
  [ps EXCEPT !.known = TRUE, !.proposal = p, !.value = v, !.accepts = 0, !.committed = FALSE]
ProposedNode(s, i, p, v) ==
  [Track(s, i) EXCEPT !.round = @ + 1,
     !.prop[i] = [@ EXCEPT !.known = TRUE, !.proposal = p, !.value = v, !.accepts = 0, !.committed = FALSE]]

\* What a new proposal leaves of the leader.
LEMMA ProposeResult ==
  ASSUME NEW s \in NodeState, NEW i \in Instances, NEW p \in Number, NEW v \in Value,
         NEW t, t = ProposedNode(s, i, p, v)
  PROVE  /\ t \in NodeState /\ t.round = s.round + 1
         /\ \A j \in Instances : /\ t.prop[j] = IF j = i THEN ProposedBy(s.prop[i], p, v) ELSE s.prop[j]
                                 /\ t.inst[j] = IF j = i THEN [s.inst[i] EXCEPT !.tracked = TRUE] ELSE s.inst[j]
  <1> DEFINE x == ProposedBy(s.prop[i], p, v)
             y == [s.inst[i] EXCEPT !.tracked = TRUE]
             r == s.round + 1
             u == Track(s, i)
  <1>1. s.prop[i] \in ProposerState /\ s.inst[i] \in InstanceState /\ s.round \in Nat
    BY DEF NodeState
  <1>2. x \in ProposerState
    BY <1>1, Zenon DEF ProposerState, ProposedBy
  <1>3. y \in InstanceState
    BY <1>1, ZenonT(40) DEF InstanceState
  <1>4. r \in Nat
    BY <1>1
  <1>5. u = [s EXCEPT !.inst = [s.inst EXCEPT ![i] = y]]
    BY DEF NodeState, Track
  <1> HIDE DEF y
  <1>6. /\ u \in NodeState /\ u.round = s.round /\ u.prop = s.prop
        /\ \A j \in Instances : u.inst[j] = IF j = i THEN y ELSE s.inst[j]
    <2> HIDE DEF u
    <2> QED
      BY <1>3, <1>5 DEF NodeState
  <1>7. t = [u EXCEPT !.round = r, !.prop = [s.prop EXCEPT ![i] = x]]
    <2>1. t = [u EXCEPT !.round = @ + 1, !.prop[i] = ProposedBy(@, p, v)]
      BY DEF ProposedNode, ProposedBy
    <2> HIDE DEF u
    <2> QED
      BY <1>1, <1>6, <2>1, Zenon DEF NodeState
  <1> HIDE DEF x, r, u
  <1>8. /\ t \in NodeState /\ t.round = r
        /\ \A j \in Instances : /\ t.prop[j] = IF j = i THEN x ELSE s.prop[j]
                                /\ t.inst[j] = u.inst[j]
    <2> DEFINE f == [s.prop EXCEPT ![i] = x]
    <2>1. /\ f \in [Instances -> ProposerState]
          /\ \A j \in Instances : f[j] = IF j = i THEN x ELSE s.prop[j]
      BY <1>2 DEF NodeState
    <2>2. t = [u EXCEPT !.round = r, !.prop = f]
      BY <1>7, Zenon
    <2> HIDE DEF f
    <2>3. t \in NodeState /\ t.round = r /\ t.prop = f /\ t.inst = u.inst
      BY <1>4, <1>6, <2>1, <2>2, Zenon DEF NodeState
    <2> QED
      BY <2>1, <2>3, Zenon
  <1> QED
    BY <1>6, <1>8, Zenon DEF x, y, r

\* A step that may put i in the log of n, and leaves the rest of the entry alone.
LogKept(n, i) ==
  /\ A(n, i)'.promised = A(n, i).promised /\ A(n, i)'.accepted = A(n, i).accepted
  /\ A(n, i)'.value = A(n, i).value /\ (A(n, i).tracked => A(n, i)'.tracked)
  /\ (A(n, i).committed <=> A(n, i)'.committed) /\ A(n, i).learned = A(n, i)'.learned

\* The leader makes a new proposal p = <<round + 1, Leader>>, with the messages O.
Proposes(i, v, p, O) ==
  /\ p[1] = node[Leader].round + 1 /\ p[2] = Leader
  /\ P(i)' = ProposedBy(P(i), p, v) /\ \A j \in Instances \ {i} : P(j)' = P(j)
  /\ node'[Leader].round = node[Leader].round + 1
  /\ \A k \in Nodes, j \in Instances : LogKept(k, j)
  /\ A(Leader, i)'.tracked
  /\ \A e \in O : /\ e.type = "Accept" /\ e.from = Leader /\ e.to \in Nodes /\ e.inst = i
                  /\ e.proposal = p /\ e.value = v /\ e.accepted = Null
  /\ \A e \in DOMAIN msgs' : /\ e \in O \/ OldMessage(e)
                             /\ e \notin DOMAIN msgs => e \in O /\ msgs'[e] = 1

\* If nobody has committed the instance, that keeps the invariant: nobody has seen
\* the number of the proposal.
LEMMA ProposeStep ==
  ASSUME GroupTypes, PaxosInv, GroupTypes', NEW i \in Instances, NEW v \in Value, NEW p \in Number,
         NEW O, ~A(Leader, i).committed, Proposes(i, v, p, O)
  PROVE  Keeps
  <1>0. \A k \in Nodes, j \in Instances : A(k, j)'.accepted = A(k, j).accepted
    <2> SUFFICES ASSUME NEW k \in Nodes, NEW j \in Instances
                 PROVE  A(k, j)'.accepted = A(k, j).accepted
      BY Zenon
    <2>1. LogKept(k, j)
      BY Zenon DEF Proposes
    <2> QED
      BY <2>1, Zenon DEF LogKept
  <1>1. Leader \in Nodes /\ P(i) \in ProposerState /\ node[Leader].round \in Nat
    BY LeaderUp, NodeTypes, Zenon DEF P
  <1>2. ~P(i).committed
    BY Zenon DEF PaxosInv, ProposerInv
  <1>3. /\ P(i)'.known /\ P(i)'.proposal = p /\ P(i)'.value = v /\ P(i)'.accepts = 0 /\ ~P(i)'.committed
    <2>1. P(i)' = ProposedBy(P(i), p, v)
      BY Zenon DEF Proposes
    <2> QED
      BY <1>1, <2>1 DEF ProposerState, ProposedBy
  <1>4. ASSUME NEW q, Proposed(q, i)
        PROVE  Proposed(q, i)' /\ q # p
    <2>1. P(i).known /\ q[1] \in 1 .. P(i).proposal[1] /\ q[2] = Leader /\ P(i).proposal[1] <= node[Leader].round
      BY <1>4, Zenon DEF Proposed, PaxosInv, ProposerInv
    <2>2. P(i).proposal[1] \in Nat
      BY <1>1 DEF ProposerState, Number
    <2>3. q[1] \in 1 .. p[1] /\ q[1] # p[1]
      <3>1. p[1] = node[Leader].round + 1
        BY Zenon DEF Proposes
      <3> QED
        BY <1>1, <2>1, <2>2, <3>1
    <2> QED
      BY <1>3, <2>1, <2>3, Zenon DEF Proposed
  <1>5. Proposed(p, i)'
    <2>1. p[1] = node[Leader].round + 1 /\ p[2] = Leader
      BY Zenon DEF Proposes
    <2>2. p[1] \in 1 .. p[1]
      BY <1>1, <2>1
    <2> QED
      BY <1>3, <2>1, <2>2, Zenon DEF Proposed
  <1>6. Null # p
    <2>1. p[1] = node[Leader].round + 1
      BY Zenon DEF Proposes
    <2> QED
      BY <1>1, <2>1 DEF Null
  <1>7. \A k \in Nodes : A(k, i)'.accepted # p /\ (A(k, i)'.accepted = Null \/ Proposed(A(k, i).accepted, i)')
    <2> SUFFICES ASSUME NEW k \in Nodes
                 PROVE  A(k, i)'.accepted # p /\ (A(k, i)'.accepted = Null \/ Proposed(A(k, i).accepted, i)')
      BY Zenon
    <2>1. A(k, i)'.accepted = A(k, i).accepted
      BY <1>0, Zenon
    <2>2. A(k, i).accepted = Null \/ Proposed(A(k, i).accepted, i)
      BY Zenon DEF PaxosInv, AcceptorInv
    <2> QED
      BY <1>4, <1>6, <2>1, <2>2, Zenon
  <1>8. \A j \in Instances \ {i} : \A q : (Proposed(q, j)' <=> Proposed(q, j)) /\ (Current(q, j)' <=> Current(q, j))
    BY Zenon DEF Proposes, Proposed, Current
  <1>9. \A q : Current(q, i)' <=> q = p
    BY <1>3, Zenon DEF Current
  <1>10. ASSUME NEW j \in Instances
         PROVE  ProposerInv(j)'
    <2>1. CASE j = i
      <3>1. p[1] <= node'[Leader].round
        <4>1. p[1] = node[Leader].round + 1 /\ node'[Leader].round = node[Leader].round + 1
          BY Zenon DEF Proposes
        <4> QED
          BY <1>1, <4>1
      <3>2. A(Leader, i)'.tracked
        BY Zenon DEF Proposes
      <3> QED
        BY <1>3, <1>5, <2>1, <3>1, <3>2, Zenon DEF ProposerInv
    <2>2. CASE j # i
      <3>1. ProposerInv(j) /\ P(j)' = P(j) /\ node'[Leader].round = node[Leader].round + 1
        BY <2>2, Zenon DEF PaxosInv, Proposes
      <3>2. P(j).known => P(j).proposal[1] <= node'[Leader].round
        <4>1. P(j).proposal[1] \in Nat
          BY <1>1, NodeTypes DEF P, ProposerState, Number
        <4> QED
          BY <1>1, <3>1, <4>1 DEF ProposerInv
      <3>3. LogKept(Leader, j)
        BY <1>1, Zenon DEF Proposes
      <3>4. (P(j).known => P(j)'.known) /\ (P(j)'.known => P(j).known) /\ P(j)'.proposal = P(j).proposal
        BY <3>1, Zenon
      <3>5. Proposed(P(j).proposal, j) => Proposed(P(j).proposal, j)'
        BY <3>4, Zenon DEF Proposed
      <3>6. /\ A(Leader, j).tracked => A(Leader, j)'.tracked
            /\ A(Leader, j).committed => A(Leader, j)'.committed
        BY <3>3, Zenon DEF LogKept
      <3> QED
        BY <3>1, <3>2, <3>4, <3>5, <3>6, Zenon DEF ProposerInv
    <2> QED
      BY <2>1, <2>2, Zenon
  <1>11. ASSUME NEW k \in Nodes, NEW j \in Instances
         PROVE  AcceptorInv(k, j)'
    <2>1. AcceptorInv(k, j)
      BY Zenon DEF PaxosInv
    <2>2. CASE j = i
      <3>1. ~A(k, j).committed
        BY <1>2, <2>1, <2>2, Zenon DEF AcceptorInv
      <3>2. LogKept(k, j)
        BY Zenon DEF Proposes
      <3>3. A(k, j)'.promised = A(k, j)'.accepted /\ ~A(k, j)'.committed
        BY <2>1, <3>1, <3>2, Zenon DEF AcceptorInv, LogKept
      <3>4. A(k, j)'.accepted = Null \/ Proposed(A(k, j).accepted, j)'
        BY <1>7, <2>2, Zenon
      <3>5. ~Current(A(k, j).accepted, j)'
        BY <1>3, <1>7, <2>2, Zenon DEF Current
      <3> QED
        BY <3>3, <3>4, <3>5, Zenon DEF AcceptorInv
    <2>3. CASE j # i
      <3>1. P(j)' = P(j)
        BY <2>3, Zenon DEF Proposes
      <3>2. LogKept(k, j)
        BY Zenon DEF Proposes
      <3> QED
        BY <1>8, <2>1, <2>3, <3>1, <3>2, Zenon DEF AcceptorInv, LogKept
    <2> QED
      BY <2>2, <2>3, Zenon
  <1>12. ASSUME NEW e \in DOMAIN msgs'
         PROVE  MessageInv(e)'
    <2>1. CASE e \in O
      <3>1. /\ e.type = "Accept" /\ e.from = Leader /\ e.to \in Nodes /\ e.inst = i
            /\ e.proposal = p /\ e.value = v /\ e.accepted = Null
        BY <2>1, Zenon DEF Proposes
      <3>2. e \notin DOMAIN msgs
        <4> SUFFICES ASSUME e \in DOMAIN msgs PROVE FALSE
          BY Zenon
        <4>1. Proposed(e.proposal, e.inst)
          BY <3>1, Zenon DEF PaxosInv, MessageInv
        <4> QED
          BY <1>4, <3>1, <4>1, Zenon
      <3>3. msgs'[e] = 1
        BY <3>2, Zenon DEF Proposes
      <3>4. A(e.to, e.inst)'.accepted # e.proposal
        BY <1>7, <3>1, Zenon
      <3> QED
        BY <1>3, <1>5, <3>1, <3>3, <3>4, Zenon DEF MessageInv
    <2>2. CASE e \notin O
      <3>1. /\ MessageInv(e) /\ msgs'[e] <= msgs[e] /\ msgs'[e] \in Nat \ {0}
            /\ e.inst \in Instances /\ e.to \in Nodes /\ e.from \in Nodes
        <4>1. OldMessage(e)
          BY <2>2, Zenon DEF Proposes
        <4> QED
          BY <4>1 DEF OldMessage, PaxosInv, GroupTypes, Message
      <3>2. msgs[e] = 1 => msgs'[e] = 1
        BY <3>1, LastCopy, Zenon
      <3>3. CASE e.inst = i
        <4>1. e.type # "Learn"
          BY <1>2, <3>1, <3>3, Zenon DEF MessageInv
        <4>2. e.type \in {"Accept", "Accepted"} =>
                Proposed(e.proposal, e.inst)' /\ e.accepted = Null /\ ~Current(e.proposal, e.inst)'
          BY <1>4, <1>9, <3>1, <3>3 DEF MessageInv
        <4> QED
          BY <3>1, <4>1, <4>2, Zenon DEF MessageInv
      <3>4. CASE e.inst # i
        <4>1. P(e.inst)' = P(e.inst)
          BY <3>1, <3>4, Zenon DEF Proposes
        <4>2. \A k \in Nodes : A(k, e.inst)'.accepted = A(k, e.inst).accepted
          BY <1>0, <3>1, Zenon
        <4> QED
          BY <1>8, <3>1, <3>2, <3>4, <4>1, <4>2, Zenon DEF MessageInv
      <3> QED
        BY <3>3, <3>4, Zenon
    <2> QED
      BY <2>1, <2>2, Zenon
  <1>13. ASSUME NEW j \in Instances, P(j)'.known
         PROVE  \E D \in SUBSET Nodes : Counted(j, D)'
    <2>1. CASE j = i
      <3>1. AtLeast({}, P(i)'.accepts)
        BY <1>3, AtLeastNone
      <3>2. Counted(i, {})'
        BY <3>1 DEF Counted
      <3> QED
        BY <2>1, <3>2
    <2>2. CASE j # i
      <3>1. PICK D \in SUBSET Nodes : Counted(j, D)
        BY <1>13, <2>2, Zenon DEF PaxosInv, Proposes
      <3>2. \A q : Coming(q, j)' => Coming(q, j)
        <4> SUFFICES ASSUME NEW q, Coming(q, j)' PROVE Coming(q, j)
          BY Zenon
        <4>1. PICK e \in DOMAIN msgs' : /\ e.type = "Accepted" /\ e.from = q /\ e.inst = j
                                        /\ e.proposal = P(j).proposal
          BY <2>2, Zenon DEF Coming, Proposes
        <4>2. e \notin O
          BY <4>1 DEF Proposes
        <4>3. e \in DOMAIN msgs
          BY <4>2, Zenon DEF Proposes
        <4> QED
          BY <4>1, <4>3, Zenon DEF Coming
      <3>3. P(j)' = P(j)
        BY <2>2, Zenon DEF Proposes
      <3>4. Counted(j, D)'
        BY <1>0, <3>1, <3>2, <3>3, Zenon DEF Counted
      <3> QED
        BY <3>4, Zenon
    <2> QED
      BY <2>1, <2>2, Zenon
  <1>14. PaxosInv'
    BY <1>10, <1>11, <1>12, <1>13, Zenon DEF PaxosInv
  <1>15. \A k \in Nodes, j \in Instances : Kept(k, j)
    <2> SUFFICES ASSUME NEW k \in Nodes, NEW j \in Instances
                 PROVE  Kept(k, j)
      BY Zenon
    <2>1. LogKept(k, j)
      BY Zenon DEF Proposes
    <2> QED
      BY <2>1, SameKept, Zenon DEF LogKept
  <1> QED
    BY <1>14, <1>15, Zenon DEF Keeps

\* Propose keeps the invariant.
LEMMA ProposeKeeps ==
  ASSUME GroupTypes, PaxosInv, NEW i \in Instances, NEW v \in Values,
         Did(Leader, Propose(Leader, node[Leader], i, v), msgs)
  PROVE  Keeps
  <1> DEFINE s == node[Leader]
             p == <<s.round + 1, Leader>>
             t == ProposedNode(s, i, p, v)
  <1>1. /\ Leader \in Nodes /\ s \in NodeState /\ s.round \in Nat /\ v \in Value
        /\ s.inst[i] = A(Leader, i) /\ A(Leader, i) \in InstanceState
    BY LeaderUp, NodeTypes, Zenon DEF A, Value
  <1>2. p \in Number /\ p[1] = s.round + 1 /\ p[2] = Leader /\ Leader \in Nat
    BY <1>1, PaxosAssumption DEF Number, Nodes
  <1>3. CASE s.inst[i].committed \/ Full(Leader, s, i)
    <2>1. {x \in {} : x.to \in setup.up} = {}
      OBVIOUS
    <2>2. node' = [node EXCEPT ![Leader] = s] /\ msgs' = Sent(msgs, {}) /\ setup' = setup
      BY <1>3, <2>1, Zenon DEF Propose, Did, Result
    <2>3. node' = node
      BY <1>1, <2>2 DEF GroupTypes
    <2>4. \A e \in DOMAIN msgs' : msgs'[e] \in Nat \ {0} /\ OldMessage(e)
      BY <2>2, OnlySent DEF GroupTypes, OldMessage
    <2>5. GroupTypes'
      BY <2>2, <2>3, <2>4, Zenon DEF GroupTypes, OldMessage
    <2>6. /\ \A j \in Instances : P(j)' = P(j)
          /\ \A k \in Nodes, j \in Instances : A(k, j)' = A(k, j)
      BY <2>3, Zenon DEF P, A
    <2>7. node'[Leader].round >= node[Leader].round
      BY <1>1, <2>3
    <2> QED
      BY <2>4, <2>5, <2>6, <2>7, Quiet, Zenon
  <1>4. CASE ~s.inst[i].committed /\ ~Full(Leader, s, i)
    <2> DEFINE O == {x \in MakeAcceptBroadcast(Leader, i, p, v) : x.to \in setup.up}
    <2>1. node' = [node EXCEPT ![Leader] = t] /\ msgs' = Sent(msgs, O) /\ setup' = setup
      BY <1>4, Zenon DEF Propose, Did, Result, ProposedNode
    <2>2. \A e \in O : /\ e \in Message /\ e.type = "Accept" /\ e.from = Leader /\ e.to \in Nodes
                       /\ e.inst = i /\ e.proposal = p /\ e.value = v /\ e.accepted = Null
      <3> SUFFICES ASSUME NEW e \in O
                   PROVE  /\ e \in Message /\ e.type = "Accept" /\ e.from = Leader /\ e.to \in Nodes
                          /\ e.inst = i /\ e.proposal = p /\ e.value = v /\ e.accepted = Null
        BY Zenon
      <3>1. PICK d \in Nodes : e = Msg("Accept", Leader, d, i, p, v, Null)
        BY DEF MakeAcceptBroadcast
      <3>2. Null \in Number
        BY DEF Null, Number
      <3> HIDE DEF p
      <3> QED
        BY <1>1, <1>2, <3>1, <3>2 DEF Msg, Message
    <2> HIDE DEF O, p
    <2>3. /\ t \in NodeState /\ t.round = s.round + 1
          /\ \A j \in Instances : /\ t.prop[j] = IF j = i THEN ProposedBy(s.prop[i], p, v) ELSE s.prop[j]
                                  /\ t.inst[j] = IF j = i THEN [s.inst[i] EXCEPT !.tracked = TRUE] ELSE s.inst[j]
      BY <1>1, <1>2, ProposeResult
    <2> HIDE DEF t
    <2>4. node' \in [Nodes -> NodeState] /\ \A k \in Nodes : node'[k] = IF k = Leader THEN t ELSE node[k]
      BY <1>1, <2>1, <2>3, Zenon DEF GroupTypes
    <2>5. P(i)' = ProposedBy(P(i), p, v) /\ \A j \in Instances \ {i} : P(j)' = P(j)
      BY <1>1, <2>3, <2>4 DEF P
    <2>6. node'[Leader].round = node[Leader].round + 1
      BY <1>1, <2>3, <2>4, Zenon
    <2>7. A(Leader, i)' = [A(Leader, i) EXCEPT !.tracked = TRUE]
      BY <1>1, <2>3, <2>4, Zenon DEF A
    <2>8. A(Leader, i)'.tracked /\ LogKept(Leader, i)
      BY <1>1, <2>7 DEF InstanceState, LogKept
    <2>9. \A k \in Nodes, j \in Instances : LogKept(k, j)
      <3> SUFFICES ASSUME NEW k \in Nodes, NEW j \in Instances PROVE LogKept(k, j)
        BY Zenon
      <3>1. CASE k = Leader /\ j = i
        BY <2>8, <3>1, Zenon
      <3>2. CASE ~(k = Leader /\ j = i)
        <4>1. A(k, j)' = A(k, j)
          BY <1>1, <2>3, <2>4, <3>2 DEF A
        <4> QED
          BY <4>1 DEF LogKept
      <3> QED
        BY <3>1, <3>2, Zenon
    <2>10. \A e \in DOMAIN msgs' : /\ msgs'[e] \in Nat \ {0} /\ (e \in O \/ OldMessage(e))
                                   /\ e \notin DOMAIN msgs => e \in O /\ msgs'[e] = 1
      BY <2>1, OnlySent DEF GroupTypes, OldMessage
    <2>11. GroupTypes'
      <3>1. \A e \in DOMAIN msgs' : e \in Message
        BY <2>2, <2>10, Zenon DEF GroupTypes, OldMessage
      <3> QED
        BY <2>1, <2>4, <2>10, <3>1, Zenon DEF GroupTypes
    <2>12. ~A(Leader, i).committed
      BY <1>1, <1>4, Zenon
    <2>13. \A e \in O : /\ e.type = "Accept" /\ e.from = Leader /\ e.to \in Nodes /\ e.inst = i
                        /\ e.proposal = p /\ e.value = v /\ e.accepted = Null
      BY <2>2, Zenon
    <2>14. \A e \in DOMAIN msgs' : /\ e \in O \/ OldMessage(e)
                                   /\ e \notin DOMAIN msgs => e \in O /\ msgs'[e] = 1
      BY <2>10, Zenon
    <2>15. Proposes(i, v, p, O)
      BY <1>1, <1>2, <2>5, <2>6, <2>8, <2>9, <2>13, <2>14, Zenon DEF Proposes
    <2> QED
      BY <1>1, <1>2, <2>11, <2>12, <2>15, ProposeStep, Zenon
  <1> QED
    BY <1>3, <1>4, Zenon

\* Every step of the group.
LEMMA StepKeeps ==
  ASSUME StableLeader, GroupTypes, PaxosInv, Next
  PROVE  Keeps
  <1>1. ASSUME NEW i \in setup.slots, NEW v \in setup.values, DoPropose(i, v)
        PROVE  Keeps
    <2>1. i \in Instances /\ v \in Values
      BY GroupAssumption DEF GroupTypes
    <2> QED
      BY <1>1, <2>1, ProposeKeeps, Zenon DEF DoPropose
  <1>2. ASSUME NEW n \in setup.up, NEW i \in setup.slots, DoElection(n, i)
        PROVE  FALSE
    <2>1. setup.maxRound[n] = 0 /\ n \in Nodes
      BY GroupAssumption DEF GroupTypes, StableLeader
    <2>2. node[n].round \in Nat /\ node[n].round < setup.maxRound[n]
      BY <1>2, <2>1 DEF DoElection, GroupTypes, NodeState
    <2> QED
      BY <2>1, <2>2
  <1>3. ASSUME NEW m \in DOMAIN msgs, Receive(m)
        PROVE  Keeps
    <2>1. m \in DOMAIN msgs
      BY Zenon
    <2>2. m.type \in {"Accept", "Accepted", "Learn", "Nack"}
      BY <2>1 DEF GroupTypes, Message
    <2>3. CASE m.type = "Accept"
      <3>1. HandleMessage(m.to, node[m.to], m) = HandleAccept(m.to, node[m.to], m)
        BY <2>3 DEF HandleMessage
      <3> QED
        BY <1>3, <2>1, <2>3, <3>1, AcceptKeeps, Zenon DEF Receive
    <2>4. CASE m.type = "Accepted"
      <3>1. HandleMessage(m.to, node[m.to], m) = HandleAccepted(m.to, node[m.to], m)
        BY <2>4 DEF HandleMessage
      <3> QED
        BY <1>3, <2>1, <2>4, <3>1, AcceptedKeeps, Zenon DEF Receive
    <2>5. CASE m.type = "Learn"
      <3>1. HandleMessage(m.to, node[m.to], m) = HandleLearn(m.to, node[m.to], m)
        BY <2>5 DEF HandleMessage
      <3> QED
        BY <1>3, <2>1, <2>5, <3>1, LearnKeeps, Zenon DEF Receive
    <2>6. CASE m.type = "Nack"
      <3>1. HandleMessage(m.to, node[m.to], m) = HandleNack(m.to, node[m.to], m)
        BY <2>6 DEF HandleMessage
      <3> QED
        BY <1>3, <2>1, <2>6, <3>1, NackKeeps, Zenon DEF Receive
    <2> QED
      BY <2>2, <2>3, <2>4, <2>5, <2>6, Zenon
  <1> QED
    BY <1>1, <1>2, <1>3, Zenon DEF Next

\* A step that changes no variable keeps the invariant.
LEMMA StutterKeeps ==
  ASSUME GroupTypes, PaxosInv, UNCHANGED vars
  PROVE  Keeps
  <1>1. setup' = setup /\ node' = node /\ msgs' = msgs
    BY Zenon DEF vars
  <1>2. GroupTypes'
    BY <1>1, Zenon DEF GroupTypes
  <1>3. \A e \in DOMAIN msgs' : OldMessage(e)
    BY <1>1 DEF OldMessage, GroupTypes
  <1>4. /\ \A j \in Instances : P(j)' = P(j)
        /\ \A k \in Nodes, j \in Instances : A(k, j)' = A(k, j)
    BY <1>1, Zenon DEF P, A
  <1>5. node'[Leader].round >= node[Leader].round
    BY <1>1, LeaderUp DEF GroupTypes, NodeState
  <1> QED
    BY <1>2, <1>3, <1>4, <1>5, Quiet, Zenon

-----------------------------------------------------------------------------
(* The theorems. *)

\* At least k replicas, by their cardinality.
LEMMA AtLeastCardinality ==
  ASSUME NEW D \in SUBSET Nodes, NEW k \in Nat, AtLeast(D, k)
  PROVE  Cardinality(D) \in Nat /\ Cardinality(D) >= k
  <1> DEFINE n == NumReplicas - 1
  <1>1. n \in Int /\ 0 \in Int
    BY PaxosAssumption
  <1> HIDE DEF n
  <1>2. IsFiniteSet(0 .. n)
    BY <1>1, FS_Interval
  <1>3. IsFiniteSet(D)
    BY <1>2, FS_Subset DEF Nodes, n
  <1>4. PICK d \in [1 .. k -> D] : \A x, y \in 1 .. k : d[x] = d[y] => x = y
    BY Zenon DEF AtLeast
  <1>5. d \in Injection(1 .. k, D)
    BY <1>4, Zenon DEF Injection, IsInjective
  <1>6. Cardinality(1 .. k) <= Cardinality(D)
    BY <1>3, <1>5, FS_Injection, Zenon
  <1>7. Cardinality(1 .. k) = k
    <2>1. k \in Int /\ 1 \in Int
      OBVIOUS
    <2>2. Cardinality(1 .. k) = IF 1 > k THEN 0 ELSE k - 1 + 1
      BY <2>1, FS_Interval, Zenon
    <2> QED
      BY <2>2
  <1>8. Cardinality(D) \in Nat
    BY <1>3, FS_CardinalityType, Zenon
  <1> QED
    BY <1>6, <1>7, <1>8

\* While nobody starts an election, the invariant above holds of every group.
THEOREM PaxosInvariant ==
  ASSUME StableLeader
  PROVE  Spec => [](GroupTypes /\ PaxosInv)
  <1>1. Init => GroupTypes /\ PaxosInv
    BY InitPaxos
  <1>2. GroupTypes /\ PaxosInv /\ [Next]_vars => (GroupTypes /\ PaxosInv)'
    BY StepKeeps, StutterKeeps DEF Keeps
  <1> QED
    BY <1>1, <1>2, PTL DEF Spec

\* Replicas that have committed an instance have committed the same value.
THEOREM PaxosAgreement ==
  ASSUME StableLeader
  PROVE  Spec => []Agreement
  <1>1. GroupTypes /\ PaxosInv => Agreement
    <2> SUFFICES ASSUME PaxosInv, NEW n \in Nodes, NEW m \in Nodes, NEW i \in Instances,
                        A(n, i).committed, A(m, i).committed
                 PROVE  A(n, i).learned = A(m, i).learned
      BY Zenon DEF Agreement, A
    <2> QED
      BY Zenon DEF PaxosInv, AcceptorInv
  <1> QED
    BY <1>1, PaxosInvariant, PTL

\* A committed value is held by a quorum of acceptors, whatever was proposed before.
THEOREM PaxosQuorumBacked ==
  ASSUME StableLeader
  PROVE  Spec => []QuorumBacked
  <1>1. GroupTypes /\ PaxosInv => QuorumBacked
    <2> SUFFICES ASSUME GroupTypes, PaxosInv, NEW n \in Nodes, NEW i \in Instances, A(n, i).committed
                 PROVE  \E Q \in SUBSET Nodes :
                          /\ Cardinality(Q) >= Quorum
                          /\ \A q \in Q : A(q, i).accepted # Null /\ A(q, i).value = A(n, i).learned
      BY Zenon DEF QuorumBacked, A
    <2>1. P(i).committed /\ A(n, i).learned = P(i).value
      BY Zenon DEF PaxosInv, AcceptorInv
    <2>2. P(i).known /\ P(i).accepts >= Quorum /\ Proposed(P(i).proposal, i)
      BY <2>1, Zenon DEF PaxosInv, ProposerInv
    <2>3. PICK D \in SUBSET Nodes : Counted(i, D)
      BY <2>2, Zenon DEF PaxosInv
    <2>4. P(i).proposal # Null
      BY <2>2 DEF Proposed, Null
    <2>5. \A q \in D : A(q, i).accepted # Null /\ A(q, i).value = A(n, i).learned
      BY <2>1, <2>2, <2>3, <2>4, Zenon DEF Counted, PaxosInv, AcceptorInv, Current
    <2>6. Cardinality(D) >= Quorum
      <3>1. AtLeast(D, P(i).accepts) /\ P(i).accepts \in Nat
        BY <2>3, LeaderUp, NodeTypes DEF Counted, P, ProposerState
      <3>2. Cardinality(D) >= P(i).accepts /\ Cardinality(D) \in Nat
        BY <3>1, AtLeastCardinality
      <3> QED
        BY <2>2, <3>1, <3>2, PaxosAssumption DEF Quorum
    <2> QED
      BY <2>5, <2>6, Zenon
  <1> QED
    BY <1>1, PaxosInvariant, PTL

\* No replica gives up a committed value, a promise or an acceptance.
THEOREM PaxosNeverBack ==
  ASSUME StableLeader
  PROVE  Spec => NeverBack
  <1>1. GroupTypes /\ PaxosInv /\ [Next]_vars =>
          [\A n \in Nodes, i \in Instances :
             LET a == node[n].inst[i]
                 b == node'[n].inst[i] IN
             /\ a.committed => b.committed /\ b.learned = a.learned
             /\ ~Less(b.promised, a.promised) /\ ~Less(b.accepted, a.accepted)]_vars
    <2> SUFFICES ASSUME GroupTypes, PaxosInv, Next, NEW n \in Nodes, NEW i \in Instances
                 PROVE  LET a == node[n].inst[i]
                            b == node'[n].inst[i] IN
                        /\ a.committed => b.committed /\ b.learned = a.learned
                        /\ ~Less(b.promised, a.promised) /\ ~Less(b.accepted, a.accepted)
      OBVIOUS
    <2>1. Kept(n, i)
      BY StepKeeps, Zenon DEF Keeps
    <2> QED
      BY <2>1, Zenon DEF Kept, A
  <1> QED
    BY <1>1, PaxosInvariant, PTL DEF Spec, NeverBack

=============================================================================
