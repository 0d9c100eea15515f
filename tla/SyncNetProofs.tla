--------------------------- MODULE SyncNetProofs ---------------------------
(***************************************************************************)
(* SyncNet for every topology, every queue length and every choice of link *)
(* latencies and sync intervals with sync_interval <= link_latency: lemmas *)
(* about links, ports and queues ordered by timestamp, the inductive       *)
(* invariant cut into the parts that an action touches, one lemma for each *)
(* action that preserves it, and the theorems.                             *)
(***************************************************************************)
EXTENDS SyncNet, TLAPS

-----------------------------------------------------------------------------
(* Links, ports, queues and the initial state. *)

(* The two links of a port. *)
LEMMA PortLinks ==
  ASSUME NEW s \in Sims, NEW i \in Ports(s)
  PROVE  /\ In(s, i) \in Links /\ Out(s, i) \in Links
         /\ In(s, i)[2] = s /\ Out(s, i)[1] = s
         /\ \A j \in Ports(s) : Out(s, i) = Out(s, j) => i = j
         /\ \A j \in Ports(s) : In(s, i) = In(s, j) => i = j
  BY TopologyAssumption DEF Ports, Links, In, Out

(* Every link is the incoming link of some port of its receiver and the      *)
(* outgoing link of some port of its sender.                                 *)
LEMMA LinkPorts ==
  ASSUME NEW l \in Links
  PROVE  /\ l[1] \in Sims /\ l[2] \in Sims /\ l = <<l[1], l[2]>>
         /\ \E i \in Ports(l[1]) : l = Out(l[1], i)
         /\ \E i \in Ports(l[2]) : l = In(l[2], i)
  <1>1. l \in Sims \X Sims
    BY Zenon DEF Links
  <1>2. l[1] \in Sims /\ l[2] \in Sims /\ l = <<l[1], l[2]>>
    BY <1>1
  <1>3. PICK i \in Ports(l[1]) : Peers[l[1]][i] = l[2]
    BY Zenon DEF Links
  <1>4. l = Out(l[1], i)
    BY <1>2, <1>3, Zenon DEF Out
  <1>5. <<Peers[l[1]][i], l[1]>> \in Links
    BY <1>2, <1>3, TopologyAssumption, Zenon
  <1>6. PICK j \in Ports(l[2]) : Peers[l[2]][j] = l[1]
    BY <1>3, <1>5, Zenon DEF Links
  <1>7. l = In(l[2], j)
    BY <1>2, <1>6, Zenon DEF In
  <1> QED
    BY <1>2, <1>4, <1>7, Zenon

Msg == [type : {"SYNC", "DATA"}, ts : Nat]

(* Queues of messages. *)
LEMMA MsgAt ==
  ASSUME NEW q \in Seq(Msg), NEW a \in 1 .. Len(q)
  PROVE  q[a] \in Msg /\ q[a].ts \in Nat
  <1>1. q[a] \in Msg
    OBVIOUS
  <1> QED
    BY <1>1, Zenon DEF Msg

\* The head of an ordered queue is its least timestamp.
LEMMA HeadBetween ==
  ASSUME NEW q \in Seq(Msg), q # << >>, NEW lo \in Nat, NEW hi \in Nat, Between(q, lo, hi)
  PROVE  /\ Head(q) \in Msg /\ Head(q).ts \in Nat
         /\ lo <= Head(q).ts /\ Head(q).ts <= hi
         /\ Between(q, Head(q).ts, hi)
  <1>1. Len(q) \in Nat /\ 1 \in 1 .. Len(q) /\ Head(q) = q[1]
    OBVIOUS
  <1>2. q[1] \in Msg /\ q[1].ts \in Nat
    BY <1>1, MsgAt, Zenon
  <1>3. \A k \in 1 .. Len(q) : q[1].ts <= q[k].ts
    BY <1>1 DEF Between
  <1> QED
    BY <1>1, <1>2, <1>3, Zenon DEF Between

\* Appending the largest timestamp keeps a queue ordered.
LEMMA AppendBetween ==
  ASSUME NEW q \in Seq(Msg), NEW m \in Msg, NEW lo \in Nat, NEW hi \in Nat,
         Between(q, lo, hi), lo <= hi, hi <= m.ts
  PROVE  Append(q, m) \in Seq(Msg) /\ Between(Append(q, m), lo, m.ts)
  <1> DEFINE r == Append(q, m)
  <1>1. /\ r \in Seq(Msg) /\ Len(q) \in Nat /\ Len(r) = Len(q) + 1 /\ r[Len(q) + 1] = m
        /\ \A a \in 1 .. Len(q) : r[a] = q[a]
    OBVIOUS
  <1>2. m.ts \in Nat
    BY Zenon DEF Msg
  <1>3. \A a \in 1 .. Len(q) : q[a].ts \in Nat
    BY MsgAt, Zenon
  <1> HIDE DEF r
  <1>4. ASSUME NEW a \in 1 .. Len(r) PROVE lo <= r[a].ts /\ r[a].ts <= m.ts
    BY <1>1, <1>2, <1>3 DEF Between
  <1>5. ASSUME NEW a \in 1 .. Len(r), NEW b \in 1 .. Len(r), a <= b
        PROVE  r[a].ts <= r[b].ts
    BY <1>1, <1>2, <1>3, <1>4, <1>5, SMTT(30) DEF Between
  <1>6. Between(r, lo, m.ts)
    BY <1>4, <1>5, Zenon DEF Between
  <1> QED
    BY <1>1, <1>6, Zenon DEF r

\* Removing the head keeps a queue ordered and within its bounds.
LEMMA TailBetween ==
  ASSUME NEW q \in Seq(Msg), q # << >>, NEW lo, NEW hi, Between(q, lo, hi)
  PROVE  Tail(q) \in Seq(Msg) /\ Between(Tail(q), lo, hi)
  <1> DEFINE r == Tail(q)
  <1>1. /\ r \in Seq(Msg) /\ Len(q) \in Nat /\ Len(r) = Len(q) - 1
        /\ \A a \in 1 .. Len(q) - 1 : r[a] = q[a + 1]
    OBVIOUS
  <1> HIDE DEF r
  <1>2. ASSUME NEW a \in 1 .. Len(r)
        PROVE  a + 1 \in 1 .. Len(q) /\ r[a] = q[a + 1] /\ a \in Nat
    BY <1>1
  <1>3. ASSUME NEW a \in 1 .. Len(r) PROVE lo <= r[a].ts /\ r[a].ts <= hi
    BY <1>2, Zenon DEF Between
  <1>4. ASSUME NEW a \in 1 .. Len(r), NEW b \in 1 .. Len(r), a <= b PROVE r[a].ts <= r[b].ts
    BY <1>2, <1>4 DEF Between
  <1>5. Between(r, lo, hi)
    BY <1>3, <1>4, Zenon DEF Between
  <1> QED
    BY <1>1, <1>5, Zenon DEF r

-----------------------------------------------------------------------------
(* LinkInv in three parts: the queue and its timestamps, the sender's clock,  *)
(* the receiver's clock.                                                      *)
QInv == \A l \in Links : /\ inTs[l] <= outTs[l] + Latency[l]
                         /\ Between(queue[l], inTs[l], outTs[l] + Latency[l])
OutInv == \A l \in Links : outTs[l] <= clock[l[1]]
InInv == \A l \in Links : clock[l[2]] <= inTs[l]
QType == /\ queue \in [Links -> Seq(Msg)]
         /\ inTs \in [Links -> Nat] /\ outTs \in [Links -> Nat]

\* LinkInv, by the variables that its parts mention.
LEMMA LinkInvParts == LinkInv <=> QInv /\ OutInv /\ InInv
  BY Zenon DEF LinkInv, QInv, OutInv, InInv

(* Sending keeps the queue sorted and within the sender's promise. *)
LEMMA SendKeepsQ ==
  ASSUME QType, QInv, NEW l \in Links, NEW t \in Nat, outTs[l] <= t,
         NEW ty \in {"SYNC", "DATA"}, OutPut(l, t, ty), inTs' = inTs
  PROVE  QType' /\ QInv'
  <1> DEFINE m == Message(t, l, ty)
  <1>0. Latency[l] \in Nat /\ m \in Msg /\ m.ts = t + Latency[l]
    BY ParamsAssumption DEF Message, Msg
  <1>1. /\ queue' = [queue EXCEPT ![l] = Append(queue[l], m)]
        /\ outTs' = [outTs EXCEPT ![l] = t]
    BY Zenon DEF OutPut
  <1> HIDE DEF m
  <1>2. /\ inTs[l] \in Nat /\ outTs[l] \in Nat /\ queue[l] \in Seq(Msg)
        /\ inTs[l] <= outTs[l] + Latency[l]
        /\ Between(queue[l], inTs[l], outTs[l] + Latency[l])
    BY Zenon DEF QType, QInv
  <1>3. Append(queue[l], m) \in Seq(Msg) /\ Between(Append(queue[l], m), inTs[l], t + Latency[l])
    BY <1>0, <1>2, AppendBetween
  <1>4. QType'
    BY <1>1, <1>3, Zenon DEF QType
  <1>5. ASSUME NEW k \in Links
        PROVE  /\ inTs'[k] <= outTs'[k] + Latency[k]
               /\ Between(queue'[k], inTs'[k], outTs'[k] + Latency[k])
    BY <1>0, <1>1, <1>2, <1>3 DEF QType, QInv
  <1> QED
    BY <1>4, <1>5, Zenon DEF QInv

(* Peeking moves in_timestamp up to the head of the queue. *)
LEMMA PeekKeepsQ ==
  ASSUME QType, QInv, NEW l \in Links, InPeek(l), queue' = queue, outTs' = outTs
  PROVE  QType' /\ QInv' /\ \A k \in Links : inTs[k] <= inTs'[k]
  <1>1. CASE queue[l] = << >>
    BY <1>1 DEF QType, QInv, InPeek
  <1>2. CASE queue[l] # << >>
    <2>1. /\ inTs[l] \in Nat /\ outTs[l] \in Nat /\ queue[l] \in Seq(Msg) /\ Latency[l] \in Nat
          /\ outTs[l] + Latency[l] \in Nat
          /\ Between(queue[l], inTs[l], outTs[l] + Latency[l])
      BY ParamsAssumption DEF QType, QInv
    <2>2. /\ Head(queue[l]).ts \in Nat
          /\ inTs[l] <= Head(queue[l]).ts /\ Head(queue[l]).ts <= outTs[l] + Latency[l]
          /\ Between(queue[l], Head(queue[l]).ts, outTs[l] + Latency[l])
      BY <1>2, <2>1, HeadBetween, Zenon
    <2>3. inTs' = [inTs EXCEPT ![l] = Head(queue[l]).ts]
      BY <1>2, Zenon DEF InPeek
    <2> QED
      BY <2>1, <2>2, <2>3, SMTT(30) DEF QType, QInv
  <1> QED
    BY <1>1, <1>2, Zenon

(* Giving the head back, with or without a peek in the same step. *)
LEMMA PopKeepsQ ==
  ASSUME QType, QInv, NEW l \in Links, queue[l] # << >>, InDone(l), outTs' = outTs,
         inTs' = inTs \/ InPeek(l)
  PROVE  QType' /\ QInv' /\ \A k \in Links : inTs[k] <= inTs'[k]
  <1>1. /\ inTs[l] \in Nat /\ outTs[l] \in Nat /\ queue[l] \in Seq(Msg) /\ Latency[l] \in Nat
        /\ outTs[l] + Latency[l] \in Nat /\ inTs[l] <= outTs[l] + Latency[l]
        /\ Between(queue[l], inTs[l], outTs[l] + Latency[l])
    BY ParamsAssumption DEF QType, QInv
  <1>2. /\ Head(queue[l]).ts \in Nat
        /\ inTs[l] <= Head(queue[l]).ts /\ Head(queue[l]).ts <= outTs[l] + Latency[l]
        /\ Between(queue[l], Head(queue[l]).ts, outTs[l] + Latency[l])
    BY <1>1, HeadBetween, Zenon
  <1>3. /\ Tail(queue[l]) \in Seq(Msg)
        /\ Between(Tail(queue[l]), inTs[l], outTs[l] + Latency[l])
        /\ Between(Tail(queue[l]), Head(queue[l]).ts, outTs[l] + Latency[l])
    BY <1>1, <1>2, TailBetween, Zenon
  <1>4. queue' = [queue EXCEPT ![l] = Tail(queue[l])]
    BY Zenon DEF InDone
  <1>5. inTs' = inTs \/ inTs' = [inTs EXCEPT ![l] = Head(queue[l]).ts]
    BY Zenon DEF InPeek
  <1>6. QType'
    BY <1>2, <1>3, <1>4, <1>5, Zenon DEF QType
  <1>7. ASSUME NEW k \in Links
        PROVE  /\ inTs[k] <= inTs'[k]
               /\ inTs'[k] <= outTs'[k] + Latency[k]
               /\ Between(queue'[k], inTs'[k], outTs'[k] + Latency[k])
    BY <1>1, <1>2, <1>3, <1>4, <1>5, SMTT(30) DEF QType, QInv
  <1> QED
    BY <1>6, <1>7, Zenon DEF QInv

-----------------------------------------------------------------------------
(* What a step of simulator s leaves true of the clocks, the loop state and   *)
(* the sync obligations, once its effect on the links is known.               *)
SimType == /\ clock \in [Sims -> Nat]
           /\ pc \in [Sims -> {"sync", "poll", "send", "event"}]
           /\ port \in [Sims -> Nat] /\ \A s \in Sims : port[s] \in Ports(s) \cup {0}
           /\ minTs \in [Sims -> Nat \cup {Inf}]
EvType == /\ egress \in [Sims -> SUBSET Nat] /\ \A s \in Sims : egress[s] \subseteq Ports(s)
          /\ event \in [Sims -> Nat \cup {NoEvent}] /\ events \in [Sims -> Nat]

\* TypeOK, by groups of variables.
LEMMA TypeParts == TypeOK <=> SimType /\ EvType /\ QType
  BY SMTT(30) DEF TypeOK, SimType, EvType, QType, Msg

Parts == SimType /\ EvType /\ QType /\ QInv /\ OutInv /\ InInv /\ PortInv /\ MinInv /\ DueInv

\* SyncInv, by the groups of variables that the actions change.
LEMMA InvParts == SyncInv <=> Parts
  BY TypeParts, LinkInvParts, Zenon DEF SyncInv, Parts

(* Moving the clock up to a time no later than the next input of every port. *)
LEMMA MoveKeeps ==
  ASSUME SimType, QType, InInv, OutInv, NEW s \in Sims, NEW t \in Nat,
         MoveTo(s, t), QType', outTs' = outTs,
         \A k \in Links : inTs[k] <= inTs'[k],
         \A i \in Ports(s) : t <= inTs'[In(s, i)]
  PROVE  /\ clock' \in [Sims -> Nat]
         /\ pc' = [pc EXCEPT ![s] = IF clock' = clock THEN "poll" ELSE "sync"]
         /\ \A d \in Sims : d # s => clock'[d] = clock[d]
         /\ clock'[s] >= clock[s]
         /\ clock' # clock => clock'[s] > clock[s]
         /\ InInv' /\ OutInv'
  <1>1. clock' = clock \/ clock' = [clock EXCEPT ![s] = t]
    BY Zenon DEF MoveTo
  <1>2. \/ clock' = [clock EXCEPT ![s] = t] /\ t > clock[s] /\ pc' = [pc EXCEPT ![s] = "sync"]
        \/ clock' = clock /\ pc' = [pc EXCEPT ![s] = "poll"]
    BY Zenon DEF MoveTo
  <1>3. /\ clock' \in [Sims -> Nat]
        /\ \A d \in Sims : d # s => clock'[d] = clock[d]
        /\ clock'[s] >= clock[s]
        /\ clock' # clock => clock'[s] > clock[s]
    BY <1>2 DEF SimType
  <1>4. pc' = [pc EXCEPT ![s] = IF clock' = clock THEN "poll" ELSE "sync"]
    <2>1. CASE clock' = clock /\ pc' = [pc EXCEPT ![s] = "poll"]
      BY <2>1, Zenon
    <2>2. CASE clock' = [clock EXCEPT ![s] = t] /\ t > clock[s] /\ pc' = [pc EXCEPT ![s] = "sync"]
      <3>1. clock'[s] = t /\ clock'[s] # clock[s]
        BY <2>2 DEF SimType
      <3> QED
        BY <2>2, <3>1, Zenon
    <2> QED
      BY <1>2, <2>1, <2>2, Zenon
  <1>5. OutInv'
    <2> SUFFICES ASSUME NEW l \in Links PROVE outTs[l] <= clock'[l[1]]
      BY Zenon DEF OutInv
    <2>1. l[1] \in Sims /\ outTs[l] \in Nat /\ outTs[l] <= clock[l[1]]
      BY LinkPorts, Zenon DEF OutInv, QType
    <2> QED
      BY <1>3, <2>1 DEF SimType
  <1>6. ASSUME NEW l \in Links PROVE clock'[l[2]] <= inTs'[l]
    <2>1. l[2] \in Sims /\ clock[l[2]] \in Nat /\ inTs[l] \in Nat /\ inTs'[l] \in Nat
      BY LinkPorts, Zenon DEF SimType, QType
    <2>2. clock[l[2]] <= inTs'[l]
      BY <2>1 DEF InInv
    <2>3. CASE l[2] = s
      <3>1. PICK i \in Ports(s) : l = In(s, i)
        BY <2>3, LinkPorts, Zenon
      <3>2. t <= inTs'[l]
        BY <3>1, Zenon
      <3> QED
        BY <1>1, <2>2, <2>3, <3>2, Zenon DEF SimType
    <2>4. CASE l[2] # s
      BY <1>3, <2>1, <2>2, <2>4, Zenon
    <2> QED
      BY <2>3, <2>4, Zenon
  <1> QED
    BY <1>3, <1>4, <1>5, <1>6, Zenon DEF InInv

(* A simulator whose loop state stays as it is keeps MinAt. *)
LEMMA MinAtStays ==
  ASSUME Parts, NEW d \in Sims \ Nics, QType', \A k \in Links : inTs[k] <= inTs'[k],
         pc'[d] = pc[d], port'[d] = port[d], minTs'[d] = minTs[d]
  PROVE  MinAt(d)'
  <1>1. ASSUME NEW i \in Ports(d)
        PROVE  inTs[In(d, i)] \in Nat /\ inTs'[In(d, i)] \in Nat
               /\ inTs[In(d, i)] <= inTs'[In(d, i)]
    BY PortLinks, Zenon DEF Parts, QType
  <1> QED
    BY <1>1 DEF Parts, MinInv, MinAt, SimType, Inf

(* The end of an iteration over a port. *)
LEMMA NextPortKeeps ==
  ASSUME Parts, NEW s \in Sims, pc[s] \in {"poll", "send"}, port[s] \in Ports(s),
         NEW t \in Nat, t = inTs'[PollLink(s)], NextPort(s, t),
         QType', outTs' = outTs, \A k \in Links : inTs[k] <= inTs'[k]
  PROVE  SimType' /\ OutInv' /\ InInv' /\ PortInv' /\ MinInv' /\ DueInv'
  <1> DEFINE m == Earlier(minTs[s], t)
             n == Len(Peers[s])
  <1>0. n \in Nat \ {0} /\ Ports(s) = 1 .. n /\ port[s] \in 1 .. n /\ 1 \in Ports(s)
    BY TopologyAssumption DEF Ports
  <1>1. /\ minTs[s] \in Nat \cup {Inf} /\ m \in Nat /\ m <= t
        /\ minTs[s] # Inf => m <= minTs[s]
        /\ m # Inf
    BY DEF Parts, SimType, Earlier, Inf
  <1>2. ASSUME s \notin Nics, NEW i \in Ports(s), i <= port[s]
        PROVE  m <= inTs'[In(s, i)]
    <2>1. inTs[In(s, i)] \in Nat /\ inTs'[In(s, i)] \in Nat /\ inTs[In(s, i)] <= inTs'[In(s, i)]
      BY PortLinks, Zenon DEF Parts, QType
    <2>2. CASE i < port[s]
      BY <1>1, <1>2, <2>1, <2>2 DEF Parts, MinInv, MinAt, Inf
    <2>3. CASE i = port[s]
      BY <1>1, <1>2, <2>3, Zenon DEF PollLink, PollPort
    <2> QED
      BY <1>0, <1>2, <2>2, <2>3
  <1> HIDE DEF m
  <1>a. InInv /\ OutInv /\ SimType /\ QType
    BY Zenon DEF Parts
  <1>b. ASSUME clock' = clock PROVE OutInv' /\ InInv'
    <2>1. ASSUME NEW l \in Links PROVE clock[l[2]] <= inTs'[l]
      BY <1>a, LinkPorts DEF InInv, SimType, QType
    <2> QED
      BY <1>a, <1>b, <2>1, Zenon DEF InInv, OutInv
  <1>3. CASE port[s] < n
    <2>1. /\ port' = [port EXCEPT ![s] = port[s] + 1] /\ minTs' = [minTs EXCEPT ![s] = m]
          /\ pc' = [pc EXCEPT ![s] = "poll"] /\ clock' = clock
      BY <1>3, Zenon DEF NextPort, m
    <2>2. SimType'
      BY <1>0, <1>1, <1>3, <2>1, <1>a DEF SimType
    <2>3. OutInv' /\ InInv'
      BY <2>1, <1>b, Zenon
    <2>4. PortInv'
      BY <1>0, <2>1, <1>a DEF Parts, PortInv, SimType
    <2>5. ASSUME NEW d \in Sims \ Nics PROVE MinAt(d)'
      <3>1. CASE d = s
        BY <1>0, <1>1, <1>2, <2>1, <3>1, <1>a, SMTT(30) DEF SimType, Ports, MinAt
      <3>2. CASE d # s
        BY <2>1, <3>2, <1>a, MinAtStays, Zenon DEF SimType
      <3> QED
        BY <3>1, <3>2, Zenon
    <2>6. DueInv'
      BY <2>1, <1>a, Zenon DEF Parts, DueInv, Synced, SimType
    <2> QED
      BY <2>2, <2>3, <2>4, <2>5, <2>6, Zenon DEF MinInv
  <1>4. CASE port[s] = n /\ s \in Nics
    <2>1. /\ port' = [port EXCEPT ![s] = 1] /\ minTs' = [minTs EXCEPT ![s] = Inf]
          /\ pc' = [pc EXCEPT ![s] = "event"] /\ clock' = clock
      BY <1>0, <1>4 DEF NextPort
    <2>2. SimType'
      BY <1>0, <2>1, <1>a, Zenon DEF SimType
    <2>3. OutInv' /\ InInv'
      BY <2>1, <1>b, Zenon
    <2>4. PortInv'
      BY <1>0, <2>1, <1>a DEF Parts, PortInv, SimType
    <2>5. ASSUME NEW d \in Sims \ Nics PROVE MinAt(d)'
      BY <1>4, <2>1, <1>a, MinAtStays, Zenon DEF SimType
    <2>6. DueInv'
      BY <2>1, <1>a, Zenon DEF Parts, DueInv, Synced, SimType
    <2> QED
      BY <2>2, <2>3, <2>4, <2>5, <2>6, Zenon DEF MinInv
  <1>5. CASE port[s] = n /\ s \notin Nics
    <2>1. /\ port' = [port EXCEPT ![s] = 1] /\ minTs' = [minTs EXCEPT ![s] = Inf]
          /\ MoveTo(s, m)
      BY <1>0, <1>5 DEF NextPort, m
    <2>2. \A i \in Ports(s) : m <= inTs'[In(s, i)]
      BY <1>0, <1>2, <1>5
    <2>3. /\ clock' \in [Sims -> Nat]
          /\ pc' = [pc EXCEPT ![s] = IF clock' = clock THEN "poll" ELSE "sync"]
          /\ \A d \in Sims : d # s => clock'[d] = clock[d]
          /\ InInv' /\ OutInv'
      BY <1>1, <1>a, <2>1, <2>2, MoveKeeps, Zenon
    <2>4. SimType'
      BY <1>0, <2>1, <2>3, <1>a, Zenon DEF SimType
    <2>5. PortInv'
      BY <1>0, <2>1, <2>3, <1>a DEF Parts, PortInv, SimType
    <2>6. ASSUME NEW d \in Sims \ Nics PROVE MinAt(d)'
      <3>1. CASE d = s
        BY <1>0, <2>1, <2>3, <3>1, <1>a DEF SimType, Ports, MinAt
      <3>2. CASE d # s
        BY <2>1, <2>3, <3>2, <1>a, MinAtStays, Zenon DEF SimType
      <3> QED
        BY <3>1, <3>2, Zenon
    <2>7. DueInv'
      <3>1. ASSUME NEW d \in Sims, NEW i \in Ports(d), Synced(d)' \/ i < port'[d]
            PROVE  clock'[d] < outTs'[Out(d, i)] + SyncInterval[Out(d, i)]
        <4>1. CASE d # s
          BY <2>1, <2>3, <3>1, <4>1, <1>a, Zenon DEF Parts, DueInv, Synced, SimType
        <4>2. CASE d = s
          <5>1. port'[s] = 1 /\ ~(i < 1)
            BY <1>0, <2>1, <4>2, <1>a DEF SimType, Ports
          <5>2. clock' = clock
            BY <2>3, <3>1, <4>2, <5>1, <1>a, Zenon DEF Synced, SimType
          <5> QED
            BY <4>2, <5>2, Zenon DEF Parts, DueInv, Synced
        <4> QED
          BY <4>1, <4>2, Zenon
      <3> QED
        BY <3>1, Zenon DEF DueInv
    <2> QED
      BY <2>3, <2>4, <2>5, <2>6, <2>7, Zenon DEF MinInv
  <1> QED
    BY <1>0, <1>3, <1>4, <1>5

-----------------------------------------------------------------------------
\* The initial state.
LEMMA InitParts == Init => Parts
  <1> SUFFICES ASSUME Init PROVE Parts
    BY Zenon
  <1> USE DEF Init
  <1>1. ASSUME NEW s \in Sims
        PROVE  1 \in Ports(s) /\ Ports(s) \subseteq Nat /\ \A i \in Ports(s) : ~(i < 1)
    BY TopologyAssumption DEF Ports
  <1>2. SimType
    BY <1>1, Zenon DEF SimType, Inf
  <1>3. EvType
    BY DEF EvType, NoEvent
  <1>4. QType
    BY DEF QType
  <1>5. QInv
    BY ParamsAssumption DEF QInv, Between
  <1>6. OutInv /\ InInv
    BY LinkPorts DEF OutInv, InInv
  <1>7. PortInv
    BY DEF PortInv
  <1>8. ASSUME NEW s \in Sims \ Nics PROVE MinAt(s)
    <2>1. pc[s] = "sync" /\ port[s] = 1 /\ minTs[s] = Inf
      BY Zenon
    <2> QED
      BY <2>1 DEF MinAt
  <1>9. DueInv
    BY <1>1, Zenon DEF DueInv, Synced
  <1> QED
    BY <1>2, <1>3, <1>4, <1>5, <1>6, <1>7, <1>8, <1>9, Zenon DEF Parts, MinInv

-----------------------------------------------------------------------------
(* Every action of SyncNet preserves the inductive invariant. *)

(* The port being polled is a port. *)
LEMMA PollLinks ==
  ASSUME Parts, NEW s \in Sims, port[s] # 0
  PROVE  port[s] \in Ports(s) /\ PollPort(s) \in Ports(s) /\ PollLink(s) \in Links
  <1>1. port[s] \in Ports(s)
    BY Zenon DEF Parts, SimType
  <1>2. PollPort(s) \in Ports(s)
    BY <1>1, TopologyAssumption DEF PollPort, Ports
  <1> QED
    BY <1>1, <1>2, PortLinks, Zenon DEF PollLink

(* After a sync (sent, or not due) the peer is owed nothing for now. *)
LEMMA SyncSettles ==
  ASSUME Parts, NEW s \in Sims, NEW i \in Ports(s), OutSync(Out(s, i), clock[s])
  PROVE  /\ outTs' \in [Links -> Nat]
         /\ \A l \in Links : l # Out(s, i) => outTs'[l] = outTs[l]
         /\ clock[s] < outTs'[Out(s, i)] + SyncInterval[Out(s, i)]
         /\ outTs'[Out(s, i)] <= clock[s]
  <1> DEFINE l == Out(s, i)
  <1>1. l \in Links /\ l[1] = s /\ clock[s] \in Nat /\ outTs[l] \in Nat
        /\ SyncInterval[l] \in Nat \ {0} /\ outTs[l] <= clock[s]
    BY PortLinks, ParamsAssumption DEF Parts, SimType, QType, OutInv
  <1>2. CASE SyncDue(l, clock[s])
    <2>1. outTs' = [outTs EXCEPT ![l] = clock[s]] /\ outTs \in [Links -> Nat]
      BY <1>2, Zenon DEF OutSync, OutPut, Parts, QType
    <2> QED
      BY <1>1, <2>1
  <1>3. CASE ~SyncDue(l, clock[s])
    BY <1>1, <1>3 DEF OutSync, SyncDue, Parts, QType
  <1> QED
    BY <1>2, <1>3, Zenon

\* OutSync at one port keeps the invariant.
LEMMA SyncPortKeeps ==
  ASSUME Parts, NEW s \in Sims, SyncPort(s)
  PROVE  Parts'
  <1> USE DEF SyncPort, evVars
  <1>1. /\ port[s] # 0 /\ port[s] \in Ports(s) /\ Len(Peers[s]) \in Nat \ {0}
        /\ Ports(s) = 1 .. Len(Peers[s])
    BY PollLinks, TopologyAssumption DEF Parts, PortInv, Ports
  <1> DEFINE l == Out(s, port[s])
  <1>2. /\ l \in Links /\ l[1] = s /\ clock[s] \in Nat /\ outTs[l] <= clock[s]
        /\ OutSync(l, clock[s])
    BY <1>1, PortLinks, Zenon DEF Parts, SimType, OutInv
  <1>3. /\ outTs' \in [Links -> Nat]
        /\ \A k \in Links : k # l => outTs'[k] = outTs[k]
        /\ clock[s] < outTs'[l] + SyncInterval[l]
        /\ outTs'[l] <= clock[s]
    BY <1>1, <1>2, SyncSettles, Zenon
  <1>4. QType' /\ QInv'
    <2>1. CASE SyncDue(l, clock[s])
      BY <1>2, <2>1, SendKeepsQ, Zenon DEF OutSync, Parts
    <2>2. CASE ~SyncDue(l, clock[s])
      BY <2>2, Zenon DEF OutSync, Parts, QType, QInv
    <2> QED
      BY <2>1, <2>2, Zenon
  <1>5. OutInv' /\ InInv'
    BY <1>2, <1>3, Zenon DEF Parts, OutInv, InInv
  <1>6. /\ pc' = [pc EXCEPT ![s] = IF port[s] < Len(Peers[s]) THEN "sync" ELSE "poll"]
        /\ port' = [port EXCEPT ![s] = IF port[s] < Len(Peers[s]) THEN port[s] + 1 ELSE 1]
    BY Zenon DEF Parts, SimType
  <1>7. SimType' /\ EvType'
    BY <1>1, <1>6 DEF Parts, SimType, EvType
  <1>8. PortInv'
    BY <1>1, <1>6 DEF Parts, PortInv, SimType
  <1>9. ASSUME NEW d \in Sims \ Nics PROVE MinAt(d)'
    <2>1. CASE d = s
      BY <1>1, <1>6, <2>1 DEF Parts, MinInv, MinAt, SimType
    <2>2. CASE d # s
      <3>1. pc'[d] = pc[d] /\ port'[d] = port[d] /\ minTs'[d] = minTs[d]
        BY <1>6, <2>2, Zenon DEF Parts, SimType
      <3>2. \A k \in Links : inTs[k] <= inTs'[k]
        BY DEF Parts, QType
      <3> QED
        BY <1>4, <3>1, <3>2, MinAtStays, Zenon
    <2> QED
      BY <2>1, <2>2, Zenon
  <1>10. ASSUME NEW d \in Sims, NEW i \in Ports(d), Synced(d)' \/ i < port'[d]
         PROVE  clock'[d] < outTs'[Out(d, i)] + SyncInterval[Out(d, i)]
    <2>1. CASE d # s
      <3>1. Out(d, i) \in Links /\ Out(d, i) # l
        BY <1>2, <2>1, PortLinks, Zenon
      <3> QED
        BY <1>3, <1>6, <1>10, <2>1, <3>1, Zenon DEF Parts, DueInv, Synced, SimType
    <2>2. CASE d = s /\ i = port[s]
      BY <1>3, <2>2, Zenon
    <2>3. CASE d = s /\ i # port[s]
      <3>1. Out(s, i) \in Links /\ Out(s, i) # l
        BY <1>1, <2>3, PortLinks, Zenon
      <3>2. i < port[s]
        BY <1>1, <1>6, <1>10, <2>3 DEF Parts, Synced, SimType
      <3> QED
        BY <1>3, <2>3, <3>1, <3>2, Zenon DEF Parts, DueInv
    <2> QED
      BY <2>1, <2>2, <2>3, Zenon
  <1> QED
    BY <1>4, <1>5, <1>7, <1>8, <1>9, <1>10, Zenon DEF Parts, MinInv, DueInv

\* Starting SimbricksNicIfSync over keeps the invariant.
LEMMA SyncRetryKeeps ==
  ASSUME Parts, NEW s \in Sims, SyncRetry(s)
  PROVE  Parts'
  <1> USE DEF SyncRetry, evVars
  <1>1. 1 \in Ports(s) /\ Ports(s) \subseteq Nat /\ \A i \in Ports(s) : ~(i < 1)
    BY TopologyAssumption DEF Ports
  <1>2. SimType' /\ EvType' /\ QType' /\ QInv' /\ OutInv' /\ InInv' /\ PortInv'
    BY <1>1 DEF Parts, SimType, EvType, QType, QInv, OutInv, InInv, PortInv
  <1>3. ASSUME NEW d \in Sims \ Nics PROVE MinAt(d)'
    BY Zenon DEF Parts, MinInv, MinAt, SimType
  <1>4. DueInv'
    BY <1>1, Zenon DEF Parts, DueInv, Synced, SimType
  <1> QED
    BY <1>2, <1>3, <1>4, Zenon DEF Parts, MinInv


\* InPeek without a message that is due keeps the invariant, also when it moves
\* in_timestamp or ends the iteration.
LEMMA PollNothingKeeps ==
  ASSUME Parts, NEW s \in Sims, PollNothing(s)
  PROVE  Parts'
  <1> USE DEF PollNothing, evVars
  <1>1. port[s] \in Ports(s) /\ PollLink(s) \in Links
    BY PollLinks, Zenon DEF Parts, PortInv
  <1>2. QType' /\ QInv' /\ \A k \in Links : inTs[k] <= inTs'[k]
    BY <1>1, PeekKeepsQ, Zenon DEF Parts
  <1>3. inTs'[PollLink(s)] \in Nat
    BY <1>1, <1>2, Zenon DEF QType
  <1>4. SimType' /\ OutInv' /\ InInv' /\ PortInv' /\ MinInv' /\ DueInv'
    BY <1>1, <1>2, <1>3, NextPortKeeps, Zenon
  <1>5. EvType'
    BY Zenon DEF Parts, EvType
  <1> QED
    BY <1>2, <1>4, <1>5, Zenon DEF Parts

\* Consuming a sync message keeps the invariant.
LEMMA PollSyncKeeps ==
  ASSUME Parts, NEW s \in Sims, PollSync(s)
  PROVE  Parts'
  <1> USE DEF PollSync, evVars
  <1>1. port[s] \in Ports(s) /\ PollLink(s) \in Links
    BY PollLinks, Zenon DEF Parts, PortInv
  <1>2. QType' /\ QInv' /\ \A k \in Links : inTs[k] <= inTs'[k]
    BY <1>1, PopKeepsQ, Zenon DEF Parts, InReady
  <1>3. inTs'[PollLink(s)] \in Nat
    BY <1>1, <1>2, Zenon DEF QType
  <1>4. SimType' /\ OutInv' /\ InInv' /\ PortInv' /\ MinInv' /\ DueInv'
    BY <1>1, <1>2, <1>3, NextPortKeeps, Zenon
  <1>5. EvType'
    BY Zenon DEF Parts, EvType
  <1> QED
    BY <1>2, <1>4, <1>5, Zenon DEF Parts

\* A device's event lies at a time.
LEMMA TimersNat ==
  ASSUME SimType, NEW s \in Sims, NEW n
  PROVE  Timers(s, n) \subseteq Nat
  <1>1. clock[s] \in Nat /\ Delays \subseteq Nat
    BY ParamsAssumption, Zenon DEF SimType
  <1>2. ASSUME NEW d \in Delays PROVE clock[s] + d \in Nat
    BY <1>1, SMT
  <1>3. ASSUME NEW t \in Timers(s, n) PROVE \E d \in Delays : t = clock[s] + d
    BY Zenon DEF Timers
  <1> QED
    BY <1>2, <1>3, Zenon

\* Starting to forward a packet keeps the invariant.
LEMMA PollDataKeeps ==
  ASSUME Parts, NEW s \in Sims, PollData(s)
  PROVE  Parts'
  <1> USE DEF PollData, evVars
  <1>1. port[s] \in Ports(s) /\ PollPort(s) \in Ports(s) /\ PollLink(s) \in Links
    BY PollLinks, Zenon DEF Parts, PortInv
  <1>2. QType' /\ QInv' /\ \A k \in Links : inTs[k] <= inTs'[k]
    BY <1>1, PeekKeepsQ, Zenon DEF Parts
  <1>3. SimType'
    BY Zenon DEF Parts, SimType
  <1>4. EvType'
    <2>1. PICK e \in EgressSets(s) : egress' = [egress EXCEPT ![s] = e]
      BY Zenon
    <2>2. e \subseteq Ports(s) /\ Ports(s) \subseteq Nat
      BY TopologyAssumption DEF EgressSets, DeviceSends, Ports
    <2>3. event' \in [Sims -> Nat \cup {NoEvent}]
      <3>1. CASE UNCHANGED event
        BY <3>1, Zenon DEF Parts, EvType
      <3>2. CASE \E t \in Timers(s, events[s]) : event' = [event EXCEPT ![s] = t]
        BY <3>2, TimersNat, Zenon DEF Parts, EvType
      <3> QED
        BY <3>1, <3>2, Zenon DEF Schedule
    <2> QED
      BY <2>1, <2>2, <2>3, Zenon DEF Parts, EvType
  <1>5. OutInv'
    BY Zenon DEF Parts, OutInv
  <1>6. InInv'
    <2>1. ASSUME NEW l \in Links PROVE clock[l[2]] <= inTs'[l]
      BY <1>2, LinkPorts DEF Parts, InInv, SimType, QType
    <2> QED
      BY <2>1, Zenon DEF InInv
  <1>7. PortInv'
    BY <1>1, Zenon DEF Parts, PortInv, SimType
  <1>8. ASSUME NEW d \in Sims \ Nics PROVE MinAt(d)'
    <2>1. ASSUME NEW i \in Ports(d)
          PROVE  inTs[In(d, i)] \in Nat /\ inTs'[In(d, i)] \in Nat
                 /\ inTs[In(d, i)] <= inTs'[In(d, i)]
      BY <1>2, PortLinks, Zenon DEF Parts, QType
    <2> QED
      BY <2>1 DEF Parts, MinInv, MinAt, SimType, Inf
  <1>9. DueInv'
    BY Zenon DEF Parts, DueInv, Synced, SimType
  <1> QED
    BY <1>2, <1>3, <1>4, <1>5, <1>6, <1>7, <1>8, <1>9, Zenon DEF Parts, MinInv

\* Sending a packet on one port keeps the invariant.
LEMMA SendOneKeeps ==
  ASSUME Parts, NEW s \in Sims, SendOne(s)
  PROVE  Parts'
  <1> USE DEF SendOne, evVars
  <1>1. PICK i \in Ports(s) : /\ OutPut(Out(s, i), clock[s], "DATA")
                              /\ egress' = [egress EXCEPT ![s] = egress[s] \ {i}]
    BY Zenon
  <1> DEFINE l == Out(s, i)
  <1>2. /\ l \in Links /\ l[1] = s /\ clock[s] \in Nat /\ outTs[l] \in Nat /\ outTs[l] <= clock[s]
        /\ SyncInterval[l] \in Nat \ {0}
    BY PortLinks, ParamsAssumption, SMTT(30) DEF Parts, SimType, QType, OutInv
  <1>3. QType' /\ QInv'
    BY <1>1, <1>2, SendKeepsQ, Zenon DEF Parts
  <1>4. outTs' = [outTs EXCEPT ![l] = clock[s]]
    BY <1>1, Zenon DEF OutPut
  <1>5. SimType' /\ PortInv'
    BY Zenon DEF Parts, SimType, PortInv
  <1>6. EvType'
    BY <1>1, Zenon DEF Parts, EvType
  <1>7. OutInv'
    <2> SUFFICES ASSUME NEW k \in Links PROVE outTs'[k] <= clock[k[1]]
      BY Zenon DEF OutInv
    <2>1. outTs \in [Links -> Nat] /\ outTs[k] <= clock[k[1]]
      BY Zenon DEF Parts, OutInv, QType
    <2> QED
      BY <1>2, <1>4, <2>1
  <1>8. InInv'
    BY Zenon DEF Parts, InInv
  <1>9. MinInv'
    BY Zenon DEF Parts, MinInv, MinAt
  <1>10. ASSUME NEW d \in Sims, NEW j \in Ports(d), Synced(d)' \/ j < port'[d]
         PROVE  clock'[d] < outTs'[Out(d, j)] + SyncInterval[Out(d, j)]
    <2>0. Out(d, j) \in Links /\ Out(d, j)[1] = d
      BY PortLinks, Zenon
    <2>1. CASE Out(d, j) = l
      BY <1>2, <1>4, <2>0, <2>1 DEF Parts, QType
    <2>2. CASE Out(d, j) # l
      BY <1>4, <1>10, <2>0, <2>2, Zenon DEF Parts, QType, DueInv, Synced
    <2> QED
      BY <2>1, <2>2, Zenon
  <1> QED
    BY <1>3, <1>5, <1>6, <1>7, <1>8, <1>9, <1>10, Zenon DEF Parts, DueInv

\* Giving back the slot of a forwarded packet keeps the invariant.
LEMMA RxDoneKeeps ==
  ASSUME Parts, ForwardedOnTime, NEW s \in Sims, RxDone(s)
  PROVE  Parts'
  <1> USE DEF RxDone, evVars
  <1>1. port[s] \in Ports(s) /\ PollLink(s) \in Links /\ queue[PollLink(s)] # << >>
    BY PollLinks, Zenon DEF ForwardedOnTime
  <1>2. QType' /\ QInv' /\ \A k \in Links : inTs[k] <= inTs'[k]
    BY <1>1, PopKeepsQ, Zenon DEF Parts
  <1>3. inTs'[PollLink(s)] \in Nat
    BY <1>1, <1>2, Zenon DEF QType
  <1>4. SimType' /\ OutInv' /\ InInv' /\ PortInv' /\ MinInv' /\ DueInv'
    BY <1>1, <1>2, <1>3, NextPortKeeps, Zenon
  <1>5. EvType'
    BY Zenon DEF Parts, EvType
  <1> QED
    BY <1>2, <1>4, <1>5, Zenon DEF Parts

(* Only simulators with nicbm's loop have device events. *)
LEMMA EventOnlyNics ==
  ASSUME Parts, NEW s \in Sims, pc[s] = "event" \/ port[s] = 0
  PROVE  s \in Nics
  BY Zenon DEF Parts, MinInv, MinAt

\* A device event keeps the invariant.
LEMMA FireEventKeeps ==
  ASSUME Parts, NEW s \in Sims, FireEvent(s)
  PROVE  Parts'
  <1> USE DEF FireEvent
  <1>1. s \in Nics
    BY EventOnlyNics, Zenon
  <1>2. EvType'
    <2>1. PICK e \in DeviceSends(s) : egress' = [egress EXCEPT ![s] = e]
      BY Zenon
    <2>2. PICK t \in {NoEvent} \cup Timers(s, events[s] + 1) : event' = [event EXCEPT ![s] = t]
      BY Zenon
    <2>3. t \in Nat \cup {NoEvent}
      BY <2>2, TimersNat, Zenon DEF Parts
    <2>4. e \subseteq Ports(s) /\ Ports(s) \subseteq Nat
      BY TopologyAssumption DEF DeviceSends, Ports
    <2>5. events' \in [Sims -> Nat]
      BY SMT DEF Parts, EvType
    <2> QED
      BY <2>1, <2>2, <2>3, <2>4, <2>5, Zenon DEF Parts, EvType
  <1>3. SimType' /\ QType' /\ QInv' /\ OutInv' /\ InInv' /\ PortInv'
    BY Zenon DEF Parts, SimType, QType, QInv, OutInv, InInv, PortInv
  <1>4. ASSUME NEW d \in Sims \ Nics PROVE MinAt(d)'
    BY <1>1, Zenon DEF Parts, MinInv, MinAt, SimType
  <1>5. DueInv'
    BY Zenon DEF Parts, DueInv, Synced, SimType
  <1> QED
    BY <1>2, <1>3, <1>4, <1>5, Zenon DEF Parts, MinInv

(* The times a port contributes to SimbricksNicIfNextTimestamp. *)
LEMMA PortTimes ==
  ASSUME QType, NEW s \in Sims, NEW i \in Ports(s)
  PROVE  /\ In(s, i) \in Links /\ Out(s, i) \in Links
         /\ inTs[In(s, i)] \in Nat /\ OutNextSync(Out(s, i)) \in Nat
  <1>1. /\ inTs \in [Links -> Nat] /\ outTs \in [Links -> Nat]
        /\ \A l \in Links : SyncInterval[l] \in Nat
    BY ParamsAssumption, Zenon DEF QType
  <1> QED
    BY <1>1, PortLinks DEF OutNextSync

\* The next time of nicbm keeps the invariant: no input is passed.
LEMMA NicAdvanceKeeps ==
  ASSUME Parts, NEW s \in Sims, NicAdvance(s)
  PROVE  Parts'
  <1> USE DEF NicAdvance, evVars
  <1>1. s \in Nics /\ Synced(s)
    BY EventOnlyNics, Zenon DEF Synced
  <1>2. 1 \in Ports(s) /\ Ports(s) \subseteq Nat /\ \A i \in Ports(s) : ~(i < 1)
    BY TopologyAssumption DEF Ports
  <1>3. PICK t \in NextTimes(s) : IsLeast(t, NextTimes(s)) /\ MoveTo(s, t)
    BY SMTT(30)
  <1>4. \A i \in Ports(s) : t <= inTs[In(s, i)]
    BY <1>3, ZenonT(30) DEF IsLeast, NextTimes
  <1>5. t \in Nat
    <2>1. \A i \in Ports(s) : /\ In(s, i) \in Links /\ Out(s, i) \in Links
                              /\ inTs[In(s, i)] \in Nat
                              /\ OutNextSync(Out(s, i)) \in Nat
      BY PortTimes, SMTT(30) DEF Parts
    <2>2. clock[s] + MaxStep \in Nat /\ event[s] \in Nat \cup {NoEvent}
      BY ParamsAssumption, SMTT(30) DEF Parts, SimType, EvType
    <2> QED
      BY <2>1, <2>2, SMTT(30) DEF NextTimes
  <1>a. SimType /\ QType /\ InInv /\ OutInv /\ QType' /\ outTs' = outTs
        /\ \A k \in Links : inTs[k] <= inTs'[k]
    BY SMTT(30) DEF Parts, QType
  <1>6. /\ clock' \in [Sims -> Nat]
        /\ pc' = [pc EXCEPT ![s] = IF clock' = clock THEN "poll" ELSE "sync"]
        /\ \A d \in Sims : d # s => clock'[d] = clock[d]
        /\ InInv' /\ OutInv'
    BY <1>3, <1>4, <1>5, <1>a, MoveKeeps, SMTT(30)
  <1>7. SimType' /\ PortInv' /\ EvType' /\ QInv'
    <2>1. SimType' /\ PortInv'
      BY <1>2, <1>6, SMTT(30) DEF Parts, SimType, PortInv
    <2>2. EvType' /\ QInv'
      BY SMTT(30) DEF Parts, EvType, QInv
    <2> QED
      BY <2>1, <2>2, SMTT(30)
  <1>8. ASSUME NEW d \in Sims \ Nics PROVE MinAt(d)'
    BY <1>1, <1>6, <1>a, MinAtStays, SMTT(30) DEF SimType
  <1>9. ASSUME NEW d \in Sims, NEW i \in Ports(d), Synced(d)' \/ i < port'[d]
        PROVE  clock'[d] < outTs'[Out(d, i)] + SyncInterval[Out(d, i)]
    <2>1. CASE d # s
      BY <1>6, <1>9, <2>1, <1>a, ZenonT(30) DEF Parts, DueInv, Synced, SimType
    <2>2. CASE d = s
      <3>1. port'[s] = 1 /\ ~(i < 1)
        BY <1>2, <2>2, <1>a, SMTT(30) DEF SimType
      <3>2. clock' = clock
        BY <1>6, <1>9, <2>2, <3>1, <1>a, Zenon DEF Synced, SimType
      <3> QED
        BY <1>1, <2>2, <3>2, SMTT(30) DEF Parts, DueInv
    <2> QED
      BY <2>1, <2>2, SMTT(30)
  <1> QED
    BY <1>6, <1>7, <1>8, <1>9, <1>a, ZenonT(30) DEF Parts, MinInv, DueInv

-----------------------------------------------------------------------------
(* The packet being forwarded stays at the head of its queue, and time stands *)
(* still for its simulator, until RxDone.                                     *)
Held(s) == pc[s] = "send" /\ port[s] # 0 =>
              queue[PollLink(s)] # << >> /\ Head(queue[PollLink(s)]).ts = clock[s]

(* What a step of s can do to the input queue another simulator d is at. *)
LEMMA HeldStays ==
  ASSUME Parts, NEW d \in Sims, Held(d), NEW l \in Links, NEW m \in Msg,
         pc'[d] = pc[d], port'[d] = port[d], clock'[d] = clock[d],
         \/ queue' = queue
         \/ queue' = [queue EXCEPT ![l] = Append(queue[l], m)]
         \/ l # PollLink(d) /\ queue' = [queue EXCEPT ![l] = Tail(queue[l])]
  PROVE  Held(d)'
  <1> SUFFICES ASSUME pc[d] = "send", port[d] # 0
               PROVE  queue'[PollLink(d)] # << >> /\ Head(queue'[PollLink(d)]).ts = clock[d]
    BY Zenon DEF Held, PollLink, PollPort, In
  <1>1. /\ PollLink(d) \in Links /\ queue[PollLink(d)] \in Seq(Msg)
        /\ queue[PollLink(d)] # << >> /\ Head(queue[PollLink(d)]).ts = clock[d]
        /\ queue \in [Links -> Seq(Msg)]
    BY PollLinks, Zenon DEF Held, Parts, QType
  <1>2. CASE queue'[PollLink(d)] = queue[PollLink(d)]
    BY <1>1, <1>2, Zenon
  <1>3. CASE queue'[PollLink(d)] = Append(queue[PollLink(d)], m)
    BY <1>1, <1>3
  <1> QED
    BY <1>1, <1>2, <1>3, Zenon

\* While a packet is being sent on, it stays at the head of its queue.
LEMMA StepKeepsHeld ==
  ASSUME Parts, ForwardedOnTime, NEW s \in Sims, Step(s)
  PROVE  ForwardedOnTime'
  <1>0. \A d \in Sims : Held(d)
    BY Zenon DEF ForwardedOnTime, Held
  <1>1. /\ pc \in [Sims -> {"sync", "poll", "send", "event"}] /\ clock \in [Sims -> Nat]
        /\ port \in [Sims -> Nat]
    BY Zenon DEF Parts, SimType
  <1>2. ASSUME NEW t, NextPort(s, t)
        PROVE  /\ pc'[s] # "send"
               /\ \A d \in Sims : d # s =>
                     pc'[d] = pc[d] /\ port'[d] = port[d] /\ clock'[d] = clock[d]
    BY <1>1, <1>2, Zenon DEF NextPort, MoveTo
  <1>3. ASSUME port[s] # 0 PROVE PollLink(s) \in Links /\ PollLink(s)[2] = s
    BY <1>3, PollLinks, PortLinks, Zenon DEF PollLink
  <1>4. ASSUME NEW d \in Sims, d # s, port[d] # 0 PROVE PollLink(d)[2] # s
    BY <1>4, PollLinks, PortLinks, Zenon DEF PollLink
  <1>m. ASSUME NEW l \in Links, NEW ty \in {"SYNC", "DATA"} PROVE Message(clock[s], l, ty) \in Msg
    BY <1>1, ParamsAssumption DEF Message, Msg
  <1>5. ASSUME NEW d \in Sims, d # s PROVE Held(d)'
    <2>0. CASE port[d] = 0 /\ port'[d] = port[d]
      BY <2>0, Zenon DEF Held
    <2>1. CASE SyncPort(s)
      <3>1. pc'[d] = pc[d] /\ port'[d] = port[d] /\ clock'[d] = clock[d]
        BY <1>1, <1>5, <2>1, Zenon DEF SyncPort
      <3>2. port[s] # 0 /\ port[s] \in Ports(s) /\ Out(s, port[s]) \in Links
        BY <2>1, PollLinks, PortLinks, Zenon DEF SyncPort, Parts, PortInv
      <3>3. \/ queue' = queue
            \/ queue' = [queue EXCEPT ![Out(s, port[s])] =
                            Append(queue[Out(s, port[s])], Message(clock[s], Out(s, port[s]), "SYNC"))]
        BY <2>1, Zenon DEF SyncPort, OutSync, OutPut
      <3>4. Message(clock[s], Out(s, port[s]), "SYNC") \in Msg
        BY <1>m, <3>2, Zenon
      <3> QED
        BY <1>0, <3>1, <3>2, <3>3, <3>4, HeldStays, Zenon
    <2>2. CASE SendOne(s)
      <3>1. pc'[d] = pc[d] /\ port'[d] = port[d] /\ clock'[d] = clock[d]
        BY <2>2, Zenon DEF SendOne
      <3>2. PICK i \in Ports(s) : OutPut(Out(s, i), clock[s], "DATA")
        BY <2>2, Zenon DEF SendOne
      <3>3. Out(s, i) \in Links /\ Message(clock[s], Out(s, i), "DATA") \in Msg
        BY <1>m, PortLinks, Zenon
      <3>4. queue' = [queue EXCEPT ![Out(s, i)] =
                         Append(queue[Out(s, i)], Message(clock[s], Out(s, i), "DATA"))]
        BY <3>2, Zenon DEF OutPut
      <3> QED
        BY <1>0, <3>1, <3>3, <3>4, HeldStays, Zenon
    <2>3. CASE PollSync(s) \/ RxDone(s)
      <3>1. pc'[d] = pc[d] /\ port'[d] = port[d] /\ clock'[d] = clock[d]
        BY <1>2, <1>5, <2>3, Zenon DEF PollSync, RxDone
      <3>2. port[s] # 0 /\ queue' = [queue EXCEPT ![PollLink(s)] = Tail(queue[PollLink(s)])]
        BY <2>3, Zenon DEF PollSync, RxDone, InDone, Parts, PortInv
      <3>3. CASE port[d] # 0
        <4>1. PollLink(s) # PollLink(d)
          BY <1>3, <1>4, <1>5, <3>2, <3>3, Zenon
        <4>2. [type |-> "SYNC", ts |-> 0] \in Msg
          BY Zenon DEF Msg
        <4> QED
          BY <1>0, <1>3, <3>1, <3>2, <4>1, <4>2, HeldStays, Zenon
      <3> QED
        BY <2>0, <3>1, <3>3, Zenon
    <2>4. CASE SyncRetry(s) \/ PollNothing(s) \/ PollData(s) \/ FireEvent(s) \/ NicAdvance(s)
      <3>1. pc'[d] = pc[d] /\ port'[d] = port[d] /\ clock'[d] = clock[d]
        BY <1>1, <1>2, <1>5, <2>4, Zenon
          , Zenon DEF SyncRetry, PollNothing, PollData, FireEvent, NicAdvance, MoveTo
      <3>2. queue' = queue
        BY <2>4, Zenon DEF SyncRetry, PollNothing, PollData, FireEvent, NicAdvance
      <3>3. PollLink(d)' = PollLink(d)
        BY <3>1, Zenon DEF PollLink, PollPort, In
      <3> QED
        BY <1>0, <3>1, <3>2, <3>3, Zenon DEF Held
    <2> QED
      BY <2>1, <2>2, <2>3, <2>4, Zenon DEF Step
  <1>6. Held(s)'
    <2>1. CASE PollData(s)
      <3>1. port[s] # 0 /\ PollLink(s) \in Links /\ PollLink(s)[2] = s
        BY <1>3, <2>1, Zenon DEF PollData, Parts, PortInv
      <3> DEFINE q == queue[PollLink(s)]
      <3>2. q # << >> /\ Head(q).ts <= clock[s]
        BY <2>1, Zenon DEF PollData, InReady
      <3>3. /\ q \in Seq(Msg) /\ inTs[PollLink(s)] \in Nat /\ clock[s] \in Nat
            /\ outTs[PollLink(s)] + Latency[PollLink(s)] \in Nat
            /\ Between(q, inTs[PollLink(s)], outTs[PollLink(s)] + Latency[PollLink(s)])
            /\ clock[s] <= inTs[PollLink(s)]
        BY <3>1, ParamsAssumption DEF Parts, QType, QInv, InInv, SimType
      <3>4. Head(q).ts \in Nat /\ inTs[PollLink(s)] <= Head(q).ts
        BY <3>2, <3>3, HeadBetween, Zenon
      <3>5. Head(q).ts = clock[s]
        BY <3>2, <3>3, <3>4
      <3>6. queue' = queue /\ PollLink(s)' = PollLink(s) /\ clock' = clock
        BY <2>1, Zenon DEF PollData, PollLink, PollPort, In
      <3> QED
        BY <3>2, <3>5, <3>6, Zenon DEF Held
    <2>2. CASE SendOne(s)
      <3>1. pc'[s] = pc[s] /\ port'[s] = port[s] /\ clock'[s] = clock[s]
        BY <2>2, Zenon DEF SendOne
      <3>2. PICK i \in Ports(s) : OutPut(Out(s, i), clock[s], "DATA")
        BY <2>2, Zenon DEF SendOne
      <3>3. Out(s, i) \in Links /\ Message(clock[s], Out(s, i), "DATA") \in Msg
        BY <1>m, PortLinks, Zenon
      <3>4. queue' = [queue EXCEPT ![Out(s, i)] =
                         Append(queue[Out(s, i)], Message(clock[s], Out(s, i), "DATA"))]
        BY <3>2, Zenon DEF OutPut
      <3> QED
        BY <1>0, <3>1, <3>3, <3>4, HeldStays, Zenon
    <2>3. CASE PollNothing(s) \/ PollSync(s) \/ RxDone(s)
      <3>1. pc'[s] # "send"
        BY <1>2, <2>3, Zenon DEF PollNothing, PollSync, RxDone
      <3> QED
        BY <3>1, Zenon DEF Held
    <2>4. CASE SyncPort(s) \/ SyncRetry(s) \/ NicAdvance(s)
      <3>1. pc'[s] # "send"
        BY <1>1, <2>4, Zenon DEF SyncPort, SyncRetry, NicAdvance, MoveTo
      <3> QED
        BY <3>1, Zenon DEF Held
    <2>5. CASE FireEvent(s)
      <3>1. port'[s] = 0
        BY <1>1, <2>5, Zenon DEF FireEvent
      <3> QED
        BY <3>1, Zenon DEF Held
    <2> QED
      BY <2>1, <2>2, <2>3, <2>4, <2>5, Zenon DEF Step
  <1>7. \A d \in Sims : Held(d)'
    BY <1>5, <1>6, Zenon
  <1> QED
    BY <1>7, Zenon DEF ForwardedOnTime, Held

-----------------------------------------------------------------------------
FullInv == Parts /\ ForwardedOnTime

\* The initial state.
LEMMA InitFull == Init => FullInv
  BY InitParts, Zenon DEF FullInv, ForwardedOnTime, Init

\* Every step keeps the full invariant.
LEMMA NextFull == FullInv /\ [Next]_vars => FullInv'
  <1> SUFFICES ASSUME FullInv, [Next]_vars PROVE FullInv'
    BY Zenon
  <1> USE DEF FullInv
  <1>1. ASSUME NEW s \in Sims, Step(s) PROVE FullInv'
    <2>1. ForwardedOnTime'
      BY <1>1, StepKeepsHeld, Zenon
    <2>2. Parts'
      BY <1>1, SyncPortKeeps, SyncRetryKeeps, PollNothingKeeps, PollSyncKeeps, PollDataKeeps,
         SendOneKeeps, RxDoneKeeps, FireEventKeeps, NicAdvanceKeeps, SMTT(30) DEF Step
    <2> QED
      BY <2>1, <2>2, Zenon
  <1>2. CASE UNCHANGED vars
    BY <1>2, Zenon DEF vars, simVars, evVars, Parts, SimType, EvType, QType, QInv, OutInv, InInv,
                PortInv, MinInv, MinAt, DueInv, Synced, ForwardedOnTime, PollLink, PollPort, In
  <1> QED
    BY <1>1, <1>2, Zenon DEF Next

\* The full invariant holds throughout.
LEMMA SpecFull == Spec => []FullInv
  BY InitFull, NextFull, PTL DEF Spec

(* Type correctness of the synchronisation loops. *)
THEOREM SyncTypes == Spec => []TypeOK
  <1>1. FullInv => TypeOK
    BY TypeParts, Zenon DEF FullInv, Parts
  <1> QED
    BY <1>1, SpecFull, PTL

(* Causality for every topology and every latency: no simulator ever finds a  *)
(* message that is older than its clock (SimbricksBaseIfInPeek, main loops).  *)
THEOREM SyncCausality == Spec => []NoMessageInThePast
  <1>1. FullInv => NoMessageInThePast
    <2> SUFFICES ASSUME FullInv, NEW l \in Links, NEW k \in 1 .. Len(queue[l])
                 PROVE  queue[l][k].ts >= clock[l[2]]
      BY Zenon DEF NoMessageInThePast
    <2>1. /\ clock[l[2]] \in Nat /\ inTs[l] \in Nat /\ queue[l] \in Seq(Msg)
          /\ clock[l[2]] <= inTs[l] /\ inTs[l] <= queue[l][k].ts
      BY LinkPorts, SMTT(30) DEF FullInv, Parts, SimType, QType, InInv, QInv, Between
    <2>2. queue[l][k].ts \in Nat
      BY <2>1, MsgAt, Zenon
    <2> QED
      BY <2>1, <2>2
  <1> QED
    BY <1>1, SpecFull, PTL

(* The promise a timestamp makes: what follows on the channel is not older.   *)
THEOREM SyncMonotone == Spec => []TimestampsMonotone
  <1>1. FullInv => TimestampsMonotone
    BY Zenon DEF FullInv, Parts, QInv, Between, TimestampsMonotone
  <1> QED
    BY <1>1, SpecFull, PTL

(* The clock of a simulator exceeds a peer's by at most that peer's latency.  *)
THEOREM SyncSkew == Spec => []BoundedSkew
  <1>1. FullInv => BoundedSkew
    <2> SUFFICES ASSUME FullInv, NEW l \in Links
                 PROVE  clock[l[2]] <= clock[l[1]] + Latency[l]
      BY Zenon DEF BoundedSkew
    <2>1. /\ clock[l[1]] \in Nat /\ clock[l[2]] \in Nat /\ inTs[l] \in Nat /\ outTs[l] \in Nat
          /\ Latency[l] \in Nat /\ clock[l[2]] <= inTs[l] /\ inTs[l] <= outTs[l] + Latency[l]
          /\ outTs[l] <= clock[l[1]]
      BY LinkPorts, ParamsAssumption, Zenon DEF FullInv, Parts, SimType, QType, InInv, OutInv, QInv
    <2> QED
      BY <2>1
  <1> QED
    BY <1>1, SpecFull, PTL

(* A packet is forwarded at the very time it carries. *)
THEOREM SyncForwardedOnTime == Spec => []ForwardedOnTime
  <1>1. FullInv => ForwardedOnTime
    BY Zenon DEF FullInv
  <1> QED
    BY <1>1, SpecFull, PTL

(* With sync_interval <= link_latency (what SimbricksBaseIfInit enforces) the *)
(* slowest simulator always holds a promise beyond its clock from every peer, *)
(* in every topology: waiting for timestamps cannot deadlock.                 *)
THEOREM SyncNoDeadlock == Spec => []SlowestIsFree
  <1>1. FullInv => SlowestIsFree
    <2> SUFFICES ASSUME FullInv, NEW s \in Sims, NEW i \in Ports(s),
                        \A d \in Sims : Synced(d) /\ clock[s] <= clock[d]
                 PROVE  outTs[In(s, i)] + Latency[In(s, i)] > clock[s]
      BY Zenon DEF SlowestIsFree
    <2> DEFINE l == In(s, i)
    <2>1. l \in Links /\ l[1] \in Sims
      BY PortLinks, LinkPorts, Zenon
    <2>2. PICK j \in Ports(l[1]) : l = Out(l[1], j)
      BY <2>1, LinkPorts, Zenon
    <2>3. clock[l[1]] < outTs[l] + SyncInterval[l]
      BY <2>1, <2>2, Zenon DEF FullInv, Parts, DueInv
    <2>4. /\ clock[s] \in Nat /\ clock[l[1]] \in Nat /\ outTs[l] \in Nat /\ Latency[l] \in Nat
          /\ SyncInterval[l] \in Nat /\ SyncInterval[l] <= Latency[l]
      BY <2>1, ParamsAssumption, Zenon DEF FullInv, Parts, SimType, QType
    <2> QED
      BY <2>1, <2>3, <2>4
  <1> QED
    BY <1>1, SpecFull, PTL
=============================================================================
