---------------------------- MODULE FabricProofs ----------------------------
(***************************************************************************)
(* MemFabric for any number of hosts, memories and ring slots, any address *)
(* maps and programs: until the memswitch floods a request to several      *)
(* netmems, a completion finds its request, whatever is lost or put off on *)
(* the way and whichever static MAC entries the memswitch has.             *)
(***************************************************************************)
EXTENDS MemFabric, TLAPS

-----------------------------------------------------------------------------
(* The inductive invariant. *)

Kinds == {"read", "write"}
Comps == {"readcomp", "writecomp"}
Slots == 0 .. cfg.cap - 1

IsReq(m) == m \in [op : Kinds \cup {"posted"}, req : Nat, addr : {m.addr}, val : {m.val}]
IsComp(m) == m \in [op : Comps, req : Nat, val : {m.val}]
IsPkt(m) == m \in [src : Ports, dst : {m.dst}, op : Kinds \cup Comps, req : Nat,
                   addr : {m.addr}, val : {m.val}]

RingOK(r) == /\ r \in [slot : {r.slot}, inp : Slots, outp : Slots]
             /\ DOMAIN r.slot = Slots

\* A message in a ring of its kind.  What a completion or a packet is about is left to
\* TokenInv.
HostReq(h, m) == IsReq(m) /\ m.req \in 1 .. issued[h] /\ m.op = Op(h, m.req).kind
                          /\ m.addr = Op(h, m.req).addr
HostComp(h, m) == /\ m.req \in 1 .. issued[h] /\ Op(h, m.req).kind \in Kinds
                  /\ m.op = Completion(Op(h, m.req).kind)
UpPkt(x, m) == IsPkt(m) /\ m.src = x /\ IF x \in Memnics THEN m.dst = "bcast" /\ m.op \in Kinds
                                        ELSE m.dst \in DOMAIN table \cap Memnics /\ m.op \in Comps
DnPkt(x, m) == IsPkt(m) /\ (x \in Netmems => m.src \in DOMAIN table \cap Memnics /\ m.op \in Kinds)

MsgOK(l, m) ==
  /\ \A h \in Hosts : /\ l = Req(h) => HostReq(h, m)
                      /\ l = Comp(h) => IsComp(m) /\ HostComp(h, m)
  /\ \A d \in Devices : (l = Req(d) => IsReq(m)) /\ (l = Comp(d) => IsComp(m))
  /\ \A x \in Ports : (l = Up(x) => UpPkt(x, m)) /\ (l = Dn(x) => DnPkt(x, m))

\* A packet that leaves the memswitch on the port y will be acted on: as a request by
\* a netmem, as a completion by a memnic.
Counts(y, m) == y \in Netmems \/ m.op \in Comps

\* A static entry for a netmem may name any port; the entry of a memnic was learned.
TableOK(t) == DOMAIN t \subseteq Ports /\ \A y \in DOMAIN t : t[y] \in Ports /\ (y \in Memnics => t[y] = y)

SwitchInv ==
  /\ TableOK(table)
  /\ sw # Idle =>
       /\ sw \in [port : Ports, pkt : {sw.pkt}, todo : SUBSET Ports]
       /\ sw.todo # {} /\ Ready(ring[Up(sw.port)])
       /\ \A y \in sw.todo : DnPkt(y, sw.pkt)
       /\ \A y, z \in sw.todo : Counts(y, sw.pkt) /\ Counts(z, sw.pkt) => y = z

PendInv ==
  /\ DOMAIN pend \subseteq Nat \ {0}
  /\ \A i \in DOMAIN pend : /\ pend[i] \in [host : Hosts, req : Nat]
                            /\ pend[i].req \in 1 .. issued[pend[i].host]
                            /\ Op(pend[i].host, pend[i].req).kind \in Kinds

Answers ==
  /\ DOMAIN answers = Hosts /\ \A h \in Hosts : \E S : answers[h] \in Seq(S)
  /\ \A h \in Hosts : \A k \in DOMAIN answers[h] : HostComp(h, answers[h][k])

TypeInv ==
  /\ cfg \in Configs
  /\ DOMAIN ring = Links /\ \A l \in Links : RingOK(ring[l])
  /\ \A l \in Links : \A j \in Slots : ring[l].slot[j] # Free => MsgOK(l, ring[l].slot[j])
  /\ issued \in [Hosts -> Nat] /\ \A h \in Hosts : issued[h] <= Len(cfg.prog[h])
  /\ Answers

\* Where a message between the interconnect and the memories can be.
TheSwitch == <<<<"sw", "sw">>, 0>>
Spots == (Links \X Slots) \cup {TheSwitch}
Msg(a) == IF a = TheSwitch THEN sw.pkt ELSE ring[a[1]].slot[a[2]]
Id(a) == Msg(a).req

\* There is a message at a that a completion will come of.
Live(a) ==
  IF a = TheSwitch THEN sw # Idle /\ \E y \in sw.todo : Counts(y, sw.pkt)
  ELSE /\ Msg(a) # Free
       /\ \/ \E d \in Devices : a[1] = Req(d) /\ Msg(a).op # "posted"
          \/ \E d \in Devices : a[1] = Comp(d)
          \/ \E x \in Ports : a[1] = Up(x) /\ ~(sw # Idle /\ sw.port = x /\ a[2] = ring[a[1]].inp)
          \/ \E x \in Ports : a[1] = Dn(x) /\ Counts(x, Msg(a))

\* The Pending object is there, and its request or the completion of it is what is at a.
Kind(i) == Op(pend[i].host, pend[i].req).kind
Fits(i, o) == i \in DOMAIN pend /\ o \in {Kind(i), Completion(Kind(i))}

TokenInv ==
  /\ \A a \in Spots : Live(a) => Fits(Id(a), Msg(a).op)
  /\ \A a, b \in Spots : Live(a) /\ Live(b) /\ Id(a) = Id(b) => a = b

\* Where an operation of the host h can be: on its way to or from the interconnect,
\* in there, or complete.
HostSpots == ({"req", "pend", "comp", "ans"}) \X Nat
HostLive(h, s) ==
  \/ s[1] = "req" /\ s[2] \in Slots /\ ring[Req(h)].slot[s[2]] # Free
  \/ s[1] = "comp" /\ s[2] \in Slots /\ ring[Comp(h)].slot[s[2]] # Free
  \/ s[1] = "pend" /\ s[2] \in DOMAIN pend /\ pend[s[2]].host = h
  \/ s[1] = "ans" /\ s[2] \in DOMAIN answers[h]
HostId(h, s) == CASE s[1] = "req" -> ring[Req(h)].slot[s[2]].req
                  [] s[1] = "comp" -> ring[Comp(h)].slot[s[2]].req
                  [] s[1] = "pend" -> pend[s[2]].req
                  [] s[1] = "ans" -> answers[h][s[2]].req
HostInv(h) == \A s, t \in HostSpots :
                HostLive(h, s) /\ HostLive(h, t) /\ HostId(h, s) = HostId(h, t) => s = t

\* As long as no request has been flooded to several netmems.
FabricInv == TypeInv /\ SwitchInv /\ PendInv /\ TokenInv /\ \A h \in Hosts : HostInv(h)

-----------------------------------------------------------------------------
(* Rings. *)

\* The next slot.
LEMMA SuccType ==
  ASSUME cfg \in Configs, NEW i \in Slots
  PROVE  Succ(i) \in Slots
  <1>1. cfg.cap \in Nat /\ cfg.cap > 0
    BY FabricAssumption
  <1> QED
    BY <1>1 DEF Slots, Succ

\* What sending and polling do to a ring.
LEMMA SentRing ==
  ASSUME cfg \in Configs, NEW r, RingOK(r), NEW m
  PROVE  /\ RingOK(OutSend(r, m)) /\ OutSend(r, m).inp = r.inp
         /\ \A j \in Slots : OutSend(r, m).slot[j] = IF j = r.outp THEN m ELSE r.slot[j]
  <1>1. Succ(r.outp) \in Slots /\ r.outp \in Slots
    BY SuccType DEF RingOK
  <1> QED
    BY <1>1, Zenon DEF RingOK, OutSend, OutAlloc

\* The slot at the front is handed back, and the reader moves on.
LEMMA DoneRing ==
  ASSUME cfg \in Configs, NEW r, RingOK(r)
  PROVE  /\ RingOK(InDone(r)) /\ InDone(r).outp = r.outp
         /\ \A j \in Slots : InDone(r).slot[j] = IF j = r.inp THEN Free ELSE r.slot[j]
  <1>1. Succ(r.inp) \in Slots /\ r.inp \in Slots
    BY SuccType DEF RingOK
  <1> QED
    BY <1>1, Zenon DEF RingOK, InDone, InPoll

\* Polling or allocating without a message only moves a position.
LEMMA SkippedRing ==
  ASSUME cfg \in Configs, NEW r, RingOK(r)
  PROVE  /\ RingOK(InPoll(r)) /\ InPoll(r).slot = r.slot
         /\ RingOK(OutAlloc(r)) /\ OutAlloc(r).slot = r.slot /\ OutAlloc(r).inp = r.inp
  <1>1. Succ(r.inp) \in Slots /\ Succ(r.outp) \in Slots
    BY SuccType DEF RingOK
  <1> QED
    BY <1>1 DEF RingOK, InPoll, OutAlloc

\* Lookup finds devices.
LEMMA LookupDevice ==
  ASSUME NEW a, NEW e \in Lookup(a)
  PROVE  e.dev \in Devices
  <1> DEFINE R == [start : Nat, end : Nat, phys : Nat, dev : Devices]
  <1>1. Routes \in Seq(R)
    BY FabricAssumption, Zenon
  <1>2. \A t \in R : t.dev \in Devices
    OBVIOUS
  <1> HIDE DEF R
  <1>3. \A i \in DOMAIN Routes : Routes[i] \in R
    BY <1>1
  <1>4. \E i \in DOMAIN Routes : e = Routes[i]
    BY Zenon DEF Lookup, First
  <1> QED
    BY <1>2, <1>3, <1>4, Zenon

\* The address of a new Pending object is not in use.
LEMMA NewIdFresh ==
  ASSUME \E i \in 1 .. MaxPending : i \notin DOMAIN pend
  PROVE  NewId \in Nat \ {0} /\ NewId \notin DOMAIN pend
  <1>1. NewId \in 1 .. MaxPending /\ NewId \notin DOMAIN pend
    BY Zenon DEF NewId
  <1> QED
    BY <1>1, FabricAssumption

-----------------------------------------------------------------------------
(* Steps of the rings. *)

Rings == DOMAIN ring = Links /\ \A l \in Links : RingOK(ring[l])

\* Every slot keeps its message, but for the front of ring i, given back, and the next
\* slot of ring o, which gets m.
Passed(i, o, m) ==
  /\ ring'[i].slot[ring[i].inp] = Free /\ ring'[o].slot[ring[o].outp] = m
  /\ \A l \in Links : \A j \in Slots :
       ~(l = i /\ j = ring[i].inp) /\ ~(l = o /\ j = ring[o].outp) =>
       ring'[l].slot[j] = ring[l].slot[j]
  /\ \A l \in Links \ {i} : ring'[l].inp = ring[l].inp

\* PassOn is Passed, and the rings stay rings.
LEMMA PassedOn ==
  ASSUME cfg \in Configs, Rings, cfg' = cfg, NEW i \in Links, NEW o \in Links, i # o, NEW m,
         PassOn(i, o, m)
  PROVE  Rings' /\ Passed(i, o, m)
  <1> DEFINE ri == InDone(ring[i])
             ro == OutSend(ring[o], m)
  <1>1. RingOK(ring[i]) /\ RingOK(ring[o])
    BY DEF Rings
  <1>2. /\ RingOK(ri)
        /\ \A j \in Slots : ri.slot[j] = IF j = ring[i].inp THEN Free ELSE ring[i].slot[j]
    BY <1>1, DoneRing, Zenon
  <1>3. /\ RingOK(ro) /\ ro.inp = ring[o].inp
        /\ \A j \in Slots : ro.slot[j] = IF j = ring[o].outp THEN m ELSE ring[o].slot[j]
    BY <1>1, SentRing
  <1>4. ring' = [ring EXCEPT ![i] = ri, ![o] = ro]
    BY DEF PassOn
  <1> HIDE DEF ri, ro
  <1>5. /\ DOMAIN ring' = Links /\ ring'[i] = ri /\ ring'[o] = ro
        /\ \A l \in Links \ {i, o} : ring'[l] = ring[l]
    BY <1>4 DEF Rings
  <1>6. \A r : RingOK(r) => RingOK(r)'
    BY DEF RingOK, Slots
  <1>7. Rings'
    BY <1>2, <1>3, <1>5, <1>6, Zenon DEF Rings
  <1>8. Passed(i, o, m)
    <2>1. ASSUME NEW l \in Links, NEW j \in Slots
          PROVE  /\ l = i /\ j = ring[i].inp => ring'[l].slot[j] = Free
                 /\ l = o /\ j = ring[o].outp => ring'[l].slot[j] = m
                 /\ ~(l = i /\ j = ring[i].inp) /\ ~(l = o /\ j = ring[o].outp) =>
                    ring'[l].slot[j] = ring[l].slot[j]
      BY <1>2, <1>3, <1>5, Zenon
    <2>3. ring[i].inp \in Slots /\ ring[o].outp \in Slots
      BY <1>1 DEF RingOK
    <2>2. \A l \in Links \ {i} : ring'[l].inp = ring[l].inp
      BY <1>3, <1>5, Zenon
    <2> QED
      BY <2>1, <2>2, <2>3, Zenon DEF Passed
  <1> QED
    BY <1>7, <1>8, Zenon

\* The front of ring i is given back.
Taken(i) ==
  /\ ring'[i].slot[ring[i].inp] = Free
  /\ \A l \in Links : \A j \in Slots :
       ~(l = i /\ j = ring[i].inp) => ring'[l].slot[j] = ring[l].slot[j]
  /\ \A l \in Links \ {i} : ring'[l].inp = ring[l].inp

\* Consume is Taken, and the rings stay rings.
LEMMA Consumed ==
  ASSUME cfg \in Configs, Rings, cfg' = cfg, NEW i \in Links, Consume(i)
  PROVE  Rings' /\ Taken(i)
  <1> DEFINE ri == InDone(ring[i])
  <1>1. RingOK(ring[i])
    BY DEF Rings
  <1>2. /\ RingOK(ri)
        /\ \A j \in Slots : ri.slot[j] = IF j = ring[i].inp THEN Free ELSE ring[i].slot[j]
    BY <1>1, DoneRing, Zenon
  <1>3. ring' = [ring EXCEPT ![i] = ri]
    BY DEF Consume
  <1> HIDE DEF ri
  <1>4. /\ DOMAIN ring' = Links /\ ring'[i] = ri
        /\ \A l \in Links \ {i} : ring'[l] = ring[l]
    BY <1>3 DEF Rings
  <1>5. \A r : RingOK(r) => RingOK(r)'
    BY DEF RingOK, Slots
  <1>6. Rings'
    BY <1>2, <1>4, <1>5, Zenon DEF Rings
  <1>7. Taken(i)
    <2>1. ASSUME NEW l \in Links, NEW j \in Slots
          PROVE  /\ l = i /\ j = ring[i].inp => ring'[l].slot[j] = Free
                 /\ ~(l = i /\ j = ring[i].inp) => ring'[l].slot[j] = ring[l].slot[j]
      BY <1>2, <1>4, Zenon
    <2>3. ring[i].inp \in Slots
      BY <1>1 DEF RingOK
    <2>2. \A l \in Links \ {i} : ring'[l].inp = ring[l].inp
      BY <1>4, Zenon
    <2> QED
      BY <2>1, <2>2, <2>3, Zenon DEF Taken
  <1> QED
    BY <1>6, <1>7, Zenon

-----------------------------------------------------------------------------
(* Messages. *)

\* A message stays good while hosts issue more and the memswitch learns.
Grows == /\ cfg' = cfg /\ issued' \in [Hosts -> Nat] /\ \A h \in Hosts : issued[h] <= issued'[h]
         /\ DOMAIN table \subseteq DOMAIN table'

\* What is said of a completion stays true while hosts issue more.
LEMMA CompStays ==
  ASSUME issued \in [Hosts -> Nat], Grows, NEW h \in Hosts, NEW m, HostComp(h, m)
  PROVE  HostComp(h, m)'
  BY DEF HostComp, Grows, Op

\* What is said of a message stays true while hosts issue more and the memswitch learns.
LEMMA MsgStays ==
  ASSUME issued \in [Hosts -> Nat], Grows, NEW l, NEW m, MsgOK(l, m)
  PROVE  MsgOK(l, m)'
  <1>1. ASSUME NEW h \in Hosts, HostReq(h, m) PROVE HostReq(h, m)'
    BY <1>1 DEF HostReq, Grows, Op
  <1>2. ASSUME NEW h \in Hosts, HostComp(h, m) PROVE HostComp(h, m)'
    BY <1>2, CompStays, Zenon
  <1>3. ASSUME NEW x, UpPkt(x, m) PROVE UpPkt(x, m)'
    BY <1>3 DEF UpPkt, Grows
  <1>4. ASSUME NEW x, DnPkt(x, m) PROVE DnPkt(x, m)'
    BY <1>4 DEF DnPkt, Grows
  <1> QED
    BY <1>1, <1>2, <1>3, <1>4, Zenon DEF MsgOK

\* A step that puts no bad message anywhere.
LEMMA TypeStep ==
  ASSUME TypeInv, Grows, Rings', \A h \in Hosts : issued'[h] <= Len(cfg.prog[h]), Answers',
         \A l \in Links : \A j \in Slots :
           ring'[l].slot[j] \in {Free, ring[l].slot[j]} \/ MsgOK(l, ring[l].slot[j])'
  PROVE  TypeInv'
  <1>1. cfg' = cfg /\ Slots' = Slots /\ issued \in [Hosts -> Nat]
    BY DEF TypeInv, Grows, Slots
  <1>2. ASSUME NEW l \in Links, NEW j \in Slots, ring'[l].slot[j] # Free
        PROVE  MsgOK(l, ring[l].slot[j])'
    <2> PICK m : m = ring'[l].slot[j]
      OBVIOUS
    <2>1. CASE m = ring[l].slot[j]
      <3>1. MsgOK(l, m)
        BY <1>2, <2>1, Zenon DEF TypeInv
      <3>2. MsgOK(l, m)'
        BY <1>1, <3>1, MsgStays, Zenon
      <3> QED
        BY <3>2, Zenon
    <2> QED
      BY <1>2, <2>1, Zenon
  <1>3. /\ cfg' \in Configs /\ DOMAIN ring' = Links /\ \A l \in Links : RingOK(ring[l])'
        /\ issued' \in [Hosts -> Nat] /\ \A h \in Hosts : issued'[h] <= Len(cfg'.prog[h])
    BY <1>1, Zenon DEF TypeInv, Rings, Grows
  <1> QED
    BY <1>1, <1>2, <1>3, Zenon DEF TypeInv

\* A step that only frees slots or fills them with good messages keeps the types.
LEMMA TypeKeeps ==
  ASSUME TypeInv, Grows, Rings', \A h \in Hosts : issued'[h] <= Len(cfg.prog[h]),
         answers' = answers,
         \A l \in Links : \A j \in Slots :
           ring'[l].slot[j] \in {Free, ring[l].slot[j]} \/ MsgOK(l, ring[l].slot[j])'
  PROVE  TypeInv'
  <1>1. \A h \in Hosts : \A k \in DOMAIN answers[h] : HostComp(h, answers[h][k])'
    <2> SUFFICES ASSUME NEW h \in Hosts, NEW k \in DOMAIN answers[h]
                 PROVE  HostComp(h, answers[h][k])'
      OBVIOUS
    <2> PICK m : m = answers[h][k]
      OBVIOUS
    <2>1. HostComp(h, m) /\ issued \in [Hosts -> Nat]
      BY Zenon DEF TypeInv, Answers
    <2>2. HostComp(h, m)'
      BY <2>1, CompStays, Zenon
    <2> QED
      BY <2>2, Zenon
  <1>2. Answers'
    BY <1>1, Zenon DEF TypeInv, Answers
  <1> QED
    BY <1>2, TypeStep, Zenon

\* The Pending objects and the memswitch stay as they are.
LEMMA PendKeeps ==
  ASSUME PendInv, issued \in [Hosts -> Nat], Grows, pend' = pend
  PROVE  PendInv'
  <1> SUFFICES ASSUME NEW i \in DOMAIN pend
               PROVE  /\ pend[i] \in [host : Hosts, req : Nat]
                      /\ pend[i].req \in 1 .. issued'[pend[i].host]
                      /\ cfg.prog[pend[i].host][pend[i].req].kind \in Kinds
    BY Zenon DEF PendInv, Op, Grows
  <1>1. /\ pend[i] \in [host : Hosts, req : Nat]
        /\ pend[i].req \in 1 .. issued[pend[i].host]
        /\ cfg.prog[pend[i].host][pend[i].req].kind \in Kinds
    BY Zenon DEF PendInv, Op
  <1> QED
    BY <1>1 DEF Grows

\* A step of others leaves the memswitch's packet in front of its ring.
LEMMA SwitchKeeps ==
  ASSUME SwitchInv, sw' = sw, table' = table, cfg' = cfg,
         sw # Idle => Ready(ring[Up(sw.port)])'
  PROVE  SwitchInv'
  <1>1. \A y, m : DnPkt(y, m)' <=> DnPkt(y, m)
    BY Zenon DEF DnPkt
  <1>2. TableOK(table)'
    BY Zenon DEF SwitchInv, TableOK
  <1> QED
    BY <1>1, <1>2, Zenon DEF SwitchInv

\* The front of a ring stays where another ring is polled.
LEMMA FrontStays ==
  ASSUME Rings, NEW i, NEW o \in Links, NEW m, Passed(i, o, m), CanAlloc(ring[o]),
         NEW l \in Links, l # i, Ready(ring[l])
  PROVE  Ready(ring[l])' /\ ring'[l].inp = ring[l].inp
  <1>1. ring'[l].inp = ring[l].inp /\ ring[l].inp \in Slots
    BY DEF Passed, Rings, RingOK
  <1>2. ring'[l].slot[ring[l].inp] = ring[l].slot[ring[l].inp]
    BY <1>1, Zenon DEF Passed, Ready, CanAlloc
  <1> QED
    BY <1>1, <1>2, Zenon DEF Ready

-----------------------------------------------------------------------------
(* Tokens. *)

\* At most one message moves, from p to q, perhaps becoming a completion.
LEMMA MoveKeeps ==
  ASSUME TokenInv, cfg' = cfg, pend' = pend, NEW p \in Spots, NEW q \in Spots,
         \A a \in Spots : a # q /\ Live(a)' =>
           Live(a) /\ a # p /\ Id(a)' = Id(a) /\ Msg(a)'.op = Msg(a).op,
         Live(q)' => /\ Live(p) /\ Id(q)' = Id(p)
                     /\ \/ Msg(q)'.op = Msg(p).op
                        \/ Msg(p).op \in Kinds /\ Msg(q)'.op = Completion(Msg(p).op)
  PROVE  TokenInv'
  <1>1. Spots' = Spots /\ \A i, o : Fits(i, o)' <=> Fits(i, o)
    BY Zenon DEF Spots, Slots, Fits, Kind, Op
  <1>2. ASSUME NEW a \in Spots, Live(a)' PROVE Fits(Id(a), Msg(a).op)'
    <2>1. CASE a # q
      <3>1. Fits(Id(a), Msg(a).op)
        BY <1>2, <2>1, Zenon DEF TokenInv
      <3>2. Id(a)' = Id(a) /\ Msg(a)'.op = Msg(a).op
        BY <1>2, <2>1, Zenon
      <3> QED
        BY <3>1, <3>2, Zenon DEF Fits, Kind, Op
    <2>2. CASE a = q
      <3>1. Fits(Id(p), Msg(p).op) /\ Id(q)' = Id(p)
        BY <1>2, <2>2, Zenon DEF TokenInv
      <3>2. CASE Msg(q)'.op = Msg(p).op
        BY <2>2, <3>1, <3>2, Zenon DEF Fits, Kind, Op
      <3>3. CASE Msg(p).op \in Kinds /\ Msg(q)'.op = Completion(Msg(p).op)
        <4>1. \A k : Completion(k) \notin Kinds
          BY DEF Completion, Kinds
        <4>2. Msg(p).op = Kind(Id(p))
          BY <3>1, <3>3, <4>1, Zenon DEF Fits
        <4> QED
          BY <2>2, <3>1, <3>3, <4>2, Zenon DEF Fits, Kind, Op
      <3> QED
        BY <1>2, <2>2, <3>2, <3>3, Zenon
    <2> QED
      BY <2>1, <2>2, Zenon
  <1>3. ASSUME NEW a \in Spots, NEW b \in Spots, Live(a)', Live(b)', Id(a)' = Id(b)' PROVE a = b
    <2>1. \A x, y \in Spots : Live(x) /\ Live(y) /\ Id(x) = Id(y) => x = y
      BY Zenon DEF TokenInv
    <2> QED
      BY <1>3, <2>1, Zenon
  <1> QED
    BY <1>1, <1>2, <1>3, Zenon DEF TokenInv

\* A spot where nothing changes.
LEMMA SpotStays ==
  ASSUME NEW a \in Spots, a # TheSwitch, sw' = sw, Msg(a)' = Msg(a),
         \A x \in Ports : sw # Idle /\ sw.port = x => ring'[Up(x)].inp = ring[Up(x)].inp
  PROVE  (Live(a)' <=> Live(a)) /\ Id(a)' = Id(a) /\ Msg(a)'.op = Msg(a).op
  <1>1. \A y, m : Counts(y, m)' <=> Counts(y, m)
    BY Zenon DEF Counts
  <1>2. ASSUME NEW x \in Ports, a[1] = Up(x)
        PROVE  ~(sw # Idle /\ sw.port = x /\ a[2] = ring[a[1]].inp) <=>
               ~(sw' # Idle /\ sw'.port = x /\ a[2] = ring'[a[1]].inp)
    BY <1>2, Zenon
  <1> QED
    BY <1>1, <1>2, Zenon DEF Live, Id

\* A step that leaves the memswitch alone leaves its packet alive or not.
LEMMA SwitchStays ==
  ASSUME sw' = sw
  PROVE  (Live(TheSwitch)' <=> Live(TheSwitch)) /\ Msg(TheSwitch)' = Msg(TheSwitch)
  BY Zenon DEF Live, Msg, Counts

-----------------------------------------------------------------------------
(* Hosts. *)

\* Nothing changes for a host.
LEMMA HostKeeps ==
  ASSUME NEW h \in Hosts, HostInv(h), cfg' = cfg, pend' = pend, answers'[h] = answers[h],
         \A j \in Slots : /\ ring'[Req(h)].slot[j] = ring[Req(h)].slot[j]
                          /\ ring'[Comp(h)].slot[j] = ring[Comp(h)].slot[j]
  PROVE  HostInv(h)'
  <1> SUFFICES ASSUME NEW s \in HostSpots, HostLive(h, s)'
               PROVE  HostLive(h, s) /\ HostId(h, s)' = HostId(h, s)
    BY Zenon DEF HostInv
  <1>1. Slots' = Slots
    BY DEF Slots
  <1>2. HostLive(h, s)
    BY <1>1, Zenon DEF HostLive
  <1>3. s[1] \in {"req", "comp"} => s[2] \in Slots
    BY <1>2 DEF HostLive
  <1> QED
    BY <1>2, <1>3 DEF HostId, HostSpots

-----------------------------------------------------------------------------
(* Steps between the interconnect and the memories. *)

Inner(l) == l \in Links /\ \A h \in Hosts : l # Req(h) /\ l # Comp(h)
Others == UNCHANGED <<cfg, pend, table, sw, issued, answers>>

\* The rings between the interconnect and the memories are not the hosts'.
LEMMA LinkTypes ==
  /\ \A h \in Hosts : Req(h) \in Links /\ Comp(h) \in Links
  /\ \A d \in Devices : Inner(Req(d)) /\ Inner(Comp(d))
  /\ \A x \in Ports : Inner(Up(x)) /\ Inner(Dn(x))
  <1>1. \A h \in Hosts, d \in Devices : h # d
    BY FabricAssumption
  <1> QED
    BY <1>1 DEF Links, Inner, Req, Comp, Up, Dn

\* A step that only moves messages lets nothing shrink.
LEMMA OthersGrow ==
  ASSUME TypeInv, Others
  PROVE  /\ Grows /\ Slots' = Slots /\ Spots' = Spots /\ \A h \in Hosts : issued'[h] <= Len(cfg.prog[h])
         /\ \A l, m : MsgOK(l, m)' <=> MsgOK(l, m)
  <1>1. Grows
    BY DEF TypeInv, Others, Grows
  <1>2. Slots' = Slots /\ Spots' = Spots
    BY Zenon DEF Others, Slots, Spots
  <1>3. \A h \in Hosts : issued'[h] <= Len(cfg.prog[h])
    BY Zenon DEF Others, TypeInv
  <1>4. ASSUME NEW l, NEW m PROVE MsgOK(l, m)' <=> MsgOK(l, m)
    <2>1. \A h \in Hosts : HostReq(h, m)' <=> HostReq(h, m)
      BY Zenon DEF Others, HostReq, Op
    <2>2. \A h \in Hosts : HostComp(h, m)' <=> HostComp(h, m)
      BY Zenon DEF Others, HostComp, Op
    <2>3. \A x \in Ports : (UpPkt(x, m)' <=> UpPkt(x, m)) /\ (DnPkt(x, m)' <=> DnPkt(x, m))
      BY Zenon DEF Others, UpPkt, DnPkt
    <2> QED
      BY <2>1, <2>2, <2>3, Zenon DEF MsgOK
  <1> QED
    BY <1>1, <1>2, <1>3, <1>4, Zenon

\* What passing a message on from i to o does to the spots.
LEMMA PassSpots ==
  ASSUME FabricInv, cfg' = cfg, sw' = sw, NEW i \in Links, NEW o \in Links, \A x \in Ports : i # Up(x),
         NEW m, Passed(i, o, m), NEW a \in Spots, a # <<o, ring[o].outp>>, Live(a)'
  PROVE  Live(a) /\ a # <<i, ring[i].inp>> /\ Id(a)' = Id(a) /\ Msg(a)'.op = Msg(a).op
  <1>1. CASE a = TheSwitch
    <2>1. a # <<i, ring[i].inp>>
      BY <1>1 DEF TheSwitch, Links
    <2> QED
      BY <1>1, <2>1, SwitchStays, Zenon DEF Id
  <1>2. CASE a # TheSwitch
    <2>1. /\ a[1] \in Links /\ a[2] \in Slots /\ a = <<a[1], a[2]>>
          /\ Msg(a) = ring[a[1]].slot[a[2]] /\ Msg(a)' = ring'[a[1]].slot[a[2]]
      BY <1>2 DEF Spots, Msg
    <2>2. Msg(a)' # Free
      BY <1>2, Zenon DEF Live
    <2>3. ~(a[1] = i /\ a[2] = ring[i].inp)
      BY <2>1, <2>2, Zenon DEF Passed
    <2>4. ~(a[1] = o /\ a[2] = ring[o].outp)
      BY <2>1, Zenon
    <2>5. ring'[a[1]].slot[a[2]] = ring[a[1]].slot[a[2]]
      BY <2>1, <2>3, <2>4, Zenon DEF Passed
    <2>6. Msg(a)' = Msg(a)
      BY <2>1, <2>5, Zenon
    <2>7. \A x \in Ports : ring'[Up(x)].inp = ring[Up(x)].inp
      BY LinkTypes, Zenon DEF Inner, Passed
    <2>8. a # <<i, ring[i].inp>>
      BY <2>3
    <2> QED
      BY <1>2, <2>6, <2>7, <2>8, SpotStays, Zenon
  <1> QED
    BY <1>1, <1>2, Zenon

\* The packet the memswitch is forwarding stays at the front of its ring.
LEMMA PassSwitch ==
  ASSUME FabricInv, cfg' = cfg, sw' = sw, table' = table, NEW i \in Links, NEW o \in Links,
         \A x \in Ports : i # Up(x), NEW m, Passed(i, o, m), CanAlloc(ring[o])
  PROVE  SwitchInv'
  <1>1. ASSUME sw # Idle PROVE Ready(ring[Up(sw.port)])'
    <2>1. sw.port \in Ports /\ Ready(ring[Up(sw.port)]) /\ Rings
      BY <1>1 DEF FabricInv, SwitchInv, TypeInv, Rings
    <2>2. Up(sw.port) \in Links /\ i # Up(sw.port)
      BY <2>1, LinkTypes, Zenon DEF Inner
    <2> PICK l \in Links : l = Up(sw.port)
      BY <2>2, Zenon
    <2>3. Ready(ring[l])'
      BY <2>1, <2>2, FrontStays, Zenon
    <2> QED
      BY <2>3, Zenon DEF Up
  <1> QED
    BY <1>1, SwitchKeeps, Zenon DEF FabricInv

\* A message is passed on, perhaps as a completion.
LEMMA PassKeeps ==
  ASSUME FabricInv, Others, NEW i, NEW o, Inner(i), Inner(o), i # o, \A x \in Ports : i # Up(x),
         NEW m, Ready(ring[i]), CanAlloc(ring[o]), PassOn(i, o, m), MsgOK(o, m),
         Live(<<i, ring[i].inp>>), m.req = Front(ring[i]).req,
         \/ m.op = Front(ring[i]).op
         \/ Front(ring[i]).op \in Kinds /\ m.op = Completion(Front(ring[i]).op)
  PROVE  FabricInv'
  <1>1. /\ cfg \in Configs /\ Rings /\ TypeInv /\ i \in Links /\ o \in Links
        /\ cfg' = cfg /\ pend' = pend /\ sw' = sw /\ table' = table /\ answers' = answers
    BY Zenon DEF FabricInv, TypeInv, Rings, Others, Inner
  <1>2. Rings' /\ Passed(i, o, m)
    BY <1>1, PassedOn, Zenon
  <1>3. /\ Grows /\ Slots' = Slots /\ \A h \in Hosts : issued'[h] <= Len(cfg.prog[h])
        /\ \A l, n : MsgOK(l, n)' <=> MsgOK(l, n)
    BY <1>1, OthersGrow, Zenon
  <1>4. TypeInv'
    <2>1. ASSUME NEW l \in Links, NEW j \in Slots
          PROVE  ring'[l].slot[j] \in {Free, ring[l].slot[j]} \/ MsgOK(l, ring[l].slot[j])'
      <3>1. ring'[l].slot[j] \in {Free, ring[l].slot[j]} \/ (l = o /\ ring'[l].slot[j] = m)
        BY <1>2, Zenon DEF Passed
      <3>2. MsgOK(o, m)'
        BY <1>3, Zenon
      <3> QED
        BY <3>1, <3>2, Zenon
    <2> QED
      BY <1>1, <1>2, <1>3, <2>1, TypeKeeps, Zenon
  <1>6. SwitchInv'
    BY <1>1, <1>2, PassSwitch, Zenon
  <1>7. PendInv'
    BY <1>1, <1>3, PendKeeps, Zenon DEF FabricInv, TypeInv
  <1>8. ASSUME NEW h \in Hosts PROVE HostInv(h)'
    <2>1. \A j \in Slots : /\ ring'[Req(h)].slot[j] = ring[Req(h)].slot[j]
                           /\ ring'[Comp(h)].slot[j] = ring[Comp(h)].slot[j]
      BY <1>2, LinkTypes, Zenon DEF Passed, Inner
    <2> QED
      BY <1>1, <2>1, HostKeeps, Zenon DEF FabricInv
  <1>9. ring[i].inp \in Slots /\ ring[o].outp \in Slots
    BY <1>1 DEF Rings, RingOK
  <1>10. <<i, ring[i].inp>> \in Spots /\ <<o, ring[o].outp>> \in Spots
    BY <1>1, <1>9 DEF Spots
  <1> PICK p \in Spots : p = <<i, ring[i].inp>>
    BY <1>10, Zenon
  <1> PICK q \in Spots : q = <<o, ring[o].outp>>
    BY <1>10, Zenon
  <1>11. p # TheSwitch /\ q # TheSwitch
    BY <1>1 DEF TheSwitch, Links
  <1>12. p[1] = i /\ p[2] = ring[i].inp /\ q[1] = o /\ q[2] = ring[o].outp
    OBVIOUS
  <1>13. Msg(p) = ring[i].slot[ring[i].inp] /\ Msg(q)' = ring'[o].slot[ring[o].outp]
    BY <1>11, <1>12, Zenon DEF Msg
  <1>14. Msg(p) = Front(ring[i]) /\ Msg(q)' = m
    BY <1>2, <1>13, Zenon DEF Passed, Front
  <1>15. ASSUME NEW a \in Spots, a # q, Live(a)'
         PROVE  Live(a) /\ a # p /\ Id(a)' = Id(a) /\ Msg(a)'.op = Msg(a).op
    BY <1>1, <1>2, <1>15, PassSpots, Zenon
  <1>16. /\ Live(p) /\ Id(q)' = Id(p)
         /\ \/ Msg(q)'.op = Msg(p).op
            \/ Msg(p).op \in Kinds /\ Msg(q)'.op = Completion(Msg(p).op)
    BY <1>14, Zenon DEF Id
  <1>17. TokenInv'
    BY <1>1, <1>15, <1>16, MoveKeeps, Zenon DEF FabricInv
  <1> QED
    BY <1>4, <1>6, <1>7, <1>8, <1>17, Zenon DEF FabricInv

\* Messages get lost, but not between a host and the interconnect, nor to the memswitch.
Drops ==
  /\ \A l \in Links : \A j \in Slots : ring'[l].slot[j] \in {Free, ring[l].slot[j]}
  /\ \A h \in Hosts : \A j \in Slots : /\ ring'[Req(h)].slot[j] = ring[Req(h)].slot[j]
                                       /\ ring'[Comp(h)].slot[j] = ring[Comp(h)].slot[j]
  /\ \A x \in Ports : /\ \A j \in Slots : ring'[Up(x)].slot[j] = ring[Up(x)].slot[j]
                      /\ ring'[Up(x)].inp = ring[Up(x)].inp

\* A step that only loses messages keeps the invariant.
LEMMA DropKeeps ==
  ASSUME FabricInv, Others, Rings', Drops
  PROVE  FabricInv'
  <1>1. /\ cfg \in Configs /\ Rings /\ TypeInv
        /\ cfg' = cfg /\ pend' = pend /\ sw' = sw /\ table' = table /\ answers' = answers
    BY Zenon DEF FabricInv, TypeInv, Rings, Others
  <1>2. /\ Grows /\ Slots' = Slots /\ \A h \in Hosts : issued'[h] <= Len(cfg.prog[h])
    BY <1>1, OthersGrow, Zenon
  <1>3. TypeInv'
    BY <1>1, <1>2, TypeKeeps, Zenon DEF Drops
  <1>4. SwitchInv'
    <2>1. ASSUME sw # Idle PROVE Ready(ring[Up(sw.port)])'
      <3>1. sw.port \in Ports /\ Ready(ring[Up(sw.port)])
        BY <2>1 DEF FabricInv, SwitchInv
      <3> PICK x \in Ports : x = sw.port
        BY <3>1, Zenon
      <3>2. Up(x) \in Links
        BY LinkTypes, Zenon DEF Inner
      <3>3. ring[Up(x)].inp \in Slots
        BY <1>1, <3>2 DEF Rings, RingOK
      <3>5. ring'[Up(x)].inp = ring[Up(x)].inp
        BY Zenon DEF Drops
      <3>6. ring'[Up(x)].slot[ring[Up(x)].inp] = ring[Up(x)].slot[ring[Up(x)].inp]
        BY <3>3, Zenon DEF Drops
      <3>4. Ready(ring[Up(x)])'
        BY <3>1, <3>5, <3>6, Zenon DEF Ready
      <3> QED
        BY <1>1, <3>4, Zenon
    <2> QED
      BY <1>1, <2>1, SwitchKeeps, Zenon DEF FabricInv
  <1>5. PendInv'
    BY <1>1, <1>2, PendKeeps, Zenon DEF FabricInv, TypeInv
  <1>6. ASSUME NEW h \in Hosts PROVE HostInv(h)'
    BY <1>1, HostKeeps, Zenon DEF FabricInv, Drops
  <1>7. TheSwitch \in Spots
    BY DEF Spots
  <1>8. ASSUME NEW a \in Spots, a # TheSwitch, Live(a)'
        PROVE  Live(a) /\ Id(a)' = Id(a) /\ Msg(a)'.op = Msg(a).op
    <2>1. /\ a[1] \in Links /\ a[2] \in Slots
          /\ Msg(a) = ring[a[1]].slot[a[2]] /\ Msg(a)' = ring'[a[1]].slot[a[2]]
      BY <1>8 DEF Spots, Msg
    <2>2. Msg(a)' # Free
      BY <1>8, Zenon DEF Live
    <2>3. Msg(a)' = Msg(a)
      BY <2>1, <2>2, Zenon DEF Drops
    <2>4. \A x \in Ports : ring'[Up(x)].inp = ring[Up(x)].inp
      BY Zenon DEF Drops
    <2> QED
      BY <1>1, <1>8, <2>3, <2>4, SpotStays, Zenon
  <1>9. Live(TheSwitch)' => Live(TheSwitch) /\ Id(TheSwitch)' = Id(TheSwitch)
                            /\ Msg(TheSwitch)'.op = Msg(TheSwitch).op
    BY <1>1, SwitchStays, Zenon DEF Id
  <1>10. TokenInv'
    BY <1>1, <1>7, <1>8, <1>9, MoveKeeps, Zenon DEF FabricInv
  <1> QED
    BY <1>3, <1>4, <1>5, <1>6, <1>10, Zenon DEF FabricInv

\* The front of a ring is dropped.
LEMMA ConsumeKeeps ==
  ASSUME FabricInv, Others, NEW i, Inner(i), \A x \in Ports : i # Up(x), Consume(i)
  PROVE  FabricInv'
  <1>1. cfg \in Configs /\ Rings /\ cfg' = cfg /\ i \in Links
    BY Zenon DEF FabricInv, TypeInv, Rings, Others, Inner
  <1>2. Rings' /\ Taken(i)
    BY <1>1, Consumed, Zenon
  <1>3. /\ \A h \in Hosts : Req(h) \in Links \ {i} /\ Comp(h) \in Links \ {i}
        /\ \A x \in Ports : Up(x) \in Links \ {i}
    BY LinkTypes, Zenon DEF Inner
  <1>4. \A l \in Links \ {i} : \A j \in Slots : ring'[l].slot[j] = ring[l].slot[j]
    BY <1>2, Zenon DEF Taken
  <1>5. \A j \in Slots : ring'[i].slot[j] \in {Free, ring[i].slot[j]}
    BY <1>1, <1>2, Zenon DEF Taken
  <1>6. \A l \in Links \ {i} : ring'[l].inp = ring[l].inp
    BY <1>2, Zenon DEF Taken
  <1>7. Drops
    BY <1>3, <1>4, <1>5, <1>6, Zenon DEF Drops
  <1> QED
    BY <1>2, <1>7, DropKeeps, Zenon

\* A message at the front of a ring is in a spot, and good.
LEMMA FrontGood ==
  ASSUME FabricInv, NEW l \in Links, Ready(ring[l])
  PROVE  /\ <<l, ring[l].inp>> \in Spots /\ <<l, ring[l].inp>> # TheSwitch
         /\ Msg(<<l, ring[l].inp>>) = Front(ring[l]) /\ MsgOK(l, Front(ring[l]))
         /\ Front(ring[l]) # Free
  <1>1. ring[l].inp \in Slots
    BY DEF FabricInv, TypeInv, RingOK
  <1>2. MsgOK(l, Front(ring[l])) /\ Front(ring[l]) # Free
    BY <1>1, Zenon DEF FabricInv, TypeInv, Ready, Front
  <1>3. <<l, ring[l].inp>> \in Spots /\ <<l, ring[l].inp>> # TheSwitch
    BY <1>1 DEF Spots, TheSwitch, Links
  <1> QED
    BY <1>2, <1>3 DEF Msg, Front

\* A message that is good for its link, by kind of link.
LEMMA GoodMsg ==
  ASSUME NEW m
  PROVE  /\ \A h \in Hosts : /\ HostReq(h, m) <=> MsgOK(Req(h), m)
                             /\ IsComp(m) /\ HostComp(h, m) <=> MsgOK(Comp(h), m)
         /\ \A d \in Devices : (IsReq(m) <=> MsgOK(Req(d), m)) /\ (IsComp(m) <=> MsgOK(Comp(d), m))
         /\ \A x \in Ports : (UpPkt(x, m) <=> MsgOK(Up(x), m)) /\ (DnPkt(x, m) <=> MsgOK(Dn(x), m))
  <1>1. \A h \in Hosts, d \in Devices : h # d
    BY FabricAssumption
  <1>2. /\ \A x, y : Req(x) # Comp(y) /\ Req(x) # Up(y) /\ Req(x) # Dn(y)
        /\ \A x, y : Comp(x) # Up(y) /\ Comp(x) # Dn(y) /\ Up(x) # Dn(y)
        /\ \A x, y : Req(x) = Req(y) => x = y
        /\ \A x, y : Comp(x) = Comp(y) => x = y
        /\ \A x, y : Up(x) = Up(y) => x = y
        /\ \A x, y : Dn(x) = Dn(y) => x = y
    BY DEF Req, Comp, Up, Dn
  <1>3. ASSUME NEW h \in Hosts PROVE (HostReq(h, m) <=> MsgOK(Req(h), m))
    BY <1>1, <1>2, Zenon DEF MsgOK
  <1>4. ASSUME NEW h \in Hosts PROVE IsComp(m) /\ HostComp(h, m) <=> MsgOK(Comp(h), m)
    BY <1>1, <1>2, Zenon DEF MsgOK
  <1>5. ASSUME NEW d \in Devices PROVE (IsReq(m) <=> MsgOK(Req(d), m))
    BY <1>1, <1>2, Zenon DEF MsgOK
  <1>6. ASSUME NEW d \in Devices PROVE IsComp(m) <=> MsgOK(Comp(d), m)
    BY <1>1, <1>2, Zenon DEF MsgOK
  <1>7. ASSUME NEW x \in Ports PROVE UpPkt(x, m) <=> MsgOK(Up(x), m)
    BY <1>1, <1>2, Zenon DEF MsgOK
  <1>8. ASSUME NEW x \in Ports PROVE DnPkt(x, m) <=> MsgOK(Dn(x), m)
    BY <1>1, <1>2, Zenon DEF MsgOK
  <1> QED
    BY <1>3, <1>4, <1>5, <1>6, <1>7, <1>8, Zenon

\* An answer is a completion.
LEMMA ReplyGood ==
  ASSUME NEW m, NEW s, m.op \in Kinds, m.req \in Nat
  PROVE  IsComp(Reply(m, s)) /\ Reply(m, s).req = m.req /\ Reply(m, s).op = Completion(m.op)
  BY DEF IsComp, Reply, Completion, Kinds, Comps

\* basicmem: every request but a posted write gives one completion.
LEMMA BasicKeeps ==
  ASSUME FabricInv, NEW b \in BasicMems, BasicPoll(b)
  PROVE  FabricInv'
  <1>1. b \in Devices
    BY DEF Devices
  <1>2. /\ Inner(Req(b)) /\ Inner(Comp(b)) /\ Req(b) # Comp(b) /\ \A x \in Ports : Req(b) # Up(x)
        /\ Req(b) \in Links
    BY <1>1, LinkTypes DEF Req, Comp, Up, Inner
  <1>3. Ready(ring[Req(b)]) /\ Others
    BY Zenon DEF BasicPoll, Others
  <1> DEFINE m == Front(ring[Req(b)])
             a == <<Req(b), ring[Req(b)].inp>>
  <1>4. a \in Spots /\ a # TheSwitch /\ Msg(a) = m /\ MsgOK(Req(b), m) /\ m # Free
    BY <1>2, <1>3, FrontGood, Zenon
  <1>5. CASE m.op = "posted"
    <2>1. Consume(Req(b))
      BY <1>5, Zenon DEF BasicPoll
    <2> QED
      BY <1>2, <1>3, <2>1, ConsumeKeeps, Zenon
  <1>6. CASE m.op # "posted"
    <2>1. /\ CanAlloc(ring[Comp(b)]) /\ PassOn(Req(b), Comp(b), Reply(m, store[b]))
      BY <1>6, Zenon DEF BasicPoll
    <2>2. IsReq(m)
      BY <1>1, <1>4, GoodMsg, Zenon
    <2>3. m.op \in Kinds /\ m.req \in Nat
      BY <1>6, <2>2 DEF IsReq
    <2>4. a[1] = Req(b)
      OBVIOUS
    <2> HIDE DEF m, a
    <2>5. /\ IsComp(Reply(m, store[b])) /\ Reply(m, store[b]).req = m.req
          /\ Reply(m, store[b]).op = Completion(m.op)
      BY <2>3, ReplyGood, Zenon
    <2>6. MsgOK(Comp(b), Reply(m, store[b]))
      BY <1>1, <2>5, GoodMsg, Zenon
    <2>7. Live(a)
      BY <1>1, <1>4, <1>6, <2>4, Zenon DEF Live
    <2> QED
      BY <1>2, <1>3, <2>1, <2>3, <2>5, <2>6, <2>7, PassKeeps, Zenon DEF m, a
  <1> QED
    BY <1>5, <1>6, Zenon

\* memnic: a request becomes a broadcast packet, and a posted write is dropped.
LEMMA H2MKeeps ==
  ASSUME FabricInv, NEW x \in Memnics, MemnicPollH2M(x)
  PROVE  FabricInv'
  <1>1. x \in Devices /\ x \in Ports
    BY DEF Devices, Ports
  <1>2. /\ Inner(Req(x)) /\ Inner(Up(x)) /\ Req(x) # Up(x) /\ \A y \in Ports : Req(x) # Up(y)
        /\ Req(x) \in Links
    BY <1>1, LinkTypes DEF Req, Up, Inner
  <1>3. Ready(ring[Req(x)]) /\ Others
    BY Zenon DEF MemnicPollH2M, Others
  <1> DEFINE m == Front(ring[Req(x)])
             a == <<Req(x), ring[Req(x)].inp>>
             k == [src |-> x, dst |-> "bcast", op |-> m.op, req |-> m.req,
                   addr |-> m.addr, val |-> m.val]
  <1>4. a \in Spots /\ a # TheSwitch /\ Msg(a) = m /\ MsgOK(Req(x), m) /\ m # Free
    BY <1>2, <1>3, FrontGood, Zenon
  <1>5. CASE Consume(Req(x))
    BY <1>2, <1>3, <1>5, ConsumeKeeps, Zenon
  <1>6. CASE m.op # "posted" /\ CanAlloc(ring[Up(x)]) /\ PassOn(Req(x), Up(x), k)
    <2>2. IsReq(m)
      BY <1>1, <1>4, GoodMsg, Zenon
    <2>3. m.op \in Kinds /\ m.req \in Nat
      BY <1>6, <2>2 DEF IsReq
    <2>4. a[1] = Req(x)
      OBVIOUS
    <2> HIDE DEF m, a
    <2>5. UpPkt(x, k) /\ k.req = m.req /\ k.op = m.op
      BY <1>1, <2>3 DEF UpPkt, IsPkt
    <2> HIDE DEF k
    <2>6. MsgOK(Up(x), k)
      BY <1>1, <2>5, GoodMsg, Zenon
    <2>7. Live(a)
      BY <1>1, <1>4, <1>6, <2>4, Zenon DEF Live
    <2> QED
      BY <1>2, <1>3, <1>6, <2>5, <2>6, <2>7, PassKeeps, Zenon DEF m, a
  <1> QED
    BY <1>5, <1>6, Zenon DEF MemnicPollH2M, ForwardToETH

\* memnic: a packet with a completion becomes one, and any other is dropped.
LEMMA N2MKeeps ==
  ASSUME FabricInv, NEW x \in Memnics, MemnicPollN2M(x)
  PROVE  FabricInv'
  <1>1. x \in Devices /\ x \in Ports
    BY DEF Devices, Ports
  <1>2. /\ Inner(Dn(x)) /\ Inner(Comp(x)) /\ Dn(x) # Comp(x) /\ \A y \in Ports : Dn(x) # Up(y)
        /\ Dn(x) \in Links /\ Comp(x) \in Links /\ \A y \in Ports : Comp(x) # Up(y)
    BY <1>1, LinkTypes, Zenon DEF Comp, Dn, Up, Inner
  <1>3. Ready(ring[Dn(x)]) /\ Others
    BY Zenon DEF MemnicPollN2M, Others
  <1> DEFINE m == Front(ring[Dn(x)])
             a == <<Dn(x), ring[Dn(x)].inp>>
             k == [op |-> m.op, req |-> m.req, val |-> m.val]
  <1>4. a \in Spots /\ a # TheSwitch /\ Msg(a) = m /\ MsgOK(Dn(x), m) /\ m # Free
    BY <1>2, <1>3, FrontGood, Zenon
  <1>5. CASE Consume(Dn(x))
    BY <1>2, <1>3, <1>5, ConsumeKeeps, Zenon
  <1>6. CASE m.op \in Comps /\ CanAlloc(ring[Comp(x)]) /\ PassOn(Dn(x), Comp(x), k)
    <2>2. IsPkt(m)
      BY <1>1, <1>4, GoodMsg, Zenon DEF DnPkt
    <2>3. m.req \in Nat
      BY <2>2 DEF IsPkt
    <2>4. a[1] = Dn(x)
      OBVIOUS
    <2> HIDE DEF m, a
    <2>5. IsComp(k) /\ k.req = m.req /\ k.op = m.op
      BY <1>6, <2>3 DEF IsComp
    <2> HIDE DEF k
    <2>6. MsgOK(Comp(x), k)
      BY <1>1, <2>5, GoodMsg, Zenon
    <2>7. Live(a)
      BY <1>1, <1>4, <1>6, <2>4, Zenon DEF Live, Counts
    <2> QED
      BY <1>2, <1>3, <1>6, <2>5, <2>6, <2>7, PassKeeps, Zenon DEF m, a
  <1>7. CASE ring' = [ring EXCEPT ![Dn(x)] = InDone(@), ![Comp(x)] = OutAlloc(@)]
    <2>1. /\ cfg \in Configs /\ Rings /\ cfg' = cfg
      BY <1>3, Zenon DEF FabricInv, TypeInv, Rings, Others
    <2> DEFINE ri == InDone(ring[Dn(x)])
               ro == OutAlloc(ring[Comp(x)])
    <2>2. RingOK(ring[Dn(x)]) /\ RingOK(ring[Comp(x)])
      BY <1>2, <2>1, Zenon DEF Rings
    <2>3. RingOK(ri) /\ \A j \in Slots : ri.slot[j] \in {Free, ring[Dn(x)].slot[j]}
      BY <2>1, <2>2, DoneRing, Zenon
    <2>4. RingOK(ro) /\ ro.slot = ring[Comp(x)].slot
      BY <2>1, <2>2, SkippedRing, Zenon
    <2>5. ring' = [ring EXCEPT ![Dn(x)] = ri, ![Comp(x)] = ro]
      BY <1>2, <1>7
    <2> HIDE DEF ri, ro
    <2>6. /\ DOMAIN ring' = Links /\ ring'[Dn(x)] = ri /\ ring'[Comp(x)] = ro
          /\ \A l \in Links \ {Dn(x), Comp(x)} : ring'[l] = ring[l]
      BY <1>2, <2>1, <2>5 DEF Rings
    <2>7. \A r : RingOK(r) => RingOK(r)'
      BY <2>1 DEF RingOK, Slots
    <2>8. Rings'
      BY <2>1, <2>3, <2>4, <2>6, <2>7, Zenon DEF Rings
    <2>9. \A l \in Links : \A j \in Slots : ring'[l].slot[j] \in {Free, ring[l].slot[j]}
      BY <2>3, <2>4, <2>6, Zenon
    <2>10. /\ \A h \in Hosts : Req(h) \in Links \ {Dn(x), Comp(x)} /\ Comp(h) \in Links \ {Dn(x), Comp(x)}
           /\ \A y \in Ports : Up(y) \in Links \ {Dn(x), Comp(x)}
      BY <1>2, LinkTypes, Zenon DEF Inner
    <2>11. Drops
      BY <2>6, <2>9, <2>10, Zenon DEF Drops
    <2> QED
      BY <1>3, <2>8, <2>11, DropKeeps, Zenon
  <1> QED
    BY <1>5, <1>6, <1>7, Zenon DEF MemnicPollN2M, ForwardToMEM, Comps

\* netmem: a packet with a request becomes a packet with its completion.
LEMMA NetmemKeeps ==
  ASSUME FabricInv, NEW x \in Netmems, NetmemPollN2M(x)
  PROVE  FabricInv'
  <1>1. x \in Ports /\ x \notin Memnics
    BY FabricAssumption DEF Ports
  <1>2. /\ Inner(Dn(x)) /\ Inner(Up(x)) /\ Dn(x) # Up(x) /\ \A y \in Ports : Dn(x) # Up(y)
        /\ Dn(x) \in Links
    BY <1>1, LinkTypes DEF Dn, Up, Inner
  <1>3. Ready(ring[Dn(x)]) /\ Others
    BY Zenon DEF NetmemPollN2M, Others
  <1> DEFINE m == Front(ring[Dn(x)])
             a == <<Dn(x), ring[Dn(x)].inp>>
             r == Reply(m, store[x])
             k == [src |-> x, dst |-> m.src, op |-> r.op, req |-> r.req,
                   addr |-> m.addr, val |-> r.val]
  <1>4. a \in Spots /\ a # TheSwitch /\ Msg(a) = m /\ MsgOK(Dn(x), m) /\ m # Free
    BY <1>2, <1>3, FrontGood, Zenon
  <1>5. CASE CanAlloc(ring[Up(x)]) /\ PassOn(Dn(x), Up(x), k)
    <2>2. IsPkt(m) /\ m.src \in DOMAIN table \cap Memnics /\ m.op \in Kinds
      BY <1>1, <1>4, GoodMsg, Zenon DEF DnPkt
    <2>3. m.req \in Nat
      BY <2>2 DEF IsPkt
    <2>4. a[1] = Dn(x)
      OBVIOUS
    <2> HIDE DEF m, a
    <2>5. IsComp(r) /\ r.req = m.req /\ r.op = Completion(m.op)
      BY <2>2, <2>3, ReplyGood, Zenon
    <2>6. r.op \in Comps
      BY <2>5 DEF IsComp
    <2> HIDE DEF r
    <2>7. UpPkt(x, k) /\ k.req = m.req /\ k.op = Completion(m.op)
      BY <1>1, <2>2, <2>3, <2>5, <2>6 DEF UpPkt, IsPkt
    <2> HIDE DEF k
    <2>8. MsgOK(Up(x), k)
      BY <1>1, <2>7, GoodMsg, Zenon
    <2>9. Live(a)
      BY <1>1, <1>4, <2>4, Zenon DEF Live, Counts
    <2> QED
      BY <1>2, <1>3, <1>5, <2>2, <2>7, <2>8, <2>9, PassKeeps, Zenon DEF m, a
  <1>6. CASE ring' = [ring EXCEPT ![Dn(x)] = InPoll(@)]
    <2>1. /\ cfg \in Configs /\ Rings /\ cfg' = cfg
      BY <1>3, Zenon DEF FabricInv, TypeInv, Rings, Others
    <2> DEFINE ri == InPoll(ring[Dn(x)])
    <2>2. RingOK(ring[Dn(x)])
      BY <1>2, <2>1, Zenon DEF Rings
    <2>3. RingOK(ri) /\ ri.slot = ring[Dn(x)].slot
      BY <2>1, <2>2, SkippedRing, Zenon
    <2>5. ring' = [ring EXCEPT ![Dn(x)] = ri]
      BY <1>6
    <2> HIDE DEF ri
    <2>6. /\ DOMAIN ring' = Links /\ ring'[Dn(x)] = ri
          /\ \A l \in Links \ {Dn(x)} : ring'[l] = ring[l]
      BY <1>2, <2>1, <2>5 DEF Rings
    <2>7. \A q : RingOK(q) => RingOK(q)'
      BY <2>1 DEF RingOK, Slots
    <2>8. Rings'
      BY <2>1, <2>3, <2>6, <2>7, Zenon DEF Rings
    <2>9. \A l \in Links : \A j \in Slots : ring'[l].slot[j] \in {Free, ring[l].slot[j]}
      BY <2>3, <2>6, Zenon
    <2>10. /\ \A h \in Hosts : Req(h) \in Links \ {Dn(x)} /\ Comp(h) \in Links \ {Dn(x)}
           /\ \A y \in Ports : Up(y) \in Links \ {Dn(x)}
      BY <1>2, LinkTypes, Zenon DEF Inner
    <2>11. Drops
      BY <2>6, <2>9, <2>10, Zenon DEF Drops
    <2> QED
      BY <1>3, <2>8, <2>11, DropKeeps, Zenon
  <1> QED
    BY <1>5, <1>6, Zenon DEF NetmemPollN2M, HandleRequest

-----------------------------------------------------------------------------
(* The memswitch. *)

\* The packet k leaves on the ports D; once it has left on all of them the front of the
\* ring it came in by is given back.
Sent(u, D, k, done) ==
  /\ \A l \in Links : \A j \in Slots :
       ~(l = Up(u) /\ j = ring[l].inp) /\ (\A y \in D : ~(l = Dn(y) /\ j = ring[l].outp)) =>
       ring'[l].slot[j] = ring[l].slot[j]
  /\ done => ring'[Up(u)].slot[ring[Up(u)].inp] = Free
  /\ ~done => ring'[Up(u)] = ring[Up(u)]
  /\ \A y \in D : ring'[Dn(y)].slot[ring[Dn(y)].outp] = k

\* The packet is live at p before, if it counts on any port it is to leave on.
Carries(p, u, D, k, done) ==
  /\ p = TheSwitch \/ p = <<Up(u), ring[Up(u)].inp>>
  /\ sw = Idle \/ sw.port = u
  /\ IF done THEN sw' = Idle ELSE sw'.port = u /\ sw'.pkt = k /\ sw' # Idle
  /\ \A y \in D, z \in sw'.todo : ~(Counts(y, k) /\ Counts(z, k))
  /\ \A y, z \in D : Counts(y, k) /\ Counts(z, k) => y = z
  /\ (\E y \in D \cup sw'.todo : Counts(y, k)) => Live(p) /\ Id(p) = k.req /\ Msg(p).op = k.op

\* A spot other than the memswitch is live only if it was.
LEMMA SpotWas ==
  ASSUME NEW a \in Spots, a # TheSwitch, Msg(a)' = Msg(a), Live(a)',
         \A x \in Ports : a[1] = Up(x) => ~(sw # Idle /\ sw.port = x /\ a[2] = ring[a[1]].inp)
  PROVE  Live(a) /\ Id(a)' = Id(a) /\ Msg(a)'.op = Msg(a).op
  <1>1. \A y, m : Counts(y, m)' <=> Counts(y, m)
    BY Zenon DEF Counts
  <1> QED
    BY <1>1, Zenon DEF Live, Id

\* Links have one name.
LEMMA Apart ==
  /\ \A x, y : Req(x) # Comp(y) /\ Req(x) # Up(y) /\ Req(x) # Dn(y)
  /\ \A x, y : Comp(x) # Up(y) /\ Comp(x) # Dn(y) /\ Up(x) # Dn(y)
  /\ \A x, y : Req(x) = Req(y) => x = y
  /\ \A x, y : Comp(x) = Comp(y) => x = y
  /\ \A x, y : Up(x) = Up(y) => x = y
  /\ \A x, y : Dn(x) = Dn(y) => x = y
  BY DEF Req, Comp, Up, Dn

\* The memswitch passes a packet on to several ports, at most one of which acts on it.
LEMMA ForwardToken ==
  ASSUME FabricInv, UNCHANGED <<cfg, pend, issued, answers>>,
         NEW u \in Ports, NEW D \in SUBSET Ports, NEW k, NEW done \in BOOLEAN,
         NEW p \in Spots, Sent(u, D, k, done), Carries(p, u, D, k, done)
  PROVE  TokenInv'
  <1>1. \A x \in Ports : Up(x) \in Links /\ Dn(x) \in Links
    BY LinkTypes, Zenon DEF Inner
  <1>2. \A l \in Links : ring[l].inp \in Slots /\ ring[l].outp \in Slots
    BY DEF FabricInv, TypeInv, RingOK
  <1>3. \A a \in Spots : a # TheSwitch => /\ a[1] \in Links /\ a[2] \in Slots /\ a = <<a[1], a[2]>>
                                          /\ Msg(a) = ring[a[1]].slot[a[2]]
                                          /\ Msg(a)' = ring'[a[1]].slot[a[2]]
    BY DEF Spots, Msg
  <1>4. \A l \in Links, j \in Slots : <<l, j>> \in Spots /\ <<l, j>> # TheSwitch
    BY DEF Spots, TheSwitch, Links
  <1>5. \A y, m : Counts(y, m)' <=> Counts(y, m)
    BY Zenon DEF Counts
  <1>6. TheSwitch \in Spots
    BY DEF Spots
  <1> PICK f \in Spots : f = <<Up(u), ring[Up(u)].inp>>
    BY <1>1, <1>2, <1>4, Zenon
  <1>7. f # TheSwitch /\ f[1] = Up(u) /\ f[2] = ring[Up(u)].inp
    BY <1>1, <1>2, <1>4
  <1>8. ~Live(f)'
    <2>1. CASE done
      <3>1. Msg(f)' = Free
        BY <1>3, <1>7, <2>1, Zenon DEF Sent
      <3> QED
        BY <1>7, <3>1, Zenon DEF Live
    <2>2. CASE ~done
      <3>1. f[2] = ring'[f[1]].inp /\ sw' # Idle /\ sw'.port = u
        BY <1>7, <2>2, Zenon DEF Sent, Carries
      <3>2. /\ \A d \in Devices : f[1] # Req(d) /\ f[1] # Comp(d)
            /\ \A x \in Ports : f[1] # Dn(x) /\ (f[1] = Up(x) => x = u)
        BY <1>7, Apart, Zenon
      <3> QED
        BY <1>7, <3>1, <3>2, Zenon DEF Live
    <2> QED
      BY <2>1, <2>2
  <1>9. ASSUME NEW a \in Spots, a # TheSwitch, Live(a)', \A y \in D : ~(a[1] = Dn(y) /\ a[2] = ring[a[1]].outp)
        PROVE  Live(a) /\ a # p /\ Id(a)' = Id(a) /\ Msg(a)'.op = Msg(a).op
    <2>1. a # f
      BY <1>8, <1>9, Zenon
    <2>2. ~(a[1] = Up(u) /\ a[2] = ring[a[1]].inp)
      BY <1>3, <1>9, <2>1, Zenon
    <2>3. a[1] \in Links /\ a[2] \in Slots /\ Msg(a) = ring[a[1]].slot[a[2]] /\ Msg(a)' = ring'[a[1]].slot[a[2]]
      BY <1>3, <1>9, Zenon
    <2>4. ring'[a[1]].slot[a[2]] = ring[a[1]].slot[a[2]]
      BY <1>9, <2>2, <2>3, Zenon DEF Sent
    <2>5. Msg(a)' = Msg(a)
      BY <2>3, <2>4, Zenon
    <2>6. \A x \in Ports : a[1] = Up(x) => ~(sw # Idle /\ sw.port = x /\ a[2] = ring[a[1]].inp)
      BY <2>2, Zenon DEF Carries
    <2>7. a # p
      BY <1>9, <2>1, Zenon DEF Carries
    <2> QED
      BY <1>9, <2>5, <2>6, <2>7, SpotWas, Zenon
  <1>10. ASSUME NEW y \in D, NEW a \in Spots, a = <<Dn(y), ring[Dn(y)].outp>>
         PROVE  a # TheSwitch /\ a[1] = Dn(y) /\ Msg(a)' = k /\ (Live(a)' => Counts(y, k))
    <2>1. a # TheSwitch /\ a[1] = Dn(y) /\ a[2] = ring[Dn(y)].outp /\ Dn(y) \in Links
      BY <1>1, <1>2, <1>4, <1>10
    <2>5. Msg(a)' = ring'[a[1]].slot[a[2]]
      BY <1>3, <2>1, Zenon
    <2>2. Msg(a)' = k
      BY <2>1, <2>5, Zenon DEF Sent
    <2>3. /\ \A d \in Devices : a[1] # Req(d) /\ a[1] # Comp(d)
          /\ \A x \in Ports : a[1] # Up(x) /\ (a[1] = Dn(x) => x = y)
      BY <2>1, Apart, Zenon
    <2>4. Live(a)' => Counts(y, k)
      BY <1>5, <2>1, <2>2, <2>3, Zenon DEF Live
    <2> QED
      BY <2>1, <2>2, <2>4, Zenon
  <1>11. ASSUME Live(TheSwitch)'
         PROVE  \E z \in sw'.todo : Counts(z, k) /\ Msg(TheSwitch)' = k
    <2>1. sw' # Idle /\ \E z \in sw'.todo : Counts(z, sw'.pkt)
      BY <1>5, <1>11, Zenon DEF Live
    <2>2. sw'.pkt = k
      BY <2>1, Zenon DEF Carries
    <2>3. Msg(TheSwitch)' = sw'.pkt
      BY Zenon DEF Msg
    <2> QED
      BY <2>1, <2>2, <2>3, Zenon
  <1>12. CASE \E y \in D : Counts(y, k)
    <2> PICK y \in D : Counts(y, k)
      BY <1>12, Zenon
    <2>1. <<Dn(y), ring[Dn(y)].outp>> \in Spots
      BY <1>1, <1>2, <1>4, Zenon
    <2> PICK q \in Spots : q = <<Dn(y), ring[Dn(y)].outp>>
      BY <2>1, Zenon
    <2>2. Live(p) /\ Id(p) = k.req /\ Msg(p).op = k.op /\ q # TheSwitch /\ Msg(q)' = k
      BY <1>10, Zenon DEF Carries
    <2>3. ASSUME NEW a \in Spots, a # q, Live(a)'
          PROVE  Live(a) /\ a # p /\ Id(a)' = Id(a) /\ Msg(a)'.op = Msg(a).op
      <3>1. CASE a = TheSwitch
        BY <1>11, <2>3, <3>1, Zenon DEF Carries
      <3>2. CASE a # TheSwitch
        <4>1. ASSUME NEW z \in D, a[1] = Dn(z), a[2] = ring[a[1]].outp PROVE FALSE
          <5>1. a = <<Dn(z), ring[Dn(z)].outp>>
            BY <1>3, <3>2, <4>1, ZenonT(30)
          <5>2. Counts(z, k)
            BY <1>10, <2>3, <5>1, Zenon
          <5>3. z = y
            BY <5>2, Zenon DEF Carries
          <5> QED
            BY <2>3, <5>1, <5>3, Zenon
        <4> QED
          BY <1>9, <2>3, <3>2, <4>1, Zenon
      <3> QED
        BY <3>1, <3>2, Zenon
    <2>4. Id(q)' = Id(p) /\ Msg(q)'.op = Msg(p).op
      BY <2>2, Zenon DEF Id
    <2> QED
      BY <2>2, <2>3, <2>4, MoveKeeps, Zenon DEF FabricInv
  <1>13. CASE ~ \E y \in D : Counts(y, k)
    <2>1. ASSUME NEW a \in Spots, a # TheSwitch, Live(a)'
          PROVE  Live(a) /\ a # p /\ Id(a)' = Id(a) /\ Msg(a)'.op = Msg(a).op
      <3>1. ASSUME NEW z \in D, a[1] = Dn(z), a[2] = ring[a[1]].outp PROVE FALSE
        <4>1. a = <<Dn(z), ring[Dn(z)].outp>>
          BY <1>3, <2>1, <3>1, Zenon
        <4> QED
          BY <1>10, <1>13, <2>1, <4>1, Zenon
      <3> QED
        BY <1>9, <2>1, <3>1, Zenon
    <2>2. ASSUME Live(TheSwitch)'
          PROVE  Live(p) /\ Id(TheSwitch)' = Id(p) /\ Msg(TheSwitch)'.op = Msg(p).op
      <3>1. PICK z \in sw'.todo : Counts(z, k) /\ Msg(TheSwitch)' = k
        BY <1>11, <2>2, Zenon
      <3>2. Live(p) /\ Id(p) = k.req /\ Msg(p).op = k.op
        BY <3>1, Zenon DEF Carries
      <3> QED
        BY <3>1, <3>2, Zenon DEF Id
    <2> QED
      BY <1>6, <2>1, <2>2, MoveKeeps, Zenon DEF FabricInv
  <1> QED
    BY <1>12, <1>13, Zenon

\* Passing a packet on keeps the invariant.
LEMMA ForwardKeeps ==
  ASSUME FabricInv, UNCHANGED <<cfg, pend, issued, answers>>, Rings', SwitchInv',
         DOMAIN table \subseteq DOMAIN table',
         NEW u \in Ports, NEW D \in SUBSET Ports, NEW k, NEW done \in BOOLEAN,
         NEW p \in Spots, Sent(u, D, k, done), Carries(p, u, D, k, done),
         \A y \in D : DnPkt(y, k)'
  PROVE  FabricInv'
  <1>1. Grows /\ Slots' = Slots /\ \A h \in Hosts : issued'[h] <= Len(cfg.prog[h])
    BY DEF FabricInv, TypeInv, Grows, Slots
  <1>2. TypeInv'
    <2>1. ASSUME NEW y \in D PROVE MsgOK(Dn(y), k)'
      BY <1>1, Apart, Zenon DEF MsgOK
    <2>2. ASSUME NEW l \in Links, NEW j \in Slots
          PROVE  ring'[l].slot[j] \in {Free, ring[l].slot[j]} \/ MsgOK(l, ring[l].slot[j])'
      <3>1. CASE l = Up(u) /\ j = ring[l].inp
        BY <3>1, Zenon DEF Sent
      <3>2. CASE \E y \in D : l = Dn(y) /\ j = ring[l].outp
        <4> PICK y \in D : l = Dn(y) /\ j = ring[l].outp
          BY <3>2, Zenon
        <4>1. ring'[l].slot[j] = k
          BY Zenon DEF Sent
        <4> QED
          BY <2>1, <4>1, Zenon
      <3>3. CASE ~(l = Up(u) /\ j = ring[l].inp) /\ ~ \E y \in D : l = Dn(y) /\ j = ring[l].outp
        BY <3>3, Zenon DEF Sent
      <3> QED
        BY <3>1, <3>2, <3>3, Zenon
    <2> QED
      BY <1>1, <2>2, TypeKeeps, Zenon DEF FabricInv
  <1>3. PendInv'
    BY <1>1, PendKeeps, Zenon DEF FabricInv, TypeInv
  <1>4. ASSUME NEW h \in Hosts PROVE HostInv(h)'
    <2>1. \A j \in Slots : /\ ring'[Req(h)].slot[j] = ring[Req(h)].slot[j]
                           /\ ring'[Comp(h)].slot[j] = ring[Comp(h)].slot[j]
      <3>1. \A l \in {Req(h), Comp(h)} : l \in Links /\ l # Up(u) /\ \A y \in D : l # Dn(y)
        BY LinkTypes, Apart, Zenon
      <3>2. \A l \in {Req(h), Comp(h)} : \A j \in Slots : ring'[l].slot[j] = ring[l].slot[j]
        BY <3>1, Zenon DEF Sent
      <3> QED
        BY <3>2, Zenon
    <2> QED
      BY <2>1, HostKeeps, Zenon DEF FabricInv
  <1>5. TokenInv'
    BY ForwardToken, Zenon
  <1> QED
    BY <1>2, <1>3, <1>4, <1>5, Zenon DEF FabricInv

\* A packet is translated to a netmem, and stays the same otherwise.
LEMMA TranslateGood ==
  ASSUME NEW m, IsPkt(m), NEW t \in Translate(m)
  PROVE  \E i \in DOMAIN MapTable :
           /\ MapTable[i].node \in Netmems /\ t.dst = MapTable[i].node
           /\ IsPkt(t) /\ t.src = m.src /\ t.op = m.op /\ t.req = m.req
  <1> DEFINE R == [start : Nat, end : Nat, phys : Nat, node : Netmems]
  <1>1. MapTable \in Seq(R)
    BY FabricAssumption, Zenon
  <1>2. \A e \in R : e.node \in Netmems
    OBVIOUS
  <1> HIDE DEF R
  <1>3. \A i \in DOMAIN MapTable : MapTable[i] \in R
    BY <1>1
  <1>8. PICK e \in Mapped(m) : \E a : t = [m EXCEPT !.dst = e.node, !.addr = a]
    BY Zenon DEF Translate
  <1>9. PICK i \in DOMAIN MapTable : e = MapTable[i]
    BY Zenon DEF Mapped, First
  <1>4. \E a : t = [m EXCEPT !.dst = MapTable[i].node, !.addr = a]
    BY <1>8, <1>9, Zenon
  <1>5. PICK a : t = [m EXCEPT !.dst = MapTable[i].node, !.addr = a]
    BY <1>4, Zenon
  <1>6. t.dst = MapTable[i].node /\ IsPkt(t) /\ t.src = m.src /\ t.op = m.op /\ t.req = m.req
    BY <1>5, Zenon DEF IsPkt
  <1>7. MapTable[i].node \in Netmems
    BY <1>2, <1>3, Zenon
  <1> QED
    BY <1>6, <1>7, Zenon

\* The memswitch learns where m came from.
Learns(x, m, known) ==
  known = [y \in DOMAIN table \cup {m.src} |-> IF y = m.src THEN x ELSE table[y]]

\* Where m is sent, and as what.
Leaves(m, known, e) ==
  /\ e.out \subseteq Ports /\ e.pkt.req = m.req /\ e.pkt.op = m.op
  /\ \A y \in e.out : DnPkt(y, e.pkt)'
  /\ \A y, z \in e.out : Counts(y, e.pkt) /\ Counts(z, e.pkt) => y = z
  /\ DOMAIN table \subseteq DOMAIN known /\ TableOK(known)

\* What the memswitch makes of a packet that it does not send to several netmems: at
\* most one of the ports it goes to acts on it.
LEMMA EgressGood ==
  ASSUME FabricInv, NEW x \in Ports, NEW m, UpPkt(x, m), NEW known, cfg' = cfg, table' = known,
         Learns(x, m, known), NEW e \in Egress(x, m, known),
         \A y, z \in e.out \cap Netmems : y = z
  PROVE  Leaves(m, known, e)
  <1>1. m.src = x /\ IsPkt(m)
    BY Zenon DEF UpPkt
  <1>2. /\ cfg \in Configs /\ DOMAIN table \subseteq Ports
        /\ \A y \in DOMAIN table : table[y] \in Ports /\ (y \in Memnics => table[y] = y)
    BY Zenon DEF FabricInv, TypeInv, SwitchInv, TableOK
  <1>3. /\ DOMAIN known = DOMAIN table \cup {x}
        /\ \A y \in DOMAIN known : known[y] \in Ports /\ (y \in Memnics => known[y] = y)
    BY <1>1, <1>2 DEF Learns
  <1>10. DOMAIN table \subseteq DOMAIN known /\ TableOK(known)
    BY <1>2, <1>3 DEF TableOK
  <1>4. "bcast" \notin Ports /\ cfg.ports \subseteq Ports /\ Memnics \cap Netmems = {}
    BY <1>2, FabricAssumption, Zenon
  <1> DEFINE To(dst) == IF dst \in DOMAIN known THEN {known[dst]} \ {x} ELSE cfg.ports \ {x}
  <1>5. /\ m.dst \in DOMAIN known => e = [out |-> To(m.dst), pkt |-> m]
        /\ m.dst \notin DOMAIN known => \/ e = [out |-> {}, pkt |-> m]
                                        \/ \E t \in Translate(m) : e = [out |-> To(t.dst), pkt |-> t]
    BY Zenon DEF Egress
  <1>6. ASSUME x \in Memnics, NEW t \in Translate(m), e = [out |-> To(t.dst), pkt |-> t]
        PROVE  Leaves(m, known, e)
    <2>1. m.dst = "bcast" /\ m.op \in Kinds
      BY <1>6, Zenon DEF UpPkt
    <2>2. m.dst \notin DOMAIN known
      BY <1>2, <1>3, <1>4, <2>1
    <2>3. PICK i \in DOMAIN MapTable :
            /\ MapTable[i].node \in Netmems /\ t.dst = MapTable[i].node
            /\ IsPkt(t) /\ t.src = m.src /\ t.op = m.op /\ t.req = m.req
      BY <1>1, <1>6, TranslateGood, Zenon
    <2>4. e.out = To(t.dst) /\ e.pkt = t
      <3> HIDE DEF To
      <3> QED
        BY <1>6
    <2>5. e.out \subseteq Ports
      BY <1>2, <1>3, <1>4, <2>4
    <2>6. ASSUME NEW y PROVE DnPkt(y, t)'
      <3>1. t.src \in DOMAIN table' \cap Memnics /\ t.op \in Kinds /\ IsPkt(t)
        BY <1>1, <1>3, <1>6, <2>1, <2>3
      <3> QED
        BY <3>1, Zenon DEF DnPkt, IsPkt
    <2>7. ASSUME NEW y \in e.out, NEW z \in e.out, Counts(y, t), Counts(z, t) PROVE y = z
      <3>1. y \in Netmems /\ z \in Netmems
        BY <2>1, <2>3, <2>7 DEF Counts, Kinds, Comps
      <3> QED
        BY <2>7, <3>1
    <2> QED
      BY <1>10, <2>3, <2>4, <2>5, <2>6, <2>7, Zenon DEF Leaves
  <1>7. CASE e = [out |-> {}, pkt |-> m]
    <2>3. e.out = {} /\ e.pkt = m
      BY <1>7
    <2> QED
      BY <1>10, <2>3, Zenon DEF Leaves
  <1>8. CASE x \notin Memnics
    <2>1. m.dst \in DOMAIN table \cap Memnics
      BY <1>8, Zenon DEF UpPkt
    <2>2. m.dst \in DOMAIN known /\ m.dst \notin Netmems /\ m.dst \in Ports
      BY <1>2, <1>3, <1>4, <2>1
    <2>3. e.out = To(m.dst) /\ e.pkt = m
      <3> HIDE DEF To
      <3> QED
        BY <1>5, <2>2
    <2>4. e.out \subseteq {m.dst}
      BY <1>3, <2>1, <2>2, <2>3
    <2>5. DnPkt(m.dst, m)'
      <3> PICK w : w = m.dst
        OBVIOUS
      <3>1. DnPkt(w, m)'
        BY <1>1, <2>2, Zenon DEF DnPkt, IsPkt
      <3> QED
        BY <3>1, Zenon
    <2>6. \A y \in e.out : y = m.dst
      BY <2>4
    <2>7. ASSUME NEW y \in e.out PROVE DnPkt(y, e.pkt)'
      BY <2>3, <2>5, <2>6, <2>7, Zenon
    <2>8. e.out \subseteq Ports /\ e.pkt.req = m.req /\ e.pkt.op = m.op
      BY <2>2, <2>3, <2>6, Zenon
    <2> QED
      BY <1>10, <2>6, <2>7, <2>8, Zenon DEF Leaves
  <1>9. x \in Memnics => m.dst \notin DOMAIN known
    BY <1>2, <1>3, <1>4 DEF UpPkt
  <1> HIDE DEF To
  <1> QED
    BY <1>5, <1>6, <1>7, <1>8, <1>9, Zenon

\* A packet m that came in by the port x leaves on the ports D, or waits.
Switched(x, m, known, e, D, wait) ==
  /\ m = Front(ring[Up(x)])
  /\ Learns(x, m, known)
  /\ e \in Egress(x, m, known)
  /\ \A y \in D : y \in e.out
  /\ wait => D = {} /\ e.out # {}
  /\ table' = known
  /\ sw' = IF wait THEN [port |-> x, pkt |-> e.pkt, todo |-> e.out] ELSE Idle
  /\ \A y, z \in e.out \cap Netmems : y = z

\* What becomes of the rings.
RingsSwitched(x, k, D, wait) ==
  /\ DOMAIN ring' = Links
  /\ (wait => ring'[Up(x)] = ring[Up(x)]) /\ (~wait => ring'[Up(x)] = InDone(ring[Up(x)]))
  /\ \A y \in D : Dn(y) \in Links => ring'[Dn(y)] = OutSend(ring[Dn(y)], k)
  /\ \A l \in Links : l # Up(x) /\ (\A y \in D : l # Dn(y)) => ring'[l] = ring[l]

\* memswitch: a packet is learned from and sent, or waits for the full ports.
LEMMA SwitchPktKeeps ==
  ASSUME FabricInv, NEW x \in Ports, SwitchPkt(x), ~forked'
  PROVE  FabricInv'
  <1>26. PICK m, known, e, D, wait : /\ wait \in BOOLEAN /\ Switched(x, m, known, e, D, wait)
                                       /\ RingsSwitched(x, e.pkt, D, wait)
    <2> DEFINE m == Front(ring[Up(x)])
               known == [y \in DOMAIN table \cup {m.src} |-> IF y = m.src THEN x ELSE table[y]]
    <2> PICK e \in Egress(x, m, known) : Forward(x, known, e)
      BY Zenon DEF SwitchPkt
    <2> DEFINE full == {y \in e.out : ~CanAlloc(ring[Dn(y)])}
    <2> PICK wait \in BOOLEAN : wait <=> cfg.sync /\ full # {}
      BY Zenon
    <2> PICK D : D = IF wait THEN {} ELSE e.out \ full
      BY Zenon
    <2>1. table' = known
      BY Zenon DEF Forward
    <2>2. sw' = IF wait THEN [port |-> x, pkt |-> e.pkt, todo |-> e.out] ELSE Idle
      BY DEF Forward
    <2>3. ring' = IF wait THEN ring
                  ELSE [l \in Links |-> CASE l = Up(x) -> InDone(ring[l])
                                          [] l \in {Dn(y) : y \in e.out \ full} -> OutSend(ring[l], e.pkt)
                                          [] OTHER -> ring[l]]
      BY DEF Forward
    <2>4. m = Front(ring[Up(x)])
      BY Zenon
    <2>5. Learns(x, m, known)
      BY Zenon DEF Learns
    <2>6. e \in Egress(x, m, known)
      OBVIOUS
    <2>7. (\A y \in D : y \in e.out) /\ (wait => D = {} /\ e.out # {})
      OBVIOUS
    <2>8. \A y, z \in e.out \cap Netmems : y = z
      BY DEF Forward
    <2>9. DOMAIN ring = Links /\ Up(x) \in Links /\ \A y : Up(x) # Dn(y)
      BY LinkTypes, Apart, Zenon DEF FabricInv, TypeInv, Inner
    <2> HIDE DEF m, known
    <2>10. RingsSwitched(x, e.pkt, D, wait)
      <3>1. CASE wait
        <4>1. ring' = ring /\ D = {}
          BY <2>3, <3>1
        <4> QED
          BY <2>9, <3>1, <4>1 DEF RingsSwitched
      <3>2. CASE ~wait
        <4>1. D = e.out \ full
          BY <3>2
        <4> HIDE DEF full
        <4>2. ring' = [l \in Links |-> CASE l = Up(x) -> InDone(ring[l])
                                       [] l \in {Dn(y) : y \in D} -> OutSend(ring[l], e.pkt)
                                       [] OTHER -> ring[l]]
          BY <2>3, <3>2, <4>1
        <4>3. \A l \in Links : l # Up(x) /\ (\A y \in D : l # Dn(y)) => ring'[l] = ring[l]
          BY <4>2
        <4>4. \A y \in D : Dn(y) \in Links => ring'[Dn(y)] = OutSend(ring[Dn(y)], e.pkt)
          BY <2>9, <4>2
        <4>5. DOMAIN ring' = Links /\ ring'[Up(x)] = InDone(ring[Up(x)])
          BY <2>9, <4>2
        <4> QED
          BY <3>2, <4>3, <4>4, <4>5, Zenon DEF RingsSwitched
      <3> QED
        BY <3>1, <3>2, Zenon
    <2> HIDE DEF full
    <2> QED
      <3>1. Switched(x, m, known, e, D, wait)
        BY <2>1, <2>2, <2>4, <2>5, <2>6, <2>7, <2>8, Zenon DEF Switched
      <3> QED
        BY <2>10, <3>1, Zenon
  <1>1. sw = Idle /\ Ready(ring[Up(x)]) /\ table' = known
    BY <1>26, Zenon DEF SwitchPkt, Switched
  <1>24. sw' = IF wait THEN [port |-> x, pkt |-> e.pkt, todo |-> e.out] ELSE Idle
    BY <1>26, Zenon DEF Switched
  <1>25. cfg' = cfg /\ pend' = pend /\ issued' = issued /\ answers' = answers
    BY Zenon DEF SwitchPkt
  <1>2. Up(x) \in Links /\ \A y \in Ports : Dn(y) \in Links
    BY LinkTypes, Zenon DEF Inner
  <1>3. /\ <<Up(x), ring[Up(x)].inp>> \in Spots /\ <<Up(x), ring[Up(x)].inp>> # TheSwitch
        /\ Msg(<<Up(x), ring[Up(x)].inp>>) = m /\ MsgOK(Up(x), m) /\ m # Free
    BY <1>1, <1>2, <1>26, FrontGood, Zenon DEF Switched
  <1>4. UpPkt(x, m)
    BY <1>3, GoodMsg, Zenon
  <1>5. /\ e.out \subseteq Ports /\ e.pkt.req = m.req /\ e.pkt.op = m.op
        /\ \A y \in e.out : DnPkt(y, e.pkt)'
        /\ \A y, z \in e.out : Counts(y, e.pkt) /\ Counts(z, e.pkt) => y = z
        /\ DOMAIN table \subseteq DOMAIN known /\ TableOK(known)
    <2>1. Learns(x, m, known) /\ e \in Egress(x, m, known) /\ \A y, z \in e.out \cap Netmems : y = z
      BY <1>26, Zenon DEF Switched
    <2>2. Leaves(m, known, e)
      BY <1>1, <1>4, <1>25, <2>1, EgressGood, Zenon
    <2> QED
      BY <2>2, Zenon DEF Leaves
  <1>6. cfg \in Configs /\ Rings
    BY Zenon DEF FabricInv, TypeInv, Rings
  <1>7. D \in SUBSET Ports /\ (\A y \in D : y \in e.out) /\ (wait => D = {} /\ e.out # {})
    BY <1>5, <1>26 DEF Switched
  <1>8. \A l \in Links : RingOK(ring[l])
    BY <1>6, Zenon DEF Rings
  <1>27. \A l \in Links : /\ RingOK(InDone(ring[l])) /\ RingOK(OutSend(ring[l], e.pkt))
                          /\ ring[l].inp \in Slots /\ ring[l].outp \in Slots
    BY <1>6, <1>8, DoneRing, SentRing DEF RingOK
  <1>28. ASSUME NEW l \in Links, NEW j \in Slots
         PROVE  /\ j = ring[l].inp => InDone(ring[l]).slot[j] = Free
                /\ j # ring[l].inp => InDone(ring[l]).slot[j] = ring[l].slot[j]
    BY <1>6, <1>8, DoneRing, Zenon
  <1>29. ASSUME NEW l \in Links, NEW j \in Slots
         PROVE  /\ j = ring[l].outp => OutSend(ring[l], e.pkt).slot[j] = e.pkt
                /\ j # ring[l].outp => OutSend(ring[l], e.pkt).slot[j] = ring[l].slot[j]
    BY <1>6, <1>8, SentRing
  <1>9. \A y : Up(x) # Dn(y)
    BY Apart, Zenon
  <1>10. DOMAIN ring' = Links
    BY <1>26, Zenon DEF RingsSwitched
  <1>11. ~wait => ring'[Up(x)] = InDone(ring[Up(x)])
    BY <1>26, Zenon DEF RingsSwitched
  <1>12. wait => ring'[Up(x)] = ring[Up(x)]
    BY <1>26, Zenon DEF RingsSwitched
  <1>13. ASSUME NEW y \in D PROVE ring'[Dn(y)] = OutSend(ring[Dn(y)], e.pkt) /\ Dn(y) \in Links
    <2>1. Dn(y) \in Links
      BY <1>2, <1>7
    <2> QED
      BY <1>26, <2>1, Zenon DEF RingsSwitched
  <1>14. ASSUME NEW l \in Links, l # Up(x), \A y \in D : l # Dn(y) PROVE ring'[l] = ring[l]
    BY <1>14, <1>26, Zenon DEF RingsSwitched
  <1>15. \A r : RingOK(r) => RingOK(r)'
    BY <1>25 DEF RingOK, Slots
  <1>16. ASSUME NEW l \in Links PROVE RingOK(ring'[l])
    <2>1. CASE l = Up(x)
      BY <1>2, <1>8, <1>11, <1>12, <1>27, <2>1, Zenon
    <2>2. CASE \E y \in D : l = Dn(y)
      BY <1>13, <1>27, <2>2, Zenon
    <2> QED
      BY <1>8, <1>14, <2>1, <2>2, Zenon
  <1>17. Rings'
    BY <1>10, <1>15, <1>16, Zenon DEF Rings
  <1>18. Sent(x, D, e.pkt, ~wait)
    <2>1. ASSUME NEW l \in Links, NEW j \in Slots, ~(l = Up(x) /\ j = ring[l].inp),
                 \A y \in D : ~(l = Dn(y) /\ j = ring[l].outp)
          PROVE  ring'[l].slot[j] = ring[l].slot[j]
      <3>1. CASE l = Up(x) /\ ~wait
        BY <1>11, <1>28, <2>1, <3>1, Zenon
      <3>2. CASE l = Up(x) /\ wait
        BY <1>12, <3>2, Zenon
      <3>3. CASE \E y \in D : l = Dn(y)
        <4> PICK y \in D : l = Dn(y)
          BY <3>3, Zenon
        <4>1. j # ring[l].outp
          BY <2>1, Zenon
        <4>2. OutSend(ring[l], e.pkt).slot[j] = ring[l].slot[j]
          BY <1>29, <4>1, Zenon
        <4> QED
          BY <1>13, <4>2, Zenon
      <3> QED
        BY <1>14, <3>1, <3>2, <3>3, Zenon
    <2>2. ~wait => ring'[Up(x)].slot[ring[Up(x)].inp] = Free
      <3>1. InDone(ring[Up(x)]).slot[ring[Up(x)].inp] = Free
        BY <1>2, <1>27, <1>28, Zenon
      <3> QED
        BY <1>11, <3>1, Zenon
    <2>3. ASSUME NEW y \in D PROVE ring'[Dn(y)].slot[ring[Dn(y)].outp] = e.pkt
      <3>1. Dn(y) \in Links /\ ring[Dn(y)].outp \in Slots
        BY <1>13, <1>27, Zenon
      <3>2. OutSend(ring[Dn(y)], e.pkt).slot[ring[Dn(y)].outp] = e.pkt
        BY <1>29, <3>1, Zenon
      <3> QED
        BY <1>13, <3>2, Zenon
    <2> QED
      BY <1>12, <2>1, <2>2, <2>3, Zenon DEF Sent
  <1> PICK p \in Spots : p = <<Up(x), ring[Up(x)].inp>>
    BY <1>3, Zenon
  <1>19. Live(p) /\ Id(p) = e.pkt.req /\ Msg(p).op = e.pkt.op
    <2>1. p[1] = Up(x)
      OBVIOUS
    <2>2. Msg(p) = m /\ p # TheSwitch /\ Msg(p) # Free
      BY <1>3, Zenon
    <2> QED
      BY <1>1, <1>5, <2>1, <2>2, Zenon DEF Live, Id
  <1>20. (wait => sw' # Idle /\ sw'.port = x /\ sw'.pkt = e.pkt /\ sw'.todo = e.out)
         /\ (~wait => sw' = Idle /\ sw'.todo = {})
    <2>1. CASE wait
      <3>1. sw' = [port |-> x, pkt |-> e.pkt, todo |-> e.out]
        BY <1>24, <2>1, Zenon
      <3>2. e.out # {}
        BY <1>7, <2>1, Zenon
      <3> QED
        BY <2>1, <3>1, <3>2 DEF Idle
    <2>2. CASE ~wait
      <3>1. sw' = Idle
        BY <1>24, <2>2, Zenon
      <3> QED
        BY <2>2, <3>1 DEF Idle
    <2> QED
      BY <2>1, <2>2, Zenon
  <1>21. Carries(p, x, D, e.pkt, ~wait)
    <2>1. \A y \in D, z \in sw'.todo : ~(Counts(y, e.pkt) /\ Counts(z, e.pkt))
      <3>1. D = {} \/ sw'.todo = {}
        BY <1>7, <1>20, Zenon
      <3> QED
        BY <3>1
    <2>2. \A y, z \in D : Counts(y, e.pkt) /\ Counts(z, e.pkt) => y = z
      BY <1>5, <1>7, Zenon
    <2> QED
      BY <1>1, <1>19, <1>20, <2>1, <2>2, Zenon DEF Carries
  <1>22. SwitchInv'
    <2>1. TableOK(table)'
      BY <1>1, <1>5, Zenon DEF TableOK
    <2>2. ASSUME wait
          PROVE  /\ sw' \in [port : Ports, pkt : {sw'.pkt}, todo : SUBSET Ports]
                 /\ sw'.todo # {} /\ Ready(ring[Up(sw.port)])'
                 /\ \A y \in sw'.todo : DnPkt(y, sw.pkt)'
                 /\ \A y, z \in sw'.todo : Counts(y, sw.pkt)' /\ Counts(z, sw.pkt)' => y = z
      <3>1. sw' = [port |-> x, pkt |-> e.pkt, todo |-> e.out] /\ e.out # {} /\ e.out \subseteq Ports
        BY <1>5, <1>7, <1>24, <2>2
      <3>2. sw' \in [port : Ports, pkt : {sw'.pkt}, todo : SUBSET Ports]
        BY <3>1
      <3>3. Ready(ring[Up(x)])'
        BY <1>1, <1>12, <2>2, Zenon DEF Ready
      <3>4. Ready(ring[Up(sw.port)])'
        BY <1>20, <2>2, <3>3, Zenon DEF Up
      <3>5. \A y \in e.out : DnPkt(y, sw.pkt)'
        BY <1>5, <1>20, <2>2, Zenon DEF DnPkt
      <3>6. \A y, z \in e.out : Counts(y, sw.pkt)' /\ Counts(z, sw.pkt)' => y = z
        <4>1. \A y : Counts(y, sw.pkt)' <=> Counts(y, e.pkt)
          BY <1>20, <2>2, Zenon DEF Counts
        <4> QED
          BY <1>5, <4>1, Zenon
      <3> QED
        BY <1>20, <2>2, <3>1, <3>2, <3>4, <3>5, <3>6, Zenon
    <2>3. sw' # Idle => wait
      BY <1>20
    <2> QED
      BY <2>1, <2>2, <2>3, Zenon DEF SwitchInv
  <1>23. /\ DOMAIN table \subseteq DOMAIN table' /\ \A y \in D : DnPkt(y, e.pkt)'
    BY <1>1, <1>5, <1>7
  <1> PICK k : k = e.pkt
    OBVIOUS
  <1> PICK done \in BOOLEAN : done = ~wait
    BY Zenon
  <1> QED
    BY <1>7, <1>17, <1>18, <1>21, <1>22, <1>23, <1>25, ForwardKeeps, Zenon

\* memswitch: one of the ports it waited for takes the packet.
LEMMA TxPacketKeeps ==
  ASSUME FabricInv, TxPacket
  PROVE  FabricInv'
  <1> PICK y \in sw.todo :
        /\ CanAlloc(ring[Dn(y)])
        /\ sw' = IF sw.todo \ {y} = {} THEN Idle ELSE [sw EXCEPT !.todo = sw.todo \ {y}]
        /\ ring' = [ring EXCEPT ![Dn(y)] = OutSend(@, sw.pkt),
                                ![Up(sw.port)] = IF sw.todo \ {y} = {} THEN InDone(@) ELSE @]
        /\ cfg' = cfg /\ pend' = pend /\ table' = table /\ issued' = issued /\ answers' = answers
    BY Zenon DEF TxPacket
  <1>1. /\ cfg \in Configs /\ Rings /\ \A l \in Links : RingOK(ring[l])
        /\ TableOK(table)
    BY Zenon DEF FabricInv, TypeInv, Rings, SwitchInv
  <1>2. sw # Idle
    BY DEF Idle
  <1>3. /\ sw \in [port : Ports, pkt : {sw.pkt}, todo : SUBSET Ports]
        /\ Ready(ring[Up(sw.port)]) /\ \A z \in sw.todo : DnPkt(z, sw.pkt)
        /\ \A v, z \in sw.todo : Counts(v, sw.pkt) /\ Counts(z, sw.pkt) => v = z
    BY <1>2, Zenon DEF FabricInv, SwitchInv
  <1>4. sw.port \in Ports /\ sw.todo \subseteq Ports /\ y \in Ports
    BY <1>3
  <1> PICK u \in Ports : u = sw.port
    BY <1>4, Zenon
  <1> PICK k : k = sw.pkt
    OBVIOUS
  <1> PICK rest : rest = sw.todo \ {y}
    BY Zenon
  <1> PICK done \in BOOLEAN : done <=> rest = {}
    BY Zenon
  <1>5. Up(u) \in Links /\ Dn(y) \in Links /\ Up(u) # Dn(y)
    BY <1>4, LinkTypes, Apart, Zenon DEF Inner
  <1>6. /\ done => sw' = Idle /\ sw'.todo = {}
        /\ ~done => /\ sw' # Idle /\ sw'.port = u /\ sw'.pkt = k /\ sw'.todo = rest
                    /\ sw' \in [port : Ports, pkt : {sw'.pkt}, todo : SUBSET Ports]
    BY <1>3, <1>4 DEF Idle
  <1>7. /\ DOMAIN ring' = Links /\ ring'[Dn(y)] = OutSend(ring[Dn(y)], k)
        /\ (done => ring'[Up(u)] = InDone(ring[Up(u)])) /\ (~done => ring'[Up(u)] = ring[Up(u)])
        /\ \A l \in Links \ {Up(u), Dn(y)} : ring'[l] = ring[l]
    <2> DEFINE ro == OutSend(ring[Dn(y)], k)
               ri == InDone(ring[Up(u)])
    <2>1. ring' = [ring EXCEPT ![Dn(y)] = ro, ![Up(u)] = IF rest = {} THEN ri ELSE ring[Up(u)]]
      BY <1>5
    <2> HIDE DEF ro, ri
    <2>2. /\ DOMAIN ring' = Links /\ ring'[Dn(y)] = ro
          /\ (done => ring'[Up(u)] = ri) /\ (~done => ring'[Up(u)] = ring[Up(u)])
          /\ \A l \in Links \ {Up(u), Dn(y)} : ring'[l] = ring[l]
      BY <1>1, <1>5, <2>1 DEF Rings
    <2> QED
      BY <2>2, Zenon DEF ro, ri
  <1>8. /\ RingOK(InDone(ring[Up(u)])) /\ RingOK(OutSend(ring[Dn(y)], k))
        /\ \A l \in Links : ring[l].inp \in Slots /\ ring[l].outp \in Slots
    BY <1>1, <1>5, DoneRing, SentRing DEF RingOK
  <1>9. ASSUME NEW j \in Slots
        PROVE  /\ j = ring[Up(u)].inp => InDone(ring[Up(u)]).slot[j] = Free
               /\ j # ring[Up(u)].inp => InDone(ring[Up(u)]).slot[j] = ring[Up(u)].slot[j]
    BY <1>1, <1>5, DoneRing, Zenon
  <1>10. ASSUME NEW j \in Slots
         PROVE  /\ j = ring[Dn(y)].outp => OutSend(ring[Dn(y)], k).slot[j] = k
                /\ j # ring[Dn(y)].outp => OutSend(ring[Dn(y)], k).slot[j] = ring[Dn(y)].slot[j]
    BY <1>1, <1>5, SentRing
  <1>11. \A r : RingOK(r) => RingOK(r)'
    BY DEF RingOK, Slots
  <1>12. Rings'
    BY <1>1, <1>5, <1>7, <1>8, <1>11, Zenon DEF Rings
  <1> PICK D \in SUBSET Ports : D = {y}
    BY <1>4, Zenon
  <1>13. Sent(u, D, k, done)
    <2>1. ASSUME NEW l \in Links, NEW j \in Slots, ~(l = Up(u) /\ j = ring[l].inp),
                 ~(l = Dn(y) /\ j = ring[l].outp)
          PROVE  ring'[l].slot[j] = ring[l].slot[j]
      <3>1. CASE l = Up(u) /\ done
        BY <1>7, <1>9, <2>1, <3>1, Zenon
      <3>2. CASE l = Up(u) /\ ~done
        BY <1>7, <3>2, Zenon
      <3>3. CASE l = Dn(y)
        <4>1. OutSend(ring[l], k).slot[j] = ring[l].slot[j]
          BY <1>10, <2>1, <3>3, Zenon
        <4> QED
          BY <1>7, <3>3, <4>1, Zenon
      <3> QED
        BY <1>7, <3>1, <3>2, <3>3, Zenon
    <2>2. done => ring'[Up(u)].slot[ring[Up(u)].inp] = Free
      <3>1. InDone(ring[Up(u)]).slot[ring[Up(u)].inp] = Free
        BY <1>5, <1>8, <1>9, Zenon
      <3> QED
        BY <1>7, <3>1, Zenon
    <2>3. ring'[Dn(y)].slot[ring[Dn(y)].outp] = k
      <3>1. OutSend(ring[Dn(y)], k).slot[ring[Dn(y)].outp] = k
        BY <1>5, <1>8, <1>10, Zenon
      <3> QED
        BY <1>7, <3>1, Zenon
    <2>4. \A z \in D : z = y
      OBVIOUS
    <2>5. ASSUME NEW l \in Links, NEW j \in Slots, ~(l = Up(u) /\ j = ring[l].inp),
                 \A z \in D : ~(l = Dn(z) /\ j = ring[l].outp)
          PROVE  ring'[l].slot[j] = ring[l].slot[j]
      <3>1. y \in D
        OBVIOUS
      <3> QED
        BY <2>1, <2>5, <3>1, Zenon
    <2>6. \A z \in D : ring'[Dn(z)].slot[ring[Dn(z)].outp] = k
      BY <2>3, <2>4, Zenon
    <2>7. ~done => ring'[Up(u)] = ring[Up(u)]
      BY <1>7, Zenon
    <2> HIDE DEF Up, Dn, Links, Slots
    <2> QED
      BY <2>2, <2>5, <2>6, <2>7, Zenon DEF Sent
  <1>14. Carries(TheSwitch, u, D, k, done)
    <2>1. \A z \in sw'.todo : z \in sw.todo /\ z # y
      BY <1>6
    <2>2. \A z \in D, w \in sw'.todo : ~(Counts(z, k) /\ Counts(w, k))
      BY <1>3, <2>1
    <2>3. ASSUME NEW z \in D \cup sw'.todo, Counts(z, k)
          PROVE  Live(TheSwitch) /\ Id(TheSwitch) = k.req /\ Msg(TheSwitch).op = k.op
      <3>1. z \in sw.todo
        BY <2>1
      <3>2. Live(TheSwitch)
        BY <1>2, <2>3, <3>1, Zenon DEF Live
      <3> QED
        BY <3>2, Zenon DEF Id, Msg
    <2>4. \A v, z \in D : v = z
      OBVIOUS
    <2> QED
      BY <1>2, <1>6, <2>2, <2>3, <2>4, Zenon DEF Carries
  <1>15. \A z, m : (DnPkt(z, m)' <=> DnPkt(z, m)) /\ (Counts(z, m)' <=> Counts(z, m))
    BY Zenon DEF DnPkt, Counts
  <1>16. SwitchInv'
    <2>1. ASSUME ~done
          PROVE  /\ sw' \in [port : Ports, pkt : {sw'.pkt}, todo : SUBSET Ports]
                 /\ sw'.todo # {} /\ Ready(ring[Up(sw.port)])'
                 /\ \A z \in sw'.todo : DnPkt(z, sw.pkt)'
                 /\ \A v, z \in sw'.todo : Counts(v, sw.pkt)' /\ Counts(z, sw.pkt)' => v = z
      <3>1. sw'.todo # {} /\ \A z \in sw'.todo : z \in sw.todo
        BY <1>6, <2>1
      <3>2. Ready(ring[Up(u)])'
        BY <1>3, <1>7, <2>1, Zenon DEF Ready
      <3>3. Ready(ring[Up(sw.port)])'
        BY <1>6, <2>1, <3>2, Zenon DEF Up
      <3>4. \A z \in sw'.todo : DnPkt(z, k)'
        BY <1>3, <1>15, <3>1, Zenon
      <3>5. \A z \in sw'.todo : DnPkt(z, sw.pkt)'
        BY <1>6, <2>1, <3>4, Zenon
      <3>6. \A z : Counts(z, sw.pkt)' <=> Counts(z, k)
        BY <1>6, <2>1, Zenon DEF Counts
      <3>7. \A v, z \in sw'.todo : Counts(v, k) /\ Counts(z, k) => v = z
        BY <1>3, <3>1, Zenon
      <3> QED
        BY <1>6, <2>1, <3>1, <3>3, <3>5, <3>6, <3>7, Zenon
    <2>2. TableOK(table)'
      BY <1>1, Zenon DEF TableOK
    <2> QED
      BY <1>6, <2>1, <2>2, Zenon DEF SwitchInv
  <1>17. \A z \in D : DnPkt(z, k)'
    BY <1>3, <1>15
  <1>18. TheSwitch \in Spots
    BY DEF Spots
  <1> QED
    BY <1>12, <1>13, <1>14, <1>16, <1>17, <1>18, ForwardKeeps, Zenon

-----------------------------------------------------------------------------
(* The hosts and the interconnect. *)

\* A place is the pair of its parts.
LEMMA HostSpot ==
  ASSUME NEW s \in HostSpots
  PROVE  s = <<s[1], s[2]>>
  BY DEF HostSpots

\* A place of an operation that a step leaves alone.
LEMMA HostSpotWas ==
  ASSUME NEW h \in Hosts, cfg' = cfg, NEW s \in HostSpots, HostLive(h, s)',
         s[1] = "req" => (s[2] \in Slots => ring'[Req(h)].slot[s[2]] = ring[Req(h)].slot[s[2]]),
         s[1] = "comp" => (s[2] \in Slots => ring'[Comp(h)].slot[s[2]] = ring[Comp(h)].slot[s[2]]),
         s[1] = "pend" => (s[2] \in DOMAIN pend' => s[2] \in DOMAIN pend /\ pend'[s[2]] = pend[s[2]]),
         s[1] = "ans" => (s[2] \in DOMAIN answers'[h] =>
                            s[2] \in DOMAIN answers[h] /\ answers'[h][s[2]] = answers[h][s[2]])
  PROVE  HostLive(h, s) /\ HostId(h, s)' = HostId(h, s)
  <1>1. Slots' = Slots
    BY DEF Slots
  <1>2. s[1] \in {"req", "pend", "comp", "ans"}
    BY DEF HostSpots
  <1>3. CASE s[1] = "req"
    BY <1>1, <1>3 DEF HostLive, HostId
  <1>4. CASE s[1] = "comp"
    BY <1>1, <1>4 DEF HostLive, HostId
  <1>5. CASE s[1] = "pend"
    BY <1>5 DEF HostLive, HostId
  <1>6. CASE s[1] = "ans"
    BY <1>6 DEF HostLive, HostId
  <1> QED
    BY <1>2, <1>3, <1>4, <1>5, <1>6, SMTT(30)

\* An operation moves from p to q.
LEMMA HostMoves ==
  ASSUME NEW h \in Hosts, HostInv(h), NEW p \in HostSpots, NEW q \in HostSpots,
         \A s \in HostSpots : s # q /\ HostLive(h, s)' =>
           HostLive(h, s) /\ s # p /\ HostId(h, s)' = HostId(h, s),
         HostLive(h, q)' => HostLive(h, p) /\ HostId(h, q)' = HostId(h, p)
  PROVE  HostInv(h)'
  <1> SUFFICES ASSUME NEW s \in HostSpots, NEW t \in HostSpots, HostLive(h, s)', HostLive(h, t)',
                      HostId(h, s)' = HostId(h, t)'
               PROVE  s = t
    BY Zenon DEF HostInv
  <1>1. \A a, b \in HostSpots : HostLive(h, a) /\ HostLive(h, b) /\ HostId(h, a) = HostId(h, b) => a = b
    BY Zenon DEF HostInv
  <1> QED
    BY <1>1, Zenon

\* The operations of a host have been issued.
LEMMA HostIssued ==
  ASSUME FabricInv, NEW h \in Hosts, NEW s \in HostSpots, HostLive(h, s)
  PROVE  HostId(h, s) \in 1 .. issued[h]
  <1>1. s[1] \in {"req", "pend", "comp", "ans"} /\ Req(h) \in Links /\ Comp(h) \in Links
    BY LinkTypes DEF HostSpots
  <1>2. CASE s[1] = "req"
    <2>1. s[2] \in Slots /\ ring[Req(h)].slot[s[2]] # Free
      BY <1>2 DEF HostLive
    <2>2. HostReq(h, ring[Req(h)].slot[s[2]])
      BY <1>1, <2>1, GoodMsg, Zenon DEF FabricInv, TypeInv
    <2> QED
      BY <1>2, <2>2 DEF HostId, HostReq
  <1>3. CASE s[1] = "comp"
    <2>1. s[2] \in Slots /\ ring[Comp(h)].slot[s[2]] # Free
      BY <1>3 DEF HostLive
    <2>2. HostComp(h, ring[Comp(h)].slot[s[2]])
      BY <1>1, <2>1, GoodMsg, Zenon DEF FabricInv, TypeInv
    <2> QED
      BY <1>3, <2>2 DEF HostId, HostComp
  <1>4. CASE s[1] = "pend"
    <2>1. s[2] \in DOMAIN pend /\ pend[s[2]].host = h
      BY <1>4 DEF HostLive
    <2>2. pend[s[2]].req \in 1 .. issued[pend[s[2]].host]
      BY <2>1, Zenon DEF FabricInv, PendInv
    <2> QED
      BY <1>4, <2>1, <2>2 DEF HostId
  <1>5. CASE s[1] = "ans"
    <2>1. s[2] \in DOMAIN answers[h]
      BY <1>5 DEF HostLive
    <2>2. HostComp(h, answers[h][s[2]])
      BY <2>1, Zenon DEF FabricInv, TypeInv, Answers
    <2> QED
      BY <1>5, <2>2 DEF HostId, HostComp
  <1> QED
    BY <1>1, <1>2, <1>3, <1>4, <1>5, Zenon

\* Nothing between the interconnect and the memories changes.
InnerSame == /\ cfg' = cfg /\ pend' = pend /\ sw' = sw /\ table' = table
             /\ \A l \in Links : Inner(l) =>
                  /\ ring'[l].inp = ring[l].inp
                  /\ \A j \in Slots : ring'[l].slot[j] = ring[l].slot[j]

\* A step of the hosts alone leaves the memories and the memswitch as they were.
LEMMA OuterSpots ==
  ASSUME FabricInv, InnerSame
  PROVE  TokenInv' /\ SwitchInv'
  <1>1. /\ \A x \in Ports : Up(x) \in Links /\ ring'[Up(x)].inp = ring[Up(x)].inp
        /\ cfg' = cfg /\ pend' = pend /\ sw' = sw /\ table' = table
    BY LinkTypes, Zenon DEF InnerSame, Inner
  <1>2. ASSUME NEW a \in Spots, a # TheSwitch, Live(a)'
        PROVE  Live(a) /\ Id(a)' = Id(a) /\ Msg(a)'.op = Msg(a).op
    <2>1. /\ a[1] \in Links /\ a[2] \in Slots
          /\ Msg(a) = ring[a[1]].slot[a[2]] /\ Msg(a)' = ring'[a[1]].slot[a[2]]
      BY <1>2 DEF Spots, Msg
    <2>2. Inner(a[1])
      <3>1. \/ \E d \in Devices : a[1] = Req(d)
            \/ \E d \in Devices : a[1] = Comp(d)
            \/ \E x \in Ports : a[1] = Up(x)
            \/ \E x \in Ports : a[1] = Dn(x)
        BY <1>2, Zenon DEF Live
      <3> QED
        BY <3>1, LinkTypes, Zenon
    <2>3. Msg(a)' = Msg(a)
      BY <2>1, <2>2, Zenon DEF InnerSame
    <2> QED
      BY <1>1, <1>2, <2>3, SpotStays, Zenon
  <1>3. Live(TheSwitch)' => Live(TheSwitch) /\ Id(TheSwitch)' = Id(TheSwitch)
                            /\ Msg(TheSwitch)'.op = Msg(TheSwitch).op
    BY <1>1, SwitchStays, Zenon DEF Id
  <1>4. TheSwitch \in Spots
    BY DEF Spots
  <1>5. TokenInv'
    BY <1>1, <1>2, <1>3, <1>4, MoveKeeps, Zenon DEF FabricInv
  <1>6. ASSUME sw # Idle PROVE Ready(ring[Up(sw.port)])'
    <2>1. sw.port \in Ports /\ Ready(ring[Up(sw.port)])
      BY <1>6 DEF FabricInv, SwitchInv
    <2> PICK x \in Ports : x = sw.port
      BY <2>1, Zenon
    <2>2. ring[Up(x)].inp \in Slots /\ Inner(Up(x))
      BY <1>1, LinkTypes DEF FabricInv, TypeInv, RingOK
    <2>3. ring'[Up(x)].slot[ring[Up(x)].inp] = ring[Up(x)].slot[ring[Up(x)].inp]
      BY <1>1, <2>2, Zenon DEF InnerSame
    <2>4. Ready(ring[Up(x)])'
      BY <1>1, <2>1, <2>3, Zenon DEF Ready
    <2> QED
      BY <1>1, <2>4, Zenon
  <1> QED
    BY <1>1, <1>5, <1>6, SwitchKeeps, Zenon DEF FabricInv

\* The message m is sent on ring o.
Added(o, m) ==
  /\ ring'[o].slot[ring[o].outp] = m
  /\ \A l \in Links : \A j \in Slots :
       ~(l = o /\ j = ring[o].outp) => ring'[l].slot[j] = ring[l].slot[j]
  /\ \A l \in Links : ring'[l].inp = ring[l].inp

\* A message sent is Added, and the rings stay rings.
LEMMA SentOn ==
  ASSUME cfg \in Configs, Rings, cfg' = cfg, NEW o \in Links, NEW m,
         ring' = [ring EXCEPT ![o] = OutSend(@, m)]
  PROVE  Rings' /\ Added(o, m)
  <1> DEFINE ro == OutSend(ring[o], m)
  <1>1. RingOK(ring[o])
    BY DEF Rings
  <1>2. /\ RingOK(ro) /\ ro.inp = ring[o].inp
        /\ \A j \in Slots : ro.slot[j] = IF j = ring[o].outp THEN m ELSE ring[o].slot[j]
    BY <1>1, SentRing
  <1>3. ring' = [ring EXCEPT ![o] = ro]
    OBVIOUS
  <1> HIDE DEF ro
  <1>4. /\ DOMAIN ring' = Links /\ ring'[o] = ro
        /\ \A l \in Links \ {o} : ring'[l] = ring[l]
    BY <1>3 DEF Rings
  <1>5. \A r : RingOK(r) => RingOK(r)'
    BY DEF RingOK, Slots
  <1>6. Rings'
    BY <1>2, <1>4, <1>5, Zenon DEF Rings
  <1>7. ASSUME NEW l \in Links, NEW j \in Slots
        PROVE  /\ l = o /\ j = ring[o].outp => ring'[l].slot[j] = m
               /\ ~(l = o /\ j = ring[o].outp) => ring'[l].slot[j] = ring[l].slot[j]
    BY <1>2, <1>4, Zenon
  <1>8. ring[o].outp \in Slots
    BY <1>1 DEF RingOK
  <1>9. \A l \in Links : ring'[l].inp = ring[l].inp
    BY <1>2, <1>4, Zenon
  <1> QED
    BY <1>6, <1>7, <1>8, <1>9, Zenon DEF Added

\* What a program holds.
LEMMA OpType ==
  ASSUME cfg \in Configs, NEW h \in Hosts, NEW n \in DOMAIN cfg.prog[h]
  PROVE  /\ Op(h, n).kind \in Kinds \cup {"posted"} /\ n \in Nat /\ n <= Len(cfg.prog[h])
         /\ Len(cfg.prog[h]) \in Nat
  <1> DEFINE R == [kind : {"read", "write", "posted"}, addr : Nat]
  <1>1. cfg.prog \in [Hosts -> Seq(R)]
    BY FabricAssumption, Zenon
  <1>2. \A e \in R : e.kind \in Kinds \cup {"posted"}
    BY DEF Kinds
  <1> HIDE DEF R
  <1>3. cfg.prog[h] \in Seq(R)
    BY <1>1
  <1>4. cfg.prog[h][n] \in R /\ n \in Nat /\ n <= Len(cfg.prog[h]) /\ Len(cfg.prog[h]) \in Nat
    BY <1>3
  <1> QED
    BY <1>2, <1>4 DEF Op

\* A host issues its next operation.
LEMMA IssueKeeps ==
  ASSUME FabricInv, NEW h \in Hosts, HostIssue(h)
  PROVE  FabricInv'
  <1> PICK n : n = issued[h] + 1
    OBVIOUS
  <1> PICK m : m = [op |-> Op(h, n).kind, req |-> n, addr |-> Op(h, n).addr, val |-> <<h, n>>]
    BY Zenon
  <1>1. /\ n \in DOMAIN cfg.prog[h] /\ CanAlloc(ring[Req(h)])
        /\ ring' = [ring EXCEPT ![Req(h)] = OutSend(@, m)]
        /\ issued' = [issued EXCEPT ![h] = n]
        /\ cfg' = cfg /\ pend' = pend /\ table' = table /\ sw' = sw /\ answers' = answers
    BY DEF HostIssue
  <1>2. /\ cfg \in Configs /\ Rings /\ TypeInv /\ issued \in [Hosts -> Nat] /\ Req(h) \in Links
        /\ \A g \in Hosts : issued[g] <= Len(cfg.prog[g])
    BY LinkTypes, Zenon DEF FabricInv, TypeInv, Rings
  <1>3. Rings' /\ Added(Req(h), m)
    BY <1>1, <1>2, SentOn, Zenon
  <1>4. /\ Op(h, n).kind \in Kinds \cup {"posted"} /\ n \in Nat /\ n <= Len(cfg.prog[h])
        /\ Len(cfg.prog[h]) \in Nat
    BY <1>1, <1>2, OpType, Zenon
  <1>5. /\ issued' \in [Hosts -> Nat] /\ issued'[h] = n
        /\ \A g \in Hosts : issued[g] <= issued'[g] /\ issued'[g] <= Len(cfg.prog[g])
    <2>1. \A g \in Hosts \ {h} : issued'[g] = issued[g]
      BY <1>1, <1>2
    <2>2. issued'[h] = n /\ issued' \in [Hosts -> Nat] /\ issued[h] <= n
      BY <1>1, <1>2, <1>4
    <2>3. ASSUME NEW g \in Hosts PROVE issued[g] <= issued'[g] /\ issued'[g] <= Len(cfg.prog[g])
      <3>1. CASE g = h
        BY <1>4, <2>2, <3>1
      <3>2. CASE g # h
        BY <1>2, <2>1, <3>2
      <3> QED
        BY <3>1, <3>2
    <2> QED
      BY <2>2, <2>3, SMTT(30)
  <1>6. Grows
    BY <1>1, <1>5 DEF Grows
  <1>7. MsgOK(Req(h), m)'
    <2>1. IsReq(m) /\ m.req = n /\ m.op = Op(h, n).kind /\ m.addr = Op(h, n).addr
      BY <1>4 DEF IsReq
    <2>2. n \in 1 .. issued'[h]
      BY <1>2, <1>4, <1>5
    <2>3. HostReq(h, m)'
      BY <1>1, <2>1, <2>2, Zenon DEF HostReq, Op, IsReq
    <2>4. \A g \in Hosts : Req(h) = Req(g) => g = h
      BY Apart, Zenon
    <2>5. \A d \in Devices : Req(h) # Req(d)
      BY Apart, FabricAssumption
    <2> QED
      BY <2>3, <2>4, <2>5, Apart, Zenon DEF MsgOK
  <1>8. TypeInv'
    <2>1. ASSUME NEW l \in Links, NEW j \in Slots
          PROVE  ring'[l].slot[j] \in {Free, ring[l].slot[j]} \/ MsgOK(l, ring[l].slot[j])'
      BY <1>3, <1>7, Zenon DEF Added
    <2> QED
      BY <1>1, <1>2, <1>3, <1>5, <1>6, <2>1, TypeKeeps, Zenon
  <1>9. PendInv'
    BY <1>1, <1>2, <1>6, PendKeeps, Zenon DEF FabricInv
  <1>10. InnerSame
    <2>1. \A l \in Links : Inner(l) => l # Req(h)
      BY Zenon DEF Inner
    <2> QED
      BY <1>1, <1>3, <2>1, Zenon DEF InnerSame, Added
  <1>11. TokenInv' /\ SwitchInv'
    BY <1>10, OuterSpots, Zenon
  <1>12. ASSUME NEW g \in Hosts, g # h PROVE HostInv(g)'
    <2>1. Req(g) # Req(h) /\ Comp(g) # Req(h) /\ Req(g) \in Links /\ Comp(g) \in Links
      BY <1>12, LinkTypes, Apart, Zenon
    <2>2. \A j \in Slots : /\ ring'[Req(g)].slot[j] = ring[Req(g)].slot[j]
                           /\ ring'[Comp(g)].slot[j] = ring[Comp(g)].slot[j]
      BY <1>3, <2>1, Zenon DEF Added
    <2> QED
      BY <1>1, <2>2, HostKeeps, Zenon DEF FabricInv
  <1>13. HostInv(h)'
    <2>1. ring[Req(h)].outp \in Slots /\ Slots \subseteq Nat
      BY <1>2 DEF Rings, RingOK, Slots
    <2> PICK q \in HostSpots : q = <<"req", ring[Req(h)].outp>>
      BY <2>1, Zenon DEF HostSpots
    <2>2. HostId(h, q)' = n
      <3>1. q[1] = "req" /\ q[2] = ring[Req(h)].outp
        OBVIOUS
      <3>2. HostId(h, q)' = ring'[Req(h)].slot[q[2]].req
        BY <3>1 DEF HostId
      <3> QED
        BY <1>3, <3>1, <3>2 DEF Added
    <2>3. ASSUME NEW s \in HostSpots, s # q, HostLive(h, s)'
          PROVE  HostLive(h, s) /\ HostId(h, s)' = HostId(h, s) /\ HostId(h, s)' # n
      <3>1. s[1] = "req" => s[2] # ring[Req(h)].outp
        BY <2>3 DEF HostSpots
      <3>2. s[1] = "req" => (s[2] \in Slots => ring'[Req(h)].slot[s[2]] = ring[Req(h)].slot[s[2]])
        BY <1>2, <1>3, <3>1, Zenon DEF Added
      <3>7. Comp(h) \in Links /\ Comp(h) # Req(h)
        BY LinkTypes, Apart, Zenon
      <3>3. \A j \in Slots : ring'[Comp(h)].slot[j] = ring[Comp(h)].slot[j]
        BY <1>3, <3>7, Zenon DEF Added
      <3>4. HostLive(h, s) /\ HostId(h, s)' = HostId(h, s)
        BY <1>1, <2>3, <3>2, <3>3, HostSpotWas, Zenon
      <3>5. HostId(h, s) \in 1 .. issued[h]
        BY <3>4, HostIssued, Zenon
      <3>6. HostId(h, s) # n
        BY <1>2, <3>5
      <3> QED
        BY <3>4, <3>6, Zenon
    <2>4. \A a, b \in HostSpots : HostLive(h, a) /\ HostLive(h, b) /\ HostId(h, a) = HostId(h, b) => a = b
      BY Zenon DEF FabricInv, HostInv
    <2> SUFFICES ASSUME NEW s \in HostSpots, NEW t \in HostSpots, HostLive(h, s)', HostLive(h, t)',
                        HostId(h, s)' = HostId(h, t)'
                 PROVE  s = t
      BY Zenon DEF HostInv
    <2> QED
      BY <2>2, <2>3, <2>4, Zenon
  <1> QED
    BY <1>8, <1>9, <1>11, <1>12, <1>13, Zenon DEF FabricInv

\* A host takes a completion.
LEMMA CompleteKeeps ==
  ASSUME FabricInv, NEW h \in Hosts, HostComplete(h)
  PROVE  FabricInv'
  <1> PICK c : c = Front(ring[Comp(h)])
    OBVIOUS
  <1>1. /\ Ready(ring[Comp(h)]) /\ Consume(Comp(h))
        /\ answers' = [answers EXCEPT ![h] = Append(@, c)]
        /\ cfg' = cfg /\ pend' = pend /\ table' = table /\ sw' = sw /\ issued' = issued
    BY DEF HostComplete
  <1>2. /\ cfg \in Configs /\ Rings /\ TypeInv /\ issued \in [Hosts -> Nat] /\ Comp(h) \in Links
        /\ Answers
    BY LinkTypes, Zenon DEF FabricInv, TypeInv, Rings
  <1>3. Rings' /\ Taken(Comp(h))
    BY <1>1, <1>2, Consumed, Zenon
  <1>4. Grows /\ \A g \in Hosts : issued'[g] <= Len(cfg.prog[g])
    BY <1>1 DEF Grows, FabricInv, TypeInv
  <1>5. HostComp(h, c)
    BY <1>1, <1>2, FrontGood, GoodMsg, Zenon
  <1>6. /\ DOMAIN answers' = Hosts /\ \A g \in Hosts \ {h} : answers'[g] = answers[g]
        /\ \E S : answers'[h] \in Seq(S)
        /\ Len(answers[h]) \in Nat /\ DOMAIN answers[h] = 1 .. Len(answers[h])
        /\ DOMAIN answers'[h] = DOMAIN answers[h] \cup {Len(answers[h]) + 1}
        /\ answers'[h][Len(answers[h]) + 1] = c
        /\ \A k \in DOMAIN answers[h] : answers'[h][k] = answers[h][k]
    <2>1. DOMAIN answers = Hosts /\ answers'[h] = Append(answers[h], c)
      BY <1>1, <1>2 DEF Answers
    <2> PICK S : answers[h] \in Seq(S)
      BY <1>2, Zenon DEF Answers
    <2>2. answers[h] \in Seq(S \cup {c})
      OBVIOUS
    <2>3. answers'[h] \in Seq(S \cup {c})
      BY <2>1, <2>2
    <2>4. /\ Len(answers[h]) \in Nat /\ DOMAIN answers[h] = 1 .. Len(answers[h])
          /\ DOMAIN answers'[h] = DOMAIN answers[h] \cup {Len(answers[h]) + 1}
          /\ answers'[h][Len(answers[h]) + 1] = c
          /\ \A k \in DOMAIN answers[h] : answers'[h][k] = answers[h][k]
      BY <2>1, <2>2
    <2>5. DOMAIN answers' = Hosts /\ \A g \in Hosts \ {h} : answers'[g] = answers[g]
      BY <1>1, <2>1
    <2> QED
      BY <2>3, <2>4, <2>5, Zenon
  <1>7. Answers'
    <2>1. ASSUME NEW g \in Hosts, NEW k \in DOMAIN answers'[g] PROVE HostComp(g, answers[g][k])'
      <3> PICK a : a = answers'[g][k]
        OBVIOUS
      <3>1. HostComp(g, a)
        BY <1>2, <1>5, <1>6, <2>1, Zenon DEF Answers
      <3>2. HostComp(g, a)'
        BY <1>2, <1>4, <3>1, CompStays, Zenon
      <3> QED
        BY <3>2, Zenon
    <2>2. \A g \in Hosts : \E S : answers'[g] \in Seq(S)
      BY <1>2, <1>6, Zenon DEF Answers
    <2> QED
      BY <1>6, <2>1, <2>2, Zenon DEF Answers
  <1>8. TypeInv'
    <2>1. ASSUME NEW l \in Links, NEW j \in Slots
          PROVE  ring'[l].slot[j] \in {Free, ring[l].slot[j]}
      BY <1>3, Zenon DEF Taken
    <2> QED
      BY <1>2, <1>3, <1>4, <1>7, <2>1, TypeStep, Zenon
  <1>9. PendInv'
    BY <1>1, <1>2, <1>4, PendKeeps, Zenon DEF FabricInv
  <1>10. InnerSame
    <2>1. \A l \in Links : Inner(l) => l # Comp(h)
      BY Zenon DEF Inner
    <2> QED
      BY <1>1, <1>3, <2>1, Zenon DEF InnerSame, Taken
  <1>11. TokenInv' /\ SwitchInv'
    BY <1>10, OuterSpots, Zenon
  <1>12. ASSUME NEW g \in Hosts, g # h PROVE HostInv(g)'
    <2>1. Req(g) # Comp(h) /\ Comp(g) # Comp(h) /\ Req(g) \in Links /\ Comp(g) \in Links
      BY <1>12, LinkTypes, Apart, Zenon
    <2>2. \A j \in Slots : /\ ring'[Req(g)].slot[j] = ring[Req(g)].slot[j]
                           /\ ring'[Comp(g)].slot[j] = ring[Comp(g)].slot[j]
      BY <1>3, <2>1, Zenon DEF Taken
    <2> QED
      BY <1>1, <1>6, <1>12, <2>2, HostKeeps, Zenon DEF FabricInv
  <1>13. HostInv(h)'
    <2>1. ring[Comp(h)].inp \in Slots /\ Slots \subseteq Nat /\ Slots' = Slots
      BY <1>1, <1>2 DEF Rings, RingOK, Slots
    <2> PICK p \in HostSpots : p = <<"comp", ring[Comp(h)].inp>>
      BY <2>1, Zenon DEF HostSpots
    <2>5. Len(answers[h]) + 1 \in Nat
      BY <1>6
    <2> PICK q \in HostSpots : q = <<"ans", Len(answers[h]) + 1>>
      BY <2>5, Zenon DEF HostSpots
    <2>2. HostLive(h, p) /\ HostId(h, p) = c.req /\ ~HostLive(h, p)'
      <3>1. p[1] = "comp" /\ p[2] = ring[Comp(h)].inp
        OBVIOUS
      <3>2. ring'[Comp(h)].slot[p[2]] = Free
        BY <1>3, <3>1, Zenon DEF Taken
      <3>3. ring[Comp(h)].slot[p[2]] # Free /\ ring[Comp(h)].slot[p[2]] = c
        BY <1>1, <3>1, Zenon DEF Ready, Front
      <3> QED
        BY <2>1, <3>1, <3>2, <3>3 DEF HostLive, HostId
    <2>3. HostId(h, q)' = c.req
      <3>1. q[1] = "ans" /\ q[2] = Len(answers[h]) + 1
        OBVIOUS
      <3> QED
        BY <1>6, <3>1 DEF HostId
    <2>4. ASSUME NEW s \in HostSpots, s # q, HostLive(h, s)'
          PROVE  HostLive(h, s) /\ s # p /\ HostId(h, s)' = HostId(h, s)
      <3>1. s # p
        BY <2>2, <2>4, Zenon
      <3>2. /\ s[1] = "comp" => s[2] # ring[Comp(h)].inp
            /\ s[1] = "ans" => s[2] # Len(answers[h]) + 1
        BY <2>4, <3>1 DEF HostSpots
      <3>3. s[1] = "comp" => (s[2] \in Slots => ring'[Comp(h)].slot[s[2]] = ring[Comp(h)].slot[s[2]])
        BY <1>2, <1>3, <3>2, Zenon DEF Taken
      <3>7. Req(h) \in Links /\ Comp(h) # Req(h)
        BY LinkTypes, Apart, Zenon
      <3>4. \A j \in Slots : ring'[Req(h)].slot[j] = ring[Req(h)].slot[j]
        BY <1>3, <3>7, Zenon DEF Taken
      <3>5. s[1] = "ans" => (s[2] \in DOMAIN answers'[h] =>
              s[2] \in DOMAIN answers[h] /\ answers'[h][s[2]] = answers[h][s[2]])
        BY <1>6, <3>2
      <3>6. HostLive(h, s) /\ HostId(h, s)' = HostId(h, s)
        BY <1>1, <2>4, <3>3, <3>4, <3>5, HostSpotWas, Zenon
      <3> QED
        BY <3>1, <3>6, Zenon
    <2> QED
      BY <2>2, <2>3, <2>4, HostMoves, Zenon DEF FabricInv
  <1> QED
    BY <1>8, <1>9, <1>11, <1>12, <1>13, Zenon DEF FabricInv

\* The interconnect ends on an exception, or nothing happens.
LEMMA NothingKeeps ==
  ASSUME FabricInv, Others, ring' = ring
  PROVE  FabricInv'
  <1>1. Rings'
    BY Zenon DEF FabricInv, TypeInv, Rings, RingOK, Slots, Others
  <1>2. Drops
    BY Zenon DEF Drops
  <1> QED
    BY <1>1, <1>2, DropKeeps, Zenon

\* An object is added to those pending.
Filed(N, h, n) ==
  /\ DOMAIN pend' = DOMAIN pend \cup {N} /\ pend'[N] = [host |-> h, req |-> n]
  /\ \A i \in DOMAIN pend : pend'[i] = pend[i]

\* The tokens while a message is passed from the ring i to the ring o and a Pending
\* object is made.
LEMMA FileToken ==
  ASSUME FabricInv, cfg' = cfg, sw' = sw, NEW i \in Links, NEW o \in Links, \A x \in Ports : i # Up(x),
         NEW m, Passed(i, o, m), NEW h \in Hosts, NEW n, Filed(m.req, h, n),
         m.req \notin DOMAIN pend, m.op = Op(h, n).kind
  PROVE  TokenInv'
  <1>1. Spots' = Spots
    BY Zenon DEF Spots, Slots
  <1>2. ring[o].outp \in Slots
    BY DEF FabricInv, TypeInv, RingOK
  <1> PICK q \in Spots : q = <<o, ring[o].outp>>
    BY <1>2, Zenon DEF Spots
  <1>3. q # TheSwitch /\ q[1] = o /\ q[2] = ring[o].outp
    BY DEF TheSwitch, Links
  <1>4. Msg(q)' = m
    BY <1>3, Zenon DEF Msg, Passed
  <1>5. ASSUME NEW a \in Spots, a # q, Live(a)'
        PROVE  /\ Live(a) /\ Id(a)' = Id(a) /\ Msg(a)'.op = Msg(a).op
               /\ Id(a)' # m.req /\ Fits(Id(a), Msg(a).op)'
    <2>1. Live(a) /\ Id(a)' = Id(a) /\ Msg(a)'.op = Msg(a).op
      BY <1>5, PassSpots, Zenon
    <2>2. Fits(Id(a), Msg(a).op)
      BY <2>1, Zenon DEF FabricInv, TokenInv
    <2> PICK j : j = Id(a)
      OBVIOUS
    <2> PICK u : u = Msg(a).op
      OBVIOUS
    <2>3. j \in DOMAIN pend /\ u \in {Kind(j), Completion(Kind(j))}
      BY <2>2, Zenon DEF Fits
    <2>4. j \in DOMAIN pend' /\ pend'[j] = pend[j]
      BY <2>3 DEF Filed
    <2>5. Fits(j, u)'
      BY <2>3, <2>4, Zenon DEF Fits, Kind, Op
    <2>6. j # m.req
      BY <2>3, Zenon
    <2> QED
      BY <2>1, <2>5, <2>6, Zenon
  <1>6. Id(q)' = m.req /\ Fits(Id(q), Msg(q).op)'
    <2>1. m.req \in DOMAIN pend' /\ pend'[m.req] = [host |-> h, req |-> n]
      BY DEF Filed
    <2> PICK j : j = m.req
      OBVIOUS
    <2> PICK u : u = m.op
      OBVIOUS
    <2>2. Kind(j)' = Op(h, n).kind
      BY <2>1 DEF Kind, Op
    <2>3. Fits(j, u)'
      BY <2>1, <2>2, Zenon DEF Fits
    <2>4. Id(q)' = j /\ Msg(q)'.op = u
      BY <1>4, Zenon DEF Id
    <2> QED
      BY <2>3, <2>4, Zenon
  <1>7. ASSUME NEW a \in Spots, Live(a)' PROVE Fits(Id(a), Msg(a).op)'
    BY <1>5, <1>6, <1>7, Zenon
  <1>8. ASSUME NEW a \in Spots, NEW b \in Spots, Live(a)', Live(b)', Id(a)' = Id(b)' PROVE a = b
    <2>1. \A x, y \in Spots : Live(x) /\ Live(y) /\ Id(x) = Id(y) => x = y
      BY Zenon DEF FabricInv, TokenInv
    <2> QED
      BY <1>5, <1>6, <1>8, <2>1, Zenon
  <1> QED
    BY <1>1, <1>7, <1>8, Zenon DEF TokenInv

\* A new Pending object is one of an operation that was issued.
LEMMA FilePend ==
  ASSUME FabricInv, cfg' = cfg, issued' = issued, NEW N \in Nat \ {0},
         NEW h \in Hosts, NEW n \in 1 .. issued[h], Filed(N, h, n), Op(h, n).kind \in Kinds
  PROVE  PendInv'
  <1>1. /\ DOMAIN pend \subseteq Nat \ {0}
        /\ \A i \in DOMAIN pend : /\ pend[i] \in [host : Hosts, req : Nat]
                                  /\ pend[i].req \in 1 .. issued[pend[i].host]
                                  /\ Op(pend[i].host, pend[i].req).kind \in Kinds
    BY Zenon DEF FabricInv, PendInv
  <1>3. DOMAIN pend' \subseteq Nat \ {0}
    BY <1>1, SMTT(30) DEF Filed
  <1>4. ASSUME NEW i \in DOMAIN pend'
        PROVE  /\ pend'[i] \in [host : Hosts, req : Nat]
               /\ pend'[i].req \in 1 .. issued[pend'[i].host]
               /\ cfg.prog[pend'[i].host][pend'[i].req].kind \in Kinds
    <2>1. CASE i \in DOMAIN pend
      <3>1. pend'[i] = pend[i]
        BY <2>1, Zenon DEF Filed
      <3> QED
        BY <1>1, <2>1, <3>1, Zenon DEF Op
    <2>2. CASE i = N
      <3>1. pend'[i] = [host |-> h, req |-> n]
        BY <2>2, Zenon DEF Filed
      <3>2. issued[h] \in Nat
        BY DEF FabricInv, TypeInv
      <3> QED
        BY <3>1, <3>2 DEF Op
    <2> QED
      BY <2>1, <2>2 DEF Filed
  <1> QED
    BY <1>3, <1>4, Zenon DEF PendInv, Op

\* A place other than q is the one the message left, or as it was.
LEMMA FrontHost ==
  ASSUME FabricInv, NEW h \in Hosts, NEW o \in Links, o # Req(h), o # Comp(h), NEW k, Passed(Req(h), o, k),
         cfg' = cfg, answers' = answers, NEW s \in HostSpots, HostLive(h, s)',
         s[1] = "pend" => (s[2] \in DOMAIN pend' => s[2] \in DOMAIN pend /\ pend'[s[2]] = pend[s[2]])
  PROVE  HostLive(h, s) /\ s # <<"req", ring[Req(h)].inp>> /\ HostId(h, s)' = HostId(h, s)
  <1>1. Req(h) \in Links /\ Comp(h) \in Links /\ Req(h) # Comp(h) /\ ring[Req(h)].inp \in Slots /\ Slots' = Slots
    BY LinkTypes, Apart DEF FabricInv, TypeInv, RingOK, Slots
  <1>2. s # <<"req", ring[Req(h)].inp>>
    <2> SUFFICES ASSUME s = <<"req", ring[Req(h)].inp>> PROVE FALSE
      OBVIOUS
    <2>1. s[1] = "req" /\ s[2] = ring[Req(h)].inp
      OBVIOUS
    <2>2. ring'[Req(h)].slot[s[2]] = Free
      BY <2>1, Zenon DEF Passed
    <2> QED
      BY <2>1, <2>2 DEF HostLive
  <1>3. s[1] = "req" => s[2] # ring[Req(h)].inp
    BY <1>2 DEF HostSpots
  <1>4. s[1] = "req" => (s[2] \in Slots => ring'[Req(h)].slot[s[2]] = ring[Req(h)].slot[s[2]])
    BY <1>1, <1>3, Zenon DEF Passed
  <1>5. \A j \in Slots : ring'[Comp(h)].slot[j] = ring[Comp(h)].slot[j]
    BY <1>1, Zenon DEF Passed
  <1>6. HostLive(h, s) /\ HostId(h, s)' = HostId(h, s)
    BY <1>4, <1>5, HostSpotWas, Zenon
  <1> QED
    BY <1>2, <1>6, ZenonT(30)

\* The interconnect passes on a request of a host, filing a Pending object for it.
LEMMA HostPollKeeps ==
  ASSUME FabricInv, NEW h \in Hosts, HostPoll(h)
  PROVE  FabricInv'
  <1> PICK m : m = Front(ring[Req(h)])
    OBVIOUS
  <1>1. /\ Ready(ring[Req(h)]) /\ ((\E e \in Lookup(m.addr) : DeviceSend(h, m, e)) \/ Throw)
        /\ cfg' = cfg /\ table' = table /\ sw' = sw /\ issued' = issued /\ answers' = answers
    BY Zenon DEF HostPoll
  <1>2. /\ cfg \in Configs /\ Rings /\ TypeInv /\ issued \in [Hosts -> Nat] /\ Req(h) \in Links
        /\ issued[h] <= Len(cfg.prog[h])
    BY LinkTypes, Zenon DEF FabricInv, TypeInv, Rings
  <1>3. CASE Throw
    BY <1>1, <1>3, NothingKeeps, Zenon DEF Throw, Others
  <1>4. ASSUME NEW e \in Lookup(m.addr), DeviceSend(h, m, e) PROVE FabricInv'
    <2>1. HostReq(h, m) /\ m # Free
      BY <1>1, <1>2, FrontGood, GoodMsg, Zenon
    <2>2. /\ IsReq(m) /\ m.req \in 1 .. issued[h] /\ m.op = Op(h, m.req).kind
          /\ m.addr = Op(h, m.req).addr
      BY <2>1, Zenon DEF HostReq
    <2>4. e.dev \in Devices
      BY LookupDevice, Zenon
    <2> PICK d \in Devices : d = e.dev
      BY <2>4, Zenon
    <2> PICK N : N = NewId
      OBVIOUS
    <2> PICK k : k = [m EXCEPT !.addr = e.phys + (m.addr - e.start),
                               !.req  = IF m.op = "posted" THEN 0 ELSE NewId]
      OBVIOUS
    <2>5. /\ CanAlloc(ring[Req(d)]) /\ PassOn(Req(h), Req(d), k)
          /\ pend' = IF m.op = "posted" THEN pend
                     ELSE [i \in DOMAIN pend \cup {N} |->
                             IF i = N THEN [host |-> h, req |-> m.req] ELSE pend[i]]
      BY <1>4 DEF DeviceSend
    <2>6. m.op # "posted" => N \in Nat \ {0} /\ N \notin DOMAIN pend
      BY <1>4, NewIdFresh, Zenon DEF DeviceSend
    <2>7. IsReq(k) /\ k.op = m.op /\ (m.op # "posted" => k.req = N)
      BY <2>2, <2>6, Zenon DEF IsReq
    <2>8. /\ Req(d) \in Links /\ Req(h) # Req(d) /\ Req(d) # Comp(h) /\ \A x \in Ports : Req(h) # Up(x)
          /\ \A g \in Hosts : Req(d) # Req(g) /\ Req(d) # Comp(g)
      BY LinkTypes, Apart, Zenon DEF Inner
    <2>9. Rings' /\ Passed(Req(h), Req(d), k)
      BY <1>1, <1>2, <2>5, <2>8, PassedOn, Zenon
    <2>10. Grows /\ Slots' = Slots /\ \A g \in Hosts : issued'[g] <= Len(cfg.prog[g])
      BY <1>1 DEF Grows, FabricInv, TypeInv, Slots
    <2>11. TypeInv'
      <3>1. MsgOK(Req(d), k)
        BY <2>7, GoodMsg, Zenon
      <3>2. MsgOK(Req(d), k)'
        BY <1>2, <2>10, <3>1, MsgStays, Zenon
      <3>3. ASSUME NEW l \in Links, NEW j \in Slots
            PROVE  ring'[l].slot[j] \in {Free, ring[l].slot[j]} \/ MsgOK(l, ring[l].slot[j])'
        <4>1. ring'[l].slot[j] \in {Free, ring[l].slot[j]} \/ (l = Req(d) /\ ring'[l].slot[j] = k)
          BY <2>9, ZenonT(30) DEF Passed
        <4> QED
          BY <3>2, <4>1, Zenon
      <3> QED
        BY <1>1, <1>2, <2>9, <2>10, <3>3, TypeKeeps, Zenon
    <2>12. SwitchInv'
      BY <1>1, <1>2, <2>5, <2>8, <2>9, PassSwitch, Zenon
    <2>13. ring[Req(h)].inp \in Slots /\ Slots \subseteq Nat
      BY <1>2 DEF Rings, RingOK, Slots
    <2> PICK p \in HostSpots : p = <<"req", ring[Req(h)].inp>>
      BY <2>13, Zenon DEF HostSpots
    <2>14. HostLive(h, p) /\ HostId(h, p) = m.req
      <3>1. p[1] = "req" /\ p[2] = ring[Req(h)].inp
        OBVIOUS
      <3>2. ring[Req(h)].slot[p[2]] # Free /\ ring[Req(h)].slot[p[2]] = m
        BY <1>1, <3>1, Zenon DEF Ready, Front
      <3> QED
        BY <2>13, <3>1, <3>2 DEF HostLive, HostId
    <2>15. ASSUME NEW g \in Hosts, g # h
           PROVE  \A j \in Slots : /\ ring'[Req(g)].slot[j] = ring[Req(g)].slot[j]
                                   /\ ring'[Comp(g)].slot[j] = ring[Comp(g)].slot[j]
      <3>1. Req(g) \in Links /\ Req(g) # Req(h) /\ Req(g) # Req(d)
        BY <2>8, <2>15, LinkTypes, Apart, Zenon
      <3>2. Comp(g) \in Links /\ Comp(g) # Req(h) /\ Comp(g) # Req(d)
        BY <2>8, LinkTypes, Apart, Zenon
      <3>3. \A j \in Slots : ring'[Req(g)].slot[j] = ring[Req(g)].slot[j]
        BY <2>9, <3>1, Zenon DEF Passed
      <3>4. \A j \in Slots : ring'[Comp(g)].slot[j] = ring[Comp(g)].slot[j]
        BY <2>9, <3>2, Zenon DEF Passed
      <3> QED
        BY <3>3, <3>4, Zenon
    <2>16. CASE m.op = "posted"
      <3>1. pend' = pend
        BY <2>5, <2>16
      <3>2. PendInv'
        BY <1>2, <2>10, <3>1, PendKeeps, Zenon DEF FabricInv
      <3>3. ASSUME NEW g \in Hosts PROVE HostInv(g)'
        <4>1. CASE g # h
          BY <1>1, <2>15, <3>1, <4>1, HostKeeps, Zenon DEF FabricInv
        <4>2. CASE g = h
          <5>1. ASSUME NEW s \in HostSpots, HostLive(h, s)'
                PROVE  HostLive(h, s) /\ s # p /\ HostId(h, s)' = HostId(h, s)
            BY <1>1, <2>8, <2>9, <3>1, <5>1, FrontHost, Zenon
          <5> QED
            BY <4>2, <5>1, HostMoves, Zenon DEF FabricInv
        <4> QED
          BY <4>1, <4>2, Zenon
      <3>4. TokenInv'
        <4>1. ring[Req(d)].outp \in Slots
          BY <1>2, <2>8, SMTT(30) DEF Rings, RingOK
        <4> PICK q \in Spots : q = <<Req(d), ring[Req(d)].outp>>
          BY <2>8, <4>1, Zenon DEF Spots
        <4>2. q # TheSwitch /\ q[1] = Req(d) /\ q[2] = ring[Req(d)].outp
          <5>1. \A l \in Links : \A j : <<l, j>> # TheSwitch
            BY DEF TheSwitch, Links
          <5> QED
            BY <2>8, <5>1
        <4>3. Msg(q)' = k
          BY <2>9, <4>2, Zenon DEF Msg, Passed
        <4>4. ~Live(q)'
          BY <2>7, <2>16, <4>2, <4>3, Apart, Zenon DEF Live
        <4>5. ASSUME NEW a \in Spots, Live(a)'
              PROVE  Live(a) /\ Id(a)' = Id(a) /\ Msg(a)'.op = Msg(a).op
          <5>1. a # q
            BY <4>4, <4>5, Zenon
          <5> QED
            BY <1>1, <1>2, <2>8, <2>9, <4>5, <5>1, PassSpots, Zenon
        <4>6. TheSwitch \in Spots
          BY DEF Spots
        <4>7. \A a \in Spots : a # TheSwitch /\ Live(a)' =>
                Live(a) /\ a # TheSwitch /\ Id(a)' = Id(a) /\ Msg(a)'.op = Msg(a).op
          BY <4>5, Zenon
        <4>8. Live(TheSwitch)' => /\ Live(TheSwitch) /\ Id(TheSwitch)' = Id(TheSwitch)
                                  /\ Msg(TheSwitch)'.op = Msg(TheSwitch).op
          BY <4>5, <4>6, Zenon
        <4> QED
          BY <1>1, <3>1, <4>6, <4>7, <4>8, MoveKeeps, Zenon DEF FabricInv
      <3> QED
        BY <2>11, <2>12, <3>2, <3>3, <3>4, Zenon DEF FabricInv
    <2>17. CASE m.op # "posted"
      <3> PICK n : n = m.req
        OBVIOUS
      <3>0. N \in Nat \ {0} /\ N \notin DOMAIN pend
        BY <2>6, <2>17, Zenon
      <3>1. Filed(N, h, n)
        BY <2>5, <2>17, <3>0 DEF Filed
      <3>2. Op(h, n).kind \in Kinds
        BY <2>2, <2>17 DEF IsReq
      <3>3. PendInv'
        BY <1>1, <2>2, <3>0, <3>1, <3>2, FilePend, Zenon
      <3>4. TokenInv'
        <4>1. Filed(k.req, h, n) /\ k.req \notin DOMAIN pend
          BY <2>7, <2>17, <3>0, <3>1, Zenon
        <4>2. k.op = Op(h, n).kind
          BY <2>2, <2>7, Zenon
        <4>3. cfg' = cfg /\ sw' = sw /\ Req(h) \in Links /\ Req(d) \in Links
          BY <1>1, <1>2, <2>8, Zenon
        <4>4. Passed(Req(h), Req(d), k) /\ \A x \in Ports : Req(h) # Up(x)
          BY <2>8, <2>9, Zenon
        <4> QED
          BY <4>1, <4>2, <4>3, <4>4, FileToken, ZenonT(30)
      <3>5. <<"pend", N>> \in HostSpots
        BY <3>0 DEF HostSpots
      <3> PICK q \in HostSpots : q = <<"pend", N>>
        BY <3>5, Zenon
      <3>6. q[1] = "pend" /\ q[2] = N
        OBVIOUS
      <3>7. ASSUME NEW s \in HostSpots, s # q, s[1] = "pend", s[2] \in DOMAIN pend'
            PROVE  s[2] \in DOMAIN pend /\ pend'[s[2]] = pend[s[2]]
        <4>1. s[2] # N
          BY <3>7 DEF HostSpots
        <4> QED
          BY <3>1, <3>7, <4>1 DEF Filed
      <3>8. pend'[N] = [host |-> h, req |-> n]
        BY <3>1, Zenon DEF Filed
      <3>9. HostInv(h)'
        <4>1. HostId(h, q)' = HostId(h, p)
          BY <2>14, <3>6, <3>8 DEF HostId
        <4>2. ASSUME NEW s \in HostSpots, s # q, HostLive(h, s)'
              PROVE  HostLive(h, s) /\ s # p /\ HostId(h, s)' = HostId(h, s)
          BY <1>1, <2>8, <2>9, <3>7, <4>2, FrontHost, Zenon
        <4> QED
          BY <2>14, <4>1, <4>2, HostMoves, Zenon DEF FabricInv
      <3>10. ASSUME NEW g \in Hosts, g # h PROVE HostInv(g)'
        <4>1. ~HostLive(g, q)'
          BY <3>6, <3>8, <3>10 DEF HostLive
        <4>2. ASSUME NEW s \in HostSpots, HostLive(g, s)'
              PROVE  HostLive(g, s) /\ HostId(g, s)' = HostId(g, s)
          <5>1. s # q
            BY <4>1, <4>2, Zenon
          <5> QED
            BY <1>1, <2>15, <3>7, <3>10, <4>2, <5>1, HostSpotWas, Zenon
        <4> QED
          BY <4>1, <4>2, Zenon DEF FabricInv, HostInv
      <3> QED
        BY <2>11, <2>12, <3>3, <3>4, <3>9, <3>10, Zenon DEF FabricInv
    <2> QED
      BY <2>16, <2>17, Zenon
  <1> QED
    BY <1>1, <1>3, <1>4, Zenon

\* An object is taken from those pending.
Unfiled(N) == DOMAIN pend' = DOMAIN pend \ {N} /\ \A i \in DOMAIN pend \ {N} : pend'[i] = pend[i]

\* The interconnect passes on a completion of a memory, whose Pending object is there.
LEMMA DevicePollKeeps ==
  ASSUME FabricInv, NEW d \in Devices, DevicePoll(d)
  PROVE  FabricInv'
  <1> PICK m : m = Front(ring[Comp(d)])
    OBVIOUS
  <1>1. /\ Ready(ring[Comp(d)]) /\ (m.req \in DOMAIN pend => CompletePending(d, m) \/ Throw)
        /\ cfg' = cfg /\ table' = table /\ sw' = sw /\ issued' = issued /\ answers' = answers
    BY Zenon DEF DevicePoll
  <1>2. /\ cfg \in Configs /\ Rings /\ TypeInv /\ issued \in [Hosts -> Nat] /\ Comp(d) \in Links
    BY LinkTypes, Zenon DEF FabricInv, TypeInv, Rings, Inner
  <1>5. /\ <<Comp(d), ring[Comp(d)].inp>> \in Spots /\ <<Comp(d), ring[Comp(d)].inp>> # TheSwitch
        /\ Msg(<<Comp(d), ring[Comp(d)].inp>>) = m /\ IsComp(m) /\ m # Free
    BY <1>1, <1>2, FrontGood, GoodMsg, Zenon
  <1> PICK p \in Spots : p = <<Comp(d), ring[Comp(d)].inp>>
    BY <1>5, Zenon
  <1>6. Live(p) /\ Id(p) = m.req /\ Msg(p) = m
    <2>1. p[1] = Comp(d)
      OBVIOUS
    <2> QED
      BY <1>5, <2>1, Zenon DEF Live, Id
  <1>7. Fits(m.req, m.op)
    BY <1>6, Zenon DEF FabricInv, TokenInv
  <1>3. CASE Throw
    BY <1>1, <1>3, NothingKeeps, Zenon DEF Throw, Others
  <1>4. CASE CompletePending(d, m)
    <2> PICK N : N = m.req
      OBVIOUS
    <2>4. /\ N \in DOMAIN pend /\ N \in Nat /\ pend[N] \in [host : Hosts, req : Nat]
          /\ pend[N].req \in 1 .. issued[pend[N].host]
          /\ Op(pend[N].host, pend[N].req).kind \in Kinds
      BY <1>7 DEF Fits, FabricInv, PendInv
    <2> PICK h \in Hosts : h = pend[N].host
      BY <2>4
    <2> PICK n \in Nat : n = pend[N].req
      BY <2>4, SMTT(30)
    <2>5. m.op = Completion(Op(h, n).kind)
      <3>1. m.op \in Comps /\ Kind(N) \in Kinds /\ Kind(N) = Op(h, n).kind
        BY <1>5, <2>4 DEF IsComp, Kind
      <3>2. m.op \in {Kind(N), Completion(Kind(N))}
        BY <1>7, ZenonT(30) DEF Fits
      <3>3. m.op # Kind(N)
        BY <3>1 DEF Kinds, Comps
      <3> QED
        BY <3>1, <3>2, <3>3, Zenon
    <2> PICK k : k = [m EXCEPT !.req = n]
      BY Zenon
    <2>6. /\ CanAlloc(ring[Comp(h)]) /\ PassOn(Comp(d), Comp(h), k)
          /\ pend' = Without(pend, N)
      BY <1>4, Zenon DEF CompletePending
    <2>7. Unfiled(N)
      BY <2>6 DEF Unfiled, Without
    <2>8. IsComp(k) /\ k.op = m.op /\ k.req = n
      BY <1>5 DEF IsComp
    <2>9. IsComp(k) /\ HostComp(h, k)
      BY <2>4, <2>5, <2>8, Zenon DEF HostComp
    <2>10. /\ Comp(h) \in Links /\ Comp(h) # Comp(d) /\ \A x \in Ports : Comp(d) # Up(x)
           /\ \A g \in Hosts : Comp(d) # Req(g) /\ Comp(d) # Comp(g)
           /\ Req(h) \in Links /\ Req(h) # Comp(h)
      BY LinkTypes, Apart, Zenon DEF Inner
    <2>11. Rings' /\ Passed(Comp(d), Comp(h), k)
      BY <1>1, <1>2, <2>6, <2>10, PassedOn, Zenon
    <2>12. Grows /\ Slots' = Slots /\ \A g \in Hosts : issued'[g] <= Len(cfg.prog[g])
      BY <1>1 DEF Grows, FabricInv, TypeInv, Slots
    <2>13. TypeInv'
      <3>1. MsgOK(Comp(h), k)
        BY <2>9, GoodMsg, Zenon
      <3>2. MsgOK(Comp(h), k)'
        BY <1>2, <2>12, <3>1, MsgStays, Zenon
      <3>3. ASSUME NEW l \in Links, NEW j \in Slots
            PROVE  ring'[l].slot[j] \in {Free, ring[l].slot[j]} \/ MsgOK(l, ring[l].slot[j])'
        <4>1. ring'[l].slot[j] \in {Free, ring[l].slot[j]} \/ (l = Comp(h) /\ ring'[l].slot[j] = k)
          BY <2>11, Zenon DEF Passed
        <4> QED
          BY <3>2, <4>1, Zenon
      <3> QED
        BY <1>1, <1>2, <2>11, <2>12, <3>3, TypeKeeps, Zenon
    <2>14. SwitchInv'
      BY <1>1, <1>2, <2>6, <2>10, <2>11, PassSwitch, Zenon
    <2>15. PendInv'
      <3>1. DOMAIN pend' \subseteq Nat \ {0}
        BY <2>7 DEF Unfiled, FabricInv, PendInv
      <3>2. ASSUME NEW i \in DOMAIN pend'
            PROVE  /\ pend'[i] \in [host : Hosts, req : Nat]
                   /\ pend'[i].req \in 1 .. issued[pend'[i].host]
                   /\ cfg.prog[pend'[i].host][pend'[i].req].kind \in Kinds
        <4>1. i \in DOMAIN pend /\ pend'[i] = pend[i]
          BY <2>7 DEF Unfiled
        <4> QED
          BY <4>1, Zenon DEF FabricInv, PendInv, Op
      <3> QED
        BY <1>1, <3>1, <3>2, Zenon DEF PendInv, Op
    <2>16. TokenInv'
      <3>1. Spots' = Spots
        BY <1>1, Zenon DEF Spots, Slots
      <3>2. ASSUME NEW a \in Spots, a = <<Comp(h), ring[Comp(h)].outp>> PROVE ~Live(a)'
        <4>1. a[1] = Comp(h) /\ a # TheSwitch
          <5>1. \A l \in Links : \A j : <<l, j>> # TheSwitch
            BY DEF TheSwitch, Links
          <5> QED
            BY <2>10, <3>2, <5>1, Zenon
        <4>2. /\ \A c \in Devices : a[1] # Req(c) /\ a[1] # Comp(c)
              /\ \A x \in Ports : a[1] # Up(x) /\ a[1] # Dn(x)
          BY <4>1, LinkTypes, Zenon DEF Inner
        <4> QED
          BY <4>1, <4>2, ZenonT(30) DEF Live
      <3>3. ASSUME NEW a \in Spots, Live(a)'
            PROVE  Live(a) /\ a # p /\ Id(a)' = Id(a) /\ Msg(a)'.op = Msg(a).op
        <4>1. a # <<Comp(h), ring[Comp(h)].outp>>
          BY <3>2, <3>3, Zenon
        <4> QED
          BY <1>1, <1>2, <2>10, <2>11, <3>3, <4>1, PassSpots, ZenonT(30)
      <3>4. \A x, y \in Spots : Live(x) /\ Live(y) /\ Id(x) = Id(y) => x = y
        BY Zenon DEF FabricInv, TokenInv
      <3>5. ASSUME NEW a \in Spots, Live(a)' PROVE Fits(Id(a), Msg(a).op)'
        <4>1. Live(a) /\ a # p /\ Id(a)' = Id(a) /\ Msg(a)'.op = Msg(a).op
          BY <3>3, <3>5, Zenon
        <4>2. Fits(Id(a), Msg(a).op) /\ Id(a) # N
          BY <1>6, <3>4, <4>1, Zenon DEF FabricInv, TokenInv
        <4> PICK j : j = Id(a)
          OBVIOUS
        <4> PICK u : u = Msg(a).op
          OBVIOUS
        <4>3. j \in DOMAIN pend' /\ pend'[j] = pend[j]
          BY <2>7, <4>2 DEF Unfiled, Fits
        <4>4. Fits(j, u)'
          BY <1>1, <4>2, <4>3, Zenon DEF Fits, Kind, Op
        <4> QED
          BY <4>1, <4>4, Zenon
      <3> QED
        BY <3>1, <3>3, <3>4, <3>5, Zenon DEF TokenInv
    <2>17. ASSUME NEW s \in HostSpots, s[1] = "pend", s[2] \in DOMAIN pend'
           PROVE  s[2] \in DOMAIN pend /\ pend'[s[2]] = pend[s[2]]
      BY <2>7, <2>17 DEF Unfiled
    <2>18. ASSUME NEW g \in Hosts, g # h PROVE HostInv(g)'
      <3>1. Req(g) \in Links /\ Req(g) # Comp(h) /\ Req(g) # Comp(d)
        BY <2>10, LinkTypes, Apart, Zenon
      <3>2. Comp(g) \in Links /\ Comp(g) # Comp(h) /\ Comp(g) # Comp(d)
        BY <2>10, <2>18, LinkTypes, Apart, Zenon
      <3>3. \A j \in Slots : ring'[Req(g)].slot[j] = ring[Req(g)].slot[j]
        BY <2>11, <3>1, Zenon DEF Passed
      <3>4. \A j \in Slots : ring'[Comp(g)].slot[j] = ring[Comp(g)].slot[j]
        BY <2>11, <3>2, Zenon DEF Passed
      <3>5. ASSUME NEW s \in HostSpots, HostLive(g, s)'
            PROVE  HostLive(g, s) /\ HostId(g, s)' = HostId(g, s)
        BY <1>1, <2>17, <3>3, <3>4, <3>5, HostSpotWas, Zenon
      <3> QED
        BY <3>5, Zenon DEF FabricInv, HostInv
    <2>19. HostInv(h)'
      <3>1. ring[Comp(h)].outp \in Slots /\ Slots \subseteq Nat
        BY <1>2, <2>10 DEF Rings, RingOK, Slots
      <3> PICK a \in HostSpots : a = <<"pend", N>>
        BY <2>4, Zenon DEF HostSpots
      <3> PICK q \in HostSpots : q = <<"comp", ring[Comp(h)].outp>>
        BY <3>1, ZenonT(30) DEF HostSpots
      <3>2. a[1] = "pend" /\ a[2] = N /\ q[1] = "comp" /\ q[2] = ring[Comp(h)].outp
        OBVIOUS
      <3>3. HostLive(h, a) /\ HostId(h, a) = n /\ ~HostLive(h, a)'
        BY <2>4, <2>7, <3>2 DEF HostLive, HostId, Unfiled
      <3>4. HostId(h, q)' = n
        <4>1. ring'[Comp(h)].slot[q[2]] = k
          BY <2>11, <3>2, Zenon DEF Passed
        <4> QED
          BY <2>8, <3>2, <4>1, Zenon DEF HostId
      <3>5. ASSUME NEW s \in HostSpots, s # q, HostLive(h, s)'
            PROVE  HostLive(h, s) /\ s # a /\ HostId(h, s)' = HostId(h, s)
        <4>5. s = <<s[1], s[2]>>
          BY HostSpot, Zenon
        <4>1. s[1] = "comp" => s[2] # ring[Comp(h)].outp
          BY <3>5, <4>5, Zenon
        <4>2. s[1] = "comp" => (s[2] \in Slots => ring'[Comp(h)].slot[s[2]] = ring[Comp(h)].slot[s[2]])
          BY <2>10, <2>11, <4>1, Zenon DEF Passed
        <4>3. \A j \in Slots : ring'[Req(h)].slot[j] = ring[Req(h)].slot[j]
          BY <2>10, <2>11, Zenon DEF Passed
        <4>4. HostLive(h, s) /\ HostId(h, s)' = HostId(h, s)
          BY <1>1, <2>17, <3>5, <4>2, <4>3, HostSpotWas, Zenon
        <4> QED
          BY <3>3, <3>5, <4>4, Zenon
      <3>6. HostInv(h) /\ HostId(h, q)' = HostId(h, a)
        BY <3>3, <3>4, Zenon DEF FabricInv
      <3>7. HostLive(h, a)
        BY <3>3, Zenon
      <3>8. \A s \in HostSpots : s # q /\ HostLive(h, s)' =>
              HostLive(h, s) /\ s # a /\ HostId(h, s)' = HostId(h, s)
        BY <3>5, Zenon
      <3>9. \A b, c \in HostSpots : HostLive(h, b) /\ HostLive(h, c) /\ HostId(h, b) = HostId(h, c) => b = c
        BY <3>6, Zenon DEF HostInv
      <3>10. ASSUME NEW s \in HostSpots, NEW t \in HostSpots, HostLive(h, s)', HostLive(h, t)',
                    HostId(h, s)' = HostId(h, t)'
             PROVE  s = t
        <4>1. CASE s # q /\ t # q
          BY <3>8, <3>9, <3>10, <4>1, Zenon
        <4>2. CASE s = q /\ t # q
          BY <3>6, <3>7, <3>8, <3>9, <3>10, <4>2, Zenon
        <4>3. CASE s # q /\ t = q
          BY <3>6, <3>7, <3>8, <3>9, <3>10, <4>3, Zenon
        <4> QED
          BY <4>1, <4>2, <4>3, Zenon
      <3> QED
        BY <3>10, Zenon DEF HostInv
    <2> QED
      BY <2>13, <2>14, <2>15, <2>16, <2>18, <2>19, Zenon DEF FabricInv
  <1>8. m.req \in DOMAIN pend
    BY <1>7, Zenon DEF Fits
  <1> QED
    BY <1>1, <1>3, <1>4, <1>8, Zenon

-----------------------------------------------------------------------------
(* The theorems. *)

\* At the start there is no message.
LEMMA FabricInit == Init => FabricInv
  <1> SUFFICES ASSUME Init PROVE FabricInv
    OBVIOUS
  <1>1. /\ cfg \in Configs /\ cfg.cap \in Nat \ {0} /\ ring = [l \in Links |-> NewRing(cfg.cap)]
        /\ pend = <<>> /\ table = cfg.static /\ sw = Idle
        /\ issued = [h \in Hosts |-> 0] /\ answers = [h \in Hosts |-> <<>>]
        /\ DOMAIN cfg.static \subseteq Netmems /\ cfg.ports \subseteq Ports
        /\ \A x \in DOMAIN cfg.static : cfg.static[x] \in cfg.ports
        /\ Memnics \cap Netmems = {}
    BY FabricAssumption DEF Init
  <1>2. \A l \in Links : /\ RingOK(ring[l]) /\ \A j \in Slots : ring[l].slot[j] = Free
    <2> PICK r : r = NewRing(cfg.cap)
      OBVIOUS
    <2>1. RingOK(r) /\ \A j \in Slots : r.slot[j] = Free
      <3>1. 0 \in Slots
        BY <1>1 DEF Slots
      <3>2. r = [slot |-> [i \in Slots |-> Free], inp |-> 0, outp |-> 0]
        BY Zenon DEF NewRing, Slots
      <3> HIDE DEF Slots
      <3> QED
        BY <3>1, <3>2 DEF RingOK
    <2>2. \A l \in Links : ring[l] = r
      BY <1>1
    <2> QED
      BY <2>1, <2>2, Zenon
  <1>3. DOMAIN ring = Links /\ DOMAIN pend = {}
    BY <1>1
  <1>4. /\ issued \in [Hosts -> Nat] /\ DOMAIN answers = Hosts
        /\ \A h \in Hosts : issued[h] = 0 /\ answers[h] = <<>>
    BY <1>1
  <1>5. ASSUME NEW h \in Hosts PROVE 0 <= Len(cfg.prog[h])
    <2> DEFINE R == [kind : {"read", "write", "posted"}, addr : Nat]
    <2>1. cfg.prog \in [Hosts -> Seq(R)]
      BY <1>1, FabricAssumption, Zenon
    <2> HIDE DEF R
    <2>2. cfg.prog[h] \in Seq(R)
      BY <2>1
    <2> QED
      BY <2>2
  <1>6. Answers
    <2>1. <<>> \in Seq({}) /\ DOMAIN <<>> = {}
      OBVIOUS
    <2> QED
      BY <1>4, <2>1, Zenon DEF Answers
  <1>7. TypeInv
    BY <1>1, <1>2, <1>3, <1>4, <1>5, <1>6, Zenon DEF TypeInv
  <1>8. SwitchInv
    BY <1>1 DEF SwitchInv, TableOK, Ports
  <1>9. PendInv
    BY <1>3 DEF PendInv
  <1>10. ASSUME NEW a \in Spots PROVE ~Live(a)
    <2>1. CASE a = TheSwitch
      BY <1>1, <2>1, Zenon DEF Live
    <2>2. CASE a # TheSwitch
      <3>1. Msg(a) = Free
        BY <1>2, <2>2 DEF Spots, Msg
      <3> QED
        BY <2>2, <3>1, Zenon DEF Live
    <2> QED
      BY <2>1, <2>2, Zenon
  <1>11. TokenInv
    BY <1>10, Zenon DEF TokenInv
  <1>12. ASSUME NEW h \in Hosts, NEW s \in HostSpots PROVE ~HostLive(h, s)
    <2>1. /\ \A j \in Slots : ring[Req(h)].slot[j] = Free /\ ring[Comp(h)].slot[j] = Free
          /\ DOMAIN answers[h] = {}
      BY <1>2, <1>4, LinkTypes
    <2> QED
      BY <1>3, <2>1 DEF HostLive
  <1>13. ASSUME NEW h \in Hosts PROVE HostInv(h)
    BY <1>12, Zenon DEF HostInv
  <1> QED
    BY <1>7, <1>8, <1>9, <1>11, <1>13, Zenon DEF FabricInv

\* Every step keeps the invariant, unless it floods a request to several netmems.
LEMMA FabricNext == FabricInv /\ [Next]_vars => forked' \/ FabricInv'
  <1> SUFFICES ASSUME FabricInv, [Next]_vars, ~forked' PROVE FabricInv'
    OBVIOUS
  <1>1. CASE UNCHANGED vars
    <2>1. Others /\ ring' = ring
      BY <1>1 DEF vars, Others
    <2> QED
      BY <2>1, NothingKeeps, Zenon
  <1>2. ASSUME NEW h \in Hosts, HostIssue(h) PROVE FabricInv'
    BY <1>2, IssueKeeps, Zenon
  <1>3. ASSUME NEW h \in Hosts, HostComplete(h) PROVE FabricInv'
    BY <1>3, CompleteKeeps, Zenon
  <1>4. ASSUME NEW h \in Hosts, HostPoll(h) PROVE FabricInv'
    BY <1>4, HostPollKeeps, Zenon
  <1>5. ASSUME NEW d \in Devices, DevicePoll(d) PROVE FabricInv'
    BY <1>5, DevicePollKeeps, Zenon
  <1>6. ASSUME NEW b \in BasicMems, BasicPoll(b) PROVE FabricInv'
    BY <1>6, BasicKeeps, Zenon
  <1>7. ASSUME NEW x \in Memnics, MemnicPollH2M(x) PROVE FabricInv'
    BY <1>7, H2MKeeps, Zenon
  <1>8. ASSUME NEW x \in Memnics, MemnicPollN2M(x) PROVE FabricInv'
    BY <1>8, N2MKeeps, Zenon
  <1>9. ASSUME NEW x \in Ports, SwitchPkt(x) PROVE FabricInv'
    BY <1>9, SwitchPktKeeps, Zenon
  <1>10. CASE TxPacket
    BY <1>10, TxPacketKeeps, Zenon
  <1>11. ASSUME NEW x \in Netmems, NetmemPollN2M(x) PROVE FabricInv'
    BY <1>11, NetmemKeeps, Zenon
  <1> QED
    BY <1>1, <1>2, <1>3, <1>4, <1>5, <1>6, <1>7, <1>8, <1>9, <1>10, <1>11, Zenon DEF Next

\* What has been flooded cannot be taken back.
LEMMA ForkedStays == forked /\ [Next]_vars => forked'
  <1> SUFFICES ASSUME forked, [Next]_vars PROVE forked'
    OBVIOUS
  <1>1. CASE UNCHANGED vars
    BY <1>1 DEF vars
  <1>2. ASSUME NEW h \in Hosts, HostIssue(h) \/ HostComplete(h) \/ HostPoll(h) PROVE forked'
    BY <1>2, Zenon DEF HostIssue, HostComplete, HostPoll
  <1>3. ASSUME NEW d \in Devices, DevicePoll(d) PROVE forked'
    BY <1>3, Zenon DEF DevicePoll
  <1>4. ASSUME NEW b \in BasicMems, BasicPoll(b) PROVE forked'
    BY <1>4, Zenon DEF BasicPoll
  <1>5. ASSUME NEW x \in Memnics, MemnicPollH2M(x) \/ MemnicPollN2M(x) PROVE forked'
    BY <1>5, Zenon DEF MemnicPollH2M, MemnicPollN2M
  <1>6. ASSUME NEW x \in Ports, SwitchPkt(x) PROVE forked'
    <2>1. PICK known, e : Forward(x, known, e)
      BY <1>6, Zenon DEF SwitchPkt
    <2> QED
      BY <2>1, Zenon DEF Forward
  <1>7. CASE TxPacket
    BY <1>7, Zenon DEF TxPacket
  <1>8. ASSUME NEW x \in Netmems, NetmemPollN2M(x) PROVE forked'
    BY <1>8, Zenon DEF NetmemPollN2M
  <1> QED
    BY <1>1, <1>2, <1>3, <1>4, <1>5, <1>6, <1>7, <1>8, Zenon DEF Next

\* What the invariant says of completions.
LEMMA FabricImplies == FabricInv => Matched
  <1> SUFFICES ASSUME FabricInv PROVE Matched
    OBVIOUS
  <1>1. ASSUME NEW h \in Hosts, NEW i \in DOMAIN answers[h]
        PROVE  /\ answers[h][i].req \in 1 .. issued[h]
               /\ Op(h, answers[h][i].req).kind # "posted"
               /\ answers[h][i].op = Completion(Op(h, answers[h][i].req).kind)
               /\ \A j \in DOMAIN answers[h] : answers[h][j].req = answers[h][i].req => i = j
    <2>1. HostComp(h, answers[h][i])
      BY Zenon DEF FabricInv, TypeInv, Answers
    <2>2. Op(h, answers[h][i].req).kind # "posted"
      BY <2>1 DEF HostComp, Kinds
    <2>3. ASSUME NEW j \in DOMAIN answers[h], answers[h][j].req = answers[h][i].req PROVE i = j
      <3>1. i \in Nat /\ j \in Nat
        <4> PICK S : answers[h] \in Seq(S)
          BY Zenon DEF FabricInv, TypeInv, Answers
        <4> QED
          OBVIOUS
      <3> PICK s \in HostSpots : s = <<"ans", i>>
        BY <3>1, Zenon DEF HostSpots
      <3> PICK t \in HostSpots : t = <<"ans", j>>
        BY <3>1, Zenon DEF HostSpots
      <3>2. s[1] = "ans" /\ s[2] = i /\ t[1] = "ans" /\ t[2] = j
        OBVIOUS
      <3>3. HostLive(h, s) /\ HostLive(h, t)
        BY <3>2, Zenon DEF HostLive
      <3>4. HostId(h, s) = HostId(h, t)
        BY <2>3, <3>2 DEF HostId
      <3>5. s = t
        BY <3>3, <3>4, Zenon DEF FabricInv, HostInv
      <3> QED
        BY <3>2, <3>5, Zenon
    <2> QED
      BY <2>1, <2>2, <2>3, Zenon DEF HostComp
  <1>2. ASSUME NEW d \in Devices, NEW i \in InFlight(Comp(d))
        PROVE  /\ <<Comp(d), i>> \in Spots /\ Live(<<Comp(d), i>>)
               /\ Msg(<<Comp(d), i>>) = ring[Comp(d)].slot[i]
    <2>1. Comp(d) \in Links
      BY LinkTypes, Zenon DEF Inner
    <2>2. i \in Slots /\ ring[Comp(d)].slot[i] # Free
      BY <2>1 DEF InFlight, FabricInv, TypeInv, RingOK
    <2> PICK a : a = <<Comp(d), i>>
      BY Zenon
    <2>3. a[1] = Comp(d) /\ a[2] = i /\ a \in Spots
      BY <2>1, <2>2 DEF Spots
    <2>4. a # TheSwitch
      <3>1. \A l \in Links : \A j : <<l, j>> # TheSwitch
        BY DEF TheSwitch, Links
      <3> QED
        BY <2>1, <3>1
    <2>5. Msg(a) = ring[Comp(d)].slot[i]
      BY <2>3, <2>4, Zenon DEF Msg
    <2>6. Live(a)
      BY <2>2, <2>3, <2>4, <2>5, Zenon DEF Live
    <2> QED
      BY <2>3, <2>5, <2>6, Zenon
  <1>3. ASSUME NEW d \in Devices, NEW i \in InFlight(Comp(d))
        PROVE  /\ ring[Comp(d)].slot[i].req \in DOMAIN pend
               /\ \A e \in Devices : \A j \in InFlight(Comp(e)) :
                    ring[Comp(e)].slot[j].req = ring[Comp(d)].slot[i].req => e = d /\ j = i
    <2>1. ring[Comp(d)].slot[i].req \in DOMAIN pend
      BY <1>2, Zenon DEF FabricInv, TokenInv, Fits, Id
    <2>2. ASSUME NEW e \in Devices, NEW j \in InFlight(Comp(e)),
                 ring[Comp(e)].slot[j].req = ring[Comp(d)].slot[i].req
          PROVE  e = d /\ j = i
      <3> PICK a \in Spots : a = <<Comp(d), i>>
        BY <1>2, Zenon
      <3> PICK b \in Spots : b = <<Comp(e), j>>
        BY <1>2, Zenon
      <3>1. Live(a) /\ Live(b) /\ Id(a) = Id(b)
        BY <1>2, <2>2, Zenon DEF Id
      <3>2. a = b
        BY <3>1, Zenon DEF FabricInv, TokenInv
      <3>3. Comp(d) = Comp(e) /\ i = j
        BY <3>2
      <3> QED
        BY <3>3, Apart, Zenon
    <2> QED
      BY <2>1, <2>2, Zenon
  <1> QED
    BY <1>1, <1>3, Zenon DEF Matched

\* Until the memswitch floods a request to several netmems, and whatever is lost or put
\* off: every request of a host is in one place at a time, and so is every request that
\* the interconnect has passed on, as the request or as the completion of a Pending
\* object that is alive (Device::Poll, switch_pkt).
THEOREM FabricInvariant == Spec => [](forked \/ FabricInv)
  BY FabricInit, FabricNext, ForkedStays, PTL DEF Spec

\* Until the memswitch floods a request to several netmems, a host only gets completions
\* of its own requests, of the right kind and none twice; a completion on its way to the
\* interconnect names a Pending object that is alive (Device::Poll, CompletePendingR,
\* CompletePendingW).
THEOREM FabricMatching == Spec => []Matching
  <1>1. forked \/ FabricInv => Matching
    BY FabricImplies DEF Matching
  <1> QED
    BY <1>1, FabricInvariant, PTL

=============================================================================
