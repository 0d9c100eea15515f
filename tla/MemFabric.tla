------------------------------ MODULE MemFabric ------------------------------
(***************************************************************************)
(* The memory simulators, put together as a disaggregated-memory system:   *)
(*                                                                         *)
(*   hosts -- interconnect -- basicmem                                     *)
(*                         \- memnic -- memswitch -- netmem                *)
(*                                                                         *)
(* Hosts (not in the repository) issue reads, writes and posted writes,    *)
(* several at a time.  The interconnect maps the address to a device and   *)
(* keeps a Pending object whose address is the request id it uses towards  *)
(* the device.  A memnic turns a request into a packet, the memswitch maps *)
(* its address to a netmem, and the answer takes the way back.  Accesses   *)
(* are one cell long; lengths, headers and as_id (always 0 behind the      *)
(* interconnect) are left out.                                             *)
(*                                                                         *)
(* Every link is a pair of rings of cfg.cap slots.  The simulators differ  *)
(* in what they do when the ring they write to is full: wait (basicmem,    *)
(* the synchronised memswitch), lose the message (memnic, memswitch -u),   *)
(* come back to the request later and out of order (netmem), or end with   *)
(* an uncaught exception (interconnect).                                   *)
(***************************************************************************)
EXTENDS Naturals, Sequences, FiniteSets

CONSTANTS
  Hosts, BasicMems, Memnics, Netmems,
  Routes,      \* map_table of the interconnect: sequence of [start, end, phys, dev]
  MapTable,    \* map_table of the memswitch: sequence of [start, end, phys, node]
  Cells,       \* the physical addresses of a memory
  Home,        \* the layout meant: address -> <<memory, cell>>
  Configs,     \* set of [cap, sync, ports, static, prog, window]
  MaxPending   \* bound: Pending objects at a time

Devices == BasicMems \cup Memnics
Ports   == Memnics \cup Netmems

(* The simulators are different processes.  A static MAC entry is made for a     *)
(* netmem whose number is part of the name of a port's socket; whether it is the *)
(* right port depends on the order of the options, and there may be none.        *)
ASSUME FabricAssumption ==
  /\ Routes \in Seq([start : Nat, end : Nat, phys : Nat, dev : Devices])
  /\ MapTable \in Seq([start : Nat, end : Nat, phys : Nat, node : Netmems])
  /\ Hosts \cap Devices = {} /\ BasicMems \cap Memnics = {} /\ Memnics \cap Netmems = {}
  /\ "bcast" \notin Ports /\ MaxPending \in Nat
  /\ \A c \in Configs :
       /\ c.cap \in Nat \ {0} /\ c.ports \subseteq Ports
       /\ DOMAIN c.static \subseteq Netmems /\ \A x \in DOMAIN c.static : c.static[x] \in c.ports
       /\ c.prog \in [Hosts -> Seq([kind : {"read", "write", "posted"}, addr : Nat])]

VARIABLES
  cfg,       \* ring size, synchronisation, the memswitch's ports and its static
             \* MAC entries, the hosts' programs and how much they pipeline
  ring,      \* the rings, named by direction and by who is at the far end
  pend,      \* the live Pending objects: id -> [host, req]
  down,      \* the interconnect has ended on an exception
  table,     \* mac_table of the memswitch: MAC (named by its owner) -> port
  sw,        \* the packet the memswitch is forwarding, and where it has yet to go
  store,     \* mem_array of each memory
  issued,    \* operations each host has issued
  answers,   \* the completions each host has received, in order
  before,    \* history: what was complete when each operation was issued
  lost,      \* history: a message was dropped, or put off, for want of a slot
  stray,     \* history: a request was sent to a netmem that it is not for
  forked     \* history: a request was sent to several netmems

vars == <<cfg, ring, pend, down, table, sw, store, issued, answers, before, lost, stray, forked>>

(***************************************************************************)
(* Rings.  A slot holds a message (owned by the consumer) or Free (owned   *)
(* by the producer).  Allocating advances outp, polling advances inp.      *)
(***************************************************************************)
Free == [op |-> "free"]

NewRing(n) == [slot |-> [i \in 0..(n - 1) |-> Free], inp |-> 0, outp |-> 0]

Succ(i) == (i + 1) % cfg.cap

CanAlloc(r) == r.slot[r.outp] = Free
OutAlloc(r) == [r EXCEPT !.outp = Succ(@)]
OutSend(r, m) == [OutAlloc(r) EXCEPT !.slot[r.outp] = m]

Ready(r)  == r.slot[r.inp] # Free
Front(r)  == r.slot[r.inp]
InPoll(r) == [r EXCEPT !.inp = Succ(@)]
InDone(r) == [InPoll(r) EXCEPT !.slot[r.inp] = Free]

(* The message at the front of ring i is consumed and m is sent on ring o. *)
PassOn(i, o, m) == ring' = [ring EXCEPT ![i] = InDone(@), ![o] = OutSend(@, m)]

Consume(i) == ring' = [ring EXCEPT ![i] = InDone(@)]

Req(x)  == <<"req", x>>     \* host to interconnect, interconnect to device
Comp(x) == <<"comp", x>>    \* and back
Up(x)   == <<"up", x>>      \* memnic or netmem to memswitch
Dn(x)   == <<"dn", x>>      \* and back

Links == {<<k, x>> : k \in {"req", "comp"}, x \in Hosts \cup Devices}
         \cup {<<k, x>> : k \in {"up", "dn"}, x \in Ports}

Completion(kind) == IF kind = "read" THEN "readcomp" ELSE "writecomp"

(***************************************************************************)
(* The hosts.                                                              *)
(***************************************************************************)
Op(h, n) == cfg.prog[h][n]

Answered(h) == {answers[h][i].req : i \in DOMAIN answers[h]}

AllAnswers == UNION {{<<h, n>> : n \in Answered(h)} : h \in Hosts}

Waiting(h) == {n \in 1..issued[h] : Op(h, n).kind # "posted" /\ n \notin Answered(h)}

HostIssue(h) ==
  LET n == issued[h] + 1 IN
  /\ n \in DOMAIN cfg.prog[h]
  /\ Cardinality(Waiting(h)) < cfg.window
  /\ CanAlloc(ring[Req(h)])
  /\ ring' = [ring EXCEPT ![Req(h)] =
                OutSend(@, [op |-> Op(h, n).kind, req |-> n, addr |-> Op(h, n).addr,
                            val |-> <<h, n>>])]
  /\ issued' = [issued EXCEPT ![h] = n]
  /\ before' = [before EXCEPT ![h] = Append(@, AllAnswers)]
  /\ UNCHANGED <<cfg, pend, down, table, sw, store, answers, lost, stray, forked>>

HostComplete(h) ==
  /\ Ready(ring[Comp(h)])
  /\ Consume(Comp(h))
  /\ answers' = [answers EXCEPT ![h] = Append(@, Front(ring[Comp(h)]))]
  /\ UNCHANGED <<cfg, pend, down, table, sw, store, issued, before, lost, stray, forked>>

(***************************************************************************)
(* interconnect                                                            *)
(***************************************************************************)
(* The first entry of a table among those that match, if any. *)
First(t, hits) == {t[i] : i \in {i \in hits : \A j \in hits : i <= j}}

(* The first range that holds the address, its end not included. *)
Lookup(a) == First(Routes, {i \in DOMAIN Routes : Routes[i].start <= a /\ a < Routes[i].end})

(* Mutant: ids are numbered by how many are in use. *)
NextId == Cardinality(DOMAIN pend) + 1

(* `new Pending` may reuse the address of a deleted one. *)
NewId == CHOOSE i \in 1..MaxPending : i \notin DOMAIN pend

Without(f, i) == [j \in DOMAIN f \ {i} |-> f[j]]

(* A full ring is an exception nobody catches, and so is an address without a *)
(* device: the process ends.                                                  *)
Throw == /\ down' = TRUE
         /\ lost' = TRUE
         /\ UNCHANGED <<ring, pend>>

(* Device::Read, Device::Write: on to the device under the new id.  A posted *)
(* write needs none: its Pending object is deleted at once.                  *)
DeviceSend(h, m, e) ==
  LET q == [m EXCEPT !.addr = e.phys + (m.addr - e.start),
                     !.req  = IF m.op = "posted" THEN 0 ELSE NewId]
  IN /\ CanAlloc(ring[Req(e.dev)])
     /\ m.op = "posted" \/ \E i \in 1..MaxPending : i \notin DOMAIN pend
     /\ PassOn(Req(h), Req(e.dev), q)
     /\ pend' = IF m.op = "posted" THEN pend
                ELSE [i \in DOMAIN pend \cup {NewId} |->
                        IF i = NewId THEN [host |-> h, req |-> m.req] ELSE pend[i]]
     /\ UNCHANGED <<down, lost>>

HostPoll(h) ==
  LET m == Front(ring[Req(h)]) IN
  /\ ~down
  /\ Ready(ring[Req(h)])
  /\ \/ \E e \in Lookup(m.addr) : DeviceSend(h, m, e)
     \/ \E e \in Lookup(m.addr) : ~CanAlloc(ring[Req(e.dev)]) /\ Throw
     \/ Lookup(m.addr) = {} /\ Throw
  /\ UNCHANGED <<cfg, table, sw, store, issued, answers, before, stray, forked>>

(* CompletePendingR, CompletePendingW *)
CompletePending(d, m) ==
  LET p == pend[m.req] IN
  /\ CanAlloc(ring[Comp(p.host)])
  /\ PassOn(Comp(d), Comp(p.host), [m EXCEPT !.req = p.req])
  /\ pend' = Without(pend, m.req)
  /\ UNCHANGED <<down, lost>>

(* The object has been deleted before: the process ends, or what is left of the *)
(* object takes the completion to some host.                                   *)
UseAfterFree(d, m) ==
  \/ Throw
  \/ \E h \in Hosts : \E n \in 1..issued[h] :
       /\ CanAlloc(ring[Comp(h)])
       /\ PassOn(Comp(d), Comp(h), [m EXCEPT !.req = n])
       /\ UNCHANGED <<pend, down, lost>>

(* The id of a completion names the Pending object. *)
DevicePoll(d) ==
  LET m == Front(ring[Comp(d)]) IN
  /\ ~down
  /\ Ready(ring[Comp(d)])
  /\ \/ m.req \in DOMAIN pend /\ CompletePending(d, m)
     \/ m.req \in DOMAIN pend /\ ~CanAlloc(ring[Comp(pend[m.req].host)]) /\ Throw
     \/ m.req \notin DOMAIN pend /\ UseAfterFree(d, m)
  /\ UNCHANGED <<cfg, table, sw, store, issued, answers, before, stray, forked>>

(***************************************************************************)
(* basicmem.  M2HAlloc waits for a slot.  A write is stored before that    *)
(* wait, which nobody can see: only basicmem reads its memory.             *)
(***************************************************************************)
Reply(m, s) ==
  [op |-> Completion(m.op), req |-> m.req, val |-> IF m.op = "read" THEN s[m.addr] ELSE <<>>]

Stored(m, s) == IF m.op = "read" THEN s ELSE [s EXCEPT ![m.addr] = m.val]

(* Mutant: every write is taken for a posted one. *)
BasicPollSilent(b) ==
  LET m == Front(ring[Req(b)]) IN
  /\ Ready(ring[Req(b)])
  /\ \/ m.op # "read" /\ Consume(Req(b))
     \/ m.op = "read" /\ CanAlloc(ring[Comp(b)]) /\ PassOn(Req(b), Comp(b), Reply(m, store[b]))
  /\ store' = [store EXCEPT ![b] = Stored(m, @)]
  /\ UNCHANGED <<cfg, pend, down, table, sw, issued, answers, before, lost, stray, forked>>

BasicPoll(b) ==
  LET m == Front(ring[Req(b)]) IN
  /\ Ready(ring[Req(b)])
  /\ \/ m.op = "posted" /\ Consume(Req(b))
     \/ m.op # "posted" /\ CanAlloc(ring[Comp(b)]) /\ PassOn(Req(b), Comp(b), Reply(m, store[b]))
  /\ store' = [store EXCEPT ![b] = Stored(m, @)]
  /\ UNCHANGED <<cfg, pend, down, table, sw, issued, answers, before, lost, stray, forked>>

(***************************************************************************)
(* memnic.  Without a slot the request or the completion is dropped.       *)
(***************************************************************************)
ForwardToETH(x, m) ==
  IF CanAlloc(ring[Up(x)])
  THEN /\ PassOn(Req(x), Up(x), [src |-> x, dst |-> "bcast", op |-> m.op, req |-> m.req,
                                 addr |-> m.addr, val |-> m.val])
       /\ lost' = lost
  ELSE /\ Consume(Req(x))
       /\ lost' = TRUE

(* Posted writes are not supported, and ignored. *)
MemnicPollH2M(x) ==
  LET m == Front(ring[Req(x)]) IN
  /\ Ready(ring[Req(x)])
  /\ \/ m.op # "posted" /\ ForwardToETH(x, m)
     \/ m.op = "posted" /\ Consume(Req(x)) /\ lost' = TRUE
  /\ UNCHANGED <<cfg, pend, down, table, sw, store, issued, answers, before, stray, forked>>

(* The slot is allocated first: a packet that is no completion leaves it *)
(* allocated and never sent, and the host's polling ends there.          *)
ForwardToMEM(x, m) ==
  \/ /\ CanAlloc(ring[Comp(x)]) /\ m.op \in {"readcomp", "writecomp"}
     /\ PassOn(Dn(x), Comp(x), [op |-> m.op, req |-> m.req, val |-> m.val])
     /\ lost' = lost
  \/ /\ CanAlloc(ring[Comp(x)]) /\ m.op \notin {"readcomp", "writecomp"}
     /\ ring' = [ring EXCEPT ![Dn(x)] = InDone(@), ![Comp(x)] = OutAlloc(@)]
     /\ lost' = TRUE
  \/ /\ ~CanAlloc(ring[Comp(x)])
     /\ Consume(Dn(x))
     /\ lost' = TRUE

MemnicPollN2M(x) ==
  /\ Ready(ring[Dn(x)])
  /\ ForwardToMEM(x, Front(ring[Dn(x)]))
  /\ UNCHANGED <<cfg, pend, down, table, sw, store, issued, answers, before, stray, forked>>

(***************************************************************************)
(* memswitch.  A key of mac_table points at the source address inside the  *)
(* ring slot its packet came in; every packet that can come in that slot   *)
(* later has the same source, because each port leads to one memnic or     *)
(* netmem.                                                                 *)
(***************************************************************************)
(* The first range that holds the address, its end included. *)
Mapped(m) ==
  First(MapTable, {i \in DOMAIN MapTable : MapTable[i].start <= m.addr /\ m.addr <= MapTable[i].end})

(* Mutant: the offset into the range is forgotten. *)
TranslateToStart(m) == {[m EXCEPT !.dst = e.node, !.addr = e.phys] : e \in Mapped(m)}

Translate(m) ==
  {[m EXCEPT !.dst = e.node, !.addr = e.phys + (m.addr - e.start)] : e \in Mapped(m)}

(* Where a packet from port x goes, and what it then is. *)
Egress(x, m, known) ==
  LET To(dst) == IF dst \in DOMAIN known THEN {known[dst]} \ {x} ELSE cfg.ports \ {x} IN
  IF m.dst \in DOMAIN known THEN {[out |-> To(m.dst), pkt |-> m]}
  ELSE IF Translate(m) = {} THEN {[out |-> {}, pkt |-> m]}
  ELSE {[out |-> To(t.dst), pkt |-> t] : t \in Translate(m)}

Idle == [port |-> "none", pkt |-> Free, todo |-> {}]

(* The packet leaves on all these ports.  When one of them has no room, the *)
(* synchronised switch waits there before it goes on to the next, polling no *)
(* port meanwhile (TxPacket); without synchronisation it drops the packet.   *)
Forward(x, known, e) ==
  LET full == {y \in e.out : ~CanAlloc(ring[Dn(y)])}
      wait == cfg.sync /\ full # {}
      hear == e.out \cap Netmems
  IN /\ table' = known
     /\ sw' = IF wait THEN [port |-> x, pkt |-> e.pkt, todo |-> e.out] ELSE Idle
     /\ ring' = IF wait THEN ring
                ELSE [l \in Links |-> CASE l = Up(x) -> InDone(ring[l])
                                        [] l \in {Dn(y) : y \in e.out \ full} -> OutSend(ring[l], e.pkt)
                                        [] OTHER -> ring[l]]
     /\ lost' = (lost \/ (~cfg.sync /\ full # {}) \/ e.out = {})
     /\ stray' = (stray \/ hear \ {e.pkt.dst} # {})
     /\ forked' = (forked \/ \E y, z \in hear : y # z)

SwitchPkt(x) ==
  LET m     == Front(ring[Up(x)])
      known == [y \in DOMAIN table \cup {m.src} |-> IF y = m.src THEN x ELSE table[y]]
  IN /\ sw = Idle
     /\ Ready(ring[Up(x)])
     /\ \E e \in Egress(x, m, known) : Forward(x, known, e)
     /\ UNCHANGED <<cfg, pend, down, store, issued, answers, before>>

TxPacket ==
  \E y \in sw.todo :
    LET rest == sw.todo \ {y} IN
    /\ CanAlloc(ring[Dn(y)])
    /\ sw' = IF rest = {} THEN Idle ELSE [sw EXCEPT !.todo = rest]
    /\ ring' = [ring EXCEPT ![Dn(y)] = OutSend(@, sw.pkt),
                            ![Up(sw.port)] = IF rest = {} THEN InDone(@) ELSE @]
    /\ UNCHANGED <<cfg, pend, down, table, store, issued, answers, before, lost, stray, forked>>

(***************************************************************************)
(* netmem.  It does not look at the destination.  Without a slot for the   *)
(* answer the request is left in its ring and polling goes on behind it:   *)
(* it is polled again one round of the ring later.                         *)
(***************************************************************************)
HandleRequest(x, m) ==
  LET r == Reply(m, store[x]) IN
  /\ PassOn(Dn(x), Up(x), [src |-> x, dst |-> m.src, op |-> r.op, req |-> r.req,
                           addr |-> m.addr, val |-> r.val])
  /\ store' = [store EXCEPT ![x] = Stored(m, @)]

NetmemPollN2M(x) ==
  /\ Ready(ring[Dn(x)])
  /\ \/ /\ CanAlloc(ring[Up(x)])
        /\ HandleRequest(x, Front(ring[Dn(x)]))
        /\ lost' = lost
     \/ /\ ~CanAlloc(ring[Up(x)])
        /\ ring' = [ring EXCEPT ![Dn(x)] = InPoll(@)]
        /\ lost' = TRUE
        /\ store' = store
  /\ UNCHANGED <<cfg, pend, down, table, sw, issued, answers, before, stray, forked>>

Init ==
  /\ cfg \in Configs
  /\ ring = [l \in Links |-> NewRing(cfg.cap)]
  /\ pend = <<>>
  /\ down = FALSE
  /\ table = cfg.static
  /\ sw = Idle
  /\ store = [x \in BasicMems \cup Netmems |-> [c \in Cells |-> <<>>]]
  /\ issued = [h \in Hosts |-> 0]
  /\ answers = [h \in Hosts |-> <<>>]
  /\ before = [h \in Hosts |-> <<>>]
  /\ lost = FALSE /\ stray = FALSE /\ forked = FALSE

Next ==
  \/ \E h \in Hosts : HostIssue(h) \/ HostComplete(h) \/ HostPoll(h)
  \/ \E d \in Devices : DevicePoll(d)
  \/ \E b \in BasicMems : BasicPoll(b)
  \/ \E x \in Memnics : MemnicPollH2M(x) \/ MemnicPollN2M(x)
  \/ \E x \in Ports : SwitchPkt(x)
  \/ TxPacket
  \/ \E x \in Netmems : NetmemPollN2M(x)

Spec == Init /\ [][Next]_vars

(* Every simulator's main loop polls all its interfaces over and over.  The    *)
(* programs are finite, so that no more is needed than this: the system does   *)
(* not stop while some simulator has something to do.                          *)
FairSpec == Spec /\ WF_vars(Next)

(***************************************************************************)
(* Properties.                                                             *)
(***************************************************************************)
InFlight(l) == {i \in DOMAIN ring[l].slot : ring[l].slot[i] # Free}

(* Whatever is lost, put off or flooded on the way, a host only ever gets      *)
(* completions of its own requests, of the right kind and no request's twice,  *)
(* although the hosts use the same request ids; and a completion on its way to *)
(* the interconnect names a Pending object that is still alive, no two the     *)
(* same (Device::Poll, CompletePendingR, CompletePendingW).  That ends when    *)
(* the memswitch floods a request to several netmems, as each of them answers. *)
Matched ==
  /\ \A h \in Hosts : \A i \in DOMAIN answers[h] :
       LET c == answers[h][i] IN
       /\ c.req \in 1..issued[h]
       /\ Op(h, c.req).kind # "posted" /\ c.op = Completion(Op(h, c.req).kind)
       /\ \A j \in DOMAIN answers[h] : answers[h][j].req = c.req => i = j
  /\ \A d \in Devices : \A i \in InFlight(Comp(d)) :
       LET c == ring[Comp(d)].slot[i] IN
       /\ c.req \in DOMAIN pend
       /\ \A e \in Devices : \A j \in InFlight(Comp(e)) :
            ring[Comp(e)].slot[j].req = c.req => e = d /\ j = i
Matching == ~forked => Matched

Ops == UNION {{<<h, n>> : n \in 1..issued[h]} : h \in Hosts}

AddrOf(o) == Op(o[1], o[2]).addr
CellOf(o) == Home[AddrOf(o)]

(* Complete before the other was issued, or earlier in the same program by the *)
(* same address.                                                               *)
Precedes(o, p) ==
  \/ o \in before[p[1]][p[2]]
  \/ o[1] = p[1] /\ o[2] < p[2] /\ AddrOf(o) = AddrOf(p)

(* As long as requests go to the netmems they are for, a write lands in the    *)
(* cell its address is laid out to, through both address maps, and nowhere     *)
(* else.  As long as, besides, no message was lost for want of a slot, a read  *)
(* returns the last write to its cell: one that does not follow it, with no    *)
(* other write in between, even if the cell is reached through two memnics     *)
(* (Lookup, switch_pkt, HandleRequest; requests to one address keep their      *)
(* order on every ring of the way).                                            *)
LastWrite(h, c) ==
  LET r  == <<h, c.req>>
      ws == {o \in Ops : CellOf(o) = CellOf(r) /\ Op(o[1], o[2]).kind # "read"}
  IN IF c.val = <<>> THEN \A w \in ws : ~Precedes(w, r)
     ELSE /\ c.val \in ws /\ ~Precedes(r, c.val)
          /\ \A w \in ws : ~(Precedes(c.val, w) /\ Precedes(w, r))
Coherent ==
  /\ ~stray => \A x \in DOMAIN store, c \in Cells :
                 store[x][c] # <<>> => CellOf(store[x][c]) = <<x, c>>
  /\ ~stray /\ ~lost =>
       \A h \in Hosts : \A i \in DOMAIN answers[h] :
         answers[h][i].op = "readcomp" => LastWrite(h, answers[h][i])

Posted == UNION {{<<h, n>> : n \in {k \in DOMAIN cfg.prog[h] : Op(h, k).kind = "posted"}}
                 : h \in Hosts}

(* Rings that hold every request that can be outstanding, every netmem known   *)
(* to the switch or nobody else to hear a flooded packet, a device for every   *)
(* address, and no posted write to a memnic.                                   *)
Provided ==
  /\ cfg.cap >= Cardinality(Hosts) * cfg.window + Cardinality(Posted)
  /\ cfg.static = [x \in cfg.ports \cap Netmems |-> x] \/ Cardinality(cfg.ports) = 2
  /\ \A h \in Hosts : \A n \in DOMAIN cfg.prog[h] : Lookup(Op(h, n).addr) # {}
  /\ \A o \in Posted : CellOf(o)[1] \in BasicMems

(* Provided for, every request is eventually answered, and the interconnect    *)
(* never meets the full ring that would end it (Device::Read, Device::Write,   *)
(* ForwardToETH, ForwardToMEM, HandleRequest).                                 *)
AllAnswered ==
  Provided => <>[](/\ ~down /\ ~lost
                   /\ \A h \in Hosts : issued[h] = Len(cfg.prog[h]) /\ Waiting(h) = {})

==============================================================================
