------------------------------- MODULE I40eNic -------------------------------
(***************************************************************************)
(* The i40e NIC simulator with what surrounds it.  The device side is      *)
(* nicbm's main loop calling the device's handlers: one action per message *)
(* from the host, per packet from the network and per timed event.  Around *)
(* it are the host's memory, which carries out the DMA operations sent to  *)
(* it in ANY order, and a driver that posts work, polls only when it was   *)
(* interrupted, frees what the device has reported done, and may           *)
(* reinitialise the device.  The driver is not in the repository; it is    *)
(* modelled from how the device's registers and rings have to be used.     *)
(***************************************************************************)
EXTENDS I40eQueue

CONSTANTS
  Units,        \* sequence of transmit units, each a sequence of descriptors
  Commands,     \* sequence of admin commands: records [rd, wr]
  Arrivals,     \* sequence of received packets: how many buffers each takes
  Workloads,    \* set of [tx, rx, atq, len, hwb, msix, itr, end, restarts, masks]:
                \* what is exercised; len: descriptors of each ring
  Vec,          \* the MSI-X vector of each LAN queue
  Itr           \* the throttling interval the driver sets at start

VARIABLES
  nic,      \* the device and its runner (see I40eQueue, NicRunner)
  h2d,      \* the messages on their way to the device, in order
  mem,      \* the descriptor rings in host memory
  buf,      \* the buffers in host memory, one per ring slot
  headw,    \* the word the transmit head is written back to
  work,     \* the workload
  mode,     \* the driver: "down", "up", "masked" or "unmasking" (up, with interrupts
            \* disabled or being enabled), "resetting", "ended"
  posted,   \* units posted since the last start
  reaped,   \* units whose buffers were freed since then
  cmds,     \* commands posted
  cdone,    \* commands the driver saw complete
  taken,    \* receive buffers the driver has taken
  got,      \* the parts of packets the driver has received, in order
  arrived,  \* packets the network has delivered
  irq,      \* queues the driver has to look at
  turns     \* restarts and maskings so far

hostVars   == <<mem, buf, headw>>
driverVars == <<work, mode, posted, reaped, cmds, cdone, taken, got, irq, turns>>
vars       == <<nic, h2d, hostVars, driverVars, arrived>>

RingLen == work.len
Slots == 0..(RingLen - 1)

Up == mode \in {"up", "masked", "unmasking"}

(* Without MSI-X everything is on vector 0. *)
Vectors == {0} \cup {Vec[k] : k \in LanQueues}
VecOf(k) == IF work.msix THEN Vec[k] ELSE 0

Send(ms) == h2d' = h2d \o ms

(***************************************************************************)
(* The device's main loop.                                                 *)
(***************************************************************************)
H2DComp(m) == Then(Done(nic, m.dma, m.ret), DmaRetire)

Handle(m) ==
  CASE m.m = "comp"    -> H2DComp(m)
    [] m.m = "tail"    -> TailUpdated(nic, m.q, m.val)
    [] m.m = "enable"  -> Enable(nic, m.q)
    [] m.m = "disable" -> Disable(nic, m.q)
    [] m.m = "itr"     -> [nic EXCEPT !.itr[m.vec] = m.val]
    [] m.m = "reset"   -> Reset(nic)
    [] m.m = "setup"   -> [nic EXCEPT !.msix = work.msix, !.intena = TRUE,
                             !.itr  = [v \in Vectors |-> Itr],
                             !.qctl = [k \in LanQueues |-> [cause |-> TRUE, vec |-> VecOf(k)]]]
    [] m.m = "dynctl"  -> [nic EXCEPT !.intena = m.val]
    [] m.m = "read"    -> SendHost(nic, [op |-> "readcomp", reg |-> m.reg,
                                         val |-> nic.q["atq"].head])
    [] m.m = "end"     -> [nic EXCEPT !.terminated = TRUE]

PollH2D ==
  /\ ~nic.aborted
  /\ h2d # <<>>
  /\ nic' = Handle(Head(h2d))
  /\ h2d' = Tail(h2d)
  /\ UNCHANGED <<hostVars, driverVars, arrived>>

PollN2D ==
  /\ ~nic.aborted
  /\ arrived < work.rx
  /\ arrived' = arrived + 1
  /\ nic' = PacketReceived(nic, arrived + 1, Arrivals[arrived + 1])
  /\ UNCHANGED <<h2d, hostVars, driverVars>>

EventTrigger ==
  /\ ~nic.aborted
  /\ \E e \in DueEvents(nic) : nic' = Timed([nic EXCEPT !.events = @ \ {e}], e.vec)
  /\ UNCHANGED <<h2d, hostVars, driverVars, arrived>>

(* Time does not pass a due event. *)
Tick ==
  /\ ~nic.aborted
  /\ DueEvents(nic) = {}
  /\ nic' = Elapse(nic)
  /\ nic' # nic
  /\ UNCHANGED <<h2d, hostVars, driverVars, arrived>>

(***************************************************************************)
(* The host's memory takes up one of the operations sent to it.            *)
(***************************************************************************)
ReadBytes(op) ==
  LET b == IF op.slot \in Slots THEN buf[op.q][op.slot] ELSE <<>>
  IN [i \in 1..op.len |-> IF op.off + i \in DOMAIN b THEN b[op.off + i] ELSE NoByte]

ReadBack(op) ==
  CASE op.op = "fetch" -> [i \in 1..op.cnt |-> mem[op.q][op.idx + i - 1]]
    [] op.op = "data"  -> ReadBytes(op)
    [] OTHER           -> <<>>

HostDma ==
  /\ mode # "ended"
  /\ \E i \in DOMAIN nic.d2h :
       LET op == nic.d2h[i] IN
       /\ op.op \notin {"msix", "msi", "readcomp"}
       /\ nic' = [nic EXCEPT !.d2h = RemoveAt(@, i)]
       /\ Send(<<[m |-> "comp", dma |-> op, ret |-> ReadBack(op)]>>)
       /\ mem' = IF op.op = "wb"
                 THEN [mem EXCEPT ![op.q] = [s \in Slots |->
                        IF s - op.idx + 1 \in DOMAIN op.val
                        THEN op.val[s - op.idx + 1] ELSE @[s]]]
                 ELSE mem
       /\ buf' = IF op.op = "datawb" /\ op.slot \in Slots THEN [buf EXCEPT ![op.q][op.slot] = op.val] ELSE buf
       /\ headw' = IF op.op = "hwb" THEN op.val ELSE headw
  /\ UNCHANGED <<driverVars, arrived>>

HostInterrupt ==
  /\ mode # "ended"
  /\ \E i \in DOMAIN nic.d2h :
       /\ nic.d2h[i].op \in {"msix", "msi"}
       /\ nic' = [nic EXCEPT !.d2h = RemoveAt(@, i)]
       /\ irq' = irq \cup {k \in LanQueues : VecOf(k) = nic.d2h[i].vec}
  /\ UNCHANGED <<h2d, hostVars, work, mode, posted, reaped, cmds, cdone, taken, got,
                 turns, arrived>>

(***************************************************************************)
(* The driver.                                                             *)
(***************************************************************************)
Descs(u) == Len(Units[u])

DataLen(d) == IF d.type = "data" THEN d.len ELSE 0

(* Offset of each descriptor's bytes in its unit; the last entry is the length. *)
Offsets ==
  [u \in DOMAIN Units |->
     LET off[i \in 1..(Descs(u) + 1)] ==
           IF i = 1 THEN 0 ELSE off[i - 1] + DataLen(Units[u][i - 1])
     IN off]

UnitBytes ==
  [u \in DOMAIN Units |-> [i \in 1..Offsets[u][Descs(u) + 1] |-> <<u, i>>]]

(* The ring index after the first u units, not reduced modulo the length. *)
After ==
  LET after[u \in 0..Len(Units)] == IF u = 0 THEN 0 ELSE after[u - 1] + Descs(u)
  IN after

(* Start: the interrupt registers, in one message since nothing depends on them *)
(* before the LAN queues are on; receive buffers; then the queues are enabled.  *)
Boot ==
  /\ mode = "down"
  /\ mode' = "up"
  /\ mem' = [k \in Queues |-> [s \in Slots |->
              IF k = "rx" THEN [type |-> "buf", slot |-> s] ELSE NoDesc]]
  /\ buf' = [k \in Queues |-> [s \in Slots |-> <<>>]]
  /\ headw' = 0
  /\ Send(<<[m |-> "enable", q |-> "atq"], [m |-> "setup"]>>
          \o (IF work.rx > 0 THEN <<[m |-> "tail", q |-> "rx", val |-> RingLen - 1],
                                    [m |-> "enable", q |-> "rx"]>> ELSE <<>>)
          \o (IF work.tx > 0 THEN <<[m |-> "enable", q |-> "tx"]>> ELSE <<>>))
  /\ posted' = 0 /\ reaped' = 0 /\ cmds' = 0 /\ cdone' = 0 /\ taken' = 0
  /\ got' = <<>> /\ irq' = {}
  /\ UNCHANGED <<nic, work, turns, arrived>>

(* A unit is posted when the ring has room, one slot staying empty. *)
PostUnit ==
  /\ Up
  /\ posted < work.tx
  /\ LET u     == posted + 1
         start == After[posted]
         slot(i) == (start + i - 1) % RingLen
         at(s) == CHOOSE i \in 1..Descs(u) : slot(i) = s
         used  == {slot(i) : i \in 1..Descs(u)}
     IN /\ start + Descs(u) - After[reaped] < RingLen
        /\ mem' = [mem EXCEPT !["tx"] = [s \in Slots |->
             IF s \in used THEN [Units[u][at(s)] EXCEPT !.slot = s] ELSE @[s]]]
        /\ buf' = [buf EXCEPT !["tx"] = [s \in Slots |->
             IF s \in used /\ Units[u][at(s)].type = "data"
             THEN SubSeq(UnitBytes[u], Offsets[u][at(s)] + 1, Offsets[u][at(s) + 1])
             ELSE @[s]]]
        /\ posted' = u
        /\ Send(<<[m |-> "tail", q |-> "tx", val |-> (start + Descs(u)) % RingLen]>>)
  /\ UNCHANGED <<nic, headw, work, mode, reaped, cmds, cdone, taken, got, irq, turns,
                 arrived>>

(* The units the device reports done. *)
ReportedDone ==
  {u \in (reaped + 1)..posted :
     IF work.hwb
     THEN LET moved == (headw + RingLen - (After[reaped] % RingLen)) % RingLen
          IN After[u] - After[reaped] <= moved
     ELSE \A w \in (reaped + 1)..u : mem["tx"][(After[w] - 1) % RingLen].type = "done"}

(* On an interrupt every unit reported done is reaped, its buffers freed. *)
PollTx ==
  /\ Up
  /\ "tx" \in irq
  /\ irq' = irq \ {"tx"}
  /\ reaped' = Max(ReportedDone \cup {reaped})
  /\ LET freed == {s % RingLen : s \in After[reaped]..(After[reaped'] - 1)}
     IN buf' = [buf EXCEPT !["tx"] = [s \in Slots |-> IF s \in freed THEN <<>> ELSE @[s]]]
  /\ UNCHANGED <<nic, h2d, mem, headw, work, mode, posted, cmds, cdone, taken, got,
                 turns, arrived>>

(* The receive buffers, from the next one on, that make up whole packets. *)
DoneSlots ==
  Max({c \in 0..(RingLen - 1) :
         /\ \A i \in 0..(c - 1) : mem["rx"][(taken + i) % RingLen].type = "done"
         /\ c > 0 => mem["rx"][(taken + c - 1) % RingLen].eop})

(* On an interrupt all whole packets are taken and their buffers posted anew. *)
PollRx ==
  /\ Up
  /\ "rx" \in irq
  /\ irq' = irq \ {"rx"}
  /\ LET c     == DoneSlots
         parts == [i \in 1..c |-> (taken + i - 1) % RingLen]
         fresh == ToSet(parts)
     IN /\ taken' = taken + c
        /\ got' = got \o FlattenSeq([i \in 1..c |-> buf["rx"][parts[i]]])
        /\ mem' = [mem EXCEPT !["rx"] = [s \in Slots |->
             IF s \in fresh THEN [type |-> "buf", slot |-> s] ELSE @[s]]]
        /\ buf' = [buf EXCEPT !["rx"] = [s \in Slots |->
             IF s \in fresh THEN <<>> ELSE @[s]]]
        /\ IF c = 0 THEN UNCHANGED h2d
           ELSE Send(<<[m |-> "tail", q |-> "rx", val |-> (taken' + RingLen - 1) % RingLen]>>)
  /\ UNCHANGED <<nic, headw, work, mode, posted, reaped, cmds, cdone, turns, arrived>>

(* One admin command at a time; its completion is polled for in ATQH. *)
PostCommand ==
  /\ Up
  /\ cmds < work.atq
  /\ cmds = cdone
  /\ LET s == cmds % RingLen IN
     /\ mem' = [mem EXCEPT !["atq"][s] = [type |-> "cmd", cmd |-> cmds + 1, slot |-> s,
                  len |-> 1, fits |-> TRUE, rd |-> Commands[cmds + 1].rd, wr |-> Commands[cmds + 1].wr]]
     /\ buf' = [buf EXCEPT !["atq"][s] =
                  IF Commands[cmds + 1].rd THEN <<<<cmds + 1, 1>>>> ELSE <<>>]
  /\ cmds' = cmds + 1
  /\ Send(<<[m |-> "tail", q |-> "atq", val |-> (cmds + 1) % RingLen],
            [m |-> "read", reg |-> "atqh"]>>)
  /\ UNCHANGED <<nic, headw, work, mode, posted, reaped, cdone, taken, got, irq, turns,
                 arrived>>

(* The answer to a register read: ATQH, the end of a reset, or PFINT_DYN_CTL0   *)
(* once interrupts are enabled again.  What was signalled while they were        *)
(* disabled is lost, so that the driver then looks at all queues.                *)
ReadAnswered ==
  /\ Up \/ mode = "resetting"
  /\ \E i \in DOMAIN nic.d2h :
       LET rc == nic.d2h[i] IN
       /\ rc.op = "readcomp"
       /\ nic' = [nic EXCEPT !.d2h = RemoveAt(@, i)]
       /\ \/ /\ rc.reg = "atqh"
             /\ IF rc.val = cmds % RingLen
                THEN cdone' = cmds /\ UNCHANGED h2d
                ELSE cdone' = cdone /\ Send(<<[m |-> "read", reg |-> "atqh"]>>)
             /\ UNCHANGED <<mode, irq>>
          \/ /\ rc.reg = "rstat"
             /\ mode' = "down"
             /\ UNCHANGED <<cdone, irq, h2d>>
          \/ /\ rc.reg = "dynctl"
             /\ mode' = "up"
             /\ irq' = LanQueues
             /\ UNCHANGED <<cdone, h2d>>
  /\ UNCHANGED <<hostVars, work, posted, reaped, cmds, taken, got, turns, arrived>>

(* The driver disables interrupts for a while. *)
Mask ==
  /\ mode = "up"
  /\ turns < work.masks
  /\ turns' = turns + 1
  /\ mode' = "masked"
  /\ Send(<<[m |-> "dynctl", val |-> FALSE]>>)
  /\ UNCHANGED <<nic, hostVars, work, posted, reaped, cmds, cdone, taken, got, irq, arrived>>

Unmask ==
  /\ mode = "masked"
  /\ mode' = "unmasking"
  /\ Send(<<[m |-> "dynctl", val |-> TRUE], [m |-> "read", reg |-> "dynctl"]>>)
  /\ UNCHANGED <<nic, hostVars, work, posted, reaped, cmds, cdone, taken, got, irq, turns,
                 arrived>>

(* The driver changes a vector's throttling interval. *)
SetItr ==
  /\ Up
  /\ work.itr
  /\ \A i \in DOMAIN h2d : h2d[i].m # "itr"
  /\ \E v \in {VecOf(k) : k \in LanQueues} :
       /\ nic.itr[v] # 0
       /\ Send(<<[m |-> "itr", vec |-> v, val |-> 0]>>)
  /\ UNCHANGED <<nic, hostVars, driverVars, arrived>>

(* The driver stops the queues and resets the function. *)
Restart ==
  /\ mode = "up"
  /\ turns < work.restarts
  /\ cmds = cdone
  /\ turns' = turns + 1
  /\ mode' = "resetting"
  /\ Send(<<[m |-> "disable", q |-> "rx"], [m |-> "disable", q |-> "tx"],
            [m |-> "reset"], [m |-> "read", reg |-> "rstat"]>>)
  /\ UNCHANGED <<nic, hostVars, work, posted, reaped, cmds, cdone, taken, got, irq, arrived>>

(* The host simulator ends: nothing more is done there. *)
HostEnd ==
  /\ work.end
  /\ mode # "ended"
  /\ mode' = "ended"
  /\ Send(<<[m |-> "end"]>>)
  /\ UNCHANGED <<nic, hostVars, work, posted, reaped, cmds, cdone, taken, got, irq, turns,
                 arrived>>

Init ==
  /\ work \in Workloads
  /\ nic = [q |-> [k \in Queues |-> NewQueue(work.len)], pending |-> 0, dmaq |-> <<>>, d2h |-> <<>>,
            terminated |-> FALSE, events |-> {}, at |-> [v \in Vectors |-> 0],
            armed |-> [v \in Vectors |-> FALSE], itr |-> [v \in Vectors |-> 0],
            qctl |-> [k \in LanQueues |-> [cause |-> FALSE, vec |-> 0]],
            intena |-> FALSE, msix |-> FALSE, hwb |-> work.hwb, wire |-> <<>>, kept |-> <<>>, lost |-> {},
            aborted |-> FALSE, stale |-> FALSE]
  /\ h2d = <<>>
  /\ mem = [k \in Queues |-> [s \in Slots |-> NoDesc]]
  /\ buf = [k \in Queues |-> [s \in Slots |-> <<>>]]
  /\ headw = 0
  /\ mode = "down"
  /\ posted = 0 /\ reaped = 0 /\ cmds = 0 /\ cdone = 0 /\ taken = 0
  /\ got = <<>> /\ arrived = 0 /\ irq = {} /\ turns = 0

Device == PollH2D \/ PollN2D \/ EventTrigger \/ Tick
Memory == HostDma \/ HostInterrupt
Driver == Boot \/ PostUnit \/ PollTx \/ PollRx \/ PostCommand \/ ReadAnswered \/ Unmask
Next   == Device \/ Memory \/ Driver \/ SetItr \/ Mask \/ Restart \/ HostEnd

Spec     == Init /\ [][Next]_vars
FairSpec == Spec /\ WF_vars(Device) /\ WF_vars(Memory) /\ WF_vars(Driver)

(***************************************************************************)
(* Properties.                                                             *)
(***************************************************************************)
(* The frames a unit has to leave as: the header and at most mss bytes each. *)
FramesOf(u) ==
  LET b   == UnitBytes[u]
      hdr == Units[u][Descs(u)].hdr
      mss == Units[u][1].mss
  IN IF Units[u][1].type = "ctx" /\ Units[u][1].tso
     THEN [j \in 1..((Len(b) - hdr + mss - 1) \div mss) |->
             SubSeq(b, 1, hdr) \o SubSeq(b, hdr + (j - 1) * mss + 1, Min({hdr + j * mss, Len(b)}))]
     ELSE <<b>>

FramesUpTo ==
  LET frames[u \in 0..Len(Units)] == IF u = 0 THEN <<>> ELSE frames[u - 1] \o FramesOf(u)
  IN frames

(* What the properties are about: the driver is up, and no reset has overtaken *)
(* a DMA operation (see the hazards at i40e_bm.cc:816).                        *)
Sound == Up /\ ~nic.stale

(* Since the last reset exactly the posted units have left, in order, once each *)
(* and byte for byte, split into frames as TSO asks (trigger_tx_packet), and a  *)
(* unit is reported done only when all its frames have left: a buffer the       *)
(* driver then frees and reuses is not read any more (trigger_writeback).       *)
TxFaithful ==
  Sound => /\ IsPrefix(nic.wire, FramesUpTo[posted])
           /\ \A u \in ReportedDone : IsPrefix(FramesUpTo[u], nic.wire)

PartsOf(pkts) ==
  FlattenSeq([i \in DOMAIN pkts |-> [j \in 1..Arrivals[pkts[i]] |-> <<pkts[i], j>>]])

(* The driver receives the packets the queue accepted, whole, in the order they *)
(* arrived, none twice: a descriptor is written back only after the data it     *)
(* announces (rx_desc_ctx::packet_received, data_written, do_writeback).        *)
RxFaithful == Sound => IsPrefix(got, PartsOf(nic.kept))

(* When the head register moves past an admin command, its descriptor is        *)
(* written back in host memory and, if it has one, its answer is in its buffer  *)
(* behind the request it was computed from (writeback_done, data_write).        *)
CommandAnswered ==
  Sound /\ cmds > cdone /\ nic.q["atq"].head = cmds % RingLen =>
    LET s == (cmds - 1) % RingLen
        c == Commands[cmds]
        request == IF c.rd THEN <<<<cmds, 1>>>> ELSE <<>>
    IN /\ mem["atq"][s].type = "done"
       /\ buf["atq"][s] = IF c.wr THEN Append(request, <<cmds, 0>>) ELSE request

(* No assertion or abort() of the queues fails, whatever the order in which the *)
(* host completes DMA operations and even when the host ends, unless a reset    *)
(* overtook an operation in flight (trigger_fetch, do_writeback, writeback_done,*)
(* prepared, processed).                                                        *)
NoAbort == nic.aborted => nic.stale

(* The queue does not see that something was posted: trigger_fetch takes the    *)
(* difference of tail and index modulo 2^32 first and modulo the length then,    *)
(* and it comes out as 0.  Never so for a length that divides 2^32.              *)
Overlooked(k) ==
  LET q == nic.q[k] IN q.on /\ q.tail # NextIdx(q) /\ DescAvail(q) = 0

(* Everything posted is sent and reaped, every command answered and every       *)
(* accepted packet taken by a driver that looks only when interrupted, and      *)
(* once after it has enabled interrupts: no other wake-up is lost.  There are   *)
(* four ways out: a reset overtook an operation, an event was erased by the     *)
(* cancellation of another vector's (EventCancel), a queue overlooks what is    *)
(* posted, or the host has ended.                                               *)
AllServed ==
  <>[](\/ nic.stale \/ nic.lost # {} \/ mode = "ended"
       \/ \E k \in Queues : Overlooked(k)
       \/ /\ reaped = work.tx /\ cdone = work.atq
          /\ arrived = work.rx /\ got = PartsOf(nic.kept))

==============================================================================
