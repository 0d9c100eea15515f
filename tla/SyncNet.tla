------------------------------ MODULE SyncNet ------------------------------
(***************************************************************************)
(* Conservative pairwise synchronisation.  Every simulator has a clock of  *)
(* its own and one connection per peer; a connection is two FIFO channels  *)
(* of at most N entries (Channel, implemented by BaseRing).  A message     *)
(* sent at t carries t + link_latency; the receiver holds it back until    *)
(* its clock gets there and never advances beyond the timestamp of the     *)
(* next message of any peer.  Dummy messages every sync_interval keep the  *)
(* clocks moving when there is no data.                                    *)
(*                                                                         *)
(* Two main loops: that of net_switch (jump to the next input timestamp)   *)
(* and that of nicbm (also stop at the next sync point, after max_step and *)
(* at device events).  One step is one iteration over one port, and one    *)
(* egress port of a packet being sent, so simulators interleave there.     *)
(***************************************************************************)
EXTENDS Integers, Sequences, FiniteSets

CONSTANTS Sims,          \* simulator processes
          Peers,         \* Peers[s]: sequence of the simulators at s's ports
          Nics,          \* simulators with nicbm's loop; the others run net_switch's
          Latency,       \* Latency[l]: link_latency of the sender of link l
          SyncInterval,  \* SyncInterval[l]: sync_interval of the sender of link l
          N,             \* entries of every queue
          MaxStep,       \* nicbm's max_step
          MaxEvents,     \* bound: device events per nic
          Sending,       \* bound: which of a nic's events, counted from 1, may send
          MaxCopies,     \* bound: ports a device sends on at once
          Delays,        \* bound: how far ahead a device event is scheduled
          Horizon        \* bound: no simulator advances once beyond this time

Ports(s) == 1 .. Len(Peers[s])
Links == {l \in Sims \X Sims : \E i \in Ports(l[1]) : Peers[l[1]][i] = l[2]}
Inf == -1   \* ULLONG_MAX as "no timestamp yet"; only Earlier looks at it
NoEvent == -2

ASSUME TopologyAssumption ==
  /\ Nics \subseteq Sims
  /\ \A s \in Sims : /\ Peers[s] \in Seq(Sims) /\ Peers[s] # << >>
                     /\ \A i \in Ports(s) : <<Peers[s][i], s>> \in Links
                     /\ \A i, j \in Ports(s) : Peers[s][i] = Peers[s][j] => i = j
\* SimbricksBaseIfInit refuses link_latency < sync_interval.
ASSUME ParamsAssumption ==
  /\ \A l \in Links : /\ Latency[l] \in Nat /\ SyncInterval[l] \in Nat \ {0}
                      /\ SyncInterval[l] <= Latency[l]
  /\ N \in Nat \ {0} /\ MaxStep \in Nat \ {0}
  /\ MaxEvents \in Nat /\ MaxCopies \in Nat /\ Sending \subseteq Nat /\ Delays \subseteq Nat
  /\ Horizon \in Nat

VARIABLES clock,   \* clock[s]: cur_ts / main_time
          pc,      \* where s is in its main loop: "sync", "poll", "send", "event"
          port,    \* port[s]: index of the port the loop is at
          minTs,   \* minTs[s]: min_ts of net_switch's do-while loop
          egress,  \* egress[s]: ports the current packet still goes to
          queue,   \* queue[l]: messages sent on l and not yet given back
          inTs,    \* inTs[l]: in_timestamp of l's receiver
          outTs,   \* outTs[l]: out_timestamp of l's sender
          event,   \* event[s]: time of the nic's next device event
          events   \* events[s]: device events fired so far

simVars == <<clock, pc, port, minTs, egress>>
evVars == <<event, events>>
vars == <<simVars, queue, inTs, outTs, evVars>>

Init == /\ clock = [s \in Sims |-> 0]
        /\ pc = [s \in Sims |-> "sync"]
        /\ port = [s \in Sims |-> 1]
        /\ minTs = [s \in Sims |-> Inf]
        /\ egress = [s \in Sims |-> {}]
        /\ queue = [l \in Links |-> << >>]
        /\ inTs = [l \in Links |-> 0]
        /\ outTs = [l \in Links |-> 0]
        /\ event \in [Sims -> {0, NoEvent}]
        /\ \A s \in Sims \ Nics : event[s] = NoEvent
        /\ events = [s \in Sims |-> 0]

In(s, i) == <<Peers[s][i], s>>
Out(s, i) == <<s, Peers[s][i]>>
IsLeast(x, S) == x \in S /\ \A y \in S : x <= y

-----------------------------------------------------------------------------
(* Mutants: the bugs the properties below would expose. *)

MessageDataNow(t, l, ty) == [type |-> ty, ts |-> IF ty = "DATA" THEN t ELSE t + Latency[l]]
LaterOne(a, b) == IF a = Inf \/ (b # Inf /\ b > a) THEN b ELSE a
InReadyAny(l, t) == queue[l] # << >>
SyncDueLate(l, t) == ~(outTs[l] > 0 /\ t - outTs[l] <= SyncInterval[l])
SyncDueOnce(l, t) == outTs[l] = 0 /\ t = 0
NextTimesOwnPace(s) ==
  {outTs[<<s, Peers[s][i]>>] + SyncInterval[<<s, Peers[s][i]>>] : i \in Ports(s)}
  \cup {clock[s] + MaxStep} \cup ({event[s]} \ {NoEvent})

-----------------------------------------------------------------------------
(* Operations of the base interface. *)

Message(t, l, ty) == [type |-> ty, ts |-> t + Latency[l]]
Earlier(a, b) == IF a = Inf \/ (b # Inf /\ b < a) THEN b ELSE a
OutRoom(l) == Len(queue[l]) < N

\* SimbricksBaseIfOutAlloc followed by OutSend.
OutPut(l, t, ty) == /\ OutRoom(l)
                    /\ queue' = [queue EXCEPT ![l] = Append(@, Message(t, l, ty))]
                    /\ outTs' = [outTs EXCEPT ![l] = t]

\* SimbricksBaseIfOutSync: nothing to do while the last message is recent.
SyncDue(l, t) == ~(outTs[l] > 0 /\ t - outTs[l] < SyncInterval[l])
OutSync(l, t) == IF SyncDue(l, t) THEN OutPut(l, t, "SYNC") ELSE UNCHANGED <<queue, outTs>>

\* SimbricksBaseIfInPeek: a message there updates in_timestamp even when it is
\* held back because it lies in the future.
InReady(l, t) == queue[l] # << >> /\ Head(queue[l]).ts <= t
InPeek(l) == inTs' = IF queue[l] = << >> THEN inTs
                     ELSE [inTs EXCEPT ![l] = Head(queue[l]).ts]
InDone(l) == queue' = [queue EXCEPT ![l] = Tail(@)]

OutNextSync(l) == outTs[l] + SyncInterval[l]

-----------------------------------------------------------------------------
(* Main loops. *)

\* SimbricksNicIfSync syncs net before pcie, nicbm polls pcie before net.
PollPort(s) == IF s \in Nics THEN Len(Peers[s]) + 1 - port[s] ELSE port[s]
PollLink(s) == In(s, PollPort(s))

\* NetPort::Sync spins on its port; nicbm starts over with the first port.
SyncPort(s) ==
  LET l == Out(s, port[s]) IN
  /\ pc[s] = "sync"
  /\ OutSync(l, clock[s])
  /\ IF port[s] < Len(Peers[s])
     THEN port' = [port EXCEPT ![s] = @ + 1] /\ UNCHANGED pc
     ELSE port' = [port EXCEPT ![s] = 1] /\ pc' = [pc EXCEPT ![s] = "poll"]
  /\ UNCHANGED <<clock, minTs, egress, inTs, evVars>>

SyncRetry(s) ==
  LET l == Out(s, port[s]) IN
  /\ pc[s] = "sync" /\ s \in Nics /\ port[s] > 1
  /\ SyncDue(l, clock[s]) /\ ~OutRoom(l)
  /\ port' = [port EXCEPT ![s] = 1]
  /\ UNCHANGED <<clock, pc, minTs, egress, queue, inTs, outTs, evVars>>

\* The clock moves when the next input lies in the future (while-condition of
\* both loops); beyond the horizon it stays.
MoveTo(s, t) ==
  IF t # Inf /\ t > clock[s] /\ clock[s] <= Horizon
  THEN clock' = [clock EXCEPT ![s] = t] /\ pc' = [pc EXCEPT ![s] = "sync"]
  ELSE UNCHANGED clock /\ pc' = [pc EXCEPT ![s] = "poll"]

\* End of an iteration over one port: next port; after the last one net_switch
\* decides about the time and nicbm looks for a device event.
NextPort(s, t) ==
  LET m == Earlier(minTs[s], t) IN
  IF port[s] < Len(Peers[s])
  THEN /\ port' = [port EXCEPT ![s] = @ + 1]
       /\ minTs' = [minTs EXCEPT ![s] = m]
       /\ pc' = [pc EXCEPT ![s] = "poll"] /\ UNCHANGED clock
  ELSE /\ port' = [port EXCEPT ![s] = 1]
       /\ minTs' = [minTs EXCEPT ![s] = Inf]
       /\ IF s \in Nics THEN pc' = [pc EXCEPT ![s] = "event"] /\ UNCHANGED clock
          ELSE MoveTo(s, m)

\* Nothing to receive yet.
PollNothing(s) ==
  LET l == PollLink(s) IN
  /\ pc[s] = "poll" /\ ~InReady(l, clock[s])
  /\ InPeek(l)
  /\ NextPort(s, inTs'[l])
  /\ UNCHANGED <<egress, queue, outTs, evVars>>

PollSync(s) ==
  LET l == PollLink(s) IN
  /\ pc[s] = "poll" /\ InReady(l, clock[s]) /\ Head(queue[l]).type = "SYNC"
  /\ InPeek(l) /\ InDone(l)
  /\ NextPort(s, inTs'[l])
  /\ UNCHANGED <<egress, outTs, evVars>>

\* A device handed a message or an event may send on any of its ports.
DeviceSends(s) == {e \in SUBSET Ports(s) : Cardinality(e) <= MaxCopies}

\* A packet: which ports it goes to is the switch's or the device's business.
\* net_switch floods, forwards to one port or drops, never back to the ingress.
EgressSets(s) ==
  LET others == Ports(s) \ {PollPort(s)} IN
  IF s \in Nics THEN DeviceSends(s)
  ELSE {{}, others} \cup {{i} : i \in others}

\* What a device may ask EventSchedule for once n of its events have fired.
Timers(s, n) == {clock[s] + d : d \in {d \in Delays : n < MaxEvents}}

\* A message may make a device schedule its event.
Schedule(s) ==
  \/ UNCHANGED event
  \/ /\ s \in Nics /\ event[s] = NoEvent
     /\ \E t \in Timers(s, events[s]) : event' = [event EXCEPT ![s] = t]

PollData(s) ==
  LET l == PollLink(s) IN
  /\ pc[s] = "poll" /\ InReady(l, clock[s]) /\ Head(queue[l]).type = "DATA"
  /\ InPeek(l)
  /\ \E e \in EgressSets(s) : egress' = [egress EXCEPT ![s] = e]
  /\ Schedule(s)
  /\ pc' = [pc EXCEPT ![s] = "send"]
  /\ UNCHANGED <<clock, port, minTs, queue, outTs, events>>

\* TxPacket, D2NAlloc, D2HAlloc: spin until the peer has freed an entry.
SendOne(s) ==
  /\ pc[s] = "send"
  /\ \E i \in Ports(s) : /\ IsLeast(i, egress[s])
                         /\ OutPut(Out(s, i), clock[s], "DATA")
                         /\ egress' = [egress EXCEPT ![s] = @ \ {i}]
  /\ UNCHANGED <<clock, pc, port, minTs, inTs, evVars>>

\* All copies sent: the packet's slot goes back to its sender.
RxDone(s) ==
  LET l == PollLink(s) IN
  /\ pc[s] = "send" /\ egress[s] = {} /\ port[s] # 0
  /\ InDone(l)
  /\ NextPort(s, inTs[l])
  /\ UNCHANGED <<egress, inTs, outTs, evVars>>

\* nicbm's EventTrigger: at most one due event per iteration.  The device may
\* send on its ports and schedule its next event.
FireEvent(s) ==
  /\ pc[s] = "event" /\ event[s] # NoEvent /\ event[s] <= clock[s]
  /\ \E e \in DeviceSends(s) : /\ e # {} => events[s] + 1 \in Sending
                              /\ egress' = [egress EXCEPT ![s] = e]
  /\ \E t \in {NoEvent} \cup Timers(s, events[s] + 1) : event' = [event EXCEPT ![s] = t]
  /\ events' = [events EXCEPT ![s] = @ + 1]
  /\ pc' = [pc EXCEPT ![s] = "send"] /\ port' = [port EXCEPT ![s] = 0]
  /\ UNCHANGED <<clock, minTs, queue, inTs, outTs>>

\* SimbricksNicIfNextTimestamp, max_step and the next event: the least of these.
NextTimes(s) ==
  {inTs[In(s, i)] : i \in Ports(s)} \cup {OutNextSync(Out(s, i)) : i \in Ports(s)}
  \cup {clock[s] + MaxStep} \cup ({event[s]} \ {NoEvent})

NicAdvance(s) ==
  /\ \/ pc[s] = "event" /\ (event[s] = NoEvent \/ event[s] > clock[s])
     \/ pc[s] = "send" /\ egress[s] = {} /\ port[s] = 0
  /\ \E t \in NextTimes(s) : IsLeast(t, NextTimes(s)) /\ MoveTo(s, t)
  /\ port' = [port EXCEPT ![s] = 1]
  /\ UNCHANGED <<minTs, egress, queue, inTs, outTs, evVars>>

Step(s) == \/ SyncPort(s) \/ SyncRetry(s)
           \/ PollNothing(s) \/ PollSync(s) \/ PollData(s)
           \/ SendOne(s) \/ RxDone(s)
           \/ FireEvent(s) \/ NicAdvance(s)

Next == \E s \in Sims : Step(s)

Spec == Init /\ [][Next]_vars

\* Every simulator is an operating-system process that keeps running.
FairSpec == Spec /\ \A s \in Sims : WF_vars(Step(s))

-----------------------------------------------------------------------------
(* Properties. *)

\* Types: in particular a main loop is always at one of its ports (0 while a
\* device event is sent), and no packet goes to a port that does not exist.
TypeOK ==
  /\ clock \in [Sims -> Nat]
  /\ pc \in [Sims -> {"sync", "poll", "send", "event"}]
  /\ port \in [Sims -> Nat] /\ \A s \in Sims : port[s] \in Ports(s) \cup {0}
  /\ minTs \in [Sims -> Nat \cup {Inf}]
  /\ egress \in [Sims -> SUBSET Nat] /\ \A s \in Sims : egress[s] \subseteq Ports(s)
  /\ queue \in [Links -> Seq([type : {"SYNC", "DATA"}, ts : Nat])]
  /\ inTs \in [Links -> Nat] /\ outTs \in [Links -> Nat]
  /\ event \in [Sims -> Nat \cup {NoEvent}] /\ events \in [Sims -> Nat]

\* Causality: no message waits in a queue with a timestamp its receiver has
\* already left behind.  With InPeek's test it follows that a message is always
\* processed exactly at the time it carries.
NoMessageInThePast ==
  \A l \in Links : \A k \in 1 .. Len(queue[l]) : queue[l][k].ts >= clock[l[2]]

\* A timestamp is a promise: nothing older arrives later on the same channel.
TimestampsMonotone ==
  \A l \in Links : \A j, k \in 1 .. Len(queue[l]) :
     j <= k => inTs[l] <= queue[l][j].ts /\ queue[l][j].ts <= queue[l][k].ts

\* A simulator is never further ahead of a peer than the peer's link latency.
BoundedSkew == \A l \in Links : clock[l[2]] <= clock[l[1]] + Latency[l]

\* A packet is forwarded at its arrival time: while it is being sent on, it is
\* still at the head of its queue and carries the current time.
ForwardedOnTime ==
  \A s \in Sims : pc[s] = "send" /\ port[s] # 0 =>
     queue[PollLink(s)] # << >> /\ Head(queue[PollLink(s)]).ts = clock[s]

\* Synchronisation alone cannot block everybody: the slowest simulator, once all
\* have synced at their current time, has a promise beyond its clock from every
\* peer.  This is where link_latency >= sync_interval is needed.
Synced(s) == pc[s] # "sync"
SlowestIsFree ==
  \A s \in Sims :
     (\A d \in Sims : Synced(d) /\ clock[s] <= clock[d]) =>
        \A i \in Ports(s) : outTs[In(s, i)] + Latency[In(s, i)] > clock[s]

\* The inductive invariant behind the properties above.  LinkInv: what sender
\* and receiver of a link know of each other.  MinInv: net_switch's running
\* minimum covers the ports it has polled.  DueInv: a port that has been synced
\* at the current time owes its peer nothing before the next interval.
Between(q, lo, hi) ==
  /\ \A k \in 1 .. Len(q) : lo <= q[k].ts /\ q[k].ts <= hi
  /\ \A j, k \in 1 .. Len(q) : j <= k => q[j].ts <= q[k].ts
LinkInv ==
  \A l \in Links : /\ outTs[l] <= clock[l[1]]
                   /\ clock[l[2]] <= inTs[l]
                   /\ inTs[l] <= outTs[l] + Latency[l]
                   /\ Between(queue[l], inTs[l], outTs[l] + Latency[l])
MinAt(s) ==
  /\ pc[s] \in {"sync", "poll", "send"}
  /\ port[s] # 0
  /\ pc[s] # "sync" =>
       \A i \in Ports(s) : i < port[s] => minTs[s] # Inf /\ minTs[s] <= inTs[In(s, i)]
  /\ pc[s] = "sync" \/ port[s] = 1 => minTs[s] = Inf
MinInv == \A s \in Sims \ Nics : MinAt(s)
DueInv ==
  \A s \in Sims : \A i \in Ports(s) :
     Synced(s) \/ i < port[s] => clock[s] < outTs[Out(s, i)] + SyncInterval[Out(s, i)]
PortInv == \A s \in Sims : pc[s] # "send" => port[s] # 0

SyncInv == TypeOK /\ PortInv /\ LinkInv /\ MinInv /\ DueInv

\* Every simulator gets past the horizon: no deadlock, no livelock of time.
AllReachHorizon == <>[](\A s \in Sims : clock[s] > Horizon)
=============================================================================
