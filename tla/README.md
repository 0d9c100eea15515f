# SimBricks and HCOP: a verification development

SimBricks runs one process per simulated component (hosts, NICs, switches,
memories) and connects them by queues in shared memory. This fork adds HCOP:
coordination primitives (locks, barriers, Paxos) that run on a switch, on a DPU
or on hosts. The TLA+ modules in this directory model the queues, the
synchronisation of simulated time, the start of a run and connection set-up, the
distribution proxies, an Intel NIC (i40e) on the library for device models, the
memory simulators, the three primitives and one of them across its tiers. TLC
checks the modules on small instances, and TLAPS proves safety properties of the
queues, of synchronisation, of the start of a run, of the memory simulators, of the
three primitives and of locks behind the switch or the DPU for all values of the
constants.

`PROJECT.json` lists components, runs, mutants, the map from definitions to
source lines, hazards and theorems.

## 1. The system and its parts

```
 orchestration (Python) -> runtime: starts processes, waits for their sockets
        |
 +------v------+  queue pair  +---------+  queue pair  +-----------------+
 | host        |<------------>| nicbm   |<------------>| net_switch /    |
 | simulator   |    (PCIe)    | device  |  (Ethernet)  | hcop_switch     |
 +-------------+              +---------+              +--------+--------+
                                                                | queue pair
                    proxy <== TCP ==> proxy   <---------------->+-- DPU (dpu_bm)
```

| Part | Source | Modules | State |
|---|---|---|---|
| Shared-memory queues | `lib/simbricks/base/if.h` | `BaseRing`, `Channel` | modelled, proved |
| Synchronisation: timestamps, sync messages, main loops | `if.h`, `nicif.h`, `nicbm.cc`, `net_switch.cc` | `SyncNet` | modelled, proved |
| Connection set-up | `lib/simbricks/base/if.c` | `Handshake` | modelled except termination, proved |
| Run-time: start, failure, cancellation and end of a run | `symphony/runtime`, `graphlib.py`, `dependency_graph.py` | `SimulationExecutor` | the executor of one fragment, proved |
| Lock primitive | `lib/hcop/lock_state.cc` | `LockManager`, `LockService` | modelled, proved |
| Barrier primitive | `lib/hcop/barrier_state.cc` | `BarrierManager`, `BarrierService` | modelled, proved |
| Paxos primitive | `lib/hcop/paxos_state.cc` | `PaxosNode`, `PaxosGroup` | modelled, proved for a stable leader |
| HCOP switch and DPU | `sims/net/hcop_switch`, `sims/nic/dpu_bm` | `HcopLock` | the lock primitive; proved for one table |
| Distribution proxies | `dist/common`, `dist/sockets` | `DistProxy` | one direction of a channel |
| nicbm runner: DMA, events, interrupts | `lib/simbricks/nicbm` | `NicRunner` (and `SyncNet`) | modelled except legacy interrupts |
| i40e NIC | `sims/nic/i40e_bm` | `I40eQueue`, `I40eNic` | queues, interrupts, reset |
| Memory simulators | `sims/mem` | `MemFabric` | requests and completions of one cell; matching proved |
| Wire, tap, pktgen, RDMA proxy | `sims/net`, `dist/rdma` | | not modelled |
| e1000, Tofino, Menshen | `sims/nic`, `sims/net` | | not modelled |
| Runners, CLI, client, rest of orchestration | `symphony` | | not modelled |

How the modules build on each other:

- `BaseRing` implements `Channel`, a bounded FIFO (refinement, proved). `SyncNet`
  takes that FIFO for granted; `DistProxy` implements it once more, across two
  machines.
- `LockManager`, `BarrierManager` and `PaxosNode` are the pure state machines of
  `lib/hcop`: operators from a state and a message to a new state and answers.
  `LockService`, `BarrierService` and `PaxosGroup` put clients, replicas and
  channels around them. `HcopLock` has two instances of `LockManager`, one for
  the switch and one for the DPU.
- `NicRunner` has the operations a device model calls, `I40eQueue` the device built
  on them, and `I40eNic` puts them between a host, a driver and the network.
- `SimulationExecutor` extends `Handshake`: the executor starts the processes whose
  set-up `Handshake` models, and the ends of processes act back on both.

## 2. Modules and code

**`Channel`** What a queue promises: at most `Capacity` messages, each read once,
whole and in order.

**`BaseRing`** One direction of a queue. `slots` is the shared memory, `out_pos`
and `in_pos` are private to the two processes, and the ownership bit of a slot is
all they share. `OutAlloc`, writing header and body, `OutSend` (release store),
`InPoll` (acquire load), reading the body and `InDone` are separate steps.

**`SyncNet`** Any number of simulators in any topology. A step is one iteration over one
port. `OutSync`, `InPeek`, `OutNextSync` and `Message` are the functions of `if.h`.
`SyncPort` and `SyncRetry` are the start of an iteration, `PollNothing`, `PollSync` and
`PollData` the polling, `SendOne` the sending of a packet to one egress port (waiting
for a free entry), `RxDone` the return of its slot and `FireEvent` a device event. At
the end of an iteration `NextPort` (for net_switch) and `NicAdvance` (for nicbm) choose
the next time. Which egress ports a packet gets is left open, since it depends on
addresses, and so is what a device does with a message or an event: it may send a
message on its ports and schedule its next event (`DeviceSends`, `Schedule`). All
connections are synchronised. A simulator that is beyond `Horizon` does not advance any
more but keeps serving its peers.

**`Handshake`** `Listen`, `Connect`, `Connected`, `IntroSend`, `IntroRecv` and
`SimBricksBaseIfEstablish`. Sockets are non-blocking unless the process is in
`Blocking`. `Turn` is what the loop of Establish does with one interface; turns
that find nothing to do are left out. A refused channel makes the process exit,
which its peers see as the end of the stream; so does a signal.

**`SimulationExecutor`** `run()` and its start tasks, as asyncio interleaves them: a
step is what happens between two awaits. `Graph` is the dependency graph, `Sort`
and `Gathered` are one generation of the topological sorter, `Begin`, `Launched`,
`Ready` and `TimedOut` a start task, `ExternalUp` and `ExternalReady` the wait for a
proxy of another fragment. `GatherFails`, `Cancel` and `WaitOver` are the three ways
out of the main part; `Drain` cancels what is left of the start tasks, `Escalate`
and `Terminated` are `terminate_collect_sims`. A proxy has the channels of the
simulators it stands for. The callbacks of the executor are taken not to suspend, and
`run()` is cancelled at most once. The time-out of `await_file` (ten minutes) is taken to
strike only a process that cannot create its socket any more.

**`NicRunner`, `I40eQueue`, `I40eNic`** A NIC is a record; the operators of `NicRunner`
(`IssueDma`, `DmaTrigger`, `IntIssue`, `EventSchedule`, `EventCancel`) and of
`I40eQueue` (fetch, preparation, processing and write-back of descriptors for the
admin, transmit and receive queues, with TSO, and `SignalInterrupt`) map it to the
record after the call. The actions of `I40eNic` are one message, packet or event of
the main loop, the host memory carrying out any one of the operations sent to it,
and a driver that only looks when interrupted, with MSI-X or MSI, and that may disable
interrupts for a while and reset the device. Bytes are
named by packet and offset, so that a frame tells where its bytes came from.

**`MemFabric`** Hosts, interconnect, basicmem, memnic, memswitch and netmem with a pair
of rings per link. The simulators differ in what they do when a ring is full: wait, lose
the message, come back to it later, or end. Both address maps are modelled as searched,
and compared with the layout `Home` that is meant. The static MAC entries of the
memswitch come from the names of its sockets (`memswitch.cc:561`), so they may be
missing or name the wrong port. Then a request may be sent to a netmem it is not for
(`stray`), or flooded to several, which all answer (`forked`). A second answer names a
`Pending` object that is gone: `UseAfterFree` lets the interconnect end, or complete
whatever request of whichever host it finds there.

**`LockManager`, `LockService`** The manager is translated function by function:
`HandleAcquire`, `HandleRelease`, `CheckTimeouts`, `GrantNextWaiter`, the two ways
to run out of room. The code uses time only to add a lease and to compare, so
time is relative: `Now` is constant and `Tick` lowers every expiry. Clients hold a
lock from GRANT to their RELEASE, a TIMEOUT or the expiry.

**`BarrierManager`, `BarrierService`** `SetParticipants` and `Arrive`, with the
generation modulo `GenMod` (2^16 in the code). `Marked` are the senders that have a bit
in the 64-bit mask; an arrival of any other is counted every time. Nodes count rounds
without limit, send the low part and may repeat a message up to `MaxCopies` times.

**`PaxosNode`, `PaxosGroup`** All handlers, `Propose` and `StartLeaderElection`.
`msgs` counts the copies of each message under way (`Sent`, `Taken`): messages are
neither lost nor duplicated, but arrive in any order, and replicas that are down get
none.

**`HcopLock`** `HandlePacket`, `HandleLock`, `ProcessEvents` of the switch, and
`EthRx`, the core pool and the completion of a core in the DPU. The variable
`place` is the placement of an experiment: mode, fallback, cores and users. A switch that
forwards and has nowhere to forward to floods the frame, which no tier answers.

**`DistProxy`** The two proxies between a listening and a connecting simulator,
each with a poll thread and an I/O thread. `AcceptEvent`, `PeerEvent` and
`RxIntro` are the start; `PollSrc` and `PollDst` are `BasePoll`; `RxEntry`,
`RxWritten` and `RxCleaned` handle what comes from the socket. Positions are
unsigned integers modulo `Word` (2^32 in the code), whose difference is taken
modulo the ring size, as in the code. Connections do not break. A message that has
arrived is handled: `SockEvent` first waits for the size of the largest message struct
(304 bytes), which introductions are padded to and entries exceed.

## 3. Runs

| Run | Instance | Shows |
|---|---|---|
| `ring` | 2 entries, 3 contents | `BaseRing` implements `Channel`; the owners never share a slot; everything sent is processed |
| `sync_net` | a nicbm device and two switch loops in a triangle, 2 entries, latencies 1 and 3, max_step 2, a timer | causality, monotone timestamps, bounded skew, forwarding on time, progress although queues fill and syncs are repeated |
| `lock_service` | 3 clients, 1 key, leases 0 (default), 1 and 2, two clients that renew | mutual exclusion, honoured leases, FIFO order, nobody forgotten, every ACQUIRE granted unless a client keeps the lock for ever |
| `barrier_service` | 3 nodes, 5 rounds, generations modulo 2, 3 copies | nobody gets through early, old messages have no effect, all rounds complete |
| `paxos_group` | 3 replicas, two setups | agreement, quorum behind every commit, nothing taken back, everybody learns |
| `paxos_election` | 3 replicas, 1 election | violated: see section 6 |
| `startup` | a network, a proxy for a memory and a connecting proxy with its remote end, 3 channels, ten setups; sync modes, protocol, pool, program or remote proxy may be wrong; cancellation at any time | both ends agree or both refuse, queues are disjoint and crossed, start in order of dependencies, a good run succeeds, every run ends, and when `run()` returns no process is left |
| `hcop_lock` | 3 clients, 2 keys, six placements | exclusion where one table decides, tables match the holders, everybody is served |
| `hcop_two_holders` | 2 clients, switch and DPU | violated: see section 6 |
| `dist_proxy` | rings of 4 entries, thresholds of 2 | the proxies implement `Channel`, so that no entry is overwritten, and everything arrives |
| `i40e_nic` | rings of 3, 4 and 6 descriptors, 2 contexts, 2 DMA operations in flight, fourteen workloads | frames leave once, in order and with the right bytes, packets reach the driver, commands are answered, no assertion fails, an interrupt-driven driver is served (exceptions in section 5) |
| `mem_fabric` | 2 hosts, a basicmem, 2 memnics, 2 netmems, thirteen configurations | completions match requests and reads see the last write unless requests go astray, every request is answered when rings are large enough and the memswitch knows its netmems |

Every property of a passing run has a mutant: a definition of the model with a
plausible bug, under which TLC finds the property violated.

### Bounds

- `ring`: with two entries the ring is empty, partly full and full, and indices
  wrap; three contents tell a message from its neighbours and from an older one in
  the same slot. The proofs cover every size.
- `sync_net`: the device is connected by links of latency 3 and the others by one of
  latency 1, `max_step` is 2 and the timer 1, so that each reason to stop (an input, a
  sync point, `max_step`, an event) is the first at some time. With `Horizon` 5 a
  message of the device goes round the triangle and comes back to it. The device sends
  one message at a time (`MaxCopies`) and only for its first event (`Sending`), which
  queues of two entries can take (section 5); they fill, which makes the sync retry
  happen. Unequal intervals and latencies on one link are left to the proofs, which
  cover every topology, horizon, size and number of messages.
- `lock_service`: three clients are a holder, the next one and one more, which is
  what order is about. One key is enough for the properties, since keys
  only share the limit on the table; the proofs cover several keys and full tables.
- `barrier_service`: `GenMod` 2 makes the generation wrap every other round, which
  is the hardest case; five rounds wrap twice.
- `paxos_group`: the setup Stable has a leader that proposes in two rounds for
  two instances, with one acceptor that has room for one. Takeover has two running
  replicas and two elections after a proposal.
- `startup`: two channels between the same processes, handled in opposite order,
  and a third one that blocks; a dependency on a remote proxy; a proxy that is started
  together with a simulator, so that its launch may be cut off by a failure or by
  cancellation. One thing is wrong at a time, at different points of the start.
- `hcop_lock`: one client may have the lock from the switch, one from the DPU and one
  wait; with two requests under way a RELEASE is followed by the next ACQUIRE before it
  has arrived. `inFlight` bounds them for each client, as three clients with two requests
  each in switch_dpu are too many states for the liveness property. One placement has no
  tier at all. The tables have
  room for one key, so that the second key overflows them.
- `dist_proxy`: four entries are two thresholds, the least for which progress
  holds. A poll takes up to two entries, so that it ends before the data do.
- `i40e_nic`: six transmit descriptors go round a ring of four (or three and six, which
  do not divide `Word`); two contexts and two operations in flight make both limits
  bind; a unit is sent by TSO in two frames from a buffer fetched in two parts, another
  from two buffers. The workloads are separate initial states: transmit with each form
  of write-back, mixed traffic, a reset at any moment, the admin queue, a throttling
  interval lowered while interrupts are due, interrupts disabled for a while, MSI, a
  host that ends.
- `mem_fabric`: two hosts with the same request ids, one cell that is reached through
  two memnics, rings that hold all requests and rings of one and two slots; static MAC
  entries that are right, missing (with one and with two netmems) and exchanged.

### Fairness

- `ring`: the consumer goes on polling, and a producer that has taken a slot hands
  it over. Nobody has to send.
- `SyncNet`: every simulator keeps running (the processes spin), so each takes a
  step if it can. Devices need not send.
- `LockService`: messages arrive and are handled. Nobody has to call `CheckTimeouts`, and
  clients need not release.
- `BarrierService`: nodes arrive, and messages arrive.
- `PaxosGroup`: messages arrive. Nobody has to propose.
- `SimulationExecutor`: the event loop runs what is ready, processes that can go on do
  and react to SIGINT or at least to SIGKILL, and an awaited simulator that is set up
  comes to its end. There are no loops, so one fairness condition for all of these is
  enough. Nobody has to cancel a run.
- `HcopLock`: switch and DPU keep running, and clients release what they hold,
  because the tiers never time a lease out.
- `DistProxy`: both threads of both proxies run, and the receiver polls. Reports on
  behalf of other channels are possible but not promised.
- `I40eNic`: the device runs, the host carries out DMA operations, and the driver
  posts its work, handles interrupts and enables them again. It need not reset the device.
- `MemFabric`: the simulators run and hosts issue their programs.

## 4. Proofs

Eight modules hold theorems; they are checked by TLAPS with Z3, Zenon and LS4. All
theorems hold for every value of the constants allowed by the named assumptions.

**`BaseRingProofs`** (from the assumption that `N` is positive) `RingWindow`: the
slots handed over are the window between the two private indices. `RingNoSharedAccess`:
producer and consumer never have the same slot. `RingImplementsChannel`: every
step of the ring is a step of `Channel` or stutters. Neither process can see
the other's index, so the inductive invariant `Inv` has to connect both with the
ownership bits: `OwnershipWindow` does that, and `Progress` says where the
indices stand in the middle of an operation and that a slot handed over holds one
whole message. The arithmetic of positions modulo `N` is in lemmas of its own.

**`SyncNetProofs`** (from `TopologyAssumption`:
links go both ways; `ParamsAssumption`: `sync_interval <= link_latency`, as
`SimbricksBaseIfInit` demands) `SyncTypes`, `SyncCausality`, `SyncMonotone`,
`SyncSkew`, `SyncForwardedOnTime` and `SyncNoDeadlock`, for every topology of
switches and devices and all latencies and queue sizes. The inductive invariant
`SyncInv` has three parts beyond types. `LinkInv`: for each link, receiver clock <=
`in_timestamp` <= all timestamps in the queue, in order, <= `out_timestamp` plus
latency, and `out_timestamp` <= sender clock. `MinInv`: the running minimum of
net_switch is no larger than the `in_timestamp` of each port it has polled, which
is why the jump is safe although the ports were read at different moments.
`DueInv`: a port that has been synced at the current time owes nothing before the
next interval. There is one lemma per action.

**`LockProofs`** (from `ClientAssumption`, `TableAssumption` and, where
stated, `~Retry`) `LockTypes`, `LockInvariant`, `LockLeaseHonoured`,
`LockMutualExclusion`: for any number of clients and keys, any leases and any sizes
of table and queue. Mutual exclusion follows from `LeaseHonoured` (a lease a client
counts on is in the table), which is not inductive: a RELEASE or an ACQUIRE under
way may take the lock away or change it. `LockInv` adds that a client with a request
under way is quiet, that is, not queued and with no GRANT on its way, and that a
GRANT is the last word to a client. `LockNoOvertaking` needs less, namely that no
client is twice in a queue, and holds with `Retry` too. `LockNotForgotten` adds
`Told`: a client with a DENY, received or on its way, is in the queue, or a GRANT
follows. It has the hypothesis `Room`, at most `MaxWaiters + 1` different clients
(`max_waiters_per_key_` is 16 unless set): a client that is denied because the
queue is full is nowhere in the table and gets the same DENY as one that is queued.

**`BarrierProofs`** (from `BarrierAssumption`, `ServiceAssumption`: as many participants
as nodes, all of them with ids below 64) `BarrierTypes`, `BarrierInvariant`,
`BarrierNobodyPasses`, `BarrierStaleIgnored`: for any number of nodes and barriers, any
number of repeated messages and any generation width from two values on. The manager
only knows a generation modulo `GenMod`. The invariant names the round `R` it is in:
each node is in round `R`, or in `R - 1` with its RELEASE on the way, and ARRIVE
messages are of these two rounds, whose generations differ. This is also why a wrap of
the counter does no harm as long as channels are FIFO.

**`StartupProofs`** (from `HandshakeAssumption`: an interface belongs to one process,
its peer to another, and queues have a size; `ExecutorAssumption`: finitely many
processes, an acyclic dependency graph) `StartupChannels`, `StartupInvariant`,
`StartupOrder`, `StartupNothingLeft`: for any number of processes, channels and
proxies, any mistakes in the setup, and signals and cancellation at any time.
`ChannelInv` says what has been read of the introductions, by which end, and that the
queues carved from a pool are disjoint and below its fill level; that an end which is
open has compatible parameters then follows at both ends, although neither sees the
other's decision. `ExecutorInv` connects four places that keep track of a start: the
counts of the sorter, the start tasks, the processes and their sockets. A node is
handed out only when its predecessors are done, a task is done only when the sockets
exist, and sockets stay until the end. For `NothingLeft` it follows each process from
its start to the collection, through every way out of `run()`; the exceptions it
makes are those of section 6.

**`PaxosProofs`** (from `PaxosAssumption`: 3 to 5 replicas, as the
library allows; `GroupAssumption`) `PaxosInvariant`, `PaxosAgreement`,
`PaxosQuorumBacked`, `PaxosNeverBack`, all under the hypothesis `StableLeader`: nobody
calls `StartLeaderElection`, which only tests of the library do. With elections
`QuorumBacked` is false (section 6), so the hypothesis cannot be dropped. The theorems
cover any number of instances, values, rounds and proposals of the leader for the same
instance, any replicas that are down or have no room, and any order of delivery. The
leader counts ACCEPTED messages, not acceptors. That this is the same is the core of
`PaxosInv`: of the current proposal there is at most one ACCEPT to each acceptor and
one ACCEPTED from it under way, the former only before and the latter only after the
acceptance, and the acceptors counted are different (`Counted`) and have nothing under
way any more. A new proposal for the same instance starts a new count, and old answers
are told apart by their number. Replicas commit only what the leader has committed,
whose own log always has room for it, since proposing has put the instance there.

**`HcopProofs`** (from `PlacementAssumption`: the switch has room for a key, the DPU has
a core) `HcopOneTable`, `HcopExclusion`, `HcopHolders`: in the placements switch_only
and dpu_only, for any number of clients, keys, cores and requests under way and any
size of table and queue. With a table at each tier exclusion is false (section 6), so
that the hypothesis `OneTable` cannot be dropped. A request passes the queues `up`,
`toDpu` and `cores`, an answer `fromDpu` and `down`, and frames that the DPU has no core
for come back and are lost. Exclusion follows from `PlaceInv`: for each key a client is
asking, queued, given the lock or holding it, one at a time, and only the holder that
the table names is given it or holds it. That is inductive only together with the order
of messages over the hops: a RELEASE may be under way in any of the three queues while
the client asks again, but never behind the ACQUIRE (`OrderInv` in one queue, `QueueInv`
across two), or it would free the lock of the next round. `HcopHolders` is the one-table
case of the first half of `TablesTruthful`.

**`FabricProofs`** (from `FabricAssumption`: address ranges lead to devices that exist,
and the kinds of simulators are different processes) `FabricInvariant`,
`FabricMatching`: for any number of hosts, memories and ring slots, any programs,
address maps and static MAC entries, with losses, late sends and the end of the
interconnect, until a request is flooded to several netmems (`forked`). The interconnect
casts the id of a completion to a pointer, so a completion that comes twice or for no
object would be fatal; but the memswitch copies packets to all ports when it does not
know an address, and the id of a deleted object may be used again. `FabricInv` therefore
counts tokens. A place is a slot of a ring or the packet the memswitch is busy with, and
is live when a completion will come of what is there: a copy of a request counts only at
a netmem, and the packet the memswitch has begun to send counts at the memswitch, no
longer in its ring. `TokenInv`: a live place names a `Pending` object, of the right
kind, and no two live places the same. `HostInv` says likewise that each operation of a
host is in one place: its request ring, the interconnect, its completion ring or its
answers. `SwitchInv` says which floods are harmless: those where at most one of the
ports acts on the packet. A wrong static entry leads to the wrong memory, but to one,
and completions still match.

### Only model-checked

- Liveness (`EveryMessageProcessed`, `AllReachHorizon`, `EventuallyGranted`,
  `AllRounds`, `EverybodyLearns`, `Established`, `RunEnds`, `EntriesArrive`,
  `AllServed`, `AllAnswered`) is out of the prover's reach.
- `NotForgotten` when there are more clients than places in a queue, and the
  properties of `PaxosGroup` with elections (setup Takeover of `paxos_group`).
- `TablesTruthful` of `HcopLock` beyond `HcopHolders`, that is, with ample resources. It
  does not hold for all constants: with several keys a client may have more releases
  under way than `inFlight` says, and one of them finds the cores of the DPU busy.
- `DistProxy` implementing `Channel`. Positions are compared modulo `Word` and modulo
  the ring size at once, on four counters in two processes.
- `Coherent` of `MemFabric`, which compares reads with a history of all operations and
  needs the order of requests to one cell along every way through the rings.
- `I40eNic`. Its properties compare frames with what was posted, by recursion over
  descriptors.

## 5. What the results rest on

- Clients and nodes of the HCOP primitives are guest programs of the disk images;
  their behaviour is taken from the message definitions of `lib/hcop`. Lock clients
  do not repeat an ACQUIRE after a DENY (`Retry = FALSE`). If they do, a repeated
  ACQUIRE that is handled after the grant is taken for a renewal and answered by a
  second GRANT, and lock messages have no request number by which the client could
  tell the two apart.
- Channels between primitives are reliable and FIFO per pair, as the simulated
  links are; Paxos messages may overtake each other.
- A Paxos replica does not come back after a crash: it is down from the start, or
  nothing is delivered to it any more, which the safety properties allow at any time.
- Leases run out only where somebody calls `CheckTimeouts`. Neither tier does: the
  DPU handler passes `now_ns = 0` and refers to a "separate periodic timer"
  (`sims/nic/dpu_bm/lock_dpu_handler.cc:28`) that does not exist. `HcopLock`
  therefore has clients that release.
- Progress of `SyncNet` needs queues that hold what the latency allows to be under
  way. If the device of `sync_net` may send on both its ports at once (`MaxCopies` 2),
  queues of two entries fill at both ends of a link and the simulators stop each other,
  all waiting for a free entry, which polls nothing; with three entries they do not.
- Progress of `DistProxy` needs rings of at least two report thresholds (256 entries
  with the constants of `base.c`; the default rings have 8192). With smaller rings, or
  with sizes that do not divide 2^32 and little slack, both sides wait for a report that
  is not due yet.
- The properties of `I40eNic` except states after a reset that has overtaken a DMA
  operation: the reset gives the descriptor contexts back, and the late completion finds
  them free or in use for something else. `AllServed` also excepts runs in which
  `EventCancel` has erased the interrupt of another vector that was due at the same time
  (`events_.erase` takes all events of equal time, `lib/simbricks/nicbm/nicbm.cc:292`);
  that vector stays armed and is silent from then on. Two more exceptions are a host
  that has ended and a queue that does not see what was posted (`Overlooked`): for a
  length that does not divide 2^32 the difference of tail and index comes out wrong
  (`sims/nic/i40e_bm/i40e_queues.cc:68`). The driver looks once more after it has
  enabled interrupts, as a signal while they are disabled is not kept
  (`sims/nic/i40e_bm/i40e_lan.cc:220`), and posts no empty last descriptor, for which
  `trigger_tx` would not end.
- Nodes of a barrier have ids below 64. A node with a larger id has no bit in the mask,
  and each repetition of its ARRIVE would count as another arrival.
- Progress of `MemFabric` needs rings that hold the requests of all hosts, and a memswitch
  that knows its netmems or has only one other port (`Provided`).
  Otherwise memnic loses messages, netmem changes their order and interconnect ends.
  Posted writes must go to a basicmem: memnic does not know them.
- `RunEnds` does not cover an external proxy that never comes up, for which there is
  no time-out, nor simulators that hang while they run: exit codes are ignored, and
  the end of a simulator that is not awaited is not noticed.
- The memory model is that of the release stores and acquire loads in `if.h`:
  sequential per slot. Reordering by the hardware within these rules is not modelled.

## 6. Where code and description differ

- `paxos_election` (`lib/hcop/paxos_state.cc:175`): each promise beyond the quorum
  sends the Accept again under the same number, and answers are counted as messages.
  One acceptor can make up a quorum, and a value is committed that a later election
  need not find.
- `hcop_two_holders` (`sims/net/hcop_switch/primitive_engine.cc:230`): a contended
  ACQUIRE goes to the DPU, whose table does not know of the lock the switch has
  granted, and is granted there.

Smaller differences, met while modelling:

- `simulation_executor.py:345` says that the code which terminates all simulators is
  "always" executed. When a start fails while a proxy is being started or waited
  for, `await task` raises the `CancelledError` of that task out of `run()` before,
  and the simulators stay alive. The same happens when `run()` itself is cancelled while
  it launches a proxy and another start task is cancelled with it. `NothingLeft` says that
  these are the only such ways.
- A frame that finds all cores of the DPU busy is "escalated to host"
  (`hcop_proto.h:51`) but returns to the DPU through the fallback port. A RELEASE that
  goes round like this can be overtaken by the next ACQUIRE of its client, and then
  frees a lock in use. `TablesTruthful` therefore says that holders are in the table
  only for one table or ample resources (`OneTable \/ Ample`).
- In switch_only a contended ACQUIRE is sent to the fallback port before the DENY of the
  manager is looked at (`primitive_engine.cc:236`), and is never answered.
- `SimbricksBaseIfClose` sends TERMINATE at `UINT64_MAX`, so that its timestamp wraps
  (`lib/simbricks/base/if.c:839`); net_switch stops on a message of that type
  (`sims/net/switch/net_switch.cc:407`).
- `event_queue_` of the HCOP switch is a `priority_queue`, which does not keep packets of
  equal time in order; the model keeps the order of a port.
- The two threads of the sockets proxy write to one socket without a lock
  (`dist/sockets/net_sockets.c:486`); the model sends a message in one step.

## 7. Not modelled, and why

- Pure conversion and configuration: URL parser, configuration files, schemas,
  command line, client, experiment scripts.
- The e1000 model, taken over from gem5, and adapters to other simulators (Tofino,
  Menshen): sequential, and tied to hardware manuals or vendor code. Of i40e, the
  registers without effect on queues, HMC translation, RSS, checksums and PTP.
- RDMA proxy: shares `base.c` with the sockets proxy; the rest depends on the verbs
  library.
- Main runner and fragment runners: their protocol runs over a REST back end that is
  not in the repository, and depends on how it stores and delivers events.
- Barrier and Paxos handlers of switch and DPU: they call the primitives, which are
  modelled, as the lock handlers do. Tables with several tiers are the hard part, and
  `HcopLock` has it.
- MAC learning of net_switch: `SyncNet` leaves the egress ports open. The memswitch, which
  learns in the same way, is in `MemFabric`.
- Accesses of more than one cell in `MemFabric`.
- Components without a channel, which are in no dependency graph and never started.
- Awaited simulators of other fragments (`simulation_executor.py:235`): `run()` waits for
  their ends too, which it is told of by the runner (`mark_simulator_terminated`).
- Several messages of a device on one port at once, and connections without
  synchronisation, in `SyncNet`.
- Error exits that end the process with a message and have no effect on a peer.
- Statistics, logging, packet capture.

## 8. Possible extensions

1. Runners, once the behaviour of their back end is known.
2. Barrier and Paxos across switch and DPU; the switch's handling of
   `kAlreadyCommitted`.
3. TERMINATE, its timestamp and the end of the main loops in `SyncNet`.
4. Proofs: `DistProxy` implementing `Channel`, `Coherent` of `MemFabric`.
