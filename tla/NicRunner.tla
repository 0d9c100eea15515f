------------------------------ MODULE NicRunner ------------------------------
(***************************************************************************)
(* The part of nicbm's Runner (lib/simbricks/nicbm/nicbm.cc) that a device *)
(* model calls: the DMA engine with its limit on outstanding operations,   *)
(* the queue of operations waiting behind that limit, the interrupt        *)
(* messages, and the multiset of timed events.                             *)
(*                                                                         *)
(* Operators map a NIC record n to the NIC record after the call.  The     *)
(* fields they use:                                                        *)
(*   pending     dma_pending_                                              *)
(*   dmaq        dma_queue_                                                *)
(*   d2h         messages sent to the host and not yet taken up by it      *)
(*   terminated  the host has announced its end (InTerminated)             *)
(*   events      events_: records of a due time and a vector               *)
(*   aborted     abort() was called or an assertion has failed             *)
(*   at          time_ of each vector's event, relative to TimePs()        *)
(* Times are relative to the runner's current time, so that a model has    *)
(* finitely many of them; Elapse is one unit of time passing.              *)
(***************************************************************************)
EXTENDS Naturals, Sequences

CONSTANT DMA_MAX_PENDING

ASSUME PendingAssumption == DMA_MAX_PENDING \in Nat \ {0}

(* F applied to x.  Through the singleton x is evaluated once, and not once *)
(* for each of its uses in F.                                                *)
Then(x, F(_)) == CHOOSE r \in {F(y) : y \in {x}} : TRUE

(* One message to the host.  D2HAlloc aborts when the peer has terminated, which *)
(* its callers but H2DRead test before.  Its wait for a free entry is in SyncNet; *)
(* here there is always room.                                                     *)
SendHost(n, m) ==
  IF n.terminated THEN [n EXCEPT !.aborted = TRUE] ELSE [n EXCEPT !.d2h = Append(@, m)]

(* The host's end is noticed before dma_pending_ is counted up. *)
DmaDo(n, op) ==
  IF n.terminated THEN n ELSE [SendHost(n, op) EXCEPT !.pending = @ + 1]

IssueDma(n, op) ==
  IF n.pending < DMA_MAX_PENDING
  THEN DmaDo(n, op)
  ELSE [n EXCEPT !.dmaq = Append(@, op)]

DmaTrigger(n) ==
  IF n.dmaq = <<>> \/ n.pending = DMA_MAX_PENDING
  THEN n
  ELSE DmaDo([n EXCEPT !.dmaq = Tail(@)], Head(n.dmaq))

(* What follows the device's DmaComplete in H2DReadcomp and H2DWritecomp. *)
DmaRetire(n) == Then([n EXCEPT !.pending = @ - 1], DmaTrigger)

(* MsiIssue and MsiXIssue; nothing is sent to a host that has terminated. *)
IntIssue(n, type, v) == IF n.terminated THEN n ELSE SendHost(n, [op |-> type, vec |-> v])

(***************************************************************************)
(* Timed events.  erase(&evt) removes every element EQUIVALENT to evt      *)
(* under EventCmp, that is every event due at the same time (all           *)
(* interrupt events have priority 0), not just evt itself.                 *)
(***************************************************************************)
EventSchedule(n, v) ==
  [n EXCEPT !.events = @ \cup {[at |-> n.at[v], vec |-> v]}]

EventCancel(n, v) ==
  LET gone == {e \in n.events : e.at = n.at[v]}
  IN [n EXCEPT !.events = @ \ gone,
               !.lost   = @ \cup ({e.vec : e \in gone} \ {v})]

DueEvents(n) == {e \in n.events : e.at = 0}

Elapse(n) ==
  [n EXCEPT !.at     = [v \in DOMAIN @ |-> IF @[v] = 0 THEN 0 ELSE @[v] - 1],
            !.events = {[e EXCEPT !.at = @ - 1] : e \in @}]

==============================================================================
