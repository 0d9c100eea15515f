------------------------------ MODULE I40eQueue ------------------------------
(***************************************************************************)
(* The descriptor queues of the i40e NIC model: queue_base                 *)
(* (i40e_queues.cc), the admin queue (i40e_adminq.cc), the LAN transmit    *)
(* and receive queues (i40e_lan.cc) and the interrupt throttling they      *)
(* signal through (i40e_bm.cc).                                            *)
(*                                                                         *)
(* Like the Runner's, these operators map a NIC record to the NIC record   *)
(* after the call.  n.q[k] is queue k ("atq", "tx" or "rx"):               *)
(*   on, enabling         enabled, enabling                                *)
(*   len                  len, the descriptors of the ring                 *)
(*   first, idx, cnt      active_first_pos, active_first_idx, active_cnt   *)
(*   head, tail           reg_head, reg_tail                               *)
(*   st, desc, data       the descriptor contexts: state, descriptor, data *)
(*   ready                ready_segments (tx) or dcache (rx): positions    *)
(*   tsoOff, pktbuf       tso_off; the first tso_len bytes of pktbuf       *)
(* n.armed, n.itr: iev_.armed and the throttling interval of each vector;  *)
(* n.qctl[k]: the fields CAUSE_ENA and MSIX_INDX of the interrupt control  *)
(* register of a LAN queue; n.intena: INTENA of PFINT_DYN_CTL0; n.msix:    *)
(* int_msix_en_; n.hwb: head write-back.  History: n.wire (frames sent), n.kept (packets *)
(* accepted), n.lost (vectors whose event another's cancellation erased)   *)
(* since the last reset, and n.stale (a reset overtook a DMA operation).   *)
(* A failed assertion or an abort() sets n.aborted, and the NIC stops.     *)
(* Bytes are cells <<packet, offset>>, so that a test can tell where each  *)
(* byte on the wire or in a buffer came from.                              *)
(***************************************************************************)
EXTENDS NicRunner, SequencesExt, FiniteSetsExt

CONSTANTS
  MAX_ACTIVE_DESCS,   \* descriptor contexts of a queue
  MAX_DMA_SIZE,       \* the longest single data fetch
  MTU,                \* the longest frame
  Word                \* 2^32: reg_tail and the index are uint32_t

ASSUME QueueAssumption ==
  {MAX_ACTIVE_DESCS, MAX_DMA_SIZE, MTU, Word} \subseteq Nat \ {0}

Queues == {"atq", "tx", "rx"}
LanQueues == {"tx", "rx"}

(* A buffer address that is none of the ring's buffers. *)
NoSlot == Word

(* Written back, a descriptor no longer holds an address or a command. *)
DoneDesc(last) == [type |-> "done", eop |-> last, slot |-> NoSlot, len |-> 0,
                   cmd |-> 0, rd |-> FALSE, wr |-> FALSE]

(* No descriptor, and no byte. *)
NoDesc == [DoneDesc(FALSE) EXCEPT !.type = "none"]

NoByte == <<>>

Abort(n) == [n EXCEPT !.aborted = TRUE]

Position(i) == i % MAX_ACTIVE_DESCS

Positions(p, c) == {Position(p + i) : i \in 0..(c - 1)}

(* The contexts P of queue k go to state s. *)
SetState(n, k, P, s) ==
  [n EXCEPT !.q[k].st = [p \in DOMAIN @ |-> IF p \in P THEN s ELSE @[p]]]

(* How many contexts from the i-th active one on are in a state of S. *)
Run(q, i, S) ==
  Max({c \in 0..(q.cnt - i) : \A p \in Positions(q.first + i, c) : q.st[p] \in S})

Past == {"PROCESSING", "PROCESSED", "WRITING_BACK", "WRITTEN_BACK"}

Prepared(n, k, p) ==
  IF n.q[k].st[p] = "PREPARING" THEN SetState(n, k, {p}, "PREPARED") ELSE Abort(n)

Processed(n, k, p) ==
  IF n.q[k].st[p] = "PROCESSING" THEN SetState(n, k, {p}, "PROCESSED") ELSE Abort(n)

(* One part, from offset off on, of the total bytes in a buffer. *)
DataFetch(n, k, p, slot, off, total) ==
  IssueDma(n, [op |-> "data", q |-> k, pos |-> p, slot |-> slot, off |-> off,
               len |-> Min({MAX_DMA_SIZE, total - off}), total |-> total])

DataWrite(n, k, p, slot, val) ==
  IssueDma(n, [op |-> "datawb", q |-> k, pos |-> p, slot |-> slot, val |-> val])

(***************************************************************************)
(* Receive: num_descs cached descriptors take the packet, one part each,   *)
(* or the packet is dropped.                                               *)
(***************************************************************************)
PartReceived(n, pkt, i, num) ==
  LET p == Head(n.q["rx"].ready)
      s == n.q["rx"].desc[p].slot
  IN DataWrite([n EXCEPT !.q["rx"].ready   = Tail(@),
                         !.q["rx"].desc[p] = DoneDesc(i = num)],
               "rx", p, s, <<<<pkt, i>>>>)

RECURSIVE PartsReceived(_, _, _, _)
PartsReceived(n, pkt, i, num) ==
  IF i > num THEN n
  ELSE Then(PartReceived(n, pkt, i, num), LAMBDA m : PartsReceived(m, pkt, i + 1, num))

PacketReceived(n, pkt, num) ==
  IF ~n.q["rx"].on \/ Len(n.q["rx"].ready) < num
  THEN n
  ELSE Then([n EXCEPT !.kept = Append(@, pkt)], LAMBDA m : PartsReceived(m, pkt, 1, num))

(***************************************************************************)
(* Transmit: a unit is an optional context descriptor and data descriptors *)
(* up to one with EOP.  With TSO the unit leaves as several frames, each   *)
(* the header and at most mss bytes; pktbuf keeps the header between them. *)
(***************************************************************************)
(* The dcnt descriptors the copy loop went through are done. *)
UnitDone(n, dcnt) ==
  LET q == n.q["tx"]
      P == {q.ready[i] : i \in 1..dcnt}
      Mark(f, v) == [p \in DOMAIN f |-> IF p \in P THEN v ELSE f[p]]
  IN IF \E p \in P : q.st[p] # "PROCESSING"
     THEN Abort(n)
     ELSE [n EXCEPT !.q["tx"] = [q EXCEPT !.st     = Mark(@, "PROCESSED"),
                                          !.desc   = Mark(@, DoneDesc(TRUE)),
                                          !.ready  = SubSeq(@, dcnt + 1, Len(@)),
                                          !.tsoOff = 0,
                                          !.pktbuf = <<>>]]

(* The bytes of data segments, in order: as many as their descriptors say. *)
RECURSIVE Bytes(_, _)
Bytes(q, segs) ==
  IF segs = <<>> THEN <<>>
  ELSE LET data == q.data[Head(segs)]
       IN [i \in 1..q.desc[Head(segs)].len |-> IF i \in DOMAIN data THEN data[i] ELSE NoByte]
          \o Bytes(q, Tail(segs))

(* The next frame of the unit at the front of ready; TRUE in more: not the last. *)
(* The copy loop stops when it has all the bytes: an EOP descriptor without any   *)
(* stays in ready, makes up an empty unit, and trigger_tx never ends.             *)
NextFrame(q, unit) ==
  LET first == q.desc[unit[1]]
      skip  == IF first.type = "ctx" THEN 1 ELSE 0
      segs  == SubSeq(unit, skip + 1, Len(unit))
      tso   == skip = 1 /\ first.tso
      hdr   == q.desc[unit[Len(unit)]].hdr
      goal  == (IF q.tsoOff = 0 THEN hdr ELSE q.tsoOff) + first.mss
  IN Then(Bytes(q, segs), LAMBDA b :
       LET limit == IF tso THEN Min({goal, Len(b)}) ELSE Len(b)
       IN [bytes |-> q.pktbuf \o SubSeq(b, q.tsoOff + 1, limit),
           end |-> limit, hdr |-> hdr, more |-> tso /\ limit < Len(b),
           dcnt |-> skip + Min({c \in 0..Len(segs) : Len(Bytes(q, SubSeq(segs, 1, c))) >= limit})])

(* Up to the first EOP, everything but a context descriptor at the front is data. *)
RECURSIVE TriggerTx(_)
TriggerTx(n) ==
  LET q    == n.q["tx"]
      type(i) == q.desc[q.ready[i]].type
      eops == {i \in DOMAIN q.ready : type(i) = "data" /\ q.desc[q.ready[i]].eop}
      bad  == {i \in DOMAIN q.ready : /\ type(i) # "data" /\ \A e \in eops : i < e
                                      /\ i = 1 => type(i) # "ctx"}
      Sent(unit, f) ==
        LET m == [n EXCEPT !.wire = Append(@, f.bytes)]
        IN CASE Len(f.bytes) > MTU -> Abort(n)
             [] f.more /\ Len(f.bytes) <= MTU ->
                  [m EXCEPT !.q["tx"].tsoOff = f.end,
                            !.q["tx"].pktbuf = SubSeq(f.bytes, 1, f.hdr)]
             [] OTHER -> UnitDone(m, f.dcnt)
  IN CASE n.aborted -> n
       [] ~n.aborted /\ bad # {} -> Abort(n)
       [] ~n.aborted /\ bad = {} /\ eops = {} -> n
       [] OTHER -> Then(SubSeq(q.ready, 1, Min(eops)), LAMBDA unit :
            Then(NextFrame(q, unit), LAMBDA f : Then(Sent(unit, f), TriggerTx)))

(***************************************************************************)
(* The steps of a context: prepare() after its descriptor was fetched,     *)
(* process() once everything before it was processed.                      *)
(***************************************************************************)
Prepare(n, k, p) ==
  LET d == n.q[k].desc[p] IN
  CASE k = "tx" /\ d.type \notin {"data", "ctx"} -> Abort(n)
    [] (k = "tx" /\ d.type = "data") \/ (k = "atq" /\ d.rd) -> DataFetch(n, k, p, d.slot, 0, d.len)
    [] OTHER -> Prepared(n, k, p)

(* fits: the answer to the command is no longer than its buffer. *)
ProcessAdmin(n, p) ==
  LET d == n.q["atq"].desc[p]
      m == [n EXCEPT !.q["atq"].desc[p] = DoneDesc(TRUE)]
  IN CASE d.wr /\ ~d.fits -> Abort(n)
       [] d.wr /\ d.fits ->
            DataWrite(m, "atq", p, d.slot, Append(n.q["atq"].data[p], <<d.cmd, 0>>))
       [] OTHER -> Processed(m, "atq", p)

(* Mutant: the descriptor cache is a stack. *)
ProcessStack(n, k, p) ==
  LET m == SetState(n, k, {p}, "PROCESSING")
      r == [m EXCEPT !.q[k].ready = IF k = "rx" THEN <<p>> \o @ ELSE Append(@, p)]
  IN CASE k = "atq" -> Then(m, LAMBDA x : ProcessAdmin(x, p))
       [] k = "rx"  -> r
       [] k = "tx"  -> Then(r, TriggerTx)

Process(n, k, p) ==
  LET m == SetState(n, k, {p}, "PROCESSING")
      r == [m EXCEPT !.q[k].ready = Append(@, p)]
  IN CASE k = "atq" -> Then(m, LAMBDA x : ProcessAdmin(x, p))
       [] k = "rx"  -> r
       [] k = "tx"  -> Then(r, TriggerTx)

(***************************************************************************)
(* trigger(): fetch what the driver has posted, process what is prepared,  *)
(* write back what is processed, each only from the front of the window.   *)
(***************************************************************************)
NextIdx(q) == (q.idx + q.cnt) % q.len

(* desc_avail.  The difference wraps at 2^32 before it is reduced modulo the *)
(* length: only when the length divides 2^32 is it right with tail < next.   *)
DescAvail(q) == ((q.tail + Word - NextIdx(q)) % Word) % q.len

(* Mutant: the descriptor contexts are not counted. *)
FetchCountUnbounded(q) == Min({DescAvail(q), q.len - NextIdx(q)})

FetchCount(q) == Min({DescAvail(q), MAX_ACTIVE_DESCS - q.cnt, q.len - NextIdx(q)})

Fetch(n, k, pos, cnt) ==
  LET q == n.q[k]
      P == Positions(pos, cnt)
      m == [SetState(n, k, P, "FETCHING") EXCEPT !.q[k].cnt = @ + cnt]
  IN IF \E p \in P : q.st[p] # "EMPTY" THEN Abort(n)
     ELSE Then(m, LAMBDA x : IssueDma(x, [op |-> "fetch", q |-> k, pos |-> pos, cnt |-> cnt,
                                          idx |-> NextIdx(q)]))

TriggerFetch(n, k) ==
  LET q == n.q[k] IN
  IF ~q.on THEN n
  ELSE Then(FetchCount(q), LAMBDA cnt :
         IF cnt = 0 THEN n ELSE Fetch(n, k, Position(q.first + q.cnt), cnt))

(* The first context not yet processed, as long as it is prepared. *)
RECURSIVE TriggerProcess(_, _)
TriggerProcess(n, k) ==
  LET q == n.q[k]
      i == Run(q, 0, Past)
  IN IF ~q.on \/ n.aborted \/ i = q.cnt \/ q.st[Position(q.first + i)] # "PREPARED" THEN n
     ELSE Then(Position(q.first + i), LAMBDA p :
            Then(Process(n, k, p), LAMBDA m : TriggerProcess(m, k)))

(* Mutant: reg_head is moved when the write-back is issued. *)
DoWritebackHeadFirst(n, k, cnt) ==
  LET q == n.q[k]
      m == [n EXCEPT !.q[k].head = (q.idx + cnt) % q.len]
  IN IF k = "tx" /\ n.hwb
     THEN IssueDma(m, [op |-> "hwb", q |-> k, pos |-> q.first, cnt |-> cnt,
                       val |-> (q.idx + cnt) % q.len])
     ELSE IssueDma(m, [op |-> "wb", q |-> k, pos |-> q.first, cnt |-> cnt, idx |-> q.idx,
                       val |-> [i \in 1..cnt |-> q.desc[Position(q.first + i - 1)]]])

(* With head write-back the transmit queue writes the index, not descriptors. *)
DoWriteback(n, k, cnt) ==
  LET q == n.q[k] IN
  IF k = "tx" /\ n.hwb
  THEN IssueDma(n, [op |-> "hwb", q |-> k, pos |-> q.first, cnt |-> cnt,
                    val |-> (q.idx + cnt) % q.len])
  ELSE IssueDma(n, [op |-> "wb", q |-> k, pos |-> q.first, cnt |-> cnt, idx |-> q.idx,
                    val |-> [i \in 1..cnt |-> q.desc[Position(q.first + i - 1)]]])

TriggerWriteback(n, k) ==
  LET q == n.q[k] IN
  IF ~q.on THEN n
  ELSE Then(Min({Run(q, 0, {"PROCESSED"}), q.len - q.idx}), LAMBDA cnt :
         IF cnt = 0 THEN n
         ELSE Then(SetState(n, k, Positions(q.first, cnt), "WRITING_BACK"),
                   LAMBDA m : DoWriteback(m, k, cnt)))

(* After an abort() nothing more happens. *)
Trigger(n, k) ==
  Then(TriggerFetch(n, k), LAMBDA f :
    IF f.aborted THEN f
    ELSE Then(TriggerProcess(f, k), LAMBDA p :
           IF p.aborted THEN p ELSE TriggerWriteback(p, k)))

(***************************************************************************)
(* Interrupts are delayed by the vector's ITR.  A signal is absorbed when  *)
(* the vector is already armed for a time no later.                        *)
(***************************************************************************)
SignalInterrupt(n, v) ==
  LET m == IF n.armed[v] THEN EventCancel(n, v) ELSE n
  IN IF n.armed[v] /\ n.at[v] <= n.itr[v]
     THEN n
     ELSE EventSchedule([m EXCEPT !.armed[v] = TRUE, !.at[v] = n.itr[v]], v)

(* The interrupt of a vector; without MSI-X there is only vector 0. *)
Raise(n, v) ==
  CASE n.msix            -> IntIssue(n, "msix", v)
    [] ~n.msix /\ v > 0  -> Abort(n)
    [] OTHER             -> IntIssue(n, "msi", 0)

(* Mutant: the vector stays armed after its interrupt. *)
TimedStaysArmed(n, v) == Raise(n, v)

Timed(n, v) == Raise([n EXCEPT !.armed[v] = FALSE], v)

(* Only the LAN queues override interrupt().  A signal while the cause or all  *)
(* interrupts are disabled leaves no trace.                                    *)
Interrupt(n, k) ==
  IF k \in LanQueues /\ n.qctl[k].cause /\ n.intena THEN SignalInterrupt(n, n.qctl[k].vec) ELSE n

(* The written-back contexts at the front of the window are freed.  What they *)
(* held is not read again before the next fetch, and is blanked here.         *)
Bump(n, k) ==
  LET q    == n.q[k]
      bump == Run(q, 0, {"WRITTEN_BACK"})
      free == Positions(q.first, bump)
      Clear(f, v) == [p \in DOMAIN f |-> IF p \in free THEN v ELSE f[p]]
      idx  == (q.idx + bump) % q.len
  IN [n EXCEPT !.q[k] = [@ EXCEPT !.st    = Clear(@, "EMPTY"),
                                  !.desc  = Clear(@, NoDesc),
                                  !.data  = Clear(@, <<>>),
                                  !.first = Position(@ + bump),
                                  !.cnt   = @ - bump,
                                  !.idx   = idx,
                                  !.head  = idx]]

WritebackDone(n, k, pos, cnt) ==
  LET P == Positions(pos, cnt)
  IN CASE ~n.q[k].on -> n
       [] n.q[k].on /\ \E p \in P : n.q[k].st[p] # "WRITING_BACK" -> Abort(n)
       [] OTHER -> Then(SetState(n, k, P, "WRITTEN_BACK"), LAMBDA m :
                     Then(Bump(m, k), LAMBDA b : Interrupt(b, k)))

(***************************************************************************)
(* The done() of each kind of DMA operation; ret is what a read returned.  *)
(***************************************************************************)
RECURSIVE FetchDone(_, _, _)
FetchDone(n, op, ret) ==
  LET p == op.pos
      m == [SetState(n, op.q, {p}, "PREPARING") EXCEPT !.q[op.q].desc[p] = Head(ret),
                                                       !.q[op.q].data[p] = <<>>]
  IN IF ret = <<>> \/ n.aborted THEN n
     ELSE Then(m, LAMBDA x : Then(Prepare(x, op.q, p), LAMBDA y :
            FetchDone(y, [op EXCEPT !.pos = Position(p + 1)], Tail(ret))))

(* The bytes ret put into data at offset off. *)
Overlay(data, off, ret) ==
  [i \in 1..Max({Len(data), off + Len(ret)}) |->
     CASE i - off \in DOMAIN ret -> ret[i - off]
       [] i - off \notin DOMAIN ret /\ i \in DOMAIN data -> data[i]
       [] OTHER -> NoByte]

(* Mutant: the first part of a long buffer is taken for the whole. *)
DataFetchDoneFirstPart(n, op, ret) ==
  LET m == [n EXCEPT !.q[op.q].data[op.pos] = Overlay(@, op.off, ret)]
  IN Then(m, LAMBDA x : Prepared(x, op.q, op.pos))

DataFetchDone(n, op, ret) ==
  LET m   == [n EXCEPT !.q[op.q].data[op.pos] = Overlay(@, op.off, ret)]
      end == op.off + op.len
  IN IF end < op.total
     THEN Then(m, LAMBDA x : DataFetch(x, op.q, op.pos, op.slot, end, op.total))
     ELSE Then(m, LAMBDA x : Prepared(x, op.q, op.pos))

CtxFetched(n, k) == [n EXCEPT !.q[k].enabling = FALSE, !.q[k].on = TRUE]

(* A further part of a data fetch is issued without a trigger(). *)
Done(n, op, ret) ==
  LET m == CASE op.op = "ctx"             -> CtxFetched(n, op.q)
             [] op.op = "fetch"           -> FetchDone(n, op, ret)
             [] op.op = "data"            -> DataFetchDone(n, op, ret)
             [] op.op = "datawb"          -> Processed(n, op.q, op.pos)
             [] op.op \in {"wb", "hwb"}   -> WritebackDone(n, op.q, op.pos, op.cnt)
      more == op.op = "data" /\ op.off + op.len < op.total
  IN Then(m, LAMBDA x : IF x.aborted \/ more THEN x ELSE Trigger(x, op.q))

(***************************************************************************)
(* Register writes.                                                        *)
(***************************************************************************)
Enable(n, k) ==
  CASE k = "atq" -> Then([n EXCEPT !.q[k].on = TRUE], LAMBDA m : Trigger(m, k))
    [] k # "atq" /\ (n.q[k].enabling \/ n.q[k].on) -> n
    [] OTHER -> [IssueDma(n, [op |-> "ctx", q |-> k]) EXCEPT !.q[k].enabling = TRUE]

Disable(n, k) == [n EXCEPT !.q[k].on = FALSE]

TailUpdated(n, k, t) ==
  Then([n EXCEPT !.q[k].tail = t], LAMBDA m : IF m.q[k].on THEN Trigger(m, k) ELSE m)

NewQueue(len) ==
  [on |-> FALSE, len |-> len, enabling |-> FALSE, first |-> 0, idx |-> 0, cnt |-> 0,
   head |-> 0, tail |-> 0, ready |-> <<>>, tsoOff |-> 0, pktbuf |-> <<>>,
   st   |-> [p \in 0..(MAX_ACTIVE_DESCS - 1) |-> "EMPTY"],
   desc |-> [p \in 0..(MAX_ACTIVE_DESCS - 1) |-> NoDesc],
   data |-> [p \in 0..(MAX_ACTIVE_DESCS - 1) |-> <<>>]]

(***************************************************************************)
(* The whole device.  Neither dma_queue_ nor the operations in flight are  *)
(* touched, and enabling survives: lan_queue_tx and lan_queue_rx call      *)
(* queue_base::reset, not lan_queue_base::reset.                           *)
(***************************************************************************)
Reset(n) ==
  [n EXCEPT !.q      = [k \in Queues |-> [NewQueue(n.q[k].len) EXCEPT !.enabling = n.q[k].enabling]],
            !.qctl   = [k \in LanQueues |-> [cause |-> FALSE, vec |-> 0]],
            !.intena = FALSE,
            !.itr    = [v \in DOMAIN @ |-> 0],
            !.at     = [v \in DOMAIN @ |-> 0],
            !.armed  = [v \in DOMAIN @ |-> FALSE],
            !.events = {e \in @ : \A v \in DOMAIN n.at : n.armed[v] => e.at # n.at[v]},
            !.lost   = {},
            !.wire   = <<>>,
            !.kept   = <<>>,
            !.stale  = @ \/ n.pending > 0 \/ n.dmaq # <<>>]

==============================================================================
