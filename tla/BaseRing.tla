------------------------------ MODULE BaseRing ------------------------------
(***************************************************************************)
(* One direction of lib/simbricks/base: a single-producer single-consumer  *)
(* ring in shared memory.  Every slot carries an ownership bit; the two    *)
(* processes share nothing else, neither a head nor a tail index.  The     *)
(* producer fills a slot with plain stores (timestamp, then payload) and   *)
(* hands it over with one release store; the consumer reads it with plain  *)
(* loads between its acquire load and its own release store.  Each of      *)
(* those accesses is a step here, so producer and consumer interleave      *)
(* inside a message.                                                       *)
(***************************************************************************)
EXTENDS Integers, Sequences

CONSTANTS Data,      \* message contents
          NoData,    \* content of a slot never written
          N          \* in_enum / out_enum: number of entries of the queue

ASSUME NAssumption == N \in Nat \ {0}
ASSUME NoDataAssumption == NoData \notin Data

VARIABLES slots,     \* the queue: own_type's ownership bit, header, payload
          out_pos, tx, txmsg, txval,  \* producer: index, progress, msg, content
          in_pos, rx, rxmsg, rxval,   \* consumer: index, progress, msg, content
          got,       \* content of the message the consumer processed last
          inflight   \* history variable: slots handed over and not given back

outVars == <<out_pos, tx, txmsg, txval>>
inVars == <<in_pos, rx, rxmsg, rxval, got>>
vars == <<slots, outVars, inVars, inflight>>

Pos == 0 .. N - 1
Content == Data \cup {NoData}
Slot == [own : {"PRO", "CON"}, hdr : Content, pay : Content]

Init == /\ slots = [p \in Pos |-> [own |-> "PRO", hdr |-> NoData, pay |-> NoData]]
        /\ out_pos = 0 /\ tx = "idle" /\ txmsg = 0 /\ txval = NoData
        /\ in_pos = 0 /\ rx = "idle" /\ rxmsg = 0
        /\ rxval = [hdr |-> NoData, pay |-> NoData]
        /\ got = [hdr |-> NoData, pay |-> NoData]
        /\ inflight = 0

-----------------------------------------------------------------------------
(* Mutants: the bugs the properties below would expose. *)

OutAllocNoCheck(m) ==
  /\ tx = "idle"
  /\ slots' = [slots EXCEPT ![out_pos].hdr = m]
  /\ tx' = "alloc" /\ txmsg' = out_pos /\ txval' = m
  /\ out_pos' = (out_pos + 1) % N
  /\ UNCHANGED <<inVars, inflight>>

OutSendEarly ==
  /\ tx \in {"alloc", "filled"}
  /\ slots' = [slots EXCEPT ![txmsg].own = "CON"]
  /\ tx' = "idle"
  /\ inflight' = inflight + 1
  /\ UNCHANGED <<out_pos, txmsg, txval, inVars>>

InPollSkips ==
  /\ rx = "idle"
  /\ slots[in_pos].own = "CON"
  /\ rxval' = [hdr |-> slots[in_pos].hdr, pay |-> NoData]
  /\ rx' = "polled" /\ rxmsg' = in_pos
  /\ in_pos' = (in_pos + 2) % N
  /\ UNCHANGED <<slots, got, outVars, inflight>>

-----------------------------------------------------------------------------
(* The producer. *)

\* SimbricksBaseIfOutAlloc: NULL unless the producer owns the slot at out_pos.
OutAlloc(m) ==
  /\ tx = "idle"
  /\ slots[out_pos].own = "PRO"
  /\ slots' = [slots EXCEPT ![out_pos].hdr = m]
  /\ tx' = "alloc" /\ txmsg' = out_pos /\ txval' = m
  /\ out_pos' = (out_pos + 1) % N
  /\ UNCHANGED <<inVars, inflight>>

\* The caller fills the message body between OutAlloc and OutSend.
Fill ==
  /\ tx = "alloc"
  /\ slots' = [slots EXCEPT ![txmsg].pay = txval]
  /\ tx' = "filled"
  /\ UNCHANGED <<out_pos, txmsg, txval, inVars, inflight>>

\* SimbricksBaseIfOutSend: type and ownership in one release store.
OutSend ==
  /\ tx = "filled"
  /\ slots' = [slots EXCEPT ![txmsg].own = "CON"]
  /\ tx' = "idle"
  /\ inflight' = inflight + 1
  /\ UNCHANGED <<out_pos, txmsg, txval, inVars>>

-----------------------------------------------------------------------------
(* The consumer. *)

\* SimbricksBaseIfInPoll on an unsynchronised channel: NULL unless the slot at
\* in_pos has been handed over; reads the header.
InPoll ==
  /\ rx = "idle"
  /\ slots[in_pos].own = "CON"
  /\ rxval' = [hdr |-> slots[in_pos].hdr, pay |-> NoData]
  /\ rx' = "polled" /\ rxmsg' = in_pos
  /\ in_pos' = (in_pos + 1) % N
  /\ UNCHANGED <<slots, got, outVars, inflight>>

\* The caller reads the message body between InPoll and InDone.
Read ==
  /\ rx = "polled"
  /\ rxval' = [rxval EXCEPT !.pay = slots[rxmsg].pay]
  /\ rx' = "read"
  /\ UNCHANGED <<slots, in_pos, rxmsg, got, outVars, inflight>>

\* SimbricksBaseIfInDone: the slot goes back to the producer.
InDone ==
  /\ rx = "read"
  /\ slots' = [slots EXCEPT ![rxmsg].own = "PRO"]
  /\ rx' = "idle" /\ got' = rxval
  /\ inflight' = inflight - 1
  /\ UNCHANGED <<in_pos, rxmsg, rxval, outVars>>

Next == \/ \E m \in Data : OutAlloc(m)
        \/ Fill \/ OutSend \/ InPoll \/ Read \/ InDone

Spec == Init /\ [][Next]_vars

\* Both sides busy-poll: a started send is finished and a handed-over message
\* is processed.  Nothing obliges the producer to start a message.
Fairness == /\ WF_vars(Fill) /\ WF_vars(OutSend)
            /\ WF_vars(InPoll) /\ WF_vars(Read) /\ WF_vars(InDone)

FairSpec == Spec /\ Fairness

-----------------------------------------------------------------------------
(* Properties. *)

\* Types: positions stay within the ring and slots hold one of the two owners.
TypeOK == /\ slots \in [Pos -> Slot]
          /\ out_pos \in Pos /\ txmsg \in Pos
          /\ tx \in {"idle", "alloc", "filled"}
          /\ txval \in Content
          /\ in_pos \in Pos /\ rxmsg \in Pos
          /\ rx \in {"idle", "polled", "read"}
          /\ rxval \in [hdr : Content, pay : Content]
          /\ got \in [hdr : Content, pay : Content]
          /\ inflight \in 0 .. N

\* Oldest slot the consumer has not given back; next slot the producer hands over.
HeadPos == IF rx = "idle" THEN in_pos ELSE rxmsg
TailPos == IF tx = "idle" THEN out_pos ELSE txmsg

\* The two private indices, which the code never compares, always agree about
\* the ownership bits: the handed-over slots are the window of length inflight
\* that starts at the consumer's position and ends at the producer's.
OwnershipWindow ==
  /\ TailPos = (HeadPos + inflight) % N
  /\ \A k \in 0 .. N - 1 :
       slots[(HeadPos + k) % N].own = "CON" <=> k < inflight

\* The slot being filled (OutAlloc .. OutSend) is never one the consumer may
\* look at, and the slot being read (InPoll .. InDone) is never one the
\* producer may write.
NoSharedAccess ==
  /\ tx # "idle" => slots[txmsg].own = "PRO"
  /\ rx # "idle" => slots[rxmsg].own = "CON"

\* What the window needs to be inductive: where the two private indices stand
\* while a message is being filled or read, and that every slot handed over (and
\* every private copy) holds header and body of one message.
Progress ==
  /\ tx # "idle" => out_pos = (txmsg + 1) % N /\ inflight < N
  /\ rx # "idle" => in_pos = (rxmsg + 1) % N /\ inflight > 0
  /\ tx # "idle" => txval \in Data /\ slots[txmsg].hdr = txval
  /\ tx = "filled" => slots[txmsg].pay = txval
  /\ rx # "idle" => rxval.hdr = slots[rxmsg].hdr
  /\ rx = "read" => rxval.pay = slots[rxmsg].pay
  /\ \A p \in Pos : slots[p].own = "CON" =>
                      slots[p].hdr = slots[p].pay /\ slots[p].pay \in Data

Inv == TypeOK /\ OwnershipWindow /\ Progress

\* The queue contents as a FIFO: what was handed over, oldest first.
chanBar == [k \in 1 .. inflight |->
              [hdr |-> slots[(HeadPos + k - 1) % N].hdr,
               pay |-> slots[(HeadPos + k - 1) % N].pay]]

Whole == {[hdr |-> m, pay |-> m] : m \in Data}

Fifo == INSTANCE Channel WITH Data <- Whole, Capacity <- N,
                              chan <- chanBar, got <- got

\* The ring implements the FIFO channel: OutSend appends, InDone removes the
\* oldest message and the consumer has read it whole (header and body of the
\* same message), and nothing else changes the channel.
ImplementsChannel == Fifo!ChanSpec

\* Every message handed over with OutSend is eventually processed, also when
\* the ring was full in between.
Handed(m) == \E p \in Pos : slots[p].own = "CON" /\ slots[p].pay = m
EveryMessageProcessed ==
  \A m \in Data : Handed(m) ~> (got = [hdr |-> m, pay |-> m])
=============================================================================
