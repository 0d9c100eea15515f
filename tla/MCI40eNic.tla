------------------------------ MODULE MCI40eNic ------------------------------
(***************************************************************************)
(* One transmit and one receive queue of four descriptors with two         *)
(* contexts each, and two DMA operations in flight.  The workloads are     *)
(* separate initial states: long transmit sequences that go round the ring *)
(* with both forms of write-back, mixed traffic, resets at any moment, the *)
(* admin queue, a driver that lowers the throttling, a host that ends,     *)
(* rings of six and three descriptors, interrupts disabled, and MSI.       *)
(***************************************************************************)
EXTENDS I40eNic

Context(mss)   == [type |-> "ctx", tso |-> TRUE, mss |-> mss, slot |-> 0]
Data(len, eop) == [type |-> "data", len |-> len, eop |-> eop, hdr |-> 1, slot |-> 0]

(* TSO in two frames from a buffer fetched in two parts; plain packets of one *)
(* and of two buffers.                                                        *)
MCUnits ==
  << <<Context(1), Data(3, TRUE)>>, <<Data(1, TRUE)>>,
     <<Data(1, FALSE), Data(1, TRUE)>>, <<Data(2, TRUE)>> >>

MCCommands ==
  << [rd |-> TRUE, wr |-> TRUE], [rd |-> FALSE, wr |-> FALSE], [rd |-> FALSE, wr |-> TRUE] >>

MCArrivals == <<1, 2>>

MCVec == [k \in {"tx", "rx"} |-> IF k = "tx" THEN 1 ELSE 2]

Idle == [tx |-> 0, rx |-> 0, atq |-> 0, len |-> 4, hwb |-> TRUE, msix |-> TRUE,
         itr |-> FALSE, end |-> FALSE, restarts |-> 0, masks |-> 0]

MCWorkloads ==
  { [Idle EXCEPT !.tx = 4],
    [Idle EXCEPT !.tx = 4, !.hwb = FALSE],
    [Idle EXCEPT !.tx = 2, !.rx = 1],
    [Idle EXCEPT !.tx = 1, !.rx = 2],
    [Idle EXCEPT !.tx = 1, !.restarts = 1],
    [Idle EXCEPT !.tx = 2, !.hwb = FALSE, !.restarts = 1],
    [Idle EXCEPT !.rx = 2, !.restarts = 1],
    [Idle EXCEPT !.atq = 3, !.restarts = 1],
    [Idle EXCEPT !.tx = 2, !.rx = 1, !.itr = TRUE],
    [Idle EXCEPT !.tx = 1, !.rx = 1, !.end = TRUE],
    [Idle EXCEPT !.tx = 4, !.len = 6],
    [Idle EXCEPT !.tx = 1, !.rx = 2, !.len = 3],
    [Idle EXCEPT !.tx = 1, !.rx = 1, !.masks = 1],
    [Idle EXCEPT !.tx = 1, !.rx = 1, !.msix = FALSE] }

==============================================================================
