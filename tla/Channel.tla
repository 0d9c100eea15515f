------------------------------ MODULE Channel ------------------------------
(***************************************************************************)
(* What one direction of a SimBricks connection promises to the two        *)
(* simulators that share it: a bounded, loss-free, duplicate-free FIFO.    *)
(* A message counts against the capacity until the receiver has given its  *)
(* slot back.  BaseRing (the shared-memory queue) is shown to implement it.*)
(***************************************************************************)
EXTENDS Naturals, Sequences

CONSTANTS Data,      \* the messages a simulator may send
          Capacity   \* number of entries of the queue

VARIABLES chan,      \* messages sent and not yet given back, oldest first
          got        \* the message the receiver processed last, or a non-message

ChanVars == <<chan, got>>

ChanInit == chan = << >>

Send(m) == /\ Len(chan) < Capacity
           /\ chan' = Append(chan, m)
           /\ UNCHANGED got

Deliver == /\ chan # << >>
           /\ got' = Head(chan)
           /\ chan' = Tail(chan)

ChanNext == Deliver \/ \E m \in Data : Send(m)

ChanSpec == ChanInit /\ [][ChanNext]_ChanVars
=============================================================================
