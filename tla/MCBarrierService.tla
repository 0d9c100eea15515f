-------------------------- MODULE MCBarrierService --------------------------
(* BarrierService on small instances. *)
EXTENDS BarrierService
=============================================================================
