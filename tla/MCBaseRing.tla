----------------------------- MODULE MCBaseRing -----------------------------
(* BaseRing with model values for the message contents. *)
EXTENDS BaseRing
=============================================================================
