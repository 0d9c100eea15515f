---------------------------- MODULE MCDistProxy ----------------------------
(* Rings of two report thresholds, polls that need not take all there is.    *)
EXTENDS DistProxy
=============================================================================
