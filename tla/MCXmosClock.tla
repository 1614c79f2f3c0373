----------------------------- MODULE MCXmosClock -----------------------------
(* XmosClock for TLC: all values are in the .cfg file. *)
EXTENDS XmosClock
=============================================================================
