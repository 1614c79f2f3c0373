----------------------------- MODULE MCXmosCond -----------------------------
(* XmosCond for TLC: the threads and the bounds are in the .cfg files.       *)
EXTENDS XmosCond
=============================================================================
