--------------------------- MODULE MCXmosPlatform ---------------------------
(* XmosPlatform for TLC: all values are in the .cfg file. *)
EXTENDS XmosPlatform
=============================================================================
