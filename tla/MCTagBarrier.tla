---------------------------- MODULE MCTagBarrier ----------------------------
(* TagBarrier for TLC; its constants are given in the .cfg. *)
EXTENDS TagBarrier
=============================================================================
