-------------------------------- MODULE Tags --------------------------------
(***************************************************************************)
(* Tags of superdense time: a time and a microstep, in the order of        *)
(* lf_tag_compare (tag.c of reactor-c, which is not in the repository).    *)
(***************************************************************************)
EXTENDS Naturals

Tag == [time : Nat, microstep : Nat]

TagOf(t, m) == [time |-> t, microstep |-> m]

TagLess(a, b) ==
  \/ a.time < b.time
  \/ a.time = b.time /\ a.microstep < b.microstep

TagLeq(a, b) == TagLess(a, b) \/ a = b

TagMin(a, b) == IF TagLess(a, b) THEN a ELSE b
=============================================================================
