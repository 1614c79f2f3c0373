------------------------- MODULE MCThreadedRuntime -------------------------
(* ThreadedRuntime for TLC: two or three workers, small sets of timers and   *)
(* command lines.                                                            *)
EXTENDS ThreadedRuntime, TLC

CONSTANTS w1, w2, w3

OneShot == {[offset |-> 2, period |-> 0]}
TwoTimers == {[offset |-> 0, period |-> 1], [offset |-> 2, period |-> 0]}

Line(d, k, f) == [duration |-> d, keepalive |-> k, fast |-> f]

(* No timeout, one in the course of the program, and one of zero.            *)
MixedLines == {Line(Forever, FALSE, FALSE), Line(2, TRUE, FALSE), Line(0, FALSE, FALSE),
               Line(Forever, FALSE, TRUE)}
EndingLines == {Line(Forever, FALSE, FALSE), Line(3, TRUE, FALSE)}
LongLines == EndingLines \cup {Line(Forever, TRUE, FALSE)}

WorkerSymmetry == Permutations(Workers)
=============================================================================
