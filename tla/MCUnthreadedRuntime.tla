------------------------- MODULE MCUnthreadedRuntime -------------------------
(* UnthreadedRuntime for TLC: small sets of timers and command lines.        *)
EXTENDS UnthreadedRuntime

TwoTimers == {[offset |-> 0, period |-> 3], [offset |-> 1, period |-> 0]}

Line(d, k, f) == [duration |-> d, keepalive |-> k, fast |-> f]

(* At a timeout of 3 the timer of that period keeps the queue from running   *)
(* empty; at a timeout of 4 its last event is the one at 3.                  *)
TimeoutLines == {Line(0, FALSE, FALSE), Line(3, FALSE, FALSE), Line(4, FALSE, FALSE),
                 Line(4, TRUE, FALSE), Line(3, FALSE, TRUE)}
=============================================================================
