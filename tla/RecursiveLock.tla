--------------------------- MODULE RecursiveLock ---------------------------
(***************************************************************************)
(* What lf_platform.h promises of lf_mutex_lock and lf_mutex_unlock, with  *)
(* the recursion lf_xmos_support.h adds ("owner and level to support       *)
(* recursive mutex"): each call is one step, a thread may nest its calls,  *)
(* and a thread is inside only while every other thread is outside.        *)
(***************************************************************************)
EXTENDS Naturals

CONSTANT Threads    \* the threads that share the mutex

VARIABLE depth      \* depth[t]: lock calls of t not yet matched by an unlock

Init == depth = [t \in Threads |-> 0]

Lock(t) ==
  /\ \A u \in Threads \ {t} : depth[u] = 0
  /\ depth' = [depth EXCEPT ![t] = @ + 1]

Unlock(t) ==
  /\ depth[t] > 0
  /\ depth' = [depth EXCEPT ![t] = @ - 1]

Next == \E t \in Threads : Lock(t) \/ Unlock(t)

Spec == Init /\ [][Next]_depth
=============================================================================
