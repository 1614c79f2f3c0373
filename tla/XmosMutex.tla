----------------------------- MODULE XmosMutex -----------------------------
(***************************************************************************)
(* The recursive mutex of lf_xmos_support.c: a hardware lock with two      *)
(* plain words beside it, `owner' and `level'.  lf_mutex_lock compares     *)
(* `owner' with the caller's id BEFORE it holds the hardware lock, so the  *)
(* words are read while another thread may be writing them; every access   *)
(* is therefore a step of its own.                                         *)
(*                                                                         *)
(* The hardware lock (xcore/lock.h) is external: lock_acquire blocks until *)
(* the lock is free, lock_release frees it.  Callers are external too: any *)
(* thread may lock, nest up to MaxDepth calls, and unlock what it locked.  *)
(***************************************************************************)
EXTENDS Integers

CONSTANTS
  Threads,    \* ids get_tid may return: hardware thread ids, all >= 0
  MaxDepth    \* bound of the model on nested lock calls of one thread

ASSUME ThreadsAssumption == Threads \subseteq Nat /\ MaxDepth \in Nat

NoOwner == -1

VARIABLES
  hwLock,     \* the thread holding the hardware lock, or NoOwner
  owner,      \* mutex->owner
  level,      \* mutex->level
  pc,         \* pc[t]: where thread t is in lf_mutex_lock or lf_mutex_unlock
  depth       \* depth[t]: lock calls t has returned from, minus its unlock
              \* calls: what the caller knows

vars == <<hwLock, owner, level, pc, depth>>

Locations == {"caller", "relock", "acquire", "setOwner", "setLevel",
              "testLevel", "clearOwner", "release"}

TypeOK ==
  /\ hwLock \in Threads \cup {NoOwner}
  /\ owner \in Threads \cup {NoOwner}
  /\ level \in Nat
  /\ pc \in [Threads -> Locations]
  /\ depth \in [Threads -> Nat]

(* lf_mutex_init returned 0. *)
Init ==
  /\ hwLock = NoOwner
  /\ owner = NoOwner
  /\ level = 0
  /\ pc = [t \in Threads |-> "caller"]
  /\ depth = [t \in Threads |-> 0]

Goto(t, from, to) ==
  /\ pc[t] = from
  /\ pc' = [pc EXCEPT ![t] = to]

-----------------------------------------------------------------------------
(* lf_mutex_lock *)

(* tid == mutex->owner, read with or without the hardware lock. *)
TestOwner(t) ==
  /\ depth[t] < MaxDepth
  /\ \/ owner = t /\ Goto(t, "caller", "relock")
     \/ owner # t /\ Goto(t, "caller", "acquire")
  /\ UNCHANGED <<hwLock, owner, level, depth>>

(* Faulty variant: a nested call does not count itself. *)
RelockWithoutCount(t) ==
  /\ Goto(t, "relock", "caller")
  /\ depth' = [depth EXCEPT ![t] = @ + 1]
  /\ UNCHANGED <<hwLock, owner, level>>

(* mutex->level++, and the call returns. *)
Relock(t) ==
  /\ Goto(t, "relock", "caller")
  /\ level' = level + 1
  /\ depth' = [depth EXCEPT ![t] = @ + 1]
  /\ UNCHANGED <<hwLock, owner>>

Acquire(t) ==
  /\ hwLock = NoOwner
  /\ Goto(t, "acquire", "setOwner")
  /\ hwLock' = t
  /\ UNCHANGED <<owner, level, depth>>

SetOwner(t) ==
  /\ Goto(t, "setOwner", "setLevel")
  /\ owner' = t
  /\ UNCHANGED <<hwLock, level, depth>>

(* Faulty variant: the level is left as the last section ended. *)
SetLevelMissing(t) ==
  /\ Goto(t, "setLevel", "caller")
  /\ depth' = [depth EXCEPT ![t] = @ + 1]
  /\ UNCHANGED <<hwLock, owner, level>>

(* mutex->level = 1, and the call returns. *)
SetLevel(t) ==
  /\ Goto(t, "setLevel", "caller")
  /\ level' = 1
  /\ depth' = [depth EXCEPT ![t] = @ + 1]
  /\ UNCHANGED <<hwLock, owner>>

-----------------------------------------------------------------------------
(* lf_mutex_unlock, which does not look at the owner: callers hold the mutex. *)

DecrementLevel(t) ==
  /\ depth[t] > 0
  /\ Goto(t, "caller", "testLevel")
  /\ level' = level - 1
  /\ depth' = [depth EXCEPT ![t] = @ - 1]
  /\ UNCHANGED <<hwLock, owner>>

(* Faulty variants: an off-by-one in the test, and a release that leaves the *)
(* owner word as it was.                                                     *)
TestLevelOffByOne(t) ==
  /\ \/ level <= 1 /\ Goto(t, "testLevel", "clearOwner")
     \/ level > 1 /\ Goto(t, "testLevel", "caller")
  /\ UNCHANGED <<hwLock, owner, level, depth>>

TestLevelKeepOwner(t) ==
  /\ \/ level = 0 /\ Goto(t, "testLevel", "release")
     \/ level # 0 /\ Goto(t, "testLevel", "caller")
  /\ UNCHANGED <<hwLock, owner, level, depth>>

TestLevel(t) ==
  /\ \/ level = 0 /\ Goto(t, "testLevel", "clearOwner")
     \/ level # 0 /\ Goto(t, "testLevel", "caller")
  /\ UNCHANGED <<hwLock, owner, level, depth>>

(* Faulty variant: the hardware lock is not released. *)
ClearOwnerOnly(t) ==
  /\ Goto(t, "clearOwner", "caller")
  /\ owner' = NoOwner
  /\ UNCHANGED <<hwLock, level, depth>>

ClearOwner(t) ==
  /\ Goto(t, "clearOwner", "release")
  /\ owner' = NoOwner
  /\ UNCHANGED <<hwLock, level, depth>>

Release(t) ==
  /\ Goto(t, "release", "caller")
  /\ hwLock' = NoOwner
  /\ UNCHANGED <<owner, level, depth>>

-----------------------------------------------------------------------------
LockStep(t) ==
  TestOwner(t) \/ Relock(t) \/ Acquire(t) \/ SetOwner(t) \/ SetLevel(t)

UnlockStep(t) ==
  DecrementLevel(t) \/ TestLevel(t) \/ ClearOwner(t) \/ Release(t)

Next == \E t \in Threads : LockStep(t) \/ UnlockStep(t)

Spec == Init /\ [][Next]_vars

-----------------------------------------------------------------------------
(* Properties *)

(* The thread that the hardware lock belongs to, from the return of          *)
(* lock_acquire to the call of lock_release.                                 *)
InSection(t) ==
  \/ depth[t] > 0
  \/ pc[t] \in {"relock", "setOwner", "setLevel", "testLevel", "clearOwner", "release"}

(* Two threads are never between the outermost lock and unlock at once,      *)
(* whatever the interleaving of the unguarded accesses to owner and level.   *)
MutualExclusion ==
  \A t, u \in Threads : InSection(t) /\ InSection(u) => t = u

(* lf_mutex_lock may skip lock_acquire on the strength of an unlocked read:  *)
(* a thread that reads its own id in `owner' does hold the hardware lock.    *)
OwnerReadIsSafe ==
  \A t \in Threads : owner = t => hwLock = t /\ InSection(t)

(* The level counts the nested calls of the thread inside, so the hardware   *)
(* lock is given back by the outermost unlock and by no other.               *)
OutermostUnlockReleases ==
  /\ \A t \in Threads :
       depth[t] > 0 => hwLock = t /\ owner = t /\ level = depth[t]
  /\ \A t \in Threads :
       pc[t] \in {"clearOwner", "release"} => depth[t] = 0

(* The two functions implement the recursive lock of the platform header.    *)
Abstract == INSTANCE RecursiveLock WITH depth <- depth
ImplementsRecursiveLock == Abstract!Spec
=============================================================================
