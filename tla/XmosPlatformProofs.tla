------------------------- MODULE XmosPlatformProofs -------------------------
(***************************************************************************)
(* The mutex, the clock and the threads, each alone and at work together,  *)
(* for every number of threads, depth of nesting, length of a cycle and    *)
(* time that the program runs.  The mutex excludes and implements          *)
(* RecursiveLock, although lf_mutex_lock reads the owner without the lock; *)
(* the time returned is never before the counter was read, although        *)
(* lf_clock_gettime takes no lock; main joins every thread that it         *)
(* created.  The composition implements the specifications of the mutex    *)
(* and of the clock, so what holds of each holds of it.                    *)
(***************************************************************************)
EXTENDS XmosPlatform, TLAPS, FiniteSetTheorems

-----------------------------------------------------------------------------
(* The mutex *)

(* The inductive invariant.  It ties the three words to the program          *)
(* counters: the holder of the hardware lock is exactly the thread inside,   *)
(* `owner' names a thread between its two writes of it, and `level' is what  *)
(* that thread's calls have counted.                                         *)
HolderInv ==
  /\ \A t \in Threads : InSection(t) => hwLock = t
  /\ \A t \in Threads : hwLock = t => InSection(t)

OwnerInv ==
  \A t \in Threads :
    owner = t <=> \/ pc[t] \in {"setLevel", "relock", "testLevel", "clearOwner"}
                  \/ pc[t] = "caller" /\ depth[t] > 0

LevelInv ==
  /\ \A t \in Threads :
       /\ pc[t] \in {"caller", "relock", "testLevel"} /\ hwLock = t => level = depth[t]
       /\ pc[t] \in {"acquire", "setOwner", "setLevel", "clearOwner", "release"} => depth[t] = 0
       /\ pc[t] \in {"setOwner", "setLevel", "clearOwner", "release"} => level = 0
       /\ pc[t] = "relock" => depth[t] > 0
  /\ hwLock = NoOwner => level = 0

IInv == TypeOK /\ HolderInv /\ OwnerInv /\ LevelInv

(* The invariant holds when lf_mutex_init has returned.                      *)
LEMMA InitInv == Init => IInv
BY ThreadsAssumption DEF Init, IInv, TypeOK, HolderInv, OwnerInv, LevelInv, InSection,
     NoOwner, Locations

(* Every step of lf_mutex_lock and lf_mutex_unlock preserves the invariant.  *)
LEMMA NextInv == IInv /\ [Next]_vars => IInv'
<1> SUFFICES ASSUME IInv, [Next]_vars PROVE IInv'
  OBVIOUS
<1> USE ThreadsAssumption DEF IInv, TypeOK, HolderInv, OwnerInv, LevelInv, InSection,
      NoOwner, Locations, Goto
<1>1. ASSUME NEW t \in Threads, TestOwner(t) PROVE IInv'
  BY <1>1 DEF TestOwner
<1>2. ASSUME NEW t \in Threads, Relock(t) PROVE IInv'
  BY <1>2 DEF Relock
<1>3. ASSUME NEW t \in Threads, Acquire(t) PROVE IInv'
  BY <1>3 DEF Acquire
<1>4. ASSUME NEW t \in Threads, SetOwner(t) PROVE IInv'
  BY <1>4 DEF SetOwner
<1>5. ASSUME NEW t \in Threads, SetLevel(t) PROVE IInv'
  BY <1>5 DEF SetLevel
<1>6. ASSUME NEW t \in Threads, DecrementLevel(t) PROVE IInv'
  BY <1>6 DEF DecrementLevel
<1>7. ASSUME NEW t \in Threads, TestLevel(t) PROVE IInv'
  BY <1>7 DEF TestLevel
<1>8. ASSUME NEW t \in Threads, ClearOwner(t) PROVE IInv'
  BY <1>8 DEF ClearOwner
<1>9. ASSUME NEW t \in Threads, Release(t) PROVE IInv'
  BY <1>9 DEF Release
<1>10. CASE UNCHANGED vars
  BY <1>10 DEF vars
<1> QED
  BY <1>1, <1>2, <1>3, <1>4, <1>5, <1>6, <1>7, <1>8, <1>9, <1>10
     DEF Next, LockStep, UnlockStep

(* The invariant holds in every reachable state of lf_mutex_lock/unlock.     *)
LEMMA InvHolds == Spec => []IInv
<1> QED
  BY InitInv, NextInv, PTL DEF Spec

-----------------------------------------------------------------------------
(* Type correctness: `level' never drops below zero and the owner is a       *)
(* thread or nobody.                                                         *)
THEOREM TypeCorrect == Spec => []TypeOK
<1>1. IInv => TypeOK
  BY DEF IInv
<1> QED
  BY <1>1, InvHolds, PTL

(* Mutual exclusion of the sections between the outermost lf_mutex_lock and  *)
(* its lf_mutex_unlock, for any number of threads.                           *)
THEOREM Exclusion == Spec => []MutualExclusion
<1>1. IInv => MutualExclusion
  BY DEF IInv, HolderInv, MutualExclusion
<1> QED
  BY <1>1, InvHolds, PTL

(* The unlocked read of mutex->owner in lf_mutex_lock is safe.               *)
THEOREM OwnerReadSafe == Spec => []OwnerReadIsSafe
<1>1. IInv => OwnerReadIsSafe
  BY DEF IInv, HolderInv, OwnerInv, OwnerReadIsSafe, InSection
<1> QED
  BY <1>1, InvHolds, PTL

(* lf_mutex_unlock gives the hardware lock back exactly at the outermost     *)
(* call.                                                                     *)
THEOREM OutermostReleases == Spec => []OutermostUnlockReleases
<1>1. IInv => OutermostUnlockReleases
  <2> SUFFICES ASSUME IInv PROVE OutermostUnlockReleases
    OBVIOUS
  <2> QED
    BY ThreadsAssumption
       DEF IInv, TypeOK, HolderInv, OwnerInv, LevelInv, OutermostUnlockReleases,
           InSection, Locations
<1> QED
  BY <1>1, InvHolds, PTL

-----------------------------------------------------------------------------
(* lf_mutex_lock and lf_mutex_unlock implement the atomic recursive lock:    *)
(* the step that returns from lock is its Lock, the step that decrements the *)
(* level is its Unlock, every other step stutters.                           *)
THEOREM Refinement == Spec => ImplementsRecursiveLock
<1>1. Init => Abstract!Init
  BY DEF Init, Abstract!Init
<1>2. IInv /\ [Next]_vars => [Abstract!Next]_depth
  <2> SUFFICES ASSUME IInv, [Next]_vars PROVE [Abstract!Next]_depth
    OBVIOUS
  <2>1. ASSUME NEW t \in Threads, Relock(t) \/ SetLevel(t) PROVE Abstract!Lock(t)
    <3>1. hwLock = t
      BY <2>1 DEF Relock, SetLevel, Goto, IInv, HolderInv, InSection
    <3>2. \A u \in Threads \ {t} : depth[u] = 0
      BY <3>1, ThreadsAssumption DEF IInv, TypeOK, HolderInv, InSection
    <3> QED
      BY <2>1, <3>2 DEF Relock, SetLevel, Abstract!Lock
  <2>2. ASSUME NEW t \in Threads, DecrementLevel(t) PROVE Abstract!Unlock(t)
    BY <2>2 DEF DecrementLevel, Abstract!Unlock
  <2>3. ASSUME NEW t \in Threads,
               \/ TestOwner(t) \/ Acquire(t) \/ SetOwner(t)
               \/ TestLevel(t) \/ ClearOwner(t) \/ Release(t)
        PROVE  UNCHANGED depth
    BY <2>3 DEF TestOwner, Acquire, SetOwner, TestLevel, ClearOwner, Release
  <2>4. CASE UNCHANGED vars
    BY <2>4 DEF vars
  <2> QED
    BY <2>1, <2>2, <2>3, <2>4 DEF Next, LockStep, UnlockStep, Abstract!Next
<1> QED
  BY <1>1, <1>2, InvHolds, PTL DEF Spec, ImplementsRecursiveLock, Abstract!Spec


-----------------------------------------------------------------------------
(* Cycles of the counter *)

(* Half a cycle: how long the clock may go without a completed call, and   *)
(* how long a call may take.                                               *)
Half == Cycle \div 2

(* Two halves make a cycle.                                                *)
LEMMA Halves == Half \in Nat \ {0} /\ Half + Half = Cycle
BY ClockAssumption DEF Half

(* The division algorithm.                                                 *)
LEMMA Division ==
  ASSUME NEW a \in Nat, NEW c \in Nat \ {0}
  PROVE  a \div c \in Nat /\ a % c \in 0 .. c - 1 /\ a = (a \div c) * c + (a % c)
<1>1. a \div c \in Nat
  OBVIOUS
<1>2. a % c \in 0 .. c - 1
  OBVIOUS
<1>3. a = (a \div c) * c + (a % c)
  OBVIOUS
<1> QED
  BY <1>1, <1>2, <1>3

(* Multiplication by a positive number is strictly increasing.             *)
LEMMA Multiples ==
  ASSUME NEW c \in Nat \ {0}, NEW p \in Nat, NEW q \in Nat
  PROVE  /\ p * c \in Nat /\ (p + 1) * c = p * c + c /\ (p + 2) * c = p * c + c + c
         /\ p <= q => p * c <= q * c
         /\ p < q => p * c + c <= q * c
<1>1. p * c \in Nat /\ (p + 1) * c = p * c + c /\ (p + 2) * c = p * c + c + c
  OBVIOUS
<1>2. ASSUME p <= q
      PROVE  p * c <= q * c
  BY <1>2
<1>3. ASSUME p < q
      PROVE  p * c + c <= q * c
  <2>1. p + 1 <= q /\ p + 1 \in Nat
    BY <1>3
  <2>2. (p + 1) * c <= q * c
    BY <2>1
  <2> QED
    BY <1>1, <2>2
<1> QED
  BY <1>1, <1>2, <1>3

(* The counter was read at a and later, less than a cycle after a, at b,   *)
(* and did not go back: b is in no later cycle than a.                     *)
LEMMA SameCycle ==
  ASSUME NEW a \in Nat, NEW b \in Nat, NEW n \in Nat,
         b < a + Cycle, ~ (b % Cycle < a % Cycle), a < n * Cycle
  PROVE  b < n * Cycle
<1> DEFINE p == a \div Cycle
           q == b \div Cycle
           r == a % Cycle
           s == b % Cycle
<1>1. /\ p \in Nat /\ q \in Nat /\ r \in 0 .. Cycle - 1 /\ s \in 0 .. Cycle - 1
      /\ a = p * Cycle + r /\ b = q * Cycle + s /\ Cycle \in Nat \ {0} /\ ~ (s < r)
  BY Division, ClockAssumption
<1> HIDE DEF p, q, r, s
<1>2. /\ p * Cycle \in Nat /\ q * Cycle \in Nat /\ n * Cycle \in Nat
      /\ p < q => p * Cycle + Cycle <= q * Cycle
      /\ q <= p => q * Cycle <= p * Cycle
      /\ n <= p => n * Cycle <= p * Cycle
      /\ q < n => q * Cycle + Cycle <= n * Cycle
  BY <1>1, Multiples
<1>3. ~ (p < q)
  BY <1>1, <1>2
<1>4. q < n
  BY <1>1, <1>2, <1>3
<1> QED
  BY <1>1, <1>2, <1>4

(* The counter was read at a and at b, not before a, and did go back: b is *)
(* in a later cycle than a.                                                *)
LEMMA NextCycle ==
  ASSUME NEW a \in Nat, NEW b \in Nat, NEW n \in Nat,
         a <= b, b % Cycle < a % Cycle, n * Cycle <= a
  PROVE  (n + 1) * Cycle <= b
<1> DEFINE p == a \div Cycle
           q == b \div Cycle
           r == a % Cycle
           s == b % Cycle
<1>1. /\ p \in Nat /\ q \in Nat /\ r \in 0 .. Cycle - 1 /\ s \in 0 .. Cycle - 1
      /\ a = p * Cycle + r /\ b = q * Cycle + s /\ Cycle \in Nat \ {0} /\ s < r
  BY Division, ClockAssumption
<1> HIDE DEF p, q, r, s
<1>2. /\ p * Cycle \in Nat /\ q * Cycle \in Nat /\ n * Cycle \in Nat
      /\ (n + 1) * Cycle = n * Cycle + Cycle
      /\ q <= p => q * Cycle <= p * Cycle
      /\ p < n => p * Cycle + Cycle <= n * Cycle
      /\ n < q => n * Cycle + Cycle <= q * Cycle
  BY <1>1, Multiples
<1>3. p < q
  BY <1>1, <1>2
<1>4. ~ (p < n)
  BY <1>1, <1>2
<1>5. n < q
  BY <1>1, <1>3, <1>4
<1> QED
  BY <1>1, <1>2, <1>5

(* The number of the cycle and the counter make the time, if the number is *)
(* that of the cycle; they make a later one, if it is too large.           *)
LEMMA WholeTime ==
  ASSUME NEW b \in Nat, NEW n \in Nat
  PROVE  /\ b < (n + 1) * Cycle => n * Cycle + (b % Cycle) >= b
         /\ n * Cycle <= b /\ b < (n + 1) * Cycle => n * Cycle + (b % Cycle) = b
<1> DEFINE q == b \div Cycle
           s == b % Cycle
<1>1. /\ q \in Nat /\ s \in 0 .. Cycle - 1 /\ b = q * Cycle + s /\ Cycle \in Nat \ {0}
  BY Division, ClockAssumption
<1> HIDE DEF q, s
<1>2. /\ q * Cycle \in Nat /\ n * Cycle \in Nat /\ (n + 1) * Cycle = n * Cycle + Cycle
      /\ q <= n => q * Cycle <= n * Cycle
      /\ q < n => q * Cycle + Cycle <= n * Cycle
      /\ n < q => n * Cycle + Cycle <= q * Cycle
  BY <1>1, Multiples
<1>3. b < (n + 1) * Cycle => q <= n
  BY <1>1, <1>2
<1>4. n * Cycle <= b => n <= q
  BY <1>1, <1>2
<1> HIDE DEF q
<1>5. ASSUME b < (n + 1) * Cycle
      PROVE  n * Cycle + s >= b
  BY <1>1, <1>2, <1>3, <1>5
<1>6. ASSUME b < (n + 1) * Cycle, n * Cycle <= b
      PROVE  n * Cycle + s = b
  <2>1. n = q
    BY <1>1, <1>3, <1>4, <1>6
  <2> QED
    BY <1>1, <2>1
<1> QED
  BY <1>5, <1>6, Zenon DEF s

(* Multiples of a positive number, negative ones included.                 *)
LEMMA IntMultiples ==
  ASSUME NEW c \in Nat \ {0}, NEW p \in Int, NEW q \in Int
  PROVE  /\ p * c \in Int /\ (p + 1) * c = p * c + c /\ (p - 1) * c = p * c - c
         /\ (p + q) * c = p * c + q * c
         /\ p <= q => p * c <= q * c
         /\ p < q => p * c + c <= q * c
<1>1. /\ p * c \in Int /\ (p + 1) * c = p * c + c /\ (p - 1) * c = p * c - c
      /\ (p + q) * c = p * c + q * c
  OBVIOUS
<1>2. ASSUME p <= q
      PROVE  p * c <= q * c
  BY <1>2
<1>3. ASSUME p < q
      PROVE  p * c + c <= q * c
  <2>1. p + 1 <= q /\ p + 1 \in Int
    BY <1>3
  <2>2. (p + 1) * c <= q * c
    BY <2>1
  <2> QED
    BY <1>1, <2>2
<1> QED
  BY <1>1, <1>2, <1>3

(* The counter went back between a and b, whichever was read first, less   *)
(* than a cycle apart: b is past the end of the cycle that comes after a   *)
(* multiple before a, and past every multiple before a if a is the later.  *)
LEMMA WentBack ==
  ASSUME NEW a \in Nat, NEW b \in Nat, NEW n \in Int, b % Cycle < a % Cycle
  PROVE  /\ a <= b /\ (n - 1) * Cycle <= a => n * Cycle <= b
         /\ b < a /\ a < b + Cycle /\ n * Cycle <= a => n * Cycle <= b
<1> DEFINE p == a \div Cycle
           q == b \div Cycle
           r == a % Cycle
           s == b % Cycle
<1>1. /\ p \in Nat /\ q \in Nat /\ r \in 0 .. Cycle - 1 /\ s \in 0 .. Cycle - 1
      /\ a = p * Cycle + r /\ b = q * Cycle + s /\ Cycle \in Nat \ {0} /\ s < r
  BY Division, ClockAssumption
<1> HIDE DEF p, q, r, s
<1>2. /\ p * Cycle \in Int /\ q * Cycle \in Int /\ n * Cycle \in Int
      /\ (n - 1) * Cycle = n * Cycle - Cycle
      /\ q <= p => q * Cycle <= p * Cycle
      /\ p < q => p * Cycle + Cycle <= q * Cycle
      /\ q < p => q * Cycle + Cycle <= p * Cycle
      /\ p < n => p * Cycle + Cycle <= n * Cycle
      /\ n <= p => n * Cycle <= p * Cycle
      /\ n <= q => n * Cycle <= q * Cycle
      /\ p < n - 1 => p * Cycle + Cycle <= (n - 1) * Cycle
  BY <1>1, IntMultiples
<1>3. ASSUME a <= b, (n - 1) * Cycle <= a
      PROVE  n * Cycle <= b
  <2>1. p < q
    BY <1>1, <1>2, <1>3
  <2>2. ~ (p < n - 1)
    BY <1>1, <1>2, <1>3
  <2> QED
    BY <1>1, <1>2, <2>1, <2>2
<1>4. ASSUME b < a, a < b + Cycle, n * Cycle <= a
      PROVE  n * Cycle <= b
  <2>1. ~ (q < p)
    BY <1>1, <1>2, <1>4
  <2>2. ~ (p < n)
    BY <1>1, <1>2, <1>4
  <2> QED
    BY <1>1, <1>2, <2>1, <2>2
<1> QED
  BY <1>3, <1>4

(* A count that is at most k cycles ahead makes a time at most k cycles    *)
(* ahead.                                                                  *)
LEMMA AheadTime ==
  ASSUME NEW b \in Nat, NEW n \in Nat, NEW k \in Nat, (n - k) * Cycle <= b
  PROVE  n * Cycle + (b % Cycle) <= b + k * Cycle
<1> DEFINE q == b \div Cycle
           s == b % Cycle
           d == n - k
<1>1. /\ q \in Nat /\ s \in 0 .. Cycle - 1 /\ b = q * Cycle + s /\ Cycle \in Nat \ {0}
  BY Division, ClockAssumption
<1>2. d \in Int /\ n = d + k /\ d * Cycle <= b
  <2>1. d \in Int /\ n = d + k
    OBVIOUS
  <2> QED
    BY <2>1
<1> HIDE DEF q, s, d
<1>3. /\ q * Cycle \in Int /\ d * Cycle \in Int /\ k * Cycle \in Int
      /\ (d + k) * Cycle = d * Cycle + k * Cycle
      /\ d <= q => d * Cycle <= q * Cycle
      /\ q < d => q * Cycle + Cycle <= d * Cycle
  BY <1>1, <1>2, IntMultiples
<1>4. ~ (q < d)
  BY <1>1, <1>2, <1>3
<1>5. n * Cycle <= q * Cycle + k * Cycle
  BY <1>1, <1>2, <1>3, <1>4
<1>6. n * Cycle \in Int
  BY <1>1, <1>2
<1>7. n * Cycle + s <= b + k * Cycle
  BY <1>1, <1>2, <1>3, <1>5, <1>6
<1> QED
  BY <1>7, Zenon DEF s

-----------------------------------------------------------------------------

(* The call has counted the end of a cycle, if it found one.               *)
Combined(t) == cpc[t] \in {"combine", "last"}

(* The calls in progress and the last completed one are recent: less than  *)
(* half a cycle old, except that at the start no call has completed yet.   *)
RecentInv ==
  /\ completed <= ticks
  /\ ticks < completed + Half \/ ticks < Cycle
  /\ \A t \in Callers : Calling(t) =>
       /\ readAt[t] <= ticks /\ ticks < readAt[t] + Half
       /\ readAt[t] < completed + Half \/ readAt[t] < Cycle
       /\ low[t] = readAt[t] % Cycle

(* The calls that may still count the end of a cycle.                      *)
Uncounted == {t \in Callers : cpc[t] \in {"compare", "load", "increment"}}

(* What `time_hi' is, and what calls that increment it have loaded.        *)
Counts == {time_hi} \cup {high[t] : t \in {u \in Callers : cpc[u] = "increment"}}

(* The count h, if all these calls count and one is allowed for each that  *)
(* began while another was in progress.                                    *)
Allowed(h) == h + Cardinality(Uncounted) - overlaps

(* Of the calls in progress one read the counter before the call that      *)
(* stored `last_time' did, at a; or there are none.                        *)
Settled(a) ==
  \/ \A t \in Callers : ~ Calling(t)
  \/ \E t \in Callers : Calling(t) /\ readAt[t] < a

(* The first call of those in progress together may count the end of a     *)
(* cycle that is not behind `last_time' yet; a second one counts it at the *)
(* expense of what is allowed.                                             *)
AheadInv(a) ==
  \A h \in Counts :
    /\ (Allowed(h) - 1) * Cycle <= a
    /\ Settled(a) => Allowed(h) * Cycle <= a
    /\ \A t \in Callers : Calling(t) /\ cpc[t] # "compare" => Allowed(h) * Cycle <= readAt[t]

(* `last_time' is the counter at a moment less than a cycle ago, although  *)
(* an older call may have stored it last.                                  *)
LastAt(a) == last_time = a % Cycle /\ completed < a + Half /\ ticks < a + Cycle

LastInv == \E a \in 0..completed : LastAt(a) /\ AheadInv(a)

(* `time_hi' has counted the cycles that calls have seen.  A call that     *)
(* loaded `time_hi' and has not stored its increment yet is too recent for *)
(* a further cycle to end, and to be counted, before it stores.            *)
HighInv ==
  /\ completed < (time_hi + 1) * Cycle
  /\ \A t \in Callers :
       /\ Combined(t) => readAt[t] < (time_hi + 1) * Cycle
       /\ cpc[t] = "increment" => readAt[t] + Half <= (high[t] + 2) * Cycle

(* The inductive invariant of the clock.                                   *)
ClockInv == TimeKept /\ RecentInv /\ LastInv /\ HighInv

(* The counts and the allowance are numbers.                               *)
LEMMA AllowedTypes ==
  ASSUME ClockTypeOK
  PROVE  /\ IsFiniteSet(Uncounted) /\ Cardinality(Uncounted) \in Nat
         /\ overlaps \in Nat /\ Counts \subseteq Nat /\ time_hi \in Counts
         /\ \A h \in Counts : Allowed(h) \in Int
<1> USE ClockAssumption
<1>1. IsFiniteSet(Uncounted) /\ Cardinality(Uncounted) \in Nat
  BY FS_Subset, FS_CardinalityType DEF Uncounted
<1>2. overlaps \in Nat /\ Counts \subseteq Nat /\ time_hi \in Counts
  BY DEF ClockTypeOK, Counts
<1> QED
  BY <1>1, <1>2 DEF Allowed

(* lf_initialize_clock makes the invariant true.                           *)
LEMMA ClockInitInv ==
  ASSUME ClockInit
  PROVE  ClockInv
<1> USE ClockAssumption DEF ClockInit
<1>1. TimeKept
  <2>1. ClockTypeOK
    <3>1. ticks \in 0..MaxTicks /\ 0 \in 0 .. Cycle - 1 /\ 0 \in 0..MaxTicks /\ 0 \in 0..MaxCalls
      OBVIOUS
    <3> QED
      BY <3>1 DEF ClockTypeOK
  <2>2. \A t \in Callers : cpc[t] = "out"
    OBVIOUS
  <2> QED
    BY <2>1, <2>2 DEF TimeKept, ClockNotBehind, ClockNotTooFarAhead
<1>2. RecentInv
  BY DEF RecentInv, Calling
<1>3. LastInv
  <2>1. 0 % Cycle = 0 /\ 0 * Cycle = 0 /\ (0 - 1) * Cycle = 0 - Cycle
    OBVIOUS
  <2>2. ticks < 0 + Cycle /\ 0 < 0 + Half /\ 0 \in 0..completed
    BY Halves
  <2>3. Uncounted = {} /\ Counts = {0} /\ \A t \in Callers : ~ Calling(t)
    BY DEF Uncounted, Counts, Calling
  <2>4. Cardinality(Uncounted) = 0
    BY <2>3, FS_EmptySet
  <2>5. Allowed(0) = 0
    BY <2>4 DEF Allowed
  <2>6. AheadInv(0)
    BY <2>1, <2>3, <2>5 DEF AheadInv
  <2> QED
    BY <2>1, <2>2, <2>6 DEF LastInv, LastAt
<1>4. HighInv
  <2>1. (0 + 1) * Cycle = Cycle
    OBVIOUS
  <2>2. \A t \in Callers : cpc[t] = "out"
    OBVIOUS
  <2> QED
    BY <2>1, <2>2 DEF HighInv, Combined
<1> QED
  BY <1>1, <1>2, <1>3, <1>4 DEF ClockInv

(* Physical time goes on.                                                  *)
LEMMA TickStep ==
  ASSUME ClockInv, Tick
  PROVE  ClockInv'
<1> USE ClockAssumption
<1>1. /\ ticks \in Nat /\ completed \in Nat /\ Half \in Nat \ {0} /\ Half + Half = Cycle
      /\ ticks' = ticks + 1
      /\ ticks + 1 < completed + Half
      /\ readAt \in [Callers -> 0..MaxTicks]
  BY Halves DEF ClockInv, TimeKept, ClockTypeOK, Tick, Half
<1>2. TimeKept'
  <2>1. ClockTypeOK'
    BY DEF ClockInv, TimeKept, ClockTypeOK, Tick
  <2>2. ClockNotBehind' /\ ClockNotTooFarAhead'
    BY DEF ClockInv, TimeKept, ClockNotBehind, ClockNotTooFarAhead, Tick
  <2> QED
    BY <2>1, <2>2 DEF TimeKept
<1>3. RecentInv'
  <2>1. \A t \in Callers : Calling(t) => readAt[t] \in Nat /\ ticks + 1 < readAt[t] + Half
    BY <1>1 DEF Tick, Half
  <2> QED
    BY <1>1, <2>1 DEF ClockInv, RecentInv, Tick, Calling
<1>4. LastInv'
  <2>1. PICK a \in 0..completed : LastAt(a) /\ AheadInv(a)
    BY DEF ClockInv, LastInv
  <2>2. LastAt(a)'
    BY <1>1, <2>1 DEF LastAt, Tick
  <2>3. AheadInv(a)'
    BY <2>1 DEF AheadInv, Allowed, Counts, Uncounted, Settled, Calling, Tick
  <2> QED
    BY <2>2, <2>3 DEF LastInv, Tick
<1>5. HighInv'
  BY DEF ClockInv, HighInv, Combined, Calling, Tick
<1> QED
  BY <1>2, <1>3, <1>4, <1>5 DEF ClockInv

(* What is allowed only grows.                                             *)
LEMMA MoreOverlaps ==
  ASSUME NEW b \in Nat, NEW o \in Nat, NEW x \in Nat, x <= (b + o * Cycle) * NsPerTick
  PROVE  x <= (b + (o + 1) * Cycle) * NsPerTick /\ x <= (b + (o + 0) * Cycle) * NsPerTick
<1>1. o * Cycle \in Nat /\ o * Cycle <= (o + 1) * Cycle /\ (o + 1) * Cycle \in Nat
  BY ClockAssumption, Multiples
<1>2. b + o * Cycle \in Nat /\ b + (o + 1) * Cycle \in Nat
      /\ b + o * Cycle <= b + (o + 1) * Cycle
  BY <1>1
<1>3. /\ (b + o * Cycle) * NsPerTick \in Nat /\ (b + (o + 1) * Cycle) * NsPerTick \in Nat
      /\ (b + o * Cycle) * NsPerTick <= (b + (o + 1) * Cycle) * NsPerTick
  BY <1>2, ClockAssumption, Multiples
<1>4. x <= (b + (o + 1) * Cycle) * NsPerTick
  BY <1>3
<1>5. o + 0 = o
  OBVIOUS
<1> QED
  BY <1>4, <1>5

(* A call reads the counter.                                               *)
LEMMA ReadStep ==
  ASSUME ClockInv, NEW t \in Callers, ReadCounter(t)
  PROVE  ClockInv'
<1> USE ClockAssumption
<1>1. /\ ticks \in Nat /\ completed \in Nat /\ Half \in Nat \ {0} /\ Half + Half = Cycle
      /\ ticks \in 0..MaxTicks /\ ticks % Cycle \in 0 .. Cycle - 1
      /\ completed <= ticks
  BY Halves, Division DEF ClockInv, TimeKept, ClockTypeOK, RecentInv
<1>2. /\ cpc \in [Callers -> {"out", "compare", "load", "increment", "combine", "last", "timer"}]
      /\ low \in [Callers -> 0 .. Cycle - 1] /\ readAt \in [Callers -> 0..MaxTicks]
  BY DEF ClockInv, TimeKept, ClockTypeOK
<1>3. /\ cpc[t] = "out" /\ cpc' = [cpc EXCEPT ![t] = "compare"]
      /\ low' = [low EXCEPT ![t] = ticks % Cycle] /\ readAt' = [readAt EXCEPT ![t] = ticks]
      /\ overlaps' = overlaps + IF \E u \in Callers \ {t} : Calling(u) THEN 1 ELSE 0
      /\ calls < MaxCalls /\ calls' = calls + 1
      /\ UNCHANGED <<ticks, time_hi, last_time, high, time, trigger, completed>>
  BY DEF ReadCounter, At
<1>4. /\ cpc'[t] = "compare" /\ readAt'[t] = ticks /\ low'[t] = ticks % Cycle
      /\ \A u \in Callers \ {t} : cpc'[u] = cpc[u] /\ readAt'[u] = readAt[u] /\ low'[u] = low[u]
  BY <1>2, <1>3
<1>5. TimeKept'
  <2>1. ClockTypeOK'
    <3>1. overlaps' \in 0..calls' /\ calls' \in 0..MaxCalls
      BY <1>3 DEF ClockInv, TimeKept, ClockTypeOK
    <3>2. cpc' \in [Callers ->
            {"out", "compare", "load", "increment", "combine", "last", "timer"}]
      BY <1>2, <1>3
    <3>3. low' \in [Callers -> 0 .. Cycle - 1] /\ readAt' \in [Callers -> 0..MaxTicks]
      BY <1>1, <1>2, <1>3
    <3> QED
      BY <1>3, <3>1, <3>2, <3>3 DEF ClockInv, TimeKept, ClockTypeOK
  <2>2. ClockNotBehind'
    BY <1>3, <1>4 DEF ClockInv, TimeKept, ClockNotBehind
  <2>3. ClockNotTooFarAhead'
    BY <1>3, <1>4, MoreOverlaps DEF ClockInv, TimeKept, ClockNotTooFarAhead, ClockTypeOK
  <2> QED
    BY <2>1, <2>2, <2>3 DEF TimeKept
<1>6. RecentInv'
  BY <1>1, <1>3, <1>4 DEF ClockInv, RecentInv, Calling
<1>7. LastInv'
  <2>1. PICK a \in 0..completed : LastAt(a) /\ AheadInv(a)
    BY DEF ClockInv, LastInv
  <2>2. Counts' = Counts
    BY <1>3, <1>4 DEF Counts
  <2>3. Uncounted' = Uncounted \cup {t} /\ t \notin Uncounted
    BY <1>3, <1>4 DEF Uncounted
  <2>4. /\ IsFiniteSet(Uncounted) /\ Cardinality(Uncounted) \in Nat
        /\ overlaps \in Nat /\ Counts \subseteq Nat /\ \A h \in Counts : Allowed(h) \in Int
    BY AllowedTypes DEF ClockInv, TimeKept
  <2>5. Cardinality(Uncounted') = Cardinality(Uncounted) + 1
    BY <2>3, <2>4, FS_AddElement
  <2>6. a <= readAt'[t] /\ a \in Nat
    BY <1>1, <1>4
  <2>7. \A u \in Callers : /\ Calling(u)' <=> u = t \/ Calling(u)
                           /\ u # t => readAt'[u] = readAt[u]
    BY <1>3, <1>4 DEF Calling
  <2>8. a <= ticks /\ ticks \in Nat /\ readAt'[t] = ticks /\ ~ (readAt'[t] < a) /\ ~ Calling(t)
    BY <1>1, <1>3, <1>4, <2>6 DEF Calling
  <2>9. CASE \E u \in Callers \ {t} : Calling(u)
    <3>1. \A h \in Counts : Allowed(h)' = Allowed(h)
      BY <1>3, <2>4, <2>5, <2>9 DEF Allowed
    <3>2. Settled(a)' => Settled(a)
      BY <2>9, <2>7, <2>8 DEF Settled
    <3>3. \A u \in Callers : Calling(u)' /\ cpc'[u] # "compare" =>
            Calling(u) /\ cpc[u] # "compare" /\ readAt'[u] = readAt[u]
      BY <1>4 DEF Calling
    <3> QED
      BY <1>3, <2>1, <2>2, <3>1, <3>2, <3>3 DEF LastInv, LastAt, AheadInv
  <2>10. CASE \A u \in Callers \ {t} : ~ Calling(u)
    <3>1. \A h \in Counts : Allowed(h)' - 1 = Allowed(h)
      BY <1>3, <2>4, <2>5, <2>10 DEF Allowed
    <3>2. Settled(a) /\ ~ Settled(a)'
      BY <2>10, <2>7, <2>8 DEF Settled
    <3>3. \A u \in Callers : Calling(u)' => cpc'[u] = "compare"
      BY <1>4, <2>10 DEF Calling
    <3> QED
      BY <1>3, <2>1, <2>2, <3>1, <3>2, <3>3 DEF LastInv, LastAt, AheadInv
  <2> QED
    BY <2>9, <2>10
<1>8. HighInv'
  BY <1>3, <1>4 DEF ClockInv, HighInv, Combined
<1> QED
  BY <1>5, <1>6, <1>7, <1>8 DEF ClockInv

(* A call compares it with `last_time': if it finds no end of a cycle,     *)
(* there was none that is not counted.                                     *)
LEMMA CompareStep ==
  ASSUME ClockInv, NEW t \in Callers, Compare(t)
  PROVE  ClockInv'
<1> USE ClockAssumption
<1>1. /\ cpc[t] = "compare"
      /\ cpc' = [cpc EXCEPT ![t] = IF low[t] < last_time THEN "load" ELSE "combine"]
      /\ UNCHANGED <<ticks, time_hi, last_time, low, high, readAt, time, trigger,
                     completed, overlaps, calls>>
  BY DEF Compare, At
<1>2. /\ cpc'[t] = IF low[t] < last_time THEN "load" ELSE "combine"
      /\ \A u \in Callers \ {t} : cpc'[u] = cpc[u]
  BY <1>1 DEF ClockInv, TimeKept, ClockTypeOK
<1>3. /\ readAt[t] \in Nat /\ readAt[t] <= ticks /\ low[t] = readAt[t] % Cycle
      /\ completed \in Nat /\ ticks \in Nat /\ time_hi \in Nat
  BY <1>1 DEF ClockInv, RecentInv, Calling, TimeKept, ClockTypeOK
<1>4. TimeKept'
  <2>1. ClockTypeOK'
    <3>1. cpc' \in [Callers ->
            {"out", "compare", "load", "increment", "combine", "last", "timer"}]
      BY <1>1 DEF ClockInv, TimeKept, ClockTypeOK
    <3> QED
      BY <1>1, <3>1 DEF ClockInv, TimeKept, ClockTypeOK
  <2>2. ClockNotBehind' /\ ClockNotTooFarAhead'
    BY <1>1, <1>2 DEF ClockInv, TimeKept, ClockNotBehind, ClockNotTooFarAhead
  <2> QED
    BY <2>1, <2>2 DEF TimeKept
<1>5. RecentInv'
  BY <1>1, <1>2 DEF ClockInv, RecentInv, Calling
<1>6. LastInv'
  <2>1. PICK a \in 0..completed : LastAt(a) /\ AheadInv(a)
    BY DEF ClockInv, LastInv
  <2>2. /\ IsFiniteSet(Uncounted) /\ Cardinality(Uncounted) \in Nat
        /\ overlaps \in Nat /\ Counts \subseteq Nat /\ \A h \in Counts : Allowed(h) \in Int
    BY AllowedTypes DEF ClockInv, TimeKept
  <2>3. /\ a \in Nat /\ last_time = a % Cycle /\ readAt[t] < a + Cycle /\ a < readAt[t] + Cycle
        /\ Cycle \in Nat \ {0}
    <3>1. ticks < readAt[t] + Half /\ completed <= ticks
      BY <1>1 DEF ClockInv, RecentInv, Calling
    <3>2. a <= ticks /\ a \in Nat
      BY <1>3, <3>1
    <3> QED
      BY <1>3, <2>1, <3>1, <3>2, Halves DEF LastAt
  <2>4. Counts' = Counts /\ (Settled(a)' <=> Settled(a)) /\ LastAt(a)'
    <3>1. Counts' = Counts
      BY <1>1, <1>2 DEF Counts
    <3>2. Settled(a)' <=> Settled(a)
      BY <1>1, <1>2 DEF Settled, Calling
    <3> QED
      BY <1>1, <2>1, <3>1, <3>2 DEF LastAt
  <2>5. \A u \in Callers : Calling(u)' /\ cpc'[u] # "compare" =>
          u = t \/ (Calling(u) /\ cpc[u] # "compare")
    BY <1>2 DEF Calling
  <2>6. /\ t \in Uncounted
        /\ Calling(t)
    BY <1>1 DEF Uncounted, Calling
  <2>7. CASE low[t] < last_time
    <3>1. Uncounted' = Uncounted
      BY <1>1, <1>2, <2>7 DEF Uncounted
    <3>2. \A h \in Counts : Allowed(h)' = Allowed(h)
      BY <1>1, <3>1 DEF Allowed
    <3>3. ASSUME NEW h \in Counts
          PROVE  Allowed(h) * Cycle <= readAt[t]
      <4>1. Allowed(h) \in Int /\ readAt[t] % Cycle < a % Cycle
        BY <1>3, <2>2, <2>3, <2>7
      <4>2. CASE a <= readAt[t]
        <5>1. (Allowed(h) - 1) * Cycle <= a
          BY <2>1 DEF AheadInv
        <5> QED
          BY <1>3, <2>3, <4>1, <4>2, <5>1, WentBack
      <4>3. CASE readAt[t] < a
        <5>1. Allowed(h) * Cycle <= a
          BY <2>1, <2>6, <4>3 DEF AheadInv, Settled
        <5> QED
          BY <1>3, <2>3, <4>1, <4>3, <5>1, WentBack
      <4> QED
        BY <1>3, <2>3, <4>2, <4>3
    <3>4. AheadInv(a)'
      BY <1>1, <2>1, <2>4, <2>5, <3>2, <3>3 DEF AheadInv
    <3> QED
      BY <1>1, <2>4, <3>4 DEF LastInv
  <2>8. CASE ~ (low[t] < last_time)
    <3>1. Uncounted' = Uncounted \ {t}
      BY <1>1, <1>2, <2>8 DEF Uncounted
    <3>2. Cardinality(Uncounted') = Cardinality(Uncounted) - 1
      BY <2>2, <2>6, <3>1, FS_RemoveElement
    <3>3. \A h \in Counts : Allowed(h)' = Allowed(h) - 1
      BY <1>1, <2>2, <3>2 DEF Allowed
    <3>4. ASSUME NEW h \in Counts
          PROVE  /\ (Allowed(h) - 1) * Cycle = Allowed(h) * Cycle - Cycle
                 /\ (Allowed(h) - 1 - 1) * Cycle = Allowed(h) * Cycle - Cycle - Cycle
                 /\ Allowed(h) * Cycle \in Int
      <4>1. Allowed(h) \in Int /\ Allowed(h) - 1 \in Int
        BY <2>2
      <4> QED
        BY <2>3, <4>1, IntMultiples
    <3>5. ASSUME NEW h \in Counts
          PROVE  (Allowed(h) - 1) * Cycle <= readAt[t]
      <4>1. (Allowed(h) - 1) * Cycle <= a /\ (Settled(a) => Allowed(h) * Cycle <= a)
        BY <2>1 DEF AheadInv
      <4>2. CASE a <= readAt[t]
        BY <1>3, <2>3, <3>4, <4>1, <4>2
      <4>3. CASE readAt[t] < a
        <5>1. Settled(a)
          BY <2>6, <4>3 DEF Settled
        <5> QED
          BY <1>3, <2>3, <3>4, <4>1, <5>1
      <4> QED
        BY <1>3, <2>3, <4>2, <4>3
    <3>6. ASSUME NEW h \in Counts, NEW u \in Callers, Calling(u), cpc[u] # "compare"
          PROVE  (Allowed(h) - 1) * Cycle <= readAt[u]
      <4>1. Allowed(h) * Cycle <= readAt[u] /\ readAt[u] \in Nat
        BY <2>1, <3>6 DEF AheadInv, ClockInv, TimeKept, ClockTypeOK
      <4> QED
        BY <2>3, <3>4, <4>1
    <3>7. ASSUME NEW h \in Counts
          PROVE  /\ (Allowed(h) - 1 - 1) * Cycle <= a
                 /\ Settled(a) => (Allowed(h) - 1) * Cycle <= a
      <4>1. (Allowed(h) - 1) * Cycle <= a /\ (Settled(a) => Allowed(h) * Cycle <= a)
        BY <2>1 DEF AheadInv
      <4> QED
        BY <2>3, <3>4, <4>1
    <3>8. AheadInv(a)'
      BY <1>1, <2>4, <2>5, <3>3, <3>5, <3>6, <3>7 DEF AheadInv
    <3> QED
      BY <1>1, <2>4, <3>8 DEF LastInv
  <2> QED
    BY <2>7, <2>8
<1>7. HighInv'
  <2>1. ASSUME cpc'[t] = "combine"
        PROVE  readAt[t] < (time_hi + 1) * Cycle
    <3>1. ~ (low[t] < last_time)
      BY <1>2, <2>1
    <3>2. PICK a \in 0..completed : last_time = a % Cycle /\ ticks < a + Cycle
      BY DEF ClockInv, LastInv, LastAt
    <3>3. a \in Nat /\ a < (time_hi + 1) * Cycle /\ readAt[t] < a + Cycle
      BY <1>3, <3>2, (time_hi + 1) * Cycle \in Nat DEF ClockInv, HighInv
    <3>4. ~ (readAt[t] % Cycle < a % Cycle)
      BY <1>3, <3>1, <3>2
    <3> QED
      BY <1>3, <3>3, <3>4, SameCycle, time_hi + 1 \in Nat
  <2> QED
    BY <1>1, <1>2, <2>1 DEF ClockInv, HighInv, Combined
<1> QED
  BY <1>4, <1>5, <1>6, <1>7 DEF ClockInv

(* A call loads `time_hi'.                                                 *)
LEMMA LoadStep ==
  ASSUME ClockInv, NEW t \in Callers, LoadHigh(t)
  PROVE  ClockInv'
<1> USE ClockAssumption
<1>1. /\ cpc[t] = "load" /\ cpc' = [cpc EXCEPT ![t] = "increment"]
      /\ high' = [high EXCEPT ![t] = time_hi]
      /\ UNCHANGED <<ticks, time_hi, last_time, low, readAt, time, trigger,
                     completed, overlaps, calls>>
  BY DEF LoadHigh, At
<1>2. /\ cpc'[t] = "increment" /\ high'[t] = time_hi
      /\ \A u \in Callers \ {t} : cpc'[u] = cpc[u] /\ high'[u] = high[u]
  BY <1>1 DEF ClockInv, TimeKept, ClockTypeOK
<1>3. /\ readAt[t] \in Nat /\ completed \in Nat /\ ticks \in Nat /\ time_hi \in Nat
      /\ readAt[t] < completed + Half \/ readAt[t] < Cycle
      /\ completed < (time_hi + 1) * Cycle
  BY <1>1 DEF ClockInv, RecentInv, HighInv, Calling, TimeKept, ClockTypeOK
<1>4. TimeKept'
  <2>1. ClockTypeOK'
    <3>1. cpc' \in [Callers ->
            {"out", "compare", "load", "increment", "combine", "last", "timer"}]
      BY <1>1 DEF ClockInv, TimeKept, ClockTypeOK
    <3>2. high' \in [Callers -> Nat]
      BY <1>1 DEF ClockInv, TimeKept, ClockTypeOK
    <3> QED
      BY <1>1, <3>1, <3>2 DEF ClockInv, TimeKept, ClockTypeOK
  <2>2. ClockNotBehind' /\ ClockNotTooFarAhead'
    BY <1>1, <1>2 DEF ClockInv, TimeKept, ClockNotBehind, ClockNotTooFarAhead
  <2> QED
    BY <2>1, <2>2 DEF TimeKept
<1>5. RecentInv'
  BY <1>1, <1>2 DEF ClockInv, RecentInv, Calling
<1>6. LastInv'
  <2>1. PICK a \in 0..completed : LastAt(a) /\ AheadInv(a)
    BY DEF ClockInv, LastInv
  <2>2. Counts' \subseteq Counts
    BY <1>1, <1>2 DEF Counts
  <2>3. Uncounted' = Uncounted
    BY <1>1, <1>2 DEF Uncounted
  <2>4. \A h : Allowed(h)' = Allowed(h)
    BY <1>1, <2>3 DEF Allowed
  <2>5. Settled(a)' <=> Settled(a)
    BY <1>1, <1>2 DEF Settled, Calling
  <2>6. \A u \in Callers : Calling(u)' /\ cpc'[u] # "compare" => Calling(u) /\ cpc[u] # "compare"
    BY <1>1, <1>2 DEF Calling
  <2>7. AheadInv(a)'
    BY <1>1, <2>1, <2>2, <2>4, <2>5, <2>6 DEF AheadInv
  <2> QED
    BY <1>1, <2>1, <2>7 DEF LastInv, LastAt
<1>7. HighInv'
  <2>1. readAt[t] + Half <= (time_hi + 2) * Cycle
    <3>1. /\ (time_hi + 2) * Cycle = time_hi * Cycle + Cycle + Cycle
          /\ (time_hi + 1) * Cycle = time_hi * Cycle + Cycle
          /\ time_hi * Cycle \in Nat
      BY <1>3, Multiples
    <3> QED
      BY <1>3, <3>1, Halves
  <2> QED
    BY <1>1, <1>2, <2>1 DEF ClockInv, HighInv, Combined
<1> QED
  BY <1>4, <1>5, <1>6, <1>7 DEF ClockInv

(* A call stores the increment, of a value that may be old: the count may  *)
(* go down, but not below the present cycle.                               *)
LEMMA IncrementStep ==
  ASSUME ClockInv, NEW t \in Callers, IncrementHigh(t)
  PROVE  ClockInv'
<1> USE ClockAssumption
<1>1. /\ cpc[t] = "increment" /\ cpc' = [cpc EXCEPT ![t] = "combine"]
      /\ time_hi' = high[t] + 1
      /\ UNCHANGED <<ticks, last_time, low, high, readAt, time, trigger,
                     completed, overlaps, calls>>
  BY DEF IncrementHigh, At
<1>2. /\ cpc'[t] = "combine"
      /\ \A u \in Callers \ {t} : cpc'[u] = cpc[u]
  BY <1>1 DEF ClockInv, TimeKept, ClockTypeOK
<1> DEFINE end == (high[t] + 2) * Cycle
<1>3. /\ completed \in Nat /\ ticks \in Nat /\ high[t] \in Nat /\ time_hi' \in Nat
      /\ readAt \in [Callers -> 0..MaxTicks]
      /\ ticks < readAt[t] + Half /\ completed <= ticks
      /\ readAt[t] + Half <= end /\ end \in Nat /\ (time_hi' + 1) * Cycle = end
  <2>1. high[t] \in Nat /\ time_hi' + 1 = high[t] + 2 /\ time_hi' \in Nat
    BY <1>1 DEF ClockInv, TimeKept, ClockTypeOK
  <2>2. ticks < readAt[t] + Half /\ completed <= ticks
    BY <1>1 DEF ClockInv, RecentInv, Calling
  <2>3. readAt[t] + Half <= end
    BY <1>1 DEF ClockInv, HighInv
  <2>4. end \in Nat
    BY <2>1
  <2>5. /\ completed \in Nat /\ ticks \in Nat /\ readAt \in [Callers -> 0..MaxTicks]
    BY DEF ClockInv, TimeKept, ClockTypeOK
  <2>6. (time_hi' + 1) * Cycle = end
    BY <2>1
  <2> QED
    BY <2>1, <2>2, <2>3, <2>4, <2>5, <2>6
<1> HIDE DEF end
<1>4. TimeKept'
  <2>1. ClockTypeOK'
    <3>1. cpc' \in [Callers ->
            {"out", "compare", "load", "increment", "combine", "last", "timer"}]
      BY <1>1 DEF ClockInv, TimeKept, ClockTypeOK
    <3> QED
      BY <1>1, <1>3, <3>1 DEF ClockInv, TimeKept, ClockTypeOK
  <2>2. ClockNotBehind' /\ ClockNotTooFarAhead'
    BY <1>1, <1>2 DEF ClockInv, TimeKept, ClockNotBehind, ClockNotTooFarAhead
  <2> QED
    BY <2>1, <2>2 DEF TimeKept
<1>5. RecentInv'
  BY <1>1, <1>2 DEF ClockInv, RecentInv, Calling
<1>6. LastInv'
  <2>1. PICK a \in 0..completed : LastAt(a) /\ AheadInv(a)
    BY DEF ClockInv, LastInv
  <2>2. /\ IsFiniteSet(Uncounted) /\ Cardinality(Uncounted) \in Nat
        /\ overlaps \in Nat /\ Counts \subseteq Nat /\ \A h \in Counts : Allowed(h) \in Int
    BY AllowedTypes DEF ClockInv, TimeKept
  <2>3. Uncounted' = Uncounted \ {t} /\ t \in Uncounted
    BY <1>1, <1>2 DEF Uncounted
  <2>4. Cardinality(Uncounted') = Cardinality(Uncounted) - 1
    BY <2>2, <2>3, FS_RemoveElement
  <2>5. Settled(a)' <=> Settled(a)
    BY <1>1, <1>2 DEF Settled, Calling
  <2>6. \A u \in Callers : Calling(u)' /\ cpc'[u] # "compare" => Calling(u) /\ cpc[u] # "compare"
    BY <1>1, <1>2 DEF Calling
  <2>7. ASSUME NEW h \in Counts'
        PROVE  \E g \in Counts : Allowed(h)' <= Allowed(g) /\ Allowed(h)' \in Int
    <3>1. CASE h = time_hi'
      <4>1. high[t] \in Counts
        BY <1>1 DEF Counts
      <4>2. Allowed(h)' = Allowed(high[t])
        BY <1>1, <1>3, <2>2, <2>4, <3>1 DEF Allowed
      <4>3. Allowed(high[t]) \in Int
        BY <2>2, <4>1
      <4> WITNESS high[t] \in Counts
      <4> QED
        BY <4>2, <4>3
    <3>2. CASE h # time_hi'
      <4>1. h \in Counts /\ h \in Nat
        BY <1>1, <1>2, <2>2, <3>2 DEF Counts
      <4>2. Allowed(h)' = Allowed(h) - 1
        BY <1>1, <2>2, <2>4, <4>1 DEF Allowed
      <4> QED
        BY <2>2, <4>1, <4>2
    <3> QED
      BY <3>1, <3>2
  <2>8. ASSUME NEW h \in Counts'
        PROVE  \E g \in Counts :
                 /\ Allowed(h)' * Cycle <= Allowed(g) * Cycle
                 /\ (Allowed(h)' - 1) * Cycle <= (Allowed(g) - 1) * Cycle
                 /\ Allowed(h)' * Cycle \in Int /\ (Allowed(h)' - 1) * Cycle \in Int
                 /\ Allowed(g) * Cycle \in Int /\ (Allowed(g) - 1) * Cycle \in Int
    <3>1. PICK g \in Counts : Allowed(h)' <= Allowed(g) /\ Allowed(h)' \in Int
      BY <2>7
    <3>2. Allowed(g) \in Int /\ Allowed(g) - 1 \in Int /\ Allowed(h)' - 1 \in Int
          /\ Allowed(h)' - 1 <= Allowed(g) - 1
      BY <2>2, <3>1
    <3> QED
      BY <3>1, <3>2, IntMultiples
  <2>9. AheadInv(a)'
    <3>1. SUFFICES ASSUME NEW h \in Counts'
                   PROVE  /\ (Allowed(h)' - 1) * Cycle <= a
                          /\ Settled(a)' => Allowed(h)' * Cycle <= a
                          /\ \A u \in Callers : Calling(u)' /\ cpc'[u] # "compare" =>
                               Allowed(h)' * Cycle <= readAt'[u]
      BY DEF AheadInv
    <3>2. PICK g \in Counts :
                 /\ Allowed(h)' * Cycle <= Allowed(g) * Cycle
                 /\ (Allowed(h)' - 1) * Cycle <= (Allowed(g) - 1) * Cycle
                 /\ Allowed(h)' * Cycle \in Int /\ (Allowed(h)' - 1) * Cycle \in Int
                 /\ Allowed(g) * Cycle \in Int /\ (Allowed(g) - 1) * Cycle \in Int
      BY <2>8
    <3>3. /\ (Allowed(g) - 1) * Cycle <= a
          /\ Settled(a) => Allowed(g) * Cycle <= a
          /\ \A u \in Callers : Calling(u) /\ cpc[u] # "compare" =>
                               Allowed(g) * Cycle <= readAt[u]
      BY <2>1 DEF AheadInv
    <3>4. a \in Nat /\ \A u \in Callers : readAt[u] \in Nat
      BY <1>3
    <3>5. (Allowed(h)' - 1) * Cycle <= a
      BY <3>2, <3>3, <3>4
    <3>6. Settled(a)' => Allowed(h)' * Cycle <= a
      BY <2>5, <3>2, <3>3, <3>4
    <3>7. ASSUME NEW u \in Callers, Calling(u)', cpc'[u] # "compare"
          PROVE  Allowed(h)' * Cycle <= readAt'[u]
      <4>1. Allowed(g) * Cycle <= readAt[u] /\ readAt'[u] = readAt[u]
        BY <1>1, <2>6, <3>3, <3>7
      <4> QED
        BY <3>2, <3>4, <4>1
    <3> QED
      BY <3>5, <3>6, <3>7
  <2> QED
    BY <1>1, <2>1, <2>9 DEF LastInv, LastAt
<1>7. HighInv'
  <2>1. ticks < end
    BY <1>3, Halves
  <2>2. \A u \in Callers : Calling(u) => readAt[u] <= ticks /\ readAt[u] \in Nat
    BY <1>3 DEF ClockInv, RecentInv
  <2>3. \A u \in Callers : Combined(u)' => Calling(u)
    BY <1>1, <1>2 DEF Combined, Calling
  <2>4. \A u \in Callers : Combined(u)' => readAt[u] < end
    BY <1>3, <2>1, <2>2, <2>3
  <2>5. completed < end
    BY <1>3, <2>1
  <2>6. \A u \in Callers : cpc'[u] = "increment" =>
            readAt[u] + Half <= (high[u] + 2) * Cycle
    BY <1>2 DEF ClockInv, HighInv
  <2> QED
    BY <1>1, <1>3, <2>4, <2>5, <2>6 DEF HighInv
<1> QED
  BY <1>4, <1>5, <1>6, <1>7 DEF ClockInv

(* A call computes the time.                                               *)
LEMMA CombineStep ==
  ASSUME ClockInv, NEW t \in Callers, Combine(t)
  PROVE  ClockInv'
<1> USE ClockAssumption
<1> DEFINE total == time_hi * Cycle + low[t]
<1>1. /\ cpc[t] = "combine" /\ cpc' = [cpc EXCEPT ![t] = "last"]
      /\ time' = [time EXCEPT ![t] = total * NsPerTick]
      /\ UNCHANGED <<ticks, time_hi, last_time, low, high, readAt, trigger,
                     completed, overlaps, calls>>
  BY DEF Combine, At
<1>2. /\ cpc'[t] = "last" /\ time'[t] = total * NsPerTick
      /\ \A u \in Callers \ {t} : cpc'[u] = cpc[u] /\ time'[u] = time[u]
  BY <1>1 DEF ClockInv, TimeKept, ClockTypeOK
<1>3. /\ low[t] \in Nat /\ time_hi \in Nat /\ readAt[t] \in Nat
      /\ low[t] = readAt[t] % Cycle
  BY <1>1 DEF ClockInv, RecentInv, Calling, TimeKept, ClockTypeOK
<1>4. total \in Nat /\ total >= readAt[t]
  <2>1. readAt[t] < (time_hi + 1) * Cycle
    BY <1>1 DEF ClockInv, HighInv, Combined
  <2>2. time_hi * Cycle \in Nat
    BY <1>3
  <2>3. time_hi * Cycle + (readAt[t] % Cycle) >= readAt[t]
    BY <1>3, <2>1, WholeTime
  <2> QED
    BY <1>3, <2>2, <2>3
<1>5. total <= readAt[t] + overlaps * Cycle /\ overlaps \in Nat
  <2>1. PICK a \in 0..completed : LastAt(a) /\ AheadInv(a)
    BY DEF ClockInv, LastInv
  <2>2. /\ Cardinality(Uncounted) \in Nat /\ overlaps \in Nat
        /\ time_hi \in Counts /\ Allowed(time_hi) \in Int
    BY AllowedTypes DEF ClockInv, TimeKept
  <2>3. Allowed(time_hi) * Cycle <= readAt[t]
    BY <1>1, <2>1, <2>2 DEF AheadInv, Calling
  <2>4. time_hi - overlaps <= Allowed(time_hi) /\ time_hi - overlaps \in Int
    BY <1>3, <2>2 DEF Allowed
  <2>5. /\ (time_hi - overlaps) * Cycle <= Allowed(time_hi) * Cycle
        /\ (time_hi - overlaps) * Cycle \in Int /\ Allowed(time_hi) * Cycle \in Int
    BY <2>2, <2>4, IntMultiples
  <2>6. (time_hi - overlaps) * Cycle <= readAt[t]
    BY <1>3, <2>3, <2>5
  <2> QED
    BY <1>3, <2>2, <2>6, AheadTime
<1> HIDE DEF total
<1>6. total * NsPerTick \in Nat /\ total * NsPerTick >= readAt[t] * NsPerTick
  BY <1>3, <1>4, Multiples
<1>7. total * NsPerTick <= (readAt[t] + overlaps * Cycle) * NsPerTick
  <2>1. readAt[t] + overlaps * Cycle \in Nat
    BY <1>3, <1>5, Multiples
  <2> QED
    BY <1>4, <1>5, <2>1, Multiples
<1>8. TimeKept'
  <2>1. ClockTypeOK'
    <3>1. cpc' \in [Callers ->
            {"out", "compare", "load", "increment", "combine", "last", "timer"}]
      BY <1>1 DEF ClockInv, TimeKept, ClockTypeOK
    <3>2. time' \in [Callers -> Nat]
      BY <1>1, <1>6 DEF ClockInv, TimeKept, ClockTypeOK
    <3> QED
      BY <1>1, <3>1, <3>2 DEF ClockInv, TimeKept, ClockTypeOK
  <2>2. ClockNotBehind'
    BY <1>1, <1>2, <1>6 DEF ClockInv, TimeKept, ClockNotBehind
  <2>3. ClockNotTooFarAhead'
    BY <1>1, <1>2, <1>7 DEF ClockInv, TimeKept, ClockNotTooFarAhead
  <2> QED
    BY <2>1, <2>2, <2>3 DEF TimeKept
<1>9. RecentInv'
  BY <1>1, <1>2 DEF ClockInv, RecentInv, Calling
<1>10. LastInv'
  <2>1. PICK a \in 0..completed : LastAt(a) /\ AheadInv(a)
    BY DEF ClockInv, LastInv
  <2>2. Counts' = Counts /\ Uncounted' = Uncounted
    BY <1>1, <1>2 DEF Counts, Uncounted
  <2>3. \A h : Allowed(h)' = Allowed(h)
    BY <1>1, <2>2 DEF Allowed
  <2>4. \A u \in Callers : /\ Calling(u)' <=> Calling(u)
                           /\ cpc'[u] # "compare" <=> cpc[u] # "compare"
    BY <1>1, <1>2 DEF Calling
  <2>5. Settled(a)' <=> Settled(a)
    BY <1>1, <2>4 DEF Settled
  <2>6. AheadInv(a)'
    BY <1>1, <2>1, <2>2, <2>3, <2>4, <2>5 DEF AheadInv
  <2> QED
    BY <1>1, <2>1, <2>6 DEF LastInv, LastAt
<1>11. HighInv'
  BY <1>1, <1>2 DEF ClockInv, HighInv, Combined
<1> QED
  BY <1>8, <1>9, <1>10, <1>11 DEF ClockInv

(* A call stores `last_time' and returns.                                  *)
LEMMA StoreStep ==
  ASSUME ClockInv, NEW t \in Callers, StoreLast(t)
  PROVE  ClockInv'
<1> USE ClockAssumption
<1>1. /\ cpc[t] = "last" /\ cpc' = [cpc EXCEPT ![t] = "out"]
      /\ low' = [low EXCEPT ![t] = 0] /\ high' = [high EXCEPT ![t] = 0]
      /\ readAt' = [readAt EXCEPT ![t] = 0] /\ time' = [time EXCEPT ![t] = 0]
      /\ completed' = (IF readAt[t] > completed THEN readAt[t] ELSE completed)
      /\ last_time' = low[t]
      /\ UNCHANGED <<ticks, time_hi, trigger, overlaps, calls>>
  BY DEF StoreLast, Return, At
<1>2. /\ cpc'[t] = "out"
      /\ \A u \in Callers \ {t} : cpc'[u] = cpc[u] /\ low'[u] = low[u] /\ high'[u] = high[u]
                                  /\ readAt'[u] = readAt[u] /\ time'[u] = time[u]
  BY <1>1 DEF ClockInv, TimeKept, ClockTypeOK
<1>3. /\ readAt \in [Callers -> 0..MaxTicks] /\ completed \in 0..MaxTicks /\ ticks \in Nat
      /\ low[t] = readAt[t] % Cycle /\ low[t] \in 0 .. Cycle - 1
      /\ readAt[t] <= ticks /\ ticks < readAt[t] + Half
      /\ readAt[t] < (time_hi + 1) * Cycle /\ completed < (time_hi + 1) * Cycle
  BY <1>1 DEF ClockInv, RecentInv, HighInv, Combined, Calling, TimeKept, ClockTypeOK
<1>4. /\ completed' \in 0..MaxTicks /\ completed <= completed' /\ readAt[t] <= completed'
      /\ completed' = readAt[t] \/ completed' = completed
  BY <1>1, <1>3
<1>5. TimeKept'
  <2>1. ClockTypeOK'
    <3>1. cpc' \in [Callers ->
            {"out", "compare", "load", "increment", "combine", "last", "timer"}]
      BY <1>1 DEF ClockInv, TimeKept, ClockTypeOK
    <3>2. /\ low' \in [Callers -> 0 .. Cycle - 1] /\ high' \in [Callers -> Nat]
          /\ time' \in [Callers -> Nat]
      BY <1>1 DEF ClockInv, TimeKept, ClockTypeOK
    <3>3. readAt' \in [Callers -> 0..MaxTicks]
      BY <1>1 DEF ClockInv, TimeKept, ClockTypeOK
    <3> QED
      BY <1>1, <1>3, <1>4, <3>1, <3>2, <3>3 DEF ClockInv, TimeKept, ClockTypeOK
  <2>2. ClockNotBehind' /\ ClockNotTooFarAhead'
    BY <1>1, <1>2 DEF ClockInv, TimeKept, ClockNotBehind, ClockNotTooFarAhead
  <2> QED
    BY <2>1, <2>2 DEF TimeKept
<1>6. RecentInv'
  <2>1. completed' <= ticks
    BY <1>3, <1>4 DEF ClockInv, RecentInv
  <2>2. ASSUME NEW x \in Nat, x < completed + Half
        PROVE  x < completed' + Half
    <3>1. completed \in Nat /\ Half \in Nat
      BY <1>3, Halves
    <3>2. PICK c \in Nat : c = completed'
      BY <1>4
    <3>3. completed <= c
      BY <1>4, <3>2
    <3>4. x < c + Half
      BY <2>2, <3>1, <3>3
    <3> QED
      BY <3>2, <3>4
  <2>3. ticks < completed' + Half \/ ticks < Cycle
    BY <1>3, <2>2 DEF ClockInv, RecentInv
  <2>4. ASSUME NEW u \in Callers, Calling(u)'
        PROVE  /\ readAt'[u] <= ticks /\ ticks < readAt'[u] + Half
               /\ readAt'[u] < completed' + Half \/ readAt'[u] < Cycle
               /\ low'[u] = readAt'[u] % Cycle
    <3>1. u # t /\ Calling(u)
      BY <1>2, <2>4 DEF Calling
    <3> QED
      BY <1>2, <1>3, <2>2, <3>1 DEF ClockInv, RecentInv
  <2> QED
    BY <1>1, <2>1, <2>3, <2>4 DEF RecentInv
<1>7. LastInv'
  <2>1. completed' < readAt[t] + Half /\ ticks < readAt[t] + Cycle
    BY <1>3, <1>4, Halves DEF ClockInv, RecentInv
  <2>2. readAt[t] \in 0..completed'
    BY <1>3, <1>4
  <2>4. PICK a \in 0..completed : AheadInv(a)
    BY DEF ClockInv, LastInv
  <2>5. Counts' = Counts /\ Uncounted' = Uncounted
    BY <1>1, <1>2 DEF Counts, Uncounted
  <2>6. \A h : Allowed(h)' = Allowed(h)
    BY <1>1, <2>5 DEF Allowed
  <2>7. \A h \in Counts : Allowed(h) * Cycle <= readAt[t]
    BY <1>1, <2>4 DEF AheadInv, Calling
  <2>8. ASSUME NEW h \in Counts
        PROVE  (Allowed(h) - 1) * Cycle <= readAt[t]
    <3>1. Allowed(h) \in Int /\ Cycle \in Nat \ {0} /\ readAt[t] \in Nat
      BY <1>3, ClockAssumption, AllowedTypes DEF ClockInv, TimeKept
    <3>2. (Allowed(h) - 1) * Cycle = Allowed(h) * Cycle - Cycle /\ Allowed(h) * Cycle \in Int
      BY <3>1, IntMultiples
    <3> QED
      BY <2>7, <3>1, <3>2
  <2>9. \A u \in Callers : Calling(u)' /\ cpc'[u] # "compare" =>
          Calling(u) /\ cpc[u] # "compare" /\ readAt'[u] = readAt[u]
    BY <1>2 DEF Calling
  <2>10. \A h \in Counts : \A u \in Callers : Calling(u) /\ cpc[u] # "compare" =>
           Allowed(h) * Cycle <= readAt[u]
    BY <2>4 DEF AheadInv
  <2> DEFINE r == readAt[t]
  <2>11. \A h \in Counts' :
           /\ (Allowed(h)' - 1) * Cycle <= r
           /\ Allowed(h)' * Cycle <= r
           /\ \A u \in Callers : Calling(u)' /\ cpc'[u] # "compare" =>
                Allowed(h)' * Cycle <= readAt'[u]
    BY <2>5, <2>6, <2>7, <2>8, <2>9, <2>10
  <2>12. PICK n \in 0..completed' : n = r
    BY <2>2
  <2>13. LastAt(n)'
    BY <1>1, <1>3, <2>1, <2>12 DEF LastAt
  <2>14. AheadInv(n)'
    BY <2>11, <2>12 DEF AheadInv
  <2> QED
    BY <2>13, <2>14 DEF LastInv
<1>8. HighInv'
  BY <1>1, <1>2, <1>3, <1>4 DEF ClockInv, HighInv, Combined
<1> QED
  BY <1>5, <1>6, <1>7, <1>8 DEF ClockInv

(* Timed waits leave the clock alone.                                      *)
LEMMA TimerSteps ==
  ASSUME ClockInv, NEW t \in Callers, TimerStep(t)
  PROVE  ClockInv'
<1> USE ClockAssumption
<1>1. /\ cpc[t] \in {"out", "timer"}
      /\ cpc' \in {[cpc EXCEPT ![t] = "out"], [cpc EXCEPT ![t] = "timer"]}
      /\ UNCHANGED <<ticks, time_hi, last_time, low, high, readAt, completed, overlaps>>
  BY DEF TimerStep, TimerFires, StartTimer, At
<1>2. ClockTypeOK'
  <2>1. cpc' \in [Callers -> {"out", "compare", "load", "increment", "combine", "last", "timer"}]
    BY <1>1 DEF ClockInv, TimeKept, ClockTypeOK
  <2>2. CASE TimerFires(t)
    BY <1>1, <2>1, <2>2 DEF TimerFires, ClockInv, TimeKept, ClockTypeOK
  <2>3. ASSUME NEW ns \in WaitTimes, StartTimer(t, ns)
        PROVE  ClockTypeOK'
    <3>1. TriggerOf(ns) \in 0 .. Cycle - 1
      <4> DEFINE r == ns % Cycle
      <4>1. ns \in Nat /\ r \in 0 .. Cycle - 1
        BY Division
      <4> HIDE DEF r
      <4>2. r \div NsPerTick \in 0 .. r
        BY <4>1
      <4> QED
        BY <4>1, <4>2 DEF TriggerOf, r
    <3>2. trigger' \in [Callers -> 0 .. Cycle - 1] /\ time' \in [Callers -> Nat]
      BY <2>3, <3>1 DEF StartTimer, ClockInv, TimeKept, ClockTypeOK
    <3>3. calls' \in 0..MaxCalls /\ overlaps' \in 0..calls'
      BY <2>3 DEF StartTimer, ClockInv, TimeKept, ClockTypeOK
    <3> QED
      BY <1>1, <2>1, <3>2, <3>3 DEF ClockInv, TimeKept, ClockTypeOK
  <2> QED
    BY <2>2, <2>3 DEF TimerStep
<1>3. ASSUME NEW u \in Callers
      PROVE  \/ cpc'[u] = cpc[u]
             \/ cpc[u] \in {"out", "timer"} /\ cpc'[u] \in {"out", "timer"}
  <2>1. cpc \in [Callers -> {"out", "compare", "load", "increment", "combine", "last", "timer"}]
    BY DEF ClockInv, TimeKept, ClockTypeOK
  <2>2. u # t => cpc'[u] = cpc[u]
    BY <1>1, <2>1
  <2>3. cpc'[t] \in {"out", "timer"}
    BY <1>1, <2>1
  <2> QED
    BY <1>1, <2>2, <2>3
<1>4. \A u \in Callers : cpc[u] \notin {"out", "timer"} => time'[u] = time[u]
  BY <1>1 DEF TimerStep, TimerFires, StartTimer, At, ClockInv, TimeKept, ClockTypeOK
<1>5. \A u \in Callers : Calling(u)' = Calling(u) /\ Combined(u)' = Combined(u)
  BY <1>3 DEF Calling, Combined
<1>6. TimeKept'
  BY <1>1, <1>2, <1>3, <1>4 DEF ClockInv, TimeKept, ClockNotBehind, ClockNotTooFarAhead
<1>7. RecentInv'
  BY <1>1, <1>5 DEF ClockInv, RecentInv
<1>8. LastInv'
  <2>1. PICK a \in 0..completed : LastAt(a) /\ AheadInv(a)
    BY DEF ClockInv, LastInv
  <2>2. Counts' = Counts /\ Uncounted' = Uncounted
    BY <1>1, <1>3 DEF Counts, Uncounted
  <2>3. \A h : Allowed(h)' = Allowed(h)
    BY <1>1, <2>2 DEF Allowed
  <2>4. \A u \in Callers : Calling(u)' /\ cpc'[u] # "compare" => Calling(u) /\ cpc[u] # "compare"
    BY <1>3 DEF Calling
  <2>5. Settled(a)' <=> Settled(a)
    BY <1>1, <1>5 DEF Settled
  <2>6. AheadInv(a)'
    BY <1>1, <2>1, <2>2, <2>3, <2>4, <2>5 DEF AheadInv
  <2> QED
    BY <1>1, <2>1, <2>6 DEF LastInv, LastAt
<1>9. HighInv'
  BY <1>1, <1>3, <1>5 DEF ClockInv, HighInv
<1> QED
  BY <1>6, <1>7, <1>8, <1>9 DEF ClockInv

(* Every step of the clock keeps the invariant.                            *)
LEMMA ClockNextInv ==
  ASSUME ClockInv, [ClockNext]_clockVars
  PROVE  ClockInv'
<1>1. CASE UNCHANGED clockVars
  BY <1>1 DEF clockVars, ClockInv, TimeKept, ClockTypeOK, ClockNotBehind, ClockNotTooFarAhead,
              RecentInv, LastInv, LastAt, AheadInv, Allowed, Counts, Uncounted, Settled, HighInv,
              Calling, Combined
<1>2. ASSUME NEW t \in Callers, GetTimeStep(t)
      PROVE  ClockInv'
  BY <1>2, ReadStep, CompareStep, LoadStep, IncrementStep, CombineStep, StoreStep DEF GetTimeStep
<1> QED
  BY <1>1, <1>2, TickStep, TimerSteps DEF ClockNext

(* lf_clock_gettime never returns a time before it read the counter,       *)
(* whatever the interleaving, and is ahead of it by at most one cycle for  *)
(* each call that ever began while another was in progress.                *)
THEOREM TimeIsKept == ClockSpec => []TimeKept
<1>1. ClockInv => TimeKept
  BY DEF ClockInv
<1>2. ClockSpec => []ClockInv
  BY ClockInitInv, ClockNextInv, PTL DEF ClockSpec
<1> QED
  BY <1>1, <1>2, PTL

-----------------------------------------------------------------------------
(* Threads *)

(* The steps of main and of the threads it creates.                        *)
ThreadStep ==
  \/ ChooseEntry \/ StartThread \/ RecordThread \/ Join
  \/ \E h \in Hardware \ {0} : ThreadFunction(h) \/ GetTidFails(h) \/ ThreadEnds(h)

(* An entry of thread_info that belongs to a thread: `running', or about   *)
(* to.                                                                     *)
Used(e) == running[e] \/ (mainAt = "record" /\ entry = e)

(* The entries that are running.                                           *)
InUse == {e \in Entries : running[e]}

(* Main is in start_threads.                                               *)
Creating == mainAt \in {"create", "start", "record", "noEntry"}

(* The indices of _lf_thread_ids that main has come by and not yet joined. *)
Pending ==
  CASE Creating          -> 0 .. i - 1
    [] mainAt = "joined" -> {}
    [] OTHER             -> i .. workers - 1

(* Entries in use and threads that live correspond one to one.             *)
OwnEntries ==
  /\ \A e \in Entries : Used(e) => id[e] \in Live /\ stack[e]
  /\ \A e, o \in Entries : Used(e) /\ Used(o) /\ id[e] = id[o] => e = o
  /\ \A h \in Live : \E e \in Entries : Used(e) /\ id[e] = h

(* The entry that lf_thread_create has chosen is not in use, and has a     *)
(* stack.                                                                  *)
ChosenIsFree == mainAt \in {"start", "record"} => ~ running[entry] /\ stack[entry]

(* What is running is in _lf_thread_ids, for main to join.                 *)
RunningPending == \A e \in InUse : \E k \in Pending : ids[k] = e

(* The handles that main has not come to yet are not set.                  *)
LaterUnset == Creating => \A k \in i .. workers - 1 : ids[k] = Unset

(* As long as no handle is missing from those to join, each names a        *)
(* running entry of its own.                                               *)
PendingRunning ==
  Creating \/ NotCreated = {} =>
    /\ \A k \in Pending : ids[k] # Unset => running[ids[k]]
    /\ \A k, l \in Pending : ids[k] # Unset /\ ids[k] = ids[l] => k = l

(* When one is missing, fewer entries are running than main has to join.   *)
TooFewRunning == mainAt = "join" /\ NotCreated # {} => Cardinality(InUse) < workers - i

(* The inductive invariant of the threads.                                 *)
ThreadInv ==
  /\ ThreadTypeOK /\ hw[0] = "running"
  /\ OwnEntries /\ ChosenIsFree /\ RunningPending
  /\ LaterUnset /\ PendingRunning /\ TooFewRunning /\ JoinsAccount

(* When lf_reactor_c_main starts, no thread has been created.              *)
LEMMA ThreadInitInv ==
  ASSUME ThreadInit
  PROVE  ThreadInv
<1> USE ThreadAssumption DEF ThreadInit
<1>1. ThreadTypeOK
  <2>1. 0 \in Entries /\ 0 \in 0 .. workers - 1 /\ workers \in WorkerCounts
    BY DEF Entries
  <2>2. /\ hw \in [Hardware -> {"free", "started", "running", "ended", "wild", "trapped"}]
        /\ id \in [Entries -> Hardware \cup {Unset}]
        /\ ids \in [0 .. workers - 1 -> Entries \cup {Unset}]
    OBVIOUS
  <2> QED
    BY <2>1, <2>2 DEF ThreadTypeOK
<1>2. \A e \in Entries : ~ Used(e)
  BY DEF Used
<1>3. Live = {}
  BY DEF Live
<1>4. OwnEntries /\ ChosenIsFree /\ RunningPending
  BY <1>2, <1>3 DEF OwnEntries, ChosenIsFree, RunningPending, InUse
<1>5. Pending = {}
  BY DEF Pending, Creating
<1>6. LaterUnset /\ PendingRunning /\ TooFewRunning /\ JoinsAccount
  BY <1>5 DEF LaterUnset, PendingRunning, TooFewRunning, JoinsAccount
<1>7. hw[0] = "running"
  OBVIOUS
<1> QED
  BY <1>1, <1>4, <1>6, <1>7 DEF ThreadInv

(* get_available_thread finds the first entry that is not in use.          *)
LEMMA FirstEntry ==
  ASSUME ThreadTypeOK, \E e \in Entries : ~ running[e]
  PROVE  \E e \in Entries : ~ running[e] /\ \A o \in 0 .. e - 1 : running[o]
<1> DEFINE available == {e \in Entries : ~ running[e]}
<1>1. available \in SUBSET Nat /\ available # {}
  BY DEF Entries
<1>2. PICK e \in available : \A o \in available : ~ (<<o, e>> \in OpToRel(<, Nat))
  BY <1>1, NatLessThanWellFounded, WFMin
<1>3. ASSUME NEW o \in 0 .. e - 1
      PROVE  running[o]
  <2>1. e \in Entries /\ o \in Entries /\ o < e /\ o \in Nat /\ e \in Nat
    BY ThreadAssumption DEF Entries
  <2>2. o \notin available
    BY <1>2, <2>1 DEF OpToRel
  <2> QED
    BY <2>1, <2>2
<1> QED
  BY <1>3

(* There are no more entries in use than handles that name them.           *)
LEMMA CountHandles ==
  ASSUME NEW K, IsFiniteSet(K), \A e \in InUse : \E k \in K : ids[k] = e
  PROVE  IsFiniteSet(InUse) /\ Cardinality(InUse) <= Cardinality(K)
<1> DEFINE J == {k \in K : ids[k] \in InUse}
           f == [k \in J |-> ids[k]]
<1>1. IsFiniteSet(J) /\ Cardinality(J) <= Cardinality(K)
  BY FS_Subset
<1>2. f \in Surjection(J, InUse)
  <2>1. f \in [J -> InUse]
    OBVIOUS
  <2>2. \A e \in InUse : \E k \in J : f[k] = e
    OBVIOUS
  <2> QED
    BY <2>1, <2>2 DEF Surjection
<1>3. IsFiniteSet(InUse) /\ Cardinality(InUse) <= Cardinality(J)
  BY <1>1, <1>2, FS_Surjection
<1> QED
  BY <1>1, <1>3, FS_CardinalityType

(* Entries are finite in number, so those in use are.                      *)
LEMMA InUseFinite == IsFiniteSet(InUse) /\ Cardinality(InUse) \in Nat
<1>1. IsFiniteSet(Entries)
  BY ThreadAssumption, FS_Interval DEF Entries
<1> QED
  BY <1>1, FS_Subset, FS_CardinalityType DEF InUse

(* When every entry is in use, each belongs to one of the workers created  *)
(* so far, so that there are more workers than entries.                    *)
LEMMA NoEntryLeft ==
  ASSUME ThreadInv, mainAt = "create", \A e \in Entries : running[e]
  PROVE  workers > NumThreads
<1> USE ThreadAssumption
<1>1. i \in Nat /\ workers \in Nat /\ i < workers
  BY DEF ThreadInv, ThreadTypeOK
<1>2. IsFiniteSet(0 .. i - 1) /\ Cardinality(0 .. i - 1) = i
  BY <1>1, FS_Interval
<1>3. Cardinality(InUse) <= i
  BY <1>2, CountHandles DEF ThreadInv, RunningPending, Pending, Creating
<1>4. InUse = 0 .. NumThreads - 1
  BY DEF InUse, Entries
<1>5. Cardinality(InUse) = NumThreads
  BY <1>4, FS_Interval
<1> QED
  BY <1>1, <1>3, <1>5

(* When start_threads has returned and a handle is missing, fewer entries  *)
(* are in use than there are workers.                                      *)
LEMMA TooFewAtReturn ==
  ThreadTypeOK /\ RunningPending /\ mainAt = "join" /\ i = 0 => TooFewRunning
<1> SUFFICES ASSUME ThreadTypeOK, RunningPending, mainAt = "join", i = 0
             PROVE  TooFewRunning
  OBVIOUS
<1> USE ThreadAssumption
<1>1. workers \in Nat /\ DOMAIN ids = 0 .. workers - 1 /\ Unset \notin Entries
  BY DEF ThreadTypeOK, Entries, Unset
<1>2. SUFFICES ASSUME NEW u \in 0 .. workers - 1, ids[u] = Unset
               PROVE  Cardinality(InUse) < workers
  BY <1>1 DEF TooFewRunning, NotCreated
<1> DEFINE All == 0 .. workers - 1
           K == All \ {u}
<1>3. IsFiniteSet(All) /\ Cardinality(All) = workers
  BY <1>1, FS_Interval
<1>4. IsFiniteSet(K) /\ Cardinality(K) = workers - 1
  <2>1. u \in All
    BY <1>2
  <2>2. Cardinality(K) = Cardinality(All) - 1 /\ IsFiniteSet(K)
    <3> HIDE DEF All
    <3> QED
      BY <1>3, <2>1, FS_RemoveElement
  <2> QED
    BY <1>3, <2>2
<1>5. \A e \in InUse : \E k \in K : ids[k] = e
  BY <1>1, <1>2 DEF RunningPending, Pending, Creating, InUse
<1>6. Cardinality(InUse) <= Cardinality(K)
  BY <1>4, <1>5, CountHandles
<1> QED
  BY <1>1, <1>4, <1>6, InUseFinite

(* lf_thread_create chooses an entry, or traps.                            *)
LEMMA ChooseEntryStep ==
  ASSUME ThreadInv, ChooseEntry
  PROVE  ThreadInv'
<1> USE ThreadAssumption DEF ThreadInv
<1>1. CASE \A e \in Entries : running[e]
  <2>1. /\ mainAt = "create" /\ mainAt' = "noEntry"
        /\ UNCHANGED <<workers, i, running, id, ids, hw, entry, stack>>
    BY <1>1 DEF ChooseEntry, MainAt
  <2>2. ThreadTypeOK' /\ hw'[0] = "running"
    BY <2>1 DEF ThreadTypeOK
  <2>3. OwnEntries' /\ ChosenIsFree'
    BY <2>1 DEF OwnEntries, ChosenIsFree, Used, Live
  <2>4. Pending' = Pending /\ Creating /\ Creating' /\ InUse' = InUse
    BY <2>1 DEF Pending, Creating, InUse
  <2>5. RunningPending' /\ LaterUnset' /\ PendingRunning' /\ TooFewRunning'
    BY <2>1, <2>4 DEF RunningPending, LaterUnset, PendingRunning, TooFewRunning
  <2>6. JoinsAccount'
    BY <1>1, <2>1, NoEntryLeft DEF JoinsAccount
  <2> QED
    BY <2>2, <2>3, <2>5, <2>6
<1>2. CASE \E e \in Entries : ~ running[e]
  <2>1. /\ mainAt = "create" /\ mainAt' = "start"
        /\ entry' \in Entries /\ ~ running[entry']
        /\ stack' = [stack EXCEPT ![entry'] = TRUE]
        /\ UNCHANGED <<workers, i, running, id, ids, hw>>
    BY <1>2, FirstEntry DEF ChooseEntry, MainAt
  <2>2. ThreadTypeOK' /\ hw'[0] = "running"
    <3>1. stack' \in [Entries -> BOOLEAN]
      BY <2>1 DEF ThreadTypeOK
    <3> QED
      BY <2>1, <3>1 DEF ThreadTypeOK
  <2>3. OwnEntries'
    BY <2>1 DEF OwnEntries, Used, Live, ThreadTypeOK
  <2>4. ChosenIsFree'
    BY <2>1 DEF ChosenIsFree, ThreadTypeOK
  <2>5. Pending' = Pending /\ Creating /\ Creating' /\ InUse' = InUse
    BY <2>1 DEF Pending, Creating, InUse
  <2>6. RunningPending' /\ LaterUnset' /\ PendingRunning' /\ TooFewRunning' /\ JoinsAccount'
    BY <2>1, <2>5 DEF RunningPending, LaterUnset, PendingRunning, TooFewRunning, JoinsAccount
  <2> QED
    BY <2>2, <2>3, <2>4, <2>6
<1> QED
  BY <1>1, <1>2

(* Main goes on with the next worker.                                      *)
LEMMA NextIndex ==
  ASSUME ThreadTypeOK, NEW from, NEW loop, NEW end, NextWorker(from, loop, end)
  PROVE  /\ mainAt = from
         /\ \/ i + 1 \in 0 .. workers - 1 /\ i' = i + 1 /\ mainAt' = loop
            \/ i + 1 = workers /\ i' = 0 /\ mainAt' = end
         /\ i' \in 0 .. workers - 1
<1>1. i \in 0 .. workers - 1 /\ workers \in Nat
  BY ThreadAssumption DEF ThreadTypeOK
<1> QED
  BY <1>1 DEF NextWorker, MainAt

(* The handle of the worker that main creates becomes one to join, set or  *)
(* not.                                                                    *)
LEMMA NextPending ==
  ASSUME ThreadTypeOK, NEW from \in {"start", "record"},
         NextWorker(from, "create", "join"), UNCHANGED workers
  PROVE  /\ Pending = 0 .. i - 1 /\ Pending' = Pending \cup {i}
         /\ Creating /\ (mainAt' = "join" => i' = 0)
         /\ Creating' => i' .. workers - 1 \subseteq (i .. workers - 1) \ {i}
<1>1. i \in Nat /\ workers \in Nat /\ i < workers
  BY ThreadAssumption DEF ThreadTypeOK
<1>2. Pending = 0 .. i - 1 /\ Creating
  BY NextIndex DEF Pending, Creating
<1>3. CASE i + 1 \in 0 .. workers - 1 /\ i' = i + 1 /\ mainAt' = "create"
  <2>1. Pending' = 0 .. i
    BY <1>1, <1>3 DEF Pending, Creating
  <2> QED
    BY <1>1, <1>2, <1>3, <2>1
<1>4. CASE i + 1 = workers /\ i' = 0 /\ mainAt' = "join"
  <2>1. Pending' = 0 .. workers - 1 /\ ~ Creating'
    BY <1>4 DEF Pending, Creating
  <2> QED
    BY <1>1, <1>2, <1>4, <2>1
<1> QED
  BY <1>3, <1>4, NextIndex

(* The hardware thread is started, or there is none.                       *)
LEMMA StartThreadStep ==
  ASSUME ThreadInv, StartThread
  PROVE  ThreadInv'
<1> USE ThreadAssumption DEF ThreadInv
<1>1. CASE NextWorker("start", "create", "join") /\ UNCHANGED <<hw, id>>
  <2>1. /\ mainAt = "start" /\ mainAt' \in {"create", "join"} /\ i' \in 0 .. workers - 1
        /\ UNCHANGED <<hw, id, workers, entry, running, stack, ids>>
    BY <1>1, NextIndex DEF StartThread
  <2>2. /\ Pending = 0 .. i - 1 /\ Pending' = Pending \cup {i}
        /\ Creating /\ (mainAt' = "join" => i' = 0)
        /\ Creating' => i' .. workers - 1 \subseteq (i .. workers - 1) \ {i}
    BY <1>1, <2>1, NextPending
  <2>3. ThreadTypeOK' /\ hw'[0] = "running"
    BY <2>1 DEF ThreadTypeOK
  <2>4. OwnEntries' /\ ChosenIsFree'
    BY <2>1 DEF OwnEntries, ChosenIsFree, Used, Live
  <2>5. RunningPending'
    BY <2>1, <2>2 DEF RunningPending, InUse
  <2>6. ids[i] = Unset
    BY <2>2 DEF LaterUnset, ThreadTypeOK
  <2>7. LaterUnset' /\ PendingRunning'
    BY <2>1, <2>2, <2>6 DEF LaterUnset, PendingRunning
  <2>8. TooFewRunning'
    <3>1. CASE mainAt' = "create"
      BY <3>1 DEF TooFewRunning
    <3>2. CASE mainAt' = "join"
      <4>1. (ThreadTypeOK /\ RunningPending /\ mainAt = "join" /\ i = 0)'
        BY <2>2, <2>3, <2>5, <3>2
      <4>2. (ThreadTypeOK /\ RunningPending /\ mainAt = "join" /\ i = 0 => TooFewRunning)'
        BY TooFewAtReturn, PTL
      <4> QED
        BY <4>1, <4>2
    <3> QED
      BY <2>1, <3>1, <3>2
  <2>9. JoinsAccount'
    BY <2>1 DEF JoinsAccount
  <2> QED
    BY <2>3, <2>4, <2>5, <2>7, <2>8, <2>9
<1>2. ASSUME NEW h \in Hardware, hw[h] = "free", mainAt = "start", mainAt' = "record",
             hw' = [hw EXCEPT ![h] = "started"], id' = [id EXCEPT ![entry] = h],
             UNCHANGED <<i, workers, entry, running, stack, ids>>
      PROVE  ThreadInv'
  <2>1. /\ entry \in Entries /\ ~ running[entry] /\ h # 0
        /\ id'[entry] = h /\ hw'[h] = "started"
        /\ \A e \in Entries \ {entry} : id'[e] = id[e]
        /\ \A g \in Hardware \ {h} : hw'[g] = hw[g]
    BY <1>2 DEF ThreadTypeOK, ChosenIsFree
  <2>2. ThreadTypeOK'
    <3>1. /\ hw' \in [Hardware -> {"free", "started", "running", "ended", "wild", "trapped"}]
          /\ id' \in [Entries -> Hardware \cup {Unset}]
      BY <1>2 DEF ThreadTypeOK
    <3> QED
      BY <1>2, <3>1 DEF ThreadTypeOK
  <2>3. Live' = Live \cup {h} /\ h \notin Live
    BY <1>2, <2>1 DEF Live
  <2>4. \A e \in Entries : Used(e)' <=> Used(e) \/ e = entry
    BY <1>2 DEF Used
  <2>5. stack[entry]
    BY <1>2 DEF ChosenIsFree
  <2>6. OwnEntries'
    <3>1. \A e \in Entries : Used(e) => e # entry /\ id[e] # h
      BY <1>2, <2>1, <2>3 DEF OwnEntries, Used
    <3>2. ASSUME NEW e \in Entries, Used(e)'
          PROVE  id'[e] \in Live' /\ stack'[e]
      BY <1>2, <2>1, <2>3, <2>4, <2>5, <3>2 DEF OwnEntries
    <3>3. ASSUME NEW e \in Entries, NEW o \in Entries, Used(e)', Used(o)', id'[e] = id'[o]
          PROVE  e = o
      BY <2>1, <2>4, <3>1, <3>3 DEF OwnEntries
    <3>4. ASSUME NEW g \in Live'
          PROVE  \E e \in Entries : Used(e)' /\ id'[e] = g
      <4>1. CASE g = h
        BY <2>1, <2>4, <4>1
      <4>2. CASE g \in Live
        <5>1. PICK e \in Entries : Used(e) /\ id[e] = g
          BY <4>2 DEF OwnEntries
        <5> QED
          BY <2>1, <2>4, <3>1, <5>1
      <4> QED
        BY <2>3, <4>1, <4>2
    <3> QED
      BY <3>2, <3>3, <3>4 DEF OwnEntries
  <2>7. Pending' = Pending /\ Creating /\ Creating' /\ InUse' = InUse
    BY <1>2 DEF Pending, Creating, InUse
  <2>8. ChosenIsFree' /\ RunningPending'
    BY <1>2, <2>1, <2>7 DEF ChosenIsFree, RunningPending
  <2>9. LaterUnset' /\ PendingRunning' /\ TooFewRunning' /\ JoinsAccount'
    BY <1>2, <2>7 DEF LaterUnset, PendingRunning, TooFewRunning, JoinsAccount
  <2> QED
    BY <1>2, <2>1, <2>2, <2>6, <2>8, <2>9
<1>3. CASE \E h \in Hardware :
             /\ hw[h] = "free" /\ MainAt("start", "record")
             /\ hw' = [hw EXCEPT ![h] = "started"]
             /\ id' = [id EXCEPT ![entry] = h]
             /\ UNCHANGED i
  BY <1>2, <1>3 DEF StartThread, MainAt
<1> QED
  BY <1>1, <1>3 DEF StartThread

(* lf_thread_create marks the entry and returns its index.                 *)
LEMMA RecordThreadStep ==
  ASSUME ThreadInv, RecordThread
  PROVE  ThreadInv'
<1> USE ThreadAssumption DEF ThreadInv
<1>1. /\ mainAt = "record" /\ mainAt' \in {"create", "join"} /\ i' \in 0 .. workers - 1
      /\ running' = [running EXCEPT ![entry] = TRUE] /\ ids' = [ids EXCEPT ![i] = entry]
      /\ UNCHANGED <<workers, entry, id, stack, hw>>
  BY NextIndex DEF RecordThread
<1>2. /\ entry \in Entries /\ entry # Unset /\ ~ running[entry]
      /\ i \in 0 .. workers - 1 /\ ids'[i] = entry
      /\ \A k \in 0 .. workers - 1 : k # i => ids'[k] = ids[k]
      /\ \A e \in Entries : running'[e] <=> running[e] \/ e = entry
  BY <1>1 DEF ThreadTypeOK, ChosenIsFree, Entries, Unset
<1>3. /\ Pending = 0 .. i - 1 /\ Pending' = Pending \cup {i}
      /\ Creating /\ (mainAt' = "join" => i' = 0)
      /\ Creating' => i' .. workers - 1 \subseteq (i .. workers - 1) \ {i}
  BY <1>1, NextPending DEF RecordThread
<1>4. Pending \subseteq 0 .. workers - 1 /\ i \notin Pending
  BY <1>2, <1>3 DEF ThreadTypeOK
<1>5. ThreadTypeOK' /\ hw'[0] = "running"
  <2>1. running' \in [Entries -> BOOLEAN] /\ ids' \in [0 .. workers - 1 -> Entries \cup {Unset}]
    BY <1>1 DEF ThreadTypeOK
  <2> QED
    BY <1>1, <2>1 DEF ThreadTypeOK
<1>6. OwnEntries' /\ ChosenIsFree'
  <2>1. \A e \in Entries : Used(e)' <=> Used(e)
    BY <1>1, <1>2 DEF Used
  <2>2. Live' = Live
    BY <1>1 DEF Live
  <2> QED
    BY <1>1, <2>1, <2>2 DEF OwnEntries, ChosenIsFree
<1>7. RunningPending'
  BY <1>2, <1>3, <1>4 DEF RunningPending, InUse
<1>8. LaterUnset'
  <2>1. ASSUME Creating', NEW k \in i' .. workers' - 1
        PROVE  ids'[k] = Unset
    <3>1. k \in i .. workers - 1 /\ k # i /\ k \in 0 .. workers - 1
      <4>1. workers' = workers /\ i \in Nat /\ workers \in Nat
        BY <1>1 DEF ThreadTypeOK
      <4>2. k \in (i .. workers - 1) \ {i}
        BY <1>3, <2>1, <4>1
      <4> QED
        BY <4>1, <4>2
    <3> QED
      <4>1. LaterUnset /\ Creating
        BY <1>3
      <4>2. ids[k] = Unset
        BY <3>1, <4>1 DEF LaterUnset
      <4> QED
        BY <1>2, <3>1, <4>2
  <2> QED
    BY <2>1 DEF LaterUnset
<1>9. PendingRunning'
  <2>1. \A k \in Pending : ids[k] # Unset => ids[k] \in Entries /\ running[ids[k]] /\ ids[k] # entry
    BY <1>2, <1>3, <1>4 DEF PendingRunning, ThreadTypeOK
  <2>2. \A k \in Pending' : ids'[k] # Unset => running'[ids'[k]]
    BY <1>2, <1>3, <1>4, <2>1
  <2>3. \A k, l \in Pending' : ids'[k] # Unset /\ ids'[k] = ids'[l] => k = l
    BY <1>2, <1>3, <1>4, <2>1 DEF PendingRunning
  <2> QED
    BY <2>2, <2>3 DEF PendingRunning
<1>10. TooFewRunning'
  <2>1. CASE mainAt' = "create"
    BY <2>1 DEF TooFewRunning
  <2>2. CASE mainAt' = "join"
    <3>1. (ThreadTypeOK /\ RunningPending /\ mainAt = "join" /\ i = 0)'
      BY <1>3, <1>5, <1>7, <2>2
    <3>2. (ThreadTypeOK /\ RunningPending /\ mainAt = "join" /\ i = 0 => TooFewRunning)'
      BY TooFewAtReturn, PTL
    <3> QED
      BY <3>1, <3>2
  <2> QED
    BY <1>1, <2>1, <2>2
<1>11. JoinsAccount'
  BY <1>1 DEF JoinsAccount
<1> QED
  BY <1>5, <1>6, <1>7, <1>8, <1>9, <1>10, <1>11

(* A thread gets to run, fails or ends.                                    *)
LEMMA HardwareStep ==
  ASSUME ThreadInv, NEW h \in Hardware \ {0}, ThreadFunction(h) \/ GetTidFails(h) \/ ThreadEnds(h)
  PROVE  ThreadInv'
<1> USE ThreadAssumption DEF ThreadInv
<1>1. /\ hw[h] \in {"started", "running"}
      /\ \E s \in {"running", "ended", "wild", "trapped"} : hw' = [hw EXCEPT ![h] = s]
      /\ UNCHANGED <<workers, mainAt, i, entry, running, id, stack, ids>>
  BY DEF ThreadFunction, GetTidFails, ThreadEnds
<1>2. /\ hw'[h] \notin {"free", "started"} /\ \A g \in Hardware : g # h => hw'[g] = hw[g]
      /\ hw' \in [Hardware -> {"free", "started", "running", "ended", "wild", "trapped"}]
  BY <1>1 DEF ThreadTypeOK
<1>3. ThreadTypeOK' /\ hw'[0] = "running"
  BY <1>1, <1>2 DEF ThreadTypeOK
<1>4. Live' = Live
  BY <1>1, <1>2 DEF Live
<1>5. OwnEntries' /\ ChosenIsFree'
  BY <1>1, <1>4 DEF OwnEntries, ChosenIsFree, Used
<1>6. Pending' = Pending /\ Creating' = Creating /\ InUse' = InUse /\ NotCreated' = NotCreated
  BY <1>1 DEF Pending, Creating, InUse, NotCreated
<1>7. RunningPending' /\ LaterUnset' /\ PendingRunning' /\ TooFewRunning' /\ JoinsAccount'
  BY <1>1, <1>4, <1>6 DEF RunningPending, LaterUnset, PendingRunning, TooFewRunning, JoinsAccount
<1> QED
  BY <1>3, <1>5, <1>7

(* lf_thread_join frees the thread, its stack and its entry, or traps.     *)
LEMMA JoinStep ==
  ASSUME ThreadInv, Join
  PROVE  ThreadInv'
<1> USE ThreadAssumption DEF ThreadInv
<1>1. /\ mainAt = "join" /\ ~ Creating /\ i \in Nat /\ workers \in Nat /\ i < workers
      /\ Pending = i .. workers - 1 /\ DOMAIN ids = 0 .. workers - 1
      /\ UNCHANGED <<workers, entry, id, ids>>
  BY DEF Join, NextWorker, MainAt, Creating, Pending, ThreadTypeOK
<1>2. NotCreated' = NotCreated
  BY <1>1 DEF NotCreated
<1>3. PICK e \in Handles :
        IF e \in Entries /\ running[e]
        THEN /\ hw[id[e]] = "ended"
             /\ NextWorker("join", "join", "joined")
             /\ hw' = [hw EXCEPT ![id[e]] = "free"]
             /\ stack' = [stack EXCEPT ![e] = FALSE]
             /\ running' = [running EXCEPT ![e] = FALSE]
        ELSE MainAt("join", "badJoin") /\ UNCHANGED <<i, hw, stack, running>>
  BY DEF Join
<1>4. i \in NotCreated \/ e = ids[i]
  BY <1>1 DEF Handles, NotCreated
<1>5. NotCreated = {} => e \in InUse
  <2>1. ASSUME NotCreated = {}
        PROVE  ids[i] \in Entries /\ running[ids[i]]
    BY <1>1, <2>1 DEF PendingRunning, NotCreated, ThreadTypeOK
  <2> QED
    BY <1>4, <2>1 DEF InUse
<1>6. CASE ~ (e \in Entries /\ running[e])
  <2>1. mainAt' = "badJoin" /\ UNCHANGED <<i, hw, stack, running>>
    BY <1>3, <1>6 DEF MainAt
  <2>2. ThreadTypeOK' /\ hw'[0] = "running"
    BY <1>1, <2>1 DEF ThreadTypeOK
  <2>3. OwnEntries' /\ ChosenIsFree'
    BY <1>1, <2>1 DEF OwnEntries, ChosenIsFree, Used, Live
  <2>4. Pending' = Pending /\ ~ Creating' /\ InUse' = InUse
    BY <1>1, <2>1 DEF Pending, Creating, InUse
  <2>5. RunningPending' /\ LaterUnset' /\ PendingRunning' /\ TooFewRunning'
    BY <1>1, <1>2, <2>1, <2>4 DEF RunningPending, LaterUnset, PendingRunning, TooFewRunning
  <2>6. JoinsAccount'
    BY <1>2, <1>5, <1>6, <2>1 DEF JoinsAccount, InUse
  <2> QED
    BY <2>2, <2>3, <2>5, <2>6
<1>7. CASE e \in Entries /\ running[e]
  <2> DEFINE h == id[e]
  <2>1. /\ i' \in 0 .. workers - 1
        /\ \/ i + 1 \in 0 .. workers - 1 /\ i' = i + 1 /\ mainAt' = "join"
           \/ i + 1 = workers /\ i' = 0 /\ mainAt' = "joined"
        /\ hw[h] = "ended" /\ hw' = [hw EXCEPT ![h] = "free"]
        /\ stack' = [stack EXCEPT ![e] = FALSE] /\ running' = [running EXCEPT ![e] = FALSE]
    BY <1>3, <1>7, NextIndex
  <2>2. h \in Live /\ h \in Hardware /\ h # 0
    BY <1>7 DEF OwnEntries, Used, Live
  <2> HIDE DEF h
  <2>3. /\ hw'[h] = "free" /\ ~ running'[e]
        /\ \A g \in Hardware : g # h => hw'[g] = hw[g]
        /\ \A o \in Entries : o # e => running'[o] = running[o] /\ stack'[o] = stack[o]
    BY <1>7, <2>1, <2>2 DEF ThreadTypeOK
  <2>4. ThreadTypeOK' /\ hw'[0] = "running"
    <3>1. /\ hw' \in [Hardware -> {"free", "started", "running", "ended", "wild", "trapped"}]
          /\ stack' \in [Entries -> BOOLEAN] /\ running' \in [Entries -> BOOLEAN]
      BY <2>1 DEF ThreadTypeOK
    <3> QED
      BY <1>1, <2>1, <2>2, <2>3, <3>1 DEF ThreadTypeOK
  <2>5. Live' = Live \ {h}
    BY <2>3 DEF Live
  <2>6. OwnEntries'
    <3>1. \A o \in Entries : Used(o)' <=> Used(o) /\ o # e
      BY <1>1, <2>1, <2>3 DEF Used
    <3>2. \A o \in Entries : Used(o) /\ id[o] = h => o = e
      BY <1>7 DEF OwnEntries, Used, h
    <3>3. \A o \in Entries : Used(o)' => id'[o] \in Live' /\ stack'[o]
      BY <1>1, <2>3, <2>5, <3>1, <3>2 DEF OwnEntries
    <3>4. \A o, p \in Entries : Used(o)' /\ Used(p)' /\ id'[o] = id'[p] => o = p
      BY <1>1, <3>1 DEF OwnEntries
    <3>5. \A g \in Live' : \E o \in Entries : Used(o)' /\ id'[o] = g
      BY <1>1, <2>5, <3>1 DEF OwnEntries, h
    <3> QED
      BY <3>3, <3>4, <3>5 DEF OwnEntries
  <2>7. ChosenIsFree' /\ LaterUnset' /\ ~ Creating'
    BY <2>1 DEF ChosenIsFree, LaterUnset, Creating
  <2>8. Pending' = Pending \ {i}
    <3>1. CASE i + 1 \in 0 .. workers - 1 /\ i' = i + 1 /\ mainAt' = "join"
      <4>1. Pending' = i + 1 .. workers - 1
        BY <1>1, <3>1 DEF Pending, Creating
      <4> QED
        BY <1>1, <4>1
    <3>2. CASE i + 1 = workers /\ i' = 0 /\ mainAt' = "joined"
      <4>1. Pending' = {}
        BY <3>2 DEF Pending, Creating
      <4> QED
        BY <1>1, <3>2, <4>1
    <3> QED
      BY <2>1, <3>1, <3>2
  <2>9. InUse' = InUse \ {e} /\ e \in InUse
    BY <1>7, <2>3 DEF InUse
  <2>10. RunningPending'
    <3>1. ASSUME NEW o \in InUse \ {e}
          PROVE  \E k \in Pending \ {i} : ids[k] = o
      <4>1. PICK k \in Pending : ids[k] = o
        BY DEF RunningPending
      <4>2. o # Unset
        BY ThreadAssumption DEF InUse, Entries, Unset
      <4>3. k # i
        BY <1>4, <4>1, <4>2 DEF NotCreated
      <4> QED
        BY <4>1, <4>3
    <3> QED
      BY <1>1, <2>8, <2>9, <3>1 DEF RunningPending
  <2>11. PendingRunning'
    <3>1. SUFFICES ASSUME NotCreated = {}
                   PROVE  /\ \A k \in Pending \ {i} : ids[k] # Unset => running'[ids[k]]
                          /\ \A k, l \in Pending \ {i} :
                               ids[k] # Unset /\ ids[k] = ids[l] => k = l
      BY <1>1, <1>2, <2>7, <2>8 DEF PendingRunning
    <3>2. /\ \A k \in Pending : ids[k] # Unset => running[ids[k]]
          /\ \A k, l \in Pending : ids[k] # Unset /\ ids[k] = ids[l] => k = l
      BY <3>1 DEF PendingRunning
    <3>3. e = ids[i] /\ i \in Pending /\ \A k \in Pending : ids[k] # Unset /\ ids[k] \in Entries
      BY <1>1, <1>4, <3>1 DEF NotCreated, ThreadTypeOK
    <3> QED
      BY <2>3, <3>2, <3>3
  <2>12. Cardinality(InUse') = Cardinality(InUse) - 1 /\ Cardinality(InUse) \in Nat
    BY <2>9, InUseFinite, FS_RemoveElement
  <2>13. NotCreated # {} => mainAt' = "join" /\ Cardinality(InUse') < workers - (i + 1)
    <3>1. ASSUME NotCreated # {}
          PROVE  Cardinality(InUse) < workers - i
      BY <1>1, <3>1 DEF TooFewRunning
    <3>2. Cardinality(InUse) # 0
      BY <2>9, InUseFinite, FS_EmptySet
    <3> QED
      BY <1>1, <2>1, <2>12, <3>1, <3>2
  <2>14. TooFewRunning'
    BY <1>1, <1>2, <2>1, <2>13 DEF TooFewRunning
  <2>15. JoinsAccount'
    <3>1. ASSUME mainAt' = "joined"
          PROVE  Live' = {}
      <4>1. \A o \in Entries : ~ Used(o)'
        BY <2>10, <3>1 DEF RunningPending, Pending, Creating, InUse, Used
      <4> QED
        BY <2>6, <4>1 DEF OwnEntries
    <3>2. NotCreated # {} => mainAt' = "join"
      BY <2>13
    <3> QED
      BY <1>2, <2>1, <3>1, <3>2 DEF JoinsAccount
  <2> QED
    BY <2>4, <2>6, <2>7, <2>10, <2>11, <2>14, <2>15
<1> QED
  BY <1>6, <1>7

(* Every step of the threads keeps the invariant.                          *)
LEMMA ThreadNextInv ==
  ASSUME ThreadInv, [ThreadStep]_threadVars
  PROVE  ThreadInv'
<1>1. CASE UNCHANGED threadVars
  BY <1>1 DEF threadVars, ThreadInv, ThreadTypeOK, OwnEntries, ChosenIsFree, RunningPending,
              LaterUnset, PendingRunning, TooFewRunning, JoinsAccount, Used, Live, Pending,
              Creating, InUse, NotCreated
<1> QED
  BY <1>1, ChooseEntryStep, StartThreadStep, RecordThreadStep, JoinStep, HardwareStep
     DEF ThreadStep

(* The invariant gives the property.                                       *)
LEMMA ThreadInvImplies ==
  ASSUME ThreadInv
  PROVE  ThreadsAccounted
<1>1. ThreadTypeOK /\ JoinsAccount
  BY DEF ThreadInv
<1>2. LiveThreadsRecorded
  <2>1. ASSUME NEW h \in Live
        PROVE  \E e \in Entries :
                 /\ id[e] = h /\ stack[e]
                 /\ running[e] \/ (mainAt = "record" /\ entry = e)
                 /\ \A o \in Entries \ {e} : running[o] => id[o] # h
    BY DEF ThreadInv, OwnEntries, Used
  <2> QED
    BY <2>1 DEF LiveThreadsRecorded
<1> QED
  BY <1>1, <1>2 DEF ThreadsAccounted

-----------------------------------------------------------------------------
(* The composition *)

(* Every step of the platform is a step of the mutex, of the clock and of    *)
(* the threads, or leaves them alone.                                        *)
LEMMA PlatformParts ==
  ASSUME [PlatformNext]_allVars
  PROVE  [Next]_vars /\ [ClockNext]_clockVars /\ [ThreadStep]_threadVars
<1>1. 0 \in Threads /\ 0 \in Callers /\ Callers = Hardware /\ Threads \subseteq Hardware
  BY PlatformAssumption, ThreadAssumption
<1>2. CASE UNCHANGED allVars
  <2>1. UNCHANGED <<threadVars, mutexVars, clockVars>>
    BY <1>2 DEF allVars
  <2> QED
    BY <2>1 DEF mutexVars, vars
<1>3. CASE Create \/ JoinWorker
  BY <1>3 DEF Create, JoinWorker, mutexVars, vars, ThreadStep
<1>4. CASE MainReadsClock
  BY <1>1, <1>4 DEF MainReadsClock, mutexVars, vars, ClockNext
<1>5. CASE MainUsesMutex
  BY <1>1, <1>5 DEF MainUsesMutex, Next
<1>6. ASSUME NEW h \in Hardware \ {0}, Worker(h)
      PROVE  [Next]_vars /\ [ClockNext]_clockVars /\ [ThreadStep]_threadVars
  <2>1. CASE Begins(h) \/ WorkerEnds(h) \/ WorkerTraps(h)
    BY <2>1 DEF Begins, WorkerEnds, WorkerTraps, mutexVars, vars, ThreadStep
  <2>2. CASE WorkerReadsClock(h)
    BY <1>1, <2>2 DEF WorkerReadsClock, mutexVars, vars, ClockNext
  <2>3. CASE h \in Threads /\ WorkerUsesMutex(h)
    BY <2>3 DEF WorkerUsesMutex, Next
  <2> QED
    BY <1>6, <2>1, <2>2, <2>3 DEF Worker
<1>7. CASE Tick /\ UNCHANGED <<threadVars, mutexVars, entered>>
  BY <1>7 DEF mutexVars, vars, ClockNext
<1> QED
  BY <1>2, <1>3, <1>4, <1>5, <1>6, <1>7 DEF PlatformNext

(* The platform runs the mutex of XmosMutex.                                 *)
LEMMA PlatformRunsMutex == PlatformSpec => Spec
<1>1. PlatformInit => Init
  BY DEF PlatformInit
<1> QED
  BY <1>1, PlatformParts, PTL DEF PlatformSpec, Spec

(* The platform runs the clock of XmosClock.                                 *)
LEMMA PlatformRunsClock == PlatformSpec => ClockSpec
<1>1. PlatformInit => ClockInit
  BY DEF PlatformInit
<1> QED
  BY <1>1, PlatformParts, PTL DEF PlatformSpec, ClockSpec

(* The mutex excludes among the threads that main creates, while they are    *)
(* created, end and are joined: what holds of the mutex alone holds here.    *)
THEOREM PlatformExcludes ==
  PlatformSpec => [](MutualExclusion /\ OwnerReadIsSafe /\ OutermostUnlockReleases)
BY PlatformRunsMutex, Exclusion, OwnerReadSafe, OutermostReleases, PTL

(* The platform's lf_mutex_lock and lf_mutex_unlock are the recursive lock   *)
(* that lf_platform.h promises.                                              *)
THEOREM PlatformImplementsLock == PlatformSpec => ImplementsRecursiveLock
BY PlatformRunsMutex, Refinement, PTL

(* What lf_clock_gettime returns, with the workers calling it as they do.    *)
THEOREM PlatformKeepsTime == PlatformSpec => []TimeKept
BY PlatformRunsClock, TimeIsKept, PTL

(* The invariant of the threads holds in every behaviour of the platform.    *)
LEMMA ThreadInvHolds == PlatformSpec => []ThreadInv
<1>1. PlatformInit => ThreadInv
  BY ThreadInitInv DEF PlatformInit
<1> QED
  BY <1>1, PlatformParts, ThreadNextInv, PTL DEF PlatformSpec

(* A thread that lives has a stack and one entry of thread_info, from which  *)
(* it is joined; main gets past the joins only if no creation has failed and *)
(* every worker has ended, and traps otherwise.                              *)
THEOREM ThreadsAreAccounted == PlatformSpec => []ThreadsAccounted
BY ThreadInvHolds, ThreadInvImplies, PTL
=============================================================================
