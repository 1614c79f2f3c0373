--------------------------- MODULE XmosCondProofs ---------------------------
(***************************************************************************)
(* For every set of threads and every number of slots, timers and tokens:  *)
(* two waits never share a slot, a signal that was raised for a blocked    *)
(* thread is not lost, and a signal or broadcast that returns has reached  *)
(* whom it is for.                                                         *)
(***************************************************************************)
EXTENDS XmosCond, TLAPS, WellFoundedInduction

-----------------------------------------------------------------------------
(* The inductive invariant *)

(* The places of a call that has a slot or a loop index.                     *)
InWait == {"drain", "mark", "unlock", "timer", "noTimer", "blocked", "relock", "finish", "fault"}
InSignal == {"scan", "out"}

CallInv ==
  \A t \in Threads :
    /\ pc[t] \in InWait => slot[t] \in Slots /\ op[t] = kind
    /\ pc[t] \in InSignal => slot[t] \in Slots /\ op[t] \in {"signal", "broadcast"}
    /\ pc[t] \in {"timer", "noTimer"} => op[t] = "timedwait"

(* From the choice of a slot to raising its flag the caller has the mutex,   *)
(* and nobody else takes the slot.                                           *)
ChosenInv ==
  \A t \in Threads : pc[t] \in {"drain", "mark"} => ~ waiting[slot[t]]

(* A wait begins with `signal' down: lf_cond_wait lowers it when it returns, *)
(* lf_cond_timedwait before it starts to wait.                               *)
SignalInv ==
  /\ \A t \in Threads : pc[t] = "mark" => ~ signal[slot[t]]
  /\ kind = "wait" => \A i \in Slots : signal[i] => waiting[i]

(* What a signalling call has found and sent so far: no waiter in the slots  *)
(* that lf_cond_signal has passed, and a token for every waiter in those     *)
(* that lf_cond_broadcast has passed.                                        *)
ScanInv ==
  \A t \in Threads :
    /\ pc[t] = "out" => waiting[slot[t]]
    /\ pc[t] \in InSignal /\ op[t] = "signal" => \A i \in Slots : i < slot[t] => ~ waiting[i]
    /\ pc[t] \in InSignal /\ op[t] = "broadcast" =>
         \A u \in Threads : Blocked(u) /\ slot[u] < slot[t] => tokens[slot[u]] > 0

(* The bound on the tokens: a call that begins leaves room for all slots.    *)
RoomInv ==
  \A t \in Threads : pc[t] \in InSignal => sent + NumSlots <= MaxSends + slot[t]

CInv ==
  /\ TypeOK /\ SlotsExclusive /\ MutexHeldOutsideWait /\ NoLostWakeup
  /\ CallInv /\ ChosenInv /\ SignalInv /\ ScanInv /\ RoomInv
-----------------------------------------------------------------------------
(* The steps *)

(* get_available_cond finds a slot whose flag is down, if there is one.      *)
LEMMA FirstFreeSlot ==
  ASSUME FreeSlots # {}
  PROVE  Min(FreeSlots) \in Slots /\ ~ waiting[Min(FreeSlots)]
<1>1. FreeSlots \in SUBSET Nat
  BY DEF FreeSlots, Slots
<1>2. PICK i \in FreeSlots : \A j \in FreeSlots : ~ (<<j, i>> \in OpToRel(<, Nat))
  BY <1>1, NatLessThanWellFounded, WFMin
<1>3. ASSUME NEW j \in FreeSlots
      PROVE  i <= j
  <2>1. i \in Nat /\ j \in Nat
    BY <1>1
  <2>2. ~ (j < i)
    BY <1>2, <2>1 DEF OpToRel
  <2> QED
    BY <2>1, <2>2
<1>4. Min(FreeSlots) \in FreeSlots
  BY <1>3 DEF Min
<1> QED
  BY <1>4 DEF FreeSlots

(* The mutex is taken and given up, by the callers and inside a wait.        *)
LEMMA MutexSteps ==
  ASSUME CInv, NEW t \in Threads, UNCHANGED kind,
         CallerLocks(t) \/ CallerUnlocks(t) \/ Unlock(t) \/ Relock(t)
  PROVE  CInv'
<1> USE CondAssumption DEF CInv, Goto, None
<1>1. TypeOK'
  <2>1. depth' \in [Threads -> Nat]
    BY DEF CallerLocks, CallerUnlocks, Unlock, Relock, Mutex!Lock, Mutex!Unlock, TypeOK
  <2>2. pc' \in [Threads -> Locations]
    BY DEF CallerLocks, CallerUnlocks, Unlock, Relock, TypeOK, Locations
  <2> QED
    BY <2>1, <2>2 DEF CallerLocks, CallerUnlocks, Unlock, Relock, TypeOK
<1>2. SlotsExclusive'
  BY DEF CallerLocks, CallerUnlocks, Unlock, Relock, Mutex!Lock, Mutex!Unlock, TypeOK,
         SlotsExclusive, WaitersIn, CallInv, InWait, InSignal, ChosenInv, MutexHeldOutsideWait
<1>3. MutexHeldOutsideWait'
  BY DEF CallerLocks, CallerUnlocks, Unlock, Relock, Mutex!Lock, Mutex!Unlock, TypeOK,
         MutexHeldOutsideWait
<1>4. CallInv'
  BY DEF CallerLocks, CallerUnlocks, Unlock, Relock, Mutex!Lock, Mutex!Unlock, TypeOK, CallInv,
         InWait, InSignal, Slots
<1>5. ChosenInv'
  BY DEF CallerLocks, CallerUnlocks, Unlock, Relock, Mutex!Lock, Mutex!Unlock, TypeOK, ChosenInv,
         MutexHeldOutsideWait, CallInv, InWait, InSignal
<1>6. NoLostWakeup'
  BY DEF CallerLocks, CallerUnlocks, Unlock, Relock, Mutex!Lock, Mutex!Unlock, TypeOK,
         NoLostWakeup, Blocked, SignalInv, CallInv, InWait, InSignal, SlotsExclusive, WaitersIn,
         ChosenInv
<1>7. SignalInv'
  BY DEF CallerLocks, CallerUnlocks, Unlock, Relock, Mutex!Lock, Mutex!Unlock, TypeOK, SignalInv,
         MutexHeldOutsideWait, CallInv, InWait, InSignal, ChosenInv, SlotsExclusive, WaitersIn
<1>8. ScanInv'
  BY DEF CallerLocks, CallerUnlocks, Unlock, Relock, Mutex!Lock, Mutex!Unlock, TypeOK, ScanInv,
         Blocked, MutexHeldOutsideWait, CallInv, InWait, InSignal, ChosenInv, SlotsExclusive,
         WaitersIn
<1>9. RoomInv'
  BY DEF CallerLocks, CallerUnlocks, Unlock, Relock, Mutex!Lock, Mutex!Unlock, TypeOK, RoomInv,
         MutexHeldOutsideWait, CallInv, InSignal, Slots
<1> QED
  BY <1>1, <1>2, <1>3, <1>4, <1>5, <1>6, <1>7, <1>8, <1>9

(* A timer is allocated, or fires.                                           *)
LEMMA TimerSteps ==
  ASSUME CInv, NEW t \in Threads, AllocateTimer(t) \/ TimerFires(t), UNCHANGED kind
  PROVE  CInv'
<1> USE CondAssumption DEF CInv, Goto, None
<1>1. TypeOK'
  <2>1. timers' \in 0..NumTimers
    BY DEF AllocateTimer, TimerFires, TypeOK
  <2>2. pc' \in [Threads -> Locations]
    BY DEF AllocateTimer, TimerFires, TypeOK, Locations, Traps
  <2>3. timedOut' \in [Threads -> BOOLEAN]
    BY DEF AllocateTimer, TimerFires, TypeOK
  <2> QED
    BY <2>1, <2>2, <2>3 DEF AllocateTimer, TimerFires, TypeOK
<1>2. SlotsExclusive'
  BY DEF AllocateTimer, TimerFires, TypeOK, SlotsExclusive, WaitersIn, CallInv, InWait, InSignal,
         ChosenInv, MutexHeldOutsideWait
<1>3. MutexHeldOutsideWait'
  BY DEF AllocateTimer, TimerFires, TypeOK, MutexHeldOutsideWait
<1>4. CallInv'
  BY DEF AllocateTimer, TimerFires, TypeOK, CallInv, InWait, InSignal, Slots
<1>5. ChosenInv'
  BY DEF AllocateTimer, TimerFires, TypeOK, ChosenInv, MutexHeldOutsideWait, CallInv, InWait,
         InSignal
<1>6. NoLostWakeup'
  BY DEF AllocateTimer, TimerFires, TypeOK, NoLostWakeup, Blocked, SignalInv, CallInv, InWait,
         InSignal, SlotsExclusive, WaitersIn, ChosenInv
<1>7. SignalInv'
  BY DEF AllocateTimer, TimerFires, TypeOK, SignalInv, MutexHeldOutsideWait, CallInv, InWait,
         InSignal, ChosenInv, SlotsExclusive, WaitersIn
<1>8. ScanInv'
  BY DEF AllocateTimer, TimerFires, TypeOK, ScanInv, Blocked, MutexHeldOutsideWait, CallInv,
         InWait, InSignal, ChosenInv, SlotsExclusive, WaitersIn
<1>9. RoomInv'
  BY DEF AllocateTimer, TimerFires, TypeOK, RoomInv, MutexHeldOutsideWait, CallInv, InSignal,
         Slots
<1> QED
  BY <1>1, <1>2, <1>3, <1>4, <1>5, <1>6, <1>7, <1>8, <1>9

(* get_available_cond: the slot is nobody else's.                            *)
LEMMA BeginWaitStep ==
  ASSUME CInv, NEW t \in Threads, BeginWait(t, kind), UNCHANGED kind
  PROVE  CInv'
<1> USE CondAssumption DEF CInv, Goto, None
<1>1. TypeOK'
  <2>1. CASE FreeSlots = {}
    BY <2>1 DEF BeginWait, TypeOK, Locations, Traps, Ops
  <2>2. CASE FreeSlots # {}
    <3>1. slot' \in [Threads -> Slots \cup {None}]
      BY <2>2, FirstFreeSlot DEF BeginWait, TypeOK
    <3>2. pc' \in [Threads -> Locations]
      BY <2>2 DEF BeginWait, TypeOK, Locations
    <3> QED
      BY <3>1, <3>2 DEF BeginWait, TypeOK, Ops
  <2> QED
    BY <2>1, <2>2
<1>2. SlotsExclusive'
  BY FirstFreeSlot DEF BeginWait, TypeOK, SlotsExclusive, WaitersIn, CallInv, InWait, InSignal,
                       ChosenInv, MutexHeldOutsideWait
<1>3. MutexHeldOutsideWait'
  BY FirstFreeSlot DEF BeginWait, TypeOK, MutexHeldOutsideWait
<1>4. CallInv'
  BY FirstFreeSlot DEF BeginWait, TypeOK, CallInv, InWait, InSignal, Slots
<1>5. ChosenInv'
  BY FirstFreeSlot DEF BeginWait, TypeOK, ChosenInv, MutexHeldOutsideWait, CallInv, InWait,
                       InSignal
<1>6. NoLostWakeup'
  BY FirstFreeSlot DEF BeginWait, TypeOK, NoLostWakeup, Blocked, SignalInv, CallInv, InWait,
                       InSignal, SlotsExclusive, WaitersIn, ChosenInv
<1>7. SignalInv'
  BY FirstFreeSlot DEF BeginWait, TypeOK, SignalInv, MutexHeldOutsideWait, CallInv, InWait,
                       InSignal, ChosenInv, SlotsExclusive, WaitersIn
<1>8. ScanInv'
  BY FirstFreeSlot DEF BeginWait, TypeOK, ScanInv, Blocked, MutexHeldOutsideWait, CallInv, InWait,
                       InSignal, ChosenInv, SlotsExclusive, WaitersIn
<1>9. RoomInv'
  BY FirstFreeSlot DEF BeginWait, TypeOK, RoomInv, MutexHeldOutsideWait, CallInv, InSignal, Slots
<1> QED
  BY <1>1, <1>2, <1>3, <1>4, <1>5, <1>6, <1>7, <1>8, <1>9

(* The old token goes and the flag comes down.                               *)
LEMMA DrainStep ==
  ASSUME CInv, NEW t \in Threads, Drain(t), UNCHANGED kind
  PROVE  CInv'
<1> USE CondAssumption DEF CInv, Goto, None
<1>1. TypeOK'
  <2>1. slot[t] \in Slots /\ pc' \in [Threads -> Locations]
    BY DEF Drain, TypeOK, CallInv, InWait, Locations, Traps
  <2>2. tokens' \in [Slots -> 0..ChanCapacity] /\ signal' \in [Slots -> BOOLEAN]
    <3>1. \/ UNCHANGED <<tokens, signal>>
          \/ /\ tokens[slot[t]] > 0 /\ tokens' = [tokens EXCEPT ![slot[t]] = @ - 1]
             /\ signal' = [signal EXCEPT ![slot[t]] = FALSE]
      BY DEF Drain
    <3>2. tokens \in [Slots -> 0..ChanCapacity] /\ signal \in [Slots -> BOOLEAN]
      BY DEF TypeOK
    <3>3. tokens[slot[t]] > 0 => tokens[slot[t]] - 1 \in 0..ChanCapacity
      BY <2>1, <3>2
    <3> QED
      BY <3>1, <3>2, <3>3
  <2>3. UNCHANGED <<depth, waiting, timers, op, slot, timedOut, notified, sent>>
    BY DEF Drain
  <2> QED
    BY <2>1, <2>2, <2>3 DEF TypeOK
<1>2. SlotsExclusive'
  BY DEF Drain, TypeOK, SlotsExclusive, WaitersIn, CallInv, InWait, InSignal, ChosenInv,
         MutexHeldOutsideWait
<1>3. MutexHeldOutsideWait'
  BY DEF Drain, TypeOK, MutexHeldOutsideWait
<1>4. CallInv'
  BY DEF Drain, TypeOK, CallInv, InWait, InSignal, Slots
<1>5. ChosenInv'
  BY DEF Drain, TypeOK, ChosenInv, MutexHeldOutsideWait, CallInv, InWait, InSignal
<1>6. NoLostWakeup'
  BY DEF Drain, TypeOK, NoLostWakeup, Blocked, SignalInv, CallInv, InWait, InSignal,
         SlotsExclusive, WaitersIn, ChosenInv
<1>7. SignalInv'
  BY DEF Drain, TypeOK, SignalInv, MutexHeldOutsideWait, CallInv, InWait, InSignal, ChosenInv,
         SlotsExclusive, WaitersIn
<1>8. ScanInv'
  BY DEF Drain, TypeOK, ScanInv, Blocked, MutexHeldOutsideWait, CallInv, InWait, InSignal,
         ChosenInv, SlotsExclusive, WaitersIn
<1>9. RoomInv'
  BY DEF Drain, TypeOK, RoomInv, MutexHeldOutsideWait, CallInv, InSignal, Slots
<1> QED
  BY <1>1, <1>2, <1>3, <1>4, <1>5, <1>6, <1>7, <1>8, <1>9

(* The slot is marked as taken.                                              *)
LEMMA MarkStep ==
  ASSUME CInv, NEW t \in Threads, Mark(t), UNCHANGED kind
  PROVE  CInv'
<1> USE CondAssumption DEF CInv, Goto, None
<1>1. TypeOK'
  BY DEF Mark, TypeOK, Slots, Locations, Ops, Traps
<1>2. SlotsExclusive'
  BY DEF Mark, TypeOK, SlotsExclusive, WaitersIn, CallInv, InWait, InSignal, ChosenInv,
         MutexHeldOutsideWait
<1>3. MutexHeldOutsideWait'
  BY DEF Mark, TypeOK, MutexHeldOutsideWait
<1>4. CallInv'
  BY DEF Mark, TypeOK, CallInv, InWait, InSignal, Slots
<1>5. ChosenInv'
  BY DEF Mark, TypeOK, ChosenInv, MutexHeldOutsideWait, CallInv, InWait, InSignal
<1>6. NoLostWakeup'
  BY DEF Mark, TypeOK, NoLostWakeup, Blocked, SignalInv, CallInv, InWait, InSignal,
         SlotsExclusive, WaitersIn, ChosenInv
<1>7. SignalInv'
  BY DEF Mark, TypeOK, SignalInv, MutexHeldOutsideWait, CallInv, InWait, InSignal, ChosenInv,
         SlotsExclusive, WaitersIn
<1>8. ScanInv'
  BY DEF Mark, TypeOK, ScanInv, Blocked, MutexHeldOutsideWait, CallInv, InWait, InSignal,
         ChosenInv, SlotsExclusive, WaitersIn
<1>9. RoomInv'
  BY DEF Mark, TypeOK, RoomInv, MutexHeldOutsideWait, CallInv, InSignal, Slots
<1> QED
  BY <1>1, <1>2, <1>3, <1>4, <1>5, <1>6, <1>7, <1>8, <1>9

(* A waiter takes a token of its own slot.                                   *)
LEMMA TakeTokenStep ==
  ASSUME CInv, NEW t \in Threads, TakeToken(t), UNCHANGED kind
  PROVE  CInv'
<1> USE CondAssumption DEF CInv, Goto, None
<1>1. TypeOK'
  <2>1. slot[t] \in Slots /\ tokens' \in [Slots -> 0..ChanCapacity]
    BY DEF TakeToken, TypeOK, CallInv, InWait
  <2>2. pc' \in [Threads -> Locations] /\ timedOut' \in [Threads -> BOOLEAN]
    BY DEF TakeToken, TypeOK, Locations
  <2> QED
    BY <2>1, <2>2 DEF TakeToken, TypeOK
<1>2. SlotsExclusive'
  BY DEF TakeToken, TypeOK, SlotsExclusive, WaitersIn, CallInv, InWait, InSignal, ChosenInv,
         MutexHeldOutsideWait
<1>3. MutexHeldOutsideWait'
  BY DEF TakeToken, TypeOK, MutexHeldOutsideWait
<1>4. CallInv'
  BY DEF TakeToken, TypeOK, CallInv, InWait, InSignal, Slots
<1>5. ChosenInv'
  BY DEF TakeToken, TypeOK, ChosenInv, MutexHeldOutsideWait, CallInv, InWait, InSignal
<1>6. NoLostWakeup'
  BY DEF TakeToken, TypeOK, NoLostWakeup, Blocked, SignalInv, CallInv, InWait, InSignal,
         SlotsExclusive, WaitersIn, ChosenInv
<1>7. SignalInv'
  BY DEF TakeToken, TypeOK, SignalInv, MutexHeldOutsideWait, CallInv, InWait, InSignal, ChosenInv,
         SlotsExclusive, WaitersIn
<1>8. ScanInv'
  BY DEF TakeToken, TypeOK, ScanInv, Blocked, MutexHeldOutsideWait, CallInv, InWait, InSignal,
         ChosenInv, SlotsExclusive, WaitersIn
<1>9. RoomInv'
  BY DEF TakeToken, TypeOK, RoomInv, MutexHeldOutsideWait, CallInv, InSignal, Slots
<1> QED
  BY <1>1, <1>2, <1>3, <1>4, <1>5, <1>6, <1>7, <1>8, <1>9

(* The wait returns and gives up its slot.                                   *)
LEMMA FinishStep ==
  ASSUME CInv, NEW t \in Threads, Finish(t), UNCHANGED kind
  PROVE  CInv'
<1> USE CondAssumption DEF CInv, Goto, None
<1>1. TypeOK'
  BY DEF Finish, Return, TypeOK, Slots, Locations, Ops, Traps
<1>2. SlotsExclusive'
  BY DEF Finish, Return, TypeOK, SlotsExclusive, WaitersIn, CallInv, InWait, InSignal, ChosenInv,
         MutexHeldOutsideWait
<1>3. MutexHeldOutsideWait'
  BY DEF Finish, Return, TypeOK, MutexHeldOutsideWait
<1>4. CallInv'
  BY DEF Finish, Return, TypeOK, CallInv, InWait, InSignal, Slots
<1>5. ChosenInv'
  BY DEF Finish, Return, TypeOK, ChosenInv, MutexHeldOutsideWait, CallInv, InWait, InSignal
<1>6. NoLostWakeup'
  BY DEF Finish, Return, TypeOK, NoLostWakeup, Blocked, SignalInv, CallInv, InWait, InSignal,
         SlotsExclusive, WaitersIn, ChosenInv
<1>7. SignalInv'
  <2>1. /\ op[t] = kind /\ slot[t] \in Slots
        /\ signal' = [signal EXCEPT ![slot[t]] = @ /\ op[t] = "timedwait"]
        /\ waiting' = [waiting EXCEPT ![slot[t]] = FALSE]
    BY DEF Finish, Return, CallInv, InWait
  <2>2. ASSUME NEW i \in Slots
        PROVE  /\ signal'[i] = IF i = slot[t] THEN signal[i] /\ op[t] = "timedwait" ELSE signal[i]
               /\ waiting'[i] = IF i = slot[t] THEN FALSE ELSE waiting[i]
    BY <2>1 DEF TypeOK
  <2>3. ASSUME NEW u \in Threads, pc'[u] = "mark"
        PROVE  pc[u] = "mark" /\ slot'[u] = slot[u] /\ slot[u] \in Slots
    BY <2>3 DEF Finish, Return, TypeOK, CallInv, InWait
  <2>4. \A u \in Threads : pc'[u] = "mark" => ~ signal'[slot'[u]]
    BY <2>2, <2>3 DEF SignalInv
  <2>5. kind = "wait" => \A i \in Slots : signal'[i] => waiting'[i]
    BY <2>1, <2>2 DEF SignalInv
  <2> QED
    BY <2>4, <2>5 DEF SignalInv
<1>8. ScanInv'
  BY DEF Finish, Return, TypeOK, ScanInv, Blocked, MutexHeldOutsideWait, CallInv, InWait,
         InSignal, ChosenInv, SlotsExclusive, WaitersIn
<1>9. RoomInv'
  BY DEF Finish, Return, TypeOK, RoomInv, MutexHeldOutsideWait, CallInv, InSignal, Slots
<1> QED
  BY <1>1, <1>2, <1>3, <1>4, <1>5, <1>6, <1>7, <1>8, <1>9

(* A signalling call begins with the first slot.                             *)
LEMMA BeginSignalStep ==
  ASSUME CInv, NEW t \in Threads, NEW o \in {"signal", "broadcast"},
         BeginSignal(t, o), UNCHANGED kind
  PROVE  CInv'
<1> USE CondAssumption DEF CInv, Goto, None
<1>1. TypeOK'
  BY DEF BeginSignal, TypeOK, Slots, Locations, Ops, Traps
<1>2. SlotsExclusive'
  BY DEF BeginSignal, TypeOK, SlotsExclusive, WaitersIn, CallInv, InWait, InSignal, ChosenInv,
         MutexHeldOutsideWait
<1>3. MutexHeldOutsideWait'
  BY DEF BeginSignal, TypeOK, MutexHeldOutsideWait
<1>4. CallInv'
  BY DEF BeginSignal, TypeOK, CallInv, InWait, InSignal, Slots
<1>5. ChosenInv'
  BY DEF BeginSignal, TypeOK, ChosenInv, MutexHeldOutsideWait, CallInv, InWait, InSignal
<1>6. NoLostWakeup'
  BY DEF BeginSignal, TypeOK, NoLostWakeup, Blocked, SignalInv, CallInv, InWait, InSignal,
         SlotsExclusive, WaitersIn, ChosenInv
<1>7. SignalInv'
  BY DEF BeginSignal, TypeOK, SignalInv, MutexHeldOutsideWait, CallInv, InWait, InSignal,
         ChosenInv, SlotsExclusive, WaitersIn
<1>8. ScanInv'
  <2>1. slot'[t] = 0 /\ pc'[t] = "scan"
    BY DEF BeginSignal, TypeOK
  <2>2. \A i \in Slots : ~ (i < 0)
    BY DEF Slots
  <2>3. \A u \in Threads : Blocked(u)' => slot'[u] \in Slots
    BY DEF BeginSignal, TypeOK, CallInv, InWait, Blocked
  <2>4. ASSUME NEW v \in Threads \ {t}
        PROVE pc'[v] \notin InSignal
    BY DEF BeginSignal, TypeOK, InSignal, MutexHeldOutsideWait
  <2> QED
    BY <2>1, <2>2, <2>3, <2>4 DEF ScanInv, InSignal
<1>9. RoomInv'
  BY DEF BeginSignal, TypeOK, RoomInv, MutexHeldOutsideWait, CallInv, InSignal, Slots
<1> QED
  BY <1>1, <1>2, <1>3, <1>4, <1>5, <1>6, <1>7, <1>8, <1>9

(* It looks at a slot.                                                       *)
LEMMA ScanStep ==
  ASSUME CInv, NEW t \in Threads, Scan(t), UNCHANGED kind
  PROVE  CInv'
<1> USE CondAssumption DEF CInv, Goto, None
<1>1. TypeOK'
  <2>1. slot[t] \in Slots /\ signal' \in [Slots -> BOOLEAN]
    <3>1. signal' \in {signal, [signal EXCEPT ![slot[t]] = TRUE]} /\ pc[t] = "scan"
      BY DEF Scan
    <3> QED
      BY <3>1 DEF CallInv, InSignal, TypeOK
  <2>2. /\ pc' \in [Threads -> Locations] /\ op' \in [Threads -> Ops]
        /\ slot' \in [Threads -> Slots \cup {None}]
    BY <2>1 DEF Scan, NextSlot, Return, TypeOK, Locations, Ops
  <2> QED
    BY <2>1, <2>2 DEF Scan, TypeOK
<1>2. SlotsExclusive'
  BY DEF Scan, NextSlot, Return, TypeOK, SlotsExclusive, WaitersIn, CallInv, InWait, InSignal,
         ChosenInv, MutexHeldOutsideWait
<1>3. MutexHeldOutsideWait'
  BY DEF Scan, NextSlot, Return, TypeOK, MutexHeldOutsideWait
<1>4. CallInv'
  BY DEF Scan, NextSlot, Return, TypeOK, CallInv, InWait, InSignal, Slots
<1>5. ChosenInv'
  BY DEF Scan, NextSlot, Return, TypeOK, ChosenInv, MutexHeldOutsideWait, CallInv, InWait,
         InSignal
<1>6. NoLostWakeup'
  BY DEF Scan, NextSlot, Return, TypeOK, NoLostWakeup, Blocked, SignalInv, CallInv, InWait,
         InSignal, SlotsExclusive, WaitersIn, ChosenInv
<1>7. SignalInv'
  BY DEF Scan, NextSlot, Return, TypeOK, SignalInv, MutexHeldOutsideWait, CallInv, InWait,
         InSignal, ChosenInv, SlotsExclusive, WaitersIn
<1>8. ScanInv'
  <2>0. pc[t] = "scan" /\ waiting[slot[t]] \in BOOLEAN
    BY DEF Scan, TypeOK, CallInv, InSignal
  <2>1. ASSUME NEW v \in Threads \ {t}
        PROVE pc'[v] \notin InSignal
    BY DEF Scan, NextSlot, Return, TypeOK, InSignal, MutexHeldOutsideWait
  <2>2. /\ slot[t] \in Slots /\ slot[t] \in Int /\ op[t] \in {"signal", "broadcast"}
        /\ Slots \subseteq Int
    BY DEF CallInv, InSignal, Scan, Slots
  <2>3. CASE waiting[slot[t]]
    <3>1. pc'[t] = "out" /\ UNCHANGED <<op, slot, tokens, waiting>>
      BY <2>3 DEF Scan, NextSlot, Return, TypeOK
    <3>2. \A u \in Threads : Blocked(u)' => Blocked(u)
      BY <2>3 DEF Scan, TypeOK, Blocked
    <3> QED
      BY <2>1, <2>3, <3>1, <3>2 DEF ScanInv, InSignal, Scan
  <2>4. CASE ~ waiting[slot[t]] /\ slot[t] + 1 \in Slots
    <3>1. /\ pc[t] = "scan" /\ pc'[t] = "scan" /\ slot'[t] = slot[t] + 1
          /\ UNCHANGED <<op, tokens, waiting>>
      BY <2>4 DEF Scan, NextSlot, Return, TypeOK
    <3>2. \A u \in Threads : Blocked(u)' =>
            /\ Blocked(u) /\ slot'[u] = slot[u]
            /\ slot[u] \in Slots /\ slot[u] # slot[t]
      BY <2>4 DEF Scan, NextSlot, TypeOK, Blocked, CallInv, InWait, SlotsExclusive, WaitersIn
    <3>3. \A i \in Slots : i < slot[t] + 1 => i < slot[t] \/ i = slot[t]
      BY <2>2
    <3>4. op[t] = "signal" => \A i \in Slots : i < slot'[t] => ~ waiting'[i]
      BY <2>4, <3>1, <3>3 DEF ScanInv, InSignal
    <3>5. ASSUME op[t] = "broadcast", NEW u \in Threads, Blocked(u)', slot'[u] < slot'[t]
          PROVE  tokens'[slot'[u]] > 0
      <4>1. Blocked(u) /\ slot'[u] = slot[u] /\ slot[u] < slot[t]
        BY <3>1, <3>2, <3>3, <3>5
      <4> QED
        BY <3>1, <3>5, <4>1 DEF ScanInv, InSignal
    <3> QED
      BY <2>1, <3>1, <3>4, <3>5 DEF ScanInv, InSignal
  <2>5. CASE ~ waiting[slot[t]] /\ slot[t] + 1 \notin Slots
    <3>1. pc'[t] = "caller"
      BY <2>5 DEF Scan, NextSlot, Return, TypeOK
    <3> QED
      BY <2>1, <3>1 DEF ScanInv, InSignal
  <2> QED
    BY <2>0, <2>3, <2>4, <2>5
<1>9. RoomInv'
  BY DEF Scan, NextSlot, Return, TypeOK, RoomInv, MutexHeldOutsideWait, CallInv, InSignal, Slots
<1> QED
  BY <1>1, <1>2, <1>3, <1>4, <1>5, <1>6, <1>7, <1>8, <1>9

(* It sends the token.                                                       *)
LEMMA OutStep ==
  ASSUME CInv, NEW t \in Threads, Out(t), UNCHANGED kind
  PROVE  CInv'
<1> USE CondAssumption DEF CInv, Goto, None
<1>1. TypeOK'
  <2>1. slot[t] \in Slots
    BY DEF Out, CallInv, InSignal
  <2>2. tokens' \in [Slots -> 0..ChanCapacity] /\ notified' \in [Threads -> BOOLEAN]
    BY <2>1 DEF Out, Send, TypeOK, WaitersIn
  <2>3. /\ pc' \in [Threads -> Locations] /\ op' \in [Threads -> Ops]
        /\ slot' \in [Threads -> Slots \cup {None}]
    BY <2>1 DEF Out, NextSlot, Return, TypeOK, Locations, Ops
  <2>4. sent' \in 0..MaxSends
    BY <2>1 DEF Out, Send, RoomInv, InSignal, TypeOK, Slots
  <2> QED
    BY <2>2, <2>3, <2>4 DEF Out, TypeOK
<1>2. SlotsExclusive'
  BY DEF Out, Send, NextSlot, Return, TypeOK, SlotsExclusive, WaitersIn, CallInv, InWait,
         InSignal, ChosenInv, MutexHeldOutsideWait
<1>3. MutexHeldOutsideWait'
  BY DEF Out, Send, NextSlot, Return, TypeOK, MutexHeldOutsideWait
<1>4. CallInv'
  <2>1. ASSUME NEW v \in Threads \ {t}
        PROVE  UNCHANGED <<pc[v], slot[v], op[v]>>
    BY DEF Out, NextSlot, Return, TypeOK
  <2>2. slot[t] \in Slots /\ op[t] \in {"signal", "broadcast"}
    BY DEF Out, CallInv, InSignal
  <2>3. \/ pc'[t] = "caller"
        \/ pc'[t] = "scan" /\ slot'[t] \in Slots /\ op'[t] = op[t]
    BY <2>2 DEF Out, NextSlot, Return, TypeOK
  <2> QED
    BY <2>1, <2>2, <2>3 DEF CallInv, InWait, InSignal
<1>5. ChosenInv'
  BY DEF Out, Send, NextSlot, Return, TypeOK, ChosenInv, MutexHeldOutsideWait, CallInv, InWait,
         InSignal
<1>6. NoLostWakeup'
  BY DEF Out, Send, NextSlot, Return, TypeOK, NoLostWakeup, Blocked, SignalInv, CallInv, InWait,
         InSignal, SlotsExclusive, WaitersIn, ChosenInv
<1>7. SignalInv'
  BY DEF Out, Send, NextSlot, Return, TypeOK, SignalInv, MutexHeldOutsideWait, CallInv, InWait,
         InSignal, ChosenInv, SlotsExclusive, WaitersIn
<1>8. ScanInv'
  <2>1. ASSUME NEW v \in Threads \ {t}
        PROVE  pc'[v] \notin InSignal
    BY DEF Out, NextSlot, Return, TypeOK, InSignal, MutexHeldOutsideWait
  <2>2. /\ slot[t] \in Slots /\ slot[t] \in Int /\ op[t] \in {"signal", "broadcast"}
        /\ Slots \subseteq Int /\ pc[t] = "out"
    BY DEF CallInv, InSignal, Out, Slots
  <2>3. CASE op[t] = "broadcast" /\ slot[t] + 1 \in Slots
    <3>1. pc'[t] = "scan" /\ slot'[t] = slot[t] + 1 /\ UNCHANGED op
      BY <2>3 DEF Out, NextSlot, TypeOK
    <3>2. ASSUME NEW u \in Threads, Blocked(u)'
          PROVE  Blocked(u) /\ slot'[u] = slot[u] /\ slot[u] \in Slots
      BY <2>3, <3>2 DEF Out, NextSlot, TypeOK, Blocked, CallInv, InWait
    <3>3. \A i \in Slots : tokens'[i] = IF i = slot[t] THEN tokens[i] + 1 ELSE tokens[i]
      BY <2>2 DEF Out, Send, TypeOK
    <3>4. \A i \in Slots : tokens[i] \in Nat /\ (i < slot[t] + 1 => i < slot[t] \/ i = slot[t])
      BY <2>2 DEF TypeOK
    <3>5. ASSUME NEW u \in Threads, Blocked(u)', slot'[u] < slot'[t]
          PROVE  tokens'[slot'[u]] > 0
      <4>1. /\ Blocked(u) /\ slot'[u] = slot[u] /\ slot[u] \in Slots
            /\ slot[u] < slot[t] \/ slot[u] = slot[t]
        BY <3>1, <3>2, <3>4, <3>5
      <4>2. slot[u] < slot[t] => tokens[slot[u]] > 0
        BY <2>2, <2>3, <4>1 DEF ScanInv, InSignal
      <4> QED
        BY <3>3, <3>4, <4>1, <4>2
    <3> QED
      BY <2>1, <2>3, <3>1, <3>5 DEF ScanInv, InSignal
  <2>4. CASE ~ (op[t] = "broadcast" /\ slot[t] + 1 \in Slots)
    <3>1. pc'[t] = "caller"
      BY <2>2, <2>4 DEF Out, NextSlot, Return, TypeOK
    <3> QED
      BY <2>1, <3>1 DEF ScanInv, InSignal
  <2> QED
    BY <2>3, <2>4
<1>9. RoomInv'
  <2>1. ASSUME NEW v \in Threads \ {t}
        PROVE  pc'[v] \notin InSignal
    BY DEF Out, NextSlot, Return, TypeOK, InSignal, MutexHeldOutsideWait
  <2>2. /\ slot[t] \in Int /\ sent \in Int /\ sent' = sent + 1
        /\ sent + NumSlots <= MaxSends + slot[t]
    BY DEF CallInv, InSignal, Out, Send, Slots, TypeOK, RoomInv
  <2>3. pc'[t] = "caller" \/ slot'[t] = slot[t] + 1
    BY DEF Out, NextSlot, Return, TypeOK
  <2>4. pc'[t] = "caller" \/ sent' + NumSlots <= MaxSends + slot'[t]
    BY <2>2, <2>3
  <2> QED
    BY <2>1, <2>4 DEF RoomInv, InSignal
<1> QED
  BY <1>1, <1>2, <1>3, <1>4, <1>5, <1>6, <1>7, <1>8, <1>9


-----------------------------------------------------------------------------
(* The invariant *)

(* lf_cond_init makes the invariant true.                                    *)
LEMMA InitInv ==
  ASSUME Init
  PROVE  CInv
<1> USE CondAssumption DEF Init, Mutex!Init
<1>1. /\ \A t \in Threads : pc[t] = "caller" /\ depth[t] = 0
      /\ \A i \in Slots : waiting[i] = FALSE /\ signal[i] = FALSE
  OBVIOUS
<1>2. TypeOK
  BY DEF TypeOK, Locations, Ops, Slots
<1>3. SlotsExclusive
  BY <1>1 DEF SlotsExclusive, WaitersIn
<1>4. MutexHeldOutsideWait
  BY <1>1 DEF MutexHeldOutsideWait
<1>5. NoLostWakeup
  BY <1>1 DEF NoLostWakeup, Blocked
<1>6. CallInv /\ ChosenInv
  BY <1>1 DEF CallInv, ChosenInv, InWait, InSignal
<1>7. SignalInv
  BY <1>1 DEF SignalInv
<1>8. ScanInv /\ RoomInv
  BY <1>1 DEF ScanInv, RoomInv, InSignal
<1> QED
  BY <1>2, <1>3, <1>4, <1>5, <1>6, <1>7, <1>8 DEF CInv

(* Every step keeps the invariant.                                           *)
LEMMA NextInv ==
  ASSUME CInv, [Next]_vars
  PROVE  CInv'
<1>1. CASE UNCHANGED vars
  <2>1. /\ kind' = kind /\ depth' = depth /\ waiting' = waiting /\ signal' = signal
        /\ tokens' = tokens /\ timers' = timers /\ pc' = pc /\ op' = op /\ slot' = slot
        /\ timedOut' = timedOut /\ notified' = notified /\ sent' = sent
    BY <1>1 DEF vars, state
  <2>2. /\ TypeOK' = TypeOK /\ NoLostWakeup' = NoLostWakeup
        /\ MutexHeldOutsideWait' = MutexHeldOutsideWait
    BY <2>1 DEF TypeOK, NoLostWakeup, Blocked, MutexHeldOutsideWait
  <2>3. SlotsExclusive' = SlotsExclusive
    BY <2>1 DEF SlotsExclusive, WaitersIn
  <2>4. CallInv' = CallInv /\ ChosenInv' = ChosenInv /\ SignalInv' = SignalInv
    BY <2>1 DEF CallInv, ChosenInv, SignalInv
  <2>5. ScanInv' = ScanInv /\ RoomInv' = RoomInv
    BY <2>1 DEF ScanInv, Blocked, RoomInv
  <2> QED
    BY <2>2, <2>3, <2>4, <2>5 DEF CInv
<1>2. ASSUME UNCHANGED kind, NEW t \in Threads, WaitStep(t)
      PROVE  CInv'
  BY <1>2, MutexSteps, TimerSteps, DrainStep, MarkStep, TakeTokenStep, FinishStep DEF WaitStep
<1>3. ASSUME UNCHANGED kind, NEW t \in Threads, SignalStep(t)
      PROVE  CInv'
  BY <1>3, ScanStep, OutStep DEF SignalStep
<1>4. ASSUME UNCHANGED kind, NEW t \in Threads, NEW o \in {"signal", "broadcast"},
             BeginSignal(t, o)
      PROVE  CInv'
  BY <1>4, BeginSignalStep
<1>5. ASSUME UNCHANGED kind, NEW t \in Threads, BeginWait(t, kind)
      PROVE  CInv'
  BY <1>5, BeginWaitStep
<1>6. ASSUME UNCHANGED kind, NEW t \in Threads, CallerLocks(t) \/ CallerUnlocks(t)
      PROVE  CInv'
  BY <1>6, MutexSteps
<1> QED
  BY <1>1, <1>2, <1>3, <1>4, <1>5, <1>6 DEF Next

(* The invariant holds in every behaviour.                                   *)
LEMMA InvHolds == Spec => []CInv
BY InitInv, NextInv, PTL DEF Spec

-----------------------------------------------------------------------------
(* The results *)

(* Two waits never share a slot of cond->waiter, a slot's flag says whether  *)
(* a wait has it, and what is done to the slots is done with the mutex held. *)
THEOREM SlotsStayConsistent == Spec => []SlotsConsistent
<1>1. CInv => SlotsConsistent
  BY DEF CInv, SlotsConsistent
<1> QED
  BY <1>1, InvHolds, PTL

(* A blocked thread whose slot was signalled has a token, or the signaller   *)
(* is about to send it.                                                      *)
THEOREM WakeupsAreNotLost == Spec => []NoLostWakeup
<1>1. CInv => NoLostWakeup
  BY DEF CInv
<1> QED
  BY <1>1, InvHolds, PTL

(* A thread that is blocked has a slot whose flag is up.                     *)
LEMMA BlockedHasSlot ==
  ASSUME CInv, NEW u \in Threads, Blocked(u)
  PROVE  slot[u] \in Slots /\ waiting[slot[u]]
<1>1. slot[u] \in Slots /\ u \in WaitersIn(slot[u])
  BY DEF CInv, CallInv, InWait, Blocked, WaitersIn
<1> QED
  BY <1>1 DEF CInv, SlotsExclusive

(* A call that returns ends its loop without a waiter in the last slot, or   *)
(* has sent to the slot it is at.                                            *)
LEMMA ReturnCases ==
  ASSUME CInv, Next, NEW t \in Threads, SignalReturns(t)
  PROVE  \/ Scan(t) /\ ~ waiting[slot[t]] /\ slot[t] = NumSlots - 1 /\ tokens' = tokens
         \/ Out(t) /\ (op[t] = "signal" \/ slot[t] = NumSlots - 1)
<1> USE CondAssumption
<1>1. /\ pc \in [Threads -> Locations] /\ pc[t] \in InSignal /\ pc'[t] = "caller"
      /\ slot[t] \in Slots
  BY DEF SignalReturns, CInv, TypeOK, CallInv, InSignal
<1>2. ASSUME NEW u \in Threads,
             \/ CallerLocks(u) \/ CallerUnlocks(u) \/ BeginWait(u, kind) \/ WaitStep(u)
             \/ \E o \in {"signal", "broadcast"} : BeginSignal(u, o)
      PROVE  FALSE
  BY <1>1, <1>2 DEF CallerLocks, CallerUnlocks, BeginWait, WaitStep, BeginSignal, Goto, Return,
                    Drain, Mark, Unlock, AllocateTimer, TakeToken, TimerFires, Relock, Finish,
                    InSignal
<1>3. PICK u \in Threads : Scan(u) \/ Out(u)
  BY <1>2 DEF Next, SignalStep
<1>4. u = t
  BY <1>1, <1>3 DEF Scan, Out, NextSlot, Goto, Return, InSignal
<1>5. CASE Scan(t)
  <2>1. ~ waiting[slot[t]] /\ slot[t] + 1 \notin Slots /\ tokens' = tokens
    BY <1>1, <1>5 DEF Scan, NextSlot, Goto
  <2> QED
    BY <1>1, <1>5, <2>1 DEF Slots
<1>6. CASE Out(t)
  <2>1. op[t] = "signal" \/ slot[t] + 1 \notin Slots
    BY <1>1, <1>6 DEF Out, NextSlot, Goto
  <2> QED
    BY <1>1, <1>6, <2>1 DEF Slots
<1> QED
  BY <1>3, <1>4, <1>5, <1>6

(* A broadcast that returns has left a token for every blocked thread.  A    *)
(* signal that returns while threads are asleep has woken one of them, or    *)
(* sent its token to a thread that lingers in a lower slot.                  *)
THEOREM SignalsReachTheirThreads == Spec => SignalReaches
<1>1. ASSUME CInv, Next, NEW t \in Threads, SignalReturns(t), op[t] = "broadcast",
             NEW u \in Threads, Blocked(u)
      PROVE  tokens'[slot[u]] > 0
  <2> USE CondAssumption
  <2>1. /\ slot[u] \in Slots /\ waiting[slot[u]] /\ slot[t] \in Slots
        /\ tokens \in [Slots -> 0..ChanCapacity]
    BY <1>1, BlockedHasSlot DEF CInv, CallInv, InSignal, SignalReturns, TypeOK
  <2>2. slot[u] < slot[t] => tokens[slot[u]] > 0
    BY <1>1 DEF CInv, ScanInv, SignalReturns, InSignal
  <2>3. CASE ~ waiting[slot[t]] /\ slot[t] = NumSlots - 1 /\ tokens' = tokens
    BY <2>1, <2>2, <2>3 DEF Slots
  <2>4. CASE Out(t) /\ slot[t] = NumSlots - 1
    <3>1. tokens' = [tokens EXCEPT ![slot[t]] = @ + 1]
      BY <2>4 DEF Out, Send
    <3> QED
      BY <2>1, <2>2, <2>4, <3>1 DEF Slots
  <2> QED
    BY <1>1, <2>3, <2>4, ReturnCases
<1> DEFINE Reached(u) ==
      \E w \in Threads :
        \/ Asleep(w) /\ tokens'[slot[w]] > 0
        \/ Lingers(w) /\ slot[w] < slot[u] /\ tokens'[slot[w]] > tokens[slot[w]]
<1>2. ASSUME CInv, Next, NEW t \in Threads, SignalReturns(t), op[t] = "signal",
             NEW u \in Threads, Asleep(u)
      PROVE  Reached(u)
  <2> USE CondAssumption
  <2>1. /\ slot[u] \in Slots /\ waiting[slot[u]] /\ slot[t] \in Slots
        /\ Blocked(u) /\ tokens[slot[u]] = 0 /\ tokens \in [Slots -> 0..ChanCapacity]
    BY <1>2, BlockedHasSlot DEF CInv, CallInv, InSignal, SignalReturns, Asleep, TypeOK
  <2>2. CASE Scan(t) /\ ~ waiting[slot[t]] /\ slot[t] = NumSlots - 1
    <3>1. \A i \in Slots : i < slot[t] => ~ waiting[i]
      BY <1>2, <2>2 DEF CInv, ScanInv, Scan, InSignal
    <3> QED
      BY <2>1, <2>2, <3>1 DEF Slots
  <2>3. CASE Out(t)
    <3>0. pc[t] = "out"
      BY <2>3 DEF Out
    <3>1. /\ \A i \in Slots : i < slot[t] => ~ waiting[i]
          /\ WaitersIn(slot[t]) # {}
      <4>1. waiting[slot[t]]
        BY <1>2, <3>0 DEF CInv, ScanInv
      <4>2. \A i \in Slots : i < slot[t] => ~ waiting[i]
        BY <1>2, <3>0 DEF CInv, ScanInv, InSignal
      <4> QED
        BY <1>2, <2>1, <4>1, <4>2 DEF CInv, SlotsExclusive
    <3>2. PICK w \in Threads : w \in WaitersIn(slot[t])
      BY <3>1 DEF WaitersIn
    <3>3. /\ slot[w] = slot[t] /\ tokens'[slot[w]] = tokens[slot[w]] + 1
          /\ tokens[slot[w]] \in Nat
      BY <2>1, <2>3, <3>2 DEF Out, Send, WaitersIn
    <3>4. slot[t] < slot[u] \/ slot[t] = slot[u]
      BY <2>1, <3>1 DEF Slots
    <3>5. CASE tokens[slot[w]] = 0 /\ Blocked(w)
      BY <3>3, <3>5 DEF Asleep
    <3>6. CASE slot[w] = slot[u]
      BY <2>1, <3>3, <3>6, <1>2
    <3>7. CASE slot[w] < slot[u] /\ ~ (tokens[slot[w]] = 0 /\ Blocked(w))
      <4>1. pc[w] # "finish"
        BY <1>2, <2>3, <3>2 DEF CInv, MutexHeldOutsideWait, Out, Goto, NextSlot, Return
      <4>2. Lingers(w)
        BY <3>2, <3>3, <3>7, <4>1 DEF Lingers, Blocked, WaitersIn
      <4> QED
        BY <3>3, <3>7, <4>2
    <3> QED
      BY <3>3, <3>4, <3>5, <3>6, <3>7
  <2> QED
    BY <1>2, <2>2, <2>3, ReturnCases
<1> DEFINE Reaches(t) ==
      SignalReturns(t) =>
        /\ op[t] = "broadcast" =>
             \A u \in Threads : Blocked(u) => tokens'[slot[u]] > 0
        /\ op[t] = "signal" =>
             \A u \in Threads : Asleep(u) => Reached(u)
<1> HIDE DEF Reached
<1>3. ASSUME CInv, [Next]_vars
      PROVE  [\A t \in Threads : Reaches(t)]_vars
  BY <1>1, <1>2, <1>3
<1>4. Spec => [][\A t \in Threads : Reaches(t)]_vars
  BY <1>3, InvHolds, PTL DEF Spec
<1> QED
  BY <1>4 DEF SignalReaches, Reached
=============================================================================
