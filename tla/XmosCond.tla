------------------------------ MODULE XmosCond ------------------------------
(***************************************************************************)
(* The condition variable of lf_xmos_support.c.  A waiter takes a slot of  *)
(* the array cond->waiter, raises its `waiting' flag, gives up the mutex   *)
(* and blocks on the slot's channel end (or, in the timed wait, on that    *)
(* channel end and a timer).  A signaller raises `signal' in a slot that   *)
(* is waiting and sends it a token.  The `waiting' flag comes down only    *)
(* when the waiter has the mutex again, so tokens can reach a slot after   *)
(* its waiter has stopped listening, and outlive the wait.                 *)
(*                                                                         *)
(* The mutex is RecursiveLock, which the mutex of the same file implements *)
(* (XmosMutex).  Channel ends and timers of xcore are external: a channel  *)
(* end buffers ChanCapacity tokens and a sender blocks while it is full; a *)
(* tile has a fixed number of timers.                                      *)
(***************************************************************************)
EXTENDS Integers, FiniteSetsExt

CONSTANTS
  Threads,       \* the threads that use the condition variable and its mutex
  NumSlots,      \* NUMBER_OF_THREADS: the length of cond->waiter
  ChanCapacity,  \* tokens a channel end buffers
  NumTimers,     \* hardware timers free when the program starts
  WaitOps,       \* which of "wait" and "timedwait" callers may use; all
                 \* callers use the same one, as the runtime does
  MaxSends       \* bound of the model on the tokens sent in a behaviour

ASSUME CondAssumption ==
  /\ NumSlots \in Nat \ {0} /\ ChanCapacity \in Nat \ {0}
  /\ NumTimers \in Nat /\ MaxSends \in Nat
  /\ WaitOps \subseteq {"wait", "timedwait"}

Slots == 0 .. NumSlots - 1
None == -1

VARIABLES
  kind,       \* the function this condition variable's callers wait with
  depth,      \* the mutex: depth[t] of RecursiveLock
  waiting,    \* waiting[i], signal[i]: the flags of cond->waiter[i]
  signal,
  tokens,     \* tokens[i]: tokens in the buffer of cond->waiter[i].chan
  timers,     \* hardware timers left to allocate
  pc, op,     \* op[t]: the function thread t is in; pc[t]: where
  slot,       \* slot[t]: the local `waiter' of a waiting call, the loop
              \* index i of a signalling one
  timedOut,   \* timedOut[t]: the local `timeout' of lf_cond_timedwait
  notified,   \* notified[t]: history: a token was sent to t's slot since
              \* t raised its flag
  sent        \* tokens sent so far, for the bound MaxSends

state == <<depth, waiting, signal, tokens, timers, pc, op, slot, timedOut, notified, sent>>
vars == <<kind, state>>

Mutex == INSTANCE RecursiveLock

Ops == {"none", "wait", "timedwait", "signal", "broadcast"}

(* The failed assertions: the thread stops there. *)
Traps == {"noSlot", "fault", "noTimer"}

Locations == {"caller", "drain", "mark", "unlock", "timer", "blocked",
              "relock", "finish", "scan", "out"} \cup Traps

TypeOK ==
  /\ kind \in WaitOps
  /\ depth \in [Threads -> Nat]
  /\ waiting \in [Slots -> BOOLEAN]
  /\ signal \in [Slots -> BOOLEAN]
  /\ tokens \in [Slots -> 0..ChanCapacity]
  /\ timers \in 0..NumTimers
  /\ pc \in [Threads -> Locations]
  /\ op \in [Threads -> Ops]
  /\ slot \in [Threads -> Slots \cup {None}]
  /\ timedOut \in [Threads -> BOOLEAN]
  /\ notified \in [Threads -> BOOLEAN]
  /\ sent \in 0..MaxSends

(* lf_cond_init returned 0. *)
Init ==
  /\ kind \in WaitOps
  /\ Mutex!Init
  /\ waiting = [i \in Slots |-> FALSE]
  /\ signal = [i \in Slots |-> FALSE]
  /\ tokens = [i \in Slots |-> 0]
  /\ timers = NumTimers
  /\ pc = [t \in Threads |-> "caller"]
  /\ op = [t \in Threads |-> "none"]
  /\ slot = [t \in Threads |-> None]
  /\ timedOut = [t \in Threads |-> FALSE]
  /\ notified = [t \in Threads |-> FALSE]
  /\ sent = 0

Goto(t, from, to) ==
  /\ pc[t] = from
  /\ pc' = [pc EXCEPT ![t] = to]

(* A call returns: its locals are gone. *)
Return(t, from) ==
  /\ Goto(t, from, "caller")
  /\ op' = [op EXCEPT ![t] = "none"]
  /\ slot' = [slot EXCEPT ![t] = None]

-----------------------------------------------------------------------------
(* The callers: they lock, call one of the functions, and unlock. *)

CallerLocks(t) ==
  /\ pc[t] = "caller" /\ depth[t] = 0
  /\ Mutex!Lock(t)
  /\ UNCHANGED <<waiting, signal, tokens, timers, pc, op, slot, timedOut, notified, sent>>

CallerUnlocks(t) ==
  /\ pc[t] = "caller"
  /\ Mutex!Unlock(t)
  /\ UNCHANGED <<waiting, signal, tokens, timers, pc, op, slot, timedOut, notified, sent>>

-----------------------------------------------------------------------------
(* lf_cond_wait and lf_cond_timedwait *)

(* Faulty variant: the search tests the wrong flag. *)
FreeSlotsBySignal == {i \in Slots : ~signal[i]}

(* get_available_cond: the first slot whose flag is down; xassert if none. *)
FreeSlots == {i \in Slots : ~waiting[i]}

BeginWait(t, o) ==
  /\ depth[t] > 0
  /\ IF FreeSlots = {}
     THEN Goto(t, "caller", "noSlot") /\ UNCHANGED slot
     ELSE /\ Goto(t, "caller", IF o = "wait" THEN "mark" ELSE "drain")
          /\ slot' = [slot EXCEPT ![t] = Min(FreeSlots)]
  /\ op' = [op EXCEPT ![t] = o]
  /\ UNCHANGED <<depth, waiting, signal, tokens, timers, timedOut, notified, sent>>

(* The timed wait takes one old token if the slot's flag says there is one;  *)
(* an empty channel is the `fault' case, xassert(false).                     *)
Drain(t) ==
  /\ pc[t] = "drain"
  /\ \/ /\ ~signal[slot[t]]
        /\ Goto(t, "drain", "mark")
        /\ UNCHANGED <<signal, tokens>>
     \/ /\ signal[slot[t]] /\ tokens[slot[t]] > 0
        /\ Goto(t, "drain", "mark")
        /\ tokens' = [tokens EXCEPT ![slot[t]] = @ - 1]
        /\ signal' = [signal EXCEPT ![slot[t]] = FALSE]
     \/ /\ signal[slot[t]] /\ tokens[slot[t]] = 0
        /\ Goto(t, "drain", "fault")
        /\ UNCHANGED <<signal, tokens>>
  /\ UNCHANGED <<depth, waiting, timers, op, slot, timedOut, notified, sent>>

(* Faulty variant: the slot is not marked as taken. *)
MarkMissing(t) ==
  /\ Goto(t, "mark", "unlock")
  /\ notified' = [notified EXCEPT ![t] = FALSE]
  /\ UNCHANGED <<depth, waiting, signal, tokens, timers, op, slot, timedOut, sent>>

Mark(t) ==
  /\ Goto(t, "mark", "unlock")
  /\ waiting' = [waiting EXCEPT ![slot[t]] = TRUE]
  /\ notified' = [notified EXCEPT ![t] = FALSE]
  /\ UNCHANGED <<depth, signal, tokens, timers, op, slot, timedOut, sent>>

Unlock(t) ==
  /\ Goto(t, "unlock", IF op[t] = "wait" THEN "blocked" ELSE "timer")
  /\ Mutex!Unlock(t)
  /\ UNCHANGED <<waiting, signal, tokens, timers, op, slot, timedOut, notified, sent>>

(* hwtimer_alloc, xassert if there is none; the function never frees it. *)
AllocateTimer(t) ==
  /\ \/ timers > 0 /\ Goto(t, "timer", "blocked") /\ timers' = timers - 1
     \/ timers = 0 /\ Goto(t, "timer", "noTimer") /\ UNCHANGED timers
  /\ UNCHANGED <<depth, waiting, signal, tokens, op, slot, timedOut, notified, sent>>

(* Blocked on the channel end: the token, or for the timed wait the timer.   *)
TakeToken(t) ==
  /\ Goto(t, "blocked", "relock")
  /\ tokens[slot[t]] > 0
  /\ tokens' = [tokens EXCEPT ![slot[t]] = @ - 1]
  /\ timedOut' = [timedOut EXCEPT ![t] = FALSE]
  /\ UNCHANGED <<depth, waiting, signal, timers, op, slot, notified, sent>>

TimerFires(t) ==
  /\ op[t] = "timedwait"
  /\ Goto(t, "blocked", "relock")
  /\ timedOut' = [timedOut EXCEPT ![t] = TRUE]
  /\ UNCHANGED <<depth, waiting, signal, tokens, timers, op, slot, notified, sent>>

Relock(t) ==
  /\ Goto(t, "relock", "finish")
  /\ Mutex!Lock(t)
  /\ UNCHANGED <<waiting, signal, tokens, timers, op, slot, timedOut, notified, sent>>

(* Faulty variant: the flag of the slot stays up after an untimed wait. *)
FinishKeepsSignal(t) ==
  /\ Return(t, "finish")
  /\ waiting' = [waiting EXCEPT ![slot[t]] = FALSE]
  /\ UNCHANGED <<depth, signal, tokens, timers, timedOut, notified, sent>>

(* Only lf_cond_wait resets `signal'. *)
Finish(t) ==
  /\ Return(t, "finish")
  /\ signal' = [signal EXCEPT ![slot[t]] = @ /\ op[t] = "timedwait"]
  /\ waiting' = [waiting EXCEPT ![slot[t]] = FALSE]
  /\ UNCHANGED <<depth, tokens, timers, timedOut, notified, sent>>

-----------------------------------------------------------------------------
(* lf_cond_signal and lf_cond_broadcast, called with the mutex held as the   *)
(* runtime does.  slot[t] is the loop index.  The bound leaves room for a    *)
(* token in every slot.                                                      *)

BeginSignal(t, o) ==
  /\ depth[t] > 0
  /\ sent + NumSlots <= MaxSends
  /\ Goto(t, "caller", "scan")
  /\ op' = [op EXCEPT ![t] = o]
  /\ slot' = [slot EXCEPT ![t] = 0]
  /\ UNCHANGED <<depth, waiting, signal, tokens, timers, timedOut, notified, sent>>

(* i++, and the call returns at the end of the array. *)
NextSlot(t, from) ==
  IF slot[t] + 1 \in Slots
  THEN /\ Goto(t, from, "scan")
       /\ slot' = [slot EXCEPT ![t] = @ + 1]
       /\ UNCHANGED op
  ELSE Return(t, from)

Scan(t) ==
  /\ pc[t] = "scan"
  /\ \/ waiting[slot[t]] /\ Goto(t, "scan", "out")
        /\ signal' = [signal EXCEPT ![slot[t]] = TRUE]
        /\ UNCHANGED <<op, slot>>
     \/ ~waiting[slot[t]] /\ NextSlot(t, "scan") /\ UNCHANGED signal
  /\ UNCHANGED <<depth, waiting, tokens, timers, timedOut, notified, sent>>

(* The threads between raising and lowering the flag of slot i. *)
WaitersIn(i) ==
  {u \in Threads :
     slot[u] = i /\ pc[u] \in {"unlock", "timer", "noTimer", "blocked", "relock", "finish"}}

(* chanend_out_control_token to slot i. *)
Send(i) ==
  /\ tokens[i] < ChanCapacity
  /\ tokens' = [tokens EXCEPT ![i] = @ + 1]
  /\ notified' = [u \in Threads |-> notified[u] \/ u \in WaitersIn(i)]
  /\ sent' = sent + 1

(* Faulty variant: the broadcast leaves the loop after its first waiter. *)
OutOnce(t) ==
  /\ pc[t] = "out"
  /\ Send(slot[t])
  /\ Return(t, "out")
  /\ UNCHANGED <<depth, waiting, signal, timers, timedOut>>

(* The send; lf_cond_signal then returns, lf_cond_broadcast goes on. *)
Out(t) ==
  /\ pc[t] = "out"
  /\ Send(slot[t])
  /\ IF op[t] = "signal" THEN Return(t, "out") ELSE NextSlot(t, "out")
  /\ UNCHANGED <<depth, waiting, signal, timers, timedOut>>

-----------------------------------------------------------------------------
WaitStep(t) ==
  \/ Drain(t) \/ Mark(t) \/ Unlock(t) \/ AllocateTimer(t)
  \/ TakeToken(t) \/ TimerFires(t) \/ Relock(t) \/ Finish(t)

SignalStep(t) == Scan(t) \/ Out(t)

Next ==
  /\ UNCHANGED kind
  /\ \E t \in Threads :
       \/ CallerLocks(t) \/ CallerUnlocks(t)
       \/ BeginWait(t, kind)
       \/ \E o \in {"signal", "broadcast"} : BeginSignal(t, o)
       \/ WaitStep(t) \/ SignalStep(t)

Spec == Init /\ [][Next]_vars

(* Hardware threads run; the hardware lock serves the threads that queue for *)
(* it, so a waiter that keeps asking gets the mutex; a caller that holds the *)
(* mutex unlocks it sooner or later, also if it calls in between.  A timer   *)
(* need not fire: a wait may be for the end of time.                         *)
FairSpec ==
  /\ Spec
  /\ \A t \in Threads :
       /\ WF_state(Drain(t) \/ Mark(t) \/ Unlock(t) \/ AllocateTimer(t) \/ TakeToken(t) \/ Finish(t)
                  \/ SignalStep(t))
       /\ SF_state(Relock(t))
       /\ SF_state(CallerUnlocks(t))

-----------------------------------------------------------------------------
(* Properties *)

Blocked(u) == pc[u] \in {"unlock", "timer", "blocked"}

(* Two waits never share a slot, although a slot is chosen by its flag and   *)
(* the flag is written again after the mutex was given up and taken back.    *)
SlotsExclusive ==
  \A i \in Slots :
    /\ \A t, u \in WaitersIn(i) : t = u
    /\ waiting[i] <=> WaitersIn(i) # {}

(* The words of a slot are written, and the calls return, with the mutex     *)
(* held: no two threads are past the mutex at once.                          *)
MutexHeldOutsideWait ==
  \A t, u \in Threads :
    /\ pc[t] \in {"finish", "drain", "mark", "unlock", "scan", "out"} => depth[t] > 0
    /\ depth[t] > 0 /\ depth[u] > 0 => t = u

SlotsConsistent == TypeOK /\ SlotsExclusive /\ MutexHeldOutsideWait

(* A thread that a signal was meant for is not left blocked: while `signal'  *)
(* is up in the slot of a blocked thread, a token is there or about to be.   *)
NoLostWakeup ==
  \A u \in Threads :
    Blocked(u) /\ signal[slot[u]] =>
      \/ tokens[slot[u]] > 0
      \/ \E t \in Threads : pc[t] = "out" /\ slot[t] = slot[u]

(* Asleep: in the wait with nothing to end it but a token or the timer.      *)
(* Lingers: no longer asleep, and the flag of its slot still up.             *)
Asleep(u) == Blocked(u) /\ tokens[slot[u]] = 0
Lingers(u) == pc[u] \in {"relock", "noTimer"} \/ (Blocked(u) /\ tokens[slot[u]] > 0)

SignalReturns(t) ==
  pc[t] \in {"scan", "out"} /\ pc'[t] = "caller"

(* When lf_cond_broadcast returns, every thread blocked on the condition has *)
(* its token.  When lf_cond_signal returns and threads were asleep, it has   *)
(* woken one of them, unless a thread woken before them lingers in a lower   *)
(* slot than theirs: that one takes the token and nobody new is woken, the   *)
(* one exception to `Wake up one thread waiting' (lf_xmos_support.c:251).    *)
SignalReaches ==
  [][\A t \in Threads :
       SignalReturns(t) =>
         /\ op[t] = "broadcast" =>
              \A u \in Threads : Blocked(u) => tokens'[slot[u]] > 0
         /\ op[t] = "signal" =>
              \A u \in Threads : Asleep(u) =>
                \E w \in Threads :
                  \/ Asleep(w) /\ tokens'[slot[w]] > 0
                  \/ Lingers(w) /\ slot[w] < slot[u] /\ tokens'[slot[w]] > tokens[slot[w]]]_vars

(* A notified thread leaves the wait and gets the mutex, unless the program  *)
(* traps in a wait call of another thread.                                   *)
Trapped == \E t \in Threads : pc[t] \in Traps

NotifiedReturns ==
  \A t \in Threads : (Blocked(t) /\ notified[t]) ~> (pc[t] = "caller" \/ Trapped)

-----------------------------------------------------------------------------
(* What an assertion says and the code does not do. *)

(* The `fault' case, xassert(false): a slot whose flag is up has the token.  *)
FlaggedSlotHasToken ==
  \A t \in Threads : pc[t] = "drain" /\ signal[slot[t]] => tokens[slot[t]] > 0
=============================================================================
