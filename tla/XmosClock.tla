----------------------------- MODULE XmosClock -----------------------------
(***************************************************************************)
(* Time in lf_xmos_support.c.  The hardware counter has 32 bits and counts *)
(* NsPerTick nanoseconds; lf_clock_gettime extends it with time_hi, which  *)
(* it increments when the counter is below the value of the last call.     *)
(* Threads call it without a lock, so every access is a step.              *)
(* lf_cond_timedwait turns a time into a trigger of a hardware timer.      *)
(*                                                                         *)
(* The counter and the timers (xcore/hwtimer.h) are external: a timer      *)
(* fires when the counter is after its trigger, that is less than half a   *)
(* cycle ahead of it.  A cycle in which nobody calls lf_clock_gettime is    *)
(* lost: Tick assumes a call in each half of a cycle, shorter than that.   *)
(***************************************************************************)
EXTENDS Integers, FiniteSets

CONSTANTS
  Callers,
  Cycle,       \* 2^32: the ticks in a cycle of the counter, and the
               \* nanoseconds a uint32_t holds
  NsPerTick,   \* 10
  StartTicks,  \* the time when the program starts, in the first cycle
  MaxTicks,    \* bound on the time
  WaitTimes,   \* bound: the times that timed waits are for
  MaxCalls     \* bound on the calls of lf_clock_gettime and timed waits

ASSUME ClockAssumption ==
  /\ Cycle \in Nat \ {0} /\ Cycle % 2 = 0 /\ NsPerTick \in Nat \ {0}
  /\ MaxTicks \in Nat /\ MaxTicks >= Cycle /\ MaxCalls \in Nat
  /\ IsFiniteSet(Callers)
  /\ StartTicks \subseteq 0 .. Cycle - 1 /\ WaitTimes \subseteq Nat

None == -1

VARIABLES
  ticks,               \* physical time
  time_hi, last_time,
  cpc,                 \* cpc[t]: where t is in lf_clock_gettime or a timed wait
  low,                 \* low[t]: the counter as t read it
  high,                \* high[t]: time_hi as t read it, to increment it
  readAt,              \* readAt[t]: history: when t read the counter
  time,                \* time[t]: what the call of t returns, or the time it
                       \* waits for
  trigger,             \* trigger[t]: the trigger of t's timer
  completed,           \* history: when a completed call last read the counter
  overlaps,            \* history: the calls that began while another one was
                       \* in progress
  calls

clockVars == <<ticks, time_hi, last_time, cpc, low, high, readAt, time, trigger,
               completed, overlaps, calls>>

ClockTypeOK ==
  /\ ticks \in 0..MaxTicks /\ time_hi \in Nat /\ last_time \in 0 .. Cycle - 1
  /\ cpc \in [Callers -> {"out", "compare", "load", "increment", "combine", "last", "timer"}]
  /\ low \in [Callers -> 0 .. Cycle - 1] /\ high \in [Callers -> Nat]
  /\ readAt \in [Callers -> 0..MaxTicks] /\ time \in [Callers -> Nat]
  /\ trigger \in [Callers -> 0 .. Cycle - 1]
  /\ completed \in 0..MaxTicks
  /\ calls \in 0..MaxCalls /\ overlaps \in 0..calls

(* lf_initialize_clock *)
ClockInit ==
  /\ ticks \in StartTicks /\ time_hi = 0 /\ last_time = 0
  /\ cpc = [t \in Callers |-> "out"]
  /\ low = [t \in Callers |-> 0] /\ high = [t \in Callers |-> 0]
  /\ readAt = [t \in Callers |-> 0] /\ time = [t \in Callers |-> 0]
  /\ trigger = [t \in Callers |-> 0]
  /\ completed = 0 /\ overlaps = 0 /\ calls = 0

Calling(t) == cpc[t] \notin {"out", "timer"}

(* Physical time goes on; see above for what it assumes. *)
Tick ==
  /\ ticks < MaxTicks
  /\ ticks + 1 - completed < Cycle \div 2
  /\ \A t \in Callers : Calling(t) => ticks + 1 - readAt[t] < Cycle \div 2
  /\ ticks' = ticks + 1
  /\ UNCHANGED <<time_hi, last_time, cpc, low, high, readAt, time, trigger,
                 completed, overlaps, calls>>

-----------------------------------------------------------------------------
(* lf_clock_gettime *)

At(t, from, to) == cpc[t] = from /\ cpc' = [cpc EXCEPT ![t] = to]

ReadCounter(t) ==
  /\ calls < MaxCalls /\ calls' = calls + 1
  /\ At(t, "out", "compare")
  /\ low' = [low EXCEPT ![t] = ticks % Cycle]
  /\ readAt' = [readAt EXCEPT ![t] = ticks]
  /\ overlaps' = overlaps + IF \E u \in Callers \ {t} : Calling(u) THEN 1 ELSE 0
  /\ UNCHANGED <<ticks, time_hi, last_time, high, time, trigger, completed>>

(* Faulty variant: the test for the end of a cycle is off by one. *)
CompareOrEqual(t) ==
  /\ At(t, "compare", IF low[t] <= last_time THEN "load" ELSE "combine")
  /\ UNCHANGED <<ticks, time_hi, last_time, low, high, readAt, time, trigger,
                 completed, overlaps, calls>>

(* now < last_time: a cycle has ended. *)
Compare(t) ==
  /\ At(t, "compare", IF low[t] < last_time THEN "load" ELSE "combine")
  /\ UNCHANGED <<ticks, time_hi, last_time, low, high, readAt, time, trigger,
                 completed, overlaps, calls>>

LoadHigh(t) ==
  /\ At(t, "load", "increment")
  /\ high' = [high EXCEPT ![t] = time_hi]
  /\ UNCHANGED <<ticks, time_hi, last_time, low, readAt, time, trigger,
                 completed, overlaps, calls>>

IncrementHigh(t) ==
  /\ At(t, "increment", "combine")
  /\ time_hi' = high[t] + 1
  /\ UNCHANGED <<ticks, last_time, low, high, readAt, time, trigger,
                 completed, overlaps, calls>>

Combine(t) ==
  /\ At(t, "combine", "last")
  /\ time' = [time EXCEPT ![t] = (time_hi * Cycle + low[t]) * NsPerTick]
  /\ UNCHANGED <<ticks, time_hi, last_time, low, high, readAt, trigger,
                 completed, overlaps, calls>>

(* The call returns and its locals are gone. *)
Return(t) ==
  /\ At(t, "last", "out")
  /\ low' = [low EXCEPT ![t] = 0] /\ high' = [high EXCEPT ![t] = 0]
  /\ readAt' = [readAt EXCEPT ![t] = 0] /\ time' = [time EXCEPT ![t] = 0]
  /\ completed' = IF readAt[t] > completed THEN readAt[t] ELSE completed
  /\ UNCHANGED <<ticks, time_hi, trigger, overlaps, calls>>

StoreLast(t) == Return(t) /\ last_time' = low[t]

-----------------------------------------------------------------------------
(* The timer of lf_cond_timedwait *)

(* (uint32_t) absolute_time_ns/10: the cast comes before the division. *)
TriggerOf(ns) == (ns % Cycle) \div NsPerTick

StartTimer(t, ns) ==
  /\ calls < MaxCalls /\ calls' = calls + 1
  /\ ns > ticks * NsPerTick
  /\ At(t, "out", "timer")
  /\ time' = [time EXCEPT ![t] = ns]
  /\ trigger' = [trigger EXCEPT ![t] = TriggerOf(ns)]
  /\ UNCHANGED <<ticks, time_hi, last_time, low, high, readAt, completed, overlaps>>

TimerFires(t) ==
  /\ At(t, "timer", "out")
  /\ (ticks - trigger[t]) % Cycle < Cycle \div 2
  /\ UNCHANGED <<ticks, time_hi, last_time, low, high, readAt, time, trigger,
                 completed, overlaps, calls>>

GetTimeStep(t) ==
  \/ ReadCounter(t) \/ Compare(t) \/ LoadHigh(t) \/ IncrementHigh(t)
  \/ Combine(t) \/ StoreLast(t)

TimerStep(t) == TimerFires(t) \/ \E ns \in WaitTimes : StartTimer(t, ns)

ClockNext == Tick \/ \E t \in Callers : GetTimeStep(t) \/ TimerStep(t)

ClockSpec == ClockInit /\ [][ClockNext]_clockVars

-----------------------------------------------------------------------------
(* Properties *)

(* Whatever the interleaving, the time returned is never before the moment   *)
(* the counter was read: no end of a cycle is lost.                          *)
ClockNotBehind ==
  \A t \in Callers : cpc[t] = "last" => time[t] >= readAt[t] * NsPerTick

(* It is ahead by at most one cycle for each call that ever began while      *)
(* another one was in progress: two calls that see the same end of a cycle,  *)
(* or that store `last_time' in another order than they read the counter,    *)
(* count it once too often, but not more; it is exact if calls never overlap. *)
ClockNotTooFarAhead ==
  \A t \in Callers :
    cpc[t] = "last" => time[t] <= (readAt[t] + overlaps * Cycle) * NsPerTick

TimeKept == ClockTypeOK /\ ClockNotBehind /\ ClockNotTooFarAhead

Ready(t) == (ticks - trigger[t]) % Cycle < Cycle \div 2

(* "Block ... until ... time pointed by absolute_time_ns is reached": the    *)
(* timer is ready when its time comes.                                       *)
TimerReadyWhenDue ==
  \A t \in Callers :
    cpc[t] = "timer" /\ ticks = (time[t] + NsPerTick - 1) \div NsPerTick => Ready(t)
=============================================================================
