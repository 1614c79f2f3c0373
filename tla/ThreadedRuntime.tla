--------------------------- MODULE ThreadedRuntime ---------------------------
(***************************************************************************)
(* The multithreaded runtime of reactor_threaded.c, with the parts of      *)
(* reactor_common.c it runs under the one global mutex: worker threads     *)
(* execute reactions; the last one to become idle takes the mutex and      *)
(* advances the tag (_lf_next_locked), waiting in between, without the     *)
(* mutex, for physical time or for a signal on event_q_changed; reactions  *)
(* and threads outside of the program may ask to stop meanwhile.           *)
(*                                                                         *)
(* A critical section that does not wait is one step; the section of       *)
(* _lf_next_locked is one step from each point where the mutex is taken to *)
(* the next where it is given up.  The condition variable is the one of    *)
(* lf_platform.h, with wakeups for no reason (XmosCond) and timers that    *)
(* fire early.  The scheduler (scheduler_NP.c) is external: reactions wait *)
(* in `queued' until the last idle worker distributes a level into `ready'.*)
(***************************************************************************)
EXTENDS ReactorCommon, FiniteSets

CONSTANTS
  Workers,       \* the worker threads
  MaxReactions,  \* bound on the reactions queued at a time
  MaxLevels,     \* bound on the levels of the reaction graph
  EarlyTimers,   \* the timer of lf_cond_timedwait may fire before its time
  OutsideStops   \* threads outside of the program call lf_request_stop

Nobody == "nobody"
Main == "main"

ASSUME RuntimeAssumption ==
  /\ IsFiniteSet(Workers) /\ Nobody \notin Workers /\ Main \notin Workers
  /\ EarlyTimers \in BOOLEAN /\ OutsideStops \in BOOLEAN
  /\ MaxReactions \in Nat /\ MaxLevels \in Nat

VARIABLES
  mutex,             \* the holder of the global mutex
  changed,           \* a signal of event_q_changed is there for the waiter
  worker_thread_count,
  number,            \* number[w]: the local worker_number
  pc,                \* pc[w]: where worker w is
  target,            \* target[w]: the argument of its wait_until
  mainPc,            \* where lf_reactor_c_main is
  queued, ready,     \* the scheduler: reactions queued, reactions to take
  idle, should_stop, \* the scheduler: idle workers, end of execution
  tagCompleted,      \* the scheduler: the first tag is complete
  levels             \* levels left at the current tag

sched == <<queued, ready, idle, should_stop, tagCompleted, levels>>
threads == <<worker_thread_count, number, mainPc>>
vars == <<world, mutex, tags, eventQ, changed, threads, pc, target, sched, scheduled>>

WorkerLocations ==
  {"unborn", "start", "get", "run", "idle", "last", "tag", "wait", "blocked",
   "signalled", "timeout", "commit", "after", "exit", "gone"}

TypeOK ==
  /\ CommonTypeOK
  /\ mutex \in Workers \cup {Nobody, Main}
  /\ changed \in BOOLEAN
  /\ worker_thread_count \in Nat
  /\ number \in [Workers -> Nat]
  /\ pc \in [Workers -> WorkerLocations]
  /\ target \in [Workers -> Times]
  /\ mainPc \in {"initialize", "threads", "join", "done"}
  /\ queued \in 0..MaxReactions /\ ready \in 0..MaxReactions
  /\ idle \in 0..Cardinality(Workers)
  /\ should_stop \in BOOLEAN /\ tagCompleted \in BOOLEAN
  /\ levels \in 0..MaxLevels

Goto(w, from, to) ==
  /\ pc[w] = from
  /\ pc' = [pc EXCEPT ![w] = to]

-----------------------------------------------------------------------------
(* Faulty variant: the timeout is not looked at. *)
NextEventTagUncapped(stop) ==
  IF EventTimes = {} THEN ForeverTag ELSE EventTag(HeadTime)

(* get_next_event_tag, for a stop tag. *)
NextEventTag(stop) ==
  TagMin(IF EventTimes = {} THEN ForeverTag ELSE EventTag(HeadTime), stop)

(* lf_cond_signal(&event_q_changed): for the worker that waits, if any. *)
SignalQueueChanged ==
  changed' = (changed \/ \E w \in Workers : pc[w] \in {"blocked", "signalled", "timeout"})

-----------------------------------------------------------------------------
(* lf_reactor_c_main, from the return of initialize(), with the mutex held.  *)

Init ==
  /\ CommonInit
  /\ mutex = Main
  /\ changed = FALSE
  /\ worker_thread_count = 0
  /\ number = [w \in Workers |-> 0]
  /\ pc = [w \in Workers |-> "unborn"]
  /\ target = [w \in Workers |-> 0]
  /\ mainPc = "initialize"
  /\ queued = 0 /\ ready = 0 /\ idle = 0
  /\ should_stop = FALSE /\ tagCompleted = FALSE
  /\ levels = MaxLevels

(* Faulty variant: the test for a timeout of zero is missing. *)
InitializeStartTagNoShutdown ==
  /\ mainPc = "initialize"
  /\ InitializeTimers
  /\ queued' \in 0..MaxReactions
  /\ mainPc' = "threads"
  /\ UNCHANGED <<shutdowns, world, mutex, current_tag, stop_tag, actionEvents, changed,
                 worker_thread_count, number, pc, target, ready, idle, should_stop,
                 tagCompleted, levels, scheduled>>

(* _lf_initialize_start_tag: startup reactions and the timers with offset 0  *)
(* go to the scheduler, the other events to the queue; with a timeout of     *)
(* zero the shutdown reactions are triggered as well.                        *)
InitializeStartTag ==
  /\ mainPc = "initialize"
  /\ InitializeTimers
  /\ queued' \in 0..MaxReactions
  /\ shutdowns' = IF AtStopTag THEN shutdowns + 1 ELSE shutdowns
  /\ mainPc' = "threads"
  /\ UNCHANGED <<world, mutex, current_tag, stop_tag, actionEvents, changed,
                 worker_thread_count, number, pc, target, ready, idle, should_stop,
                 tagCompleted, levels, scheduled>>

StartThread(w) ==
  /\ mainPc = "threads"
  /\ Goto(w, "unborn", "start")
  /\ UNCHANGED <<world, mutex, tags, eventQ, changed, threads, target, sched, scheduled>>

MainUnlocks ==
  /\ mainPc = "threads"
  /\ \A w \in Workers : pc[w] # "unborn"
  /\ mutex' = Nobody
  /\ mainPc' = "join"
  /\ UNCHANGED <<world, tags, eventQ, changed, worker_thread_count, number, pc, target, sched,
                 scheduled>>

MainJoins ==
  /\ mainPc = "join"
  /\ \A w \in Workers : pc[w] = "gone"
  /\ mainPc' = "done"
  /\ UNCHANGED <<world, mutex, tags, eventQ, changed, worker_thread_count, number, pc, target,
                 sched, scheduled>>

-----------------------------------------------------------------------------
(* worker: its two critical sections *)

WorkerStarts(w) ==
  /\ mutex = Nobody
  /\ Goto(w, "start", "get")
  /\ number' = [number EXCEPT ![w] = worker_thread_count]
  /\ worker_thread_count' = worker_thread_count + 1
  /\ UNCHANGED <<world, mutex, tags, eventQ, changed, mainPc, target, sched, scheduled>>

WorkerExits(w) ==
  /\ mutex = Nobody
  /\ Goto(w, "exit", "gone")
  /\ worker_thread_count' = worker_thread_count - 1
  /\ SignalQueueChanged
  /\ UNCHANGED <<world, mutex, tags, eventQ, number, mainPc, target, sched, scheduled>>

-----------------------------------------------------------------------------
(* _lf_worker_do_work and the scheduler it asks for reactions *)

(* lf_sched_get_ready_reaction returns a reaction ... *)
GetReady(w) ==
  /\ ready > 0
  /\ Goto(w, "get", "run")
  /\ ready' = ready - 1
  /\ UNCHANGED <<world, mutex, tags, eventQ, changed, threads, target, queued, idle, should_stop,
                 tagCompleted, levels, scheduled>>

(* Faulty variant: a worker takes the last but one for the last. *)
BecomeIdleEarly(w) ==
  /\ ready = 0
  /\ idle' = idle + 1
  /\ Goto(w, "get", IF idle' >= Cardinality(Workers) - 1 THEN "last" ELSE "idle")
  /\ UNCHANGED <<world, mutex, tags, eventQ, changed, threads, target, queued, ready, should_stop,
                 tagCompleted, levels, scheduled>>

(* ... or there is none: the worker sleeps, unless all others do already. *)
BecomeIdle(w) ==
  /\ ready = 0
  /\ idle' = idle + 1
  /\ Goto(w, "get", IF idle' = Cardinality(Workers) THEN "last" ELSE "idle")
  /\ UNCHANGED <<world, mutex, tags, eventQ, changed, threads, target, queued, ready, should_stop,
                 tagCompleted, levels, scheduled>>

(* The last idle worker makes the next level ready and wakes one worker per  *)
(* reaction, itself among them.                                              *)
Distribute(w) ==
  /\ pc[w] = "last" /\ queued > 0
  /\ \E n \in 1..queued : \E awake \in SUBSET {u \in Workers : pc[u] = "idle"} :
       /\ Cardinality(awake) + 1 = IF n < Cardinality(Workers) THEN n ELSE Cardinality(Workers)
       /\ ready' = n
       /\ queued' = queued - n
       /\ idle' = idle - (Cardinality(awake) + 1)
       /\ pc' = [u \in Workers |-> IF u \in awake \cup {w} THEN "get" ELSE pc[u]]
  /\ UNCHANGED <<world, mutex, tags, eventQ, changed, threads, target, should_stop, tagCompleted,
                 levels, scheduled>>

(* Faulty variant: the stop request is not ignored at the stop tag. *)
RequestStopAlways ==
  /\ mutex = Nobody
  /\ stop_tag' = NextMicrostep /\ SignalQueueChanged
  /\ UNCHANGED <<world, mutex, current_tag, shutdowns, eventQ, threads, pc, target, sched, scheduled>>

(* Faulty variant: the worker that waits is not told. *)
RequestStopSilently ==
  /\ mutex = Nobody
  /\ ~AtStopTag
  /\ StopAtNextMicrostep
  /\ UNCHANGED <<changed, world, mutex, current_tag, shutdowns, eventQ, threads, pc, target, sched,
                 scheduled>>

(* lf_request_stop, ignored at the stop tag. *)
RequestStop ==
  /\ mutex = Nobody
  /\ ~AtStopTag
  /\ StopAtNextMicrostep /\ SignalQueueChanged
  /\ UNCHANGED <<world, mutex, current_tag, shutdowns, eventQ, threads, pc, target, sched, scheduled>>

ReactionRequestsStop(w) == pc[w] = "run" /\ RequestStop

(* A thread that a startup reaction, say, has created. *)
OutsideRequestsStop == OutsideStops /\ mainPc = "join" /\ RequestStop

ReactionSchedules(w, t) ==
  /\ pc[w] = "run"
  /\ ScheduleAction(t)
  /\ UNCHANGED <<world, mutex, tags, changed, threads, pc, target, sched>>

(* schedule_output_reactions: a reaction of a later level is triggered. *)
ReactionTriggers(w) ==
  /\ pc[w] = "run"
  /\ levels > 0 /\ queued < MaxReactions
  /\ queued' = queued + 1
  /\ levels' = levels - 1
  /\ UNCHANGED <<world, mutex, tags, eventQ, changed, threads, pc, target, ready, idle, should_stop,
                 tagCompleted, scheduled>>

ReactionDone(w) ==
  /\ Goto(w, "run", "get")
  /\ UNCHANGED <<world, mutex, tags, eventQ, changed, threads, target, sched, scheduled>>

-----------------------------------------------------------------------------
(* The last idle worker, nothing left at this tag: it takes the mutex. *)

LockToAdvance(w) ==
  /\ mutex = Nobody
  /\ queued = 0
  /\ Goto(w, "last", "tag")
  /\ mutex' = w
  /\ UNCHANGED <<world, tags, eventQ, changed, threads, target, sched, scheduled>>

(* The scheduler ends the execution when the stop tag is complete ... *)
SignalStop(w) ==
  /\ pc[w] = "tag" /\ tagCompleted /\ AtStopTag
  /\ should_stop' = TRUE
  /\ mutex' = Nobody
  /\ idle' = 0
  /\ pc' = [u \in Workers |-> IF u = w \/ pc[u] = "idle" THEN "exit" ELSE pc[u]]
  /\ UNCHANGED <<world, tags, eventQ, changed, threads, target, queued, ready, tagCompleted, levels,
                 scheduled>>

(* ... and calls _lf_next_locked otherwise: an empty queue without keepalive *)
(* moves the stop tag to the next microstep.                                 *)
BeginNext(w) ==
  /\ Goto(w, "tag", "wait")
  /\ ~(tagCompleted /\ AtStopTag)
  /\ tagCompleted' = TRUE
  /\ \/ EventTimes = {} /\ ~options.keepalive /\ StopAtNextMicrostep
     \/ (EventTimes # {} \/ options.keepalive) /\ UNCHANGED stop_tag
  /\ target' = [target EXCEPT ![w] = NextEventTag(stop_tag').time]
  /\ UNCHANGED <<world, mutex, current_tag, shutdowns, eventQ, changed, threads, queued, ready, idle,
                 should_stop, levels, scheduled>>

Due(t) == options.fast \/ t < now + MinSleep

(* wait_until: no wait if the time has come, else lf_cond_timedwait. *)
SkipWait(w) ==
  /\ Due(target[w])
  /\ Goto(w, "wait", "commit")
  /\ UNCHANGED <<world, mutex, tags, eventQ, changed, threads, target, sched, scheduled>>

(* Faulty variant: the mutex is kept during the wait. *)
WaitHoldingMutex(w) ==
  /\ ~Due(target[w])
  /\ Goto(w, "wait", "blocked")
  /\ changed' = FALSE
  /\ UNCHANGED <<mutex, world, tags, eventQ, threads, target, sched, scheduled>>

Wait(w) ==
  /\ ~Due(target[w])
  /\ Goto(w, "wait", "blocked")
  /\ mutex' = Nobody
  /\ changed' = FALSE
  /\ UNCHANGED <<world, tags, eventQ, threads, target, sched, scheduled>>

(* The wait ends by a signal, by a token left from before, or by the timer. *)
WakeBySignal(w) ==
  /\ changed
  /\ Goto(w, "blocked", "signalled")
  /\ UNCHANGED <<world, mutex, tags, eventQ, changed, threads, target, sched, scheduled>>

WakeSpuriously(w) ==
  /\ Goto(w, "blocked", "signalled")
  /\ UNCHANGED <<world, mutex, tags, eventQ, changed, threads, target, sched, scheduled>>

WakeByTimer(w) ==
  /\ EarlyTimers \/ target[w] < now + MinSleep
  /\ Goto(w, "blocked", "timeout")
  /\ UNCHANGED <<world, mutex, tags, eventQ, changed, threads, target, sched, scheduled>>

(* Back from lf_cond_timedwait with the mutex.  Interrupted: the next tag is *)
(* computed again and waited for, unless it is past the stop tag.            *)
Interrupted(w) ==
  /\ mutex = Nobody
  /\ mutex' = w
  /\ LET next == NextEventTag(stop_tag) IN
       /\ Goto(w, "signalled", IF TagLess(stop_tag, next) THEN "after" ELSE "wait")
       /\ target' = [target EXCEPT ![w] = next.time]
  /\ UNCHANGED <<world, tags, eventQ, changed, threads, sched, scheduled>>

(* Faulty variant: a timeout is believed without a look at the clock. *)
TimedOutBlindly(w) ==
  /\ mutex = Nobody
  /\ mutex' = w
  /\ Goto(w, "timeout", "commit")
  /\ UNCHANGED <<world, tags, eventQ, changed, threads, target, sched, scheduled>>

(* Timed out: wait again if physical time is still short of the target. *)
TimedOut(w) ==
  /\ mutex = Nobody
  /\ mutex' = w
  /\ Goto(w, "timeout", IF target[w] < now + MinSleep THEN "commit" ELSE "wait")
  /\ UNCHANGED <<world, tags, eventQ, changed, threads, target, sched, scheduled>>

-----------------------------------------------------------------------------
(* The end of _lf_next_locked, all of it with the mutex held. *)

(* After the wait the next tag is computed once more; nothing is left to do  *)
(* at the stop tag; otherwise time advances, at the stop tag the shutdown    *)
(* reactions are triggered, and the events of that time are popped.          *)
Commit(w) ==
  /\ Goto(w, "commit", "after")
  /\ LET next == NextEventTag(stop_tag) IN
       IF ~TagLess(next, stop_tag) /\ AtStopTag
       THEN UNCHANGED <<current_tag, shutdowns, eventQ, queued, levels>>
       ELSE /\ current_tag' = AdvancedTag(next.time)
            /\ PopEvents(next.time)
            /\ shutdowns' = IF TagLess(current_tag', stop_tag) THEN shutdowns ELSE shutdowns + 1
            /\ queued' \in IF next.time \in EventTimes \/ shutdowns' > shutdowns
                           THEN 0..MaxReactions ELSE {0}
            /\ levels' = MaxLevels
  /\ UNCHANGED <<world, mutex, stop_tag, changed, threads, target, ready, idle, should_stop,
                 tagCompleted, scheduled>>

(* Back in the scheduler: again while there is nothing to execute. *)
AfterNext(w) ==
  /\ \/ queued = 0 /\ Goto(w, "after", "tag") /\ UNCHANGED mutex
     \/ queued > 0 /\ Goto(w, "after", "last") /\ mutex' = Nobody
  /\ UNCHANGED <<world, tags, eventQ, changed, threads, target, sched, scheduled>>

-----------------------------------------------------------------------------
Tick ==
  /\ now < Forever - 1
  /\ now' = now + 1
  /\ UNCHANGED <<options, mutex, tags, eventQ, changed, threads, pc, target, sched, scheduled>>

MainStep == InitializeStartTag \/ MainUnlocks \/ MainJoins \/ \E w \in Workers : StartThread(w)

SchedulerStep(w) == GetReady(w) \/ BecomeIdle(w) \/ Distribute(w) \/ SignalStop(w)

NextStep(w) ==
  \/ LockToAdvance(w) \/ BeginNext(w) \/ SkipWait(w) \/ Wait(w) \/ WakeBySignal(w)
  \/ Interrupted(w) \/ TimedOut(w) \/ Commit(w) \/ AfterNext(w)

ReactionStep(w) ==
  \/ ReactionRequestsStop(w) \/ (\E t \in Times : ReactionSchedules(w, t)) \/ ReactionTriggers(w)

Terminated == mainPc = "done" /\ UNCHANGED vars

Next ==
  \/ MainStep \/ OutsideRequestsStop \/ Tick \/ Terminated
  \/ \E w \in Workers :
       \/ WorkerStarts(w) \/ WorkerExits(w)
       \/ SchedulerStep(w) \/ NextStep(w)
       \/ WakeSpuriously(w) \/ WakeByTimer(w)
       \/ ReactionStep(w) \/ ReactionDone(w)

Spec == Init /\ [][Next]_vars

(* Hardware threads run and reactions return; a timer whose time has come    *)
(* fires.  The mutex is fair as far as a thread that keeps asking is served. *)
DueTimerFires(w) == target[w] < now + MinSleep /\ WakeByTimer(w)

Proceeds(w) == SchedulerStep(w) \/ ReactionDone(w) \/ NextStep(w) \/ DueTimerFires(w)

TakesMutex(w) ==
  WorkerStarts(w) \/ WorkerExits(w) \/ LockToAdvance(w) \/ Interrupted(w) \/ TimedOut(w)

ThreadFairness ==
  /\ WF_vars(MainStep)
  /\ \A w \in Workers : WF_vars(Proceeds(w)) /\ SF_vars(TakesMutex(w))

FairSpec == Spec /\ ThreadFairness

-----------------------------------------------------------------------------
(* Properties *)

Advancing(w) == pc[w] \in {"tag", "wait", "commit", "after"}

(* The mutex is with the one worker inside _lf_next_locked; no second worker *)
(* takes itself for the last idle one, not even while the first one waits;   *)
(* and until the tag has changed no reaction of the last tag runs, or waits  *)
(* to run.                                                                   *)
OneAdvances ==
  /\ \A w \in Workers : Advancing(w) <=> mutex = w
  /\ \A w, u \in Workers :
       /\ pc[w] \in {"last", "blocked", "signalled", "timeout"} \/ Advancing(w)
       /\ pc[u] \in {"last", "blocked", "signalled", "timeout"} \/ Advancing(u)
       => w = u
  /\ (\E w \in Workers : pc[w] \in {"tag", "wait", "blocked", "signalled", "timeout", "commit"}) =>
       queued = 0 /\ ready = 0 /\ \A w \in Workers : pc[w] # "run"

(* Unless -fast, logical time does not run ahead of physical time, although  *)
(* the wait is broken off by signals, late, early and leftover wakeups.      *)
NotAhead == ~options.fast => current_tag.time < now + MinSleep

(* The shutdown reactions are triggered exactly once, at the stop tag, and   *)
(* no tag after it is executed, wherever the stop tag moves in a wait.       *)
ShutdownAtStopTag ==
  /\ TagLeq(current_tag, stop_tag)
  /\ shutdowns \in {0, 1}
  /\ mainPc # "initialize" => (shutdowns = 1 <=> current_tag = stop_tag)

(* Threads end only when the stop tag is complete, and leave nothing that    *)
(* should have been executed: no reaction, and no event before the stop tag. *)
EndsComplete ==
  \A w \in Workers :
    pc[w] \in {"exit", "gone"} =>
      /\ current_tag = stop_tag /\ shutdowns = 1
      /\ queued = 0 /\ ready = 0
      /\ \A t \in EventTimes : t >= stop_tag.time

(* A periodic timer has an event in the queue until the stop time, unless    *)
(* its offset is FOREVER.                                                    *)
TimersAlive ==
  mainPc # "initialize" =>
    \A tm \in Timers :
      tm.period > 0 /\ tm.offset < Forever =>
        \/ \E t \in Times : tm \in timerEvents[t]
        \/ current_tag.time + tm.period > stop_tag.time
        \/ current_tag.time + tm.period >= Forever

(* worker_thread_count++ hands out numbers that index the scheduler's        *)
(* tables: they differ and are below the number of workers, although workers *)
(* that exit count down.                                                     *)
WorkerNumbersUnique ==
  \A w, u \in Workers :
    pc[w] \notin {"unborn", "start", "gone"} /\ pc[u] \notin {"unborn", "start", "gone"} =>
      /\ number[w] < Cardinality(Workers)
      /\ number[w] = number[u] => w = u

WorkersConsistent == TypeOK /\ OneAdvances /\ WorkerNumbersUnique

(* The runtime implements LogicalExecution.                                  *)
Logical == INSTANCE LogicalExecution
  WITH tag <- current_tag, stop <- stop_tag, shutdown <- (shutdowns > 0), ended <- should_stop
ImplementsLogicalExecution == Logical!Spec

(* "Request a stop to execution as soon as possible [...] this will occur at *)
(* the conclusion of the current logical time": a stop requested while a     *)
(* worker waits for a later event ends the program though physical time does *)
(* not advance.  True if no timer fires early, false otherwise.              *)
StopRequestEnds ==
  (mainPc = "join" /\ stop_tag.time = current_tag.time) ~> mainPc = "done"

(* A program with a timeout, or without keepalive, ends once physical time    *)
(* has passed its last event.                                                *)
ProgramEnds ==
  (now = Forever - 1 /\ (options.duration < Forever \/ ~options.keepalive)) ~> mainPc = "done"
=============================================================================
