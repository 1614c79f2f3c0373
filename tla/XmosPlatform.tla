---------------------------- MODULE XmosPlatform ----------------------------
(***************************************************************************)
(* The threads of XmosThread at work: main initializes the clock, creates  *)
(* the workers with the mutex held and joins them (lf_reactor_c_main); a   *)
(* worker uses the mutex of XmosMutex, step by step, and the clock of      *)
(* XmosClock, in any order, and ends without the mutex (worker).           *)
(***************************************************************************)
EXTENDS XmosThread, XmosMutex, XmosClock

ASSUME PlatformAssumption ==
  Threads = {h \in Hardware : h < NumThreads} /\ Callers = Hardware

VARIABLE entered   \* the workers that have locked the mutex once: it is the
                   \* first thing a worker does

mutexVars == <<hwLock, owner, level, pc, depth>>
allVars == <<threadVars, mutexVars, clockVars, entered>>

PlatformInit == ThreadInit /\ Init /\ ClockInit /\ entered = {}

(* Between two calls of the platform. *)
Between(h) == cpc[h] = "out" /\ (h \in Threads => pc[h] = "caller")

(* Main holds the mutex from before the first to after the last creation.    *)
MainHolds == Between(0) /\ depth[0] > 0
MainFree == Between(0) /\ depth[0] = 0

Create ==
  /\ MainHolds /\ calls > 0
  /\ ChooseEntry \/ StartThread \/ RecordThread
  /\ UNCHANGED <<mutexVars, clockVars, entered>>

JoinWorker == MainFree /\ Join /\ UNCHANGED <<mutexVars, clockVars, entered>>

(* initialize() reads the clock, between lf_mutex_lock and start_threads.    *)
MainReadsClock ==
  /\ cpc[0] # "out" \/ (MainHolds /\ mainAt = "create" /\ i = 0 /\ calls = 0)
  /\ GetTimeStep(0)
  /\ UNCHANGED <<threadVars, mutexVars, entered>>

MainUsesMutex ==
  /\ \/ mainAt = "create" /\ depth[0] = 0 /\ LockStep(0)
     \/ mainAt = "join" /\ UnlockStep(0)
  /\ UNCHANGED <<threadVars, clockVars, entered>>

-----------------------------------------------------------------------------
Begins(h) == ThreadFunction(h) /\ UNCHANGED <<mutexVars, clockVars, entered>>

WorkerUsesMutex(h) ==
  /\ hw[h] = "running" /\ cpc[h] = "out"
  /\ LockStep(h) \/ UnlockStep(h)
  /\ entered' = IF depth'[h] > 0 THEN entered \cup {h} ELSE entered
  /\ UNCHANGED <<threadVars, clockVars>>

WorkerReadsClock(h) ==
  /\ h \in entered /\ pc[h] = "caller"
  /\ GetTimeStep(h)
  /\ UNCHANGED <<threadVars, mutexVars, entered>>

WorkerEnds(h) ==
  /\ h \in entered /\ Between(h) /\ depth[h] = 0
  /\ ThreadEnds(h)
  /\ UNCHANGED <<mutexVars, clockVars, entered>>

(* lf_mutex_lock, called by a thread that get_tid does not accept. *)
WorkerTraps(h) == GetTidFails(h) /\ UNCHANGED <<mutexVars, clockVars, entered>>

Worker(h) ==
  \/ Begins(h) \/ WorkerReadsClock(h) \/ WorkerEnds(h) \/ WorkerTraps(h)
  \/ h \in Threads /\ WorkerUsesMutex(h)

(* The program ends, traps, or goes on in a way that the code does not tell. *)
Over == mainAt \in {"joined", "noEntry", "badJoin"} \/ \E h \in Hardware : hw[h] = "wild"

PlatformNext ==
  \/ /\ ~Over
     /\ \/ Create \/ JoinWorker \/ MainReadsClock \/ MainUsesMutex
        \/ \E h \in Hardware \ {0} : Worker(h)
        \/ Tick /\ UNCHANGED <<threadVars, mutexVars, entered>>
  \/ /\ Over \/ \E h \in Hardware : hw[h] = "trapped"
     /\ UNCHANGED allVars

PlatformSpec == PlatformInit /\ [][PlatformNext]_allVars

(* A hardware thread that can run does run; which waiting thread gets the    *)
(* hardware lock is not specified.  Of the workers only this is assumed: a   *)
(* section ends, each of its unlocks is eventually called.                   *)
InCall(h) ==
  \/ pc[h] # "caller" /\ WorkerUsesMutex(h)
  \/ cpc[h] # "out" /\ WorkerReadsClock(h)

UnlockFrom(h, d) == depth[h] = d /\ pc[h] = "caller" /\ WorkerUsesMutex(h) /\ depth'[h] < d

FairSpec ==
  /\ PlatformSpec
  /\ WF_allVars(~Over /\ (Create \/ MainReadsClock \/ MainUsesMutex))
  /\ \A h \in Threads \ {0} :
       WF_allVars(~Over /\ InCall(h)) /\ \A d \in 1..MaxDepth : SF_allVars(~Over /\ UnlockFrom(h, d))

-----------------------------------------------------------------------------
(* While some thread waits in lock_acquire, one of the waiting threads gets  *)
(* in, whatever the holder does inside, unless main traps in its section or  *)
(* a thread has lost its function: no unlock leaves the hardware lock taken. *)
SomeWaiterEnters ==
  (\E t \in Threads : pc[t] = "acquire")
    ~> (Over \/ \E t \in Threads : pc[t] = "setOwner")
=============================================================================
