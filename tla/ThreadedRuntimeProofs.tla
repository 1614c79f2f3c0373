------------------------ MODULE ThreadedRuntimeProofs ------------------------
(***************************************************************************)
(* For every set of workers, every timer set, timeout and option: the tag  *)
(* and the stop tag of reactor_threaded.c behave as LogicalExecution says. *)
(***************************************************************************)
EXTENDS ThreadedRuntime, TagsProofs, FiniteSetTheorems

-----------------------------------------------------------------------------
(* The event queue *)

(* The types of the tags and of the queue.                                   *)
TagTypes ==
  /\ current_tag \in Tag /\ stop_tag \in Tag
  /\ timerEvents \in [Times -> SUBSET Timers]
  /\ actionEvents \in [Times -> Nat]

(* FOREVER_TAG is a tag of the model.                                         *)
LEMMA ForeverTagType == ForeverTag \in Tag /\ ForeverTag.time = Forever
BY CommonAssumption, TagOfType DEF ForeverTag

(* pqueue_peek returns an event of the queue and none is earlier.            *)
LEMMA HeadIsEarliest ==
  ASSUME EventTimes # {}
  PROVE  HeadTime \in EventTimes /\ \A u \in EventTimes : HeadTime <= u
<1>1. EventTimes \in SUBSET Nat
  BY CommonAssumption DEF EventTimes, Times
<1> QED
  BY <1>1, LeastNatural DEF HeadTime

(* _lf_schedule: one event more, not in the past.                            *)
LEMMA ScheduleFacts ==
  ASSUME TagTypes, NEW t \in Times, ScheduleAction(t)
  PROVE  /\ timerEvents' = timerEvents /\ actionEvents' \in [Times -> Nat]
         /\ t \in Nat /\ t >= current_tag.time
         /\ EventTimes' \subseteq EventTimes \cup {t}
<1>1. timerEvents' = timerEvents /\ t \in Nat /\ t >= current_tag.time
  BY CommonAssumption DEF ScheduleAction, TagTypes, Tag
<1>2. PICK n \in {1, actionEvents[t] + 1} :
        actionEvents' = [actionEvents EXCEPT ![t] = IF n > @ THEN n ELSE @]
  BY DEF ScheduleAction
<1>3. n \in Nat /\ actionEvents' \in [Times -> Nat]
  BY <1>2 DEF TagTypes
<1>4. \A u \in Times : u # t => actionEvents'[u] = actionEvents[u]
  BY <1>2 DEF TagTypes
<1>5. EventTimes' \subseteq EventTimes \cup {t}
  BY <1>1, <1>4 DEF EventTimes
<1> QED
  BY <1>1, <1>3, <1>5

(* _lf_pop_events at a time up to the first event leaves none before it.     *)
LEMMA PopFacts ==
  ASSUME TagTypes, NEW t \in Times, PopEvents(t), \A u \in EventTimes : t <= u
  PROVE  /\ timerEvents' \in [Times -> SUBSET Timers] /\ actionEvents' \in [Times -> Nat]
         /\ \A u \in EventTimes' : u >= t
<1>1. timerEvents' \in [Times -> SUBSET Timers] /\ actionEvents' \in [Times -> Nat]
  BY CommonAssumption DEF PopEvents, TagTypes
<1>2. ASSUME NEW u \in EventTimes'
      PROVE  u >= t
  <2>1. u \in Times /\ u \in Nat /\ t \in Nat
    BY CommonAssumption DEF EventTimes, Times
  <2>2. CASE u \in EventTimes
    BY <2>1, <2>2
  <2>3. CASE u \notin EventTimes
    <3>1. timerEvents[u] = {} /\ ~ (actionEvents[u] > 0)
      BY <2>1, <2>3 DEF EventTimes
    <3>2. ~ (actionEvents'[u] > 0)
      BY <2>1, <3>1 DEF PopEvents, TagTypes
    <3>3. timerEvents'[u] # {}
      BY <2>1, <3>2 DEF EventTimes
    <3>4. PICK tm \in timerEvents[t] : u = t + tm.period /\ tm.period > 0
      BY <2>1, <3>1, <3>3 DEF PopEvents
    <3>5. tm.period \in Nat
      BY <2>1, <3>4, CommonAssumption DEF TagTypes
    <3> QED
      BY <2>1, <3>4, <3>5
  <2> QED
    BY <2>2, <2>3
<1> QED
  BY <1>1, <1>2

-----------------------------------------------------------------------------
(* The inductive invariant of the tags.  `shutdowns' is tied to the tags     *)
(* from the moment main has initialised the start tag; the stop tag stays    *)
(* below FOREVER_TAG, so that an empty queue never yields a tag before it.   *)
TagInv ==
  /\ TagLeq(current_tag, stop_tag)
  /\ TagLeq(stop_tag, ForeverTag)

ShutdownInv ==
  shutdowns = IF mainPc # "initialize" /\ current_tag = stop_tag THEN 1 ELSE 0

StartInv ==
  mainPc = "initialize" =>
    /\ current_tag = TagOf(0, 0)
    /\ \A w \in Workers : pc[w] = "unborn"

LInv == TagTypes /\ TagInv /\ NoEventPassed /\ ShutdownInv /\ StartInv

(* get_next_event_tag: a tag up to the stop tag, not later than any event    *)
(* and later than the current tag; at the stop tag, the stop tag itself.     *)
LEMMA NextTagFacts ==
  ASSUME TagTypes, TagInv, NoEventPassed,
         NEW s \in Tag, TagLeq(current_tag, s), TagLeq(s, ForeverTag)
  PROVE  LET next == NextEventTag(s)
         IN  /\ next \in Tag /\ next.time \in Times
             /\ TagLeq(next, s)
             /\ current_tag.time <= next.time
             /\ \A t \in EventTimes : next.time <= t
             /\ TagLess(current_tag, s) => TagLess(current_tag, next)
             /\ current_tag = s => next = s
<1> DEFINE e == IF EventTimes = {} THEN ForeverTag ELSE EventTag(HeadTime)
           next == NextEventTag(s)
<1>1. e \in Tag /\ (\A t \in EventTimes : e.time <= t)
  <2>1. CASE EventTimes = {}
    BY <2>1, ForeverTagType
  <2>2. CASE EventTimes # {}
    <3>1. HeadTime \in Nat /\ \A t \in EventTimes : HeadTime <= t
      BY <2>2, HeadIsEarliest, CommonAssumption DEF EventTimes, Times
    <3>2. EventTag(HeadTime) \in Tag /\ EventTag(HeadTime).time = HeadTime
      BY <3>1, TagOfType DEF EventTag, TagTypes, Tag
    <3> QED
      BY <2>2, <3>1, <3>2
  <2> QED
    BY <2>1, <2>2
<1>2. TagLess(current_tag, e) \/ (e = ForeverTag /\ TagLeq(current_tag, e))
  <2>1. CASE EventTimes = {}
    BY <2>1, TagTransitive, ForeverTagType DEF TagInv, TagTypes
  <2>2. CASE EventTimes # {}
    <3>1. HeadTime \in Nat /\ HeadTime >= current_tag.time
      BY <2>2, HeadIsEarliest, CommonAssumption DEF EventTimes, Times, NoEventPassed
    <3> QED
      BY <2>2, <3>1 DEF EventTag, TagOf, TagLess, TagTypes, Tag
  <2> QED
    BY <2>1, <2>2
<1>3. next = TagMin(e, s)
  BY DEF NextEventTag
<1>4. next \in {e, s} /\ TagLeq(next, e) /\ TagLeq(next, s) /\ next \in Tag
  BY <1>1, <1>3, TagMinimum
<1>5. next.time \in Times
  <2>1. next.time <= s.time /\ s.time <= Forever
    BY <1>4, TagOrder, ForeverTagType
  <2> QED
    BY <2>1, <1>4, CommonAssumption DEF Tag, Times
<1>6. current_tag.time <= next.time
  <2>1. TagLeq(current_tag, next)
    BY <1>2, <1>4 DEF TagLeq
  <2> QED
    BY <2>1, <1>4, TagOrder DEF TagTypes
<1>7. \A t \in EventTimes : next.time <= t
  <2>1. next.time <= e.time
    BY <1>1, <1>4, TagOrder
  <2>2. EventTimes \subseteq Nat /\ e.time \in Nat /\ next.time \in Nat
    BY <1>1, <1>4, CommonAssumption DEF EventTimes, Times, Tag
  <2> QED
    BY <1>1, <2>1, <2>2
<1>8. TagLess(current_tag, s) => TagLess(current_tag, next)
  BY <1>2, <1>4, TagTransitive, ForeverTagType DEF TagTypes
<1>9. current_tag = s => next = s
  BY <1>1, <1>2, <1>3, <1>4, TagOrder, ForeverTagType DEF TagTypes, TagMin, TagLeq
<1> QED
  BY <1>4, <1>5, <1>6, <1>7, <1>8, <1>9

-----------------------------------------------------------------------------
(* The steps *)

(* What a step that leaves the queue, the tags and main alone preserves.     *)
LEMMA Silent ==
  ASSUME LInv, UNCHANGED <<tags, eventQ, mainPc>>,
         mainPc # "initialize" \/ UNCHANGED pc
  PROVE  LInv'
BY DEF LInv, TagTypes, TagInv, NoEventPassed, ShutdownInv, StartInv, EventTimes, tags, eventQ

(* A worker that has been started shows that main is past the start tag.     *)
LEMMA Started ==
  ASSUME LInv, NEW w \in Workers, pc[w] # "unborn"
  PROVE  mainPc # "initialize"
BY DEF LInv, StartInv

(* Lowering the stop tag, on request or by starvation, keeps the invariant.  *)
LEMMA StopLowered ==
  ASSUME LInv, mainPc # "initialize", StopAtNextMicrostep,
         UNCHANGED <<current_tag, shutdowns, eventQ, mainPc>>
  PROVE  /\ LInv'
         /\ stop_tag' = stop_tag
              \/ (TagLess(current_tag, stop_tag') /\ TagLess(stop_tag', stop_tag))
<1> USE DEF LInv
<1>1. CASE current_tag = stop_tag
  <2>1. stop_tag' = stop_tag
    BY <1>1, StopStays DEF StopAtNextMicrostep, NextMicrostep, TagTypes
  <2> QED
    BY <2>1 DEF TagTypes, TagInv, NoEventPassed, ShutdownInv, StartInv, EventTimes, eventQ
<1>2. CASE current_tag # stop_tag
  <2>1. TagLess(current_tag, stop_tag)
    BY <1>2 DEF TagInv, TagLeq
  <2>2. stop_tag' \in Tag /\ TagLess(current_tag, stop_tag') /\ TagLeq(stop_tag', stop_tag)
    BY <2>1, LoweredStop DEF StopAtNextMicrostep, NextMicrostep, TagTypes
  <2>3. TagLeq(stop_tag', ForeverTag)
    BY <2>2, TagTransitive, ForeverTagType DEF TagTypes, TagInv
  <2>4. current_tag # stop_tag'
    BY <2>2, TagOrder DEF TagTypes
  <2>5. LInv'
    BY <1>2, <2>2, <2>3, <2>4 DEF TagTypes, TagInv, TagLeq, NoEventPassed, ShutdownInv, StartInv,
                                  EventTimes, eventQ
  <2> QED
    BY <2>2, <2>5 DEF TagLeq
<1> QED
  BY <1>1, <1>2

(* The end of _lf_next_locked: nothing at the stop tag; before it, a later   *)
(* tag that is not after the stop tag, the events of its time popped.        *)
LEMMA CommitFacts ==
  ASSUME LInv, NEW w \in Workers, Commit(w)
  PROVE  /\ UNCHANGED <<stop_tag, mainPc, should_stop>>
         /\ mainPc # "initialize"
         /\ \/ UNCHANGED <<current_tag, shutdowns, eventQ>>
            \/ \E t \in Times :
                 /\ TagLess(current_tag, current_tag') /\ TagLeq(current_tag', stop_tag)
                 /\ current_tag' \in Tag /\ current_tag'.time = t
                 /\ shutdowns' = IF current_tag' = stop_tag THEN 1 ELSE 0
                 /\ PopEvents(t)
                 /\ \A u \in EventTimes : t <= u
<1> DEFINE next == NextEventTag(stop_tag)
<1> USE DEF LInv
<1>1. UNCHANGED <<stop_tag, mainPc, should_stop>> /\ pc[w] = "commit"
  BY DEF Commit, Goto, threads
<1>2. mainPc # "initialize"
  BY <1>1, Started
<1>3. CASE current_tag = stop_tag
  <2>1. AtStopTag /\ ~TagLess(next, stop_tag)
    BY <1>3, NextTagFacts, TagOrder DEF AtStopTag, TagTypes, TagInv
  <2>2. UNCHANGED <<current_tag, shutdowns, eventQ>>
    BY <2>1 DEF Commit
  <2> QED
    BY <1>1, <1>2, <2>2
<1>4. CASE current_tag # stop_tag
  <2>1. TagLess(current_tag, stop_tag) /\ shutdowns = 0
    BY <1>4 DEF TagInv, TagLeq, ShutdownInv
  <2>2. /\ next \in Tag /\ next.time \in Times /\ current_tag.time <= next.time
        /\ TagLeq(next, stop_tag)
        /\ \A u \in EventTimes : next.time <= u
    BY NextTagFacts DEF TagTypes, TagInv
  <2>3. /\ current_tag' = AdvancedTag(next.time)
        /\ PopEvents(next.time)
        /\ shutdowns' = IF TagLess(current_tag', stop_tag) THEN shutdowns ELSE shutdowns + 1
    BY <2>1 DEF Commit, AtStopTag
  <2>4. /\ current_tag' \in Tag /\ current_tag'.time = next.time
        /\ TagLess(current_tag, current_tag') /\ TagLeq(current_tag', stop_tag)
    <3>1. next.time \in Nat /\ next.time <= stop_tag.time
      BY <2>2, TagOrder DEF TagTypes, Tag
    <3> QED
      BY <2>1, <2>2, <2>3, <3>1, AdvanceFacts DEF AdvancedTag, NextMicrostep, TagTypes
  <2>5. TagLess(current_tag', stop_tag) <=> current_tag' # stop_tag
    BY <2>4, TagOrder DEF TagTypes, TagLeq
  <2>6. shutdowns' = IF current_tag' = stop_tag THEN 1 ELSE 0
    BY <2>1, <2>3, <2>5
  <2> QED
    BY <1>1, <1>2, <2>2, <2>3, <2>4, <2>6
<1> QED
  BY <1>3, <1>4

(* initialize() establishes the invariant.                                   *)
LEMMA InitInv == Init => LInv
<1> SUFFICES ASSUME Init PROVE LInv
  OBVIOUS
<1>1. TagTypes
  BY CommonAssumption, TagOfType, ForeverTagType DEF Init, CommonInit, TagTypes
<1>2. TagInv
  BY CommonAssumption DEF Init, CommonInit, TagInv, TagLeq, TagLess, TagOf, ForeverTag
<1>3. EventTimes = {}
  BY DEF Init, CommonInit, EventTimes
<1> QED
  BY <1>1, <1>2, <1>3 DEF Init, CommonInit, LInv, NoEventPassed, ShutdownInv, StartInv

(* _lf_initialize_start_tag keeps it: the shutdown reactions are triggered   *)
(* there if, and only if, the start tag is the stop tag.                     *)
LEMMA StartTagInv ==
  ASSUME LInv, InitializeStartTag
  PROVE  /\ LInv'
         /\ shutdowns = 0
         /\ shutdowns' = IF current_tag = stop_tag THEN 1 ELSE 0
<1> USE DEF LInv, InitializeStartTag, InitializeTimers
<1>1. shutdowns = 0 /\ current_tag = TagOf(0, 0)
  BY DEF ShutdownInv, StartInv
<1>2. AtStopTag <=> current_tag = stop_tag
  BY TagOrder DEF AtStopTag, TagTypes, TagInv, TagLeq
<1>3. shutdowns' = IF current_tag = stop_tag THEN 1 ELSE 0
  BY <1>1, <1>2
<1>4. TagTypes' /\ TagInv'
  BY DEF TagTypes, TagInv
<1>5. NoEventPassed'
  BY <1>1 DEF NoEventPassed, EventTimes, Times, TagOf
<1> QED
  BY <1>1, <1>3, <1>4, <1>5 DEF ShutdownInv, StartInv

(* An accepted action event is not in the past.                              *)
LEMMA ScheduleInv ==
  ASSUME LInv, NEW w \in Workers, NEW t \in Times, ReactionSchedules(w, t)
  PROVE  LInv'
<1> USE DEF LInv
<1>1. mainPc # "initialize" /\ UNCHANGED <<tags, mainPc>> /\ ScheduleAction(t)
  BY Started DEF ReactionSchedules, threads
<1> QED
  BY <1>1, ScheduleFacts DEF TagTypes, TagInv, NoEventPassed, ShutdownInv, StartInv, tags

(* The commit keeps it: what is popped at a time leaves no earlier event.    *)
LEMMA CommitInv ==
  ASSUME LInv, NEW w \in Workers, Commit(w)
  PROVE  LInv'
<1>1. CASE UNCHANGED <<current_tag, shutdowns, eventQ>>
  BY <1>1, CommitFacts, Silent DEF tags
<1>2. CASE ~ UNCHANGED <<current_tag, shutdowns, eventQ>>
  <2> USE DEF LInv
  <2>1. PICK t \in Times :
          /\ TagLess(current_tag, current_tag') /\ TagLeq(current_tag', stop_tag)
          /\ current_tag' \in Tag /\ current_tag'.time = t
          /\ shutdowns' = IF current_tag' = stop_tag THEN 1 ELSE 0
          /\ PopEvents(t)
          /\ \A u \in EventTimes : t <= u
    BY <1>2, CommitFacts
  <2>2. UNCHANGED <<stop_tag, mainPc>> /\ mainPc # "initialize"
    BY CommitFacts
  <2>3. /\ timerEvents' \in [Times -> SUBSET Timers] /\ actionEvents' \in [Times -> Nat]
        /\ NoEventPassed'
    BY <2>1, PopFacts DEF NoEventPassed
  <2> QED
    BY <2>1, <2>2, <2>3 DEF TagTypes, TagInv, ShutdownInv, StartInv
<1> QED
  BY <1>1, <1>2

(* The steps of a worker that touch neither the tags nor the queue.          *)
QuietStep(w) ==
  \/ WorkerStarts(w) \/ WorkerExits(w) \/ GetReady(w) \/ BecomeIdle(w)
  \/ Distribute(w) \/ LockToAdvance(w) \/ SkipWait(w) \/ Wait(w)
  \/ WakeBySignal(w) \/ WakeSpuriously(w) \/ WakeByTimer(w) \/ Interrupted(w)
  \/ TimedOut(w) \/ AfterNext(w) \/ ReactionTriggers(w) \/ ReactionDone(w)

LEMMA QuietStepFacts ==
  ASSUME LInv, NEW w \in Workers, QuietStep(w)
  PROVE  /\ UNCHANGED <<tags, eventQ, mainPc, should_stop>>
         /\ mainPc # "initialize"
<1>1. UNCHANGED <<tags, eventQ, mainPc, should_stop>> /\ pc[w] # "unborn"
  BY DEF QuietStep, Goto, tags, eventQ, threads, sched, WorkerStarts, WorkerExits, GetReady,
         BecomeIdle, Distribute, LockToAdvance, SkipWait, Wait, WakeBySignal, WakeSpuriously,
         WakeByTimer, Interrupted, TimedOut, AfterNext, ReactionTriggers, ReactionDone
<1> QED
  BY <1>1, Started

(* The steps of Next, sorted by what they do to the tags.                    *)
LEMMA StepsOfNext ==
  ASSUME Next
  PROVE  \/ InitializeStartTag \/ MainUnlocks \/ MainJoins \/ OutsideRequestsStop \/ Tick
         \/ UNCHANGED vars
         \/ \E w \in Workers :
              \/ StartThread(w) \/ QuietStep(w)
              \/ SignalStop(w) \/ BeginNext(w) \/ Commit(w)
              \/ ReactionRequestsStop(w) \/ \E t \in Times : ReactionSchedules(w, t)
BY DEF Next, MainStep, SchedulerStep, NextStep, ReactionStep, Terminated, QuietStep

(* Every step of the runtime keeps the invariant.                            *)
LEMMA NextInv == LInv /\ [Next]_vars => LInv'
<1> SUFFICES ASSUME LInv, [Next]_vars PROVE LInv'
  OBVIOUS
<1>1. CASE InitializeStartTag
  BY <1>1, StartTagInv
<1>2. CASE MainUnlocks \/ MainJoins
  BY <1>2 DEF MainUnlocks, MainJoins, LInv, TagTypes, TagInv, NoEventPassed, ShutdownInv,
              StartInv, EventTimes, tags, eventQ
<1>3. CASE OutsideRequestsStop
  BY <1>3, StopLowered DEF OutsideRequestsStop, RequestStop, threads
<1>4. CASE Tick \/ UNCHANGED vars
  BY <1>4, Silent DEF Tick, vars, threads
<1>5. ASSUME NEW w \in Workers, StartThread(w)
      PROVE  LInv'
  BY <1>5, Silent DEF StartThread, threads
<1>6. ASSUME NEW w \in Workers, QuietStep(w)
      PROVE  LInv'
  BY <1>6, QuietStepFacts, Silent
<1>7. ASSUME NEW w \in Workers, SignalStop(w)
      PROVE  LInv'
  BY <1>7, Started, Silent DEF SignalStop, threads
<1>8. ASSUME NEW w \in Workers, BeginNext(w)
      PROVE  LInv'
  <2>1. mainPc # "initialize" /\ UNCHANGED <<current_tag, shutdowns, eventQ, mainPc>>
    BY <1>8, Started DEF BeginNext, Goto, threads
  <2>2. CASE StopAtNextMicrostep
    BY <2>1, <2>2, StopLowered
  <2>3. CASE UNCHANGED stop_tag
    BY <2>1, <2>3, Silent DEF tags
  <2> QED
    BY <1>8, <2>2, <2>3 DEF BeginNext
<1>9. ASSUME NEW w \in Workers, Commit(w)
      PROVE  LInv'
  BY <1>9, CommitInv
<1>10. ASSUME NEW w \in Workers, ReactionRequestsStop(w)
       PROVE  LInv'
  BY <1>10, Started, StopLowered DEF ReactionRequestsStop, RequestStop, threads
<1>11. ASSUME NEW w \in Workers, NEW t \in Times, ReactionSchedules(w, t)
       PROVE  LInv'
  BY <1>11, ScheduleInv
<1> QED
  BY StepsOfNext, <1>1, <1>2, <1>3, <1>4, <1>5, <1>6, <1>7, <1>8, <1>9, <1>10, <1>11

(* Every state the runtime reaches satisfies the invariant.                  *)
LEMMA InvHolds == Spec => []LInv
BY InitInv, NextInv, PTL DEF Spec

-----------------------------------------------------------------------------
(* The account of the workers.  A worker leads from the moment it is the     *)
(* last idle one until it hands out reactions again.                         *)
Leading(w) ==
  pc[w] \in {"last", "blocked", "signalled", "timeout"} \/ Advancing(w)

AtRest == {w \in Workers : pc[w] = "idle" \/ Leading(w)}

Counted == {w \in Workers : pc[w] \notin {"unborn", "start", "gone"}}

(* The mutex is main's until all threads are created, then the one worker's  *)
(* that is inside _lf_next_locked.                                           *)
MutexInv ==
  /\ \A w \in Workers : Advancing(w) <=> mutex = w
  /\ mutex = Main <=> mainPc \in {"initialize", "threads"}

MainInv ==
  \A w \in Workers :
    /\ mainPc \in {"initialize", "threads"} => pc[w] \in {"unborn", "start"}
    /\ mainPc \notin {"initialize", "threads"} => pc[w] # "unborn"

(* While a worker leads, all others are idle, no reaction waits to be taken, *)
(* and from its test of the queue of reactions to the commit that queue is   *)
(* empty.                                                                    *)
LeaderInv ==
  \A w \in Workers :
    /\ Leading(w) => ready = 0 /\ \A u \in Workers \ {w} : pc[u] = "idle"
    /\ pc[w] \in {"tag", "wait", "blocked", "signalled", "timeout", "commit"} => queued = 0

(* The scheduler's counter is the number of those at rest. *)
IdleInv == idle = Cardinality(AtRest)

(* All workers leave together, at the stop tag, with nothing to execute.     *)
EndInv ==
  /\ \A w \in Workers : pc[w] \in {"exit", "gone"} <=> should_stop
  /\ should_stop =>
       /\ mainPc \in {"join", "done"}
       /\ current_tag = stop_tag /\ queued = 0 /\ ready = 0

(* The numbers are below the counter until the first worker has left; after  *)
(* that none is handed out.                                                  *)
NumberInv ==
  /\ worker_thread_count = Cardinality(Counted)
  /\ \A w \in Workers :
       pc[w] \notin {"unborn", "start"} =>
         /\ number[w] < Cardinality(Workers)
         /\ ~should_stop => number[w] < worker_thread_count
         /\ \A u \in Workers :
              pc[u] \notin {"unborn", "start"} /\ number[w] = number[u] => w = u

(* The next tag is not after the time that is waited for, and that time has  *)
(* come when the wait is over: nothing is scheduled during the wait, and a   *)
(* stop request only moves the next tag to an earlier time.                  *)
TargetInv ==
  \A w \in Workers :
    /\ pc[w] \in {"wait", "blocked", "timeout", "commit"} =>
         NextEventTag(stop_tag).time <= target[w]
    /\ pc[w] = "commit" => Due(target[w])

(* The whole of it, with the two properties that need it.                    *)
WInv ==
  /\ TypeOK /\ MutexInv /\ MainInv /\ LeaderInv /\ IdleInv /\ EndInv /\ NumberInv
  /\ TargetInv /\ NotAhead /\ TimersAlive

-----------------------------------------------------------------------------
(* The steps keep the account *)

(* Where main and the workers are, and whose the mutex is.                   *)
LocInv == MutexInv /\ MainInv /\ LeaderInv /\ EndInv

(* A worker that finds all others idle finds none that leads: it is the last *)
(* one, and every other worker is asleep.                                    *)
LEMMA LastIdle ==
  ASSUME WInv, NEW w \in Workers, BecomeIdle(w), idle' = Cardinality(Workers)
  PROVE  \A u \in Workers \ {w} : pc[u] = "idle"
<1> DEFINE R == AtRest \cup {w}
<1>1. pc[w] = "get" /\ idle + 1 = Cardinality(Workers)
  BY DEF BecomeIdle, Goto
<1>2. w \notin AtRest
  BY <1>1 DEF AtRest, Leading, Advancing
<1>3. IsFiniteSet(AtRest) /\ IsFiniteSet(R) /\ Cardinality(R) = Cardinality(Workers)
  BY <1>1, <1>2, FS_Subset, FS_AddElement, RuntimeAssumption DEF AtRest, WInv, IdleInv
<1>4. R = Workers
  BY <1>3, FS_Subset, RuntimeAssumption DEF AtRest
<1>5. ASSUME NEW u \in Workers \ {w} PROVE pc[u] = "idle"
  <2>1. u \in AtRest
    BY <1>4
  <2>2. ~Leading(u)
    BY <1>1 DEF WInv, LeaderInv
  <2> QED
    BY <2>1, <2>2 DEF AtRest
<1> QED
  BY <1>5

(* Every step keeps the account of where main and the workers are: who has   *)
(* the mutex, who leads, and that nothing is left when the threads end.      *)
LEMMA LocStep ==
  ASSUME LInv, WInv, Next
  PROVE  LocInv'
<1> USE RuntimeAssumption DEF LocInv, MutexInv, MainInv, LeaderInv, EndInv, Leading, Advancing,
Goto, Nobody, Main
<1>0. /\ LocInv /\ pc \in [Workers -> WorkerLocations] /\ mutex \in Workers \cup {Nobody, Main}
      /\ mainPc \in {"initialize", "threads", "join", "done"}
  BY DEF WInv, TypeOK
<1>1. CASE InitializeStartTag
  BY <1>0, <1>1 DEF InitializeStartTag
<1>2. ASSUME NEW w \in Workers, StartThread(w) PROVE LocInv'
  BY <1>0, <1>2 DEF StartThread, sched, threads, tags
<1>3. CASE MainUnlocks
  BY <1>0, <1>3 DEF MainUnlocks, sched, tags
<1>4. CASE MainJoins
  BY <1>0, <1>4 DEF MainJoins, sched, tags
<1>5. CASE OutsideRequestsStop
  <2>1. current_tag # stop_tag
    BY <1>5, TagOrder DEF OutsideRequestsStop, RequestStop, AtStopTag, LInv, TagTypes, TagInv,
                          TagLeq
  <2> QED
    BY <1>0, <1>5, <2>1 DEF OutsideRequestsStop, RequestStop, sched, threads
<1>6. CASE Tick \/ Terminated
  BY <1>0, <1>6 DEF Tick, Terminated, vars, sched, tags, threads
<1>7. ASSUME NEW w \in Workers, WorkerStarts(w) \/ WorkerExits(w) PROVE LocInv'
  BY <1>0, <1>7 DEF WorkerStarts, WorkerExits, sched, tags
<1>8. ASSUME NEW w \in Workers, GetReady(w) PROVE LocInv'
  BY <1>0, <1>8 DEF GetReady, tags, threads, TypeOK, WInv
<1>9. ASSUME NEW w \in Workers, BecomeIdle(w) PROVE LocInv'
  BY <1>0, <1>9, LastIdle DEF BecomeIdle, tags, threads
<1>10. ASSUME NEW w \in Workers, Distribute(w) PROVE LocInv'
  BY <1>0, <1>10 DEF Distribute, tags, threads
<1>11. ASSUME NEW w \in Workers, SignalStop(w) PROVE LocInv'
  <2>1. current_tag = stop_tag
    BY <1>11, TagOrder DEF SignalStop, AtStopTag, LInv, TagTypes, TagInv, TagLeq
  <2> QED
    BY <1>0, <1>11, <2>1 DEF SignalStop, tags, threads
<1>12. ASSUME NEW w \in Workers, LockToAdvance(w) PROVE LocInv'
  BY <1>0, <1>12 DEF LockToAdvance, tags, threads, sched
<1>13. ASSUME NEW w \in Workers, BeginNext(w) PROVE LocInv'
  BY <1>0, <1>13 DEF BeginNext, threads
<1>14. ASSUME NEW w \in Workers, SkipWait(w) PROVE LocInv'
  BY <1>0, <1>14 DEF SkipWait, threads, sched, tags
<1>15. ASSUME NEW w \in Workers, Wait(w) PROVE LocInv'
  BY <1>0, <1>15 DEF Wait, threads, sched, tags
<1>16. ASSUME NEW w \in Workers, WakeBySignal(w) \/ WakeSpuriously(w)
                                 \/ WakeByTimer(w) PROVE LocInv'
  BY <1>0, <1>16 DEF WakeBySignal, WakeSpuriously, WakeByTimer, threads, sched, tags
<1>17. ASSUME NEW w \in Workers, Interrupted(w) PROVE LocInv'
  BY <1>0, <1>17 DEF Interrupted, threads, sched, tags
<1>18. ASSUME NEW w \in Workers, TimedOut(w) PROVE LocInv'
  BY <1>0, <1>18 DEF TimedOut, threads, sched, tags
<1>19. ASSUME NEW w \in Workers, Commit(w) PROVE LocInv'
  BY <1>0, <1>19 DEF Commit, threads
<1>20. ASSUME NEW w \in Workers, AfterNext(w) PROVE LocInv'
  BY <1>0, <1>20 DEF AfterNext, threads, sched, tags
<1>21. ASSUME NEW w \in Workers, ReactionRequestsStop(w) PROVE LocInv'
  BY <1>0, <1>21 DEF ReactionRequestsStop, RequestStop, threads, sched
<1>22. ASSUME NEW w \in Workers, NEW t \in Times, ReactionSchedules(w, t) PROVE LocInv'
  BY <1>0, <1>22 DEF ReactionSchedules, threads, sched, tags
<1>23. ASSUME NEW w \in Workers, ReactionTriggers(w) PROVE LocInv'
  BY <1>0, <1>23 DEF ReactionTriggers, threads, tags
<1>24. ASSUME NEW w \in Workers, ReactionDone(w) PROVE LocInv'
  BY <1>0, <1>24 DEF ReactionDone, threads, tags, sched
<1> QED
  BY <1>1, <1>2, <1>3, <1>4, <1>5, <1>6, <1>7, <1>8, <1>9, <1>10, <1>11, <1>12, <1>13, <1>14,
       <1>15, <1>16, <1>17, <1>18, <1>19, <1>20, <1>21, <1>22, <1>23, <1>24 DEF Next, MainStep,
       SchedulerStep, NextStep, ReactionStep

(* Only the clock changes the physical time; nothing changes the options.    *)
LEMMA WorldUnchanged ==
  ASSUME Next, ~Tick
  PROVE  UNCHANGED world
BY StepsOfNext DEF InitializeStartTag, MainUnlocks, MainJoins, OutsideRequestsStop, RequestStop,
                   vars, StartThread, QuietStep, SignalStop, BeginNext, Commit,
                   ReactionRequestsStop, ReactionSchedules, WorkerStarts, WorkerExits, GetReady,
                   BecomeIdle, Distribute, LockToAdvance, SkipWait, Wait, WakeBySignal,
                   WakeSpuriously, WakeByTimer, Interrupted, TimedOut, AfterNext,
                   ReactionTriggers, ReactionDone

(* Every step keeps the types of what both runtimes share.                   *)
LEMMA WorldStep ==
  ASSUME LInv', CommonTypeOK, Next
  PROVE  CommonTypeOK'
<1>1. now' \in Times /\ options' \in Options
  <2>1. CASE Tick
    BY <2>1, CommonAssumption DEF Tick, CommonTypeOK, Times
  <2>2. CASE ~Tick
    BY <2>2, WorldUnchanged DEF world, CommonTypeOK
  <2> QED
    BY <2>1, <2>2
<1>2. scheduled' \in 0..MaxScheduled
  <2>1. ASSUME NEW w \in Workers, NEW t \in Times, ReactionSchedules(w, t)
        PROVE  scheduled' \in 0..MaxScheduled
    BY <2>1, CommonAssumption DEF ReactionSchedules, ScheduleAction, CommonTypeOK
  <2>2. CASE ~ \E w \in Workers, t \in Times : ReactionSchedules(w, t)
    <3>1. scheduled' = scheduled
      BY <2>2, StepsOfNext DEF InitializeStartTag, MainUnlocks, MainJoins, OutsideRequestsStop,
                               RequestStop, vars, StartThread, QuietStep, SignalStop, BeginNext,
                               Commit, ReactionRequestsStop, Tick, WorkerStarts, WorkerExits,
                               GetReady, BecomeIdle, Distribute, LockToAdvance, SkipWait, Wait,
                               WakeBySignal, WakeSpuriously, WakeByTimer, Interrupted, TimedOut,
                               AfterNext, ReactionTriggers, ReactionDone
    <3> QED
      BY <3>1 DEF CommonTypeOK
  <2> QED
    BY <2>1, <2>2
<1>3. shutdowns' \in Nat
  BY DEF LInv, ShutdownInv
<1> QED
  BY <1>1, <1>2, <1>3 DEF CommonTypeOK, LInv, TagTypes

(* The part of the types that the steps of the workers change.               *)
WorkerTypes ==
  /\ mutex \in Workers \cup {Nobody, Main}
  /\ changed \in BOOLEAN
  /\ number \in [Workers -> Nat]
  /\ pc \in [Workers -> WorkerLocations]
  /\ target \in [Workers -> Times]
  /\ mainPc \in {"initialize", "threads", "join", "done"}
  /\ queued \in 0..MaxReactions /\ ready \in 0..MaxReactions
  /\ should_stop \in BOOLEAN /\ tagCompleted \in BOOLEAN
  /\ levels \in 0..MaxLevels

(* Every step keeps the types of the threads and of the scheduler; a worker  *)
(* waits for a time below FOREVER or for FOREVER itself.                     *)
LEMMA WorkerTypesStep ==
  ASSUME LInv, LInv', TypeOK, Next
  PROVE  WorkerTypes'
<1> USE RuntimeAssumption DEF WorkerTypes, Goto, WorkerLocations
<1>0. WorkerTypes /\ worker_thread_count \in Nat
  BY DEF TypeOK
<1>1. CASE InitializeStartTag \/ MainUnlocks \/ MainJoins
  BY <1>0, <1>1 DEF InitializeStartTag, MainUnlocks, MainJoins, sched
<1>2. ASSUME NEW w \in Workers, StartThread(w) PROVE WorkerTypes'
  BY <1>0, <1>2 DEF StartThread, sched, threads
<1>3. CASE OutsideRequestsStop \/ Tick \/ Terminated
  BY <1>0, <1>3 DEF OutsideRequestsStop, RequestStop, SignalQueueChanged, Tick, Terminated, vars,
                    sched, threads
<1>5. ASSUME NEW w \in Workers, WorkerStarts(w) \/ WorkerExits(w) PROVE WorkerTypes'
  BY <1>0, <1>5 DEF WorkerStarts, WorkerExits, SignalQueueChanged, sched
<1>6. ASSUME NEW w \in Workers, SchedulerStep(w) PROVE WorkerTypes'
  <2>1. CASE GetReady(w)
    BY <1>0, <2>1 DEF GetReady, threads
  <2>2. CASE BecomeIdle(w)
    BY <1>0, <2>2 DEF BecomeIdle, threads
  <2>3. CASE Distribute(w)
    BY <1>0, <2>3 DEF Distribute, threads
  <2>4. CASE SignalStop(w)
    BY <1>0, <2>4 DEF SignalStop, threads
  <2> QED
    BY <1>6, <2>1, <2>2, <2>3, <2>4 DEF SchedulerStep
<1>7. ASSUME NEW w \in Workers, LockToAdvance(w) \/ SkipWait(w) \/ Wait(w)
                                \/ WakeBySignal(w) PROVE WorkerTypes'
  BY <1>0, <1>7 DEF LockToAdvance, SkipWait, Wait, WakeBySignal, threads, sched
<1>8. ASSUME NEW w \in Workers, TimedOut(w) \/ AfterNext(w) \/ WakeSpuriously(w)
                                \/ WakeByTimer(w) PROVE WorkerTypes'
  BY <1>0, <1>8 DEF TimedOut, AfterNext, WakeSpuriously, WakeByTimer, threads, sched
<1>9. ASSUME NEW w \in Workers, BeginNext(w) PROVE WorkerTypes'
  <2>1. NextEventTag(stop_tag').time \in Times
    BY <1>9, NextTagFacts DEF BeginNext, LInv, TagTypes, TagInv
  <2> QED
    BY <1>0, <1>9, <2>1 DEF BeginNext, threads
<1>10. ASSUME NEW w \in Workers, Interrupted(w) PROVE WorkerTypes'
  <2>1. NextEventTag(stop_tag).time \in Times
    BY <1>10, NextTagFacts DEF LInv, TagTypes, TagInv
  <2> QED
    BY <1>0, <1>10, <2>1 DEF Interrupted, threads, sched
<1>11. ASSUME NEW w \in Workers, Commit(w) PROVE WorkerTypes'
  BY <1>0, <1>11 DEF Commit, threads
<1>12. ASSUME NEW w \in Workers, ReactionRequestsStop(w) PROVE WorkerTypes'
  BY <1>0, <1>12 DEF ReactionRequestsStop, RequestStop, SignalQueueChanged, sched, threads
<1>13. ASSUME NEW w \in Workers, NEW t \in Times, ReactionSchedules(w, t) PROVE WorkerTypes'
  BY <1>0, <1>13 DEF ReactionSchedules, sched, threads
<1>14. ASSUME NEW w \in Workers, ReactionTriggers(w) \/ ReactionDone(w) PROVE WorkerTypes'
  BY <1>0, <1>14 DEF ReactionTriggers, ReactionDone, sched, threads
<1> QED
  BY <1>1, <1>2, <1>3, <1>5, <1>6, <1>7, <1>8, <1>9, <1>10, <1>11, <1>12, <1>13, <1>14
     DEF Next, MainStep, NextStep, ReactionStep

(* The initial values have their types.                                      *)
LEMMA TypesInit == Init => TypeOK
<1> SUFFICES ASSUME Init PROVE TypeOK
  OBVIOUS
<1>1. CommonTypeOK
  BY InitInv, CommonAssumption DEF Init, CommonInit, CommonTypeOK, LInv, TagTypes, Times
<1>2. idle \in 0..Cardinality(Workers)
  BY FS_CardinalityType, RuntimeAssumption DEF Init
<1>3. WorkerTypes
  <2>1. 0 \in Times
    BY CommonAssumption DEF Times
  <2>2. /\ pc \in [Workers -> WorkerLocations] /\ target \in [Workers -> Times]
        /\ number \in [Workers -> Nat]
    BY <2>1 DEF Init, WorkerLocations
  <2>3. queued \in 0..MaxReactions /\ ready \in 0..MaxReactions /\ levels \in 0..MaxLevels
    BY RuntimeAssumption DEF Init
  <2> QED
    BY <2>2, <2>3 DEF Init, WorkerTypes
<1> QED
  BY <1>1, <1>2, <1>3 DEF Init, TypeOK, WorkerTypes

(* The scheduler's counter stays the number of workers at rest: a worker     *)
(* that goes to sleep is counted once, those that are woken are taken off,   *)
(* and the end of the execution clears it.                                   *)
LEMMA IdleStep ==
  ASSUME LInv, WInv, LocInv', Next
  PROVE  IdleInv' /\ idle' \in 0..Cardinality(Workers)
<1> USE RuntimeAssumption DEF Leading, Advancing, Goto
<1>0. pc \in [Workers -> WorkerLocations] /\ idle = Cardinality(AtRest) /\ IsFiniteSet(AtRest)
  BY FS_Subset DEF WInv, TypeOK, IdleInv, AtRest
<1>1. ASSUME AtRest' = AtRest, idle' = idle PROVE IdleInv'
  BY <1>0, <1>1 DEF IdleInv
<1>2. ASSUME NEW w \in Workers, BecomeIdle(w) PROVE IdleInv'
  <2>1. w \notin AtRest /\ AtRest' = AtRest \cup {w}
    BY <1>0, <1>2 DEF BecomeIdle, AtRest
  <2> QED
    BY <1>0, <1>2, <2>1, FS_AddElement DEF BecomeIdle, IdleInv
<1>3. ASSUME NEW w \in Workers, Distribute(w) PROVE IdleInv'
  <2>1. PICK n \in 1..queued, awake \in SUBSET {u \in Workers : pc[u] = "idle"} :
          /\ idle' = idle - (Cardinality(awake) + 1)
          /\ pc' = [u \in Workers |-> IF u \in awake \cup {w} THEN "get" ELSE pc[u]]
    BY <1>3 DEF Distribute
  <2>2. w \notin awake /\ pc[w] = "last"
    BY <1>3 DEF Distribute
  <2>3. awake \cup {w} \subseteq AtRest /\ AtRest' = AtRest \ (awake \cup {w})
    BY <1>0, <2>1, <2>2 DEF AtRest
  <2>4. IsFiniteSet(awake) /\ Cardinality(awake \cup {w}) = Cardinality(awake) + 1
    BY <1>0, <2>2, <2>3, FS_Subset, FS_AddElement
  <2>5. Cardinality(AtRest') = Cardinality(AtRest) - Cardinality(awake \cup {w})
    <3>1. AtRest \cap (awake \cup {w}) = awake \cup {w}
      BY <2>3
    <3> QED
      BY <1>0, <2>3, <3>1, FS_Difference
  <2> QED
    BY <1>0, <2>1, <2>4, <2>5 DEF IdleInv
<1>4. ASSUME NEW w \in Workers, SignalStop(w) PROVE IdleInv'
  <2>1. AtRest' = {}
    BY <1>0, <1>4 DEF SignalStop, AtRest, WInv, LeaderInv
  <2> QED
    BY <1>4, <2>1, FS_EmptySet DEF SignalStop, IdleInv
<1>5. ASSUME NEW w \in Workers, QuietStep(w), ~BecomeIdle(w), ~Distribute(w) PROVE IdleInv'
  <2>1. idle' = idle
    BY <1>5 DEF QuietStep, WorkerStarts, WorkerExits, GetReady, LockToAdvance, SkipWait, Wait,
                WakeBySignal, WakeSpuriously, WakeByTimer, Interrupted, TimedOut, AfterNext,
                ReactionTriggers, ReactionDone, sched
  <2>2. AtRest' = AtRest
    BY <1>0, <1>5 DEF QuietStep, AtRest, WorkerStarts, WorkerExits, GetReady, LockToAdvance,
                      SkipWait, Wait, WakeBySignal, WakeSpuriously, WakeByTimer, Interrupted,
                      TimedOut, AfterNext, ReactionTriggers, ReactionDone, sched
  <2> QED
    BY <1>1, <2>1, <2>2
<1>6. ASSUME \/ InitializeStartTag \/ MainUnlocks \/ MainJoins
             \/ OutsideRequestsStop \/ Tick \/ UNCHANGED vars
      PROVE  IdleInv'
  <2>1. UNCHANGED <<pc, idle>>
    BY <1>6 DEF InitializeStartTag, MainUnlocks, MainJoins, OutsideRequestsStop, RequestStop,
                Tick, vars, sched
  <2> QED
    BY <1>1, <2>1 DEF AtRest
<1>7. ASSUME NEW w \in Workers, StartThread(w) \/ BeginNext(w) \/ Commit(w)
                                \/ ReactionRequestsStop(w)
                                \/ \E t \in Times : ReactionSchedules(w, t)
      PROVE IdleInv'
  <2>1. idle' = idle /\ AtRest' = AtRest
    BY <1>0, <1>7 DEF StartThread, BeginNext, Commit, ReactionRequestsStop, RequestStop,
                      ReactionSchedules, sched, AtRest
  <2> QED
    BY <1>1, <2>1
<1>8. IdleInv'
  BY StepsOfNext, <1>2, <1>3, <1>4, <1>5, <1>6, <1>7
<1>9. Cardinality(AtRest') \in 0..Cardinality(Workers)
  BY FS_Subset, FS_CardinalityType DEF AtRest
<1> QED
  BY <1>8, <1>9 DEF IdleInv
(* worker_thread_count stays the number of workers between worker's two      *)
(* critical sections, so that the next number handed out is a new one.       *)
LEMMA NumberStep ==
  ASSUME LInv, WInv, LocInv', Next
  PROVE  NumberInv' /\ worker_thread_count' \in Nat
<1> USE RuntimeAssumption DEF Goto
<1>0. /\ pc \in [Workers -> WorkerLocations] /\ number \in [Workers -> Nat] /\ NumberInv /\ EndInv
      /\ IsFiniteSet(Counted) /\ Cardinality(Counted) \in Nat
  BY FS_Subset, FS_CardinalityType DEF WInv, TypeOK, Counted
<1>1. ASSUME NEW w \in Workers, WorkerStarts(w) PROVE NumberInv'
  <2>1. pc[w] = "start" /\ ~should_stop /\ UNCHANGED should_stop
    BY <1>0, <1>1 DEF WorkerStarts, EndInv, sched
  <2>2. w \notin Counted /\ Counted' = Counted \cup {w}
    BY <1>0, <1>1 DEF WorkerStarts, Counted
  <2>3. Cardinality(Counted') = worker_thread_count + 1
    BY <1>0, <2>2, FS_AddElement DEF NumberInv
  <2>4. worker_thread_count < Cardinality(Workers)
    <3>1. Cardinality(Counted') <= Cardinality(Workers)
      BY FS_Subset DEF Counted
    <3> QED
      BY <1>0, <2>3, <3>1, FS_CardinalityType DEF NumberInv
  <2> QED
    BY <1>0, <1>1, <2>1, <2>3, <2>4 DEF WorkerStarts, NumberInv
<1>2. ASSUME NEW w \in Workers, WorkerExits(w) PROVE NumberInv'
  <2>1. pc[w] = "exit" /\ should_stop /\ UNCHANGED should_stop
    BY <1>0, <1>2 DEF WorkerExits, EndInv, sched
  <2>2. w \in Counted /\ Counted' = Counted \ {w}
    BY <1>0, <1>2 DEF WorkerExits, Counted
  <2>3. Cardinality(Counted') = worker_thread_count - 1
    BY <1>0, <2>2, FS_RemoveElement DEF NumberInv
  <2> QED
    BY <1>0, <1>2, <2>1, <2>3 DEF WorkerExits, NumberInv
<1>3. ASSUME UNCHANGED <<worker_thread_count, number>>, should_stop => should_stop',
             \A w \in Workers :
               /\ pc'[w] \in {"unborn", "start"} <=> pc[w] \in {"unborn", "start"}
               /\ pc'[w] = "gone" <=> pc[w] = "gone"
      PROVE NumberInv'
  <2>1. Counted' = Counted
    BY <1>3 DEF Counted
  <2> QED
    BY <1>0, <1>3, <2>1 DEF NumberInv
<1>4. ASSUME \/ InitializeStartTag \/ MainUnlocks \/ MainJoins
             \/ OutsideRequestsStop \/ Tick \/ UNCHANGED vars
      PROVE  NumberInv'
  <2>1. UNCHANGED <<worker_thread_count, number, should_stop, pc>>
    BY <1>4 DEF InitializeStartTag, MainUnlocks, MainJoins, OutsideRequestsStop, RequestStop,
                Tick, vars, sched, threads
  <2> QED
    BY <1>3, <2>1
<1>5. ASSUME NEW w \in Workers, QuietStep(w), ~WorkerStarts(w), ~WorkerExits(w) PROVE NumberInv'
  <2>1. UNCHANGED <<worker_thread_count, number, should_stop>>
    BY <1>5 DEF QuietStep, GetReady, BecomeIdle, Distribute, LockToAdvance, SkipWait, Wait,
                WakeBySignal, WakeSpuriously, WakeByTimer, Interrupted, TimedOut, AfterNext,
                ReactionTriggers, ReactionDone, sched, threads
  <2>2. \A u \in Workers : /\ pc'[u] \in {"unborn", "start"} <=> pc[u] \in {"unborn", "start"}
                           /\ pc'[u] = "gone" <=> pc[u] = "gone"
    BY <1>0, <1>5 DEF QuietStep, GetReady, BecomeIdle, Distribute, LockToAdvance, SkipWait, Wait,
                      WakeBySignal, WakeSpuriously, WakeByTimer, Interrupted, TimedOut, AfterNext,
                      ReactionTriggers, ReactionDone
  <2> QED
    BY <1>3, <2>1, <2>2
<1>6. ASSUME NEW w \in Workers, StartThread(w) \/ SignalStop(w) \/ BeginNext(w) \/ Commit(w)
                                \/ ReactionRequestsStop(w)
                                \/ \E t \in Times : ReactionSchedules(w, t)
      PROVE NumberInv'
  <2>1. UNCHANGED <<worker_thread_count, number>> /\ (should_stop => should_stop')
    BY <1>6 DEF StartThread, SignalStop, BeginNext, Commit, ReactionRequestsStop, RequestStop,
                ReactionSchedules, sched, threads
  <2>2. \A u \in Workers : /\ pc'[u] \in {"unborn", "start"} <=> pc[u] \in {"unborn", "start"}
                           /\ pc'[u] = "gone" <=> pc[u] = "gone"
    BY <1>0, <1>6 DEF StartThread, SignalStop, BeginNext, Commit, ReactionRequestsStop,
                      RequestStop, ReactionSchedules
  <2> QED
    BY <1>3, <2>1, <2>2
<1>7. NumberInv'
  BY StepsOfNext, <1>1, <1>2, <1>4, <1>5, <1>6
<1>8. Cardinality(Counted') \in Nat
  BY FS_Subset, FS_CardinalityType DEF Counted
<1> QED
  BY <1>7, <1>8 DEF NumberInv

(* The tag of the first event, or FOREVER_TAG, is a tag.                     *)
LEMMA FirstTagType ==
  ASSUME TagTypes
  PROVE  (IF EventTimes = {} THEN ForeverTag ELSE EventTag(HeadTime)) \in Tag
<1>1. CASE EventTimes = {}
  BY <1>1, ForeverTagType
<1>2. CASE EventTimes # {}
  <2>1. HeadTime \in Nat
    BY <1>2, HeadIsEarliest, CommonAssumption DEF EventTimes, Times
  <2> QED
    BY <1>2, <2>1, TagOfType DEF EventTag, TagTypes, Tag
<1> QED
  BY <1>1, <1>2

(* With an earlier stop tag the next tag is not later.                       *)
LEMMA EarlierStopEarlierNext ==
  ASSUME TagTypes, NEW s \in Tag, NEW r \in Tag, TagLeq(r, s)
  PROVE  NextEventTag(r).time <= NextEventTag(s).time
<1> DEFINE e == IF EventTimes = {} THEN ForeverTag ELSE EventTag(HeadTime)
<1>1. e \in Tag
  BY FirstTagType
<1>2. NextEventTag(r) = TagMin(e, r) /\ NextEventTag(s) = TagMin(e, s)
  BY DEF NextEventTag
<1> HIDE DEF e
<1>3. TagLeq(TagMin(e, r), TagMin(e, s))
  BY <1>1, TagMinimum, TagTransitive, TagOrder
<1>4. TagMin(e, r) \in Tag /\ TagMin(e, s) \in Tag
  BY <1>1, TagMinimum
<1> QED
  BY <1>2, <1>3, <1>4, TagOrder

(* A waiting worker keeps a target that is not before the next tag: while one *)
(* waits no other worker takes a step that could move the next tag, except   *)
(* by a stop request from outside, which moves it to an earlier time.        *)
LEMMA TargetStep ==
  ASSUME LInv, WInv, LInv', LocInv', Next
  PROVE  TargetInv'
<1> DEFINE Await == {"wait", "blocked", "timeout", "commit"}
<1> USE RuntimeAssumption DEF Goto
<1>0. /\ pc \in [Workers -> WorkerLocations] /\ target \in [Workers -> Times]
      /\ now \in Times /\ TargetInv /\ LocInv
  BY DEF WInv, TypeOK, CommonTypeOK, LocInv
<1>a. TagTypes /\ NextEventTag(stop_tag).time \in Nat /\ Times \subseteq Nat /\ MinSleep \in Nat
  <2>1. NextEventTag(stop_tag).time \in Times
    BY NextTagFacts DEF LInv, TagInv, TagTypes
  <2> QED
    BY <2>1, CommonAssumption DEF LInv, Times
<1>1. SUFFICES ASSUME NEW u \in Workers, pc'[u] \in Await
      PROVE /\ NextEventTag(stop_tag)'.time <= target'[u]
            /\ pc'[u] = "commit" => Due(target[u])'
  BY DEF TargetInv
<1>2. ASSUME UNCHANGED <<tags, eventQ>>
      PROVE  NextEventTag(stop_tag)' = NextEventTag(stop_tag)
  BY <1>2 DEF NextEventTag, EventTimes, HeadTime, EventTag, tags, eventQ
<1>3. CASE BeginNext(u)
  <2>1. /\ NextEventTag(stop_tag)' = NextEventTag(stop_tag')
    BY <1>3 DEF BeginNext, NextEventTag, EventTimes, HeadTime, EventTag, eventQ
  <2>2. NextEventTag(stop_tag').time \in Nat
    BY <1>0, <1>a, <2>1, NextTagFacts, <1>3 DEF LInv, TagTypes, TagInv, BeginNext
  <2> QED
    BY <1>0, <1>a, <1>3, <2>1, <2>2 DEF BeginNext
<1>4. CASE Interrupted(u)
  BY <1>0, <1>a, <1>2, <1>4 DEF Interrupted
<1>5. CASE SkipWait(u) \/ Wait(u) \/ WakeByTimer(u) \/ TimedOut(u)
  <2>1. UNCHANGED <<tags, eventQ, target, now, options>> /\ pc[u] \in Await
    BY <1>5 DEF SkipWait, Wait, WakeByTimer, TimedOut, world
  <2>2. pc'[u] = "commit" => Due(target[u])
    BY <1>0, <1>a, <1>5 DEF SkipWait, Wait, WakeByTimer, TimedOut, Due
  <2> QED
    BY <1>0, <1>a, <1>2, <2>1, <2>2 DEF TargetInv, Due
<1>6. ASSUME pc[u] \in Await, UNCHANGED <<pc, target, options>>, now' >= now, now' \in Nat,
             NextEventTag(stop_tag)'.time <= NextEventTag(stop_tag).time,
             NextEventTag(stop_tag)'.time \in Nat
      PROVE  /\ NextEventTag(stop_tag)'.time <= target'[u]
             /\ pc'[u] = "commit" => Due(target[u])'
  <2> DEFINE n == NextEventTag(stop_tag)
  <2>1. n.time <= target[u] /\ n.time \in Nat /\ target[u] \in Nat
    BY <1>0, <1>a, <1>6 DEF TargetInv
  <2>2. n'.time <= n.time /\ n'.time \in Nat
    BY <1>6
  <2> HIDE DEF n
  <2>3. n'.time <= target'[u]
    BY <1>6, <2>1, <2>2
  <2>4. pc'[u] = "commit" => Due(target[u])'
    <3>1. now \in Nat /\ MinSleep \in Nat /\ (pc[u] = "commit" => Due(target[u]))
      BY <1>0, <1>a DEF TargetInv
    <3> QED
      BY <1>6, <2>1, <3>1 DEF Due
  <2> QED
    BY <2>3, <2>4 DEF n
<1>7. CASE Tick \/ UNCHANGED vars
  <2>1. UNCHANGED <<tags, eventQ, pc, target, options>> /\ now' >= now /\ now' \in Nat
    BY <1>0, <1>a, <1>7 DEF Tick, vars, world
  <2> QED
    BY <1>0, <1>a, <1>1, <1>2, <1>6, <2>1
<1>8. CASE OutsideRequestsStop
  <2>1. UNCHANGED <<current_tag, shutdowns, eventQ, pc, target, options, now,
  mainPc>> /\ mainPc # "initialize" /\ StopAtNextMicrostep
    BY <1>8 DEF OutsideRequestsStop, RequestStop, world, threads
  <2>2. TagLeq(stop_tag', stop_tag)
    BY <2>1, StopLowered DEF TagLeq
  <2>3. NextEventTag(stop_tag').time <= NextEventTag(stop_tag).time
    BY <1>0, <1>a, <2>2, EarlierStopEarlierNext DEF LInv, TagTypes
  <2>4. NextEventTag(stop_tag)' = NextEventTag(stop_tag')
    BY <2>1 DEF NextEventTag, EventTimes, HeadTime, EventTag, eventQ
  <2>5. NextEventTag(stop_tag').time \in Nat
    BY <1>0, <1>a, <2>1, NextTagFacts DEF LInv, TagTypes, TagInv
  <2> QED
    BY <1>0, <1>a, <1>1, <1>6, <2>1, <2>3, <2>4, <2>5
<1>9. CASE InitializeStartTag \/ MainUnlocks \/ MainJoins
  <2>1. UNCHANGED pc
    BY <1>9 DEF InitializeStartTag, MainUnlocks, MainJoins
  <2>2. mainPc \in {"initialize", "threads"} => FALSE
    BY <1>0, <1>a, <1>1, <2>1 DEF LocInv, MainInv
  <2>3. MainJoins
    BY <1>9, <2>2 DEF InitializeStartTag, MainUnlocks
  <2> QED
    BY <1>1, <2>1, <2>3 DEF MainJoins
<1>10. ASSUME NEW w \in Workers, StartThread(w) \/ QuietStep(w) \/ SignalStop(w)
                                 \/ BeginNext(w) \/ Commit(w)
              \/ ReactionRequestsStop(w) \/ \E t \in Times : ReactionSchedules(w, t),
              ~BeginNext(u), ~Interrupted(u), ~SkipWait(u), ~Wait(u), ~WakeByTimer(u),
              ~TimedOut(u)
       PROVE  FALSE
  <2>1. pc[w] # "idle"
    BY <1>0, <1>10 DEF StartThread, QuietStep, SignalStop, BeginNext, Commit,
                       ReactionRequestsStop, RequestStop, ReactionSchedules, WorkerStarts,
                       WorkerExits, GetReady, BecomeIdle, Distribute, LockToAdvance, SkipWait,
                       Wait, WakeBySignal, WakeSpuriously, WakeByTimer, Interrupted, TimedOut,
                       AfterNext, ReactionTriggers, ReactionDone
  <2>2. w # u
    BY <1>0, <1>1, <1>10 DEF StartThread, QuietStep, SignalStop, BeginNext, Commit,
                             ReactionRequestsStop, RequestStop, ReactionSchedules, WorkerStarts,
                             WorkerExits, GetReady, BecomeIdle, Distribute, LockToAdvance,
                             SkipWait, Wait, WakeBySignal, WakeSpuriously, WakeByTimer,
                             Interrupted, TimedOut, AfterNext, ReactionTriggers, ReactionDone
  <2>3. pc[u] \in Await
    BY <1>0, <1>1, <1>10, <2>2 DEF StartThread, QuietStep, SignalStop, BeginNext, Commit,
                                   ReactionRequestsStop, RequestStop, ReactionSchedules,
                                   WorkerStarts, WorkerExits, GetReady, BecomeIdle, Distribute,
                                   LockToAdvance, SkipWait, Wait, WakeBySignal, WakeSpuriously,
                                   WakeByTimer, Interrupted, TimedOut, AfterNext,
                                   ReactionTriggers, ReactionDone
  <2> QED
    BY <1>0, <2>1, <2>2, <2>3 DEF LocInv, LeaderInv, Leading, Advancing
<1> QED
  BY StepsOfNext, <1>3, <1>4, <1>5, <1>7, <1>8, <1>9, <1>10

(* The commit takes a time that has come; no other step moves the tag.       *)
LEMMA NotAheadStep ==
  ASSUME LInv, WInv, LInv', CommonTypeOK', Next
  PROVE  NotAhead'
<1>0. /\ now \in Nat /\ now' \in Nat /\ MinSleep \in Nat
      /\ current_tag.time \in Nat /\ current_tag'.time \in Nat
  BY CommonAssumption DEF WInv, LInv, TagTypes, Tag, TypeOK, CommonTypeOK, Times
<1>1. now' >= now /\ UNCHANGED options
  <2>1. CASE Tick
    BY <1>0, <2>1 DEF Tick
  <2>2. CASE ~Tick
    BY <1>0, <2>2, WorldUnchanged DEF world
  <2> QED
    BY <2>1, <2>2
<1>2. ASSUME NEW w \in Workers, Commit(w) PROVE NotAhead'
  <2> DEFINE t == NextEventTag(stop_tag).time
  <2>1. t <= target[w] /\ t \in Nat /\ target[w] \in Nat /\ Due(target[w])
    <3>1. t <= target[w] /\ Due(target[w])
      BY <1>2 DEF Commit, Goto, WInv, TargetInv
    <3>2. t \in Times /\ target[w] \in Times
      BY NextTagFacts DEF LInv, TagInv, TagTypes, WInv, TypeOK
    <3> QED
      BY <3>1, <3>2, CommonAssumption DEF Times
  <2>2. current_tag' \in {current_tag, AdvancedTag(t)}
    BY <1>2 DEF Commit
  <2>3. current_tag'.time \in {current_tag.time, t}
    BY <2>2 DEF AdvancedTag, NextMicrostep, TagOf
  <2> HIDE DEF t
  <2> QED
    BY <1>0, <1>1, <2>1, <2>3 DEF Due, NotAhead, WInv
<1>3. CASE \A w \in Workers : ~Commit(w)
  <2>1. UNCHANGED current_tag
    BY <1>3, StepsOfNext, QuietStepFacts DEF InitializeStartTag, MainUnlocks, MainJoins,
                                             OutsideRequestsStop, RequestStop, Tick, vars,
                                             StartThread, SignalStop, BeginNext,
                                             ReactionRequestsStop, ReactionSchedules, tags
  <2> QED
    BY <1>0, <1>1, <2>1 DEF NotAhead, WInv
<1> QED
  BY <1>2, <1>3

(* The event of a periodic timer that is popped is replaced by its next one, *)
(* up to the stop time, and the stop time never moves to a later one.        *)
LEMMA TimersStep ==
  ASSUME LInv, WInv, LInv', Next
  PROVE  TimersAlive'
<1> USE CommonAssumption
<1>0. /\ TimersAlive /\ TagTypes /\ TagTypes' /\ Times \subseteq Nat /\ Forever \in Nat
      /\ \A tm \in Timers : tm.offset \in Times /\ tm.period \in Times
  BY DEF WInv, LInv, Times
<1>1. CASE InitializeStartTag
  <2>1. current_tag' = TagOf(0, 0)
    BY <1>1 DEF InitializeStartTag, LInv, StartInv
  <2>2. SUFFICES ASSUME NEW tm \in Timers, tm.period > 0, tm.offset < Forever
                 PROVE  \/ \E t \in Times : tm \in timerEvents'[t]
                        \/ current_tag'.time + tm.period >= Forever
    BY DEF TimersAlive
  <2>3. FirstFiring(tm) \in Times /\ FirstFiring(tm) > 0
    BY <1>0, <2>2 DEF FirstFiring, Times
  <2>4. CASE FirstFiring(tm) < Forever
    BY <1>1, <2>3, <2>4 DEF InitializeStartTag, InitializeTimers
  <2>5. CASE FirstFiring(tm) >= Forever
    BY <1>0, <2>1, <2>2, <2>3, <2>5, TagOfType DEF FirstFiring, Times
  <2> QED
    BY <1>0, <2>3, <2>4, <2>5 DEF Times
<1>2. ASSUME NEW w \in Workers, Commit(w) PROVE TimersAlive'
  <2>0. mainPc # "initialize" /\ UNCHANGED <<stop_tag, mainPc>>
    BY <1>2, CommitFacts
  <2>1. CASE UNCHANGED <<current_tag, shutdowns, eventQ>>
    BY <1>0, <2>0, <2>1 DEF TimersAlive, eventQ
  <2>2. ASSUME NEW t \in Times, TagLess(current_tag, current_tag'), current_tag'.time = t,
  PopEvents(t)
        PROVE  TimersAlive'
    <3>1. SUFFICES ASSUME NEW tm \in Timers, tm.period > 0, tm.offset < Forever
                   PROVE  \/ \E u \in Times : tm \in timerEvents'[u]
                          \/ current_tag'.time + tm.period > stop_tag.time
                          \/ current_tag'.time + tm.period >= Forever
      BY <2>0 DEF TimersAlive
    <3>2. /\ t \in Nat /\ tm.period \in Nat /\ stop_tag.time \in Nat /\ current_tag.time \in Nat
          /\ current_tag.time <= t
      BY <1>0, <2>2 DEF TagTypes, Tag, TagLess
    <3>3. \/ \E u \in Times : tm \in timerEvents[u]
          \/ current_tag.time + tm.period > stop_tag.time
          \/ current_tag.time + tm.period >= Forever
      BY <1>0, <2>0, <3>1 DEF TimersAlive
    <3>4. ASSUME NEW u \in Times, tm \in timerEvents[u], u # t PROVE tm \in timerEvents'[u]
      BY <2>2, <3>4 DEF PopEvents
    <3>5. ASSUME tm \in timerEvents[t], t + tm.period <= stop_tag.time, t + tm.period < Forever
          PROVE t + tm.period \in Times /\ tm \in timerEvents'[t + tm.period]
      <4>1. t + tm.period \in Times
        BY <3>2, <3>5 DEF Times
      <4> QED
        BY <2>2, <3>1, <3>5, <4>1 DEF PopEvents
    <3>6. \/ t + tm.period <= stop_tag.time /\ t + tm.period < Forever
          \/ t + tm.period > stop_tag.time
          \/ t + tm.period >= Forever
      BY <1>0, <3>2
    <3>7. CASE \E u \in Times : tm \in timerEvents[u]
      BY <2>2, <3>4, <3>5, <3>6, <3>7
    <3>8. CASE current_tag.time + tm.period > stop_tag.time
    \/ current_tag.time + tm.period >= Forever
      BY <1>0, <2>2, <3>2, <3>8
    <3> QED
      BY <3>3, <3>7, <3>8
  <2> QED
    BY <1>2, <2>1, <2>2, CommitFacts
<1>3. ASSUME UNCHANGED <<current_tag, eventQ, mainPc>>, mainPc # "initialize",
             stop_tag'.time <= stop_tag.time
      PROVE  TimersAlive'
  <2>1. /\ stop_tag.time \in Nat /\ stop_tag'.time \in Nat /\ current_tag.time \in Nat
        /\ \A tm \in Timers : tm.period \in Nat
    BY <1>0 DEF TagTypes, Tag
  <2> QED
    BY <1>0, <1>3, <2>1 DEF TimersAlive, eventQ
<1>4. ASSUME UNCHANGED <<tags, eventQ>>, mainPc' # "initialize" => mainPc # "initialize"
      PROVE  TimersAlive'
  BY <1>0, <1>4 DEF TimersAlive, tags, eventQ
<1>5. ASSUME StopAtNextMicrostep, UNCHANGED <<current_tag, shutdowns, eventQ, mainPc>>,
mainPc # "initialize"
      PROVE  TimersAlive'
  <2>1. TagLeq(stop_tag', stop_tag)
    BY <1>5, StopLowered DEF TagLeq
  <2>2. stop_tag'.time <= stop_tag.time
    BY <1>0, <2>1, TagOrder DEF TagTypes
  <2> QED
    BY <1>3, <1>5, <2>2
<1>6. CASE MainUnlocks \/ MainJoins \/ Tick \/ UNCHANGED vars
  BY <1>4, <1>6 DEF MainUnlocks, MainJoins, Tick, vars, threads
<1>7. CASE OutsideRequestsStop
  BY <1>5, <1>7 DEF OutsideRequestsStop, RequestStop, threads
<1>8. ASSUME NEW w \in Workers, StartThread(w) \/ QuietStep(w) \/ SignalStop(w)
      PROVE TimersAlive'
  <2>1. UNCHANGED <<tags, eventQ, mainPc>>
    BY <1>8, QuietStepFacts DEF StartThread, SignalStop, threads
  <2> QED
    BY <1>4, <2>1
<1>9. ASSUME NEW w \in Workers, BeginNext(w) PROVE TimersAlive'
  <2>1. mainPc # "initialize" /\ UNCHANGED <<current_tag, shutdowns, eventQ, mainPc>>
    BY <1>9, Started DEF BeginNext, Goto, threads
  <2>2. CASE StopAtNextMicrostep
    BY <1>5, <2>1, <2>2
  <2>3. CASE UNCHANGED stop_tag
    BY <1>4, <2>1, <2>3 DEF tags
  <2> QED
    BY <1>9, <2>2, <2>3 DEF BeginNext
<1>10. ASSUME NEW w \in Workers, ReactionRequestsStop(w) PROVE TimersAlive'
  <2>1. mainPc # "initialize" /\ UNCHANGED <<current_tag, shutdowns, eventQ,
  mainPc>> /\ StopAtNextMicrostep
    BY <1>10, Started DEF ReactionRequestsStop, RequestStop, threads
  <2> QED
    BY <1>5, <2>1
<1>11. ASSUME NEW w \in Workers, NEW t \in Times, ReactionSchedules(w, t) PROVE TimersAlive'
  BY <1>0, <1>11 DEF ReactionSchedules, ScheduleAction, tags, threads, TimersAlive
<1> QED
  BY StepsOfNext, <1>1, <1>2, <1>6, <1>7, <1>8, <1>9, <1>10, <1>11

(* initialize() establishes the account of the workers.                      *)
LEMMA WInvInit == Init => WInv
<1> SUFFICES ASSUME Init PROVE WInv
  OBVIOUS
<1> USE RuntimeAssumption, CommonAssumption
<1>1. /\ pc = [w \in Workers |-> "unborn"]
      /\ mainPc = "initialize" /\ mutex = Main /\ should_stop = FALSE
  BY DEF Init
<1>2. TypeOK
  BY TypesInit
<1>3. MutexInv /\ MainInv /\ LeaderInv /\ EndInv /\ TargetInv /\ TimersAlive
  BY <1>1 DEF MutexInv, MainInv, LeaderInv, EndInv, TargetInv, TimersAlive, Advancing, Leading,
              Main
<1>4. AtRest = {} /\ Counted = {}
  BY <1>1 DEF AtRest, Counted, Advancing, Leading
<1>5. IdleInv /\ NumberInv
  BY <1>1, <1>4, FS_EmptySet DEF Init, IdleInv, NumberInv
<1>6. NotAhead
  BY DEF Init, CommonInit, NotAhead, TagOf
<1> QED
  BY <1>2, <1>3, <1>5, <1>6 DEF WInv

(* Every step of the runtime keeps it.                                       *)
LEMMA WInvNext == LInv /\ LInv' /\ WInv /\ [Next]_vars => WInv'
<1> SUFFICES ASSUME LInv, LInv', WInv, [Next]_vars PROVE WInv'
  OBVIOUS
<1>1. CASE Next
  <2>1. LocInv'
    BY <1>1, LocStep
  <2>2. CommonTypeOK' /\ WorkerTypes'
    BY <1>1, WorldStep, WorkerTypesStep DEF WInv, TypeOK
  <2>3. IdleInv' /\ idle' \in 0..Cardinality(Workers)
    BY <1>1, <2>1, IdleStep
  <2>4. NumberInv' /\ worker_thread_count' \in Nat
    BY <1>1, <2>1, NumberStep
  <2>5. TypeOK'
    BY <2>2, <2>3, <2>4 DEF TypeOK, WorkerTypes
  <2>6. TargetInv'
    BY <1>1, <2>1, TargetStep
  <2>7. NotAhead' /\ TimersAlive'
    BY <1>1, <2>2, NotAheadStep, TimersStep
  <2> QED
    BY <2>1, <2>3, <2>4, <2>5, <2>6, <2>7 DEF WInv, LocInv
<1>2. CASE UNCHANGED vars
  <2>1. UNCHANGED <<now, options, mutex, current_tag, stop_tag, shutdowns, timerEvents,
  actionEvents,
                    changed, worker_thread_count, number, mainPc, pc, target, queued, ready, idle,
                    should_stop, tagCompleted, levels, scheduled>>
    BY <1>2 DEF vars, world, tags, eventQ, threads, sched
  <2>2. TypeOK'
    BY <2>1 DEF WInv, TypeOK, CommonTypeOK
  <2>3. MutexInv' /\ MainInv' /\ LeaderInv' /\ EndInv'
    BY <2>1 DEF WInv, MutexInv, MainInv, LeaderInv, EndInv, Leading, Advancing
  <2>4. IdleInv' /\ NumberInv'
    BY <2>1 DEF WInv, IdleInv, NumberInv, AtRest, Counted, Leading, Advancing
  <2>5. TargetInv'
    BY <2>1 DEF WInv, TargetInv, NextEventTag, EventTimes, HeadTime, EventTag, Due
  <2>6. NotAhead' /\ TimersAlive'
    BY <2>1 DEF WInv, NotAhead, TimersAlive
  <2> QED
    BY <2>2, <2>3, <2>4, <2>5, <2>6 DEF WInv
<1> QED
  BY <1>1, <1>2

(* Every state the runtime reaches satisfies it.                             *)
LEMMA WInvHolds == Spec => []WInv
<1>1. Spec => []LInv
  BY InvHolds
<1>2. Init => WInv
  BY WInvInit
<1>3. LInv /\ LInv' /\ WInv /\ [Next]_vars => WInv'
  BY WInvNext
<1> QED
  BY <1>1, <1>2, <1>3, PTL DEF Spec

-----------------------------------------------------------------------------
(* Results *)

(* No tag after the stop tag is executed, and the shutdown reactions are     *)
(* triggered exactly once, when the stop tag is reached: by                  *)
(* _lf_initialize_start_tag for a timeout of zero, by _lf_next_locked        *)
(* otherwise, however often the stop tag is moved meanwhile.                 *)
THEOREM ShutdownOnce == Spec => []ShutdownAtStopTag
<1>1. LInv => ShutdownAtStopTag
  BY DEF LInv, TagInv, ShutdownInv, ShutdownAtStopTag
<1> QED
  BY <1>1, InvHolds, PTL

(* get_next_event_tag never meets an event of the past.                      *)
THEOREM EventsInOrder == Spec => []NoEventPassed
<1>1. LInv => NoEventPassed
  BY DEF LInv
<1> QED
  BY <1>1, InvHolds, PTL

(* At most one worker advances the tag, with the mutex and with all others   *)
(* asleep, and the numbers the workers index the scheduler with are distinct *)
(* and below the number of workers, for any number of workers.               *)
THEOREM WorkersAreConsistent == Spec => []WorkersConsistent
<1>1. WInv => WorkersConsistent
  <2> SUFFICES ASSUME WInv PROVE WorkersConsistent
    OBVIOUS
  <2>1. OneAdvances
    BY DEF WInv, MutexInv, LeaderInv, OneAdvances, Leading, Advancing
  <2>2. WorkerNumbersUnique
    BY DEF WInv, NumberInv, EndInv, WorkerNumbersUnique
  <2> QED
    BY <2>1, <2>2 DEF WInv, WorkersConsistent
<1> QED
  BY <1>1, WInvHolds, PTL

(* Unless -fast, a reaction never executes at a tag whose time has not come, *)
(* however the wait for it was broken off and resumed.                       *)
THEOREM TimeNotAhead == Spec => []NotAhead
<1>1. WInv => NotAhead
  BY DEF WInv
<1> QED
  BY <1>1, WInvHolds, PTL

(* A thread leaves only after the stop tag has been executed, and leaves no  *)
(* reaction and no event before the stop time behind.                        *)
THEOREM EndsAreComplete == Spec => []EndsComplete
<1>1. LInv /\ WInv => EndsComplete
  BY DEF LInv, WInv, EndInv, ShutdownInv, NoEventPassed, EndsComplete
<1> QED
  BY <1>1, InvHolds, WInvHolds, PTL

(* A periodic timer fires until the stop time: popping its event puts in the *)
(* next one.                                                                 *)
THEOREM TimersStayAlive == Spec => []TimersAlive
<1>1. WInv => TimersAlive
  BY DEF WInv
<1> QED
  BY <1>1, WInvHolds, PTL
-----------------------------------------------------------------------------
(* The runtime implements LogicalExecution *)

LStep == Logical!Next \/ UNCHANGED Logical!vars

(* initialize() starts at the start tag, with the stop tag of the timeout.   *)
LEMMA InitRefines == Init => Logical!Init
<1> SUFFICES ASSUME Init PROVE Logical!Init
  OBVIOUS
<1>1. stop_tag \in Tag
  BY InitInv DEF LInv, TagTypes
<1> QED
  BY <1>1 DEF Init, CommonInit, Logical!Init, Logical!Tag, Tag, Logical!TagOf, TagOf

(* A moved stop tag is StopEarlier, an unmoved one a stutter.                *)
LEMMA StopRefines ==
  ASSUME LInv, mainPc # "initialize", StopAtNextMicrostep,
         UNCHANGED <<current_tag, shutdowns, eventQ, mainPc, should_stop>>
  PROVE  LStep
BY StopLowered DEF LStep, Logical!Next, Logical!vars, Logical!StopEarlier, Logical!TagLess,
                   TagLess

(* The commit is Advance: a later tag, up to the stop tag, with the shutdown *)
(* reactions there; at the stop tag it is a stutter.                         *)
LEMMA CommitRefines ==
  ASSUME LInv, NEW w \in Workers, Commit(w)
  PROVE  LStep
<1>1. UNCHANGED <<stop_tag, should_stop>>
  BY CommitFacts
<1>2. CASE UNCHANGED <<current_tag, shutdowns, eventQ>>
  BY <1>1, <1>2 DEF LStep, Logical!vars
<1>3. CASE ~ UNCHANGED <<current_tag, shutdowns, eventQ>>
  <2>1. /\ TagLess(current_tag, current_tag') /\ TagLeq(current_tag', stop_tag)
        /\ shutdowns' = IF current_tag' = stop_tag THEN 1 ELSE 0
    BY <1>3, CommitFacts
  <2>2. (shutdowns > 0)' = (current_tag' = stop_tag)
    BY <2>1
  <2> QED
    BY <1>1, <2>1, <2>2 DEF LStep, Logical!Next, Logical!Advance, Logical!TagLess, TagLess,
                            Logical!TagLeq, TagLeq
<1> QED
  BY <1>2, <1>3

(* The scheduler ends the execution at the stop tag, after the shutdown      *)
(* reactions have been triggered.                                            *)
LEMMA EndRefines ==
  ASSUME LInv, NEW w \in Workers, SignalStop(w)
  PROVE  LStep
<1>1. mainPc # "initialize" /\ AtStopTag /\ UNCHANGED tags /\ should_stop' = TRUE
  BY Started DEF SignalStop
<1>2. current_tag = stop_tag
  BY <1>1, TagOrder DEF AtStopTag, LInv, TagTypes, TagInv, TagLeq
<1>3. shutdowns = 1
  BY <1>1, <1>2 DEF LInv, ShutdownInv
<1> QED
  BY <1>1, <1>2, <1>3 DEF LStep, Logical!Next, Logical!End, tags

(* Every step of the runtime is a step of LogicalExecution or a stutter.     *)
LEMMA NextRefines == LInv /\ [Next]_vars => LStep
<1> SUFFICES ASSUME LInv, [Next]_vars PROVE LStep
  OBVIOUS
<1>1. ASSUME UNCHANGED <<tags, should_stop>>
      PROVE  LStep
  BY <1>1 DEF LStep, Logical!vars, tags
<1>2. CASE InitializeStartTag
  <2>1. /\ shutdowns = 0
        /\ shutdowns' = IF current_tag = stop_tag THEN 1 ELSE 0
        /\ UNCHANGED <<current_tag, stop_tag, should_stop>>
    BY <1>2, StartTagInv DEF InitializeStartTag
  <2> QED
    BY <2>1 DEF LStep, Logical!Next, Logical!ShutdownAtStart, Logical!vars
<1>3. CASE MainUnlocks \/ MainJoins \/ Tick \/ UNCHANGED vars
  BY <1>1, <1>3 DEF MainUnlocks, MainJoins, Tick, vars, sched
<1>4. CASE OutsideRequestsStop
  BY <1>4, StopRefines DEF OutsideRequestsStop, RequestStop, threads, sched
<1>5. ASSUME NEW w \in Workers, StartThread(w) \/ QuietStep(w)
      PROVE  LStep
  BY <1>1, <1>5, QuietStepFacts DEF StartThread, sched
<1>6. ASSUME NEW w \in Workers, SignalStop(w) \/ Commit(w)
      PROVE  LStep
  BY <1>6, EndRefines, CommitRefines
<1>7. ASSUME NEW w \in Workers, BeginNext(w)
      PROVE  LStep
  <2>1. mainPc # "initialize" /\ UNCHANGED <<current_tag, shutdowns, eventQ, mainPc, should_stop>>
    BY <1>7, Started DEF BeginNext, Goto, threads
  <2>2. CASE StopAtNextMicrostep
    BY <2>1, <2>2, StopRefines
  <2>3. CASE UNCHANGED stop_tag
    BY <1>1, <2>1, <2>3 DEF tags
  <2> QED
    BY <1>7, <2>2, <2>3 DEF BeginNext
<1>8. ASSUME NEW w \in Workers, ReactionRequestsStop(w)
      PROVE  LStep
  BY <1>8, Started, StopRefines DEF ReactionRequestsStop, RequestStop, threads, sched
<1>9. ASSUME NEW w \in Workers, NEW t \in Times, ReactionSchedules(w, t)
      PROVE  LStep
  BY <1>1, <1>9 DEF ReactionSchedules, ScheduleAction, sched
<1> QED
  BY StepsOfNext, <1>2, <1>3, <1>4, <1>5, <1>6, <1>7, <1>8, <1>9

(* The threads of reactor_threaded.c implement LogicalExecution.             *)
THEOREM Refinement == Spec => ImplementsLogicalExecution
<1>1. LInv /\ [Next]_vars => [Logical!Next]_(Logical!vars)
  BY NextRefines DEF LStep
<1> QED
  BY <1>1, InitRefines, InvHolds, PTL DEF Spec, Logical!Spec, ImplementsLogicalExecution
=============================================================================
