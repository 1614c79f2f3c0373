----------------------- MODULE UnthreadedRuntimeProofs -----------------------
(***************************************************************************)
(* For every timer set, timeout and option: the shutdown reactions of      *)
(* reactor.c are triggered once and no event is left behind; and as long   *)
(* as the event queue does not run empty before the stop tag, the runtime  *)
(* implements LogicalExecution and ends complete.                          *)
(***************************************************************************)
EXTENDS UnthreadedRuntime, TagsProofs

-----------------------------------------------------------------------------
(* The event queue *)

(* The types of the tags and of the queue.                                   *)
TagTypes ==
  /\ current_tag \in Tag /\ stop_tag \in Tag
  /\ timerEvents \in [Times -> SUBSET Timers]
  /\ actionEvents \in [Times -> Nat]

(* FOREVER_TAG is a tag of the model.                                         *)
LEMMA ForeverTagType == ForeverTag \in Tag /\ ForeverTag.time = Forever
BY CommonAssumption, TagOfType DEF ForeverTag

(* pqueue_peek returns an event of the queue and none is earlier.            *)
LEMMA HeadIsEarliest ==
  ASSUME EventTimes # {}
  PROVE  HeadTime \in EventTimes /\ \A u \in EventTimes : HeadTime <= u
<1>1. EventTimes \in SUBSET Nat
  BY CommonAssumption DEF EventTimes, Times
<1> QED
  BY <1>1, LeastNatural DEF HeadTime

(* _lf_schedule: one event more, not in the past.                            *)
LEMMA ScheduleFacts ==
  ASSUME TagTypes, NEW t \in Times, ScheduleAction(t)
  PROVE  /\ timerEvents' = timerEvents /\ actionEvents' \in [Times -> Nat]
         /\ t \in Nat /\ t >= current_tag.time
         /\ EventTimes' \subseteq EventTimes \cup {t}
<1>1. timerEvents' = timerEvents /\ t \in Nat /\ t >= current_tag.time
  BY CommonAssumption DEF ScheduleAction, TagTypes, Tag
<1>2. PICK n \in {1, actionEvents[t] + 1} :
        actionEvents' = [actionEvents EXCEPT ![t] = IF n > @ THEN n ELSE @]
  BY DEF ScheduleAction
<1>3. n \in Nat /\ actionEvents' \in [Times -> Nat]
  BY <1>2 DEF TagTypes
<1>4. \A u \in Times : u # t => actionEvents'[u] = actionEvents[u]
  BY <1>2 DEF TagTypes
<1>5. EventTimes' \subseteq EventTimes \cup {t}
  BY <1>1, <1>4 DEF EventTimes
<1> QED
  BY <1>1, <1>3, <1>5

(* _lf_pop_events at a time up to the first event leaves none before it.     *)
LEMMA PopFacts ==
  ASSUME TagTypes, NEW t \in Times, PopEvents(t), \A u \in EventTimes : t <= u
  PROVE  /\ timerEvents' \in [Times -> SUBSET Timers] /\ actionEvents' \in [Times -> Nat]
         /\ \A u \in EventTimes' : u >= t
<1>1. timerEvents' \in [Times -> SUBSET Timers] /\ actionEvents' \in [Times -> Nat]
  BY CommonAssumption DEF PopEvents, TagTypes
<1>2. ASSUME NEW u \in EventTimes'
      PROVE  u >= t
  <2>1. u \in Times /\ u \in Nat /\ t \in Nat
    BY CommonAssumption DEF EventTimes, Times
  <2>2. CASE u \in EventTimes
    BY <2>1, <2>2
  <2>3. CASE u \notin EventTimes
    <3>1. timerEvents[u] = {} /\ ~ (actionEvents[u] > 0)
      BY <2>1, <2>3 DEF EventTimes
    <3>2. ~ (actionEvents'[u] > 0)
      BY <2>1, <3>1 DEF PopEvents, TagTypes
    <3>3. timerEvents'[u] # {}
      BY <2>1, <3>2 DEF EventTimes
    <3>4. PICK tm \in timerEvents[t] : u = t + tm.period /\ tm.period > 0
      BY <2>1, <3>1, <3>3 DEF PopEvents
    <3>5. tm.period \in Nat
      BY <2>1, <3>4, CommonAssumption DEF TagTypes
    <3> QED
      BY <2>1, <3>4, <3>5
  <2> QED
    BY <2>2, <2>3
<1> QED
  BY <1>1, <1>2

-----------------------------------------------------------------------------
(* The inductive invariant of every program.  The shutdown reactions have    *)
(* been triggered if, and only if, main has started and the tag is not       *)
(* before the stop tag; inside of next it is before.                         *)
StartInv ==
  pc = "start" => current_tag = TagOf(0, 0)

ShutdownInv ==
  shutdowns = IF pc # "start" /\ AtStopTag THEN 1 ELSE 0

InsideNext == pc \in {"wait", "sleep", "advance"}

NextTagInv ==
  /\ pc = "next" \/ InsideNext => TagLess(current_tag, stop_tag)
  /\ InsideNext =>
       /\ next_tag \in Tag /\ next_tag.time \in Times
       /\ current_tag.time <= next_tag.time
       /\ \A t \in EventTimes : next_tag.time <= t

TimeInv == current_tag.time <= Forever

DoneInv == pc = "done" => AtStopTag /\ reactions = 0

UInv ==
  /\ TagTypes /\ NoEventPassed /\ TimeInv
  /\ StartInv /\ ShutdownInv /\ NextTagInv /\ DoneInv

(* initialize() establishes the invariant.                                   *)
LEMMA InitInv == Init => UInv
<1> SUFFICES ASSUME Init PROVE UInv
  OBVIOUS
<1>1. TagTypes
  BY CommonAssumption, TagOfType, ForeverTagType DEF Init, CommonInit, TagTypes
<1>2. EventTimes = {} /\ TimeInv
  BY CommonAssumption DEF Init, CommonInit, EventTimes, TimeInv, TagOf
<1> QED
  BY <1>1, <1>2 DEF Init, CommonInit, UInv, NoEventPassed, StartInv, ShutdownInv,
                    NextTagInv, InsideNext, DoneInv

-----------------------------------------------------------------------------
(* The steps *)

(* A step that leaves the tags and the queue alone and stays outside of next *)
(* and of the ends of the program, with what it must show otherwise.         *)
LEMMA Quiet ==
  ASSUME UInv, UNCHANGED <<tags, eventQ>>, pc # "start", NextTagInv', DoneInv',
         pc' # "start"
  PROVE  UInv'
BY DEF UInv, TagTypes, NoEventPassed, TimeInv, StartInv, ShutdownInv, AtStopTag, EventTimes,
       tags, eventQ

(* lf_reactor_c_main: the shutdown reactions at the start for a timeout of   *)
(* zero.                                                                     *)
LEMMA MainStartsInv ==
  ASSUME UInv, MainStarts
  PROVE  /\ UInv'
         /\ shutdowns = 0
         /\ shutdowns' = IF AtStopTag THEN 1 ELSE 0
<1> USE DEF UInv, MainStarts, Goto, InitializeTimers
<1>1. shutdowns = 0 /\ current_tag = TagOf(0, 0)
  BY DEF ShutdownInv, StartInv
<1>2. TagTypes' /\ TimeInv'
  BY DEF TagTypes, TimeInv
<1>3. NoEventPassed'
  BY <1>1 DEF NoEventPassed, EventTimes, Times, TagOf
<1>4. shutdowns' = IF AtStopTag THEN 1 ELSE 0
  BY <1>1
<1> QED
  BY <1>1, <1>2, <1>3, <1>4 DEF StartInv, ShutdownInv, NextTagInv, InsideNext, DoneInv, AtStopTag

(* A stop tag lowered from within a reaction, or by an empty queue, leaves   *)
(* the shutdown reactions as they are: nothing changes at the stop tag, and  *)
(* before it the tag stays before.                                           *)
LEMMA StopLowered ==
  ASSUME TagTypes, StopAtNextMicrostep, UNCHANGED current_tag
  PROVE  /\ stop_tag' \in Tag
         /\ AtStopTag <=> AtStopTag'
         /\ stop_tag' = stop_tag
              \/ (TagLess(current_tag, stop_tag') /\ TagLess(stop_tag', stop_tag))
<1>1. NextMicrostep \in Tag /\ TagLess(current_tag, NextMicrostep)
  BY DEF TagTypes, Tag, NextMicrostep, TagOf, TagLess
<1>2. CASE TagLess(NextMicrostep, stop_tag)
  <2>1. stop_tag' = NextMicrostep
    BY <1>2 DEF StopAtNextMicrostep, TagMin
  <2>2. TagLess(current_tag, stop_tag)
    BY <1>1, <1>2, TagTransitive DEF TagTypes, TagLeq
  <2> QED
    BY <1>1, <1>2, <2>1, <2>2 DEF AtStopTag
<1>3. CASE ~ TagLess(NextMicrostep, stop_tag)
  BY <1>3 DEF StopAtNextMicrostep, TagMin, AtStopTag, TagTypes
<1> QED
  BY <1>2, <1>3

(* lf_request_stop from a reaction.                                          *)
LEMMA RequestStopInv ==
  ASSUME UInv, ReactionRequestsStop
  PROVE  UInv'
<1> USE DEF UInv, ReactionRequestsStop
<1>1. UNCHANGED <<current_tag, shutdowns, eventQ, pc>> /\ pc = "run"
  OBVIOUS
<1>2. stop_tag' \in Tag /\ (AtStopTag <=> AtStopTag')
  BY <1>1, StopLowered
<1> QED
  BY <1>1, <1>2 DEF TagTypes, NoEventPassed, TimeInv, StartInv, ShutdownInv, NextTagInv,
                    InsideNext, DoneInv, EventTimes, eventQ

(* An accepted action event is not in the past.                              *)
LEMMA ScheduleInv ==
  ASSUME UInv, NEW t \in Times, ReactionSchedules(t)
  PROVE  UInv'
<1> USE DEF UInv
<1>1. UNCHANGED <<tags, pc>> /\ pc = "run" /\ ScheduleAction(t)
  BY DEF ReactionSchedules
<1> QED
  BY <1>1, ScheduleFacts DEF TagTypes, NoEventPassed, TimeInv, StartInv, ShutdownInv,
                             AtStopTag, NextTagInv, InsideNext, DoneInv, tags

(* An empty queue: FOREVER is not before any event.                          *)
LEMMA FindNoEventInv ==
  ASSUME UInv, FindNoEvent
  PROVE  UInv'
<1> USE DEF UInv, FindNoEvent, Goto
<1>1. /\ UNCHANGED <<current_tag, shutdowns, eventQ>> /\ pc = "next" /\ pc' = "wait"
      /\ next_tag' = TagOf(Forever, 0) /\ EventTimes = {}
  OBVIOUS
<1>2. stop_tag' \in Tag /\ (AtStopTag <=> AtStopTag')
  <2>1. CASE options.keepalive
    BY <2>1 DEF TagTypes, AtStopTag
  <2>2. CASE ~ options.keepalive
    BY <1>1, <2>2, StopLowered
  <2> QED
    BY <2>1, <2>2
<1>3. next_tag' \in Tag /\ next_tag'.time = Forever /\ Forever \in Times
  BY <1>1, TagOfType, CommonAssumption DEF Times
<1>4. EventTimes' = {}
  BY <1>1 DEF EventTimes, eventQ
<1>5. NextTagInv'
  BY <1>1, <1>2, <1>3, <1>4 DEF NextTagInv, AtStopTag, TimeInv
<1> QED
  BY <1>1, <1>2, <1>4, <1>5 DEF TagTypes, NoEventPassed, TimeInv, StartInv, ShutdownInv,
                                DoneInv, eventQ

(* An event: the wait is for its time, or for the stop time.                 *)
LEMMA FindEventFacts ==
  ASSUME UInv, FindEvent
  PROVE  /\ next_tag' \in Tag /\ next_tag'.time \in Times
         /\ current_tag.time <= next_tag'.time /\ next_tag'.time <= stop_tag.time
         /\ \A t \in EventTimes : next_tag'.time <= t
<1> DEFINE e == EventTag(HeadTime)
<1> USE DEF UInv
<1>1. EventTimes # {} /\ next_tag' = TagMin(e, stop_tag) /\ TagLess(current_tag, stop_tag)
  BY DEF FindEvent, Goto, NextTagInv
<1>2. /\ HeadTime \in Nat /\ HeadTime \in Times /\ HeadTime >= current_tag.time
      /\ \A t \in EventTimes : HeadTime <= t
  BY <1>1, HeadIsEarliest, CommonAssumption DEF EventTimes, Times, NoEventPassed
<1>3. e \in Tag /\ e.time = HeadTime
  BY <1>2, TagOfType DEF EventTag, TagTypes, Tag
<1>4. /\ next_tag' \in {e, stop_tag} /\ next_tag' \in Tag
      /\ TagLeq(next_tag', e) /\ TagLeq(next_tag', stop_tag)
  BY <1>1, <1>3, TagMinimum DEF TagTypes
<1>5. next_tag'.time <= HeadTime /\ next_tag'.time <= stop_tag.time
  BY <1>3, <1>4, TagOrder DEF TagTypes
<1>6. next_tag'.time \in Times
  BY <1>2, <1>4, <1>5, CommonAssumption DEF Tag, Times
<1>7. current_tag.time <= next_tag'.time
  BY <1>1, <1>2, <1>3, <1>4 DEF TagLess, TagTypes, Tag
<1>8. \A t \in EventTimes : next_tag'.time <= t
  <2>1. EventTimes \subseteq Nat /\ next_tag'.time \in Nat
    BY <1>4, CommonAssumption DEF EventTimes, Times, Tag
  <2> QED
    BY <1>2, <1>5, <2>1
<1> QED
  BY <1>4, <1>5, <1>6, <1>7, <1>8

LEMMA FindEventInv ==
  ASSUME UInv, FindEvent
  PROVE  UInv'
<1>1. UNCHANGED <<tags, eventQ>> /\ pc = "next" /\ pc' = "wait"
  BY DEF FindEvent, Goto
<1>2. NextTagInv'
  <2>1. TagLess(current_tag, stop_tag) /\ EventTimes' = EventTimes
    BY <1>1 DEF UInv, NextTagInv, EventTimes, eventQ
  <2> QED
    BY <1>1, <2>1, FindEventFacts DEF NextTagInv, tags
<1> QED
  BY <1>1, <1>2, Quiet DEF DoneInv

(* The rest of next: the shutdown reactions exactly when the stop tag is     *)
(* reached or passed, and no event behind the new tag.                       *)
LEMMA AdvanceInv ==
  ASSUME UInv, Advance
  PROVE  UInv'
<1> DEFINE t == next_tag.time
<1> USE DEF UInv
<1>1. /\ pc = "advance" /\ pc' = "step" /\ UNCHANGED stop_tag
      /\ current_tag' = AdvancedTag(t) /\ PopEvents(t)
      /\ shutdowns' = IF TagLess(current_tag', stop_tag) THEN shutdowns ELSE shutdowns + 1
  BY DEF Advance, Goto
<1>2. /\ t \in Times /\ t \in Nat /\ current_tag.time <= t /\ t <= Forever
      /\ \A u \in EventTimes : t <= u
  BY <1>1, CommonAssumption DEF NextTagInv, InsideNext, Times
<1>3. shutdowns = 0
  BY <1>1 DEF NextTagInv, InsideNext, ShutdownInv, AtStopTag
<1>4. current_tag' \in Tag /\ current_tag'.time = t
  <2>1. CASE current_tag.time < t
    BY <1>1, <1>2, <2>1, TagOfType DEF AdvancedTag
  <2>2. CASE current_tag.time = t
    <3>1. current_tag' = TagOf(t, current_tag.microstep + 1)
      BY <1>1, <1>2, <2>2 DEF AdvancedTag, NextMicrostep
    <3>2. current_tag.microstep + 1 \in Nat
      BY DEF TagTypes, Tag
    <3> QED
      BY <1>2, <3>1, <3>2, TagOfType
  <2> QED
    BY <1>2, <2>1, <2>2 DEF TagTypes, Tag
<1>5. /\ timerEvents' \in [Times -> SUBSET Timers] /\ actionEvents' \in [Times -> Nat]
      /\ \A u \in EventTimes' : u >= t
  BY <1>1, <1>2, PopFacts
<1>6. ShutdownInv'
  BY <1>1, <1>3 DEF ShutdownInv, AtStopTag
<1> QED
  BY <1>1, <1>2, <1>4, <1>5, <1>6
     DEF TagTypes, NoEventPassed, TimeInv, StartInv, NextTagInv, InsideNext, DoneInv

(* The steps that touch neither the tags nor the queue.                      *)
QuietStep ==
  \/ InvokeReaction \/ ReactionDone \/ StepDone \/ ReactionTriggers
  \/ NoWait \/ SkipWait \/ Sleep \/ WakeUp

LEMMA QuietInv ==
  ASSUME UInv, QuietStep
  PROVE  UInv'
<1> USE DEF UInv
<1>1. UNCHANGED <<tags, eventQ>> /\ pc # "start" /\ pc' # "start"
  BY DEF QuietStep, Goto, InvokeReaction, ReactionDone, StepDone, ReactionTriggers, NoWait,
         SkipWait, Sleep, WakeUp
<1>2. /\ current_tag' = current_tag /\ stop_tag' = stop_tag /\ EventTimes' = EventTimes
      /\ AtStopTag' = AtStopTag
  BY <1>1 DEF tags, eventQ, EventTimes, AtStopTag
<1>3. CASE StepDone
  <2>1. UNCHANGED reactions /\ reactions = 0 /\ pc' = IF AtStopTag THEN "done" ELSE "next"
    BY <1>3 DEF StepDone, Goto
  <2>2. NextTagInv'
    BY <1>2, <2>1 DEF NextTagInv, InsideNext, AtStopTag
  <2>3. DoneInv'
    BY <1>2, <2>1 DEF DoneInv
  <2> QED
    BY <1>1, <2>2, <2>3, Quiet
<1>4. CASE InvokeReaction \/ ReactionDone \/ ReactionTriggers
  <2>1. pc' \in {"step", "run"}
    BY <1>4 DEF Goto, InvokeReaction, ReactionDone, ReactionTriggers
  <2> QED
    BY <1>1, <2>1, Quiet DEF NextTagInv, InsideNext, DoneInv
<1>5. CASE NoWait \/ SkipWait \/ Sleep \/ WakeUp
  <2>1. InsideNext /\ pc' \in {"next", "wait", "sleep", "advance"} /\ UNCHANGED next_tag
    BY <1>5 DEF Goto, NoWait, SkipWait, Sleep, WakeUp, InsideNext
  <2>2. NextTagInv'
    BY <1>2, <2>1 DEF NextTagInv, InsideNext
  <2> QED
    BY <1>1, <2>1, <2>2, Quiet DEF DoneInv
<1> QED
  BY <1>3, <1>4, <1>5 DEF QuietStep

(* The steps of Next, sorted by what they do to the tags.                    *)
LEMMA StepsOfNext ==
  ASSUME [Next]_vars
  PROVE  \/ MainStarts \/ FindNoEvent \/ FindEvent \/ Advance \/ QuietStep
         \/ ReactionRequestsStop \/ (\E t \in Times : ReactionSchedules(t))
         \/ Tick \/ UNCHANGED vars
BY DEF Next, Progress, QuietStep, Terminated

(* Every step of the runtime keeps the invariant.                            *)
LEMMA NextInv == UInv /\ [Next]_vars => UInv'
<1> SUFFICES ASSUME UInv, [Next]_vars PROVE UInv'
  OBVIOUS
<1>1. CASE Tick \/ UNCHANGED vars
  BY <1>1 DEF Tick, vars, tags, eventQ, UInv, TagTypes, NoEventPassed, TimeInv, StartInv,
              ShutdownInv, NextTagInv, InsideNext, DoneInv, AtStopTag, EventTimes
<1>2. ASSUME NEW t \in Times, ReactionSchedules(t)
      PROVE  UInv'
  BY <1>2, ScheduleInv
<1> QED
  BY <1>1, <1>2, StepsOfNext, MainStartsInv, RequestStopInv, FindNoEventInv, FindEventInv,
     AdvanceInv, QuietInv

(* Every state the runtime reaches satisfies the invariant.                  *)
LEMMA InvHolds == Spec => []UInv
BY InitInv, NextInv, PTL DEF Spec

-----------------------------------------------------------------------------
(* Results for every program *)

(* The shutdown reactions are triggered exactly once, when the tag reaches   *)
(* or passes the stop tag: by lf_reactor_c_main for a timeout of zero, by    *)
(* next otherwise; the program does not end before.                          *)
THEOREM UnthreadedShutdownOnce == Spec => []ShutdownOnce
<1>1. UInv => ShutdownOnce
  BY DEF UInv, ShutdownInv, DoneInv, ShutdownOnce
<1> QED
  BY <1>1, InvHolds, PTL

(* The tag never passes an event of the queue.                               *)
THEOREM UnthreadedEventsInOrder == Spec => []NoEventPassed
<1>1. UInv => NoEventPassed
  BY DEF UInv
<1> QED
  BY <1>1, InvHolds, PTL

(* The types hold at the start.                                              *)
LEMMA InitType == Init => TypeOK
BY CommonAssumption, UnthreadedAssumption, InitInv, TagOfType
   DEF Init, CommonInit, TypeOK, CommonTypeOK, UInv, TagTypes, Times

(* What of the types is not in UInv, for a step that changes little of it.   *)
LEMMA TypeKept ==
  ASSUME TypeOK, UInv',
         pc' \in {"start", "step", "run", "next", "wait", "sleep", "advance", "done"},
         UNCHANGED <<world, scheduled>> \/ Tick,
         reactions' \in 0..MaxReactions, levels' \in 0..MaxLevels,
         next_tag' \in Tag, next_tag'.time \in Times
  PROVE  TypeOK'
<1>1. now' \in Times /\ options' \in Options /\ scheduled' \in 0..MaxScheduled
  <2>1. CASE UNCHANGED <<world, scheduled>>
    BY <2>1 DEF TypeOK, CommonTypeOK, world
  <2>2. CASE Tick
    <3>1. now' = now + 1 /\ now < Forever - 1 /\ UNCHANGED <<options, scheduled>>
      BY <2>2 DEF Tick
    <3>2. now \in 0..Forever /\ options \in Options /\ scheduled \in 0..MaxScheduled
      BY DEF TypeOK, CommonTypeOK, Times
    <3>3. now' \in 0..Forever
      BY <3>1, <3>2, CommonAssumption
    <3> QED
      BY <3>1, <3>2, <3>3 DEF Times
  <2> QED
    BY <2>1, <2>2
<1>2. TagTypes' /\ shutdowns' \in Nat
  BY DEF UInv, ShutdownInv
<1> QED
  BY <1>1, <1>2 DEF TypeOK, CommonTypeOK, TagTypes

(* Every step of the runtime keeps the types.                                *)
LEMMA NextType == UInv /\ TypeOK /\ [Next]_vars => TypeOK'
<1> SUFFICES ASSUME UInv, TypeOK, [Next]_vars PROVE TypeOK'
  OBVIOUS
<1>a. UInv'
  BY NextInv
<1>b. MaxReactions \in Nat /\ MaxLevels \in Nat
  BY UnthreadedAssumption
<1>1. CASE MainStarts \/ Advance
  <2>1. /\ UNCHANGED <<world, scheduled, next_tag>> /\ pc' = "step"
        /\ reactions' \in 0..MaxReactions /\ levels' \in 0..MaxLevels
    BY <1>1, <1>b DEF MainStarts, Advance, Goto, TypeOK
  <2> QED
    BY <1>a, <2>1, TypeKept DEF TypeOK
<1>2. CASE FindNoEvent
  <2>1. /\ UNCHANGED <<world, scheduled, reactions, levels>> /\ pc' = "wait"
        /\ next_tag' = TagOf(Forever, 0)
    BY <1>2 DEF FindNoEvent, Goto
  <2>2. next_tag' \in Tag /\ next_tag'.time \in Times
    BY <2>1, TagOfType, CommonAssumption DEF Times
  <2> QED
    BY <1>a, <2>1, <2>2, TypeKept DEF TypeOK
<1>3. CASE FindEvent
  <2>1. UNCHANGED <<world, scheduled, reactions, levels>> /\ pc' = "wait"
    BY <1>3 DEF FindEvent, Goto
  <2> QED
    BY <1>3, <1>a, <2>1, FindEventFacts, TypeKept DEF TypeOK
<1>4. CASE InvokeReaction \/ ReactionTriggers
  <2>1. UNCHANGED <<world, scheduled, next_tag>> /\ pc' = "run"
    BY <1>4 DEF InvokeReaction, ReactionTriggers, Goto, TypeOK
  <2>2. reactions' \in 0..MaxReactions /\ levels' \in 0..MaxLevels
    BY <1>4, <1>b DEF InvokeReaction, ReactionTriggers, TypeOK
  <2> QED
    BY <1>a, <2>1, <2>2, TypeKept DEF TypeOK
<1>5. CASE ReactionDone \/ StepDone \/ NoWait \/ SkipWait \/ Sleep \/ WakeUp
  <2>1. /\ UNCHANGED <<world, scheduled, reactions, levels, next_tag>>
        /\ pc' \in {"step", "next", "wait", "sleep", "advance", "done"}
    BY <1>5 DEF ReactionDone, StepDone, NoWait, SkipWait, Sleep, WakeUp, Goto
  <2> QED
    BY <1>a, <2>1, TypeKept DEF TypeOK
<1>6. CASE ReactionRequestsStop
  <2>1. UNCHANGED <<world, scheduled, pc, reactions, levels, next_tag>>
    BY <1>6 DEF ReactionRequestsStop
  <2> QED
    BY <1>a, <2>1, TypeKept DEF TypeOK
<1>7. ASSUME NEW t \in Times, ReactionSchedules(t)
      PROVE  TypeOK'
  <2>1. UNCHANGED <<world, pc, reactions, levels, next_tag>> /\ TagTypes' /\ shutdowns' \in Nat
    BY <1>7, <1>a DEF ReactionSchedules, UInv, ShutdownInv
  <2>2. scheduled' \in 0..MaxScheduled
    BY <1>7, CommonAssumption DEF ReactionSchedules, ScheduleAction, TypeOK, CommonTypeOK
  <2> QED
    BY <2>1, <2>2 DEF TypeOK, CommonTypeOK, TagTypes, world
<1>8. CASE Tick
  <2>1. UNCHANGED <<pc, reactions, levels, next_tag>>
    BY <1>8 DEF Tick
  <2> QED
    BY <1>8, <1>a, <2>1, TypeKept DEF TypeOK
<1>9. CASE UNCHANGED vars
  BY <1>9 DEF vars, world, tags, eventQ, TypeOK, CommonTypeOK
<1> QED
  BY <1>1, <1>2, <1>3, <1>4, <1>5, <1>6, <1>7, <1>8, <1>9, StepsOfNext DEF QuietStep

(* Type correctness: the reaction queue stays in its bounds and next_tag is  *)
(* a tag up to FOREVER.                                                      *)
THEOREM UnthreadedTypeCorrect == Spec => []TypeOK
BY InitInv, NextInv, InitType, NextType, PTL DEF Spec

-----------------------------------------------------------------------------
(* Physical time *)

(* When next advances the tag, physical time has reached it.                 *)
PhysicalInv ==
  /\ NotAhead
  /\ pc = "advance" => options.fast \/ next_tag.time <= now

(* Every step of the runtime keeps that.                                     *)
LEMMA NextPhysical == TypeOK /\ UInv /\ PhysicalInv /\ [Next]_vars => PhysicalInv'
<1> SUFFICES ASSUME TypeOK, UInv, PhysicalInv, [Next]_vars PROVE PhysicalInv'
  OBVIOUS
<1> USE DEF PhysicalInv, NotAhead
<1>1. CASE Advance
  <2>1. /\ pc = "advance" /\ pc' = "step" /\ UNCHANGED <<now, options>>
        /\ current_tag' = AdvancedTag(next_tag.time)
    BY <1>1 DEF Advance, Goto, world
  <2>2. current_tag'.time = next_tag.time
    BY <2>1 DEF AdvancedTag, NextMicrostep, TagOf, UInv, NextTagInv, InsideNext, TagTypes, Tag
  <2> QED
    BY <2>1, <2>2
<1>2. CASE NoWait \/ WakeUp
  BY <1>2 DEF NoWait, WakeUp, Goto, world, tags
<1>3. CASE Tick
  <2>1. now' = now + 1 /\ UNCHANGED <<options, current_tag, pc, next_tag>>
    BY <1>3 DEF Tick, tags
  <2>2. now \in Nat /\ current_tag.time \in Nat /\ next_tag.time \in Nat
    BY CommonAssumption DEF TypeOK, CommonTypeOK, Times, Tag
  <2> QED
    BY <2>1, <2>2
<1>4. CASE \/ MainStarts \/ FindNoEvent \/ FindEvent \/ InvokeReaction \/ ReactionDone
           \/ StepDone \/ SkipWait \/ Sleep
  BY <1>4 DEF MainStarts, FindNoEvent, FindEvent, InvokeReaction, ReactionDone, StepDone,
              SkipWait, Sleep, Goto, world, tags
<1>5. CASE ReactionTriggers \/ ReactionRequestsStop \/ UNCHANGED vars
  BY <1>5 DEF ReactionTriggers, ReactionRequestsStop, vars, world, tags
<1>6. ASSUME NEW t \in Times, ReactionSchedules(t)
      PROVE  PhysicalInv'
  BY <1>6 DEF ReactionSchedules, world, tags
<1> QED
  BY <1>1, <1>2, <1>3, <1>4, <1>5, <1>6, StepsOfNext DEF QuietStep

(* Unless -fast, no tag is executed before physical time has reached it,     *)
(* whatever waits are skipped because they are too short.                    *)
THEOREM UnthreadedNotAhead == Spec => []NotAhead
<1>1. Init => PhysicalInv
  BY DEF Init, CommonInit, PhysicalInv, NotAhead, TagOf
<1>2. PhysicalInv => NotAhead
  BY DEF PhysicalInv
<1> QED
  BY <1>1, <1>2, NextPhysical, InvHolds, UnthreadedTypeCorrect, PTL DEF Spec

-----------------------------------------------------------------------------
(* Results for the programs whose queue does not run empty                   *)

Fed == ~Starved

(* With an event at every call of next, the tag it computes is not after the *)
(* stop tag, and neither is the tag that is advanced to.                     *)
FInv ==
  /\ TagLeq(current_tag, stop_tag)
  /\ InsideNext => next_tag.time <= stop_tag.time

LStep == Logical!Next \/ UNCHANGED Logical!vars

(* At the start no tag is after the stop tag.                                *)
LEMMA InitFed == Init => FInv /\ Logical!Init
<1> SUFFICES ASSUME Init PROVE FInv /\ Logical!Init
  OBVIOUS
<1>1. stop_tag \in Tag
  BY InitInv DEF UInv, TagTypes
<1>2. Logical!Init
  BY <1>1 DEF Init, CommonInit, Logical!Init, Logical!Tag, Tag, Logical!TagOf, TagOf
<1>3. TagLeq(current_tag, stop_tag)
  BY CommonAssumption DEF Init, CommonInit, TagLeq, TagLess, TagOf, ForeverTag
<1> QED
  BY <1>2, <1>3 DEF Init, FInv, InsideNext

(* The advance is Advance of LogicalExecution.                               *)
LEMMA AdvanceFed ==
  ASSUME UInv, FInv, Advance
  PROVE  FInv' /\ LStep
<1> DEFINE t == next_tag.time
<1> USE DEF UInv
<1>1. /\ pc = "advance" /\ pc' = "step" /\ UNCHANGED stop_tag
      /\ current_tag' = AdvancedTag(t)
      /\ shutdowns' = IF TagLess(current_tag', stop_tag) THEN shutdowns ELSE shutdowns + 1
  BY DEF Advance, Goto
<1>2. /\ t \in Nat /\ current_tag.time <= t /\ t <= stop_tag.time
      /\ TagLess(current_tag, stop_tag) /\ shutdowns = 0
  BY <1>1, CommonAssumption DEF NextTagInv, InsideNext, Times, FInv, ShutdownInv, AtStopTag
<1>3. /\ current_tag' \in Tag
      /\ TagLess(current_tag, current_tag') /\ TagLeq(current_tag', stop_tag)
  BY <1>1, <1>2, AdvanceFacts DEF AdvancedTag, NextMicrostep, TagTypes
<1>4. TagLess(current_tag', stop_tag) <=> current_tag' # stop_tag
  BY <1>3, TagOrder DEF TagTypes, TagLeq
<1>5. (shutdowns > 0)' = (current_tag' = stop_tag)
  BY <1>1, <1>2, <1>4
<1>6. FInv'
  BY <1>1, <1>3 DEF FInv, InsideNext
<1>7. UNCHANGED (pc = "done")
  BY <1>1
<1>8. Logical!Advance
  BY <1>1, <1>3, <1>5, <1>7 DEF Logical!Advance, Logical!TagLess, TagLess, Logical!TagLeq, TagLeq
<1> QED
  BY <1>6, <1>8 DEF LStep, Logical!Next

(* A request to stop is StopEarlier, or a stutter.                           *)
LEMMA RequestStopFed ==
  ASSUME UInv, FInv, ReactionRequestsStop
  PROVE  FInv' /\ LStep
<1>1. UNCHANGED <<current_tag, shutdowns, pc>> /\ pc = "run" /\ StopAtNextMicrostep
  BY DEF ReactionRequestsStop
<1>2. \/ stop_tag' = stop_tag
      \/ TagLess(current_tag, stop_tag') /\ TagLess(stop_tag', stop_tag)
  BY <1>1, StopLowered DEF UInv
<1>3. FInv'
  BY <1>1, <1>2 DEF FInv, TagLeq, InsideNext
<1>4. LStep
  BY <1>1, <1>2 DEF LStep, Logical!Next, Logical!vars, Logical!StopEarlier, Logical!TagLess, TagLess
<1> QED
  BY <1>3, <1>4

(* The end of the main loop is End: the stop tag, after the shutdown         *)
(* reactions; every other quiet step is a stutter.                           *)
LEMMA QuietFed ==
  ASSUME UInv, FInv, QuietStep
  PROVE  FInv' /\ LStep
<1>1. UNCHANGED <<current_tag, stop_tag, shutdowns>>
  BY DEF QuietStep, Goto, tags, InvokeReaction, ReactionDone, StepDone, ReactionTriggers, NoWait,
         SkipWait, Sleep, WakeUp
<1>2. CASE StepDone
  <2>1. pc = "step" /\ pc' = IF AtStopTag THEN "done" ELSE "next"
    BY <1>2 DEF StepDone, Goto
  <2>2. FInv'
    BY <1>1, <2>1 DEF FInv, InsideNext
  <2>3. CASE AtStopTag
    <3>1. current_tag = stop_tag /\ shutdowns = 1 /\ pc' = "done"
      BY <2>1, <2>3 DEF AtStopTag, FInv, TagLeq, UInv, ShutdownInv
    <3> QED
      BY <1>1, <2>2, <3>1 DEF LStep, Logical!Next, Logical!End
  <2>4. CASE ~ AtStopTag
    BY <1>1, <2>1, <2>2, <2>4 DEF LStep, Logical!vars
  <2> QED
    BY <2>3, <2>4
<1>3. CASE ~ StepDone
  <2>1. /\ pc # "done" /\ pc' # "done"
        /\ InsideNext' => InsideNext /\ UNCHANGED next_tag
    BY <1>3 DEF QuietStep, InsideNext, Goto, InvokeReaction, ReactionDone, ReactionTriggers, NoWait,
                SkipWait, Sleep, WakeUp
  <2>2. FInv'
    BY <1>1, <2>1 DEF FInv
  <2> QED
    BY <1>1, <2>1, <2>2 DEF LStep, Logical!vars
<1> QED
  BY <1>2, <1>3

(* Every step of a program that is fed keeps FInv and is a step of           *)
(* LogicalExecution or a stutter.                                            *)
LEMMA NextFed == UInv /\ FInv /\ Fed /\ [Next]_vars => FInv' /\ LStep
<1> SUFFICES ASSUME UInv, FInv, Fed, [Next]_vars PROVE FInv' /\ LStep
  OBVIOUS
<1>1. CASE MainStarts
  <2>1. /\ shutdowns = 0 /\ shutdowns' = (IF AtStopTag THEN 1 ELSE 0)
        /\ UNCHANGED <<current_tag, stop_tag>> /\ pc = "start" /\ pc' = "step"
    BY <1>1, MainStartsInv DEF MainStarts, Goto
  <2>2. AtStopTag <=> current_tag = stop_tag
    BY TagOrder DEF AtStopTag, UInv, TagTypes, FInv, TagLeq
  <2>3. FInv'
    BY <2>1 DEF FInv, InsideNext
  <2> QED
    BY <2>1, <2>2, <2>3 DEF LStep, Logical!Next, Logical!ShutdownAtStart, Logical!vars
<1>2. ~ FindNoEvent
  BY DEF FindNoEvent, Goto, Fed, Starved
<1>3. CASE FindEvent
  <2>1. UNCHANGED tags /\ pc = "next" /\ pc' = "wait" /\ next_tag'.time <= stop_tag.time
    BY <1>3, FindEventFacts DEF FindEvent, Goto
  <2> QED
    BY <2>1 DEF FInv, InsideNext, LStep, Logical!vars, tags
<1>4. CASE Tick \/ UNCHANGED vars
  BY <1>4 DEF Tick, vars, tags, FInv, InsideNext, LStep, Logical!vars
<1>5. ASSUME NEW t \in Times, ReactionSchedules(t)
      PROVE  FInv' /\ LStep
  BY <1>5 DEF ReactionSchedules, tags, FInv, InsideNext, LStep, Logical!vars
<1> QED
  BY <1>1, <1>2, <1>3, <1>4, <1>5, StepsOfNext, AdvanceFed, RequestStopFed, QuietFed

(* A program whose event queue holds an event at every call of next          *)
(* implements LogicalExecution.                                              *)
THEOREM FedRefinement == Spec /\ []Fed => ImplementsLogicalExecution
<1>1. UInv /\ FInv /\ Fed /\ [Next]_vars => FInv' /\ [Logical!Next]_(Logical!vars)
  BY NextFed DEF LStep
<1> QED
  BY <1>1, InitFed, InvHolds, PTL DEF Spec, Logical!Spec, ImplementsLogicalExecution

(* It ends at the stop tag, with no reaction left in the queue and no event  *)
(* before the stop tag.                                                      *)
THEOREM FedEndsComplete == Spec /\ []Fed => []EndsComplete
<1>1. UInv /\ FInv /\ Fed /\ [Next]_vars => FInv'
  BY NextFed
<1>2. UInv /\ FInv => EndsComplete
  <2> SUFFICES ASSUME UInv, FInv, pc = "done"
               PROVE  reactions = 0 /\ current_tag = stop_tag
                      /\ \A t \in EventTimes : t >= stop_tag.time
    BY DEF EndsComplete
  <2>1. reactions = 0 /\ current_tag = stop_tag
    BY DEF UInv, DoneInv, AtStopTag, FInv, TagLeq
  <2> QED
    BY <2>1 DEF UInv, NoEventPassed
<1> QED
  BY <1>1, <1>2, InitFed, InvHolds, PTL DEF Spec
=============================================================================
