---------------------------- MODULE ReactorCommon ----------------------------
(***************************************************************************)
(* What both runtimes share, from reactor_common.c: the command line, the  *)
(* current tag and the stop tag, and the event queue.  Of the queue a      *)
(* model keeps the times: which timers have an event at a time, and how    *)
(* many microsteps the longest chain of action events there has.           *)
(***************************************************************************)
EXTENDS Tags

CONSTANTS
  Options,       \* command lines, as [duration, keepalive, fast] records:
                 \* -o, the timeout, or Forever; -k; -f
  Timers,        \* [offset, period] records; period 0 fires once
  Forever,       \* FOREVER; every time of the model is below it
  MaxMicrostep,  \* UINT_MAX, the microstep of FOREVER_TAG
  MinSleep,      \* MIN_SLEEP_DURATION
  MaxScheduled   \* bound on the actions scheduled by reactions

ASSUME CommonAssumption ==
  /\ Forever \in Nat \ {0} /\ MaxMicrostep \in Nat \ {0}
  /\ Options \subseteq [duration : 0..Forever, keepalive : BOOLEAN, fast : BOOLEAN]
  /\ Timers \subseteq [offset : 0..Forever, period : 0..Forever]
  /\ MinSleep \in Nat \ {0}
  /\ MaxScheduled \in Nat

VARIABLES
  now,               \* physical time
  options,           \* the command line: duration, keepalive_specified, fast
  current_tag, stop_tag,
  timerEvents,       \* timerEvents[t]: timers with an event on event_q at t
  actionEvents,      \* actionEvents[t]: length of the longest chain of action
                     \* events on event_q at t, one per microstep
  shutdowns,         \* calls of _lf_trigger_shutdown_reactions
  scheduled          \* actions scheduled so far, for the bound

Times == 0..Forever
ForeverTag == TagOf(Forever, MaxMicrostep)

world == <<now, options>>
eventQ == <<timerEvents, actionEvents>>
tags == <<current_tag, stop_tag, shutdowns>>

CommonTypeOK ==
  /\ now \in Times /\ options \in Options
  /\ current_tag \in Tag /\ stop_tag \in Tag
  /\ timerEvents \in [Times -> SUBSET Timers]
  /\ actionEvents \in [Times -> Nat]
  /\ shutdowns \in Nat
  /\ scheduled \in 0..MaxScheduled

(* process_args and initialize(). *)
CommonInit ==
  /\ now = 0 /\ options \in Options
  /\ current_tag = TagOf(0, 0)
  /\ stop_tag = IF options.duration = Forever THEN ForeverTag ELSE TagOf(options.duration, 0)
  /\ timerEvents = [t \in Times |-> {}]
  /\ actionEvents = [t \in Times |-> 0]
  /\ shutdowns = 0
  /\ scheduled = 0

(* The first event of a timer after the start tag; none for a timer that     *)
(* fires at the start only.                                                  *)
FirstFiring(tm) == IF tm.offset = 0 THEN tm.period ELSE tm.offset

InitializeTimers ==
  timerEvents' = [t \in Times |-> {tm \in Timers : t > 0 /\ t < Forever /\ FirstFiring(tm) = t}]

-----------------------------------------------------------------------------
(* The tags *)

AtStopTag == ~TagLess(current_tag, stop_tag)

NextMicrostep == TagOf(current_tag.time, current_tag.microstep + 1)

(* _lf_set_stop_tag to the next microstep, unless the stop tag is earlier. *)
StopAtNextMicrostep == stop_tag' = TagMin(NextMicrostep, stop_tag)

(* Faulty variant: the microstep is not incremented. *)
AdvancedTagSameMicrostep(t) ==
  IF current_tag.time < t THEN TagOf(t, 0) ELSE current_tag

(* _lf_advance_logical_time *)
AdvancedTag(t) ==
  IF current_tag.time < t THEN TagOf(t, 0) ELSE NextMicrostep

-----------------------------------------------------------------------------
(* The event queue *)

EventTimes == {t \in Times : timerEvents[t] # {} \/ actionEvents[t] > 0}

(* Faulty variant: the queue is sorted the other way round. *)
HeadTimeLatest == CHOOSE t \in EventTimes : \A u \in EventTimes : t >= u

HeadTime == CHOOSE t \in EventTimes : \A u \in EventTimes : t <= u

(* The tag at which an event at time t would execute. *)
EventTag(t) ==
  TagOf(t, IF t = current_tag.time THEN current_tag.microstep + 1 ELSE 0)

(* _lf_schedule of an action for time t: a new event, or one behind the      *)
(* chain of its trigger.  Rejected after the stop tag.                       *)
ScheduleAction(t) ==
  /\ scheduled < MaxScheduled
  /\ t \in current_tag.time .. Forever - 1
  /\ t <= stop_tag.time
  /\ \E n \in {1, actionEvents[t] + 1} :
       /\ n > actionEvents[t] => ~TagLess(stop_tag, TagOf(t, n - 1))
       /\ actionEvents' = [actionEvents EXCEPT ![t] = IF n > @ THEN n ELSE @]
  /\ scheduled' = scheduled + 1
  /\ UNCHANGED timerEvents

(* Faulty variant: the timers are taken from the queue for good. *)
PopEventsOnce(t) ==
  /\ timerEvents' = [timerEvents EXCEPT ![t] = {}]
  /\ actionEvents' = [actionEvents EXCEPT ![t] = IF @ > 0 THEN @ - 1 ELSE 0]

(* _lf_pop_events at time t: one event of every chain; a periodic timer is   *)
(* scheduled again, if that is not after the stop tag.                       *)
PopEvents(t) ==
  /\ timerEvents' =
       [u \in Times |->
          (IF u = t THEN {} ELSE timerEvents[u])
          \cup {tm \in timerEvents[t] : tm.period > 0 /\ u = t + tm.period
                                        /\ u <= stop_tag.time /\ u < Forever}]
  /\ actionEvents' = [actionEvents EXCEPT ![t] = IF @ > 0 THEN @ - 1 ELSE 0]

-----------------------------------------------------------------------------
(* A property of both runtimes *)

(* No event is left behind by the tag, so get_next_event_tag never meets one *)
(* in the past (its fatal error), whoever schedules and stops meanwhile.     *)
NoEventPassed == \A t \in EventTimes : t >= current_tag.time
=============================================================================
