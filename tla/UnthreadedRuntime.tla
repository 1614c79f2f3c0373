-------------------------- MODULE UnthreadedRuntime --------------------------
(***************************************************************************)
(* The single-threaded runtime of reactor.c: lf_reactor_c_main alternates  *)
(* _lf_do_step, which empties the reaction queue, and next, which finds    *)
(* the next tag, sleeps until physical time has reached it and advances.   *)
(*                                                                         *)
(* The model is of a build without assertions: with them every call of     *)
(* lf_critical_section_enter, the first statement of next, stops the       *)
(* program (lf_xmos_support.c).  Nothing runs besides the main loop: there *)
(* is no interrupt handler that schedules.                                 *)
(***************************************************************************)
EXTENDS ReactorCommon

CONSTANTS
  MaxReactions,  \* bound on the reactions queued at a time
  MaxLevels      \* bound on the levels of the reaction graph

ASSUME UnthreadedAssumption == MaxReactions \in Nat /\ MaxLevels \in Nat

VARIABLES
  pc,         \* where the program is
  reactions,  \* the size of reaction_q
  levels,     \* levels left at the current tag
  next_tag    \* the local variable of next

vars == <<world, tags, eventQ, scheduled, pc, reactions, levels, next_tag>>

TypeOK ==
  /\ CommonTypeOK
  /\ pc \in {"start", "step", "run", "next", "wait", "sleep", "advance", "done"}
  /\ reactions \in 0..MaxReactions
  /\ levels \in 0..MaxLevels
  /\ next_tag \in Tag /\ next_tag.time \in Times

Goto(from, to) == pc = from /\ pc' = to

Init ==
  /\ CommonInit
  /\ pc = "start"
  /\ reactions = 0
  /\ levels = MaxLevels
  /\ next_tag = TagOf(0, 0)

-----------------------------------------------------------------------------
(* Faulty variant: the test for a timeout of zero is missing. *)
MainStartsNoShutdown ==
  /\ Goto("start", "step")
  /\ InitializeTimers
  /\ reactions' \in 0..MaxReactions
  /\ UNCHANGED <<shutdowns, world, current_tag, stop_tag, actionEvents, scheduled, levels, next_tag>>

(* lf_reactor_c_main, up to the first step. *)
MainStarts ==
  /\ Goto("start", "step")
  /\ InitializeTimers
  /\ reactions' \in 0..MaxReactions
  /\ shutdowns' = IF AtStopTag THEN shutdowns + 1 ELSE shutdowns
  /\ UNCHANGED <<world, current_tag, stop_tag, actionEvents, scheduled, levels, next_tag>>

-----------------------------------------------------------------------------
(* _lf_do_step *)

InvokeReaction ==
  /\ Goto("step", "run")
  /\ reactions > 0
  /\ reactions' = reactions - 1
  /\ UNCHANGED <<world, tags, eventQ, scheduled, levels, next_tag>>

ReactionRequestsStop ==
  /\ pc = "run"
  /\ StopAtNextMicrostep
  /\ UNCHANGED <<world, current_tag, shutdowns, eventQ, scheduled, pc, reactions, levels, next_tag>>

ReactionSchedules(t) ==
  /\ pc = "run"
  /\ ScheduleAction(t)
  /\ UNCHANGED <<world, tags, pc, reactions, levels, next_tag>>

(* schedule_output_reactions: a reaction of a later level is triggered. *)
ReactionTriggers ==
  /\ pc = "run"
  /\ levels > 0 /\ reactions < MaxReactions
  /\ reactions' = reactions + 1
  /\ levels' = levels - 1
  /\ UNCHANGED <<world, tags, eventQ, scheduled, pc, next_tag>>

ReactionDone ==
  /\ Goto("run", "step")
  /\ UNCHANGED <<world, tags, eventQ, scheduled, reactions, levels, next_tag>>

(* Faulty variant: the last step is taken for one before the stop tag. *)
StepDoneOnTime ==
  /\ Goto("step", IF TagLess(stop_tag, current_tag) THEN "done" ELSE "next")
  /\ reactions = 0
  /\ UNCHANGED <<world, tags, eventQ, scheduled, reactions, levels, next_tag>>

(* The reaction queue is empty: the program ends at the stop tag. *)
StepDone ==
  /\ Goto("step", IF AtStopTag THEN "done" ELSE "next")
  /\ reactions = 0
  /\ UNCHANGED <<world, tags, eventQ, scheduled, reactions, levels, next_tag>>

-----------------------------------------------------------------------------
(* next *)

(* An empty queue: without keepalive the stop tag moves to the next          *)
(* microstep, but next_tag is FOREVER in any case.                           *)
FindNoEvent ==
  /\ Goto("next", "wait")
  /\ EventTimes = {}
  /\ IF options.keepalive THEN UNCHANGED stop_tag ELSE StopAtNextMicrostep
  /\ next_tag' = TagOf(Forever, 0)
  /\ UNCHANGED <<world, current_tag, shutdowns, eventQ, scheduled, reactions, levels>>

(* Faulty variant: the tag of the event is not compared with the stop tag. *)
FindEventUncapped ==
  /\ Goto("next", "wait")
  /\ EventTimes # {}
  /\ next_tag' = EventTag(HeadTime)
  /\ UNCHANGED <<world, tags, eventQ, scheduled, reactions, levels>>

(* An event: its tag, or the stop tag if that is earlier. *)
FindEvent ==
  /\ Goto("next", "wait")
  /\ EventTimes # {}
  /\ next_tag' = TagMin(EventTag(HeadTime), stop_tag)
  /\ UNCHANGED <<world, tags, eventQ, scheduled, reactions, levels>>

(* wait_until: no wait for a time that has come ... *)
NoWait ==
  /\ Goto("wait", "advance")
  /\ options.fast \/ next_tag.time <= now
  /\ UNCHANGED <<world, tags, eventQ, scheduled, reactions, levels, next_tag>>

(* Faulty variant: a skipped wait counts as a finished one. *)
SkipWaitFinished ==
  /\ Goto("wait", "advance")
  /\ ~options.fast /\ now < next_tag.time /\ next_tag.time < now + MinSleep
  /\ UNCHANGED <<world, tags, eventQ, scheduled, reactions, levels, next_tag>>

(* ... a wait that is too short is skipped, and next starts over ... *)
SkipWait ==
  /\ Goto("wait", "next")
  /\ ~options.fast /\ now < next_tag.time /\ next_tag.time < now + MinSleep
  /\ UNCHANGED <<world, tags, eventQ, scheduled, reactions, levels, next_tag>>

(* ... and lf_sleep_until for the rest. *)
Sleep ==
  /\ Goto("wait", "sleep")
  /\ ~options.fast /\ now + MinSleep <= next_tag.time
  /\ UNCHANGED <<world, tags, eventQ, scheduled, reactions, levels, next_tag>>

WakeUp ==
  /\ Goto("sleep", "advance")
  /\ next_tag.time <= now
  /\ UNCHANGED <<world, tags, eventQ, scheduled, reactions, levels, next_tag>>

(* The rest of next: advance, shutdown reactions, events of the new time.    *)
Advance ==
  /\ Goto("advance", "step")
  /\ current_tag' = AdvancedTag(next_tag.time)
  /\ shutdowns' = IF TagLess(current_tag', stop_tag) THEN shutdowns ELSE shutdowns + 1
  /\ PopEvents(next_tag.time)
  /\ reactions' \in IF next_tag.time \in EventTimes \/ shutdowns' > shutdowns
                    THEN 0..MaxReactions ELSE {0}
  /\ levels' = MaxLevels
  /\ UNCHANGED <<world, stop_tag, scheduled, next_tag>>

-----------------------------------------------------------------------------
Tick ==
  /\ now < Forever - 1
  /\ now' = now + 1
  /\ UNCHANGED <<options, tags, eventQ, scheduled, pc, reactions, levels, next_tag>>

(* The end of the program, or a sleep until the end of time. *)
Terminated ==
  /\ pc = "done" \/ (pc = "sleep" /\ next_tag.time = Forever /\ now = Forever - 1)
  /\ UNCHANGED vars

Progress ==
  \/ MainStarts \/ InvokeReaction \/ ReactionDone \/ StepDone
  \/ FindNoEvent \/ FindEvent \/ NoWait \/ SkipWait \/ Sleep \/ WakeUp \/ Advance

Next ==
  \/ Progress
  \/ ReactionRequestsStop \/ (\E t \in Times : ReactionSchedules(t)) \/ ReactionTriggers
  \/ Tick \/ Terminated

Spec == Init /\ [][Next]_vars

(* The only thread runs, reactions return, physical time goes on. *)
FairSpec == Spec /\ WF_vars(Progress) /\ WF_vars(Tick)

-----------------------------------------------------------------------------
(* Properties *)

(* Whatever the program, the shutdown reactions are triggered once, when the *)
(* stop tag is reached, and the program does not end before.                 *)
ShutdownOnce ==
  /\ shutdowns \in {0, 1}
  /\ pc # "start" => (shutdowns = 1 <=> AtStopTag)
  /\ pc = "done" => shutdowns = 1

(* At the end no reaction is left in the queue, no event before the stop     *)
(* tag, and the last tag is the stop tag.                                    *)
EndsComplete ==
  pc = "done" =>
    /\ reactions = 0
    /\ current_tag = stop_tag
    /\ \A t \in EventTimes : t >= stop_tag.time

(* Unless -fast, no tag is executed before physical time has reached it,     *)
(* although waits that are too short are skipped.                            *)
NotAhead == ~options.fast => current_tag.time <= now

(* The runtime implements LogicalExecution; with -fast only as long as its   *)
(* event queue does not run empty before the stop tag.                       *)
Logical == INSTANCE LogicalExecution
  WITH tag <- current_tag, stop <- stop_tag, shutdown <- (shutdowns > 0), ended <- (pc = "done")
ImplementsLogicalExecution == Logical!Spec

(* A program with a timeout ends, if its event queue does not run empty      *)
(* before the stop tag.                                                      *)
Starved == pc = "next" /\ EventTimes = {}
FedProgramEnds == <>(pc = "done" \/ Starved)
=============================================================================
