----------------------------- MODULE TagBarrier -----------------------------
(***************************************************************************)
(* The global tag barrier of reactor_threaded.c in a federated program.    *)
(* A thread that reads a message from the network raises the barrier when  *)
(* it knows the tag, and releases it once the event is in the queue; a     *)
(* stop request raises it until the stop tag is granted.  Those threads    *)
(* are external (federate.c); they use the barrier as the comments at its  *)
(* functions say.  The worker that advances the tag (_lf_next_locked, one  *)
(* at a time) gives up the mutex in wait_until and in the barrier's wait;  *)
(* everything else is under the mutex and is a step.                       *)
(*                                                                         *)
(* The event queue is a set of tags; a program that is federated always    *)
(* has keepalive.                                                          *)
(***************************************************************************)
EXTENDS Tags, FiniteSets

CONSTANTS
  Readers,       \* threads that raise the barrier
  Forever,       \* FOREVER; every time of the model is below it
  MaxMicrostep,  \* bound: requests are made before this microstep, for a
                 \* microstep up to it
  MaxMessages    \* bound on the barriers raised

ASSUME BarrierAssumption ==
  /\ IsFiniteSet(Readers)
  /\ Forever \in Nat \ {0, 1} /\ MaxMicrostep \in Nat /\ MaxMessages \in Nat

VARIABLES
  current_tag, stop_tag,
  events,        \* the tags of event_q
  requestors, horizon,   \* _lf_global_tag_advancement_barrier
  pc,            \* the worker: "start" in _lf_initialize_start_tag, "work",
                 \* "until" in wait_until, "barrier" in the barrier's wait, "done"
  proposed,      \* the local proposed_tag of the barrier's wait
  notified,      \* a broadcast has reached the waiting worker
  purpose,       \* purpose[r]: what reader r holds the barrier for: "message",
                 \* "stop" or "none"
  message,       \* message[r]: the tag of the message
  raisedAt,      \* raisedAt[r]: history: the tag at which r raised the barrier
  messages       \* barriers raised so far, for the bound

barrier == <<requestors, horizon>>
readers == <<purpose, message, raisedAt, messages>>
vars == <<current_tag, stop_tag, events, barrier, pc, proposed, notified, readers>>

ForeverTag == TagOf(Forever, MaxMicrostep)
StartTag == TagOf(0, 0)
RequestTags == [time : 0 .. Forever - 1, microstep : 0..MaxMicrostep]
NextMicrostep == TagOf(current_tag.time, current_tag.microstep + 1)

TypeOK ==
  /\ current_tag \in Tag /\ stop_tag \in Tag /\ horizon \in Tag /\ proposed \in Tag
  /\ events \subseteq Tag
  /\ requestors \in Nat /\ messages \in 0..MaxMessages
  /\ pc \in {"start", "work", "until", "barrier", "done"}
  /\ notified \in BOOLEAN
  /\ purpose \in [Readers -> {"none", "message", "stop"}]
  /\ message \in [Readers -> Tag] /\ raisedAt \in [Readers -> Tag]

Init ==
  /\ current_tag = StartTag
  /\ stop_tag \in {ForeverTag, TagOf(Forever - 1, 0)}
  /\ events \in {{}, {TagOf(1, 0)}}
  /\ requestors = 0 /\ horizon = ForeverTag
  /\ pc = "start" /\ proposed = StartTag /\ notified = FALSE
  /\ purpose = [r \in Readers |-> "none"]
  /\ message = [r \in Readers |-> StartTag]
  /\ raisedAt = [r \in Readers |-> StartTag]
  /\ messages = 0

-----------------------------------------------------------------------------
(* The barrier *)

(* Faulty variant: a tag that is not in the future raises no barrier. *)
IncrementFuture(future_tag) ==
  /\ requestors' = requestors + 1
  /\ horizon' = LET future == TagMin(future_tag, stop_tag)
                IN IF TagLess(current_tag, future) THEN TagMin(future, horizon) ELSE horizon

(* _lf_increment_global_tag_barrier_already_locked *)
Increment(future_tag) ==
  /\ requestors' = requestors + 1
  /\ horizon' = LET future == TagMin(future_tag, stop_tag)
                IN IF TagLess(current_tag, future) THEN TagMin(future, horizon) ELSE NextMicrostep

(* Faulty variant: the waiting worker is not told. *)
DecrementSilent ==
  /\ requestors' = requestors - 1
  /\ horizon' = IF requestors' = 0 THEN ForeverTag ELSE horizon
  /\ UNCHANGED notified

(* Faulty variant: the horizon goes with the first requestor. *)
DecrementReset ==
  /\ requestors' = requestors - 1
  /\ horizon' = ForeverTag
  /\ notified' = (notified \/ (requestors' = 0 /\ pc = "barrier"))

(* _lf_decrement_global_tag_barrier_locked *)
Decrement ==
  /\ requestors' = requestors - 1
  /\ horizon' = IF requestors' = 0 THEN ForeverTag ELSE horizon
  /\ notified' = (notified \/ (requestors' = 0 /\ pc = "barrier"))

(* _lf_wait_on_global_tag_barrier has to wait before the tag g. *)
Blocked(g) ==
  /\ requestors > 0
  /\ TagMin(g, stop_tag).time # Forever
  /\ TagLeq(horizon, TagMin(g, stop_tag))

-----------------------------------------------------------------------------
(* The threads that raise it *)

(* A message with tag g has been read in part. *)
RaiseForMessage(r, g) ==
  /\ purpose[r] = "none" /\ messages < MaxMessages
  /\ current_tag.microstep < MaxMicrostep
  /\ Increment(g)
  /\ purpose' = [purpose EXCEPT ![r] = "message"]
  /\ message' = [message EXCEPT ![r] = g]
  /\ raisedAt' = [raisedAt EXCEPT ![r] = current_tag]
  /\ messages' = messages + 1
  /\ UNCHANGED <<current_tag, stop_tag, events, pc, proposed, notified>>

(* The rest has been read: _lf_schedule_at_tag, which refuses tags that are  *)
(* not in the future or after the stop tag, and the barrier is released.     *)
Deliver(r) ==
  /\ purpose[r] = "message"
  /\ events' = IF TagLess(current_tag, message[r]) /\ TagLeq(message[r], stop_tag)
               THEN events \cup {message[r]} ELSE events
  /\ Decrement
  /\ purpose' = [purpose EXCEPT ![r] = "none"]
  /\ UNCHANGED <<current_tag, stop_tag, pc, proposed, message, raisedAt, messages>>

(* lf_request_stop: the barrier is raised at the current tag until the stop  *)
(* tag is known.                                                             *)
RaiseForStop(r) ==
  /\ purpose[r] = "none" /\ messages < MaxMessages
  /\ current_tag.microstep < MaxMicrostep
  /\ TagLess(current_tag, stop_tag)
  /\ Increment(current_tag)
  /\ purpose' = [purpose EXCEPT ![r] = "stop"]
  /\ raisedAt' = [raisedAt EXCEPT ![r] = current_tag]
  /\ messages' = messages + 1
  /\ UNCHANGED <<current_tag, stop_tag, events, pc, proposed, notified, message>>

(* The granted stop tag is in the future of every federate. *)
GrantStop(r, g) ==
  /\ purpose[r] = "stop" /\ TagLess(current_tag, g)
  /\ stop_tag' = TagMin(g, stop_tag)
  /\ Decrement
  /\ purpose' = [purpose EXCEPT ![r] = "none"]
  /\ UNCHANGED <<current_tag, events, pc, proposed, message, raisedAt, messages>>

-----------------------------------------------------------------------------
(* The worker *)

(* get_next_event_tag *)
NextEventTag ==
  LET first == CHOOSE g \in events \cup {ForeverTag} :
                 \A o \in events \cup {ForeverTag} : TagLeq(g, o)
  IN TagMin(stop_tag, IF first.time = Forever THEN ForeverTag
                      ELSE IF first.time = current_tag.time THEN NextMicrostep
                      ELSE TagOf(first.time, 0))

(* _lf_initialize_start_tag waits on the barrier for the start tag; the      *)
(* horizon is never that early (BarrierAccount).                             *)
Start ==
  /\ pc = "start" /\ ~Blocked(StartTag)
  /\ pc' = "work"
  /\ UNCHANGED <<current_tag, stop_tag, events, barrier, proposed, notified, readers>>

(* _lf_next_locked up to wait_until, which blocks for good before FOREVER. *)
BeginNext ==
  /\ pc = "work"
  /\ pc' = IF TagLeq(stop_tag, current_tag) THEN "done" ELSE "until"
  /\ UNCHANGED <<current_tag, stop_tag, events, barrier, proposed, notified, readers>>

(* The end of _lf_next_locked, for the next tag g. *)
Commit(g) ==
  /\ pc' = "work"
  /\ current_tag' = IF current_tag.time < g.time THEN TagOf(g.time, 0) ELSE NextMicrostep
  /\ events' = events \ {current_tag'}
  /\ UNCHANGED <<stop_tag, barrier, proposed, readers>>

(* Physical time has reached the next tag. *)
ReachTime ==
  /\ pc = "until" /\ NextEventTag.time < Forever
  /\ IF Blocked(NextEventTag)
     THEN /\ pc' = "barrier" /\ proposed' = NextEventTag
          /\ UNCHANGED <<current_tag, stop_tag, events, barrier, notified, readers>>
     ELSE Commit(NextEventTag) /\ UNCHANGED notified

(* Faulty variant: after the wait the worker goes on to the proposed tag. *)
WakeToProposed ==
  /\ pc = "barrier" /\ notified
  /\ notified' = FALSE
  /\ Commit(TagMin(proposed, stop_tag))

(* lf_cond_wait returns, notified or not; the stop tag may have changed, and *)
(* the next tag is determined again.                                         *)
Wake ==
  /\ pc = "barrier"
  /\ notified' = FALSE
  /\ IF Blocked(TagMin(proposed, stop_tag))
     THEN /\ proposed' = TagMin(proposed, stop_tag)
          /\ UNCHANGED <<current_tag, stop_tag, events, barrier, pc, readers>>
     ELSE Commit(NextEventTag)

(* A reaction or a physical action of this federate. *)
ScheduleLocal(g) ==
  /\ pc \in {"work", "until", "barrier"}
  /\ messages < MaxMessages /\ messages' = messages + 1
  /\ TagLess(current_tag, g) /\ TagLeq(g, stop_tag)
  /\ events' = events \cup {g}
  /\ UNCHANGED <<current_tag, stop_tag, barrier, pc, proposed, notified, purpose, message, raisedAt>>

(* At the stop tag, or nothing to wait for but messages that do not come. *)
Idle == (pc = "done" \/ (pc = "until" /\ NextEventTag.time = Forever)) /\ UNCHANGED vars

Next ==
  \/ \E r \in Readers :
       \/ Deliver(r)
       \/ RaiseForStop(r)
       \/ \E g \in RequestTags : RaiseForMessage(r, g) \/ GrantStop(r, g)
  \/ \E g \in RequestTags : ScheduleLocal(g)
  \/ Start \/ BeginNext \/ ReachTime \/ Wake
  \/ Idle

(* Messages are read to the end, stop tags are granted, the condition        *)
(* variable wakes a waiter that was notified (NotifiedReturns of XmosCond).  *)
Fairness ==
  /\ \A r \in Readers : WF_vars(Deliver(r)) /\ WF_vars(\E g \in RequestTags : GrantStop(r, g))
  /\ WF_vars(notified /\ Wake)

Spec == Init /\ [][Next]_vars /\ Fairness

-----------------------------------------------------------------------------
(* Properties *)

(* A message whose tag was in the future when its barrier was raised is      *)
(* still in time when it has been read.                                      *)
MessagesInTime ==
  \A r \in Readers :
    purpose[r] = "message" /\ TagLess(raisedAt[r], message[r]) => TagLess(current_tag, message[r])

(* A barrier raised for a tag that has been reached freezes the tag, and so  *)
(* does a stop request until the stop tag is granted.                        *)
LateFreezes ==
  \A r \in Readers :
    \/ purpose[r] = "none"
    \/ purpose[r] = "message" /\ TagLess(raisedAt[r], message[r])
    \/ current_tag = raisedAt[r]

(* The barrier is held for those who raised it and for nobody else, and the  *)
(* tag stays short of the horizon, whatever is raised, released or granted   *)
(* during the waits; decrement's "mismatched use" is unreachable.            *)
BarrierAccount ==
  /\ requestors = Cardinality({r \in Readers : purpose[r] # "none"})
  /\ requestors = 0 => horizon = ForeverTag
  /\ TagLess(current_tag, horizon)

BarrierConsistent == TypeOK /\ BarrierAccount

(* The wait on the barrier ends, if not forever new barriers are raised. *)
BarrierWaitEnds == pc = "barrier" ~> pc # "barrier"
=============================================================================
