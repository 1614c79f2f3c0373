----------------------------- MODULE EventQueue -----------------------------
(***************************************************************************)
(* The event queue of reactor_common.c: events in event_q by time, chains  *)
(* of events in superdense time through their `next' pointers, dummy       *)
(* events as spacers, the recycling of events, `last' of a trigger, and    *)
(* the tokens the events carry.                                            *)
(*                                                                         *)
(* The first event of a chain fires at the next tag at its time, each      *)
(* further one a microstep later: _lf_pop_events puts the rest of a chain  *)
(* back.  That loop is a step per event, with popping = TRUE; the mutex is *)
(* held, so nothing else happens meanwhile.  pqueue.c is external: a set,  *)
(* from which any element of the least priority is taken.                  *)
(*                                                                         *)
(* The caller's rules are guards: reactions schedule between tags; network *)
(* input goes through _lf_schedule_at_tag in order.  Time and the stop tag *)
(* are as in ReactorCommon; the stop tag does not move here.               *)
(***************************************************************************)
EXTENDS Tokens, Tags, FiniteSetsExt

CONSTANTS
  Events,        \* the memory for event_t structs
  Triggers,
  Programs,      \* functions from the triggers of a program to their fields
  StartTime,     \* larger than every minimum spacing, as physical time is
  StopTags,      \* the stop tags of the program
  Delays,        \* extra delays of calls of lf_schedule
  MaxMicrostep   \* bound: the API is called before this microstep only, and
                 \* network input is for a microstep up to it

ASSUME QueueAssumption ==
  /\ NULL \notin Events \cup Triggers
  /\ IsFiniteSet(Events) /\ Events # {} /\ IsFiniteSet(Tokens)
  /\ StartTime \in Nat /\ StopTags \subseteq Tag /\ Delays \subseteq Nat
  /\ MaxMicrostep \in Nat

Kinds == {"timer", "logical", "physical", "network"}

(* The fields of trigger_t that matter.  period is the minimum spacing of an *)
(* action, -1 for none; payload: it has a type, and starts with a template.   *)
Fields == [kind : Kinds, offset : Nat, period : Int,
           policy : {"defer", "drop", "replace"}, payload : BOOLEAN]

Injective(f) == \A x, y \in DOMAIN f : f[x] = f[y] => x = y

(* Who has a type starts with a template. *)
Templates(p) == {f \in [{tr \in DOMAIN p : p[tr].payload} -> Tokens] : Injective(f)}

ASSUME ProgramsAssumption ==
  \A p \in Programs :
    /\ DOMAIN p \subseteq Triggers /\ IsFiniteSet(DOMAIN p) /\ p \in [DOMAIN p -> Fields]
    /\ Templates(p) # {}

VARIABLES
  prog,         \* the triggers of the program
  current_tag, stop_tag,
  ev,           \* ev[e]: the fields of event e
  calloced,     \* events obtained from calloc
  event_q, next_q, recycle_q,
  last,         \* last[tr]: trigger->last
  template,     \* template[tr]: trigger->token
  present,      \* triggers whose status is present
  asked,        \* asked[tr]: the last tag that network input was given
  store,        \* the tokens
  popping       \* _lf_pop_events is running

queueVars == <<ev, calloced, event_q, next_q, recycle_q, last>>
vars == <<prog, current_tag, stop_tag, queueVars, template, present, asked, store, popping>>

EventFields ==
  [time : Nat, trigger : Triggers \cup {NULL}, is_dummy : BOOLEAN,
   next : Events \cup {NULL}, token : Tokens \cup {NULL}]

Zeroed == [time |-> 0, trigger |-> NULL, is_dummy |-> FALSE, next |-> NULL, token |-> NULL]

EventOf(tr, t, tok) == [Zeroed EXCEPT !.time = t, !.trigger = tr, !.token = tok]

TypeOK ==
  /\ \A tr \in DOMAIN prog : tr \in Triggers /\ prog[tr] \in Fields
  /\ current_tag \in Tag /\ stop_tag \in Tag
  /\ ev \in [Events -> EventFields]
  /\ calloced \subseteq Events
  /\ event_q \subseteq Events /\ next_q \subseteq Events /\ recycle_q \subseteq Events
  /\ last \in [DOMAIN prog -> Events \cup {NULL}]
  /\ template \in [DOMAIN prog -> Tokens \cup {NULL}]
  /\ present \subseteq DOMAIN prog
  /\ asked \in [DOMAIN prog -> Tag]
  /\ store \in Store
  /\ popping \in BOOLEAN

Timers == {tr \in DOMAIN prog : prog[tr].kind = "timer"}

(* _lf_initialize_timer: the first event of a timer, if it has one after the *)
(* start.                                                                    *)
FirstDelay(tr) == IF prog[tr].offset = 0 THEN prog[tr].period ELSE prog[tr].offset
Init ==
  /\ prog \in Programs /\ stop_tag \in StopTags
  /\ current_tag = TagOf(StartTime, 0)
  /\ \E first \in [{tr \in Timers : FirstDelay(tr) > 0} -> Events] :
       /\ Injective(first)
       /\ event_q = {first[tr] : tr \in DOMAIN first}
       /\ ev = [e \in Events |->
                  IF \E tr \in DOMAIN first : first[tr] = e
                  THEN LET tr == CHOOSE x \in DOMAIN first : first[x] = e
                       IN EventOf(tr, StartTime + FirstDelay(tr), NULL)
                  ELSE Zeroed]
  /\ calloced = event_q
  /\ next_q = {} /\ recycle_q = {}
  /\ last = [tr \in DOMAIN prog |-> NULL]
  /\ LET own == CHOOSE f \in Templates(prog) : TRUE IN
       /\ template = [tr \in DOMAIN prog |-> IF prog[tr].payload THEN own[tr] ELSE NULL]
       /\ store = [token |-> [t \in Tokens |-> Blank],
                   allocated |-> {own[tr] : tr \in DOMAIN own},
                   bin |-> <<>>, count |-> 0]
  /\ present = {}
  /\ asked = [tr \in DOMAIN prog |-> current_tag]
  /\ popping = FALSE

-----------------------------------------------------------------------------
(* Events and chains *)

(* _lf_get_new_event takes a recycled event if there is one.  NewEvents(n):  *)
(* what n calls may return.                                                  *)
NewEvents(n) ==
  {s \in [1..n -> recycle_q \cup (Events \ calloced)] :
     /\ Injective(s)
     /\ \A i \in 1..n : s[i] \in recycle_q <=> i <= Cardinality(recycle_q)}

(* Faulty variant: recycled events are peeked at instead of popped. *)
UsePeeked(n, f) ==
  /\ ev' = f
  /\ calloced' = calloced \cup {n[i] : i \in DOMAIN n}
  /\ UNCHANGED recycle_q

(* The events n have left recycle_q and are in the queue with the fields f. *)
Use(n, f) ==
  LET used == {n[i] : i \in DOMAIN n} IN
  /\ ev' = f
  /\ calloced' = calloced \cup used
  /\ recycle_q' = recycle_q \ used

(* _lf_recycle_event of a new event that is not needed after all. *)
GiveBack(e) ==
  /\ calloced' = calloced \cup {e}
  /\ recycle_q' = recycle_q \cup {e}
  /\ UNCHANGED <<event_q, last>>

(* The n-th event of the chain that starts with head. *)
Follow(head, n) ==
  LET f[i \in 0 .. Cardinality(Events)] ==
        IF i = 0 THEN head ELSE LET p == f[i - 1] IN IF p = NULL THEN NULL ELSE ev[p].next
  IN f[n]

Chain(head) == {i \in 0 .. Cardinality(Events) - 1 : Follow(head, i) # NULL}
ChainLength(head) == Cardinality(Chain(head))
LastOf(head) == Follow(head, ChainLength(head) - 1)

(* pqueue_find_equal_same_priority: an event of the same trigger and time. *)
Found(tr, t) == {h \in event_q : ev[h].trigger = tr /\ ev[h].time = t}

Queued(x) == Found(ev[x].trigger, ev[x].time) # {}

(* The microstep at which the head of a chain at time t fires. *)
HeadMicrostep(t) == IF t = current_tag.time THEN current_tag.microstep + 1 ELSE 0

AfterStop(g) == TagLess(stop_tag, g)

NextMicrostep == TagOf(current_tag.time, current_tag.microstep + 1)

-----------------------------------------------------------------------------
(* _lf_schedule, in a state where s is the store with the token counted and  *)
(* e the new event.                                                          *)

(* The end of _lf_schedule: insert the event, unless it is too late. *)
Insert(tr, t, s, tok, e) ==
  IF t > stop_tag.time
  THEN GiveBack(e) /\ store' = DoneUsing(s, tok) /\ UNCHANGED ev
  ELSE /\ Use(<<e>>, [ev EXCEPT ![e] = EventOf(tr, t, tok)])
       /\ event_q' = event_q \cup {e}
       /\ last' = [last EXCEPT ![tr] = e]
       /\ store' = s

(* The new event goes behind event p, if g is not after the stop tag.  A     *)
(* token that comes too late here is not given back.  Here and below w is ev *)
(* with what the caller has already written to it.                           *)
HookBehind(w, p, g, f, s, e) ==
  /\ IF AfterStop(g) THEN GiveBack(e) /\ ev' = w
     ELSE /\ Use(<<e>>, [w EXCEPT ![e] = f, ![p].next = e])
          /\ UNCHANGED <<event_q, last>>
  /\ store' = s

(* The policies drop and replace, of an event x already in the queue. *)
Drop(w, x, s, tok, e) ==
  /\ GiveBack(e)
  /\ store' = IF w[x].token # tok THEN DoneUsing(s, tok) ELSE s
  /\ ev' = w

ReplaceToken(w, x, s, tok, e) ==
  /\ GiveBack(e)
  /\ store' = IF w[x].token # tok THEN DoneUsing(s, w[x].token) ELSE s
  /\ ev' = [w EXCEPT ![x].token = tok]

(* How _lf_schedule tells that the event `last' points to was not handled.   *)
Waiting(x) ==
  \/ ev[x].time > current_tag.time
  \/ ev[x].time = current_tag.time /\ Queued(x)

(* Without a minimum spacing events pile up in superdense time. *)
Unspaced(tr, t, s, tok, e) ==
  IF Found(tr, t) = {} THEN Insert(tr, t, s, tok, e)
  ELSE \E h \in Found(tr, t) :
         HookBehind(ev, LastOf(h), TagOf(t, ChainLength(h)), EventOf(tr, t, tok), s, e)

(* With a minimum spacing, `last' decides.  The event it points to may have  *)
(* been recycled since.  An event deferred behind it keeps the time 0 of a   *)
(* new event.                                                                *)
Spaced(tr, t, s, tok, e) ==
  LET x == last[tr]
      spacing == prog[tr].period
      policy == prog[tr].policy
  IN IF x = NULL \/ (x # NULL /\ ev[x].time + spacing < t) THEN Insert(tr, t, s, tok, e)
     ELSE \/ /\ policy = "drop" /\ (spacing > 0 \/ Queued(x))
             /\ Drop(ev, x, s, tok, e)
          \/ /\ policy \in {"drop", "replace"}
             /\ ~(policy = "drop" /\ (spacing > 0 \/ Queued(x)))
             /\ IF Waiting(x) THEN ReplaceToken(ev, x, s, tok, e)
                ELSE Insert(tr, ev[x].time + spacing, s, tok, e)
          \/ /\ policy = "defer"
             /\ IF ev[x].time = current_tag.time /\ Queued(x)
                THEN HookBehind(ev, x, NextMicrostep, EventOf(tr, 0, tok), s, e)
                ELSE Insert(tr, ev[x].time + spacing, s, tok, e)

(* Physical time when the action is scheduled: without -fast it is not       *)
(* before the current tag.                                                   *)
PhysicalLag(tr) == IF prog[tr].kind = "physical" THEN 0..1 ELSE {0}

LfSchedule(tr, extra_delay, s0, tok) ==
  \E lag \in PhysicalLag(tr), n \in NewEvents(1) :
    LET t == current_tag.time + lag + prog[tr].offset + extra_delay
        s == AddReference(s0, tok)
    IN IF prog[tr].period < 0 THEN Unspaced(tr, t, s, tok, n[1])
       ELSE Spaced(tr, t, s, tok, n[1])

(* Between the advances of the tag, reactions and the network call the API. *)
Calling(tr, kinds) ==
  /\ ~popping /\ current_tag.microstep < MaxMicrostep
  /\ tr \in DOMAIN prog /\ prog[tr].kind \in kinds
  /\ UNCHANGED <<prog, current_tag, stop_tag, next_q, popping>>

Actions == {"logical", "physical"}

(* _lf_schedule_token without a token. *)
ScheduleVoid(tr, d) ==
  /\ Calling(tr, Actions)
  /\ LfSchedule(tr, d, store, NULL)
  /\ UNCHANGED <<template, present, asked>>

(* _lf_schedule_value and _lf_schedule_int, with a new token. *)
ScheduleValue(tr, d) ==
  /\ Calling(tr, Actions) /\ prog[tr].payload
  /\ \E t \in NewTokens(store) :
       LfSchedule(tr, d, [CreateToken(store, t) EXCEPT !.token[t].value = TRUE], t)
  /\ UNCHANGED <<template, present, asked>>

(* _lf_schedule_copy: refused when the template token is gone. *)
ScheduleCopy(tr, d) ==
  /\ Calling(tr, Actions) /\ template[tr] # NULL
  /\ \E u \in InitializeToken(store, template[tr]) : LfSchedule(tr, d, u[1], u[2])
  /\ UNCHANGED <<template, present, asked>>

-----------------------------------------------------------------------------
(* _lf_schedule_at_tag, with the new events n: n[1] is the event itself, the *)
(* others are dummies.                                                       *)

(* Faulty variant: one dummy event is missing. *)
WithSpacersShort(n, tr, t, tok) ==
  [x \in Events |->
     IF x = n[1] THEN EventOf(tr, t, tok)
     ELSE IF x \in {n[i] : i \in 2..Len(n)}
     THEN [EventOf(tr, t, NULL) EXCEPT !.is_dummy = TRUE, !.next = n[1]]
     ELSE ev[x]]

(* _lf_create_dummy_events *)
WithSpacers(n, tr, t, tok) ==
  [x \in Events |->
     IF x = n[1] THEN EventOf(tr, t, tok)
     ELSE IF x \in {n[i] : i \in 2..Len(n)}
     THEN LET i == CHOOSE j \in 2..Len(n) : n[j] = x
          IN [EventOf(tr, t, NULL) EXCEPT !.is_dummy = TRUE,
                                          !.next = IF i = Len(n) THEN n[1] ELSE n[i + 1]]
     ELSE ev[x]]

FirstOf(n) == IF Len(n) = 1 THEN n[1] ELSE n[2]

AtTagAlone(tr, g, s, tok) ==
  LET relative == IF g.time = current_tag.time
                  THEN g.microstep - current_tag.microstep ELSE g.microstep
      spacers == IF g.time = current_tag.time /\ relative = 1 THEN 0 ELSE relative
  IN \E n \in NewEvents(1 + spacers) :
       /\ Use(n, WithSpacers(n, tr, g.time, tok))
       /\ event_q' = event_q \cup {FirstOf(n)}
       /\ store' = s /\ UNCHANGED last

AppendAt(p, n, tr, g, s, tok) ==
  /\ Use(n, [WithSpacers(n, tr, g.time, tok) EXCEPT ![p].next = FirstOf(n)])
  /\ store' = s /\ UNCHANGED <<event_q, last>>

(* The requested tag is taken by the event q.  A third event for a tag is an *)
(* error: it and its token are lost to the program.                          *)
TagTaken(w, q, limit, tr, g, s, tok) ==
  \E n \in NewEvents(1) :
    \/ prog[tr].policy = "drop" /\ Drop(w, q, s, tok, n[1])
    \/ prog[tr].policy = "replace" /\ ReplaceToken(w, q, s, tok, n[1])
    \/ /\ prog[tr].policy = "defer"
       /\ IF AfterStop(limit) \/ w[q].next = NULL
          THEN HookBehind(w, q, limit, EventOf(tr, g.time, tok), s, n[1])
          ELSE /\ Use(n, [w EXCEPT ![n[1]] = EventOf(tr, g.time, tok)])
               /\ store' = s /\ UNCHANGED <<event_q, last>>

(* A dummy at the head of the chain becomes a real event, an event further   *)
(* on stays what it is.                                                      *)
AtTagBehind(h, tr, g, s, tok) ==
  LET base == IF g.time = current_tag.time THEN current_tag.microstep + 1 ELSE 0
      skip == IF g.microstep > base THEN g.microstep - 1 - base ELSE 0
      rest == ChainLength(h) - 1
      p == Follow(h, skip)
  IN IF g.microstep = 0
     THEN TagTaken([ev EXCEPT ![h].is_dummy = FALSE], h, TagOf(g.time, 1), tr, g, s, tok)
     ELSE IF skip > rest
     THEN \E n \in NewEvents(1 + skip - rest) : AppendAt(LastOf(h), n, tr, g, s, tok)
     ELSE IF ev[p].next = NULL
     THEN \E n \in NewEvents(1) : AppendAt(p, n, tr, g, s, tok)
     ELSE TagTaken(ev, ev[p].next, TagOf(g.time, base + skip + 1), tr, g, s, tok)

(* The entries of the queue: what fires when, and with which token. *)
EntriesOf(heads, microstep) ==
  LET first(h) == IF ev[h].time = current_tag.time THEN microstep ELSE 0
      entry(h, i) == [trigger |-> ev[Follow(h, i)].trigger, token |-> ev[Follow(h, i)].token,
                      tag |-> TagOf(ev[h].time, first(h) + i)]
  IN UNION {{entry(h, i) : i \in {j \in Chain(h) : ~ev[Follow(h, j)].is_dummy}} : h \in heads}

(* While events are popped, those left at the current time fire now, and the *)
(* chains of next_q go on at the next microstep.                             *)
Entries ==
  EntriesOf(event_q, current_tag.microstep + IF popping THEN 0 ELSE 1)
  \cup EntriesOf(next_q, current_tag.microstep + 1)

(* Tags that network input may be given: in order for each trigger, and the  *)
(* same one again and again.                                                 *)
NetworkTags(tr) ==
  {g \in [time : current_tag.time .. current_tag.time + 1, microstep : 0 .. MaxMicrostep] :
     TagLess(current_tag, g) /\ TagLeq(asked[tr], g)}

ScheduleAtTag(tr, g) ==
  /\ Calling(tr, {"network"})
  /\ \E t \in NewTokens(store) :
       LET s == AddReference([CreateToken(store, t) EXCEPT !.token[t].value = TRUE], t)
       IN IF AfterStop(g) THEN store' = DoneUsing(s, t) /\ UNCHANGED queueVars
          ELSE IF Found(tr, g.time) = {} THEN AtTagAlone(tr, g, s, t)
          ELSE \E h \in Found(tr, g.time) : AtTagBehind(h, tr, g, s, t)
  /\ asked' = [asked EXCEPT ![tr] = g]
  /\ UNCHANGED <<template, present>>

(* _lf_insert_reactions_for_trigger: network input for the current tag. *)
InsertReactionsForTrigger(tr) ==
  /\ Calling(tr, {"network"}) /\ tr \notin present
  /\ \E t \in NewTokens(store) :
       LET s == AddReference([CreateToken(store, t) EXCEPT !.token[t].value = TRUE], t)
       IN /\ store' = ReplaceTemplate(s, template[tr], t)
          /\ template' = [template EXCEPT ![tr] = t]
  /\ present' = present \cup {tr}
  /\ UNCHANGED <<queueVars, asked>>

-----------------------------------------------------------------------------
(* The next tag *)

Earliest(e) == e \in event_q /\ \A h \in event_q : ev[e].time <= ev[h].time

NextTag ==
  IF event_q = {} THEN stop_tag
  ELSE LET t == ev[CHOOSE e \in event_q : Earliest(e)].time
       IN TagMin(TagOf(t, HeadMicrostep(t)), stop_tag)

(* _lf_start_time_step, the entries of actions in _lf_tokens_with_ref_count. *)
StartTimeStep ==
  /\ store' = FoldSet(LAMBDA tr, s : DoneUsing(s, template[tr]), store,
                      {tr \in present : prog[tr].payload})
  /\ present' = {}

(* _lf_advance_logical_time, then the pop of the events begins. *)
Advance ==
  /\ ~popping /\ TagLess(current_tag, stop_tag)
  /\ \A e \in event_q : ev[e].time >= current_tag.time
  /\ current_tag' = IF current_tag.time < NextTag.time THEN TagOf(NextTag.time, 0)
                    ELSE NextMicrostep
  /\ StartTimeStep
  /\ popping' = TRUE
  /\ UNCHANGED <<prog, stop_tag, queueVars, template, asked>>

Popping(e) ==
  /\ popping /\ Earliest(e) /\ ev[e].time = current_tag.time
  /\ UNCHANGED <<prog, current_tag, stop_tag, asked, popping>>

(* Faulty variant: the rest of the chain is forgotten. *)
PutNextForgotten(e) == UNCHANGED next_q

PutNext(e) == next_q' = IF ev[e].next = NULL THEN next_q ELSE next_q \cup {ev[e].next}

PopDummy(e) ==
  /\ Popping(e) /\ ev[e].is_dummy
  /\ PutNext(e)
  /\ event_q' = event_q \ {e}
  /\ recycle_q' = recycle_q \cup {e}
  /\ ev' = [ev EXCEPT ![e] = Zeroed]
  /\ UNCHANGED <<calloced, last, template, present, store>>

(* What an event does to its trigger. *)
Trigger(e) ==
  LET tr == ev[e].trigger IN
  /\ present' = present \cup {tr}
  /\ store' = ReplaceTemplate(store, template[tr], ev[e].token)
  /\ template' = [template EXCEPT ![tr] = ev[e].token]

(* A periodic timer schedules its next event. *)
Periodic(e) == prog[ev[e].trigger].kind = "timer" /\ prog[ev[e].trigger].period > 0

PopEvent(e) ==
  /\ Popping(e) /\ ~ev[e].is_dummy
  /\ ~Periodic(e)
  /\ Trigger(e)
  /\ PutNext(e)
  /\ event_q' = event_q \ {e}
  /\ recycle_q' = recycle_q \cup {e}
  /\ ev' = [ev EXCEPT ![e] = Zeroed]
  /\ UNCHANGED <<calloced, last>>

PopTimer(e) ==
  LET tr == ev[e].trigger
      t == current_tag.time + prog[tr].period IN
  /\ Popping(e) /\ Periodic(e)
  /\ Trigger(e)
  /\ PutNext(e)
  /\ \E n \in NewEvents(1) :
       LET again == IF t > stop_tag.time THEN {} ELSE {n[1]} IN
       /\ event_q' = (event_q \ {e}) \cup again
       /\ recycle_q' = (recycle_q \ again) \cup ({n[1]} \ again) \cup {e}
       /\ ev' = [x \in Events |-> IF x = e THEN Zeroed
                                  ELSE IF x \in again THEN EventOf(tr, t, NULL) ELSE ev[x]]
       /\ last' = [last EXCEPT ![tr] = IF again = {} THEN @ ELSE n[1]]
       /\ calloced' = calloced \cup {n[1]}

(* No event at the current time is left: next_q goes back to event_q. *)
PopDone ==
  /\ popping /\ \A e \in event_q : Earliest(e) => ev[e].time # current_tag.time
  /\ event_q' = event_q \cup next_q
  /\ next_q' = {}
  /\ popping' = FALSE
  /\ UNCHANGED <<prog, current_tag, stop_tag, ev, calloced, recycle_q, last, template, present,
                 asked, store>>

Terminated == ~popping /\ current_tag = stop_tag /\ UNCHANGED vars

Next ==
  \/ \E tr \in DOMAIN prog, d \in Delays :
       ScheduleVoid(tr, d) \/ ScheduleValue(tr, d) \/ ScheduleCopy(tr, d)
  \/ \E tr \in DOMAIN prog :
       InsertReactionsForTrigger(tr) \/ \E g \in NetworkTags(tr) : ScheduleAtTag(tr, g)
  \/ Advance
  \/ \E e \in Events : PopDummy(e) \/ PopEvent(e) \/ PopTimer(e)
  \/ PopDone
  \/ Terminated

Spec == Init /\ [][Next]_vars

-----------------------------------------------------------------------------
(* Properties *)

(* The queue implements the calendar: no accepted event is lost or fires     *)
(* twice, each fires exactly at its tag and carries its token, whatever      *)
(* chains, spacers and recycled memory it went through.                      *)
Calendar == INSTANCE EventCalendar WITH tag <- current_tag, entries <- Entries
ImplementsCalendar == Calendar!Spec

(* An event is in one place: in one chain, or waiting for reuse.             *)
Places(x) == {p \in (event_q \cup next_q) \X (0 .. Cardinality(Events) - 1) :
                Follow(p[1], p[2]) = x}
InQueue == {x \in Events : Places(x) # {}}
EventsInOnePlace ==
  /\ \A x \in InQueue : Cardinality(Places(x)) = 1
  /\ InQueue \cap recycle_q = {}

EventsAccounted == TypeOK /\ EventsInOnePlace

(* No event is left behind by the tag: get_next_event_tag exits with an      *)
(* error when it meets one.                                                  *)
QueueNotBehind == ~popping => \A e \in event_q : ev[e].time >= current_tag.time

(* An event that `last' of an action points to, and that waits, is an event  *)
(* of that action: its tag tells whether it was recycled.                    *)
LastIsOwn ==
  \A tr \in DOMAIN prog :
    prog[tr].kind \in Actions /\ prog[tr].period >= 0 /\ last[tr] # NULL /\ Waiting(last[tr])
      => ev[last[tr]].trigger = tr

(* A token has at least as many references as holders, so that it is not     *)
(* freed under a queued event or a present trigger.                          *)
Holders(t) == Cardinality({x \in InQueue : ev[x].token = t})
              + Cardinality({tr \in present : template[tr] = t /\ prog[tr].payload})
HoldersCounted == \A t \in Tokens : Holders(t) <= store.token[t].ref_count

(* A token in the recycling bin is there once, and neither an event nor a    *)
(* trigger points to it: what create_token hands out is not shared.          *)
BinUnshared ==
  /\ Injective(store.bin)
  /\ \A t \in Tokens : InBin(store, t) \/ t \notin store.allocated =>
       /\ \A x \in InQueue : ev[x].token # t
       /\ \A tr \in DOMAIN prog : template[tr] # t

(* The counter of termination() is right: it counts the tokens in use but    *)
(* for one of each trigger that was generated with a template.               *)
CountAgrees ==
  store.count = Cardinality(store.allocated) - Len(store.bin)
                - Cardinality({tr \in DOMAIN prog : prog[tr].payload})

TokensAccounted == HoldersCounted /\ BinUnshared /\ CountAgrees

(* Network input to a tag after all that its trigger has pending never fires *)
(* before that tag, and exactly then if its time is in the future, however   *)
(* many dummy events are needed.                                             *)
AtTagOnTime ==
  [][\A tr \in DOMAIN prog : \A g \in NetworkTags(tr) :
       (ScheduleAtTag(tr, g) /\ ~AfterStop(g)
          /\ \A x \in Entries : x.trigger = tr => TagLess(x.tag, g))
         => \E x \in Entries' \ Entries :
              /\ x.trigger = tr /\ TagLeq(g, x.tag)
              /\ g.time > current_tag.time => x.tag = g]_vars
=============================================================================
