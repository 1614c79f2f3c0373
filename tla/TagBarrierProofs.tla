-------------------------- MODULE TagBarrierProofs --------------------------
(***************************************************************************)
(* For every set of readers and every bound: the tag barrier keeps the tag *)
(* short of every message that is being read and of every stop request     *)
(* that is not yet granted.                                                *)
(***************************************************************************)
EXTENDS TagBarrier, TagsProofs, FiniteSetTheorems

-----------------------------------------------------------------------------
(* The inductive invariant *)

Holders == {r \in Readers : purpose[r] # "none"}

(* What is known of a message that was in the future when r raised the       *)
(* barrier for it; all other holders freeze the tag.                         *)
Expected(r) == purpose[r] = "message" /\ TagLess(raisedAt[r], message[r])

(* The tag is before FOREVER, as all messages are, before every event of the *)
(* queue, and before the stop tag while the worker waits.                    *)
TagInv ==
  /\ current_tag.time < Forever
  /\ \A r \in Readers : message[r].time < Forever
  /\ \A e \in events : TagLess(current_tag, e) /\ e.time < Forever
  /\ TagLeq(current_tag, stop_tag) /\ TagLeq(stop_tag, ForeverTag)
  /\ pc \in {"until", "barrier"} => TagLess(current_tag, stop_tag)

(* The horizon is not after an expected message, and not after the next      *)
(* microstep while a late message is read or a stop request is open.  This   *)
(* is what min-ing the horizon, and keeping it until the last release, are   *)
(* for.                                                                      *)
HorizonInv ==
  \A r \in Holders :
    IF Expected(r) THEN TagLeq(horizon, message[r])
                   ELSE current_tag = raisedAt[r] /\ TagLeq(horizon, NextMicrostep)

(* While the worker waits on the barrier, what it waits for is not before    *)
(* the next tag: new events and new stop tags only move that to an earlier   *)
(* one.                                                                      *)
ProposedInv ==
  pc = "barrier" => proposed.time < Forever /\ TagLeq(NextEventTag, proposed)

BInv == TypeOK /\ TagInv /\ BarrierAccount /\ HorizonInv /\ ProposedInv
-----------------------------------------------------------------------------
(* The next tag *)

FirstEventTag ==
  CHOOSE g \in events \cup {ForeverTag} : \A o \in events \cup {ForeverTag} : TagLeq(g, o)

(* get_next_event_tag's view of the first event.                             *)
Upcoming(first) ==
  IF first.time = Forever THEN ForeverTag
  ELSE IF first.time = current_tag.time THEN NextMicrostep
  ELSE TagOf(first.time, 0)

(* FOREVER_TAG is a tag of the model.                                        *)
LEMMA ForeverTagType == ForeverTag \in Tag /\ ForeverTag.time = Forever
BY BarrierAssumption, TagOfType DEF ForeverTag

(* The queue, with FOREVER_TAG behind it, has a first event.                 *)
LEMMA FirstIsEarliest ==
  ASSUME events \subseteq Tag
  PROVE  /\ FirstEventTag \in events \cup {ForeverTag}
         /\ \A o \in events \cup {ForeverTag} : TagLeq(FirstEventTag, o)
<1>1. events \cup {ForeverTag} \in SUBSET Tag
  BY ForeverTagType
<1> QED
  BY <1>1, EarliestTag DEF FirstEventTag

(* An event lies after the current tag and at or before its own tag.         *)
LEMMA UpcomingFacts ==
  ASSUME TypeOK, TagInv, NEW first \in events \cup {ForeverTag}
  PROVE  /\ Upcoming(first) \in Tag
         /\ TagLess(current_tag, Upcoming(first)) /\ TagLeq(Upcoming(first), first)
<1>1. /\ current_tag \in Tag /\ first \in Tag /\ TagLess(current_tag, first)
      /\ first.time = Forever => first = ForeverTag
  <2>1. CASE first \in events
    <3>1. first.time < Forever /\ TagLess(current_tag, first)
      BY <2>1 DEF TagInv
    <3>2. first.time # Forever
      BY <2>1, <3>1, BarrierAssumption DEF TypeOK, Tag
    <3> QED
      BY <2>1, <3>1, <3>2 DEF TypeOK
  <2>2. CASE first = ForeverTag
    BY <2>2, ForeverTagType DEF TypeOK, TagInv, TagLess
  <2> QED
    BY <2>1, <2>2
<1>2. CASE first.time = Forever
  BY <1>1, <1>2, TagOrder DEF Upcoming, TagLeq
<1>3. CASE first.time # Forever /\ first.time = current_tag.time
  BY <1>1, <1>3, MicrostepIsNext DEF Upcoming, NextMicrostep
<1>4. CASE first.time # Forever /\ first.time # current_tag.time
  <2>1. Upcoming(first) = TagOf(first.time, 0)
    BY <1>4 DEF Upcoming
  <2>2. TagOf(first.time, 0) \in Tag /\ TagOf(first.time, 0).time = first.time
        /\ TagOf(first.time, 0).microstep = 0
    BY <1>1, TagOfType DEF Tag
  <2>3. current_tag.time < first.time
    BY <1>1, <1>4 DEF TagLess
  <2> QED
    BY <1>1, <2>1, <2>2, <2>3, TagEquality DEF TagLess, TagLeq, Tag
<1> QED
  BY <1>2, <1>3, <1>4

(* get_next_event_tag: not after the stop tag, not after any event, and      *)
(* after the current tag if the stop tag is.                                 *)
LEMMA NextTagFacts ==
  ASSUME TypeOK, TagInv
  PROVE  /\ NextEventTag \in Tag
         /\ TagLeq(NextEventTag, stop_tag)
         /\ \A e \in events : TagLeq(NextEventTag, e)
         /\ TagLess(current_tag, stop_tag) => TagLess(current_tag, NextEventTag)
<1> DEFINE u == Upcoming(FirstEventTag)
<1>1. /\ FirstEventTag \in Tag /\ u \in Tag /\ TagLess(current_tag, u)
      /\ TagLeq(u, FirstEventTag)
      /\ \A e \in events : TagLeq(FirstEventTag, e)
  BY FirstIsEarliest, UpcomingFacts, ForeverTagType DEF TypeOK
<1>2. NextEventTag = TagMin(stop_tag, u)
  BY DEF NextEventTag, Upcoming, FirstEventTag
<1> HIDE DEF u
<1>3. stop_tag \in Tag /\ current_tag \in Tag /\ events \subseteq Tag
  BY DEF TypeOK
<1>4. /\ NextEventTag \in {stop_tag, u} /\ NextEventTag \in Tag
      /\ TagLeq(NextEventTag, stop_tag) /\ TagLeq(NextEventTag, u)
  BY <1>1, <1>2, <1>3, TagMinimum
<1>5. ASSUME NEW e \in events
      PROVE  TagLeq(NextEventTag, e)
  <2>1. TagLeq(u, e)
    BY <1>1, <1>3, TagTransitive
  <2> QED
    BY <1>1, <1>3, <1>4, <2>1, TagTransitive
<1> QED
  BY <1>1, <1>4, <1>5

(* A new event or an earlier stop tag never makes the next tag a later one.  *)
LEMMA NextTagEarlier ==
  ASSUME TypeOK, TagInv, TypeOK', TagInv',
         UNCHANGED current_tag, events \subseteq events', TagLeq(stop_tag', stop_tag)
  PROVE  NextEventTag' \in Tag /\ TagLeq(NextEventTag', NextEventTag)
<1> DEFINE f == FirstEventTag
           u == Upcoming(f)
           v == Upcoming(f')
<1>1. /\ f \in events \cup {ForeverTag}
      /\ f' \in events' \cup {ForeverTag} /\ TagLeq(f', f)
  <2>1. f' \in events' \cup {ForeverTag}
        /\ \A o \in events' \cup {ForeverTag} : TagLeq(f', o)
    <3>1. events' \cup {ForeverTag} \in SUBSET Tag
      BY ForeverTagType DEF TypeOK
    <3> QED
      BY <3>1, EarliestTag DEF FirstEventTag, ForeverTag
  <2>2. f \in events \cup {ForeverTag}
    BY FirstIsEarliest DEF TypeOK
  <2> QED
    BY <2>1, <2>2
<1>2. u \in Tag /\ v \in Tag /\ f \in Tag /\ f' \in Tag
  <2>1. u \in Tag
    BY <1>1, UpcomingFacts
  <2>2. f \in Tag /\ f' \in Tag
    BY <1>1, ForeverTagType DEF TypeOK
  <2>3. v \in Tag
    BY <2>2, ForeverTagType, MicrostepIsNext, TagOfType
       DEF Upcoming, Tag, NextMicrostep, TypeOK
  <2> QED
    BY <2>1, <2>2, <2>3
<1>3. TagLeq(v, u)
  <2>1. /\ f.time <= Forever /\ f'.time <= f.time /\ current_tag.time <= f'.time
        /\ f.time \in Nat /\ f'.time \in Nat /\ Forever \in Nat
        /\ current_tag.time \in Nat /\ current_tag.time < Forever
    <3>1. TagLess(current_tag, f')
      BY <1>1, ForeverTagType DEF TagInv, TagLess
    <3> QED
      BY <1>1, <1>2, <3>1, ForeverTagType, TagOrder DEF TagInv, Tag, TagLess, TypeOK
  <2>2. ForeverTag \in Tag /\ TagOf(f.time, 0) \in Tag /\ TagOf(f'.time, 0) \in Tag
        /\ NextMicrostep \in Tag /\ ForeverTag.time = Forever
        /\ TagOf(f.time, 0).time = f.time /\ TagOf(f'.time, 0).time = f'.time
        /\ NextMicrostep.time = current_tag.time
    <3>1. current_tag \in Tag
      BY DEF TypeOK
    <3> QED
      BY <2>1, <3>1, ForeverTagType, TagOfType DEF NextMicrostep, Tag
  <2>3. CASE f.time = f'.time
    BY <2>3 DEF Upcoming, TagLeq
  <2>4. CASE f'.time < f.time
    <3>1. v.time = f'.time /\ u.time = f.time
      BY <2>1, <2>2, <2>4 DEF Upcoming
    <3> QED
      BY <2>4, <3>1 DEF TagLeq, TagLess
  <2> QED
    BY <2>1, <2>3, <2>4
<1>4. NextEventTag = TagMin(stop_tag, u) /\ NextEventTag' = TagMin(stop_tag', v)
  BY DEF NextEventTag, Upcoming, FirstEventTag, ForeverTag, NextMicrostep
<1> HIDE DEF u, v, f
<1>5. stop_tag \in Tag /\ stop_tag' \in Tag
  BY DEF TypeOK
<1> QED
  BY <1>2, <1>3, <1>4, <1>5, TagMinimum, TagTransitive
-----------------------------------------------------------------------------
(* The barrier *)

(* The holders are finitely many; none is left when the count is zero.       *)
LEMMA HoldersCounted ==
  ASSUME BarrierAccount
  PROVE  /\ IsFiniteSet(Holders) /\ requestors = Cardinality(Holders)
         /\ requestors \in Nat /\ (requestors = 0 <=> Holders = {})
<1>1. IsFiniteSet(Holders)
  BY FS_Subset, BarrierAssumption DEF Holders
<1> QED
  BY <1>1, FS_CardinalityType, FS_EmptySet DEF BarrierAccount, Holders

(* _lf_increment_global_tag_barrier_already_locked: the horizon moves, if at *)
(* all, to an earlier tag in the future, not after the one asked for; for a  *)
(* tag that is not in the future, to the next microstep.                     *)
LEMMA IncrementFacts ==
  ASSUME TypeOK, BarrierAccount, NEW g \in Tag, Increment(g)
  PROVE  /\ requestors' = requestors + 1
         /\ horizon' \in Tag /\ TagLess(current_tag, horizon') /\ TagLeq(horizon', horizon)
         /\ TagLeq(horizon', IF TagLess(current_tag, g) THEN g ELSE NextMicrostep)
<1> DEFINE future == TagMin(g, stop_tag)
<1>1. /\ current_tag \in Tag /\ horizon \in Tag /\ TagLess(current_tag, horizon)
      /\ future \in Tag /\ TagLeq(future, g)
  BY TagMinimum DEF TypeOK, BarrierAccount
<1>2. NextMicrostep \in Tag /\ TagLess(current_tag, NextMicrostep)
      /\ TagLeq(NextMicrostep, horizon)
      /\ (TagLess(current_tag, g) => TagLeq(NextMicrostep, g))
  BY <1>1, MicrostepIsNext DEF NextMicrostep
<1>3. /\ requestors' = requestors + 1
      /\ horizon' = IF TagLess(current_tag, future) THEN TagMin(future, horizon)
                                                    ELSE NextMicrostep
  BY DEF Increment
<1> HIDE DEF future
<1>4. CASE TagLess(current_tag, future)
  <2>1. TagLess(current_tag, g)
    BY <1>1, <1>4, TagTransitive
  <2>2. /\ horizon' \in {future, horizon}
        /\ TagLeq(horizon', future) /\ TagLeq(horizon', horizon)
    BY <1>1, <1>3, <1>4, TagMinimum
  <2>3. TagLeq(horizon', g)
    BY <1>1, <2>2, TagTransitive
  <2> QED
    BY <1>1, <1>3, <1>4, <2>1, <2>2, <2>3
<1>5. CASE ~ TagLess(current_tag, future)
  BY <1>1, <1>2, <1>3, <1>5 DEF TagLeq
<1> QED
  BY <1>4, <1>5

(* A thread raises the barrier: it holds it for its message, or freezes the  *)
(* tag; what the others hold it for stays held.                              *)
LEMMA RaiseInv ==
  ASSUME BInv, NEW r \in Readers, purpose[r] = "none",
         NEW g \in Tag, g.time < Forever, Increment(g),
         NEW p \in {"message", "stop"}, purpose' = [purpose EXCEPT ![r] = p],
         message' = [message EXCEPT ![r] = IF p = "message" THEN g ELSE @],
         raisedAt' = [raisedAt EXCEPT ![r] = current_tag],
         p = "stop" => g = current_tag,
         UNCHANGED <<current_tag, stop_tag, events, pc, proposed, notified>>,
         messages' \in 0..MaxMessages
  PROVE  BInv'
<1> USE DEF BInv
<1>1. /\ requestors' = requestors + 1
      /\ horizon' \in Tag /\ TagLess(current_tag, horizon') /\ TagLeq(horizon', horizon)
      /\ TagLeq(horizon', IF TagLess(current_tag, g) THEN g ELSE NextMicrostep)
  BY IncrementFacts
<1>2. /\ IsFiniteSet(Holders) /\ requestors = Cardinality(Holders) /\ requestors \in Nat
  BY HoldersCounted
<1>3. /\ current_tag \in Tag /\ horizon \in Tag /\ message \in [Readers -> Tag]
      /\ raisedAt \in [Readers -> Tag] /\ purpose \in [Readers -> {"none", "message", "stop"}]
      /\ NextMicrostep \in Tag
  BY MicrostepIsNext DEF TypeOK, NextMicrostep
<1>4. TypeOK'
  <2>1. /\ purpose' \in [Readers -> {"none", "message", "stop"}]
        /\ message' \in [Readers -> Tag] /\ raisedAt' \in [Readers -> Tag]
    BY <1>3
  <2>2. requestors' \in Nat
    BY <1>1, <1>2
  <2> QED
    BY <1>1, <2>1, <2>2 DEF TypeOK
<1>5. TagInv' /\ ProposedInv'
  <2>1. \A s \in Readers : message'[s].time < Forever
    BY <1>3 DEF TagInv
  <2> QED
    BY <2>1 DEF TagInv, ProposedInv, NextEventTag, ForeverTag, NextMicrostep
<1>6. BarrierAccount'
  <2>1. Holders' = Holders \cup {r} /\ r \notin Holders
    BY <1>3 DEF Holders
  <2>2. Cardinality(Holders') = requestors + 1
    BY <1>2, <2>1, FS_AddElement
  <2>3. requestors' # 0
    BY <1>1, <1>2
  <2> QED
    BY <1>1, <2>2, <2>3 DEF BarrierAccount, Holders
<1>7. HorizonInv'
  <2>1. SUFFICES ASSUME NEW s \in Readers, s \in Holders'
                 PROVE  IF Expected(s)' THEN TagLeq(horizon', message'[s])
                        ELSE current_tag = raisedAt'[s] /\ TagLeq(horizon', NextMicrostep)
    BY DEF HorizonInv, Holders, NextMicrostep
  <2>2. CASE s = r
    <3>1. raisedAt'[r] = current_tag /\ purpose'[r] = p
          /\ message'[r] = IF p = "message" THEN g ELSE message[r]
      BY <1>3
    <3>2. p = "stop" => ~ TagLess(current_tag, g)
      BY <1>3, TagOrder
    <3> QED
      BY <1>1, <2>2, <3>1, <3>2 DEF Expected
  <2>3. CASE s # r
    <3>1. /\ purpose'[s] = purpose[s] /\ message'[s] = message[s]
          /\ raisedAt'[s] = raisedAt[s] /\ s \in Holders
      BY <1>3, <2>1, <2>3 DEF Holders
    <3>2. IF Expected(s) THEN TagLeq(horizon, message[s])
          ELSE current_tag = raisedAt[s] /\ TagLeq(horizon, NextMicrostep)
      BY <3>1 DEF HorizonInv
    <3>3. message[s] \in Tag
      BY <1>3
    <3> QED
      BY <1>1, <1>3, <3>1, <3>2, <3>3, TagTransitive DEF Expected
  <2> QED
    BY <2>2, <2>3
<1> QED
  BY <1>4, <1>5, <1>6, <1>7

(* A thread releases the barrier: the horizon stays while anyone holds it.   *)
LEMMA ReleaseInv ==
  ASSUME BInv, NEW r \in Readers, purpose[r] # "none", Decrement,
         purpose' = [purpose EXCEPT ![r] = "none"],
         UNCHANGED <<current_tag, message, raisedAt>>
  PROVE  BarrierAccount' /\ HorizonInv' /\ requestors' \in Nat /\ horizon' \in Tag
<1> USE DEF BInv
<1>1. /\ IsFiniteSet(Holders) /\ requestors = Cardinality(Holders) /\ requestors \in Nat
  BY HoldersCounted
<1>2. r \in Holders /\ Holders' = Holders \ {r} /\ IsFiniteSet(Holders')
  BY <1>1, FS_RemoveElement DEF Holders, TypeOK
<1>3. /\ requestors' = Cardinality(Holders') /\ requestors' \in Nat
      /\ (requestors' = 0 => Holders' = {})
  BY <1>1, <1>2, FS_RemoveElement, FS_CardinalityType, FS_EmptySet DEF Decrement
<1>4. horizon' = IF requestors' = 0 THEN ForeverTag ELSE horizon
  BY DEF Decrement
<1>5. BarrierAccount'
  <2>1. TagLess(current_tag, ForeverTag)
    BY ForeverTagType DEF TagInv, TagLess
  <2>2. TagLess(current_tag, horizon')
    BY <1>4, <2>1 DEF BarrierAccount
  <2> QED
    BY <1>3, <1>4, <2>2 DEF BarrierAccount, Holders, ForeverTag
<1>6. HorizonInv'
  <2>1. CASE Holders' = {}
    BY <2>1 DEF HorizonInv
  <2>2. CASE Holders' # {}
    <3>1. horizon' = horizon
      BY <1>1, <1>2, <1>3, <1>4, <2>2, FS_EmptySet
    <3>2. \A s \in Holders' : s \in Holders /\ purpose'[s] = purpose[s]
      BY <1>2 DEF Holders, TypeOK
    <3> QED
      BY <3>1, <3>2 DEF HorizonInv, Expected, NextMicrostep
  <2> QED
    BY <2>1, <2>2
<1>7. horizon' \in Tag
  BY <1>4, ForeverTagType DEF TypeOK
<1> QED
  BY <1>3, <1>5, <1>6, <1>7
-----------------------------------------------------------------------------
(* The steps *)

(* The worker advances to the next tag g: not after g, hence before every    *)
(* horizon it did not have to wait for.  Whoever freezes the tag has the     *)
(* horizon at the next microstep, so that there is no such holder.           *)
LEMMA CommitInv ==
  ASSUME BInv, TagLess(current_tag, stop_tag), NextEventTag.time < Forever,
         requestors > 0 => TagLess(NextEventTag, horizon),
         Commit(NextEventTag), notified' \in BOOLEAN
  PROVE  BInv'
<1> DEFINE g == NextEventTag
           tag == IF current_tag.time < g.time THEN TagOf(g.time, 0) ELSE NextMicrostep
<1> USE DEF BInv
<1>1. /\ g \in Tag /\ TagLeq(g, stop_tag) /\ TagLess(current_tag, g)
      /\ \A e \in events : TagLeq(g, e)
  BY NextTagFacts
<1>2. /\ current_tag \in Tag /\ stop_tag \in Tag /\ horizon \in Tag /\ events \subseteq Tag
  BY DEF TypeOK
<1>3. /\ current_tag' = tag /\ events' = events \ {tag}
      /\ pc' = "work" /\ UNCHANGED <<stop_tag, barrier, proposed, readers>>
  BY DEF Commit
<1>g. g.time < Forever /\ (requestors > 0 => TagLess(g, horizon))
  OBVIOUS
<1> HIDE DEF g
<1>4. tag \in Tag /\ TagLess(current_tag, tag) /\ TagLeq(tag, g)
  <2>1. CASE current_tag.time < g.time
    <3>1. /\ TagOf(g.time, 0) \in Tag /\ TagOf(g.time, 0).time = g.time
          /\ TagOf(g.time, 0).microstep = 0
      BY <1>1, TagOfType DEF Tag
    <3> QED
      BY <1>1, <2>1, <3>1, TagEquality DEF TagLess, TagLeq, Tag
  <2>2. CASE ~ (current_tag.time < g.time)
    BY <1>1, <1>2, <2>2, MicrostepIsNext DEF NextMicrostep
  <2> QED
    BY <2>1, <2>2
<1> HIDE DEF tag
<1>5. TypeOK'
  BY <1>3, <1>4 DEF TypeOK, barrier, readers
<1>6. TagInv'
  <2>1. tag.time < Forever
    BY <1>1, <1>4, <1>g, TagOrder, BarrierAssumption DEF Tag
  <2>2. ASSUME NEW e \in events, e # tag
        PROVE  TagLess(tag, e)
    BY <1>1, <1>2, <1>4, <2>2, TagTransitive DEF TagLeq
  <2>3. TagLeq(tag, stop_tag)
    BY <1>1, <1>2, <1>4, TagTransitive
  <2> QED
    BY <1>3, <2>1, <2>2, <2>3 DEF TagInv, ForeverTag, readers
<1>7. TagLess(tag, horizon)
  <2>1. CASE requestors > 0
    BY <1>1, <1>2, <1>4, <1>g, <2>1, TagTransitive
  <2>2. CASE ~ (requestors > 0)
    <3>1. horizon = ForeverTag
      BY <2>2 DEF BarrierAccount, TypeOK
    <3> QED
      BY <1>1, <1>4, <1>g, <3>1, TagOrder, ForeverTagType, BarrierAssumption DEF TagLess, Tag
  <2> QED
    BY <2>1, <2>2
<1>8. BarrierAccount'
  BY <1>3, <1>7 DEF BarrierAccount, barrier, readers, ForeverTag
<1>9. \A r \in Holders : Expected(r)
  <2>1. SUFFICES ASSUME NEW r \in Holders, ~ Expected(r)
                 PROVE  FALSE
    OBVIOUS
  <2>2. TagLeq(horizon, NextMicrostep)
    BY <2>1 DEF HorizonInv
  <2>3. TagLeq(NextMicrostep, tag) /\ NextMicrostep \in Tag
    BY <1>2, <1>4, MicrostepIsNext DEF NextMicrostep
  <2> QED
    BY <1>2, <1>4, <1>7, <2>2, <2>3, TagTransitive, TagOrder
<1>10. HorizonInv' /\ ProposedInv'
  BY <1>3, <1>9 DEF HorizonInv, ProposedInv, Expected, Holders, barrier, readers
<1> QED
  BY <1>5, <1>6, <1>8, <1>10

(* What leaves the barrier, its holders and the current tag alone keeps the  *)
(* account of the barrier.                                                   *)
LEMMA BarrierUntouched ==
  ASSUME BInv, UNCHANGED <<current_tag, barrier, purpose, message, raisedAt>>
  PROVE  BarrierAccount' /\ HorizonInv'
BY DEF BInv, BarrierAccount, HorizonInv, Holders, Expected, NextMicrostep, ForeverTag, barrier

(* A wait on the barrier goes on waiting for a tag that is not too early,    *)
(* when the queue grows or the stop tag is lowered meanwhile.                *)
LEMMA StillProposed ==
  ASSUME BInv, TypeOK', TagInv', UNCHANGED <<current_tag, pc, proposed>>,
         events \subseteq events', TagLeq(stop_tag', stop_tag)
  PROVE  ProposedInv'
<1>1. NextEventTag' \in Tag /\ TagLeq(NextEventTag', NextEventTag)
  BY NextTagEarlier DEF BInv
<1>2. NextEventTag \in Tag /\ proposed \in Tag
  BY NextTagFacts DEF BInv, TypeOK
<1> QED
  BY <1>1, <1>2, TagTransitive DEF BInv, ProposedInv

(* The initial states.                                                       *)
LEMMA InitInv == Init => BInv
<1> SUFFICES ASSUME Init PROVE BInv
  OBVIOUS
<1> USE BarrierAssumption DEF Init
<1>1. /\ StartTag \in Tag /\ StartTag.time = 0 /\ StartTag.microstep = 0
      /\ TagOf(1, 0) \in Tag /\ TagOf(1, 0).time = 1
      /\ ForeverTag \in Tag /\ ForeverTag.time = Forever
  BY TagOfType, ForeverTagType DEF StartTag
<1>2. stop_tag \in Tag /\ TagLeq(StartTag, stop_tag) /\ TagLeq(stop_tag, ForeverTag)
  <2>1. CASE stop_tag = ForeverTag
    BY <1>1, <2>1 DEF TagLeq, TagLess
  <2>2. CASE stop_tag = TagOf(Forever - 1, 0)
    <3>1. /\ TagOf(Forever - 1, 0) \in Tag /\ TagOf(Forever - 1, 0).time = Forever - 1
      BY TagOfType
    <3> QED
      BY <1>1, <2>2, <3>1 DEF TagLeq, TagLess
  <2> QED
    BY <2>1, <2>2
<1>3. TypeOK
  <2>1. /\ purpose \in [Readers -> {"none", "message", "stop"}]
        /\ message \in [Readers -> Tag] /\ raisedAt \in [Readers -> Tag]
    BY <1>1
  <2>2. messages \in 0..MaxMessages /\ requestors \in Nat /\ events \subseteq Tag
    BY <1>1
  <2> QED
    BY <1>1, <1>2, <2>1, <2>2 DEF TypeOK
<1>4. TagInv
  <2>1. \A r \in Readers : message[r].time < Forever
    BY <1>1
  <2> QED
    BY <1>1, <1>2, <2>1 DEF TagInv, TagLess
<1>5. Holders = {}
  BY DEF Holders
<1>6. BarrierAccount /\ HorizonInv /\ ProposedInv
  BY <1>1, <1>5, FS_EmptySet DEF BarrierAccount, HorizonInv, ProposedInv, TagLess, Holders
<1> QED
  BY <1>3, <1>4, <1>6 DEF BInv

(* Every step keeps the invariant.                                           *)
LEMMA NextInv == BInv /\ [Next]_vars => BInv'
<1> SUFFICES ASSUME BInv, [Next]_vars PROVE BInv'
  OBVIOUS
<1> USE DEF BInv
<1>0. RequestTags \subseteq Tag /\ (\A g \in RequestTags : g.time < Forever)
  BY BarrierAssumption DEF RequestTags, Tag
<1>1. ASSUME NEW r \in Readers, NEW g \in RequestTags, RaiseForMessage(r, g)
      PROVE  BInv'
  <2>1. message' = [message EXCEPT ![r] = IF "message" = "message" THEN g ELSE @]
        /\ messages' \in 0..MaxMessages
    BY <1>1, BarrierAssumption DEF RaiseForMessage, TypeOK
  <2> QED
    BY <1>0, <1>1, <2>1, RaiseInv DEF RaiseForMessage
<1>2. ASSUME NEW r \in Readers, RaiseForStop(r)
      PROVE  BInv'
  <2>1. message' = [message EXCEPT ![r] = IF "stop" = "message" THEN current_tag ELSE @]
        /\ messages' \in 0..MaxMessages /\ current_tag \in Tag /\ current_tag.time < Forever
    BY <1>2, BarrierAssumption DEF RaiseForStop, TypeOK, TagInv
  <2> QED
    BY <1>2, <2>1, RaiseInv DEF RaiseForStop
<1>3. ASSUME NEW r \in Readers, Deliver(r)
      PROVE  BInv'
  <2>1. /\ BarrierAccount' /\ HorizonInv' /\ requestors' \in Nat /\ horizon' \in Tag
    BY <1>3, ReleaseInv DEF Deliver
  <2>2. /\ UNCHANGED <<current_tag, stop_tag, pc, proposed, message, raisedAt, messages>>
        /\ purpose' \in [Readers -> {"none", "message", "stop"}] /\ notified' \in BOOLEAN
        /\ message[r] \in Tag
    BY <1>3 DEF Deliver, Decrement, TypeOK
  <2>3. events' \in {events, events \cup {message[r]}}
        /\ (events' # events => TagLess(current_tag, message[r]) /\ TagLeq(message[r], stop_tag))
    BY <1>3 DEF Deliver
  <2>4. TypeOK'
    BY <2>1, <2>2, <2>3 DEF TypeOK
  <2>5. TagInv'
    BY <2>2, <2>3 DEF TagInv, ForeverTag
  <2>6. ProposedInv'
    BY <2>2, <2>3, <2>4, <2>5, StillProposed DEF TagLeq
  <2> QED
    BY <2>1, <2>4, <2>5, <2>6
<1>4. ASSUME NEW r \in Readers, NEW g \in RequestTags, GrantStop(r, g)
      PROVE  BInv'
  <2>1. /\ BarrierAccount' /\ HorizonInv' /\ requestors' \in Nat /\ horizon' \in Tag
    BY <1>4, ReleaseInv DEF GrantStop
  <2>2. /\ stop_tag' \in Tag /\ TagLeq(stop_tag', stop_tag)
        /\ TagLess(current_tag, stop_tag) => TagLess(current_tag, stop_tag')
        /\ TagLeq(current_tag, stop_tag') /\ TagLeq(stop_tag', ForeverTag)
    <3>1. /\ stop_tag \in Tag /\ g \in Tag /\ TagLess(current_tag, g)
          /\ stop_tag' = TagMin(g, stop_tag)
          /\ TagLeq(current_tag, stop_tag) /\ TagLeq(stop_tag, ForeverTag)
      BY <1>0, <1>4 DEF GrantStop, TypeOK, TagInv
    <3>2. /\ stop_tag' \in {g, stop_tag} /\ TagLeq(stop_tag', stop_tag)
      BY <3>1, TagMinimum
    <3> QED
      BY <3>1, <3>2, TagTransitive, ForeverTagType DEF TagLeq
  <2>3. /\ UNCHANGED <<current_tag, events, pc, proposed, message, raisedAt, messages>>
        /\ purpose' \in [Readers -> {"none", "message", "stop"}] /\ notified' \in BOOLEAN
    BY <1>4 DEF GrantStop, Decrement, TypeOK
  <2>4. TypeOK'
    BY <2>1, <2>2, <2>3 DEF TypeOK
  <2>5. TagInv'
    BY <2>2, <2>3 DEF TagInv, ForeverTag
  <2>6. ProposedInv'
    BY <2>2, <2>3, <2>4, <2>5, StillProposed
  <2> QED
    BY <2>1, <2>4, <2>5, <2>6
<1>5. ASSUME NEW g \in RequestTags, ScheduleLocal(g)
      PROVE  BInv'
  <2>1. TypeOK'
    BY <1>0, <1>5, BarrierAssumption DEF ScheduleLocal, TypeOK, barrier
  <2>2. TagInv'
    BY <1>0, <1>5 DEF ScheduleLocal, TagInv, ForeverTag
  <2>3. ProposedInv'
    BY <1>5, <2>1, <2>2, StillProposed DEF ScheduleLocal, TagLeq
  <2> QED
    BY <1>5, <2>1, <2>2, <2>3, BarrierUntouched DEF ScheduleLocal
<1>6. CASE Start \/ BeginNext
  <2>1. UNCHANGED <<current_tag, stop_tag, events, barrier, proposed, notified, readers>>
        /\ pc' \in {"work", "done", "until"}
    BY <1>6 DEF Start, BeginNext
  <2>2. TypeOK'
    BY <2>1 DEF TypeOK, barrier, readers
  <2>3. pc' = "until" => TagLess(current_tag, stop_tag)
    BY <1>6, TagOrder DEF Start, BeginNext, TypeOK
  <2>4. TagInv' /\ ProposedInv'
    BY <2>1, <2>3 DEF TagInv, ProposedInv, ForeverTag, readers
  <2> QED
    BY <2>1, <2>2, <2>4, BarrierUntouched DEF readers
<1>7. CASE ReachTime
  <2>1. /\ TagLess(current_tag, stop_tag) /\ NextEventTag.time < Forever
        /\ NextEventTag \in Tag /\ TagLeq(NextEventTag, stop_tag) /\ stop_tag \in Tag
    BY <1>7, NextTagFacts DEF ReachTime, TagInv, TypeOK
  <2>2. CASE Blocked(NextEventTag)
    <3>1. /\ UNCHANGED <<current_tag, stop_tag, events, barrier, notified, readers>>
          /\ pc' = "barrier" /\ proposed' = NextEventTag
      BY <1>7, <2>2 DEF ReachTime
    <3>2. NextEventTag' = NextEventTag
      BY <3>1 DEF NextEventTag, NextMicrostep, ForeverTag
    <3>3. TypeOK'
      BY <2>1, <3>1 DEF TypeOK, barrier, readers
    <3>4. TagInv' /\ ProposedInv'
      BY <2>1, <3>1, <3>2 DEF TagInv, ProposedInv, ForeverTag, TagLeq, readers
    <3> QED
      BY <3>1, <3>3, <3>4, BarrierUntouched DEF readers
  <2>3. CASE ~ Blocked(NextEventTag)
    <3>1. Commit(NextEventTag) /\ UNCHANGED notified /\ notified \in BOOLEAN
      BY <1>7, <2>3 DEF ReachTime, TypeOK
    <3>2. TagMin(NextEventTag, stop_tag) = NextEventTag
      BY <2>1, TagOrder DEF TagMin, TagLeq
    <3>3. requestors > 0 => TagLess(NextEventTag, horizon)
      BY <2>1, <2>3, <3>2, TagOrder, BarrierAssumption DEF Blocked, TypeOK, Tag
    <3> QED
      BY <2>1, <3>1, <3>3, CommitInv
  <2> QED
    BY <2>2, <2>3
<1>8. CASE Wake
  <2> DEFINE g == TagMin(proposed, stop_tag)
  <2>1. /\ TagLess(current_tag, stop_tag) /\ TagLeq(NextEventTag, proposed)
        /\ NextEventTag \in Tag /\ TagLeq(NextEventTag, stop_tag)
        /\ stop_tag \in Tag /\ proposed \in Tag /\ proposed.time < Forever
    BY <1>8, NextTagFacts DEF Wake, TagInv, TypeOK, ProposedInv
  <2>2. /\ g \in {proposed, stop_tag} /\ TagLeq(g, proposed) /\ g \in Tag
        /\ TagLeq(NextEventTag, g)
    BY <2>1, TagMinimum
  <2>3. /\ g.time <= proposed.time /\ NextEventTag.time <= proposed.time
        /\ g.time \in Nat /\ NextEventTag.time \in Nat /\ proposed.time \in Nat
    BY <2>1, <2>2, TagOrder DEF Tag
  <2>4. g.time < Forever /\ NextEventTag.time < Forever
    BY <2>1, <2>3, BarrierAssumption
  <2>5. CASE Blocked(g)
    <3>1. /\ UNCHANGED <<current_tag, stop_tag, events, barrier, pc, readers>>
          /\ notified' = FALSE /\ proposed' = g
      BY <1>8, <2>5 DEF Wake
    <3>2. NextEventTag' = NextEventTag
      BY <3>1 DEF NextEventTag, NextMicrostep, ForeverTag
    <3> HIDE DEF g
    <3>3. TypeOK'
      BY <2>2, <3>1 DEF TypeOK, barrier, readers
    <3>4. TagInv' /\ ProposedInv'
      BY <2>2, <2>4, <3>1, <3>2 DEF TagInv, ProposedInv, ForeverTag, readers
    <3> QED
      BY <3>1, <3>3, <3>4, BarrierUntouched DEF readers
  <2>6. CASE ~ Blocked(g)
    <3>1. Commit(NextEventTag) /\ notified' = FALSE
      BY <1>8, <2>6 DEF Wake
    <3>2. TagMin(g, stop_tag) = g
      BY <2>1, <2>2, TagOrder DEF TagMin, TagLeq
    <3>3. requestors > 0 => TagLess(g, horizon)
      <4>1. requestors > 0 => ~ TagLeq(horizon, g)
        <5>1. g.time # Forever
          BY <2>3, <2>4, BarrierAssumption
        <5> HIDE DEF g
        <5> QED
          BY <2>6, <3>2, <5>1 DEF Blocked
      <4> QED
        BY <2>2, <4>1, TagOrder DEF TypeOK
    <3>4. requestors > 0 => TagLess(NextEventTag, horizon)
      BY <2>1, <2>2, <3>3, TagTransitive DEF TypeOK
    <3> QED
      BY <2>1, <2>4, <3>1, <3>4, CommitInv
  <2> QED
    BY <2>5, <2>6
<1>9. CASE Idle \/ UNCHANGED vars
  <2>1. UNCHANGED vars
    BY <1>9 DEF Idle
  <2>2. TypeOK' /\ TagInv' /\ ProposedInv'
    BY <2>1 DEF vars, barrier, readers, TypeOK, TagInv, ProposedInv, ForeverTag, NextEventTag,
                NextMicrostep
  <2> QED
    BY <2>1, <2>2, BarrierUntouched DEF vars, readers
<1> QED
  BY <1>1, <1>2, <1>3, <1>4, <1>5, <1>6, <1>7, <1>8, <1>9 DEF Next

-----------------------------------------------------------------------------
(* Results *)

(* Every state the program reaches satisfies the invariant.                  *)
LEMMA InvHolds == Spec => []BInv
BY InitInv, NextInv, PTL DEF Spec

(* The barrier is counted right, for any number of threads that raise and    *)
(* release it, and the tag never reaches the horizon; the "mismatched use"   *)
(* error of the decrement is unreachable.                                    *)
THEOREM BarrierCounted == Spec => []BarrierConsistent
<1>1. BInv => BarrierConsistent
  BY DEF BInv, BarrierConsistent
<1> QED
  BY <1>1, InvHolds, PTL

(* While a message is being read that was in the future, the tag does not    *)
(* get to it, although the worker gives up the mutex in its two waits.       *)
THEOREM MessagesArriveInTime == Spec => []MessagesInTime
<1>1. BInv => MessagesInTime
  <2> SUFFICES ASSUME BInv, NEW r \in Readers, purpose[r] = "message",
                      TagLess(raisedAt[r], message[r])
               PROVE  TagLess(current_tag, message[r])
    BY DEF MessagesInTime
  <2>1. TagLeq(horizon, message[r])
    BY DEF BInv, HorizonInv, Holders, Expected
  <2> QED
    BY <2>1, TagTransitive DEF BInv, BarrierAccount, TypeOK
<1> QED
  BY <1>1, InvHolds, PTL

(* A late message, or an open stop request, keeps the tag where it was.      *)
THEOREM LateMessagesFreeze == Spec => []LateFreezes
<1>1. BInv => LateFreezes
  BY DEF BInv, HorizonInv, Holders, Expected, LateFreezes
<1> QED
  BY <1>1, InvHolds, PTL
=============================================================================
