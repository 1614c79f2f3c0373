----------------------------- MODULE TagsProofs -----------------------------
(***************************************************************************)
(* Lemmas about the tags of superdense time, for the proofs about every    *)
(* module that has tags.                                                   *)
(***************************************************************************)
EXTENDS Tags, TLAPS, WellFoundedInduction

(* A tag is given by its two parts.                                          *)
LEMMA TagEquality ==
  ASSUME NEW a \in Tag, NEW b \in Tag, a.time = b.time, a.microstep = b.microstep
  PROVE  a = b
BY DEF Tag

(* lf_tag_compare is a total order.                                          *)
LEMMA TagOrder ==
  ASSUME NEW a \in Tag, NEW b \in Tag
  PROVE  /\ ~TagLess(a, b) <=> TagLeq(b, a)
         /\ TagLess(a, b) => ~TagLess(b, a) /\ a # b
         /\ TagLeq(a, b) => a.time <= b.time
BY TagEquality DEF Tag, TagLess, TagLeq

(* lf_tag_compare is transitive.                                             *)
LEMMA TagTransitive ==
  ASSUME NEW a \in Tag, NEW b \in Tag, NEW c \in Tag
  PROVE  /\ TagLess(a, b) /\ TagLeq(b, c) => TagLess(a, c)
         /\ TagLeq(a, b) /\ TagLess(b, c) => TagLess(a, c)
         /\ TagLeq(a, b) /\ TagLeq(b, c) => TagLeq(a, c)
BY DEF Tag, TagLess, TagLeq

(* The earlier of two tags is one of them, and not after the other.         *)
LEMMA TagMinimum ==
  ASSUME NEW a \in Tag, NEW b \in Tag
  PROVE  /\ TagMin(a, b) \in {a, b}
         /\ TagLeq(TagMin(a, b), a) /\ TagLeq(TagMin(a, b), b)
BY TagOrder DEF TagMin, TagLeq

(* A time and a microstep make a tag.                                        *)
LEMMA TagOfType ==
  ASSUME NEW t \in Nat, NEW m \in Nat
  PROVE  TagOf(t, m) \in Tag /\ TagOf(t, m).time = t /\ TagOf(t, m).microstep = m
BY DEF Tag, TagOf

(* A nonempty set of natural numbers has a least element.                    *)
LEMMA LeastNatural ==
  ASSUME NEW T \in SUBSET Nat, T # {}
  PROVE  \E x \in T : \A y \in T : x <= y
<1>1. PICK x \in T : \A y \in T : ~ (<<y, x>> \in OpToRel(<, Nat))
  BY NatLessThanWellFounded, WFMin
<1>2. ASSUME NEW y \in T
      PROVE  x <= y
  <2>1. y \in Nat /\ x \in Nat
    OBVIOUS
  <2>2. ~ (y < x)
    BY <1>1, <2>1 DEF OpToRel
  <2> QED
    BY <2>1, <2>2
<1> QED
  BY <1>2

(* A nonempty set of tags has an earliest one.                               *)
LEMMA EarliestTag ==
  ASSUME NEW T \in SUBSET Tag, T # {}
  PROVE  \E a \in T : \A b \in T : TagLeq(a, b)
<1> DEFINE times == {a.time : a \in T}
<1>1. PICK t \in times : \A u \in times : t <= u
  <2>1. times \in SUBSET Nat /\ times # {}
    BY DEF Tag
  <2> HIDE DEF times
  <2> QED
    BY <2>1, LeastNatural
<1> DEFINE microsteps == {a.microstep : a \in {b \in T : b.time = t}}
<1>2. PICK m \in microsteps : \A n \in microsteps : m <= n
  <2>1. microsteps \in SUBSET Nat /\ microsteps # {}
    BY <1>1 DEF Tag
  <2> HIDE DEF microsteps
  <2> QED
    BY <2>1, LeastNatural
<1>3. PICK a \in T : a.time = t /\ a.microstep = m
  BY <1>2
<1>4. ASSUME NEW b \in T
      PROVE  TagLeq(a, b)
  <2>1. a.time <= b.time
    BY <1>1, <1>3
  <2>2. b.time = a.time => a.microstep <= b.microstep
    BY <1>2, <1>3
  <2> QED
    BY <2>1, <2>2, TagEquality DEF TagLeq, TagLess, Tag
<1> QED
  BY <1>4

(* The next microstep is the next tag.                                       *)
LEMMA MicrostepIsNext ==
  ASSUME NEW a \in Tag, NEW b \in Tag
  PROVE  LET next == TagOf(a.time, a.microstep + 1)
         IN  /\ next \in Tag /\ TagLess(a, next)
             /\ TagLess(a, b) => TagLeq(next, b)
<1> DEFINE next == TagOf(a.time, a.microstep + 1)
<1>1. next \in Tag /\ next.time = a.time /\ next.microstep = a.microstep + 1
  BY TagOfType DEF Tag
<1> HIDE DEF next
<1>2. TagLess(a, next)
  BY <1>1 DEF TagLess, Tag
<1>3. TagLess(a, b) => TagLeq(next, b)
  BY <1>1, TagEquality DEF TagLess, TagLeq, Tag
<1> QED
  BY <1>1, <1>2, <1>3 DEF next

(* lf_request_stop and starvation: the next microstep, or the stop tag that  *)
(* was set before, lies after the current tag.                               *)
LEMMA LoweredStop ==
  ASSUME NEW c \in Tag, NEW stop \in Tag, TagLess(c, stop)
  PROVE  LET s == TagMin(TagOf(c.time, c.microstep + 1), stop)
         IN  s \in Tag /\ TagLess(c, s) /\ TagLeq(s, stop)
BY MicrostepIsNext, TagMinimum

(* At the stop tag the stop tag stays.                                       *)
LEMMA StopStays ==
  ASSUME NEW c \in Tag
  PROVE  TagMin(TagOf(c.time, c.microstep + 1), c) = c
BY MicrostepIsNext, TagOrder DEF TagMin

(* _lf_advance_logical_time before the stop tag, to a time from now to the   *)
(* stop time: a later tag, of that time, not after the stop tag.             *)
LEMMA AdvanceFacts ==
  ASSUME NEW c \in Tag, NEW stop \in Tag, TagLess(c, stop),
         NEW t \in Nat, c.time <= t, t <= stop.time
  PROVE  LET a == IF c.time < t THEN TagOf(t, 0) ELSE TagOf(c.time, c.microstep + 1)
         IN  a \in Tag /\ a.time = t /\ TagLess(c, a) /\ TagLeq(a, stop)
<1> DEFINE a == IF c.time < t THEN TagOf(t, 0) ELSE TagOf(c.time, c.microstep + 1)
<1>1. CASE c.time < t
  <2>1. a \in Tag /\ a.time = t /\ a.microstep = 0
    BY <1>1, TagOfType
  <2>2. TagLess(c, a)
    BY <1>1, <2>1 DEF TagLess
  <2>3. ~ TagLess(stop, a)
    BY <2>1 DEF TagLess, Tag
  <2> QED
    BY <2>1, <2>2, <2>3, TagOrder
<1>2. CASE c.time = t
  <2>1. a \in Tag /\ a.time = t /\ TagLess(c, a) /\ TagLeq(a, stop)
    BY <1>2, MicrostepIsNext, TagOfType DEF Tag
  <2> QED
    BY <2>1
<1> QED
  BY <1>1, <1>2 DEF Tag
=============================================================================
