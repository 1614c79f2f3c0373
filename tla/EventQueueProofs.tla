-------------------------- MODULE EventQueueProofs --------------------------
(***************************************************************************)
(* Proofs about EventQueue, for every program and any memory.              *)
(***************************************************************************)
EXTENDS EventQueue, TagsProofs, FiniteSetTheorems, SequenceTheorems

-----------------------------------------------------------------------------
(* The inductive invariant of the events *)

(* The events in use: in a queue or in a chain, or lost to the program.      *)
Live == calloced \ recycle_q

Heads == event_q \cup next_q

(* An event in use belongs to a trigger; an event is not the next one of two *)
(* others, nor of any if it is in a queue; what is not in use is cleared.    *)
LinkInv ==
  /\ Heads \subseteq Live /\ event_q \cap next_q = {}
  /\ \A x \in Live : ev[x].trigger \in DOMAIN prog /\ ev[x].next \in Live \cup {NULL}
  /\ \A x, y \in Live : ev[x].next = ev[y].next /\ ev[x].next # NULL => x = y
  /\ \A x \in Live : ev[x].next \notin Heads
  /\ \A x \in Events \ Live : ev[x] = Zeroed

QInv == TypeOK /\ prog \in Programs /\ LinkInv

-----------------------------------------------------------------------------
(* Chains *)

(* g[i] is what step makes of b in i rounds. *)
Iterates(g, S, step, b, n) ==
  /\ g \in [0 .. n -> S]
  /\ g[0] = b /\ \A i \in 0 .. n : i # 0 => g[i] = step[g[i - 1]]

(* A loop of n rounds has a result in each round.                            *)
LEMMA Iteration ==
  ASSUME NEW S, NEW step \in [S -> S], NEW b \in S, NEW n \in Nat
  PROVE  \E g : Iterates(g, S, step, b, n)
<1> DEFINE Run(m, g) == Iterates(g, S, step, b, m)
           bad == {m \in Nat : ~ \E g : Run(m, g)}
<1>1. bad = {}
  <2> SUFFICES ASSUME bad # {}
               PROVE  FALSE
    OBVIOUS
  <2>1. PICK m \in bad : \A k \in bad : m <= k
    <3>1. bad \in SUBSET Nat
      OBVIOUS
    <3> HIDE DEF bad
    <3> QED
      BY <3>1, LeastNatural
  <2>2. m \in Nat /\ ~ \E g : Run(m, g)
    BY <2>1
  <2>3. CASE m = 0
    <3> DEFINE h == [i \in 0 .. 0 |-> b]
    <3>1. Run(0, h)
      BY DEF Iterates
    <3> QED
      BY <2>2, <2>3, <3>1
  <2>4. CASE m # 0
    <3>1. m - 1 \in Nat /\ m - 1 \notin bad
      <4> HIDE DEF bad
      <4> QED
        BY <2>1, <2>2, <2>4
    <3>2. PICK g : Run(m - 1, g)
      BY <3>1
    <3> DEFINE h == [i \in 0 .. m |-> IF i < m THEN g[i] ELSE step[g[m - 1]]]
    <3>3. g[m - 1] \in S /\ \A i \in 0 .. m : i < m => i \in 0 .. m - 1 /\ g[i] \in S
      BY <2>2, <2>4, <3>1, <3>2 DEF Iterates
    <3>4. h \in [0 .. m -> S]
      BY <3>3
    <3>5. 0 \in 0 .. m /\ 0 < m /\ h[0] = b
      BY <2>2, <2>4, <3>2 DEF Iterates
    <3>6. ASSUME NEW i \in 0 .. m, i # 0
          PROVE  h[i] = step[h[i - 1]]
      <4>1. i - 1 \in 0 .. m /\ i - 1 < m /\ h[i - 1] = g[i - 1]
        BY <2>2, <3>6
      <4>2. CASE i < m
        <5>1. h[i] = g[i] /\ i \in 0 .. m - 1
          BY <2>2, <4>2
        <5> QED
          BY <3>2, <3>6, <4>1, <5>1 DEF Iterates
      <4>3. CASE i = m
        BY <4>1, <4>3
      <4> QED
        BY <2>2, <4>2, <4>3
    <3>7. Run(m, h)
      <4> HIDE DEF h
      <4> QED
        BY <3>4, <3>5, <3>6 DEF Iterates
    <3> QED
      BY <2>2, <3>7
  <2> QED
    BY <2>3, <2>4
<1>2. \E g : Run(n, g)
  BY <1>1
<1> QED
  BY <1>2

(* What follows an event in its chain is in use; the chain ends at NULL.     *)
LEMMA FollowFacts ==
  ASSUME QInv, NEW h \in Live
  PROVE  LET N == Cardinality(Events)
         IN  /\ N \in Nat \ {0}
             /\ Follow(h, 0) = h
             /\ \A i \in 0 .. N : Follow(h, i) \in Live \cup {NULL}
             /\ \A i \in 0 .. N - 1 :
                  Follow(h, i + 1) = IF Follow(h, i) = NULL THEN NULL ELSE ev[Follow(h, i)].next
<1> DEFINE N == Cardinality(Events)
           S == Live \cup {NULL}
           step == [p \in S |-> IF p = NULL THEN NULL ELSE ev[p].next]
           f[i \in 0 .. N] ==
             IF i = 0 THEN h ELSE LET p == f[i - 1] IN IF p = NULL THEN NULL ELSE ev[p].next
<1>1. N \in Nat \ {0}
  BY QueueAssumption, FS_CardinalityType, FS_EmptySet
<1>2. \A p \in S : (IF p = NULL THEN NULL ELSE ev[p].next) \in S
  BY DEF QInv, LinkInv
<1>3. step \in [S -> S] /\ h \in S
  BY <1>2
<1>4. \A n : Follow(h, n) = f[n]
  BY DEF Follow
<1> HIDE DEF S
<1>5. PICK g : Iterates(g, S, step, h, N)
  <2> HIDE DEF N, step, f
  <2>1. N \in Nat
    BY <1>1
  <2> QED
    BY <1>3, <2>1, Iteration
<1>6. ASSUME NEW i \in 0 .. N
      PROVE  g[i] = IF i = 0 THEN h
                    ELSE LET p == g[i - 1] IN IF p = NULL THEN NULL ELSE ev[p].next
  <2>1. CASE i = 0
    BY <1>5, <2>1 DEF Iterates
  <2>2. CASE i # 0
    <3>1. i - 1 \in 0 .. N
      BY <1>1, <2>2
    <3>2. g[i - 1] \in S
      BY <1>5, <3>1 DEF Iterates
    <3>3. g[i] = step[g[i - 1]]
      BY <1>5, <2>2 DEF Iterates
    <3> QED
      BY <2>2, <3>2, <3>3
  <2> QED
    BY <2>1, <2>2
<1>7. g = [i \in 0 .. N |-> IF i = 0 THEN h
                            ELSE LET p == g[i - 1] IN IF p = NULL THEN NULL ELSE ev[p].next]
  <2> DEFINE k == [i \in 0 .. N |-> IF i = 0 THEN h
                            ELSE LET p == g[i - 1] IN IF p = NULL THEN NULL ELSE ev[p].next]
  <2>1. \A i \in 0 .. N : g[i] = k[i]
    BY <1>6
  <2>2. g = [i \in 0 .. N |-> g[i]] /\ k = [i \in 0 .. N |-> k[i]]
    BY <1>5 DEF Iterates
  <2> HIDE DEF k
  <2>3. g = k
    BY <2>1, <2>2
  <2> QED
    BY <2>3 DEF k
<1>8. f = [i \in 0 .. N |-> IF i = 0 THEN h
                            ELSE LET p == f[i - 1] IN IF p = NULL THEN NULL ELSE ev[p].next]
  BY <1>7
<1> HIDE DEF f, step
<1>9. f[0] = h
  BY <1>1, <1>8
<1>10. ASSUME NEW i \in 0 .. N - 1
       PROVE  f[i + 1] = IF f[i] = NULL THEN NULL ELSE ev[f[i]].next
  <2>1. i + 1 \in 0 .. N /\ i + 1 # 0 /\ (i + 1) - 1 = i
    BY <1>1
  <2> QED
    BY <1>8, <2>1
<1>11. \A i \in 0 .. N : f[i] \in S
  <2> DEFINE bad == {i \in 0 .. N : f[i] \notin S}
  <2> SUFFICES ASSUME bad # {}
               PROVE  FALSE
    OBVIOUS
  <2>1. PICK n \in bad : \A m \in bad : n <= m
    <3>1. bad \in SUBSET Nat
      BY <1>1
    <3> HIDE DEF bad
    <3> QED
      BY <3>1, LeastNatural
  <2>2. n # 0
    BY <1>3, <1>9, <2>1
  <2>3. n - 1 \in 0 .. N - 1 /\ n - 1 \in 0 .. N /\ (n - 1) + 1 = n
    BY <1>1, <2>1, <2>2
  <2>4. f[n - 1] \in S
    <3>1. n - 1 \notin bad
      <4> HIDE DEF bad
      <4> QED
        BY <1>1, <2>1, <2>3
    <3> QED
      BY <2>3, <3>1
  <2>5. f[n] \in S
    BY <1>2, <1>10, <2>3, <2>4
  <2> QED
    BY <2>1, <2>5
<1> QED
  BY <1>1, <1>4, <1>9, <1>10, <1>11 DEF S

(* A chain has no gaps: its length says which of its events there are.       *)
LEMMA ChainFacts ==
  ASSUME QInv, NEW h \in Live
  PROVE  /\ ChainLength(h) \in 1 .. Cardinality(Events)
         /\ \A i \in 0 .. ChainLength(h) - 1 : Follow(h, i) \in Live
         /\ LastOf(h) \in Live
<1> DEFINE N == Cardinality(Events)
<1>1. /\ N \in Nat \ {0} /\ Follow(h, 0) = h
      /\ \A i \in 0 .. N : Follow(h, i) \in Live \cup {NULL}
      /\ \A i \in 0 .. N - 1 :
           Follow(h, i + 1) = IF Follow(h, i) = NULL THEN NULL ELSE ev[Follow(h, i)].next
  BY FollowFacts
<1>2. h # NULL
  BY QueueAssumption DEF QInv, TypeOK, Live
<1> HIDE DEF N
<1>3. /\ IsFiniteSet(Chain(h)) /\ ChainLength(h) \in Nat /\ ChainLength(h) <= N
      /\ 0 \in Chain(h)
  <2>1. IsFiniteSet(0 .. N - 1) /\ Cardinality(0 .. N - 1) = N
    BY <1>1, FS_Interval
  <2>2. Chain(h) \in SUBSET (0 .. N - 1)
    BY DEF Chain, N
  <2>3. 0 \in Chain(h)
    BY <1>1, <1>2 DEF Chain, N
  <2> QED
    BY <2>1, <2>2, <2>3, FS_Subset, FS_CardinalityType DEF ChainLength
<1>4. ChainLength(h) # 0
  BY <1>3, FS_EmptySet DEF ChainLength
<1>5. ASSUME NEW i \in 0 .. N, Follow(h, i) = NULL
      PROVE  ChainLength(h) <= i
  <2>1. ASSUME NEW j \in 0 .. N, i <= j
        PROVE  Follow(h, j) = NULL
    <3> DEFINE bad == {k \in i .. N : Follow(h, k) # NULL}
    <3> SUFFICES ASSUME bad # {}
                 PROVE  FALSE
      BY <1>1, <2>1
    <3>1. PICK k \in bad : \A m \in bad : k <= m
      <4>1. bad \in SUBSET Nat
        BY <1>1
      <4> HIDE DEF bad
      <4> QED
        BY <4>1, LeastNatural
    <3>2. k \in i .. N /\ Follow(h, k) # NULL
      BY <3>1
    <3>3. k - 1 \in 0 .. N - 1 /\ (k - 1) + 1 = k /\ k - 1 \in i .. N
      BY <1>1, <1>5, <3>2
    <3>4. Follow(h, k - 1) = NULL
      <4>1. k - 1 \notin bad
        <5> HIDE DEF bad
        <5> QED
          BY <1>1, <3>1, <3>2, <3>3
      <4> QED
        BY <3>3, <4>1
    <3> QED
      BY <1>1, <3>2, <3>3, <3>4
  <2>2. Chain(h) \in SUBSET (0 .. i - 1)
    BY <1>1, <2>1 DEF Chain, N
  <2>3. IsFiniteSet(0 .. i - 1) /\ Cardinality(0 .. i - 1) = i
    <3>1. 0 \in Int /\ i - 1 \in Int /\ (IF 0 > i - 1 THEN 0 ELSE (i - 1) - 0 + 1) = i
      BY <1>1
    <3> QED
      BY <3>1, FS_Interval
  <2> QED
    BY <2>2, <2>3, FS_Subset DEF ChainLength
<1>6. ASSUME NEW i \in 0 .. ChainLength(h) - 1
      PROVE  Follow(h, i) \in Live
  <2>1. i \in 0 .. N /\ ~ (ChainLength(h) <= i)
    BY <1>1, <1>3
  <2> QED
    BY <1>1, <1>5, <2>1
<1>7. LastOf(h) \in Live
  BY <1>1, <1>3, <1>4, <1>6 DEF LastOf
<1> QED
  BY <1>1, <1>3, <1>4, <1>6, <1>7 DEF N

(* Chains do not meet: an event is at one place of one of them.              *)
LEMMA ChainsApart ==
  ASSUME QInv, NEW h \in Heads, NEW g \in Heads,
         NEW i \in 0 .. Cardinality(Events), NEW j \in 0 .. Cardinality(Events),
         Follow(h, i) = Follow(g, j), Follow(h, i) # NULL
  PROVE  h = g /\ i = j
<1> DEFINE N == Cardinality(Events)
           meet(k) == \E a, b \in Heads, m \in 0 .. N :
                        /\ Follow(a, k) = Follow(b, m) /\ Follow(a, k) # NULL
                        /\ ~ (a = b /\ k = m)
           bad == {k \in 0 .. N : meet(k)}
<1> SUFFICES ASSUME bad # {}
             PROVE  FALSE
  OBVIOUS
<1>1. Heads \subseteq Live
  BY DEF QInv, LinkInv
<1>2. N \in Nat \ {0}
  BY <1>1, FollowFacts
<1>3. PICK k \in bad : \A m \in bad : k <= m
  <2>1. bad \in SUBSET Nat
    BY <1>2
  <2> HIDE DEF bad
  <2> QED
    BY <2>1, LeastNatural
<1>4. PICK a \in Heads, b \in Heads, m \in 0 .. N :
        Follow(a, k) = Follow(b, m) /\ Follow(a, k) # NULL /\ ~ (a = b /\ k = m)
  BY <1>3
<1>5. k \in 0 .. N
  BY <1>3
<1> DEFINE After(c, n) == /\ n - 1 \in 0 .. N - 1 /\ n - 1 \in 0 .. N /\ Follow(c, n - 1) \in Live
                          /\ Follow(c, n) = ev[Follow(c, n - 1)].next
<1>6. ASSUME NEW c \in Heads, NEW n \in 0 .. N, n # 0, Follow(c, n) # NULL
      PROVE  After(c, n)
  <2>1. n - 1 \in 0 .. N - 1 /\ n - 1 \in 0 .. N /\ (n - 1) + 1 = n
    BY <1>2, <1>6
  <2>2. /\ Follow(c, n - 1) \in Live \cup {NULL}
        /\ Follow(c, n) = IF Follow(c, n - 1) = NULL THEN NULL ELSE ev[Follow(c, n - 1)].next
    <3> HIDE DEF N
    <3>1. /\ \A l \in 0 .. N : Follow(c, l) \in Live \cup {NULL}
          /\ \A l \in 0 .. N - 1 :
               Follow(c, l + 1) = IF Follow(c, l) = NULL THEN NULL ELSE ev[Follow(c, l)].next
      BY <1>1, FollowFacts DEF N
    <3>2. Follow(c, (n - 1) + 1) =
            IF Follow(c, n - 1) = NULL THEN NULL ELSE ev[Follow(c, n - 1)].next
      BY <2>1, <3>1
    <3> QED
      BY <2>1, <3>1, <3>2
  <2> QED
    BY <1>6, <2>1, <2>2
<1>7. Follow(a, 0) = a /\ Follow(b, 0) = b
  BY <1>1, FollowFacts
<1>8. k # 0
  <2> SUFFICES ASSUME k = 0
               PROVE  FALSE
    OBVIOUS
  <2>1. m # 0
    BY <1>4, <1>7
  <2>2. a = ev[Follow(b, m - 1)].next /\ Follow(b, m - 1) \in Live
    BY <1>4, <1>6, <1>7, <2>1
  <2> QED
    BY <2>2 DEF QInv, LinkInv
<1>9. m # 0
  <2> SUFFICES ASSUME m = 0
               PROVE  FALSE
    OBVIOUS
  <2>1. b = ev[Follow(a, k - 1)].next /\ Follow(a, k - 1) \in Live
    BY <1>4, <1>5, <1>6, <1>7, <1>8
  <2> QED
    BY <2>1 DEF QInv, LinkInv
<1>10. After(a, k) /\ After(b, m)
  BY <1>4, <1>5, <1>6, <1>8, <1>9
<1>11. Follow(a, k - 1) = Follow(b, m - 1)
  BY <1>4, <1>10 DEF QInv, LinkInv
<1>12. Follow(a, k - 1) # NULL
  BY <1>10, QueueAssumption DEF QInv, TypeOK, Live
<1>13. ~ (a = b /\ k - 1 = m - 1)
  BY <1>2, <1>4, <1>5
<1>14. k - 1 \in bad
  BY <1>10, <1>11, <1>12, <1>13
<1> QED
  <2> HIDE DEF bad
  <2> QED
    BY <1>2, <1>3, <1>5, <1>14

(* What is in the queue is in use.                                           *)
LEMMA InQueueLive ==
  ASSUME QInv
  PROVE  InQueue \subseteq Live
<1> DEFINE N == Cardinality(Events)
<1>1. Heads \subseteq Live
  BY DEF QInv, LinkInv
<1>2. ASSUME NEW x \in InQueue
      PROVE  x \in Live
  <2>1. x \in Events /\ Places(x) # {}
    BY DEF InQueue
  <2>2. PICK p \in Places(x) : TRUE
    BY <2>1
  <2>3. p \in Heads \X (0 .. N - 1) /\ Follow(p[1], p[2]) = x
    BY <2>2 DEF Places, Heads
  <2>4. p[1] \in Live /\ N \in Nat /\ p[2] \in 0 .. N
    BY <1>1, <2>3, FollowFacts
  <2> QED
    BY <2>1, <2>3, <2>4, FollowFacts, QueueAssumption
<1> QED
  BY <1>2

(* From the links to the property: an event is in one place.                 *)
LEMMA OnePlace ==
  ASSUME QInv
  PROVE  EventsInOnePlace
<1> DEFINE N == Cardinality(Events)
<1>1. ASSUME NEW x \in InQueue
      PROVE  Cardinality(Places(x)) = 1
  <2>1. x \in Events /\ Places(x) # {}
    BY DEF InQueue
  <2>2. PICK p \in Places(x) : TRUE
    BY <2>1
  <2>3. p \in Heads \X (0 .. N - 1) /\ Follow(p[1], p[2]) = x
    BY <2>2 DEF Places, Heads
  <2>4. x # NULL
    BY <2>1, QueueAssumption
  <2>5. ASSUME NEW q \in Places(x)
        PROVE  q = p
    <3>1. q \in Heads \X (0 .. N - 1) /\ Follow(q[1], q[2]) = x
      BY DEF Places, Heads
    <3>2. /\ p[1] \in Heads /\ q[1] \in Heads /\ Heads \subseteq Live
          /\ N \in Nat /\ p[2] \in 0 .. N /\ q[2] \in 0 .. N
      <4>1. p[1] \in Live
        BY <2>3 DEF QInv, LinkInv
      <4>2. N \in Nat
        BY <4>1, FollowFacts
      <4> QED
        BY <2>3, <3>1, <4>2 DEF QInv, LinkInv
    <3>3. q[1] = p[1] /\ q[2] = p[2]
      BY <2>3, <2>4, <3>1, <3>2, ChainsApart
    <3> QED
      BY <2>3, <3>1, <3>3
  <2>6. Places(x) = {p}
    BY <2>2, <2>5
  <2> QED
    BY <2>6, FS_Singleton
<1> QED
  BY <1>1, InQueueLive DEF EventsInOnePlace, Live

-----------------------------------------------------------------------------
(* The store of tokens *)

(* _lf_free_token: the token is in the bin or gone, unless it is a template. *)
LEMMA FreeTokenFields ==
  ASSUME NEW s \in Store, NEW t \in Tokens
  PROVE  LET u == FreeToken(s, t)
             freed == s.token[t].ok_to_free
             kept == Len(s.bin) < BinLimit
         IN  /\ u \in Store
             /\ \A k \in Tokens \ {t} : u.token[k] = s.token[k]
             /\ u.token[t].ref_count = IF freed /\ ~kept THEN 0 ELSE s.token[t].ref_count
             /\ ~freed => ~u.token[t].ok_to_free
             /\ u.allocated = IF freed /\ ~kept THEN s.allocated \ {t} ELSE s.allocated
             /\ u.bin = IF freed /\ kept THEN <<t>> \o s.bin ELSE s.bin
             /\ u.count = IF freed THEN s.count - 1 ELSE s.count
<1> DEFINE v == [s EXCEPT !.token[t].value = FALSE]
           w == [v EXCEPT !.count = @ - 1]
           w1 == [w EXCEPT !.bin = <<t>> \o @]
           w2 == [w EXCEPT !.allocated = @ \ {t}, !.token[t] = Blank]
<1>1. FreeToken(s, t) = IF ~s.token[t].ok_to_free THEN v
                        ELSE IF Len(s.bin) < BinLimit THEN w1 ELSE w2
  BY DEF FreeToken
<1>2. /\ v \in Store /\ v.allocated = s.allocated /\ v.bin = s.bin /\ v.count = s.count
      /\ \A k \in Tokens \ {t} : v.token[k] = s.token[k]
      /\ v.token[t].ref_count = s.token[t].ref_count
      /\ v.token[t].ok_to_free = s.token[t].ok_to_free
  BY DEF Store, TokenState
<1> HIDE DEF v
<1>3. w \in Store /\ w.token = v.token /\ w.allocated = v.allocated /\ w.bin = v.bin
      /\ w.count = v.count - 1
  BY <1>2 DEF Store
<1> HIDE DEF w
<1>4. <<t>> \o w.bin \in Seq(Tokens)
  <2>1. w.bin \in Seq(Tokens) /\ <<t>> \in Seq(Tokens)
    BY <1>3 DEF Store
  <2> QED
    BY <2>1, ConcatProperties
<1>5. /\ w1 \in Store /\ w1.token = w.token /\ w1.allocated = w.allocated
      /\ w1.bin = <<t>> \o w.bin /\ w1.count = w.count
  BY <1>3, <1>4 DEF Store
<1>6. /\ w2 \in Store /\ w2.allocated = w.allocated \ {t} /\ w2.bin = w.bin /\ w2.count = w.count
      /\ w2.token[t].ref_count = 0 /\ \A k \in Tokens \ {t} : w2.token[k] = w.token[k]
  BY <1>3 DEF Store, TokenState, Blank
<1> HIDE DEF w1, w2
<1>7. CASE ~s.token[t].ok_to_free
  BY <1>1, <1>2, <1>7
<1>8. CASE s.token[t].ok_to_free /\ Len(s.bin) < BinLimit
  BY <1>1, <1>2, <1>3, <1>5, <1>8
<1>9. CASE s.token[t].ok_to_free /\ ~(Len(s.bin) < BinLimit)
  BY <1>1, <1>2, <1>3, <1>6, <1>9
<1> QED
  BY <1>7, <1>8, <1>9

(* The count of references is set.                                           *)
LEMMA CountFields ==
  ASSUME NEW s \in Store, NEW t \in Tokens, NEW n \in Nat
  PROVE  LET u == [s EXCEPT !.token[t].ref_count = n]
         IN  /\ u \in Store
             /\ \A k \in Tokens \ {t} : u.token[k] = s.token[k]
             /\ u.token[t].ref_count = n /\ u.token[t].ok_to_free = s.token[t].ok_to_free
             /\ u.allocated = s.allocated /\ u.bin = s.bin /\ u.count = s.count
BY DEF Store, TokenState

(* _lf_done_using: a reference less, and without references the token is     *)
(* freed.                                                                    *)
LEMMA DoneUsingFields ==
  ASSUME NEW s \in Store, NEW t \in Tokens, s.token[t].ref_count > 0
  PROVE  LET u == DoneUsing(s, t)
             freed == s.token[t].ref_count = 1 /\ s.token[t].ok_to_free
             kept == Len(s.bin) < BinLimit
         IN  /\ u \in Store
             /\ \A k \in Tokens \ {t} : u.token[k] = s.token[k]
             /\ u.token[t].ref_count = s.token[t].ref_count - 1
             /\ ~s.token[t].ok_to_free => ~u.token[t].ok_to_free
             /\ u.allocated = IF freed /\ ~kept THEN s.allocated \ {t} ELSE s.allocated
             /\ u.bin = IF freed /\ kept THEN <<t>> \o s.bin ELSE s.bin
             /\ u.count = IF freed THEN s.count - 1 ELSE s.count
<1> DEFINE d == [s EXCEPT !.token[t].ref_count = @ - 1]
<1>1. t # NULL /\ s.token[t].ref_count \in Nat
  BY TokensAssumption DEF Store, TokenState
<1>2. /\ d \in Store /\ d.allocated = s.allocated /\ d.bin = s.bin /\ d.count = s.count
      /\ \A k \in Tokens \ {t} : d.token[k] = s.token[k]
      /\ d.token[t].ref_count = s.token[t].ref_count - 1
      /\ d.token[t].ok_to_free = s.token[t].ok_to_free
  <2> DEFINE n == s.token[t].ref_count - 1
  <2>1. n \in Nat
    BY <1>1
  <2>2. d = [s EXCEPT !.token[t].ref_count = n]
    OBVIOUS
  <2> HIDE DEF n, d
  <2>3. /\ d \in Store /\ d.allocated = s.allocated /\ d.bin = s.bin /\ d.count = s.count
        /\ \A k \in Tokens \ {t} : d.token[k] = s.token[k]
        /\ d.token[t].ref_count = n /\ d.token[t].ok_to_free = s.token[t].ok_to_free
    BY <2>1, <2>2, CountFields
  <2> QED
    BY <2>3 DEF n
<1>3. DoneUsing(s, t) = IF d.token[t].ref_count = 0 THEN FreeToken(d, t) ELSE d
  BY <1>1 DEF DoneUsing
<1> HIDE DEF d
<1>4. CASE d.token[t].ref_count = 0
  <2>1. LET u == FreeToken(d, t)
            freed == d.token[t].ok_to_free
            kept == Len(d.bin) < BinLimit
        IN  /\ u \in Store
            /\ \A k \in Tokens \ {t} : u.token[k] = d.token[k]
            /\ u.token[t].ref_count = IF freed /\ ~kept THEN 0 ELSE d.token[t].ref_count
            /\ ~freed => ~u.token[t].ok_to_free
            /\ u.allocated = IF freed /\ ~kept THEN d.allocated \ {t} ELSE d.allocated
            /\ u.bin = IF freed /\ kept THEN <<t>> \o d.bin ELSE d.bin
            /\ u.count = IF freed THEN d.count - 1 ELSE d.count
    BY <1>2, FreeTokenFields
  <2>2. DoneUsing(s, t) = FreeToken(d, t) /\ s.token[t].ref_count = 1
    BY <1>1, <1>2, <1>3, <1>4
  <2> QED
    BY <1>2, <1>4, <2>1, <2>2
<1>5. CASE d.token[t].ref_count # 0
  BY <1>1, <1>2, <1>3, <1>5
<1> QED
  BY <1>4, <1>5

(* A new reference.                                                          *)
LEMMA AddReferenceFields ==
  ASSUME NEW s \in Store, NEW t \in Tokens
  PROVE  LET u == AddReference(s, t)
         IN  /\ u \in Store
             /\ \A k \in Tokens \ {t} : u.token[k] = s.token[k]
             /\ u.token[t].ref_count = s.token[t].ref_count + 1
             /\ u.token[t].ok_to_free = s.token[t].ok_to_free
             /\ u.allocated = s.allocated /\ u.bin = s.bin /\ u.count = s.count
<1> DEFINE n == s.token[t].ref_count + 1
<1>1. n \in Nat
  BY DEF Store, TokenState
<1>2. AddReference(s, t) = [s EXCEPT !.token[t].ref_count = n]
  BY TokensAssumption DEF AddReference
<1> HIDE DEF n
<1>3. LET u == AddReference(s, t)
      IN  /\ u \in Store
          /\ \A k \in Tokens \ {t} : u.token[k] = s.token[k]
          /\ u.token[t].ref_count = n /\ u.token[t].ok_to_free = s.token[t].ok_to_free
          /\ u.allocated = s.allocated /\ u.bin = s.bin /\ u.count = s.count
  BY <1>1, <1>2, CountFields
<1> QED
  BY <1>3 DEF n

(* create_token *)
LEMMA CreateTokenFields ==
  ASSUME NEW s \in Store, NEW t \in NewTokens(s)
  PROVE  LET u == CreateToken(s, t)
         IN  /\ u \in Store
             /\ t \in Tokens
             /\ IF s.bin = <<>> THEN t \notin s.allocated ELSE t = s.bin[1] /\ 1 \in DOMAIN s.bin
             /\ \A k \in Tokens \ {t} : u.token[k] = s.token[k]
             /\ u.token[t].ref_count = 0 /\ u.token[t].ok_to_free
             /\ u.allocated = s.allocated \cup {t} /\ u.count = s.count + 1
             /\ u.bin = IF s.bin = <<>> THEN s.bin ELSE Tail(s.bin)
<1>1. s.bin \in Seq(Tokens)
  BY DEF Store
<1>2. /\ t \in Tokens
      /\ IF s.bin = <<>> THEN t \notin s.allocated ELSE t = s.bin[1] /\ 1 \in DOMAIN s.bin
  <2>1. CASE s.bin = <<>>
    BY <2>1 DEF NewTokens
  <2>2. CASE s.bin # <<>>
    <3>1. 1 \in 1 .. Len(s.bin)
      BY <1>1, <2>2, EmptySeq
    <3> QED
      BY <1>1, <2>2, <3>1, ElementOfSeq, LenProperties DEF NewTokens
  <2> QED
    BY <2>1, <2>2
<1>3. s.bin # <<>> => Tail(s.bin) \in Seq(Tokens)
  BY <1>1, HeadTailProperties
<1> DEFINE b == IF s.bin # <<>> THEN Tail(s.bin) ELSE s.bin
           fresh == [Blank EXCEPT !.ok_to_free = TRUE]
           c == s.count + 1
<1>4. b \in Seq(Tokens) /\ c \in Int
  BY <1>1, <1>3 DEF Store
<1>5. fresh \in TokenState /\ fresh.ref_count = 0 /\ fresh.ok_to_free
  BY DEF TokenState, Blank
<1>6. CreateToken(s, t) = [s EXCEPT !.bin = b, !.allocated = @ \cup {t}, !.token[t] = fresh,
                                    !.count = c]
  BY DEF CreateToken
<1> HIDE DEF b, fresh, c
<1> DEFINE v == [s EXCEPT !.bin = b, !.allocated = @ \cup {t}]
<1>7. v \in Store /\ v.bin = b /\ v.allocated = s.allocated \cup {t} /\ v.token = s.token
  BY <1>2, <1>4 DEF Store
<1> DEFINE x == [v EXCEPT !.token[t] = fresh]
<1>8. CreateToken(s, t) = [x EXCEPT !.count = c]
  BY <1>6
<1> HIDE DEF v
<1>9. /\ x \in Store /\ x.bin = v.bin /\ x.allocated = v.allocated
       /\ x.token[t] = fresh /\ \A k \in Tokens \ {t} : x.token[k] = v.token[k]
  BY <1>2, <1>5, <1>7 DEF Store
<1> HIDE DEF x
<1>10. LET u == CreateToken(s, t)
      IN  /\ u \in Store /\ u.bin = b /\ u.count = c /\ u.allocated = s.allocated \cup {t}
          /\ u.token[t] = fresh /\ \A k \in Tokens \ {t} : u.token[k] = s.token[k]
  BY <1>4, <1>7, <1>8, <1>9 DEF Store
<1> QED
  BY <1>2, <1>5, <1>10 DEF b, c

(* The payload does not matter to the count.                                 *)
LEMMA ValueFields ==
  ASSUME NEW s \in Store, NEW t \in Tokens
  PROVE  LET u == [s EXCEPT !.token[t].value = TRUE]
         IN  /\ u \in Store
             /\ \A k \in Tokens : /\ u.token[k].ref_count = s.token[k].ref_count
                                  /\ u.token[k].ok_to_free = s.token[k].ok_to_free
             /\ u.allocated = s.allocated /\ u.bin = s.bin /\ u.count = s.count
BY DEF Store, TokenState

(* A template is marked, and no longer when it is replaced.                  *)
LEMMA MarkFields ==
  ASSUME NEW s \in Store, NEW t \in Tokens, NEW b \in BOOLEAN
  PROVE  LET u == [s EXCEPT !.token[t].ok_to_free = b]
         IN  /\ u \in Store
             /\ \A k \in Tokens \ {t} : u.token[k] = s.token[k]
             /\ u.token[t].ref_count = s.token[t].ref_count /\ u.token[t].ok_to_free = b
             /\ u.allocated = s.allocated /\ u.bin = s.bin /\ u.count = s.count
BY DEF Store, TokenState

(* A template is replaced, and freed if nobody uses it.                      *)
LEMMA ReplaceTemplateType ==
  ASSUME NEW s \in Store, NEW old \in Tokens \cup {NULL}, NEW new \in Tokens \cup {NULL}
  PROVE  ReplaceTemplate(s, old, new) \in Store
<1> DEFINE freed == IF old \in {new, NULL} THEN s
                    ELSE DoneUsing(AddReference([s EXCEPT !.token[old].ok_to_free = TRUE], old),
                                   old)
<1>1. freed \in Store
  <2>1. CASE old \in {new, NULL}
    BY <2>1
  <2>2. CASE old \notin {new, NULL}
    <3> DEFINE v == [s EXCEPT !.token[old].ok_to_free = TRUE]
               w == AddReference(v, old)
    <3>1. old \in Tokens
      BY <2>2
    <3>2. v \in Store
      BY <3>1, MarkFields
    <3> HIDE DEF v
    <3>3. w \in Store /\ w.token[old].ref_count = v.token[old].ref_count + 1
      BY <3>1, <3>2, AddReferenceFields
    <3>4. v.token[old].ref_count \in Nat
      BY <3>1, <3>2 DEF Store, TokenState
    <3> HIDE DEF w
    <3>5. w.token[old].ref_count > 0
      BY <3>3, <3>4
    <3>6. DoneUsing(w, old) \in Store
      BY <3>1, <3>3, <3>5, DoneUsingFields
    <3> QED
      BY <2>2, <3>6 DEF v, w
  <2> QED
    BY <2>1, <2>2
<1>2. ReplaceTemplate(s, old, new) =
        IF new = NULL THEN freed ELSE [freed EXCEPT !.token[new].ok_to_free = FALSE]
  BY DEF ReplaceTemplate
<1> HIDE DEF freed
<1>3. CASE new # NULL
  <2>1. new \in Tokens /\ FALSE \in BOOLEAN
    BY <1>3
  <2>2. [freed EXCEPT !.token[new].ok_to_free = FALSE] \in Store
    BY <1>1, <2>1, MarkFields
  <2> QED
    BY <1>2, <1>3, <2>2
<1> QED
  BY <1>1, <1>2, <1>3

(* A release is without effect on what is not referenced.                    *)
LEMMA DoneUsingType ==
  ASSUME NEW s \in Store, NEW t \in Tokens \cup {NULL}
  PROVE  DoneUsing(s, t) \in Store
<1>1. CASE t = NULL \/ s.token[t].ref_count = 0
  BY <1>1 DEF DoneUsing
<1>2. CASE ~ (t = NULL \/ s.token[t].ref_count = 0)
  <2>1. t \in Tokens /\ s.token[t].ref_count > 0
    BY <1>2 DEF Store, TokenState
  <2> QED
    BY <2>1, DoneUsingFields
<1> QED
  BY <1>1, <1>2

(* A reference more leaves a store.                                          *)
LEMMA AddReferenceType ==
  ASSUME NEW s \in Store, NEW t \in Tokens \cup {NULL}
  PROVE  AddReference(s, t) \in Store
BY AddReferenceFields DEF AddReference

(* The release of the tokens of a set of triggers, one after the other.      *)
Releases(it, f, base, S) ==
  /\ it \in [SUBSET S -> Store] /\ it[{}] = base
  /\ \A P \in SUBSET S : P # {} =>
       \E x \in P : it[P] = DoneUsing(it[P \ {x}], f[x])

ReleaseAll(f, base, S) == FoldSet(LAMBDA x, s : DoneUsing(s, f[x]), base, S)

(* The fold of StartTimeStep releases the tokens one after the other.        *)
LEMMA FoldReleases ==
  ASSUME NEW S, IsFiniteSet(S), NEW f, \A x \in S : f[x] \in Tokens \cup {NULL},
         NEW base \in Store
  PROVE  \E it : Releases(it, f, base, S) /\ ReleaseAll(f, base, S) = it[S]
<1> DEFINE pick(P) == CHOOSE x \in P : TRUE
           round(it, P) == IF P = {} THEN base ELSE DoneUsing(it[P \ {pick(P)}], f[pick(P)])
           small(n) == {P \in SUBSET S : Cardinality(P) <= n}
           Good(n, it) == it = [P \in small(n) |-> round(it, P)] /\ it \in [small(n) -> Store]
           bad == {n \in Nat : ~ \E it : Good(n, it)}
<1>1. ASSUME NEW P \in SUBSET S
      PROVE  /\ IsFiniteSet(P) /\ Cardinality(P) \in Nat /\ (Cardinality(P) = 0 <=> P = {})
             /\ P # {} => /\ pick(P) \in P /\ P \ {pick(P)} \in SUBSET S
                          /\ Cardinality(P \ {pick(P)}) = Cardinality(P) - 1
  <2>1. IsFiniteSet(P) /\ Cardinality(P) \in Nat /\ (Cardinality(P) = 0 <=> P = {})
    BY FS_Subset, FS_CardinalityType, FS_EmptySet
  <2>2. ASSUME P # {}
        PROVE  /\ pick(P) \in P /\ P \ {pick(P)} \in SUBSET S
               /\ Cardinality(P \ {pick(P)}) = Cardinality(P) - 1
    <3>1. pick(P) \in P
      BY <2>2
    <3> HIDE DEF pick
    <3> QED
      BY <2>1, <3>1, FS_RemoveElement
  <2> QED
    BY <2>1, <2>2
<1> HIDE DEF pick
<1>2. bad = {}
  <2> SUFFICES ASSUME bad # {}
               PROVE  FALSE
    OBVIOUS
  <2>1. PICK n \in bad : \A k \in bad : n <= k
    <3>1. bad \in SUBSET Nat
      OBVIOUS
    <3> HIDE DEF bad
    <3> QED
      BY <3>1, LeastNatural
  <2>2. n \in Nat /\ ~ \E it : Good(n, it)
    BY <2>1
  <2>3. CASE n = 0
    <3> DEFINE h == [P \in small(0) |-> base]
    <3>1. \A P \in small(0) : P = {}
      <4>1. ASSUME NEW P \in SUBSET S, Cardinality(P) <= 0
            PROVE  P = {}
        <5>1. Cardinality(P) \in Nat /\ (Cardinality(P) = 0 <=> P = {})
          BY <1>1
        <5> QED
          BY <4>1, <5>1
      <4> QED
        BY <4>1
    <3>2. h = [P \in small(0) |-> round(h, P)]
      BY <3>1
    <3>3. h \in [small(0) -> Store]
      OBVIOUS
    <3> QED
      BY <2>2, <2>3, <3>2, <3>3
  <2>4. CASE n # 0
    <3>1. n - 1 \in Nat /\ n - 1 \notin bad
      <4> HIDE DEF bad
      <4> QED
        BY <2>1, <2>2, <2>4
    <3>2. PICK g : Good(n - 1, g)
      BY <3>1
    <3> DEFINE h == [P \in small(n) |-> IF P \in small(n - 1) THEN g[P] ELSE round(g, P)]
    <3>3. ASSUME NEW P \in small(n), P # {}
          PROVE  /\ P \ {pick(P)} \in small(n - 1) /\ P \ {pick(P)} \in small(n)
                 /\ pick(P) \in S
      <4>1. P \in SUBSET S /\ Cardinality(P) <= n /\ Cardinality(P) \in Nat
        BY <1>1
      <4>2. P \ {pick(P)} \in SUBSET S /\ Cardinality(P \ {pick(P)}) = Cardinality(P) - 1
        BY <1>1, <3>3, <4>1
      <4>3. Cardinality(P) - 1 <= n - 1 /\ Cardinality(P) - 1 <= n
        BY <2>2, <4>1
      <4> QED
        BY <1>1, <3>3, <4>1, <4>2, <4>3
    <3>4. ASSUME NEW P \in small(n)
          PROVE  h[P] \in Store /\ h[P] = round(h, P)
      <4>1. CASE P = {}
        <5>1. {} \in small(n - 1)
          BY <1>1, <2>2, <2>4, FS_EmptySet
        <5> HIDE DEF small
        <5> QED
          BY <3>2, <4>1, <5>1
      <4>2. CASE P # {}
        <5> DEFINE Q == P \ {pick(P)}
        <5>1. Q \in small(n - 1) /\ Q \in small(n) /\ pick(P) \in S
          BY <3>3, <4>2
        <5> HIDE DEF Q, small
        <5>2. h[Q] = g[Q] /\ g[Q] \in Store
          BY <3>2, <5>1
        <5>3. round(h, P) = DoneUsing(g[Q], f[pick(P)]) /\ round(g, P) = DoneUsing(g[Q], f[pick(P)])
          BY <4>2, <5>2 DEF Q
        <5>4. DoneUsing(g[Q], f[pick(P)]) \in Store
          BY <5>1, <5>2, DoneUsingType
        <5>5. h[P] = round(g, P)
          <6>1. CASE P \in small(n - 1)
            BY <3>2, <6>1
          <6>2. CASE P \notin small(n - 1)
            BY <6>2
          <6> QED
            BY <6>1, <6>2
        <5> QED
          BY <5>3, <5>4, <5>5
      <4> QED
        BY <4>1, <4>2
    <3>5. Good(n, h)
      <4> DEFINE k == [P \in small(n) |-> round(h, P)]
      <4>1. \A P \in small(n) : h[P] = k[P]
        BY <3>4
      <4>2. h = [P \in small(n) |-> h[P]] /\ k = [P \in small(n) |-> k[P]]
        OBVIOUS
      <4>3. h \in [small(n) -> Store]
        <5> HIDE DEF small
        <5>1. \A P \in small(n) : h[P] \in Store
          BY <3>4
        <5> QED
          BY <5>1
      <4> HIDE DEF h, k, small
      <4>4. h = k
        BY <4>1, <4>2
      <4> QED
        BY <4>3, <4>4 DEF k
    <3> QED
      BY <2>2, <3>5
  <2> QED
    BY <2>3, <2>4
<1> DEFINE iter[P \in SUBSET S] == round(iter, P)
<1>3. ReleaseAll(f, base, S) = iter[S]
  BY DEF ReleaseAll, FoldSet, MapThenFoldSet, pick
<1>4. Cardinality(S) \in Nat /\ small(Cardinality(S)) = SUBSET S
  <2>1. Cardinality(S) \in Nat
    BY FS_CardinalityType
  <2>2. \A P \in SUBSET S : Cardinality(P) <= Cardinality(S)
    BY FS_Subset
  <2> QED
    BY <2>1, <2>2
<1>5. PICK g : Good(Cardinality(S), g)
  <2>1. Cardinality(S) \notin bad
    <3> HIDE DEF bad
    <3> QED
      BY <1>2
  <2> QED
    BY <1>4, <2>1
<1>6. g = [P \in SUBSET S |-> round(g, P)] /\ g \in [SUBSET S -> Store]
  BY <1>4, <1>5
<1>7. iter = [P \in SUBSET S |-> round(iter, P)]
  BY <1>6
<1> HIDE DEF iter
<1>8. ASSUME NEW P \in SUBSET S
      PROVE  iter[P] = round(iter, P)
  <2> DEFINE k == [Q \in SUBSET S |-> round(iter, Q)]
  <2>1. iter = k
    BY <1>7
  <2>2. k[P] = round(iter, P)
    OBVIOUS
  <2> HIDE DEF k
  <2> QED
    BY <2>1, <2>2
<1>9. iter = [P \in SUBSET S |-> iter[P]]
  <2> DEFINE k == [Q \in SUBSET S |-> round(iter, Q)]
  <2>1. iter = k /\ k = [P \in SUBSET S |-> k[P]]
    BY <1>7
  <2> HIDE DEF k
  <2> QED
    BY <2>1
<1>10. ASSUME NEW P \in SUBSET S
       PROVE  iter[P] \in Store
  <2> DEFINE wrong == {n \in Nat : \E Q \in SUBSET S : Cardinality(Q) = n /\ iter[Q] \notin Store}
  <2> SUFFICES ASSUME wrong # {}
               PROVE  FALSE
    BY <1>1
  <2>1. PICK n \in wrong : \A k \in wrong : n <= k
    <3>1. wrong \in SUBSET Nat
      OBVIOUS
    <3> HIDE DEF wrong
    <3> QED
      BY <3>1, LeastNatural
  <2>2. PICK Q \in SUBSET S : Cardinality(Q) = n /\ iter[Q] \notin Store
    BY <2>1
  <2>3. Q # {}
    BY <1>8, <2>2
  <2> DEFINE R == Q \ {pick(Q)}
  <2>4. pick(Q) \in S /\ R \in SUBSET S /\ Cardinality(R) = n - 1 /\ n \in Nat
    BY <1>1, <2>2, <2>3
  <2>5. iter[Q] = DoneUsing(iter[R], f[pick(Q)])
    BY <1>8, <2>3
  <2> HIDE DEF R
  <2>6. iter[R] \notin Store
    BY <2>2, <2>4, <2>5, DoneUsingType
  <2>7. n - 1 \in wrong
    <3>1. n # 0
      BY <1>1, <2>2, <2>3
    <3> QED
      BY <2>4, <2>6, <3>1
  <2> HIDE DEF wrong
  <2> QED
    BY <2>1, <2>4, <2>7
<1>11. Releases(iter, f, base, S)
  <2>1. iter \in [SUBSET S -> Store]
    BY <1>9, <1>10
  <2>2. iter[{}] = base
    BY <1>8
  <2>3. ASSUME NEW P \in SUBSET S, P # {}
        PROVE  \E x \in P : iter[P] = DoneUsing(iter[P \ {x}], f[x])
    BY <1>1, <1>8, <2>3
  <2> QED
    BY <2>1, <2>2, <2>3 DEF Releases
<1> QED
  BY <1>3, <1>11

-----------------------------------------------------------------------------
(* The steps of the queue *)

QueueType ==
  /\ ev \in [Events -> EventFields]
  /\ calloced \subseteq Events
  /\ event_q \subseteq Events /\ next_q \subseteq Events /\ recycle_q \subseteq Events
  /\ last \in [DOMAIN prog -> Events \cup {NULL}]

QueueOK == QueueType /\ LinkInv

(* What _lf_get_new_event returns is not in use.                             *)
LEMMA NewEventsFacts ==
  ASSUME QInv, NEW k \in Nat, NEW n \in NewEvents(k)
  PROVE  /\ Len(n) = k /\ DOMAIN n = 1 .. k
         /\ \A i \in 1 .. k : n[i] \in Events \ Live /\ n[i] # NULL
         /\ \A i, j \in 1 .. k : n[i] = n[j] => i = j
<1>1. n \in [1 .. k -> recycle_q \cup (Events \ calloced)] /\ Injective(n)
  BY DEF NewEvents
<1>2. recycle_q \cup (Events \ calloced) = Events \ Live
  BY DEF Live, QInv, TypeOK
<1>3. n \in Seq(Events \ Live)
  BY <1>1, <1>2, SeqDef
<1>4. Len(n) = k
  <2>1. Len(n) \in Nat /\ DOMAIN n = 1 .. Len(n)
    BY <1>3, LenProperties
  <2>2. 1 .. Len(n) = 1 .. k
    BY <1>1, <2>1
  <2> DEFINE m == Len(n)
  <2>3. m # 0 => m \in 1 .. m
    BY <2>1
  <2>4. k # 0 => k \in 1 .. k
    OBVIOUS
  <2>5. m \in Nat
    BY <2>1
  <2>6. (m # 0 => m \in 1 .. k) /\ (k # 0 => k \in 1 .. m)
    BY <2>2, <2>3, <2>4
  <2> HIDE DEF m
  <2>7. m = k
    BY <2>5, <2>6
  <2> QED
    BY <2>7 DEF m
<1>5. Live \subseteq Events
  BY DEF Live, QInv, TypeOK
<1>6. \A i \in 1 .. k : n[i] \in Events \ Live
  BY <1>1, <1>2
<1>7. \A i, j \in 1 .. k : n[i] = n[j] => i = j
  BY <1>1 DEF Injective
<1> QED
  BY <1>1, <1>4, <1>6, <1>7, QueueAssumption

(* An event given back is as if it had not been taken.                       *)
LEMMA GiveBackKeeps ==
  ASSUME QInv, NEW e \in Events \ Live, GiveBack(e), UNCHANGED <<prog, next_q>>,
         ev' \in [Events -> EventFields],
         \A x \in Live : ev'[x].next = ev[x].next /\ ev'[x].trigger = ev[x].trigger,
         \A x \in Events \ Live : ev'[x] = ev[x]
  PROVE  QueueOK'
<1>1. Live' = Live
  BY DEF Live, GiveBack
<1>2. QueueType'
  BY DEF QueueType, GiveBack, QInv, TypeOK
<1>3. Heads' = Heads
  BY DEF Heads, GiveBack
<1>4. LinkInv'
  BY <1>1, <1>3 DEF LinkInv, QInv, GiveBack
<1> QED
  BY <1>2, <1>4 DEF QueueOK

(* The events U, linked from first on, are put to use: they are queued, or   *)
(* go behind event p, or are lost to the program.                            *)
PutToUse(U, first, p) ==
  /\ U \in SUBSET (Events \ Live) /\ first \in U /\ p \in Live \cup {NULL}
  /\ UNCHANGED <<prog, next_q>> /\ last' \in [DOMAIN prog -> Events \cup {NULL}]
  /\ calloced' = calloced \cup U /\ recycle_q' = recycle_q \ U
  /\ ev' \in [Events -> EventFields]
  /\ \A x \in U : ev'[x].trigger \in DOMAIN prog /\ ev'[x].next \in (U \ {first}) \cup {NULL}
  /\ \A x, y \in U : ev'[x].next = ev'[y].next /\ ev'[x].next # NULL => x = y
  /\ \A x \in Live : x # p => ev'[x].next = ev[x].next /\ ev'[x].trigger = ev[x].trigger
  /\ \A x \in Events \ (U \cup Live) : ev'[x] = ev[x]
  /\ \/ p = NULL /\ event_q' \in {event_q, event_q \cup {first}}
     \/ /\ p # NULL /\ event_q' = event_q
        /\ ev'[p].next = first /\ ev'[p].trigger = ev[p].trigger

(* That keeps the events in order.                                           *)
LEMMA UseKeeps ==
  ASSUME QInv, NEW U, NEW first, NEW p, PutToUse(U, first, p)
  PROVE  QueueOK'
<1>0. /\ U \in SUBSET (Events \ Live) /\ first \in U /\ p \in Live \cup {NULL}
      /\ UNCHANGED <<prog, next_q>> /\ last' \in [DOMAIN prog -> Events \cup {NULL}]
      /\ calloced' = calloced \cup U /\ recycle_q' = recycle_q \ U
      /\ ev' \in [Events -> EventFields]
      /\ \A x \in U : ev'[x].trigger \in DOMAIN prog /\ ev'[x].next \in (U \ {first}) \cup {NULL}
      /\ \A x, y \in U : ev'[x].next = ev'[y].next /\ ev'[x].next # NULL => x = y
      /\ \A x \in Live : x # p => ev'[x].next = ev[x].next /\ ev'[x].trigger = ev[x].trigger
      /\ \A x \in Events \ (U \cup Live) : ev'[x] = ev[x]
      /\ \/ p = NULL /\ event_q' \in {event_q, event_q \cup {first}}
         \/ /\ p # NULL /\ event_q' = event_q
            /\ ev'[p].next = first /\ ev'[p].trigger = ev[p].trigger
  BY DEF PutToUse
<1> USE <1>0
<1>1. Live' = Live \cup U
  BY DEF Live, QInv, TypeOK
<1>2. NULL \notin Live \cup U /\ first # NULL
  BY QueueAssumption DEF Live, QInv, TypeOK
<1>3. QueueType'
  BY DEF QueueType, QInv, TypeOK
<1>4. event_q \cup next_q \subseteq Live /\ event_q \cap next_q = {}
  BY DEF QInv, LinkInv, Heads
<1>5. Heads' \subseteq Live' /\ event_q' \cap next_q' = {} /\ Heads' \subseteq Heads \cup {first}
  BY <1>1, <1>4 DEF Heads
<1>6. \A x \in Live : /\ x # p => ev'[x].next = ev[x].next
                      /\ ev'[x].trigger \in DOMAIN prog
                      /\ ev'[x].next \in Live \cup {NULL, first}
                      /\ ev'[x].next = first => x = p
  <2> TAKE x \in Live
  <2>1. ev[x].trigger \in DOMAIN prog /\ ev[x].next \in Live \cup {NULL} /\ x \in Events \ U
    BY DEF QInv, LinkInv, TypeOK, Live
  <2>2. first \notin Live
    OBVIOUS
  <2>3. CASE x = p
    BY <1>2, <2>1, <2>3
  <2>4. CASE x # p
    BY <1>2, <2>1, <2>2, <2>4
  <2> QED
    BY <2>3, <2>4
<1>7. \A x \in Live' : ev'[x].trigger \in DOMAIN prog' /\ ev'[x].next \in Live' \cup {NULL}
  BY <1>1, <1>6
<1>8. ASSUME NEW x \in Live', NEW y \in Live', ev'[x].next = ev'[y].next, ev'[x].next # NULL
      PROVE  x = y
  <2>1. CASE x \in U /\ y \in U
    BY <1>8, <2>1
  <2>2. CASE x \in Live /\ y \in Live
    <3>1. CASE x # p /\ y # p
      <4>1. ev'[x].next = ev[x].next /\ ev'[y].next = ev[y].next
        BY <1>6, <2>2, <3>1
      <4>2. \A a, b \in Live : ev[a].next = ev[b].next /\ ev[a].next # NULL => a = b
        BY DEF QInv, LinkInv
      <4> QED
        BY <1>8, <2>2, <4>1, <4>2
    <3>2. CASE x = p \/ y = p
      BY <1>2, <1>6, <1>8, <2>2, <3>2
    <3> QED
      BY <3>1, <3>2
  <2>3. CASE ~ (x \in U <=> y \in U)
    <3>1. ASSUME NEW a \in U, NEW b \in Live
          PROVE  ev'[a].next = NULL \/ ev'[a].next # ev'[b].next
      BY <1>2, <1>6
    <3> QED
      BY <1>1, <1>8, <2>3, <3>1
  <2> QED
    BY <1>1, <2>1, <2>2, <2>3
<1>9. ASSUME NEW x \in Live'
      PROVE  ev'[x].next \notin Heads'
  <2>1. CASE x \in U
    BY <1>2, <1>4, <1>5, <2>1 DEF Heads
  <2>2. CASE x \in Live /\ x # p
    <3>1. ev'[x].next = ev[x].next /\ ev[x].next \notin Heads /\ ev'[x].next # first
      BY <1>6, <2>2 DEF QInv, LinkInv
    <3> QED
      BY <1>5, <3>1
  <2>3. CASE x \in Live /\ x = p
    BY <1>2, <1>4, <2>3 DEF Heads
  <2> QED
    BY <1>1, <2>1, <2>2, <2>3
<1>10. \A x \in Events \ Live' : ev'[x] = Zeroed
  BY <1>1, QueueAssumption DEF QInv, LinkInv
<1> QED
  BY <1>3, <1>5, <1>7, <1>8, <1>9, <1>10 DEF QueueOK, LinkInv

(* A single new event is put to use, and nothing is linked to it.            *)
LEMMA UseOneKeeps ==
  ASSUME QInv, NEW e \in Events \ Live,
         UNCHANGED <<prog, next_q>>, last' \in [DOMAIN prog -> Events \cup {NULL}],
         calloced' = calloced \cup {e}, recycle_q' = recycle_q \ {e},
         ev' \in [Events -> EventFields],
         ev'[e].trigger \in DOMAIN prog, ev'[e].next = NULL,
         \A x \in Live : ev'[x].next = ev[x].next /\ ev'[x].trigger = ev[x].trigger,
         \A x \in Events \ ({e} \cup Live) : ev'[x] = ev[x],
         event_q' \in {event_q, event_q \cup {e}}
  PROVE  QueueOK'
<1> DEFINE U == {e}
<1>1. /\ U \in SUBSET (Events \ Live) /\ e \in U
      /\ calloced' = calloced \cup U /\ recycle_q' = recycle_q \ U
      /\ \A x \in U : ev'[x].trigger \in DOMAIN prog /\ ev'[x].next \in (U \ {e}) \cup {NULL}
      /\ \A x, y \in U : ev'[x].next = ev'[y].next /\ ev'[x].next # NULL => x = y
      /\ \A x \in Events \ (U \cup Live) : ev'[x] = ev[x]
  OBVIOUS
<1> HIDE DEF U
<1>2. PICK p \in Live \cup {NULL} : p = NULL
  OBVIOUS
<1>3. /\ \A x \in Live : x # p => ev'[x].next = ev[x].next /\ ev'[x].trigger = ev[x].trigger
      /\ p = NULL /\ event_q' \in {event_q, event_q \cup {e}}
  BY <1>2
<1>4. PutToUse(U, e, p)
  BY <1>1, <1>2, <1>3 DEF PutToUse
<1> QED
  BY <1>4, UseKeeps

(* The fields of a new event.                                                *)
LEMMA EventOfType ==
  ASSUME NEW tr \in Triggers, NEW t \in Nat, NEW tok \in Tokens \cup {NULL}
  PROVE  /\ EventOf(tr, t, tok) \in EventFields
         /\ EventOf(tr, t, tok).trigger = tr /\ EventOf(tr, t, tok).next = NULL
         /\ EventOf(tr, t, tok).token = tok /\ EventOf(tr, t, tok).time = t
         /\ ~EventOf(tr, t, tok).is_dummy
BY DEF EventOf, Zeroed, EventFields

(* The end of _lf_schedule keeps the events in order.                        *)
LEMMA InsertKeeps ==
  ASSUME QInv, NEW tr \in DOMAIN prog, NEW t \in Nat, NEW s \in Store,
         NEW tok \in Tokens \cup {NULL}, NEW e \in Events \ Live,
         UNCHANGED <<prog, next_q>>, Insert(tr, t, s, tok, e)
  PROVE  QueueOK' /\ store' \in Store
<1>1. CASE t > stop_tag.time
  <2>1. GiveBack(e) /\ store' = DoneUsing(s, tok) /\ UNCHANGED ev
    BY <1>1 DEF Insert
  <2>2. ev' \in [Events -> EventFields]
    BY <2>1 DEF QInv, TypeOK
  <2>3. QueueOK'
    BY <2>1, <2>2, GiveBackKeeps
  <2> QED
    BY <2>1, <2>3, DoneUsingType
<1>2. CASE ~ (t > stop_tag.time)
  <2> DEFINE f == EventOf(tr, t, tok)
  <2>1. /\ ev' = [ev EXCEPT ![e] = f] /\ calloced' = calloced \cup {e}
        /\ recycle_q' = recycle_q \ {e} /\ event_q' = event_q \cup {e}
        /\ last' = [last EXCEPT ![tr] = e] /\ store' = s
    <3>1. DOMAIN <<e>> = {1} /\ <<e>>[1] = e
      OBVIOUS
    <3>2. {<<e>>[i] : i \in DOMAIN <<e>>} = {e}
      BY <3>1
    <3> QED
      BY <1>2, <3>2 DEF Insert, Use
  <2>2. f \in EventFields /\ f.trigger = tr /\ f.next = NULL
    BY EventOfType DEF QInv, TypeOK
  <2> HIDE DEF f
  <2>3. ev \in [Events -> EventFields] /\ last \in [DOMAIN prog -> Events \cup {NULL}]
    BY DEF QInv, TypeOK
  <2>4. ev' \in [Events -> EventFields] /\ last' \in [DOMAIN prog -> Events \cup {NULL}]
    BY <2>1, <2>2, <2>3
  <2>5. ev'[e] = f /\ \A x \in Events \ {e} : ev'[x] = ev[x]
    BY <2>1, <2>3
  <2>6. /\ \A x \in Live : ev'[x].next = ev[x].next /\ ev'[x].trigger = ev[x].trigger
        /\ \A x \in Events \ ({e} \cup Live) : ev'[x] = ev[x]
        /\ ev'[e].trigger \in DOMAIN prog /\ ev'[e].next = NULL
        /\ event_q' \in {event_q, event_q \cup {e}}
    BY <2>1, <2>2, <2>5 DEF QInv, TypeOK, Live
  <2>7. QueueOK'
    BY <2>1, <2>4, <2>6, UseOneKeeps
  <2> QED
    BY <2>1, <2>7
<1> QED
  BY <1>1, <1>2

(* The events as they are, or with a dummy made a real event.                *)
Noted(w) == w = ev \/ \E h \in Live : w = [ev EXCEPT ![h].is_dummy = FALSE]

(* Their links do not differ.                                                *)
LEMMA NotedFields ==
  ASSUME QInv, NEW w, Noted(w)
  PROVE  /\ w \in [Events -> EventFields]
         /\ \A x \in Events : /\ w[x].next = ev[x].next /\ w[x].trigger = ev[x].trigger
                               /\ w[x].time = ev[x].time /\ w[x].token = ev[x].token
         /\ \A x \in Events \ Live : w[x] = ev[x]
<1>1. ev \in [Events -> EventFields] /\ Live \subseteq Events
  BY DEF QInv, TypeOK, Live
<1>2. CASE w = ev
  BY <1>1, <1>2
<1>3. ASSUME NEW h \in Live, w = [ev EXCEPT ![h].is_dummy = FALSE]
      PROVE  /\ w \in [Events -> EventFields]
             /\ \A x \in Events : /\ w[x].next = ev[x].next /\ w[x].trigger = ev[x].trigger
                                   /\ w[x].time = ev[x].time /\ w[x].token = ev[x].token
             /\ \A x \in Events \ Live : w[x] = ev[x]
  <2>1. w[h] = [ev[h] EXCEPT !.is_dummy = FALSE] /\ \A x \in Events \ {h} : w[x] = ev[x]
    BY <1>1, <1>3
  <2>2. ev[h] \in EventFields
    BY <1>1
  <2>3. /\ w[h] \in EventFields /\ ~w[h].is_dummy
        /\ w[h].next = ev[h].next /\ w[h].trigger = ev[h].trigger
        /\ w[h].time = ev[h].time /\ w[h].token = ev[h].token
    BY <2>1, <2>2 DEF EventFields
  <2>4. w \in [Events -> EventFields]
    BY <1>1, <1>3, <2>1, <2>3
  <2> QED
    BY <1>1, <2>1, <2>3, <2>4
<1> QED
  BY <1>2, <1>3 DEF Noted

(* So does an event put behind another one,                                  *)
LEMMA HookBehindKeeps ==
  ASSUME QInv, NEW w, Noted(w), NEW p \in Live, NEW g, NEW f \in EventFields,
         f.trigger \in DOMAIN prog, f.next = NULL, NEW s \in Store, NEW e \in Events \ Live,
         UNCHANGED <<prog, next_q>>, HookBehind(w, p, g, f, s, e)
  PROVE  QueueOK' /\ store' \in Store
<1>0. /\ w \in [Events -> EventFields]
      /\ \A x \in Events : w[x].next = ev[x].next /\ w[x].trigger = ev[x].trigger
      /\ \A x \in Events \ Live : w[x] = ev[x]
      /\ Live \subseteq Events
  <2>1. Live \subseteq Events
    BY DEF QInv, TypeOK, Live
  <2> QED
    BY <2>1, NotedFields
<1>1. CASE AfterStop(g)
  <2>1. GiveBack(e) /\ ev' = w /\ store' = s
    BY <1>1 DEF HookBehind
  <2>2. /\ ev' \in [Events -> EventFields]
        /\ \A x \in Live : ev'[x].next = ev[x].next /\ ev'[x].trigger = ev[x].trigger
        /\ \A x \in Events \ Live : ev'[x] = ev[x]
    BY <1>0, <2>1
  <2> QED
    BY <2>1, <2>2, GiveBackKeeps
<1>2. CASE ~AfterStop(g)
  <2>1. /\ ev' = [w EXCEPT ![e] = f, ![p].next = e] /\ calloced' = calloced \cup {e}
        /\ recycle_q' = recycle_q \ {e} /\ event_q' = event_q /\ last' = last /\ store' = s
    <3>1. DOMAIN <<e>> = {1} /\ <<e>>[1] = e
      OBVIOUS
    <3>2. {<<e>>[i] : i \in DOMAIN <<e>>} = {e}
      BY <3>1
    <3> QED
      BY <1>2, <3>2 DEF HookBehind, Use
  <2>2. w \in [Events -> EventFields] /\ last \in [DOMAIN prog -> Events \cup {NULL}]
    BY <1>0 DEF QInv, TypeOK
  <2>3. p \in Events /\ p # e /\ p # NULL
    BY QueueAssumption DEF QInv, TypeOK, Live
  <2>4. /\ ev'[e] = f /\ ev'[p] = [w[p] EXCEPT !.next = e]
        /\ \A x \in Events \ {e} : x # p => ev'[x] = w[x]
    BY <2>1, <2>2, <2>3
  <2>5. [w[p] EXCEPT !.next = e] \in EventFields
    BY <2>2, <2>3 DEF EventFields
  <2>6. ev'[p].next = e /\ ev'[p].trigger = ev[p].trigger
    BY <1>0, <2>2, <2>3, <2>4 DEF EventFields
  <2>7. ev' \in [Events -> EventFields]
    BY <2>1, <2>2, <2>4, <2>5
  <2>8. QueueOK'
    <3> DEFINE U == {e}
    <3>1. /\ U \in SUBSET (Events \ Live) /\ e \in U
          /\ calloced' = calloced \cup U /\ recycle_q' = recycle_q \ U
          /\ \A x \in U : ev'[x].trigger \in DOMAIN prog /\ ev'[x].next = NULL
          /\ \A x, y \in U : x = y
          /\ \A x \in Live :
               x # p => ev'[x].next = ev[x].next /\ ev'[x].trigger = ev[x].trigger
          /\ \A x \in Events \ (U \cup Live) : ev'[x] = ev[x]
          /\ event_q' = event_q /\ last' \in [DOMAIN prog -> Events \cup {NULL}]
      BY <1>0, <2>1, <2>2, <2>3, <2>4
    <3> HIDE DEF U
    <3>2. PutToUse(U, e, p)
      BY <2>3, <2>6, <2>7, <3>1 DEF PutToUse
    <3> QED
      BY <3>2, UseKeeps
  <2> QED
    BY <2>1, <2>8
<1> QED
  BY <1>1, <1>2

(* an event that is dropped,                                                 *)
LEMMA DropKeeps ==
  ASSUME QInv, NEW w, Noted(w), NEW x, NEW s \in Store, NEW tok \in Tokens \cup {NULL},
         NEW e \in Events \ Live, UNCHANGED <<prog, next_q>>, Drop(w, x, s, tok, e)
  PROVE  QueueOK' /\ store' \in Store
<1>1. GiveBack(e) /\ ev' = w
  BY DEF Drop
<1>2. /\ ev' \in [Events -> EventFields]
      /\ \A y \in Live : ev'[y].next = ev[y].next /\ ev'[y].trigger = ev[y].trigger
      /\ \A y \in Events \ Live : ev'[y] = ev[y]
  <2>1. Live \subseteq Events
    BY DEF QInv, TypeOK, Live
  <2> QED
    BY <1>1, <2>1, NotedFields
<1>3. QueueOK'
  BY <1>1, <1>2, GiveBackKeeps
<1>4. store' \in Store
  BY DoneUsingType DEF Drop
<1> QED
  BY <1>3, <1>4

(* and one that only leaves its token.                                       *)
LEMMA ReplaceTokenKeeps ==
  ASSUME QInv, NEW w, Noted(w), NEW x \in Live, NEW s \in Store, NEW tok \in Tokens \cup {NULL},
         NEW e \in Events \ Live, UNCHANGED <<prog, next_q>>, ReplaceToken(w, x, s, tok, e)
  PROVE  QueueOK' /\ store' \in Store
<1>0. /\ w \in [Events -> EventFields]
      /\ \A y \in Events : w[y].next = ev[y].next /\ w[y].trigger = ev[y].trigger
      /\ \A y \in Events \ Live : w[y] = ev[y]
      /\ Live \subseteq Events
  <2>1. Live \subseteq Events
    BY DEF QInv, TypeOK, Live
  <2> QED
    BY <2>1, NotedFields
<1>1. GiveBack(e) /\ ev' = [w EXCEPT ![x].token = tok]
  BY DEF ReplaceToken
<1>2. w \in [Events -> EventFields] /\ x \in Events
  BY <1>0
<1>3. [w[x] EXCEPT !.token = tok] \in EventFields
  BY <1>2 DEF EventFields
<1>4. ev'[x] = [w[x] EXCEPT !.token = tok] /\ \A y \in Events \ {x} : ev'[y] = w[y]
  BY <1>1, <1>2
<1>5. ev' \in [Events -> EventFields]
  BY <1>1, <1>2, <1>3, <1>4
<1>6. ev'[x].next = ev[x].next /\ ev'[x].trigger = ev[x].trigger
  BY <1>0, <1>2, <1>4 DEF EventFields
<1>7. /\ \A y \in Live : ev'[y].next = ev[y].next /\ ev'[y].trigger = ev[y].trigger
      /\ \A y \in Events \ Live : ev'[y] = ev[y]
  BY <1>0, <1>4, <1>6
<1>8. QueueOK'
  BY <1>1, <1>5, <1>7, GiveBackKeeps
<1>9. store' \in Store
  <2>1. w[x].token \in Tokens \cup {NULL}
    BY <1>2 DEF EventFields
  <2> QED
    BY <2>1, DoneUsingType DEF ReplaceToken
<1> QED
  BY <1>8, <1>9

(* The event that `last' points to is in use if it waits in the queue; what  *)
(* is not in use has the time 0, which is not after any tag.                 *)
LEMMA WaitingIsLive ==
  ASSUME QInv, NEW x \in Events, Queued(x) \/ ev[x].time > current_tag.time
  PROVE  x \in Live
<1> SUFFICES ASSUME x \notin Live
             PROVE  FALSE
  OBVIOUS
<1>1. ev[x].trigger = NULL /\ ev[x].time = 0
  BY DEF QInv, LinkInv, Zeroed
<1>2. CASE Queued(x)
  <2>1. PICK h \in event_q : ev[h].trigger = NULL
    BY <1>1, <1>2 DEF Queued, Found
  <2>2. ev[h].trigger \in Triggers
    BY DEF QInv, LinkInv, Heads, TypeOK
  <2> QED
    BY <2>1, <2>2, QueueAssumption
<1>3. CASE ev[x].time > current_tag.time
  BY <1>1, <1>3 DEF QInv, TypeOK, Tag
<1> QED
  BY <1>2, <1>3

(* _lf_schedule without a minimum spacing,                                   *)
LEMMA UnspacedKeeps ==
  ASSUME QInv, NEW tr \in DOMAIN prog, NEW t \in Nat, NEW s \in Store,
         NEW tok \in Tokens \cup {NULL}, NEW e \in Events \ Live,
         UNCHANGED <<prog, next_q>>, Unspaced(tr, t, s, tok, e)
  PROVE  QueueOK' /\ store' \in Store
<1>1. CASE Found(tr, t) = {}
  <2>1. Insert(tr, t, s, tok, e)
    BY <1>1 DEF Unspaced
  <2> QED
    BY <2>1, InsertKeeps
<1>2. CASE Found(tr, t) # {}
  <2> DEFINE f == EventOf(tr, t, tok)
  <2>1. PICK h \in Found(tr, t) :
          HookBehind(ev, LastOf(h), TagOf(t, ChainLength(h)), f, s, e)
    BY <1>2 DEF Unspaced
  <2>2. h \in Live
    BY DEF Found, QInv, LinkInv, Heads
  <2>3. LastOf(h) \in Live
    BY <2>2, ChainFacts
  <2>4. f \in EventFields /\ f.trigger = tr /\ f.next = NULL
    BY EventOfType DEF QInv, TypeOK
  <2> HIDE DEF f
  <2> QED
    BY <2>1, <2>3, <2>4, HookBehindKeeps DEF Noted
<1> QED
  BY <1>1, <1>2

(* and with one, whatever `last' points to.                                  *)
LEMMA SpacedKeeps ==
  ASSUME QInv, NEW tr \in DOMAIN prog, NEW t \in Nat, NEW s \in Store,
         NEW tok \in Tokens \cup {NULL}, NEW e \in Events \ Live,
         prog[tr].period >= 0, UNCHANGED <<prog, next_q>>, Spaced(tr, t, s, tok, e)
  PROVE  QueueOK' /\ store' \in Store
<1> DEFINE x == last[tr]
           later == ev[x].time + prog[tr].period
           f == EventOf(tr, 0, tok)
<1>1. x \in Events \cup {NULL} /\ prog[tr].period \in Nat
  BY DEF QInv, TypeOK, Fields
<1>2. CASE Insert(tr, t, s, tok, e)
  BY <1>2, InsertKeeps
<1>3. CASE ~Insert(tr, t, s, tok, e)
  <2>1. x \in Events
    BY <1>1, <1>3 DEF Spaced
  <2>2. later \in Nat
    BY <1>1, <2>1 DEF QInv, TypeOK, EventFields
  <2>3. f \in EventFields /\ f.trigger = tr /\ f.next = NULL
    BY EventOfType DEF QInv, TypeOK
  <2>4. \/ Drop(ev, x, s, tok, e)
        \/ Waiting(x) /\ ReplaceToken(ev, x, s, tok, e)
        \/ Insert(tr, later, s, tok, e)
        \/ Queued(x) /\ HookBehind(ev, x, NextMicrostep, f, s, e)
    BY <1>3 DEF Spaced
  <2> HIDE DEF x, later, f
  <2>5. CASE Drop(ev, x, s, tok, e)
    BY <2>5, DropKeeps DEF Noted
  <2>6. CASE Waiting(x) /\ ReplaceToken(ev, x, s, tok, e)
    <3>1. x \in Live
      BY <2>1, <2>6, WaitingIsLive DEF Waiting
    <3> QED
      BY <2>6, <3>1, ReplaceTokenKeeps DEF Noted
  <2>7. CASE Insert(tr, later, s, tok, e)
    BY <2>2, <2>7, InsertKeeps
  <2>8. CASE Queued(x) /\ HookBehind(ev, x, NextMicrostep, f, s, e)
    <3>1. x \in Live
      BY <2>1, <2>8, WaitingIsLive
    <3> QED
      BY <2>3, <2>8, <3>1, HookBehindKeeps DEF Noted
  <2> QED
    BY <2>4, <2>5, <2>6, <2>7, <2>8
<1> QED
  BY <1>2, <1>3

(* _lf_schedule keeps the events in order, whatever the spacing and policy.  *)
LEMMA LfScheduleKeeps ==
  ASSUME QInv, NEW tr \in DOMAIN prog, NEW d \in Nat, NEW s \in Store,
         NEW tok \in Tokens \cup {NULL},
         UNCHANGED <<prog, next_q>>, LfSchedule(tr, d, s, tok)
  PROVE  QueueOK' /\ store' \in Store
<1> DEFINE at(lag) == current_tag.time + lag + prog[tr].offset + d
           u == AddReference(s, tok)
<1>1. PICK lag \in PhysicalLag(tr), n \in NewEvents(1) :
        IF prog[tr].period < 0 THEN Unspaced(tr, at(lag), u, tok, n[1])
        ELSE Spaced(tr, at(lag), u, tok, n[1])
  BY DEF LfSchedule
<1> DEFINE e == n[1]
           t == at(lag)
<1>2. e \in Events \ Live
  BY NewEventsFacts
<1>3. prog[tr] \in Fields /\ current_tag.time \in Nat /\ lag \in Nat
  BY DEF QInv, TypeOK, Tag, PhysicalLag
<1>4. t \in Nat /\ prog[tr].period \in Int
  BY <1>3 DEF Fields
<1>5. u \in Store
  BY AddReferenceType
<1>6. IF prog[tr].period < 0 THEN Unspaced(tr, t, u, tok, e) ELSE Spaced(tr, t, u, tok, e)
  BY <1>1
<1> HIDE DEF t, u, e
<1>7. CASE prog[tr].period < 0
  BY <1>2, <1>4, <1>5, <1>6, <1>7, UnspacedKeeps
<1>8. CASE ~(prog[tr].period < 0)
  <2>1. prog[tr].period >= 0
    BY <1>4, <1>8
  <2> QED
    BY <1>2, <1>4, <1>5, <1>6, <1>8, <2>1, SpacedKeeps
<1> QED
  BY <1>7, <1>8

(* _lf_create_dummy_events: the spacers lead to the event itself, from the   *)
(* first one on.                                                             *)
LEMMA SpacerFacts ==
  ASSUME QInv, NEW k \in Nat \ {0}, NEW n \in NewEvents(k), NEW tr \in DOMAIN prog, NEW t \in Nat,
         NEW tok \in Tokens \cup {NULL}
  PROVE  LET U == {n[i] : i \in DOMAIN n}
             w == WithSpacers(n, tr, t, tok)
         IN  /\ U \in SUBSET (Events \ Live) /\ FirstOf(n) \in U /\ n[1] \in U
             /\ w \in [Events -> EventFields]
             /\ \A x \in U : /\ w[x].trigger = tr /\ w[x].next \in (U \ {FirstOf(n)}) \cup {NULL}
                             /\ w[x].token = IF x = n[1] THEN tok ELSE NULL
             /\ \A x, y \in U : w[x].next = w[y].next /\ w[x].next # NULL => x = y
             /\ \A x \in Events \ U : w[x] = ev[x]
<1> DEFINE U == {n[i] : i \in DOMAIN n}
           w == WithSpacers(n, tr, t, tok)
           after(i) == IF i = k THEN n[1] ELSE n[i + 1]
           dummy(i) == [EventOf(tr, t, NULL) EXCEPT !.is_dummy = TRUE, !.next = after(i)]
<1>1. /\ Len(n) = k /\ DOMAIN n = 1 .. k
      /\ \A i \in 1 .. k : n[i] \in Events \ Live /\ n[i] # NULL
      /\ \A i, j \in 1 .. k : n[i] = n[j] => i = j
  BY NewEventsFacts
<1>2. 1 \in 1 .. k /\ U \in SUBSET (Events \ Live) /\ n[1] \in U
  BY <1>1
<1>3. FirstOf(n) \in U
  <2>1. k # 1 => 2 \in 1 .. k
    OBVIOUS
  <2> QED
    BY <1>1, <1>2, <2>1 DEF FirstOf
<1>4. w = [x \in Events |->
             IF x = n[1] THEN EventOf(tr, t, tok)
             ELSE IF x \in {n[i] : i \in 2 .. k}
             THEN dummy(CHOOSE j \in 2 .. k : n[j] = x)
             ELSE ev[x]]
  BY <1>1 DEF WithSpacers
<1> HIDE DEF w
<1>5. w[n[1]] = EventOf(tr, t, tok)
  BY <1>1, <1>2, <1>4
<1>6. ASSUME NEW i \in 2 .. k
      PROVE  w[n[i]] = dummy(i) /\ i \in 1 .. k /\ n[i] # n[1]
  <2>1. i \in 1 .. k /\ n[i] # n[1] /\ n[i] \in Events
    BY <1>1, <1>2
  <2>2. (CHOOSE j \in 2 .. k : n[j] = n[i]) = i
    <3>1. \A j \in 2 .. k : n[j] = n[i] => j = i
      BY <1>1
    <3> QED
      BY <3>1
  <2> HIDE DEF dummy
  <2> QED
    BY <1>4, <2>1, <2>2
<1>7. ASSUME NEW x \in Events \ U
      PROVE  w[x] = ev[x]
  <2>1. x # n[1] /\ x \notin {n[i] : i \in 2 .. k}
    BY <1>1, <1>2
  <2> QED
    BY <1>4, <2>1
<1>8. tr \in Triggers /\ ev \in [Events -> EventFields]
  BY DEF QInv, TypeOK
<1>9. /\ w[n[1]] \in EventFields /\ w[n[1]].trigger = tr /\ w[n[1]].next = NULL
      /\ w[n[1]].token = tok
  BY <1>5, <1>8, EventOfType
<1>10. ASSUME NEW i \in 2 .. k
       PROVE  /\ w[n[i]] \in EventFields /\ w[n[i]].trigger = tr
              /\ w[n[i]].next = after(i) /\ w[n[i]].token = NULL
              /\ after(i) \in U /\ after(i) # FirstOf(n)
  <2>1. i \in 1 .. k /\ (i # k => i + 1 \in 1 .. k /\ i + 1 # 2) /\ 2 \in 1 .. k /\ k # 1
    OBVIOUS
  <2>2. after(i) \in U /\ after(i) # FirstOf(n) /\ after(i) \in Events
    BY <1>1, <1>2, <2>1 DEF FirstOf
  <2> HIDE DEF after
  <2>3. w[n[i]] = dummy(i)
    BY <1>6
  <2> DEFINE f == EventOf(tr, t, NULL)
  <2>4. f \in EventFields /\ f.trigger = tr /\ f.token = NULL
    BY <1>8, EventOfType
  <2> HIDE DEF f
  <2>5. dummy(i) = [f EXCEPT !.is_dummy = TRUE, !.next = after(i)]
    BY DEF f
  <2>6. /\ dummy(i) \in EventFields /\ dummy(i).trigger = tr /\ dummy(i).next = after(i)
        /\ dummy(i).token = NULL
    BY <2>2, <2>4, <2>5 DEF EventFields
  <2> QED
    BY <2>2, <2>3, <2>6
<1> HIDE DEF dummy
<1>11. ASSUME NEW x \in U
       PROVE  x = n[1] \/ \E i \in 2 .. k : x = n[i]
  <2>1. PICK i \in 1 .. k : x = n[i]
    BY <1>1
  <2> QED
    BY <2>1
<1>12. ASSUME NEW i \in 2 .. k, NEW j \in 2 .. k, after(i) = after(j)
       PROVE  i = j
  <2>1. (i # k => i + 1 \in 1 .. k /\ i + 1 # 1) /\ (j # k => j + 1 \in 1 .. k /\ j + 1 # 1)
    OBVIOUS
  <2>2. CASE i = k \/ j = k
    BY <1>1, <1>2, <1>12, <2>1, <2>2
  <2>3. CASE i # k /\ j # k
    <3>1. i + 1 = j + 1
      BY <1>1, <1>12, <2>1, <2>3
    <3> QED
      BY <3>1
  <2> QED
    BY <2>2, <2>3
<1> HIDE DEF U, after
<1>13. w \in [Events -> EventFields]
  <2>1. \A x \in Events : w[x] \in EventFields
    BY <1>7, <1>8, <1>9, <1>10, <1>11
  <2>2. w = [x \in Events |-> w[x]]
    BY <1>4
  <2> QED
    BY <2>1, <2>2
<1>14. FirstOf(n) # NULL /\ ~ (NULL \in U)
  BY <1>2, <1>3, QueueAssumption
<1>15. ASSUME NEW x \in U
       PROVE  /\ w[x].trigger = tr /\ w[x].next \in (U \ {FirstOf(n)}) \cup {NULL}
              /\ w[x].token = IF x = n[1] THEN tok ELSE NULL
  BY <1>6, <1>9, <1>10, <1>11
<1>16. ASSUME NEW x \in U, NEW y \in U, w[x].next = w[y].next, w[x].next # NULL
       PROVE  x = y
  <2>1. x # n[1] /\ y # n[1]
    BY <1>9, <1>16
  <2>2. PICK i \in 2 .. k : x = n[i]
    BY <1>11, <2>1
  <2>3. PICK j \in 2 .. k : y = n[j]
    BY <1>11, <2>1
  <2>4. after(i) = after(j)
    BY <1>10, <1>16, <2>2, <2>3
  <2> QED
    BY <1>12, <2>2, <2>3, <2>4
<1> QED
  BY <1>2, <1>3, <1>7, <1>13, <1>15, <1>16 DEF U, w

(* The event, behind its spacers, is put to use: in the queue, behind an     *)
(* event, or nowhere.                                                        *)
LEMMA SpacersKeep ==
  ASSUME QInv, NEW k \in Nat \ {0}, NEW n \in NewEvents(k), NEW tr \in DOMAIN prog, NEW t \in Nat,
         NEW tok \in Tokens \cup {NULL}, UNCHANGED <<prog, next_q, last>>,
         \/ /\ Use(n, WithSpacers(n, tr, t, tok))
            /\ event_q' \in {event_q, event_q \cup {FirstOf(n)}}
         \/ /\ \E p \in Live : Use(n, [WithSpacers(n, tr, t, tok) EXCEPT ![p].next = FirstOf(n)])
            /\ event_q' = event_q
  PROVE  QueueOK'
<1> DEFINE U == {n[i] : i \in DOMAIN n}
           w == WithSpacers(n, tr, t, tok)
           first == FirstOf(n)
<1>1. /\ U \in SUBSET (Events \ Live) /\ first \in U
      /\ w \in [Events -> EventFields]
      /\ \A x \in U : w[x].trigger = tr /\ w[x].next \in (U \ {first}) \cup {NULL}
      /\ \A x, y \in U : w[x].next = w[y].next /\ w[x].next # NULL => x = y
      /\ \A x \in Events \ U : w[x] = ev[x]
  BY SpacerFacts
<1>2. \/ Use(n, w) /\ event_q' \in {event_q, event_q \cup {first}}
      \/ (\E p \in Live : Use(n, [w EXCEPT ![p].next = first])) /\ event_q' = event_q
  OBVIOUS
<1>3. \A f : Use(n, f) => ev' = f /\ calloced' = calloced \cup U /\ recycle_q' = recycle_q \ U
  BY DEF Use
<1>4. last' \in [DOMAIN prog -> Events \cup {NULL}]
  BY DEF QInv, TypeOK
<1> HIDE DEF U, w, first
<1>5. CASE Use(n, w) /\ event_q' \in {event_q, event_q \cup {first}}
  <2>1. ev' = w /\ calloced' = calloced \cup U /\ recycle_q' = recycle_q \ U
    BY <1>3, <1>5
  <2>2. PICK p \in Live \cup {NULL} : p = NULL
    OBVIOUS
  <2>3. /\ ev' \in [Events -> EventFields]
        /\ \A x \in U : ev'[x].trigger \in DOMAIN prog /\ ev'[x].next \in (U \ {first}) \cup {NULL}
        /\ \A x, y \in U : ev'[x].next = ev'[y].next /\ ev'[x].next # NULL => x = y
        /\ \A x \in Events \ U : ev'[x] = ev[x]
    BY <1>1, <2>1
  <2>4. /\ event_q' \in {event_q, event_q \cup {first}} /\ UNCHANGED <<prog, next_q>>
        /\ U \in SUBSET (Events \ Live) /\ first \in U
        /\ calloced' = calloced \cup U /\ recycle_q' = recycle_q \ U
        /\ \A x \in Live : ev'[x].next = ev[x].next /\ ev'[x].trigger = ev[x].trigger
        /\ \A x \in Events \ (U \cup Live) : ev'[x] = ev[x]
    BY <1>1, <1>5, <2>1, <2>3 DEF QInv, TypeOK, Live
  <2>5. PutToUse(U, first, p)
    BY <1>4, <2>2, <2>3, <2>4 DEF PutToUse
  <2> QED
    BY <2>5, UseKeeps
<1>6. CASE (\E p \in Live : Use(n, [w EXCEPT ![p].next = first])) /\ event_q' = event_q
  <2>1. PICK p \in Live : Use(n, [w EXCEPT ![p].next = first])
    BY <1>6
  <2>2. /\ ev' = [w EXCEPT ![p].next = first]
        /\ calloced' = calloced \cup U /\ recycle_q' = recycle_q \ U
    BY <1>3, <2>1
  <2>3. p \in Events /\ p \notin U /\ p # NULL /\ first \in Events
    BY <1>1, QueueAssumption DEF QInv, TypeOK, Live
  <2>4. ev'[p] = [w[p] EXCEPT !.next = first] /\ \A x \in Events \ {p} : ev'[x] = w[x]
    BY <1>1, <2>2, <2>3
  <2>5. w[p] \in EventFields /\ w[p] = ev[p]
    BY <1>1, <2>3
  <2>6. ev'[p] \in EventFields /\ ev'[p].next = first /\ ev'[p].trigger = ev[p].trigger
    BY <2>3, <2>4, <2>5 DEF EventFields
  <2>7. ev' \in [Events -> EventFields]
    BY <1>1, <2>2, <2>4, <2>6
  <2>8. /\ \A x \in U : ev'[x].trigger \in DOMAIN prog /\ ev'[x].next \in (U \ {first}) \cup {NULL}
        /\ \A x, y \in U : ev'[x].next = ev'[y].next /\ ev'[x].next # NULL => x = y
        /\ \A x \in Live : x # p => ev'[x].next = ev[x].next /\ ev'[x].trigger = ev[x].trigger
        /\ \A x \in Events \ (U \cup Live) : ev'[x] = ev[x]
    BY <1>1, <2>3, <2>4 DEF QInv, TypeOK, Live
  <2>9. p \in Live \cup {NULL}
    OBVIOUS
  <2>10. PutToUse(U, first, p)
    BY <1>1, <1>4, <1>6, <2>2, <2>3, <2>6, <2>7, <2>8, <2>9 DEF PutToUse
  <2> QED
    BY <2>10, UseKeeps
<1> QED
  BY <1>2, <1>5, <1>6

(* The store with a new token that is counted once.                          *)
LEMMA NewTokenType ==
  ASSUME NEW s \in Store, NEW t \in NewTokens(s)
  PROVE  LET u == [CreateToken(s, t) EXCEPT !.token[t].value = TRUE]
         IN  t \in Tokens /\ u \in Store /\ AddReference(u, t) \in Store
<1> DEFINE v == CreateToken(s, t)
           u == [v EXCEPT !.token[t].value = TRUE]
<1>1. t \in Tokens /\ v \in Store
  BY CreateTokenFields
<1> HIDE DEF v
<1>2. u \in Store
  BY <1>1, ValueFields
<1> HIDE DEF u
<1>3. AddReference(u, t) \in Store
  BY <1>1, <1>2, AddReferenceType
<1> QED
  BY <1>1, <1>2, <1>3 DEF u, v

(* _lf_schedule_at_tag for a tag that is taken,                              *)
LEMMA TagTakenKeeps ==
  ASSUME QInv, NEW w, Noted(w), NEW q \in Live, NEW limit, NEW tr \in DOMAIN prog, NEW g \in Tag,
         NEW s \in Store, NEW tok \in Tokens, UNCHANGED <<prog, next_q>>,
         TagTaken(w, q, limit, tr, g, s, tok)
  PROVE  QueueOK' /\ store' \in Store
<1> DEFINE f == EventOf(tr, g.time, tok)
<1>1. PICK n \in NewEvents(1) :
        \/ Drop(w, q, s, tok, n[1])
        \/ ReplaceToken(w, q, s, tok, n[1])
        \/ HookBehind(w, q, limit, f, s, n[1])
        \/ /\ Use(n, [w EXCEPT ![n[1]] = f])
           /\ store' = s /\ UNCHANGED <<event_q, last>>
  BY DEF TagTaken
<1>2. n[1] \in Events \ Live
  BY NewEventsFacts
<1>3. g.time \in Nat /\ tok \in Tokens \cup {NULL}
  BY DEF Tag
<1>4. f \in EventFields /\ f.trigger = tr /\ f.next = NULL
  BY <1>3, EventOfType DEF QInv, TypeOK
<1> HIDE DEF f
<1>5. CASE Drop(w, q, s, tok, n[1])
  BY <1>2, <1>3, <1>5, DropKeeps
<1>6. CASE ReplaceToken(w, q, s, tok, n[1])
  BY <1>2, <1>3, <1>6, ReplaceTokenKeeps
<1>7. CASE HookBehind(w, q, limit, f, s, n[1])
  BY <1>2, <1>4, <1>7, HookBehindKeeps
<1>8. CASE /\ Use(n, [w EXCEPT ![n[1]] = f])
           /\ store' = s /\ UNCHANGED <<event_q, last>>
  <2>1. PICK e \in Events \ Live : e = n[1]
    BY <1>2
  <2>2. DOMAIN n = 1 .. 1
    BY NewEventsFacts
  <2>3. {n[i] : i \in DOMAIN n} = {e}
    BY <2>1, <2>2
  <2>4. /\ ev' = [w EXCEPT ![e] = f] /\ calloced' = calloced \cup {e}
        /\ recycle_q' = recycle_q \ {e}
    BY <1>8, <2>1, <2>3 DEF Use
  <2>5. /\ w \in [Events -> EventFields]
        /\ \A x \in Events : w[x].next = ev[x].next /\ w[x].trigger = ev[x].trigger
        /\ \A x \in Events \ Live : w[x] = ev[x]
        /\ Live \subseteq Events
    <3>1. Live \subseteq Events
      BY DEF QInv, TypeOK, Live
    <3> QED
      BY <3>1, NotedFields
  <2>6. /\ ev' \in [Events -> EventFields] /\ ev'[e] = f
        /\ \A x \in Events \ {e} : ev'[x] = w[x]
    BY <1>4, <2>4, <2>5
  <2>7. /\ event_q' \in {event_q, event_q \cup {e}}
        /\ ev'[e].trigger \in DOMAIN prog /\ ev'[e].next = NULL
        /\ \A x \in Live : ev'[x].next = ev[x].next /\ ev'[x].trigger = ev[x].trigger
        /\ \A x \in Events \ ({e} \cup Live) : ev'[x] = ev[x]
        /\ last' \in [DOMAIN prog -> Events \cup {NULL}]
    BY <1>4, <1>8, <2>5, <2>6 DEF QInv, TypeOK
  <2>8. QueueOK'
    BY <2>4, <2>6, <2>7, UseOneKeeps
  <2> QED
    BY <1>8, <2>8
<1> QED
  BY <1>1, <1>5, <1>6, <1>7, <1>8

(* behind an event of the chain,                                             *)
LEMMA AppendKeeps ==
  ASSUME QInv, NEW p \in Live, NEW k \in Nat \ {0}, NEW n \in NewEvents(k), NEW tr \in DOMAIN prog,
         NEW g \in Tag, NEW s \in Store, NEW tok \in Tokens, UNCHANGED <<prog, next_q>>,
         AppendAt(p, n, tr, g, s, tok)
  PROVE  QueueOK' /\ store' \in Store
<1>1. /\ Use(n, [WithSpacers(n, tr, g.time, tok) EXCEPT ![p].next = FirstOf(n)])
      /\ store' = s /\ UNCHANGED <<event_q, last>>
  BY DEF AppendAt
<1>2. g.time \in Nat /\ tok \in Tokens \cup {NULL}
  BY DEF Tag
<1>3. QueueOK'
  BY <1>1, <1>2, SpacersKeep
<1> QED
  BY <1>1, <1>3

(* as the first of its time,                                                 *)
LEMMA AtTagAloneKeeps ==
  ASSUME QInv, NEW tr \in DOMAIN prog, NEW g \in Tag, TagLess(current_tag, g), NEW s \in Store,
         NEW tok \in Tokens, UNCHANGED <<prog, next_q>>, AtTagAlone(tr, g, s, tok)
  PROVE  QueueOK' /\ store' \in Store
<1> DEFINE relative == IF g.time = current_tag.time
                       THEN g.microstep - current_tag.microstep ELSE g.microstep
           spacers == IF g.time = current_tag.time /\ relative = 1 THEN 0 ELSE relative
           k == 1 + spacers
<1>1. PICK n \in NewEvents(k) :
        /\ Use(n, WithSpacers(n, tr, g.time, tok))
        /\ event_q' = event_q \cup {FirstOf(n)}
        /\ store' = s /\ UNCHANGED last
  BY DEF AtTagAlone
<1>2. k \in Nat \ {0} /\ g.time \in Nat /\ tok \in Tokens \cup {NULL}
  BY DEF QInv, TypeOK, Tag, TagLess
<1> HIDE DEF k
<1>3. event_q' \in {event_q, event_q \cup {FirstOf(n)}}
  BY <1>1
<1>4. QueueOK'
  BY <1>1, <1>2, <1>3, SpacersKeep
<1> QED
  BY <1>1, <1>4

(* and in a chain that is there.                                             *)
LEMMA AtTagBehindKeeps ==
  ASSUME QInv, NEW h \in Live, NEW tr \in DOMAIN prog, NEW g \in Tag, NEW s \in Store,
         NEW tok \in Tokens, UNCHANGED <<prog, next_q>>, AtTagBehind(h, tr, g, s, tok)
  PROVE  QueueOK' /\ store' \in Store
<1> DEFINE base == IF g.time = current_tag.time THEN current_tag.microstep + 1 ELSE 0
           skip == IF g.microstep > base THEN g.microstep - 1 - base ELSE 0
           rest == ChainLength(h) - 1
           p == Follow(h, skip)
           k == 1 + skip - rest
           w == [ev EXCEPT ![h].is_dummy = FALSE]
<1>1. /\ ChainLength(h) \in 1 .. Cardinality(Events) /\ Cardinality(Events) \in Nat
      /\ \A i \in 0 .. ChainLength(h) - 1 : Follow(h, i) \in Live
      /\ LastOf(h) \in Live
  BY ChainFacts, FollowFacts
<1>2. base \in Nat /\ g.microstep \in Nat
  BY DEF QInv, TypeOK, Tag
<1>3. skip \in Nat /\ rest \in Nat
  BY <1>1, <1>2
<1>4. ASSUME skip <= rest
      PROVE  p \in Live /\ ev[p].next \in Live \cup {NULL}
  <2>1. skip \in 0 .. ChainLength(h) - 1
    BY <1>3, <1>4
  <2>2. p \in Live
    BY <1>1, <2>1
  <2> QED
    BY <2>2 DEF QInv, LinkInv
<1>5. \/ TagTaken(w, h, TagOf(g.time, 1), tr, g, s, tok)
      \/ skip > rest /\ \E n \in NewEvents(k) : AppendAt(LastOf(h), n, tr, g, s, tok)
      \/ skip <= rest /\ \E n \in NewEvents(1) : AppendAt(p, n, tr, g, s, tok)
      \/ /\ skip <= rest /\ ev[p].next # NULL
         /\ TagTaken(ev, ev[p].next, TagOf(g.time, base + skip + 1), tr, g, s, tok)
  BY <1>3 DEF AtTagBehind
<1>10. Noted(w) /\ Noted(ev)
  BY DEF Noted
<1> HIDE DEF skip, rest, p, base, w
<1>6. CASE TagTaken(w, h, TagOf(g.time, 1), tr, g, s, tok)
  BY <1>6, <1>10, TagTakenKeeps
<1>7. CASE skip > rest /\ \E n \in NewEvents(k) : AppendAt(LastOf(h), n, tr, g, s, tok)
  <2>1. k \in Nat \ {0}
    BY <1>3, <1>7
  <2> HIDE DEF k
  <2> QED
    BY <1>1, <1>7, <2>1, AppendKeeps
<1>8. CASE skip <= rest /\ \E n \in NewEvents(1) : AppendAt(p, n, tr, g, s, tok)
  <2>1. 1 \in Nat \ {0}
    OBVIOUS
  <2> QED
    BY <1>4, <1>8, <2>1, AppendKeeps
<1>9. CASE /\ skip <= rest /\ ev[p].next # NULL
           /\ TagTaken(ev, ev[p].next, TagOf(g.time, base + skip + 1), tr, g, s, tok)
  <2>1. ev[p].next \in Live
    BY <1>4, <1>9
  <2> QED
    BY <1>9, <1>10, <2>1, TagTakenKeeps
<1> QED
  BY <1>5, <1>6, <1>7, <1>8, <1>9

(* _lf_schedule_at_tag keeps the events in order, however many spacers.      *)
LEMMA ScheduleAtTagKeeps ==
  ASSUME QInv, NEW tr \in DOMAIN prog, NEW g \in NetworkTags(tr), ScheduleAtTag(tr, g)
  PROVE  QueueOK' /\ store' \in Store
<1> DEFINE with(t) == [CreateToken(store, t) EXCEPT !.token[t].value = TRUE]
<1>1. /\ UNCHANGED <<prog, next_q>>
      /\ \E t \in NewTokens(store) :
           LET s == AddReference(with(t), t)
           IN IF AfterStop(g) THEN store' = DoneUsing(s, t) /\ UNCHANGED queueVars
              ELSE IF Found(tr, g.time) = {} THEN AtTagAlone(tr, g, s, t)
              ELSE \E h \in Found(tr, g.time) : AtTagBehind(h, tr, g, s, t)
  BY DEF ScheduleAtTag, Calling
<1>2. PICK t \in NewTokens(store) :
        LET s == AddReference(with(t), t)
        IN IF AfterStop(g) THEN store' = DoneUsing(s, t) /\ UNCHANGED queueVars
           ELSE IF Found(tr, g.time) = {} THEN AtTagAlone(tr, g, s, t)
           ELSE \E h \in Found(tr, g.time) : AtTagBehind(h, tr, g, s, t)
  BY <1>1
<1> DEFINE s == AddReference(with(t), t)
<1>3. t \in Tokens /\ s \in Store
  BY NewTokenType DEF QInv, TypeOK
<1>4. IF AfterStop(g) THEN store' = DoneUsing(s, t) /\ UNCHANGED queueVars
      ELSE IF Found(tr, g.time) = {} THEN AtTagAlone(tr, g, s, t)
      ELSE \E h \in Found(tr, g.time) : AtTagBehind(h, tr, g, s, t)
  BY <1>2
<1> HIDE DEF s, with
<1>5. g \in Tag /\ TagLess(current_tag, g)
  BY QueueAssumption DEF NetworkTags, Tag, QInv, TypeOK
<1>6. CASE AfterStop(g)
  <2>1. store' \in Store
    BY <1>3, <1>4, <1>6, DoneUsingType
  <2>2. UNCHANGED queueVars
    BY <1>4, <1>6
  <2>3. QueueOK'
    BY <1>1, <2>2 DEF queueVars, QueueOK, QueueType, QInv, TypeOK, LinkInv, Live, Heads
  <2> QED
    BY <2>1, <2>3
<1>7. CASE ~AfterStop(g) /\ Found(tr, g.time) = {}
  <2>1. AtTagAlone(tr, g, s, t)
    BY <1>4, <1>7
  <2> QED
    BY <1>1, <1>3, <1>5, <2>1, AtTagAloneKeeps
<1>8. CASE ~AfterStop(g) /\ Found(tr, g.time) # {}
  <2>1. PICK h \in Found(tr, g.time) : AtTagBehind(h, tr, g, s, t)
    BY <1>4, <1>8
  <2>2. h \in Live
    BY DEF Found, QInv, LinkInv, Heads
  <2> QED
    BY <1>1, <1>3, <1>5, <2>1, <2>2, AtTagBehindKeeps
<1> QED
  BY <1>6, <1>7, <1>8

-----------------------------------------------------------------------------
(* The steps between the tags *)

(* The event e is taken from the queue and cleared; the rest of its chain    *)
(* goes to next_q, or is left; new events may be queued, without a chain.    *)
LEMMA PopKeeps ==
  ASSUME QInv, NEW e \in event_q, NEW again \in SUBSET (Events \ Live), UNCHANGED prog,
         last' \in [DOMAIN prog -> Events \cup {NULL}],
         ev' \in [Events -> EventFields], ev'[e] = Zeroed,
         \A x \in again : ev'[x].trigger \in DOMAIN prog /\ ev'[x].next = NULL,
         \A x \in Events \ again : x # e => ev'[x] = ev[x],
         event_q' = (event_q \ {e}) \cup again,
         next_q' \in {next_q, next_q \cup ({ev[e].next} \ {NULL})},
         calloced' \subseteq Events, recycle_q' \subseteq Events,
         calloced' \ recycle_q' = (Live \cup again) \ {e}
  PROVE  QueueOK'
<1>1. e \in Live /\ e \in Heads /\ e \notin next_q
  BY DEF QInv, LinkInv, Heads
<1>2. Live' = (Live \ {e}) \cup again
  BY <1>1 DEF Live
<1>3. ev[e].next \in Live \cup {NULL} /\ ev[e].next \notin Heads
  BY <1>1 DEF QInv, LinkInv
<1>4. QueueType'
  BY <1>3 DEF QueueType, QInv, TypeOK, Live
<1>5. Heads \subseteq Live /\ event_q \cap next_q = {} /\ NULL \notin Live
  BY QueueAssumption DEF QInv, TypeOK, LinkInv, Live
<1>6. Heads' \subseteq (Heads \ {e}) \cup again \cup ({ev[e].next} \ {NULL})
  BY <1>1, <1>5 DEF Heads
<1>7. Heads' \subseteq Live'
  BY <1>1, <1>2, <1>3, <1>5, <1>6
<1>8. event_q' \cap next_q' = {}
  BY <1>1, <1>3, <1>5 DEF Heads
<1>9. \A x \in Live \ {e} : ev'[x] = ev[x]
  BY DEF QInv, TypeOK, Live
<1>10. \A x \in Live \ {e} : ev[x].next # e
  BY <1>1 DEF QInv, LinkInv
<1>11. \A x \in Live' : ev'[x].trigger \in DOMAIN prog' /\ ev'[x].next \in Live' \cup {NULL}
  BY <1>2, <1>9, <1>10 DEF QInv, LinkInv
<1>12. \A x, y \in Live' : ev'[x].next = ev'[y].next /\ ev'[x].next # NULL => x = y
  BY <1>2, <1>9 DEF QInv, LinkInv
<1>13. ASSUME NEW x \in Live'
       PROVE  ev'[x].next \notin Heads'
  <2>1. CASE x \in again
    BY <1>5, <1>6, <2>1, QueueAssumption
  <2>2. CASE x \in Live \ {e}
    <3>1. ev[x].next \notin Heads /\ ev[x].next \in Live \cup {NULL}
      BY <2>2 DEF QInv, LinkInv
    <3>2. ev[x].next = ev[e].next => ev[x].next = NULL
      BY <1>1, <2>2 DEF QInv, LinkInv
    <3>3. ev[x].next \notin again
      BY <3>1, QueueAssumption
    <3> QED
      BY <1>6, <1>9, <2>2, <3>1, <3>2, <3>3
  <2> QED
    BY <1>2, <2>1, <2>2
<1>14. \A x \in Events \ Live' : ev'[x] = Zeroed
  BY <1>2 DEF QInv, LinkInv
<1> QED
  BY <1>4, <1>7, <1>8, <1>11, <1>12, <1>13, <1>14 DEF QueueOK, LinkInv

(* An event triggers: its token becomes the template of its trigger.         *)
LEMMA TriggerKeeps ==
  ASSUME QInv, NEW e \in Live, Trigger(e), UNCHANGED prog
  PROVE  /\ present' \subseteq DOMAIN prog' /\ store' \in Store
         /\ template' \in [DOMAIN prog' -> Tokens \cup {NULL}]
<1> DEFINE tr == ev[e].trigger
<1>1. tr \in DOMAIN prog /\ ev[e].token \in Tokens \cup {NULL}
  BY DEF QInv, LinkInv, TypeOK, Live, EventFields
<1>2. /\ present' = present \cup {tr}
      /\ store' = ReplaceTemplate(store, template[tr], ev[e].token)
      /\ template' = [template EXCEPT ![tr] = ev[e].token]
  BY DEF Trigger
<1> HIDE DEF tr
<1>3. template[tr] \in Tokens \cup {NULL} /\ store \in Store
  BY <1>1 DEF QInv, TypeOK
<1>4. store' \in Store
  BY <1>1, <1>2, <1>3, ReplaceTemplateType
<1> QED
  BY <1>1, <1>2, <1>4 DEF QInv, TypeOK

(* The rest of the type invariant does not depend on the queue.              *)
OtherType ==
  /\ prog \in Programs
  /\ current_tag \in Tag /\ stop_tag \in Tag
  /\ template \in [DOMAIN prog -> Tokens \cup {NULL}]
  /\ present \subseteq DOMAIN prog
  /\ asked \in [DOMAIN prog -> Tag]
  /\ store \in Store
  /\ popping \in BOOLEAN

(* The parts make up the invariant.                                          *)
LEMMA Together ==
  QInv <=> QueueOK /\ OtherType
<1>1. prog \in Programs => \A tr \in DOMAIN prog : tr \in Triggers /\ prog[tr] \in Fields
  BY ProgramsAssumption
<1> QED
  BY <1>1 DEF QInv, TypeOK, QueueOK, QueueType, OtherType

(* An event or a spacer is popped.                                           *)
LEMMA PopStep ==
  ASSUME QInv, NEW e \in Events, PopDummy(e) \/ PopEvent(e)
  PROVE  QInv'
<1>1. /\ e \in event_q /\ UNCHANGED <<prog, current_tag, stop_tag, asked, popping, calloced, last>>
      /\ event_q' = event_q \ {e} /\ recycle_q' = recycle_q \cup {e}
      /\ ev' = [ev EXCEPT ![e] = Zeroed] /\ PutNext(e)
  BY DEF PopDummy, PopEvent, Popping, Earliest
<1>2. e \in Live
  BY <1>1 DEF QInv, LinkInv, Heads
<1>3. Zeroed \in EventFields
  BY DEF Zeroed, EventFields
<1>4. /\ ev' \in [Events -> EventFields] /\ ev'[e] = Zeroed
      /\ \A x \in Events : x # e => ev'[x] = ev[x]
      /\ last' \in [DOMAIN prog -> Events \cup {NULL}]
      /\ calloced' \subseteq Events /\ recycle_q' \subseteq Events
  BY <1>1, <1>3 DEF QInv, TypeOK
<1>5. calloced' \ recycle_q' = Live \ {e}
  BY <1>1 DEF Live
<1>6. next_q' \in {next_q, next_q \cup ({ev[e].next} \ {NULL})}
  BY <1>1 DEF PutNext
<1>7. QueueOK'
  <2> DEFINE again == {}
  <2>1. /\ again \in SUBSET (Events \ Live)
        /\ \A x \in again : ev'[x].trigger \in DOMAIN prog /\ ev'[x].next = NULL
        /\ \A x \in Events \ again : x # e => ev'[x] = ev[x]
        /\ event_q' = (event_q \ {e}) \cup again
        /\ calloced' \ recycle_q' = (Live \cup again) \ {e}
    BY <1>1, <1>4, <1>5
  <2> HIDE DEF again
  <2> QED
    BY <1>1, <1>4, <1>6, <2>1, PopKeeps
<1>8. /\ present' \subseteq DOMAIN prog' /\ store' \in Store
      /\ template' \in [DOMAIN prog' -> Tokens \cup {NULL}]
  <2>1. CASE PopDummy(e)
    BY <1>1, <2>1 DEF PopDummy, QInv, TypeOK
  <2>2. CASE PopEvent(e)
    BY <1>1, <1>2, <2>2, TriggerKeeps DEF PopEvent
  <2> QED
    BY <2>1, <2>2
<1>9. OtherType'
  BY <1>1, <1>8 DEF OtherType, QInv, TypeOK
<1> QED
  BY <1>7, <1>9, Together, PTL

(* The event of a periodic timer is popped, and the next one scheduled.      *)
LEMMA PopTimerStep ==
  ASSUME QInv, NEW e \in Events, PopTimer(e)
  PROVE  QInv'
<1> DEFINE tr == ev[e].trigger
           t == current_tag.time + prog[tr].period
           more(n) == IF t > stop_tag.time THEN {} ELSE {n[1]}
<1>1. /\ e \in event_q /\ UNCHANGED <<prog, current_tag, stop_tag, asked, popping>>
      /\ Trigger(e) /\ Periodic(e) /\ PutNext(e)
  BY DEF PopTimer, Popping, Earliest
<1>2. PICK n \in NewEvents(1) :
        /\ event_q' = (event_q \ {e}) \cup more(n)
        /\ recycle_q' = (recycle_q \ more(n)) \cup ({n[1]} \ more(n)) \cup {e}
        /\ ev' = [x \in Events |-> IF x = e THEN Zeroed
                                   ELSE IF x \in more(n) THEN EventOf(tr, t, NULL) ELSE ev[x]]
        /\ last' = [last EXCEPT ![tr] = IF more(n) = {} THEN @ ELSE n[1]]
        /\ calloced' = calloced \cup {n[1]}
  BY DEF PopTimer
<1> DEFINE f == EventOf(tr, t, NULL)
           again == more(n)
<1>3. e \in Live /\ tr \in DOMAIN prog /\ tr \in Triggers
  BY <1>1 DEF QInv, LinkInv, Heads, TypeOK
<1>4. n[1] \in Events \ Live
  BY NewEventsFacts
<1>5. t \in Nat
  BY <1>1, <1>3 DEF Periodic, QInv, TypeOK, Tag, Fields
<1>6. f \in EventFields /\ f.trigger = tr /\ f.next = NULL
  <2> HIDE DEF t, tr
  <2> QED
    BY <1>3, <1>5, EventOfType
<1>7. Zeroed \in EventFields
  BY DEF Zeroed, EventFields
<1>8. again \in {{}, {n[1]}} /\ again \in SUBSET (Events \ Live)
  BY <1>4
<1> HIDE DEF f, t, tr
<1>9. /\ event_q' = (event_q \ {e}) \cup again
      /\ recycle_q' = (recycle_q \ again) \cup ({n[1]} \ again) \cup {e}
      /\ ev' = [x \in Events |-> IF x = e THEN Zeroed ELSE IF x \in again THEN f ELSE ev[x]]
      /\ last' = [last EXCEPT ![tr] = IF again = {} THEN last[tr] ELSE n[1]]
      /\ calloced' = calloced \cup {n[1]}
  BY <1>2 DEF f
<1> HIDE DEF again
<1>10. /\ ev' \in [Events -> EventFields] /\ ev'[e] = Zeroed
       /\ \A x \in again : ev'[x] = f
       /\ \A x \in Events \ again : x # e => ev'[x] = ev[x]
  <2>1. ev \in [Events -> EventFields] /\ e \notin again
    BY <1>3, <1>8 DEF QInv, TypeOK
  <2> QED
    BY <1>6, <1>7, <1>8, <1>9, <2>1
<1>11. /\ last' \in [DOMAIN prog -> Events \cup {NULL}]
       /\ calloced' \subseteq Events /\ recycle_q' \subseteq Events
  BY <1>3, <1>4, <1>9 DEF QInv, TypeOK
<1>12. calloced' \ recycle_q' = (Live \cup again) \ {e}
  BY <1>3, <1>4, <1>8, <1>9 DEF Live
<1>13. QueueOK'
  <2>1. \A x \in again : ev'[x].trigger \in DOMAIN prog /\ ev'[x].next = NULL
    BY <1>3, <1>6, <1>10
  <2>2. next_q' \in {next_q, next_q \cup ({ev[e].next} \ {NULL})}
    BY <1>1 DEF PutNext
  <2> QED
    BY <1>1, <1>8, <1>9, <1>10, <1>11, <1>12, <2>1, <2>2, PopKeeps
<1>14. /\ present' \subseteq DOMAIN prog' /\ store' \in Store
       /\ template' \in [DOMAIN prog' -> Tokens \cup {NULL}]
  BY <1>1, <1>3, TriggerKeeps
<1>15. OtherType'
  BY <1>1, <1>14 DEF OtherType, QInv, TypeOK
<1> QED
  BY <1>13, <1>15, Together, PTL

(* The rests of the chains go back into the queue.                           *)
LEMMA PopDoneStep ==
  ASSUME QInv, PopDone
  PROVE  QInv'
<1>1. /\ event_q' = event_q \cup next_q /\ next_q' = {} /\ popping' = FALSE
      /\ UNCHANGED <<prog, current_tag, stop_tag, ev, calloced, recycle_q, last, template,
                     present, asked, store>>
  BY DEF PopDone
<1>2. Live' = Live /\ Heads' = Heads
  BY <1>1 DEF Live, Heads
<1>3. TypeOK'
  BY <1>1 DEF QInv, TypeOK
<1>4. LinkInv'
  BY <1>1, <1>2 DEF QInv, LinkInv
<1> QED
  BY <1>1, <1>3, <1>4 DEF QInv

(* The queue has a time at its head, and the next tag is a tag.              *)
LEMMA NextTagType ==
  ASSUME QInv
  PROVE  NextTag \in Tag
<1>1. CASE event_q = {}
  BY <1>1 DEF NextTag, QInv, TypeOK
<1>2. CASE event_q # {}
  <2> DEFINE times == {ev[h].time : h \in event_q}
             first == CHOOSE e \in event_q : Earliest(e)
  <2>1. \A h \in event_q : h \in Events /\ ev[h].time \in Nat
    BY DEF QInv, TypeOK, EventFields
  <2>2. PICK t \in times : \A u \in times : t <= u
    <3>1. times \in SUBSET Nat /\ times # {}
      BY <1>2, <2>1
    <3> HIDE DEF times
    <3> QED
      BY <3>1, LeastNatural
  <2>3. \E e \in event_q : Earliest(e)
    BY <2>2 DEF Earliest
  <2>4. first \in event_q
    BY <2>3
  <2> DEFINE at == ev[first].time
             g == TagOf(at, HeadMicrostep(at))
  <2>5. NextTag = TagMin(g, stop_tag)
    BY <1>2 DEF NextTag
  <2> HIDE DEF first
  <2>6. at \in Nat
    BY <2>1, <2>4
  <2> HIDE DEF at
  <2>7. HeadMicrostep(at) \in Nat
    BY DEF HeadMicrostep, QInv, TypeOK, Tag
  <2>8. g \in Tag /\ stop_tag \in Tag
    BY <2>6, <2>7, TagOfType DEF QInv, TypeOK
  <2> HIDE DEF g
  <2> QED
    BY <2>5, <2>8, TagMinimum
<1> QED
  BY <1>1, <1>2

(* The next tag begins, and the tokens of the last one are released.         *)
LEMMA AdvanceStep ==
  ASSUME QInv, Advance
  PROVE  QInv'
<1>1. /\ UNCHANGED <<prog, stop_tag, queueVars, template, asked>>
      /\ current_tag' = IF current_tag.time < NextTag.time THEN TagOf(NextTag.time, 0)
                        ELSE NextMicrostep
      /\ popping' = TRUE /\ StartTimeStep
  BY DEF Advance
<1>2. current_tag' \in Tag
  <2>1. NextTag.time \in Nat /\ current_tag.time \in Nat /\ current_tag.microstep + 1 \in Nat
    BY NextTagType DEF QInv, TypeOK, Tag
  <2>2. TagOf(NextTag.time, 0) \in Tag /\ NextMicrostep \in Tag
    BY <2>1, TagOfType DEF NextMicrostep
  <2> QED
    BY <1>1, <2>2
<1>3. store' \in Store
  <2> DEFINE S == {tr \in present : prog[tr].payload}
  <2>1. store' = ReleaseAll(template, store, S)
    BY <1>1 DEF StartTimeStep, ReleaseAll
  <2>2. IsFiniteSet(S)
    <3>1. IsFiniteSet(DOMAIN prog) /\ S \in SUBSET DOMAIN prog
      BY ProgramsAssumption DEF QInv, TypeOK
    <3> QED
      BY <3>1, FS_Subset
  <2>3. \A x \in S : template[x] \in Tokens \cup {NULL}
    BY DEF QInv, TypeOK
  <2>4. store \in Store /\ S \in SUBSET S
    BY DEF QInv, TypeOK
  <2> HIDE DEF S
  <2>5. PICK it : Releases(it, template, store, S) /\ ReleaseAll(template, store, S) = it[S]
    BY <2>2, <2>3, <2>4, FoldReleases
  <2> QED
    BY <2>1, <2>4, <2>5 DEF Releases
<1>4. present' \subseteq DOMAIN prog'
  BY <1>1 DEF StartTimeStep
<1>5. QueueOK'
  BY <1>1 DEF queueVars, QueueOK, QueueType, QInv, TypeOK, LinkInv, Live, Heads
<1>6. OtherType'
  BY <1>1, <1>2, <1>3, <1>4 DEF OtherType, QInv, TypeOK
<1> QED
  BY <1>5, <1>6, Together, PTL

-----------------------------------------------------------------------------
(* The invariant *)

(* The calls of lf_schedule.                                                 *)
LEMMA ScheduleStep ==
  ASSUME QInv, NEW tr \in DOMAIN prog, NEW d \in Delays,
         ScheduleVoid(tr, d) \/ ScheduleValue(tr, d) \/ ScheduleCopy(tr, d)
  PROVE  QInv'
<1>1. UNCHANGED <<prog, current_tag, stop_tag, next_q, popping, template, present, asked>>
  BY DEF ScheduleVoid, ScheduleValue, ScheduleCopy, Calling
<1>2. d \in Nat /\ store \in Store
  BY QueueAssumption DEF QInv, TypeOK
<1>3. QueueOK' /\ store' \in Store
  <2>1. CASE ScheduleVoid(tr, d)
    <3>1. LfSchedule(tr, d, store, NULL) /\ NULL \in Tokens \cup {NULL}
      BY <2>1 DEF ScheduleVoid
    <3> QED
      BY <1>1, <1>2, <3>1, LfScheduleKeeps
  <2>2. CASE ScheduleValue(tr, d)
    <3> DEFINE with(t) == [CreateToken(store, t) EXCEPT !.token[t].value = TRUE]
    <3>1. PICK t \in NewTokens(store) : LfSchedule(tr, d, with(t), t)
      BY <2>2 DEF ScheduleValue
    <3>2. with(t) \in Store /\ t \in Tokens \cup {NULL}
      BY <1>2, NewTokenType
    <3> HIDE DEF with
    <3> QED
      BY <1>1, <1>2, <3>1, <3>2, LfScheduleKeeps
  <2>3. CASE ScheduleCopy(tr, d)
    <3>1. template[tr] \in Tokens
      BY <2>3 DEF ScheduleCopy, QInv, TypeOK
    <3>2. PICK u \in InitializeToken(store, template[tr]) : LfSchedule(tr, d, u[1], u[2])
      BY <2>3 DEF ScheduleCopy
    <3>3. PICK v \in IF store.token[template[tr]].ref_count = 0 THEN {<<store, template[tr]>>}
                     ELSE {<<CreateToken(store, t), t>> : t \in NewTokens(store)} :
            u = <<[v[1] EXCEPT !.token[v[2]].value = TRUE], v[2]>>
      BY <3>2 DEF InitializeToken
    <3>4. v[1] \in Store /\ v[2] \in Tokens
      <4>1. CASE v = <<store, template[tr]>>
        BY <1>2, <3>1, <4>1
      <4>2. CASE \E t \in NewTokens(store) : v = <<CreateToken(store, t), t>>
        BY <1>2, <4>2, CreateTokenFields
      <4> QED
        BY <3>3, <4>1, <4>2
    <3> DEFINE w == [v[1] EXCEPT !.token[v[2]].value = TRUE]
    <3>5. w \in Store /\ u[1] = w /\ u[2] \in Tokens \cup {NULL}
      BY <3>3, <3>4, ValueFields
    <3> HIDE DEF w
    <3> QED
      BY <1>1, <1>2, <3>2, <3>5, LfScheduleKeeps
  <2> QED
    BY <2>1, <2>2, <2>3
<1>4. OtherType'
  BY <1>1, <1>3 DEF OtherType, QInv, TypeOK
<1> QED
  BY <1>3, <1>4, Together, PTL

(* Network input for a later tag,                                            *)
LEMMA ScheduleAtTagStep ==
  ASSUME QInv, NEW tr \in DOMAIN prog, NEW g \in NetworkTags(tr), ScheduleAtTag(tr, g)
  PROVE  QInv'
<1>1. QueueOK' /\ store' \in Store
  BY ScheduleAtTagKeeps
<1>2. UNCHANGED <<prog, current_tag, stop_tag, next_q, popping, template, present>>
  BY DEF ScheduleAtTag, Calling
<1>4. asked' \in [DOMAIN prog' -> Tag]
  <2>1. g \in Tag /\ asked' = [asked EXCEPT ![tr] = g]
    BY QueueAssumption DEF NetworkTags, Tag, QInv, TypeOK, ScheduleAtTag
  <2> QED
    BY <1>2, <2>1 DEF QInv, TypeOK
<1>3. OtherType'
  BY <1>1, <1>2, <1>4 DEF OtherType, QInv, TypeOK
<1> QED
  BY <1>1, <1>3, Together, PTL

(* and for the current one.                                                  *)
LEMMA NetworkInputStep ==
  ASSUME QInv, NEW tr \in DOMAIN prog, InsertReactionsForTrigger(tr)
  PROVE  QInv'
<1> DEFINE with(t) == [CreateToken(store, t) EXCEPT !.token[t].value = TRUE]
<1>1. UNCHANGED <<prog, current_tag, stop_tag, next_q, popping, queueVars, asked>>
  BY DEF InsertReactionsForTrigger, Calling
<1>2. PICK t \in NewTokens(store) :
        /\ store' = ReplaceTemplate(AddReference(with(t), t), template[tr], t)
        /\ template' = [template EXCEPT ![tr] = t]
  BY DEF InsertReactionsForTrigger
<1> DEFINE s == AddReference(with(t), t)
<1>3. t \in Tokens /\ s \in Store
  BY NewTokenType DEF QInv, TypeOK
<1>4. store' = ReplaceTemplate(s, template[tr], t)
  BY <1>2
<1> HIDE DEF s
<1>5. template[tr] \in Tokens \cup {NULL}
  BY DEF QInv, TypeOK
<1>6. store' \in Store
  BY <1>3, <1>4, <1>5, ReplaceTemplateType
<1>7. present' \subseteq DOMAIN prog' /\ template' \in [DOMAIN prog' -> Tokens \cup {NULL}]
  BY <1>1, <1>2, <1>3 DEF InsertReactionsForTrigger, QInv, TypeOK
<1>8. QueueOK'
  BY <1>1 DEF queueVars, QueueOK, QueueType, QInv, TypeOK, LinkInv, Live, Heads
<1>9. OtherType'
  BY <1>1, <1>6, <1>7 DEF OtherType, QInv, TypeOK
<1> QED
  BY <1>8, <1>9, Together, PTL

(* At first every event in the queue is the first one of a timer.            *)
LEMMA InitEvents ==
  ASSUME Init
  PROVE  /\ event_q \subseteq Events
         /\ \A e \in Events :
              IF e \in event_q
              THEN /\ ev[e] \in EventFields /\ ev[e].trigger \in DOMAIN prog /\ ev[e].next = NULL
                   /\ ev[e].token = NULL
              ELSE ev[e] = Zeroed
<1>1. PICK first \in [{tr \in Timers : FirstDelay(tr) > 0} -> Events] :
        /\ Injective(first)
        /\ event_q = {first[tr] : tr \in DOMAIN first}
        /\ ev = [e \in Events |->
                   IF \E tr \in DOMAIN first : first[tr] = e
                   THEN LET tr == CHOOSE x \in DOMAIN first : first[x] = e
                        IN EventOf(tr, StartTime + FirstDelay(tr), NULL)
                   ELSE Zeroed]
  BY DEF Init
<1> DEFINE of(e) == CHOOSE x \in DOMAIN first : first[x] = e
           at(e) == StartTime + FirstDelay(of(e))
<1>2. \A tr \in DOMAIN prog : tr \in Triggers /\ prog[tr] \in Fields
  BY ProgramsAssumption DEF Init
<1>3. ASSUME NEW e \in Events
      PROVE  IF e \in event_q
             THEN /\ ev[e] \in EventFields /\ ev[e].trigger \in DOMAIN prog /\ ev[e].next = NULL
                  /\ ev[e].token = NULL
             ELSE ev[e] = Zeroed
  <2>1. CASE e \in event_q
    <3>1. \E x \in DOMAIN first : first[x] = e
      BY <1>1, <2>1
    <3>2. of(e) \in DOMAIN first
      BY <3>1
    <3>3. ev[e] = EventOf(of(e), at(e), NULL)
      BY <1>1, <3>1
    <3> HIDE DEF of
    <3>4. of(e) \in DOMAIN prog /\ FirstDelay(of(e)) > 0
      BY <3>2 DEF Timers
    <3>5. FirstDelay(of(e)) \in Nat
      BY <1>2, <3>4 DEF FirstDelay, Fields
    <3>6. at(e) \in Nat
      BY <3>5, QueueAssumption
    <3> HIDE DEF at
    <3> QED
      BY <1>2, <2>1, <3>3, <3>4, <3>6, EventOfType
  <2>2. CASE e \notin event_q
    BY <1>1, <2>2
  <2> QED
    BY <2>1, <2>2
<1> QED
  BY <1>1, <1>3

(* The invariant holds at first.                                             *)
LEMMA InitHolds ==
  ASSUME Init
  PROVE  QInv
<1> DEFINE own == CHOOSE f \in Templates(prog) : TRUE
<1>2. /\ prog \in Programs /\ stop_tag \in StopTags /\ current_tag = TagOf(StartTime, 0)
      /\ calloced = event_q /\ next_q = {} /\ recycle_q = {}
      /\ last = [tr \in DOMAIN prog |-> NULL]
      /\ template = [tr \in DOMAIN prog |-> IF prog[tr].payload THEN own[tr] ELSE NULL]
      /\ store = [token |-> [t \in Tokens |-> Blank],
                  allocated |-> {own[tr] : tr \in DOMAIN own},
                  bin |-> <<>>, count |-> 0]
      /\ present = {} /\ popping = FALSE
  BY DEF Init
<1>3. \A tr \in DOMAIN prog : tr \in Triggers /\ prog[tr] \in Fields
  BY <1>2, ProgramsAssumption
<1>4. own \in [{tr \in DOMAIN prog : prog[tr].payload} -> Tokens]
  <2>1. own \in Templates(prog)
    BY <1>2, ProgramsAssumption
  <2> HIDE DEF own
  <2> QED
    BY <2>1 DEF Templates
<1> HIDE DEF own
<1>5. template \in [DOMAIN prog -> Tokens \cup {NULL}]
  BY <1>2, <1>4
<1>6. store \in Store
  <2>1. [t \in Tokens |-> Blank] \in [Tokens -> TokenState]
    BY DEF Blank, TokenState
  <2>2. {own[tr] : tr \in DOMAIN own} \in SUBSET Tokens
    BY <1>4
  <2>3. <<>> \in Seq(Tokens)
    OBVIOUS
  <2> QED
    BY <1>2, <2>1, <2>2, <2>3 DEF Store
<1>7. current_tag \in Tag /\ stop_tag \in Tag
  BY <1>2, QueueAssumption, TagOfType
<1>8. /\ event_q \subseteq Events
      /\ \A e \in Events :
           IF e \in event_q
           THEN /\ ev[e] \in EventFields /\ ev[e].trigger \in DOMAIN prog /\ ev[e].next = NULL
                /\ ev[e].token = NULL
           ELSE ev[e] = Zeroed
  BY InitEvents
<1>9. event_q \subseteq Events
  BY <1>8
<1>10. ev \in [Events -> EventFields]
  <2>1. Zeroed \in EventFields
    BY DEF Zeroed, EventFields
  <2>2. \A e \in Events : ev[e] \in EventFields
    BY <1>8, <2>1
  <2>3. ev = [e \in Events |-> ev[e]]
    BY DEF Init
  <2> QED
    BY <2>2, <2>3
<1>14. asked \in [DOMAIN prog -> Tag]
  BY <1>7 DEF Init
<1>11. TypeOK
  BY <1>2, <1>3, <1>5, <1>6, <1>7, <1>9, <1>10, <1>14 DEF TypeOK
<1>12. Live = event_q /\ Heads = event_q
  BY <1>2 DEF Live, Heads
<1>13. LinkInv
  BY <1>2, <1>8, <1>9, <1>12, QueueAssumption DEF LinkInv
<1> QED
  BY <1>2, <1>11, <1>13 DEF QInv

(* The invariant is inductive. *)
LEMMA StepHolds ==
  ASSUME QInv, [Next]_vars
  PROVE  QInv'
<1>1. CASE UNCHANGED vars
  BY <1>1 DEF vars, queueVars, QInv, TypeOK, LinkInv, Live, Heads
<1>2. ASSUME NEW tr \in DOMAIN prog, NEW d \in Delays,
             ScheduleVoid(tr, d) \/ ScheduleValue(tr, d) \/ ScheduleCopy(tr, d)
      PROVE  QInv'
  BY <1>2, ScheduleStep
<1>3. ASSUME NEW tr \in DOMAIN prog, InsertReactionsForTrigger(tr)
      PROVE  QInv'
  BY <1>3, NetworkInputStep
<1>4. ASSUME NEW tr \in DOMAIN prog, NEW g \in NetworkTags(tr), ScheduleAtTag(tr, g)
      PROVE  QInv'
  BY <1>4, ScheduleAtTagStep
<1>5. CASE Advance
  BY <1>5, AdvanceStep
<1>6. ASSUME NEW e \in Events, PopDummy(e) \/ PopEvent(e)
      PROVE  QInv'
  BY <1>6, PopStep
<1>7. ASSUME NEW e \in Events, PopTimer(e)
      PROVE  QInv'
  BY <1>7, PopTimerStep
<1>8. CASE PopDone
  BY <1>8, PopDoneStep
<1>9. CASE Terminated
  BY <1>1, <1>9 DEF Terminated
<1> QED
  BY <1>1, <1>2, <1>3, <1>4, <1>5, <1>6, <1>7, <1>8, <1>9 DEF Next

(* Every event struct is in one place: in one chain at one position, or      *)
(* waiting for reuse, however events are scheduled, hooked, popped, cleared  *)
(* and handed out again (_lf_schedule to _lf_recycle_event).                 *)
THEOREM EventsAreAccounted == Spec => []EventsAccounted
<1>1. Init => QInv
  BY InitHolds
<1>2. QInv /\ [Next]_vars => QInv'
  BY StepHolds
<1>3. QInv => EventsAccounted
  BY OnePlace DEF EventsAccounted, QInv
<1> QED
  BY <1>1, <1>2, <1>3, PTL DEF Spec

-----------------------------------------------------------------------------
(* The tokens in use *)

(* A token that create_token may hand out: in the bin, or not allocated.     *)
Spare(s, t) == InBin(s, t) \/ t \notin s.allocated

(* The store s when the tokens H have a holder, the tokens T are templates,  *)
(* and n tokens were allocated before the counter began.                     *)
Sound(s, H, T, n) ==
  /\ s \in Store
  /\ Injective(s.bin) /\ \A i \in DOMAIN s.bin : s.bin[i] \in s.allocated
  /\ \A t \in Tokens : Spare(s, t) => s.token[t].ref_count = 0 /\ t \notin T
  /\ \A t \in H : t \in Tokens /\ s.token[t].ref_count >= 1
  /\ \A t \in T : t \in Tokens /\ ~s.token[t].ok_to_free
  /\ s.count = Cardinality(s.allocated) - Len(s.bin) - n

(* The bin, when a token is put in front of it.                              *)
LEMMA BinPush ==
  ASSUME NEW b \in Seq(Tokens), Injective(b), NEW t \in Tokens, \A i \in DOMAIN b : b[i] # t
  PROVE  LET c == <<t>> \o b
         IN  /\ Len(c) = Len(b) + 1 /\ Injective(c)
             /\ \A k : (\E i \in DOMAIN c : c[i] = k) <=> (k = t \/ \E i \in DOMAIN b : b[i] = k)
<1> DEFINE c == <<t>> \o b
<1>1. /\ c \in Seq(Tokens) /\ Len(c) = 1 + Len(b)
      /\ \A i \in 1 .. 1 + Len(b) : c[i] = IF i <= 1 THEN <<t>>[i] ELSE b[i - 1]
  <2>1. <<t>> \in Seq(Tokens) /\ Len(<<t>>) = 1
    OBVIOUS
  <2> QED
    BY <2>1, ConcatProperties
<1>2. Len(b) \in Nat /\ DOMAIN b = 1 .. Len(b) /\ DOMAIN c = 1 .. 1 + Len(b)
  BY <1>1, LenProperties
<1> HIDE DEF c
<1>3. c[1] = t /\ 1 \in DOMAIN c
  BY <1>1, <1>2
<1>4. \A i \in DOMAIN c : i # 1 => i - 1 \in DOMAIN b /\ c[i] = b[i - 1]
  BY <1>1, <1>2
<1>5. \A i \in DOMAIN b : i + 1 \in DOMAIN c /\ c[i + 1] = b[i]
  BY <1>1, <1>2
<1>6. Injective(c)
  <2> SUFFICES ASSUME NEW x \in DOMAIN c, NEW y \in DOMAIN c, c[x] = c[y]
               PROVE  x = y
    BY DEF Injective
  <2>1. CASE x = 1 \/ y = 1
    BY <1>3, <1>4, <2>1
  <2>2. CASE x # 1 /\ y # 1
    <3>1. x - 1 = y - 1
      BY <1>4, <2>2 DEF Injective
    <3> QED
      BY <1>2, <3>1
  <2> QED
    BY <2>1, <2>2
<1>7. ASSUME NEW k
      PROVE  (\E i \in DOMAIN c : c[i] = k) <=> (k = t \/ \E i \in DOMAIN b : b[i] = k)
  BY <1>3, <1>4, <1>5
<1>8. Len(c) = Len(b) + 1
  BY <1>1, <1>2
<1> QED
  BY <1>6, <1>7, <1>8 DEF c

(* The bin, when the token at its head is taken.                             *)
LEMMA BinPull ==
  ASSUME NEW b \in Seq(Tokens), Injective(b), b # <<>>
  PROVE  LET c == Tail(b)
         IN  /\ Len(c) = Len(b) - 1 /\ Injective(c)
             /\ \A k : (\E i \in DOMAIN c : c[i] = k)
                         <=> (k # b[1] /\ \E i \in DOMAIN b : b[i] = k)
<1> DEFINE c == Tail(b)
<1>1. c \in Seq(Tokens) /\ Len(c) = Len(b) - 1 /\ \A i \in 1 .. Len(c) : c[i] = b[i + 1]
  BY HeadTailProperties
<1>2. /\ Len(b) \in Nat /\ DOMAIN b = 1 .. Len(b)
      /\ Len(c) \in Nat /\ DOMAIN c = 1 .. Len(c)
  BY <1>1, LenProperties
<1> HIDE DEF c
<1>3. \A i \in DOMAIN c : i + 1 \in DOMAIN b /\ i + 1 # 1 /\ c[i] = b[i + 1]
  BY <1>1, <1>2
<1>4. \A i \in DOMAIN b : i # 1 => i - 1 \in DOMAIN c /\ c[i - 1] = b[i]
  <2> TAKE i \in DOMAIN b
  <2>1. i # 1 => i - 1 \in 1 .. Len(c) /\ (i - 1) + 1 = i
    BY <1>1, <1>2
  <2> QED
    BY <1>1, <1>2, <2>1
<1>5. Injective(c)
  <2> SUFFICES ASSUME NEW x \in DOMAIN c, NEW y \in DOMAIN c, c[x] = c[y]
               PROVE  x = y
    BY DEF Injective
  <2>1. x + 1 = y + 1
    BY <1>3 DEF Injective
  <2> QED
    BY <1>2, <2>1
<1>6. 1 \in DOMAIN b
  BY <1>1, <1>2
<1>7. ASSUME NEW k
      PROVE  (\E i \in DOMAIN c : c[i] = k) <=> (k # b[1] /\ \E i \in DOMAIN b : b[i] = k)
  BY <1>3, <1>4, <1>6 DEF Injective
<1> QED
  BY <1>1, <1>5, <1>7 DEF c

(* Fewer holders need fewer references.                                      *)
LEMMA FewerHolders ==
  ASSUME NEW s, NEW H, NEW T, NEW n, Sound(s, H, T, n), NEW G \in SUBSET H
  PROVE  Sound(s, G, T, n)
BY DEF Sound

(* A token of a holder is in use, and not spare.                             *)
LEMMA NotSpare ==
  ASSUME NEW s, NEW H, NEW T, NEW n, Sound(s, H, T, n), NEW t \in Tokens,
         s.token[t].ref_count >= 1 \/ t \in T
  PROVE  ~Spare(s, t)
BY DEF Sound

(* A holder gives its token back.                                            *)
LEMMA DoneSound ==
  ASSUME NEW s, NEW H, NEW T, NEW n \in Int, Sound(s, H, T, n), NEW t \in H
  PROVE  Sound(DoneUsing(s, t), H \ {t}, T, n)
<1> DEFINE u == DoneUsing(s, t)
           freed == s.token[t].ref_count = 1 /\ s.token[t].ok_to_free
           kept == Len(s.bin) < BinLimit
<1>1. s \in Store /\ t \in Tokens /\ s.token[t].ref_count \in Nat /\ s.token[t].ref_count > 0
  <2>1. s \in Store /\ t \in Tokens /\ s.token[t].ref_count >= 1
    BY DEF Sound
  <2>2. s.token[t].ref_count \in Nat
    BY <2>1 DEF Store, TokenState
  <2> QED
    BY <2>1, <2>2
<1>2. /\ u \in Store
      /\ \A k \in Tokens \ {t} : u.token[k] = s.token[k]
      /\ u.token[t].ref_count = s.token[t].ref_count - 1
      /\ ~s.token[t].ok_to_free => ~u.token[t].ok_to_free
      /\ u.allocated = IF freed /\ ~kept THEN s.allocated \ {t} ELSE s.allocated
      /\ u.bin = IF freed /\ kept THEN <<t>> \o s.bin ELSE s.bin
      /\ u.count = IF freed THEN s.count - 1 ELSE s.count
  BY <1>1, DoneUsingFields
<1> HIDE DEF u
<1>3. t \in s.allocated /\ ~InBin(s, t) /\ (freed => t \notin T)
  <2>1. ~Spare(s, t)
    BY <1>1 DEF Sound
  <2> QED
    BY <2>1 DEF Sound, Spare
<1>4. /\ s.bin \in Seq(Tokens) /\ Len(s.bin) \in Nat /\ s.allocated \in SUBSET Tokens
      /\ s.count \in Int
  <2>1. s.bin \in Seq(Tokens) /\ s.allocated \in SUBSET Tokens /\ s.count \in Int
    BY <1>1 DEF Store
  <2> QED
    BY <2>1, LenProperties
<1>5. IsFiniteSet(s.allocated) /\ Cardinality(s.allocated) \in Nat
  BY <1>4, QueueAssumption, FS_Subset, FS_CardinalityType
<1>6. \A k \in H \ {t} : k \in Tokens /\ u.token[k].ref_count >= 1
  BY <1>2 DEF Sound
<1>7. \A k \in T : k \in Tokens /\ ~u.token[k].ok_to_free
  BY <1>2 DEF Sound
<1>8. u.count = Cardinality(u.allocated) - Len(u.bin) - n
  <2>1. s.count = Cardinality(s.allocated) - Len(s.bin) - n
    BY DEF Sound
  <2>2. CASE ~freed
    BY <1>2, <2>1, <2>2
  <2>3. CASE freed /\ kept
    <3>1. Len(<<t>> \o s.bin) = Len(s.bin) + 1
      <4>1. Injective(s.bin) /\ \A i \in DOMAIN s.bin : s.bin[i] # t
        BY <1>3 DEF Sound, InBin
      <4> QED
        BY <1>1, <1>4, <4>1, BinPush
    <3> QED
      BY <1>2, <1>4, <1>5, <2>1, <2>3, <3>1
  <2>4. CASE freed /\ ~kept
    <3>1. Cardinality(s.allocated \ {t}) = Cardinality(s.allocated) - 1
      BY <1>3, <1>5, FS_RemoveElement
    <3> QED
      BY <1>2, <1>4, <1>5, <2>1, <2>4, <3>1
  <2> QED
    BY <2>2, <2>3, <2>4
<1>9. /\ Injective(u.bin)
      /\ \A k : InBin(u, k) <=> (InBin(s, k) \/ (k = t /\ freed /\ kept))
  <2>1. CASE freed /\ kept
    <3>1. Injective(s.bin) /\ \A i \in DOMAIN s.bin : s.bin[i] # t
      BY <1>3 DEF Sound, InBin
    <3> DEFINE c == <<t>> \o s.bin
    <3>2. /\ Injective(c)
          /\ \A k : (\E i \in DOMAIN c : c[i] = k) <=> (k = t \/ InBin(s, k))
      BY <1>1, <1>4, <3>1, BinPush DEF InBin
    <3>3. u.bin = c
      BY <1>2, <2>1
    <3> HIDE DEF c, u
    <3>4. \A k : InBin(u, k) <=> (k = t \/ InBin(s, k))
      BY <3>2, <3>3 DEF InBin
    <3> QED
      BY <2>1, <3>2, <3>3, <3>4
  <2>2. CASE ~ (freed /\ kept)
    <3>1. u.bin = s.bin /\ Injective(s.bin)
      BY <1>2, <2>2 DEF Sound
    <3> QED
      BY <2>2, <3>1 DEF InBin
  <2> QED
    BY <2>1, <2>2
<1>10. \A i \in DOMAIN u.bin : u.bin[i] \in u.allocated
  <2> SUFFICES ASSUME NEW k, InBin(u, k)
               PROVE  k \in u.allocated
    BY DEF InBin
  <2>1. CASE InBin(s, k)
    <3>1. k \in s.allocated /\ k # t
      BY <1>3, <2>1 DEF Sound, InBin
    <3> QED
      BY <1>2, <3>1
  <2>2. CASE k = t /\ freed /\ kept
    BY <1>2, <1>3, <2>2
  <2> QED
    BY <1>9, <2>1, <2>2
<1>11. ASSUME NEW k \in Tokens, Spare(u, k)
       PROVE  u.token[k].ref_count = 0 /\ k \notin T
  <2>1. CASE k = t
    <3>1. freed
      BY <1>2, <1>3, <1>9, <1>11, <2>1 DEF Spare
    <3> QED
      BY <1>2, <1>3, <2>1, <3>1
  <2>2. CASE k # t
    <3>1. Spare(s, k)
      BY <1>2, <1>9, <1>11, <2>2 DEF Spare
    <3> QED
      BY <1>2, <2>2, <3>1 DEF Sound
  <2> QED
    BY <2>1, <2>2
<1>12. Sound(u, H \ {t}, T, n)
  BY <1>2, <1>6, <1>7, <1>8, <1>9, <1>10, <1>11 DEF Sound
<1> QED
  BY <1>12 DEF u

(* A change that leaves the bin and the memory alone.                        *)
LEMMA SameBin ==
  ASSUME NEW s, NEW H, NEW T, NEW n, Sound(s, H, T, n), NEW u \in Store,
         u.allocated = s.allocated, u.bin = s.bin, u.count = s.count, NEW G, NEW R,
         \A k \in Tokens : Spare(s, k) => u.token[k].ref_count = 0 /\ k \notin R,
         \A k \in G : k \in Tokens /\ u.token[k].ref_count >= 1,
         \A k \in R : k \in Tokens /\ ~u.token[k].ok_to_free
  PROVE  Sound(u, G, R, n)
<1>1. \A k : Spare(u, k) <=> Spare(s, k)
  BY DEF Spare, InBin
<1> QED
  BY <1>1 DEF Sound

(* A token gets a holder.                                                    *)
LEMMA AddSound ==
  ASSUME NEW s, NEW H, NEW T, NEW n, Sound(s, H, T, n), NEW t \in Tokens, ~Spare(s, t)
  PROVE  Sound(AddReference(s, t), H \cup {t}, T, n)
<1> DEFINE u == AddReference(s, t)
           G == H \cup {t}
<1>1. s \in Store
  BY DEF Sound
<1>2. /\ u \in Store
      /\ \A k \in Tokens \ {t} : u.token[k] = s.token[k]
      /\ u.token[t].ref_count = s.token[t].ref_count + 1
      /\ u.token[t].ok_to_free = s.token[t].ok_to_free
      /\ u.allocated = s.allocated /\ u.bin = s.bin /\ u.count = s.count
  BY <1>1, AddReferenceFields
<1> HIDE DEF u
<1>3. s.token[t].ref_count \in Nat
  BY <1>1 DEF Store, TokenState
<1>4. /\ \A k \in Tokens : Spare(s, k) => u.token[k].ref_count = 0 /\ k \notin T
      /\ \A k \in G : k \in Tokens /\ u.token[k].ref_count >= 1
      /\ \A k \in T : k \in Tokens /\ ~u.token[k].ok_to_free
  BY <1>2, <1>3 DEF Sound
<1> HIDE DEF G
<1>5. Sound(u, G, T, n)
  BY <1>2, <1>4, SameBin
<1> QED
  BY <1>5 DEF u, G

(* What create_token returns has no holder and is no template, and is spare  *)
(* no longer.                                                                *)
LEMMA CreateSound ==
  ASSUME NEW s, NEW H, NEW T, NEW n \in Int, Sound(s, H, T, n), NEW t \in NewTokens(s)
  PROVE  /\ t \in Tokens /\ t \notin H \cup T
         /\ Sound(CreateToken(s, t), H, T, n) /\ ~Spare(CreateToken(s, t), t)
<1> DEFINE u == CreateToken(s, t)
<1>1. s \in Store
  BY DEF Sound
<1>2. /\ u \in Store
      /\ t \in Tokens
      /\ IF s.bin = <<>> THEN t \notin s.allocated ELSE t = s.bin[1] /\ 1 \in DOMAIN s.bin
      /\ \A k \in Tokens \ {t} : u.token[k] = s.token[k]
      /\ u.token[t].ref_count = 0 /\ u.token[t].ok_to_free
      /\ u.allocated = s.allocated \cup {t} /\ u.count = s.count + 1
      /\ u.bin = IF s.bin = <<>> THEN s.bin ELSE Tail(s.bin)
  BY <1>1, CreateTokenFields
<1> HIDE DEF u
<1>3. Spare(s, t)
  BY <1>2 DEF Spare, InBin
<1>4. t \notin H /\ t \notin T
  BY <1>2, <1>3 DEF Sound
<1>5. /\ s.bin \in Seq(Tokens) /\ Len(s.bin) \in Nat /\ s.allocated \in SUBSET Tokens
      /\ s.count \in Int
  <2>1. s.bin \in Seq(Tokens) /\ s.allocated \in SUBSET Tokens /\ s.count \in Int
    BY <1>1 DEF Store
  <2> QED
    BY <2>1, LenProperties
<1>6. IsFiniteSet(s.allocated) /\ Cardinality(s.allocated) \in Nat
  BY <1>5, QueueAssumption, FS_Subset, FS_CardinalityType
<1>7. /\ Injective(u.bin)
      /\ Len(u.bin) = IF s.bin = <<>> THEN Len(s.bin) ELSE Len(s.bin) - 1
      /\ \A k : InBin(u, k) <=> (InBin(s, k) /\ k # t)
  <2>1. CASE s.bin = <<>>
    <3>1. u.bin = s.bin /\ Injective(s.bin) /\ ~InBin(s, t)
      BY <1>2, <2>1 DEF Sound, InBin
    <3> QED
      BY <2>1, <3>1 DEF InBin
  <2>2. CASE s.bin # <<>>
    <3>1. Injective(s.bin)
      BY DEF Sound
    <3>2. LET c == Tail(s.bin)
          IN  /\ Len(c) = Len(s.bin) - 1 /\ Injective(c)
              /\ \A k : (\E i \in DOMAIN c : c[i] = k)
                          <=> (k # s.bin[1] /\ \E i \in DOMAIN s.bin : s.bin[i] = k)
      BY <1>5, <2>2, <3>1, BinPull
    <3>3. u.bin = Tail(s.bin) /\ t = s.bin[1]
      BY <1>2, <2>2
    <3> QED
      BY <2>2, <3>2, <3>3 DEF InBin
  <2> QED
    BY <2>1, <2>2
<1>8. u.count = Cardinality(u.allocated) - Len(u.bin) - n
  <2>1. s.count = Cardinality(s.allocated) - Len(s.bin) - n
    BY DEF Sound
  <2>2. Cardinality(s.allocated \cup {t}) =
          IF t \in s.allocated THEN Cardinality(s.allocated) ELSE Cardinality(s.allocated) + 1
    BY <1>6, FS_AddElement
  <2>3. s.bin # <<>> => t \in s.allocated
    BY <1>2 DEF Sound
  <2>4. CASE s.bin = <<>>
    BY <1>2, <1>5, <1>6, <1>7, <2>1, <2>2, <2>4
  <2>5. CASE s.bin # <<>>
    BY <1>2, <1>5, <1>6, <1>7, <2>1, <2>2, <2>3, <2>5
  <2> QED
    BY <2>4, <2>5
<1>9. \A i \in DOMAIN u.bin : u.bin[i] \in u.allocated
  <2> SUFFICES ASSUME NEW k, InBin(u, k)
               PROVE  k \in u.allocated
    BY DEF InBin
  <2>1. k \in s.allocated
    BY <1>7 DEF Sound, InBin
  <2> QED
    BY <1>2, <2>1
<1>10. \A k : Spare(u, k) <=> (Spare(s, k) /\ k # t)
  BY <1>2, <1>7 DEF Spare
<1>11. /\ \A k \in Tokens : Spare(u, k) => u.token[k].ref_count = 0 /\ k \notin T
       /\ \A k \in H : k \in Tokens /\ u.token[k].ref_count >= 1
       /\ \A k \in T : k \in Tokens /\ ~u.token[k].ok_to_free
  BY <1>2, <1>4, <1>10 DEF Sound
<1>12. Sound(u, H, T, n)
  BY <1>2, <1>7, <1>8, <1>9, <1>11 DEF Sound
<1> QED
  BY <1>2, <1>4, <1>10, <1>12 DEF u

(* The payload does not matter.                                              *)
LEMMA ValueSound ==
  ASSUME NEW s, NEW H, NEW T, NEW n, Sound(s, H, T, n), NEW t \in Tokens
  PROVE  LET u == [s EXCEPT !.token[t].value = TRUE]
         IN  Sound(u, H, T, n) /\ \A k : Spare(u, k) <=> Spare(s, k)
<1> DEFINE u == [s EXCEPT !.token[t].value = TRUE]
<1>1. s \in Store
  BY DEF Sound
<1>2. /\ u \in Store
      /\ \A k \in Tokens : /\ u.token[k].ref_count = s.token[k].ref_count
                           /\ u.token[k].ok_to_free = s.token[k].ok_to_free
      /\ u.allocated = s.allocated /\ u.bin = s.bin /\ u.count = s.count
  BY <1>1, ValueFields
<1> HIDE DEF u
<1>3. /\ \A k \in Tokens : Spare(s, k) => u.token[k].ref_count = 0 /\ k \notin T
      /\ \A k \in H : k \in Tokens /\ u.token[k].ref_count >= 1
      /\ \A k \in T : k \in Tokens /\ ~u.token[k].ok_to_free
  BY <1>2 DEF Sound
<1>4. Sound(u, H, T, n)
  BY <1>2, <1>3, SameBin
<1>5. \A k : Spare(u, k) <=> Spare(s, k)
  BY <1>2 DEF Spare, InBin
<1> QED
  BY <1>4, <1>5 DEF u

(* A token in use becomes a template, or ceases to be one.                   *)
LEMMA MarkSound ==
  ASSUME NEW s, NEW H, NEW T, NEW n, Sound(s, H, T, n), NEW t \in Tokens, ~Spare(s, t),
         NEW b \in BOOLEAN
  PROVE  LET u == [s EXCEPT !.token[t].ok_to_free = b]
         IN  /\ Sound(u, H, IF b THEN T \ {t} ELSE T \cup {t}, n)
             /\ \A k : Spare(u, k) <=> Spare(s, k)
<1> DEFINE u == [s EXCEPT !.token[t].ok_to_free = b]
           R == IF b THEN T \ {t} ELSE T \cup {t}
<1>1. s \in Store
  BY DEF Sound
<1>2. /\ u \in Store
      /\ \A k \in Tokens \ {t} : u.token[k] = s.token[k]
      /\ u.token[t].ref_count = s.token[t].ref_count /\ u.token[t].ok_to_free = b
      /\ u.allocated = s.allocated /\ u.bin = s.bin /\ u.count = s.count
  BY <1>1, MarkFields
<1> HIDE DEF u
<1>3. /\ \A k \in Tokens : Spare(s, k) => u.token[k].ref_count = 0 /\ k \notin R
      /\ \A k \in H : k \in Tokens /\ u.token[k].ref_count >= 1
      /\ \A k \in R : k \in Tokens /\ ~u.token[k].ok_to_free
  BY <1>2 DEF Sound
<1> HIDE DEF R
<1>4. Sound(u, H, R, n)
  BY <1>2, <1>3, SameBin
<1>5. \A k : Spare(u, k) <=> Spare(s, k)
  BY <1>2 DEF Spare, InBin
<1> QED
  BY <1>4, <1>5 DEF u, R

(* A token with two references keeps one.                                    *)
LEMMA SharedDone ==
  ASSUME NEW s, NEW H, NEW T, NEW n, Sound(s, H, T, n), NEW t \in H,
         s.token[t].ref_count >= 2
  PROVE  Sound(DoneUsing(s, t), H, T, n)
<1> DEFINE u == DoneUsing(s, t)
<1>1. s \in Store /\ t \in Tokens
  BY DEF Sound
<1>2. s.token[t].ref_count \in Nat
  BY <1>1 DEF Store, TokenState
<1>3. s.token[t].ref_count > 0 /\ s.token[t].ref_count # 1
  BY <1>2
<1>4. /\ u \in Store
      /\ \A k \in Tokens \ {t} : u.token[k] = s.token[k]
      /\ u.token[t].ref_count = s.token[t].ref_count - 1
      /\ ~s.token[t].ok_to_free => ~u.token[t].ok_to_free
      /\ u.allocated = s.allocated /\ u.bin = s.bin /\ u.count = s.count
  BY <1>1, <1>3, DoneUsingFields
<1> HIDE DEF u
<1>5. u.token[t].ref_count >= 1 /\ ~Spare(s, t)
  BY <1>1, <1>2, <1>4 DEF Sound
<1>6. /\ \A k \in Tokens : Spare(s, k) => u.token[k].ref_count = 0 /\ k \notin T
      /\ \A k \in H : k \in Tokens /\ u.token[k].ref_count >= 1
      /\ \A k \in T : k \in Tokens /\ ~u.token[k].ok_to_free
  BY <1>4, <1>5 DEF Sound
<1>7. Sound(u, H, T, n)
  BY <1>4, <1>6, SameBin
<1> QED
  BY <1>7 DEF u

(* A new token, with a payload and a holder.                                 *)
LEMMA NewTokenSound ==
  ASSUME NEW s, NEW H, NEW T, NEW n \in Int, Sound(s, H, T, n), NEW t \in NewTokens(s)
  PROVE  LET u == [CreateToken(s, t) EXCEPT !.token[t].value = TRUE]
         IN  /\ t \in Tokens /\ t \notin H \cup T
             /\ Sound(u, H, T, n) /\ ~Spare(u, t)
             /\ Sound(AddReference(u, t), H \cup {t}, T, n)
<1> DEFINE v == CreateToken(s, t)
           u == [v EXCEPT !.token[t].value = TRUE]
<1>1. t \in Tokens /\ t \notin H \cup T /\ Sound(v, H, T, n) /\ ~Spare(v, t)
  BY CreateSound
<1> HIDE DEF v
<1>2. Sound(u, H, T, n) /\ ~Spare(u, t)
  BY <1>1, ValueSound
<1> HIDE DEF u
<1>3. Sound(AddReference(u, t), H \cup {t}, T, n)
  BY <1>1, <1>2, AddSound
<1> QED
  BY <1>1, <1>2, <1>3 DEF u, v

(* A template is replaced by a token in use: the older one, if nobody holds  *)
(* it, is freed, and it is a template no longer.                             *)
LEMMA ReplaceSound ==
  ASSUME NEW s, NEW H, NEW T, NEW n \in Int, Sound(s, H, T, n),
         NEW old \in T \cup {NULL}, NEW new \in H \cup {NULL}
  PROVE  Sound(ReplaceTemplate(s, old, new), H, (T \ {old}) \cup ({new} \ {NULL}), n)
<1> DEFINE freed == IF old \in {new, NULL} THEN s
                    ELSE DoneUsing(AddReference([s EXCEPT !.token[old].ok_to_free = TRUE], old),
                                   old)
           R == IF old = new THEN T ELSE T \ {old}
<1>1. /\ T \subseteq Tokens /\ H \subseteq Tokens /\ NULL \notin T /\ NULL \notin H
  BY TokensAssumption DEF Sound
<1>2. Sound(freed, H, R, n)
  <2>1. CASE old \in {new, NULL}
    <3>1. R = T
      BY <1>1, <2>1
    <3> QED
      BY <2>1, <3>1
  <2>2. CASE old \notin {new, NULL}
    <3> DEFINE v == [s EXCEPT !.token[old].ok_to_free = TRUE]
               w == AddReference(v, old)
    <3>1. old \in T /\ old \in Tokens /\ ~Spare(s, old)
      BY <1>1, <2>2, NotSpare
    <3>2. Sound(v, H, R, n) /\ ~Spare(v, old)
      <4>1. TRUE \in BOOLEAN /\ R = IF TRUE THEN T \ {old} ELSE T \cup {old}
        BY <2>2
      <4> HIDE DEF R
      <4> QED
        BY <3>1, <4>1, MarkSound
    <3> HIDE DEF v, R
    <3>3. Sound(w, H \cup {old}, R, n) /\ w.token[old].ref_count = v.token[old].ref_count + 1
      <4>1. v \in Store
        BY <3>2 DEF Sound
      <4> QED
        BY <3>1, <3>2, <4>1, AddSound, AddReferenceFields
    <3>4. v.token[old].ref_count \in Nat /\ (old \in H => v.token[old].ref_count >= 1)
      BY <3>1, <3>2 DEF Sound, Store, TokenState
    <3> HIDE DEF w
    <3>5. Sound(DoneUsing(w, old), H, R, n)
      <4>1. CASE old \notin H
        <5> DEFINE G == H \cup {old}
        <5>1. old \in G /\ G \ {old} = H
          BY <4>1
        <5>2. Sound(w, G, R, n)
          BY <3>3
        <5> HIDE DEF G
        <5>3. Sound(DoneUsing(w, old), G \ {old}, R, n)
          BY <5>1, <5>2, DoneSound
        <5> QED
          BY <5>1, <5>3
      <4>2. CASE old \in H
        <5>1. H \cup {old} = H
          BY <4>2
        <5>2. Sound(w, H, R, n) /\ w.token[old].ref_count >= 2
          BY <3>3, <3>4, <4>2, <5>1
        <5> QED
          BY <4>2, <5>2, SharedDone
      <4> QED
        BY <4>1, <4>2
    <3> QED
      BY <2>2, <3>5 DEF v, w
  <2> QED
    BY <2>1, <2>2
<1>3. ReplaceTemplate(s, old, new) =
        IF new = NULL THEN freed ELSE [freed EXCEPT !.token[new].ok_to_free = FALSE]
  BY DEF ReplaceTemplate
<1> HIDE DEF freed
<1>4. CASE new = NULL
  <2>1. R = (T \ {old}) \cup ({new} \ {NULL})
    BY <1>1, <1>4
  <2> QED
    BY <1>2, <1>3, <1>4, <2>1
<1>5. CASE new # NULL
  <2>1. R \cup {new} = (T \ {old}) \cup ({new} \ {NULL})
    BY <1>5
  <2> HIDE DEF R
  <2>2. new \in H /\ new \in Tokens
    BY <1>1, <1>5
  <2>3. ~Spare(freed, new)
    BY <1>2, <2>2 DEF Sound
  <2>4. Sound([freed EXCEPT !.token[new].ok_to_free = FALSE], H, R \cup {new}, n)
    <3>1. FALSE \in BOOLEAN /\ R \cup {new} = IF FALSE THEN R \ {new} ELSE R \cup {new}
      OBVIOUS
    <3> QED
      BY <1>2, <2>2, <2>3, <3>1, MarkSound
  <2> QED
    BY <1>3, <1>5, <2>1, <2>4
<1> QED
  BY <1>4, <1>5

(* The tokens of a set of triggers are released, one after the other.        *)
LEMMA ReleasesSound ==
  ASSUME NEW S, IsFiniteSet(S), NEW f, NEW it, NEW s, NEW H, NEW T, NEW n \in Int,
         Sound(s, H, T, n), Releases(it, f, s, S),
         \A x \in S : f[x] \in H \cup {NULL},
         \A x, y \in S : f[x] = f[y] /\ f[x] # NULL => x = y
  PROVE  Sound(it[S], H \ {f[x] : x \in S}, T, n)
<1> DEFINE Left(P) == H \ {f[x] : x \in P}
           wrong == {m \in Nat : \E P \in SUBSET S :
                                   Cardinality(P) = m /\ ~Sound(it[P], Left(P), T, n)}
<1>1. ASSUME NEW P \in SUBSET S
      PROVE  /\ IsFiniteSet(P) /\ Cardinality(P) \in Nat /\ (Cardinality(P) = 0 <=> P = {})
             /\ \A x \in P : Cardinality(P \ {x}) = Cardinality(P) - 1
  BY FS_Subset, FS_CardinalityType, FS_EmptySet, FS_RemoveElement
<1>2. S \in SUBSET S
  OBVIOUS
<1> SUFFICES ASSUME wrong # {}
             PROVE  FALSE
  BY <1>1, <1>2
<1>3. PICK m \in wrong : \A k \in wrong : m <= k
  <2>1. wrong \in SUBSET Nat
    OBVIOUS
  <2> HIDE DEF wrong
  <2> QED
    BY <2>1, LeastNatural
<1>4. PICK P \in SUBSET S : Cardinality(P) = m /\ ~Sound(it[P], Left(P), T, n)
  BY <1>3
<1>5. P # {}
  <2> SUFFICES ASSUME P = {}
               PROVE  FALSE
    OBVIOUS
  <2>1. it[P] = s /\ Left(P) = H
    BY DEF Releases
  <2> QED
    BY <1>4, <2>1
<1>6. PICK x \in P : it[P] = DoneUsing(it[P \ {x}], f[x])
  BY <1>5 DEF Releases
<1> DEFINE Q == P \ {x}
<1>7. Q \in SUBSET S /\ x \in S /\ Cardinality(Q) = m - 1 /\ m \in Nat /\ m # 0
  BY <1>1, <1>4, <1>5
<1>8. f[x] \in H \cup {NULL} /\ (f[x] # NULL => \A y \in Q : f[y] # f[x])
  BY <1>7
<1>9. Left(P) = Left(Q) \ {f[x]} /\ (f[x] # NULL => f[x] \in Left(Q))
  BY <1>8
<1>10. Sound(it[Q], Left(Q), T, n)
  <2>1. m - 1 \in Nat /\ m - 1 \notin wrong
    <3> HIDE DEF wrong
    <3> QED
      BY <1>3, <1>7
  <2> HIDE DEF Left, Q
  <2> QED
    BY <1>7, <2>1
<1>11. it[P] = DoneUsing(it[Q], f[x])
  BY <1>6
<1> HIDE DEF Left, Q
<1>12. Sound(it[P], Left(P), T, n)
  <2>1. CASE f[x] = NULL
    <3>1. it[P] = it[Q] /\ Left(P) \in SUBSET Left(Q)
      BY <1>9, <1>11, <2>1 DEF DoneUsing
    <3> QED
      BY <1>10, <3>1, FewerHolders
  <2>2. CASE f[x] # NULL
    BY <1>9, <1>10, <1>11, <2>2, DoneSound
  <2> QED
    BY <2>1, <2>2
<1> QED
  BY <1>4, <1>12

-----------------------------------------------------------------------------
(* The inductive invariant of the tokens *)

(* Triggers with a type, and those among them that are present: these hold   *)
(* their template until the next time step.                                  *)
Typed == {tr \in DOMAIN prog : prog[tr].payload}
Shown == {tr \in present : prog[tr].payload}

Held == ({ev[x].token : x \in Live} \cup {template[tr] : tr \in Shown}) \ {NULL}
Templated == {template[tr] : tr \in DOMAIN prog} \ {NULL}

(* Events do not share tokens, nor triggers templates; only an event of its  *)
(* trigger may carry a template, while that is not present; chains are of    *)
(* one trigger.                                                              *)
TokenLinks ==
  /\ \A x, y \in Live : ev[x].token = ev[y].token /\ ev[x].token # NULL => x = y
  /\ \A x, y \in DOMAIN prog : template[x] = template[y] /\ template[x] # NULL => x = y
  /\ \A x \in Live, tr \in DOMAIN prog :
       ev[x].token = template[tr] /\ template[tr] # NULL
         => ev[x].trigger = tr /\ tr \notin Shown

Kin == \A x \in Live : ev[x].next # NULL => ev[ev[x].next].trigger = ev[x].trigger

TokenInv == Sound(store, Held, Templated, Cardinality(Typed)) /\ TokenLinks /\ Kin

(* From the invariant to the property.                                       *)
LEMMA TokensFollow ==
  ASSUME QInv, TokenInv
  PROVE  TokensAccounted
<1>1. InQueue \subseteq Live
  BY InQueueLive
<1>2. store \in Store /\ present \subseteq DOMAIN prog
  BY DEF QInv, TypeOK
<1>3. ASSUME NEW t \in Tokens
      PROVE  Holders(t) <= store.token[t].ref_count
  <2> DEFINE A == {x \in InQueue : ev[x].token = t}
             B == {tr \in present : template[tr] = t /\ prog[tr].payload}
  <2>1. t # NULL /\ store.token[t].ref_count \in Nat
    BY <1>2, TokensAssumption DEF Store, TokenState
  <2>2. t \in Held => store.token[t].ref_count >= 1
    BY DEF TokenInv, Sound
  <2>3. \A x \in A : t \in Held
    BY <1>1, <2>1 DEF Held
  <2>4. \A tr \in B : t \in Held
    BY <2>1 DEF Held, Shown
  <2>5. \A x, y \in A : x = y
    BY <1>1, <2>1 DEF TokenInv, TokenLinks
  <2>6. \A x, y \in B : x = y
    BY <1>2, <2>1 DEF TokenInv, TokenLinks
  <2>7. \A x \in A, tr \in B : FALSE
    BY <1>1, <1>2, <2>1 DEF TokenInv, TokenLinks, Shown
  <2>8. Holders(t) = Cardinality(A) + Cardinality(B)
    BY DEF Holders
  <2> HIDE DEF A, B
  <2>9. A = {} \/ \E x : A = {x}
    BY <2>5
  <2>10. B = {} \/ \E x : B = {x}
    BY <2>6
  <2>11. /\ Cardinality(A) = IF A = {} THEN 0 ELSE 1
         /\ Cardinality(B) = IF B = {} THEN 0 ELSE 1
    BY <2>9, <2>10, FS_EmptySet, FS_Singleton
  <2> QED
    BY <2>1, <2>2, <2>3, <2>4, <2>7, <2>8, <2>11
<1>4. BinUnshared
  <2>1. ASSUME NEW t \in Tokens, Spare(store, t)
        PROVE  /\ \A x \in InQueue : ev[x].token # t
               /\ \A tr \in DOMAIN prog : template[tr] # t
    <3>1. t \notin Held /\ t \notin Templated /\ t # NULL
      BY <2>1, TokensAssumption DEF TokenInv, Sound
    <3> QED
      BY <1>1, <3>1 DEF Held, Templated
  <2> QED
    BY <2>1 DEF BinUnshared, TokenInv, Sound, Spare
<1>5. CountAgrees
  BY DEF CountAgrees, TokenInv, Sound, Typed
<1> QED
  BY <1>3, <1>4, <1>5 DEF TokensAccounted, HoldersCounted

-----------------------------------------------------------------------------
(* What becomes of the token that is handed to a call, once counted in s     *)

(* A new event carries it; further new events are spacers.                   *)
Carried(tr, s, tok) ==
  \E U \in SUBSET (Events \ Live) : \E e \in U :
    /\ Live' = Live \cup U
    /\ \A x \in Live : ev'[x].token = ev[x].token /\ ev'[x].trigger = ev[x].trigger
    /\ \A x \in U : ev'[x].trigger = tr /\ ev'[x].token = IF x = e THEN tok ELSE NULL
    /\ store' = s

(* Nobody has it; it may be given back.                                      *)
Refused(s, tok) ==
  /\ Live' = Live
  /\ \A x \in Live : ev'[x].token = ev[x].token /\ ev'[x].trigger = ev[x].trigger
  /\ store' \in {s, DoneUsing(s, tok)}

(* An event of the trigger carries it, and gives back the one it had.        *)
Replaced(tr, s, tok) ==
  \E x \in Live :
    /\ ev[x].trigger = tr /\ Live' = Live
    /\ \A y \in Live : /\ ev'[y].trigger = ev[y].trigger
                       /\ ev'[y].token = IF y = x THEN tok ELSE ev[y].token
    /\ store' = IF ev[x].token # tok THEN DoneUsing(s, ev[x].token) ELSE s

Settled(tr, s, tok) ==
  Kin' /\ (Carried(tr, s, tok) \/ Refused(s, tok) \/ Replaced(tr, s, tok))

(* A chain of one trigger is extended by events of that trigger.             *)
LEMMA KinKeeps ==
  ASSUME QInv, Kin, NEW tr, NEW U \in SUBSET (Events \ Live), Live' = Live \cup U,
         NEW p \in Live \cup {NULL},
         \A x \in Live : ev'[x].trigger = ev[x].trigger /\ (x # p => ev'[x].next = ev[x].next),
         \A x \in U : ev'[x].trigger = tr /\ ev'[x].next \in U \cup {NULL},
         p \in Live => ev[p].trigger = tr, p \in Live => ev'[p].next \in U
  PROVE  Kin'
<1>1. \A x \in Live : ev[x].next \in Live \cup {NULL}
  BY DEF QInv, LinkInv
<1>2. ASSUME NEW x \in Live', ev'[x].next # NULL
      PROVE  ev'[ev'[x].next].trigger = ev'[x].trigger
  <2>1. CASE x \in U
    BY <1>2, <2>1
  <2>2. CASE x \in Live /\ x = p
    BY <2>2
  <2>3. CASE x \in Live /\ x # p
    <3>1. ev'[x].next = ev[x].next /\ ev'[x].trigger = ev[x].trigger
      BY <2>3
    <3>2. ev[x].next \in Live
      BY <1>1, <1>2, <2>3, <3>1
    <3> QED
      BY <1>2, <2>3, <3>1, <3>2 DEF Kin
  <2> QED
    BY <2>1, <2>2, <2>3
<1> QED
  BY <1>2 DEF Kin

(* The links of the chains are as before.                                    *)
LEMMA KinStays ==
  ASSUME QInv, Kin, Live' = Live,
         \A x \in Live : ev'[x].trigger = ev[x].trigger /\ ev'[x].next = ev[x].next
  PROVE  Kin'
<1>1. \A x \in Live : ev[x].next \in Live \cup {NULL}
  BY DEF QInv, LinkInv
<1> QED
  BY <1>1 DEF Kin

(* An event that is given back was not in use.                               *)
LEMMA GiveBackLive ==
  ASSUME NEW e, e \notin Live, GiveBack(e)
  PROVE  Live' = Live
BY DEF GiveBack, Live

(* The new events are in use.                                                *)
LEMMA UseLive ==
  ASSUME QInv, NEW n, NEW f, {n[i] : i \in DOMAIN n} \in SUBSET (Events \ Live), Use(n, f)
  PROVE  Live' = Live \cup {n[i] : i \in DOMAIN n} /\ ev' = f
BY DEF Use, Live

(* The new event e is in use, alone or behind p, and carries the token.      *)
LEMMA OneSettles ==
  ASSUME QInv, Kin, NEW tr, NEW s, NEW tok, NEW e \in Events \ Live,
         NEW p \in Live \cup {NULL}, p \in Live => ev[p].trigger = tr, Live' = Live \cup {e},
         ev'[e].trigger = tr, ev'[e].next = NULL, ev'[e].token = tok,
         \A x \in Live : /\ ev'[x].token = ev[x].token /\ ev'[x].trigger = ev[x].trigger
                         /\ x # p => ev'[x].next = ev[x].next
                         /\ x = p => ev'[x].next = e,
         store' = s
  PROVE  Settled(tr, s, tok)
<1> DEFINE U == {e}
<1>1. /\ U \in SUBSET (Events \ Live) /\ e \in U /\ Live' = Live \cup U
      /\ \A x \in U : ev'[x].trigger = tr /\ ev'[x].next \in U \cup {NULL}
      /\ \A x \in U : ev'[x].token = IF x = e THEN tok ELSE NULL
      /\ p \in Live => ev'[p].next \in U
  OBVIOUS
<1> HIDE DEF U
<1>2. \A x \in Live : ev[x].next \in Live \cup {NULL}
  BY DEF QInv, LinkInv
<1>3. Kin'
  <2>1. ASSUME NEW x \in Live', ev'[x].next # NULL
        PROVE  ev'[ev'[x].next].trigger = ev'[x].trigger
    <3>1. CASE x = e
      BY <2>1, <3>1
    <3>2. CASE x \in Live /\ x = p
      BY <3>2
    <3>3. CASE x \in Live /\ x # p
      <4>1. ev[x].next \in Live /\ ev'[x].next = ev[x].next /\ ev'[x].trigger = ev[x].trigger
        BY <1>2, <2>1, <3>3
      <4>2. ev[ev[x].next].trigger = ev[x].trigger
        BY <2>1, <3>3, <4>1 DEF Kin
      <4> QED
        BY <4>1, <4>2
    <3> QED
      BY <2>1, <3>1, <3>2, <3>3
  <2> QED
    BY <2>1 DEF Kin
<1>4. Carried(tr, s, tok)
  BY <1>1 DEF Carried
<1> QED
  BY <1>3, <1>4 DEF Settled

(* The new event e is alone, behind p or not.                                *)
LEMMA OneCarries ==
  ASSUME QInv, Kin, NEW w, Noted(w), NEW tr, NEW s, NEW tok,
         NEW e \in Events \ Live, NEW f \in EventFields,
         f.trigger = tr, f.next = NULL, f.token = tok,
         NEW p \in Live \cup {NULL}, p \in Live => ev[p].trigger = tr,
         Use(<<e>>, IF p = NULL THEN [w EXCEPT ![e] = f]
                    ELSE [w EXCEPT ![e] = f, ![p].next = e]),
         store' = s
  PROVE  Settled(tr, s, tok)
<1> DEFINE U == {e}
           u == IF p = NULL THEN [w EXCEPT ![e] = f] ELSE [w EXCEPT ![e] = f, ![p].next = e]
<1>0. /\ w \in [Events -> EventFields]
      /\ \A x \in Events : /\ w[x].next = ev[x].next /\ w[x].trigger = ev[x].trigger
                            /\ w[x].token = ev[x].token
  BY NotedFields
<1>1. {<<e>>[i] : i \in DOMAIN <<e>>} = U
  <2>1. DOMAIN <<e>> = {1} /\ <<e>>[1] = e
    OBVIOUS
  <2> QED
    BY <2>1
<1>2. Live' = Live \cup U /\ ev' = u
  <2>1. U \in SUBSET (Events \ Live)
    OBVIOUS
  <2> HIDE DEF U, u
  <2>2. Use(<<e>>, u)
    BY DEF u
  <2> QED
    BY <1>1, <2>1, <2>2, UseLive
<1>3. Live \subseteq Events /\ NULL \notin Events
  BY QueueAssumption DEF QInv, TypeOK, Live
<1>4. /\ ev'[e] = f
      /\ \A x \in Live : x # p => ev'[x] = w[x]
      /\ p \in Live => ev'[p] = [w[p] EXCEPT !.next = e]
  BY <1>0, <1>2, <1>3
<1>5. \A x \in Live : /\ ev'[x].token = ev[x].token /\ ev'[x].trigger = ev[x].trigger
                      /\ x # p => ev'[x].next = ev[x].next
                      /\ x = p => ev'[x].next = e
  <2> TAKE x \in Live
  <2>1. CASE x # p
    BY <1>0, <1>3, <1>4, <2>1
  <2>2. CASE x = p
    <3>1. x \in Events /\ w[x] \in EventFields /\ ev'[x] = [w[x] EXCEPT !.next = e]
      BY <1>0, <1>3, <1>4, <2>2
    <3>2. ev'[x].token = w[x].token /\ ev'[x].trigger = w[x].trigger /\ ev'[x].next = e
      BY <3>1 DEF EventFields
    <3> QED
      BY <1>0, <2>2, <3>1, <3>2
  <2> QED
    BY <2>1, <2>2
<1> HIDE DEF u
<1>6. /\ Live' = Live \cup {e}
      /\ ev'[e].trigger = tr /\ ev'[e].next = NULL /\ ev'[e].token = tok
  BY <1>2, <1>4
<1> QED
  BY <1>5, <1>6, OneSettles

(* No event changes.                                                         *)
LEMMA NoneCarries ==
  ASSUME QInv, Kin, NEW w, Noted(w), NEW tr, NEW s, NEW tok, Live' = Live, ev' = w,
         store' \in {s, DoneUsing(s, tok)}
  PROVE  Settled(tr, s, tok)
<1>0. \A x \in Live : /\ ev'[x].next = ev[x].next /\ ev'[x].trigger = ev[x].trigger
                      /\ ev'[x].token = ev[x].token
  <2>1. Live \subseteq Events
    BY DEF QInv, TypeOK, Live
  <2> QED
    BY <2>1, NotedFields
<1>1. Kin'
  BY <1>0, KinStays
<1>2. Refused(s, tok)
  BY <1>0 DEF Refused
<1> QED
  BY <1>1, <1>2 DEF Settled

(* The outcome at the end of _lf_schedule,                                   *)
LEMMA InsertSettles ==
  ASSUME QInv, Kin, NEW tr \in DOMAIN prog, NEW t \in Nat, NEW s,
         NEW tok \in Tokens \cup {NULL}, NEW e \in Events \ Live, Insert(tr, t, s, tok, e)
  PROVE  Settled(tr, s, tok)
<1>1. CASE t > stop_tag.time
  <2>1. GiveBack(e) /\ store' = DoneUsing(s, tok) /\ UNCHANGED ev
    BY <1>1 DEF Insert
  <2>2. Live' = Live
    BY <2>1, GiveBackLive
  <2> QED
    BY <2>1, <2>2, NoneCarries DEF Noted
<1>2. CASE ~ (t > stop_tag.time)
  <2> DEFINE f == EventOf(tr, t, tok)
             p == NULL
  <2>1. /\ f \in EventFields /\ f.trigger = tr /\ f.next = NULL /\ f.token = tok
        /\ p \in Live \cup {NULL} /\ (p \in Live => ev[p].trigger = tr) /\ store' = s
        /\ Use(<<e>>, IF p = NULL THEN [ev EXCEPT ![e] = f]
                      ELSE [ev EXCEPT ![e] = f, ![p].next = e])
    <3>1. f \in EventFields /\ f.trigger = tr /\ f.next = NULL /\ f.token = tok
      BY EventOfType DEF QInv, TypeOK
    <3>2. NULL \notin Live
      BY QueueAssumption DEF QInv, TypeOK, Live
    <3>3. Use(<<e>>, [ev EXCEPT ![e] = f]) /\ store' = s
      BY <1>2 DEF Insert
    <3> HIDE DEF f
    <3> QED
      BY <3>1, <3>2, <3>3
  <2> HIDE DEF f, p
  <2> QED
    BY <2>1, OneCarries DEF Noted
<1> QED
  BY <1>1, <1>2

(* of an event put behind another one,                                       *)
LEMMA HookBehindSettles ==
  ASSUME QInv, Kin, NEW w, Noted(w), NEW tr \in DOMAIN prog, NEW p \in Live,
         ev[p].trigger = tr, NEW g,
         NEW f \in EventFields, NEW tok, f.trigger = tr, f.next = NULL, f.token = tok,
         NEW s, NEW e \in Events \ Live, HookBehind(w, p, g, f, s, e)
  PROVE  Settled(tr, s, tok)
<1>1. CASE AfterStop(g)
  <2>1. GiveBack(e) /\ ev' = w /\ store' = s
    BY <1>1 DEF HookBehind
  <2>2. Live' = Live
    BY <2>1, GiveBackLive
  <2> QED
    BY <2>1, <2>2, NoneCarries
<1>2. CASE ~AfterStop(g)
  <2>1. Use(<<e>>, [w EXCEPT ![e] = f, ![p].next = e]) /\ store' = s
    BY <1>2 DEF HookBehind
  <2>2. p # NULL /\ p \in Live \cup {NULL}
    BY QueueAssumption DEF QInv, TypeOK, Live
  <2>3. Use(<<e>>, IF p = NULL THEN [w EXCEPT ![e] = f]
                   ELSE [w EXCEPT ![e] = f, ![p].next = e])
    BY <2>1, <2>2
  <2> QED
    BY <2>1, <2>2, <2>3, OneCarries
<1> QED
  BY <1>1, <1>2

(* of one that is dropped,                                                   *)
LEMMA DropSettles ==
  ASSUME QInv, Kin, NEW w, Noted(w), NEW tr, NEW x, NEW s, NEW tok, NEW e \in Events \ Live,
         Drop(w, x, s, tok, e)
  PROVE  Settled(tr, s, tok)
<1>1. GiveBack(e) /\ ev' = w /\ store' \in {s, DoneUsing(s, tok)}
  BY DEF Drop
<1>2. Live' = Live
  BY <1>1, GiveBackLive
<1> QED
  BY <1>1, <1>2, NoneCarries

(* and of one that leaves its token.                                         *)
LEMMA ReplaceTokenSettles ==
  ASSUME QInv, Kin, NEW w, Noted(w), NEW tr, NEW x \in Live, ev[x].trigger = tr, NEW s, NEW tok,
         NEW e \in Events \ Live, ReplaceToken(w, x, s, tok, e)
  PROVE  Settled(tr, s, tok)
<1>0. /\ w \in [Events -> EventFields]
      /\ \A y \in Events : /\ w[y].next = ev[y].next /\ w[y].trigger = ev[y].trigger
                            /\ w[y].token = ev[y].token
  BY NotedFields
<1>3. Live \subseteq Events
  BY DEF QInv, TypeOK, Live
<1>1. /\ GiveBack(e) /\ ev' = [w EXCEPT ![x].token = tok]
      /\ store' = IF ev[x].token # tok THEN DoneUsing(s, ev[x].token) ELSE s
  BY <1>0, <1>3 DEF ReplaceToken
<1>2. Live' = Live
  BY <1>1, GiveBackLive
<1>4. ev'[x] = [w[x] EXCEPT !.token = tok] /\ \A y \in Live \ {x} : ev'[y] = w[y]
  BY <1>0, <1>1, <1>3
<1>5. \A y \in Live : /\ ev'[y].trigger = ev[y].trigger /\ ev'[y].next = ev[y].next
                      /\ ev'[y].token = IF y = x THEN tok ELSE ev[y].token
  <2> TAKE y \in Live
  <2>1. CASE y # x
    BY <1>0, <1>3, <1>4, <2>1
  <2>2. CASE y = x
    <3>1. y \in Events /\ w[y] \in EventFields /\ ev'[y] = [w[y] EXCEPT !.token = tok]
      BY <1>0, <1>3, <1>4, <2>2
    <3>2. ev'[y].next = w[y].next /\ ev'[y].trigger = w[y].trigger /\ ev'[y].token = tok
      BY <3>1 DEF EventFields
    <3> QED
      BY <1>0, <2>2, <3>1, <3>2
  <2> QED
    BY <2>1, <2>2
<1>6. Kin'
  BY <1>2, <1>5, KinStays
<1>7. Replaced(tr, s, tok)
  BY <1>1, <1>2, <1>5 DEF Replaced
<1> QED
  BY <1>6, <1>7 DEF Settled

(* The events of a chain belong to the trigger of its head.                  *)
LEMMA ChainKin ==
  ASSUME QInv, Kin, NEW h \in Live, NEW i \in 0 .. ChainLength(h) - 1
  PROVE  ev[Follow(h, i)].trigger = ev[h].trigger
<1> DEFINE N == Cardinality(Events)
           bad == {k \in 0 .. ChainLength(h) - 1 : ev[Follow(h, k)].trigger # ev[h].trigger}
<1>1. /\ N \in Nat \ {0} /\ Follow(h, 0) = h
      /\ \A k \in 0 .. N - 1 :
           Follow(h, k + 1) = IF Follow(h, k) = NULL THEN NULL ELSE ev[Follow(h, k)].next
  BY FollowFacts
<1>2. /\ ChainLength(h) \in 1 .. N
      /\ \A k \in 0 .. ChainLength(h) - 1 : Follow(h, k) \in Live
  BY ChainFacts
<1> SUFFICES ASSUME bad # {}
             PROVE  FALSE
  OBVIOUS
<1> HIDE DEF N
<1>3. PICK k \in bad : \A m \in bad : k <= m
  <2>1. bad \in SUBSET Nat
    BY <1>1, <1>2
  <2> HIDE DEF bad
  <2> QED
    BY <2>1, LeastNatural
<1>4. k \in 0 .. ChainLength(h) - 1 /\ ev[Follow(h, k)].trigger # ev[h].trigger
  BY <1>3
<1>5. k # 0
  BY <1>1, <1>4
<1>6. k - 1 \in 0 .. ChainLength(h) - 1 /\ k - 1 \in 0 .. N - 1 /\ (k - 1) + 1 = k
  BY <1>1, <1>2, <1>4, <1>5
<1>7. ev[Follow(h, k - 1)].trigger = ev[h].trigger
  <2>1. k - 1 \notin bad
    <3> HIDE DEF bad
    <3> QED
      BY <1>1, <1>2, <1>3, <1>4, <1>6
  <2> QED
    BY <1>6, <2>1
<1>8. Follow(h, k - 1) \in Live /\ Follow(h, k) \in Live /\ NULL \notin Live
  BY <1>2, <1>4, <1>6, QueueAssumption DEF QInv, TypeOK, Live
<1>9. Follow(h, k) = ev[Follow(h, k - 1)].next
  <2>1. Follow(h, (k - 1) + 1) =
          IF Follow(h, k - 1) = NULL THEN NULL ELSE ev[Follow(h, k - 1)].next
    BY <1>1, <1>6
  <2> QED
    BY <1>6, <1>8, <2>1
<1> QED
  BY <1>4, <1>7, <1>8, <1>9 DEF Kin

(* The outcome of _lf_schedule without a minimum spacing,                    *)
LEMMA UnspacedSettles ==
  ASSUME QInv, Kin, NEW tr \in DOMAIN prog, NEW t \in Nat, NEW s \in Store,
         NEW tok \in Tokens \cup {NULL}, NEW e \in Events \ Live, Unspaced(tr, t, s, tok, e)
  PROVE  Settled(tr, s, tok)
<1>1. CASE Found(tr, t) = {}
  <2>1. Insert(tr, t, s, tok, e)
    BY <1>1 DEF Unspaced
  <2> QED
    BY <2>1, InsertSettles
<1>2. CASE Found(tr, t) # {}
  <2> DEFINE f == EventOf(tr, t, tok)
  <2>1. PICK h \in Found(tr, t) :
          HookBehind(ev, LastOf(h), TagOf(t, ChainLength(h)), f, s, e)
    BY <1>2 DEF Unspaced
  <2>2. h \in Live /\ ev[h].trigger = tr
    BY DEF Found, QInv, LinkInv, Heads
  <2>3. LastOf(h) \in Live /\ ev[LastOf(h)].trigger = tr
    <3>1. LastOf(h) \in Live /\ ChainLength(h) \in 1 .. Cardinality(Events)
      BY <2>2, ChainFacts
    <3>2. Cardinality(Events) \in Nat
      BY <2>2, FollowFacts
    <3>3. ChainLength(h) - 1 \in 0 .. ChainLength(h) - 1
      BY <3>1, <3>2
    <3>4. ev[Follow(h, ChainLength(h) - 1)].trigger = ev[h].trigger
      BY <2>2, <3>3, ChainKin
    <3> QED
      BY <2>2, <3>1, <3>4 DEF LastOf
  <2>4. f \in EventFields /\ f.trigger = tr /\ f.next = NULL /\ f.token = tok
    BY EventOfType DEF QInv, TypeOK
  <2> HIDE DEF f
  <2> QED
    BY <2>1, <2>3, <2>4, HookBehindSettles DEF Noted
<1> QED
  BY <1>1, <1>2

(* and with one, while `last' tells the truth.                               *)
LEMMA SpacedSettles ==
  ASSUME QInv, Kin, LastIsOwn, NEW tr \in DOMAIN prog, prog[tr].kind \in Actions, NEW t \in Nat,
         NEW s \in Store, NEW tok \in Tokens \cup {NULL}, NEW e \in Events \ Live,
         prog[tr].period >= 0, Spaced(tr, t, s, tok, e)
  PROVE  Settled(tr, s, tok)
<1> DEFINE x == last[tr]
           later == ev[x].time + prog[tr].period
           f == EventOf(tr, 0, tok)
<1>1. x \in Events \cup {NULL} /\ prog[tr].period \in Nat
  BY DEF QInv, TypeOK, Fields
<1>2. CASE Insert(tr, t, s, tok, e)
  BY <1>2, InsertSettles
<1>3. CASE ~Insert(tr, t, s, tok, e)
  <2>1. x \in Events /\ x # NULL
    BY <1>1, <1>3, QueueAssumption DEF Spaced
  <2>2. later \in Nat
    BY <1>1, <2>1 DEF QInv, TypeOK, EventFields
  <2>3. f \in EventFields /\ f.trigger = tr /\ f.next = NULL /\ f.token = tok
    <3>1. tr \in Triggers /\ 0 \in Nat
      BY DEF QInv, TypeOK
    <3> QED
      BY <3>1, EventOfType
  <2>4. \/ Drop(ev, x, s, tok, e)
        \/ Waiting(x) /\ ReplaceToken(ev, x, s, tok, e)
        \/ Insert(tr, later, s, tok, e)
        \/ Waiting(x) /\ HookBehind(ev, x, NextMicrostep, f, s, e)
    BY <1>3 DEF Spaced, Waiting
  <2>5. Waiting(x) => x \in Live /\ ev[x].trigger = tr
    <3> SUFFICES ASSUME Waiting(x)
                 PROVE  x \in Live /\ ev[x].trigger = tr
      OBVIOUS
    <3>1. ev[x].trigger = tr
      BY <2>1 DEF LastIsOwn
    <3> HIDE DEF x
    <3>2. x \in Live
      BY <2>1, WaitingIsLive DEF Waiting
    <3> QED
      BY <3>1, <3>2
  <2> HIDE DEF x, later, f
  <2>6. CASE Drop(ev, x, s, tok, e)
    BY <2>6, DropSettles DEF Noted
  <2>7. CASE Waiting(x) /\ ReplaceToken(ev, x, s, tok, e)
    BY <2>5, <2>7, ReplaceTokenSettles DEF Noted
  <2>8. CASE Insert(tr, later, s, tok, e)
    BY <2>2, <2>8, InsertSettles
  <2>9. CASE Waiting(x) /\ HookBehind(ev, x, NextMicrostep, f, s, e)
    BY <2>3, <2>5, <2>9, HookBehindSettles DEF Noted
  <2> QED
    BY <2>4, <2>6, <2>7, <2>8, <2>9
<1> QED
  BY <1>2, <1>3

(* A call of _lf_schedule, with the token counted once more.                 *)
LEMMA LfScheduleSettles ==
  ASSUME QInv, Kin, LastIsOwn, NEW tr \in DOMAIN prog, prog[tr].kind \in Actions, NEW d \in Nat,
         NEW s \in Store, NEW tok \in Tokens \cup {NULL}, LfSchedule(tr, d, s, tok)
  PROVE  Settled(tr, AddReference(s, tok), tok)
<1> DEFINE at(lag) == current_tag.time + lag + prog[tr].offset + d
           u == AddReference(s, tok)
<1>1. PICK lag \in PhysicalLag(tr), n \in NewEvents(1) :
        IF prog[tr].period < 0 THEN Unspaced(tr, at(lag), u, tok, n[1])
        ELSE Spaced(tr, at(lag), u, tok, n[1])
  BY DEF LfSchedule
<1> DEFINE e == n[1]
           t == at(lag)
<1>2. e \in Events \ Live
  BY NewEventsFacts
<1>3. prog[tr] \in Fields /\ current_tag.time \in Nat /\ lag \in Nat
  BY DEF QInv, TypeOK, Tag, PhysicalLag
<1>4. t \in Nat /\ prog[tr].period \in Int /\ u \in Store
  BY <1>3, AddReferenceType DEF Fields
<1>5. IF prog[tr].period < 0 THEN Unspaced(tr, t, u, tok, e) ELSE Spaced(tr, t, u, tok, e)
  BY <1>1
<1> HIDE DEF t, u, e
<1>6. ASSUME prog[tr].period < 0
      PROVE  Settled(tr, u, tok)
  BY <1>2, <1>4, <1>5, <1>6, UnspacedSettles
<1>7. ASSUME ~(prog[tr].period < 0)
      PROVE  Settled(tr, u, tok)
  <2>1. prog[tr].period >= 0
    BY <1>4, <1>7
  <2> QED
    BY <1>2, <1>4, <1>5, <1>7, <2>1, SpacedSettles
<1>8. Settled(tr, u, tok)
  BY <1>6, <1>7
<1> QED
  BY <1>8 DEF u

(* The event behind its spacers carries the token.                           *)
LEMMA SpacersSettle ==
  ASSUME QInv, Kin, NEW k \in Nat \ {0}, NEW n \in NewEvents(k), NEW tr \in DOMAIN prog,
         NEW t \in Nat, NEW s, NEW tok \in Tokens \cup {NULL}, NEW p \in Live \cup {NULL},
         p \in Live => ev[p].trigger = tr,
         Use(n, IF p = NULL THEN WithSpacers(n, tr, t, tok)
                ELSE [WithSpacers(n, tr, t, tok) EXCEPT ![p].next = FirstOf(n)]),
         store' = s
  PROVE  Settled(tr, s, tok)
<1> DEFINE U == {n[i] : i \in DOMAIN n}
           w == WithSpacers(n, tr, t, tok)
           first == FirstOf(n)
           f == IF p = NULL THEN w ELSE [w EXCEPT ![p].next = first]
<1>1. /\ U \in SUBSET (Events \ Live) /\ first \in U /\ n[1] \in U
      /\ w \in [Events -> EventFields]
      /\ \A x \in U : /\ w[x].trigger = tr /\ w[x].next \in (U \ {first}) \cup {NULL}
                      /\ w[x].token = IF x = n[1] THEN tok ELSE NULL
      /\ \A x \in Events \ U : w[x] = ev[x]
  BY SpacerFacts
<1>2. Live' = Live \cup U /\ ev' = f
  <2>1. {n[i] : i \in DOMAIN n} \in SUBSET (Events \ Live)
    BY <1>1
  <2> HIDE DEF w, first
  <2>2. Use(n, f)
    BY DEF w, first
  <2> HIDE DEF f
  <2> QED
    BY <2>1, <2>2, UseLive
<1> HIDE DEF U, w, first
<1>3. Live \subseteq Events /\ NULL \notin Events
  BY QueueAssumption DEF QInv, TypeOK, Live
<1>4. /\ \A x \in Events : x # p => ev'[x] = w[x]
      /\ p \in Live => ev'[p] = [w[p] EXCEPT !.next = first]
  BY <1>1, <1>2, <1>3
<1> HIDE DEF f
<1>5. \A x \in Live : /\ ev'[x].token = ev[x].token /\ ev'[x].trigger = ev[x].trigger
                      /\ x # p => ev'[x].next = ev[x].next
                      /\ x = p => ev'[x].next = first
  <2> TAKE x \in Live
  <2>1. x \in Events /\ w[x] = ev[x] /\ w[x] \in EventFields
    BY <1>1, <1>3
  <2>2. CASE x # p
    BY <1>4, <2>1, <2>2
  <2>3. CASE x = p
    <3>1. ev'[x] = [w[x] EXCEPT !.next = first]
      BY <1>4, <2>3
    <3> QED
      BY <2>1, <2>3, <3>1 DEF EventFields
  <2> QED
    BY <2>2, <2>3
<1>6. \A x \in U : ev'[x] = w[x]
  BY <1>1, <1>3, <1>4
<1>7. Kin'
  <2>1. /\ \A x \in U : ev'[x].trigger = tr /\ ev'[x].next \in U \cup {NULL}
        /\ p \in Live => ev[p].trigger = tr
        /\ p \in Live => ev'[p].next \in U
        /\ \A x \in Live : ev'[x].trigger = ev[x].trigger /\ (x # p => ev'[x].next = ev[x].next)
        /\ Live' = Live \cup U /\ p \in Live \cup {NULL} /\ U \in SUBSET (Events \ Live)
    BY <1>1, <1>2, <1>5, <1>6
  <2>2. \A x \in U : ev'[x].trigger = tr
    BY <2>1
  <2>3. \A x \in U : ev'[x].next \in U \cup {NULL}
    BY <2>1
  <2>4. \A x \in Live : ev'[x].trigger = ev[x].trigger
    BY <2>1
  <2>5. \A x \in Live : x # p => ev'[x].next = ev[x].next
    BY <2>1
  <2>6. Live' = Live \cup U /\ U \in SUBSET (Events \ Live)
    BY <2>1
  <2>7. (p \in Live => ev[p].trigger = tr) /\ (p \in Live => ev'[p].next \in U)
    BY <2>1
  <2> QED
    BY <2>2, <2>3, <2>4, <2>5, <2>6, <2>7, KinKeeps
<1>8. Carried(tr, s, tok)
  <2>1. \A x \in U : ev'[x].trigger = tr /\ ev'[x].token = IF x = n[1] THEN tok ELSE NULL
    BY <1>1, <1>6
  <2> QED
    BY <1>1, <1>2, <1>5, <2>1 DEF Carried
<1> QED
  BY <1>7, <1>8 DEF Settled

(* The outcome of _lf_schedule_at_tag for a tag that is taken,               *)
LEMMA TagTakenSettles ==
  ASSUME QInv, Kin, NEW w, Noted(w), NEW q \in Live, NEW limit, NEW tr \in DOMAIN prog,
         ev[q].trigger = tr, NEW g \in Tag, NEW s, NEW tok \in Tokens,
         TagTaken(w, q, limit, tr, g, s, tok)
  PROVE  Settled(tr, s, tok)
<1> DEFINE f == EventOf(tr, g.time, tok)
<1>1. PICK n \in NewEvents(1) :
        \/ Drop(w, q, s, tok, n[1])
        \/ ReplaceToken(w, q, s, tok, n[1])
        \/ HookBehind(w, q, limit, f, s, n[1])
        \/ Use(n, [w EXCEPT ![n[1]] = f]) /\ store' = s
  BY DEF TagTaken
<1>2. n[1] \in Events \ Live
  BY NewEventsFacts
<1>3. g.time \in Nat /\ tok \in Tokens \cup {NULL}
  BY DEF Tag
<1>4. f \in EventFields /\ f.trigger = tr /\ f.next = NULL /\ f.token = tok
  BY <1>3, EventOfType DEF QInv, TypeOK
<1> HIDE DEF f
<1>5. CASE Drop(w, q, s, tok, n[1])
  BY <1>2, <1>5, DropSettles
<1>6. CASE ReplaceToken(w, q, s, tok, n[1])
  BY <1>2, <1>6, ReplaceTokenSettles
<1>7. CASE HookBehind(w, q, limit, f, s, n[1])
  BY <1>2, <1>4, <1>7, HookBehindSettles
<1>8. CASE Use(n, [w EXCEPT ![n[1]] = f]) /\ store' = s
  <2> DEFINE p == NULL
             e == n[1]
  <2>1. n = <<e>>
    <3>1. Len(n) = 1 /\ DOMAIN n = 1 .. 1 /\ n \in [1 .. 1 -> recycle_q \cup (Events \ calloced)]
      BY NewEventsFacts DEF NewEvents
    <3>2. DOMAIN <<e>> = 1 .. 1 /\ <<e>>[1] = e
      OBVIOUS
    <3> QED
      BY <3>1, <3>2
  <2>2. /\ p \in Live \cup {NULL} /\ store' = s
        /\ p \in Live => ev[p].trigger = tr
        /\ Use(<<e>>, IF p = NULL THEN [w EXCEPT ![e] = f]
                      ELSE [w EXCEPT ![e] = f, ![p].next = e])
    BY <1>8, <2>1, QueueAssumption DEF QInv, TypeOK, Live
  <2> HIDE DEF p, e
  <2>3. e \in Events \ Live
    BY <1>2 DEF e
  <2> QED
    BY <1>4, <2>2, <2>3, OneCarries
<1> QED
  BY <1>1, <1>5, <1>6, <1>7, <1>8

(* behind an event of the chain,                                             *)
LEMMA AppendSettles ==
  ASSUME QInv, Kin, NEW p \in Live, NEW tr \in DOMAIN prog, ev[p].trigger = tr,
         NEW k \in Nat \ {0}, NEW n \in NewEvents(k),
         NEW g \in Tag, NEW s, NEW tok \in Tokens, AppendAt(p, n, tr, g, s, tok)
  PROVE  Settled(tr, s, tok)
<1>1. /\ Use(n, [WithSpacers(n, tr, g.time, tok) EXCEPT ![p].next = FirstOf(n)])
      /\ store' = s
  BY DEF AppendAt
<1>2. g.time \in Nat /\ tok \in Tokens \cup {NULL}
  BY DEF Tag
<1>3. p \in Live \cup {NULL} /\ p # NULL
  BY QueueAssumption DEF QInv, TypeOK, Live
<1>4. Use(n, IF p = NULL THEN WithSpacers(n, tr, g.time, tok)
             ELSE [WithSpacers(n, tr, g.time, tok) EXCEPT ![p].next = FirstOf(n)])
  BY <1>1, <1>3
<1> QED
  BY <1>1, <1>2, <1>3, <1>4, SpacersSettle

(* as the first of its time,                                                 *)
LEMMA AtTagAloneSettles ==
  ASSUME QInv, Kin, NEW tr \in DOMAIN prog, NEW g \in Tag, TagLess(current_tag, g), NEW s,
         NEW tok \in Tokens, AtTagAlone(tr, g, s, tok)
  PROVE  Settled(tr, s, tok)
<1> DEFINE relative == IF g.time = current_tag.time
                       THEN g.microstep - current_tag.microstep ELSE g.microstep
           spacers == IF g.time = current_tag.time /\ relative = 1 THEN 0 ELSE relative
           k == 1 + spacers
           p == NULL
<1>1. PICK n \in NewEvents(k) : Use(n, WithSpacers(n, tr, g.time, tok)) /\ store' = s
  BY DEF AtTagAlone
<1>2. k \in Nat \ {0} /\ g.time \in Nat /\ tok \in Tokens \cup {NULL}
  BY DEF QInv, TypeOK, Tag, TagLess
<1> HIDE DEF k
<1>3. /\ p \in Live \cup {NULL} /\ (p \in Live => ev[p].trigger = tr) /\ store' = s
      /\ Use(n, IF p = NULL THEN WithSpacers(n, tr, g.time, tok)
                ELSE [WithSpacers(n, tr, g.time, tok) EXCEPT ![p].next = FirstOf(n)])
  BY <1>1, QueueAssumption DEF QInv, TypeOK, Live
<1> HIDE DEF p
<1> QED
  BY <1>2, <1>3, SpacersSettle

(* and in a chain that is there.                                             *)
LEMMA AtTagBehindSettles ==
  ASSUME QInv, Kin, NEW h \in Live, NEW tr \in DOMAIN prog, ev[h].trigger = tr, NEW g \in Tag,
         NEW s, NEW tok \in Tokens, AtTagBehind(h, tr, g, s, tok)
  PROVE  Settled(tr, s, tok)
<1> DEFINE base == IF g.time = current_tag.time THEN current_tag.microstep + 1 ELSE 0
           skip == IF g.microstep > base THEN g.microstep - 1 - base ELSE 0
           rest == ChainLength(h) - 1
           p == Follow(h, skip)
           k == 1 + skip - rest
           w == [ev EXCEPT ![h].is_dummy = FALSE]
<1>1. /\ ChainLength(h) \in 1 .. Cardinality(Events) /\ Cardinality(Events) \in Nat
      /\ \A i \in 0 .. ChainLength(h) - 1 : Follow(h, i) \in Live /\ ev[Follow(h, i)].trigger = tr
  BY ChainFacts, FollowFacts, ChainKin
<1>2. base \in Nat /\ g.microstep \in Nat
  BY DEF QInv, TypeOK, Tag
<1>3. skip \in Nat /\ rest \in Nat
  BY <1>1, <1>2
<1>4. LastOf(h) \in Live /\ ev[LastOf(h)].trigger = tr
  <2>1. rest \in 0 .. ChainLength(h) - 1 /\ LastOf(h) = Follow(h, rest)
    BY <1>1, <1>3 DEF LastOf
  <2> HIDE DEF rest
  <2> QED
    BY <1>1, <2>1
<1>5. ASSUME skip <= rest
      PROVE  /\ p \in Live /\ ev[p].trigger = tr
             /\ ev[p].next # NULL => ev[p].next \in Live /\ ev[ev[p].next].trigger = tr
  <2>1. skip \in 0 .. ChainLength(h) - 1
    BY <1>3, <1>5
  <2> HIDE DEF skip
  <2>2. p \in Live /\ ev[p].trigger = tr
    BY <1>1, <2>1
  <2> HIDE DEF p
  <2> QED
    BY <2>2 DEF QInv, LinkInv, Kin
<1>6. \/ TagTaken(w, h, TagOf(g.time, 1), tr, g, s, tok)
      \/ skip > rest /\ \E n \in NewEvents(k) : AppendAt(LastOf(h), n, tr, g, s, tok)
      \/ skip <= rest /\ \E n \in NewEvents(1) : AppendAt(p, n, tr, g, s, tok)
      \/ /\ skip <= rest /\ ev[p].next # NULL
         /\ TagTaken(ev, ev[p].next, TagOf(g.time, base + skip + 1), tr, g, s, tok)
  BY <1>3 DEF AtTagBehind
<1>11. Noted(w) /\ Noted(ev)
  BY DEF Noted
<1> HIDE DEF skip, rest, p, base, w
<1>7. CASE TagTaken(w, h, TagOf(g.time, 1), tr, g, s, tok)
  BY <1>7, <1>11, TagTakenSettles
<1>8. CASE skip > rest /\ \E n \in NewEvents(k) : AppendAt(LastOf(h), n, tr, g, s, tok)
  <2>1. k \in Nat \ {0}
    BY <1>3, <1>8
  <2> HIDE DEF k
  <2> QED
    BY <1>4, <1>8, <2>1, AppendSettles
<1>9. CASE skip <= rest /\ \E n \in NewEvents(1) : AppendAt(p, n, tr, g, s, tok)
  <2>1. 1 \in Nat \ {0}
    OBVIOUS
  <2> QED
    BY <1>5, <1>9, <2>1, AppendSettles
<1>10. CASE /\ skip <= rest /\ ev[p].next # NULL
            /\ TagTaken(ev, ev[p].next, TagOf(g.time, base + skip + 1), tr, g, s, tok)
  BY <1>5, <1>10, <1>11, TagTakenSettles
<1> QED
  BY <1>6, <1>7, <1>8, <1>9, <1>10

(* The token tok, counted in s, has no holder yet.                           *)
Fresh(tr, s, tok) ==
  /\ tok \in Tokens \cup {NULL} /\ tok \notin Held
  /\ Sound(s, (Held \cup {tok}) \ {NULL}, Templated, Cardinality(Typed))
  /\ tok # NULL /\ tok \in Templated => tok = template[tr] /\ tr \notin Shown

(* The triggers with a type are finitely many.                               *)
LEMMA TypedCount ==
  ASSUME QInv
  PROVE  IsFiniteSet(Typed) /\ Cardinality(Typed) \in Int
<1>1. IsFiniteSet(DOMAIN prog)
  BY ProgramsAssumption DEF QInv
<1>2. Typed \in SUBSET DOMAIN prog
  BY DEF Typed
<1> QED
  BY <1>1, <1>2, FS_Subset, FS_CardinalityType

(* Fewer holders and fewer templates.                                        *)
LEMMA FewerUsers ==
  ASSUME NEW s, NEW H, NEW T, NEW n, Sound(s, H, T, n), NEW G \in SUBSET H, NEW R \in SUBSET T
  PROVE  Sound(s, G, R, n)
BY DEF Sound

(* The links of the tokens when one event e comes to carry tok.              *)
LEMMA LinksKeep ==
  ASSUME QInv, TokenLinks, UNCHANGED <<prog, template, present>>, NEW tr \in DOMAIN prog,
         NEW tok, tok \notin Held,
         tok # NULL /\ tok \in Templated => tok = template[tr] /\ tr \notin Shown,
         NEW e, e \in Live', ev'[e].trigger = tr, ev'[e].token = tok,
         \A x \in Live' : x # e =>
           \/ ev'[x].token = NULL
           \/ x \in Live /\ ev'[x].token = ev[x].token /\ ev'[x].trigger = ev[x].trigger
  PROVE  TokenLinks'
<1>1. Shown' = Shown
  BY DEF Shown
<1>2. \A x \in Live : ev[x].token # NULL => ev[x].token \in Held
  BY DEF Held
<1>3. ASSUME NEW x \in Live', NEW y \in Live', ev'[x].token = ev'[y].token, ev'[x].token # NULL
      PROVE  x = y
  BY <1>2, <1>3 DEF TokenLinks
<1>4. ASSUME NEW x \in Live', NEW r \in DOMAIN prog, ev'[x].token = template[r],
             template[r] # NULL
      PROVE  ev'[x].trigger = r /\ r \notin Shown
  <2>1. CASE x # e
    BY <1>4, <2>1 DEF TokenLinks
  <2>2. CASE x = e
    <3>1. tok \in Templated /\ tok # NULL
      BY <1>4, <2>2 DEF Templated
    <3>2. template[r] = template[tr] /\ tr \notin Shown
      BY <1>4, <2>2, <3>1
    <3>3. r = tr
      BY <1>4, <3>2 DEF TokenLinks
    <3> QED
      BY <2>2, <3>2, <3>3
  <2> QED
    BY <2>1, <2>2
<1> QED
  BY <1>1, <1>3, <1>4 DEF TokenLinks

(* The tokens when a new event carries the one of the call,                  *)
LEMMA CarriedKeeps ==
  ASSUME QInv, TokenInv, UNCHANGED <<prog, template, present>>, NEW tr \in DOMAIN prog,
         NEW s, NEW tok, Fresh(tr, s, tok), Carried(tr, s, tok)
  PROVE  Sound(store', Held', Templated', Cardinality(Typed')) /\ TokenLinks'
<1>1. PICK U \in SUBSET (Events \ Live) : \E e \in U :
        /\ Live' = Live \cup U
        /\ \A x \in Live : ev'[x].token = ev[x].token /\ ev'[x].trigger = ev[x].trigger
        /\ \A x \in U : ev'[x].trigger = tr /\ ev'[x].token = IF x = e THEN tok ELSE NULL
        /\ store' = s
  BY DEF Carried
<1>2. PICK e \in U :
        /\ Live' = Live \cup U
        /\ \A x \in Live : ev'[x].token = ev[x].token /\ ev'[x].trigger = ev[x].trigger
        /\ \A x \in U : ev'[x].trigger = tr /\ ev'[x].token = IF x = e THEN tok ELSE NULL
        /\ store' = s
  BY <1>1
<1>3. Shown' = Shown /\ Templated' = Templated /\ Typed' = Typed
  BY DEF Shown, Templated, Typed
<1>4. e \in Live' /\ e \notin Live /\ ev'[e].trigger = tr /\ ev'[e].token = tok
  BY <1>2
<1>5. \A x \in Live' : x # e =>
        \/ ev'[x].token = NULL
        \/ x \in Live /\ ev'[x].token = ev[x].token /\ ev'[x].trigger = ev[x].trigger
  BY <1>2
<1>6. TokenLinks'
  <2>1. TokenLinks /\ tok \notin Held
        /\ (tok # NULL /\ tok \in Templated => tok = template[tr] /\ tr \notin Shown)
    BY DEF TokenInv, Fresh
  <2> QED
    BY <1>4, <1>5, <2>1, LinksKeep
<1>7. Held' \in SUBSET ((Held \cup {tok}) \ {NULL})
  BY <1>3, <1>4, <1>5 DEF Held
<1>8. Sound(store', Held', Templated, Cardinality(Typed))
  <2>1. Sound(s, (Held \cup {tok}) \ {NULL}, Templated, Cardinality(Typed)) /\ store' = s
    BY <1>2 DEF Fresh
  <2> QED
    BY <1>7, <2>1, FewerHolders
<1> QED
  BY <1>3, <1>6, <1>8

(* when nobody does,                                                         *)
LEMMA RefusedKeeps ==
  ASSUME QInv, TokenInv, UNCHANGED <<prog, template, present>>, NEW tr, NEW s, NEW tok,
         Fresh(tr, s, tok), Refused(s, tok)
  PROVE  Sound(store', Held', Templated', Cardinality(Typed')) /\ TokenLinks'
<1> DEFINE H == (Held \cup {tok}) \ {NULL}
<1>1. /\ Live' = Live
      /\ \A x \in Live : ev'[x].token = ev[x].token /\ ev'[x].trigger = ev[x].trigger
      /\ store' \in {s, DoneUsing(s, tok)}
  BY DEF Refused
<1>2. Shown' = Shown /\ Templated' = Templated /\ Typed' = Typed
  BY DEF Shown, Templated, Typed
<1>3. Held' = Held
  BY <1>1, <1>2 DEF Held
<1>4. TokenLinks'
  BY <1>1, <1>2 DEF TokenLinks, TokenInv
<1>5. /\ Sound(s, H, Templated, Cardinality(Typed)) /\ tok \notin Held /\ NULL \notin Held
      /\ Held \in SUBSET H /\ Held = H \ {tok} /\ (tok # NULL => tok \in H)
  BY DEF Fresh, Held
<1> HIDE DEF H
<1>6. Sound(store', Held, Templated, Cardinality(Typed))
  <2>1. CASE store' = s \/ tok = NULL
    <3>1. store' = s
      BY <1>1, <2>1 DEF DoneUsing
    <3> QED
      BY <1>5, <3>1, FewerHolders
  <2>2. CASE store' = DoneUsing(s, tok) /\ tok # NULL
    BY <1>5, <2>2, DoneSound, TypedCount
  <2> QED
    BY <1>1, <2>1, <2>2
<1> QED
  BY <1>2, <1>3, <1>4, <1>6

(* when an event exchanges its own for it,                                   *)
LEMMA ReplacedKeeps ==
  ASSUME QInv, TokenInv, UNCHANGED <<prog, template, present>>, NEW tr \in DOMAIN prog,
         NEW s, NEW tok, Fresh(tr, s, tok), Replaced(tr, s, tok)
  PROVE  Sound(store', Held', Templated', Cardinality(Typed')) /\ TokenLinks'
<1>1. PICK e \in Live :
        /\ ev[e].trigger = tr /\ Live' = Live
        /\ \A y \in Live : /\ ev'[y].trigger = ev[y].trigger
                           /\ ev'[y].token = IF y = e THEN tok ELSE ev[y].token
        /\ store' = IF ev[e].token # tok THEN DoneUsing(s, ev[e].token) ELSE s
  BY DEF Replaced
<1> DEFINE H == (Held \cup {tok}) \ {NULL}
           old == ev[e].token
<1>2. Shown' = Shown /\ Templated' = Templated /\ Typed' = Typed
  BY DEF Shown, Templated, Typed
<1>3. TokenLinks'
  <2>1. TokenLinks /\ tok \notin Held
        /\ (tok # NULL /\ tok \in Templated => tok = template[tr] /\ tr \notin Shown)
    BY DEF TokenInv, Fresh
  <2>2. e \in Live' /\ ev'[e].trigger = tr /\ ev'[e].token = tok
    BY <1>1
  <2>3. \A x \in Live' : x # e =>
          \/ ev'[x].token = NULL
          \/ x \in Live /\ ev'[x].token = ev[x].token /\ ev'[x].trigger = ev[x].trigger
    BY <1>1
  <2> QED
    BY <2>1, <2>2, <2>3, LinksKeep
<1>4. Held' \in SUBSET H
  BY <1>1, <1>2 DEF Held
<1>5. ASSUME old # NULL
      PROVE  old \in Held /\ old \in H /\ old # tok /\ Held' \in SUBSET (H \ {old})
  <2>1. old \in Held
    BY <1>5 DEF Held
  <2>2. old # tok /\ old \in H
    BY <1>5, <2>1 DEF Fresh
  <2>3. \A x \in Live : x # e => ev[x].token # old
    BY <1>5 DEF TokenInv, TokenLinks
  <2>4. \A r \in Shown : template[r] # old
    <3>1. \A r \in Shown : r \in DOMAIN prog
      BY DEF Shown, QInv, TypeOK
    <3> QED
      BY <1>5, <3>1 DEF TokenInv, TokenLinks
  <2>5. old \notin Held'
    BY <1>1, <1>2, <2>2, <2>3, <2>4 DEF Held
  <2> QED
    BY <1>4, <2>1, <2>2, <2>5
<1>6. Sound(s, H, Templated, Cardinality(Typed))
  BY DEF Fresh
<1>7. store' = IF old # tok THEN DoneUsing(s, old) ELSE s
  BY <1>1
<1> HIDE DEF H, old
<1>8. Sound(store', Held', Templated, Cardinality(Typed))
  <2>1. CASE old = NULL
    <3>1. store' = s
      BY <1>7, <2>1 DEF DoneUsing
    <3> QED
      BY <1>4, <1>6, <3>1, FewerHolders
  <2>2. CASE old # NULL
    <3>1. Sound(DoneUsing(s, old), H \ {old}, Templated, Cardinality(Typed))
      BY <1>5, <1>6, <2>2, DoneSound, TypedCount
    <3>2. store' = DoneUsing(s, old)
      BY <1>5, <1>7, <2>2
    <3> QED
      BY <1>5, <2>2, <3>1, <3>2, FewerHolders
  <2> QED
    BY <2>1, <2>2
<1> QED
  BY <1>2, <1>3, <1>8

(* and thus after every call.                                                *)
LEMMA SettledKeeps ==
  ASSUME QInv, TokenInv, UNCHANGED <<prog, template, present>>, NEW tr \in DOMAIN prog,
         NEW s, NEW tok, Fresh(tr, s, tok), Settled(tr, s, tok)
  PROVE  TokenInv'
<1>1. Kin' /\ (Carried(tr, s, tok) \/ Refused(s, tok) \/ Replaced(tr, s, tok))
  BY DEF Settled
<1>2. Sound(store', Held', Templated', Cardinality(Typed')) /\ TokenLinks'
  BY <1>1, CarriedKeeps, RefusedKeeps, ReplacedKeeps
<1> QED
  BY <1>1, <1>2 DEF TokenInv

-----------------------------------------------------------------------------
(* The steps of the queue keep the tokens *)

(* A call of _lf_schedule with a token that has no holder yet.               *)
LEMMA HandedTokens ==
  ASSUME QInv, TokenInv, LastIsOwn, UNCHANGED <<prog, template, present>>,
         NEW tr \in DOMAIN prog, prog[tr].kind \in Actions, NEW d \in Nat, NEW s \in Store,
         NEW tok, Fresh(tr, AddReference(s, tok), tok), LfSchedule(tr, d, s, tok)
  PROVE  TokenInv'
<1>1. tok \in Tokens \cup {NULL} /\ Kin
  BY DEF Fresh, TokenInv
<1>2. Settled(tr, AddReference(s, tok), tok)
  BY <1>1, LfScheduleSettles
<1> QED
  BY <1>2, SettledKeeps

(* The calls of _lf_schedule: without a token, with a new one, with a copy.  *)
LEMMA ScheduleTokens ==
  ASSUME QInv, TokenInv, LastIsOwn, NEW tr \in DOMAIN prog, NEW d \in Delays,
         ScheduleVoid(tr, d) \/ ScheduleValue(tr, d) \/ ScheduleCopy(tr, d)
  PROVE  TokenInv'
<1> DEFINE own == template[tr]
           with(t) == [CreateToken(store, t) EXCEPT !.token[t].value = TRUE]
           filled == [store EXCEPT !.token[own].value = TRUE]
<1>1. /\ UNCHANGED <<prog, template, present>> /\ prog[tr].kind \in Actions
      /\ d \in Nat /\ store \in Store
  BY QueueAssumption DEF ScheduleVoid, ScheduleValue, ScheduleCopy, Calling, QInv, TypeOK
<1>2. Sound(store, Held, Templated, Cardinality(Typed)) /\ NULL \notin Held
      /\ Cardinality(Typed) \in Int
  BY TypedCount DEF TokenInv, Held
<1>3. ASSUME NEW t \in NewTokens(store)
      PROVE  with(t) \in Store /\ Fresh(tr, AddReference(with(t), t), t)
  <2>1. /\ t \in Tokens /\ t \notin Held \cup Templated
        /\ Sound(with(t), Held, Templated, Cardinality(Typed))
        /\ Sound(AddReference(with(t), t), Held \cup {t}, Templated, Cardinality(Typed))
    BY <1>2, NewTokenSound
  <2> HIDE DEF with
  <2>2. (Held \cup {t}) \ {NULL} = Held \cup {t}
    BY <1>2, <2>1, TokensAssumption
  <2> QED
    BY <2>1, <2>2 DEF Fresh, Sound
<1>4. CASE ScheduleVoid(tr, d)
  <2> DEFINE tok == NULL
  <2>1. AddReference(store, tok) = store /\ (Held \cup {tok}) \ {NULL} = Held
    BY <1>2 DEF AddReference
  <2>2. Fresh(tr, AddReference(store, tok), tok)
    BY <1>2, <2>1 DEF Fresh
  <2>3. LfSchedule(tr, d, store, tok)
    BY <1>4 DEF ScheduleVoid
  <2> HIDE DEF tok
  <2> QED
    BY <1>1, <2>2, <2>3, HandedTokens
<1>5. CASE ScheduleValue(tr, d)
  <2>1. PICK t \in NewTokens(store) : LfSchedule(tr, d, with(t), t)
    BY <1>5 DEF ScheduleValue
  <2> HIDE DEF with
  <2> QED
    BY <1>1, <1>3, <2>1, HandedTokens
<1>6. CASE ScheduleCopy(tr, d)
  <2>1. own \in Tokens /\ own # NULL /\ own \in Templated
    BY <1>6 DEF ScheduleCopy, QInv, TypeOK, Templated
  <2>2. PICK u \in InitializeToken(store, own) : LfSchedule(tr, d, u[1], u[2])
    BY <1>6 DEF ScheduleCopy
  <2>3. PICK v \in IF store.token[own].ref_count = 0 THEN {<<store, own>>}
                   ELSE {<<CreateToken(store, t), t>> : t \in NewTokens(store)} :
          u = <<[v[1] EXCEPT !.token[v[2]].value = TRUE], v[2]>>
    BY <2>2 DEF InitializeToken
  <2>4. CASE store.token[own].ref_count = 0
    <3>1. LfSchedule(tr, d, filled, own)
      <4>1. v = <<store, own>>
        BY <2>3, <2>4
      <4>2. u = <<filled, own>>
        BY <2>3, <4>1
      <4> HIDE DEF filled, own
      <4> QED
        BY <2>2, <4>2
    <3>2. Sound(filled, Held, Templated, Cardinality(Typed))
          /\ (\A k : Spare(filled, k) <=> Spare(store, k))
      BY <1>2, <2>1, ValueSound
    <3>3. ~Spare(store, own)
      BY <1>2, <2>1, NotSpare
    <3> HIDE DEF filled
    <3>4. own \notin Held
      BY <1>2, <2>4 DEF Sound
    <3>5. tr \notin Shown
      BY <2>1, <3>4 DEF Held
    <3>6. own = template[tr]
      OBVIOUS
    <3> HIDE DEF own
    <3>7. Sound(AddReference(filled, own), Held \cup {own}, Templated, Cardinality(Typed))
      BY <1>2, <2>1, <3>2, <3>3, AddSound
    <3>8. (Held \cup {own}) \ {NULL} = Held \cup {own} /\ filled \in Store
      BY <1>2, <2>1, <3>2 DEF Sound
    <3>9. Fresh(tr, AddReference(filled, own), own)
      BY <2>1, <3>4, <3>5, <3>6, <3>7, <3>8 DEF Fresh
    <3> QED
      BY <1>1, <3>1, <3>8, <3>9, HandedTokens
  <2>5. CASE store.token[own].ref_count # 0
    <3>1. PICK t \in NewTokens(store) : v = <<CreateToken(store, t), t>>
      BY <2>3, <2>5
    <3>2. u = <<with(t), t>>
      BY <2>3, <3>1
    <3> HIDE DEF with, own
    <3>3. LfSchedule(tr, d, with(t), t)
      BY <2>2, <3>2
    <3> QED
      BY <1>1, <1>3, <3>3, HandedTokens
  <2> QED
    BY <2>4, <2>5
<1> QED
  BY <1>4, <1>5, <1>6

(* A call of _lf_schedule_at_tag.                                            *)
LEMMA ScheduleAtTagTokens ==
  ASSUME QInv, TokenInv, NEW tr \in DOMAIN prog, NEW g \in NetworkTags(tr), ScheduleAtTag(tr, g)
  PROVE  TokenInv'
<1> DEFINE with(t) == [CreateToken(store, t) EXCEPT !.token[t].value = TRUE]
<1>1. /\ UNCHANGED <<prog, next_q, template, present>>
      /\ \E t \in NewTokens(store) :
           LET s == AddReference(with(t), t)
           IN IF AfterStop(g) THEN store' = DoneUsing(s, t) /\ UNCHANGED queueVars
              ELSE IF Found(tr, g.time) = {} THEN AtTagAlone(tr, g, s, t)
              ELSE \E h \in Found(tr, g.time) : AtTagBehind(h, tr, g, s, t)
  BY DEF ScheduleAtTag, Calling
<1>2. PICK t \in NewTokens(store) :
        LET s == AddReference(with(t), t)
        IN IF AfterStop(g) THEN store' = DoneUsing(s, t) /\ UNCHANGED queueVars
           ELSE IF Found(tr, g.time) = {} THEN AtTagAlone(tr, g, s, t)
           ELSE \E h \in Found(tr, g.time) : AtTagBehind(h, tr, g, s, t)
  BY <1>1
<1> DEFINE s == AddReference(with(t), t)
<1>3. Sound(store, Held, Templated, Cardinality(Typed)) /\ Kin /\ NULL \notin Held
      /\ Cardinality(Typed) \in Int
  BY TypedCount DEF TokenInv, Held
<1>4. /\ t \in Tokens /\ t \notin Held \cup Templated
      /\ Sound(s, Held \cup {t}, Templated, Cardinality(Typed))
  BY <1>3, NewTokenSound
<1>5. IF AfterStop(g) THEN store' = DoneUsing(s, t) /\ UNCHANGED queueVars
      ELSE IF Found(tr, g.time) = {} THEN AtTagAlone(tr, g, s, t)
      ELSE \E h \in Found(tr, g.time) : AtTagBehind(h, tr, g, s, t)
  BY <1>2
<1> HIDE DEF s, with
<1>6. (Held \cup {t}) \ {NULL} = Held \cup {t}
  BY <1>3, <1>4, TokensAssumption
<1>7. Fresh(tr, s, t)
  BY <1>4, <1>6 DEF Fresh
<1>8. g \in Tag /\ TagLess(current_tag, g)
  BY QueueAssumption DEF NetworkTags, Tag, QInv, TypeOK
<1>9. Settled(tr, s, t)
  <2>1. CASE AfterStop(g)
    <3>1. store' = DoneUsing(s, t) /\ UNCHANGED queueVars
      BY <1>5, <2>1
    <3>2. Live' = Live /\ ev' = ev /\ store' \in {s, DoneUsing(s, t)}
      BY <3>1 DEF queueVars, Live
    <3>3. Noted(ev)
      BY DEF Noted
    <3> QED
      BY <1>3, <3>2, <3>3, NoneCarries
  <2>2. CASE ~AfterStop(g) /\ Found(tr, g.time) = {}
    <3>1. AtTagAlone(tr, g, s, t)
      BY <1>5, <2>2
    <3> QED
      BY <1>3, <1>4, <1>8, <3>1, AtTagAloneSettles
  <2>3. CASE ~AfterStop(g) /\ Found(tr, g.time) # {}
    <3>1. PICK h \in Found(tr, g.time) : AtTagBehind(h, tr, g, s, t)
      BY <1>5, <2>3
    <3>2. h \in Live /\ ev[h].trigger = tr
      BY DEF Found, QInv, LinkInv, Heads
    <3> QED
      BY <1>3, <1>4, <1>8, <3>1, <3>2, AtTagBehindSettles
  <2> QED
    BY <2>1, <2>2, <2>3
<1> QED
  BY <1>1, <1>7, <1>9, SettledKeeps

(* Network input for the current tag becomes the template of its trigger.    *)
LEMMA NetworkInputTokens ==
  ASSUME QInv, TokenInv, NEW tr \in DOMAIN prog, InsertReactionsForTrigger(tr)
  PROVE  TokenInv'
<1> DEFINE with(t) == [CreateToken(store, t) EXCEPT !.token[t].value = TRUE]
           old == template[tr]
           n == Cardinality(Typed)
<1>1. UNCHANGED <<prog, queueVars>> /\ tr \notin present /\ present' = present \cup {tr}
  BY DEF InsertReactionsForTrigger, Calling
<1>2. PICK t \in NewTokens(store) :
        /\ store' = ReplaceTemplate(AddReference(with(t), t), template[tr], t)
        /\ template' = [template EXCEPT ![tr] = t]
  BY DEF InsertReactionsForTrigger
<1> DEFINE s == AddReference(with(t), t)
<1>3. Sound(store, Held, Templated, n) /\ NULL \notin Held /\ n \in Int
  BY TypedCount DEF TokenInv, Held
<1>4. t \in Tokens /\ t \notin Held \cup Templated /\ Sound(s, Held \cup {t}, Templated, n)
  BY <1>3, NewTokenSound
<1>5. store' = ReplaceTemplate(s, old, t)
  BY <1>2
<1> HIDE DEF s, with
<1>6. /\ old \in Templated \cup {NULL} /\ t \in (Held \cup {t}) \cup {NULL} /\ t # NULL
      /\ template'[tr] = t /\ \A r \in DOMAIN prog : r # tr => template'[r] = template[r]
  BY <1>2, <1>4, TokensAssumption DEF Templated, QInv, TypeOK
<1>7. Sound(store', Held \cup {t}, (Templated \ {old}) \cup ({t} \ {NULL}), n)
  BY <1>3, <1>4, <1>5, <1>6, ReplaceSound
<1>8. /\ Live' = Live /\ ev' = ev /\ Typed' = Typed
      /\ \A r \in DOMAIN prog : r # tr => (r \in Shown' <=> r \in Shown)
      /\ Shown \subseteq DOMAIN prog /\ Shown' \subseteq DOMAIN prog
  BY <1>1 DEF Live, queueVars, Typed, Shown, QInv, TypeOK
<1>9. Held' \in SUBSET (Held \cup {t})
  <2>1. \A r \in Shown' : template'[r] \in Held \cup {t, NULL}
    BY <1>6, <1>8 DEF Held
  <2>2. \A x \in Live' : ev'[x].token \in Held \cup {NULL}
    BY <1>8 DEF Held
  <2> QED
    BY <2>1, <2>2 DEF Held
<1>10. ASSUME NEW r \in DOMAIN prog, r # tr, template[r] # NULL
       PROVE  template[r] # old /\ template[r] # t
  BY <1>4, <1>10 DEF TokenInv, TokenLinks, Templated
<1>11. Templated' \in SUBSET ((Templated \ {old}) \cup ({t} \ {NULL}))
  <2>1. \A r \in DOMAIN prog : template'[r] # NULL =>
          template'[r] \in (Templated \ {old}) \cup ({t} \ {NULL})
    BY <1>6, <1>10 DEF Templated
  <2> QED
    BY <1>1, <2>1 DEF Templated
<1>12. Sound(store', Held', Templated', Cardinality(Typed'))
  BY <1>7, <1>8, <1>9, <1>11, FewerUsers
<1>13. TokenLinks'
  <2>1. \A x, y \in DOMAIN prog : template'[x] = template'[y] /\ template'[x] # NULL => x = y
    BY <1>6, <1>10 DEF TokenInv, TokenLinks
  <2>2. ASSUME NEW x \in Live, NEW r \in DOMAIN prog, ev[x].token = template'[r],
               template'[r] # NULL
        PROVE  ev[x].trigger = r /\ r \notin Shown'
    <3>1. r # tr
      <4>1. ev[x].token # NULL => ev[x].token \in Held
        BY DEF Held
      <4> QED
        BY <1>4, <1>6, <2>2, <4>1
    <3> QED
      BY <1>6, <1>8, <2>2, <3>1 DEF TokenInv, TokenLinks
  <2>3. \A x, y \in Live : ev[x].token = ev[y].token /\ ev[x].token # NULL => x = y
    BY DEF TokenInv, TokenLinks
  <2> QED
    BY <1>1, <1>8, <2>1, <2>2, <2>3 DEF TokenLinks
<1>14. Kin'
  BY <1>8 DEF Kin, TokenInv
<1> QED
  BY <1>12, <1>13, <1>14 DEF TokenInv

(* Kin when the event e, the head of a chain, is cleared.                    *)
LEMMA PopKin ==
  ASSUME QInv, Kin, NEW e \in event_q, NEW again \in SUBSET (Events \ Live),
         Live' = (Live \ {e}) \cup again, \A x \in again : ev'[x].next = NULL,
         \A x \in Live \ {e} : ev'[x] = ev[x]
  PROVE  Kin'
<1>1. \A x \in Live : ev[x].next \in Live \cup {NULL} /\ ev[x].next # e
  BY DEF QInv, LinkInv, Heads
<1>2. ASSUME NEW x \in Live', ev'[x].next # NULL
      PROVE  ev'[ev'[x].next].trigger = ev'[x].trigger
  <2>1. x \in Live \ {e} /\ ev'[x] = ev[x]
    BY <1>2
  <2>2. ev[x].next \in Live \ {e}
    BY <1>1, <1>2, <2>1
  <2>3. ev'[ev[x].next] = ev[ev[x].next]
    BY <2>2
  <2> QED
    BY <1>2, <2>1, <2>3 DEF Kin
<1> QED
  BY <1>2 DEF Kin

(* The token of an event that triggers becomes the template of its trigger.  *)
LEMMA TriggerTokens ==
  ASSUME QInv, TokenInv, NEW e \in event_q, NEW again \in SUBSET (Events \ Live),
         UNCHANGED prog, Live' = (Live \ {e}) \cup again,
         \A x \in again : ev'[x].token = NULL,
         \A x \in Live \ {e} : ev'[x] = ev[x], Trigger(e)
  PROVE  Sound(store', Held', Templated', Cardinality(Typed')) /\ TokenLinks'
<1> DEFINE tr == ev[e].trigger
           tok == ev[e].token
           old == template[tr]
           n == Cardinality(Typed)
<1>1. e \in Live /\ tr \in DOMAIN prog /\ tok \in Held \cup {NULL}
  BY DEF QInv, LinkInv, Heads, Held
<1>2. /\ present' = present \cup {tr} /\ store' = ReplaceTemplate(store, old, tok)
      /\ template' = [template EXCEPT ![tr] = tok]
  BY DEF Trigger
<1>3. \A x \in Live : x # e => ev[x].token # tok \/ tok = NULL
  BY <1>1 DEF TokenInv, TokenLinks
<1>4. \A r \in DOMAIN prog : r # tr => template[r] # tok \/ tok = NULL
  BY <1>1 DEF TokenInv, TokenLinks
<1> HIDE DEF tok, tr
<1>5. /\ old \in Templated \cup {NULL} /\ template'[tr] = tok
      /\ \A r \in DOMAIN prog : r # tr => template'[r] = template[r]
  BY <1>1, <1>2 DEF Templated, QInv, TypeOK
<1>6. Sound(store, Held, Templated, n) /\ n \in Int
  BY TypedCount DEF TokenInv
<1>7. Sound(store', Held, (Templated \ {old}) \cup ({tok} \ {NULL}), n)
  BY <1>1, <1>2, <1>5, <1>6, ReplaceSound
<1>8. /\ Typed' = Typed /\ Shown \subseteq DOMAIN prog /\ Shown' \subseteq DOMAIN prog
      /\ \A r \in DOMAIN prog : r # tr => (r \in Shown' <=> r \in Shown)
  BY <1>1, <1>2 DEF Typed, Shown, QInv, TypeOK
<1>9. \A x \in Live' : ev'[x].token # NULL =>
        x \in Live \ {e} /\ ev'[x].token = ev[x].token /\ ev'[x].trigger = ev[x].trigger
  OBVIOUS
<1>10. Held' \in SUBSET Held
  <2>1. \A r \in Shown' : template'[r] \in Held \cup {NULL}
    BY <1>1, <1>5, <1>8 DEF Held
  <2>2. \A x \in Live' : ev'[x].token \in Held \cup {NULL}
    BY <1>9 DEF Held
  <2> QED
    BY <2>1, <2>2 DEF Held
<1>11. ASSUME NEW r \in DOMAIN prog, r # tr, template[r] # NULL
       PROVE  template[r] # old
  BY <1>1, <1>11 DEF TokenInv, TokenLinks
<1>12. Templated' \in SUBSET ((Templated \ {old}) \cup ({tok} \ {NULL}))
  <2>1. \A r \in DOMAIN prog : template'[r] # NULL =>
          template'[r] \in (Templated \ {old}) \cup ({tok} \ {NULL})
    BY <1>5, <1>11 DEF Templated
  <2> QED
    BY <2>1 DEF Templated
<1>13. Sound(store', Held', Templated', Cardinality(Typed'))
  BY <1>7, <1>8, <1>10, <1>12, FewerUsers
<1>14. TokenLinks'
  <2>1. \A x, y \in DOMAIN prog : template'[x] = template'[y] /\ template'[x] # NULL => x = y
    BY <1>4, <1>5 DEF TokenInv, TokenLinks
  <2>2. ASSUME NEW x \in Live', NEW r \in DOMAIN prog, ev'[x].token = template'[r],
               template'[r] # NULL
        PROVE  ev'[x].trigger = r /\ r \notin Shown'
    <3>1. x \in Live \ {e} /\ ev'[x].token = ev[x].token /\ ev'[x].trigger = ev[x].trigger
      BY <1>9, <2>2
    <3>2. r # tr
      BY <1>3, <1>5, <2>2, <3>1
    <3>3. ev[x].token = template[r] /\ template[r] # NULL
      BY <1>5, <2>2, <3>1, <3>2
    <3>4. ev[x].trigger = r /\ r \notin Shown
      BY <3>1, <3>3 DEF TokenInv, TokenLinks
    <3> QED
      BY <1>8, <3>1, <3>2, <3>4
  <2>3. \A x, y \in Live' : ev'[x].token = ev'[y].token /\ ev'[x].token # NULL => x = y
    BY <1>9 DEF TokenInv, TokenLinks
  <2> QED
    BY <2>1, <2>2, <2>3 DEF TokenLinks
<1> QED
  BY <1>13, <1>14

(* A spacer is popped.                                                       *)
LEMMA PopDummyTokens ==
  ASSUME QInv, TokenInv, NEW e \in Events, PopDummy(e)
  PROVE  TokenInv'
<1>1. /\ e \in event_q /\ UNCHANGED <<prog, template, present, store, calloced>>
      /\ ev' = [ev EXCEPT ![e] = Zeroed] /\ recycle_q' = recycle_q \cup {e}
  BY DEF PopDummy, Popping, Earliest
<1>2. Live' = Live \ {e} /\ \A x \in Live \ {e} : ev'[x] = ev[x]
  BY <1>1 DEF Live, QInv, TypeOK
<1>3. Kin'
  <2> DEFINE again == {}
  <2>1. /\ again \in SUBSET (Events \ Live) /\ Live' = (Live \ {e}) \cup again
        /\ \A x \in again : ev'[x].next = NULL
    BY <1>2
  <2> HIDE DEF again
  <2> QED
    BY <1>1, <1>2, <2>1, PopKin DEF TokenInv
<1>4. Typed' = Typed /\ Shown' = Shown /\ Templated' = Templated
  BY <1>1 DEF Typed, Shown, Templated
<1>5. Held' \in SUBSET Held
  BY <1>1, <1>2, <1>4 DEF Held
<1>6. Sound(store', Held', Templated', Cardinality(Typed'))
  BY <1>1, <1>4, <1>5, FewerHolders DEF TokenInv
<1>7. TokenLinks'
  BY <1>1, <1>2, <1>4 DEF TokenLinks, TokenInv
<1> QED
  BY <1>3, <1>6, <1>7 DEF TokenInv

(* An event is popped.                                                       *)
LEMMA PopEventTokens ==
  ASSUME QInv, TokenInv, NEW e \in Events, PopEvent(e)
  PROVE  TokenInv'
<1> DEFINE again == {}
<1>1. /\ e \in event_q /\ UNCHANGED <<prog, calloced>> /\ Trigger(e)
      /\ ev' = [ev EXCEPT ![e] = Zeroed] /\ recycle_q' = recycle_q \cup {e}
  BY DEF PopEvent, Popping, Earliest
<1>2. Live' = (Live \ {e}) \cup again /\ \A x \in Live \ {e} : ev'[x] = ev[x]
  BY <1>1 DEF Live, QInv, TypeOK
<1>3. /\ again \in SUBSET (Events \ Live)
      /\ \A x \in again : ev'[x].next = NULL
      /\ \A x \in again : ev'[x].token = NULL
  OBVIOUS
<1> HIDE DEF again
<1>4. Kin'
  BY <1>1, <1>2, <1>3, PopKin DEF TokenInv
<1>5. Sound(store', Held', Templated', Cardinality(Typed')) /\ TokenLinks'
  BY <1>1, <1>2, <1>3, TriggerTokens
<1> QED
  BY <1>4, <1>5 DEF TokenInv

(* The event of a periodic timer is popped, and the next one scheduled.      *)
LEMMA PopTimerTokens ==
  ASSUME QInv, TokenInv, NEW e \in Events, PopTimer(e)
  PROVE  TokenInv'
<1> DEFINE tr == ev[e].trigger
           t == current_tag.time + prog[tr].period
           more(n) == IF t > stop_tag.time THEN {} ELSE {n[1]}
<1>1. /\ e \in event_q /\ UNCHANGED prog /\ Trigger(e)
  BY DEF PopTimer, Popping, Earliest
<1>2. PICK n \in NewEvents(1) :
        /\ recycle_q' = (recycle_q \ more(n)) \cup ({n[1]} \ more(n)) \cup {e}
        /\ ev' = [x \in Events |-> IF x = e THEN Zeroed
                                   ELSE IF x \in more(n) THEN EventOf(tr, t, NULL) ELSE ev[x]]
        /\ calloced' = calloced \cup {n[1]}
  BY DEF PopTimer
<1> DEFINE f == EventOf(tr, t, NULL)
           again == more(n)
<1>3. f.next = NULL /\ f.token = NULL
  BY DEF EventOf, Zeroed
<1>4. e \in Live /\ Live \subseteq Events
  BY <1>1 DEF QInv, LinkInv, Heads, TypeOK, Live
<1>5. n[1] \in Events \ Live
  BY NewEventsFacts
<1>6. again \in {{}, {n[1]}} /\ again \in SUBSET (Events \ Live)
  BY <1>5
<1> HIDE DEF f, t, tr
<1>7. /\ recycle_q' = (recycle_q \ again) \cup ({n[1]} \ again) \cup {e}
      /\ ev' = [x \in Events |-> IF x = e THEN Zeroed ELSE IF x \in again THEN f ELSE ev[x]]
  BY <1>2 DEF f
<1> HIDE DEF again
<1>8. Live' = (Live \ {e}) \cup again
  BY <1>2, <1>4, <1>5, <1>6, <1>7 DEF Live
<1>9. /\ \A x \in again : ev'[x].next = NULL
      /\ \A x \in again : ev'[x].token = NULL
      /\ \A x \in Live \ {e} : ev'[x] = ev[x]
  BY <1>3, <1>4, <1>6, <1>7
<1>10. Kin'
  BY <1>1, <1>6, <1>8, <1>9, PopKin DEF TokenInv
<1>11. Sound(store', Held', Templated', Cardinality(Typed')) /\ TokenLinks'
  BY <1>1, <1>6, <1>8, <1>9, TriggerTokens
<1> QED
  BY <1>10, <1>11 DEF TokenInv

(* The tokens of the triggers that were present are given back.              *)
LEMMA AdvanceTokens ==
  ASSUME QInv, TokenInv, Advance
  PROVE  TokenInv'
<1> DEFINE shown == {template[x] : x \in Shown}
           n == Cardinality(Typed)
<1>1. /\ UNCHANGED <<prog, queueVars, template>> /\ present' = {}
      /\ store' = ReleaseAll(template, store, Shown)
  BY DEF Advance, StartTimeStep, ReleaseAll, Shown
<1>2. /\ Live' = Live /\ ev' = ev /\ Typed' = Typed /\ Shown' = {} /\ Templated' = Templated
      /\ Shown \subseteq DOMAIN prog
  BY <1>1 DEF Live, queueVars, Typed, Shown, Templated, QInv, TypeOK
<1>3. Sound(store, Held, Templated, n) /\ n \in Int /\ store \in Store
  BY TypedCount DEF TokenInv, Sound
<1>4. Sound(store', Held \ shown, Templated, n)
  <2>1. IsFiniteSet(Shown)
    <3>1. IsFiniteSet(DOMAIN prog)
      BY ProgramsAssumption DEF QInv
    <3> QED
      BY <1>2, <3>1, FS_Subset
  <2>2. \A x \in Shown : template[x] \in Tokens \cup {NULL}
    BY <1>2 DEF QInv, TypeOK
  <2>3. PICK it : Releases(it, template, store, Shown)
                  /\ ReleaseAll(template, store, Shown) = it[Shown]
    BY <1>3, <2>1, <2>2, FoldReleases
  <2>4. \A x \in Shown : template[x] \in Held \cup {NULL}
    BY DEF Held
  <2>5. \A x, y \in Shown : template[x] = template[y] /\ template[x] # NULL => x = y
    BY <1>2 DEF TokenInv, TokenLinks
  <2>6. Sound(it[Shown], Held \ shown, Templated, n)
    BY <1>3, <2>1, <2>3, <2>4, <2>5, ReleasesSound
  <2> QED
    BY <1>1, <2>3, <2>6
<1>5. Held' \in SUBSET (Held \ shown)
  <2>1. \A x \in Live : ev[x].token # NULL => ev[x].token \in Held /\ ev[x].token \notin shown
    BY <1>2 DEF Held, TokenInv, TokenLinks
  <2>2. Held' = {ev[x].token : x \in Live} \ {NULL}
    BY <1>2 DEF Held
  <2> HIDE DEF shown
  <2> QED
    BY <2>1, <2>2
<1> HIDE DEF shown
<1>6. Sound(store', Held', Templated', Cardinality(Typed'))
  BY <1>2, <1>4, <1>5, FewerHolders
<1>7. TokenLinks'
  BY <1>1, <1>2 DEF TokenLinks, TokenInv
<1>8. Kin'
  BY <1>2 DEF Kin, TokenInv
<1> QED
  BY <1>6, <1>7, <1>8 DEF TokenInv

(* Steps that touch neither events nor tokens.                               *)
LEMMA QuietTokens ==
  ASSUME TokenInv, UNCHANGED <<prog, template, present, store, ev, calloced, recycle_q>>
  PROVE  TokenInv'
BY DEF TokenInv, TokenLinks, Kin, Held, Shown, Typed, Templated, Live

(* At first only the templates are allocated.                                *)
LEMMA InitTokens ==
  ASSUME Init
  PROVE  TokenInv
<1> DEFINE own == CHOOSE f \in Templates(prog) : TRUE
           used == {own[tr] : tr \in DOMAIN own}
<1>1. /\ prog \in Programs /\ calloced = event_q /\ recycle_q = {} /\ present = {}
      /\ template = [tr \in DOMAIN prog |-> IF prog[tr].payload THEN own[tr] ELSE NULL]
      /\ store = [token |-> [t \in Tokens |-> Blank], allocated |-> used,
                  bin |-> <<>>, count |-> 0]
  BY DEF Init
<1>2. own \in [Typed -> Tokens] /\ Injective(own)
  <2>1. own \in Templates(prog)
    BY <1>1, ProgramsAssumption
  <2> HIDE DEF own
  <2> QED
    BY <2>1 DEF Templates, Typed
<1> HIDE DEF own
<1>3. \A e \in Live : ev[e].next = NULL /\ ev[e].token = NULL
  BY <1>1, InitEvents DEF Live
<1>4. Shown = {} /\ Held = {}
  BY <1>1, <1>3 DEF Shown, Held
<1>5. Templated \in SUBSET used
  BY <1>1, <1>2, TokensAssumption DEF Templated, Typed
<1>6. QInv
  BY InitHolds
<1>7. Cardinality(used) = Cardinality(Typed) /\ Cardinality(Typed) \in Nat
  <2>1. IsFiniteSet(Typed)
    BY <1>6, TypedCount
  <2>2. own \in Bijection(Typed, used)
    <3>1. own \in [Typed -> used] /\ \A u \in used : \E x \in Typed : own[x] = u
      BY <1>2
    <3> HIDE DEF used
    <3> QED
      BY <1>2, <3>1 DEF Injective, Bijection, Injection, Surjection, IsInjective
  <2> HIDE DEF used
  <2>3. Cardinality(used) = Cardinality(Typed)
    BY <2>1, <2>2, FS_Bijection DEF ExistsBijection
  <2> QED
    BY <2>1, <2>3, FS_CardinalityType
<1>8. Sound(store, Held, Templated, Cardinality(Typed))
  <2>1. store \in Store
    BY <1>6 DEF QInv, TypeOK
  <2>2. store.allocated = used /\ store.bin = <<>> /\ store.count = 0
    BY <1>1
  <2>3. \A t \in Tokens : store.token[t].ref_count = 0 /\ ~store.token[t].ok_to_free
    BY <1>1 DEF Blank
  <2>4. DOMAIN store.bin = {} /\ Len(store.bin) = 0
    BY <2>2
  <2>5. used \in SUBSET Tokens
    BY <1>2
  <2> HIDE DEF used
  <2>6. \A t \in Tokens : Spare(store, t) => t \notin Templated
    BY <1>5, <2>2, <2>4 DEF Spare, InBin
  <2>7. store.count = Cardinality(store.allocated) - Len(store.bin) - Cardinality(Typed)
    BY <1>7, <2>2, <2>4
  <2>8. Injective(store.bin)
    BY <2>4 DEF Injective
  <2> QED
    BY <1>4, <1>5, <2>1, <2>3, <2>4, <2>5, <2>6, <2>7, <2>8 DEF Sound
<1>9. TokenLinks
  <2>1. \A x, y \in DOMAIN prog : template[x] = template[y] /\ template[x] # NULL => x = y
    BY <1>1, <1>2 DEF Injective, Typed
  <2> QED
    BY <1>3, <2>1 DEF TokenLinks
<1>10. Kin
  BY <1>3 DEF Kin
<1> QED
  BY <1>8, <1>9, <1>10 DEF TokenInv

(* The invariant of the tokens is inductive while `last' tells the truth.    *)
LEMMA TokenStepHolds ==
  ASSUME QInv, TokenInv, LastIsOwn, [Next]_vars
  PROVE  TokenInv'
<1>1. CASE UNCHANGED vars
  BY <1>1, QuietTokens DEF vars, queueVars
<1>2. ASSUME NEW tr \in DOMAIN prog, NEW d \in Delays,
             ScheduleVoid(tr, d) \/ ScheduleValue(tr, d) \/ ScheduleCopy(tr, d)
      PROVE  TokenInv'
  BY <1>2, ScheduleTokens
<1>3. ASSUME NEW tr \in DOMAIN prog, InsertReactionsForTrigger(tr)
      PROVE  TokenInv'
  BY <1>3, NetworkInputTokens
<1>4. ASSUME NEW tr \in DOMAIN prog, NEW g \in NetworkTags(tr), ScheduleAtTag(tr, g)
      PROVE  TokenInv'
  BY <1>4, ScheduleAtTagTokens
<1>5. CASE Advance
  BY <1>5, AdvanceTokens
<1>6. ASSUME NEW e \in Events, PopDummy(e) \/ PopEvent(e) \/ PopTimer(e)
      PROVE  TokenInv'
  BY <1>6, PopDummyTokens, PopEventTokens, PopTimerTokens
<1>7. CASE PopDone
  BY <1>7, QuietTokens DEF PopDone
<1>8. CASE Terminated
  BY <1>1, <1>8 DEF Terminated
<1> QED
  BY <1>1, <1>2, <1>3, <1>4, <1>5, <1>6, <1>7, <1>8 DEF Next

(* Programs in which `last' cannot lie: an action with a minimum spacing is  *)
(* the only trigger.                                                         *)
Unshared(p) == \A tr \in DOMAIN p : p[tr].kind \in Actions /\ p[tr].period >= 0 => DOMAIN p = {tr}

(* The program stays the same.                                               *)
LEMMA ProgramStays ==
  ASSUME [Next]_vars
  PROVE  prog' = prog
BY DEF Next, vars, queueVars, ScheduleVoid, ScheduleValue, ScheduleCopy, ScheduleAtTag,
       InsertReactionsForTrigger, Calling, Advance, PopDummy, PopEvent, PopTimer, Popping,
       PopDone, Terminated

(* An event in use is of the only trigger there is.                          *)
LEMMA UnsharedLast ==
  ASSUME QInv, Unshared(prog)
  PROVE  LastIsOwn
<1> SUFFICES ASSUME NEW tr \in DOMAIN prog, prog[tr].kind \in Actions, prog[tr].period >= 0,
                    last[tr] # NULL, Waiting(last[tr])
             PROVE  ev[last[tr]].trigger = tr
  BY DEF LastIsOwn
<1>1. last[tr] \in Events
  BY DEF QInv, TypeOK
<1>2. last[tr] \in Live
  BY <1>1, WaitingIsLive DEF Waiting
<1>3. ev[last[tr]].trigger \in DOMAIN prog
  BY <1>2 DEF QInv, LinkInv
<1> QED
  BY <1>3 DEF Unshared

(* Without such actions, or with nothing but one of them, tokens are counted *)
(* for each holder, none is handed out while it is used, and the counter of  *)
(* termination() is right, whatever the program, its policies and the sizes  *)
(* of memory and bin (_lf_done_using and create_token, as _lf_schedule,      *)
(* _lf_schedule_at_tag, _lf_pop_events and _lf_start_time_step use them).    *)
THEOREM UnsharedTokensAreAccounted == Spec /\ Unshared(prog) => []TokensAccounted
<1>1. Init => QInv /\ TokenInv
  BY InitHolds, InitTokens
<1>2. QInv /\ TokenInv /\ Unshared(prog) /\ [Next]_vars => (QInv /\ TokenInv /\ Unshared(prog))'
  <2>1. ASSUME QInv, TokenInv, Unshared(prog), [Next]_vars
        PROVE  QInv' /\ TokenInv' /\ Unshared(prog')
    <3>1. QInv' /\ TokenInv'
      BY <2>1, UnsharedLast, StepHolds, TokenStepHolds
    <3>2. Unshared(prog')
      BY <2>1, ProgramStays
    <3> QED
      BY <3>1, <3>2
  <2> QED
    BY <2>1
<1>3. QInv /\ TokenInv => TokensAccounted
  BY TokensFollow
<1> QED
  BY <1>1, <1>2, <1>3, PTL DEF Spec

-----------------------------------------------------------------------------
(* Chains before and after a step *)

(* After its end a chain goes nowhere.                                       *)
LEMMA EndStays ==
  ASSUME QInv, NEW h \in Live, NEW i \in 0 .. Cardinality(Events), Follow(h, i) = NULL,
         NEW j \in i .. Cardinality(Events)
  PROVE  Follow(h, j) = NULL
<1> DEFINE N == Cardinality(Events)
           bad == {k \in i .. N : Follow(h, k) # NULL}
<1>1. /\ N \in Nat \ {0}
      /\ \A k \in 0 .. N - 1 :
           Follow(h, k + 1) = IF Follow(h, k) = NULL THEN NULL ELSE ev[Follow(h, k)].next
  BY FollowFacts
<1> SUFFICES ASSUME bad # {}
             PROVE  FALSE
  OBVIOUS
<1> HIDE DEF N
<1>2. i \in 0 .. N
  BY DEF N
<1>3. PICK k \in bad : \A m \in bad : k <= m
  <2>1. bad \in SUBSET Nat
    BY <1>1, <1>2
  <2> HIDE DEF bad
  <2> QED
    BY <2>1, LeastNatural
<1>4. k \in i .. N /\ Follow(h, k) # NULL
  BY <1>3
<1>5. k # i
  BY <1>4
<1>6. k - 1 \in 0 .. N - 1 /\ (k - 1) + 1 = k /\ k - 1 \in i .. N
  BY <1>1, <1>2, <1>4, <1>5
<1>7. Follow(h, k - 1) = NULL
  <2>1. k - 1 \notin bad
    <3> HIDE DEF bad
    <3> QED
      BY <1>1, <1>2, <1>3, <1>4, <1>6
  <2> QED
    BY <1>6, <2>1
<1>8. Follow(h, (k - 1) + 1) = NULL
  BY <1>1, <1>6, <1>7
<1> QED
  BY <1>4, <1>6, <1>8

(* A walk along a chain: what it meets is in use, and after its end there is *)
(* nothing.                                                                  *)
ChainLaw ==
  LET N == Cardinality(Events) IN
  \A h \in Live :
    /\ Follow(h, 0) = h
    /\ \A i \in 0 .. N : Follow(h, i) \in Live \cup {NULL}
    /\ \A i \in 0 .. N - 1 :
         Follow(h, i + 1) = IF Follow(h, i) = NULL THEN NULL ELSE ev[Follow(h, i)].next
    /\ \A i \in 0 .. N : Follow(h, i) = NULL => \A j \in i .. N : Follow(h, j) = NULL

(* The chains follow that law in every state of the invariant.               *)
LEMMA Chains == QInv => ChainLaw
BY FollowFacts, EndStays DEF ChainLaw

(* Its length is the place of its end.                                       *)
LEMMA LengthIsEnd ==
  ASSUME QInv, NEW h \in Live, NEW i \in 0 .. Cardinality(Events) - 1
  PROVE  Follow(h, i) # NULL <=> i < ChainLength(h)
<1> DEFINE N == Cardinality(Events)
<1>1. N \in Nat \ {0} /\ i \in 0 .. N
  <2>1. N \in Nat \ {0}
    BY FollowFacts
  <2> QED
    BY <2>1
<1>2. ChainLength(h) \in 1 .. N
  BY ChainFacts
<1>3. i < ChainLength(h) => Follow(h, i) # NULL
  <2>1. i < ChainLength(h) => i \in 0 .. ChainLength(h) - 1
    BY <1>1, <1>2
  <2>2. NULL \notin Live
    BY QueueAssumption DEF QInv, TypeOK, Live
  <2> QED
    BY <2>1, <2>2, ChainFacts
<1>4. ASSUME Follow(h, i) # NULL
      PROVE  i < ChainLength(h)
  <2>1. \A j \in 0 .. i : Follow(h, j) # NULL
    <3> TAKE j \in 0 .. i
    <3> SUFFICES ASSUME Follow(h, j) = NULL
                 PROVE  FALSE
      OBVIOUS
    <3>1. j \in 0 .. N /\ i \in j .. N
      BY <1>1
    <3> QED
      BY <1>4, <3>1, EndStays
  <2>2. 0 .. i \in SUBSET Chain(h)
    BY <1>1, <2>1 DEF Chain
  <2>3. IsFiniteSet(Chain(h))
    <3>1. IsFiniteSet(0 .. N - 1) /\ Chain(h) \in SUBSET (0 .. N - 1)
      BY <1>1, FS_Interval DEF Chain
    <3> QED
      BY <3>1, FS_Subset
  <2>4. Cardinality(0 .. i) = i + 1
    BY <1>1, FS_Interval
  <2>5. Cardinality(0 .. i) <= ChainLength(h)
    BY <2>2, <2>3, FS_Subset DEF ChainLength
  <2> QED
    BY <1>1, <1>2, <2>4, <2>5
<1> QED
  BY <1>3, <1>4

(* The events of a chain are different ones, and no more than there are.     *)
LEMMA ChainFits ==
  ASSUME QInv, NEW h \in Heads, NEW n \in 0 .. Cardinality(Events),
         NEW S \in SUBSET Events, \A i \in 0 .. n : Follow(h, i) \in S
  PROVE  n + 1 <= Cardinality(S)
<1> DEFINE N == Cardinality(Events)
           f == [i \in 0 .. n |-> Follow(h, i)]
<1>1. h \in Live
  BY DEF QInv, LinkInv
<1>2. N \in Nat
  BY <1>1, FollowFacts
<1>3. NULL \notin S /\ IsFiniteSet(S)
  BY QueueAssumption, FS_Subset
<1>4. \A i, j \in 0 .. n : f[i] = f[j] => i = j
  <2> TAKE i, j \in 0 .. n
  <2> HAVE f[i] = f[j]
  <2>1. i \in 0 .. N /\ j \in 0 .. N /\ Follow(h, i) = Follow(h, j) /\ Follow(h, i) # NULL
    BY <1>2, <1>3
  <2> QED
    BY <2>1, ChainsApart
<1>5. f \in Injection(0 .. n, S)
  BY <1>4 DEF Injection, IsInjective
<1>6. Cardinality(0 .. n) <= Cardinality(S)
  <2> HIDE DEF f
  <2> QED
    BY <1>3, <1>5, FS_Injection
<1>7. Cardinality(0 .. n) = n + 1
  BY <1>2, FS_Interval
<1> QED
  BY <1>6, <1>7

(* So a chain ends.                                                          *)
LEMMA ChainsEnd ==
  ASSUME QInv, NEW h \in Heads
  PROVE  Follow(h, Cardinality(Events)) = NULL
<1> DEFINE N == Cardinality(Events)
<1> SUFFICES ASSUME Follow(h, N) # NULL
             PROVE  FALSE
  OBVIOUS
<1>1. h \in Live
  BY DEF QInv, LinkInv
<1>2. N \in Nat /\ \A i \in 0 .. N : Follow(h, i) \in Live \cup {NULL}
  BY <1>1, FollowFacts
<1>3. \A i \in 0 .. N : Follow(h, i) \in Events
  <2> TAKE i \in 0 .. N
  <2>1. N \in i .. N
    BY <1>2
  <2>2. Follow(h, i) # NULL
    BY <1>1, <2>1, EndStays
  <2> QED
    BY <1>2, <2>2 DEF QInv, TypeOK, Live
<1>4. N + 1 <= N
  <2>1. N \in 0 .. N /\ Events \in SUBSET Events
    BY <1>2
  <2> QED
    BY <1>3, <2>1, ChainFits
<1> QED
  BY <1>2, <1>4

(* While there is an unused event, no chain has all of them; the last event  *)
(* of a chain has none behind it.                                            *)
LEMMA RoomBehind ==
  ASSUME QInv, NEW h \in Heads, NEW e \in Events \ Live
  PROVE  /\ ChainLength(h) \in 1 .. Cardinality(Events) - 1
         /\ Follow(h, ChainLength(h)) = NULL
<1> DEFINE N == Cardinality(Events)
           L == ChainLength(h)
<1>1. h \in Live
  BY DEF QInv, LinkInv
<1>2. N \in Nat /\ L \in 1 .. N /\ \A i \in 0 .. L - 1 : Follow(h, i) \in Live
  BY <1>1, FollowFacts, ChainFacts
<1>3. \A i \in 0 .. L - 1 : Follow(h, i) \in Events \ {e}
  BY <1>2 DEF QInv, TypeOK, Live
<1>4. (L - 1) + 1 <= Cardinality(Events \ {e})
  <2>1. L - 1 \in 0 .. N /\ Events \ {e} \in SUBSET Events
    BY <1>2
  <2> HIDE DEF L
  <2> QED
    BY <1>3, <2>1, ChainFits
<1>5. Cardinality(Events \ {e}) = N - 1
  BY QueueAssumption, FS_RemoveElement
<1>6. L \in 1 .. N - 1
  BY <1>2, <1>4, <1>5
<1>7. Follow(h, L) = NULL
  <2>1. L \in 0 .. N - 1 /\ ~ (L < L)
    BY <1>2, <1>6
  <2> HIDE DEF L
  <2>2. ~ (L < ChainLength(h))
    BY <2>1 DEF L
  <2> QED
    BY <1>1, <2>1, <2>2, LengthIsEnd
<1> QED
  BY <1>6, <1>7

(* Walks of n steps meet the same events before and after a step that leaves *)
(* the links of these events alone; the one after may start k events later.  *)
LEMMA SameWalk ==
  ASSUME QInv, QInv', NEW a \in Live, NEW b \in Live',
         NEW k \in 0 .. Cardinality(Events), NEW m \in 0 .. Cardinality(Events),
         Follow(a, k) = b,
         \A i \in k .. m - 1 :
           Follow(a, i) # NULL => ev'[Follow(a, i)].next = ev[Follow(a, i)].next,
         NEW n \in Nat, k + n <= m
  PROVE  Follow(b, n)' = Follow(a, k + n)
<1> DEFINE N == Cardinality(Events)
           bad == {j \in Nat : k + j <= m /\ Follow(b, j)' # Follow(a, k + j)}
<1>1. ChainLaw /\ ChainLaw'
  BY Chains, PTL
<1>2. N \in Nat
  BY FollowFacts
<1>3. /\ \A i \in 0 .. N - 1 :
           Follow(a, i + 1) = IF Follow(a, i) = NULL THEN NULL ELSE ev[Follow(a, i)].next
      /\ \A i \in 0 .. N : Follow(a, i) \in Live \cup {NULL}
  BY <1>1 DEF ChainLaw
<1>4. /\ Follow(b, 0)' = b
      /\ \A i \in 0 .. N - 1 :
           Follow(b, i + 1)' = IF Follow(b, i)' = NULL THEN NULL ELSE ev'[Follow(b, i)'].next
  BY <1>1 DEF ChainLaw
<1> SUFFICES ASSUME bad # {}
             PROVE  FALSE
  OBVIOUS
<1> HIDE DEF N
<1>5. k \in 0 .. N /\ m \in 0 .. N
  BY DEF N
<1>6. PICK j \in bad : \A l \in bad : j <= l
  <2>1. bad \in SUBSET Nat
    OBVIOUS
  <2> HIDE DEF bad
  <2> QED
    BY <2>1, LeastNatural
<1>7. j \in Nat /\ k + j <= m /\ Follow(b, j)' # Follow(a, k + j)
  BY <1>6
<1>8. j # 0
  <2> SUFFICES ASSUME j = 0
               PROVE  FALSE
    OBVIOUS
  <2>1. k + j = k
    BY <1>5
  <2> QED
    BY <1>4, <1>7, <2>1
<1>9. /\ j - 1 \in Nat /\ k + (j - 1) <= m /\ j - 1 \in 0 .. N - 1 /\ (j - 1) + 1 = j
      /\ k + (j - 1) \in 0 .. N - 1 /\ k + (j - 1) \in k .. m - 1
      /\ (k + (j - 1)) + 1 = k + j /\ ~ (j <= j - 1)
  BY <1>2, <1>5, <1>7, <1>8
<1>10. Follow(b, j - 1)' = Follow(a, k + (j - 1))
  <2>1. j - 1 \notin bad
    <3> HIDE DEF bad
    <3> QED
      BY <1>6, <1>9
  <2> QED
    BY <1>9, <2>1
<1>11. Follow(b, (j - 1) + 1)' =
         IF Follow(b, j - 1)' = NULL THEN NULL ELSE ev'[Follow(b, j - 1)'].next
  BY <1>4, <1>9
<1>12. Follow(a, (k + (j - 1)) + 1) =
         IF Follow(a, k + (j - 1)) = NULL THEN NULL ELSE ev[Follow(a, k + (j - 1))].next
  BY <1>3, <1>9
<1>13. Follow(a, k + (j - 1)) # NULL =>
         ev'[Follow(a, k + (j - 1))].next = ev[Follow(a, k + (j - 1))].next
  BY <1>9
<1> QED
  BY <1>7, <1>9, <1>10, <1>11, <1>12, <1>13

-----------------------------------------------------------------------------
(* When events fire *)

(* Without dummy events, *)
NoDummies == \A x \in Live : ~ev[x].is_dummy

(* the events of a chain have one time;                                      *)
ChainsAtATime == \A x \in Live : ev[x].next # NULL => ev[ev[x].next].time = ev[x].time

(* a trigger has one chain for a time,                                       *)
HeadsApart ==
  \A h, g \in Heads : ev[h].trigger = ev[g].trigger /\ ev[h].time = ev[g].time => h = g

(* a timer one event;                                                        *)
TimersOnce ==
  \A x, y \in Live : ev[x].trigger = ev[y].trigger /\ prog[ev[x].trigger].kind = "timer" => x = y

(* no event is late, and next_q is for the rests of chains at a tag.         *)
InTime ==
  /\ \A h \in event_q : ev[h].time >= current_tag.time
  /\ \A h \in next_q : ev[h].time = current_tag.time
  /\ next_q # {} => popping

(* An action with minimum spacing has no chains, and `last' points to its    *)
(* latest event.                                                             *)
SpacingKept ==
  \A tr \in DOMAIN prog : prog[tr].kind \in Actions /\ prog[tr].period >= 0 =>
    /\ Live = event_q
    /\ Live # {} => last[tr] \in Live /\ \A x \in Live : ev[x].time <= ev[last[tr]].time
    /\ prog[tr].policy = "defer" /\ ~popping => \A x \in Live : ev[x].time > current_tag.time

Ordered == NoDummies /\ ChainsAtATime /\ HeadsApart /\ TimersOnce /\ InTime /\ SpacingKept

(* The microstep at which the chain with head h goes on, at the current time *)
(* or later.                                                                 *)
Start(h) ==
  IF ev[h].time # current_tag.time THEN 0
  ELSE current_tag.microstep + IF popping /\ h \in event_q THEN 0 ELSE 1

(* Event x fires at tag g.                                                   *)
Fires(x, g) ==
  \E h \in Heads, i \in 0 .. Cardinality(Events) - 1 :
    x # NULL /\ Follow(h, i) = x /\ g = TagOf(ev[h].time, Start(h) + i)

EntryOf(x, g) == [trigger |-> ev[x].trigger, token |-> ev[x].token, tag |-> g]

EntryLaw == \A y : y \in Entries <=> \E x \in Live, g \in Tag : Fires(x, g) /\ y = EntryOf(x, g)

(* What fires is in use, and fires at a tag.                                 *)
LEMMA FiresType ==
  ASSUME QInv, NEW x, NEW g, Fires(x, g)
  PROVE  x \in Live /\ x \in Events /\ x # NULL /\ g \in Tag
<1> DEFINE N == Cardinality(Events)
<1>1. PICK h \in Heads, i \in 0 .. N - 1 :
        x # NULL /\ Follow(h, i) = x /\ g = TagOf(ev[h].time, Start(h) + i)
  BY DEF Fires
<1>2. h \in Live /\ h \in Events
  BY DEF QInv, LinkInv, TypeOK, Live
<1>3. N \in Nat /\ i \in 0 .. N /\ i \in Nat
  BY <1>2, FollowFacts
<1>4. x \in Live
  BY <1>1, <1>2, <1>3, FollowFacts
<1>5. ev[h].time \in Nat /\ current_tag.microstep \in Nat
  BY <1>2 DEF QInv, TypeOK, EventFields, Tag
<1>6. Start(h) + i \in Nat
  BY <1>3, <1>5 DEF Start
<1>7. g \in Tag
  BY <1>1, <1>5, <1>6, TagOfType
<1> QED
  BY <1>1, <1>4, <1>7 DEF QInv, TypeOK, Live

(* The entries of the queue are the events that fire, each at its tag.       *)
LEMMA EntriesFire == QInv /\ NoDummies => EntryLaw
<1> SUFFICES ASSUME QInv, NoDummies
             PROVE  EntryLaw
  OBVIOUS
<1> DEFINE N == Cardinality(Events)
           m == current_tag.microstep
           step == IF popping THEN 0 ELSE 1
           first(h, k) == IF ev[h].time = current_tag.time THEN k ELSE 0
           entry(h, k, i) == [trigger |-> ev[Follow(h, i)].trigger,
                              token |-> ev[Follow(h, i)].token,
                              tag |-> TagOf(ev[h].time, first(h, k) + i)]
<1>1. \A h \in Heads : h \in Live /\ (h \in next_q => h \notin event_q)
  BY DEF QInv, LinkInv
<1>2. ASSUME NEW h \in Heads
      PROVE  Chain(h) = {i \in 0 .. N - 1 : Follow(h, i) # NULL}
  BY DEF Chain
<1>3. ASSUME NEW h \in Heads, NEW i \in Chain(h)
      PROVE  Follow(h, i) \in Live /\ ~ev[Follow(h, i)].is_dummy
  <2>1. N \in Nat /\ h \in Live
    BY <1>1, FollowFacts
  <2>2. i \in 0 .. N /\ Follow(h, i) # NULL
    BY <2>1 DEF Chain
  <2>3. Follow(h, i) \in Live
    BY <2>1, <2>2, FollowFacts
  <2> QED
    BY <2>3 DEF NoDummies
<1>4. ASSUME NEW H \in SUBSET Heads, NEW k
      PROVE  \A y : y \in EntriesOf(H, k) <=> \E h \in H : \E i \in Chain(h) : y = entry(h, k, i)
  <2> DEFINE all(h) == {entry(h, k, i) : i \in {j \in Chain(h) : ~ev[Follow(h, j)].is_dummy}}
  <2>1. EntriesOf(H, k) = UNION {all(h) : h \in H}
    BY Zenon DEF EntriesOf
  <2>2. \A h \in H : {j \in Chain(h) : ~ev[Follow(h, j)].is_dummy} = Chain(h)
    BY <1>3
  <2>3. \A h \in H : all(h) = {entry(h, k, i) : i \in Chain(h)}
    BY <2>2
  <2> HIDE DEF entry, all
  <2> QED
    BY <2>1, <2>3
<1>5. event_q \in SUBSET Heads /\ next_q \in SUBSET Heads
  BY DEF Heads
<1>6. Entries = EntriesOf(event_q, m + step) \cup EntriesOf(next_q, m + 1)
  BY DEF Entries
<1>7. /\ \A h \in event_q : first(h, m + step) = Start(h)
      /\ \A h \in next_q : first(h, m + 1) = Start(h)
  BY <1>1, <1>5 DEF Start
<1> DEFINE spot(h, i) == [trigger |-> ev[Follow(h, i)].trigger, token |-> ev[Follow(h, i)].token,
                          tag |-> TagOf(ev[h].time, Start(h) + i)]
<1>8. \A y : y \in Entries <=> \E h \in Heads : \E i \in Chain(h) : y = spot(h, i)
  <2>1. \A h \in event_q : \A i : entry(h, m + step, i) = spot(h, i)
    BY <1>7
  <2>2. \A h \in next_q : \A i : entry(h, m + 1, i) = spot(h, i)
    BY <1>7
  <2> HIDE DEF entry, spot, step, m
  <2>3. \A y : y \in EntriesOf(event_q, m + step) <=>
                 \E h \in event_q : \E i \in Chain(h) : y = entry(h, m + step, i)
    BY <1>4, <1>5
  <2>4. \A y : y \in EntriesOf(next_q, m + 1) <=>
                 \E h \in next_q : \E i \in Chain(h) : y = entry(h, m + 1, i)
    BY <1>4, <1>5
  <2> QED
    BY <1>6, <2>1, <2>2, <2>3, <2>4 DEF Heads
<1>9. ASSUME NEW y, NEW h \in Heads, NEW i \in Chain(h), y = spot(h, i)
      PROVE  \E x \in Live, g \in Tag : Fires(x, g) /\ y = EntryOf(x, g)
  <2> DEFINE x == Follow(h, i)
             g == TagOf(ev[h].time, Start(h) + i)
  <2>1. Fires(x, g)
    BY DEF Fires, Chain
  <2>2. y = EntryOf(x, g)
    BY <1>9 DEF EntryOf
  <2> HIDE DEF x, g
  <2> QED
    BY <2>1, <2>2, FiresType
<1>10. ASSUME NEW x, NEW g, Fires(x, g)
       PROVE  \E h \in Heads : \E i \in Chain(h) : EntryOf(x, g) = spot(h, i)
  BY <1>10 DEF Fires, EntryOf, Chain
<1> HIDE DEF spot
<1> QED
  BY <1>8, <1>9, <1>10 DEF EntryLaw

(* A trigger fires at a tag once, an event at one tag, and not in the past.  *)
FireLaw ==
  /\ \A x, g, f : Fires(x, g) /\ Fires(x, f) => g = f
  /\ \A x, y, g : Fires(x, g) /\ Fires(y, g) /\ ev[x].trigger = ev[y].trigger => x = y
  /\ \A x, g : Fires(x, g) => TagLeq(current_tag, g) /\ (~popping => TagLess(current_tag, g))

(* With them the events that fire follow that law.                            *)
LEMMA EventsFireOnce == QInv /\ Kin /\ Ordered => FireLaw
<1> SUFFICES ASSUME QInv, Kin, Ordered
             PROVE  FireLaw
  OBVIOUS
<1> DEFINE N == Cardinality(Events)
           at(x, g, h, i) == x # NULL /\ Follow(h, i) = x /\ g = TagOf(ev[h].time, Start(h) + i)
<1>1. \A h \in Heads : h \in Live /\ N \in Nat
  BY FollowFacts DEF QInv, LinkInv
<1>2. \A x, g : Fires(x, g) => \E h \in Heads, i \in 0 .. N - 1 : at(x, g, h, i)
  BY DEF Fires
<1>3. ASSUME NEW x, NEW g, NEW f, Fires(x, g), Fires(x, f)
      PROVE  g = f
  <2>1. PICK h \in Heads, i \in 0 .. N - 1 : at(x, g, h, i)
    BY <1>2, <1>3
  <2>2. PICK b \in Heads, j \in 0 .. N - 1 : at(x, f, b, j)
    BY <1>2, <1>3
  <2>3. N \in Nat /\ i \in 0 .. N /\ j \in 0 .. N
    BY <1>1
  <2>4. Follow(h, i) = Follow(b, j) /\ Follow(h, i) # NULL
    BY <2>1, <2>2
  <2>5. h = b /\ i = j
    BY <2>3, <2>4, ChainsApart
  <2> QED
    BY <2>1, <2>2, <2>5
<1>4. ASSUME NEW h \in Heads, NEW i \in 0 .. N - 1
      PROVE  ev[h].time \in Nat /\ Start(h) + i \in Nat /\ Start(h) \in Nat /\ i \in Nat
  <2>1. i \in Nat
    BY <1>1
  <2>2. h \in Events
    BY <1>1 DEF QInv, TypeOK, Live
  <2>3. ev[h].time \in Nat /\ current_tag.microstep \in Nat
    BY <2>2 DEF QInv, TypeOK, EventFields, Tag
  <2> QED
    BY <2>1, <2>3 DEF Start
<1>5. ASSUME NEW x, NEW g, NEW h \in Heads, NEW i \in 0 .. N - 1, at(x, g, h, i)
      PROVE  ev[x].trigger = ev[h].trigger
  <2>1. h \in Live /\ Follow(h, i) # NULL
    BY <1>1, <1>5
  <2>2. i < ChainLength(h)
    BY <2>1, LengthIsEnd
  <2>3. ChainLength(h) \in Nat
    BY <2>1, <1>1, ChainFacts
  <2>4. i \in 0 .. ChainLength(h) - 1
    BY <1>4, <2>2, <2>3
  <2> QED
    BY <1>5, <2>1, <2>4, ChainKin
<1>6. ASSUME NEW x, NEW y, NEW g, Fires(x, g), Fires(y, g), ev[x].trigger = ev[y].trigger
      PROVE  x = y
  <2>1. PICK h \in Heads, i \in 0 .. N - 1 : at(x, g, h, i)
    BY <1>2, <1>6
  <2>2. PICK b \in Heads, j \in 0 .. N - 1 : at(y, g, b, j)
    BY <1>2, <1>6
  <2>3. ev[h].trigger = ev[b].trigger
    BY <1>5, <1>6, <2>1, <2>2
  <2>4. TagOf(ev[h].time, Start(h) + i) = TagOf(ev[b].time, Start(b) + j)
    BY <2>1, <2>2
  <2>5. ev[h].time = ev[b].time /\ Start(h) + i = Start(b) + j
    BY <2>4 DEF TagOf
  <2>6. h = b
    BY <2>3, <2>5 DEF Ordered, HeadsApart
  <2>7. i = j
    BY <1>4, <2>5, <2>6
  <2> QED
    BY <2>1, <2>2, <2>6, <2>7
<1>7. ASSUME NEW x, NEW g, Fires(x, g)
      PROVE  TagLeq(current_tag, g) /\ (~popping => TagLess(current_tag, g))
  <2>1. PICK h \in Heads, i \in 0 .. N - 1 : at(x, g, h, i)
    BY <1>2, <1>7
  <2>2. ev[h].time \in Nat /\ Start(h) + i \in Nat /\ Start(h) \in Nat /\ i \in Nat
    BY <1>4
  <2>3. current_tag \in Tag /\ g \in Tag /\ g.time = ev[h].time /\ g.microstep = Start(h) + i
    BY <2>1, <2>2, TagOfType DEF QInv, TypeOK
  <2>4. ev[h].time >= current_tag.time
    BY <2>3 DEF Ordered, InTime, Heads, Tag
  <2>5. CASE ev[h].time = current_tag.time
    <3>1. /\ Start(h) >= current_tag.microstep
          /\ ~popping => Start(h) >= current_tag.microstep + 1
      BY <2>3, <2>5 DEF Start, Tag
    <3>2. /\ g.microstep >= current_tag.microstep
          /\ ~popping => g.microstep > current_tag.microstep
      BY <2>2, <2>3, <3>1 DEF Tag
    <3>3. g.microstep = current_tag.microstep => g = current_tag
      BY <2>3, <2>5, TagEquality
    <3> QED
      BY <2>3, <2>5, <3>2, <3>3 DEF TagLeq, TagLess, Tag
  <2>6. CASE ev[h].time # current_tag.time
    BY <2>2, <2>3, <2>4, <2>6 DEF TagLeq, TagLess, Tag
  <2> QED
    BY <2>5, <2>6
<1> QED
  BY <1>3, <1>6, <1>7 DEF FireLaw

-----------------------------------------------------------------------------
(* From the events that fire to the steps of the calendar *)

(* Both laws, and with them what the calendar shows, hold before and after.  *)
Laws == QInv /\ EntryLaw /\ FireLaw

(* They hold when the events are in order.                                   *)
LEMMA LawsHold == QInv /\ Kin /\ Ordered => Laws
BY EntriesFire, EventsFireOnce DEF Laws, Ordered

(* What fires is in use, before and after a step.                            *)
LEMMA FiresTyped == QInv => \A x, f : Fires(x, f) => x \in Live /\ f \in Tag
BY FiresType

(* The events of gone no longer fire, those of more fire at g; the others    *)
(* fire with the same token as before.                                       *)
FiringsChange(gone, more, g) ==
  /\ \A x \in Live \ gone : ev'[x].trigger = ev[x].trigger /\ ev'[x].token = ev[x].token
  /\ \A x, f : Fires(x, f)' <=> (Fires(x, f) /\ x \notin gone) \/ (x \in more /\ f = g)

EntriesFollow(gone, more, g) ==
  \A y : y \in Entries' <=>
           \/ \E x \in Live \ gone, f \in Tag : Fires(x, f) /\ y = EntryOf(x, f)
           \/ \E x \in more : y = EntryOf(x, g)'

(* The entries change as the events that fire do.                            *)
LEMMA EntriesChange ==
  ASSUME Laws, Laws', NEW gone, NEW more, NEW g, FiringsChange(gone, more, g)
  PROVE  EntriesFollow(gone, more, g)
<1>1. \A y : y \in Entries' <=> \E x \in Live', f \in Tag : Fires(x, f)' /\ y = EntryOf(x, f)'
  BY DEF Laws, EntryLaw
<1>2. QInv'
  BY DEF Laws
<1>3. \A x, f : Fires(x, f)' => x \in Live' /\ f \in Tag
  <2>1. QInv' => (\A x, f : Fires(x, f) => x \in Live /\ f \in Tag)'
    BY FiresTyped, PTL
  <2> QED
    BY <1>2, <2>1
<1>4. \A x, f : Fires(x, f) => x \in Live /\ f \in Tag
  BY FiresType DEF Laws
<1>5. \A x \in Live \ gone : \A f : EntryOf(x, f)' = EntryOf(x, f)
  BY DEF EntryOf, FiringsChange
<1> QED
  BY <1>1, <1>3, <1>4, <1>5 DEF EntriesFollow, FiringsChange

(* A step that leaves them alone does not show.                              *)
LEMMA EntriesStay ==
  ASSUME Laws, Laws', \A x \in Live : ev'[x].trigger = ev[x].trigger /\ ev'[x].token = ev[x].token,
         \A x, f : Fires(x, f)' <=> Fires(x, f)
  PROVE  Entries' = Entries
<1> DEFINE none == {}
<1>1. FiringsChange(none, none, 0)
  BY DEF FiringsChange
<1> HIDE DEF none
<1>2. EntriesFollow(none, none, 0)
  BY <1>1, EntriesChange
<1>3. \A y : y \in Entries <=> \E x \in Live, f \in Tag : Fires(x, f) /\ y = EntryOf(x, f)
  BY DEF Laws, EntryLaw
<1>4. \A y : y \in Entries' <=> y \in Entries
  BY <1>2, <1>3 DEF EntriesFollow, none
<1> QED
  BY <1>4

(* A new event at a tag to come is an entry of the calendar.                 *)
LEMMA EntryScheduled ==
  ASSUME Laws, Laws', UNCHANGED current_tag, NEW e \in Live' \ Live, NEW g \in Tag,
         TagLess(current_tag, g),
         \A x \in Live : ev'[x].trigger = ev[x].trigger /\ ev'[x].token = ev[x].token,
         \A x, f : Fires(x, f)' <=> Fires(x, f) \/ (x = e /\ f = g)
  PROVE  Calendar!Schedule
<1> DEFINE none == {}
           one == {e}
           new == EntryOf(e, g)'
<1>1. FiringsChange(none, one, g)
  BY DEF FiringsChange
<1> HIDE DEF none, one
<1>2. EntriesFollow(none, one, g)
  BY <1>1, EntriesChange
<1>3. \A y : y \in Entries <=> \E x \in Live, f \in Tag : Fires(x, f) /\ y = EntryOf(x, f)
  BY DEF Laws, EntryLaw
<1>4. \A y : y \in Entries' <=> y \in Entries \/ y = new
  BY <1>2, <1>3 DEF EntriesFollow, none, one
<1>5. new \in Entries' /\ Entries' = Entries \cup {new}
  <2> HIDE DEF new
  <2> QED
    BY <1>4
<1>6. new.tag = g /\ new.trigger = ev'[e].trigger
  BY DEF EntryOf
<1>7. ASSUME NEW o \in Entries, o.trigger = new.trigger, o.tag = new.tag
      PROVE  FALSE
  <2>1. PICK x \in Live, f \in Tag : Fires(x, f) /\ o = EntryOf(x, f)
    BY <1>3
  <2>2. o.tag = f /\ o.trigger = ev[x].trigger
    BY <2>1 DEF EntryOf
  <2>3. Fires(x, g)' /\ Fires(e, g)' /\ ev'[x].trigger = ev'[e].trigger
    BY <1>6, <1>7, <2>1, <2>2
  <2>4. x = e
    BY <2>3 DEF Laws, FireLaw
  <2> QED
    BY <2>4
<1> HIDE DEF new
<1> QED
  BY <1>5, <1>6, <1>7 DEF Calendar!Schedule, Calendar!TagLess, TagLess

(* A new token for an event to come replaces an entry.                       *)
LEMMA EntryReplaced ==
  ASSUME Laws, Laws', UNCHANGED current_tag, NEW e, NEW g, Fires(e, g), TagLess(current_tag, g),
         \A x \in Live : ev'[x].trigger = ev[x].trigger /\ (x # e => ev'[x].token = ev[x].token),
         \A x, f : Fires(x, f)' <=> Fires(x, f)
  PROVE  Calendar!Replace
<1> DEFINE one == {e}
           new == EntryOf(e, g)'
           old == EntryOf(e, g)
<1>0. e \in Live /\ g \in Tag
  BY FiresType DEF Laws
<1>1. FiringsChange(one, one, g)
  BY DEF Laws, FireLaw, FiringsChange
<1> HIDE DEF one
<1>2. EntriesFollow(one, one, g)
  BY <1>1, EntriesChange
<1>3. \A y : y \in Entries <=> \E x \in Live, f \in Tag : Fires(x, f) /\ y = EntryOf(x, f)
  BY DEF Laws, EntryLaw
<1>4. ASSUME NEW x \in Live, NEW f \in Tag, Fires(x, f)
      PROVE  EntryOf(x, f) = old <=> x = e
  <2>1. x = e => f = g
    BY <1>4 DEF Laws, FireLaw
  <2>2. ASSUME EntryOf(x, f) = old
        PROVE  x = e
    <3>1. f = g /\ ev[x].trigger = ev[e].trigger
      BY <2>2 DEF EntryOf
    <3> QED
      BY <1>4, <3>1 DEF Laws, FireLaw
  <2> QED
    BY <2>1, <2>2
<1>5. old \in Entries /\ new.tag = g /\ old.tag = g /\ new.trigger = old.trigger
  BY <1>0, <1>3 DEF EntryOf
<1> HIDE DEF new, old
<1>6. \A y : y \in Entries' <=> (y \in Entries /\ y # old) \/ y = new
  BY <1>2, <1>3, <1>4 DEF EntriesFollow, one, new
<1>7. new \in Entries' /\ Entries' = (Entries \ {old}) \cup {new}
  BY <1>6
<1> QED
  BY <1>5, <1>7 DEF Calendar!Replace, Calendar!TagLess, TagLess

(* An event at its tag fires; its timer may schedule the next one.           *)
LEMMA EntryFired ==
  ASSUME Laws, Laws', UNCHANGED current_tag, NEW e, Fires(e, current_tag),
         NEW n, NEW again \in {{}, {n}}, NEW g,
         again # {} => TagLess(current_tag, g) /\ ev'[n].trigger = ev[e].trigger,
         \A x \in Live : x # e => ev'[x].trigger = ev[x].trigger /\ ev'[x].token = ev[x].token,
         \A x, f : Fires(x, f)' <=> (Fires(x, f) /\ x # e) \/ (x \in again /\ f = g)
  PROVE  Calendar!Fire
<1> DEFINE one == {e}
           new == EntryOf(n, g)'
           old == EntryOf(e, current_tag)
<1>0. e \in Live /\ current_tag \in Tag
  BY FiresType DEF Laws
<1>1. FiringsChange(one, again, g)
  BY DEF FiringsChange
<1> HIDE DEF one
<1>2. EntriesFollow(one, again, g)
  BY <1>1, EntriesChange
<1>3. \A y : y \in Entries <=> \E x \in Live, f \in Tag : Fires(x, f) /\ y = EntryOf(x, f)
  BY DEF Laws, EntryLaw
<1>4. ASSUME NEW x \in Live, NEW f \in Tag, Fires(x, f)
      PROVE  EntryOf(x, f) = old <=> x = e
  <2>1. x = e => f = current_tag
    BY <1>4 DEF Laws, FireLaw
  <2>2. ASSUME EntryOf(x, f) = old
        PROVE  x = e
    <3>1. f = current_tag /\ ev[x].trigger = ev[e].trigger
      BY <2>2 DEF EntryOf
    <3> QED
      BY <1>4, <3>1 DEF Laws, FireLaw
  <2> QED
    BY <2>1, <2>2
<1>5. old \in Entries /\ old.tag = current_tag
  BY <1>0, <1>3 DEF EntryOf
<1>6. again # {} => new.tag = g /\ new.trigger = old.trigger
  BY DEF EntryOf
<1> HIDE DEF new, old
<1>7. \A y : y \in Entries' <=> (y \in Entries /\ y # old) \/ (again # {} /\ y = new)
  BY <1>2, <1>3, <1>4 DEF EntriesFollow, one, new
<1>8. CASE again = {}
  <2>1. Entries' = Entries \ {old}
    BY <1>7, <1>8
  <2> QED
    BY <1>5, <2>1 DEF Calendar!Fire
<1>9. CASE again # {}
  <2>1. new \in Entries' /\ Entries' = (Entries \ {old}) \cup {new}
    BY <1>7, <1>9
  <2>2. TagLess(current_tag, new.tag)
    BY <1>6, <1>9
  <2> QED
    BY <1>5, <1>6, <1>9, <2>1, <2>2 DEF Calendar!Fire, Calendar!TagLess, TagLess
<1> QED
  BY <1>8, <1>9

-----------------------------------------------------------------------------
(* What fires after a step of the queue *)

(* A chain whose links stay is the same chain after the step.                *)
LEMMA WalkStays ==
  ASSUME QInv, QInv', NEW h \in Live, h \in Live', NEW m \in 0 .. Cardinality(Events),
         \A i \in 0 .. m - 1 :
           Follow(h, i) # NULL => ev'[Follow(h, i)].next = ev[Follow(h, i)].next,
         NEW n \in 0 .. m
  PROVE  Follow(h, n)' = Follow(h, n)
<1>1. Follow(h, 0) = h /\ Cardinality(Events) \in Nat
  BY FollowFacts
<1>2. 0 \in 0 .. Cardinality(Events) /\ n \in Nat /\ 0 + n <= m /\ 0 + n = n
  BY <1>1
<1> DEFINE k == 0
<1>3. k \in 0 .. Cardinality(Events) /\ Follow(h, k) = h /\ k + n <= m /\ k + n = n
  BY <1>1, <1>2
<1>4. \A i \in k .. m - 1 : Follow(h, i) # NULL => ev'[Follow(h, i)].next = ev[Follow(h, i)].next
  OBVIOUS
<1> HIDE DEF k
<1>5. Follow(h, n)' = Follow(h, k + n)
  BY <1>2, <1>3, <1>4, SameWalk
<1> QED
  BY <1>3, <1>5

(* A chain of one event has nothing behind it.                               *)
LoneLaw ==
  \A e \in Live : ev[e].next = NULL =>
    /\ Follow(e, 0) = e
    /\ \A i \in 0 .. Cardinality(Events) - 1 : i # 0 => Follow(e, i) = NULL

(* An event without a next one is a chain of one.                            *)
LEMMA LoneChains == QInv => LoneLaw
<1> SUFFICES ASSUME QInv, NEW e \in Live, ev[e].next = NULL
             PROVE  /\ Follow(e, 0) = e
                    /\ \A i \in 0 .. Cardinality(Events) - 1 : i # 0 => Follow(e, i) = NULL
  BY DEF LoneLaw
<1> DEFINE N == Cardinality(Events)
<1>1. N \in Nat \ {0} /\ e # NULL
  BY FollowFacts, QueueAssumption DEF QInv, TypeOK, Live
<1>2. /\ Follow(e, 0) = e
      /\ \A i \in 0 .. N - 1 :
           Follow(e, i + 1) = IF Follow(e, i) = NULL THEN NULL ELSE ev[Follow(e, i)].next
      /\ \A i \in 0 .. N : Follow(e, i) = NULL => \A j \in i .. N : Follow(e, j) = NULL
  BY Chains DEF ChainLaw
<1> HIDE DEF N
<1>3. 0 \in 0 .. N - 1 /\ 1 \in 0 .. N /\ 0 + 1 = 1
  BY <1>1
<1>4. Follow(e, 1) = NULL
  BY <1>1, <1>2, <1>3
<1>5. \A i \in 0 .. N - 1 : i # 0 => i \in 1 .. N
  BY <1>1
<1> QED
  BY <1>2, <1>3, <1>4, <1>5 DEF N

(* The links, times and starts stay, and so does what fires.                 *)
LEMMA FiringsStay ==
  ASSUME QInv, QInv', Live' = Live, Heads' = Heads,
         \A x \in Live : ev'[x].next = ev[x].next /\ ev'[x].time = ev[x].time,
         \A h \in Heads : Start(h)' = Start(h)
  PROVE  \A x, f : Fires(x, f)' <=> Fires(x, f)
<1> DEFINE N == Cardinality(Events)
<1>1. ASSUME NEW h \in Heads, NEW n \in 0 .. N - 1
      PROVE  Follow(h, n)' = Follow(h, n) /\ ev'[h].time = ev[h].time
  <2>1. h \in Live /\ h \in Live'
    BY DEF QInv, LinkInv
  <2>2. N \in Nat /\ \A i \in 0 .. N : Follow(h, i) \in Live \cup {NULL}
    BY <2>1, FollowFacts
  <2>3. \A i \in 0 .. N - 1 : Follow(h, i) # NULL => ev'[Follow(h, i)].next = ev[Follow(h, i)].next
    BY <2>2
  <2>4. N \in 0 .. N /\ n \in 0 .. N
    BY <2>2
  <2> QED
    BY <2>1, <2>3, <2>4, WalkStays
<1> QED
  BY <1>1 DEF Fires

(* A new event at the head of the queue fires as well.                       *)
LEMMA FiringsGain ==
  ASSUME QInv, QInv', NEW e \in Events \ Live, Live' = Live \cup {e}, Heads' = Heads \cup {e},
         \A x \in Live : ev'[x].next = ev[x].next /\ ev'[x].time = ev[x].time,
         ev'[e].next = NULL, \A h \in Heads : Start(h)' = Start(h),
         NEW G, G = TagOf(ev'[e].time, Start(e)')
  PROVE  \A x, f : Fires(x, f)' <=> Fires(x, f) \/ (x = e /\ f = G)
<1> DEFINE N == Cardinality(Events)
<1>1. ASSUME NEW h \in Heads, NEW n \in 0 .. N - 1
      PROVE  Follow(h, n)' = Follow(h, n) /\ ev'[h].time = ev[h].time
  <2>1. h \in Live /\ h \in Live'
    BY DEF QInv, LinkInv
  <2>2. N \in Nat /\ \A i \in 0 .. N : Follow(h, i) \in Live \cup {NULL}
    BY <2>1, FollowFacts
  <2>3. \A i \in 0 .. N - 1 : Follow(h, i) # NULL => ev'[Follow(h, i)].next = ev[Follow(h, i)].next
    BY <2>2
  <2>4. N \in 0 .. N /\ n \in 0 .. N
    BY <2>2
  <2> QED
    BY <2>1, <2>3, <2>4, WalkStays
<1>2. e # NULL /\ e \in Live' /\ N \in Nat \ {0}
  BY QueueAssumption, FS_CardinalityType, FS_EmptySet
<1>3. LoneLaw'
  BY LoneChains, PTL
<1>4. Follow(e, 0)' = e /\ \A i \in 0 .. N - 1 : i # 0 => Follow(e, i)' = NULL
  BY <1>2, <1>3 DEF LoneLaw
<1>5. ASSUME NEW x, NEW f, Fires(x, f)'
      PROVE  Fires(x, f) \/ (x = e /\ f = G)
  <2>1. PICK h \in Heads', i \in 0 .. N - 1 :
          x # NULL /\ Follow(h, i)' = x /\ f = TagOf(ev'[h].time, Start(h)' + i)
    BY <1>5 DEF Fires
  <2>2. CASE h = e
    <3>1. i = 0 /\ x = e
      BY <1>4, <2>1, <2>2
    <3>2. Start(e)' \in Nat
      <4>1. current_tag'.microstep \in Nat
        BY DEF QInv, TypeOK, Tag
      <4> QED
        BY <4>1 DEF Start
    <3>3. Start(e)' + i = Start(e)'
      BY <3>1, <3>2
    <3> QED
      BY <2>1, <2>2, <3>1, <3>3
  <2>3. CASE h \in Heads
    BY <1>1, <2>1, <2>3 DEF Fires
  <2> QED
    BY <2>2, <2>3
<1>6. ASSUME NEW x, NEW f, Fires(x, f)
      PROVE  Fires(x, f)'
  BY <1>1, <1>6 DEF Fires
<1>7. Fires(e, G)'
  <2>1. Start(e)' \in Nat
    <3>1. current_tag'.microstep \in Nat
      BY DEF QInv, TypeOK, Tag
    <3> QED
      BY <3>1 DEF Start
  <2>2. Start(e)' + 0 = Start(e)' /\ 0 \in 0 .. N - 1 /\ e \in Heads'
    BY <1>2, <2>1
  <2> QED
    BY <1>2, <1>4, <2>2 DEF Fires
<1> QED
  BY <1>5, <1>6, <1>7

(* So does a new event behind the last one of a chain, a microstep later.    *)
LEMMA FiringsHook ==
  ASSUME QInv, QInv', NEW e \in Events \ Live, Live' = Live \cup {e}, Heads' = Heads,
         NEW b \in Heads,
         \A x \in Live : ev'[x].time = ev[x].time /\ (x # LastOf(b) => ev'[x].next = ev[x].next),
         ev'[LastOf(b)].next = e, ev'[e].next = NULL, \A h \in Heads : Start(h)' = Start(h),
         NEW L, L = ChainLength(b), NEW G, G = TagOf(ev[b].time, Start(b) + L)
  PROVE  \A x, f : Fires(x, f)' <=> Fires(x, f) \/ (x = e /\ f = G)
<1> DEFINE N == Cardinality(Events)
<1>1. \A h \in Heads : h \in Live /\ h \in Live'
  BY DEF QInv, LinkInv
<1>2. /\ L \in 1 .. N - 1 /\ N \in Nat /\ Follow(b, L) = NULL
      /\ LastOf(b) = Follow(b, L - 1) /\ LastOf(b) \in Live
  BY <1>1, RoomBehind, FollowFacts, ChainFacts DEF LastOf
<1>3. e # NULL
  BY QueueAssumption
<1>4. \A h \in Heads : \A i \in 0 .. N : Follow(h, i) \in Live \cup {NULL}
  BY <1>1, FollowFacts
<1>5. ASSUME NEW h \in Heads, h # b, NEW n \in 0 .. N
      PROVE  Follow(h, n)' = Follow(h, n)
  <2>1. \A i \in 0 .. N - 1 : Follow(h, i) # NULL => ev'[Follow(h, i)].next = ev[Follow(h, i)].next
    <3> TAKE i \in 0 .. N - 1
    <3> HAVE Follow(h, i) # NULL
    <3>1. i \in 0 .. N /\ L - 1 \in 0 .. N
      BY <1>2
    <3>2. Follow(h, i) # LastOf(b)
      BY <1>2, <1>5, <3>1, ChainsApart
    <3> QED
      BY <1>4, <3>1, <3>2
  <2>2. N \in 0 .. N /\ n \in 0 .. N
    BY <1>2
  <2> QED
    BY <1>1, <2>1, <2>2, WalkStays
<1>6. ASSUME NEW n \in 0 .. N, n < L
      PROVE  Follow(b, n)' = Follow(b, n)
  <2> DEFINE m == L - 1
  <2>1. m \in 0 .. N /\ n \in 0 .. m
    BY <1>2, <1>6
  <2>2. \A i \in 0 .. m - 1 : Follow(b, i) # NULL => ev'[Follow(b, i)].next = ev[Follow(b, i)].next
    <3> TAKE i \in 0 .. m - 1
    <3> HAVE Follow(b, i) # NULL
    <3>1. i \in 0 .. N /\ L - 1 \in 0 .. N /\ i # L - 1
      BY <1>2
    <3>2. Follow(b, i) # LastOf(b)
      BY <1>2, <3>1, ChainsApart
    <3> QED
      BY <1>4, <3>1, <3>2
  <2> HIDE DEF m
  <2> QED
    BY <1>1, <2>1, <2>2, WalkStays
<1>7. ChainLaw'
  BY Chains, PTL
<1>8. /\ \A i \in 0 .. N - 1 :
           Follow(b, i + 1)' = IF Follow(b, i)' = NULL THEN NULL ELSE ev'[Follow(b, i)'].next
      /\ \A i \in 0 .. N : Follow(b, i)' = NULL => \A j \in i .. N : Follow(b, j)' = NULL
  BY <1>1, <1>7 DEF ChainLaw
<1>9. Follow(b, L)' = e
  <2>1. /\ L - 1 \in 0 .. N - 1 /\ L - 1 \in 0 .. N /\ (L - 1) + 1 = L /\ L - 1 < L
        /\ NULL \notin Live
    BY <1>2, QueueAssumption DEF QInv, TypeOK, Live
  <2> HIDE DEF N
  <2>2. Follow(b, L - 1)' = Follow(b, L - 1) /\ Follow(b, L - 1) # NULL
    BY <1>2, <1>6, <2>1
  <2>3. Follow(b, (L - 1) + 1)' = ev'[Follow(b, L - 1)'].next
    BY <1>8, <2>1, <2>2
  <2> QED
    BY <1>2, <2>1, <2>2, <2>3
<1>10. ASSUME NEW n \in 0 .. N, n > L
       PROVE  Follow(b, n)' = NULL /\ Follow(b, n) = NULL
  <2>1. L \in 0 .. N - 1 /\ L + 1 \in 0 .. N /\ n \in L + 1 .. N /\ L \in 0 .. N /\ n \in L .. N
    BY <1>2, <1>10
  <2> HIDE DEF N
  <2>2. Follow(b, L + 1)' = NULL
    BY <1>3, <1>8, <1>9, <2>1
  <2>3. Follow(b, n)' = NULL
    BY <1>8, <2>1, <2>2
  <2>4. Follow(b, n) = NULL
    BY <1>1, <1>2, <2>1, EndStays DEF N
  <2> QED
    BY <2>3, <2>4
<1>11. \A h \in Heads : ev'[h].time = ev[h].time /\ Start(h)' = Start(h)
  BY <1>1
<1>12. ASSUME NEW x, NEW f, Fires(x, f)'
       PROVE  Fires(x, f) \/ (x = e /\ f = G)
  <2>1. PICK h \in Heads, i \in 0 .. N - 1 :
          x # NULL /\ Follow(h, i)' = x /\ f = TagOf(ev'[h].time, Start(h)' + i)
    BY <1>12 DEF Fires
  <2>2. f = TagOf(ev[h].time, Start(h) + i) /\ i \in 0 .. N
    BY <1>2, <1>11, <2>1
  <2>3. CASE h # b \/ i < L
    BY <1>5, <1>6, <2>1, <2>2, <2>3 DEF Fires
  <2>4. CASE h = b /\ i = L
    BY <1>9, <2>1, <2>2, <2>4
  <2>5. CASE h = b /\ i > L
    BY <1>10, <2>1, <2>2, <2>5
  <2> QED
    BY <1>2, <2>2, <2>3, <2>4, <2>5
<1>13. ASSUME NEW x, NEW f, Fires(x, f)
       PROVE  Fires(x, f)'
  <2>1. PICK h \in Heads, i \in 0 .. N - 1 :
          x # NULL /\ Follow(h, i) = x /\ f = TagOf(ev[h].time, Start(h) + i)
    BY <1>13 DEF Fires
  <2>2. f = TagOf(ev'[h].time, Start(h)' + i) /\ i \in 0 .. N
    BY <1>2, <1>11, <2>1
  <2>3. h # b \/ i < L
    BY <1>2, <1>10, <2>1, <2>2
  <2>4. Follow(h, i)' = x
    BY <1>5, <1>6, <2>1, <2>2, <2>3
  <2> QED
    BY <2>1, <2>2, <2>4 DEF Fires
<1>14. Fires(e, G)'
  <2>1. L \in 0 .. N - 1 /\ b \in Heads' /\ G = TagOf(ev'[b].time, Start(b)' + L)
    BY <1>2, <1>11
  <2> QED
    BY <1>3, <1>9, <2>1 DEF Fires
<1> QED
  BY <1>12, <1>13, <1>14

(* The head e of a chain fires no more, the rest of its chain as before, when *)
(* e is popped and cleared; events put in the queue by that fire later.       *)
LEMMA FiringsLose ==
  ASSUME QInv, QInv', ChainsAtATime, popping, UNCHANGED <<current_tag, popping>>,
         NEW e \in event_q, ev[e].time = current_tag.time,
         NEW again \in SUBSET (Events \ Live), Live' = (Live \ {e}) \cup again,
         event_q' = (event_q \ {e}) \cup again, next_q' = next_q \cup ({ev[e].next} \ {NULL}),
         \A x \in Live : x # e => ev'[x] = ev[x],
         NEW t \in Nat, t # current_tag.time,
         \A x \in again : ev'[x].next = NULL /\ ev'[x].time = t
  PROVE  \A x, f : Fires(x, f)' <=> (Fires(x, f) /\ x # e) \/ (x \in again /\ f = TagOf(t, 0))
<1> DEFINE N == Cardinality(Events)
<1>1. /\ e \in Heads /\ e \in Live /\ e # NULL
      /\ \A h \in Heads : h \in Live
      /\ \A h \in Heads : h # e => h \in Live'
  BY QueueAssumption DEF QInv, TypeOK, LinkInv, Heads
<1>2. N \in Nat \ {0} /\ Follow(e, 0) = e
  BY <1>1, FollowFacts
<1>3. \A h \in Heads : \A i \in 0 .. N : Follow(h, i) \in Live \cup {NULL}
  BY <1>1, FollowFacts
<1>4. ASSUME NEW h \in Heads, NEW i \in 0 .. N, Follow(h, i) = e
      PROVE  h = e /\ i = 0
  <2>1. 0 \in 0 .. N
    BY <1>2
  <2> QED
    BY <1>1, <1>2, <1>4, <2>1, ChainsApart
<1>5. ASSUME NEW h \in Heads, h # e, NEW n \in 0 .. N
      PROVE  Follow(h, n)' = Follow(h, n)
  <2>1. \A i \in 0 .. N - 1 : Follow(h, i) # NULL => ev'[Follow(h, i)].next = ev[Follow(h, i)].next
    <3> TAKE i \in 0 .. N - 1
    <3> HAVE Follow(h, i) # NULL
    <3>1. i \in 0 .. N
      BY <1>2
    <3> QED
      BY <1>3, <1>4, <1>5, <3>1
  <2>2. N \in 0 .. N
    BY <1>2
  <2> QED
    BY <1>1, <1>5, <2>1, <2>2, WalkStays
<1>6. ASSUME NEW h \in Heads, h # e
      PROVE  h \in Heads' /\ ev'[h].time = ev[h].time /\ Start(h)' = Start(h)
  <2>1. h \notin again /\ ev'[h] = ev[h]
    BY <1>1, <1>6
  <2>2. h \in event_q' <=> h \in event_q
    BY <1>6, <2>1
  <2> QED
    BY <1>6, <2>1, <2>2 DEF Start, Heads
<1> DEFINE b == ev[e].next
<1>7. current_tag.microstep \in Nat
  BY DEF QInv, TypeOK, Tag
<1>8. ASSUME NEW c, c = b, c # NULL
      PROVE  /\ c \in Heads' /\ c \in Live /\ c # e
             /\ ev'[c].time = ev[e].time /\ Start(c)' = current_tag.microstep + 1
             /\ \A n \in 0 .. N - 1 : Follow(c, n)' = Follow(e, n + 1)
  <2>1. c \in Live /\ c \notin Heads
    BY <1>1, <1>8 DEF QInv, LinkInv
  <2>2. c # e /\ c \in Live' /\ c \in next_q' /\ c \notin event_q'
    BY <1>1, <1>8, <2>1 DEF Heads
  <2>3. ev'[c].time = ev[e].time
    BY <1>1, <1>8, <2>1, <2>2 DEF ChainsAtATime
  <2>4. Start(c)' = current_tag.microstep + 1
    BY <2>2, <2>3 DEF Start
  <2>5. 1 \in 0 .. N /\ N \in 0 .. N /\ 0 \in 0 .. N - 1 /\ 0 + 1 = 1
    BY <1>2
  <2>6. Follow(e, 1) = c
    <3>1. Follow(e, 0 + 1) = ev[Follow(e, 0)].next
      BY <1>1, <1>2, <2>5, FollowFacts
    <3> QED
      BY <1>2, <1>8, <2>5, <3>1
  <2>7. \A i \in 1 .. N - 1 : Follow(e, i) # NULL => ev'[Follow(e, i)].next = ev[Follow(e, i)].next
    <3> TAKE i \in 1 .. N - 1
    <3> HAVE Follow(e, i) # NULL
    <3>1. i \in 0 .. N /\ i # 0
      BY <1>2
    <3> QED
      BY <1>1, <1>3, <1>4, <3>1
  <2>8. ASSUME NEW n \in 0 .. N - 1
        PROVE  Follow(c, n)' = Follow(e, n + 1)
    <3> DEFINE k == 1
    <3>1. k \in 0 .. N /\ n \in Nat /\ k + n <= N /\ k + n = n + 1
      BY <1>2
    <3>2. Follow(e, k) = c /\ \A i \in k .. N - 1 :
            Follow(e, i) # NULL => ev'[Follow(e, i)].next = ev[Follow(e, i)].next
      BY <2>6, <2>7
    <3> HIDE DEF k
    <3>3. Follow(c, n)' = Follow(e, k + n)
      BY <1>1, <2>2, <2>5, <3>1, <3>2, SameWalk
    <3> QED
      BY <3>1, <3>3
  <2> QED
    BY <2>1, <2>2, <2>3, <2>4, <2>8 DEF Heads
<1>9. Start(e) = current_tag.microstep
  BY <1>7 DEF Start
<1>10. ASSUME NEW n \in again
       PROVE  /\ n \in Heads' /\ n # NULL /\ ev'[n].time = t /\ Start(n)' = 0
              /\ Follow(n, 0)' = n /\ \A i \in 0 .. N - 1 : i # 0 => Follow(n, i)' = NULL
  <2>1. n \in Heads' /\ n \in Live' /\ n # NULL
    BY QueueAssumption DEF Heads
  <2>2. LoneLaw'
    BY LoneChains, PTL
  <2>3. Start(n)' = 0
    BY DEF Start
  <2> QED
    BY <2>1, <2>2, <2>3 DEF LoneLaw
<1>11. Heads' = (Heads \ {e}) \cup again \cup ({b} \ {NULL})
  <2>1. e \notin next_q
    BY DEF QInv, LinkInv
  <2> QED
    BY <2>1 DEF Heads
<1>12. ASSUME NEW x, NEW f, Fires(x, f)'
       PROVE  (Fires(x, f) /\ x # e) \/ (x \in again /\ f = TagOf(t, 0))
  <2>1. PICK h \in Heads', i \in 0 .. N - 1 :
          x # NULL /\ Follow(h, i)' = x /\ f = TagOf(ev'[h].time, Start(h)' + i)
    BY <1>12 DEF Fires
  <2>2. i \in 0 .. N
    BY <1>2
  <2>3. CASE h \in Heads /\ h # e
    <3>1. Follow(h, i) = x /\ f = TagOf(ev[h].time, Start(h) + i)
      BY <1>5, <1>6, <2>1, <2>2, <2>3
    <3>2. x # e
      BY <1>4, <2>2, <2>3, <3>1
    <3> QED
      BY <2>1, <2>3, <3>1, <3>2 DEF Fires
  <2>4. CASE h \in again
    <3>1. i = 0 /\ x = h
      BY <1>10, <2>1, <2>4
    <3> QED
      BY <1>10, <2>1, <2>4, <3>1
  <2>5. CASE h = b /\ h # NULL
    <3>1. /\ ev'[h].time = ev[e].time /\ Start(h)' = current_tag.microstep + 1
          /\ Follow(e, i + 1) = x
      BY <1>8, <2>1, <2>5
    <3>2. i + 1 # N
      BY <1>1, <2>1, <3>1, ChainsEnd
    <3>3. i + 1 \in 0 .. N - 1 /\ i + 1 \in 0 .. N /\ i + 1 # 0
      BY <1>2, <3>2
    <3>4. (current_tag.microstep + 1) + i = Start(e) + (i + 1)
      BY <1>2, <1>7, <1>9
    <3>5. x # e
      BY <1>1, <1>4, <3>1, <3>3
    <3> QED
      BY <1>1, <2>1, <3>1, <3>3, <3>4, <3>5 DEF Fires
  <2> QED
    BY <1>11, <2>1, <2>3, <2>4, <2>5
<1>13. ASSUME NEW x, NEW f, Fires(x, f), x # e
       PROVE  Fires(x, f)'
  <2>1. PICK h \in Heads, i \in 0 .. N - 1 :
          x # NULL /\ Follow(h, i) = x /\ f = TagOf(ev[h].time, Start(h) + i)
    BY <1>13 DEF Fires
  <2>2. i \in 0 .. N
    BY <1>2
  <2>3. CASE h # e
    BY <1>5, <1>6, <2>1, <2>2, <2>3 DEF Fires
  <2>4. CASE h = e
    <3>1. i # 0
      BY <1>2, <1>13, <2>1, <2>4
    <3>2. i - 1 \in 0 .. N - 1 /\ (i - 1) + 1 = i /\ 1 \in 0 .. N /\ i \in 1 .. N
          /\ 0 \in 0 .. N - 1 /\ 0 + 1 = 1
      BY <1>2, <3>1
    <3>3. Follow(e, 1) = b
      <4>1. Follow(e, 0 + 1) = ev[Follow(e, 0)].next
        BY <1>1, <1>2, <3>2, FollowFacts
      <4> QED
        BY <1>2, <3>2, <4>1
    <3>4. b # NULL
      <4> SUFFICES ASSUME b = NULL
                   PROVE  FALSE
        OBVIOUS
      <4>1. Follow(e, i) = NULL
        BY <1>1, <3>2, <3>3, EndStays
      <4> QED
        BY <2>1, <2>4, <4>1
    <3>5. PICK c : c = b
      OBVIOUS
    <3>6. /\ c \in Heads' /\ ev'[c].time = ev[e].time /\ Start(c)' = current_tag.microstep + 1
          /\ Follow(c, i - 1)' = Follow(e, (i - 1) + 1)
      BY <1>8, <3>2, <3>4, <3>5
    <3>7. (current_tag.microstep + 1) + (i - 1) = Start(e) + i
      BY <1>2, <1>7, <1>9
    <3>8. Follow(c, i - 1)' = x
      BY <2>1, <2>4, <3>2, <3>6
    <3>9. f = TagOf(ev'[c].time, Start(c)' + (i - 1))
      BY <2>1, <2>4, <3>6, <3>7
    <3> QED
      BY <2>1, <3>2, <3>6, <3>8, <3>9 DEF Fires
  <2> QED
    BY <2>3, <2>4
<1>14. ASSUME NEW n \in again
       PROVE  Fires(n, TagOf(t, 0))'
  <2>1. 0 \in 0 .. N - 1 /\ Start(n)' + 0 = 0
    BY <1>2, <1>10
  <2> QED
    BY <1>10, <2>1 DEF Fires
<1> QED
  BY <1>12, <1>13, <1>14

-----------------------------------------------------------------------------
(* What _lf_schedule does to the queue of an orderly program *)

(* Programs without network input, in which an action with a minimum spacing *)
(* is the only trigger, and is not deferred into the current time.           *)
Orderly(p) ==
  \A tr \in DOMAIN p :
    /\ p[tr].kind # "network"
    /\ p[tr].kind \in Actions /\ p[tr].period >= 0 =>
         /\ DOMAIN p = {tr}
         /\ p[tr].policy = "defer" => p[tr].period > 0 /\ p[tr].offset > 0

(* The event is not needed,                                                  *)
Unneeded == Live' = Live /\ UNCHANGED <<ev, event_q, last>>

(* or starts a chain,                                                        *)
StartsChain(tr, t, tok, e) ==
  /\ e \in Events \ Live /\ t \in Nat /\ t >= current_tag.time /\ Found(tr, t) = {}
  /\ prog[tr].period >= 0 => /\ \A x \in Live : ev[x].time <= t
                             /\ prog[tr].policy = "defer" => t > current_tag.time
  /\ ev' = [ev EXCEPT ![e] = EventOf(tr, t, tok)] /\ last' = [last EXCEPT ![tr] = e]
  /\ event_q' = event_q \cup {e} /\ Live' = Live \cup {e}

(* or joins one,                                                             *)
JoinsChain(tr, h, tok, e) ==
  /\ e \in Events \ Live /\ h \in event_q /\ ev[h].trigger = tr /\ prog[tr].period < 0
  /\ ev' = [ev EXCEPT ![e] = EventOf(tr, ev[h].time, tok), ![LastOf(h)].next = e]
  /\ Live' = Live \cup {e} /\ UNCHANGED <<event_q, last>>

(* or leaves its token to another one.                                       *)
SwapsToken(x, tok) ==
  /\ x \in event_q
  /\ ev' = [ev EXCEPT ![x].token = tok]
  /\ Live' = Live /\ UNCHANGED <<event_q, last>>

QueueChanges(tr) ==
  \/ Unneeded
  \/ \E t, e : \E tok \in Tokens \cup {NULL} : StartsChain(tr, t, tok, e)
  \/ \E h, e : \E tok \in Tokens \cup {NULL} : JoinsChain(tr, h, tok, e)
  \/ \E x : \E tok \in Tokens \cup {NULL} : SwapsToken(x, tok)

(* The end of _lf_schedule.                                                  *)
LEMMA InsertChanges ==
  ASSUME QInv, NEW tr, NEW t \in Nat, NEW s, NEW tok \in Tokens \cup {NULL},
         NEW e \in Events \ Live, t >= current_tag.time, Found(tr, t) = {},
         prog[tr].period >= 0 => /\ \A x \in Live : ev[x].time <= t
                                 /\ prog[tr].policy = "defer" => t > current_tag.time,
         Insert(tr, t, s, tok, e)
  PROVE  QueueChanges(tr)
<1>1. CASE t > stop_tag.time
  <2>1. GiveBack(e) /\ UNCHANGED ev
    BY <1>1 DEF Insert
  <2>2. Live' = Live
    BY <2>1, GiveBackLive
  <2> QED
    BY <2>1, <2>2 DEF QueueChanges, Unneeded, GiveBack
<1>2. CASE ~ (t > stop_tag.time)
  <2>1. /\ Use(<<e>>, [ev EXCEPT ![e] = EventOf(tr, t, tok)])
        /\ event_q' = event_q \cup {e} /\ last' = [last EXCEPT ![tr] = e]
    BY <1>2 DEF Insert
  <2>2. {<<e>>[i] : i \in DOMAIN <<e>>} = {e}
    <3>1. DOMAIN <<e>> = {1} /\ <<e>>[1] = e
      OBVIOUS
    <3> QED
      BY <3>1
  <2>3. Live' = Live \cup {e} /\ ev' = [ev EXCEPT ![e] = EventOf(tr, t, tok)]
    BY <2>1, <2>2, UseLive
  <2>4. StartsChain(tr, t, tok, e)
    BY <2>1, <2>3 DEF StartsChain
  <2> QED
    BY <2>4 DEF QueueChanges
<1> QED
  BY <1>1, <1>2

(* Without a minimum spacing,                                                *)
LEMMA UnspacedChanges ==
  ASSUME QInv, NEW tr \in DOMAIN prog, NEW t \in Nat, NEW s, NEW tok \in Tokens \cup {NULL},
         NEW e \in Events \ Live, t >= current_tag.time, prog[tr].period < 0,
         Unspaced(tr, t, s, tok, e)
  PROVE  QueueChanges(tr)
<1>0. ~ (prog[tr].period >= 0)
  BY DEF QInv, TypeOK, Fields
<1>1. CASE Found(tr, t) = {}
  <2>1. Insert(tr, t, s, tok, e)
    BY <1>1 DEF Unspaced
  <2> QED
    BY <1>0, <1>1, <2>1, InsertChanges
<1>2. CASE Found(tr, t) # {}
  <2>1. PICK h \in Found(tr, t) :
          HookBehind(ev, LastOf(h), TagOf(t, ChainLength(h)), EventOf(tr, t, tok), s, e)
    BY <1>2 DEF Unspaced
  <2>2. h \in event_q /\ ev[h].trigger = tr /\ ev[h].time = t
    BY DEF Found
  <2>3. CASE AfterStop(TagOf(t, ChainLength(h)))
    <3>1. GiveBack(e) /\ UNCHANGED ev
      BY <2>1, <2>3 DEF HookBehind
    <3>2. Live' = Live
      BY <3>1, GiveBackLive
    <3> QED
      BY <3>1, <3>2 DEF QueueChanges, Unneeded, GiveBack
  <2>4. CASE ~AfterStop(TagOf(t, ChainLength(h)))
    <3> DEFINE w == [ev EXCEPT ![e] = EventOf(tr, t, tok), ![LastOf(h)].next = e]
    <3>1. Use(<<e>>, w) /\ UNCHANGED <<event_q, last>>
      BY <2>1, <2>4 DEF HookBehind
    <3>2. {<<e>>[i] : i \in DOMAIN <<e>>} = {e}
      <4>1. DOMAIN <<e>> = {1} /\ <<e>>[1] = e
        OBVIOUS
      <4> QED
        BY <4>1
    <3>3. Live' = Live \cup {e} /\ ev' = w
      <4> HIDE DEF w
      <4> QED
        BY <3>1, <3>2, UseLive
    <3>4. JoinsChain(tr, h, tok, e)
      BY <2>2, <3>1, <3>3 DEF JoinsChain
    <3> QED
      BY <3>4 DEF QueueChanges
  <2> QED
    BY <2>3, <2>4
<1> QED
  BY <1>1, <1>2

(* and with one, where `last' points to the latest event of the action.      *)
LEMMA SpacedChanges ==
  ASSUME QInv, Ordered, Orderly(prog), ~popping,
         NEW tr \in DOMAIN prog, prog[tr].kind \in Actions, prog[tr].period >= 0,
         NEW t \in Nat, NEW s, NEW tok \in Tokens \cup {NULL}, NEW e \in Events \ Live,
         t >= current_tag.time, prog[tr].policy = "defer" => t > current_tag.time,
         Spaced(tr, t, s, tok, e)
  PROVE  QueueChanges(tr)
<1> DEFINE x == last[tr]
           later == ev[x].time + prog[tr].period
<1>1. /\ x \in Events \cup {NULL} /\ prog[tr].period \in Nat
      /\ current_tag.time \in Nat
      /\ \A y \in Events : ev[y].time \in Nat
  BY DEF QInv, TypeOK, Fields, Tag, EventFields
<1>2. /\ Live = event_q
      /\ Live # {} => x \in Live /\ \A y \in Live : ev[y].time <= ev[x].time
      /\ prog[tr].policy = "defer" => \A y \in Live : ev[y].time > current_tag.time
  BY DEF Ordered, SpacingKept
<1>3. \A y \in Live : /\ ev[y].trigger = tr /\ ev[y].time >= current_tag.time
                      /\ y \in Events /\ ev[y].time \in Nat
  BY <1>1, <1>2 DEF Orderly, Ordered, InTime, QInv, LinkInv, TypeOK, Live
<1>4. \A y \in Live : Queued(y) /\ Waiting(y)
  BY <1>1, <1>2, <1>3 DEF Queued, Found, Waiting
<1>5. NULL \notin Events
  BY QueueAssumption
<1>6. ASSUME NEW u \in Nat, u >= t, \A y \in Live : ev[y].time < u, Insert(tr, u, s, tok, e)
      PROVE  QueueChanges(tr)
  <2>1. u >= current_tag.time /\ (prog[tr].policy = "defer" => u > current_tag.time)
    BY <1>1, <1>6
  <2>2. \A y \in Live : ev[y].time <= u
    BY <1>3, <1>6
  <2>3. Found(tr, u) = {}
    BY <1>2, <1>3, <1>6 DEF Found
  <2> QED
    BY <1>6, <2>1, <2>2, <2>3, InsertChanges
<1>7. CASE x = NULL \/ later < t
  <2>1. Insert(tr, t, s, tok, e)
    BY <1>7 DEF Spaced
  <2>2. ASSUME NEW y \in Live
        PROVE  ev[y].time < t
    <3>1. x \in Live /\ ev[y].time <= ev[x].time
      BY <1>2
    <3>2. x \in Events /\ later < t
      BY <1>3, <1>5, <1>7, <3>1
    <3> QED
      BY <1>1, <1>3, <3>1, <3>2
  <2> QED
    BY <1>6, <2>1, <2>2
<1>8. CASE ~ (x = NULL \/ later < t)
  <2>1. x \in Events /\ later \in Nat /\ later >= t
    BY <1>1, <1>8
  <2>2. ASSUME x \notin Live, Insert(tr, later, s, tok, e)
        PROVE  QueueChanges(tr)
    <3>1. \A y \in Live : ev[y].time < later
      BY <1>2, <2>2
    <3> HIDE DEF later
    <3> QED
      BY <1>6, <2>1, <2>2, <3>1
  <2>3. \/ Drop(ev, x, s, tok, e)
        \/ Waiting(x) /\ ReplaceToken(ev, x, s, tok, e)
        \/ ~Waiting(x) /\ Insert(tr, later, s, tok, e)
        \/ /\ prog[tr].policy = "defer"
           /\ \/ ev[x].time = current_tag.time /\ Queued(x)
              \/ Insert(tr, later, s, tok, e)
    BY <1>8 DEF Spaced
  <2>4. CASE Drop(ev, x, s, tok, e)
    <3>1. GiveBack(e) /\ UNCHANGED ev
      BY <2>4 DEF Drop
    <3>2. Live' = Live
      BY <3>1, GiveBackLive
    <3> QED
      BY <3>1, <3>2 DEF QueueChanges, Unneeded, GiveBack
  <2>5. CASE Waiting(x) /\ ReplaceToken(ev, x, s, tok, e)
    <3>1. x \in Live
      BY <2>1, <2>5, WaitingIsLive DEF Waiting
    <3>2. GiveBack(e) /\ ev' = [ev EXCEPT ![x].token = tok]
      BY <2>5 DEF ReplaceToken
    <3>3. Live' = Live
      BY <3>2, GiveBackLive
    <3>4. SwapsToken(x, tok)
      BY <1>2, <3>1, <3>2, <3>3 DEF SwapsToken, GiveBack
    <3> HIDE DEF x
    <3> QED
      BY <3>4 DEF QueueChanges
  <2>6. CASE ~Waiting(x) /\ Insert(tr, later, s, tok, e)
    BY <1>4, <2>2, <2>6
  <2>7. CASE prog[tr].policy = "defer" /\ ev[x].time = current_tag.time /\ Queued(x)
    <3>1. x \in Live
      BY <2>1, <2>7, WaitingIsLive
    <3> QED
      BY <1>1, <1>2, <2>1, <2>7, <3>1
  <2>8. CASE prog[tr].policy = "defer" /\ Insert(tr, later, s, tok, e)
    <3>1. prog[tr].period > 0
      BY <2>8 DEF Orderly
    <3>2. CASE x \in Live
      <4>1. \A y \in Live : ev[y].time < later
        BY <1>1, <1>2, <1>3, <2>1, <3>1
      <4> HIDE DEF later
      <4> QED
        BY <1>6, <2>1, <2>8, <4>1
    <3>3. CASE x \notin Live
      BY <2>2, <2>8, <3>3
    <3> QED
      BY <3>2, <3>3
  <2> QED
    BY <2>3, <2>4, <2>5, <2>6, <2>7, <2>8
<1> QED
  BY <1>7, <1>8

(* _lf_schedule as a whole,                                                  *)
LEMMA LfScheduleChanges ==
  ASSUME QInv, Ordered, Orderly(prog), ~popping,
         NEW tr \in DOMAIN prog, prog[tr].kind \in Actions, NEW d \in Nat, NEW s,
         NEW tok \in Tokens \cup {NULL}, LfSchedule(tr, d, s, tok)
  PROVE  QueueChanges(tr)
<1> DEFINE at(lag) == current_tag.time + lag + prog[tr].offset + d
           u == AddReference(s, tok)
<1>1. PICK lag \in PhysicalLag(tr), n \in NewEvents(1) :
        IF prog[tr].period < 0 THEN Unspaced(tr, at(lag), u, tok, n[1])
        ELSE Spaced(tr, at(lag), u, tok, n[1])
  BY DEF LfSchedule
<1> DEFINE e == n[1]
           t == at(lag)
<1>2. e \in Events \ Live
  BY NewEventsFacts
<1>3. prog[tr] \in Fields /\ current_tag.time \in Nat /\ lag \in Nat
  BY DEF QInv, TypeOK, Tag, PhysicalLag
<1>4. t \in Nat /\ prog[tr].period \in Int /\ t >= current_tag.time
  BY <1>3 DEF Fields
<1>5. prog[tr].period >= 0 /\ prog[tr].policy = "defer" => t > current_tag.time
  <2>1. prog[tr].period >= 0 /\ prog[tr].policy = "defer" => prog[tr].offset > 0
    BY DEF Orderly
  <2> QED
    BY <1>3, <2>1 DEF Fields
<1>6. IF prog[tr].period < 0 THEN Unspaced(tr, t, u, tok, e) ELSE Spaced(tr, t, u, tok, e)
  BY <1>1
<1> HIDE DEF t, u, e
<1>7. CASE prog[tr].period < 0
  BY <1>2, <1>4, <1>6, <1>7, UnspacedChanges
<1>8. CASE ~(prog[tr].period < 0)
  <2>1. prog[tr].period >= 0
    BY <1>4, <1>8
  <2> QED
    BY <1>2, <1>4, <1>5, <1>6, <1>8, <2>1, SpacedChanges
<1> QED
  BY <1>7, <1>8

(* The calls of lf_schedule.                                                 *)
LEMMA ScheduleChanges ==
  ASSUME QInv, Ordered, Orderly(prog), NEW tr \in DOMAIN prog, NEW d \in Delays,
         ScheduleVoid(tr, d) \/ ScheduleValue(tr, d) \/ ScheduleCopy(tr, d)
  PROVE  /\ QueueChanges(tr) /\ ~popping /\ prog[tr].kind \in Actions
         /\ UNCHANGED <<prog, current_tag, next_q, popping>>
<1>1. /\ ~popping /\ prog[tr].kind \in Actions /\ UNCHANGED <<prog, current_tag, next_q, popping>>
  BY DEF ScheduleVoid, ScheduleValue, ScheduleCopy, Calling
<1>2. d \in Nat
  BY QueueAssumption
<1>3. CASE ScheduleVoid(tr, d)
  <2>1. LfSchedule(tr, d, store, NULL) /\ NULL \in Tokens \cup {NULL}
    BY <1>3 DEF ScheduleVoid
  <2> QED
    BY <1>1, <1>2, <2>1, LfScheduleChanges
<1>4. CASE ScheduleValue(tr, d)
  <2> DEFINE with(t) == [CreateToken(store, t) EXCEPT !.token[t].value = TRUE]
  <2>1. PICK t \in NewTokens(store) : LfSchedule(tr, d, with(t), t)
    BY <1>4 DEF ScheduleValue
  <2>2. t \in Tokens \cup {NULL}
    BY NewTokenType DEF QInv, TypeOK
  <2> HIDE DEF with
  <2> QED
    BY <1>1, <1>2, <2>1, <2>2, LfScheduleChanges
<1>5. CASE ScheduleCopy(tr, d)
  <2>1. template[tr] \in Tokens
    BY <1>5 DEF ScheduleCopy, QInv, TypeOK
  <2>2. PICK u \in InitializeToken(store, template[tr]) : LfSchedule(tr, d, u[1], u[2])
    BY <1>5 DEF ScheduleCopy
  <2>3. PICK v \in IF store.token[template[tr]].ref_count = 0 THEN {<<store, template[tr]>>}
                   ELSE {<<CreateToken(store, t), t>> : t \in NewTokens(store)} :
          u = <<[v[1] EXCEPT !.token[v[2]].value = TRUE], v[2]>>
    BY <2>2 DEF InitializeToken
  <2>4. v[2] \in Tokens /\ u[2] = v[2]
    <3>1. CASE v = <<store, template[tr]>>
      BY <2>1, <2>3, <3>1
    <3>2. CASE \E t \in NewTokens(store) : v = <<CreateToken(store, t), t>>
      BY <2>3, <3>2, NewTokenType DEF QInv, TypeOK
    <3> QED
      BY <2>3, <3>1, <3>2
  <2>5. u[2] \in Tokens \cup {NULL}
    BY <2>4
  <2> QED
    BY <1>1, <1>2, <2>2, <2>5, LfScheduleChanges
<1> QED
  BY <1>1, <1>3, <1>4, <1>5

-----------------------------------------------------------------------------
(* The order of the events is kept when one is scheduled *)

(* The events of a chain have the time of its head.                          *)
LEMMA ChainTime ==
  ASSUME QInv, ChainsAtATime, NEW h \in Live, NEW i \in 0 .. ChainLength(h) - 1
  PROVE  ev[Follow(h, i)].time = ev[h].time
<1> DEFINE N == Cardinality(Events)
           bad == {k \in 0 .. ChainLength(h) - 1 : ev[Follow(h, k)].time # ev[h].time}
<1>1. /\ N \in Nat \ {0} /\ Follow(h, 0) = h
      /\ \A k \in 0 .. N - 1 :
           Follow(h, k + 1) = IF Follow(h, k) = NULL THEN NULL ELSE ev[Follow(h, k)].next
  BY FollowFacts
<1>2. /\ ChainLength(h) \in 1 .. N
      /\ \A k \in 0 .. ChainLength(h) - 1 : Follow(h, k) \in Live
  BY ChainFacts
<1> SUFFICES ASSUME bad # {}
             PROVE  FALSE
  OBVIOUS
<1> HIDE DEF N
<1>3. PICK k \in bad : \A m \in bad : k <= m
  <2>1. bad \in SUBSET Nat
    BY <1>1, <1>2
  <2> HIDE DEF bad
  <2> QED
    BY <2>1, LeastNatural
<1>4. k \in 0 .. ChainLength(h) - 1 /\ ev[Follow(h, k)].time # ev[h].time
  BY <1>3
<1>5. k # 0
  BY <1>1, <1>4
<1>6. k - 1 \in 0 .. ChainLength(h) - 1 /\ k - 1 \in 0 .. N - 1 /\ (k - 1) + 1 = k
  BY <1>1, <1>2, <1>4, <1>5
<1>7. ev[Follow(h, k - 1)].time = ev[h].time
  <2>1. k - 1 \notin bad
    <3> HIDE DEF bad
    <3> QED
      BY <1>1, <1>2, <1>3, <1>4, <1>6
  <2> QED
    BY <1>6, <2>1
<1>8. Follow(h, k - 1) \in Live /\ Follow(h, k) \in Live /\ NULL \notin Live
  BY <1>2, <1>4, <1>6, QueueAssumption DEF QInv, TypeOK, Live
<1>9. Follow(h, k) = ev[Follow(h, k - 1)].next
  <2>1. Follow(h, (k - 1) + 1) =
          IF Follow(h, k - 1) = NULL THEN NULL ELSE ev[Follow(h, k - 1)].next
    BY <1>1, <1>6
  <2> QED
    BY <1>6, <1>8, <2>1
<1> QED
  BY <1>4, <1>7, <1>8, <1>9 DEF ChainsAtATime

(* What scheduling leaves alone.                                             *)
Between == ~popping /\ UNCHANGED <<prog, current_tag, next_q, popping>>

(* Nothing happens, or a token is swapped:                                   *)
LEMMA SameOrder ==
  ASSUME QInv, Ordered, UNCHANGED <<prog, current_tag, event_q, next_q, popping, last>>,
         Live' = Live,
         \A x \in Live : /\ ev'[x].time = ev[x].time /\ ev'[x].trigger = ev[x].trigger
                         /\ ev'[x].next = ev[x].next /\ ev'[x].is_dummy = ev[x].is_dummy
  PROVE  Ordered'
<1>1. /\ Heads' = Heads /\ \A h \in Heads : h \in Live
      /\ \A x \in Live : ev[x].next \in Live \cup {NULL}
  BY DEF Heads, QInv, LinkInv
<1>2. NoDummies'
  BY DEF Ordered, NoDummies
<1>3. ChainsAtATime'
  BY <1>1 DEF Ordered, ChainsAtATime
<1>4. HeadsApart'
  BY <1>1 DEF Ordered, HeadsApart
<1>5. TimersOnce'
  BY DEF Ordered, TimersOnce
<1>6. InTime'
  BY <1>1 DEF Ordered, InTime, Heads
<1>7. SpacingKept'
  BY <1>1 DEF Ordered, SpacingKept
<1> QED
  BY <1>2, <1>3, <1>4, <1>5, <1>6, <1>7 DEF Ordered

(* a chain starts:                                                           *)
LEMMA StartsOrdered ==
  ASSUME QInv, Ordered, Orderly(prog), Between, NEW tr \in DOMAIN prog, prog[tr].kind \in Actions,
         NEW t, NEW tok, NEW e, StartsChain(tr, t, tok, e)
  PROVE  Ordered'
<1>1. /\ e \in Events /\ e \notin Live /\ t \in Nat /\ t >= current_tag.time /\ Found(tr, t) = {}
      /\ event_q' = event_q \cup {e} /\ Live' = Live \cup {e}
      /\ last' = [last EXCEPT ![tr] = e]
      /\ prog[tr].period >= 0 => /\ \A x \in Live : ev[x].time <= t
                                 /\ prog[tr].policy = "defer" => t > current_tag.time
  BY DEF StartsChain
<1>2. /\ ev'[e].trigger = tr /\ ev'[e].time = t /\ ev'[e].next = NULL /\ ~ev'[e].is_dummy
      /\ \A x \in Live : ev'[x] = ev[x]
  BY <1>1 DEF StartsChain, EventOf, Zeroed, QInv, TypeOK, Live
<1>3. /\ \A h \in Heads : h \in Live
      /\ \A x \in Live : ev[x].next \in Live \cup {NULL} /\ x \in Events
      /\ NULL \notin Live
  BY QueueAssumption DEF QInv, LinkInv, Live, TypeOK
<1>4. /\ next_q = {} /\ ~popping /\ next_q' = {} /\ ~popping'
      /\ UNCHANGED <<prog, current_tag>>
  BY DEF Between, Ordered, InTime
<1>5. Heads = event_q /\ Heads' = Heads \cup {e}
  BY <1>1, <1>4 DEF Heads
<1>6. NoDummies'
  BY <1>1, <1>2 DEF Ordered, NoDummies
<1>7. ChainsAtATime'
  BY <1>1, <1>2, <1>3 DEF Ordered, ChainsAtATime
<1>8. HeadsApart'
  <2>1. \A h \in Heads : ~ (ev[h].trigger = tr /\ ev[h].time = t)
    BY <1>1, <1>5 DEF Found
  <2> QED
    BY <1>2, <1>3, <1>5, <2>1 DEF Ordered, HeadsApart
<1>9. TimersOnce'
  <2>1. prog[tr].kind # "timer"
    BY DEF Actions
  <2> QED
    BY <1>1, <1>2, <1>4, <2>1 DEF Ordered, TimersOnce
<1>10. InTime'
  BY <1>1, <1>2, <1>3, <1>4, <1>5 DEF Ordered, InTime
<1>11. SpacingKept'
  <2> SUFFICES ASSUME NEW u \in DOMAIN prog, prog[u].kind \in Actions, prog[u].period >= 0
               PROVE  /\ Live' = event_q'
                      /\ last'[u] \in Live' /\ \A x \in Live' : ev'[x].time <= ev'[last'[u]].time
                      /\ prog[u].policy = "defer" => \A x \in Live' : ev'[x].time > current_tag.time
    BY <1>4 DEF SpacingKept
  <2>1. u = tr
    BY DEF Orderly
  <2>2. last'[u] = e
    BY <1>1, <2>1 DEF QInv, TypeOK
  <2>3. /\ Live = event_q
        /\ prog[u].policy = "defer" => \A x \in Live : ev[x].time > current_tag.time
    BY <1>4 DEF Ordered, SpacingKept
  <2> QED
    BY <1>1, <1>2, <2>1, <2>2, <2>3
<1> QED
  BY <1>6, <1>7, <1>8, <1>9, <1>10, <1>11 DEF Ordered

(* an event joins a chain.                                                   *)
LEMMA JoinsOrdered ==
  ASSUME QInv, Ordered, Orderly(prog), Between, NEW tr \in DOMAIN prog, prog[tr].kind \in Actions,
         NEW h, NEW tok, NEW e, JoinsChain(tr, h, tok, e)
  PROVE  Ordered'
<1> DEFINE p == LastOf(h)
<1>1. /\ e \in Events /\ e \notin Live /\ h \in event_q /\ ev[h].trigger = tr
      /\ Live' = Live \cup {e} /\ UNCHANGED <<event_q, last>> /\ prog[tr].period < 0
  BY DEF JoinsChain
<1>2. /\ \A g \in Heads : g \in Live
      /\ \A x \in Live : ev[x].next \in Live \cup {NULL} /\ x \in Events
      /\ NULL \notin Live /\ h \in Live
  BY <1>1, QueueAssumption DEF QInv, LinkInv, Live, TypeOK, Heads
<1>3. p \in Live /\ ev[p].time = ev[h].time
  <2>1. LastOf(h) \in Live /\ ChainLength(h) \in 1 .. Cardinality(Events)
    BY <1>2, ChainFacts
  <2>2. Cardinality(Events) \in Nat
    BY <1>2, FollowFacts
  <2>3. ChainLength(h) - 1 \in 0 .. ChainLength(h) - 1
    BY <2>1, <2>2
  <2>4. ev[Follow(h, ChainLength(h) - 1)].time = ev[h].time
    BY <1>2, <2>3, ChainTime DEF Ordered
  <2> QED
    BY <2>1, <2>4 DEF LastOf
<1>4. ev' = [ev EXCEPT ![e] = EventOf(tr, ev[h].time, tok), ![p].next = e]
  BY DEF JoinsChain
<1> HIDE DEF p
<1>5. /\ ev'[e].trigger = tr /\ ev'[e].time = ev[h].time /\ ev'[e].next = NULL /\ ~ev'[e].is_dummy
      /\ \A x \in Live : /\ ev'[x].time = ev[x].time /\ ev'[x].trigger = ev[x].trigger
                         /\ ev'[x].is_dummy = ev[x].is_dummy
                         /\ x # p => ev'[x].next = ev[x].next
      /\ ev'[p].next = e
  <2>1. ev \in [Events -> EventFields] /\ p # e /\ p \in Events
    BY <1>1, <1>2, <1>3 DEF QInv, TypeOK
  <2> QED
    BY <1>1, <1>2, <1>3, <1>4, <2>1 DEF EventOf, Zeroed, EventFields
<1>6. Heads' = Heads /\ UNCHANGED <<prog, current_tag, event_q, next_q, popping>>
  BY <1>1 DEF Heads, Between
<1>7. NoDummies'
  BY <1>1, <1>5 DEF Ordered, NoDummies
<1>8. ChainsAtATime'
  BY <1>1, <1>2, <1>3, <1>5 DEF Ordered, ChainsAtATime
<1>9. HeadsApart'
  BY <1>2, <1>5, <1>6 DEF Ordered, HeadsApart
<1>10. TimersOnce'
  <2>1. prog[tr].kind # "timer"
    BY DEF Actions
  <2> QED
    BY <1>1, <1>5, <1>6, <2>1 DEF Ordered, TimersOnce
<1>11. InTime'
  BY <1>2, <1>5, <1>6 DEF Ordered, InTime, Heads
<1>12. SpacingKept'
  <2>1. \A u \in DOMAIN prog : prog[u].kind \in Actions /\ prog[u].period >= 0 => u = tr
    BY DEF Orderly
  <2>2. ~ (prog[tr].period >= 0)
    BY <1>1 DEF QInv, TypeOK, Fields
  <2> QED
    BY <1>6, <2>1, <2>2 DEF SpacingKept
<1> QED
  BY <1>7, <1>8, <1>9, <1>10, <1>11, <1>12 DEF Ordered

(* So the order is kept, whatever _lf_schedule does.                         *)
LEMMA ScheduleOrdered ==
  ASSUME QInv, Ordered, Orderly(prog), Between, NEW tr \in DOMAIN prog, prog[tr].kind \in Actions,
         QueueChanges(tr)
  PROVE  Ordered'
<1>0. UNCHANGED <<prog, current_tag, next_q, popping>>
  BY DEF Between
<1>1. CASE Unneeded
  BY <1>0, <1>1, SameOrder DEF Unneeded
<1>2. ASSUME NEW t, NEW e, NEW tok, StartsChain(tr, t, tok, e)
      PROVE  Ordered'
  BY <1>2, StartsOrdered
<1>3. ASSUME NEW h, NEW e, NEW tok, JoinsChain(tr, h, tok, e)
      PROVE  Ordered'
  BY <1>3, JoinsOrdered
<1>4. ASSUME NEW x, NEW tok, SwapsToken(x, tok)
      PROVE  Ordered'
  <2>1. \A y \in Live : /\ ev'[y].time = ev[y].time /\ ev'[y].trigger = ev[y].trigger
                        /\ ev'[y].next = ev[y].next /\ ev'[y].is_dummy = ev[y].is_dummy
    BY <1>4 DEF SwapsToken, QInv, TypeOK, EventFields, Live
  <2> QED
    BY <1>0, <1>4, <2>1, SameOrder DEF SwapsToken
<1> QED
  BY <1>1, <1>2, <1>3, <1>4 DEF QueueChanges

-----------------------------------------------------------------------------
(* and when events are popped *)

(* The event e at the current time leaves the queue, and the rest of its     *)
(* chain goes to next_q; if it is of a timer, the events of again come in    *)
(* for a later time t.                                                       *)
Pops(e, n, again, t) ==
  /\ popping /\ UNCHANGED <<prog, current_tag, popping>>
  /\ e \in event_q /\ ev[e].time = current_tag.time
  /\ again \in {{}, {n}} /\ again \subseteq Events \ Live
  /\ again # {} => prog[ev[e].trigger].kind = "timer"
  /\ t \in Nat /\ t > current_tag.time
  /\ event_q' = (event_q \ {e}) \cup again
  /\ next_q' = next_q \cup ({ev[e].next} \ {NULL})
  /\ Live' = (Live \ {e}) \cup again
  /\ \A x \in Live : x # e => ev'[x] = ev[x]
  /\ \A x \in again : ev'[x] = EventOf(ev[e].trigger, t, NULL)
  /\ \A u \in DOMAIN prog : prog[u].kind \in Actions => last'[u] = last[u]

(* An event of an action, or the last one of a timer, is popped.             *)
LEMMA EventPops ==
  ASSUME QInv, NEW e \in Events, PopEvent(e)
  PROVE  \E n, again, t : Pops(e, n, again, t)
<1> DEFINE none == {}
           t == current_tag.time + 1
<1>1. /\ popping /\ e \in event_q /\ ev[e].time = current_tag.time
      /\ UNCHANGED <<prog, current_tag, popping, calloced, last>>
      /\ event_q' = event_q \ {e} /\ recycle_q' = recycle_q \cup {e}
      /\ ev' = [ev EXCEPT ![e] = Zeroed] /\ PutNext(e)
  BY DEF PopEvent, Popping, Earliest
<1>2. /\ Live' = Live \ {e} /\ next_q' = next_q \cup ({ev[e].next} \ {NULL})
      /\ \A x \in Live : x # e => ev'[x] = ev[x]
  BY <1>1 DEF Live, PutNext, QInv, TypeOK
<1>3. t \in Nat /\ t > current_tag.time
  BY DEF QInv, TypeOK, Tag
<1>4. /\ none \in {{}, {NULL}} /\ none \subseteq Events \ Live /\ none = {}
      /\ event_q' = (event_q \ {e}) \cup none /\ Live' = (Live \ {e}) \cup none
  BY <1>1, <1>2
<1> HIDE DEF none, t
<1>5. Pops(e, NULL, none, t)
  BY <1>1, <1>2, <1>3, <1>4 DEF Pops
<1> QED
  BY <1>5

(* The event of a periodic timer is popped.                                  *)
LEMMA TimerPops ==
  ASSUME QInv, Kin, Ordered, NEW e \in Events, PopTimer(e)
  PROVE  \E n, again, t : Pops(e, n, again, t)
<1> DEFINE tr == ev[e].trigger
           t == current_tag.time + prog[tr].period
           more(n) == IF t > stop_tag.time THEN {} ELSE {n[1]}
<1>1. /\ popping /\ e \in event_q /\ ev[e].time = current_tag.time
      /\ UNCHANGED <<prog, current_tag, popping>> /\ Periodic(e) /\ PutNext(e)
  BY DEF PopTimer, Popping, Earliest
<1>2. PICK n \in NewEvents(1) :
        /\ event_q' = (event_q \ {e}) \cup more(n)
        /\ recycle_q' = (recycle_q \ more(n)) \cup ({n[1]} \ more(n)) \cup {e}
        /\ ev' = [x \in Events |-> IF x = e THEN Zeroed
                                   ELSE IF x \in more(n) THEN EventOf(tr, t, NULL) ELSE ev[x]]
        /\ last' = [last EXCEPT ![tr] = IF more(n) = {} THEN @ ELSE n[1]]
        /\ calloced' = calloced \cup {n[1]}
  BY DEF PopTimer
<1> DEFINE again == more(n)
           f == EventOf(tr, t, NULL)
<1>3. /\ e \in Live /\ tr \in DOMAIN prog /\ prog[tr].kind = "timer"
      /\ ev[e].next \in Live \cup {NULL} /\ ev[e].next \notin Heads /\ e \in Heads
      /\ Live \subseteq Events
  BY <1>1 DEF QInv, LinkInv, Heads, Periodic, TypeOK, Live
<1>4. next_q' = next_q \cup ({ev[e].next} \ {NULL})
  BY <1>1 DEF PutNext, QInv, TypeOK
<1>5. n[1] \in Events \ Live
  BY NewEventsFacts
<1>6. again \in {{}, {n[1]}} /\ again \subseteq Events \ Live
  BY <1>5
<1>7. t \in Nat /\ t > current_tag.time
  BY <1>1, <1>3 DEF Periodic, QInv, TypeOK, Tag, Fields
<1>8. \A u \in DOMAIN prog : prog[u].kind \in Actions => last'[u] = last[u]
  <2>1. "timer" \notin Actions
    BY DEF Actions
  <2> HIDE DEF again
  <2> QED
    BY <1>2, <1>3, <2>1 DEF QInv, TypeOK
<1> HIDE DEF f, t, tr
<1>9. /\ event_q' = (event_q \ {e}) \cup again
      /\ recycle_q' = (recycle_q \ again) \cup ({n[1]} \ again) \cup {e}
      /\ ev' = [x \in Events |-> IF x = e THEN Zeroed ELSE IF x \in again THEN f ELSE ev[x]]
      /\ calloced' = calloced \cup {n[1]}
  BY <1>2 DEF f
<1> HIDE DEF again
<1>10. /\ \A x \in Live : x # e => ev'[x] = ev[x]
       /\ \A x \in again : ev'[x] = f
  BY <1>3, <1>6, <1>9
<1>11. Live' = (Live \ {e}) \cup again
  BY <1>3, <1>5, <1>6, <1>9 DEF Live
<1>12. prog[ev[e].trigger].kind = "timer"
  BY <1>3 DEF tr
<1>13. f = EventOf(ev[e].trigger, t, NULL)
  BY DEF f, tr
<1> HIDE DEF f
<1>14. Pops(e, n[1], again, t)
  BY <1>1, <1>4, <1>6, <1>7, <1>8, <1>9, <1>10, <1>11, <1>12, <1>13 DEF Pops
<1> QED
  BY <1>14

(* The rest of the chain does not meet another one of its trigger.           *)
LEMMA PopsOrdered ==
  ASSUME QInv, Kin, Ordered, Orderly(prog), NEW e, NEW n, NEW again, NEW t, Pops(e, n, again, t)
  PROVE  Ordered'
<1> DEFINE c == ev[e].next
           tr == ev[e].trigger
<1>1. /\ popping /\ UNCHANGED <<prog, current_tag, popping>>
      /\ e \in event_q /\ ev[e].time = current_tag.time
      /\ again \in {{}, {n}} /\ again \subseteq Events \ Live
      /\ again # {} => prog[tr].kind = "timer"
      /\ t \in Nat /\ t > current_tag.time
      /\ event_q' = (event_q \ {e}) \cup again
      /\ next_q' = next_q \cup ({c} \ {NULL})
      /\ Live' = (Live \ {e}) \cup again
      /\ \A x \in Live : x # e => ev'[x] = ev[x]
      /\ \A u \in DOMAIN prog : prog[u].kind \in Actions => last'[u] = last[u]
  BY DEF Pops
<1>2. \A x \in again : /\ ev'[x].trigger = tr /\ ev'[x].time = t /\ ev'[x].next = NULL
                       /\ ~ev'[x].is_dummy
  BY DEF Pops, EventOf, Zeroed
<1>3. /\ \A h \in Heads : h \in Live
      /\ \A x \in Live : ev[x].next \in Live \cup {NULL} /\ ev[x].next \notin Heads
      /\ \A x \in Live : ev[x].trigger \in DOMAIN prog
      /\ e \in Live /\ e \in Heads /\ NULL \notin Live
      /\ \A x \in Live : ev[x].time \in Nat
      /\ current_tag.time \in Nat
  BY <1>1, QueueAssumption DEF QInv, LinkInv, Live, TypeOK, Heads, EventFields, Tag
<1>4. c # NULL => /\ c \in Live /\ c \notin Heads /\ c # e
                  /\ ev'[c].trigger = tr /\ ev'[c].time = current_tag.time
                  /\ prog[tr].kind # "timer"
  <2> SUFFICES ASSUME c # NULL
               PROVE  /\ c \in Live /\ c \notin Heads /\ c # e
                      /\ ev'[c].trigger = tr /\ ev'[c].time = current_tag.time
                      /\ prog[tr].kind # "timer"
    OBVIOUS
  <2>1. c \in Live /\ c \notin Heads /\ c # e
    BY <1>3
  <2>2. ev'[c] = ev[c]
    BY <1>1, <2>1
  <2>3. ev[c].trigger = tr /\ ev[c].time = ev[e].time
    BY <1>3 DEF Kin, Ordered, ChainsAtATime
  <2>4. prog[tr].kind # "timer"
    BY <1>3, <2>1, <2>3 DEF Ordered, TimersOnce
  <2> QED
    BY <1>1, <2>1, <2>2, <2>3, <2>4
<1>5. Heads' = (Heads \ {e}) \cup again \cup ({c} \ {NULL})
  <2>1. e \notin next_q
    BY <1>1 DEF QInv, LinkInv
  <2> QED
    BY <1>1, <2>1 DEF Heads
<1>6. \A x \in again : x \notin Live
  BY <1>1
<1>7. NoDummies'
  BY <1>1, <1>2 DEF Ordered, NoDummies
<1>8. ChainsAtATime'
  <2> SUFFICES ASSUME NEW x \in Live', ev'[x].next # NULL
               PROVE  ev'[ev'[x].next].time = ev'[x].time
    BY DEF ChainsAtATime
  <2>1. x \in Live /\ x # e /\ ev'[x] = ev[x]
    BY <1>1, <1>2, <1>3
  <2>2. ev[x].next \in Live /\ ev[x].next # e
    BY <1>3, <2>1
  <2>3. ev'[ev[x].next] = ev[ev[x].next]
    BY <1>1, <2>2
  <2> QED
    BY <2>1, <2>3 DEF Ordered, ChainsAtATime
<1>9. \A x \in Live : prog[tr].kind = "timer" /\ ev[x].trigger = tr => x = e
  BY <1>3 DEF Ordered, TimersOnce
<1>10. HeadsApart'
  <2>1. \A h \in Heads : ev[h].trigger = tr /\ ev[h].time = current_tag.time => h = e
    BY <1>1, <1>3 DEF Ordered, HeadsApart
  <2>2. \A h \in Heads : h # e => ev'[h] = ev[h] /\ h \in Live
    BY <1>1, <1>3
  <2>3. \A g \in again : \A h \in Heads \ {e} : ev'[g].trigger # ev'[h].trigger
    BY <1>1, <1>2, <1>9, <2>2
  <2>4. c # NULL => \A h \in Heads \ {e} :
                      ~ (ev'[c].trigger = ev'[h].trigger /\ ev'[c].time = ev'[h].time)
    BY <1>4, <2>1, <2>2
  <2>5. c # NULL => again = {}
    BY <1>1, <1>4
  <2>6. \A g, h \in again : g = h
    BY <1>1
  <2>7. \A g, h \in Heads \ {e} :
          ev'[g].trigger = ev'[h].trigger /\ ev'[g].time = ev'[h].time => g = h
    BY <2>2 DEF Ordered, HeadsApart
  <2> HIDE DEF c, tr
  <2>8. ASSUME NEW h \in Heads', NEW g \in Heads', ev'[h].trigger = ev'[g].trigger,
               ev'[h].time = ev'[g].time
        PROVE  h = g
    <3>1. CASE h \in Heads \ {e}
      BY <1>5, <2>3, <2>4, <2>7, <2>8, <3>1
    <3>2. CASE h \in again
      BY <1>5, <2>3, <2>5, <2>6, <2>8, <3>2
    <3>3. CASE h = c /\ c # NULL
      BY <1>5, <2>4, <2>5, <2>8, <3>3
    <3> QED
      BY <1>5, <3>1, <3>2, <3>3
  <2> QED
    BY <2>8 DEF HeadsApart
<1>11. TimersOnce'
  <2> SUFFICES ASSUME NEW x \in Live', NEW y \in Live', ev'[x].trigger = ev'[y].trigger,
                      prog[ev'[x].trigger].kind = "timer"
               PROVE  x = y
    BY <1>1 DEF TimersOnce
  <2>1. CASE x \in again
    <3>1. CASE y \in again
      BY <1>1, <2>1, <3>1
    <3>2. CASE y \in Live /\ y # e
      BY <1>1, <1>2, <1>9, <2>1, <3>2
    <3> QED
      BY <1>1, <3>1, <3>2
  <2>2. CASE x \in Live /\ x # e
    <3>1. CASE y \in again
      BY <1>1, <1>2, <1>9, <2>2, <3>1
    <3>2. CASE y \in Live /\ y # e
      BY <1>1, <2>2, <3>2 DEF Ordered, TimersOnce
    <3> QED
      BY <1>1, <3>1, <3>2
  <2> QED
    BY <1>1, <2>1, <2>2
<1>12. InTime'
  <2>1. \A h \in event_q : h # e => h \in Live /\ ev'[h] = ev[h]
    BY <1>1, <1>3 DEF Heads
  <2>2. \A h \in next_q : h \in Live /\ h # e /\ ev'[h] = ev[h]
    BY <1>1, <1>3 DEF Heads, QInv, LinkInv
  <2>3. \A h \in event_q' : ev'[h].time >= current_tag.time
    BY <1>1, <1>2, <1>3, <2>1 DEF Ordered, InTime
  <2>4. \A h \in next_q' : ev'[h].time = current_tag.time
    BY <1>1, <1>4, <2>2 DEF Ordered, InTime
  <2> QED
    BY <1>1, <2>3, <2>4 DEF InTime
<1>13. SpacingKept'
  <2> SUFFICES ASSUME NEW u \in DOMAIN prog, prog[u].kind \in Actions, prog[u].period >= 0
               PROVE  /\ Live' = event_q'
                      /\ Live' # {} => /\ last'[u] \in Live'
                                       /\ \A x \in Live' : ev'[x].time <= ev'[last'[u]].time
    BY <1>1 DEF SpacingKept
  <2>1. tr = u /\ \A x \in Live : ev[x].trigger = u
    BY <1>3 DEF Orderly
  <2>2. again = {}
    BY <1>1, <2>1 DEF Actions
  <2>3. /\ Live = event_q
        /\ last[u] \in Live /\ \A x \in Live : ev[x].time <= ev[last[u]].time
    BY <1>3 DEF Ordered, SpacingKept
  <2>4. Live' = event_q' /\ Live' = Live \ {e} /\ last'[u] = last[u]
    BY <1>1, <2>2, <2>3
  <2>5. ASSUME NEW x \in Live', last[u] = e
        PROVE  FALSE
    <3>1. x \in Live /\ x # e /\ x \in Heads
      BY <2>3, <2>4 DEF Heads
    <3>2. ev[x].time <= current_tag.time /\ ev[x].time >= current_tag.time
      BY <1>1, <2>3, <2>5, <3>1 DEF Ordered, InTime
    <3>3. ev[x].time = ev[e].time
      BY <1>1, <1>3, <3>1, <3>2
    <3> QED
      BY <1>3, <2>1, <3>1, <3>3 DEF Ordered, HeadsApart
  <2> QED
    BY <1>1, <2>3, <2>4, <2>5
<1> QED
  BY <1>7, <1>8, <1>10, <1>11, <1>12, <1>13 DEF Ordered

(* The rests of the chains go back into the queue.                           *)
LEMMA DueDone ==
  ASSUME QInv, Ordered, PopDone
  PROVE  \A h \in event_q : ev[h].time > current_tag.time
<1>1. /\ \A h \in event_q : ev[h].time >= current_tag.time /\ ev[h].time \in Nat
      /\ current_tag.time \in Nat
  BY DEF Ordered, InTime, QInv, TypeOK, EventFields, Tag
<1>2. ASSUME NEW h \in event_q, ev[h].time = current_tag.time
      PROVE  FALSE
  <2>1. Earliest(h)
    BY <1>1, <1>2 DEF Earliest
  <2> QED
    BY <1>2, <2>1 DEF PopDone
<1> QED
  BY <1>1, <1>2

(* That keeps the order,                                                     *)
LEMMA PopDoneOrdered ==
  ASSUME QInv, Ordered, PopDone
  PROVE  Ordered'
<1>1. /\ event_q' = event_q \cup next_q /\ next_q' = {} /\ popping' = FALSE
      /\ UNCHANGED <<prog, current_tag, ev, calloced, recycle_q, last>>
  BY DEF PopDone
<1>2. /\ Heads' = Heads /\ Live' = Live /\ \A h \in Heads : h \in Live
      /\ event_q \cap next_q = {} /\ next_q \subseteq Heads
      /\ current_tag.time \in Nat
  BY <1>1 DEF Heads, Live, QInv, LinkInv, TypeOK, Tag
<1>3. NoDummies' /\ ChainsAtATime' /\ HeadsApart' /\ TimersOnce'
  BY <1>1, <1>2 DEF Ordered, NoDummies, ChainsAtATime, HeadsApart, TimersOnce
<1>4. InTime'
  BY <1>1, <1>2 DEF Ordered, InTime
<1>5. SpacingKept'
  <2>1. \A x \in event_q : ev[x].time > current_tag.time
    BY DueDone
  <2> QED
    BY <1>1, <1>2, <2>1 DEF Ordered, SpacingKept
<1> QED
  BY <1>3, <1>4, <1>5 DEF Ordered

-----------------------------------------------------------------------------
(* and when the tag advances, but for the time of the next event *)

(* No event of the queue is before the next tag.                             *)
LEMMA NextTagBound ==
  ASSUME QInv, NEW h \in event_q
  PROVE  NextTag.time <= ev[h].time
<1> DEFINE times == {ev[x].time : x \in event_q}
           first == CHOOSE e \in event_q : Earliest(e)
<1>1. \A x \in event_q : x \in Events /\ ev[x].time \in Nat
  BY DEF QInv, TypeOK, EventFields
<1>2. PICK t \in times : \A u \in times : t <= u
  <2>1. times \in SUBSET Nat /\ times # {}
    BY <1>1
  <2> HIDE DEF times
  <2> QED
    BY <2>1, LeastNatural
<1>3. \E e \in event_q : Earliest(e)
  BY <1>2 DEF Earliest
<1>4. first \in event_q /\ Earliest(first)
  BY <1>3
<1> DEFINE at == ev[first].time
           g == TagOf(at, HeadMicrostep(at))
<1>5. NextTag = TagMin(g, stop_tag)
  BY DEF NextTag
<1> HIDE DEF first
<1>6. at \in Nat /\ at <= ev[h].time
  BY <1>1, <1>4 DEF Earliest
<1> HIDE DEF at
<1>7. HeadMicrostep(at) \in Nat
  BY DEF HeadMicrostep, QInv, TypeOK, Tag
<1>8. g \in Tag /\ g.time = at /\ stop_tag \in Tag
  BY <1>6, <1>7, TagOfType DEF QInv, TypeOK
<1> HIDE DEF g
<1>9. TagMin(g, stop_tag) \in Tag /\ TagLeq(TagMin(g, stop_tag), g)
  BY <1>8, TagMinimum
<1>10. NextTag.time <= g.time
  BY <1>5, <1>8, <1>9, TagOrder
<1>11. NextTag.time \in Nat
  BY NextTagType DEF Tag
<1> QED
  BY <1>1, <1>6, <1>8, <1>10, <1>11

(* Each chain goes on at the tag at which it would have.                     *)
LEMMA AdvanceStart ==
  ASSUME QInv, Ordered, Advance
  PROVE  /\ current_tag' \in Tag /\ TagLess(current_tag, current_tag')
         /\ \A h \in event_q : ev[h].time >= current_tag'.time
         /\ \A h \in Heads : Start(h)' = Start(h)
<1>1. /\ UNCHANGED <<prog, stop_tag, queueVars>> /\ popping' = TRUE /\ ~popping
      /\ current_tag' = IF current_tag.time < NextTag.time THEN TagOf(NextTag.time, 0)
                        ELSE NextMicrostep
  BY DEF Advance
<1>2. UNCHANGED <<ev, event_q, next_q>> /\ next_q = {} /\ Heads = event_q
  BY <1>1 DEF queueVars, Heads, Ordered, InTime
<1>3. /\ current_tag.time \in Nat /\ current_tag.microstep \in Nat
      /\ NextTag.time \in Nat
      /\ \A h \in event_q : /\ ev[h].time \in Nat /\ ev[h].time >= current_tag.time
                            /\ NextTag.time <= ev[h].time
  BY NextTagType, NextTagBound DEF QInv, TypeOK, Tag, EventFields, Ordered, InTime
<1>4. CASE current_tag.time < NextTag.time
  <2>1. current_tag'.time = NextTag.time /\ current_tag'.microstep = 0 /\ current_tag' \in Tag
    BY <1>1, <1>3, <1>4, TagOfType
  <2>2. ASSUME NEW h \in Heads
        PROVE  Start(h)' = 0 /\ Start(h) = 0
    <3>1. ev[h].time # current_tag.time
      BY <1>2, <1>3, <1>4
    <3> QED
      BY <1>1, <1>2, <2>1, <3>1 DEF Start
  <2> QED
    BY <1>2, <1>3, <1>4, <2>1, <2>2 DEF TagLess
<1>5. CASE ~ (current_tag.time < NextTag.time)
  <2>1. /\ current_tag'.time = current_tag.time
        /\ current_tag'.microstep = current_tag.microstep + 1 /\ current_tag' \in Tag
    BY <1>1, <1>3, <1>5, TagOfType DEF NextMicrostep
  <2>2. ASSUME NEW h \in Heads
        PROVE  Start(h)' = Start(h)
    BY <1>1, <1>2, <1>3, <2>1, <2>2 DEF Start
  <2> QED
    BY <1>2, <1>3, <2>1, <2>2 DEF TagLess
<1> QED
  BY <1>4, <1>5

(* So no event is late at the new tag.                                       *)
LEMMA AdvanceOrdered ==
  ASSUME QInv, Ordered, Advance
  PROVE  Ordered'
<1>1. UNCHANGED <<prog, queueVars>> /\ popping' = TRUE /\ ~popping
  BY DEF Advance
<1>2. UNCHANGED <<ev, event_q, next_q, last, calloced, recycle_q>> /\ next_q = {}
  BY <1>1 DEF queueVars, Ordered, InTime
<1>3. Heads' = Heads /\ Live' = Live
  BY <1>2 DEF Heads, Live
<1>4. NoDummies' /\ ChainsAtATime' /\ HeadsApart' /\ TimersOnce'
  BY <1>1, <1>2, <1>3 DEF Ordered, NoDummies, ChainsAtATime, HeadsApart, TimersOnce
<1>5. \A h \in event_q : ev[h].time >= current_tag'.time
  BY AdvanceStart
<1>6. InTime'
  BY <1>1, <1>2, <1>5 DEF InTime
<1>7. SpacingKept'
  BY <1>1, <1>2, <1>3 DEF Ordered, SpacingKept
<1> QED
  BY <1>4, <1>6, <1>7 DEF Ordered

(* The first events of the timers are in order.                              *)
LEMMA InitOrdered ==
  ASSUME Init, Orderly(prog)
  PROVE  Ordered
<1>1. PICK first \in [{tr \in Timers : FirstDelay(tr) > 0} -> Events] :
        /\ Injective(first)
        /\ event_q = {first[tr] : tr \in DOMAIN first}
        /\ ev = [e \in Events |->
                   IF \E tr \in DOMAIN first : first[tr] = e
                   THEN LET tr == CHOOSE x \in DOMAIN first : first[x] = e
                        IN EventOf(tr, StartTime + FirstDelay(tr), NULL)
                   ELSE Zeroed]
  BY DEF Init
<1>2. /\ calloced = event_q /\ next_q = {} /\ recycle_q = {} /\ popping = FALSE
      /\ current_tag = TagOf(StartTime, 0) /\ prog \in Programs
  BY DEF Init
<1>3. Live = event_q /\ Heads = event_q
  BY <1>2 DEF Live, Heads
<1>4. \A tr \in DOMAIN prog : tr \in Triggers /\ prog[tr] \in Fields
  BY <1>2, ProgramsAssumption
<1>5. ASSUME NEW e \in event_q
      PROVE  \E tr \in Timers : /\ first[tr] = e /\ tr \in DOMAIN first
                                /\ ev[e] = EventOf(tr, StartTime + FirstDelay(tr), NULL)
                                /\ FirstDelay(tr) > 0
  <2> DEFINE of == CHOOSE x \in DOMAIN first : first[x] = e
  <2>1. e \in Events /\ \E x \in DOMAIN first : first[x] = e
    BY <1>1
  <2>2. of \in DOMAIN first /\ first[of] = e
    BY <2>1
  <2>3. ev[e] = EventOf(of, StartTime + FirstDelay(of), NULL)
    BY <1>1, <2>1
  <2> HIDE DEF of
  <2> QED
    BY <2>2, <2>3
<1>6. ASSUME NEW e \in event_q
      PROVE  /\ first[ev[e].trigger] = e /\ ev[e].trigger \in Timers
             /\ ev[e].time >= StartTime /\ ev[e].next = NULL /\ ~ev[e].is_dummy
  <2>1. PICK tr \in Timers : /\ first[tr] = e /\ FirstDelay(tr) > 0
                             /\ ev[e] = EventOf(tr, StartTime + FirstDelay(tr), NULL)
    BY <1>5
  <2>2. /\ ev[e].trigger = tr /\ ev[e].time = StartTime + FirstDelay(tr)
        /\ ev[e].next = NULL /\ ~ev[e].is_dummy
    BY <2>1 DEF EventOf, Zeroed
  <2>3. FirstDelay(tr) \in Nat /\ StartTime \in Nat
    BY <1>4, <2>1, QueueAssumption DEF Timers, FirstDelay, Fields
  <2> QED
    BY <2>1, <2>2, <2>3
<1>7. \A e, f \in event_q : ev[e].trigger = ev[f].trigger => e = f
  BY <1>6
<1>8. NoDummies /\ ChainsAtATime /\ HeadsApart /\ TimersOnce
  BY <1>3, <1>6, <1>7 DEF NoDummies, ChainsAtATime, HeadsApart, TimersOnce
<1>9. InTime
  BY <1>2, <1>6 DEF InTime, TagOf
<1>10. SpacingKept
  <2> SUFFICES ASSUME NEW u \in DOMAIN prog, prog[u].kind \in Actions, prog[u].period >= 0
               PROVE  Live = event_q /\ Live = {}
    BY DEF SpacingKept
  <2>1. Timers = {}
    BY DEF Orderly, Timers, Actions
  <2> QED
    BY <1>3, <1>6, <2>1
<1> QED
  BY <1>8, <1>9, <1>10 DEF Ordered

-----------------------------------------------------------------------------
(* Every step is one of the calendar *)

(* The inductive invariant.                                                  *)
CalendarInv == QInv /\ TokenInv /\ Ordered /\ Orderly(prog)

(* The first events of the timers are an initial calendar.                   *)
LEMMA InitMaps ==
  ASSUME Init, Orderly(prog)
  PROVE  CalendarInv /\ Calendar!Init
<1>1. CalendarInv
  BY InitHolds, InitTokens, InitOrdered DEF CalendarInv
<1>2. Laws /\ ~popping
  BY <1>1, LawsHold DEF CalendarInv, TokenInv, Init
<1>3. ASSUME NEW y \in Entries
      PROVE  TagLess(current_tag, y.tag)
  <2>1. PICK x \in Live, g \in Tag : Fires(x, g) /\ y = EntryOf(x, g)
    BY <1>2 DEF Laws, EntryLaw
  <2> QED
    BY <1>2, <2>1 DEF Laws, FireLaw, EntryOf
<1> QED
  BY <1>1, <1>3 DEF Calendar!Init, Calendar!TagLess, TagLess

(* Between the advances of the tag, every chain goes on at a tag to come.    *)
StartLaw ==
  ~popping =>
    \A h \in event_q : \A i \in Nat :
      LET g == TagOf(ev[h].time, Start(h) + i)
      IN  g \in Tag /\ TagLess(current_tag, g)

(* because no event in the queue is late.                                    *)
LEMMA StartsLater == QInv /\ Ordered => StartLaw
<1> SUFFICES ASSUME QInv, Ordered, ~popping, NEW h \in event_q, NEW i \in Nat
             PROVE  /\ TagOf(ev[h].time, Start(h) + i) \in Tag
                    /\ TagLess(current_tag, TagOf(ev[h].time, Start(h) + i))
  BY DEF StartLaw
<1>1. /\ ev[h].time \in Nat /\ ev[h].time >= current_tag.time
      /\ current_tag.time \in Nat /\ current_tag.microstep \in Nat
  BY DEF Ordered, InTime, QInv, TypeOK, EventFields, Tag
<1>2. /\ Start(h) \in Nat
      /\ ev[h].time = current_tag.time => Start(h) > current_tag.microstep
  BY <1>1 DEF Start
<1> QED
  BY <1>1, <1>2, TagOfType DEF TagLess

(* A call of lf_schedule is an entry, a new token for one, or not seen.      *)
LEMMA ScheduleMaps ==
  ASSUME QInv, QInv', Kin, Kin', Ordered, Ordered', Between,
         NEW tr \in DOMAIN prog, QueueChanges(tr)
  PROVE  Calendar!Schedule \/ Calendar!Replace \/ UNCHANGED <<current_tag, Entries>>
<1>1. Laws /\ Laws'
  <2>1. (QInv /\ Kin /\ Ordered => Laws)'
    BY LawsHold, PTL
  <2> QED
    BY <2>1, LawsHold
<1>2. /\ ~popping /\ ~popping' /\ next_q = {} /\ next_q' = {}
      /\ Heads = event_q /\ Heads' = event_q'
      /\ UNCHANGED current_tag /\ \A h \in Heads : h \in Live /\ h \in Events
  BY DEF Between, Ordered, InTime, Heads, QInv, LinkInv, TypeOK
<1>3. CASE Unneeded
  <2>1. /\ Live' = Live /\ Heads' = Heads
        /\ \A x \in Live : /\ ev'[x].next = ev[x].next /\ ev'[x].time = ev[x].time
                           /\ ev'[x].trigger = ev[x].trigger /\ ev'[x].token = ev[x].token
        /\ \A h \in Heads : Start(h)' = Start(h)
    BY <1>2, <1>3 DEF Unneeded, Start
  <2>2. \A x, f : Fires(x, f)' <=> Fires(x, f)
    BY <2>1, FiringsStay
  <2>3. Entries' = Entries
    BY <1>1, <2>1, <2>2, EntriesStay
  <2> QED
    BY <1>2, <2>3
<1>4. ASSUME NEW t, NEW e, NEW tok, StartsChain(tr, t, tok, e)
      PROVE  Calendar!Schedule
  <2>1. /\ e \in Events \ Live /\ t \in Nat /\ event_q' = event_q \cup {e} /\ Live' = Live \cup {e}
        /\ ev' = [ev EXCEPT ![e] = EventOf(tr, t, tok)]
    BY <1>4 DEF StartsChain
  <2>2. /\ ev'[e].time = t /\ ev'[e].next = NULL
        /\ \A x \in Live : ev'[x] = ev[x]
    BY <2>1 DEF EventOf, Zeroed, QInv, TypeOK, Live
  <2>3. \A h \in Heads : Start(h)' = Start(h)
    BY <1>2, <2>1, <2>2 DEF Start
  <2> DEFINE g == TagOf(t, Start(e)')
  <2>4. Heads' = Heads \cup {e} /\ e \in event_q'
    BY <1>2, <2>1
  <2>5. g = TagOf(ev'[e].time, Start(e)')
    BY <2>2
  <2>6. g \in Tag /\ TagLess(current_tag, g)
    <3>1. (QInv /\ Ordered => StartLaw)'
      BY StartsLater, PTL
    <3>2. StartLaw' /\ 0 \in Nat
      BY <3>1
    <3>3. /\ TagOf(ev'[e].time, Start(e)' + 0) \in Tag
          /\ TagLess(current_tag', TagOf(ev'[e].time, Start(e)' + 0))
      BY <1>2, <2>4, <3>2 DEF StartLaw
    <3>4. Start(e)' + 0 = Start(e)'
      BY DEF Start, QInv, TypeOK, Tag
    <3> QED
      BY <1>2, <2>2, <3>3, <3>4
  <2> HIDE DEF g
  <2>7. \A x, f : Fires(x, f)' <=> Fires(x, f) \/ (x = e /\ f = g)
    BY <2>1, <2>2, <2>3, <2>4, <2>5, FiringsGain
  <2>8. e \in Live' \ Live
    BY <2>1
  <2> QED
    BY <1>1, <1>2, <2>2, <2>6, <2>7, <2>8, EntryScheduled
<1>5. ASSUME NEW h, NEW e, NEW tok, JoinsChain(tr, h, tok, e)
      PROVE  Calendar!Schedule
  <2>1. /\ e \in Events \ Live /\ h \in event_q /\ Live' = Live \cup {e} /\ UNCHANGED event_q
        /\ ev' = [ev EXCEPT ![e] = EventOf(tr, ev[h].time, tok), ![LastOf(h)].next = e]
    BY <1>5 DEF JoinsChain
  <2>2. h \in Live /\ h \in Heads
    BY <1>2, <2>1
  <2>3. LastOf(h) \in Live
    BY <2>2, ChainFacts
  <2> DEFINE p == LastOf(h)
             L == ChainLength(h)
             g == TagOf(ev[h].time, Start(h) + L)
  <2>4. /\ ev'[p].next = e /\ ev'[e].next = NULL
        /\ \A x \in Live : /\ ev'[x].time = ev[x].time /\ ev'[x].trigger = ev[x].trigger
                           /\ ev'[x].token = ev[x].token
                           /\ x # p => ev'[x].next = ev[x].next
    <3>1. ev \in [Events -> EventFields] /\ p # e /\ p \in Events /\ e \in Events /\ p \in Live
          /\ ev' = [ev EXCEPT ![e] = EventOf(tr, ev[h].time, tok), ![p].next = e]
      BY <2>1, <2>3 DEF QInv, TypeOK, Live
    <3> HIDE DEF p
    <3>0. \A x \in Live : x \in Events /\ x # e
      BY <2>1 DEF QInv, TypeOK, Live
    <3>2. \A x \in Live : x # p => ev'[x] = ev[x]
      BY <3>0, <3>1
    <3>3. ev'[e] = EventOf(tr, ev[h].time, tok) /\ ev'[p] = [ev[p] EXCEPT !.next = e]
      BY <3>1
    <3>4. ev[p] \in EventFields
      BY <3>1
    <3>5. ev'[e].next = NULL
      BY <3>3 DEF EventOf, Zeroed
    <3>6. /\ ev'[p].next = e /\ ev'[p].time = ev[p].time /\ ev'[p].trigger = ev[p].trigger
          /\ ev'[p].token = ev[p].token
      BY <3>3, <3>4 DEF EventFields
    <3> QED
      BY <3>2, <3>5, <3>6
  <2>5. L \in Nat
    <3>1. L \in 1 .. Cardinality(Events) - 1 /\ Cardinality(Events) \in Nat
      BY <2>1, <2>2, RoomBehind, FollowFacts
    <3> HIDE DEF L
    <3> QED
      BY <3>1
  <2>6. \A x \in Heads : Start(x)' = Start(x)
    BY <1>2, <2>1, <2>4 DEF Start
  <2>7. Heads' = Heads
    BY <1>2, <2>1
  <2>8. /\ ev'[LastOf(h)].next = e /\ ev'[e].next = NULL
        /\ \A x \in Live : ev'[x].time = ev[x].time /\ (x # LastOf(h) => ev'[x].next = ev[x].next)
    BY <2>4
  <2>13. e \in Events \ Live /\ Live' = Live \cup {e}
    BY <2>1
  <2>9. L = ChainLength(h) /\ g = TagOf(ev[h].time, Start(h) + L)
    OBVIOUS
  <2> HIDE DEF p, L
  <2>10. g \in Tag /\ TagLess(current_tag, g)
    BY <1>2, <2>1, <2>5, StartsLater DEF StartLaw
  <2> HIDE DEF g
  <2>11. \A x, f : Fires(x, f)' <=> Fires(x, f) \/ (x = e /\ f = g)
    BY <2>2, <2>6, <2>7, <2>8, <2>9, <2>13, FiringsHook
  <2>12. e \in Live' \ Live
    BY <2>1
  <2> QED
    BY <1>1, <1>2, <2>4, <2>10, <2>11, <2>12, EntryScheduled
<1>6. ASSUME NEW x, NEW tok, SwapsToken(x, tok)
      PROVE  Calendar!Replace
  <2>1. /\ x \in event_q /\ ev' = [ev EXCEPT ![x].token = tok]
        /\ Live' = Live /\ UNCHANGED event_q /\ x \in Live
    BY <1>2, <1>6 DEF SwapsToken
  <2>2. \A y \in Live : /\ ev'[y].next = ev[y].next /\ ev'[y].time = ev[y].time
                        /\ ev'[y].trigger = ev[y].trigger
                        /\ y # x => ev'[y].token = ev[y].token
    BY <2>1 DEF QInv, TypeOK, EventFields, Live
  <2>3. Heads' = Heads /\ \A h \in Heads : Start(h)' = Start(h)
    BY <1>2, <2>1, <2>2 DEF Start
  <2>4. \A y, f : Fires(y, f)' <=> Fires(y, f)
    BY <2>1, <2>2, <2>3, FiringsStay
  <2> DEFINE g == TagOf(ev[x].time, Start(x) + 0)
  <2>5. Fires(x, g)
    <3>1. Follow(x, 0) = x /\ Cardinality(Events) \in Nat \ {0} /\ x # NULL /\ x \in Heads
      BY <1>2, <2>1, FollowFacts, QueueAssumption
    <3>2. 0 \in 0 .. Cardinality(Events) - 1
      BY <3>1
    <3> QED
      BY <3>1, <3>2 DEF Fires
  <2>6. TagLess(current_tag, g)
    BY <1>2, <2>1, StartsLater DEF StartLaw
  <2> HIDE DEF g
  <2> QED
    BY <1>1, <1>2, <2>2, <2>4, <2>5, <2>6, EntryReplaced
<1> QED
  BY <1>3, <1>4, <1>5, <1>6 DEF QueueChanges

(* A pop is the firing of one entry, at the current tag.                     *)
LEMMA PopMaps ==
  ASSUME QInv, QInv', Kin, Kin', Ordered, Ordered',
         NEW e, NEW n, NEW again, NEW t, Pops(e, n, again, t)
  PROVE  Calendar!Fire
<1>1. Laws /\ Laws'
  <2>1. (QInv /\ Kin /\ Ordered => Laws)'
    BY LawsHold, PTL
  <2> QED
    BY <2>1, LawsHold
<1>2. /\ popping /\ UNCHANGED <<current_tag, popping>>
      /\ e \in event_q /\ ev[e].time = current_tag.time
      /\ again \in {{}, {n}} /\ again \in SUBSET (Events \ Live)
      /\ t \in Nat /\ t > current_tag.time
      /\ event_q' = (event_q \ {e}) \cup again
      /\ next_q' = next_q \cup ({ev[e].next} \ {NULL})
      /\ Live' = (Live \ {e}) \cup again
      /\ \A x \in Live : x # e => ev'[x] = ev[x]
      /\ current_tag.time \in Nat /\ current_tag.microstep \in Nat /\ current_tag \in Tag
  BY DEF Pops, QInv, TypeOK, Tag
<1>3. /\ \A x \in again : ev'[x].trigger = ev[e].trigger
      /\ \A x \in again : ev'[x].next = NULL /\ ev'[x].time = t
  BY DEF Pops, EventOf, Zeroed
<1>4. t # current_tag.time
  BY <1>2
<1>5. \A x, f : Fires(x, f)' <=> (Fires(x, f) /\ x # e) \/ (x \in again /\ f = TagOf(t, 0))
  <2>1. ChainsAtATime
    BY DEF Ordered
  <2>2. /\ event_q' = (event_q \ {e}) \cup again /\ Live' = (Live \ {e}) \cup again
        /\ next_q' = next_q \cup ({ev[e].next} \ {NULL})
        /\ \A x \in Live : x # e => ev'[x] = ev[x]
        /\ popping /\ UNCHANGED <<current_tag, popping>>
    BY <1>2
  <2>3. e \in event_q /\ ev[e].time = current_tag.time /\ t \in Nat
    BY <1>2
  <2>4. again \in SUBSET (Events \ Live)
    BY <1>2
  <2> QED
    BY <1>3, <1>4, <2>1, <2>2, <2>3, <2>4, FiringsLose
<1>6. Fires(e, current_tag)
  <2>1. e \in Live /\ e \in Heads /\ e # NULL
    BY <1>2, QueueAssumption DEF QInv, LinkInv, Heads, TypeOK
  <2>2. Follow(e, 0) = e /\ Cardinality(Events) \in Nat \ {0}
    BY <2>1, FollowFacts
  <2>3. 0 \in 0 .. Cardinality(Events) - 1
    BY <2>2
  <2>4. Start(e) + 0 = current_tag.microstep
    BY <1>2 DEF Start
  <2>5. TagOf(ev[e].time, Start(e) + 0) = current_tag
    <3>1. /\ TagOf(current_tag.time, current_tag.microstep) \in Tag
          /\ TagOf(current_tag.time, current_tag.microstep).time = current_tag.time
          /\ TagOf(current_tag.time, current_tag.microstep).microstep = current_tag.microstep
      BY <1>2, TagOfType
    <3>2. TagOf(current_tag.time, current_tag.microstep) = current_tag
      BY <1>2, <3>1, TagEquality
    <3> QED
      BY <1>2, <2>4, <3>2
  <2> QED
    BY <2>1, <2>2, <2>3, <2>5 DEF Fires
<1> DEFINE g == TagOf(t, 0)
<1>7. again # {} => TagLess(current_tag, g) /\ ev'[n].trigger = ev[e].trigger
  <2>1. TagLess(current_tag, g)
    BY <1>2, TagOfType DEF TagLess
  <2> QED
    BY <1>2, <1>3, <2>1
<1>8. \A x, f : Fires(x, f)' <=> (Fires(x, f) /\ x # e) \/ (x \in again /\ f = g)
  BY <1>5
<1> HIDE DEF g
<1>9. \A x \in Live : x # e => ev'[x].trigger = ev[x].trigger /\ ev'[x].token = ev[x].token
  BY <1>2
<1> QED
  BY <1>1, <1>2, <1>6, <1>7, <1>8, <1>9, EntryFired

(* That the rests of the chains go back is not seen.                         *)
LEMMA PopDoneMaps ==
  ASSUME QInv, QInv', Kin, Kin', Ordered, Ordered', PopDone
  PROVE  UNCHANGED <<current_tag, Entries>>
<1>1. Laws /\ Laws'
  <2>1. (QInv /\ Kin /\ Ordered => Laws)'
    BY LawsHold, PTL
  <2> QED
    BY <2>1, LawsHold
<1>2. /\ event_q' = event_q \cup next_q /\ next_q' = {} /\ popping' = FALSE /\ popping
      /\ UNCHANGED <<current_tag, ev, calloced, recycle_q>>
  BY DEF PopDone
<1>3. /\ Heads' = Heads /\ Live' = Live /\ event_q \cap next_q = {}
      /\ current_tag.time \in Nat
  BY <1>2 DEF Heads, Live, QInv, LinkInv, TypeOK, Tag
<1>4. ASSUME NEW h \in Heads
      PROVE  Start(h)' = Start(h)
  <2>1. CASE h \in event_q
    <3>1. ev[h].time > current_tag.time /\ ev[h].time \in Nat
      BY <2>1, DueDone DEF QInv, TypeOK, EventFields
    <3> QED
      BY <1>2, <1>3, <3>1 DEF Start
  <2>2. CASE h \in next_q
    BY <1>2, <1>3, <2>2 DEF Start, Ordered, InTime
  <2> QED
    BY <2>1, <2>2 DEF Heads
<1>5. \A x, f : Fires(x, f)' <=> Fires(x, f)
  BY <1>2, <1>3, <1>4, FiringsStay
<1>6. Entries' = Entries
  BY <1>1, <1>2, <1>5, EntriesStay
<1> QED
  BY <1>2, <1>6

(* The tag advances past nothing.                                            *)
LEMMA AdvanceMaps ==
  ASSUME QInv, QInv', Kin, Kin', Ordered, Ordered', Advance
  PROVE  Calendar!Advance
<1>1. Laws /\ Laws'
  <2>1. (QInv /\ Kin /\ Ordered => Laws)'
    BY LawsHold, PTL
  <2> QED
    BY <2>1, LawsHold
<1>2. ~popping /\ UNCHANGED <<ev, event_q, next_q, calloced, recycle_q>>
  BY DEF Advance, queueVars
<1>3. Heads' = Heads /\ Live' = Live
  BY <1>2 DEF Heads, Live
<1>4. TagLess(current_tag, current_tag') /\ \A h \in Heads : Start(h)' = Start(h)
  BY AdvanceStart
<1>5. \A x, f : Fires(x, f)' <=> Fires(x, f)
  BY <1>2, <1>3, <1>4, FiringsStay
<1>6. Entries' = Entries
  BY <1>1, <1>2, <1>5, EntriesStay
<1>7. ASSUME NEW y \in Entries
      PROVE  TagLeq(current_tag', y.tag) /\ TagLess(current_tag, y.tag)
  <2>1. PICK x \in Live, g \in Tag : Fires(x, g) /\ y = EntryOf(x, g)
    BY <1>1 DEF Laws, EntryLaw
  <2>2. y.tag = g /\ Fires(x, g)'
    BY <1>5, <2>1 DEF EntryOf
  <2>3. TagLess(current_tag, g)
    BY <1>1, <1>2, <2>1 DEF Laws, FireLaw
  <2>4. TagLeq(current_tag', g)
    BY <1>1, <2>2 DEF Laws, FireLaw
  <2> QED
    BY <2>2, <2>3, <2>4
<1> QED
  BY <1>4, <1>6, <1>7 DEF Calendar!Advance, Calendar!TagLess, Calendar!TagLeq, TagLess, TagLeq

(* Every step keeps the invariant, and is one of the calendar or not seen.   *)
LEMMA StepMaps ==
  ASSUME CalendarInv, [Next]_vars
  PROVE  CalendarInv' /\ [Calendar!Next]_<<current_tag, Entries>>
<1>1. QInv /\ TokenInv /\ Kin /\ Ordered /\ Orderly(prog)
  BY DEF CalendarInv, TokenInv
<1>2. QInv' /\ TokenInv' /\ Kin' /\ Orderly(prog)'
  <2>1. LastIsOwn
    BY <1>1, UnsharedLast DEF Unshared, Orderly
  <2>2. QInv' /\ TokenInv'
    BY <1>1, <2>1, StepHolds, TokenStepHolds
  <2> QED
    BY <1>1, <2>2, ProgramStays DEF TokenInv
<1>3. ASSUME Ordered', \/ Calendar!Schedule \/ Calendar!Replace \/ Calendar!Fire \/ Calendar!Advance
                       \/ UNCHANGED <<current_tag, Entries>>
      PROVE  CalendarInv' /\ [Calendar!Next]_<<current_tag, Entries>>
  BY <1>2, <1>3 DEF CalendarInv, Calendar!Next
<1>4. CASE UNCHANGED vars
  <2>1. Ordered'
    BY <1>1, <1>4, SameOrder DEF vars, queueVars, Live
  <2>2. UNCHANGED <<current_tag, Entries>>
    BY <1>4 DEF vars, queueVars, Entries, EntriesOf, Chain, Follow
  <2> QED
    BY <1>3, <2>1, <2>2
<1>5. ASSUME NEW tr \in DOMAIN prog, NEW d \in Delays,
             ScheduleVoid(tr, d) \/ ScheduleValue(tr, d) \/ ScheduleCopy(tr, d)
      PROVE  CalendarInv' /\ [Calendar!Next]_<<current_tag, Entries>>
  <2>1. QueueChanges(tr) /\ prog[tr].kind \in Actions /\ Between
    BY <1>1, <1>5, ScheduleChanges DEF Between
  <2>2. Ordered'
    BY <1>1, <2>1, ScheduleOrdered
  <2> QED
    BY <1>1, <1>2, <1>3, <2>1, <2>2, ScheduleMaps
<1>6. ASSUME NEW tr \in DOMAIN prog,
             InsertReactionsForTrigger(tr) \/ \E g \in NetworkTags(tr) : ScheduleAtTag(tr, g)
      PROVE  FALSE
  BY <1>1, <1>6 DEF Orderly, InsertReactionsForTrigger, ScheduleAtTag, Calling
<1>7. CASE Advance
  <2>1. Ordered'
    BY <1>1, <1>7, AdvanceOrdered
  <2> QED
    BY <1>1, <1>2, <1>3, <1>7, <2>1, AdvanceMaps
<1>8. ASSUME NEW e \in Events, PopDummy(e)
      PROVE  FALSE
  <2>1. e \in Live /\ ev[e].is_dummy
    BY <1>1, <1>8 DEF PopDummy, Popping, Earliest, QInv, LinkInv, Heads
  <2> QED
    BY <1>1, <2>1 DEF Ordered, NoDummies
<1>9. ASSUME NEW e \in Events, PopEvent(e) \/ PopTimer(e)
      PROVE  CalendarInv' /\ [Calendar!Next]_<<current_tag, Entries>>
  <2>1. PICK n, again, t : Pops(e, n, again, t)
    BY <1>1, <1>9, EventPops, TimerPops
  <2>2. Ordered'
    BY <1>1, <2>1, PopsOrdered
  <2> QED
    BY <1>1, <1>2, <1>3, <2>1, <2>2, PopMaps
<1>10. CASE PopDone
  <2>1. Ordered'
    BY <1>1, <1>10, PopDoneOrdered
  <2> QED
    BY <1>1, <1>2, <1>3, <1>10, <2>1, PopDoneMaps
<1>11. CASE Terminated
  BY <1>4, <1>11 DEF Terminated
<1> QED
  BY <1>4, <1>5, <1>6, <1>7, <1>8, <1>9, <1>10, <1>11 DEF Next

(* The event queue of an orderly program is the calendar: every accepted     *)
(* event fires exactly once and at its tag, with its token, whatever chains  *)
(* and recycled memory it went through, and the tag never passes one         *)
(* (_lf_schedule, _lf_pop_events and _lf_advance_logical_time), for any      *)
(* memory, delays and stop tag.                                              *)
THEOREM OrderlyImplementsCalendar == Spec /\ Orderly(prog) => ImplementsCalendar
<1>1. Init /\ Orderly(prog) => CalendarInv /\ Calendar!Init
  BY InitMaps
<1>2. CalendarInv /\ [Next]_vars => CalendarInv' /\ [Calendar!Next]_<<current_tag, Entries>>
  BY StepMaps
<1> QED
  BY <1>1, <1>2, PTL DEF Spec, ImplementsCalendar, Calendar!Spec, Calendar!vars

-----------------------------------------------------------------------------
(* Network input and its spacers *)

(* A chain does not end with a dummy.                                        *)
RealLinks(f) == \A x \in Events : f[x].is_dummy => f[x].next # NULL

RealEnds == RealLinks(ev)

(* The links of new events: dummies one behind the other, then the event.    *)
Linked(n, k, f) ==
  \A i \in 2 .. k : f[n[i]].is_dummy /\ f[n[i]].next = IF i = k THEN n[1] ELSE n[i + 1]

(* _lf_create_dummy_events links them so, all at one time.                   *)
LEMMA SpacersLinked ==
  ASSUME QInv, NEW k \in Nat \ {0}, NEW n \in NewEvents(k), NEW tr, NEW t, NEW tok
  PROVE  LET w == WithSpacers(n, tr, t, tok)
         IN  /\ Linked(n, k, w)
             /\ \A i \in 1 .. k : w[n[i]].time = t
             /\ w[n[1]] = EventOf(tr, t, tok)
             /\ \A x \in Events : (\A i \in 1 .. k : x # n[i]) => w[x] = ev[x]
<1> DEFINE w == WithSpacers(n, tr, t, tok)
           after(i) == IF i = k THEN n[1] ELSE n[i + 1]
           dummy(i) == [EventOf(tr, t, NULL) EXCEPT !.is_dummy = TRUE, !.next = after(i)]
<1>1. /\ Len(n) = k /\ DOMAIN n = 1 .. k
      /\ \A i \in 1 .. k : n[i] \in Events \ Live /\ n[i] # NULL
      /\ \A i, j \in 1 .. k : n[i] = n[j] => i = j
  BY NewEventsFacts
<1>2. Live \subseteq Events
  BY DEF QInv, TypeOK, Live
<1>3. 1 \in 1 .. k /\ n[1] \in Events
  BY <1>1
<1>4. w = [x \in Events |->
             IF x = n[1] THEN EventOf(tr, t, tok)
             ELSE IF x \in {n[i] : i \in 2 .. k}
             THEN dummy(CHOOSE j \in 2 .. k : n[j] = x)
             ELSE ev[x]]
  BY <1>1 DEF WithSpacers
<1> HIDE DEF w
<1>5. w[n[1]] = EventOf(tr, t, tok)
  BY <1>3, <1>4
<1>6. ASSUME NEW i \in 2 .. k
      PROVE  w[n[i]] = dummy(i)
  <2>1. i \in 1 .. k /\ n[i] # n[1] /\ n[i] \in Events
    BY <1>1, <1>3
  <2>2. (CHOOSE j \in 2 .. k : n[j] = n[i]) = i
    <3>1. \A j \in 2 .. k : n[j] = n[i] => j = i
      BY <1>1
    <3> QED
      BY <3>1
  <2> HIDE DEF dummy
  <2> QED
    BY <1>4, <2>1, <2>2
<1>7. ASSUME NEW x \in Events, \A i \in 1 .. k : x # n[i]
      PROVE  w[x] = ev[x]
  <2>1. x # n[1] /\ x \notin {n[i] : i \in 2 .. k}
    BY <1>3, <1>7
  <2> QED
    BY <1>4, <2>1
<1>8. \A i \in 2 .. k : dummy(i).is_dummy /\ dummy(i).next = after(i) /\ dummy(i).time = t
  BY DEF EventOf, Zeroed
<1>9. EventOf(tr, t, tok).time = t
  BY DEF EventOf, Zeroed
<1>10. \A i \in 1 .. k : i = 1 \/ i \in 2 .. k
  OBVIOUS
<1> HIDE DEF dummy
<1> QED
  BY <1>5, <1>6, <1>7, <1>8, <1>9, <1>10 DEF Linked, w

(* Such a chain of new events leads to the event itself.                     *)
LEMMA SpacersWalk ==
  ASSUME QInv', NEW k \in Nat \ {0}, NEW n, Linked(n, k, ev'),
         \A i \in 1 .. k : n[i] # NULL, Len(n) = k,
         NEW a \in Live', NEW j \in Nat, Follow(a, j)' = FirstOf(n),
         j + (k - 1) <= Cardinality(Events)
  PROVE  Follow(a, j + (k - 1))' = n[1]
<1> DEFINE N == Cardinality(Events)
           m(i) == IF i = k - 1 THEN n[1] ELSE n[i + 2]
           bad == {i \in 0 .. k - 1 : Follow(a, j + i)' # m(i)}
<1>1. ChainLaw'
  BY Chains, PTL
<1>2. \A i \in 0 .. N - 1 :
        Follow(a, i + 1)' = IF Follow(a, i)' = NULL THEN NULL ELSE ev'[Follow(a, i)'].next
  BY <1>1 DEF ChainLaw
<1>3. N \in Nat
  BY QueueAssumption, FS_CardinalityType
<1>4. m(0) = FirstOf(n) /\ m(k - 1) = n[1]
  BY DEF FirstOf
<1>5. ASSUME NEW i \in 0 .. k - 1, i # 0
      PROVE  m(i - 1) # NULL /\ ev'[m(i - 1)].next = m(i)
  <2>1. i + 1 \in 2 .. k /\ i + 1 \in 1 .. k /\ i - 1 # k - 1 /\ (i - 1) + 2 = i + 1
        /\ (i + 1) + 1 = i + 2 /\ (i + 1 = k <=> i = k - 1)
    BY <1>5
  <2>2. m(i - 1) = n[i + 1]
    BY <2>1
  <2> QED
    BY <2>1, <2>2 DEF Linked
<1> HIDE DEF m, N
<1>6. bad = {}
  <2> SUFFICES ASSUME bad # {}
               PROVE  FALSE
    OBVIOUS
  <2>1. PICK i \in bad : \A l \in bad : i <= l
    <3>1. bad \in SUBSET Nat
      OBVIOUS
    <3> HIDE DEF bad
    <3> QED
      BY <3>1, LeastNatural
  <2>2. i \in 0 .. k - 1 /\ Follow(a, j + i)' # m(i)
    BY <2>1
  <2>3. i # 0
    BY <1>4, <2>2
  <2>4. i - 1 \in 0 .. k - 1 /\ ~ (i <= i - 1) /\ (j + (i - 1)) + 1 = j + i
        /\ j + (i - 1) \in 0 .. N - 1
    BY <1>3, <2>2, <2>3 DEF N
  <2>5. Follow(a, j + (i - 1))' = m(i - 1)
    <3>1. i - 1 \notin bad
      <4> HIDE DEF bad
      <4> QED
        BY <2>1, <2>4
    <3> QED
      BY <2>4, <3>1
  <2>6. m(i - 1) # NULL /\ ev'[m(i - 1)].next = m(i)
    BY <1>5, <2>2, <2>3
  <2>7. Follow(a, (j + (i - 1)) + 1)' =
          IF Follow(a, j + (i - 1))' = NULL THEN NULL ELSE ev'[Follow(a, j + (i - 1))'].next
    BY <1>2, <2>4
  <2> QED
    BY <2>2, <2>4, <2>5, <2>6, <2>7
<1>7. k - 1 \in 0 .. k - 1
  OBVIOUS
<1> QED
  BY <1>4, <1>6, <1>7

(* A real event of a chain is an entry.                                      *)
LEMMA EntryInChain ==
  ASSUME QInv, ~popping, NEW h \in event_q, NEW i \in 0 .. Cardinality(Events) - 1,
         Follow(h, i) # NULL, ~ev[Follow(h, i)].is_dummy
  PROVE  LET base == IF ev[h].time = current_tag.time THEN current_tag.microstep + 1 ELSE 0
         IN  [trigger |-> ev[Follow(h, i)].trigger, token |-> ev[Follow(h, i)].token,
              tag |-> TagOf(ev[h].time, base + i)] \in Entries
<1> DEFINE m == current_tag.microstep
           first(g) == IF ev[g].time = current_tag.time THEN m + 1 ELSE 0
           entry(g, j) == [trigger |-> ev[Follow(g, j)].trigger,
                           token |-> ev[Follow(g, j)].token,
                           tag |-> TagOf(ev[g].time, first(g) + j)]
           all(g) == {entry(g, j) : j \in {l \in Chain(g) : ~ev[Follow(g, l)].is_dummy}}
<1>1. i \in {l \in Chain(h) : ~ev[Follow(h, l)].is_dummy}
  BY DEF Chain
<1>2. EntriesOf(event_q, m + 1) = UNION {all(g) : g \in event_q}
  BY Zenon DEF EntriesOf
<1>3. entry(h, i) \in all(h)
  <2> HIDE DEF entry
  <2> QED
    BY <1>1
<1> HIDE DEF all, entry
<1>4. entry(h, i) \in EntriesOf(event_q, m + 1)
  BY <1>2, <1>3
<1>5. entry(h, i) \in Entries
  BY <1>4 DEF Entries
<1> QED
  BY <1>5 DEF entry

(* The links stay real behind an event that goes on elsewhere, and with an   *)
(* event that is no dummy.                                                   *)
LEMMA RealBehind ==
  ASSUME NEW f \in [Events -> EventFields], RealLinks(f), NEW e, e # NULL, NEW p
  PROVE  RealLinks([f EXCEPT ![p].next = e])
<1> DEFINE u == [f EXCEPT ![p].next = e]
<1>1. ASSUME NEW x \in Events, u[x].is_dummy
      PROVE  u[x].next # NULL
  <2>1. CASE x = p
    <3>1. u[x] = [f[x] EXCEPT !.next = e] /\ f[x] \in EventFields
      BY <2>1
    <3> HIDE DEF u
    <3> QED
      BY <3>1 DEF EventFields
  <2>2. CASE x # p
    <3>1. u[x] = f[x]
      BY <2>2
    <3> HIDE DEF u
    <3> QED
      BY <1>1, <3>1 DEF RealLinks
  <2> QED
    BY <2>1, <2>2
<1> HIDE DEF u
<1>2. RealLinks(u)
  BY <1>1 DEF RealLinks
<1> QED
  BY <1>2 DEF u

LEMMA RealNew ==
  ASSUME NEW f \in [Events -> EventFields], RealLinks(f), NEW e, NEW g, ~g.is_dummy
  PROVE  RealLinks([f EXCEPT ![e] = g])
BY DEF RealLinks

(* New events with their links, perhaps behind an event p.                   *)
LEMMA SpacersReal ==
  ASSUME QInv, RealEnds, NEW k \in Nat \ {0}, NEW n \in NewEvents(k), NEW tr \in DOMAIN prog,
         NEW t \in Nat, NEW tok \in Tokens \cup {NULL},
         \/ ev' = WithSpacers(n, tr, t, tok)
         \/ \E p : ev' = [WithSpacers(n, tr, t, tok) EXCEPT ![p].next = FirstOf(n)]
  PROVE  RealEnds'
<1> DEFINE w == WithSpacers(n, tr, t, tok)
<1>1. /\ Linked(n, k, w) /\ w[n[1]] = EventOf(tr, t, tok)
      /\ \A x \in Events : (\A i \in 1 .. k : x # n[i]) => w[x] = ev[x]
  BY SpacersLinked
<1>2. Len(n) = k /\ \A i \in 1 .. k : n[i] # NULL
  BY NewEventsFacts
<1>3. w \in [Events -> EventFields]
  BY SpacerFacts
<1>4. \/ ev' = w
      \/ \E p : ev' = [w EXCEPT ![p].next = FirstOf(n)]
  OBVIOUS
<1> HIDE DEF w
<1>5. RealLinks(w)
  <2> SUFFICES ASSUME NEW x \in Events, w[x].is_dummy
               PROVE  w[x].next # NULL
    BY DEF RealLinks
  <2>1. CASE x = n[1]
    BY <1>1, <2>1 DEF EventOf, Zeroed
  <2>2. ASSUME NEW i \in 2 .. k, x = n[i]
        PROVE  w[x].next # NULL
    <3>1. 1 \in 1 .. k /\ (i # k => i + 1 \in 1 .. k)
      OBVIOUS
    <3> QED
      BY <1>1, <1>2, <2>2, <3>1 DEF Linked
  <2>3. CASE \A i \in 1 .. k : x # n[i]
    BY <1>1, <2>3 DEF RealEnds, RealLinks
  <2>4. \A i \in 1 .. k : i = 1 \/ i \in 2 .. k
    OBVIOUS
  <2> QED
    BY <2>1, <2>2, <2>3, <2>4
<1>6. FirstOf(n) # NULL
  <2>1. 1 \in 1 .. k /\ (k # 1 => 2 \in 1 .. k)
    OBVIOUS
  <2> QED
    BY <1>2, <2>1 DEF FirstOf
<1> QED
  BY <1>3, <1>4, <1>5, <1>6, RealBehind DEF RealEnds

(* What the calls of the API do to an event.                                 *)
LEMMA CallsReal ==
  ASSUME QInv, RealEnds, NEW w \in [Events -> EventFields], RealLinks(w),
         NEW e \in Events, e # NULL, NEW tr \in DOMAIN prog, NEW s,
         NEW tok \in Tokens \cup {NULL},
         \/ \E u \in Nat : Insert(tr, u, s, tok, e)
         \/ \E p, g, u : u \in Nat /\ HookBehind(w, p, g, EventOf(tr, u, tok), s, e)
         \/ \E x : Drop(w, x, s, tok, e) \/ ReplaceToken(w, x, s, tok, e)
  PROVE  RealEnds'
<1>1. ev \in [Events -> EventFields] /\ tr \in Triggers
  BY DEF QInv, TypeOK
<1>2. CASE \E u \in Nat : Insert(tr, u, s, tok, e)
  <2>1. PICK u \in Nat : ev' = ev \/ ev' = [ev EXCEPT ![e] = EventOf(tr, u, tok)]
    BY <1>2 DEF Insert, Use
  <2>2. ~EventOf(tr, u, tok).is_dummy
    BY DEF EventOf, Zeroed
  <2> QED
    BY <1>1, <2>1, <2>2, RealNew DEF RealEnds
<1>3. CASE \E p, g, u : u \in Nat /\ HookBehind(w, p, g, EventOf(tr, u, tok), s, e)
  <2>1. PICK p, u : /\ u \in Nat
                    /\ \/ ev' = w
                       \/ ev' = [w EXCEPT ![e] = EventOf(tr, u, tok), ![p].next = e]
    BY <1>3 DEF HookBehind, Use
  <2> DEFINE f == EventOf(tr, u, tok)
             v == [w EXCEPT ![e] = f]
  <2>2. f \in EventFields /\ ~f.is_dummy
    BY <1>1, <2>1, EventOfType DEF EventOf, Zeroed
  <2>3. ev' = w \/ ev' = [v EXCEPT ![p].next = e]
    BY <2>1
  <2> HIDE DEF f
  <2>4. v \in [Events -> EventFields] /\ RealLinks(v)
    BY <1>1, <2>2, RealNew DEF RealEnds
  <2> HIDE DEF v
  <2>5. RealLinks(ev')
    <3>1. RealLinks([v EXCEPT ![p].next = e])
      BY <2>4, RealBehind
    <3> QED
      BY <2>3, <3>1
  <2> QED
    BY <2>5 DEF RealEnds, RealLinks
<1>4. CASE \E x : Drop(w, x, s, tok, e) \/ ReplaceToken(w, x, s, tok, e)
  <2>1. PICK x : ev' = w \/ ev' = [w EXCEPT ![x].token = tok]
    BY <1>4 DEF Drop, ReplaceToken
  <2>2. ASSUME NEW y \in Events
        PROVE  ev'[y].is_dummy = w[y].is_dummy /\ ev'[y].next = w[y].next
    BY <1>1, <2>1 DEF EventFields
  <2> QED
    BY <2>2 DEF RealEnds, RealLinks
<1> QED
  BY <1>2, <1>3, <1>4

(* _lf_schedule puts no dummy anywhere.                                      *)
LEMMA ScheduleReal ==
  ASSUME QInv, RealEnds, NEW tr \in DOMAIN prog, NEW d \in Nat, NEW s,
         NEW tok \in Tokens \cup {NULL}, LfSchedule(tr, d, s, tok)
  PROVE  RealEnds'
<1> DEFINE at(lag) == current_tag.time + lag + prog[tr].offset + d
           u == AddReference(s, tok)
<1>1. PICK lag \in PhysicalLag(tr), n \in NewEvents(1) :
        IF prog[tr].period < 0 THEN Unspaced(tr, at(lag), u, tok, n[1])
        ELSE Spaced(tr, at(lag), u, tok, n[1])
  BY DEF LfSchedule
<1> DEFINE e == n[1]
           t == at(lag)
<1>2. e \in Events /\ e # NULL /\ ev \in [Events -> EventFields] /\ RealLinks(ev)
  BY NewEventsFacts DEF QInv, TypeOK, RealEnds
<1>3. prog[tr] \in Fields /\ current_tag.time \in Nat /\ lag \in Nat
  BY DEF QInv, TypeOK, Tag, PhysicalLag
<1>4. t \in Nat /\ prog[tr].period \in Int
  BY <1>3 DEF Fields
<1>5. IF prog[tr].period < 0 THEN Unspaced(tr, t, u, tok, e) ELSE Spaced(tr, t, u, tok, e)
  BY <1>1
<1> HIDE DEF t, u, e
<1>6. CASE Unspaced(tr, t, u, tok, e)
  <2>1. \/ Insert(tr, t, u, tok, e)
        \/ \E p, g : HookBehind(ev, p, g, EventOf(tr, t, tok), u, e)
    BY <1>6 DEF Unspaced
  <2> QED
    BY <1>2, <1>4, <2>1, CallsReal
<1>7. CASE prog[tr].period >= 0 /\ Spaced(tr, t, u, tok, e)
  <2> DEFINE x == last[tr]
             later == ev[x].time + prog[tr].period
  <2>1. x \in Events \cup {NULL}
    BY DEF QInv, TypeOK
  <2>2. x # NULL => later \in Nat
    BY <1>4, <1>7, <2>1 DEF QInv, TypeOK, EventFields
  <2>3. \/ Insert(tr, t, u, tok, e)
        \/ Drop(ev, x, u, tok, e)
        \/ ReplaceToken(ev, x, u, tok, e)
        \/ x # NULL /\ Insert(tr, later, u, tok, e)
        \/ HookBehind(ev, x, NextMicrostep, EventOf(tr, 0, tok), u, e)
    BY <1>7 DEF Spaced
  <2> HIDE DEF x, later
  <2>4. CASE Insert(tr, t, u, tok, e)
    BY <1>2, <1>4, <2>4, CallsReal
  <2>5. CASE Drop(ev, x, u, tok, e) \/ ReplaceToken(ev, x, u, tok, e)
    BY <1>2, <2>5, CallsReal
  <2>6. CASE x # NULL /\ Insert(tr, later, u, tok, e)
    BY <1>2, <2>2, <2>6, CallsReal
  <2>7. CASE HookBehind(ev, x, NextMicrostep, EventOf(tr, 0, tok), u, e)
    <3>1. 0 \in Nat
      OBVIOUS
    <3> QED
      BY <1>2, <2>7, <3>1, CallsReal
  <2> QED
    BY <2>3, <2>4, <2>5, <2>6, <2>7
<1>8. prog[tr].period < 0 \/ prog[tr].period >= 0
  BY <1>4
<1> QED
  BY <1>4, <1>5, <1>6, <1>7, <1>8

(* Network input leaves a real event at each end,                            *)
LEMMA TagTakenReal ==
  ASSUME QInv, RealEnds, NEW w, Noted(w), NEW q, NEW limit, NEW tr \in DOMAIN prog,
         NEW g \in Tag, NEW s, NEW tok \in Tokens, TagTaken(w, q, limit, tr, g, s, tok)
  PROVE  RealEnds'
<1>1. PICK n \in NewEvents(1) :
        \/ Drop(w, q, s, tok, n[1])
        \/ ReplaceToken(w, q, s, tok, n[1])
        \/ HookBehind(w, q, limit, EventOf(tr, g.time, tok), s, n[1])
        \/ Use(n, [w EXCEPT ![n[1]] = EventOf(tr, g.time, tok)])
  BY DEF TagTaken
<1>2. n[1] \in Events /\ n[1] # NULL
  BY NewEventsFacts
<1>3. g.time \in Nat /\ tok \in Tokens \cup {NULL}
  BY DEF Tag
<1>4. w \in [Events -> EventFields]
  BY NotedFields
<1>5. RealLinks(w)
  <2>1. CASE w = ev
    BY <2>1 DEF RealEnds
  <2>2. ASSUME NEW h \in Live, w = [ev EXCEPT ![h].is_dummy = FALSE]
        PROVE  RealLinks(w)
    <3>1. ev \in [Events -> EventFields]
      BY DEF QInv, TypeOK
    <3>2. \A x \in Events : w[x].is_dummy => ev[x].is_dummy /\ w[x].next = ev[x].next
      <4> TAKE x \in Events
      <4>1. CASE x = h
        BY <2>2, <3>1, <4>1 DEF EventFields
      <4>2. CASE x # h
        BY <2>2, <3>1, <4>2
      <4> QED
        BY <4>1, <4>2
    <3> QED
      BY <3>2 DEF RealEnds, RealLinks
  <2> QED
    BY <2>1, <2>2 DEF Noted
<1>6. CASE Drop(w, q, s, tok, n[1]) \/ ReplaceToken(w, q, s, tok, n[1])
  BY <1>2, <1>3, <1>4, <1>5, <1>6, CallsReal
<1>7. CASE HookBehind(w, q, limit, EventOf(tr, g.time, tok), s, n[1])
  BY <1>2, <1>3, <1>4, <1>5, <1>7, CallsReal
<1>8. CASE Use(n, [w EXCEPT ![n[1]] = EventOf(tr, g.time, tok)])
  <2>1. ev' = [w EXCEPT ![n[1]] = EventOf(tr, g.time, tok)]
    BY <1>8 DEF Use
  <2>2. ~EventOf(tr, g.time, tok).is_dummy
    BY DEF EventOf, Zeroed
  <2> QED
    BY <1>4, <1>5, <2>1, <2>2, RealNew DEF RealEnds
<1> QED
  BY <1>1, <1>6, <1>7, <1>8

(* alone or behind a chain.                                                  *)
LEMMA AtTagReal ==
  ASSUME QInv, RealEnds, NEW tr \in DOMAIN prog, NEW g \in Tag, TagLess(current_tag, g),
         NEW s, NEW tok \in Tokens,
         \/ AtTagAlone(tr, g, s, tok)
         \/ \E h \in Live : AtTagBehind(h, tr, g, s, tok)
  PROVE  RealEnds'
<1>1. g.time \in Nat /\ g.microstep \in Nat /\ tok \in Tokens \cup {NULL}
      /\ current_tag.microstep \in Nat
  BY DEF Tag, QInv, TypeOK
<1>2. ASSUME NEW k \in Nat \ {0}, NEW n \in NewEvents(k),
             \/ Use(n, WithSpacers(n, tr, g.time, tok))
             \/ \E p : AppendAt(p, n, tr, g, s, tok)
      PROVE  RealEnds'
  <2>1. \/ ev' = WithSpacers(n, tr, g.time, tok)
        \/ \E p : ev' = [WithSpacers(n, tr, g.time, tok) EXCEPT ![p].next = FirstOf(n)]
    BY <1>2 DEF Use, AppendAt
  <2> QED
    BY <1>1, <2>1, SpacersReal
<1>3. CASE AtTagAlone(tr, g, s, tok)
  <2> DEFINE relative == IF g.time = current_tag.time
                         THEN g.microstep - current_tag.microstep ELSE g.microstep
             spacers == IF g.time = current_tag.time /\ relative = 1 THEN 0 ELSE relative
             k == 1 + spacers
  <2>1. PICK n \in NewEvents(k) : Use(n, WithSpacers(n, tr, g.time, tok))
    BY <1>3 DEF AtTagAlone
  <2>2. k \in Nat \ {0}
    BY <1>1 DEF TagLess
  <2> HIDE DEF k
  <2> QED
    BY <1>2, <2>1, <2>2
<1>4. ASSUME NEW h \in Live, AtTagBehind(h, tr, g, s, tok)
      PROVE  RealEnds'
  <2> DEFINE base == IF g.time = current_tag.time THEN current_tag.microstep + 1 ELSE 0
             skip == IF g.microstep > base THEN g.microstep - 1 - base ELSE 0
             rest == ChainLength(h) - 1
             p == Follow(h, skip)
             k == 1 + skip - rest
  <2>1. ChainLength(h) \in 1 .. Cardinality(Events) /\ Cardinality(Events) \in Nat
    BY <1>4, ChainFacts, FollowFacts
  <2>2. base \in Nat
    BY <1>1
  <2>3. skip \in Nat /\ rest \in Nat
    BY <1>1, <2>1, <2>2
  <2>4. \/ \E w, q, limit : Noted(w) /\ TagTaken(w, q, limit, tr, g, s, tok)
        \/ skip > rest /\ \E n \in NewEvents(k) : AppendAt(LastOf(h), n, tr, g, s, tok)
        \/ \E n \in NewEvents(1) : AppendAt(p, n, tr, g, s, tok)
    BY <1>4 DEF AtTagBehind, Noted
  <2>5. skip > rest => k \in Nat \ {0}
    BY <2>3
  <2>6. 1 \in Nat \ {0}
    OBVIOUS
  <2> HIDE DEF skip, rest, p, base, k
  <2>7. CASE \E w, q, limit : Noted(w) /\ TagTaken(w, q, limit, tr, g, s, tok)
    BY <2>7, TagTakenReal
  <2>8. CASE skip > rest /\ \E n \in NewEvents(k) : AppendAt(LastOf(h), n, tr, g, s, tok)
    BY <1>2, <2>5, <2>8
  <2>9. CASE \E n \in NewEvents(1) : AppendAt(p, n, tr, g, s, tok)
    BY <1>2, <2>6, <2>9
  <2> QED
    BY <2>4, <2>7, <2>8, <2>9
<1> QED
  BY <1>3, <1>4

(* The dummies of a program lead to real events, step after step.            *)
LEMMA RealStep ==
  ASSUME QInv, RealEnds, [Next]_vars
  PROVE  RealEnds'
<1>1. CASE UNCHANGED ev
  BY <1>1 DEF RealEnds
<1>2. ASSUME NEW tr \in DOMAIN prog, NEW d \in Delays,
             ScheduleVoid(tr, d) \/ ScheduleValue(tr, d) \/ ScheduleCopy(tr, d)
      PROVE  RealEnds'
  <2>1. d \in Nat /\ store \in Store
    BY QueueAssumption DEF QInv, TypeOK
  <2>2. \E s : \E tok \in Tokens \cup {NULL} : LfSchedule(tr, d, s, tok)
    <3>1. CASE ScheduleVoid(tr, d)
      BY <3>1 DEF ScheduleVoid
    <3>2. CASE ScheduleValue(tr, d)
      <4>1. PICK t \in NewTokens(store) :
              LfSchedule(tr, d, [CreateToken(store, t) EXCEPT !.token[t].value = TRUE], t)
        BY <3>2 DEF ScheduleValue
      <4>2. t \in Tokens
        BY <2>1, NewTokenType
      <4> QED
        BY <4>1, <4>2
    <3>3. CASE ScheduleCopy(tr, d)
      <4>1. template[tr] \in Tokens
        BY <3>3 DEF ScheduleCopy, QInv, TypeOK
      <4>2. PICK u \in InitializeToken(store, template[tr]) : LfSchedule(tr, d, u[1], u[2])
        BY <3>3 DEF ScheduleCopy
      <4>3. PICK v \in IF store.token[template[tr]].ref_count = 0 THEN {<<store, template[tr]>>}
                       ELSE {<<CreateToken(store, t), t>> : t \in NewTokens(store)} :
              u = <<[v[1] EXCEPT !.token[v[2]].value = TRUE], v[2]>>
        BY <4>2 DEF InitializeToken
      <4>4. v[2] \in Tokens
        <5>1. CASE v = <<store, template[tr]>>
          BY <4>1, <5>1
        <5>2. CASE \E t \in NewTokens(store) : v = <<CreateToken(store, t), t>>
          BY <2>1, <5>2, CreateTokenFields
        <5> QED
          BY <4>3, <5>1, <5>2
      <4>5. u[2] \in Tokens
        BY <4>3, <4>4
      <4> QED
        BY <4>2, <4>5
    <3> QED
      BY <1>2, <3>1, <3>2, <3>3
  <2> QED
    BY <2>1, <2>2, ScheduleReal
<1>3. ASSUME NEW tr \in DOMAIN prog, NEW g \in NetworkTags(tr), ScheduleAtTag(tr, g)
      PROVE  RealEnds'
  <2> DEFINE u(t) == AddReference([CreateToken(store, t) EXCEPT !.token[t].value = TRUE], t)
  <2>1. PICK t \in NewTokens(store) :
          IF AfterStop(g) THEN store' = DoneUsing(u(t), t) /\ UNCHANGED queueVars
          ELSE IF Found(tr, g.time) = {} THEN AtTagAlone(tr, g, u(t), t)
          ELSE \E h \in Found(tr, g.time) : AtTagBehind(h, tr, g, u(t), t)
    BY <1>3 DEF ScheduleAtTag
  <2>2. t \in Tokens
    BY NewTokenType DEF QInv, TypeOK
  <2> HIDE DEF u
  <2>3. g \in Tag /\ TagLess(current_tag, g)
    BY QueueAssumption DEF NetworkTags, Tag, QInv, TypeOK
  <2>4. Found(tr, g.time) \subseteq Live
    BY DEF Found, QInv, LinkInv, Heads
  <2>5. \/ UNCHANGED queueVars
        \/ AtTagAlone(tr, g, u(t), t)
        \/ \E h \in Live : AtTagBehind(h, tr, g, u(t), t)
    BY <2>1, <2>4
  <2> QED
    BY <1>1, <2>2, <2>3, <2>5, AtTagReal DEF queueVars
<1>4. ASSUME NEW e \in Events, PopDummy(e) \/ PopEvent(e) \/ PopTimer(e)
      PROVE  RealEnds'
  <2>1. ~Zeroed.is_dummy /\ \A tr, t : ~EventOf(tr, t, NULL).is_dummy
    BY DEF Zeroed, EventOf
  <2>2. CASE PopDummy(e) \/ PopEvent(e)
    <3>1. ev' = [ev EXCEPT ![e] = Zeroed] /\ ev \in [Events -> EventFields]
      BY <2>2 DEF PopDummy, PopEvent, QInv, TypeOK
    <3> QED
      BY <2>1, <3>1, RealNew DEF RealEnds
  <2>3. CASE PopTimer(e)
    <3> DEFINE tr == ev[e].trigger
               t == current_tag.time + prog[tr].period
               f == EventOf(tr, t, NULL)
               again(n) == IF t > stop_tag.time THEN {} ELSE {n[1]}
    <3>1. PICK n \in NewEvents(1) :
            ev' = [x \in Events |-> IF x = e THEN Zeroed
                                    ELSE IF x \in again(n) THEN f ELSE ev[x]]
      BY <2>3 DEF PopTimer
    <3>2. ~f.is_dummy
      BY <2>1
    <3> HIDE DEF f, again
    <3> QED
      BY <2>1, <3>1, <3>2 DEF RealEnds, RealLinks
  <2> QED
    BY <1>4, <2>2, <2>3
<1>5. \/ UNCHANGED ev
      \/ \E tr \in DOMAIN prog, d \in Delays :
           ScheduleVoid(tr, d) \/ ScheduleValue(tr, d) \/ ScheduleCopy(tr, d)
      \/ \E tr \in DOMAIN prog : \E g \in NetworkTags(tr) : ScheduleAtTag(tr, g)
      \/ \E e \in Events : PopDummy(e) \/ PopEvent(e) \/ PopTimer(e)
  BY DEF Next, vars, queueVars, InsertReactionsForTrigger, Advance, PopDone, Terminated
<1> QED
  BY <1>1, <1>2, <1>3, <1>4, <1>5

(* At first there is no dummy.                                               *)
LEMMA InitReal ==
  ASSUME Init
  PROVE  RealEnds
<1>1. \A tr, t : ~EventOf(tr, t, NULL).is_dummy
  BY DEF EventOf, Zeroed
<1>2. ~Zeroed.is_dummy
  BY DEF Zeroed
<1>3. PICK first :
        ev = [e \in Events |->
                IF \E tr \in DOMAIN first : first[tr] = e
                THEN LET tr == CHOOSE x \in DOMAIN first : first[x] = e
                     IN EventOf(tr, StartTime + FirstDelay(tr), NULL)
                ELSE Zeroed]
  BY DEF Init
<1>4. \A e \in Events : ~ev[e].is_dummy
  BY <1>1, <1>2, <1>3
<1> QED
  BY <1>4 DEF RealEnds, RealLinks

(* Every real event of a chain has an entry at its place.                    *)
RealEntryLaw ==
  \A h \in event_q, i \in 0 .. Cardinality(Events) - 1 :
    ~popping /\ Follow(h, i) # NULL /\ ~ev[Follow(h, i)].is_dummy =>
      [trigger |-> ev[Follow(h, i)].trigger, token |-> ev[Follow(h, i)].token,
       tag |-> TagOf(ev[h].time, HeadMicrostep(ev[h].time) + i)] \in Entries

(* This holds in every state of the invariant.                               *)
LEMMA RealEntries == QInv => RealEntryLaw
BY EntryInChain DEF RealEntryLaw, HeadMicrostep

(* Nothing is hooked behind the last event of a chain, which is no dummy and *)
(* of the trigger of the chain.                                              *)
LEMMA LastFacts ==
  ASSUME QInv, Kin, RealEnds, NEW h \in event_q
  PROVE  /\ LastOf(h) \in Live /\ ev[LastOf(h)].next = NULL
         /\ ~ev[LastOf(h)].is_dummy /\ ev[LastOf(h)].trigger = ev[h].trigger
<1> DEFINE N == Cardinality(Events)
           L == ChainLength(h)
<1>1. h \in Live /\ h \in Heads
  BY DEF QInv, LinkInv, Heads
<1>2. /\ N \in Nat \ {0}
      /\ \A i \in 0 .. N - 1 :
           Follow(h, i + 1) = IF Follow(h, i) = NULL THEN NULL ELSE ev[Follow(h, i)].next
  BY <1>1, FollowFacts
<1>3. L \in 1 .. N /\ LastOf(h) \in Live /\ LastOf(h) = Follow(h, L - 1)
  BY <1>1, ChainFacts DEF LastOf
<1>4. Follow(h, L) = NULL
  <2>1. CASE L = N
    BY <1>1, <2>1, ChainsEnd
  <2>2. CASE L # N
    <3>1. L \in 0 .. N - 1 /\ ~ (L < ChainLength(h))
      BY <1>2, <1>3, <2>2
    <3> HIDE DEF L
    <3> QED
      BY <1>1, <3>1, LengthIsEnd
  <2> QED
    BY <2>1, <2>2
<1>5. NULL \notin Live
  BY QueueAssumption DEF QInv, TypeOK, Live
<1>6. ev[LastOf(h)].next = NULL
  <2>1. L - 1 \in 0 .. N - 1 /\ (L - 1) + 1 = L
    BY <1>2, <1>3
  <2>2. Follow(h, (L - 1) + 1) =
          IF Follow(h, L - 1) = NULL THEN NULL ELSE ev[Follow(h, L - 1)].next
    BY <1>2, <2>1
  <2> QED
    BY <1>3, <1>4, <1>5, <2>1, <2>2
<1>7. ev[LastOf(h)].trigger = ev[h].trigger
  <2>1. L - 1 \in 0 .. ChainLength(h) - 1
    BY <1>2, <1>3
  <2> HIDE DEF L
  <2> QED
    BY <1>1, <1>3, <2>1, ChainKin
<1>8. LastOf(h) \in Events
  BY <1>3 DEF QInv, TypeOK, Live
<1> QED
  BY <1>3, <1>6, <1>7, <1>8 DEF RealEnds, RealLinks

(* Network input to a tag without an event goes behind the chain of its      *)
(* time, with as many dummies as there are microsteps between.               *)
LEMMA AtTagAppends ==
  ASSUME QInv, Kin, RealEnds, ~popping, NEW tr, NEW g \in NetworkTags(tr),
         \A x \in Entries : x.trigger = tr => TagLess(x.tag, g),
         NEW h \in Found(tr, g.time), NEW s, NEW tok, AtTagBehind(h, tr, g, s, tok)
  PROVE  LET k == g.microstep + 1 - (HeadMicrostep(g.time) + ChainLength(h))
         IN  k \in Nat \ {0} /\ \E n \in NewEvents(k) : AppendAt(LastOf(h), n, tr, g, s, tok)
<1> DEFINE base == HeadMicrostep(g.time)
           L == ChainLength(h)
           p == LastOf(h)
           k == g.microstep + 1 - (base + L)
<1>1. h \in event_q /\ ev[h].trigger = tr /\ ev[h].time = g.time /\ h \in Live
  BY DEF Found, QInv, LinkInv, Heads
<1>2. p \in Live /\ ev[p].next = NULL /\ ~ev[p].is_dummy /\ ev[p].trigger = tr
  BY <1>1, LastFacts
<1>3. Cardinality(Events) \in Nat /\ L \in 1 .. Cardinality(Events) /\ p = Follow(h, L - 1)
  BY <1>1, FollowFacts, ChainFacts DEF LastOf
<1>4. g \in Tag /\ \A x \in Entries : x.trigger = tr => TagLess(x.tag, g)
  BY QueueAssumption DEF NetworkTags, Tag, QInv, TypeOK
<1>5. base \in Nat /\ g.microstep \in Nat /\ g.time \in Nat
  BY <1>4 DEF QInv, TypeOK, Tag, HeadMicrostep
<1>6. NULL \notin Live
  BY QueueAssumption DEF QInv, TypeOK, Live
<1> DEFINE f == TagOf(g.time, base + (L - 1))
           x == [trigger |-> ev[p].trigger, token |-> ev[p].token, tag |-> f]
<1>7. x \in Entries
  <2>1. L - 1 \in 0 .. Cardinality(Events) - 1
    BY <1>3
  <2>2. RealEntryLaw
    BY RealEntries
  <2> HIDE DEF L, p
  <2> QED
    BY <1>1, <1>2, <1>3, <1>6, <2>1, <2>2 DEF RealEntryLaw
<1>8. base + (L - 1) < g.microstep
  <2>1. TagLess(f, g)
    BY <1>2, <1>4, <1>7
  <2>2. f \in Tag /\ f.time = g.time /\ f.microstep = base + (L - 1)
    <3>1. base + (L - 1) \in Nat
      BY <1>3, <1>5
    <3> HIDE DEF L, base
    <3> QED
      BY <1>5, <3>1, TagOfType
  <2> HIDE DEF f, L, base
  <2> QED
    BY <1>4, <2>1, <2>2 DEF TagLess, Tag
<1> DEFINE skip == IF g.microstep > base THEN g.microstep - 1 - base ELSE 0
           rest == L - 1
<1>9. /\ g.microstep # 0 /\ skip = g.microstep - 1 - base /\ skip \in Nat /\ rest \in Nat
      /\ ~ (skip < rest) /\ k \in Nat \ {0} /\ k = 1 + skip - rest
  <2> HIDE DEF base, L
  <2> QED
    BY <1>3, <1>5, <1>8
<1>10. \/ skip > rest /\ \E n \in NewEvents(1 + skip - rest) : AppendAt(p, n, tr, g, s, tok)
       \/ /\ ~(skip > rest) /\ ev[Follow(h, skip)].next = NULL
          /\ \E n \in NewEvents(1) : AppendAt(Follow(h, skip), n, tr, g, s, tok)
       \/ ~(skip > rest) /\ ev[Follow(h, skip)].next # NULL
  BY <1>9 DEF AtTagBehind, HeadMicrostep
<1>11. ~(skip > rest) => skip = L - 1 /\ k = 1
  <2> HIDE DEF base, L, skip
  <2> QED
    BY <1>3, <1>9
<1> HIDE DEF skip, rest, p, k, base, L
<1>12. \E n \in NewEvents(k) : AppendAt(p, n, tr, g, s, tok)
  BY <1>2, <1>3, <1>9, <1>10, <1>11
<1> QED
  BY <1>9, <1>12 DEF k, base, L, p

(* There is room for a chain and the new events.                             *)
LEMMA RoomForNew ==
  ASSUME QInv, NEW k \in Nat, NEW n \in NewEvents(k)
  PROVE  /\ k <= Cardinality(Events)
         /\ \A h \in Heads : ChainLength(h) + k <= Cardinality(Events)
<1> DEFINE N == Cardinality(Events)
           U == Events \ Live
<1>1. IsFiniteSet(Events) /\ Live \subseteq Events
  BY QueueAssumption DEF QInv, TypeOK, Live
<1>2. N \in Nat /\ IsFiniteSet(U) /\ Cardinality(U) = N - Cardinality(Live)
      /\ IsFiniteSet(Live) /\ Cardinality(Live) \in Nat
  <2>1. Events \cap Live = Live
    BY <1>1
  <2> QED
    BY <1>1, <2>1, FS_Difference, FS_Subset, FS_CardinalityType
<1>3. k <= Cardinality(U)
  <2>1. /\ DOMAIN n = 1 .. k
        /\ \A i \in 1 .. k : n[i] \in U
        /\ \A i, j \in 1 .. k : n[i] = n[j] => i = j
    BY NewEventsFacts
  <2> DEFINE f == [i \in 1 .. k |-> n[i]]
  <2>2. f \in Injection(1 .. k, U)
    BY <2>1 DEF Injection, IsInjective
  <2> HIDE DEF f
  <2>3. Cardinality(1 .. k) <= Cardinality(U)
    BY <1>2, <2>2, FS_Injection
  <2>4. Cardinality(1 .. k) = k
    BY FS_Interval
  <2> QED
    BY <2>3, <2>4
<1>4. ASSUME NEW h \in Heads
      PROVE  ChainLength(h) <= Cardinality(Live)
  <2> DEFINE L == ChainLength(h)
  <2>1. h \in Live
    BY DEF QInv, LinkInv
  <2>2. L \in 1 .. N /\ \A i \in 0 .. L - 1 : Follow(h, i) \in Live
    BY <2>1, ChainFacts
  <2>3. L - 1 \in 0 .. N /\ (L - 1) + 1 = L
    BY <1>2, <2>2
  <2> HIDE DEF L
  <2>4. (L - 1) + 1 <= Cardinality(Live)
    BY <1>1, <2>2, <2>3, ChainFits
  <2> QED
    BY <2>3, <2>4 DEF L
<1>5. ASSUME NEW h \in Heads
      PROVE  ChainLength(h) + k <= N
  <2>1. ChainLength(h) \in Nat
    BY ChainFacts, <1>2 DEF QInv, LinkInv
  <2> HIDE DEF N, U
  <2> QED
    BY <1>2, <1>3, <1>4, <2>1
<1>6. k <= N
  <2> HIDE DEF N, U
  <2> QED
    BY <1>2, <1>3
<1> QED
  BY <1>5, <1>6

(* The new event has its entry, behind j events and its dummies.             *)
LEMMA NewEntry ==
  ASSUME QInv, QInv', NEW k \in Nat \ {0}, NEW n \in NewEvents(k), Linked(n, k, ev'),
         NEW tr, NEW t, NEW tok, ev'[n[1]].trigger = tr, ~ev'[n[1]].is_dummy,
         NEW a \in event_q', ev'[a].time = t, NEW j \in Nat, Follow(a, j)' = FirstOf(n),
         j + (k - 1) <= Cardinality(Events) - 1, ~popping'
  PROVE  \E x \in Entries' :
           x.trigger = tr /\ x.tag = TagOf(t, HeadMicrostep(t)' + (j + (k - 1)))
<1> DEFINE N == Cardinality(Events)
           i == j + (k - 1)
<1>1. /\ Len(n) = k /\ \A l \in 1 .. k : n[l] # NULL
      /\ 1 \in 1 .. k
  BY NewEventsFacts
<1>2. N \in Nat /\ a \in Live'
  BY QueueAssumption, FS_CardinalityType DEF QInv, LinkInv, Heads
<1>3. i \in 0 .. N - 1 /\ j + (k - 1) <= N
  BY <1>2
<1>4. Follow(a, i)' = n[1]
  BY <1>1, <1>2, <1>3, SpacersWalk
<1>5. RealEntryLaw'
  BY RealEntries, PTL
<1> DEFINE x == [trigger |-> ev'[n[1]].trigger, token |-> ev'[n[1]].token,
                 tag |-> TagOf(t, HeadMicrostep(t)' + i)]
<1> HIDE DEF i
<1>6. x \in Entries'
  BY <1>1, <1>3, <1>4, <1>5 DEF RealEntryLaw, HeadMicrostep
<1>7. x.trigger = tr /\ x.tag = TagOf(t, HeadMicrostep(t)' + i)
  OBVIOUS
<1> HIDE DEF x
<1> QED
  BY <1>6, <1>7 DEF i

(* Behind the chain of its time the input fires at its tag.                  *)
LEMMA AppendOnTime ==
  ASSUME QInv, QInv', Kin, RealEnds, ~popping', current_tag' = current_tag,
         NEW tr \in DOMAIN prog, NEW g \in Tag, NEW h \in Found(tr, g.time),
         NEW s, NEW tok \in Tokens, NEW k \in Nat \ {0}, NEW n \in NewEvents(k),
         k = g.microstep + 1 - (HeadMicrostep(g.time) + ChainLength(h)),
         AppendAt(LastOf(h), n, tr, g, s, tok)
  PROVE  \E x \in Entries' : x.trigger = tr /\ x.tag = g
<1> DEFINE N == Cardinality(Events)
           p == LastOf(h)
           w == WithSpacers(n, tr, g.time, tok)
<1>1. h \in event_q /\ ev[h].time = g.time /\ h \in Live /\ h \in Heads
  BY DEF Found, QInv, LinkInv, Heads
<1>0. PICK L : L = ChainLength(h)
  OBVIOUS
<1>2. N \in Nat \ {0} /\ L \in 1 .. N /\ p \in Live /\ p = Follow(h, L - 1)
      /\ \A i \in 0 .. L - 1 : Follow(h, i) \in Live
  BY <1>0, <1>1, FollowFacts, ChainFacts DEF LastOf
<1>3. ev' = [w EXCEPT ![p].next = FirstOf(n)] /\ event_q' = event_q
  BY DEF AppendAt, Use
<1>4. /\ Linked(n, k, w) /\ w[n[1]] = EventOf(tr, g.time, tok)
      /\ \A x \in Events : (\A i \in 1 .. k : x # n[i]) => w[x] = ev[x]
  BY SpacersLinked
<1>5. g.time \in Nat /\ g.microstep \in Nat /\ tok \in Tokens \cup {NULL}
  BY DEF Tag
<1>6. w \in [Events -> EventFields]
  BY <1>5, SpacerFacts
<1>7. /\ Len(n) = k /\ \A i \in 1 .. k : n[i] \in Events \ Live /\ n[i] # NULL
      /\ 1 \in 1 .. k
  BY NewEventsFacts
<1>8. Live \subseteq Events /\ NULL \notin Live
  BY QueueAssumption DEF QInv, TypeOK, Live
<1> HIDE DEF w, p
<1>9. /\ \A x \in Events \ {p} : ev'[x] = w[x]
      /\ ev'[p] = [w[p] EXCEPT !.next = FirstOf(n)]
  BY <1>2, <1>3, <1>6, <1>8
<1>10. \A x \in Live : w[x] = ev[x]
  BY <1>4, <1>7, <1>8
<1>11. \A i \in 1 .. k : ev'[n[i]] = w[n[i]]
  BY <1>2, <1>7, <1>9
<1>12. ev'[p].next = FirstOf(n)
  <2>1. w[p] \in EventFields
    BY <1>2, <1>6, <1>8
  <2> QED
    BY <1>9, <2>1 DEF EventFields
<1>13. ev'[h].time = g.time
  <2>1. h # p => ev'[h] = ev[h]
    BY <1>1, <1>8, <1>9, <1>10
  <2>2. h = p => ev'[h].time = ev[h].time
    <3>1. w[p] \in EventFields /\ w[p] = ev[p]
      BY <1>2, <1>6, <1>8, <1>10
    <3> QED
      BY <1>9, <3>1 DEF EventFields
  <2> QED
    BY <1>1, <2>1, <2>2
<1>14. Linked(n, k, ev')
  <2>1. \A i \in 2 .. k : ev'[n[i]] = w[n[i]]
    BY <1>11
  <2> QED
    BY <1>4, <2>1 DEF Linked
<1>15. ev'[n[1]].trigger = tr /\ ~ev'[n[1]].is_dummy
  <2>1. ev'[n[1]] = EventOf(tr, g.time, tok)
    BY <1>4, <1>7, <1>11
  <2> QED
    BY <2>1 DEF EventOf, Zeroed
<1>16. L + k <= N
  BY <1>0, <1>1, RoomForNew
<1>17. h \in event_q' /\ h \in Live' /\ popping' = FALSE
  <2>1. h \in event_q'
    BY <1>1, <1>3
  <2> QED
    BY <2>1 DEF QInv, LinkInv, Heads, TypeOK
<1>18. Follow(h, L - 1)' = p
  <2>1. ASSUME NEW i \in 0 .. (L - 1) - 1
        PROVE  ev'[Follow(h, i)].next = ev[Follow(h, i)].next
    <3>1. Follow(h, i) \in Live /\ i \in 0 .. N /\ L - 1 \in 0 .. N /\ i # L - 1
      BY <1>2
    <3>2. Follow(h, i) # p
      <4> HIDE DEF N
      <4> QED
        BY <1>1, <1>2, <1>8, <3>1, ChainsApart DEF N
    <3> HIDE DEF N
    <3> QED
      BY <1>8, <1>9, <1>10, <3>1, <3>2
  <2>2. 0 \in 0 .. N /\ L - 1 \in 0 .. N /\ L - 1 \in Nat /\ 0 + (L - 1) = L - 1
        /\ 0 + (L - 1) <= L - 1
    BY <1>2
  <2>3. Follow(h, 0) = h
    BY <1>1, FollowFacts
  <2>4. Follow(h, L - 1)' = Follow(h, 0 + (L - 1))
    BY <1>1, <1>17, <2>1, <2>2, <2>3, SameWalk
  <2> QED
    BY <1>2, <2>2, <2>4
<1>19. Follow(h, L)' = FirstOf(n)
  <2>1. ChainLaw'
    BY Chains, PTL
  <2>2. L - 1 \in 0 .. N - 1 /\ (L - 1) + 1 = L
    BY <1>2
  <2>3. Follow(h, (L - 1) + 1)' =
          IF Follow(h, L - 1)' = NULL THEN NULL ELSE ev'[Follow(h, L - 1)'].next
    BY <1>17, <2>1, <2>2 DEF ChainLaw
  <2> QED
    BY <1>2, <1>8, <1>12, <1>18, <2>2, <2>3
<1>20. HeadMicrostep(g.time)' = HeadMicrostep(g.time) /\ HeadMicrostep(g.time) \in Nat
  BY DEF HeadMicrostep, QInv, TypeOK, Tag
<1>21. L \in Nat /\ L + (k - 1) <= N - 1
       /\ HeadMicrostep(g.time) + (L + (k - 1)) = g.microstep
  <2>1. k = g.microstep + 1 - (HeadMicrostep(g.time) + L)
    BY <1>0
  <2> HIDE DEF N
  <2> QED
    BY <1>2, <1>5, <1>16, <1>20, <2>1
<1>22. TagOf(g.time, g.microstep) = g
  BY DEF TagOf, Tag
<1>23. \E x \in Entries' :
         x.trigger = tr /\ x.tag = TagOf(g.time, HeadMicrostep(g.time)' + (L + (k - 1)))
  BY <1>13, <1>14, <1>15, <1>17, <1>19, <1>21, NewEntry
<1> QED
  BY <1>20, <1>21, <1>22, <1>23

(* Alone at its time it fires at its tag in the future, and not before it    *)
(* at the current time: there one dummy is one too many.                     *)
LEMMA AloneOnTime ==
  ASSUME QInv, QInv', ~popping', current_tag' = current_tag,
         NEW tr \in DOMAIN prog, NEW g \in Tag, TagLess(current_tag, g),
         NEW s, NEW tok \in Tokens, AtTagAlone(tr, g, s, tok)
  PROVE  \E x \in Entries' :
           /\ x.trigger = tr /\ TagLeq(g, x.tag) /\ x.tag \in Tag
           /\ g.time > current_tag.time => x.tag = g
<1> DEFINE N == Cardinality(Events)
           relative == IF g.time = current_tag.time
                       THEN g.microstep - current_tag.microstep ELSE g.microstep
           spacers == IF g.time = current_tag.time /\ relative = 1 THEN 0 ELSE relative
<1>0. PICK k : k = 1 + spacers
  OBVIOUS
<1>1. PICK n \in NewEvents(k) :
        Use(n, WithSpacers(n, tr, g.time, tok)) /\ event_q' = event_q \cup {FirstOf(n)}
  BY <1>0 DEF AtTagAlone
<1>2. /\ g.time \in Nat /\ g.microstep \in Nat
      /\ current_tag.time \in Nat /\ current_tag.microstep \in Nat
  BY DEF Tag, QInv, TypeOK
<1>3. k \in Nat \ {0} /\ 0 + (k - 1) = spacers
  BY <1>0, <1>2 DEF TagLess
<1>4. HeadMicrostep(g.time)' + spacers >= g.microstep
      /\ HeadMicrostep(g.time)' + spacers \in Nat
      /\ (g.time > current_tag.time => HeadMicrostep(g.time)' + spacers = g.microstep)
  BY <1>2 DEF TagLess, HeadMicrostep
<1> HIDE DEF spacers
<1>5. ev' = WithSpacers(n, tr, g.time, tok)
  BY <1>1 DEF Use
<1>6. /\ Linked(n, k, ev') /\ ev'[n[1]] = EventOf(tr, g.time, tok)
      /\ \A i \in 1 .. k : ev'[n[i]].time = g.time
  BY <1>3, <1>5, SpacersLinked
<1>7. ev'[n[1]].trigger = tr /\ ~ev'[n[1]].is_dummy
  BY <1>6 DEF EventOf, Zeroed
<1>8. Len(n) = k
  BY <1>3, NewEventsFacts
<1>9. ev'[FirstOf(n)].time = g.time
  <2>1. \E i \in 1 .. k : FirstOf(n) = n[i]
    <3>1. 1 \in 1 .. k /\ (k # 1 => 2 \in 1 .. k)
      BY <1>3
    <3> QED
      BY <1>8, <3>1 DEF FirstOf
  <2> QED
    BY <1>6, <2>1
<1>10. FirstOf(n) \in event_q'
  BY <1>1
<1>11. Follow(FirstOf(n), 0)' = FirstOf(n)
  <2>1. ChainLaw' /\ FirstOf(n) \in Live'
    <3>1. FirstOf(n) \in Live'
      BY <1>10 DEF QInv, LinkInv, Heads
    <3>2. ChainLaw'
      BY Chains, PTL
    <3> QED
      BY <3>1, <3>2
  <2> QED
    BY <2>1 DEF ChainLaw
<1>12. 0 \in Nat /\ 0 + (k - 1) <= N - 1
  <2>1. k <= N /\ N \in Nat
    BY <1>3, RoomForNew, QueueAssumption, FS_CardinalityType
  <2> HIDE DEF N
  <2> QED
    BY <1>3, <2>1
<1>13. PICK x \in Entries' :
         x.trigger = tr /\ x.tag = TagOf(g.time, HeadMicrostep(g.time)' + (0 + (k - 1)))
  BY <1>3, <1>6, <1>7, <1>9, <1>10, <1>11, <1>12, NewEntry
<1> DEFINE m == HeadMicrostep(g.time)' + spacers
<1>14. x.tag = TagOf(g.time, m) /\ m \in Nat /\ m >= g.microstep
       /\ (g.time > current_tag.time => m = g.microstep)
  BY <1>3, <1>4, <1>13
<1> HIDE DEF m
<1>15. x.tag \in Tag /\ x.tag.time = g.time /\ x.tag.microstep = m
  BY <1>2, <1>14, TagOfType
<1>16. TagLeq(g, x.tag)
  <2>1. CASE m = g.microstep
    BY <1>15, <2>1, TagEquality DEF TagLeq
  <2>2. CASE m # g.microstep
    BY <1>2, <1>14, <1>15, <2>2 DEF TagLeq, TagLess
  <2> QED
    BY <2>1, <2>2
<1>17. g.time > current_tag.time => x.tag = g
  BY <1>14, <1>15, TagEquality
<1> QED
  BY <1>13, <1>15, <1>16, <1>17

(* What AtTagOnTime says of a step.                                          *)
LEMMA InputOnTime ==
  ASSUME QInv, QInv', Kin, RealEnds, NEW tr \in DOMAIN prog, NEW g \in NetworkTags(tr),
         ScheduleAtTag(tr, g), ~AfterStop(g),
         \A x \in Entries : x.trigger = tr => TagLess(x.tag, g)
  PROVE  \E x \in Entries' \ Entries :
           /\ x.trigger = tr /\ TagLeq(g, x.tag)
           /\ g.time > current_tag.time => x.tag = g
<1> DEFINE u(t) == AddReference([CreateToken(store, t) EXCEPT !.token[t].value = TRUE], t)
<1>1. ~popping /\ ~popping' /\ current_tag' = current_tag
  BY DEF ScheduleAtTag, Calling
<1>2. PICK t \in NewTokens(store) :
        IF Found(tr, g.time) = {} THEN AtTagAlone(tr, g, u(t), t)
        ELSE \E h \in Found(tr, g.time) : AtTagBehind(h, tr, g, u(t), t)
  BY DEF ScheduleAtTag
<1>3. t \in Tokens
  BY NewTokenType DEF QInv, TypeOK
<1> HIDE DEF u
<1>4. /\ g \in Tag /\ TagLess(current_tag, g)
      /\ \A x \in Entries : x.trigger = tr => TagLess(x.tag, g)
  BY QueueAssumption DEF NetworkTags, Tag, QInv, TypeOK
<1>5. CASE AtTagAlone(tr, g, u(t), t)
  <2>1. PICK x \in Entries' :
          /\ x.trigger = tr /\ TagLeq(g, x.tag) /\ x.tag \in Tag
          /\ g.time > current_tag.time => x.tag = g
    BY <1>1, <1>3, <1>4, <1>5, AloneOnTime
  <2>2. x \notin Entries
    <3> SUFFICES ASSUME x \in Entries
                 PROVE  FALSE
      OBVIOUS
    <3>1. TagLess(x.tag, g)
      BY <1>4, <2>1
    <3> QED
      BY <1>4, <2>1, <3>1 DEF TagLeq, TagLess, Tag
  <2> QED
    BY <2>1, <2>2
<1>6. ASSUME NEW h \in Found(tr, g.time), AtTagBehind(h, tr, g, u(t), t)
      PROVE  \E x \in Entries' : x.trigger = tr /\ x.tag = g
  <2>1. PICK k : k = g.microstep + 1 - (HeadMicrostep(g.time) + ChainLength(h))
    OBVIOUS
  <2>2. k \in Nat \ {0} /\ \E n \in NewEvents(k) : AppendAt(LastOf(h), n, tr, g, u(t), t)
    BY <1>1, <1>6, <2>1, AtTagAppends
  <2>3. PICK n \in NewEvents(k) : AppendAt(LastOf(h), n, tr, g, u(t), t)
    BY <2>2
  <2> QED
    BY <1>1, <1>3, <1>4, <2>1, <2>2, <2>3, AppendOnTime
<1>7. CASE ~AtTagAlone(tr, g, u(t), t)
  <2>1. PICK h \in Found(tr, g.time) : AtTagBehind(h, tr, g, u(t), t)
    BY <1>2, <1>7
  <2>2. PICK x \in Entries' : x.trigger = tr /\ x.tag = g
    BY <1>6, <2>1
  <2>3. x \notin Entries
    BY <1>4, <2>2 DEF TagLess, Tag
  <2> QED
    BY <2>2, <2>3 DEF TagLeq
<1> QED
  BY <1>5, <1>7

(* A step after which every input after all that is pending fires as asked.  *)
OnTime ==
  \A tr \in DOMAIN prog : \A g \in NetworkTags(tr) :
    (ScheduleAtTag(tr, g) /\ ~AfterStop(g)
       /\ \A x \in Entries : x.trigger = tr => TagLess(x.tag, g))
      => \E x \in Entries' \ Entries :
           /\ x.trigger = tr /\ TagLeq(g, x.tag)
           /\ g.time > current_tag.time => x.tag = g

LEMMA StepOnTime == QInv /\ QInv' /\ Kin /\ RealEnds => OnTime
BY InputOnTime DEF OnTime

(* In programs whose actions keep no minimum spacing, or with nothing but    *)
(* one that does, network input to a tag after all that its trigger has      *)
(* pending fires exactly then if its time is in the future, and never        *)
(* before, whatever chain of real events and dummies is at its time and      *)
(* wherever the memory of the dummies comes from (_lf_schedule_at_tag and    *)
(* _lf_create_dummy_events).                                                 *)
THEOREM UnsharedInputFiresOnTime == Spec /\ Unshared(prog) => AtTagOnTime
<1>1. Init => QInv /\ TokenInv /\ RealEnds
  BY InitHolds, InitTokens, InitReal
<1>2. QInv /\ TokenInv /\ RealEnds /\ Unshared(prog) /\ [Next]_vars
        => (QInv /\ TokenInv /\ RealEnds /\ Unshared(prog))'
  <2>1. ASSUME QInv, TokenInv, RealEnds, Unshared(prog), [Next]_vars
        PROVE  QInv' /\ TokenInv' /\ RealEnds' /\ Unshared(prog')
    <3>1. QInv' /\ TokenInv' /\ RealEnds'
      BY <2>1, UnsharedLast, StepHolds, TokenStepHolds, RealStep
    <3>2. Unshared(prog')
      BY <2>1, ProgramStays
    <3> QED
      BY <3>1, <3>2
  <2> QED
    BY <2>1
<1>3. QInv /\ QInv' /\ TokenInv /\ RealEnds => [OnTime]_vars
  BY StepOnTime DEF TokenInv
<1>4. AtTagOnTime <=> [][OnTime]_vars
  BY PTL DEF AtTagOnTime, OnTime
<1> QED
  BY <1>1, <1>2, <1>3, <1>4, PTL DEF Spec
=============================================================================
