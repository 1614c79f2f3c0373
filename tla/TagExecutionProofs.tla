------------------------- MODULE TagExecutionProofs -------------------------
(***************************************************************************)
(* Proofs about TagExecution, for every program and number of workers:     *)
(* reactions are executed once in a tag and after all that has to precede  *)
(* them, and exactly those that something triggers; what is present was    *)
(* written in this tag, and the sparse record lists it, up to one channel  *)
(* more than there is room for; every token is a port's, a mutable input's *)
(* or in the bin, and is given back at the end of the tag.                 *)
(***************************************************************************)
EXTENDS TagExecution, TagsProofs, FiniteSetTheorems, SequenceTheorems

-----------------------------------------------------------------------------
(* The inductive invariant *)

(* A worker without a reaction is idle.  The reaction it executes is not of  *)
(* a lower level than the one the scheduler gave to it.                      *)
WorkerInv ==
  \A w \in Workers :
    /\ at[w] = "idle" <=> running[w] = NULL
    /\ running[w] = NULL <=> current[w] = NULL
    /\ current[w] # NULL => Level[running[w]] <= Level[current[w]]

(* A reaction is in one place: queued, with one worker, or executed.         *)
RunsInv ==
  /\ \A r \in queued : runs[r] = 0 /\ \A w \in Workers : current[w] # r
  /\ \A w, v \in Workers : current[w] # NULL /\ current[w] = current[v] => w = v
  /\ \A w \in Workers : at[w] = "invoke" => runs[current[w]] = 0
  /\ \A w \in Workers : at[w] \notin {"idle", "invoke"} => runs[current[w]] = 1
  /\ \A r \in Reactions : runs[r] <= 1

Active(r) == r \in queued \/ \E w \in Workers : current[w] = r
Begun(r) == runs[r] > 0 \/ \E w \in Workers : current[w] = r

(* Nothing that has to precede a reaction that was begun is still to come.   *)
OrderInv == \A d \in Reactions : Begun(d) => \A b \in Preceding[d] : ~Active(b)

(* What is queued was triggered at the start of the tag, or by a reaction    *)
(* that has been executed and has triggered what it had to.                  *)
Over(r) == runs[r] > 0 /\ \A w \in Workers : current[w] # r

QueuedInv == \A d \in queued : d \in Timed \/ \E b \in Before[d] : Over(b)

(* A body writes outputs of its reaction only, and nothing else is present.  *)
WriteInv ==
  /\ PresentIsFresh
  /\ \A w \in Workers :
       /\ at[w] \in {"idle", "invoke"} => todo[w] = Nothing
       /\ \A p \in Ports : todo[w][p] > 0 => p \in Outputs[current[w]]
       /\ at[w] \in Writing \cup {"written"} => port[w] \in Outputs[current[w]]
       /\ at[w] \in Writing => port[w] \in wrote
       /\ at[w] \in {"sparse", "channel"} => Channel[port[w]] >= 0

(* Every port that is present has a slot of the list that no other worker is *)
(* about to write, if the list has not overflowed.                           *)
Listed(p) ==
  \E i \in 0 .. FieldsSize - 1 :
    /\ i < abbreviated_size /\ abbreviated[i] = p
    /\ \A w \in Workers : at[w] = "mark" => index[w] # i

SlotsInv ==
  /\ \A w \in Workers : at[w] = "mark" => index[w] \in Nat /\ index[w] < abbreviated_size
  /\ \A w, v \in Workers : at[w] = "mark" /\ at[v] = "mark" /\ index[w] = index[v] => w = v
  /\ abbreviated_size <= FieldsSize => \A p \in is_present : Listed(p)

Triggered(r) == r \in roots \/ \E p \in is_present : r \in Readers[p]
Accounted(r) == r \in queued \/ Begun(r)

(* What is queued or begun was triggered; what was triggered is queued or    *)
(* begun, or a worker that may write the port has not scheduled its outputs. *)
TriggerInv ==
  /\ \A r \in Reactions : Accounted(r) => Triggered(r)
  /\ \A r \in roots : Accounted(r)
  /\ \A p \in is_present : \A r \in Readers[p] :
       \/ Accounted(r)
       \/ \E w \in Workers : at[w] \notin {"idle", "invoke"} /\ p \in Outputs[current[w]]

EInv ==
  /\ PresenceTypeOK /\ ExecTypeOK /\ WorkerInv /\ RunsInv /\ OrderInv
  /\ QueuedInv /\ WriteInv /\ SlotsInv /\ TriggerInv

-----------------------------------------------------------------------------
(* The loops of schedule_output_reactions *)

(* The reactions that the outputs of r that are present trigger.             *)
Downstream(r) == UNION {Readers[p] : p \in Outputs[r] \cap is_present}

(* What the loops have found when they have come upon the reactions V.       *)
Found(r, V, acc) ==
  /\ acc \in [num : Nat, now : Reactions \cup {NULL}, queue : SUBSET Reactions]
  /\ acc.num = 0 <=> V = {}
  /\ acc.now # NULL => V = {acc.now} /\ LastEnabling[acc.now] = r /\ acc.queue = {}
  /\ acc.now = NULL => /\ acc.queue = V
                       /\ \A d \in Reactions : V = {d} => LastEnabling[d] # r

(* One round of the loops.                                                   *)
LEMMA ConsiderFinds ==
  ASSUME NEW r \in Reactions, NEW V \in SUBSET Reactions, NEW acc, Found(r, V, acc),
         NEW v \in Ports \X Reactions
  PROVE  Found(r, V \cup (IF v[1] \in is_present THEN {v[2]} ELSE {}), Consider(r, acc, v))
<1> DEFINE d == v[2]
<1>1. v[1] \in Ports /\ d \in Reactions /\ d # NULL
  BY TablesTyped
<1>2. /\ acc \in [num : Nat, now : Reactions \cup {NULL}, queue : SUBSET Reactions]
      /\ acc.num \in Nat /\ acc.now \in Reactions \cup {NULL} /\ acc.queue \subseteq Reactions
      /\ acc.num = 0 <=> V = {}
      /\ acc.now # NULL => V = {acc.now} /\ LastEnabling[acc.now] = r /\ acc.queue = {}
      /\ acc.now = NULL => /\ acc.queue = V
                           /\ \A e \in Reactions : V = {e} => LastEnabling[e] # r
  BY DEF Found
<1> HIDE DEF d
<1>3. CASE v[1] \notin is_present
  BY <1>3 DEF Consider
<1>4. CASE v[1] \in is_present /\ d = acc.now
  BY <1>1, <1>2, <1>4 DEF Consider, Found, d
<1>5. CASE v[1] \in is_present /\ d # acc.now /\ acc.num = 0 /\ LastEnabling[d] = r
  <2>1. Consider(r, acc, v) = [acc EXCEPT !.num = 1, !.now = d]
    BY <1>5 DEF Consider, d
  <2>2. V = {}
    BY <1>2, <1>5
  <2>3. acc.queue = {}
    BY <1>2, <2>2
  <2>4. Consider(r, acc, v) = [num |-> 1, now |-> d, queue |-> {}]
    BY <1>2, <2>1, <2>3
  <2>5. /\ Consider(r, acc, v)
             \in [num : Nat, now : Reactions \cup {NULL}, queue : SUBSET Reactions]
        /\ Consider(r, acc, v).num = 1 /\ Consider(r, acc, v).now = d
        /\ Consider(r, acc, v).queue = {}
    BY <1>1, <2>4
  <2> QED
    BY <1>1, <1>5, <2>2, <2>5 DEF Found, d
<1>6. CASE v[1] \in is_present /\ d # acc.now /\ ~(acc.num = 0 /\ LastEnabling[d] = r)
  <2> DEFINE new == [num |-> acc.num + 1, now |-> NULL,
                     queue |-> acc.queue \cup ({d, acc.now} \ {NULL})]
  <2>1. Consider(r, acc, v) = new
    BY <1>6 DEF Consider, d
  <2>2. /\ new \in [num : Nat, now : Reactions \cup {NULL}, queue : SUBSET Reactions]
        /\ new.num = acc.num + 1 /\ new.now = NULL
        /\ new.queue = acc.queue \cup ({d, acc.now} \ {NULL})
    BY <1>1, <1>2
  <2> HIDE DEF new
  <2>3. new.num # 0 /\ V \cup {d} # {}
    BY <1>2, <2>2
  <2>4. new.queue = V \cup {d}
    BY <1>1, <1>2, <2>2
  <2>5. ASSUME NEW e \in Reactions, V \cup {d} = {e}
        PROVE  LastEnabling[e] # r
    <3>1. e = d /\ (V = {} \/ V = {d})
      BY <2>5
    <3>2. CASE V = {}
      BY <1>2, <1>6, <3>1, <3>2
    <3>3. CASE V = {d}
      <4>1. acc.now = NULL
        BY <1>2, <1>6, <3>3
      <4> QED
        BY <1>1, <1>2, <3>1, <3>3, <4>1
    <3> QED
      BY <3>1, <3>2, <3>3
  <2> QED
    BY <1>6, <2>1, <2>2, <2>3, <2>4, <2>5 DEF Found, d
<1> QED
  BY <1>3, <1>4, <1>5, <1>6

(* The loops choose a reaction to execute at once if and only if it is the   *)
(* only one downstream and waits for r alone; else they queue them all.      *)
LEMMA ConsideredFinds ==
  ASSUME NEW r \in Reactions
  PROVE  Found(r, Downstream(r), Considered(r))
<1> DEFINE N == Len(Visits[r])
           base == [num |-> 0, now |-> NULL, queue |-> {}]
           Loop(g, n) == g = [i \in 0 .. n |-> IF i = 0 THEN base
                                               ELSE Consider(r, g[i - 1], Visits[r][i])]
           acc[i \in 0 .. N] == IF i = 0 THEN base ELSE Consider(r, acc[i - 1], Visits[r][i])
           V(i) == {d \in Reactions : \E j \in 1 .. i : /\ Visits[r][j][1] \in is_present
                                                        /\ d = Visits[r][j][2]}
<1>1. N \in Nat /\ \A i \in 1 .. N : Visits[r][i] \in Ports \X Reactions
  BY TablesTyped
<1>2. Considered(r) = acc[N]
  BY DEF Considered
<1>3. \A n \in Nat : \E g : Loop(g, n)
  <2> DEFINE bad == {n \in Nat : ~ \E g : Loop(g, n)}
  <2> SUFFICES ASSUME bad # {}
               PROVE  FALSE
    OBVIOUS
  <2>1. PICK n \in bad : \A m \in bad : n <= m
    <3>1. bad \in SUBSET Nat
      OBVIOUS
    <3> HIDE DEF bad
    <3> QED
      BY <3>1, LeastNatural
  <2>2. n \in Nat /\ ~ \E g : Loop(g, n)
    BY <2>1
  <2>3. CASE n = 0
    <3> DEFINE h == [i \in 0 .. 0 |-> base]
    <3>1. Loop(h, 0)
      <4>1. \A i \in 0 .. 0 : i = 0
        OBVIOUS
      <4> QED
        BY <4>1
    <3> QED
      BY <2>2, <2>3, <3>1
  <2>4. CASE n # 0
    <3>1. n - 1 \in Nat /\ n - 1 \notin bad
      <4> HIDE DEF bad
      <4> QED
        BY <2>1, <2>2, <2>4
    <3>2. PICK g : Loop(g, n - 1)
      BY <3>1
    <3> DEFINE h == [i \in 0 .. n |-> IF i < n THEN g[i]
                                      ELSE Consider(r, g[n - 1], Visits[r][n])]
    <3>3. ASSUME NEW i \in 0 .. n
          PROVE  h[i] = IF i = 0 THEN base ELSE Consider(r, h[i - 1], Visits[r][i])
      <4>1. CASE i = 0
        <5>1. i < n /\ i \in 0 .. n - 1
          BY <2>2, <2>4, <4>1
        <5>2. h[i] = g[i]
          BY <5>1
        <5>3. g[i] = base
          BY <3>2, <4>1, <5>1
        <5> QED
          BY <4>1, <5>2, <5>3
      <4>2. CASE i # 0 /\ i < n
        <5>1. i \in 0 .. n - 1 /\ i - 1 \in 0 .. n /\ i - 1 < n
          BY <2>2, <4>2
        <5>2. h[i] = g[i] /\ h[i - 1] = g[i - 1]
          BY <4>2, <5>1
        <5>3. g[i] = Consider(r, g[i - 1], Visits[r][i])
          BY <3>2, <4>2, <5>1
        <5> QED
          BY <4>2, <5>2, <5>3
      <4>3. CASE i = n
        <5>1. n - 1 \in 0 .. n /\ n - 1 < n /\ ~ (i < n)
          BY <2>2, <2>4, <4>3
        <5>2. h[i] = Consider(r, g[n - 1], Visits[r][n]) /\ h[n - 1] = g[n - 1]
          BY <5>1
        <5> QED
          BY <2>4, <4>3, <5>2
      <4> QED
        BY <2>2, <4>1, <4>2, <4>3
    <3>4. Loop(h, n)
      <4> DEFINE k == [i \in 0 .. n |-> IF i = 0 THEN base
                                        ELSE Consider(r, h[i - 1], Visits[r][i])]
      <4>1. \A i \in 0 .. n : h[i] = k[i]
        BY <3>3
      <4>2. h = [i \in 0 .. n |-> h[i]] /\ k = [i \in 0 .. n |-> k[i]]
        OBVIOUS
      <4> HIDE DEF h, k
      <4>3. h = k
        BY <4>1, <4>2
      <4> QED
        BY <4>3 DEF k
    <3> QED
      BY <2>2, <3>4
  <2> QED
    BY <2>3, <2>4
<1>4. Loop(acc, N)
  BY <1>1, <1>3
<1> HIDE DEF acc
<1>5. acc[0] = base /\ \A i \in 1 .. N : acc[i] = Consider(r, acc[i - 1], Visits[r][i])
  <2>1. 0 \in 0 .. N /\ \A i \in 1 .. N : i \in 0 .. N /\ i # 0
    BY <1>1
  <2> HIDE DEF N, base
  <2> QED
    BY <1>4, <2>1
<1>6. \A i \in 0 .. N : Found(r, V(i), acc[i])
  <2> DEFINE bad == {i \in 0 .. N : ~ Found(r, V(i), acc[i])}
  <2> SUFFICES ASSUME bad # {}
               PROVE  FALSE
    OBVIOUS
  <2>1. PICK n \in bad : \A m \in bad : n <= m
    <3>1. bad \in SUBSET Nat
      BY <1>1
    <3> HIDE DEF bad
    <3> QED
      BY <3>1, LeastNatural
  <2>2. n \in 0 .. N /\ ~ Found(r, V(n), acc[n])
    BY <2>1
  <2>3. CASE n = 0
    <3>1. V(0) = {}
      OBVIOUS
    <3>2. Found(r, {}, base)
      BY DEF Found
    <3> QED
      BY <1>5, <2>2, <2>3, <3>1, <3>2
  <2>4. CASE n # 0
    <3>1. n - 1 \in 0 .. N /\ n \in 1 .. N /\ n - 1 \notin bad
      <4> HIDE DEF bad, N
      <4> QED
        BY <1>1, <2>1, <2>2, <2>4
    <3>2. Found(r, V(n - 1), acc[n - 1])
      BY <3>1
    <3> DEFINE v == Visits[r][n]
    <3>3. v \in Ports \X Reactions
      BY <1>1, <3>1
    <3>4. V(n) = V(n - 1) \cup (IF v[1] \in is_present THEN {v[2]} ELSE {})
      <4>1. \A j \in 1 .. n : j \in 1 .. n - 1 \/ j = n
        BY <3>1, <1>1
      <4>2. n \in 1 .. n /\ \A j \in 1 .. n - 1 : j \in 1 .. n
        BY <3>1, <1>1
      <4>3. v[2] \in Reactions
        BY <3>3
      <4> QED
        BY <4>1, <4>2, <4>3
    <3>5. V(n - 1) \in SUBSET Reactions
      OBVIOUS
    <3> HIDE DEF V, v
    <3>6. Found(r, V(n), Consider(r, acc[n - 1], v))
      BY <3>2, <3>3, <3>4, <3>5, ConsiderFinds
    <3> QED
      BY <1>5, <2>2, <3>1, <3>6 DEF v
  <2> QED
    BY <2>3, <2>4
<1>7. V(N) = Downstream(r)
  <2>1. {Visits[r][i] : i \in 1 .. N} = UNION {{p} \X Readers[p] : p \in Outputs[r]}
    <3>1. DOMAIN Visits[r] = 1 .. N
      BY TablesTyped
    <3> QED
      BY <3>1, TablesAssumption
  <2>2. ASSUME NEW d \in V(N)
        PROVE  d \in Downstream(r)
    <3>1. PICK j \in 1 .. N : Visits[r][j][1] \in is_present /\ d = Visits[r][j][2]
      OBVIOUS
    <3>2. PICK p \in Outputs[r] : Visits[r][j] \in {p} \X Readers[p]
      BY <2>1
    <3>3. p \in is_present /\ d \in Readers[p]
      BY <3>1, <3>2
    <3> QED
      BY <3>2, <3>3 DEF Downstream
  <2>3. ASSUME NEW d \in Downstream(r)
        PROVE  d \in V(N)
    <3>1. PICK p \in Outputs[r] : p \in is_present /\ d \in Readers[p]
      BY DEF Downstream
    <3>2. <<p, d>> \in UNION {{q} \X Readers[q] : q \in Outputs[r]}
      BY <3>1
    <3>3. PICK j \in 1 .. N : Visits[r][j] = <<p, d>>
      BY <2>1, <3>2
    <3>4. d \in Reactions
      BY <1>1, <3>3
    <3> QED
      BY <3>1, <3>3, <3>4
  <2> HIDE DEF V
  <2> QED
    BY <2>2, <2>3
<1>8. N \in 0 .. N
  BY <1>1
<1> HIDE DEF V
<1> QED
  BY <1>2, <1>6, <1>7, <1>8
-----------------------------------------------------------------------------
(* The order of reactions *)

(* What precedes a reaction is of a lower level.                             *)
LEMMA PrecedingIsLower ==
  ASSUME NEW d \in Reactions, NEW b \in Preceding[d]
  PROVE  b \in Reactions /\ Level[b] < Level[d]
<1> DEFINE S == {x \in Reactions : Level[x] < Level[d]}
<1>1. S \in SUBSET Reactions /\ Before[d] \subseteq S
  BY TablesTyped, TablesAssumption
<1>2. ASSUME NEW x \in S
      PROVE  Before[x] \subseteq S
  <2>1. ASSUME NEW y \in Before[x]
        PROVE  y \in S
    <3>1. y \in Reactions /\ Level[y] < Level[x] /\ Level[x] < Level[d]
      BY TablesTyped, TablesAssumption
    <3>2. Level[x] \in Nat /\ Level[y] \in Nat /\ Level[d] \in Nat
      BY <3>1, TablesTyped
    <3> QED
      BY <3>1, <3>2
  <2> QED
    BY <2>1
<1> HIDE DEF S
<1>3. b \in Reactions /\ b \in S
  BY <1>1, <1>2 DEF Preceding
<1> QED
  BY <1>3 DEF S

(* A reaction waits for what it is declared to wait for, for what that waits *)
(* for, and if it waits for one reaction only, for nothing else.             *)
LEMMA PrecedingIsClosed ==
  ASSUME NEW d \in Reactions
  PROVE  /\ Before[d] \subseteq Preceding[d]
         /\ \A b \in Preceding[d] : Before[b] \subseteq Preceding[d]
         /\ \A r \in Reactions : Before[d] = {r} => Preceding[d] \subseteq {r} \cup Preceding[r]
<1>1. Before[d] \subseteq Preceding[d]
  BY TablesTyped DEF Preceding
<1>2. ASSUME NEW b \in Preceding[d], NEW c \in Before[b]
      PROVE  c \in Preceding[d]
  <2>1. b \in Reactions /\ c \in Reactions
    BY TablesTyped DEF Preceding
  <2>2. ASSUME NEW S \in SUBSET Reactions, Before[d] \subseteq S,
               \A x \in S : Before[x] \subseteq S
        PROVE  c \in S
    <3>1. b \in S
      BY <2>2 DEF Preceding
    <3> QED
      BY <2>2, <3>1
  <2> QED
    BY <2>1, <2>2 DEF Preceding
<1>3. ASSUME NEW r \in Reactions, Before[d] = {r}
      PROVE  Preceding[d] \subseteq {r} \cup Preceding[r]
  <2> DEFINE S == {r} \cup Preceding[r]
  <2>1. S \in SUBSET Reactions /\ Before[d] \subseteq S
    BY <1>3 DEF Preceding
  <2>2. ASSUME NEW x \in S, NEW c \in Before[x]
        PROVE  c \in S
    <3>1. x \in Reactions /\ c \in Reactions
      BY <2>1, TablesTyped
    <3>2. ASSUME NEW T \in SUBSET Reactions, Before[r] \subseteq T,
                 \A y \in T : Before[y] \subseteq T
          PROVE  c \in T
      <4>1. x = r \/ x \in T
        BY <3>2 DEF Preceding
      <4> QED
        BY <3>2, <4>1
    <3> QED
      BY <3>1, <3>2 DEF Preceding
  <2> HIDE DEF S
  <2>3. ASSUME NEW b \in Preceding[d]
        PROVE  b \in S
    BY <2>1, <2>2 DEF Preceding
  <2> QED
    BY <2>3 DEF S
<1> QED
  BY <1>1, <1>2, <1>3

(* What r triggers waits for r.                                              *)
LEMMA DownstreamWaits ==
  ASSUME NEW r \in Reactions, NEW d \in Downstream(r)
  PROVE  d \in Reactions /\ r \in Before[d] /\ d # r /\ d # NULL
<1>1. PICK p \in Outputs[r] \cap is_present : d \in Readers[p]
  BY DEF Downstream
<1>2. p \in Ports /\ d \in Reactions
  BY <1>1, TablesTyped
<1>3. r \in Before[d]
  BY <1>1, <1>2, TablesAssumption DEF Writers
<1>4. Level[r] < Level[d] /\ Level[r] \in Nat
  BY <1>2, <1>3, TablesTyped, TablesAssumption
<1> QED
  BY <1>2, <1>3, <1>4, TablesTyped

(* What the loops find to trigger is not begun, when r has been executed.    *)
LEMMA DownstreamIsNew ==
  ASSUME ExecTypeOK, OrderInv, NEW w \in Workers, current[w] # NULL,
         NEW d \in Downstream(current[w])
  PROVE  ~ Begun(d)
<1>1. current[w] \in Reactions
  BY DEF ExecTypeOK
<1>2. d \in Reactions /\ current[w] \in Preceding[d]
  BY <1>1, DownstreamWaits, PrecedingIsClosed
<1>3. Active(current[w])
  BY DEF Active
<1> QED
  BY <1>2, <1>3 DEF OrderInv

(* The steps of schedule_output_reactions, in two parts.                     *)
LEMMA ScheduleSplits ==
  ASSUME ExecTypeOK, WorkerInv, NEW w \in Workers, ScheduleOutputs(w)
  PROVE  LET r == current[w] IN
         /\ r \in Reactions /\ at[w] = "body" /\ todo[w] = Nothing
         /\ UNCHANGED <<presence, record, port, index, tags, todo, runs, wrote, roots>>
         /\ \/ Done(w) /\ queued' = queued \cup Downstream(r)
            \/ \E d \in Reactions :
                 /\ Downstream(r) = {d} /\ LastEnabling[d] = r
                 /\ queued' = queued /\ running' = running
                 /\ at' = [at EXCEPT ![w] = "invoke"] /\ current' = [current EXCEPT ![w] = d]
<1> DEFINE r == current[w]
           all == Considered(r)
<1>1. at[w] = "body" /\ r \in Reactions
  BY DEF ScheduleOutputs, WorkerInv, ExecTypeOK
<1>2. Found(r, Downstream(r), all)
  BY <1>1, ConsideredFinds
<1>3. CASE all.now = NULL
  <2>1. all.queue = Downstream(r)
    BY <1>2, <1>3 DEF Found
  <2> HIDE DEF all
  <2>2. Done(w) /\ queued' = queued \cup Downstream(r)
    BY <1>3, <2>1 DEF ScheduleOutputs, all
  <2> QED
    BY <1>1, <2>2 DEF ScheduleOutputs
<1>4. CASE all.now # NULL
  <2>1. /\ all.now \in Reactions /\ Downstream(r) = {all.now}
        /\ LastEnabling[all.now] = r /\ all.queue = {}
    BY <1>2, <1>4 DEF Found
  <2>2. /\ queued' = queued \cup all.queue /\ UNCHANGED running
        /\ at' = [at EXCEPT ![w] = "invoke"] /\ current' = [current EXCEPT ![w] = all.now]
    BY <1>4 DEF ScheduleOutputs
  <2> HIDE DEF all
  <2>3. queued' = queued
    BY <2>1, <2>2
  <2> QED
    BY <1>1, <2>1, <2>2, <2>3 DEF ScheduleOutputs
<1> QED
  BY <1>3, <1>4

-----------------------------------------------------------------------------
(* Steps *)

Body == Locations \ {"idle", "invoke"}

BodyStep(w) == MakeCopy(w) \/ (\E p \in Ports : BeginWrite(w, p)) \/ Write(w)

(* The locations of writable_copy. *)
Copying == {"copy", "count", "peek", "pop"}

(* A step of writable_copy leaves the ports alone.                           *)
LEMMA CopySteps ==
  ASSUME NEW w \in Workers, MakeCopy(w)
  PROVE  /\ at[w] \in Copying /\ current[w] # NULL
         /\ \E to \in {"count", "peek", "pop", "body"} : at' = [at EXCEPT ![w] = to]
         /\ UNCHANGED <<is_present, abbreviated, abbreviated_size, record_size, channels, port,
                        index, port_token, tags, queued, running, current, todo, runs, wrote,
                        roots>>
         /\ copy' = copy \/ \E c : copy' = [copy EXCEPT ![w] = c]
<1>1. /\ TestCopy(w, Mutable[current[w]]) \/ CountCopy(w) \/ PeekBin(w) \/ PopCopy(w)
      /\ current[w] # NULL
      /\ UNCHANGED <<tags, queued, running, current, todo, runs, wrote, roots>>
  BY DEF MakeCopy, execVars
<1> DEFINE Stepped ==
      /\ at[w] \in Copying
      /\ \E to \in {"count", "peek", "pop", "body"} : at' = [at EXCEPT ![w] = to]
      /\ UNCHANGED <<presence, record, port, index, port_token>>
      /\ copy' = copy \/ \E c : copy' = [copy EXCEPT ![w] = c]
<1>2. TestCopy(w, Mutable[current[w]]) => Stepped
  BY DEF TestCopy, Goto, Copying, tokenVars
<1>3. CountCopy(w) => Stepped
  BY DEF CountCopy, Goto, Copying
<1>4. PeekBin(w) => Stepped
  BY DEF PeekBin, Goto, Copying, tokenVars
<1>5. PopCopy(w) => Stepped
  BY DEF PopCopy, Goto, Copying
<1>6. Stepped
  BY <1>1, <1>2, <1>3, <1>4, <1>5
<1> QED
  BY <1>1, <1>6 DEF presence, record

(* A step of a body changes nothing that the scheduler knows.                *)
LEMMA BodySteps ==
  ASSUME NEW w \in Workers, BodyStep(w)
  PROVE  /\ at[w] \in Body /\ \E to \in Body : at' = [at EXCEPT ![w] = to]
         /\ UNCHANGED <<tags, queued, running, current, runs, roots>>
<1>1. CASE MakeCopy(w)
  BY <1>1, CopySteps DEF Copying, Body, Locations
<1>2. CASE \E p \in Ports : BeginWrite(w, p)
  BY <1>2 DEF BeginWrite, CountPresent, Goto, Body, Locations
<1>3. CASE Write(w)
  BY <1>3 DEF Write, Mark, CountChannel, StoreChannel, SetToken, Goto, Body, Locations, execVars
<1> QED
  BY <1>1, <1>2, <1>3 DEF BodyStep

(* The kinds of steps.                                                       *)
LEMMA StepKinds ==
  ASSUME [Next]_vars
  PROVE  \/ \E w \in Workers : \/ \E r \in Reactions : GetReady(w, r)
                               \/ Run(w) \/ Skip(w) \/ BodyStep(w) \/ ScheduleOutputs(w)
         \/ AdvanceTag
         \/ UNCHANGED vars
BY DEF Next, WorkerStep, Finished, BodyStep

-----------------------------------------------------------------------------
(* The initial state, without the store. *)
LEMMA InitFacts ==
  ASSUME Init
  PROVE  /\ is_present = {} /\ abbreviated_size = 0 /\ record_size = 0
         /\ abbreviated = [i \in 0 .. FieldsSize - 1 |-> NULL]
         /\ channels = [i \in 0 .. Capacity - 1 |-> NULL]
         /\ port = [w \in Workers |-> NULL] /\ index = [w \in Workers |-> 0]
         /\ wrote = {} /\ roots = {} /\ queued = {}
         /\ \A w \in Workers : at[w] = "idle" /\ todo[w] = Nothing
<1>1. /\ is_present = {} /\ abbreviated_size = 0 /\ record_size = 0
      /\ abbreviated = [i \in 0 .. FieldsSize - 1 |-> NULL]
      /\ channels = [i \in 0 .. Capacity - 1 |-> NULL]
      /\ port = [w \in Workers |-> NULL] /\ index = [w \in Workers |-> 0]
  BY Zenon DEF Init, PortsInit
<1>2. /\ wrote = {} /\ roots = {} /\ queued = {}
      /\ \A w \in Workers : at[w] = "idle" /\ todo[w] = Nothing
  BY DEF Init
<1> QED
  BY <1>1, <1>2

(* The invariant is preserved, part by part. *)

(* When no worker is about to write a slot, all that is present is cleared.  *)
LEMMA IdleListIsComplete ==
  ASSUME PresenceTypeOK, SlotsInv
  PROVE  is_present \subseteq Cleared
<1>1. CASE abbreviated_size > FieldsSize
  BY <1>1 DEF Cleared, PresenceTypeOK
<1>2. CASE ~ (abbreviated_size > FieldsSize)
  <2>1. FieldsSize \in Nat /\ abbreviated_size \in Nat
    BY PortsAssumption, FS_CardinalityType DEF FieldsSize, PresenceTypeOK
  <2>2. ASSUME NEW p \in is_present
        PROVE  \E i \in 0 .. abbreviated_size - 1 : abbreviated[i] = p
    <3>1. Listed(p)
      BY <1>2, <2>1 DEF SlotsInv
    <3>2. PICK i \in 0 .. FieldsSize - 1 : i < abbreviated_size /\ abbreviated[i] = p
      BY <3>1 DEF Listed
    <3> QED
      BY <2>1, <3>2
  <2> QED
    BY <1>2, <2>2 DEF Cleared
<1> QED
  BY <1>1, <1>2

(* The ports written.                                                        *)
LEMMA PresenceTypeNext ==
  ASSUME EInv, [Next]_vars
  PROVE  PresenceTypeOK'
<1> USE DEF EInv
<1>1. FieldsSize \in Nat
  BY PortsAssumption, FS_CardinalityType DEF FieldsSize
<1>2. ASSUME NEW w \in Workers, MakeCopy(w) \/ ScheduleOutputs(w) \/ Run(w) \/ Skip(w)
                                \/ \E r \in Reactions : GetReady(w, r)
      PROVE  UNCHANGED <<presence, record, port, index>>
  BY <1>2, CopySteps DEF ScheduleOutputs, Run, Skip, GetReady, portVars, locals, presence, record
<1>3. ASSUME NEW w \in Workers, NEW p \in Ports, BeginWrite(w, p)
      PROVE  PresenceTypeOK'
  BY <1>3 DEF BeginWrite, CountPresent, PresenceTypeOK, record
<1>4. ASSUME NEW w \in Workers, Mark(w)
      PROVE  PresenceTypeOK'
  <2>1. port[w] \in Ports
    <3>1. at[w] = "mark" /\ current[w] \in Reactions
      BY <1>4 DEF Mark, Goto, WorkerInv, ExecTypeOK
    <3>2. port[w] \in Outputs[current[w]]
      BY <3>1 DEF WriteInv, Writing
    <3> QED
      BY <3>1, <3>2, TablesTyped
  <2>2. abbreviated' \in [0 .. FieldsSize - 1 -> Ports \cup {NULL}]
    <3>1. abbreviated' \in {abbreviated, [abbreviated EXCEPT ![index[w]] = port[w]]}
      BY <1>4 DEF Mark
    <3> QED
      BY <2>1, <3>1 DEF PresenceTypeOK
  <2>3. is_present' \subseteq Ports
    BY <1>4, <2>1 DEF Mark, PresenceTypeOK
  <2> QED
    BY <1>4, <2>2, <2>3 DEF Mark, PresenceTypeOK, record, locals, copyVars, FieldsSize
<1>5. ASSUME NEW w \in Workers, CountChannel(w)
      PROVE  PresenceTypeOK'
  BY <1>5 DEF CountChannel, PresenceTypeOK, presence, FieldsSize
<1>6. ASSUME NEW w \in Workers, StoreChannel(w)
      PROVE  PresenceTypeOK'
  <2>1. Channel[port[w]] \in Nat
    <3>1. at[w] = "channel" /\ current[w] \in Reactions
      BY <1>6 DEF StoreChannel, Goto, WorkerInv, ExecTypeOK
    <3>2. port[w] \in Outputs[current[w]] /\ Channel[port[w]] >= 0
      BY <3>1 DEF WriteInv, Writing
    <3>3. port[w] \in Ports
      BY <3>1, <3>2, TablesTyped
    <3> QED
      BY <3>2, <3>3, PortsAssumption
  <2>2. /\ record_size' \in {record_size, -1}
        /\ channels' \in {channels, [channels EXCEPT ![index[w]] = Channel[port[w]]]}
    BY <1>6 DEF StoreChannel
  <2>3. channels' \in [0 .. Capacity - 1 -> Nat \cup {NULL}]
    BY <2>1, <2>2 DEF PresenceTypeOK
  <2> QED
    BY <1>6, <2>2, <2>3 DEF StoreChannel, PresenceTypeOK, presence, locals, copyVars, FieldsSize
<1>7. ASSUME NEW w \in Workers, SetToken(w)
      PROVE  PresenceTypeOK'
  BY <1>7 DEF SetToken, PresenceTypeOK, presence, record, FieldsSize
<1>8. CASE AdvanceTag
  BY <1>8 DEF AdvanceTag, StartTimeStep, PresenceTypeOK, locals, copyVars, FieldsSize
<1>9. ASSUME UNCHANGED <<presence, record, port, index>>
      PROVE  PresenceTypeOK'
  BY <1>9 DEF PresenceTypeOK, presence, record, FieldsSize
<1>10. ASSUME UNCHANGED vars
       PROVE  UNCHANGED <<presence, record, port, index>>
  BY <1>10 DEF vars, portVars, locals, copyVars
<1> QED
  BY <1>2, <1>3, <1>4, <1>5, <1>6, <1>7, <1>8, <1>9, <1>10, StepKinds DEF BodyStep, Write

(* The scheduler and the workers.                                            *)
LEMMA ExecTypeNext ==
  ASSUME EInv, [Next]_vars
  PROVE  ExecTypeOK'
<1> USE DEF EInv
<1>1. ASSUME NEW w \in Workers, NEW r \in Reactions, GetReady(w, r)
      PROVE  ExecTypeOK'
  BY <1>1 DEF GetReady, Goto, ExecTypeOK, Locations
<1>2. ASSUME NEW w \in Workers, Run(w)
      PROVE  ExecTypeOK'
  <2>1. PICK n \in [Ports -> 0 .. 2] : todo' = [todo EXCEPT ![w] = n]
    BY <1>2 DEF Run
  <2>2. todo' \in [Workers -> [Ports -> Nat]]
    <3>1. n \in [Ports -> Nat]
      OBVIOUS
    <3> QED
      BY <2>1, <3>1 DEF ExecTypeOK
  <2>3. at' \in [Workers -> Locations]
    BY <1>2 DEF Run, Goto, ExecTypeOK, Locations
  <2>4. current[w] \in Reactions
    BY <1>2 DEF Run, Goto, WorkerInv, ExecTypeOK
  <2>5. runs' \in [Reactions -> Nat]
    BY <1>2, <2>4 DEF Run, ExecTypeOK
  <2> QED
    BY <1>2, <2>2, <2>3, <2>5 DEF Run, ExecTypeOK
<1>3. ASSUME NEW w \in Workers, Skip(w)
      PROVE  ExecTypeOK'
  <2>1. current[w] \in Reactions
    BY <1>3 DEF Skip, WorkerInv, ExecTypeOK
  <2> QED
    BY <1>3, <2>1 DEF Skip, Done, ExecTypeOK, Locations
<1>4. ASSUME NEW w \in Workers, BodyStep(w)
      PROVE  ExecTypeOK'
  <2>1. at' \in [Workers -> Locations]
    BY <1>4, BodySteps DEF ExecTypeOK, Body
  <2>2. todo' \in [Workers -> [Ports -> Nat]] /\ wrote' \subseteq Ports
    <3>1. ASSUME NEW p \in Ports, BeginWrite(w, p)
          PROVE  todo' \in [Workers -> [Ports -> Nat]] /\ wrote' \subseteq Ports
      <4>1. todo[w] \in [Ports -> Nat] /\ todo[w][p] - 1 \in Nat
        BY <3>1 DEF BeginWrite, ExecTypeOK
      <4>2. [todo[w] EXCEPT ![p] = todo[w][p] - 1] \in [Ports -> Nat]
        BY <4>1
      <4>3. todo' = [todo EXCEPT ![w] = [todo[w] EXCEPT ![p] = todo[w][p] - 1]]
        BY <3>1, <4>1 DEF BeginWrite, ExecTypeOK
      <4> QED
        BY <3>1, <4>2, <4>3 DEF BeginWrite, ExecTypeOK
    <3>2. ASSUME MakeCopy(w) \/ Write(w)
          PROVE  UNCHANGED <<todo, wrote>>
      BY <3>2 DEF MakeCopy, Write, execVars
    <3> QED
      BY <1>4, <3>1, <3>2 DEF BodyStep, ExecTypeOK
  <2> QED
    BY <1>4, <2>1, <2>2, BodySteps DEF ExecTypeOK
<1>5. ASSUME NEW w \in Workers, ScheduleOutputs(w)
      PROVE  ExecTypeOK'
  <2>1. Downstream(current[w]) \subseteq Reactions
    BY <1>5, ScheduleSplits, DownstreamWaits
  <2>2. queued' \subseteq Reactions
    BY <1>5, <2>1, ScheduleSplits DEF ExecTypeOK
  <2>3. UNCHANGED <<tags, todo, runs, wrote, roots>>
    BY <1>5 DEF ScheduleOutputs
  <2>4. /\ at' \in [Workers -> Locations] /\ running' \in [Workers -> Reactions \cup {NULL}]
        /\ current' \in [Workers -> Reactions \cup {NULL}]
    <3>1. CASE Done(w)
      BY <3>1 DEF Done, ExecTypeOK, Locations
    <3>2. ASSUME NEW d \in Reactions, running' = running, at' = [at EXCEPT ![w] = "invoke"],
                 current' = [current EXCEPT ![w] = d]
          PROVE  /\ at' \in [Workers -> Locations]
                 /\ running' \in [Workers -> Reactions \cup {NULL}]
                 /\ current' \in [Workers -> Reactions \cup {NULL}]
      BY <3>2 DEF ExecTypeOK, Locations
    <3> QED
      BY <1>5, <3>1, <3>2, ScheduleSplits
  <2> QED
    BY <2>2, <2>3, <2>4 DEF ExecTypeOK
<1>6. CASE AdvanceTag
  <2>1. roots' \subseteq Reactions /\ queued' \subseteq Reactions
    BY <1>6, TablesTyped DEF AdvanceTag
  <2>2. tags' \in 0 .. MaxTags
    BY <1>6, TablesTyped DEF AdvanceTag, ExecTypeOK
  <2> QED
    BY <1>6, <2>1, <2>2 DEF AdvanceTag, ExecTypeOK
<1>7. CASE UNCHANGED vars
  BY <1>7 DEF vars, execVars, ExecTypeOK
<1> QED
  BY <1>1, <1>2, <1>3, <1>4, <1>5, <1>6, <1>7, StepKinds

(* The places of the reactions, and their order.                             *)
LEMMA OrderNext ==
  ASSUME EInv, [Next]_vars
  PROVE  WorkerInv' /\ RunsInv' /\ OrderInv'
<1> USE DEF EInv
<1>1. ASSUME NEW w \in Workers, NEW r \in Reactions, GetReady(w, r)
      PROVE  WorkerInv' /\ RunsInv' /\ OrderInv'
  <2>1. /\ at[w] = "idle" /\ running[w] = NULL /\ r \in queued /\ r # NULL
        /\ queued' = queued \ {r}
        /\ at' = [at EXCEPT ![w] = "invoke"]
        /\ running' = [running EXCEPT ![w] = r] /\ current' = [current EXCEPT ![w] = r]
        /\ UNCHANGED runs
    BY <1>1, TablesTyped DEF GetReady, Goto
  <2>2. WorkerInv'
    BY <2>1, TablesTyped DEF WorkerInv, ExecTypeOK
  <2>3. RunsInv'
    BY <2>1, <2>2 DEF RunsInv, ExecTypeOK, WorkerInv
  <2>4. ASSUME NEW b \in Reactions, Active(b)
        PROVE  Level[r] <= Level[b]
    <3>1. CASE b \in queued
      BY <1>1, <3>1 DEF GetReady
    <3>2. CASE \E v \in Workers : current[v] = b
      <4>1. PICK v \in Workers : current[v] = b /\ b # NULL
        BY <3>2, TablesTyped
      <4>2. running[v] # NULL /\ Level[running[v]] <= Level[b]
        BY <4>1 DEF WorkerInv
      <4>3. Level[r] <= Level[running[v]]
        BY <1>1, <4>2 DEF GetReady, Executing
      <4>4. Level[r] \in Nat /\ Level[running[v]] \in Nat /\ Level[b] \in Nat
        BY <4>1, <4>2, TablesTyped DEF ExecTypeOK
      <4> QED
        BY <4>2, <4>3, <4>4
    <3> QED
      BY <2>4, <3>1, <3>2 DEF Active
  <2>5. ASSUME NEW b \in Reactions, Active(b)'
        PROVE  Active(b)
    BY <2>1, <2>5 DEF Active, ExecTypeOK
  <2>6. ASSUME NEW d \in Reactions, Begun(d)', NEW b \in Preceding[d], Active(b)'
        PROVE  FALSE
    <3>1. b \in Reactions /\ Level[b] < Level[d] /\ Active(b)
      BY <2>5, <2>6, PrecedingIsLower
    <3>2. Begun(d) \/ d = r
      BY <2>1, <2>6 DEF Begun, ExecTypeOK
    <3>3. CASE Begun(d)
      BY <3>1, <3>3 DEF OrderInv
    <3>4. CASE d = r
      <4>1. Level[r] <= Level[b]
        BY <2>4, <3>1
      <4> QED
        BY <3>1, <3>4, <4>1, TablesTyped
    <3> QED
      BY <3>2, <3>3, <3>4
  <2> QED
    BY <2>2, <2>3, <2>6 DEF OrderInv
<1>2. ASSUME NEW w \in Workers, Run(w)
      PROVE  WorkerInv' /\ RunsInv' /\ OrderInv'
  <2>1. /\ at[w] = "invoke" /\ at' \in {[at EXCEPT ![w] = "copy"], [at EXCEPT ![w] = "body"]}
        /\ runs' = [runs EXCEPT ![current[w]] = runs[current[w]] + 1]
        /\ UNCHANGED <<queued, running, current>>
    BY <1>2 DEF Run, Goto
  <2>2. current[w] \in Reactions /\ current[w] # NULL /\ runs[current[w]] = 0
    BY <2>1, TablesTyped DEF WorkerInv, RunsInv, ExecTypeOK
  <2>3. WorkerInv'
    BY <2>1 DEF WorkerInv, ExecTypeOK
  <2>4. /\ runs'[current[w]] = 1
        /\ \A r \in Reactions \ {current[w]} : runs'[r] = runs[r]
    BY <2>1, <2>2 DEF ExecTypeOK
  <2>5. /\ at'[w] \notin {"idle", "invoke"}
        /\ \A v \in Workers \ {w} : at'[v] = at[v]
    BY <2>1 DEF ExecTypeOK
  <2>6. RunsInv'
    <3>1. \A r \in queued' : runs'[r] = 0 /\ \A v \in Workers : current'[v] # r
      BY <2>1, <2>2, <2>4 DEF RunsInv, ExecTypeOK
    <3>2. \A v \in Workers : at'[v] = "invoke" => runs'[current'[v]] = 0
      BY <2>1, <2>2, <2>4, <2>5 DEF RunsInv, ExecTypeOK, WorkerInv
    <3>3. \A v \in Workers : at'[v] \notin {"idle", "invoke"} => runs'[current'[v]] = 1
      BY <2>1, <2>2, <2>4, <2>5 DEF RunsInv, ExecTypeOK, WorkerInv
    <3>4. \A r \in Reactions : runs'[r] <= 1
      BY <2>4 DEF RunsInv
    <3> QED
      BY <2>1, <3>1, <3>2, <3>3, <3>4 DEF RunsInv
  <2>7. ASSUME NEW d \in Reactions
        PROVE  (Active(d)' <=> Active(d)) /\ (Begun(d)' => Begun(d))
    BY <2>1, <2>4 DEF Active, Begun
  <2>8. OrderInv'
    <3> SUFFICES ASSUME NEW d \in Reactions, Begun(d)', NEW b \in Preceding[d], Active(b)'
                 PROVE  FALSE
      BY DEF OrderInv
    <3> QED
      BY <2>7, PrecedingIsLower DEF OrderInv
  <2> QED
    BY <2>3, <2>6, <2>8
<1>3. ASSUME NEW w \in Workers, Skip(w)
      PROVE  WorkerInv' /\ RunsInv' /\ OrderInv'
  <2>1. /\ at[w] = "invoke" /\ at' = [at EXCEPT ![w] = "idle"]
        /\ running' = [running EXCEPT ![w] = NULL] /\ current' = [current EXCEPT ![w] = NULL]
        /\ runs' = [runs EXCEPT ![current[w]] = runs[current[w]] + 1]
        /\ UNCHANGED queued
    BY <1>3 DEF Skip, Done
  <2>2. current[w] \in Reactions /\ current[w] # NULL /\ runs[current[w]] = 0
    BY <2>1, TablesTyped DEF WorkerInv, RunsInv, ExecTypeOK
  <2>3. WorkerInv'
    BY <2>1 DEF WorkerInv, ExecTypeOK
  <2>4. /\ runs'[current[w]] = 1
        /\ \A r \in Reactions \ {current[w]} : runs'[r] = runs[r]
    BY <2>1, <2>2 DEF ExecTypeOK
  <2>5. /\ at'[w] = "idle" /\ current'[w] = NULL
        /\ \A v \in Workers \ {w} : at'[v] = at[v] /\ current'[v] = current[v]
    BY <2>1 DEF ExecTypeOK
  <2>6. RunsInv'
    <3>1. \A r \in queued' : runs'[r] = 0 /\ \A v \in Workers : current'[v] # r
      BY <2>1, <2>2, <2>4, <2>5, TablesTyped DEF RunsInv, ExecTypeOK
    <3>2. ASSUME NEW v \in Workers \ {w}, at'[v] # "idle"
          PROVE  current'[v] \in Reactions /\ runs'[current'[v]] = runs[current[v]]
      BY <2>2, <2>4, <2>5, <3>2 DEF RunsInv, WorkerInv, ExecTypeOK
    <3>3. \A v \in Workers : at'[v] = "invoke" => runs'[current'[v]] = 0
      BY <2>5, <3>2 DEF RunsInv
    <3>4. \A v \in Workers : at'[v] \notin {"idle", "invoke"} => runs'[current'[v]] = 1
      BY <2>5, <3>2 DEF RunsInv
    <3>5. \A r \in Reactions : runs'[r] <= 1
      BY <2>4 DEF RunsInv
    <3>6. \A u, v \in Workers : current'[u] # NULL /\ current'[u] = current'[v] => u = v
      BY <2>5 DEF RunsInv
    <3> QED
      BY <3>1, <3>3, <3>4, <3>5, <3>6 DEF RunsInv
  <2>7. ASSUME NEW d \in Reactions
        PROVE  (Active(d)' => Active(d)) /\ (Begun(d)' => Begun(d))
    BY <2>1, <2>4, <2>5, TablesTyped DEF Active, Begun
  <2>8. OrderInv'
    <3> SUFFICES ASSUME NEW d \in Reactions, Begun(d)', NEW b \in Preceding[d], Active(b)'
                 PROVE  FALSE
      BY DEF OrderInv
    <3> QED
      BY <2>7, PrecedingIsLower DEF OrderInv
  <2> QED
    BY <2>3, <2>6, <2>8
<1>4. ASSUME NEW w \in Workers, BodyStep(w)
      PROVE  WorkerInv' /\ RunsInv' /\ OrderInv'
  <2>1. PICK to \in Body : at' = [at EXCEPT ![w] = to]
    BY <1>4, BodySteps
  <2>2. at[w] \in Body /\ UNCHANGED <<queued, running, current, runs>>
    BY <1>4, BodySteps
  <2>3. /\ at'[w] \notin {"idle", "invoke"} /\ at[w] \notin {"idle", "invoke"}
        /\ \A v \in Workers \ {w} : at'[v] = at[v]
    BY <2>1, <2>2 DEF ExecTypeOK, Body
  <2>4. WorkerInv'
    BY <2>2, <2>3 DEF WorkerInv
  <2>5. RunsInv'
    BY <2>2, <2>3 DEF RunsInv
  <2>6. OrderInv'
    BY <2>2 DEF OrderInv, Active, Begun
  <2> QED
    BY <2>4, <2>5, <2>6
<1>5. ASSUME NEW w \in Workers, ScheduleOutputs(w)
      PROVE  WorkerInv' /\ RunsInv' /\ OrderInv'
  <2> DEFINE r == current[w]
  <2>1. r \in Reactions /\ r # NULL /\ at[w] = "body" /\ runs[r] = 1 /\ UNCHANGED runs
    BY <1>5, ScheduleSplits, TablesTyped DEF RunsInv
  <2>2. \A d \in Downstream(r) : /\ d \in Reactions /\ r \in Before[d] /\ d # r /\ d # NULL
                                 /\ ~ Begun(d)
    BY <2>1, DownstreamWaits, DownstreamIsNew
  <2>3. ASSUME NEW d \in Reactions, Active(d)'
        PROVE  (Active(d) \/ d \in Downstream(r)) /\ d # r
    <3>1. r \notin queued /\ r \notin Downstream(r)
      BY <2>1, <2>2 DEF RunsInv
    <3>2. CASE Done(w) /\ queued' = queued \cup Downstream(r)
      <4>1. current' = [current EXCEPT ![w] = NULL]
        BY <3>2 DEF Done
      <4>2. \A v \in Workers : current'[v] = d => v # w /\ current[v] = d
        BY <4>1, TablesTyped DEF ExecTypeOK
      <4>3. \A v \in Workers \ {w} : current[v] # r
        BY <2>1 DEF RunsInv
      <4> QED
        BY <2>3, <3>1, <3>2, <4>2, <4>3 DEF Active
    <3>3. CASE \E e \in Reactions : /\ Downstream(r) = {e} /\ queued' = queued
                                    /\ current' = [current EXCEPT ![w] = e]
      <4>1. PICK e \in Reactions : /\ Downstream(r) = {e} /\ queued' = queued
                                   /\ current' = [current EXCEPT ![w] = e]
        BY <3>3
      <4>2. \A v \in Workers : current'[v] = d => d = e \/ (v # w /\ current[v] = d)
        BY <4>1 DEF ExecTypeOK
      <4>3. \A v \in Workers \ {w} : current[v] # r
        BY <2>1 DEF RunsInv
      <4>4. e \in Downstream(r)
        BY <4>1
      <4> QED
        BY <2>3, <3>1, <4>1, <4>2, <4>3, <4>4 DEF Active
    <3> QED
      BY <1>5, <3>2, <3>3, ScheduleSplits
  <2>4. OrderInv'
    <3> SUFFICES ASSUME NEW d \in Reactions, Begun(d)', NEW b \in Preceding[d], Active(b)'
                 PROVE  FALSE
      BY DEF OrderInv
    <3>1. b \in Reactions /\ b # r /\ (Active(b) \/ b \in Downstream(r))
      BY <2>3, PrecedingIsLower
    <3>2. Active(r) /\ Begun(r)
      BY <2>1 DEF Active, Begun
    <3>3. CASE Begun(d)
      <4>1. b \in Downstream(r)
        BY <3>1, <3>3 DEF OrderInv
      <4>2. r \in Preceding[d]
        BY <2>2, <4>1, PrecedingIsClosed
      <4> QED
        BY <3>2, <3>3, <4>2 DEF OrderInv
    <3>4. CASE ~ Begun(d)
      <4>1. \E v \in Workers : current'[v] = d
        BY <2>1, <3>4 DEF Begun
      <4>2. ~ Done(w)
        <5>1. ASSUME Done(w)
              PROVE  FALSE
          <6>1. current' = [current EXCEPT ![w] = NULL]
            BY <5>1 DEF Done
          <6>2. \A v \in Workers : current'[v] = d => current[v] = d
            BY <6>1, TablesTyped DEF ExecTypeOK
          <6> QED
            BY <3>4, <4>1, <6>2 DEF Begun
        <5> QED
          BY <5>1
      <4>3. PICK e \in Reactions : /\ Downstream(r) = {e} /\ LastEnabling[e] = r
                                   /\ queued' = queued
                                   /\ current' = [current EXCEPT ![w] = e]
        BY <1>5, <4>2, ScheduleSplits
      <4>4. d = e
        BY <3>4, <4>1, <4>3 DEF Begun, ExecTypeOK
      <4>5. Before[d] = {r}
        BY <2>1, <4>3, <4>4, TablesAssumption
      <4>6. b \in Preceding[r]
        BY <2>1, <3>1, <4>5, PrecedingIsClosed
      <4>7. CASE Active(b)
        BY <2>1, <3>2, <4>6, <4>7 DEF OrderInv
      <4>8. CASE b \in Downstream(r)
        <5>1. r \in Before[b]
          BY <2>2, <4>8
        <5>2. r \in Preceding[r]
          BY <2>1, <4>6, <5>1, PrecedingIsClosed
        <5> QED
          BY <2>1, <3>2, <5>2 DEF OrderInv
      <4> QED
        BY <3>1, <4>7, <4>8
    <3> QED
      BY <3>3, <3>4
  <2>5. CASE Done(w) /\ queued' = queued \cup Downstream(r)
    <3>1. /\ at' = [at EXCEPT ![w] = "idle"]
          /\ running' = [running EXCEPT ![w] = NULL] /\ current' = [current EXCEPT ![w] = NULL]
      BY <2>5 DEF Done
    <3>2. WorkerInv'
      BY <3>1 DEF WorkerInv, ExecTypeOK
    <3>3. /\ at'[w] = "idle" /\ current'[w] = NULL
          /\ \A v \in Workers \ {w} : at'[v] = at[v] /\ current'[v] = current[v]
      BY <3>1 DEF ExecTypeOK
    <3>4. \A d \in Downstream(r) : runs[d] = 0 /\ \A v \in Workers : current[v] # d
      BY <2>2 DEF Begun, ExecTypeOK
    <3>5. \A d \in queued' : runs[d] = 0 /\ \A v \in Workers : current'[v] # d
      BY <2>2, <2>5, <3>3, <3>4, TablesTyped DEF RunsInv, ExecTypeOK
    <3>6. RunsInv'
      BY <2>1, <3>3, <3>5 DEF RunsInv
    <3> QED
      BY <2>4, <3>2, <3>6
  <2>6. ASSUME NEW e \in Reactions, Downstream(r) = {e}, LastEnabling[e] = r,
               queued' = queued, running' = running,
               at' = [at EXCEPT ![w] = "invoke"], current' = [current EXCEPT ![w] = e]
        PROVE  WorkerInv' /\ RunsInv' /\ OrderInv'
    <3>1. e \in Downstream(r)
      BY <2>6
    <3>2. r \in Before[e] /\ e # NULL /\ ~ Begun(e)
      BY <2>2, <3>1
    <3>3. /\ at'[w] = "invoke" /\ current'[w] = e
          /\ \A v \in Workers \ {w} : at'[v] = at[v] /\ current'[v] = current[v]
      BY <2>6 DEF ExecTypeOK
    <3>4. WorkerInv'
      <4>1. running[w] # NULL /\ Level[running[w]] <= Level[r]
        BY <2>1 DEF WorkerInv
      <4>2. /\ Level[running[w]] \in Nat /\ Level[r] \in Nat /\ Level[e] \in Nat
            /\ Level[r] < Level[e]
        BY <2>1, <3>2, <4>1, TablesTyped, TablesAssumption DEF ExecTypeOK
      <4>3. Level[running[w]] <= Level[e]
        BY <4>1, <4>2
      <4> QED
        BY <2>6, <3>2, <3>3, <4>1, <4>3 DEF WorkerInv
    <3>5. e \notin queued /\ runs[e] = 0 /\ \A v \in Workers : current[v] # e
      <4>1. e \notin Timed /\ Before[e] = {r}
        BY <2>1, <2>6, TablesAssumption
      <4>2. e \notin queued
        BY <2>1, <4>1 DEF QueuedInv, Over
      <4> QED
        BY <3>2, <4>2 DEF Begun, ExecTypeOK
    <3>6. RunsInv'
      BY <2>1, <2>6, <3>3, <3>5 DEF RunsInv
    <3> QED
      BY <2>4, <3>4, <3>6
  <2> QED
    BY <1>5, <2>5, <2>6, ScheduleSplits
<1>6. CASE AdvanceTag
  <2>1. /\ queued' = roots' /\ queued' \subseteq Reactions
        /\ runs' = [r \in Reactions |-> 0] /\ UNCHANGED <<at, running, current>>
    BY <1>6, TablesTyped DEF AdvanceTag
  <2>2. \A w \in Workers : at[w] = "idle" /\ current[w] = NULL
    BY <1>6 DEF AdvanceTag, Quiet, WorkerInv
  <2>3. WorkerInv'
    BY <2>1 DEF WorkerInv
  <2>4. RunsInv'
    BY <2>1, <2>2, TablesTyped DEF RunsInv
  <2>5. OrderInv'
    BY <2>1, <2>2, TablesTyped DEF OrderInv, Begun
  <2> QED
    BY <2>3, <2>4, <2>5
<1>7. CASE UNCHANGED vars
  BY <1>7 DEF vars, execVars, WorkerInv, RunsInv, OrderInv, Active, Begun
<1> QED
  BY <1>1, <1>2, <1>3, <1>4, <1>5, <1>6, <1>7, StepKinds

(* Where the queued reactions come from.                                     *)
LEMMA QueuedNext ==
  ASSUME EInv, [Next]_vars
  PROVE  QueuedInv'
<1> USE DEF EInv
<1>1. ASSUME NEW b \in Reactions, Over(b), ~ AdvanceTag
      PROVE  Over(b)'
  <2>1. runs[b] > 0 /\ ~ (b \in queued) /\ \A w \in Workers : current[w] # b
    BY <1>1 DEF Over, RunsInv
  <2>2. ASSUME NEW w \in Workers, NEW r \in Reactions, GetReady(w, r)
        PROVE  Over(b)'
    BY <2>1, <2>2 DEF GetReady, Over, ExecTypeOK
  <2>3. ASSUME NEW w \in Workers, Run(w)
        PROVE  Over(b)'
    <3>1. current[w] # b /\ current' = current /\ runs'[b] = runs[b]
      BY <2>1, <2>3 DEF Run, ExecTypeOK
    <3> QED
      BY <2>1, <3>1 DEF Over
  <2>4. ASSUME NEW w \in Workers, Skip(w)
        PROVE  Over(b)'
    <3>1. current' = [current EXCEPT ![w] = NULL] /\ current[w] # b /\ runs'[b] = runs[b]
      BY <2>1, <2>4 DEF Skip, Done, ExecTypeOK
    <3> QED
      BY <2>1, <3>1, TablesTyped DEF Over, ExecTypeOK
  <2>5. ASSUME NEW w \in Workers, BodyStep(w)
        PROVE  Over(b)'
    BY <2>1, <2>5, BodySteps DEF Over
  <2>6. ASSUME NEW w \in Workers, ScheduleOutputs(w)
        PROVE  Over(b)'
    <3>1. runs' = runs /\ b # NULL
      BY <2>6, TablesTyped DEF ScheduleOutputs
    <3>2. CASE Done(w)
      BY <2>1, <3>1, <3>2 DEF Done, Over, ExecTypeOK
    <3>3. ASSUME NEW e \in Reactions, Downstream(current[w]) = {e},
                 current' = [current EXCEPT ![w] = e]
          PROVE  Over(b)'
      <4>1. current[w] # NULL
        BY <2>6, ScheduleSplits, TablesTyped
      <4>2. ~ Begun(e)
        BY <3>3, <4>1, DownstreamIsNew
      <4> QED
        BY <2>1, <3>1, <3>3, <4>2 DEF Over, Begun, ExecTypeOK
    <3> QED
      BY <2>6, <3>2, <3>3, ScheduleSplits
  <2>7. CASE UNCHANGED vars
    BY <2>1, <2>7 DEF vars, execVars, Over
  <2> QED
    BY <1>1, <2>2, <2>3, <2>4, <2>5, <2>6, <2>7, StepKinds
<1>2. ASSUME NEW w \in Workers, ScheduleOutputs(w), NEW d \in queued' \ queued
      PROVE  \E b \in Before[d] : Over(b)'
  <2> DEFINE r == current[w]
  <2>1. Done(w) /\ d \in Downstream(r) /\ r \in Reactions /\ runs' = runs
    BY <1>2, ScheduleSplits
  <2>2. r # NULL /\ r \in Before[d] /\ runs[r] = 1
    BY <1>2, <2>1, DownstreamWaits, TablesTyped DEF RunsInv, ScheduleOutputs
  <2>3. \A v \in Workers : current'[v] # r
    BY <2>1, <2>2 DEF Done, RunsInv, ExecTypeOK
  <2> QED
    BY <2>1, <2>2, <2>3 DEF Over
<1>3. CASE AdvanceTag
  BY <1>3 DEF AdvanceTag, QueuedInv
<1>4. ASSUME ~ AdvanceTag, ~ \E w \in Workers : ScheduleOutputs(w)
      PROVE  queued' \subseteq queued
  BY <1>4, StepKinds, BodySteps DEF GetReady, Run, Skip, vars, execVars
<1>5. \A d \in queued : Before[d] \subseteq Reactions
  BY TablesTyped DEF ExecTypeOK
<1> QED
  BY <1>1, <1>2, <1>3, <1>4, <1>5 DEF QueuedInv

(* What is written.                                                          *)
LEMMA WriteNext ==
  ASSUME EInv, [Next]_vars
  PROVE  WriteInv'
<1> USE DEF EInv
<1> DEFINE Local(v) ==
             /\ at[v] \in {"idle", "invoke"} => todo[v] = Nothing
             /\ \A p \in Ports : todo[v][p] > 0 => p \in Outputs[current[v]]
             /\ at[v] \in Writing \cup {"written"} => port[v] \in Outputs[current[v]]
             /\ at[v] \in Writing => port[v] \in wrote
             /\ at[v] \in {"sparse", "channel"} => Channel[port[v]] >= 0
<1>1. WriteInv <=> PresentIsFresh /\ \A v \in Workers : Local(v)
  BY DEF WriteInv
<1>2. WriteInv' <=> PresentIsFresh' /\ \A v \in Workers : Local(v)'
  BY DEF WriteInv
<1>3. \A p \in Ports : ~ (Nothing[p] > 0)
  BY DEF Nothing
<1>4. ASSUME NEW v \in Workers, at'[v] = at[v], todo'[v] = todo[v], current'[v] = current[v],
             port'[v] = port[v], wrote \subseteq wrote'
      PROVE  Local(v)'
  BY <1>1, <1>4
<1>5. ASSUME NEW w \in Workers, NEW r \in Reactions, GetReady(w, r)
      PROVE  WriteInv'
  <2>1. /\ at[w] = "idle" /\ at' = [at EXCEPT ![w] = "invoke"]
        /\ current' = [current EXCEPT ![w] = r]
        /\ UNCHANGED <<is_present, port, todo, wrote>>
    BY <1>5 DEF GetReady, Goto, portVars, presence, locals, copyVars
  <2>2. Local(w)'
    BY <1>1, <1>3, <2>1 DEF ExecTypeOK, Writing
  <2>3. \A v \in Workers \ {w} : at'[v] = at[v] /\ current'[v] = current[v]
    BY <2>1 DEF ExecTypeOK
  <2>4. PresentIsFresh'
    BY <1>1, <2>1 DEF PresentIsFresh
  <2> QED
    BY <1>2, <1>4, <2>1, <2>2, <2>3, <2>4
<1>6. ASSUME NEW w \in Workers, Run(w)
      PROVE  WriteInv'
  <2>1. /\ at[w] = "invoke" /\ at' \in {[at EXCEPT ![w] = "copy"], [at EXCEPT ![w] = "body"]}
        /\ UNCHANGED <<is_present, port, current, wrote>>
    BY <1>6 DEF Run, Goto, portVars, presence, locals, copyVars
  <2>2. PICK n \in [Ports -> 0 .. 2] :
          /\ \A p \in Ports : n[p] <= IF p \in Outputs[current[w]] THEN MaxWrites[p] ELSE 0
          /\ todo' = [todo EXCEPT ![w] = n]
    BY <1>6 DEF Run
  <2>3. todo'[w] = n
    BY <2>2 DEF ExecTypeOK
  <2>4. ASSUME NEW p \in Ports, n[p] > 0
        PROVE  p \in Outputs[current[w]]
    BY <2>2, <2>4
  <2>5. at'[w] \in {"copy", "body"} /\ \A v \in Workers \ {w} : at'[v] = at[v]
    BY <2>1 DEF ExecTypeOK
  <2>6. Local(w)'
    BY <2>1, <2>3, <2>4, <2>5 DEF Writing
  <2>7. PresentIsFresh'
    BY <1>1, <2>1 DEF PresentIsFresh
  <2>8. \A v \in Workers \ {w} : todo'[v] = todo[v]
    BY <2>2 DEF ExecTypeOK
  <2> QED
    BY <1>2, <1>4, <2>1, <2>5, <2>6, <2>7, <2>8
<1>7. ASSUME NEW w \in Workers, Skip(w)
      PROVE  WriteInv'
  <2>1. /\ at[w] = "invoke" /\ at' = [at EXCEPT ![w] = "idle"]
        /\ current' = [current EXCEPT ![w] = NULL]
        /\ UNCHANGED <<is_present, port, todo, wrote>>
    BY <1>7 DEF Skip, Done, portVars, presence, locals, copyVars
  <2>2. Local(w)'
    BY <1>1, <1>3, <2>1 DEF ExecTypeOK, Writing
  <2>3. \A v \in Workers \ {w} : at'[v] = at[v] /\ current'[v] = current[v]
    BY <2>1 DEF ExecTypeOK
  <2>4. PresentIsFresh'
    BY <1>1, <2>1 DEF PresentIsFresh
  <2> QED
    BY <1>2, <1>4, <2>1, <2>2, <2>3, <2>4
<1>8. ASSUME NEW w \in Workers, MakeCopy(w)
      PROVE  WriteInv'
  <2>1. /\ at[w] \in Copying
        /\ \E to \in {"count", "peek", "pop", "body"} : at' = [at EXCEPT ![w] = to]
        /\ UNCHANGED <<is_present, port, todo, current, wrote>>
    BY <1>8, CopySteps
  <2>2. at'[w] \in {"count", "peek", "pop", "body"} /\ \A v \in Workers \ {w} : at'[v] = at[v]
    BY <2>1 DEF ExecTypeOK
  <2>3. Local(w)'
    BY <1>1, <2>1, <2>2 DEF Writing, Copying
  <2>4. PresentIsFresh'
    BY <1>1, <2>1 DEF PresentIsFresh
  <2> QED
    BY <1>2, <1>4, <2>1, <2>2, <2>3, <2>4
<1>9. ASSUME NEW w \in Workers, NEW p \in Ports, BeginWrite(w, p)
      PROVE  WriteInv'
  <2>1. /\ at[w] = "body" /\ at' = [at EXCEPT ![w] = "mark"] /\ todo[w][p] > 0
        /\ port' = [port EXCEPT ![w] = p]
        /\ todo' = [todo EXCEPT ![w] = [todo[w] EXCEPT ![p] = todo[w][p] - 1]]
        /\ wrote' = wrote \cup {p}
        /\ UNCHANGED <<is_present, current>>
    BY <1>9 DEF BeginWrite, CountPresent, Goto, ExecTypeOK
  <2>2. p \in Outputs[current[w]]
    BY <1>1, <2>1
  <2>3. at'[w] = "mark" /\ port'[w] = p
    BY <2>1 DEF ExecTypeOK, PresenceTypeOK
  <2>4. ASSUME NEW q \in Ports, todo'[w][q] > 0
        PROVE  todo[w][q] > 0
    <3>1. todo[w] \in [Ports -> Nat] /\ todo'[w] = [todo[w] EXCEPT ![p] = todo[w][p] - 1]
      BY <2>1 DEF ExecTypeOK
    <3>2. CASE q = p
      BY <2>1, <3>2
    <3>3. CASE q # p
      BY <2>4, <3>1, <3>3
    <3> QED
      BY <3>2, <3>3
  <2>5. Local(w)'
    BY <1>1, <2>1, <2>2, <2>3, <2>4
  <2>6. \A v \in Workers \ {w} : at'[v] = at[v] /\ todo'[v] = todo[v] /\ port'[v] = port[v]
    BY <2>1 DEF ExecTypeOK, PresenceTypeOK
  <2>7. PresentIsFresh'
    BY <1>1, <2>1 DEF PresentIsFresh
  <2> QED
    BY <1>2, <1>4, <2>1, <2>5, <2>6, <2>7
<1>10. ASSUME NEW w \in Workers, Mark(w) \/ CountChannel(w) \/ StoreChannel(w),
              UNCHANGED execVars
       PROVE  WriteInv'
  <2>1. /\ at[w] \in Writing
        /\ \/ at' = [at EXCEPT ![w] = "sparse"] /\ Channel[port[w]] >= 0
           \/ at' = [at EXCEPT ![w] = "channel"] /\ at[w] = "sparse"
           \/ at' = [at EXCEPT ![w] = "written"]
        /\ is_present' \subseteq is_present \cup {port[w]}
        /\ UNCHANGED <<port, todo, current, wrote>>
    BY <1>10 DEF Mark, CountChannel, StoreChannel, Goto, Writing, presence, locals, copyVars,
                 execVars
  <2>2. /\ at'[w] \in {"sparse", "channel", "written"}
        /\ at'[w] \in {"sparse", "channel"} => Channel[port[w]] >= 0
        /\ \A v \in Workers \ {w} : at'[v] = at[v]
    BY <1>1, <2>1 DEF ExecTypeOK
  <2>3. port[w] \in Outputs[current[w]] /\ port[w] \in wrote
    BY <1>1, <2>1
  <2>4. Local(w)'
    BY <1>1, <2>1, <2>2, <2>3
  <2>5. PresentIsFresh'
    BY <1>1, <2>1, <2>3 DEF PresentIsFresh
  <2> QED
    BY <1>2, <1>4, <2>1, <2>2, <2>4, <2>5
<1>11. ASSUME NEW w \in Workers, SetToken(w), UNCHANGED execVars
       PROVE  WriteInv'
  <2>1. /\ at[w] = "written" /\ at' = [at EXCEPT ![w] = "body"]
        /\ port' = [port EXCEPT ![w] = NULL]
        /\ UNCHANGED <<is_present, todo, current, wrote>>
    BY <1>11 DEF SetToken, Goto, presence, execVars
  <2>2. /\ at'[w] = "body"
        /\ \A v \in Workers \ {w} : at'[v] = at[v] /\ port'[v] = port[v]
    BY <2>1 DEF ExecTypeOK, PresenceTypeOK
  <2>3. Local(w)'
    BY <1>1, <2>1, <2>2 DEF Writing
  <2>4. PresentIsFresh'
    BY <1>1, <2>1 DEF PresentIsFresh
  <2> QED
    BY <1>2, <1>4, <2>1, <2>2, <2>3, <2>4
<1>12. ASSUME NEW w \in Workers, ScheduleOutputs(w)
       PROVE  WriteInv'
  <2>1. /\ todo[w] = Nothing /\ UNCHANGED <<is_present, port, todo, wrote>>
        /\ \/ /\ at' = [at EXCEPT ![w] = "idle"]
              /\ current' = [current EXCEPT ![w] = NULL]
           \/ \E d \in Reactions : /\ at' = [at EXCEPT ![w] = "invoke"]
                                   /\ current' = [current EXCEPT ![w] = d]
    BY <1>12, ScheduleSplits DEF Done, presence
  <2>2. /\ at'[w] \in {"idle", "invoke"}
        /\ \A v \in Workers \ {w} : at'[v] = at[v] /\ current'[v] = current[v]
    BY <2>1 DEF ExecTypeOK
  <2>3. Local(w)'
    BY <1>3, <2>1, <2>2 DEF Writing
  <2>4. PresentIsFresh'
    BY <1>1, <2>1 DEF PresentIsFresh
  <2> QED
    BY <1>2, <1>4, <2>1, <2>2, <2>3, <2>4
<1>13. CASE AdvanceTag
  <2>1. /\ is_present' = is_present \ Cleared
        /\ UNCHANGED <<at, todo, current, port>>
        /\ \A v \in Workers : at[v] = "idle"
    BY <1>13 DEF AdvanceTag, StartTimeStep, Quiet, locals, copyVars
  <2>2. is_present \subseteq Cleared
    BY <2>1, IdleListIsComplete
  <2>3. PresentIsFresh'
    BY <2>1, <2>2 DEF PresentIsFresh
  <2>4. \A v \in Workers : Local(v)'
    BY <1>1, <2>1 DEF Writing
  <2> QED
    BY <1>2, <2>3, <2>4
<1>14. CASE UNCHANGED vars
  BY <1>14 DEF vars, portVars, presence, locals, copyVars, execVars, WriteInv, PresentIsFresh
<1> QED
  BY <1>5, <1>6, <1>7, <1>8, <1>9, <1>10, <1>11, <1>12, <1>13, <1>14, StepKinds
     DEF BodyStep, Write

(* The slots of the list.                                                    *)
LEMMA SlotsNext ==
  ASSUME EInv, [Next]_vars
  PROVE  SlotsInv'
<1> USE DEF EInv
<1>1. FieldsSize \in Nat /\ abbreviated_size \in Nat /\ FieldsSize' = FieldsSize
  BY PortsAssumption, FS_CardinalityType DEF FieldsSize, PresenceTypeOK
<1>2. ASSUME UNCHANGED <<is_present, abbreviated, abbreviated_size, index>>,
             \A w \in Workers : at'[w] = "mark" => at[w] = "mark"
      PROVE  SlotsInv'
  BY <1>1, <1>2 DEF SlotsInv, Listed
<1>3. ASSUME NEW w \in Workers, NEW p \in Ports, BeginWrite(w, p)
      PROVE  SlotsInv'
  <2>1. /\ at' = [at EXCEPT ![w] = "mark"] /\ index' = [index EXCEPT ![w] = abbreviated_size]
        /\ abbreviated_size' = abbreviated_size + 1
        /\ UNCHANGED <<is_present, abbreviated>>
    BY <1>3 DEF BeginWrite, CountPresent, Goto
  <2>2. /\ at'[w] = "mark" /\ index'[w] = abbreviated_size
        /\ \A v \in Workers \ {w} : at'[v] = at[v] /\ index'[v] = index[v]
    BY <2>1 DEF ExecTypeOK, PresenceTypeOK
  <2>3. \A v \in Workers : at'[v] = "mark" => index'[v] \in Nat /\ index'[v] < abbreviated_size'
    BY <1>1, <2>1, <2>2 DEF SlotsInv
  <2>4. \A u, v \in Workers :
          at'[u] = "mark" /\ at'[v] = "mark" /\ index'[u] = index'[v] => u = v
    BY <1>1, <2>2 DEF SlotsInv
  <2>5. ASSUME abbreviated_size' <= FieldsSize, NEW q \in is_present
        PROVE  Listed(q)'
    <3>1. abbreviated_size <= FieldsSize
      BY <1>1, <2>1, <2>5
    <3>2. PICK i \in 0 .. FieldsSize - 1 :
            /\ i < abbreviated_size /\ abbreviated[i] = q
            /\ \A v \in Workers : at[v] = "mark" => index[v] # i
      BY <2>5, <3>1 DEF SlotsInv, Listed
    <3>3. i < abbreviated_size' /\ \A v \in Workers : at'[v] = "mark" => index'[v] # i
      BY <1>1, <2>1, <2>2, <3>2
    <3> QED
      BY <1>1, <2>1, <3>2, <3>3 DEF Listed
  <2> QED
    BY <1>1, <2>1, <2>3, <2>4, <2>5 DEF SlotsInv
<1>4. ASSUME NEW w \in Workers, Mark(w)
      PROVE  SlotsInv'
  <2>1. /\ at[w] = "mark" /\ at' \in {[at EXCEPT ![w] = "sparse"], [at EXCEPT ![w] = "written"]}
        /\ abbreviated' = IF index[w] < FieldsSize THEN [abbreviated EXCEPT ![index[w]] = port[w]]
                          ELSE abbreviated
        /\ is_present' = is_present \cup {port[w]}
        /\ UNCHANGED <<abbreviated_size, index>>
    BY <1>4 DEF Mark, Goto, locals, copyVars
  <2>2. /\ at'[w] # "mark" /\ \A v \in Workers \ {w} : at'[v] = at[v]
    BY <2>1 DEF ExecTypeOK
  <2>3. index[w] \in Nat /\ index[w] < abbreviated_size
    BY <2>1 DEF SlotsInv
  <2>4. ASSUME abbreviated_size <= FieldsSize, NEW q \in is_present'
        PROVE  Listed(q)'
    <3>1. index[w] < FieldsSize /\ index[w] \in 0 .. FieldsSize - 1
      BY <1>1, <2>3, <2>4
    <3>2. /\ abbreviated'[index[w]] = port[w]
          /\ \A i \in 0 .. FieldsSize - 1 : i # index[w] => abbreviated'[i] = abbreviated[i]
      BY <2>1, <3>1 DEF PresenceTypeOK
    <3>3. CASE q = port[w]
      <4>1. \A v \in Workers : at'[v] = "mark" => index'[v] # index[w]
        BY <2>1, <2>2 DEF SlotsInv
      <4> QED
        BY <1>1, <2>1, <2>3, <3>1, <3>2, <3>3, <4>1 DEF Listed
    <3>4. CASE q \in is_present
      <4>1. PICK i \in 0 .. FieldsSize - 1 :
              /\ i < abbreviated_size /\ abbreviated[i] = q
              /\ \A v \in Workers : at[v] = "mark" => index[v] # i
        BY <2>4, <3>4 DEF SlotsInv, Listed
      <4>2. abbreviated'[i] = q /\ \A v \in Workers : at'[v] = "mark" => index'[v] # i
        BY <2>1, <2>2, <3>2, <4>1
      <4> QED
        BY <1>1, <2>1, <4>1, <4>2 DEF Listed
    <3> QED
      BY <2>1, <2>4, <3>3, <3>4
  <2> QED
    BY <1>1, <2>1, <2>2, <2>4 DEF SlotsInv
<1>5. ASSUME NEW w \in Workers, CountChannel(w)
      PROVE  SlotsInv'
  <2>1. /\ at[w] = "sparse" /\ at' = [at EXCEPT ![w] = "channel"]
        /\ index' = [index EXCEPT ![w] = record_size]
        /\ UNCHANGED <<is_present, abbreviated, abbreviated_size>>
    BY <1>5 DEF CountChannel, Goto, presence
  <2>2. \A v \in Workers : at'[v] = "mark" => at[v] = "mark" /\ index'[v] = index[v]
    BY <2>1 DEF ExecTypeOK, PresenceTypeOK
  <2> QED
    BY <1>1, <2>1, <2>2 DEF SlotsInv, Listed
<1>6. ASSUME NEW w \in Workers, SetToken(w)
      PROVE  SlotsInv'
  <2>1. /\ at[w] = "written" /\ at' = [at EXCEPT ![w] = "body"]
        /\ index' = [index EXCEPT ![w] = 0]
        /\ UNCHANGED <<is_present, abbreviated, abbreviated_size>>
    BY <1>6 DEF SetToken, Goto, presence
  <2>2. \A v \in Workers : at'[v] = "mark" => at[v] = "mark" /\ index'[v] = index[v]
    BY <2>1 DEF ExecTypeOK, PresenceTypeOK
  <2> QED
    BY <1>1, <2>1, <2>2 DEF SlotsInv, Listed
<1>7. ASSUME NEW w \in Workers, \/ StoreChannel(w) \/ MakeCopy(w) \/ Run(w) \/ Skip(w)
                                \/ \E r \in Reactions : GetReady(w, r)
      PROVE  SlotsInv'
  <2>1. /\ UNCHANGED <<is_present, abbreviated, abbreviated_size, index>>
        /\ \E to \in Locations \ {"mark"} : at' = [at EXCEPT ![w] = to]
    BY <1>7, CopySteps DEF StoreChannel, Run, Skip, Done, GetReady, Goto, portVars, presence,
                           locals, Locations
  <2> QED
    BY <1>2, <2>1 DEF ExecTypeOK
<1>8. ASSUME NEW w \in Workers, ScheduleOutputs(w)
      PROVE  SlotsInv'
  <2>1. /\ UNCHANGED <<is_present, abbreviated, abbreviated_size, index>>
        /\ at' \in {[at EXCEPT ![w] = "idle"], [at EXCEPT ![w] = "invoke"]}
    BY <1>8, ScheduleSplits DEF Done, presence
  <2> QED
    BY <1>2, <2>1 DEF ExecTypeOK
<1>9. CASE AdvanceTag
  <2>1. /\ is_present' = is_present \ Cleared /\ UNCHANGED at
        /\ \A v \in Workers : at[v] = "idle"
    BY <1>9 DEF AdvanceTag, StartTimeStep, Quiet
  <2>2. is_present' = {}
    BY <2>1, IdleListIsComplete
  <2> QED
    BY <2>1, <2>2 DEF SlotsInv
<1>10. CASE UNCHANGED vars
  BY <1>2, <1>10 DEF vars, portVars, presence, locals, copyVars
<1> QED
  BY <1>3, <1>4, <1>5, <1>6, <1>7, <1>8, <1>9, <1>10, StepKinds DEF BodyStep, Write

(* What is triggered.                                                        *)
LEMMA TriggerNext ==
  ASSUME EInv, [Next]_vars
  PROVE  TriggerInv'
<1> USE DEF EInv
<1> DEFINE Writes(p) == \E w \in Workers : /\ at[w] \notin {"idle", "invoke"}
                                           /\ p \in Outputs[current[w]]
<1>1. TriggerInv <=> /\ \A r \in Reactions : Accounted(r) => Triggered(r)
                     /\ \A r \in roots : Accounted(r)
                     /\ \A p \in is_present : \A r \in Readers[p] : Accounted(r) \/ Writes(p)
  BY DEF TriggerInv
<1>2. TriggerInv' <=> /\ \A r \in Reactions : Accounted(r)' => Triggered(r)'
                      /\ \A r \in roots' : Accounted(r)'
                      /\ \A p \in is_present' : \A r \in Readers[p] : Accounted(r)' \/ Writes(p)'
  BY DEF TriggerInv
<1>3. /\ roots \subseteq Reactions
      /\ \A p \in is_present : p \in Ports /\ Readers[p] \subseteq Reactions
  BY TablesTyped DEF ExecTypeOK, PresenceTypeOK
<1>4. ASSUME UNCHANGED <<is_present, roots>>, \A r \in Reactions : Accounted(r)' <=> Accounted(r),
             \A p \in Ports : Writes(p) => Writes(p)'
      PROVE  TriggerInv'
  BY <1>1, <1>2, <1>3, <1>4 DEF Triggered
<1>5. ASSUME NEW w \in Workers, NEW r \in Reactions, GetReady(w, r)
      PROVE  TriggerInv'
  <2>1. /\ at[w] = "idle" /\ at' = [at EXCEPT ![w] = "invoke"]
        /\ r \in queued /\ queued' = queued \ {r} /\ current' = [current EXCEPT ![w] = r]
        /\ UNCHANGED <<is_present, roots, runs>>
    BY <1>5 DEF GetReady, Goto, portVars, presence
  <2>2. current[w] = NULL /\ \A v \in Workers \ {w} : at'[v] = at[v] /\ current'[v] = current[v]
    BY <2>1 DEF WorkerInv, ExecTypeOK
  <2>3. current'[w] = r
    BY <2>1 DEF ExecTypeOK
  <2>4. \A d \in Reactions : Accounted(d)' <=> Accounted(d)
    BY <2>1, <2>2, <2>3, TablesTyped DEF Accounted, Begun
  <2>5. \A p \in Ports : Writes(p) => Writes(p)'
    BY <2>1, <2>2
  <2> QED
    BY <1>4, <2>1, <2>4, <2>5
<1>6. ASSUME NEW w \in Workers, Run(w)
      PROVE  TriggerInv'
  <2>1. /\ at[w] = "invoke" /\ at' \in {[at EXCEPT ![w] = "copy"], [at EXCEPT ![w] = "body"]}
        /\ runs' = [runs EXCEPT ![current[w]] = runs[current[w]] + 1]
        /\ UNCHANGED <<is_present, roots, queued, current>>
    BY <1>6 DEF Run, Goto, portVars, presence
  <2>2. current[w] \in Reactions
    BY <2>1 DEF WorkerInv, ExecTypeOK
  <2>3. \A d \in Reactions \ {current[w]} : runs'[d] = runs[d]
    BY <2>1, <2>2 DEF ExecTypeOK
  <2>4. \A d \in Reactions : Accounted(d)' <=> Accounted(d)
    BY <2>1, <2>3 DEF Accounted, Begun
  <2>5. \A v \in Workers \ {w} : at'[v] = at[v]
    BY <2>1 DEF ExecTypeOK
  <2>6. \A p \in Ports : Writes(p) => Writes(p)'
    BY <2>1, <2>5
  <2> QED
    BY <1>4, <2>1, <2>4, <2>6
<1>7. ASSUME NEW w \in Workers, Skip(w)
      PROVE  TriggerInv'
  <2>1. /\ at[w] = "invoke" /\ at' = [at EXCEPT ![w] = "idle"]
        /\ current' = [current EXCEPT ![w] = NULL]
        /\ runs' = [runs EXCEPT ![current[w]] = runs[current[w]] + 1]
        /\ UNCHANGED <<is_present, roots, queued>>
    BY <1>7 DEF Skip, Done, portVars, presence
  <2>2. current[w] \in Reactions
    BY <2>1 DEF WorkerInv, ExecTypeOK
  <2>3. /\ \A d \in Reactions \ {current[w]} : runs'[d] = runs[d]
        /\ runs'[current[w]] > 0
    BY <2>1, <2>2 DEF ExecTypeOK
  <2>4. \A v \in Workers \ {w} : at'[v] = at[v] /\ current'[v] = current[v]
    BY <2>1 DEF ExecTypeOK
  <2>5. current'[w] = NULL
    BY <2>1 DEF ExecTypeOK
  <2>6. \A d \in Reactions : Accounted(d)' <=> Accounted(d)
    BY <2>1, <2>3, <2>4, <2>5, TablesTyped DEF Accounted, Begun
  <2>7. \A p \in Ports : Writes(p) => Writes(p)'
    BY <2>1, <2>4
  <2> QED
    BY <1>4, <2>1, <2>6, <2>7
<1>8. ASSUME NEW w \in Workers, BodyStep(w)
      PROVE  TriggerInv'
  <2>1. PICK to \in Body : at' = [at EXCEPT ![w] = to]
    BY <1>8, BodySteps
  <2>2. at[w] \in Body /\ UNCHANGED <<queued, current, runs, roots>>
    BY <1>8, BodySteps
  <2>3. /\ at'[w] \notin {"idle", "invoke"} /\ at[w] \notin {"idle", "invoke"}
        /\ \A v \in Workers \ {w} : at'[v] = at[v]
    BY <2>1, <2>2 DEF ExecTypeOK, Body
  <2>4. \A p \in Ports : Writes(p) <=> Writes(p)'
    BY <2>2, <2>3
  <2>5. \A d \in Reactions : Accounted(d)' <=> Accounted(d)
    BY <2>2 DEF Accounted, Begun
  <2>6. CASE is_present' = is_present
    BY <1>4, <2>2, <2>4, <2>5, <2>6
  <2>7. CASE is_present' # is_present
    <3>1. Mark(w)
      BY <1>8, <2>7, CopySteps DEF BodyStep, BeginWrite, CountPresent, Write, CountChannel,
                                   StoreChannel, SetToken, presence
    <3>2. is_present' = is_present \cup {port[w]} /\ at[w] = "mark"
      BY <3>1 DEF Mark, Goto
    <3>3. port[w] \in Outputs[current[w]] /\ current[w] \in Reactions
      BY <3>2 DEF WriteInv, Writing, WorkerInv, ExecTypeOK
    <3>4. port[w] \in Ports /\ Writes(port[w])
      BY <2>3, <3>3, TablesTyped
    <3>5. \A r \in Reactions : Triggered(r) => Triggered(r)'
      BY <2>2, <3>2 DEF Triggered
    <3>6. \A r \in Reactions : Accounted(r)' => Triggered(r)'
      BY <1>1, <2>5, <3>5
    <3>7. \A r \in roots' : Accounted(r)'
      BY <1>1, <1>3, <2>2, <2>5
    <3>8. \A p \in is_present' : \A r \in Readers[p] : Accounted(r)' \/ Writes(p)'
      <4> SUFFICES ASSUME NEW p \in is_present', NEW r \in Readers[p]
                   PROVE  Accounted(r)' \/ Writes(p)'
        OBVIOUS
      <4>1. CASE p \in is_present
        BY <1>1, <1>3, <2>4, <2>5, <4>1
      <4>2. CASE p = port[w]
        BY <2>4, <3>4, <4>2
      <4> QED
        BY <3>2, <4>1, <4>2
    <3> QED
      BY <1>2, <3>6, <3>7, <3>8
  <2> QED
    BY <2>6, <2>7
<1>9. ASSUME NEW w \in Workers, ScheduleOutputs(w)
      PROVE  TriggerInv'
  <2> DEFINE r == current[w]
  <2>1. /\ r \in Reactions /\ at[w] = "body" /\ runs[r] = 1
        /\ UNCHANGED <<is_present, roots, runs>>
    BY <1>9, ScheduleSplits DEF RunsInv, presence
  <2>2. \A d \in Downstream(r) : d \in Reactions
    BY <2>1, DownstreamWaits
  <2>3. /\ \A v \in Workers \ {w} : at'[v] = at[v] /\ current'[v] = current[v]
        /\ queued \subseteq queued' /\ queued' \subseteq queued \cup Downstream(r)
        /\ current'[w] \in Downstream(r) \cup {NULL}
        /\ Downstream(r) \subseteq queued' \cup {current'[w]}
    <3>1. CASE Done(w) /\ queued' = queued \cup Downstream(r)
      BY <3>1 DEF Done, ExecTypeOK
    <3>2. ASSUME NEW d \in Reactions, Downstream(r) = {d}, queued' = queued,
                 at' = [at EXCEPT ![w] = "invoke"], current' = [current EXCEPT ![w] = d]
          PROVE  /\ \A v \in Workers \ {w} : at'[v] = at[v] /\ current'[v] = current[v]
                 /\ queued \subseteq queued' /\ queued' \subseteq queued \cup Downstream(r)
                 /\ current'[w] \in Downstream(r) \cup {NULL}
                 /\ Downstream(r) \subseteq queued' \cup {current'[w]}
      BY <3>2 DEF ExecTypeOK
    <3> QED
      BY <1>9, <3>1, <3>2, ScheduleSplits
  <2>4. \A d \in Reactions : Accounted(d) => Accounted(d)'
    BY <2>1, <2>3 DEF Accounted, Begun
  <2>5. \A d \in Downstream(r) : Accounted(d)'
    BY <2>3 DEF Accounted, Begun
  <2>6. ASSUME NEW d \in Reactions, Accounted(d)'
        PROVE  Accounted(d) \/ d \in Downstream(r)
    <3>1. d # NULL
      BY TablesTyped
    <3>2. CASE d \in queued'
      BY <2>3, <3>2 DEF Accounted
    <3>3. CASE runs'[d] > 0
      BY <2>1, <3>3 DEF Accounted, Begun
    <3>4. CASE \E v \in Workers : current'[v] = d
      BY <2>3, <3>1, <3>4 DEF Accounted, Begun
    <3> QED
      BY <2>6, <3>2, <3>3, <3>4 DEF Accounted, Begun
  <2>7. ASSUME NEW d \in Downstream(r)
        PROVE  Triggered(d)
    BY DEF Downstream, Triggered
  <2>8. \A d \in Reactions : Triggered(d)' <=> Triggered(d)
    BY <2>1 DEF Triggered
  <2>9. \A d \in Reactions : Accounted(d)' => Triggered(d)'
    BY <1>1, <2>6, <2>7, <2>8
  <2>10. ASSUME NEW p \in is_present, NEW d \in Readers[p]
         PROVE  Accounted(d)' \/ Writes(p)'
    <3>1. CASE p \in Outputs[r]
      <4>1. d \in Downstream(r)
        BY <3>1 DEF Downstream
      <4> QED
        BY <2>5, <4>1
    <3>2. CASE p \notin Outputs[r]
      <4>1. CASE Accounted(d)
        BY <1>3, <2>4, <4>1
      <4>2. CASE Writes(p)
        BY <2>3, <3>2, <4>2
      <4> QED
        BY <1>1, <4>1, <4>2
    <3> QED
      BY <3>1, <3>2
  <2> QED
    BY <1>1, <1>2, <1>3, <2>1, <2>4, <2>9, <2>10
<1>10. CASE AdvanceTag
  <2>1. /\ is_present' = is_present \ Cleared /\ queued' = roots' /\ roots' \subseteq Reactions
        /\ runs' = [r \in Reactions |-> 0] /\ UNCHANGED current
        /\ \A w \in Workers : at[w] = "idle"
    BY <1>10, TablesTyped DEF AdvanceTag, StartTimeStep, Quiet
  <2>2. is_present' = {}
    BY <2>1, IdleListIsComplete
  <2>3. \A w \in Workers : current'[w] = NULL
    BY <2>1 DEF WorkerInv
  <2>4. \A r \in Reactions : Accounted(r)' <=> r \in roots'
    BY <2>1, <2>3, TablesTyped DEF Accounted, Begun
  <2> QED
    BY <1>2, <2>1, <2>2, <2>4 DEF Triggered
<1>11. CASE UNCHANGED vars
  BY <1>1, <1>2, <1>11 DEF vars, portVars, presence, execVars, Accounted, Begun, Triggered
<1> QED
  BY <1>5, <1>6, <1>7, <1>8, <1>9, <1>10, <1>11, StepKinds

-----------------------------------------------------------------------------
(* Theorems *)

(* The invariant holds at the start ...                                      *)
LEMMA InitInv == Init => EInv
<1> SUFFICES ASSUME Init
             PROVE  EInv
  OBVIOUS
<1>1. FieldsSize \in Nat /\ Capacity \in Nat
  BY PortsAssumption, FS_CardinalityType DEF FieldsSize
<1>2. PresenceTypeOK
  <2>1. /\ is_present = {} /\ abbreviated_size = 0 /\ record_size = 0
        /\ abbreviated = [i \in 0 .. FieldsSize - 1 |-> NULL]
        /\ channels = [i \in 0 .. Capacity - 1 |-> NULL]
        /\ port = [w \in Workers |-> NULL] /\ index = [w \in Workers |-> 0]
    BY InitFacts
  <2> QED
    BY <2>1 DEF PresenceTypeOK
<1>3. ExecTypeOK
  <2>1. todo \in [Workers -> [Ports -> Nat]]
    BY DEF Init, Nothing
  <2> QED
    BY <2>1, TablesTyped DEF Init, ExecTypeOK, Locations
<1>4. WorkerInv /\ RunsInv /\ QueuedInv
  BY DEF Init, WorkerInv, RunsInv, QueuedInv
<1>5. OrderInv
  BY TablesTyped DEF Init, OrderInv, Begun
<1>6. WriteInv
  <2>1. is_present = {} /\ \A w \in Workers : at[w] = "idle" /\ todo[w] = Nothing
    BY InitFacts
  <2>2. \A w \in Workers, p \in Ports : ~ (todo[w][p] > 0)
    BY <2>1 DEF Nothing
  <2> QED
    BY <2>1, <2>2 DEF WriteInv, PresentIsFresh, Writing
<1>7. SlotsInv
  BY InitFacts DEF SlotsInv
<1>8. TriggerInv
  <2>1. is_present = {} /\ roots = {}
    BY InitFacts
  <2>2. \A r \in Reactions : ~ Accounted(r)
    BY TablesTyped DEF Init, Accounted, Begun
  <2> QED
    BY <2>1, <2>2 DEF TriggerInv
<1> QED
  BY <1>2, <1>3, <1>4, <1>5, <1>6, <1>7, <1>8 DEF EInv

(* ... and always.                                                           *)
LEMMA InvHolds == Spec => []EInv
<1>1. EInv /\ [Next]_vars => EInv'
  BY PresenceTypeNext, ExecTypeNext, OrderNext, QueuedNext, WriteNext, SlotsNext, TriggerNext
     DEF EInv
<1> QED
  BY InitInv, <1>1, PTL DEF Spec

(* A reaction is executed at most once in a tag, and while it is executed    *)
(* nothing that has to precede it is queued or executed, whichever worker    *)
(* takes it from the queue or executes it directly.                          *)
THEOREM ReactionsRunInOrder == Spec => []ExecutedInOrder
<1>1. EInv => ExecutedInOrder
  <2> SUFFICES ASSUME EInv
               PROVE  ExecutedInOrder
    OBVIOUS
  <2>1. ASSUME NEW w \in Workers, current[w] # NULL, NEW b \in Preceding[current[w]]
        PROVE  b \notin queued /\ \A v \in Workers : current[v] # b
    <3>1. current[w] \in Reactions /\ Begun(current[w])
      BY <2>1 DEF EInv, ExecTypeOK, Begun
    <3> QED
      BY <3>1 DEF EInv, OrderInv, Active
  <2> QED
    BY <2>1 DEF EInv, RunsInv, ExecutedInOrder, OncePerTag, InOrder
<1> QED
  BY <1>1, InvHolds, PTL

(* When a tag is over, exactly the reactions that a timer, an action or a    *)
(* present port triggers have been executed.                                 *)
THEOREM AllReactionsRun == Spec => []AllExecuted
<1>1. EInv => AllExecuted
  <2> SUFFICES ASSUME EInv, Quiet, NEW r \in Reactions
               PROVE  (runs[r] = 1) <=> Triggered(r)
    BY DEF AllExecuted, Triggered
  <2>1. queued = {} /\ \A w \in Workers : at[w] = "idle" /\ current[w] = NULL
    BY DEF Quiet, EInv, WorkerInv
  <2>2. Accounted(r) <=> runs[r] > 0
    BY <2>1, TablesTyped DEF Accounted, Begun
  <2>3. runs[r] \in Nat /\ runs[r] <= 1
    BY DEF EInv, RunsInv, ExecTypeOK
  <2>4. Triggered(r) <=> Accounted(r)
    BY <2>1 DEF EInv, TriggerInv, Triggered
  <2> QED
    BY <2>2, <2>3, <2>4
<1> QED
  BY <1>1, InvHolds, PTL

(* A port that is present at the start of a tag, or at any time in it, was   *)
(* written in that tag: the list of present fields forgets none, whether the *)
(* writers' steps interleave or the list overflows.                          *)
THEOREM PresentPortsAreFresh == Spec => []PresentIsFresh
<1>1. EInv => PresentIsFresh
  BY DEF EInv, WriteInv
<1> QED
  BY <1>1, InvHolds, PTL

-----------------------------------------------------------------------------
(* Ports that are written once in a tag *)

(* The ports with one writer, which writes them at most once.                *)
OncePorts == {p \in Ports : MaxWrites[p] <= 1 /\ \A r, s \in Writers(p) : r = s}

Writes(w, p) == at[w] \in Writing \cup {"written"} /\ port[w] = p

(* A port that is still to be written has not been written yet.              *)
OnceInv ==
  /\ \A p \in OncePorts \cap wrote : \E r \in Writers(p) : runs[r] = 1
  /\ \A w \in Workers : \A p \in OncePorts :
       /\ todo[w][p] > 0 => p \notin wrote /\ todo[w][p] = 1
       /\ at[w] = "mark" /\ port[w] = p => p \notin is_present

(* Two workers never write the same one.                                     *)
LEMMA OneWriter ==
  ASSUME EInv, NEW w \in Workers, NEW v \in Workers, NEW p \in OncePorts,
         todo[w][p] > 0 \/ Writes(w, p),
         todo[v][p] > 0 \/ Writes(v, p)
  PROVE  w = v
<1>1. p \in Outputs[current[w]] /\ p \in Outputs[current[v]]
  BY DEF EInv, WriteInv, OncePorts, Writes
<1>2. at[w] \notin {"idle", "invoke"} /\ at[v] \notin {"idle", "invoke"}
  BY DEF EInv, WriteInv, OncePorts, Writes, Writing, Nothing
<1>3. current[w] \in Reactions /\ current[v] \in Reactions
  BY <1>2 DEF EInv, WorkerInv, ExecTypeOK
<1>4. current[w] = current[v]
  BY <1>1, <1>3 DEF OncePorts, Writers
<1> QED
  BY <1>3, <1>4, TablesTyped DEF EInv, RunsInv

(* What is written once.                                                     *)
LEMMA OnceNext ==
  ASSUME EInv, OnceInv, [Next]_vars
  PROVE  OnceInv'
<1> USE DEF EInv
<1> DEFINE Local(v) ==
             \A p \in OncePorts :
               /\ todo[v][p] > 0 => p \notin wrote /\ todo[v][p] = 1
               /\ at[v] = "mark" /\ port[v] = p => p \notin is_present
           Ran == \A p \in OncePorts \cap wrote : \E r \in Writers(p) : runs[r] = 1
<1>1. OnceInv <=> Ran /\ \A v \in Workers : Local(v)
  BY DEF OnceInv
<1>2. OnceInv' <=> Ran' /\ \A v \in Workers : Local(v)'
  BY DEF OnceInv, OncePorts, Writers
<1>3. OncePorts \subseteq Ports /\ \A p \in Ports : ~ (Nothing[p] > 0)
  BY DEF Nothing, OncePorts
<1>4. ASSUME UNCHANGED <<wrote, runs>>
      PROVE  Ran'
  BY <1>1, <1>4
<1>5. ASSUME NEW v \in Workers, todo'[v] = todo[v], UNCHANGED <<wrote, is_present>>,
             at'[v] = "mark" => at[v] = "mark" /\ port'[v] = port[v]
      PROVE  Local(v)'
  BY <1>1, <1>5
<1>6. ASSUME NEW w \in Workers,
             \/ ScheduleOutputs(w)
             \/ MakeCopy(w)
             \/ Write(w) /\ ~ Mark(w)
             \/ \E r \in Reactions : GetReady(w, r)
      PROVE  OnceInv'
  <2>1. /\ UNCHANGED <<wrote, runs, todo, is_present>>
        /\ \E to \in Locations \ {"mark"} : at' = [at EXCEPT ![w] = to]
        /\ \A v \in Workers \ {w} : port'[v] = port[v]
    <3>1. CASE ScheduleOutputs(w)
      BY <3>1, ScheduleSplits DEF Done, presence, Locations
    <3>2. CASE ~ ScheduleOutputs(w)
      BY <1>6, <3>2, CopySteps DEF Write, CountChannel, StoreChannel, SetToken, GetReady, Goto,
                                   execVars, portVars, presence, locals, Locations, PresenceTypeOK
    <3> QED
      BY <3>1, <3>2
  <2>2. \A v \in Workers : at'[v] = "mark" => at[v] = "mark" /\ port'[v] = port[v]
    BY <2>1 DEF ExecTypeOK
  <2> QED
    BY <1>2, <1>4, <1>5, <2>1, <2>2
<1>7. ASSUME NEW w \in Workers, Run(w)
      PROVE  OnceInv'
  <2>1. /\ at[w] = "invoke" /\ at' \in {[at EXCEPT ![w] = "copy"], [at EXCEPT ![w] = "body"]}
        /\ UNCHANGED <<is_present, port, wrote>>
        /\ runs' = [runs EXCEPT ![current[w]] = runs[current[w]] + 1]
    BY <1>7 DEF Run, Goto, portVars, presence, locals, copyVars
  <2>2. PICK n \in [Ports -> 0 .. 2] :
          /\ \A p \in Ports : n[p] <= IF p \in Outputs[current[w]] THEN MaxWrites[p] ELSE 0
          /\ todo' = [todo EXCEPT ![w] = n]
    BY <1>7 DEF Run
  <2>3. /\ current[w] \in Reactions /\ runs[current[w]] = 0 /\ runs'[current[w]] = 1
        /\ \A r \in Reactions \ {current[w]} : runs'[r] = runs[r]
    BY <2>1 DEF RunsInv, WorkerInv, ExecTypeOK
  <2>4. Ran'
    BY <1>1, <2>1, <2>3 DEF Writers
  <2>5. ASSUME NEW p \in OncePorts, n[p] > 0
        PROVE  p \notin wrote /\ n[p] = 1
    <3>1. p \in Ports /\ p \in Outputs[current[w]]
      BY <1>3, <2>2, <2>5
    <3>2. n[p] <= MaxWrites[p] /\ MaxWrites[p] \in Nat /\ MaxWrites[p] <= 1 /\ n[p] \in 0 .. 2
      BY <2>2, <3>1, TablesTyped DEF OncePorts
    <3>3. \A r \in Writers(p) : r = current[w]
      BY <2>3, <3>1 DEF OncePorts, Writers
    <3>4. p \notin wrote
      BY <1>1, <2>3, <3>3
    <3> QED
      BY <2>5, <3>2, <3>4
  <2>6. todo'[w] = n /\ at'[w] # "mark"
    BY <2>1, <2>2 DEF ExecTypeOK
  <2>7. Local(w)'
    BY <2>1, <2>5, <2>6
  <2>8. \A v \in Workers \ {w} : todo'[v] = todo[v] /\ at'[v] = at[v]
    BY <2>1, <2>2 DEF ExecTypeOK
  <2> QED
    BY <1>2, <1>5, <2>1, <2>4, <2>7, <2>8
<1>8. ASSUME NEW w \in Workers, Skip(w)
      PROVE  OnceInv'
  <2>1. /\ at[w] = "invoke" /\ at' = [at EXCEPT ![w] = "idle"]
        /\ UNCHANGED <<is_present, port, wrote, todo>>
        /\ runs' = [runs EXCEPT ![current[w]] = runs[current[w]] + 1]
    BY <1>8 DEF Skip, Done, Goto, portVars, presence, locals, copyVars
  <2>2. /\ current[w] \in Reactions /\ runs[current[w]] = 0 /\ runs'[current[w]] = 1
        /\ \A r \in Reactions \ {current[w]} : runs'[r] = runs[r]
    BY <2>1 DEF RunsInv, WorkerInv, ExecTypeOK
  <2>3. Ran'
    BY <1>1, <2>1, <2>2 DEF Writers
  <2>4. \A v \in Workers : at'[v] = "mark" => at[v] = "mark"
    BY <2>1 DEF ExecTypeOK
  <2> QED
    BY <1>2, <1>5, <2>1, <2>3, <2>4
<1>9. ASSUME NEW w \in Workers, NEW p \in Ports, BeginWrite(w, p)
      PROVE  OnceInv'
  <2>1. /\ at[w] = "body" /\ at' = [at EXCEPT ![w] = "mark"] /\ todo[w][p] > 0
        /\ port' = [port EXCEPT ![w] = p]
        /\ todo' = [todo EXCEPT ![w] = [todo[w] EXCEPT ![p] = todo[w][p] - 1]]
        /\ wrote' = wrote \cup {p}
        /\ UNCHANGED <<is_present, current, runs>>
    BY <1>9 DEF BeginWrite, CountPresent, Goto, ExecTypeOK
  <2>2. /\ at'[w] = "mark" /\ port'[w] = p
        /\ todo[w] \in [Ports -> Nat] /\ todo'[w] = [todo[w] EXCEPT ![p] = todo[w][p] - 1]
        /\ \A v \in Workers \ {w} : at'[v] = at[v] /\ todo'[v] = todo[v] /\ port'[v] = port[v]
    BY <2>1 DEF ExecTypeOK, PresenceTypeOK
  <2>3. Ran'
    <3>1. p \in Outputs[current[w]] /\ current[w] \in Reactions /\ runs[current[w]] = 1
      BY <2>1 DEF WriteInv, RunsInv, WorkerInv, ExecTypeOK
    <3> QED
      BY <1>1, <2>1, <3>1 DEF Writers
  <2>4. ASSUME NEW v \in Workers, NEW q \in OncePorts, todo'[v][q] > 0
        PROVE  q \notin wrote' /\ todo'[v][q] = 1
    <3>1. q \in Ports
      BY <1>3
    <3>2. CASE q # p
      <4>1. todo'[v][q] = todo[v][q]
        BY <2>2, <3>1, <3>2
      <4> QED
        BY <1>1, <2>1, <2>4, <3>2, <4>1
    <3>3. CASE q = p
      <4>1. todo[w][p] = 1
        BY <1>1, <2>1, <3>3
      <4>2. todo'[w][p] = 0
        BY <2>2, <4>1
      <4>3. v # w
        BY <2>4, <3>3, <4>2
      <4>4. todo[v][p] > 0
        BY <2>2, <2>4, <3>3, <4>3
      <4> QED
        BY <2>1, <3>3, <4>3, <4>4, OneWriter
    <3> QED
      BY <3>2, <3>3
  <2>5. ASSUME NEW v \in Workers, NEW q \in OncePorts, at'[v] = "mark", port'[v] = q
        PROVE  q \notin is_present'
    <3>1. CASE v = w
      BY <1>1, <2>1, <2>2, <2>5, <3>1 DEF WriteInv, PresentIsFresh
    <3>2. CASE v # w
      BY <1>1, <2>1, <2>2, <2>5, <3>2
    <3> QED
      BY <3>1, <3>2
  <2> QED
    BY <1>2, <2>3, <2>4, <2>5
<1>10. ASSUME NEW w \in Workers, Mark(w), UNCHANGED execVars
       PROVE  OnceInv'
  <2>1. /\ at[w] = "mark" /\ at' \in {[at EXCEPT ![w] = "sparse"], [at EXCEPT ![w] = "written"]}
        /\ is_present' = is_present \cup {port[w]}
        /\ UNCHANGED <<wrote, runs, todo, port>>
    BY <1>10 DEF Mark, Goto, execVars, locals, copyVars
  <2>2. \A v \in Workers : at'[v] = "mark" => at[v] = "mark" /\ v # w
    BY <2>1 DEF ExecTypeOK
  <2>3. ASSUME NEW v \in Workers, NEW q \in OncePorts, at'[v] = "mark", port'[v] = q
        PROVE  q \notin is_present'
    <3>1. at[v] = "mark" /\ v # w /\ port[v] = q /\ q \notin is_present
      BY <1>1, <2>1, <2>2, <2>3
    <3>2. port[w] # q
      BY <2>1, <3>1, OneWriter DEF Writing, Writes
    <3> QED
      BY <2>1, <3>1, <3>2
  <2> QED
    BY <1>1, <1>2, <1>4, <2>1, <2>3
<1>11. CASE AdvanceTag
  BY <1>1, <1>2, <1>3, <1>11 DEF AdvanceTag, StartTimeStep, Quiet, WriteInv
<1>12. CASE UNCHANGED vars
  BY <1>1, <1>2, <1>12 DEF vars, portVars, presence, locals, copyVars, execVars
<1>13. ASSUME NEW w \in Workers, BodyStep(w)
       PROVE  OnceInv'
  BY <1>6, <1>9, <1>10, <1>13 DEF BodyStep, Write
<1> QED
  BY <1>6, <1>7, <1>8, <1>11, <1>12, <1>13, StepKinds

-----------------------------------------------------------------------------
(* The sparse record *)

SparsePorts == {p \in Ports : Channel[p] >= 0}

(* A channel is written once in a tag, by its one writer.                    *)
WrittenOnce == SparsePorts \subseteq OncePorts

(* The tag has seen at most one channel more than the record has room for.   *)
FewChannels == Cardinality(wrote \cap SparsePorts) <= Capacity + 1

(* The channels that are counted in the size of the record, and those that   *)
(* are in a slot that no worker is about to write.                           *)
Counted ==
  {p \in is_present \cap SparsePorts : \A w \in Workers : at[w] = "sparse" => port[w] # p}

Stored(p) ==
  \E i \in 0 .. Capacity - 1 :
    /\ i < record_size /\ channels[i] = Channel[p]
    /\ \A w \in Workers : at[w] = "channel" => index[w] # i

(* The reactions that write channels have to precede one another.            *)
ChannelsOrdered ==
  \A r, d \in Reactions :
    r # d /\ Outputs[r] \cap SparsePorts # {} /\ Outputs[d] \cap SparsePorts # {}
      => r \in Preceding[d] \/ d \in Preceding[r]

(* The size counts the channels, each counted channel has a slot of its own, *)
(* and each slot one; once the record overflowed, nobody counts it up again. *)
RecordInv ==
  /\ record_size >= 0 => record_size = Cardinality(Counted)
  /\ record_size < 0 => \A w \in Workers : at[w] # "sparse"
  /\ \A w \in Workers :
       /\ at[w] \in {"sparse", "channel"} => port[w] \in is_present
       /\ at[w] = "channel" => index[w] \in Nat /\ index[w] < Cardinality(Counted)
  /\ \A w, v \in Workers :
       at[w] = "channel" /\ at[v] = "channel" /\ index[w] = index[v] => w = v
  /\ record_size >= 0 =>
       /\ \A p \in Counted : Stored(p) \/ \E w \in Workers : at[w] = "channel" /\ port[w] = p
       /\ \A i \in 0 .. Capacity - 1 :
            i < record_size => \/ \E w \in Workers : at[w] = "channel" /\ index[w] = i
                               \/ \E p \in Counted : channels[i] = Channel[p]

(* The channels that are counted were written, and there are finitely many.  *)
LEMMA CountedFacts ==
  ASSUME EInv
  PROVE  /\ Counted \subseteq wrote \cap SparsePorts
         /\ IsFiniteSet(wrote \cap SparsePorts) /\ IsFiniteSet(Counted)
         /\ Cardinality(wrote \cap SparsePorts) \in Nat /\ Cardinality(Counted) \in Nat
         /\ Capacity \in Nat
<1>1. Counted \subseteq wrote \cap SparsePorts
  BY DEF EInv, WriteInv, PresentIsFresh, Counted
<1>2. wrote \cap SparsePorts \subseteq Ports
  BY DEF SparsePorts
<1>3. IsFiniteSet(wrote \cap SparsePorts) /\ IsFiniteSet(Counted)
  BY <1>1, <1>2, PortsAssumption, FS_Subset
<1> QED
  BY <1>1, <1>3, PortsAssumption, FS_CardinalityType

(* Of two reactions that are executed, neither precedes the other.           *)
LEMMA NeitherPrecedes ==
  ASSUME EInv, NEW w \in Workers, NEW v \in Workers,
         current[w] \in Reactions, current[v] \in Reactions,
         \/ current[w] = current[v]
         \/ current[w] \in Preceding[current[v]] \/ current[v] \in Preceding[current[w]]
  PROVE  w = v
<1>1. Begun(current[w]) /\ Begun(current[v]) /\ Active(current[w]) /\ Active(current[v])
  BY DEF Begun, Active
<1>2. current[w] = current[v]
  BY <1>1 DEF EInv, OrderInv
<1> QED
  BY <1>2, TablesTyped DEF EInv, RunsInv

(* A record with one channel too many has counted all that are written.      *)
LEMMA OverflowIsFull ==
  ASSUME EInv, FewChannels, Cardinality(Counted) > Capacity
  PROVE  wrote \cap SparsePorts = Counted
<1>1. /\ Counted \subseteq wrote \cap SparsePorts /\ IsFiniteSet(wrote \cap SparsePorts)
      /\ Cardinality(wrote \cap SparsePorts) \in Nat /\ Cardinality(Counted) \in Nat
      /\ Capacity \in Nat
  BY CountedFacts
<1>2. Cardinality(Counted) <= Cardinality(wrote \cap SparsePorts)
  BY <1>1, FS_Subset
<1>3. Cardinality(Counted) = Cardinality(wrote \cap SparsePorts)
  BY <1>1, <1>2 DEF FewChannels
<1> QED
  BY <1>1, <1>3, FS_Subset

(* The worker that overflows the record is the last that uses it: all others *)
(* have been counted.                                                        *)
LEMMA OverflowIsLast ==
  ASSUME EInv, RecordInv, FewChannels \/ ChannelsOrdered, NEW w \in Workers, NEW v \in Workers,
         at[w] = "channel", index[w] >= Capacity, at[v] = "sparse"
  PROVE  FALSE
<1>1. \A u \in {w, v} : /\ current[u] \in Reactions /\ port[u] \in Outputs[current[u]]
                        /\ port[u] \in SparsePorts /\ port[u] \in wrote
  <2>1. \A u \in {w, v} : /\ current[u] \in Reactions /\ port[u] \in Outputs[current[u]]
                          /\ Channel[port[u]] >= 0 /\ port[u] \in wrote
    BY DEF EInv, WorkerInv, ExecTypeOK, WriteInv, Writing
  <2> QED
    BY <2>1, TablesTyped DEF SparsePorts
<1>2. CASE FewChannels
  <2>1. index[w] < Cardinality(Counted) /\ index[w] \in Nat
    BY DEF RecordInv
  <2>2. Cardinality(Counted) > Capacity
    BY <2>1, CountedFacts
  <2>3. port[v] \in Counted
    BY <1>1, <1>2, <2>2, OverflowIsFull
  <2> QED
    BY <2>3 DEF Counted
<1>3. CASE ChannelsOrdered
  <2>1. w = v
    BY <1>1, <1>3, NeitherPrecedes DEF ChannelsOrdered
  <2> QED
    BY <2>1
<1> QED
  BY <1>2, <1>3

(* A step that leaves the present ports and the record alone.                *)
LEMMA RecordUntouched ==
  ASSUME EInv, RecordInv, UNCHANGED <<is_present, record_size, channels>>,
         \A v \in Workers : \/ /\ at'[v] \in {"sparse", "channel"} /\ at'[v] = at[v]
                               /\ port'[v] = port[v] /\ index'[v] = index[v]
                            \/ at[v] \notin {"sparse", "channel"}
                               /\ at'[v] \notin {"sparse", "channel"}
  PROVE  RecordInv'
<1>1. Counted' = Counted
  BY DEF Counted, SparsePorts
<1>2. SparsePorts' = SparsePorts
  BY DEF SparsePorts
<1>3. \A p \in Counted : Stored(p)' <=> Stored(p)
  BY DEF Stored
<1>4. /\ record_size' >= 0 => record_size' = Cardinality(Counted')
      /\ record_size' < 0 => \A w \in Workers : at'[w] # "sparse"
  BY <1>1, <1>2 DEF RecordInv
<1>5. \A w \in Workers :
        /\ at'[w] \in {"sparse", "channel"} => port'[w] \in is_present'
        /\ at'[w] = "channel" => index'[w] \in Nat /\ index'[w] < Cardinality(Counted')
  BY <1>1 DEF RecordInv
<1>6. \A w, v \in Workers :
        at'[w] = "channel" /\ at'[v] = "channel" /\ index'[w] = index'[v] => w = v
  BY DEF RecordInv
<1>7. ASSUME record_size' >= 0, NEW p \in Counted'
      PROVE  Stored(p)' \/ \E w \in Workers : at'[w] = "channel" /\ port'[w] = p
  BY <1>1, <1>3, <1>7 DEF RecordInv
<1>8. ASSUME record_size' >= 0, NEW i \in 0 .. Capacity - 1, i < record_size'
      PROVE  \/ \E w \in Workers : at'[w] = "channel" /\ index'[w] = i
             \/ \E p \in Counted' : channels'[i] = Channel[p]
  BY <1>1, <1>8 DEF RecordInv
<1> QED
  BY <1>4, <1>5, <1>6, <1>7, <1>8 DEF RecordInv

(* A port is marked: a channel that is not counted yet.                      *)
LEMMA RecordMark ==
  ASSUME EInv, OnceInv, RecordInv, WrittenOnce, NEW w \in Workers, Mark(w), UNCHANGED execVars
  PROVE  RecordInv'
<1> USE DEF EInv
<1>1. /\ at[w] = "mark" /\ is_present' = is_present \cup {port[w]}
      /\ at' = [at EXCEPT ![w] = IF Channel[port[w]] >= 0 /\ record_size >= 0 THEN "sparse"
                                                                            ELSE "written"]
      /\ UNCHANGED <<record_size, channels, port, index, wrote>>
  BY DEF Mark, Goto, record, locals, copyVars, execVars
<1>2. /\ at'[w] = IF Channel[port[w]] >= 0 /\ record_size >= 0 THEN "sparse" ELSE "written"
      /\ \A v \in Workers \ {w} : at'[v] = at[v]
  BY <1>1 DEF ExecTypeOK
<1>3. port[w] \in Ports /\ port[w] \in wrote
  <2>1. current[w] \in Reactions /\ port[w] \in Outputs[current[w]] /\ port[w] \in wrote
    BY <1>1 DEF WorkerInv, ExecTypeOK, WriteInv, Writing
  <2> QED
    BY <2>1, TablesTyped
<1>4. ASSUME Channel[port[w]] >= 0
      PROVE  port[w] \in SparsePorts /\ port[w] \notin is_present
  BY <1>1, <1>3, <1>4 DEF SparsePorts, OnceInv, WrittenOnce
<1>5. \A v \in Workers : at'[v] = "channel" <=> at[v] = "channel"
  BY <1>1, <1>2
<1>6. \A p : Stored(p)' <=> Stored(p)
  BY <1>1, <1>5 DEF Stored
<1>7. \A v \in Workers : at'[v] \in {"sparse", "channel"} => port'[v] \in is_present'
  BY <1>1, <1>2 DEF RecordInv
<1>8. SparsePorts' = SparsePorts /\ record_size \in Int
  BY DEF SparsePorts, PresenceTypeOK
<1>9. CASE record_size >= 0 \/ ~ (Channel[port[w]] >= 0)
  <2>1. Counted' = Counted
    <3>1. CASE Channel[port[w]] >= 0
      <4>1. port[w] \notin Counted'
        BY <1>1, <1>2, <1>9, <3>1 DEF Counted
      <4>2. \A p \in is_present : p # port[w]
        BY <1>4, <3>1
      <4> QED
        BY <1>1, <1>2, <1>8, <4>1, <4>2 DEF Counted
    <3>2. CASE ~ (Channel[port[w]] >= 0)
      <4>1. port[w] \notin SparsePorts
        BY <3>2 DEF SparsePorts
      <4> QED
        BY <1>1, <1>2, <1>8, <3>2, <4>1 DEF Counted
    <3> QED
      BY <3>1, <3>2
  <2>2. record_size' < 0 => \A v \in Workers : at'[v] # "sparse"
    BY <1>1, <1>2, <1>8, <1>9 DEF RecordInv
  <2> QED
    BY <1>1, <1>5, <1>6, <1>7, <2>1, <2>2 DEF RecordInv
<1>10. CASE ~ (record_size >= 0) /\ Channel[port[w]] >= 0
  <2>1. /\ at'[w] = "written" /\ ~ (record_size' >= 0)
        /\ \A v \in Workers : at'[v] # "sparse"
    BY <1>1, <1>2, <1>8, <1>10 DEF RecordInv
  <2>2. Counted \subseteq Counted'
    BY <1>1, <1>2, <1>8, <2>1 DEF Counted
  <2>3. Counted' \subseteq Ports
    BY DEF Counted, SparsePorts
  <2>4. Cardinality(Counted) <= Cardinality(Counted') /\ Cardinality(Counted') \in Nat
    BY <2>2, <2>3, PortsAssumption, FS_Subset, FS_CardinalityType
  <2>5. \A v \in Workers :
          at'[v] = "channel" => index'[v] \in Nat /\ index'[v] < Cardinality(Counted')
    BY <1>1, <1>5, <2>4, CountedFacts DEF RecordInv
  <2>6. \A u, v \in Workers :
          at'[u] = "channel" /\ at'[v] = "channel" /\ index'[u] = index'[v] => u = v
    BY <1>1, <1>5 DEF RecordInv
  <2> QED
    BY <1>7, <2>1, <2>5, <2>6 DEF RecordInv
<1> QED
  BY <1>9, <1>10

(* The next slot of the record is taken.                                     *)
LEMMA RecordCount ==
  ASSUME EInv, OnceInv, RecordInv, WrittenOnce, NEW w \in Workers, CountChannel(w),
         UNCHANGED execVars
  PROVE  RecordInv'
<1> USE DEF EInv
<1> DEFINE p == port[w]
<1>1. /\ at[w] = "sparse" /\ at' = [at EXCEPT ![w] = "channel"]
      /\ index' = [index EXCEPT ![w] = record_size] /\ record_size' = record_size + 1
      /\ UNCHANGED <<is_present, channels, port, wrote>>
  BY DEF CountChannel, Goto, presence, execVars
<1>2. /\ at'[w] = "channel" /\ index'[w] = record_size
      /\ \A v \in Workers \ {w} : at'[v] = at[v] /\ index'[v] = index[v]
  BY <1>1 DEF ExecTypeOK, PresenceTypeOK
<1>3. p \in SparsePorts /\ p \in is_present /\ p \in wrote /\ p \notin Counted
  <2>1. /\ current[w] \in Reactions /\ p \in Outputs[current[w]] /\ p \in wrote
        /\ Channel[p] >= 0 /\ p \in is_present
    BY <1>1 DEF WorkerInv, ExecTypeOK, WriteInv, Writing, RecordInv
  <2> QED
    BY <1>1, <2>1, TablesTyped DEF SparsePorts, Counted
<1>4. record_size \in Nat /\ record_size = Cardinality(Counted)
  <2>1. ~ (record_size < 0)
    BY <1>1 DEF RecordInv
  <2> QED
    BY <2>1 DEF RecordInv, PresenceTypeOK
<1>5. SparsePorts' = SparsePorts
  BY DEF SparsePorts
<1>6. Counted' = Counted \cup {p}
  <2>1. \A v \in Workers \ {w} : at[v] = "sparse" => port[v] # p
    BY <1>1, <1>3, OneWriter DEF Writing, Writes, WrittenOnce
  <2>2. p \in Counted'
    BY <1>1, <1>2, <1>3, <1>5, <2>1 DEF Counted
  <2>3. \A q : q # p => (q \in Counted' <=> q \in Counted)
    BY <1>1, <1>2, <1>5 DEF Counted
  <2> QED
    BY <2>2, <2>3
<1>7. Cardinality(Counted') = record_size + 1
  BY <1>3, <1>4, <1>6, CountedFacts, FS_AddElement
<1>8. \A v \in Workers : at'[v] \in {"sparse", "channel"} => port'[v] \in is_present'
  BY <1>1, <1>2 DEF RecordInv
<1>9. \A v \in Workers : at'[v] = "channel" => index'[v] \in Nat /\ index'[v] < record_size + 1
  BY <1>2, <1>4 DEF RecordInv
<1>10. \A v \in Workers \ {w} : at[v] = "channel" => index[v] # record_size
  BY <1>4 DEF RecordInv
<1>11. \A u, v \in Workers :
         at'[u] = "channel" /\ at'[v] = "channel" /\ index'[u] = index'[v] => u = v
  BY <1>2, <1>10 DEF RecordInv
<1>12. ASSUME NEW q \in Counted'
       PROVE  Stored(q)' \/ \E v \in Workers : at'[v] = "channel" /\ port'[v] = q
  <2>1. CASE q = p
    BY <1>1, <1>2, <2>1
  <2>2. CASE q \in Counted /\ Stored(q)
    <3>1. PICK i \in 0 .. Capacity - 1 :
            /\ i < record_size /\ channels[i] = Channel[q]
            /\ \A v \in Workers : at[v] = "channel" => index[v] # i
      BY <2>2 DEF Stored
    <3>2. i < record_size' /\ i # record_size
      BY <1>1, <1>4, <3>1, PortsAssumption
    <3>3. \A v \in Workers : at'[v] = "channel" => index'[v] # i
      BY <1>2, <3>1, <3>2
    <3> QED
      BY <1>1, <3>1, <3>2, <3>3 DEF Stored
  <2>3. CASE q \in Counted /\ ~ Stored(q)
    <3>1. PICK v \in Workers : at[v] = "channel" /\ port[v] = q
      BY <1>4, <2>3 DEF RecordInv
    <3> QED
      BY <1>1, <1>2, <3>1
  <2> QED
    BY <1>6, <2>1, <2>2, <2>3
<1>13. ASSUME NEW i \in 0 .. Capacity - 1, i < record_size'
       PROVE  \/ \E v \in Workers : at'[v] = "channel" /\ index'[v] = i
              \/ \E q \in Counted' : channels'[i] = Channel[q]
  <2>1. CASE i = record_size
    BY <1>2, <2>1
  <2>2. CASE i # record_size
    <3>1. i < record_size
      BY <1>1, <1>4, <1>13, <2>2, PortsAssumption
    <3>2. CASE \E v \in Workers : at[v] = "channel" /\ index[v] = i
      BY <1>1, <1>2, <3>2
    <3>3. CASE \E q \in Counted : channels[i] = Channel[q]
      BY <1>1, <1>6, <3>3
    <3> QED
      BY <1>4, <3>1, <3>2, <3>3 DEF RecordInv
  <2> QED
    BY <2>1, <2>2
<1>14. record_size' >= 0 /\ ~ (record_size' < 0) /\ record_size' = Cardinality(Counted')
  BY <1>1, <1>4, <1>7
<1> HIDE DEF p
<1> QED
  BY <1>7, <1>8, <1>9, <1>11, <1>12, <1>13, <1>14 DEF RecordInv

(* The slot is written, or the record overflows.                             *)
LEMMA RecordStore ==
  ASSUME EInv, OnceInv, RecordInv, WrittenOnce, FewChannels \/ ChannelsOrdered,
         NEW w \in Workers, StoreChannel(w), UNCHANGED execVars
  PROVE  RecordInv'
<1> USE DEF EInv
<1>1. /\ at[w] = "channel" /\ at' = [at EXCEPT ![w] = "written"]
      /\ IF index[w] >= Capacity THEN record_size' = -1 /\ channels' = channels
         ELSE /\ record_size' = record_size
              /\ channels' = IF index[w] >= 0 THEN [channels EXCEPT ![index[w]] = Channel[port[w]]]
                             ELSE channels
      /\ UNCHANGED <<is_present, port, index, wrote>>
  BY DEF StoreChannel, Goto, presence, locals, copyVars, execVars
<1>2. at'[w] = "written" /\ \A v \in Workers \ {w} : at'[v] = at[v]
  BY <1>1 DEF ExecTypeOK
<1>3. SparsePorts' = SparsePorts /\ Counted' = Counted
  BY <1>1, <1>2 DEF SparsePorts, Counted
<1>4. index[w] \in Nat /\ index[w] < Cardinality(Counted)
  BY <1>1 DEF RecordInv
<1>5. /\ \A v \in Workers :
           /\ at'[v] \in {"sparse", "channel"} => port'[v] \in is_present'
           /\ at'[v] = "channel" => index'[v] \in Nat /\ index'[v] < Cardinality(Counted')
      /\ \A u, v \in Workers :
           at'[u] = "channel" /\ at'[v] = "channel" /\ index'[u] = index'[v] => u = v
  BY <1>1, <1>2, <1>3 DEF RecordInv
<1>6. CASE index[w] >= Capacity
  <2>1. record_size' = -1 /\ ~ (record_size' >= 0)
    BY <1>1, <1>6
  <2>2. \A v \in Workers : at'[v] # "sparse"
    BY <1>1, <1>2, <1>6, OverflowIsLast
  <2> QED
    BY <1>3, <1>5, <2>1, <2>2 DEF RecordInv
<1>7. CASE ~ (index[w] >= Capacity)
  <2>1. /\ record_size' = record_size /\ index[w] \in 0 .. Capacity - 1
        /\ channels' = [channels EXCEPT ![index[w]] = Channel[port[w]]]
    BY <1>1, <1>4, <1>7, PortsAssumption
  <2>2. /\ channels'[index[w]] = Channel[port[w]]
        /\ \A i \in 0 .. Capacity - 1 : i # index[w] => channels'[i] = channels[i]
    BY <2>1 DEF PresenceTypeOK
  <2>3. /\ record_size' >= 0 => record_size' = Cardinality(Counted')
        /\ record_size' < 0 => \A v \in Workers : at'[v] # "sparse"
    BY <1>1, <1>2, <1>3, <2>1 DEF RecordInv
  <2>4. ASSUME record_size >= 0, NEW q \in Counted
        PROVE  Stored(q)' \/ \E v \in Workers : at'[v] = "channel" /\ port'[v] = q
    <3>1. CASE q = port[w]
      <4>1. index[w] < record_size'
        BY <1>4, <2>1, <2>4 DEF RecordInv
      <4>2. \A v \in Workers : at'[v] = "channel" => index'[v] # index[w]
        BY <1>1, <1>2 DEF RecordInv
      <4> QED
        BY <2>1, <2>2, <3>1, <4>1, <4>2 DEF Stored
    <3>2. CASE q # port[w] /\ Stored(q)
      <4>1. PICK i \in 0 .. Capacity - 1 :
              /\ i < record_size /\ channels[i] = Channel[q]
              /\ \A v \in Workers : at[v] = "channel" => index[v] # i
        BY <3>2 DEF Stored
      <4>2. channels'[i] = Channel[q]
        BY <1>1, <2>2, <4>1
      <4> QED
        BY <1>1, <1>2, <2>1, <4>1, <4>2 DEF Stored
    <3>3. CASE q # port[w] /\ ~ Stored(q)
      <4>1. PICK v \in Workers : at[v] = "channel" /\ port[v] = q
        BY <2>4, <3>3 DEF RecordInv
      <4> QED
        BY <1>1, <1>2, <3>3, <4>1
    <3> QED
      BY <3>1, <3>2, <3>3
  <2>5. ASSUME record_size >= 0, NEW i \in 0 .. Capacity - 1, i < record_size
        PROVE  \/ \E v \in Workers : at'[v] = "channel" /\ index'[v] = i
               \/ \E q \in Counted : channels'[i] = Channel[q]
    <3>1. CASE i = index[w]
      <4>1. port[w] \in Counted
        <5>1. port[w] \in is_present
          BY <1>1 DEF RecordInv
        <5>2. port[w] \in SparsePorts
          <6>1. /\ current[w] \in Reactions /\ port[w] \in Outputs[current[w]]
                /\ Channel[port[w]] >= 0
            BY <1>1 DEF WorkerInv, ExecTypeOK, WriteInv, Writing
          <6> QED
            BY <6>1, TablesTyped DEF SparsePorts
        <5>3. \A v \in Workers : at[v] = "sparse" => port[v] # port[w]
          BY <1>1, <5>2, OneWriter DEF Writing, Writes, WrittenOnce
        <5> QED
          BY <5>1, <5>2, <5>3 DEF Counted
      <4> QED
        BY <2>2, <3>1, <4>1
    <3>2. CASE i # index[w]
      <4>1. CASE \E v \in Workers : at[v] = "channel" /\ index[v] = i
        BY <1>1, <1>2, <3>2, <4>1
      <4>2. CASE \E q \in Counted : channels[i] = Channel[q]
        BY <2>2, <3>2, <4>2
      <4> QED
        BY <2>5, <4>1, <4>2 DEF RecordInv
    <3> QED
      BY <3>1, <3>2
  <2> QED
    BY <1>3, <1>5, <2>1, <2>3, <2>4, <2>5 DEF RecordInv
<1> QED
  BY <1>6, <1>7

(* The record starts empty at every tag.                                     *)
LEMMA RecordAdvance ==
  ASSUME EInv, AdvanceTag
  PROVE  RecordInv'
<1> USE DEF EInv
<1>1. /\ is_present' = is_present \ Cleared /\ UNCHANGED at /\ wrote' = {} /\ record_size' = 0
      /\ \A v \in Workers : at[v] = "idle"
  BY DEF AdvanceTag, StartTimeStep, Quiet
<1>2. is_present' = {}
  BY <1>1, IdleListIsComplete
<1>3. Counted' = {}
  BY <1>2 DEF Counted
<1>4. Cardinality(Counted') = 0
  BY <1>3, FS_EmptySet
<1> QED
  BY <1>1, <1>3, <1>4 DEF RecordInv

(* The record.                                                               *)
LEMMA RecordNext ==
  ASSUME EInv, OnceInv, RecordInv, WrittenOnce, FewChannels \/ ChannelsOrdered, [Next]_vars
  PROVE  RecordInv'
<1> USE DEF EInv
<1>1. ASSUME NEW w \in Workers, \/ ScheduleOutputs(w) \/ MakeCopy(w) \/ Run(w) \/ Skip(w)
                                \/ \E r \in Reactions : GetReady(w, r)
      PROVE  RecordInv'
  <2>1. /\ UNCHANGED <<is_present, record_size, channels, wrote, port, index>>
        /\ at[w] \notin {"sparse", "channel"}
        /\ \E to \in Locations \ {"sparse", "channel"} : at' = [at EXCEPT ![w] = to]
    <3>1. CASE ScheduleOutputs(w)
      <4>1. /\ at[w] = "body"
            /\ UNCHANGED <<is_present, record_size, channels, wrote, port, index>>
        BY <3>1 DEF ScheduleOutputs, presence, record
      <4>2. at' \in {[at EXCEPT ![w] = "idle"], [at EXCEPT ![w] = "invoke"]}
        BY <3>1, ScheduleSplits DEF Done
      <4> QED
        BY <4>1, <4>2 DEF Locations
    <3>2. CASE ~ ScheduleOutputs(w)
      BY <1>1, <3>2, CopySteps DEF Copying, Run, Skip, Done, GetReady, Goto, portVars, presence,
                                   record, locals, Locations
    <3> QED
      BY <3>1, <3>2
  <2>2. \A v \in Workers : at'[v] = at[v] \/ /\ at[v] \notin {"sparse", "channel"}
                                             /\ at'[v] \notin {"sparse", "channel"}
    BY <2>1 DEF ExecTypeOK
  <2> QED
    BY <2>1, <2>2, RecordUntouched
<1>2. ASSUME NEW w \in Workers, NEW p \in Ports, BeginWrite(w, p)
      PROVE  RecordInv'
  <2>1. /\ at[w] = "body" /\ at' = [at EXCEPT ![w] = "mark"] /\ todo[w][p] > 0
        /\ port' = [port EXCEPT ![w] = p] /\ index' = [index EXCEPT ![w] = abbreviated_size]
        /\ wrote' = wrote \cup {p}
        /\ UNCHANGED <<is_present, record_size, channels>>
    BY <1>2 DEF BeginWrite, CountPresent, Goto, record
  <2>4. \A v \in Workers : \/ at'[v] = at[v] /\ port'[v] = port[v] /\ index'[v] = index[v]
                           \/ /\ at[v] \notin {"sparse", "channel"}
                              /\ at'[v] \notin {"sparse", "channel"}
    BY <2>1 DEF ExecTypeOK, PresenceTypeOK
  <2> QED
    BY <2>1, <2>4, RecordUntouched
<1>3. ASSUME NEW w \in Workers, SetToken(w), UNCHANGED execVars
      PROVE  RecordInv'
  <2>1. /\ at[w] = "written" /\ at' = [at EXCEPT ![w] = "body"]
        /\ port' = [port EXCEPT ![w] = NULL] /\ index' = [index EXCEPT ![w] = 0]
        /\ UNCHANGED <<is_present, record_size, channels, wrote>>
    BY <1>3 DEF SetToken, Goto, record, presence, execVars
  <2>2. \A v \in Workers : \/ at'[v] = at[v] /\ port'[v] = port[v] /\ index'[v] = index[v]
                           \/ /\ at[v] \notin {"sparse", "channel"}
                              /\ at'[v] \notin {"sparse", "channel"}
    BY <2>1 DEF ExecTypeOK, PresenceTypeOK
  <2> QED
    BY <2>1, <2>2, RecordUntouched
<1>4. ASSUME NEW w \in Workers, BodyStep(w)
      PROVE  RecordInv'
  BY <1>1, <1>2, <1>3, <1>4, RecordMark, RecordCount, RecordStore DEF BodyStep, Write
<1>5. CASE AdvanceTag
  BY <1>5, RecordAdvance
<1>6. CASE UNCHANGED vars
  <2>1. UNCHANGED <<is_present, record_size, channels, wrote, port, index, at>>
    BY <1>6 DEF vars, portVars, presence, record, locals, copyVars, execVars
  <2> QED
    BY <2>1, RecordUntouched
<1> QED
  BY <1>1, <1>4, <1>5, <1>6, StepKinds

(* The record lists what is present.                                         *)
LEMMA RecordLists ==
  ASSUME EInv, RecordInv
  PROVE  PresenceRecorded
<1>1. ASSUME \A w \in Workers : at[w] \notin Writing, record_size >= 0
      PROVE  {Channel[p] : p \in {q \in is_present : Channel[q] >= 0}} =
               {channels[i] : i \in DOMAIN channels \cap 0 .. record_size - 1}
  <2>1. {q \in is_present : Channel[q] >= 0} = Counted
    BY <1>1 DEF Counted, SparsePorts, Writing, EInv, PresenceTypeOK
  <2>2. DOMAIN channels = 0 .. Capacity - 1 /\ record_size \in Nat /\ Capacity \in Nat
    BY <1>1, PortsAssumption DEF EInv, PresenceTypeOK
  <2>3. ASSUME NEW p \in Counted
        PROVE  \E i \in DOMAIN channels \cap 0 .. record_size - 1 : channels[i] = Channel[p]
    <3>1. Stored(p)
      BY <1>1 DEF RecordInv, Writing
    <3> QED
      BY <2>2, <3>1 DEF Stored
  <2>4. ASSUME NEW i \in DOMAIN channels \cap 0 .. record_size - 1
        PROVE  \E p \in Counted : channels[i] = Channel[p]
    BY <1>1, <2>2 DEF RecordInv, Writing
  <2> QED
    BY <2>1, <2>3, <2>4
<1> QED
  BY <1>1 DEF EInv, WriteInv, PresenceRecorded, SparseComplete

(* The record is empty at first.                                             *)
LEMMA RecordInit == Init => OnceInv /\ RecordInv
<1> SUFFICES ASSUME Init
             PROVE  OnceInv /\ RecordInv
  OBVIOUS
<1>1. /\ wrote = {} /\ is_present = {} /\ record_size = 0
      /\ \A w \in Workers : at[w] = "idle" /\ todo[w] = Nothing
  BY InitFacts
<1>2. Counted = {}
  BY <1>1 DEF Counted
<1>3. Cardinality(Counted) = 0
  BY <1>2, FS_EmptySet
<1>4. RecordInv
  BY <1>1, <1>2, <1>3, PortsAssumption DEF RecordInv
<1> QED
  BY <1>1, <1>4 DEF OnceInv, Nothing, OncePorts

(* What is written stays written until the tag is over.                      *)
LEMMA FewBefore ==
  ASSUME EInv, [Next]_vars, ~ AdvanceTag, FewChannels'
  PROVE  FewChannels
<1>1. wrote \subseteq wrote'
  <2>1. ASSUME NEW w \in Workers, BodyStep(w)
        PROVE  wrote \subseteq wrote'
    BY <2>1 DEF BodyStep, MakeCopy, BeginWrite, Write, execVars
  <2>2. ASSUME NEW w \in Workers,
               \/ Run(w) \/ Skip(w) \/ ScheduleOutputs(w)
               \/ \E r \in Reactions : GetReady(w, r)
        PROVE  wrote \subseteq wrote'
    BY <2>2 DEF Run, Skip, ScheduleOutputs, GetReady
  <2>3. CASE UNCHANGED vars
    BY <2>3 DEF vars, execVars
  <2> QED
    BY <2>1, <2>2, <2>3, StepKinds
<1>2. SparsePorts' = SparsePorts
  BY DEF SparsePorts
<1>3. /\ wrote \cap SparsePorts \subseteq wrote' \cap SparsePorts
      /\ wrote' \cap SparsePorts \subseteq Ports
  BY <1>1 DEF SparsePorts
<1>4. IsFiniteSet(wrote' \cap SparsePorts)
  BY <1>3, PortsAssumption, FS_Subset
<1>5. /\ Cardinality(wrote \cap SparsePorts) <= Cardinality(wrote' \cap SparsePorts)
      /\ Cardinality(wrote' \cap SparsePorts) \in Nat
  BY <1>3, <1>4, FS_Subset, FS_CardinalityType
<1>6. Cardinality(wrote' \cap SparsePorts) <= Capacity + 1
  BY <1>2 DEF FewChannels
<1> QED
  BY <1>5, <1>6, CountedFacts DEF FewChannels

(* Whenever no write is under way, the sparse record lists exactly the       *)
(* channels that are present, or says that it overflowed, as long as the tag *)
(* has seen at most one channel more than there is room for; what earlier    *)
(* tags wrote does not matter.  At a tag with two channels too many that are *)
(* written at once it may list fewer: the writer that finds the record full  *)
(* sets its size to -1, and the next one counts that up.                     *)
THEOREM RecordIsComplete ==
  ASSUME WrittenOnce
  PROVE  Spec => [](FewChannels => PresenceRecorded)
<1> DEFINE Inv == EInv /\ OnceInv /\ (FewChannels => RecordInv)
<1>1. Init => Inv
  BY InitInv, RecordInit
<1>2. Inv /\ EInv' /\ [Next]_vars => Inv'
  <2> SUFFICES ASSUME EInv, OnceInv, FewChannels => RecordInv, [Next]_vars, FewChannels'
               PROVE  RecordInv'
    BY OnceNext
  <2>1. CASE AdvanceTag
    BY <2>1, RecordAdvance
  <2>2. CASE ~ AdvanceTag
    BY <2>2, FewBefore, RecordNext
  <2> QED
    BY <2>1, <2>2
<1>3. Inv => (FewChannels => PresenceRecorded)
  BY RecordLists
<1> QED
  BY <1>1, <1>2, <1>3, InvHolds, PTL DEF Spec

(* If the reactions that write channels have to precede one another, the     *)
(* overflow protocol works for any number of channels and any room: the      *)
(* record lists what is present or says that it does not.                    *)
THEOREM OrderedWritersRecord ==
  ASSUME WrittenOnce, ChannelsOrdered
  PROVE  Spec => []PresenceRecorded
<1>1. EInv /\ OnceInv /\ RecordInv /\ [Next]_vars => OnceInv' /\ RecordInv'
  BY OnceNext, RecordNext
<1>2. EInv /\ RecordInv => PresenceRecorded
  BY RecordLists
<1> QED
  BY <1>1, <1>2, RecordInit, InvHolds, PTL DEF Spec

-----------------------------------------------------------------------------
(* The store of tokens *)

(* _lf_free_token: the token is in the bin or gone, unless it is a template. *)
LEMMA FreeTokenFields ==
  ASSUME NEW s \in Store, NEW t \in Tokens
  PROVE  LET u == FreeToken(s, t)
             freed == s.token[t].ok_to_free
             kept == Len(s.bin) < BinLimit
         IN  /\ u \in Store
             /\ \A k \in Tokens \ {t} : u.token[k] = s.token[k]
             /\ u.token[t].ref_count = IF freed /\ ~kept THEN 0 ELSE s.token[t].ref_count
             /\ ~freed => ~u.token[t].ok_to_free
             /\ u.allocated = IF freed /\ ~kept THEN s.allocated \ {t} ELSE s.allocated
             /\ u.bin = IF freed /\ kept THEN <<t>> \o s.bin ELSE s.bin
             /\ u.count = IF freed THEN s.count - 1 ELSE s.count
<1> DEFINE v == [s EXCEPT !.token[t].value = FALSE]
           w == [v EXCEPT !.count = @ - 1]
           w1 == [w EXCEPT !.bin = <<t>> \o @]
           w2 == [w EXCEPT !.allocated = @ \ {t}, !.token[t] = Blank]
<1>1. FreeToken(s, t) = IF ~s.token[t].ok_to_free THEN v
                        ELSE IF Len(s.bin) < BinLimit THEN w1 ELSE w2
  BY DEF FreeToken
<1>2. /\ v \in Store /\ v.allocated = s.allocated /\ v.bin = s.bin /\ v.count = s.count
      /\ \A k \in Tokens \ {t} : v.token[k] = s.token[k]
      /\ v.token[t].ref_count = s.token[t].ref_count
      /\ v.token[t].ok_to_free = s.token[t].ok_to_free
  BY DEF Store, TokenState
<1> HIDE DEF v
<1>3. w \in Store /\ w.token = v.token /\ w.allocated = v.allocated /\ w.bin = v.bin
      /\ w.count = v.count - 1
  BY <1>2 DEF Store
<1> HIDE DEF w
<1>4. <<t>> \o w.bin \in Seq(Tokens)
  <2>1. w.bin \in Seq(Tokens) /\ <<t>> \in Seq(Tokens)
    BY <1>3 DEF Store
  <2> QED
    BY <2>1, ConcatProperties
<1>5. /\ w1 \in Store /\ w1.token = w.token /\ w1.allocated = w.allocated
      /\ w1.bin = <<t>> \o w.bin /\ w1.count = w.count
  BY <1>3, <1>4 DEF Store
<1>6. /\ w2 \in Store /\ w2.allocated = w.allocated \ {t} /\ w2.bin = w.bin /\ w2.count = w.count
      /\ w2.token[t].ref_count = 0 /\ \A k \in Tokens \ {t} : w2.token[k] = w.token[k]
  BY <1>3 DEF Store, TokenState, Blank
<1> HIDE DEF w1, w2
<1>7. CASE ~s.token[t].ok_to_free
  BY <1>1, <1>2, <1>7
<1>8. CASE s.token[t].ok_to_free /\ Len(s.bin) < BinLimit
  BY <1>1, <1>2, <1>3, <1>5, <1>8
<1>9. CASE s.token[t].ok_to_free /\ ~(Len(s.bin) < BinLimit)
  BY <1>1, <1>2, <1>3, <1>6, <1>9
<1> QED
  BY <1>7, <1>8, <1>9

(* The count of references is set.                                           *)
LEMMA CountFields ==
  ASSUME NEW s \in Store, NEW t \in Tokens, NEW n \in Nat
  PROVE  LET u == [s EXCEPT !.token[t].ref_count = n]
         IN  /\ u \in Store
             /\ \A k \in Tokens \ {t} : u.token[k] = s.token[k]
             /\ u.token[t].ref_count = n /\ u.token[t].ok_to_free = s.token[t].ok_to_free
             /\ u.allocated = s.allocated /\ u.bin = s.bin /\ u.count = s.count
BY DEF Store, TokenState

(* _lf_done_using: a reference less, and without references the token is     *)
(* freed.                                                                    *)
LEMMA DoneUsingFields ==
  ASSUME NEW s \in Store, NEW t \in Tokens, s.token[t].ref_count > 0
  PROVE  LET u == DoneUsing(s, t)
             freed == s.token[t].ref_count = 1 /\ s.token[t].ok_to_free
             kept == Len(s.bin) < BinLimit
         IN  /\ u \in Store
             /\ \A k \in Tokens \ {t} : u.token[k] = s.token[k]
             /\ u.token[t].ref_count = s.token[t].ref_count - 1
             /\ ~s.token[t].ok_to_free => ~u.token[t].ok_to_free
             /\ u.allocated = IF freed /\ ~kept THEN s.allocated \ {t} ELSE s.allocated
             /\ u.bin = IF freed /\ kept THEN <<t>> \o s.bin ELSE s.bin
             /\ u.count = IF freed THEN s.count - 1 ELSE s.count
<1> DEFINE d == [s EXCEPT !.token[t].ref_count = @ - 1]
<1>1. t # NULL /\ s.token[t].ref_count \in Nat
  BY TokensAssumption DEF Store, TokenState
<1>2. /\ d \in Store /\ d.allocated = s.allocated /\ d.bin = s.bin /\ d.count = s.count
      /\ \A k \in Tokens \ {t} : d.token[k] = s.token[k]
      /\ d.token[t].ref_count = s.token[t].ref_count - 1
      /\ d.token[t].ok_to_free = s.token[t].ok_to_free
  <2> DEFINE n == s.token[t].ref_count - 1
  <2>1. n \in Nat
    BY <1>1
  <2>2. d = [s EXCEPT !.token[t].ref_count = n]
    OBVIOUS
  <2> HIDE DEF n, d
  <2>3. /\ d \in Store /\ d.allocated = s.allocated /\ d.bin = s.bin /\ d.count = s.count
        /\ \A k \in Tokens \ {t} : d.token[k] = s.token[k]
        /\ d.token[t].ref_count = n /\ d.token[t].ok_to_free = s.token[t].ok_to_free
    BY <2>1, <2>2, CountFields
  <2> QED
    BY <2>3 DEF n
<1>3. DoneUsing(s, t) = IF d.token[t].ref_count = 0 THEN FreeToken(d, t) ELSE d
  BY <1>1 DEF DoneUsing
<1> HIDE DEF d
<1>4. CASE d.token[t].ref_count = 0
  <2>1. LET u == FreeToken(d, t)
            freed == d.token[t].ok_to_free
            kept == Len(d.bin) < BinLimit
        IN  /\ u \in Store
            /\ \A k \in Tokens \ {t} : u.token[k] = d.token[k]
            /\ u.token[t].ref_count = IF freed /\ ~kept THEN 0 ELSE d.token[t].ref_count
            /\ ~freed => ~u.token[t].ok_to_free
            /\ u.allocated = IF freed /\ ~kept THEN d.allocated \ {t} ELSE d.allocated
            /\ u.bin = IF freed /\ kept THEN <<t>> \o d.bin ELSE d.bin
            /\ u.count = IF freed THEN d.count - 1 ELSE d.count
    BY <1>2, FreeTokenFields
  <2>2. DoneUsing(s, t) = FreeToken(d, t) /\ s.token[t].ref_count = 1
    BY <1>1, <1>2, <1>3, <1>4
  <2> QED
    BY <1>2, <1>4, <2>1, <2>2
<1>5. CASE d.token[t].ref_count # 0
  BY <1>1, <1>2, <1>3, <1>5
<1> QED
  BY <1>4, <1>5

(* A release is without effect on what is not referenced.                    *)
LEMMA DoneUsingType ==
  ASSUME NEW s \in Store, NEW t \in Tokens \cup {NULL}
  PROVE  DoneUsing(s, t) \in Store
<1>1. CASE t = NULL \/ s.token[t].ref_count = 0
  BY <1>1 DEF DoneUsing
<1>2. CASE ~ (t = NULL \/ s.token[t].ref_count = 0)
  <2>1. t \in Tokens /\ s.token[t].ref_count > 0
    BY <1>2 DEF Store, TokenState
  <2> QED
    BY <2>1, DoneUsingFields
<1> QED
  BY <1>1, <1>2

-----------------------------------------------------------------------------
(* The folds of _lf_start_time_step *)

(* The steps of a fold keep a type, the elements are taken in the order c,   *)
(* and g is the function that the fold is defined from.                      *)
KeepsType(G, S, V) == \A x \in S, s \in V : G[x][s] \in V
Chooses(c, S) == \A P \in SUBSET S : P # {} => c[P] \in P
Folded(g, G, c, base, S, V) ==
  /\ g \in [SUBSET S -> V]
  /\ \A P \in SUBSET S : g[P] = IF P = {} THEN base ELSE G[c[P]][g[P \ {c[P]}]]

(* Over a finite set there is such a function.                               *)
LEMMA FoldDefined ==
  ASSUME NEW S, IsFiniteSet(S), NEW V, NEW base, base \in V, NEW G, KeepsType(G, S, V),
         NEW c, Chooses(c, S)
  PROVE  \E g : Folded(g, G, c, base, S, V)
<1> USE DEF KeepsType, Chooses, Folded
<1> DEFINE round(g, P) == IF P = {} THEN base ELSE G[c[P]][g[P \ {c[P]}]]
           small(n) == {P \in SUBSET S : Cardinality(P) <= n}
           Good(n, g) == g \in [small(n) -> V] /\ \A P \in small(n) : g[P] = round(g, P)
           bad == {n \in Nat : ~ \E g : Good(n, g)}
<1>1. ASSUME NEW P \in SUBSET S
      PROVE  /\ Cardinality(P) \in Nat /\ (Cardinality(P) = 0 <=> P = {})
             /\ P # {} => /\ c[P] \in P /\ P \ {c[P]} \in SUBSET S
                          /\ Cardinality(P \ {c[P]}) = Cardinality(P) - 1
  <2>1. IsFiniteSet(P) /\ Cardinality(P) \in Nat /\ (Cardinality(P) = 0 <=> P = {})
    BY FS_Subset, FS_CardinalityType, FS_EmptySet
  <2>2. ASSUME P # {}
        PROVE  c[P] \in P /\ Cardinality(P \ {c[P]}) = Cardinality(P) - 1
    <3>1. c[P] \in P
      BY <2>2
    <3> QED
      BY <2>1, <3>1, FS_RemoveElement
  <2> QED
    BY <2>1, <2>2
<1>2. bad = {}
  <2> SUFFICES ASSUME bad # {}
               PROVE  FALSE
    OBVIOUS
  <2>1. PICK n \in bad : \A k \in bad : n <= k
    <3>1. bad \in SUBSET Nat
      OBVIOUS
    <3> HIDE DEF bad
    <3> QED
      BY <3>1, LeastNatural
  <2>2. n \in Nat /\ ~ \E g : Good(n, g)
    BY <2>1
  <2>3. CASE n = 0
    <3> DEFINE h == [P \in small(0) |-> base]
    <3>1. \A P \in small(0) : P = {}
      <4>1. ASSUME NEW P \in SUBSET S, Cardinality(P) <= 0
            PROVE  P = {}
        <5>1. Cardinality(P) \in Nat /\ (Cardinality(P) = 0 <=> P = {})
          BY <1>1
        <5> QED
          BY <4>1, <5>1
      <4> QED
        BY <4>1
    <3>2. Good(0, h)
      BY <3>1
    <3> QED
      BY <2>2, <2>3, <3>2
  <2>4. CASE n # 0
    <3>1. n - 1 \in Nat /\ n - 1 \notin bad
      <4> HIDE DEF bad
      <4> QED
        BY <2>1, <2>2, <2>4
    <3>2. PICK g : Good(n - 1, g)
      BY <3>1
    <3> DEFINE h == [P \in small(n) |-> IF P \in small(n - 1) THEN g[P] ELSE round(g, P)]
    <3>3. ASSUME NEW P \in small(n), P # {}
          PROVE  /\ P \ {c[P]} \in small(n - 1) /\ P \ {c[P]} \in small(n) /\ c[P] \in S
      <4>1. P \in SUBSET S /\ Cardinality(P) <= n /\ Cardinality(P) \in Nat
        BY <1>1
      <4>2. P \ {c[P]} \in SUBSET S /\ Cardinality(P \ {c[P]}) = Cardinality(P) - 1
        BY <1>1, <3>3, <4>1
      <4>3. Cardinality(P) - 1 <= n - 1 /\ Cardinality(P) - 1 <= n
        BY <2>2, <4>1
      <4> QED
        BY <1>1, <3>3, <4>1, <4>2, <4>3
    <3>4. ASSUME NEW P \in small(n)
          PROVE  h[P] \in V /\ h[P] = round(h, P)
      <4>1. CASE P = {}
        <5>1. {} \in small(n - 1)
          BY <1>1, <2>2, <2>4, FS_EmptySet
        <5> HIDE DEF small
        <5> QED
          BY <3>2, <4>1, <5>1
      <4>2. CASE P # {}
        <5> DEFINE Q == P \ {c[P]}
        <5>1. Q \in small(n - 1) /\ Q \in small(n) /\ c[P] \in S
          BY <3>3, <4>2
        <5> HIDE DEF Q, small
        <5>2. h[Q] = g[Q] /\ g[Q] \in V
          BY <3>2, <5>1
        <5>3. round(h, P) = G[c[P]][g[Q]] /\ round(g, P) = G[c[P]][g[Q]]
          BY <4>2, <5>2 DEF Q
        <5>4. G[c[P]][g[Q]] \in V
          BY <5>1, <5>2
        <5>5. h[P] = round(g, P)
          <6>1. CASE P \in small(n - 1)
            BY <3>2, <6>1
          <6>2. CASE P \notin small(n - 1)
            BY <6>2
          <6> QED
            BY <6>1, <6>2
        <5> QED
          BY <5>3, <5>4, <5>5
      <4> QED
        BY <4>1, <4>2
    <3>5. Good(n, h)
      <4>1. h = [P \in small(n) |-> h[P]]
        OBVIOUS
      <4> HIDE DEF h, small, round
      <4>2. h \in [small(n) -> V]
        BY <3>4, <4>1
      <4> QED
        BY <3>4, <4>2
    <3> QED
      BY <2>2, <3>5
  <2> QED
    BY <2>3, <2>4
<1>3. Cardinality(S) \in Nat /\ small(Cardinality(S)) = SUBSET S
  <2>1. Cardinality(S) \in Nat
    BY FS_CardinalityType
  <2>2. \A P \in SUBSET S : Cardinality(P) <= Cardinality(S)
    BY FS_Subset
  <2> QED
    BY <2>1, <2>2
<1>4. PICK g : Good(Cardinality(S), g)
  <2>1. Cardinality(S) \notin bad
    <3> HIDE DEF bad
    <3> QED
      BY <1>2
  <2> QED
    BY <1>3, <2>1
<1> QED
  BY <1>3, <1>4

(* The greatest index of a set.                                              *)
LEMMA GreatestIndex ==
  ASSUME NEW n \in Nat, NEW P \in SUBSET (1 .. n), P # {}
  PROVE  Max(P) \in P /\ \A y \in P : y <= Max(P)
<1> DEFINE D == {n - x : x \in P}
<1>1. D \in SUBSET Nat /\ D # {}
  <2>1. \A x \in P : n - x \in Nat
    OBVIOUS
  <2> QED
    BY <2>1
<1>2. PICK d \in D : \A e \in D : d <= e
  <2> HIDE DEF D
  <2> QED
    BY <1>1, LeastNatural
<1>3. PICK x \in P : d = n - x
  BY <1>2
<1>4. ASSUME NEW y \in P
      PROVE  x >= y
  <2>1. n - y \in D
    OBVIOUS
  <2> HIDE DEF D
  <2>2. n - x <= n - y
    BY <1>2, <1>3, <2>1
  <2>3. x \in Int /\ y \in Int
    OBVIOUS
  <2> QED
    BY <2>2, <2>3
<1>5. \E z \in P : \A y \in P : z >= y
  BY <1>4
<1>6. Max(P) \in P /\ \A y \in P : Max(P) >= y
  BY <1>5 DEF Max
<1>7. \A z \in P : z \in Int
  OBVIOUS
<1> QED
  BY <1>6, <1>7

(* The fold over a sequence of tokens releases them one after the other.     *)
LEMMA FoldLeftReleases ==
  ASSUME NEW base \in Store, NEW seq \in Seq(Tokens)
  PROVE  \E it \in [0 .. Len(seq) -> Store] :
           /\ it[0] = base
           /\ \A k \in 1 .. Len(seq) : it[k] = DoneUsing(it[k - 1], seq[k])
           /\ FoldLeft(DoneUsing, base, seq) = it[Len(seq)]
<1> DEFINE S == DOMAIN seq
           n == Len(seq)
           c == [P \in SUBSET S |-> Max(P)]
           G == [i \in S |-> [s \in Store |-> DoneUsing(s, seq[i])]]
           round(g, P) == IF P = {} THEN base ELSE DoneUsing(g[P \ {Max(P)}], seq[Max(P)])
           iter[P \in SUBSET S] == round(iter, P)
<1>1. n \in Nat /\ S = 1 .. n /\ IsFiniteSet(S) /\ \A i \in S : seq[i] \in Tokens
  BY LenProperties, ElementOfSeq, FS_Interval
<1>2. FoldLeft(DoneUsing, base, seq) = iter[S]
  BY DEF FoldLeft, MapThenFoldSet
<1>3. \A P \in SUBSET S : P # {} => Max(P) \in P /\ \A y \in P : y <= Max(P)
  <2> HIDE DEF S, n
  <2> QED
    BY <1>1, GreatestIndex
<1>4. PICK g \in [SUBSET S -> Store] : \A P \in SUBSET S : g[P] = round(g, P)
  <2>1. \A i \in S, s \in Store : G[i][s] \in Store /\ G[i][s] = DoneUsing(s, seq[i])
    BY <1>1, DoneUsingType
  <2>2. \A P \in SUBSET S : c[P] = Max(P)
    OBVIOUS
  <2>3. \A P \in SUBSET S : P # {} => c[P] \in P
    BY <1>3, <2>2
  <2> HIDE DEF S, n, c, G, iter
  <2>4. KeepsType(G, S, Store) /\ Chooses(c, S)
    BY <2>1, <2>3 DEF KeepsType, Chooses
  <2>5. IsFiniteSet(S) /\ base \in Store
    BY <1>1
  <2>6. \E g : Folded(g, G, c, base, S, Store)
    BY <2>4, <2>5, FoldDefined
  <2>7. PICK g : /\ g \in [SUBSET S -> Store]
                 /\ \A P \in SUBSET S :
                      g[P] = IF P = {} THEN base ELSE G[c[P]][g[P \ {c[P]}]]
    BY <2>6 DEF Folded
  <2>8. ASSUME NEW P \in SUBSET S
        PROVE  g[P] = round(g, P)
    <3>1. CASE P = {}
      BY <2>7, <3>1
    <3>2. CASE P # {}
      <4>1. c[P] = Max(P) /\ c[P] \in S /\ P \ {c[P]} \in SUBSET S
        BY <2>2, <2>3, <3>2
      <4>2. g[P \ {c[P]}] \in Store
        BY <2>7, <4>1
      <4>3. G[c[P]][g[P \ {c[P]}]] = DoneUsing(g[P \ {c[P]}], seq[c[P]])
        BY <2>1, <4>1, <4>2
      <4> QED
        BY <2>7, <3>2, <4>1, <4>3
    <3> QED
      BY <3>1, <3>2
  <2> QED
    BY <2>7, <2>8
<1>5. g = [P \in SUBSET S |-> round(g, P)]
  <2>1. g = [P \in SUBSET S |-> g[P]]
    OBVIOUS
  <2> QED
    BY <1>4, <2>1
<1>6. iter = [P \in SUBSET S |-> round(iter, P)]
  BY <1>5
<1> HIDE DEF iter
<1>7. ASSUME NEW P \in SUBSET S
      PROVE  iter[P] = round(iter, P)
  <2> DEFINE k == [Q \in SUBSET S |-> round(iter, Q)]
  <2>1. iter = k
    BY <1>6
  <2>2. k[P] = round(iter, P)
    OBVIOUS
  <2> HIDE DEF k
  <2> QED
    BY <2>1, <2>2
<1> DEFINE it == [k \in 0 .. n |-> iter[1 .. k]]
<1>8. it[0] = base
  <2>1. 1 .. 0 = {} /\ 0 \in 0 .. n
    BY <1>1
  <2> QED
    BY <1>7, <2>1
<1>9. ASSUME NEW k \in 1 .. n
      PROVE  it[k] = DoneUsing(it[k - 1], seq[k])
  <2>1. /\ 1 .. k \in SUBSET S /\ k \in 1 .. k /\ k \in 0 .. n /\ k - 1 \in 0 .. n
        /\ (1 .. k) \ {k} = 1 .. k - 1
    BY <1>1
  <2>2. Max(1 .. k) = k
    <3>1. Max(1 .. k) \in 1 .. k /\ k <= Max(1 .. k)
      BY <1>3, <2>1
    <3> QED
      BY <3>1
  <2>3. iter[1 .. k] = DoneUsing(iter[(1 .. k) \ {k}], seq[k])
    BY <1>7, <2>1, <2>2
  <2> QED
    BY <2>1, <2>3
<1>10. ASSUME NEW k \in 0 .. n
       PROVE  it[k] \in Store
  <2> DEFINE bad == {i \in 0 .. n : it[i] \notin Store}
  <2> SUFFICES ASSUME bad # {}
               PROVE  FALSE
    OBVIOUS
  <2> HIDE DEF it
  <2>1. PICK i \in bad : \A j \in bad : i <= j
    <3>1. bad \in SUBSET Nat
      OBVIOUS
    <3> HIDE DEF bad
    <3> QED
      BY <3>1, LeastNatural
  <2>2. i \in 0 .. n /\ it[i] \notin Store /\ i # 0
    BY <1>8, <2>1
  <2>3. i \in 1 .. n /\ i - 1 \in 0 .. n /\ ~ (i <= i - 1)
    BY <1>1, <2>2
  <2>4. it[i - 1] \in Store
    BY <2>1, <2>3
  <2>5. DoneUsing(it[i - 1], seq[i]) \in Store
    BY <1>1, <2>3, <2>4, DoneUsingType
  <2> QED
    BY <1>9, <2>2, <2>3, <2>5
<1>11. it \in [0 .. n -> Store]
  BY <1>10
<1>12. it[n] = iter[S]
  BY <1>1
<1> HIDE DEF it
<1> QED
  BY <1>2, <1>8, <1>9, <1>11, <1>12

-----------------------------------------------------------------------------
(* Sequences of different tokens *)

(* A token in front.                                                         *)
LEMMA InFront ==
  ASSUME NEW q \in Seq(Tokens), NEW t \in Tokens
  PROVE  LET r == <<t>> \o q
         IN  /\ r \in Seq(Tokens) /\ Len(r) = Len(q) + 1 /\ r # <<>> /\ Head(r) = t
             /\ ToSet(r) = {t} \cup ToSet(q)
             /\ IsInjective(q) /\ t \notin ToSet(q) => IsInjective(r)
<1> DEFINE r == <<t>> \o q
           n == Len(q)
<1>1. /\ n \in Nat /\ DOMAIN q = 1 .. n /\ <<t>> \in Seq(Tokens) /\ Len(<<t>>) = 1
      /\ <<t>>[1] = t
  BY LenProperties
<1>2. /\ r \in Seq(Tokens) /\ Len(r) = n + 1
      /\ \A i \in 1 .. n + 1 : r[i] = IF i <= 1 THEN <<t>>[i] ELSE q[i - 1]
  BY <1>1, ConcatProperties
<1> HIDE DEF r
<1>3. DOMAIN r = 1 .. n + 1
  BY <1>2, LenProperties
<1>4. r[1] = t /\ \A i \in 2 .. n + 1 : r[i] = q[i - 1] /\ i - 1 \in 1 .. n
  BY <1>1, <1>2
<1>5. \A i \in 1 .. n : r[i + 1] = q[i] /\ i + 1 \in 1 .. n + 1
  BY <1>1, <1>4
<1>6. \A i \in 1 .. n + 1 : i = 1 \/ i \in 2 .. n + 1
  BY <1>1
<1>7. 1 \in 1 .. n + 1 /\ r # <<>> /\ Head(r) = t
  BY <1>1, <1>2, <1>3, <1>4
<1>8. ToSet(r) = {t} \cup ToSet(q)
  <2>1. \A x \in ToSet(r) : x \in {t} \cup ToSet(q)
    BY <1>1, <1>3, <1>4, <1>6 DEF ToSet
  <2>2. \A x \in {t} \cup ToSet(q) : x \in ToSet(r)
    BY <1>1, <1>3, <1>4, <1>5, <1>7 DEF ToSet
  <2> QED
    BY <2>1, <2>2
<1>9. ASSUME IsInjective(q), t \notin ToSet(q)
      PROVE  IsInjective(r)
  <2>1. ASSUME NEW i \in 1 .. n + 1, NEW j \in 1 .. n + 1, r[i] = r[j]
        PROVE  i = j
    <3>1. \A k \in 1 .. n : q[k] # t
      BY <1>1, <1>9 DEF ToSet
    <3>2. CASE i = 1 \/ j = 1
      BY <1>4, <1>6, <2>1, <3>1, <3>2
    <3>3. CASE i # 1 /\ j # 1
      <4>1. i - 1 \in 1 .. n /\ j - 1 \in 1 .. n /\ q[i - 1] = q[j - 1]
        BY <1>4, <1>6, <2>1, <3>3
      <4>2. i - 1 = j - 1
        BY <1>1, <1>9, <4>1 DEF IsInjective
      <4> QED
        BY <4>2
    <3> QED
      BY <3>2, <3>3
  <2> QED
    BY <1>3, <2>1 DEF IsInjective
<1> QED
  BY <1>2, <1>7, <1>8, <1>9 DEF r

(* The first token is taken.                                                 *)
LEMMA WithoutFirst ==
  ASSUME NEW q \in Seq(Tokens), q # <<>>, IsInjective(q)
  PROVE  /\ Head(q) \in ToSet(q) /\ Head(q) \in Tokens
         /\ Tail(q) \in Seq(Tokens) /\ IsInjective(Tail(q))
         /\ ToSet(Tail(q)) = ToSet(q) \ {Head(q)}
<1> DEFINE r == Tail(q)
           n == Len(q)
<1>1. n \in Nat /\ n # 0 /\ DOMAIN q = 1 .. n /\ \A i \in 1 .. n : q[i] \in Tokens
  BY LenProperties, ElementOfSeq, EmptySeq
<1>2. Head(q) = q[1] /\ 1 \in 1 .. n
  BY <1>1
<1>3. r \in Seq(Tokens) /\ Len(r) = n - 1 /\ \A i \in 1 .. n - 1 : r[i] = q[i + 1]
  BY <1>1, HeadTailProperties
<1> HIDE DEF r
<1>4. DOMAIN r = 1 .. n - 1
  BY <1>3, LenProperties
<1>5. \A i, j \in 1 .. n : q[i] = q[j] => i = j
  BY <1>1 DEF IsInjective
<1>6. \A i \in 1 .. n - 1 : i + 1 \in 1 .. n /\ r[i] = q[i + 1] /\ i + 1 # 1
  BY <1>1, <1>3
<1>7. \A i \in 1 .. n : i # 1 => i - 1 \in 1 .. n - 1 /\ q[i] = r[i - 1]
  BY <1>1, <1>3
<1>8. IsInjective(r)
  <2>1. ASSUME NEW i \in 1 .. n - 1, NEW j \in 1 .. n - 1, r[i] = r[j]
        PROVE  i = j
    <3>1. i + 1 = j + 1
      BY <1>5, <1>6, <2>1
    <3> QED
      BY <3>1
  <2> QED
    BY <1>4, <2>1 DEF IsInjective
<1>9. ToSet(r) = ToSet(q) \ {Head(q)}
  <2>1. ASSUME NEW x \in ToSet(r)
        PROVE  x \in ToSet(q) \ {Head(q)}
    <3>1. PICK i \in 1 .. n - 1 : x = r[i]
      BY <1>4 DEF ToSet
    <3>2. x = q[i + 1] /\ i + 1 \in 1 .. n /\ x # q[1]
      BY <1>2, <1>5, <1>6, <3>1
    <3> QED
      BY <1>1, <1>2, <3>2 DEF ToSet
  <2>2. ASSUME NEW x \in ToSet(q) \ {Head(q)}
        PROVE  x \in ToSet(r)
    <3>1. PICK i \in 1 .. n : x = q[i]
      BY <1>1 DEF ToSet
    <3>2. i # 1
      BY <1>2, <3>1
    <3> QED
      BY <1>4, <1>7, <3>1, <3>2 DEF ToSet
  <2> QED
    BY <2>1, <2>2
<1> QED
  BY <1>1, <1>2, <1>3, <1>8, <1>9 DEF ToSet, r

(* A sequence of tokens is made of tokens.                                   *)
LEMMA SetOfTokens ==
  ASSUME NEW q \in Seq(Tokens)
  PROVE  ToSet(q) \subseteq Tokens
BY LenProperties, ElementOfSeq DEF ToSet

-----------------------------------------------------------------------------
(* The tokens of the ports *)

Template(P) == {port_token[p] : p \in P}

(* A store u differs from s in the tokens of T only.                         *)
SameBut(u, s, T) ==
  /\ u \in Store /\ u.allocated = s.allocated /\ u.bin = s.bin /\ u.count = s.count
  /\ \A k \in Tokens \ T : u.token[k] = s.token[k]

Unused(u, t) == u.token[t].ref_count = 0 /\ ~u.token[t].ok_to_free

(* The inputs that a port's token went to are done with it: it stays.        *)
LEMMA PortDoneFields ==
  ASSUME NEW p \in TokenPorts, NEW s \in Store, port_token \in [TokenPorts -> Tokens]
  PROVE  /\ PortDone(p, s) \in Store
         /\ s.token[port_token[p]].ref_count = Destinations[p]
              /\ ~s.token[port_token[p]].ok_to_free
            => /\ SameBut(PortDone(p, s), s, {port_token[p]})
               /\ Unused(PortDone(p, s), port_token[p])
<1> DEFINE t == port_token[p]
           n == Destinations[p]
           seq == [i \in 1 .. n |-> t]
<1>1. t \in Tokens /\ n \in Nat
  BY PortsAssumption DEF TokenPorts
<1>2. seq \in Seq(Tokens) /\ Len(seq) = n /\ \A i \in 1 .. n : seq[i] = t
  BY <1>1
<1>3. PortDone(p, s) = FoldLeft(DoneUsing, s, seq)
  BY DEF PortDone
<1> HIDE DEF seq, n, t
<1>4. PICK it \in [0 .. n -> Store] : /\ it[0] = s
                                      /\ \A k \in 1 .. n : it[k] = DoneUsing(it[k - 1], seq[k])
                                      /\ PortDone(p, s) = it[n]
  <2>1. PICK it \in [0 .. Len(seq) -> Store] :
          /\ it[0] = s
          /\ \A k \in 1 .. Len(seq) : it[k] = DoneUsing(it[k - 1], seq[k])
          /\ FoldLeft(DoneUsing, s, seq) = it[Len(seq)]
    BY <1>2, FoldLeftReleases
  <2> QED
    BY <1>2, <1>3, <2>1
<1>5. \A k \in 1 .. n : it[k] = DoneUsing(it[k - 1], t)
  BY <1>2, <1>4
<1>6. PortDone(p, s) \in Store
  BY <1>1, <1>4
<1>7. ASSUME s.token[t].ref_count = n, ~s.token[t].ok_to_free
      PROVE  SameBut(it[n], s, {t}) /\ Unused(it[n], t)
  <2> DEFINE Good(k) == /\ SameBut(it[k], s, {t})
                        /\ it[k].token[t].ref_count = n - k /\ ~it[k].token[t].ok_to_free
             bad == {k \in 0 .. n : ~Good(k)}
  <2>1. bad = {}
    <3> SUFFICES ASSUME bad # {}
                 PROVE  FALSE
      OBVIOUS
    <3>1. PICK k \in bad : \A j \in bad : k <= j
      <4>1. bad \in SUBSET Nat
        BY <1>1
      <4> HIDE DEF bad
      <4> QED
        BY <4>1, LeastNatural
    <3>2. k \in 0 .. n /\ ~Good(k)
      BY <3>1
    <3>3. k # 0
      <4>1. Good(0)
        BY <1>1, <1>4, <1>7 DEF SameBut
      <4> QED
        BY <3>2, <4>1
    <3>4. k \in 1 .. n /\ k - 1 \in 0 .. n /\ ~(k <= k - 1)
      BY <1>1, <3>2, <3>3
    <3>5. Good(k - 1)
      <4> HIDE DEF Good
      <4> QED
        BY <3>1, <3>4
    <3> DEFINE u == it[k - 1]
    <3>6. /\ u \in Store /\ it[k] = DoneUsing(u, t) /\ SameBut(u, s, {t})
          /\ u.token[t].ref_count = n - (k - 1) /\ ~u.token[t].ok_to_free
      BY <1>5, <3>4, <3>5 DEF SameBut
    <3> HIDE DEF u
    <3>7. u.token[t].ref_count > 0
      BY <1>1, <3>4, <3>6
    <3>8. LET v == DoneUsing(u, t)
              freed == u.token[t].ref_count = 1 /\ u.token[t].ok_to_free
              kept == Len(u.bin) < BinLimit
          IN  /\ v \in Store
              /\ \A x \in Tokens \ {t} : v.token[x] = u.token[x]
              /\ v.token[t].ref_count = u.token[t].ref_count - 1
              /\ ~u.token[t].ok_to_free => ~v.token[t].ok_to_free
              /\ v.allocated = IF freed /\ ~kept THEN u.allocated \ {t} ELSE u.allocated
              /\ v.bin = IF freed /\ kept THEN <<t>> \o u.bin ELSE u.bin
              /\ v.count = IF freed THEN u.count - 1 ELSE u.count
      BY <1>1, <3>6, <3>7, DoneUsingFields
    <3>9. Good(k)
      BY <1>1, <3>4, <3>6, <3>8 DEF SameBut
    <3> QED
      BY <3>2, <3>9
  <2>2. n \in 0 .. n
    BY <1>1
  <2>3. Good(n)
    <3> HIDE DEF Good
    <3> QED
      BY <2>1, <2>2
  <2> QED
    BY <1>1, <2>3 DEF Unused
<1> QED
  BY <1>4, <1>6, <1>7 DEF t, n

PortsDone(s, P) == FoldSet(PortDone, s, P)

(* it[Q] is the store after the ports Q.                                     *)
Releases(it, base, P) ==
  /\ it \in [SUBSET P -> Store] /\ it[{}] = base
  /\ \A Q \in SUBSET P : Q # {} => \E x \in Q : it[Q] = PortDone(x, it[Q \ {x}])

(* The fold over the ports takes one after the other.                        *)
LEMMA FoldSetReleases ==
  ASSUME NEW base \in Store, NEW P, IsFiniteSet(P), P \subseteq TokenPorts,
         port_token \in [TokenPorts -> Tokens]
  PROVE  \E it : Releases(it, base, P) /\ PortsDone(base, P) = it[P]
<1> DEFINE pick(Q) == CHOOSE x \in Q : TRUE
           c == [Q \in SUBSET P |-> pick(Q)]
           G == [p \in P |-> [s \in Store |-> PortDone(p, s)]]
           round(g, Q) == IF Q = {} THEN base ELSE PortDone(pick(Q), g[Q \ {pick(Q)}])
           iter[Q \in SUBSET P] == round(iter, Q)
<1>1. PortsDone(base, P) = iter[P]
  BY DEF PortsDone, FoldSet, MapThenFoldSet, pick
<1>2. \A Q \in SUBSET P : Q # {} => pick(Q) \in Q
  OBVIOUS
<1> HIDE DEF pick
<1>3. PICK g \in [SUBSET P -> Store] : \A Q \in SUBSET P : g[Q] = round(g, Q)
  <2>1. \A p \in P, s \in Store : G[p][s] \in Store /\ G[p][s] = PortDone(p, s)
    BY PortDoneFields
  <2>2. \A Q \in SUBSET P : c[Q] = pick(Q)
    OBVIOUS
  <2>3. \A Q \in SUBSET P : Q # {} => c[Q] \in Q
    BY <1>2, <2>2
  <2> HIDE DEF c, G, iter
  <2>4. KeepsType(G, P, Store) /\ Chooses(c, P)
    BY <2>1, <2>3 DEF KeepsType, Chooses
  <2>5. \E g : Folded(g, G, c, base, P, Store)
    BY <2>4, FoldDefined
  <2>6. PICK g : /\ g \in [SUBSET P -> Store]
                 /\ \A Q \in SUBSET P :
                      g[Q] = IF Q = {} THEN base ELSE G[c[Q]][g[Q \ {c[Q]}]]
    BY <2>5 DEF Folded
  <2>7. ASSUME NEW Q \in SUBSET P
        PROVE  g[Q] = round(g, Q)
    <3>1. CASE Q = {}
      BY <2>6, <3>1
    <3>2. CASE Q # {}
      <4>1. c[Q] = pick(Q) /\ c[Q] \in P /\ Q \ {c[Q]} \in SUBSET P
        BY <2>2, <2>3, <3>2
      <4>2. g[Q \ {c[Q]}] \in Store
        BY <2>6, <4>1
      <4>3. G[c[Q]][g[Q \ {c[Q]}]] = PortDone(c[Q], g[Q \ {c[Q]}])
        BY <2>1, <4>1, <4>2
      <4> QED
        BY <2>6, <3>2, <4>1, <4>3
    <3> QED
      BY <3>1, <3>2
  <2> QED
    BY <2>6, <2>7
<1>4. g = [Q \in SUBSET P |-> round(g, Q)]
  <2>1. g = [Q \in SUBSET P |-> g[Q]]
    OBVIOUS
  <2> QED
    BY <1>3, <2>1
<1>5. iter = [Q \in SUBSET P |-> round(iter, Q)]
  BY <1>4
<1> HIDE DEF iter
<1>6. ASSUME NEW Q \in SUBSET P
      PROVE  iter[Q] = round(iter, Q)
  <2> DEFINE k == [R \in SUBSET P |-> round(iter, R)]
  <2>1. iter = k
    BY <1>5
  <2>2. k[Q] = round(iter, Q)
    OBVIOUS
  <2> HIDE DEF k
  <2> QED
    BY <2>1, <2>2
<1>7. ASSUME NEW Q \in SUBSET P
      PROVE  iter[Q] \in Store
  <2> DEFINE bad == {n \in Nat : \E R \in SUBSET P : Cardinality(R) = n /\ iter[R] \notin Store}
  <2>1. ASSUME NEW R \in SUBSET P
        PROVE  IsFiniteSet(R) /\ Cardinality(R) \in Nat
    BY FS_Subset, FS_CardinalityType
  <2> SUFFICES ASSUME bad # {}
               PROVE  FALSE
    BY <2>1
  <2>2. PICK n \in bad : \A k \in bad : n <= k
    <3>1. bad \in SUBSET Nat
      OBVIOUS
    <3> HIDE DEF bad
    <3> QED
      BY <3>1, LeastNatural
  <2>3. PICK R \in SUBSET P : Cardinality(R) = n /\ iter[R] \notin Store
    BY <2>2
  <2>4. R # {} /\ n \in Nat
    BY <1>6, <2>3
  <2> DEFINE x == pick(R)
             T == R \ {x}
  <2>5. x \in R /\ x \in TokenPorts
    BY <1>2, <2>4
  <2>6. iter[R] = PortDone(x, iter[T])
    BY <1>6, <2>4
  <2>7. T \in SUBSET P /\ Cardinality(T) = n - 1 /\ Cardinality(T) \in Nat
    BY <2>1, <2>3, <2>5, FS_RemoveElement
  <2> HIDE DEF T, x
  <2>8. iter[T] \notin Store
    <3>1. ASSUME iter[T] \in Store
          PROVE  PortDone(x, iter[T]) \in Store
      BY <2>5, <3>1, PortDoneFields
    <3> QED
      BY <2>3, <2>6, <3>1
  <2>9. n - 1 \in bad
    BY <2>7, <2>8
  <2> HIDE DEF bad
  <2> QED
    BY <2>2, <2>4, <2>9
<1>8. iter \in [SUBSET P -> Store]
  <2>1. iter = [Q \in SUBSET P |-> iter[Q]]
    <3> DEFINE k == [R \in SUBSET P |-> round(iter, R)]
    <3>1. iter = k /\ k = [Q \in SUBSET P |-> k[Q]]
      BY <1>5
    <3> HIDE DEF k
    <3> QED
      BY <3>1
  <2> QED
    BY <1>7, <2>1
<1>9. iter[{}] = base
  BY <1>6
<1>10. ASSUME NEW Q \in SUBSET P, Q # {}
       PROVE  \E x \in Q : iter[Q] = PortDone(x, iter[Q \ {x}])
  BY <1>2, <1>6, <1>10
<1> QED
  BY <1>1, <1>8, <1>9, <1>10 DEF Releases

(* The inputs of several ports are done with their tokens.                   *)
LEMMA PortsDoneFields ==
  ASSUME NEW s \in Store, NEW P, IsFiniteSet(P), P \subseteq TokenPorts,
         port_token \in [TokenPorts -> Tokens], IsInjective(port_token),
         \A p \in P : /\ s.token[port_token[p]].ref_count = Destinations[p]
                      /\ ~s.token[port_token[p]].ok_to_free
  PROVE  LET u == PortsDone(s, P)
         IN  SameBut(u, s, Template(P)) /\ \A p \in P : Unused(u, port_token[p])
<1>1. PICK it : /\ it \in [SUBSET P -> Store] /\ it[{}] = s
                /\ \A Q \in SUBSET P : Q # {} => \E x \in Q : it[Q] = PortDone(x, it[Q \ {x}])
                /\ PortsDone(s, P) = it[P]
  <2>1. \E it : Releases(it, s, P) /\ PortsDone(s, P) = it[P]
    BY FoldSetReleases
  <2> QED
    BY <2>1 DEF Releases
<1> DEFINE Good(Q) == SameBut(it[Q], s, Template(Q)) /\ \A p \in Q : Unused(it[Q], port_token[p])
           bad == {n \in Nat : \E Q \in SUBSET P : Cardinality(Q) = n /\ ~Good(Q)}
<1>2. ASSUME NEW Q \in SUBSET P
      PROVE  IsFiniteSet(Q) /\ Cardinality(Q) \in Nat
  BY FS_Subset, FS_CardinalityType
<1>3. bad = {}
  <2> SUFFICES ASSUME bad # {}
               PROVE  FALSE
    OBVIOUS
  <2>1. PICK n \in bad : \A k \in bad : n <= k
    <3>1. bad \in SUBSET Nat
      OBVIOUS
    <3> HIDE DEF bad
    <3> QED
      BY <3>1, LeastNatural
  <2>2. PICK Q \in SUBSET P : Cardinality(Q) = n /\ ~Good(Q)
    BY <2>1
  <2>3. Q # {}
    <3>1. Good({})
      BY <1>1 DEF SameBut
    <3> HIDE DEF Good
    <3> QED
      BY <2>2, <3>1
  <2>4. PICK x \in Q : it[Q] = PortDone(x, it[Q \ {x}])
    BY <1>1, <2>3
  <2> DEFINE R == Q \ {x}
             v == it[R]
             u == it[Q]
             t == port_token[x]
  <2>5. R \in SUBSET P /\ Cardinality(R) = Cardinality(Q) - 1 /\ Cardinality(R) \in Nat
    BY <1>2, FS_RemoveElement
  <2>6. Good(R)
    <3>1. n \in Nat /\ ~ (n <= n - 1) /\ n - 1 \in Nat /\ Cardinality(R) = n - 1
      BY <1>2, <2>2, <2>5
    <3>2. n - 1 \notin bad
      <4> HIDE DEF bad, R, Good
      <4> QED
        BY <2>1, <3>1
    <3> HIDE DEF Good, R
    <3> QED
      BY <2>5, <3>1, <3>2
  <2>7. v \in Store /\ u = PortDone(x, v) /\ x \in TokenPorts /\ t \in Tokens
    BY <1>1, <2>4, <2>5
  <2>8. \A p \in R : p \in TokenPorts /\ port_token[p] # t /\ port_token[p] \in Tokens
    BY <2>7 DEF IsInjective
  <2>9. t \notin Template(R)
    BY <2>8 DEF Template
  <2>10. SameBut(v, s, Template(R)) /\ \A p \in R : Unused(v, port_token[p])
    BY <2>6
  <2>11. v.token[t] = s.token[t]
    BY <2>7, <2>9, <2>10 DEF SameBut
  <2>12. v.token[t].ref_count = Destinations[x] /\ ~v.token[t].ok_to_free
    BY <2>11
  <2> HIDE DEF v, u, R
  <2>13. SameBut(u, v, {t}) /\ Unused(u, t)
    BY <2>7, <2>12, PortDoneFields
  <2>14. Template(Q) = Template(R) \cup {t}
    BY DEF Template, R
  <2>15. SameBut(u, s, Template(Q))
    BY <2>10, <2>13, <2>14 DEF SameBut
  <2>16. ASSUME NEW p \in Q
         PROVE  Unused(u, port_token[p])
    <3>1. CASE p = x
      BY <2>13, <3>1
    <3>2. CASE p # x
      <4>1. p \in R
        BY <3>2 DEF R
      <4>2. u.token[port_token[p]] = v.token[port_token[p]]
        BY <2>8, <2>13, <4>1 DEF SameBut
      <4> QED
        BY <2>10, <4>1, <4>2 DEF Unused
    <3> QED
      BY <3>1, <3>2
  <2>17. Good(Q)
    BY <2>15, <2>16 DEF u
  <2> HIDE DEF Good
  <2> QED
    BY <2>2, <2>17
<1>4. Good(P)
  <2>1. Cardinality(P) \in Nat /\ P \in SUBSET P
    BY <1>2
  <2> HIDE DEF Good
  <2> QED
    BY <1>3, <2>1
<1> QED
  BY <1>1, <1>4

(* The reactions are done with their copies: each goes to the bin or back to *)
(* malloc; A are the other tokens in use.                                    *)
LEMMA CopiesDoneFields ==
  ASSUME NEW s \in Store, NEW A, more_tokens \in Seq(Tokens), IsInjective(more_tokens),
         \A t \in ToSet(more_tokens) : s.token[t].ref_count = 1 /\ s.token[t].ok_to_free,
         IsInjective(s.bin), ToSet(s.bin) \cap ToSet(more_tokens) = {},
         A \cap (ToSet(s.bin) \cup ToSet(more_tokens)) = {},
         s.allocated = A \cup ToSet(s.bin) \cup ToSet(more_tokens)
  PROVE  LET u == CopiesDone(s)
         IN  /\ u \in Store /\ u.count = s.count - Len(more_tokens)
             /\ \A t \in Tokens \ ToSet(more_tokens) : u.token[t] = s.token[t]
             /\ \A t \in ToSet(more_tokens) : u.token[t].ref_count = 0
             /\ IsInjective(u.bin) /\ u.allocated = A \cup ToSet(u.bin)
             /\ A \cap ToSet(u.bin) = {}
<1> DEFINE q == more_tokens
           n == Len(q)
           Rest(k) == {q[i] : i \in k + 1 .. n}
<1>1. n \in Nat /\ DOMAIN q = 1 .. n /\ \A i \in 1 .. n : q[i] \in Tokens
  BY LenProperties, ElementOfSeq
<1>2. PICK it \in [0 .. n -> Store] : /\ it[0] = s
                                      /\ \A k \in 1 .. n : it[k] = DoneUsing(it[k - 1], q[k])
                                      /\ CopiesDone(s) = it[n]
  BY FoldLeftReleases DEF CopiesDone
<1> DEFINE Good(k) == /\ it[k] \in Store /\ it[k].count = s.count - k
                      /\ \A t \in Tokens \ ToSet(q) : it[k].token[t] = s.token[t]
                      /\ \A t \in Rest(k) : it[k].token[t] = s.token[t]
                      /\ \A t \in ToSet(q) \ Rest(k) : it[k].token[t].ref_count = 0
                      /\ IsInjective(it[k].bin) /\ ToSet(it[k].bin) \cap Rest(k) = {}
                      /\ A \cap ToSet(it[k].bin) = {}
                      /\ it[k].allocated = A \cup ToSet(it[k].bin) \cup Rest(k)
           bad == {k \in 0 .. n : ~Good(k)}
<1>3. Rest(0) = ToSet(q) /\ Rest(n) = {}
  <2>1. 0 + 1 .. n = 1 .. n /\ n + 1 .. n = {}
    BY <1>1
  <2> QED
    BY <1>1, <2>1 DEF ToSet
<1>4. ASSUME NEW k \in 1 .. n
      PROVE  /\ k - 1 \in 0 .. n /\ q[k] \in Tokens /\ q[k] \in ToSet(q) /\ q[k] \notin A
             /\ Rest(k - 1) = Rest(k) \cup {q[k]} /\ q[k] \notin Rest(k)
             /\ Rest(k) \subseteq ToSet(q)
  <2>1. k - 1 \in 0 .. n /\ q[k] \in Tokens /\ q[k] \in ToSet(q)
    BY <1>1 DEF ToSet
  <2>2. /\ k \notin k + 1 .. n /\ (k - 1) + 1 .. n = (k + 1 .. n) \cup {k}
        /\ k + 1 .. n \subseteq 1 .. n
    BY <1>1
  <2>3. q[k] \notin A
    BY <2>1
  <2>4. Rest(k - 1) = Rest(k) \cup {q[k]}
    BY <2>2
  <2>5. q[k] \notin Rest(k)
    <3>1. ASSUME NEW i \in k + 1 .. n, q[k] = q[i]
          PROVE  FALSE
      BY <1>1, <2>2, <3>1 DEF IsInjective
    <3> QED
      BY <3>1
  <2>6. Rest(k) \subseteq ToSet(q)
    BY <1>1, <2>2 DEF ToSet
  <2> QED
    BY <2>1, <2>3, <2>4, <2>5, <2>6
<1>5. s.count \in Int
  BY DEF Store
<1>6. Good(0)
  <2>1. s.count = s.count - 0
    BY <1>5
  <2> HIDE DEF Rest
  <2> QED
    BY <1>2, <1>3, <2>1
<1>7. ASSUME NEW k \in 1 .. n, Good(k - 1)
      PROVE  Good(k)
  <2> DEFINE v == it[k - 1]
             u == it[k]
             t == q[k]
  <2>1. /\ t \in Tokens /\ t \in ToSet(q) /\ t \notin A
        /\ Rest(k - 1) = Rest(k) \cup {t} /\ t \notin Rest(k)
        /\ Rest(k) \subseteq ToSet(q)
    BY <1>4
  <2> HIDE DEF Rest
  <2>2. /\ v \in Store /\ v.count = s.count - (k - 1)
        /\ \A x \in Tokens \ ToSet(q) : v.token[x] = s.token[x]
        /\ \A x \in Rest(k - 1) : v.token[x] = s.token[x]
        /\ \A x \in ToSet(q) \ Rest(k - 1) : v.token[x].ref_count = 0
        /\ IsInjective(v.bin) /\ ToSet(v.bin) \cap Rest(k - 1) = {}
        /\ A \cap ToSet(v.bin) = {}
        /\ v.allocated = A \cup ToSet(v.bin) \cup Rest(k - 1)
    BY <1>7
  <2>3. u = DoneUsing(v, t)
    BY <1>2
  <2>4. v.token[t].ref_count = 1 /\ v.token[t].ok_to_free /\ t \notin ToSet(v.bin)
    BY <2>1, <2>2
  <2> HIDE DEF v, u, t
  <2>5. v.token[t].ref_count > 0
    BY <2>4
  <2>6. LET y == DoneUsing(v, t)
            freed == v.token[t].ref_count = 1 /\ v.token[t].ok_to_free
            kept == Len(v.bin) < BinLimit
        IN  /\ y \in Store
            /\ \A x \in Tokens \ {t} : y.token[x] = v.token[x]
            /\ y.token[t].ref_count = v.token[t].ref_count - 1
            /\ ~v.token[t].ok_to_free => ~y.token[t].ok_to_free
            /\ y.allocated = IF freed /\ ~kept THEN v.allocated \ {t} ELSE v.allocated
            /\ y.bin = IF freed /\ kept THEN <<t>> \o v.bin ELSE v.bin
            /\ y.count = IF freed THEN v.count - 1 ELSE v.count
    BY <2>1, <2>2, <2>5, DoneUsingFields
  <2> DEFINE kept == Len(v.bin) < BinLimit
  <2>7. /\ u \in Store /\ \A x \in Tokens \ {t} : u.token[x] = v.token[x]
        /\ u.token[t].ref_count = 0 /\ u.count = v.count - 1
        /\ u.allocated = IF ~kept THEN v.allocated \ {t} ELSE v.allocated
        /\ u.bin = IF kept THEN <<t>> \o v.bin ELSE v.bin
    BY <2>3, <2>4, <2>6
  <2> HIDE DEF kept
  <2>8. u.count = s.count - k
    BY <1>1, <1>5, <2>2, <2>7
  <2>9. ToSet(q) \subseteq Tokens
    BY SetOfTokens
  <2>10. /\ \A x \in Tokens \ ToSet(q) : u.token[x] = s.token[x]
         /\ \A x \in Rest(k) : u.token[x] = s.token[x]
         /\ \A x \in ToSet(q) \ Rest(k) : u.token[x].ref_count = 0
    BY <2>1, <2>2, <2>7, <2>9
  <2>11. v.bin \in Seq(Tokens)
    BY <2>2 DEF Store
  <2>12. LET r == <<t>> \o v.bin
         IN  /\ r \in Seq(Tokens) /\ Len(r) = Len(v.bin) + 1 /\ r # <<>> /\ Head(r) = t
             /\ ToSet(r) = {t} \cup ToSet(v.bin)
             /\ IsInjective(v.bin) /\ t \notin ToSet(v.bin) => IsInjective(r)
    BY <2>1, <2>11, InFront
  <2>13. /\ IsInjective(u.bin) /\ ToSet(u.bin) \cap Rest(k) = {} /\ A \cap ToSet(u.bin) = {}
         /\ u.allocated = A \cup ToSet(u.bin) \cup Rest(k)
    <3>1. CASE kept
      <4>1. IsInjective(u.bin) /\ ToSet(u.bin) = {t} \cup ToSet(v.bin)
        BY <2>2, <2>4, <2>7, <2>12, <3>1
      <4>2. u.allocated = v.allocated
        BY <2>7, <3>1
      <4> QED
        BY <2>1, <2>2, <4>1, <4>2
    <3>2. CASE ~kept
      <4>1. u.bin = v.bin /\ u.allocated = v.allocated \ {t}
        BY <2>7, <3>2
      <4> QED
        BY <2>1, <2>2, <2>4, <4>1
    <3> QED
      BY <3>1, <3>2
  <2> QED
    BY <2>7, <2>8, <2>10, <2>13 DEF u
<1>8. bad = {}
  <2> SUFFICES ASSUME bad # {}
               PROVE  FALSE
    OBVIOUS
  <2>1. PICK k \in bad : \A j \in bad : k <= j
    <3>1. bad \in SUBSET Nat
      BY <1>1
    <3> HIDE DEF bad
    <3> QED
      BY <3>1, LeastNatural
  <2>2. k \in 0 .. n /\ ~Good(k)
    BY <2>1
  <2> HIDE DEF Good
  <2>3. k \in 1 .. n /\ k - 1 \in 0 .. n /\ ~ (k <= k - 1)
    BY <1>1, <1>6, <2>2
  <2>4. Good(k - 1)
    BY <2>1, <2>3
  <2> QED
    BY <1>7, <2>2, <2>3, <2>4
<1>9. Good(n)
  <2>1. n \in 0 .. n
    BY <1>1
  <2> HIDE DEF Good
  <2> QED
    BY <1>8, <2>1
<1> HIDE DEF Rest
<1> QED
  BY <1>2, <1>3, <1>9

-----------------------------------------------------------------------------
(* The tokens of a tag *)

(* What is written was counted as written, and is present but for the writer *)
(* that is about to mark it.                                                 *)
MarkInv ==
  /\ \A w \in Workers : at[w] \in Writing \cup {"written"} => port[w] \in wrote
  /\ \A p \in wrote : p \in is_present \/ \E w \in Workers : at[w] = "mark" /\ port[w] = p

(* Only the body of a reaction with a mutable input has a writable token, or *)
(* is about to get one, of a port that was written.                          *)
MutableInv ==
  \A w \in Workers :
    /\ at[w] \in Copying \/ copy[w] # NULL =>
         at[w] \notin {"idle", "invoke"} /\ Mutable[current[w]] # NULL
    /\ at[w] = "copy" => Mutable[current[w]] \in wrote

(* Ports that are written.                                                   *)
LEMMA MarkNext ==
  ASSUME EInv, MarkInv, [Next]_vars
  PROVE  MarkInv'
<1> USE DEF EInv
<1> DEFINE W == Writing \cup {"written"}
<1>1. ASSUME UNCHANGED <<wrote, is_present>>,
             \A v \in Workers : /\ at'[v] \in W => at[v] \in W /\ port'[v] = port[v]
                                /\ at[v] = "mark" => at'[v] = "mark" /\ port'[v] = port[v]
      PROVE  MarkInv'
  BY <1>1 DEF MarkInv
<1>2. ASSUME NEW w \in Workers,
             \/ ScheduleOutputs(w) \/ MakeCopy(w) \/ Run(w) \/ Skip(w)
             \/ Write(w) /\ ~ Mark(w)
             \/ \E r \in Reactions : GetReady(w, r)
      PROVE  MarkInv'
  <2>1. /\ UNCHANGED <<wrote, is_present>> /\ at[w] # "mark"
        /\ \E to \in Locations : at' = [at EXCEPT ![w] = to] /\ (to \in W => at[w] \in W)
        /\ \A v \in Workers \ {w} : port'[v] = port[v]
        /\ at'[w] \in W => port'[w] = port[w]
    <3>1. CASE ScheduleOutputs(w)
      <4>1. UNCHANGED <<wrote, is_present, port>> /\ at[w] = "body"
        BY <3>1, ScheduleSplits DEF presence
      <4>2. at' \in {[at EXCEPT ![w] = "idle"], [at EXCEPT ![w] = "invoke"]}
        BY <3>1, ScheduleSplits DEF Done
      <4> QED
        BY <4>1, <4>2 DEF Locations, Writing
    <3>2. CASE MakeCopy(w) \/ Run(w) \/ Skip(w) \/ \E r \in Reactions : GetReady(w, r)
      BY <3>2, CopySteps DEF Copying, Run, Skip, Done, GetReady, Goto, portVars, presence, locals,
                             Locations, Writing
    <3>3. CASE Write(w) /\ ~ Mark(w)
      BY <3>3 DEF Write, CountChannel, StoreChannel, SetToken, Goto, execVars, presence, locals,
                  copyVars, Locations, Writing, PresenceTypeOK, ExecTypeOK
    <3> QED
      BY <1>2, <3>1, <3>2, <3>3
  <2>2. \A v \in Workers : /\ at'[v] \in W => at[v] \in W /\ port'[v] = port[v]
                           /\ at[v] = "mark" => at'[v] = "mark" /\ port'[v] = port[v]
    BY <2>1 DEF ExecTypeOK
  <2> HIDE DEF W
  <2> QED
    BY <1>1, <2>1, <2>2
<1>3. ASSUME NEW w \in Workers, NEW p \in Ports, BeginWrite(w, p)
      PROVE  MarkInv'
  <2>1. /\ at[w] = "body" /\ at' = [at EXCEPT ![w] = "mark"] /\ port' = [port EXCEPT ![w] = p]
        /\ wrote' = wrote \cup {p} /\ UNCHANGED is_present
    BY <1>3 DEF BeginWrite, CountPresent, Goto
  <2>2. /\ at'[w] = "mark" /\ port'[w] = p
        /\ \A v \in Workers \ {w} : at'[v] = at[v] /\ port'[v] = port[v]
    BY <2>1 DEF ExecTypeOK, PresenceTypeOK
  <2> QED
    BY <2>1, <2>2 DEF MarkInv
<1>4. ASSUME NEW w \in Workers, Mark(w), UNCHANGED execVars
      PROVE  MarkInv'
  <2>1. /\ at[w] = "mark" /\ at' \in {[at EXCEPT ![w] = "sparse"], [at EXCEPT ![w] = "written"]}
        /\ is_present' = is_present \cup {port[w]} /\ UNCHANGED <<wrote, port>>
    BY <1>4 DEF Mark, Goto, execVars, locals, copyVars
  <2>2. /\ at'[w] # "mark" /\ \A v \in Workers \ {w} : at'[v] = at[v]
    BY <2>1 DEF ExecTypeOK
  <2> QED
    BY <2>1, <2>2 DEF MarkInv, Writing
<1>5. CASE AdvanceTag
  BY <1>5 DEF AdvanceTag, Quiet, MarkInv, Writing
<1>6. CASE UNCHANGED vars
  BY <1>6 DEF vars, portVars, presence, locals, copyVars, execVars, MarkInv
<1>7. ASSUME NEW w \in Workers, BodyStep(w)
      PROVE  MarkInv'
  BY <1>2, <1>3, <1>4, <1>7 DEF BodyStep, Write
<1> QED
  BY <1>2, <1>5, <1>6, <1>7, StepKinds

(* Writable tokens.                                                          *)
LEMMA MutableNext ==
  ASSUME EInv, MutableInv, copy \in [Workers -> Tokens \cup {NULL}], [Next]_vars
  PROVE  MutableInv'
<1> USE DEF EInv
<1>1. ASSUME NEW w \in Workers,
             \/ Skip(w) \/ Write(w)
             \/ \E p \in Ports : BeginWrite(w, p)
             \/ \E r \in Reactions : GetReady(w, r)
      PROVE  MutableInv'
  <2>1. /\ UNCHANGED copy /\ wrote \subseteq wrote'
        /\ \A v \in Workers \ {w} : current'[v] = current[v]
        /\ \E to \in Locations : at' = [at EXCEPT ![w] = to] /\ to \notin Copying
        /\ \/ at[w] \in {"idle", "invoke"}
           \/ at'[w] \notin {"idle", "invoke"} /\ current'[w] = current[w]
    BY <1>1 DEF Skip, Done, Write, Mark, CountChannel, StoreChannel, SetToken, BeginWrite,
                CountPresent, GetReady, Goto, execVars, portVars, locals, copyVars, Locations,
                ExecTypeOK, Copying
  <2>2. \A v \in Workers \ {w} : at'[v] = at[v]
    BY <2>1 DEF ExecTypeOK
  <2>3. at'[w] \notin Copying
    BY <2>1 DEF ExecTypeOK
  <2> QED
    BY <2>1, <2>2, <2>3 DEF MutableInv, Copying
<1>2. ASSUME NEW w \in Workers, Run(w)
      PROVE  MutableInv'
  <2>1. /\ UNCHANGED <<copy, current, wrote>> /\ at[w] = "invoke"
        /\ \/ /\ at' = [at EXCEPT ![w] = "copy"] /\ Mutable[current[w]] # NULL
              /\ Mutable[current[w]] \in is_present
           \/ at' = [at EXCEPT ![w] = "body"]
    BY <1>2 DEF Run, Goto, portVars, locals, copyVars
  <2>2. is_present \subseteq wrote
    BY DEF WriteInv, PresentIsFresh
  <2> QED
    BY <2>1, <2>2 DEF ExecTypeOK, MutableInv, Copying
<1>3. ASSUME NEW w \in Workers, MakeCopy(w)
      PROVE  MutableInv'
  <2>1. /\ UNCHANGED <<current, wrote>> /\ at[w] \in Copying
        /\ \E to \in {"count", "peek", "pop", "body"} : at' = [at EXCEPT ![w] = to]
        /\ copy' = copy \/ \E c : copy' = [copy EXCEPT ![w] = c]
    BY <1>3, CopySteps
  <2>2. /\ at'[w] \in {"count", "peek", "pop", "body"}
        /\ \A v \in Workers \ {w} : at'[v] = at[v] /\ copy'[v] = copy[v]
    BY <2>1 DEF ExecTypeOK
  <2> QED
    BY <2>1, <2>2 DEF MutableInv
<1>4. ASSUME NEW w \in Workers, ScheduleOutputs(w)
      PROVE  MutableInv'
  <2>1. copy' = [copy EXCEPT ![w] = NULL] /\ UNCHANGED wrote
    BY <1>4 DEF ScheduleOutputs
  <2>2. \E to \in {"idle", "invoke"}, d \in Reactions \cup {NULL} :
          at' = [at EXCEPT ![w] = to] /\ current' = [current EXCEPT ![w] = d]
    BY <1>4, ScheduleSplits DEF Done
  <2>3. /\ copy'[w] = NULL /\ at'[w] \in {"idle", "invoke"}
        /\ \A v \in Workers \ {w} :
             copy'[v] = copy[v] /\ at'[v] = at[v] /\ current'[v] = current[v]
    BY <2>1, <2>2 DEF ExecTypeOK
  <2> QED
    BY <2>1, <2>3 DEF MutableInv, Copying
<1>5. CASE AdvanceTag
  <2>1. \A v \in Workers : at'[v] = "idle" /\ at[v] = "idle" /\ copy'[v] = copy[v]
    BY <1>5 DEF AdvanceTag, StartTimeStep, locals, copyVars, Quiet
  <2> QED
    BY <2>1 DEF MutableInv, Copying
<1>6. CASE UNCHANGED vars
  BY <1>6 DEF vars, portVars, locals, copyVars, execVars, MutableInv
<1>7. ASSUME NEW w \in Workers, BodyStep(w)
      PROVE  MutableInv'
  BY <1>1, <1>3, <1>7 DEF BodyStep
<1> QED
  BY <1>1, <1>2, <1>4, <1>5, <1>6, <1>7, StepKinds

(* The token of p is in use: p was written, and nobody is writing it.        *)
Settled(p) == p \in wrote /\ \A w \in Workers : ~Writes(w, p)

Ported == Template(TokenPorts)
Binned == ToSet(store.bin)
Copied == ToSet(more_tokens)

(* The allocated tokens are those of the ports, the writable copies of this  *)
(* tag and those in the bin.                                                 *)
Parted ==
  /\ IsInjective(port_token) /\ IsInjective(store.bin) /\ IsInjective(more_tokens)
  /\ Ported \cap Binned = {} /\ Ported \cap Copied = {} /\ Binned \cap Copied = {}
  /\ store.allocated = Ported \cup Binned \cup Copied

(* A port's token is used by its destinations, a copy by its reaction.       *)
Counts ==
  /\ \A p \in TokenPorts :
       /\ store.token[port_token[p]].ref_count = IF Settled(p) THEN Destinations[p] ELSE 0
       /\ ~store.token[port_token[p]].ok_to_free
  /\ \A t \in Copied : store.token[t].ref_count = 1 /\ store.token[t].ok_to_free
  /\ \A t \in Tokens \ (Ported \cup Copied) : store.token[t].ref_count = 0

(* The steps of create_token, and those of them after the copy was counted.  *)
Making == {"count", "peek", "pop"}
Taking == {"peek", "pop"}

(* The allocations are the copies, and the one that is being made.           *)
Tallied ==
  /\ store.count = IF \E w \in Workers : at[w] \in Taking THEN Len(more_tokens) + 1
                                                         ELSE Len(more_tokens)
  /\ \A w \in Workers : at[w] = "count" => tally[w] = store.count

HeadOf(bin) == IF bin = <<>> THEN NULL ELSE Head(bin)

(* Only a shared token is copied, and a worker that is about to unlink the   *)
(* head of the bin has the right one.                                        *)
(* A writable token is that of a port with one destination, or a copy of its *)
(* own.                                                                      *)
Copies ==
  /\ \A w \in Workers : at[w] = "pop" => head[w] = HeadOf(store.bin)
  /\ \A w \in Workers : at[w] \in Making => Destinations[Mutable[current[w]]] # 1
  /\ \A w \in Workers :
       copy[w] # NULL =>
         \/ /\ copy[w] = port_token[Mutable[current[w]]]
            /\ Destinations[Mutable[current[w]]] = 1
         \/ copy[w] \in Copied
  /\ \A w, v \in Workers : copy[w] # NULL /\ copy[w] = copy[v] /\ copy[w] \in Copied => w = v

StoreInv == TokensTypeOK /\ Parted /\ Counts /\ Tallied /\ Copies

(* A mutable input gets the token of a port, and such a port has one writer, *)
(* which its readers have to wait for.                                       *)
TokenTables ==
  /\ \A r \in Reactions : Mutable[r] \in TokenPorts \cup {NULL}
  /\ \A r \in Reactions : Mutable[r] # NULL => Writers(Mutable[r]) \subseteq Before[r]
  /\ TokenPorts \subseteq OncePorts

(* No two workers are in create_token at once.                               *)
MakingApart == \A w, v \in Workers : at[w] \in Making /\ at[v] \in Making => w = v

(* A step that leaves the tokens alone.                                      *)
LEMMA StoreKept ==
  ASSUME Parted, Counts, UNCHANGED <<port_token, more_tokens>>, store'.token = store.token,
         store'.bin = store.bin, store'.allocated = store.allocated,
         \A p \in TokenPorts : Settled(p)' <=> Settled(p)
  PROVE  Parted' /\ Counts'
<1>1. Ported' = Ported /\ Binned' = Binned /\ Copied' = Copied
  BY DEF Ported, Binned, Copied, Template
<1>2. Parted'
  BY <1>1 DEF Parted
<1>3. Counts'
  BY <1>1 DEF Counts
<1> QED
  BY <1>2, <1>3

(* A step that leaves the writable tokens alone, or gives one up.            *)
LEMMA CopiesKept ==
  ASSUME Tallied, Copies, UNCHANGED <<port_token, more_tokens>>, store'.bin = store.bin,
         store'.count = store.count,
         \A v \in Workers :
           /\ at[v] \in Making \/ at'[v] \in Making =>
                /\ at'[v] = at[v] /\ head'[v] = head[v] /\ tally'[v] = tally[v]
                /\ current'[v] = current[v]
           /\ copy'[v] # NULL => copy'[v] = copy[v] /\ current'[v] = current[v]
  PROVE  Tallied' /\ Copies'
<1>1. Copied' = Copied
  BY DEF Copied
<1>2. \A v \in Workers : at'[v] = "pop" => head'[v] = HeadOf(store'.bin)
  BY DEF Copies, Making
<1>3. \A v \in Workers : at'[v] \in Making => Destinations[Mutable[current'[v]]] # 1
  BY DEF Copies
<1>4. \A v \in Workers :
        copy'[v] # NULL =>
          \/ /\ copy'[v] = port_token'[Mutable[current'[v]]]
             /\ Destinations[Mutable[current'[v]]] = 1
          \/ copy'[v] \in Copied'
  BY <1>1 DEF Copies
<1>5. \A w, v \in Workers :
        copy'[w] # NULL /\ copy'[w] = copy'[v] /\ copy'[w] \in Copied' => w = v
  BY <1>1 DEF Copies
<1>6. (\E w \in Workers : at'[w] \in Taking) <=> \E w \in Workers : at[w] \in Taking
  BY DEF Making, Taking
<1>7. \A v \in Workers : at'[v] = "count" => tally'[v] = store'.count
  BY DEF Making, Tallied
<1>8. Tallied'
  BY <1>6, <1>7 DEF Tallied
<1> QED
  BY <1>2, <1>3, <1>4, <1>5, <1>8 DEF Copies

(* The ports that are written stay the same.                                 *)
LEMMA SettledKept ==
  ASSUME UNCHANGED wrote,
         \A v \in Workers, p \in TokenPorts : Writes(v, p)' <=> Writes(v, p)
  PROVE  \A p \in TokenPorts : Settled(p)' <=> Settled(p)
BY DEF Settled

(* The scheduler's steps.                                                    *)
LEMMA SchedulerStore ==
  ASSUME EInv, StoreInv, MutableInv, NEW w \in Workers,
         \/ Run(w) \/ Skip(w) \/ ScheduleOutputs(w)
         \/ \E r \in Reactions : GetReady(w, r)
  PROVE  StoreInv'
<1> USE DEF EInv
<1>1. /\ UNCHANGED <<wrote, port, tokenVars, tally, head>>
      /\ \E to \in Locations \ (Writing \cup {"written"} \cup Making) : at' = [at EXCEPT ![w] = to]
      /\ at[w] \notin Writing \cup {"written"} \cup Making
      /\ \A v \in Workers \ {w} : copy'[v] = copy[v] /\ current'[v] = current[v]
      /\ copy' \in [Workers -> Tokens \cup {NULL}]
      /\ copy'[w] # NULL => copy'[w] = copy[w] /\ current'[w] = current[w]
  <2>1. CASE ScheduleOutputs(w)
    <3>1. /\ UNCHANGED <<wrote, port, tokenVars, tally, head>> /\ at[w] = "body"
          /\ copy' = [copy EXCEPT ![w] = NULL]
      BY <2>1 DEF ScheduleOutputs
    <3>2. \E to \in {"idle", "invoke"}, d \in Reactions \cup {NULL} :
            at' = [at EXCEPT ![w] = to] /\ current' = [current EXCEPT ![w] = d]
      BY <2>1, ScheduleSplits DEF Done
    <3>3. copy \in [Workers -> Tokens \cup {NULL}]
      BY DEF StoreInv, TokensTypeOK
    <3>4. /\ copy' \in [Workers -> Tokens \cup {NULL}] /\ copy'[w] = NULL
          /\ \A v \in Workers \ {w} : copy'[v] = copy[v]
      BY <3>1, <3>3
    <3>5. \A v \in Workers \ {w} : current'[v] = current[v]
      BY <3>2 DEF ExecTypeOK
    <3> QED
      BY <3>1, <3>2, <3>4, <3>5 DEF Locations, Writing, Making
  <2>2. CASE Run(w) \/ Skip(w) \/ \E r \in Reactions : GetReady(w, r)
    <3>1. /\ UNCHANGED <<wrote, port, tokenVars, tally, head, copy>> /\ at[w] \in {"idle", "invoke"}
          /\ \E to \in {"idle", "invoke", "body", "copy"} : at' = [at EXCEPT ![w] = to]
          /\ \A v \in Workers \ {w} : current'[v] = current[v]
          /\ Run(w) => UNCHANGED current
      BY <2>2 DEF Run, Skip, Done, GetReady, Goto, portVars, locals, copyVars, ExecTypeOK
    <3>2. copy[w] = NULL
      BY <3>1 DEF MutableInv
    <3>3. copy \in [Workers -> Tokens \cup {NULL}]
      BY DEF StoreInv, TokensTypeOK
    <3> QED
      BY <3>1, <3>2, <3>3 DEF Locations, Writing, Making
  <2> QED
    BY <2>1, <2>2
<1>2. /\ at'[w] \notin Writing \cup {"written"} \cup Making
      /\ \A v \in Workers \ {w} : at'[v] = at[v]
  BY <1>1 DEF ExecTypeOK
<1>3. \A v \in Workers, p \in TokenPorts : Writes(v, p)' <=> Writes(v, p)
  BY <1>1, <1>2 DEF Writes
<1>4. \A p \in TokenPorts : Settled(p)' <=> Settled(p)
  BY <1>1, <1>3, SettledKept
<1>5. Parted' /\ Counts'
  BY <1>1, <1>4, StoreKept DEF StoreInv, tokenVars
<1>6. Tallied' /\ Copies'
  <2>1. UNCHANGED <<port_token, more_tokens>> /\ store' = store
    BY <1>1 DEF tokenVars
  <2>2. \A v \in Workers :
          /\ at[v] \in Making \/ at'[v] \in Making =>
               /\ at'[v] = at[v] /\ head'[v] = head[v] /\ tally'[v] = tally[v]
               /\ current'[v] = current[v]
          /\ copy'[v] # NULL => copy'[v] = copy[v] /\ current'[v] = current[v]
    BY <1>1, <1>2
  <2> QED
    BY <2>1, <2>2, CopiesKept DEF StoreInv
<1>7. TokensTypeOK'
  BY <1>1 DEF StoreInv, TokensTypeOK, tokenVars
<1> QED
  BY <1>5, <1>6, <1>7 DEF StoreInv

(* A write of a port, up to its token.                                       *)
LEMMA WriteStore ==
  ASSUME EInv, OnceInv, MarkInv, StoreInv, TokenTables, NEW w \in Workers,
         \/ \E p \in Ports : BeginWrite(w, p)
         \/ (Mark(w) \/ CountChannel(w) \/ StoreChannel(w)) /\ UNCHANGED execVars
  PROVE  StoreInv'
<1> USE DEF EInv
<1>1. /\ UNCHANGED <<tokenVars, tally, head, copy, current>>
      /\ at[w] \notin Making /\ \E to \in Writing \cup {"written"} : at' = [at EXCEPT ![w] = to]
  BY DEF BeginWrite, CountPresent, Mark, CountChannel, StoreChannel, Goto, execVars, locals,
         copyVars, Writing, Making
<1>2. /\ at'[w] \in Writing \cup {"written"} /\ at'[w] \notin Making
      /\ \A v \in Workers \ {w} : at'[v] = at[v]
  BY <1>1 DEF ExecTypeOK, Writing, Making
<1>3. \A p \in TokenPorts : Settled(p)' <=> Settled(p)
  <2>1. CASE (Mark(w) \/ CountChannel(w) \/ StoreChannel(w)) /\ UNCHANGED execVars
    <3>1. UNCHANGED <<wrote, port>> /\ at[w] \in Writing
      BY <2>1 DEF Mark, CountChannel, StoreChannel, Goto, execVars, locals, copyVars, Writing
    <3>2. \A v \in Workers, p \in TokenPorts : Writes(v, p)' <=> Writes(v, p)
      BY <1>2, <3>1 DEF Writes
    <3> QED
      BY <3>1, <3>2, SettledKept
  <2>2. ASSUME NEW q \in Ports, BeginWrite(w, q)
        PROVE  \A p \in TokenPorts : Settled(p)' <=> Settled(p)
    <3>1. /\ at[w] = "body" /\ todo[w][q] > 0 /\ wrote' = wrote \cup {q}
          /\ port' = [port EXCEPT ![w] = q]
      BY <2>2 DEF BeginWrite, CountPresent, Goto
    <3>2. port'[w] = q /\ \A v \in Workers \ {w} : port'[v] = port[v]
      BY <3>1 DEF PresenceTypeOK
    <3>3. \A p \in TokenPorts, v \in Workers : p # q => (Writes(v, p)' <=> Writes(v, p))
      BY <1>2, <3>1, <3>2 DEF Writes, Writing
    <3>4. q \in TokenPorts => q \notin wrote
      BY <3>1 DEF OnceInv, TokenTables
    <3>5. Writes(w, q)'
      BY <1>2, <3>2 DEF Writes
    <3> QED
      BY <3>1, <3>3, <3>4, <3>5 DEF Settled
  <2> QED
    BY <2>1, <2>2
<1>4. Parted' /\ Counts'
  BY <1>1, <1>3, StoreKept DEF StoreInv, tokenVars
<1>5. Tallied' /\ Copies'
  <2>1. UNCHANGED <<port_token, more_tokens>> /\ store' = store
    BY <1>1 DEF tokenVars
  <2>2. \A v \in Workers :
          /\ at[v] \in Making \/ at'[v] \in Making =>
               /\ at'[v] = at[v] /\ head'[v] = head[v] /\ tally'[v] = tally[v]
               /\ current'[v] = current[v]
          /\ copy'[v] # NULL => copy'[v] = copy[v] /\ current'[v] = current[v]
    BY <1>1, <1>2
  <2> QED
    BY <2>1, <2>2, CopiesKept DEF StoreInv
<1>6. TokensTypeOK'
  BY <1>1 DEF StoreInv, TokensTypeOK, tokenVars
<1> QED
  BY <1>4, <1>5, <1>6 DEF StoreInv

(* The payload does not matter to the count.                                 *)
LEMMA ValueFields ==
  ASSUME NEW s \in Store, NEW t \in Tokens
  PROVE  LET u == [s EXCEPT !.token[t].value = TRUE]
         IN  /\ u \in Store
             /\ \A k \in Tokens : /\ u.token[k].ref_count = s.token[k].ref_count
                                  /\ u.token[k].ok_to_free = s.token[k].ok_to_free
             /\ u.allocated = s.allocated /\ u.bin = s.bin /\ u.count = s.count
BY DEF Store, TokenState

(* The store when a copy was made of t and b is left of the bin.             *)
Popped(s, t, b) ==
  [s EXCEPT !.bin = b, !.allocated = @ \cup {t},
            !.token[t] = [ref_count |-> 1, value |-> TRUE, ok_to_free |-> TRUE]]

(* _lf_create_token, for a writable copy.                                    *)
LEMMA PopFields ==
  ASSUME NEW s \in Store, NEW t \in Tokens, NEW b \in Seq(Tokens)
  PROVE  LET u == Popped(s, t, b)
         IN  /\ u \in Store /\ u.bin = b /\ u.allocated = s.allocated \cup {t}
             /\ u.count = s.count
             /\ u.token[t].ref_count = 1 /\ u.token[t].ok_to_free
             /\ \A k \in Tokens \ {t} : u.token[k] = s.token[k]
<1> DEFINE new == [ref_count |-> 1, value |-> TRUE, ok_to_free |-> TRUE]
           v == [s EXCEPT !.bin = b, !.allocated = @ \cup {t}]
<1>1. new \in TokenState /\ new.ref_count = 1 /\ new.ok_to_free 
  BY DEF TokenState
<1>2. Popped(s, t, b) = [v EXCEPT !.token[t] = new]
  BY DEF Popped
<1> HIDE DEF new
<1>3. /\ v \in Store /\ v.bin = b /\ v.allocated = s.allocated \cup {t}
      /\ v.count = s.count /\ v.token = s.token
  BY <1>1 DEF Store
<1> HIDE DEF v
<1>4. LET u == [v EXCEPT !.token[t] = new]
      IN  /\ u \in Store /\ u.bin = v.bin /\ u.allocated = v.allocated /\ u.count = v.count
          /\ u.token[t] = new /\ \A k \in Tokens \ {t} : u.token[k] = v.token[k]
  BY <1>1, <1>3 DEF Store
<1> QED
  BY <1>1, <1>2, <1>3, <1>4

(* The token of a mutable input is in use, by all its destinations.          *)
LEMMA InputSettled ==
  ASSUME EInv, MutableInv, TokenTables, NEW w \in Workers, at[w] = "copy"
  PROVE  /\ current[w] \in Reactions /\ Mutable[current[w]] \in TokenPorts
         /\ Settled(Mutable[current[w]])
<1> USE DEF EInv
<1> DEFINE p == Mutable[current[w]]
<1>1. /\ current[w] \in Reactions /\ p \in TokenPorts /\ p \in wrote
      /\ Writers(p) \subseteq Before[current[w]]
  BY DEF MutableInv, WorkerInv, ExecTypeOK, TokenTables, Copying
<1>2. ASSUME NEW v \in Workers, Writes(v, p)
      PROVE  FALSE
  <2>1. current[v] \in Reactions /\ p \in Outputs[current[v]] /\ at[v] # "copy"
    BY <1>2 DEF Writes, Writing, WorkerInv, ExecTypeOK, WriteInv
  <2>2. current[v] \in Preceding[current[w]]
    BY <1>1, <2>1, PrecedingIsClosed DEF Writers
  <2>3. v = w
    BY <1>1, <2>1, <2>2, NeitherPrecedes
  <2> QED
    BY <2>1, <2>3
<1> QED
  BY <1>1, <1>2 DEF Settled

(* The one reference is tested.                                              *)
LEMMA TestStore ==
  ASSUME EInv, StoreInv, MutableInv, TokenTables, NEW w \in Workers, UNCHANGED execVars,
         current[w] # NULL, TestCopy(w, Mutable[current[w]])
  PROVE  StoreInv'
<1> USE DEF EInv
<1> DEFINE p == Mutable[current[w]]
           shared == store.token[port_token[p]].ref_count # 1
<1>1. /\ at[w] = "copy" /\ current[w] \in Reactions /\ p \in TokenPorts
      /\ shared <=> Destinations[p] # 1
  <2>1. at[w] = "copy" /\ current[w] \in Reactions /\ p \in TokenPorts /\ Settled(p)
    BY InputSettled DEF TestCopy
  <2> QED
    BY <2>1 DEF StoreInv, Counts
<1>2. /\ UNCHANGED <<tokenVars, port, wrote, current, head>>
      /\ \/ /\ ~shared /\ at' = [at EXCEPT ![w] = "body"] /\ UNCHANGED tally
            /\ copy' = [copy EXCEPT ![w] = port_token[p]]
         \/ at' = [at EXCEPT ![w] = "body"] /\ UNCHANGED <<copy, tally>>
         \/ /\ shared /\ at' = [at EXCEPT ![w] = "count"] /\ UNCHANGED copy
            /\ tally' = [tally EXCEPT ![w] = store.count]
  BY DEF TestCopy, Goto, execVars
<1>3. /\ copy \in [Workers -> Tokens \cup {NULL}] /\ tally \in [Workers -> Int]
      /\ port_token[p] \in Tokens /\ store.count \in Int
  BY <1>1 DEF StoreInv, TokensTypeOK, Store
<1> HIDE DEF p, shared
<1>4. /\ at'[w] \in {"body", "count"}
      /\ \A v \in Workers \ {w} : at'[v] = at[v] /\ tally'[v] = tally[v] /\ copy'[v] = copy[v]
      /\ at'[w] = "count" => shared /\ tally'[w] = store.count
      /\ copy'[w] = copy[w] \/ (~shared /\ copy'[w] = port_token[p])
  BY <1>2, <1>3 DEF ExecTypeOK
<1>5. TokensTypeOK'
  <2>1. copy' \in [Workers -> Tokens \cup {NULL}] /\ tally' \in [Workers -> Int]
    BY <1>2, <1>3
  <2> QED
    BY <1>2, <2>1 DEF StoreInv, TokensTypeOK, tokenVars
<1>6. \A v \in Workers, q \in TokenPorts : Writes(v, q)' <=> Writes(v, q)
  BY <1>1, <1>2, <1>4 DEF Writes, Writing
<1>7. \A q \in TokenPorts : Settled(q)' <=> Settled(q)
  BY <1>2, <1>6, SettledKept
<1>8. Parted' /\ Counts'
  BY <1>2, <1>7, StoreKept DEF StoreInv, tokenVars
<1>9. Copies'
  <2>1. /\ Copied' = Copied /\ port_token' = port_token /\ store' = store /\ current' = current
        /\ head' = head
    BY <1>2 DEF Copied, tokenVars
  <2>2. port_token[p] \notin Copied
    BY <1>1 DEF StoreInv, Parted, Ported, Template
  <2>3. \A v \in Workers : at'[v] = "pop" => head'[v] = HeadOf(store'.bin)
    BY <1>4, <2>1 DEF StoreInv, Copies
  <2>4. \A v \in Workers : at'[v] \in Making => Destinations[Mutable[current'[v]]] # 1
    BY <1>1, <1>4, <2>1 DEF StoreInv, Copies, Making, p
  <2>5. ASSUME NEW v \in Workers, copy'[v] # NULL
        PROVE  \/ /\ copy'[v] = port_token[Mutable[current[v]]]
                  /\ Destinations[Mutable[current[v]]] = 1
               \/ copy'[v] \in Copied
    <3>1. CASE copy'[v] = copy[v]
      BY <2>5, <3>1 DEF StoreInv, Copies
    <3>2. CASE copy'[v] # copy[v]
      BY <1>1, <1>4, <3>2 DEF p
    <3> QED
      BY <3>1, <3>2
  <2>6. ASSUME NEW u \in Workers, NEW v \in Workers,
               copy'[u] # NULL, copy'[u] = copy'[v], copy'[u] \in Copied
        PROVE  u = v
    <3>1. copy'[u] = copy[u] /\ copy'[v] = copy[v]
      BY <1>4, <2>2, <2>6
    <3> QED
      BY <2>6, <3>1 DEF StoreInv, Copies
  <2> QED
    BY <2>1, <2>3, <2>4, <2>5, <2>6 DEF Copies
<1>10. Tallied'
  <2>1. store' = store /\ more_tokens' = more_tokens
    BY <1>2 DEF tokenVars
  <2>2. (\E v \in Workers : at'[v] \in Taking) <=> \E v \in Workers : at[v] \in Taking
    BY <1>1, <1>4 DEF Taking
  <2>3. \A v \in Workers : at'[v] = "count" => tally'[v] = store.count
    BY <1>4 DEF StoreInv, Tallied
  <2> QED
    BY <2>1, <2>2, <2>3 DEF StoreInv, Tallied
<1> QED
  BY <1>5, <1>8, <1>9, <1>10 DEF StoreInv

(* The copy is counted, if no other worker counts one.                       *)
LEMMA CountStore ==
  ASSUME EInv, StoreInv, MakingApart, NEW w \in Workers, UNCHANGED execVars, CountCopy(w)
  PROVE  StoreInv'
<1> USE DEF EInv
<1> DEFINE n == tally[w] + 1
<1>1. /\ at[w] = "count" /\ at' = [at EXCEPT ![w] = "peek"] /\ store' = [store EXCEPT !.count = n]
      /\ tally' = [tally EXCEPT ![w] = 0]
      /\ UNCHANGED <<port_token, more_tokens, port, head, copy, wrote, current>>
  BY DEF CountCopy, Goto, execVars
<1>2. store \in Store /\ tally \in [Workers -> Int] /\ n \in Int /\ more_tokens \in Seq(Tokens)
  BY DEF StoreInv, TokensTypeOK
<1> HIDE DEF n
<1>3. /\ store' \in Store /\ store'.token = store.token /\ store'.bin = store.bin
      /\ store'.allocated = store.allocated /\ store'.count = n
      /\ tally' \in [Workers -> Int]
  BY <1>1, <1>2 DEF Store
<1>4. at'[w] = "peek" /\ \A v \in Workers \ {w} : at'[v] = at[v] /\ at[v] \notin Making
  BY <1>1 DEF ExecTypeOK, MakingApart, Making
<1>5. TokensTypeOK'
  BY <1>1, <1>3 DEF StoreInv, TokensTypeOK
<1>6. \A v \in Workers, q \in TokenPorts : Writes(v, q)' <=> Writes(v, q)
  BY <1>1, <1>4 DEF Writes, Writing
<1>7. \A q \in TokenPorts : Settled(q)' <=> Settled(q)
  BY <1>1, <1>6, SettledKept
<1>8. Parted' /\ Counts'
  BY <1>1, <1>3, <1>7, StoreKept DEF StoreInv
<1>9. Tallied'
  <2>1. tally[w] = store.count
    BY <1>1 DEF StoreInv, Tallied
  <2>2. store.count = Len(more_tokens)
    BY <1>1, <1>4 DEF StoreInv, Tallied, Making, Taking
  <2> QED
    BY <1>1, <1>3, <1>4, <2>1, <2>2 DEF Tallied, Making, Taking, n
<1>10. Copies'
  <2>1. Copied' = Copied
    BY <1>1 DEF Copied
  <2>2. \A v \in Workers : at'[v] # "pop"
    BY <1>4 DEF Making
  <2>3. \A v \in Workers : at'[v] \in Making => Destinations[Mutable[current'[v]]] # 1
    BY <1>1, <1>4 DEF StoreInv, Copies, Making
  <2> QED
    BY <1>1, <2>1, <2>2, <2>3 DEF StoreInv, Copies
<1> QED
  BY <1>5, <1>8, <1>9, <1>10 DEF StoreInv

(* The head of the bin is read.                                              *)
LEMMA PeekStore ==
  ASSUME EInv, StoreInv, NEW w \in Workers, UNCHANGED execVars, PeekBin(w)
  PROVE  StoreInv'
<1> USE DEF EInv
<1>1. /\ at[w] = "peek" /\ at' = [at EXCEPT ![w] = "pop"]
      /\ head' = [head EXCEPT ![w] = HeadOf(store.bin)]
      /\ UNCHANGED <<tokenVars, port, tally, copy, wrote, current>>
  BY DEF PeekBin, Goto, execVars, HeadOf
<1>2. /\ head \in [Workers -> Tokens \cup {NULL}] /\ HeadOf(store.bin) \in Tokens \cup {NULL}
  <2>1. store.bin \in Seq(Tokens)
    BY DEF StoreInv, TokensTypeOK, Store
  <2>2. HeadOf(store.bin) \in Tokens \cup {NULL}
    BY <2>1, HeadTailProperties DEF HeadOf
  <2> QED
    BY <2>2 DEF StoreInv, TokensTypeOK
<1>3. /\ at'[w] = "pop" /\ head'[w] = HeadOf(store.bin)
      /\ \A v \in Workers \ {w} : at'[v] = at[v] /\ head'[v] = head[v]
      /\ head' \in [Workers -> Tokens \cup {NULL}]
  BY <1>1, <1>2 DEF ExecTypeOK
<1>4. TokensTypeOK'
  BY <1>1, <1>3 DEF StoreInv, TokensTypeOK, tokenVars
<1>5. \A v \in Workers, q \in TokenPorts : Writes(v, q)' <=> Writes(v, q)
  BY <1>1, <1>3 DEF Writes, Writing
<1>6. \A q \in TokenPorts : Settled(q)' <=> Settled(q)
  BY <1>1, <1>5, SettledKept
<1>7. Parted' /\ Counts'
  BY <1>1, <1>6, StoreKept DEF StoreInv, tokenVars
<1>8. Tallied'
  <2>1. store' = store /\ more_tokens' = more_tokens /\ tally' = tally
    BY <1>1 DEF tokenVars
  <2>2. (\E v \in Workers : at'[v] \in Taking) <=> \E v \in Workers : at[v] \in Taking
    BY <1>1, <1>3 DEF Taking
  <2>3. \A v \in Workers : at'[v] = "count" => at[v] = "count"
    BY <1>3
  <2> QED
    BY <2>1, <2>2, <2>3 DEF StoreInv, Tallied
<1>9. Copies'
  <2>1. /\ Copied' = Copied /\ port_token' = port_token /\ store' = store /\ current' = current
        /\ copy' = copy
    BY <1>1 DEF Copied, tokenVars
  <2>2. \A v \in Workers : at'[v] = "pop" => head'[v] = HeadOf(store'.bin)
    BY <1>3, <2>1 DEF StoreInv, Copies
  <2>3. \A v \in Workers : at'[v] \in Making => Destinations[Mutable[current'[v]]] # 1
    BY <1>1, <1>3, <2>1 DEF StoreInv, Copies, Making
  <2> QED
    BY <2>1, <2>2, <2>3 DEF StoreInv, Copies
<1> QED
  BY <1>4, <1>7, <1>8, <1>9 DEF StoreInv

(* A copy is made of a token of its own, if no other worker makes one.       *)
LEMMA PopStore ==
  ASSUME EInv, StoreInv, MutableInv, TokenTables, MakingApart, NEW w \in Workers,
         UNCHANGED execVars, PopCopy(w)
  PROVE  StoreInv'
<1> USE DEF EInv
<1>1. /\ port_token \in [TokenPorts -> Tokens] /\ more_tokens \in Seq(Tokens)
      /\ store \in Store /\ store.bin \in Seq(Tokens)
      /\ head \in [Workers -> Tokens \cup {NULL}] /\ copy \in [Workers -> Tokens \cup {NULL}]
      /\ tally \in [Workers -> Int]
  BY DEF StoreInv, TokensTypeOK, Store
<1>2. at[w] = "pop" /\ head[w] = HeadOf(store.bin)
  BY DEF PopCopy, Goto, StoreInv, Copies
<1>3. \E t \in Tokens, b \in Seq(Tokens) :
        /\ t \notin Ported /\ t \notin Copied
        /\ IsInjective(b) /\ ToSet(b) = Binned \ {t}
        /\ store' = Popped(store, t, b)
        /\ more_tokens' = <<t>> \o more_tokens
        /\ copy' = [copy EXCEPT ![w] = t]
  <2>1. PICK t \in IF head[w] # NULL THEN {head[w]} ELSE Tokens \ store.allocated :
        \E b \in IF head[w] # NULL THEN Unlinked(store.bin, t) ELSE {store.bin} :
          /\ store' = Popped(store, t, b)
          /\ more_tokens' = <<t>> \o more_tokens
          /\ copy' = [copy EXCEPT ![w] = t]
    BY DEF PopCopy, Popped
  <2>2. PICK b \in IF head[w] # NULL THEN Unlinked(store.bin, t) ELSE {store.bin} :
          /\ store' = Popped(store, t, b)
          /\ more_tokens' = <<t>> \o more_tokens
          /\ copy' = [copy EXCEPT ![w] = t]
    BY <2>1
  <2>3. /\ t \in Tokens /\ b \in Seq(Tokens) /\ t \notin Ported /\ t \notin Copied
        /\ IsInjective(b) /\ ToSet(b) = Binned \ {t}
    <3>1. CASE head[w] # NULL
      <4>1. store.bin # <<>> /\ t = Head(store.bin) /\ Unlinked(store.bin, t) = {Tail(store.bin)}
        BY <1>2, <2>1, <3>1 DEF HeadOf, Unlinked
      <4>2. b = Tail(store.bin)
        BY <2>2, <3>1, <4>1
      <4>3. IsInjective(store.bin)
        BY DEF StoreInv, Parted
      <4>4. /\ Head(store.bin) \in ToSet(store.bin) /\ Head(store.bin) \in Tokens
            /\ Tail(store.bin) \in Seq(Tokens) /\ IsInjective(Tail(store.bin))
            /\ ToSet(Tail(store.bin)) = ToSet(store.bin) \ {Head(store.bin)}
        BY <1>1, <4>1, <4>3, WithoutFirst
      <4>5. t \in Binned
        BY <4>1, <4>4 DEF Binned
      <4>6. t \notin Ported /\ t \notin Copied
        BY <4>5 DEF StoreInv, Parted
      <4> QED
        BY <4>1, <4>2, <4>4, <4>6 DEF Binned
    <3>2. CASE head[w] = NULL
      <4>1. store.bin = <<>>
        <5>1. store.bin # <<>> => Head(store.bin) \in Tokens
          BY <1>1, HeadTailProperties
        <5> QED
          BY <1>2, <3>2, <5>1, TokensAssumption DEF HeadOf
      <4>2. t \in Tokens \ store.allocated /\ b = store.bin
        BY <2>1, <2>2, <3>2
      <4>3. t \notin Ported /\ t \notin Copied /\ t \notin Binned /\ IsInjective(store.bin)
        BY <4>2 DEF StoreInv, Parted
      <4> QED
        BY <1>1, <4>2, <4>3 DEF Binned
    <3> QED
      BY <3>1, <3>2
  <2> QED
    BY <2>2, <2>3
<1>4. PICK t \in Tokens, b \in Seq(Tokens) :
        /\ t \notin Ported /\ t \notin Copied
        /\ IsInjective(b) /\ ToSet(b) = Binned \ {t}
        /\ store' = Popped(store, t, b)
        /\ more_tokens' = <<t>> \o more_tokens
        /\ copy' = [copy EXCEPT ![w] = t]
  BY <1>3
<1>5. /\ store' \in Store /\ store'.bin = b /\ store'.allocated = store.allocated \cup {t}
      /\ store'.count = store.count
      /\ store'.token[t].ref_count = 1 /\ store'.token[t].ok_to_free
      /\ \A k \in Tokens \ {t} : store'.token[k] = store.token[k]
  <2>1. LET u == Popped(store, t, b)
        IN  /\ u \in Store /\ u.bin = b /\ u.allocated = store.allocated \cup {t}
            /\ u.count = store.count
            /\ u.token[t].ref_count = 1 /\ u.token[t].ok_to_free
            /\ \A k \in Tokens \ {t} : u.token[k] = store.token[k]
    BY <1>1, PopFields
  <2>2. store' = Popped(store, t, b)
    BY <1>4
  <2> QED
    BY <2>1, <2>2
<1>6. /\ UNCHANGED <<port_token, port, wrote, current, tally>> /\ at' = [at EXCEPT ![w] = "body"]
      /\ head' = [head EXCEPT ![w] = NULL]
  BY DEF PopCopy, Goto, execVars
<1>7. /\ at'[w] = "body" /\ copy'[w] = t
      /\ \A v \in Workers \ {w} : at'[v] = at[v] /\ head'[v] = head[v] /\ copy'[v] = copy[v]
      /\ head' \in [Workers -> Tokens \cup {NULL}] /\ copy' \in [Workers -> Tokens \cup {NULL}]
  BY <1>1, <1>4, <1>6 DEF ExecTypeOK
<1>8. /\ more_tokens' \in Seq(Tokens) /\ Len(more_tokens') = Len(more_tokens) + 1
      /\ Copied' = {t} \cup Copied
      /\ IsInjective(more_tokens) => IsInjective(more_tokens')
  <2>1. t \notin ToSet(more_tokens)
    BY <1>4 DEF Copied
  <2>2. LET r == <<t>> \o more_tokens
        IN  /\ r \in Seq(Tokens) /\ Len(r) = Len(more_tokens) + 1 /\ r # <<>> /\ Head(r) = t
            /\ ToSet(r) = {t} \cup ToSet(more_tokens)
            /\ IsInjective(more_tokens) /\ t \notin ToSet(more_tokens) => IsInjective(r)
    BY <1>1, InFront
  <2>3. more_tokens' = <<t>> \o more_tokens
    BY <1>4
  <2> QED
    BY <2>1, <2>2, <2>3 DEF Copied
<1>9. Ported' = Ported /\ Binned' = Binned \ {t}
  BY <1>4, <1>5, <1>6 DEF Ported, Binned, Template
<1>10. TokensTypeOK'
  BY <1>1, <1>5, <1>6, <1>7, <1>8 DEF TokensTypeOK
<1>11. Parted'
  <2>1. IsInjective(port_token') /\ IsInjective(store'.bin) /\ IsInjective(more_tokens')
    BY <1>4, <1>5, <1>6, <1>8 DEF StoreInv, Parted
  <2>2. /\ Ported' \cap Binned' = {} /\ Ported' \cap Copied' = {} /\ Binned' \cap Copied' = {}
        /\ store'.allocated = Ported' \cup Binned' \cup Copied'
    BY <1>4, <1>5, <1>8, <1>9 DEF StoreInv, Parted
  <2> QED
    BY <2>1, <2>2 DEF Parted
<1>12. \A v \in Workers, q \in TokenPorts : Writes(v, q)' <=> Writes(v, q)
  BY <1>2, <1>6, <1>7 DEF Writes, Writing
<1>13. \A q \in TokenPorts : Settled(q)' <=> Settled(q)
  BY <1>6, <1>12, SettledKept
<1>14. Counts'
  <2>1. \A q \in TokenPorts : /\ port_token[q] \in Tokens \ {t}
                              /\ store'.token[port_token[q]] = store.token[port_token[q]]
    BY <1>1, <1>4, <1>5 DEF Ported, Template
  <2>2. \A q \in TokenPorts :
          /\ store'.token[port_token'[q]].ref_count = IF Settled(q)' THEN Destinations[q] ELSE 0
          /\ ~store'.token[port_token'[q]].ok_to_free
    BY <1>6, <1>13, <2>1 DEF StoreInv, Counts
  <2>3. Copied \subseteq Tokens
    BY <1>1, SetOfTokens DEF Copied
  <2>4. \A x \in Copied' : store'.token[x].ref_count = 1 /\ store'.token[x].ok_to_free
    BY <1>5, <1>8, <2>3 DEF StoreInv, Counts
  <2>5. \A x \in Tokens \ (Ported' \cup Copied') : store'.token[x].ref_count = 0
    BY <1>5, <1>8, <1>9 DEF StoreInv, Counts
  <2> QED
    BY <2>2, <2>4, <2>5 DEF Counts
<1>15. Copies'
  <2>1. \A v \in Workers : at'[v] \notin Making
    BY <1>2, <1>7 DEF MakingApart, Making
  <2>2. \A v \in Workers \ {w} : copy[v] # NULL => copy[v] # t
    <3>1. ASSUME NEW v \in Workers, copy[v] # NULL
          PROVE  copy[v] \in Ported \cup Copied
      <4>1. at[v] \notin {"idle", "invoke"} /\ Mutable[current[v]] # NULL
        BY <3>1 DEF MutableInv
      <4>2. current[v] \in Reactions
        BY <4>1 DEF WorkerInv, ExecTypeOK
      <4>3. Mutable[current[v]] \in TokenPorts
        BY <4>1, <4>2 DEF TokenTables
      <4> QED
        BY <3>1, <4>3 DEF StoreInv, Copies, Ported, Template
    <3> QED
      BY <1>4, <3>1
  <2>3. \A v \in Workers :
          copy'[v] # NULL =>
            \/ /\ copy'[v] = port_token'[Mutable[current'[v]]]
               /\ Destinations[Mutable[current'[v]]] = 1
            \/ copy'[v] \in Copied'
    BY <1>6, <1>7, <1>8 DEF StoreInv, Copies
  <2>4. ASSUME NEW u \in Workers, NEW v \in Workers,
               copy'[u] # NULL, copy'[u] = copy'[v], copy'[u] \in Copied'
        PROVE  u = v
    <3>1. CASE copy'[u] = t
      BY <1>7, <2>2, <2>4, <3>1
    <3>2. CASE copy'[u] # t
      <4>1. copy[u] = copy'[u] /\ copy[v] = copy'[v] /\ copy'[u] \in Copied
        BY <1>7, <1>8, <2>4, <3>2
      <4> QED
        BY <2>4, <4>1 DEF StoreInv, Copies
    <3> QED
      BY <3>1, <3>2
  <2> QED
    BY <2>1, <2>3, <2>4 DEF Copies, Making
<1>16. Tallied'
  <2>1. \A v \in Workers : at'[v] \notin Making
    BY <1>2, <1>7 DEF MakingApart, Making
  <2>2. store.count = Len(more_tokens) + 1
    BY <1>2 DEF StoreInv, Tallied, Taking
  <2> QED
    BY <1>5, <1>8, <2>1, <2>2 DEF Tallied, Making, Taking
<1> QED
  BY <1>10, <1>11, <1>14, <1>15, <1>16 DEF StoreInv

(* A written port gets its token, the template that nobody uses.             *)
LEMMA SetStore ==
  ASSUME EInv, OnceInv, MarkInv, StoreInv, TokenTables, NEW w \in Workers, SetToken(w),
         UNCHANGED execVars, NEW p, p = port[w], NEW t, t = port_token[p]
  PROVE  StoreInv'
<1> USE DEF EInv
<1>1. /\ at[w] = "written" /\ at' = [at EXCEPT ![w] = "body"]
      /\ port' = [port EXCEPT ![w] = NULL]
      /\ UNCHANGED <<tally, head, copy, wrote, current>>
  BY DEF SetToken, Goto, execVars, copyVars
<1>2. /\ port_token \in [TokenPorts -> Tokens] /\ store \in Store
  BY DEF StoreInv, TokensTypeOK
<1>3. /\ at'[w] = "body" /\ port'[w] = NULL
      /\ \A v \in Workers \ {w} : at'[v] = at[v] /\ port'[v] = port[v]
  BY <1>1 DEF ExecTypeOK, PresenceTypeOK
<1>4. Writes(w, p) /\ \A q : ~Writes(w, q)'
  BY <1>1, <1>3 DEF Writes, Writing
<1>5. \A v \in Workers \ {w}, q \in TokenPorts : Writes(v, q)' <=> Writes(v, q)
  BY <1>3 DEF Writes
<1>6. \A q \in TokenPorts : q # p => (Settled(q)' <=> Settled(q))
  <2>1. \A q : q # p => ~Writes(w, q)
    BY DEF Writes
  <2> QED
    BY <1>1, <1>4, <1>5, <2>1 DEF Settled
<1>7. /\ port_token' = port_token /\ more_tokens' = more_tokens /\ store' \in Store
      /\ store'.bin = store.bin /\ store'.allocated = store.allocated
      /\ store'.count = store.count
      /\ p \in TokenPorts =>
           /\ store'.token[t].ref_count = Destinations[p]
           /\ \A k \in Tokens : /\ store'.token[k].ok_to_free = store.token[k].ok_to_free
                                /\ k # t => store'.token[k].ref_count = store.token[k].ref_count
      /\ p \notin TokenPorts => store' = store
  <2>1. CASE p \notin TokenPorts
    BY <1>2, <2>1 DEF SetToken, tokenVars
  <2>2. CASE p \in TokenPorts
    <3>1. t \in Tokens /\ Destinations[p] \in Nat
      BY <1>2, <2>2, PortsAssumption DEF TokenPorts
    <3>2. store.token[t].ref_count = 0
      <4>1. ~Settled(p)
        BY <1>4 DEF Settled
      <4> QED
        BY <2>2, <4>1 DEF StoreInv, Counts
    <3> DEFINE s1 == [store EXCEPT !.token[t].value = TRUE]
    <3>3. \A s \in InitializeToken(store, t) : s = <<s1, t>>
      <4>1. ASSUME NEW s \in InitializeToken(store, t)
            PROVE  s = <<s1, t>>
        <5> DEFINE D == {<<CreateToken(store, k), k>> : k \in NewTokens(store)}
                   U == IF store.token[t].ref_count = 0 THEN {<<store, t>>} ELSE D
                   F(u) == <<[u[1] EXCEPT !.token[u[2]].value = TRUE], u[2]>>
        <5>1. InitializeToken(store, t) = {F(u) : u \in U}
          BY Zenon DEF InitializeToken
        <5>2. F(<<store, t>>) = <<s1, t>>
          OBVIOUS
        <5> HIDE DEF F, D
        <5>3. U = {<<store, t>>}
          BY <3>2
        <5> HIDE DEF U, s1
        <5>4. PICK u \in U : s = F(u)
          BY <4>1, <5>1
        <5> DEFINE e == <<store, t>>
        <5>5. F(e) = <<s1, t>> /\ U = {e}
          BY <5>2, <5>3
        <5> HIDE DEF e
        <5>6. u = e
          BY <5>5
        <5> QED
          BY <5>4, <5>5, <5>6
      <4> QED
        BY <4>1
    <3>4. PICK s \in InitializeToken(store, t) :
            /\ store' = [s[1] EXCEPT !.token[s[2]].ref_count = Destinations[p]]
            /\ port_token' = [port_token EXCEPT ![p] = s[2]]
            /\ UNCHANGED more_tokens
      BY <2>2 DEF SetToken
    <3>5. s[1] = s1 /\ s[2] = t
      BY <3>3, <3>4
    <3> HIDE DEF s1
    <3>6. /\ store' = [s1 EXCEPT !.token[t].ref_count = Destinations[p]]
          /\ port_token' = [port_token EXCEPT ![p] = t] /\ more_tokens' = more_tokens
      BY <3>4, <3>5
    <3>7. port_token' = port_token
      BY <1>2, <2>2, <3>6
    <3>8. /\ s1 \in Store
          /\ \A k \in Tokens : /\ s1.token[k].ref_count = store.token[k].ref_count
                               /\ s1.token[k].ok_to_free = store.token[k].ok_to_free
          /\ s1.allocated = store.allocated /\ s1.bin = store.bin /\ s1.count = store.count
      BY <1>2, <3>1, ValueFields DEF s1
    <3> DEFINE s2 == [s1 EXCEPT !.token[t].ref_count = Destinations[p]]
    <3>9. /\ s2 \in Store
          /\ \A k \in Tokens \ {t} : s2.token[k] = s1.token[k]
          /\ s2.token[t].ref_count = Destinations[p]
          /\ s2.token[t].ok_to_free = s1.token[t].ok_to_free
          /\ s2.allocated = s1.allocated /\ s2.bin = s1.bin /\ s2.count = s1.count
      BY <3>1, <3>8, CountFields
    <3>10. store' = s2
      BY <3>6
    <3> HIDE DEF s2
    <3>11. \A k \in Tokens : /\ s2.token[k].ok_to_free = store.token[k].ok_to_free
                             /\ k # t => s2.token[k].ref_count = store.token[k].ref_count
      BY <3>8, <3>9
    <3> QED
      BY <2>2, <3>6, <3>7, <3>8, <3>9, <3>10, <3>11
  <2> QED
    BY <2>1, <2>2
<1>8. Ported' = Ported /\ Binned' = Binned /\ Copied' = Copied
  BY <1>7 DEF Ported, Binned, Copied, Template
<1>9. TokensTypeOK'
  BY <1>1, <1>7 DEF StoreInv, TokensTypeOK
<1>10. Parted'
  BY <1>7, <1>8 DEF StoreInv, Parted
<1>11. Tallied' /\ Copies'
  <2>1. /\ UNCHANGED <<port_token, more_tokens>>
        /\ store'.bin = store.bin /\ store'.count = store.count
    BY <1>7
  <2>2. \A v \in Workers :
          /\ at[v] \in Making \/ at'[v] \in Making =>
               /\ at'[v] = at[v] /\ head'[v] = head[v] /\ tally'[v] = tally[v]
               /\ current'[v] = current[v]
          /\ copy'[v] # NULL => copy'[v] = copy[v] /\ current'[v] = current[v]
    BY <1>1, <1>3 DEF Making
  <2> QED
    BY <2>1, <2>2, CopiesKept DEF StoreInv
<1>12. Counts'
  <2>1. CASE p \notin TokenPorts
    <3>1. \A q \in TokenPorts : Settled(q)' <=> Settled(q)
      BY <1>6, <2>1
    <3>2. UNCHANGED tokenVars
      BY <1>7, <2>1 DEF tokenVars
    <3> QED
      BY <3>1, <3>2, StoreKept DEF StoreInv, tokenVars
  <2>2. CASE p \in TokenPorts
    <3>1. Settled(p)'
      <4>1. p \in wrote'
        BY <1>1 DEF MarkInv
      <4>2. ASSUME NEW v \in Workers, Writes(v, p)'
            PROVE  FALSE
        <5>1. v # w /\ Writes(v, p)
          BY <1>4, <1>5, <2>2, <4>2
        <5>2. p \in OncePorts
          BY <2>2 DEF TokenTables
        <5> QED
          BY <1>4, <5>1, <5>2, OneWriter
      <4> QED
        BY <4>1, <4>2 DEF Settled
    <3>2. t \in Tokens /\ t \in Ported
      BY <1>2, <2>2 DEF Ported, Template
    <3>3. \A q \in TokenPorts : q # p => port_token[q] # t /\ port_token[q] \in Tokens
      BY <1>2, <2>2 DEF StoreInv, Parted, IsInjective
    <3>4. ASSUME NEW q \in TokenPorts
          PROVE  /\ store'.token[port_token[q]].ref_count
                      = IF Settled(q)' THEN Destinations[q] ELSE 0
                 /\ ~store'.token[port_token[q]].ok_to_free
      <4>1. store'.token[port_token[q]].ok_to_free = store.token[port_token[q]].ok_to_free
        BY <1>2, <1>7, <2>2
      <4>2. ~store.token[port_token[q]].ok_to_free
        BY DEF StoreInv, Counts
      <4>3. CASE q = p
        BY <1>7, <2>2, <3>1, <4>1, <4>2, <4>3
      <4>4. CASE q # p
        <5>1. store'.token[port_token[q]].ref_count = store.token[port_token[q]].ref_count
          BY <1>7, <2>2, <3>3, <4>4
        <5> QED
          BY <1>6, <4>1, <4>2, <4>4, <5>1 DEF StoreInv, Counts
      <4> QED
        BY <4>3, <4>4
    <3>5. Copied \subseteq Tokens /\ t \notin Copied
      BY <3>2, SetOfTokens DEF Copied, StoreInv, Parted, TokensTypeOK
    <3>6. \A x \in Copied : store'.token[x].ref_count = 1 /\ store'.token[x].ok_to_free
      BY <1>7, <2>2, <3>5 DEF StoreInv, Counts
    <3>7. \A x \in Tokens \ (Ported \cup Copied) : store'.token[x].ref_count = 0
      BY <1>7, <2>2, <3>2 DEF StoreInv, Counts
    <3> QED
      BY <1>7, <1>8, <3>4, <3>6, <3>7 DEF Counts
  <2> QED
    BY <2>1, <2>2
<1> QED
  BY <1>9, <1>10, <1>11, <1>12 DEF StoreInv

(* What a new time step finds.                                               *)
Released(s) ==
  /\ \A t \in Tokens : s.token[t].ref_count = 0
  /\ s.allocated = Ported \cup {t \in Tokens : InBin(s, t)}
  /\ s.count = 0

(* The time step ends: all tokens are given back.                            *)
LEMMA AdvanceStore ==
  ASSUME EInv, MarkInv, MutableInv, StoreInv, AdvanceTag
  PROVE  StoreInv' /\ Released(store')
<1> USE DEF EInv
<1>1. /\ UNCHANGED <<at, port, tally, head, copy, current, port_token>>
      /\ wrote' = {} /\ more_tokens' = <<>> /\ \A w \in Workers : at[w] = "idle"
  BY DEF AdvanceTag, StartTimeStep, Quiet, locals, copyVars
<1> DEFINE P == is_present \cap TokenPorts
           s == PortsDone(store, P)
           u == CopiesDone(s)
<1>2. store' = u
  BY DEF AdvanceTag, StartTimeStep, PortsDone
<1>3. /\ port_token \in [TokenPorts -> Tokens] /\ more_tokens \in Seq(Tokens)
      /\ store \in Store /\ IsInjective(port_token) /\ IsInjective(more_tokens)
      /\ IsInjective(store.bin)
      /\ Ported \cap Binned = {} /\ Ported \cap Copied = {} /\ Binned \cap Copied = {}
      /\ store.allocated = Ported \cup Binned \cup Copied
  BY DEF StoreInv, TokensTypeOK, Parted
<1>4. IsFiniteSet(P) /\ P \subseteq TokenPorts
  BY PortsAssumption, FS_Subset DEF TokenPorts
<1>5. \A p \in TokenPorts : Settled(p) <=> p \in P
  BY <1>1 DEF Settled, Writes, Writing, MarkInv, WriteInv, PresentIsFresh
<1>6. ASSUME NEW p \in TokenPorts
      PROVE  /\ store.token[port_token[p]].ref_count = IF p \in P THEN Destinations[p] ELSE 0
             /\ ~store.token[port_token[p]].ok_to_free
  BY <1>5 DEF StoreInv, Counts
<1>7. /\ \A t \in Copied : store.token[t].ref_count = 1 /\ store.token[t].ok_to_free
      /\ \A t \in Tokens \ (Ported \cup Copied) : store.token[t].ref_count = 0
      /\ store.count = Len(more_tokens)
  BY <1>1 DEF StoreInv, Counts, Tallied, Taking
<1>8. \A p \in P : /\ store.token[port_token[p]].ref_count = Destinations[p]
                   /\ ~store.token[port_token[p]].ok_to_free
  BY <1>4, <1>6
<1> HIDE DEF P
<1>9. LET y == PortsDone(store, P)
      IN  SameBut(y, store, Template(P)) /\ \A p \in P : Unused(y, port_token[p])
  BY <1>3, <1>4, <1>8, PortsDoneFields
<1> HIDE DEF s, u
<1>10. SameBut(s, store, Template(P)) /\ \A p \in P : Unused(s, port_token[p])
  BY <1>9 DEF s
<1>11. /\ s \in Store /\ s.allocated = store.allocated /\ s.bin = store.bin
       /\ s.count = store.count /\ \A k \in Tokens \ Template(P) : s.token[k] = store.token[k]
  BY <1>10 DEF SameBut
<1>12. Template(P) \subseteq Ported /\ Copied \subseteq Tokens /\ Ported \subseteq Tokens
  BY <1>3, <1>4, SetOfTokens DEF Template, Ported, Copied
<1>13. \A t \in Copied : s.token[t].ref_count = 1 /\ s.token[t].ok_to_free
  BY <1>3, <1>7, <1>11, <1>12
<1>14. ASSUME NEW p \in TokenPorts
       PROVE  Unused(s, port_token[p])
  <2>1. CASE p \in P
    BY <1>10, <2>1
  <2>2. CASE p \notin P
    <3>1. port_token[p] \notin Template(P) /\ port_token[p] \in Tokens
      BY <1>3, <1>4, <2>2 DEF Template, IsInjective
    <3> QED
      BY <1>6, <1>11, <2>2, <3>1 DEF Unused
  <2> QED
    BY <2>1, <2>2
<1>15. /\ ToSet(s.bin) = Binned /\ IsInjective(s.bin) /\ ToSet(more_tokens) = Copied
       /\ s.allocated = Ported \cup ToSet(s.bin) \cup ToSet(more_tokens)
       /\ ToSet(s.bin) \cap ToSet(more_tokens) = {}
       /\ Ported \cap (ToSet(s.bin) \cup ToSet(more_tokens)) = {}
  BY <1>3, <1>11 DEF Binned, Copied
<1>16. \A t \in ToSet(more_tokens) : s.token[t].ref_count = 1 /\ s.token[t].ok_to_free
  BY <1>13, <1>15
<1>17. LET y == CopiesDone(s)
       IN  /\ y \in Store /\ y.count = s.count - Len(more_tokens)
           /\ \A t \in Tokens \ ToSet(more_tokens) : y.token[t] = s.token[t]
           /\ \A t \in ToSet(more_tokens) : y.token[t].ref_count = 0
           /\ IsInjective(y.bin) /\ y.allocated = Ported \cup ToSet(y.bin)
           /\ Ported \cap ToSet(y.bin) = {}
  BY <1>3, <1>11, <1>15, <1>16, CopiesDoneFields
<1>18. /\ u \in Store /\ u.count = s.count - Len(more_tokens)
       /\ \A t \in Tokens \ Copied : u.token[t] = s.token[t]
       /\ \A t \in Copied : u.token[t].ref_count = 0
       /\ IsInjective(u.bin) /\ u.allocated = Ported \cup ToSet(u.bin)
       /\ Ported \cap ToSet(u.bin) = {}
  BY <1>15, <1>17 DEF u
<1>19. u.count = 0
  BY <1>3, <1>7, <1>11, <1>18, LenProperties
<1>20. \A p \in TokenPorts : Unused(u, port_token[p])
  <2>1. \A p \in TokenPorts : port_token[p] \in Tokens \ Copied
    BY <1>3 DEF Ported, Template
  <2> QED
    BY <1>14, <1>18, <2>1 DEF Unused
<1>21. \A t \in Tokens : u.token[t].ref_count = 0
  <2>1. \A t \in Ported : u.token[t].ref_count = 0
    BY <1>20 DEF Ported, Template, Unused
  <2>2. \A t \in Tokens \ (Ported \cup Copied) : u.token[t].ref_count = 0
    <3> SUFFICES ASSUME NEW t \in Tokens, t \notin Ported, t \notin Copied
                 PROVE  u.token[t].ref_count = 0
      OBVIOUS
    <3>1. s.token[t] = store.token[t]
      BY <1>11, <1>12
    <3>2. u.token[t] = s.token[t]
      BY <1>18
    <3> QED
      BY <1>7, <3>1, <3>2
  <2> QED
    BY <1>18, <2>1, <2>2
<1>22. Released(u)
  <2>1. u.bin \in Seq(Tokens)
    BY <1>18 DEF Store
  <2>2. ToSet(u.bin) = {t \in Tokens : InBin(u, t)}
    BY <2>1, SetOfTokens DEF ToSet, InBin
  <2> QED
    BY <1>18, <1>19, <1>21, <2>2 DEF Released
<1>23. Ported' = Ported /\ Binned' = ToSet(u.bin) /\ Copied' = {}
  <2>1. DOMAIN <<>> = {}
    OBVIOUS
  <2> QED
    BY <1>1, <1>2, <2>1 DEF Ported, Template, Binned, Copied, ToSet
<1>24. Parted'
  <2>1. IsInjective(more_tokens')
    BY <1>1 DEF IsInjective
  <2> QED
    BY <1>1, <1>2, <1>3, <1>18, <1>23, <2>1 DEF Parted
<1>25. Counts'
  <2>1. \A p \in TokenPorts : ~Settled(p)'
    BY <1>1 DEF Settled
  <2>2. \A p \in TokenPorts : /\ store'.token[port_token'[p]].ref_count = 0
                              /\ ~store'.token[port_token'[p]].ok_to_free
    BY <1>1, <1>2, <1>20 DEF Unused
  <2> QED
    BY <1>2, <1>21, <1>23, <2>1, <2>2 DEF Counts
<1>26. Tallied' /\ Copies'
  <2>1. Tallied'
    BY <1>1, <1>2, <1>19 DEF Tallied, Taking
  <2> QED
    BY <1>1, <2>1 DEF Copies, MutableInv, Making
<1>27. TokensTypeOK'
  BY <1>1, <1>2, <1>18 DEF TokensTypeOK, StoreInv
<1> QED
  BY <1>2, <1>22, <1>24, <1>25, <1>26, <1>27 DEF StoreInv

(* Each token port can be given a template of its own.                       *)
TemplatesFit == \E f \in [TokenPorts -> Tokens] : \A p, q \in TokenPorts : f[p] = f[q] => p = q

(* At first every token that is allocated is a port's.                       *)
LEMMA InitStore ==
  ASSUME Init, TemplatesFit
  PROVE  StoreInv /\ MarkInv /\ MutableInv
<1>1. /\ \A w \in Workers : at[w] = "idle" /\ copy[w] = NULL
      /\ tally = [w \in Workers |-> 0]
      /\ head = [w \in Workers |-> NULL] /\ copy = [w \in Workers |-> NULL]
      /\ wrote = {} /\ more_tokens = <<>>
      /\ port_token = CHOOSE f \in [TokenPorts -> Tokens] :
                        \A p, q \in TokenPorts : f[p] = f[q] => p = q
      /\ store = [token |-> [t \in Tokens |-> Blank],
                  allocated |-> {port_token[p] : p \in TokenPorts},
                  bin |-> <<>>, count |-> 0]
  BY DEF Init, PortsInit
<1>2. /\ port_token \in [TokenPorts -> Tokens]
      /\ \A p, q \in TokenPorts : port_token[p] = port_token[q] => p = q
  BY <1>1 DEF TemplatesFit
<1>3. /\ Blank \in TokenState /\ Blank.ref_count = 0 /\ ~Blank.ok_to_free
      /\ <<>> \in Seq(Tokens) /\ DOMAIN <<>> = {} /\ Len(<<>>) = 0
  BY DEF Blank, TokenState
<1>4. /\ store \in Store /\ store.bin = <<>> /\ store.count = 0 /\ store.allocated = Ported
      /\ \A t \in Tokens : store.token[t] = Blank
  <2> DEFINE A == {port_token[p] : p \in TokenPorts}
             T == [t \in Tokens |-> Blank]
  <2>1. A \in SUBSET Tokens /\ A = Ported
    BY <1>2 DEF Ported, Template
  <2>2. T \in [Tokens -> TokenState] /\ \A t \in Tokens : T[t] = Blank
    BY <1>3
  <2>3. store = [token |-> T, allocated |-> A, bin |-> <<>>, count |-> 0]
    BY <1>1
  <2> HIDE DEF A, T
  <2> QED
    BY <1>3, <2>1, <2>2, <2>3 DEF Store
<1>5. Binned = {} /\ Copied = {}
  <2>1. ToSet(<<>>) = {}
    BY <1>3 DEF ToSet
  <2> QED
    BY <1>1, <1>4, <2>1 DEF Binned, Copied
<1>6. Parted
  <2>1. IsInjective(port_token)
    BY <1>2 DEF IsInjective
  <2>2. IsInjective(<<>>)
    BY <1>3 DEF IsInjective
  <2> QED
    BY <1>1, <1>4, <1>5, <2>1, <2>2 DEF Parted
<1>7. Counts
  BY <1>1, <1>2, <1>3, <1>4, <1>5 DEF Counts, Settled
<1>8. Tallied /\ Copies
  BY <1>1, <1>3, <1>4 DEF Tallied, Taking, Copies, Making
<1>9. TokensTypeOK
  <2>1. head = [w \in Workers |-> NULL] /\ copy = [w \in Workers |-> NULL]
    BY <1>1
  <2>2. tally = [w \in Workers |-> 0]
    BY <1>1
  <2>3. tally \in [Workers -> Int]
    BY <2>2
  <2>4. more_tokens \in Seq(Tokens)
    BY <1>1, <1>3
  <2> QED
    BY <1>2, <1>4, <2>1, <2>3, <2>4 DEF TokensTypeOK
<1> QED
  BY <1>1, <1>6, <1>7, <1>8, <1>9 DEF StoreInv, MarkInv, MutableInv, Writing, Copying

(* The tokens keep their places.                                             *)
LEMMA StoreNext ==
  ASSUME EInv, OnceInv, MarkInv, MutableInv, StoreInv, TokenTables, MakingApart, [Next]_vars
  PROVE  StoreInv'
<1>1. ASSUME NEW w \in Workers, MakeCopy(w)
      PROVE  StoreInv'
  BY <1>1, TestStore, CountStore, PeekStore, PopStore DEF MakeCopy
<1>2. ASSUME NEW w \in Workers, Write(w)
      PROVE  StoreInv'
  <2>1. CASE SetToken(w)
    BY <1>2, <2>1, SetStore DEF Write
  <2>2. CASE ~SetToken(w)
    BY <1>2, <2>2, WriteStore DEF Write
  <2> QED
    BY <2>1, <2>2
<1>3. ASSUME NEW w \in Workers, BodyStep(w)
      PROVE  StoreInv'
  BY <1>1, <1>2, <1>3, WriteStore DEF BodyStep
<1>4. CASE UNCHANGED vars
  <2>1. \A v \in Workers, p \in TokenPorts : Writes(v, p)' <=> Writes(v, p)
    BY <1>4 DEF vars, portVars, locals, copyVars, Writes
  <2>2. UNCHANGED <<wrote, tokenVars, tally, head, copy, at, current>>
    BY <1>4 DEF vars, portVars, locals, copyVars, execVars
  <2>3. UNCHANGED <<port_token, more_tokens, store>>
    BY <2>2 DEF tokenVars
  <2>4. \A p \in TokenPorts : Settled(p)' <=> Settled(p)
    BY <2>1, <2>2, SettledKept
  <2>5. Parted' /\ Counts'
    BY <2>2, <2>4, StoreKept DEF StoreInv, tokenVars
  <2>6. Tallied' /\ Copies'
    BY <2>2, <2>3, CopiesKept DEF StoreInv
  <2> QED
    BY <2>2, <2>5, <2>6 DEF StoreInv, TokensTypeOK, tokenVars
<1> QED
  BY <1>3, <1>4, StepKinds, SchedulerStore, AdvanceStore

(* Reactions that may write the same token in place belong to one reactor,   *)
(* and one precedes the other.                                               *)
ReadersApart ==
  \A r, d \in Reactions :
    r # d /\ Mutable[r] = Mutable[d] /\ Mutable[r] \in TokenPorts /\ Destinations[Mutable[r]] = 1
      => r \in Preceding[d] \/ d \in Preceding[r]

(* Of the reactions that copy a shared token, no two can run at the same     *)
(* time.                                                                     *)
MayCopy(r) == Mutable[r] # NULL /\ Destinations[Mutable[r]] # 1

CopiesOrdered ==
  \A r, d \in Reactions :
    r # d /\ MayCopy(r) /\ MayCopy(d) => r \in Preceding[d] \/ d \in Preceding[r]

(* The program is run with -w 1. *)
SingleWorker == \A w, v \in Workers : w = v

(* A worker with a writable token executes a reaction with a mutable input.  *)
LEMMA CopyHolder ==
  ASSUME EInv, MutableInv, NEW w \in Workers, at[w] \in Copying \/ copy[w] # NULL
  PROVE  current[w] \in Reactions /\ Mutable[current[w]] # NULL
BY DEF EInv, MutableInv, WorkerInv, ExecTypeOK

(* Then no two workers are in create_token at once.                          *)
LEMMA MakersApart ==
  ASSUME EInv, MutableInv, Copies, SingleWorker \/ CopiesOrdered
  PROVE  MakingApart
<1> SUFFICES ASSUME CopiesOrdered, NEW w \in Workers, NEW v \in Workers,
                    at[w] \in Making, at[v] \in Making
             PROVE  w = v
  BY DEF MakingApart, SingleWorker
<1>1. \A u \in {w, v} : current[u] \in Reactions /\ MayCopy(current[u])
  BY CopyHolder DEF Copies, MayCopy, Making, Copying
<1> QED
  BY <1>1, NeitherPrecedes DEF CopiesOrdered

(* The copies are private where the tokens are in order.                     *)
LEMMA StorePrivate ==
  ASSUME EInv, MutableInv, StoreInv, TokenTables, SingleWorker \/ ReadersApart
  PROVE  CopiesPrivate
<1>1. /\ port_token \in [TokenPorts -> Tokens] /\ IsInjective(port_token)
      /\ Ported \cap Copied = {}
  BY DEF StoreInv, TokensTypeOK, Parted
<1>2. ASSUME NEW w \in Workers, copy[w] # NULL, copy[w] \notin Copied
      PROVE  /\ current[w] \in Reactions /\ Mutable[current[w]] \in TokenPorts
             /\ Destinations[Mutable[current[w]]] = 1
             /\ copy[w] = port_token[Mutable[current[w]]]
  BY <1>2, CopyHolder DEF StoreInv, Copies, TokenTables
<1>3. ASSUME NEW w \in Workers, copy[w] # NULL, NEW v \in Workers \ {w}, copy[v] = copy[w]
      PROVE  FALSE
  <2>1. copy[w] \notin Copied
    BY <1>3 DEF StoreInv, Copies
  <2>2. Mutable[current[w]] = Mutable[current[v]]
    BY <1>1, <1>2, <1>3, <2>1 DEF IsInjective
  <2> QED
    BY <1>2, <1>3, <2>1, <2>2, NeitherPrecedes DEF ReadersApart, SingleWorker
<1>4. ASSUME NEW w \in Workers, copy[w] # NULL, NEW p \in TokenPorts, port_token[p] = copy[w]
      PROVE  Destinations[p] = 1
  <2>1. copy[w] \notin Copied
    BY <1>1, <1>4 DEF Ported, Template
  <2> QED
    BY <1>1, <1>2, <1>4, <2>1 DEF IsInjective
<1> QED
  BY <1>3, <1>4 DEF CopiesPrivate, StoreInv

(* The next time step finds no token in use.                                 *)
LEMMA StoreReleased ==
  ASSUME EInv, MarkInv, MutableInv, StoreInv, [Next]_vars, tags' # tags
  PROVE  Released(store')
<1>1. ASSUME NEW w \in Workers,
             \/ \E r \in Reactions : GetReady(w, r)
             \/ Run(w) \/ Skip(w) \/ BodyStep(w) \/ ScheduleOutputs(w)
      PROVE  tags' = tags
  <2>1. CASE BodyStep(w)
    BY <2>1, BodySteps
  <2>2. CASE (\E r \in Reactions : GetReady(w, r)) \/ Run(w) \/ Skip(w) \/ ScheduleOutputs(w)
    BY <2>2 DEF GetReady, Run, Skip, ScheduleOutputs
  <2> QED
    BY <1>1, <2>1, <2>2
<1>2. AdvanceTag
  BY <1>1, StepKinds DEF vars, execVars
<1> QED
  BY <1>2, AdvanceStore

(* The invariant of the tokens, with what it rests on.                       *)
TokensInv == EInv /\ OnceInv /\ MarkInv /\ MutableInv /\ StoreInv

(* It holds at first.                                                        *)
LEMMA InitTokens ==
  ASSUME TemplatesFit
  PROVE  Init => TokensInv
<1> SUFFICES ASSUME Init
             PROVE  OnceInv
  BY InitInv, InitStore DEF TokensInv
<1>1. wrote = {} /\ is_present = {} /\ \A w \in Workers : at[w] = "idle" /\ todo[w] = Nothing
  BY DEF Init, PortsInit
<1> QED
  BY <1>1 DEF OnceInv, Nothing, OncePorts

(* Every step preserves it.                                                  *)
LEMMA TokensNext ==
  ASSUME TokenTables, SingleWorker \/ CopiesOrdered, TokensInv, EInv', [Next]_vars
  PROVE  TokensInv'
<1>1. MakingApart
  BY MakersApart DEF TokensInv, StoreInv
<1> QED
  BY <1>1, OnceNext, MarkNext, MutableNext, StoreNext DEF TokensInv, StoreInv, TokensTypeOK

(* The tokens are always in order.                                           *)
LEMMA TokensHold ==
  ASSUME TokenTables, TemplatesFit, SingleWorker \/ CopiesOrdered
  PROVE  Spec => []TokensInv
<1>1. TokensInv /\ EInv' /\ [Next]_vars => TokensInv'
  BY TokensNext
<1> QED
  BY <1>1, InitTokens, InvHolds, PTL DEF Spec

(* A mutable input has its token for itself: no other reaction writes it,    *)
(* and no other input was given it.  This holds of every program in which    *)
(* the reactions that copy a shared token have to precede one another, as do *)
(* those that write one token in place, and with one worker of every         *)
(* program.  Without the order the race of _lf_create_token breaks it.       *)
THEOREM WritableTokensArePrivate ==
  ASSUME TokenTables, TemplatesFit, SingleWorker \/ (CopiesOrdered /\ ReadersApart)
  PROVE  Spec => []CopiesPrivate
<1>1. TokensInv => CopiesPrivate
  BY StorePrivate DEF TokensInv
<1> QED
  BY <1>1, TokensHold, PTL

(* _lf_start_time_step gives every token back: none is in use after it, the  *)
(* copies are in the bin or freed, and the allocations counted, by a read    *)
(* and a write without the mutex, are none.  This holds of the same programs *)
(* and needs no order of the reactions that write in place.                  *)
THEOREM TokensAreReleased ==
  ASSUME TokenTables, TemplatesFit, SingleWorker \/ CopiesOrdered
  PROVE  Spec => TokensReleased
<1>1. TokensInv /\ [Next]_vars
      => [tags' # tags =>
            LET s == store' IN
              /\ \A t \in Tokens : s.token[t].ref_count = 0
              /\ s.allocated = {port_token[p] : p \in TokenPorts} \cup {t \in Tokens : InBin(s, t)}
              /\ s.count = 0]_vars
  BY StoreReleased DEF TokensInv, Released, Ported, Template
<1> QED
  BY <1>1, TokensHold, PTL DEF Spec, TokensReleased
=============================================================================
