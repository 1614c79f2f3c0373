---------------------------- MODULE TagExecution ----------------------------
(***************************************************************************)
(* The workers execute the reactions of a tag: a worker takes a ready      *)
(* reaction from the scheduler, tests its deadline, runs its body or the   *)
(* deadline handler, and triggers the reactions downstream of the outputs  *)
(* written.  If that is a single reaction that only waited for this one,   *)
(* the worker executes it at once, without the queue and without changing  *)
(* its status.  When nothing is left the tag advances (TimeStep).          *)
(*                                                                         *)
(* The scheduler (scheduler.h) is external: reactions of the least level    *)
(* are ready, and a level is finished before the next one begins.  So are  *)
(* the generated tables, with the assumption below.                        *)
(***************************************************************************)
EXTENDS TimeStep

CONSTANTS
  Reactions,
  Level,          \* Level[r]
  Outputs,        \* Outputs[r]: the ports that r may write
  Readers,        \* Readers[p]: the reactions that p triggers
  Visits,         \* Visits[r]: pairs of an output of r and a reaction that it
                  \* triggers, as the loops over r's tables come upon them
  LastEnabling,   \* last_enabling_reaction, or NULL
  Before,         \* Before[r]: the reactions r has to wait for
  Timed,          \* reactions that a timer or an action may trigger
  Deadlines,      \* reactions with a deadline
  Handlers,       \* those of them with a handler
  Mutable,        \* Mutable[r]: the port that r reads through a mutable
                  \* input, or NULL
  MaxWrites,      \* MaxWrites[p]: how often a body writes p at most
  MaxTags         \* bound on the tags executed

Writers(p) == {r \in Reactions : p \in Outputs[r]}

ASSUME TablesTyped ==
  /\ NULL \notin Reactions
  /\ Level \in [Reactions -> Nat]
  /\ Outputs \in [Reactions -> SUBSET Ports] /\ Readers \in [Ports -> SUBSET Reactions]
  /\ Visits \in [Reactions -> Seq(Ports \X Reactions)]
  /\ LastEnabling \in [Reactions -> Reactions \cup {NULL}]
  /\ Before \in [Reactions -> SUBSET Reactions]
  /\ Timed \subseteq Reactions /\ Mutable \in [Reactions -> Ports \cup {NULL}]
  /\ MaxWrites \in [Ports -> Nat] /\ MaxTags \in Nat

(* The tables: levels agree with the order of reactions, and a reaction      *)
(* names another as its last enabling one only if nothing else triggers it   *)
(* or has to precede it.                                                     *)
ASSUME TablesAssumption ==
  /\ \A r \in Reactions : \A b \in Before[r] : Level[b] < Level[r]
  /\ \A p \in Ports : \A d \in Readers[p] : Writers(p) \subseteq Before[d]
  /\ \A r \in Reactions : {Visits[r][i] : i \in DOMAIN Visits[r]} =
                           UNION {{p} \X Readers[p] : p \in Outputs[r]}
  /\ \A d \in Reactions \ {r \in Reactions : LastEnabling[r] = NULL} :
       d \notin Timed /\ Before[d] = {LastEnabling[d]}
  /\ Handlers \subseteq Deadlines
  /\ \A p \in TokenPorts : MaxWrites[p] = 1

VARIABLES
  tags,       \* tags executed so far
  queued,     \* reactions with status queued: those in the reaction queue
  running,    \* running[w]: the reaction the scheduler gave to w, or NULL
  current,    \* current[w]: the one w executes: it, or one further down
  todo,       \* todo[w]: how often the body of w still writes each port
  runs,       \* runs[r]: history: executions of r at this tag
  wrote,      \* history: ports written at this tag
  roots       \* history: reactions triggered by timers or actions

execVars == <<tags, queued, running, current, todo, runs, wrote, roots>>
vars == <<portVars, at, execVars>>

Locations == {"idle", "invoke", "copy", "count", "peek", "pop", "body",
              "mark", "sparse", "channel", "written"}

ExecTypeOK ==
  /\ at \in [Workers -> Locations]
  /\ tags \in 0..MaxTags
  /\ queued \subseteq Reactions /\ roots \subseteq Reactions
  /\ running \in [Workers -> Reactions \cup {NULL}]
  /\ current \in [Workers -> Reactions \cup {NULL}]
  /\ todo \in [Workers -> [Ports -> Nat]]
  /\ runs \in [Reactions -> Nat]
  /\ wrote \subseteq Ports

Nothing == [p \in Ports |-> 0]

Init ==
  /\ PortsInit
  /\ at = [w \in Workers |-> "idle"]
  /\ tags = 0 /\ queued = {} /\ roots = {} /\ wrote = {}
  /\ running = [w \in Workers |-> NULL] /\ current = [w \in Workers |-> NULL]
  /\ todo = [w \in Workers |-> Nothing]
  /\ runs = [r \in Reactions |-> 0]

-----------------------------------------------------------------------------
(* lf_sched_get_ready_reaction: of the least level queued or executing. *)
Executing == {running[w] : w \in Workers} \ {NULL}

GetReady(w, r) ==
  /\ running[w] = NULL /\ r \in queued
  /\ \A o \in queued \cup Executing : Level[r] <= Level[o]
  /\ Goto(w, "idle", "invoke")
  /\ queued' = queued \ {r}
  /\ running' = [running EXCEPT ![w] = r]
  /\ current' = [current EXCEPT ![w] = r]
  /\ UNCHANGED <<portVars, tags, todo, runs, wrote, roots>>

(* lf_sched_done_with_reaction *)
Done(w) ==
  /\ at' = [at EXCEPT ![w] = "idle"]
  /\ running' = [running EXCEPT ![w] = NULL]
  /\ current' = [current EXCEPT ![w] = NULL]

(* The body, or the handler of a missed deadline, which may write the same   *)
(* ports.                                                                    *)
Run(w) ==
  LET r == current[w]
  IN /\ Goto(w, "invoke", IF Mutable[r] # NULL /\ Mutable[r] \in is_present THEN "copy" ELSE "body")
     /\ \E n \in {f \in [Ports -> 0..2] :
                    \A p \in Ports : f[p] <= IF p \in Outputs[r] THEN MaxWrites[p] ELSE 0} :
          todo' = [todo EXCEPT ![w] = n]
     /\ runs' = [runs EXCEPT ![r] = @ + 1]
     /\ UNCHANGED <<portVars, tags, queued, running, current, wrote, roots>>

(* A missed deadline without a handler: nothing runs, nothing is triggered.  *)
Skip(w) ==
  /\ at[w] = "invoke" /\ current[w] \in Deadlines \ Handlers
  /\ Done(w)
  /\ runs' = [runs EXCEPT ![current[w]] = @ + 1]
  /\ UNCHANGED <<portVars, tags, queued, todo, wrote, roots>>

MakeCopy(w) ==
  /\ current[w] # NULL
  /\ TestCopy(w, Mutable[current[w]]) \/ CountCopy(w) \/ PeekBin(w) \/ PopCopy(w)
  /\ UNCHANGED execVars

BeginWrite(w, p) ==
  /\ todo[w][p] > 0
  /\ CountPresent(w, p)
  /\ todo' = [todo EXCEPT ![w][p] = @ - 1]
  /\ wrote' = wrote \cup {p}
  /\ UNCHANGED <<tags, queued, running, current, runs, roots>>

Write(w) ==
  /\ Mark(w) \/ CountChannel(w) \/ StoreChannel(w) \/ SetToken(w)
  /\ UNCHANGED execVars

-----------------------------------------------------------------------------
(* schedule_output_reactions: its loops over the outputs present and the     *)
(* reactions they trigger leave num, the candidate `now' and the reactions   *)
(* queued.  The calls of lf_sched_trigger_reaction commute with those of     *)
(* other workers.                                                            *)

(* Faulty variant: a candidate that is given up is not queued. *)
ConsiderDrop(r, acc, v) ==
  LET d == v[2] IN
  IF v[1] \notin is_present \/ d = acc.now THEN acc
  ELSE IF acc.num = 0 /\ LastEnabling[d] = r THEN [acc EXCEPT !.num = 1, !.now = d]
  ELSE [num |-> acc.num + 1, now |-> NULL, queue |-> acc.queue \cup {d}]

(* Faulty variant: any single reaction downstream is executed at once. *)
ConsiderAny(r, acc, v) ==
  LET d == v[2] IN
  IF v[1] \notin is_present \/ d = acc.now THEN acc
  ELSE IF acc.num = 0 THEN [acc EXCEPT !.num = 1, !.now = d]
  ELSE [num |-> acc.num + 1, now |-> NULL, queue |-> acc.queue \cup ({d, acc.now} \ {NULL})]

(* The next reaction v[2], that r triggers if it has written v[1]. *)
Consider(r, acc, v) ==
  LET d == v[2] IN
  IF v[1] \notin is_present \/ d = acc.now THEN acc
  ELSE IF acc.num = 0 /\ LastEnabling[d] = r THEN [acc EXCEPT !.num = 1, !.now = d]
  ELSE [num |-> acc.num + 1, now |-> NULL, queue |-> acc.queue \cup ({d, acc.now} \ {NULL})]

Considered(r) ==
  LET acc[i \in 0 .. Len(Visits[r])] ==
        IF i = 0 THEN [num |-> 0, now |-> NULL, queue |-> {}]
        ELSE Consider(r, acc[i - 1], Visits[r][i])
  IN acc[Len(Visits[r])]

ScheduleOutputs(w) ==
  LET all == Considered(current[w]) IN
  /\ at[w] = "body" /\ todo[w] = Nothing
  /\ queued' = queued \cup all.queue
  /\ IF all.now = NULL THEN Done(w)
     ELSE /\ at' = [at EXCEPT ![w] = "invoke"]
          /\ current' = [current EXCEPT ![w] = all.now]
          /\ UNCHANGED running
  /\ copy' = [copy EXCEPT ![w] = NULL]
  /\ UNCHANGED <<presence, record, tokenVars, port, index, tally, head,
                 tags, todo, runs, wrote, roots>>

-----------------------------------------------------------------------------
Quiet == queued = {} /\ \A w \in Workers : at[w] = "idle"

(* The next tag: the ports are reset, timers and actions trigger. *)
AdvanceTag ==
  /\ Quiet /\ tags < MaxTags
  /\ StartTimeStep
  /\ roots' \in SUBSET Timed \ {{}} /\ queued' = roots'
  /\ tags' = tags + 1 /\ wrote' = {}
  /\ runs' = [r \in Reactions |-> 0]
  /\ UNCHANGED <<at, running, current, todo>>

Finished == Quiet /\ tags = MaxTags /\ UNCHANGED vars

WorkerStep(w) ==
  \/ \E r \in Reactions : GetReady(w, r)
  \/ Run(w) \/ Skip(w) \/ MakeCopy(w)
  \/ \E p \in Ports : BeginWrite(w, p)
  \/ Write(w) \/ ScheduleOutputs(w)

Next == (\E w \in Workers : WorkerStep(w)) \/ AdvanceTag \/ Finished

Spec == Init /\ [][Next]_vars

-----------------------------------------------------------------------------
(* Properties *)

(* A reaction is executed once at a tag, although it may be triggered by     *)
(* several outputs, through the queue and directly.                          *)
OncePerTag == \A r \in Reactions : runs[r] <= 1

(* Everything that has to precede d: the least set with what d waits for and *)
(* what its members wait for.                                                *)
Preceding ==
  [d \in Reactions |->
     {b \in Reactions :
        \A S \in SUBSET Reactions :
          Before[d] \subseteq S /\ (\A x \in S : Before[x] \subseteq S) => b \in S}]

(* While a reaction is executed, no reaction it waits for is queued or being *)
(* executed: a direct execution does not overtake the scheduler.             *)
InOrder ==
  \A w \in Workers :
    current[w] # NULL =>
      \A b \in Preceding[current[w]] : b \notin queued /\ \A v \in Workers : current[v] # b

ExecutedInOrder == ExecTypeOK /\ OncePerTag /\ InOrder

(* When the tag is over, every reaction that a present port or an event      *)
(* triggers has been executed, and no other.                                 *)
AllExecuted ==
  Quiet => \A r \in Reactions :
             (runs[r] = 1) <=> (r \in roots \/ \E p \in is_present : r \in Readers[p])

(* A port is present only if it was written at this tag. *)
PresentIsFresh == is_present \subseteq wrote

Writing == {"mark", "sparse", "channel"}

(* Between writes, the sparse record lists every channel that is present, or *)
(* says that it does not.                                                    *)
SparseComplete ==
  (\A w \in Workers : at[w] \notin Writing) /\ record_size >= 0 =>
    {Channel[p] : p \in {q \in is_present : Channel[q] >= 0}} =
      {channels[i] : i \in DOMAIN channels \cap 0 .. record_size - 1}

PresenceRecorded == PresenceTypeOK /\ PresentIsFresh /\ SparseComplete

(* A writable token is its reaction's alone: no other reaction writes it or  *)
(* reads it from a port.                                                     *)
CopiesPrivate ==
  /\ TokensTypeOK
  /\ \A w \in Workers :
       copy[w] # NULL =>
         /\ \A v \in Workers \ {w} : copy[v] # copy[w]
         /\ \A p \in TokenPorts : port_token[p] = copy[w] => Destinations[p] = 1

(* A new time step finds nothing of the last one: no token is in use, the    *)
(* copies are back in the bin or freed, and the count agrees.                *)
TokensReleased ==
  [][tags' # tags =>
       LET s == store' IN
         /\ \A t \in Tokens : s.token[t].ref_count = 0
         /\ s.allocated = {port_token[p] : p \in TokenPorts} \cup {t \in Tokens : InBin(s, t)}
         /\ s.count = 0]_vars
=============================================================================
