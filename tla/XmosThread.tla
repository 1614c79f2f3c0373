----------------------------- MODULE XmosThread -----------------------------
(***************************************************************************)
(* Threads in lf_xmos_support.c, as lf_reactor_c_main uses them: it        *)
(* creates the workers, one after the other, and joins them.  A thread's   *)
(* entry in thread_info is chosen by its `running' flag; the function and  *)
(* the argument are handed over in a local variable of lf_thread_create,   *)
(* which the new thread reads when it gets to run; the variable lives only *)
(* as long as that call.                                                   *)
(*                                                                         *)
(* The threads of the tile (xcore/thread.h) are external: a free one is    *)
(* allocated and started, or none is left.  Which one is not specified;    *)
(* the one with the lowest id stands for all.                              *)
(***************************************************************************)
EXTENDS Integers

CONSTANTS
  Hardware,     \* ids of the hardware threads; 0 runs main
  NumThreads,   \* NUMBER_OF_THREADS
  WorkerCounts  \* bound: the values of _lf_number_of_workers

ASSUME ThreadAssumption ==
  /\ Hardware \subseteq Nat /\ 0 \in Hardware
  /\ NumThreads \in Nat \ {0} /\ WorkerCounts \subseteq Nat \ {0}

Entries == 0 .. NumThreads - 1
Unset == -1     \* an id that nothing has been assigned to

VARIABLES
  workers,      \* _lf_number_of_workers: NUMBER_OF_WORKERS or the option -w
  mainAt,       \* where main is
  i,            \* its loop index
  entry,        \* the local idx of lf_thread_create
  running,      \* running[e], id[e]: the fields of thread_info[e]
  id,
  stack,        \* stack[e]: e's stack is allocated
  ids,          \* ids[k]: _lf_thread_ids[k]; Unset: what malloc left there
  hw            \* hw[h]: "free", "started" (has not read func_and_arg yet),
                \* "running", "ended"; "wild": called something else;
                \* "trapped": an assertion failed

threadVars == <<workers, mainAt, i, entry, running, id, stack, ids, hw>>

ThreadTypeOK ==
  /\ mainAt \in {"create", "start", "record", "join", "joined", "noEntry", "badJoin"}
  /\ workers \in WorkerCounts /\ i \in 0 .. workers - 1 /\ entry \in Entries
  /\ running \in [Entries -> BOOLEAN] /\ stack \in [Entries -> BOOLEAN]
  /\ id \in [Entries -> Hardware \cup {Unset}]
  /\ ids \in [0 .. workers - 1 -> Entries \cup {Unset}]
  /\ hw \in [Hardware -> {"free", "started", "running", "ended", "wild", "trapped"}]

ThreadInit ==
  /\ workers \in WorkerCounts
  /\ mainAt = "create" /\ i = 0 /\ entry = 0
  /\ running = [e \in Entries |-> FALSE] /\ id = [e \in Entries |-> Unset]
  /\ stack = [e \in Entries |-> FALSE]
  /\ ids = [k \in 0 .. workers - 1 |-> Unset]
  /\ hw = [h \in Hardware |-> IF h = 0 THEN "running" ELSE "free"]

MainAt(from, to) == mainAt = from /\ mainAt' = to

(* Main goes on with the next worker, or to the end of the loop. *)
NextWorker(from, loop, end) ==
  MainAt(from, IF i + 1 < workers THEN loop ELSE end)
    /\ i' = IF i + 1 < workers THEN i + 1 ELSE 0

-----------------------------------------------------------------------------
(* lf_thread_create *)

(* get_available_thread, the assertion on its result, and the stack. *)
ChooseEntry ==
  /\ IF \E e \in Entries : ~running[e]
     THEN /\ MainAt("create", "start")
          /\ entry' = CHOOSE e \in Entries :
                        ~running[e] /\ \A o \in 0 .. e - 1 : running[o]
          /\ stack' = [stack EXCEPT ![entry'] = TRUE]
     ELSE MainAt("create", "noEntry") /\ UNCHANGED <<entry, stack>>
  /\ UNCHANGED <<workers, i, running, id, ids, hw>>

(* xthread_alloc_and_start.  Without a thread (other programs of the tile use *)
(* them as well) lf_thread_create returns -1, which start_threads does not   *)
(* look at.                                                                  *)
StartThread ==
  /\ \/ \E h \in Hardware :
          /\ hw[h] = "free" /\ \A k \in Hardware : k < h => hw[k] # "free"
          /\ MainAt("start", "record")
          /\ hw' = [hw EXCEPT ![h] = "started"]
          /\ id' = [id EXCEPT ![entry] = h]
          /\ UNCHANGED i
     \/ NextWorker("start", "create", "join") /\ UNCHANGED <<hw, id>>
  /\ UNCHANGED <<workers, entry, running, stack, ids>>

RecordThread ==
  /\ NextWorker("record", "create", "join")
  /\ running' = [running EXCEPT ![entry] = TRUE]
  /\ ids' = [ids EXCEPT ![i] = entry]
  /\ UNCHANGED <<workers, entry, id, stack, hw>>

(* func_and_arg of the call that started h has not gone out of scope. *)
ArgumentAlive(h) == mainAt = "record" /\ id[entry] = h

(* thread_function: it calls what it finds there, which after the call is    *)
(* whatever main's stack holds by then, the old contents included.           *)
ThreadFunction(h) ==
  /\ hw[h] = "started"
  /\ \/ hw' = [hw EXCEPT ![h] = "running"]
     \/ ~ArgumentAlive(h) /\ hw' = [hw EXCEPT ![h] = "wild"]
  /\ UNCHANGED <<workers, mainAt, i, entry, running, id, stack, ids>>

(* get_tid: the assertion on the id. *)
GetTidFails(h) ==
  /\ hw[h] = "running" /\ h >= NumThreads
  /\ hw' = [hw EXCEPT ![h] = "trapped"]
  /\ UNCHANGED <<workers, mainAt, i, entry, running, id, stack, ids>>

ThreadEnds(h) ==
  /\ h # 0 /\ hw[h] = "running"
  /\ hw' = [hw EXCEPT ![h] = "ended"]
  /\ UNCHANGED <<workers, mainAt, i, entry, running, id, stack, ids>>

(* The handles that lf_thread_join can be called with: one that was not set  *)
(* is memory from malloc, an entry's index or no index at all.               *)
Handles == IF ids[i] = Unset THEN Entries \cup {Unset} ELSE {ids[i]}

(* Faulty variant: the stack is freed without waiting for the thread. *)
JoinAtOnce ==
  /\ \E e \in Handles \cap Entries :
       /\ running[e]
       /\ NextWorker("join", "join", "joined")
       /\ hw' = [hw EXCEPT ![id[e]] = IF @ = "ended" THEN "free" ELSE @]
       /\ stack' = [stack EXCEPT ![e] = FALSE]
       /\ running' = [running EXCEPT ![e] = FALSE]
  /\ UNCHANGED <<workers, entry, id, ids>>

(* lf_thread_join, with its assertions; xthread_wait_and_free waits. *)
Join ==
  /\ \E e \in Handles :
       IF e \in Entries /\ running[e]
       THEN /\ hw[id[e]] = "ended"
            /\ NextWorker("join", "join", "joined")
            /\ hw' = [hw EXCEPT ![id[e]] = "free"]
            /\ stack' = [stack EXCEPT ![e] = FALSE]
            /\ running' = [running EXCEPT ![e] = FALSE]
       ELSE MainAt("join", "badJoin") /\ UNCHANGED <<i, hw, stack, running>>
  /\ UNCHANGED <<workers, entry, id, ids>>

-----------------------------------------------------------------------------
(* Properties *)

Live == {h \in Hardware \ {0} : hw[h] # "free"}

(* A thread that lives has a stack and one entry of its own, from which it   *)
(* is joined; only the one being created has no `running' entry yet.         *)
LiveThreadsRecorded ==
  \A h \in Live :
    \E e \in Entries :
      /\ id[e] = h /\ stack[e]
      /\ running[e] \/ (mainAt = "record" /\ entry = e)
      /\ \A o \in Entries \ {e} : running[o] => id[o] # h

(* The workers for which lf_thread_create has not set a handle.              *)
NotCreated == {k \in DOMAIN ids : ids[k] = Unset}

(* Although start_threads does not look at the results, main is past the     *)
(* joins only when every worker was created and has ended: a handle that was *)
(* not set may name another worker's entry, but then one entry too few is    *)
(* running for the rest, and lf_thread_join traps.  It traps for no other    *)
(* reason, and lf_thread_create only when there are more workers than        *)
(* entries.                                                                  *)
JoinsAccount ==
  /\ mainAt = "joined" => Live = {} /\ NotCreated = {}
  /\ mainAt = "badJoin" => NotCreated # {}
  /\ mainAt = "noEntry" => workers > NumThreads

(* The table of threads is in step with the threads, and with what main      *)
(* joins.                                                                    *)
ThreadsAccounted == ThreadTypeOK /\ LiveThreadsRecorded /\ JoinsAccount
=============================================================================
