# Verification of the Lingua Franca runtime port to XMOS (lf-xmos)

TLA+ specifications, TLC configurations and TLAPS proofs for the code under
`platform/`: the XMOS platform layer (`lf_xmos_support.c`) and the two Lingua
Franca runtimes built on it (`reactor_threaded.c`, `reactor.c`, with
`reactor_common.c` shared by both). Paths below are relative to the repository.

## 1. Inventory

### Platform layer, `platform/lf_xmos_support.c`

| Component | State | Operations | Hard part | Correct when |
|---|---|---|---|---|
| Mutex | hardware lock, `owner`, `level` | `lf_mutex_init/lock/unlock` | `owner` is read without the lock | a critical section has one thread in it, nested calls release at the outermost unlock |
| Condition variable | per slot `signal`, `waiting`, channel end | `lf_cond_init/wait/timedwait/signal/broadcast` | tokens that outlive the wait they were sent for, the `waiting` flag that stays up until the mutex is back | slots are not shared, a wake-up reaches a blocked thread, no wake-up is lost, no assertion trips |
| Threads | `thread_info[]` (stack, id, running) | `lf_thread_create/join`, `get_tid` | arguments are passed by the address of a local, a failed creation is not noticed | every live thread has an entry and a stack, and runs what it was created for |
| Clock and sleep | `time_hi`, `last_time` | `lf_clock_gettime`, `lf_sleep`, `lf_sleep_until`, trigger of `lf_cond_timedwait` | 32-bit wrap, unsynchronised statics, casts | no end of a cycle is lost, a wait ends at its time |
| Atomics | `atomics_lock` | `lf_xmos_*` compare-and-swap, fetch-add | callers that also read plainly | each call is one atomic step |
| Critical section | none | `lf_critical_section_enter/exit`, `lf_notify_of_event` | they are `xassert(false)` | callers of `lf_schedule` get exclusion and wake the waiting worker |

### Shared runtime, `platform/reactor_common.c`

| Component | State | Operations | Hard part | Correct when |
|---|---|---|---|---|
| Stop tag | `stop_tag` | `_lf_set_stop_tag`, `_lf_is_tag_after_stop_tag` | lowered by several actors while another one waits | it only moves earlier, the program ends exactly there |
| Logical time | `current_tag` | `_lf_advance_logical_time` | the first event changes between choice and advance | tags strictly increase and never pass a queued event |
| Event queue | `event_q`, `next_q`, `recycle_q`, `trigger->last` | `_lf_schedule`, `_lf_schedule_at_tag`, `_lf_pop_events`, `_lf_initialize_timer`, recycling | superdense chains, dummy events, pointers into recycled events | events fire once, at their tag, with their own payload |
| Tokens | `ref_count`, templates, recycling bin, allocation counter | `_lf_create_token`, `_lf_done_using`, `_lf_free_token`, `writable_copy`, ... | shared bin, counts kept by several holders | a token in the bin has no holder, counts agree |
| Start of a time step | `is_present` fields, abbreviated list, sparse records | `_lf_start_time_step`, `_lf_set_present` | concurrent appends, overflow of the list | nothing stays present across tags, no presence is lost |
| Reaction chaining | `downstream_to_execute_now` | `schedule_output_reactions` | immediate execution against queueing | an enabled reaction runs once per tag, in order |
| Command line, start, termination | options | `process_args`, `initialize`, `termination` | | |

### Runtimes

| Component | State | Operations | Hard part | Correct when |
|---|---|---|---|---|
| Threaded runtime, `reactor_threaded.c` | `mutex`, `event_q_changed`, `worker_thread_count` | `worker`, `_lf_worker_do_work`, `_lf_next_locked`, `wait_until`, `lf_request_stop`, `lf_reactor_c_main` | the mutex is released inside the wait, the queue and the stop tag change meanwhile | tag order, the stop tag is hit exactly, shutdown reactions run once, the program ends |
| Tag barrier, `reactor_threaded.c` | `requestors`, `horizon` | increment, decrement, wait | several requestors, a moving stop tag | logical time does not reach a raised horizon |
| Unthreaded runtime, `reactor.c` | `reaction_q` | `next`, `_lf_do_step`, `wait_until`, `lf_request_stop` | end of program, skipped waits | as the threaded runtime |
| Scheduler, priority queue, tag library | external (`scheduler_NP.c`, `pqueue.c`, `tag.c` of reactor-c, not in the repository) | | modelled from how the code uses them | |

### How the parts interact

Workers call the scheduler for reactions; the last worker to become idle takes
the global `mutex` and calls `_lf_next_locked`, which may wait on
`event_q_changed` (a condition variable of the platform layer) until physical
time reaches the next tag, then, in a federated program, on the tag barrier; it
resets the ports of the last time step, advances `current_tag` and moves events
from `event_q` to the scheduler. Reactions write ports, which triggers further
reactions, and call `lf_request_stop` and `lf_schedule`; threads outside the
program may do the same. Everything the runtimes share is protected, or meant to
be, by that one mutex; `_lf_set_present` and the scheduler use the atomics
instead.

## 2. Modules

| Module | Models | State and actions against the code |
|---|---|---|
| `Tags` | `tag_t`, `lf_tag_compare` (tag.c of reactor-c, external) | a tag is a record; `TagMin` is the test of `_lf_set_stop_tag` |
| `LogicalExecution` | abstract: what both runtimes promise about tags, stop tag, shutdown and end | four actions: the stop tag moves earlier, the tag advances, shutdown at a start tag that is the stop tag, the end |
| `RecursiveLock` | abstract: the mutex `lf_platform.h` declares | `depth[t]`, actions `Lock`, `Unlock`; also the mutex that `XmosCond` uses |
| `EventCalendar` | abstract: what the event queue promises | a set of entries (trigger, tag, token) that leave only by firing at their tag |
| `XmosMutex` | `lf_mutex_init/lock/unlock` | `hwLock`, `owner`, `level` are the three words; every read or write of one is a step, because `owner` is read without the lock |
| `XmosThread` | `lf_thread_create/join`, `thread_function`, `get_tid`, `start_threads` | the fields of `thread_info`, `_lf_thread_ids`, the state of each hardware thread; the local `func_and_arg` lives as long as the call of `lf_thread_create` that it belongs to (`ArgumentAlive`) |
| `XmosClock` | `lf_initialize_clock`, `lf_clock_gettime`, the timer of `lf_cond_timedwait` | physical time, the two statics and each caller's locals; every access is a step |
| `XmosPlatform` | composition of the three: `lf_reactor_c_main` and `worker` | main creates the workers with the mutex held and joins them; a worker locks first, then uses mutex and clock as it likes |
| `XmosCond` | `lf_cond_init/wait/timedwait/signal/broadcast` | `waiting`, `signal`, `tokens` per slot of `cond->waiter`; a step per statement that other threads can see; failed assertions are locations a thread never leaves |
| `ReactorCommon` | the parts of `reactor_common.c` both runtimes execute | options, `current_tag`, `stop_tag`, the times of `event_q`; `ScheduleAction`, `PopEvents`, `AdvancedTag`, `StopAtNextMicrostep`, `InitializeTimers` |
| `ThreadedRuntime` | `reactor_threaded.c` | extends `ReactorCommon`; workers, main, the global mutex, the scheduler's calls; a critical section that does not wait is a step, `_lf_next_locked` is one step from each point where the mutex is taken to the next where it is given up |
| `UnthreadedRuntime` | `reactor.c` | extends `ReactorCommon`; one program counter through main, `_lf_do_step`, `next`, `wait_until` |
| `Tokens` | tokens, their counts, the recycling bin | a store (a record); each C function is an operator from store to store, chained by the callers as in the code |
| `EventQueue` | events, chains, dummies, recycling, `trigger->last`, all of `_lf_schedule` and `_lf_schedule_at_tag` | `ev[e]` are the fields of event `e`; the loop of `_lf_pop_events` is a step per event |
| `TagBarrier` | the tag barrier, with the part of `_lf_next_locked` around its wait | `requestors`, `horizon`; the threads that raise it (`federate.c`, external); the worker in its two waits |
| `TimeStep` | `_lf_set_present`, `_lf_set_new_array_impl`, `writable_copy`, `_lf_start_time_step` | the ports' fields; every access to shared data is a step, a fetch-and-add is one |
| `TagExecution` | `_lf_worker_do_work`, deadlines, `schedule_output_reactions` | extends `TimeStep`; `current[w]` may be further down a chain than `running[w]`, the reaction the scheduler handed out |
| `MC*` | values for TLC | |
| `XmosPlatformProofs`, `XmosCondProofs`, `TagsProofs`, `ThreadedRuntimeProofs`, `UnthreadedRuntimeProofs`, `EventQueueProofs`, `TagBarrierProofs`, `TagExecutionProofs` | theorems, see section 4 | |

Compositions: `XmosMutex` implements `RecursiveLock`, and `XmosCond` is built on
`RecursiveLock`; so what `XmosCond` shows holds over the real mutex.
`XmosPlatform` runs the mutex, the threads and the clock together. Both runtimes
extend `ReactorCommon` and implement `LogicalExecution`; the times in
`ReactorCommon` stand for the events of `EventQueue`, which implements
`EventCalendar`, and the counts of reactions in `ThreadedRuntime` for the
reactions of `TagExecution`. The condition variable of `ThreadedRuntime` is an
abstraction of what `XmosCond` shows of `lf_cond_timedwait`: a signal reaches
the waiter (`SignalReaches`; there is only one, `WorkersConsistent`), a wait may end for no reason, the timer may fire
early or late (`TimerReadyWhenDue` is violated). The wait of `TagBarrier` ends
when it is notified (`NotifiedReturns` of `XmosCond`).

### Faulty variants

A definition that is preceded by `(* Faulty variant: ... *)` is a plausible bug
in the definition below it; `PROJECT.json` pairs it with the property that
notices it. No specification uses one.

### Abstractions that matter

- `ReactorCommon` keeps events as the times of `event_q`: which timers have an
  event at a time, and the longest chain of action events there. Payloads,
  triggers, recycling and the policies of the minimum spacing are in
  `EventQueue`, where in turn the stop tag stands still and reactions are not
  executed. That `_lf_schedule` may put an event at time 0 (the violated
  `QueueNotBehind`) is not carried over to `ReactorCommon`.
- In `ThreadedRuntime` reactions are counted, and what a reaction does is chosen
  freely: nothing, a request to stop, an action scheduled, a reaction of a later
  level triggered. `TagExecution` has the reactions, levels and ports of one
  program, and no waits.
- The microstep of an event follows from its place in the queue, as in the code.
- A token's payload is a flag; its bytes, length and destructor are left out.
  The counter of payload allocations, which only chooses a warning, too.
- The critical sections of `lf_schedule` are taken as sections: the function is
  `xassert(false)` (`platform/lf_xmos_support.c:107`), so that with assertions a
  reaction that schedules, and every `next()` of the single-threaded runtime,
  stops at once.
- The first "past the stop tag, return" of `_lf_next_locked`
  (`platform/reactor_threaded.c:602`) is not in `Commit`:
  `get_next_event_tag` has already lowered the tag to the stop tag. The same
  test after an interrupted wait is in `Interrupted`.
- `XmosThread` hands out the free hardware thread with the lowest id, of the
  several that are alike; a thread that gets to `thread_function` only after its
  `lf_thread_create` has returned may find its function overwritten (`wild`), and
  then nothing more is said of the program (`Over`).
- `Tick` of `XmosClock` assumes a call of `lf_clock_gettime` in each half of a
  cycle of the counter; nothing in the code sees to it, and without one a cycle
  (42.9 s) is lost.
- Network input in `EventQueue` (`NetworkTags`) comes in the order of its tags
  for each trigger, as the contract at `platform/reactor_common.c:877` demands;
  the same tag may be asked for again and again.
- The bin of `TimeStep` is a sequence, its size the length of it; the generated
  code's push of a copy on the list of the time step belongs to the step that
  takes the token.
- `ReachTime` of `TagBarrier` leaves out a proposed tag of FOREVER, which is
  reached only with `-fast`.
- `TagExecution` assumes of the generated tables what `TablesAssumption` says;
  above all that a reaction names another as its last enabling one only if
  nothing else triggers it (a timer or an action either, for which the code does
  not test) or precedes it, and that a port with a token is written once in a
  tag. `_lf_initialize_token` handles a template that is in use; but a second
  write would leak the token of the first (see below). `Considered` is the reaction that the
  loops of `schedule_output_reactions` leave in `downstream_to_execute_now`; they
  visit the outputs in the order that `Visits` lists.

## 3. What is checked

Passing runs:

| Run | Bounds | Properties | Shows |
|---|---|---|---|
| `platform` | 4 hardware threads, of which `get_tid` accepts 0..2, 1, 2 or 4 workers asked for, nesting of 2, a cycle of the counter of 4 ticks, start at tick 3, 3 clock calls | `MutualExclusion`, `OwnerReadIsSafe`, `OutermostUnlockReleases`, `ThreadsAccounted`, `TimeKept`, `ImplementsRecursiveLock`, `SomeWaiterEnters` | main creates workers with the mutex held and joins them, while they use mutex and clock: exclusion, the unlocked owner test, the thread table against the threads and against what main joins, a wrap in the middle of two calls, a waiter gets the lock |
| `cond` | 3 threads, 2 slots, 2 timers, 3 tokens, the real channel capacity 8; both kinds of wait | `SlotsConsistent`, `NoLostWakeup`, `SignalReaches`, `NotifiedReturns` | slots are not shared, a broadcast reaches every blocked thread, a signal wakes a sleeping one unless a thread woken before lingers in a lower slot, a notified thread returns with the mutex |
| `runtime` | 3 symmetric workers, 2 timers, 4 command lines, times below 4, 1 scheduled action, 2 reactions at a time, 1 further level, early timers, requests from outside | `WorkersConsistent`, `NoEventPassed`, `NotAhead`, `ShutdownAtStopTag`, `EndsComplete`, `TimersAlive`, `ImplementsLogicalExecution` | the order of tags, the stop tag, the one worker that advances time, the complete end |
| `runtime_live` | 2 workers, one single-shot timer, no early timers | `StopRequestEnds`, `ProgramEnds` | a stop request ends the program, a program with nothing left to do ends |
| `unthreaded` | 2 timers, 5 command lines, times below 6, 3 scheduled actions, `MIN_SLEEP_DURATION` of 2 | `ShutdownOnce`, `EndsComplete`, `NoEventPassed`, `NotAhead`, `ImplementsLogicalExecution`, `FedProgramEnds` | the same for `reactor.c`, and the end of a program whose queue does not run empty |
| `event_queue` | 9 programs, 4 events, 3 tokens, a bin of 1, stop tags (6,0) and (5,1), delays 0..1, network input for the current and the next time | `EventsAccounted`, `TokensAccounted`, `ImplementsCalendar`, `AtTagOnTime` | no event is lost, fires twice or at a tag other than the one it was accepted for; recycled memory has no second use; no token is freed or handed out that has a holder; network input is on time |
| `tag_barrier` | 2 threads that raise the barrier, 3 times, FOREVER at 3, microsteps 0..1 | `MessagesInTime`, `LateFreezes`, `BarrierConsistent`, `BarrierWaitEnds` | no message comes late because the tag has moved, late messages and stop requests freeze the tag, the wait ends |
| `tag_execution` | 3 symmetric workers, 6 reactions, 5 ports, a sparse record for 1 channel, a bin of 1, 2 tags | `ExecutedInOrder`, `AllExecuted`, `PresenceRecorded`, `CopiesPrivate`, `TokensReleased` | reactions run once and after what they depend on, whether queued or chained; presence is neither lost nor left over; no token outlives its tag |

Runs that find a violation, each of one statement of the repository:

| Run | Statement | What the code does |
|---|---|---|
| `cond_fault` | `FlaggedSlotHasToken`, the assertion in the drain of `lf_cond_timedwait` | a timed wait that was signalled leaves `signal` up; the next one in that slot finds no token and executes `xassert(false)` |
| `timer_late` | `TimerReadyWhenDue`, a timed wait ends at its time | the trigger time is computed from the low 32 bits of the nanoseconds; a wait that is begun or due in the second half of a cycle ends early or late |
| `event_deferred` | `QueueNotBehind`, events are deferred by the minimum spacing | with a spacing of zero the event gets no time of its own: the second one for a microstep keeps the time 0 of a new event, and the tag passes it |
| `token_race` | `CopiesPrivate`, `writable_copy` gives a private copy | two workers whose reactions have mutable inputs read the same head of the recycling bin and both get its token |

### Further observations

Met while modelling; they follow from the code alone and are not runs.

- Platform layer. A thread that starts late reads its function from a local
  variable of an `lf_thread_create` that has returned. The timers of
  `lf_cond_timedwait` are never freed, so the eleventh timed wait of a tile fails
  `xassert(t)`. The drain takes one token where there may be more. A second
  signal goes to the first slot whose waiter has been notified already and has not
  left, and nobody new is woken: the exception in `SignalReaches`, which "Wake up
  one thread waiting" (`platform/lf_platform.h:189`,
  `platform/lf_xmos_support.c:251`) does not make. Two
  overlapping clock calls may count a wrap twice; a call that compares after a
  newer one has stored `last_time` counts a cycle that has not ended.
  `lf_sleep_until` subtracts without a test for a time in the past.
  `lf_thread_join` stores no exit status, and `start_threads` ignores a failed
  creation.
  `lf_xmos_val_compare_and_swap`, which nothing calls, returns whether it
  swapped, not the initial value.
- Runtimes. After an early timeout `wait_until` waits again for the old target
  and drops the signal of a stop request, so that `StopRequestEnds` needs timers
  that do not fire early. A starved single-threaded program sleeps until
  FOREVER. With `-fast` and `-keepalive` an empty queue sends the tag to FOREVER.
- Event queue. The minimum spacing is not enforced after the previous event has
  been popped (`trigger->last` then points to a recycled event of time 0). A
  stale `last` may name an event that another trigger uses by then; the comment
  at `platform/reactor_common.c:1244` says that the tag tells recycled events,
  which it does not once the event is in the queue again. With the policy
  `replace` the token of the action then goes into the other trigger's event,
  whose own token is given back; if both actions have types, the token of one
  becomes the template of the other and is freed while it still is the template
  of the first (`TokensAccounted` fails). The schedules
  rejected at `platform/reactor_common.c:973`, `:1041`, `:1208` and `:1271` do not
  release their token. With "defer" and a spacing of zero a third event for one
  tag takes the place of the second; a third network input for one tag is lost
  with the message "in-order contract violated", although it is in order. Input
  for a microstep of the current time may be placed one microstep late (one dummy
  too many); a repeat of the same tag then meets a dummy, and its message is
  dropped ("drop"), or put into the dummy ("replace") or lost with that error
  ("defer"), and then its token leaks. An event for a microstep after the stop tag
  is accepted: only the times are compared.
- Tag barrier. A barrier for FOREVER is ignored; the horizon stays at its lowest
  until all have released it; an earlier stop tag does not notify the worker
  that waits at the barrier.
- Reactions. A sparse record may lose channels when a third writer comes while
  it overflows. A reaction that names a last enabling one and has another trigger
  at the same tag may be executed twice (`platform/reactor_common.c:1691` does not
  look for it). A token port that is written twice in a tag leaks the first token.
  A deadline violation skips the STP handler.

### Bounds, and why they are enough

- `Threads`, `Workers`: mutex and slots need a holder, a waiter and a signaller;
  three workers are needed so that two compete while a third one waits. One or
  two workers are ones that `get_tid` accepts; four are more than there are
  hardware threads and entries. Any creation may fail. Fewer slots than threads
  make that table run full too.
- `Cycle`, `StartTicks`: the run starts just before the end of a cycle, so
  that three calls are enough to have two of them overlap the wrap.
- Tokens of `XmosCond`: two for one slot are what leaves one behind; three let
  every thread be signalled. The real capacity of 8 is not reached.
- Times are small integers; the sets put timers before, at and after the
  timeout, and a timeout of zero. In `ReactorCommon` `MaxMicrostep`
  stands for `UINT_MAX` and is above every microstep reached; in `EventQueue`
  and `TagBarrier` it bounds the microsteps at which the API is called, and two
  or one are enough for input ahead of the tag, a chain and a tag in between.
- `event_queue`: an event, a second at the same tag, a chain of dummies and a
  recycled one make four. Each of the nine programs aims at one path of
  `_lf_schedule`: no spacing, spacing with each policy, two triggers that
  share recycled events, a token copied while it is used, input ahead of the tag.
  Network input for two times and three microsteps gives input at the current
  time, in the future, behind a chain, and for a tag that is taken.
- `tag_barrier`: two requestors make one release while the other holds; three
  raises allow one more after the first has been released.
- `tag_execution`: the sparse record overflows with the second writer, the bin
  is full with the second token, and the second tag shows what the first left
  over.
- `MaxScheduled`, `MaxReactions`, `MaxLevels` bound what reactions do; an action
  scheduled during a wait, one behind another, and a level that fills while the
  last one drains are within them.

`CHECK_DEADLOCK FALSE` is in `cond`, `cond_fault` and `timer_late`: in the first
two all threads may wait with nobody left to signal, within the bound and in
reality, and a thread that fails an assertion stops for good; in the third the
bound on calls ends the run. The other systems end in self-loops
(`Terminated`, `Finished`, `Over`, `Idle`, or the sleep to FOREVER).

### Fairness

- `XmosPlatform`: the steps of each hardware thread inside the functions, and
  main's, are weakly fair, as xcore schedules its hardware threads round robin;
  which of the threads that wait gets the lock is left open, so the property
  speaks of some waiter. Of the callers it is assumed that their sections end
  (strong fairness of the call of unlock, since nested calls may come between).
- `XmosCond`: threads proceed; a thread that keeps asking gets the mutex (the
  hardware lock queues its threads) and a caller gives it back. Timers need not fire.
- `ThreadedRuntime`: threads proceed and reactions return, a timer that is due
  fires, the mutex is strongly fair to a thread that asks. Nothing is assumed of
  `Tick`, of spurious wake-ups, of requests: `StopRequestEnds` must hold though
  physical time stands still, and `ProgramEnds` starts when it is late enough.
- `UnthreadedRuntime`: the one thread proceeds and physical time passes.
- `TagBarrier`: a message that is on its way is delivered, a stop that was asked
  for is granted, and a notified worker wakes up (`NotifiedReturns`).
- `EventQueue`, `TagExecution`, `XmosClock`: safety only.

## 4. What is proved

The theorems hold for every value of the constants under the `ASSUME`s:
types (`ThreadsAssumption`, `ThreadAssumption`, `CondAssumption`,
`CommonAssumption`, `UnthreadedAssumption`, `PortsAssumption`, `TablesTyped`);
finite sets of workers, readers, ports; a cycle of the counter
with an even number of ticks (`ClockAssumption`; it is 2^32); a FOREVER after
time 1 (`BarrierAssumption`); a finite memory of at least one event, finitely
many tokens, and programs whose triggers have the fields of `trigger_t` and
get their templates (`TokensAssumption`, `QueueAssumption`,
`ProgramsAssumption`); main and the absence of a holder are not workers
(`RuntimeAssumption`); the threads the mutex knows are those with an identifier
below `NUM_THREADS` (`PlatformAssumption`); and what the generator sees to
(`TablesAssumption`). TLC evaluates all of them in the runs.

None of the invariants the runs check is inductive as it stands. For each
component the invariant that is, and the argument:

**Mutex** (`XmosPlatformProofs`): `MutualExclusion`, `OwnerReadIsSafe`,
`OutermostUnlockReleases` and the refinement of `RecursiveLock`. Whether the
next `TestLevel` releases the lock depends on what `level` counts, so `IInv`
says which locations hold the hardware lock (`HolderInv`), from where to where
`owner` names a thread (`OwnerInv`) and what `level` counts at each location
(`LevelInv`). The test of `owner` without the lock is safe because nobody else
writes a thread's own identifier there.

**Clock** (`XmosPlatformProofs`): `TimeKept`, of any number of callers.
`ClockInv` says that the last call to return is less than half a cycle ago, as
is the reading of each call under way (`RecentInv`, the assumption of `Tick`);
that `last_time` is the counter at a moment less than a cycle ago, although an
older call may have stored it last (`LastInv`); that `time_hi` has counted the
cycles the calls have seen, where a call about to store its increment is too
recent for a further cycle to end before it does (`HighInv`). The bound above
counts the calls that ever began while another was in progress (`overlaps`): the
cycles counted, with those that the calls under way may still add, exceed the
cycles that ended by at most that number, so that the time is exact if calls never
overlap (`AheadInv`, in which the first of the calls in progress may count a cycle
before its end, and each further one at the expense of what is allowed).

**Threads and the composition** (`XmosPlatformProofs`): each step of
`XmosPlatform` is a step or a stutter of the mutex, of the clock, and of the
threads (`PlatformParts`); so the three mutex properties, `ImplementsRecursiveLock`
and `TimeKept` hold under the calls main and the workers make, which is what the
run `platform` checks. `ThreadsAccounted` follows from `ThreadInv`: the entries in
use and the live hardware threads are in one-to-one correspondence (`OwnEntries`),
the entry chosen is free until it is recorded (`ChosenIsFree`), what runs is waiting
to be joined (`RunningPending`) and, as long as no handle is missing, what is to be
joined runs in an entry of its own (`PendingRunning`). When a creation has failed,
fewer entries are running than main has joins to do (`TooFewRunning`), so that one
of these meets an entry that does not run and traps, whatever the handles that
were not set hold; hence `JoinsAccount`.

**Condition variable** (`XmosCondProofs`): `SlotsConsistent`, `NoLostWakeup` and
`SignalReaches`, for any number of threads, slots and tokens. `CInv` adds where
calls are (`CallInv`), that a slot stays free from its choice to its marking
(`ChosenInv`), that a wait begins with `signal` down (`SignalInv`), what a
signaller has passed already (`ScanInv`: no waiter below a `signal` that is
still looking, a token for every blocked thread below a broadcast) and the bound
on the tokens (`RoomInv`). A signal that returns has sent its token to the first
slot whose flag is up; that of a sleeping thread is up (`BlockedHasSlot`), so the
token is its own or that of a thread in a lower slot, which is asleep and wakes up
or lingers.

**Tags** (`TagsProofs`): `lf_tag_compare` is a total order; a set of numbers has
a least one (`LeastNatural`); the lowered stop tag lies after the current tag
(`LoweredStop`); an advance to a time up to the stop time gives a later tag not
after the stop tag (`AdvanceFacts`). The proofs of both runtimes add that the
head of the queue is its earliest event (`HeadIsEarliest`), and that scheduling
and popping leave nothing behind the tag (`ScheduleFacts`, `PopFacts`).

**Event queue** (`EventQueueProofs`), for every program, memory and bin.
`EventsAccounted` follows from `LinkInv`: of the events in use (`Live`: obtained
and not recycled) each is `next` of at most one other, and of none if it is in
`event_q` or `next_q`; all others are cleared. So the chains are disjoint
(`ChainsApart`) and end within the memory (`ChainFacts`), by least
counterexample. Each way into the queue extends one chain at one place with
events that were not in use (`UseKeeps`), or uses none (`GiveBackKeeps`). A
stale `last` does no harm here: what it names waits only if it is in use
(`WaitingIsLive`), since a cleared event has time 0 and no trigger.

**Tokens** (`EventQueueProofs`): `TokensAccounted`. In a `Sound` store every
token with a holder has a reference, templates are not ok to free, what may be
handed out has no reference and is no template, the bin has no token twice, and
the counter agrees; each function of `Tokens` keeps that while holders and
templates change (`AddSound`, `DoneSound`, `CreateSound`, `ReplaceSound`,
`ReleasesSound`). One reference is enough because holders do not share tokens:
`TokenLinks` says so of events and templates, and that an event carries a
template only if it is an event of that trigger and the trigger is not present.
`Kin`, that a chain is of one trigger, is what keeps it true when an event is
hooked behind another. A call of `_lf_schedule` or `_lf_schedule_at_tag` ends in
one of three ways (`Settled`): a new event carries the token, nobody does, or an
event of the same trigger exchanges its token for it. The last one needs that
`last` names an event of the same trigger, if it waits (`LastIsOwn`); the
observation above shows that it must. `UnsharedTokensAreAccounted` is about the
programs in which an action with a minimum spacing is the only trigger, or no
action has one (`Unshared`, which looks at the program's triggers only), where that
follows from the links; all programs of the run `event_queue` are of this kind.

**Calendar** (`EventQueueProofs`): `OrderlyImplementsCalendar`, the refinement
of `EventCalendar`, for every memory, delay and stop tag and the programs that
are `Orderly`: any timers and actions without a minimum spacing, or one action
with a spacing as the only trigger, with "defer" a positive one. The invariant
is `CalendarInv`: what was said of links and tokens, and `Ordered`, which TLC
checked first: no event in use is a dummy, a chain has one time, a trigger one
chain for a time, a timer one event, no event is late, and with a spacing `last`
names the latest event. `Fires(x, g)` says that the `i`-th event of a chain fires
`i` microsteps after the first, and the entries of the calendar are the events
that fire (`EntryLaw`), each exactly once (`FireLaw`). So each step is described
by how it changes what fires (`EntriesChange`): an event that starts a chain or
joins one adds a firing (`FiringsGain`, `FiringsHook`), an exchange of tokens
moves none, a pop takes the firing at the tag away and moves no other
(`FiringsLose`), since the rest of the chain goes to `next_q` and back
(`PopDoneMaps`), and the tag advances to the earliest one (`NextTagBound`).
Each of these is then an action of the calendar or a stutter. Programs with
network input are not covered: a third event for a tag is lost, which the calendar does
not allow.

**Network input** (`EventQueueProofs`): `UnsharedInputFiresOnTime`, that is
`AtTagOnTime` in the programs that are `Unshared`. An input for a tag after all that
its trigger has pending is linked behind the last event of the chain for its
time, with as many dummies between as tags are to be passed; that the last event
is real and fires before the input's tag is what makes the count right. Hence
`RealEnds`, that no chain ends with a dummy, which needs what was said of links:
dummies come into use only with an event behind them (`RealBehind`, `RealNew`),
and a popped event gives back no more than the head. `AppendOnTime` then walks
the new part of the chain, and `AloneOnTime` that of a chain of its own: in the
future it fires at its tag, at the current time one microstep after it, as one
dummy too many is made there. A chain is of one trigger (`Kin`), which a stale
`last` of another action could break.

**Threaded runtime** (`ThreadedRuntimeProofs`), for any number of workers. The
tags: `ShutdownAtStopTag`, `NoEventPassed`, and `Refinement` of
`LogicalExecution`, from `LInv`: the stop tag stays at or before FOREVER_TAG
(so that an empty queue never gives an earlier tag) and `shutdowns` follows from the
tags once main has initialised the start tag. This needs nothing of
the mutex: `Commit` computes the next tag afresh, so whatever happened during
the wait is seen. The workers: `WorkersConsistent`, `NotAhead`, `EndsComplete`
and `TimersAlive`, from `WInv`: each worker is busy, or counted idle, or the one
that advances the tag (`IdleInv`, `MutexInv`), and while one advances all others
are idle and nothing is ready or, from its test on, queued (`LeaderInv`); the
workers leave together (`EndInv`); numbers are handed out below the counter,
which goes down only after that (`NumberInv`); and during a wait the next tag is
not after its target, since nothing but a stop request, which moves it to an
earlier time, comes in between (`TargetInv`).

**Single-threaded runtime** (`UnthreadedRuntimeProofs`): for every program type
correctness, `ShutdownOnce`, `NoEventPassed` and `NotAhead`; and for the
programs whose queue holds an event at every call of `next` (`[]Fed`) the
refinement of `LogicalExecution` and `EndsComplete`. The assumption is needed: a
starved program with `-fast` advances to FOREVER, past its stop tag. `UInv`
records what `next` has computed while it waits (a time between the tag and the
first event) and that inside of `next` the tag is before the stop tag; `FInv`
adds that the wait is not for a time after the stop time.

**Tag barrier** (`TagBarrierProofs`): `BarrierConsistent`, `MessagesInTime` and
`LateFreezes`, for any set of readers. `BInv`: the count of requestors is the
number of holders (`BarrierAccount`); the horizon is not after any message that
is expected, nor after the microstep that follows the tag while a late message
is read or a stop request is open (`HorizonInv`); and while the worker waits,
what it proposes is not before the next tag (`ProposedInv`).

**Reactions** (`TagExecutionProofs`): `ExecutedInOrder`, `AllExecuted` and
`PresentIsFresh`, for every program the tables describe. `EInv`: a reaction is
queued, or with one worker, or executed (`WorkerInv`, `RunsInv`); nothing that
must precede a reaction that has begun is still to come (`OrderInv`); what is
queued was triggered by a reaction that is over (`QueuedInv`); a body writes its
own outputs (`WriteInv`); a present port has its own slot of the abbreviated
list unless that has overflowed (`SlotsInv`); and what a present port triggers is
accounted for, or the worker that wrote it has not scheduled its outputs yet
(`TriggerInv`). The lemma `ConsideredFinds` is about the loops of
`schedule_output_reactions`: they execute a reaction directly if, and only if,
it is the only one downstream and waits for this reaction alone.
`RecordIsComplete` is about the programs in which a channel is written once in a
tag, by one writer (`WrittenOnce`, which the run's program satisfies): in every tag
that has seen at most one channel more than the sparse record has room for
(`FewChannels`, a state predicate) `PresenceRecorded` holds, whatever the tags
before it wrote. With two too many it is false: a third writer that comes while
the second one resets the size starts to fill the record again.
`OrderedWritersRecord` has no such limit, for the programs whose writers of
channels have to precede one another (`ChannelsOrdered`).

**Tokens of a tag** (`TagExecutionProofs`): `CopiesPrivate` and `TokensReleased`,
for any number of workers, ports, destinations and copies. `StoreInv` says where
each token is (`Parted`: a port's template, in the bin, or a copy of this tag),
how often it is referenced (`Counts`: a port's token by its destinations from the
end of the write on, a copy once) and what the workers hold (`Copies`). It rests
on `MarkInv` (what was written is present, so that `_lf_start_time_step` meets
it), on `OnceInv` (a token port is written once, so its template is unused then)
and on `MutableInv` (only a reaction with a mutable input has a writable token).
The loops of `_lf_start_time_step` are folds; `FoldSetReleases` and
`FoldLeftReleases` give the stores between their rounds, `PortsDoneFields` and
`CopiesDoneFields` what is left of the tokens. `create_token` in a
reaction counts its allocation by a read and a write and takes the head of the bin
by a read and an unlink; `StoreInv` survives that if no two workers are there at
once (`MakingApart`), and the count is then one ahead of the list of copies while
one is being made (`Tallied`). `WritableTokensArePrivate` and `TokensAreReleased`
therefore speak of a run with one worker (`SingleWorker`), or of a program in which
the reactions that copy a shared token have to precede one another
(`CopiesOrdered`), from which `ExecutedInOrder` gives the rest (`MakersApart`); the
first one needs in addition that two reactions that may use one token in place
precede one another (`ReadersApart`: they belong to one reactor). These are
conditions on the tables, and the program of the run `tag_execution` satisfies
them; one that does not is that of the run `token_race`, where the property
fails. Also assumed of the generated tables: a token port has one writer and is
written once, mutable inputs get tokens (`TokenTables`), and there are tokens for
the templates (`TemplatesFit`).

Only model-checked:

- liveness (`SomeWaiterEnters`, `NotifiedReturns`, `StopRequestEnds`,
  `ProgramEnds`, `FedProgramEnds`, `BarrierWaitEnds`), which the prover cannot
  treat under fairness;
- `ImplementsCalendar` for programs with network input: it holds of the programs
  that are checked and not of all, as a stale `last`, or a third event for a tag,
  break it.

## 5. Plan

Modelling and proofs are done as far as they were planned: every safety property
of a passing run is a theorem, under the conditions stated above. What could
follow is `OrderlyImplementsCalendar` for federated programs with at most one
input for a tag: `RealEnds` and the walks of `AppendOnTime` say what the dummies
do, and an entry of the calendar would be a real event that fires.

## 6. Not modelled

- STP handlers: compiled only for decentralised federations, whose tags of
  intended arrival come from code outside the repository.
- The deadline handler of the single-threaded runtime and `lf_check_deadline`: the
  decision is the one `TagExecution` makes, in one thread.
- `process_args`, usage text, reports, trace points, `termination`: text and the
  release of memory at exit.
- Modal reactors, and of the federated runtime all but the tag barrier and the
  network's entry to the queue (`_lf_schedule_at_tag`): conditional code whose
  other half is not in the repository.
- The arithmetic of `lf_sleep` and `lf_sleep_until`: the effect of a sleep is
  `WakeUp` of `UnthreadedRuntime`. `lf_available_cores` is a constant.
- The compare-and-swap functions: a statement each, under one lock; of the
  atomics `TimeStep` uses fetch-and-add.
- `scheduler_NP.c`, `pqueue.c`, `tag.c`, `federate.c`, generated code: not in the
  repository; modelled from how the code uses them and marked external in
  `PROJECT.json`.
- The examples, scripts and the tests under `test/`: they show how the platform layer
  is called.
