# Verification of libgcore

libgcore is a small C library for an embedded camera: a pthread pool, an event engine
that runs recording actions on triggers, schedule threads driven by half-hour day slots,
and POSIX timers with a schedule built on them. This directory holds TLA+ models of it,
the TLC runs that check them and the TLAPS proofs of the results that matter most.

## 1. Inventory

| component | source (under `src/`) | state it keeps | operations | module |
|---|---|---|---|---|
| thread pool | `threadpool/src/threadpool.{c,h}` | ring of tasks, mutex, condition variable, per-worker arrays, counters | create, add, del, destroy, free, status, the worker loop | `Threadpool` |
| event engine | `g_schedule/ev.h`, `ev_core.c`, `ev_action.c`, `tmp/ev_core.c` | `gEventAlive`, `jobStatus`, the rules `ev[]`, job threads | `push_job`, `next_job` and the actions, `event_init`, `event_stop` | `EvCore`, `EvReopen` |
| schedule threads | `g_schedule/tmp/g_schedule.c` | `ptStruct[]`, `gMutex`, `gCond`, `once` | `sche_init`, `sche_func`, `sche_stop` | `ScheThreads`, `EvSchedule` |
| timers | `g_timer/g_timer.c` | `timerStruct[]`, kernel timers, pending signals | init, set, start, stop, the signal handler | `GTimer` |
| timer schedule | `g_timer/g_schedule.c` | `gScheduleStruct[]`, one alarm per entry | set, start, stop, planning, the expiry handler | `GSchedule` |
| day slots | `g_timer/g_tool.c`, both `g_schedule.c` | none (pure) | slot of a time, next slot, end of a run, midnight | `DaySlots`, `DaySlotBits` |
| time mask | `g_timer/g_tool.c` | `gTimeMask` | init, set, check | `TimeMask` |
| nsleep | `g_timer/g_tool.c` | none | retry loop | not modelled |
| demos, copies, drafts | see section 8 | | | not modelled |

How the parts meet:

- The **thread pool** stands alone. Its clients call it from any thread, tasks call
  `threadpool_add` from inside the pool (`tests/heavy.c`), and everything but
  `thread_count`, `thread_type`, `thread_func` and `started` is used under one mutex.
- A trigger starts a **job** thread of the event engine; the first job calls `event_init`,
  `event_init` calls `sche_init`, `event_stop` calls `sche_stop` and then `event_init`
  again. The engine has no lock at all.
- The **schedule threads** plan over the day slots, wait on `gCond` and call a recording
  function. The first of them calls `sche_init` a second time, from inside `pthread_once`.
- The **timer schedule** plans over the same day slots and arms a **timer**; the signal
  handler of the timers calls back into the schedule.

What is hard here, and what correctness means:

- *pool*: unlocked reads next to locked ones, one signal per add, cancellation at any
  cancellation point, threads that die owning the mutex, creation that fails half-way. No
  task is lost or run twice, no wake-up is lost, memory is freed only when unused, a graceful
  shutdown drains, calls return.
- *event engine*: every thread shares the rules and counters without a lock, and a reopening
  clears the rules under jobs that run. Jobs run their actions in order, a stop cuts them
  short, and while jobs do not overlap the cooldown is kept, two of the three counters count and
  no temporary file stays.
- *schedule threads*: two initialisations, two threads for each entry, an unsynchronised plan,
  stale readings of the clock. No re-initialisation of objects in use, no function called
  before its time, every waiting thread gets to run.
- *timers*: a signal handler interrupts the stores of `g_timer_set` anywhere, also in the
  thread that makes them; signals stay pending across a stop.
- *timer schedule*: the clock is read three times for one plan, and midnight may pass in between.
- *engine over schedule threads*: `event_stop` waits in `sche_stop` with one signal for two
  joins, and a reopening runs `sche_init` while threads of the last opening are alive.

`PROJECT.json` lists the hazards one by one, each at its line, with the properties that
watch it or the reason why none does.

## 2. Modules

| module | what it is |
|---|---|
| `Threadpool` | the pool: one action per run of a thread between two points another thread can see |
| `WorkPool` | what the pool promises: tasks are taken in the order they were accepted, at most `Width` run at once, the pool drains or stops and is released |
| `ThreadpoolProps` | the pool's invariants and liveness properties, and the refinement mapping to `WorkPool` |
| `ThreadpoolProofs` | theorems about the pool: ring, mutex, wake-ups, tasks, shutdowns and dels, the refinement of `WorkPool`, and a pool with one caller |
| `DaySlots`, `DaySlotProofs` | day slots as sets of numbers, shared by the two schedules and the time mask, and lemmas about them for the timer schedule and the schedule threads |
| `DaySlotBits` | the same searches as loops over the bits of a word, the reference for `DaySlots` |
| `TimeMask` | the table of time masks and its calls |
| `GTimer`, `GTimerProofs` | the timers, and theorems about late callbacks, single shots and what a callback runs with |
| `GSchedule`, `GScheduleProofs` | the timer schedule, and theorems about its plans |
| `EvCore`, `EvCoreProofs` | the event engine, and theorems about stops, the order of actions and jobs in sequence |
| `ScheThreads` | what the life of the schedule threads is: who creates, waits, signals and joins |
| `EvSchedule`, `EvScheduleProofs` | the schedule threads with their plans, clock and waits, and theorems about early starts and the refinement of `ScheThreads` |
| `EvReopen`, `EvReopenProofs` | `ScheThreads` with the calls `event_init` and `event_stop` make into it, and theorems about openings, threads and `sche_stop` |
| `MC*` | small instances for TLC, one module for each module that is run |

### Threadpool

The variables keep the names of `struct threadpool_t`; `slot` holds the three per-worker
arrays. `pc` says where each thread is: a label names the point in the code, and the actions
are named for the call they belong to (`AddLock`, `AddPut`, `DelScan`, `WorkerGrab`, ...).
A critical section is two actions, one that takes the mutex and one that does the body and
releases it; where a thread can die or return with the mutex held, the release is an action
of its own. The unlocked scans (`threadpool_thread`'s search for its own id, `del`'s search
for a function, `destroy`'s search for threads to cancel) are separate actions, because
that is where the races are.

`pthread_cancel` is deferred: the target dies in its task, in `pthread_cond_wait` (with
the mutex) or in the `printf` before it leaves (with the mutex). Spurious wake-ups are
modelled, and so are failures of the `malloc` of `threads` or `queue`, of the mutex and of thread
creation. The three `calloc`s between them (lines 67-69) are not checked by the code, which goes on
with a NULL array; a `calloc` that fails is outside the model. A touch of freed memory or a join of
an id that was joined makes `process` "undefined"; `exit(1)` makes it "exited".

Abstracted: a task is the number of its acceptance; return codes are kept only where a
caller or a property needs them; the status line is not printed but its reads are made.

### EvCore

One action is one run of a job or of `event_stop` between two accesses to shared state.
`next_job` and the actions call each other in the code; here a job goes through the labels
`next`, `call`, one of the actions, and `next` again, which is the same order. An update
`++` or `--` may be lost exactly when another thread is at an update of the same counter.
`next_job` picks the place of the next action and calls it in two steps, between which the rule may
be cleared: a place outside the table, or an action that is NULL, ends the model as "undefined".
`event_init` is four steps (clear, rules, cooldown, open), since jobs run meanwhile; the cooldown is
a field of the rule, 0 until it is written. The time mask of a
trigger is a free choice after the clock was read. `sche_stop` may or may not return; `EvReopen`
says when it does.
History variables record what a job ran, and whether threads ever overlapped (`crossed`).

### EvSchedule

The initialising thread, and threads numbered as they are created; `ptStruct` keeps, per
type, the plan and the thread it names. `pthread_once` keeps every thread but the first
until that one has returned from the second `sche_init`. Reading the clock, storing the start,
and storing the end and testing the start are separate actions, so that the two threads of a type
interleave in them.

### ScheThreads and EvReopen

`ScheThreads` is the abstract specification of the schedule threads: creation in order,
`pthread_once`, the wait on `gCond`, the signal and the two joins of `sche_stop`, and whether
`gMutex` and `gCond` were initialised in use (`misuse`). Any number of callers may be in
`sche_init` and `sche_stop`. `EvSchedule` is shown to implement it with one caller, under a
refinement mapping that forgets plans and clock. `EvReopen` composes it with the callers of
`tmp/ev_core.c`, the version of the engine that makes these calls: jobs that find the engine not
open, and `event_stop`. Every step of `ScheThreads` is an action of the composition, taken by the
caller that is inside the call, or by a schedule thread.

### GTimer

Each entry of `timerStruct` has a kernel timer. A signal that is pending when its timer
expires again only counts an overrun; POSIX leaves open whether `timer_settime` takes a
pending signal back, so both happen. Delivery interrupts any thread outside the handler, the
thread inside `g_timer_set` included; the plain stores of `g_timer_set` may become visible in
any order up to the call of `snprintf`. The numbers callers pass are any integers: `g_timer_set`
refuses those above `GTIMER_MAX` only, and `g_timer_start` and `g_timer_stop` refuse none. A call
that indexes outside the table makes `process` "outside", a call of NULL makes it "null", and the
model ends there. Callbacks are counted where the handler calls the function (`since`), and `owed`
remembers how many handlers had been entered and not called it when the timer was last set,
started or stopped.

### GSchedule and DaySlots

A day is a set of slots; the bit the code shifts is a slot's number. `SLOTS` and `SLOT_LEN` are
constants (48 and 1800 in the code). Times are seconds in UTC, which `event_init` demands
(`ev_core.c:168`). Planning is four steps, one for each reading of the clock (`now` at line 140,
`now_t` at line 60, midnight at line 24) and one for arming the timer; the clock may
tick between them. The expiry reads `ts->arg` as an address and stops there: that access is
undefined, so nothing after it is modelled.

`DaySlots` finds a slot as the least element of a set and the end of a run as the least gap;
`DaySlotBits` writes the shifts and masks of the C loops as recursive functions. TLC compares the
two from every slot of every day of eight slots (an assumption of `MCEvCore`), where
`INITIAL_SPOT` is `2^7` instead of `2^47`.

### TimeMask

Three operators on the table. `g_time_mask_set` copies to the start of the table whatever its
type, and `g_time_mask_chk` can answer anything for a type outside the table that its guard lets
through.

### Reading the map

`map` in `PROJECT.json` names the source lines of each definition. A helper whose lines lie
inside those of the definition that uses it has no entry of its own.

## 3. Runs

| run | instance | question | result |
|---|---|---|---|
| `pool_safety` | 2 workers, ring of 2, 2 clients, 3 adds (one client and worker 0), 1 del, 2 destroys, modes 0, 1 and 2, failing creations | all safety properties of the pool and its refinement of `WorkPool` | holds |
| `pool_live` | tasks return, no del, nested adds at a ring of 1, one destroy of any mode | adds, tasks and shutdowns (modes 1 and 2) finish | holds |
| `v_lookup` | 1 worker | a new worker finds its own id | violated |
| `v_del_hang` | 1 worker, one del | add returns | violated |
| `v_destroy_default` | 1 worker, one destroy with mode 0 | destroy returns | violated |
| `timers` | 2 timers, 2 threads, 2 calls, numbers from -1 to one above `GTIMER_MAX` | callbacks belong together, come as often as asked, never call NULL, and come | holds |
| `schedule` | 3 slots of 2 s, 2 entries, a family of weeks, start times around midnight | plans of one day skip nothing, ends do not pass their run, alarms are not early | holds |
| `events` | 2 overlapping jobs, one `event_stop`, cooldown 0, clock 1 to 2 | stop, order of actions, and for jobs in sequence cooldown, two counters and files | holds |
| `threads` | 3 slots, both types, 4 threads, one `sche_stop`, the first two slots | starts stay in their day, and the refinement of `ScheThreads` | holds |
| `v_spin` | 1 slot, 4 threads, no stop | a wait for a slot ends in the function | violated |
| `v_early` | 3 slots, 4 threads, no stop | no function runs before its slot | violated |
| `reopen` | 2 jobs, one `event_stop`, 6 schedule threads | when `sche_init` meets waiting threads, how many threads the openings leave | holds |

Why the bounds are enough to be interesting:

- *pool*: two workers and two slots are the least with which the ring wraps (three adds),
  two workers compete for one task and one leaves while the other still runs. The competing
  destroy and the del meet every intermediate state of create, add and shutdown; a destroy with mode
  0 may come before one that shuts down. `v_destroy_default` needs one worker and no task.
- *timers*: two calls give every pair (set/set, set/stop, stop/start) on one entry and on two;
  `since` is cut off three above `owed`, above every bound the properties state. The second thread
  makes no calls: it is there to take signals while the caller is inside one. The numbers include -1
  (for `g_timer_set` an index, for the others the whole table), `GTIMER_MAX`, which passes the guard
  of `g_timer_set`, and one above, which does not.
- *schedule*: start times 0, 3 and 5 with six seconds to the day put the reads on a slot's
  first and last second and on both sides of midnight; the first day of the week is any set of
  slots, so that gaps, runs and empty days all occur.
- *events*: two jobs suffice for every race of two threads, and `event_stop` makes three. With
  `COOLDOWN` 0 and a clock of 1 to 2 the second job is refused when it comes in the same second as
  the first and launched when it comes in the next. In this instance the cooldown of a rule that
  was cleared is that of a whole one; the theorems hold for every `COOLDOWN`.
- *threads*: the program starts in the first slot of a day and one tick brings the second. The
  thread with slot 2 waits for that tick, from where the code lets it through, and the thread with
  slot 0 runs before the tick and waits for midnight after it. Four threads are those one opening
  creates, two of them from inside `pthread_once`; a second turn in there would be a step
  `ScheThreads` does not have. No midnight passes in this instance; the theorems cover it.
  `v_early` starts in the second slot, where the thread with slot 2 is let through at once.
- *reopen*: two jobs and one `event_stop` give a job that opens the engine, one that opens it
  again while `event_stop` is inside `sche_stop`, and the reopening of `event_stop`. Six threads
  are those of two openings and of `pthread_once`, so that `ThreadsPerOpening` meets its bound; a
  third opening ends where the threads run out.
- *time mask and bits*: assumptions of `MCGSchedule` and `MCEvCore`, over two types, a family of
  weeks and every second of the run; over every slot of every day of eight slots.

Every run but `pool_live`, `v_lookup` and `v_spin` says `CHECK_DEADLOCK FALSE`: the bounded calls run
out, an exit or undefined behaviour ends the program, and the hangs listed as hazards are real (a
second destroy leaves the mutex locked, `sche_stop` may join for ever). In `pool_live` a state in
which nothing at all can happen would be reported, and the three liveness properties say what must.

Each property of a passing run has a mutant in `PROJECT.json`: a definition changed the way a plausible bug
would change it, which makes TLC report the property. The mutated forms stand before the
definitions they replace and are marked as mutants.

## 4. Fairness

- `pool_live`: weak fairness of every step of a worker, of the client inside a call and of
  the acquisition of the mutex (strong where several threads compete for it), no
  fairness of new calls or spurious wake-ups. The kernel schedules runnable threads, and
  a mutex that is released again and again is eventually granted: glibc gives no strict order, but
  threads do not lose for ever to others that do finite work. Tasks return by assumption;
  `v_del_hang` and `v_destroy_default` use the same specification, so that their counterexamples are
  not due to a thread that was never scheduled.
- `timers`: the kernel expires an armed timer and delivers a pending signal, and threads go on.
  Nobody has to call anything.
- `v_spin`: time passes and every thread is scheduled; nobody need call `sche_stop`, and a wait
  need not be woken before its time.
- `v_early` and all other runs check safety only.

## 5. What the code does not do

Five runs show the code differing from what its comments, tests or headers say; the
`findings` of `PROJECT.json` quote both sides.

1. `v_lookup`: a worker looks for its id among `thread_count` entries, which `create`
   raises only after `pthread_create` returned; a fast worker calls `exit(1)`.
2. `v_del_hang`: `threadpool_del` cancels a worker that is waiting again; it dies with the
   mutex and the pool is blocked.
3. `v_destroy_default`: `threadpool_destroy(pool, 0)`, which `threadpool.h:143` calls the default and
   two tests pass, stores `ALIVE` as the shutdown and joins workers that never leave.
4. `v_spin`: a schedule thread that waited for its slot compares the start with the time it was
   created at, waits again and never runs its function.
5. `v_early`: the start of a slot is computed one slot early (`tmp/g_schedule.c:56`), unlike the
   drawing above the search and the corrected line in `g_timer/g_schedule.c:41-42`.

Other weak points are in the model and are allowed by the properties, which say how far they go and
no more; the hazards in `PROJECT.json` that no property catches say so.

- `MutexAbandoned` lists the two ways the mutex is left locked: a cancellation of a worker that
  sleeps or is leaving, and a second `threadpool_destroy`. Both happen.
- `DelCostsOneTask` bounds how many tasks the unlocked search of `threadpool_del` can kill, not which.
- A cancelled worker that is not replaced makes `threadpool_destroy` leak the pool and return 0
  (theorem `DestroyedUnlessKilled`, for one client); with several clients, or a creation that fails,
  ids are joined twice and freed memory may be touched ("undefined" in the model).
- `sche_stop` hangs unless a thread wakes without a signal: it signals once and joins two threads
  (theorem `OneSignalTwoJoins`).
- The early start of `v_early` is never more than one slot (theorem `AtMostOneSlotEarly`), although two
  threads share the entry.
- `ReinitByReopening` says that the mutex and condition variable of the schedule threads are
  initialised in use by a second opening only, which does happen; `ThreadsPerOpening` bounds the
  threads that stay behind.
- `g_timer_set` with `GTIMER_MAX` or a negative number, and `g_timer_start` and `g_timer_stop` with any
  number outside the table but -1, index outside it; the model ends there.
- `NoTornCallback` exempts a timer that is set again while it may still fire: its handler may see half
  of the new setting.
- `event_init` may clear a rule under a job, which then indexes outside the table or calls NULL; the
  model ends there.
- `SequentialJobs` is stated for jobs that come one after the other (`~crossed`): with overlapping
  jobs the code keeps neither counters nor cooldown, and nothing in the repository says it should. Even
  in sequence `iRamJpgCounter` does not count: `ram_jpg` and `snap_shot` both raise it for one picture
  and `remove_tmp_file` lowers it once, so that the property leaves it out.
- `PlanSkipsNothing` and `EndInRun` are about plans whose readings of the clock fall in one day; one made
  across midnight may be a day late. `EndInRun` bounds the end from above only.

Seen while reading, without a property of its own: `schedule_handler` uses the number in `ts->arg`
as a pointer (the model ends there); job threads are never joined or detached; a task that never returns keeps a graceful
destroy waiting.

## 6. What is proved

All theorems hold for every value of the constants that satisfies the named assumptions of the
module (`SizeAssumption`, `TimerAssumption`, `WeekAssumption`, ...); TLC evaluates those
assumptions in the runs.

**Thread pool.** `IInv == TypeOK /\ RingOrder /\ IndexOK /\ HeldOK`. `TypeOK` alone is not
inductive: `thread_count` and the loop indices of `del` and `destroy` are only bounded because
`create` has not finished (`IndexOK`), and a worker's task is one only while it holds it
(`HeldOK`). `RingOrder` is proved along with it, since what a worker takes is a task because the
ring holds tasks at `head`; the arithmetic of the ring is in `RingIndex`, `RingShift` and
`RingDistinct`.
 - `TypeCorrect`: the type invariant; head, tail and count stay inside the ring.
 - `RingInOrder`: the ring holds the tasks accepted last, in order.
 - `Exclusion`: critical sections exclude each other, with threads that die owning the mutex.
 - `NobodySleepsThroughShutdown`: once `shutdown` is set nobody sleeps on the condition
   variable. Each is inductive together with `TypeOK`.
 - `FreedWhenUnused`: `threadpool_free` releases the arrays only when no worker runs. Destroy's join
   loop says which ids it joined, and `threadpool_del` joins and replaces workers in place meanwhile;
   what is inductive is `JoinOK`: joined ids are those of ended threads (`JoinedGone`), each is
   replaced by one del at most (`OneRespawn`), workers that create has not counted do not run
   (`Uncounted`), what the loop has passed stays joined and is not about to be replaced
   (`JoinLoop`), nobody has the pool while it is created (`CreateAlone`), and it is freed before its
   mutex is destroyed (`Freed`). Steps that touch none of this are `Quiet`, so that only
   the others need an argument of their own; `Ends` is the theorem that `JoinOK` holds.
 - `NoWakeupLost`: while a worker sleeps, every pending task has an awake worker. Most steps are
   `Calm`: they take no awake worker away and leave the ring alone. What remains is that a task put
   wakes one sleeper, a task taken had a worker, a worker sleeps only at an empty ring, and one
   leaves only in a shutdown, through which nobody sleeps (`ShutdownWakesAll`). `JoinOK` says that
   a thread which is created or replaced was not awake before.
 - `TasksRunOnce`: the tasks that left the ring are the disjoint union of those in hand, those done
   and those killed (`TaskInv`). A step is steady, lands one task, or takes the oldest one, where
   `RingOrder` says which number that is.
 - `GracefulShutdownDrains`: a pool freed by a graceful shutdown ran every task it accepted, but for
   those del killed. `DrainInv` is inductive on top of the above: a worker that leaves, or has left
   so that `started` is below `thread_count`, does so because the pool is `Drained` (shut down,
   and empty if gracefully); nobody uses or shuts down a pool of which `create` counted no worker
   (`Unopened`). `threadpool_free` goes by `started`, so that it meets an empty ring, and `TaskInv`
   says where the tasks are. Most steps are `Aside`: they leave the ring's length, `started` and
   the mode alone.
 - `PoolRefines`: the step simulation behind `ImplementsWorkPool`. `AddPut` submits, `WorkerGrab`
   starts, `WorkerEnd` finishes, `CancelInTask` kills, `DestroySet` closes, `DestroyFree` and
   `CreateInitFails` release, and every other step stutters. `StepKinds` sorts the steps, `Phases`
   computes the mapping's `phase`, and `RevokeInv` says that, but for `threadpool_del`, only an
   immediate shutdown cancels, which is when `WorkPool` lets tasks be killed.
 - `AbandonedTwoWays`: the mutex is left locked in two ways only. `AbandonInv` adds to the property
   where a caller that got "Already shutting down" may be since (it may come back as far as a wait
   for the mutex it owns), and `DelCounted` that who is in `threadpool_del` was counted.
 - `HoldersCancelled`: while nobody calls del, an immediate shutdown cancels no task that returns by
   itself. `HolderInv`: a worker's `thread_type` is that of the task in its hands, and the thread
   that destroy found by an unlocked look still qualifies when it is cancelled, since in this mode no
   worker takes another task. Most steps are `Untouched`.
 - `DelKillsOne`: `SpendInv` counts the tasks killed, the cancelled threads that have yet to die
   (`Doomed`) and the calls that have yet to cancel (`Hunting`); their sum never exceeds the calls of
   del. Steps that neither kill nor cancel nor begin a del are `Spares`.
 - `NothingUndefined` and `DestroyedUnlessKilled` assume one client and no failing creation of
   threads (`OneCaller`): with a second client, `threadpool_del`
   beside `threadpool_destroy` joins a thread that the other has joined already, and a `create` that
   fails destroys the pool with mode 0. Tasks may still add. `CallerInv` follows that client: it destroys
   once, and the pool it deletes from is whole. `EndedInv`: a thread is joined, cancelled or gone only
   where del is about to replace it or in the shutdown, so that no id is joined twice and nobody
   comes back to freed memory. `CountInv`: `started` is `thread_count` less the workers that left in
   good order (`Left`); a cancelled one is never taken off, so that `threadpool_free` refuses exactly
   if a worker died (`ReleaseInv`).

The proofs about sleep and tasks use of `JoinOK` only that a worker which is started was not at work
before (`ReplaceOK`).

**Timers.** `IInv` says, beyond types, that a call works on timers of the table (`CallOK`), and a
frame of the handler belongs to one (`FrameOK`).
 - `TypeCorrect`.
 - `LateCallback`: after `g_timer_stop` at most one more callback for the signal that was pending, and
   one from each handler that had been entered. `Outstanding` counts the callbacks since the stop, the
   handlers that are about to call and the signal that may be pending; `LateInv` says that their sum
   stays within `owed` and one, since a delivery or a call only moves one from a later term to an
   earlier one.
 - `SingleShot`: a one-shot timer has its callback called at most once for its start, once for an old
   signal, and once by each handler that had been entered. It assumes that one thread makes the calls
   (`OneCaller`), and TLC's run does too: with two callers one can clear the interval between the
   other's store and its `timer_settime`.
 - `WholeCallbacks`: a callback runs with function and argument of one `g_timer_set`, unless the
   timer was set again while it might fire. `PairInv`: an entry that nobody fills holds a pair that
   was passed (`PairWhole`); an entry that is filled while its timer may fire was set again
   (`FillReset`); a timer that may fire has a function (`FireReady`); a frame outside these cases
   still agrees with the table (`FrameGiven`). It assumes `OneCaller`.
 - `NullNeverCalled`: the handler never calls NULL, whatever numbers are passed (`FireReady`). It assumes
   `OneCaller`.

**Day slots.** The lemmas of `DaySlotProofs` are about quotients and remainders, where a second lies
in its day (`Offset`, `Midnight`), what the search finds (`FoundSlot`) and where a run ends
(`RunOf`). The theorems about both schedules rest on them.

**Timer schedule.**
 - `TypeCorrect` and `NoEarlyAlarm`: what makes `NeverEarly` inductive is that the `now` the delay
   is counted from lies in the past when the timer is armed (`NowIsPast`).
 - `NothingSkipped` and `EndsInItsRun`: the plan is the one made from the entry's week
   (`Planned`, inductive on top of the invariant), and `PlanGood` shows from arithmetic alone that
   such a plan skips nothing and ends in its run, if midnight did not pass (`SameDay`).

**Event engine.** The theorems hold for any number of jobs and of threads in `event_stop`, every
cooldown and every limit. `IInv` is `TypeOK` with two things: a rule is there whole or not at all
(`RuleOK`), and what the label of a job says about the action it is at (`PlaceOK`); `next_job` indexes
the rule with `iActCnt`, which is in range because of it, unless the rule is cleared meanwhile.
 - `TypeCorrect`.
 - `StopCutsOff`: `CloseInv` says that an open engine has no late action, and that a job which has
   yet to begin one has none either; so a closed engine begins at most the action each job had
   decided on.
 - `RuleInOrder`: `OrderInv` relates what a job has run to its label, the actions it has left and the
   count it took from the rule: it has begun the first so many actions of the rule
   (`Begun`) and has the others left. A launch has three or none of them, since `event_init` may
   have cleared the rule; all but three kinds of step leave the lists alone (`OrderSame`).
 - `JobsInSequence`: as long as no two threads were in the engine at once (`~crossed`), one thread is
   in it and no update is lost (`Alone`), `tLastRun` is that of the last launch and the cooldown field
   is set whenever a job tests it (`Paced`, `Cooling`), the pictures never outnumber their counter
   (`Pictures`), the recording is counted (`Recordings`), and
   so is the job itself (`Running`). `iRamJpgCounter` may run above the number of pictures, since
   `ram_jpg` and `snap_shot` both raise it; `iRamMp4Counter` is exact.

**Schedule threads.** About `EvSchedule`, for every week, number of slots and length:
 - `TypeCorrect`, with what a label means (`PlaceOK`, `JoinOK`) and that a start is one slot early at
   most and a reading of the clock never ahead of it (`EarlyOK`).
 - `AtMostOneSlotEarly`: no thread runs its function more than one slot before a planned one, whoever of
   the two threads of a type stored the plan last. `v_early` shows that it does so by one slot.
 - `ImplementsLife`: the refinement of `ScheThreads`, one step at a time: `pthread_once` is `Enter`,
   the lock before the wait is `Wait`, and plans, ticks, tests and the function itself stutter
   (`LifeParameters` shows the parameters it is instantiated with to be as it assumes).

About `EvReopen`, for any finite number of jobs, of threads in `event_stop` and of schedule threads:
 - `TypeCorrect`.
 - `ReinitNeedsReopening`: what is inductive is `OnceOK`: one thread at most is inside
   `pthread_once`, nobody waits before it has left, and nothing exists before the first opening. So
   the `sche_init` in there meets no waiting thread, and a second caller of `sche_init` must come from
   a second `event_init`.
 - `FewThreadsPerOpening`: `Tally` counts, per type, the threads created, those a `sche_init` under
   way still owes, and the one `pthread_once` owes the program; an opening adds one to the sum's
   bound, a creation moves one from owed to created.
 - `OneSignalTwoJoins`: `Luck` follows a lone stopper through `sche_stop`: while nobody woke unasked,
   one thread at most has ended, and the two joins name threads of different types. So `sche_stop`
   does not return without luck; no run claims that it should, since the repository does not say so.

Model-checked only. Every invariant, action property and refinement of the passing runs is a theorem, so
what is left to TLC is
 - liveness, which is beyond this prover: `TasksStart`, `AddTerminates`, `ShutdownTerminates` and
   `SetTimersFire`;
 - the five violations;
 - `LoopsAgree`, the assumption that compares `DaySlots` with `DaySlotBits`: what those recursive
   functions compute for words of 48 bits needs an induction over data;
 - `MaskAnswers`, what the check of the time mask answers after a set, on the instance of `MCGSchedule`.

In the timers, where a theorem assumes one caller (`OneCaller`) the run does too; the two theorems of the
pool that assume it state nothing a run checks.

## 7. Plan

1. *An abstract event engine* (a job is launched, runs a rule, ends or is cut) and `EvCore`
   as its refinement, on top of `OrderInv` and `CloseInv`.
2. *An abstract timer* (asked, fired) and `GTimer` as its refinement, on top of `LateInv`.
3. *Two callers*: which of the pool's theorems with one caller hold for two that do not
   delete and destroy at the same time, and which of the timers' for two callers that set different timers.

## 8. Not modelled

- `nsleep` (a retry loop without shared state), `convert_time_string` and `lltostr` (formatting).
- The demos (`g_test.c`, `t2.c`, `sample.c`, `g_timer/{g_test,debug,function_list}.c`). All but the first
  make one call after another. `g_test.c` cannot be modelled as a client of this library: it calls
  `g_timer_set` with six arguments where `g_timer.c:111` takes seven, and its handler dereferences
  `sival_ptr` as a structure (`g_test.c:37`, `:46`) where `g_timer.c:100` and `g_timer_v1/g_timer.c:104`
  store the timer's index: its first signal is undefined behaviour.
- The older copies (`g_timer/g_timer_v1`, `g_schedule/tmp/ev_action.c`), which repeat the code that is
  modelled, and the draft `g_schedule/g_schedule.c`, which does not compile.
- Failing `calloc`s in `threadpool_create` (lines 67-69), which the code does not check.
- Time zones other than UTC, daylight saving time and clocks set backwards.
- The recorder, the FTP transfer and the functions of the schedules: they take time and return.
- Memory exhaustion by job threads that are never joined.
- Async-signal safety of `printf`.
