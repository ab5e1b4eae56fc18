----------------------------- MODULE Threadpool -----------------------------
(***************************************************************************)
(* The pthread thread pool of threadpool/src/threadpool.c: a bounded ring  *)
(* of tasks guarded by one mutex and one condition variable, worker        *)
(* threads, and the four calls clients make (create, add, del, destroy).   *)
(*                                                                         *)
(* One action is one run of a thread between two points another thread can *)
(* observe.  A critical section is two actions, taking the mutex and the   *)
(* body that ends by releasing it, except where a thread can die or return *)
(* while it holds the mutex.  Reads and writes the code makes without the  *)
(* mutex (thread_count, thread_type, thread_func) are actions of their own.*)
(*                                                                         *)
(* pthread_cancel is deferred cancellation: the target dies at its next    *)
(* cancellation point (in a task, in pthread_cond_wait, in a printf).      *)
(* pthread_cond_wait takes the mutex again before the thread dies, and no  *)
(* cleanup handler is installed, so the mutex then stays with a dead thread.*)
(***************************************************************************)
EXTENDS Integers, FiniteSets

CONSTANTS
  THREAD_COUNT,  \* threadpool_create's thread_count
  QUEUE_SIZE,    \* threadpool_create's queue_size
  Clients,       \* the threads outside the pool
  Main,          \* the client that calls threadpool_create
  Adders,        \* threads that call threadpool_add; a worker adds from its task
  Deleters,      \* clients that call threadpool_del
  Destroyers,    \* clients that call threadpool_destroy
  Funcs,         \* the task functions
  Types,         \* function_type: 0 a function that returns, other a "thread"
  Modes,         \* the shutdown modes clients pass to threadpool_destroy
  SpawnMayFail,  \* whether malloc and pthread_create may fail
  MaxAdds, MaxDels, MaxDestroys,  \* bounds on the calls of one run
  None           \* NULL: no thread, no task, no function

ALIVE              == 0
IMMEDIATE_SHUTDOWN == 1
GRACEFUL_SHUTDOWN  == 2

Workers == 0 .. THREAD_COUNT - 1
Threads == Workers \cup Clients
Task    == [func_ptr : Funcs, argument : Nat, function_type : Types]

ASSUME SizeAssumption == THREAD_COUNT \in Nat \ {0} /\ QUEUE_SIZE \in Nat \ {0}
ASSUME ThreadAssumption ==
  /\ Main \in Clients /\ Clients \cap Workers = {} /\ None \notin Threads
  /\ Adders \subseteq Threads /\ Deleters \subseteq Clients
  /\ Destroyers \subseteq Clients
ASSUME DataAssumption ==
  /\ None \notin Funcs /\ Types \subseteq Nat /\ None \notin Task
  /\ Modes \subseteq {ALIVE, IMMEDIATE_SHUTDOWN, GRACEFUL_SHUTDOWN}
  /\ SpawnMayFail \in BOOLEAN
ASSUME BoundAssumption == MaxAdds \in Nat /\ MaxDels \in Nat /\ MaxDestroys \in Nat

VARIABLES
  lock,                      \* the thread that owns the mutex, or None
  queue, head, tail, count,  \* the ring of pending tasks
  shutdown, started, thread_count,
  memory,                    \* "live", "freed" (the arrays), "destroyed" (the mutex too)
  slot,                      \* thread_type, thread_busy, thread_func of a worker
  task,                      \* the task a worker took from the ring
  pc,                        \* where each thread is
  cancelled, joined,         \* per worker: pthread_cancel is pending, the id is stale
  idx, target, mode, ret,    \* per client: loop index, arguments, destroy's result
  calls,                     \* the calls made so far (bounded)
  process,                   \* "running", "exited" by exit(1), "undefined" behaviour
  accepted, done, killed     \* history: tasks accepted, finished, cancelled

ring    == <<queue, head, tail, count>>
control == <<shutdown, started, thread_count, memory>>
seats   == <<slot, task>>
pthread == <<cancelled, joined>>
client  == <<idx, target, mode, ret, calls>>
history == <<accepted, done, killed>>
vars    == <<lock, ring, control, seats, pc, pthread, client, process, history>>

Free == [thread_type |-> 0, thread_busy |-> FALSE, thread_func |-> None]

Init ==
  /\ lock = None
  /\ queue = [i \in 0 .. QUEUE_SIZE - 1 |-> None] /\ head = 0 /\ tail = 0 /\ count = 0
  /\ shutdown = ALIVE /\ started = 0 /\ thread_count = 0 /\ memory = "live"
  /\ slot = [w \in Workers |-> Free] /\ task = [w \in Workers |-> None]
  /\ pc = [t \in Threads |-> IF t = Main THEN "create" ELSE "off"]
  /\ cancelled = [w \in Workers |-> FALSE] /\ joined = [w \in Workers |-> FALSE]
  /\ idx = [c \in Clients |-> 0] /\ target = [c \in Clients |-> None]
  /\ mode = [c \in Clients |-> ALIVE] /\ ret = [c \in Clients |-> "none"]
  /\ calls = [add |-> 0, del |-> 0, destroy |-> 0]
  /\ process = "running"
  /\ accepted = 0 /\ done = {} /\ killed = {}

-----------------------------------------------------------------------------
(* Threads, the mutex and the condition variable *)

Goto(t, label) == pc' = [pc EXCEPT ![t] = label]
Gone(w)        == pc[w] \in {"exited", "dead"}
Waiters        == {w \in Workers : pc[w] = "wait"}

\* Mutant: the result of pthread_mutex_trylock is ignored.
AcquireTry(t, from, to) ==
  /\ pc[t] = from /\ lock' = t /\ Goto(t, to)
  /\ UNCHANGED <<ring, control, seats, pthread, client, process, history>>

Acquire(t, from, to) ==
  /\ pc[t] = from /\ lock = None
  /\ lock' = t /\ Goto(t, to)
  /\ UNCHANGED <<ring, control, seats, pthread, client, process, history>>

\* What pthread_cond_signal and pthread_cond_broadcast can make of the program
\* counters p: a waiter that is woken competes for the mutex.
Wake(p) == {[p EXCEPT ![w] = "lock"] : w \in Waiters}

\* Mutants: no signal; a signal only when the ring was empty.
SignalNever(p)     == {p}
SignalWhenEmpty(p) == IF Waiters = {} \/ count > 0 THEN {p} ELSE Wake(p)

Signal(p) == IF Waiters = {} THEN {p} ELSE Wake(p)

\* Mutant: destroy signals instead of broadcasting.
BroadcastOne(p) == Signal(p)

Broadcast(p) == {[t \in Threads |-> IF t \in Waiters THEN "lock" ELSE p[t]]}

\* pthread_cond_wait may return with no signal at all.
SpuriousWake(w) ==
  /\ pc[w] = "wait" /\ Goto(w, "lock")
  /\ UNCHANGED <<lock, ring, control, seats, pthread, client, process, history>>

\* A thread about to use an array that was freed, a mutex that was destroyed, or
\* a thread id that was joined: C and POSIX leave the behaviour undefined.
Dangling(t) ==
  \/ memory # "live"      /\ pc[t] \in {"start", "begin", "add_status", "del_scan", "del_cancel",
                                        "del_join", "del_spawn", "destroy_scan",
                                        "destroy_cancel", "destroy_join"}
  \/ memory = "destroyed" /\ pc[t] \in {"lock", "bye", "add_lock", "destroy_lock"}
  \/ /\ pc[t] \in {"del_cancel", "del_join", "destroy_cancel", "destroy_join"}
     /\ idx[t] < thread_count /\ joined[idx[t]]

Undefined(t) ==
  /\ Dangling(t) /\ process' = "undefined"
  /\ UNCHANGED <<lock, ring, control, seats, pc, pthread, client, history>>

-----------------------------------------------------------------------------
(* threadpool_create *)

CreateInit ==
  /\ pc[Main] = "create" /\ Goto(Main, "spawn")
  /\ UNCHANGED <<lock, ring, control, seats, pthread, client, process, history>>

\* malloc of threads or queue, or the mutex, fails; the callocs of the other arrays are not
\* tested, and one that fails is outside this model.
CreateInitFails ==
  /\ pc[Main] = "create" /\ SpawnMayFail /\ Goto(Main, "failed")
  /\ memory' = "destroyed"
  /\ UNCHANGED <<lock, ring, shutdown, started, thread_count, seats, pthread, client,
                 process, history>>

CreateSpawn ==
  /\ pc[Main] = "spawn" /\ idx[Main] < THREAD_COUNT
  /\ pc' = [pc EXCEPT ![Main] = "count", ![idx[Main]] = "start"]
  /\ UNCHANGED <<lock, ring, control, seats, pthread, client, process, history>>

\* The new worker already runs when create counts it.
CreateCount ==
  /\ pc[Main] = "count" /\ Goto(Main, "spawn")
  /\ thread_count' = thread_count + 1 /\ started' = started + 1
  /\ idx' = [idx EXCEPT ![Main] = @ + 1]
  /\ UNCHANGED <<lock, ring, shutdown, memory, seats, pthread, target, mode, ret, calls,
                 process, history>>

CreateSpawnFails ==
  /\ pc[Main] = "spawn" /\ idx[Main] < THREAD_COUNT /\ SpawnMayFail
  /\ Goto(Main, "destroy_lock") /\ mode' = [mode EXCEPT ![Main] = ALIVE]
  /\ UNCHANGED <<lock, ring, control, seats, pthread, idx, target, ret, calls, process,
                 history>>

\* create returns 0 and the pool is handed to every client.
CreateReturns ==
  /\ pc[Main] = "spawn" /\ idx[Main] = THREAD_COUNT
  /\ pc' = [t \in Threads |-> IF t \in Clients /\ pc[t] \in {"spawn", "off"}
                              THEN "idle" ELSE pc[t]]
  /\ UNCHANGED <<lock, ring, control, seats, pthread, client, process, history>>

-----------------------------------------------------------------------------
(* threadpool_thread *)

\* The worker looks itself up among the threads counted so far, without the mutex.
Listed(w) == w < thread_count

WorkerLookup(w) ==
  /\ pc[w] = "start"
  /\ \/ Listed(w) /\ Goto(w, "lock") /\ UNCHANGED process
     \/ ~Listed(w) /\ process' = "exited" /\ UNCHANGED pc
  /\ UNCHANGED <<lock, ring, control, seats, pthread, client, history>>

WorkerLock(w) == Acquire(w, "lock", "check")

MustWait  == count = 0 /\ shutdown = ALIVE

\* Mutants: both shutdowns leave at once; both drain the ring first.
MustLeaveAtOnce == shutdown # ALIVE
MustLeaveDrained == shutdown # ALIVE /\ count = 0

MustLeave == \/ shutdown = IMMEDIATE_SHUTDOWN
             \/ shutdown = GRACEFUL_SHUTDOWN /\ count = 0

\* Mutants: the index wraps one late; the newest task is taken.
AdvanceLate(i) == (i + 1) % (QUEUE_SIZE + 1)
NewestTask     == queue[(tail - 1) % QUEUE_SIZE]

Advance(i) == (i + 1) % QUEUE_SIZE
NextTask   == queue[head]

WorkerWait(w) ==
  /\ pc[w] = "check" /\ MustWait
  /\ lock' = None /\ Goto(w, "wait")
  /\ UNCHANGED <<ring, control, seats, pthread, client, process, history>>

WorkerGrab(w) ==
  /\ pc[w] = "check" /\ ~MustWait /\ ~MustLeave
  /\ task' = [task EXCEPT ![w] = NextTask]
  /\ slot' = [slot EXCEPT ![w].thread_type = NextTask.function_type]
  /\ head' = Advance(head) /\ count' = count - 1
  /\ lock' = None /\ Goto(w, "begin")
  /\ UNCHANGED <<queue, tail, control, pthread, client, process, history>>

WorkerBegin(w) ==
  /\ pc[w] = "begin" /\ Goto(w, "run")
  /\ slot' = [slot EXCEPT ![w] = [@ EXCEPT !.thread_busy = TRUE,
                                          !.thread_func = task[w].func_ptr]]
  /\ UNCHANGED <<lock, ring, control, task, pthread, client, process, history>>

\* The task function returns and the worker clears its entries.
WorkerEnd(w) ==
  /\ pc[w] = "run" /\ Goto(w, "lock")
  /\ done' = done \cup {task[w].argument}
  /\ slot' = [slot EXCEPT ![w] = Free] /\ task' = [task EXCEPT ![w] = None]
  /\ UNCHANGED <<lock, ring, control, pthread, client, process, accepted, killed>>

\* The worker leaves its loop and keeps the mutex until WorkerExit.
WorkerLeave(w) ==
  /\ pc[w] = "check" /\ ~MustWait /\ MustLeave
  /\ Goto(w, "leave")
  /\ UNCHANGED <<lock, ring, control, seats, pthread, client, process, history>>

WorkerUncount(w) ==
  /\ pc[w] = "leave" /\ Goto(w, "bye")
  /\ started' = started - 1
  /\ UNCHANGED <<lock, ring, shutdown, thread_count, memory, seats, pthread, client,
                 process, history>>

\* Mutant: the leaving worker forgets the mutex.
WorkerExitLocked(w) ==
  /\ pc[w] = "bye" /\ Goto(w, "exited")
  /\ UNCHANGED <<lock, ring, control, seats, pthread, client, process, history>>

WorkerExit(w) ==
  /\ pc[w] = "bye" /\ Goto(w, "exited")
  /\ lock' = None
  /\ UNCHANGED <<ring, control, seats, pthread, client, process, history>>

\* A cancelled worker dies inside its task (or in the printf of a nested add's status).
CancelInTask(w) ==
  /\ cancelled[w] /\ pc[w] \in {"run", "add_status"} /\ Goto(w, "dead")
  /\ killed' = killed \cup {task[w].argument}
  /\ UNCHANGED <<lock, ring, control, seats, pthread, client, process, accepted, done>>

\* pthread_cond_wait takes the mutex before the thread dies; nothing releases it.
CancelInWait(w) == cancelled[w] /\ Acquire(w, "wait", "dead")

\* printf("thread leave") is a cancellation point and the mutex is held.
CancelInLeave(w) ==
  /\ cancelled[w] /\ pc[w] = "leave" /\ Goto(w, "dead")
  /\ UNCHANGED <<lock, ring, control, seats, pthread, client, process, history>>

-----------------------------------------------------------------------------
(* threadpool_add and threadpool_status *)

\* A client calls while it may believe the pool is alive.
CanCall(c) == pc[c] = "idle" /\ memory = "live" /\ ret[c] # "ok"
Home(t)    == IF t \in Workers THEN "run" ELSE "idle"

AddCall(t) ==
  /\ t \in Adders /\ calls.add < MaxAdds
  /\ IF t \in Workers THEN pc[t] = "run" ELSE CanCall(t)
  /\ Goto(t, "add_lock") /\ calls' = [calls EXCEPT !.add = @ + 1]
  /\ UNCHANGED <<lock, ring, control, seats, pthread, idx, target, mode, ret, process,
                 history>>

AddLock(t) == Acquire(t, "add_lock", "add_put")

\* Mutants: the ring takes one task too many; a shutdown is not looked at.
IsFullLate  == count > QUEUE_SIZE
RefusedFull == count = QUEUE_SIZE

IsFull  == count = QUEUE_SIZE
Refused == IsFull \/ shutdown # ALIVE

\* Mutant: the error path returns without unlocking.
AddRefusedLocked(t) ==
  /\ pc[t] = "add_put" /\ Refused
  /\ Goto(t, "add_status")
  /\ UNCHANGED <<lock, ring, control, seats, pthread, client, process, history>>

AddRefused(t) ==
  /\ pc[t] = "add_put" /\ Refused
  /\ lock' = None /\ Goto(t, "add_status")
  /\ UNCHANGED <<ring, control, seats, pthread, client, process, history>>

AddPut(t) ==
  /\ pc[t] = "add_put" /\ ~Refused
  /\ \E f \in Funcs, type \in Types :
       queue' = [queue EXCEPT ![tail] = [func_ptr |-> f, argument |-> accepted + 1,
                                         function_type |-> type]]
  /\ tail' = Advance(tail) /\ count' = count + 1 /\ accepted' = accepted + 1
  /\ lock' = None /\ pc' \in Signal([pc EXCEPT ![t] = "add_status"])
  /\ UNCHANGED <<head, control, seats, pthread, client, process, done, killed>>

\* threadpool_status reads the arrays without the mutex, then add returns.
AddReturns(t) ==
  /\ pc[t] = "add_status" /\ Goto(t, Home(t))
  /\ UNCHANGED <<lock, ring, control, seats, pthread, client, process, history>>

-----------------------------------------------------------------------------
(* threadpool_del: no step of it holds the mutex *)

DelCall(c) ==
  /\ c \in Deleters /\ CanCall(c) /\ calls.del < MaxDels /\ Goto(c, "del_scan")
  /\ \E f \in Funcs : target' = [target EXCEPT ![c] = f]
  /\ idx' = [idx EXCEPT ![c] = 0] /\ calls' = [calls EXCEPT !.del = @ + 1]
  /\ UNCHANGED <<lock, ring, control, seats, pthread, mode, ret, process, history>>

DelScan(c) ==
  /\ pc[c] = "del_scan"
  /\ \/ /\ idx[c] < thread_count /\ slot[idx[c]].thread_func = target[c]
        /\ Goto(c, "del_cancel") /\ UNCHANGED idx
     \/ /\ idx[c] < thread_count /\ slot[idx[c]].thread_func # target[c]
        /\ idx' = [idx EXCEPT ![c] = @ + 1] /\ UNCHANGED pc
     \/ idx[c] >= thread_count /\ Goto(c, "idle") /\ UNCHANGED idx
  /\ UNCHANGED <<lock, ring, control, seats, pthread, target, mode, ret, calls, process,
                 history>>

\* pthread_cancel of worker idx[c]
Cancel(c, to) ==
  /\ cancelled' = [cancelled EXCEPT ![idx[c]] = TRUE] /\ Goto(c, to)
  /\ UNCHANGED <<lock, ring, control, seats, joined, target, mode, ret, calls, process,
                 history>>

\* Mutant: every worker that runs the function is cancelled, not only the first.
DelCancelAll(c) ==
  /\ pc[c] = "del_cancel" /\ Goto(c, "del_join")
  /\ cancelled' = [w \in Workers |-> cancelled[w] \/ slot[w].thread_func = target[c]]
  /\ UNCHANGED <<lock, ring, control, seats, joined, client, process, history>>

DelCancel(c) == pc[c] = "del_cancel" /\ Cancel(c, "del_join") /\ UNCHANGED idx

DelJoin(c) ==
  /\ pc[c] = "del_join" /\ Gone(idx[c]) /\ Goto(c, "del_spawn")
  /\ joined' = [joined EXCEPT ![idx[c]] = TRUE]
  /\ slot' = [slot EXCEPT ![idx[c]] = Free]
  /\ UNCHANGED <<lock, ring, control, task, cancelled, client, process, history>>

\* The worker's replacement starts in the same slot.
DelSpawn(c) ==
  /\ pc[c] = "del_spawn" /\ pc' = [pc EXCEPT ![c] = "idle", ![idx[c]] = "start"]
  /\ task' = [task EXCEPT ![idx[c]] = None]
  /\ cancelled' = [cancelled EXCEPT ![idx[c]] = FALSE]
  /\ joined' = [joined EXCEPT ![idx[c]] = FALSE]
  /\ UNCHANGED <<lock, ring, control, slot, client, process, history>>

DelSpawnFails(c) ==
  /\ pc[c] = "del_spawn" /\ SpawnMayFail /\ Goto(c, "idle")
  /\ UNCHANGED <<lock, ring, control, seats, pthread, client, process, history>>

-----------------------------------------------------------------------------
(* threadpool_destroy and threadpool_free *)

DestroyCall(c) ==
  /\ c \in Destroyers /\ CanCall(c) /\ calls.destroy < MaxDestroys
  /\ Goto(c, "destroy_lock")
  /\ \E m \in Modes : mode' = [mode EXCEPT ![c] = m]
  /\ calls' = [calls EXCEPT !.destroy = @ + 1]
  /\ UNCHANGED <<lock, ring, control, seats, pthread, idx, target, ret, process, history>>

DestroyLock(c) == Acquire(c, "destroy_lock", "destroy_set")

\* "Already shutting down": the call returns and the mutex stays locked.
DestroyAgain(c) ==
  /\ pc[c] = "destroy_set" /\ shutdown # ALIVE
  /\ Goto(c, "idle") /\ ret' = [ret EXCEPT ![c] = "shutdown"]
  /\ UNCHANGED <<lock, ring, control, seats, pthread, idx, target, mode, calls, process,
                 history>>

DestroySet(c) ==
  /\ pc[c] = "destroy_set" /\ shutdown = ALIVE
  /\ shutdown' = mode[c] /\ idx' = [idx EXCEPT ![c] = 0]
  /\ lock' = None /\ pc' \in Broadcast([pc EXCEPT ![c] = "destroy_scan"])
  /\ UNCHANGED <<ring, started, thread_count, memory, seats, pthread, target, mode, ret,
                 calls, process, history>>

\* An immediate shutdown cancels the workers whose thread_type is not 0.
DestroyScan(c) ==
  /\ pc[c] = "destroy_scan"
  /\ IF shutdown = IMMEDIATE_SHUTDOWN /\ idx[c] < thread_count
     THEN IF slot[idx[c]].thread_type # 0
          THEN Goto(c, "destroy_cancel") /\ UNCHANGED idx
          ELSE idx' = [idx EXCEPT ![c] = @ + 1] /\ UNCHANGED pc
     ELSE Goto(c, "destroy_join") /\ idx' = [idx EXCEPT ![c] = 0]
  /\ UNCHANGED <<lock, ring, control, seats, pthread, target, mode, ret, calls, process,
                 history>>

DestroyCancel(c) ==
  /\ pc[c] = "destroy_cancel" /\ Cancel(c, "destroy_scan")
  /\ idx' = [idx EXCEPT ![c] = @ + 1]

\* Mutant: the join loop stops one worker early.
JoinedButOne(c) == idx[c] >= thread_count - 1

JoinedAll(c) == idx[c] >= thread_count

DestroyJoin(c) ==
  /\ pc[c] = "destroy_join" /\ ~JoinedAll(c) /\ Gone(idx[c])
  /\ joined' = [joined EXCEPT ![idx[c]] = TRUE]
  /\ idx' = [idx EXCEPT ![c] = @ + 1]
  /\ UNCHANGED <<lock, ring, control, seats, pc, cancelled, target, mode, ret, calls,
                 process, history>>

\* threadpool_free refuses while workers are counted; destroy ignores its result.
CanFree == started <= 0

DestroyFree(c) ==
  /\ pc[c] = "destroy_join" /\ JoinedAll(c)
  /\ \/ /\ CanFree /\ memory' = "freed" /\ Goto(c, "destroy_mutex") /\ UNCHANGED ret
     \/ /\ ~CanFree /\ UNCHANGED memory /\ Goto(c, "idle")
        /\ ret' = [ret EXCEPT ![c] = "ok"]
  /\ UNCHANGED <<lock, ring, shutdown, started, thread_count, seats, pthread, idx, target,
                 mode, calls, process, history>>

DestroyMutex(c) ==
  /\ pc[c] = "destroy_mutex" /\ lock = None /\ Goto(c, "idle")
  /\ memory' = "destroyed" /\ ret' = [ret EXCEPT ![c] = "ok"]
  /\ UNCHANGED <<lock, ring, shutdown, started, thread_count, seats, pthread, idx, target,
                 mode, calls, process, history>>

-----------------------------------------------------------------------------
(* The specification *)

Create == \/ CreateInit \/ CreateInitFails
          \/ CreateSpawn \/ CreateCount \/ CreateSpawnFails \/ CreateReturns

WorkerStep(w) ==
  \/ WorkerLookup(w) \/ WorkerLock(w)
  \/ WorkerWait(w) \/ WorkerGrab(w) \/ WorkerBegin(w) \/ WorkerEnd(w)
  \/ WorkerLeave(w) \/ WorkerUncount(w) \/ WorkerExit(w)
  \/ CancelInTask(w) \/ CancelInWait(w) \/ CancelInLeave(w)

AddStep(t) == AddLock(t) \/ AddRefused(t) \/ AddPut(t) \/ AddReturns(t)

DelStep(c) == DelScan(c) \/ DelCancel(c) \/ DelJoin(c) \/ DelSpawn(c) \/ DelSpawnFails(c)

DestroyStep(c) ==
  \/ DestroyLock(c) \/ DestroyAgain(c) \/ DestroySet(c)
  \/ DestroyScan(c) \/ DestroyCancel(c) \/ DestroyJoin(c)
  \/ DestroyFree(c) \/ DestroyMutex(c)

ThreadStep(t) ==
  \/ t = Main /\ Create
  \/ t \in Workers /\ WorkerStep(t)
  \/ AddStep(t)
  \/ t \in Clients /\ (DelStep(t) \/ DestroyStep(t))

Step(t) == IF Dangling(t) THEN Undefined(t) ELSE ThreadStep(t)

\* What nothing obliges to happen: new calls and spurious wake-ups.
Whim(t) ==
  \/ t \in Workers /\ SpuriousWake(t)
  \/ AddCall(t)
  \/ t \in Clients /\ (DelCall(t) \/ DestroyCall(t))

\* The legitimate resting states: no client is inside a call and every worker
\* waits for work or is gone.
Resting ==
  /\ \/ process # "running"
     \/ \A t \in Threads : pc[t] \in {"idle", "off", "failed", "wait", "exited", "dead"}
  /\ UNCHANGED vars

Next == \/ process = "running" /\ \E t \in Threads : Step(t) \/ Whim(t)
        \/ Resting

Spec == Init /\ [][Next]_vars

\* Every thread is scheduled; a thread that keeps finding the mutex free gets it;
\* a cancelled thread reaches a cancellation point; a task of type 0 returns.
\* A task of another type ("always holding" its thread) may run forever.
Running(A) == process = "running" /\ A
Returning(w) == task[w] # None /\ task[w].function_type = 0 /\ WorkerEnd(w)
Busy(t) == t \in Workers /\ pc[t] = "run" /\ ~cancelled[t]
Locking == {"lock", "wait", "add_lock", "destroy_lock"}

Fairness ==
  \A t \in Threads :
    /\ WF_vars(Running(~Busy(t) /\ Step(t)))
    /\ SF_vars(Running(pc[t] \in Locking /\ Step(t)))
    /\ SF_vars(Running(t \in Workers /\ Returning(t)))

FairSpec == Spec /\ Fairness
=============================================================================
