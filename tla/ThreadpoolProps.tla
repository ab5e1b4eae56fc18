-------------------------- MODULE ThreadpoolProps --------------------------
(***************************************************************************)
(* What makes the thread pool of Threadpool correct: its invariants, its   *)
(* liveness properties, and the abstract pool (WorkPool) it implements.    *)
(***************************************************************************)
EXTENDS Threadpool

Labels ==
  {"create", "spawn", "count", "failed", "off", "idle",
   "start", "lock", "check", "wait", "begin", "run", "leave", "bye", "exited", "dead",
   "add_lock", "add_put", "add_status",
   "del_scan", "del_cancel", "del_join", "del_spawn",
   "destroy_lock", "destroy_set", "destroy_scan", "destroy_cancel", "destroy_join",
   "destroy_mutex"}

ThreadType  == lock \in Threads \cup {None} /\ pc \in [Threads -> Labels]
RingType    == /\ queue \in [0 .. QUEUE_SIZE - 1 -> Task \cup {None}]
               /\ head \in 0 .. QUEUE_SIZE - 1 /\ tail \in 0 .. QUEUE_SIZE - 1
               /\ count \in 0 .. QUEUE_SIZE
ControlType == /\ shutdown \in {ALIVE, IMMEDIATE_SHUTDOWN, GRACEFUL_SHUTDOWN}
               /\ started \in Int /\ thread_count \in 0 .. THREAD_COUNT
               /\ memory \in {"live", "freed", "destroyed"}
Slot        == [thread_type : Types \cup {0}, thread_busy : BOOLEAN,
                thread_func : Funcs \cup {None}]
SeatType    == slot \in [Workers -> Slot] /\ task \in [Workers -> Task \cup {None}]
PthreadType == cancelled \in [Workers -> BOOLEAN] /\ joined \in [Workers -> BOOLEAN]
ClientType  == /\ idx \in [Clients -> 0 .. THREAD_COUNT]
               /\ target \in [Clients -> Funcs \cup {None}]
               /\ mode \in [Clients -> Modes \cup {ALIVE}]
               /\ ret \in [Clients -> {"none", "ok", "shutdown"}]
               /\ calls \in [add : Nat, del : Nat, destroy : Nat]
HistoryType == /\ process \in {"running", "exited", "undefined"}
               /\ accepted \in Nat /\ done \subseteq Nat /\ killed \subseteq Nat

\* Every variable keeps its type; above all the ring's indices stay inside the ring
\* and count never exceeds queue_size.
TypeOK == /\ ThreadType /\ RingType /\ ControlType /\ SeatType
          /\ PthreadType /\ ClientType /\ HistoryType

\* The ring holds exactly the tasks accepted last, oldest at head, in the order
\* threadpool_add accepted them; no slot is overwritten before it is taken.
RingOrder ==
  /\ tail = (head + count) % QUEUE_SIZE
  /\ \A k \in 0 .. count - 1 :
       LET t == queue[(head + k) % QUEUE_SIZE]
       IN  t # None /\ t.argument = accepted - count + 1 + k

InFlight == {w \in Workers : pc[w] \in {"begin", "run", "add_lock", "add_put", "add_status"}}

\* Every task that left the ring is in the hands of exactly one worker, or is
\* finished, or was killed by a cancellation; none is lost and none runs twice.
EveryTaskOnce ==
  /\ 1 .. accepted - count = done \cup killed \cup {task[w].argument : w \in InFlight}
  /\ done \cap killed = {}
  /\ \A w \in InFlight : /\ task[w].argument \notin done \cup killed
                         /\ \A v \in InFlight \ {w} : task[v].argument # task[w].argument

\* No wake-up is lost: while a worker sleeps on the condition variable, every
\* pending task has a worker of its own on the way to the ring.
NoLostWakeup ==
  Waiters # {} => count <= Cardinality({w \in Workers : pc[w] \in {"lock", "check"}})

\* No worker sleeps through a shutdown.
ShutdownWakesAll == shutdown # ALIVE => Waiters = {}

\* At most one thread is inside a critical section, and it owns the mutex.
Critical == {"check", "leave", "bye", "add_put", "destroy_set"}
MutualExclusion == \A t \in Threads : pc[t] \in Critical => lock = t

\* The mutex stays with a thread outside its critical sections only when a worker was
\* cancelled while it slept or was leaving (threadpool.c:107, :202), or when a destroy
\* came second and returned "Already shutting down" without unlocking (:186); no path of
\* add, of the worker or of the first destroy forgets the mutex.
MutexAbandoned ==
  lock # None /\ pc[lock] \notin Critical =>
    IF lock \in Workers THEN cancelled[lock] \/ calls.del > 0 ELSE ret[lock] = "shutdown"

\* One threadpool_del kills at most one task, although it finds the worker by an unlocked
\* look at thread_func and cancels it later, when it may run another task (:101, :107).  That
\* the task it kills is one of the function it was given does not hold.
DelCostsOneTask == shutdown # IMMEDIATE_SHUTDOWN => Cardinality(killed) <= calls.del

\* What a destroy that returned 0 left behind if one client makes the calls: it had a
\* shutdown mode, and the pool is released unless a worker died by cancellation and was not
\* replaced, for then nobody lowered started, threadpool_free refuses and the pool leaks (:223).
ReleasedUnlessKilled ==
  (\E c \in Clients : ret[c] = "ok") =>
    /\ shutdown # ALIVE
    /\ memory = "destroyed" <=> \A w \in Workers : pc[w] # "dead"

\* threadpool_free releases memory only when no worker can touch it again.
FreeIsSafe ==
  memory # "live" => \A w \in Workers : pc[w] \in {"off", "exited", "dead"}

\* A pool freed by a graceful shutdown ran every task it had accepted, apart from
\* those threadpool_del cancelled.
GracefulDrains ==
  memory # "live" /\ shutdown = GRACEFUL_SHUTDOWN => done \cup killed = 1 .. accepted

\* While nobody calls threadpool_del, an immediate shutdown cancels only workers
\* whose task holds its thread for good: between the unlocked read of thread_type
\* and the pthread_cancel no worker moves on to a task that returns by itself.
CancelsHoldersOnly ==
  calls.del = 0 => \A w \in InFlight : cancelled[w] => task[w].function_type # 0

\* No thread uses memory that was freed, a mutex that was destroyed or an id that was joined.
\* With several clients, or when threads cannot be created, the code does not keep this
\* (a del beside a destroy joins an id twice, threadpool.c:109, :209); with one client it does.
NoUndefinedBehaviour == process # "undefined"

\* The program never leaves through threadpool_thread's exit(1): every worker finds
\* its own thread id.  (README.md:9 "Starts all threads on creation".)
WorkersFindThemselves == process # "exited"

Stopped == process # "running"

\* Every accepted task is eventually taken by a worker, unless an immediate
\* shutdown intervenes.
TasksStart ==
  \A n \in 1 .. MaxAdds :
    (accepted >= n) ~> (accepted - count >= n \/ shutdown = IMMEDIATE_SHUTDOWN \/ Stopped)

\* Every call of threadpool_add returns, also a nested one, also at a full ring.
AddTerminates ==
  \A t \in Adders : (pc[t] = "add_lock") ~> (pc[t] \in {"idle", "run", "dead"} \/ Stopped)

\* Every call of threadpool_destroy returns.  (tests/shutdown.c:36 and tests/heavy.c:65
\* assert that threadpool_destroy(pool, 0) returns 0; threadpool.h:143 calls 0 the default.)
DestroyTerminates ==
  \A c \in Clients : (pc[c] = "destroy_lock") ~> (ret[c] # "none" \/ Stopped)

\* A call of threadpool_destroy that asks for a shutdown, immediate or graceful, returns
\* if it is the only one.  Mode 0 asks for none: DestroyTerminates is about it.
ShutdownTerminates ==
  \A c \in Clients : (pc[c] = "destroy_lock" /\ mode[c] # ALIVE) ~>
                       (ret[c] # "none" \/ calls.destroy > 1 \/ Stopped)

-----------------------------------------------------------------------------
(* The pool implements WorkPool: task n of WorkPool is the task whose argument *)
(* is n, it is taken when it leaves the ring and runs until its worker clears   *)
(* its slot or dies.                                                            *)

phase ==
  IF memory # "live" THEN "released"
  ELSE CASE shutdown = GRACEFUL_SHUTDOWN  -> "draining"
         [] shutdown = IMMEDIATE_SHUTDOWN -> "stopping"
         [] OTHER                         -> "open"

Abstract == INSTANCE WorkPool WITH
  Capacity <- QUEUE_SIZE, Width <- THREAD_COUNT, Revocable <- Deleters # {},
  submitted <- accepted, taken <- accepted - count,
  running <- {task[w].argument : w \in InFlight}

\* Every behaviour of the pool is one of WorkPool.
ImplementsWorkPool == Abstract!Spec
=============================================================================
