-------------------------- MODULE ThreadpoolProofs --------------------------
(***************************************************************************)
(* Proofs about the thread pool, for every number of threads, clients and  *)
(* calls and every queue size: the ring and its counters; critical         *)
(* sections and the broadcast of a shutdown; the ends of the workers,      *)
(* which are cancelled, joined and replaced in place, up to the free of    *)
(* the pool; the tasks, none of which is lost or run twice, up to the      *)
(* implementation of WorkPool; what cancellation and a second destroy      *)
(* break; and the pool of a single caller, which destroy always ends.      *)
(***************************************************************************)
EXTENDS ThreadpoolProps, FiniteSetTheorems, FunctionTheorems, TLAPS

-----------------------------------------------------------------------------
(* The ring *)

\* The index arithmetic of the ring: a sum of an index and at most queue_size wraps
\* at most once.
LEMMA RingIndex ==
  ASSUME NEW i \in 0 .. QUEUE_SIZE - 1, NEW k \in 0 .. QUEUE_SIZE
  PROVE  (i + k) % QUEUE_SIZE = IF i + k < QUEUE_SIZE THEN i + k ELSE i + k - QUEUE_SIZE
BY SizeAssumption

\* Advancing an index stays inside the ring.
LEMMA AdvanceType ==
  ASSUME NEW i \in 0 .. QUEUE_SIZE - 1
  PROVE  Advance(i) \in 0 .. QUEUE_SIZE - 1
BY SizeAssumption DEF Advance

\* A ring in order that is not empty has a task at head, the oldest one.
LEMMA NextTaskIsTask ==
  ASSUME TypeOK, RingOrder, count > 0
  PROVE  NextTask \in Task /\ NextTask.argument = accepted - count + 1
<1>1. /\ head \in 0 .. QUEUE_SIZE - 1 /\ QUEUE_SIZE \in Nat /\ QUEUE_SIZE > 0
      /\ accepted \in Nat /\ count \in Nat
      /\ queue \in [0 .. QUEUE_SIZE - 1 -> Task \cup {None}]
  BY SizeAssumption DEF TypeOK, RingType, HistoryType
<1>2. 0 \in 0 .. count - 1 /\ 0 \in 0 .. QUEUE_SIZE
  BY <1>1
<1>3. /\ queue[(head + 0) % QUEUE_SIZE] # None
      /\ queue[(head + 0) % QUEUE_SIZE].argument = accepted - count + 1 + 0
  BY <1>2 DEF RingOrder
<1>4. (head + 0) % QUEUE_SIZE = head
  BY <1>1, <1>2, RingIndex
<1> QED
  BY <1>1, <1>3, <1>4 DEF NextTask

-----------------------------------------------------------------------------
(* Type correctness.  It is not inductive on its own: create's loop index has to *)
(* agree with thread_count, an index must be in range when it is used, a worker  *)
(* in a task must have one, and the ring must have a task at head.               *)

IndexOK ==
  /\ pc[Main] = "create" => thread_count = 0 /\ idx[Main] = 0
  /\ pc[Main] \in {"spawn", "count"} => thread_count = idx[Main]
  /\ pc[Main] = "count" => idx[Main] < THREAD_COUNT
  /\ \A c \in Clients :
       pc[c] \in {"del_cancel", "del_join", "del_spawn", "destroy_cancel"} =>
         idx[c] < thread_count

HeldOK == \A w \in InFlight : task[w] \in Task

IInv == TypeOK /\ RingOrder /\ IndexOK /\ HeldOK

-----------------------------------------------------------------------------
(* Case analysis *)

\* A step is one of the actions of a thread, or changes nothing.
LEMMA NextCases ==
  ASSUME [Next]_vars
  PROVE  \/ UNCHANGED vars
         \/ CreateInit \/ CreateInitFails \/ CreateSpawn \/ CreateCount
         \/ CreateSpawnFails \/ CreateReturns
         \/ \E w \in Workers :
              \/ WorkerLookup(w) \/ WorkerLock(w) \/ WorkerWait(w) \/ WorkerGrab(w)
              \/ WorkerBegin(w) \/ WorkerEnd(w) \/ WorkerLeave(w) \/ WorkerUncount(w)
              \/ WorkerExit(w) \/ CancelInTask(w) \/ CancelInWait(w)
              \/ CancelInLeave(w) \/ SpuriousWake(w)
         \/ \E t \in Threads :
              \/ AddLock(t) \/ AddRefused(t) \/ AddPut(t) \/ AddReturns(t)
              \/ AddCall(t) \/ Undefined(t)
         \/ \E c \in Clients : DelCall(c) \/ DestroyCall(c)
         \/ \E c \in Clients :
              /\ ~Dangling(c)
              /\ \/ DelScan(c) \/ DelCancel(c) \/ DelJoin(c) \/ DelSpawn(c)
                 \/ DelSpawnFails(c) \/ DestroyLock(c) \/ DestroyAgain(c)
                 \/ DestroySet(c) \/ DestroyScan(c) \/ DestroyCancel(c)
                 \/ DestroyJoin(c) \/ DestroyFree(c) \/ DestroyMutex(c)
BY DEF Next, Resting, Step, Whim, ThreadStep, Create, WorkerStep, AddStep, DelStep,
       DestroyStep

\* No action breaks type correctness.
LEMMA TypeStep == IInv /\ [Next]_vars => TypeOK'
<1> SUFFICES ASSUME TypeOK, RingOrder, IndexOK, HeldOK, [Next]_vars PROVE TypeOK'
  BY DEF IInv
<1> USE SizeAssumption, ThreadAssumption, DataAssumption DEF Workers, Threads, TypeOK
<1>CreateInit. ASSUME CreateInit PROVE TypeOK'
  BY <1>CreateInit DEF CreateInit, Goto, ring, control, seats, pthread, client, history,
     ThreadType, RingType, ControlType, SeatType, PthreadType, ClientType, HistoryType,
     Labels
<1>CreateInitFails. ASSUME CreateInitFails PROVE TypeOK'
  BY <1>CreateInitFails DEF CreateInitFails, Goto, ring, seats, pthread, client, history,
     ThreadType, RingType, ControlType, SeatType, PthreadType, ClientType, HistoryType,
     Labels
<1>CreateSpawn. ASSUME CreateSpawn PROVE TypeOK'
  BY <1>CreateSpawn DEF CreateSpawn, ring, control, seats, pthread, client, history,
     ThreadType, RingType, ControlType, SeatType, PthreadType, ClientType, HistoryType,
     Labels
<1>CreateCount. ASSUME CreateCount PROVE TypeOK'
  BY <1>CreateCount DEF CreateCount, Goto, ring, seats, pthread, history, ThreadType,
     RingType, ControlType, SeatType, PthreadType, ClientType, HistoryType, Labels,
     IndexOK
<1>CreateSpawnFails. ASSUME CreateSpawnFails PROVE TypeOK'
  BY <1>CreateSpawnFails DEF CreateSpawnFails, Goto, ring, control, seats, pthread,
     history, ThreadType, RingType, ControlType, SeatType, PthreadType, ClientType,
     HistoryType, Labels
<1>CreateReturns. ASSUME CreateReturns PROVE TypeOK'
  BY <1>CreateReturns DEF CreateReturns, ring, control, seats, pthread, client, history,
     ThreadType, RingType, ControlType, SeatType, PthreadType, ClientType, HistoryType,
     Labels
<1>WorkerLookup. ASSUME NEW w \in Workers, WorkerLookup(w) PROVE TypeOK'
  BY <1>WorkerLookup DEF WorkerLookup, Goto, ring, control, seats, pthread, client,
     history, ThreadType, RingType, ControlType, SeatType, PthreadType, ClientType,
     HistoryType, Labels
<1>WorkerLock. ASSUME NEW w \in Workers, WorkerLock(w) PROVE TypeOK'
  BY <1>WorkerLock DEF WorkerLock, Acquire, Goto, ring, control, seats, pthread, client,
     history, ThreadType, RingType, ControlType, SeatType, PthreadType, ClientType,
     HistoryType, Labels
<1>WorkerWait. ASSUME NEW w \in Workers, WorkerWait(w) PROVE TypeOK'
  BY <1>WorkerWait DEF WorkerWait, Goto, ring, control, seats, pthread, client, history,
     ThreadType, RingType, ControlType, SeatType, PthreadType, ClientType, HistoryType,
     Labels
<1>WorkerGrab. ASSUME NEW w \in Workers, WorkerGrab(w) PROVE TypeOK'
  <2>1. count > 0
    BY <1>WorkerGrab DEF WorkerGrab, MustWait, MustLeave, RingType, ControlType, ALIVE,
       IMMEDIATE_SHUTDOWN, GRACEFUL_SHUTDOWN
  <2>2. NextTask \in Task
    BY <2>1, NextTaskIsTask
  <2>3. RingType'
    BY <1>WorkerGrab, <2>1, AdvanceType DEF WorkerGrab, RingType
  <2>7. NextTask.function_type \in Types
    BY <2>2 DEF Task
  <2>4. slot \in [Workers -> Slot] /\ [slot[w] EXCEPT !.thread_type = NextTask.function_type] \in Slot
    BY <2>7 DEF SeatType, Slot
  <2>5. SeatType'
    BY <1>WorkerGrab, <2>2, <2>4 DEF WorkerGrab, SeatType
  <2>6. ThreadType'
    BY <1>WorkerGrab DEF WorkerGrab, Goto, ThreadType, Labels
  <2> QED
    BY <1>WorkerGrab, <2>3, <2>5, <2>6 DEF WorkerGrab, control, pthread, client, history,
       ControlType, PthreadType, ClientType, HistoryType
<1>WorkerBegin. ASSUME NEW w \in Workers, WorkerBegin(w) PROVE TypeOK'
  <2>1. task[w].func_ptr \in Funcs
    BY <1>WorkerBegin DEF WorkerBegin, HeldOK, InFlight, Task
  <2>2. /\ slot \in [Workers -> Slot]
        /\ [slot[w] EXCEPT !.thread_busy = TRUE, !.thread_func = task[w].func_ptr] \in Slot
    BY <2>1 DEF SeatType, Slot
  <2>3. SeatType'
    BY <1>WorkerBegin, <2>2 DEF WorkerBegin, SeatType
  <2>4. ThreadType'
    BY <1>WorkerBegin DEF WorkerBegin, Goto, ThreadType, Labels
  <2> QED
    BY <1>WorkerBegin, <2>3, <2>4 DEF WorkerBegin, ring, control, pthread, client, history,
       RingType, ControlType, PthreadType, ClientType, HistoryType
<1>WorkerEnd. ASSUME NEW w \in Workers, WorkerEnd(w) PROVE TypeOK'
  <2>1. task[w].argument \in Nat
    BY <1>WorkerEnd DEF WorkerEnd, HeldOK, InFlight, Task
  <2>2. SeatType'
    BY <1>WorkerEnd DEF WorkerEnd, SeatType, Slot, Free
  <2>3. HistoryType'
    BY <1>WorkerEnd, <2>1 DEF WorkerEnd, HistoryType
  <2>4. ThreadType'
    BY <1>WorkerEnd DEF WorkerEnd, Goto, ThreadType, Labels
  <2> QED
    BY <1>WorkerEnd, <2>2, <2>3, <2>4 DEF WorkerEnd, ring, control, pthread, client,
       RingType, ControlType, PthreadType, ClientType
<1>WorkerLeave. ASSUME NEW w \in Workers, WorkerLeave(w) PROVE TypeOK'
  BY <1>WorkerLeave DEF WorkerLeave, Goto, ring, control, seats, pthread, client, history,
     ThreadType, RingType, ControlType, SeatType, PthreadType, ClientType, HistoryType,
     Labels
<1>WorkerUncount. ASSUME NEW w \in Workers, WorkerUncount(w) PROVE TypeOK'
  BY <1>WorkerUncount DEF WorkerUncount, Goto, ring, seats, pthread, client, history,
     ThreadType, RingType, ControlType, SeatType, PthreadType, ClientType, HistoryType,
     Labels
<1>WorkerExit. ASSUME NEW w \in Workers, WorkerExit(w) PROVE TypeOK'
  BY <1>WorkerExit DEF WorkerExit, Goto, ring, control, seats, pthread, client, history,
     ThreadType, RingType, ControlType, SeatType, PthreadType, ClientType, HistoryType,
     Labels
<1>CancelInTask. ASSUME NEW w \in Workers, CancelInTask(w) PROVE TypeOK'
  <2>1. task[w].argument \in Nat
    BY <1>CancelInTask DEF CancelInTask, HeldOK, InFlight, Task
  <2>2. HistoryType'
    BY <1>CancelInTask, <2>1 DEF CancelInTask, HistoryType
  <2>3. ThreadType'
    BY <1>CancelInTask DEF CancelInTask, Goto, ThreadType, Labels
  <2> QED
    BY <1>CancelInTask, <2>2, <2>3 DEF CancelInTask, ring, control, seats, pthread, client,
       RingType, ControlType, SeatType, PthreadType, ClientType
<1>CancelInWait. ASSUME NEW w \in Workers, CancelInWait(w) PROVE TypeOK'
  BY <1>CancelInWait DEF CancelInWait, Acquire, Goto, ring, control, seats, pthread,
     client, history, ThreadType, RingType, ControlType, SeatType, PthreadType,
     ClientType, HistoryType, Labels
<1>CancelInLeave. ASSUME NEW w \in Workers, CancelInLeave(w) PROVE TypeOK'
  BY <1>CancelInLeave DEF CancelInLeave, Goto, ring, control, seats, pthread, client,
     history, ThreadType, RingType, ControlType, SeatType, PthreadType, ClientType,
     HistoryType, Labels
<1>SpuriousWake. ASSUME NEW w \in Workers, SpuriousWake(w) PROVE TypeOK'
  BY <1>SpuriousWake DEF SpuriousWake, Goto, ring, control, seats, pthread, client,
     history, ThreadType, RingType, ControlType, SeatType, PthreadType, ClientType,
     HistoryType, Labels
<1>AddLock. ASSUME NEW t \in Threads, AddLock(t) PROVE TypeOK'
  BY <1>AddLock DEF AddLock, Acquire, Goto, ring, control, seats, pthread, client,
     history, ThreadType, RingType, ControlType, SeatType, PthreadType, ClientType,
     HistoryType, Labels
<1>AddRefused. ASSUME NEW t \in Threads, AddRefused(t) PROVE TypeOK'
  BY <1>AddRefused DEF AddRefused, Goto, ring, control, seats, pthread, client, history,
     ThreadType, RingType, ControlType, SeatType, PthreadType, ClientType, HistoryType,
     Labels
<1>AddPut. ASSUME NEW t \in Threads, AddPut(t) PROVE TypeOK'
  <2>1. RingType' /\ accepted' \in Nat
    BY <1>AddPut, AdvanceType DEF AddPut, RingType, HistoryType, Task, Refused, IsFull
  <2>2. /\ pc \in [Threads -> Labels] /\ [pc EXCEPT ![t] = "add_status"] \in [Threads -> Labels]
        /\ \A w \in Waiters :
             [[pc EXCEPT ![t] = "add_status"] EXCEPT ![w] = "lock"] \in [Threads -> Labels]
    BY DEF ThreadType, Labels, Waiters
  <2>4. \/ pc' = [pc EXCEPT ![t] = "add_status"]
        \/ \E w \in Waiters : pc' = [[pc EXCEPT ![t] = "add_status"] EXCEPT ![w] = "lock"]
    BY <1>AddPut, Zenon DEF AddPut, Signal, Wake
  <2>3. ThreadType'
    BY <1>AddPut, <2>2, <2>4, ZenonT(40) DEF AddPut, ThreadType
  <2> QED
    BY <1>AddPut, <2>1, <2>3 DEF AddPut, control, seats, pthread, client,
       ControlType, SeatType, PthreadType, ClientType, HistoryType
<1>AddReturns. ASSUME NEW t \in Threads, AddReturns(t) PROVE TypeOK'
  BY <1>AddReturns DEF AddReturns, Goto, ring, control, seats, pthread, client, history,
     ThreadType, RingType, ControlType, SeatType, PthreadType, ClientType, HistoryType,
     Labels, Home
<1>AddCall. ASSUME NEW t \in Threads, AddCall(t) PROVE TypeOK'
  <2>1. calls \in [add : Nat, del : Nat, destroy : Nat] /\ calls' = [calls EXCEPT !.add = @ + 1]
    BY <1>AddCall DEF AddCall, ClientType
  <2>2. ClientType'
    BY <1>AddCall, <2>1 DEF AddCall, ClientType
  <2>3. ThreadType'
    BY <1>AddCall DEF AddCall, Goto, ThreadType, Labels
  <2> QED
    BY <1>AddCall, <2>2, <2>3 DEF AddCall, ring, control, seats, pthread, history,
       RingType, ControlType, SeatType, PthreadType, HistoryType
<1>Undefined. ASSUME NEW t \in Threads, Undefined(t) PROVE TypeOK'
  BY <1>Undefined DEF Undefined, ring, control, seats, pthread, client, history,
     ThreadType, RingType, ControlType, SeatType, PthreadType, ClientType, HistoryType,
     Labels
<1>DelScan. ASSUME NEW c \in Clients, DelScan(c) PROVE TypeOK'
  <2>1. pc' = pc \/ (\E l \in {"del_cancel", "idle"} : pc' = [pc EXCEPT ![c] = l])
    BY <1>DelScan, Zenon DEF DelScan, Goto
  <2>2. ThreadType'
    BY <1>DelScan, <2>1 DEF DelScan, ThreadType, Labels
  <2>3. idx' = idx \/ idx' = [idx EXCEPT ![c] = 0] \/ (idx[c] < thread_count /\ idx' = [idx EXCEPT ![c] = @ + 1])
    BY <1>DelScan, Zenon DEF DelScan
  <2>4. ClientType'
    BY <1>DelScan, <2>3 DEF DelScan, ClientType, ControlType
  <2> QED
    BY <1>DelScan, <2>2, <2>4 DEF DelScan, ring, control, seats, pthread, history,
       RingType, ControlType, SeatType, PthreadType, HistoryType
<1>DelCancel. ASSUME NEW c \in Clients, DelCancel(c) PROVE TypeOK'
  BY <1>DelCancel DEF DelCancel, Cancel, Goto, ring, control, seats, history, ThreadType,
     RingType, ControlType, SeatType, PthreadType, ClientType, HistoryType, Labels
<1>DelJoin. ASSUME NEW c \in Clients, DelJoin(c) PROVE TypeOK'
  BY <1>DelJoin DEF DelJoin, Goto, ring, control, client, history, ThreadType, RingType,
     ControlType, SeatType, PthreadType, ClientType, HistoryType, Labels, Slot, Free
<1>DelSpawn. ASSUME NEW c \in Clients, DelSpawn(c) PROVE TypeOK'
  BY <1>DelSpawn DEF DelSpawn, ring, control, client, history, ThreadType, RingType,
     ControlType, SeatType, PthreadType, ClientType, HistoryType, Labels
<1>DelSpawnFails. ASSUME NEW c \in Clients, DelSpawnFails(c) PROVE TypeOK'
  BY <1>DelSpawnFails DEF DelSpawnFails, Goto, ring, control, seats, pthread, client,
     history, ThreadType, RingType, ControlType, SeatType, PthreadType, ClientType,
     HistoryType, Labels
<1>DestroyLock. ASSUME NEW c \in Clients, DestroyLock(c) PROVE TypeOK'
  BY <1>DestroyLock DEF DestroyLock, Acquire, Goto, ring, control, seats, pthread, client,
     history, ThreadType, RingType, ControlType, SeatType, PthreadType, ClientType,
     HistoryType, Labels
<1>DestroyAgain. ASSUME NEW c \in Clients, DestroyAgain(c) PROVE TypeOK'
  BY <1>DestroyAgain DEF DestroyAgain, Goto, ring, control, seats, pthread, history,
     ThreadType, RingType, ControlType, SeatType, PthreadType, ClientType, HistoryType,
     Labels
<1>DestroySet. ASSUME NEW c \in Clients, DestroySet(c) PROVE TypeOK'
  <2>1. ControlType'
    BY <1>DestroySet DEF DestroySet, ControlType, ClientType
  <2>2. ClientType'
    BY <1>DestroySet DEF DestroySet, ClientType
  <2>3. ThreadType'
    BY <1>DestroySet DEF DestroySet, Broadcast, ThreadType, Labels
  <2> QED
    BY <1>DestroySet, <2>1, <2>2, <2>3 DEF DestroySet, ring, seats, pthread, history,
       RingType, SeatType, PthreadType, HistoryType
<1>DestroyScan. ASSUME NEW c \in Clients, DestroyScan(c) PROVE TypeOK'
  <2>1. pc' = pc \/ (\E l \in {"destroy_cancel", "destroy_join"} : pc' = [pc EXCEPT ![c] = l])
    BY <1>DestroyScan, Zenon DEF DestroyScan, Goto
  <2>2. ThreadType'
    BY <1>DestroyScan, <2>1 DEF DestroyScan, ThreadType, Labels
  <2>3. idx' = idx \/ idx' = [idx EXCEPT ![c] = 0] \/ (idx[c] < thread_count /\ idx' = [idx EXCEPT ![c] = @ + 1])
    BY <1>DestroyScan, Zenon DEF DestroyScan
  <2>4. ClientType'
    BY <1>DestroyScan, <2>3 DEF DestroyScan, ClientType, ControlType
  <2> QED
    BY <1>DestroyScan, <2>2, <2>4 DEF DestroyScan, ring, control, seats, pthread, history,
       RingType, ControlType, SeatType, PthreadType, HistoryType
<1>DestroyCancel. ASSUME NEW c \in Clients, DestroyCancel(c) PROVE TypeOK'
  BY <1>DestroyCancel DEF DestroyCancel, Cancel, Goto, ring, control, seats, history,
     ThreadType, RingType, ControlType, SeatType, PthreadType, ClientType, HistoryType,
     Labels, IndexOK
<1>DestroyJoin. ASSUME NEW c \in Clients, DestroyJoin(c) PROVE TypeOK'
  BY <1>DestroyJoin DEF DestroyJoin, ring, control, seats, history, ThreadType, RingType,
     ControlType, SeatType, PthreadType, ClientType, HistoryType, Labels, JoinedAll
<1>DestroyFree. ASSUME NEW c \in Clients, DestroyFree(c) PROVE TypeOK'
  <2>1. pc' = [pc EXCEPT ![c] = "destroy_mutex"] \/ pc' = [pc EXCEPT ![c] = "idle"]
    BY <1>DestroyFree DEF DestroyFree, Goto
  <2>2. ThreadType'
    BY <1>DestroyFree, <2>1 DEF DestroyFree, ThreadType, Labels
  <2>3. ClientType' /\ ControlType'
    BY <1>DestroyFree DEF DestroyFree, ClientType, ControlType
  <2> QED
    BY <1>DestroyFree, <2>2, <2>3 DEF DestroyFree, ring, seats, pthread, history,
       RingType, SeatType, PthreadType, HistoryType
<1>DestroyMutex. ASSUME NEW c \in Clients, DestroyMutex(c) PROVE TypeOK'
  BY <1>DestroyMutex DEF DestroyMutex, Goto, ring, seats, pthread, history, ThreadType,
     RingType, ControlType, SeatType, PthreadType, ClientType, HistoryType, Labels
<1>DelCall. ASSUME NEW c \in Clients, DelCall(c) PROVE TypeOK'
  <2>1. calls \in [add : Nat, del : Nat, destroy : Nat] /\ calls' = [calls EXCEPT !.del = @ + 1]
    BY <1>DelCall DEF DelCall, ClientType
  <2>2. ClientType'
    BY <1>DelCall, <2>1 DEF DelCall, ClientType
  <2>3. ThreadType'
    BY <1>DelCall DEF DelCall, Goto, ThreadType, Labels
  <2> QED
    BY <1>DelCall, <2>2, <2>3 DEF DelCall, ring, control, seats, pthread, history,
       RingType, ControlType, SeatType, PthreadType, HistoryType
<1>DestroyCall. ASSUME NEW c \in Clients, DestroyCall(c) PROVE TypeOK'
  <2>1. calls \in [add : Nat, del : Nat, destroy : Nat] /\ calls' = [calls EXCEPT !.destroy = @ + 1]
    BY <1>DestroyCall DEF DestroyCall, ClientType
  <2>2. ClientType'
    BY <1>DestroyCall, <2>1 DEF DestroyCall, ClientType
  <2>3. ThreadType'
    BY <1>DestroyCall DEF DestroyCall, Goto, ThreadType, Labels
  <2> QED
    BY <1>DestroyCall, <2>2, <2>3 DEF DestroyCall, ring, control, seats, pthread, history,
       RingType, ControlType, SeatType, PthreadType, HistoryType
<1>Unchanged. CASE UNCHANGED vars
  BY <1>Unchanged DEF vars, ring, control, seats, pthread, client, history, ThreadType,
     RingType, ControlType, SeatType, PthreadType, ClientType, HistoryType
<1> QED
  BY NextCases, <1>Unchanged, <1>CreateInit, <1>CreateInitFails, <1>CreateSpawn,
     <1>CreateCount, <1>CreateSpawnFails, <1>CreateReturns, <1>WorkerLookup,
     <1>WorkerLock, <1>WorkerWait, <1>WorkerGrab, <1>WorkerBegin, <1>WorkerEnd,
     <1>WorkerLeave, <1>WorkerUncount, <1>WorkerExit, <1>CancelInTask, <1>CancelInWait,
     <1>CancelInLeave, <1>SpuriousWake, <1>AddLock, <1>AddRefused, <1>AddPut,
     <1>AddReturns, <1>AddCall, <1>Undefined, <1>DelScan, <1>DelCancel, <1>DelJoin,
     <1>DelSpawn, <1>DelSpawnFails, <1>DestroyLock, <1>DestroyAgain, <1>DestroySet,
     <1>DestroyScan, <1>DestroyCancel, <1>DestroyJoin, <1>DestroyFree, <1>DestroyMutex,
     <1>DelCall, <1>DestroyCall

-----------------------------------------------------------------------------
(* What the less simple actions do to the program counters *)

\* threadpool_add moves its caller on and wakes at most one waiting worker.
LEMMA AddPutPc ==
  ASSUME TypeOK, NEW t \in Threads, AddPut(t)
  PROVE  /\ pc[t] = "add_put" /\ pc'[t] = "add_status"
         /\ \A u \in Threads \ {t} : pc'[u] = pc[u] \/ (u \in Waiters /\ pc'[u] = "lock")
<1>1. pc \in [Threads -> Labels] /\ pc[t] = "add_put" /\ Workers \subseteq Threads
  BY DEF TypeOK, ThreadType, AddPut, Threads
<1>2. \/ pc' = [pc EXCEPT ![t] = "add_status"]
      \/ \E w \in Waiters : pc' = [[pc EXCEPT ![t] = "add_status"] EXCEPT ![w] = "lock"]
  BY Zenon DEF AddPut, Signal, Wake
<1> QED
  BY <1>1, <1>2 DEF Waiters

\* threadpool_destroy moves its caller on and wakes every waiting worker.
LEMMA DestroySetPc ==
  ASSUME TypeOK, NEW c \in Clients, DestroySet(c)
  PROVE  /\ pc[c] = "destroy_set" /\ pc'[c] = "destroy_scan"
         /\ \A u \in Threads \ {c} : pc'[u] = IF u \in Waiters THEN "lock" ELSE pc[u]
<1>1. pc \in [Threads -> Labels] /\ pc[c] = "destroy_set" /\ c \in Threads \ Waiters
  BY DEF TypeOK, ThreadType, DestroySet, Threads, Waiters
<1>2. pc' = [u \in Threads |-> IF u \in Waiters THEN "lock"
                               ELSE [pc EXCEPT ![c] = "destroy_scan"][u]]
  BY DEF DestroySet, Broadcast
<1> QED
  BY <1>1, <1>2

-----------------------------------------------------------------------------
(* The ring keeps its order *)

\* Counting on from the advanced index is counting one further from the index.
LEMMA RingShift ==
  ASSUME NEW i \in 0 .. QUEUE_SIZE - 1, NEW k \in 0 .. QUEUE_SIZE - 1
  PROVE  (Advance(i) + k) % QUEUE_SIZE = (i + (k + 1)) % QUEUE_SIZE
<1>1. CASE i + 1 < QUEUE_SIZE
  <2>1. Advance(i) = i + 1
    BY <1>1, SizeAssumption DEF Advance
  <2> QED BY <2>1, SizeAssumption
<1>2. CASE i + 1 = QUEUE_SIZE
  <2>1. Advance(i) = 0
    BY <1>2, SizeAssumption DEF Advance
  <2>2. (i + (k + 1)) % QUEUE_SIZE = k
    BY <1>2, SizeAssumption
  <2>3. (0 + k) % QUEUE_SIZE = k
    BY SizeAssumption
  <2> QED BY <2>1, <2>2, <2>3
<1> QED BY <1>1, <1>2, SizeAssumption

\* Different positions of the ring are different slots.
LEMMA RingDistinct ==
  ASSUME NEW i \in 0 .. QUEUE_SIZE - 1, NEW k \in 0 .. QUEUE_SIZE - 1, NEW j \in 0 .. k - 1
  PROVE  (i + j) % QUEUE_SIZE # (i + k) % QUEUE_SIZE
<1>1. j \in 0 .. QUEUE_SIZE /\ k \in 0 .. QUEUE_SIZE /\ i \in Nat /\ QUEUE_SIZE \in Nat
  BY SizeAssumption
<1>2. (i + j) % QUEUE_SIZE = IF i + j < QUEUE_SIZE THEN i + j ELSE i + j - QUEUE_SIZE
  BY <1>1, RingIndex
<1>3. (i + k) % QUEUE_SIZE = IF i + k < QUEUE_SIZE THEN i + k ELSE i + k - QUEUE_SIZE
  BY <1>1, RingIndex
<1> QED BY <1>1, <1>2, <1>3

\* Only taking a task and accepting one touch the ring, and both keep it in order.
LEMMA RingStep == IInv /\ [Next]_vars => RingOrder'
<1> SUFFICES ASSUME TypeOK, RingOrder, [Next]_vars PROVE RingOrder'
  BY DEF IInv
<1>1. /\ QUEUE_SIZE \in Nat \ {0} /\ head \in 0 .. QUEUE_SIZE - 1 /\ count \in 0 .. QUEUE_SIZE
      /\ tail \in 0 .. QUEUE_SIZE - 1 /\ accepted \in Nat
      /\ queue \in [0 .. QUEUE_SIZE - 1 -> Task \cup {None}]
  BY SizeAssumption DEF TypeOK, RingType, HistoryType
<1>2. CASE UNCHANGED <<ring, accepted>>
  BY <1>2 DEF ring, RingOrder
<1>3. ASSUME NEW w \in Workers, WorkerGrab(w) PROVE RingOrder'
  <2>1. count \in 1 .. QUEUE_SIZE
    BY <1>1, <1>3 DEF WorkerGrab, MustWait, MustLeave, TypeOK, ControlType, ALIVE,
       IMMEDIATE_SHUTDOWN, GRACEFUL_SHUTDOWN
  <2>2. /\ head' = Advance(head) /\ count' = count - 1
        /\ queue' = queue /\ tail' = tail /\ accepted' = accepted
    BY <1>3 DEF WorkerGrab, history
  <2>3. tail' = (head' + count') % QUEUE_SIZE
    <3>1. count - 1 \in 0 .. QUEUE_SIZE - 1 /\ (count - 1) + 1 = count
      BY <2>1, <1>1
    <3>2. (Advance(head) + (count - 1)) % QUEUE_SIZE = (head + ((count - 1) + 1)) % QUEUE_SIZE
      BY <3>1, <1>1, RingShift
    <3> QED BY <2>2, <3>1, <3>2 DEF RingOrder
  <2>4. ASSUME NEW k \in 0 .. count' - 1
        PROVE  /\ queue'[(head' + k) % QUEUE_SIZE] # None
               /\ queue'[(head' + k) % QUEUE_SIZE].argument = accepted' - count' + 1 + k
    <3>1. k \in 0 .. QUEUE_SIZE - 1 /\ k + 1 \in 0 .. count - 1
      BY <2>1, <2>2, <1>1
    <3>2. (head' + k) % QUEUE_SIZE = (head + (k + 1)) % QUEUE_SIZE
      BY <2>2, <3>1, <1>1, RingShift
    <3>3. /\ queue[(head + (k + 1)) % QUEUE_SIZE] # None
          /\ queue[(head + (k + 1)) % QUEUE_SIZE].argument = accepted - count + 1 + (k + 1)
      BY <3>1 DEF RingOrder
    <3>4. accepted - count + 1 + (k + 1) = accepted' - count' + 1 + k
      BY <2>2, <3>1, <1>1
    <3> QED BY <2>2, <3>2, <3>3, <3>4
  <2> QED BY <2>3, <2>4 DEF RingOrder
<1>4. ASSUME NEW t \in Threads, AddPut(t) PROVE RingOrder'
  <2>1. count \in 0 .. QUEUE_SIZE - 1 /\ head' = head /\ count' = count + 1
        /\ tail' = Advance(tail) /\ accepted' = accepted + 1
    BY <1>1, <1>4 DEF AddPut, Refused, IsFull
  <2>2. PICK f \in Funcs, type \in Types :
          queue' = [queue EXCEPT ![tail] = [func_ptr |-> f, argument |-> accepted + 1,
                                            function_type |-> type]]
    BY <1>4 DEF AddPut
  <2>3. [func_ptr |-> f, argument |-> accepted + 1, function_type |-> type] # None
    BY <1>1, DataAssumption DEF Task
  <2>4. tail = (head + count) % QUEUE_SIZE
    BY DEF RingOrder
  <2>5. tail' = (head' + count') % QUEUE_SIZE
    BY <1>1, <2>1, <2>4 DEF Advance
  <2>6. ASSUME NEW k \in 0 .. count' - 1
        PROVE  /\ queue'[(head' + k) % QUEUE_SIZE] # None
               /\ queue'[(head' + k) % QUEUE_SIZE].argument = accepted' - count' + 1 + k
    <3>1. CASE k = count
      <4>1. queue'[tail] = [func_ptr |-> f, argument |-> accepted + 1, function_type |-> type]
        BY <1>1, <2>2
      <4>2. accepted' - count' + 1 + k = accepted + 1
        BY <1>1, <2>1, <3>1
      <4> QED BY <2>1, <2>3, <2>4, <3>1, <4>1, <4>2
    <3>2. CASE k # count
      <4>1. k \in 0 .. count - 1 /\ k \in 0 .. QUEUE_SIZE
        BY <2>1, <3>2, <1>1
      <4>2. (head + k) % QUEUE_SIZE # tail
        BY <1>1, <2>1, <2>4, <4>1, RingDistinct
      <4>3. (head + k) % QUEUE_SIZE \in 0 .. QUEUE_SIZE - 1
        BY <1>1, <4>1
      <4>4. queue'[(head + k) % QUEUE_SIZE] = queue[(head + k) % QUEUE_SIZE]
        BY <1>1, <2>2, <4>2, <4>3
      <4>5. /\ queue[(head + k) % QUEUE_SIZE] # None
            /\ queue[(head + k) % QUEUE_SIZE].argument = accepted - count + 1 + k
        BY <4>1 DEF RingOrder
      <4>6. accepted' - count' + 1 + k = accepted - count + 1 + k
        BY <1>1, <2>1, <4>1
      <4> QED BY <2>1, <4>4, <4>5, <4>6
    <3> QED BY <3>1, <3>2
  <2> QED BY <2>5, <2>6 DEF RingOrder
<1>5. \/ UNCHANGED <<ring, accepted>>
      \/ \E w \in Workers : WorkerGrab(w)
      \/ \E t \in Threads : AddPut(t)
  BY NextCases, ZenonT(40) DEF vars, history, CreateInit, CreateInitFails, CreateSpawn, CreateCount,
     CreateSpawnFails, CreateReturns, WorkerLookup, WorkerLock, WorkerWait, WorkerBegin,
     WorkerEnd, WorkerLeave, WorkerUncount, WorkerExit, CancelInTask, CancelInWait,
     CancelInLeave, SpuriousWake, AddLock, AddRefused, AddReturns, AddCall, Undefined,
     DelScan, DelCancel, DelJoin, DelSpawn, DelSpawnFails, DestroyLock, DestroyAgain,
     DestroySet, DestroyScan, DestroyCancel, DestroyJoin, DestroyFree, DestroyMutex,
     DelCall, DestroyCall, Acquire, Cancel
<1> QED BY <1>2, <1>3, <1>4, <1>5

-----------------------------------------------------------------------------
(* Indices are in range when they are used *)

\* No action takes a loop index out of the range of the worker it stands for.
LEMMA IndexStep == IInv /\ [Next]_vars => IndexOK'
<1> SUFFICES ASSUME TypeOK, IndexOK, [Next]_vars PROVE IndexOK'
  BY DEF IInv
<1> USE SizeAssumption, ThreadAssumption DEF Workers, Threads, TypeOK
<1>CreateInit. ASSUME CreateInit PROVE IndexOK'
  BY <1>CreateInit DEF CreateInit, Goto, ring, control, seats, pthread, client, history,
     IndexOK, ThreadType, ControlType, ClientType
<1>CreateInitFails. ASSUME CreateInitFails PROVE IndexOK'
  BY <1>CreateInitFails DEF CreateInitFails, Goto, ring, seats, pthread, client,
     history, IndexOK, ThreadType, ControlType, ClientType
<1>CreateSpawn. ASSUME CreateSpawn PROVE IndexOK'
  BY <1>CreateSpawn DEF CreateSpawn, ring, control, seats, pthread, client, history,
     IndexOK, ThreadType, ControlType, ClientType
<1>CreateCount. ASSUME CreateCount PROVE IndexOK'
  <2>1. thread_count = idx[Main] /\ idx[Main] \in Nat
    BY <1>CreateCount DEF CreateCount, IndexOK, ClientType
  <2>2. /\ thread_count' = thread_count + 1 /\ idx' = [idx EXCEPT ![Main] = @ + 1]
        /\ pc' = [pc EXCEPT ![Main] = "spawn"]
    BY <1>CreateCount DEF CreateCount, Goto
  <2>3. ASSUME NEW c \in Clients,
               pc'[c] \in {"del_cancel", "del_join", "del_spawn", "destroy_cancel"}
        PROVE  idx'[c] < thread_count'
    BY <2>1, <2>2, <2>3 DEF IndexOK, ThreadType, ClientType
  <2> QED BY <2>1, <2>2, <2>3 DEF IndexOK, ThreadType, ClientType
<1>CreateSpawnFails. ASSUME CreateSpawnFails PROVE IndexOK'
  BY <1>CreateSpawnFails DEF CreateSpawnFails, Goto, ring, control, seats, pthread,
     history, IndexOK, ThreadType, ControlType, ClientType
<1>CreateReturns. ASSUME CreateReturns PROVE IndexOK'
  BY <1>CreateReturns DEF CreateReturns, ring, control, seats, pthread, client, history,
     IndexOK, ThreadType, ControlType, ClientType
<1>WorkerLookup. ASSUME NEW w \in Workers, WorkerLookup(w) PROVE IndexOK'
  BY <1>WorkerLookup DEF WorkerLookup, Goto, ring, control, seats, pthread, client,
     history, IndexOK, ThreadType, ControlType, ClientType
<1>WorkerLock. ASSUME NEW w \in Workers, WorkerLock(w) PROVE IndexOK'
  BY <1>WorkerLock DEF WorkerLock, Acquire, Goto, ring, control, seats, pthread, client,
     history, IndexOK, ThreadType, ControlType, ClientType
<1>WorkerWait. ASSUME NEW w \in Workers, WorkerWait(w) PROVE IndexOK'
  BY <1>WorkerWait DEF WorkerWait, Goto, ring, control, seats, pthread, client, history,
     IndexOK, ThreadType, ControlType, ClientType
<1>WorkerGrab. ASSUME NEW w \in Workers, WorkerGrab(w) PROVE IndexOK'
  BY <1>WorkerGrab DEF WorkerGrab, Goto, control, pthread, client, history, IndexOK,
     ThreadType, ControlType, ClientType
<1>WorkerBegin. ASSUME NEW w \in Workers, WorkerBegin(w) PROVE IndexOK'
  BY <1>WorkerBegin DEF WorkerBegin, Goto, ring, control, pthread, client, history,
     IndexOK, ThreadType, ControlType, ClientType
<1>WorkerEnd. ASSUME NEW w \in Workers, WorkerEnd(w) PROVE IndexOK'
  BY <1>WorkerEnd DEF WorkerEnd, Goto, ring, control, pthread, client, IndexOK,
     ThreadType, ControlType, ClientType
<1>WorkerLeave. ASSUME NEW w \in Workers, WorkerLeave(w) PROVE IndexOK'
  BY <1>WorkerLeave DEF WorkerLeave, Goto, ring, control, seats, pthread, client,
     history, IndexOK, ThreadType, ControlType, ClientType
<1>WorkerUncount. ASSUME NEW w \in Workers, WorkerUncount(w) PROVE IndexOK'
  BY <1>WorkerUncount DEF WorkerUncount, Goto, ring, seats, pthread, client, history,
     IndexOK, ThreadType, ControlType, ClientType
<1>WorkerExit. ASSUME NEW w \in Workers, WorkerExit(w) PROVE IndexOK'
  BY <1>WorkerExit DEF WorkerExit, Goto, ring, control, seats, pthread, client, history,
     IndexOK, ThreadType, ControlType, ClientType
<1>CancelInTask. ASSUME NEW w \in Workers, CancelInTask(w) PROVE IndexOK'
  BY <1>CancelInTask DEF CancelInTask, Goto, ring, control, seats, pthread, client,
     IndexOK, ThreadType, ControlType, ClientType
<1>CancelInWait. ASSUME NEW w \in Workers, CancelInWait(w) PROVE IndexOK'
  BY <1>CancelInWait DEF CancelInWait, Acquire, Goto, ring, control, seats, pthread,
     client, history, IndexOK, ThreadType, ControlType, ClientType
<1>CancelInLeave. ASSUME NEW w \in Workers, CancelInLeave(w) PROVE IndexOK'
  BY <1>CancelInLeave DEF CancelInLeave, Goto, ring, control, seats, pthread, client,
     history, IndexOK, ThreadType, ControlType, ClientType
<1>SpuriousWake. ASSUME NEW w \in Workers, SpuriousWake(w) PROVE IndexOK'
  BY <1>SpuriousWake DEF SpuriousWake, Goto, ring, control, seats, pthread, client,
     history, IndexOK, ThreadType, ControlType, ClientType
<1>AddLock. ASSUME NEW t \in Threads, AddLock(t) PROVE IndexOK'
  BY <1>AddLock DEF AddLock, Acquire, Goto, ring, control, seats, pthread, client,
     history, IndexOK, ThreadType, ControlType, ClientType
<1>AddRefused. ASSUME NEW t \in Threads, AddRefused(t) PROVE IndexOK'
  BY <1>AddRefused DEF AddRefused, Goto, ring, control, seats, pthread, client, history,
     IndexOK, ThreadType, ControlType, ClientType
<1>AddPut. ASSUME NEW t \in Threads, AddPut(t) PROVE IndexOK'
  BY <1>AddPut, AddPutPc DEF AddPut, IndexOK, control, client, ThreadType, Waiters
<1>AddReturns. ASSUME NEW t \in Threads, AddReturns(t) PROVE IndexOK'
  BY <1>AddReturns DEF AddReturns, Goto, ring, control, seats, pthread, client, history,
     IndexOK, ThreadType, ControlType, ClientType, Home
<1>AddCall. ASSUME NEW t \in Threads, AddCall(t) PROVE IndexOK'
  BY <1>AddCall DEF AddCall, Goto, ring, control, seats, pthread, history, IndexOK,
     ThreadType, ControlType, ClientType
<1>Undefined. ASSUME NEW t \in Threads, Undefined(t) PROVE IndexOK'
  BY <1>Undefined DEF Undefined, ring, control, seats, pthread, client, history,
     IndexOK, ThreadType, ControlType, ClientType
<1>DelScan. ASSUME NEW c \in Clients, DelScan(c) PROVE IndexOK'
  BY <1>DelScan DEF DelScan, Goto, ring, control, seats, pthread, history, IndexOK,
     ThreadType, ControlType, ClientType
<1>DelCancel. ASSUME NEW c \in Clients, DelCancel(c) PROVE IndexOK'
  BY <1>DelCancel DEF DelCancel, Cancel, Goto, ring, control, seats, history, IndexOK,
     ThreadType, ControlType, ClientType
<1>DelJoin. ASSUME NEW c \in Clients, DelJoin(c) PROVE IndexOK'
  BY <1>DelJoin DEF DelJoin, Goto, ring, control, client, history, IndexOK, ThreadType,
     ControlType, ClientType
<1>DelSpawn. ASSUME NEW c \in Clients, DelSpawn(c) PROVE IndexOK'
  BY <1>DelSpawn DEF DelSpawn, ring, control, client, history, IndexOK, ThreadType,
     ControlType, ClientType
<1>DelSpawnFails. ASSUME NEW c \in Clients, DelSpawnFails(c) PROVE IndexOK'
  BY <1>DelSpawnFails DEF DelSpawnFails, Goto, ring, control, seats, pthread, client,
     history, IndexOK, ThreadType, ControlType, ClientType
<1>DestroyLock. ASSUME NEW c \in Clients, DestroyLock(c) PROVE IndexOK'
  BY <1>DestroyLock DEF DestroyLock, Acquire, Goto, ring, control, seats, pthread,
     client, history, IndexOK, ThreadType, ControlType, ClientType
<1>DestroyAgain. ASSUME NEW c \in Clients, DestroyAgain(c) PROVE IndexOK'
  BY <1>DestroyAgain DEF DestroyAgain, Goto, ring, control, seats, pthread, history,
     IndexOK, ThreadType, ControlType, ClientType
<1>DestroySet. ASSUME NEW c \in Clients, DestroySet(c) PROVE IndexOK'
  BY <1>DestroySet, DestroySetPc DEF DestroySet, IndexOK, ThreadType, ClientType, Waiters
<1>DestroyScan. ASSUME NEW c \in Clients, DestroyScan(c) PROVE IndexOK'
  <2>1. CASE shutdown = IMMEDIATE_SHUTDOWN /\ idx[c] < thread_count
    <3>1. \/ pc' = [pc EXCEPT ![c] = "destroy_cancel"] /\ idx' = idx
          \/ pc' = pc /\ idx' = [idx EXCEPT ![c] = @ + 1]
      BY <1>DestroyScan, <2>1 DEF DestroyScan, Goto
    <3> QED
      BY <1>DestroyScan, <2>1, <3>1 DEF DestroyScan, IndexOK, control, ThreadType,
         ClientType
  <2>2. CASE ~(shutdown = IMMEDIATE_SHUTDOWN /\ idx[c] < thread_count)
    BY <1>DestroyScan, <2>2 DEF DestroyScan, IndexOK, Goto, control, ThreadType, ClientType
  <2> QED BY <2>1, <2>2
<1>DestroyCancel. ASSUME NEW c \in Clients, DestroyCancel(c) PROVE IndexOK'
  BY <1>DestroyCancel DEF DestroyCancel, Cancel, Goto, ring, control, seats, history,
     IndexOK, ThreadType, ControlType, ClientType
<1>DestroyJoin. ASSUME NEW c \in Clients, DestroyJoin(c) PROVE IndexOK'
  BY <1>DestroyJoin DEF DestroyJoin, ring, control, seats, history, IndexOK, ThreadType,
     ControlType, ClientType, JoinedAll
<1>DestroyFree. ASSUME NEW c \in Clients, DestroyFree(c) PROVE IndexOK'
  BY <1>DestroyFree DEF DestroyFree, Goto, ring, seats, pthread, history, IndexOK,
     ThreadType, ControlType, ClientType
<1>DestroyMutex. ASSUME NEW c \in Clients, DestroyMutex(c) PROVE IndexOK'
  BY <1>DestroyMutex DEF DestroyMutex, Goto, ring, seats, pthread, history, IndexOK,
     ThreadType, ControlType, ClientType
<1>DelCall. ASSUME NEW c \in Clients, DelCall(c) PROVE IndexOK'
  BY <1>DelCall DEF DelCall, Goto, ring, control, seats, pthread, history, IndexOK,
     ThreadType, ControlType, ClientType
<1>DestroyCall. ASSUME NEW c \in Clients, DestroyCall(c) PROVE IndexOK'
  BY <1>DestroyCall DEF DestroyCall, Goto, ring, control, seats, pthread, history,
     IndexOK, ThreadType, ControlType, ClientType
<1>Unchanged. CASE UNCHANGED vars
  BY <1>Unchanged DEF vars, control, client, IndexOK
<1> QED
  BY NextCases, <1>Unchanged, <1>CreateInit, <1>CreateInitFails, <1>CreateSpawn,
     <1>CreateCount, <1>CreateSpawnFails, <1>CreateReturns, <1>WorkerLookup,
     <1>WorkerLock, <1>WorkerWait, <1>WorkerGrab, <1>WorkerBegin, <1>WorkerEnd,
     <1>WorkerLeave, <1>WorkerUncount, <1>WorkerExit, <1>CancelInTask, <1>CancelInWait,
     <1>CancelInLeave, <1>SpuriousWake, <1>AddLock, <1>AddRefused, <1>AddPut,
     <1>AddReturns, <1>AddCall, <1>Undefined, <1>DelScan, <1>DelCancel, <1>DelJoin,
     <1>DelSpawn, <1>DelSpawnFails, <1>DestroyLock, <1>DestroyAgain, <1>DestroySet,
     <1>DestroyScan, <1>DestroyCancel, <1>DestroyJoin, <1>DestroyFree, <1>DestroyMutex,
     <1>DelCall, <1>DestroyCall

-----------------------------------------------------------------------------
(* A worker in a task has one *)

\* A worker enters its task with the task it took and clears it when it leaves.
LEMMA HeldStep == IInv /\ [Next]_vars => HeldOK'
<1> SUFFICES ASSUME TypeOK, RingOrder, HeldOK, [Next]_vars PROVE HeldOK'
  BY DEF IInv
<1> USE ThreadAssumption DEF Workers, Threads, TypeOK
<1>CreateInit. ASSUME CreateInit PROVE HeldOK'
  BY <1>CreateInit DEF CreateInit, Goto, ring, control, seats, pthread, client, history,
     HeldOK, InFlight, ThreadType, SeatType
<1>CreateInitFails. ASSUME CreateInitFails PROVE HeldOK'
  BY <1>CreateInitFails DEF CreateInitFails, Goto, ring, seats, pthread, client,
     history, HeldOK, InFlight, ThreadType, SeatType
<1>CreateSpawn. ASSUME CreateSpawn PROVE HeldOK'
  BY <1>CreateSpawn DEF CreateSpawn, ring, control, seats, pthread, client, history,
     HeldOK, InFlight, ThreadType, SeatType
<1>CreateCount. ASSUME CreateCount PROVE HeldOK'
  BY <1>CreateCount DEF CreateCount, Goto, ring, seats, pthread, history, HeldOK,
     InFlight, ThreadType, SeatType
<1>CreateSpawnFails. ASSUME CreateSpawnFails PROVE HeldOK'
  BY <1>CreateSpawnFails DEF CreateSpawnFails, Goto, ring, control, seats, pthread,
     history, HeldOK, InFlight, ThreadType, SeatType
<1>CreateReturns. ASSUME CreateReturns PROVE HeldOK'
  BY <1>CreateReturns DEF CreateReturns, ring, control, seats, pthread, client, history,
     HeldOK, InFlight, ThreadType, SeatType
<1>WorkerLookup. ASSUME NEW w \in Workers, WorkerLookup(w) PROVE HeldOK'
  BY <1>WorkerLookup DEF WorkerLookup, Goto, ring, control, seats, pthread, client,
     history, HeldOK, InFlight, ThreadType, SeatType
<1>WorkerLock. ASSUME NEW w \in Workers, WorkerLock(w) PROVE HeldOK'
  BY <1>WorkerLock DEF WorkerLock, Acquire, Goto, ring, control, seats, pthread, client,
     history, HeldOK, InFlight, ThreadType, SeatType
<1>WorkerWait. ASSUME NEW w \in Workers, WorkerWait(w) PROVE HeldOK'
  BY <1>WorkerWait DEF WorkerWait, Goto, ring, control, seats, pthread, client, history,
     HeldOK, InFlight, ThreadType, SeatType
<1>WorkerGrab. ASSUME NEW w \in Workers, WorkerGrab(w) PROVE HeldOK'
  <2>1. count > 0
    BY <1>WorkerGrab DEF WorkerGrab, MustWait, MustLeave, RingType, ControlType, ALIVE,
       IMMEDIATE_SHUTDOWN, GRACEFUL_SHUTDOWN
  <2>2. NextTask \in Task
    BY <2>1, NextTaskIsTask
  <2> QED
    BY <1>WorkerGrab, <2>2 DEF WorkerGrab, Goto, HeldOK, InFlight, ThreadType, SeatType
<1>WorkerBegin. ASSUME NEW w \in Workers, WorkerBegin(w) PROVE HeldOK'
  BY <1>WorkerBegin DEF WorkerBegin, Goto, ring, control, pthread, client, history,
     HeldOK, InFlight, ThreadType, SeatType
<1>WorkerEnd. ASSUME NEW w \in Workers, WorkerEnd(w) PROVE HeldOK'
  BY <1>WorkerEnd DEF WorkerEnd, Goto, ring, control, pthread, client, HeldOK, InFlight,
     ThreadType, SeatType
<1>WorkerLeave. ASSUME NEW w \in Workers, WorkerLeave(w) PROVE HeldOK'
  BY <1>WorkerLeave DEF WorkerLeave, Goto, ring, control, seats, pthread, client,
     history, HeldOK, InFlight, ThreadType, SeatType
<1>WorkerUncount. ASSUME NEW w \in Workers, WorkerUncount(w) PROVE HeldOK'
  BY <1>WorkerUncount DEF WorkerUncount, Goto, ring, seats, pthread, client, history,
     HeldOK, InFlight, ThreadType, SeatType
<1>WorkerExit. ASSUME NEW w \in Workers, WorkerExit(w) PROVE HeldOK'
  BY <1>WorkerExit DEF WorkerExit, Goto, ring, control, seats, pthread, client, history,
     HeldOK, InFlight, ThreadType, SeatType
<1>CancelInTask. ASSUME NEW w \in Workers, CancelInTask(w) PROVE HeldOK'
  BY <1>CancelInTask DEF CancelInTask, Goto, ring, control, seats, pthread, client,
     HeldOK, InFlight, ThreadType, SeatType
<1>CancelInWait. ASSUME NEW w \in Workers, CancelInWait(w) PROVE HeldOK'
  BY <1>CancelInWait DEF CancelInWait, Acquire, Goto, ring, control, seats, pthread,
     client, history, HeldOK, InFlight, ThreadType, SeatType
<1>CancelInLeave. ASSUME NEW w \in Workers, CancelInLeave(w) PROVE HeldOK'
  BY <1>CancelInLeave DEF CancelInLeave, Goto, ring, control, seats, pthread, client,
     history, HeldOK, InFlight, ThreadType, SeatType
<1>SpuriousWake. ASSUME NEW w \in Workers, SpuriousWake(w) PROVE HeldOK'
  BY <1>SpuriousWake DEF SpuriousWake, Goto, ring, control, seats, pthread, client,
     history, HeldOK, InFlight, ThreadType, SeatType
<1>AddLock. ASSUME NEW t \in Threads, AddLock(t) PROVE HeldOK'
  BY <1>AddLock DEF AddLock, Acquire, Goto, ring, control, seats, pthread, client,
     history, HeldOK, InFlight, ThreadType, SeatType
<1>AddRefused. ASSUME NEW t \in Threads, AddRefused(t) PROVE HeldOK'
  BY <1>AddRefused DEF AddRefused, Goto, ring, control, seats, pthread, client, history,
     HeldOK, InFlight, ThreadType, SeatType
<1>AddPut. ASSUME NEW t \in Threads, AddPut(t) PROVE HeldOK'
  BY <1>AddPut, AddPutPc DEF AddPut, HeldOK, InFlight, seats, ThreadType, Waiters
<1>AddReturns. ASSUME NEW t \in Threads, AddReturns(t) PROVE HeldOK'
  BY <1>AddReturns DEF AddReturns, Goto, ring, control, seats, pthread, client, history,
     HeldOK, InFlight, ThreadType, SeatType, Home
<1>AddCall. ASSUME NEW t \in Threads, AddCall(t) PROVE HeldOK'
  BY <1>AddCall DEF AddCall, Goto, ring, control, seats, pthread, history, HeldOK,
     InFlight, ThreadType, SeatType
<1>Undefined. ASSUME NEW t \in Threads, Undefined(t) PROVE HeldOK'
  BY <1>Undefined DEF Undefined, ring, control, seats, pthread, client, history, HeldOK,
     InFlight, ThreadType, SeatType
<1>DelScan. ASSUME NEW c \in Clients, DelScan(c) PROVE HeldOK'
  BY <1>DelScan DEF DelScan, Goto, ring, control, seats, pthread, history, HeldOK,
     InFlight, ThreadType, SeatType
<1>DelCancel. ASSUME NEW c \in Clients, DelCancel(c) PROVE HeldOK'
  BY <1>DelCancel DEF DelCancel, Cancel, Goto, ring, control, seats, history, HeldOK,
     InFlight, ThreadType, SeatType
<1>DelJoin. ASSUME NEW c \in Clients, DelJoin(c) PROVE HeldOK'
  BY <1>DelJoin DEF DelJoin, Goto, ring, control, client, history, HeldOK, InFlight,
     ThreadType, SeatType
<1>DelSpawn. ASSUME NEW c \in Clients, DelSpawn(c) PROVE HeldOK'
  BY <1>DelSpawn DEF DelSpawn, ring, control, client, history, HeldOK, InFlight,
     ThreadType, SeatType
<1>DelSpawnFails. ASSUME NEW c \in Clients, DelSpawnFails(c) PROVE HeldOK'
  BY <1>DelSpawnFails DEF DelSpawnFails, Goto, ring, control, seats, pthread, client,
     history, HeldOK, InFlight, ThreadType, SeatType
<1>DestroyLock. ASSUME NEW c \in Clients, DestroyLock(c) PROVE HeldOK'
  BY <1>DestroyLock DEF DestroyLock, Acquire, Goto, ring, control, seats, pthread,
     client, history, HeldOK, InFlight, ThreadType, SeatType
<1>DestroyAgain. ASSUME NEW c \in Clients, DestroyAgain(c) PROVE HeldOK'
  BY <1>DestroyAgain DEF DestroyAgain, Goto, ring, control, seats, pthread, history,
     HeldOK, InFlight, ThreadType, SeatType
<1>DestroySet. ASSUME NEW c \in Clients, DestroySet(c) PROVE HeldOK'
  BY <1>DestroySet, DestroySetPc DEF DestroySet, HeldOK, InFlight, seats, Waiters
<1>DestroyScan. ASSUME NEW c \in Clients, DestroyScan(c) PROVE HeldOK'
  <2>1. pc' = pc \/ (\E l \in Labels \ {"begin", "run", "add_lock", "add_put", "add_status"} :
                        pc' = [pc EXCEPT ![c] = l])
    BY <1>DestroyScan DEF DestroyScan, Goto, Labels
  <2> QED BY <1>DestroyScan, <2>1 DEF DestroyScan, HeldOK, InFlight, seats, ThreadType
<1>DestroyCancel. ASSUME NEW c \in Clients, DestroyCancel(c) PROVE HeldOK'
  BY <1>DestroyCancel DEF DestroyCancel, Cancel, Goto, ring, control, seats, history,
     HeldOK, InFlight, ThreadType, SeatType
<1>DestroyJoin. ASSUME NEW c \in Clients, DestroyJoin(c) PROVE HeldOK'
  BY <1>DestroyJoin DEF DestroyJoin, ring, control, seats, history, HeldOK, InFlight,
     ThreadType, SeatType
<1>DestroyFree. ASSUME NEW c \in Clients, DestroyFree(c) PROVE HeldOK'
  <2>1. pc' = pc \/ (\E l \in Labels \ {"begin", "run", "add_lock", "add_put", "add_status"} :
                        pc' = [pc EXCEPT ![c] = l])
    BY <1>DestroyFree DEF DestroyFree, Goto, Labels
  <2> QED BY <1>DestroyFree, <2>1 DEF DestroyFree, HeldOK, InFlight, seats, ThreadType
<1>DestroyMutex. ASSUME NEW c \in Clients, DestroyMutex(c) PROVE HeldOK'
  BY <1>DestroyMutex DEF DestroyMutex, Goto, ring, seats, pthread, history, HeldOK,
     InFlight, ThreadType, SeatType
<1>DelCall. ASSUME NEW c \in Clients, DelCall(c) PROVE HeldOK'
  BY <1>DelCall DEF DelCall, Goto, ring, control, seats, pthread, history, HeldOK,
     InFlight, ThreadType, SeatType
<1>DestroyCall. ASSUME NEW c \in Clients, DestroyCall(c) PROVE HeldOK'
  BY <1>DestroyCall DEF DestroyCall, Goto, ring, control, seats, pthread, history,
     HeldOK, InFlight, ThreadType, SeatType
<1>Unchanged. CASE UNCHANGED vars
  BY <1>Unchanged DEF vars, seats, HeldOK, InFlight
<1> QED
  BY NextCases, <1>Unchanged, <1>CreateInit, <1>CreateInitFails, <1>CreateSpawn,
     <1>CreateCount, <1>CreateSpawnFails, <1>CreateReturns, <1>WorkerLookup,
     <1>WorkerLock, <1>WorkerWait, <1>WorkerGrab, <1>WorkerBegin, <1>WorkerEnd,
     <1>WorkerLeave, <1>WorkerUncount, <1>WorkerExit, <1>CancelInTask, <1>CancelInWait,
     <1>CancelInLeave, <1>SpuriousWake, <1>AddLock, <1>AddRefused, <1>AddPut,
     <1>AddReturns, <1>AddCall, <1>Undefined, <1>DelScan, <1>DelCancel, <1>DelJoin,
     <1>DelSpawn, <1>DelSpawnFails, <1>DestroyLock, <1>DestroyAgain, <1>DestroySet,
     <1>DestroyScan, <1>DestroyCancel, <1>DestroyJoin, <1>DestroyFree, <1>DestroyMutex,
     <1>DelCall, <1>DestroyCall

\* The invariant holds when threadpool_create is entered.
LEMMA IInvInit == Init => IInv
<1> SUFFICES ASSUME Init PROVE IInv
  OBVIOUS
<1> USE SizeAssumption, ThreadAssumption, DataAssumption DEF Workers, Threads
<1>1. TypeOK
  BY DEF Init, TypeOK, ThreadType, RingType, ControlType, SeatType, PthreadType, ClientType,
     HistoryType, Labels, Slot, Free, ALIVE
<1>2. RingOrder
  BY DEF Init, RingOrder
<1>3. IndexOK /\ HeldOK
  BY DEF Init, IndexOK, HeldOK, InFlight
<1> QED BY <1>1, <1>2, <1>3 DEF IInv

\* The invariant is inductive.
LEMMA IInvStep == IInv /\ [Next]_vars => IInv'
BY TypeStep, RingStep, IndexStep, HeldStep DEF IInv

\* The inductive invariant holds in every reachable state.
THEOREM Invariant == Spec => []IInv
BY IInvInit, IInvStep, PTL DEF Spec

\* Every variable keeps its type: in particular head, tail and count never leave the
\* ring, whatever the clients do.
THEOREM TypeCorrect == Spec => []TypeOK
<1>1. IInv => TypeOK BY DEF IInv
<1> QED BY <1>1, Invariant, PTL

\* The ring always holds the tasks accepted last, oldest first.
THEOREM RingInOrder == Spec => []RingOrder
<1>1. IInv => RingOrder BY DEF IInv
<1> QED BY <1>1, Invariant, PTL

-----------------------------------------------------------------------------
(* Mutual exclusion *)

\* A thread enters a critical section only with the mutex, and nobody takes the mutex
\* from it.
LEMMA MutexStep == TypeOK /\ MutualExclusion /\ [Next]_vars => MutualExclusion'
<1> SUFFICES ASSUME TypeOK, MutualExclusion, [Next]_vars PROVE MutualExclusion'
  OBVIOUS
<1> USE ThreadAssumption DEF Workers, Threads, TypeOK, ThreadType, MutualExclusion, Critical
<1>CreateInit. ASSUME CreateInit PROVE MutualExclusion'
  BY <1>CreateInit DEF CreateInit, Goto, ring, control, seats, pthread, client, history,
     Labels
<1>CreateInitFails. ASSUME CreateInitFails PROVE MutualExclusion'
  BY <1>CreateInitFails DEF CreateInitFails, Goto, ring, seats, pthread, client, history,
     Labels
<1>CreateSpawn. ASSUME CreateSpawn PROVE MutualExclusion'
  BY <1>CreateSpawn DEF CreateSpawn, ring, control, seats, pthread, client, history,
     Labels
<1>CreateCount. ASSUME CreateCount PROVE MutualExclusion'
  BY <1>CreateCount DEF CreateCount, Goto, ring, seats, pthread, history, Labels
<1>CreateSpawnFails. ASSUME CreateSpawnFails PROVE MutualExclusion'
  BY <1>CreateSpawnFails DEF CreateSpawnFails, Goto, ring, control, seats, pthread,
     history, Labels
<1>CreateReturns. ASSUME CreateReturns PROVE MutualExclusion'
  BY <1>CreateReturns DEF CreateReturns, ring, control, seats, pthread, client, history,
     Labels
<1>WorkerLookup. ASSUME NEW w \in Workers, WorkerLookup(w) PROVE MutualExclusion'
  BY <1>WorkerLookup DEF WorkerLookup, Goto, ring, control, seats, pthread, client,
     history, Labels
<1>WorkerLock. ASSUME NEW w \in Workers, WorkerLock(w) PROVE MutualExclusion'
  BY <1>WorkerLock DEF WorkerLock, Acquire, Goto, ring, control, seats, pthread, client,
     history, Labels
<1>WorkerWait. ASSUME NEW w \in Workers, WorkerWait(w) PROVE MutualExclusion'
  BY <1>WorkerWait DEF WorkerWait, Goto, ring, control, seats, pthread, client, history,
     Labels
<1>WorkerGrab. ASSUME NEW w \in Workers, WorkerGrab(w) PROVE MutualExclusion'
  BY <1>WorkerGrab DEF WorkerGrab, Goto, control, pthread, client, history, Labels
<1>WorkerBegin. ASSUME NEW w \in Workers, WorkerBegin(w) PROVE MutualExclusion'
  BY <1>WorkerBegin DEF WorkerBegin, Goto, ring, control, pthread, client, history, Labels
<1>WorkerEnd. ASSUME NEW w \in Workers, WorkerEnd(w) PROVE MutualExclusion'
  BY <1>WorkerEnd DEF WorkerEnd, Goto, ring, control, pthread, client, Labels
<1>WorkerLeave. ASSUME NEW w \in Workers, WorkerLeave(w) PROVE MutualExclusion'
  BY <1>WorkerLeave DEF WorkerLeave, Goto, ring, control, seats, pthread, client, history,
     Labels
<1>WorkerUncount. ASSUME NEW w \in Workers, WorkerUncount(w) PROVE MutualExclusion'
  BY <1>WorkerUncount DEF WorkerUncount, Goto, ring, seats, pthread, client, history,
     Labels
<1>WorkerExit. ASSUME NEW w \in Workers, WorkerExit(w) PROVE MutualExclusion'
  BY <1>WorkerExit DEF WorkerExit, Goto, ring, control, seats, pthread, client, history,
     Labels
<1>CancelInTask. ASSUME NEW w \in Workers, CancelInTask(w) PROVE MutualExclusion'
  BY <1>CancelInTask DEF CancelInTask, Goto, ring, control, seats, pthread, client, Labels
<1>CancelInWait. ASSUME NEW w \in Workers, CancelInWait(w) PROVE MutualExclusion'
  BY <1>CancelInWait DEF CancelInWait, Acquire, Goto, ring, control, seats, pthread,
     client, history, Labels
<1>CancelInLeave. ASSUME NEW w \in Workers, CancelInLeave(w) PROVE MutualExclusion'
  BY <1>CancelInLeave DEF CancelInLeave, Goto, ring, control, seats, pthread, client,
     history, Labels
<1>SpuriousWake. ASSUME NEW w \in Workers, SpuriousWake(w) PROVE MutualExclusion'
  BY <1>SpuriousWake DEF SpuriousWake, Goto, ring, control, seats, pthread, client,
     history, Labels
<1>AddLock. ASSUME NEW t \in Threads, AddLock(t) PROVE MutualExclusion'
  BY <1>AddLock DEF AddLock, Acquire, Goto, ring, control, seats, pthread, client,
     history, Labels
<1>AddRefused. ASSUME NEW t \in Threads, AddRefused(t) PROVE MutualExclusion'
  BY <1>AddRefused DEF AddRefused, Goto, ring, control, seats, pthread, client, history,
     Labels
<1>AddPut. ASSUME NEW t \in Threads, AddPut(t) PROVE MutualExclusion'
  BY <1>AddPut, AddPutPc DEF AddPut
<1>AddReturns. ASSUME NEW t \in Threads, AddReturns(t) PROVE MutualExclusion'
  BY <1>AddReturns DEF AddReturns, Goto, ring, control, seats, pthread, client, history,
     Labels, Home
<1>AddCall. ASSUME NEW t \in Threads, AddCall(t) PROVE MutualExclusion'
  BY <1>AddCall DEF AddCall, Goto, ring, control, seats, pthread, history, Labels
<1>Undefined. ASSUME NEW t \in Threads, Undefined(t) PROVE MutualExclusion'
  BY <1>Undefined DEF Undefined, ring, control, seats, pthread, client, history, Labels
<1>DelScan. ASSUME NEW c \in Clients, DelScan(c) PROVE MutualExclusion'
  BY <1>DelScan DEF DelScan, Goto, ring, control, seats, pthread, history, Labels
<1>DelCancel. ASSUME NEW c \in Clients, DelCancel(c) PROVE MutualExclusion'
  BY <1>DelCancel DEF DelCancel, Cancel, Goto, ring, control, seats, history, Labels
<1>DelJoin. ASSUME NEW c \in Clients, DelJoin(c) PROVE MutualExclusion'
  BY <1>DelJoin DEF DelJoin, Goto, ring, control, client, history, Labels
<1>DelSpawn. ASSUME NEW c \in Clients, DelSpawn(c) PROVE MutualExclusion'
  BY <1>DelSpawn DEF DelSpawn, ring, control, client, history, Labels
<1>DelSpawnFails. ASSUME NEW c \in Clients, DelSpawnFails(c) PROVE MutualExclusion'
  BY <1>DelSpawnFails DEF DelSpawnFails, Goto, ring, control, seats, pthread, client,
     history, Labels
<1>DestroyLock. ASSUME NEW c \in Clients, DestroyLock(c) PROVE MutualExclusion'
  BY <1>DestroyLock DEF DestroyLock, Acquire, Goto, ring, control, seats, pthread, client,
     history, Labels
<1>DestroyAgain. ASSUME NEW c \in Clients, DestroyAgain(c) PROVE MutualExclusion'
  BY <1>DestroyAgain DEF DestroyAgain, Goto, ring, control, seats, pthread, history,
     Labels
<1>DestroySet. ASSUME NEW c \in Clients, DestroySet(c) PROVE MutualExclusion'
  BY <1>DestroySet, DestroySetPc DEF DestroySet
<1>DestroyScan. ASSUME NEW c \in Clients, DestroyScan(c) PROVE MutualExclusion'
  BY <1>DestroyScan DEF DestroyScan, Goto, ring, control, seats, pthread, history, Labels
<1>DestroyCancel. ASSUME NEW c \in Clients, DestroyCancel(c) PROVE MutualExclusion'
  BY <1>DestroyCancel DEF DestroyCancel, Cancel, Goto, ring, control, seats, history,
     Labels
<1>DestroyJoin. ASSUME NEW c \in Clients, DestroyJoin(c) PROVE MutualExclusion'
  BY <1>DestroyJoin DEF DestroyJoin, ring, control, seats, history, Labels
<1>DestroyFree. ASSUME NEW c \in Clients, DestroyFree(c) PROVE MutualExclusion'
  BY <1>DestroyFree DEF DestroyFree, Goto, ring, seats, pthread, history, Labels
<1>DestroyMutex. ASSUME NEW c \in Clients, DestroyMutex(c) PROVE MutualExclusion'
  BY <1>DestroyMutex DEF DestroyMutex, Goto, ring, seats, pthread, history, Labels
<1>DelCall. ASSUME NEW c \in Clients, DelCall(c) PROVE MutualExclusion'
  BY <1>DelCall DEF DelCall, Goto, ring, control, seats, pthread, history, Labels
<1>DestroyCall. ASSUME NEW c \in Clients, DestroyCall(c) PROVE MutualExclusion'
  BY <1>DestroyCall DEF DestroyCall, Goto, ring, control, seats, pthread, history, Labels
<1>Unchanged. CASE UNCHANGED vars
  BY <1>Unchanged DEF vars
<1> QED
  BY NextCases, <1>Unchanged, <1>CreateInit, <1>CreateInitFails, <1>CreateSpawn,
     <1>CreateCount, <1>CreateSpawnFails, <1>CreateReturns, <1>WorkerLookup,
     <1>WorkerLock, <1>WorkerWait, <1>WorkerGrab, <1>WorkerBegin, <1>WorkerEnd,
     <1>WorkerLeave, <1>WorkerUncount, <1>WorkerExit, <1>CancelInTask, <1>CancelInWait,
     <1>CancelInLeave, <1>SpuriousWake, <1>AddLock, <1>AddRefused, <1>AddPut,
     <1>AddReturns, <1>AddCall, <1>Undefined, <1>DelScan, <1>DelCancel, <1>DelJoin,
     <1>DelSpawn, <1>DelSpawnFails, <1>DestroyLock, <1>DestroyAgain, <1>DestroySet,
     <1>DestroyScan, <1>DestroyCancel, <1>DestroyJoin, <1>DestroyFree, <1>DestroyMutex,
     <1>DelCall, <1>DestroyCall

\* At most one thread is in a critical section, and it owns the mutex, even when
\* threads die or return with the mutex in their hands.
THEOREM Exclusion == Spec => []MutualExclusion
<1>1. Init => MutualExclusion
  BY ThreadAssumption DEF Init, MutualExclusion, Critical, Threads
<1> QED BY <1>1, MutexStep, TypeCorrect, PTL DEF Spec

-----------------------------------------------------------------------------
(* A shutdown leaves nobody asleep *)

\* A worker falls asleep only while the pool is alive, and the broadcast wakes the
\* sleepers in the very step that ends its life.
LEMMA WakeStep == TypeOK /\ ShutdownWakesAll /\ [Next]_vars => ShutdownWakesAll'
<1> SUFFICES ASSUME TypeOK, ShutdownWakesAll, [Next]_vars PROVE ShutdownWakesAll'
  OBVIOUS
<1> USE ThreadAssumption DEF Workers, Threads, TypeOK, ThreadType, ShutdownWakesAll, Waiters
<1>CreateInit. ASSUME CreateInit PROVE ShutdownWakesAll'
  BY <1>CreateInit DEF CreateInit, Goto, ring, control, seats, pthread, client, history,
     Labels
<1>CreateInitFails. ASSUME CreateInitFails PROVE ShutdownWakesAll'
  BY <1>CreateInitFails DEF CreateInitFails, Goto, ring, seats, pthread, client, history,
     Labels
<1>CreateSpawn. ASSUME CreateSpawn PROVE ShutdownWakesAll'
  BY <1>CreateSpawn DEF CreateSpawn, ring, control, seats, pthread, client, history,
     Labels
<1>CreateCount. ASSUME CreateCount PROVE ShutdownWakesAll'
  BY <1>CreateCount DEF CreateCount, Goto, ring, seats, pthread, history, Labels
<1>CreateSpawnFails. ASSUME CreateSpawnFails PROVE ShutdownWakesAll'
  BY <1>CreateSpawnFails DEF CreateSpawnFails, Goto, ring, control, seats, pthread,
     history, Labels
<1>CreateReturns. ASSUME CreateReturns PROVE ShutdownWakesAll'
  BY <1>CreateReturns DEF CreateReturns, ring, control, seats, pthread, client, history,
     Labels
<1>WorkerLookup. ASSUME NEW w \in Workers, WorkerLookup(w) PROVE ShutdownWakesAll'
  BY <1>WorkerLookup DEF WorkerLookup, Goto, ring, control, seats, pthread, client,
     history, Labels
<1>WorkerLock. ASSUME NEW w \in Workers, WorkerLock(w) PROVE ShutdownWakesAll'
  BY <1>WorkerLock DEF WorkerLock, Acquire, Goto, ring, control, seats, pthread, client,
     history, Labels
<1>WorkerWait. ASSUME NEW w \in Workers, WorkerWait(w) PROVE ShutdownWakesAll'
  BY <1>WorkerWait DEF WorkerWait, Goto, ring, control, seats, pthread, client, history,
     Labels, MustWait
<1>WorkerGrab. ASSUME NEW w \in Workers, WorkerGrab(w) PROVE ShutdownWakesAll'
  BY <1>WorkerGrab DEF WorkerGrab, Goto, control, pthread, client, history, Labels
<1>WorkerBegin. ASSUME NEW w \in Workers, WorkerBegin(w) PROVE ShutdownWakesAll'
  BY <1>WorkerBegin DEF WorkerBegin, Goto, ring, control, pthread, client, history, Labels
<1>WorkerEnd. ASSUME NEW w \in Workers, WorkerEnd(w) PROVE ShutdownWakesAll'
  BY <1>WorkerEnd DEF WorkerEnd, Goto, ring, control, pthread, client, Labels
<1>WorkerLeave. ASSUME NEW w \in Workers, WorkerLeave(w) PROVE ShutdownWakesAll'
  BY <1>WorkerLeave DEF WorkerLeave, Goto, ring, control, seats, pthread, client, history,
     Labels
<1>WorkerUncount. ASSUME NEW w \in Workers, WorkerUncount(w) PROVE ShutdownWakesAll'
  BY <1>WorkerUncount DEF WorkerUncount, Goto, ring, seats, pthread, client, history,
     Labels
<1>WorkerExit. ASSUME NEW w \in Workers, WorkerExit(w) PROVE ShutdownWakesAll'
  BY <1>WorkerExit DEF WorkerExit, Goto, ring, control, seats, pthread, client, history,
     Labels
<1>CancelInTask. ASSUME NEW w \in Workers, CancelInTask(w) PROVE ShutdownWakesAll'
  BY <1>CancelInTask DEF CancelInTask, Goto, ring, control, seats, pthread, client, Labels
<1>CancelInWait. ASSUME NEW w \in Workers, CancelInWait(w) PROVE ShutdownWakesAll'
  BY <1>CancelInWait DEF CancelInWait, Acquire, Goto, ring, control, seats, pthread,
     client, history, Labels
<1>CancelInLeave. ASSUME NEW w \in Workers, CancelInLeave(w) PROVE ShutdownWakesAll'
  BY <1>CancelInLeave DEF CancelInLeave, Goto, ring, control, seats, pthread, client,
     history, Labels
<1>SpuriousWake. ASSUME NEW w \in Workers, SpuriousWake(w) PROVE ShutdownWakesAll'
  BY <1>SpuriousWake DEF SpuriousWake, Goto, ring, control, seats, pthread, client,
     history, Labels
<1>AddLock. ASSUME NEW t \in Threads, AddLock(t) PROVE ShutdownWakesAll'
  BY <1>AddLock DEF AddLock, Acquire, Goto, ring, control, seats, pthread, client,
     history, Labels
<1>AddRefused. ASSUME NEW t \in Threads, AddRefused(t) PROVE ShutdownWakesAll'
  BY <1>AddRefused DEF AddRefused, Goto, ring, control, seats, pthread, client, history,
     Labels
<1>AddPut. ASSUME NEW t \in Threads, AddPut(t) PROVE ShutdownWakesAll'
  BY <1>AddPut DEF AddPut, Refused, control
<1>AddReturns. ASSUME NEW t \in Threads, AddReturns(t) PROVE ShutdownWakesAll'
  BY <1>AddReturns DEF AddReturns, Goto, ring, control, seats, pthread, client, history,
     Labels, Home
<1>AddCall. ASSUME NEW t \in Threads, AddCall(t) PROVE ShutdownWakesAll'
  BY <1>AddCall DEF AddCall, Goto, ring, control, seats, pthread, history, Labels
<1>Undefined. ASSUME NEW t \in Threads, Undefined(t) PROVE ShutdownWakesAll'
  BY <1>Undefined DEF Undefined, ring, control, seats, pthread, client, history, Labels
<1>DelScan. ASSUME NEW c \in Clients, DelScan(c) PROVE ShutdownWakesAll'
  BY <1>DelScan DEF DelScan, Goto, ring, control, seats, pthread, history, Labels
<1>DelCancel. ASSUME NEW c \in Clients, DelCancel(c) PROVE ShutdownWakesAll'
  BY <1>DelCancel DEF DelCancel, Cancel, Goto, ring, control, seats, history, Labels
<1>DelJoin. ASSUME NEW c \in Clients, DelJoin(c) PROVE ShutdownWakesAll'
  BY <1>DelJoin DEF DelJoin, Goto, ring, control, client, history, Labels
<1>DelSpawn. ASSUME NEW c \in Clients, DelSpawn(c) PROVE ShutdownWakesAll'
  BY <1>DelSpawn DEF DelSpawn, ring, control, client, history, Labels
<1>DelSpawnFails. ASSUME NEW c \in Clients, DelSpawnFails(c) PROVE ShutdownWakesAll'
  BY <1>DelSpawnFails DEF DelSpawnFails, Goto, ring, control, seats, pthread, client,
     history, Labels
<1>DestroyLock. ASSUME NEW c \in Clients, DestroyLock(c) PROVE ShutdownWakesAll'
  BY <1>DestroyLock DEF DestroyLock, Acquire, Goto, ring, control, seats, pthread, client,
     history, Labels
<1>DestroyAgain. ASSUME NEW c \in Clients, DestroyAgain(c) PROVE ShutdownWakesAll'
  BY <1>DestroyAgain DEF DestroyAgain, Goto, ring, control, seats, pthread, history,
     Labels
<1>DestroySet. ASSUME NEW c \in Clients, DestroySet(c) PROVE ShutdownWakesAll'
  BY <1>DestroySet, DestroySetPc DEF DestroySet
<1>DestroyScan. ASSUME NEW c \in Clients, DestroyScan(c) PROVE ShutdownWakesAll'
  BY <1>DestroyScan DEF DestroyScan, Goto, ring, control, seats, pthread, history, Labels
<1>DestroyCancel. ASSUME NEW c \in Clients, DestroyCancel(c) PROVE ShutdownWakesAll'
  BY <1>DestroyCancel DEF DestroyCancel, Cancel, Goto, ring, control, seats, history,
     Labels
<1>DestroyJoin. ASSUME NEW c \in Clients, DestroyJoin(c) PROVE ShutdownWakesAll'
  BY <1>DestroyJoin DEF DestroyJoin, ring, control, seats, history, Labels
<1>DestroyFree. ASSUME NEW c \in Clients, DestroyFree(c) PROVE ShutdownWakesAll'
  BY <1>DestroyFree DEF DestroyFree, Goto, ring, seats, pthread, history, Labels
<1>DestroyMutex. ASSUME NEW c \in Clients, DestroyMutex(c) PROVE ShutdownWakesAll'
  BY <1>DestroyMutex DEF DestroyMutex, Goto, ring, seats, pthread, history, Labels
<1>DelCall. ASSUME NEW c \in Clients, DelCall(c) PROVE ShutdownWakesAll'
  BY <1>DelCall DEF DelCall, Goto, ring, control, seats, pthread, history, Labels
<1>DestroyCall. ASSUME NEW c \in Clients, DestroyCall(c) PROVE ShutdownWakesAll'
  BY <1>DestroyCall DEF DestroyCall, Goto, ring, control, seats, pthread, history, Labels
<1>Unchanged. CASE UNCHANGED vars
  BY <1>Unchanged DEF vars, control
<1> QED
  BY NextCases, <1>Unchanged, <1>CreateInit, <1>CreateInitFails, <1>CreateSpawn,
     <1>CreateCount, <1>CreateSpawnFails, <1>CreateReturns, <1>WorkerLookup,
     <1>WorkerLock, <1>WorkerWait, <1>WorkerGrab, <1>WorkerBegin, <1>WorkerEnd,
     <1>WorkerLeave, <1>WorkerUncount, <1>WorkerExit, <1>CancelInTask, <1>CancelInWait,
     <1>CancelInLeave, <1>SpuriousWake, <1>AddLock, <1>AddRefused, <1>AddPut,
     <1>AddReturns, <1>AddCall, <1>Undefined, <1>DelScan, <1>DelCancel, <1>DelJoin,
     <1>DelSpawn, <1>DelSpawnFails, <1>DestroyLock, <1>DestroyAgain, <1>DestroySet,
     <1>DestroyScan, <1>DestroyCancel, <1>DestroyJoin, <1>DestroyFree, <1>DestroyMutex,
     <1>DelCall, <1>DestroyCall

\* No worker sleeps through a shutdown.
THEOREM NobodySleepsThroughShutdown == Spec => []ShutdownWakesAll
<1>1. Init => ShutdownWakesAll
  BY DEF Init, ShutdownWakesAll
<1> QED BY <1>1, WakeStep, TypeCorrect, PTL DEF Spec

-----------------------------------------------------------------------------
(* Who is joined, who is replaced and who was never started *)

Respawning(w) == \E c \in Clients : pc[c] = "del_spawn" /\ idx[c] = w

\* A joined id is that of a thread that ended.
JoinedGone == \A w \in Workers : joined[w] => Gone(w) /\ w < thread_count

\* Each ended worker is replaced by one threadpool_del at most.
OneRespawn ==
  /\ \A c \in Clients : pc[c] = "del_spawn" => joined[idx[c]]
  /\ \A c, d \in Clients :
       pc[c] = "del_spawn" /\ pc[d] = "del_spawn" /\ c # d => idx[c] # idx[d]

\* A worker that create has not counted is not started, or just started.
Uncounted ==
  \A w \in Workers :
    w >= thread_count => pc[w] = "off" \/ (pc[Main] = "count" /\ w = idx[Main])

\* What destroy's join loop has passed stays joined.
JoinLoop ==
  \A d \in Clients, w \in Workers :
    pc[d] = "destroy_join" /\ w < idx[d] /\ w < thread_count => joined[w] /\ ~Respawning(w)

\* Nobody has the pool while it is created, and it is not released then.
CreateAlone ==
  /\ pc[Main] \in {"create", "spawn", "count", "failed"} =>
       \A c \in Clients \ {Main} : pc[c] = "off"
  /\ memory # "live" => pc[Main] \notin {"create", "spawn", "count"}

\* A pool whose mutex is about to be destroyed has been freed.
Freed == \A c \in Clients : pc[c] = "destroy_mutex" => memory # "live"

JoinOK ==
  JoinedGone /\ OneRespawn /\ Uncounted /\ JoinLoop /\ CreateAlone /\ Freed /\ FreeIsSafe

\* What the tasks and the wake-ups need of it: a worker that starts was not at work before.
ReplaceOK == JoinedGone /\ OneRespawn /\ Uncounted /\ Freed

\* What a step does that neither starts, counts nor joins a worker and releases nothing.
Entered == {"create", "spawn", "count", "failed", "off", "del_spawn", "destroy_mutex"}
Quiet ==
  /\ joined' = joined /\ thread_count' = thread_count
  /\ memory' = "live" <=> memory = "live"
  /\ \A w \in Workers : pc[w] \in {"off", "exited", "dead"} => pc'[w] = pc[w]
  /\ \A c \in Clients :
       \/ pc'[c] = pc[c] /\ idx'[c] = idx[c]
       \/ /\ pc[c] \notin {"off", "count"} /\ pc'[c] \notin Entered
          /\ pc'[c] = "destroy_join" => idx'[c] = 0

\* A quiet step, one in which no thread enters or leaves the part of the code
\* threadpool_free relies on, keeps JoinOK.
LEMMA QuietStep ==
  ASSUME TypeOK, JoinOK, Quiet PROVE JoinOK'
<1> USE ThreadAssumption, SizeAssumption DEF Workers, JoinOK, Quiet, Entered
<1>1. JoinedGone'
  BY DEF JoinedGone, Gone
<1>2. OneRespawn'
  BY DEF OneRespawn
<1>3. Uncounted'
  BY DEF Uncounted
<1>4. JoinLoop'
  BY DEF JoinLoop, Respawning, TypeOK, ControlType
<1>5. CreateAlone' /\ Freed' /\ FreeIsSafe'
  BY DEF CreateAlone, Freed, FreeIsSafe
<1> QED BY <1>1, <1>2, <1>3, <1>4, <1>5

\* No action breaks it; those of del and destroy because they have not yet gone wrong
\* (Dangling) when they join or replace.
LEMMA JoinStep == TypeOK /\ IndexOK /\ JoinOK /\ [Next]_vars => JoinOK'
<1> SUFFICES ASSUME TypeOK, IndexOK, JoinOK, [Next]_vars PROVE JoinOK'
  OBVIOUS
<1> USE SizeAssumption, ThreadAssumption DEF Workers, Threads
<1>0. /\ \A c \in Clients : pc[c] = "del_spawn" => idx[c] \in Workers
      /\ idx \in [Clients -> Nat] /\ Main \in Clients /\ Clients \cap Workers = {}
  BY DEF IndexOK, TypeOK, ClientType, ControlType
<1>CreateInit. ASSUME CreateInit PROVE JoinOK'
  <2>1. /\ pc[Main] = "create" /\ pc'[Main] = "spawn"
        /\ \A u \in Threads \ {Main} : pc'[u] = pc[u]
        /\ joined' = joined /\ thread_count' = thread_count /\ memory' = memory /\ idx' = idx
    BY <1>CreateInit DEF CreateInit, Goto, ring, control, seats, pthread, client, history,
       TypeOK, ThreadType, ControlType, PthreadType, ClientType, Labels, IndexOK
  <2>2. JoinedGone'
    BY <1>0, <2>1 DEF JoinOK, JoinedGone, Gone
  <2>3. OneRespawn'
    BY <1>0, <2>1 DEF JoinOK, OneRespawn
  <2>4. Uncounted'
    BY <1>0, <2>1 DEF JoinOK, Uncounted
  <2>5. JoinLoop'
    BY <1>0, <2>1 DEF JoinOK, JoinLoop, Respawning
  <2>6. CreateAlone'
    BY <1>0, <2>1 DEF JoinOK, CreateAlone
  <2>7. Freed'
    BY <1>0, <2>1 DEF JoinOK, Freed
  <2>8. FreeIsSafe'
    BY <1>0, <2>1 DEF JoinOK, FreeIsSafe
  <2> QED BY <2>2, <2>3, <2>4, <2>5, <2>6, <2>7, <2>8 DEF JoinOK
<1>CreateInitFails. ASSUME CreateInitFails PROVE JoinOK'
  <2>1. /\ pc[Main] = "create" /\ pc'[Main] = "failed"
        /\ \A u \in Threads \ {Main} : pc'[u] = pc[u]
        /\ joined' = joined /\ thread_count' = thread_count /\ thread_count = 0 /\ idx' = idx
        /\ memory' # "live"
    BY <1>CreateInitFails DEF CreateInitFails, Goto, ring, seats, pthread, client,
       history, TypeOK, ThreadType, ControlType, PthreadType, ClientType, Labels, IndexOK
  <2>2. JoinedGone'
    BY <1>0, <2>1 DEF JoinOK, JoinedGone, Gone
  <2>3. OneRespawn'
    BY <1>0, <2>1 DEF JoinOK, OneRespawn
  <2>4. Uncounted'
    BY <1>0, <2>1 DEF JoinOK, Uncounted
  <2>5. JoinLoop'
    BY <1>0, <2>1 DEF JoinOK, JoinLoop, Respawning
  <2>6. CreateAlone'
    BY <1>0, <2>1 DEF JoinOK, CreateAlone
  <2>7. Freed'
    BY <1>0, <2>1 DEF JoinOK, Freed, CreateAlone
  <2>8. FreeIsSafe'
    BY <1>0, <2>1 DEF JoinOK, FreeIsSafe, Uncounted
  <2> QED BY <2>2, <2>3, <2>4, <2>5, <2>6, <2>7, <2>8 DEF JoinOK
<1>CreateSpawn. ASSUME CreateSpawn PROVE JoinOK'
  <2>0. /\ idx[Main] \in Workers /\ idx[Main] = thread_count /\ pc \in [Threads -> Labels]
        /\ Main # idx[Main] /\ Main \in Threads /\ idx[Main] \in Threads
    BY <1>0, <1>CreateSpawn DEF CreateSpawn, IndexOK, TypeOK, ThreadType
  <2>1. /\ pc[Main] = "spawn" /\ pc'[Main] = "count"
        /\ idx[Main] \in Workers /\ idx[Main] = thread_count
        /\ \A u \in Threads \ {Main, idx[Main]} : pc'[u] = pc[u]
        /\ joined' = joined /\ thread_count' = thread_count /\ memory' = memory /\ idx' = idx
    BY <1>CreateSpawn, <1>0, <2>0 DEF CreateSpawn, ring, control, seats, pthread, client,
       history, TypeOK, ThreadType, ControlType, PthreadType, ClientType, Labels, IndexOK
  <2>2. JoinedGone'
    BY <1>0, <2>1 DEF JoinOK, JoinedGone, Gone
  <2>3. OneRespawn'
    BY <1>0, <2>1 DEF JoinOK, OneRespawn
  <2>4. Uncounted'
    BY <1>0, <2>1 DEF JoinOK, Uncounted
  <2>5. JoinLoop'
    BY <1>0, <2>1 DEF JoinOK, JoinLoop, Respawning
  <2>6. CreateAlone'
    BY <1>0, <2>1, ZenonT(40) DEF JoinOK, CreateAlone
  <2>7. Freed'
    BY <1>0, <2>1 DEF JoinOK, Freed
  <2>8. FreeIsSafe'
    BY <1>0, <2>1 DEF JoinOK, FreeIsSafe, CreateAlone
  <2> QED BY <2>2, <2>3, <2>4, <2>5, <2>6, <2>7, <2>8 DEF JoinOK
<1>CreateCount. ASSUME CreateCount PROVE JoinOK'
  <2>1. /\ pc[Main] = "count" /\ pc'[Main] = "spawn"
        /\ thread_count \in Nat /\ thread_count' = thread_count + 1 /\ thread_count = idx[Main]
        /\ \A u \in Threads \ {Main} : pc'[u] = pc[u]
        /\ joined' = joined /\ memory' = memory
        /\ \A c \in Clients \ {Main} : idx'[c] = idx[c]
    BY <1>CreateCount DEF CreateCount, Goto, ring, seats, pthread, history, TypeOK,
       ThreadType, ControlType, PthreadType, ClientType, Labels, IndexOK
  <2>2. JoinedGone'
    BY <1>0, <2>1 DEF JoinOK, JoinedGone, Gone
  <2>3. OneRespawn'
    BY <1>0, <2>1, ZenonT(40) DEF JoinOK, OneRespawn
  <2>4. Uncounted'
    BY <1>0, <2>1 DEF JoinOK, Uncounted
  <2>5. JoinLoop'
    BY <1>0, <2>1 DEF JoinOK, JoinLoop, CreateAlone, Respawning
  <2>6. CreateAlone'
    BY <1>0, <2>1 DEF JoinOK, CreateAlone
  <2>7. Freed'
    BY <1>0, <2>1 DEF JoinOK, Freed
  <2>8. FreeIsSafe'
    BY <1>0, <2>1 DEF JoinOK, FreeIsSafe
  <2> QED BY <2>2, <2>3, <2>4, <2>5, <2>6, <2>7, <2>8 DEF JoinOK
<1>CreateSpawnFails. ASSUME CreateSpawnFails PROVE JoinOK'
  <2>1. Quiet
    BY <1>CreateSpawnFails DEF CreateSpawnFails, Goto, ring, control, seats, pthread,
       history, Quiet, Entered, TypeOK, ThreadType, ClientType
  <2> QED BY <2>1, QuietStep
<1>CreateReturns. ASSUME CreateReturns PROVE JoinOK'
  <2>1. /\ pc[Main] = "spawn"
        /\ \A w \in Workers : pc'[w] = pc[w]
        /\ \A c \in Clients : pc'[c] = IF pc[c] \in {"spawn", "off"} THEN "idle" ELSE pc[c]
        /\ joined' = joined /\ thread_count' = thread_count /\ memory' = memory /\ idx' = idx
    BY <1>CreateReturns DEF CreateReturns, ring, control, seats, pthread, client, history,
       TypeOK, ThreadType, ControlType, PthreadType, ClientType, Labels, IndexOK
  <2>2. JoinedGone'
    BY <1>0, <2>1 DEF JoinOK, JoinedGone, Gone
  <2>3. OneRespawn'
    BY <1>0, <2>1 DEF JoinOK, OneRespawn
  <2>4. Uncounted'
    BY <1>0, <2>1 DEF JoinOK, Uncounted
  <2>5. JoinLoop'
    BY <1>0, <2>1 DEF JoinOK, JoinLoop, Respawning
  <2>6. CreateAlone'
    BY <1>0, <2>1 DEF JoinOK, CreateAlone
  <2>7. Freed'
    BY <1>0, <2>1 DEF JoinOK, Freed
  <2>8. FreeIsSafe'
    BY <1>0, <2>1 DEF JoinOK, FreeIsSafe
  <2> QED BY <2>2, <2>3, <2>4, <2>5, <2>6, <2>7, <2>8 DEF JoinOK
<1>WorkerLookup. ASSUME NEW w \in Workers, WorkerLookup(w) PROVE JoinOK'
  <2>1. Quiet
    BY <1>WorkerLookup DEF WorkerLookup, Goto, ring, control, seats, pthread, client,
       history, Quiet, Entered, TypeOK, ThreadType, ClientType
  <2> QED BY <2>1, QuietStep
<1>WorkerLock. ASSUME NEW w \in Workers, WorkerLock(w) PROVE JoinOK'
  <2>1. Quiet
    BY <1>WorkerLock DEF WorkerLock, Acquire, Goto, ring, control, seats, pthread, client,
       history, Quiet, Entered, TypeOK, ThreadType, ClientType
  <2> QED BY <2>1, QuietStep
<1>WorkerWait. ASSUME NEW w \in Workers, WorkerWait(w) PROVE JoinOK'
  <2>1. Quiet
    BY <1>WorkerWait DEF WorkerWait, Goto, ring, control, seats, pthread, client, history,
       Quiet, Entered, TypeOK, ThreadType, ClientType
  <2> QED BY <2>1, QuietStep
<1>WorkerGrab. ASSUME NEW w \in Workers, WorkerGrab(w) PROVE JoinOK'
  <2>1. Quiet
    BY <1>WorkerGrab DEF WorkerGrab, Goto, control, pthread, client, history, Quiet,
       Entered, TypeOK, ThreadType, ClientType
  <2> QED BY <2>1, QuietStep
<1>WorkerBegin. ASSUME NEW w \in Workers, WorkerBegin(w) PROVE JoinOK'
  <2>1. Quiet
    BY <1>WorkerBegin DEF WorkerBegin, Goto, ring, control, pthread, client, history,
       Quiet, Entered, TypeOK, ThreadType, ClientType
  <2> QED BY <2>1, QuietStep
<1>WorkerEnd. ASSUME NEW w \in Workers, WorkerEnd(w) PROVE JoinOK'
  <2>1. Quiet
    BY <1>WorkerEnd DEF WorkerEnd, Goto, ring, control, pthread, client, Quiet, Entered,
       TypeOK, ThreadType, ClientType
  <2> QED BY <2>1, QuietStep
<1>WorkerLeave. ASSUME NEW w \in Workers, WorkerLeave(w) PROVE JoinOK'
  <2>1. Quiet
    BY <1>WorkerLeave DEF WorkerLeave, Goto, ring, control, seats, pthread, client,
       history, Quiet, Entered, TypeOK, ThreadType, ClientType
  <2> QED BY <2>1, QuietStep
<1>WorkerUncount. ASSUME NEW w \in Workers, WorkerUncount(w) PROVE JoinOK'
  <2>1. Quiet
    BY <1>WorkerUncount DEF WorkerUncount, Goto, ring, seats, pthread, client, history,
       Quiet, Entered, TypeOK, ThreadType, ClientType
  <2> QED BY <2>1, QuietStep
<1>WorkerExit. ASSUME NEW w \in Workers, WorkerExit(w) PROVE JoinOK'
  <2>1. Quiet
    BY <1>WorkerExit DEF WorkerExit, Goto, ring, control, seats, pthread, client, history,
       Quiet, Entered, TypeOK, ThreadType, ClientType
  <2> QED BY <2>1, QuietStep
<1>CancelInTask. ASSUME NEW w \in Workers, CancelInTask(w) PROVE JoinOK'
  <2>1. Quiet
    BY <1>CancelInTask DEF CancelInTask, Goto, ring, control, seats, pthread, client,
       Quiet, Entered, TypeOK, ThreadType, ClientType
  <2> QED BY <2>1, QuietStep
<1>CancelInWait. ASSUME NEW w \in Workers, CancelInWait(w) PROVE JoinOK'
  <2>1. Quiet
    BY <1>CancelInWait DEF CancelInWait, Acquire, Goto, ring, control, seats, pthread,
       client, history, Quiet, Entered, TypeOK, ThreadType, ClientType
  <2> QED BY <2>1, QuietStep
<1>CancelInLeave. ASSUME NEW w \in Workers, CancelInLeave(w) PROVE JoinOK'
  <2>1. Quiet
    BY <1>CancelInLeave DEF CancelInLeave, Goto, ring, control, seats, pthread, client,
       history, Quiet, Entered, TypeOK, ThreadType, ClientType
  <2> QED BY <2>1, QuietStep
<1>SpuriousWake. ASSUME NEW w \in Workers, SpuriousWake(w) PROVE JoinOK'
  <2>1. Quiet
    BY <1>SpuriousWake DEF SpuriousWake, Goto, ring, control, seats, pthread, client,
       history, Quiet, Entered, TypeOK, ThreadType, ClientType
  <2> QED BY <2>1, QuietStep
<1>AddLock. ASSUME NEW t \in Threads, AddLock(t) PROVE JoinOK'
  <2>1. Quiet
    BY <1>AddLock DEF AddLock, Acquire, Goto, ring, control, seats, pthread, client,
       history, Quiet, Entered, TypeOK, ThreadType, ClientType
  <2> QED BY <2>1, QuietStep
<1>AddRefused. ASSUME NEW t \in Threads, AddRefused(t) PROVE JoinOK'
  <2>1. Quiet
    BY <1>AddRefused DEF AddRefused, Goto, ring, control, seats, pthread, client, history,
       Quiet, Entered, TypeOK, ThreadType, ClientType
  <2> QED BY <2>1, QuietStep
<1>AddPut. ASSUME NEW t \in Threads, AddPut(t) PROVE JoinOK'
  <2>1. Quiet
    BY <1>AddPut, AddPutPc DEF AddPut, control, pthread, client, Waiters, Quiet, Entered
  <2> QED BY <2>1, QuietStep
<1>AddReturns. ASSUME NEW t \in Threads, AddReturns(t) PROVE JoinOK'
  <2>1. Quiet
    BY <1>AddReturns DEF AddReturns, Goto, ring, control, seats, pthread, client, history,
       Home, Quiet, Entered, TypeOK, ThreadType, ClientType
  <2> QED BY <2>1, QuietStep
<1>AddCall. ASSUME NEW t \in Threads, AddCall(t) PROVE JoinOK'
  <2>1. Quiet
    BY <1>AddCall DEF AddCall, Goto, ring, control, seats, pthread, history, CanCall,
       Quiet, Entered, TypeOK, ThreadType, ClientType
  <2> QED BY <2>1, QuietStep
<1>Undefined. ASSUME NEW t \in Threads, Undefined(t) PROVE JoinOK'
  <2>1. Quiet
    BY <1>Undefined DEF Undefined, ring, control, seats, pthread, client, history, Quiet,
       Entered, TypeOK, ThreadType, ClientType
  <2> QED BY <2>1, QuietStep
<1>DelScan. ASSUME NEW c \in Clients, ~Dangling(c), DelScan(c) PROVE JoinOK'
  <2>1. Quiet
    BY <1>DelScan DEF DelScan, Goto, ring, control, seats, pthread, history, Quiet,
       Entered, TypeOK, ThreadType, ClientType
  <2> QED BY <2>1, QuietStep
<1>DelCancel. ASSUME NEW c \in Clients, ~Dangling(c), DelCancel(c) PROVE JoinOK'
  <2>1. Quiet
    BY <1>DelCancel DEF DelCancel, Cancel, Goto, ring, control, seats, history, Quiet,
       Entered, TypeOK, ThreadType, ClientType
  <2> QED BY <2>1, QuietStep
<1>DelJoin. ASSUME NEW c \in Clients, ~Dangling(c), DelJoin(c) PROVE JoinOK'
  <2>1. /\ pc[c] = "del_join" /\ pc'[c] = "del_spawn"
        /\ idx[c] \in Workers /\ idx[c] < thread_count /\ Gone(idx[c]) /\ ~joined[idx[c]]
        /\ \A u \in Threads \ {c} : pc'[u] = pc[u]
        /\ joined'[idx[c]] /\ \A w \in Workers \ {idx[c]} : joined'[w] = joined[w]
        /\ thread_count' = thread_count /\ memory' = memory /\ idx' = idx
    BY <1>DelJoin DEF DelJoin, Goto, ring, control, client, history, TypeOK, ThreadType,
       ControlType, PthreadType, ClientType, Labels, IndexOK, Dangling
  <2>2. JoinedGone'
    BY <1>0, <2>1 DEF JoinOK, JoinedGone, Gone
  <2>3. OneRespawn'
    BY <1>0, <2>1, ZenonT(40) DEF JoinOK, OneRespawn
  <2>4. Uncounted'
    BY <1>0, <2>1 DEF JoinOK, Uncounted
  <2>5. JoinLoop'
    <3> SUFFICES ASSUME NEW d \in Clients, NEW w \in Workers,
                        pc'[d] = "destroy_join", w < idx'[d], w < thread_count'
                 PROVE  joined'[w] /\ ~Respawning(w)'
      BY DEF JoinLoop
    <3>1. pc[d] = "destroy_join" /\ w < idx[d] /\ w < thread_count
      BY <2>1
    <3>2. joined[w] /\ ~Respawning(w)
      BY <3>1 DEF JoinOK, JoinLoop
    <3>3. w # idx[c]
      BY <2>1, <3>2
    <3> QED BY <2>1, <3>2, <3>3 DEF Respawning
  <2>6. CreateAlone'
    BY <1>0, <2>1 DEF JoinOK, CreateAlone
  <2>7. Freed'
    <3> SUFFICES ASSUME NEW d \in Clients, pc'[d] = "destroy_mutex" PROVE memory # "live"
      BY <2>1 DEF Freed
    <3>1. d # c /\ pc[d] = "destroy_mutex"
      BY <2>1
    <3> QED BY <3>1 DEF JoinOK, Freed
  <2>8. FreeIsSafe'
    BY <1>0, <2>1 DEF JoinOK, FreeIsSafe
  <2> QED BY <2>2, <2>3, <2>4, <2>5, <2>6, <2>7, <2>8 DEF JoinOK
<1>DelSpawn. ASSUME NEW c \in Clients, ~Dangling(c), DelSpawn(c) PROVE JoinOK'
  <2>0. /\ idx[c] \in Workers /\ pc \in [Threads -> Labels] /\ c # idx[c]
        /\ joined \in [Workers -> BOOLEAN] /\ c \in Threads /\ idx[c] \in Threads
    BY <1>0, <1>DelSpawn DEF DelSpawn, TypeOK, ThreadType, PthreadType
  <2>1. /\ pc[c] = "del_spawn" /\ pc'[c] = "idle"
        /\ idx[c] \in Workers /\ idx[c] < thread_count /\ memory = "live"
        /\ \A u \in Threads \ {c, idx[c]} : pc'[u] = pc[u]
        /\ ~joined'[idx[c]] /\ \A w \in Workers \ {idx[c]} : joined'[w] = joined[w]
        /\ thread_count' = thread_count /\ memory' = memory /\ idx' = idx
    BY <1>DelSpawn, <1>0, <2>0 DEF DelSpawn, ring, control, client, history, TypeOK,
       ThreadType, ControlType, PthreadType, ClientType, Labels, IndexOK, Dangling
  <2>2. JoinedGone'
    BY <1>0, <2>1 DEF JoinOK, JoinedGone, Gone
  <2>3. OneRespawn'
    BY <1>0, <2>1 DEF JoinOK, OneRespawn
  <2>4. Uncounted'
    <3> SUFFICES ASSUME NEW w \in Workers, w >= thread_count
                 PROVE  pc'[w] = "off" \/ (pc'[Main] = "count" /\ w = idx[Main])
      BY <2>1 DEF Uncounted
    <3>1. thread_count \in Nat
      BY DEF TypeOK, ControlType
    <3>2. w # idx[c] /\ w # c /\ w \in Threads
      BY <1>0, <2>1, <3>1
    <3>3. pc'[w] = pc[w]
      BY <2>1, <3>2
    <3>4. pc[Main] = "count" => Main # c /\ Main # idx[c] /\ Main \in Threads
      BY <1>0, <2>1
    <3>5. pc[Main] = "count" => pc'[Main] = "count"
      BY <2>1, <3>4
    <3> QED BY <3>3, <3>5 DEF JoinOK, Uncounted
  <2>5. JoinLoop'
    <3> SUFFICES ASSUME NEW d \in Clients, NEW w \in Workers,
                        pc'[d] = "destroy_join", w < idx'[d], w < thread_count'
                 PROVE  joined'[w] /\ ~Respawning(w)'
      BY DEF JoinLoop
    <3>1. \A e \in Clients \ {c} : e # idx[c] /\ pc'[e] = pc[e]
      BY <1>0, <2>1
    <3>2. pc[d] = "destroy_join" /\ w < idx[d] /\ w < thread_count
      BY <2>1, <3>1
    <3>3. joined[w] /\ ~Respawning(w)
      BY <3>2 DEF JoinOK, JoinLoop
    <3>4. w # idx[c]
      BY <2>1, <3>3 DEF Respawning
    <3> QED BY <2>1, <3>1, <3>3, <3>4 DEF Respawning
  <2>6. CreateAlone'
    BY <1>0, <2>1 DEF JoinOK, CreateAlone
  <2>7. Freed'
    BY <1>0, <2>1 DEF JoinOK, Freed
  <2>8. FreeIsSafe'
    BY <1>0, <2>1 DEF JoinOK, FreeIsSafe
  <2> QED BY <2>2, <2>3, <2>4, <2>5, <2>6, <2>7, <2>8 DEF JoinOK
<1>DelSpawnFails. ASSUME NEW c \in Clients, ~Dangling(c), DelSpawnFails(c) PROVE JoinOK'
  <2>1. Quiet
    BY <1>DelSpawnFails DEF DelSpawnFails, Goto, ring, control, seats, pthread, client,
       history, Quiet, Entered, TypeOK, ThreadType, ClientType
  <2> QED BY <2>1, QuietStep
<1>DestroyLock. ASSUME NEW c \in Clients, ~Dangling(c), DestroyLock(c) PROVE JoinOK'
  <2>1. Quiet
    BY <1>DestroyLock DEF DestroyLock, Acquire, Goto, ring, control, seats, pthread,
       client, history, Quiet, Entered, TypeOK, ThreadType, ClientType
  <2> QED BY <2>1, QuietStep
<1>DestroyAgain. ASSUME NEW c \in Clients, ~Dangling(c), DestroyAgain(c) PROVE JoinOK'
  <2>1. Quiet
    BY <1>DestroyAgain DEF DestroyAgain, Goto, ring, control, seats, pthread, history,
       Quiet, Entered, TypeOK, ThreadType, ClientType
  <2> QED BY <2>1, QuietStep
<1>DestroySet. ASSUME NEW c \in Clients, ~Dangling(c), DestroySet(c) PROVE JoinOK'
  <2>1. Quiet
    BY <1>DestroySet, DestroySetPc DEF DestroySet, pthread, Waiters, Quiet, Entered, TypeOK,
       ThreadType, ClientType
  <2> QED BY <2>1, QuietStep
<1>DestroyScan. ASSUME NEW c \in Clients, ~Dangling(c), DestroyScan(c) PROVE JoinOK'
  <2>1. Quiet
    BY <1>DestroyScan, ZenonT(40) DEF DestroyScan, Goto, ring, control, seats, pthread, history,
       Dangling, Quiet, Entered, TypeOK, ThreadType, ClientType
  <2> QED BY <2>1, QuietStep
<1>DestroyCancel. ASSUME NEW c \in Clients, ~Dangling(c), DestroyCancel(c) PROVE JoinOK'
  <2>1. Quiet
    BY <1>DestroyCancel DEF DestroyCancel, Cancel, Goto, ring, control, seats, history,
       Quiet, Entered, TypeOK, ThreadType, ClientType
  <2> QED BY <2>1, QuietStep
<1>DestroyJoin. ASSUME NEW c \in Clients, ~Dangling(c), DestroyJoin(c) PROVE JoinOK'
  <2>1. /\ pc[c] = "destroy_join" /\ pc' = pc
        /\ idx[c] \in Workers /\ idx[c] < thread_count /\ Gone(idx[c]) /\ ~joined[idx[c]]
        /\ joined'[idx[c]] /\ \A w \in Workers \ {idx[c]} : joined'[w] = joined[w]
        /\ idx'[c] = idx[c] + 1 /\ \A d \in Clients \ {c} : idx'[d] = idx[d]
        /\ thread_count' = thread_count /\ memory' = memory
    BY <1>DestroyJoin DEF DestroyJoin, ring, control, seats, history, TypeOK, ThreadType,
       ControlType, PthreadType, ClientType, Labels, IndexOK, JoinedAll, Dangling
  <2>2. JoinedGone'
    BY <1>0, <2>1 DEF JoinOK, JoinedGone, Gone
  <2>3. OneRespawn'
    BY <1>0, <2>1 DEF JoinOK, OneRespawn
  <2>4. Uncounted'
    BY <1>0, <2>1 DEF JoinOK, Uncounted
  <2>5. JoinLoop'
    BY <1>0, <2>1 DEF JoinOK, JoinLoop, OneRespawn, Respawning
  <2>6. CreateAlone'
    BY <1>0, <2>1 DEF JoinOK, CreateAlone
  <2>7. Freed'
    BY <1>0, <2>1 DEF JoinOK, Freed
  <2>8. FreeIsSafe'
    BY <1>0, <2>1 DEF JoinOK, FreeIsSafe
  <2> QED BY <2>2, <2>3, <2>4, <2>5, <2>6, <2>7, <2>8 DEF JoinOK
<1>DestroyFree. ASSUME NEW c \in Clients, ~Dangling(c), DestroyFree(c) PROVE JoinOK'
  <2>1. /\ pc[c] = "destroy_join" /\ idx[c] >= thread_count
        /\ \/ pc'[c] = "idle" /\ memory' = memory
           \/ pc'[c] = "destroy_mutex" /\ memory' # "live"
        /\ \A u \in Threads \ {c} : pc'[u] = pc[u]
        /\ joined' = joined /\ thread_count' = thread_count /\ idx' = idx
        /\ thread_count \in Nat /\ idx[c] \in Nat
    BY <1>DestroyFree DEF DestroyFree, Goto, ring, seats, pthread, history, TypeOK,
       ThreadType, ControlType, PthreadType, ClientType, Labels, IndexOK, JoinedAll
  <2>2. JoinedGone'
    BY <1>0, <2>1 DEF JoinOK, JoinedGone, Gone
  <2>3. OneRespawn'
    BY <1>0, <2>1 DEF JoinOK, OneRespawn
  <2>4. Uncounted'
    BY <1>0, <2>1 DEF JoinOK, Uncounted
  <2>5. JoinLoop'
    BY <1>0, <2>1 DEF JoinOK, JoinLoop, Respawning
  <2>6. CreateAlone'
    BY <1>0, <2>1 DEF JoinOK, CreateAlone
  <2>7. Freed'
    BY <1>0, <2>1 DEF JoinOK, Freed
  <2>8. FreeIsSafe'
    BY <1>0, <2>1 DEF JoinOK, FreeIsSafe, JoinLoop, JoinedGone, Uncounted, CreateAlone,
       Gone, Respawning
  <2> QED BY <2>2, <2>3, <2>4, <2>5, <2>6, <2>7, <2>8 DEF JoinOK
<1>DestroyMutex. ASSUME NEW c \in Clients, ~Dangling(c), DestroyMutex(c) PROVE JoinOK'
  <2>1. memory # "live"
    BY <1>DestroyMutex DEF DestroyMutex, JoinOK, Freed
  <2>2. Quiet
    BY <1>DestroyMutex, <2>1 DEF DestroyMutex, Goto, ring, seats, pthread, history, Quiet,
       Entered, TypeOK, ThreadType, ClientType
  <2> QED BY <2>2, QuietStep
<1>DelCall. ASSUME NEW c \in Clients, DelCall(c) PROVE JoinOK'
  <2>1. Quiet
    BY <1>DelCall DEF DelCall, Goto, ring, control, seats, pthread, history, CanCall,
       Quiet, Entered, TypeOK, ThreadType, ClientType
  <2> QED BY <2>1, QuietStep
<1>DestroyCall. ASSUME NEW c \in Clients, DestroyCall(c) PROVE JoinOK'
  <2>1. Quiet
    BY <1>DestroyCall DEF DestroyCall, Goto, ring, control, seats, pthread, history,
       CanCall, Quiet, Entered, TypeOK, ThreadType, ClientType
  <2> QED BY <2>1, QuietStep
<1>Unchanged. CASE UNCHANGED vars
  <2>1. Quiet
    BY <1>Unchanged DEF vars, control, pthread, client, Quiet
  <2> QED BY <2>1, QuietStep
<1> QED
  BY NextCases, <1>Unchanged, <1>CreateInit, <1>CreateInitFails, <1>CreateSpawn,
     <1>CreateCount, <1>CreateSpawnFails, <1>CreateReturns, <1>WorkerLookup,
     <1>WorkerLock, <1>WorkerWait, <1>WorkerGrab, <1>WorkerBegin, <1>WorkerEnd,
     <1>WorkerLeave, <1>WorkerUncount, <1>WorkerExit, <1>CancelInTask, <1>CancelInWait,
     <1>CancelInLeave, <1>SpuriousWake, <1>AddLock, <1>AddRefused, <1>AddPut,
     <1>AddReturns, <1>AddCall, <1>Undefined, <1>DelScan, <1>DelCancel, <1>DelJoin,
     <1>DelSpawn, <1>DelSpawnFails, <1>DestroyLock, <1>DestroyAgain, <1>DestroySet,
     <1>DestroyScan, <1>DestroyCancel, <1>DestroyJoin, <1>DestroyFree, <1>DestroyMutex,
     <1>DelCall, <1>DestroyCall

\* The inductive invariant of the ends of threads.
THEOREM Ends == Spec => []JoinOK
<1>1. Init => JoinOK
  BY SizeAssumption, ThreadAssumption
     DEF Init, JoinOK, JoinedGone, OneRespawn, Uncounted, JoinLoop, CreateAlone, Freed,
         FreeIsSafe, Workers, Threads
<1>2. IInv => TypeOK /\ IndexOK
  BY DEF IInv
<1> QED BY <1>1, <1>2, JoinStep, Invariant, PTL DEF Spec

\* threadpool_free releases the arrays only when every worker has ended or never was.
THEOREM FreedWhenUnused == Spec => []FreeIsSafe
<1>1. JoinOK => FreeIsSafe
  BY DEF JoinOK
<1> QED BY <1>1, Ends, PTL

-----------------------------------------------------------------------------
(* No wake-up is lost *)

Awake == {w \in Workers : pc[w] \in {"lock", "check"}}

\* A set of workers can be counted.
LEMMA FiniteWorkers ==
  ASSUME NEW S \in SUBSET Workers PROVE IsFiniteSet(S) /\ Cardinality(S) \in Nat
<1>1. IsFiniteSet(Workers)
  BY SizeAssumption, FS_Interval DEF Workers
<1> QED BY <1>1, FS_Subset, FS_CardinalityType

\* A step that takes no task, puts none and sends nobody to sleep.
Calm ==
  /\ count' = count
  /\ \A w \in Workers :
       /\ pc'[w] = "wait" => pc[w] = "wait"
       /\ pc[w] \in {"lock", "check"} => pc'[w] \in {"lock", "check"}

\* A calm step, one that puts no task into the ring, puts no worker to sleep and
\* takes none off its way to the ring, loses no wake-up.
LEMMA CalmStep ==
  ASSUME TypeOK, NoLostWakeup, Calm PROVE NoLostWakeup'
<1>1. Awake \subseteq Awake' /\ Awake' \in SUBSET Workers
  BY DEF Calm, Awake, Workers
<1>2. /\ Cardinality(Awake) <= Cardinality(Awake')
      /\ Cardinality(Awake) \in Nat /\ Cardinality(Awake') \in Nat
  BY <1>1, FiniteWorkers, FS_Subset
<1>3. Waiters' # {} => Waiters # {}
  BY DEF Calm, Waiters, Workers
<1>4. Waiters # {} => count <= Cardinality(Awake)
  BY DEF NoLostWakeup, Awake
<1>5. Waiters' # {} => count' <= Cardinality(Awake')
  BY <1>2, <1>3, <1>4 DEF Calm, TypeOK, RingType
<1> QED BY <1>5 DEF NoLostWakeup, Awake

\* A task put wakes one sleeper for itself, a task taken was somebody's, and a worker
\* sleeps only when the ring is empty.
LEMMA SleepStep ==
  TypeOK /\ IndexOK /\ ReplaceOK /\ ShutdownWakesAll /\ NoLostWakeup /\ [Next]_vars
    => NoLostWakeup'
<1> SUFFICES ASSUME TypeOK, IndexOK, ReplaceOK, ShutdownWakesAll, NoLostWakeup, [Next]_vars
             PROVE  NoLostWakeup'
  OBVIOUS
<1> USE SizeAssumption, ThreadAssumption DEF Workers, Threads
<1>CreateInit. ASSUME CreateInit PROVE NoLostWakeup'
  <2>1. Calm
    BY <1>CreateInit DEF CreateInit, Goto, ring, Calm, TypeOK, ThreadType
  <2> QED BY <2>1, CalmStep
<1>CreateInitFails. ASSUME CreateInitFails PROVE NoLostWakeup'
  <2>1. Calm
    BY <1>CreateInitFails DEF CreateInitFails, Goto, ring, Calm, TypeOK, ThreadType
  <2> QED BY <2>1, CalmStep
<1>CreateSpawn. ASSUME CreateSpawn PROVE NoLostWakeup'
  <2>1. pc[idx[Main]] = "off" /\ idx[Main] \in Workers /\ Main \notin Workers
    BY <1>CreateSpawn DEF CreateSpawn, IndexOK, ReplaceOK, Uncounted, TypeOK, ClientType,
       ControlType
  <2>2. Calm
    BY <1>CreateSpawn, <2>1 DEF CreateSpawn, ring, Calm, TypeOK, ThreadType
  <2> QED BY <2>2, CalmStep
<1>CreateCount. ASSUME CreateCount PROVE NoLostWakeup'
  <2>1. Calm
    BY <1>CreateCount DEF CreateCount, Goto, ring, Calm, TypeOK, ThreadType
  <2> QED BY <2>1, CalmStep
<1>CreateSpawnFails. ASSUME CreateSpawnFails PROVE NoLostWakeup'
  <2>1. Calm
    BY <1>CreateSpawnFails DEF CreateSpawnFails, Goto, ring, Calm, TypeOK, ThreadType
  <2> QED BY <2>1, CalmStep
<1>CreateReturns. ASSUME CreateReturns PROVE NoLostWakeup'
  <2>1. Calm
    BY <1>CreateReturns DEF CreateReturns, ring, Calm, TypeOK, ThreadType
  <2> QED BY <2>1, CalmStep
<1>WorkerLookup. ASSUME NEW w \in Workers, WorkerLookup(w) PROVE NoLostWakeup'
  <2>1. Calm
    BY <1>WorkerLookup DEF WorkerLookup, Goto, ring, Calm, TypeOK, ThreadType
  <2> QED BY <2>1, CalmStep
<1>WorkerLock. ASSUME NEW w \in Workers, WorkerLock(w) PROVE NoLostWakeup'
  <2>1. Calm
    BY <1>WorkerLock DEF WorkerLock, Acquire, Goto, ring, Calm, TypeOK, ThreadType
  <2> QED BY <2>1, CalmStep
<1>WorkerWait. ASSUME NEW w \in Workers, WorkerWait(w) PROVE NoLostWakeup'
  <2>1. count' = 0
    BY <1>WorkerWait DEF WorkerWait, MustWait, ring
  <2>2. Awake' \in SUBSET Workers
    BY DEF Awake
  <2>3. Cardinality(Awake') \in Nat
    BY <2>2, FiniteWorkers
  <2> QED BY <2>1, <2>3 DEF NoLostWakeup, Awake
<1>WorkerGrab. ASSUME NEW w \in Workers, WorkerGrab(w) PROVE NoLostWakeup'
  <2>1. /\ Awake' = Awake \ {w} /\ w \in Awake /\ count' = count - 1
    BY <1>WorkerGrab DEF WorkerGrab, Goto, Awake, TypeOK, ThreadType
  <2>2. Waiters' = Waiters
    BY <1>WorkerGrab DEF WorkerGrab, Goto, Waiters, TypeOK, ThreadType
  <2>3. Awake \in SUBSET Workers
    BY DEF Awake
  <2>4. Cardinality(Awake') = Cardinality(Awake) - 1 /\ Cardinality(Awake) \in Nat
    BY <2>1, <2>3, FiniteWorkers, FS_RemoveElement
  <2>5. Waiters' # {} => count' <= Cardinality(Awake')
    BY <2>1, <2>2, <2>4 DEF NoLostWakeup, Awake, TypeOK, RingType
  <2> QED BY <2>5 DEF NoLostWakeup, Awake
<1>WorkerBegin. ASSUME NEW w \in Workers, WorkerBegin(w) PROVE NoLostWakeup'
  <2>1. Calm
    BY <1>WorkerBegin DEF WorkerBegin, Goto, ring, Calm, TypeOK, ThreadType
  <2> QED BY <2>1, CalmStep
<1>WorkerEnd. ASSUME NEW w \in Workers, WorkerEnd(w) PROVE NoLostWakeup'
  <2>1. Calm
    BY <1>WorkerEnd DEF WorkerEnd, Goto, ring, Calm, TypeOK, ThreadType
  <2> QED BY <2>1, CalmStep
<1>WorkerLeave. ASSUME NEW w \in Workers, WorkerLeave(w) PROVE NoLostWakeup'
  <2>1. Waiters = {}
    BY <1>WorkerLeave DEF WorkerLeave, MustLeave, ALIVE, IMMEDIATE_SHUTDOWN,
       GRACEFUL_SHUTDOWN, ShutdownWakesAll
  <2>2. Waiters' = {}
    BY <1>WorkerLeave, <2>1 DEF WorkerLeave, Goto, Waiters, TypeOK, ThreadType
  <2> QED BY <2>2 DEF NoLostWakeup
<1>WorkerUncount. ASSUME NEW w \in Workers, WorkerUncount(w) PROVE NoLostWakeup'
  <2>1. Calm
    BY <1>WorkerUncount DEF WorkerUncount, Goto, ring, Calm, TypeOK, ThreadType
  <2> QED BY <2>1, CalmStep
<1>WorkerExit. ASSUME NEW w \in Workers, WorkerExit(w) PROVE NoLostWakeup'
  <2>1. Calm
    BY <1>WorkerExit DEF WorkerExit, Goto, ring, Calm, TypeOK, ThreadType
  <2> QED BY <2>1, CalmStep
<1>CancelInTask. ASSUME NEW w \in Workers, CancelInTask(w) PROVE NoLostWakeup'
  <2>1. Calm
    BY <1>CancelInTask DEF CancelInTask, Goto, ring, Calm, TypeOK, ThreadType
  <2> QED BY <2>1, CalmStep
<1>CancelInWait. ASSUME NEW w \in Workers, CancelInWait(w) PROVE NoLostWakeup'
  <2>1. Calm
    BY <1>CancelInWait DEF CancelInWait, Acquire, Goto, ring, Calm, TypeOK, ThreadType
  <2> QED BY <2>1, CalmStep
<1>CancelInLeave. ASSUME NEW w \in Workers, CancelInLeave(w) PROVE NoLostWakeup'
  <2>1. Calm
    BY <1>CancelInLeave DEF CancelInLeave, Goto, ring, Calm, TypeOK, ThreadType
  <2> QED BY <2>1, CalmStep
<1>SpuriousWake. ASSUME NEW w \in Workers, SpuriousWake(w) PROVE NoLostWakeup'
  <2>1. Calm
    BY <1>SpuriousWake DEF SpuriousWake, Goto, ring, Calm, TypeOK, ThreadType
  <2> QED BY <2>1, CalmStep
<1>AddLock. ASSUME NEW t \in Threads, AddLock(t) PROVE NoLostWakeup'
  <2>1. Calm
    BY <1>AddLock DEF AddLock, Acquire, Goto, ring, Calm, TypeOK, ThreadType
  <2> QED BY <2>1, CalmStep
<1>AddRefused. ASSUME NEW t \in Threads, AddRefused(t) PROVE NoLostWakeup'
  <2>1. Calm
    BY <1>AddRefused DEF AddRefused, Goto, ring, Calm, TypeOK, ThreadType
  <2> QED BY <2>1, CalmStep
<1>AddPut. ASSUME NEW t \in Threads, AddPut(t) PROVE NoLostWakeup'
  <2>1. CASE Waiters = {}
    <3>1. Waiters' = {}
      BY <1>AddPut, <2>1, AddPutPc DEF Waiters
    <3> QED BY <3>1 DEF NoLostWakeup
  <2>2. CASE Waiters # {}
    <3>1. PICK v \in Waiters : pc' = [[pc EXCEPT ![t] = "add_status"] EXCEPT ![v] = "lock"]
      BY <1>AddPut, <2>2 DEF AddPut, Signal, Wake
    <3>2. /\ pc \in [Threads -> Labels] /\ v \in Workers /\ pc[v] = "wait" /\ v # t
          /\ pc[t] = "add_put" /\ count' = count + 1
      BY <1>AddPut DEF AddPut, Waiters, TypeOK, ThreadType
    <3>3. Awake' = Awake \cup {v} /\ v \notin Awake /\ Awake \in SUBSET Workers
      BY <3>1, <3>2 DEF Awake
    <3>4. Cardinality(Awake') = Cardinality(Awake) + 1 /\ Cardinality(Awake) \in Nat
      BY <3>3, FiniteWorkers, FS_AddElement
    <3>5. count' <= Cardinality(Awake')
      BY <2>2, <3>2, <3>4 DEF NoLostWakeup, Awake, TypeOK, RingType
    <3> QED BY <3>5 DEF NoLostWakeup, Awake
  <2> QED BY <2>1, <2>2
<1>AddReturns. ASSUME NEW t \in Threads, AddReturns(t) PROVE NoLostWakeup'
  <2>1. Calm
    BY <1>AddReturns DEF AddReturns, Goto, ring, Home, Calm, TypeOK, ThreadType
  <2> QED BY <2>1, CalmStep
<1>AddCall. ASSUME NEW t \in Threads, AddCall(t) PROVE NoLostWakeup'
  <2>1. Calm
    BY <1>AddCall DEF AddCall, Goto, ring, Calm, TypeOK, ThreadType
  <2> QED BY <2>1, CalmStep
<1>Undefined. ASSUME NEW t \in Threads, Undefined(t) PROVE NoLostWakeup'
  <2>1. Calm
    BY <1>Undefined DEF Undefined, ring, Calm, TypeOK, ThreadType
  <2> QED BY <2>1, CalmStep
<1>DelScan. ASSUME NEW c \in Clients, DelScan(c) PROVE NoLostWakeup'
  <2>1. Calm
    BY <1>DelScan DEF DelScan, Goto, ring, Calm, TypeOK, ThreadType
  <2> QED BY <2>1, CalmStep
<1>DelCancel. ASSUME NEW c \in Clients, DelCancel(c) PROVE NoLostWakeup'
  <2>1. Calm
    BY <1>DelCancel DEF DelCancel, Cancel, Goto, ring, Calm, TypeOK, ThreadType
  <2> QED BY <2>1, CalmStep
<1>DelJoin. ASSUME NEW c \in Clients, DelJoin(c) PROVE NoLostWakeup'
  <2>1. Calm
    BY <1>DelJoin DEF DelJoin, Goto, ring, Calm, TypeOK, ThreadType
  <2> QED BY <2>1, CalmStep
<1>DelSpawn. ASSUME NEW c \in Clients, DelSpawn(c) PROVE NoLostWakeup'
  <2>1. Gone(idx[c]) /\ idx[c] \in Workers /\ c \notin Workers
    BY <1>DelSpawn DEF DelSpawn, IndexOK, ReplaceOK, OneRespawn, JoinedGone, TypeOK, ClientType,
       ControlType
  <2>2. Calm
    BY <1>DelSpawn, <2>1 DEF DelSpawn, ring, Gone, Calm, TypeOK, ThreadType
  <2> QED BY <2>2, CalmStep
<1>DelSpawnFails. ASSUME NEW c \in Clients, DelSpawnFails(c) PROVE NoLostWakeup'
  <2>1. Calm
    BY <1>DelSpawnFails DEF DelSpawnFails, Goto, ring, Calm, TypeOK, ThreadType
  <2> QED BY <2>1, CalmStep
<1>DestroyLock. ASSUME NEW c \in Clients, DestroyLock(c) PROVE NoLostWakeup'
  <2>1. Calm
    BY <1>DestroyLock DEF DestroyLock, Acquire, Goto, ring, Calm, TypeOK, ThreadType
  <2> QED BY <2>1, CalmStep
<1>DestroyAgain. ASSUME NEW c \in Clients, DestroyAgain(c) PROVE NoLostWakeup'
  <2>1. Calm
    BY <1>DestroyAgain DEF DestroyAgain, Goto, ring, Calm, TypeOK, ThreadType
  <2> QED BY <2>1, CalmStep
<1>DestroySet. ASSUME NEW c \in Clients, DestroySet(c) PROVE NoLostWakeup'
  <2>1. Waiters' = {}
    BY <1>DestroySet, DestroySetPc DEF Waiters
  <2> QED BY <2>1 DEF NoLostWakeup
<1>DestroyScan. ASSUME NEW c \in Clients, DestroyScan(c) PROVE NoLostWakeup'
  <2>1. Calm
    BY <1>DestroyScan DEF DestroyScan, Goto, ring, Calm, TypeOK, ThreadType
  <2> QED BY <2>1, CalmStep
<1>DestroyCancel. ASSUME NEW c \in Clients, DestroyCancel(c) PROVE NoLostWakeup'
  <2>1. Calm
    BY <1>DestroyCancel DEF DestroyCancel, Cancel, Goto, ring, Calm, TypeOK, ThreadType
  <2> QED BY <2>1, CalmStep
<1>DestroyJoin. ASSUME NEW c \in Clients, DestroyJoin(c) PROVE NoLostWakeup'
  <2>1. Calm
    BY <1>DestroyJoin DEF DestroyJoin, ring, Calm, TypeOK, ThreadType
  <2> QED BY <2>1, CalmStep
<1>DestroyFree. ASSUME NEW c \in Clients, DestroyFree(c) PROVE NoLostWakeup'
  <2>1. Calm
    BY <1>DestroyFree DEF DestroyFree, Goto, ring, Calm, TypeOK, ThreadType
  <2> QED BY <2>1, CalmStep
<1>DestroyMutex. ASSUME NEW c \in Clients, DestroyMutex(c) PROVE NoLostWakeup'
  <2>1. Calm
    BY <1>DestroyMutex DEF DestroyMutex, Goto, ring, Calm, TypeOK, ThreadType
  <2> QED BY <2>1, CalmStep
<1>DelCall. ASSUME NEW c \in Clients, DelCall(c) PROVE NoLostWakeup'
  <2>1. Calm
    BY <1>DelCall DEF DelCall, Goto, ring, Calm, TypeOK, ThreadType
  <2> QED BY <2>1, CalmStep
<1>DestroyCall. ASSUME NEW c \in Clients, DestroyCall(c) PROVE NoLostWakeup'
  <2>1. Calm
    BY <1>DestroyCall DEF DestroyCall, Goto, ring, Calm, TypeOK, ThreadType
  <2> QED BY <2>1, CalmStep
<1>Unchanged. CASE UNCHANGED vars
  <2>1. Calm
    BY <1>Unchanged DEF vars, ring, Calm
  <2> QED BY <2>1, CalmStep
<1> QED
  BY NextCases, <1>Unchanged, <1>CreateInit, <1>CreateInitFails, <1>CreateSpawn,
     <1>CreateCount, <1>CreateSpawnFails, <1>CreateReturns, <1>WorkerLookup,
     <1>WorkerLock, <1>WorkerWait, <1>WorkerGrab, <1>WorkerBegin, <1>WorkerEnd,
     <1>WorkerLeave, <1>WorkerUncount, <1>WorkerExit, <1>CancelInTask, <1>CancelInWait,
     <1>CancelInLeave, <1>SpuriousWake, <1>AddLock, <1>AddRefused, <1>AddPut,
     <1>AddReturns, <1>AddCall, <1>Undefined, <1>DelScan, <1>DelCancel, <1>DelJoin,
     <1>DelSpawn, <1>DelSpawnFails, <1>DestroyLock, <1>DestroyAgain, <1>DestroySet,
     <1>DestroyScan, <1>DestroyCancel, <1>DestroyJoin, <1>DestroyFree, <1>DestroyMutex,
     <1>DelCall, <1>DestroyCall

\* While a worker sleeps, every pending task has an awake worker of its own.
THEOREM NoWakeupLost == Spec => []NoLostWakeup
<1>1. Init => NoLostWakeup
  BY ThreadAssumption DEF Init, NoLostWakeup, Waiters, Workers, Threads
<1>2. IInv => TypeOK /\ IndexOK
  BY DEF IInv
<1>3. JoinOK => ReplaceOK
  BY DEF JoinOK, ReplaceOK
<1> QED
  BY <1>1, <1>2, <1>3, SleepStep, Invariant, Ends, NobodySleepsThroughShutdown, PTL
     DEF Spec

-----------------------------------------------------------------------------
(* Every task once *)

\* Tasks leave the ring one by one, none before it was accepted.
TaskInv == count <= accepted /\ EveryTaskOnce

-----------------------------------------------------------------------------
(* The ways a step treats the tasks that are out of the ring *)

Flying == {"begin", "run", "add_lock", "add_put", "add_status"}

\* It leaves them alone;
Steady ==
  /\ accepted' - count' = accepted - count /\ count' <= accepted'
  /\ done' = done /\ killed' = killed
  /\ \A w \in Workers : /\ pc'[w] \in Flying <=> pc[w] \in Flying
                        /\ pc[w] \in Flying => task'[w] = task[w]

\* or the task of one worker ends, by a return or by a cancellation.
Landing(w) ==
  /\ accepted' = accepted /\ count' = count
  /\ pc[w] \in Flying /\ pc'[w] \notin Flying
  /\ \/ done' = done \cup {task[w].argument} /\ killed' = killed
     \/ done' = done /\ killed' = killed \cup {task[w].argument}
  /\ \A v \in Workers \ {w} : pc'[v] = pc[v] /\ task'[v] = task[v]

\* A step that moves no task between the workers and the sets of finished and
\* killed tasks keeps TaskInv.
LEMMA SteadyStep ==
  ASSUME TaskInv, Steady PROVE TaskInv'
<1> USE DEF Workers
<1>1. InFlight' = InFlight
  BY DEF InFlight, Steady, Flying
<1>2. \A w \in InFlight : task'[w] = task[w]
  BY DEF InFlight, Steady, Flying
<1>3. {task'[w].argument : w \in InFlight'} = {task[w].argument : w \in InFlight}
  BY <1>1, <1>2
<1>4. EveryTaskOnce'
  BY <1>1, <1>2, <1>3 DEF TaskInv, EveryTaskOnce, Steady
<1> QED BY <1>4 DEF TaskInv, Steady

\* A step in which one worker finishes its task, or dies with it, keeps TaskInv.
LEMMA LandingStep ==
  ASSUME TaskInv, NEW w \in Workers, Landing(w) PROVE TaskInv'
<1> USE DEF Workers
<1>1. InFlight' = InFlight \ {w} /\ w \in InFlight
  BY DEF InFlight, Landing, Flying
<1>2. \A v \in InFlight' : task'[v] = task[v]
  BY <1>1 DEF InFlight, Landing
<1>3. {task'[v].argument : v \in InFlight'} = {task[v].argument : v \in InFlight \ {w}}
  BY <1>1, <1>2
<1>4. {task[v].argument : v \in InFlight} =
        {task[v].argument : v \in InFlight \ {w}} \cup {task[w].argument}
  BY <1>1
<1>5. /\ task[w].argument \notin done \cup killed
      /\ \A v \in InFlight \ {w} : task[v].argument # task[w].argument
  BY <1>1 DEF TaskInv, EveryTaskOnce
<1>6. done' \cup killed' = done \cup killed \cup {task[w].argument}
  BY DEF Landing
<1>7. 1 .. accepted' - count' =
        done' \cup killed' \cup {task'[v].argument : v \in InFlight'}
  BY <1>3, <1>4, <1>6 DEF TaskInv, EveryTaskOnce, Landing
<1>8. done' \cap killed' = {}
  BY <1>5 DEF TaskInv, EveryTaskOnce, Landing
<1>9. \A v \in InFlight' :
        /\ task'[v].argument \notin done' \cup killed'
        /\ \A u \in InFlight' \ {v} : task'[u].argument # task'[v].argument
  BY <1>1, <1>2, <1>5, <1>6 DEF TaskInv, EveryTaskOnce
<1> QED BY <1>7, <1>8, <1>9 DEF TaskInv, EveryTaskOnce, Landing

-----------------------------------------------------------------------------
(* Every step is one of these, or takes the oldest task from the ring *)

\* A step that is steady, and also leaves the ring and the state of the pool alone.
Still ==
  /\ Steady /\ UNCHANGED <<accepted, count, shutdown>>
  /\ memory' = "live" <=> memory = "live"

\* Apart from seven actions every step is still.
LEMMA StepKinds ==
  ASSUME TypeOK, IndexOK, ReplaceOK, count <= accepted, [Next]_vars
  PROVE  \/ Still \/ CreateInitFails
         \/ \E t \in Threads : AddPut(t)
         \/ \E w \in Workers : WorkerGrab(w) \/ WorkerEnd(w) \/ CancelInTask(w)
         \/ \E c \in Clients : DestroySet(c) \/ DestroyFree(c)
<1> USE SizeAssumption, ThreadAssumption DEF Workers, Threads
<1>0. count \in Nat /\ accepted \in Nat /\ count <= accepted
  BY DEF TypeOK, RingType, HistoryType
<1>CreateInit. ASSUME CreateInit PROVE Still
  BY <1>0, <1>CreateInit DEF CreateInit, Goto, ring, seats, control, history, Still,
     Steady, Flying, TypeOK, ThreadType, SeatType
<1>CreateSpawn. ASSUME CreateSpawn PROVE Still
  <2>1. pc[idx[Main]] = "off" /\ idx[Main] \in Workers /\ Main \notin Workers
    BY <1>CreateSpawn DEF CreateSpawn, IndexOK, ReplaceOK, Uncounted, TypeOK, ClientType,
       ControlType
  <2> QED
    BY <1>0, <1>CreateSpawn, <2>1 DEF CreateSpawn, ring, seats, control, history, Still,
       Steady, Flying, TypeOK, ThreadType, SeatType
<1>CreateCount. ASSUME CreateCount PROVE Still
  BY <1>0, <1>CreateCount DEF CreateCount, Goto, ring, seats, control, history, Still,
     Steady, Flying, TypeOK, ThreadType, SeatType
<1>CreateSpawnFails. ASSUME CreateSpawnFails PROVE Still
  BY <1>0, <1>CreateSpawnFails DEF CreateSpawnFails, Goto, ring, seats, control, history,
     Still, Steady, Flying, TypeOK, ThreadType, SeatType
<1>CreateReturns. ASSUME CreateReturns PROVE Still
  BY <1>0, <1>CreateReturns DEF CreateReturns, ring, seats, control, history, Still,
     Steady, Flying, TypeOK, ThreadType, SeatType
<1>WorkerLookup. ASSUME NEW w \in Workers, WorkerLookup(w) PROVE Still
  BY <1>0, <1>WorkerLookup DEF WorkerLookup, Goto, ring, seats, control, history, Still,
     Steady, Flying, TypeOK, ThreadType, SeatType
<1>WorkerLock. ASSUME NEW w \in Workers, WorkerLock(w) PROVE Still
  BY <1>0, <1>WorkerLock DEF WorkerLock, Acquire, Goto, ring, seats, control, history,
     Still, Steady, Flying, TypeOK, ThreadType, SeatType
<1>WorkerWait. ASSUME NEW w \in Workers, WorkerWait(w) PROVE Still
  BY <1>0, <1>WorkerWait DEF WorkerWait, Goto, ring, seats, control, history, Still,
     Steady, Flying, TypeOK, ThreadType, SeatType
<1>WorkerBegin. ASSUME NEW w \in Workers, WorkerBegin(w) PROVE Still
  BY <1>0, <1>WorkerBegin DEF WorkerBegin, Goto, ring, control, history, Still, Steady,
     Flying, TypeOK, ThreadType, SeatType
<1>WorkerLeave. ASSUME NEW w \in Workers, WorkerLeave(w) PROVE Still
  BY <1>0, <1>WorkerLeave DEF WorkerLeave, Goto, ring, seats, control, history, Still,
     Steady, Flying, TypeOK, ThreadType, SeatType
<1>WorkerUncount. ASSUME NEW w \in Workers, WorkerUncount(w) PROVE Still
  BY <1>0, <1>WorkerUncount DEF WorkerUncount, Goto, ring, seats, control, history, Still,
     Steady, Flying, TypeOK, ThreadType, SeatType
<1>WorkerExit. ASSUME NEW w \in Workers, WorkerExit(w) PROVE Still
  BY <1>0, <1>WorkerExit DEF WorkerExit, Goto, ring, seats, control, history, Still,
     Steady, Flying, TypeOK, ThreadType, SeatType
<1>CancelInWait. ASSUME NEW w \in Workers, CancelInWait(w) PROVE Still
  BY <1>0, <1>CancelInWait DEF CancelInWait, Acquire, Goto, ring, seats, control, history,
     Still, Steady, Flying, TypeOK, ThreadType, SeatType
<1>CancelInLeave. ASSUME NEW w \in Workers, CancelInLeave(w) PROVE Still
  BY <1>0, <1>CancelInLeave DEF CancelInLeave, Goto, ring, seats, control, history, Still,
     Steady, Flying, TypeOK, ThreadType, SeatType
<1>SpuriousWake. ASSUME NEW w \in Workers, SpuriousWake(w) PROVE Still
  BY <1>0, <1>SpuriousWake DEF SpuriousWake, Goto, ring, seats, control, history, Still,
     Steady, Flying, TypeOK, ThreadType, SeatType
<1>AddLock. ASSUME NEW t \in Threads, AddLock(t) PROVE Still
  BY <1>0, <1>AddLock DEF AddLock, Acquire, Goto, ring, seats, control, history, Still,
     Steady, Flying, TypeOK, ThreadType, SeatType
<1>AddRefused. ASSUME NEW t \in Threads, AddRefused(t) PROVE Still
  BY <1>0, <1>AddRefused DEF AddRefused, Goto, ring, seats, control, history, Still,
     Steady, Flying, TypeOK, ThreadType, SeatType
<1>AddReturns. ASSUME NEW t \in Threads, AddReturns(t) PROVE Still
  BY <1>0, <1>AddReturns DEF AddReturns, Goto, ring, seats, control, history, Home, Still,
     Steady, Flying, TypeOK, ThreadType, SeatType
<1>AddCall. ASSUME NEW t \in Threads, AddCall(t) PROVE Still
  BY <1>0, <1>AddCall DEF AddCall, Goto, ring, seats, control, history, Still, Steady,
     Flying, TypeOK, ThreadType, SeatType
<1>Undefined. ASSUME NEW t \in Threads, Undefined(t) PROVE Still
  BY <1>0, <1>Undefined DEF Undefined, ring, seats, control, history, Still, Steady,
     Flying, TypeOK, ThreadType, SeatType
<1>DelScan. ASSUME NEW c \in Clients, DelScan(c) PROVE Still
  BY <1>0, <1>DelScan DEF DelScan, Goto, ring, seats, control, history, Still, Steady,
     Flying, TypeOK, ThreadType, SeatType
<1>DelCancel. ASSUME NEW c \in Clients, DelCancel(c) PROVE Still
  BY <1>0, <1>DelCancel DEF DelCancel, Cancel, Goto, ring, seats, control, history, Still,
     Steady, Flying, TypeOK, ThreadType, SeatType
<1>DelJoin. ASSUME NEW c \in Clients, DelJoin(c) PROVE Still
  BY <1>0, <1>DelJoin DEF DelJoin, Goto, ring, control, history, Still, Steady, Flying,
     TypeOK, ThreadType, SeatType
<1>DelSpawn. ASSUME NEW c \in Clients, DelSpawn(c) PROVE Still
  <2>1. Gone(idx[c]) /\ idx[c] \in Workers /\ c \notin Workers
    BY <1>DelSpawn DEF DelSpawn, IndexOK, ReplaceOK, OneRespawn, JoinedGone, TypeOK,
       ClientType, ControlType
  <2> QED
    BY <1>0, <1>DelSpawn, <2>1 DEF DelSpawn, ring, control, history, Gone, Still, Steady,
       Flying, TypeOK, ThreadType, SeatType
<1>DelSpawnFails. ASSUME NEW c \in Clients, DelSpawnFails(c) PROVE Still
  BY <1>0, <1>DelSpawnFails DEF DelSpawnFails, Goto, ring, seats, control, history, Still,
     Steady, Flying, TypeOK, ThreadType, SeatType
<1>DestroyLock. ASSUME NEW c \in Clients, DestroyLock(c) PROVE Still
  BY <1>0, <1>DestroyLock DEF DestroyLock, Acquire, Goto, ring, seats, control, history,
     Still, Steady, Flying, TypeOK, ThreadType, SeatType
<1>DestroyAgain. ASSUME NEW c \in Clients, DestroyAgain(c) PROVE Still
  BY <1>0, <1>DestroyAgain DEF DestroyAgain, Goto, ring, seats, control, history, Still,
     Steady, Flying, TypeOK, ThreadType, SeatType
<1>DestroyScan. ASSUME NEW c \in Clients, DestroyScan(c) PROVE Still
  BY <1>0, <1>DestroyScan DEF DestroyScan, Goto, ring, seats, control, history, Still,
     Steady, Flying, TypeOK, ThreadType, SeatType
<1>DestroyCancel. ASSUME NEW c \in Clients, DestroyCancel(c) PROVE Still
  BY <1>0, <1>DestroyCancel DEF DestroyCancel, Cancel, Goto, ring, seats, control,
     history, Still, Steady, Flying, TypeOK, ThreadType, SeatType
<1>DestroyJoin. ASSUME NEW c \in Clients, DestroyJoin(c) PROVE Still
  BY <1>0, <1>DestroyJoin DEF DestroyJoin, ring, seats, control, history, Still, Steady,
     Flying, TypeOK, ThreadType, SeatType
<1>DestroyMutex. ASSUME NEW c \in Clients, DestroyMutex(c) PROVE Still
  BY <1>0, <1>DestroyMutex DEF DestroyMutex, Goto, ring, seats, control, history, ReplaceOK,
     Freed, Still, Steady, Flying, TypeOK, ThreadType, SeatType
<1>DelCall. ASSUME NEW c \in Clients, DelCall(c) PROVE Still
  BY <1>0, <1>DelCall DEF DelCall, Goto, ring, seats, control, history, Still, Steady,
     Flying, TypeOK, ThreadType, SeatType
<1>DestroyCall. ASSUME NEW c \in Clients, DestroyCall(c) PROVE Still
  BY <1>0, <1>DestroyCall DEF DestroyCall, Goto, ring, seats, control, history, Still,
     Steady, Flying, TypeOK, ThreadType, SeatType
<1>Unchanged. CASE UNCHANGED vars
  BY <1>0, <1>Unchanged DEF vars, ring, seats, control, history, Still, Steady
<1> QED
  BY NextCases, <1>CreateInit, <1>CreateSpawn, <1>CreateCount, <1>CreateSpawnFails,
     <1>CreateReturns, <1>WorkerLookup, <1>WorkerLock, <1>WorkerWait, <1>WorkerBegin,
     <1>WorkerLeave, <1>WorkerUncount, <1>WorkerExit, <1>CancelInWait, <1>CancelInLeave,
     <1>SpuriousWake, <1>AddLock, <1>AddRefused, <1>AddReturns, <1>AddCall, <1>Undefined,
     <1>DelScan, <1>DelCancel, <1>DelJoin, <1>DelSpawn, <1>DelSpawnFails, <1>DestroyLock,
     <1>DestroyAgain, <1>DestroyScan, <1>DestroyCancel, <1>DestroyJoin, <1>DestroyMutex,
     <1>DelCall, <1>DestroyCall, <1>Unchanged

\* Every step of the pool keeps TaskInv: it is steady, lands one task, or takes
\* the oldest task of the ring (WorkerGrab).
LEMMA TaskStep == IInv /\ ReplaceOK /\ TaskInv /\ [Next]_vars => TaskInv'
<1> SUFFICES ASSUME TypeOK, RingOrder, IndexOK, ReplaceOK, TaskInv, [Next]_vars
             PROVE  TaskInv'
  BY DEF IInv
<1> USE SizeAssumption, ThreadAssumption DEF Workers, Threads
<1>0. count \in Nat /\ accepted \in Nat /\ count <= accepted
  BY DEF TypeOK, RingType, HistoryType, TaskInv
<1>Still. ASSUME Still PROVE TaskInv'
  BY <1>Still, SteadyStep DEF Still
<1>CreateInitFails. ASSUME CreateInitFails PROVE TaskInv'
  <2>1. Steady
    BY <1>0, <1>CreateInitFails DEF CreateInitFails, Goto, ring, seats, history, Steady,
       Flying, TypeOK, ThreadType, SeatType
  <2> QED BY <2>1, SteadyStep
<1>WorkerGrab. ASSUME NEW w \in Workers, WorkerGrab(w) PROVE TaskInv'
  <2> DEFINE n == accepted - count + 1
  <2>1. count > 0
    BY <1>WorkerGrab DEF WorkerGrab, MustWait, MustLeave, TypeOK, RingType, ControlType,
       ALIVE, IMMEDIATE_SHUTDOWN, GRACEFUL_SHUTDOWN
  <2>2. NextTask.argument = n
    BY <2>1, NextTaskIsTask
  <2>3. /\ InFlight' = InFlight \cup {w} /\ w \notin InFlight
        /\ task'[w].argument = n /\ \A v \in InFlight : task'[v] = task[v]
    BY <1>WorkerGrab, <2>2 DEF WorkerGrab, Goto, InFlight, TypeOK, ThreadType, SeatType
  <2>4. accepted' = accepted /\ count' = count - 1 /\ done' = done /\ killed' = killed
    BY <1>WorkerGrab DEF WorkerGrab, history
  <2>5. 1 .. accepted' - count' = (1 .. accepted - count) \cup {n} /\ n \notin 1 .. accepted - count
    BY <1>0, <2>1, <2>4
  <2>6. {task'[v].argument : v \in InFlight'} = {task[v].argument : v \in InFlight} \cup {n}
    BY <2>3
  <2>7. n \notin done \cup killed /\ \A v \in InFlight : task[v].argument # n
    BY <2>5 DEF TaskInv, EveryTaskOnce
  <2>8. 1 .. accepted' - count' =
          done' \cup killed' \cup {task'[v].argument : v \in InFlight'}
    BY <2>4, <2>5, <2>6 DEF TaskInv, EveryTaskOnce
  <2>9. \A v \in InFlight' :
          /\ task'[v].argument \notin done' \cup killed'
          /\ \A u \in InFlight' \ {v} : task'[u].argument # task'[v].argument
    BY <2>3, <2>4, <2>7 DEF TaskInv, EveryTaskOnce
  <2> QED BY <1>0, <2>4, <2>8, <2>9 DEF TaskInv, EveryTaskOnce
<1>WorkerEnd. ASSUME NEW w \in Workers, WorkerEnd(w) PROVE TaskInv'
  <2>1. Landing(w)
    BY <1>WorkerEnd DEF WorkerEnd, Goto, ring, Landing, Flying, TypeOK, ThreadType, SeatType
  <2> QED BY <2>1, LandingStep
<1>CancelInTask. ASSUME NEW w \in Workers, CancelInTask(w) PROVE TaskInv'
  <2>1. Landing(w)
    BY <1>CancelInTask DEF CancelInTask, Goto, ring, seats, Landing, Flying, TypeOK, ThreadType, SeatType
  <2> QED BY <2>1, LandingStep
<1>AddPut. ASSUME NEW t \in Threads, AddPut(t) PROVE TaskInv'
  <2>1. /\ accepted' = accepted + 1 /\ count' = count + 1 /\ task' = task
        /\ done' = done /\ killed' = killed
    BY <1>AddPut DEF AddPut, seats
  <2>2. \A w \in Workers : pc'[w] \in Flying <=> pc[w] \in Flying
    BY <1>AddPut, AddPutPc DEF Waiters, Flying
  <2>3. Steady
    BY <1>0, <2>1, <2>2 DEF Steady
  <2> QED BY <2>3, SteadyStep
<1>DestroySet. ASSUME NEW c \in Clients, DestroySet(c) PROVE TaskInv'
  <2>1. Steady
    BY <1>0, <1>DestroySet, DestroySetPc DEF DestroySet, ring, seats, history, Waiters, Steady,
       Flying
  <2> QED BY <2>1, SteadyStep
<1>DestroyFree. ASSUME NEW c \in Clients, DestroyFree(c) PROVE TaskInv'
  <2>1. Steady
    BY <1>0, <1>DestroyFree DEF DestroyFree, Goto, ring, seats, history, Steady, Flying,
       TypeOK, ThreadType, SeatType
  <2> QED BY <2>1, SteadyStep
<1> QED
  BY <1>0, StepKinds, <1>Still, <1>CreateInitFails, <1>WorkerGrab, <1>WorkerEnd,
     <1>CancelInTask, <1>AddPut, <1>DestroySet, <1>DestroyFree

\* The accounts of the tasks out of the ring hold in every reachable state.
THEOREM TaskInvariant == Spec => []TaskInv
<1>1. Init => TaskInv
  <2> SUFFICES ASSUME Init PROVE TaskInv
    OBVIOUS
  <2>1. InFlight = {}
    BY ThreadAssumption DEF Init, InFlight, Workers, Threads
  <2>2. count = 0 /\ accepted = 0 /\ done = {} /\ killed = {} /\ 1 .. 0 - 0 = {}
    BY DEF Init
  <2> QED BY <2>1, <2>2 DEF TaskInv, EveryTaskOnce
<1>2. JoinOK => ReplaceOK
  BY DEF JoinOK, ReplaceOK
<1> QED BY <1>1, <1>2, TaskStep, Invariant, Ends, PTL DEF Spec

\* Every task that left the ring is in one worker's hands, finished or killed; none is
\* lost, none runs twice.
THEOREM TasksRunOnce == Spec => []EveryTaskOnce
<1>1. TaskInv => EveryTaskOnce
  BY DEF TaskInv
<1> QED BY <1>1, TaskInvariant, PTL

-----------------------------------------------------------------------------
(* A graceful shutdown drains the ring *)

\* A shutdown from which a worker may leave.
Drained == shutdown # ALIVE /\ (shutdown = GRACEFUL_SHUTDOWN => count = 0)

\* Nobody uses or shuts down a pool of which create has not counted a worker: nobody has
\* it, its worker does not find itself, and create's own destroy has mode 0.
Unopened ==
  thread_count = 0 =>
    /\ shutdown = ALIVE /\ accepted = 0
    /\ \A w \in Workers : pc[w] \in {"off", "start"}
    /\ \A c \in Clients :
         /\ pc[c] \notin {"add_lock", "add_put", "add_status", "del_scan"}
         /\ pc[c] = "idle" => memory # "live"
         /\ pc[c] \in {"destroy_lock", "destroy_set"} => mode[c] = ALIVE

\* A worker leaves or has left only when the ring is drained, and the pool is freed only
\* when every worker that was counted has left.
DrainInv ==
  /\ Unopened
  /\ started <= thread_count /\ (started < thread_count => Drained)
  /\ \A w \in Workers : pc[w] = "leave" => Drained
  /\ memory # "live" => started <= 0

\* A step that changes neither the ring's length nor what DrainInv counts; with no worker
\* counted it only takes clients towards the end of create's own destroy.
Aside ==
  /\ UNCHANGED <<accepted, count, shutdown, started, thread_count, memory>>
  /\ \A w \in Workers :
       /\ pc'[w] = "leave" => pc[w] = "leave" \/ Drained
       /\ pc[w] \in {"off", "start"} => pc'[w] \in {"off", "start"} \/ thread_count > 0
  /\ \A c \in Clients :
       \/ pc'[c] = pc[c] /\ mode'[c] = mode[c]
       \/ pc[c] = "idle" /\ memory = "live"
       \/ pc[c] \in {"add_lock", "add_put", "add_status", "del_scan", "del_cancel",
                     "del_join", "del_spawn"}
       \/ pc'[c] \notin {"idle", "add_lock", "add_put", "add_status", "del_scan",
                         "destroy_lock", "destroy_set"}
       \/ pc[c] = "destroy_lock" /\ pc'[c] = "destroy_set" /\ mode'[c] = mode[c]
       \/ pc'[c] = "idle" /\ shutdown # ALIVE
       \/ pc'[c] = "destroy_lock" /\ mode'[c] = ALIVE

\* Such a step keeps DrainInv.
LEMMA AsideStep ==
  ASSUME TypeOK, IndexOK, DrainInv, Aside PROVE DrainInv'
<1>0. thread_count \in Nat
  BY SizeAssumption DEF TypeOK, ControlType
<1>1. Drained' <=> Drained
  BY DEF Aside, Drained
<1>2. Unopened'
  <2> SUFFICES ASSUME thread_count' = 0, NEW c \in Clients
               PROVE  /\ pc'[c] \notin {"add_lock", "add_put", "add_status", "del_scan"}
                      /\ pc'[c] = "idle" => memory' # "live"
                      /\ pc'[c] \in {"destroy_lock", "destroy_set"} => mode'[c] = ALIVE
    <3>1. thread_count' = 0 =>
            /\ shutdown' = ALIVE /\ accepted' = 0
            /\ \A w \in Workers' : pc'[w] \in {"off", "start"}
      BY <1>0 DEF Unopened, Aside, DrainInv, Workers
    <3> QED BY <3>1 DEF Unopened
  <2>1. /\ shutdown = ALIVE /\ shutdown' = ALIVE /\ memory' = memory
        /\ pc[c] \notin {"add_lock", "add_put", "add_status", "del_scan"}
        /\ pc[c] = "idle" => memory # "live"
        /\ pc[c] \in {"destroy_lock", "destroy_set"} => mode[c] = ALIVE
    BY DEF Unopened, Aside, DrainInv
  <2>2. pc[c] \notin {"del_cancel", "del_join", "del_spawn"}
    BY <1>0 DEF IndexOK, Aside, TypeOK, ClientType
  <2> QED BY <2>1, <2>2 DEF Aside
<1> QED BY <1>1, <1>2 DEF DrainInv, Aside

\* Every step of the pool keeps DrainInv.
LEMMA DrainStep == IInv /\ JoinOK /\ DrainInv /\ [Next]_vars => DrainInv'
<1> SUFFICES ASSUME TypeOK, IndexOK, JoinOK, DrainInv, [Next]_vars
             PROVE  DrainInv'
  BY DEF IInv
<1> USE SizeAssumption, ThreadAssumption DEF Workers, Threads, ALIVE, IMMEDIATE_SHUTDOWN,
         GRACEFUL_SHUTDOWN
<1>0. /\ thread_count \in Nat /\ started \in Int /\ count \in Nat /\ Main \in Clients
      /\ shutdown \in {ALIVE, IMMEDIATE_SHUTDOWN, GRACEFUL_SHUTDOWN}
  BY DEF TypeOK, ControlType, RingType
<1>CreateInit. ASSUME CreateInit PROVE DrainInv'
  <2>1. Aside
    BY <1>0, <1>CreateInit DEF CreateInit, Goto, ring, control, client, history, Aside, TypeOK,
       ThreadType
  <2> QED BY <2>1, AsideStep
<1>CreateInitFails. ASSUME CreateInitFails PROVE DrainInv'
  <2>1. /\ thread_count = 0 /\ \A c \in Clients \ {Main} : pc[c] = "off"
        /\ UNCHANGED <<accepted, count, shutdown, started, thread_count>> /\ pc'[Main] = "failed"
        /\ \A t \in Threads \ {Main} : pc'[t] = pc[t]
    BY <1>0, <1>CreateInitFails DEF CreateInitFails, Goto, ring, history, IndexOK, JoinOK, CreateAlone,
       TypeOK, ThreadType
  <2> QED BY <1>0, <2>1 DEF DrainInv, Unopened, Drained
<1>CreateSpawn. ASSUME CreateSpawn PROVE DrainInv'
  <2>1. idx[Main] \in Workers /\ Main \notin Workers
    BY <1>0, <1>CreateSpawn DEF CreateSpawn, TypeOK, ClientType
  <2>2. Aside
    BY <1>0, <1>CreateSpawn, <2>1 DEF CreateSpawn, ring, control, client, history, Aside, TypeOK,
       ThreadType
  <2> QED BY <2>2, AsideStep
<1>CreateCount. ASSUME CreateCount PROVE DrainInv'
  <2>1. /\ thread_count' = thread_count + 1 /\ started' = started + 1
        /\ UNCHANGED <<count, shutdown, memory>> /\ memory = "live"
        /\ \A w \in Workers : pc'[w] = pc[w]
    BY <1>0, <1>CreateCount DEF CreateCount, Goto, ring, JoinOK, CreateAlone, TypeOK,
       ThreadType
  <2> QED BY <1>0, <2>1 DEF DrainInv, Unopened, Drained
<1>CreateSpawnFails. ASSUME CreateSpawnFails PROVE DrainInv'
  <2>1. Aside
    BY <1>0, <1>CreateSpawnFails DEF CreateSpawnFails, Goto, ring, control, client, history,
       Aside, TypeOK, ThreadType, ClientType
  <2> QED BY <2>1, AsideStep
<1>CreateReturns. ASSUME CreateReturns PROVE DrainInv'
  <2>1. /\ thread_count > 0 /\ \A w \in Workers : pc'[w] = pc[w]
        /\ UNCHANGED <<count, shutdown, started, thread_count, memory>>
    BY <1>0, <1>CreateReturns DEF CreateReturns, ring, control, IndexOK, TypeOK, ThreadType
  <2> QED BY <1>0, <2>1 DEF DrainInv, Unopened, Drained
<1>WorkerLookup. ASSUME NEW w \in Workers, WorkerLookup(w) PROVE DrainInv'
  <2>1. /\ UNCHANGED <<accepted, count, shutdown, started, thread_count, memory, mode>>
        /\ \A t \in Threads \ {w} : pc'[t] = pc[t]
        /\ pc'[w] = pc[w] \/ (pc'[w] = "lock" /\ w < thread_count)
    BY <1>WorkerLookup DEF WorkerLookup, Listed, Goto, ring, control, client, history, TypeOK,
       ThreadType
  <2>2. w \in Nat /\ w \notin Clients /\ thread_count \in Nat
    BY <1>0
  <2>3. \A v \in Workers :
          /\ pc'[v] = "leave" => pc[v] = "leave"
          /\ pc[v] \in {"off", "start"} => pc'[v] \in {"off", "start"} \/ thread_count > 0
    BY <2>1, <2>2
  <2>4. Aside
    BY <2>1, <2>2, <2>3 DEF Aside
  <2> QED BY <2>4, AsideStep
<1>WorkerLock. ASSUME NEW w \in Workers, WorkerLock(w) PROVE DrainInv'
  <2>1. Aside
    BY <1>0, <1>WorkerLock DEF WorkerLock, Acquire, Goto, ring, control, client, history, Aside,
       TypeOK, ThreadType
  <2> QED BY <2>1, AsideStep
<1>WorkerWait. ASSUME NEW w \in Workers, WorkerWait(w) PROVE DrainInv'
  <2>1. Aside
    BY <1>0, <1>WorkerWait DEF WorkerWait, Goto, ring, control, client, history, Aside, TypeOK,
       ThreadType
  <2> QED BY <2>1, AsideStep
<1>WorkerGrab. ASSUME NEW w \in Workers, WorkerGrab(w) PROVE DrainInv'
  <2>1. ~Drained /\ count > 0 /\ thread_count # 0
    BY <1>0, <1>WorkerGrab DEF WorkerGrab, MustWait, MustLeave, Drained, DrainInv, Unopened
  <2>2. /\ UNCHANGED <<shutdown, started, thread_count, memory, mode>>
        /\ \A t \in Threads \ {w} : pc'[t] = pc[t]
        /\ pc'[w] = "begin"
    BY <1>WorkerGrab DEF WorkerGrab, Goto, control, client, TypeOK, ThreadType
  <2>3. Unopened'
    BY <2>1, <2>2 DEF Unopened
  <2> QED BY <1>0, <2>1, <2>2, <2>3 DEF DrainInv
<1>WorkerBegin. ASSUME NEW w \in Workers, WorkerBegin(w) PROVE DrainInv'
  <2>1. Aside
    BY <1>0, <1>WorkerBegin DEF WorkerBegin, Goto, ring, control, client, history, Aside, TypeOK,
       ThreadType
  <2> QED BY <2>1, AsideStep
<1>WorkerEnd. ASSUME NEW w \in Workers, WorkerEnd(w) PROVE DrainInv'
  <2>1. Aside
    BY <1>0, <1>WorkerEnd DEF WorkerEnd, Goto, ring, control, client, history, Aside, TypeOK,
       ThreadType
  <2> QED BY <2>1, AsideStep
<1>WorkerLeave. ASSUME NEW w \in Workers, WorkerLeave(w) PROVE DrainInv'
  <2>1. Aside
    BY <1>0, <1>WorkerLeave DEF WorkerLeave, MustLeave, Drained, Goto, ring, control,
       client, history, Aside, TypeOK, ThreadType
  <2> QED BY <2>1, AsideStep
<1>WorkerUncount. ASSUME NEW w \in Workers, WorkerUncount(w) PROVE DrainInv'
  <2>1. /\ UNCHANGED <<count, shutdown, thread_count, memory, mode>> /\ started' = started - 1
        /\ \A t \in Threads \ {w} : pc'[t] = pc[t]
        /\ pc[w] = "leave" /\ pc'[w] = "bye" /\ thread_count # 0
    BY <1>WorkerUncount DEF WorkerUncount, DrainInv, Unopened, Goto, ring, client, TypeOK, ThreadType
  <2>2. Unopened' /\ Drained'
    BY <2>1 DEF DrainInv, Unopened, Drained
  <2> QED BY <1>0, <2>1, <2>2 DEF DrainInv
<1>WorkerExit. ASSUME NEW w \in Workers, WorkerExit(w) PROVE DrainInv'
  <2>1. Aside
    BY <1>0, <1>WorkerExit DEF WorkerExit, Goto, ring, control, client, history, Aside, TypeOK,
       ThreadType
  <2> QED BY <2>1, AsideStep
<1>CancelInTask. ASSUME NEW w \in Workers, CancelInTask(w) PROVE DrainInv'
  <2>1. Aside
    BY <1>0, <1>CancelInTask DEF CancelInTask, Goto, ring, control, client, history, Aside,
       TypeOK, ThreadType
  <2> QED BY <2>1, AsideStep
<1>CancelInWait. ASSUME NEW w \in Workers, CancelInWait(w) PROVE DrainInv'
  <2>1. Aside
    BY <1>0, <1>CancelInWait DEF CancelInWait, Acquire, Goto, ring, control, client, history,
       Aside, TypeOK, ThreadType
  <2> QED BY <2>1, AsideStep
<1>CancelInLeave. ASSUME NEW w \in Workers, CancelInLeave(w) PROVE DrainInv'
  <2>1. Aside
    BY <1>0, <1>CancelInLeave DEF CancelInLeave, Goto, ring, control, client, history, Aside,
       TypeOK, ThreadType
  <2> QED BY <2>1, AsideStep
<1>SpuriousWake. ASSUME NEW w \in Workers, SpuriousWake(w) PROVE DrainInv'
  <2>1. Aside
    BY <1>0, <1>SpuriousWake DEF SpuriousWake, Goto, ring, control, client, history, Aside,
       TypeOK, ThreadType
  <2> QED BY <2>1, AsideStep
<1>AddLock. ASSUME NEW t \in Threads, AddLock(t) PROVE DrainInv'
  <2>1. Aside
    BY <1>0, <1>AddLock DEF AddLock, Acquire, Goto, ring, control, client, history, Aside,
       TypeOK, ThreadType
  <2> QED BY <2>1, AsideStep
<1>AddRefused. ASSUME NEW t \in Threads, AddRefused(t) PROVE DrainInv'
  <2>1. Aside
    BY <1>0, <1>AddRefused DEF AddRefused, Goto, ring, control, client, history, Aside, TypeOK,
       ThreadType
  <2> QED BY <2>1, AsideStep
<1>AddPut. ASSUME NEW t \in Threads, AddPut(t) PROVE DrainInv'
  <2>1. /\ shutdown = ALIVE /\ UNCHANGED <<shutdown, started, thread_count, memory>>
        /\ \A w \in Workers : pc'[w] = "leave" => pc[w] = "leave"
        /\ pc[t] = "add_put"
    BY <1>AddPut, AddPutPc DEF AddPut, Refused, control, Waiters
  <2>2. thread_count # 0
    BY <2>1 DEF DrainInv, Unopened
  <2> QED BY <2>1, <2>2 DEF DrainInv, Unopened, Drained
<1>AddReturns. ASSUME NEW t \in Threads, AddReturns(t) PROVE DrainInv'
  <2>1. Aside
    BY <1>0, <1>AddReturns DEF AddReturns, Home, Goto, ring, control, client, history, Aside,
       TypeOK, ThreadType
  <2> QED BY <2>1, AsideStep
<1>AddCall. ASSUME NEW t \in Threads, AddCall(t) PROVE DrainInv'
  <2>1. Aside
    BY <1>0, <1>AddCall DEF AddCall, CanCall, Goto, ring, control, client, history, Aside,
       TypeOK, ThreadType
  <2> QED BY <2>1, AsideStep
<1>Undefined. ASSUME NEW t \in Threads, Undefined(t) PROVE DrainInv'
  <2>1. Aside
    BY <1>0, <1>Undefined DEF Undefined, Goto, ring, control, client, history, Aside, TypeOK,
       ThreadType
  <2> QED BY <2>1, AsideStep
<1>DelScan. ASSUME NEW c \in Clients, DelScan(c) PROVE DrainInv'
  <2>1. Aside
    BY <1>0, <1>DelScan DEF DelScan, Goto, ring, control, client, history, Aside, TypeOK,
       ThreadType
  <2> QED BY <2>1, AsideStep
<1>DelCancel. ASSUME NEW c \in Clients, DelCancel(c) PROVE DrainInv'
  <2>1. Aside
    BY <1>0, <1>DelCancel DEF DelCancel, Cancel, Goto, ring, control, client, history, Aside,
       TypeOK, ThreadType
  <2> QED BY <2>1, AsideStep
<1>DelJoin. ASSUME NEW c \in Clients, DelJoin(c) PROVE DrainInv'
  <2>1. Aside
    BY <1>0, <1>DelJoin DEF DelJoin, Goto, ring, control, client, history, Aside, TypeOK,
       ThreadType
  <2> QED BY <2>1, AsideStep
<1>DelSpawn. ASSUME NEW c \in Clients, DelSpawn(c) PROVE DrainInv'
  <2>1. idx[c] \in Workers /\ c \notin Workers
    BY <1>0, <1>DelSpawn DEF DelSpawn, IndexOK, TypeOK, ClientType, ControlType
  <2>2. Aside
    BY <1>0, <1>DelSpawn, <2>1 DEF DelSpawn, ring, control, client, history, Aside, TypeOK, ThreadType
  <2> QED BY <2>2, AsideStep
<1>DelSpawnFails. ASSUME NEW c \in Clients, DelSpawnFails(c) PROVE DrainInv'
  <2>1. Aside
    BY <1>0, <1>DelSpawnFails DEF DelSpawnFails, Goto, ring, control, client, history, Aside,
       TypeOK, ThreadType
  <2> QED BY <2>1, AsideStep
<1>DestroyLock. ASSUME NEW c \in Clients, DestroyLock(c) PROVE DrainInv'
  <2>1. Aside
    BY <1>0, <1>DestroyLock DEF DestroyLock, Acquire, Goto, ring, control, client, history,
       Aside, TypeOK, ThreadType
  <2> QED BY <2>1, AsideStep
<1>DestroyAgain. ASSUME NEW c \in Clients, DestroyAgain(c) PROVE DrainInv'
  <2>1. Aside
    BY <1>0, <1>DestroyAgain DEF DestroyAgain, Goto, ring, control, client, history, Aside,
       TypeOK, ThreadType
  <2> QED BY <2>1, AsideStep
<1>DestroySet. ASSUME NEW c \in Clients, DestroySet(c) PROVE DrainInv'
  <2>1. /\ shutdown = ALIVE /\ shutdown' = mode[c] /\ pc[c] = "destroy_set"
        /\ UNCHANGED <<accepted, count, started, thread_count, memory, mode>>
        /\ \A w \in Workers : pc[w] \in {"off", "start"} => pc'[w] = pc[w]
        /\ pc'[c] = "destroy_scan" /\ \A d \in Clients \ {c} : pc'[d] = pc[d]
        /\ \A w \in Workers : pc'[w] = "leave" => pc[w] = "leave"
    BY <1>DestroySet, DestroySetPc DEF DestroySet, ring, history, Waiters
  <2>2. Unopened'
    BY <2>1 DEF DrainInv, Unopened
  <2> QED BY <2>1, <2>2 DEF DrainInv, Drained
<1>DestroyScan. ASSUME NEW c \in Clients, DestroyScan(c) PROVE DrainInv'
  <2>1. Aside
    BY <1>0, <1>DestroyScan DEF DestroyScan, Goto, ring, control, client, history, Aside, TypeOK,
       ThreadType
  <2> QED BY <2>1, AsideStep
<1>DestroyCancel. ASSUME NEW c \in Clients, DestroyCancel(c) PROVE DrainInv'
  <2>1. Aside
    BY <1>0, <1>DestroyCancel DEF DestroyCancel, Cancel, Goto, ring, control, client, history,
       Aside, TypeOK, ThreadType
  <2> QED BY <2>1, AsideStep
<1>DestroyJoin. ASSUME NEW c \in Clients, DestroyJoin(c) PROVE DrainInv'
  <2>1. Aside
    BY <1>0, <1>DestroyJoin DEF DestroyJoin, Goto, ring, control, client, history, Aside, TypeOK,
       ThreadType
  <2> QED BY <2>1, AsideStep
<1>DestroyFree. ASSUME NEW c \in Clients, DestroyFree(c) PROVE DrainInv'
  <2>1. /\ UNCHANGED <<accepted, count, shutdown, started, thread_count, mode>>
        /\ \A t \in Threads \ {c} : pc'[t] = pc[t]
        /\ \/ memory' = "freed" /\ started <= 0 /\ pc'[c] = "destroy_mutex"
           \/ memory' = memory /\ started > 0 /\ pc'[c] = "idle"
    BY <1>0, <1>DestroyFree DEF DestroyFree, CanFree, Goto, ring, history, TypeOK, ThreadType
  <2>2. thread_count = 0 => started <= 0
    BY <1>0 DEF DrainInv
  <2>3. thread_count' = 0 => memory' = "freed" /\ pc'[c] = "destroy_mutex"
    BY <1>0, <2>1, <2>2
  <2>4. Unopened'
    BY <2>1, <2>3 DEF DrainInv, Unopened
  <2> QED BY <1>0, <2>1, <2>4 DEF DrainInv, Drained
<1>DestroyMutex. ASSUME NEW c \in Clients, DestroyMutex(c) PROVE DrainInv'
  <2>1. /\ UNCHANGED <<accepted, count, shutdown, started, thread_count, mode>>
        /\ \A t \in Threads \ {c} : pc'[t] = pc[t]
        /\ memory # "live" /\ memory' = "destroyed" /\ pc'[c] = "idle"
    BY <1>DestroyMutex DEF DestroyMutex, Goto, ring, history, JoinOK, Freed, TypeOK, ThreadType
  <2>2. Unopened'
    BY <2>1 DEF DrainInv, Unopened
  <2> QED BY <2>1, <2>2 DEF DrainInv, Drained
<1>DelCall. ASSUME NEW c \in Clients, DelCall(c) PROVE DrainInv'
  <2>1. Aside
    BY <1>0, <1>DelCall DEF DelCall, CanCall, Goto, ring, control, client, history, Aside,
       TypeOK, ThreadType
  <2> QED BY <2>1, AsideStep
<1>DestroyCall. ASSUME NEW c \in Clients, DestroyCall(c) PROVE DrainInv'
  <2>1. Aside
    BY <1>0, <1>DestroyCall DEF DestroyCall, CanCall, Goto, ring, control, client, history,
       Aside, TypeOK, ThreadType
  <2> QED BY <2>1, AsideStep
<1>Unchanged. CASE UNCHANGED vars
  <2>1. Aside
    BY <1>0, <1>Unchanged DEF vars, ring, control, client, history, Aside
  <2> QED BY <2>1, AsideStep
<1> QED
  BY NextCases, <1>Unchanged, <1>CreateInit, <1>CreateInitFails, <1>CreateSpawn,
     <1>CreateCount, <1>CreateSpawnFails, <1>CreateReturns, <1>WorkerLookup,
     <1>WorkerLock, <1>WorkerWait, <1>WorkerGrab, <1>WorkerBegin, <1>WorkerEnd,
     <1>WorkerLeave, <1>WorkerUncount, <1>WorkerExit, <1>CancelInTask, <1>CancelInWait,
     <1>CancelInLeave, <1>SpuriousWake, <1>AddLock, <1>AddRefused, <1>AddPut,
     <1>AddReturns, <1>AddCall, <1>Undefined, <1>DelScan, <1>DelCancel, <1>DelJoin,
     <1>DelSpawn, <1>DelSpawnFails, <1>DestroyLock, <1>DestroyAgain, <1>DestroySet,
     <1>DestroyScan, <1>DestroyCancel, <1>DestroyJoin, <1>DestroyFree, <1>DestroyMutex,
     <1>DelCall, <1>DestroyCall

\* What is counted about leaving workers holds in every reachable state.
THEOREM Drains == Spec => []DrainInv
<1>1. Init => DrainInv
  <2> SUFFICES ASSUME Init PROVE DrainInv
    OBVIOUS
  <2>1. Main \notin Workers /\ Workers \subseteq Threads /\ Clients \subseteq Threads
    BY ThreadAssumption DEF Threads
  <2>2. /\ \A w \in Workers : pc[w] = "off"
        /\ \A c \in Clients : pc[c] \in {"create", "off"} /\ mode[c] = ALIVE
    BY <2>1 DEF Init
  <2>3. /\ shutdown = ALIVE /\ accepted = 0 /\ memory = "live"
        /\ started = 0 /\ thread_count = 0
    BY DEF Init
  <2> QED BY <2>2, <2>3 DEF DrainInv, Unopened
<1> QED BY <1>1, DrainStep, Invariant, Ends, PTL DEF Spec

\* A pool freed by a graceful shutdown ran every task it had accepted, apart from those
\* threadpool_del cancelled.
THEOREM GracefulShutdownDrains == Spec => []GracefulDrains
<1>1. TypeOK /\ JoinOK /\ DrainInv /\ EveryTaskOnce => GracefulDrains
  <2> SUFFICES ASSUME TypeOK, JoinOK, DrainInv, EveryTaskOnce, memory # "live",
                      shutdown = GRACEFUL_SHUTDOWN
               PROVE  done \cup killed = 1 .. accepted
    BY DEF GracefulDrains
  <2>1. InFlight = {}
    BY DEF JoinOK, FreeIsSafe, InFlight
  <2>2. thread_count \in Nat /\ started \in Int /\ accepted \in Nat
    BY SizeAssumption DEF TypeOK, ControlType, HistoryType
  <2>3. count = 0
    BY <2>2 DEF DrainInv, Unopened, Drained, ALIVE, GRACEFUL_SHUTDOWN
  <2> QED BY <2>1, <2>2, <2>3 DEF EveryTaskOnce
<1>2. IInv => TypeOK
  BY DEF IInv
<1> QED BY <1>1, <1>2, Invariant, Ends, Drains, TasksRunOnce, PTL

-----------------------------------------------------------------------------
(* Without threadpool_del only an immediate shutdown cancels workers *)

Deleting == {"del_scan", "del_cancel", "del_join", "del_spawn"}

\* If nobody may delete, a worker is cancelled only in an immediate shutdown.
RevokeInv ==
  Deleters = {} =>
    /\ \A c \in Clients :
         /\ pc[c] \notin Deleting
         /\ pc[c] = "destroy_cancel" => shutdown = IMMEDIATE_SHUTDOWN
    /\ \A w \in Workers : cancelled[w] => shutdown = IMMEDIATE_SHUTDOWN

\* What every step keeps to: a shutdown is final, and nobody gets to a pthread_cancel
\* without a right to it.
Lawful ==
  /\ shutdown = IMMEDIATE_SHUTDOWN => shutdown' = shutdown
  /\ \A c \in Clients :
       /\ pc'[c] \in Deleting => pc[c] \in Deleting \/ Deleters # {}
       /\ pc'[c] = "destroy_cancel" =>
            pc[c] = "destroy_cancel" \/ shutdown = IMMEDIATE_SHUTDOWN
  /\ \A w \in Workers : cancelled'[w] =>
       cancelled[w] \/ \E c \in Clients : pc[c] \in {"del_cancel", "destroy_cancel"}

\* A lawful step keeps RevokeInv.
LEMMA LawfulStep == ASSUME RevokeInv, Lawful PROVE RevokeInv'
<1>1. Deleters = {} => \A c \in Clients :
        /\ pc'[c] \notin Deleting
        /\ pc'[c] = "destroy_cancel" => shutdown' = IMMEDIATE_SHUTDOWN
  BY DEF RevokeInv, Lawful
<1>2. ASSUME Deleters = {}, NEW w \in Workers, cancelled'[w]
      PROVE  shutdown' = IMMEDIATE_SHUTDOWN
  <2>1. cancelled[w] => shutdown = IMMEDIATE_SHUTDOWN
    BY <1>2, Zenon DEF RevokeInv
  <2>2. (\E c \in Clients : pc[c] \in {"del_cancel", "destroy_cancel"}) =>
          shutdown = IMMEDIATE_SHUTDOWN
    BY <1>2 DEF RevokeInv, Deleting
  <2> QED BY <1>2, <2>1, <2>2, Zenon DEF Lawful
<1> QED BY <1>1, <1>2, Zenon DEF RevokeInv, Workers

\* Every step is lawful.
LEMMA RevokeStep == TypeOK /\ IndexOK /\ RevokeInv /\ [Next]_vars => RevokeInv'
<1> SUFFICES ASSUME TypeOK, IndexOK, [Next]_vars PROVE Lawful
  BY LawfulStep
<1> USE ThreadAssumption DEF Workers, Threads, Deleting, IMMEDIATE_SHUTDOWN, ALIVE
<1>0. pc \in [Threads -> Labels] /\ cancelled \in [Workers -> BOOLEAN]
  BY DEF TypeOK, ThreadType, PthreadType
<1>create. ASSUME CreateInit \/ CreateInitFails \/ CreateCount \/ CreateSpawnFails
                  \/ CreateReturns
           PROVE  Lawful
  BY <1>0, <1>create DEF CreateInit, CreateInitFails, CreateCount, CreateSpawnFails,
     CreateReturns, Acquire, Cancel, Goto, Home, control, pthread, Lawful
<1>worker. ASSUME NEW w \in Workers, WorkerLookup(w) \/ WorkerLock(w) \/ WorkerWait(w) \/ WorkerGrab(w)
                                     \/ WorkerBegin(w) \/ WorkerEnd(w)
           PROVE  Lawful
  BY <1>0, <1>worker DEF WorkerLookup, WorkerLock, WorkerWait, WorkerGrab, WorkerBegin,
     WorkerEnd, Acquire, Cancel, Goto, Home, control, pthread, Lawful
<1>leave. ASSUME NEW w \in Workers, WorkerLeave(w) \/ WorkerUncount(w) \/ WorkerExit(w) \/ CancelInTask(w)
                                    \/ CancelInWait(w) \/ CancelInLeave(w) \/ SpuriousWake(w)
          PROVE  Lawful
  BY <1>0, <1>leave DEF WorkerLeave, WorkerUncount, WorkerExit, CancelInTask,
     CancelInWait, CancelInLeave, SpuriousWake, Acquire, Cancel, Goto, Home, control,
     pthread, Lawful
<1>add. ASSUME NEW t \in Threads, AddLock(t) \/ AddRefused(t) \/ AddReturns(t) \/ AddCall(t)
                                  \/ Undefined(t)
        PROVE  Lawful
  BY <1>0, <1>add DEF AddLock, AddRefused, AddReturns, AddCall, Undefined, Acquire,
     Cancel, Goto, Home, control, pthread, Lawful
<1>call. ASSUME NEW c \in Clients, DelCall(c) \/ DestroyCall(c)
         PROVE  Lawful
  BY <1>0, <1>call DEF DelCall, DestroyCall, Acquire, Cancel, Goto, Home, control,
     pthread, Lawful
<1>del. ASSUME NEW c \in Clients, DelScan(c) \/ DelCancel(c) \/ DelJoin(c) \/ DelSpawnFails(c)
        PROVE  Lawful
  BY <1>0, <1>del DEF DelScan, DelCancel, DelJoin, DelSpawnFails, Acquire, Cancel, Goto,
     Home, control, pthread, Lawful
<1>destroy. ASSUME NEW c \in Clients, DestroyLock(c) \/ DestroyAgain(c) \/ DestroyScan(c) \/ DestroyCancel(c)
                                      \/ DestroyJoin(c) \/ DestroyFree(c) \/ DestroyMutex(c)
            PROVE  Lawful
  BY <1>0, <1>destroy DEF DestroyLock, DestroyAgain, DestroyScan, DestroyCancel,
     DestroyJoin, DestroyFree, DestroyMutex, Acquire, Cancel, Goto, Home, control,
     pthread, Lawful
<1>CreateSpawn. ASSUME CreateSpawn PROVE Lawful
  <2>1. idx[Main] \notin Clients
    BY <1>CreateSpawn, SizeAssumption DEF CreateSpawn, TypeOK, ClientType
  <2> QED BY <1>0, <1>CreateSpawn, <2>1 DEF CreateSpawn, control, pthread, Lawful
<1>AddPut. ASSUME NEW t \in Threads, AddPut(t) PROVE Lawful
  <2>1. \A c \in Clients : pc'[c] = pc[c] \/ pc'[c] = "add_status"
    BY <1>0, <1>AddPut, AddPutPc DEF Waiters
  <2> QED BY <1>AddPut, <2>1 DEF AddPut, control, pthread, Lawful
<1>DelSpawn. ASSUME NEW c \in Clients, DelSpawn(c) PROVE Lawful
  <2>1. idx[c] \in Workers /\ idx[c] \notin Clients
    BY <1>DelSpawn, SizeAssumption DEF DelSpawn, IndexOK, TypeOK, ClientType, ControlType
  <2> QED BY <1>0, <1>DelSpawn, <2>1 DEF DelSpawn, control, Lawful
<1>DestroySet. ASSUME NEW c \in Clients, DestroySet(c) PROVE Lawful
  <2>1. \A d \in Clients : pc'[d] = pc[d] \/ pc'[d] = "destroy_scan"
    BY <1>0, <1>DestroySet, DestroySetPc DEF Waiters
  <2> QED BY <1>DestroySet, <2>1 DEF DestroySet, pthread, Lawful
<1>Unchanged. CASE UNCHANGED vars
  BY <1>Unchanged DEF vars, control, pthread, Lawful
<1> QED
  BY NextCases, <1>Unchanged, <1>create, <1>worker, <1>leave, <1>add, <1>call, <1>del,
     <1>destroy, <1>CreateSpawn, <1>AddPut, <1>DelSpawn, <1>DestroySet

-----------------------------------------------------------------------------
(* The pool implements WorkPool *)

Hands == {task[w].argument : w \in InFlight}

\* A steady step leaves the tasks in hand alone.
LEMMA HandsSteady == ASSUME Steady PROVE Hands' = Hands
<1>1. InFlight' = InFlight /\ \A w \in InFlight : task'[w] = task[w]
  BY DEF InFlight, Steady, Flying, Workers
<1> QED BY <1>1 DEF Hands

\* A task that lands was in one hand and is in none afterwards.
LEMMA HandsLanding ==
  ASSUME EveryTaskOnce, NEW w \in Workers, Landing(w)
  PROVE  task[w].argument \in Hands /\ Hands' = Hands \ {task[w].argument}
<1>1. InFlight' = InFlight \ {w} /\ w \in InFlight
  BY DEF InFlight, Landing, Flying, Workers
<1>2. /\ \A v \in InFlight' : task'[v] = task[v]
      /\ \A v \in InFlight \ {w} : task[v].argument # task[w].argument
  BY <1>1 DEF InFlight, Landing, EveryTaskOnce
<1> QED BY <1>1, <1>2 DEF Hands

\* Fewer tasks are in hand than there are workers while one of them looks at the ring.
LEMMA HandsFree ==
  ASSUME NEW w \in Workers, w \notin InFlight PROVE Cardinality(Hands) < THREAD_COUNT
<1>1. /\ IsFiniteSet(Workers \ {w}) /\ Cardinality(Workers \ {w}) = THREAD_COUNT - 1
  <2>1. IsFiniteSet(Workers) /\ Cardinality(Workers) = THREAD_COUNT
    BY SizeAssumption, FS_Interval DEF Workers
  <2> QED BY <2>1, FS_RemoveElement
<1>2. InFlight \in SUBSET (Workers \ {w})
  BY DEF InFlight
<1>3. /\ IsFiniteSet(InFlight) /\ Cardinality(InFlight) \in Nat
      /\ Cardinality(InFlight) <= THREAD_COUNT - 1
  BY <1>1, <1>2, FS_Subset, FS_CardinalityType
<1>4. [v \in InFlight |-> task[v].argument] \in Surjection(InFlight, Hands)
  BY Fun_IsSurj DEF Hands
<1>5. /\ Cardinality(Hands) <= Cardinality(InFlight) /\ Cardinality(Hands) \in Nat
  BY <1>3, <1>4, FS_Surjection, FS_CardinalityType
<1> QED BY <1>3, <1>5, SizeAssumption

\* The phase of WorkPool follows shutdown until the pool is freed.
LEMMA Phases ==
  ASSUME TypeOK, TypeOK'
  PROVE  /\ memory # "live" => phase = "released"
         /\ memory = "live" =>
              /\ shutdown = ALIVE => phase = "open"
              /\ shutdown = GRACEFUL_SHUTDOWN => phase = "draining"
              /\ shutdown = IMMEDIATE_SHUTDOWN => phase = "stopping"
         /\ memory' # "live" => phase' = "released"
         /\ memory' = "live" =>
              /\ shutdown' = ALIVE => phase' = "open"
              /\ shutdown' = GRACEFUL_SHUTDOWN => phase' = "draining"
              /\ shutdown' = IMMEDIATE_SHUTDOWN => phase' = "stopping"
         /\ shutdown \in {ALIVE, IMMEDIATE_SHUTDOWN, GRACEFUL_SHUTDOWN}
         /\ shutdown' \in {ALIVE, IMMEDIATE_SHUTDOWN, GRACEFUL_SHUTDOWN}
BY DEF phase, TypeOK, ControlType, ALIVE, IMMEDIATE_SHUTDOWN, GRACEFUL_SHUTDOWN

PoolInv == IInv /\ JoinOK /\ TaskInv /\ DrainInv /\ RevokeInv

\* Every step of the pool is one of WorkPool, or changes nothing WorkPool sees.
LEMMA PoolStep == PoolInv /\ PoolInv' /\ [Next]_vars => [Abstract!Next]_(Abstract!poolVars)
<1> SUFFICES ASSUME PoolInv, PoolInv', [Next]_vars
             PROVE  Abstract!Next \/ UNCHANGED Abstract!poolVars
  OBVIOUS
<1>0. /\ TypeOK /\ TypeOK' /\ RingOrder /\ IndexOK /\ JoinOK /\ TaskInv /\ EveryTaskOnce
      /\ DrainInv /\ RevokeInv /\ FreeIsSafe /\ FreeIsSafe' /\ ReplaceOK
  BY DEF PoolInv, IInv, TaskInv, JoinOK, ReplaceOK
<1>1. /\ accepted \in Nat /\ count \in Nat /\ count <= accepted /\ count <= QUEUE_SIZE
      /\ accepted' \in Nat /\ count' \in Nat /\ QUEUE_SIZE \in Nat
      /\ thread_count \in Nat /\ started \in Int
  BY <1>0, SizeAssumption DEF TypeOK, RingType, HistoryType, ControlType, TaskInv
<1>2. Abstract!poolVars = <<phase, accepted, accepted - count, Hands, done, killed>>
  BY DEF Abstract!poolVars, Hands
<1>3. \A w \in Workers : pc[w] \in Flying \cup {"check"} => memory = "live"
  BY <1>0 DEF FreeIsSafe, Flying
<1>4. memory # "live" =>
        \/ shutdown # ALIVE
        \/ thread_count = 0
  BY <1>0, <1>1 DEF DrainInv, Drained
<1>5. ALIVE # GRACEFUL_SHUTDOWN /\ ALIVE # IMMEDIATE_SHUTDOWN
      /\ GRACEFUL_SHUTDOWN # IMMEDIATE_SHUTDOWN
  BY DEF ALIVE, GRACEFUL_SHUTDOWN, IMMEDIATE_SHUTDOWN
<1>6. memory # "live" /\ memory' # "live" => phase' = phase
  BY <1>0, Phases
<1>7. memory # "live" => Hands = {}
  BY <1>0 DEF FreeIsSafe, InFlight, Hands
<1>8. memory' # "live" => Hands' = {}
  BY <1>0 DEF FreeIsSafe, InFlight, Hands
<1>Still. CASE Still
  <2>1. phase' = phase
    BY <1>0, <1>Still, Phases DEF Still
  <2>2. Hands' = Hands
    BY <1>Still, HandsSteady DEF Still
  <2> QED BY <1>2, <2>1, <2>2, <1>Still DEF Still, Steady, Abstract!poolVars, Hands
<1>Released. ASSUME memory = "live", memory' # "live", Hands' = Hands,
                    UNCHANGED <<accepted, count, shutdown, done, killed>>, DrainInv'
             PROVE  Abstract!Next
  <2>1. /\ started' <= 0 /\ thread_count' \in Nat /\ started' \in Int
        /\ (started' < thread_count' => Drained') /\ Unopened'
    BY <1>0, <1>Released, SizeAssumption DEF DrainInv, TypeOK, ControlType
  <2>2. Drained' \/ (shutdown' = ALIVE /\ accepted' = 0)
    BY <2>1 DEF Unopened
  <2>3. \/ phase = "open" /\ accepted = 0
        \/ phase = "draining" /\ accepted - count = accepted
        \/ phase = "stopping"
    BY <1>0, <1>1, <1>5, <2>2, <1>Released, Phases DEF Drained
  <2>4. phase' = "released" /\ Hands = {}
    BY <1>0, <1>8, <1>Released, Phases
  <2>5. Abstract!Release
    BY <2>3, <2>4, <1>Released DEF Abstract!Release, Hands
  <2> QED BY <2>5 DEF Abstract!Next
<1>CreateInitFails. CASE CreateInitFails
  <2>1. /\ memory = "live" /\ memory' # "live"
        /\ UNCHANGED <<accepted, count, shutdown, done, killed>> /\ Steady
    BY <1>0, <1>1, <1>CreateInitFails, ThreadAssumption
       DEF CreateInitFails, Goto, ring, seats, history, JoinOK, CreateAlone, Steady, Flying,
           TypeOK, ThreadType, SeatType, Threads, Workers
  <2> QED BY <2>1, <1>Released, HandsSteady DEF PoolInv
<1>AddPut. ASSUME NEW t \in Threads, AddPut(t) PROVE Abstract!Next
  <2>1. /\ accepted' = accepted + 1 /\ count' = count + 1 /\ count # QUEUE_SIZE
        /\ shutdown = ALIVE /\ UNCHANGED <<shutdown, memory, task, done, killed>>
        /\ pc[t] = "add_put"
    BY <1>AddPut DEF AddPut, Refused, IsFull, seats, control
  <2>2. thread_count # 0
    BY <1>0, <2>1 DEF DrainInv, Unopened, Threads
  <2>3. phase = "open" /\ phase' = phase
    BY <1>0, <1>4, <2>1, <2>2, Phases
  <2>4. Steady
    BY <1>0, <1>1, <1>AddPut, <2>1, AddPutPc, ThreadAssumption
       DEF Steady, Flying, Waiters, Workers, Threads
  <2>5. Hands' = Hands
    BY <2>4, HandsSteady
  <2>6. accepted - (accepted - count) < QUEUE_SIZE /\ accepted' - count' = accepted - count
    BY <1>1, <2>1
  <2>7. Abstract!Submit
    BY <2>1, <2>3, <2>5, <2>6 DEF Abstract!Submit, Hands
  <2> QED BY <2>7 DEF Abstract!Next
<1>WorkerGrab. ASSUME NEW w \in Workers, WorkerGrab(w) PROVE Abstract!Next
  <2> DEFINE n == accepted - count + 1
  <2>1. /\ count > 0 /\ shutdown # IMMEDIATE_SHUTDOWN /\ w \notin InFlight
        /\ UNCHANGED <<accepted, shutdown, memory, done, killed>> /\ count' = count - 1
        /\ memory = "live"
    BY <1>0, <1>1, <1>3, <1>WorkerGrab
       DEF WorkerGrab, MustWait, MustLeave, InFlight, control, history, TypeOK, ControlType,
           ALIVE, IMMEDIATE_SHUTDOWN, GRACEFUL_SHUTDOWN
  <2>2. NextTask.argument = n
    BY <1>0, <2>1, NextTaskIsTask
  <2>3. /\ InFlight' = InFlight \cup {w} /\ task'[w].argument = n
        /\ \A v \in InFlight : task'[v] = task[v]
    BY <1>0, <1>WorkerGrab, <2>1, <2>2
       DEF WorkerGrab, Goto, InFlight, TypeOK, ThreadType, SeatType, Workers, Threads
  <2>4. Hands' = Hands \cup {accepted - count + 1}
    BY <2>3 DEF Hands
  <2>5. Cardinality(Hands) < THREAD_COUNT
    BY <2>1, HandsFree
  <2>6. phase \in {"open", "draining"} /\ phase' = phase
    BY <1>0, <2>1, Phases
  <2>7. accepted - count < accepted /\ accepted' - count' = accepted - count + 1
    BY <1>1, <2>1
  <2>8. Abstract!Cardinality(Hands) = Cardinality(Hands)
    BY Zenon DEF Abstract!Cardinality, Cardinality
  <2>9. Abstract!Start
    BY <2>1, <2>4, <2>5, <2>6, <2>7, <2>8 DEF Abstract!Start, Hands
  <2> QED BY <2>9 DEF Abstract!Next
<1>Landing. ASSUME NEW w \in Workers, Landing(w), UNCHANGED <<shutdown, memory>>,
                   \/ done' = done \cup {task[w].argument} /\ killed' = killed
                   \/ /\ done' = done /\ killed' = killed \cup {task[w].argument}
                      /\ phase = "stopping" \/ Deleters # {}
            PROVE  Abstract!Next
  <2>1. PICK n \in Hands : n = task[w].argument /\ Hands' = Hands \ {n}
    BY <1>0, <1>Landing, HandsLanding
  <2>2. phase' = phase
    BY <1>0, <1>Landing, Phases
  <2>3. accepted' = accepted /\ count' = count
    BY <1>Landing DEF Landing
  <2>4. Abstract!Finish(n) \/ Abstract!Kill(n)
    BY <2>1, <2>2, <2>3, <1>Landing DEF Abstract!Finish, Abstract!Kill, Hands
  <2> QED BY <2>4 DEF Abstract!Next, Hands
<1>WorkerEnd. ASSUME NEW w \in Workers, WorkerEnd(w) PROVE Abstract!Next
  <2>1. /\ Landing(w) /\ UNCHANGED <<shutdown, memory>>
        /\ done' = done \cup {task[w].argument} /\ killed' = killed
    BY <1>0, <1>WorkerEnd DEF WorkerEnd, Goto, ring, control, Landing, Flying, TypeOK,
       ThreadType, SeatType, Workers, Threads
  <2> QED BY <2>1, <1>Landing
<1>CancelInTask. ASSUME NEW w \in Workers, CancelInTask(w) PROVE Abstract!Next
  <2>1. /\ Landing(w) /\ UNCHANGED <<shutdown, memory>>
        /\ done' = done /\ killed' = killed \cup {task[w].argument}
        /\ memory = "live"
    BY <1>0, <1>3, <1>CancelInTask DEF CancelInTask, Goto, ring, control, seats, Landing,
       Flying, TypeOK, ThreadType, SeatType, Workers, Threads
  <2>2. shutdown = IMMEDIATE_SHUTDOWN \/ Deleters # {}
    BY <1>0, <1>CancelInTask, Zenon DEF CancelInTask, RevokeInv
  <2>3. phase = "stopping" \/ Deleters # {}
    BY <1>0, <2>1, <2>2, Phases
  <2> QED BY <2>1, <2>3, <1>Landing
<1>DestroySet. ASSUME NEW c \in Clients, DestroySet(c)
               PROVE  Abstract!Next \/ UNCHANGED Abstract!poolVars
  <2>1. /\ shutdown = ALIVE /\ UNCHANGED <<accepted, count, memory, done, killed>>
        /\ shutdown' = mode[c] /\ pc[c] = "destroy_set"
    BY <1>DestroySet DEF DestroySet, ring, history
  <2>2. Hands' = Hands
    <3>1. Steady
      BY <1>0, <1>1, <1>DestroySet, DestroySetPc, ThreadAssumption DEF DestroySet, ring,
         seats, history, Waiters, Steady, Flying, Workers, Threads
    <3> QED BY <3>1, HandsSteady
  <2>3. memory # "live" => shutdown' = ALIVE
    BY <1>0, <1>4, <2>1 DEF DrainInv, Unopened
  <2>4. CASE memory = "live" /\ shutdown' # ALIVE
    <3>1. phase = "open" /\ phase' \in {"draining", "stopping"}
      BY <1>0, <2>1, <2>4, Phases
    <3>2. Abstract!Close(phase')
      BY <2>1, <2>2, <3>1 DEF Abstract!Close, Hands
    <3> QED BY <3>1, <3>2 DEF Abstract!Next
  <2>5. CASE memory # "live" \/ shutdown' = ALIVE
    <3>1. phase' = phase
      BY <1>0, <2>1, <2>3, <2>5, Phases
    <3> QED BY <2>1, <2>2, <3>1 DEF Abstract!poolVars, Hands
  <2> QED BY <2>4, <2>5
<1>DestroyFree. ASSUME NEW c \in Clients, DestroyFree(c)
                PROVE  Abstract!Next \/ UNCHANGED Abstract!poolVars
  <2>1. /\ UNCHANGED <<accepted, count, shutdown, done, killed>>
        /\ memory' = memory \/ memory' # "live"
    BY <1>DestroyFree DEF DestroyFree, ring, history
  <2>2. Hands' = Hands
    <3>1. Steady
      BY <1>0, <1>1, <1>DestroyFree, ThreadAssumption DEF DestroyFree, Goto, ring, seats,
         history, Steady, Flying, TypeOK, ThreadType, SeatType, Workers, Threads
    <3> QED BY <3>1, HandsSteady
  <2>3. CASE memory = "live" /\ memory' # "live"
    BY <1>Released, <2>1, <2>2, <2>3 DEF PoolInv
  <2>4. CASE memory # "live" \/ memory' = "live"
    <3>1. phase' = phase
      BY <1>0, <2>1, <2>4, Phases
    <3> QED BY <2>1, <2>2, <3>1 DEF Abstract!poolVars, Hands
  <2> QED BY <2>3, <2>4
<1> QED
  BY <1>0, <1>1, StepKinds, <1>Still, <1>CreateInitFails, <1>AddPut, <1>WorkerGrab,
     <1>WorkerEnd, <1>CancelInTask, <1>DestroySet, <1>DestroyFree

\* The pool, with its threads, mutex, ring and cancellations, implements WorkPool: tasks
\* start in the order they were accepted, at most thread_count run at once, each ends
\* once, and the pool is released in its proper phase.
THEOREM PoolRefines == Spec => ImplementsWorkPool
<1>1. Init => Abstract!Init
  <2> SUFFICES ASSUME Init PROVE Abstract!Init
    OBVIOUS
  <2>1. Hands = {}
    BY ThreadAssumption DEF Init, InFlight, Hands, Workers, Threads
  <2>2. phase = "open" /\ accepted = 0 /\ accepted - count = 0 /\ done = {} /\ killed = {}
    BY DEF Init, phase, ALIVE, GRACEFUL_SHUTDOWN, IMMEDIATE_SHUTDOWN
  <2> QED BY <2>1, <2>2 DEF Abstract!Init, Hands
<1>2. Init => RevokeInv
  BY ThreadAssumption DEF Init, RevokeInv, Deleting, Threads, Workers
<1>3. IInv => TypeOK /\ IndexOK
  BY DEF IInv
<1>4. Spec => []PoolInv
  BY <1>2, <1>3, RevokeStep, Invariant, Ends, Drains,
     TaskInvariant, PTL DEF Spec, PoolInv
<1> QED BY <1>1, <1>4, PoolStep, PTL DEF Spec, ImplementsWorkPool, Abstract!Spec

-----------------------------------------------------------------------------
(* The mutex is abandoned in two ways *)

\* A client that returned with the mutex gets no further than to its next lock; a worker that
\* died with it stays cancelled until a threadpool_del replaces it.
AbandonInv ==
  lock # None /\ pc[lock] \notin Critical =>
    IF lock \in Workers THEN cancelled[lock] \/ calls.del > 0
    ELSE /\ ret[lock] = "shutdown"
         /\ pc[lock] \in Deleting \cup {"idle", "add_lock", "destroy_lock"}

\* Who is in threadpool_del has called it.
DelCounted == \A c \in Clients : pc[c] \in Deleting => calls.del > 0

\* No step leaves the mutex in another way.
LEMMA AbandonStep ==
  TypeOK /\ IndexOK /\ JoinOK /\ DelCounted /\ AbandonInv /\ [Next]_vars =>
    DelCounted' /\ AbandonInv'
<1> SUFFICES ASSUME TypeOK, IndexOK, Uncounted, DelCounted, AbandonInv, [Next]_vars
             PROVE  DelCounted' /\ AbandonInv'
  BY DEF JoinOK
<1> USE DEF Deleting, Critical, DelCounted, AbandonInv
<1>0. /\ pc \in [Threads -> Labels] /\ cancelled \in [Workers -> BOOLEAN]
      /\ lock \in Threads \cup {None} /\ calls \in [add : Nat, del : Nat, destroy : Nat]
      /\ ret \in [Clients -> {"none", "ok", "shutdown"}]
      /\ Main \in Clients /\ Clients \cap Workers = {} /\ None \notin Threads
      /\ Threads = Workers \cup Clients
  BY ThreadAssumption DEF TypeOK, ThreadType, PthreadType, ClientType, Threads
<1>create. ASSUME CreateInit \/ CreateInitFails \/ CreateCount \/ CreateSpawnFails \/
                  CreateReturns
           PROVE  DelCounted' /\ AbandonInv'
  BY <1>0, <1>create DEF CreateInit, CreateInitFails, CreateCount, CreateSpawnFails,
     CreateReturns, Acquire, Cancel, Goto, Home, CanCall, pthread, client
<1>worker. ASSUME NEW w \in Workers, WorkerLookup(w) \/ WorkerLock(w) \/ WorkerWait(w) \/
                  WorkerGrab(w) \/ WorkerBegin(w) \/ WorkerEnd(w)
           PROVE  DelCounted' /\ AbandonInv'
  BY <1>0, <1>worker DEF WorkerLookup, WorkerLock, WorkerWait, WorkerGrab, WorkerBegin,
     WorkerEnd, Acquire, Cancel, Goto, Home, CanCall, pthread, client
<1>leave. ASSUME NEW w \in Workers, WorkerLeave(w) \/ WorkerUncount(w) \/ WorkerExit(w) \/
                 CancelInTask(w) \/ CancelInWait(w) \/ CancelInLeave(w) \/ SpuriousWake(w)
          PROVE  DelCounted' /\ AbandonInv'
  BY <1>0, <1>leave DEF WorkerLeave, WorkerUncount, WorkerExit, CancelInTask, CancelInWait,
     CancelInLeave, SpuriousWake, Acquire, Cancel, Goto, Home, CanCall, pthread, client
<1>add. ASSUME NEW t \in Threads, AddLock(t) \/ AddRefused(t) \/ AddReturns(t) \/ AddCall(t)
               \/ Undefined(t)
        PROVE  DelCounted' /\ AbandonInv'
  BY <1>0, <1>add DEF AddLock, AddRefused, AddReturns, AddCall, Undefined, Acquire, Cancel,
     Goto, Home, CanCall, pthread, client
<1>call. ASSUME NEW c \in Clients, DelCall(c) \/ DestroyCall(c)
         PROVE  DelCounted' /\ AbandonInv'
  BY <1>0, <1>call DEF DelCall, DestroyCall, Acquire, Cancel, Goto, Home, CanCall, pthread,
     client
<1>del. ASSUME NEW c \in Clients, DelScan(c) \/ DelCancel(c) \/ DelJoin(c) \/
               DelSpawnFails(c)
        PROVE  DelCounted' /\ AbandonInv'
  BY <1>0, <1>del DEF DelScan, DelCancel, DelJoin, DelSpawnFails, Acquire, Cancel, Goto,
     Home, CanCall, pthread, client
<1>destroy. ASSUME NEW c \in Clients, DestroyLock(c) \/ DestroyAgain(c) \/ DestroyScan(c) \/
                   DestroyCancel(c) \/ DestroyJoin(c) \/ DestroyFree(c) \/ DestroyMutex(c)
            PROVE  DelCounted' /\ AbandonInv'
  BY <1>0, <1>destroy DEF DestroyLock, DestroyAgain, DestroyScan, DestroyCancel,
     DestroyJoin, DestroyFree, DestroyMutex, Acquire, Cancel, Goto, Home, CanCall, pthread,
     client
<1>CreateSpawn. ASSUME CreateSpawn
                PROVE  DelCounted' /\ AbandonInv'
  <2>1. idx[Main] \in Workers /\ idx[Main] # Main
    BY <1>CreateSpawn, <1>0, SizeAssumption DEF CreateSpawn, TypeOK, ClientType, Workers
  <2>2. pc[idx[Main]] = "off"
    BY <1>CreateSpawn, <2>1, <1>0, SizeAssumption DEF CreateSpawn, IndexOK, Uncounted, Workers
  <2> QED BY <1>0, <1>CreateSpawn, <2>1, <2>2 DEF CreateSpawn, pthread, client
<1>AddPut. ASSUME NEW t \in Threads, AddPut(t)
           PROVE  DelCounted' /\ AbandonInv'
  <2>1. lock' = None /\ \A c \in Clients : pc'[c] = pc[c] \/ pc'[c] = "add_status"
    BY <1>0, <1>AddPut, AddPutPc DEF AddPut, Waiters
  <2> QED BY <1>0, <1>AddPut, <2>1 DEF AddPut, client
<1>DelSpawn. ASSUME NEW c \in Clients, DelSpawn(c)
             PROVE  DelCounted' /\ AbandonInv'
  <2>1. idx[c] \in Workers /\ idx[c] \notin Clients
    BY <1>DelSpawn, <1>0, SizeAssumption DEF DelSpawn, IndexOK, TypeOK, ClientType,
       ControlType, Workers
  <2> QED BY <1>0, <1>DelSpawn, <2>1 DEF DelSpawn, client
<1>DestroySet. ASSUME NEW c \in Clients, DestroySet(c)
               PROVE  DelCounted' /\ AbandonInv'
  <2>1. lock' = None /\ \A d \in Clients : pc'[d] = pc[d] \/ pc'[d] = "destroy_scan"
    BY <1>0, <1>DestroySet, DestroySetPc DEF DestroySet, Waiters
  <2> QED BY <1>0, <1>DestroySet, <2>1 DEF DestroySet, client
<1>Unchanged. CASE UNCHANGED vars
  BY <1>Unchanged DEF vars, pthread, client
<1> QED
  BY NextCases, <1>Unchanged, <1>create, <1>worker, <1>leave, <1>add, <1>call, <1>del,
     <1>destroy, <1>CreateSpawn, <1>AddPut, <1>DelSpawn, <1>DestroySet

\* The invariant holds.
THEOREM Abandoned == Spec => [](DelCounted /\ AbandonInv)
<1>1. Init => DelCounted /\ AbandonInv
  BY ThreadAssumption DEF Init, DelCounted, AbandonInv, Deleting, Threads, Workers
<1>2. IInv => TypeOK /\ IndexOK
  BY DEF IInv
<1> QED BY <1>1, <1>2, AbandonStep, Invariant, Ends, PTL DEF Spec

\* The mutex is left locked only by a worker that was cancelled with it or by a second
\* destroy (threadpool.c:186), for any number of threads and calls.
THEOREM AbandonedTwoWays == Spec => []MutexAbandoned
<1>1. AbandonInv => MutexAbandoned
  BY DEF AbandonInv, MutexAbandoned
<1> QED BY <1>1, Abandoned, PTL

-----------------------------------------------------------------------------
(* Whom an immediate shutdown cancels *)

\* While nobody deletes, a worker is cancelled because the type in its slot is not 0, and
\* that is the type of the task it runs: after an immediate shutdown no worker takes another.
HolderInv ==
  calls.del = 0 =>
    /\ \A w \in Workers : cancelled[w] => shutdown = IMMEDIATE_SHUTDOWN
    /\ \A c \in Clients : pc[c] = "destroy_cancel" =>
         /\ shutdown = IMMEDIATE_SHUTDOWN /\ idx[c] \in Workers
         /\ idx[c] \in InFlight => slot[idx[c]].thread_type # 0
    /\ \A w \in InFlight : /\ slot[w].thread_type = task[w].function_type
                           /\ cancelled[w] => slot[w].thread_type # 0

\* A step that takes no task and cancels nobody, and finds whom to cancel by its slot.
Untouched ==
  /\ calls'.del = 0 => calls.del = 0
  /\ shutdown = IMMEDIATE_SHUTDOWN => shutdown' = IMMEDIATE_SHUTDOWN
  /\ \A w \in Workers : cancelled'[w] = cancelled[w]
  /\ \A w \in InFlight' : /\ w \in InFlight /\ task'[w] = task[w]
                          /\ slot'[w].thread_type = slot[w].thread_type
  /\ \A c \in Clients : pc'[c] = "destroy_cancel" =>
       \/ pc[c] = "destroy_cancel" /\ idx'[c] = idx[c]
       \/ /\ shutdown = IMMEDIATE_SHUTDOWN /\ idx'[c] \in Workers
          /\ slot[idx'[c]].thread_type # 0

\* Such a step keeps HolderInv.
LEMMA UntouchedStep == ASSUME HolderInv, Untouched PROVE HolderInv'
BY DEF HolderInv, Untouched, InFlight

\* So does every other one.
LEMMA HolderStep == TypeOK /\ IndexOK /\ DelCounted /\ HolderInv /\ [Next]_vars => HolderInv'
<1> SUFFICES ASSUME TypeOK, IndexOK, DelCounted, HolderInv, [Next]_vars PROVE HolderInv'
  OBVIOUS
<1>0. /\ pc \in [Threads -> Labels] /\ cancelled \in [Workers -> BOOLEAN]
      /\ calls \in [add : Nat, del : Nat, destroy : Nat]
      /\ slot \in [Workers -> Slot] /\ task \in [Workers -> Task \cup {None}]
      /\ idx \in [Clients -> 0 .. THREAD_COUNT]
      /\ Main \in Clients /\ Clients \cap Workers = {} /\ Threads = Workers \cup Clients
  BY ThreadAssumption DEF TypeOK, ThreadType, SeatType, PthreadType, ClientType, Threads
<1>create. ASSUME CreateInit \/ CreateInitFails \/ CreateCount \/ CreateSpawnFails \/
                  CreateReturns
           PROVE  HolderInv'
  BY <1>0, UntouchedStep, <1>create DEF CreateInit, CreateInitFails, CreateCount,
     CreateSpawnFails, CreateReturns, Acquire, Goto, Home, control, seats, pthread, client,
     InFlight, Untouched
<1>WorkerGrab. ASSUME NEW w \in Workers, WorkerGrab(w)
               PROVE  HolderInv'
  <2>1. /\ shutdown # IMMEDIATE_SHUTDOWN /\ Goto(w, "begin")
        /\ task' = [task EXCEPT ![w] = NextTask]
        /\ slot' = [slot EXCEPT ![w].thread_type = NextTask.function_type]
        /\ UNCHANGED <<shutdown, cancelled, calls, idx>>
    BY <1>WorkerGrab DEF WorkerGrab, MustLeave, control, pthread, client
  <2>2. \A v \in InFlight' :
          \/ v = w /\ slot'[v].thread_type = NextTask.function_type /\ task'[v] = NextTask
          \/ v \in InFlight /\ slot'[v] = slot[v] /\ task'[v] = task[v]
    BY <1>0, <2>1 DEF Goto, InFlight
  <2>3. \A c \in Clients : pc'[c] = pc[c]
    BY <1>0, <2>1 DEF Goto
  <2>4. calls.del = 0 =>
          /\ \A v \in Workers : ~cancelled[v]
          /\ \A c \in Clients : pc[c] # "destroy_cancel"
    BY <1>0, <2>1 DEF HolderInv
  <2> QED BY <2>1, <2>2, <2>3, <2>4 DEF HolderInv, InFlight
<1>WorkerBegin. ASSUME NEW w \in Workers, WorkerBegin(w)
                PROVE  HolderInv'
  <2>1. /\ pc[w] = "begin" /\ Goto(w, "run") /\ UNCHANGED <<control, task, pthread, client>>
        /\ slot' = [slot EXCEPT ![w] = [@ EXCEPT !.thread_busy = TRUE,
                                                !.thread_func = task[w].func_ptr]]
    BY <1>WorkerBegin DEF WorkerBegin
  <2>2. \A v \in Workers : slot'[v].thread_type = slot[v].thread_type
    BY <1>0, <2>1 DEF Slot
  <2>3. Untouched
    BY <1>0, <2>1, <2>2 DEF Goto, control, pthread, client, InFlight, Untouched
  <2> QED BY <2>3, UntouchedStep
<1>WorkerEnd. ASSUME NEW w \in Workers, WorkerEnd(w)
              PROVE  HolderInv'
  BY <1>0, UntouchedStep, <1>WorkerEnd DEF WorkerEnd, Acquire, Goto, Home, control, seats,
     pthread, client, InFlight, Untouched
<1>worker. ASSUME NEW w \in Workers, WorkerLookup(w) \/ WorkerLock(w) \/ WorkerWait(w)
           PROVE  HolderInv'
  BY <1>0, UntouchedStep, <1>worker DEF WorkerLookup, WorkerLock, WorkerWait, Acquire, Goto,
     Home, control, seats, pthread, client, InFlight, Untouched
<1>leave. ASSUME NEW w \in Workers, WorkerLeave(w) \/ WorkerUncount(w) \/ WorkerExit(w) \/
                 CancelInTask(w) \/ CancelInWait(w) \/ CancelInLeave(w) \/ SpuriousWake(w)
          PROVE  HolderInv'
  BY <1>0, UntouchedStep, <1>leave DEF WorkerLeave, WorkerUncount, WorkerExit, CancelInTask,
     CancelInWait, CancelInLeave, SpuriousWake, Acquire, Goto, Home, control, seats,
     pthread, client, InFlight, Untouched
<1>add. ASSUME NEW t \in Threads, AddLock(t) \/ AddRefused(t) \/ AddReturns(t) \/ AddCall(t)
               \/ Undefined(t)
        PROVE  HolderInv'
  BY <1>0, UntouchedStep, <1>add DEF AddLock, AddRefused, AddReturns, AddCall, Undefined,
     Acquire, Goto, Home, control, seats, pthread, client, InFlight, Untouched
<1>DelCall. ASSUME NEW c \in Clients, DelCall(c)
            PROVE  HolderInv'
  <2>1. calls'.del > 0
    BY <1>0, <1>DelCall DEF DelCall
  <2> QED BY <2>1 DEF HolderInv
<1>call. ASSUME NEW c \in Clients, DestroyCall(c)
         PROVE  HolderInv'
  BY <1>0, UntouchedStep, <1>call DEF DestroyCall, Acquire, Goto, Home, control, seats,
     pthread, client, InFlight, Untouched
<1>delete. ASSUME NEW c \in Clients, DelScan(c) \/ DelCancel(c) \/ DelJoin(c) \/
                  DelSpawnFails(c) \/ DelSpawn(c)
           PROVE  HolderInv'
  <2>1. calls' = calls /\ pc[c] \in Deleting
    BY <1>delete DEF DelScan, DelCancel, DelJoin, DelSpawnFails, DelSpawn, Cancel, client,
       Deleting
  <2> QED BY <2>1 DEF HolderInv, DelCounted
<1>DestroyScan. ASSUME NEW c \in Clients, DestroyScan(c)
                PROVE  HolderInv'
  <2>1. /\ pc[c] = "destroy_scan" /\ UNCHANGED <<control, seats, pthread, calls>>
        /\ \A u \in Threads \ {c} : pc'[u] = pc[u]
        /\ pc'[c] = "destroy_cancel" => /\ shutdown = IMMEDIATE_SHUTDOWN /\ idx' = idx
                                        /\ idx[c] < thread_count /\ slot[idx[c]].thread_type # 0
    BY <1>0, <1>DestroyScan DEF DestroyScan, Goto
  <2>2. pc'[c] = "destroy_cancel" => idx'[c] \in Workers
    BY <2>1, SizeAssumption DEF Workers, TypeOK, ClientType, ControlType
  <2>3. \A d \in Clients \ {c} : idx'[d] = idx[d]
    BY <1>0, <1>DestroyScan DEF DestroyScan
  <2>4. Untouched
    BY <1>0, <2>1, <2>2, <2>3 DEF control, seats, pthread, InFlight, Untouched
  <2> QED BY <2>4, UntouchedStep
<1>DestroyCancel. ASSUME NEW c \in Clients, DestroyCancel(c)
                  PROVE  HolderInv'
  <2>1. /\ pc[c] = "destroy_cancel" /\ Goto(c, "destroy_scan")
        /\ cancelled' = [cancelled EXCEPT ![idx[c]] = TRUE]
        /\ idx' = [idx EXCEPT ![c] = @ + 1] /\ UNCHANGED <<shutdown, slot, task, calls>>
    BY <1>DestroyCancel DEF DestroyCancel, Cancel, control, seats
  <2>2. InFlight' = InFlight /\ \A d \in Clients : pc'[d] = "destroy_cancel" =>
                                  pc[d] = "destroy_cancel" /\ idx'[d] = idx[d]
    BY <1>0, <2>1 DEF Goto, InFlight
  <2>3. \A v \in Workers : cancelled'[v] => cancelled[v] \/ v = idx[c]
    BY <1>0, <2>1
  <2> QED BY <2>1, <2>2, <2>3 DEF HolderInv, InFlight
<1>destroy. ASSUME NEW c \in Clients, DestroyLock(c) \/ DestroyAgain(c) \/ DestroyJoin(c) \/
                   DestroyFree(c) \/ DestroyMutex(c)
            PROVE  HolderInv'
  BY <1>0, UntouchedStep, <1>destroy DEF DestroyLock, DestroyAgain, DestroyJoin,
     DestroyFree, DestroyMutex, Acquire, Goto, Home, control, seats, pthread, client,
     InFlight, Untouched
<1>CreateSpawn. ASSUME CreateSpawn
                PROVE  HolderInv'
  <2>1. idx[Main] \in Workers /\ idx[Main] # Main
    BY <1>0, <1>CreateSpawn, SizeAssumption DEF CreateSpawn, TypeOK, ClientType, Workers
  <2>2. Untouched
    BY <1>0, <1>CreateSpawn, <2>1 DEF CreateSpawn, control, seats, pthread, client, InFlight,
       Untouched
  <2> QED BY <2>2, UntouchedStep
<1>AddPut. ASSUME NEW t \in Threads, AddPut(t)
           PROVE  HolderInv'
  <2>1. /\ \A c \in Clients : pc'[c] = pc[c] \/ pc'[c] = "add_status"
        /\ \A w \in Workers : pc'[w] = pc[w] \/ pc'[w] = "lock" \/ pc[w] = "add_put"
    BY <1>0, <1>AddPut, AddPutPc DEF AddPut, Waiters
  <2>2. Untouched
    BY <1>0, <1>AddPut, <2>1 DEF AddPut, control, seats, pthread, client, InFlight, Untouched
  <2> QED BY <2>2, UntouchedStep
<1>DestroySet. ASSUME NEW c \in Clients, DestroySet(c)
               PROVE  HolderInv'
  <2>1. \A u \in Threads : pc'[u] = pc[u] \/ pc'[u] \in {"destroy_scan", "lock"}
    BY <1>0, <1>DestroySet, DestroySetPc DEF DestroySet, Waiters
  <2>2. Untouched
    BY <1>0, <1>DestroySet, <2>1 DEF DestroySet, pthread, client, seats, InFlight, Untouched,
       ALIVE, IMMEDIATE_SHUTDOWN
  <2> QED BY <2>2, UntouchedStep
<1>Unchanged. CASE UNCHANGED vars
  BY <1>Unchanged, UntouchedStep DEF vars, control, seats, pthread, client, InFlight, Untouched
<1> QED
  BY NextCases, <1>Unchanged, <1>create, <1>WorkerGrab, <1>WorkerBegin, <1>WorkerEnd,
     <1>worker, <1>leave, <1>add, <1>DelCall, <1>call, <1>delete, <1>DestroyScan,
     <1>DestroyCancel, <1>destroy, <1>CreateSpawn, <1>AddPut, <1>DestroySet

\* Without threadpool_del, an immediate shutdown cancels only workers whose task is of a type
\* that holds its thread, although it reads thread_type without the mutex (threadpool.c:200).
THEOREM HoldersCancelled == Spec => []CancelsHoldersOnly
<1>1. Init => HolderInv
  BY ThreadAssumption DEF Init, HolderInv, InFlight, Threads
<1>2. HolderInv => CancelsHoldersOnly
  BY DEF HolderInv, CancelsHoldersOnly, InFlight
<1>3. IInv => TypeOK /\ IndexOK
  BY DEF IInv
<1> QED BY <1>1, <1>2, <1>3, HolderStep, Invariant, Abandoned, PTL DEF Spec

-----------------------------------------------------------------------------
(* What one threadpool_del may kill *)

\* The workers that may still die of a cancellation, and the dels that have yet to cancel.
Doomed  == {w \in Workers : cancelled[w] /\ pc[w] # "dead"}
Hunting == {c \in Clients : pc[c] \in {"del_scan", "del_cancel"}}

\* Tasks killed, workers about to die and cancellations to come are paid for by one del each,
\* unless an immediate shutdown cancels as well.
SpendInv ==
  /\ IsFiniteSet(killed) /\ IsFiniteSet(Hunting)
  /\ \A c \in Clients : pc[c] = "destroy_cancel" => shutdown = IMMEDIATE_SHUTDOWN
  /\ shutdown # IMMEDIATE_SHUTDOWN =>
       Cardinality(killed) + Cardinality(Doomed) + Cardinality(Hunting) <= calls.del

\* A step that neither kills nor cancels nor begins a del.
Spares ==
  /\ killed' = killed /\ calls'.del = calls.del
  /\ shutdown = IMMEDIATE_SHUTDOWN => shutdown' = IMMEDIATE_SHUTDOWN
  /\ \A w \in Workers : cancelled'[w] /\ pc'[w] # "dead" => cancelled[w] /\ pc[w] # "dead"
  /\ \A c \in Clients :
       /\ pc'[c] \in {"del_scan", "del_cancel"} => pc[c] \in {"del_scan", "del_cancel"}
       /\ pc'[c] = "destroy_cancel" =>
            pc[c] = "destroy_cancel" \/ shutdown' = IMMEDIATE_SHUTDOWN

\* Finitely many workers may die.
LEMMA FiniteDoomed == IsFiniteSet(Doomed) /\ IsFiniteSet(Workers)
<1>1. IsFiniteSet(Workers)
  BY FiniteWorkers
<1> QED BY <1>1, FS_Subset DEF Doomed

\* Such a step keeps the balance.
LEMMA SparesStep == ASSUME TypeOK, SpendInv, Spares PROVE SpendInv'
<1>1. Doomed' \subseteq Doomed /\ Hunting' \subseteq Hunting
  <2>1. Hunting' \subseteq Hunting
    BY DEF Spares, Hunting
  <2>2. Doomed' \subseteq Doomed
    BY Zenon DEF Spares, Doomed
  <2> QED BY <2>1, <2>2
<1>2. /\ IsFiniteSet(Hunting') /\ Cardinality(Hunting') <= Cardinality(Hunting)
      /\ Cardinality(Hunting) \in Nat /\ Cardinality(Hunting') \in Nat
  BY <1>1, FS_Subset, FS_CardinalityType DEF SpendInv
<1>3. /\ Cardinality(Doomed') <= Cardinality(Doomed)
      /\ Cardinality(Doomed) \in Nat /\ Cardinality(Doomed') \in Nat
  BY <1>1, FiniteDoomed, FS_Subset, FS_CardinalityType
<1>4. Cardinality(killed) \in Nat /\ calls.del \in Nat
  BY FS_CardinalityType DEF SpendInv, TypeOK, ClientType
<1> QED BY <1>2, <1>3, <1>4 DEF SpendInv, Spares

\* Every step keeps it: a del pays when it is called, a cancellation moves the debt from the
\* del to a worker, and a death from the worker to the task.
LEMMA SpendStep == TypeOK /\ IndexOK /\ JoinOK /\ SpendInv /\ [Next]_vars => SpendInv'
<1> SUFFICES ASSUME TypeOK, IndexOK, Uncounted, SpendInv, [Next]_vars PROVE SpendInv'
  BY DEF JoinOK
<1>0. /\ pc \in [Threads -> Labels] /\ cancelled \in [Workers -> BOOLEAN]
      /\ calls \in [add : Nat, del : Nat, destroy : Nat]
      /\ Main \in Clients /\ Clients \cap Workers = {}
      /\ Threads = Workers \cup Clients
  BY ThreadAssumption DEF TypeOK, ThreadType, PthreadType, ClientType, Threads
<1>1. IsFiniteSet(Doomed) /\ IsFiniteSet(Workers)
  BY FiniteDoomed
<1>create. ASSUME CreateInit \/ CreateInitFails \/ CreateCount \/ CreateSpawnFails \/
                  CreateReturns
           PROVE  SpendInv'
  BY <1>0, SparesStep, <1>create DEF CreateInit, CreateInitFails, CreateCount,
     CreateSpawnFails, CreateReturns, Acquire, Cancel, Goto, Home, control, pthread, client,
     history, Spares
<1>worker. ASSUME NEW w \in Workers, WorkerLookup(w) \/ WorkerLock(w) \/ WorkerWait(w) \/
                  WorkerGrab(w) \/ WorkerBegin(w) \/ WorkerEnd(w)
           PROVE  SpendInv'
  BY <1>0, SparesStep, <1>worker DEF WorkerLookup, WorkerLock, WorkerWait, WorkerGrab,
     WorkerBegin, WorkerEnd, Acquire, Cancel, Goto, Home, control, pthread, client, history,
     Spares
<1>CancelInTask. ASSUME NEW w \in Workers, CancelInTask(w)
                 PROVE  SpendInv'
  <2>1. /\ cancelled[w] /\ pc[w] \in {"run", "add_status"} /\ Goto(w, "dead")
        /\ killed' = killed \cup {task[w].argument}
        /\ UNCHANGED <<shutdown, cancelled, calls>>
    BY <1>CancelInTask DEF CancelInTask, control, pthread, client
  <2>2. w \in Doomed /\ Doomed' = Doomed \ {w} /\ Hunting' = Hunting
    BY <1>0, <2>1 DEF Doomed, Hunting, Goto
  <2>3. /\ Cardinality(Doomed') = Cardinality(Doomed) - 1 /\ Cardinality(Doomed) \in Nat
        /\ Cardinality(killed') <= Cardinality(killed) + 1 /\ IsFiniteSet(killed')
        /\ Cardinality(killed) \in Nat /\ Cardinality(killed') \in Nat
    <3>1. Cardinality(Doomed') = Cardinality(Doomed) - 1
      BY <1>1, <2>2, FS_RemoveElement
    <3>2. IsFiniteSet(killed') /\ Cardinality(killed') \in {Cardinality(killed),
       Cardinality(killed) + 1}
      BY <2>1, FS_AddElement DEF SpendInv
    <3>3. Cardinality(Doomed) \in Nat /\ Cardinality(killed) \in Nat
      BY <1>1, FS_CardinalityType DEF SpendInv
    <3> QED BY <3>1, <3>2, <3>3
  <2>4. \A c \in Clients : pc'[c] = pc[c]
    BY <1>0, <2>1 DEF Goto
  <2>5. Cardinality(Hunting) \in Nat
    BY FS_CardinalityType DEF SpendInv
  <2> QED BY <1>0, <2>1, <2>2, <2>3, <2>4, <2>5 DEF SpendInv
<1>leave. ASSUME NEW w \in Workers, WorkerLeave(w) \/ WorkerUncount(w) \/ WorkerExit(w) \/
                 CancelInWait(w) \/ CancelInLeave(w) \/ SpuriousWake(w)
          PROVE  SpendInv'
  BY <1>0, SparesStep, <1>leave DEF WorkerLeave, WorkerUncount, WorkerExit, CancelInWait,
     CancelInLeave, SpuriousWake, Acquire, Cancel, Goto, Home, control, pthread, client,
     history, Spares
<1>add. ASSUME NEW t \in Threads, AddLock(t) \/ AddRefused(t) \/ AddReturns(t) \/ AddCall(t)
               \/ Undefined(t)
        PROVE  SpendInv'
  BY <1>0, SparesStep, <1>add DEF AddLock, AddRefused, AddReturns, AddCall, Undefined,
     Acquire, Cancel, Goto, Home, control, pthread, client, history, Spares
<1>DelCall. ASSUME NEW c \in Clients, DelCall(c)
            PROVE  SpendInv'
  <2>1. /\ pc[c] = "idle" /\ Goto(c, "del_scan") /\ calls' = [calls EXCEPT !.del = @ + 1]
        /\ UNCHANGED <<shutdown, cancelled, killed>>
    BY <1>DelCall DEF DelCall, CanCall, control, pthread, history
  <2>2. c \notin Hunting /\ Hunting' = Hunting \cup {c} /\ Doomed' = Doomed
    BY <1>0, <2>1 DEF Doomed, Hunting, Goto
  <2>3. /\ Cardinality(Hunting') = Cardinality(Hunting) + 1 /\ IsFiniteSet(Hunting')
        /\ Cardinality(Hunting) \in Nat
    BY <2>2, FS_AddElement, FS_CardinalityType DEF SpendInv
  <2>4. calls'.del = calls.del + 1 /\ calls.del \in Nat
    BY <1>0, <2>1
  <2>5. Cardinality(Doomed) \in Nat /\ Cardinality(killed) \in Nat
    BY <1>1, FS_CardinalityType DEF SpendInv
  <2>6. \A d \in Clients : pc'[d] = "destroy_cancel" => pc[d] = "destroy_cancel"
    BY <1>0, <2>1 DEF Goto
  <2> QED BY <1>0, <2>1, <2>2, <2>3, <2>4, <2>5, <2>6 DEF SpendInv
<1>call. ASSUME NEW c \in Clients, DestroyCall(c)
         PROVE  SpendInv'
  BY <1>0, SparesStep, <1>call DEF DestroyCall, Acquire, Cancel, Goto, Home, control,
     pthread, client, history, Spares
<1>DelCancel. ASSUME NEW c \in Clients, DelCancel(c)
              PROVE  SpendInv'
  <2>1. /\ pc[c] = "del_cancel" /\ Goto(c, "del_join")
        /\ cancelled' = [cancelled EXCEPT ![idx[c]] = TRUE]
        /\ UNCHANGED <<shutdown, calls, killed>>
    BY <1>DelCancel DEF DelCancel, Cancel, control, history
  <2>2. c \in Hunting /\ Hunting' = Hunting \ {c} /\ Doomed' \subseteq Doomed \cup {idx[c]}
    BY <1>0, <2>1 DEF Doomed, Hunting, Goto
  <2>3. /\ Cardinality(Hunting') = Cardinality(Hunting) - 1 /\ IsFiniteSet(Hunting')
        /\ Cardinality(Hunting) \in Nat /\ Cardinality(Hunting') \in Nat
    BY <2>2, FS_RemoveElement, FS_CardinalityType DEF SpendInv
  <2>4. /\ Cardinality(Doomed') <= Cardinality(Doomed) + 1 /\ Cardinality(Doomed) \in Nat
        /\ Cardinality(Doomed') \in Nat
    <3>1. /\ IsFiniteSet(Doomed \cup {idx[c]})
          /\ Cardinality(Doomed \cup {idx[c]}) <= Cardinality(Doomed) + 1
          /\ Cardinality(Doomed) \in Nat
      <4>1. /\ IsFiniteSet(Doomed \cup {idx[c]})
            /\ Cardinality(Doomed \cup {idx[c]}) \in {Cardinality(Doomed),
               Cardinality(Doomed) + 1}
        BY <1>1, FS_AddElement
      <4>2. Cardinality(Doomed) \in Nat
        BY <1>1, FS_CardinalityType
      <4> QED BY <4>1, <4>2
    <3> QED BY <2>2, <3>1, FS_Subset, FS_CardinalityType
  <2>5. Cardinality(killed) \in Nat
    BY FS_CardinalityType DEF SpendInv
  <2>6. \A d \in Clients : pc'[d] = "destroy_cancel" => pc[d] = "destroy_cancel"
    BY <1>0, <2>1 DEF Goto
  <2> QED BY <1>0, <2>1, <2>2, <2>3, <2>4, <2>5, <2>6 DEF SpendInv
<1>del. ASSUME NEW c \in Clients, DelScan(c) \/ DelJoin(c) \/ DelSpawnFails(c)
        PROVE  SpendInv'
  BY <1>0, SparesStep, <1>del DEF DelScan, DelJoin, DelSpawnFails, Acquire, Cancel, Goto,
     Home, control, pthread, client, history, Spares
<1>DestroyCancel. ASSUME NEW c \in Clients, DestroyCancel(c)
                  PROVE  SpendInv'
  <2>1. /\ pc[c] = "destroy_cancel" /\ Goto(c, "destroy_scan")
        /\ UNCHANGED <<shutdown, killed>>
    BY <1>DestroyCancel DEF DestroyCancel, Cancel, control, history
  <2>2. shutdown = IMMEDIATE_SHUTDOWN /\ Hunting' = Hunting
    BY <1>0, <2>1 DEF Hunting, Goto, SpendInv
  <2> QED BY <2>1, <2>2 DEF SpendInv
<1>destroy. ASSUME NEW c \in Clients, DestroyLock(c) \/ DestroyAgain(c) \/ DestroyScan(c) \/
                   DestroyJoin(c) \/ DestroyFree(c) \/ DestroyMutex(c)
            PROVE  SpendInv'
  BY <1>0, SparesStep, <1>destroy DEF DestroyLock, DestroyAgain, DestroyScan, DestroyJoin,
     DestroyFree, DestroyMutex, Acquire, Cancel, Goto, Home, control, pthread, client,
     history, Spares
<1>CreateSpawn. ASSUME CreateSpawn
                PROVE  SpendInv'
  <2>1. idx[Main] \in Workers /\ idx[Main] # Main
    BY <1>0, <1>CreateSpawn, SizeAssumption DEF CreateSpawn, TypeOK, ClientType, Workers
  <2>2. pc[idx[Main]] = "off"
    BY <1>0, <1>CreateSpawn, <2>1, SizeAssumption DEF CreateSpawn, IndexOK, Uncounted, Workers
  <2>3. Spares
    BY <1>0, <1>CreateSpawn, <2>1, <2>2 DEF CreateSpawn, control, pthread, client, history,
       Spares
  <2> QED BY <2>3, SparesStep
<1>AddPut. ASSUME NEW t \in Threads, AddPut(t)
           PROVE  SpendInv'
  <2>1. /\ \A c \in Clients : pc'[c] = pc[c] \/ pc'[c] = "add_status"
        /\ \A w \in Workers : pc'[w] = pc[w] \/ pc[w] = "wait" \/ pc[w] = "add_put"
    BY <1>0, <1>AddPut, AddPutPc DEF AddPut, Waiters
  <2>2. Spares
    BY <1>0, <1>AddPut, <2>1 DEF AddPut, control, pthread, client, Spares
  <2> QED BY <2>2, SparesStep
<1>DelSpawn. ASSUME NEW c \in Clients, DelSpawn(c)
             PROVE  SpendInv'
  <2>1. idx[c] \in Workers /\ idx[c] \notin Clients
    BY <1>0, <1>DelSpawn, SizeAssumption DEF DelSpawn, IndexOK, TypeOK, ClientType,
       ControlType,
       Workers
  <2>2. Spares
    BY <1>0, <1>DelSpawn, <2>1 DEF DelSpawn, control, client, history, Spares
  <2> QED BY <2>2, SparesStep
<1>DestroySet. ASSUME NEW c \in Clients, DestroySet(c)
               PROVE  SpendInv'
  <2>1. /\ \A d \in Clients : pc'[d] = pc[d] \/ pc'[d] = "destroy_scan"
        /\ \A w \in Workers : pc'[w] = pc[w] \/ pc[w] = "wait"
    BY <1>0, <1>DestroySet, DestroySetPc DEF DestroySet, Waiters
  <2>2. Spares
    BY <1>0, <1>DestroySet, <2>1 DEF DestroySet, pthread, client, history, Spares, ALIVE,
       IMMEDIATE_SHUTDOWN
  <2> QED BY <2>2, SparesStep
<1>Unchanged. CASE UNCHANGED vars
  BY <1>Unchanged, SparesStep DEF vars, control, pthread, client, history, Spares
<1> QED
  BY NextCases, <1>Unchanged, <1>create, <1>worker, <1>CancelInTask, <1>leave, <1>add,
     <1>DelCall, <1>call, <1>DelCancel, <1>del, <1>DestroyCancel, <1>destroy,
     <1>CreateSpawn, <1>AddPut, <1>DelSpawn, <1>DestroySet

\* Unless an immediate shutdown cancels too, threadpool_del kills at most one task a call
\* (threadpool.c:101), for any number of threads and calls at the same time.
THEOREM DelKillsOne == Spec => []DelCostsOneTask
<1>1. Init => SpendInv
  <2> SUFFICES ASSUME Init PROVE SpendInv
    OBVIOUS
  <2>1. killed = {} /\ Hunting = {} /\ Doomed = {}
    BY ThreadAssumption DEF Init, Hunting, Doomed, Threads
  <2>2. Cardinality({}) = 0 /\ IsFiniteSet({}) /\ calls.del = 0
    BY FS_EmptySet DEF Init
  <2>3. \A c \in Clients : pc[c] # "destroy_cancel"
    BY ThreadAssumption DEF Init, Threads
  <2> QED BY <2>1, <2>2, <2>3 DEF SpendInv
<1>2. TypeOK /\ SpendInv => DelCostsOneTask
  <2> SUFFICES ASSUME TypeOK, SpendInv PROVE DelCostsOneTask
    OBVIOUS
  <2>1. /\ Cardinality(killed) \in Nat /\ Cardinality(Doomed) \in Nat
        /\ Cardinality(Hunting) \in Nat /\ calls.del \in Nat
    BY FiniteDoomed, FS_CardinalityType DEF SpendInv, TypeOK, ClientType
  <2> QED BY <2>1 DEF SpendInv, DelCostsOneTask
<1>3. IInv => TypeOK /\ IndexOK
  BY DEF IInv
<1> QED BY <1>1, <1>2, <1>3, SpendStep, Invariant, Ends, PTL DEF Spec

-----------------------------------------------------------------------------
(* A pool with a single caller *)

\* The thread that created the pool makes all calls, and the system has threads to give.
OneCaller == Clients = {Main} /\ ~SpawnMayFail

Destroying == {"destroy_scan", "destroy_cancel", "destroy_join", "destroy_mutex"}

\* Where the only caller is: it calls destroy once, and with the pool as create left it.
CallerInv ==
  /\ process # "undefined" /\ pc[Main] \notin {"off", "failed"}
  /\ ret[Main] # "shutdown" /\ (ret[Main] = "ok" => pc[Main] = "idle")
  /\ memory = "freed" <=> pc[Main] = "destroy_mutex"
  /\ memory = "destroyed" => ret[Main] = "ok"
  /\ shutdown # ALIVE => pc[Main] \in Destroying \/ ret[Main] = "ok"
  /\ pc[Main] = "destroy_cancel" => shutdown = IMMEDIATE_SHUTDOWN
  /\ pc[Main] \notin {"create", "spawn", "count"} => thread_count = THREAD_COUNT

\* Which workers are joined, cancelled or gone: one that del has cancelled is replaced before
\* anything else happens to it, and the others end in the shutdown.
EndedInv ==
  \A w \in Workers :
    /\ joined[w] => \/ pc[Main] = "del_spawn" /\ idx[Main] = w
                    \/ pc[Main] = "destroy_join" /\ w < idx[Main]
                    \/ pc[Main] = "destroy_mutex" \/ ret[Main] = "ok"
    /\ cancelled[w] => \/ shutdown = IMMEDIATE_SHUTDOWN
                       \/ pc[Main] \in {"del_join", "del_spawn"} /\ idx[Main] = w
    /\ pc[w] \in {"leave", "bye", "exited"} => shutdown # ALIVE
    /\ pc[w] = "dead" => cancelled[w]
    /\ pc[w] \notin Deleting \cup Destroying
    /\ pc[w] = "off" => w >= thread_count /\ ~(pc[Main] = "count" /\ w = idx[Main])

\* The workers that started no longer counts.
Left == {w \in Workers : pc[w] \in {"bye", "exited"}}

CountInv == started = thread_count - Cardinality(Left)

\* A destroy that returned waited for every worker, and released what was not counted.
ReleaseInv ==
  ret[Main] = "ok" =>
    /\ shutdown # ALIVE /\ \A w \in Workers : Gone(w)
    /\ memory = "destroyed" <=> started <= 0

\* None of its threads comes to use what was freed or an id that was joined.
LEMMA NeverDangling ==
  ASSUME OneCaller, TypeOK, FreeIsSafe, CallerInv, EndedInv, NEW t \in Threads
  PROVE  ~Dangling(t)
<1>1. Threads = Workers \cup {Main} /\ Main \notin Workers
  BY ThreadAssumption DEF OneCaller, Threads
<1>2. CASE t \in Workers
  BY <1>1, <1>2 DEF Dangling, FreeIsSafe, EndedInv, Deleting, Destroying
<1>3. CASE t = Main
  <2>1. memory # "live" => pc[Main] \in {"idle", "destroy_mutex"}
    <3>1. memory \in {"live", "freed", "destroyed"}
      BY DEF TypeOK, ControlType
    <3> QED BY <3>1 DEF CallerInv
  <2>2. ASSUME pc[Main] \in {"del_cancel", "del_join", "destroy_cancel", "destroy_join"},
               idx[Main] < thread_count, joined[idx[Main]]
        PROVE  FALSE
    <3>1. idx[Main] \in Workers
      BY <2>2, SizeAssumption, ThreadAssumption DEF TypeOK, ClientType, ControlType, Workers
    <3>2. idx[Main] \in Nat /\ ~(idx[Main] < idx[Main])
      BY <3>1, SizeAssumption DEF Workers
    <3> QED BY <2>2, <3>1, <3>2 DEF EndedInv, CallerInv
  <2> QED BY <1>3, <2>1, <2>2 DEF Dangling
<1> QED BY <1>1, <1>2, <1>3

\* What the caller does is one thing after the other.
LEMMA CallerStep ==
  ASSUME OneCaller, TypeOK, IndexOK, FreeIsSafe, CallerInv, EndedInv, [Next]_vars
  PROVE  CallerInv'
<1> USE DEF Destroying, CallerInv
<1>0. /\ pc \in [Threads -> Labels] /\ ret \in [Clients -> {"none", "ok", "shutdown"}]
      /\ memory \in {"live", "freed", "destroyed"}
      /\ Clients = {Main} /\ Main \notin Workers /\ Threads = Workers \cup {Main}
      /\ ~SpawnMayFail
  BY ThreadAssumption DEF OneCaller, TypeOK, ThreadType, ControlType, ClientType, Threads
<1>CreateReturns. ASSUME CreateReturns
                  PROVE  CallerInv'
  <2>1. pc[Main] = "spawn" /\ pc'[Main] = "idle" /\ thread_count = THREAD_COUNT
    BY <1>0, <1>CreateReturns DEF CreateReturns, IndexOK
  <2> QED BY <1>CreateReturns, <2>1 DEF CreateReturns, control, client
<1>create. ASSUME CreateInit \/ CreateInitFails \/ CreateCount \/ CreateSpawnFails
           PROVE  CallerInv'
  BY <1>0, <1>create DEF CreateInit, CreateInitFails, CreateCount, CreateSpawnFails,
     Acquire, Cancel, Goto, Home, CanCall, control, client
<1>worker. ASSUME NEW w \in Workers, WorkerLookup(w) \/ WorkerLock(w) \/ WorkerWait(w) \/
                  WorkerGrab(w) \/ WorkerBegin(w) \/ WorkerEnd(w)
           PROVE  CallerInv'
  BY <1>0, <1>worker DEF WorkerLookup, WorkerLock, WorkerWait, WorkerGrab, WorkerBegin,
     WorkerEnd, Acquire, Cancel, Goto, Home, CanCall, control, client
<1>leave. ASSUME NEW w \in Workers, WorkerLeave(w) \/ WorkerUncount(w) \/ WorkerExit(w) \/
                 CancelInTask(w) \/ CancelInWait(w) \/ CancelInLeave(w) \/ SpuriousWake(w)
          PROVE  CallerInv'
  BY <1>0, <1>leave DEF WorkerLeave, WorkerUncount, WorkerExit, CancelInTask, CancelInWait,
     CancelInLeave, SpuriousWake, Acquire, Cancel, Goto, Home, CanCall, control, client
<1>Undefined. ASSUME NEW t \in Threads, Undefined(t)
              PROVE  CallerInv'
  BY <1>0, <1>Undefined, NeverDangling DEF Undefined
<1>add. ASSUME NEW t \in Threads, AddLock(t) \/ AddRefused(t) \/ AddReturns(t) \/ AddCall(t)
        PROVE  CallerInv'
  BY <1>0, <1>add DEF AddLock, AddRefused, AddReturns, AddCall, Acquire, Cancel, Goto, Home,
     CanCall, control, client
<1>call. ASSUME NEW c \in Clients, DelCall(c) \/ DestroyCall(c)
         PROVE  CallerInv'
  BY <1>0, <1>call DEF DelCall, DestroyCall, Acquire, Cancel, Goto, Home, CanCall, control,
     client
<1>del. ASSUME NEW c \in Clients, DelScan(c) \/ DelCancel(c) \/ DelJoin(c) \/
               DelSpawnFails(c)
        PROVE  CallerInv'
  BY <1>0, <1>del DEF DelScan, DelCancel, DelJoin, DelSpawnFails, Acquire, Cancel, Goto,
     Home, CanCall, control, client
<1>destroy. ASSUME NEW c \in Clients, DestroyLock(c) \/ DestroyAgain(c) \/ DestroyScan(c) \/
                   DestroyCancel(c) \/ DestroyJoin(c) \/ DestroyFree(c) \/ DestroyMutex(c)
            PROVE  CallerInv'
  BY <1>0, <1>destroy DEF DestroyLock, DestroyAgain, DestroyScan, DestroyCancel,
     DestroyJoin, DestroyFree, DestroyMutex, Acquire, Cancel, Goto, Home, CanCall, control,
     client
<1>CreateSpawn. ASSUME CreateSpawn
                PROVE  CallerInv'
  <2>1. idx[Main] \in Workers /\ idx[Main] # Main
    BY <1>0, <1>CreateSpawn, SizeAssumption DEF CreateSpawn, TypeOK, ClientType, Workers
  <2>2. pc[Main] = "spawn" /\ pc'[Main] = "count"
    BY <1>0, <1>CreateSpawn, <2>1 DEF CreateSpawn
  <2> QED BY <1>CreateSpawn, <2>2 DEF CreateSpawn, control, client
<1>AddPut. ASSUME NEW t \in Threads, AddPut(t)
           PROVE  CallerInv'
  <2>1. pc'[Main] = pc[Main] \/ (pc[Main] = "add_put" /\ pc'[Main] = "add_status")
    BY <1>0, <1>AddPut, AddPutPc DEF AddPut, Waiters
  <2> QED BY <1>0, <1>AddPut, <2>1 DEF AddPut, control, client
<1>DelSpawn. ASSUME NEW c \in Clients, DelSpawn(c)
             PROVE  CallerInv'
  <2>1. idx[c] \in Workers
    BY <1>0, <1>DelSpawn, SizeAssumption DEF DelSpawn, IndexOK, TypeOK, ClientType,
       ControlType,
       Workers
  <2>2. c = Main /\ pc[Main] = "del_spawn" /\ pc'[Main] = "idle"
    BY <1>0, <1>DelSpawn, <2>1 DEF DelSpawn
  <2> QED BY <1>0, <1>DelSpawn, <2>2 DEF DelSpawn, control, client
<1>DestroySet. ASSUME NEW c \in Clients, DestroySet(c)
               PROVE  CallerInv'
  <2>1. c = Main /\ pc[Main] = "destroy_set" /\ pc'[Main] = "destroy_scan"
    BY <1>0, <1>DestroySet, DestroySetPc
  <2> QED BY <1>0, <1>DestroySet, <2>1 DEF DestroySet
<1>Unchanged. CASE UNCHANGED vars
  BY <1>Unchanged DEF vars, control, client
<1> QED
  BY NextCases, <1>Unchanged, <1>CreateReturns, <1>create, <1>worker, <1>leave,
     <1>Undefined, <1>add, <1>call, <1>del, <1>destroy, <1>CreateSpawn, <1>AddPut,
     <1>DelSpawn, <1>DestroySet

\* Where the workers of a single caller's pool end.
LEMMA EndedStep ==
  ASSUME OneCaller, TypeOK, IndexOK, JoinOK, CallerInv, EndedInv, [Next]_vars
  PROVE  EndedInv'
<1> USE DEF Destroying, Deleting, EndedInv
<1>0. /\ pc \in [Threads -> Labels] /\ ret \in [Clients -> {"none", "ok", "shutdown"}]
      /\ cancelled \in [Workers -> BOOLEAN] /\ joined \in [Workers -> BOOLEAN]
      /\ idx \in [Clients -> 0 .. THREAD_COUNT] /\ thread_count \in 0 .. THREAD_COUNT
      /\ Clients = {Main} /\ Main \notin Workers /\ Threads = Workers \cup {Main}
      /\ ~SpawnMayFail /\ CallerInv /\ IndexOK
      /\ \A w \in Workers : w \in Nat
  BY ThreadAssumption, SizeAssumption DEF OneCaller, TypeOK, ThreadType, ControlType,
     ClientType,
     PthreadType, Threads, Workers
<1>CreateReturns. ASSUME CreateReturns
                  PROVE  EndedInv'
  BY <1>0, <1>CreateReturns DEF CreateReturns, Acquire, Cancel, Goto, Home, CanCall,
     control, client, pthread
<1>CreateCount. ASSUME CreateCount
                PROVE  EndedInv'
  BY <1>0, <1>CreateCount DEF CreateCount, Goto, IndexOK, CallerInv, pthread
<1>create. ASSUME CreateInit \/ CreateInitFails \/ CreateSpawnFails
           PROVE  EndedInv'
  BY <1>0, <1>create DEF CreateInit, CreateInitFails, CreateSpawnFails, Acquire, Cancel,
     Goto, Home, CanCall, control, client, pthread
<1>worker. ASSUME NEW w \in Workers, WorkerLookup(w) \/ WorkerLock(w) \/ WorkerWait(w) \/
                  WorkerGrab(w) \/ WorkerBegin(w) \/ WorkerEnd(w)
           PROVE  EndedInv'
  BY <1>0, <1>worker DEF WorkerLookup, WorkerLock, WorkerWait, WorkerGrab, WorkerBegin,
     WorkerEnd, Acquire, Cancel, Goto, Home, CanCall, control, client, pthread
<1>WorkerLeave. ASSUME NEW w \in Workers, WorkerLeave(w)
                PROVE  EndedInv'
  BY <1>0, <1>WorkerLeave DEF WorkerLeave, MustLeave, Goto, control, client, pthread, ALIVE,
     IMMEDIATE_SHUTDOWN, GRACEFUL_SHUTDOWN
<1>CancelInTask. ASSUME NEW w \in Workers, CancelInTask(w)
                 PROVE  EndedInv'
  BY <1>0, <1>CancelInTask DEF CancelInTask, Acquire, Cancel, Goto, Home, CanCall, control,
     client, pthread
<1>WorkerUncount. ASSUME NEW w \in Workers, WorkerUncount(w)
                  PROVE  EndedInv'
  BY <1>0, <1>WorkerUncount DEF WorkerUncount, Acquire, Cancel, Goto, Home, CanCall,
     control, client, pthread
<1>WorkerExit. ASSUME NEW w \in Workers, WorkerExit(w)
               PROVE  EndedInv'
  BY <1>0, <1>WorkerExit DEF WorkerExit, Acquire, Cancel, Goto, Home, CanCall, control,
     client, pthread
<1>leave. ASSUME NEW w \in Workers, CancelInWait(w) \/ CancelInLeave(w) \/ SpuriousWake(w)
          PROVE  EndedInv'
  BY <1>0, <1>leave DEF CancelInWait, CancelInLeave, SpuriousWake, Acquire, Cancel, Goto,
     Home, CanCall, control, client, pthread
<1>Undefined. ASSUME NEW t \in Threads, Undefined(t)
              PROVE  EndedInv'
  BY <1>0, <1>Undefined DEF Undefined, Acquire, Cancel, Goto, Home, CanCall, control,
     client, pthread
<1>add. ASSUME NEW t \in Threads, AddLock(t) \/ AddRefused(t) \/ AddReturns(t) \/ AddCall(t)
        PROVE  EndedInv'
  BY <1>0, <1>add DEF AddLock, AddRefused, AddReturns, AddCall, Acquire, Cancel, Goto, Home,
     CanCall, control, client, pthread
<1>call. ASSUME NEW c \in Clients, DelCall(c) \/ DestroyCall(c)
         PROVE  EndedInv'
  BY <1>0, <1>call DEF DelCall, DestroyCall, Acquire, Cancel, Goto, Home, CanCall, control,
     client, pthread
<1>DelCancel. ASSUME NEW c \in Clients, DelCancel(c)
              PROVE  EndedInv'
  BY <1>0, <1>DelCancel DEF DelCancel, Acquire, Cancel, Goto, Home, CanCall, control,
     client, pthread
<1>DelJoin. ASSUME NEW c \in Clients, DelJoin(c)
            PROVE  EndedInv'
  BY <1>0, <1>DelJoin DEF DelJoin, Acquire, Cancel, Goto, Home, CanCall, control, client,
     pthread
<1>del. ASSUME NEW c \in Clients, DelScan(c) \/ DelSpawnFails(c)
        PROVE  EndedInv'
  BY <1>0, <1>del DEF DelScan, DelSpawnFails, Acquire, Cancel, Goto, Home, CanCall, control,
     client, pthread
<1>DestroyCancel. ASSUME NEW c \in Clients, DestroyCancel(c)
                  PROVE  EndedInv'
  BY <1>0, <1>DestroyCancel DEF DestroyCancel, Cancel, Goto, CallerInv,
     control, client, pthread
<1>DestroyJoin. ASSUME NEW c \in Clients, DestroyJoin(c)
                PROVE  EndedInv'
  BY <1>0, <1>DestroyJoin DEF DestroyJoin, Acquire, Cancel, Goto, Home, CanCall, control,
     client, pthread
<1>DestroyFree. ASSUME NEW c \in Clients, DestroyFree(c)
                PROVE  EndedInv'
  BY <1>0, <1>DestroyFree DEF DestroyFree, Acquire, Cancel, Goto, Home, CanCall, control,
     client, pthread
<1>DestroyScan. ASSUME NEW c \in Clients, DestroyScan(c)
                PROVE  EndedInv'
  BY <1>0, <1>DestroyScan DEF DestroyScan, Acquire, Cancel, Goto, Home, CanCall, control,
     client, pthread
<1>DestroyMutex. ASSUME NEW c \in Clients, DestroyMutex(c)
                 PROVE  EndedInv'
  BY <1>0, <1>DestroyMutex DEF DestroyMutex, Acquire, Cancel, Goto, Home, CanCall, control,
     client, pthread
<1>DestroyAgain. ASSUME NEW c \in Clients, DestroyAgain(c)
                 PROVE  EndedInv'
  BY <1>0, <1>DestroyAgain DEF DestroyAgain, CallerInv
<1>destroy. ASSUME NEW c \in Clients, DestroyLock(c)
            PROVE  EndedInv'
  BY <1>0, <1>destroy DEF DestroyLock, Acquire, Cancel, Goto, Home, CanCall, control,
     client, pthread
<1>CreateSpawn. ASSUME CreateSpawn
                PROVE  EndedInv'
  <2>1. idx[Main] \in Workers /\ idx[Main] # Main
    BY <1>0, <1>CreateSpawn, SizeAssumption DEF CreateSpawn, TypeOK, ClientType, Workers
  <2>2. /\ pc[Main] = "spawn" /\ pc'[Main] = "count" /\ pc'[idx[Main]] = "start"
        /\ \A w \in Workers \ {idx[Main]} : pc'[w] = pc[w]
    BY <1>0, <1>CreateSpawn, <2>1 DEF CreateSpawn
  <2> QED BY <1>0, <1>CreateSpawn, <2>1, <2>2 DEF CreateSpawn, control, client, pthread
<1>AddPut. ASSUME NEW t \in Threads, AddPut(t)
           PROVE  EndedInv'
  <2>1. /\ pc'[Main] = pc[Main] \/ (pc[Main] = "add_put" /\ pc'[Main] = "add_status")
    BY <1>0, <1>AddPut, AddPutPc DEF Waiters
  <2>2. ASSUME NEW w \in Workers
        PROVE  \/ pc'[w] = pc[w] \/ pc'[w] = "lock"
               \/ pc[w] = "add_put" /\ pc'[w] = "add_status"
    BY <1>0, <1>AddPut, AddPutPc
  <2> QED BY <1>0, <1>AddPut, <2>1, <2>2 DEF AddPut, control, client, pthread
<1>DelSpawn. ASSUME NEW c \in Clients, DelSpawn(c)
             PROVE  EndedInv'
  <2>1. idx[c] \in Workers /\ idx[c] # c /\ c = Main
    BY <1>0, <1>DelSpawn, SizeAssumption DEF DelSpawn, IndexOK, TypeOK, ClientType,
       ControlType,
       Workers
  <2>2. /\ pc[Main] = "del_spawn" /\ pc'[Main] = "idle" /\ pc'[idx[Main]] = "start"
        /\ \A w \in Workers \ {idx[Main]} : pc'[w] = pc[w]
    BY <1>0, <1>DelSpawn, <2>1 DEF DelSpawn
  <2> QED BY <1>0, <1>DelSpawn, <2>1, <2>2 DEF DelSpawn, control, client
<1>DestroySet. ASSUME NEW c \in Clients, DestroySet(c)
               PROVE  EndedInv'
  <2>1. /\ c = Main /\ pc[Main] = "destroy_set" /\ pc'[Main] = "destroy_scan"
        /\ \A w \in Workers : pc'[w] = pc[w] \/ pc'[w] = "lock"
    BY <1>0, <1>DestroySet, DestroySetPc
  <2>2. /\ shutdown = ALIVE /\ joined' = joined /\ cancelled' = cancelled
        /\ thread_count' = thread_count
    BY <1>DestroySet DEF DestroySet, pthread
  <2>3. ret[Main] # "ok" /\ \A w \in Workers : ~cancelled[w] /\ ~joined[w]
    BY <1>0, <2>1, <2>2 DEF CallerInv, ALIVE, IMMEDIATE_SHUTDOWN
  <2>4. \A w \in Workers : pc[w] \notin {"leave", "bye", "exited", "dead"}
    BY <2>2, <2>3
  <2> QED BY <1>0, <2>1, <2>2, <2>3, <2>4
<1>Unchanged. CASE UNCHANGED vars
  BY <1>Unchanged DEF vars, control, client, pthread, Gone
<1> QED
  BY NextCases, <1>Unchanged, <1>CreateReturns, <1>CreateCount, <1>create, <1>worker,
     <1>WorkerLeave, <1>CancelInTask, <1>WorkerUncount, <1>WorkerExit, <1>leave,
     <1>Undefined, <1>add, <1>call, <1>DelCancel, <1>DelJoin, <1>del, <1>DestroyCancel,
     <1>DestroyJoin, <1>DestroyFree, <1>DestroyScan, <1>DestroyMutex, <1>DestroyAgain,
     <1>destroy, <1>CreateSpawn, <1>AddPut, <1>DelSpawn, <1>DestroySet

\* A step that no worker leaves in.
Counted ==
  /\ UNCHANGED <<started, thread_count>>
  /\ \A w \in Workers : pc'[w] \in {"bye", "exited"} <=> pc[w] \in {"bye", "exited"}

\* It changes no count.
LEMMA CountedStep == ASSUME CountInv, Counted PROVE CountInv'
<1>1. Left' = Left
  BY DEF Left, Counted
<1> QED BY <1>1 DEF CountInv, Counted

\* The workers that left can be counted.
LEMMA LeftFinite == IsFiniteSet(Left) /\ Cardinality(Left) \in Nat
BY FiniteWorkers DEF Left

\* started counts the workers create started and that have not left.
LEMMA CountStep ==
  ASSUME OneCaller, TypeOK, IndexOK, JoinOK, CallerInv, EndedInv, CountInv, [Next]_vars
  PROVE  CountInv'
<1>0. /\ pc \in [Threads -> Labels]
      /\ started \in Int /\ thread_count \in Int
      /\ Clients = {Main} /\ Main \notin Workers /\ Threads = Workers \cup {Main}
      /\ CountInv
  BY ThreadAssumption DEF OneCaller, TypeOK, ThreadType, ControlType, Threads
<1>CreateCount. ASSUME CreateCount
                PROVE  CountInv'
  <2>1. started' = started + 1 /\ thread_count' = thread_count + 1 /\ Left' = Left
    BY <1>0, <1>CreateCount DEF CreateCount, Goto, Left
  <2> QED BY <1>0, <2>1, LeftFinite DEF CountInv
<1>create. ASSUME CreateInit \/ CreateInitFails \/ CreateSpawnFails \/ CreateReturns
           PROVE  CountInv'
  BY <1>0, CountedStep, <1>create DEF CreateInit, CreateInitFails, CreateSpawnFails,
     CreateReturns, Counted, Acquire, Cancel, Goto, Home, CanCall, control
<1>worker. ASSUME NEW w \in Workers, WorkerLookup(w) \/ WorkerLock(w) \/ WorkerWait(w) \/
                  WorkerGrab(w) \/ WorkerBegin(w) \/ WorkerEnd(w)
           PROVE  CountInv'
  BY <1>0, CountedStep, <1>worker DEF WorkerLookup, WorkerLock, WorkerWait, WorkerGrab,
     WorkerBegin, WorkerEnd, Counted, Acquire, Cancel, Goto, Home, CanCall, control
<1>WorkerUncount. ASSUME NEW w \in Workers, WorkerUncount(w)
                  PROVE  CountInv'
  <2>1. started' = started - 1 /\ thread_count' = thread_count
    BY <1>WorkerUncount DEF WorkerUncount
  <2>2. Left' = Left \cup {w} /\ w \notin Left
    BY <1>0, <1>WorkerUncount DEF WorkerUncount, Goto, Left
  <2>3. Cardinality(Left') = Cardinality(Left) + 1
    BY <2>2, LeftFinite, FS_AddElement
  <2> QED BY <1>0, <2>1, <2>3, LeftFinite DEF CountInv
<1>leave. ASSUME NEW w \in Workers, WorkerLeave(w) \/ WorkerExit(w) \/ CancelInTask(w) \/
                 CancelInWait(w) \/ CancelInLeave(w) \/ SpuriousWake(w)
          PROVE  CountInv'
  BY <1>0, CountedStep, <1>leave DEF WorkerLeave, WorkerExit, CancelInTask, CancelInWait,
     CancelInLeave, SpuriousWake, Counted, Acquire, Cancel, Goto, Home, CanCall, control
<1>add. ASSUME NEW t \in Threads, AddLock(t) \/ AddRefused(t) \/ AddReturns(t) \/ AddCall(t)
               \/ Undefined(t)
        PROVE  CountInv'
  BY <1>0, CountedStep, <1>add DEF AddLock, AddRefused, AddReturns, AddCall, Undefined,
     Counted, Acquire, Cancel, Goto, Home, CanCall, control
<1>call. ASSUME NEW c \in Clients, DelCall(c) \/ DestroyCall(c)
         PROVE  CountInv'
  BY <1>0, CountedStep, <1>call DEF DelCall, DestroyCall, Counted, Acquire, Cancel, Goto,
     Home, CanCall, control
<1>del. ASSUME NEW c \in Clients, DelScan(c) \/ DelCancel(c) \/ DelJoin(c) \/
               DelSpawnFails(c)
        PROVE  CountInv'
  BY <1>0, CountedStep, <1>del DEF DelScan, DelCancel, DelJoin, DelSpawnFails, Counted,
     Acquire, Cancel, Goto, Home, CanCall, control
<1>destroy. ASSUME NEW c \in Clients, DestroyLock(c) \/ DestroyAgain(c) \/ DestroyScan(c) \/
                   DestroyCancel(c) \/ DestroyJoin(c) \/ DestroyFree(c) \/ DestroyMutex(c)
            PROVE  CountInv'
  BY <1>0, CountedStep, <1>destroy DEF DestroyLock, DestroyAgain, DestroyScan,
     DestroyCancel, DestroyJoin, DestroyFree, DestroyMutex, Counted, Acquire, Cancel, Goto,
     Home, CanCall, control
<1>CreateSpawn. ASSUME CreateSpawn
                PROVE  CountInv'
  <2>1. idx[Main] \in Workers /\ idx[Main] # Main /\ pc[idx[Main]] = "off"
    BY <1>0, <1>CreateSpawn, SizeAssumption DEF CreateSpawn, TypeOK, ClientType, Workers,
       IndexOK,
       JoinOK, Uncounted
  <2>2. pc'[idx[Main]] = "start" /\ \A w \in Workers \ {idx[Main]} : pc'[w] = pc[w]
    BY <1>0, <1>CreateSpawn, <2>1 DEF CreateSpawn
  <2> QED BY <1>CreateSpawn, <2>1, <2>2, CountedStep DEF CreateSpawn, Counted, control
<1>AddPut. ASSUME NEW t \in Threads, AddPut(t)
           PROVE  CountInv'
  <2>1. ASSUME NEW w \in Workers
        PROVE  w \in Left' <=> w \in Left
    BY <1>0, <1>AddPut, AddPutPc DEF Left, Waiters
  <2>2. UNCHANGED <<started, thread_count>>
    BY <1>AddPut DEF AddPut, control
  <2> QED BY <2>1, <2>2, CountedStep DEF Left, Counted
<1>DelSpawn. ASSUME NEW c \in Clients, DelSpawn(c)
             PROVE  CountInv'
  <2>1. idx[c] \in Workers /\ idx[c] # c /\ c = Main
    BY <1>0, <1>DelSpawn, SizeAssumption DEF DelSpawn, IndexOK, TypeOK, ClientType,
       ControlType,
       Workers
  <2>2. /\ pc[Main] = "del_spawn" /\ pc'[idx[Main]] = "start"
        /\ \A w \in Workers \ {idx[Main]} : pc'[w] = pc[w]
    BY <1>0, <1>DelSpawn, <2>1 DEF DelSpawn
  <2>3. shutdown = ALIVE
    BY <1>0, <2>2 DEF CallerInv, Destroying
  <2>4. pc[idx[Main]] \notin {"bye", "exited"}
    BY <2>1, <2>3 DEF EndedInv
  <2> QED BY <1>DelSpawn, <2>2, <2>4, CountedStep DEF DelSpawn, Counted, control
<1>DestroySet. ASSUME NEW c \in Clients, DestroySet(c)
               PROVE  CountInv'
  <2>1. \A w \in Workers : w \in Left' <=> w \in Left
    BY <1>0, <1>DestroySet, DestroySetPc DEF Left, Waiters
  <2> QED BY <1>DestroySet, <2>1, CountedStep DEF DestroySet, Left, Counted
<1>Unchanged. CASE UNCHANGED vars
  BY <1>Unchanged, CountedStep DEF vars, control, Counted
<1> QED
  BY NextCases, <1>Unchanged, <1>CreateCount, <1>create, <1>worker, <1>WorkerUncount,
     <1>leave, <1>add, <1>call, <1>del, <1>destroy, <1>CreateSpawn, <1>AddPut, <1>DelSpawn,
     <1>DestroySet

\* Once every worker is gone and destroy can tell, there was a shutdown.
LEMMA GoneShut ==
  ASSUME OneCaller, EndedInv, \A w \in Workers : Gone(w),
         pc[Main] \in {"destroy_join", "destroy_mutex"}
  PROVE  shutdown # ALIVE
<1>1. 0 \in Workers
  BY SizeAssumption DEF Workers
<1> QED BY <1>1 DEF EndedInv, Gone, ALIVE, IMMEDIATE_SHUTDOWN

\* After the destroy that returned nothing happens to the pool any more.
LEMMA ReleaseStep ==
  ASSUME OneCaller, TypeOK, JoinOK, DrainInv, CallerInv, EndedInv, ReleaseInv, [Next]_vars
  PROVE  ReleaseInv'
<1>0. /\ pc \in [Threads -> Labels] /\ ret \in [Clients -> {"none", "ok", "shutdown"}]
      /\ Clients = {Main} /\ Main \notin Workers /\ Threads = Workers \cup {Main}
      /\ started \in Int /\ thread_count \in Int /\ idx[Main] \in Int
      /\ memory \in {"live", "freed", "destroyed"}
  BY ThreadAssumption DEF OneCaller, TypeOK, ThreadType, ControlType, ClientType, Threads
<1>1. ret[Main] = "ok" =>
        /\ pc[Main] = "idle"
        /\ shutdown # ALIVE /\ \A w \in Workers : pc[w] \in {"exited", "dead"}
        /\ memory = "destroyed" <=> started <= 0
  BY DEF CallerInv, ReleaseInv, Gone
<1> USE DEF ReleaseInv, Gone
<1>create. ASSUME CreateInit \/ CreateInitFails \/ CreateCount \/ CreateSpawnFails \/
                  CreateReturns
           PROVE  ReleaseInv'
  BY <1>0, <1>1, <1>create DEF CreateInit, CreateInitFails, CreateCount, CreateSpawnFails,
     CreateReturns, Acquire, Cancel, Goto, Home, CanCall, control, client
<1>worker. ASSUME NEW w \in Workers, WorkerLookup(w) \/ WorkerLock(w) \/ WorkerWait(w) \/
                  WorkerGrab(w) \/ WorkerBegin(w) \/ WorkerEnd(w)
           PROVE  ReleaseInv'
  BY <1>0, <1>1, <1>worker DEF WorkerLookup, WorkerLock, WorkerWait, WorkerGrab,
     WorkerBegin, WorkerEnd, Acquire, Cancel, Goto, Home, CanCall, control, client
<1>leave. ASSUME NEW w \in Workers, WorkerLeave(w) \/ WorkerUncount(w) \/ WorkerExit(w) \/
                 CancelInTask(w) \/ CancelInWait(w) \/ CancelInLeave(w) \/ SpuriousWake(w)
          PROVE  ReleaseInv'
  BY <1>0, <1>1, <1>leave DEF WorkerLeave, WorkerUncount, WorkerExit, CancelInTask,
     CancelInWait, CancelInLeave, SpuriousWake, Acquire, Cancel, Goto, Home, CanCall,
     control, client
<1>add. ASSUME NEW t \in Threads, AddLock(t) \/ AddRefused(t) \/ AddReturns(t) \/ AddCall(t)
               \/ Undefined(t)
        PROVE  ReleaseInv'
  BY <1>0, <1>1, <1>add DEF AddLock, AddRefused, AddReturns, AddCall, Undefined, Acquire,
     Cancel, Goto, Home, CanCall, control, client
<1>call. ASSUME NEW c \in Clients, DelCall(c) \/ DestroyCall(c)
         PROVE  ReleaseInv'
  BY <1>0, <1>1, <1>call DEF DelCall, DestroyCall, Acquire, Cancel, Goto, Home, CanCall,
     control, client
<1>del. ASSUME NEW c \in Clients, DelScan(c) \/ DelCancel(c) \/ DelJoin(c) \/
               DelSpawnFails(c)
        PROVE  ReleaseInv'
  BY <1>0, <1>1, <1>del DEF DelScan, DelCancel, DelJoin, DelSpawnFails, Acquire, Cancel,
     Goto, Home, CanCall, control, client
<1>DestroyFree. ASSUME NEW c \in Clients, DestroyFree(c)
                PROVE  ReleaseInv'
  <2>1. c = Main /\ pc[Main] = "destroy_join" /\ ret[Main] # "ok" /\ thread_count <= idx[Main]
    BY <1>0, <1>DestroyFree DEF DestroyFree, JoinedAll, CallerInv
  <2>2. ASSUME NEW w \in Workers PROVE Gone(w)
    <3>1. w \in Int /\ w < thread_count
      BY <2>1, SizeAssumption DEF CallerInv, Workers
    <3>2. w < idx[Main]
      BY <1>0, <2>1, <3>1
    <3>3. joined[w]
      BY <1>0, <2>1, <3>1, <3>2 DEF JoinOK, JoinLoop
    <3> QED BY <3>3 DEF JoinOK, JoinedGone
  <2>3. memory = "live"
    BY <1>0, <2>1 DEF CallerInv
  <2>4. shutdown # ALIVE
    BY <1>0, <2>1, <2>2, GoneShut
  <2>5. CASE CanFree
    BY <1>0, <1>DestroyFree, <2>1, <2>2, <2>4, <2>5 DEF DestroyFree, ReleaseInv
  <2>6. CASE ~CanFree
    BY <1>0, <1>DestroyFree, <2>1, <2>2, <2>3, <2>4, <2>6 DEF DestroyFree, ReleaseInv, CanFree,
       Goto, Gone
  <2> QED BY <2>5, <2>6
<1>DestroyMutex. ASSUME NEW c \in Clients, DestroyMutex(c)
                 PROVE  ReleaseInv'
  <2>1. c = Main /\ pc[Main] = "destroy_mutex" /\ memory # "live" /\ ret[Main] # "ok"
    BY <1>0, <1>DestroyMutex DEF DestroyMutex, CallerInv
  <2>2. ASSUME NEW w \in Workers PROVE Gone(w)
    <3>1. pc[w] \in {"off", "exited", "dead"}
      BY <2>1 DEF JoinOK, FreeIsSafe
    <3>2. ~(w >= thread_count)
      BY <2>1, SizeAssumption DEF CallerInv, Workers
    <3> QED BY <3>1, <3>2 DEF EndedInv, Gone
  <2>3. shutdown # ALIVE
    BY <1>0, <2>1, <2>2, GoneShut
  <2>4. started <= 0
    BY <2>1 DEF DrainInv
  <2> QED
    BY <1>0, <1>DestroyMutex, <2>2, <2>3, <2>4 DEF DestroyMutex, ReleaseInv, Goto, Gone
<1>destroy. ASSUME NEW c \in Clients, DestroyLock(c) \/ DestroyAgain(c) \/ DestroyScan(c) \/
                   DestroyCancel(c) \/ DestroyJoin(c)
            PROVE  ReleaseInv'
  BY <1>0, <1>1, <1>destroy DEF DestroyLock, DestroyAgain, DestroyScan, DestroyCancel,
     DestroyJoin, Acquire, Cancel, Goto, Home, CanCall, control, client
<1>CreateSpawn. ASSUME CreateSpawn
                PROVE  ReleaseInv'
  BY <1>0, <1>1, <1>CreateSpawn DEF CreateSpawn, client
<1>AddPut. ASSUME NEW t \in Threads, AddPut(t)
           PROVE  ReleaseInv'
  BY <1>0, <1>1, <1>AddPut DEF AddPut, client
<1>DelSpawn. ASSUME NEW c \in Clients, DelSpawn(c)
             PROVE  ReleaseInv'
  BY <1>0, <1>1, <1>DelSpawn DEF DelSpawn, client
<1>DestroySet. ASSUME NEW c \in Clients, DestroySet(c)
               PROVE  ReleaseInv'
  BY <1>0, <1>1, <1>DestroySet DEF DestroySet, client
<1>Unchanged. CASE UNCHANGED vars
  BY <1>Unchanged DEF vars, control, client
<1> QED
  BY NextCases, <1>Unchanged, <1>create, <1>worker, <1>leave, <1>add, <1>call, <1>del,
     <1>DestroyFree, <1>DestroyMutex, <1>destroy, <1>CreateSpawn, <1>AddPut, <1>DelSpawn,
     <1>DestroySet

SoloInv == CallerInv /\ EndedInv /\ CountInv /\ ReleaseInv

\* Before create runs there is nothing to say of it yet.
LEMMA SoloInit == ASSUME OneCaller, Init PROVE SoloInv
<1>1. /\ Clients = {Main} /\ Main \notin Workers /\ Threads = Workers \cup {Main}
      /\ \A w \in Workers : w \in Nat
  BY ThreadAssumption, SizeAssumption DEF OneCaller, Threads, Workers
<1>2. pc[Main] = "create" /\ \A w \in Workers : pc[w] = "off"
  BY <1>1 DEF Init
<1>3. CallerInv
  BY <1>1, <1>2 DEF Init, CallerInv, Destroying
<1>4. EndedInv
  BY <1>1, <1>2 DEF Init, EndedInv, Deleting, Destroying
<1>5. CountInv
  <2>1. Left = {}
    BY <1>2 DEF Left
  <2>2. Cardinality(Left) = 0
    BY <2>1, FS_EmptySet
  <2> QED BY <2>2 DEF Init, CountInv
<1>6. ReleaseInv
  BY <1>1 DEF Init, ReleaseInv
<1> QED BY <1>3, <1>4, <1>5, <1>6 DEF SoloInv

\* With one caller the pool stays as create left it until destroy ends it: this is the inductive
\* invariant of a pool used by one thread.
THEOREM SingleCaller == ASSUME OneCaller PROVE Spec => []SoloInv
<1>1. Init => SoloInv
  BY SoloInit
<1>2. SoloInv /\ IInv /\ JoinOK /\ DrainInv /\ [Next]_vars => SoloInv'
  <2> SUFFICES ASSUME SoloInv, IInv, JoinOK, DrainInv, [Next]_vars PROVE SoloInv'
    OBVIOUS
  <2>1. /\ TypeOK /\ IndexOK /\ FreeIsSafe
        /\ CallerInv /\ EndedInv /\ CountInv /\ ReleaseInv
    BY DEF SoloInv, IInv, JoinOK
  <2>2. CallerInv' /\ EndedInv' /\ CountInv' /\ ReleaseInv'
    BY <2>1, CallerStep, EndedStep, CountStep, ReleaseStep
  <2> QED BY <2>2 DEF SoloInv
<1> QED BY <1>1, <1>2, Invariant, Ends, Drains, PTL DEF Spec

\* Used by one thread, the pool never touches memory that was freed, a mutex that was destroyed
\* or a thread id that was joined, however del and destroy follow one another.
THEOREM NothingUndefined == ASSUME OneCaller PROVE Spec => []NoUndefinedBehaviour
<1>1. SoloInv => NoUndefinedBehaviour
  BY DEF SoloInv, CallerInv, NoUndefinedBehaviour
<1> QED BY <1>1, SingleCaller, PTL

\* Used by one thread, a destroy that returns 0 shut the pool down, and it released its memory
\* exactly if no worker is left dead of a cancellation; one that threadpool_del replaced is not
\* (threadpool_destroy, threadpool.c:212; threadpool_free, :223).
THEOREM DestroyedUnlessKilled == ASSUME OneCaller PROVE Spec => []ReleasedUnlessKilled
<1>1. TypeOK /\ SoloInv => ReleasedUnlessKilled
  <2> SUFFICES ASSUME TypeOK, SoloInv, NEW c \in Clients, ret[c] = "ok"
               PROVE  /\ shutdown # ALIVE
                      /\ memory = "destroyed" <=> \A w \in Workers : pc[w] # "dead"
    BY DEF ReleasedUnlessKilled
  <2>1. /\ pc[Main] = "idle" /\ shutdown # ALIVE /\ \A w \in Workers : Gone(w)
        /\ memory = "destroyed" <=> started <= 0
    BY DEF SoloInv, CallerInv, ReleaseInv, OneCaller
  <2>2. started = THREAD_COUNT - Cardinality(Left)
    BY <2>1 DEF SoloInv, CallerInv, CountInv
  <2>3. IsFiniteSet(Workers) /\ Cardinality(Workers) = THREAD_COUNT
    BY SizeAssumption, FS_Interval DEF Workers
  <2>4. Left \subseteq Workers
    BY DEF Left
  <2>5. /\ Cardinality(Left) <= Cardinality(Workers)
        /\ Cardinality(Left) = Cardinality(Workers) => Left = Workers
    BY <2>3, <2>4, FS_Subset
  <2>6. Left = Workers <=> \A w \in Workers : pc[w] # "dead"
    BY <2>1 DEF Left, Gone
  <2>7. started <= 0 <=> Left = Workers
    BY <2>2, <2>3, <2>5, LeftFinite, SizeAssumption
  <2> QED BY <2>1, <2>6, <2>7
<1> QED BY <1>1, TypeCorrect, SingleCaller, PTL
=============================================================================
