----------------------------- MODULE EvSchedule -----------------------------
(***************************************************************************)
(* The schedule threads of the event engine, g_schedule/tmp/g_schedule.c.  *)
(* event_init calls sche_init, which creates one sche_func thread for each *)
(* type; the first of them calls sche_init once more, through pthread_once, *)
(* so that two threads of each type share its entry of ptStruct.  A thread *)
(* plans, waits on gCond for the planned start or runs its function, and   *)
(* plans again; sche_stop signals gCond and joins the threads ptStruct     *)
(* names.  One thread, the Caller, makes both calls; EvReopen has the      *)
(* callers of the engine.  The module implements ScheThreads, which says   *)
(* what is left out of both.                                               *)
(***************************************************************************)
EXTENDS DaySlots, FiniteSets

CONSTANTS
  MaxThreads,        \* a bound on the threads the program creates
  MayStop,           \* whether sche_stop may be called
  SD, LIGHT,         \* the types
  daySlot,           \* per type: the week of day slots sche_init writes
  StartTimes,        \* when the program may start
  MaxClock,          \* a bound on the clock
  None               \* no thread

Types   == {SD, LIGHT}
Caller  == 0                  \* the thread that calls sche_init and sche_stop
Threads == 0 .. MaxThreads    \* the others are numbered as they are created

ASSUME ScheduleAssumption ==
  /\ MaxThreads \in Nat /\ MayStop \in BOOLEAN /\ None \notin Nat /\ SD # LIGHT
  /\ daySlot \in [Types -> [0 .. 6 -> DaySlot]] /\ StartTimes \subseteq Nat /\ MaxClock \in Nat

VARIABLES
  clock,                    \* time(NULL)
  start_t, end_t, pt,       \* per type: the rest of its entry of ptStruct
  once,                     \* pthread_once: "new", "busy" or "done"
  joining,                  \* the thread the Caller joins
  pc, type,                 \* per thread: where it is, the type it serves
  now, now_t, tZero,        \* per thread: what it read at lines 99, 73 and 49
  timeout,                  \* per thread: the end of its wait
  planned,                  \* history, per type: the second of the slot it planned
  misuse                    \* history: "reinit" of gMutex and gCond, "join" of 0

ptStruct == <<start_t, end_t, pt>>
locals   == <<type, now, now_t, tZero, timeout>>
history  == <<planned, misuse>>
vars     == <<clock, ptStruct, once, joining, pc, locals, history>>

Init ==
  /\ clock \in StartTimes
  /\ start_t = [y \in Types |-> 0] /\ end_t = [y \in Types |-> 0]
  /\ pt = [y \in Types |-> None] /\ once = "new" /\ joining = None
  /\ pc = [t \in Threads |-> IF t = Caller THEN "init" ELSE "off"]
  /\ type = [t \in Threads |-> SD] /\ now = [t \in Threads |-> 0]
  /\ now_t = [t \in Threads |-> 0] /\ tZero = [t \in Threads |-> 0]
  /\ timeout = [t \in Threads |-> 0]
  /\ planned = [y \in Types |-> 0] /\ misuse = {}

Goto(t, label) == pc' = [pc EXCEPT ![t] = label]

Tick ==
  /\ clock < MaxClock /\ clock' = clock + 1
  /\ UNCHANGED <<ptStruct, once, pc, locals, history>>

-----------------------------------------------------------------------------
(* sche_init, called by the Caller and by the first thread *)

InUse == \E t \in Threads : pc[t] = "wait"

SyncInit(t) ==
  /\ pc[t] = "init" /\ Goto(t, "create_sd")
  /\ misuse' = IF InUse THEN misuse \cup {"reinit"} ELSE misuse
  /\ pt' = [pt EXCEPT ![SD] = None]
  /\ UNCHANGED <<clock, start_t, end_t, once, locals, planned>>

\* pthread_create of sche_func(y): thread t creates the next thread and goes on to label.
Unused == {u \in Threads : pc[u] = "off"}

Create(t, y, label) ==
  /\ Unused # {} /\ pc' = [pc EXCEPT ![Least(Unused)] = "start", ![t] = label]
  /\ type' = [type EXCEPT ![Least(Unused)] = y]

CreateSD(t) ==
  /\ pc[t] = "create_sd" /\ Create(t, SD, "create_light")
  /\ pt' = [y \in Types |-> IF y = SD THEN Least(Unused) ELSE None]
  /\ UNCHANGED <<clock, start_t, end_t, once, now, now_t, tZero, timeout, history>>

CreateLight(t) ==
  /\ pc[t] = "create_light" /\ Create(t, LIGHT, IF t = Caller THEN "idle" ELSE "plan")
  /\ pt' = [pt EXCEPT ![LIGHT] = Least(Unused)]
  /\ once' = IF t = Caller THEN once ELSE "done"
  /\ UNCHANGED <<clock, start_t, end_t, now, now_t, tZero, timeout, history>>

-----------------------------------------------------------------------------
(* sche_func *)

ReadNow(t) ==
  /\ pc[t] = "start" /\ Goto(t, "once") /\ now' = [now EXCEPT ![t] = clock]
  /\ UNCHANGED <<clock, ptStruct, once, type, now_t, tZero, timeout, history>>

\* Mutant: every thread that finds no other one inside calls sche_init.
MustInitAgain == once # "busy"

MustInit == once = "new"

\* pthread_once keeps every other thread until the first has returned.
MayPass == once = "done"

Once(t) ==
  /\ pc[t] = "once"
  /\ \/ MustInit /\ once' = "busy" /\ Goto(t, "init")
     \/ MayPass /\ Goto(t, "plan") /\ UNCHANGED once
  /\ UNCHANGED <<clock, ptStruct, locals, history>>

\* timeslot_get_next_start_end_t reads the clock and later, for midnight, once more.
ReadPlanNow(t) ==
  /\ pc[t] = "plan" /\ Goto(t, "store") /\ now_t' = [now_t EXCEPT ![t] = clock]
  /\ UNCHANGED <<clock, ptStruct, once, type, now, tZero, timeout, history>>

Today(t) == daySlot[type[t]][wday(now_t[t]) % 7]
Found(t) == Ahead(Today(t), timeslot_get_offset(now_t[t]))

\* Mutant: slot 0 starts before midnight.
StartUnguarded(zero, k) == zero + (k - 1) * SLOT_LEN

\* timeslot_get_start_end: a schedule starts one slot early.
StartOneEarly(zero, k) == IF k = 0 THEN zero ELSE zero + (k - 1) * SLOT_LEN

\* The entry gets its start, and later its end from the same reading of the clock; the
\* other thread of the type may store between the two.
StoreStart(t) ==
  /\ pc[t] = "store" /\ Goto(t, "store_end")
  /\ tZero' = [tZero EXCEPT ![t] = today_zero_t(clock)]
  /\ LET y == type[t]
         k == Least(Found(t))
     IN  IF Found(t) # {}
         THEN /\ start_t' = [start_t EXCEPT ![y] = StartOneEarly(today_zero_t(clock), k)]
              /\ planned' = [planned EXCEPT ![y] = StartOf(today_zero_t(clock), k)]
         ELSE /\ start_t' = [start_t EXCEPT ![y] = TOMORROW_ZERO_T(clock)]
              /\ planned' = [planned EXCEPT ![y] = TOMORROW_ZERO_T(clock)]
  /\ UNCHANGED <<clock, end_t, pt, once, type, now, now_t, timeout, misuse>>

\* The start is compared with the time the thread read when it began.
AheadOf(t) == start_t[type[t]] > now[t]

\* The store of the end and the comparison are one step: only the function reads the end, so
\* another thread's steps between the two could as well have come before both.
StoreEnd(t) ==
  /\ pc[t] = "store_end" /\ Goto(t, IF AheadOf(t) THEN "lock" ELSE "run")
  /\ end_t' = [end_t EXCEPT ![type[t]] =
                 IF Found(t) # {} THEN EndOf(tZero[t], Today(t), Least(Found(t))) ELSE 0]
  /\ now_t' = [now_t EXCEPT ![t] = 0] /\ tZero' = [tZero EXCEPT ![t] = 0]
  /\ UNCHANGED <<clock, start_t, pt, once, type, now, timeout, history>>

Lock(t) ==
  /\ pc[t] = "lock" /\ Goto(t, "wait")
  /\ timeout' = [timeout EXCEPT ![t] = start_t[type[t]]]
  /\ UNCHANGED <<clock, ptStruct, once, type, now, now_t, tZero, history>>

TimedOut(t) ==
  /\ pc[t] = "wait" /\ clock >= timeout[t] /\ Goto(t, "plan")
  /\ timeout' = [timeout EXCEPT ![t] = 0]
  /\ UNCHANGED <<clock, ptStruct, once, type, now, now_t, tZero, history>>

\* A thread that wakes before its time takes it for the signal and ends.
SpuriousWake(t) ==
  /\ pc[t] = "wait" /\ Goto(t, "done")
  /\ UNCHANGED <<clock, ptStruct, once, locals, history>>

\* The function (sche_record, sche_light) takes its time and returns.
RunFunc(t) ==
  /\ pc[t] = "run" /\ Goto(t, "plan")
  /\ UNCHANGED <<clock, ptStruct, once, locals, history>>

-----------------------------------------------------------------------------
(* sche_stop *)

\* pthread_cond_signal ends one waiting thread, if there is one.
StopSignal ==
  /\ pc[Caller] = "idle" /\ MayStop
  /\ \/ \E u \in Threads : /\ pc[u] = "wait"
                           /\ pc' = [pc EXCEPT ![u] = "done", ![Caller] = "stop_sd"]
     \/ ~InUse /\ Goto(Caller, "stop_sd")
  /\ UNCHANGED <<clock, ptStruct, once, locals, history>>

\* pthread_join of the thread that the entry of type y names when it is called.
JoinCall(at, y, label) ==
  /\ pc[Caller] = at /\ Goto(Caller, label) /\ joining' = pt[y]
  /\ misuse' = IF pt[y] = None THEN misuse \cup {"join"} ELSE misuse
  /\ UNCHANGED <<clock, ptStruct, once, locals, planned>>

JoinReturn(at, y, label) ==
  /\ pc[Caller] = at /\ pc[joining] = "done" /\ Goto(Caller, label)
  /\ joining' = None /\ pt' = [pt EXCEPT ![y] = None]
  /\ UNCHANGED <<clock, start_t, end_t, once, locals, history>>

StopJoins ==
  \/ JoinCall("stop_sd", SD, "join_sd") \/ JoinReturn("join_sd", SD, "stop_light")
  \/ JoinCall("stop_light", LIGHT, "join_light")
  \/ JoinReturn("join_light", LIGHT, "stopped")

-----------------------------------------------------------------------------
(* The specification *)

InitStep(t) == SyncInit(t) \/ CreateSD(t) \/ CreateLight(t)

FuncStep(t) ==
  \/ ReadNow(t) \/ Once(t) \/ ReadPlanNow(t) \/ StoreStart(t) \/ StoreEnd(t)
  \/ Lock(t) \/ TimedOut(t) \/ RunFunc(t)

Next ==
  /\ "join" \notin misuse
  /\ \/ StopJoins
     \/ /\ UNCHANGED joining
        /\ \/ Tick \/ StopSignal
           \/ \E t \in Threads : InitStep(t) \/ FuncStep(t) \/ SpuriousWake(t)

Spec == Init /\ [][Next]_vars

\* Time passes and every thread is scheduled; nobody need call sche_stop.
Fairness ==
  /\ WF_vars(Tick /\ UNCHANGED joining)
  /\ \A t \in Threads : /\ WF_vars(InitStep(t) /\ UNCHANGED joining)
                        /\ WF_vars(FuncStep(t) /\ UNCHANGED joining)

FairSpec == Spec /\ Fairness

-----------------------------------------------------------------------------
(* Properties *)

Labels ==
  {"off", "init", "create_sd", "create_light", "idle", "start", "once", "plan", "store",
   "store_end", "lock", "wait", "run", "done", "stop_sd", "join_sd", "stop_light",
   "join_light", "stopped"}

\* Every variable keeps its type, and a start lies in the day of the slot it was planned for,
\* also when slot 0 was planned, for which one slot early would be the day before.
TypeOK ==
  /\ clock \in Nat
  /\ start_t \in [Types -> Nat] /\ end_t \in [Types -> Nat]
  /\ pt \in [Types -> Threads \cup {None}] /\ joining \in Threads \cup {None}
  /\ once \in {"new", "busy", "done"} /\ pc \in [Threads -> Labels]
  /\ type \in [Threads -> Types] /\ now \in [Threads -> Nat]
  /\ now_t \in [Threads -> Nat] /\ tZero \in [Threads -> Nat] /\ timeout \in [Threads -> Nat]
  /\ planned \in [Types -> Nat]
  /\ \A y \in Types : start_t[y] \in today_zero_t(planned[y]) .. planned[y]
  /\ misuse \subseteq {"reinit", "join"}

\* Every behaviour of these threads is one of ScheThreads, which leaves their planning and
\* their waits open: a thread is in its loop from pthread_once to its next wait.
Life == INSTANCE ScheThreads WITH
  Numbers <- 1 .. MaxThreads, Callers <- {Caller},
  at      <- [t \in Threads |->
               CASE pc[t] \in {"plan", "store", "store_end", "lock", "run"} -> "loop"
                 [] pc[t] \in {"start", "once"}                          -> "start"
                 [] t = Caller /\ pc[t] \in {"init", "idle", "stopped"} -> "idle"
                 [] OTHER                                                -> pc[t]],
  joining <- [c \in {Caller} |-> joining]

ImplementsScheThreads == Life!LifeSpec

\* A thread never calls its function before the slot that it, or the other thread of its
\* type, planned last.  (g_schedule.c:68-71 draws S, the start, at the first slot of the run.)
NeverTooEarly ==
  [][\A t \in Threads : pc[t] # "run" /\ pc'[t] = "run" => planned[type[t]] <= clock]_vars

\* How much too early the code is: one slot, whichever thread stored the plan last, although
\* the two threads of a type share its entry without a lock.
OneSlotEarly ==
  [][\A t \in Threads : pc[t] # "run" /\ pc'[t] = "run" =>
       planned[type[t]] - SLOT_LEN <= clock]_vars

\* A thread whose wait for a slot (not for midnight, where end_t is 0) is over runs its
\* function, unless it is woken.  (g_schedule.c:112 "blocking until 1)next schedule".)
WaitersRun ==
  \A t \in Threads \ {Caller} :
    pc[t] = "wait" /\ clock = timeout[t] /\ end_t[type[t]] # 0 ~> pc[t] \in {"run", "done"}
=============================================================================
