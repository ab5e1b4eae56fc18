---------------------------- MODULE ScheThreads ----------------------------
(***************************************************************************)
(* The life of the schedule threads of g_schedule/tmp/g_schedule.c: who    *)
(* creates them, where they meet in pthread_once, when they wait on gCond, *)
(* and how sche_stop ends and joins them.  What a thread plans and when    *)
(* its wait times out is left open; EvSchedule fills it in and implements  *)
(* this module, and EvReopen composes it with the calls of the engine.     *)
(*                                                                         *)
(* gMutex is left out: it is held only on the way into and out of          *)
(* pthread_cond_timedwait and protects nothing.  gEventAlive is 1 or -1,   *)
(* so that the loop of sche_func never ends by its condition.              *)
(*                                                                         *)
(* pthread_join of 0, and initialising gMutex and gCond while a thread     *)
(* waits on them, are undefined in POSIX; the first ends the model, the    *)
(* second only sets misuse, since in practice the waiting threads go on.   *)
(***************************************************************************)
EXTENDS Integers, FiniteSets

CONSTANTS
  Numbers,    \* the threads sche_init creates, in the order of their creation
  Callers,    \* the threads outside that call sche_init and sche_stop
  SD, LIGHT,  \* the types
  None        \* 0 as a thread id

Types   == {SD, LIGHT}
Threads == Numbers \cup Callers

ASSUME LifeAssumption ==
  /\ Numbers \subseteq Nat /\ IsFiniteSet(Numbers) /\ Numbers \cap Callers = {}
  /\ SD # LIGHT /\ None \notin Threads

VARIABLES
  at,       \* per thread: where it is
  type,     \* per thread: the type it serves
  once,     \* pthread_once: "new", "busy" or "done"
  pt,       \* per type: the thread its entry of ptStruct names
  joining,  \* per caller: the thread it joins
  misuse    \* history: "reinit" and "join"

life == <<at, type, once, pt, joining, misuse>>

LifeInit ==
  /\ at = [t \in Threads |-> IF t \in Callers THEN "idle" ELSE "off"]
  /\ type = [t \in Threads |-> SD] /\ once = "new"
  /\ pt = [y \in Types |-> None] /\ joining = [c \in Callers |-> None] /\ misuse = {}

Move(t, label) == at' = [at EXCEPT ![t] = label]
Waiting        == {t \in Threads : at[t] = "wait"}

-----------------------------------------------------------------------------
(* sche_init, called from outside and by the first thread *)

\* gMutex and gCond are initialised and the entry of SD forgets its thread.
SyncInit(t) ==
  /\ at[t] = (IF t \in Callers THEN "idle" ELSE "init") /\ Move(t, "create_sd")
  /\ misuse' = IF Waiting = {} THEN misuse ELSE misuse \cup {"reinit"}
  /\ pt' = [pt EXCEPT ![SD] = None] /\ UNCHANGED <<type, once, joining>>

\* Thread t creates thread u, the next one, for type y and goes on to label.
Create(t, u, y, label) ==
  /\ u \in Numbers /\ at[u] = "off" /\ \A v \in Numbers : at[v] = "off" => u <= v
  /\ at' = [at EXCEPT ![u] = "start", ![t] = label] /\ type' = [type EXCEPT ![u] = y]

\* The entry of LIGHT forgets its thread before it gets another.
CreateSD(t) ==
  /\ at[t] = "create_sd"
  /\ \E u \in Numbers : /\ Create(t, u, SD, "create_light")
                        /\ pt' = [y \in Types |-> IF y = SD THEN u ELSE None]
  /\ UNCHANGED <<once, joining, misuse>>

\* Mutant: the second creation uses the entry of the first.
CreateLightCopied(t) ==
  /\ at[t] = "create_light"
  /\ \E u \in Numbers : /\ Create(t, u, LIGHT, IF t \in Callers THEN "idle" ELSE "loop")
                        /\ pt' = [pt EXCEPT ![SD] = u]
  /\ once' = IF t \in Callers THEN once ELSE "done"
  /\ UNCHANGED <<joining, misuse>>

\* The first thread returns from sche_init into pthread_once, and from there to its loop.
CreateLight(t) ==
  /\ at[t] = "create_light"
  /\ \E u \in Numbers : /\ Create(t, u, LIGHT, IF t \in Callers THEN "idle" ELSE "loop")
                        /\ pt' = [pt EXCEPT ![LIGHT] = u]
  /\ once' = IF t \in Callers THEN once ELSE "done"
  /\ UNCHANGED <<joining, misuse>>

-----------------------------------------------------------------------------
(* sche_func *)

\* Mutant: every thread that finds no other one inside calls sche_init.
MustInitAgain == once # "busy"

MustInit == once = "new"

Enter(t) ==
  /\ at[t] = "start"
  /\ \/ MustInit /\ once' = "busy" /\ Move(t, "init")
     \/ once = "done" /\ Move(t, "loop") /\ UNCHANGED once
  /\ UNCHANGED <<type, pt, joining, misuse>>

\* A turn of the loop that waits; one that runs the function changes nothing here.
Wait(t) ==
  /\ at[t] = "loop" /\ Move(t, "wait") /\ UNCHANGED <<type, once, pt, joining, misuse>>

TimedOut(t) ==
  /\ at[t] = "wait" /\ Move(t, "loop") /\ UNCHANGED <<type, once, pt, joining, misuse>>

\* A thread that wakes for no reason takes it for the signal.
SpuriousWake(t) ==
  /\ at[t] = "wait" /\ Move(t, "done") /\ UNCHANGED <<type, once, pt, joining, misuse>>

-----------------------------------------------------------------------------
(* sche_stop *)

\* pthread_cond_signal ends one of the waiting threads, if there is one.
StopSignal(c) ==
  /\ at[c] = "idle"
  /\ \/ \E u \in Waiting : at' = [at EXCEPT ![u] = "done", ![c] = "stop_sd"]
     \/ Waiting = {} /\ Move(c, "stop_sd")
  /\ UNCHANGED <<type, once, pt, joining, misuse>>

\* pthread_join of the thread that the entry of y names when it is called.
JoinCall(c, from, y, to) ==
  /\ at[c] = from /\ Move(c, to) /\ joining' = [joining EXCEPT ![c] = pt[y]]
  /\ misuse' = IF pt[y] = None THEN misuse \cup {"join"} ELSE misuse
  /\ UNCHANGED <<type, once, pt>>

JoinReturn(c, from, y, to) ==
  /\ at[c] = from /\ joining[c] # None /\ at[joining[c]] = "done" /\ Move(c, to)
  /\ joining' = [joining EXCEPT ![c] = None] /\ pt' = [pt EXCEPT ![y] = None]
  /\ UNCHANGED <<type, once, misuse>>

StopJoins(c) ==
  \/ JoinCall(c, "stop_sd", SD, "join_sd") \/ JoinReturn(c, "join_sd", SD, "stop_light")
  \/ JoinCall(c, "stop_light", LIGHT, "join_light")
  \/ JoinReturn(c, "join_light", LIGHT, "idle")

-----------------------------------------------------------------------------
(* The specification *)

InitStep(t) == CreateSD(t) \/ CreateLight(t)

ThreadStep(t) ==
  \/ at[t] = "init" /\ SyncInit(t)
  \/ InitStep(t) \/ Enter(t) \/ Wait(t) \/ TimedOut(t)

LifeNext ==
  /\ "join" \notin misuse
  /\ \/ \E t \in Numbers : ThreadStep(t) \/ SpuriousWake(t)
     \/ \E c \in Callers : SyncInit(c) \/ InitStep(c) \/ StopSignal(c) \/ StopJoins(c)

LifeSpec == LifeInit /\ [][LifeNext]_life

Places == {"off", "idle", "start", "init", "create_sd", "create_light", "loop", "wait", "done",
           "stop_sd", "join_sd", "stop_light", "join_light"}

LifeType ==
  /\ at \in [Threads -> Places] /\ type \in [Threads -> Types]
  /\ once \in {"new", "busy", "done"} /\ misuse \subseteq {"reinit", "join"}
  /\ pt \in [Types -> Numbers \cup {None}] /\ joining \in [Callers -> Numbers \cup {None}]
  /\ \A y \in Types : pt[y] # None => at[pt[y]] # "off" /\ type[pt[y]] = y
=============================================================================
