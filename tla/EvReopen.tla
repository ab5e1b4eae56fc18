------------------------------ MODULE EvReopen ------------------------------
(***************************************************************************)
(* The event engine and its schedule threads together: the calls of        *)
(* g_schedule/tmp/ev_core.c that reach the schedule threads.  The first    *)
(* job opens the engine (event_init, which ends in sche_init); event_stop  *)
(* closes it, waits in sche_stop and opens it again; a job that comes      *)
(* meanwhile may open it as well.  Nothing but gEventAlive keeps these     *)
(* calls apart, and it is tested and set at different times.               *)
(*                                                                         *)
(* ScheThreads is the life of the schedule threads.  The rules, counters   *)
(* and actions of a job are EvCore's: whether a job that finds the engine  *)
(* closed opens it depends on iRunningJobs and is left open here.          *)
(***************************************************************************)
EXTENDS ScheThreads

CONSTANTS Jobs, Stoppers  \* the threads in _push_job and in event_stop

ASSUME EngineAssumption ==
  Callers = Jobs \cup Stoppers /\ Jobs \cap Stoppers = {} /\ IsFiniteSet(Callers)

VARIABLES
  gEventAlive,  \* 0 before the first start, 1 running, -1 reopening
  step,         \* per caller: where it is in ev_core.c
  openings,     \* history: the calls of sche_init that event_init has made
  unasked       \* history: whether a schedule thread woke with no signal

engine     == <<gEventAlive, step, openings, unasked>>
engineVars == <<life, engine>>

EngineInit ==
  /\ LifeInit
  /\ gEventAlive = 0 /\ step = [c \in Callers |-> "off"] /\ openings = 0 /\ unasked = FALSE

Goto(c, label) == step' = [step EXCEPT ![c] = label]

-----------------------------------------------------------------------------
(* _push_job and checkExit *)

Push(j) ==
  /\ step[j] = "off" /\ Goto(j, "check") /\ UNCHANGED <<life, gEventAlive, openings, unasked>>

\* A job that finds the engine reopening leaves, or opens it when no job runs.
PushCheck(j) ==
  /\ step[j] = "check"
  /\ \/ gEventAlive = 1  /\ Goto(j, "done")
     \/ gEventAlive = 0  /\ Goto(j, "open")
     \/ gEventAlive = -1 /\ (Goto(j, "open") \/ Goto(j, "done"))
  /\ UNCHANGED <<life, gEventAlive, openings, unasked>>

-----------------------------------------------------------------------------
(* event_init *)

Open(c) ==
  /\ step[c] = "open" /\ Goto(c, "sche_init") /\ gEventAlive' = 1
  /\ UNCHANGED <<life, openings, unasked>>

\* The call of sche_init, its steps, and the return of event_init.
CallInit(c) ==
  /\ step[c] = "sche_init" /\ SyncInit(c) /\ Goto(c, "in_init") /\ openings' = openings + 1
  /\ UNCHANGED <<gEventAlive, unasked>>

InInit(c) ==
  /\ step[c] = "in_init" /\ InitStep(c)
  /\ IF at'[c] = "idle" THEN Goto(c, "done") ELSE UNCHANGED step
  /\ UNCHANGED <<gEventAlive, openings, unasked>>

-----------------------------------------------------------------------------
(* event_stop *)

StopClose(s) ==
  /\ step[s] = "off" /\ Goto(s, "sche_stop") /\ gEventAlive' = -1
  /\ UNCHANGED <<life, openings, unasked>>

CallStop(s) ==
  /\ step[s] = "sche_stop" /\ StopSignal(s) /\ Goto(s, "in_stop")
  /\ UNCHANGED <<gEventAlive, openings, unasked>>

\* sche_stop returns, and event_stop opens the engine again.
InStop(s) ==
  /\ step[s] = "in_stop" /\ StopJoins(s)
  /\ IF at'[s] = "idle" THEN Goto(s, "open") ELSE UNCHANGED step
  /\ UNCHANGED <<gEventAlive, openings, unasked>>

-----------------------------------------------------------------------------
(* The specification *)

Thread(t)  == ThreadStep(t) /\ UNCHANGED engine
Unasked(t) == SpuriousWake(t) /\ unasked' = TRUE /\ UNCHANGED <<gEventAlive, step, openings>>

EngineNext ==
  /\ "join" \notin misuse
  /\ \/ \E j \in Jobs : Push(j) \/ PushCheck(j)
     \/ \E s \in Stoppers : StopClose(s) \/ CallStop(s) \/ InStop(s)
     \/ \E c \in Callers : Open(c) \/ CallInit(c) \/ InInit(c)
     \/ \E t \in Numbers : Thread(t) \/ Unasked(t)

EngineSpec == EngineInit /\ [][EngineNext]_engineVars

-----------------------------------------------------------------------------
(* Properties *)

\* Every variable keeps its type, an entry of ptStruct names a thread of its own type, and
\* a caller is inside sche_init or sche_stop exactly while ev_core.c is in that call.
TypeOK ==
  /\ LifeType
  /\ gEventAlive \in {0, 1, -1} /\ openings \in Nat /\ unasked \in BOOLEAN
  /\ step \in [Callers -> {"off", "check", "open", "sche_init", "in_init",
                            "sche_stop", "in_stop", "done"}]
  /\ \A c \in Callers : at[c] = "idle" <=> step[c] \notin {"in_init", "in_stop"}

\* The hang of sche_stop, which EvReopenProofs explains and no run asks for: while one thread
\* calls event_stop, it does not come back from sche_stop unless some schedule thread woke
\* without a signal, since one signal ends at most one of the two threads that sche_stop
\* joins (tmp/g_schedule.c:130).
StopNeedsLuck ==
  Cardinality(Stoppers) = 1 =>
    \A s \in Stoppers : step[s] \in {"open", "sche_init", "in_init", "done"} => unasked

\* Opening the engine once never initialises gMutex and gCond while a thread waits on
\* them, although the first schedule thread calls sche_init again from pthread_once: only
\* a second event_init, of event_stop or of a job, does that (tmp/ev_core.c:197).
ReinitByReopening == "reinit" \in misuse => openings > 1

\* Every opening leaves at most one more thread of each type, and pthread_once one more
\* for the whole program, so that n openings leave n + 1 threads to share a plan.
ThreadsPerOpening ==
  \A y \in Types : Cardinality({t \in Numbers : at[t] # "off" /\ type[t] = y}) <= openings + 1
=============================================================================
