------------------------------ MODULE GSchedule ------------------------------
(***************************************************************************)
(* The schedules of g_timer/g_schedule.c: each entry of gScheduleStruct    *)
(* holds a week of day slots, and starting it plans the next slot and arms *)
(* a timer for it.  One thread makes the calls (schedule_test in           *)
(* g_timer/g_test.c); expiries interrupt it.                               *)
(*                                                                         *)
(* Planning reads the clock three times (lines 140, 60 and 24) and arms a  *)
(* timer relative to a fourth instant; the clock may move between them.    *)
(* The timer itself is an alarm here: GTimer models it in detail, and shows *)
(* that setting a timer that cannot fire is free of interference.          *)
(* bRunning is left out: only the handler sets it, behind the read that is *)
(* undefined (Fire).                                                       *)
(***************************************************************************)
EXTENDS DaySlots, FiniteSets

CONSTANTS
  GSCHEDULE_STRUCT_MAX,  \* entries of the table: 10 in the code
  Weeks,                 \* the weeks of day slots callers pass
  StartTimes,            \* when the program may start
  MaxClock, MaxCalls,    \* bounds on the clock and on the calls of one run
  None                   \* no alarm

Types == 0 .. GSCHEDULE_STRUCT_MAX - 1

ASSUME WeekAssumption ==
  /\ Weeks \subseteq Week /\ StartTimes \subseteq Nat
  /\ GSCHEDULE_STRUCT_MAX \in Nat \ {0} /\ None \notin Nat

VARIABLES
  clock,            \* CLOCK_REALTIME in seconds
  gScheduleStruct,  \* per type: enabled, daySlot, t.start_t and t.end_t
  alarm,            \* per type: when its timer expires, or None
  pc, type,         \* where the calling thread is and the entry it works on
  last,             \* the last entry the call visits
  now, now_t, tZero, \* the clock as the calls read it: lines 140, 60 and 24
  calls,            \* the calls made so far (bounded)
  process           \* "running" or "undefined" behaviour

thread == <<pc, type, last, now, now_t, tZero, calls>>
vars   == <<clock, gScheduleStruct, alarm, thread, process>>

Init ==
  /\ clock \in StartTimes
  /\ gScheduleStruct = [i \in Types |-> [enabled |-> FALSE, daySlot |-> [d \in 0 .. 6 |-> {}],
                                         start_t |-> 0, end_t |-> 0]]
  /\ alarm = [i \in Types |-> None]
  /\ pc = "idle" /\ type = 0 /\ last = 0
  /\ now = 0 /\ now_t = 0 /\ tZero = 0 /\ calls = 0
  /\ process = "running"

Tick ==
  /\ clock < MaxClock /\ clock' = clock + 1
  /\ UNCHANGED <<gScheduleStruct, alarm, thread, process>>

-----------------------------------------------------------------------------
(* The calls *)

\* gschedule_set fills the entry and starts it.
Set ==
  /\ pc = "idle" /\ calls < MaxCalls /\ calls' = calls + 1
  /\ \E i \in Types, week \in Weeks :
       /\ gScheduleStruct' = [gScheduleStruct EXCEPT ![i].enabled = TRUE,
                                                     ![i].daySlot = week]
       /\ type' = i /\ last' = i
  /\ pc' = "start"
  /\ UNCHANGED <<clock, alarm, now, now_t, tZero, process>>

\* g_schedule_start and g_schedule_stop of one enabled entry; of any other number
\* they visit the whole table.
Call(label) ==
  /\ pc = "idle" /\ calls < MaxCalls /\ calls' = calls + 1
  /\ \/ \E i \in Types : gScheduleStruct[i].enabled /\ type' = i /\ last' = i
     \/ type' = 0 /\ last' = GSCHEDULE_STRUCT_MAX - 1
  /\ pc' = label
  /\ UNCHANGED <<clock, gScheduleStruct, alarm, now, now_t, tZero, process>>

Start == Call("start")
Stop  == Call("stop")

Entry == gScheduleStruct[type]

\* Mutant: the loop runs one entry too far.
AtLastLate == type > last

AtLast == type >= last

\* The loop goes on to the next entry, or the call returns.
Continue(label) ==
  IF AtLast THEN pc' = "idle" /\ UNCHANGED type ELSE type' = type + 1 /\ pc' = label

Skip ==
  /\ pc \in {"start", "stop"} /\ ~Entry.enabled /\ Continue(pc)
  /\ UNCHANGED <<clock, gScheduleStruct, alarm, last, now, now_t, tZero, calls, process>>

\* g_schedule_stop_single of an entry that is not running: its timer is disarmed.
StopSingle ==
  /\ pc = "stop" /\ Entry.enabled /\ Continue("stop")
  /\ alarm' = [alarm EXCEPT ![type] = None]
  /\ UNCHANGED <<clock, gScheduleStruct, last, now, now_t, tZero, calls, process>>

-----------------------------------------------------------------------------
(* g_schedule_start_single *)

ReadNow ==
  /\ pc = "start" /\ Entry.enabled /\ pc' = "plan" /\ now' = clock
  /\ UNCHANGED <<clock, gScheduleStruct, alarm, type, last, now_t, tZero, calls, process>>

\* timeslot_get_next_start_end_t reads the clock again and searches from that slot.
ReadPlanNow ==
  /\ pc = "plan" /\ pc' = "zero" /\ now_t' = clock
  /\ UNCHANGED <<clock, gScheduleStruct, alarm, type, last, now, tZero, calls, process>>

Today == Entry.daySlot[wday(now_t) % 7]
Found == Ahead(Today, timeslot_get_offset(now_t))

\* The plan: the running slot at once, else the next slot of today, else midnight.
Asap      == timeslot_check(Today, timeslot_get_offset(now_t))
PlanStart(zero) == IF Asap THEN now_t
                   ELSE IF Found # {} THEN StartOf(zero, Least(Found))
                   ELSE TOMORROW_ZERO_T(zero)
PlanEnd(zero)   == IF Found # {} THEN EndOf(zero, Today, Least(Found)) ELSE 0

\* today_zero_t reads the clock a third time, and the plan is stored.
Plan ==
  /\ pc = "zero" /\ pc' = "arm" /\ tZero' = today_zero_t(clock)
  /\ gScheduleStruct' = [gScheduleStruct EXCEPT ![type].start_t = PlanStart(tZero'),
                                                ![type].end_t = PlanEnd(tZero')]
  /\ UNCHANGED <<clock, alarm, type, last, now, now_t, calls, process>>

sleepSec == Entry.start_t - now

\* Mutant: the delay is one second short.
DelayShort == IF sleepSec <= 1 THEN 0 ELSE sleepSec - 1

\* A plan less than a second away is armed for a millisecond.
Delay == IF sleepSec < 1 THEN 0 ELSE sleepSec

Arm ==
  /\ pc = "arm" /\ Continue("start")
  /\ alarm' = [alarm EXCEPT ![type] = clock + Delay]
  /\ UNCHANGED <<clock, gScheduleStruct, last, now, now_t, tZero, calls, process>>

\* The timer expires and schedule_handler runs.  g_schedule_start_single stored the
\* type in ts->arg; schedule_handler reads it as the address of the entry.
Fire ==
  /\ \E i \in Types : alarm[i] # None /\ alarm[i] <= clock
  /\ process' = "undefined"
  /\ UNCHANGED <<clock, gScheduleStruct, alarm, thread>>

Next ==
  /\ process = "running"
  /\ \/ Tick \/ Set \/ Start \/ Stop \/ Skip \/ StopSingle
     \/ ReadNow \/ ReadPlanNow \/ Plan \/ Arm \/ Fire

Spec == Init /\ [][Next]_vars

-----------------------------------------------------------------------------
(* Properties *)

\* Every variable keeps its type.
TypeOK ==
  /\ clock \in Nat /\ alarm \in [Types -> Nat \cup {None}]
  /\ gScheduleStruct \in [Types -> [enabled : BOOLEAN, daySlot : Week,
                                    start_t : Nat, end_t : Nat]]
  /\ pc \in {"idle", "start", "stop", "plan", "zero", "arm"}
  /\ type \in Types /\ last \in Types
  /\ now \in Nat /\ now_t \in Nat /\ tZero \in Nat /\ calls \in Nat
  /\ process \in {"running", "undefined"}

Scheduled(week, t) == timeslot_get_offset(t) \in week[wday(t) % 7]

\* The plan is made in one day: midnight does not pass between its two reads.
SameDay == tZero = today_zero_t(now_t)

\* A plan made in one day skips nothing: no second between the read of the clock and
\* the planned start is scheduled, and the planned start is scheduled itself or is
\* the next midnight.
PlanSkipsNothing ==
  pc = "arm" /\ SameDay =>
    /\ Entry.start_t \in now_t .. TOMORROW_ZERO_T(now_t)
    /\ \A t \in now_t .. Entry.start_t - 1 : ~Scheduled(Entry.daySlot, t)
    /\ Entry.start_t < TOMORROW_ZERO_T(now_t) => Scheduled(Entry.daySlot, Entry.start_t)

\* The planned end lies in the same run of slots as the planned start: every second
\* between them is scheduled.
EndInRun ==
  pc = "arm" /\ SameDay /\ Found # {} =>
    \A t \in Entry.start_t .. Entry.end_t - 1 : Scheduled(Entry.daySlot, t)

\* No alarm expires before its planned start, however the clock moves between the
\* reads.
NeverEarly ==
  \A i \in Types :
    alarm[i] # None /\ ~(pc = "arm" /\ type = i) => alarm[i] >= gScheduleStruct[i].start_t
=============================================================================
