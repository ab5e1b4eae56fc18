------------------------------ MODULE DaySlots ------------------------------
(***************************************************************************)
(* The half-hour slots of a day, as the schedules of g_timer/g_schedule.c  *)
(* and g_schedule/tmp/g_schedule.c and the time mask of g_timer/g_tool.c   *)
(* read them.  The code keeps a day in the low 48 bits of a long long, slot *)
(* 0 in the highest of them, and walks it by shifting a single bit; here a  *)
(* day is the set of its slots and the bit is the slot's number.  A bit that *)
(* was shifted out is the number SLOTS.  Times are seconds since some       *)
(* midnight in UTC (ev_core.c:168 "UTC+0 Must enable").                     *)
(***************************************************************************)
EXTENDS Integers

CONSTANTS
  SLOTS,     \* slots of a day: 48 in the code
  SLOT_LEN   \* seconds of a slot: 1800 in the code

ASSUME SlotAssumption == SLOTS \in Nat \ {0} /\ SLOT_LEN \in Nat \ {0}

Slots   == 0 .. SLOTS - 1
DaySlot == SUBSET Slots
Week    == [0 .. 6 -> DaySlot]
DAY     == SLOTS * SLOT_LEN

Least(S) == CHOOSE k \in S : \A j \in S : k <= j

timeslot_check(daySlot, slot) == slot \in daySlot

timeslot_get_offset(t) == (t % DAY) \div SLOT_LEN

wday(t) == t \div DAY

today_zero_t(t) == t - (t % DAY)

TOMORROW_ZERO_T(t) == today_zero_t(t) + DAY

\* Mutant: the search stops before the last slot of the day.
AheadShort(daySlot, slot) == {k \in slot .. SLOTS - 2 : timeslot_check(daySlot, k)}

\* The slots the search visits: the bit is shifted from the current slot to the end.
Ahead(daySlot, slot) == {k \in slot .. SLOTS - 1 : timeslot_check(daySlot, k)}

\* Mutant: the search for the end runs over gaps.
LastOfDay(daySlot, k) == SLOTS - 1

\* The last slot of the run that starts at slot k: the loop stops when the next bit
\* is clear or was shifted out.
LastOfRun(daySlot, k) == Least({j \in k .. SLOTS - 1 : ~timeslot_check(daySlot, j + 1)})

\* Where slot k starts, and where timeslot_get_start_end ends its run: where the last
\* slot of the run begins.
StartOf(zero, k)        == zero + k * SLOT_LEN
EndOf(zero, daySlot, k) == zero + LastOfRun(daySlot, k) * SLOT_LEN
=============================================================================
