------------------------------ MODULE TimeMask ------------------------------
(***************************************************************************)
(* The time mask of g_timer/g_tool.c: a table of weeks of day slots, one   *)
(* for each type of event, that tells whether an event may act now.  Its   *)
(* three calls are operators on the table; no thread keeps it, and the one *)
(* caller, mask_test of g_timer/g_test.c, sets and checks type 0.          *)
(***************************************************************************)
EXTENDS DaySlots

CONSTANT TIME_MASK_MAX  \* types of the table: 20 in the code

ASSUME MaskAssumption == TIME_MASK_MAX \in Nat \ {0}

MaskTypes == 0 .. TIME_MASK_MAX - 1

gTimeMask == [MaskTypes -> Week]

g_time_mask_init == [y \in MaskTypes |-> [d \in 0 .. 6 |-> {}]]

\* memcpy to the start of the table: whatever the type, the week of type 0 is stored.
g_time_mask_set(masks, type, week) == [masks EXCEPT ![0] = week]

\* The answers the check can give at second t.  TIME_MASK_MAX itself passes the test of
\* line 55 and, like a negative type, reads a week outside the table.
g_time_mask_chk(masks, type, t) ==
  IF type \in MaskTypes
  THEN {timeslot_check(masks[type][wday(t) % 7], timeslot_get_offset(t))}
  ELSE IF type > TIME_MASK_MAX THEN {FALSE} ELSE BOOLEAN
=============================================================================
