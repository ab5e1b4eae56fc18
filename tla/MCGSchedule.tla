---------------------------- MODULE MCGSchedule ----------------------------
(* Small instances of the timer schedules and of the time mask for TLC: days  *)
(* of three slots of two seconds, a week whose first day is any day and whose  *)
(* other days are alike.                                                     *)
EXTENDS GSchedule, TimeMask

AllWeeks == {[d \in 0 .. 6 |-> IF d = 0 THEN first ELSE rest] :
               first \in DaySlot, rest \in {{}, {0, 1}}}

\* What a check answers after g_time_mask_set, for tables of two types: type 0 by the week that
\* was passed last, whatever type it was passed for, the other type as before.
ASSUME MaskAnswers ==
  \A one, two, week \in AllWeeks, t \in 0 .. MaxClock, i \in MaskTypes :
    LET old == [y \in MaskTypes |-> IF y = 0 THEN one ELSE two]
        new == g_time_mask_set(old, i, week)
    IN  /\ new \in gTimeMask
        /\ \A y \in MaskTypes \ {0} : g_time_mask_chk(new, y, t) = g_time_mask_chk(old, y, t)
        /\ g_time_mask_chk(new, 0, t) = {timeslot_check(week[wday(t) % 7], timeslot_get_offset(t))}
=============================================================================
