---------------------------- MODULE MCEvSchedule ----------------------------
(* Small instances of the schedule threads for TLC: days of three slots,      *)
(* or of one.                                                                *)
EXTENDS EvSchedule, TLC

CONSTANTS sd, light

Daily(slots) == [d \in 0 .. 6 |-> slots]
LateEarly    == (sd :> Daily({2})) @@ (light :> Daily({0}))
AllDay       == (sd :> Daily({0})) @@ (light :> Daily({0}))
=============================================================================
