------------------------------ MODULE MCGTimer ------------------------------
(* Small instances of the timers for TLC. *)
EXTENDS GTimer

CONSTANTS t1, t2, f1, f2, a1, a2

TwoThreads == {t1, t2}
TwoFuncs   == {f1, f2}
TwoArgs    == {a1, a2}

\* Every number from -1 to one above GTIMER_MAX.
AllNums    == -1 .. GTIMER_MAX + 1
=============================================================================
