------------------------------ MODULE MCEvCore ------------------------------
(* Small instances of the event engine for TLC, and days of eight slots for   *)
(* the loops over bits that the mask of a trigger and the schedules share.     *)
EXTENDS EvCore

CONSTANTS j1, j2, s1, motion

\* Jobs differ in nothing but their names.
JobSymmetry == Permutations({j1, j2})

Bits == INSTANCE DaySlotBits WITH SLOTS <- 8, SLOT_LEN <- 1

\* The sets and minima of DaySlots are what the loops of the code compute.
ASSUME LoopsAgree == Bits!LoopsAgree
=============================================================================
