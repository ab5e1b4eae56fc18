----------------------------- MODULE MCEvReopen -----------------------------
(* Small instances of the engine with its schedule threads for TLC. *)
EXTENDS EvReopen

CONSTANTS j1, j2, s1, sd, light

FirstThreads == 1 .. 6
=============================================================================
