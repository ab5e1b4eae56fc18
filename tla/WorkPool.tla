------------------------------ MODULE WorkPool ------------------------------
(***************************************************************************)
(* What a bounded worker pool promises its clients, without threads, mutex *)
(* or ring.  Tasks are numbered in the order they were accepted.  Task n is *)
(* pending while taken < n <= submitted.  A pool is open, then drains (it   *)
(* finishes what it accepted) or stops (it starts nothing more), and is     *)
(* released when nothing runs any more.                                     *)
(***************************************************************************)
EXTENDS Integers, FiniteSets

CONSTANTS
  Capacity,     \* how many tasks may be pending
  Width,        \* how many tasks may run at once
  Revocable     \* whether an open or draining pool may kill a running task

VARIABLES
  phase,      \* "open", "draining", "stopping", "released"
  submitted,  \* the number of tasks accepted
  taken,      \* the number of tasks started
  running, done, killed

poolVars == <<phase, submitted, taken, running, done, killed>>

Init ==
  /\ phase = "open" /\ submitted = 0 /\ taken = 0
  /\ running = {} /\ done = {} /\ killed = {}

Submit ==
  /\ phase = "open" /\ submitted - taken < Capacity
  /\ submitted' = submitted + 1
  /\ UNCHANGED <<phase, taken, running, done, killed>>

\* Tasks start in the order they were accepted.
Start ==
  /\ phase \in {"open", "draining"} /\ taken < submitted
  /\ Cardinality(running) < Width
  /\ taken' = taken + 1 /\ running' = running \cup {taken + 1}
  /\ UNCHANGED <<phase, submitted, done, killed>>

Finish(n) ==
  /\ n \in running
  /\ running' = running \ {n} /\ done' = done \cup {n}
  /\ UNCHANGED <<phase, submitted, taken, killed>>

Kill(n) ==
  /\ n \in running /\ (phase = "stopping" \/ Revocable)
  /\ running' = running \ {n} /\ killed' = killed \cup {n}
  /\ UNCHANGED <<phase, submitted, taken, done>>

Close(to) ==
  /\ phase = "open" /\ phase' = to
  /\ UNCHANGED <<submitted, taken, running, done, killed>>

\* A draining pool is released only when it has started every task; one that is
\* open only when it was never used (its creation failed).
Release ==
  /\ \/ phase = "open" /\ submitted = 0
     \/ phase = "draining" /\ taken = submitted
     \/ phase = "stopping"
  /\ running = {}
  /\ phase' = "released"
  /\ UNCHANGED <<submitted, taken, running, done, killed>>

Next ==
  \/ Submit \/ Start \/ Release
  \/ \E n \in running : Finish(n) \/ Kill(n)
  \/ \E to \in {"draining", "stopping"} : Close(to)

Spec == Init /\ [][Next]_poolVars
=============================================================================
