------------------------------ MODULE Compressors ------------------------------
(* What the cooling units of a container promise, whatever the temperature     *)
(* does: a stage that has just changed is left alone for its minimum time.     *)
(* Only a neighbour joining a running unit, and the failure of the whole unit, *)
(* come sooner.                                                                *)
EXTENDS Naturals

CONSTANTS
  MinRun,   \* ticks a cooling stage runs before it may be stepped down
  MinOff,   \* ticks without any compressor before one may start again
  Cap       \* the clock stops counting here

VARIABLES
  units,    \* compressors running, 0..2
  quiet     \* ticks since that number last changed

Clock == IF units' = units THEN quiet' = (IF quiet < Cap THEN quiet + 1 ELSE Cap)
                           ELSE quiet' = 0

Start == units = 0 /\ quiet >= MinOff /\ units' \in 1..2

Join  == units = 1 /\ units' = 2

Drop  == units > 0 /\ quiet >= MinRun /\ units' = units - 1

Fail  == units > 0 /\ units' = 0

Keep  == units' = units

Init == units = 0 /\ quiet = Cap

(* A failed unit drops everything at once; a healthy one follows its clock.    *)
Next(failed) == Clock /\ (Keep \/ IF failed THEN Fail ELSE Start \/ Join \/ Drop)
================================================================================
