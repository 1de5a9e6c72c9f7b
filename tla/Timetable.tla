----------------------------- MODULE Timetable -----------------------------
(***************************************************************************)
(* What the staggered return promises (kernel/restart.rs, its tests, and   *)
(* CALIBRATION.md "Return spacing"): after a protection trip no block may  *)
(* run, and once the breaker is closed again block k is cleared on the     *)
(* tick that comes k spacings after the first one.  The promise is a       *)
(* timetable: a clock of connected ticks, and the blocks whose time has    *)
(* come.  The kernel keeps no clock; it counts blocks and counts down to   *)
(* the next one.                                                           *)
(***************************************************************************)
EXTENDS Integers

CONSTANTS NBlocks, Spacing

VARIABLES
  connected,  \* the breaker is closed
  age,        \* connected ticks since the return began; stops at the last
  cleared     \* the blocks the plant controller has cleared to run

vars == <<connected, age, cleared>>

(* The tick that clears the last block.                                    *)
LastAge == (NBlocks - 1) * Spacing + 1
Due(a) == {k \in 0..(NBlocks - 1) : k * Spacing < a}

Init == connected = TRUE /\ age = LastAge /\ cleared = Due(LastAge)

(* A trip takes every block off, and only a connected site can trip.       *)
Trip == connected /\ connected' = FALSE /\ age' = 0 /\ cleared' = {}

(* Closing the breaker starts the clock and clears nothing yet.            *)
Close == ~connected /\ connected' = TRUE /\ UNCHANGED <<age, cleared>>

Advance ==
  /\ connected /\ age < LastAge
  /\ age' = age + 1
  /\ cleared' = Due(age')
  /\ UNCHANGED connected

Next == Trip \/ Close \/ Advance
Spec == Init /\ [][Next]_vars
=============================================================================
