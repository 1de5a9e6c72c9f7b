------------------------------ MODULE MCPlant ------------------------------
(* Instances of the plant for TLC. *)
EXTENDS PlantProperties, AlarmView

(* Idle or asked for power. *)
Demand == {0, 1}

(* What a scenario may hold. *)
AllFaults == FaultNames
TripsAndResets == {"trip", "protection_trip", "alarm_reset"}
=============================================================================
