------------------------------- MODULE Thermostat -------------------------------
(* The HVAC unit of a container: two cooling stages, an electric heater and    *)
(* one clock that protects the compressors (bess-models/src/thermal.rs).       *)
(* Temperatures are counted in the rise one unit takes out of the air in a     *)
(* tick; what cells and envelope put into it is a choice.                      *)
EXTENDS Integers

CONSTANTS
  HeatOn, HeatOff, Cool1Off, Cool1On, Cool2Off, Cool2On,  \* the bands
  MinRun, MinOff,                                         \* protection times
  HeaterRise,  \* what the heater adds to the air per tick
  Gains,       \* what cells and envelope may add per tick
  AirTemps,    \* bound on the air
  Cap          \* bound on the history clock

ASSUME BandsAssumption ==
  /\ {HeatOn, HeatOff, Cool1Off, Cool1On, Cool2Off, Cool2On} \subseteq Int
  /\ AirTemps \subseteq Int
  /\ Cool1On < Cool2On

ASSUME ClockAssumption ==
  /\ MinRun \in Nat /\ MinOff \in Nat /\ Cap \in Nat
  /\ MinRun <= Cap /\ MinOff <= Cap

VARIABLES
  mode,     \* HvacState::mode
  hold,     \* HvacState::compressor_hold_s
  failed,   \* HvacState::failed
  air,      \* ContainerState::air_temp_c when the next tick starts
  quiet     \* history: ticks since the number of running compressors changed

hvacVars == <<mode, hold, failed, air, quiet>>

Modes == {"Off", "Heat", "Cool1", "Cool2"}

CoolingUnits(m) == IF m = "Cool1" THEN 1 ELSE IF m = "Cool2" THEN 2 ELSE 0

(* A stopped compressor waits for the clock however hot it gets.               *)
CoolingStart(a, free) ==
  IF ~free THEN "Off" ELSE IF a >= Cool2On THEN "Cool2" ELSE "Cool1"

(* Mutant: the clock is forgotten when heating gives way to cooling.           *)
NextModeHeatRestarts(m, a, free) ==
  IF m = "Heat" /\ a >= Cool1On THEN CoolingStart(a, TRUE)
  ELSE IF m = "Cool1" /\ a <= Cool1Off /\ free THEN "Off"
  ELSE IF m = "Off" /\ a >= Cool1On THEN CoolingStart(a, free)
  ELSE IF m = "Off" /\ a <= HeatOn THEN "Heat"
  ELSE IF m = "Cool1" /\ a >= Cool2On THEN "Cool2"
  ELSE IF m = "Cool2" /\ a <= Cool2Off /\ free THEN "Cool1" ELSE m

NextMode(m, a, free) ==
  IF CoolingUnits(m) > 0 /\ a >= Cool2On THEN "Cool2"
  ELSE IF m = "Cool2" THEN (IF a <= Cool2Off /\ free THEN "Cool1" ELSE m)
  ELSE IF m = "Cool1" THEN (IF a <= Cool1Off /\ free THEN "Off" ELSE m)
  ELSE IF m = "Off" /\ a <= HeatOn THEN "Heat"
  ELSE IF a >= Cool1On THEN CoolingStart(a, free)
  ELSE IF m = "Heat" /\ a < HeatOff THEN "Heat" ELSE "Off"

(* Mutant: every stop arms the clock again, the one that is only waiting too.  *)
NextHoldRearms(from, to, h) ==
  IF CoolingUnits(to) > 0 THEN (IF to # from THEN MinRun ELSE IF h > 0 THEN h - 1 ELSE 0)
  ELSE MinOff

(* Stage changes arm the minimum run time, the end of cooling the minimum off  *)
(* time; whatever the heater does leaves the clock running.                    *)
NextHold(from, to, h) ==
  IF CoolingUnits(to) > 0 /\ to # from THEN MinRun
  ELSE IF CoolingUnits(from) > 0 /\ CoolingUnits(to) = 0 THEN MinOff
  ELSE IF h > 0 THEN h - 1 ELSE 0

(* Heat the unit takes out of the air in a mode.                               *)
ModeThermal(m) == IF m = "Heat" THEN -HeaterRise ELSE CoolingUnits(m)

HvacInit ==
  /\ mode = "Off" /\ hold = 0 /\ failed = FALSE
  /\ air \in AirTemps
  /\ quiet = Cap

(* The mode is chosen from the air the tick starts with; then the clock moves, *)
(* then the air.                                                               *)
StepContainer ==
  LET to == IF failed THEN "Off" ELSE NextMode(mode, air, hold = 0)
  IN /\ mode' = to
     /\ hold' = NextHold(mode, to, hold)
     /\ quiet' = IF CoolingUnits(to) # CoolingUnits(mode) THEN 0
                 ELSE IF quiet < Cap THEN quiet + 1 ELSE Cap
     /\ \E gain \in Gains : air' = air + gain - ModeThermal(to)
     /\ air' \in AirTemps
     /\ UNCHANGED failed

(* SetHvacFailed between two ticks.                                            *)
SetFailed(f) == failed' = f /\ UNCHANGED <<mode, hold, air, quiet>>

HvacNext == StepContainer \/ \E f \in BOOLEAN : SetFailed(f)

HvacSpec == HvacInit /\ [][HvacNext]_hvacVars
=================================================================================
