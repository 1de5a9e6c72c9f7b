-------------------------------- MODULE PowerPath --------------------------------
(* The power path of one block through a tick (bess-core/src/kernel/block.rs): *)
(* balancing, BMS limits, the converter's request, its even split over the     *)
(* racks in service, the cells (bess-models/src/bms/balance.rs, bms.rs,        *)
(* pcs.rs, cell.rs). Charge, spread and power are counted in small units: a    *)
(* rack that delivers one unit for a tick loses one unit of charge.            *)
EXTENDS Integers, FiniteSetsExt

CONSTANTS
  Cells,             \* racks of the block
  Full,              \* a full rack
  SocMin, SocMax,    \* the operating window
  TaperBand,         \* BasicBms::taper_soc_band
  RackRated,         \* RackConfig::max_current_a at nominal voltage
  Ocv,               \* OCV curve over half units of charge, 0..2*Full
  Growth,            \* what use and time may add to the spread in a tick
  Leak,              \* what a leaking cell adds on top
  Bleed,             \* what a tick of bleeding takes off the spread
  BalanceSoc,        \* Balancing::soc_min
  DvStart, DvStop,   \* the hysteresis of balancing
  MaxDischarge,      \* Balancing::max_discharge_a
  PcsRated, Threshold, NoLoadLoss,   \* CurvePcs
  Shares             \* what the site may ask the block for

ASSUME PathAssumption ==
  /\ IsFiniteSet(Cells)
  /\ Full \in Nat \ {0} /\ SocMin \in Nat /\ SocMax \in Nat
  /\ SocMin <= SocMax /\ SocMax <= Full
  /\ TaperBand \in Nat \ {0} /\ RackRated \in Nat
  /\ RackRated <= TaperBand /\ Ocv \in [0..(2 * Full) -> Int]
  /\ Growth \subseteq Nat /\ Leak \in Nat /\ Bleed \in Nat
  /\ BalanceSoc \in Nat /\ SocMin + Bleed <= BalanceSoc
  /\ Shares \subseteq Int
  /\ {PcsRated, Threshold, NoLoadLoss} \subseteq Nat

VARIABLES
  rack,       \* per rack, the fields of RackState this path reads
  share       \* PcsState::p_ac_setpoint_w of the last tick

pathVars == <<rack, share>>

Smaller(a, b) == IF a <= b THEN a ELSE b
Larger(a, b)  == IF a >= b THEN a ELSE b
Clamp(x, lo, hi) == Larger(lo, Smaller(x, hi))

(* The spread as a voltmeter sees it: through the OCV curve at the ends.       *)
CellDv(soc, dsoc) ==
  Ocv[Clamp(2 * soc + dsoc, 0, 2 * Full)] - Ocv[Clamp(2 * soc - dsoc, 0, 2 * Full)]

MayBleed(r) == r.inService /\ r.soc >= BalanceSoc /\ r.current <= MaxDischarge

Active(r) == MayBleed(r) /\ (IF r.active THEN r.dv > DvStop ELSE r.dv >= DvStart)

(* Balancing::step: the spread grows, the policy reads the voltages of the     *)
(* last tick, the bleed narrows the spread and costs charge.                   *)
StepBms(r, growth) ==
  LET wide     == Smaller(r.dsoc + growth + (IF r.leaking THEN Leak ELSE 0), Full)
      active   == Active(r)
      narrowed == IF active THEN Smaller(Bleed, wide) ELSE 0
      soc      == Larger(r.soc - narrowed, 0)
  IN [r EXCEPT !.dsoc = wide - narrowed, !.active = active, !.soc = soc,
               !.dv = CellDv(soc, wide - narrowed)]

(* The limit falls to nothing across the band at each end of the window.       *)
Taper(room) == (RackRated * Clamp(room, 0, TaperBand)) \div TaperBand

(* Mutant: the band is measured from the end of the cell, not of the window.   *)
LimitsUntapered(r) ==
  IF ~r.inService THEN [charge |-> 0, discharge |-> 0]
  ELSE [charge |-> Taper(Full - r.soc), discharge |-> Taper(r.soc)]

RackLimits(r) ==
  IF ~r.inService THEN [charge |-> 0, discharge |-> 0]
  ELSE [charge |-> Taper(SocMax - r.soc), discharge |-> Taper(r.soc - SocMin)]

(* Nothing below the standby threshold; a charge that would not cover the      *)
(* converter's own loss is not attempted.                                      *)
DcRequest(target, limits) ==
  LET ac == Clamp(target, -PcsRated, PcsRated)
      dc == ac + NoLoadLoss
  IN IF ac < Threshold /\ -ac < Threshold THEN 0
     ELSE IF ac > 0 THEN Smaller(dc, limits.discharge)
     ELSE Larger(Smaller(dc, 0), -limits.charge)

(* CellModel::step_rack: a rack out of service carries nothing; the others     *)
(* what they are asked, within their current and what charge they have.        *)
StepRack(r, request) ==
  LET i == IF ~r.inService THEN 0
           ELSE Clamp(Clamp(request, -RackRated, RackRated), r.soc - Full, r.soc)
  IN [r EXCEPT !.current = i, !.soc = Clamp(r.soc - i, 0, Full)]

(* An even split, rounded toward nothing.                                      *)
PerRack(request, n) == IF n = 0 THEN 0
                       ELSE IF request >= 0 THEN request \div n ELSE -((-request) \div n)

PathInit ==
  /\ \E soc \in SocMin..SocMax :
       rack = [c \in Cells |-> [inService |-> TRUE, leaking |-> FALSE, soc |-> soc,
                                dsoc |-> 1, dv |-> 0, active |-> FALSE, current |-> 0]]
  /\ share = 0

StepBlock(target) ==
  \E growth \in [Cells -> Growth] :
    LET bms     == [c \in Cells |-> StepBms(rack[c], growth[c])]
        limits  == [c \in Cells |-> RackLimits(bms[c])]
        block   == [charge    |-> MapThenSumSet(LAMBDA c : limits[c].charge, Cells),
                    discharge |-> MapThenSumSet(LAMBDA c : limits[c].discharge, Cells)]
        running == Cardinality({c \in Cells : bms[c].inService})
        each    == PerRack(DcRequest(target, block), running)
    IN /\ rack' = [c \in Cells |->
                    StepRack(bms[c], Clamp(each, -limits[c].charge, limits[c].discharge))]
       /\ share' = target

SetInService(c, on) ==
  rack' = [rack EXCEPT ![c].inService = on] /\ UNCHANGED share

SelfDischarge(c, on) ==
  rack' = [rack EXCEPT ![c].leaking = on] /\ UNCHANGED share

PathNext ==
  \/ \E t \in Shares : StepBlock(t)
  \/ \E c \in Cells, on \in BOOLEAN : SetInService(c, on) \/ SelfDischarge(c, on)

PathSpec == PathInit /\ [][PathNext]_pathVars
==================================================================================
