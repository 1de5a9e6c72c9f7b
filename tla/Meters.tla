--------------------------------- MODULE Meters ---------------------------------
(* Where a tick's energy is booked: the substation with its SCADA meters       *)
(* (bess-models/src/grid.rs), the fiscal quarter-hour meter beside them        *)
(* (bess-core/src/state/revenue.rs), the auxiliary inventory (aux.rs) and the  *)
(* energy accounts (state/energy.rs), in the order of kernel.rs.               *)
(* One tick lasts one unit of time, so a power is the energy it books.         *)
EXTENDS Integers, Sequences

CONSTANTS
  Period,        \* RevenueMeter::PERIOD_S, in ticks
  Starts,        \* instants a run may start at
  DcPowers,      \* what the racks may deliver to the converters
  Heats,         \* what the racks may turn into heat
  PcsLosses,     \* what converters that run may lose
  HvacPowers,    \* what the containers' HVAC may draw
  NUnits,        \* converters
  BmsPower, PcsStandby, Controls, Lighting,     \* the inventory
  NoLoad, LoadLoss,                             \* the transformer
  MaxTicks       \* bound on the length of a run

ASSUME MeterAssumption ==
  /\ Period \in Nat \ {0} /\ NUnits \in Nat /\ MaxTicks \in Nat
  /\ Starts \subseteq Int /\ DcPowers \subseteq Int
  /\ Heats \subseteq Int /\ PcsLosses \subseteq Int /\ HvacPowers \subseteq Int
  /\ {BmsPower, PcsStandby, Controls, Lighting, NoLoad, LoadLoss} \subseteq Int

VARIABLES
  now,       \* SiteState::unix_time_s
  breaker,   \* SubstationState::hv_breaker
  scada,     \* import, export and station-service meters
  fiscal,    \* RevenueMeter
  books,     \* EnergyAccounting
  drawn,     \* history: chemical energy the racks gave up
  story      \* history: the POI power of every tick

meterVars == <<now, breaker, scada, fiscal, books, drawn, story>>

(* AuxPower::total_w and AuxEnergy::total_wh.                                  *)
Total(a) == a.hvac + a.bms + a.pcs_standby + a.controls + a.lighting

(* A converter that is energized and not converting pays its standby draw.     *)
StepSite(hvacPower, idle) ==
  [hvac |-> hvacPower, bms |-> BmsPower, pcs_standby |-> PcsStandby * idle,
   controls |-> Controls, lighting |-> Lighting]

Losses(ac) == NoLoad + LoadLoss * ac * ac

(* Behind an open breaker the POI reads zero, the transformer loses nothing    *)
(* and the house load runs over the station-service feed.                      *)
Poi(ac, aux) == IF breaker = "Open" THEN 0 ELSE ac - Losses(ac) - aux

TransformerLoss(ac) == IF breaker = "Open" THEN 0 ELSE Losses(ac)

(* Mutant: an open breaker leaves the station-service feed unmetered.          *)
GridStepUnmetered(poi, aux) ==
  scada' = [scada EXCEPT !.export = IF poi >= 0 THEN @ + poi ELSE @,
                         !.import = IF poi < 0 THEN @ - poi ELSE @]

GridStep(poi, aux) ==
  scada' = IF breaker = "Open" THEN [scada EXCEPT !.station = @ + aux]
           ELSE IF poi >= 0 THEN [scada EXCEPT !.export = @ + poi]
           ELSE [scada EXCEPT !.import = @ - poi]

Book(m, poi) ==
  IF poi >= 0 THEN [m EXCEPT !.export = @ + poi, !.periodExport = @ + poi]
              ELSE [m EXCEPT !.import = @ - poi, !.periodImport = @ - poi]

ClosePeriod(m, end) ==
  [m EXCEPT !.lastImport = m.periodImport, !.lastExport = m.periodExport,
            !.periodImport = 0, !.periodExport = 0,
            !.closed = @ + 1, !.start = end]

(* Mutant: the quarter-hour is closed before its last tick is booked.          *)
ObserveClosesFirst(poi, end) ==
  fiscal' = Book(IF end % Period = 0 THEN ClosePeriod(fiscal, end) ELSE fiscal, poi)

(* Book the tick, then close the period if the tick ends on a quarter-hour.    *)
Observe(poi, end) ==
  fiscal' = IF end % Period = 0 THEN ClosePeriod(Book(fiscal, poi), end)
                                ELSE Book(fiscal, poi)

Accumulate(sum, aux) ==
  [hvac |-> sum.hvac + aux.hvac, bms |-> sum.bms + aux.bms,
   pcs_standby |-> sum.pcs_standby + aux.pcs_standby,
   controls |-> sum.controls + aux.controls, lighting |-> sum.lighting + aux.lighting]

MeterInit ==
  /\ now \in Starts
  /\ breaker = "Closed"
  /\ scada = [import |-> 0, export |-> 0, station |-> 0]
  /\ fiscal = [import |-> 0, export |-> 0, start |-> now,
               periodImport |-> 0, periodExport |-> 0, closed |-> 0,
               lastImport |-> 0, lastExport |-> 0]
  /\ books = [battery |-> 0, pcs |-> 0, transformer |-> 0, aux |-> 0,
              items |-> [hvac |-> 0, bms |-> 0, pcs_standby |-> 0, controls |-> 0, lighting |-> 0]]
  /\ drawn = 0
  /\ story = <<>>

(* Behind an open breaker the blocks are asked for nothing; their racks still  *)
(* bleed. A converter that moves nothing loses nothing.                        *)
MeterTick ==
  \E dc \in IF breaker = "Open" THEN {0} ELSE DcPowers, heat \in Heats,
     loss \in PcsLosses \cup {0}, hvac \in HvacPowers, idle \in 0..NUnits :
    LET ac  == dc - loss
        aux == StepSite(hvac, idle)
        poi == Poi(ac, Total(aux))
    IN /\ Len(story) < MaxTicks
       /\ loss \in IF dc = 0 THEN {0} ELSE PcsLosses
       /\ dc # 0 => idle < NUnits
       /\ GridStep(poi, Total(aux))
       /\ Observe(poi, now + 1)
       /\ books' = [battery |-> books.battery + heat, pcs |-> books.pcs + loss,
                    transformer |-> books.transformer + TransformerLoss(ac),
                    aux |-> books.aux + Total(aux), items |-> Accumulate(books.items, aux)]
       /\ now' = now + 1
       /\ drawn' = drawn + dc + heat
       /\ story' = Append(story, poi)
       /\ UNCHANGED breaker

SwitchBreaker ==
  /\ breaker' = IF breaker = "Open" THEN "Closed" ELSE "Open"
  /\ UNCHANGED <<now, scada, fiscal, books, drawn, story>>

MeterNext == MeterTick \/ SwitchBreaker

MeterSpec == MeterInit /\ [][MeterNext]_meterVars
================================================================================
