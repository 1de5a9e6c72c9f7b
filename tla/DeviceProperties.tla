---------------------------- MODULE DeviceProperties ----------------------------
(* What the devices that step with the tick promise.                           *)
EXTENDS Thermostat, Meters, PowerPath

(* The compressors keep their rest and run times through every sequence of     *)
(* heating, staging, failure and repair (thermal.rs:236, one clock for both).  *)
C == INSTANCE Compressors WITH units <- CoolingUnits(mode)
KeepsRest == C!Init /\ [][C!Next(failed)]_<<CoolingUnits(mode), quiet>>

(* A container that is hot enough for both units gets both, unless it cools or *)
(* its unit fails: the clock never starves a stopped compressor.               *)
Hot == ~failed /\ air >= Cool2On
HotContainerIsCooled == Hot ~> (~Hot \/ mode = "Cool2")

(* The end of the quarter-hour before t, and what went over the POI between   *)
(* two instants of the run.                                                    *)
Boundary(t) == t - (t % Period)
EndedBy(t) == Larger(0, Len(story) - (now - t))    \* ticks of the run that ended by t

(* What the first k of some amounts come to.                                   *)
SumsOf(s) == LET sum[k \in 0..Len(s)] == IF k = 0 THEN 0 ELSE sum[k - 1] + s[k] IN sum

ExportsOf(s) == [k \in DOMAIN s |-> IF s[k] > 0 THEN s[k] ELSE 0]
ImportsOf(s) == [k \in DOMAIN s |-> IF s[k] < 0 THEN -s[k] ELSE 0]
Exported(a, b) == SumsOf(ExportsOf(story))[EndedBy(b)] - SumsOf(ExportsOf(story))[EndedBy(a)]
Imported(a, b) == SumsOf(ImportsOf(story))[EndedBy(b)] - SumsOf(ImportsOf(story))[EndedBy(a)]

(* The fiscal meter: a period holds the energy of the ticks that end in its    *)
(* quarter-hour, on the clock and not on the start of the run, and the totals  *)
(* are those of the SCADA meters (revenue.rs:65, kernel.rs:234).               *)
PeriodsAddUp ==
  LET first == now - Len(story)
      open  == Larger(Boundary(now), first)
  IN /\ fiscal.start = open
     /\ fiscal.closed = (now \div Period) - (first \div Period)
     /\ fiscal.periodExport = Exported(open, now)
     /\ fiscal.periodImport = Imported(open, now)
     /\ fiscal.closed > 0 => /\ fiscal.lastExport = Exported(Boundary(now) - Period, open)
                             /\ fiscal.lastImport = Imported(Boundary(now) - Period, open)
     /\ fiscal.export = scada.export /\ fiscal.import = scada.import

(* The site's energy balance: what the racks gave up is what crossed the POI,  *)
(* what was lost, and the house load that did not come from outside; and the   *)
(* house load as metered is the sum of its items (kernel.rs:244), through any  *)
(* number of trips.                                                            *)
EnergyBalance ==
  /\ drawn = books.battery + books.pcs + books.transformer
             + (books.aux - scada.station) + scada.export - scada.import
  /\ books.aux = Total(books.items)

(* The racks follow their block inside their window: neither the plant's      *)
(* demand nor balancing takes one out of it, whatever limits the other racks   *)
(* meet, and none runs against the block: a charging block discharges none of  *)
(* them to feed the converter (pcs.rs:184), an idle block moves nothing.       *)
WindowKept == \A c \in Cells : rack[c].soc \in SocMin..SocMax
NeverOpposite ==
  \A c \in Cells : rack'[c].soc # rack[c].soc =>
    /\ share' >= 0 => rack'[c].current >= 0
    /\ share' <= 0 => rack'[c].current <= 0
RacksFollow == [][WindowKept' /\ NeverOpposite]_pathVars
=================================================================================
