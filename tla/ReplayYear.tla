------------------------------- MODULE ReplayYear -------------------------------
(* A plant run through a replayed reference year, a quarter-hour at a time:    *)
(* the weather it meets (bess-models/src/weather.rs), what the day-ahead plan  *)
(* asks of it (ems.rs, ems/plan.rs over bess-data/src/prices.rs), the local    *)
(* day each period of the fiscal meter settles in (bess-bench/src/periods.rs)  *)
(* and the stops the viewer offers (bess-scene/src/viewer/presets.rs).         *)
EXTENDS Calendar, SequencesExt

CONSTANTS
  RefYear,         \* year of both artifacts
  DayStarts,       \* hour index each local day starts at, and the end
  Price,           \* price of each hour of the local year
  StartOffset,     \* hours the local year starts after the UTC one
  ChargeHours, DischargeHours,
  Temp, Ghi,       \* hourly series of the weather year
  Weathers,        \* [totals, rain]: what the stops are computed from
  Openings,          \* instants a run may start at
  RunQuarters,     \* bound on a run
  StopQuarters     \* bound on a run from a stop

ASSUME DayTableAssumption ==
  /\ DayStarts[1] = 0
  /\ \A d \in 1..(Len(DayStarts) - 1) : DayStarts[d + 1] - DayStarts[d] \in 23..25

VARIABLES
  quarter,     \* the instant
  until,       \* where the run is left
  days,        \* history: the local days settled in, each with what it got
  kpis,        \* Collector::kpis
  aim          \* the stop the run began at, NoStop if none

yearVars == <<quarter, until, days, kpis, aim>>

--------------------------------------------------------------------------------
(* The price year.                                                             *)
YearLen == DayStarts[Len(DayStarts)]
LocalDays == 0..(Len(DayStarts) - 2)

IndexAtUtcHour(h) == (h + StartOffset) % YearLen

(* day_of is a partition point; local days and slots count from 0.             *)
DayOf(idx) == Cardinality({d \in DOMAIN DayStarts : DayStarts[d] <= idx}) - 1
DayLen(d)  == DayStarts[d + 2] - DayStarts[d + 1]

(* DayPlan::rank: a slot's place among its day's, ties toward the earlier one. *)
PriceAt(d, slot) == Price[DayStarts[d + 1] + slot]
Slots(d)         == 0..(DayLen(d) - 1)
CheaperThan(d, s) == {t \in Slots(d) : \/ PriceAt(d, t) < PriceAt(d, s)
                                       \/ PriceAt(d, t) = PriceAt(d, s) /\ t < s}
DearerThan(d, s)  == {t \in Slots(d) : \/ PriceAt(d, t) > PriceAt(d, s)
                                       \/ PriceAt(d, t) = PriceAt(d, s) /\ t < s}
Charges(d, s)    == Cardinality(CheaperThan(d, s)) < ChargeHours
Discharges(d, s) == Cardinality(DearerThan(d, s)) < DischargeHours

(* The hour of the price year an instant reads.                                *)
Index(q) == IndexAtUtcHour(ReferenceHour(q, RefYear))
Slot(idx) == idx - DayStarts[DayOf(idx) + 1]

(* DayAheadEms::site_target_w, by its sign.                                    *)
SiteTarget(q) ==
  LET d == DayOf(Index(q))
      s == Slot(Index(q))
  IN IF Charges(d, s) THEN -1 ELSE IF Discharges(d, s) THEN 1 ELSE 0

(* periods::label: the local day and the quarter of it.                        *)
Label(q) == [day |-> DayOf(Index(q)), quarter |-> Slot(Index(q)) * 4 + (q % 4)]

--------------------------------------------------------------------------------
(* The weather, in quarters of a unit.                                         *)
WeatherLen == Cardinality(DOMAIN Temp)

Interpolate(series, position) ==
  LET len == WeatherLen
      p   == position % (4 * len)
      idx == p \div 4
      a   == series[idx]
      b   == series[(idx + 1) % len]
  IN 4 * a + (b - a) * (p % 4)

(* HistoricalWeather::inputs_at: an hour's irradiance is its mean, so it sits  *)
(* on the half hour.                                                           *)
InputsAt(q) == [ambient |-> Interpolate(Temp, ReferenceQuarter(q, RefYear)),
                sun     |-> Interpolate(Ghi, ReferenceQuarter(q, RefYear) - 2)]

(* HistoricalWeather::hour_at, by its index.                                   *)
HourAt(q) == Min({ReferenceHour(q, RefYear), WeatherLen - 1})

--------------------------------------------------------------------------------
(* The stops.                                                                  *)
NoStop == [label |-> "none", month |-> 0, day |-> 0, hour |-> 0]
RefStart == UnixFromCivil(RefYear, 1, 1, 0)

(* The hours of rain above 0.05 mm, as tenths; the earliest of the wettest.    *)
WettestHour(rain, accept) ==
  LET wet  == {r \in rain : r.mm > 0 /\ r.form \in accept}
      best == {r \in wet : \A o \in wet : o.mm <= r.mm}
  IN IF wet = {} THEN <<>> ELSE <<Min({r.hour : r \in best})>>

(* The earliest of the days whose total is the most extreme.                   *)
ExtremeDay(totals, sign) ==
  LET best == Max({sign * totals[d] : d \in DOMAIN totals})
  IN IF totals = <<>> THEN <<>> ELSE <<Min({d \in DOMAIN totals : sign * totals[d] = best})>>

StopOf(label, date, hour) ==
  [label |-> label, month |-> date[2], day |-> date[3], hour |-> hour]

OpeningHour == 9
FromDay(label, day) == StopOf(label, CivilFromUnix(RefStart + day * Quarters), OpeningHour)

(* Mutant: the stop opens in the hour itself.                                  *)
FromHourItself(label, hour) ==
  LET date == CivilFromUnix(RefStart + hour * 4) IN StopOf(label, date, date[4])

(* Opened an hour before, so the weather arrives.                              *)
FromHour(label, hour) ==
  LET date == CivilFromUnix(RefStart + (IF hour = 0 THEN 0 ELSE hour - 1) * 4)
  IN StopOf(label, date, date[4])

AnyForm == {"rain", "snow"}

StopsFrom(w) ==
  LET Day(label, totals, sign) ==
        [i \in DOMAIN ExtremeDay(totals, sign) |-> FromDay(label, ExtremeDay(totals, sign)[i])]
      Hour(label, accept) ==
        [i \in DOMAIN WettestHour(w.rain, accept) |-> FromHour(label, WettestHour(w.rain, accept)[i])]
  IN Day("warmest", w.totals, 1) \o Day("coldest", w.totals, -1)
     \o Hour("heaviest rain", AnyForm) \o Hour("snowfall", {"snow"})

(* presets::stops, computed once for a compiled year.                          *)
Stops == [w \in Weathers |-> StopsFrom(w)]

--------------------------------------------------------------------------------
NoKpis == [closed |-> 0, short |-> 0, long |-> 0]

YearInit ==
  /\ quarter \in Openings /\ until = quarter + RunQuarters
  /\ days = <<>> /\ kpis = NoKpis /\ aim = NoStop

(* A local day's entry: since when, from which of its quarters, and what of it *)
(* was settled, charged and discharged.                                        *)
Entered(q) == [day |-> Label(q).day, since |-> q, from |-> Label(q).quarter,
               periods |-> 0, charging |-> 0, discharging |-> 0]

Settle(entry, target) ==
  [entry EXCEPT !.periods = @ + 1,
                !.charging = IF target = -1 THEN @ + 1 ELSE @,
                !.discharging = IF target = 1 THEN @ + 1 ELSE @]

(* A quarter-hour passes and the meter closes it: Collector::observe labels it *)
(* by when it opened.                                                          *)
PassQuarter ==
  /\ quarter < until
  /\ LET label == Label(quarter)
         known == IF days # <<>> /\ Last(days).day = label.day THEN days
                  ELSE Append(days, Entered(quarter))
     IN /\ days' = [known EXCEPT ![Len(known)] = Settle(@, SiteTarget(quarter))]
        /\ kpis' = [kpis EXCEPT !.closed = @ + 1,
                                !.short = IF DayLen(label.day) = 23 THEN @ + 1 ELSE @,
                                !.long = IF DayLen(label.day) = 25 THEN @ + 1 ELSE @]
  /\ quarter' = quarter + 1
  /\ UNCHANGED <<until, aim>>

(* controls::stops: the plant restarts on the stop's date, in the year shown.  *)
PickStop(stop) ==
  /\ aim = NoStop
  /\ quarter' = UnixFromCivil(CivilFromUnix(quarter)[1], stop.month, stop.day, stop.hour)
  /\ until' = quarter' + StopQuarters
  /\ days' = <<>> /\ kpis' = NoKpis /\ aim' = stop

YearNext == PassQuarter \/ \E w \in Weathers : \E stop \in Range(Stops[w]) : PickStop(stop)
=================================================================================
