----------------------------- MODULE YearProperties -----------------------------
(* What the replay of a reference year keeps.                                  *)
EXTENDS ReplayYear

LeapDay == 59     \* February 29th among the local days of a leap year
Common(q) == ~IsLeapYear(CivilFromUnix(q)[1])

(* February 29th of a common year: the plant goes from the last UTC hour of    *)
(* February 28th, which is the first local hour of the reference leap day, to  *)
(* March 1st.                                                                  *)
AtSeam(entry) == Common(entry.since) /\ entry.day \in {LeapDay, LeapDay + 1}

Whole(i) == i < Len(days) /\ (i > 1 \/ days[1].from = 0)
DistinctDays == {d \in LocalDays : \A s, t \in Slots(d) : PriceAt(d, s) = PriceAt(d, t) => s = t}
FlatDays     == {d \in LocalDays : \A s, t \in Slots(d) : PriceAt(d, s) = PriceAt(d, t)}

(* Every local day is settled and planned whole: all its periods, the short    *)
(* and the long day's too, its hours of charge and of discharge, and then the  *)
(* next day, over the year's end as well. The one exception is the leap day in *)
(* a common year, of which one hour is seen, and March 1st, which lacks it. A  *)
(* day of one price charges and never discharges: the earlier slots win both   *)
(* rankings and charging is looked at first                                    *)
(* (bess-models/src/calendar.rs:31, ems.rs:68, plan.rs:21, periods.rs:48).     *)
DaysRunWhole ==
  /\ \A i \in DOMAIN days : Whole(i) =>
       LET e == days[i] IN
       /\ days[i + 1].day = (e.day + 1) % (Len(DayStarts) - 1)
       /\ IF AtSeam(e) THEN e.periods = IF e.day = LeapDay THEN 4 ELSE 4 * (DayLen(e.day) - 1)
          ELSE /\ e.from = 0 /\ e.periods = 4 * DayLen(e.day)
               /\ e.day \in DistinctDays => /\ e.charging = 4 * ChargeHours
                                     /\ e.discharging = 4 * DischargeHours
               /\ e.day \in FlatDays => e.charging = 4 * ChargeHours /\ e.discharging = 0
  /\ kpis.closed = FoldLeft(LAMBDA n, e : n + e.periods, 0, days)
  /\ kpis.short = FoldLeft(LAMBDA n, e : n + e.periods, 0,
                           SelectSeq(days, LAMBDA e : DayLen(e.day) = 23))

(* The weather runs on without a jump from quarter-hour to quarter-hour, over  *)
(* the year's end too; only the leap day a common year leaves out is a jump    *)
(* (weather.rs:131, weather.rs:162).                                           *)
MaxRise == 1      \* what an hour of these series may rise or fall by
WeatherRunsOn ==
  LET before == InputsAt(quarter)
      after  == InputsAt(quarter + 1)
      Near(a, b) == b - a \in -MaxRise..MaxRise
      skips  == Common(quarter) /\ ReferenceQuarter(quarter + 1, RefYear) \div Quarters = LeapDay + 1
                /\ ReferenceQuarter(quarter + 1, RefYear) % Quarters \in 0..2
  IN ~skips => Near(before.ambient, after.ambient) /\ Near(before.sun, after.sun)

(* A run from a stop meets what the stop is for: it opens on the day, or in    *)
(* the hour before the one it was picked for, in whatever year; only what lies *)
(* on the leap day is missed in a common year (presets.rs:52, presets.rs:115,  *)
(* clock.rs:81).                                                               *)
StopLands ==
  aim # NoStop =>
    LET opened == until - StopQuarters
        onLeap == Common(opened) /\ <<aim.month, aim.day>> = <<2, 29>>
    IN \E w \in Weathers : aim \in Range(Stops[w]) /\
         CASE aim.label = "warmest" -> onLeap \/ <<HourAt(opened) \div 24>> = ExtremeDay(w.totals, 1)
           [] aim.label = "coldest" -> onLeap \/ <<HourAt(opened) \div 24>> = ExtremeDay(w.totals, -1)
           [] OTHER ->
                LET wettest == WettestHour(w.rain, IF aim.label = "snowfall" THEN {"snow"} ELSE AnyForm)
                IN \/ onLeap
                   \/ (wettest = <<0>> /\ HourAt(opened) = 0)
                   \/ HourAt(opened) + 1 = wettest[1]

(* Through any year, days, weather and stops run on together.                  *)
YearRunsOn == DaysRunWhole /\ WeatherRunsOn /\ StopLands

(* A comment on the number of periods of the annual run says that it replays a *)
(* common year and that February 29th is not visited (bess-bench/src/bands.rs  *)
(* :96).                                                                       *)
LeapDayNotVisited ==
  \A i \in DOMAIN days : days[i].day = LeapDay => ~Common(days[i].since)
=================================================================================
