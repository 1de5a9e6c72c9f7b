-------------------------------- MODULE Calendar --------------------------------
(* The Gregorian calendar as the code computes it, three times over            *)
(* (bess-data/src/calendar.rs, bess-models/src/calendar.rs, bess-scene/src/    *)
(* clock.rs), and where an instant lands in a replayed reference year. An      *)
(* instant is a count of quarter-hours since the epoch. \div and % round down, *)
(* as div_euclid and rem_euclid do.                                            *)
EXTENDS Integers, Sequences

DaysFromCivil(y0, month, day) ==
  LET y   == IF month <= 2 THEN y0 - 1 ELSE y0
      era == y \div 400
      yoe == y - era * 400
      mp  == (month + 9) % 12
      doy == (153 * mp + 2) \div 5 + day - 1
  IN era * 146097 + (yoe * 365 + yoe \div 4 - yoe \div 100 + doy) - 719468

CivilFromDays(days) ==
  LET z   == days + 719468
      era == z \div 146097
      doe == z - era * 146097
      yoe == (doe - doe \div 1460 + doe \div 36524 - doe \div 146096) \div 365
      doy == doe - (365 * yoe + yoe \div 4 - yoe \div 100)
      mp  == (5 * doy + 2) \div 153
      m   == IF mp < 10 THEN mp + 3 ELSE mp - 9
  IN <<yoe + era * 400 + (IF m <= 2 THEN 1 ELSE 0), m, doy - (153 * mp + 2) \div 5 + 1>>

Quarters == 96    \* quarter-hours of a day

(* <<year, month, day, hour>>.                                                 *)
CivilFromUnix(q) == CivilFromDays(q \div Quarters) \o <<(q % Quarters) \div 4>>

(* Components out of range roll over: February 29th of a common year is March  *)
(* 1st.                                                                        *)
UnixFromCivil(year, month, day, hour) ==
  DaysFromCivil(year, month, day) * Quarters + hour * 4

(* The month and the day, the year dropped.                                    *)
MonthDay(days) == LET c == CivilFromDays(days) IN <<c[2], c[3]>>

IsLeapYear(year) == year % 4 = 0 /\ (year % 100 # 0 \/ year % 400 = 0)

DaysBeforeMonth == <<0, 31, 59, 90, 120, 151, 181, 212, 243, 273, 304, 334>>

(* reference_day_and_second, in quarter-hours of the reference year.           *)
ReferenceQuarter(q, year) ==
  LET md  == MonthDay(q \div Quarters)
      day == DaysBeforeMonth[md[1]] + md[2] - 1
             + (IF md[1] > 2 /\ IsLeapYear(year) THEN 1 ELSE 0)
  IN day * Quarters + (q % Quarters)

ReferenceHour(q, year) == ReferenceQuarter(q, year) \div 4
=================================================================================
