--------------------------------- MODULE MCYear ---------------------------------
(* The windows of a year in which something happens to the calendar. The local *)
(* year is 2024 in Berlin: 23 hours on March 31st, 25 on October 27th.         *)
EXTENDS YearProperties

MCDayStarts == [d \in 1..367 |-> 24 * (d - 1) - IF d \in 92..301 THEN 1 ELSE 0]

(* Days of distinct prices, some negative, and every fourth day of one price.  *)
MCPrice == [i \in 0..8783 |-> IF (i \div 24) % 4 = 3 THEN 5 ELSE ((i * 7) % 25) - 3]

MCSeries == [h \in 0..8783 |-> IF h % 48 <= 24 THEN h % 48 ELSE 48 - (h % 48)]

Day(i) == [d \in 0..365 |-> IF d = i THEN 9 ELSE IF d > 200 THEN 1 ELSE 2 + (d % 7)]
Rain(h, mm, form) == [hour |-> h, mm |-> mm, form |-> form]
MCWeathers ==
  {[totals |-> Day(59), rain |-> {Rain(0, 3, "rain"), Rain(1439, 2, "snow"), Rain(8783, 3, "rain")}],
   [totals |-> Day(60), rain |-> {Rain(1440, 9, "snow"), Rain(1441, 0, "snow"), Rain(7222, 9, "rain")}],
   [totals |-> <<>>, rain |-> {Rain(1441, 1, "rain"), Rain(1416, 1, "snow")}]}

MCStarts == {UnixFromCivil(y, d[1], d[2], d[3]) : y \in {2026, 2028, 2100},
                d \in {<<2, 27, 23>>, <<3, 29, 21>>, <<10, 25, 22>>, <<12, 30, 23>>}}

YearSpec == YearInit /\ [][YearNext]_yearVars
=================================================================================
