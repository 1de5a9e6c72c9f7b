----------------------------- MODULE DataCompilers -----------------------------
(* The compilers of the two bundled artifacts (bess-data/src/bin/compile-      *)
(* weather.rs, compile-prices.rs) and the codecs that write and load them      *)
(* (bess-data/src/lib.rs, prices.rs, prices/codec.rs). A product file is its   *)
(* rows in order, each with the hour its stamp names. A measured value is in   *)
(* twelfths of the tenth the artifact keeps, so that an interpolated one is    *)
(* whole.                                                                      *)
EXTENDS Integers, SequencesExt

CONSTANTS
  YearHours,       \* HOURS_2024
  PhysicsGap,      \* MAX_PHYSICS_GAP_H
  SceneryGap,      \* MAX_SCENERY_GAP_H
  DayHours,        \* hours of a day of the price year
  PriceHours       \* hours of the price year

ASSUME CompilerAssumption ==
  /\ {YearHours, PhysicsGap, SceneryGap, PriceHours} \subseteq Nat
  /\ DayHours \in Nat \ {0, 1}

Missing == -999
Hours == 0..(YearHours - 1)

OtherYear == -1    \* a stamp of another year: the row is skipped
BadStamp  == -2    \* a stamp that is no hour of the year: the file is refused

NotBuilt == [ok |-> FALSE]
Built(series, filled) == [ok |-> TRUE, series |-> series, filled |-> filled]

--------------------------------------------------------------------------------
(* Parsing and filling.                                                        *)

(* parse_two_columns: of rows with the same stamp the last one counts, a       *)
(* missing marker in it too.                                                   *)
Column(rows, field) ==
  [h \in Hours |-> LET at == {i \in DOMAIN rows : rows[i].at = h}
                   IN IF at = {} THEN Missing ELSE rows[Max(at)][field]]

Parses(rows) == \A i \in DOMAIN rows : rows[i].at # BadStamp

Known(s) == {h \in DOMAIN s : s[h] # Missing}

(* Mutant: a gap is looked for between two observations only.                  *)
LongestGapInside(s) ==
  Max({0} \cup {b - a - 1 : <<a, b>> \in {r \in Known(s) \X Known(s) :
                             r[1] < r[2] /\ (r[1] + 1)..(r[2] - 1) \cap Known(s) = {}}})

LongestGap(s) ==
  Max({b - a : <<a, b>> \in {r \in (0..YearHours) \X (0..YearHours) :
                               r[1] <= r[2] /\ r[1]..(r[2] - 1) \cap Known(s) = {}}})

Prev(s, i) == {h \in Known(s) : h < i}
Next1(s, i) == {h \in Known(s) : h > i}

Linear(s, i) ==
  LET p == Prev(s, i)  n == Next1(s, i)
  IN IF p # {} /\ n # {}
     THEN (s[Max(p)] * (Min(n) - i) + s[Min(n)] * (i - Max(p))) \div (Min(n) - Max(p))
     ELSE s[IF p # {} THEN Max(p) ELSE Min(n)]

Nearest(s, i) ==
  LET p == Prev(s, i)  n == Next1(s, i)
  IN IF n = {} \/ (p # {} /\ i - Max(p) <= Min(n) - i) THEN s[Max(p)] ELSE s[Min(n)]

(* fill_linear and fill_nearest: gaps too long, or nothing at all, are refused.*)
Fill(s, gap, How(_, _)) ==
  IF LongestGap(s) > gap \/ Known(s) = {} THEN NotBuilt
  ELSE Built([h \in Hours |-> IF h \in Known(s) THEN s[h] ELSE How(s, h)],
                Cardinality(Hours \ Known(s)))

FillLinear(s, gap)  == Fill(s, gap, Linear)
FillNearest(s, gap) == Fill(s, gap, Nearest)

FillZero(s) == Built([h \in Hours |-> IF h \in Known(s) THEN s[h] ELSE 0],
                        Cardinality(Hours \ Known(s)))

FormUnknown == 4
FillForm(s, mm) ==
  Built([h \in Hours |-> IF h \in Known(s) THEN s[h] ELSE IF mm[h] > 0 THEN FormUnknown ELSE 0],
           Cardinality(Hours \ Known(s)))

--------------------------------------------------------------------------------
(* The sun: intervals that end in true solar time, their energy spread over    *)
(* the UTC hours they overlap. Times are quarter-hours from the year's start,  *)
(* energy is in sixtieths so that a share of an interval is whole.             *)
Span == 4 * YearHours
NoEnd == -1000

Overlap(start, end, h) == Max({0, Min({end, 4 * h + 4}) - Max({start, 4 * h})})

(* Only a day to each side of the year is read.                                *)
Matters(row) == row.end \in -192..(Span + 95)

(* One row: an interval of half an hour to an hour and a half, from the last   *)
(* row's end; the first is taken to be an hour long.                           *)
Spread(acc, row) ==
  LET start == IF acc.prev = NoEnd THEN row.end - 4 ELSE acc.prev
      long  == row.end - start
  IN IF ~acc.ok \/ long \notin 2..6 THEN [acc EXCEPT !.ok = FALSE]
     ELSE IF row.end <= 0 \/ start >= Span THEN [acc EXCEPT !.prev = row.end]
     ELSE IF row.sum = Missing THEN [acc EXCEPT !.ok = FALSE]
     ELSE [ok |-> TRUE, prev |-> row.end,
           energy  |-> [h \in Hours |-> acc.energy[h]
                          + (60 * row.sum * Overlap(start, row.end, h)) \div long],
           covered |-> [h \in Hours |-> acc.covered[h] + Overlap(start, row.end, h)]]

DistributeSolar(rows) ==
  LET dark == [ok |-> TRUE, prev |-> NoEnd, energy |-> [h \in Hours |-> 0],
               covered |-> [h \in Hours |-> 0]]
      acc  == FoldLeft(Spread, dark, SelectSeq(rows, Matters))
  IN IF acc.ok /\ \A h \in Hours : acc.covered[h] = 4 THEN Built(acc.energy, 0) ELSE NotBuilt

--------------------------------------------------------------------------------
(* Quantized, half away from zero, within the artifact's limits.               *)
Round(v, per) == IF v >= 0 THEN (2 * v + per) \div (2 * per) ELSE -((per - 2 * v) \div (2 * per))

Quantize(s, per, lo, hi) ==
  LET q == [h \in Hours |-> Round(s[h], per)]
  IN IF \A h \in Hours : q[h] \in lo..hi THEN Built(q, 0) ELSE NotBuilt

Tenth == 12
Unit  == 120

(* compile-weather's run, from files [air, wind, cloud, rain, sun].            *)
CompileWeather(f) ==
  LET temp  == FillLinear(Column(f.air, "a"), PhysicsGap)
      rh    == FillLinear(Column(f.air, "b"), PhysicsGap)
      speed == FillLinear(Column(f.wind, "a"), SceneryGap)
      dir   == FillNearest(Column(f.wind, "b"), SceneryGap)
      cloud == FillNearest(Column(f.cloud, "a"), SceneryGap)
      mm    == FillZero(Column(f.rain, "a"))
      form  == FillForm(Column(f.rain, "b"), mm.series)
      ghi   == DistributeSolar(f.sun)
      stages == <<temp, rh, speed, dir, cloud, mm, form, ghi>>
      series == <<Quantize(temp.series, Tenth, -500, 500), Quantize(rh.series, Tenth, 0, 1000),
                  Quantize(ghi.series, 60, 0, 15000), Quantize(mm.series, Tenth, 0, 1000),
                  Quantize(speed.series, Tenth, 0, 600), Quantize(dir.series, Unit, 0, 360),
                  Quantize(form.series, 1, 0, 255), Quantize(cloud.series, 1, 0, 255)>>
  IN IF \/ \E p \in {"air", "wind", "cloud", "rain"} : ~Parses(f[p])
        \/ \E i \in DOMAIN stages : ~stages[i].ok
        \/ \E i \in DOMAIN series : ~series[i].ok
     THEN NotBuilt
     ELSE [ok |-> TRUE, fills |-> [i \in 1..7 |-> stages[i].filled],
           series |-> [i \in DOMAIN series |-> series[i].series]]
--------------------------------------------------------------------------------
(* Codecs. Little-endian bytes of a signed number, and back.                   *)
Le(v, width) == [k \in 1..width |-> (v \div 256^(k - 1)) % 256]

FromLe(bytes) ==
  LET top == bytes[Len(bytes)]
      v   == FoldRight(LAMBDA b, n : b + 256 * n, Front(bytes), 0)
  IN v + 256^(Len(bytes) - 1) * IF top >= 128 THEN top - 256 ELSE top

(* Of the weather's series the first six take two bytes an hour, the codes one.*)
Widths == <<2, 2, 2, 2, 2, 2, 1, 1>>
BytesOf(s, width) == FlattenSeq([i \in 1..YearHours |-> Le(s[i - 1], width)])
EncodeWeather(w) == FlattenSeq([k \in DOMAIN Widths |-> BytesOf(w.series[k], Widths[k])])

Offset(k) == YearHours * FoldLeft(LAMBDA n, x : n + x, 0, SubSeq(Widths, 1, k - 1))
DecodeWeather(bytes) ==
  IF Len(bytes) # YearHours * 14 THEN NotBuilt
  ELSE [ok |-> TRUE, series |-> [k \in DOMAIN Widths |-> [h \in Hours |->
         LET at == Offset(k) + h * Widths[k]
         IN IF Widths[k] = 1 THEN bytes[at + 1] ELSE FromLe(SubSeq(bytes, at + 1, at + 2))]]]

(* PrecipForm::from_code, and the year as lindenberg_2024 serves it.           *)
FormOf(code) == CASE code = 0 -> "none" [] code \in {1, 6} -> "rain" [] code = 7 -> "snow"
                  [] code = 8 -> "mixed" [] OTHER -> "unknown"

LoadWeather(bytes) ==
  [DecodeWeather(bytes) EXCEPT !.series[7] = [h \in Hours |-> FormOf(@[h])]]

--------------------------------------------------------------------------------
(* Prices. A block is its start, and the hours it lists with their prices.     *)
NoPrice == -999999
PriceLimits == -50000..400000      \* cents of a euro a megawatt-hour
InYear(h) == h \in 0..(PriceHours - 1)

Entries(blocks, h) ==
  {<<b, i>> \in (DOMAIN blocks) \X (1..PriceHours) :
     i <= Len(blocks[b].prices) /\ blocks[b].start + i - 1 = h}

(* hourly_series: every hour there once, priced and within the limits.         *)
HourlySeries(blocks) ==
  LET At(h) == Entries(blocks, h)
      PriceOf(h) == LET e == CHOOSE e \in At(h) : TRUE IN blocks[e[1]].prices[e[2]]
  IN IF \A h \in 0..(PriceHours - 1) : Cardinality(At(h)) = 1 /\ PriceOf(h) \in PriceLimits
     THEN Built([i \in 1..PriceHours |-> PriceOf(i - 1)], 0) ELSE NotBuilt

WholeDays(hours) == (hours + DayHours \div 2) \div DayHours

(* day_table: a midnight every day from a block's start to the next block's.   *)
DayTable(blocks) ==
  LET starts == SetToSortSeq({b.start : b \in Range(blocks)} \cap 0..(PriceHours - 1), <)
      Ahead(i) == IF i = Len(starts) THEN PriceHours ELSE starts[i + 1]
      Days(i) == [k \in 1..WholeDays(Ahead(i) - starts[i]) |-> starts[i] + (k - 1) * DayHours]
  IN IF starts = <<>> \/ starts[1] # 0 THEN NotBuilt
     ELSE Built(Append(FlattenSeq([i \in DOMAIN starts |-> Days(i)]), PriceHours), 0)

CheckDayStarts(table, hours) ==
  /\ table # <<>> /\ table[1] = 0 /\ Last(table) = hours
  /\ \A d \in 1..(Len(table) - 1) : table[d + 1] - table[d] \in (DayHours - 1)..(DayHours + 1)

(* compile-prices' run.                                                        *)
CompilePrices(blocks) ==
  LET prices == HourlySeries(blocks)
      table  == DayTable(blocks)
  IN IF ~prices.ok \/ ~table.ok \/ ~CheckDayStarts(table.series, PriceHours) THEN NotBuilt
     ELSE [ok |-> TRUE, prices |-> prices.series, starts |-> table.series]

EncodePrices(p) == FlattenSeq([i \in DOMAIN p.prices |-> Le(p.prices[i], 4)])
                   \o FlattenSeq([i \in DOMAIN p.starts |-> Le(p.starts[i], 2)])

DecodePrices(bytes, days) ==
  LET split == 4 * PriceHours
      prices == [i \in 1..PriceHours |-> FromLe(SubSeq(bytes, 4 * i - 3, 4 * i))]
      starts == [d \in 1..(days + 1) |-> FromLe(SubSeq(bytes, split + 2 * d - 1, split + 2 * d))]
  IN IF Len(bytes) # split + 2 * (days + 1) \/ ~CheckDayStarts(starts, PriceHours) THEN NotBuilt
     ELSE [ok |-> TRUE, prices |-> prices, starts |-> starts]
================================================================================
