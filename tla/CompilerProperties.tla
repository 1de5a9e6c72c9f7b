--------------------------- MODULE CompilerProperties ---------------------------
(* What a plant that replays a compiled year may take for granted.             *)
EXTENDS DataCompilers

Bridges(s, gap) ==
  /\ Known(s) # {}
  /\ \A h \in Hours : \E k \in Known(s) : k \in (h - gap)..(h + gap)
  /\ \A h \in 0..(YearHours - gap - 1) : (h..(h + gap)) \cap Known(s) # {}

(* The observations a filled hour lies between; at an edge there is one.       *)
Around(s, h) == {s[k] : k \in (IF Prev(s, h) # {} THEN {Max(Prev(s, h))} ELSE {})
                         \cup (IF Next1(s, h) # {} THEN {Min(Next1(s, h))} ELSE {})}

(* What was observed is kept to the digit. What was not lies between its       *)
(* neighbours, give or take half a tenth of rounding.                          *)
Between(s, out) ==
  \A h \in Hours :
    IF h \in Known(s) THEN out[h] * Tenth = s[h]
    ELSE 2 * Tenth * out[h] \in
           (2 * Min(Around(s, h)) - Tenth)..(2 * Max(Around(s, h)) + Tenth)

(* What was not observed is an observation, and none is nearer.                *)
OfTheNearest(s, out, per) ==
  \A h \in Hours : \E k \in Known(s) :
    /\ out[h] * per = s[k]
    /\ \A j \in Known(s) : LET d == k - h  e == j - h
                           IN d * d < e * e \/ (d * d = e * e /\ k <= j)

(* A year of weather within the artifact's limits compiles exactly if its gaps *)
(* are as short as the policy has it. What is loaded of it is its              *)
(* observations, with every hour in between made from the neighbours           *)
(* (compile-weather.rs:200, :229, :260, :273).                                 *)
WeatherIsObserved(f) ==
  LET r    == CompileWeather(f)
      temp == Column(f.air, "a")   rh  == Column(f.air, "b")
      wind == Column(f.wind, "a")  dir == Column(f.wind, "b")
      okta == Column(f.cloud, "a")
      mm   == Column(f.rain, "a")  form == Column(f.rain, "b")
      loaded == LoadWeather(EncodeWeather(r)).series
  IN /\ r.ok => /\ Bridges(temp, PhysicsGap) /\ Bridges(rh, PhysicsGap)
                /\ \A s \in {wind, dir, okta} : Bridges(s, SceneryGap)
                /\ Between(temp, r.series[1]) /\ Between(rh, r.series[2])
                /\ Between(wind, r.series[5])
                /\ OfTheNearest(dir, r.series[6], Unit) /\ OfTheNearest(okta, r.series[8], 1)
                /\ \A h \in Hours : /\ h \notin Known(mm) => r.series[4][h] = 0
                                    /\ loaded[7][h] = IF h \in Known(form) THEN FormOf(form[h])
                                                      ELSE IF loaded[4][h] = 0 THEN "none" ELSE "unknown"
                /\ \A k \in (DOMAIN r.series) \ {7} : loaded[k] = r.series[k]
     /\ r.ok \/ ~Bridges(temp, PhysicsGap) \/ ~Bridges(rh, PhysicsGap)
             \/ ~DistributeSolar(f.sun).ok \/ \E p \in {"air", "wind", "cloud", "rain"} : ~Parses(f[p])
             \/ \E s \in {wind, dir, okta} : ~Bridges(s, SceneryGap)

(* Solar time drifts against the clock, and yet no energy of the year is lost  *)
(* or counted twice, and none is made up for an hour that was not measured     *)
(* (compile-weather.rs:341).                                                   *)
SunIsMeasured(rows) ==
  LET Start(i) == IF i = 1 THEN rows[1].end - 4 ELSE rows[i - 1].end
      Long(i)  == rows[i].end - Start(i)
      Inside(i) == Max({0, Min({rows[i].end, Span}) - Max({Start(i), 0})})
      Sum(s)   == FoldFunction(LAMBDA v, n : v + n, 0, s)
      r == DistributeSolar(rows)
  IN /\ r.ok <=> /\ rows # <<>> /\ Start(1) <= 0 /\ Last(rows).end >= Span
                 /\ \A i \in DOMAIN rows : /\ i > 1 => Long(i) \in 2..6
                                           /\ Inside(i) > 0 => rows[i].sum # Missing
     /\ r.ok => Sum(r.series) = Sum([i \in DOMAIN rows |->
                  IF Inside(i) = 0 THEN 0 ELSE (60 * rows[i].sum * Inside(i)) \div Long(i)])

(* A price year compiles exactly if its blocks tile it with prices within the  *)
(* limits, each whole days but for the hour of a clock change, and the last    *)
(* one running past the end if it likes. Then every price is at its hour,      *)
(* every day begins at a local midnight and only the last day of a block is    *)
(* longer or shorter (compile-prices.rs:147, :180).                            *)
PricesAreListed(blocks) ==
  LET r == CompilePrices(blocks)
      End(b) == Min({b.start + Len(b.prices), PriceHours})
      ends == {End(b) : b \in Range(blocks)}
      tiled == /\ blocks # <<>> /\ {b.start : b \in Range(blocks)} \cup {PriceHours} = ends \cup {0}
               /\ FoldLeft(LAMBDA n, b : n + End(b) - b.start, 0, blocks) = PriceHours
               /\ \A b \in Range(blocks) :
                    /\ (End(b) - b.start) % DayHours \in {0, 1, DayHours - 1}
                    /\ \A i \in 1..(End(b) - b.start) : b.prices[i] \in PriceLimits
  IN /\ r.ok <=> tiled
     /\ r.ok =>
          /\ \A b \in Range(blocks) : /\ b.start \in Range(r.starts)
                                      /\ \A i \in (b.start + 1)..End(b) :
                                           r.prices[i] = b.prices[i - b.start]
          /\ \A d \in 1..(Len(r.starts) - 1) :
               r.starts[d + 1] - r.starts[d] # DayHours => r.starts[d + 1] \in ends
          /\ DecodePrices(EncodePrices(r), Len(r.starts) - 1) = r
=================================================================================
