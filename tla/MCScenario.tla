------------------------------- MODULE MCScenario -------------------------------
(* The texts of a scenario, its run, the viewer's session and the data         *)
(* compilers share nothing: a behaviour types one text or data file, or writes *)
(* a scenario and plays it, or is a session.                                   *)
EXTENDS ScenarioProperties, SessionProperties, CompilerProperties

(* text is what is typed; its kind "file" plays, "session" views.              *)
vars == <<text, runVars, sessionVars>>

(* A text begins as one of a few and takes up to three more characters.        *)
MCTexts ==
  {Text("duration", t, 3) : t \in {<<>>, <<"P">>, <<"P", "1">>, <<"P", "1", "D", "T">>,
                                   <<"P", "T", "1", "H", "0">>}}
  \cup {Text("path", <<>>, 4)}
  \cup {Text("date", d, 0) : d \in {1999, 2000, 2024, 2100} \X {2, 4, 12, 13} \X (28..32)}

NoHeader == file.length = NoText /\ file.seed = None
Slow == CHOOSE s \in Speeds : \A t \in Speeds : s <= t

Row(h, a, b)       == [at |-> h, a |-> a, b |-> b]
Sunshine(end, sum) == [end |-> end, sum |-> sum]
Week(start, n, void) ==
  [start |-> start, prices |-> [i \in 1..n |-> IF void /\ i = 3 THEN NoPrice ELSE (start + i - 3) * 16000]]

FirstFiles ==
  {Text(k, <<>>, YearHours) : k \in {"air", "wind", "cloud", "rain"}}
  \cup {Text("air", <<Row(OtherYear, 24, 24), Row(0, 24, Missing)>>, YearHours)}
  \cup {Text("air", <<Row(BadStamp, 24, 24)>>, YearHours)}
  \cup {Text("wind", <<Row(1, 24, 120), Row(1, Missing, 240)>>, YearHours)}
  \cup {Text("sun", <<Sunshine(end, 2)>>, 4) : end \in {-1, 0, 2, 4, 5}}
  \cup {Text("blocks", <<>>, 3)}

MCInit ==
  /\ Init /\ SessionInit
  /\ \/ text \in FirstTexts /\ NoHeader /\ speed = Slow
     \/ text \in FirstFiles /\ NoHeader /\ speed = Slow
     \/ text = Text("file", <<>>, 0) /\ speed = Slow
     \/ text = Text("session", <<>>, 0) /\ NoHeader

MCChars == {"P", "T", "-", ".", "Y", "W", "D", "H", "M", "S", "0", "2"}

MCPathParts ==
  {Part(n, Bare) : n \in {"site", "pcs", "hvac", "rack"}} \cup
  {Part(n, i) : n \in {"block", "container", "rack"}, i \in {Padded, 0, 1, 2}}

(* Rows of a product file, later ones at later hours.                          *)
Observed == [air   |-> {<<Missing, Missing>>, <<24, Missing>>, <<-120, 36>>, <<24, 1200>>},
             wind  |-> {<<Missing, 120>>, <<24, 120>>, <<120, 36000>>},
             cloud |-> {<<Missing, Missing>>, <<3, 3>>, <<8, 8>>},
             rain  |-> {<<Missing, Missing>>, <<0, Missing>>, <<24, Missing>>, <<24, 7>>}]
Rows == {Row(h, v[1], v[2]) : h \in {k \in Hours : text.value = <<>> \/ k > Last(text.value).at},
                              v \in Observed[text.kind]}
Intervals == LET end == Last(text.value).end
             IN {Sunshine(end + d, 2 * d - 3) : d \in {1, 2, 5, 6, 7}} \cup {Sunshine(end + 4, Missing)}
                \cup {Sunshine(end + 4, 4)}
Weeks == LET from == IF text.value = <<>> THEN {0, 8} ELSE {Last(text.value).start + d : d \in {7, 8, 9, 16}}
         IN {Week(s, n, FALSE) : s \in from, n \in {7, 8, 9}} \cup {Week(s, 8, TRUE) : s \in from}

RowsOf(kind) == IF kind = "sun" THEN Intervals ELSE IF kind = "blocks" THEN Weeks ELSE Rows

TypeFile ==
  /\ text.kind \in DOMAIN Observed \cup {"sun", "blocks"} /\ text.left > 0
  /\ \E row \in RowsOf(text.kind) :
       text' = Text(text.kind, Append(text.value, row), text.left - 1)

Typed(A)  == A /\ UNCHANGED <<runVars, sessionVars>>
Playback  == text.kind = "file" /\ Next /\ UNCHANGED <<text, sessionVars>>
Viewed(A) == text.kind = "session" /\ A /\ UNCHANGED <<text, runVars>>

MCNext == Typed(TypeText) \/ Typed(TypeFile) \/ Playback \/ Viewed(SessionNext)

(* Frames keep coming (see Session).                                           *)
MCSpec == /\ MCInit /\ [][MCNext]_vars
          /\ WF_vars(Viewed(Advance)) /\ WF_vars(Viewed(Ui))

(* Each product in turn is the typed one, the others are complete.             *)
Complete(v, w) == [i \in 1..YearHours |-> Row(i - 1, v, w)]
Files == [p \in {"air", "wind", "cloud", "rain", "sun"} |->
            IF text.kind = p THEN text.value
            ELSE IF p = "sun" THEN [i \in 1..YearHours |-> Sunshine(4 * i, 1)]
            ELSE IF p = "wind" THEN Complete(24, 120) ELSE IF p = "air" THEN Complete(24, 24) ELSE Complete(0, 0)]

(* The bundled years are what was measured and listed, gaps filled by the      *)
(* policy and nothing else.                                                    *)
DataIsTheSource ==
  /\ text.kind \in DOMAIN Observed => WeatherIsObserved(Files)
  /\ text.kind = "sun" => SunIsMeasured(text.value)
  /\ text.kind = "blocks" => PricesAreListed(text.value)

--------------------------------------------------------------------------------
S(n) == <<"P", "T", Digits[n + 1], "S">>
Rack == <<Part("block", 0), Part("container", 0), Part("rack", 1)>>
Pcs  == <<Part("block", 0), Part("pcs", Bare)>>
Block == <<Part("block", 0)>>

Bare2(at, fault) == [at |-> S(at), target |-> NoPath, surface |-> NoSurface, fault |-> fault,
                     duration |-> NoText, params |-> <<>>]
On(path, at, fault)      == [Bare2(at, fault) EXCEPT !.target = path]
Tap(surface, at, fault, d) == [Bare2(at, fault) EXCEPT !.surface = surface,
                                 !.duration = IF d = 0 THEN NoText ELSE S(d)]
With(spec, params) == [spec EXCEPT !.params = params]

MCSpecs ==
  {With(On(Rack, 1, "self_discharge"), [rate_pct_per_month |-> <<100, 300>>]),
   On(Rack, 2, "isolate"),
   On(Pcs, 1, "trip"), On(Pcs, 0, "alarm_reset"),
   Tap("mqtt", 0, "dropout", 2), Tap("mqtt", 1, "backfill_burst", 0),
   [Tap("mqtt", 2, "dropout", 0) EXCEPT !.duration = <<"P", "1", "W">>],
   Tap("mqtt", 2, "backfill_burst", 0),
   Tap("mqtt", 1, "freeze", 2),
   With(Tap("mqtt", 2, "freeze", 1), [points |-> Block]),
   Tap("mqtt", 1, "unit_error", 0),
   Tap("modbus", 3, "nan_burst", 1),
   With(Tap("mqtt", 2, "nan_burst", 1), [points |-> Rack]),
   With(Tap("modbus", 0, "chatter", 3), [rate_per_min |-> 300]),
   Tap("mqtt", 3, "timestamp_drift", 1),
   With(Tap("mqtt", 3, "timestamp_drift", 1), [drift_s_per_h |-> 60])}

At(tick)     == [tick |-> tick, wire |-> FALSE]
OnWire(tick) == [tick |-> tick, wire |-> TRUE]

MCCases ==
  {[schedule |-> <<At(0), OnWire(2), At(2)>>, length |-> 3, start |-> NoTime, speed |-> NoTime],
   [schedule |-> <<At(1)>>, length |-> NoTime, start |-> 0, speed |-> 2]}

MCHeaders == [length : {NoText, S(3)}, seed : {None, 7}]
================================================================================
