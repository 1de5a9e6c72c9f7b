------------------------------ MODULE ScenarioFile ------------------------------
(* The rules a parsed file passes before it is a scenario                      *)
(* (bess-scenario/src/validate.rs, validate/physical.rs, validate/data.rs),    *)
(* each refusal with the event and field it names. Numbers of the file are     *)
(* whole: rates in tenths. serde's own refusals stay outside.                  *)
EXTENDS ScenarioText

NoPath    == <<>>
NoText    == <<>>
NoSurface == "none"

Params == <<"rate_pct_per_month", "points", "exponent", "rate_per_min", "drift_s_per_h">>

(* The (kind, fault) table of physical events.                                 *)
Physical ==
  {<<"hvac", "failure">>, <<"hvac", "repair">>, <<"pcs", "trip">>,
   <<"site", "protection_trip">>, <<"block", "maintenance_enter">>,
   <<"block", "maintenance_exit">>, <<"rack", "isolate">>, <<"rack", "restore">>,
   <<"rack", "self_discharge">>}
  \cup ({"site", "block", "rack"} \X {"alarm_reset"})

DataKinds == {"dropout", "freeze", "unit_error", "chatter", "timestamp_drift",
              "nan_burst", "backfill_burst"}

ModbusLacks == {"timestamp_drift", "nan_burst", "backfill_burst"}

(* The parameters each fault takes.                                            *)
Takes(fault) ==
  IF fault = "self_discharge" THEN {"rate_pct_per_month"}
  ELSE IF fault \in {"freeze", "nan_burst"} THEN {"points"}
  ELSE IF fault = "unit_error" THEN {"points", "exponent"}
  ELSE IF fault = "chatter" THEN {"points", "rate_per_min"}
  ELSE IF fault = "timestamp_drift" THEN {"drift_s_per_h"} ELSE {}

Ok == <<"ok", "ok">>
Refusal(field, reason) == <<field, reason>>

Must(rule, field, reason) == IF rule THEN Ok ELSE Refusal(field, reason)

(* A rule is looked at only when those before it hold.                         *)
why ## next == IF why = Ok THEN next ELSE why

(* only_taken: the first parameter given that the fault does not take.         *)
OnlyTaken(spec) ==
  LET extra == SelectSeq(Params, LAMBDA p : p \in DOMAIN spec.params \ Takes(spec.fault))
  IN Must(extra = <<>>, Head(extra), "ParameterNotTaken")

(* A rate is <<v>>, or <<lo, hi>> to draw from.                                *)
RateInRange(rate) ==
  /\ \A i \in DOMAIN rate : rate[i] \in 1..1000
  /\ Len(rate) = 2 => rate[1] < rate[2]

RateWhy(spec) ==
  Must("rate_pct_per_month" \in DOMAIN spec.params, "rate_pct_per_month", "ParameterMissing")
  ## Must(RateInRange(spec.params.rate_pct_per_month), "rate_pct_per_month", "ParameterOutOfRange")

PhysicalWhy(spec) ==
  LET t == ParseTarget(spec.target)
  IN Must(t.ok, "target", "BadTarget")
     ## Must(<<t.kind, spec.fault>> \in Physical, "fault", "FaultNotForTarget")
     ## (IF spec.fault = "self_discharge" THEN RateWhy(spec) ELSE Ok)
     ## Must(spec.duration = NoText, "duration", "DurationForbidden")
     ## OnlyTaken(spec)

(* A duration that is given must be one, and some time.                        *)
SpanWhy(d, field, zero) ==
  Must(d.why = "ok", field, "BadDuration") ## Must(d.total # 0, field, zero)

DurationWhy(spec) ==
  IF spec.duration = NoText
  THEN Must(spec.fault \in {"backfill_burst", "unit_error"}, "duration", "DurationRequired")
  ELSE Must(spec.fault # "backfill_burst", "duration", "DurationForbidden")
       ## SpanWhy(ParseDuration(spec.duration), "duration", "ZeroDuration")

(* The one number each of three faults carries, once what it takes is known.   *)
NumberWhy(spec) ==
  LET needs == [chatter |-> "rate_per_min", timestamp_drift |-> "drift_s_per_h"]
      given(p) == p \in DOMAIN spec.params
  IN IF spec.fault = "unit_error"
       THEN Must(given("exponent") => spec.params.exponent # 0, "exponent", "ParameterOutOfRange")
     ELSE IF spec.fault \notin DOMAIN needs THEN Ok
     ELSE Must(given(needs[spec.fault]), needs[spec.fault], "ParameterMissing")
          ## Must(/\ spec.fault = "chatter" => spec.params.rate_per_min \in 1..600
                  /\ spec.fault = "timestamp_drift" => spec.params.drift_s_per_h # 0,
                  needs[spec.fault], "ParameterOutOfRange")

DataWhy(spec) ==
  Must(spec.fault \in DataKinds, "fault", "UnknownDataFault")
  ## Must(spec.surface = "modbus" => spec.fault \notin ModbusLacks, "fault", "FaultNotForSurface")
  ## DurationWhy(spec)
  ## OnlyTaken(spec)
  ## Must("points" \in DOMAIN spec.params => ParseSelector(spec.params.points).ok,
          "points", "BadPoints")
  ## NumberWhy(spec)

EventWhy(spec) ==
  Must(ParseDuration(spec.at).why = "ok", "at", "BadDuration")
  ## Must(spec.target = NoPath \/ spec.surface = NoSurface, "surface", "BothTargetAndSurface")
  ## (IF spec.target # NoPath THEN PhysicalWhy(spec)
      ELSE IF spec.surface # NoSurface THEN DataWhy(spec)
      ELSE Refusal("target", "NeitherTargetNorSurface"))

AtS(spec) == ParseDuration(spec.at).total

(* When each event of a file is due.                                           *)
Times(events) == [i \in DOMAIN events |-> AtS(events[i])]

(* Mutant: an event at the very end of the story is let pass.                  *)
PastLengthLate(file, at) == file.length # NoText /\ at > ParseDuration(file.length).total
PastLength(file, at) == file.length # NoText /\ at >= ParseDuration(file.length).total

(* Physical events of one target stand in time order, no two together.         *)
OrderWhy(events, at, i) ==
  LET same == {j \in 1..(i - 1) : events[i].target # NoPath /\ events[j].target = events[i].target}
      last == CHOOSE j \in same : \A k \in same : k <= j
  IN Must(same = {} \/ at[i] # at[last], "at", "SharedTick")
     ## Must(same = {} \/ at[i] > at[last], "at", "OutOfOrder")

(* A burst replays a dropout of its surface that is over. The sum is a u64     *)
(* without a check: it wraps in a release build.                               *)
BurstWhy(events, at, i) ==
  Must(events[i].fault = "backfill_burst" =>
         \E j \in DOMAIN events :
           /\ events[j].surface = events[i].surface /\ events[j].fault = "dropout"
           /\ (at[j] + ParseDuration(events[j].duration).total) % (MaxSeconds + 1) <= at[i],
       "at", "BackfillWithoutDropout")

(* A name is a sequence of character classes, "a" being the allowed ones.      *)
NameOk(name) == Len(name) \in 1..64 /\ Range(name) \subseteq {"a"}

HeaderWhy(file) ==
  Must(file.schema = 1, "schema", "UnsupportedSchema")
  ## Must(NameOk(file.name), "name", "BadName")
  ## Must(file.start = NoText \/ RealDate(file.start), "start", "BadStart")
  ## Must(file.speed = 0 \/ file.speed \in 1..3600, "speed", "SpeedOutOfRange")
  ## (IF file.length = NoText THEN Ok
      ELSE SpanWhy(ParseDuration(file.length), "length", "ZeroLength"))

ListedWhy(file, at, i) ==
  EventWhy(file.events[i])
  ## Must(~PastLength(file, at[i]), "at", "EventAfterLength")
  ## OrderWhy(file.events, at, i)

(* The first refusal of a list, or that there is none.                         *)
FirstOf(whys) ==
  LET bad == {i \in DOMAIN whys : whys[i] # Ok}
  IN IF bad = {} THEN [index |-> 0, why |-> Ok]
     ELSE LET i == CHOOSE i \in bad : \A j \in bad : i <= j IN [index |-> i, why |-> whys[i]]

(* The header, 0, and then the events in turn.                                 *)
FieldWhys(file, at) ==
  [i \in 0..Len(file.events) |-> IF i = 0 THEN HeaderWhy(file) ELSE ListedWhy(file, at, i)]

(* Mutant: the loop goes on after a refusal and keeps the last one.            *)
ValidateToTheEnd(file) ==
  LET whys == FieldWhys(file, Times(file.events))
      bad  == {i \in DOMAIN whys : whys[i] # Ok}
      last == CHOOSE i \in bad : \A j \in bad : j <= i
  IN IF bad = {} THEN [index |-> 0, why |-> Ok] ELSE [index |-> last, why |-> whys[last]]

(* The first rule the file breaks, with the event that breaks it; 0 is none or *)
(* the file's own fields. Bursts are looked at when the rest has passed.       *)
Validate(file) ==
  LET at     == Times(file.events)
      fields == FirstOf(FieldWhys(file, at))
  IN IF fields.why # Ok THEN fields
     ELSE FirstOf([i \in DOMAIN file.events |-> BurstWhy(file.events, at, i)])

Accepted(file) == Validate(file).why = Ok
================================================================================
