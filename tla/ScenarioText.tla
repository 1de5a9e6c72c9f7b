------------------------------ MODULE ScenarioText ------------------------------
(* The texts of a scenario file (bess-scenario/src/schema/duration.rs,         *)
(* target.rs, selector.rs, validate.rs parse_start). A duration is a sequence   *)
(* of characters; a path is a sequence of parts, a part a name with the index  *)
(* its brackets hold.                                                          *)
EXTENDS Calendar, SequencesExt

CONSTANTS
  MaxSeconds,                       \* u64::MAX
  NBlocks, NContainers, NRacks      \* PlantConfig

ASSUME TextAssumption ==
  MaxSeconds \in Nat /\ {NBlocks, NContainers, NRacks} \subseteq Nat \ {0}

--------------------------------------------------------------------------------
(* Durations.                                                                  *)

NoDigits == -1

Digits == <<"0", "1", "2", "3", "4", "5", "6", "7", "8", "9">>

DigitOf(c) == (CHOOSE i \in DOMAIN Digits : Digits[i] = c) - 1

Scale == [W |-> 604800, D |-> 86400, H |-> 3600, M |-> 60, S |-> 1]

Has(text, chars) == \E i \in DOMAIN text : text[i] \in chars

(* One character of a part: a digit, or the unit of the digits before it. The  *)
(* units a part still allows are a sequence, so each comes once and in order.  *)
ReadChar(acc, c) ==
  IF acc.why # "ok" THEN acc
  ELSE IF c \in Range(Digits)
    THEN [acc EXCEPT !.digits = IF @ = NoDigits THEN DigitOf(c) ELSE 10 * @ + DigitOf(c)]
  ELSE IF c \notin Range(acc.units) \/ acc.digits = NoDigits
    THEN [acc EXCEPT !.why = "Malformed"]
  ELSE LET pos == CHOOSE i \in DOMAIN acc.units : acc.units[i] = c
           total == acc.total + acc.digits * Scale[c]
       IN IF total > MaxSeconds THEN [acc EXCEPT !.why = "Overflow"]
          ELSE [acc EXCEPT !.total = total, !.digits = NoDigits,
                           !.units = SubSeq(@, pos + 1, Len(@))]

(* Mutant: digits without a unit are let pass at the end of a part.            *)
EndOfPartLoose(end) == [end EXCEPT !.digits = NoDigits]

EndOfPart(end) ==
  IF end.why = "ok" /\ end.digits # NoDigits THEN [end EXCEPT !.why = "Malformed"] ELSE end

ReadPart(start, part, units) ==
  EndOfPart(FoldLeft(ReadChar, [start EXCEPT !.units = units], part))

ReadTime(days, time) ==
  IF days.why = "ok" THEN ReadPart(days, time, <<"H", "M", "S">>) ELSE days

Total(all) == [why |-> all.why, total |-> IF all.why = "ok" THEN all.total ELSE 0]

Refused(why) == [why |-> why, total |-> 0]

(* Seconds of a duration, or the first of its refusals in the code's order.    *)
ParseDuration(text) ==
  LET rest  == Tail(text)
      cut   == SelectInSeq(rest, LAMBDA c : c = "T")     \* 0: no T
      date  == IF cut = 0 THEN rest ELSE SubSeq(rest, 1, cut - 1)
      time  == IF cut = 0 THEN <<>> ELSE SubSeq(rest, cut + 1, Len(rest))
      empty == [why |-> "ok", total |-> 0, digits |-> NoDigits, units |-> <<>>]
  IN IF text # <<>> /\ Head(text) = "-" THEN Refused("Negative")
     ELSE IF text = <<>> \/ Head(text) # "P" THEN Refused("MissingP")
     ELSE IF Has(rest, {".", ","}) THEN Refused("Fraction")
     ELSE IF Has(date, {"Y", "M"}) THEN Refused("MonthsOrYears")
     ELSE IF Has(date, {"H", "S"}) THEN Refused("MissingT")
     ELSE IF Has(date, {"W"}) /\ (Has(date, {"D"}) \/ cut # 0) THEN Refused("WeeksCombined")
     ELSE IF date = <<>> /\ time = <<>> THEN Refused("Empty")
     ELSE IF cut # 0 /\ time = <<>> THEN Refused("Malformed")
     ELSE Total(ReadTime(ReadPart(empty, date, <<"W", "D">>), time))

--------------------------------------------------------------------------------
(* Paths.                                                                      *)

Bare == -1       \* a part without brackets
Padded == -2     \* an index that is not a plain unpadded number

Part(name, index) == <<name, index>>

Indexed(part, name, size) == part[1] = name /\ part[2] \in 0..(size - 1)

Node(kind, node) == [ok |-> TRUE, kind |-> kind, node |-> node]
Fails(level)     == [ok |-> FALSE, kind |-> "none", node |-> <<level>>]

EndsAt(path, level) == Len(path) = level

(* Target::parse: the node, or the level of the path that failed.              *)
ParseTarget(path) ==
  LET index(k) == path[k][2]
  IN IF path = <<Part("site", Bare)>> THEN Node("site", <<>>)
     ELSE IF ~Indexed(path[1], "block", NBlocks) THEN Fails(1)
     ELSE IF Len(path) = 1 THEN Node("block", <<index(1)>>)
     ELSE IF path[2] = Part("pcs", Bare)
       THEN IF EndsAt(path, 2) THEN Node("pcs", <<index(1)>>) ELSE Fails(3)
     ELSE IF ~Indexed(path[2], "container", NContainers) \/ Len(path) = 2 THEN Fails(2)
     ELSE IF path[3] # Part("hvac", Bare) /\ ~Indexed(path[3], "rack", NRacks) THEN Fails(3)
     ELSE IF ~EndsAt(path, 3) THEN Fails(4)
     ELSE IF path[3] = Part("hvac", Bare) THEN Node("hvac", <<index(1), index(2)>>)
     ELSE Node("rack", <<index(1), index(2), index(3)>>)

(* Display for Target.                                                         *)
Spelled(t) ==
  LET block     == Part("block", t.node[1])
      container == Part("container", t.node[2])
  IN IF t.kind = "site" THEN <<Part("site", Bare)>>
     ELSE IF t.kind = "block" THEN <<block>>
     ELSE IF t.kind = "pcs" THEN <<block, Part("pcs", Bare)>>
     ELSE IF t.kind = "hvac" THEN <<block, container, Part("hvac", Bare)>>
     ELSE <<block, container, Part("rack", t.node[3])>>

Targets ==
  LET B == 0..(NBlocks - 1) C == 0..(NContainers - 1) R == 0..(NRacks - 1)
  IN {Node("site", <<>>)}
     \cup [ok : {TRUE}, kind : {"block", "pcs"}, node : {<<b>> : b \in B}]
     \cup [ok : {TRUE}, kind : {"hvac"}, node : B \X C]
     \cup [ok : {TRUE}, kind : {"rack"}, node : B \X C \X R]

(* Selector::parse: the star is a path of its own.                             *)
Star == <<Part("*", Bare)>>
ParseSelector(path) ==
  IF path = Star THEN Node("all", <<>>)
  ELSE LET t == ParseTarget(path)
       IN IF t.ok /\ t.kind \notin {"site", "block", "pcs"} THEN Fails(Len(path)) ELSE t

--------------------------------------------------------------------------------
(* parse_start on a text of the right shape: its day, if it is a real one.     *)
RealDate(date) ==
  date[2] \in 1..12 /\ CivilFromDays(DaysFromCivil(date[1], date[2], date[3])) = date
================================================================================
