---------------------------- MODULE ScenarioProperties ----------------------------
EXTENDS ScenarioRun

CONSTANTS
  FirstTexts,         \* texts before the last characters are typed
  Chars, PathParts    \* what durations and paths are typed of

VARIABLE text         \* the text being typed

(* Texts of sorts: a duration and a path are sequences, a date three numbers.  *)
ASSUME TextsAssumption ==
  /\ Chars \subseteq STRING /\ PathParts \subseteq STRING \X Int
  /\ \A t \in FirstTexts :
       \/ t.kind = "duration" /\ t.value \in Seq(STRING)
       \/ t.kind = "path" /\ t.value \in Seq(STRING \X Int)
       \/ t.kind = "date" /\ t.value \in Int \X Int \X Int /\ t.left = 0

(* What the rules refuse stays refused for the same reason however many events *)
(* follow: an author who mends a file from the top never meets a complaint     *)
(* again. Only a burst may find its dropout further down (validate.rs:119).    *)
RefusalStands ==
  [][Validate(file).why \notin {Ok, Refusal("at", "BackfillWithoutDropout")}
       => Validate(file') = Validate(file)]_file

(* Which of two events comes first in a run, and what they do, depends on the  *)
(* file and the seed alone. A tree at a tick has taken exactly the events      *)
(* scheduled before it, each once and on its tick, in (tick, file) order and   *)
(* at the rates its seed draws, however often the run was cut off and resumed  *)
(* (player.rs:65, player.rs:104).                                              *)
HoldsPast(story, seed, tick, applied) ==
  LET past == {i \in DOMAIN story.events : AtS(story.events[i]) < tick}
  IN /\ Range(applied)
          = {<<i, Draw(story.events[i], seed, i), AtS(story.events[i])>> : i \in past}
     /\ \A j, k \in DOMAIN applied :
          j < k => \/ applied[j][3] < applied[k][3]
                   \/ applied[j][3] = applied[k][3] /\ applied[j][1] < applied[k][1]

TreeHoldsThePast ==
  tree.story # NoStory => HoldsPast(tree.story[1], tree.seed, tree.tick, tree.applied)

(* The dropouts of a surface, and the second at which one is over, which may   *)
(* lie beyond what a u64 holds.                                                *)
Dropouts(surface) ==
  {d \in DOMAIN windows : windows[d].surface = surface /\ windows[d].kind = "dropout"}
DropoutEnd(d) ==
  windows[d].start + ParseDuration(tree.story[1].events[windows[d].index].duration).total

(* validate.rs:6, error.rs:111: a burst that fires replays a dropout of its    *)
(* surface that has ended by then.                                             *)
BurstsFollowDropouts ==
  \A surface \in {"mqtt", "modbus"} :
    \A i \in BackfillsDue(windows, surface, tree.tick) :
      \E d \in Dropouts(surface) : DropoutEnd(d) <= windows[i].start

(* A file the rules accept is played whole: at its length every event has      *)
(* fired, no two physical ones on one node in one tick, and every burst that   *)
(* fired has a dropout on its surface which was over by then, unless that      *)
(* dropout ends later than a u64 can say (see BurstsFollowDropouts).           *)
WholeStoryPlays ==
  tree.story # NoStory =>
    /\ tree.story[1].length # NoText /\ tree.tick >= Ticks(tree.story[1])
         => Len(tree.applied) = Len(tree.story[1].events)
    /\ \A i, j \in DOMAIN tree.applied :
         LET a == tree.story[1].events[tree.applied[i][1]]
             b == tree.story[1].events[tree.applied[j][1]]
         IN i < j /\ a.target # NoPath /\ a.target = b.target
              => tree.applied[i][3] < tree.applied[j][3]
    /\ \A surface \in {"mqtt", "modbus"} :
         \A i \in BackfillsDue(windows, surface, tree.tick) :
           \E d \in Dropouts(surface) :
             DropoutEnd(d) <= windows[i].start \/ DropoutEnd(d) > MaxSeconds

(* A frozen point shows the plant of one moment: the tick its freeze began.    *)
FreezeHoldsOneMoment ==
  \A i \in DOMAIN windows :
    windows[i].frozen # Forever => windows[i].frozen = windows[i].start

(* tap.rs:114: a point reads frozen where a freeze has captured, then scaled   *)
(* by every unit error that selects it, then NaN if a burst does.              *)
ReadsAsDocumented ==
  \A surface \in {"mqtt", "modbus"}, p \in Points :
    LET reach(kind) == {i \in DOMAIN windows : /\ windows[i].kind = kind
                                               /\ Reaches(windows[i], surface, p, tree.tick)}
        read == Value(windows, surface, p, tree.tick)
    IN /\ read.exp = MapThenSumSet(LAMBDA i : windows[i].exponent, reach("unit_error"))
       /\ read.nan <=> reach("nan_burst") # {}

--------------------------------------------------------------------------------
(* The texts, read one at a time.                                              *)

(* The grammar of durations, as the errors spell it: PnW, or P with any of nD  *)
(* and, after a T, nH, nM, nS.                                                 *)
Number(t) == t # <<>> /\ Range(t) \subseteq Range(Digits)
NumberOf(t) == FoldLeft(LAMBDA n, d : 10 * n + DigitOf(d), 0, t)

(* Every way to read a text as parts of the given units, as sums of seconds.   *)
Readings(t, units) ==
  LET cuts == {c \in [1..(Len(units) + 1) -> 0..Len(t)] :
                 /\ c[1] = 0 /\ c[Len(units) + 1] = Len(t)
                 /\ \A u \in 1..Len(units) :
                      \/ c[u + 1] = c[u]
                      \/ /\ c[u + 1] > c[u] + 1
                         /\ t[c[u + 1]] = units[u]
                         /\ Number(SubSeq(t, c[u] + 1, c[u + 1] - 1))}
      part(c, u) == IF c[u + 1] = c[u] THEN 0
                    ELSE NumberOf(SubSeq(t, c[u] + 1, c[u + 1] - 1)) * Scale[units[u]]
  IN {FoldLeft(LAMBDA n, u : n + part(c, u), 0, [u \in 1..Len(units) |-> u]) : c \in cuts}

Grammar(whole) ==
  LET rest == Tail(whole)
  IN IF whole = <<>> \/ Head(whole) # "P" \/ rest = <<>> THEN {}
     ELSE Readings(rest, <<"W">>) \cup Readings(rest, <<"D">>) \cup
          UNION {{d + t : d \in Readings(SubSeq(rest, 1, i - 1), <<"D">>),
                          t \in Readings(SubSeq(rest, i + 1, Len(rest)), <<"H", "M", "S">>)} :
                 i \in {i \in 1..(Len(rest) - 1) : rest[i] = "T"}}

DurationReads(whole) ==
  {n \in Grammar(whole) : n <= MaxSeconds} =
  IF ParseDuration(whole).why = "ok" THEN {ParseDuration(whole).total} ELSE {}

(* A path is accepted only in the spelling of the node it names.               *)
PathReads(path) ==
  LET read == ParseTarget(path)
  IN IF read.ok THEN read \in Targets /\ Spelled(read) = path
     ELSE \A t \in Targets : Spelled(t) # path

(* The days of the Gregorian months.                                           *)
DaysIn(year, month) ==
  LET leap == year % 4 = 0 /\ (year % 100 # 0 \/ year % 400 = 0)
  IN IF month = 2 THEN (IF leap THEN 29 ELSE 28)
     ELSE IF month \in {4, 6, 9, 11} THEN 30 ELSE 31

DateReads(date) ==
  RealDate(date) <=> date[2] \in 1..12 /\ date[3] \in 1..DaysIn(date[1], date[2])

Text(kind, value, left) == [kind |-> kind, value |-> value, left |-> left]

Following(kind) == IF kind = "path" THEN PathParts ELSE Chars

TypeText ==
  /\ text.kind \in {"duration", "path", "date"} /\ text.left > 0
  /\ \E c \in Following(text.kind) :
       text' = Text(text.kind, Append(text.value, c), text.left - 1)

TextSpec == text \in FirstTexts /\ [][TypeText]_text

(* What a duration, a path or a date of a file says is what its grammar, the   *)
(* site or the Gregorian calendar makes of it, and a path reads back as it is  *)
(* spelled (duration.rs:44, target.rs:203, validate.rs:179).                   *)
TextsReadBack ==
  /\ text.kind = "duration" => DurationReads(text.value)
  /\ text.kind = "path" /\ text.value # <<>> => PathReads(text.value)
  /\ text.kind = "date" => DateReads(text.value)
================================================================================
