---------------------------------- MODULE Taps ----------------------------------
(* What the surfaces read through the data faults of a scenario                *)
(* (bess-emulator/src/tap.rs). A window is one data event in ticks; a reading  *)
(* says of which tick the value is, by which power of ten it is off and        *)
(* whether it is NaN.                                                          *)
EXTENDS Integers, SequencesExt

Forever == -1

Control == [space |-> "holding", class |-> "cadence", node |-> <<>>, word |-> FALSE]

(* The points the faults tell apart: the operator's register, a quantity and   *)
(* the alarm word of the site and of a block, a block's count of alarms, and a *)
(* quantity of its PCS.                                                        *)
Points ==
  {Control} \cup
  {[space |-> "input", class |-> c, node |-> n, word |-> c = "event"] :
     c \in {"cadence", "event"}, n \in {<<"site">>, <<"block", 0>>}} \cup
  {[space |-> "input", class |-> "event", node |-> <<"block", 0>>, word |-> FALSE],
   [space |-> "input", class |-> "cadence", node |-> <<"block", 0, "pcs">>, word |-> FALSE]}

Named(sel, p) ==
  \/ sel.kind = "all"
  \/ sel.kind = "site"  /\ p.node = <<"site">>
  \/ sel.kind = "block" /\ Len(p.node) > 1 /\ p.node[2] = sel.node[1]
  \/ sel.kind = "pcs"   /\ Len(p.node) = 3 /\ p.node[2] = sel.node[1]

(* The points a fault of a kind reaches.                                       *)
Selects(kind, sel, p) ==
  /\ p.space # "holding"
  /\ Named(sel, p)
  /\ \/ kind = "freeze"
     \/ kind \in {"unit_error", "nan_burst"} /\ p.class # "event"
     \/ kind = "chatter" /\ p.class = "event" /\ p.word

Covers(w, tick) == tick >= w.start /\ (w.end = Forever \/ tick < w.end)

(* The filters of Taps: a window open on a surface, one that reaches a point.  *)
OpenOn(w, surface, tick) == w.surface = surface /\ Covers(w, tick)
Reaches(w, surface, p, tick) == OpenOn(w, surface, tick) /\ Selects(w.kind, w.points, p)

(* Mutant: every freeze of the schedule takes what one of them found.          *)
OpenedAll(windows, fired, now) ==
  [i \in DOMAIN windows |->
     IF windows[i].kind = "freeze" THEN [windows[i] EXCEPT !.frozen = now] ELSE windows[i]]

(* Taps::open: a freeze holds what the points read when its event fired. The   *)
(* events that fire at one tick are taken together.                            *)
Opened(windows, fired, now) ==
  [i \in DOMAIN windows |->
     IF windows[i].index \in fired /\ windows[i].kind = "freeze"
     THEN [windows[i] EXCEPT !.frozen = now] ELSE windows[i]]

Through(read, w) ==
  IF w.kind = "freeze" /\ w.frozen # Forever THEN [of |-> w.frozen, exp |-> 0, nan |-> FALSE]
  ELSE IF w.kind = "unit_error" THEN [read EXCEPT !.exp = @ + w.exponent]
  ELSE IF w.kind = "nan_burst" THEN [read EXCEPT !.nan = TRUE] ELSE read

(* Taps::value, window after window in schedule order.                         *)
Value(windows, surface, p, tick) ==
  FoldLeft(LAMBDA read, w : IF Reaches(w, surface, p, tick) THEN Through(read, w) ELSE read,
           [of |-> tick, exp |-> 0, nan |-> FALSE], windows)

(* Taps::flipped: rate flaps a minute, in tenths, each flipped in its second   *)
(* half; two flips cancel.                                                     *)
Flipped(windows, surface, p, tick) ==
  LET second(w) == ((tick - w.start) * w.rate) % 600 >= 300
      flips == {i \in DOMAIN windows : /\ windows[i].kind = "chatter" /\ second(windows[i])
                                       /\ Reaches(windows[i], surface, p, tick)}
  IN Cardinality(flips) % 2 = 1

(* Taps::drift_s in 3600ths of a second.                                       *)
Drift(windows, surface, tick) ==
  MapThenSumSet(LAMBDA i : windows[i].drift * (tick - windows[i].start),
                {i \in DOMAIN windows : /\ windows[i].kind = "timestamp_drift"
                                        /\ OpenOn(windows[i], surface, tick)})

Silent(windows, surface, tick) ==
  \E i \in DOMAIN windows : windows[i].kind = "dropout" /\ OpenOn(windows[i], surface, tick)

BackfillsDue(windows, surface, tick) ==
  {i \in DOMAIN windows : /\ windows[i].surface = surface
                          /\ windows[i].kind = "backfill_burst"
                          /\ windows[i].start <= tick}
================================================================================
