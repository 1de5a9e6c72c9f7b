----------------------------- MODULE MapProperties -----------------------------
(* What a client of the Modbus side may rely on.                               *)
EXTENDS SignalMap

Inside(answer) ==
  {p \in SignalTable : /\ p.space = answer.request.space
                       /\ p.addr >= answer.request.addr
                       /\ p.addr + Words(p.enc) <= answer.request.addr + Len(answer.words)}

(* What a client makes of the registers of a point.                            *)
Decoded(p, answer) ==
  LET first == answer.words[p.addr - answer.request.addr + 1]
      raw == IF Words(p.enc) = 2 THEN Base * first + answer.words[p.addr - answer.request.addr + 2]
                                 ELSE first
  IN IF Signed(p.enc) /\ 2 * raw >= Modulus(p.enc) THEN raw - Modulus(p.enc) ELSE raw

Least(p) == IF Signed(p.enc) THEN -(Modulus(p.enc) \div 2) ELSE 0
Most(p)  == Least(p) + Modulus(p.enc) - 1

(* d is what a register can say that is nearest to a value, at most half a     *)
(* count away unless it pegs.                                                  *)
Nearest(p, d, value, exp) ==
  LET x == value * p.scale * Tens(exp)
      one == 1000 * Tens(-exp)
  IN IF x >= Most(p) * one THEN d = Most(p)
     ELSE IF x <= Least(p) * one THEN d = Least(p)
     ELSE 2 * (d * one - x) \in -one..one

Lying(p, kind, tick) ==
  {i \in DOMAIN windows : /\ windows[i].kind = kind /\ Covers(windows[i], tick)
                          /\ Selects(kind, windows[i].points, p)}

Flaps(p, tick) ==
  Cardinality({i \in Lying(p, "chatter", tick) :
                 ((tick - windows[i].start) * windows[i].rate) % 600 >= 300}) % 2 = 1

(* Every point an answer carries whole decodes to the value its device reads   *)
(* at one and the same tick, in the unit the table states and pegged where the *)
(* register ends: the truth, or what the last of the freezes found when it     *)
(* began; ten times that for every unit error scheduled after that freeze,     *)
(* with bit 0 turned while a chatter flaps. A fault never reaches a point      *)
(* beside the ones it selects, nor a point of another block through an overlap *)
(* of the ranges (map/encode.rs:8, tap.rs:119, modbus/tap.rs:30).              *)
ReadsTheDevice(p, answer) ==
  LET t == answer.tick
      held == {i \in Lying(p, "freeze", t) : windows[i].start < t}
      of == IF held = {} THEN t ELSE windows[Max(held)].start
      exp == MapThenSumSet(LAMBDA i : windows[i].exponent,
                           {i \in Lying(p, "unit_error", t) : \A j \in held : j < i})
      d == Decoded(p, answer)
  IN Nearest(p, IF Flaps(p, t) THEN FlipLowest(d) ELSE d, Extract(p, At(of)), exp)

PollReadsTheDevice == \A p \in Inside(heard[2]) : ReadsTheDevice(p, heard[2])

CounterPoint == CHOOSE p \in SignalTable : p.name = "event_counter"

Counts43(answer) == /\ CounterPoint \in Inside(answer)
                    /\ Lying(CounterPoint, "freeze", answer.tick) = {}

(* A poller that diffs two readings of the event counter learns how many       *)
(* events it missed between them, across the wrap (map/alarms.rs:73).          *)
CounterTellsMissed ==
  heard[1] # heard[2] /\ Counts43(heard[1]) /\ Counts43(heard[2]) =>
    (Decoded(CounterPoint, heard[2]) - Decoded(CounterPoint, heard[1])) % Base
      = (At(heard[2].tick).count - At(heard[1].tick).count) % Base

(* A device in a dropout says nothing, not even the rest of what was asked     *)
(* before it began; and a session it cut never answers for another               *)
(* (modbus/tap.rs:93, modbus.rs:115).                                          *)
CutWireIsSilent ==
  [][heard' # heard => /\ ~Silent(windows, "modbus", Tick)
                       /\ heard'[2].request = request]_mapVars
================================================================================
