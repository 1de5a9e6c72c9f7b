------------------------------- MODULE SignalMap -------------------------------
(* The signal map (bess-emulator/src/map.rs and map/), the Modbus banks it     *)
(* fills, and a client that polls them over a wire a scenario can cut          *)
(* (modbus.rs, modbus/tap.rs). Values are thousandths of a point's unit and a  *)
(* register holds 0..Base - 1. The read of a request, the answer and its write *)
(* are steps of their own: the simulation publishes in between.                *)
EXTENDS Taps

CONSTANTS
  Base,         \* 2^16: what a register counts to
  NBlocks,      \* PlantConfig::blocks
  Plants,       \* states of the plant the map reads
  Requests,     \* what the client asks for
  Faults,       \* schedules of data faults on Modbus
  FirstCount,   \* events in the log at the first tick
  LastTick      \* bound on the ticks

ASSUME BaseAssumption == Base \in Nat \ {0} /\ Base % 2 = 0
(* One data fault of the kinds Modbus has, as Taps holds it (tap.rs: Window).  *)
Windows ==
  [surface : {"modbus"}, kind : {"dropout", "freeze", "unit_error", "chatter"},
   points : [kind : STRING, node : Seq(Nat)], start : Nat,
   end : Nat \cup {Forever}, exponent : Int, rate : Nat, frozen : Nat \cup {Forever}]

ASSUME BlocksAssumption == NBlocks \in 1..20
ASSUME MapAssumption ==
  /\ Faults \subseteq Seq(Windows)
  /\ \A schedule \in Faults : \A i \in DOMAIN schedule : schedule[i].frozen = Forever
  /\ FirstCount \in Nat /\ \A plant \in Plants : plant.events \in Nat
  /\ \A req \in Requests : req.addr \in Nat /\ req.count \in Nat

VARIABLES
  past,      \* the state of every tick so far
  windows,   \* Snapshot::taps
  wire,      \* the session: "closed", "idle", "asked" or "answered"
  request,   \* what was asked
  reply,     \* what will be sent
  heard      \* history: the last two answers that carried registers

mapVars == <<past, windows, wire, request, reply, heard>>

Blocks == 0..(NBlocks - 1)
Derate == 5     \* alarms::layout::rack::DERATE_ACTIVE, as a bit of the model
Run    == 1000  \* the code of PcsOpState::Run

Tick == Len(past) - 1
At(t) == past[t + 1]
--------------------------------------------------------------------------------
Words(enc)  == IF enc \in {"U32", "I32"} THEN 2 ELSE 1
Signed(enc) == enc \in {"I16", "I32"}
Modulus(enc) == IF Words(enc) = 2 THEN Base * Base ELSE Base

Point(name, node, class, enc, scale, addr) ==
  [name |-> name, node |-> node, class |-> class, enc |-> enc, scale |-> scale, addr |-> addr,
   space |-> "input", word |-> FALSE]

Site == <<"site">>

(* map/site.rs: the grid connection, the energy and the meters.                *)
GridPoints ==
  {Point("poi_active_power_w", Site, "fast", "I32", 1, 0),
   Point("poi_reactive_power_var", Site, "fast", "I32", 1, 2),
   Point("poi_voltage_kv", Site, "fast", "U16", 100, 4),
   Point("poi_frequency_hz", Site, "fast", "U16", 1000, 5),
   Point("soc_pct", Site, "medium", "U16", 100, 6),
   Point("soh_pct", Site, "slow", "U16", 100, 7),
   Point("available_discharge_kw", Site, "fast", "U32", 1, 8),
   Point("available_charge_kw", Site, "fast", "U32", 1, 10),
   Point("meter_export_kwh", Site, "slow", "U32", 1, 12),
   Point("meter_import_kwh", Site, "slow", "U32", 1, 14),
   Point("meter_station_service_kwh", Site, "slow", "U32", 1, 44)}

(* map/site.rs: the switchgear, the EMS, the weather and the run's own.        *)
RunPoints ==
  {Point("hv_breaker_closed", Site, "medium", "U16", 1, 16),
   Point("ems_mode", Site, "medium", "U16", 1, 17),
   Point("ems_setpoint_w", Site, "fast", "I32", 1, 18),
   Point("weather_ambient_c", Site, "medium", "I16", 10, 20),
   Point("weather_irradiance_wm2", Site, "medium", "U16", 1, 21),
   Point("aux_power_w", Site, "medium", "U32", 1, 22),
   Point("transformer_loss_w", Site, "medium", "U32", 1, 24),
   Point("sim_tick", Site, "fast", "U32", 1, 26),
   Point("sim_unix_time_s", Site, "fast", "U32", 1, 28),
   Point("pcs_online_count", Site, "medium", "U16", 1, 30)}

(* map/site.rs: the house load.                                                *)
AuxPoints ==
  {Point("aux_hvac_w", Site, "medium", "U32", 1, 32),
   Point("aux_bms_w", Site, "medium", "U32", 1, 34),
   Point("aux_pcs_standby_w", Site, "medium", "U32", 1, 36),
   Point("aux_controls_w", Site, "medium", "U32", 1, 38),
   Point("aux_lighting_and_safety_w", Site, "medium", "U32", 1, 40)}

RevenuePoints ==
  {Point("revenue_period_import_kwh", Site, "slow", "U32", 1, 46),
   Point("revenue_period_export_kwh", Site, "slow", "U32", 1, 48),
   Point("revenue_periods_closed", Site, "slow", "U32", 1, 50)}

AsWord(p) == [p EXCEPT !.word = TRUE]

SiteAlarmPoints ==
  {Point("alarm_count", Site, "event", "U16", 1, 31),
   AsWord(Point("alarm_bits", Site, "event", "U16", 1, 42)),
   Point("event_counter", Site, "event", "U16", 1, 43)}

(* The second range opened when the ten registers of the first were taken.     *)
BlockBase(b)    == 1000 + 10 * b
BlockExtBase(b) == 2000 + 10 * b

BlockPoints(b) ==
  LET node == <<"block", b>> pcs == <<"block", b, "pcs">> base == BlockBase(b)
  IN {Point("p_ac_kw", pcs, "fast", "I16", 1, base),
      Point("p_dc_kw", pcs, "fast", "I16", 1, base + 1),
      Point("state", pcs, "fast", "U16", 1, base + 2),
      Point("soc_pct", node, "medium", "U16", 100, base + 3),
      Point("cell_temp_min_c", node, "medium", "I16", 10, base + 4),
      Point("cell_temp_max_c", node, "medium", "I16", 10, base + 5),
      Point("efficiency_pct", pcs, "fast", "U16", 100, base + 7),
      Point("air_temp_c", node, "medium", "I16", 10, base + 8),
      Point("hvac_state", node, "medium", "U16", 1, base + 9),
      Point("mode", node, "medium", "U16", 1, BlockExtBase(b) + 3),
      Point("cell_dv_mv", node, "medium", "U16", 1, BlockExtBase(b) + 2)}

BlockAlarmPoints(b) ==
  LET node == <<"block", b>>
  IN {AsWord(Point("alarm_bits", node, "event", "U16", 1, BlockBase(b) + 6)),
      AsWord(Point("block_alarm_bits", node, "event", "U16", 1, BlockExtBase(b))),
      Point("racks_derated", node, "event", "U16", 1, BlockExtBase(b) + 1)}

BlockPointsOf(b) == BlockPoints(b) \cup BlockAlarmPoints(b)

(* map/control.rs: what a client may write, read back from the state.          *)
ControlPoints ==
  {[Point("control_site_setpoint_w", <<>>, "fast", "I32", 1, 0) EXCEPT !.space = "holding"],
   [Point("control_ems_mode", <<>>, "fast", "U16", 1, 2) EXCEPT !.space = "holding"]}

SignalTable ==
  GridPoints \cup RunPoints \cup AuxPoints \cup RevenuePoints \cup SiteAlarmPoints
  \cup ControlPoints \cup UNION {BlockPointsOf(b) : b \in Blocks}

BankLength(space) == IF space = "input" THEN 2200 ELSE 3
--------------------------------------------------------------------------------
(* What the points read. A block's racks are those of all its containers.      *)
RacksOf(block) ==
  FlattenSeq([c \in DOMAIN block.containers |-> block.containers[c].racks])

Power(base, n) == LET to[k \in 0..n] == IF k = 0 THEN 1 ELSE base * to[k - 1] IN to[n]

Word(bits) == MapThenSumSet(LAMBDA b : Power(2, b), bits) % Base

FoldedBits(block) == UNION {RacksOf(block)[r].bits : r \in DOMAIN RacksOf(block)}

Highest(values) == CHOOSE v \in values : \A w \in values : v >= w
Lowest(values)  == CHOOSE v \in values : \A w \in values : v <= w

(* The mode of the heaviest consumer, the first of equals.                     *)
HvacOf(block) ==
  LET cs == block.containers
      heaviest == Highest({cs[c].watts : c \in DOMAIN cs})
  IN cs[Lowest({c \in DOMAIN cs : cs[c].watts = heaviest})].hvac

(* Output over input for the direction of the flow; nothing when idle.         *)
Efficiency(pcs) ==
  IF pcs.dc > 0 /\ pcs.ac > 0 THEN (100000 * pcs.ac) \div pcs.dc
  ELSE IF pcs.dc < 0 /\ pcs.ac < 0 THEN (100000 * (-pcs.dc)) \div (-pcs.ac) ELSE 0

(* block::points: each register speaks for the container or the rack nearest a *)
(* limit.                                                                      *)
BlockReads(block) ==
  LET racks == RacksOf(block)
      temps == {racks[r].temp : r \in DOMAIN racks}
  IN [p_ac_kw        |-> block.ac,
      p_dc_kw        |-> block.dc,
      state          |-> block.state,
      soc_pct        |-> block.soc,
      cell_temp_min_c |-> Lowest(temps),
      cell_temp_max_c |-> Highest(temps),
      efficiency_pct |-> Efficiency(block),
      air_temp_c     |-> Highest({c.air : c \in ToSet(block.containers)}),
      hvac_state     |-> HvacOf(block),
      mode           |-> block.mode,
      cell_dv_mv     |-> Highest({racks[r].dv : r \in DOMAIN racks}),
      alarm_bits     |-> 1000 * Word(FoldedBits(block)),
      block_alarm_bits |-> 1000 * Word(block.bits),
      racks_derated  |-> 1000 * Cardinality({r \in DOMAIN racks : Derate \in racks[r].bits})]

(* Mutant: the counter stops at the top of its register.                       *)
CounterOfPegged(count) == count

(* EventLog::counter_u16.                                                      *)
CounterOf(count) == count % Base

ActiveCount(plant) ==
  Cardinality(plant.bits)
  + MapThenSumSet(LAMBDA b : Cardinality(plant.blocks[b].bits), Blocks)
  + MapThenSumSet(LAMBDA b : LET racks == RacksOf(plant.blocks[b])
                             IN MapThenSumSet(LAMBDA r : Cardinality(racks[r].bits), DOMAIN racks),
                  Blocks)

SiteReads(now) ==
  [alarm_count      |-> 1000 * ActiveCount(now.plant),
   alarm_bits       |-> 1000 * Word(now.plant.bits),
   event_counter    |-> 1000 * CounterOf(now.count),
   sim_tick         |-> 1000 * (now.tick % (Base * Base - 1)),
   pcs_online_count |-> 1000 * Cardinality({b \in Blocks : now.plant.blocks[b].state = Run})]

(* What the state tree holds of a device (bess-core/src/state.rs): every block *)
(* has containers and every container racks, and an alarm word is a u32.       *)
AlarmWords == SUBSET (0..31)
RackReads  == [temp : Int, dv : Int, bits : AlarmWords]
Containers == [air : Int, watts : Int, hvac : Int, racks : Seq(RackReads) \ {<<>>}]
BlockStates ==
  [ac : Int, dc : Int, state : Int, soc : Int, mode : Int, bits : AlarmWords,
   containers : Seq(Containers) \ {<<>>}]

ReadFields == {p.name : p \in {q \in SignalTable : q.node = Site \/ q.space = "holding"}}
              \ {"alarm_count", "alarm_bits", "event_counter", "sim_tick", "pcs_online_count"}

ASSUME PlantsAssumption ==
  \A plant \in Plants : /\ \A f \in ReadFields : plant.fields[f] \in Int
                        /\ plant.bits \in AlarmWords
                        /\ plant.blocks \in [Blocks -> BlockStates]

(* Point::extract.                                                             *)
Extract(p, now) ==
  IF p.node = Site \/ p.space = "holding"
  THEN IF p.name \in DOMAIN SiteReads(now) THEN SiteReads(now)[p.name] ELSE now.plant.fields[p.name]
  ELSE BlockReads(now.plant.blocks[p.node[2]])[p.name]
--------------------------------------------------------------------------------
Tens(n) == IF n > 0 THEN Power(10, n) ELSE 1

(* f64::round of a count in n-ths: halves go away from zero.                   *)
RoundTo(x, n) == IF x >= 0 THEN (2 * x + n) \div (2 * n) ELSE -((n - 2 * x) \div (2 * n))

Pegged(x, low, high) == IF x < low THEN low ELSE IF x > high THEN high ELSE x

Counts(p, value, exp) == RoundTo(value * p.scale * Tens(exp), 1000 * Tens(-exp))

Saturated(p, counts) ==
  IF Signed(p.enc) THEN Pegged(counts, -(Modulus(p.enc) \div 2), Modulus(p.enc) \div 2 - 1)
                   ELSE Pegged(counts, 0, Modulus(p.enc) - 1)

(* Mutant: the low word goes first.                                            *)
EncodeLowFirst(p, counts) ==
  LET v == Saturated(p, counts) % Modulus(p.enc)
  IN IF Words(p.enc) = 2 THEN <<v % Base, v \div Base>> ELSE <<v>>

(* write_point: saturated, two's complement, the high word first.              *)
Encode(p, counts) ==
  LET v == Saturated(p, counts) % Modulus(p.enc)
  IN IF Words(p.enc) = 2 THEN <<v \div Base, v % Base>> ELSE <<v>>

FlipLowest(word) == IF word % 2 = 0 THEN word + 1 ELSE word - 1

(* tap::input_bank of one point: what the tap says it reads, and a flap turns  *)
(* bit 0, which the last word carries. A holding register has no tap.          *)
WordsOf(p) ==
  LET read  == Value(windows, "modbus", p, Tick)
      words == Encode(p, Counts(p, Extract(p, At(read.of)), read.exp))
  IN IF Flipped(windows, "modbus", p, Tick)
     THEN [words EXCEPT ![Len(words)] = FlipLowest(@)] ELSE words

(* A register of a bank: of points that overlap the last one written shows,    *)
(* and build_points sorts them by address.                                     *)
Register(space, addr) ==
  LET on == {p \in SignalTable : p.space = space /\ addr \in p.addr..(p.addr + Words(p.enc) - 1)}
      p == CHOOSE p \in on : \A q \in on : q.addr <= p.addr
  IN IF on = {} THEN 0 ELSE WordsOf(p)[addr - p.addr + 1]

Refused(req) == req.count = 0 \/ req.count > 125 \/ req.addr + req.count > BankLength(req.space)

(* PlantService::read_bank: the whole answer is of one snapshot.               *)
ReadBank(req) ==
  [request |-> req, tick |-> Tick,
   words |-> IF Refused(req) THEN <<>>
             ELSE [i \in 1..req.count |-> Register(req.space, req.addr + i - 1)]]
--------------------------------------------------------------------------------
Offline == Silent(windows, "modbus", Tick)

Nothing == [request |-> [space |-> "input", addr |-> 0, count |-> 0], tick |-> 0, words |-> <<>>]

MapInit ==
  /\ \E plant \in Plants : past = <<[plant |-> plant, count |-> FirstCount, tick |-> 0]>>
  /\ windows \in Faults
  /\ wire = "closed" /\ request = Nothing.request /\ reply = Nothing
  /\ heard = <<Nothing, Nothing>>

(* A tick of the plant, the freezes that are due taken first, published.       *)
Publish ==
  /\ Tick < LastTick
  /\ windows' = [i \in DOMAIN windows |->
       IF windows[i].kind = "freeze" /\ windows[i].start = Tick
       THEN [windows[i] EXCEPT !.frozen = Tick] ELSE windows[i]]
  /\ \E plant \in Plants :
       past' = Append(past, [plant |-> plant, count |-> At(Tick).count + plant.events,
                             tick |-> Tick + 1])
  /\ UNCHANGED <<wire, request, reply, heard>>

Close == wire' = "closed" /\ request' = Nothing.request /\ reply' = Nothing

(* on_connected: in a dropout the connection is closed at once.                *)
Connect ==
  /\ wire = "closed"
  /\ wire' = IF Offline THEN "closed" ELSE "idle"
  /\ UNCHANGED <<past, windows, request, reply, heard>>

(* Wire::poll_read brings a request, or the reset of a cut wire.               *)
Ask ==
  /\ wire = "idle"
  /\ IF Offline THEN Close
     ELSE wire' = "asked" /\ request' \in Requests /\ UNCHANGED reply
  /\ UNCHANGED <<past, windows, heard>>

(* PlantService::handle_request, of the snapshot of that moment.               *)
Serve ==
  /\ wire = "asked"
  /\ wire' = "answered" /\ reply' = ReadBank(request)
  /\ UNCHANGED <<past, windows, request, heard>>

(* Mutant: an answer under way is not cut.                                     *)
CutNever == FALSE

(* Wire::poll_write: the answer goes out, or the wire resets.                  *)
Cut == Offline

Send ==
  /\ wire = "answered"
  /\ IF Cut THEN Close /\ UNCHANGED heard
     ELSE /\ wire' = "idle" /\ request' = Nothing.request /\ reply' = Nothing
          /\ heard' = IF reply.words = <<>> THEN heard ELSE <<heard[2], reply>>
  /\ UNCHANGED <<past, windows>>

MapNext == Publish \/ Connect \/ Ask \/ Serve \/ Send

MapSpec == MapInit /\ [][MapNext]_mapVars
================================================================================
