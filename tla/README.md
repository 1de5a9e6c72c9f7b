# bess-emulator in TLA+

A verification project for bess-emulator, a synthetic grid-scale battery plant:
one deterministic simulation kernel in Rust, the device models it steps, the
surfaces (Modbus, REST, WebSocket, MQTT) that expose it, the scenario files that
break it, the viewer that shows it and the compilers that make its data. The
project models their control logic, checks it with TLC on small instances and
proves the main invariants with TLAPS for every value of the constants.

Paths below are relative to `src/crates/`.

## 1. Inventory

### 1.1 Components

| component | state it keeps | operations | what makes it correct | modelled in |
|---|---|---|---|---|
| kernel, one tick (`bess-core/src/kernel.rs`, `kernel/block.rs`) | the state tree | `step` | allocation, availability and alarms agree | `Plant` |
| alarm words and reset (`bess-core/src/alarms*`, `kernel/alarms.rs`) | a word per site, block, rack | evaluate, `reset_alarms(scope)` | the event stream tells the words; latches hold | `Plant` |
| between-ticks door (`kernel/fault.rs`, `kernel/commands.rs`) | `pending_events` | ten fault actions, setpoint | cause before effect; latch and breaker agree | `Plant` |
| staggered return (`kernel/restart.rs`) | `blocks_released`, `next_release_s` | `start_over`, `release` | each block on its time; all come back | `Plant`, `Timetable` |
| PCS, BMS rack alarms (`bess-models/src/pcs.rs`, `bms/alarms.rs`) | `op_state`, rack word | `finalize`, `evaluate` | a fault outlives a tick | `Plant` |
| alarm view (`bess-scene/src/alarms.rs`, `alarms/`, `panels/alarms.rs`) | filter | rows, tones, lamps, buttons | lamp, list and button say the same | `AlarmView` |
| HVAC thermostat (`bess-models/src/thermal.rs`) | mode, compressor hold | `next_mode`, `next_hold_s` | compressors rest and run their times; a hot container is cooled | `Thermostat`, `Compressors` |
| meters (`bess-models/src/grid.rs`, `aux.rs`, `bess-core/src/state/revenue.rs`, `energy.rs`) | totals, open and last period | `step`, `observe` | energy balance; periods add up | `Meters` |
| power path of a block (`bess-models/src/bms.rs`, `bms/balance.rs`, `pcs.rs`, `cell.rs`) | charge, spread, balancing mode | balance, limits, request, split | racks stay in their window and never run against the block | `PowerPath` |
| signal map, Modbus reads (`bess-emulator/src/map*`, `modbus/tap.rs`) | bank of a session | fill, read, cut | a poll decodes to the device's values of one tick | `SignalMap` |
| replayed year (`bess-models/src/calendar.rs`, `weather.rs`, `ems*`, `bess-bench/src/periods.rs`, `bess-scene/src/viewer/presets.rs`) | none | date mapping, interpolation, plan, label, stops | days run whole, the weather runs on, stops land | `Calendar`, `ReplayYear` |
| simulation task (`bess-emulator/src/sim.rs`, `sim/scenario.rs`) | plant, scenario, cached status | drain, fire, step, publish, load | events on their tick; nobody told ahead of the snapshot | `Shell` |
| Modbus writes, REST, WebSocket (`modbus.rs`, `http*`) | request in flight, batches | write, post, stream | requests are answered; the stream catches up | `Shell` |
| MQTT publisher and outbox (`mqtt*`, `tap.rs`) | last words, store, replay | wake, batch, backfill | each event once, in order; retained words catch up | `MqttTap` |
| scenario files (`bess-scenario/src/`) | file, schedule, cursor | parse, validate, resolve, play, resume | what is accepted plays whole; a resumed run is the run | `ScenarioText`, `ScenarioFile`, `ScenarioRun` |
| data faults (`bess-emulator/src/tap.rs`) | windows, captured values | `open`, `value` | a freeze shows one moment | `Taps` |
| viewer session (`bess-scene/src/viewer/`, `alarms/journal.rs`, `bess-wasm/src/lib.rs`) | plant, speed, jump, journal, bookmark | frame, jump, reset, load, JS door | the journal is the log; jumps land and end | `Session` |
| data compilers (`bess-data/src/`) | none | parse, fill, spread, quantize, encode, decode | the artifact is what was measured | `DataCompilers` |
| rendering, continuous physics, random numbers, digests, text formats, statistics | - | - | - | no (section 8) |

### 1.2 How they interact

The simulation task owns the plant. Other tasks reach it by

* a **command channel** (`mpsc`, 64 places, first come first served): Modbus
  uses `try_send` and answers "busy" when it is full, REST awaits a place;
* a **watch channel** with the latest snapshot: each tick overwrites the one
  before, readers may skip any number;
* a **broadcast channel** with every tick's events: a slow receiver loses the
  oldest and is told how many ticks it lost;
* a **oneshot** answer for a load (and a reset).

Inside the kernel, commands change the tree at once and leave what they have to
say in `pending_events`; the next tick hands these out ahead of its own events.

The viewer has no tasks: each frame first advances the plant, then draws and
carries out what was clicked; in the browser a JS door is called between frames.
Within a tick the devices are called one after the other, and what one hands to
the next is a value, not shared state.

### 1.3 What is hard

* Two representations of one fact: the trip latch and the breaker; the released
  count and the availability bit; the event stream and the tree; the lamp, the
  list and the button of an alarm; the log and the journal.
* Edges and latches over sequences of commands nobody wrote down: partial resets
  during a trip, a reset in the middle of a return, a failure of a cooling unit
  in its minimum time.
* Reads that go stale: the Modbus mode write reads the setpoint from a snapshot;
  each MQTT handler reads its own snapshot while the plant ticks on, or starts
  over, in between; a Modbus answer is under way when the wire is cut.
* State that outlives the plant it is about: the MQTT publisher is not told of
  a load; the viewer's journal, bookmark and jump are, from two doors.
* A run cut off and resumed, under this file or another, with this seed or
  another; a jump cut into slices.
* Boundaries: a quarter-hour, the ends of a charge window, registers, the
  journal's ring, the store, the clock changes, the leap day a common year lacks.
* Progress: every block comes back; every request is answered; the stream and
  the retained words catch up; a jump ends; a hot container is cooled.

`PROJECT.json` lists these as hazards, each at its line, with the properties
that cover it.

## 2. Plan

1. `Plant`, `Timetable` and their proofs: the core of the kernel. *Done.*
2. `MqttTap`, `Shell`: the concurrent surfaces. *Done.*
3. `AlarmView` over `Plant`. *Done.*
4. The devices that step with the tick, with `Compressors` as the abstract
   specification of the thermostat, and proofs of it and of the energy balance.
   *Done.*
5. Scenario files from text to the last event, with crash and resume. *Done.*
6. The signal map and the polling client; the viewer's session. *Done.*
7. The replayed year and the data compilers. *Done.*

8. Proofs about `Shell`: who is told what, and that each event fires on its tick.
   *Done.*

9. Proofs about the kernel's event stream, its latches and its settled tree, and
   about the publisher and its outbox, and about the viewer's session, on facts
   about sequences of their own. *Done.*

10. Proofs about the billing periods and the polling client of the signal map.
    *Done.*

11. Proofs about scenario files and their runs. *Done.*

12. Proof about the buttons and lamps of `AlarmView`. *Done.*

13. Proofs about the power path and about every point of a poll. *Done.*

What is left to TLC, and why, is at the end of section 7.

## 3. Modules

| module | content |
|---|---|
| `Plant`, `Timetable`, `PlantProperties`, `PlantProofs`, `JournalProofs` | the kernel, the promise of the return, what must hold, theorems about control, theorems about the event stream and the alarm view |
| `AlarmView` | what a person sees of the plant's words |
| `Surfaces` | what the next two groups share: the backlog of the event broadcast and the bound on ticks |
| `MqttTap`, `MqttProperties`, `MqttProofs` | publisher, outbox and broker, what subscribers rely on, theorems |
| `Shell`, `ShellProperties`, `ShellProofs` | task, channels and clients, what clients rely on, theorems |
| `Thermostat`, `Compressors`, `Meters`, `PowerPath`, `DeviceProperties`, `DeviceProofs` | the devices of a tick, the promise about compressors, theorems |
| `Taps` | the data faults, shared by the next two groups |
| `SignalMap`, `MapProperties` | map, bank and polling client (theorems in `DeviceProofs`) |
| `ScenarioText`, `ScenarioFile`, `ScenarioRun`, `ScenarioProperties`, `ScenarioProofs` | from text to run; each extends the one before; theorems |
| `Session`, `SessionProperties`, `SessionProofs` | the viewer's session, theorems |
| `Calendar`, `ReplayYear`, `YearProperties` | dates and the reference year |
| `DataCompilers`, `CompilerProperties` | the compilers and codecs |
| `SequenceFacts` | lemmas about induction, folds, flattened and concatenated sequences, which the proof modules share |
| `MCPlant`, `MCMqtt`, `MCShell`, `MCSurfaces`, `MCYear`, `MCDevices`, `MCScenario` | values for TLC and compositions |

Definitions whose comment says *Mutant* are plausible slips of the definition
that follows; each is used to show that a property notices it. `PROJECT.json`
maps the other definitions to the source they translate.

### 3.1 Plant

State: the breaker (`SubstationState::hv_breaker`), EMS mode and setpoint, the
return sequencer, per block the mode, PCS state and setpoint-miss timer, per
container the HVAC failure flag, per rack `in_service`, the three levels of alarm
words as sets of bits, and `pending`. `heard` is a history variable: a reader
who folds every event handed out.

`Tick` is `Simulation::step`: hand out the mailbox, release, choose the target,
step each block (PCS state, rack words, block word, miss timer), evaluate the
site word. The order matters where the code reads a value before another step
changes it, and the model keeps it: dispatchability in the allocation uses the
PCS states from before the tick and the released count from after `release`; the
availability bit uses the states from after.

Physics is a choice. What the control logic reads of a measured quantity is the
side of its hysteresis band it stands on, so a quantity is one of four levels
(below clear, inside, above raise, above trip). What the physics may not do is
also in the model: a block that is asked for nothing runs nothing and misses
nothing, a converter moves no power over racks that are all isolated. The rack
word has ten bits in the code with three behaviours (hysteresis, mirror of a
setting, latch); the model keeps one of each.

The door's actions carry the name of `FaultAction::name`. Each of them pushes its
mark, then its effects. `HmiReset` is the operator's reset, `ApplyReset` the same
reset as a scenario action. A node that the site does not have is refused before
anything changes, so actions range over existing nodes.

### 3.2 MqttTap

The plant of this module is a word that flips, a tick and a log count; each flip
is also an event, sent as a batch over the bounded channel. The publisher has two
wakes, the ticker (`Backfill`, `PublishCadence`, `PublishChanged`) and a batch
(`PublishEvents`, `PublishChanged`); each handler is one action that reads the
snapshot, and the plant may move between two of them. Snapshot and batch of one
tick appear together: the publisher looks at the batch only on its own wake, so
the moment between them cannot be told apart. The outbox is a record with the
fields of `Outbox`; `replayed` is the set of burst indexes.

External to the code and modelled from its use: the broker (retains the last
retained message, forgets it when it restarts without persistence) and the
client's request queue (takes a message or refuses it).

History variables: `delivered`, the events that reached the broker, and `begun`,
the bursts replayed for the story in force.

The publisher shares nothing with the clients of `Shell` but what each receives from
the simulation task, so `MCSurfaces` explores one of the two at a time.

### 3.3 Shell

The plant of this module is its run (a load starts the next), tick, setpoint and
log count. `Command` applies the head of the channel, `Step` and `Broadcast` are
the two halves of `Task::tick` with the moment between the snapshot and the
events visible to the surfaces, `Reply` is the answer of a load after its
snapshot, or of a reset, after which no snapshot goes out. Of a reset only its way
through the channel and its answer are here, its effect is in `Plant`; a speed only
takes its place in the channel, since the model has no wall clock. Modbus's mode write is two steps, read and send. A REST client waiting
for a place has the next free one, as tokio's `mpsc` queues waiters in order; a
`try_send` meanwhile finds the channel full. The stream takes one batch at a
time, then reads the snapshot and sends.

Of a setpoint only its origin is kept: a number a client gave, or the number a
run's registers showed.

### 3.4 AlarmView

Functions of the words of `Plant`: the rows a summary shows, the tone and the lamp
of each object of the scene, which reset buttons are enabled, what a filter
lets through. The property is about pairs of them, and about the button and what
the kernel's reset would do.

### 3.5 Devices

`Thermostat` keeps the mode, the hold clock, the air temperature in steps of what
a cooling unit takes out in a tick, and whether the unit has failed. Heat gains
are a choice each tick. `quiet` is a history variable: ticks since the last change
of the compressor count, capped. `Compressors` states the promise with `quiet`
and the number of running units alone.

`Meters` follows a tick's energy through the books in the kernel's order. Powers
are chosen; the breaker opens and closes between ticks. `story` is the history of
POI energies the periods are compared with.

`PowerPath` steps the racks of one block: balancing reads the voltage spread of
the tick before through an OCV curve, the limits taper near the ends of the
window, the converter clamps, adds its loss and splits evenly over the racks in
service, the cells count charge.

These share nothing within a tick but values one hands to the next, so
`MCDevices` explores one at a time. The signal map and the replayed year run in
the same way.

### 3.6 SignalMap

The table of points with addresses, types and scales, as the code lists them.
`past` is every state the simulation published. A client reads a range: the
request meets the bank of the latest snapshot, the answer is built, then written
if the session is still there; the simulation may publish between any two of
these. Dropouts close the wire, sessions end and new ones are refused until it
is open again. The faults are those validation admits on Modbus
(`validate/data.rs:15`): dropout, freeze, unit error and chatter. They are folded
in the order of the schedule, so a freeze that has captured discards the unit
errors listed before it and is scaled by those listed after it; the property
counts exactly the latter. The plant a bank is filled from is any state whose
blocks have containers and whose containers have racks, with alarm words of 32
bits (`PlantsAssumption`).

### 3.7 Calendar and ReplayYear

`Calendar` has the three date conversions of the code, in quarter-hours.
`ReplayYear` moves by a quarter-hour, closes a meter period, asks the day table
which local day it settles in, and accumulates the entry of that day; the
weather's interpolation and the plan's target are functions of the instant.
`PickStop` is a run opened from one of the viewer's stops.

### 3.8 Scenario files

`ScenarioText` reads durations character by character, paths part by part and
dates. `ScenarioProperties` types such texts (`TypeText`) beside what they should mean. `ScenarioFile` has every rule of validation, in order, each with the
refusal and field it names. `ScenarioRun` lets an author write a file event by
event, loads it, resolves it with a seed, plays it, saves a checkpoint, crashes
and resumes under this file or another. `Taps` holds the data-fault windows.
`tree.applied` records what was applied, at which tick and with which draw. The
stable sort of `resolve` gives each event the place behind all that come before it
in (tick, index). The two sums of an instant and a duration, in `validate.rs:133` and
`tap.rs:173`, are those of a `u64` in a release build: modulo `MaxSeconds + 1`.

### 3.9 Session

A frame advances the plant by the ticks the speed and the accumulator allow, or a
slice of a jump, and then carries out one click, if any; the JS door may act
between frames. The plant is its clock, one latched and one plain alarm bit and
its event log. `log`, `applied` are history variables.

### 3.10 DataCompilers

A product file is its rows. The weather compiler parses, fills each column under
the gap policy, spreads solar sums that end in true solar time over hours,
quantizes and encodes; the price compiler joins blocks and cuts local days. The
codecs are modelled byte by byte, both ways. A typed file grows by one row per
step.

## 4. Runs

All runs finish in well under five minutes.

| run | instance | what it shows |
|---|---|---|
| `plant_trip` | 2 blocks, 1 container and rack each, spacing 2, three pending events | types; latch and breaker together; behind an open breaker nothing runs; allocation, availability and alarms agree after a tick; cause before effect; the sequencer implements `Timetable`; a site that stays connected gets every block back |
| `plant_alarms` | 1 block, deadband 2, all fault actions, all levels of the miss | the event stream tells the whole tree; buttons, lamps and list agree with it; latches survive ticks; a reset's answer is the truth |
| `surfaces` | shell: channel of 1, backlog of 1, two runs with events on ticks 0, 1, 2; publisher: a dropout and its burst, store of 4, one refusal, one new connection or a load of a story with no start, two ticks | events fire on their tick and the status says so; nobody is told ahead of the snapshot; every request is answered; numbers run on or a loss is told; the stream catches up; the recorded word is out; each event is in one place and the queues keep their bounds; nothing overtakes a replay and the retained word never goes back; only a load silences a point; the retained word ends up current |
| `devices` | five devices one at a time, see `MCDevices` | rest times; a hot container is cooled; periods and energy add up; racks follow their block inside the window; a poll reads the device, its counter and silence; days, weather and stops of a replayed year |
| `scenario` | texts of up to 4 more characters, files of 2 events of 16 kinds, a session of 4 ticks, product files of 4 hours | texts read back; refusals stand; a tree holds exactly its past; an accepted file plays whole; a freeze is of one moment; the journal is the log; the story keeps its time; a jump lands and ends; the data is the source |

Seven further runs end in a violation on purpose; section 6 explains them.

**Why the bounds are enough.** *Plant*: two blocks are the least for which a
block reset differs from a site reset and for which a return has a middle.
Spacing 2 gives a countdown that is neither always nor never due. A mailbox of
three events holds several actions and resets before the same tick; a protection
trip and its reset together fit only where the converters are in fault already,
elsewhere a tick comes between. A door that would let more wait adds only longer
sequences of the same kinds, since the tick empties it. `plant_trip` keeps the miss at
its lowest level, or it would take too long: that no block is blamed for a setpoint it
cannot follow is there left to the theorem `TreeSettles`; `plant_alarms` has all levels
of the miss, and a container that is too warm. One rack and container per block are enough because no rule relates
two racks except "some rack". *MqttTap*: a
dropout from the first tick to the second and its burst; a store of 4 overflows in the
dropout, a channel of one batch lags, a burst slice of one message puts a step between
any two messages of a replay. The story loaded has no start, so that it goes back in
time, and a dropout of its own, which may begin while the first one's store still drains.
A behaviour has the load or the new connection, not both (`OneUpheaval`); a store of
fewer than 4 overflows within a replay too, which loses a word for good and is
named under the hazards. *Shell*: the REST client posts speeds, resets and loads (a
setpoint takes the way of a speed; Modbus writes setpoints, and in
`shell_old_setpoint` the client posts them too); a channel of one is full behind every command, so
that a load, a write and a waiting request meet in every order; one event of
backlog loses on the second. *Thermostat*: minimum times 3 and 4 differ and are
longer than a stage needs to cross its band; air temperatures span all bands with
a margin. *Meters*: a period of 3 ticks, starts on, after and before a boundary,
four ticks; one period is closed and a second opened. *PowerPath*: two racks that
part in charge and in service, limits of both tapers. *SignalMap*: registers hold
0..255, so that every sample plant has values that peg, wrap or use both words;
the counter starts two below its wrap; two blocks are the least whose ranges could
overlap. *ReplayYear*: the real year of 8784 hours and 366 local days, in a common
year, a leap year and 2100; windows of three days around the leap day, both clock
changes and the year's end, since nothing else in a year is special. *Scenario*:
with two events every rule that relates two events fires and refusals keep the
first; a length, a tap and a physical fault at each of four ticks; `MaxSeconds` is one
second over a week, so that a dropout of a week from tick 2 wraps. *Session*: a
ring of two entries overflows; a frame and a slice of two ticks put seams inside
and between. *DataCompilers*: 4 hours stand for 8784 with gaps of 1 and 2 for 24
and 72, so that a gap of each length fits at an edge and in the middle; days of 8
hours, three of them, for the price year.

Symmetry is not used: blocks, ticks and runs are ordered. `CHECK_DEADLOCK FALSE`
stands in every configuration but the plant's: there a tick or event bound ends the run
and everything may come to rest. The plant never rests, and is checked for
deadlock.

## 5. Fairness

* `Plant`: weak fairness of `Tick`. The task's loop sleeps and ticks without
  condition. Nothing obliges an operator or a scenario to act.
* `MqttTap` (`MqttFairSpec`): weak fairness of the clock and of the handlers once a wake has
  begun; strong fairness of the wakes, because `tokio::select!` takes a
  ready branch at random and the ticker is ready again every second. None for the
  load, reconnects or refusals.
* `Shell` (`FairSpec`): weak fairness of the task's steps, of the stream's and of the
  queued request: a waiter in the `mpsc` queue is served in turn once a place is
  free, and the model lets no `try_send` take its place. None for clients:
  nobody has to write, post or read. `SurfacesSpec` assumes the two of the part that moves.
* `devices`: weak fairness of the thermostat's step, which every tick makes. None
  for heat or failure: a failed unit may stay failed, and the property excludes
  it.
* `scenario`: weak fairness of the two halves of a frame, because every frame asks for the
  next one (`bess-scene/src/viewer.rs`). None for clicks and the JS door.

## 6. Where the code and its documents part

Each is a run that TLC ends with a counterexample.

* `mqtt_refused_replay`: `Outbox::backfill` pops a message and then offers it to
  the client. When the client refuses, the message is gone. If it was a live
  retained word that had waited behind the replay, the publisher has recorded it
  as published and never sends it again: the broker keeps the old word.
* `mqtt_same_story`: the outbox remembers replayed bursts by schedule index over
  a load; a scenario loaded after another does not replay a burst whose index
  was used.
* `mqtt_undated_load`: `Publisher::last_pub_s` is a date of the plant and outlives it
  (`mqtt/publisher.rs:93`, 111). A scenario that names no start takes the one in force
  (`http/scenario.rs:85`), so a load sets the clock back, and every point of a cadence
  class is silent until the new plant has caught up with the old one.
  COMPATIBILITY.md:151 promises the cadence in simulation time without exception.
* `shell_old_setpoint`: a Modbus mode write sends back the setpoint it read from
  a snapshot; a load between the two puts the old plant's setpoint in force.
* `tap_order`: overlapping data faults apply in the order of the schedule, where
  the comment has freezes first, then unit errors, then NaN bursts.
* `burst_overflow`: whether a dropout is over is asked of a sum that wraps
  (`validate.rs:133`). One that ends beyond what a `u64` holds may so count as over before it
  begins; a burst of its surface is accepted and fires early, and the dropout never
  opens, since the window's end wraps alike (`tap.rs:173`). In a debug build
  the sum panics.
* `leap_day`: a run over a common year settles an hour in the reference year's
  February 29th, which a comment of the benchmark says is not visited.

`surfaces` shows what does hold of the two that concern the publisher and a load:
refusals of live messages only leave the retained word to catch up, and a point is
silent after no step but a load (`OnlyALoadSilences`).

Behaviours that no document denies, and that surprised: a day of one price
charges and never discharges (`DaysRunWhole`); a run resumed inside a freeze reads
live values, since captured values are in no checkpoint; a stop picked for
February 29th opens on March 1st in a common year (`StopLands`).

## 7. Proofs

`PlantProofs` proves, for every number of blocks, containers and racks, every
spacing and deadband, every set of levels and setpoints (assumption
`PlantAssumption` of `Plant`: positive sizes, subsets of the vocabularies):

* `TypeCorrect`: the control state is well typed;
* `LatchMatchesBreaker`: `TripLatch`;
* `TrippedSiteIsStopped`: `OpenMeansStopped`;
* `ReturnKeepsTimetable`: the sequencer implements `Timetable`.

The inductive invariant is

    IInv == ControlTypeOK /\ TripLatch /\ OpenMeansStopped /\ Countdown

The three invariants lean on the types and hardly on each other: latch and
breaker change together in the trip and in the site reset and nowhere else, and
behind an open breaker the target is zero and `release` is skipped. The
refinement is what needs all four at once. A trip maps to the timetable's only
if the site was connected, which the code never asks, since it refuses on the
latch: that is `TripLatch`. Closing the breaker must leave the timetable's clock
where it is, at zero, though the code starts the return over: that is
`OpenMeansStopped`. `Countdown`, that the countdown is zero before the first
release and after the last and below a spacing in between, is what makes a block
fall on its time. The refinement maps the
released count `r` and countdown `n` to the age `r * Spacing - n` of the
timetable, and the one arithmetical fact behind it (`SpacingsCompare`) is that
`k * s < r * s - n` exactly when `k < r`, for `n` in `0..s-1`. Each action has
its lemma; the door's settings share one, since they touch nothing the invariant
relates.

`DeviceProofs` proves:

* `RestKept`: `KeepsRest`, that the thermostat implements `Compressors`, for all
  bands, minimum times and heat gains (`BandsAssumption`, `ClockAssumption`:
  bands in ascending order, the cap of the history at least either minimum). The
  code has one clock and the promise is about time that has passed, so the
  inductive invariant ties them: `HoldCovers`, that what is left of the hold plus
  the time since the last change covers the minimum of the stage in force. Heating
  in between does not rearm the clock, and a free clock therefore means rested.
* `Balanced`: `EnergyBalance`, for every loss curve and house load
  (`MeterAssumption`: integers). The invariant adds only the types. The lemma that
  carries it is that both sides of the balance grow by what the racks gave up, in
  each case of the breaker and of the sign of the POI power.
* `PeriodsBalance`: `PeriodsAddUp`, for every length of a period and every start.
  The property is inductive with the types (`FiscalInv`), but it speaks of sums
  over the history of energies. They are written as differences of running sums
  (`SumsOf`), a recursive function, so that what a tick appends moves every sum
  of a stretch that ends now by that tick and leaves every other alone
  (`StoryGrows`). `NextQuotient` says when the integer quotient that numbers the
  periods moves on; `NothingBefore`, that no period ended before the start.
* `RacksFollowTheirBlock`: `RacksFollow`, for every finite set of racks, every
  window, rating, taper, converter limit, loss and voltage curve (`PathAssumption`:
  a curve of integers over the charge; a limit that tapers to nothing within a
  band at least the rating, so that one tick at the limit ends inside the window;
  balancing only starts above the lower end by what it bleeds). The invariant
  only says that each rack is what its fields hold, its charge inside the window
  (`PathInv`). The step is arithmetic along the path: the limits of the block are
  sums of naturals over the racks in service (`LimitsType`), the request never
  turns against the target (`RequestAlong`), nor a share against the request
  (`SplitAlong`), and a rack clamps its share to its own tapered limit.
* `CutSaysNothing`: `CutWireIsSilent`, with `AnswersRequest`: an answer under way
  answers what was asked.
* `CounterTold`: `CounterTellsMissed`, for every size of a register, every plant,
  request and schedule of faults (`BaseAssumption`, `BlocksAssumption`,
  `MapAssumption`: windows are records of the fields of `Window`, counts are
  naturals). `CounterInv` says that every answer heard or under way that carries
  the counter, outside a freeze, carries the log's count at its own tick.
  `OnlyCounter` finds register 43 in no other point of the table;
  `UntouchedValue`, by induction along the fold over the windows, that faults which
  reach a point not at all leave it alone, of which a counter knows no other kind
  but the freeze (`CounterReads`); `MissedAcrossTheWrap` is the arithmetic.
* `PollsReadTheDevice`: `PollReadsTheDevice`, the same for every point of the table
  and every fault, with the two assumptions above and `PlantsAssumption`. `Told(a)`
  says it of an answer of a tick no later than now, and is kept of the answer under
  way and of the two heard (`PollInv`). Four facts carry it. `PointsApart`: no two points of the table, of any two blocks, share a register,
  so a register shows the one point that lies on it (`RegisterHolds`).
  `EncodedReadsBack` and `SaidNearest`: what `Encode` writes, a driver reads back as the
  nearest count the register can hold, with halves, pegs, signs and the order of the words.
  `PointReadsANumber`: every point of every plant reads an integer, through the extremes,
  counts and sums over racks and containers. `ReadingTaken`: the fold over the windows
  ends at the last freeze that holds the point and adds the exponents behind it, by
  induction along the schedule, window by window (`ThroughOne`). A tick published
  later changes none of this for an answer given before: `ToldForGood`, which needs
  `FrozenSince`, that a freeze has captured exactly when its tick has passed, and only then.

`JournalProofs` continues with the part of the plant that is told, under the same
assumption:

* `StreamTellsAll`: `JournalTellsAll`; `PlantTypes`: `TypeOK`, which needs it,
  since the reader's state is typed only because it is the tree's;
* `ResetAnswersTruthfully`: `ReplyIsTruthful`;
* `LatchesHold`: `LatchesOutliveTicks`;
* `TreeSettles`: `SettledTree`;
* `LogReadsCauseFirst`: `CauseFirst`;
* `ViewIsTrue`: `ViewTellsTruth` of `AlarmView`.

The invariant added to `IInv` is `Told`: the reader, carried over the mailbox,
arrives at the tree. `Leads(h, s, k)` says that the events `s` take the reader
from `h` to `k`; it composes along concatenation (`LeadsOver`), so each loop of the
kernel gets one lemma that says where its events lead, from the alarm bits of one
word (`TellWord`) over the racks and blocks (`TellRacks`, `TellBlocks`) to the whole
tick and the whole reset (`TickTells`, `ResetTells`). The reset's answer is read
from the events alone: that an empty list of events means an unchanged tree
(`SilentResetDoesNothing`) and the converse (`IdleResetIsSilent`) are both needed,
and the first holds only because a breaker that a reset would close has a latch
the reset clears, which is told: `TripLatch`. `LatchesHold` needs `FaultIsRead`: a block whose word says its
converter is faulted has a faulted one, which is why the tick cannot free it.
`CauseFirst` is proved by looking at what an action can append: marks, alarms and
transitions that do not end in a fault are quiet (`QuietAppends`), and only a trip
appends a fault, behind its own mark (`CauseThenEffects`).
`ViewIsTrue` follows from `IInv` and `SettledTree`. For the buttons, `SilentReset` says
what leaves a reset nothing to tell: no converter in fault and no latched bit in
its scope; the button reads the bits alone, and a settled tree shows every fault in its
block's word. For the lamps, `ListIsTheTree` says that the sorted list holds the set bits
and no other, `LampIsLoudest` that a lamp is the maximum over its own rows, and
`RedIsLatched` that the open breaker, red without being latched, stands beside its
latch: `TripLatch` again.

`SequenceFacts` holds what these proofs use of sequences. The library's induction
over the naturals takes an operator as a parameter, which the installed provers
cannot instantiate; `NatSetInduction` says the same of a set of naturals and
follows from the least element a non-empty set has. From it come the lemmas on
folds and on `FlattenSeq` (`FlattenLoop`: what holds before a loop and is kept by
each pass holds after it), and those on sums over a finite set: the library adds in
an order it chooses, `SumAnyOrder` says that none matters, `SumOfPart` that a part
sums to the same within any set it is taken from.

`ShellProofs` proves, for all schedules, every channel capacity and backlog and
every set of clients (`ShellAssumption`, `SurfacesAssumption`: each run's schedule is a sequence of tick
numbers, there is a first run, and `None` is not a batch):

* `NobodyIsAheadOfTheSnapshot`: `SnapshotLeads`;
* `EachEventFiresOnItsTick`: `EachFaultOnItsTick`;
* `StreamNumbersHaveNoGap`: `StreamNumbersRunOn`.

None is inductive. The invariant says what is on its way: every batch, whether
with the task, at the receiver or in the message being built, is in `Told(sim)`,
the batches whose events the plant has logged, which only grows (`ToldGrows`), a
load included, since the run number does; and the snapshot agrees with the plant
in all but the setpoint. The cursor counts what has fired, `FiredBefore(sim)`, and
after a load that count is taken in the new run's schedule, so there must be one:
`LoadInv` says that at most one load is in the channel, that its client waits for
the answer, and that a further run is left. That a Modbus write never adds a load
is a lemma of its own (`WriteKeepsLoad`). The numbers need a line through all
three places: `LineInv` follows the last number from what was shown over what is
collected to what waits at the receiver, each batch linked to the one before
unless a loss is noted between.

`MqttProofs` proves, for every list of stories with their dropouts and bursts, any
period, store, burst slice and backlog, and any refusals and reconnects
(`MqttAssumption`, `SurfacesAssumption`: there is a story, sizes are positive, `None` is
no time, word or message):

* `EventsPublishOnce`: `EachEventOnce`;
* `SubscribersSeeOrder`: `BrokerKeepsOrder`;
* `SilenceComesOfALoad`: `OnlyALoadSilences`;
* `RecordedWordsAreOut`: `RecordedWordIsOut`.

The inductive invariant is

    IInv == Types /\ Fits(outbox, delivered, retained) /\ Channel

`Fits` relates store and broker: the store holds at most its capacity, its events
and the delivered ones are all different and all emitted, and its retained
messages are words in order, each later than what the broker retains, and wait
only where a replay will bring them. `Channel` says of the batches that wait that
their events are nowhere else. Each operation of the outbox (observe, keep,
send, replay) has a lemma that it keeps `Fits`, and the handlers are put together
from these.

`SilenceComesOfALoad` adds `DatesArePast`: the last publication is a date the plant in
force has passed, or one that some earlier plant could show. The first turns into the
second at a load and nowhere else, so a date in the future is never made by a wake. It
needs no assumption on the dates stories start at; `SurfacesAssumption` says that the
bound on ticks is a natural and that the backlog is positive.

One theorem has a hypothesis, because the code does not keep the property without
it: `RecordedWordsAreOut` assumes that the client refuses no replayed message. What
happens when it does is the finding `mqtt_refused_replay`.

`SessionProofs` proves, for every capacity of the journal, every size of a frame
and of a slice, every set of dates, speeds and scenarios (`SessionAssumption`:
sizes and times are naturals, a scenario's schedule ascends, as
`bess-scenario/src/resolve.rs` leaves it):

* `JournalKeepsLog`: `JournalIsTheLog`;
* `StoriesKeepTime`: `StoryKeepsTime`;
* `JumpsLand`: `JumpLandsOnTarget`.

The inductive invariant `SInv` needs two things the properties do not say.
Between a reset and the next tick a bit is clear while its clear still waits in
the mailbox: `LogSound` says that the bits the journal dates, less those whose
clears wait, are the set bits. And the cursor of a story stands on the boundary
between past and future: `StorySound` says that what lies behind the plant is
exactly `1..cursor`, which holds because the schedule ascends. `Stands(from, s,
to)` says that the events `s` take the dated bits from one set to another; like
`Leads` it composes along concatenation, over mailbox, faults and the change of the
tick (`LogGoesOn`). A frame or slice runs some ticks, and `TicksAreSound` carries
one tick's lemma over any number of them. That a jump lands on its target then
rests on `Underway`, that a jump in progress is always to a time still ahead.

`ScenarioProofs` proves, for every set of events an author may list, files of any
length, every seed, site and `MaxSeconds` (`TextAssumption`, `RunAssumption`: sizes
are positive, texts are sequences of strings, seeds are naturals):

* `RefusalsStand`: `RefusalStands`;
* `RunsHoldThePast`: `TreeHoldsThePast`;
* `FreezesHoldOneMoment`: `FreezeHoldsOneMoment`;
* `AcceptedStoriesPlay`: `WholeStoryPlays`;
* `TextsRead`: `TextsReadBack`, for whatever is typed from whatever it begins with
  (`TextSpec`), durations and paths of any length and dates of any year
  (`TextsAssumption`: characters are strings, parts are names with numbers).

The first rests on `RulesLookBack`, that no rule but that of the bursts reads behind
the event it judges, and on `FirstStands`, that the first refusal of a list is that of
any longer one. The others share the inductive invariant `RunInv`. Its part `Kept` is
said of the running tree and of the saved one alike: a story and a seed determine a
schedule, the cursor stands on the boundary of the tick in it (`Boundary`), and what
was applied is the schedule up to the cursor (`Log`). A resume then needs two facts:
`CaughtUp`, that counting what is due before the tick finds a boundary, and
`OneBoundary`, that there is only one. That a boundary exists at all needs the schedule
to ascend: `ResolveSorts`, from `PlacesAreTaken`, that the places the sort gives are a
bijection, by the cardinality of sets before an event; and ticks that compare, which is
`DurationsFit`: whatever text is read, the total stays a natural of at most `MaxSeconds`.
`OpensAll` says that the windows are those of the data events of the schedule, each with
what it captured on its own tick or nothing. For `AcceptedStoriesPlay` the invariant
keeps that the story was accepted; `TargetsInOrder` shows by induction over the list
that comparing each event with the last one of its target orders them all. Its last
part has the exception the code has: a dropout whose end does not fit into
`MaxSeconds`, the finding `burst_overflow`. Where it fits, the wrapped sums of the rule and
of the window are the true one.
`TextsRead` is three lemmas. `DurationRead`: a duration is read as a sum of the
grammar that fits into `MaxSeconds`, and what has no such sum is refused. The fold of
the code becomes a sequence of readings (`PartRuns`), the folds of the grammar become
sums over cuts of the text (`ReadingsAreCuts`, `ThreeUnits`). `SoFar` says what a
reading knows after so many characters, namely three cuts, the seconds before the
last and the digits behind it, and `SoFarOn` that the next character keeps it; from
the other side `SegmentRead` follows a segment of the grammar through the code.
`PathRead`: a path that is accepted is a node in its own spelling, and every spelling
of a node is accepted (`Spelling`). `DateRead`: `DaysAreDates` shows that the two
conversions of the code are inverse on the days of the Gregorian calendar, by splitting
a day of an era into centuries, cycles of four years and years (`EraSplits`), and
`DatesComeBack` that what comes back unchanged is such a day.
The lemmas `FoldExists` and `FoldStays` of `SequenceFacts` carry an invariant through a
fold of the library: durations are folded from characters and windows from a schedule.

**Only model-checked**:

* The liveness properties (`EveryBlockReturns`, `RetainedCatchesUp`,
  `RequestIsAnswered`, `StreamCatchesUp`, `HotContainerIsCooled`, `JumpsEnd`): they
  rest on fairness, and so on ENABLED, which the provers do not handle.
* `DataIsTheSource` of `DataCompilers`: rows go through folds and `SelectSeq`, and a
  gap in them through a search backwards and forwards.
* `YearRunsOn` of `ReplayYear`: it is a fact about one table, the 8784 hours of the
  reference year with its two changes of the clock, which TLC goes through whole.
* The seven runs that end in a violation show a state, not a law.

## 8. Not modelled

Continuous physics (cell voltage and heat, container heat balance, grid frequency,
synthetic weather, converter efficiency), which is floating point and which the
models leave free; the generator of random numbers, digests and the bytes of a
checkpoint, which are matters of bits; events, metrics, CSV and status as text;
what serde refuses of a file before the code's own rules; the command line's
syntax; the renderer, the scene's geometry, camera, sky, sun and the layout of
panels, which no later step of the plant reads; the benchmark's statistics and
report. In `Shell` the wall clock of the loop: the sleep between ticks, the catching
up after a stall, the speed. In `MqttTap` the data faults that alter a value, a stamp
or the number of repeats: none decides whether a message is stored, sent or
retained.
