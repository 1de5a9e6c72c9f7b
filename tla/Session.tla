-------------------------------- MODULE Session --------------------------------
(* The viewer's session (bess-scene/src/viewer/session.rs, run.rs, jump.rs,    *)
(* record.rs), the journal it keeps (alarms/journal.rs) and what its panel     *)
(* offers (panels/controls.rs, panels/scenario.rs, panels/alarms.rs). A frame  *)
(* first advances the plant and then draws the panel and carries out what was  *)
(* clicked; the browser's JS door is called between frames.                    *)
(* The plant is its clock, its alarm bits and its event log; one bit latches.  *)
EXTENDS Integers, SequencesExt

CONSTANTS
  Capacity,        \* alarms::journal::CAPACITY
  FrameTicks,      \* MAX_TICKS_PER_FRAME
  JumpTicks,       \* JUMP_TICKS_PER_FRAME
  Cases,           \* scenarios that may be played
  Dates,           \* dates the panel's fields may show
  Opening,         \* START_UNIX_S
  Speeds,          \* speeds the slider may name, in half ticks a frame
  MaxTime          \* bound on the clock

NoTime == -1

(* A scenario's schedule ascends (bess-scenario/src/resolve.rs sorts it).      *)
ASSUME SessionAssumption ==
  /\ Capacity \in Nat \ {0} /\ FrameTicks \in Nat /\ JumpTicks \in Nat /\ MaxTime \in Nat
  /\ Opening \in Nat /\ Dates \subseteq Nat /\ Speeds \subseteq Nat
  /\ Cases \subseteq [schedule : Seq([tick : Nat, wire : BOOLEAN]), length : Nat \cup {NoTime},
                      start : Nat \cup {NoTime}, speed : Nat \cup {NoTime}]
  /\ \A c \in Cases : \A i, j \in DOMAIN c.schedule :
       i <= j => c.schedule[i].tick <= c.schedule[j].tick

Bits == {"trip", "warning"}
Latching == {"trip"}

VARIABLES
  phase,      \* "logic" or "ui": what of the frame comes next
  sim,        \* Run::sim
  story,      \* Run::story: <<>>, or <<case>> with its cursor
  journal,    \* Session::journal
  seen,       \* PanelState::alarms_seen
  answer,     \* PanelState::reset_answer: the time of the reset, or NoTime
  speed,      \* Session::speed
  accum,      \* Session::tick_accum, in half ticks
  jump,       \* Session::jump: NoJump or where it goes
  log,        \* history: every event of this plant, with the time it shows
  applied     \* history: the story's faults, with the tick each came on

sessionVars == <<phase, sim, story, journal, seen, answer, speed, accum, jump, log, applied>>

NoJump == [from |-> NoTime, target |-> NoTime]

Raised(bit)  == [kind |-> "raised", bit |-> bit]
Cleared(bit) == [kind |-> "cleared", bit |-> bit]
Fault(index) == [kind |-> "fault", index |-> index]

(* Simulation::new: nothing is set, the log is empty.                          *)
Fresh(start) == [start |-> start, tick |-> 0, bits |-> {}, mail |-> <<>>, count |-> 0,
                 setpoint |-> FALSE]

Now(s)        == s.start + s.tick
AtTick(s, t)  == s.start + t
Jumping       == jump # NoJump
Playing       == story # <<>>
NoEntries     == [entries |-> <<>>, raised |-> <<>>]

(* Progress of the player, as the strip shows it.                              *)
Fired      == story[1].cursor
NextTick   == IF Playing /\ Fired < Len(story[1].case.schedule)
              THEN story[1].case.schedule[Fired + 1].tick ELSE NoTime
LengthOf   == IF Playing THEN story[1].case.length ELSE NoTime

Entry(seq, event, time) == [seq |-> seq, event |-> event, time |-> time]

Keep(ring, e) == Append(IF Len(ring) = Capacity THEN Tail(ring) ELSE ring, e)

(* One event into the journal: a raise dates its bit, a clear forgets it.      *)
Note(j, seq, event, time) ==
  [entries |-> Keep(j.entries, Entry(seq, event, time)),
   raised  |-> IF event.kind = "raised" THEN [b \in DOMAIN j.raised \cup {event.bit} |->
                                               IF b = event.bit THEN time ELSE j.raised[b]]
               ELSE IF event.kind = "cleared" THEN [b \in DOMAIN j.raised \ {event.bit} |->
                                                     j.raised[b]]
               ELSE j.raised]

(* Journal::record, given the log's count after the tick.                      *)
Record(j, events, count, time) ==
  LET noted[n \in 0..Len(events)] ==
        IF n = 0 THEN j ELSE Note(noted[n - 1], count - Len(events) + n, events[n], time)
  IN noted[Len(events)]

(* What the physics may do to the bits in a tick, and the events it leaves.    *)
Changes(bits) ==
  {[bits |-> bits, events |-> <<>>]}
  \cup {[bits |-> bits \cup {b}, events |-> <<Raised(b)>>] : b \in Bits \ bits}
  \cup {[bits |-> bits \ {b}, events |-> <<Cleared(b)>>] : b \in bits \ Latching}

(* The world a tick moves: Run and the journal, with the histories.            *)
World == [sim |-> sim, story |-> story, journal |-> journal, log |-> log, applied |-> applied]

(* Mutant: due means overdue, an event on its own tick waits for the next.     *)
DueOverdue(schedule, cursor, tick) ==
  cursor + Cardinality({i \in (cursor + 1)..Len(schedule) : schedule[i].tick < tick})

(* Player::due: the cursor after everything at or before the tick.             *)
Due(schedule, cursor, tick) ==
  cursor + Cardinality({i \in (cursor + 1)..Len(schedule) : schedule[i].tick <= tick})

(* Player::fire_due: what reaches the plant of a stretch of the schedule. A    *)
(* data fault comes due like any other and does not.                           *)
ForPlant(schedule, from, upto) ==
  FlattenSeq([k \in 1..(upto - from) |->
                IF schedule[from + k].wire THEN <<>> ELSE <<from + k>>])

(* Run::tick: fire what is due, step, journal what the tick emitted.           *)
RunTick(w, change) ==
  LET schedule == IF w.story = <<>> THEN <<>> ELSE w.story[1].case.schedule
      cursor   == IF w.story = <<>> THEN 0 ELSE w.story[1].cursor
      upto     == Due(schedule, cursor, w.sim.tick)
      due      == ForPlant(schedule, cursor, upto)
      faults   == [k \in DOMAIN due |-> Fault(due[k])]
      events == w.sim.mail \o faults \o change.events
      time   == Now(w.sim) + 1
      count  == w.sim.count + Len(events)
  IN [sim     |-> [w.sim EXCEPT !.tick = @ + 1, !.bits = change.bits, !.mail = <<>>,
                                !.count = count],
      story   |-> IF w.story = <<>> THEN <<>> ELSE <<[w.story[1] EXCEPT !.cursor = upto]>>,
      journal |-> Record(w.journal, events, count, time),
      log     |-> w.log \o [i \in DOMAIN events |-> Entry(i, events[i], time)],
      applied |-> w.applied \o [k \in DOMAIN due |-> <<due[k], w.sim.tick>>]]

Becomes(w) ==
  /\ sim' = w.sim /\ story' = w.story /\ journal' = w.journal
  /\ log' = w.log /\ applied' = w.applied

(* Some ticks in a row.                                                        *)
After(n) ==
  LET after[i \in 0..n] ==
        IF i = 0 THEN {World}
        ELSE UNION {{RunTick(w, c) : c \in Changes(w.sim.bits)} : w \in after[i - 1]}
  IN after[n]
--------------------------------------------------------------------------------
SessionInit ==
  /\ phase = "logic"
  /\ sim = Fresh(Opening) /\ story = <<>>
  /\ journal = NoEntries /\ seen = 0 /\ answer = NoTime
  /\ speed \in Speeds /\ accum = 0 /\ jump = NoJump
  /\ log = <<>> /\ applied = <<>>

Smaller(a, b) == IF a <= b THEN a ELSE b
Larger(a, b)  == IF a >= b THEN a ELSE b

(* Mutants: a slice of the jump is always the whole budget; it stops a tick    *)
(* short of the target, where the jump has not arrived.                        *)
SliceWhole(s, target) == JumpTicks
SliceShort(s, target) == Smaller(JumpTicks, Larger(target - Now(s) - 1, 0))

(* Ticks of a slice of the jump: arrival is checked before every tick.         *)
Slice(s, target) == Smaller(JumpTicks, Larger(target - Now(s), 0))

(* What a slice answers once its loop is done.                                 *)
Arrived(s, target) == Now(s) >= target

(* Session::advance in a jump: it owns the frame.                              *)
AdvanceJump ==
  /\ phase = "logic" /\ Jumping
  /\ \E w \in After(Slice(sim, jump.target)) :
       /\ Becomes(w)
       /\ IF Arrived(w.sim, jump.target) THEN jump' = NoJump /\ accum' = 0
                                       ELSE UNCHANGED <<jump, accum>>
  /\ phase' = "ui"
  /\ UNCHANGED <<seen, answer, speed>>

(* Session::advance otherwise: wall time times the speed, whole ticks of it.   *)
AdvanceClock ==
  /\ phase = "logic" /\ ~Jumping
  /\ LET due   == accum + speed
         ticks == Smaller(due \div 2, FrameTicks)
     IN /\ Now(sim) + ticks <= MaxTime
        /\ \E w \in After(ticks) : Becomes(w)
        /\ accum' = due - 2 * ticks
  /\ phase' = "ui"
  /\ UNCHANGED <<seen, answer, speed, jump>>

(* Mutant: the bookmark stays where it was.                                    *)
ForgetAllButMark ==
  /\ jump' = NoJump /\ accum' = 0
  /\ journal' = NoEntries /\ seen' = seen /\ answer' = NoTime
  /\ log' = <<>> /\ applied' = <<>>

(* Session::forget_the_old_plant.                                              *)
Forget ==
  /\ jump' = NoJump /\ accum' = 0
  /\ journal' = NoEntries /\ seen' = 0 /\ answer' = NoTime
  /\ log' = <<>> /\ applied' = <<>>

(* Session::restart_at.                                                        *)
RestartAt(date) ==
  /\ sim' = Fresh(date) /\ story' = <<>>
  /\ Forget
  /\ UNCHANGED speed

(* Session::play: what the case leaves out comes from the session.             *)
StartCase(case) ==
  /\ sim' = Fresh(IF case.start = NoTime THEN Now(sim) ELSE case.start)
  /\ story' = <<[case |-> case, cursor |-> 0]>>
  /\ speed' = IF case.speed = NoTime THEN speed ELSE case.speed
  /\ Forget

(* Session::jump_to and FastForward::toward.                                   *)
JumpTo(target) ==
  jump' = IF ~Jumping /\ target > Now(sim) THEN [from |-> Now(sim), target |-> target]
          ELSE jump

(* Simulation::reset_alarms through the panel: the clears wait in the mailbox. *)
ResetAlarms ==
  /\ sim' = [sim EXCEPT !.bits = @ \ Latching,
                        !.mail = @ \o SetToSeq({Cleared(b) : b \in sim.bits \cap Latching})]
  /\ answer' = Now(sim)

(* controls::dispatch: the slider and the setpoint's two buttons.              *)
Dispatch ==
  /\ \/ \E s \in Speeds : speed' = s /\ UNCHANGED sim
     \/ \E on \in BOOLEAN : sim' = [sim EXCEPT !.setpoint = on] /\ UNCHANGED speed
  /\ UNCHANGED <<story, journal, answer, accum, jump, log, applied>>

(* alarms::reset_site: the button is there where something latched.            *)
ResetSite ==
  /\ sim.bits \cap Latching # {}
  /\ ResetAlarms
  /\ UNCHANGED <<story, journal, speed, accum, jump, log, applied>>

(* controls::time_travel: run forward to the date shown, if it is ahead.       *)
TimeTravel == \E date \in Dates : date > Now(sim) /\ JumpTo(date)

(* scenario::strip: run to the next event, or to an end still ahead.           *)
Over  == LengthOf # NoTime /\ sim.tick >= LengthOf
Strip == \/ NextTick # NoTime /\ JumpTo(AtTick(sim, NextTick))
         \/ LengthOf # NoTime /\ ~Over /\ JumpTo(AtTick(sim, LengthOf))

(* What else the panel offers; a jump hides the buttons that start another.    *)
Click ==
  \/ Dispatch
  \/ ResetSite
  \/ /\ ~Jumping
     /\ TimeTravel \/ Strip
     /\ UNCHANGED <<sim, story, journal, answer, speed, accum, log, applied>>

(* alarms::section: drawn open it moves the bookmark to the end of the log.    *)
Section(open) == seen' = IF open THEN sim.count ELSE seen

(* controls::stops and time_travel restart on a date; the picker starts a case *)
(* from its row.                                                               *)
Stops  == \E date \in Dates : ~Jumping /\ RestartAt(date)
Picker == \E case \in Cases : ~Jumping /\ StartCase(case)

(* ViewerApp::ui: the panel is drawn, the alarm section open or folded, and    *)
(* then the click is carried out.                                              *)
Ui ==
  /\ phase = "ui" /\ phase' = "logic"
  /\ \/ /\ \E open \in BOOLEAN : Section(open)
        /\ Click \/ UNCHANGED <<sim, story, journal, answer, speed, accum, jump, log, applied>>
     \/ Stops
     \/ Picker

(* WebHandle::start_scenario and load_scenario_yaml: a jump does not stop them.*)
Door == \E case \in Cases : phase = "logic" /\ StartCase(case) /\ UNCHANGED phase

(* ViewerApp::logic: every frame asks for the next one.                         *)
Advance == AdvanceJump \/ AdvanceClock

SessionNext == Advance \/ Ui \/ Door

SessionSpec == SessionInit /\ [][SessionNext]_sessionVars
================================================================================
