------------------------------- MODULE ScenarioRun -------------------------------
(* A scenario from the file to its last event: the author lists events, a      *)
(* shell takes the file, fixes the schedule (bess-scenario/src/resolve.rs) and *)
(* plays it (player.rs); a checkpoint is saved and resumed, under this file or *)
(* another.                                                                    *)
EXTENDS ScenarioFile, Taps

CONSTANTS
  Headers,     \* what a file may say above its events
  Specs,       \* the events an author may list
  Seeds,       \* seeds a flag may name; DefaultSeed is one of them
  DefaultSeed,
  MaxEvents, MaxTicks   \* bounds

ASSUME RunAssumption ==
  /\ Headers \subseteq [length : Seq(STRING), seed : Nat \cup {-1}]
  /\ \A spec \in Specs : {spec.at, spec.duration} \subseteq Seq(STRING)
  /\ Seeds \subseteq Nat /\ DefaultSeed \in Nat /\ {MaxEvents, MaxTicks} \subseteq Nat

VARIABLES
  file,      \* the file as written so far
  tree,      \* SiteState: tick, meta.scenario, meta.seed, and what was applied to it
  schedule,  \* Player::schedule
  cursor,    \* Player::cursor
  windows,   \* Taps::windows
  disk       \* the last checkpoint

runVars == <<file, tree, schedule, cursor, windows, disk>>

None == -1
NoStory == <<>>      \* meta.scenario; <<file>> when there is one

(* No tree yet: it has no seed.                                                *)
NoTree == [tick |-> 0, story |-> NoStory, seed |-> None, applied |-> <<>>]

(* draw: a range becomes one rate, fixed by the seed and the place in the file.*)
Draw(spec, seed, index) ==
  IF "rate_pct_per_month" \notin DOMAIN spec.params THEN <<>>
  ELSE IF Len(spec.params.rate_pct_per_month) = 1 THEN spec.params.rate_pct_per_month
  ELSE spec.params.rate_pct_per_month \o <<seed, index>>

Earlier(a, b) == a.tick < b.tick \/ (a.tick = b.tick /\ a.index < b.index)

Scheduled(story, seed) ==
  [i \in DOMAIN story.events |->
     [index |-> i, tick |-> AtS(story.events[i]), spec |-> story.events[i],
      rate |-> Draw(story.events[i], seed, i)]]

(* Scenario::resolve with ticks of one second: sorted, an event stands behind  *)
(* those that come before it.                                                  *)
Place(due, i) == 1 + Cardinality({j \in DOMAIN due : Earlier(due[j], due[i])})

Resolve(story, seed) ==
  LET due == Scheduled(story, seed)
  IN [k \in DOMAIN due |-> due[CHOOSE i \in DOMAIN due : Place(due, i) = k]]

Ticks(story) == ParseDuration(story.length).total

IsData(s) == s.spec.surface # NoSurface

Param(s, p, default) == IF p \in DOMAIN s.spec.params THEN s.spec.params[p] ELSE default

(* Taps::new. The end of a window is a u64 sum without a check, like that of   *)
(* BurstWhy.                                                                   *)
Window(s) ==
  [index |-> s.index, surface |-> s.spec.surface, kind |-> s.spec.fault, start |-> s.tick,
   end |-> IF s.spec.fault = "backfill_burst" THEN s.tick
           ELSE IF s.spec.duration = NoText THEN Forever
           ELSE (s.tick + ParseDuration(s.spec.duration).total) % (MaxSeconds + 1),
   points |-> IF "points" \notin Takes(s.spec.fault) THEN Fails(0)
              ELSE ParseSelector(Param(s, "points", Star)),
   exponent |-> IF s.spec.fault = "unit_error" THEN Param(s, "exponent", 3) ELSE 0,
   rate |-> Param(s, "rate_per_min", 0), drift |-> Param(s, "drift_s_per_h", 0),
   frozen |-> Forever]

WindowsOf(sched) ==
  FoldLeft(LAMBDA ws, s : IF IsData(s) THEN Append(ws, Window(s)) ELSE ws, <<>>, sched)

(* run_params::pick: the file's seed, else the flag's, else the default; a     *)
(* flag that disagrees is refused.                                             *)
Agrees(stated, given) == stated = None \/ given = None \/ given = stated
Pick(stated, given)   ==
  IF stated # None THEN stated ELSE IF given # None THEN given ELSE DefaultSeed

Init ==
  /\ file \in [schema : {1}, name : {<<"a">>}, start : {NoText}, speed : {0},
               length : {h.length : h \in Headers}, seed : {h.seed : h \in Headers},
               events : {<<>>}]
  /\ tree = NoTree /\ disk = NoTree
  /\ schedule = <<>> /\ cursor = 0 /\ windows = <<>>

Idle == tree.seed = None

(* The author lists one more event.                                            *)
Write(spec) ==
  /\ Idle /\ Len(file.events) < MaxEvents
  /\ file' = [file EXCEPT !.events = Append(@, spec)]
  /\ UNCHANGED <<tree, schedule, cursor, windows, disk>>

Play(sched) == schedule' = sched /\ windows' = WindowsOf(sched)

(* Resolved::simulation, with a player at the start of the schedule.           *)
Start(flag) ==
  /\ Idle /\ Accepted(file) /\ Agrees(file.seed, flag)
  /\ LET seed == Pick(file.seed, flag)
     IN /\ Play(Resolve(file, seed))
        /\ tree' = [NoTree EXCEPT !.story = <<file>>, !.seed = seed]
  /\ cursor' = 0
  /\ UNCHANGED <<file, disk>>

(* A run without a scenario.                                                   *)
StartPlain(flag) ==
  /\ Idle
  /\ tree' = [NoTree EXCEPT !.seed = Pick(None, flag)]
  /\ UNCHANGED <<file, schedule, cursor, windows, disk>>

(* Player::due: the cursor after everything due before the kernel steps tick.  *)
AfterDue(sched, from, tick) ==
  LET later == {i \in (from + 1)..Len(sched) : sched[i].tick > tick}
  IN IF later = {} THEN Len(sched)
     ELSE (CHOOSE i \in later : \A j \in later : i <= j) - 1

(* Mutant: everything up to the tick of the checkpoint counts as fired.        *)
CatchUpThrough(sched, tick) == Cardinality({i \in DOMAIN sched : sched[i].tick <= tick})

(* Player::catch_up: partition_point over the sorted schedule.                 *)
CatchUp(sched, tick) == Cardinality({i \in DOMAIN sched : sched[i].tick < tick})

Freezes(sched) == {i \in DOMAIN sched : IsData(sched[i]) /\ sched[i].spec.fault = "freeze"}

(* Active::fire_due, then the step: what is due goes to the tree in order, and *)
(* a freeze that is due captures.                                              *)
Tick ==
  LET now == AfterDue(schedule, cursor, tree.tick)
      due == SubSeq(schedule, cursor + 1, now)
  IN /\ ~Idle /\ tree.tick < MaxTicks
     /\ cursor' = now
     /\ tree' = [tree EXCEPT !.tick = @ + 1,
                             !.applied = @ \o [i \in DOMAIN due |->
                                                 <<due[i].index, due[i].rate, tree.tick>>]]
     /\ windows' = Opened(windows, {due[i].index : i \in Freezes(due)}, tree.tick)
     /\ UNCHANGED <<file, schedule, disk>>

Save ==
  /\ ~Idle
  /\ disk' = tree
  /\ UNCHANGED <<file, tree, schedule, cursor, windows>>

MayResume(story, seed) == disk.story = <<story>> /\ disk.seed = seed

(* Files the operator may hand over: the one that ran, or it cut short. The    *)
(* content hash tells them apart.                                              *)
Others == {file} \cup {[file EXCEPT !.events = SubSeq(@, 1, n)] : n \in 1..Len(file.events)}

(* Resolved::resume and Player::catch_up, in a new process.                    *)
Resume(story, flag) ==
  LET seed == Pick(story.seed, flag)
  IN /\ disk # NoTree /\ disk.story # NoStory
     /\ Agrees(story.seed, flag) /\ MayResume(story, seed)
     /\ Accepted(story)
     /\ tree' = disk
     /\ Play(Resolve(story, seed))
     /\ cursor' = CatchUp(schedule', disk.tick)
     /\ UNCHANGED <<file, disk>>

Next ==
  \/ \E spec \in Specs : Write(spec)
  \/ \E flag \in Seeds \cup {None} : Start(flag) \/ StartPlain(flag)
  \/ Tick
  \/ Save
  \/ \E story \in Others, flag \in Seeds \cup {None} : Resume(story, flag)

Spec == Init /\ [][Next]_runVars
================================================================================
