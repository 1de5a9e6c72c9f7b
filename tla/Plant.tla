------------------------------- MODULE Plant -------------------------------
(***************************************************************************)
(* The simulation kernel of the battery plant (bess-core/src/kernel).      *)
(*                                                                         *)
(* The plant is a tree: a site with one HV breaker and one plant           *)
(* controller, blocks with one PCS each, containers with one HVAC unit     *)
(* each, racks.  It moves in two ways.  Between ticks, commands come       *)
(* through a "door" (faults, the operator reset, the external setpoint)    *)
(* and change the tree at once; what they have to say waits in `pending'.  *)
(* A tick (Simulation::step) then runs the control loop over the whole     *)
(* tree and hands out one batch of events: the pending ones first, then    *)
(* its own.                                                                *)
(*                                                                         *)
(* Power, temperature and state of charge are abstracted to what the       *)
(* control reads of them: whether a block is asked for power, whether its  *)
(* converter moves any, and on which side of a hysteresis band a quantity  *)
(* stands (Levels).  The physics chooses among the possible values.        *)
(***************************************************************************)
EXTENDS SequencesExt

CONSTANTS
  NBlocks, NContainers, NRacks,  \* the shape of the tree
  Spacing,     \* ReturnPolicy::spacing_s, in ticks
  Deadband,    \* BlockSiteThresholds::setpoint_deadband_s, in ticks
  Setpoints,   \* site targets, as magnitudes; 0 asks for nothing
  MissLevels, AirLevels, RackLevels,  \* the levels the physics may choose
  Faults,      \* the fault actions a scenario may hold (FaultAction::name)
  MaxPending   \* bound: the door stays shut once this many events wait

(* A quantity with a hysteresis band, by what the band tells apart:        *)
(* 0 at or below `clear', 1 inside the band, 2 at or above `raise', 3 at   *)
(* or above the trip threshold.                                            *)
Levels == 0..3

FaultNames == {"failure", "repair", "trip", "protection_trip", "self_discharge",
               "isolate", "restore", "maintenance_enter", "maintenance_exit",
               "alarm_reset"}

ASSUME PlantAssumption ==
  /\ NBlocks \in Nat \ {0} /\ NContainers \in Nat \ {0} /\ NRacks \in Nat \ {0}
  /\ Spacing \in Nat \ {0} /\ Deadband \in Nat \ {0}
  /\ 0 \in Setpoints /\ Setpoints \subseteq Nat
  /\ 0 \in MissLevels /\ MissLevels \subseteq Levels
  /\ AirLevels \subseteq Levels /\ RackLevels \subseteq Levels
  /\ Faults \subseteq FaultNames
  /\ MaxPending \in Nat

(* AlarmNode: a path into the tree. <<>> is the site.                      *)
Blocks == 0..(NBlocks - 1)
Containers == Blocks \X (0..(NContainers - 1))
Racks == Blocks \X (0..(NContainers - 1)) \X (0..(NRacks - 1))
Site == << >>
Nodes == {Site} \cup {<<b>> : b \in Blocks} \cup Racks

(* The three alarm words, lowest bit first.  Of the rack word one bit of   *)
(* each behaviour is kept: hysteresis, mirror, latch.                      *)
SiteLayout == <<"POWER_LIMITED", "PARTIAL_AVAILABILITY", "HV_BREAKER_OPEN",
                "PROTECTION_TRIP">>
BlockLayout == <<"SETPOINT_NOT_MET", "CONTAINER_OVER_TEMP", "HVAC_FAILURE",
                 "MAINTENANCE", "PCS_FAULT">>
RackLayout == <<"OVER_TEMP_WARNING", "ISOLATED", "OVER_TEMP_TRIP">>
TripBits == {"PROTECTION_TRIP", "PCS_FAULT", "OVER_TEMP_TRIP"}
Layout(n) == IF n = Site THEN SiteLayout
             ELSE IF Len(n) = 1 THEN BlockLayout ELSE RackLayout

PcsOpState == {"Standby", "Run", "Fault"}
BlockMode == {"InService", "Maintenance"}

VARIABLES
  breaker,      \* SubstationState::hv_breaker
  emsMode,      \* EmsState::mode
  external,     \* EmsState::external_setpoint_w
  released,     \* EmsState::blocks_released
  nextRelease,  \* EmsState::next_release_s, in ticks
  mode,         \* BlockState::mode
  pcs,          \* PcsState::op_state
  missTimer,    \* BlockState::setpoint_miss_s, counted up to Deadband
  hvacFailed,   \* HvacState::failed
  inService,    \* RackState::in_service
  siteWord, blockWord, rackWord,   \* the alarm words, as sets of bits
  pending,      \* SiteState::pending_events
  heard         \* what a reader of the event stream makes of it

(* What the door and the tick change of the tree, without the mailbox.     *)
tree == <<breaker, emsMode, external, released, nextRelease, mode, pcs,
          missTimer, hvacFailed, inService, siteWord, blockWord, rackWord>>
vars == <<tree, pending, heard>>

-----------------------------------------------------------------------------
(* Events and the alarm vocabulary.                                        *)

Raised(n, bit) == [kind |-> "raised", node |-> n, bit |-> bit]
Cleared(n, bit) == [kind |-> "cleared", node |-> n, bit |-> bit]
PcsChanged(b, from, to) ==
  [kind |-> "pcs", block |-> b, from |-> from, to |-> to]
Applied(action, node) ==
  [kind |-> "applied", action |-> action, node |-> node]

(* Mutant: only raises are pushed.                                         *)
PushRaises(n, old, new) ==
  LET fresh == SelectSeq(Layout(n), LAMBDA bit : bit \in new \ old)
  IN  [i \in DOMAIN fresh |-> Raised(n, fresh[i])]

(* One raise or clear per bit that differs, lowest bit first.              *)
PushChange(n, bit, old, new) ==
  IF bit \in new \ old THEN <<Raised(n, bit)>>
  ELSE IF bit \in old \ new THEN <<Cleared(n, bit)>> ELSE << >>
PushChanges(n, old, new) ==
  IF old = new THEN << >>
  ELSE FlattenSeq([i \in 1..Len(Layout(n)) |-> PushChange(n, Layout(n)[i], old, new)])

(* A PCS transition is an event only when the state changed.               *)
PushPcs(b, from, to) == IF from = to THEN << >> ELSE <<PcsChanged(b, from, to)>>

(* Next state of a hysteresis bit (alarms::rising).                        *)
Rising(raised, level) == IF raised THEN level > 0 ELSE level >= 2

(* An evaluation sets every bit of its word afresh (alarms::with_bit).     *)
WithBit(bit, on) == IF on THEN {bit} ELSE {}

(* The blocks of the site, and the racks of a block, in index order.       *)
OverBlocks(F(_)) == FlattenSeq([i \in 1..NBlocks |-> F(i - 1)])
OverRacks(b, F(_)) ==
  FlattenSeq([i \in 1..(NContainers * NRacks) |->
                F(<<b, (i - 1) \div NRacks, (i - 1) % NRacks>>)])

(* Every event a tick hands out is folded by a reader who started with the *)
(* words all clear and every PCS in standby.  `honest' falls when an event *)
(* contradicts what the reader already knows.                              *)
Hear(h, e) ==
  CASE e.kind = "raised" ->
         [h EXCEPT !.word[e.node] = @ \cup {e.bit},
                   !.honest = @ /\ e.bit \notin h.word[e.node]]
    [] e.kind = "cleared" ->
         [h EXCEPT !.word[e.node] = @ \ {e.bit},
                   !.honest = @ /\ e.bit \in h.word[e.node]]
    [] e.kind = "pcs" ->
         [h EXCEPT !.pcs[e.block] = e.to,
                   !.honest = @ /\ h.pcs[e.block] = e.from]
    [] OTHER -> h
HearFrom(h, events) ==
  LET after[i \in 0..Len(events)] ==
        IF i = 0 THEN h ELSE Hear(after[i - 1], events[i])
  IN  after[Len(events)]
HearAll(events) == HearFrom(heard, events)

Words == [n \in Nodes |-> IF n = Site THEN siteWord
                          ELSE IF Len(n) = 1 THEN blockWord[n[1]]
                          ELSE rackWord[n]]
-----------------------------------------------------------------------------
(* SiteState::new: a healthy, connected, idle plant with every block       *)
(* released.                                                               *)
Init ==
  /\ breaker = "Closed"
  /\ emsMode = "FollowPlan" /\ external = 0
  /\ released = NBlocks /\ nextRelease = 0
  /\ mode = [b \in Blocks |-> "InService"]
  /\ pcs = [b \in Blocks |-> "Standby"]
  /\ missTimer = [b \in Blocks |-> 0]
  /\ hvacFailed = [c \in Containers |-> FALSE]
  /\ inService = [r \in Racks |-> TRUE]
  /\ siteWord = {}
  /\ blockWord = [b \in Blocks |-> {}]
  /\ rackWord = [r \in Racks |-> {}]
  /\ pending = << >>
  /\ heard = [word |-> [n \in Nodes |-> {}],
              pcs |-> [b \in Blocks |-> "Standby"], honest |-> TRUE]

-----------------------------------------------------------------------------
(* The staggered return (kernel/restart.rs).                               *)

(* The one predicate of allocation, availability and the partial bit.      *)
Dispatchable(b, rel, states) ==
  /\ breaker = "Closed"
  /\ mode[b] = "InService"
  /\ states[b] # "Fault"
  /\ b < rel

StartOver == released' = 0 /\ nextRelease' = 0

(* Mutants of Release, each a plausible slip.                              *)
ReleaseDisconnected ==
  IF released < NBlocks
  THEN /\ released' = IF nextRelease <= 0 THEN released + 1 ELSE released
       /\ nextRelease' = IF released' < NBlocks
                         THEN (IF nextRelease <= 0 THEN Spacing ELSE nextRelease) - 1
                         ELSE 0
  ELSE UNCHANGED <<released, nextRelease>>
ReleasePastLast ==
  IF breaker = "Closed" /\ released <= NBlocks
  THEN /\ released' = IF nextRelease <= 0 THEN released + 1 ELSE released
       /\ nextRelease' = (IF nextRelease <= 0 THEN Spacing ELSE nextRelease) - 1
  ELSE UNCHANGED <<released, nextRelease>>
ReleaseOneTickLate ==
  IF breaker = "Closed" /\ released < NBlocks
  THEN IF nextRelease <= 0
       THEN /\ released' = released + 1
            /\ nextRelease' = IF released' < NBlocks THEN Spacing ELSE 0
       ELSE nextRelease' = nextRelease - 1 /\ UNCHANGED released
  ELSE UNCHANGED <<released, nextRelease>>
ReleaseNeverCounts ==
  IF breaker = "Closed" /\ released < NBlocks
  THEN IF nextRelease <= 0
       THEN /\ released' = released + 1
            /\ nextRelease' = IF released' < NBlocks THEN Spacing ELSE 0
       ELSE UNCHANGED <<released, nextRelease>>
  ELSE UNCHANGED <<released, nextRelease>>

Release ==
  IF breaker = "Closed" /\ released < NBlocks
  THEN LET due == nextRelease <= 0
       IN  /\ released' = IF due THEN released + 1 ELSE released
           /\ nextRelease' = IF released' < NBlocks
                             THEN (IF due THEN Spacing ELSE nextRelease) - 1
                             ELSE 0
  ELSE UNCHANGED <<released, nextRelease>>

-----------------------------------------------------------------------------
(* The tick (Simulation::step).                                            *)

(* The site target: none while disconnected, the written setpoint in       *)
(* External mode, otherwise what the dispatch plan says at this hour.      *)
Targets == IF breaker = "Open" THEN {0}
           ELSE IF emsMode = "External" THEN {external} ELSE Setpoints

(* What the physics may make of one block: a block that is asked for       *)
(* nothing converts nothing and misses nothing; a converter moves power    *)
(* only over a rack that is in service.                                    *)
Outcomes == [run : BOOLEAN, miss : MissLevels, air : AirLevels]
Possible(b, asked, o) ==
  /\ ~asked => ~o.run /\ o.miss = 0
  /\ o.run => \E r \in Racks : r[1] = b /\ inService[r]

(* PcsModel::finalize: Fault is left alone.                                *)
Finalize(state, run) ==
  IF state = "Fault" THEN "Fault" ELSE IF run THEN "Run" ELSE "Standby"

(* Mutant: the trip follows the temperature instead of latching.           *)
EvaluateRackUnlatched(r, level) ==
  WithBit("OVER_TEMP_WARNING", Rising("OVER_TEMP_WARNING" \in rackWord[r], level))
    \cup WithBit("ISOLATED", ~inService[r])
    \cup WithBit("OVER_TEMP_TRIP", level = 3)

(* RackAlarmThresholds::evaluate, one bit of each behaviour.               *)
EvaluateRack(r, level) ==
  WithBit("OVER_TEMP_WARNING", Rising("OVER_TEMP_WARNING" \in rackWord[r], level))
    \cup WithBit("ISOLATED", ~inService[r])
    \cup WithBit("OVER_TEMP_TRIP", "OVER_TEMP_TRIP" \in rackWord[r] \/ level = 3)

MissTimer(b, miss) ==
  IF miss < 2 THEN 0
  ELSE IF missTimer[b] < Deadband THEN missTimer[b] + 1 ELSE Deadband

EvaluateBlock(b, o, state) ==
  WithBit("SETPOINT_NOT_MET", IF "SETPOINT_NOT_MET" \in blockWord[b] THEN o.miss > 0
                              ELSE MissTimer(b, o.miss) >= Deadband)
    \cup WithBit("CONTAINER_OVER_TEMP",
                 Rising("CONTAINER_OVER_TEMP" \in blockWord[b], o.air))
    \cup WithBit("HVAC_FAILURE", \E c \in Containers : c[1] = b /\ hvacFailed[c])
    \cup WithBit("MAINTENANCE", mode[b] = "Maintenance")
    \cup WithBit("PCS_FAULT", state = "Fault")

(* Mutant: partial availability asks the blocks, not the sequencer.        *)
EvaluateSiteBlindToReturn(short, rel, states) ==
  WithBit("POWER_LIMITED", Rising("POWER_LIMITED" \in siteWord, short))
    \cup WithBit("PARTIAL_AVAILABILITY",
                 \/ \E b \in Blocks : mode[b] # "InService" \/ states[b] = "Fault"
                 \/ \E r \in Racks : ~inService[r])
    \cup WithBit("HV_BREAKER_OPEN", breaker = "Open")
    \cup (siteWord \cap {"PROTECTION_TRIP"})

EvaluateSite(short, rel, states) ==
  WithBit("POWER_LIMITED", Rising("POWER_LIMITED" \in siteWord, short))
    \cup WithBit("PARTIAL_AVAILABILITY",
                 \/ \E b \in Blocks : ~Dispatchable(b, rel, states)
                 \/ \E r \in Racks : ~inService[r])
    \cup WithBit("HV_BREAKER_OPEN", breaker = "Open")
    \cup (siteWord \cap {"PROTECTION_TRIP"})

(* The batch a tick hands out: what waited, then block by block the racks, *)
(* the PCS and the block word, then the site word.                         *)
BlockEvents(b) ==
  OverRacks(b, LAMBDA r : PushChanges(r, rackWord[r], rackWord'[r]))
    \o PushPcs(b, pcs[b], pcs'[b])
    \o PushChanges(<<b>>, blockWord[b], blockWord'[b])
TickBatch ==
  pending \o OverBlocks(BlockEvents) \o PushChanges(Site, siteWord, siteWord')

(* The control loop over the tree, under what the physics decides.         *)
Control(target, heat, short, out) ==
  /\ \A b \in Blocks :
       Possible(b, target # 0 /\ Dispatchable(b, released', pcs), out[b])
  /\ target = 0 => short = 0
  /\ pcs' = [b \in Blocks |-> Finalize(pcs[b], out[b].run)]
  /\ rackWord' = [r \in Racks |-> EvaluateRack(r, heat[r])]
  /\ blockWord' = [b \in Blocks |-> EvaluateBlock(b, out[b], pcs'[b])]
  /\ missTimer' = [b \in Blocks |-> MissTimer(b, out[b].miss)]
  /\ siteWord' = EvaluateSite(short, released', pcs')

Tick ==
  /\ Release
  /\ \E target \in Targets, heat \in [Racks -> RackLevels],
        short \in MissLevels, out \in [Blocks -> Outcomes] :
       Control(target, heat, short, out)
  /\ \E batch \in {TickBatch} : heard' = HearAll(batch)
  /\ pending' = << >>
  /\ UNCHANGED <<breaker, emsMode, external, mode, hvacFailed, inService>>

-----------------------------------------------------------------------------
(* The between-ticks door.  A node the site does not have is refused       *)
(* before anything changes, so the actions range over the tree's nodes.    *)

Door == Len(pending) < MaxPending /\ UNCHANGED heard

(* Mutant: the mark is pushed once the action is done.                     *)
ApplyMarksLast(action, node, effects) ==
  /\ action \in Faults
  /\ pending' = pending \o effects \o <<Applied(action, node)>>

(* Simulation::apply: the mark goes in ahead of what the action leaves.    *)
Apply(action, node, effects) ==
  /\ action \in Faults
  /\ pending' = pending \o <<Applied(action, node)>> \o effects

SetExternalSetpoint(p) ==
  /\ emsMode' = "External" /\ external' = p
  /\ UNCHANGED <<breaker, released, nextRelease, mode, pcs, missTimer, hvacFailed,
                 inService, siteWord, blockWord, rackWord, pending, heard>>

ClearExternalSetpoint ==
  /\ emsMode' = "FollowPlan" /\ external' = 0
  /\ UNCHANGED <<breaker, released, nextRelease, mode, pcs, missTimer, hvacFailed,
                 inService, siteWord, blockWord, rackWord, pending, heard>>

ApplyHvac(c, failed) ==
  /\ Door
  /\ hvacFailed' = [hvacFailed EXCEPT ![c] = failed]
  /\ Apply(IF failed THEN "failure" ELSE "repair", c, << >>)
  /\ UNCHANGED <<breaker, emsMode, external, released, nextRelease, mode, pcs,
                 missTimer, inService, siteWord, blockWord, rackWord>>

ApplyRack(r, on) ==
  /\ Door
  /\ inService' = [inService EXCEPT ![r] = on]
  /\ Apply(IF on THEN "restore" ELSE "isolate", r, << >>)
  /\ UNCHANGED <<breaker, emsMode, external, released, nextRelease, mode, pcs,
                 missTimer, hvacFailed, siteWord, blockWord, rackWord>>

ApplyMode(b, m) ==
  /\ Door
  /\ mode' = [mode EXCEPT ![b] = m]
  /\ Apply(IF m = "Maintenance" THEN "maintenance_enter" ELSE "maintenance_exit",
           <<b>>, << >>)
  /\ UNCHANGED <<breaker, emsMode, external, released, nextRelease, pcs,
                 missTimer, hvacFailed, inService, siteWord, blockWord, rackWord>>

ApplyPcsTrip(b) ==
  /\ Door
  /\ pcs' = [pcs EXCEPT ![b] = "Fault"]
  /\ Apply("trip", <<b>>, PushPcs(b, pcs[b], "Fault"))
  /\ UNCHANGED <<breaker, emsMode, external, released, nextRelease, mode,
                 missTimer, hvacFailed, inService, siteWord, blockWord, rackWord>>

(* trip_protection refuses a site whose trip is latched; apply still marks *)
(* the attempt.                                                            *)
TripRefused == "PROTECTION_TRIP" \in siteWord
ApplyProtectionTrip ==
  /\ Door
  /\ IF TripRefused
     THEN /\ Apply("protection_trip", Site, << >>)
          /\ UNCHANGED <<breaker, released, nextRelease, pcs, siteWord>>
     ELSE /\ siteWord' = siteWord \cup {"PROTECTION_TRIP"}
          /\ breaker' = "Open"
          /\ StartOver
          /\ pcs' = [b \in Blocks |-> "Fault"]
          /\ Apply("protection_trip", Site,
               <<Raised(Site, "PROTECTION_TRIP")>>
                 \o OverBlocks(LAMBDA b : PushPcs(b, pcs[b], "Fault")))
  /\ UNCHANGED <<emsMode, external, mode, missTimer, hvacFailed, inService,
                 blockWord, rackWord>>

(* A rack's self-discharge rate is read by its balancing alone; the door   *)
(* leaves the mark.                                                        *)
ApplySelfDischarge(r) ==
  /\ Door
  /\ Apply("self_discharge", r, << >>)
  /\ UNCHANGED tree

-----------------------------------------------------------------------------
(* The operator reset (Simulation::reset_alarms) over a scope: the site, a *)
(* block or a rack.                                                        *)

Covers(scope, n) == IsPrefix(scope, n)

AfterReset(scope, n, word) == IF Covers(scope, n) THEN word \ TripBits ELSE word
PcsAfterReset(scope, b) ==
  IF Covers(scope, <<b>>) /\ pcs[b] = "Fault" THEN "Standby" ELSE pcs[b]

(* What a reset leaves in the mailbox, in the order it works through the   *)
(* tree.                                                                   *)
ResetChange(scope, n, word) == PushChanges(n, word, AfterReset(scope, n, word))
ResetEvents(scope) ==
  OverBlocks(LAMBDA b :
    PushPcs(b, pcs[b], PcsAfterReset(scope, b))
      \o ResetChange(scope, <<b>>, blockWord[b])
      \o OverRacks(b, LAMBDA r : ResetChange(scope, r, rackWord[r])))
    \o ResetChange(scope, Site, siteWord)

(* Mutants: any scope closes; a site reset always starts the return over.  *)
RecloseAnyScope(scope) == breaker = "Open"
RecloseAlways(scope) == scope = Site

(* A reset closes the breaker only when it covers the site and the breaker *)
(* is open; then the return starts over.                                   *)
Recloses(scope) == scope = Site /\ breaker = "Open"

Reset(scope) ==
  /\ Door
  /\ pcs' = [b \in Blocks |-> PcsAfterReset(scope, b)]
  /\ blockWord' = [b \in Blocks |-> AfterReset(scope, <<b>>, blockWord[b])]
  /\ rackWord' = [r \in Racks |-> AfterReset(scope, r, rackWord[r])]
  /\ siteWord' = AfterReset(scope, Site, siteWord)
  /\ IF Recloses(scope) THEN breaker' = "Closed" /\ StartOver
     ELSE UNCHANGED <<breaker, released, nextRelease>>
  /\ UNCHANGED <<emsMode, external, mode, missTimer, hvacFailed, inService>>

(* The HMI button, and the same reset as a scenario action.                *)
HmiReset(scope) == Reset(scope) /\ pending' = pending \o ResetEvents(scope)
ApplyReset(scope) ==
  Reset(scope) /\ Apply("alarm_reset", scope, ResetEvents(scope))

(* The Boolean apply returns for a reset.                                  *)
ResetReply(scope) == ResetEvents(scope) # << >>

-----------------------------------------------------------------------------
Next ==
  \/ Tick
  \/ \E p \in Setpoints : SetExternalSetpoint(p)
  \/ ClearExternalSetpoint
  \/ \E c \in Containers, failed \in BOOLEAN : ApplyHvac(c, failed)
  \/ \E r \in Racks, on \in BOOLEAN : ApplyRack(r, on)
  \/ \E b \in Blocks, m \in BlockMode : ApplyMode(b, m)
  \/ \E b \in Blocks : ApplyPcsTrip(b)
  \/ ApplyProtectionTrip
  \/ \E r \in Racks : ApplySelfDischarge(r)
  \/ \E scope \in Nodes : HmiReset(scope)
  \/ \E scope \in Nodes : ApplyReset(scope)

Spec == Init /\ [][Next]_vars

(* The clock keeps ticking; nothing obliges an operator to act.            *)
FairSpec == Spec /\ WF_vars(Tick)
=============================================================================
