----------------------------- MODULE PlantProofs -----------------------------
(***************************************************************************)
(* The kernel's control loop, proved for every shape of the plant, every   *)
(* spacing and deadband and every choice the physics may make.  What the   *)
(* mailbox and the reader hold plays no part in these results, so the      *)
(* definitions that build them are never expanded.                         *)
(***************************************************************************)
EXTENDS PlantProperties, TLAPS

(* The countdown of the return, between one release and the next.          *)
Countdown ==
  /\ released \in {0, NBlocks} => nextRelease = 0
  /\ 0 < released /\ released < NBlocks => nextRelease \in 0..(Spacing - 1)

(* The inductive invariant.  The return implements its timetable only with *)
(* all of it: a trip, refused on the latch, finds a closed breaker, and a  *)
(* breaker that closes finds the return at its start.                      *)
IInv == ControlTypeOK /\ TripLatch /\ OpenMeansStopped /\ Countdown

-----------------------------------------------------------------------------
(* The site's word has the two bits the proofs turn on.                    *)
LEMMA SiteBits ==
  /\ "PROTECTION_TRIP" \in ToSet(SiteLayout)
  /\ "PROTECTION_TRIP" \in TripBits
<1>1. SiteLayout[4] = "PROTECTION_TRIP" /\ 4 \in DOMAIN SiteLayout
  BY DEF SiteLayout
<1>2. QED BY <1>1 DEF ToSet, TripBits

(* Only the scope of the whole site covers the site.                       *)
LEMMA SiteScope == \A scope \in Nodes : Covers(scope, Site) <=> scope = Site
<1>1. Covers(Site, Site)
  BY DEF Covers, IsPrefix, Site
<1>2. ASSUME NEW b \in Blocks PROVE ~Covers(<<b>>, Site) /\ <<b>> # Site
  BY DEF Covers, IsPrefix, Site
<1>3. ASSUME NEW r \in Racks PROVE ~Covers(r, Site) /\ r # Site
  <2>1. PICK b \in Blocks, c \in 0..(NContainers - 1), k \in 0..(NRacks - 1) :
          r = <<b, c, k>>
    BY DEF Racks
  <2>2. Len(<<b, c, k>>) = 3 /\ Len(Site) = 0
    BY DEF Site
  <2>3. QED BY <2>1, <2>2 DEF Covers, IsPrefix
<1>4. QED BY <1>1, <1>2, <1>3 DEF Nodes

(* The site word never loses or gains its trip in a tick's evaluation.     *)
LEMMA TripSurvivesEvaluation ==
  ASSUME NEW short, NEW rel, NEW states
  PROVE  /\ EvaluateSite(short, rel, states) \subseteq ToSet(SiteLayout)
         /\ "PROTECTION_TRIP" \in EvaluateSite(short, rel, states)
              <=> "PROTECTION_TRIP" \in siteWord
BY SiteBits DEF EvaluateSite, WithBit, SiteLayout, ToSet

(* Arithmetic of the timetable: counting k spacings is comparing counts.   *)
LEMMA SpacingsCompare ==
  ASSUME NEW k \in Nat, NEW r \in Nat, NEW s \in Nat \ {0}, NEW n \in 0..(s - 1)
  PROVE  k * s < r * s - n <=> k < r
<1>1. CASE k < r
  <2>1. PICK d \in Nat : r = k + 1 + d
    <3>1. r - k - 1 \in Nat /\ r = k + 1 + (r - k - 1) BY <1>1
    <3>2. QED BY <3>1
  <2>2. r * s = k * s + s + d * s /\ d * s >= 0 BY <2>1
  <2>3. k * s \in Int /\ d * s \in Int /\ r * s \in Int OBVIOUS
  <2>4. QED BY <1>1, <2>2, <2>3
<1>2. CASE k >= r
  <2>1. PICK d \in Nat : k = r + d
    <3>1. k - r \in Nat /\ k = r + (k - r) BY <1>2
    <3>2. QED BY <3>1
  <2>2. k * s = r * s + d * s /\ d * s >= 0 BY <2>1
  <2>3. k * s \in Int /\ d * s \in Int /\ r * s \in Int OBVIOUS
  <2>4. QED BY <1>2, <2>2, <2>3
<1>3. QED BY <1>1, <1>2

-----------------------------------------------------------------------------
(* The return's own step: it keeps the countdown, and behind an open       *)
(* breaker does nothing.                                                   *)
LEMMA ReleaseKeepsCountdown ==
  ASSUME IInv, Release
  PROVE  /\ released' \in 0..NBlocks /\ nextRelease' \in 0..Spacing
         /\ Countdown'
         /\ breaker = "Open" => UNCHANGED <<released, nextRelease>>
<1> USE PlantAssumption DEF IInv, ControlTypeOK, Countdown, OpenMeansStopped
<1>1. CASE breaker = "Closed" /\ released < NBlocks /\ nextRelease <= 0
  BY <1>1 DEF Release
<1>2. CASE breaker = "Closed" /\ released < NBlocks /\ ~(nextRelease <= 0)
  BY <1>2 DEF Release
<1>3. CASE ~(breaker = "Closed" /\ released < NBlocks)
  BY <1>3 DEF Release
<1>4. QED BY <1>1, <1>2, <1>3

(* A reset takes bits out of words and PCSs out of fault, and puts nothing *)
(* else in.                                                                *)
LEMMA ResetKeepsTypes ==
  ASSUME ControlTypeOK, NEW scope \in Nodes, Reset(scope)
  PROVE  /\ pcs' \in [Blocks -> PcsOpState]
         /\ \A b \in Blocks : pcs'[b] = "Run" => pcs[b] = "Run"
         /\ siteWord' \subseteq ToSet(SiteLayout)
         /\ blockWord' \in [Blocks -> SUBSET ToSet(BlockLayout)]
         /\ rackWord' \in [Racks -> SUBSET ToSet(RackLayout)]
<1>1. \A b \in Blocks : /\ PcsAfterReset(scope, b) \in PcsOpState
                        /\ PcsAfterReset(scope, b) = "Run" => pcs[b] = "Run"
  BY DEF ControlTypeOK, PcsAfterReset, PcsOpState
<1>2. \A n, word : AfterReset(scope, n, word) \subseteq word
  BY DEF AfterReset
<1>3. \A b \in Blocks : AfterReset(scope, <<b>>, blockWord[b]) \subseteq ToSet(BlockLayout)
  BY <1>2 DEF ControlTypeOK
<1>4. \A r \in Racks : AfterReset(scope, r, rackWord[r]) \subseteq ToSet(RackLayout)
  BY <1>2 DEF ControlTypeOK
<1>5. AfterReset(scope, Site, siteWord) \subseteq ToSet(SiteLayout)
  BY <1>2 DEF ControlTypeOK
<1>6. QED BY <1>1, <1>3, <1>4, <1>5 DEF Reset

LEMMA InitIInv == Init => IInv
<1> SUFFICES ASSUME Init PROVE IInv OBVIOUS
<1> USE PlantAssumption DEF Init
<1>1. ControlTypeOK
  BY DEF ControlTypeOK, BlockMode, PcsOpState
<1>2. TripLatch /\ OpenMeansStopped
  BY DEF TripLatch, OpenMeansStopped
<1>3. Countdown
  BY DEF Countdown
<1>4. QED BY <1>1, <1>2, <1>3 DEF IInv

(* The tick: the words it evaluates are words, no converter runs behind an *)
(* open breaker, and the latch is left where it was.                       *)
LEMMA TickKeepsIInv == ASSUME IInv, Tick PROVE IInv'
<1>1. PICK target \in Targets, heat \in [Racks -> RackLevels], short \in MissLevels,
           out \in [Blocks -> Outcomes] : Control(target, heat, short, out)
  BY DEF Tick
<1>2. Release /\ UNCHANGED <<breaker, emsMode, external, mode, hvacFailed, inService>>
  BY DEF Tick
<1>3. /\ released' \in 0..NBlocks /\ nextRelease' \in 0..Spacing
      /\ Countdown'
      /\ breaker = "Open" => UNCHANGED <<released, nextRelease>>
  BY <1>2, ReleaseKeepsCountdown
<1>4. ControlTypeOK'
  <2>1. pcs' \in [Blocks -> PcsOpState]
    BY <1>1 DEF Control, Finalize, PcsOpState
  <2>2. missTimer' \in [Blocks -> 0..Deadband]
    BY <1>1, PlantAssumption DEF Control, IInv, ControlTypeOK, MissTimer
  <2>3. siteWord' \subseteq ToSet(SiteLayout)
    BY <1>1, TripSurvivesEvaluation DEF Control
  <2>4. blockWord' \in [Blocks -> SUBSET ToSet(BlockLayout)]
    <3>1. \A b, o, state : EvaluateBlock(b, o, state) \subseteq ToSet(BlockLayout)
      BY DEF EvaluateBlock, WithBit, BlockLayout, ToSet
    <3>2. QED BY <1>1, <3>1 DEF Control
  <2>5. rackWord' \in [Racks -> SUBSET ToSet(RackLayout)]
    <3>1. \A r, level : EvaluateRack(r, level) \subseteq ToSet(RackLayout)
      BY DEF EvaluateRack, WithBit, RackLayout, ToSet
    <3>2. QED BY <1>1, <3>1 DEF Control
  <2>6. QED BY <1>2, <1>3, <2>1, <2>2, <2>3, <2>4, <2>5 DEF IInv, ControlTypeOK
<1>5. TripLatch'
  BY <1>1, <1>2, TripSurvivesEvaluation DEF Control, IInv, TripLatch
<1>6. OpenMeansStopped'
  <2> SUFFICES ASSUME breaker = "Open"
               PROVE  released' = 0 /\ nextRelease' = 0
                      /\ \A b \in Blocks : pcs'[b] # "Run"
    BY <1>2 DEF OpenMeansStopped
  <2>1. released' = 0 /\ nextRelease' = 0
    BY <1>3 DEF IInv, OpenMeansStopped
  <2>2. target = 0
    BY DEF Targets
  <2>3. \A b \in Blocks : ~out[b].run
    BY <1>1, <2>2 DEF Control, Possible
  <2>4. \A b \in Blocks : pcs'[b] # "Run"
    BY <1>1, <2>3 DEF Control, Finalize
  <2>5. QED BY <2>1, <2>4
<1>7. QED BY <1>3, <1>4, <1>5, <1>6 DEF IInv

(* A reset: the latch goes out exactly when the breaker closes.            *)
LEMMA ResetKeepsIInv ==
  ASSUME IInv, NEW scope \in Nodes, Reset(scope) PROVE IInv'
<1>1. /\ UNCHANGED <<emsMode, external, mode, missTimer, hvacFailed, inService>>
      /\ siteWord' = AfterReset(scope, Site, siteWord)
      /\ IF Recloses(scope) THEN breaker' = "Closed" /\ StartOver
         ELSE UNCHANGED <<breaker, released, nextRelease>>
  BY DEF Reset
<1>2. ControlTypeOK /\ ControlTypeOK'
  <2>1. released' \in 0..NBlocks /\ nextRelease' \in 0..Spacing /\ breaker' \in {"Open", "Closed"}
    BY <1>1, PlantAssumption DEF IInv, ControlTypeOK, StartOver
  <2>2. QED BY <1>1, <2>1, ResetKeepsTypes DEF IInv, ControlTypeOK
<1>3. TripLatch'
  <2>1. CASE scope = Site
    <3>1. "PROTECTION_TRIP" \notin siteWord'
      BY <1>1, <2>1, SiteScope, SiteBits DEF AfterReset
    <3>2. breaker' = "Closed"
      BY <1>1, <1>2, <2>1 DEF Recloses, ControlTypeOK
    <3>3. QED BY <3>1, <3>2 DEF TripLatch
  <2>2. CASE scope # Site
    BY <1>1, <2>2, SiteScope DEF AfterReset, Recloses, TripLatch, IInv
  <2>3. QED BY <2>1, <2>2
<1>4. OpenMeansStopped'
  BY <1>1, <1>2, ResetKeepsTypes DEF OpenMeansStopped, IInv, Recloses
<1>5. Countdown'
  BY <1>1, PlantAssumption DEF Countdown, StartOver, IInv
<1>6. QED BY <1>2, <1>3, <1>4, <1>5 DEF IInv

(* A protection trip latches and opens in one step, or does neither.       *)
LEMMA ProtectionTripKeepsIInv ==
  ASSUME IInv, ApplyProtectionTrip PROVE IInv'
<1>1. UNCHANGED <<emsMode, external, mode, missTimer, hvacFailed, inService,
                  blockWord, rackWord>>
  BY DEF ApplyProtectionTrip
<1>2. CASE TripRefused
  <2>1. UNCHANGED <<breaker, released, nextRelease, pcs, siteWord>>
    BY <1>2 DEF ApplyProtectionTrip
  <2>2. QED BY <1>1, <2>1 DEF IInv, ControlTypeOK, TripLatch, OpenMeansStopped, Countdown
<1>3. CASE ~TripRefused
  <2>1. /\ siteWord' = siteWord \cup {"PROTECTION_TRIP"}
        /\ breaker' = "Open"
        /\ released' = 0 /\ nextRelease' = 0
        /\ pcs' = [b \in Blocks |-> "Fault"]
    BY <1>3 DEF ApplyProtectionTrip, StartOver
  <2>2. ControlTypeOK'
    BY <1>1, <2>1, SiteBits, PlantAssumption DEF IInv, ControlTypeOK, PcsOpState
  <2>3. TripLatch' /\ OpenMeansStopped' /\ Countdown'
    BY <2>1, PlantAssumption DEF TripLatch, OpenMeansStopped, Countdown
  <2>4. QED BY <2>2, <2>3 DEF IInv
<1>4. QED BY <1>2, <1>3

(* A PCS trip takes a converter to fault, which an open breaker allows.    *)
LEMMA PcsTripKeepsIInv ==
  ASSUME IInv, NEW b \in Blocks, ApplyPcsTrip(b) PROVE IInv'
<1>1. /\ pcs' = [pcs EXCEPT ![b] = "Fault"]
      /\ UNCHANGED <<breaker, emsMode, external, released, nextRelease, mode,
                     missTimer, hvacFailed, inService, siteWord, blockWord, rackWord>>
  BY DEF ApplyPcsTrip
<1>2. pcs' \in [Blocks -> PcsOpState] /\ \A k \in Blocks : pcs'[k] = "Run" => pcs[k] = "Run"
  BY <1>1 DEF IInv, ControlTypeOK, PcsOpState
<1>3. QED BY <1>1, <1>2 DEF IInv, ControlTypeOK, TripLatch, OpenMeansStopped, Countdown

(* The steps that leave the breaker, the words and the converters alone.   *)
LEMMA SettingKeepsIInv ==
  ASSUME IInv, ControlTypeOK',
         UNCHANGED <<breaker, released, nextRelease, pcs, siteWord>>
  PROVE  IInv'
BY DEF IInv, TripLatch, OpenMeansStopped, Countdown

LEMMA NextKeepsIInv == IInv /\ [Next]_vars => IInv'
<1> SUFFICES ASSUME IInv, [Next]_vars PROVE IInv' OBVIOUS
<1>1. CASE Tick
  BY <1>1, TickKeepsIInv
<1>2. ASSUME NEW p \in Setpoints, SetExternalSetpoint(p) PROVE IInv'
  <2>1. ControlTypeOK'
    BY <1>2 DEF SetExternalSetpoint, IInv, ControlTypeOK
  <2>2. QED BY <1>2, <2>1, SettingKeepsIInv DEF SetExternalSetpoint
<1>3. CASE ClearExternalSetpoint
  <2>1. ControlTypeOK'
    BY <1>3, PlantAssumption DEF ClearExternalSetpoint, IInv, ControlTypeOK
  <2>2. QED BY <1>3, <2>1, SettingKeepsIInv DEF ClearExternalSetpoint
<1>4. ASSUME NEW c \in Containers, NEW failed \in BOOLEAN, ApplyHvac(c, failed) PROVE IInv'
  <2>1. hvacFailed' \in [Containers -> BOOLEAN]
    BY <1>4 DEF ApplyHvac, IInv, ControlTypeOK
  <2>2. ControlTypeOK'
    BY <1>4, <2>1 DEF ApplyHvac, IInv, ControlTypeOK
  <2>3. QED BY <1>4, <2>2, SettingKeepsIInv DEF ApplyHvac
<1>5. ASSUME NEW r \in Racks, NEW on \in BOOLEAN, ApplyRack(r, on) PROVE IInv'
  <2>1. inService' \in [Racks -> BOOLEAN]
    BY <1>5 DEF ApplyRack, IInv, ControlTypeOK
  <2>2. ControlTypeOK'
    BY <1>5, <2>1 DEF ApplyRack, IInv, ControlTypeOK
  <2>3. QED BY <1>5, <2>2, SettingKeepsIInv DEF ApplyRack
<1>6. ASSUME NEW b \in Blocks, NEW m \in BlockMode, ApplyMode(b, m) PROVE IInv'
  <2>1. mode' \in [Blocks -> BlockMode]
    BY <1>6 DEF ApplyMode, IInv, ControlTypeOK
  <2>2. ControlTypeOK'
    BY <1>6, <2>1 DEF ApplyMode, IInv, ControlTypeOK
  <2>3. QED BY <1>6, <2>2, SettingKeepsIInv DEF ApplyMode
<1>7. ASSUME NEW b \in Blocks, ApplyPcsTrip(b) PROVE IInv'
  BY <1>7, PcsTripKeepsIInv
<1>8. CASE ApplyProtectionTrip
  BY <1>8, ProtectionTripKeepsIInv
<1>9. ASSUME NEW r \in Racks, ApplySelfDischarge(r) PROVE IInv'
  <2>1. ControlTypeOK'
    BY <1>9 DEF ApplySelfDischarge, tree, IInv, ControlTypeOK
  <2>2. QED BY <1>9, <2>1, SettingKeepsIInv DEF ApplySelfDischarge, tree
<1>10. ASSUME NEW scope \in Nodes, HmiReset(scope) \/ ApplyReset(scope) PROVE IInv'
  BY <1>10, ResetKeepsIInv DEF HmiReset, ApplyReset
<1>11. CASE UNCHANGED vars
  <2>1. ControlTypeOK'
    BY <1>11 DEF vars, tree, IInv, ControlTypeOK
  <2>2. QED BY <1>11, <2>1, SettingKeepsIInv DEF vars, tree
<1>12. QED
  BY <1>1, <1>2, <1>3, <1>4, <1>5, <1>6, <1>7, <1>8, <1>9, <1>10, <1>11 DEF Next

LEMMA Inductive == Spec => []IInv
BY InitIInv, NextKeepsIInv, PTL DEF Spec

(* The control state stays well typed: the countdown never leaves its      *)
(* spacing, the released count never leaves the site.                      *)
THEOREM TypeCorrect == Spec => []ControlTypeOK
<1>1. IInv => ControlTypeOK BY DEF IInv
<1>2. QED BY <1>1, Inductive, PTL

(* The latched trip and the open breaker always go together.               *)
THEOREM LatchMatchesBreaker == Spec => []TripLatch
<1>1. IInv => TripLatch BY DEF IInv
<1>2. QED BY <1>1, Inductive, PTL

(* Behind an open breaker nothing runs and nothing is released.            *)
THEOREM TrippedSiteIsStopped == Spec => []OpenMeansStopped
<1>1. IInv => OpenMeansStopped BY DEF IInv
<1>2. QED BY <1>1, Inductive, PTL

-----------------------------------------------------------------------------
(* The return implements the timetable.                                    *)
Age == IF released = NBlocks THEN (NBlocks - 1) * Spacing + 1
       ELSE released * Spacing - nextRelease

(* Counting down and counting up agree: the age of a return tells which    *)
(* blocks are due exactly as the count of released blocks does.            *)
LEMMA DueIsReleased ==
  ASSUME NEW r \in 1..NBlocks, NEW n \in 0..(Spacing - 1),
         r = NBlocks => n = Spacing - 1
  PROVE  Promise!Due(r * Spacing - n) = {b \in Blocks : b < r}
<1>1. \A k \in 0..(NBlocks - 1) : k * Spacing < r * Spacing - n <=> k < r
  BY SpacingsCompare, PlantAssumption
<1>2. QED BY <1>1 DEF Promise!Due, Blocks

(* The last block's release in the timetable's terms.                      *)
LEMMA LastAgeIs == NBlocks * Spacing - (Spacing - 1) = (NBlocks - 1) * Spacing + 1
BY PlantAssumption

LEMMA ReleaseAdvances ==
  ASSUME IInv, Release, UNCHANGED breaker, breaker = "Closed", released < NBlocks
  PROVE  Promise!Advance
<1> USE PlantAssumption
<1>1. /\ released \in 0..(NBlocks - 1) /\ nextRelease \in 0..(Spacing - 1)
      /\ released * Spacing \in Int /\ released' * Spacing \in Int
      /\ Age = released * Spacing - nextRelease
  <2>1. released \in 0..(NBlocks - 1) /\ nextRelease \in 0..(Spacing - 1)
    BY DEF IInv, ControlTypeOK, Countdown
  <2>2. released' \in Int
    BY <2>1 DEF Release
  <2>3. QED BY <2>1, <2>2 DEF Age
<1>2. PICK left \in 0..(Spacing - 1) :
        /\ released' \in 1..NBlocks
        /\ Age' = released' * Spacing - left
        /\ released' = NBlocks => left = Spacing - 1
        /\ Age' = Age + 1
  <2>1. CASE nextRelease <= 0
    <3>1. released' = released + 1 /\ nextRelease = 0
      BY <1>1, <2>1 DEF Release
    <3>2. Age' = released' * Spacing - (Spacing - 1)
      <4>1. CASE released' = NBlocks
        BY <4>1, LastAgeIs DEF Age
      <4>2. CASE released' # NBlocks
        <5>1. nextRelease' = Spacing - 1
          BY <1>1, <2>1, <3>1, <4>2 DEF Release
        <5>2. QED BY <4>2, <5>1 DEF Age
      <4>3. QED BY <4>1, <4>2
    <3>3. (released + 1) * Spacing = released * Spacing + Spacing
      BY <1>1
    <3>4. Age' = Age + 1
      BY <1>1, <3>1, <3>2, <3>3
    <3>5. Spacing - 1 \in 0..(Spacing - 1) /\ released' \in 1..NBlocks
      BY <1>1, <3>1
    <3>6. QED BY <3>2, <3>4, <3>5
  <2>2. CASE ~(nextRelease <= 0)
    <3>1. released' = released /\ nextRelease' = nextRelease - 1
      BY <1>1, <2>2 DEF Release
    <3>2. released > 0
      BY <1>1, <2>2 DEF IInv, Countdown
    <3>3. Age' = released' * Spacing - nextRelease'
      BY <1>1, <3>1 DEF Age
    <3>4. nextRelease' \in 0..(Spacing - 1) /\ released' \in 1..NBlocks /\ released' # NBlocks
      BY <1>1, <2>2, <3>1, <3>2
    <3>5. Age' = Age + 1
      BY <1>1, <3>1, <3>3
    <3>6. QED BY <3>3, <3>4, <3>5
  <2>3. QED BY <2>1, <2>2
<1>3. Age < Promise!LastAge
  <2>1. PICK d \in Nat : NBlocks - 1 = released + d
    <3>1. /\ NBlocks - 1 - released \in Nat
          /\ NBlocks - 1 = released + (NBlocks - 1 - released)
      BY <1>1
    <3>2. QED BY <3>1
  <2>2. (NBlocks - 1) * Spacing = released * Spacing + d * Spacing /\ d * Spacing >= 0
    BY <1>1, <2>1
  <2>3. d * Spacing \in Int /\ (NBlocks - 1) * Spacing \in Int
    OBVIOUS
  <2>4. QED BY <1>1, <2>2, <2>3 DEF Promise!LastAge
<1>4. {b \in Blocks : b < released'} = Promise!Due(Age')
  BY <1>2, DueIsReleased
<1>5. QED
  BY <1>2, <1>3, <1>4 DEF Promise!Advance, Age, Blocks

(* Steps that touch neither breaker nor return say nothing to a timetable. *)
LEMMA OtherStepsAreSilent ==
  ASSUME UNCHANGED <<breaker, released, nextRelease>> PROVE UNCHANGED Promise!vars
BY DEF Promise!vars, Blocks

LEMMA StepKeepsTimetable ==
  ASSUME IInv, [Next]_vars PROVE [Promise!Next]_(Promise!vars)
<1>1. CASE Tick
  <2>1. Release /\ UNCHANGED breaker
    BY <1>1 DEF Tick
  <2>2. CASE breaker = "Closed" /\ released < NBlocks
    BY <2>1, <2>2, ReleaseAdvances DEF Promise!Next
  <2>3. CASE ~(breaker = "Closed" /\ released < NBlocks)
    BY <2>1, <2>3, OtherStepsAreSilent DEF Release
  <2>4. QED BY <2>2, <2>3
<1>2. CASE ApplyProtectionTrip
  <2>1. CASE TripRefused
    BY <1>2, <2>1, OtherStepsAreSilent DEF ApplyProtectionTrip
  <2>2. CASE ~TripRefused
    <3>1. breaker = "Closed"
      BY <2>2 DEF TripRefused, IInv, TripLatch, ControlTypeOK
    <3>2. breaker' = "Open" /\ released' = 0 /\ nextRelease' = 0
      BY <1>2, <2>2 DEF ApplyProtectionTrip, StartOver
    <3>3. Promise!Trip
      BY <3>1, <3>2, PlantAssumption DEF Promise!Trip, Blocks
    <3>4. QED BY <3>3 DEF Promise!Next
  <2>3. QED BY <2>1, <2>2
<1>3. ASSUME NEW scope \in Nodes, Reset(scope) PROVE [Promise!Next]_(Promise!vars)
  <2>1. CASE Recloses(scope)
    <3>1. breaker = "Open" /\ released = 0 /\ nextRelease = 0
      BY <2>1 DEF Recloses, IInv, OpenMeansStopped
    <3>2. breaker' = "Closed" /\ released' = 0 /\ nextRelease' = 0
      BY <1>3, <2>1 DEF Reset, StartOver
    <3>3. Promise!Close
      BY <3>1, <3>2 DEF Promise!Close, Blocks
    <3>4. QED BY <3>3 DEF Promise!Next
  <2>2. CASE ~Recloses(scope)
    BY <1>3, <2>2, OtherStepsAreSilent DEF Reset
  <2>3. QED BY <2>1, <2>2
<1>4. CASE UNCHANGED <<breaker, released, nextRelease>>
  BY <1>4, OtherStepsAreSilent
<1>5. Tick \/ ApplyProtectionTrip \/ (\E scope \in Nodes : Reset(scope))
        \/ UNCHANGED <<breaker, released, nextRelease>>
  BY DEF Next, SetExternalSetpoint, ClearExternalSetpoint, ApplyHvac, ApplyRack,
         ApplyMode, ApplyPcsTrip, ApplySelfDischarge, HmiReset, ApplyReset, vars, tree
<1>6. QED BY <1>1, <1>2, <1>3, <1>4, <1>5

LEMMA InitKeepsTimetable == Init => Promise!Init
<1> SUFFICES ASSUME Init PROVE Promise!Init OBVIOUS
<1>1. released = NBlocks /\ breaker = "Closed"
  BY DEF Init
<1>2. Age = Promise!LastAge
  BY <1>1 DEF Age, Promise!LastAge
<1>3. {b \in Blocks : b < NBlocks} = Promise!Due(NBlocks * Spacing - (Spacing - 1))
  <2>1. NBlocks \in 1..NBlocks /\ Spacing - 1 \in 0..(Spacing - 1)
    BY PlantAssumption
  <2>2. QED BY <2>1, DueIsReleased
<1>4. NBlocks * Spacing - (Spacing - 1) = Promise!LastAge
  BY LastAgeIs DEF Promise!LastAge
<1>5. QED BY <1>1, <1>2, <1>3, <1>4 DEF Promise!Init, Age

(* The staggered return keeps its timetable: whatever trips and resets     *)
(* come between, block k is released on the tick k spacings after the      *)
(* first one, and on no other.                                             *)
THEOREM ReturnKeepsTimetable == Spec => KeepsTimetable
<1>1. Spec => [][Promise!Next]_(Promise!vars)
  BY Inductive, StepKeepsTimetable, PTL DEF Spec
<1>2. QED BY <1>1, InitKeepsTimetable, PTL DEF Spec, KeepsTimetable, Promise!Spec
=============================================================================
