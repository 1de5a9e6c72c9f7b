------------------------------ MODULE AlarmView ------------------------------
(* The alarms as the 3D viewer shows them (bess-scene/src/alarms.rs and its *)
(* modules, instances/status.rs, panels/detail.rs): the list of what is     *)
(* active, the lamps in the scene, the reset buttons, the filters of the    *)
(* panel. All of it is read off the kernel's tree, frame by frame.          *)
EXTENDS Plant

(* Tone, quietest first.                                                    *)
Tones == <<"OutOfService", "Warning", "Trip">>
Rank(tone) == CHOOSE i \in DOMAIN Tones : Tones[i] = tone

Severity(bit) == IF bit \in TripBits THEN "Trip" ELSE "Warning"

(* A bit by its severity, but for equipment out of service on purpose and   *)
(* the open breaker, which takes the site off the grid.                     *)
ToneOf(n, bit) ==
  IF bit \in {"ISOLATED", "MAINTENANCE"} THEN "OutOfService"
  ELSE IF n = Site /\ bit = "HV_BREAKER_OPEN" THEN "Trip" ELSE Severity(bit)

(* The loudest of some tones, 0 for none.                                   *)
Loudest(tones) == Max({0} \cup {Rank(t) : t \in tones})

Worst(n, word) == Loudest({ToneOf(n, bit) : bit \in word})

Alarm(n, bit) == [node |-> n, bit |-> bit]

(* A row of the list, when it belongs there.                                *)
Row(alarm, listed) == IF listed THEN <<alarm>> ELSE << >>

PushWord(n, word) ==
  FlattenSeq([i \in 1..Len(Layout(n)) |->
                Row(Alarm(n, Layout(n)[i]), Layout(n)[i] \in word)])

(* The set bits as the tree is walked, and those of one severity.           *)
BlockRows(b) ==
  PushWord(<<b>>, blockWord[b]) \o OverRacks(b, LAMBDA r : PushWord(r, rackWord[r]))
Walk == PushWord(Site, siteWord) \o OverBlocks(BlockRows)
OfSeverity(severity, rows) ==
  FlattenSeq([i \in DOMAIN rows |-> Row(rows[i], Severity(rows[i].bit) = severity)])

(* Every set bit, trips first, then as the tree is walked.                  *)
Active == OfSeverity("Trip", Walk) \o OfSeverity("Warning", Walk)

(* Mutant: a block's button looks at the block word alone.                  *)
LatchedInOwnWord(scope) ==
  LET word == IF scope = Site THEN siteWord
              ELSE IF Len(scope) = 1 THEN blockWord[scope[1]] ELSE rackWord[scope]
  IN word \cap TripBits # {}

(* Whether the reset button of a scope is enabled.                          *)
Latched(scope) ==
  \/ scope = Site /\ siteWord \cap TripBits # {}
  \/ \E b \in Blocks : IsPrefix(scope, <<b>>) /\ blockWord[b] \cap TripBits # {}
  \/ \E r \in Racks : IsPrefix(scope, r) /\ rackWord[r] \cap TripBits # {}

(* The scene object that holds a node, and that an event happened on.       *)
ObjectOf(n) ==
  IF n = Site THEN <<"transformer">>
  ELSE IF Len(n) = 1 THEN <<"pcs", n[1]>> ELSE <<"container", n[1], n[2]>>

ObjectOfEvent(e) ==
  IF e.kind = "pcs" THEN <<"pcs", e.block>> ELSE ObjectOf(e.node)

(* The lamp an object carries: the loudest tone of what it stands for.      *)
Lamp(object) ==
  IF object = <<"transformer">> THEN Worst(Site, siteWord)
  ELSE IF object[1] = "pcs" THEN Worst(<<object[2]>>, blockWord[object[2]])
  ELSE Max({0} \cup {Worst(r, rackWord[r]) :
                       r \in {r \in Racks : SubSeq(r, 1, 2) = <<object[2], object[3]>>}})

Objects == {ObjectOf(n) : n \in Nodes}

(* Filter: severities, one block or None, and whether transitions and       *)
(* faults are hidden.                                                       *)
AllBlocks == -1
BlockOf(n) == IF n = Site THEN AllBlocks ELSE n[1]

AdmitsBlock(f, block) == f.block = AllBlocks \/ f.block = block
AdmitsSeverity(f, bit) == IF Severity(bit) = "Trip" THEN f.trips ELSE f.warnings
AdmitsAlarm(f, a) == AdmitsSeverity(f, a.bit) /\ AdmitsBlock(f, BlockOf(a.node))
AdmitsEvent(f, e) ==
  /\ IF e.kind \in {"raised", "cleared"} THEN AdmitsSeverity(f, e.bit) ELSE ~f.alarmsOnly
  /\ AdmitsBlock(f, IF e.kind = "pcs" THEN e.block ELSE BlockOf(e.node))

Filters == [trips : BOOLEAN, warnings : BOOLEAN, alarmsOnly : BOOLEAN,
            block : {AllBlocks} \cup Blocks]

Shown(f) == SelectSeq(Active, LAMBDA a : AdmitsAlarm(f, a))
--------------------------------------------------------------------------------
(* What a person may conclude from the view between two ticks. A reset      *)
(* button is enabled exactly when the reset would do something, though the  *)
(* button reads alarm bits and the reset also looks at converters and at    *)
(* the breaker (alarms.rs:134, kernel/alarms.rs:151).                       *)
ButtonsTellTruth == \A scope \in Nodes : Latched(scope) <=> ResetReply(scope)

(* An object's lamp is as loud as the loudest row that links to it, and     *)
(* dark when there is none. It is red exactly while some word it stands for *)
(* has a latched bit: the open breaker, which is drawn red without being    *)
(* one, never stays behind a reset (alarms.rs:51).                          *)
LampsMatchList ==
  \A o \in Objects :
    LET rows == {a \in ToSet(Active) : ObjectOf(a.node) = o}
    IN /\ Lamp(o) = Loudest({ToneOf(a.node, a.bit) : a \in rows})
       /\ Lamp(o) = Rank("Trip") <=> \E a \in rows : a.bit \in TripBits

(* The alarm view, once the events of the last door call are out.           *)
ViewTellsTruth == pending = << >> => ButtonsTellTruth /\ LampsMatchList
================================================================================
