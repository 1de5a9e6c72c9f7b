-------------------------- MODULE PlantProperties --------------------------
(***************************************************************************)
(* What makes the kernel correct: invariants of the plant, what a step may *)
(* never do, and what must come about while the clock ticks.               *)
(***************************************************************************)
EXTENDS Plant

Events ==
  [kind : {"raised", "cleared"}, node : Nodes, bit : UNION {ToSet(Layout(n)) : n \in Nodes}]
    \cup [kind : {"pcs"}, block : Blocks, from : PcsOpState, to : PcsOpState]
    \cup [kind : {"applied"}, action : FaultNames, node : Nodes \cup Containers]

(* The state of the control loop.                                          *)
ControlTypeOK ==
  /\ breaker \in {"Open", "Closed"}
  /\ emsMode \in {"FollowPlan", "External"} /\ external \in Setpoints
  /\ released \in 0..NBlocks /\ nextRelease \in 0..Spacing
  /\ mode \in [Blocks -> BlockMode]
  /\ pcs \in [Blocks -> PcsOpState]
  /\ missTimer \in [Blocks -> 0..Deadband]
  /\ hvacFailed \in [Containers -> BOOLEAN]
  /\ inService \in [Racks -> BOOLEAN]
  /\ siteWord \subseteq ToSet(SiteLayout)
  /\ blockWord \in [Blocks -> SUBSET ToSet(BlockLayout)]
  /\ rackWord \in [Racks -> SUBSET ToSet(RackLayout)]

(* The type invariant: every variable holds a value of its Rust type.      *)
TypeOK ==
  /\ ControlTypeOK
  /\ \A i \in DOMAIN pending : pending[i] \in Events
  /\ heard.pcs \in [Blocks -> PcsOpState]
  /\ \A n \in Nodes : heard.word[n] \subseteq ToSet(Layout(n))

-----------------------------------------------------------------------------
(* The latched trip and the breaker say the same thing: the site word has  *)
(* PROTECTION_TRIP exactly while the HV breaker is open, whatever mix of   *)
(* trips and partial resets came through the door.  trip_protection reads  *)
(* only the latch and reset_alarms only the breaker, so a state where they *)
(* differ could never trip, or never reclose.                              *)
TripLatch == "PROTECTION_TRIP" \in siteWord <=> breaker = "Open"

(* Behind an open breaker nothing converts and nothing is cleared to run,  *)
(* even when a block reset took its PCS out of fault during the trip; so   *)
(* the return always starts from no block.                                 *)
OpenMeansStopped ==
  breaker = "Open" => /\ released = 0 /\ nextRelease = 0
                      /\ \A b \in Blocks : pcs[b] # "Run"

(* Allocation, availability and alarms agree at the end of every tick (no  *)
(* event waits): a PCS that runs belongs to a block that is dispatchable;  *)
(* a block out of the plant is not blamed for missing its setpoint; a site *)
(* that reports full availability has every block cleared.                 *)
SettledTree ==
  pending = << >> =>
    /\ \A b \in Blocks : pcs[b] = "Run" => Dispatchable(b, released, pcs)
    /\ \A b \in Blocks : "SETPOINT_NOT_MET" \in blockWord[b]
                           => Dispatchable(b, released, pcs)
    /\ released < NBlocks => "PARTIAL_AVAILABILITY" \in siteWord
    /\ \A b \in Blocks : pcs[b] = "Fault" <=> "PCS_FAULT" \in blockWord[b]
    /\ breaker = "Open" <=> "HV_BREAKER_OPEN" \in siteWord

(* The event stream is complete and honest: a reader who folds every batch *)
(* handed out, and would fold what still waits in the mailbox, knows every *)
(* alarm word and PCS state of the tree, and was never told to raise a bit *)
(* already raised, to clear one already clear, or of a transition from a   *)
(* state the PCS was not in.  The tree is written in five places and the   *)
(* stream beside each of them.                                             *)
JournalTellsAll ==
  LET told == HearAll(pending)
  IN  told.word = Words /\ told.pcs = pcs /\ told.honest

(* The log reads cause, then effect: a PCS falling to fault in the mailbox *)
(* stands after the mark of a trip, with nothing but effects in between.   *)
CauseFirst ==
  \A i \in DOMAIN pending :
    pending[i].kind = "pcs" /\ pending[i].to = "Fault" =>
      \E j \in 1..(i - 1) :
        /\ pending[j].kind = "applied"
        /\ pending[j].action \in {"trip", "protection_trip"}
        /\ \A k \in (j + 1)..i : pending[k].kind # "applied"

-----------------------------------------------------------------------------
(* What latched stays latched through every tick: a trip bit goes out of a *)
(* word, and a PCS out of fault, only in a step of the door that leaves    *)
(* word of it in the mailbox.                                              *)
LatchesOutliveTicks ==
  [][Len(pending') <= Len(pending) =>
       /\ \A n \in Nodes : Words[n] \cap TripBits \subseteq Words'[n]
       /\ \A b \in Blocks : pcs[b] = "Fault" => pcs'[b] = "Fault"]_vars

(* apply answers a reset with "the plant changed" exactly when it did. The *)
(* answer is computed from the events the reset left, the change is made   *)
(* to the tree: they agree because an open breaker always comes with a     *)
(* latched bit to clear.                                                   *)
ReplyIsTruthful ==
  [][\A scope \in Nodes :
       ApplyReset(scope) => (ResetReply(scope) <=> tree' # tree)]_vars

(* Block k is cleared k spacings after the first one and never before:     *)
(* released and the countdown implement the timetable.                     *)
Promise == INSTANCE Timetable WITH
  connected <- breaker = "Closed",
  age <- IF released = NBlocks THEN (NBlocks - 1) * Spacing + 1
         ELSE released * Spacing - nextRelease,
  cleared <- {b \in Blocks : b < released}
KeepsTimetable == Promise!Spec

(* A site that stays connected gets every block back.                      *)
EveryBlockReturns == <>[](breaker = "Closed") => <>[](released = NBlocks)
=============================================================================
