--------------------------- MODULE SessionProperties ---------------------------
(* What a person at the viewer may rely on.                                    *)
EXTENDS Session

Edge(event, bit) == event.kind # "fault" /\ event.bit = bit

(* The journal is the tail of this plant's log under the kernel's own numbers, *)
(* the number of its oldest entry says how many were dropped, and every bit    *)
(* that is set is dated by its last raise however long ago that was: no row of *)
(* the summary reads "before the journal". The bookmark never passes the log.  *)
(* Frames, jumps, resets and new plants all come between                       *)
(* (alarms/journal.rs:54, viewer/record.rs:17, viewer/session.rs:229).         *)
JournalIsTheLog ==
  /\ sim.count = Len(log)
  /\ journal.entries = [i \in 1..Smaller(Capacity, Len(log)) |->
       LET k == Len(log) - Smaller(Capacity, Len(log)) + i
       IN Entry(k, log[k].event, log[k].time)]
  /\ \A b \in sim.bits :
       /\ b \in DOMAIN journal.raised
       /\ \E i \in DOMAIN log : /\ log[i].event = Raised(b)
                               /\ journal.raised[b] = log[i].time
                               /\ \A k \in (i + 1)..Len(log) : ~Edge(log[k].event, b)
  /\ seen <= Len(log)
  /\ answer # NoTime => answer \in sim.start..Now(sim)

(* Whether watched or jumped across, every fault of the story comes on its own *)
(* tick, in order and once, and the strip counts exactly those behind the      *)
(* plant (viewer/run.rs:55, player.rs:70).                                     *)
StoryKeepsTime ==
  Playing => LET schedule == story[1].case.schedule
                 due == {i \in 1..Fired : ~schedule[i].wire}
             IN /\ ToSet(applied) = {<<i, schedule[i].tick>> : i \in due}
                /\ \A j, k \in DOMAIN applied : j < k => applied[j][1] < applied[k][1]
                /\ Fired = Cardinality({i \in DOMAIN schedule : schedule[i].tick < sim.tick})

(* A jump never runs past its target, and one that ends with its plant still   *)
(* there ends on it, with no time left over for the next frame and whatever is *)
(* due at that moment still to come (viewer/jump.rs:68).                       *)
JumpLandsOnTarget ==
  [][(/\ Jumping
      /\ AdvanceJump) =>
       /\ Now(sim') <= jump.target
       /\ jump' = NoJump <=> Now(sim') = jump.target
       /\ jump' = NoJump => accum' = 0]_sessionVars

(* Every jump comes to an end (viewer/session.rs:102).                         *)
JumpsEnd == Jumping ~> ~Jumping
================================================================================
