-------------------------- MODULE ShellProperties --------------------------
(***************************************************************************)
(* What the surfaces may rely on while the task, the Modbus session, the   *)
(* REST client and the stream interleave and a load replaces the plant.    *)
(***************************************************************************)
EXTENDS Shell

(* Each scheduled event fires exactly once, before the very tick it is     *)
(* scheduled at, whatever run it belongs to: between ticks everything      *)
(* scheduled earlier has fired and nothing else. And the scenario status a *)
(* snapshot carries is the status at its own tick, though the task         *)
(* rebuilds it only when something fires.                                  *)
FiredBefore(s) ==
  Cardinality({i \in DOMAIN Schedules[s.run] : Schedules[s.run][i] < s.tick})
EachFaultOnItsTick ==
  /\ cursor = FiredBefore(sim)
  /\ snapshot.fired = FiredBefore(snapshot.sim)

(* Nobody is told of what the snapshot does not show yet. A message of the *)
(* stream never shows an event its own snapshot does not know of: the task *)
(* publishes the snapshot before the events, the stream reads it after     *)
(* them, and a load in between only makes it newer. And a client whose     *)
(* load was answered never reads the old plant again.                      *)
SnapshotLeads ==
  /\ \A b \in ToSet(shown.batches) :
       \/ b.run < shown.run
       \/ b.run = shown.run /\ b.first + b.n - 1 <= shown.count
  /\ http.doing = "answered" /\ http.command.kind = "load" =>
       snapshot.sim.run = sim.run

-----------------------------------------------------------------------------
(* The numbers a subscriber of the stream sees run on without a gap, over  *)
(* messages, and start at 1 after a load, unless the message says that     *)
(* ticks of events were lost.                                              *)
Follows(last, b) ==
  IF b.run = last.run THEN b.first = last.seq + 1 ELSE b.run > last.run /\ b.first = 1
End(b) == [run |-> b.run, seq |-> b.first + b.n - 1]
StreamNumbersRunOn ==
  [][shown' # shown /\ shown'.lost = 0 =>
       \A i \in DOMAIN shown'.batches :
         Follows(IF i = 1 THEN shown.upto ELSE End(shown'.batches[i - 1]),
                 shown'.batches[i])]_vars

(* A setpoint in force is a number a client gave, or one the plant in      *)
(* force has shown: none survives a load.                                  *)
NoSetpointSurvivesLoad == sim.setpoint \in {None, 0, sim.run}

-----------------------------------------------------------------------------
(* Every REST request is answered, however busy Modbus keeps the channel.  *)
RequestIsAnswered == http.doing \in {"queueing", "waiting"} ~> http.doing = "answered"

(* The stream catches up with the log: what it loses is never the newest.  *)
StreamCatchesUp ==
  <>[]("stream" \in clients /\ sim.count > 0 =>
         shown.upto = [run |-> sim.run, seq |-> sim.count])
=============================================================================
