------------------------------- MODULE Shell -------------------------------
(***************************************************************************)
(* The simulation task and the surfaces around it (bess-emulator: sim.rs,  *)
(* sim/scenario.rs, modbus.rs, http.rs; bess-scenario: player.rs).         *)
(*                                                                         *)
(* One task owns the plant.  It drains the command channel, fires what the *)
(* scenario has due, steps, publishes a snapshot that overwrites the one   *)
(* before and then broadcasts the tick's events.  The surfaces run beside  *)
(* it on other threads: a Modbus session reads the snapshot and writes     *)
(* registers, a REST client posts setpoints and scenarios and waits for    *)
(* its turn in the channel, a WebSocket stream collects events and shows   *)
(* them with the latest snapshot.                                          *)
(*                                                                         *)
(* The plant is what the surfaces tell apart: its run (a load starts a new *)
(* one), tick, external setpoint and the length of its event log.  Of a    *)
(* setpoint only its origin matters.                                       *)
(***************************************************************************)
EXTENDS Surfaces, FiniteSetsExt, SequencesExt

CONSTANTS
  Schedules,  \* of each run, the ticks of its scenario's events, ascending
  CAPACITY,   \* of the command channel
  MaxEvents,  \* bound: events of a tick
  Sessions,   \* which clients may be connected together
  Posted      \* what a REST client posts: a number of its own, 0, or None,
              \* no setpoint, when the EMS follows its plan

ASSUME ShellAssumption ==
  /\ Schedules \in Seq(Seq(Nat)) /\ Schedules # << >>
  /\ MaxEvents \in Nat
  /\ None \notin [run : Nat, first : Int, n : Nat]  \* no batch of events either

Runs == DOMAIN Schedules

(* Where a setpoint comes from: 0, a client's own number; a run, the       *)
(* number that run's holding registers showed.                             *)
Origin == 0..Len(Schedules)

VARIABLES
  clients,   \* the clients connected, for good
  sim,       \* the plant: run, tick, setpoint, count
  cursor,    \* Player::cursor
  status,    \* Task::status: how many events the cached status calls fired
  commands,  \* the command channel
  snapshot,  \* the watch channel
  task,      \* what the task does next, with the events still to broadcast
  modbus,    \* the setpoint a mode write has read, if any
  http,      \* the REST client
  receiver,  \* the stream's receiver: batches waiting, how many were lost
  push,      \* the message the stream is building
  shown      \* its last message

plant == <<sim, cursor, status>>
stream == <<receiver, push, shown>>
vars == <<clients, plant, commands, snapshot, task, modbus, http, stream>>

Fresh(run) == [run |-> run, tick |-> 0, setpoint |-> None, count |-> 0]

(* Task::snapshot                                                          *)
View(s, fired) == [sim |-> s, fired |-> fired]

Idle == [doing |-> "commands", batch |-> None]
Blank == [batches |-> << >>, lost |-> 0, drained |-> FALSE]

Init ==
  /\ clients \in Sessions
  /\ sim = Fresh(1) /\ cursor = 0 /\ status = 0
  /\ commands = << >>
  /\ snapshot = View(sim, status)
  /\ task = Idle
  /\ modbus = None
  /\ http = [doing |-> "idle", command |-> None]
  /\ receiver = [waiting |-> << >>, lost |-> 0]
  /\ push = Blank
  /\ shown = [run |-> 1, count |-> 0, batches |-> << >>, lost |-> 0,
              upto |-> [run |-> 1, seq |-> 0]]

-----------------------------------------------------------------------------
(* The task.                                                               *)

SetSetpoint(origin) == [kind |-> "setpoint", origin |-> origin]
SetSpeed    == [kind |-> "speed", origin |-> None]
ResetAlarms == [kind |-> "reset", origin |-> None]
Load        == [kind |-> "load", origin |-> None]

(* The commands that carry a channel for their answer.                     *)
Asking == {"reset", "load"}

(* Command::SetSetpointW                                                   *)
ApplySetpoint ==
  /\ Head(commands).kind = "setpoint"
  /\ sim' = [sim EXCEPT !.setpoint = Head(commands).origin]
  /\ UNCHANGED <<cursor, status, snapshot, task>>

(* Command::SetSpeed: the pace is no part of the model but for fairness.   *)
ApplySpeed ==
  /\ Head(commands).kind = "speed"
  /\ UNCHANGED <<sim, cursor, status, snapshot, task>>

(* Command::ResetAlarms: the tree changes, the log only with the next tick *)
(* (Plant has the reset itself), and no snapshot goes out.                 *)
ApplyReset ==
  /\ Head(commands).kind = "reset"
  /\ task' = [task EXCEPT !.doing = "reply"]
  /\ UNCHANGED <<sim, cursor, status, snapshot>>

(* Mutant: the cursor survives.                                            *)
ReloadKeepsCursor(run) == [sim |-> Fresh(run), cursor |-> cursor, status |-> 0]

(* Command::LoadScenario: the plant, the player and the status start over. *)
Reload(run) == [sim |-> Fresh(run), cursor |-> 0, status |-> 0]

(* What a load sends before it answers.                                    *)
LoadSends(view) == snapshot' = view

ApplyLoad ==
  /\ Head(commands).kind = "load"
  /\ LET new == Reload(sim.run + 1)
     IN  /\ sim' = new.sim /\ cursor' = new.cursor /\ status' = new.status
         /\ LoadSends(View(new.sim, new.status))
  /\ task' = [task EXCEPT !.doing = "reply"]

Command ==
  /\ task.doing = "commands"
  /\ commands # << >>
  /\ ApplySetpoint \/ ApplySpeed \/ ApplyReset \/ ApplyLoad
  /\ commands' = Tail(commands)
  /\ UNCHANGED <<clients, modbus, http, stream>>

Reply ==
  /\ task.doing = "reply"
  /\ http' = [http EXCEPT !.doing = "answered"]
  /\ task' = Idle
  /\ UNCHANGED <<clients, plant, commands, snapshot, modbus, stream>>

(* Player::due: the cursor past everything scheduled at or before a tick.  *)
DueBy(tick) ==
  Cardinality({i \in DOMAIN Schedules[sim.run] : Schedules[sim.run][i] <= tick})

(* Mutant: numbers that forget the batch's own length.                     *)
BatchFromCount(s, n) == [run |-> s.run, first |-> s.count, n |-> n]
(* TickEvents                                                              *)
Batch(s, n) == [run |-> s.run, first |-> s.count + 1 - n, n |-> n]

(* Mutant: a full backlog refuses the newest batch.                        *)
ReceivedIfRoom(batch) ==
  IF Len(receiver.waiting) = EVENT_BACKLOG
  THEN [receiver EXCEPT !.lost = @ + 1]
  ELSE [receiver EXCEPT !.waiting = Append(@, batch)]
(* A broadcast, at the stream's receiver: the oldest batch makes room.     *)
Received(batch) ==
  LET all == Append(receiver.waiting, batch)
  IN  IF "stream" \notin clients THEN receiver
      ELSE IF Len(all) > EVENT_BACKLOG
      THEN [waiting |-> Tail(all), lost |-> receiver.lost + 1]
      ELSE [receiver EXCEPT !.waiting = all]

SendBatch(batch) == receiver' = IF batch = None THEN receiver ELSE Received(batch)

(* Mutant: the events go out before the snapshot.                          *)
PublishEventsFirst(part, view, batch) ==
  \/ part = "step" /\ SendBatch(batch) /\ UNCHANGED snapshot
  \/ part = "broadcast" /\ snapshot' = view /\ UNCHANGED receiver
(* The two parts of what a tick publishes.  Snapshot first.                *)
Publish(part, view, batch) ==
  \/ part = "step" /\ snapshot' = view /\ UNCHANGED receiver
  \/ part = "broadcast" /\ SendBatch(batch) /\ UNCHANGED snapshot

(* Task::tick: fire what is due, step, publish ...                         *)
Step ==
  /\ task.doing = "commands" /\ commands = << >>
  /\ sim.tick < MaxTick
  /\ cursor' = Max({cursor, DueBy(sim.tick)})
  /\ status' = IF cursor' # cursor THEN cursor' ELSE status
  /\ \E n \in 0..MaxEvents :
       /\ sim' = [sim EXCEPT !.tick = @ + 1, !.count = @ + n]
       /\ LET batch == IF n = 0 THEN None ELSE Batch(sim', n)
          IN  /\ Publish("step", View(sim', status'), batch)
              /\ task' = [doing |-> "broadcast", batch |-> batch]
  /\ UNCHANGED <<clients, commands, modbus, http, push, shown>>

(* ... in two parts, between which a surface may look.                     *)
Broadcast ==
  /\ task.doing = "broadcast"
  /\ Publish("broadcast", View(sim, status), task.batch)
  /\ task' = Idle
  /\ UNCHANGED <<clients, plant, commands, modbus, http, push, shown>>

-----------------------------------------------------------------------------
(* The Modbus session: every write is a try_send.  A REST client in the    *)
(* queue has the next free place.                                          *)

(* Mutant: a write may overtake the client that waits.                     *)
RoomForAnyone == Len(commands) < CAPACITY

Room == Len(commands) < CAPACITY /\ http.doing # "queueing"

(* PlantService::send: queued, or answered ServerDeviceBusy.               *)
TrySend(command) ==
  commands' = IF Room THEN Append(commands, command) ELSE commands

(* A setpoint, or mode 0.                                                  *)
WriteRegisters ==
  /\ "modbus" \in clients /\ modbus = None
  /\ \E origin \in {0, None} : TrySend(SetSetpoint(origin))
  /\ UNCHANGED <<clients, plant, snapshot, task, modbus, http, stream>>

(* Mode 1: read the setpoint back from the snapshot ...                    *)
ReadSetpoint ==
  /\ "modbus" \in clients /\ modbus = None
  /\ modbus' = snapshot.sim.run
  /\ UNCHANGED <<clients, plant, commands, snapshot, task, http, stream>>

(* ... and write it.                                                       *)
WriteMode ==
  /\ modbus # None
  /\ TrySend(SetSetpoint(modbus))
  /\ modbus' = None
  /\ UNCHANGED <<clients, plant, snapshot, task, http, stream>>

-----------------------------------------------------------------------------
(* The REST client: one request at a time, sent when its turn comes.       *)

Post ==
  /\ "http" \in clients
  /\ http.doing = "idle"
  /\ \E command \in {SetSetpoint(o) : o \in Posted} \cup {SetSpeed, ResetAlarms}
                      \cup (IF sim.run < Len(Schedules) THEN {Load} ELSE {}) :
       http' = [doing |-> "queueing", command |-> command]
  /\ UNCHANGED <<clients, plant, commands, snapshot, task, modbus, stream>>

Queue ==
  /\ http.doing = "queueing" /\ Len(commands) < CAPACITY
  /\ commands' = Append(commands, http.command)
  /\ http' = IF http.command.kind \in Asking THEN [http EXCEPT !.doing = "waiting"]
             ELSE [http EXCEPT !.doing = "answered"]
  /\ UNCHANGED <<clients, plant, snapshot, task, modbus, stream>>

Answered ==
  /\ http.doing = "answered"
  /\ http' = [doing |-> "idle", command |-> None]
  /\ UNCHANGED <<clients, plant, commands, snapshot, task, modbus, stream>>

-----------------------------------------------------------------------------
(* The stream (push_summaries): try_recv until the receiver is empty, then *)
(* read the snapshot and send.                                             *)

TryRecv ==
  /\ "stream" \in clients /\ ~push.drained
  /\ IF receiver.lost > 0
     THEN /\ push' = [push EXCEPT !.lost = @ + receiver.lost]
          /\ receiver' = [receiver EXCEPT !.lost = 0]
     ELSE IF receiver.waiting # << >>
     THEN /\ push' = [push EXCEPT !.batches = Append(@, Head(receiver.waiting))]
          /\ receiver' = [receiver EXCEPT !.waiting = Tail(@)]
     ELSE push' = [push EXCEPT !.drained = TRUE] /\ UNCHANGED receiver
  /\ UNCHANGED <<clients, plant, commands, snapshot, task, modbus, http, shown>>

(* The last event told, once these batches are.                            *)
Upto(batches) ==
  IF batches = << >> THEN shown.upto
  ELSE LET b == Last(batches) IN [run |-> b.run, seq |-> b.first + b.n - 1]

(* stream_message                                                          *)
StreamMessage(s) ==
  [run |-> s.sim.run, count |-> s.sim.count,
   batches |-> push.batches, lost |-> push.lost, upto |-> Upto(push.batches)]

Push ==
  /\ push.drained
  /\ shown' = StreamMessage(snapshot)
  /\ push' = Blank
  /\ UNCHANGED <<clients, plant, commands, snapshot, task, modbus, http, receiver>>

-----------------------------------------------------------------------------
Next ==
  \/ Command \/ Reply \/ Step \/ Broadcast
  \/ WriteRegisters \/ ReadSetpoint \/ WriteMode
  \/ Post \/ Queue \/ Answered
  \/ TryRecv \/ Push

Spec == Init /\ [][Next]_vars
FairSpec ==
  /\ Spec
  /\ WF_vars(Command) /\ WF_vars(Reply) /\ WF_vars(Step) /\ WF_vars(Broadcast)
  /\ WF_vars(Queue)
  /\ WF_vars(TryRecv) /\ WF_vars(Push)
=============================================================================
